----------------------------- MODULE MiBeacon -----------------------------
(***************************************************************************)
(* gap/mibeacon.go and gap/parsers.go: what gw3 takes out of the service   *)
(* data of an advertisement.  The Go functions are operators; a Map is a   *)
(* record, a float the number of its hundredths, and a 32 bit number the   *)
(* pair of its halves, the low one first.  Texts that a number stands for  *)
(* (names of a lock's actions and errors) are the number.                  *)
(***************************************************************************)
EXTENDS CCM

Nil   == [none |-> 0]       \* a nil Map
Panic == [panic |-> 0]      \* bytes read behind the end

S8(b)     == IF b < 128 THEN b ELSE b - 256
U16(d, j) == d[j] + 256 * d[j + 1]
S16(d, j) == IF U16(d, j) < 32768 THEN U16(d, j) ELSE U16(d, j) - 65536
U24(d)    == U16(d, 1) + 65536 * d[3]
U32(d, j) == <<U16(d, j), U16(d, j + 2)>>
BE16(d, j) == 256 * d[j] + d[j + 1]
SBE16(d, j) == S16(<<d[j + 1], d[j]>>, 1)
Bit(b, n) == (b \div n) % 2 = 1
One(c)    == IF c THEN 1 ELSE 0

-----------------------------------------------------------------------------
(***************************************************************************)
(* Object 0x1001: what a button or a knob means depends on the product.    *)
(***************************************************************************)
Dimmer(d) ==
  CASE d[3] = 3 /\ d[1] = 0 /\ d[2] \in 1..5 ->
         [action |-> <<"single", "double", "triple", "quadruple", "quintuple">>[d[2]]]
    [] d[3] = 3 /\ d[1] = 1 -> [action |-> "hold", duration |-> d[2]]
    [] d[3] = 4 /\ d[1] = 0 -> [action |-> "rotate", angle |-> S8(d[2])]
    [] d[3] = 4 /\ d[1] # 0 /\ d[2] = 0 -> [action |-> "rotate_hold", angle |-> S8(d[1])]
    [] OTHER -> Nil

Action(pdid, d) ==
  CASE pdid = 950  -> Dimmer(d)
    [] pdid = 1249 -> IF d[1] < 2 THEN [action |-> <<"right", "left">>[d[1] + 1]] ELSE Nil
    [] pdid = 1983 -> IF d[3] < 3 THEN [action |-> <<"single", "double", "hold">>[d[3] + 1]] ELSE Nil
    [] OTHER -> IF d[1] = 0 THEN [action |-> "single"] ELSE [action |-> "other", bytes |-> d]

(* mibeaconLockError: the numbers above 0xC0DE0000 that it knows.          *)
LockError(key) == key[2] = 49374 /\ key[1] \in 0..16 \cup 4096..4100

Lock(d) ==
  LET key == U32(d, 2)
      own == ~LockError(key) /\ d[1] \div 16 > 0
  IN  [action |-> "lock", action_id |-> d[1] % 16, method_id |-> d[1] \div 16,
       key_id |-> IF own THEN <<key[1], 0>> ELSE key, error |-> LockError(key),
       timestamp |-> U32(d, 6)]

Motion(pdid, d) ==
  IF pdid = 2691 THEN [action |-> "motion", motion |-> 1, illuminance |-> U24(d)]
  ELSE [action |-> "motion", motion |-> 1, light |-> One(U24(d) >= 100)]

Humidity(pdid, u) == IF pdid \in {903, 1371} THEN 100 * (u \div 10) ELSE 10 * u

(* Objects below 0x1000 say what has happened.                             *)
Event(eid, pdid, d) ==
  LET Is(id, n) == eid = id /\ Len(d) = n
  IN
  CASE Is(6, 5)  -> [action |-> "fingerprint", action_id |-> d[5], key_id |-> U32(d, 1)]
    [] eid = 7   -> [action |-> "door", action_id |-> d[1]]
    [] eid = 8   -> [action |-> "armed", state |-> d[1] > 0]
    [] eid = 11  -> IF Len(d) < 9 THEN Panic ELSE Lock(d)
    [] Is(15, 3) -> Motion(pdid, d)
    [] Is(16, 2) -> IF d[1] = 0 THEN [action |-> "start", counter |-> d[2]]
                    ELSE [action |-> "finish", score |-> d[2]]
    [] OTHER -> Nil

Decode(b) ==
  LET d == b.edata
      Is(eid, n) == b.eid = eid /\ Len(d) = n
  IN
  CASE Is(4097, 3)  -> Action(b.pdid, d)
    [] b.eid = 4098 -> [sleep |-> d[1]]
    [] b.eid = 4099 -> [rssi |-> S8(d[1])]
    [] Is(4100, 2)  -> [temperature |-> 10 * S16(d, 1)]
    [] Is(4101, 2)  -> [power |-> d[1], temperature |-> 100 * d[2]]
    [] Is(4102, 2)  -> [humidity |-> Humidity(b.pdid, U16(d, 1))]
    [] Is(4103, 3)  -> IF b.pdid = 2038 THEN [light |-> One(U24(d) >= 100)]
                       ELSE [illuminance |-> U24(d)]
    [] b.eid = 4104 -> [moisture |-> d[1]]
    [] Is(4105, 2)  -> [conductivity |-> U16(d, 1)]
    [] b.eid = 4106 -> [battery |-> d[1]]
    [] Is(4109, 4)  -> [temperature |-> 10 * S16(d, 1), humidity |-> 10 * U16(d, 3)]
    [] b.eid = 4110 -> [lock |-> One(d[1] = 0)]
    [] b.eid = 4111 -> [opening |-> One(d[1] = 0)]
    [] Is(4112, 2)  -> [formaldehyde |-> S16(d, 1)]
    [] b.eid = 4114 -> [opening |-> d[1]]
    [] b.eid = 4115 -> [supply |-> d[1]]
    [] b.eid = 4116 -> [water_leak |-> d[1]]
    [] b.eid = 4117 -> [smoke |-> d[1]]
    [] b.eid = 4118 -> [gas |-> d[1]]
    [] Is(4119, 4)  -> [idle_time |-> U32(d, 1)]
    [] b.eid = 4120 -> [light |-> d[1]]
    [] b.eid = 4121 /\ d[1] < 2 -> [contact |-> 1 - d[1]]
    [] OTHER -> Event(b.eid, b.pdid, d)

-----------------------------------------------------------------------------
(***************************************************************************)
(* Decryption.  The result of a failure, of the cipher or of the tag, is   *)
(* Error.  A key for versions 2 and 3 has at least twelve bytes.           *)
(***************************************************************************)
mibeaconDecode1(data, pos, key) ==
  LET n == Len(data) IN
  Open(SubSeq(key, 1, 6) \o <<141, 61, 60, 151>> \o SubSeq(key, 7, 12),
       SubSeq(data, 1, 5) \o SubSeq(data, n - 3, n - 1) \o SubSeq(data, 6, 10),
       0, SubSeq(data, pos + 1, n - 4), <<17>>)

mibeaconDecode4(data, pos, key) ==
  LET n == Len(data) IN
  IF Len(key) \notin {16, 24, 32} THEN Error
  ELSE Open(key, SubSeq(data, 6, 11) \o SubSeq(data, 3, 5) \o SubSeq(data, n - 6, n - 4),
            4, SubSeq(data, pos + 1, n - 7) \o SubSeq(data, n - 3, n), <<17>>)

Plain(data, pos) == [ok |-> TRUE, plain |-> SubSeq(data, pos + 1, Len(data))]

Cut(data) == SubSeq(data, 1, Len(data) - 2)

Payload(data, version, frame, pos, key) ==
  CASE Bit(frame, 8) /\ version \in {2, 3} -> mibeaconDecode1(data, pos, key)
    [] Bit(frame, 8) /\ version \in {4, 5} -> mibeaconDecode4(data, pos, key)
    [] Bit(frame, 8) /\ version \notin 2..5 -> Error
    [] ~Bit(frame, 8) /\ version = 5 /\ Bit(frame, 128) -> Plain(Cut(data), pos)
    [] OTHER -> Plain(data, pos)

(* The capability byte is followed by two more, or by another two.         *)
Skip(data, version, frame) ==
  LET capab == data[12] IN
  IF ~Bit(frame, 32) THEN 11
  ELSE 12 + 2 * One(capab \div 8 = 3) + 2 * One(version = 5 /\ Bit(capab, 32))

Decrypts(data, key) ==
  Bit(U16(data, 1), 8) /\ Bit(U16(data, 1), 16) /\ Bit(U16(data, 1), 64) /\ key # <<>>

(* Where bytes behind the end are asked for: of the header, the address,   *)
(* the capability, the rest (with the two bytes that are cut off), or of   *)
(* what there is to decrypt, which must not be empty either (Open).        *)
TooShort(data, key) ==
  LET n       == Len(data)
      frame   == U16(data, 1)
      version == frame \div 4096
      pos     == Skip(data, version, frame)
      cut     == 2 * One(version = 5 /\ Bit(frame, 128))
  IN
  \/ n < 5
  \/ /\ Bit(frame, 16)
     /\ \/ n < 11
        \/ /\ Bit(frame, 64)
           /\ \/ Bit(frame, 32) /\ n < 12
              \/ ~Bit(frame, 8) /\ n - cut < pos
              \/ Decrypts(data, key) /\ version \in {2, 3} /\ n - 4 <= pos
              \/ Decrypts(data, key) /\ version \in {4, 5} /\ Len(key) \in {16, 24, 32} /\ n - 7 <= pos

(* ParseMiBeacon: useful is 0 for nothing, 1 for a key that is missing or  *)
(* does not fit, 2 for an object.                                          *)
ParseMiBeacon(data, key) ==
  LET frame   == U16(data, 1)
      version == frame \div 4096
      payload == Payload(data, version, frame, Skip(data, version, frame), key)
      mib(useful, eid, edata) ==
        [pdid |-> U16(data, 3), useful |-> useful, eid |-> eid, edata |-> edata]
  IN
  IF TooShort(data, key) THEN Panic
  ELSE IF ~Bit(frame, 16) \/ ~Bit(frame, 64) THEN mib(0, 0, <<>>)
  ELSE IF Bit(frame, 8) /\ key = <<>> THEN mib(1, 0, <<>>)
  ELSE IF ~payload.ok THEN mib(1, 0, <<>>)
  ELSE IF Len(payload.plain) < 4 THEN mib(0, 0, payload.plain)
  ELSE mib(2, U16(payload.plain, 1), SubSeq(payload.plain, 4, Len(payload.plain)))

(* mibeaconDecode4 appends the tag to the slice of the ciphertext, that is *)
(* over the counter behind it, in the buffer itself.                       *)
TagMoved(data, key) ==
  LET n == Len(data) IN
  IF Decrypts(data, key) /\ U16(data, 1) \div 4096 \in {4, 5} /\ Len(key) \in {16, 24, 32}
    THEN SubSeq(data, 1, n - 7) \o SubSeq(data, n - 3, n) \o SubSeq(data, n - 2, n)
    ELSE data

-----------------------------------------------------------------------------
(***************************************************************************)
(* The parsers of other devices.                                           *)
(***************************************************************************)
ParseATC1441(b) ==
  CASE Len(b) = 13 -> [temperature |-> 10 * SBE16(b, 7), humidity |-> 100 * b[9],
                       battery |-> b[10], voltage |-> BE16(b, 11), seq |-> b[13]]
    [] Len(b) = 15 -> [temperature |-> S16(b, 7), humidity |-> U16(b, 9),
                       voltage |-> U16(b, 11), battery |-> b[13], seq |-> b[14]]
    [] OTHER -> Nil

(* Weights are numbers of two hundredths.                                  *)
ParseMiScalesV1(b) ==
  LET u == U16(b, 2) IN
  IF Len(b) < 3 THEN Nil
  ELSE [action |-> "weight", stabilized |-> Bit(b[1], 32), removed |-> Bit(b[1], 128),
        weight |-> CASE Bit(b[1], 16) -> <<"jin", 2 * u>>
                     [] ~Bit(b[1], 16) /\ Bit(b[1], 1) -> <<"lb", 2 * u>>
                     [] OTHER -> <<"kg", u>>]

ParseMiScalesV2(b) ==
  LET u == U16(b, 12) IN
  CASE Len(b) < 12 -> Nil
    [] Len(b) = 12 -> Panic
    [] OTHER ->
       [action |-> "weight", stabilized |-> Bit(b[2], 32), removed |-> Bit(b[2], 128),
        impedance |-> IF Bit(b[2], 2) THEN U16(b, 10) ELSE -1,
        weight |-> CASE b[1] = 16 -> <<"jin", 2 * u>>
                     [] b[1] = 3 -> <<"lb", 2 * u>>
                     [] b[1] = 2 -> <<"kg", u>>
                     [] OTHER -> <<"none", 0>>]

ParseIBeacon(b) ==
  IF Len(b) # 23 \/ b[1] # 2 \/ b[2] # 21 THEN Nil
  ELSE [uuid |-> SubSeq(b, 3, 18), major |-> BE16(b, 19), minor |-> BE16(b, 21)]

=============================================================================
