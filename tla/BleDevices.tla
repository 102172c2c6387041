---------------------------- MODULE BleDevices ----------------------------
(***************************************************************************)
(* What the devices around the gateway measure and how they say it: the    *)
(* other side of MiBeacon.  A reading has the bytes of an object and what  *)
(* they mean; a frame says how an object is wrapped.  Encryption is that   *)
(* of NIST SP 800-38C, Appendix A, block by block.                         *)
(***************************************************************************)
EXTENDS MiBeacon, SequencesExt

LE16(x) == LET u == (x + 65536) % 65536 IN <<u % 256, u \div 256>>
LE24(x) == LE16(x % 65536) \o <<x \div 65536>>
U8(x)   == (x + 256) % 256

Reading(pdid, eid, data, means) == [pdid |-> pdid, eid |-> eid, data |-> data, means |-> means]

(* Hundredths of a degree and of a percent, lux, and so on.                *)
Measured ==
  {Reading(426, 4100, LE16(t), [temperature |-> 10 * t]) : t \in {-401, -1, 0, 255, 256}}
  \cup {Reading(426, 4102, LE16(h), [humidity |-> 10 * h]) : h \in {0, 455, 1000}}
  \cup {Reading(m, 4102, LE16(10 * h + k), [humidity |-> 100 * h]) : m \in {903, 1371}, h \in {0, 45}, k \in {0, 9}}
  \cup {Reading(426, 4109, LE16(t) \o LE16(h), [temperature |-> 10 * t, humidity |-> 10 * h]) :
          t \in {-15, 300}, h \in {0, 512}}
  \cup {Reading(131, 4101, <<p, t>>, [power |-> p, temperature |-> 100 * t]) : p \in {0, 2}, t \in {20, 200}}
  \cup {Reading(152, 4103, LE24(x), [illuminance |-> x]) : x \in {0, 300, 120000}}
  \cup {Reading(2038, 4103, LE24(x), [light |-> One(x = 100)]) : x \in {1, 100}}
  \cup {Reading(152, 4105, LE16(x), [conductivity |-> x]) : x \in {0, 5000}}
  \cup {Reading(1, 4112, LE16(x), [formaldehyde |-> x]) : x \in {-1, 700}}
  \cup {Reading(1, 4099, <<U8(x)>>, [rssi |-> x]) : x \in {-90, 0}}
  \cup {Reading(2038, 4119, LE16(x) \o <<0, 1>>, [idle_time |-> <<x, 256>>]) : x \in {0, 40000}}

(* One byte; 1 is on, except where the object says it the other way round. *)
Switches ==
  LET all(eid, f(_)) == {Reading(1, eid, <<x>>, f(x)) : x \in {0, 1}} IN
  all(4098, LAMBDA x : [sleep |-> x]) \cup all(4104, LAMBDA x : [moisture |-> x])
  \cup all(4110, LAMBDA x : [lock |-> 1 - x]) \cup all(4111, LAMBDA x : [opening |-> 1 - x])
  \cup all(4114, LAMBDA x : [opening |-> x]) \cup all(4115, LAMBDA x : [supply |-> x])
  \cup all(4116, LAMBDA x : [water_leak |-> x]) \cup all(4117, LAMBDA x : [smoke |-> x])
  \cup all(4118, LAMBDA x : [gas |-> x]) \cup all(4120, LAMBDA x : [light |-> x])
  \cup all(4121, LAMBDA x : [contact |-> 1 - x]) \cup {Reading(2443, 4121, <<2>>, Nil)}
  \cup all(7, LAMBDA x : [action |-> "door", action_id |-> x])
  \cup all(8, LAMBDA x : [action |-> "armed", state |-> x = 1])

Battery(b, rest) == Reading(426, 4106, <<b>> \o rest, [battery |-> b])

(* Trailing bytes are allowed for: with 12 and 13 of them the plaintext    *)
(* ends with the first block of the cipher and goes on in the second.      *)
Long == {Battery(b, [j \in 1..n |-> j]) : b \in {0, 99}, n \in {0, 1, 12, 13}}

Buttons ==
  LET button(pdid, d, means) == Reading(pdid, 4097, d, means)
      event(a) == [action |-> a]
  IN
  {button(950, <<0, 1, 3>>, event("single")), button(950, <<0, 5, 3>>, event("quintuple")),
   button(950, <<0, 6, 3>>, Nil), button(950, <<1, 4, 3>>, [action |-> "hold", duration |-> 4]),
   button(1249, <<0, 0, 0>>, event("right")), button(1249, <<1, 0, 0>>, event("left")),
   button(1983, <<0, 0, 0>>, event("single")), button(1983, <<0, 0, 2>>, event("hold")),
   button(2147, <<0, 0, 0>>, event("single")),
   button(339, <<3, 0, 1>>, [action |-> "other", bytes |-> <<3, 0, 1>>])}
  \cup {button(950, <<0, U8(a), 4>>, [action |-> "rotate", angle |-> a]) : a \in {-2, 3}}
  \cup {button(950, <<U8(a), 0, 4>>, [action |-> "rotate_hold", angle |-> a]) : a \in {-2, 3}}

(* A lock says who used it how and when, or what is wrong.                 *)
Locks ==
  LET used(how, key, id, err) ==
        Reading(1694, 11, <<16 * how + 1>> \o key \o <<1, 0, 0, 96>>,
                [action |-> "lock", action_id |-> 1, method_id |-> how, key_id |-> id,
                 error |-> err, timestamp |-> <<1, 24576>>])
  IN
  {used(2, <<7, 1, 1, 128>>, <<263, 0>>, FALSE), used(0, <<7, 1, 1, 128>>, <<263, 32769>>, FALSE),
   used(15, <<3, 0, 222, 192>>, <<3, 49374>>, TRUE), used(1, <<99, 0, 222, 192>>, <<99, 0>>, FALSE)}
  \cup {Reading(1694, 6, <<9, 0, 1, 0, 1>>, [action |-> "fingerprint", action_id |-> 1, key_id |-> <<9, 1>>])}

Movements ==
  {Reading(2701, 15, LE24(x), [action |-> "motion", motion |-> 1, light |-> One(x = 256)]) : x \in {0, 256}}
  \cup {Reading(2691, 15, LE24(70000), [action |-> "motion", motion |-> 1, illuminance |-> 70000]),
        Reading(1161, 16, <<0, 4>>, [action |-> "start", counter |-> 4]),
        Reading(1161, 16, <<1, 80>>, [action |-> "finish", score |-> 80])}

Unknown   == Reading(1, 4123, <<1, 2>>, Nil)
ShortLock == Reading(1694, 11, <<1, 7, 0, 0, 128, 1, 0, 0>>, Nil)

Readings ==
  Measured \cup Switches \cup Long \cup Buttons \cup Locks \cup Movements \cup {Unknown, ShortLock}

-----------------------------------------------------------------------------
(***************************************************************************)
(* SP 800-38C: the formatted blocks, their chain, and the counters.        *)
(***************************************************************************)
Padded(bytes) == bytes \o Zeros((16 - (Len(bytes) % 16)) % 16)

Chained(key, bytes) ==
  LET y[j \in 0..(Len(bytes) \div 16)] ==
        IF j = 0 THEN Zeros(16)
        ELSE aes(key, xorBytes(y[j - 1], SubSeq(bytes, 16 * j - 15, 16 * j)))
  IN  y[Len(bytes) \div 16]

CounterBlock(nonce, j) == Append(<<14 - Len(nonce)>> \o nonce \o Zeros(14 - Len(nonce)), j)

Encrypted(key, nonce, plain) ==
  LET stream == FlattenSeq([j \in 1..(1 + Len(plain) \div 16) |-> aes(key, CounterBlock(nonce, j))])
  IN  xorBytes(plain, stream)

Tag(key, nonce, plain) == \* of four bytes, with 0x11 as associated data
  LET b0 == <<64 + 8 + 14 - Len(nonce)>> \o nonce \o Zeros(14 - Len(nonce)) \o <<Len(plain)>>
      y  == Chained(key, b0 \o Padded(<<0, 1, 17>>) \o Padded(plain))
  IN  SubSeq(xorBytes(y, aes(key, CounterBlock(nonce, 0))), 1, 4)

-----------------------------------------------------------------------------
(***************************************************************************)
(* MiBeacon frames.                                                        *)
(***************************************************************************)
Mac     == <<6, 5, 4, 3, 2, 161>>
SeqNo   == 77
Count   == <<21, 22, 23>>
Trailer == <<31, 32>>

(* The key of the device, and those gw3 may have for it.                   *)
DeviceKey(version) == IF version < 4 THEN [j \in 1..12 |-> 3 * j] ELSE [j \in 1..16 |-> 5 * j]
WrongKey(version)  == [DeviceKey(version) EXCEPT ![1] = 4]
NoKey    == <<>>
ShortKey == <<1, 2, 3>>

(* Two bits of the capability say that two bytes follow, another one that  *)
(* two more do (version 5).                                                *)
Bonded == <<56, 11, 12, 11, 0>>

Capabilities(version) ==
  {<<>>, <<8>>, <<24, 11, 12>>} \cup (IF version = 5 THEN {<<32, 13, 14>>, Bonded} ELSE {})

Frame(version, capab, mac, payload, secure, tail) ==
  [version |-> version, capab |-> capab, mac |-> mac, payload |-> payload, secure |-> secure, tail |-> tail]

Frames ==
  {f \in UNION {{Frame(v, c, m, p, s, t) : c \in Capabilities(v), m \in BOOLEAN, p \in BOOLEAN,
                   s \in BOOLEAN, t \in BOOLEAN} : v \in 2..5} :
     f.tail => f.version = 5 /\ ~f.secure}

Usual == {Frame(5, <<8>>, TRUE, TRUE, TRUE, FALSE), Frame(3, <<>>, TRUE, TRUE, TRUE, FALSE),
          Frame(2, <<>>, TRUE, TRUE, FALSE, FALSE)}

Control(f) ==
  4096 * f.version + 128 * One(f.tail) + 64 * One(f.payload) + 32 * One(f.capab # <<>>)
    + 16 * One(f.mac) + 8 * One(f.secure)

Object(r) == LE16(r.eid) \o <<Len(r.data)>> \o r.data

Wrapped(f, r) ==
  LET head   == LE16(Control(f)) \o LE16(r.pdid) \o <<SeqNo>>
      key    == DeviceKey(f.version)
      nonce4 == Mac \o LE16(r.pdid) \o <<SeqNo>> \o Count
      key3   == SubSeq(key, 1, 6) \o <<141, 61, 60, 151>> \o SubSeq(key, 7, 12)
      nonce3 == head \o Count \o SubSeq(Mac, 1, 5)
  IN
  CASE ~f.secure -> Object(r) \o (IF f.tail THEN Trailer ELSE <<>>)
    [] f.secure /\ f.version < 4 -> Encrypted(key3, nonce3, Object(r)) \o Count \o <<200>>
    [] f.secure /\ f.version >= 4 ->
         Encrypted(key, nonce4, Object(r)) \o Count \o Tag(key, nonce4, Object(r))

Beacon(f, r) ==
  LE16(Control(f)) \o LE16(r.pdid) \o <<SeqNo>> \o (IF f.mac THEN Mac ELSE <<>>)
    \o f.capab \o (IF f.payload THEN Wrapped(f, r) ELSE <<>>)

-----------------------------------------------------------------------------
(***************************************************************************)
(* Service data and manufacturer data of others.                           *)
(***************************************************************************)
Big(x) == LET u == LE16(x) IN <<u[2], u[1]>>

Atc1441(t, h) ==
  [bytes |-> Mac \o Big(t) \o <<h, 90>> \o Big(2990) \o <<4>>,
   means |-> [temperature |-> 10 * t, humidity |-> 100 * h, battery |-> 90, voltage |-> 2990, seq |-> 4]]

Pvvx(t, h) ==
  [bytes |-> Mac \o LE16(t) \o LE16(h) \o LE16(2990) \o <<90, 4, 5>>,
   means |-> [temperature |-> t, humidity |-> h, battery |-> 90, voltage |-> 2990, seq |-> 4]]

(* Kilograms are sent as two hundredths, pounds and jin as hundredths.     *)
Units == <<"kg", "lb", "jin">>
Sent200(unit, w) == IF unit = "kg" THEN LE16(w) ELSE LE16(w \div 2)

Scale1(unit, w, stable, off) ==
  [bytes |-> <<(CASE unit = "kg" -> 2 [] unit = "lb" -> 1 [] unit = "jin" -> 16)
                 + 32 * One(stable) + 128 * One(off)>> \o Sent200(unit, w) \o <<229, 7>>,
   means |-> [action |-> "weight", stabilized |-> stable, removed |-> off, weight |-> <<unit, w>>]]

Scale2(unit, w, stable, off, imp) ==
  [bytes |-> <<CASE unit = "kg" -> 2 [] unit = "lb" -> 3 [] unit = "jin" -> 16,
               2 * One(imp >= 0) + 32 * One(stable) + 128 * One(off), 229, 7, 1, 2, 3, 4, 5>>
              \o (IF imp < 0 THEN <<0, 0>> ELSE LE16(imp)) \o Sent200(unit, w),
   means |-> [action |-> "weight", stabilized |-> stable, removed |-> off, impedance |-> imp,
              weight |-> <<unit, w>>]]

ShortScale == [bytes |-> SubSeq(Scale2("kg", 2, TRUE, FALSE, -1).bytes, 1, 12), means |-> Nil]

IBeacon(major, minor) ==
  [bytes |-> <<2, 21>> \o [j \in 1..16 |-> 100 + j] \o Big(major) \o Big(minor) \o <<197>>,
   means |-> [uuid |-> [j \in 1..16 |-> 100 + j], major |-> major, minor |-> minor]]

=============================================================================
