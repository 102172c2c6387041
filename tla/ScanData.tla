----------------------------- MODULE ScanData -----------------------------
(***************************************************************************)
(* What btchipProcessExtResponse does with an advertisement that is no     *)
(* repetition: the event of the chip is rewritten in place, its elements   *)
(* are taken apart (gap.ParseScanResponse, one element per turn of its     *)
(* loop, up to the first it cannot take), the parser of the service and    *)
(* then that of the company is called, and the buffer goes on to the       *)
(* Bluetooth program.  An element is a length byte, a type byte and the    *)
(* rest; the bytes of a packet may be cut off at its end.                  *)
(*                                                                         *)
(* What devices send, and what it means, is module BleDevices'.            *)
(***************************************************************************)
EXTENDS BleDevices

CONSTANT MaxElements  \* bound: elements of an advertisement

ASSUME ScanDataAssumption == MaxElements \in Nat

VARIABLES
  sent,  \* the elements of the advertisement
  adv,   \* its bytes, as the chip has received them
  key,   \* config.GetBindkey of the device that sends it
  data,  \* the read buffer
  i,     \* bytes of the elements taken so far
  raw,   \* Message.Raw: where the content of the last element of each type is
  service, company, \* Message.ServiceUUID and CompanyID, None before the first
  pc,    \* "convert", "parse", "service", "company", "done" or "panic"
  given, \* what is published, of which device
  asked  \* TRUE: miioBleQueryDev has been called

vars == <<sent, adv, key, data, i, raw, service, company, pc, given, asked>>

None == <<>>

(* Ids have their low byte first.                                          *)
Environment == <<26, 24>>   \* 0x181A
BodyComp    == <<27, 24>>   \* 0x181B
Weight      == <<29, 24>>   \* 0x181D
Xiaomi      == <<149, 254>> \* 0xFE95
Google      == <<159, 254>> \* 0xFE9F
Apple       == <<76, 0>>    \* 0x004C
Nut         == <<210, 0>>   \* 0x00D2
Huami       == <<87, 1>>    \* 0x0157

-----------------------------------------------------------------------------
(***************************************************************************)
(* Elements, with what gw3 should make of them.  A short one is too short  *)
(* for what it says it is; one that is odd is published, but with what     *)
(* data cannot be said.                                                    *)
(***************************************************************************)
Rssi == 200
Publication(type, pdid, id, means) == [type |-> type, pdid |-> pdid, id |-> id, data |-> means]

Elem(bytes, gives, asks, short, odd) ==
  [bytes |-> bytes, gives |-> gives, asks |-> asks, short |-> short, odd |-> odd]
Silent(bytes, short) == Elem(bytes, <<>>, FALSE, short, FALSE)
Bytes(type, id, body) == <<Len(id \o body) + 1, type>> \o id \o body

Plain3  == Silent(<<2, 1, 6>>, FALSE)
Padding == Silent(<<0>>, FALSE)
Empty   == Silent(<<1, 9>>, FALSE)
NoType  == Silent(<<2, 48, 6>>, FALSE)
NoId    == Silent(<<2, 22, 26>>, FALSE)
NoComp  == Silent(<<2, 255, 76>>, FALSE)
NoFrame == Silent(Bytes(22, Xiaomi, <<>>), TRUE)
Name    == Silent(<<24, 9>> \o [j \in 1..23 |-> 64 + j], FALSE)
Bad     == {Padding, Empty, NoType}

Service(id, type, x) ==
  Elem(Bytes(22, id, x.bytes), <<Publication(type, 0, Mac, x.means)>>, FALSE, x = ShortScale, FALSE)

Tracker(cid, type, id, body) ==
  Elem(Bytes(255, cid, body), <<Publication(type, 0, id, [rssi |-> S8(Rssi)])>>, FALSE, FALSE, FALSE)

(* Of a frame l bytes are left.  Those gw3 reads without a look at l: the  *)
(* header, the address, the capability, and, of what it can or need not    *)
(* decrypt, trailer, counter and tag, with a byte of the object if sealed. *)
Heard(f)    == f.mac /\ f.payload
Misread(f)  == f.capab = Bonded             \* taken for three bytes
Usable(f, k) == k # NoKey /\ (f.version < 4 \/ Len(k) = 16)
Start(f)    == 11 + Len(f.capab) - 2 * One(Misread(f))

Needs(f, k) ==
  CASE ~f.mac -> 5
    [] f.mac /\ ~f.payload -> 11
    [] Heard(f) /\ ~f.secure -> Start(f) + 2 * One(f.tail)
    [] Heard(f) /\ f.secure /\ ~Usable(f, k) -> 11 + One(f.capab # <<>>)
    [] Heard(f) /\ f.secure /\ Usable(f, k) -> Start(f) + (IF f.version < 4 THEN 5 ELSE 8)

(* A device that is heard is published even if nothing can be read, unless *)
(* the object is too short.  Without its tag, which versions 2 and 3 do    *)
(* not have, data that gw3 cannot decrypt is not noticed.                  *)
MiElement(f, r, k, l) ==
  LET whole  == l = Len(Beacon(f, r))
      right  == whole /\ k = DeviceKey(f.version) /\ ~Misread(f)
      sealed == Heard(f) /\ f.secure /\ ~right /\ (k = NoKey \/ f.version >= 4)
      made   == Heard(f) /\ f.secure /\ ~right /\ ~sealed
      object == l - Start(f) - (IF f.secure THEN 4 ELSE 2 * One(f.tail))
      odd    == made \/ (Heard(f) /\ ~f.secure /\ Misread(f))
      small  == (made \/ ~f.secure) /\ object < 4
  IN  Elem(Bytes(22, Xiaomi, SubSeq(Beacon(f, r), 1, l)),
           IF ~Heard(f) \/ small THEN <<>>
           ELSE <<Publication("mi", r.pdid, Mac, IF sealed THEN Nil ELSE r.means)>>,
           sealed,
           l < Needs(f, k) \/ (Heard(f) /\ ~sealed /\ ~odd /\ r = ShortLock),
           odd)

Whole(f, r, k) == MiElement(f, r, k, Len(Beacon(f, r)))

Others ==
  {Service(Environment, "atc1441", Atc1441(t, 44)) : t \in {-1, 256}}
  \cup {Service(Environment, "atc1441", Pvvx(t, 4455)) : t \in {-1, 256}}
  \cup {Service(Weight, "miscales", Scale1(u, 25000, s, o)) :
          u \in {"kg", "lb", "jin"}, s \in BOOLEAN, o \in BOOLEAN}
  \cup {Service(BodyComp, "miscales2", Scale2(u, 25000, s, o, z)) :
          u \in {"kg", "lb", "jin"}, s \in BOOLEAN, o \in BOOLEAN, z \in {-1, 500}}
  \cup {Service(BodyComp, "miscales2", ShortScale)}
  \cup {Tracker(Apple, "ibeacon", IBeacon(m, n).means, IBeacon(m, n).bytes) : m \in {0, 257}, n \in {1, 300}}
  \cup {Tracker(Huami, "miband", Mac, <<1, 2>>)}

Mixed ==
  {Plain3, Service(Environment, "atc1441", Atc1441(-1, 44)), Tracker(Nut, "nut", Mac, <<1>>), NoId, NoComp, Name,
   NoFrame, Whole(Frame(2, <<>>, TRUE, TRUE, FALSE, FALSE), Battery(99, <<>>), NoKey),
   Silent(Bytes(22, Google, <<1>>), FALSE)} \cup Bad

(* Keys gw3 may have.  One that is too short is not tried with versions 2  *)
(* and 3: what gw3 then reads behind it depends on the build.              *)
Keys(f) ==
  IF ~f.secure THEN {NoKey}
  ELSE {NoKey, DeviceKey(f.version), WrongKey(f.version)} \cup (IF f.version < 4 THEN {} ELSE {ShortKey})

Extended(bytes) ==
  <<160, 18 + Len(bytes), 3, 4, 0>> \o Mac \o <<1, 255, 51, 52, 53, 54, Rssi, 37, 55, 56, Len(bytes)>> \o bytes

Sends(elements, k, bytes) ==
  /\ sent = elements /\ adv = bytes /\ key = k /\ data = Extended(bytes)

SendsAll(elements, k) == Sends(elements, k, FlattenSeq([n \in DOMAIN elements |-> elements[n].bytes]))

Init ==
  /\ \/ \E n \in 0..MaxElements : \E es \in [1..n -> Mixed] :
          LET bytes == FlattenSeq([m \in 1..n |-> es[m].bytes])
          IN  \E l \in 0..Len(bytes) : Sends(es, NoKey, SubSeq(bytes, 1, l))
     \/ \E e \in Others : SendsAll(<<Plain3, e>>, NoKey)
     \/ \E f \in Usual, r \in Readings : \E k \in Keys(f) : SendsAll(<<Plain3, Whole(f, r, k)>>, k)
     \/ \E f \in Frames, r \in Long : \E k \in Keys(f) : SendsAll(<<Whole(f, r, k)>>, k)
     \/ \E f \in Frames : \E k \in Keys(f), l \in 0..Len(Beacon(f, Battery(99, <<1, 2>>))) :
          SendsAll(<<MiElement(f, Battery(99, <<1, 2>>), k, l)>>, k)
  /\ i = 0 /\ raw = [t \in {} |-> <<0, 0>>] /\ service = None /\ company = None
  /\ pc = "convert" /\ given = <<>> /\ asked = FALSE

-----------------------------------------------------------------------------
(***************************************************************************)
(* RSSI and channel are cleared for the comparison with what was heard     *)
(* before (module AdvPipe), and the RSSI is put back.                      *)
(***************************************************************************)
Compared == [data EXCEPT ![18] = 0, ![19] = 0]

Restored_None == Compared       \* slip: the RSSI stays cleared

Restored == [Compared EXCEPT ![18] = data[18]]

(* The header and the fixed part take 15 bytes instead of 22.  The length  *)
(* byte is computed from extended[2], which is the class of the event (3). *)
ConvertExtendedToLegacy(extended) ==
  <<160, (extended[3] + 249) % 256, 3, 0, extended[18]>>
    \o SubSeq(extended, 5, 13) \o SubSeq(extended, 22, Len(extended))

Convert ==
  /\ pc = "convert" /\ pc' = "parse"
  /\ data' = ConvertExtendedToLegacy(Restored)
  /\ UNCHANGED <<sent, adv, key, i, raw, service, company, given, asked>>

-----------------------------------------------------------------------------
(***************************************************************************)
(* ParseScanResponse.  Elements with a service or a company have an id,    *)
(* which is read where it should be; gw3 panics where no bytes are.        *)
(***************************************************************************)
N    == Len(data) - 15
B(j) == data[15 + j]

WrongType(t) == t = 0 \/ (45 < t /\ t < 255)

Keep(t, content) ==
  [u \in DOMAIN raw \cup {t} |-> IF u = t THEN content ELSE raw[u]]

After(l) == i + 1 + l

Take(l, t) ==
  /\ raw' = Keep(t, <<i + 3, i + 1 + l>>)
  /\ i' = After(l)
  /\ IF t \in {22, 255} /\ i + 4 > N
       THEN pc' = "panic" /\ UNCHANGED <<service, company>>
       ELSE /\ service' = IF t = 22  THEN <<B(i + 3), B(i + 4)>> ELSE service
            /\ company' = IF t = 255 THEN <<B(i + 3), B(i + 4)>> ELSE company
            /\ UNCHANGED pc

Incomplete(l, t) == i + l >= N \/ WrongType(t)

ParseElement_Skips ==   \* slip: a short element is skipped, by its length
  LET l == B(i + 1)
      t == B(i + 2) IN
  /\ pc = "parse" /\ i < N
  /\ IF l < 2 THEN i' = i + l /\ UNCHANGED <<pc, raw, service, company>>
     ELSE IF Incomplete(l, t)
       THEN pc' = "service" /\ UNCHANGED <<i, raw, service, company>>
       ELSE Take(l, t)
  /\ UNCHANGED <<sent, adv, key, data, given, asked>>

ParseElement ==
  LET l == B(i + 1)
      t == B(i + 2) IN
  /\ pc = "parse" /\ i < N
  /\ IF l < 2 \/ Incomplete(l, t)
       THEN pc' = "service" /\ UNCHANGED <<i, raw, service, company>>
       ELSE Take(l, t)
  /\ UNCHANGED <<sent, adv, key, data, given, asked>>

ParseEnd ==
  /\ pc = "parse" /\ i = N
  /\ pc' = "service"
  /\ UNCHANGED <<sent, adv, key, data, i, raw, service, company, given, asked>>

-----------------------------------------------------------------------------
(***************************************************************************)
(* btchipProcessExtResponse: the two switches, each with the content of    *)
(* its type of element behind the id.  Message.MAC and RSSI are from the   *)
(* header.                                                                 *)
(***************************************************************************)
Content(t) == SubSeq(data, 15 + raw[t][1] + 2, 15 + raw[t][2])
NoContent(t) == raw[t][2] - raw[t][1] < 1

MessageMac == SubSeq(data, 7, 12)

(* btchipProcessBLE of what a parser returns.                              *)
Process(type, pdid, map) ==
  IF map = Panic THEN pc' = "panic" /\ UNCHANGED given
  ELSE /\ pc' = "company"
       /\ given' = IF map = Nil /\ type # "mi" THEN given
                   ELSE Append(given, Publication(type, pdid, MessageMac, map))

ProcessMiBeacon ==
  \E b \in {ParseMiBeacon(Content(22), key)} :
    IF b = Panic THEN pc' = "panic" /\ UNCHANGED <<given, asked, data>>
    ELSE /\ asked' = (b.useful = 1)
         /\ IF b.useful > 0 THEN \E map \in {Decode(b)} : Process("mi", b.pdid, map)
            ELSE pc' = "company" /\ UNCHANGED given
         /\ data' = SubSeq(data, 1, 15 + raw[22][1] + 1) \o TagMoved(Content(22), key)
                      \o SubSeq(data, 15 + raw[22][2] + 1, Len(data))

Service181A == Process("atc1441", 0, ParseATC1441(Content(22)))
Service181B == Process("miscales2", 0, ParseMiScalesV2(Content(22)))
Service181D == Process("miscales", 0, ParseMiScalesV1(Content(22)))

ProcessService ==
  /\ pc = "service"
  /\ IF service \notin {Environment, BodyComp, Weight, Xiaomi}
       THEN pc' = "company" /\ UNCHANGED <<given, asked, data>>
     ELSE IF NoContent(22) THEN pc' = "panic" /\ UNCHANGED <<given, asked, data>>
     ELSE IF service = Xiaomi THEN ProcessMiBeacon
     ELSE /\ UNCHANGED <<asked, data>>
          /\ CASE service = Environment -> Service181A
               [] service = BodyComp -> Service181B
               [] service = Weight -> Service181D
  /\ UNCHANGED <<sent, adv, key, i, raw, service, company>>

(* btchipProcessBLETracker; the count to ten is in AdvPipe.                *)
Track(type, id) == given' = Append(given, Publication(type, 0, id, [rssi |-> S8(data[5])]))

ProcessCompany ==
  LET beacon == ParseIBeacon(Content(255)) IN
  /\ pc = "company"
  /\ IF company = Apple /\ NoContent(255) THEN pc' = "panic" /\ UNCHANGED given
     ELSE /\ pc' = "done"
          /\ CASE company = Apple -> IF beacon = Nil THEN UNCHANGED given ELSE Track("ibeacon", beacon)
               [] company = Nut   -> Track("nut", MessageMac)
               [] company = Huami -> Track("miband", MessageMac)
               [] OTHER -> UNCHANGED given
  /\ UNCHANGED <<sent, adv, key, data, i, raw, service, company, asked>>

Next == Convert \/ ParseElement \/ ParseEnd \/ ProcessService \/ ProcessCompany

Spec     == Init /\ [][Next]_vars

(* The loop is the only thing that could go on for ever.                   *)
FairSpec == Spec /\ WF_vars(Convert \/ ParseElement \/ ParseEnd)

-----------------------------------------------------------------------------
(* What can be taken: the elements before the first bad or incomplete one; *)
(* of those, the last of a type counts.                                    *)
Readable ==
  LET length(n) == Len(FlattenSeq([m \in 1..n |-> sent[m].bytes]))
      ok(n)     == length(n) <= Len(adv) /\ \A m \in 1..n : sent[m] \notin Bad
  IN  SubSeq(sent, 1, CHOOSE n \in 0..Len(sent) : ok(n) /\ (n = Len(sent) \/ ~ok(n + 1)))

LastOf(t) == LET es == SelectSeq(Readable, LAMBDA e : e.bytes[2] = t)
             IN  IF es = <<>> THEN Plain3 ELSE es[Len(es)]

Undated(ps) == [n \in DOMAIN ps |-> [ps[n] EXCEPT !.data = Nil]]

(* gap.go:55-122, btchip_reader.go:220-266, mibeacon.go:20-417,            *)
(* parsers.go:15-114, crypt.go: what is published is what the device has   *)
(* measured, with its sign and scale and under its address, whatever frame *)
(* it is wrapped and sealed in, whatever elements precede it, however the  *)
(* data ends and whatever other parser the advertisement is for too; and   *)
(* nothing is made up of what is sealed and cannot be opened.  Exceptions, *)
(* of which the data may be anything (odd): versions 2 and 3 with a wrong  *)
(* key or bytes missing (mibeacon.go:371, "witout tag validating"), and a  *)
(* capability of version 5 with both kinds of bytes behind it that is not  *)
(* sealed (298).                                                           *)
AsMeasured ==
  pc = "done" =>
    LET gives == LastOf(22).gives \o LastOf(255).gives
    IN  IF LastOf(22).odd THEN Undated(given) = Undated(gives) ELSE given = gives

(* btchip_reader.go:240-246: a key is asked for if, and only if, sealed    *)
(* data cannot be opened.  Exceptions (see MiElement): with versions 2 and *)
(* 3 it is asked for only if there is none, a wrong one is not noticed;    *)
(* and the capability above, sealed, makes gw3 ask although its key is     *)
(* right.                                                                  *)
AsksForKeys == pc = "done" => asked = LastOf(22).asks

(* bglib.go:162-173, btchip_reader.go:198-217: the Bluetooth program is    *)
(* given who was heard, how strong and what, as in a legacy event (but for *)
(* its length byte).  Only of a frame of version 4 or 5 that gw3 has tried *)
(* to decrypt are the last bytes, counter and tag, moved.                  *)
Forwarded ==
  pc = "done" =>
    /\ Len(data) = 15 + Len(adv)
    /\ SubSeq(data, 3, 15) = <<3, 0, Rssi, 0>> \o Mac \o <<1, 255, Len(adv)>>
    /\ \A j \in DOMAIN adv : data[15 + j] # adv[j] => Len(key) = 16 /\ j > Len(adv) - 7

(* The loop ends and no byte behind the data is read, except: for an id    *)
(* that is cut in two, if the data ends there or the length of the next    *)
(* element makes it an id gw3 knows; for MiBeacon frames that are shorter  *)
(* than their control bits say (Needs), down to none at all; for objects   *)
(* and weights that are shorter than Decode and ParseMiScalesV2 take for   *)
(* granted; and for what is made up (odd), which may say it is such one.   *)
Overrun ==
  \/ LastOf(22).short \/ LastOf(22).odd
  \/ \E m \in DOMAIN Readable :
       LET n == Len(FlattenSeq([e \in 1..m |-> Readable[e].bytes])) IN
       Readable[m] \in {NoId, NoComp} /\ (n = Len(adv) \/ SubSeq(adv, n, n + 1) \in {Environment, Apple})

Finishes == <>(pc \notin {"convert", "parse"}) /\ [](pc = "panic" => Overrun)

=============================================================================
