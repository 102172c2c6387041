---------------------------- MODULE ChipFraming ----------------------------
(***************************************************************************)
(* ChipReader.Read cuts the byte stream of the Bluetooth chip into         *)
(* commands' responses and events.  The stream has bytes that belong to no *)
(* message, which differ between firmwares; a byte 0xDB of an              *)
(* advertisement is followed by a superfluous 0xDC or 0xDD in some of      *)
(* them; and the serial line loses a byte now and then.                    *)
(*                                                                         *)
(* The chip gives one byte after the other, which Read takes or the line   *)
(* loses.  What Read returns with WrongRead goes on as it is, and nothing  *)
(* here depends on it: only the messages are kept.  Reader... in the names *)
(* keeps them apart from AdvPipe's in a module that extends both.          *)
(***************************************************************************)
EXTENDS Integers, Sequences, SequencesExt, FiniteSets

CONSTANTS
  Message, \* what the chip may send
  MaxSent  \* bound: messages sent

VARIABLES
  fw,    \* the firmware of the chip
  sent,  \* the messages the chip has sent, the last of which it may still be at
  pos,   \* how many bytes of that one's frame it has given
  extra, \* a superfluous byte comes next
  lost,  \* the last message in whose frame a byte was lost, 0 for none
  hurt,  \* the messages that have lost a byte of their own
  buf,   \* what Read has gathered
  out    \* the messages that calls of Read have returned

readerVars == <<fw, sent, pos, extra, lost, hurt, buf, out>>

DB == 219
DC == 220
DD == 221

-----------------------------------------------------------------------------
(***************************************************************************)
(* What the chip sends: messages that say how long they are, of which an   *)
(* advertisement (evt_le_gap_extended_scan_response) also says how long    *)
(* its data is, and has the adv_sid 255.                                   *)
(***************************************************************************)
IsScan(m) == Len(m) >= 4 /\ m[1] = 160 /\ m[3] = 3 /\ m[4] = 4

WellFormed(m) ==
  /\ m \in Seq(0..255) /\ Len(m) \in 5..259
  /\ m[1] \in {32, 160} /\ m[2] + 4 = Len(m)
  /\ IsScan(m) => Len(m) >= 22 /\ m[16] = 255 /\ m[22] + 22 = Len(m)

ASSUME ChipFramingAssumption ==
  /\ \A m \in Message : WellFormed(m)
  /\ MaxSent \in Nat

Firmware == {"v1.4.6", "v1.5.0"}

(* The comments in btchip_reader.go:63 and bglib.go:51.                    *)
Before == IF fw = "v1.4.6" THEN <<147, 113, 98, 173>> ELSE <<192>>
After  == IF fw = "v1.4.6" THEN <<>> ELSE <<192>>

Latest == sent[Len(sent)]
Frame  == Before \o Latest \o After
Given  == pos - Len(Before)  \* bytes of Latest given; not before its first one

(* v1.5.0 adds a byte to a 0xDB behind an advertisement's header.          *)
Escapes == fw = "v1.5.0" /\ IsScan(Latest) /\ pos >= Len(Before) + 4 /\ Frame[pos + 1] = DB

Done == sent # <<>> => ~extra /\ pos = Len(Frame)

Ahead == IF extra THEN {DC, DD} ELSE {Frame[pos + 1]}

GiveByte ==
  /\ ~Done
  /\ \/ extra /\ extra' = FALSE /\ UNCHANGED pos
     \/ ~extra /\ extra' = Escapes /\ pos' = pos + 1

Send(m) ==
  /\ Done /\ Len(sent) < MaxSent
  /\ sent' = Append(sent, m) /\ pos' = 0
  /\ UNCHANGED <<fw, extra, lost, hurt, buf, out>>

(* Bound: between two lost bytes a message gets through whole.             *)
LoseByte ==
  /\ GiveByte
  /\ lost = 0 \/ lost + 1 < Len(sent)
  /\ lost' = Len(sent)
  /\ hurt' = IF ~extra /\ pos \in Len(Before)..(Len(Before) + Len(Latest) - 1)
               THEN hurt \cup {Len(sent)} ELSE hurt
  /\ UNCHANGED <<fw, sent, buf, out>>

-----------------------------------------------------------------------------
(***************************************************************************)
(* One turn of Read's loop with the byte c; isGap and expectedLen are      *)
(* functions of what has been gathered.                                    *)
(***************************************************************************)
isGap(b) == IsScan(b)

expectedLen_Wide(b) == IF Len(b) < 2 THEN 0 ELSE 8 + b[2]  \* slip: header twice

expectedLen(b) ==
  IF Len(b) < 2 THEN 0 ELSE 4 + b[2]

(* Read gives up: no payload, an advertisement too short, with a wrong     *)
(* data size, or with a wrong adv_sid (the 16th byte).                     *)
Wrong(b) ==
  \/ Len(b) = 2 /\ b[2] = 0
  \/ Len(b) = 4 /\ isGap(b) /\ expectedLen(b) < 22
  \/ Len(b) = expectedLen(b) /\ isGap(b) /\ b[22] # (Len(b) + 256 - 22) % 256
  \/ Len(b) = 16 /\ expectedLen(b) # 16 /\ isGap(b) /\ b[16] # 255

TypeByte_Loose(c) == (c \div 32) % 2 = 1  \* slip: only one bit is looked at

TypeByte(c) == c % 128 = 32

Superfluous_Any(c) ==  \* slip: in other messages too
  buf # <<>> /\ buf[Len(buf)] = DB /\ c \in {DC, DD}

Superfluous(c) == isGap(buf) /\ buf[Len(buf)] = DB /\ c \in {DC, DD}

Skip(c) == IF buf = <<>> THEN ~TypeByte(c) ELSE Superfluous(c)

Take(b) ==
  \/ Wrong(b) /\ buf' = <<>> /\ UNCHANGED out
  \/ ~Wrong(b) /\ Len(b) = expectedLen(b) /\ buf' = <<>> /\ out' = Append(out, b)
  \/ ~Wrong(b) /\ Len(b) # expectedLen(b) /\ buf' = b /\ UNCHANGED out

ReadByte ==
  /\ GiveByte
  /\ \E c \in Ahead :
       \/ Skip(c) /\ UNCHANGED <<buf, out>>
       \/ ~Skip(c) /\ Take(Append(buf, c))
  /\ UNCHANGED <<fw, sent, lost, hurt>>

ReaderInit ==
  /\ fw \in Firmware
  /\ sent = <<>> /\ pos = 0 /\ extra = FALSE /\ lost = 0 /\ hurt = {}
  /\ buf = <<>> /\ out = <<>>

ReaderNext == (\E m \in Message : Send(m)) \/ LoseByte \/ ReadByte
ReaderSpec == ReaderInit /\ [][ReaderNext]_readerVars

-----------------------------------------------------------------------------
(***************************************************************************)
(* DecodeResponse: which of the messages that btchipReader looks for.      *)
(***************************************************************************)
DecodeResponse(p) ==
  LET n == Len(p)
      is(a, b, c) == p[1] = a /\ p[3] = b /\ p[4] = c IN
  CASE is(32, 1, 3)   /\ n = 10 /\ p[2] = 6  -> "get_bt_address"
    [] is(32, 3, 28)  /\ n = 6  /\ p[2] = 2  -> "set_extended_scan"
    [] is(32, 3, 24)  /\ n = 6  /\ p[2] = 2  -> "start_discovery"
    [] is(160, 1, 0)  /\ n = 22 /\ p[2] = 18 -> "boot"
    [] is(160, 3, 4)  /\ n >= 22 /\ p[2] >= 18 /\ p[22] = n - 22 -> "scan"
    [] OTHER -> "other"

-----------------------------------------------------------------------------
(* Also bglib.go:101-103, "this shouldn't happen": the buffer of 260 bytes *)
(* is never filled.                                                        *)
ReaderTypeOK ==
  /\ fw \in Firmware /\ sent \in Seq(Message) /\ extra \in BOOLEAN
  /\ pos \in Nat /\ lost \in 0..Len(sent) /\ hurt \subseteq DOMAIN sent
  /\ buf \in Seq(0..255) /\ Len(buf) < 260
  /\ out \in Seq(Seq(0..255))

(* bglib.go:33-106: as long as no byte of a message is lost, Read returns  *)
(* exactly the messages the chip has sent, in order and without the        *)
(* firmware's additions, whatever comes between, before and after them and *)
(* whichever of the additions are lost; except that it takes a byte 0xDC   *)
(* or 0xDD of an advertisement itself, behind a 0xDB, for such an          *)
(* addition, with v1.4.6 too.                                              *)
Mistaken(m) == IsScan(m) /\ \E k \in 5..(Len(m) - 1) : m[k] = DB /\ m[k + 1] \in {DC, DD}

Exact ==
  hurt = {} /\ (\A i \in DOMAIN sent : ~Mistaken(sent[i])) =>
    /\ IsPrefix(out, sent)
    /\ Done => buf = <<>> /\ out = sent

(* bglib.go:46-98, 133-136: a lost byte costs the message it is lost from  *)
(* and no other: whatever Read has made of it, the next message that gets  *)
(* through whole is returned, and at most one wrong message is returned in *)
(* place of the damaged one.  This rests on the bytes between messages,    *)
(* which make up for what is missing, and on what a damaged message is not *)
(* (Clear): none of its bytes looks like the beginning of a message (an    *)
(* rssi of -96 does), its class is no larger than its length, for which it *)
(* is taken if that is lost, and no row of bytes 0xDC and 0xDD in it can   *)
(* be taken for additions.  What is left of a damaged advertisement is     *)
(* never returned as one that DecodeResponse does not take for an          *)
(* advertisement, and that so would pass the filter.                       *)
Clear(m) ==
  /\ \A k \in 2..Len(m) : ~TypeByte(m[k])
  /\ m[3] + 4 <= Len(m)
  /\ \A k \in 6..Len(m) : m[k] \in {DC, DD} => m[k - 1] \notin {DB, DC, DD}

LossContained ==
  /\ (\A i \in DOMAIN sent : ~Mistaken(sent[i])) /\ (\A i \in hurt : Clear(sent[i])) =>
       /\ Len(out) <= Len(sent)
       /\ Done /\ sent # <<>> /\ Len(sent) \notin hurt =>
            out # <<>> /\ out[Len(out)] = Latest
  /\ \A i \in DOMAIN out : IsScan(out[i]) => DecodeResponse(out[i]) = "scan"

=============================================================================
