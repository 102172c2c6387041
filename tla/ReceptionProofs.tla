-------------------------- MODULE ReceptionProofs --------------------------
(***************************************************************************)
(* Theorems about how gw3 receives advertisements.  First ChipFraming, for *)
(* any set of messages and any number of them, in three layers: the chip   *)
(* gives a frame's bytes in order, and what Read gathers stays short       *)
(* (Inv); of a message that loses none of its bytes Read holds exactly the *)
(* part that was given (Held); and of one that has lost a byte it holds    *)
(* something that the bytes before the next message complete at the latest *)
(* (Damaged, Closing).  Then AdvPipe, for any devices and values, any      *)
(* window and any threshold.                                               *)
(***************************************************************************)
EXTENDS ChipFraming, AdvPipe, SequenceTheorems, TLAPS

Byte  == 0..255
Noise == {147, 113, 98, 173, 192}

LEMMA MessageShape ==
  ASSUME NEW m \in Message
  PROVE  /\ m \in Seq(Byte) /\ Len(m) \in 5..259
         /\ m[1] \in {32, 160} /\ m[2] + 4 = Len(m)
         /\ IsScan(m) => Len(m) >= 22 /\ m[16] = 255 /\ m[22] + 22 = Len(m)
BY ChipFramingAssumption DEF WellFormed, Byte

LEMMA Length ==
  \A m \in Message : Len(m) \in 5..259 /\ Len(m) \in Nat
BY ChipFramingAssumption DEF WellFormed

LEMMA Gaps ==
  ASSUME fw \in Firmware
  PROVE  /\ Before \in Seq(Noise) /\ After \in Seq(Noise)
         /\ fw = "v1.4.6" => Len(Before) = 4 /\ Len(After) = 0
         /\ fw = "v1.5.0" => Len(Before) = 1 /\ Len(After) = 1
<1>1. CASE fw = "v1.4.6"
  <2>1. <<147, 113, 98, 173>> \in Seq(Noise) /\ <<>> \in Seq(Noise)
    BY DEF Noise
  <2>2. QED  BY <1>1, <2>1 DEF Before, After
<1>2. CASE fw = "v1.5.0"
  <2>1. <<192>> \in Seq(Noise)
    BY DEF Noise
  <2>2. QED  BY <1>2, <2>1 DEF Before, After
<1>3. QED  BY <1>1, <1>2 DEF Firmware

LEMMA GapLengths ==
  ASSUME fw \in Firmware
  PROVE  Len(Before) \in Nat /\ Len(After) \in Nat
BY Gaps

LEMMA NoiseIsNoType ==
  \A c \in Noise : c \in Byte /\ ~TypeByte(c) /\ c \notin {DB, DC, DD}
BY DEF Noise, TypeByte, DB, DC, DD, Byte

LEMMA ExtraIsNoType ==
  \A c \in {DC, DD} : c \in Byte /\ ~TypeByte(c) /\ c # DB
BY DEF TypeByte, DB, DC, DD, Byte

(* The bytes of a frame.                                                   *)
LEMMA FrameBytes ==
  ASSUME fw \in Firmware, sent \in Seq(Message), sent # <<>>
  PROVE  /\ Latest \in Message
         /\ Frame \in Seq(Byte) /\ Len(Frame) = Len(Before) + Len(Latest) + Len(After)
         /\ \A p \in 1..Len(Frame) :
              /\ p - Len(Before) \in 1..Len(Latest) => Frame[p] = Latest[p - Len(Before)]
              /\ p - Len(Before) \notin 1..Len(Latest) => Frame[p] \in Noise
<1>1. Latest \in Message
  BY DEF Latest
<1>2. Latest \in Seq(Byte) /\ Noise \subseteq Byte
  BY <1>1, MessageShape, NoiseIsNoType
<1>3. Before \in Seq(Byte) /\ After \in Seq(Byte) /\ Before \in Seq(Noise) /\ After \in Seq(Noise)
  BY <1>2, Gaps, SeqMonotonic
<1> DEFINE mid == Before \o Latest
<1>4. /\ mid \in Seq(Byte) /\ Len(mid) = Len(Before) + Len(Latest)
      /\ \A i \in 1..(Len(Before) + Len(Latest)) :
           mid[i] = IF i <= Len(Before) THEN Before[i] ELSE Latest[i - Len(Before)]
  BY <1>2, <1>3, ConcatProperties
<1>5. /\ mid \o After \in Seq(Byte) /\ Len(mid \o After) = Len(mid) + Len(After)
      /\ \A i \in 1..(Len(mid) + Len(After)) :
           (mid \o After)[i] = IF i <= Len(mid) THEN mid[i] ELSE After[i - Len(mid)]
  <2> HIDE DEF mid
  <2>1. mid \in Seq(Byte) /\ After \in Seq(Byte)
    BY <1>3, <1>4
  <2>2. QED  BY ONLY <2>1, ConcatProperties
<1>6. Frame = mid \o After
  BY DEF Frame
<1>7. Len(Before) \in Nat /\ Len(Latest) \in Nat /\ Len(After) \in Nat
  BY <1>2, <1>3
<1>8. ASSUME NEW p \in 1..Len(Frame)
      PROVE  /\ p - Len(Before) \in 1..Len(Latest) => Frame[p] = Latest[p - Len(Before)]
             /\ p - Len(Before) \notin 1..Len(Latest) => Frame[p] \in Noise
  <2> HIDE DEF mid
  <2>1. p \in Nat /\ p >= 1 /\ p <= Len(mid) + Len(After)
    BY <1>4, <1>5, <1>6, <1>7
  <2>2. CASE p <= Len(Before)
    <3>1. Frame[p] = Before[p]
      BY <1>4, <1>5, <1>6, <1>7, <2>1, <2>2
    <3>2. QED  BY <1>3, <1>7, <2>1, <2>2, <3>1, ElementOfSeq
  <2>3. CASE p > Len(Before) /\ p <= Len(mid)
    BY <1>4, <1>5, <1>6, <1>7, <2>1, <2>3
  <2>4. CASE p > Len(mid)
    <3>1. Frame[p] = After[p - Len(mid)] /\ p - Len(mid) \in 1..Len(After)
      <4>1. Len(mid) \in Nat /\ Len(After) \in Nat
        BY <1>4, <1>7
      <4>2. p \in 1..(Len(mid) + Len(After)) /\ ~(p <= Len(mid)) /\ p - Len(mid) \in 1..Len(After)
        BY <2>1, <2>4, <4>1
      <4>3. QED  BY <1>5, <1>6, <4>2
    <3>2. After[p - Len(mid)] \in Noise
      BY <1>3, <3>1, ElementOfSeq
    <3>3. p - Len(Before) \notin 1..Len(Latest)
      BY <1>4, <1>7, <2>1, <2>4
    <3>4. QED  BY <3>1, <3>2, <3>3
  <2>5. QED  BY <1>4, <1>7, <2>1, <2>2, <2>3, <2>4
<1>9. QED  BY <1>1, <1>4, <1>5, <1>6, <1>8

-----------------------------------------------------------------------------
(***************************************************************************)
(* The chip and the line.                                                  *)
(***************************************************************************)
AfterEscaped ==
  /\ fw = "v1.5.0" /\ IsScan(Latest)
  /\ Given \in 5..Len(Latest) /\ Latest[Given] = DB

ChipInv ==
  /\ fw \in Firmware /\ sent \in Seq(Message)
  /\ pos \in Nat /\ extra \in BOOLEAN
  /\ lost \in 0..Len(sent) /\ hurt \subseteq 1..lost
  /\ sent = <<>> => pos = 0 /\ ~extra
  /\ sent # <<>> => pos <= Len(Frame) /\ (extra => AfterEscaped)

(* What can come next, and where that leaves the chip.                     *)
LEMMA NextByte ==
  ASSUME ChipInv, GiveByte, UNCHANGED <<fw, sent>>
  PROVE  /\ sent # <<>> /\ Latest \in Message /\ Latest' = Latest
         /\ Frame' = Frame /\ Len(Before') = Len(Before)
         /\ Given \in Int /\ Len(Latest) \in Nat /\ Ahead \subseteq Byte
         /\ extra => Ahead = {DC, DD} /\ Given' = Given /\ pos' = pos /\ ~extra'
         /\ ~extra => /\ pos < Len(Frame) /\ pos' = pos + 1 /\ Given' = Given + 1
                      /\ Given \in 0..(Len(Latest) - 1) => Ahead = {Latest[Given + 1]}
                      /\ Given \notin 0..(Len(Latest) - 1) => Ahead \subseteq Noise
                      /\ extra' = Escapes
<1>1. sent # <<>>
  BY DEF GiveByte, Done
<1>2. /\ Latest \in Message
      /\ Frame \in Seq(Byte) /\ Len(Frame) = Len(Before) + Len(Latest) + Len(After)
      /\ \A p \in 1..Len(Frame) :
           /\ p - Len(Before) \in 1..Len(Latest) => Frame[p] = Latest[p - Len(Before)]
           /\ p - Len(Before) \notin 1..Len(Latest) => Frame[p] \in Noise
  BY <1>1, FrameBytes DEF ChipInv
<1>3. Latest' = Latest /\ Before' = Before /\ After' = After
  BY DEF Latest, Before, After
<1>4. Frame' = Frame
  BY <1>3 DEF Frame
<1>5. Len(Before) \in Nat /\ Len(Latest) \in Nat /\ pos \in Nat /\ Len(Frame) \in Nat
  <2>1. Len(Before) \in Nat /\ Len(Frame) \in Nat
    BY <1>2, Gaps DEF ChipInv
  <2>2. QED  BY <1>2, <2>1, Length DEF ChipInv
<1>6. Given \in Int /\ Given = pos - Len(Before) /\ Given' = pos' - Len(Before)
  BY <1>3, <1>5 DEF Given
<1>7. ASSUME extra
      PROVE  Ahead = {DC, DD} /\ Given' = Given /\ pos' = pos /\ ~extra' /\ Ahead \subseteq Byte
  <2>1. Ahead = {DC, DD} /\ pos' = pos /\ ~extra'
    BY <1>7 DEF Ahead, GiveByte
  <2>2. QED  BY <1>6, <2>1, ExtraIsNoType
<1>8. ASSUME ~extra
      PROVE  /\ pos < Len(Frame) /\ pos' = pos + 1 /\ Given' = Given + 1
             /\ Given \in 0..(Len(Latest) - 1) => Ahead = {Latest[Given + 1]}
             /\ Given \notin 0..(Len(Latest) - 1) => Ahead \subseteq Noise
             /\ extra' = Escapes
             /\ Ahead \subseteq Byte
  <2>1. Ahead = {Frame[pos + 1]} /\ pos' = pos + 1 /\ extra' = Escapes
    BY <1>8 DEF Ahead, GiveByte
  <2>2. pos # Len(Frame)
    BY <1>8, <1>1 DEF GiveByte, Done
  <2>3. pos < Len(Frame)
    BY <1>1, <1>5, <2>2 DEF ChipInv
  <2>4. pos + 1 \in 1..Len(Frame) /\ pos + 1 - Len(Before) = Given + 1
    BY <1>5, <1>6, <2>3
  <2>5. /\ Given + 1 \in 1..Len(Latest) => Frame[pos + 1] = Latest[Given + 1]
        /\ Given + 1 \notin 1..Len(Latest) => Frame[pos + 1] \in Noise
    <3>1. PICK p \in 1..Len(Frame) : p = pos + 1 /\ p - Len(Before) = Given + 1
      BY <1>5, <1>6, <2>4
    <3>2. /\ p - Len(Before) \in 1..Len(Latest) => Frame[p] = Latest[p - Len(Before)]
          /\ p - Len(Before) \notin 1..Len(Latest) => Frame[p] \in Noise
      BY <1>2, <3>1
    <3>3. QED  BY <3>1, <3>2
  <2>6. Given + 1 \in 1..Len(Latest) <=> Given \in 0..(Len(Latest) - 1)
    BY <1>5, <1>6
  <2>7. Frame[pos + 1] \in Byte
    BY <1>2, <2>4, ElementOfSeq
  <2>8. Given' = Given + 1
    BY <1>5, <1>6, <2>1
  <2>9. QED  BY <2>1, <2>3, <2>5, <2>6, <2>7, <2>8
<1>9. QED  BY <1>1, <1>2, <1>3, <1>4, <1>5, <1>6, <1>7, <1>8

LEMMA ChipGives ==
  ASSUME ChipInv, GiveByte, UNCHANGED <<fw, sent>>, lost' \in 0..Len(sent), hurt' \subseteq 1..lost'
  PROVE  ChipInv'
<1>1. /\ sent # <<>> /\ Latest \in Message /\ Latest' = Latest
      /\ Frame' = Frame /\ Len(Before') = Len(Before)
      /\ Given \in Int /\ Len(Latest) \in Nat
      /\ extra => Ahead = {DC, DD} /\ Given' = Given /\ pos' = pos /\ ~extra'
      /\ ~extra => /\ pos < Len(Frame) /\ pos' = pos + 1 /\ Given' = Given + 1
                   /\ Given \in 0..(Len(Latest) - 1) => Ahead = {Latest[Given + 1]}
                   /\ Given \notin 0..(Len(Latest) - 1) => Ahead \subseteq Noise
                   /\ extra' = Escapes
  BY NextByte
<1>2. pos \in Nat /\ Len(Frame) \in Nat /\ Len(Before) \in Nat
  BY <1>1, FrameBytes, Gaps DEF ChipInv
<1>3. pos' \in Nat /\ pos' <= Len(Frame)
  BY <1>1, <1>2 DEF ChipInv
<1>4. extra' \in BOOLEAN
  <2>1. Escapes \in BOOLEAN
    BY DEF Escapes
  <2>2. QED  BY <2>1 DEF GiveByte
<1>5. ASSUME extra' PROVE AfterEscaped'
  <2>1. ~extra /\ Escapes
    BY <1>1, <1>5
  <2>2. fw = "v1.5.0" /\ IsScan(Latest) /\ Given >= 4 /\ Ahead = {DB}
    BY <1>2, <2>1 DEF Escapes, Ahead, Given
  <2>3. Given \in 0..(Len(Latest) - 1)
    <3>1. DB \notin Noise
      BY NoiseIsNoType
    <3>2. QED  BY <1>1, <2>1, <2>2, <3>1
  <2>4. Latest[Given + 1] = DB /\ Given' = Given + 1
    BY <1>1, <2>1, <2>2, <2>3
  <2>5. Given' \in 5..Len(Latest)
    BY <1>1, <2>2, <2>3, <2>4
  <2>6. fw' = "v1.5.0" /\ IsScan(Latest') /\ Latest'[Given'] = DB
    BY <1>1, <2>2, <2>4
  <2>7. QED  BY <1>1, <2>5, <2>6 DEF AfterEscaped
<1>6. QED  BY <1>1, <1>3, <1>4, <1>5 DEF ChipInv

LEMMA ChipSends ==
  ASSUME ChipInv, NEW m \in Message, Send(m)
  PROVE  /\ ChipInv' /\ Latest' = m /\ Given' = -Len(Before)
         /\ Len(sent') = Len(sent) + 1 /\ \A i \in 1..Len(sent) : sent'[i] = sent[i]
<1>1. /\ sent' = Append(sent, m) /\ pos' = 0 /\ UNCHANGED <<fw, extra, lost, hurt>>
  BY DEF Send
<1>2. sent' \in Seq(Message) /\ sent' # <<>> /\ Len(sent') = Len(sent) + 1
  BY <1>1 DEF ChipInv
<1>3. Latest' = m /\ \A i \in 1..Len(sent) : sent'[i] = sent[i]
  BY <1>1, <1>2 DEF ChipInv, Latest
<1>4. ~extra
  BY DEF Send, Done, ChipInv
<1>5. Before' = Before /\ After' = After
  BY <1>1 DEF Before, After
<1>6. Len(Before) \in Nat /\ Len(After) \in Nat /\ Len(m) \in Nat
  BY Gaps, MessageShape DEF ChipInv
<1>7. Given' = -Len(Before)
  BY <1>1, <1>5, <1>6 DEF Given
<1>8. Len(Frame') \in Nat
  <2>1. m \in Seq(Byte) /\ Before \in Seq(Byte) /\ After \in Seq(Byte)
    BY MessageShape, Gaps, NoiseIsNoType, SeqMonotonic DEF ChipInv
  <2>2. Frame' = Before \o m \o After
    BY <1>3, <1>5 DEF Frame
  <2>3. QED  BY <2>1, <2>2
<1>9. QED  BY <1>1, <1>2, <1>3, <1>4, <1>7, <1>8 DEF ChipInv

-----------------------------------------------------------------------------
(***************************************************************************)
(* Read: what it gathers is shorter than it says it is (Short), and what   *)
(* it returns as an advertisement decodes as one (Decodes).                *)
(***************************************************************************)
Short(b) ==
  Len(b) >= 2 => /\ b[2] # 0 /\ Len(b) < expectedLen(b)
                 /\ isGap(b) => expectedLen(b) >= 22

Decodes(b) == IsScan(b) => DecodeResponse(b) = "scan"

ReaderInv ==
  /\ buf \in Seq(Byte) /\ Short(buf)
  /\ out \in Seq(Seq(Byte)) /\ \A i \in 1..Len(out) : Decodes(out[i])

LEMMA Appended ==
  ASSUME NEW b \in Seq(Byte), NEW c \in Byte
  PROVE  /\ Append(b, c) \in Seq(Byte) /\ Len(Append(b, c)) = Len(b) + 1
         /\ \A i \in 1..Len(b) : Append(b, c)[i] = b[i]
         /\ Append(b, c)[Len(b) + 1] = c
         /\ Len(b) >= 2 => expectedLen(Append(b, c)) = expectedLen(b)
         /\ Len(b) >= 4 => (isGap(Append(b, c)) <=> isGap(b))
<1>1. /\ Append(b, c) \in Seq(Byte) /\ Len(Append(b, c)) = Len(b) + 1
      /\ \A i \in 1..Len(b) : Append(b, c)[i] = b[i]
      /\ Append(b, c)[Len(b) + 1] = c /\ Len(b) \in Nat
  OBVIOUS
<1>2. Len(b) >= 2 => expectedLen(Append(b, c)) = expectedLen(b)
  BY <1>1 DEF expectedLen
<1>3. Len(b) >= 4 => (isGap(Append(b, c)) <=> isGap(b))
  <2>1. Len(b) >= 4 => /\ Append(b, c)[1] = b[1] /\ Append(b, c)[3] = b[3]
                       /\ Append(b, c)[4] = b[4] /\ Len(Append(b, c)) >= 4
    BY <1>1
  <2>2. QED  BY <2>1 DEF isGap, IsScan
<1>4. QED  BY <1>1, <1>2, <1>3

(* One more byte: still short, or complete.                                *)
LEMMA Gathers ==
  ASSUME NEW b \in Seq(Byte), Short(b), NEW c \in Byte, ~Wrong(Append(b, c))
  PROVE  /\ Len(Append(b, c)) # expectedLen(Append(b, c)) => Short(Append(b, c))
         /\ Len(Append(b, c)) = expectedLen(Append(b, c)) => Decodes(Append(b, c))
<1> DEFINE a == Append(b, c)
<1>1. /\ a \in Seq(Byte)
      /\ Len(b) >= 2 => expectedLen(a) = expectedLen(b)
      /\ Len(b) >= 4 => (isGap(a) <=> isGap(b))
      /\ \A i \in 1..Len(b) : a[i] = b[i]
  BY Appended
<1>2. PICK n \in Nat : n = Len(b) /\ Len(a) = n + 1
  BY Appended
<1>3. ~Wrong(a)
  OBVIOUS
<1> HIDE DEF a
<1>4. ASSUME n >= 1
      PROVE \E v \in 1..255 : a[2] = v /\ expectedLen(a) = 4 + v /\ n + 1 <= 4 + v
  <2>1. PICK v \in 0..255 : a[2] = v
    <3>1. 2 \in 1..Len(a)
      BY <1>2, <1>4
    <3>2. a[2] \in Byte
      BY <1>1, <3>1, ElementOfSeq
    <3>3. QED  BY <3>2 DEF Byte
  <2>2. expectedLen(a) = 4 + v
    BY <1>2, <1>4, <2>1 DEF expectedLen
  <2>3. CASE n = 1
    <3>1. Len(a) = 2
      BY <1>2, <2>3
    <3>2. v # 0
      BY <1>3, <2>1, <3>1 DEF Wrong
    <3>3. QED  BY <2>1, <2>2, <2>3, <3>2
  <2>4. CASE n >= 2
    <3>1. a[2] = b[2]
      BY <1>1, <1>2, <2>4
    <3>2. b[2] # 0 /\ Len(b) < expectedLen(b) /\ expectedLen(a) = expectedLen(b)
      BY <1>1, <1>2, <2>4 DEF Short
    <3>3. v # 0 /\ n < 4 + v
      BY <1>2, <2>1, <2>2, <3>1, <3>2
    <3>4. QED  BY <2>1, <2>2, <3>3
  <2>5. QED  BY <1>4, <2>3, <2>4
<1>5. ASSUME isGap(a) PROVE n >= 3 /\ expectedLen(a) >= 22
  <2>1. n >= 3
    BY <1>2, <1>5 DEF isGap, IsScan
  <2>2. PICK v \in 1..255 : expectedLen(a) = 4 + v
    BY <1>4, <2>1
  <2>3. CASE n = 3
    <3>1. ~(expectedLen(a) < 22)
      BY <1>2, <1>3, <1>5, <2>3 DEF Wrong
    <3>2. QED  BY <2>1, <2>2, <3>1
  <2>4. CASE n >= 4
    <3>1. isGap(b) /\ expectedLen(a) = expectedLen(b)
      BY <1>1, <1>2, <1>5, <2>4
    <3>2. QED  BY <1>2, <2>4, <3>1 DEF Short
  <2>5. QED  BY <2>1, <2>3, <2>4
<1>6. ASSUME Len(a) # expectedLen(a) PROVE Short(a)
  <2>1. ASSUME n >= 1 PROVE a[2] # 0 /\ n + 1 < expectedLen(a)
    <3>1. PICK v \in 1..255 : a[2] = v /\ expectedLen(a) = 4 + v /\ n + 1 <= 4 + v
      BY <1>4, <2>1
    <3>2. n + 1 # 4 + v
      BY <1>2, <1>6, <3>1
    <3>3. QED  BY <3>1, <3>2
  <2>2. Len(a) >= 2 => n >= 1
    BY <1>2
  <2>3. QED  BY <1>2, <1>5, <2>1, <2>2 DEF Short
<1>7. ASSUME Len(a) = expectedLen(a), IsScan(a) PROVE DecodeResponse(a) = "scan"
  <2>1. isGap(a) /\ n >= 3 /\ expectedLen(a) >= 22
    BY <1>5, <1>7 DEF isGap
  <2>2. PICK v \in 1..255 : a[2] = v /\ expectedLen(a) = 4 + v
    <3>1. n >= 1
      BY <2>1
    <3>2. QED  BY <1>4, <3>1
  <2>3. n + 1 = 4 + v /\ 4 + v >= 22
    BY <1>2, <1>7, <2>1, <2>2
  <2>4. a[22] = (n + 1 + 256 - 22) % 256
    BY <1>2, <1>3, <1>7, <2>1 DEF Wrong
  <2>5. a[22] = n + 1 - 22
    BY <2>3, <2>4
  <2>6. a[1] = 160 /\ a[3] = 3 /\ a[4] = 4
    BY <1>7 DEF IsScan
  <2>7. Len(a) >= 22 /\ a[2] >= 18 /\ a[22] = Len(a) - 22
    BY <1>2, <2>2, <2>3, <2>5
  <2>8. QED  BY <2>6, <2>7 DEF DecodeResponse
<1>8. QED  BY <1>6, <1>7 DEF Decodes, a

LEMMA ReaderTakes ==
  ASSUME ReaderInv, NEW c \in Byte, Take(Append(buf, c))
  PROVE  ReaderInv'
<1>1. Append(buf, c) \in Seq(Byte)
  BY DEF ReaderInv
<1>2. <<>> \in Seq(Byte) /\ Short(<<>>)
  BY DEF Short
<1>3. CASE Wrong(Append(buf, c)) /\ buf' = <<>> /\ UNCHANGED out
  BY <1>2, <1>3 DEF ReaderInv
<1>4. CASE /\ ~Wrong(Append(buf, c)) /\ Len(Append(buf, c)) = expectedLen(Append(buf, c))
           /\ buf' = <<>> /\ out' = Append(out, Append(buf, c))
  <2>1. Decodes(Append(buf, c))
    BY <1>4, Gathers DEF ReaderInv
  <2>2. out' \in Seq(Seq(Byte)) /\ \A i \in 1..Len(out') : Decodes(out'[i])
    <3>1. out \in Seq(Seq(Byte)) /\ out' = Append(out, Append(buf, c))
      BY <1>4 DEF ReaderInv
    <3>2. out' \in Seq(Seq(Byte)) /\ Len(out') = Len(out) + 1 /\ Len(out) \in Nat
      BY <1>1, <3>1
    <3>3. ASSUME NEW i \in 1..Len(out') PROVE Decodes(out'[i])
      <4>1. CASE i \in 1..Len(out)
        BY <3>1, <4>1 DEF ReaderInv
      <4>2. CASE i = Len(out) + 1
        BY <2>1, <3>1, <4>2
      <4>3. QED  BY <3>2, <4>1, <4>2
    <3>4. QED  BY <3>2, <3>3
  <2>3. QED  BY <1>2, <1>4, <2>2 DEF ReaderInv
<1>5. CASE /\ ~Wrong(Append(buf, c)) /\ Len(Append(buf, c)) # expectedLen(Append(buf, c))
           /\ buf' = Append(buf, c) /\ UNCHANGED out
  BY <1>1, <1>5, Gathers DEF ReaderInv
<1>6. QED  BY <1>3, <1>4, <1>5 DEF Take

-----------------------------------------------------------------------------
Inv == ChipInv /\ ReaderInv

LEMMA InvInit == ReaderInit => Inv
<1> SUFFICES ASSUME ReaderInit PROVE Inv
  OBVIOUS
<1>1. ChipInv
  <2>1. sent = <<>> /\ lost = 0 /\ hurt = {} /\ pos = 0 /\ extra = FALSE /\ fw \in Firmware
    BY DEF ReaderInit
  <2>2. sent \in Seq(Message) /\ Len(sent) = 0
    BY <2>1
  <2>3. 0 \in 0..Len(sent) /\ {} \subseteq 1..0 /\ 0 \in Nat
    BY <2>2
  <2>4. QED  BY <2>1, <2>2, <2>3 DEF ChipInv
<1>2. ReaderInv
  BY DEF ReaderInit, ReaderInv, Short
<1>3. QED  BY <1>1, <1>2 DEF Inv

LEMMA InvStep == Inv /\ [ReaderNext]_readerVars => Inv'
<1> SUFFICES ASSUME Inv, [ReaderNext]_readerVars PROVE Inv'
  OBVIOUS
<1>1. ASSUME NEW m \in Message, Send(m) PROVE Inv'
  <2>1. ChipInv'
    BY <1>1, ChipSends DEF Inv
  <2>2. UNCHANGED <<buf, out>>
    BY <1>1 DEF Send
  <2>3. QED  BY <2>1, <2>2 DEF Inv, ReaderInv
<1>2. CASE LoseByte
  <2>1. lost' = Len(sent) /\ lost' \in 0..Len(sent)
    BY <1>2 DEF LoseByte, Inv, ChipInv
  <2>2. hurt \subseteq 1..lost'
    BY <2>1 DEF Inv, ChipInv
  <2>3. sent # <<>>
    BY <1>2 DEF LoseByte, GiveByte, Done
  <2>4. Len(sent) \in 1..lost'
    BY <2>1, <2>3 DEF Inv, ChipInv
  <2>5. hurt' \subseteq 1..lost'
    BY <1>2, <2>2, <2>4 DEF LoseByte
  <2>6. ChipInv'
    BY <1>2, <2>1, <2>5, ChipGives DEF LoseByte, Inv
  <2>7. QED  BY <1>2, <2>6 DEF LoseByte, Inv, ReaderInv
<1>3. CASE ReadByte
  <2>1. ChipInv'
    BY <1>3, ChipGives DEF ReadByte, Inv, ChipInv
  <2>2. Ahead \subseteq Byte
    BY <1>3, NextByte DEF ReadByte, Inv
  <2>3. ReaderInv'
    BY <1>3, <2>2, ReaderTakes DEF ReadByte, Inv, ReaderInv
  <2>4. QED  BY <2>1, <2>3 DEF Inv
<1>4. CASE UNCHANGED readerVars
  <2>1. ChipInv'
    BY <1>4 DEF Inv, ChipInv, readerVars, AfterEscaped, Frame, Latest, Given, Before, After
  <2>2. QED  BY <1>4, <2>1 DEF Inv, ReaderInv, readerVars
<1>5. QED  BY <1>1, <1>2, <1>3, <1>4 DEF ReaderNext

LEMMA Invariance == ReaderSpec => []Inv
BY InvInit, InvStep, PTL DEF ReaderSpec

(* bglib.go:101-103: whatever the line loses, Read's buffer of 260 bytes   *)
(* is never filled, since it returns at the length of the second byte.     *)
THEOREM ReaderTypeCorrect == ReaderSpec => []ReaderTypeOK
<1>1. Inv => ReaderTypeOK
  <2> SUFFICES ASSUME Inv PROVE ReaderTypeOK
    OBVIOUS
  <2>1. buf \in Seq(0..255) /\ Len(buf) < 260
    <3>1. buf \in Seq(Byte) /\ Short(buf) /\ Len(buf) \in Nat
      BY DEF Inv, ReaderInv
    <3>2. CASE Len(buf) >= 2
      <4>1. PICK v \in 0..255 : buf[2] = v
        <5>1. 2 \in 1..Len(buf)
          BY <3>1, <3>2
        <5>2. buf[2] \in Byte
          BY <3>1, <5>1, ElementOfSeq
        <5>3. QED  BY <5>2 DEF Byte
      <4>2. Len(buf) < 4 + v
        BY <4>1, <3>1, <3>2 DEF Short, expectedLen
      <4>3. QED  BY <3>1, <4>1, <4>2 DEF Byte
    <3>3. QED  BY <3>1, <3>2 DEF Byte
  <2>2. out \in Seq(Seq(0..255))
    BY DEF Inv, ReaderInv, Byte
  <2>3. hurt \subseteq DOMAIN sent
    BY DEF Inv, ChipInv
  <2>4. QED  BY <2>1, <2>2, <2>3 DEF Inv, ChipInv, ReaderTypeOK
<1>2. QED  BY <1>1, Invariance, PTL

-----------------------------------------------------------------------------
(***************************************************************************)
(* A message of which Read gets every byte.                                *)
(***************************************************************************)
Part(m, k) == SubSeq(m, 1, k)

LEMMA Parts ==
  ASSUME NEW m \in Message, NEW k \in 0..Len(m)
  PROVE  /\ Part(m, k) \in Seq(Byte) /\ Len(Part(m, k)) = k
         /\ \A i \in 1..k : Part(m, k)[i] = m[i]
         /\ k = 0 => Part(m, k) = <<>>
         /\ k = Len(m) => Part(m, k) = m
<1> m \in Seq(Byte)
  BY MessageShape
<1>1. /\ Part(m, k) \in Seq(Byte) /\ Len(Part(m, k)) = k
      /\ \A i \in 1..k : Part(m, k)[i] = m[i]
  BY SubSeqProperties DEF Part
<1>2. k = 0 => Part(m, k) = <<>>
  BY <1>1
<1>3. k = Len(m) => Part(m, k) = m
  BY <1>1, SeqEqual
<1>4. QED  BY <1>1, <1>2, <1>3

LEMMA PartGrows ==
  ASSUME NEW m \in Message, NEW k \in 0..(Len(m) - 1)
  PROVE  Append(Part(m, k), m[k + 1]) = Part(m, k + 1)
<1> m \in Seq(Byte)
  BY MessageShape
<1>1. PICK j \in 0..Len(m) : j = k + 1 /\ j \in 1..Len(m)
  OBVIOUS
<1>2. m[j] \in Byte
  BY <1>1, ElementOfSeq
<1>3. /\ Append(Part(m, k), m[j]) \in Seq(Byte) /\ Len(Append(Part(m, k), m[j])) = j
      /\ \A i \in 1..j : Append(Part(m, k), m[j])[i] = m[i]
  <2>1. Part(m, k) \in Seq(Byte) /\ Len(Part(m, k)) = k /\ \A i \in 1..k : Part(m, k)[i] = m[i]
    BY Parts
  <2>2. QED  BY <1>1, <1>2, <2>1
<1>4. Part(m, j) \in Seq(Byte) /\ Len(Part(m, j)) = j /\ \A i \in 1..j : Part(m, j)[i] = m[i]
  BY Parts
<1>5. Append(Part(m, k), m[j]) = Part(m, j)
  BY <1>3, <1>4, SeqEqual
<1>6. QED  BY <1>1, <1>5

LEMMA OwnByte ==
  ASSUME NEW m \in Message, ~Mistaken(m), NEW k \in 0..(Len(m) - 1), buf = Part(m, k)
  PROVE  /\ ~Skip(m[k + 1])
         /\ Take(Append(buf, m[k + 1])) =>
              IF k + 1 < Len(m) THEN buf' = Part(m, k + 1) /\ UNCHANGED out
                                ELSE buf' = <<>> /\ out' = Append(out, m)
<1>1. PICK L \in 5..259 : Len(m) = L
  BY Length
<1>2. /\ m \in Seq(Byte) /\ m[1] \in {32, 160} /\ m[2] + 4 = L
      /\ IsScan(m) => L >= 22 /\ m[16] = 255 /\ m[22] + 22 = L
  <2>1. /\ m \in Seq(Byte) /\ m[1] \in {32, 160} /\ m[2] + 4 = Len(m)
        /\ IsScan(m) => Len(m) >= 22 /\ m[16] = 255 /\ m[22] + 22 = Len(m)
    BY ChipFramingAssumption DEF WellFormed, Byte
  <2>2. QED  BY <1>1, <2>1
<1>3. k \in 0..(L - 1)
  BY <1>1
<1> DEFINE p == Part(m, k + 1)
<1>4. /\ Len(buf) = k /\ \A i \in 1..k : buf[i] = m[i]
      /\ k = 0 => buf = <<>>
      /\ Append(buf, m[k + 1]) = p
  <2>1. k \in 0..Len(m) /\ k < Len(m)
    BY <1>1, <1>2, <1>3
  <2>2. /\ Len(Part(m, k)) = k /\ \A i \in 1..k : Part(m, k)[i] = m[i]
        /\ k = 0 => Part(m, k) = <<>>
    BY <2>1, Parts
  <2>3. QED  BY <2>2, PartGrows
<1>5. /\ Len(p) = k + 1 /\ \A i \in 1..(k + 1) : p[i] = m[i]
      /\ k + 1 = L => p = m
  <2>1. PICK j \in 0..Len(m) : j = k + 1
    BY <1>1, <1>3
  <2>2. /\ Len(Part(m, j)) = j /\ \A i \in 1..j : Part(m, j)[i] = m[i]
        /\ j = Len(m) => Part(m, j) = m
    BY Parts
  <2>3. QED  BY <1>1, <2>1, <2>2
<1> HIDE DEF p
<1>6. ~Skip(m[k + 1])
  <2>1. CASE k = 0
    <3>1. TypeByte(m[1])
      BY <1>2 DEF TypeByte
    <3>2. QED  BY <1>4, <2>1, <3>1 DEF Skip
  <2>2. CASE k > 0
    <3>1. buf # <<>>
      <4>1. Len(buf) > 0
        BY <1>4, <2>2
      <4>2. QED  BY <4>1
    <3>2. ASSUME Superfluous(m[k + 1]) PROVE FALSE
      <4>1. isGap(buf) /\ buf[k] = DB /\ m[k + 1] \in {DC, DD}
        BY <1>4, <3>2 DEF Superfluous
      <4>2. k >= 4 /\ buf[4] = 4 /\ buf[1] = 160 /\ buf[3] = 3
        BY <1>4, <4>1 DEF isGap, IsScan
      <4>3. k # 4
        BY <4>1, <4>2 DEF DB
      <4>4. k \in 5..(Len(m) - 1)
        BY <1>1, <1>3, <4>2, <4>3
      <4>5. m[k] = DB /\ IsScan(m)
        BY <1>1, <1>4, <4>1, <4>2, <4>4 DEF IsScan
      <4>6. QED  BY <4>1, <4>4, <4>5 DEF Mistaken
    <3>3. QED  BY <3>1, <3>2 DEF Skip
  <2>3. QED  BY <1>3, <2>1, <2>2
<1>7. /\ k = 0 => expectedLen(p) = 0
      /\ k >= 1 => expectedLen(p) = L /\ p[2] = m[2]
  <2>1. k = 0 => expectedLen(p) = 0
    BY <1>5 DEF expectedLen
  <2>2. ASSUME k >= 1 PROVE expectedLen(p) = L /\ p[2] = m[2]
    <3>1. PICK v \in 0..255 : m[2] = v
      <4>1. 2 \in 1..Len(m)
        BY <1>1
      <4>2. m[2] \in Byte
        BY <1>2, <4>1, ElementOfSeq
      <4>3. QED  BY <4>2 DEF Byte
    <3>2. v + 4 = L
      BY <1>2, <3>1
    <3>3. p[2] = v
      BY <1>5, <2>2, <3>1
    <3>4. expectedLen(p) = 4 + v
      BY <1>3, <1>5, <2>2, <3>3 DEF expectedLen
    <3>5. QED  BY <3>1, <3>2, <3>3, <3>4
  <2>3. QED  BY <2>1, <2>2
<1>8. isGap(p) => IsScan(m) /\ L >= 22 /\ m[16] = 255 /\ m[22] + 22 = L /\ k >= 3
  <2>1. ASSUME isGap(p) PROVE IsScan(m) /\ k >= 3
    <3>1. k >= 3 /\ p[1] = 160 /\ p[3] = 3 /\ p[4] = 4
      BY <1>5, <2>1 DEF isGap, IsScan
    <3>2. QED  BY <1>1, <1>3, <1>5, <3>1 DEF IsScan
  <2>2. QED  BY <1>2, <2>1
<1>9. ~Wrong(p)
  <2>1. ~(Len(p) = 2 /\ p[2] = 0)
    <3>1. ASSUME k = 1, p[2] = 0 PROVE FALSE
      <4>1. 0 + 4 = L
        BY <1>2, <1>7, <3>1
      <4>2. QED  BY <4>1
    <3>2. QED  BY <1>5, <3>1
  <2>2. ~(Len(p) = 4 /\ isGap(p) /\ expectedLen(p) < 22)
    BY <1>7, <1>8
  <2>3. ~(Len(p) = expectedLen(p) /\ isGap(p) /\ p[22] # (Len(p) + 256 - 22) % 256)
    <3>1. ASSUME Len(p) = expectedLen(p), isGap(p) PROVE p[22] = (Len(p) + 256 - 22) % 256
      <4>1. k + 1 = L
        BY <1>5, <1>7, <1>8, <3>1
      <4>2. p = m /\ L >= 22 /\ m[22] + 22 = L
        BY <1>5, <1>8, <3>1, <4>1
      <4>3. PICK v \in 0..255 : m[22] = v
        <5>1. 22 \in 1..Len(m)
          BY <1>1, <4>2
        <5>2. m[22] \in Byte
          BY <1>2, <5>1, ElementOfSeq
        <5>3. QED  BY <5>2 DEF Byte
      <4>4. v = (L + 256 - 22) % 256
        <5>1. v + 22 = L
          BY <4>2, <4>3
        <5>2. QED  BY <5>1
      <4>5. QED  BY <1>1, <4>2, <4>3, <4>4
    <3>2. QED  BY <3>1
  <2>4. ~(Len(p) = 16 /\ expectedLen(p) # 16 /\ isGap(p) /\ p[16] # 255)
    <3>1. ASSUME Len(p) = 16, isGap(p) PROVE p[16] = 255
      <4>1. k + 1 = 16
        BY <1>5, <3>1
      <4>2. p[16] = m[16]
        BY <1>5, <4>1
      <4>3. QED  BY <1>8, <3>1, <4>2
    <3>2. QED  BY <3>1
  <2>5. QED  BY <2>1, <2>2, <2>3, <2>4 DEF Wrong
<1>10. Len(p) = expectedLen(p) <=> k + 1 = L
  BY <1>3, <1>5, <1>7
<1>11. ASSUME Take(p)
       PROVE IF k + 1 < Len(m) THEN buf' = p /\ UNCHANGED out
                               ELSE buf' = <<>> /\ out' = Append(out, m)
  <2>1. CASE k + 1 < L
    BY <1>1, <1>9, <1>10, <1>11, <2>1 DEF Take
  <2>2. CASE k + 1 = L
    BY <1>1, <1>5, <1>9, <1>10, <1>11, <2>2 DEF Take
  <2>3. QED  BY <1>3, <2>1, <2>2
<1>12. QED  BY <1>4, <1>6, <1>11 DEF p

(* Read has what the chip has given of the message, and nothing else.      *)
Held ==
  buf = IF Given \in 0..(Len(Latest) - 1) THEN Part(Latest, Given) ELSE <<>>

LEMMA IntactStep ==
  ASSUME ChipInv, Held, ~Mistaken(Latest), ReadByte
  PROVE  /\ Held'
         /\ extra \/ Given # Len(Latest) - 1 => UNCHANGED out
         /\ ~extra /\ Given = Len(Latest) - 1 => out' = Append(out, Latest)
<1>1. GiveByte /\ UNCHANGED <<fw, sent>>
  BY DEF ReadByte
<1>2. /\ Latest \in Message /\ Latest' = Latest
      /\ extra => Ahead = {DC, DD} /\ Given' = Given
      /\ ~extra => /\ Given' = Given + 1
                   /\ Given \in 0..(Len(Latest) - 1) => Ahead = {Latest[Given + 1]}
                   /\ Given \notin 0..(Len(Latest) - 1) => Ahead \subseteq Noise
      /\ sent # <<>>
  BY <1>1, NextByte
<1>3. PICK L \in 5..259 : Len(Latest) = L
  BY <1>2, Length
<1>4. PICK g \in Int : Given = g
  BY <1>1, NextByte
<1>5. PICK c \in Ahead : \/ Skip(c) /\ UNCHANGED <<buf, out>>
                         \/ ~Skip(c) /\ Take(Append(buf, c))
  BY DEF ReadByte
<1>6. CASE extra
  <2>1. c \in {DC, DD} /\ Given' = g
    BY <1>2, <1>4, <1>5, <1>6
  <2>2. IsScan(Latest) /\ g \in 5..L /\ Latest[g] = DB
    BY <1>2, <1>3, <1>4, <1>6 DEF ChipInv, AfterEscaped
  <2>3. Skip(c)
    <3>1. CASE g = L
      <4>1. buf = <<>>
        BY <1>3, <1>4, <3>1 DEF Held
      <4>2. QED  BY <2>1, <4>1, ExtraIsNoType DEF Skip
    <3>2. CASE g < L
      <4>1. buf = Part(Latest, g) /\ g \in 0..Len(Latest)
        BY <1>3, <1>4, <2>2, <3>2 DEF Held
      <4>2. Len(buf) = g /\ \A i \in 1..g : buf[i] = Latest[i]
        BY <1>2, <4>1, Parts
      <4>3. isGap(buf) /\ buf[Len(buf)] = DB /\ buf # <<>>
        <5>1. buf[1] = Latest[1] /\ buf[3] = Latest[3] /\ buf[4] = Latest[4] /\ buf[g] = Latest[g]
          BY <2>2, <4>2
        <5>2. Len(buf) >= 4
          BY <2>2, <4>2
        <5>3. buf # <<>>
          BY <5>2
        <5>4. QED  BY <2>2, <4>2, <5>1, <5>2, <5>3 DEF isGap, IsScan
      <4>4. QED  BY <2>1, <4>3 DEF Skip, Superfluous
    <3>3. QED  BY <2>2, <3>1, <3>2
  <2>4. UNCHANGED <<buf, out>>
    BY <1>5, <2>3
  <2>5. Held'
    BY <1>2, <1>4, <2>1, <2>4 DEF Held
  <2>6. QED  BY <1>6, <2>4, <2>5
<1>7. CASE ~extra /\ g \in 0..(L - 1)
  <2>1. c = Latest[g + 1] /\ Given' = g + 1 /\ g \in 0..(Len(Latest) - 1)
    BY <1>2, <1>3, <1>4, <1>5, <1>7
  <2>2. buf = Part(Latest, g)
    BY <1>4, <2>1 DEF Held
  <2>3. /\ ~Skip(Latest[g + 1])
        /\ Take(Append(buf, Latest[g + 1])) =>
             IF g + 1 < Len(Latest) THEN buf' = Part(Latest, g + 1) /\ UNCHANGED out
                                     ELSE buf' = <<>> /\ out' = Append(out, Latest)
    BY <1>2, <2>1, <2>2, OwnByte DEF Part
  <2>4. IF g + 1 < L THEN buf' = Part(Latest, g + 1) /\ UNCHANGED out
                     ELSE buf' = <<>> /\ out' = Append(out, Latest)
    BY <1>3, <1>5, <2>1, <2>3
  <2>5. CASE g + 1 < L
    <3>1. g + 1 \in 0..(L - 1) /\ g # L - 1
      BY <1>7, <2>5
    <3>2. Held'
      BY <1>2, <1>3, <2>1, <2>4, <2>5, <3>1 DEF Held
    <3>3. QED  BY <1>3, <1>4, <1>7, <2>4, <2>5, <3>1, <3>2
  <2>6. CASE g + 1 >= L
    <3>1. g + 1 \notin 0..(L - 1) /\ g = L - 1
      BY <1>7, <2>6
    <3>2. Held'
      BY <1>2, <1>3, <2>1, <2>4, <2>6, <3>1 DEF Held
    <3>3. QED  BY <1>3, <1>4, <1>7, <2>4, <2>6, <3>1, <3>2
  <2>7. QED  BY <1>7, <2>5, <2>6
<1>8. CASE ~extra /\ g \notin 0..(L - 1)
  <2>1. c \in Noise /\ Given' = g + 1
    BY <1>2, <1>3, <1>4, <1>5, <1>8
  <2>2. buf = <<>>
    BY <1>3, <1>4, <1>8 DEF Held
  <2>3. Skip(c)
    BY <2>1, <2>2, NoiseIsNoType DEF Skip
  <2>4. UNCHANGED <<buf, out>>
    BY <1>5, <2>3
  <2>5. Held'
    <3>1. CASE g + 1 = 0
      <4>1. Given' = 0 /\ 0 \in 0..(Len(Latest) - 1) /\ 0 \in 0..Len(Latest)
        BY <1>3, <2>1, <3>1
      <4>2. Part(Latest, 0) = <<>>
        BY <1>2, <4>1, Parts
      <4>3. QED  BY <1>2, <2>2, <2>4, <4>1, <4>2 DEF Held
    <3>2. CASE g + 1 # 0
      <4>1. g + 1 \notin 0..(L - 1)
        BY <1>8, <3>2
      <4>2. QED  BY <1>2, <1>3, <2>1, <2>2, <2>4, <4>1 DEF Held
    <3>3. QED  BY <3>1, <3>2
  <2>6. g # L - 1
    BY <1>8
  <2>7. QED  BY <1>3, <1>4, <1>8, <2>4, <2>5, <2>6
<1>9. QED  BY <1>6, <1>7, <1>8

(* A lost byte that is not the message's makes no difference.              *)
LEMMA IntactLoss ==
  ASSUME ChipInv, Held, LoseByte, hurt' = hurt, Len(sent) \notin hurt
  PROVE  /\ Held' /\ UNCHANGED <<sent, buf, out>>
         /\ extra \/ Given # Len(Latest) - 1
<1>1. GiveByte /\ UNCHANGED <<fw, sent, buf, out>>
  BY DEF LoseByte
<1>2. /\ Latest \in Message /\ Latest' = Latest
      /\ extra => Given' = Given
      /\ ~extra => Given' = Given + 1
      /\ sent # <<>> /\ Len(Before) \in Nat
  BY <1>1, NextByte, Gaps DEF ChipInv
<1>3. PICK L \in 5..259 : Len(Latest) = L
  BY <1>2, Length
<1>4. PICK g \in Int : Given = g
  BY <1>1, NextByte
<1>5. CASE extra
  BY <1>1, <1>2, <1>5 DEF Held
<1>6. CASE ~extra
  <2>1. pos \notin Len(Before)..(Len(Before) + Len(Latest) - 1)
    BY <1>6 DEF LoseByte
  <2>2. PICK B \in Nat, p \in Nat : B = Len(Before) /\ p = pos
    BY <1>2 DEF ChipInv
  <2>3. g = p - B
    BY <1>4, <2>2 DEF Given
  <2>4. p \notin B..(B + L - 1)
    BY <1>3, <2>1, <2>2
  <2>5. g \notin 0..(L - 1)
    BY <2>3, <2>4
  <2>6. buf = <<>> /\ Given' = g + 1
    BY <1>2, <1>3, <1>4, <1>6, <2>5 DEF Held
  <2>7. CASE g + 1 = 0
    <3>1. Given' = 0 /\ 0 \in 0..(Len(Latest) - 1) /\ 0 \in 0..Len(Latest)
      BY <1>3, <2>6, <2>7
    <3>2. Part(Latest, 0) = <<>>
      BY <1>2, <3>1, Parts
    <3>3. Held'
      BY <1>1, <1>2, <2>6, <3>1, <3>2 DEF Held
    <3>4. g # L - 1
      BY <2>5
    <3>5. QED  BY <1>1, <1>3, <1>4, <3>3, <3>4
  <2>8. CASE g + 1 # 0
    <3>1. g + 1 \notin 0..(L - 1) /\ g # L - 1
      BY <2>5, <2>8
    <3>2. QED  BY <1>1, <1>2, <1>3, <1>4, <2>6, <3>1 DEF Held
  <2>9. QED  BY <2>7, <2>8
<1>7. QED  BY <1>5, <1>6

-----------------------------------------------------------------------------
(***************************************************************************)
(* As long as no message has lost a byte of its own, what Read has         *)
(* returned and what it holds make up what the chip has given.             *)
(***************************************************************************)
NoMistake == \A i \in 1..Len(sent) : ~Mistaken(sent[i])

ExactInv ==
  hurt = {} /\ NoMistake =>
    /\ sent = <<>> => buf = <<>> /\ out = <<>>
    /\ sent # <<>> => Held
    /\ sent # <<>> /\ Given >= Len(Latest) => out = sent
    /\ sent # <<>> /\ Given < Len(Latest) => sent = Append(out, Latest)

LEMMA Whole ==
  ASSUME ChipInv, Done, sent # <<>>
  PROVE  Latest \in Message /\ Given = Len(Latest) + Len(After) /\ ~extra
<1>1. /\ Latest \in Message
      /\ Len(Frame) = Len(Before) + Len(Latest) + Len(After)
  BY FrameBytes DEF ChipInv
<1>2. PICK B \in Nat, L \in Nat, A \in Nat :
        B = Len(Before) /\ L = Len(Latest) /\ A = Len(After)
  BY <1>1, Length, GapLengths DEF ChipInv
<1>3. ~extra /\ pos = B + L + A
  BY <1>1, <1>2 DEF Done
<1>4. QED  BY <1>1, <1>2, <1>3 DEF Given

LEMMA ExactStep ==
  ASSUME Inv, ExactInv, [ReaderNext]_readerVars, hurt' = {}, NoMistake'
  PROVE  ExactInv'
<1>1. ASSUME NEW m \in Message, Send(m) PROVE ExactInv'
  <2>1. /\ ChipInv' /\ Latest' = m /\ Given' = -Len(Before)
        /\ Len(sent') = Len(sent) + 1 /\ \A i \in 1..Len(sent) : sent'[i] = sent[i]
    BY <1>1, ChipSends DEF Inv
  <2>2. sent' = Append(sent, m) /\ UNCHANGED <<hurt, buf, out>> /\ Done /\ sent' # <<>>
    BY <1>1 DEF Send, Inv, ChipInv
  <2>3. Len(sent) \in Nat /\ NoMistake
    BY <2>1 DEF NoMistake, Inv, ChipInv
  <2>4. buf = <<>> /\ out = sent
    <3>1. CASE sent = <<>>
      BY <2>2, <2>3, <3>1 DEF ExactInv
    <3>2. CASE sent # <<>>
      <4>1. Latest \in Message /\ Given = Len(Latest) + Len(After)
        BY <2>2, <3>2, Whole DEF Inv
      <4>2. Len(Latest) \in Nat /\ Len(After) \in Nat
        BY <4>1, Length, GapLengths DEF Inv, ChipInv
      <4>3. Given >= Len(Latest) /\ Given \notin 0..(Len(Latest) - 1)
        BY <4>1, <4>2
      <4>4. QED  BY <2>2, <2>3, <3>2, <4>3 DEF ExactInv, Held
    <3>3. QED  BY <3>1, <3>2
  <2>5. Len(Before) \in Nat /\ Len(Before) > 0 /\ Len(m) \in Nat /\ Len(m) > 0
    <3>1. fw = "v1.4.6" \/ fw = "v1.5.0"
      BY DEF Inv, ChipInv, Firmware
    <3>2. Len(Before) = 4 \/ Len(Before) = 1
      BY <3>1, Gaps DEF Firmware
    <3>3. PICK L \in 5..259 : Len(m) = L
      BY Length
    <3>4. PICK B \in {1, 4} : Len(Before) = B
      BY <3>2
    <3>5. QED  BY <3>3, <3>4
  <2>6. Given' < Len(m) /\ Given' \notin 0..(Len(m) - 1) /\ ~(Given' >= Len(m))
    BY <2>1, <2>5
  <2>7. Held' /\ sent' = Append(out', Latest')
    BY <2>1, <2>2, <2>4, <2>6 DEF Held
  <2>8. QED  BY <2>1, <2>2, <2>6, <2>7 DEF ExactInv
<1>2. CASE LoseByte
  <2>1. hurt' = {} /\ hurt' = hurt /\ sent' = sent /\ UNCHANGED <<buf, out>>
    BY <1>2 DEF LoseByte
  <2>2. sent # <<>> /\ Latest \in Message /\ Latest' = Latest /\ Given \in Int
        /\ (extra => Given' = Given) /\ (~extra => Given' = Given + 1)
    BY <1>2, NextByte DEF LoseByte, Inv
  <2>3. NoMistake /\ Held
    BY <2>1, <2>2 DEF NoMistake, ExactInv
  <2>4. Held' /\ (extra \/ Given # Len(Latest) - 1)
    BY <1>2, <2>1, <2>3, IntactLoss DEF Inv
  <2>5. Given' >= Len(Latest) <=> Given >= Len(Latest)
    <3>1. PICK L \in Nat, g \in Int : L = Len(Latest) /\ g = Given
      BY <2>2, Length
    <3>2. QED  BY <2>2, <2>4, <3>1
  <2>6. Given' < Len(Latest) <=> Given < Len(Latest)
    <3>1. PICK L \in Nat, g \in Int : L = Len(Latest) /\ g = Given
      BY <2>2, Length
    <3>2. QED  BY <2>2, <2>4, <3>1
  <2>7. QED  BY <2>1, <2>2, <2>3, <2>4, <2>5, <2>6 DEF ExactInv
<1>3. CASE ReadByte
  <2>1. hurt = {} /\ sent' = sent /\ GiveByte /\ UNCHANGED <<fw, sent>>
    BY <1>3 DEF ReadByte
  <2>2. sent # <<>> /\ Latest \in Message /\ Latest' = Latest /\ Given \in Int
        /\ (extra => Given' = Given) /\ (~extra => Given' = Given + 1)
    BY <2>1, NextByte DEF Inv
  <2>3. NoMistake /\ Held
    BY <2>1, <2>2 DEF NoMistake, ExactInv
  <2>4. ~Mistaken(Latest)
    BY <2>2, <2>3 DEF NoMistake, Latest, Inv, ChipInv
  <2>5. /\ Held'
        /\ extra \/ Given # Len(Latest) - 1 => UNCHANGED out
        /\ ~extra /\ Given = Len(Latest) - 1 => out' = Append(out, Latest)
    BY <1>3, <2>3, <2>4, IntactStep DEF Inv
  <2>6. PICK L \in Nat, g \in Int : L = Len(Latest) /\ g = Given
    BY <2>2, Length
  <2>7. /\ g >= L => out = sent
        /\ g < L => sent = Append(out, Latest)
    BY <2>1, <2>2, <2>3, <2>6 DEF ExactInv
  <2>8. CASE ~extra /\ g = L - 1
    <3>1. out' = sent' /\ Given' = L
      BY <2>1, <2>2, <2>5, <2>6, <2>7, <2>8
    <3>2. Given' >= Len(Latest') /\ ~(Given' < Len(Latest')) /\ sent' # <<>>
      BY <2>1, <2>2, <2>6, <3>1
    <3>3. QED  BY <2>5, <3>1, <3>2 DEF ExactInv
  <2>9. CASE extra \/ g # L - 1
    <3>1. out' = out
      BY <2>5, <2>6, <2>9
    <3>2. (Given' >= L <=> g >= L) /\ (Given' < L <=> g < L)
      BY <2>2, <2>6, <2>9
    <3>3. QED  BY <2>1, <2>2, <2>5, <2>6, <2>7, <3>1, <3>2 DEF ExactInv
  <2>10. QED  BY <2>8, <2>9
<1>4. CASE UNCHANGED readerVars
  <2>1. NoMistake /\ hurt = {}
    BY <1>4 DEF NoMistake, readerVars
  <2>2. QED  BY <1>4, <2>1 DEF ExactInv, Held, Given, Latest, Before, readerVars
<1>5. QED  BY <1>1, <1>2, <1>3, <1>4 DEF ReaderNext

(* bglib.go:33-106: as long as no message loses a byte of its own, Read    *)
(* returns the messages as they were sent, and all of them.                *)
THEOREM ExactCorrect == ReaderSpec => []Exact
<1>1. ReaderInit => ExactInv
  BY DEF ReaderInit, ExactInv
<1>2. Inv /\ ExactInv /\ [ReaderNext]_readerVars => ExactInv'
  <2>1. ~(hurt' = {} /\ NoMistake') => ExactInv'
    BY DEF ExactInv
  <2>2. QED  BY <2>1, ExactStep
<1>3. Inv /\ ExactInv => Exact
  <2> SUFFICES ASSUME Inv, ExactInv, hurt = {}, \A i \in DOMAIN sent : ~Mistaken(sent[i])
               PROVE  IsPrefix(out, sent) /\ (Done => buf = <<>> /\ out = sent)
    BY DEF Exact
  <2>1. NoMistake /\ out \in Seq(Seq(Byte)) /\ sent \in Seq(Message)
    BY DEF NoMistake, Inv, ChipInv, ReaderInv
  <2>2. CASE sent = <<>>
    <3>1. out = <<>> /\ buf = <<>>
      BY <2>1, <2>2 DEF ExactInv
    <3>2. QED  BY <2>2, <3>1 DEF IsPrefix
  <2>3. CASE sent # <<>>
    <3>1. ASSUME Done PROVE buf = <<>> /\ out = sent
      <4>1. Latest \in Message /\ Given = Len(Latest) + Len(After)
        BY <2>3, <3>1, Whole DEF Inv
      <4>2. PICK L \in Nat, A \in Nat : L = Len(Latest) /\ A = Len(After)
        BY <4>1, Length, GapLengths DEF Inv, ChipInv
      <4>3. Given >= Len(Latest) /\ Given \notin 0..(Len(Latest) - 1)
        BY <4>1, <4>2
      <4>4. QED  BY <2>1, <2>3, <4>3 DEF ExactInv, Held
    <3>2. IsPrefix(out, sent)
      <4>1. out = sent \/ sent = Append(out, Latest)
        <5>1. Given \in Int /\ Len(Latest) \in Nat
          <6>1. Latest \in Message /\ pos \in Nat /\ Len(Before) \in Nat
            BY <2>3, FrameBytes, Gaps DEF Inv, ChipInv
          <6>2. Given \in Int
            BY <6>1 DEF Given
          <6>3. QED  BY <6>1, <6>2, Length
        <5>2. Given >= Len(Latest) \/ Given < Len(Latest)
          BY <5>1
        <5>3. QED  BY <2>1, <2>3, <5>2 DEF ExactInv
      <4>2. QED  BY <2>1, <4>1 DEF IsPrefix
    <3>3. QED  BY <3>1, <3>2
  <2>4. QED  BY <2>2, <2>3
<1>4. QED  BY <1>1, <1>2, <1>3, Invariance, PTL DEF ReaderSpec

-----------------------------------------------------------------------------
(***************************************************************************)
(* A message that has lost a byte of its own.  Without its first byte      *)
(* nothing of it begins a message.  Without its length the class is taken  *)
(* for it, which is no larger.  Else what Read holds of it lacks the lost  *)
(* byte, and one more when a byte of the message is taken for an addition. *)
(* The firmwares' bytes behind it and before the next message are two at   *)
(* least: with them Read has what it waits for, and the next message       *)
(* begins with nothing held.                                               *)
(***************************************************************************)
HurtClear == \A i \in hurt : Clear(sent[i])

(* The current message is whole so far.                                    *)
Passing ==
  /\ Held
  /\ Given < Len(Latest) => Len(out) < Len(sent)
  /\ Given >= Len(Latest) => Len(out) <= Len(sent) /\ out # <<>> /\ out[Len(out)] = Latest

(* What is left of a damaged message takes bytes before the next one.      *)
Closing ==
  /\ Given < 0 /\ lost = Len(sent) - 1
  /\ Len(buf) >= 2 /\ expectedLen(buf) <= Len(buf) - Given
  /\ Len(out) + 1 < Len(sent)

(* Two bytes at most are missing, one of them when a byte is about to be   *)
(* taken for an addition.                                                  *)
Behind ==
  /\ expectedLen(buf) <= Len(buf) + (Len(Latest) - Given) + 2
  /\ Len(buf) <= Given \/ Given >= 5
  /\ isGap(buf) /\ buf[Len(buf)] = DB /\ Given < Len(Latest) /\ Latest[Given + 1] \in {DC, DD} =>
       expectedLen(buf) <= Len(buf) + (Len(Latest) - Given) + 1

Damaged ==
  /\ Given >= 1
  /\ \/ buf = <<>> /\ Len(out) <= Len(sent)
     \/ Len(out) < Len(sent) /\ Len(buf) = 1 /\ Given = 2 /\ ~extra
     \/ Len(out) < Len(sent) /\ Len(buf) >= 2 /\ Behind

LossInv ==
  NoMistake /\ HurtClear =>
    /\ sent = <<>> => buf = <<>> /\ out = <<>>
    /\ sent # <<>> /\ Len(sent) \notin hurt => Passing \/ Closing
    /\ Len(sent) \in hurt => Damaged

LEMMA Expected ==
  ASSUME NEW b \in Seq(Byte)
  PROVE  expectedLen(b) \in Nat
<1>1. PICK n \in Nat : Len(b) = n
  OBVIOUS
<1>2. CASE n < 2
  BY <1>1, <1>2 DEF expectedLen
<1>3. CASE n >= 2
  <2>1. 2 \in 1..Len(b)
    BY <1>1, <1>3
  <2>2. b[2] \in Byte
    BY <2>1, ElementOfSeq
  <2>3. PICK v \in 0..255 : b[2] = v
    BY <2>2 DEF Byte
  <2>4. expectedLen(b) = 4 + v
    BY <1>1, <1>3, <2>3 DEF expectedLen
  <2>5. QED  BY <2>4
<1>4. QED  BY <1>2, <1>3

(* What is left of a damaged message gets one byte more.                   *)
LEMMA DamagedTakes ==
  ASSUME Inv, NEW c \in Byte, Len(buf) >= 2, Len(out) < Len(sent), Take(Append(buf, c))
  PROVE  \/ buf' = <<>> /\ Len(out') <= Len(sent)
         \/ /\ UNCHANGED out /\ Len(buf') = Len(buf) + 1
            /\ buf' = Append(buf, c) /\ expectedLen(buf') = expectedLen(buf)
            /\ buf'[Len(buf')] = c /\ Len(buf') < expectedLen(buf')
            /\ Len(buf) >= 4 /\ isGap(buf') => isGap(buf)
            /\ isGap(buf') /\ c = DB => Len(buf) >= 4
<1>1. /\ Len(Append(buf, c)) = Len(buf) + 1
      /\ expectedLen(Append(buf, c)) = expectedLen(buf)
      /\ Append(buf, c)[Len(buf) + 1] = c
      /\ Len(buf) >= 4 => (isGap(Append(buf, c)) <=> isGap(buf))
  BY Appended DEF Inv, ReaderInv
<1>2. PICK o \in Nat, s \in Nat, n \in Nat : o = Len(out) /\ s = Len(sent) /\ n = Len(buf)
  BY DEF Inv, ReaderInv, ChipInv
<1>3. CASE buf' = <<>> /\ UNCHANGED out
  BY <1>2, <1>3
<1>4. CASE buf' = <<>> /\ out' = Append(out, Append(buf, c))
  <2>1. Append(buf, c) \in Seq(Byte) /\ out \in Seq(Seq(Byte))
    BY DEF Inv, ReaderInv
  <2>2. Len(out') = o + 1
    BY <1>2, <1>4, <2>1
  <2>3. QED  BY <1>2, <1>4, <2>2
<1>5. CASE /\ ~Wrong(Append(buf, c)) /\ Len(Append(buf, c)) # expectedLen(Append(buf, c))
           /\ buf' = Append(buf, c) /\ UNCHANGED out
  <2>1. Short(buf')
    BY <1>5, Gathers DEF Inv, ReaderInv
  <2>2. Len(buf') < expectedLen(buf')
    <3>1. Len(buf') >= 2
      BY <1>1, <1>2, <1>5
    <3>2. QED  BY <2>1, <3>1 DEF Short
  <2>3. ASSUME isGap(buf'), c = DB PROVE Len(buf) >= 4
    <3>1. Len(buf') >= 4 /\ buf'[4] = 4
      BY <2>3 DEF isGap, IsScan
    <3>2. n + 1 >= 4 /\ n + 1 # 4
      BY <1>1, <1>2, <1>5, <2>3, <3>1 DEF DB
    <3>3. QED  BY <1>2, <3>2
  <2>4. buf'[Len(buf')] = c
    BY <1>1, <1>5
  <2>5. QED  BY <1>1, <1>5, <2>2, <2>3, <2>4
<1>6. QED  BY <1>3, <1>4, <1>5 DEF Take

LEMMA DamagedReads ==
  ASSUME Inv, Damaged, sent # <<>>, Clear(Latest), ReadByte
  PROVE  Damaged'
<1>1. GiveByte /\ UNCHANGED <<fw, sent>>
  BY DEF ReadByte
<1>2. /\ Latest \in Message /\ Latest' = Latest /\ Ahead \subseteq Byte
      /\ extra => Ahead = {DC, DD} /\ Given' = Given /\ ~extra'
      /\ ~extra => /\ Given' = Given + 1
                   /\ Given \in 0..(Len(Latest) - 1) => Ahead = {Latest[Given + 1]}
                   /\ Given \notin 0..(Len(Latest) - 1) => Ahead \subseteq Noise
  BY <1>1, NextByte DEF Inv
<1>3. PICK L \in 5..259 : Len(Latest) = L
  BY <1>2, Length
<1>4. PICK g \in Int : Given = g
  BY <1>1, NextByte DEF Inv
<1>5. PICK o \in Nat, s \in Nat, n \in Nat : o = Len(out) /\ s = Len(sent) /\ n = Len(buf)
  BY DEF Inv, ReaderInv, ChipInv
<1>6. PICK e \in Nat : e = expectedLen(buf)
  BY Expected DEF Inv, ReaderInv
<1>7. PICK c \in Ahead : \/ Skip(c) /\ UNCHANGED <<buf, out>>
                         \/ ~Skip(c) /\ Take(Append(buf, c))
  BY DEF ReadByte
<1>8. g >= 1
  BY <1>4 DEF Damaged
<1>9. extra => IsScan(Latest) /\ g \in 5..L /\ Latest[g] = DB
  BY <1>1, <1>3, <1>4 DEF Inv, ChipInv, AfterEscaped, GiveByte, Done
<1>10. /\ \A k \in 2..L : ~TypeByte(Latest[k])
       /\ Latest[3] + 4 <= L
       /\ \A k \in 6..L : Latest[k] \in {DC, DD} => Latest[k - 1] \notin {DB, DC, DD}
  BY <1>3 DEF Clear
<1>11. PICK h \in Int : Given' = h /\ h >= g /\ h <= g + 1
  BY <1>2, <1>4
<1>12. CASE buf = <<>> /\ Len(out) <= Len(sent)
  <2>1. ~TypeByte(c)
    <3>1. CASE extra
      BY <1>2, <1>7, <3>1, ExtraIsNoType
    <3>2. CASE ~extra /\ g <= L - 1
      <4>1. g \in 0..(L - 1) /\ g + 1 \in 2..L
        BY <1>8, <3>2
      <4>2. c = Latest[g + 1]
        BY <1>2, <1>3, <1>4, <1>7, <3>2, <4>1
      <4>3. QED  BY <1>10, <4>1, <4>2
    <3>3. CASE ~extra /\ ~(g <= L - 1)
      <4>1. g \notin 0..(L - 1)
        BY <3>3
      <4>2. c \in Noise
        BY <1>2, <1>3, <1>4, <1>7, <3>3, <4>1
      <4>3. QED  BY <4>2, NoiseIsNoType
    <3>4. QED  BY <3>1, <3>2, <3>3
  <2>2. buf' = <<>> /\ out' = out
    BY <1>7, <1>12, <2>1 DEF Skip
  <2>3. h >= 1
    BY <1>8, <1>11
  <2>4. QED  BY <1>1, <1>11, <1>12, <2>2, <2>3 DEF Damaged
<1>13. CASE Len(out) < Len(sent) /\ Len(buf) = 1 /\ Given = 2 /\ ~extra
  <2>1. g = 2 /\ n = 1 /\ o < s /\ g \in 0..(L - 1)
    BY <1>4, <1>5, <1>13
  <2>2. c = Latest[3] /\ Given' = 3
    BY <1>2, <1>3, <1>4, <1>7, <1>13, <2>1
  <2>3. ~Skip(c)
    <3>1. buf # <<>>
      <4>1. Len(buf) = 1
        BY <1>13
      <4>2. QED  BY <4>1
    <3>2. ~(Len(buf) >= 4)
      BY <1>13
    <3>3. ~isGap(buf)
      BY <3>2 DEF isGap, IsScan
    <3>4. QED  BY <3>1, <3>3 DEF Skip, Superfluous
  <2>4. Take(Append(buf, c)) /\ c \in Byte
    BY <1>2, <1>7, <2>3
  <2>5. Append(buf, c) \in Seq(Byte) /\ Len(Append(buf, c)) = 2 /\ Append(buf, c)[2] = c
    <3>1. buf \in Seq(Byte) /\ Len(buf) = 1 /\ Len(buf) + 1 = 2
      BY <1>13 DEF Inv, ReaderInv
    <3>2. /\ Append(buf, c) \in Seq(Byte) /\ Len(Append(buf, c)) = Len(buf) + 1
          /\ Append(buf, c)[Len(buf) + 1] = c
      BY <2>4, <3>1, Appended
    <3>3. QED  BY <3>1, <3>2
  <2>6. PICK v \in 0..255 : c = v
    BY <2>4 DEF Byte
  <2>7. expectedLen(Append(buf, c)) = 4 + v /\ v + 4 <= L
    BY <1>10, <2>2, <2>5, <2>6 DEF expectedLen
  <2>8. CASE buf' = <<>> /\ UNCHANGED out
    <3>1. Len(out') <= Len(sent') /\ Given' >= 1
      BY <1>1, <1>5, <2>1, <2>2, <2>8
    <3>2. QED  BY <2>8, <3>1 DEF Damaged
  <2>9. CASE buf' = Append(buf, c) /\ UNCHANGED out
    <3>1. ~isGap(buf') /\ Len(buf') = 2
      BY <2>5, <2>9 DEF isGap, IsScan
    <3>2. 4 + v <= 2 + (L - 3) + 2 /\ 2 <= 3
      BY <2>7
    <3>3. expectedLen(buf') <= Len(buf') + (Len(Latest') - Given') + 2
      BY <1>2, <1>3, <2>2, <2>7, <2>9, <3>1, <3>2
    <3>4. Len(buf') <= Given' /\ Given' >= 1 /\ Len(buf') >= 2
      BY <2>2, <3>1
    <3>5. Len(out') < Len(sent')
      BY <1>1, <1>13, <2>9
    <3>6. QED  BY <3>1, <3>3, <3>4, <3>5 DEF Damaged, Behind
  <2>10. Len(Append(buf, c)) # expectedLen(Append(buf, c))
    BY <2>5, <2>7
  <2>11. QED  BY <2>4, <2>8, <2>9, <2>10 DEF Take
<1>14. CASE Len(out) < Len(sent) /\ Len(buf) >= 2 /\ Behind
  <2>1. /\ e <= n + (L - g) + 2 /\ (n <= g \/ g >= 5) /\ o < s /\ n >= 2
        /\ isGap(buf) /\ buf[n] = DB /\ g < L /\ Latest[g + 1] \in {DC, DD} =>
             e <= n + (L - g) + 1
    BY <1>3, <1>4, <1>5, <1>6, <1>14 DEF Behind
  <2>2. buf # <<>>
    BY <1>14
  <2>3. Len(sent') = s /\ Len(Latest') = L /\ Latest' = Latest
    BY <1>1, <1>2, <1>3, <1>5
  <2>4. isGap(buf) => n >= 4
    BY <1>5 DEF isGap, IsScan
  <2>5. isGap(buf) /\ buf[n] = DB => n >= 5
    <3>1. ASSUME isGap(buf), buf[n] = DB PROVE n # 4
      BY <3>1 DEF isGap, IsScan, DB
    <3>2. QED  BY <2>4, <3>1
  <2>6. CASE Superfluous(c)
    <3>1. isGap(buf) /\ buf[n] = DB /\ c \in {DC, DD} /\ UNCHANGED <<buf, out>>
      BY <1>5, <1>7, <2>2, <2>6 DEF Superfluous, Skip
    <3>2. n >= 5 /\ g >= 5
      BY <2>1, <2>5, <3>1
    <3>3. CASE extra
      <4>1. h = g
        BY <1>2, <1>4, <1>11, <3>3
      <4>2. /\ expectedLen(buf') = e /\ Len(buf') = n /\ Given' = g /\ Len(out') = o
            /\ isGap(buf') <=> isGap(buf)
        BY <1>5, <1>6, <1>11, <3>1, <4>1
      <4>3. Behind'
        BY <2>1, <2>3, <3>1, <4>2 DEF Behind
      <4>4. QED  BY <1>8, <2>1, <2>3, <4>2, <4>3 DEF Damaged
    <3>4. CASE ~extra
      <4>1. h = g + 1
        BY <1>2, <1>4, <1>11, <3>4
      <4>2. g <= L - 1 /\ c = Latest[g + 1]
        <5>1. ASSUME ~(g <= L - 1) PROVE FALSE
          <6>1. g \notin 0..(L - 1)
            BY <5>1
          <6>2. c \in Noise
            BY <1>2, <1>3, <1>4, <1>7, <3>4, <6>1
          <6>3. QED  BY <3>1, <6>2, NoiseIsNoType
        <5>2. g \in 0..(L - 1)
          BY <1>8, <5>1
        <5>3. QED  BY <1>2, <1>3, <1>4, <1>7, <3>4, <5>2
      <4>3. e <= n + (L - g) + 1
        BY <2>1, <3>1, <4>2
      <4>4. ASSUME g + 1 < L, Latest[g + 2] \in {DC, DD} PROVE FALSE
        <5>1. PICK k \in 6..L : k = g + 2 /\ k - 1 = g + 1
          BY <3>2, <4>4
        <5>2. Latest[k - 1] \notin {DB, DC, DD}
          BY <1>10, <4>4, <5>1
        <5>3. QED  BY <3>1, <4>2, <5>1, <5>2
      <4>5. /\ expectedLen(buf') = e /\ Len(buf') = n /\ Given' = g + 1 /\ Len(out') = o
        BY <1>5, <1>6, <1>11, <3>1, <4>1
      <4>6. /\ e <= n + (L - (g + 1)) + 2 /\ g + 1 >= 5 /\ g + 1 >= 1
        BY <3>2, <4>3
      <4>7. (g + 1) + 1 = g + 2
        OBVIOUS
      <4>8. Behind'
        BY <2>3, <4>4, <4>5, <4>6, <4>7 DEF Behind
      <4>9. QED  BY <2>1, <2>3, <4>5, <4>6, <4>8 DEF Damaged
    <3>5. QED  BY <3>3, <3>4
  <2>7. CASE ~Superfluous(c)
    <3>1. Take(Append(buf, c)) /\ c \in Byte
      BY <1>2, <1>7, <2>2, <2>7 DEF Skip
    <3>2. CASE buf' = <<>> /\ Len(out') <= Len(sent)
      <4>1. Given' >= 1
        BY <1>8, <1>11
      <4>2. QED  BY <1>1, <3>2, <4>1 DEF Damaged
    <3>3. CASE /\ UNCHANGED out /\ Len(buf') = Len(buf) + 1
               /\ buf' = Append(buf, c) /\ expectedLen(buf') = expectedLen(buf)
               /\ buf'[Len(buf')] = c
               /\ isGap(buf') /\ c = DB => Len(buf) >= 4
      <4>1. Len(buf') = n + 1 /\ expectedLen(buf') = e /\ Len(out') = o
        BY <1>5, <1>6, <3>3
      <4>2. e <= (n + 1) + (L - h) + 2 /\ ((n + 1) <= h \/ h >= 5)
        <5>1. CASE extra
          <6>1. g >= 5
            BY <1>9, <5>1
          <6>2. QED  BY <1>11, <2>1, <6>1
        <5>2. CASE ~extra
          <6>1. h = g + 1
            BY <1>2, <1>4, <1>11, <5>2
          <6>2. QED  BY <2>1, <6>1
        <5>3. QED  BY <5>1, <5>2
      <4>3. ASSUME isGap(buf'), c = DB, h < L, Latest[h + 1] \in {DC, DD} PROVE FALSE
        <5>1. ~extra
          BY <1>2, <1>7, <4>3, ExtraIsNoType
        <5>2. h = g + 1
          BY <1>2, <1>4, <1>11, <5>1
        <5>3. n >= 4 /\ g >= 4
          BY <1>5, <2>1, <3>3, <4>3
        <5>4. g \in 0..(L - 1)
          BY <1>8, <4>3, <5>2
        <5>5. c = Latest[g + 1]
          BY <1>2, <1>3, <1>4, <1>7, <5>1, <5>4
        <5>6. PICK k \in 6..L : k = h + 1 /\ k - 1 = g + 1
          BY <4>3, <5>2, <5>3
        <5>7. Latest[k - 1] \notin {DB, DC, DD}
          BY <1>10, <4>3, <5>6
        <5>8. QED  BY <4>3, <5>5, <5>6, <5>7
      <4>4. Behind'
        BY <1>11, <2>3, <3>3, <4>1, <4>2, <4>3 DEF Behind
      <4>5. h >= 1 /\ n + 1 >= 2
        BY <1>8, <1>11, <2>1
      <4>6. QED  BY <1>11, <2>1, <2>3, <4>1, <4>4, <4>5 DEF Damaged
    <3>4. QED  BY <1>14, <3>1, <3>2, <3>3, DamagedTakes
  <2>8. QED  BY <2>6, <2>7
<1>15. QED  BY <1>12, <1>13, <1>14 DEF Damaged

(* The message was whole until it loses a byte.                            *)
LEMMA Loses ==
  ASSUME Inv, Passing, ~Mistaken(Latest), LoseByte, hurt' # hurt
  PROVE  Damaged'
<1>1. GiveByte /\ UNCHANGED <<fw, sent, buf, out>> /\ ~extra
      /\ pos \in Len(Before)..(Len(Before) + Len(Latest) - 1)
  BY DEF LoseByte
<1>2. /\ Latest \in Message /\ Latest' = Latest /\ Given' = Given + 1 /\ extra' = Escapes
  BY <1>1, NextByte DEF Inv
<1>3. PICK L \in 5..259 : Len(Latest) = L
  BY <1>2, Length
<1>4. PICK g \in Int : Given = g
  BY <1>1, NextByte DEF Inv
<1>5. PICK o \in Nat, s \in Nat : o = Len(out) /\ s = Len(sent)
  BY DEF Inv, ReaderInv, ChipInv
<1>6. g \in 0..(L - 1) /\ pos = Len(Before) + g
  <2>1. PICK B \in Nat, p \in Nat : B = Len(Before) /\ p = pos
    BY Gaps DEF Inv, ChipInv
  <2>2. g = p - B /\ p \in B..(B + L - 1)
    BY <1>1, <1>3, <1>4, <2>1 DEF Given
  <2>3. QED  BY <2>1, <2>2
<1>7. buf = Part(Latest, g) /\ o < s /\ g \in 0..Len(Latest)
  BY <1>3, <1>4, <1>5, <1>6 DEF Passing, Held
<1>8. /\ buf \in Seq(Byte) /\ Len(buf) = g /\ (g = 0 => buf = <<>>)
      /\ \A i \in 1..g : buf[i] = Latest[i]
  BY <1>2, <1>7, Parts
<1>9. Given' = g + 1 /\ g + 1 >= 1 /\ Len(out') = o /\ Len(sent') = s
  BY <1>1, <1>2, <1>4, <1>5, <1>6
<1>10. CASE g = 0
  <2>1. buf' = <<>>
    BY <1>1, <1>8, <1>10
  <2>2. QED  BY <1>7, <1>9, <2>1 DEF Damaged
<1>11. CASE g = 1
  <2>1. Len(buf') = 1 /\ Given' = 2
    BY <1>1, <1>8, <1>9, <1>11
  <2>2. ~extra'
    <3>1. PICK B \in Nat : B = Len(Before)
      BY Gaps DEF Inv, ChipInv
    <3>2. ~(pos >= Len(Before) + 4)
      BY <1>6, <1>11, <3>1
    <3>3. QED  BY <1>2, <3>2 DEF Escapes
  <2>3. QED  BY <1>7, <1>9, <2>1, <2>2 DEF Damaged
<1>12. CASE g >= 2
  <2>1. expectedLen(buf') = L
    <3>1. 2 \in 1..Len(Latest) /\ 2 \in 1..g
      BY <1>3, <1>12
    <3>2. Latest[2] \in Byte /\ Latest[2] + 4 = L /\ buf[2] = Latest[2]
      <4>1. Latest \in Seq(Byte) /\ Latest[2] + 4 = Len(Latest)
        BY <1>2, MessageShape
      <4>2. Latest[2] \in Byte
        BY <3>1, <4>1, ElementOfSeq
      <4>3. QED  BY <1>3, <1>8, <3>1, <4>1, <4>2
    <3>3. PICK v \in 0..255 : Latest[2] = v
      BY <3>2 DEF Byte
    <3>4. v + 4 = L /\ buf'[2] = v
      BY <1>1, <3>2, <3>3
    <3>5. Len(buf') >= 2
      BY <1>1, <1>8, <1>12
    <3>6. expectedLen(buf') = 4 + v
      BY <3>4, <3>5 DEF expectedLen
    <3>7. QED  BY <3>4, <3>6
  <2>2. Len(buf') = g /\ Len(Latest') = L
    BY <1>1, <1>2, <1>3, <1>8
  <2>3. L <= g + (L - (g + 1)) + 1 /\ L <= g + (L - (g + 1)) + 2 /\ g <= g + 1
    BY <1>6
  <2>4. Behind'
    BY <1>9, <2>1, <2>2, <2>3 DEF Behind
  <2>5. QED  BY <1>7, <1>9, <1>12, <2>2, <2>4 DEF Damaged
<1>13. QED  BY <1>6, <1>10, <1>11, <1>12

(* Bytes between messages complete what is left.                           *)
LEMMA Closes ==
  ASSUME Inv, Inv', Closing, sent # <<>>, ReadByte
  PROVE  Passing' \/ Closing'
<1>1. GiveByte /\ UNCHANGED <<fw, sent, lost>>
  BY DEF ReadByte
<1>2. PICK g \in Int : Given = g
  BY <1>1, NextByte DEF Inv
<1>3. g < 0
  BY <1>2 DEF Closing
<1>4. ~extra
  BY <1>2, <1>3 DEF Inv, ChipInv, AfterEscaped, Closing
<1>5. /\ Latest \in Message /\ Latest' = Latest /\ Given' = g + 1 /\ Ahead \subseteq Noise
  <2>1. Given \notin 0..(Len(Latest) - 1)
    BY <1>2, <1>3
  <2>2. QED  BY <1>1, <1>2, <1>4, <2>1, NextByte DEF Inv
<1>6. PICK L \in 5..259 : Len(Latest) = L
  BY <1>5, Length
<1>7. PICK o \in Nat, s \in Nat, n \in Nat : o = Len(out) /\ s = Len(sent) /\ n = Len(buf)
  <2>1. out \in Seq(Seq(Byte)) /\ sent \in Seq(Message) /\ buf \in Seq(Byte)
    BY DEF Inv, ReaderInv, ChipInv
  <2>2. Len(out) \in Nat /\ Len(sent) \in Nat /\ Len(buf) \in Nat
    BY <2>1
  <2>3. QED  BY <2>2
<1>8. PICK e \in Nat : e = expectedLen(buf)
  BY Expected DEF Inv, ReaderInv
<1>9. n >= 2 /\ e <= n - g /\ o + 1 < s /\ lost = Len(sent) - 1
  BY <1>2, <1>7, <1>8 DEF Closing
<1>10. PICK c \in Ahead : \/ Skip(c) /\ UNCHANGED <<buf, out>>
                          \/ ~Skip(c) /\ Take(Append(buf, c))
  BY DEF ReadByte
<1>11. c \in Noise /\ c \in Byte /\ ~Skip(c)
  <2>1. buf # <<>>
    BY <1>7, <1>9
  <2>2. c \in Noise
    BY <1>5, <1>10
  <2>3. QED  BY <2>1, <2>2, NoiseIsNoType DEF Skip, Superfluous
<1>12. Take(Append(buf, c))
  BY <1>10, <1>11
<1>13. Append(buf, c) \in Seq(Byte) /\ Len(Append(buf, c)) = n + 1
       /\ expectedLen(Append(buf, c)) = e
  BY <1>7, <1>8, <1>9, <1>11, Appended DEF Inv, ReaderInv
<1>14. ASSUME buf' = <<>>, Len(out') <= o + 1, Len(out') \in Nat PROVE Passing'
  <2>1. Len(out') < Len(sent') /\ ~(Given' >= Len(Latest'))
    <3>1. PICK q \in Nat : q = Len(out')
      BY <1>14
    <3>2. q < s /\ ~(g + 1 >= L)
      BY <1>3, <1>9, <1>14, <3>1
    <3>3. QED  BY <1>1, <1>5, <1>6, <1>7, <3>1, <3>2
  <2>2. Held'
    <3>1. CASE g + 1 = 0
      <4>1. 0 \in 0..(Len(Latest) - 1) /\ 0 \in 0..Len(Latest)
        BY <1>6
      <4>2. Part(Latest, 0) = <<>>
        BY <1>5, <4>1, Parts
      <4>3. QED  BY <1>5, <1>14, <3>1, <4>2 DEF Held
    <3>2. CASE g + 1 # 0
      <4>1. g + 1 \notin 0..(L - 1)
        BY <1>3, <3>2
      <4>2. QED  BY <1>5, <1>6, <1>14, <4>1 DEF Held
    <3>3. QED  BY <3>1, <3>2
  <2>3. QED  BY <2>1, <2>2 DEF Passing
<1>15. CASE buf' = <<>> /\ UNCHANGED out
  <2>1. Len(out') <= o + 1 /\ Len(out') \in Nat
    BY <1>7, <1>15
  <2>2. QED  BY <1>14, <1>15, <2>1
<1>16. CASE buf' = <<>> /\ out' = Append(out, Append(buf, c))
  <2>1. out \in Seq(Seq(Byte))
    BY DEF Inv, ReaderInv
  <2>2. Len(out') = o + 1
    BY <1>7, <1>13, <1>16, <2>1
  <2>3. QED  BY <1>14, <1>16, <2>2
<1>17. CASE buf' = Append(buf, c) /\ UNCHANGED out
  <2>1. Len(buf') = n + 1 /\ expectedLen(buf') = e /\ Len(out') = o
    BY <1>7, <1>13, <1>17
  <2>2. n + 1 < e
    <3>1. Len(buf') >= 2
      BY <1>9, <2>1
    <3>2. QED  BY <2>1, <3>1 DEF Inv, ReaderInv, Short
  <2>3. g + 1 < 0 /\ e <= n + 1 - (g + 1) /\ n + 1 >= 2
    BY <1>9, <2>2
  <2>4. Closing'
    BY <1>1, <1>5, <1>7, <1>9, <2>1, <2>3 DEF Closing
  <2>5. QED  BY <2>4
<1>18. QED  BY <1>12, <1>15, <1>16, <1>17 DEF Take

LEMMA Lengths ==
  ASSUME Inv
  PROVE  /\ out \in Seq(Seq(Byte)) /\ sent \in Seq(Message) /\ buf \in Seq(Byte)
         /\ Len(out) \in Nat /\ Len(sent) \in Nat /\ Len(buf) \in Nat
BY DEF Inv, ChipInv, ReaderInv

(* One step of the chip, the line or Read.                                 *)
LEMMA LossStep ==
  ASSUME Inv, Inv', LossInv, [ReaderNext]_readerVars, NoMistake', HurtClear'
  PROVE  LossInv'
<1>1. ASSUME NEW m \in Message, Send(m) PROVE LossInv'
  <2>1. /\ Latest' = m /\ Given' = -Len(Before)
        /\ Len(sent') = Len(sent) + 1 /\ \A i \in 1..Len(sent) : sent'[i] = sent[i]
    BY <1>1, ChipSends DEF Inv
  <2>2. UNCHANGED <<lost, hurt, buf, out>> /\ Done
    BY <1>1 DEF Send
  <2>3. PICK s \in Nat, o \in Nat, n \in Nat : s = Len(sent) /\ o = Len(out) /\ n = Len(buf)
    BY DEF Inv, ChipInv, ReaderInv
  <2>4. hurt \subseteq 1..s /\ lost \in 0..s
    BY <2>3 DEF Inv, ChipInv
  <2>5. NoMistake
    BY <2>1, <2>3 DEF NoMistake
  <2>6. HurtClear
    BY <2>1, <2>2, <2>3, <2>4 DEF HurtClear
  <2>7. Len(sent') = s + 1 /\ s + 1 \notin hurt' /\ sent' # <<>>
    <3>1. Len(sent') = s + 1 /\ s + 1 \notin hurt'
      BY <2>1, <2>2, <2>3, <2>4
    <3>2. QED  BY <3>1
  <2>8. PICK B \in {1, 4}, A \in {0, 1} :
          B = Len(Before) /\ A = Len(After) /\ 2 <= B + A /\ (A = 1 => B = 1)
    BY Gaps DEF Inv, ChipInv, Firmware
  <2>9. Given' = -B
    BY <2>1, <2>8
  <2>10. PICK M \in 5..259 : Len(m) = M
    BY Length
  <2>11. Given' < 0 /\ Given' < Len(Latest') /\ ~(Given' >= Len(Latest'))
         /\ Given' \notin 0..(Len(Latest') - 1)
    BY <2>1, <2>8, <2>9, <2>10
  <2>12. ASSUME buf = <<>>, o <= s PROVE Passing'
    <3>1. Held'
      BY <2>2, <2>11, <2>12 DEF Held
    <3>2. Len(out') < Len(sent')
      BY <2>2, <2>3, <2>7, <2>12
    <3>3. QED  BY <2>11, <3>1, <3>2 DEF Passing
  <2>13. Passing' \/ Closing'
    <3>1. CASE sent = <<>>
      <4>1. buf = <<>> /\ o = 0
        BY <2>3, <2>5, <2>6, <3>1 DEF LossInv
      <4>2. QED  BY <2>12, <4>1
    <3>2. CASE sent # <<>>
      <4>1. Latest \in Message /\ Given = Len(Latest) + A /\ ~extra
        BY <2>2, <2>8, <3>2, Whole DEF Inv
      <4>2. PICK L \in 5..259 : Len(Latest) = L
        BY <4>1, Length
      <4>3. Given = L + A
        BY <4>1, <4>2
      <4>4. CASE s \notin hurt
        <5>1. Passing
          <6>1. ~(Given < 0)
            BY <2>8, <4>3
          <6>2. QED  BY <2>3, <2>5, <2>6, <3>2, <4>4, <6>1 DEF LossInv, Closing
        <5>2. Given >= Len(Latest) /\ Given \notin 0..(Len(Latest) - 1)
          BY <2>8, <4>2, <4>3
        <5>3. buf = <<>> /\ Len(out) <= Len(sent)
          BY <5>1, <5>2 DEF Passing, Held
        <5>4. QED  BY <2>3, <2>12, <5>3
      <4>5. CASE s \in hurt
        <5>1. Damaged /\ lost = s
          BY <2>3, <2>4, <2>5, <2>6, <4>5 DEF LossInv, Inv, ChipInv
        <5>2. CASE buf = <<>> /\ Len(out) <= Len(sent)
          BY <2>3, <2>12, <5>2
        <5>3. CASE Given = 2
          BY <2>8, <4>3, <5>3
        <5>4. CASE Len(out) < Len(sent) /\ Len(buf) >= 2 /\ Behind
          <6>1. PICK e \in Nat : e = expectedLen(buf)
            BY Expected DEF Inv, ReaderInv
          <6>2. e <= n + (L - (L + A)) + 2
            BY <2>3, <4>2, <4>3, <5>4, <6>1 DEF Behind
          <6>3. e <= n + B
            BY <2>8, <6>2
          <6>4. /\ expectedLen(buf') = e /\ Len(buf') = n /\ n >= 2 /\ lost' = s
                /\ Len(out') = o /\ o < s
            BY <2>2, <2>3, <5>1, <5>4, <6>1
          <6>5. expectedLen(buf') <= Len(buf') - Given'
            BY <2>8, <2>9, <6>3, <6>4
          <6>6. lost' = Len(sent') - 1 /\ Len(out') + 1 < Len(sent') /\ Len(buf') >= 2
            BY <2>7, <6>4
          <6>7. QED  BY <2>11, <6>5, <6>6 DEF Closing
        <5>5. QED  BY <5>1, <5>2, <5>3, <5>4 DEF Damaged
      <4>6. QED  BY <4>4, <4>5
    <3>3. QED  BY <3>1, <3>2
  <2>14. QED  BY <2>7, <2>13 DEF LossInv
<1>2. CASE LoseByte
  <2>1. GiveByte /\ UNCHANGED <<fw, sent, buf, out>> /\ (lost = 0 \/ lost + 1 < Len(sent))
    BY <1>2 DEF LoseByte
  <2>2. /\ sent # <<>> /\ Latest \in Message /\ Latest' = Latest /\ Given \in Int
        /\ (extra => Given' = Given) /\ (~extra => Given' = Given + 1)
    BY <2>1, NextByte DEF Inv
  <2>3. PICK s \in Nat, o \in Nat : s = Len(sent) /\ o = Len(out)
    BY Lengths
  <2>4. hurt \subseteq 1..lost /\ lost \in 0..s /\ (lost = 0 \/ lost + 1 < s)
    BY <2>1, <2>3 DEF Inv, ChipInv
  <2>5. NoMistake /\ ~Mistaken(Latest)
    <3>1. NoMistake
      BY <2>1 DEF NoMistake
    <3>2. QED  BY <2>2, <3>1 DEF NoMistake, Latest, Inv, ChipInv
  <2>6. hurt \subseteq hurt' /\ (hurt' # hurt => Len(sent) \in hurt')
    BY <1>2 DEF LoseByte
  <2>7. HurtClear
    BY <2>1, <2>6 DEF HurtClear
  <2>8. s \notin hurt
    BY <2>4
  <2>9. Passing
    <3>1. ~Closing
      <4>1. ~(lost = s - 1 /\ o + 1 < s)
        BY <2>4
      <4>2. QED  BY <2>3, <4>1 DEF Closing
    <3>2. QED  BY <2>2, <2>3, <2>5, <2>7, <2>8, <3>1 DEF LossInv
  <2>10. CASE hurt' # hurt
    <3>1. Damaged'
      BY <1>2, <2>5, <2>9, <2>10, Loses
    <3>2. QED  BY <2>1, <2>2, <2>6, <2>10, <3>1 DEF LossInv
  <2>11. CASE hurt' = hurt
    <3>1. Held' /\ (extra \/ Given # Len(Latest) - 1)
      BY <1>2, <2>3, <2>8, <2>9, <2>11, IntactLoss DEF Inv, Passing
    <3>2. PICK L \in Nat, g \in Int, h \in Int : L = Len(Latest) /\ g = Given /\ h = Given'
      BY <2>2, Length
    <3>3. (h < L <=> g < L) /\ (h >= L <=> g >= L)
      BY <2>2, <3>1, <3>2
    <3>4. Passing'
      BY <2>1, <2>2, <2>9, <3>1, <3>2, <3>3 DEF Passing
    <3>5. QED  BY <2>1, <2>2, <2>3, <2>8, <2>11, <3>4 DEF LossInv
  <2>12. QED  BY <2>10, <2>11
<1>3. CASE ReadByte
  <2>1. GiveByte /\ UNCHANGED <<fw, sent, lost, hurt>>
    BY <1>3 DEF ReadByte
  <2>2. /\ sent # <<>> /\ Latest \in Message /\ Latest' = Latest /\ Given \in Int
        /\ (extra => Given' = Given) /\ (~extra => Given' = Given + 1)
    BY <2>1, NextByte DEF Inv
  <2>3. NoMistake /\ HurtClear
    BY <2>1 DEF NoMistake, HurtClear
  <2>4. ~Mistaken(Latest) /\ Len(sent) \in 1..Len(sent)
    BY <2>2, <2>3 DEF NoMistake, Latest, Inv, ChipInv
  <2>5. CASE Len(sent) \in hurt
    <3>1. Clear(Latest) /\ Damaged
      BY <2>3, <2>5 DEF HurtClear, LossInv, Latest
    <3>2. Damaged'
      BY <1>3, <2>2, <3>1, DamagedReads
    <3>3. QED  BY <2>1, <2>2, <2>5, <3>2 DEF LossInv
  <2>6. CASE Len(sent) \notin hurt /\ Closing
    <3>1. Passing' \/ Closing'
      BY <1>3, <2>2, <2>6, Closes
    <3>2. QED  BY <2>1, <2>2, <2>6, <3>1 DEF LossInv
  <2>7. CASE Len(sent) \notin hurt /\ Passing
    <3>1. /\ Held'
          /\ extra \/ Given # Len(Latest) - 1 => UNCHANGED out
          /\ ~extra /\ Given = Len(Latest) - 1 => out' = Append(out, Latest)
      BY <1>3, <2>4, <2>7, IntactStep DEF Inv, Passing
    <3>2. PICK L \in Nat, g \in Int, h \in Int : L = Len(Latest) /\ g = Given /\ h = Given'
      BY <2>2, Length
    <3>3. PICK s \in Nat, o \in Nat : s = Len(sent) /\ o = Len(out)
      BY DEF Inv, ChipInv, ReaderInv
    <3>4. Passing'
      <4>1. CASE ~extra /\ g = L - 1
        <5>1. out' = Append(out, Latest) /\ h = L /\ o < s
          BY <2>2, <2>7, <3>1, <3>2, <3>3, <4>1 DEF Passing
        <5>2. out \in Seq(Seq(Byte)) /\ Latest \in Seq(Byte)
          BY <2>2, MessageShape DEF Inv, ReaderInv
        <5>3. Len(out') = o + 1 /\ out' # <<>> /\ out'[Len(out')] = Latest
          BY <3>3, <5>1, <5>2
        <5>4. Len(out') <= Len(sent') /\ ~(Given' < Len(Latest'))
          BY <2>1, <2>2, <3>2, <3>3, <5>1, <5>3
        <5>5. QED  BY <2>2, <3>1, <5>3, <5>4 DEF Passing
      <4>2. CASE extra \/ g # L - 1
        <5>1. out' = out
          BY <3>1, <3>2, <4>2
        <5>2. (h < L <=> g < L) /\ (h >= L <=> g >= L)
          BY <2>2, <3>2, <4>2
        <5>3. QED  BY <2>1, <2>2, <2>7, <3>1, <3>2, <5>1, <5>2 DEF Passing
      <4>3. QED  BY <4>1, <4>2
    <3>5. QED  BY <2>1, <2>2, <2>7, <3>4 DEF LossInv
  <2>8. QED  BY <2>2, <2>3, <2>5, <2>6, <2>7 DEF LossInv
<1>4. CASE UNCHANGED readerVars
  <2>1. NoMistake /\ HurtClear
    BY <1>4 DEF NoMistake, HurtClear, readerVars
  <2>2. UNCHANGED <<sent, buf, out, lost, hurt, extra, Latest, Given>>
    BY <1>4 DEF readerVars, Given, Latest, Before
  <2>3. UNCHANGED <<Held, Behind>>
    BY <2>2 DEF Held, Behind
  <2>4. QED  BY <2>1, <2>2, <2>3 DEF LossInv, Passing, Closing, Damaged
<1>5. QED  BY <1>1, <1>2, <1>3, <1>4 DEF ReaderNext

(* bglib.go:46-98, 133-136: whatever becomes of a message that loses a     *)
(* byte, the next one that gets through whole is returned.                 *)
THEOREM LossContainedCorrect == ReaderSpec => []LossContained
<1>1. ReaderInit => LossInv
  BY DEF ReaderInit, LossInv
<1>2. Inv /\ Inv' /\ LossInv /\ [ReaderNext]_readerVars => LossInv'
  <2>1. ~(NoMistake' /\ HurtClear') => LossInv'
    BY DEF LossInv
  <2>2. QED  BY <2>1, LossStep
<1>3. Inv /\ LossInv => LossContained
  <2> SUFFICES ASSUME Inv, LossInv PROVE LossContained
    OBVIOUS
  <2>1. out \in Seq(Seq(Byte)) /\ sent \in Seq(Message)
    BY DEF Inv, ChipInv, ReaderInv
  <2>2. \A i \in DOMAIN out : IsScan(out[i]) => DecodeResponse(out[i]) = "scan"
    <3>1. \A i \in 1..Len(out) : Decodes(out[i])
      BY DEF Inv, ReaderInv
    <3>2. QED  BY <2>1, <3>1 DEF Decodes
  <2>3. ASSUME \A i \in DOMAIN sent : ~Mistaken(sent[i]), \A i \in hurt : Clear(sent[i])
        PROVE  /\ Len(out) <= Len(sent)
               /\ Done /\ sent # <<>> /\ Len(sent) \notin hurt =>
                    out # <<>> /\ out[Len(out)] = Latest
    <3>1. NoMistake /\ HurtClear
      BY <2>1, <2>3 DEF NoMistake, HurtClear
    <3>2. PICK s \in Nat, o \in Nat : s = Len(sent) /\ o = Len(out)
      BY <2>1
    <3>3. CASE sent = <<>>
      <4>1. out = <<>>
        BY <3>1, <3>3 DEF LossInv
      <4>2. QED  BY <3>3, <4>1
    <3>4. CASE sent # <<>>
      <4>1. PICK g \in Int, L \in Nat : g = Given /\ L = Len(Latest)
        <5>1. Latest \in Message /\ pos \in Nat /\ Len(Before) \in Nat
          BY <3>4, FrameBytes, Gaps DEF Inv, ChipInv
        <5>2. Len(Latest) \in Nat
          BY <5>1, MessageShape
        <5>3. Given \in Int
          BY <5>1 DEF Given
        <5>4. QED  BY <5>2, <5>3
      <4>2. o <= s
        <5>1. CASE Len(sent) \in hurt
          BY <3>1, <3>2, <5>1 DEF LossInv, Damaged
        <5>2. CASE Len(sent) \notin hurt /\ Passing
          <6>1. g < L \/ g >= L
            OBVIOUS
          <6>2. QED  BY <3>2, <4>1, <5>2, <6>1 DEF Passing
        <5>3. CASE Closing
          <6>1. o + 1 < s
            BY <3>2, <5>3 DEF Closing
          <6>2. QED  BY <6>1
        <5>4. QED  BY <3>1, <3>4, <5>1, <5>2, <5>3 DEF LossInv
      <4>3. ASSUME Done, Len(sent) \notin hurt PROVE out # <<>> /\ out[Len(out)] = Latest
        <5>1. Given = Len(Latest) + Len(After)
          BY <3>4, <4>3, Whole DEF Inv
        <5>2. PICK A \in Nat : A = Len(After)
          BY Gaps DEF Inv, ChipInv
        <5>3. g >= L /\ ~(g < 0)
          BY <4>1, <5>1, <5>2
        <5>4. Passing
          BY <3>1, <3>4, <4>1, <4>3, <5>3 DEF LossInv, Closing
        <5>5. QED  BY <4>1, <5>3, <5>4 DEF Passing
      <4>4. QED  BY <3>2, <4>2, <4>3
    <3>5. QED  BY <3>3, <3>4
  <2>4. QED  BY <2>2, <2>3 DEF LossContained
<1>4. QED  BY <1>1, <1>2, <1>3, Invariance, PTL DEF ReaderSpec

-----------------------------------------------------------------------------
(***************************************************************************)
(* AdvPipe.                                                                *)
(***************************************************************************)
LEMMA Constants ==
  /\ Sensor \cap Tracker = {} /\ Sensor # {} /\ Attr # {} /\ Value # {}
  /\ Varies \subseteq Attr
  /\ Window \in Nat \ {0} /\ Minute \in Nat \ {0} /\ Threshold \in Nat \ {0}
  /\ MaxChanges \in Nat /\ MaxOffline \in Nat
BY AdvPipeAssumption

(* n windows, one after the other.                                         *)
Windows(n) == n * Window

LEMMA WindowsAdd ==
  ASSUME NEW n \in Nat
  PROVE  /\ Windows(n) \in Nat /\ Windows(0) = 0 /\ Windows(n + 1) = Windows(n) + Window
         /\ n <= Threshold => Windows(n) <= AgeCap
<1>0. Window \in Nat /\ Threshold \in Nat
  BY Constants
<1>1. n * Window \in Nat /\ 0 * Window = 0 /\ (n + 1) * Window = n * Window + Window
  BY <1>0
<1>2. ASSUME n <= Threshold PROVE n * Window <= Threshold * Window
  BY <1>0, <1>2
<1>3. QED  BY <1>1, <1>2 DEF Windows, AgeCap

LEMMA Caps == AgeCap \in Nat /\ AgeCap = Windows(Threshold)
<1>1. Threshold \in Nat /\ Window \in Nat
  BY Constants
<1>2. QED  BY <1>1, WindowsAdd DEF AgeCap, Windows

-----------------------------------------------------------------------------
(* A tracker's advertisement.                                              *)
Of(d, b) == [mac |-> d, attr |-> "id", val |-> b]

LEMMA AdvParts ==
  ASSUME NEW a \in Adv
  PROVE  /\ a.mac \in Sensor \cup Tracker
         /\ a.mac \in Sensor => a.attr \in Attr /\ a.val \in Value
         /\ a.mac \in Tracker => a.val \in Beacon /\ a = Of(a.mac, a.val)
BY Constants DEF Adv, Of

LEMMA TrackerAdv ==
  ASSUME NEW d \in Tracker, NEW b \in Beacon
  PROVE  Of(d, b) \in Adv /\ Of(d, b).mac = d /\ Of(d, b).val = b
BY DEF Adv, Of

LEMMA NoAdvType == NoAdv \in Adv
<1>1. PICK d \in Sensor, a \in Attr, v \in Value : TRUE
  BY Constants
<1>2. [mac |-> d, attr |-> a, val |-> v] \in Adv
  BY DEF Adv
<1>3. QED  BY <1>2 DEF NoAdv

LEMMA Ages ==
  ASSUME NEW cap \in Nat, NEW n \in Never..cap
  PROVE  /\ Older(n, cap) \in Never..cap
         /\ Older(n, cap) = Never <=> n = Never
         /\ n # Never => Older(n, cap) \in {n, n + 1} /\ (Older(n, cap) = n => n = cap)
BY DEF Older, Never

ReaderType == /\ pc \in {"read", "track", "info", "state", "forward"} /\ cur \in Adv
              /\ age \in [Adv -> Never..Window] /\ clear \in -1..Minute
TrackType  == trackers \in [Tracker -> 0..Threshold]
HistType   == /\ idle \in [Adv -> 0..Window] /\ present \in [Tracker -> Never..AgeCap]
              /\ said \in [Tracker -> SUBSET Beacon]
StateType  == /\ state \in [Sensor -> [Attr -> Value \cup {None}]]
              /\ retained \in [Sensor -> [Attr -> Value \cup {None}]]
              /\ says \in [Sensor -> [Attr -> Value]]
FoundType  == devices \subseteq Sensor \cup Tracker
MoreType   == /\ changes \in 0..MaxChanges /\ offline \in 0..MaxOffline
              /\ online \in BOOLEAN
Counts     == pc = "track" => cur.mac \in Tracker

Types == /\ ReaderType /\ TrackType /\ HistType /\ StateType /\ FoundType /\ MoreType
         /\ Counts

LEMMA TypesOK == Types => TypeOK
BY DEF Types, ReaderType, TrackType, HistType, StateType, FoundType, MoreType, TypeOK

LEMMA TypesInit == Init => Types
<1> SUFFICES ASSUME Init PROVE Types
  OBVIOUS
<1> USE Constants, Caps
<1>1. ReaderType
  <2>2. cur \in Adv
    BY NoAdvType DEF Init
  <2>3. age \in [Adv -> Never..Window] /\ clear \in -1..Minute
    BY DEF Init, Never
  <2>4. QED  BY <2>2, <2>3 DEF Init, ReaderType
<1>2. TrackType
  BY DEF Init, TrackType
<1>3. HistType
  BY DEF Init, HistType, Never
<1>4. StateType
  <2>1. (CHOOSE v \in Value : TRUE) \in Value
    OBVIOUS
  <2>2. QED  BY <2>1 DEF Init, StateType, Unknown
<1>5. FoundType
  BY DEF Init, FoundType
<1>6. MoreType
  <2>1. changes \in 0..MaxChanges /\ offline \in 0..MaxOffline
    BY DEF Init
  <2>2. online \in BOOLEAN
    BY DEF Init
  <2>3. QED  BY <2>1, <2>2 DEF MoreType
<1>7. Counts
  BY DEF Init, Counts
<1>8. QED  BY <1>1, <1>2, <1>3, <1>4, <1>5, <1>6, <1>7 DEF Types

(* The filter's test leaves the ages of all other data alone, but for what *)
(* has expired.                                                            *)
LEMMA TestAges ==
  ASSUME age \in [Adv -> Never..Window], clear \in -1..Minute, NEW a \in Adv, Test(a)
  PROVE  /\ age' \in [Adv -> Never..Window] /\ clear' \in -1..Minute
         /\ ~Repeated(a) => age'[a] = 0
         /\ \A b \in Adv : b # a \/ Repeated(a) =>
              age'[b] = age[b] \/ (age[b] = Window /\ age'[b] = Never)
<1> USE Constants, Caps
<1>1. /\ Cleared \in [Adv -> Never..Window]
      /\ \A b \in Adv : Cleared[b] = age[b] \/ (age[b] = Window /\ Cleared[b] = Never)
  BY DEF Cleared, Never
<1>2. clear' \in -1..Minute
  BY DEF Test
<1>3. CASE Repeated(a)
  BY <1>1, <1>2, <1>3 DEF Test
<1>4. CASE ~Repeated(a)
  <2>1. age' = [Cleared EXCEPT ![a] = 0]
    BY <1>4 DEF Test
  <2>2. 0 \in Never..Window
    BY DEF Never
  <2>3. QED  BY <1>1, <1>2, <1>4, <2>1, <2>2
<1>5. QED  BY <1>3, <1>4

LEMMA ReaderStep ==
  Types /\ [Next]_vars => ReaderType' /\ Counts'
<1> SUFFICES ASSUME Types, [Next]_vars PROVE ReaderType' /\ Counts'
  OBVIOUS
<1> USE DEF ReaderType, Counts
<1>types. ReaderType /\ Counts
  BY DEF Types
<1>1. ASSUME NEW a \in Adv, Hear(a) PROVE ReaderType' /\ Counts'
  <2>1. age' \in [Adv -> Never..Window] /\ clear' \in -1..Minute
    BY <1>1, <1>types, TestAges DEF Hear
  <2>2. /\ cur' \in {a, NoAdv} /\ pc' \in {"read", "track", "info"}
        /\ pc' = "track" => cur' = a /\ a.mac \in Tracker
    BY <1>1 DEF Hear
  <2>3. QED  BY <2>1, <2>2, NoAdvType
<1>2. CASE Tick
  <2>1. clear' \in -1..Minute
    BY <1>2, <1>types, Constants DEF Tick
  <2>2. age' \in [Adv -> Never..Window]
    BY <1>2, <1>types, Ages, Constants DEF Tick
  <2>3. QED  BY <1>2, <1>types, <2>1, <2>2 DEF Tick
<1>3. CASE Process
  <2>1. /\ UNCHANGED <<age, clear>> /\ cur' \in {cur, NoAdv}
        /\ pc' \in {"info", "forward", "state", "read"}
    BY <1>3 DEF Process, btchipProcessBLETracker, newBLEDevice, updateState, Forward,
                filterVars
  <2>2. QED  BY <1>types, <2>1, NoAdvType
<1>4. CASE Connect \/ Disconnect \/ UNCHANGED vars
  BY <1>4, <1>types DEF Connect, Disconnect, filterVars, vars
<1>5. ASSUME NEW d \in Sensor, Change(d) PROVE ReaderType' /\ Counts'
  BY <1>5, <1>types DEF Change, filterVars
<1>6. QED  BY <1>1, <1>2, <1>3, <1>4, <1>5 DEF Next

LEMMA TrackStep == Types /\ [Next]_vars => TrackType'
<1> SUFFICES ASSUME Types, [Next]_vars PROVE TrackType'
  OBVIOUS
<1>types. TrackType /\ ReaderType /\ Counts
  BY DEF Types
<1>1. CASE btchipProcessBLETracker
  <2>1. cur.mac \in Tracker
    BY <1>1, <1>types DEF btchipProcessBLETracker, Counts
  <2>2. trackers[cur.mac] \in 0..Threshold
    BY <1>types, <2>1 DEF TrackType
  <2>3. CASE Detected(cur.mac)
    BY <1>1, <1>types, <2>3 DEF btchipProcessBLETracker, TrackType
  <2>4. CASE ~Detected(cur.mac)
    <3>1. trackers[cur.mac] + 1 \in 0..Threshold
      BY <2>2, <2>4, Constants DEF Detected
    <3>2. trackers' = [trackers EXCEPT ![cur.mac] = trackers[cur.mac] + 1]
      BY <1>1, <2>4 DEF btchipProcessBLETracker
    <3>3. QED  BY <1>types, <2>1, <3>1, <3>2 DEF TrackType
  <2>5. QED  BY <2>3, <2>4
<1>2. CASE UNCHANGED trackers
  BY <1>2, <1>types DEF TrackType
<1>3. QED
  BY <1>1, <1>2 DEF Next, Hear, Process, newBLEDevice, updateState, Forward, Tick,
     Connect, Disconnect, Change, devVars, vars

LEMMA HistStep == Types /\ [Next]_vars => HistType'
<1> SUFFICES ASSUME Types, [Next]_vars PROVE HistType'
  OBVIOUS
<1> USE Constants, Caps DEF HistType
<1>types. HistType /\ ReaderType
  BY DEF Types
<1>1. ASSUME NEW a \in Adv, Hear(a) PROVE HistType'
  <2>1. idle' = idle
    BY <1>1 DEF Hear
  <2>5. said' \in [Tracker -> SUBSET Beacon]
    BY <1>1, <1>types, AdvParts DEF Hear
  <2>2. CASE a.mac \in Tracker /\ present[a.mac] = Never
    <3>1. present' = [present EXCEPT ![a.mac] = 0]
      BY <1>1, <2>2 DEF Hear
    <3>2. 0 \in Never..AgeCap
      BY DEF Never
    <3>3. QED  BY <1>types, <2>1, <2>5, <3>1, <3>2
  <2>3. CASE ~(a.mac \in Tracker /\ present[a.mac] = Never)
    BY <1>1, <1>types, <2>1, <2>3, <2>5 DEF Hear
  <2>4. QED  BY <2>2, <2>3
<1>2. CASE Tick
  <2>1. idle' = [a \in Adv |-> Older(idle[a], Window)]
        /\ present' = [d \in Tracker |-> Older(present[d], AgeCap)] /\ said' = said
    BY <1>2 DEF Tick
  <2>2. \A a \in Adv : Older(idle[a], Window) \in 0..Window
    BY <1>types DEF Older, Never
  <2>3. \A d \in Tracker : Older(present[d], AgeCap) \in Never..AgeCap
    BY <1>types, Ages
  <2>4. QED  BY <1>types, <2>1, <2>2, <2>3
<1>3. CASE Forward
  BY <1>3, <1>types DEF Forward, ReaderType
<1>4. CASE UNCHANGED histVars
  BY <1>4, <1>types DEF histVars
<1>5. QED
  BY <1>1, <1>2, <1>3, <1>4 DEF Next, Process, btchipProcessBLETracker, newBLEDevice,
     updateState, Connect, Disconnect, Change, vars

LEMMA StateStep == Types /\ [Next]_vars => StateType'
<1> SUFFICES ASSUME Types, [Next]_vars PROVE StateType'
  OBVIOUS
<1>types. StateType /\ ReaderType
  BY DEF Types
<1>1. CASE updateState /\ cur.mac \in Sensor
  <2>1. cur.attr \in Attr /\ cur.val \in Value
    BY <1>1, <1>types, AdvParts DEF ReaderType
  <2>2. [state[cur.mac] EXCEPT ![cur.attr] = cur.val] \in [Attr -> Value \cup {None}]
    BY <1>1, <1>types, <2>1 DEF StateType
  <2>3. state' = [state EXCEPT ![cur.mac] = [state[cur.mac] EXCEPT ![cur.attr] = cur.val]]
    BY <1>1 DEF updateState
  <2>4. state' \in [Sensor -> [Attr -> Value \cup {None}]]
    BY <1>types, <2>2, <2>3 DEF StateType
  <2>5. retained' = [retained EXCEPT ![cur.mac] = state'[cur.mac]] \/ retained' = retained
    BY <1>1 DEF updateState, Publish
  <2>6. retained' \in [Sensor -> [Attr -> Value \cup {None}]]
    BY <1>1, <1>types, <2>4, <2>5 DEF StateType
  <2>7. QED  BY <1>1, <1>types, <2>4, <2>6 DEF updateState, StateType, worldVars
<1>2. ASSUME NEW d \in Sensor, Change(d) PROVE StateType'
  <2>1. PICK a \in Attr, v \in Value : says' = [says EXCEPT ![d][a] = v]
    BY <1>2, Constants DEF Change
  <2>2. [says[d] EXCEPT ![a] = v] \in [Attr -> Value]
    BY <1>types DEF StateType
  <2>3. says' = [says EXCEPT ![d] = [says[d] EXCEPT ![a] = v]]
    BY <2>1
  <2>4. says' \in [Sensor -> [Attr -> Value]]
    BY <1>types, <2>2, <2>3 DEF StateType
  <2>5. QED  BY <1>2, <1>types, <2>4 DEF Change, devVars, StateType
<1>3. CASE UNCHANGED <<state, retained, says>>
  BY <1>3, <1>types DEF StateType
<1>4. QED
  BY <1>1, <1>2, <1>3 DEF Next, Hear, Process, btchipProcessBLETracker, newBLEDevice,
     updateState, Forward, Tick, Connect, Disconnect, devVars, worldVars, vars

LEMMA FoundStep == Types /\ [Next]_vars => FoundType'
<1> SUFFICES ASSUME Types, [Next]_vars PROVE FoundType'
  OBVIOUS
<1>types. FoundType /\ ReaderType
  BY DEF Types
<1>1. CASE newBLEDevice
  <2>1. cur.mac \in Sensor \cup Tracker
    BY <1>types, AdvParts DEF ReaderType
  <2>2. QED  BY <1>1, <1>types, <2>1 DEF newBLEDevice, FoundType
<1>2. CASE UNCHANGED devices
  BY <1>2, <1>types DEF FoundType
<1>3. QED
  BY <1>1, <1>2 DEF Next, Hear, Process, btchipProcessBLETracker, updateState, Forward,
     Tick, Connect, Disconnect, Change, devVars, vars

LEMMA MoreStep == Types /\ [Next]_vars => MoreType'
<1> SUFFICES ASSUME Types, [Next]_vars PROVE MoreType'
  OBVIOUS
<1> USE Constants DEF MoreType
<1>types. MoreType
  BY DEF Types
<1>1. ASSUME NEW d \in Sensor, Change(d) PROVE MoreType'
  <2>1. changes' \in 0..MaxChanges
    BY <1>1, <1>types DEF Change
  <2>2. QED  BY <1>1, <1>types, <2>1 DEF Change
<1>2. CASE Connect
  BY <1>2, <1>types DEF Connect, worldVars
<1>3. CASE Disconnect
  <2>1. offline' \in 0..MaxOffline
    BY <1>3, <1>types DEF Disconnect
  <2>2. QED  BY <1>3, <1>types, <2>1 DEF Disconnect, worldVars
<1>4. CASE UNCHANGED <<changes, offline, online>>
  BY <1>4, <1>types
<1>5. QED
  BY <1>1, <1>2, <1>3, <1>4 DEF Next, Hear, Process, btchipProcessBLETracker,
     newBLEDevice, updateState, Forward, Tick, worldVars, vars

LEMMA TypesStep == Types /\ [Next]_vars => Types'
BY ReaderStep, TrackStep, HistStep, StateStep, FoundStep, MoreStep DEF Types

(* Every state of the pipeline is well typed: no tracker is counted past   *)
(* the threshold, and what is retained for a sensor is its values only.    *)
THEOREM TypeCorrect == Spec => []TypeOK
<1>1. QED  BY TypesOK, TypesInit, TypesStep, PTL DEF Spec

-----------------------------------------------------------------------------
(***************************************************************************)
(* The filter.  An entry younger than the window is as old as the last     *)
(* time the program was given its data; the advertisement at hand is the   *)
(* exception, its entry is made before it is given.                        *)
(***************************************************************************)
Matches(a) == IF Repeated(a) THEN idle[a] = age[a] ELSE idle[a] >= Window

FilterInv == \A a \in Adv : IF pc # "read" /\ a = cur THEN age[a] = 0 ELSE Matches(a)

LEMMA FilterInit == Init => FilterInv
BY Constants DEF Init, FilterInv, Matches, Repeated

LEMMA FilterStep == Types /\ FilterInv /\ [Next]_vars => FilterInv'
<1> SUFFICES ASSUME Types, FilterInv, [Next]_vars, NEW b \in Adv
             PROVE  IF pc' # "read" /\ b = cur' THEN age'[b] = 0 ELSE Matches(b)'
  BY DEF FilterInv
<1>types. ReaderType /\ HistType
  BY DEF Types
<1>nums. /\ age[b] \in Int /\ age[b] >= -1 /\ idle[b] \in Nat /\ Window \in Nat
         /\ Window > 0 /\ idle[b] <= Window /\ age[b] <= Window
  BY <1>types, Constants, Caps DEF ReaderType, HistType, Never
<1>1. ASSUME NEW a \in Adv, Hear(a)
      PROVE  IF pc' # "read" /\ b = cur' THEN age'[b] = 0 ELSE Matches(b)'
  <2>1. /\ pc = "read" /\ idle' = idle /\ (pc' = "read" <=> Repeated(a)) /\ Test(a)
        /\ ~Repeated(a) => cur' = a
    BY <1>1 DEF Hear
  <2>2. Matches(b)
    BY <2>1 DEF FilterInv
  <2>3. CASE b = a /\ ~Repeated(a)
    BY <1>types, <2>1, <2>3, TestAges DEF ReaderType
  <2>4. CASE b # a \/ Repeated(a)
    <3>1. age'[b] = age[b] \/ (age[b] = Window /\ age'[b] = Never)
      BY <1>types, <2>1, <2>4, TestAges DEF ReaderType
    <3>2. Repeated(b)' <=> Repeated(b)
      BY <1>nums, <3>1 DEF Repeated, Never
    <3>3. Matches(b)'
      BY <1>nums, <2>1, <2>2, <3>1, <3>2 DEF Matches, Repeated
    <3>4. QED  BY <2>1, <2>4, <3>3
  <2>5. QED  BY <2>3, <2>4
<1>2. CASE Tick
  <2>1. /\ pc = "read" /\ pc' = "read"
        /\ age'[b] = Older(age[b], Window) /\ idle'[b] = Older(idle[b], Window)
    BY <1>2 DEF Tick
  <2>2. Matches(b)
    BY <2>1 DEF FilterInv
  <2>3. Matches(b)'
    <3>1. CASE Repeated(b)
      BY <1>nums, <2>1, <2>2, <3>1 DEF Matches, Repeated, Older, Never
    <3>2. CASE ~Repeated(b)
      BY <1>nums, <2>1, <2>2, <3>2 DEF Matches, Repeated, Older, Never
    <3>3. QED  BY <3>1, <3>2
  <2>4. QED  BY <2>1, <2>3
<1>3. CASE Forward
  <2>1. pc # "read" /\ pc' = "read" /\ age' = age /\ idle' = [idle EXCEPT ![cur] = 0]
    BY <1>3 DEF Forward, filterVars
  <2>2. CASE b = cur
    <3>1. age[b] = 0 /\ age'[b] = 0 /\ idle'[b] = 0
      BY <1>types, <2>1, <2>2 DEF FilterInv, HistType
    <3>2. QED  BY <1>nums, <2>1, <3>1 DEF Matches, Repeated, Never
  <2>3. CASE b # cur
    BY <1>types, <2>1, <2>3 DEF FilterInv, Matches, Repeated, HistType
  <2>4. QED  BY <2>2, <2>3
<1>4. ASSUME UNCHANGED <<cur, age, idle>>, pc' # "read" <=> pc # "read"
      PROVE  IF pc' # "read" /\ b = cur' THEN age'[b] = 0 ELSE Matches(b)'
  BY <1>4 DEF FilterInv, Matches, Repeated
<1>5. CASE btchipProcessBLETracker \/ newBLEDevice \/ updateState
  BY <1>4, <1>5 DEF btchipProcessBLETracker, newBLEDevice, updateState, filterVars, histVars
<1>6. CASE Connect \/ Disconnect \/ (\E d \in Sensor : Change(d)) \/ UNCHANGED vars
  BY <1>4, <1>6 DEF Connect, Disconnect, Change, filterVars, histVars, vars
<1>7. QED  BY <1>1, <1>2, <1>3, <1>5, <1>6 DEF Next, Process

(* btchip_reader.go:199, 318-325, "skips same data for 5 seconds": data is *)
(* skipped if, and only if, the program was given the same within the      *)
(* window; entries that expire, or that are forgotten or not, make no      *)
(* difference, and neither does anything else that is heard meanwhile.     *)
THEOREM OncePerWindowCorrect == Spec => OncePerWindow
<1>1. Types /\ FilterInv /\ [Next]_vars
        => [\A a \in Adv : Hear(a) => (pc' = "read" <=> idle[a] < Window)]_vars
  <2> SUFFICES ASSUME Types, FilterInv, NEW a \in Adv, Hear(a)
               PROVE  pc' = "read" <=> idle[a] < Window
    OBVIOUS
  <2>1. pc = "read" /\ (pc' = "read" <=> Repeated(a))
    BY DEF Hear
  <2>2. Matches(a)
    BY <2>1 DEF FilterInv
  <2>3. idle[a] \in Nat /\ Window \in Nat
    BY Constants DEF Types, HistType
  <2>4. QED  BY <2>1, <2>2, <2>3 DEF Matches, Repeated
<1>2. QED
  BY <1>1, TypesInit, TypesStep, FilterInit, FilterStep, PTL DEF Spec, OncePerWindow

-----------------------------------------------------------------------------
(***************************************************************************)
(* The trackers.  What is counted has passed the filter, so n events take  *)
(* at least n - 1 windows and the time since the last of them; when the    *)
(* next one passes, a window has gone by since.                            *)
(***************************************************************************)
Counted(d, b) ==
  trackers[d] > 0 =>
    IF Repeated(Of(d, b)) THEN present[d] + Window >= Windows(trackers[d]) + age[Of(d, b)]
                          ELSE present[d] >= Windows(trackers[d])

(* What is at hand is all that its tracker has said.                       *)
Same     == cur.mac \in Tracker /\ said[cur.mac] = {cur.val}
Counting == pc = "track" /\ Same => age[cur] = 0 /\ present[cur.mac] >= Windows(trackers[cur.mac])
Lasted   == pc = "info" /\ Same => present[cur.mac] >= AgeCap
Said     == /\ \A d \in Tracker : trackers[d] > 0 => said[d] # {}
            /\ pc \in {"track", "info"} /\ cur.mac \in Tracker => cur.val \in said[cur.mac]

TrackInv == /\ \A d \in Tracker, b \in Beacon : said[d] = {b} => Counted(d, b)
            /\ Counting /\ Lasted /\ Said

LEMMA TrackInit == Init => TrackInv
BY DEF Init, TrackInv, Counted, Counting, Lasted, Said

LEMMA Needs ==
  ASSUME Types, NEW d \in Tracker, NEW b \in Beacon
  PROVE  /\ trackers[d] \in Nat /\ trackers[d] <= Threshold
         /\ Windows(trackers[d]) \in Nat /\ Windows(trackers[d]) <= AgeCap
         /\ trackers[d] > 0 => Windows(trackers[d]) >= Window
         /\ present[d] \in Int /\ present[d] >= -1 /\ present[d] <= AgeCap
         /\ Of(d, b) \in Adv /\ Of(d, b).mac = d
         /\ age[Of(d, b)] \in Int /\ age[Of(d, b)] >= -1 /\ age[Of(d, b)] <= Window
<1>1. trackers[d] \in Nat /\ trackers[d] <= Threshold
  BY Constants DEF Types, TrackType
<1>2. Windows(trackers[d]) \in Nat /\ Windows(trackers[d]) <= AgeCap
  BY <1>1, WindowsAdd
<1>3. ASSUME trackers[d] > 0 PROVE Windows(trackers[d]) >= Window
  <2>1. trackers[d] - 1 \in Nat /\ trackers[d] = (trackers[d] - 1) + 1
    BY <1>1, <1>3
  <2>2. Windows(trackers[d]) = Windows(trackers[d] - 1) + Window
        /\ Windows(trackers[d] - 1) \in Nat
    BY <2>1, WindowsAdd
  <2>3. QED  BY <2>2, Constants
<1>4. Of(d, b) \in Adv /\ Of(d, b).mac = d
  BY TrackerAdv
<1>5. present[d] \in Int /\ present[d] >= -1 /\ present[d] <= AgeCap
  BY Caps DEF Types, HistType, Never
<1>6. age[Of(d, b)] \in Int /\ age[Of(d, b)] >= -1 /\ age[Of(d, b)] <= Window
  BY <1>4, Caps DEF Types, ReaderType, Never
<1>7. QED  BY <1>1, <1>2, <1>3, <1>4, <1>5, <1>6

LEMMA TrackInvStep == Types /\ TrackInv /\ [Next]_vars => TrackInv'
<1> SUFFICES ASSUME Types, TrackInv, [Next]_vars PROVE TrackInv'
  OBVIOUS
<1>types. ReaderType /\ HistType /\ TrackType /\ Counts
  BY DEF Types
<1>inv. /\ \A d \in Tracker, b \in Beacon : said[d] = {b} => Counted(d, b)
        /\ Counting /\ Lasted /\ Said
  BY DEF TrackInv
<1>win. Window \in Nat /\ Window > 0
  BY Constants
<1>1. ASSUME NEW a \in Adv, Hear(a) PROVE TrackInv'
  <2>1. /\ pc = "read" /\ Test(a) /\ UNCHANGED trackers
        /\ ~Repeated(a) => cur' = a
        /\ pc' = (IF Repeated(a) THEN "read" ELSE IF a.mac \in Tracker THEN "track" ELSE "info")
        /\ present' = (IF a.mac \in Tracker /\ present[a.mac] = Never
                         THEN [present EXCEPT ![a.mac] = 0] ELSE present)
        /\ said' = (IF a.mac \in Tracker THEN [said EXCEPT ![a.mac] = said[a.mac] \cup {a.val}]
                    ELSE said)
    BY <1>1 DEF Hear, devVars
  <2>2. \A d \in Tracker : present'[d] = present[d]
                           \/ (d = a.mac /\ present[d] = -1 /\ present'[d] = 0)
    BY <1>types, <2>1 DEF HistType, Never
  <2>6. \A d \in Tracker : said'[d] = IF d = a.mac THEN said[d] \cup {a.val} ELSE said[d]
    BY <1>types, <2>1 DEF HistType
  <2>7. ASSUME NEW d \in Tracker, NEW b \in Beacon, said'[d] = {b}, trackers[d] > 0
        PROVE  Counted(d, b) /\ (d = a.mac => a = Of(d, b))
    <3>1. said[d] = {b} /\ (d = a.mac => a.val = b)
      <4>1. said[d] # {} /\ said[d] \subseteq {b}
        BY <1>inv, <2>6, <2>7 DEF Said
      <4>2. said[d] = {b}
        BY <4>1
      <4>3. QED  BY <2>6, <2>7, <4>2
    <3>2. QED  BY <1>inv, <3>1, AdvParts
  <2>3. ASSUME NEW d \in Tracker, NEW b \in Beacon, said'[d] = {b} PROVE Counted(d, b)'
    <3> SUFFICES ASSUME trackers[d] > 0
                 PROVE  IF Repeated(Of(d, b))'
                          THEN present'[d] + Window >= Windows(trackers[d]) + age'[Of(d, b)]
                          ELSE present'[d] >= Windows(trackers[d])
      BY <2>1 DEF Counted
    <3> USE Needs, <1>win
    <3>1. present'[d] >= present[d] /\ present'[d] \in Int
      BY <2>2
    <3>5. Counted(d, b)
      BY <2>3, <2>7
    <3>2. CASE Of(d, b) # a \/ Repeated(a)
      <4>1. age'[Of(d, b)] = age[Of(d, b)]
            \/ (age[Of(d, b)] = Window /\ age'[Of(d, b)] = -1)
        BY <1>types, <2>1, <3>2, TestAges DEF ReaderType, Never
      <4>2. Repeated(Of(d, b))' => Repeated(Of(d, b)) /\ age'[Of(d, b)] = age[Of(d, b)]
        BY <4>1 DEF Repeated, Never
      <4>3. Repeated(Of(d, b)) => Repeated(Of(d, b))'
        BY <4>1 DEF Repeated, Never
      <4>4. QED  BY <3>1, <3>5, <4>2, <4>3 DEF Counted
    <3>3. CASE Of(d, b) = a /\ ~Repeated(a)
      <4>1. age'[Of(d, b)] = 0
        BY <1>types, <2>1, <3>3, TestAges DEF ReaderType
      <4>2. present[d] >= Windows(trackers[d])
        BY <3>3, <3>5 DEF Counted
      <4>3. Repeated(Of(d, b))'
        BY <4>1 DEF Repeated, Never
      <4>4. present'[d] + Window >= Windows(trackers[d]) + age'[Of(d, b)]
        BY <3>1, <4>1, <4>2
      <4>5. QED  BY <4>3, <4>4
    <3>4. QED  BY <3>2, <3>3
  <2>4. Counting'
    <3> SUFFICES ASSUME pc' = "track", Same'
                 PROVE  age'[cur'] = 0 /\ present'[cur'.mac] >= Windows(trackers'[cur'.mac])
      BY DEF Counting
    <3>1. ~Repeated(a) /\ a.mac \in Tracker /\ cur' = a /\ said'[a.mac] = {a.val}
      BY <2>1 DEF Same
    <3>2. age'[a] = 0
      BY <1>types, <2>1, <3>1, TestAges DEF ReaderType
    <3>3. a.val \in Beacon /\ a = Of(a.mac, a.val)
      BY <3>1, AdvParts
    <3>4. trackers[a.mac] > 0 => Counted(a.mac, a.val)
      BY <2>7, <3>1, <3>3
    <3>5. present'[a.mac] >= Windows(trackers[a.mac])
      <4>1. CASE trackers[a.mac] = 0
        <5>1. Windows(trackers[a.mac]) = 0
          BY <4>1, WindowsAdd
        <5>2. present'[a.mac] >= 0
          BY <1>types, <2>1, <3>1, <3>3, Needs DEF HistType, Never
        <5>3. QED  BY <5>1, <5>2
      <4>2. CASE trackers[a.mac] > 0
        <5>1. present[a.mac] >= Windows(trackers[a.mac])
          BY <3>1, <3>3, <3>4, <4>2 DEF Counted
        <5>2. QED  BY <2>2, <3>1, <3>3, <5>1, Needs
      <4>3. QED  BY <3>1, <3>3, <4>1, <4>2, Needs
    <3>6. QED  BY <2>1, <3>1, <3>2, <3>5
  <2>5. Lasted' /\ Said'
    <3>1. pc' = "info" => a.mac \notin Tracker /\ cur' = a
      BY <2>1
    <3>2. pc' = "track" => cur' = a
      BY <2>1
    <3>3. \A d \in Tracker : said[d] \subseteq said'[d] /\ (d = a.mac => a.val \in said'[d])
      BY <2>6
    <3>4. QED  BY <1>inv, <2>1, <3>1, <3>2, <3>3 DEF Lasted, Said, Same
  <2>8. QED  BY <2>3, <2>4, <2>5 DEF TrackInv
<1>2. CASE btchipProcessBLETracker
  <2>1. /\ pc = "track" /\ UNCHANGED <<cur, age, present, said>>
        /\ pc' = IF Detected(cur.mac) THEN "info" ELSE "forward"
        /\ trackers' = IF Detected(cur.mac) THEN trackers
                       ELSE [trackers EXCEPT ![cur.mac] = trackers[cur.mac] + 1]
    BY <1>2 DEF btchipProcessBLETracker, filterVars, histVars
  <2>2. /\ cur.mac \in Tracker /\ cur \in Adv /\ cur.val \in Beacon
        /\ cur = Of(cur.mac, cur.val) /\ cur.val \in said[cur.mac]
    BY <1>types, <1>inv, <2>1, AdvParts DEF Counts, ReaderType, Said
  <2>3. Same => age[cur] = 0 /\ present[cur.mac] >= Windows(trackers[cur.mac])
    BY <1>inv, <2>1 DEF Counting
  <2>4. ASSUME NEW d \in Tracker, NEW b \in Beacon, said'[d] = {b} PROVE Counted(d, b)'
    <3>1. (Repeated(Of(d, b))' <=> Repeated(Of(d, b))) /\ Counted(d, b)
      BY <1>inv, <2>1, <2>4 DEF Repeated
    <3>2. CASE d # cur.mac \/ Detected(cur.mac)
      <4>1. trackers'[d] = trackers[d]
        BY <1>types, <2>1, <3>2 DEF TrackType
      <4>2. QED  BY <2>1, <3>1, <4>1 DEF Counted
    <3>3. CASE d = cur.mac /\ ~Detected(cur.mac)
      <4>0. b = cur.val /\ cur = Of(d, b)
        BY <2>1, <2>2, <2>4, <3>3
      <4>6. age[Of(d, b)] = 0 /\ present[d] >= Windows(trackers[d])
        BY <2>1, <2>2, <2>3, <2>4, <3>3, <4>0 DEF Same
      <4>1. trackers'[d] = trackers[d] + 1
        BY <1>types, <2>1, <3>3 DEF TrackType
      <4>2. Windows(trackers'[d]) = Windows(trackers[d]) + Window
        BY <4>1, Needs, WindowsAdd
      <4>3. Repeated(Of(d, b))'
        BY <1>win, <2>1, <4>6 DEF Repeated, Never
      <4>4. present'[d] + Window >= Windows(trackers'[d]) + age'[Of(d, b)]
        BY <1>win, <2>1, <4>2, <4>6, Needs
      <4>5. QED  BY <4>3, <4>4 DEF Counted
    <3>4. QED  BY <3>2, <3>3
  <2>5. Counting' /\ Said'
    <3>1. \A d \in Tracker : trackers'[d] = trackers[d] \/ d = cur.mac
      BY <1>types, <2>1 DEF TrackType
    <3>2. QED  BY <1>inv, <2>1, <2>2, <3>1 DEF Counting, Said
  <2>6. Lasted'
    <3>1. Detected(cur.mac) => trackers[cur.mac] = Threshold
      BY <2>2, Needs, Constants DEF Detected
    <3>2. Same /\ Detected(cur.mac) => present[cur.mac] >= AgeCap
      BY <2>3, <3>1, Caps
    <3>3. QED  BY <2>1, <3>2 DEF Lasted, Same
  <2>7. QED  BY <2>4, <2>5, <2>6 DEF TrackInv
<1>3. CASE Tick
  <2>1. /\ pc = "read" /\ pc' = "read" /\ UNCHANGED <<trackers, said>>
        /\ \A a \in Adv : age'[a] = Older(age[a], Window)
        /\ \A d \in Tracker : present'[d] = Older(present[d], AgeCap)
    BY <1>3 DEF Tick, devVars
  <2>2. ASSUME NEW d \in Tracker, NEW b \in Beacon, said[d] = {b}, trackers[d] > 0
        PROVE  Counted(d, b)'
    <3> USE Needs, <1>win
    <3>1. /\ Counted(d, b) /\ age'[Of(d, b)] = Older(age[Of(d, b)], Window)
          /\ present'[d] = Older(present[d], AgeCap) /\ trackers'[d] = trackers[d]
      BY <1>inv, <2>1, <2>2
    <3>2. present[d] >= 0
      BY <2>2, <3>1 DEF Counted, Repeated, Never
    <3>3. present'[d] = present[d] + 1 \/ (present'[d] = AgeCap /\ present[d] = AgeCap)
      <4>1. present[d] \in Int /\ present[d] <= AgeCap /\ AgeCap \in Nat
        BY Caps
      <4>2. present'[d] = IF present[d] < AgeCap THEN present[d] + 1 ELSE present[d]
        BY <3>1, <3>2, <4>1 DEF Older, Never
      <4>3. QED  BY <4>1, <4>2
    <3>4. CASE Repeated(Of(d, b))'
      <4>1. Repeated(Of(d, b)) /\ age'[Of(d, b)] = age[Of(d, b)] + 1
        BY <3>1, <3>4 DEF Repeated, Older, Never
      <4>2. present'[d] + Window >= Windows(trackers[d]) + age'[Of(d, b)]
        BY <2>2, <3>1, <3>3, <3>4, <4>1 DEF Counted, Repeated
      <4>3. QED  BY <3>1, <3>4, <4>2 DEF Counted
    <3>5. CASE ~Repeated(Of(d, b))'
      <4>1. Repeated(Of(d, b)) => age[Of(d, b)] + 1 >= Window
        BY <3>1, <3>5 DEF Repeated, Older, Never
      <4>2. present'[d] >= Windows(trackers[d])
        BY <2>2, <3>1, <3>3, <4>1 DEF Counted
      <4>3. QED  BY <3>1, <3>5, <4>2 DEF Counted
    <3>6. QED  BY <3>4, <3>5
  <2>3. \A d \in Tracker, b \in Beacon : said'[d] = {b} => Counted(d, b)'
    BY <2>1, <2>2, Needs DEF Counted
  <2>4. QED  BY <1>inv, <2>1, <2>3 DEF TrackInv, Counting, Lasted, Said
<1>4. CASE newBLEDevice \/ updateState \/ Forward
  <2>1. UNCHANGED <<age, trackers, present, said>> /\ pc' \in {"state", "forward", "read"}
    BY <1>4 DEF newBLEDevice, updateState, Forward, filterVars, histVars, devVars
  <2>2. QED  BY <1>inv, <2>1 DEF TrackInv, Counted, Counting, Lasted, Said, Repeated
<1>5. CASE Connect \/ Disconnect \/ (\E d \in Sensor : Change(d)) \/ UNCHANGED vars
  <2>1. UNCHANGED <<pc, cur, age, trackers, present, said>>
    BY <1>5 DEF Connect, Disconnect, Change, filterVars, histVars, devVars, vars
  <2>2. QED
    BY <1>inv, <2>1 DEF TrackInv, Counted, Counting, Lasted, Said, Same, Repeated
<1>6. QED  BY <1>1, <1>2, <1>3, <1>4, <1>5 DEF Next, Process

(* btchip_reader.go:283, "detects tracker only after 10 events": a tracker *)
(* that has always said the same is found when it has been around for as   *)
(* many windows as the threshold says, however often it repeats itself and *)
(* whatever the filter forgets: TrackerStays where its n is one.           *)
THEOREM SteadyTrackerStays ==
  Spec => [][\A d \in Tracker, b \in Beacon :
               d \in devices' \ devices /\ said[d] = {b} => present[d] >= Threshold * Window]_vars
<1>1. Types /\ TrackInv /\ [Next]_vars
        => [\A d \in Tracker, b \in Beacon :
              d \in devices' \ devices /\ said[d] = {b} => present[d] >= Threshold * Window]_vars
  <2> SUFFICES ASSUME Types, TrackInv, [Next]_vars, NEW d \in Tracker, NEW b \in Beacon,
                      d \in devices' \ devices, said[d] = {b}
               PROVE  present[d] >= Threshold * Window
    OBVIOUS
  <2>1. newBLEDevice /\ d = cur.mac
    BY DEF Next, Hear, Process, btchipProcessBLETracker, newBLEDevice, updateState, Forward,
       Tick, Connect, Disconnect, Change, devVars, vars
  <2>2. pc = "info" /\ Same
    BY <2>1 DEF newBLEDevice, TrackInv, Said, Same
  <2>3. present[d] >= AgeCap
    BY <2>1, <2>2 DEF TrackInv, Lasted
  <2>4. QED  BY <2>3 DEF AgeCap
<1>2. QED
  BY <1>1, TypesInit, TypesStep, TrackInit, TrackInvStep, PTL DEF Spec
=============================================================================
