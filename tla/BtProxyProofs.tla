--------------------------- MODULE BtProxyProofs ---------------------------
(***************************************************************************)
(* Theorems about BtProxy, for every value of its constants.               *)
(***************************************************************************)
EXTENDS BtProxy, TLAPS, FiniteSetTheorems, SequenceTheorems

-----------------------------------------------------------------------------
(* Reading k commands over the old contents of the buffer: the result      *)
(* holds commands, is no shorter than before and starts with what was read. *)
LEMMA Overwrite ==
  ASSUME NEW S, NEW s \in Seq(S), NEW old \in Seq(S), NEW k \in 1..Len(s)
  PROVE  LET new == SubSeq(s, 1, k) \o SubSeq(old, k + 1, Len(old))
         IN  /\ new \in Seq(S)
             /\ k <= Len(new) /\ Len(old) <= Len(new)
             /\ new[1] = s[1]
             /\ \A i \in 1..Len(new) : \/ \E j \in 1..Len(s) : new[i] = s[j]
                                       \/ \E j \in 1..Len(old) : new[i] = old[j]
<1> DEFINE a == SubSeq(s, 1, k)
           b == SubSeq(old, k + 1, Len(old))
<1>1. a \in Seq(S) /\ Len(a) = k /\ \A i \in 1..k : a[i] = s[i]
  OBVIOUS
<1>2. CASE k + 1 <= Len(old)
  <2>1. /\ b \in Seq(S) /\ Len(b) = Len(old) - k
        /\ \A i \in 1..Len(b) : b[i] = old[k + i]
    BY <1>2
  <2>2. QED  BY <1>1, <2>1, <1>2
<1>3. CASE ~(k + 1 <= Len(old))
  <2>1. b = <<>>
    BY <1>3
  <2>2. QED  BY <1>1, <2>1, <1>3
<1>4. QED  BY <1>2, <1>3

-----------------------------------------------------------------------------
LEMMA Constants ==
  /\ AppKinds \subseteq Kinds
  /\ QueueCap \in Nat /\ MaxCmds \in Nat /\ MaxRestarts \in Nat /\ MaxEvents \in Nat
BY ConstantsAssumption

(* A slice refers to commands that the buffer holds, also after a Read.    *)
LEMMA SliceKept ==
  ASSUME TypeOK, buf' \in Seq(AppCmd), Len(buf) <= Len(buf')
  PROVE  Slice \subseteq Slice'
<1>1. Len(buf) \in Nat /\ Len(buf') \in Nat
  BY DEF TypeOK
<1>2. QED  BY <1>1 DEF Slice, NilSlice, ExtSlice

(* The bytes of a slice are commands.                                      *)
LEMMA ContentType ==
  ASSUME TypeOK, NEW s \in Slice
  PROVE  Content(s) \in Seq(Cmd)
<1>1. buf \in Seq(Cmd)
  BY DEF TypeOK, Cmd
<1>2. CASE s \in [array : {"p"}, len : 0..Len(buf)]
  <2>1. Content(s) = SubSeq(buf, 1, s.len)
    BY <1>2 DEF Content
  <2>2. QED  BY <1>1, <1>2, <2>1
<1>3. CASE s = NilSlice
  BY <1>3 DEF Content, NilSlice
<1>4. CASE s = ExtSlice
  BY <1>4 DEF Content, ExtSlice, Cmd
<1>5. QED  BY <1>2, <1>3, <1>4 DEF Slice

LEMMA TypeInit == Init => TypeOK
<1> SUFFICES ASSUME Init PROVE TypeOK
  OBVIOUS
<1>1. HardBoot \in Frame
  BY DEF HardBoot, Frame
<1>2. tx \in Seq(Frame)
  BY <1>1 DEF Init
<1>3. NilSlice \in Slice
  BY DEF Slice
<1>4. QED
  BY <1>2, <1>3, Constants DEF Init, TypeOK

LEMMA TypeStep == TypeOK /\ [Next]_vars => TypeOK'
<1> USE Constants
<1> SUFFICES ASSUME TypeOK, [Next]_vars
             PROVE  TypeOK'
  OBVIOUS
<1>1. ASSUME NEW k \in AppKinds, AppSend(k)
      PROVE  TypeOK'
  <2> DEFINE c == [kind |-> k, id |-> nsent + 1]
  <2>1. c \in AppCmd
    BY DEF TypeOK, AppCmd
  <2>2. pty' = Append(pty, c) /\ await' = await \cup {c}
    BY <1>1 DEF AppSend
  <2> HIDE DEF c
  <2>3. pty' \in Seq(AppCmd) /\ await' \subseteq AppCmd
    BY <2>1, <2>2 DEF TypeOK
  <2>4. nsent' \in 0..MaxCmds
    <3>1. nsent \in 0..MaxCmds /\ nsent < MaxCmds /\ nsent' = nsent + 1
      BY <1>1 DEF AppSend, TypeOK
    <3>2. QED  BY <3>1
  <2>5. Slice' = Slice
    BY <1>1 DEF AppSend, Slice, readerVars
  <2>6. QED
    BY <1>1, <2>3, <2>4, <2>5 DEF AppSend, TypeOK, readerVars, writerVars, chipVars, loopVars
<1>2. CASE AppRestart
  <2>1. HardBoot \in Frame
    BY DEF HardBoot, Frame
  <2>2. QED
    BY <1>2, <2>1 DEF AppRestart, TypeOK, Slice, readerVars, writerVars, loopVars
<1>3. CASE ReaderRead
  <2>1. PICK k \in 1..Len(pty) :
          /\ n' = k
          /\ buf' = SubSeq(pty, 1, k) \o SubSeq(buf, k + 1, Len(buf))
          /\ pty' = SubSeq(pty, k + 1, Len(pty))
    BY <1>3 DEF ReaderRead
  <2>2. buf' \in Seq(AppCmd) /\ k <= Len(buf') /\ Len(buf) <= Len(buf')
    BY <2>1, Overwrite DEF TypeOK
  <2>3. pty' \in Seq(AppCmd)
    BY <2>1 DEF TypeOK
  <2>4. n' \in 0..Len(buf')
    BY <2>1, <2>2
  <2>5. rpc' \in {"qclear", "addext", "add"}
    BY <1>3 DEF ReaderRead
  <2>6. /\ UNCHANGED <<await, fresh, nsent, restarts, queue, wpc, taken, req>>
        /\ UNCHANGED <<rx, tx, nevents, given, cpc, cur>>
    BY <1>3 DEF ReaderRead, writerVars, chipVars, loopVars
  <2>7. Slice \subseteq Slice'
    BY <2>2, SliceKept
  <2>8. queue' \in Seq(Slice') /\ taken' \in Slice' /\ req' \in Slice'
    BY <2>6, <2>7 DEF TypeOK
  <2>9. QED
    BY <2>2, <2>3, <2>4, <2>5, <2>6, <2>8 DEF TypeOK
<1>4. CASE ReaderClear
  <2>1. queue' \in Seq(Slice) /\ Len(queue') <= QueueCap
    <3>1. queue \in Seq(Slice) /\ Len(queue) <= QueueCap
      BY DEF TypeOK
    <3>2. CASE queue' = queue
      BY <3>1, <3>2
    <3>3. CASE queue # <<>> /\ queue' = Tail(queue)
      BY <3>1, <3>3
    <3>4. QED  BY <1>4, <3>2, <3>3 DEF ReaderClear
  <2>2. Slice' = Slice
    BY <1>4 DEF ReaderClear, Slice
  <2>3. /\ UNCHANGED <<pty, await, fresh, nsent, restarts, buf, n, wpc, taken, req>>
        /\ UNCHANGED <<rx, tx, nevents, given, cpc, cur>>
    BY <1>4 DEF ReaderClear, appVars, writerVars, chipVars, loopVars
  <2>4. rpc' \in {"qclear", "reqnil"}
    BY <1>4 DEF ReaderClear
  <2>5. QED
    BY <2>1, <2>2, <2>3, <2>4 DEF TypeOK
<1>5. CASE ReaderReqNil
  BY <1>5 DEF ReaderReqNil, TypeOK, Slice, appVars, writerVars, chipVars, loopVars
<1>6. CASE ReaderSignal
  BY <1>6 DEF ReaderSignal, SignalResp, TypeOK, Slice, appVars, chipVars, loopVars
<1>7. CASE ReaderAddExt
  BY <1>7 DEF ReaderAddExt, btchipQueueAdd, TypeOK, Slice, appVars, writerVars,
              chipVars, loopVars
<1>8. CASE ReaderAdd
  <2>1. [array |-> "p", len |-> n] \in Slice
    BY DEF TypeOK, Slice
  <2>2. QED
    BY <1>8, <2>1 DEF ReaderAdd, btchipQueueAdd, TypeOK, Slice, appVars, writerVars,
                      chipVars, loopVars
<1>9. CASE WriterTake
  BY <1>9 DEF WriterTake, TypeOK, Slice, appVars, readerVars, chipVars, loopVars
<1>10. CASE WriterStore
  BY <1>10 DEF WriterStore, TypeOK, Slice, appVars, readerVars, chipVars, loopVars
<1>11. CASE WriterWrite
  <2>1. Content(req) \in Seq(Cmd)
    BY ContentType DEF TypeOK
  <2>2. req.array = "p" => Content(req) \in Seq(AppCmd)
    <3> SUFFICES ASSUME req.array = "p" PROVE Content(req) \in Seq(AppCmd)
      OBVIOUS
    <3>1. req \in [array : {"p"}, len : 0..Len(buf)]
      BY DEF TypeOK, Slice, NilSlice, ExtSlice
    <3>2. buf \in Seq(AppCmd) /\ Content(req) = SubSeq(buf, 1, req.len)
      BY DEF TypeOK, Content
    <3>3. QED  BY <3>1, <3>2
  <2>3. given' \in Seq(AppCmd)
    <3>1. given \in Seq(AppCmd)
      BY DEF TypeOK
    <3>2. given' = IF restarts = 0 /\ req.array = "p" THEN given \o Content(req) ELSE given
      BY <1>11 DEF WriterWrite
    <3>3. CASE restarts = 0 /\ req.array = "p"
      <4>1. given' = given \o Content(req)
        BY <3>2, <3>3
      <4>2. QED  BY <2>2, <3>1, <3>3, <4>1
    <3>4. CASE ~(restarts = 0 /\ req.array = "p")
      BY <3>1, <3>2, <3>4
    <3>5. QED  BY <3>3, <3>4
  <2>4. QED
    BY <1>11, <2>1, <2>3 DEF WriterWrite, TypeOK, Slice, appVars, readerVars, loopVars
<1>12. CASE WriterPark
  BY <1>12 DEF WriterPark, TypeOK, Slice, appVars, readerVars, chipVars, loopVars
<1>13. CASE ChipExec
  <2>1. Head(rx) \in Cmd /\ Tail(rx) \in Seq(Cmd)
    BY <1>13 DEF ChipExec, TypeOK
  <2>2. Boot(Head(rx)) \in Frame /\ Resp(Head(rx)) \in Frame
    BY <2>1 DEF Boot, Resp, Frame
  <2>3. rx' \in Seq(Cmd)
    <3>1. rx' = Tail(rx) \/ rx' = <<>>
      BY <1>13 DEF ChipExec
    <3>2. QED  BY <2>1, <3>1, EmptySeq
  <2>4. PICK f \in Frame : tx' = Append(tx, f)
    BY <1>13, <2>2 DEF ChipExec
  <2>5. tx' \in Seq(Frame)
    BY <2>4 DEF TypeOK
  <2>6. Slice' = Slice
    BY <1>13 DEF ChipExec, Slice, readerVars
  <2>7. QED
    BY <1>13, <2>3, <2>5, <2>6 DEF ChipExec, TypeOK, appVars, readerVars, writerVars, loopVars
<1>14. CASE ChipEvent
  <2>1. Event \in Frame
    BY DEF Event, Frame
  <2>2. QED
    BY <1>14, <2>1 DEF ChipEvent, TypeOK, Slice, appVars, readerVars, writerVars, loopVars
<1>15. CASE LoopRead
  <2>1. Head(tx) \in Frame /\ Tail(tx) \in Seq(Frame)
    BY <1>15 DEF LoopRead, TypeOK
  <2>2. cpc' \in {"reqnil", "qclear", "forward"}
    BY <1>15 DEF LoopRead
  <2>3. QED
    BY <1>15, <2>1, <2>2 DEF LoopRead, TypeOK, Slice, appVars, readerVars, writerVars
<1>16. CASE LoopClear
  <2>1. queue' \in Seq(Slice) /\ Len(queue') <= QueueCap
    <3>1. queue \in Seq(Slice) /\ Len(queue) <= QueueCap
      BY DEF TypeOK
    <3>2. CASE queue' = queue
      BY <3>1, <3>2
    <3>3. CASE queue # <<>> /\ queue' = Tail(queue)
      BY <3>1, <3>3
    <3>4. QED  BY <1>16, <3>2, <3>3 DEF LoopClear
  <2>2. Slice' = Slice
    BY <1>16 DEF LoopClear, Slice, readerVars
  <2>3. QED
    BY <1>16, <2>1, <2>2 DEF LoopClear, TypeOK, appVars, readerVars, writerVars, chipVars, loopVars
<1>17. CASE LoopReqNil
  BY <1>17 DEF LoopReqNil, TypeOK, Slice, appVars, readerVars, writerVars, chipVars
<1>18. CASE LoopSignal
  BY <1>18 DEF LoopSignal, SignalResp, TypeOK, Slice, appVars, readerVars, chipVars
<1>19. CASE LoopForward
  BY <1>19 DEF LoopForward, TypeOK, Slice, readerVars, writerVars, chipVars
<1>20. CASE UNCHANGED vars
  BY <1>20 DEF TypeOK, Slice, vars, appVars, readerVars, writerVars, chipVars, loopVars
<1>21. QED
  BY <1>1, <1>2, <1>3, <1>4, <1>5, <1>6, <1>7, <1>8, <1>9, <1>10, <1>11, <1>12, <1>13,
     <1>14, <1>15, <1>16, <1>17, <1>18, <1>19, <1>20
     DEF Next, App, Reader, Writer, Chip, Loop

(* Every channel, program counter and buffer keeps its type, whatever the  *)
(* app sends and whenever it is restarted.                                 *)
THEOREM TypeCorrect == Spec => []TypeOK
BY TypeInit, TypeStep, PTL DEF Spec

-----------------------------------------------------------------------------
(* FlushBeforeReset, strengthened with what btappReader remembers of the   *)
(* command it took for a start: it is not a reset.                         *)
FlushInv == /\ rpc = "addext" => buf[1].kind = "start"
            /\ FlushBeforeReset

LEMMA FlushStep == TypeOK /\ FlushInv /\ [Next]_vars => FlushInv'
<1> SUFFICES ASSUME TypeOK, FlushInv, [Next]_vars
             PROVE  FlushInv'
  OBVIOUS
<1> USE DEF FlushInv, FlushBeforeReset
<1>1. ASSUME NEW k \in AppKinds, AppSend(k)
      PROVE  FlushInv'
  BY <1>1 DEF AppSend, readerVars
<1>2. CASE AppRestart
  BY <1>2 DEF AppRestart, readerVars
<1>3. CASE ReaderRead
  <2>1. PICK k \in 1..Len(pty) :
          buf' = SubSeq(pty, 1, k) \o SubSeq(buf, k + 1, Len(buf))
    BY <1>3 DEF ReaderRead
  <2>2. buf'[1] = pty[1]
    BY <2>1, Overwrite DEF TypeOK
  <2>3. QED
    BY <1>3, <2>2 DEF ReaderRead
<1>4. CASE ReaderClear
  BY <1>4 DEF ReaderClear
<1>5. CASE ReaderReqNil \/ ReaderSignal
  BY <1>5 DEF ReaderReqNil, ReaderSignal
<1>6. CASE ReaderAddExt
  BY <1>6 DEF ReaderAddExt
<1>7. CASE ReaderAdd
  BY <1>7 DEF ReaderAdd
<1>8. CASE Writer
  BY <1>8 DEF Writer, WriterTake, WriterStore, WriterWrite, WriterPark, readerVars
<1>9. CASE Chip
  BY <1>9 DEF Chip, ChipExec, ChipEvent, readerVars
<1>10. CASE LoopClear
  BY <1>10 DEF LoopClear, readerVars
<1>11. CASE LoopRead \/ LoopReqNil \/ LoopSignal \/ LoopForward
  BY <1>11 DEF LoopRead, LoopReqNil, LoopSignal, LoopForward, readerVars
<1>12. CASE UNCHANGED vars
  BY <1>12 DEF vars, readerVars
<1>13. QED
  BY <1>1, <1>2, <1>3, <1>4, <1>5, <1>6, <1>7, <1>8, <1>9, <1>10, <1>11, <1>12
     DEF Next, App, Reader, Loop

(* While btappReader is adding a reset nothing is queued: nothing the app  *)
(* wrote before its reset follows it to the chip, for any number of        *)
(* restarts and however the writer and the event loop interleave with it.  *)
THEOREM FlushCorrect == Spec => []FlushBeforeReset
<1>1. Init => FlushInv
  BY DEF Init, FlushInv, FlushBeforeReset
<1>2. QED
  BY <1>1, FlushStep, TypeCorrect, PTL DEF Spec, FlushInv

-----------------------------------------------------------------------------
(***************************************************************************)
(* Steady operation: the app waits for each answer, is not restarted and   *)
(* sends no reset.  The invariant that makes one command at a time true:   *)
(*  - the pty holds at most the newest command, and while it does, every   *)
(*    command further on is older, so that no answer to it can be on its   *)
(*    way and let the app write another one (Fresh);                       *)
(*  - hence every slice holds one command (Singles);                       *)
(*  - no boot event exists, so only a response releases the writer (NoBoot); *)
(*  - at most one command is unanswered and none while the writer runs     *)
(*    (OneInFlight, OneOutstanding without its set).                       *)
(***************************************************************************)
Serial == Window = 1 /\ MaxRestarts = 0 /\ "reset" \notin AppKinds

Newest == IF pty = <<>> THEN nsent ELSE nsent - 1

Fresh ==
  /\ IsFiniteSet(await)
  /\ Len(pty) <= 1
  /\ pty # <<>> => pty[1] \in await /\ pty[1].id = nsent
  /\ \A i \in DOMAIN buf : buf[i].id <= Newest
  /\ \A i \in DOMAIN rx : rx[i].id <= Newest
  /\ \A i \in DOMAIN tx : tx[i].cmd.id <= Newest
  /\ cur.cmd.id <= Newest

Singles ==
  /\ rpc # "read" => n = 1
  /\ \A i \in DOMAIN queue : queue[i].len <= 1
  /\ taken.len <= 1 /\ req.len <= 1

NoBoot ==
  /\ \A i \in DOMAIN pty : pty[i].kind # "reset"
  /\ \A i \in DOMAIN buf : buf[i].kind # "reset"
  /\ \A i \in DOMAIN rx : rx[i].kind # "reset"
  /\ \A i \in DOMAIN tx : tx[i].type # "boot"
  /\ cur.type # "boot"
  /\ rpc \in {"read", "addext", "add"}
  /\ cpc \in {"read", "reqnil", "signal", "forward"}
  /\ cpc \in {"reqnil", "signal"} => IsResp(cur)

NoResp(s) == \A i \in DOMAIN s : ~IsResp(s[i])

OneInFlight ==
  /\ Len(rx) <= 1
  /\ \A i, j \in DOMAIN tx : IsResp(tx[i]) /\ IsResp(tx[j]) => i = j
  /\ rx # <<>> => NoResp(tx) /\ ~Releasing
  /\ Releasing => NoResp(tx)
  /\ wpc \in {"take", "store", "write"} => rx = <<>> /\ NoResp(tx) /\ ~Releasing

SerialInv == Fresh /\ Singles /\ NoBoot /\ OneInFlight

LEMMA NonEmpty ==
  ASSUME NEW S, NEW s \in Seq(S)
  PROVE  /\ Len(s) \in Nat /\ DOMAIN s = 1..Len(s)
         /\ s # <<>> => /\ Len(s) >= 1 /\ 1 \in DOMAIN s
                       /\ s[1] \in S /\ Head(s) = s[1]
         /\ Len(s) <= 1 /\ s # <<>> => Len(s) = 1 /\ Tail(s) = <<>>
<1>1. Len(s) \in Nat /\ DOMAIN s = 1..Len(s)
  BY LenProperties
<1>2. ASSUME s # <<>>
      PROVE  Len(s) >= 1 /\ 1 \in DOMAIN s /\ s[1] \in S /\ Head(s) = s[1]
  <2>1. Len(s) \in Nat \ {0}
    BY <1>2, EmptySeq
  <2>2. QED  BY <1>1, <2>1
<1>3. ASSUME s # <<>>, Len(s) <= 1
      PROVE  Len(s) = 1 /\ Tail(s) = <<>>
  <2>1. Len(s) = 1
    BY <1>1, <1>2, <1>3
  <2>2. Tail(s) \in Seq(S) /\ Len(Tail(s)) = 0
    BY <1>3, <2>1, HeadTailProperties
  <2>3. QED  BY <2>1, <2>2, EmptySeq
<1>4. QED  BY <1>1, <1>2, <1>3

LEMMA Appended ==
  ASSUME NEW S, NEW s \in Seq(S), NEW e
  PROVE  /\ DOMAIN Append(s, e) = 1..(Len(s) + 1)
         /\ Append(s, e)[Len(s) + 1] = e
         /\ \A i \in 1..Len(s) : Append(s, e)[i] = s[i]
OBVIOUS

LEMMA InFlightSuffices == TypeOK /\ OneInFlight => OneOutstanding
<1> SUFFICES ASSUME TypeOK, OneInFlight
             PROVE  OneOutstanding
  OBVIOUS
<1>1. ASSUME NEW u \in Unanswered, NEW v \in Unanswered
      PROVE  u = v
  <2>1. CASE rx # <<>>
    <3>1. DOMAIN rx = {1}
      <4>1. Len(rx) = 1 /\ DOMAIN rx = 1..Len(rx)
        BY <2>1, NonEmpty, LenProperties DEF TypeOK, OneInFlight
      <4>2. QED  BY <4>1
    <3>2. Unanswered = {<<"rx", i>> : i \in {1}}
      BY <2>1, <3>1 DEF OneInFlight, Unanswered, NoResp
    <3>3. QED  BY <1>1, <3>2
  <2>2. CASE rx = <<>> /\ Releasing
    <3>1. Unanswered = {<<"cur", 1>>}
      BY <2>2 DEF OneInFlight, Unanswered, NoResp
    <3>2. QED  BY <1>1, <3>1
  <2>3. CASE rx = <<>> /\ ~Releasing
    <3>1. Unanswered = {<<"tx", i>> : i \in {j \in DOMAIN tx : IsResp(tx[j])}}
      BY <2>3 DEF Unanswered
    <3>2. PICK i \in DOMAIN tx : IsResp(tx[i]) /\ u = <<"tx", i>>
      BY <1>1, <3>1
    <3>3. PICK j \in DOMAIN tx : IsResp(tx[j]) /\ v = <<"tx", j>>
      BY <1>1, <3>1
    <3>4. QED  BY <3>2, <3>3 DEF OneInFlight
  <2>4. QED  BY <2>1, <2>2, <2>3
<1>2. ASSUME wpc \in {"take", "store", "write"}
      PROVE  Unanswered = {}
  BY <1>2 DEF TypeOK, OneInFlight, Unanswered, NoResp
<1>3. QED
  BY <1>1, <1>2 DEF OneOutstanding

LEMMA SerialInit == ASSUME Serial PROVE Init => SerialInv
<1> SUFFICES ASSUME Init PROVE SerialInv
  OBVIOUS
<1>1. tx = <<>> /\ cur = NoFrame /\ await = {} /\ nsent = 0
  BY DEF Serial, Init
<1>2. Fresh
  BY <1>1, FS_EmptySet DEF Init, Fresh, Newest, NoFrame, NoCmd
<1>3. Singles /\ NoBoot /\ OneInFlight
  BY <1>1 DEF Init, Singles, NoBoot, OneInFlight, NoResp, Releasing, IsResp,
              NilSlice, NoFrame
<1>4. QED  BY <1>2, <1>3 DEF SerialInv

LEMMA SerialStep == ASSUME Serial PROVE TypeOK /\ TypeOK' /\ SerialInv /\ [Next]_vars => SerialInv'
<1> SUFFICES ASSUME TypeOK, TypeOK', SerialInv, [Next]_vars
             PROVE  SerialInv'
  OBVIOUS
<1>0. /\ Fresh /\ Singles /\ NoBoot /\ OneInFlight
      /\ nsent \in Nat /\ Newest \in Nat /\ Newest <= nsent
      /\ pty \in Seq(AppCmd) /\ Len(pty) \in Nat /\ DOMAIN pty = 1..Len(pty)
      /\ buf \in Seq(AppCmd) /\ Len(buf) \in Nat /\ DOMAIN buf = 1..Len(buf)
      /\ queue \in Seq(Slice) /\ Len(queue) \in Nat /\ DOMAIN queue = 1..Len(queue)
      /\ rx \in Seq(Cmd) /\ Len(rx) \in Nat /\ DOMAIN rx = 1..Len(rx)
      /\ tx \in Seq(Frame) /\ Len(tx) \in Nat /\ DOMAIN tx = 1..Len(tx)
  <2>1. Fresh /\ Singles /\ NoBoot /\ OneInFlight /\ nsent \in Nat
    BY DEF SerialInv, TypeOK
  <2>2. pty # <<>> => nsent \in Nat \ {0}
    BY <2>1, NonEmpty DEF Fresh, TypeOK, AppCmd
  <2>3. Newest \in Nat /\ Newest <= nsent
    BY <2>1, <2>2 DEF Newest
  <2>4. /\ pty \in Seq(AppCmd) /\ buf \in Seq(AppCmd) /\ queue \in Seq(Slice)
        /\ rx \in Seq(Cmd) /\ tx \in Seq(Frame)
    BY DEF TypeOK
  <2>5. QED  BY <2>1, <2>3, <2>4, NonEmpty
<1>1. ASSUME NEW k \in AppKinds, AppSend(k)
      PROVE  SerialInv'
  <2> DEFINE c == [kind |-> k, id |-> nsent + 1]
  <2>1. await = {} /\ pty = <<>>
    <3>1. Cardinality(await) < 1
      BY <1>1 DEF AppSend, Serial
    <3>2. await = {}
      BY <1>0, <3>1, FS_EmptySet, FS_CardinalityType DEF Fresh
    <3>3. QED  BY <1>0, <3>2 DEF Fresh
  <2>2. /\ pty' = <<c>> /\ await' = {c} /\ nsent' = nsent + 1
        /\ UNCHANGED <<buf, n, rpc, queue, wpc, taken, req, rx, tx, cpc, cur>>
    BY <1>1, <2>1 DEF AppSend, readerVars, writerVars, chipVars, loopVars
  <2>3. Newest' = Newest /\ Newest = nsent
    BY <1>0, <2>1, <2>2 DEF Newest
  <2> HIDE DEF c
  <2>4. Fresh'
    <3>1. IsFiniteSet(await') /\ Len(pty') = 1 /\ pty'[1] = c /\ c \in await' /\ c.id = nsent'
      BY <2>2, FS_Singleton DEF c
    <3>2. UNCHANGED <<buf, rx, tx, cur, Newest>>
      BY <2>2, <2>3
    <3>3. QED  BY <1>0, <3>1, <3>2 DEF Fresh
  <2>5. NoBoot'
    BY <1>0, <2>2 DEF c, NoBoot, Serial, IsResp
  <2>6. Singles' /\ OneInFlight'
    BY <1>0, <2>2 DEF Singles, OneInFlight, NoResp, Releasing, IsResp
  <2>7. QED  BY <2>4, <2>5, <2>6 DEF SerialInv
<1>2. CASE AppRestart
  BY <1>2 DEF AppRestart, TypeOK, Serial
<1>3. CASE ReaderRead
  <2>1. PICK k \in 1..Len(pty) :
          /\ n' = k
          /\ buf' = SubSeq(pty, 1, k) \o SubSeq(buf, k + 1, Len(buf))
          /\ pty' = SubSeq(pty, k + 1, Len(pty))
    BY <1>3 DEF ReaderRead
  <2>2. Len(pty) = 1 /\ k = 1 /\ pty # <<>> /\ n' = 1 /\ pty' = <<>>
    <3>1. Len(pty) = 1 /\ k = 1
      BY <1>0, <2>1 DEF Fresh
    <3>2. pty # <<>>
      BY <3>1
    <3>3. pty' = <<>>
      BY <2>1, <3>1
    <3>4. QED  BY <2>1, <3>1, <3>2, <3>3
  <2>3. \A i \in DOMAIN buf' : buf'[i] = pty[1] \/ \E j \in DOMAIN buf : buf'[i] = buf[j]
    <3> DEFINE new == SubSeq(pty, 1, k) \o SubSeq(buf, k + 1, Len(buf))
    <3>0. pty \in Seq(AppCmd) /\ buf \in Seq(AppCmd) /\ k \in 1..Len(pty)
      BY <1>0
    <3>1. /\ new \in Seq(AppCmd)
          /\ \A i \in 1..Len(new) : \/ \E j \in 1..Len(pty) : new[i] = pty[j]
                                    \/ \E j \in 1..Len(buf) : new[i] = buf[j]
      <4>1. new \in Seq(AppCmd)
        BY ONLY <3>0, Overwrite
      <4>2. \A i \in 1..Len(new) : \/ \E j \in 1..Len(pty) : new[i] = pty[j]
                                  \/ \E j \in 1..Len(buf) : new[i] = buf[j]
        BY ONLY <3>0, Overwrite
      <4>3. QED  BY <4>1, <4>2
    <3>2. DOMAIN new = 1..Len(new)
      BY <3>1, NonEmpty
    <3> HIDE DEF new
    <3>3. buf' = new
      BY <2>1 DEF new
    <3>4. ASSUME NEW i \in 1..Len(new)
          PROVE  new[i] = pty[1] \/ \E j \in DOMAIN buf : new[i] = buf[j]
      BY <1>0, <2>2, <3>1
    <3>5. QED  BY <3>2, <3>3, <3>4
  <2>4. /\ UNCHANGED <<await, nsent, queue, wpc, taken, req, rx, tx, cpc, cur>>
        /\ pty[1].kind # "reset" => rpc' \in {"addext", "add"}
    BY <1>3 DEF ReaderRead, writerVars, chipVars, loopVars
  <2>5. Newest = nsent - 1 /\ Newest' = nsent
    BY <2>2, <2>4 DEF Newest
  <2>6. Fresh'
    <3>1. IsFiniteSet(await') /\ Len(pty') = 0 /\ pty' = <<>>
      BY <1>0, <2>2, <2>4 DEF Fresh
    <3>2. \A i \in DOMAIN buf' : buf'[i].id <= Newest'
      <4>1. \A j \in DOMAIN buf : buf[j].id \in Int
        <5>1. \A j \in DOMAIN buf : buf[j] \in AppCmd
          BY <1>0
        <5>2. QED  BY <5>1 DEF AppCmd
      <4>2. pty[1].id = nsent /\ \A j \in DOMAIN buf : buf[j].id <= Newest
        BY <1>0, <2>2 DEF Fresh
      <4>3. QED  BY <1>0, <2>3, <2>5, <4>1, <4>2
    <3>3. /\ \A i \in DOMAIN rx : rx[i].id \in Int
          /\ \A i \in DOMAIN tx : tx[i].cmd.id \in Int
          /\ cur.cmd.id \in Int
      <4>1. \A c \in Cmd \cup {NoCmd} : c.id \in Int
        BY DEF Cmd, AppCmd, ExtScan, NoCmd
      <4>2. \A f \in Frame \cup {NoFrame} : f.cmd \in Cmd \cup {NoCmd}
        BY DEF Frame, NoFrame
      <4>3. cur \in Frame \cup {NoFrame}
        BY DEF TypeOK
      <4>4. QED  BY <1>0, <4>1, <4>2, <4>3
    <3>4. QED  BY <1>0, <2>4, <2>5, <3>1, <3>2, <3>3 DEF Fresh
  <2>7. NoBoot'
    <3>1. pty[1].kind # "reset"
      BY <1>0, <2>2 DEF NoBoot
    <3>2. \A i \in DOMAIN buf' : buf'[i].kind # "reset"
      BY <1>0, <2>3, <3>1 DEF NoBoot
    <3>3. \A i \in DOMAIN pty' : pty'[i].kind # "reset"
      BY <2>2
    <3>4. QED  BY <1>0, <2>4, <3>1, <3>2, <3>3 DEF NoBoot, IsResp
  <2>8. Singles' /\ OneInFlight'
    BY <1>0, <2>2, <2>4 DEF Singles, OneInFlight, NoResp, Releasing, IsResp
  <2>9. QED  BY <2>6, <2>7, <2>8 DEF SerialInv
<1>4. CASE ReaderClear \/ ReaderReqNil \/ ReaderSignal
  BY <1>0, <1>4 DEF NoBoot, ReaderClear, ReaderReqNil, ReaderSignal
<1>5. CASE ReaderAddExt \/ ReaderAdd
  <2>1. PICK s : s.len <= 1 /\ queue' = Append(queue, s)
    BY <1>0, <1>5 DEF ReaderAddExt, ReaderAdd, btchipQueueAdd, ExtSlice, Singles
  <2>2. /\ UNCHANGED <<pty, await, nsent, buf, n, wpc, taken, req, rx, tx, cpc, cur>>
        /\ rpc' \in {"add", "read"} /\ rpc # "read"
    BY <1>5 DEF ReaderAddExt, ReaderAdd, appVars, writerVars, chipVars, loopVars
  <2>3. \A i \in DOMAIN queue' : queue'[i].len <= 1
    BY <1>0, <2>1, Appended DEF Singles
  <2>4. Fresh' /\ NoBoot' /\ OneInFlight'
    BY <1>0, <2>2 DEF Fresh, Newest, NoBoot, OneInFlight, NoResp, Releasing, IsResp
  <2>5. Singles'
    BY <1>0, <2>2, <2>3 DEF Singles
  <2>6. QED  BY <2>4, <2>5 DEF SerialInv
<1>6. CASE WriterTake
  <2>1. /\ queue # <<>> /\ taken' = Head(queue) /\ queue' = Tail(queue)
        /\ wpc = "take" /\ wpc' = "store"
        /\ UNCHANGED <<pty, await, nsent, buf, n, rpc, req, rx, tx, cpc, cur>>
    BY <1>6 DEF WriterTake, appVars, readerVars, chipVars, loopVars
  <2>2. taken'.len <= 1 /\ \A i \in DOMAIN queue' : queue'[i].len <= 1
    <3>1. /\ Head(queue) = queue[1] /\ 1 \in DOMAIN queue
          /\ \A i \in DOMAIN Tail(queue) : i + 1 \in DOMAIN queue /\ Tail(queue)[i] = queue[i + 1]
      BY <1>0, <2>1, NonEmpty
    <3>2. QED  BY <1>0, <2>1, <3>1 DEF Singles
  <2>3. Fresh' /\ NoBoot' /\ OneInFlight'
    BY <1>0, <2>1 DEF Fresh, Newest, NoBoot, OneInFlight, NoResp, Releasing, IsResp
  <2>4. Singles'
    BY <1>0, <2>1, <2>2 DEF Singles
  <2>5. QED  BY <2>3, <2>4 DEF SerialInv
<1>7. CASE WriterStore
  <2>1. /\ req' = taken /\ taken' = NilSlice /\ wpc = "store" /\ wpc' = "write"
        /\ UNCHANGED <<pty, await, nsent, buf, n, rpc, queue, rx, tx, cpc, cur>>
    BY <1>7 DEF WriterStore, appVars, readerVars, chipVars, loopVars
  <2>2. QED
    BY <1>0, <2>1 DEF SerialInv, Fresh, Newest, NoBoot, Singles, OneInFlight, NoResp,
                      Releasing, IsResp, NilSlice
<1>8. CASE WriterWrite
  <2>1. /\ rx' = rx \o Content(req) /\ wpc = "write" /\ wpc' = "park"
        /\ UNCHANGED <<pty, await, nsent, buf, n, rpc, queue, taken, req, tx, cpc, cur>>
    BY <1>8 DEF WriterWrite, appVars, readerVars, loopVars
  <2>2. rx = <<>> /\ NoResp(tx) /\ ~Releasing
    BY <1>0, <2>1 DEF OneInFlight
  <2>3. rx' = Content(req) /\ rx' \in Seq(Cmd)
    BY <2>1, <2>2, ContentType DEF TypeOK
  <2>4. /\ Len(rx') <= 1
        /\ \A i \in DOMAIN rx' : rx'[i] = ExtScan \/ \E j \in DOMAIN buf : rx'[i] = buf[j]
    <3>1. CASE req \in [array : {"p"}, len : 0..Len(buf)]
      <4>1. rx' = SubSeq(buf, 1, req.len) /\ req.len \in 0..Len(buf) /\ req.len <= 1
        BY <1>0, <2>3, <3>1 DEF Content, Singles
      <4>2. QED  BY <1>0, <4>1
    <3>2. CASE req = NilSlice \/ req = ExtSlice
      BY <2>3, <3>2 DEF Content, NilSlice, ExtSlice
    <3>3. QED  BY <3>1, <3>2 DEF TypeOK, Slice
  <2>5. 0 <= Newest
    BY <1>0
  <2>6. Fresh'
    BY <1>0, <2>1, <2>4, <2>5 DEF Fresh, Newest, ExtScan
  <2>7. NoBoot'
    <3>1. \A i \in DOMAIN rx' : rx'[i].kind # "reset"
      <4>1. ExtScan.kind # "reset" /\ \A j \in DOMAIN buf : buf[j].kind # "reset"
        BY <1>0 DEF NoBoot, ExtScan
      <4>2. QED  BY <2>4, <4>1
    <3>2. QED  BY <1>0, <2>1, <3>1 DEF NoBoot, IsResp
  <2>8. OneInFlight'
    BY <2>1, <2>2, <2>4 DEF OneInFlight, NoResp, Releasing, IsResp
  <2>9. Singles'
    BY <1>0, <2>1 DEF Singles
  <2>10. QED  BY <2>6, <2>7, <2>8, <2>9 DEF SerialInv
<1>9. CASE WriterPark
  <2>1. /\ wpc' = "wait"
        /\ UNCHANGED <<pty, await, nsent, buf, n, rpc, queue, taken, req, rx, tx, cpc, cur>>
    BY <1>9 DEF WriterPark, appVars, readerVars, chipVars, loopVars
  <2>2. QED
    BY <1>0, <2>1 DEF SerialInv, Fresh, Newest, NoBoot, Singles, OneInFlight, NoResp,
                      Releasing, IsResp
<1>10. CASE ChipExec
  <2>1. /\ rx # <<>> /\ (rx' = Tail(rx) \/ rx' = <<>>)
        /\ Head(rx).kind # "reset" => tx' = Append(tx, Resp(Head(rx)))
        /\ UNCHANGED <<pty, await, nsent, buf, n, rpc, queue, wpc, taken, req, cpc, cur>>
    BY <1>10 DEF ChipExec, appVars, readerVars, writerVars, loopVars
  <2>2. rx \in Seq(Cmd) /\ Len(rx) = 1 /\ Head(rx) = rx[1]
    BY <1>0, <2>1, NonEmpty DEF TypeOK, OneInFlight
  <2>3. rx' = <<>>
    BY <2>1, <2>2
  <2>4. tx' = Append(tx, Resp(rx[1]))
    BY <1>0, <2>1, <2>2 DEF NoBoot
  <2>5. /\ DOMAIN tx' = 1..(Len(tx) + 1) /\ tx'[Len(tx) + 1] = Resp(rx[1])
        /\ \A i \in 1..Len(tx) : tx'[i] = tx[i]
    BY <1>0, <2>4, Appended
  <2>6. NoResp(tx) /\ ~Releasing /\ wpc \notin {"take", "store", "write"}
    BY <1>0, <2>1 DEF OneInFlight
  <2>7. Fresh'
    BY <1>0, <2>1, <2>2, <2>3, <2>5 DEF Fresh, Newest, Resp
  <2>8. NoBoot'
    <3>1. \A i \in DOMAIN tx' : tx'[i].type # "boot"
      <4>1. Resp(rx[1]).type # "boot" /\ \A i \in DOMAIN tx : tx[i].type # "boot"
        BY <1>0 DEF NoBoot, Resp
      <4>2. ASSUME NEW i \in DOMAIN tx'
            PROVE  (i \in DOMAIN tx /\ tx'[i] = tx[i]) \/ tx'[i] = Resp(rx[1])
        BY <1>0, <2>5
      <4>3. QED  BY <4>1, <4>2
    <3>2. \A i \in DOMAIN rx' : rx'[i].kind # "reset"
      BY <2>3
    <3>3. QED  BY <1>0, <2>1, <3>1, <3>2 DEF NoBoot, IsResp
  <2>9. OneInFlight'
    <3>1. \A i, j \in DOMAIN tx' : IsResp(tx'[i]) /\ IsResp(tx'[j]) => i = j
      <4>1. ASSUME NEW i \in DOMAIN tx', IsResp(tx'[i])
            PROVE  i = Len(tx) + 1
        <5>1. i \in 1..Len(tx) => ~IsResp(tx[i])
          BY <1>0, <2>6 DEF NoResp
        <5>2. i \in 1..Len(tx) => tx'[i] = tx[i]
          BY <2>5
        <5>3. i \in 1..Len(tx) \/ i = Len(tx) + 1
          BY <1>0, <2>5
        <5>4. QED  BY <4>1, <5>1, <5>2, <5>3
      <4>2. QED  BY <4>1
    <3>2. Len(rx') <= 1
      BY <2>3
    <3>3. ~Releasing' /\ wpc' \notin {"take", "store", "write"}
      BY <2>1, <2>6 DEF Releasing
    <3>4. QED  BY <2>3, <3>1, <3>2, <3>3 DEF OneInFlight
  <2>10. Singles'
    BY <1>0, <2>1 DEF Singles
  <2>11. QED  BY <2>7, <2>8, <2>9, <2>10 DEF SerialInv
<1>11. CASE ChipEvent
  <2>1. /\ tx' = Append(tx, Event)
        /\ UNCHANGED <<pty, await, nsent, buf, n, rpc, queue, wpc, taken, req, rx, cpc, cur>>
    BY <1>11 DEF ChipEvent, appVars, readerVars, writerVars, loopVars
  <2>2. /\ DOMAIN tx' = 1..(Len(tx) + 1) /\ tx'[Len(tx) + 1] = Event
        /\ \A i \in 1..Len(tx) : tx'[i] = tx[i]
    BY <1>0, <2>1, Appended
  <2>3. 0 <= Newest
    BY <1>0
  <2>4. Fresh'
    BY <1>0, <2>1, <2>2, <2>3 DEF Fresh, Newest, Event, NoCmd
  <2>5. NoBoot'
    BY <1>0, <2>1, <2>2 DEF NoBoot, IsResp, Event
  <2>6. OneInFlight'
    BY <1>0, <2>1, <2>2 DEF OneInFlight, NoResp, Releasing, IsResp, Event
  <2>7. Singles'
    BY <1>0, <2>1 DEF Singles
  <2>8. QED  BY <2>4, <2>5, <2>6, <2>7 DEF SerialInv
<1>12. CASE LoopRead
  <2>1. /\ tx # <<>> /\ cur' = Head(tx) /\ tx' = Tail(tx) /\ cpc = "read"
        /\ Head(tx).type = "resp" => cpc' = "reqnil"
        /\ Head(tx).type \notin {"resp", "boot"} => cpc' = "forward"
        /\ UNCHANGED <<pty, await, nsent, buf, n, rpc, queue, wpc, taken, req, rx>>
    BY <1>12 DEF LoopRead, appVars, readerVars, writerVars
  <2>2. /\ Head(tx) = tx[1] /\ 1 \in DOMAIN tx /\ DOMAIN tx' = 1..(Len(tx) - 1)
        /\ \A i \in DOMAIN tx' : i + 1 \in DOMAIN tx /\ tx'[i] = tx[i + 1]
    BY <2>1 DEF TypeOK
  <2>3. Fresh'
    BY <1>0, <2>1, <2>2 DEF Fresh, Newest
  <2>4. tx[1].type # "boot"
    BY <1>0, <2>2 DEF NoBoot
  <2>5. NoBoot'
    BY <1>0, <2>1, <2>2, <2>4 DEF NoBoot, IsResp
  <2>6. OneInFlight'
    <3>1. CASE IsResp(tx[1])
      <4>1. ASSUME NEW i \in DOMAIN tx', IsResp(tx'[i])
            PROVE  FALSE
        <5>1. i + 1 \in DOMAIN tx /\ IsResp(tx[i + 1]) /\ i \in 1..(Len(tx) - 1)
          BY <2>2, <4>1
        <5>2. i + 1 = 1
          BY <1>0, <2>2, <3>1, <5>1 DEF OneInFlight
        <5>3. QED  BY <1>0, <5>1, <5>2
      <4>2. rx = <<>> /\ wpc \notin {"take", "store", "write"}
        BY <1>0, <2>2, <3>1 DEF OneInFlight, NoResp
      <4>3. NoResp(tx')
        BY <4>1 DEF NoResp
      <4>4. QED  BY <2>1, <4>2, <4>3 DEF OneInFlight, NoResp
    <3>2. CASE ~IsResp(tx[1])
      <4>1. ~Releasing'
        BY <2>1, <2>2, <3>2 DEF Releasing, IsResp
      <4>2. \A i, j \in DOMAIN tx' : IsResp(tx'[i]) /\ IsResp(tx'[j]) => i = j
        BY <1>0, <2>2 DEF OneInFlight
      <4>3. NoResp(tx) => NoResp(tx')
        BY <2>2 DEF NoResp
      <4>4. QED  BY <1>0, <2>1, <4>1, <4>2, <4>3 DEF OneInFlight, NoResp, IsResp
    <3>3. QED  BY <3>1, <3>2
  <2>7. Singles'
    BY <1>0, <2>1 DEF Singles
  <2>8. QED  BY <2>3, <2>5, <2>6, <2>7 DEF SerialInv
<1>13. CASE LoopClear
  BY <1>0, <1>13 DEF NoBoot, LoopClear
<1>14. CASE LoopReqNil
  <2>1. /\ req' = NilSlice /\ cpc = "reqnil" /\ cpc' = "signal"
        /\ UNCHANGED <<pty, await, nsent, buf, n, rpc, queue, wpc, taken, rx, tx, cur>>
    BY <1>14 DEF LoopReqNil, appVars, readerVars, writerVars, chipVars
  <2>2. QED
    BY <1>0, <2>1 DEF SerialInv, Fresh, Newest, NoBoot, Singles, OneInFlight, NoResp,
                      Releasing, IsResp, NilSlice
<1>15. CASE LoopSignal
  <2>1. /\ cpc = "signal" /\ cpc' = "forward"
        /\ UNCHANGED <<pty, await, nsent, buf, n, rpc, queue, taken, req, rx, tx, cur>>
    BY <1>15 DEF LoopSignal, appVars, readerVars, chipVars
  <2>2. rx = <<>> /\ NoResp(tx)
    BY <1>0, <2>1 DEF NoBoot, OneInFlight, Releasing
  <2>3. Fresh' /\ Singles' /\ NoBoot'
    BY <1>0, <2>1 DEF Fresh, Newest, NoBoot, Singles, IsResp
  <2>4. OneInFlight'
    BY <2>1, <2>2 DEF OneInFlight, NoResp, Releasing, IsResp
  <2>5. QED  BY <2>3, <2>4 DEF SerialInv
<1>16. CASE LoopForward
  <2>1. /\ cpc = "forward" /\ cpc' = "read" /\ cur' = NoFrame
        /\ await' = await \ Answered(cur)
        /\ UNCHANGED <<pty, nsent, buf, n, rpc, queue, wpc, taken, req, rx, tx>>
    BY <1>16 DEF LoopForward, readerVars, writerVars, chipVars
  <2>2. Answered(cur) \subseteq {cur.cmd}
    BY <1>0 DEF Answered, NoBoot
  <2>3. pty # <<>> => pty[1] # cur.cmd
    BY <1>0 DEF Fresh, Newest
  <2>4. IsFiniteSet(await') /\ (pty # <<>> => pty[1] \in await')
    BY <1>0, <2>1, <2>2, <2>3, FS_Difference DEF Fresh
  <2>5. 0 <= Newest
    BY <1>0
  <2>6. Fresh'
    BY <1>0, <2>1, <2>4, <2>5 DEF Fresh, Newest, NoFrame, NoCmd
  <2>7. Singles' /\ NoBoot' /\ OneInFlight'
    BY <1>0, <2>1 DEF NoBoot, Singles, OneInFlight, NoResp, Releasing, IsResp, NoFrame
  <2>8. QED  BY <2>6, <2>7 DEF SerialInv
<1>17. CASE UNCHANGED vars
  <2>1. UNCHANGED <<pty, await, nsent, buf, n, rpc, queue, wpc, taken, req, rx, tx, cpc, cur>>
    BY <1>17 DEF vars, appVars, readerVars, writerVars, chipVars, loopVars
  <2>2. QED
    BY <1>0, <2>1 DEF SerialInv, Fresh, Newest, NoBoot, Singles, OneInFlight, NoResp,
                      Releasing, IsResp
<1>18. QED
  BY <1>1, <1>2, <1>3, <1>4, <1>5, <1>6, <1>7, <1>8, <1>9, <1>10, <1>11, <1>12, <1>13,
     <1>14, <1>15, <1>16, <1>17 DEF Next, App, Reader, Writer, Chip, Loop

(* btchip_reader.go:150, for every number of commands and every queue      *)
(* capacity: as long as the app waits for its answers, is not restarted    *)
(* and sends no reset, a command is written only after the response to the *)
(* one before it, gw3's own extended-scan command included.                *)
THEOREM SerialOutstanding == ASSUME Serial PROVE Spec => []OneOutstanding
<1>1. TypeOK /\ SerialInv => OneOutstanding
  BY InFlightSuffices DEF SerialInv
<1>2. QED
  BY SerialInit, SerialStep, TypeCorrect, <1>1, PTL DEF Spec

-----------------------------------------------------------------------------
(***************************************************************************)
(* An app that waits for each answer, resets included.  At most one place  *)
(* refers to its newest command: the pty, btappReader, a slice of its      *)
(* buffer in the queue, with the writer, or in btchipReq (Alone).  Until   *)
(* it is written nothing the chip or the event loop has is as new (Older), *)
(* and while something refers to it the app waits for it (Current), so     *)
(* that the app cannot write the next one over it.  A boot event taken for *)
(* the answer to a reset, its own or not, is forwarded when nothing refers *)
(* to that reset any more (SoftReset).                                     *)
(***************************************************************************)
OfBuffer(s) == s.array = "p"
Queued == \E i \in DOMAIN queue : OfBuffer(queue[i])
Unstored == pty # <<>> \/ rpc # "read" \/ Queued \/ OfBuffer(taken)
Unwritten == Unstored \/ (wpc = "write" /\ OfBuffer(req))

Alone ==
  /\ Len(pty) <= 1
  /\ pty # <<>> => rpc = "read" /\ ~Queued /\ ~OfBuffer(taken) /\ ~OfBuffer(req)
  /\ rpc # "read" => ~Queued /\ ~OfBuffer(taken) /\ ~OfBuffer(req)
  /\ Queued => ~OfBuffer(taken) /\ ~OfBuffer(req)
  /\ \A i, j \in DOMAIN queue : OfBuffer(queue[i]) /\ OfBuffer(queue[j]) => i = j
  /\ OfBuffer(taken) => ~OfBuffer(req)

OneCommand ==
  /\ rpc # "read" => n = 1
  /\ \A i \in DOMAIN queue : OfBuffer(queue[i]) => queue[i].len = 1
  /\ OfBuffer(taken) => taken.len = 1
  /\ OfBuffer(req) => req.len = 1

Command == IF pty # <<>> THEN pty[1] ELSE buf[1]

Current ==
  /\ IsFiniteSet(await) /\ \A c \in await : c.id = nsent
  /\ Unstored \/ OfBuffer(req) => await = {Command}

Latest == IF Unwritten THEN nsent - 1 ELSE nsent

Older ==
  /\ \A i \in DOMAIN rx : rx[i].id <= Latest
  /\ \A i \in DOMAIN tx : tx[i].cmd.id <= Latest
  /\ cur.cmd.id <= Latest

(* Every command of the app is in one place, gw3's own have number 0.      *)
Distinct ==
  /\ \A i, j \in DOMAIN rx : (rx[i] = rx[j] /\ rx[i].id # 0) => i = j
  /\ \A i, j \in DOMAIN tx : (tx[i].cmd = tx[j].cmd /\ tx[i].cmd.id # 0) => i = j
  /\ \A i \in DOMAIN rx, j \in DOMAIN tx : rx[i] = tx[j].cmd => rx[i].id = 0
  /\ cur.cmd.id # 0 => \A i \in DOMAIN rx : rx[i] # cur.cmd
  /\ cur.cmd.id # 0 => \A i \in DOMAIN tx : tx[i].cmd # cur.cmd

Answers ==
  /\ \A i \in DOMAIN rx : rx[i].id # 0 /\ rx[i].kind # "reset" => rx[i] \in await
  /\ \A i \in DOMAIN tx : IsResp(tx[i]) => tx[i].cmd \in Cmd /\ tx[i].cmd.kind # "reset"
  /\ \A i \in DOMAIN tx : IsResp(tx[i]) /\ tx[i].cmd.id # 0 => tx[i].cmd \in await
  /\ IsResp(cur) => cur.cmd \in Cmd
  /\ IsResp(cur) /\ cur.cmd.id # 0 => cur.cmd \in await
  /\ IsResp(cur) /\ cur.cmd.id # 0 /\ cpc \in {"signal", "forward"} => ~OfBuffer(req)

SoftReset ==
  cur.type = "boot" /\ cpc \in {"reqnil", "signal", "forward"} =>
    await # {} /\ ~Unstored /\ (cpc # "reqnil" => ~OfBuffer(req))

Steady == Alone /\ OneCommand /\ Current /\ Older /\ Distinct /\ Answers /\ SoftReset

AnswerInv == restarts = 0 => Steady

-----------------------------------------------------------------------------
LEMMA Ids ==
  ASSUME TypeOK
  PROVE  /\ nsent \in Nat /\ cur.cmd.id \in Nat
         /\ \A i \in DOMAIN rx : rx[i].id \in Nat
         /\ \A i \in DOMAIN tx : tx[i].cmd.id \in Nat
<1>1. \A c \in Cmd \cup {NoCmd} : c.id \in Nat
  BY DEF Cmd, AppCmd, ExtScan, NoCmd
<1>2. \A f \in Frame \cup {NoFrame} : f.cmd \in Cmd \cup {NoCmd}
  BY DEF Frame, NoFrame
<1>3. /\ cur \in Frame \cup {NoFrame} /\ \A i \in DOMAIN rx : rx[i] \in Cmd
      /\ \A i \in DOMAIN tx : tx[i] \in Frame
  BY NonEmpty, ElementOfSeq DEF TypeOK
<1>4. QED  BY <1>1, <1>2, <1>3, Constants DEF TypeOK

(* A slice of the buffer refers to the whole newest command.               *)
LEMMA WholeCommand ==
  ASSUME TypeOK, NEW s \in Slice
  PROVE  /\ OfBuffer(s) /\ s.len = 1 => Content(s) = <<buf[1]>>
         /\ ~OfBuffer(s) => Content(s) = <<>> \/ Content(s) = <<ExtScan>>
<1>1. CASE s \in [array : {"p"}, len : 0..Len(buf)]
  <2>1. Content(s) = SubSeq(buf, 1, s.len) /\ s.len \in 0..Len(buf) /\ OfBuffer(s)
    BY <1>1 DEF Content, OfBuffer
  <2>2. buf \in Seq(AppCmd)
    BY DEF TypeOK
  <2>3. ASSUME s.len = 1
        PROVE  SubSeq(buf, 1, s.len) = <<buf[1]>>
    <3> DEFINE a == SubSeq(buf, 1, 1)
               b == <<buf[1]>>
    <3>1. a \in Seq(AppCmd) /\ Len(a) = 1 /\ a[1] = buf[1]
      BY <2>1, <2>2, <2>3
    <3>2. b \in Seq(AppCmd) /\ Len(b) = 1 /\ b[1] = buf[1]
      BY <2>1, <2>2, <2>3
    <3> HIDE DEF a, b
    <3>3. Len(a) = Len(b) /\ \A i \in 1..Len(a) : a[i] = b[i]
      BY <3>1, <3>2
    <3>4. a = b
      BY <3>1, <3>2, <3>3, SeqEqual
    <3>5. QED  BY <2>3, <3>4 DEF a, b
  <2>4. QED  BY <2>1, <2>3
<1>2. CASE s = NilSlice \/ s = ExtSlice
  BY <1>2 DEF Content, OfBuffer, NilSlice, ExtSlice
<1>3. QED  BY <1>1, <1>2 DEF Slice

LEMMA AnswerInit == Init => AnswerInv
<1> SUFFICES ASSUME Init PROVE AnswerInv
  OBVIOUS
<1>1. /\ DOMAIN tx \subseteq {1} /\ \A i \in DOMAIN tx : tx[i] = HardBoot
  <2>1. tx = <<>> \/ tx = <<HardBoot>>
    BY DEF Init
  <2>2. QED  BY <2>1
<1>2. pty = <<>> /\ rx = <<>> /\ queue = <<>>
  BY DEF Init
<1>3. rpc = "read" /\ taken = NilSlice /\ req = NilSlice /\ cur = NoFrame /\ await = {} /\ nsent = 0
  BY DEF Init
<1>4. ~Unstored /\ ~OfBuffer(req) /\ Latest = 0
  BY <1>2, <1>3 DEF Unstored, Queued, OfBuffer, NilSlice, Latest, Unwritten
<1>5. Alone /\ OneCommand /\ Current
  BY <1>2, <1>3, <1>4, FS_EmptySet DEF Alone, OneCommand, Current, Queued, OfBuffer, NilSlice
<1>6. Older /\ Distinct
  BY <1>1, <1>2, <1>3, <1>4 DEF Older, Distinct, HardBoot, NoFrame, NoCmd
<1>7. Answers /\ SoftReset
  BY <1>1, <1>2, <1>3 DEF Answers, SoftReset, IsResp, HardBoot, NoFrame, NoCmd
<1>8. QED  BY <1>5, <1>6, <1>7 DEF AnswerInv, Steady

(* The app sends a command: nothing refers to the one before it.           *)
LEMMA AnswerSend ==
  ASSUME Window = 1, TypeOK, Steady, NEW k \in AppKinds, AppSend(k)
  PROVE  Steady'
<1> DEFINE c == [kind |-> k, id |-> nsent + 1]
<1>0. Alone /\ OneCommand /\ Current /\ Older /\ Distinct /\ Answers /\ SoftReset
  BY DEF Steady
<1>1. await = {}
  <2>1. Cardinality(await) < 1
    BY DEF AppSend
  <2>2. QED  BY <1>0, <2>1, FS_EmptySet, FS_CardinalityType DEF Current
<1>2. ~Unstored /\ ~OfBuffer(req)
  BY <1>0, <1>1 DEF Current
<1>3. pty = <<>> /\ rpc = "read" /\ ~Queued /\ ~OfBuffer(taken)
  BY <1>2 DEF Unstored
<1>4. /\ pty' = <<c>> /\ await' = {c} /\ nsent' = nsent + 1
      /\ UNCHANGED <<buf, n, rpc, queue, wpc, taken, req, rx, tx, cpc, cur>>
  BY <1>1, <1>3 DEF AppSend, readerVars, writerVars, chipVars, loopVars
<1> HIDE DEF c
<1>5. /\ Len(pty') = 1 /\ pty' # <<>> /\ pty'[1] = c /\ c.id = nsent' /\ IsFiniteSet(await')
  BY <1>4, FS_Singleton DEF c
<1>6. Queued' = Queued /\ OfBuffer(taken') = OfBuffer(taken) /\ OfBuffer(req') = OfBuffer(req)
  BY <1>4 DEF Queued
<1>7. Alone'
  BY <1>0, <1>2, <1>3, <1>4, <1>5, <1>6 DEF Alone
<1>8. OneCommand'
  BY <1>0, <1>4 DEF OneCommand
<1>9. Current'
  BY <1>4, <1>5 DEF Current, Command
<1>10. Latest = nsent /\ Latest' = nsent' - 1
  BY <1>2, <1>5 DEF Latest, Unwritten, Unstored
<1>11. Latest' = Latest
  BY <1>4, <1>10, Ids
<1>12. Older'
  BY <1>0, <1>4, <1>11 DEF Older
<1>13. Distinct'
  BY <1>0, <1>4 DEF Distinct
<1>14. Answers'
  BY <1>0, <1>1, <1>4 DEF Answers, IsResp
<1>15. SoftReset'
  BY <1>0, <1>1, <1>4 DEF SoftReset
<1>16. QED
  BY <1>7, <1>8, <1>9, <1>12, <1>13, <1>14, <1>15 DEF Steady

(* Steps that leave what the chip and the event loop have as it is, and    *)
(* after which no more refers to the newest command than before.           *)
LEMMA AnswerKept ==
  ASSUME TypeOK, Steady, UNCHANGED <<await, nsent, rx, tx, cpc, cur>>,
         Unwritten' => Unwritten, Unstored' => Unstored,
         OfBuffer(req') => OfBuffer(req) \/ Unstored
  PROVE  Older' /\ Distinct' /\ Answers' /\ SoftReset'
<1>0. Current /\ Older /\ Distinct /\ Answers /\ SoftReset
  BY DEF Steady
<1>1. nsent \in Nat /\ Latest \in Int /\ Latest' \in Int /\ Latest <= Latest'
  BY Ids DEF Latest
<1>2. Older'
  BY <1>0, <1>1, Ids DEF Older
<1>3. Distinct'
  BY <1>0 DEF Distinct
<1>4. ASSUME IsResp(cur), cur.cmd.id # 0
      PROVE  ~Unstored
  <2>1. cur.cmd.id = nsent
    BY <1>0, <1>4 DEF Answers, Current
  <2>2. QED  BY <1>0, <1>1, <2>1 DEF Older, Latest, Unwritten
<1>5. Answers'
  BY <1>0, <1>4 DEF Answers, IsResp
<1>6. SoftReset'
  BY <1>0 DEF SoftReset
<1>7. QED  BY <1>2, <1>3, <1>5, <1>6

(* One Read, and the steps of btappReader up to the addition of a slice.   *)
LEMMA AnswerReader ==
  ASSUME TypeOK, TypeOK', Steady, Reader
  PROVE  Steady'
<1>0. Alone /\ OneCommand /\ Current
  BY DEF Steady
<1>1. CASE ReaderRead
  <2>1. PICK k \in 1..Len(pty) :
          /\ n' = k
          /\ buf' = SubSeq(pty, 1, k) \o SubSeq(buf, k + 1, Len(buf))
          /\ pty' = SubSeq(pty, k + 1, Len(pty))
    BY <1>1 DEF ReaderRead
  <2>2. Len(pty) = 1 /\ k = 1 /\ pty # <<>> /\ n' = 1 /\ pty' = <<>>
    <3>1. Len(pty) \in Nat /\ Len(pty) <= 1
      BY <1>0, LenProperties DEF TypeOK, Alone
    <3>2. Len(pty) = 1 /\ k = 1
      <4> DEFINE l == Len(pty)
      <4>1. l \in Nat /\ l <= 1 /\ k \in 1..l
        BY <3>1
      <4> HIDE DEF l
      <4>2. l = 1 /\ k = 1
        BY <4>1
      <4>3. QED  BY <4>2 DEF l
    <3>3. pty # <<>>
      BY <3>2
    <3>4. pty' = <<>>
      BY <2>1, <3>2
    <3>5. QED  BY <2>1, <3>2, <3>3, <3>4
  <2>3. buf'[1] = pty[1]
    BY <2>1, Overwrite DEF TypeOK
  <2>4. /\ UNCHANGED <<await, nsent, queue, wpc, taken, req, rx, tx, cpc, cur>>
        /\ rpc' \in {"qclear", "addext", "add"}
    BY <1>1 DEF ReaderRead, writerVars, chipVars, loopVars
  <2>5. ~Queued /\ ~OfBuffer(taken) /\ ~OfBuffer(req)
    BY <1>0, <2>2 DEF Alone
  <2>6. Queued' = Queued /\ OfBuffer(taken') = OfBuffer(taken) /\ OfBuffer(req') = OfBuffer(req)
    BY <2>4 DEF Queued
  <2>7. Len(pty') = 0
    BY <2>2
  <2>8. Alone'
    BY <1>0, <2>2, <2>4, <2>5, <2>6, <2>7 DEF Alone
  <2>9. OneCommand'
    BY <1>0, <2>2, <2>4 DEF OneCommand
  <2>10. Unstored
    BY <2>2 DEF Unstored
  <2>11. Current'
    BY <1>0, <2>2, <2>3, <2>4, <2>10 DEF Current, Command
  <2>12. Older' /\ Distinct' /\ Answers' /\ SoftReset'
    BY <2>4, <2>6, <2>10, AnswerKept DEF Unwritten
  <2>13. QED  BY <2>8, <2>9, <2>11, <2>12 DEF Steady
<1>2. CASE ReaderClear \/ ReaderReqNil \/ ReaderSignal \/ ReaderAddExt \/ ReaderAdd
  <2>1. /\ rpc # "read"
        /\ UNCHANGED <<pty, await, nsent, buf, n, taken, rx, tx, cpc, cur>>
    BY <1>2 DEF ReaderClear, ReaderReqNil, ReaderSignal, ReaderAddExt, ReaderAdd,
                appVars, writerVars, chipVars, loopVars
  <2>2. pty = <<>> /\ ~Queued /\ ~OfBuffer(taken) /\ ~OfBuffer(req) /\ n = 1
    BY <1>0, <2>1 DEF Alone, OneCommand
  <2>3. OfBuffer(taken') = OfBuffer(taken) /\ ~OfBuffer(req')
    BY <1>2, <2>2 DEF ReaderClear, ReaderReqNil, ReaderSignal, ReaderAddExt, ReaderAdd,
                writerVars, OfBuffer, NilSlice
  <2>4. queue \in Seq(Slice) /\ Len(queue) \in Nat /\ DOMAIN queue = 1..Len(queue)
    BY NonEmpty DEF TypeOK
  <2>5. \/ rpc' # "read" /\ ~Queued'
        \/ /\ rpc' = "read"
           /\ \E s : s.len = 1 /\ queue' = Append(queue, s)
    <3>1. CASE ReaderClear
      <4>1. rpc' # "read" /\ (queue' = queue \/ (queue # <<>> /\ queue' = Tail(queue)))
        BY <3>1 DEF ReaderClear
      <4>2. queue # <<>> => \A i \in DOMAIN Tail(queue) :
              i + 1 \in DOMAIN queue /\ Tail(queue)[i] = queue[i + 1]
        BY <2>4, NonEmpty
      <4>3. QED  BY <2>2, <4>1, <4>2 DEF Queued
    <3>2. CASE ReaderReqNil \/ ReaderSignal
      <4>1. rpc' # "read" /\ queue' = queue
        BY <3>2 DEF ReaderReqNil, ReaderSignal
      <4>2. QED  BY <2>2, <4>1 DEF Queued
    <3>3. CASE ReaderAddExt
      <4>1. rpc' # "read" /\ queue' = Append(queue, ExtSlice)
        BY <3>3 DEF ReaderAddExt, btchipQueueAdd
      <4>2. ~OfBuffer(ExtSlice)
        BY DEF ExtSlice, OfBuffer
      <4>3. QED  BY <2>2, <2>4, <4>1, <4>2, Appended DEF Queued
    <3>4. CASE ReaderAdd
      BY <2>2, <3>4 DEF ReaderAdd, btchipQueueAdd
    <3>5. QED  BY <1>2, <3>1, <3>2, <3>3, <3>4
  <2>6. /\ rpc' = "read" =>
             /\ \A i, j \in DOMAIN queue' : OfBuffer(queue'[i]) /\ OfBuffer(queue'[j]) => i = j
             /\ \A i \in DOMAIN queue' : OfBuffer(queue'[i]) => queue'[i].len = 1
    <3> SUFFICES ASSUME rpc' = "read"
                 PROVE  \A i \in DOMAIN queue' :
                          OfBuffer(queue'[i]) => i = Len(queue) + 1 /\ queue'[i].len = 1
      OBVIOUS
    <3>1. PICK s : s.len = 1 /\ queue' = Append(queue, s)
      BY <2>5
    <3>2. QED  BY <2>2, <2>4, <3>1, Appended DEF Queued
  <2>7. Alone'
    BY <1>0, <2>1, <2>2, <2>3, <2>5, <2>6 DEF Alone, Queued
  <2>8. OneCommand'
    BY <2>1, <2>2, <2>3, <2>5, <2>6 DEF OneCommand, Queued
  <2>9. Unstored /\ Unwritten
    BY <2>1 DEF Unstored, Unwritten
  <2>10. Current'
    BY <1>0, <2>1, <2>2, <2>9 DEF Current, Command
  <2>11. Older' /\ Distinct' /\ Answers' /\ SoftReset'
    BY <2>1, <2>3, <2>9, AnswerKept
  <2>12. QED  BY <2>7, <2>8, <2>10, <2>11 DEF Steady
<1>3. QED  BY <1>1, <1>2 DEF Reader

(* The writer: the slice moves on to btchipReq, and is written once.       *)
LEMMA AnswerWriter ==
  ASSUME TypeOK, TypeOK', Steady, Writer
  PROVE  Steady'
<1>0. Alone /\ OneCommand /\ Current /\ Older /\ Distinct /\ Answers /\ SoftReset
  BY DEF Steady
<1>1. CASE WriterTake
  <2>1. /\ queue # <<>> /\ taken' = Head(queue) /\ queue' = Tail(queue)
        /\ wpc = "take" /\ wpc' = "store"
        /\ UNCHANGED <<pty, await, nsent, buf, n, rpc, req, rx, tx, cpc, cur>>
    BY <1>1 DEF WriterTake, appVars, readerVars, chipVars, loopVars
  <2>2. queue \in Seq(Slice) /\ Len(queue) \in Nat /\ DOMAIN queue = 1..Len(queue)
    BY NonEmpty DEF TypeOK
  <2>3. /\ taken' = queue[1] /\ 1 \in DOMAIN queue
        /\ \A i \in DOMAIN queue' : i # 0 /\ i + 1 \in DOMAIN queue /\ queue'[i] = queue[i + 1]
    BY <2>1, <2>2, NonEmpty
  <2>4. /\ OfBuffer(taken') => Queued /\ ~Queued'
        /\ Queued' => Queued
    <3>1. OfBuffer(taken') \/ Queued' => Queued
      BY <2>3 DEF Queued
    <3>2. ASSUME OfBuffer(taken'), NEW i \in DOMAIN queue', OfBuffer(queue'[i])
          PROVE  FALSE
      <4>1. i \in Int /\ i # 0 /\ i + 1 = 1
        BY <1>0, <2>1, <2>2, <2>3, <3>2 DEF Alone
      <4>2. QED  BY <4>1
    <3>3. QED  BY <3>1, <3>2 DEF Queued
  <2>5. /\ \A i, j \in DOMAIN queue' : OfBuffer(queue'[i]) /\ OfBuffer(queue'[j]) => i = j
        /\ \A i \in DOMAIN queue' : OfBuffer(queue'[i]) => queue'[i].len = 1
        /\ OfBuffer(taken') => taken'.len = 1
    <3>1. ASSUME NEW i \in DOMAIN queue', NEW j \in DOMAIN queue',
                 OfBuffer(queue'[i]), OfBuffer(queue'[j])
          PROVE  i = j
      <4>1. i + 1 = j + 1
        BY <1>0, <2>3, <3>1 DEF Alone
      <4>2. i \in Int /\ j \in Int
        BY <2>1, <2>2
      <4>3. QED  BY <4>1, <4>2
    <3>2. QED  BY <1>0, <2>3, <3>1 DEF OneCommand
  <2>6. Alone'
    BY <1>0, <2>1, <2>4, <2>5 DEF Alone
  <2>7. OneCommand'
    BY <1>0, <2>1, <2>5 DEF OneCommand
  <2>8. (Unstored' => Unstored) /\ (Unwritten' => Unwritten)
    BY <2>1, <2>4 DEF Unstored, Unwritten
  <2>9. Current'
    BY <1>0, <2>1, <2>8 DEF Current, Command
  <2>10. Older' /\ Distinct' /\ Answers' /\ SoftReset'
    BY <2>1, <2>8, AnswerKept
  <2>11. QED  BY <2>6, <2>7, <2>9, <2>10 DEF Steady
<1>2. CASE WriterStore
  <2>1. /\ req' = taken /\ taken' = NilSlice /\ wpc = "store" /\ wpc' = "write"
        /\ UNCHANGED <<pty, await, nsent, buf, n, rpc, queue, rx, tx, cpc, cur>>
    BY <1>2 DEF WriterStore, appVars, readerVars, chipVars, loopVars
  <2>2. /\ ~OfBuffer(taken') /\ OfBuffer(req') = OfBuffer(taken)
        /\ Queued' = Queued
    BY <2>1 DEF OfBuffer, NilSlice, Queued
  <2>3. Alone'
    BY <1>0, <2>1, <2>2 DEF Alone
  <2>4. OneCommand'
    BY <1>0, <2>1, <2>2 DEF OneCommand
  <2>5. (Unstored' => Unstored) /\ (Unwritten' => Unwritten) /\ (OfBuffer(req') => Unstored)
    BY <2>1, <2>2 DEF Unstored, Unwritten
  <2>6. Current'
    BY <1>0, <2>1, <2>5 DEF Current, Command
  <2>7. Older' /\ Distinct' /\ Answers' /\ SoftReset'
    BY <2>1, <2>5, AnswerKept
  <2>8. QED  BY <2>3, <2>4, <2>6, <2>7 DEF Steady
<1>3. CASE WriterPark
  <2>1. /\ wpc = "park" /\ wpc' = "wait"
        /\ UNCHANGED <<pty, await, nsent, buf, n, rpc, queue, taken, req, rx, tx, cpc, cur>>
    BY <1>3 DEF WriterPark, appVars, readerVars, chipVars, loopVars
  <2>2. Unstored' = Unstored /\ (Unwritten' => Unwritten)
    BY <2>1 DEF Unstored, Unwritten, Queued
  <2>3. Alone' /\ OneCommand' /\ Current'
    BY <1>0, <2>1, <2>2 DEF Alone, OneCommand, Current, Command, Queued
  <2>4. Older' /\ Distinct' /\ Answers' /\ SoftReset'
    BY <2>1, <2>2, AnswerKept
  <2>5. QED  BY <2>3, <2>4 DEF Steady
<1>4. CASE WriterWrite
  <2>1. /\ rx' = rx \o Content(req) /\ wpc = "write" /\ wpc' = "park"
        /\ UNCHANGED <<pty, await, nsent, buf, n, rpc, queue, taken, req, tx, cpc, cur>>
    BY <1>4 DEF WriterWrite, appVars, readerVars, loopVars
  <2>2. Unstored' = Unstored /\ (Unwritten' => Unwritten)
    BY <2>1 DEF Unstored, Unwritten, Queued
  <2>3. Alone' /\ OneCommand' /\ Current'
    BY <1>0, <2>1, <2>2 DEF Alone, OneCommand, Current, Command, Queued
  <2>4. SoftReset'
    BY <1>0, <2>1, <2>2 DEF SoftReset
  <2>5. rx \in Seq(Cmd) /\ Len(rx) \in Nat /\ DOMAIN rx = 1..Len(rx)
    BY NonEmpty DEF TypeOK
  <2>6. CASE Content(req) = <<>>
    <3>1. rx' = rx
      BY <2>1, <2>5, <2>6
    <3>2. Older' /\ Distinct' /\ Answers'
      BY <2>1, <2>2, <3>1, AnswerKept
    <3>3. QED  BY <2>3, <2>4, <3>2 DEF Steady
  <2>7. ASSUME NEW e, Content(req) = <<e>>,
               e = ExtScan \/ (OfBuffer(req) /\ e = buf[1])
        PROVE  Steady'
    <3>1. /\ DOMAIN rx' = 1..(Len(rx) + 1) /\ rx'[Len(rx) + 1] = e
          /\ \A i \in 1..Len(rx) : rx'[i] = rx[i]
      BY <2>1, <2>5, <2>7
    <3>2. /\ nsent \in Nat /\ Latest \in Int /\ Latest' \in Int /\ Latest <= Latest'
      BY <2>1, <2>2, Ids DEF Latest
    <3>3. OfBuffer(req) => /\ e \in await /\ e.id = nsent
                           /\ Latest = nsent - 1 /\ Latest' = nsent
      <4> SUFFICES ASSUME OfBuffer(req)
                   PROVE  e \in await /\ e.id = nsent /\ Latest = nsent - 1 /\ Latest' = nsent
        OBVIOUS
      <4>1. pty = <<>> /\ ~Unstored
        BY <1>0 DEF Alone, Unstored
      <4>2. await = {buf[1]}
        BY <1>0, <4>1 DEF Current, Command
      <4>3. e = buf[1]
        <5>1. Content(req) = <<buf[1]>>
          BY <1>0, WholeCommand DEF TypeOK, OneCommand
        <5>2. QED  BY <2>7, <5>1
      <4>4. Latest = nsent - 1 /\ Latest' = nsent
        BY <2>1, <2>2, <4>1 DEF Latest, Unwritten
      <4>5. QED  BY <1>0, <4>2, <4>3, <4>4 DEF Current
    <3>4. ~OfBuffer(req) => e.id = 0
      BY <2>7 DEF ExtScan
    <3>5. Older'
      <4>1. e.id <= Latest'
        <5>1. CASE OfBuffer(req)
          BY <3>2, <3>3, <5>1
        <5>2. CASE ~OfBuffer(req)
          <6>1. 0 <= Latest
            BY <1>0, Ids, <3>2 DEF Older
          <6>2. QED  BY <3>2, <3>4, <5>2, <6>1
        <5>3. QED  BY <5>1, <5>2
      <4>2. \A i \in DOMAIN rx : rx'[i].id <= Latest'
        BY <1>0, <2>5, <3>1, <3>2, Ids DEF Older
      <4>3. (\A i \in DOMAIN tx : tx[i].cmd.id <= Latest') /\ cur.cmd.id <= Latest'
        BY <1>0, <3>2, Ids DEF Older
      <4>4. QED  BY <2>1, <2>5, <3>1, <4>1, <4>2, <4>3 DEF Older
    <3>6. Distinct'
      <4>1. e.id # 0 => /\ \A i \in DOMAIN rx : rx[i] # e
                        /\ \A i \in DOMAIN tx : tx[i].cmd # e
                        /\ cur.cmd # e
        <5> SUFFICES ASSUME e.id # 0
                     PROVE  /\ \A i \in DOMAIN rx : rx[i].id # e.id
                            /\ \A i \in DOMAIN tx : tx[i].cmd.id # e.id
                            /\ cur.cmd.id # e.id
          OBVIOUS
        <5>1. e.id = nsent /\ Latest = nsent - 1
          BY <3>3, <3>4
        <5>2. QED  BY <1>0, <3>2, <5>1, Ids DEF Older
      <4>2. \A i \in DOMAIN rx' : (i \in DOMAIN rx /\ rx'[i] = rx[i]) \/ (i = Len(rx) + 1 /\ rx'[i] = e)
        BY <2>5, <3>1
      <4>3. QED  BY <1>0, <2>1, <4>1, <4>2 DEF Distinct
    <3>7. Answers'
      <4>1. e.id # 0 => e \in await
        BY <3>3, <3>4
      <4>2. \A i \in DOMAIN rx' : (i \in DOMAIN rx /\ rx'[i] = rx[i]) \/ rx'[i] = e
        BY <2>5, <3>1
      <4>3. \A i \in DOMAIN rx' : rx'[i].id # 0 /\ rx'[i].kind # "reset" => rx'[i] \in await
        BY <1>0, <4>1, <4>2 DEF Answers
      <4>4. QED  BY <1>0, <2>1, <4>3 DEF Answers, IsResp
    <3>8. QED  BY <2>3, <2>4, <3>5, <3>6, <3>7 DEF Steady
  <2>8. QED
    <3>1. \/ Content(req) = <<>> \/ Content(req) = <<ExtScan>>
          \/ OfBuffer(req) /\ Content(req) = <<buf[1]>>
      BY <1>0, WholeCommand DEF TypeOK, OneCommand
    <3>2. QED  BY <2>6, <2>7, <3>1
<1>5. QED  BY <1>1, <1>2, <1>3, <1>4 DEF Writer

(* The chip answers a command, or sends an event of its own.               *)
LEMMA AnswerChip ==
  ASSUME TypeOK, TypeOK', Steady, Chip
  PROVE  Steady'
<1>0. Alone /\ OneCommand /\ Current /\ Older /\ Distinct /\ Answers /\ SoftReset
  BY DEF Steady
<1>1. UNCHANGED <<pty, await, nsent, buf, n, rpc, queue, wpc, taken, req, cpc, cur>>
  BY DEF Chip, ChipExec, ChipEvent, appVars, readerVars, writerVars, loopVars
<1>2. Alone' /\ OneCommand' /\ Current' /\ SoftReset' /\ Latest' = Latest
  BY <1>0, <1>1 DEF Alone, OneCommand, Current, Command, SoftReset, Latest, Unwritten, Unstored, Queued
<1>3. /\ rx \in Seq(Cmd) /\ Len(rx) \in Nat /\ DOMAIN rx = 1..Len(rx)
      /\ tx \in Seq(Frame) /\ Len(tx) \in Nat /\ DOMAIN tx = 1..Len(tx)
  BY NonEmpty DEF TypeOK
<1>4. ASSUME NEW f, tx' = Append(tx, f)
      PROVE  /\ \A i \in DOMAIN tx' : (i \in DOMAIN tx /\ tx'[i] = tx[i]) \/ (i = Len(tx) + 1 /\ tx'[i] = f)
  BY <1>3, <1>4, Appended
<1>5. CASE ChipExec
  <2> DEFINE c == rx[1]
  <2>1. /\ rx # <<>> /\ (rx' = Tail(rx) \/ rx' = <<>>) /\ 1 \in DOMAIN rx /\ Head(rx) = c
    BY <1>3, <1>5, NonEmpty DEF ChipExec
  <2>2. PICK f : /\ tx' = Append(tx, f)
                 /\ f.cmd = c
                 /\ \/ f.type = "boot" /\ c.kind = "reset"
                    \/ f.type = "resp" /\ c.kind # "reset"
    <3>1. Boot(c).cmd = c /\ Resp(c).cmd = c /\ Boot(c).type = "boot" /\ Resp(c).type = "resp"
      BY DEF Boot, Resp
    <3>2. \/ tx' = Append(tx, Boot(c)) /\ c.kind = "reset"
          \/ tx' = Append(tx, Resp(c)) /\ c.kind # "reset"
      BY <1>5, <2>1 DEF ChipExec
    <3> HIDE DEF c
    <3>3. QED  BY <3>1, <3>2
  <2>3. \A i \in DOMAIN tx' : (i \in DOMAIN tx /\ tx'[i] = tx[i]) \/ (i = Len(tx) + 1 /\ tx'[i] = f)
    BY <1>4, <2>2
  <2>4. \A i \in DOMAIN rx' : i + 1 \in DOMAIN rx /\ i # 0 /\ rx'[i] = rx[i + 1] /\ i \in Int
    <3>1. CASE rx' = <<>>
      BY <3>1
    <3>2. CASE rx' = Tail(rx)
      BY <1>3, <2>1, <3>2
    <3>3. QED  BY <2>1, <3>1, <3>2
  <2> HIDE DEF c
  <2>5. c \in Cmd /\ c.id <= Latest /\ (c.id # 0 /\ c.kind # "reset" => c \in await)
    BY <1>0, <1>3, <2>1, ElementOfSeq DEF Older, Answers, c
  <2>6. c.id # 0 => /\ \A i \in DOMAIN rx' : rx'[i] # c
                    /\ \A i \in DOMAIN tx : tx[i].cmd # c
                    /\ cur.cmd # c
    <3> SUFFICES ASSUME c.id # 0
                 PROVE  /\ \A i \in DOMAIN rx' : rx'[i] # c
                        /\ \A i \in DOMAIN tx : tx[i].cmd # c
                        /\ cur.cmd # c
      OBVIOUS
    <3>1. ASSUME NEW i \in DOMAIN rx', rx'[i] = c
          PROVE  FALSE
      <4>1. i + 1 = 1
        BY <1>0, <2>1, <2>4, <3>1 DEF Distinct, c
      <4>2. QED  BY <2>4, <4>1
    <3>2. (\A i \in DOMAIN tx : tx[i].cmd # c) /\ cur.cmd # c
      BY <1>0, <2>1 DEF Distinct, c
    <3>3. QED  BY <3>1, <3>2
  <2>7. Older'
    <3>1. \A i \in DOMAIN rx' : rx'[i].id <= Latest
      BY <1>0, <2>4 DEF Older
    <3>2. \A i \in DOMAIN tx' : tx'[i].cmd.id <= Latest
      BY <1>0, <2>2, <2>3, <2>5 DEF Older
    <3>3. QED  BY <1>0, <1>1, <1>2, <3>1, <3>2 DEF Older
  <2>8. Distinct'
    <3>1. \A i, j \in DOMAIN rx' : (rx'[i] = rx'[j] /\ rx'[i].id # 0) => i = j
      <4> SUFFICES ASSUME NEW i \in DOMAIN rx', NEW j \in DOMAIN rx', rx'[i] = rx'[j], rx'[i].id # 0
                   PROVE  i = j
        OBVIOUS
      <4>1. i + 1 = j + 1
        BY <1>0, <2>4 DEF Distinct
      <4>2. QED  BY <2>4, <4>1
    <3>2. \A i, j \in DOMAIN tx' : (tx'[i].cmd = tx'[j].cmd /\ tx'[i].cmd.id # 0) => i = j
      BY <1>0, <2>2, <2>3, <2>6 DEF Distinct
    <3>3. \A i \in DOMAIN rx', j \in DOMAIN tx' : rx'[i] = tx'[j].cmd => rx'[i].id = 0
      BY <1>0, <2>2, <2>3, <2>4, <2>6 DEF Distinct
    <3>4. cur.cmd.id # 0 => \A i \in DOMAIN rx' : rx'[i] # cur.cmd
      BY <1>0, <2>4 DEF Distinct
    <3>5. cur.cmd.id # 0 => \A i \in DOMAIN tx' : tx'[i].cmd # cur.cmd
      BY <1>0, <2>2, <2>3, <2>6 DEF Distinct
    <3>6. QED  BY <1>1, <3>1, <3>2, <3>3, <3>4, <3>5 DEF Distinct
  <2>9. Answers'
    <3>1. \A i \in DOMAIN rx' : rx'[i].id # 0 /\ rx'[i].kind # "reset" => rx'[i] \in await
      BY <1>0, <2>4 DEF Answers
    <3>2. \A i \in DOMAIN tx' : IsResp(tx'[i]) =>
            /\ tx'[i].cmd \in Cmd /\ tx'[i].cmd.kind # "reset"
            /\ tx'[i].cmd.id # 0 => tx'[i].cmd \in await
      BY <1>0, <2>2, <2>3, <2>5 DEF Answers, IsResp
    <3>3. QED  BY <1>0, <1>1, <3>1, <3>2 DEF Answers, IsResp
  <2>10. QED  BY <1>2, <2>7, <2>8, <2>9 DEF Steady
<1>6. CASE ChipEvent
  <2>1. tx' = Append(tx, Event) /\ rx' = rx
    BY <1>6 DEF ChipEvent
  <2>2. \A i \in DOMAIN tx' : (i \in DOMAIN tx /\ tx'[i] = tx[i]) \/ (i = Len(tx) + 1 /\ tx'[i] = Event)
    BY <1>4, <2>1
  <2>3. Event.cmd.id = 0 /\ ~IsResp(Event)
    BY DEF Event, NoCmd, IsResp
  <2>4. 0 <= Latest
    <3>1. Latest \in Int
      BY Ids DEF Latest
    <3>2. QED  BY <1>0, <3>1, Ids DEF Older
  <2>5. Older'
    BY <1>0, <1>1, <1>2, <2>1, <2>2, <2>3, <2>4 DEF Older
  <2>6. Distinct'
    BY <1>0, <1>1, <2>1, <2>2, <2>3 DEF Distinct
  <2>7. Answers'
    <3>1. \A i \in DOMAIN tx' : IsResp(tx'[i]) => i \in DOMAIN tx /\ tx'[i] = tx[i]
      BY <2>2, <2>3
    <3>2. QED  BY <1>0, <1>1, <2>1, <3>1 DEF Answers, IsResp
  <2>8. QED  BY <1>2, <2>5, <2>6, <2>7 DEF Steady
<1>7. QED  BY <1>5, <1>6 DEF Chip

(* The event loop: a frame answers only what it answers.                   *)
LEMMA AnswerLoop ==
  ASSUME TypeOK, TypeOK', Steady, Loop
  PROVE  Steady'
<1>0. Alone /\ OneCommand /\ Current /\ Older /\ Distinct /\ Answers /\ SoftReset
  BY DEF Steady
<1>1. CASE LoopRead
  <2>1. /\ tx # <<>> /\ cur' = Head(tx) /\ tx' = Tail(tx) /\ cpc = "read"
        /\ Head(tx).type = "resp" => cpc' = "reqnil"
        /\ Head(tx).type = "boot" => cpc' \in {"reqnil", "qclear"}
        /\ Head(tx).type = "boot" /\ cpc' = "reqnil" => IsResetCmd(req)
        /\ UNCHANGED <<pty, await, nsent, buf, n, rpc, queue, wpc, taken, req, rx>>
    BY <1>1 DEF LoopRead, appVars, readerVars, writerVars
  <2>2. /\ cur' = tx[1] /\ 1 \in DOMAIN tx
        /\ \A i \in DOMAIN tx' : i \in Int /\ i # 0 /\ i + 1 \in DOMAIN tx /\ tx'[i] = tx[i + 1]
    BY <2>1 DEF TypeOK
  <2>3. Alone' /\ OneCommand' /\ Current' /\ Latest' = Latest /\ Unstored' = Unstored
    BY <1>0, <2>1 DEF Alone, OneCommand, Current, Command, Latest, Unwritten, Unstored, Queued
  <2>4. Older'
    <3>1. (\A i \in DOMAIN tx' : tx'[i].cmd.id <= Latest) /\ cur'.cmd.id <= Latest
      BY <1>0, <2>2 DEF Older
    <3>2. QED  BY <1>0, <2>1, <2>3, <3>1 DEF Older
  <2>5. Distinct'
    <3>1. ASSUME NEW i \in DOMAIN tx', NEW j \in DOMAIN tx', tx'[i].cmd = tx'[j].cmd, tx'[i].cmd.id # 0
          PROVE  i = j
      <4>1. i + 1 = j + 1
        BY <1>0, <2>2, <3>1 DEF Distinct
      <4>2. QED  BY <2>2, <4>1
    <3>2. ASSUME NEW i \in DOMAIN tx', tx'[i].cmd = cur'.cmd, cur'.cmd.id # 0
          PROVE  FALSE
      <4>1. i + 1 = 1
        BY <1>0, <2>2, <3>2 DEF Distinct
      <4>2. QED  BY <2>2, <4>1
    <3>3. /\ \A i \in DOMAIN rx, j \in DOMAIN tx' : rx[i] = tx'[j].cmd => rx[i].id = 0
          /\ \A i \in DOMAIN rx : rx[i] = cur'.cmd => rx[i].id = 0
      BY <1>0, <2>2 DEF Distinct
    <3>4. QED  BY <1>0, <2>1, <3>1, <3>2, <3>3 DEF Distinct
  <2>6. Answers'
    <3>1. \A i \in DOMAIN tx' : IsResp(tx'[i]) =>
            /\ tx'[i].cmd \in Cmd /\ tx'[i].cmd.kind # "reset"
            /\ tx'[i].cmd.id # 0 => tx'[i].cmd \in await
      BY <1>0, <2>2 DEF Answers
    <3>2. IsResp(cur') => /\ cpc' = "reqnil" /\ cur'.cmd \in Cmd
                          /\ cur'.cmd.id # 0 => cur'.cmd \in await
      BY <1>0, <2>1, <2>2 DEF Answers, IsResp
    <3>3. QED  BY <1>0, <2>1, <3>1, <3>2 DEF Answers, IsResp
  <2>7. SoftReset'
    <3> SUFFICES ASSUME cur'.type = "boot", cpc' \in {"reqnil", "signal", "forward"}
                 PROVE  await # {} /\ ~Unstored /\ cpc' = "reqnil"
      BY <2>1, <2>3 DEF SoftReset
    <3>1. cpc' = "reqnil" /\ IsResetCmd(req)
      BY <2>1
    <3>2. OfBuffer(req)
      <4>1. ASSUME ~OfBuffer(req)
            PROVE  FALSE
        <5>1. Content(req) = <<>> \/ Content(req) = <<ExtScan>>
          BY <4>1, WholeCommand DEF TypeOK
        <5>2. Content(req) # <<>>
          BY <3>1 DEF IsResetCmd
        <5>3. <<ExtScan>>[1].kind = "ext"
          BY DEF ExtScan
        <5>4. QED  BY <3>1, <5>1, <5>2, <5>3 DEF IsResetCmd
      <4>2. QED  BY <4>1
    <3>3. ~Unstored
      BY <1>0, <3>2 DEF Alone, Unstored
    <3>4. QED  BY <1>0, <3>1, <3>2, <3>3 DEF Current
  <2>8. QED  BY <2>3, <2>4, <2>5, <2>6, <2>7 DEF Steady
<1>2. CASE LoopClear
  <2>1. UNCHANGED <<pty, await, nsent, buf, n, rpc, wpc, taken, req, rx, tx>> /\ cpc = "qclear"
    BY <1>2 DEF LoopClear, appVars, readerVars, writerVars, chipVars
  <2>2. CASE queue = <<>> /\ cpc' = "read" /\ cur' = NoFrame /\ queue' = queue
    <3>1. Alone' /\ OneCommand' /\ Current' /\ Latest' = Latest
      BY <1>0, <2>1, <2>2 DEF Alone, OneCommand, Current, Command, Latest, Unwritten, Unstored, Queued
    <3>2. cur'.cmd.id = 0 /\ cur'.type = "none"
      BY <2>2 DEF NoFrame, NoCmd
    <3>3. 0 <= Latest
      <4>1. Latest \in Int
        BY Ids DEF Latest
      <4>2. QED  BY <1>0, <4>1, Ids DEF Older
    <3>4. Older' /\ Distinct' /\ Answers' /\ SoftReset'
      BY <1>0, <2>1, <3>1, <3>2, <3>3 DEF Older, Distinct, Answers, SoftReset, IsResp
    <3>5. QED  BY <3>1, <3>4 DEF Steady
  <2>3. CASE queue # <<>> /\ queue' = Tail(queue) /\ UNCHANGED loopVars
    <3>1. \A i \in DOMAIN queue' : i \in Int /\ i + 1 \in DOMAIN queue /\ queue'[i] = queue[i + 1]
      <4>1. queue \in Seq(Slice) /\ Len(queue) \in Nat /\ DOMAIN queue = 1..Len(queue)
        BY NonEmpty DEF TypeOK
      <4>2. QED  BY <2>3, <4>1, NonEmpty
    <3>2. Queued' => Queued
      BY <3>1 DEF Queued
    <3>3. \A i, j \in DOMAIN queue' : OfBuffer(queue'[i]) /\ OfBuffer(queue'[j]) => i = j
      <4> SUFFICES ASSUME NEW i \in DOMAIN queue', NEW j \in DOMAIN queue',
                          OfBuffer(queue'[i]), OfBuffer(queue'[j])
                   PROVE  i = j
        OBVIOUS
      <4>1. i + 1 = j + 1
        BY <1>0, <3>1 DEF Alone
      <4>2. QED  BY <3>1, <4>1
    <3>4. Alone'
      BY <1>0, <2>1, <3>2, <3>3 DEF Alone
    <3>5. OneCommand'
      BY <1>0, <2>1, <3>1 DEF OneCommand
    <3>6. (Unstored' => Unstored) /\ (Unwritten' => Unwritten)
      BY <2>1, <3>2 DEF Unstored, Unwritten
    <3>7. Current'
      BY <1>0, <2>1, <3>6 DEF Current, Command
    <3>8. Older' /\ Distinct' /\ Answers' /\ SoftReset'
      BY <2>1, <2>3, <3>6, AnswerKept DEF loopVars
    <3>9. QED  BY <3>4, <3>5, <3>7, <3>8 DEF Steady
  <2>4. QED  BY <1>2, <2>2, <2>3 DEF LoopClear
<1>3. CASE LoopReqNil \/ LoopSignal
  <2>1. /\ cpc' \in {"signal", "forward"} /\ cpc \in {"reqnil", "signal"}
        /\ OfBuffer(req') => OfBuffer(req) /\ cpc = "signal" /\ req' = req
        /\ wpc' = "write" => wpc = "write"
        /\ UNCHANGED <<pty, await, nsent, buf, n, rpc, queue, taken, rx, tx, cur>>
    BY <1>3 DEF LoopReqNil, LoopSignal, SignalResp, appVars, readerVars, writerVars, chipVars,
                OfBuffer, NilSlice
  <2>2. Alone'
    BY <1>0, <2>1 DEF Alone, Queued
  <2>3. OneCommand'
    BY <1>0, <2>1 DEF OneCommand
  <2>4. Unstored' = Unstored /\ (Unwritten' => Unwritten)
    BY <2>1 DEF Unstored, Unwritten, Queued
  <2>5. Current'
    BY <1>0, <2>1, <2>4 DEF Current, Command
  <2>6. nsent \in Nat /\ Latest \in Int /\ Latest' \in Int /\ Latest <= Latest'
    BY <2>1, <2>4, Ids DEF Latest
  <2>7. Older'
    BY <1>0, <2>1, <2>6, Ids DEF Older
  <2>8. Distinct'
    BY <1>0, <2>1 DEF Distinct
  <2>9. Answers'
    BY <1>0, <2>1 DEF Answers, IsResp
  <2>10. SoftReset'
    BY <1>0, <2>1, <2>4 DEF SoftReset
  <2>11. QED  BY <2>2, <2>3, <2>5, <2>7, <2>8, <2>9, <2>10 DEF Steady
<1>4. CASE LoopForward
  <2>1. /\ cpc = "forward" /\ cpc' = "read" /\ cur' = NoFrame
        /\ await' = await \ Answered(cur)
        /\ UNCHANGED <<pty, nsent, buf, n, rpc, queue, wpc, taken, req, rx, tx>>
    BY <1>4 DEF LoopForward, readerVars, writerVars, chipVars
  <2>2. /\ Alone' /\ OneCommand' /\ Latest' = Latest
        /\ Unstored' = Unstored /\ OfBuffer(req') = OfBuffer(req) /\ Command' = Command
    BY <1>0, <2>1 DEF Alone, OneCommand, Command, Latest, Unwritten, Unstored, Queued
  <2>3. cur'.cmd.id = 0 /\ cur'.type = "none" /\ ~IsResp(cur')
    BY <2>1 DEF NoFrame, NoCmd, IsResp
  <2>4. 0 <= Latest
    <3>1. Latest \in Int
      BY Ids DEF Latest
    <3>2. QED  BY <1>0, <3>1, Ids DEF Older
  <2>5. Older' /\ Distinct' /\ SoftReset'
    BY <1>0, <2>1, <2>2, <2>3, <2>4 DEF Older, Distinct, SoftReset
  <2>6. IsFiniteSet(await') /\ await' \subseteq await
    BY <1>0, <2>1, FS_Difference DEF Current
  <2>7. await' = await \/ (~Unstored /\ ~OfBuffer(req))
    <3>1. CASE IsResp(cur)
      <4>1. cur.cmd.id = 0 \/ (~Unstored /\ ~OfBuffer(req))
        <5> SUFFICES ASSUME cur.cmd.id # 0
                     PROVE  ~Unstored /\ ~OfBuffer(req)
          OBVIOUS
        <5>1. cur.cmd.id = nsent /\ ~OfBuffer(req)
          BY <1>0, <2>1, <3>1 DEF Answers, Current
        <5>2. nsent \in Nat /\ nsent <= Latest
          BY <1>0, <5>1, Ids DEF Older
        <5>3. QED  BY <5>1, <5>2 DEF Latest, Unwritten
      <4>2. cur.cmd.id = 0 => cur.cmd \notin await
        BY DEF TypeOK, AppCmd
      <4>3. Answered(cur) \subseteq {cur.cmd}
        BY <3>1 DEF Answered, IsResp
      <4>4. QED  BY <2>1, <4>1, <4>2, <4>3
    <3>2. CASE cur.type = "boot"
      BY <1>0, <2>1, <3>2 DEF SoftReset
    <3>3. CASE ~IsResp(cur) /\ cur.type # "boot"
      BY <2>1, <3>3 DEF Answered, IsResp
    <3>4. QED  BY <3>1, <3>2, <3>3
  <2>8. Current'
    BY <1>0, <2>1, <2>2, <2>6, <2>7 DEF Current
  <2>9. ASSUME NEW c \in await, c.kind # "reset", c # cur.cmd
        PROVE  c \in await'
    BY <2>1, <2>9 DEF Answered
  <2>10. Answers'
    <3>1. \A i \in DOMAIN rx : rx[i].id # 0 /\ rx[i].kind # "reset" => rx[i] \in await'
      <4> SUFFICES ASSUME NEW i \in DOMAIN rx, rx[i].id # 0, rx[i].kind # "reset"
                   PROVE  rx[i] \in await'
        OBVIOUS
      <4>1. rx[i] \in await /\ rx[i] # cur.cmd
        BY <1>0 DEF Answers, Distinct
      <4>2. QED  BY <2>9, <4>1
    <3>2. \A i \in DOMAIN tx : IsResp(tx[i]) /\ tx[i].cmd.id # 0 => tx[i].cmd \in await'
      <4> SUFFICES ASSUME NEW i \in DOMAIN tx, IsResp(tx[i]), tx[i].cmd.id # 0
                   PROVE  tx[i].cmd \in await'
        OBVIOUS
      <4>1. tx[i].cmd \in await /\ tx[i].cmd # cur.cmd /\ tx[i].cmd.kind # "reset"
        BY <1>0 DEF Answers, Distinct
      <4>2. QED  BY <2>9, <4>1
    <3>3. QED  BY <1>0, <2>1, <2>3, <3>1, <3>2 DEF Answers, IsResp
  <2>11. QED  BY <2>2, <2>5, <2>8, <2>10 DEF Steady
<1>5. QED  BY <1>1, <1>2, <1>3, <1>4 DEF Loop

LEMMA AnswerStep ==
  ASSUME Window = 1
  PROVE  TypeOK /\ TypeOK' /\ AnswerInv /\ [Next]_vars => AnswerInv'
<1> SUFFICES ASSUME TypeOK, TypeOK', AnswerInv, [Next]_vars, restarts' = 0
             PROVE  Steady'
  BY DEF AnswerInv
<1>1. CASE AppRestart
  BY <1>1, Constants DEF AppRestart, TypeOK
<1>2. CASE ~AppRestart
  <2>1. restarts = 0
    BY <1>2 DEF Next, App, AppSend, Reader, ReaderRead, ReaderClear, ReaderReqNil, ReaderSignal,
       ReaderAddExt, ReaderAdd, Writer, WriterTake, WriterStore, WriterWrite, WriterPark,
       Chip, ChipExec, ChipEvent, Loop, LoopRead, LoopClear, LoopReqNil, LoopSignal,
       LoopForward, vars, appVars
  <2>2. Steady
    BY <2>1 DEF AnswerInv
  <2>3. CASE UNCHANGED vars
    <3>1. UNCHANGED <<pty, await, nsent, buf, n, rpc, queue, wpc, taken, req, rx, tx, cpc, cur>>
      BY <2>3 DEF vars, appVars, readerVars, writerVars, chipVars, loopVars
    <3>2. Alone' /\ OneCommand' /\ Current' /\ Unstored' = Unstored /\ Unwritten' = Unwritten
      BY <2>2, <3>1 DEF Steady, Alone, OneCommand, Current, Command, Unwritten, Unstored, Queued
    <3>3. Older' /\ Distinct' /\ Answers' /\ SoftReset'
      BY <2>2, <3>1, <3>2, AnswerKept
    <3>4. QED  BY <3>2, <3>3 DEF Steady
  <2>4. CASE Next
    BY <1>2, <2>2, <2>4, AnswerSend, AnswerReader, AnswerWriter, AnswerChip, AnswerLoop DEF Next, App
  <2>5. QED  BY <2>3, <2>4
<1>3. QED  BY <1>1, <1>2

(* btapp_reader.go:79, btchip_reader.go:135: if the app waits for each     *)
(* answer before it writes again, then until it is restarted every answer  *)
(* it is given is to the command it waits for, resets and the early boot   *)
(* events of the chip included.                                            *)
THEOREM NoStrayAnswerCorrect == ASSUME Window = 1 PROVE Spec => []NoStrayAnswer
<1>1. ASSUME TypeOK, AnswerInv PROVE NoStrayAnswer
  <2> SUFFICES ASSUME restarts = 0, cpc = "forward", IsResp(cur), cur.cmd # ExtScan
               PROVE  cur.cmd \in await
    BY DEF NoStrayAnswer
  <2>1. cur.cmd \in Cmd /\ (cur.cmd.id # 0 => cur.cmd \in await)
    BY <1>1 DEF AnswerInv, Steady, Answers
  <2>2. QED  BY <2>1 DEF Cmd, AppCmd
<1>2. QED
  BY AnswerInit, AnswerStep, TypeCorrect, <1>1, PTL DEF Spec

(* Nothing refers anew to the newest command but the app that writes it.   *)
LEMMA UnwrittenKept ==
  ASSUME TypeOK, [Next]_vars, ~(\E k \in AppKinds : AppSend(k))
  PROVE  nsent' = nsent /\ (Unwritten' => Unwritten)
<1> USE DEF Unwritten, Unstored, Queued, OfBuffer
<1>1. queue \in Seq(Slice) /\ Len(queue) \in Nat /\ DOMAIN queue = 1..Len(queue)
  BY NonEmpty DEF TypeOK
<1>2. ASSUME queue # <<>>
      PROVE  /\ Head(queue) = queue[1] /\ 1 \in DOMAIN queue
             /\ \A i \in DOMAIN Tail(queue) : i + 1 \in DOMAIN queue /\ Tail(queue)[i] = queue[i + 1]
  BY <1>1, <1>2, NonEmpty
<1>3. CASE AppRestart
  BY <1>3 DEF AppRestart, readerVars, writerVars, loopVars
<1>4. CASE Reader
  <2>1. Unwritten
    <3>1. ReaderRead => pty # <<>>
      <4>1. pty = <<>> => 1..Len(pty) = {}
        OBVIOUS
      <4>2. QED  BY <4>1 DEF ReaderRead
    <3>2. QED
      BY <1>4, <3>1 DEF Reader, ReaderClear, ReaderReqNil, ReaderSignal, ReaderAddExt, ReaderAdd
  <2>2. QED
    BY <1>4, <2>1 DEF Reader, ReaderRead, ReaderClear, ReaderReqNil, ReaderSignal, ReaderAddExt,
       ReaderAdd, appVars
<1>5. CASE WriterTake
  BY <1>2, <1>5 DEF WriterTake, appVars, readerVars
<1>6. CASE WriterStore
  BY <1>6 DEF WriterStore, appVars, readerVars, NilSlice
<1>7. CASE WriterWrite \/ WriterPark
  BY <1>7 DEF WriterWrite, WriterPark, appVars, readerVars
<1>8. CASE Chip
  BY <1>8 DEF Chip, ChipExec, ChipEvent, appVars, readerVars, writerVars
<1>9. CASE LoopClear
  BY <1>2, <1>9 DEF LoopClear, appVars, readerVars, writerVars
<1>10. CASE LoopRead \/ LoopReqNil \/ LoopSignal \/ LoopForward
  BY <1>10 DEF LoopRead, LoopReqNil, LoopSignal, LoopForward, SignalResp, NilSlice,
               appVars, readerVars, writerVars
<1>11. CASE UNCHANGED vars
  BY <1>11 DEF vars, appVars, readerVars, writerVars
<1>12. QED
  BY <1>3, <1>4, <1>5, <1>6, <1>7, <1>8, <1>9, <1>10, <1>11 DEF Next, App, Writer, Loop

(* The commands given so far increase, and one that is still to be written *)
(* is newer than all of them.                                              *)
GivenInv == ChipOnce /\ (restarts = 0 => \A i \in DOMAIN given : given[i].id <= Latest)

LEMMA GivenStep ==
  TypeOK /\ TypeOK' /\ AnswerInv /\ GivenInv /\ [Next]_vars => GivenInv'
<1> SUFFICES ASSUME TypeOK, TypeOK', AnswerInv, GivenInv, [Next]_vars
             PROVE  GivenInv'
  OBVIOUS
<1>0. /\ nsent \in Nat /\ given \in Seq(AppCmd) /\ Len(given) \in Nat
      /\ DOMAIN given = 1..Len(given) /\ \A i \in DOMAIN given : given[i].id \in Nat
  <2>1. given \in Seq(AppCmd) /\ Len(given) \in Nat /\ DOMAIN given = 1..Len(given)
    BY NonEmpty DEF TypeOK
  <2>2. \A i \in DOMAIN given : given[i] \in AppCmd
    BY <2>1
  <2>3. QED  BY <2>1, <2>2, Ids DEF AppCmd
<1>1. CASE AppRestart
  <2>1. restarts' # 0 /\ given' = <<>>
    BY <1>1, Constants DEF AppRestart, TypeOK
  <2>2. QED  BY <2>1 DEF GivenInv, ChipOnce
<1>2. CASE WriterWrite /\ restarts = 0 /\ OfBuffer(req)
  <2>1. /\ wpc = "write" /\ wpc' = "park" /\ given' = given \o Content(req)
        /\ UNCHANGED <<pty, nsent, buf, n, rpc, queue, taken, req>>
    BY <1>2 DEF WriterWrite, OfBuffer, appVars, readerVars
  <2>2. Alone /\ OneCommand /\ Current
    BY <1>2 DEF AnswerInv, Steady
  <2>3. ~Unstored /\ Unwritten /\ ~Unwritten'
    BY <1>2, <2>1, <2>2 DEF Alone, Unstored, Unwritten, Queued
  <2>4. Latest = nsent - 1 /\ Latest' = nsent
    BY <2>1, <2>3 DEF Latest
  <2>5. Content(req) = <<buf[1]>> /\ buf[1].id = nsent
    <3>1. Content(req) = <<buf[1]>>
      BY <1>2, <2>2, WholeCommand DEF TypeOK, OneCommand
    <3>2. await = {buf[1]}
      BY <1>2, <2>2 DEF Alone, Current, Command
    <3>3. QED  BY <2>2, <3>1, <3>2 DEF Current
  <2> DEFINE l == Len(given) + 1
  <2>6. DOMAIN given' = 1..l /\ given'[l] = buf[1] /\ \A i \in 1..(l - 1) : given'[i] = given[i]
    BY <1>0, <2>1, <2>5
  <2>7. \A i \in 1..(l - 1) : given[i].id <= nsent - 1
    BY <1>0, <1>2, <2>4 DEF GivenInv
  <2> HIDE DEF l
  <2>8. l \in Nat /\ DOMAIN given = 1..(l - 1)
    BY <1>0 DEF l
  <2>9. ChipOnce'
    <3> SUFFICES ASSUME NEW i \in DOMAIN given', NEW j \in DOMAIN given', i < j
                 PROVE  given'[i].id < given'[j].id
      BY DEF ChipOnce
    <3>1. i \in 1..(l - 1)
      BY <2>6, <2>8
    <3>2. CASE j = l
      BY <1>0, <2>5, <2>6, <2>7, <2>8, <3>1, <3>2
    <3>3. CASE j # l
      <4>1. j \in 1..(l - 1)
        BY <2>6, <2>8, <3>3
      <4>2. QED  BY <2>6, <2>8, <3>1, <4>1 DEF GivenInv, ChipOnce
    <3>4. QED  BY <3>2, <3>3
  <2>10. \A i \in DOMAIN given' : given'[i].id <= Latest'
    <3> SUFFICES ASSUME NEW i \in DOMAIN given'
                 PROVE  given'[i].id <= nsent
      BY <2>4
    <3>1. CASE i = l
      BY <1>0, <2>5, <2>6, <3>1
    <3>2. CASE i # l
      <4>1. i \in 1..(l - 1)
        BY <2>6, <2>8, <3>2
      <4>2. QED  BY <1>0, <2>6, <2>7, <2>8, <4>1
    <3>3. QED  BY <3>1, <3>2
  <2>11. QED  BY <2>9, <2>10 DEF GivenInv
<1>3. CASE ~AppRestart /\ ~(WriterWrite /\ restarts = 0 /\ OfBuffer(req))
  <2>1. restarts' = restarts /\ given' = given
    BY <1>3 DEF Next, App, AppSend, Reader, ReaderRead, ReaderClear, ReaderReqNil, ReaderSignal,
       ReaderAddExt, ReaderAdd, Writer, WriterTake, WriterStore, WriterWrite, WriterPark,
       Chip, ChipExec, ChipEvent, Loop, LoopRead, LoopClear, LoopReqNil, LoopSignal,
       LoopForward, OfBuffer, vars, appVars, chipVars
  <2>2. Latest \in Int /\ Latest' \in Int /\ Latest <= Latest'
    <3>1. CASE \E k \in AppKinds : AppSend(k)
      <4>1. nsent' = nsent + 1
        BY <3>1 DEF AppSend
      <4>2. QED  BY <1>0, <4>1 DEF Latest
    <3>2. CASE ~(\E k \in AppKinds : AppSend(k))
      BY <1>0, <3>2, UnwrittenKept DEF Latest
    <3>3. QED  BY <3>1, <3>2
  <2>3. restarts = 0 => \A i \in DOMAIN given : given[i].id <= Latest'
    BY <1>0, <2>2 DEF GivenInv
  <2>4. QED  BY <2>1, <2>3 DEF GivenInv, ChipOnce
<1>4. QED  BY <1>1, <1>2, <1>3

(* btapp_reader.go:79, btchip_writer.go:13, btapp_reader.go:53: until an   *)
(* app that waits for each answer is restarted, its commands are given to  *)
(* the chip in the order it wrote them and none of them twice, however     *)
(* long ago its answer was.                                                *)
THEOREM ChipOnceCorrect == ASSUME Window = 1 PROVE Spec => []ChipOnce
<1>1. Init => GivenInv
  BY DEF Init, GivenInv, ChipOnce
<1>2. GivenInv => ChipOnce
  BY DEF GivenInv
<1>3. Spec => []AnswerInv
  BY AnswerInit, AnswerStep, TypeCorrect, PTL DEF Spec
<1>4. QED
  BY <1>1, <1>2, <1>3, GivenStep, TypeCorrect, PTL DEF Spec

-----------------------------------------------------------------------------
(***************************************************************************)
(* Steady operation implements CommandLink, step by step.  Todo and Out of *)
(* BtProxy concatenate whatever is queued and sent; in steady operation    *)
(* that is at most an extended scan and one command (QueueShape), and one  *)
(* response (OneInFlight), so that the concatenations have a closed form.  *)
(***************************************************************************)
QueueShape ==
  \/ queue = <<>>
  \/ rpc = "add" /\ Len(queue) = 1
  \/ OfBuffer(queue[Len(queue)]) /\ Len(queue) \in {1, 2}

Bytes(b, s) == IF s.array = "nil" THEN <<>> ELSE IF s.array = "own" THEN <<ExtScan>> ELSE SubSeq(b, 1, s.len)
WriterPart == IF wpc = "store" THEN Bytes(buf, taken) ELSE IF wpc = "write" THEN Bytes(buf, req) ELSE <<>>
QueuePart ==
  IF queue = <<>> THEN <<>>
  ELSE IF Len(queue) = 1 THEN Bytes(buf, queue[1]) ELSE Bytes(buf, queue[1]) \o Bytes(buf, queue[2])
ReaderPart == IF rpc = "addext" THEN <<ExtScan, buf[1]>> ELSE IF rpc = "add" THEN <<buf[1]>> ELSE <<>>
PtyPart == IF pty = <<>> THEN <<>> ELSE Expand(pty[1])

(* Todo, in closed form.                                                   *)
TodoShown ==
  Todo = WriterPart \o QueuePart \o ReaderPart \o PtyPart

(* Out, in closed form.                                                    *)
OutShown ==
  /\ rx # <<>> => Out = rx
  /\ Releasing => Out = <<cur.cmd>>
  /\ \A i \in DOMAIN tx : IsResp(tx[i]) => Out = <<tx[i].cmd>>
  /\ rx = <<>> /\ ~Releasing /\ NoResp(tx) => Out = <<>>

-----------------------------------------------------------------------------
LEMMA Flatten0 == FlattenSeq(<<>>) = <<>>
BY DEF FlattenSeq

LEMMA Flatten1 == ASSUME NEW s, Len(s) = 1 PROVE FlattenSeq(s) = s[1]
<1> DEFINE F == CHOOSE f : f = [i \in 1..Len(s) |-> IF i = 1 THEN s[i] ELSE f[i-1] \o s[i]]
<1>1. \E f : f = [i \in 1..Len(s) |-> IF i = 1 THEN s[i] ELSE f[i-1] \o s[i]]
  <2> DEFINE g == [i \in 1..Len(s) |-> s[1]]
  <2>1. g = [i \in 1..Len(s) |-> IF i = 1 THEN s[i] ELSE g[i-1] \o s[i]]
    OBVIOUS
  <2>2. QED BY <2>1
<1>2. F = [i \in 1..Len(s) |-> IF i = 1 THEN s[i] ELSE F[i-1] \o s[i]]
  BY <1>1
<1>3. FlattenSeq(s) = F[Len(s)]
  BY DEF FlattenSeq
<1> HIDE DEF F
<1>4. QED BY <1>2, <1>3

LEMMA Flatten2 == ASSUME NEW s, Len(s) = 2 PROVE FlattenSeq(s) = s[1] \o s[2]
<1> DEFINE F == CHOOSE f : f = [i \in 1..Len(s) |-> IF i = 1 THEN s[i] ELSE f[i-1] \o s[i]]
<1>1. \E f : f = [i \in 1..Len(s) |-> IF i = 1 THEN s[i] ELSE f[i-1] \o s[i]]
  <2> DEFINE g == [i \in 1..Len(s) |-> IF i = 1 THEN s[1] ELSE s[1] \o s[2]]
  <2>0. 1..Len(s) = {1, 2}
    OBVIOUS
  <2>1. g[1] = s[1] /\ g[2] = s[1] \o s[2]
    BY <2>0
  <2>2. [i \in 1..Len(s) |-> IF i = 1 THEN s[i] ELSE g[i-1] \o s[i]]
          = [i \in 1..Len(s) |-> IF i = 1 THEN s[1] ELSE s[1] \o s[2]]
    <3> HIDE DEF g
    <3>1. \A i \in 1..Len(s) : (IF i = 1 THEN s[i] ELSE g[i-1] \o s[i])
                                 = IF i = 1 THEN s[1] ELSE s[1] \o s[2]
      BY <2>0, <2>1
    <3>2. QED  BY <3>1
  <2>3. QED BY <2>2
<1>2. F = [i \in 1..Len(s) |-> IF i = 1 THEN s[i] ELSE F[i-1] \o s[i]]
  BY <1>1
<1>3. FlattenSeq(s) = F[Len(s)]
  BY DEF FlattenSeq
<1> HIDE DEF F
<1>4. QED BY <1>2, <1>3

LEMMA Joined == ASSUME NEW a, NEW b PROVE <<a>> \o <<b>> = <<a, b>>
<1> DEFINE s == <<a>>
           t == <<b>>
           u == <<a, b>>
<1>1. s \in Seq({a, b}) /\ Len(s) = 1 /\ s[1] = a
  OBVIOUS
<1>2. t \in Seq({a, b}) /\ Len(t) = 1 /\ t[1] = b
  OBVIOUS
<1>3. u \in Seq({a, b}) /\ Len(u) = 2 /\ u[1] = a /\ u[2] = b
  OBVIOUS
<1> DEFINE S == {a, b}
<1> HIDE DEF s, t, u, S
<1>4. s \o t \in Seq(S) /\ Len(s \o t) = 2 /\ (s \o t)[1] = a /\ (s \o t)[2] = b
  <2>1. s \in Seq(S) /\ t \in Seq(S)
    BY <1>1, <1>2 DEF S
  <2>2. /\ s \o t \in Seq(S) /\ Len(s \o t) = Len(s) + Len(t)
        /\ \A i \in 1..(Len(s) + Len(t)) : (s \o t)[i] = IF i <= Len(s) THEN s[i] ELSE t[i - Len(s)]
    BY <2>1, ConcatProperties
  <2>3. (s \o t)[1] = s[1] /\ (s \o t)[2] = t[2 - 1]
    BY <1>1, <1>2, <2>2
  <2>4. QED  BY <1>1, <1>2, <2>2, <2>3
<1>5. \A i \in 1..2 : (s \o t)[i] = u[i]
  BY <1>3, <1>4
<1>6. s \o t = u
  BY <1>3, <1>4, <1>5, SeqEqual DEF S
<1>7. QED  BY <1>6 DEF s, t, u

LEMMA SeqOfNone == SetToSeq({}) = <<>>
<1> DEFINE T == {}
<1>1. Cardinality(T) = 0
  BY FS_EmptySet
<1>2. \A f \in [1..Cardinality(T) -> T] : f = <<>>
  BY <1>1
<1>3. <<>> \in [1..Cardinality(T) -> T] /\ IsInjective(<<>>)
  BY <1>1 DEF IsInjective
<1>4. QED BY <1>2, <1>3 DEF SetToSeq

LEMMA SeqOfOne == ASSUME NEW e PROVE SetToSeq({e}) = <<e>>
<1> DEFINE T == {e}
<1>1. Cardinality(T) = 1
  BY FS_Singleton
<1>2. \A f \in [1..Cardinality(T) -> T] : f = <<e>>
  BY <1>1
<1>3. <<e>> \in [1..Cardinality(T) -> T] /\ IsInjective(<<e>>)
  BY <1>1 DEF IsInjective
<1>4. QED BY <1>2, <1>3 DEF SetToSeq

LEMMA OutForm == TypeOK /\ OneInFlight => OutShown
<1> SUFFICES ASSUME TypeOK, OneInFlight
             PROVE  OutShown
  OBVIOUS
<1> DEFINE places == {i \in DOMAIN tx : IsResp(tx[i])}
           a == IF Releasing THEN <<cur.cmd>> ELSE <<>>
           b == [k \in DOMAIN RespsAt |-> tx[RespsAt[k]].cmd]
<1>1. Out = a \o b \o rx
  BY DEF Out
<1>2. rx \in Seq(Cmd) /\ rx = <<>> \o rx
  BY DEF TypeOK
<1>3. NoResp(tx) => b = <<>>
  <2> SUFFICES ASSUME NoResp(tx)
               PROVE  b = <<>>
    OBVIOUS
  <2>1. places = {}
    BY DEF NoResp
  <2>2. RespsAt = <<>>
    BY <2>1, SeqOfNone DEF RespsAt
  <2>3. QED  BY <2>2
<1>4. ASSUME NEW i \in DOMAIN tx, IsResp(tx[i])
      PROVE  b = <<tx[i].cmd>>
  <2>1. places = {i}
    BY <1>4 DEF OneInFlight
  <2>2. RespsAt = <<i>>
    BY <2>1, SeqOfOne DEF RespsAt
  <2>3. QED  BY <2>2
<1> HIDE DEF a, b, places
<1>5. ASSUME rx # <<>> PROVE Out = rx
  <2>1. ~Releasing /\ NoResp(tx)
    BY <1>5 DEF OneInFlight
  <2>2. a = <<>> /\ b = <<>>
    BY <1>3, <2>1 DEF a
  <2>3. QED  BY <1>1, <1>2, <2>2
<1>6. ASSUME Releasing PROVE Out = <<cur.cmd>>
  <2>1. rx = <<>> /\ NoResp(tx)
    BY <1>6 DEF OneInFlight
  <2>2. a = <<cur.cmd>> /\ b = <<>>
    BY <1>3, <1>6, <2>1 DEF a
  <2>3. QED  BY <1>1, <2>1, <2>2
<1>7. ASSUME NEW i \in DOMAIN tx, IsResp(tx[i])
      PROVE  Out = <<tx[i].cmd>>
  <2>1. rx = <<>> /\ ~Releasing
    BY <1>7 DEF OneInFlight, NoResp
  <2>2. a = <<>> /\ b = <<tx[i].cmd>>
    BY <1>4, <1>7, <2>1 DEF a
  <2>3. QED  BY <1>1, <2>1, <2>2
<1>8. ASSUME rx = <<>>, ~Releasing, NoResp(tx)
      PROVE  Out = <<>>
  <2>1. a = <<>> /\ b = <<>>
    BY <1>3, <1>8 DEF a
  <2>2. QED  BY <1>1, <1>8, <2>1
<1>9. QED  BY <1>5, <1>6, <1>7, <1>8 DEF OutShown

LEMMA BytesForm == TypeOK => \A s \in Slice : Content(s) = Bytes(buf, s) /\ Bytes(buf, s) \in Seq(Cmd)
<1> SUFFICES ASSUME TypeOK, NEW s \in Slice
             PROVE  Content(s) = Bytes(buf, s) /\ Bytes(buf, s) \in Seq(Cmd)
  OBVIOUS
<1>1. s.array \in {"nil", "own", "p"}
  BY DEF Slice, NilSlice, ExtSlice
<1>2. Content(s) = Bytes(buf, s)
  BY <1>1 DEF Content, Bytes
<1>3. QED  BY <1>2, ContentType

LEMMA TodoForm == TypeOK /\ Steady /\ QueueShape => TodoShown
<1> SUFFICES ASSUME TypeOK, Steady, QueueShape
             PROVE  TodoShown
  OBVIOUS
<1>1. WriterHolds = WriterPart
  BY BytesForm DEF WriterHolds, WriterPart, TypeOK
<1>2. FlattenSeq([i \in DOMAIN queue |-> Content(queue[i])]) = QueuePart
  <2> DEFINE s == [i \in DOMAIN queue |-> Content(queue[i])]
  <2>1. queue \in Seq(Slice) /\ Len(queue) \in Nat /\ DOMAIN queue = 1..Len(queue)
    BY NonEmpty DEF TypeOK
  <2>2. s \in Seq(Seq(Cmd)) /\ Len(s) = Len(queue)
    BY <2>1, ContentType
  <2>3. \A i \in 1..Len(queue) : s[i] = Bytes(buf, queue[i])
    BY <2>1, BytesForm
  <2> HIDE DEF s
  <2>4. CASE queue = <<>>
    BY <2>2, <2>4, Flatten0 DEF QueuePart, s
  <2>5. CASE Len(queue) = 1
    <3>1. queue # <<>>
      BY <2>5
    <3>2. QED  BY <2>2, <2>3, <2>5, <3>1, Flatten1 DEF QueuePart, s
  <2>6. CASE Len(queue) = 2
    <3>1. queue # <<>>
      BY <2>6
    <3>2. FlattenSeq(s) = s[1] \o s[2]
      BY <2>2, <2>6, Flatten2
    <3>3. QED  BY <2>3, <2>6, <3>1, <3>2 DEF QueuePart, s
  <2>7. QED  BY <2>4, <2>5, <2>6 DEF QueueShape
<1>3. ReaderHolds = ReaderPart
  <2>1. CASE rpc = "addext" \/ rpc = "add"
    <3>1. n = 1 /\ n \in 0..Len(buf) /\ buf \in Seq(AppCmd)
      BY <2>1 DEF Steady, OneCommand, TypeOK
    <3>2. SubSeq(buf, 1, n) = <<buf[1]>>
      <4> DEFINE s == [array |-> "p", len |-> n]
      <4>1. s \in Slice /\ OfBuffer(s) /\ s.len = 1
        BY <3>1 DEF Slice, OfBuffer
      <4>2. Content(s) = <<buf[1]>>
        BY <4>1, WholeCommand
      <4>3. QED  BY <4>2 DEF Content
    <3>3. <<ExtScan>> \o <<buf[1]>> = <<ExtScan, buf[1]>>
      BY Joined
    <3>4. QED  BY <2>1, <3>2, <3>3 DEF ReaderHolds, ReaderPart
  <2>2. CASE rpc \notin {"addext", "add"}
    BY <2>2 DEF ReaderHolds, ReaderPart
  <2>3. QED  BY <2>1, <2>2
<1>4. FlattenSeq([i \in DOMAIN pty |-> Expand(pty[i])]) = PtyPart
  <2> DEFINE s == [i \in DOMAIN pty |-> Expand(pty[i])]
  <2>1. CASE pty = <<>>
    <3>1. s = <<>>
      BY <2>1
    <3>2. QED  BY <2>1, <3>1, Flatten0 DEF PtyPart
  <2>2. CASE pty # <<>>
    <3>1. Len(pty) = 1 /\ DOMAIN pty = 1..1
      BY <2>2, NonEmpty DEF TypeOK, Steady, Alone
    <3>2. Len(s) = 1 /\ s[1] = Expand(pty[1])
      BY <3>1
    <3> HIDE DEF s
    <3>3. FlattenSeq(s) = Expand(pty[1])
      BY <3>2, Flatten1
    <3>4. QED  BY <2>2, <3>3 DEF PtyPart, s
  <2>3. QED  BY <2>1, <2>2
<1>5. QED  BY <1>1, <1>2, <1>3, <1>4 DEF TodoShown, Todo

LEMMA Concat ==
  \A a, b, c \in Seq(Cmd) :
    /\ a \o <<>> = a /\ <<>> \o a = a /\ a \o b \in Seq(Cmd)
    /\ (a \o b) \o c = a \o (b \o c)
BY ConcatEmptySeq, ConcatAssociative, ConcatProperties

LEMMA Assoc ==
  ASSUME NEW a \in Seq(Cmd), NEW b \in Seq(Cmd), NEW c \in Seq(Cmd)
  PROVE  (a \o b) \o c = a \o (b \o c)
BY ConcatAssociative

PartsTyped ==
  /\ WriterPart \in Seq(Cmd) /\ QueuePart \in Seq(Cmd)
  /\ ReaderPart \in Seq(Cmd) /\ PtyPart \in Seq(Cmd)

LEMMA PartTypes == TypeOK /\ Steady /\ QueueShape => PartsTyped
<1> SUFFICES ASSUME TypeOK, Steady, QueueShape
             PROVE  PartsTyped
  OBVIOUS
<1>0. <<>> \in Seq(Cmd) /\ ExtScan \in Cmd
  BY EmptySeq DEF Cmd
<1>1. WriterPart \in Seq(Cmd)
  BY <1>0, BytesForm DEF WriterPart, TypeOK
<1>2. QueuePart \in Seq(Cmd)
  <2>1. queue \in Seq(Slice) /\ Len(queue) \in Nat
    BY NonEmpty DEF TypeOK
  <2>2. \A i \in 1..Len(queue) : Bytes(buf, queue[i]) \in Seq(Cmd)
    BY <2>1, BytesForm
  <2>3. CASE queue = <<>>
    BY <1>0, <2>3 DEF QueuePart
  <2>4. CASE queue # <<>> /\ Len(queue) = 1
    BY <2>2, <2>4 DEF QueuePart
  <2>5. CASE queue # <<>> /\ Len(queue) = 2
    <3>1. Bytes(buf, queue[1]) \in Seq(Cmd) /\ Bytes(buf, queue[2]) \in Seq(Cmd)
      BY <2>2, <2>5
    <3>2. QED  BY <2>5, <3>1, Concat DEF QueuePart
  <2>6. QED  BY <2>3, <2>4, <2>5 DEF QueueShape
<1>3. rpc # "read" => buf[1] \in Cmd
  <2>1. rpc # "read" => 1 \in 1..Len(buf)
    <3>1. n \in 0..Len(buf) /\ Len(buf) \in Nat /\ (rpc # "read" => n = 1)
      BY LenProperties DEF TypeOK, Steady, OneCommand
    <3>2. QED  BY <3>1
  <2>2. QED  BY <2>1, ElementOfSeq DEF TypeOK, Cmd
<1>4. ReaderPart \in Seq(Cmd)
  <2>1. CASE rpc = "read"
    BY <1>0, <2>1 DEF ReaderPart
  <2>2. CASE rpc # "read"
    BY <1>0, <1>3, <2>2 DEF ReaderPart
  <2>3. QED  BY <2>1, <2>2
<1>5. PtyPart \in Seq(Cmd)
  <2>1. pty # <<>> => pty[1] \in Cmd
    BY NonEmpty DEF TypeOK, Cmd
  <2>2. QED  BY <1>0, <2>1 DEF PtyPart, Expand
<1>6. QED  BY <1>1, <1>2, <1>4, <1>5 DEF PartsTyped

(* Before btappReader adds an extended scan or a command, the queue holds  *)
(* nothing, or only the extended scan of that command.                     *)
LEMMA ShapeBefore ==
  ASSUME TypeOK, Steady, QueueShape
  PROVE  /\ pty # <<>> \/ rpc = "addext" => queue = <<>>
         /\ rpc = "add" => queue = <<>> \/ Len(queue) = 1
<1>1. queue # <<>> => Len(queue) \in DOMAIN queue
  BY NonEmpty DEF TypeOK
<1>2. pty # <<>> \/ rpc # "read" => ~Queued
  BY DEF Steady, Alone
<1>3. pty # <<>> => rpc = "read"
  BY DEF Steady, Alone
<1>4. QED  BY <1>1, <1>2, <1>3 DEF QueueShape, Queued

LEMMA ShapeStep ==
  ASSUME TypeOK, Steady, NoBoot, QueueShape, [Next]_vars, ~AppRestart
  PROVE  QueueShape'
<1>1. CASE UNCHANGED <<queue, rpc>>
  BY <1>1 DEF QueueShape
<1>2. CASE ReaderRead
  <2>1. pty # <<>> /\ queue' = queue
    <3>1. \E k \in 1..Len(pty) : TRUE
      BY <1>2 DEF ReaderRead
    <3>2. pty # <<>>
      BY <3>1 DEF TypeOK
    <3>3. QED  BY <1>2, <3>2 DEF ReaderRead
  <2>2. QED  BY <2>1, ShapeBefore DEF QueueShape
<1>3. CASE ReaderAddExt
  <2>1. rpc = "addext" /\ rpc' = "add" /\ queue' = Append(queue, ExtSlice)
    BY <1>3 DEF ReaderAddExt, btchipQueueAdd
  <2>2. queue = <<>>
    BY <2>1, ShapeBefore
  <2>3. Len(queue') = 1
    BY <2>1, <2>2
  <2>4. QED  BY <2>1, <2>3 DEF QueueShape
<1>4. CASE ReaderAdd
  <2> DEFINE s == [array |-> "p", len |-> n]
  <2>1. rpc = "add" /\ queue' = Append(queue, s)
    BY <1>4 DEF ReaderAdd, btchipQueueAdd
  <2>2. queue \in Seq(Slice) /\ s \in Slice /\ (Len(queue) = 0 \/ Len(queue) = 1)
    BY <2>1, ShapeBefore DEF TypeOK, Slice
  <2>3. OfBuffer(s)
    BY DEF OfBuffer
  <2> HIDE DEF s
  <2>4. Len(queue') = Len(queue) + 1 /\ queue'[Len(queue) + 1] = s
    BY <2>1, <2>2
  <2>5. QED  BY <2>2, <2>3, <2>4 DEF QueueShape
<1>5. CASE WriterTake
  <2>1. queue # <<>> /\ queue' = Tail(queue) /\ rpc' = rpc
    BY <1>5 DEF WriterTake, readerVars
  <2>2. queue \in Seq(Slice) /\ (Len(queue) = 1 \/ (Len(queue) = 2 /\ OfBuffer(queue[2])))
    BY <2>1 DEF TypeOK, QueueShape
  <2>3. CASE Len(queue) = 1
    BY <2>1, <2>2, <2>3, NonEmpty DEF QueueShape
  <2>4. CASE Len(queue) = 2 /\ OfBuffer(queue[2])
    <3>1. Len(queue') = Len(queue) - 1 /\ \A i \in 1..Len(queue') : queue'[i] = queue[i + 1]
      BY <2>1, <2>2, HeadTailProperties
    <3>2. Len(queue') = 1 /\ queue'[1] = queue[2]
      BY <2>4, <3>1
    <3>3. QED  BY <2>4, <3>2 DEF QueueShape
  <2>5. QED  BY <2>2, <2>3, <2>4
<1>6. CASE ReaderClear \/ ReaderReqNil \/ ReaderSignal \/ LoopClear
  BY <1>6 DEF NoBoot, ReaderClear, ReaderReqNil, ReaderSignal, LoopClear
<1>7. ASSUME \/ \E k \in AppKinds : AppSend(k)
             \/ WriterStore \/ WriterWrite \/ WriterPark \/ Chip
             \/ LoopRead \/ LoopReqNil \/ LoopSignal \/ LoopForward \/ UNCHANGED vars
      PROVE  UNCHANGED <<queue, rpc>>
  BY <1>7 DEF AppSend, WriterStore, WriterWrite, WriterPark, Chip, ChipExec, ChipEvent,
     LoopRead, LoopReqNil, LoopSignal, LoopForward, vars, readerVars
<1>8. QED
  BY <1>1, <1>2, <1>3, <1>4, <1>5, <1>6, <1>7 DEF Next, App, Reader, Writer, Loop

(* What the steps of steady operation start from and end in.               *)
LinkInv ==
  /\ TypeOK /\ Steady /\ SerialInv /\ QueueShape
  /\ PartsTyped /\ TodoShown /\ OutShown

(* The four operations of CommandLink on the two sequences.                *)
LEMMA LinkMoves ==
  /\ Todo' = Todo /\ Out' = Out => [Link!Next]_(Link!vars)
  /\ Out # <<>> /\ Out' = <<>> /\ Todo' = Todo => [Link!Next]_(Link!vars)
  /\ \A c \in [kind : AppKinds, id : 1..MaxCmds] :
       Todo' = Todo \o Expand(c) /\ Out' = Out => [Link!Next]_(Link!vars)
  /\ Out = <<>> /\ Todo # <<>> /\ Out' = <<Head(Todo)>> /\ Todo' = Tail(Todo)
       => [Link!Next]_(Link!vars)
<1>1. Todo' = Todo /\ Out' = Out => [Link!Next]_(Link!vars)
  BY DEF Link!vars
<1>2. Out # <<>> /\ Out' = <<>> /\ Todo' = Todo => [Link!Next]_(Link!vars)
  BY DEF Link!vars, Link!Next, Link!Answer
<1>3. ASSUME NEW c \in [kind : AppKinds, id : 1..MaxCmds], Todo' = Todo \o Expand(c), Out' = Out
      PROVE  [Link!Next]_(Link!vars)
  BY <1>3 DEF Link!vars, Link!Next, Link!Accept, Link!Expand, Expand
<1>4. Out = <<>> /\ Todo # <<>> /\ Out' = <<Head(Todo)>> /\ Todo' = Tail(Todo)
       => [Link!Next]_(Link!vars)
  BY DEF Link!vars, Link!Next, Link!Give
<1>5. QED  BY <1>1, <1>2, <1>3, <1>4

(* What leaves rx, tx and the frame in hand alone leaves Out alone.        *)
LEMMA OutKept ==
  ASSUME OutShown, OutShown', UNCHANGED <<rx, tx>>, Releasing' = Releasing, Releasing => cur' = cur
  PROVE  Out' = Out
<1>1. CASE rx # <<>>
  BY <1>1 DEF OutShown
<1>2. CASE Releasing
  BY <1>2 DEF OutShown
<1>3. CASE \E i \in DOMAIN tx : IsResp(tx[i])
  BY <1>3 DEF OutShown, IsResp
<1>4. CASE rx = <<>> /\ ~Releasing /\ NoResp(tx)
  BY <1>4 DEF OutShown, NoResp, IsResp
<1>5. QED  BY <1>1, <1>2, <1>3, <1>4 DEF NoResp

LEMMA LinkSend ==
  ASSUME LinkInv, LinkInv', NEW k \in AppKinds, AppSend(k)
  PROVE  [Link!Next]_(Link!vars)
<1> DEFINE c == [kind |-> k, id |-> nsent + 1]
<1>1. UNCHANGED <<buf, n, rpc, queue, wpc, taken, req, rx, tx, cpc, cur>> /\ pty' = Append(pty, c)
  BY DEF AppSend, readerVars, writerVars, chipVars, loopVars
<1>2. c \in [kind : AppKinds, id : 1..MaxCmds]
  <2>1. nsent \in Nat /\ nsent < MaxCmds /\ MaxCmds \in Nat
    BY Constants DEF AppSend, LinkInv, TypeOK
  <2>2. QED BY <2>1
<1> HIDE DEF c
<1>3. pty = <<>> /\ pty' = <<c>>
  <2>1. Len(pty') <= 1 /\ Len(pty') = Len(pty) + 1 /\ Len(pty) \in Nat
    BY <1>1 DEF LinkInv, Steady, Alone, TypeOK
  <2>2. Len(pty) = 0
    BY <2>1
  <2>3. pty = <<>>
    BY <2>2, EmptySeq DEF LinkInv, TypeOK
  <2>4. QED  BY <1>1, <2>3
<1>4. PtyPart = <<>> /\ PtyPart' = Expand(c)
  BY <1>3 DEF PtyPart
<1>5. WriterPart' = WriterPart /\ QueuePart' = QueuePart /\ ReaderPart' = ReaderPart
  BY <1>1 DEF WriterPart, QueuePart, ReaderPart
<1>6. Todo = WriterPart \o QueuePart \o ReaderPart
  <2>1. WriterPart \o QueuePart \o ReaderPart \in Seq(Cmd)
    BY Concat DEF LinkInv, PartsTyped
  <2>2. QED  BY <1>4, <2>1, Concat DEF LinkInv, TodoShown
<1>7. Todo' = Todo \o Expand(c)
  BY <1>4, <1>5, <1>6 DEF LinkInv, TodoShown
<1>8. Out' = Out
  BY <1>1, OutKept DEF LinkInv, Releasing, IsResp
<1>9. QED  BY <1>2, <1>7, <1>8, LinkMoves

(* Bytes of the buffer is what a slice of it holds; other slices keep      *)
(* theirs when it is overwritten.                                          *)
LEMMA SliceBytes ==
  ASSUME TypeOK, NEW s \in Slice
  PROVE  /\ OfBuffer(s) /\ s.len = 1 => Bytes(buf, s) = <<buf[1]>>
         /\ ~OfBuffer(s) => \A b : Bytes(b, s) = Bytes(buf, s)
         /\ s = NilSlice => Bytes(buf, s) = <<>>
         /\ s = ExtSlice => Bytes(buf, s) = <<ExtScan>>
<1>1. OfBuffer(s) /\ s.len = 1 => Bytes(buf, s) = <<buf[1]>>
  BY WholeCommand, BytesForm
<1>2. s.array \in {"nil", "own", "p"}
  BY DEF Slice, NilSlice, ExtSlice
<1>3. QED  BY <1>1, <1>2 DEF Bytes, OfBuffer, NilSlice, ExtSlice

LEMMA LinkReader ==
  ASSUME Serial, LinkInv, LinkInv', Reader
  PROVE  [Link!Next]_(Link!vars)
<1>inv. /\ TypeOK /\ Alone /\ OneCommand /\ NoBoot /\ Steady /\ QueueShape
        /\ PartsTyped /\ PartsTyped' /\ TodoShown /\ TodoShown'
  BY DEF LinkInv, Steady, SerialInv
<1>out. Out' = Out
  <2>1. UNCHANGED <<rx, tx, cpc, cur>>
    BY DEF Reader, ReaderRead, ReaderClear, ReaderReqNil, ReaderSignal, ReaderAddExt,
           ReaderAdd, chipVars, loopVars
  <2>2. QED  BY <2>1, OutKept DEF LinkInv, Releasing, IsResp
<1>1. CASE ReaderRead
  <2>1. PICK k \in 1..Len(pty) :
          /\ n' = k
          /\ buf' = SubSeq(pty, 1, k) \o SubSeq(buf, k + 1, Len(buf))
          /\ pty' = SubSeq(pty, k + 1, Len(pty))
    BY <1>1 DEF ReaderRead
  <2>2. Len(pty) = 1 /\ k = 1
    <3> DEFINE l == Len(pty)
    <3>1. l \in Nat /\ l <= 1 /\ k \in 1..l
      BY <1>inv, LenProperties DEF TypeOK, Alone
    <3> HIDE DEF l
    <3>2. l = 1 /\ k = 1
      BY <3>1
    <3>3. QED  BY <3>2 DEF l
  <2>3. pty # <<>> /\ pty' = <<>> /\ pty[1] \in AppCmd
    <3>1. pty # <<>> /\ pty' = <<>>
      BY <2>1, <2>2
    <3>2. QED  BY <1>inv, <3>1, NonEmpty DEF TypeOK
  <2>4. buf'[1] = pty[1]
    BY <1>inv, <2>1, Overwrite DEF TypeOK
  <2>5. /\ UNCHANGED <<queue, wpc, taken, req>> /\ rpc = "read"
        /\ rpc' = IF pty[1].kind = "start" THEN "addext" ELSE "add"
    <3>1. UNCHANGED <<queue, wpc, taken, req>> /\ rpc = "read"
      BY <1>1 DEF ReaderRead, writerVars
    <3>2. pty[1].kind # "reset"
      BY <1>inv, <2>2 DEF NoBoot, TypeOK
    <3>3. QED  BY <1>1, <3>1, <3>2 DEF ReaderRead
  <2>6. QueuePart = <<>> /\ QueuePart' = <<>>
    BY <1>inv, <2>3, <2>5, ShapeBefore DEF QueuePart
  <2>7. WriterPart' = WriterPart
    BY <1>inv, <2>3, <2>5, SliceBytes DEF WriterPart, Alone, TypeOK
  <2>8. ReaderPart = <<>> /\ PtyPart' = <<>> /\ ReaderPart' = PtyPart
    BY <2>3, <2>4, <2>5 DEF ReaderPart, PtyPart, Expand, IsStartCmd
  <2>9. Todo' = Todo
    BY <1>inv, <2>6, <2>7, <2>8, Concat DEF PartsTyped, TodoShown
  <2>10. QED  BY <1>out, <2>9, LinkMoves
<1>2. CASE ReaderAddExt
  <2>1. /\ rpc = "addext" /\ rpc' = "add" /\ queue' = Append(queue, ExtSlice)
        /\ UNCHANGED <<pty, buf, wpc, taken, req>>
    BY <1>2 DEF ReaderAddExt, btchipQueueAdd, appVars, writerVars
  <2>2. queue = <<>> /\ queue' = <<ExtSlice>> /\ ExtSlice \in Slice
    BY <1>inv, <2>1, ShapeBefore DEF Slice
  <2>3. WriterPart' = WriterPart /\ PtyPart' = PtyPart
    BY <2>1 DEF WriterPart, PtyPart
  <2>4. QueuePart = <<>> /\ QueuePart' = <<ExtScan>>
    <3>1. Len(queue') = 1 /\ queue'[1] = ExtSlice /\ queue' # <<>>
      BY <2>2
    <3>2. Bytes(buf, ExtSlice) = <<ExtScan>>
      BY <1>inv, <2>2, SliceBytes
    <3>3. QED  BY <2>1, <2>2, <3>1, <3>2 DEF QueuePart
  <2>5. ReaderPart = <<ExtScan, buf[1]>> /\ ReaderPart' = <<buf[1]>>
    BY <2>1 DEF ReaderPart
  <2>6. QueuePart \o ReaderPart = QueuePart' \o ReaderPart'
    <3>1. QueuePart' \o ReaderPart' = <<ExtScan, buf[1]>>
      BY <2>4, <2>5, Joined
    <3>2. QED  BY <1>inv, <2>4, <2>5, <3>1, Concat DEF PartsTyped
  <2>7. /\ WriterPart \o QueuePart \o ReaderPart = WriterPart \o (QueuePart \o ReaderPart)
        /\ WriterPart' \o QueuePart' \o ReaderPart' = WriterPart' \o (QueuePart' \o ReaderPart')
    <3>1. WriterPart \in Seq(Cmd) /\ QueuePart \in Seq(Cmd) /\ ReaderPart \in Seq(Cmd)
      BY <1>inv DEF PartsTyped
    <3>2. WriterPart' \in Seq(Cmd) /\ QueuePart' \in Seq(Cmd) /\ ReaderPart' \in Seq(Cmd)
      BY <1>inv DEF PartsTyped
    <3>3. WriterPart \o QueuePart \o ReaderPart = WriterPart \o (QueuePart \o ReaderPart)
      BY ONLY <3>1, Assoc, Zenon
    <3>4. WriterPart' \o QueuePart' \o ReaderPart' = WriterPart' \o (QueuePart' \o ReaderPart')
      BY ONLY <3>2, Assoc, Zenon
    <3>5. QED  BY <3>3, <3>4
  <2>8. Todo' = Todo
    BY <1>inv, <2>3, <2>6, <2>7 DEF TodoShown
  <2>9. QED  BY <1>out, <2>8, LinkMoves
<1>3. CASE ReaderAdd
  <2> DEFINE s == [array |-> "p", len |-> n]
  <2>1. /\ rpc = "add" /\ rpc' = "read" /\ queue' = Append(queue, s)
        /\ UNCHANGED <<pty, buf, wpc, taken, req>>
    BY <1>3 DEF ReaderAdd, btchipQueueAdd, appVars, writerVars
  <2>2. s \in Slice /\ Bytes(buf, s) = <<buf[1]>>
    <3>1. s \in Slice /\ OfBuffer(s) /\ s.len = 1
      BY <1>inv, <2>1 DEF TypeOK, Slice, OfBuffer, OneCommand
    <3>2. QED  BY <1>inv, <3>1, SliceBytes
  <2> HIDE DEF s
  <2>3. WriterPart' = WriterPart /\ PtyPart' = PtyPart
    BY <2>1 DEF WriterPart, PtyPart
  <2>4. ReaderPart = <<buf[1]>> /\ ReaderPart' = <<>>
    BY <2>1 DEF ReaderPart
  <2>5. QueuePart' = QueuePart \o <<buf[1]>>
    <3>1. queue \in Seq(Slice) /\ queue' # <<>>
      <4>1. queue \in Seq(Slice)
        BY <1>inv DEF TypeOK
      <4>2. Len(Append(queue, s)) = Len(queue) + 1 /\ Len(queue) \in Nat
        BY <2>2, <4>1, AppendProperties
      <4>3. Len(queue') # 0
        BY <2>1, <4>2
      <4>4. QED  BY <4>1, <4>3
    <3>2. CASE queue = <<>>
      <4>1. Len(queue') = 1 /\ queue'[1] = s
        BY <2>1, <3>2
      <4>2. QueuePart' = <<buf[1]>> /\ QueuePart = <<>>
        BY <2>1, <2>2, <3>1, <3>2, <4>1 DEF QueuePart
      <4>3. QED  BY <1>inv, <2>4, <4>2, Concat DEF PartsTyped
    <3>3. CASE queue # <<>>
      <4>1. Len(queue) = 1
        BY <1>inv, <2>1, <3>3, ShapeBefore
      <4>2. Len(queue') = 2 /\ queue'[1] = queue[1] /\ queue'[2] = s
        <5>1. Len(Append(queue, s)) = Len(queue) + 1
          BY <3>1, AppendProperties
        <5>2. QED  BY <2>1, <3>1, <4>1, <5>1, AppendProperties
      <4>3. QED  BY <2>1, <2>2, <3>1, <3>3, <4>1, <4>2 DEF QueuePart
    <3>4. QED  BY <3>2, <3>3
  <2>6. WriterPart' \o QueuePart' \o ReaderPart' = WriterPart \o QueuePart \o ReaderPart
    <3>1. WriterPart \in Seq(Cmd) /\ QueuePart \in Seq(Cmd) /\ ReaderPart \in Seq(Cmd)
      BY <1>inv DEF PartsTyped
    <3>2. WriterPart \o QueuePart \o ReaderPart = WriterPart \o (QueuePart \o ReaderPart)
      BY ONLY <3>1, Assoc, Zenon
    <3>3. WriterPart' \o QueuePart' \in Seq(Cmd)
      BY <1>inv, Concat DEF PartsTyped
    <3>4. WriterPart' \o QueuePart' \o ReaderPart' = WriterPart' \o QueuePart'
      BY <2>4, <3>3, ConcatEmptySeq
    <3>5. QED  BY <2>3, <2>4, <2>5, <3>2, <3>4
  <2>7. Todo' = Todo
    BY <1>inv, <2>3, <2>6 DEF TodoShown
  <2>8. QED  BY <1>out, <2>7, LinkMoves
<1>4. CASE ReaderClear \/ ReaderReqNil \/ ReaderSignal
  BY <1>inv, <1>4 DEF NoBoot, ReaderClear, ReaderReqNil, ReaderSignal
<1>5. QED  BY <1>1, <1>2, <1>3, <1>4 DEF Reader

LEMMA LinkWriter ==
  ASSUME Serial, LinkInv, LinkInv', Writer
  PROVE  [Link!Next]_(Link!vars)
<1>inv. /\ TypeOK /\ Alone /\ OneCommand /\ OneInFlight /\ Steady /\ QueueShape
        /\ PartsTyped /\ PartsTyped' /\ TodoShown /\ TodoShown' /\ OutShown /\ OutShown'
  BY DEF LinkInv, Steady, SerialInv
<1>vars. UNCHANGED <<pty, buf, rpc, tx, cpc, cur>>
  BY DEF Writer, WriterTake, WriterStore, WriterWrite, WriterPark, appVars, readerVars,
         chipVars, loopVars
<1>same. ReaderPart' = ReaderPart /\ PtyPart' = PtyPart
  BY <1>vars DEF ReaderPart, PtyPart
<1>out. rx' = rx => Out' = Out
  BY <1>inv, <1>vars, OutKept DEF Releasing, IsResp
<1>1. CASE WriterTake
  <2>1. /\ wpc = "take" /\ wpc' = "store" /\ queue # <<>>
        /\ taken' = Head(queue) /\ queue' = Tail(queue) /\ rx' = rx
    BY <1>1 DEF WriterTake, chipVars
  <2>2. /\ queue \in Seq(Slice) /\ Len(queue) \in {1, 2} /\ taken' = queue[1]
        /\ queue[1] \in Slice
    BY <1>inv, <2>1, NonEmpty DEF TypeOK, QueueShape
  <2>3. WriterPart = <<>> /\ WriterPart' = Bytes(buf, queue[1])
    BY <1>vars, <2>1, <2>2 DEF WriterPart
  <2>4. QueuePart = Bytes(buf, queue[1]) \o QueuePart'
    <3>1. CASE Len(queue) = 1
      <4>1. queue' = <<>>
        BY <2>1, <2>2, <3>1, NonEmpty
      <4>2. QueuePart' = <<>> /\ QueuePart = Bytes(buf, queue[1])
        BY <2>1, <3>1, <4>1 DEF QueuePart
      <4>3. QED  BY <1>inv, <4>2, Concat DEF PartsTyped
    <3>2. CASE Len(queue) = 2
      <4>1. Len(queue') = Len(queue) - 1 /\ \A i \in 1..Len(queue') : queue'[i] = queue[i + 1]
        BY <2>1, <2>2, HeadTailProperties
      <4>2. Len(queue') = 1 /\ queue'[1] = queue[2] /\ queue' # <<>>
        BY <3>2, <4>1
      <4>3. QED  BY <1>vars, <2>1, <3>2, <4>2 DEF QueuePart
    <3>3. QED  BY <2>2, <3>1, <3>2
  <2>5. Todo' = Todo
    BY <1>inv, <1>same, <2>3, <2>4, Concat DEF PartsTyped, TodoShown
  <2>6. QED  BY <1>out, <2>1, <2>5, LinkMoves
<1>2. CASE WriterStore
  <2>1. wpc = "store" /\ wpc' = "write" /\ req' = taken /\ queue' = queue /\ rx' = rx
    BY <1>2 DEF WriterStore, chipVars
  <2>2. WriterPart' = WriterPart /\ QueuePart' = QueuePart
    BY <1>vars, <2>1 DEF WriterPart, QueuePart
  <2>3. QED  BY <1>inv, <1>same, <1>out, <2>1, <2>2, LinkMoves DEF TodoShown
<1>3. CASE WriterWrite
  <2>1. wpc = "write" /\ wpc' = "park" /\ queue' = queue /\ rx' = rx \o Content(req)
    BY <1>3 DEF WriterWrite
  <2>2. req \in Slice /\ Content(req) = Bytes(buf, req) /\ WriterPart = Content(req)
    BY <1>inv, <2>1, BytesForm DEF TypeOK, WriterPart
  <2>3. WriterPart' = <<>> /\ QueuePart' = QueuePart
    BY <1>vars, <2>1 DEF WriterPart, QueuePart
  <2>4. rx = <<>> /\ NoResp(tx) /\ ~Releasing
    BY <1>inv, <2>1 DEF OneInFlight
  <2>5. Out = <<>>
    BY <1>inv, <2>4 DEF OutShown
  <2>6. rx' = WriterPart
    BY <1>inv, <2>1, <2>2, <2>4, Concat DEF PartsTyped
  <2>7. Todo = WriterPart \o Todo'
    <3>1. Todo' = QueuePart \o ReaderPart \o PtyPart
      BY <1>inv, <1>same, <2>3, Concat DEF PartsTyped, TodoShown
    <3>2. WriterPart \o QueuePart \o ReaderPart \o PtyPart
            = WriterPart \o (QueuePart \o ReaderPart \o PtyPart)
      <4>1. WriterPart \in Seq(Cmd) /\ QueuePart \in Seq(Cmd) /\ ReaderPart \in Seq(Cmd)
        BY <1>inv DEF PartsTyped
      <4> DEFINE inner == QueuePart \o ReaderPart
      <4>2. inner \in Seq(Cmd)
        BY <4>1, Concat
      <4>3. WriterPart \o QueuePart \o ReaderPart = WriterPart \o inner
        BY ONLY <4>1, Assoc, Zenon
      <4> HIDE DEF inner
      <4>4. (WriterPart \o inner) \o PtyPart = WriterPart \o (inner \o PtyPart)
        <5>1. WriterPart \in Seq(Cmd) /\ inner \in Seq(Cmd) /\ PtyPart \in Seq(Cmd)
          BY <1>inv, <4>2 DEF PartsTyped
        <5>2. QED  BY ONLY <5>1, Assoc, Zenon
      <4>5. QED  BY <4>3, <4>4 DEF inner
    <3>3. QED  BY <1>inv, <3>1, <3>2 DEF TodoShown
  <2>8. WriterPart = <<>> \/ \E c \in Cmd : WriterPart = <<c>>
    <3>1. CASE OfBuffer(req)
      <4>1. WriterPart = <<buf[1]>>
        BY <1>inv, <2>2, <3>1, WholeCommand DEF OneCommand
      <4>2. buf[1] \in Cmd
        BY <1>inv, <4>1 DEF PartsTyped
      <4>3. QED  BY <4>1, <4>2
    <3>2. CASE ~OfBuffer(req)
      BY <1>inv, <2>2, <3>2, WholeCommand DEF Cmd
    <3>3. QED  BY <3>1, <3>2
  <2>9. Todo' \in Seq(Cmd)
    BY <1>inv, Concat DEF PartsTyped, TodoShown
  <2>10. CASE WriterPart = <<>>
    <3>1. Todo' = Todo
      BY <2>7, <2>9, <2>10, Concat
    <3>2. rx' = rx
      BY <2>4, <2>6, <2>10
    <3>3. QED  BY <1>out, <3>1, <3>2, LinkMoves
  <2>11. CASE \E c \in Cmd : WriterPart = <<c>>
    <3>1. PICK c \in Cmd : WriterPart = <<c>>
      BY <2>11
    <3>2. Out' = <<c>>
      <4>1. rx' # <<>>
        BY <2>6, <3>1
      <4>2. QED  BY <1>inv, <2>6, <3>1, <4>1 DEF OutShown
    <3>3. Todo # <<>> /\ Head(Todo) = c /\ Tail(Todo) = Todo'
      <4> DEFINE t == Todo'
                 u == Todo
      <4>1. t \in Seq(Cmd) /\ u = <<c>> \o t
        BY <2>7, <2>9, <3>1
      <4> HIDE DEF t, u
      <4>2. u # <<>> /\ Head(u) = c /\ Tail(u) = t
        BY <4>1
      <4>3. QED  BY <4>2 DEF t, u
    <3>4. QED  BY <2>5, <3>2, <3>3, LinkMoves
  <2>12. QED  BY <2>8, <2>10, <2>11
<1>4. CASE WriterPark
  <2>1. wpc = "park" /\ wpc' = "wait" /\ queue' = queue /\ rx' = rx
    BY <1>4 DEF WriterPark, chipVars
  <2>2. WriterPart' = WriterPart /\ QueuePart' = QueuePart
    BY <1>vars, <2>1 DEF WriterPart, QueuePart
  <2>3. QED  BY <1>inv, <1>same, <1>out, <2>1, <2>2, LinkMoves DEF TodoShown
<1>5. QED  BY <1>1, <1>2, <1>3, <1>4 DEF Writer

LEMMA LinkChip ==
  ASSUME Serial, LinkInv, LinkInv', Chip
  PROVE  [Link!Next]_(Link!vars)
<1>inv. /\ TypeOK /\ NoBoot /\ OneInFlight /\ TodoShown /\ TodoShown' /\ OutShown /\ OutShown'
  BY DEF LinkInv, SerialInv
<1>vars. UNCHANGED <<pty, buf, rpc, queue, wpc, taken, req, cpc, cur>>
  BY DEF Chip, ChipExec, ChipEvent, appVars, readerVars, writerVars, loopVars
<1>todo. Todo' = Todo
  BY <1>inv, <1>vars DEF TodoShown, WriterPart, QueuePart, ReaderPart, PtyPart
<1>tx. tx \in Seq(Frame) /\ Len(tx) \in Nat /\ DOMAIN tx = 1..Len(tx)
  BY <1>inv, NonEmpty DEF TypeOK
<1>1. CASE ChipExec
  <2>1. rx # <<>> /\ rx \in Seq(Cmd) /\ Len(rx) <= 1
    BY <1>1, <1>inv DEF ChipExec, TypeOK, OneInFlight
  <2>2. 1 \in DOMAIN rx /\ Head(rx) = rx[1] /\ rx = <<rx[1]>>
    <3>1. Len(rx) = 1 /\ 1 \in DOMAIN rx /\ Head(rx) = rx[1]
      BY <2>1, NonEmpty
    <3>2. rx = <<rx[1]>>
      BY <2>1, <3>1
    <3>3. QED  BY <3>1, <3>2
  <2>3. rx[1].kind # "reset"
    BY <1>inv, <2>2 DEF NoBoot
  <2>4. tx' = Append(tx, Resp(rx[1]))
    BY <1>1, <2>2, <2>3 DEF ChipExec
  <2>5. Len(tx) + 1 \in DOMAIN tx' /\ tx'[Len(tx) + 1] = Resp(rx[1])
    BY <1>tx, <2>4, Appended
  <2>6. Out' = <<rx[1]>>
    BY <1>inv, <2>5 DEF OutShown, Resp, IsResp
  <2>7. Out = <<rx[1]>>
    BY <1>inv, <2>1, <2>2 DEF OutShown
  <2>8. QED  BY <1>todo, <2>6, <2>7, LinkMoves
<1>2. CASE ChipEvent
  <2>1. rx' = rx /\ tx' = Append(tx, Event)
    BY <1>2 DEF ChipEvent
  <2>2. /\ \A i \in DOMAIN tx : i \in DOMAIN tx' /\ tx'[i] = tx[i]
        /\ \A i \in DOMAIN tx' : i \notin DOMAIN tx => tx'[i] = Event
    BY <1>tx, <2>1, Appended
  <2>3. Releasing' = Releasing
    BY <1>vars DEF Releasing, IsResp
  <2>4. Out' = Out
    <3>1. CASE rx # <<>>
      BY <1>inv, <2>1, <3>1 DEF OutShown
    <3>2. CASE Releasing
      BY <1>inv, <1>vars, <2>3, <3>2 DEF OutShown
    <3>3. CASE \E i \in DOMAIN tx : IsResp(tx[i])
      BY <1>inv, <2>2, <3>3 DEF OutShown, IsResp
    <3>4. CASE rx = <<>> /\ ~Releasing /\ NoResp(tx)
      <4>1. NoResp(tx)'
        BY <2>2, <3>4 DEF NoResp, IsResp, Event
      <4>2. QED  BY <1>inv, <2>1, <2>3, <3>4, <4>1 DEF OutShown
    <3>5. QED  BY <3>1, <3>2, <3>3, <3>4 DEF NoResp
  <2>5. QED  BY <1>todo, <2>4, LinkMoves
<1>3. QED  BY <1>1, <1>2 DEF Chip

LEMMA LinkLoop ==
  ASSUME Serial, LinkInv, LinkInv', Loop
  PROVE  [Link!Next]_(Link!vars)
<1>inv. /\ TypeOK /\ NoBoot /\ OneInFlight /\ TodoShown /\ TodoShown' /\ OutShown /\ OutShown'
  BY DEF LinkInv, SerialInv
<1>todo. UNCHANGED <<pty, buf, rpc, queue, taken>> /\ WriterPart' = WriterPart => Todo' = Todo
  BY <1>inv DEF TodoShown, QueuePart, ReaderPart, PtyPart
<1>1. CASE LoopRead
  <2>1. /\ cpc = "read" /\ tx # <<>> /\ cur' = Head(tx) /\ tx' = Tail(tx)
        /\ UNCHANGED <<pty, buf, rpc, queue, wpc, taken, req, rx>>
    BY <1>1 DEF LoopRead, appVars, readerVars, writerVars
  <2>2. Todo' = Todo
    BY <1>todo, <2>1 DEF WriterPart
  <2>3. /\ 1 \in DOMAIN tx /\ cur' = tx[1] /\ tx[1] \in Frame
        /\ \A i \in DOMAIN tx' : i + 1 \in DOMAIN tx /\ tx'[i] = tx[i + 1]
        /\ \A i \in DOMAIN tx : i = 1 \/ (i - 1 \in DOMAIN tx' /\ tx'[i - 1] = tx[i])
    <3>1. tx \in Seq(Frame) /\ Len(tx) \in Nat /\ DOMAIN tx = 1..Len(tx)
      BY <1>inv, NonEmpty DEF TypeOK
    <3>2. 1 \in DOMAIN tx /\ cur' = tx[1] /\ tx[1] \in Frame
      BY <1>inv, <2>1, NonEmpty DEF TypeOK
    <3>3. /\ tx' \in Seq(Frame) /\ Len(tx') = Len(tx) - 1
          /\ \A i \in 1..Len(tx') : tx'[i] = tx[i + 1]
      BY <2>1, <3>1, HeadTailProperties
    <3>4. DOMAIN tx' = 1..(Len(tx) - 1)
      BY <3>3, LenProperties
    <3>5. QED  BY <3>1, <3>2, <3>3, <3>4
  <2>4. ~Releasing
    BY <2>1 DEF Releasing
  <2>5. CASE IsResp(tx[1])
    <3>1. Out = <<tx[1].cmd>>
      BY <1>inv, <2>3, <2>5 DEF OutShown
    <3>2. cpc' = "reqnil"
      BY <1>1, <2>1, <2>3, <2>5 DEF LoopRead, IsResp
    <3>3. Releasing'
      BY <2>3, <2>5, <3>2 DEF Releasing, IsResp
    <3>4. Out' = <<tx[1].cmd>>
      BY <1>inv, <2>3, <3>3 DEF OutShown
    <3>5. QED  BY <2>2, <3>1, <3>4, LinkMoves
  <2>6. CASE ~IsResp(tx[1])
    <3>1. ~Releasing'
      BY <2>3, <2>6 DEF Releasing, IsResp
    <3>2. Out' = Out
      <4>1. CASE rx # <<>>
        BY <1>inv, <2>1, <4>1 DEF OutShown
      <4>2. CASE \E i \in DOMAIN tx : IsResp(tx[i])
        <5>1. PICK i \in DOMAIN tx : IsResp(tx[i])
          BY <4>2
        <5>2. i - 1 \in DOMAIN tx' /\ tx'[i - 1] = tx[i]
          BY <2>3, <2>6, <5>1
        <5>3. QED  BY <1>inv, <5>1, <5>2 DEF OutShown, IsResp
      <4>3. CASE rx = <<>> /\ NoResp(tx)
        <5>1. NoResp(tx)'
          BY <2>3, <4>3 DEF NoResp, IsResp
        <5>2. QED  BY <1>inv, <2>1, <2>4, <3>1, <4>3, <5>1 DEF OutShown
      <4>4. QED  BY <4>1, <4>2, <4>3 DEF NoResp
    <3>3. QED  BY <2>2, <3>2, LinkMoves
  <2>7. QED  BY <2>5, <2>6
<1>2. CASE LoopReqNil
  <2>1. /\ cpc = "reqnil" /\ cpc' = "signal"
        /\ UNCHANGED <<pty, buf, rpc, queue, wpc, taken, rx, tx, cur>>
    BY <1>2 DEF LoopReqNil, appVars, readerVars, writerVars, chipVars
  <2>2. Releasing /\ Releasing'
    BY <1>inv, <2>1 DEF NoBoot, Releasing, IsResp
  <2>3. WriterPart' = <<>> /\ WriterPart = <<>>
    BY <1>inv, <2>1, <2>2 DEF OneInFlight, WriterPart
  <2>4. Out' = Out
    BY <1>inv, <2>1, <2>2, OutKept
  <2>5. QED  BY <1>todo, <2>1, <2>3, <2>4, LinkMoves
<1>3. CASE LoopSignal
  <2>1. /\ cpc = "signal" /\ cpc' = "forward" /\ (wpc' = wpc \/ wpc' = "take")
        /\ UNCHANGED <<pty, buf, rpc, queue, taken, req, rx, tx, cur>>
    BY <1>3 DEF LoopSignal, SignalResp, appVars, readerVars, chipVars
  <2>2. Releasing /\ ~Releasing'
    BY <1>inv, <2>1 DEF NoBoot, Releasing, IsResp
  <2>3. rx = <<>> /\ NoResp(tx) /\ wpc \notin {"take", "store", "write"}
    BY <1>inv, <2>2 DEF OneInFlight
  <2>4. WriterPart' = <<>> /\ WriterPart = <<>>
    BY <2>1, <2>3 DEF WriterPart
  <2>5. Out = <<cur.cmd>>
    BY <1>inv, <2>2 DEF OutShown
  <2>6. Out' = <<>>
    <3>1. NoResp(tx)' /\ rx' = <<>>
      BY <2>1, <2>3 DEF NoResp, IsResp
    <3>2. QED  BY <1>inv, <2>2, <3>1 DEF OutShown
  <2>7. QED  BY <1>todo, <2>1, <2>4, <2>5, <2>6, LinkMoves
<1>4. CASE LoopForward
  <2>1. /\ cpc = "forward" /\ cpc' = "read"
        /\ UNCHANGED <<pty, buf, rpc, queue, wpc, taken, req, rx, tx>>
    BY <1>4 DEF LoopForward, readerVars, writerVars, chipVars
  <2>2. ~Releasing /\ ~Releasing'
    BY <2>1 DEF Releasing
  <2>3. Out' = Out
    <3>1. Releasing' = Releasing
      BY <2>1, <2>2 DEF Releasing, IsResp
    <3>2. QED  BY <1>inv, <2>1, <2>2, <3>1, OutKept
  <2>4. WriterPart' = WriterPart
    BY <2>1 DEF WriterPart
  <2>5. QED  BY <1>todo, <2>1, <2>3, <2>4, LinkMoves
<1>5. CASE LoopClear
  BY <1>inv, <1>5 DEF NoBoot, LoopClear
<1>6. QED  BY <1>1, <1>2, <1>3, <1>4, <1>5 DEF Loop

(* Every step of steady operation is a step of CommandLink, or changes     *)
(* neither of its variables.                                               *)
LEMMA LinkStep ==
  ASSUME Serial, LinkInv, LinkInv', [Next]_vars
  PROVE  [Link!Next]_(Link!vars)
<1>1. ~AppRestart
  BY Constants DEF AppRestart, LinkInv, TypeOK, Serial
<1>2. CASE UNCHANGED vars
  <2>1. UNCHANGED <<pty, buf, rpc, queue, wpc, taken, req, rx, tx, cpc, cur>>
    BY <1>2 DEF vars, appVars, readerVars, writerVars, chipVars, loopVars
  <2>2. Todo' = Todo
    BY <2>1 DEF LinkInv, TodoShown, WriterPart, QueuePart, ReaderPart, PtyPart
  <2>3. Out' = Out
    BY <2>1, OutKept DEF LinkInv, Releasing, IsResp
  <2>4. QED  BY <2>2, <2>3, LinkMoves
<1>3. QED
  BY <1>1, <1>2, LinkSend, LinkReader, LinkWriter, LinkChip, LinkLoop DEF Next, App

LEMMA LinkInit == ASSUME Serial PROVE Init => QueueShape /\ Link!Init
<1> SUFFICES ASSUME Init
             PROVE  QueueShape /\ Link!Init
  OBVIOUS
<1>1. QueueShape
  BY DEF Init, QueueShape
<1>2. TypeOK /\ Steady /\ SerialInv
  <2>1. AnswerInv /\ restarts = 0
    BY AnswerInit DEF Init
  <2>2. QED  BY <2>1, TypeInit, SerialInit DEF AnswerInv
<1>3. TodoShown /\ OutShown
  BY <1>1, <1>2, TodoForm, OutForm DEF SerialInv
<1>4. WriterPart = <<>> /\ QueuePart = <<>> /\ ReaderPart = <<>> /\ PtyPart = <<>>
  BY DEF Init, WriterPart, QueuePart, ReaderPart, PtyPart
<1>5. Todo = <<>>
  <2>1. <<>> \in Seq(Cmd)
    OBVIOUS
  <2>2. QED  BY <1>3, <1>4, <2>1, Concat DEF TodoShown
<1>6. Out = <<>>
  <2>1. rx = <<>> /\ ~Releasing /\ NoResp(tx)
    BY DEF Init, Serial, Releasing, NoResp
  <2>2. QED  BY <1>3, <2>1 DEF OutShown
<1>7. QED  BY <1>1, <1>5, <1>6 DEF Link!Init

(* btapp_reader.go:57, btchip_writer.go:13, btchip_reader.go:148: in       *)
(* steady operation the whole path, three goroutines, their channels and   *)
(* the shared buffer, does what CommandLink says: it accepts a command     *)
(* (two for a start of discovery), gives the oldest to the chip when       *)
(* nothing is unanswered, and takes the answer; no other step shows.       *)
THEOREM LinkImplemented == ASSUME Serial PROVE Spec => Link!Spec
<1>1. TypeOK /\ AnswerInv => Steady
  BY Constants DEF TypeOK, AnswerInv, Serial
<1>2. TypeOK /\ Steady /\ SerialInv /\ QueueShape /\ [Next]_vars => QueueShape'
  <2>1. TypeOK => ~AppRestart
    BY Constants DEF AppRestart, TypeOK, Serial
  <2>2. QED  BY <2>1, ShapeStep DEF SerialInv
<1>3. TypeOK /\ Steady /\ SerialInv /\ QueueShape => LinkInv
  BY PartTypes, TodoForm, OutForm DEF LinkInv, SerialInv
<1>4. LinkInv /\ LinkInv' /\ [Next]_vars => [Link!Next]_(Link!vars)
  BY LinkStep
<1>5. Spec => []AnswerInv
  BY AnswerInit, AnswerStep, TypeCorrect, PTL DEF Spec, Serial
<1>6. QED
  BY <1>1, <1>2, <1>3, <1>4, <1>5, TypeCorrect, SerialInit, SerialStep, LinkInit, PTL
  DEF Spec, Link!Spec

=============================================================================
