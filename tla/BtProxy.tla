------------------------------ MODULE BtProxy ------------------------------
(***************************************************************************)
(* The Bluetooth command path of gw3: the stock program silabs_ncp_bt      *)
(* ("the app") writes BGAPI commands to a pseudo terminal, gw3 forwards    *)
(* them to the BT chip one at a time and forwards the chip's answers and   *)
(* events back.                                                            *)
(*                                                                         *)
(*    app --pty--> btappReader --btchipQueue--> btchipWriter --rx--> chip  *)
(*     ^                                            ^ btchipResp      |    *)
(*     +---------------- btchipReader <-------------+-----------tx----+    *)
(*                                                                         *)
(* Three goroutines share the channel btchipQueue, the unbuffered channel  *)
(* btchipResp, the unsynchronised global btchipReq and the one read buffer *)
(* whose slices btappReader queues.  A step is one access to shared state. *)
(*                                                                         *)
(* The part of btchipReader that keeps the discovery state, the timers and *)
(* the published gateway state is module Watchdog's; it neither reads nor  *)
(* writes any variable of this module.                                     *)
(***************************************************************************)
EXTENDS Naturals, FiniteSets, SequencesExt

CONSTANTS
  AppKinds,    \* the kinds of command the app sends, a subset of Kinds
  Window,      \* how many commands the app leaves unanswered before it waits
  QueueCap,    \* capacity of btchipQueue (100 in the code)
  PromptPark,  \* TRUE: the chip never answers before the writer is parked
  MaxCmds,     \* bound: commands the app sends
  MaxRestarts, \* bound: how often the app is killed and started again
  MaxEvents    \* bound: frames the chip sends that answer no command

Kinds == {"reset", "start", "other"}

ASSUME ConstantsAssumption ==
  /\ AppKinds \subseteq Kinds
  /\ Window \in Nat \ {0}
  /\ QueueCap \in Nat \ {0}
  /\ PromptPark \in BOOLEAN
  /\ MaxCmds \in Nat /\ MaxRestarts \in Nat /\ MaxEvents \in Nat

VARIABLES
  pty,       \* commands the app has written and btappReader has not read
  await,     \* the app's commands that have no answer yet
  fresh,     \* TRUE: the app has just started and will send a reset first
  nsent,     \* number of commands sent, the identity of the next one
  restarts,  \* number of restarts so far
  buf,       \* what btappReader's buffer p holds
  n,         \* how many commands the last Read returned
  rpc,       \* program counter of btappReader
  queue,     \* btchipQueue
  wpc,       \* program counter of btchipWriter
  taken,     \* the slice btchipWriter has received and not yet stored
  req,       \* btchipReq
  rx,        \* commands written to the chip and not yet executed
  tx,        \* frames the chip has sent and btchipReader has not read
  nevents,   \* number of unsolicited frames so far
  given,     \* history: the commands of the app written to the chip since the
             \* program started, in order (kept until the app is restarted)
  cpc,       \* program counter of btchipReader
  cur        \* the frame btchipReader is processing

appVars    == <<pty, await, fresh, nsent, restarts>>
readerVars == <<buf, n, rpc>>
writerVars == <<wpc, taken>>
chipVars   == <<rx, tx, nevents, given>>
loopVars   == <<cpc, cur>>
vars == <<appVars, readerVars, queue, writerVars, req, chipVars, loopVars>>

-----------------------------------------------------------------------------
(***************************************************************************)
(* Commands.  ExtScan is the command gw3 adds itself.  All commands are    *)
(* given the same length, so a slice is measured in commands and one that  *)
(* has been overwritten reads as whole commands; where lengths differ the  *)
(* chip gets fragments instead.                                            *)
(***************************************************************************)
AppCmd  == [kind : Kinds, id : Nat \ {0}]
ExtScan == [kind |-> "ext", id |-> 0]
NoCmd   == [kind |-> "none", id |-> 0]
Cmd     == AppCmd \cup {ExtScan}

(***************************************************************************)
(* What a queued slice is.  "nil" has no bytes, "own" has its own array    *)
(* (EncodeGapExtendedScan allocates), "p" is the first len commands of     *)
(* btappReader's buffer p, whatever p holds when they are read.            *)
(***************************************************************************)
NilSlice == [array |-> "nil", len |-> 0]
ExtSlice == [array |-> "own", len |-> 1]
Slice    == {NilSlice, ExtSlice} \cup [array : {"p"}, len : 0..Len(buf)]

Content(s) == CASE s.array = "nil" -> <<>>
                [] s.array = "own" -> <<ExtScan>>
                [] s.array = "p"   -> SubSeq(buf, 1, s.len)

(* IsResetCmd compares the whole slice with the five bytes of a reset.     *)
IsResetCmd(s) == Len(Content(s)) = 1 /\ Content(s)[1].kind = "reset"

(***************************************************************************)
(* Frames from the chip: the response to a command, a boot event (after a  *)
(* reset command cmd, or after a GPIO reset), any other event.             *)
(***************************************************************************)
Resp(c)  == [type |-> "resp",  cmd |-> c]
Boot(c)  == [type |-> "boot",  cmd |-> c]
HardBoot == [type |-> "boot",  cmd |-> NoCmd]
Event    == [type |-> "event", cmd |-> NoCmd]
NoFrame  == [type |-> "none",  cmd |-> NoCmd]
Frame    == [type : {"resp", "boot", "event"}, cmd : Cmd \cup {NoCmd}]

-----------------------------------------------------------------------------
Init ==
  /\ pty = <<>> /\ await = {} /\ nsent = 0 /\ restarts = 0
  /\ fresh = ("reset" \in AppKinds)
  /\ buf = <<>> /\ n = 0 /\ rpc = "read"
  /\ queue = <<>>
  /\ wpc = "take" /\ taken = NilSlice /\ req = NilSlice
  /\ rx = <<>> /\ nevents = 0 /\ given = <<>>
  /\ tx = IF "reset" \in AppKinds THEN <<HardBoot>> ELSE <<>>
  /\ cpc = "read" /\ cur = NoFrame

-----------------------------------------------------------------------------
(***************************************************************************)
(* The app, an external program.  It sends a reset first, waits for the    *)
(* boot event, and then has at most Window commands unanswered.            *)
(***************************************************************************)
AppSend(k) ==
  /\ nsent < MaxCmds
  /\ Cardinality(await) < Window
  /\ fresh => k = "reset"
  /\ \A c \in await : c.kind # "reset"
  /\ LET c == [kind |-> k, id |-> nsent + 1]
     IN  pty' = Append(pty, c) /\ await' = await \cup {c}
  /\ nsent' = nsent + 1
  /\ fresh' = FALSE
  /\ UNCHANGED <<restarts, readerVars, queue, writerVars, req, chipVars, loopVars>>

(* The app is killed (by a gw3 timer, or it crashes), the daemon starts it *)
(* again and it reboots the chip by GPIO: what the chip had not executed   *)
(* is gone, what it had sent is still in gw3's serial buffer.              *)
AppRestart ==
  /\ restarts < MaxRestarts
  /\ restarts' = restarts + 1
  /\ await' = {} /\ fresh' = TRUE
  /\ rx' = <<>> /\ tx' = Append(tx, HardBoot) /\ given' = <<>>
  /\ UNCHANGED <<pty, nsent, nevents, readerVars, queue, writerVars, req, loopVars>>

-----------------------------------------------------------------------------
(***************************************************************************)
(* Operations on the shared channels.                                      *)
(***************************************************************************)
btchipQueueAdd(s) == Len(queue) < QueueCap /\ queue' = Append(queue, s)

(* The non-blocking send of btchipRespClear: it releases the writer if the *)
(* writer is parked in its receive, and is dropped otherwise.              *)
SignalResp == wpc' = IF wpc = "wait" THEN "take" ELSE wpc

ReaderRead_NoExt ==      \* slip: no extended scan before a start
  /\ rpc = "read"
  /\ \E k \in 1..Len(pty) :
       /\ n' = k
       /\ buf' = SubSeq(pty, 1, k) \o SubSeq(buf, k + 1, Len(buf))
       /\ pty' = SubSeq(pty, k + 1, Len(pty))
  /\ rpc' = IF pty[1].kind = "reset" THEN "qclear" ELSE "add"
  /\ UNCHANGED <<await, fresh, nsent, restarts, queue, writerVars, req, chipVars, loopVars>>

ReaderRead_Longer ==     \* slip: the length of the slice is off by one
  /\ rpc = "read" /\ pty # <<>>
  /\ n' = Len(pty) + 1
  /\ buf' = pty \o SubSeq(buf, Len(pty) + 1, Len(buf))
  /\ pty' = <<>>
  /\ rpc' = IF pty[1].kind = "reset" THEN "qclear" ELSE "add"
  /\ UNCHANGED <<await, fresh, nsent, restarts, queue, writerVars, req, chipVars, loopVars>>

-----------------------------------------------------------------------------
(***************************************************************************)
(* btappReader.  One Read returns what the pty holds, one or more whole    *)
(* commands, over the old contents of p; only the first header is looked   *)
(* at.                                                                     *)
(***************************************************************************)
ReaderRead ==
  /\ rpc = "read"
  /\ \E k \in 1..Len(pty) :
       /\ n' = k
       /\ buf' = SubSeq(pty, 1, k) \o SubSeq(buf, k + 1, Len(buf))
       /\ pty' = SubSeq(pty, k + 1, Len(pty))
  /\ rpc' = CASE pty[1].kind = "reset" -> "qclear"
              [] pty[1].kind = "start" -> "addext"
              [] OTHER                 -> "add"
  /\ UNCHANGED <<await, fresh, nsent, restarts, queue, writerVars, req, chipVars, loopVars>>

ReaderClear_None ==      \* slip: the queue is not cleared
  /\ rpc = "qclear"
  /\ rpc' = "reqnil"
  /\ UNCHANGED <<queue, appVars, buf, n, writerVars, req, chipVars, loopVars>>

(* btchipQueueClear on a reset: one receive per step until nothing is left. *)
ReaderClear ==
  /\ rpc = "qclear"
  /\ \/ queue # <<>> /\ queue' = Tail(queue) /\ UNCHANGED rpc
     \/ queue = <<>> /\ rpc' = "reqnil" /\ UNCHANGED queue
  /\ UNCHANGED <<appVars, buf, n, writerVars, req, chipVars, loopVars>>

(* btchipRespClear on a reset, in two accesses.                            *)
ReaderReqNil ==
  /\ rpc = "reqnil"
  /\ req' = NilSlice
  /\ rpc' = "signal"
  /\ UNCHANGED <<appVars, buf, n, queue, writerVars, chipVars, loopVars>>

ReaderSignal ==
  /\ rpc = "signal"
  /\ SignalResp
  /\ rpc' = "add"
  /\ UNCHANGED <<appVars, buf, n, queue, taken, req, chipVars, loopVars>>

ReaderAddExt_Command ==  \* slip: the command itself is added a second time
  /\ rpc = "addext"
  /\ btchipQueueAdd([array |-> "p", len |-> n])
  /\ rpc' = "add"
  /\ UNCHANGED <<appVars, buf, n, writerVars, req, chipVars, loopVars>>

(* Extended scan is enabled before a start command.                        *)
ReaderAddExt ==
  /\ rpc = "addext"
  /\ btchipQueueAdd(ExtSlice)
  /\ rpc' = "add"
  /\ UNCHANGED <<appVars, buf, n, writerVars, req, chipVars, loopVars>>

ReaderAdd ==
  /\ rpc = "add"
  /\ btchipQueueAdd([array |-> "p", len |-> n])
  /\ rpc' = "read"
  /\ UNCHANGED <<appVars, buf, n, writerVars, req, chipVars, loopVars>>

Reader == ReaderRead \/ ReaderClear \/ ReaderReqNil \/ ReaderSignal
            \/ ReaderAddExt \/ ReaderAdd

-----------------------------------------------------------------------------
(***************************************************************************)
(* btchipWriter: for btchipReq = range btchipQueue { Write; <-btchipResp } *)
(* The range statement receives and then stores to the global; Write reads *)
(* the global again; between Write and the receive the writer can be       *)
(* preempted ("park").                                                     *)
(***************************************************************************)
WriterTake ==
  /\ wpc = "take" /\ queue # <<>>
  /\ taken' = Head(queue) /\ queue' = Tail(queue)
  /\ wpc' = "store"
  /\ UNCHANGED <<appVars, readerVars, req, chipVars, loopVars>>

WriterStore ==
  /\ wpc = "store"
  /\ req' = taken /\ taken' = NilSlice
  /\ wpc' = "write"
  /\ UNCHANGED <<appVars, readerVars, queue, chipVars, loopVars>>

WriterWrite ==
  /\ wpc = "write"
  /\ rx' = rx \o Content(req)
  /\ given' = IF restarts = 0 /\ req.array = "p" THEN given \o Content(req) ELSE given
  /\ wpc' = "park"
  /\ UNCHANGED <<appVars, readerVars, queue, taken, req, tx, nevents, loopVars>>

WriterPark ==
  /\ wpc = "park"
  /\ wpc' = "wait"
  /\ UNCHANGED <<appVars, readerVars, queue, taken, req, chipVars, loopVars>>

Writer == WriterTake \/ WriterStore \/ WriterWrite \/ WriterPark

-----------------------------------------------------------------------------
(***************************************************************************)
(* The chip, external.  It executes commands in order: a reset is answered *)
(* by a boot event and may lose what was received behind it, any other     *)
(* command gets its response.                                              *)
(***************************************************************************)
ChipExec ==
  /\ rx # <<>>
  /\ PromptPark => wpc # "park"
  /\ LET c == Head(rx)
     IN  \/ /\ c.kind = "reset"
            /\ tx' = Append(tx, Boot(c))
            /\ rx' \in {Tail(rx), <<>>}
         \/ /\ c.kind # "reset"
            /\ tx' = Append(tx, Resp(c))
            /\ rx' = Tail(rx)
  /\ UNCHANGED <<appVars, readerVars, queue, writerVars, req, nevents, given, loopVars>>

ChipEvent ==
  /\ nevents < MaxEvents
  /\ nevents' = nevents + 1
  /\ tx' = Append(tx, Event)
  /\ UNCHANGED <<appVars, readerVars, queue, writerVars, req, rx, given, loopVars>>

LoopRead_AnyReleases ==  \* slip: every frame releases the writer
  /\ cpc = "read" /\ tx # <<>>
  /\ cur' = Head(tx) /\ tx' = Tail(tx)
  /\ cpc' = IF Head(tx).type = "boot" /\ ~IsResetCmd(req) THEN "qclear" ELSE "reqnil"
  /\ UNCHANGED <<appVars, readerVars, queue, writerVars, req, rx, nevents, given>>

LoopRead_NoRelease ==    \* slip: a response does not release the writer
  /\ cpc = "read" /\ tx # <<>>
  /\ cur' = Head(tx) /\ tx' = Tail(tx)
  /\ cpc' = CASE Head(tx).type = "boot" /\ IsResetCmd(req)  -> "reqnil"
              [] Head(tx).type = "boot" /\ ~IsResetCmd(req) -> "qclear"
              [] OTHER                                     -> "forward"
  /\ UNCHANGED <<appVars, readerVars, queue, writerVars, req, rx, nevents, given>>

-----------------------------------------------------------------------------
(***************************************************************************)
(* btchipReader.  A boot event is a soft reset if btchipReq is the reset   *)
(* command, and a hard one otherwise: then the queue is cleared and the    *)
(* event is not forwarded.  A soft reset and every response release the    *)
(* writer (btchipRespClear, two accesses) before they are forwarded.       *)
(***************************************************************************)
LoopRead ==
  /\ cpc = "read" /\ tx # <<>>
  /\ cur' = Head(tx) /\ tx' = Tail(tx)
  /\ cpc' = CASE Head(tx).type = "resp"                    -> "reqnil"
              [] Head(tx).type = "boot" /\ IsResetCmd(req)  -> "reqnil"
              [] Head(tx).type = "boot" /\ ~IsResetCmd(req) -> "qclear"
              [] OTHER                                     -> "forward"
  /\ UNCHANGED <<appVars, readerVars, queue, writerVars, req, rx, nevents, given>>

LoopClear ==
  /\ cpc = "qclear"
  /\ \/ queue # <<>> /\ queue' = Tail(queue) /\ UNCHANGED loopVars
     \/ queue = <<>> /\ cpc' = "read" /\ cur' = NoFrame /\ UNCHANGED queue
  /\ UNCHANGED <<appVars, readerVars, writerVars, req, chipVars>>

LoopReqNil ==
  /\ cpc = "reqnil"
  /\ req' = NilSlice
  /\ cpc' = "signal"
  /\ UNCHANGED <<appVars, readerVars, queue, writerVars, chipVars, cur>>

LoopSignal ==
  /\ cpc = "signal"
  /\ SignalResp
  /\ cpc' = "forward"
  /\ UNCHANGED <<appVars, readerVars, queue, taken, req, chipVars, cur>>

(* What the app makes of a forwarded frame.  The response to ExtScan is    *)
(* cut to zero bytes, so it answers nothing.                               *)
Answered(f) ==
  CASE f.type = "resp" -> {f.cmd} \ {ExtScan}
    [] f.type = "boot" -> {c \in await : c.kind = "reset"}
    [] OTHER           -> {}

LoopForward ==
  /\ cpc = "forward"
  /\ await' = await \ Answered(cur)
  /\ cpc' = "read" /\ cur' = NoFrame
  /\ UNCHANGED <<pty, fresh, nsent, restarts, readerVars, queue, writerVars, req, chipVars>>

Loop == LoopRead \/ LoopClear \/ LoopReqNil \/ LoopSignal \/ LoopForward

-----------------------------------------------------------------------------
App  == (\E k \in AppKinds : AppSend(k)) \/ AppRestart
Chip == ChipExec \/ ChipEvent

Next == App \/ Reader \/ Writer \/ Chip \/ Loop

Spec == Init /\ [][Next]_vars

(* Goroutines are scheduled and the chip works; the app promises nothing.  *)
Fairness == /\ WF_vars(Reader) /\ WF_vars(Writer) /\ WF_vars(Loop)
            /\ WF_vars(ChipExec)

FairSpec == Spec /\ Fairness

-----------------------------------------------------------------------------
(***************************************************************************)
(* Properties.                                                             *)
(***************************************************************************)

(* The program counters and the channels hold what the code puts there.    *)
TypeOK ==
  /\ pty \in Seq(AppCmd) /\ await \subseteq AppCmd /\ fresh \in BOOLEAN
  /\ nsent \in 0..MaxCmds /\ restarts \in 0..MaxRestarts
  /\ buf \in Seq(AppCmd) /\ n \in 0..Len(buf)
  /\ rpc \in {"read", "qclear", "reqnil", "signal", "addext", "add"}
  /\ queue \in Seq(Slice) /\ Len(queue) <= QueueCap
  /\ wpc \in {"take", "store", "write", "park", "wait"}
  /\ taken \in Slice /\ req \in Slice
  /\ rx \in Seq(Cmd) /\ tx \in Seq(Frame) /\ nevents \in 0..MaxEvents
  /\ given \in Seq(AppCmd)
  /\ cpc \in {"read", "qclear", "reqnil", "signal", "forward"}
  /\ cur \in Frame \cup {NoFrame}

(* What is unanswered: commands the chip has, responses it has sent, and   *)
(* the response btchipReader holds and has not yet released the writer for. *)
IsResp(f)  == f.type = "resp"
Releasing  == IsResp(cur) /\ cpc \in {"reqnil", "signal"}
Unanswered == {<<"rx", i>> : i \in DOMAIN rx}
                \cup {<<"tx", i>> : i \in {j \in DOMAIN tx : IsResp(tx[j])}}
                \cup (IF Releasing THEN {<<"cur", 1>>} ELSE {})

(* btchip_reader.go:150: "we should send new command only after receive    *)
(* response from previous command".  There is never more than one command  *)
(* unanswered, and none while the writer is on its way to the next Write.  *)
OneOutstanding ==
  /\ \A u, v \in Unanswered : u = v
  /\ wpc \in {"take", "store", "write"} => Unanswered = {}

(* A response forwarded to an app that has not been restarted answers a    *)
(* command it is waiting for: none is forwarded twice, late, or for a      *)
(* command it never sent.  (After a restart the answers of the chip to the *)
(* former app are still forwarded.)                                        *)
NoStrayAnswer ==
  restarts = 0 /\ cpc = "forward" /\ IsResp(cur) => cur.cmd \in await \cup {ExtScan}

(* btappReader empties the queue before it adds a reset: from then until   *)
(* the reset is added nothing is queued, so nothing the app wrote before   *)
(* the reset can follow it to the chip, whatever the writer and the event  *)
(* loop do meanwhile.                                                      *)
FlushBeforeReset ==
  rpc \in {"reqnil", "signal", "add"} /\ buf[1].kind = "reset" => queue = <<>>

(* Until the app is restarted its commands are given to the chip in the    *)
(* order it wrote them and none is given twice, also after its answer: not *)
(* by the shared buffer, not by the second access of the writer to         *)
(* btchipReq, not by a flush that leaves an older one behind.  (A restart  *)
(* overwrites the slice of a command that is still queued.)                *)
ChipOnce ==
  \A i, j \in DOMAIN given : i < j => given[i].id < given[j].id

(***************************************************************************)
(* The proxy implements CommandLink: the commands not yet written are, in  *)
(* order, what the writer holds, what is queued, what btappReader holds    *)
(* and what is in the pty.                                                 *)
(***************************************************************************)
IsStartCmd(c) == c.kind = "start"
Expand(c) == IF IsStartCmd(c) THEN <<ExtScan, c>> ELSE <<c>>

WriterHolds == CASE wpc = "store" -> Content(taken)
                 [] wpc = "write" -> Content(req)
                 [] OTHER         -> <<>>
ReaderHolds == CASE rpc = "addext" -> <<ExtScan>> \o SubSeq(buf, 1, n)
                 [] rpc = "add"    -> SubSeq(buf, 1, n)
                 [] OTHER          -> <<>>
Todo == WriterHolds \o FlattenSeq([i \in DOMAIN queue |-> Content(queue[i])])
          \o ReaderHolds \o FlattenSeq([i \in DOMAIN pty |-> Expand(pty[i])])

RespsAt == SetToSeq({i \in DOMAIN tx : IsResp(tx[i])})
Out == (IF Releasing THEN <<cur.cmd>> ELSE <<>>)
         \o [k \in DOMAIN RespsAt |-> tx[RespsAt[k]].cmd] \o rx

Link == INSTANCE CommandLink WITH
          Command <- [kind : AppKinds, id : 1..MaxCmds], ExtScan <- ExtScan,
          IsStart <- IsStartCmd, todo <- Todo, out <- Out

(* When the chip answers only a parked writer, every command reaches the   *)
(* chip exactly once, in order, after the answer to the one before; every  *)
(* start of discovery right after one ExtScan; and none of them is stuck.  *)
ImplementsFairLink == Link!FairSpec

(* Every command of the app is answered.                                   *)
EveryCommandAnswered ==
  \A i \in 1..MaxCmds : (\E c \in await : c.id = i) ~> (\A c \in await : c.id # i)

=============================================================================
