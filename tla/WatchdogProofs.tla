--------------------------- MODULE WatchdogProofs ---------------------------
(***************************************************************************)
(* Theorems about Watchdog, for any delays and any number of faults.       *)
(***************************************************************************)
EXTENDS Watchdog, TLAPS

LEMMA Delays ==
  /\ InitDelay \in Nat \ {0} /\ Delay \in Nat \ {0}
  /\ PatchDelay \in Nat /\ Startup \in Nat /\ MaxFaults \in Nat
  /\ Startup < Delay /\ Startup < InitDelay
BY DelaysAssumption

Label == {"idle", "gwcheck", "gwset", "gwmarshal", "gwsend",
          "pstart", "pset", "preset", "pcheck", "pstop", "state", "touch",
          "none", "kill", "reset",
          "write", "killdaemon", "killapp", "rundaemon", "setnil"}

Longest == IF InitDelay > Delay THEN InitDelay ELSE Delay

LEMMA Timers == /\ Longest \in Nat /\ InitDelay <= Longest /\ Delay <= Longest
                /\ \A t \in -1..Longest : Down(t) \in -1..Longest
                /\ \A t \in -1..PatchDelay : Down(t) \in -1..PatchDelay
BY Delays DEF Longest, Down

(* A goroutine moves by itself.                                            *)
LEMMA Moves ==
  ASSUME pc \in [Actors -> Label], NEW a \in Actors, NEW l \in Label, Goto(a, l)
  PROVE  /\ pc' \in [Actors -> Label]
         /\ pc'[a] = l
         /\ \A b \in Actors \ {a} : pc'[b] = pc[b]
BY DEF Goto

LEMMA Queue ==
  ASSUME NEW S, NEW q \in Seq(S), q # <<>>
  PROVE  Head(q) \in S /\ Tail(q) \in Seq(S)
OBVIOUS

-----------------------------------------------------------------------------
(***************************************************************************)
(* Type correctness, by groups of variables that change together.          *)
(***************************************************************************)
GwType == /\ state \in {"none", "reset", "setup", "discovery"}
          /\ gw \in {"none", "setup", "discovery"} /\ pub \in {"none", "setup", "discovery"}
          /\ payload \in [{"loop", "cb"} -> {"none", "setup", "discovery"}]
MsgType == /\ msg \in {"init", "boot", "addr", "start", "adv"}
           /\ chipq \in Seq({"boot", "addr", "start", "adv"})
TimeType == /\ timer \in -1..Longest /\ pleft \in -1..PatchDelay
            /\ ptimer \in {"nil", "set"}
            /\ patched \in BOOLEAN /\ panic \in BOOLEAN
AppType == /\ daemon \in BOOLEAN
           /\ app \in {"down", "boot", "init", "setup", "run", "hung"}
           /\ age \in 0..Startup /\ scanning \in BOOLEAN /\ adv \in BOOLEAN
           /\ faults \in 0..MaxFaults
BinType == /\ path \in {"none", "stock", "patched"}
           /\ binary \in {"none", "stock", "patched"}

LEMMA TypeParts ==
  TypeOK <=> pc \in [Actors -> Label] /\ GwType /\ MsgType /\ TimeType /\ AppType /\ BinType
BY DEF TypeOK, Label, Longest, GwType, MsgType, TimeType, AppType, BinType

LEMMA TypeInit == Init => TypeOK
<1> SUFFICES ASSUME Init PROVE TypeOK
  OBVIOUS
<1>1. pc \in [Actors -> Label]
  BY DEF Init, Actors, Label
<1>2. GwType
  BY DEF Init, GwType
<1>3. MsgType
  BY DEF Init, MsgType
<1>4. TimeType
  <2>1. timer \in -1..Longest
    BY Timers, Delays DEF Init
  <2>2. pleft \in -1..PatchDelay
    BY Delays DEF Init
  <2>3. ptimer \in {"nil", "set"} /\ patched \in BOOLEAN /\ panic \in BOOLEAN
    BY DEF Init
  <2>4. QED  BY <2>1, <2>2, <2>3 DEF TimeType
<1>5. AppType
  <2>1. age \in 0..Startup /\ faults \in 0..MaxFaults
    BY Delays DEF Init
  <2>2. daemon \in BOOLEAN /\ scanning \in BOOLEAN /\ adv \in BOOLEAN
    BY DEF Init
  <2>3. app \in {"down", "boot", "init", "setup", "run", "hung"}
    BY DEF Init
  <2>4. QED  BY <2>1, <2>2, <2>3 DEF AppType
<1>6. BinType
  BY DEF Init, BinType
<1>7. QED  BY <1>1, <1>2, <1>3, <1>4, <1>5, <1>6, TypeParts

LEMMA PcStep ==
  pc \in [Actors -> Label] /\ MsgType /\ [Next]_vars => pc' \in [Actors -> Label]
<1> SUFFICES ASSUME pc \in [Actors -> Label], MsgType, [Next]_vars PROVE pc' \in [Actors -> Label]
  OBVIOUS
<1>moves. \A a \in Actors, l \in Label : Goto(a, l) => pc' \in [Actors -> Label]
  BY Moves
<1> USE <1>moves DEF Actors, Label
<1>1. CASE Loop
  <2>1. CASE UpdateState("loop")
    BY <2>1 DEF UpdateState, UpdateCheck, UpdateSet, UpdateMarshal, UpdateSend, After
  <2>2. CASE LoopRead
    <3>1. FirstStep[msg'] \in Label
      BY <2>2, Queue DEF LoopRead, FirstStep, MsgType
    <3>2. QED  BY <2>2, <3>1 DEF LoopRead
  <2>3. CASE LoopState \/ LoopTouch
    BY <2>3 DEF LoopState, LoopTouch
  <2>4. CASE PatchTimerStart \/ PatchTimerCheck
    BY <2>4 DEF PatchTimerStart, PatchTimerCheck
  <2>5. CASE PatchTimerSet \/ PatchTimerReset \/ PatchTimerStop
    BY <2>5 DEF PatchTimerSet, PatchTimerReset, PatchTimerStop
  <2>6. QED  BY <1>1, <2>1, <2>2, <2>3, <2>4, <2>5 DEF Loop
<1>2. CASE DiscoveryTimer
  <2>1. CASE UpdateState("cb")
    BY <2>1 DEF UpdateState, UpdateCheck, UpdateSet, UpdateMarshal, UpdateSend, After
  <2>2. CASE TimerFire \/ TimerNone \/ TimerKill \/ TimerReset
    BY <2>2 DEF TimerFire, TimerNone, TimerKill, TimerReset
  <2>3. QED  BY <1>2, <2>1, <2>2 DEF DiscoveryTimer
<1>3. CASE PatchTimer
  BY <1>3 DEF PatchTimer, PatchFire, PatchStep, PatchWrite, PatchKillDaemon,
              PatchKillApp, PatchRunDaemon, PatchSetNil
<1>4. CASE World
  BY <1>4 DEF World, AppStart, AppSetup, AppFault, ChipAdv, Tick, loopVars
<1>5. CASE UNCHANGED vars
  BY <1>5 DEF vars, loopVars
<1>6. QED  BY <1>1, <1>2, <1>3, <1>4, <1>5 DEF Next

(* btchipReader does with a message what is done with messages of its kind.*)
Fits ==
  /\ pc["loop"] \in {"pstart", "pset", "preset"} => msg = "start"
  /\ pc["loop"] \in {"pcheck", "pstop"} => msg = "boot"
  /\ pc["loop"] = "state" => msg \in {"boot", "addr", "start"}

LEMMA FitsStep ==
  pc \in [Actors -> Label] /\ Fits /\ MsgType /\ [Next]_vars => Fits' /\ MsgType'
<1> SUFFICES ASSUME pc \in [Actors -> Label], Fits, MsgType, [Next]_vars
             PROVE Fits' /\ MsgType'
  OBVIOUS
<1> USE DEF Fits
<1>moves. \A a \in Actors, l \in Label :
            Goto(a, l) => pc'[a] = l /\ \A b \in Actors \ {a} : pc'[b] = pc[b]
  BY Moves
<1>other. ASSUME UNCHANGED <<msg, chipq>>, pc'["loop"] \in {pc["loop"], "idle", "touch"}
                  \/ pc'["loop"] \in {"gwcheck", "gwset", "gwmarshal", "gwsend"}
          PROVE  Fits' /\ MsgType'
  BY <1>other DEF MsgType
<1>1. CASE LoopRead
  <2>1. /\ Head(chipq) \in {"boot", "addr", "start", "adv"}
        /\ Tail(chipq) \in Seq({"boot", "addr", "start", "adv"})
    BY <1>1, Queue DEF LoopRead, MsgType
  <2>2. MsgType'
    BY <1>1, <2>1 DEF LoopRead, MsgType
  <2>3. FirstStep[msg'] \in Label /\ Goto("loop", FirstStep[msg'])
    BY <1>1, <2>1 DEF LoopRead, FirstStep, Label
  <2>4. pc'["loop"] = FirstStep[msg']
    BY <2>3, <1>moves DEF Actors
  <2>5. Fits'
    BY <1>1, <2>1, <2>4 DEF LoopRead, FirstStep
  <2>6. QED  BY <2>2, <2>5
<1>2. CASE PatchTimerStart \/ PatchTimerSet \/ PatchTimerReset
  <2>1. /\ UNCHANGED <<msg, chipq>> /\ msg = "start"
        /\ pc'["loop"] \in {"pset", "preset", "state"}
    BY <1>2, <1>moves DEF PatchTimerStart, PatchTimerSet, PatchTimerReset, appVars,
                          Actors, Label
  <2>2. QED  BY <2>1 DEF MsgType
<1>3. CASE PatchTimerCheck \/ PatchTimerStop
  <2>1. /\ UNCHANGED <<msg, chipq>> /\ msg = "boot"
        /\ pc'["loop"] \in {"pstop", "state"}
    BY <1>3, <1>moves DEF PatchTimerCheck, PatchTimerStop, appVars, Actors, Label
  <2>2. QED  BY <2>1 DEF MsgType
<1>4. CASE LoopState \/ LoopTouch \/ UpdateState("loop")
  <2>1. UNCHANGED <<msg, chipq>> /\ pc'["loop"] \in {"gwcheck", "touch", "idle", "gwset",
                                                    "gwmarshal", "gwsend"}
    BY <1>4, <1>moves DEF LoopState, LoopTouch, UpdateState, UpdateCheck, UpdateSet,
          UpdateMarshal, UpdateSend, After, appVars, Actors, Label
  <2>2. QED  BY <2>1, <1>other
<1>5. CASE DiscoveryTimer
  <2>1. UNCHANGED <<msg, chipq>> /\ pc'["loop"] = pc["loop"]
    BY <1>5, <1>moves DEF DiscoveryTimer, UpdateState, UpdateCheck, UpdateSet, UpdateMarshal,
          UpdateSend, After, TimerFire, TimerNone, TimerKill, TimerReset, appVars,
          Actors, Label
  <2>2. QED  BY <2>1, <1>other
<1>6. CASE PatchTimer
  <2>1. UNCHANGED <<msg, chipq>> /\ pc'["loop"] = pc["loop"]
    BY <1>6, <1>moves DEF PatchTimer, PatchFire, PatchStep, PatchWrite, PatchKillDaemon,
          PatchKillApp, PatchRunDaemon, PatchSetNil, appVars, Actors, Label
  <2>2. QED  BY <2>1, <1>other
<1>7. CASE World
  <2>1. UNCHANGED <<msg, pc>>
    BY <1>7 DEF World, AppStart, AppSetup, AppFault, ChipAdv, Tick, loopVars
  <2>2. chipq' \in Seq({"boot", "addr", "start", "adv"})
    <3>1. CASE AppSetup \/ ChipAdv
      BY <3>1 DEF AppSetup, ChipAdv, MsgType
    <3>2. CASE AppStart \/ AppFault \/ Tick
      BY <3>2 DEF AppStart, AppFault, Tick, MsgType
    <3>3. QED  BY <1>7, <3>1, <3>2 DEF World
  <2>3. QED  BY <2>1, <2>2 DEF MsgType
<1>8. CASE UNCHANGED vars
  BY <1>8, <1>other DEF vars, loopVars, appVars
<1>9. QED
  BY <1>1, <1>2, <1>3, <1>4, <1>5, <1>6, <1>7, <1>8 DEF Next, Loop

LEMMA GwStep == GwType /\ Fits /\ [Next]_vars => GwType'
<1> SUFFICES ASSUME GwType, Fits, [Next]_vars PROVE GwType'
  OBVIOUS
<1>1. CASE \E a \in {"loop", "cb"} : UpdateState(a)
  <2>1. PICK a \in {"loop", "cb"} : UpdateState(a)
    BY <1>1
  <2>2. Target(a) \in {"setup", "discovery"}
    BY DEF Target
  <2>3. CASE UpdateCheck(a)
    BY <2>3 DEF UpdateCheck, GwType
  <2>4. CASE UpdateSet(a)
    BY <2>2, <2>4 DEF UpdateSet, GwType
  <2>5. CASE UpdateMarshal(a)
    BY <2>5 DEF UpdateMarshal, GwType
  <2>6. CASE UpdateSend(a)
    <3>1. payload[a] \in {"none", "setup", "discovery"}
      BY DEF GwType
    <3>2. QED  BY <2>6, <3>1 DEF UpdateSend, GwType
  <2>7. QED  BY <2>1, <2>3, <2>4, <2>5, <2>6 DEF UpdateState
<1>2. CASE LoopState
  <2>1. msg \in {"boot", "addr", "start"}
    BY <1>2 DEF LoopState, Fits
  <2>2. state' \in {"none", "reset", "setup", "discovery"}
    BY <1>2, <2>1 DEF LoopState, StateOn
  <2>3. QED  BY <1>2, <2>2 DEF LoopState, GwType
<1>3. CASE TimerNone
  BY <1>3 DEF TimerNone, GwType
<1>4. CASE UNCHANGED <<state, gw, pub, payload>>
  BY <1>4 DEF GwType
<1>5. QED
  BY <1>1, <1>2, <1>3, <1>4
     DEF Next, Loop, LoopRead, LoopTouch, PatchTimerStart, PatchTimerCheck, PatchTimerSet,
         PatchTimerReset, PatchTimerStop, DiscoveryTimer, TimerFire, TimerKill, TimerReset,
         PatchTimer, PatchFire, PatchStep, PatchWrite, PatchKillDaemon, PatchKillApp,
         PatchRunDaemon, PatchSetNil, World, AppStart, AppSetup, AppFault, ChipAdv, Tick,
         loopVars, vars

LEMMA TimeStep == TimeType /\ [Next]_vars => TimeType'
<1> SUFFICES ASSUME TimeType, [Next]_vars PROVE TimeType'
  OBVIOUS
<1> USE Delays, Timers DEF TimeType
<1>1. CASE PatchTimerSet
  BY <1>1 DEF PatchTimerSet, appVars, binVars
<1>2. CASE PatchTimerReset
  <2>1. panic' \in BOOLEAN /\ patched' \in BOOLEAN
    BY <1>2 DEF PatchTimerReset, appVars, binVars
  <2>2. pleft' \in -1..PatchDelay /\ UNCHANGED <<timer, ptimer>>
    BY <1>2 DEF PatchTimerReset
  <2>3. QED  BY <2>1, <2>2
<1>3. CASE PatchTimerStop
  <2>1. panic' \in BOOLEAN /\ patched' \in BOOLEAN
    BY <1>3 DEF PatchTimerStop, appVars, binVars
  <2>2. pleft' \in -1..PatchDelay /\ UNCHANGED <<timer, ptimer>>
    BY <1>3 DEF PatchTimerStop
  <2>3. QED  BY <2>1, <2>2
<1>4. CASE LoopTouch
  BY <1>4 DEF LoopTouch, appVars, binVars
<1>5. CASE TimerFire \/ TimerReset
  BY <1>5 DEF TimerFire, TimerReset, appVars, binVars
<1>6. CASE PatchTimer
  <2>1. pleft' \in -1..PatchDelay /\ ptimer' \in {"nil", "set"} /\ UNCHANGED timer
    BY <1>6 DEF PatchTimer, PatchFire, PatchStep, PatchWrite, PatchKillDaemon,
                PatchKillApp, PatchRunDaemon, PatchSetNil
  <2>2. patched' \in BOOLEAN /\ panic' \in BOOLEAN
    BY <1>6 DEF PatchTimer, PatchFire, PatchStep, PatchWrite, PatchKillDaemon,
                PatchKillApp, PatchRunDaemon, PatchSetNil, appVars, binVars
  <2>3. QED  BY <2>1, <2>2
<1>7. CASE Tick
  BY <1>7 DEF Tick, binVars
<1>8. CASE UNCHANGED <<timer, pleft, ptimer, patched, panic>>
  BY <1>8
<1>9. QED
  BY <1>1, <1>2, <1>3, <1>4, <1>5, <1>6, <1>7, <1>8
     DEF Next, Loop, LoopRead, LoopState, PatchTimerStart, PatchTimerCheck, DiscoveryTimer,
         TimerNone, TimerKill, UpdateState, UpdateCheck, UpdateSet, UpdateMarshal,
         UpdateSend, World, AppStart, AppSetup, AppFault, ChipAdv, loopVars, appVars, binVars, vars

LEMMA AppStep == AppType /\ [Next]_vars => AppType'
<1> SUFFICES ASSUME AppType, [Next]_vars PROVE AppType'
  OBVIOUS
<1> USE Delays DEF AppType
<1>1. CASE TimerKill
  BY <1>1 DEF TimerKill, killApp
<1>2. CASE PatchTimer
  <2>1. CASE PatchFire
    BY <2>1 DEF PatchFire, appVars
  <2>2. CASE PatchWrite \/ PatchSetNil
    BY <2>2 DEF PatchWrite, PatchSetNil, PatchStep
  <2>3. CASE PatchKillDaemon \/ PatchRunDaemon
    BY <2>3 DEF PatchKillDaemon, PatchRunDaemon, PatchStep
  <2>4. CASE PatchKillApp
    BY <2>4 DEF PatchKillApp, PatchStep, killApp
  <2>5. QED  BY <1>2, <2>1, <2>2, <2>3, <2>4 DEF PatchTimer
<1>3. CASE AppStart
  BY <1>3 DEF AppStart
<1>4. CASE AppSetup
  BY <1>4 DEF AppSetup
<1>5. CASE AppFault
  <2>1. faults' \in 0..MaxFaults
    BY <1>5 DEF AppFault
  <2>2. QED  BY <1>5, <2>1 DEF AppFault
<1>6. CASE ChipAdv
  BY <1>6 DEF ChipAdv
<1>7. CASE Tick
  <2>1. age' \in 0..Startup
    BY <1>7 DEF Tick
  <2>2. QED  BY <1>7, <2>1 DEF Tick
<1>8. CASE UNCHANGED <<daemon, app, age, scanning, adv, faults>>
  BY <1>8
<1>9. QED
  BY <1>1, <1>2, <1>3, <1>4, <1>5, <1>6, <1>7, <1>8
     DEF Next, Loop, LoopRead, LoopState, LoopTouch, PatchTimerStart, PatchTimerCheck,
         PatchTimerSet, PatchTimerReset, PatchTimerStop, DiscoveryTimer, TimerFire,
         TimerNone, TimerReset, UpdateState, UpdateCheck, UpdateSet, UpdateMarshal,
         UpdateSend, World, appVars, vars

LEMMA BinStep == BinType /\ [Next]_vars => BinType'
<1> SUFFICES ASSUME BinType, [Next]_vars PROVE BinType'
  OBVIOUS
<1> USE DEF BinType
<1>1. CASE AppStart
  BY <1>1 DEF AppStart, Found
<1>2. CASE PatchTimer
  BY <1>2 DEF PatchTimer, PatchFire, PatchStep, PatchWrite, PatchKillDaemon, PatchKillApp,
              PatchRunDaemon, PatchSetNil, appVars, binVars
<1>3. CASE UNCHANGED <<path, binary>>
  BY <1>3
<1>4. QED
  BY <1>1, <1>2, <1>3
     DEF Next, Loop, LoopRead, LoopState, LoopTouch, PatchTimerStart, PatchTimerCheck,
         PatchTimerSet, PatchTimerReset, PatchTimerStop, DiscoveryTimer, TimerFire, TimerKill,
         TimerNone, TimerReset, UpdateState, UpdateCheck, UpdateSet, UpdateMarshal,
         UpdateSend, World, AppSetup, AppFault, ChipAdv, Tick, appVars, binVars, vars

TypeInv == TypeOK /\ Fits

LEMMA TypeInvInit == Init => TypeInv
BY TypeInit DEF TypeInv, Init, Fits

LEMMA TypeInvStep == TypeInv /\ [Next]_vars => TypeInv'
<1> SUFFICES ASSUME TypeInv, [Next]_vars PROVE TypeInv'
  OBVIOUS
<1>1. pc \in [Actors -> Label] /\ GwType /\ MsgType /\ TimeType /\ AppType /\ BinType /\ Fits
  BY TypeParts DEF TypeInv
<1>2. pc' \in [Actors -> Label] /\ GwType' /\ MsgType' /\ TimeType' /\ AppType' /\ BinType' /\ Fits'
  BY <1>1, PcStep, GwStep, FitsStep, TimeStep, AppStep, BinStep
<1>3. TypeOK'
  BY <1>2 DEF TypeOK, Label, Longest, GwType, MsgType, TimeType, AppType, BinType
<1>4. QED  BY <1>2, <1>3 DEF TypeInv

(* Every state is well typed; btchipReader's state is always one that a    *)
(* message of a known kind brings.                                         *)
THEOREM TypeCorrect == Spec => []TypeOK
<1>1. TypeInv => TypeOK
  BY DEF TypeInv
<1>2. QED  BY <1>1, TypeInvInit, TypeInvStep, PTL DEF Spec

-----------------------------------------------------------------------------
(* btchip_reader.go:50-60: btchipReader's Reset and the callback's own race*)
(* over one timer, and whichever comes first the timer is armed when the   *)
(* callback has ended: gw3 never stops watching the app.                   *)
THEOREM WatchAliveCorrect == Spec => []WatchAlive
<1>1. Init => WatchAlive
  BY Delays DEF Init, WatchAlive
<1>2. TypeInv /\ WatchAlive /\ [Next]_vars => WatchAlive'
  <2> SUFFICES ASSUME TypeInv, WatchAlive, [Next]_vars PROVE WatchAlive'
    OBVIOUS
  <2> USE Delays DEF WatchAlive
  <2>types. pc \in [Actors -> Label] /\ timer \in -1..Longest
    BY TypeParts DEF TypeInv, TimeType
  <2>moves. \A a \in Actors, l \in Label :
              Goto(a, l) => pc'[a] = l /\ \A b \in Actors \ {a} : pc'[b] = pc[b]
    BY <2>types, Moves
  <2> USE <2>moves DEF Actors, Label
  <2>1. CASE TimerReset
    BY <2>1 DEF TimerReset
  <2>2. CASE TimerFire \/ TimerNone \/ TimerKill
    BY <2>2 DEF TimerFire, TimerNone, TimerKill
  <2>3. CASE UpdateState("cb")
    BY <2>3 DEF UpdateState, UpdateCheck, UpdateSet, UpdateMarshal, UpdateSend, After
  <2>4. CASE LoopTouch
    BY <2>4 DEF LoopTouch
  <2>5. CASE Tick
    BY <2>5, <2>types DEF Tick, Down
  <2>6. CASE Loop /\ ~LoopTouch
    <3>1. UNCHANGED timer /\ \E l \in Label : Goto("loop", l)
      <4>1. CASE LoopRead
        <5>1. FirstStep[msg'] \in Label
          BY <4>1, Queue, TypeParts DEF LoopRead, FirstStep, MsgType, TypeInv
        <5>2. QED  BY <4>1, <5>1 DEF LoopRead
      <4>2. CASE UpdateState("loop")
        BY <4>2 DEF UpdateState, UpdateCheck, UpdateSet, UpdateMarshal, UpdateSend, After
      <4>3. CASE LoopState \/ PatchTimerStart \/ PatchTimerCheck \/ PatchTimerSet
                 \/ PatchTimerReset \/ PatchTimerStop
        BY <4>3 DEF LoopState, PatchTimerStart, PatchTimerCheck, PatchTimerSet,
                    PatchTimerReset, PatchTimerStop
      <4>4. QED  BY <2>6, <4>1, <4>2, <4>3 DEF Loop
    <3>2. QED  BY <3>1
  <2>7. CASE PatchTimer
    BY <2>7 DEF PatchTimer, PatchFire, PatchStep, PatchWrite, PatchKillDaemon,
                PatchKillApp, PatchRunDaemon, PatchSetNil
  <2>8. CASE AppStart \/ AppSetup \/ AppFault \/ ChipAdv \/ UNCHANGED vars
    BY <2>8 DEF AppStart, AppSetup, AppFault, ChipAdv, loopVars, vars
  <2>9. QED
    BY <2>1, <2>2, <2>3, <2>4, <2>5, <2>6, <2>7, <2>8 DEF Next, DiscoveryTimer, World
<1>3. QED  BY <1>1, <1>2, TypeInvInit, TypeInvStep, PTL DEF Spec

-----------------------------------------------------------------------------
(***************************************************************************)
(* No spurious kill.  While nothing has gone wrong the timer exceeds what  *)
(* the app may still take to discovery, and when the app discovers, each   *)
(* tick starts from a full delay.  Only then is the patch timer armed or   *)
(* the app restarted: so the timer is Delay - 1 at least at that moment,   *)
(* and Startup has to be less than that.                                   *)
(***************************************************************************)
Busy     == pc["loop"] # "idle"
OnlyAdvs == \A j \in 1..Len(chipq) : chipq[j] = "adv"
NoStart  == \A j \in 1..Len(chipq) : chipq[j] # "start"
Queued   == \E k \in 1..Len(chipq) :
              /\ chipq[k] = "start"
              /\ \A j \in 1..Len(chipq) : j < k => chipq[j] # "start"
              /\ \A j \in 1..Len(chipq) : j > k => chipq[j] = "adv"

Settled ==      \* the start of discovery has been processed
  /\ state = "discovery" /\ scanning /\ OnlyAdvs
  /\ pc["loop"] = "idle" \/ (pc["loop"] = "touch" /\ msg = "adv")
  /\ timer >= Delay - 1
  /\ timer = Delay \/ ~adv \/ chipq # <<>> \/ pc["loop"] = "touch"

Starting ==     \* it is being processed
  /\ msg = "start" /\ Busy /\ scanning /\ OnlyAdvs
  /\ pc["loop"] \in {"gwcheck", "gwset", "gwmarshal", "gwsend", "touch"}
       => state = "discovery"

StartQueued ==  \* it waits in chipq
  scanning /\ pleft = -1 /\ Queued /\ ~(msg = "start" /\ Busy)

Away    == app # "run" => pleft = -1 /\ NoStart /\ ~(msg = "start" /\ Busy)
Runs    == app = "run" => Settled \/ Starting \/ StartQueued
Armed   == pleft >= 0 => Settled \/ (Starting /\ pleft = PatchDelay /\ PatchDelay > 0)
Arming  == pc["loop"] \in {"pset", "preset"} => PatchDelay > 0
Restart == pc["pcb"] \in {"write", "killdaemon", "killapp"}
             => app = "run" /\ Settled /\ pleft = -1
Ran     == daemon \/ pc["pcb"] \in {"killapp", "rundaemon"}
Spare   == /\ pc["cb"] = "idle" /\ app # "hung" /\ (app = "down" => age = 0)
           /\ timer + age > Startup

Faultless == Spare /\ Away /\ Runs /\ Armed /\ Arming /\ Restart /\ Ran

KillInv == faults = 0 => Faultless

LEMMA ReadQueue ==
  ASSUME chipq \in Seq({"boot", "addr", "start", "adv"}), chipq # <<>>, chipq' = Tail(chipq)
  PROVE  /\ Head(chipq) \in {"boot", "addr", "start", "adv"}
         /\ OnlyAdvs => Head(chipq) = "adv" /\ OnlyAdvs'
         /\ NoStart => Head(chipq) # "start" /\ NoStart'
         /\ Queued => IF Head(chipq) = "start" THEN OnlyAdvs' ELSE Queued'
<1>1. /\ Len(chipq) \in Nat /\ Len(chipq) > 0 /\ Head(chipq) = chipq[1]
      /\ Len(chipq') = Len(chipq) - 1
      /\ \A j \in 1..Len(chipq') : chipq'[j] = chipq[j + 1]
  OBVIOUS
<1>2. chipq[1] \in {"boot", "addr", "start", "adv"}
  BY <1>1
<1>3. OnlyAdvs => Head(chipq) = "adv" /\ OnlyAdvs'
  BY <1>1 DEF OnlyAdvs
<1>4. NoStart => Head(chipq) # "start" /\ NoStart'
  BY <1>1 DEF NoStart
<1>5. ASSUME Queued
      PROVE  IF Head(chipq) = "start" THEN OnlyAdvs' ELSE Queued'
  <2>1. PICK k \in 1..Len(chipq) :
          /\ chipq[k] = "start"
          /\ \A j \in 1..Len(chipq) : j < k => chipq[j] # "start"
          /\ \A j \in 1..Len(chipq) : j > k => chipq[j] = "adv"
    BY <1>5 DEF Queued
  <2>2. CASE k = 1
    BY <1>1, <2>1, <2>2 DEF OnlyAdvs
  <2>3. CASE k > 1
    <3>1. k - 1 \in 1..Len(chipq') /\ chipq'[k - 1] = "start"
      BY <1>1, <2>1, <2>3
    <3>2. \A j \in 1..Len(chipq') :
            (j < k - 1 => chipq'[j] # "start") /\ (j > k - 1 => chipq'[j] = "adv")
      <4>1. TAKE j \in 1..Len(chipq')
      <4>2. j + 1 \in 1..Len(chipq) /\ chipq'[j] = chipq[j + 1]
        BY <1>1
      <4>3. (j < k - 1 => j + 1 < k) /\ (j > k - 1 => j + 1 > k)
        BY <1>1
      <4>4. QED  BY <2>1, <4>2, <4>3
    <3>3. Head(chipq) # "start"
      <4>1. 1 \in 1..Len(chipq) /\ 1 < k
        BY <1>1, <2>3
      <4>2. QED  BY <1>1, <2>1, <4>1
    <3>4. QED  BY <3>1, <3>2, <3>3 DEF Queued
  <2>4. QED  BY <2>2, <2>3
<1>6. QED  BY <1>1, <1>2, <1>3, <1>4, <1>5

LEMMA SendQueue ==
  ASSUME chipq \in Seq({"boot", "addr", "start", "adv"}),
         NEW m \in {"boot", "addr", "start", "adv"}, chipq' = Append(chipq, m)
  PROVE  /\ chipq' # <<>>
         /\ m = "adv" => (OnlyAdvs => OnlyAdvs') /\ (Queued => Queued')
         /\ m # "start" => (NoStart => NoStart')
         /\ m = "start" => (NoStart => Queued')
<1>1. /\ Len(chipq) \in Nat /\ Len(chipq') = Len(chipq) + 1
      /\ chipq'[Len(chipq) + 1] = m
      /\ \A j \in 1..Len(chipq) : chipq'[j] = chipq[j]
  OBVIOUS
<1>2. chipq' # <<>>
  BY <1>1
<1>3. m = "adv" => (OnlyAdvs => OnlyAdvs')
  BY <1>1 DEF OnlyAdvs
<1>4. m = "adv" => (Queued => Queued')
  BY <1>1 DEF Queued
<1>5. m # "start" => (NoStart => NoStart')
  BY <1>1 DEF NoStart
<1>6. ASSUME m = "start", NoStart PROVE Queued'
  <2>1. Len(chipq) + 1 \in 1..Len(chipq') /\ chipq'[Len(chipq) + 1] = "start"
    BY <1>1, <1>6
  <2>2. \A j \in 1..Len(chipq') : (j < Len(chipq) + 1 => chipq'[j] # "start")
                                /\ (j > Len(chipq) + 1 => chipq'[j] = "adv")
    BY <1>1, <1>6 DEF NoStart
  <2>3. QED  BY <2>1, <2>2 DEF Queued
<1>7. QED  BY <1>2, <1>3, <1>4, <1>5, <1>6

LEMMA SameQueue ==
  chipq' = chipq => (OnlyAdvs' <=> OnlyAdvs) /\ (NoStart' <=> NoStart) /\ (Queued' <=> Queued)
BY DEF OnlyAdvs, NoStart, Queued

(* The steps of btchipReader.                                              *)
LEMMA FaultlessLoop ==
  ASSUME TypeInv, Faultless, Loop, Startup + 1 < Delay
  PROVE  Faultless'
<1> USE Delays
<1>types. /\ pc \in [Actors -> Label] /\ MsgType /\ Fits
          /\ timer \in -1..Longest /\ age \in 0..Startup /\ pleft \in -1..PatchDelay
  BY TypeParts DEF TypeInv, TimeType, AppType, BinType
<1>nums. timer \in Int /\ age \in Nat /\ pleft \in Int
  BY <1>types
<1>spare. Spare /\ Away /\ Runs /\ Armed /\ Arming /\ Restart /\ Ran
  BY DEF Faultless
<1>moves. ASSUME NEW l \in Label, Goto("loop", l)
          PROVE  pc'["loop"] = l /\ pc'["cb"] = pc["cb"] /\ pc'["pcb"] = pc["pcb"]
  BY <1>types, <1>moves DEF Goto, Actors
(* The rest of the state, as long as only btchipReader moves.              *)
<1>others. ASSUME UNCHANGED <<daemon, app, age, scanning, adv>>,
                  pc'["cb"] = pc["cb"], pc'["pcb"] = pc["pcb"],
                  timer' \in {timer, Delay}
           PROVE  Spare' /\ Ran'
  <2>1. Spare'
    <3>0. age' = age /\ timer' \in {timer, Delay} /\ timer + age > Startup
      BY <1>others, <1>spare DEF Spare
    <3>1. timer' + age' > Startup
      <4>1. CASE timer' = timer
        BY <3>0, <4>1
      <4>2. CASE timer' = Delay
        BY <3>0, <1>nums, <4>2
      <4>3. QED  BY <3>0, <4>1, <4>2
    <3>2. QED  BY <1>others, <1>spare, <3>1 DEF Spare
  <2>2. Ran'
    BY <1>others, <1>spare, Zenon DEF Ran
  <2>3. QED  BY <2>1, <2>2
<1>1. CASE LoopRead
  <2>1. /\ Head(chipq) \in {"boot", "addr", "start", "adv"}
        /\ OnlyAdvs => Head(chipq) = "adv" /\ OnlyAdvs'
        /\ NoStart => Head(chipq) # "start" /\ NoStart'
        /\ Queued => IF Head(chipq) = "start" THEN OnlyAdvs' ELSE Queued'
    BY <1>1, <1>types, ReadQueue DEF LoopRead, MsgType
  <2>2. /\ pc["loop"] = "idle" /\ pc'["loop"] = FirstStep[msg'] /\ msg' = Head(chipq)
        /\ pc'["cb"] = pc["cb"] /\ pc'["pcb"] = pc["pcb"]
        /\ UNCHANGED <<state, timer, pleft, daemon, app, age, scanning, adv>>
    <3>1. FirstStep[msg'] \in Label
      BY <1>1, <2>1 DEF LoopRead, FirstStep, Label
    <3>2. QED  BY <1>1, <3>1, <1>moves DEF LoopRead
  <2>3. FirstStep[msg'] \in {"pstart", "pcheck", "state", "touch"}
        /\ (msg' = "adv" => FirstStep[msg'] = "touch")
        /\ (msg' = "start" => FirstStep[msg'] = "pstart")
    BY <2>1, <2>2 DEF FirstStep
  <2>4. Settled => Settled'
    BY <2>1, <2>2, <2>3 DEF Settled
  <2>5. ~Starting
    BY <2>2 DEF Starting, Busy
  <2>6. StartQueued => Starting' \/ StartQueued'
    BY <2>1, <2>2, <2>3 DEF StartQueued, Starting, Busy
  <2>7. Away' /\ Runs'
    BY <1>spare, <2>1, <2>2, <2>4, <2>5, <2>6 DEF Away, Runs, Busy
  <2>8. Armed' /\ Arming' /\ Restart'
    BY <1>spare, <2>2, <2>3, <2>4, <2>5 DEF Armed, Arming, Restart
  <2>9. QED  BY <2>2, <2>7, <2>8, <1>others DEF Faultless
<1>2. CASE ~LoopRead
  <2>1. /\ UNCHANGED <<msg, chipq, daemon, app, age, scanning, adv>>
        /\ Busy
        /\ (OnlyAdvs' <=> OnlyAdvs) /\ (NoStart' <=> NoStart) /\ (Queued' <=> Queued)
    BY <1>2, SameQueue DEF Loop, LoopState, LoopTouch, PatchTimerStart, PatchTimerCheck,
         PatchTimerSet, PatchTimerReset, PatchTimerStop, UpdateState, UpdateCheck,
         UpdateSet, UpdateMarshal, UpdateSend, appVars, Busy
  <2>2. CASE LoopTouch
    <3>1. /\ pc["loop"] = "touch" /\ pc'["loop"] = "idle"
          /\ pc'["cb"] = pc["cb"] /\ pc'["pcb"] = pc["pcb"]
          /\ timer' = (IF state = "discovery" THEN Delay ELSE timer)
          /\ UNCHANGED <<state, pleft>>
      BY <2>2, <1>moves DEF LoopTouch, Label
    <3>2. Settled => Settled'
      BY <2>1, <3>1 DEF Settled
    <3>3. Starting => Settled'
      BY <2>1, <3>1 DEF Starting, Settled
    <3>4. StartQueued => StartQueued'
      BY <2>1, <3>1 DEF StartQueued, Busy
    <3>5. Away' /\ Runs'
      BY <1>spare, <2>1, <3>1, <3>2, <3>3, <3>4 DEF Away, Runs, Busy
    <3>6. Armed' /\ Arming' /\ Restart'
      BY <1>spare, <2>1, <3>1, <3>2, <3>3 DEF Armed, Arming, Restart
    <3>7. QED  BY <2>1, <3>1, <3>5, <3>6, <1>others DEF Faultless
  <2>3. CASE ~LoopTouch
    <3> DEFINE Updates == {"gwcheck", "gwset", "gwmarshal", "gwsend"}
    <3> DEFINE Same(l) == pc'["loop"] = l /\ pc'["cb"] = pc["cb"] /\ pc'["pcb"] = pc["pcb"]
    <3>1. /\ UNCHANGED timer
          /\ pc["loop"] # "touch" /\ (msg = "start" => pc'["loop"] # "idle")
          /\ pc'["cb"] = pc["cb"] /\ pc'["pcb"] = pc["pcb"]
          /\ \/ pc["loop"] \in Updates /\ UNCHANGED <<state, pleft>>
                /\ pc'["loop"] \in Updates \cup {"touch", "idle"}
             \/ pc["loop"] = "state" /\ UNCHANGED pleft /\ state' = StateOn[msg]
                /\ pc'["loop"] \in {"touch", "gwcheck"}
             \/ pc["loop"] \in {"pstart", "pset", "preset", "pcheck", "pstop"}
                /\ UNCHANGED state
                /\ pc'["loop"] \in {"pset", "preset", "pstop", "state"}
          /\ \/ pleft' \in {pleft, -1}
             \/ pleft' = PatchDelay /\ pc["loop"] \in {"pset", "preset"}
          /\ pc'["loop"] \in {"pset", "preset"}
               => PatchDelay > 0 \/ pc["loop"] \in {"pset", "preset"}
      <4>1. CASE UpdateState("loop")
        <5>1. PICK l \in {"gwset", "gwmarshal", "gwsend", After("loop")} : Goto("loop", l)
          BY <4>1 DEF UpdateState, UpdateCheck, UpdateSet, UpdateMarshal, UpdateSend
        <5>2. /\ l \in Updates \cup {"touch", "idle"} /\ l \in Label
              /\ msg = "start" => l # "idle"
          BY DEF After, Label
        <5>3. Same(l)
          BY <5>1, <5>2, <1>moves
        <5>4. pc["loop"] \in Updates /\ UNCHANGED <<state, pleft, timer>>
          BY <4>1 DEF UpdateState, UpdateCheck, UpdateSet, UpdateMarshal, UpdateSend
        <5>5. QED  BY <5>2, <5>3, <5>4
      <4>2. CASE LoopState
        <5>1. PICK l \in {"touch", "gwcheck"} :
                Goto("loop", l) /\ (msg = "start" => l = "gwcheck")
          BY <4>2 DEF LoopState
        <5>2. Same(l)
          BY <5>1, <1>moves DEF Label
        <5>3. pc["loop"] = "state" /\ UNCHANGED <<pleft, timer>> /\ state' = StateOn[msg]
          BY <4>2 DEF LoopState
        <5>4. QED  BY <5>1, <5>2, <5>3
      <4>3. CASE PatchTimerStart \/ PatchTimerCheck
        <5>1. PICK l \in {"state", "pset", "pstop"} :
                Goto("loop", l) /\ (l = "pset" => PatchDelay > 0)
          BY <4>3 DEF PatchTimerStart, PatchTimerCheck
        <5>2. Same(l)
          BY <5>1, <1>moves DEF Label
        <5>3. pc["loop"] \in {"pstart", "pcheck"} /\ UNCHANGED <<state, pleft, timer>>
          BY <4>3 DEF PatchTimerStart, PatchTimerCheck
        <5>4. QED  BY <5>1, <5>2, <5>3
      <4>4. CASE PatchTimerSet \/ PatchTimerReset \/ PatchTimerStop
        <5>1. PICK l \in {"state", "preset"} :
                Goto("loop", l) /\ (l = "preset" => pc["loop"] = "pset")
          BY <4>4 DEF PatchTimerSet, PatchTimerReset, PatchTimerStop
        <5>2. Same(l)
          BY <5>1, <1>moves DEF Label
        <5>3. /\ pc["loop"] \in {"pset", "preset", "pstop"} /\ UNCHANGED <<state, timer>>
              /\ \/ pleft' \in {pleft, -1}
                 \/ pleft' = PatchDelay /\ pc["loop"] \in {"pset", "preset"}
          BY <4>4 DEF PatchTimerSet, PatchTimerReset, PatchTimerStop
        <5>4. QED  BY <5>1, <5>2, <5>3
      <4>5. QED  BY <1>2, <2>3, <4>1, <4>2, <4>3, <4>4 DEF Loop
    <3>2. ~Settled
      BY <2>1, <3>1 DEF Settled, Busy
    <3>3. Starting => Starting'
      BY <1>types, <2>1, <3>1 DEF Starting, Busy, Fits, StateOn
    <3>4. StartQueued => StartQueued'
      BY <1>types, <2>1, <3>1 DEF StartQueued, Busy, Fits
    <3>5. Away' /\ Runs'
      BY <1>types, <1>spare, <2>1, <3>1, <3>2, <3>3, <3>4 DEF Away, Runs, Busy, Fits
    <3>6. Arming' /\ Restart'
      BY <1>spare, <3>1, <3>2 DEF Arming, Restart
    <3>7. Armed'
      <4>1. CASE pleft' = PatchDelay /\ pc["loop"] \in {"pset", "preset"}
        <5>1. msg = "start" /\ app = "run"
          BY <1>types, <1>spare, <2>1, <4>1 DEF Fits, Away
        <5>2. Starting
          BY <1>spare, <2>1, <3>2, <5>1 DEF Runs, StartQueued
        <5>3. QED  BY <1>spare, <3>3, <4>1, <5>2 DEF Armed, Arming
      <4>2. CASE pleft' = pleft
        BY <1>spare, <3>2, <3>3, <4>2 DEF Armed
      <4>3. CASE pleft' = -1
        BY <4>3 DEF Armed
      <4>4. QED  BY <3>1, <4>1, <4>2, <4>3
    <3>8. QED  BY <2>1, <3>1, <3>5, <3>6, <3>7, <1>others DEF Faultless
  <2>4. QED  BY <2>2, <2>3
<1>3. QED  BY <1>1, <1>2

(* The steps of the patch timer: its callback begins when the app          *)
(* discovers, and kills it with Delay - 1 left on the other timer.         *)
LEMMA FaultlessPatch ==
  ASSUME TypeInv, Faultless, PatchTimer, Startup + 1 < Delay
  PROVE  Faultless'
<1> USE Delays
<1>types. /\ pc \in [Actors -> Label] /\ timer \in -1..Longest
          /\ pleft \in -1..PatchDelay /\ age \in 0..Startup
  BY TypeParts DEF TypeInv, TimeType, AppType, BinType
<1>spare. Spare /\ Away /\ Runs /\ Armed /\ Arming /\ Restart /\ Ran
  BY DEF Faultless
<1>moves. ASSUME NEW l \in Label, Goto("pcb", l)
          PROVE  pc'["pcb"] = l /\ pc'["cb"] = pc["cb"] /\ pc'["loop"] = pc["loop"]
  BY <1>types, <1>moves DEF Goto, Actors
<1>0. UNCHANGED <<state, msg, timer, scanning, adv, chipq>>
  BY DEF PatchTimer, PatchFire, PatchStep, PatchWrite, PatchKillDaemon, PatchKillApp,
         PatchRunDaemon, PatchSetNil, appVars
<1>1. (OnlyAdvs' <=> OnlyAdvs) /\ (NoStart' <=> NoStart) /\ (Queued' <=> Queued)
  BY <1>0, SameQueue
<1>same. ASSUME UNCHANGED app, pleft' \in {pleft, -1}, pc'["loop"] = pc["loop"]
         PROVE  /\ Away' /\ Runs' /\ Armed' /\ Arming' /\ (Settled => Settled')
                /\ Starting => Starting'
  <2>1. (Settled => Settled') /\ (Starting => Starting') /\ (StartQueued => StartQueued')
    BY <1>0, <1>1, <1>same DEF Settled, Starting, StartQueued, Busy
  <2>2. Away' /\ Runs' /\ Arming'
    BY <1>spare, <1>0, <1>1, <1>same, <2>1 DEF Away, Runs, Arming, Busy
  <2>3. Armed'
    BY <1>spare, <1>same, <2>1 DEF Armed
  <2>4. QED  BY <2>1, <2>2, <2>3
<1>2. CASE PatchFire
  <2>1. /\ pleft = 0 /\ pleft' = -1 /\ pc["pcb"] = "idle" /\ pc'["pcb"] = "write"
        /\ pc'["cb"] = pc["cb"] /\ pc'["loop"] = pc["loop"]
        /\ UNCHANGED <<app, age>>
    BY <1>2, <1>moves DEF PatchFire, appVars, Label
  <2>2. app = "run" /\ Settled
    <3>1. app = "run"
      BY <1>spare, <2>1 DEF Away
    <3>2. QED  BY <1>spare, <2>1, <3>1 DEF Armed
  <2>3. Restart'
    BY <1>same, <2>1, <2>2 DEF Restart
  <2>4. Spare'
    BY <1>spare, <1>0, <2>1 DEF Spare
  <2>5. daemon /\ daemon' = daemon
    BY <1>2, <1>spare, <2>1 DEF Ran, PatchFire, appVars
  <2>6. QED  BY <1>same, <2>1, <2>3, <2>4, <2>5 DEF Faultless, Ran
<1>3. CASE PatchWrite \/ PatchKillDaemon \/ PatchRunDaemon \/ PatchSetNil
  <2>1. /\ pc'["cb"] = pc["cb"] /\ pc'["loop"] = pc["loop"]
        /\ UNCHANGED <<app, age, pleft>>
        /\ pc'["pcb"] \in {"write", "killdaemon", "killapp"}
             => pc["pcb"] \in {"write", "killdaemon", "killapp"}
    <3>1. PICK l \in {"killdaemon", "killapp", "setnil", "idle"} :
            Goto("pcb", l)
            /\ (l \in {"killdaemon", "killapp"} => pc["pcb"] \in {"write", "killdaemon"})
      BY <1>3 DEF PatchWrite, PatchKillDaemon, PatchRunDaemon, PatchSetNil, PatchStep
    <3>2. pc'["pcb"] = l /\ pc'["cb"] = pc["cb"] /\ pc'["loop"] = pc["loop"]
      BY <3>1, <1>moves DEF Label
    <3>3. UNCHANGED <<app, age, pleft>>
      BY <1>3 DEF PatchWrite, PatchKillDaemon, PatchRunDaemon, PatchSetNil, PatchStep
    <3>4. QED  BY <3>1, <3>2, <3>3
  <2>2. Restart'
    BY <1>spare, <1>same, <2>1 DEF Restart
  <2>3. Spare'
    BY <1>spare, <1>0, <2>1 DEF Spare
  <2>4. Ran'
    <3>1. CASE PatchWrite
      BY <3>1, <1>spare, <1>moves DEF PatchWrite, PatchStep, Ran, Label
    <3>2. CASE PatchKillDaemon
      BY <3>2, <1>moves DEF PatchKillDaemon, PatchStep, Ran, Label
    <3>3. CASE PatchRunDaemon
      BY <3>3 DEF PatchRunDaemon, Ran
    <3>4. CASE PatchSetNil
      BY <3>4, <1>spare, <1>moves DEF PatchSetNil, PatchStep, Ran, Label
    <3>5. QED  BY <1>3, <3>1, <3>2, <3>3, <3>4
  <2>5. QED  BY <1>same, <2>1, <2>2, <2>3, <2>4 DEF Faultless
<1>4. CASE PatchKillApp
  <2>1. /\ pc["pcb"] = "killapp" /\ pc'["pcb"] = "rundaemon"
        /\ pc'["cb"] = pc["cb"] /\ pc'["loop"] = pc["loop"]
        /\ app' = "down" /\ age' = 0 /\ pleft' = pleft
    BY <1>4, <1>moves DEF PatchKillApp, PatchStep, killApp, Label
  <2>2. Settled /\ pleft = -1 /\ timer >= Delay - 1
    BY <1>spare, <2>1 DEF Restart, Settled
  <2>3. Spare'
    <3>1. timer' = timer /\ age' = 0 /\ timer \in Int
      BY <1>0, <2>1, <1>types
    <3>2. timer' + age' > Startup
      BY <2>2, <3>1
    <3>3. QED  BY <1>spare, <2>1, <3>2 DEF Spare
  <2>4. Away'
    <3>1. NoStart /\ ~(msg = "start" /\ Busy)
      BY <2>2 DEF Settled, OnlyAdvs, NoStart, Busy
    <3>2. QED  BY <1>0, <1>1, <2>1, <2>2, <3>1 DEF Away, Busy
  <2>5. Runs' /\ Armed' /\ Arming' /\ Restart' /\ Ran'
    BY <1>spare, <2>1, <2>2 DEF Runs, Armed, Arming, Restart, Ran
  <2>6. QED  BY <2>3, <2>4, <2>5 DEF Faultless
<1>5. QED  BY <1>2, <1>3, <1>4 DEF PatchTimer

(* The steps of the world: only a tick takes from the timer, and when the  *)
(* app discovers a tick finds it at Delay.                                 *)
LEMMA FaultlessWorld ==
  ASSUME TypeInv, Faultless, World, faults' = faults, Startup + 1 < Delay
  PROVE  Faultless'
<1> USE Delays
<1>types. /\ MsgType /\ timer \in -1..Longest /\ pleft \in -1..PatchDelay
          /\ age \in 0..Startup /\ faults \in 0..MaxFaults
  BY TypeParts DEF TypeInv, TimeType, AppType, BinType
<1>spare. Spare /\ Away /\ Runs /\ Armed /\ Arming /\ Restart /\ Ran
  BY DEF Faultless
<1>1. CASE AppStart
  <2>1. /\ app = "down" /\ app' = "boot" /\ age = 0 /\ age' = 0
        /\ UNCHANGED <<loopVars, scanning, adv, chipq>>
    BY <1>1, <1>spare DEF AppStart, Spare
  <2>2. daemon /\ (daemon' <=> daemon)
    BY <1>1 DEF AppStart
  <2>3. (OnlyAdvs' <=> OnlyAdvs) /\ (NoStart' <=> NoStart) /\ (Queued' <=> Queued)
    BY <2>1, SameQueue
  <2>4. Spare'
    BY <1>spare, <2>1 DEF Spare, loopVars
  <2>5. Away' /\ Runs' /\ Arming'
    BY <1>spare, <2>1, <2>3 DEF Away, Runs, Arming, Busy, loopVars
  <2>6. Armed' /\ Restart'
    BY <1>spare, <2>1 DEF Armed, Restart, Away, loopVars
  <2>7. QED  BY <2>2, <2>4, <2>5, <2>6 DEF Faultless, Ran
<1>2. CASE AppSetup
  <2>1. PICK m \in {"boot", "addr", "start"} :
          /\ chipq' = Append(chipq, m) /\ app \in {"boot", "init", "setup"}
          /\ app' \in {"init", "setup", "run"}
          /\ IF m = "start" THEN app' = "run" /\ scanning' ELSE app' # "run"
    BY <1>2 DEF AppSetup
  <2>2. UNCHANGED <<loopVars, age>>
    BY <1>2 DEF AppSetup
  <2>3. (m # "start" => (NoStart => NoStart')) /\ (m = "start" => (NoStart => Queued'))
    BY <1>types, <2>1, SendQueue DEF MsgType
  <2>4. pleft = -1 /\ NoStart /\ ~(msg = "start" /\ Busy)
    BY <1>spare, <2>1 DEF Away
  <2>5. Away'
    BY <2>1, <2>2, <2>3, <2>4 DEF Away, Busy, loopVars
  <2>6. Runs'
    <3>1. ASSUME app' = "run" PROVE StartQueued'
      BY <2>1, <2>2, <2>3, <2>4, <3>1 DEF StartQueued, Busy, loopVars
    <3>2. QED  BY <3>1 DEF Runs
  <2>7. Spare' /\ Armed' /\ Arming' /\ Restart'
    BY <1>spare, <2>1, <2>2, <2>4 DEF Spare, Armed, Arming, Restart, loopVars
  <2>8. Ran'
    <3>1. (daemon' <=> daemon) /\ pc' = pc
      BY <1>2 DEF AppSetup, loopVars
    <3>2. QED  BY <1>spare, <3>1 DEF Ran
  <2>9. QED  BY <2>5, <2>6, <2>7, <2>8 DEF Faultless
<1>3. CASE AppFault
  BY <1>3, <1>types DEF AppFault
<1>4. CASE ChipAdv
  <2>1. chipq' = Append(chipq, "adv") /\ UNCHANGED <<loopVars, app, age>>
    BY <1>4 DEF ChipAdv
  <2>2. (scanning' <=> scanning) /\ (daemon' <=> daemon)
    BY <1>4 DEF ChipAdv
  <2>3. /\ chipq' # <<>> /\ (OnlyAdvs => OnlyAdvs') /\ (NoStart => NoStart')
        /\ (Queued => Queued')
    BY <1>types, <2>1, SendQueue DEF MsgType
  <2>4. (Settled => Settled') /\ (Starting => Starting') /\ (StartQueued => StartQueued')
    BY <2>1, <2>2, <2>3 DEF Settled, Starting, StartQueued, Busy, loopVars
  <2>5. Away' /\ Runs' /\ Armed' /\ Arming' /\ Restart'
    BY <1>spare, <2>1, <2>3, <2>4 DEF Away, Runs, Armed, Arming, Restart, Busy, loopVars
  <2>6. Spare' /\ Ran'
    BY <1>spare, <2>1, <2>2 DEF Spare, Ran, loopVars
  <2>7. QED  BY <2>5, <2>6 DEF Faultless
<1>5. CASE Tick
  <2>1. /\ pc["loop"] = "idle" /\ pc["pcb"] = "idle" /\ chipq = <<>>
        /\ timer # 0 /\ pleft # 0
        /\ timer' = Down(timer) /\ pleft' = Down(pleft)
        /\ age' = (IF app \in {"boot", "init", "setup"} THEN age + 1 ELSE age)
        /\ UNCHANGED <<state, pc, msg, app, chipq>>
    BY <1>5 DEF Tick, Actors
  <2>2. ~adv' /\ (scanning => adv) /\ (daemon' <=> daemon) /\ (scanning' <=> scanning)
    BY <1>5 DEF Tick
  <2>3. app # "down"
    BY <1>5, <1>spare, <2>1 DEF Tick, Ran
  <2>4. ~Starting /\ ~StartQueued
    BY <2>1 DEF Starting, StartQueued, Busy, Queued
  <2>5. Settled => Settled' /\ timer = Delay /\ timer' = Delay - 1
    <3>1. ASSUME Settled PROVE timer = Delay /\ timer' = Delay - 1
      <4>1. timer = Delay
        BY <2>1, <2>2, <3>1 DEF Settled
      <4>2. QED  BY <2>1, <4>1 DEF Down
    <3>2. OnlyAdvs => OnlyAdvs'
      BY <2>1, SameQueue
    <3>3. QED  BY <2>1, <2>2, <3>1, <3>2 DEF Settled
  <2>6. Spare'
    <3>1. timer' + age' > Startup
      <4>1. CASE app = "run"
        <5>1. timer' = Delay - 1 /\ age' = age
          BY <1>spare, <2>1, <2>4, <2>5, <4>1 DEF Runs
        <5>2. QED  BY <1>types, <5>1
      <4>2. CASE app \in {"boot", "init", "setup"}
        <5>1. age' = age + 1 /\ timer + age > Startup
          BY <1>spare, <2>1, <4>2 DEF Spare
        <5>2. timer' = timer - 1
          BY <1>types, <2>1, <5>1 DEF Down
        <5>3. QED  BY <1>types, <5>1, <5>2
      <4>3. QED
        BY <1>spare, <2>3, <4>1, <4>2, TypeParts DEF TypeInv, AppType, Spare
    <3>2. QED  BY <1>spare, <2>1, <2>3, <3>1 DEF Spare
  <2>7. Away'
    <3>1. NoStart'
      BY <2>1 DEF NoStart
    <3>2. pleft = -1 => pleft' = -1
      BY <2>1 DEF Down
    <3>3. QED  BY <1>spare, <2>1, <3>1, <3>2 DEF Away, Busy
  <2>8. Runs' /\ Arming' /\ Restart'
    BY <1>spare, <2>1, <2>4, <2>5 DEF Runs, Arming, Restart
  <2>9. Armed'
    <3>1. pleft' >= 0 => pleft >= 0
      BY <1>types, <2>1 DEF Down
    <3>2. QED  BY <1>spare, <2>4, <2>5, <3>1 DEF Armed
  <2>10. Ran'
    BY <1>spare, <2>1, <2>2 DEF Ran
  <2>11. QED  BY <2>6, <2>7, <2>8, <2>9, <2>10 DEF Faultless
<1>6. QED  BY <1>1, <1>2, <1>3, <1>4, <1>5 DEF World

LEMMA KillInit == Init => KillInv
<1> SUFFICES ASSUME Init PROVE Faultless
  BY DEF KillInv
<1>1. /\ pc["loop"] = "gwcheck" /\ pc["cb"] = "idle" /\ pc["pcb"] = "idle" /\ msg = "init"
      /\ timer = InitDelay /\ pleft = -1 /\ age = 0 /\ app = "down" /\ chipq = <<>>
  BY DEF Init
<1>2. daemon
  BY DEF Init
<1>3. timer + age > Startup
  BY <1>1, Delays
<1>4. Away
  BY <1>1 DEF Away, NoStart
<1>5. Spare /\ Runs /\ Armed /\ Arming /\ Restart /\ Ran
  BY <1>1, <1>2, <1>3 DEF Spare, Runs, Armed, Arming, Restart, Ran
<1>6. QED  BY <1>4, <1>5 DEF Faultless

LEMMA KillStep ==
  ASSUME Startup + 1 < Delay, TypeInv, KillInv, [Next]_vars PROVE KillInv'
<1>faults. faults \in Nat
  BY TypeParts, Delays DEF TypeInv, AppType
<1>1. CASE World
  <2>1. faults' \in {faults, faults + 1}
    BY <1>1 DEF World, AppStart, AppSetup, AppFault, ChipAdv, Tick
  <2>2. faults' = 0 => faults' = faults /\ faults = 0
    BY <1>faults, <2>1
  <2>3. QED  BY <1>1, <2>2, FaultlessWorld DEF KillInv
<1>2. CASE Loop
  <2>1. faults' = faults
    BY <1>2 DEF Loop, LoopRead, LoopState, LoopTouch, PatchTimerStart, PatchTimerCheck,
         PatchTimerSet, PatchTimerReset, PatchTimerStop, UpdateState, UpdateCheck,
         UpdateSet, UpdateMarshal, UpdateSend, appVars
  <2>2. QED  BY <1>2, <2>1, FaultlessLoop DEF KillInv
<1>3. CASE PatchTimer
  <2>1. faults' = faults
    BY <1>3 DEF PatchTimer, PatchFire, PatchStep, PatchWrite, PatchKillDaemon,
         PatchKillApp, PatchRunDaemon, PatchSetNil, appVars
  <2>2. QED  BY <1>3, <2>1, FaultlessPatch DEF KillInv
<1>4. CASE DiscoveryTimer  \* it does not run while nothing has gone wrong
  <2>1. faults' = faults
    BY <1>4 DEF DiscoveryTimer, UpdateState, UpdateCheck, UpdateSet, UpdateMarshal,
         UpdateSend, TimerFire, TimerNone, TimerKill, TimerReset, appVars
  <2>2. ASSUME Faultless PROVE FALSE
    <3>1. pc["cb"] = "idle" /\ timer + age > Startup
      BY <2>2 DEF Faultless, Spare
    <3>2. timer = 0
      BY <1>4, <3>1 DEF DiscoveryTimer, UpdateState, UpdateCheck, UpdateSet,
           UpdateMarshal, UpdateSend, TimerFire, TimerNone, TimerKill, TimerReset
    <3>3. age \in 0..Startup
      BY TypeParts DEF TypeInv, AppType
    <3>4. QED  BY <3>1, <3>2, <3>3, Delays
  <2>3. QED  BY <2>1, <2>2 DEF KillInv
<1>5. CASE UNCHANGED vars
  <2>1. /\ UNCHANGED <<pc, state, msg, timer, pleft, app, age, chipq, faults>>
        /\ (scanning' <=> scanning) /\ (adv' <=> adv) /\ (daemon' <=> daemon)
    BY <1>5 DEF vars, loopVars, appVars
  <2>2. (OnlyAdvs' <=> OnlyAdvs) /\ (NoStart' <=> NoStart) /\ (Queued' <=> Queued)
    BY <2>1, SameQueue
  <2>3. (Settled' <=> Settled) /\ (Starting' <=> Starting) /\ (StartQueued' <=> StartQueued)
    BY <2>1, <2>2 DEF Settled, Starting, StartQueued, Busy
  <2>4. QED
    BY <2>1, <2>2, <2>3 DEF KillInv, Faultless, Spare, Away, Runs, Armed, Arming, Restart,
         Ran, Busy
<1>6. QED  BY <1>1, <1>2, <1>3, <1>4, <1>5 DEF Next

(* btchip_reader.go:50, "we wait a minute for the start of discovery mode. *)
(* After that any data from the chip updates the timer": as long as the    *)
(* app neither hangs nor dies by itself, it is never killed for staying    *)
(* away, whenever the patch restarts it, if discoveryDelay exceeds what    *)
(* the app takes to start and the time since the last advertisement.       *)
THEOREM NoSpuriousKillCorrect ==
  ASSUME Startup + 1 < Delay PROVE Spec => []NoSpuriousKill
<1>1. TypeInv /\ KillInv => NoSpuriousKill
  <2> SUFFICES ASSUME TypeInv, KillInv, pc["cb"] = "kill" PROVE faults > 0
    BY DEF NoSpuriousKill
  <2>1. faults # 0
    BY DEF KillInv, Faultless, Spare
  <2>2. QED  BY <2>1, TypeParts, Delays DEF TypeInv, AppType
<1>2. TypeInv /\ KillInv /\ [Next]_vars => KillInv'
  BY KillStep
<1>3. QED  BY <1>1, <1>2, TypeInvInit, TypeInvStep, KillInit, PTL DEF Spec
=============================================================================
