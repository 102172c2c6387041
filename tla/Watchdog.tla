----------------------------- MODULE Watchdog -----------------------------
(***************************************************************************)
(* How gw3 keeps the stock program silabs_ncp_bt ("the app") discovering:  *)
(* btchipReader follows the discovery state from the chip's messages, the  *)
(* timer discoveryTimer kills an app that stays away from discovery, the   *)
(* patch timer restarts it once from a patched copy, and the gateway state *)
(* is published.  The timer callbacks run in goroutines of their own and   *)
(* share `state`, the gateway's state map and shellPatchTimer with         *)
(* btchipReader.                                                           *)
(*                                                                         *)
(* Time is a number of ticks.  Goroutines take no time: a tick passes only *)
(* when each of them is idle.  Inside a tick they interleave freely.       *)
(***************************************************************************)
EXTENDS Integers, Sequences

CONSTANTS
  InitDelay,   \* ticks discoveryTimer gives the first start (a minute)
  Delay,       \* config.discoveryDelay, in ticks
  PatchDelay,  \* config.patchDelay, in ticks; 0 disables the patch
  Startup,     \* bound: ticks the app may take from its start to discovery
  MaxFaults    \* bound: how often the app hangs or dies by itself

ASSUME DelaysAssumption ==
  /\ InitDelay \in Nat \ {0} /\ Delay \in Nat \ {0}
  /\ PatchDelay \in Nat /\ Startup \in Nat /\ MaxFaults \in Nat
  /\ Startup < Delay /\ Startup < InitDelay

VARIABLES
  state,    \* `state` of btchipReader
  gw,       \* gw.state["state"]
  pub,      \* the retained message of the gateway's state topic
  pc,       \* what the goroutines "loop", "cb" (discovery), "pcb" (patch) do
  payload,  \* the state map as "loop" and "cb" have marshalled it
  msg,      \* the message btchipReader is processing
  timer,    \* ticks left on discoveryTimer, -1 when it is not armed
  ptimer,   \* shellPatchTimer: "nil", or "set"
  pleft,    \* ticks left on the patch timer, -1 when it is not armed
  patched,  \* TRUE: /tmp/silabs_ncp_bt exists
  panic,    \* TRUE: a nil timer has been dereferenced
  daemon,   \* TRUE: daemon_miio.sh runs and starts the app
  path,     \* the app the daemon has found on its PATH and starts: "stock",
            \* "patched", or "none" before it has started one
  binary,   \* which of the two the app was started from last
  app,      \* the app: "down", "boot", "init", "setup", "run" or "hung"
  age,      \* ticks since the app was started
  scanning, \* TRUE: the chip is in discovery mode
  adv,      \* TRUE: the chip has sent an advertisement in this tick
  chipq,    \* messages of the chip that btchipReader has not read
  faults    \* hangs and deaths so far

loopVars == <<state, gw, pub, pc, payload, msg, timer, ptimer, pleft, panic>>
binVars  == <<patched, path, binary>>
appVars  == <<daemon, app, age, scanning, adv, chipq, faults, binVars>>
vars     == <<loopVars, appVars>>

Actors == {"loop", "cb", "pcb"}

Init ==
  /\ state = "none" /\ gw = "none" /\ pub = "none"
  /\ pc = [loop |-> "gwcheck", cb |-> "idle", pcb |-> "idle"]
  /\ payload = [loop |-> "none", cb |-> "none"]
  /\ msg = "init" /\ timer = InitDelay
  /\ ptimer = "nil" /\ pleft = -1 /\ patched = FALSE /\ panic = FALSE
  /\ daemon = TRUE /\ app = "down" /\ age = 0 /\ path = "none" /\ binary = "none"
  /\ scanning = FALSE /\ adv = FALSE /\ chipq = <<>> /\ faults = 0

Goto(a, label) == pc' = [pc EXCEPT ![a] = label]

-----------------------------------------------------------------------------
(***************************************************************************)
(* gw.updateState(s), run by actor a: it returns if the state is the same, *)
(* else stores it, marshals the map and hands the message to the broker.   *)
(***************************************************************************)
Target(a) == IF a = "loop" /\ msg = "start" THEN "discovery" ELSE "setup"
After(a)  == IF a = "cb" THEN "kill" ELSE IF msg = "start" THEN "touch" ELSE "idle"

UpdateCheck(a) ==
  /\ pc[a] = "gwcheck"
  /\ Goto(a, IF gw = Target(a) THEN After(a) ELSE "gwset")
  /\ UNCHANGED <<state, gw, pub, payload, msg, timer, ptimer, pleft, panic, appVars>>

UpdateSet(a) ==
  /\ pc[a] = "gwset"
  /\ gw' = Target(a)
  /\ Goto(a, "gwmarshal")
  /\ UNCHANGED <<state, pub, payload, msg, timer, ptimer, pleft, panic, appVars>>

UpdateMarshal(a) ==
  /\ pc[a] = "gwmarshal"
  /\ payload' = [payload EXCEPT ![a] = gw]
  /\ Goto(a, "gwsend")
  /\ UNCHANGED <<state, gw, pub, msg, timer, ptimer, pleft, panic, appVars>>

UpdateSend(a) ==
  /\ pc[a] = "gwsend"
  /\ pub' = payload[a]
  /\ Goto(a, After(a))
  /\ UNCHANGED <<state, gw, payload, msg, timer, ptimer, pleft, panic, appVars>>

UpdateState(a) == UpdateCheck(a) \/ UpdateSet(a) \/ UpdateMarshal(a) \/ UpdateSend(a)

-----------------------------------------------------------------------------
(***************************************************************************)
(* btchipReader: what it does first with a message, and the state that a   *)
(* message brings.                                                         *)
(***************************************************************************)
FirstStep == [start |-> "pstart", boot |-> "pcheck", addr |-> "state", adv |-> "touch"]
StateOn   == [start |-> "discovery", boot |-> "reset", addr |-> "setup"]

LoopRead ==
  /\ pc.loop = "idle" /\ chipq # <<>>
  /\ msg' = Head(chipq) /\ chipq' = Tail(chipq)
  /\ Goto("loop", FirstStep[msg'])
  /\ UNCHANGED <<state, gw, pub, payload, timer, ptimer, pleft, panic,
                 daemon, app, age, scanning, adv, faults, binVars>>

(* shellPatchTimerStart, on the response to a start of discovery: nothing  *)
(* if the patched app exists; else a new timer, or a call through the old. *)
PatchTimerStart ==
  /\ pc.loop = "pstart"
  /\ Goto("loop", IF PatchDelay = 0 \/ patched THEN "state" ELSE "pset")
  /\ UNCHANGED <<state, gw, pub, payload, msg, timer, ptimer, pleft, panic, appVars>>

PatchTimerSet ==
  /\ pc.loop = "pset"
  /\ IF ptimer = "nil"
       THEN ptimer' = "set" /\ pleft' = PatchDelay /\ Goto("loop", "state")
       ELSE Goto("loop", "preset") /\ UNCHANGED <<ptimer, pleft>>
  /\ UNCHANGED <<state, gw, pub, payload, msg, timer, panic, appVars>>

PatchTimerReset ==
  /\ pc.loop = "preset"
  /\ panic' = (ptimer = "nil")
  /\ pleft' = PatchDelay
  /\ Goto("loop", "state")
  /\ UNCHANGED <<state, gw, pub, payload, msg, timer, ptimer, appVars>>

(* shellPatchTimerStop, on a boot event: a test of the pointer, then a     *)
(* call through it.                                                        *)
PatchTimerCheck ==
  /\ pc.loop = "pcheck"
  /\ Goto("loop", IF ptimer = "nil" THEN "state" ELSE "pstop")
  /\ UNCHANGED <<state, gw, pub, payload, msg, timer, ptimer, pleft, panic, appVars>>

PatchTimerStop ==
  /\ pc.loop = "pstop"
  /\ panic' = (ptimer = "nil")
  /\ pleft' = -1
  /\ Goto("loop", "state")
  /\ UNCHANGED <<state, gw, pub, payload, msg, timer, ptimer, appVars>>

LoopState ==
  /\ pc.loop = "state"
  /\ state' = StateOn[msg]
  /\ Goto("loop", IF msg = "addr" THEN "touch" ELSE "gwcheck")
  /\ UNCHANGED <<gw, pub, payload, msg, timer, ptimer, pleft, panic, appVars>>

LoopTouch_Never ==       \* slip: the timer is not restarted
  /\ pc.loop = "touch"
  /\ Goto("loop", "idle")
  /\ UNCHANGED <<state, gw, pub, payload, timer, msg, ptimer, pleft, panic, appVars>>

LoopTouch_Adds ==        \* slip: the delay is added to what is left
  /\ pc.loop = "touch"
  /\ timer' = IF state = "discovery" THEN timer + Delay ELSE timer
  /\ Goto("loop", "idle")
  /\ UNCHANGED <<state, gw, pub, payload, msg, ptimer, pleft, panic, appVars>>

(* In discovery any message restarts discoveryTimer.                       *)
LoopTouch ==
  /\ pc.loop = "touch"
  /\ timer' = IF state = "discovery" THEN Delay ELSE timer
  /\ Goto("loop", "idle")
  /\ UNCHANGED <<state, gw, pub, payload, msg, ptimer, pleft, panic, appVars>>

Loop == \/ LoopRead \/ PatchTimerStart \/ PatchTimerSet \/ PatchTimerReset
        \/ PatchTimerCheck \/ PatchTimerStop \/ LoopState \/ LoopTouch \/ UpdateState("loop")

-----------------------------------------------------------------------------
(***************************************************************************)
(* The callback of discoveryTimer.                                         *)
(***************************************************************************)
TimerFire ==
  /\ timer = 0 /\ pc.cb = "idle"
  /\ timer' = -1
  /\ Goto("cb", "none")
  /\ UNCHANGED <<state, gw, pub, payload, msg, ptimer, pleft, panic, appVars>>

TimerNone ==
  /\ pc.cb = "none"
  /\ state' = "none"
  /\ Goto("cb", "gwcheck")
  /\ UNCHANGED <<gw, pub, payload, msg, timer, ptimer, pleft, panic, appVars>>

killApp == app' = "down" /\ age' = 0

TimerKill ==
  /\ pc.cb = "kill"
  /\ killApp
  /\ Goto("cb", "reset")
  /\ UNCHANGED <<state, gw, pub, payload, msg, timer, ptimer, pleft, panic,
                 daemon, scanning, adv, chipq, faults, binVars>>

TimerReset_None ==       \* slip: the callback does not arm the timer again
  /\ pc.cb = "reset"
  /\ Goto("cb", "idle")
  /\ UNCHANGED <<state, gw, pub, payload, timer, msg, ptimer, pleft, panic, appVars>>

TimerReset ==
  /\ pc.cb = "reset"
  /\ timer' = Delay
  /\ Goto("cb", "idle")
  /\ UNCHANGED <<state, gw, pub, payload, msg, ptimer, pleft, panic, appVars>>

DiscoveryTimer == TimerFire \/ TimerNone \/ UpdateState("cb") \/ TimerKill \/ TimerReset

-----------------------------------------------------------------------------
(***************************************************************************)
(* The callback of the patch timer: write the patched app, kill the daemon *)
(* and the app, run the daemon again, forget the timer.                    *)
(***************************************************************************)
PatchFire ==
  /\ pleft = 0 /\ pc.pcb = "idle"
  /\ pleft' = -1
  /\ Goto("pcb", "write")
  /\ UNCHANGED <<state, gw, pub, payload, msg, timer, ptimer, panic, appVars>>

PatchStep(from, to) ==
  /\ pc.pcb = from
  /\ Goto("pcb", to)
  /\ UNCHANGED <<state, gw, pub, payload, msg, timer, pleft, panic,
                 binary, scanning, adv, chipq, faults>>

PatchWrite      == PatchStep("write", "killdaemon") /\ patched' = TRUE
                     /\ UNCHANGED <<ptimer, daemon, path, app, age>>
PatchKillDaemon == PatchStep("killdaemon", "killapp") /\ daemon' = FALSE
                     /\ UNCHANGED <<ptimer, patched, path, app, age>>
PatchKillApp_None ==     \* slip: the app is not killed with its daemon
  PatchStep("killapp", "rundaemon") /\ UNCHANGED <<ptimer, patched, daemon, path, app, age>>

PatchKillApp    == PatchStep("killapp", "rundaemon") /\ killApp
                     /\ UNCHANGED <<ptimer, patched, daemon, path>>
PatchRunDaemon  == PatchStep("rundaemon", "setnil") /\ daemon' = TRUE /\ path' = "none"
                     /\ UNCHANGED <<ptimer, patched, app, age>>
PatchSetNil     == PatchStep("setnil", "idle") /\ ptimer' = "nil"
                     /\ UNCHANGED <<patched, daemon, path, app, age>>

PatchTimer == \/ PatchFire \/ PatchWrite \/ PatchKillDaemon \/ PatchKillApp
              \/ PatchRunDaemon \/ PatchSetNil

-----------------------------------------------------------------------------
(***************************************************************************)
(* The app, its daemon and the chip, external.  The daemon, a shell        *)
(* script, looks the app up the first time it starts it, and keeps to what *)
(* it found: the copy in /tmp if there is one by then, else the stock one  *)
(* ("we need to restart daemon because new binary in tmp path").  The app  *)
(* reboots the chip, asks for its address and starts discovery.            *)
(***************************************************************************)
Found == IF patched THEN "patched" ELSE "stock"

AppStart ==
  /\ app = "down" /\ daemon
  /\ app' = "boot" /\ age' = 0
  /\ path' = (IF path = "none" THEN Found ELSE path) /\ binary' = path'
  /\ UNCHANGED <<loopVars, daemon, scanning, adv, chipq, faults, patched>>

AppSetup ==
  /\ \/ app = "boot"  /\ app' = "init"  /\ chipq' = Append(chipq, "boot")  /\ scanning' = FALSE
     \/ app = "init"  /\ app' = "setup" /\ chipq' = Append(chipq, "addr")  /\ UNCHANGED scanning
     \/ app = "setup" /\ app' = "run"   /\ chipq' = Append(chipq, "start") /\ scanning' = TRUE
  /\ UNCHANGED <<loopVars, daemon, age, adv, faults, binVars>>

(* The app hangs, and the chip's discovery with it or not, or it dies.     *)
AppFault ==
  /\ app \notin {"down", "hung"} /\ faults < MaxFaults
  /\ faults' = faults + 1
  /\ app' \in {"hung", "down"}
  /\ scanning' \in {scanning, FALSE}
  /\ UNCHANGED <<loopVars, daemon, age, adv, chipq, binVars>>

ChipAdv ==
  /\ scanning /\ ~adv
  /\ adv' = TRUE /\ chipq' = Append(chipq, "adv")
  /\ UNCHANGED <<loopVars, daemon, app, age, scanning, faults, binVars>>

(* A tick, when gw3 and the chip have nothing to do: both timers advance,  *)
(* the app gets older.                                                     *)
Down(t) == IF t > 0 THEN t - 1 ELSE t

Tick ==
  /\ \A a \in Actors : pc[a] = "idle"
  /\ chipq = <<>> /\ timer # 0 /\ pleft # 0
  /\ scanning => adv
  /\ app = "down" => ~daemon
  /\ app \in {"boot", "init", "setup"} => age < Startup
  /\ timer' = Down(timer) /\ pleft' = Down(pleft)
  /\ adv' = FALSE
  /\ age' = IF app \in {"boot", "init", "setup"} THEN age + 1 ELSE age
  /\ UNCHANGED <<state, gw, pub, pc, payload, msg, ptimer, panic,
                 daemon, app, scanning, chipq, faults, binVars>>

World == AppStart \/ AppSetup \/ AppFault \/ ChipAdv \/ Tick

Next == ~panic /\ (Loop \/ DiscoveryTimer \/ PatchTimer \/ World)

Spec == Init /\ [][Next]_vars

(* Goroutines are scheduled, time passes, the daemon starts the app and an *)
(* app that does not hang reaches discovery; faults are never owed.        *)
Fairness ==
  /\ WF_vars(~panic /\ Loop) /\ WF_vars(~panic /\ DiscoveryTimer)
  /\ WF_vars(~panic /\ PatchTimer)
  /\ WF_vars(~panic /\ AppStart) /\ WF_vars(~panic /\ AppSetup)
  /\ WF_vars(~panic /\ ChipAdv) /\ WF_vars(~panic /\ Tick)

FairSpec == Spec /\ Fairness

-----------------------------------------------------------------------------
TypeOK ==
  /\ state \in {"none", "reset", "setup", "discovery"}
  /\ gw \in {"none", "setup", "discovery"} /\ pub \in {"none", "setup", "discovery"}
  /\ pc \in [Actors -> {"idle", "gwcheck", "gwset", "gwmarshal", "gwsend",
                        "pstart", "pset", "preset", "pcheck", "pstop", "state", "touch",
                        "none", "kill", "reset",
                        "write", "killdaemon", "killapp", "rundaemon", "setnil"}]
  /\ payload \in [{"loop", "cb"} -> {"none", "setup", "discovery"}]
  /\ msg \in {"init", "boot", "addr", "start", "adv"}
  /\ timer \in -1..(IF InitDelay > Delay THEN InitDelay ELSE Delay)
  /\ ptimer \in {"nil", "set"} /\ pleft \in -1..PatchDelay
  /\ patched \in BOOLEAN /\ panic \in BOOLEAN /\ daemon \in BOOLEAN
  /\ app \in {"down", "boot", "init", "setup", "run", "hung"}
  /\ path \in {"none", "stock", "patched"} /\ binary \in {"none", "stock", "patched"}
  /\ age \in 0..Startup /\ scanning \in BOOLEAN /\ adv \in BOOLEAN
  /\ chipq \in Seq({"boot", "addr", "start", "adv"}) /\ faults \in 0..MaxFaults

(* btchip_reader.go:50-60: discoveryTimer is armed, or its callback is     *)
(* running and will arm it again, whatever btchipReader does in between.   *)
WatchAlive == timer >= 0 \/ pc.cb # "idle"

(* btchip_reader.go:50, "we wait a minute for the start of discovery mode. *)
(* After that any data from the chip updates the timer": an app that never *)
(* hangs or dies by itself is not killed for staying away, neither while   *)
(* it starts for the first time nor when the patch restarts it, if Delay   *)
(* covers the start and the tick since the chip's last advertisement:      *)
(* Startup + 1 < Delay.                                                    *)
NoSpuriousKill == pc.cb = "kill" => faults > 0

(* shell.go:100-123: whatever goes wrong on the way, the stock app is      *)
(* replaced: in the end the app that runs, or hangs with the chip still in *)
(* discovery, was started from the patched copy; unless gw3 has panicked,  *)
(* because the callback of the patch timer set the pointer to nil between  *)
(* its test and its use in shellPatchTimerStart or shellPatchTimerStop.    *)
Patched ==
  <>[](panic \/ (binary = "patched" /\ (app = "run" \/ (app = "hung" /\ scanning))))

(* However often the app hangs or dies, and whatever the patch does to it  *)
(* meanwhile, discoveryTimer brings it back: in the end the chip discovers *)
(* for good and btchipReader knows it.                                     *)
Discovers == <>[](panic \/ (scanning /\ state = "discovery"))

=============================================================================
