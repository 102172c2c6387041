------------------------------ MODULE Startup ------------------------------
(***************************************************************************)
(* gw3 takes its place on the gateway.  main stops the daemon and the      *)
(* Bluetooth program, takes the virtual and the chip's serial line, makes  *)
(* mosquitto public, patches the daemon's script, so that the program will *)
(* use the virtual line, and runs it; miioReader does the like with        *)
(* miio_agent and its socket.  The daemon starts what does not run.        *)
(*                                                                         *)
(* A process killed is gone at once, but for an earlier instance of gw3,   *)
(* which may take some time.  Patched files are in /tmp and outlive gw3.   *)
(* The later patch of the Bluetooth program is in module Watchdog.         *)
(***************************************************************************)
EXTENDS Naturals

CONSTANTS
  MaxStays,  \* bound: attempts to open the line an earlier instance outlives
  MaxCrashes \* bound: gw3 stops at any moment and is started again

ASSUME StartupAssumption == MaxStays \in Nat /\ MaxCrashes \in Nat

VARIABLES
  pc,        \* where main is; "off": gw3 does not run
  mpc,       \* where miioReader is
  tries,     \* i in btappInit
  old,       \* attempts the earlier instance of gw3 will still outlive
  daemon,    \* daemon_miio.sh: "orig", "patched" or "none"
  app,       \* silabs_ncp_bt: on the "chip", on the "proxy" or "none"
  agent,     \* miio_agent: on the "orig" socket, on the "true" one or "none"
  files,     \* the patched files in /tmp
  mosquitto, \* "private" or "public"
  zigbee,    \* TRUE: zigbee_gw has been restarted since mosquitto was
  crashes

vars == <<pc, mpc, tries, old, daemon, app, agent, files, mosquitto, zigbee, crashes>>

File == {"daemon_miio.sh", "miio_agent"}

Init ==
  /\ pc = "killDaemon" /\ mpc = "off" /\ tries = 1
  /\ old \in 0..MaxStays
  /\ daemon = "orig" /\ app \in {"chip", "none"} /\ agent \in {"orig", "none"}
  /\ files = [f \in File |-> "none"]
  /\ mosquitto \in {"private", "public"} /\ zigbee = TRUE
  /\ crashes = 0

-----------------------------------------------------------------------------
(***************************************************************************)
(* main.                                                                   *)
(***************************************************************************)
shellKillall_AppFirst ==  \* slip: the daemon is left for later
  /\ pc = "killDaemon"
  /\ app' = "none" /\ pc' = "killApp"
  /\ UNCHANGED <<mpc, tries, old, daemon, agent, files, mosquitto, zigbee, crashes>>

KillDaemon ==
  /\ pc = "killDaemon"
  /\ daemon' = "none" /\ pc' = "killApp"
  /\ UNCHANGED <<mpc, tries, old, app, agent, files, mosquitto, zigbee, crashes>>

KillApp ==
  /\ pc = "killApp"
  /\ app' = "none" /\ pc' = "openPty"
  /\ UNCHANGED <<mpc, tries, old, daemon, agent, files, mosquitto, zigbee, crashes>>

LastTry_Early == 3  \* slip: one attempt too few
LastTry_Late  == 5  \* slip: one too many

LastTry == 4

(* btappInit: shellFreeTTY kills who holds the line; the fourth failure is *)
(* a panic.                                                                *)
btappInit ==
  /\ pc = "openPty"
  /\ \/ old = 0 /\ pc' = "openChip" /\ UNCHANGED <<tries, old>>
     \/ old > 0 /\ tries = LastTry /\ pc' = "dead" /\ UNCHANGED <<tries, old>>
     \/ /\ old > 0 /\ tries < LastTry
        /\ tries' = tries + 1 /\ old' = old - 1
        /\ UNCHANGED pc
  /\ UNCHANGED <<mpc, daemon, app, agent, files, mosquitto, zigbee, crashes>>

btchipInit ==
  /\ pc = "openChip"
  /\ pc' = "mosquitto"
  /\ UNCHANGED <<mpc, tries, old, daemon, app, agent, files, mosquitto, zigbee, crashes>>

shellRunMosquitto ==
  /\ pc = "mosquitto"
  /\ IF mosquitto = "public"
       THEN pc' = "patch" /\ UNCHANGED <<mosquitto, zigbee>>
       ELSE pc' = "zigbee" /\ mosquitto' = "public" /\ zigbee' = FALSE
  /\ UNCHANGED <<mpc, tries, old, daemon, app, agent, files, crashes>>

KillZigbee ==
  /\ pc = "zigbee"
  /\ zigbee' = TRUE /\ pc' = "patch"
  /\ UNCHANGED <<mpc, tries, old, daemon, app, agent, files, mosquitto, crashes>>

(* shellPatchApp: what is there already is left; WriteFile truncates the   *)
(* file, then writes it.                                                   *)
Truncate(f) == files' = [files EXCEPT ![f] = "torn"]
WriteOut(f) == files' = [files EXCEPT ![f] = "whole"]

PatchDaemon ==
  /\ IF files["daemon_miio.sh"] = "none"
       THEN \/ pc = "patch" /\ Truncate("daemon_miio.sh") /\ pc' = "write"
       ELSE \/ pc = "patch" /\ pc' = "run" /\ UNCHANGED files
            \/ pc = "write" /\ pc' = "run" /\ WriteOut("daemon_miio.sh")
  /\ UNCHANGED <<mpc, tries, old, daemon, app, agent, mosquitto, zigbee, crashes>>

shellRunDaemon ==
  /\ pc = "run"
  /\ daemon' = IF files["daemon_miio.sh"] = "whole" THEN "patched" ELSE "none"
  /\ pc' = "up" /\ mpc' = "patch"
  /\ UNCHANGED <<tries, old, app, agent, files, mosquitto, zigbee, crashes>>

main ==
  \/ KillDaemon \/ KillApp \/ btappInit \/ btchipInit
  \/ shellRunMosquitto \/ KillZigbee \/ PatchDaemon \/ shellRunDaemon

-----------------------------------------------------------------------------
(***************************************************************************)
(* miioReader, up to its first Accept.                                     *)
(***************************************************************************)
PatchAgent ==
  /\ IF files["miio_agent"] = "none"
       THEN \/ mpc = "patch" /\ Truncate("miio_agent") /\ mpc' = "write"
       ELSE \/ mpc = "patch" /\ mpc' = "kill" /\ UNCHANGED files
            \/ mpc = "write" /\ mpc' = "kill" /\ WriteOut("miio_agent")
  /\ UNCHANGED <<pc, tries, old, daemon, app, agent, mosquitto, zigbee, crashes>>

KillAgent_None ==  \* slip: an agent that runs is left alone
  /\ mpc = "kill" /\ mpc' = "listen"
  /\ UNCHANGED <<pc, tries, old, daemon, app, agent, files, mosquitto, zigbee, crashes>>

KillAgent ==
  /\ mpc = "kill" /\ mpc' = "listen"
  /\ agent' = "none"
  /\ UNCHANGED <<pc, tries, old, daemon, app, files, mosquitto, zigbee, crashes>>

Listen ==
  /\ mpc = "listen" /\ mpc' = "serve"
  /\ UNCHANGED <<pc, tries, old, daemon, app, agent, files, mosquitto, zigbee, crashes>>

miioReader == PatchAgent \/ KillAgent \/ Listen

-----------------------------------------------------------------------------
(***************************************************************************)
(* The daemon starts what it finds missing.  The patched script names no   *)
(* path, and so it finds the files in /tmp first.                          *)
(***************************************************************************)
StartApp ==
  /\ daemon # "none" /\ app = "none"
  /\ app' = IF daemon = "patched" THEN "proxy" ELSE "chip"
  /\ UNCHANGED <<pc, mpc, tries, old, daemon, agent, files, mosquitto, zigbee, crashes>>

StartAgent ==
  /\ daemon # "none" /\ agent = "none"
  /\ \/ (daemon = "orig" \/ files["miio_agent"] = "none") /\ agent' = "orig"
     \/ daemon = "patched" /\ files["miio_agent"] = "whole" /\ agent' = "true"
  /\ UNCHANGED <<pc, mpc, tries, old, daemon, app, files, mosquitto, zigbee, crashes>>

Crash ==
  /\ pc \notin {"off", "dead"} /\ crashes < MaxCrashes
  /\ crashes' = crashes + 1
  /\ pc' = "off" /\ mpc' = "off"
  /\ UNCHANGED <<tries, old, daemon, app, agent, files, mosquitto, zigbee>>

Start ==
  /\ pc = "off" /\ pc' = "killDaemon" /\ tries' = 1
  /\ UNCHANGED <<mpc, old, daemon, app, agent, files, mosquitto, zigbee, crashes>>

Next == main \/ miioReader \/ StartApp \/ StartAgent \/ Crash \/ Start

Spec == Init /\ [][Next]_vars

(* gw3 and the daemon run; gw3 is started again when it has stopped.       *)
FairSpec ==
  /\ Spec /\ WF_vars(main) /\ WF_vars(miioReader)
  /\ WF_vars(StartApp) /\ WF_vars(StartAgent) /\ WF_vars(Start)

-----------------------------------------------------------------------------
TypeOK ==
  /\ pc \in {"off", "killDaemon", "killApp", "openPty", "openChip", "mosquitto",
             "zigbee", "patch", "write", "run", "up", "dead"}
  /\ mpc \in {"off", "patch", "write", "kill", "listen", "serve"}
  /\ tries \in 1..4 /\ old \in 0..MaxStays
  /\ daemon \in {"orig", "patched", "none"} /\ app \in {"chip", "proxy", "none"}
  /\ agent \in {"orig", "true", "none"} /\ files \in [File -> {"none", "torn", "whole"}]
  /\ mosquitto \in {"private", "public"} /\ zigbee \in BOOLEAN
  /\ crashes \in 0..MaxCrashes

(* gw3.go:33, "kill daemon_miio.sh before kill silabs_ncp_bt": from the    *)
(* moment gw3 has the chip's line neither the Bluetooth program nor an     *)
(* earlier gw3 reads from it, also while gw3 is stopped and started again. *)
ChipExclusive ==
  pc \in {"mosquitto", "zigbee", "patch", "write", "run", "up"} => app # "chip" /\ old = 0

(* miio_reader.go:14, "it is better to kill the miio_agent anyway": once   *)
(* gw3 listens on the agent's socket no agent uses it, and none will.      *)
AgentApart == mpc = "serve" => agent # "orig"

(* gw3.go:28-58, README.md:8, "all default gateway functionality continues *)
(* to work as usual": in the end gw3 is between the programs it stands     *)
(* between, and they run, unless an earlier gw3 holds the line for four    *)
(* attempts, or gw3 was stopped while it wrote a patched file, which it    *)
(* never writes again.                                                     *)
Between  == pc = "up" /\ mpc = "serve" /\ app = "proxy" /\ agent = "true"
Outlived == pc = "dead" /\ tries = 4 /\ old > 0
LeftTorn == /\ pc # "write" /\ mpc # "write"
            /\ \E f \in File : files[f] = "torn"
ComesUp  == <>[](Between \/ Outlived \/ LeftTorn)

=============================================================================
