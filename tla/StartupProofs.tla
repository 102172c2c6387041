--------------------------- MODULE StartupProofs ---------------------------
(***************************************************************************)
(* Theorems about Startup, for any delay of an earlier gw3 and any number  *)
(* of crashes.                                                             *)
(***************************************************************************)
EXTENDS Startup, TLAPS

LEMMA TypeInit == Init => TypeOK
BY StartupAssumption DEF Init, TypeOK, File

LEMMA TypeStep == TypeOK /\ [Next]_vars => TypeOK'
<1> SUFFICES ASSUME TypeOK, [Next]_vars PROVE TypeOK'
  OBVIOUS
<1> USE StartupAssumption DEF TypeOK
<1>files. ASSUME NEW f \in File, NEW s \in {"none", "torn", "whole"},
                 files' = [files EXCEPT ![f] = s]
          PROVE  files' \in [File -> {"none", "torn", "whole"}]
  BY <1>files
<1>1. CASE KillDaemon
  BY <1>1 DEF KillDaemon
<1>2. CASE KillApp
  BY <1>2 DEF KillApp
<1>3. CASE btappInit
  <2>1. CASE tries' = tries + 1 /\ old' = old - 1 /\ tries < LastTry /\ old > 0
    <3>1. tries' \in 1..4 /\ old' \in 0..MaxStays
      BY <2>1 DEF LastTry
    <3>2. QED  BY <1>3, <2>1, <3>1 DEF btappInit
  <2>2. CASE UNCHANGED <<tries, old>>
    BY <1>3, <2>2 DEF btappInit
  <2>3. QED  BY <1>3, <2>1, <2>2 DEF btappInit
<1>4. CASE btchipInit
  BY <1>4 DEF btchipInit
<1>5. CASE shellRunMosquitto
  BY <1>5 DEF shellRunMosquitto
<1>6. CASE KillZigbee
  BY <1>6 DEF KillZigbee
<1>7. CASE PatchDaemon
  <2>1. files' \in [File -> {"none", "torn", "whole"}]
    BY <1>7, <1>files DEF PatchDaemon, Truncate, WriteOut, File
  <2>2. QED  BY <1>7, <2>1 DEF PatchDaemon
<1>8. CASE shellRunDaemon
  BY <1>8 DEF shellRunDaemon
<1>9. CASE PatchAgent
  <2>1. files' \in [File -> {"none", "torn", "whole"}]
    BY <1>9, <1>files DEF PatchAgent, Truncate, WriteOut, File
  <2>2. QED  BY <1>9, <2>1 DEF PatchAgent
<1>10. CASE KillAgent
  BY <1>10 DEF KillAgent
<1>11. CASE Listen
  BY <1>11 DEF Listen
<1>12. CASE StartApp
  BY <1>12 DEF StartApp
<1>13. CASE StartAgent
  BY <1>13 DEF StartAgent
<1>14. CASE Crash
  <2>1. crashes' \in 0..MaxCrashes
    BY <1>14 DEF Crash
  <2>2. QED  BY <1>14, <2>1 DEF Crash
<1>15. CASE Start
  BY <1>15 DEF Start
<1>16. CASE UNCHANGED vars
  BY <1>16 DEF vars
<1>17. QED
  BY <1>1, <1>2, <1>3, <1>4, <1>5, <1>6, <1>7, <1>8, <1>9, <1>10, <1>11, <1>12,
     <1>13, <1>14, <1>15, <1>16 DEF Next, main, miioReader

(* Every state of the start is well typed.                                 *)
THEOREM TypeCorrect == Spec => []TypeOK
<1>1. QED  BY TypeInit, TypeStep, PTL DEF Spec

-----------------------------------------------------------------------------
(***************************************************************************)
(* The chip's line.  Nothing starts the Bluetooth program while no daemon  *)
(* runs, and main runs a daemon at its very end only: that is why the      *)
(* order of the two kills matters.                                         *)
(***************************************************************************)
Kills     == {"killApp", "openPty", "openChip", "mosquitto", "zigbee", "patch",
              "write", "run"}
HasNoApp  == Kills \ {"killApp"}
HasChip   == (HasNoApp \ {"openPty"}) \cup {"up"}

NoDaemon  == pc \in Kills => daemon = "none"
NoApp     == pc \in HasNoApp => app = "none"
Patched   == pc = "up" => daemon # "orig" /\ app # "chip"
OldGone   == pc \in HasChip => old = 0

ChipInv == NoDaemon /\ NoApp /\ Patched /\ OldGone

LEMMA ChipInit == Init => ChipInv
BY DEF Init, ChipInv, NoDaemon, NoApp, Patched, OldGone, Kills, HasNoApp, HasChip

LEMMA ChipStep == TypeOK /\ ChipInv /\ [Next]_vars => ChipInv'
<1> SUFFICES ASSUME TypeOK, ChipInv, [Next]_vars PROVE ChipInv'
  OBVIOUS
<1> USE DEF ChipInv, NoDaemon, NoApp, Patched, OldGone, Kills, HasNoApp, HasChip
<1>1. CASE KillDaemon
  BY <1>1 DEF KillDaemon
<1>2. CASE KillApp
  BY <1>2 DEF KillApp
<1>3. CASE btappInit
  BY <1>3 DEF btappInit
<1>4. CASE btchipInit
  BY <1>4 DEF btchipInit
<1>5. CASE shellRunMosquitto
  BY <1>5 DEF shellRunMosquitto
<1>6. CASE KillZigbee
  BY <1>6 DEF KillZigbee
<1>7. CASE PatchDaemon
  BY <1>7 DEF PatchDaemon
<1>8. CASE shellRunDaemon
  BY <1>8 DEF shellRunDaemon
<1>9. CASE miioReader
  BY <1>9 DEF miioReader, PatchAgent, KillAgent, Listen
<1>10. CASE StartApp
  BY <1>10 DEF StartApp, TypeOK
<1>11. CASE StartAgent
  BY <1>11 DEF StartAgent
<1>12. CASE Crash
  BY <1>12 DEF Crash
<1>13. CASE Start
  BY <1>13 DEF Start
<1>14. CASE UNCHANGED vars
  BY <1>14 DEF vars
<1>15. QED
  BY <1>1, <1>2, <1>3, <1>4, <1>5, <1>6, <1>7, <1>8, <1>9, <1>10, <1>11, <1>12,
     <1>13, <1>14 DEF Next, main

(* gw3.go:33, "kill daemon_miio.sh before kill silabs_ncp_bt": whatever    *)
(* the daemon starts meanwhile, and however often gw3 is stopped and run   *)
(* again, neither the Bluetooth program nor an earlier gw3 reads from the  *)
(* chip once gw3 has its line.                                             *)
THEOREM ChipExclusiveCorrect == Spec => []ChipExclusive
<1>1. ChipInv => ChipExclusive
  BY DEF ChipInv, NoApp, Patched, OldGone, HasNoApp, HasChip, Kills, ChipExclusive
<1>2. QED
  BY <1>1, TypeInit, TypeStep, ChipInit, ChipStep, PTL DEF Spec

-----------------------------------------------------------------------------
(***************************************************************************)
(* The agent's socket.  miioReader runs beside a patched daemon, and it    *)
(* kills the agent when the patched agent is in /tmp already.              *)
(***************************************************************************)
Beside    == mpc # "off" => pc = "up"
InTmp     == mpc \in {"kill", "listen", "serve"} => files["miio_agent"] # "none"
Apart     == mpc \in {"listen", "serve"} => agent # "orig"

AgentInv == Beside /\ InTmp /\ Apart

LEMMA AgentInit == Init => AgentInv
BY DEF Init, AgentInv, Beside, InTmp, Apart

LEMMA AgentStep == TypeOK /\ ChipInv /\ AgentInv /\ [Next]_vars => AgentInv'
<1> SUFFICES ASSUME TypeOK, ChipInv, AgentInv, [Next]_vars PROVE AgentInv'
  OBVIOUS
<1> USE DEF AgentInv, Beside, InTmp, Apart
<1>1. CASE main
  <2>1. mpc = "off" /\ mpc' \in {"off", "patch"}
    BY <1>1 DEF main, KillDaemon, KillApp, btappInit, btchipInit, shellRunMosquitto,
                KillZigbee, PatchDaemon, shellRunDaemon
  <2>2. CASE shellRunDaemon
    BY <2>1, <2>2 DEF shellRunDaemon
  <2>3. CASE ~shellRunDaemon
    BY <1>1, <2>1, <2>3 DEF main, KillDaemon, KillApp, btappInit, btchipInit,
                            shellRunMosquitto, KillZigbee, PatchDaemon
  <2>4. QED  BY <2>2, <2>3
<1>2. CASE PatchAgent
  BY <1>2 DEF PatchAgent, Truncate, WriteOut, TypeOK, File
<1>3. CASE KillAgent
  BY <1>3 DEF KillAgent
<1>4. CASE Listen
  BY <1>4 DEF Listen
<1>5. CASE StartApp
  BY <1>5 DEF StartApp
<1>6. CASE StartAgent
  <2>1. CASE mpc \in {"listen", "serve"}
    <3>1. daemon = "patched" /\ agent' = "true"
      BY <1>6, <2>1 DEF StartAgent, ChipInv, Patched, TypeOK
    <3>2. QED  BY <1>6, <3>1 DEF StartAgent
  <2>2. CASE mpc \notin {"listen", "serve"}
    BY <1>6, <2>2 DEF StartAgent
  <2>3. QED  BY <2>1, <2>2
<1>7. CASE Crash
  BY <1>7 DEF Crash
<1>8. CASE Start
  BY <1>8 DEF Start
<1>9. CASE UNCHANGED vars
  BY <1>9 DEF vars
<1>10. QED
  BY <1>1, <1>2, <1>3, <1>4, <1>5, <1>6, <1>7, <1>8, <1>9 DEF Next, miioReader

(* miio_reader.go:14, "it is better to kill the miio_agent anyway": no     *)
(* agent uses the socket gw3 listens on, and none that the daemon starts   *)
(* later will, also when gw3 stopped while it wrote the patched agent.     *)
THEOREM AgentApartCorrect == Spec => []AgentApart
<1>1. AgentInv => AgentApart
  BY DEF AgentInv, Apart, AgentApart
<1>2. QED
  BY <1>1, TypeInit, TypeStep, ChipInit, ChipStep, AgentInit, AgentStep, PTL DEF Spec
=============================================================================
