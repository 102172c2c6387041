--------------------------- MODULE GatewayAlarm ---------------------------
(***************************************************************************)
(* The gateway as an MQTT device.  A command (alarm_state over MQTT) goes  *)
(* to the gateway's program through its connection to miio_agent; the      *)
(* program reports property changes, made by the command or in the Mi Home *)
(* app, on the same connection; updateAlarmState turns them into the       *)
(* retained state message.  btchipReader's Bluetooth state is in the same  *)
(* message and in the same map.                                            *)
(*                                                                         *)
(* "miio" is the goroutine of the gateway program's connection, "loop" is  *)
(* btchipReader, "timer" the callback of its discoveryTimer, which also    *)
(* calls updateState.  When the MQTT session ends, or gw3 stops, the       *)
(* broker publishes the will.  mqttReader comes back, but publishes the    *)
(* info message only; what a message may meet between mqttPublish's test   *)
(* and the session's end is module MqttSession's.                          *)
(***************************************************************************)
EXTENDS Naturals, Sequences

CONSTANTS
  Mode,        \* arming modes: disarmed, armed_home, ...
  MaxChanges,  \* bound: changes of the mode and of the siren
  MaxCommands, \* bound: commands on their way
  MaxStates,   \* bound: changes of the Bluetooth state
  MaxFaults    \* bound: an MQTT session ends, or gw3 stops and is started again

Quiet == ""    \* the siren has ended, or no mode is remembered

ASSUME GatewayAlarmAssumption ==
  /\ Mode # {} /\ Mode \cap {Quiet, "triggered", "none"} = {}
  /\ MaxChanges \in Nat /\ MaxCommands \in Nat /\ MaxStates \in Nat /\ MaxFaults \in Nat

VARIABLES
  mode,       \* the mode the gateway is in
  siren,      \* TRUE: the alarm has been triggered
  commands,   \* set_properties on their way to the gateway's program
  reports,    \* properties_changed on their way to gw3
  alarmState, \* GatewayDevice.alarmState
  alarm, bt,  \* GatewayDevice.state: alarm_state and state
  job,        \* what each goroutine is doing in update(Alarm)State
  retained,   \* the retained state message
  online,     \* mqttClient # nil
  spoken,     \* history: a state has been published in this session
  heard,      \* TRUE: gw3 has been told the mode since it runs
  overlap,    \* history: the last update began while another was under way
  rival,      \* history: the goroutines whose updateState, now under way, has
              \* met another one
  changes, states, faults

Goroutine == {"miio", "loop", "timer"}
Caller    == {"loop", "timer"}  \* of updateState
Message   == [alarm : Mode \cup {Quiet, "triggered", "none"}, bt : {"setup", "discovery"}]
Property  == [piid : {1}, value : Mode] \cup [piid : {22}, value : {Quiet, "triggered"}]
State     == Mode \cup {Quiet, "triggered"}

worldVars == <<mode, siren, changes>>
netVars   == <<online, spoken>>
history   == <<overlap, rival>>
devVars   == <<alarmState, alarm, bt, job, heard, history>>
vars == <<worldVars, commands, reports, devVars, netVars, retained, states, faults>>

NoMessage == [alarm |-> "none", bt |-> "setup"]
Will      == [alarm |-> "none", bt |-> "offline"]
Idle      == [pc |-> "idle", msg |-> NoMessage]

(* All modes are alike: it does not matter which the gateway starts with.  *)
Init ==
  /\ mode = (CHOOSE m \in Mode : TRUE) /\ siren \in BOOLEAN
  /\ commands = <<>> /\ reports = <<>>
  /\ alarmState = Quiet /\ alarm = "none" /\ bt = "setup"
  /\ job = [g \in Goroutine |-> Idle] /\ retained = NoMessage
  /\ heard = FALSE /\ overlap = FALSE /\ rival = {} /\ online = FALSE /\ spoken = FALSE
  /\ changes = 0 /\ states = 0 /\ faults = 0

-----------------------------------------------------------------------------
(***************************************************************************)
(* The gateway's program: it carries out commands and the user's wishes,   *)
(* and reports what has changed.  The user's wishes change something.      *)
(***************************************************************************)
Carry(p) ==
  /\ changes < MaxChanges /\ changes' = changes + 1
  /\ mode'  = IF p.piid = 1 THEN p.value ELSE mode
  /\ siren' = IF p.piid = 22 THEN p.value = "triggered" ELSE siren
  /\ reports' = Append(reports, p)

GatewayCommand ==
  /\ commands # <<>> /\ Carry(Head(commands))
  /\ commands' = Tail(commands)
  /\ UNCHANGED <<devVars, netVars, retained, states, faults>>

GatewayUser ==
  /\ \E p \in Property : Carry(p) /\ (mode' # mode \/ siren' # siren)
  /\ UNCHANGED <<commands, devVars, netVars, retained, states, faults>>

-----------------------------------------------------------------------------
(***************************************************************************)
(* setState, miioEncodeGatewayProps: miioAlarmStates names the property    *)
(* and the value of a state.                                               *)
(***************************************************************************)
miioAlarmStates(s) ==
  IF s \in Mode THEN [piid |-> 1, value |-> s] ELSE [piid |-> 22, value |-> s]

setState(s) ==
  /\ Len(commands) < MaxCommands /\ Len(commands) + changes < MaxChanges
  /\ commands' = Append(commands, miioAlarmStates(s))
  /\ UNCHANGED <<worldVars, reports, devVars, netVars, retained, states, faults>>

Active(g) == job[g].pc # "idle"
Overlap(g) == overlap' = \E h \in Goroutine \ {g} : Active(h)

NextAlarm_Forgets(s) == \* slip: the mode is not remembered while triggered
  IF s = Quiet THEN /\ alarm' = alarmState /\ UNCHANGED alarmState
  ELSE /\ alarm' = s
       /\ alarmState' = IF s # "triggered" /\ alarm # "triggered" THEN s ELSE alarmState

(* updateAlarmState: the end of the siren restores the last mode told.     *)
NextAlarm(s) ==
  IF s = Quiet THEN /\ alarm' = alarmState /\ UNCHANGED alarmState
  ELSE /\ alarm' = s
       /\ alarmState' = IF s # "triggered" THEN s ELSE alarmState

(* miioDecodeGatewayProps finds the state of a property and a value.       *)
updateAlarmState ==
  LET p == Head(reports) IN
  /\ reports # <<>> /\ job["miio"].pc = "idle"
  /\ reports' = Tail(reports)
  /\ NextAlarm(CHOOSE s \in State : miioAlarmStates(s) = p)
  /\ heard' = (heard \/ p.piid = 1)
  /\ Overlap("miio") /\ job' = [job EXCEPT !["miio"].pc = "write"]
  /\ UNCHANGED <<worldVars, commands, bt, rival, netVars, retained, states, faults>>

(* updateState finds that the state differs, in btchipReader or in the     *)
(* callback of discoveryTimer, which sets it to "setup" only.              *)
Begin(g, s) ==
  /\ states < MaxStates /\ states' = states + 1
  /\ ~Active(g) /\ s # bt /\ (g = "timer" => s = "setup")
  /\ Overlap(g)
  /\ LET met == {h \in Caller \ {g} : Active(h)}
     IN  rival' = IF met = {} THEN rival ELSE rival \cup met \cup {g}

updateState_Early(g, s) ==  \* slip: marshalled before the state is in the map
  /\ Begin(g, s)
  /\ bt' = s /\ job' = [job EXCEPT ![g] = [pc |-> "send", msg |-> [alarm |-> alarm, bt |-> bt]]]
  /\ UNCHANGED <<worldVars, commands, reports, alarmState, alarm, heard, netVars, retained, faults>>

(* The same state is skipped, another one is put in the map a step later   *)
(* (SetState): the test and the assignment are two accesses.               *)
updateState(g, s) ==
  /\ Begin(g, s)
  /\ job' = [job EXCEPT ![g] = [pc |-> "set", msg |-> [alarm |-> "none", bt |-> s]]]
  /\ UNCHANGED <<worldVars, commands, reports, alarmState, alarm, bt, heard, netVars, retained, faults>>

SetState(g) ==
  /\ job[g].pc = "set"
  /\ bt' = job[g].msg.bt
  /\ job' = [job EXCEPT ![g] = [pc |-> "write", msg |-> NoMessage]]
  /\ UNCHANGED <<worldVars, commands, reports, alarmState, alarm, heard, history, netVars,
                 retained, states, faults>>

(* The value is in the map.  mqttPublish does nothing without a session;   *)
(* else it marshals the map, then publishes.                               *)
Marshal(g) ==
  /\ job[g].pc = "write"
  /\ job' = [job EXCEPT ![g] = IF online THEN [@ EXCEPT !.pc = "read"] ELSE Idle]
  /\ rival' = IF online THEN rival ELSE rival \ {g}
  /\ UNCHANGED <<worldVars, commands, reports, alarmState, alarm, bt, heard, overlap, netVars,
                 retained, states, faults>>

Marshalled(g) ==
  /\ job[g].pc = "read"
  /\ job' = [job EXCEPT ![g] = [pc |-> "send", msg |-> [alarm |-> alarm, bt |-> bt]]]
  /\ UNCHANGED <<worldVars, commands, reports, alarmState, alarm, bt, heard, history, netVars,
                 retained, states, faults>>

Publish(g) ==
  /\ job[g].pc = "send"
  /\ retained' = IF online THEN job[g].msg ELSE retained
  /\ spoken'   = (spoken \/ online)
  /\ job' = [job EXCEPT ![g] = Idle] /\ rival' = rival \ {g}
  /\ UNCHANGED <<worldVars, commands, reports, alarmState, alarm, bt, heard, overlap, online,
                 states, faults>>

SessionStart ==
  /\ ~online /\ online' = TRUE
  /\ UNCHANGED <<worldVars, commands, reports, devVars, spoken, retained, states, faults>>

(* A broker that is started anew may have lost what is retained, or may    *)
(* have kept it; no property tells that from the will.                     *)
SessionEnd ==
  /\ online /\ faults < MaxFaults /\ faults' = faults + 1
  /\ online' = FALSE /\ spoken' = FALSE
  /\ retained' = Will
  /\ UNCHANGED <<worldVars, commands, reports, devVars, states>>

(* gw3 stops, the broker publishes the will, and gw3 is started again.     *)
(* The gateway's program connects anew; what was on the way is lost.       *)
Restart ==
  /\ faults < MaxFaults /\ faults' = faults + 1
  /\ alarmState' = Quiet /\ alarm' = "none" /\ bt' = "setup" /\ heard' = FALSE
  /\ overlap' = FALSE /\ rival' = {}
  /\ job' = [g \in Goroutine |-> Idle]
  /\ commands' = <<>> /\ reports' = <<>>
  /\ online' = FALSE /\ spoken' = FALSE
  /\ retained' = IF online THEN Will ELSE retained
  /\ UNCHANGED <<worldVars, states>>

Next ==
  \/ GatewayCommand \/ GatewayUser \/ updateAlarmState
  \/ SessionStart \/ SessionEnd \/ Restart
  \/ \E s \in State : setState(s)
  \/ \E g \in Caller : SetState(g) \/ \E s \in {"setup", "discovery"} : updateState(g, s)
  \/ \E g \in Goroutine : Marshal(g) \/ Marshalled(g) \/ Publish(g)

Spec == Init /\ [][Next]_vars

(* Reports are read, goroutines run and mqttReader reconnects.             *)
FairSpec ==
  /\ Spec /\ WF_vars(updateAlarmState) /\ WF_vars(SessionStart)
  /\ \A g \in Caller : WF_vars(SetState(g))
  /\ \A g \in Goroutine : WF_vars(Marshal(g) \/ Marshalled(g) \/ Publish(g))

-----------------------------------------------------------------------------
TypeOK ==
  /\ mode \in Mode /\ siren \in BOOLEAN
  /\ commands \in Seq(Property) /\ reports \in Seq(Property)
  /\ alarmState \in Mode \cup {Quiet} /\ alarm \in State \cup {"none"}
  /\ bt \in {"setup", "discovery"} /\ retained \in Message \cup {Will}
  /\ heard \in BOOLEAN /\ overlap \in BOOLEAN /\ rival \subseteq Caller
  /\ online \in BOOLEAN /\ spoken \in BOOLEAN
  /\ job \in [Goroutine -> [pc : {"idle", "set", "write", "read", "send"}, msg : Message]]
  /\ changes \in 0..MaxChanges /\ states \in 0..MaxStates /\ faults \in 0..MaxFaults

(* device_gateway.go:47-68: what is retained becomes the Bluetooth state   *)
(* gw3 has and, once it has been told one, the mode the gateway is in      *)
(* whenever the siren is off, however commands, the user, the siren and    *)
(* the ends of sessions come one after another.  Exceptions: the last      *)
(* update began while another was under way, when the older message may    *)
(* stay (until an update by itself); and after a new session, or a         *)
(* restart, no state has changed yet: the will stays, because mqttReader   *)
(* does not publish the state.                                             *)
RetainedFollows ==
  <>[](spoken /\ ~overlap =>
         /\ retained.bt = bt
         /\ heard /\ ~siren => retained.alarm = mode)

(* device_gateway.go:52-53, 66-67: whatever others do to the map and the   *)
(* topic meanwhile, the message that is published by the gateway program's *)
(* goroutine has the latest alarm state in it, and one by btchipReader or  *)
(* its timer the latest Bluetooth state; except that of an updateState     *)
(* that the other of these two has met with its own, on the same key, when *)
(* the first may publish what the second has replaced.                     *)
OwnValuePublished ==
  /\ job["miio"].pc = "send" => job["miio"].msg.alarm = alarm
  /\ \A g \in Caller \ rival : job[g].pc = "send" => job[g].msg.bt = bt

=============================================================================
