------------------------ MODULE GatewayAlarmProofs ------------------------
(***************************************************************************)
(* Theorems about GatewayAlarm, for every value of its constants.          *)
(***************************************************************************)
EXTENDS GatewayAlarm, TLAPS

LEMMA Constants ==
  /\ MaxChanges \in Nat /\ MaxCommands \in Nat /\ MaxStates \in Nat /\ MaxFaults \in Nat
  /\ Mode # {} /\ Quiet \notin Mode /\ "triggered" \notin Mode
BY GatewayAlarmAssumption

(* The table miioAlarmStates names each state by a property and a value,   *)
(* and every property and value that is reported is some state's.          *)
LEMMA StateProperty == ASSUME NEW s \in State PROVE miioAlarmStates(s) \in Property
BY DEF State, Property, miioAlarmStates

LEMMA PropertyState ==
  ASSUME NEW p \in Property
  PROVE  (CHOOSE s \in State : miioAlarmStates(s) = p) \in State
<1>1. p.value \in State
  BY DEF State, Property
<1>2. CASE p \in [piid : {1}, value : Mode]
  BY <1>1, <1>2 DEF miioAlarmStates
<1>3. CASE p \in [piid : {22}, value : {Quiet, "triggered"}]
  BY <1>1, <1>3, Constants DEF miioAlarmStates
<1>4. QED  BY <1>2, <1>3 DEF Property

LEMMA Messages ==
  ASSUME NEW a \in State \cup {"none"}, NEW b \in {"setup", "discovery"}
  PROVE  [alarm |-> a, bt |-> b] \in Message
BY DEF State, Message

-----------------------------------------------------------------------------
LEMMA TypeInit == Init => TypeOK
<1> SUFFICES ASSUME Init PROVE TypeOK
  OBVIOUS
<1>1. NoMessage \in Message
  BY DEF NoMessage, Message
<1>2. Idle \in [pc : {"idle", "set", "write", "read", "send"}, msg : Message]
  BY <1>1 DEF Idle
<1>3. mode \in Mode
  BY Constants DEF Init
<1>4. job \in [Goroutine -> [pc : {"idle", "set", "write", "read", "send"}, msg : Message]]
  BY <1>2 DEF Init
<1>5. commands \in Seq(Property) /\ reports \in Seq(Property)
  BY DEF Init
<1>6. changes \in 0..MaxChanges /\ states \in 0..MaxStates /\ faults \in 0..MaxFaults
  BY Constants DEF Init
<1>7. QED
  BY <1>1, <1>3, <1>4, <1>5, <1>6 DEF Init, TypeOK

(* What a goroutine is doing changes for itself only.                      *)
LEMMA JobType ==
  ASSUME TypeOK, NEW g \in Goroutine,
         NEW j \in [pc : {"idle", "set", "write", "read", "send"}, msg : Message],
         job' = [job EXCEPT ![g] = j]
  PROVE  job' \in [Goroutine -> [pc : {"idle", "set", "write", "read", "send"}, msg : Message]]
BY DEF TypeOK

LEMMA TypeStep == TypeOK /\ [Next]_vars => TypeOK'
<1> SUFFICES ASSUME TypeOK, [Next]_vars PROVE TypeOK'
  OBVIOUS
<1> USE Constants
<1> DEFINE Job == [pc : {"idle", "set", "write", "read", "send"}, msg : Message]
<1> HIDE DEF Job
<1>jobs. job \in [Goroutine -> Job]
  BY DEF TypeOK, Job
<1>idle. Idle \in Job /\ NoMessage \in Message
  BY DEF Idle, NoMessage, Message, Job
<1>carry. ASSUME NEW p \in Property, Carry(p)
          PROVE  /\ mode' \in Mode /\ siren' \in BOOLEAN /\ reports' \in Seq(Property)
                 /\ changes' \in 0..MaxChanges
  <2>1. p.piid = 1 => p.value \in Mode
    <3>1. CASE p \in [piid : {1}, value : Mode]
      BY <3>1
    <3>2. CASE p \in [piid : {22}, value : {Quiet, "triggered"}]
      <4>1. p.piid = 22
        BY <3>2
      <4>2. QED  BY <4>1
    <3>3. QED  BY <3>1, <3>2 DEF Property
  <2>2. mode' \in Mode
    BY <1>carry, <2>1 DEF Carry, TypeOK
  <2>3. siren' \in BOOLEAN
    BY <1>carry DEF Carry, TypeOK
  <2>4. reports' \in Seq(Property)
    BY <1>carry DEF Carry, TypeOK
  <2>6. changes' \in 0..MaxChanges
    <3>1. changes \in 0..MaxChanges /\ changes < MaxChanges /\ changes' = changes + 1
      BY <1>carry DEF Carry, TypeOK
    <3>2. QED  BY <3>1
  <2>5. QED  BY <2>2, <2>3, <2>4, <2>6
<1>1. CASE GatewayCommand
  <2>0. commands \in Seq(Property) /\ commands # <<>> /\ commands' = Tail(commands)
    BY <1>1 DEF GatewayCommand, TypeOK
  <2>1. Head(commands) \in Property /\ commands' \in Seq(Property) /\ Carry(Head(commands))
    BY <1>1, <2>0 DEF GatewayCommand
  <2>2. QED
    BY <1>1, <1>carry, <2>1 DEF GatewayCommand, TypeOK, devVars, history, netVars
<1>2. CASE GatewayUser
  <2>1. PICK p \in Property : Carry(p)
    BY <1>2 DEF GatewayUser
  <2>2. QED
    BY <1>2, <1>carry, <2>1 DEF GatewayUser, TypeOK, devVars, history, netVars
<1>3. CASE updateAlarmState
  <2>0. reports \in Seq(Property) /\ reports # <<>> /\ reports' = Tail(reports)
    BY <1>3 DEF updateAlarmState, TypeOK
  <2>1. Head(reports) \in Property /\ reports' \in Seq(Property)
    BY <2>0
  <2>2. PICK s \in State : NextAlarm(s)
    BY <1>3, <2>1, PropertyState DEF updateAlarmState
  <2>3. alarm' \in State \cup {"none"} /\ alarmState' \in Mode \cup {Quiet}
    BY <2>2 DEF NextAlarm, TypeOK, State
  <2>4. job' \in [Goroutine -> Job]
    BY <1>3, <1>jobs DEF updateAlarmState, Job, Goroutine
  <2>5. heard' \in BOOLEAN /\ overlap' \in BOOLEAN
    BY <1>3 DEF updateAlarmState, Overlap, TypeOK
  <2>6. QED
    BY <1>3, <2>1, <2>3, <2>4, <2>5 DEF updateAlarmState, TypeOK, Job, worldVars, netVars
<1>4. CASE SessionStart
  BY <1>4 DEF SessionStart, TypeOK, worldVars, devVars, history
<1>5. CASE SessionEnd
  <2>1. retained' \in Message \cup {Will}
    BY <1>5, <1>idle DEF SessionEnd
  <2>2. faults' \in 0..MaxFaults
    <3>1. faults \in 0..MaxFaults /\ faults < MaxFaults /\ faults' = faults + 1
      BY <1>5 DEF SessionEnd, TypeOK
    <3>2. QED  BY <3>1
  <2>3. QED
    BY <1>5, <2>1, <2>2 DEF SessionEnd, TypeOK, worldVars, devVars, history
<1>6. CASE Restart
  <2>1. job' \in [Goroutine -> Job]
    BY <1>6, <1>idle DEF Restart
  <2>2. retained' \in Message \cup {Will}
    BY <1>6, <1>idle DEF Restart, TypeOK
  <2>3. faults' \in 0..MaxFaults
    <3>1. faults \in 0..MaxFaults /\ faults < MaxFaults /\ faults' = faults + 1
      BY <1>6 DEF Restart, TypeOK
    <3>2. QED  BY <3>1
  <2>4. alarmState' \in Mode \cup {Quiet} /\ alarm' \in State \cup {"none"} /\ bt' \in {"setup", "discovery"}
    BY <1>6 DEF Restart
  <2>5. commands' \in Seq(Property) /\ reports' \in Seq(Property)
    BY <1>6 DEF Restart
  <2>6. /\ heard' \in BOOLEAN /\ overlap' \in BOOLEAN /\ rival' \subseteq Caller
        /\ online' \in BOOLEAN /\ spoken' \in BOOLEAN
        /\ mode' \in Mode /\ siren' \in BOOLEAN /\ changes' \in 0..MaxChanges /\ states' \in 0..MaxStates
    BY <1>6 DEF Restart, TypeOK, worldVars
  <2>7. QED
    BY <2>1, <2>2, <2>3, <2>4, <2>5, <2>6 DEF TypeOK, Job
<1>7. ASSUME NEW s \in State, setState(s)
      PROVE  TypeOK'
  <2>1. commands \in Seq(Property) /\ miioAlarmStates(s) \in Property
    BY <1>7, StateProperty DEF TypeOK
  <2>2. commands' \in Seq(Property)
    BY <1>7, <2>1 DEF setState
  <2>3. QED
    BY <1>7, <2>2 DEF setState, TypeOK, worldVars, devVars, history, netVars
<1>8. ASSUME NEW g \in Caller, NEW s \in {"setup", "discovery"}, updateState(g, s)
      PROVE  TypeOK'
  <2>1. [alarm |-> "none", bt |-> s] \in Message
    BY DEF Message
  <2>2. job' \in [Goroutine -> Job]
    BY <1>8, <1>jobs, <2>1 DEF updateState, Job
  <2>3. overlap' \in BOOLEAN /\ rival' \subseteq Caller
    BY <1>8 DEF updateState, Begin, Overlap, TypeOK
  <2>4. states' \in 0..MaxStates
    <3>1. states \in 0..MaxStates /\ states < MaxStates /\ states' = states + 1
      BY <1>8 DEF updateState, Begin, TypeOK
    <3>2. QED  BY <3>1
  <2>5. QED
    BY <1>8, <2>2, <2>3, <2>4 DEF updateState, TypeOK, Job, worldVars, netVars
<1>callers. Caller \subseteq Goroutine
  BY DEF Caller, Goroutine
<1>set. ASSUME NEW g \in Caller, SetState(g)
        PROVE  TypeOK'
  <2>1. job' \in [Goroutine -> Job]
    BY <1>set, <1>jobs, <1>idle, <1>callers DEF SetState, Job
  <2>2. bt' \in {"setup", "discovery"}
    BY <1>set, <1>jobs, <1>callers DEF SetState, Job, Message
  <2>3. QED
    BY <1>set, <2>1, <2>2 DEF SetState, TypeOK, Job, worldVars, history, netVars
<1>9. ASSUME NEW g \in Goroutine, Marshal(g)
      PROVE  TypeOK'
  <2>1. job' \in [Goroutine -> Job]
    BY <1>9, <1>jobs, <1>idle DEF Marshal, Job
  <2>2. QED
    BY <1>9, <2>1 DEF Marshal, TypeOK, Job, worldVars, netVars, history
<1>10. ASSUME NEW g \in Goroutine, Marshalled(g)
       PROVE  TypeOK'
  <2>1. [alarm |-> alarm, bt |-> bt] \in Message
    BY Messages DEF TypeOK
  <2>2. job' \in [Goroutine -> Job]
    BY <1>10, <1>jobs, <2>1 DEF Marshalled, Job
  <2>3. QED
    BY <1>10, <2>2 DEF Marshalled, TypeOK, Job, worldVars, netVars, history
<1>11. ASSUME NEW g \in Goroutine, Publish(g)
       PROVE  TypeOK'
  <2>1. job' \in [Goroutine -> Job]
    BY <1>11, <1>jobs, <1>idle DEF Publish
  <2>2. retained' \in Message \cup {Will}
    BY <1>11 DEF Publish, TypeOK
  <2>3. spoken' \in BOOLEAN
    BY <1>11 DEF Publish, TypeOK
  <2>4. QED
    BY <1>11, <2>1, <2>2, <2>3 DEF Publish, TypeOK, Job, worldVars
<1>12. CASE UNCHANGED vars
  BY <1>12 DEF vars, TypeOK, worldVars, devVars, history, netVars
<1>13. QED
  BY <1>1, <1>2, <1>3, <1>4, <1>5, <1>6, <1>7, <1>8, <1>set, <1>9, <1>10, <1>11, <1>12 DEF Next

(* Every state of the gateway device is well typed.                        *)
THEOREM TypeCorrect == Spec => []TypeOK
BY TypeInit, TypeStep, PTL DEF Spec

-----------------------------------------------------------------------------
(* Of btchipReader and its timer, what is under way with the other's       *)
(* updateState under way has met it.                                       *)
RivalInv == \A g, h \in Caller : g # h /\ Active(g) /\ Active(h) => g \in rival

LEMMA RivalStep == TypeOK /\ RivalInv /\ [Next]_vars => RivalInv'
<1> SUFFICES ASSUME TypeOK, RivalInv, [Next]_vars PROVE RivalInv'
  OBVIOUS
<1>jobs. DOMAIN job = Goroutine /\ Caller \subseteq Goroutine /\ "miio" \notin Caller
  BY DEF TypeOK, Goroutine, Caller
<1>1. CASE UNCHANGED <<job, rival>>
  BY <1>1 DEF RivalInv, Active
<1>2. CASE updateAlarmState
  <2>1. rival' = rival /\ \A h \in Caller : job'[h] = job[h]
    BY <1>2, <1>jobs DEF updateAlarmState
  <2>2. QED  BY <2>1 DEF RivalInv, Active
<1>3. CASE Restart
  BY <1>3 DEF Restart, RivalInv, Active, Idle, Goroutine, Caller
<1>4. ASSUME NEW g \in Caller, NEW s \in {"setup", "discovery"}, updateState(g, s)
      PROVE  RivalInv'
  <2> DEFINE met == {h \in Caller \ {g} : Active(h)}
  <2>1. \A h \in Caller \ {g} : job'[h] = job[h]
    BY <1>4, <1>jobs DEF updateState
  <2>2. rival' = IF met = {} THEN rival ELSE rival \cup met \cup {g}
    BY <1>4 DEF updateState, Begin
  <2>3. ASSUME NEW h \in Caller, NEW k \in Caller, h # k, Active(h)', Active(k)'
        PROVE  h \in rival'
    <3>1. CASE h = g
      BY <3>1, <2>1, <2>2, <2>3 DEF Active
    <3>2. CASE h # g
      BY <3>2, <2>1, <2>2, <2>3 DEF Active
    <3>3. QED  BY <3>1, <3>2
  <2>4. QED  BY <2>3 DEF RivalInv
<1>5. ASSUME NEW g \in Goroutine,
             (g \in Caller /\ SetState(g)) \/ Marshal(g) \/ Marshalled(g) \/ Publish(g)
      PROVE  RivalInv'
  <2>1. Active(g) /\ \A h \in Goroutine \ {g} : job'[h] = job[h]
    BY <1>5, <1>jobs DEF SetState, Marshal, Marshalled, Publish, Active
  <2>2. rival' = rival \/ (rival' = rival \ {g} /\ ~Active(g)')
    BY <1>5, <1>jobs DEF SetState, Marshal, Marshalled, Publish, history, Active, Idle
  <2>3. QED  BY <2>1, <2>2, <1>jobs DEF RivalInv, Active
<1>6. CASE GatewayCommand \/ GatewayUser \/ SessionStart \/ SessionEnd \/ UNCHANGED vars
  BY <1>1, <1>6 DEF GatewayCommand, GatewayUser, SessionStart, SessionEnd, vars, devVars, history
<1>7. ASSUME NEW s \in State, setState(s)
      PROVE  RivalInv'
  BY <1>1, <1>7 DEF setState, devVars, history
<1>8. CASE \E g \in Goroutine : Marshal(g) \/ Marshalled(g) \/ Publish(g)
  BY <1>5, <1>8
<1>9. CASE \E g \in Caller : SetState(g) \/ \E s \in {"setup", "discovery"} : updateState(g, s)
  BY <1>4, <1>5, <1>9, <1>jobs
<1>10. QED
  BY <1>2, <1>3, <1>6, <1>7, <1>8, <1>9 DEF Next

(* Of the two that call updateState, one that has met nobody changes the   *)
(* map only when it has no message in hand.                                *)
LEMMA OwnStep == TypeOK /\ RivalInv /\ OwnValuePublished /\ [Next]_vars => OwnValuePublished'
<1> SUFFICES ASSUME TypeOK, RivalInv, OwnValuePublished, [Next]_vars PROVE OwnValuePublished'
  OBVIOUS
<1>jobs. DOMAIN job = Goroutine /\ Caller \subseteq Goroutine /\ "miio" \in Goroutine \ Caller
  BY DEF TypeOK, Goroutine, Caller
<1>1. CASE UNCHANGED <<job, alarm, bt, rival>>
  BY <1>1 DEF OwnValuePublished
<1>2. CASE updateAlarmState
  <2>1. /\ job'["miio"].pc = "write" /\ bt' = bt /\ rival' = rival
        /\ \A g \in Caller : job'[g] = job[g]
    BY <1>2, <1>jobs DEF updateAlarmState
  <2>2. QED  BY <2>1 DEF OwnValuePublished
<1>3. CASE Restart
  BY <1>3 DEF Restart, OwnValuePublished, Idle, Goroutine, Caller
<1>4. ASSUME NEW g \in Caller, NEW s \in {"setup", "discovery"}, updateState(g, s)
      PROVE  OwnValuePublished'
  <2>1. /\ job'[g].pc = "set" /\ \A h \in Goroutine \ {g} : job'[h] = job[h]
        /\ alarm' = alarm /\ bt' = bt
    BY <1>4, <1>jobs DEF updateState
  <2>2. rival \subseteq rival'
    BY <1>4 DEF updateState, Begin
  <2>3. QED  BY <2>1, <2>2, <1>jobs DEF OwnValuePublished
<1>5. ASSUME NEW g \in Caller, SetState(g)
      PROVE  OwnValuePublished'
  <2>1. /\ job'[g].pc = "write" /\ \A h \in Goroutine \ {g} : job'[h] = job[h]
        /\ alarm' = alarm /\ rival' = rival /\ Active(g)
    BY <1>5, <1>jobs DEF SetState, history, Active
  <2>2. ASSUME NEW h \in Caller \ rival', job'[h].pc = "send" PROVE FALSE
    <3>1. h # g /\ Active(h)
      BY <2>1, <2>2, <1>jobs DEF Active
    <3>2. QED  BY <2>1, <2>2, <3>1 DEF RivalInv
  <2>3. QED  BY <2>1, <2>2, <1>jobs DEF OwnValuePublished
<1>6. ASSUME NEW g \in Goroutine, Marshal(g) \/ Publish(g)
      PROVE  OwnValuePublished'
  <2>1. \A h \in Goroutine \ {g} : job'[h] = job[h]
    BY <1>6, <1>jobs DEF Marshal, Publish
  <2>2. job'[g] \in {Idle, [job[g] EXCEPT !.pc = "read"]}
    BY <1>6, <1>jobs DEF Marshal, Publish
  <2>3. job'[g].pc # "send"
    BY <2>2, <1>jobs DEF Idle, TypeOK
  <2>4. alarm' = alarm /\ bt' = bt /\ \A h \in Caller \ {g} : h \in rival => h \in rival'
    BY <1>6 DEF Marshal, Publish
  <2>5. QED  BY <2>1, <2>3, <2>4, <1>jobs DEF OwnValuePublished
<1>7. ASSUME NEW g \in Goroutine, Marshalled(g)
      PROVE  OwnValuePublished'
  <2>1. job'[g].msg = [alarm |-> alarm, bt |-> bt] /\ \A h \in Goroutine \ {g} : job'[h] = job[h]
    BY <1>7, <1>jobs DEF Marshalled
  <2>2. alarm' = alarm /\ bt' = bt /\ rival' = rival
    BY <1>7 DEF Marshalled, history
  <2>3. QED  BY <2>1, <2>2, <1>jobs DEF OwnValuePublished
<1>8. CASE GatewayCommand \/ GatewayUser \/ SessionStart \/ SessionEnd \/ UNCHANGED vars
  BY <1>1, <1>8 DEF GatewayCommand, GatewayUser, SessionStart, SessionEnd, vars, devVars, history
<1>9. ASSUME NEW s \in State, setState(s)
      PROVE  OwnValuePublished'
  BY <1>1, <1>9 DEF setState, devVars, history
<1>10. QED
  BY <1>2, <1>3, <1>4, <1>5, <1>6, <1>7, <1>8, <1>9 DEF Next

(* device_gateway.go:52-53, 66-67: however the gateway program's goroutine *)
(* and those of btchipReader and its timer interleave, with sessions that  *)
(* come and go and restarts, each publishes a message that has its own     *)
(* latest value in it; except an updateState that has met the other one    *)
(* with the same key.                                                      *)
THEOREM OwnValueCorrect == Spec => []OwnValuePublished
<1>1. Init => RivalInv /\ OwnValuePublished
  <2> SUFFICES ASSUME Init PROVE RivalInv /\ OwnValuePublished
    OBVIOUS
  <2>1. Idle.pc = "idle" /\ \A g \in Goroutine : job[g] = Idle
    BY DEF Init, Idle
  <2>2. "miio" \in Goroutine /\ Caller \subseteq Goroutine
    BY DEF Goroutine, Caller
  <2>3. QED  BY <2>1, <2>2 DEF OwnValuePublished, RivalInv, Active
<1>2. QED
  BY <1>1, TypeCorrect, RivalStep, OwnStep, PTL DEF Spec

=============================================================================
