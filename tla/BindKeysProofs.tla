--------------------------- MODULE BindKeysProofs ---------------------------
(***************************************************************************)
(* Theorems about BindKeys, for any set of devices and keys.               *)
(***************************************************************************)
EXTENDS BindKeys, TLAPS

LEMMA Constants ==
  /\ NoKey \notin Key /\ Untagged \subseteq Mac
  /\ MaxRekeys \in Nat /\ MaxCrashes \in Nat /\ MaxLost \in Nat
  /\ MaxFailures \in Nat
BY KeysAssumption

Job == [pc : {"idle", "marshal", "truncate", "write"}, data : Devices]
AnswerMsg == [mac : Mac, key : Key \cup {NoKey}]

(* Type correctness, by groups of variables.                               *)
SetType == set \in [Writers -> Job]
MapType == /\ keys \in [Mac -> Key \cup {NoKey}]
           /\ devices \in Devices /\ file \in Devices \cup {Torn}
NetType == asked \in Seq(Mac) /\ answers \in Seq(AnswerMsg) /\ queries \subseteq Mac
NumType == /\ rekeys \in 0..MaxRekeys /\ crashes \in 0..MaxCrashes /\ lost \in 0..MaxLost
           /\ failures \in 0..MaxFailures
BoolType == /\ reach \in BOOLEAN /\ up \in BOOLEAN
            /\ overlap \in BOOLEAN /\ failed \in BOOLEAN

Types == SetType /\ MapType /\ NetType /\ NumType /\ BoolType

LEMMA TypesOK == Types => TypeOK
BY DEF Types, SetType, MapType, NetType, NumType, BoolType, TypeOK, Job, AnswerMsg

LEMMA IdleJob == Idle \in Job /\ NoDevices \in Devices
BY DEF Idle, Job, NoDevices, Devices

(* What one writer does leaves the other's job alone.                      *)
LEMMA SetJob ==
  ASSUME SetType, NEW w \in Writers, NEW j \in Job, set' = [set EXCEPT ![w] = j]
  PROVE  SetType' /\ set'[w] = j /\ \A v \in Writers \ {w} : set'[v] = set[v]
BY DEF SetType

LEMMA SetPc ==
  ASSUME SetType, NEW w \in Writers, NEW p \in {"idle", "marshal", "truncate", "write"},
         set' = [set EXCEPT ![w].pc = p]
  PROVE  /\ SetType' /\ set'[w].pc = p /\ set'[w].data = set[w].data
         /\ \A v \in Writers \ {w} : set'[v] = set[v]
<1>1. set[w] \in Job
  BY DEF SetType
<1>2. [set[w] EXCEPT !.pc = p] \in Job
  BY <1>1 DEF Job
<1>3. set' = [set EXCEPT ![w] = [set[w] EXCEPT !.pc = p]]
  OBVIOUS
<1>4. set'[w] = [set[w] EXCEPT !.pc = p]
  BY <1>3 DEF SetType
<1>5. QED  BY <1>1, <1>2, <1>3, <1>4 DEF SetType, Job

LEMMA StoreType ==
  ASSUME devices \in Devices, NEW m \in Mac, NEW k \in Key \cup {NoKey}, StoreKey(m, k)
  PROVE  devices' \in Devices
BY DEF StoreKey, Devices

LEMMA TypesInit == Init => Types
<1> SUFFICES ASSUME Init PROVE Types
  OBVIOUS
<1>1. SetType
  BY IdleJob DEF Init, SetType
<1>2. MapType
  BY IdleJob DEF Init, MapType
<1>3. NetType
  BY DEF Init, NetType
<1>5. BoolType
  BY Zenon DEF Init, BoolType
<1>4. NumType
  BY Constants DEF Init, NumType
<1>6. QED  BY <1>1, <1>2, <1>3, <1>4, <1>5 DEF Types

(* Queues and sets between gw3 and the cloud.                              *)
LEMMA NetStep == Types /\ [Next]_vars => NetType'
<1> SUFFICES ASSUME Types, [Next]_vars PROVE NetType'
  OBVIOUS
<1> USE DEF Types, NetType
<1>1. ASSUME NEW m \in Mac, miioBleQueryDev(m) PROVE NetType'
  BY <1>1 DEF miioBleQueryDev
<1>2. ASSUME NEW m \in Mac, Hour(m) PROVE NetType'
  BY <1>2 DEF Hour, netVars
<1>3. ASSUME NEW m \in Mac, MqttSet(m) PROVE NetType'
  BY <1>3 DEF MqttSet, SetBindKey
<1>4. ASSUME NEW m \in Mac, Rekey(m) PROVE NetType'
  BY <1>4 DEF Rekey, netVars, memVars
<1>5. CASE Writing
  BY <1>5 DEF Writing, Marshal, Truncate, WriteFile, WriteFails, netVars
<1>6. CASE Answer
  BY <1>6 DEF Answer, SetBindKey
<1>7. CASE Crash
  BY <1>7 DEF Crash
<1>8. CASE mainInitConfig
  BY <1>8 DEF mainInitConfig, netVars
<1>9. CASE Cloud
  <2>1. Head(asked) \in Mac /\ Tail(asked) \in Seq(Mac)
    BY <1>9 DEF Cloud
  <2>2. [mac |-> Head(asked), key |-> keys[Head(asked)]] \in AnswerMsg
    BY <2>1 DEF MapType, AnswerMsg
  <2>3. QED  BY <1>9, <2>1, <2>2 DEF Cloud, memVars
<1>10. CASE Lose
  <2>1. asked # <<>> /\ asked' = Tail(asked) /\ UNCHANGED <<answers, queries>>
    BY <1>10 DEF Lose, memVars
  <2>2. Tail(asked) \in Seq(Mac)
    BY <2>1
  <2>3. QED  BY <2>1, <2>2
<1>11. CASE Connect \/ Disconnect
  <2>1. asked' \in {asked, <<>>} /\ answers' \in {answers, <<>>} /\ UNCHANGED queries
    BY <1>11 DEF Connect, Disconnect, memVars
  <2>2. asked' \in Seq(Mac)
    <3>1. <<>> \in Seq(Mac)
      OBVIOUS
    <3>2. QED  BY <2>1, <3>1, Zenon
  <2>3. answers' \in Seq(AnswerMsg)
    <3>1. <<>> \in Seq(AnswerMsg)
      OBVIOUS
    <3>2. QED  BY <2>1, <3>1, Zenon
  <2>4. QED  BY <2>1, <2>2, <2>3
<1>12. CASE UNCHANGED vars
  BY <1>12 DEF vars, netVars, memVars
<1>13. QED
  BY <1>1, <1>2, <1>3, <1>4, <1>5, <1>6, <1>7, <1>8, <1>9, <1>10, <1>11, <1>12 DEF Next

(* The counters of the bounds.                                             *)
LEMMA NumStep == Types /\ [Next]_vars => NumType'
<1> SUFFICES ASSUME Types, [Next]_vars PROVE NumType'
  OBVIOUS
<1> USE Constants DEF Types, NumType
<1>0. ASSUME NEW w \in Writers, WriteFails(w) PROVE NumType'
  BY <1>0 DEF WriteFails, netVars
<1>1. ASSUME NEW m \in Mac, Rekey(m) PROVE NumType'
  BY <1>1 DEF Rekey, netVars
<1>2. CASE Crash
  BY <1>2 DEF Crash
<1>3. CASE Lose \/ Disconnect
  BY <1>3 DEF Lose, Disconnect, history
<1>4. CASE UNCHANGED <<rekeys, crashes, lost, failures>>
  BY <1>4
<1>5. QED
  BY <1>0, <1>1, <1>2, <1>3, <1>4
     DEF Next, miioBleQueryDev, Hour, MqttSet, SetBindKey, Writing, Marshal, Truncate,
         WriteFile, Answer, mainInitConfig, Cloud, Connect, vars, netVars, memVars, history

LEMMA BoolStep == Types /\ [Next]_vars => BoolType'
<1> SUFFICES ASSUME Types, [Next]_vars PROVE BoolType'
  OBVIOUS
<1> USE DEF Types, BoolType
<1>1. ASSUME NEW w \in Writers, NEW m \in Mac, NEW k, SetBindKey(w, m, k)
      PROVE  overlap' \in BOOLEAN /\ UNCHANGED <<reach, up, failed>>
  BY <1>1 DEF SetBindKey
<1>2. CASE \E m \in Mac : MqttSet(m)
  BY <1>1, <1>2 DEF MqttSet, Writers
<1>3. CASE Answer
  <2>0. Head(answers) \in AnswerMsg
    BY <1>3 DEF Answer, NetType
  <2>1. Head(answers).mac \in Mac
    BY <2>0 DEF AnswerMsg
  <2>2. QED  BY <1>1, <1>3, <2>1 DEF Answer, Writers
<1>4. CASE UNCHANGED <<reach, up, overlap, failed>>
  BY <1>4
<1>9. ASSUME NEW w \in Writers, WriteFile(w) \/ WriteFails(w) PROVE BoolType'
  BY <1>9 DEF WriteFile, WriteFails, netVars
<1>5. CASE Crash
  BY <1>5 DEF Crash
<1>6. CASE mainInitConfig
  BY <1>6 DEF mainInitConfig, history, netVars
<1>7. CASE Connect \/ Disconnect
  BY <1>7 DEF Connect, Disconnect, history, memVars
<1>8. QED
  BY <1>2, <1>3, <1>4, <1>5, <1>6, <1>7, <1>9
     DEF Next, miioBleQueryDev, Hour, Rekey, Writing, Marshal, Truncate,
         Cloud, Lose, history, vars, netVars, memVars

(* The map, the file and the jobs of the writers.                          *)
LEMMA JobStep == Types /\ [Next]_vars => SetType' /\ MapType'
<1> SUFFICES ASSUME Types, [Next]_vars PROVE SetType' /\ MapType'
  OBVIOUS
<1>types. SetType /\ MapType /\ NetType
  BY DEF Types
<1>1. ASSUME NEW w \in Writers, NEW m \in Mac, NEW k \in Key \cup {NoKey},
             SetBindKey(w, m, k)
      PROVE  SetType' /\ MapType'
  <2>1. CASE devices[m] = k
    BY <1>1, <2>1, <1>types DEF SetBindKey, SetType, MapType
  <2>2. CASE devices[m] # k
    <3>1. devices' \in Devices
      BY <1>1, <2>2, <1>types, StoreType DEF SetBindKey, MapType
    <3>2. set' = [set EXCEPT ![w].pc = "marshal"] /\ UNCHANGED <<keys, file>>
      BY <1>1, <2>2 DEF SetBindKey
    <3>3. SetType'
      BY <3>2, <1>types, SetPc
    <3>4. QED  BY <3>1, <3>2, <3>3, <1>types DEF MapType
  <2>3. QED  BY <2>1, <2>2
<1>2. CASE \E m \in Mac : MqttSet(m)
  <2>1. PICK m \in Mac : MqttSet(m)
    BY <1>2
  <2>2. keys[m] \in Key \cup {NoKey}
    BY <1>types DEF MapType
  <2>3. QED  BY <1>1, <2>1, <2>2 DEF MqttSet, Writers
<1>3. CASE Answer
  <2>1. Head(answers) \in AnswerMsg
    BY <1>3, <1>types DEF Answer, NetType
  <2>2. Head(answers).mac \in Mac /\ Head(answers).key \in Key \cup {NoKey}
    BY <2>1 DEF AnswerMsg
  <2>3. QED  BY <1>1, <1>3, <2>2 DEF Answer, Writers
<1>4. ASSUME NEW w \in Writers, Marshal(w) PROVE SetType' /\ MapType'
  <2>1. [pc |-> "truncate", data |-> devices] \in Job
    BY <1>types DEF MapType, Job
  <2>2. QED  BY <1>4, <2>1, <1>types, SetJob DEF Marshal, MapType
<1>5. ASSUME NEW w \in Writers, Truncate(w) PROVE SetType' /\ MapType'
  BY <1>5, <1>types, SetPc DEF Truncate, MapType
<1>6. ASSUME NEW w \in Writers, WriteFile(w) PROVE SetType' /\ MapType'
  <2>1. set[w].data \in Devices
    BY <1>types DEF SetType, Job
  <2>2. file' \in Devices \cup {Torn}
    BY <1>6, <2>1 DEF WriteFile
  <2>3. QED  BY <1>6, <2>2, <1>types, SetJob, IdleJob DEF WriteFile, MapType
<1>12. ASSUME NEW w \in Writers, WriteFails(w) PROVE SetType' /\ MapType'
  <2>1. file' \in {file, Torn} /\ set' = [set EXCEPT ![w] = Idle] /\ UNCHANGED <<keys, devices>>
    BY <1>12 DEF WriteFails
  <2>2. QED  BY <2>1, <1>types, SetJob, IdleJob DEF MapType
<1>7. CASE Crash
  BY <1>7, <1>types, IdleJob DEF Crash, SetType, MapType
<1>8. CASE mainInitConfig
  BY <1>8, <1>types DEF mainInitConfig, SetType, MapType
<1>9. ASSUME NEW m \in Mac, Rekey(m) PROVE SetType' /\ MapType'
  BY <1>9, <1>types DEF Rekey, memVars, SetType, MapType
<1>10. CASE UNCHANGED <<keys, devices, file, set>>
  BY <1>10, <1>types DEF SetType, MapType
<1>11. QED
  BY <1>2, <1>3, <1>4, <1>5, <1>6, <1>7, <1>8, <1>9, <1>10, <1>12
     DEF Next, miioBleQueryDev, Hour, Writing, Cloud, Lose, Connect, Disconnect, vars,
         memVars

LEMMA TypesStep == Types /\ [Next]_vars => Types'
BY NetStep, NumStep, BoolStep, JobStep DEF Types

(* Every state is well typed: what is asked for, answered, kept in memory  *)
(* and read back from the file is a device's key or none.                  *)
THEOREM TypeCorrect == Spec => []TypeOK
<1>1. QED  BY TypesOK, TypesInit, TypesStep, PTL DEF Spec

-----------------------------------------------------------------------------
(***************************************************************************)
(* The file.  Unless the last calls of SetBindKey have overlapped one      *)
(* writer is active at most; what it has marshalled is still the map, and  *)
(* what is left of the file when it writes is nothing, so that nothing of  *)
(* a longer content stays.  A call that begins alone establishes all of it *)
(* anew, whatever the calls and the failed writes before it left.          *)
(***************************************************************************)
Alone  == \A v, w \in Writers : v # w => set[v].pc = "idle" \/ set[w].pc = "idle"
Fresh  == \A w \in Writers : set[w].pc \in {"truncate", "write"} => set[w].data = devices
Empty  == \A w \in Writers : set[w].pc = "write" => file = Torn
Stopped == ~up => Quiet /\ ~overlap /\ ~failed

FileInv ==
  /\ Stopped
  /\ up /\ ~overlap => Alone /\ Fresh /\ Empty /\ (Quiet /\ ~failed => file = devices)

LEMMA FileInit == Init => FileInv
BY DEF Init, FileInv, Stopped, Alone, Fresh, Empty, Quiet, Idle

LEMMA FileStep == Types /\ FileInv /\ [Next]_vars => FileInv'
<1> SUFFICES ASSUME Types, FileInv, [Next]_vars PROVE FileInv'
  OBVIOUS
<1>types. SetType /\ MapType /\ NetType /\ BoolType
  BY DEF Types
<1> USE DEF FileInv, Stopped, Alone, Fresh, Empty, Quiet
<1>1. ASSUME NEW w \in Writers, NEW m \in Mac, NEW k \in Key \cup {NoKey},
             SetBindKey(w, m, k)
      PROVE  FileInv'
  <2>1. up /\ up' /\ set[w].pc = "idle" /\ file' = file
    BY <1>1 DEF SetBindKey
  <2>2. CASE devices[m] = k
    <3>1. UNCHANGED <<devices, set, overlap, failed>>
      BY <1>1, <2>2 DEF SetBindKey
    <3>2. QED  BY <2>1, <3>1
  <2>4. CASE devices[m] # k
    <3>1. set'[w].pc = "marshal" /\ \A v \in Writers \ {w} : set'[v] = set[v]
      BY <1>1, <2>4, <1>types, SetPc DEF SetBindKey
    <3>2. ~overlap' => \A v \in Writers \ {w} : set[v].pc = "idle"
      BY <1>1, <2>4 DEF SetBindKey
    <3>3. QED  BY <2>1, <3>1, <3>2
  <2>5. QED  BY <2>2, <2>4
<1>2. CASE \E m \in Mac : MqttSet(m)
  <2>1. PICK m \in Mac : MqttSet(m)
    BY <1>2
  <2>2. keys[m] \in Key \cup {NoKey}
    BY <1>types DEF MapType
  <2>3. QED  BY <1>1, <2>1, <2>2 DEF MqttSet, Writers
<1>3. CASE Answer
  <2>1. Head(answers) \in AnswerMsg
    BY <1>3, <1>types DEF Answer, NetType
  <2>2. Head(answers).mac \in Mac /\ Head(answers).key \in Key \cup {NoKey}
    BY <2>1 DEF AnswerMsg
  <2>3. QED  BY <1>1, <1>3, <2>2 DEF Answer, Writers
<1>4. ASSUME NEW w \in Writers, Marshal(w) PROVE FileInv'
  <2>1. [pc |-> "truncate", data |-> devices] \in Job
    BY <1>types DEF MapType, Job
  <2>2. /\ set[w].pc = "marshal" /\ set'[w] = [pc |-> "truncate", data |-> devices]
        /\ \A v \in Writers \ {w} : set'[v] = set[v]
    BY <1>4, <2>1, <1>types, SetJob DEF Marshal
  <2>3. UNCHANGED <<devices, file>> /\ up /\ up' /\ (overlap' <=> overlap)
    BY <1>4 DEF Marshal, history
  <2>4. QED  BY <2>2, <2>3
<1>5. ASSUME NEW w \in Writers, Truncate(w) PROVE FileInv'
  <2>1. /\ set[w].pc = "truncate" /\ set'[w].pc = "write" /\ set'[w].data = set[w].data
        /\ \A v \in Writers \ {w} : set'[v] = set[v]
    BY <1>5, <1>types, SetPc DEF Truncate
  <2>2. devices' = devices /\ file' = Torn /\ up /\ up' /\ (overlap' <=> overlap)
    BY <1>5 DEF Truncate, history
  <2>3. QED  BY <2>1, <2>2
<1>6. ASSUME NEW w \in Writers, WriteFile(w) PROVE FileInv'
  <2>0. set' = [set EXCEPT ![w] = Idle] /\ set[w].pc = "write"
    BY <1>6 DEF WriteFile
  <2>1. /\ set[w].pc = "write" /\ set'[w].pc = "idle"
        /\ \A v \in Writers \ {w} : set'[v] = set[v]
    <3>1. set'[w] = Idle /\ \A v \in Writers \ {w} : set'[v] = set[v]
      BY <2>0, <1>types, SetJob, IdleJob
    <3>2. QED  BY <2>0, <3>1 DEF Idle
  <2>2. devices' = devices /\ up /\ up' /\ (overlap' <=> overlap)
    BY <1>6 DEF WriteFile
  <2>3. ~overlap => file' = devices
    <3>1. ~overlap => file = Torn /\ set[w].data = devices
      BY <2>1, <2>2
    <3>2. QED  BY <1>6, <3>1 DEF WriteFile
  <2>4. QED  BY <2>1, <2>2, <2>3
<1>13. ASSUME NEW w \in Writers, WriteFails(w) PROVE FileInv'
  <2>0. set' = [set EXCEPT ![w] = Idle] /\ set[w].pc # "idle" /\ failed'
    BY <1>13 DEF WriteFails
  <2>1. set'[w] = Idle /\ \A v \in Writers \ {w} : set'[v] = set[v]
    BY <2>0, <1>types, SetJob, IdleJob
  <2>2. devices' = devices /\ up /\ up' /\ (overlap' <=> overlap)
    BY <1>13 DEF WriteFails
  <2>3. ~overlap => \A v \in Writers \ {w} : set[v].pc = "idle"
    BY <2>0, <2>2
  <2>4. QED  BY <2>0, <2>1, <2>2, <2>3 DEF Idle
<1>7. CASE Crash
  BY <1>7 DEF Crash, Idle
<1>8. CASE mainInitConfig
  <2>1. /\ UNCHANGED <<set, file>> /\ devices' = file /\ ~up
        /\ (overlap' <=> overlap) /\ (failed' <=> failed)
    BY <1>8 DEF mainInitConfig, history
  <2>2. QED  BY <2>1
<1>9. ASSUME UNCHANGED <<devices, file, set>>, up' <=> up, overlap' <=> overlap, failed' <=> failed
      PROVE  FileInv'
  BY <1>9
<1>10. CASE \E m \in Mac : miioBleQueryDev(m) \/ Hour(m) \/ Rekey(m)
  BY <1>9, <1>10 DEF miioBleQueryDev, Hour, Rekey, history, memVars
<1>11. CASE Cloud \/ Lose \/ Connect \/ Disconnect \/ UNCHANGED vars
  BY <1>9, <1>11 DEF Cloud, Lose, Connect, Disconnect, history, memVars, vars
<1>12. QED
  BY <1>2, <1>3, <1>4, <1>5, <1>6, <1>7, <1>8, <1>10, <1>11, <1>13 DEF Next, Writing

(* gw3.go:164-188: a gw3 that is not just writing /data/gw3.json has in it *)
(* the keys it uses, whenever it was stopped before and whatever was       *)
(* answered, lost or set over MQTT, unless its last two writes overlapped  *)
(* or the last one failed; a later write by itself mends either.           *)
THEOREM FileAgreesCorrect == Spec => []FileAgrees
<1>1. FileInv => FileAgrees
  BY DEF FileInv, FileAgrees
<1>2. QED
  BY <1>1, TypesInit, TypesStep, FileInit, FileStep, PTL DEF Spec
=============================================================================
