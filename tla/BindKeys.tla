----------------------------- MODULE BindKeys -----------------------------
(***************************************************************************)
(* The encryption keys of Xiaomi devices.  btchipReader cannot decode an   *)
(* encrypted advertisement without the device's key; it then asks the      *)
(* cloud through the Bluetooth program's connection to miio_agent, and the *)
(* answer, read by miioSocketProxy, goes into config and /data/gw3.json,   *)
(* which gw3 reads when it starts.  A key can also be set over MQTT.       *)
(*                                                                         *)
(* SetBindKey runs in the goroutine of the agent's connection ("miio") and *)
(* in mqttReader ("mqtt").  Whether the Bluetooth program is reachable is  *)
(* module MiioProxy's; here it comes and goes.                             *)
(***************************************************************************)
EXTENDS Naturals, Sequences, FiniteSets

CONSTANTS
  Mac,         \* the devices
  Key,         \* their keys
  Untagged,    \* devices of MiBeacon versions 2 and 3: any key seems to fit
  MaxRekeys,   \* bound: devices linked (again) to the account
  MaxCrashes,  \* bound: gw3 stops at any moment and is started again
  MaxLost,     \* bound: queries or answers that are lost
  MaxFailures  \* bound: writes of the file that fail

NoKey == ""  \* a key that is not known

ASSUME KeysAssumption ==
  /\ NoKey \notin Key /\ Untagged \subseteq Mac
  /\ MaxRekeys \in Nat /\ MaxCrashes \in Nat /\ MaxLost \in Nat
  /\ MaxFailures \in Nat

Writers == {"miio", "mqtt"}  \* the goroutines that call SetBindKey

VARIABLES
  keys,     \* the key a device encrypts with, which is what the cloud knows
  devices,  \* config.Devices: a key, or "none" for a device that is not there
  file,     \* what /data/gw3.json holds
  queries,  \* miioBleQueries: devices asked for in the last hour
  asked,    \* queries on their way to the cloud
  answers,  \* answers on their way back
  reach,    \* TRUE: the Bluetooth program's connection is registered
  set,      \* what SetBindKey is doing in each writer
  up,       \* TRUE: gw3 runs
  overlap,  \* history: the last call of SetBindKey that stored a key began
            \* while the other writer was in one
  failed,   \* history: the last write of the file failed
  rekeys, crashes, lost, failures

memVars == <<devices, queries, set, up>>
netVars == <<asked, answers, reach, lost>>
history == <<overlap, failed, rekeys, crashes, failures>>
vars    == <<keys, file, history, memVars, netVars>>

NoDevices == [m \in Mac |-> "none"]
Devices   == [Mac -> Key \cup {NoKey, "none"}]
Torn      == [m \in Mac |-> "torn"]
Idle      == [pc |-> "idle", data |-> NoDevices]

Init ==
  /\ keys \in [Mac -> Key \cup (IF MaxRekeys > 0 THEN {NoKey} ELSE {})]
  /\ devices = NoDevices /\ file = NoDevices /\ queries = {}
  /\ asked = <<>> /\ answers = <<>> /\ reach = FALSE
  /\ set = [w \in Writers |-> Idle] /\ up = TRUE /\ overlap = FALSE /\ failed = FALSE
  /\ rekeys = 0 /\ crashes = 0 /\ lost = 0 /\ failures = 0

-----------------------------------------------------------------------------
(***************************************************************************)
(* An encrypted advertisement of m: GetBindkey and ParseMiBeacon, and a    *)
(* query (miioBleQueryDev) if there is no key or the key does not fit.  At *)
(* most one query an hour; it is counted before it is written.             *)
(***************************************************************************)
GetBindkey(m) == IF devices[m] = "none" THEN NoKey ELSE devices[m]
Decodes(m)    == GetBindkey(m) # NoKey /\ GetBindkey(m) = keys[m]
Fits(m)       == GetBindkey(m) # NoKey /\ (m \in Untagged \/ Decodes(m))

miioBleQueryDev(m) ==
  /\ up /\ ~Fits(m)
  /\ reach /\ m \notin queries
  /\ queries' = queries \cup {m}
  /\ asked' = Append(asked, m)
  /\ UNCHANGED <<keys, devices, file, answers, reach, set, up, history, lost>>

(* The cloud answers within the hour or never (Lose).                      *)
OnItsWay(m) ==
  \/ m \in {asked[i] : i \in DOMAIN asked}
  \/ m \in {answers[i].mac : i \in DOMAIN answers}

Hour(m) ==
  /\ m \in queries /\ ~OnItsWay(m)
  /\ queries' = queries \ {m}
  /\ UNCHANGED <<keys, devices, file, set, up, history, netVars>>

-----------------------------------------------------------------------------
(***************************************************************************)
(* SetBindKey(m, k) in writer w: update config.Devices, marshal it, then   *)
(* WriteFile, which truncates the file and writes it.  Either may fail; it *)
(* is logged, the map keeps the key, and nothing tries again: the next     *)
(* call with that key finds nothing changed.                               *)
(***************************************************************************)
StoreKey_NoNew(m, k) ==    \* slip: a device that is not there is not added
  devices' = IF devices[m] = "none" THEN devices ELSE [devices EXCEPT ![m] = k]

(* A device that is not in the map is added.  For one that is, the code    *)
(* assigns to a copy of the map's value, so the map keeps the old key.     *)
StoreKey(m, k) ==
  devices' = IF devices[m] = "none" THEN [devices EXCEPT ![m] = k] ELSE devices

SetBindKey_Early(w, m, k) ==  \* slip: marshalled before the key is stored
  /\ up /\ set[w].pc = "idle"
  /\ IF devices[m] = k
       THEN UNCHANGED <<devices, set, overlap>>
       ELSE /\ StoreKey(m, k) /\ set' = [set EXCEPT ![w] = [pc |-> "truncate", data |-> devices]]
            /\ overlap' = \E v \in Writers \ {w} : set[v].pc # "idle"
  /\ UNCHANGED <<keys, file, queries, reach, up, failed, rekeys, crashes, failures, lost>>

SetBindKey(w, m, k) ==
  /\ up /\ set[w].pc = "idle"
  /\ IF devices[m] = k
       THEN UNCHANGED <<devices, set, overlap>>
       ELSE /\ StoreKey(m, k) /\ set' = [set EXCEPT ![w].pc = "marshal"]
            /\ overlap' = \E v \in Writers \ {w} : set[v].pc # "idle"
  /\ UNCHANGED <<keys, file, queries, reach, up, failed, rekeys, crashes, failures, lost>>

Marshal(w) ==
  /\ up /\ set[w].pc = "marshal"
  /\ set' = [set EXCEPT ![w] = [pc |-> "truncate", data |-> devices]]
  /\ UNCHANGED <<keys, file, devices, queries, up, history, netVars>>

Truncate(w) ==
  /\ up /\ set[w].pc = "truncate"
  /\ file' = Torn
  /\ set' = [set EXCEPT ![w].pc = "write"]
  /\ UNCHANGED <<keys, devices, queries, up, history, netVars>>

(* Writes start at the beginning: over a longer content that another call  *)
(* has written since, the tail of that content stays.                      *)
Size(d) == Cardinality({m \in Mac : d[m] # "none"})

WriteFile(w) ==
  /\ up /\ set[w].pc = "write"
  /\ file' = IF file # Torn /\ Size(file) > Size(set[w].data) THEN Torn ELSE set[w].data
  /\ set' = [set EXCEPT ![w] = Idle]
  /\ failed' = FALSE
  /\ UNCHANGED <<keys, devices, queries, up, overlap, rekeys, crashes, failures, netVars>>

(* The file cannot be opened, and stays; or it has been truncated and      *)
(* cannot be written, or only a part of it.                                *)
WriteFails(w) ==
  /\ up /\ set[w].pc \in {"truncate", "write"} /\ failures < MaxFailures
  /\ file' \in IF set[w].pc = "truncate" THEN {file} ELSE {file, Torn}
  /\ set' = [set EXCEPT ![w] = Idle]
  /\ failed' = TRUE /\ failures' = failures + 1
  /\ UNCHANGED <<keys, devices, queries, up, overlap, rekeys, crashes, netVars>>

Writing == \E w \in Writers : Marshal(w) \/ Truncate(w) \/ WriteFile(w) \/ WriteFails(w)

(* The answer to a query, in miioSocketProxy.                              *)
Answer ==
  /\ answers # <<>>
  /\ answers' = Tail(answers)
  /\ SetBindKey("miio", Head(answers).mac, Head(answers).key)
  /\ UNCHANGED asked

(* A bindkey over MQTT, in BLEDevice.setState: the user sets the real one. *)
MqttSet(m) ==
  /\ keys[m] # NoKey /\ devices[m] # keys[m]
  /\ SetBindKey("mqtt", m, keys[m])
  /\ UNCHANGED <<asked, answers>>

-----------------------------------------------------------------------------
(***************************************************************************)
(* gw3 stops, at any moment, and is started again: mainInitConfig reads    *)
(* the file and panics if it cannot be parsed.                             *)
(***************************************************************************)
Crash ==
  /\ up /\ crashes < MaxCrashes
  /\ crashes' = crashes + 1
  /\ up' = FALSE
  /\ set' = [w \in Writers |-> Idle]
  /\ devices' = NoDevices /\ queries' = {} /\ asked' = <<>> /\ answers' = <<>>
  /\ reach' = FALSE /\ overlap' = FALSE /\ failed' = FALSE
  /\ UNCHANGED <<keys, file, rekeys, failures, lost>>

mainInitConfig ==
  /\ ~up /\ file # Torn
  /\ up' = TRUE
  /\ devices' = file
  /\ UNCHANGED <<keys, file, queries, set, history, netVars>>

-----------------------------------------------------------------------------
(***************************************************************************)
(* The cloud behind the agent, the Bluetooth program and the user.         *)
(***************************************************************************)
Cloud ==
  /\ asked # <<>>
  /\ asked' = Tail(asked)
  /\ answers' = Append(answers, [mac |-> Head(asked), key |-> keys[Head(asked)]])
  /\ UNCHANGED <<keys, file, history, reach, lost, memVars>>

Lose ==
  /\ asked # <<>> /\ lost < MaxLost
  /\ asked' = Tail(asked) /\ lost' = lost + 1
  /\ UNCHANGED <<keys, file, history, reach, answers, memVars>>

Connect ==
  /\ up /\ ~reach
  /\ reach' = TRUE
  /\ UNCHANGED <<keys, file, history, asked, answers, lost, memVars>>

(* The program's connection ends, and what was on it is lost.              *)
Disconnect ==
  /\ reach /\ lost < MaxLost
  /\ reach' = FALSE /\ lost' = lost + 1
  /\ asked' = <<>> /\ answers' = <<>>
  /\ UNCHANGED <<keys, file, history, memVars>>

(* The user links the device to the account, which gives it a new key.     *)
Rekey(m) ==
  /\ rekeys < MaxRekeys
  /\ rekeys' = rekeys + 1
  /\ \E k \in Key \ {keys[m]} : keys' = [keys EXCEPT ![m] = k]
  /\ UNCHANGED <<file, overlap, failed, crashes, failures, memVars, netVars>>

Next ==
  \/ \E m \in Mac : miioBleQueryDev(m) \/ Hour(m) \/ MqttSet(m) \/ Rekey(m)
  \/ Writing \/ Answer \/ Crash \/ mainInitConfig
  \/ Cloud \/ Lose \/ Connect \/ Disconnect

Spec == Init /\ [][Next]_vars

(* Devices keep advertising, hours pass, goroutines run, the Bluetooth     *)
(* program connects and the cloud answers what reaches it.                 *)
Fairness ==
  /\ \A m \in Mac : WF_vars(miioBleQueryDev(m)) /\ WF_vars(Hour(m))
  /\ \A w \in Writers : WF_vars(Marshal(w) \/ Truncate(w) \/ WriteFile(w))
  /\ WF_vars(Answer) /\ WF_vars(mainInitConfig) /\ WF_vars(Cloud) /\ WF_vars(Connect)

FairSpec == Spec /\ Fairness

-----------------------------------------------------------------------------
TypeOK ==
  /\ keys \in [Mac -> Key \cup {NoKey}]
  /\ devices \in Devices /\ file \in Devices \cup {Torn}
  /\ overlap \in BOOLEAN /\ failed \in BOOLEAN
  /\ queries \subseteq Mac /\ asked \in Seq(Mac)
  /\ answers \in Seq([mac : Mac, key : Key \cup {NoKey}])
  /\ reach \in BOOLEAN /\ up \in BOOLEAN
  /\ set \in [Writers -> [pc : {"idle", "marshal", "truncate", "write"}, data : Devices]]
  /\ rekeys \in 0..MaxRekeys /\ crashes \in 0..MaxCrashes /\ lost \in 0..MaxLost
  /\ failures \in 0..MaxFailures

(* gw3.go:164-188: while no call of SetBindKey is under way, the file      *)
(* holds the keys gw3 is using, so a restart would lose none.  There are   *)
(* two exceptions, each until the next call that stores a key by itself    *)
(* and is written: the last two calls overlapped, and the older map was    *)
(* written last; and the last write failed, which only the log shows.      *)
Quiet == \A w \in Writers : set[w].pc = "idle"
FileAgrees == up /\ Quiet /\ ~overlap /\ ~failed => file = devices

(* README.md:18, "the app will automatically retrieve encryption keys for  *)
(* your devices": in the end every device that has a key can be decoded,   *)
(* with the two exceptions the code has: a device that was linked to the   *)
(* account, again or for the first time, after something had been stored   *)
(* for it, be it the empty answer to a query (StoreKey); and a gw3 that    *)
(* was stopped while it wrote the file, or after it failed to, and cannot  *)
(* start on what is left of it.                                            *)
LinkedAgain(m) == rekeys > 0 /\ devices[m] \notin {"none", keys[m]}
FileLost       == ~up /\ file = Torn
KeysRetrieved  ==
  \A m \in Mac : <>[](keys[m] # NoKey => (up /\ Decodes(m)) \/ LinkedAgain(m) \/ FileLost)

=============================================================================
