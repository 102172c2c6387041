------------------------------ MODULE AdvPipe ------------------------------
(***************************************************************************)
(* What btchipReader does with an advertisement the chip has scanned       *)
(* (btchipProcessExtResponse): drop it if it was passed on less than five  *)
(* seconds ago, publish what it says over MQTT and write it to the         *)
(* Bluetooth program.  How it is decoded and rewritten is module           *)
(* ScanData's.                                                             *)
(*                                                                         *)
(* Sensors advertise one attribute at a time, with the same data as long   *)
(* as its value stays.  A tracker is known by its address or its iBeacon   *)
(* id, and may say more that varies (Beacon).  A tick is a part of the     *)
(* five seconds, and an advertisement is processed within one.             *)
(* btchipReader and mqttReader, which sets and clears mqttClient,          *)
(* interleave.  What happens to a message on a live session is module      *)
(* MqttSession's.                                                          *)
(***************************************************************************)
EXTENDS Integers, Sequences, FiniteSets

CONSTANTS
  Sensor, Tracker, \* the devices around
  Attr, Value,     \* what a sensor measures
  Varies,          \* those of Attr whose value changes meanwhile
  Beacon,          \* data a tracker may advertise
  Window,          \* ticks the same data is skipped for (5 s)
  Minute,          \* ticks between two clearings of the cache
  Threshold,       \* events of a tracker before it is detected (10)
  MaxChanges,      \* bound: changes of a sensor's values
  MaxOffline       \* bound: times the MQTT session is lost

ASSUME AdvPipeAssumption ==
  /\ Sensor \cap Tracker = {} /\ Sensor # {} /\ Attr # {} /\ Value # {} /\ Beacon # {}
  /\ Varies \subseteq Attr
  /\ Window \in Nat \ {0} /\ Minute \in Nat \ {0} /\ Threshold \in Nat \ {0}
  /\ MaxChanges \in Nat /\ MaxOffline \in Nat

None  == "none"
Never == -1     \* no age: not in the cache, not heard
Adv  == [mac : Sensor, attr : Attr, val : Value]
          \cup [mac : Tracker, attr : {"id"}, val : Beacon]

VARIABLES
  pc,       \* where btchipReader is with the advertisement at hand
  cur,      \* that advertisement, or NoAdv
  age,      \* RepeatFilter.cache: ticks since the entry was made, or Never
  clear,    \* RepeatFilter.clear, in ticks from now
  trackers, \* btchipTrackers: events of a tracker so far
  devices,  \* devices: those that have been found
  state,    \* BLEDevice.state
  online,   \* mqttClient # nil
  retained, \* retained .../state messages
  says,     \* what each sensor measures now
  idle,     \* ticks since an advertisement was given to the program
  present,  \* ticks since a tracker was first heard
  said,     \* the data a tracker has been heard with
  changes, offline

filterVars == <<age, clear>>
devVars    == <<trackers, devices, state>>
worldVars  == <<says, changes>>
histVars   == <<idle, present, said>>
vars == <<pc, cur, filterVars, devVars, online, offline, retained,
          worldVars, histVars>>

NoAdv   == CHOOSE a \in Adv : TRUE
Unknown == [a \in Attr |-> None]
AgeCap  == Threshold * Window

(* All values are alike: it does not matter which the sensors start with.  *)
Init ==
  /\ pc = "read" /\ cur = NoAdv
  /\ age = [a \in Adv |-> Never] /\ clear = 0
  /\ trackers = [d \in Tracker |-> 0] /\ devices = {}
  /\ state = [d \in Sensor |-> Unknown]
  /\ online = FALSE /\ offline = 0
  /\ retained = [d \in Sensor |-> Unknown]
  /\ says = [d \in Sensor |-> [a \in Attr |-> CHOOSE v \in Value : TRUE]] /\ changes = 0
  /\ idle = [a \in Adv |-> Window] /\ present = [d \in Tracker |-> Never]
  /\ said = [d \in Tracker |-> {}]

-----------------------------------------------------------------------------
(***************************************************************************)
(* RepeatFilter.Test: a repetition is younger than Window.  Entries are    *)
(* deleted once expired, if clear is still to come.  The age Window stands *)
(* for greater ones too: nothing tells them apart.                         *)
(***************************************************************************)
Repeated(a) == age[a] # Never /\ age[a] < Window

Cleared ==
  IF clear > 0
    THEN [a \in Adv |-> IF age[a] = Window THEN Never ELSE age[a]]
    ELSE age

Test_Forgets(a) ==      \* slip: the cache holds one entry only
  /\ clear' = IF clear > 0 THEN Minute ELSE clear
  /\ age' = IF Repeated(a) THEN Cleared ELSE [b \in Adv |-> IF b = a THEN 0 ELSE Never]

Test(a) ==
  /\ clear' = IF clear > 0 THEN Minute ELSE clear
  /\ age' = IF Repeated(a) THEN Cleared ELSE [Cleared EXCEPT ![a] = 0]

(* A scan response of the chip; the length of a repetition becomes zero.   *)
Hear(a) ==
  /\ pc = "read"
  /\ IF a.mac \in Sensor THEN a.val = says[a.mac][a.attr] ELSE TRUE
  /\ Test(a)
  /\ cur' = IF Repeated(a) THEN NoAdv ELSE a
  /\ pc' = IF Repeated(a) THEN "read" ELSE IF a.mac \in Tracker THEN "track" ELSE "info"
  /\ present' = IF a.mac \in Tracker /\ present[a.mac] = Never
                  THEN [present EXCEPT ![a.mac] = 0] ELSE present
  /\ said' = IF a.mac \in Tracker THEN [said EXCEPT ![a.mac] = @ \cup {a.val}] ELSE said
  /\ UNCHANGED <<devVars, online, offline, retained, worldVars, idle>>

-----------------------------------------------------------------------------
Detected(d) == trackers[d] >= Threshold

btchipProcessBLETracker_Early ==  \* slip: one event too early
  LET d == cur.mac IN
  /\ pc = "track"
  /\ trackers' = IF Detected(d) THEN trackers ELSE [trackers EXCEPT ![d] = @ + 1]
  /\ pc' = IF trackers'[d] >= Threshold THEN "info" ELSE "forward"
  /\ UNCHANGED <<cur, filterVars, devices, state, online, offline, retained,
                 worldVars, histVars>>

btchipProcessBLETracker_Counts ==  \* slip: goes on counting
  LET d == cur.mac IN
  /\ pc = "track"
  /\ trackers' = [trackers EXCEPT ![d] = @ + 1]
  /\ pc' = IF Detected(d) THEN "info" ELSE "forward"
  /\ UNCHANGED <<cur, filterVars, devices, state, online, offline, retained,
                 worldVars, histVars>>

btchipProcessBLETracker ==
  LET d == cur.mac IN
  /\ pc = "track"
  /\ trackers' = IF Detected(d) THEN trackers ELSE [trackers EXCEPT ![d] = @ + 1]
  /\ pc' = IF Detected(d) THEN "info" ELSE "forward"
  /\ UNCHANGED <<cur, filterVars, devices, state, online, offline, retained,
                 worldVars, histVars>>

(* btchipProcessBLE, newBLEDevice; the info message that is published once *)
(* is left out.                                                            *)
(* What the sensors here say can be decoded.                               *)
newBLEDevice ==
  /\ pc = "info"
  /\ devices' = devices \cup {cur.mac}
  /\ pc' = "state"
  /\ UNCHANGED <<cur, filterVars, trackers, state, online, offline, retained,
                 worldVars, histVars>>

Publish_Delta(d) ==     \* slip: only what the advertisement says is published
  retained' = IF online THEN [retained EXCEPT ![d] = [Unknown EXCEPT ![cur.attr] = cur.val]]
              ELSE retained

Publish(d) ==
  retained' = IF online THEN [retained EXCEPT ![d] = state'[d]] ELSE retained

updateState ==
  /\ pc = "state"
  /\ IF cur.mac \in Sensor
       THEN /\ state' = [state EXCEPT ![cur.mac][cur.attr] = cur.val]
            /\ Publish(cur.mac)
       ELSE UNCHANGED <<state, retained>>
  /\ pc' = "forward"
  /\ UNCHANGED <<cur, filterVars, trackers, devices, online, offline,
                 worldVars, histVars>>

Forward ==
  /\ pc = "forward"
  /\ idle' = [idle EXCEPT ![cur] = 0]
  /\ pc' = "read" /\ cur' = NoAdv
  /\ UNCHANGED <<filterVars, devVars, online, offline, retained, worldVars, present, said>>

-----------------------------------------------------------------------------
(***************************************************************************)
(* Time, the MQTT session and the sensors.                                 *)
(***************************************************************************)
Older(n, cap) == IF n = Never THEN Never ELSE IF n < cap THEN n + 1 ELSE n

Tick ==
  /\ pc = "read"
  /\ age'     = [a \in Adv |-> Older(age[a], Window)]
  /\ clear'   = IF clear > -1 THEN clear - 1 ELSE clear
  /\ idle'    = [a \in Adv |-> Older(idle[a], Window)]
  /\ present' = [d \in Tracker |-> Older(present[d], AgeCap)]
  /\ UNCHANGED <<pc, cur, devVars, online, offline, retained, worldVars, said>>

Connect ==
  /\ ~online /\ online' = TRUE
  /\ UNCHANGED <<pc, cur, filterVars, devVars, offline, retained, worldVars, histVars>>

Disconnect ==
  /\ online /\ offline < MaxOffline
  /\ online' = FALSE /\ offline' = offline + 1
  /\ UNCHANGED <<pc, cur, filterVars, devVars, retained, worldVars, histVars>>

Change(d) ==
  /\ pc = "read" /\ changes < MaxChanges
  /\ changes' = changes + 1
  /\ \E a \in Varies, v \in Value : says[d][a] # v /\ says' = [says EXCEPT ![d][a] = v]
  /\ UNCHANGED <<pc, cur, filterVars, devVars, online, offline, retained, histVars>>

Process == btchipProcessBLETracker \/ newBLEDevice \/ updateState \/ Forward

Next ==
  \/ \E a \in Adv : Hear(a)
  \/ Process \/ Tick \/ Connect \/ Disconnect
  \/ \E d \in Sensor : Change(d)

Spec == Init /\ [][Next]_vars

(* Devices keep advertising what they measure, the reader runs, time       *)
(* passes and mqttReader reconnects.  Reading and time share pc = "read",  *)
(* which is left again and again: hence SF.                                *)
FairSpec ==
  /\ Spec /\ WF_vars(Process) /\ SF_vars(Tick) /\ WF_vars(Connect)
  /\ \A d \in Sensor, a \in Attr :
       SF_vars(Hear([mac |-> d, attr |-> a, val |-> says[d][a]]))

-----------------------------------------------------------------------------
TypeOK ==
  /\ pc \in {"read", "track", "info", "state", "forward"} /\ cur \in Adv
  /\ age \in [Adv -> Never..Window] /\ clear \in -1..Minute
  /\ trackers \in [Tracker -> 0..Threshold] /\ devices \subseteq Sensor \cup Tracker
  /\ state \in [Sensor -> [Attr -> Value \cup {None}]]
  /\ retained \in [Sensor -> [Attr -> Value \cup {None}]]
  /\ online \in BOOLEAN
  /\ says \in [Sensor -> [Attr -> Value]]
  /\ idle \in [Adv -> 0..Window] /\ present \in [Tracker -> Never..AgeCap]
  /\ said \in [Tracker -> SUBSET Beacon]
  /\ changes \in 0..MaxChanges /\ offline \in 0..MaxOffline

(* btchip_reader.go:199, 318-325, "skips same data for 5 seconds": what is *)
(* heard is skipped if, and only if, the program was given the same data   *)
(* within the window, whatever other data comes between; a device that     *)
(* repeats itself all the time is still passed on once in every window.    *)
OncePerWindow ==
  [][\A a \in Adv : Hear(a) => (pc' = "read" <=> idle[a] < Window)]_vars

(* btchip_reader.go:283, "detects tracker only after 10 events": with the  *)
(* filter in front of the count, something that always advertises the same *)
(* and is gone before ten windows are over is not taken for a tracker.     *)
(* What varies passes the filter once a window with each of the data it    *)
(* has said, and is counted each time: it takes accordingly less.          *)
TrackerStays ==
  [][\A d \in Tracker : d \in devices' \ devices =>
       LET n == Cardinality(said[d])
       IN  present[d] * n >= Window * (Threshold + 1 - n)]_vars

(* device_ble.go:88-102: the retained state of a sensor becomes what it    *)
(* measures, although its attributes come one by one, while the session    *)
(* comes and goes and a value that returns within the window is skipped.   *)
Current == \A d \in Sensor : <>[](retained[d] = says[d])

=============================================================================
