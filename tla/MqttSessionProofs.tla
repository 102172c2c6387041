------------------------- MODULE MqttSessionProofs -------------------------
(***************************************************************************)
(* Proofs about MqttSession, for every number of publishers, connections,  *)
(* messages and for every capacity of the queues: the type invariant, and  *)
(* the order in which the broker receives what each goroutine publishes.   *)
(***************************************************************************)
EXTENDS MqttSession, SequenceTheorems, TLAPS

Jobs == MainJobs \cup PubJobs

IsPub(j) == j.type = "publish"

(* a and b are not of the same publisher, or a is the older of the two.    *)
Behind(a, b) == IsPub(a) /\ IsPub(b) /\ a.from = b.from => a.num < b.num

Rising(q)    == \A i, j \in DOMAIN q : i < j => Behind(q[i], q[j])
Before(q, r) == \A i \in DOMAIN q, j \in DOMAIN r : Behind(q[i], r[j])
After(q, b)  == \A i \in DOMAIN q : Behind(q[i], b)
Ahead(a, q)  == \A i \in DOMAIN q : Behind(a, q[i])

(* q is what is left of r after a prefix has gone.                         *)
Suffix(q, r) == \E k \in Nat : \A i \in DOMAIN q : i + k \in DOMAIN r /\ q[i] = r[i + k]

-----------------------------------------------------------------------------
(***************************************************************************)
(* Queues.                                                                 *)
(***************************************************************************)
LEMMA JobFacts ==
  ASSUME NEW j \in Jobs
  PROVE  IsPub(j) => j.from \in Publishers /\ j.num \in 1..MaxMsgs
BY DEF Jobs, MainJobs, PubJobs, Job, IsPub

LEMMA MainJob ==
  ASSUME NEW t \in {"connect", "info", "subscribe", "log"}
  PROVE  Job(t, "main", 0) \in Jobs /\ ~IsPub(Job(t, "main", 0))
BY DEF Jobs, MainJobs, Job, IsPub

LEMMA Empty ==
  /\ \A S : <<>> \in Seq(S)
  /\ DOMAIN <<>> = {} /\ Len(<<>>) = 0
OBVIOUS

LEMMA Elements ==
  ASSUME NEW S, NEW q \in Seq(S)
  PROVE  /\ Len(q) \in Nat /\ DOMAIN q = 1..Len(q)
         /\ \A i \in DOMAIN q : i \in Nat /\ i >= 1 /\ q[i] \in S
OBVIOUS

LEMMA Appended ==
  ASSUME NEW S, NEW q \in Seq(S), NEW x \in S
  PROVE  /\ Append(q, x) \in Seq(S) /\ Len(Append(q, x)) = Len(q) + 1
         /\ Append(q, x)[Len(q) + 1] = x
         /\ \A i \in DOMAIN q : i \in DOMAIN Append(q, x) /\ Append(q, x)[i] = q[i]
         /\ \A i \in DOMAIN Append(q, x) :
              (i \in DOMAIN q /\ Append(q, x)[i] = q[i]) \/ (i = Len(q) + 1 /\ Append(q, x)[i] = x)
BY AppendProperties, Elements

LEMMA Shortened ==
  ASSUME NEW S, NEW q \in Seq(S), q # <<>>
  PROVE  /\ Len(q) >= 1 /\ 1 \in DOMAIN q /\ Head(q) = q[1] /\ Head(q) \in S
         /\ Tail(q) \in Seq(S) /\ Len(Tail(q)) = Len(q) - 1
         /\ \A i \in DOMAIN Tail(q) : i + 1 \in DOMAIN q /\ Tail(q)[i] = q[i + 1]
<1>1. Len(q) >= 1 /\ 1 \in DOMAIN q /\ Head(q) = q[1] /\ Head(q) \in S
  BY Elements, HeadTailProperties
<1>2. Tail(q) \in Seq(S) /\ Len(Tail(q)) = Len(q) - 1
      /\ \A i \in 1..Len(Tail(q)) : Tail(q)[i] = q[i + 1]
  BY HeadTailProperties
<1>3. DOMAIN Tail(q) = 1..(Len(q) - 1) /\ DOMAIN q = 1..Len(q) /\ Len(q) \in Nat
  BY <1>2, Elements
<1>4. QED  BY <1>1, <1>2, <1>3

LEMMA Suffixes ==
  ASSUME NEW S, NEW q \in Seq(S)
  PROVE  Suffix(q, q) /\ Suffix(<<>>, q) /\ (q # <<>> => Suffix(Tail(q), q))
<1>1. Suffix(q, q)
  <2>1. \A i \in DOMAIN q : i + 0 \in DOMAIN q /\ q[i] = q[i + 0]
    BY Elements
  <2>2. QED  BY <2>1 DEF Suffix
<1>2. Suffix(<<>>, q)
  BY Empty DEF Suffix
<1>3. ASSUME q # <<>> PROVE Suffix(Tail(q), q)
  BY <1>3, Shortened DEF Suffix
<1>4. QED  BY <1>1, <1>2, <1>3

LEMMA OrderOfSuffix ==
  ASSUME NEW q \in Seq(Jobs), NEW q1 \in Seq(Jobs), NEW r \in Seq(Jobs), NEW r1 \in Seq(Jobs),
         Suffix(q1, q), Suffix(r1, r)
  PROVE  (Rising(q) => Rising(q1)) /\ (Before(q, r) => Before(q1, r1))
<1>1. PICK k \in Nat : \A i \in DOMAIN q1 : i + k \in DOMAIN q /\ q1[i] = q[i + k]
  BY DEF Suffix
<1>2. PICK l \in Nat : \A i \in DOMAIN r1 : i + l \in DOMAIN r /\ r1[i] = r[i + l]
  BY DEF Suffix
<1>3. ASSUME Rising(q) PROVE Rising(q1)
  <2>1. SUFFICES ASSUME NEW i \in DOMAIN q1, NEW j \in DOMAIN q1, i < j
                 PROVE  Behind(q1[i], q1[j])
    BY DEF Rising
  <2>2. i + k \in DOMAIN q /\ j + k \in DOMAIN q /\ q1[i] = q[i + k] /\ q1[j] = q[j + k]
    BY <1>1
  <2>3. i + k < j + k
    BY <2>1, Elements
  <2>4. QED  BY <1>3, <2>2, <2>3 DEF Rising
<1>4. ASSUME Before(q, r) PROVE Before(q1, r1)
  BY <1>1, <1>2, <1>4 DEF Before
<1>5. QED  BY <1>3, <1>4

LEMMA OrderOfEmpty ==
  ASSUME NEW q
  PROVE  Rising(<<>>) /\ Before(<<>>, q) /\ Before(q, <<>>)
BY Empty DEF Rising, Before

LEMMA OrderOfAppend ==
  ASSUME NEW q \in Seq(Jobs), NEW r \in Seq(Jobs), NEW j \in Jobs
  PROVE  /\ Rising(q) /\ After(q, j) => Rising(Append(q, j))
         /\ Before(q, r) /\ Ahead(j, r) => Before(Append(q, j), r)
         /\ Before(r, q) /\ After(r, j) => Before(r, Append(q, j))
<1> DEFINE q1 == Append(q, j)
<1>1. \A i \in DOMAIN q1 : (i \in DOMAIN q /\ q1[i] = q[i]) \/ (i = Len(q) + 1 /\ q1[i] = j)
  BY Appended
<1>2. Len(q) \in Nat /\ \A i \in DOMAIN q : i \in Nat /\ i <= Len(q)
  BY Elements
<1> HIDE DEF q1
<1>3. ASSUME Rising(q), After(q, j) PROVE Rising(q1)
  <2>1. SUFFICES ASSUME NEW i \in DOMAIN q1, NEW k \in DOMAIN q1, i < k
                 PROVE  Behind(q1[i], q1[k])
    BY DEF Rising
  <2>2. i \in DOMAIN q /\ q1[i] = q[i]
    BY <1>1, <1>2, <2>1
  <2>3. QED  BY <1>1, <1>3, <2>1, <2>2 DEF Rising, After
<1>4. ASSUME Before(q, r), Ahead(j, r) PROVE Before(q1, r)
  BY <1>1, <1>4 DEF Before, Ahead
<1>5. ASSUME Before(r, q), After(r, j) PROVE Before(r, q1)
  BY <1>1, <1>5 DEF Before, After
<1>6. QED  BY <1>3, <1>4, <1>5 DEF q1

LEMMA OrderOfHead ==
  ASSUME NEW q \in Seq(Jobs), NEW r \in Seq(Jobs), q # <<>>
  PROVE  /\ Head(q) \in Jobs /\ Tail(q) \in Seq(Jobs)
         /\ Rising(q) => Ahead(Head(q), Tail(q))
         /\ Before(q, r) => Ahead(Head(q), r)
         /\ Before(r, q) => After(r, Head(q))
<1>1. /\ Head(q) = q[1] /\ 1 \in DOMAIN q /\ Head(q) \in Jobs /\ Tail(q) \in Seq(Jobs)
      /\ \A i \in DOMAIN Tail(q) : i + 1 \in DOMAIN q /\ Tail(q)[i] = q[i + 1]
  BY Shortened
<1>2. \A i \in DOMAIN Tail(q) : i \in Nat /\ i >= 1
  BY <1>1, Elements
<1>3. ASSUME Rising(q) PROVE Ahead(Head(q), Tail(q))
  <2>1. SUFFICES ASSUME NEW i \in DOMAIN Tail(q) PROVE Behind(q[1], Tail(q)[i])
    BY <1>1 DEF Ahead
  <2>2. 1 < i + 1
    BY <1>2
  <2>3. QED  BY <1>1, <1>3, <2>2 DEF Rising
<1>4. QED  BY <1>1, <1>3 DEF Before, Ahead, After

-----------------------------------------------------------------------------
(***************************************************************************)
(* Types.  Numbers is what they need: which numbers are 0, or in range.    *)
(***************************************************************************)
Numbers ==
  /\ mqttClient \in {0, last}
  /\ main # "dial" => last # 0
  /\ \A p \in Publishers : pub[p] # "idle" => seq[p] <= MaxMsgs
  /\ \A p \in Publishers : using[p] <= last
  /\ ~panic => \A p \in Publishers : pub[p] = "send" => using[p] # 0

TypeInv == TypeOK /\ Numbers

LEMMA Constants ==
  /\ QueueLength \in Nat /\ QueueLength >= 1
  /\ MaxSessions \in Nat /\ MaxBreaks \in Nat /\ MaxMsgs \in Nat /\ MaxSets \in Nat
  /\ Session = 1..MaxSessions
BY SessionAssumption DEF Session

LEMMA Sends ==
  ASSUME TypeOK, NEW s \in Session, NEW j \in Jobs, Send(s, j)
  PROVE  /\ out' = out \/ out' = [out EXCEPT ![s] = Append(out[s], j)]
         /\ panic' \in BOOLEAN
         /\ out' \in [Session -> Seq(Jobs)]
         /\ \A t \in Session : Len(out'[t]) <= QueueLength
<1>0. out \in [Session -> Seq(Jobs)] /\ \A t \in Session : Len(out[t]) <= QueueLength
  BY DEF TypeOK, Jobs
<1>1. CASE OutClosed(s)
  BY <1>0, <1>1 DEF Send
<1>2. CASE ~OutClosed(s)
  <2>1. /\ Len(out[s]) < QueueLength /\ panic' = FALSE
        /\ out' = [out EXCEPT ![s] = Append(out[s], j)]
    BY <1>2 DEF Send
  <2>2. /\ Append(out[s], j) \in Seq(Jobs) /\ Len(Append(out[s], j)) = Len(out[s]) + 1
        /\ Len(out[s]) \in Nat
    BY <1>0, Appended, Elements
  <2>3. Len(Append(out[s], j)) <= QueueLength
    BY <2>1, <2>2, Constants
  <2>4. \A t \in Session : out'[t] = IF t = s THEN Append(out[s], j) ELSE out[t]
    BY <1>0, <2>1
  <2>5. QED  BY <1>0, <2>1, <2>2, <2>3, <2>4
<1>3. QED  BY <1>1, <1>2

LEMMA TypeInit == Init => TypeInv
<1> SUFFICES ASSUME Init PROVE TypeInv
  OBVIOUS
<1>1. TypeOK
  <2>1. /\ \A s \in Session : out[s] = <<>> /\ incoming[s] = <<>> /\ up[s] = <<>> /\ down[s] = <<>>
        /\ out \in [Session -> Seq(Jobs)] /\ incoming \in [Session -> Seq({"set"})]
        /\ up \in [Session -> Seq(Jobs)]
        /\ down \in [Session -> Seq({"connack", "refused", "suback", "set"})]
    BY Empty DEF Init
  <2>2. \A s \in Session : Len(out[s]) <= QueueLength /\ Len(incoming[s]) <= QueueLength
    BY <2>1, Constants, Empty
  <2>3. delivered \in Seq(PubJobs)
    BY Empty DEF Init
  <2>4. 0 \in 0..MaxSessions /\ 0 \in 0..MaxBreaks /\ 0 \in 0..MaxSets /\ 1 \in 1..(MaxMsgs + 1)
    BY Constants
  <2>5. QED  BY <2>1, <2>2, <2>3, <2>4 DEF Init, TypeOK, Jobs
<1>2. Numbers
  BY DEF Init, Numbers
<1>3. QED  BY <1>1, <1>2 DEF TypeInv

LEMMA TypeMain ==
  ASSUME TypeInv, ~panic, Main
  PROVE  TypeInv'
<1> USE Constants
<1>0. TypeOK /\ Numbers /\ last \in 0..MaxSessions
  BY DEF TypeInv, TypeOK
<1>last. main # "dial" => last \in Session
  BY <1>0 DEF Numbers
<1>1. CASE MainDial
  <2>1. last + 1 \in Session /\ last' = last + 1 /\ mqttClient' = last' /\ main' = "connect"
    BY <1>0, <1>1 DEF MainDial
  <2>2. /\ rd' = [rd EXCEPT ![last'] = "read"] /\ wr' = [wr EXCEPT ![last'] = "range"]
        /\ link' = [link EXCEPT ![last'] = TRUE]
        /\ UNCHANGED <<receipt, out, incoming, up, down, connected, delivered, breaks, sets,
                       pubVars, panic>>
    BY <1>1 DEF MainDial
  <2>3. TypeOK'
    <3>1. last' \in 0..MaxSessions /\ mqttClient' \in 0..MaxSessions /\ last' \in Session
      BY <2>1
    <3>2. /\ rd' \in [Session -> {"none", "read", "set", "connack", "refused", "suback",
                                  "closeout", "closeinc", "closeconn", "done"}]
          /\ wr' \in [Session -> {"none", "range", "done"}] /\ link' \in [Session -> BOOLEAN]
      BY <1>0, <2>2 DEF TypeOK
    <3>3. QED  BY ONLY <1>0, <2>1, <2>2, <3>1, <3>2 DEF TypeOK, pubVars
  <2>4. \A p \in Publishers : using[p] <= last'
    BY <1>0, <2>1 DEF Numbers, TypeOK
  <2>5. Numbers'
    BY <1>0, <2>1, <2>2, <2>4 DEF Numbers, pubVars
  <2>6. QED  BY <2>3, <2>5 DEF TypeInv
<1>2. ASSUME NEW type \in {"connect", "info", "subscribe", "log"},
             NEW to \in {"connwait", "subscribe", "subwait", "drop"},
             main # "dial", MainQueue(main, type, to)
      PROVE  TypeInv'
  <2>1. /\ Send(last, Job(type, "main", 0)) /\ main' = to /\ receipt' = FALSE
        /\ UNCHANGED <<mqttClient, last, incoming, rd, wr, netVars, pubVars>>
    BY <1>2 DEF MainQueue
  <2>2. /\ panic' \in BOOLEAN /\ out' \in [Session -> Seq(Jobs)]
        /\ \A t \in Session : Len(out'[t]) <= QueueLength
    BY <1>0, <1>last, <1>2, <2>1, MainJob, Sends
  <2>3. TypeOK'
    BY <1>0, <2>1, <2>2 DEF TypeOK, Jobs, netVars, pubVars
  <2>4. Numbers'
    BY <1>0, <1>2, <2>1 DEF Numbers, pubVars
  <2>5. QED  BY <2>3, <2>4 DEF TypeInv
<1>3. ASSUME NEW to \in {"connack", "suback"}, main # "dial", MainReceipt(main, to)
      PROVE  TypeInv'
  BY <1>0, <1>3 DEF MainReceipt, TypeInv, TypeOK, Numbers, connVars, netVars, pubVars
<1>4. ASSUME NEW to \in {"info", "serve"}, main # "dial", MainAck(main, to)
      PROVE  TypeInv'
  BY <1>0, <1>4 DEF MainAck, TypeInv, TypeOK, Numbers, netVars, pubVars
<1>5. CASE MainRefused
  BY <1>0, <1>5 DEF MainRefused, TypeInv, TypeOK, Numbers, netVars, pubVars
<1>6. CASE MainServe
  <2>1. /\ main = "serve" /\ incoming[last] # <<>>
        /\ incoming' = [incoming EXCEPT ![last] = Tail(incoming[last])]
        /\ UNCHANGED <<mainVars, out, rd, wr, netVars, pubVars, panic>>
    BY <1>6 DEF MainServe
  <2>2. /\ incoming[last] \in Seq({"set"}) /\ Len(incoming[last]) <= QueueLength
        /\ incoming \in [Session -> Seq({"set"})]
    BY <1>0, <1>last, <2>1 DEF TypeOK
  <2>3. Tail(incoming[last]) \in Seq({"set"}) /\ Len(Tail(incoming[last])) <= QueueLength
    BY <2>1, <2>2, Shortened, Elements
  <2>4. /\ incoming' \in [Session -> Seq({"set"})]
        /\ \A s \in Session : Len(incoming'[s]) <= QueueLength
    BY <1>0, <1>last, <2>1, <2>2, <2>3 DEF TypeOK
  <2>5. TypeOK'
    BY <1>0, <2>1, <2>4 DEF TypeOK, mainVars, netVars, pubVars
  <2>6. QED  BY <1>0, <2>1, <2>5 DEF TypeInv, Numbers, mainVars, pubVars
<1>7. CASE MainServeEnd
  BY <1>0, <1>7 DEF MainServeEnd, TypeInv, TypeOK, Numbers, connVars, netVars, pubVars
<1>8. CASE MainDrop
  <2>1. TypeOK'
    <3>1. 0 \in 0..MaxSessions
      OBVIOUS
    <3>2. /\ mqttClient' = 0 /\ main' = "dial"
          /\ UNCHANGED <<last, receipt, connVars, netVars, pubVars, panic>>
      BY <1>8 DEF MainDrop
    <3>3. QED  BY ONLY <1>0, <3>1, <3>2 DEF TypeOK, connVars, netVars, pubVars
  <2>2. Numbers'
    BY <1>0, <1>8 DEF MainDrop, Numbers, connVars, netVars, pubVars
  <2>3. QED  BY <2>1, <2>2 DEF TypeInv
<1>9. QED
  <2>1. CASE \/ MainQueue("connect", "connect", "connwait") \/ MainQueue("log", "log", "drop")
             \/ MainQueue("info", "info", "subscribe")
             \/ MainQueue("subscribe", "subscribe", "subwait")
    BY <1>2, <2>1 DEF MainQueue
  <2>2. CASE MainReceipt("connwait", "connack") \/ MainReceipt("subwait", "suback")
    BY <1>3, <2>2 DEF MainReceipt
  <2>3. CASE MainAck("connack", "info") \/ MainAck("suback", "serve")
    BY <1>4, <2>3 DEF MainAck
  <2>4. QED  BY <1>1, <1>5, <1>6, <1>7, <1>8, <2>1, <2>2, <2>3 DEF Main

LEMMA TypePublisher ==
  ASSUME TypeInv, ~panic, NEW p \in Publishers, Publisher(p)
  PROVE  TypeInv'
<1> USE Constants
<1>0. TypeOK /\ Numbers /\ seq[p] \in 1..(MaxMsgs + 1)
  BY DEF TypeInv, TypeOK
<1>1. CASE PublishCheck(p)
  <2>1. /\ seq[p] <= MaxMsgs /\ UNCHANGED <<using, mainVars, connVars, netVars, panic>>
        /\ \/ Next1(p) /\ pub' = pub /\ pub[p] = "idle"
           \/ pub' = [pub EXCEPT ![p] = "load"] /\ seq' = seq
    BY <1>1 DEF PublishCheck
  <2>2. seq' \in [Publishers -> 1..(MaxMsgs + 1)]
    <3>1. seq[p] <= MaxMsgs /\ seq \in [Publishers -> 1..(MaxMsgs + 1)]
      BY <1>0, <2>1 DEF TypeOK
    <3>2. seq[p] + 1 \in 1..(MaxMsgs + 1)
      BY <1>0, <3>1
    <3>3. seq' = [seq EXCEPT ![p] = seq[p] + 1] \/ seq' = seq
      BY <2>1 DEF Next1
    <3>4. QED  BY <3>1, <3>2, <3>3
  <2>3. pub' \in [Publishers -> {"idle", "load", "send"}]
    BY <1>0, <2>1 DEF TypeOK
  <2>4. TypeOK'
    BY <1>0, <2>1, <2>2, <2>3 DEF TypeOK, mainVars, connVars, netVars
  <2>5. Numbers'
    BY <1>0, <2>1 DEF Next1, TypeOK, Numbers, mainVars
  <2>6. QED  BY <2>4, <2>5 DEF TypeInv
<1>2. CASE PublishLoad(p)
  <2>1. /\ pub[p] = "load" /\ pub' = [pub EXCEPT ![p] = "send"]
        /\ using' = [using EXCEPT ![p] = mqttClient] /\ panic' = (mqttClient = 0)
        /\ UNCHANGED <<seq, mainVars, connVars, netVars>>
    BY <1>2 DEF PublishLoad
  <2>2. TypeOK'
    BY <1>0, <2>1 DEF TypeOK, mainVars, connVars, netVars
  <2>3. mqttClient <= last
    BY <1>0 DEF Numbers, TypeOK
  <2>4. QED
    BY <1>0, <2>1, <2>2, <2>3 DEF TypeInv, TypeOK, Numbers, mainVars
<1>3. CASE PublishSend(p)
  <2>1. /\ pub[p] = "send" /\ Send(using[p], Job("publish", p, seq[p]))
        /\ pub' = [pub EXCEPT ![p] = "idle"] /\ Next1(p)
        /\ UNCHANGED <<using, mainVars, incoming, rd, wr, netVars>>
    BY <1>3 DEF PublishSend
  <2>2. using[p] \in Session /\ seq[p] \in 1..MaxMsgs
    <3>1. using[p] # 0 /\ seq[p] <= MaxMsgs
      BY <1>0, <2>1 DEF Numbers
    <3>2. using[p] \in 0..MaxSessions
      BY <1>0 DEF TypeOK
    <3>3. QED  BY <1>0, <3>1, <3>2
  <2>3. Job("publish", p, seq[p]) \in Jobs
    BY <2>2 DEF Jobs, PubJobs
  <2>4. /\ panic' \in BOOLEAN /\ out' \in [Session -> Seq(Jobs)]
        /\ \A t \in Session : Len(out'[t]) <= QueueLength
    BY <1>0, <2>1, <2>2, <2>3, Sends
  <2>5. seq' \in [Publishers -> 1..(MaxMsgs + 1)]
    <3>1. seq[p] + 1 \in 1..(MaxMsgs + 1)
      BY <2>2
    <3>2. seq' = [seq EXCEPT ![p] = seq[p] + 1] /\ seq \in [Publishers -> 1..(MaxMsgs + 1)]
      BY <1>0, <2>1 DEF TypeOK, Next1
    <3>3. QED  BY <3>1, <3>2
  <2>6. TypeOK'
    BY <1>0, <2>1, <2>4, <2>5 DEF TypeOK, Jobs, mainVars, netVars
  <2>7. Numbers'
    BY <1>0, <2>1 DEF Next1, TypeOK, Numbers, mainVars
  <2>8. QED  BY <2>6, <2>7 DEF TypeInv
<1>4. QED  BY <1>1, <1>2, <1>3 DEF Publisher

LEMMA Updated ==
  ASSUME NEW S, NEW f \in [Session -> Seq(S)], NEW s \in Session
  PROVE  /\ \A x \in S : [f EXCEPT ![s] = Append(f[s], x)] \in [Session -> Seq(S)]
         /\ f[s] # <<>> => [f EXCEPT ![s] = Tail(f[s])] \in [Session -> Seq(S)]
         /\ [f EXCEPT ![s] = <<>>] \in [Session -> Seq(S)]
<1>1. f[s] \in Seq(S)
  OBVIOUS
<1>2. \A x \in S : Append(f[s], x) \in Seq(S)
  BY <1>1, Appended
<1>3. f[s] # <<>> => Tail(f[s]) \in Seq(S)
  BY <1>1, Shortened
<1>4. <<>> \in Seq(S)
  BY Empty
<1>5. QED  BY <1>2, <1>3, <1>4

Answers == {"connack", "refused", "suback", "set"}

LEMMA TypeConn ==
  ASSUME TypeInv, NEW s \in Session, Reader(s) \/ Writer(s)
  PROVE  TypeInv'
<1>0. /\ TypeOK /\ Numbers
      /\ out \in [Session -> Seq(Jobs)] /\ up \in [Session -> Seq(Jobs)]
      /\ incoming \in [Session -> Seq({"set"})] /\ down \in [Session -> Seq(Answers)]
      /\ \A t \in Session : Len(out[t]) <= QueueLength /\ Len(incoming[t]) <= QueueLength
  BY DEF TypeInv, TypeOK, Jobs, Answers
<1>kept. UNCHANGED <<mqttClient, last, main, pubVars, panic>>
  BY DEF Reader, ReaderRead, ReaderIncoming, ReaderEnd, ReaderClose, Writer, WriterWrite,
         WriterEnd, mainVars
<1>1. CASE ReaderRead(s)
  <2>1. /\ down[s] # <<>> /\ rd' = [rd EXCEPT ![s] = Head(down[s])]
        /\ down' = [down EXCEPT ![s] = Tail(down[s])]
        /\ UNCHANGED <<mainVars, out, incoming, wr, link, up, connected, delivered, breaks, sets,
                       pubVars, panic>>
    BY <1>1 DEF ReaderRead, ReaderGoto
  <2>2. down' \in [Session -> Seq(Answers)]
    BY <1>0, <2>1, Updated
  <2>3. Head(down[s]) \in Answers
    BY <1>0, <2>1, Shortened
  <2>4. TypeOK'
    BY <1>0, <2>1, <2>2, <2>3 DEF TypeOK, Answers, mainVars, pubVars
  <2>5. QED  BY <1>0, <1>kept, <2>4 DEF TypeInv, Numbers, pubVars
<1>2. CASE ReaderIncoming(s)
  <2>1. /\ Len(incoming[s]) < QueueLength
        /\ incoming' = [incoming EXCEPT ![s] = Append(incoming[s], "set")]
        /\ rd' = [rd EXCEPT ![s] = "read"]
        /\ UNCHANGED <<mainVars, out, wr, netVars, pubVars, panic>>
    BY <1>2 DEF ReaderIncoming, ReaderGoto
  <2>2. incoming' \in [Session -> Seq({"set"})]
    BY <1>0, <2>1, Updated
  <2>3. \A t \in Session : Len(incoming'[t]) <= QueueLength
    <3>1. incoming[s] \in Seq({"set"})
      BY <1>0
    <3>2. Len(Append(incoming[s], "set")) = Len(incoming[s]) + 1 /\ Len(incoming[s]) \in Nat
      BY <3>1, Appended, Elements
    <3>3. Len(Append(incoming[s], "set")) <= QueueLength
      BY <2>1, <3>2, Constants
    <3>4. \A t \in Session : incoming'[t] = IF t = s THEN Append(incoming[s], "set") ELSE incoming[t]
      BY <1>0, <2>1
    <3>5. QED  BY <1>0, <3>3, <3>4
  <2>4. TypeOK'
    BY <1>0, <2>1, <2>2, <2>3 DEF TypeOK, mainVars, netVars, pubVars
  <2>5. QED  BY <1>0, <1>kept, <2>4 DEF TypeInv, Numbers, pubVars
<1>3. CASE ReaderEnd(s) \/ ReaderClose(s)
  <2>1. /\ \E label \in {"closeout", "closeinc", "closeconn", "done"} : rd' = [rd EXCEPT ![s] = label]
        /\ UNCHANGED <<mainVars, out, incoming, wr, netVars, pubVars, panic>>
    BY <1>3 DEF ReaderEnd, ReaderClose, ReaderGoto
  <2>2. TypeOK'
    BY <1>0, <2>1 DEF TypeOK, mainVars, netVars, pubVars
  <2>3. QED  BY <1>0, <1>kept, <2>2 DEF TypeInv, Numbers, pubVars
<1>4. CASE WriterWrite(s)
  <2>1. /\ out[s] # <<>> /\ out' = [out EXCEPT ![s] = Tail(out[s])]
        /\ receipt' = (receipt \/ IsReceipted(Head(out[s])))
        /\ up' = up \/ up' = [up EXCEPT ![s] = Append(up[s], Head(out[s]))]
        /\ wr' = wr \/ wr' = [wr EXCEPT ![s] = "done"]
        /\ UNCHANGED <<mqttClient, last, main, incoming, rd, link, down, connected, delivered,
                       breaks, sets, pubVars, panic>>
    BY <1>4 DEF WriterWrite
  <2>2. Head(out[s]) \in Jobs /\ out' \in [Session -> Seq(Jobs)]
    BY <1>0, <2>1, Shortened, Updated
  <2>3. up' \in [Session -> Seq(Jobs)]
    <3>1. [up EXCEPT ![s] = Append(up[s], Head(out[s]))] \in [Session -> Seq(Jobs)]
      BY ONLY <1>0, <2>2, Updated
    <3>2. QED  BY <1>0, <2>1, <3>1
  <2>4. \A t \in Session : Len(out'[t]) <= QueueLength
    <3>1. out[s] \in Seq(Jobs) /\ Len(out[s]) <= QueueLength
      BY <1>0
    <3>2. Len(Tail(out[s])) = Len(out[s]) - 1 /\ Len(out[s]) \in Nat
      BY <2>1, <3>1, Shortened, Elements
    <3>3. Len(Tail(out[s])) <= QueueLength
      BY <3>1, <3>2, Constants
    <3>4. \A t \in Session : out'[t] = IF t = s THEN Tail(out[s]) ELSE out[t]
      BY <1>0, <2>1
    <3>5. QED  BY <1>0, <3>3, <3>4
  <2>5. receipt' \in BOOLEAN
    BY <1>0, <2>1 DEF TypeOK
  <2>6. wr' \in [Session -> {"none", "range", "done"}]
    BY <1>0, <2>1 DEF TypeOK
  <2>7. TypeOK'
    BY ONLY <1>0, <2>1, <2>2, <2>3, <2>4, <2>5, <2>6 DEF TypeOK, Jobs, pubVars
  <2>8. QED  BY <1>0, <1>kept, <2>7 DEF TypeInv, Numbers, pubVars
<1>5. CASE WriterEnd(s)
  <2>1. /\ wr' = [wr EXCEPT ![s] = "done"]
        /\ UNCHANGED <<mainVars, out, incoming, rd, netVars, pubVars, panic>>
    BY <1>5 DEF WriterEnd
  <2>2. TypeOK'
    BY <1>0, <2>1 DEF TypeOK, mainVars, netVars, pubVars
  <2>3. QED  BY <1>0, <1>kept, <2>2 DEF TypeInv, Numbers, pubVars
<1>6. QED  BY <1>1, <1>2, <1>3, <1>4, <1>5 DEF Reader, Writer

(* What the network and the broker do to the queues, whichever it is.      *)
NetStep(s) ==
  /\ up' \in [Session -> Seq(Jobs)]
  /\ \A t \in Session : Suffix(up'[t], up[t])
  /\ \A t \in Session : link'[t] => link[t]
  /\ link' \in [Session -> BOOLEAN]
  /\ down' \in [Session -> Seq(Answers)]
  /\ \/ delivered' = delivered
     \/ /\ s \in connected /\ up[s] # <<>> /\ IsPub(Head(up[s]))
        /\ up' = [up EXCEPT ![s] = Tail(up[s])] /\ link' = link /\ connected' = connected
        /\ delivered' = Append(delivered, Head(up[s]))
  /\ \/ connected' = connected
     \/ /\ connected' = connected \cup {s} /\ up[s] # <<>>
        /\ \A t \in Session : t < s => ~link'[t]
  /\ \A t \in Session : up'[t] # <<>> => up[t] # <<>> /\ (link[t] => link'[t])
  /\ breaks' \in 0..MaxBreaks /\ sets' \in 0..MaxSets
  /\ UNCHANGED <<mainVars, connVars, pubVars, panic>>

LEMMA EndsFacts ==
  ASSUME TypeOK, NEW s \in Session, Ends({s})
  PROVE  /\ up' \in [Session -> Seq(Jobs)] /\ link' \in [Session -> BOOLEAN]
         /\ \A t \in Session : Suffix(up'[t], up[t]) /\ (link'[t] => link[t])
         /\ \A t \in Session : up'[t] # <<>> => up[t] # <<>> /\ (link[t] => link'[t])
<1>0. up \in [Session -> Seq(Jobs)] /\ link \in [Session -> BOOLEAN]
  BY DEF TypeOK, Jobs
<1>1. /\ link' = [t \in Session |-> link[t] /\ t # s]
      /\ up' = [t \in Session |-> IF t = s THEN <<>> ELSE up[t]]
  <2>1. link' = [t \in Session |-> link[t] /\ t \notin {s}]
        /\ up' = [t \in Session |-> IF t \in {s} THEN <<>> ELSE up[t]]
    BY DEF Ends
  <2>2. QED  BY <2>1
<1>2. \A t \in Session : up[t] \in Seq(Jobs)
  BY <1>0
<1>3. \A t \in Session : Suffix(up'[t], up[t])
  BY <1>1, <1>2, Suffixes
<1>4. up' \in [Session -> Seq(Jobs)]
  BY <1>1, <1>2, Empty
<1>5. link' \in [Session -> BOOLEAN]
  BY <1>1
<1>6. \A t \in Session : (link'[t] => link[t]) /\ (t # s /\ link[t] => link'[t])
  BY <1>1
<1>7. \A t \in Session : up'[t] # <<>> => t # s /\ up'[t] = up[t]
  BY <1>1
<1>8. QED  BY <1>3, <1>4, <1>5, <1>6, <1>7

LEMMA NetSteps ==
  ASSUME TypeInv, NEW s \in Session, Broker(s) \/ BrokerSet(s) \/ Break(s)
  PROVE  NetStep(s)
<1>0. /\ TypeOK
      /\ up \in [Session -> Seq(Jobs)] /\ link \in [Session -> BOOLEAN]
      /\ down \in [Session -> Seq(Answers)] /\ breaks \in 0..MaxBreaks /\ sets \in 0..MaxSets
  BY DEF TypeInv, TypeOK, Jobs, Answers
<1>same. /\ \A t \in Session : Suffix(up[t], up[t])
         /\ up[s] # <<>> => Suffix(Tail(up[s]), up[s]) /\ Tail(up[s]) \in Seq(Jobs)
         /\ \A t \in Session : Suffix(<<>>, up[t])
  <2>1. \A t \in Session : up[t] \in Seq(Jobs)
    BY <1>0
  <2>2. QED  BY <2>1, Suffixes, Shortened
<1>ans. \A a \in Answers : [down EXCEPT ![s] = Append(down[s], a)] \in [Session -> Seq(Answers)]
  BY ONLY <1>0, Updated
<1>more. breaks < MaxBreaks /\ breaks' = breaks + 1 => breaks' \in 0..MaxBreaks
  BY <1>0, Constants
<1>1. ASSUME up[s] # <<>>, connected' = connected \cup {s},
             link' = [t \in Session |-> link[t] /\ t >= s],
             up' = [t \in Session |-> IF t < s THEN <<>> ELSE IF t = s THEN Tail(up[t]) ELSE up[t]],
             down' = [down EXCEPT ![s] = Append(down[s], "connack")], breaks' = breaks,
             UNCHANGED <<mainVars, connVars, delivered, sets, pubVars, panic>>
      PROVE  NetStep(s)
  <2>1. \A t \in Session : (t < s) = ~(t >= s)
    <3>1. \A t \in Session : t \in Int /\ s \in Int
      BY Constants
    <3>2. QED  BY <3>1
  <2>2. up' \in [Session -> Seq(Jobs)]
    <3>1. \A t \in Session : up[t] \in Seq(Jobs) /\ <<>> \in Seq(Jobs)
      BY <1>0, Empty
    <3>2. \A t \in Session :
            (IF t < s THEN <<>> ELSE IF t = s THEN Tail(up[t]) ELSE up[t]) \in Seq(Jobs)
      BY <1>same, <1>1, <3>1
    <3>3. QED  BY <1>1, <3>2
  <2>3. \A t \in Session : Suffix(up'[t], up[t])
    BY <1>same, <1>1
  <2>4. /\ link' \in [Session -> BOOLEAN] /\ \A t \in Session : link'[t] => link[t]
    BY <1>1
  <2>5. /\ \A t \in Session : t < s => ~link'[t]
        /\ \A t \in Session : ~(t < s) => (link[t] => link'[t])
    <3>1. \A t \in Session : link'[t] = (link[t] /\ t >= s)
      BY <1>1
    <3>2. QED  BY <2>1, <3>1, Zenon
  <2>6. \A t \in Session : up'[t] # <<>> => up[t] # <<>> /\ (link[t] => link'[t])
    <3>1. \A t \in Session : t < s => up'[t] = <<>>
      BY <1>1
    <3>2. \A t \in Session : ~(t < s) /\ t # s => up'[t] = up[t]
      BY <1>1
    <3>3. QED  BY <1>1, <2>5, <3>1, <3>2
  <2>7. down' \in [Session -> Seq(Answers)]
    BY <1>ans, <1>1 DEF Answers
  <2>8. QED  BY <1>0, <1>1, <2>2, <2>3, <2>4, <2>5, <2>6, <2>7 DEF NetStep
<1>2. ASSUME Ends({s}), connected' = connected, delivered' = delivered,
             down' \in [Session -> Seq(Answers)], breaks' \in 0..MaxBreaks, sets' = sets,
             UNCHANGED <<mainVars, connVars, pubVars, panic>>
      PROVE  NetStep(s)
  <2>1. /\ up' \in [Session -> Seq(Jobs)] /\ link' \in [Session -> BOOLEAN]
        /\ \A t \in Session : Suffix(up'[t], up[t]) /\ (link'[t] => link[t])
        /\ \A t \in Session : up'[t] # <<>> => up[t] # <<>> /\ (link[t] => link'[t])
    BY <1>0, <1>2, EndsFacts
  <2>2. QED  BY <1>0, <1>2, <2>1 DEF NetStep
<1>3. CASE BrokerConnect(s)
  <2>1. /\ up[s] # <<>> /\ UNCHANGED <<mainVars, connVars, delivered, sets, pubVars, panic>>
        /\ \/ /\ connected' = connected \cup {s}
              /\ link' = [t \in Session |-> link[t] /\ t >= s]
              /\ up' = [t \in Session |-> IF t < s THEN <<>>
                                          ELSE IF t = s THEN Tail(up[t]) ELSE up[t]]
              /\ down' = [down EXCEPT ![s] = Append(down[s], "connack")]
              /\ breaks' = breaks
           \/ /\ breaks < MaxBreaks /\ breaks' = breaks + 1 /\ Ends({s})
              /\ down' = [down EXCEPT ![s] = Append(down[s], "refused")]
              /\ connected' = connected
    BY <1>3 DEF BrokerConnect
  <2>2. [down EXCEPT ![s] = Append(down[s], "refused")] \in [Session -> Seq(Answers)]
    BY <1>ans DEF Answers
  <2>3. QED  BY <1>more, <1>1, <1>2, <2>1, <2>2
<1>4. CASE BrokerReject(s)
  BY <1>0, <1>2, <1>4 DEF BrokerReject
<1>5. CASE BrokerReceive(s)
  <2> DEFINE job == Head(up[s])
  <2>1. /\ s \in connected /\ up[s] # <<>> /\ up' = [up EXCEPT ![s] = Tail(up[s])]
        /\ delivered' = IF job.type = "publish" THEN Append(delivered, job) ELSE delivered
        /\ down' = down \/ down' = [down EXCEPT ![s] = Append(down[s], "suback")]
        /\ UNCHANGED <<mainVars, connVars, link, connected, breaks, sets, pubVars, panic>>
    BY <1>5 DEF BrokerReceive
  <2>2. down' \in [Session -> Seq(Answers)]
    <3>1. [down EXCEPT ![s] = Append(down[s], "suback")] \in [Session -> Seq(Answers)]
      BY <1>ans DEF Answers
    <3>2. QED  BY <1>0, <2>1, <3>1
  <2>3. up' \in [Session -> Seq(Jobs)] /\ \A t \in Session : Suffix(up'[t], up[t])
    BY <1>0, <1>same, <2>1
  <2>4. \A t \in Session : up'[t] # <<>> => up[t] # <<>>
    BY <1>0, <2>1
  <2>5. delivered' = delivered \/ (IsPub(job) /\ delivered' = Append(delivered, job))
    BY <2>1 DEF IsPub
  <2>6. QED  BY <1>0, <2>1, <2>2, <2>3, <2>4, <2>5 DEF NetStep
<1>6. CASE BrokerSet(s)
  <2>1. /\ sets < MaxSets /\ sets' = sets + 1
        /\ down' = [down EXCEPT ![s] = Append(down[s], "set")]
        /\ UNCHANGED <<mainVars, connVars, link, up, connected, delivered, breaks, pubVars, panic>>
    BY <1>6 DEF BrokerSet
  <2>2. sets' \in 0..MaxSets
    BY <1>0, <2>1, Constants
  <2>3. down' \in [Session -> Seq(Answers)]
    BY <1>ans, <2>1 DEF Answers
  <2>4. QED  BY <1>0, <1>same, <2>1, <2>2, <2>3 DEF NetStep
<1>7. CASE Break(s)
  <2>1. /\ breaks < MaxBreaks /\ breaks' = breaks + 1 /\ Ends({s})
        /\ down' = down \/ down' = [down EXCEPT ![s] = <<>>]
        /\ UNCHANGED <<mainVars, connVars, connected, delivered, sets, pubVars, panic>>
    BY <1>7 DEF Break
  <2>2. [down EXCEPT ![s] = <<>>] \in [Session -> Seq(Answers)]
    BY ONLY <1>0, Updated
  <2>3. QED  BY <1>0, <1>more, <1>2, <2>1, <2>2
<1>8. QED  BY <1>3, <1>4, <1>5, <1>6, <1>7 DEF Broker

LEMMA TypeNet ==
  ASSUME TypeInv, NEW s \in Session, NetStep(s)
  PROVE  TypeInv'
<1>0. TypeOK /\ Numbers
  BY DEF TypeInv
<1>1. connected' \subseteq Session
  BY <1>0 DEF NetStep, TypeOK
<1>2. delivered' \in Seq(PubJobs)
  <2>1. CASE delivered' = delivered
    BY <1>0, <2>1 DEF TypeOK
  <2>2. CASE up[s] # <<>> /\ IsPub(Head(up[s])) /\ delivered' = Append(delivered, Head(up[s]))
    <3>1. up[s] \in Seq(Jobs)
      BY <1>0 DEF TypeOK, Jobs
    <3>2. Head(up[s]) \in Jobs
      BY <2>2, <3>1, Shortened
    <3>3. Head(up[s]) \in PubJobs
      BY <2>2, <3>2 DEF Jobs, MainJobs, Job, IsPub
    <3>4. QED  BY <1>0, <2>2, <3>3, Appended DEF TypeOK
  <2>3. QED  BY <2>1, <2>2 DEF NetStep
<1>3. UNCHANGED <<mainVars, connVars, pubVars, panic>>
  BY DEF NetStep
<1>4. /\ up' \in [Session -> Seq(Jobs)] /\ link' \in [Session -> BOOLEAN]
      /\ down' \in [Session -> Seq(Answers)] /\ breaks' \in 0..MaxBreaks /\ sets' \in 0..MaxSets
  BY DEF NetStep
<1>5. TypeOK'
  BY ONLY <1>0, <1>1, <1>2, <1>3, <1>4 DEF TypeOK, Jobs, Answers, mainVars, connVars, pubVars
<1>6. Numbers'
  BY <1>0, <1>3 DEF Numbers, mainVars, pubVars
<1>7. QED  BY <1>5, <1>6 DEF TypeInv

LEMMA TypeStep == TypeInv /\ [Next]_vars => TypeInv'
<1> SUFFICES ASSUME TypeInv, [Next]_vars PROVE TypeInv'
  OBVIOUS
<1>1. CASE UNCHANGED vars
  BY <1>1 DEF vars, mainVars, connVars, netVars, pubVars, TypeInv, TypeOK, Numbers
<1>2. CASE Next
  <2>1. ~panic
    BY <1>2 DEF Next
  <2>2. CASE Main
    BY <2>1, <2>2, TypeMain
  <2>3. CASE \E p \in Publishers : Publisher(p)
    BY <2>1, <2>3, TypePublisher
  <2>4. CASE \E s \in Session : Reader(s) \/ Writer(s)
    BY <2>4, TypeConn
  <2>5. CASE \E s \in Session : Broker(s) \/ BrokerSet(s) \/ Break(s)
    BY <2>5, NetSteps, TypeNet
  <2>6. QED  BY <1>2, <2>2, <2>3, <2>4, <2>5 DEF Next
<1>3. QED  BY <1>1, <1>2

(* Type correctness, of every state of gw3's connections to the broker.    *)
THEOREM TypeCorrect == Spec => []TypeOK
<1>1. Spec => []TypeInv
  BY TypeInit, TypeStep, PTL DEF Spec
<1>2. TypeInv => TypeOK
  BY DEF TypeInv
<1>3. QED  BY <1>1, <1>2, PTL

-----------------------------------------------------------------------------
(***************************************************************************)
(* Order.  Within and Across put all that is on its way to the broker into *)
(* one order: by session, and in each session what is on the connection    *)
(* before what is queued for it.  Delivered is what comes before all that  *)
(* can still arrive.                                                       *)
(***************************************************************************)
Within == \A s \in Session : Rising(up[s]) /\ Rising(out[s]) /\ Before(up[s], out[s])

Across ==
  \A s, t \in Session : s < t => /\ Before(up[s], up[t])  /\ Before(up[s], out[t])
                                 /\ Before(out[s], up[t]) /\ Before(out[s], out[t])

InOrder == Within /\ Across

Delivered ==
  /\ Rising(delivered)
  /\ \A s \in Session : link[s] => Before(delivered, up[s]) /\ Before(delivered, out[s])

(* Nothing is queued for a session that does not exist yet; a packet is on *)
(* its way only while the connection stands, and once the broker has       *)
(* accepted a session no older one has a connection.                       *)
Unmade == \A s \in Session : s > last => out[s] = <<>> /\ up[s] = <<>> /\ s \notin connected
Ended  == /\ \A s \in Session : up[s] # <<>> => link[s]
          /\ \A s \in connected : \A t \in Session : t < s => ~link[t]

(* What a publisher has queued is older than its current message, and it   *)
(* has not gone back to an older session.                                  *)
Sent(j, s) == IsPub(j) => j.num < seq[j.from] /\ s <= using[j.from]
Own        == \A s \in Session : /\ \A i \in DOMAIN up[s] : Sent(up[s][i], s)
                                 /\ \A i \in DOMAIN out[s] : Sent(out[s][i], s)
Past       == \A i \in DOMAIN delivered : delivered[i].num < seq[delivered[i].from]

OrderInv == InOrder /\ Delivered /\ Unmade /\ Ended /\ Past /\ (~panic => Own)

Queues == out \in [Session -> Seq(Jobs)] /\ up \in [Session -> Seq(Jobs)]

LEMMA QueueTypes ==
  ASSUME TypeInv
  PROVE  /\ Queues
         /\ \A s \in Session : out[s] \in Seq(Jobs) /\ up[s] \in Seq(Jobs)
         /\ \A s \in Session : s \in Int
         /\ last \in Int /\ last >= 0
<1>1. Queues
  BY DEF TypeInv, TypeOK, Queues, Jobs
<1>2. \A s \in Session : out[s] \in Seq(Jobs) /\ up[s] \in Seq(Jobs)
  BY <1>1 DEF Queues
<1>3. last \in 0..MaxSessions
  BY DEF TypeInv, TypeOK
<1>4. QED  BY <1>1, <1>2, <1>3, Constants

(* Queues that lose what is in front stay in order.                        *)
LEMMA Shrinks ==
  ASSUME Queues, Queues', InOrder,
         \A s \in Session : Suffix(up'[s], up[s]) /\ Suffix(out'[s], out[s])
  PROVE  InOrder'
<1>0. \A s \in Session : /\ out[s] \in Seq(Jobs) /\ up[s] \in Seq(Jobs)
                         /\ out'[s] \in Seq(Jobs) /\ up'[s] \in Seq(Jobs)
  BY DEF Queues
<1>1. ASSUME NEW s \in Session
      PROVE  Rising(up'[s]) /\ Rising(out'[s]) /\ Before(up'[s], out'[s])
  BY <1>0, OrderOfSuffix DEF InOrder, Within
<1>2. ASSUME NEW s \in Session, NEW t \in Session, s < t
      PROVE  /\ Before(up'[s], up'[t])  /\ Before(up'[s], out'[t])
             /\ Before(out'[s], up'[t]) /\ Before(out'[s], out'[t])
  <2>1. /\ Before(up[s], up[t])  /\ Before(up[s], out[t])
        /\ Before(out[s], up[t]) /\ Before(out[s], out[t])
    BY <1>2 DEF InOrder, Across
  <2>2. Before(up'[s], up'[t]) /\ Before(up'[s], out'[t])
    BY <1>0, <2>1, OrderOfSuffix
  <2>3. Before(out'[s], up'[t]) /\ Before(out'[s], out'[t])
    BY <1>0, <2>1, OrderOfSuffix
  <2>4. QED  BY <2>2, <2>3
<1>3. QED  BY <1>1, <1>2 DEF InOrder, Within, Across

(* So they do when a job is queued after all that is on its way by the     *)
(* same or an older session, and before what is by a younger one.          *)
LEMMA Grows ==
  ASSUME Queues, InOrder, NEW u \in Session, NEW j \in Jobs,
         up' = up, out' = [out EXCEPT ![u] = Append(out[u], j)],
         \A s \in Session : s <= u => After(up[s], j) /\ After(out[s], j),
         \A s \in Session : u < s => Ahead(j, up[s]) /\ Ahead(j, out[s])
  PROVE  InOrder'
<1>0. \A s \in Session : out[s] \in Seq(Jobs) /\ up[s] \in Seq(Jobs) /\ s \in Int
  BY Constants DEF Queues
<1>out. out'[u] = Append(out[u], j) /\ \A s \in Session : s # u => out'[s] = out[s]
  BY DEF Queues
<1>1. ASSUME NEW s \in Session
      PROVE  Rising(up'[s]) /\ Rising(out'[s]) /\ Before(up'[s], out'[s])
  <2>0. Rising(up[s]) /\ Rising(out[s]) /\ Before(up[s], out[s])
    BY DEF InOrder, Within
  <2>1. CASE s = u
    <3>1. s <= u
      BY <1>0, <2>1
    <3>2. After(up[s], j) /\ After(out[s], j)
      BY <3>1
    <3>3. QED  BY <1>0, <1>out, <2>0, <2>1, <3>2, OrderOfAppend
  <2>2. CASE s # u
    BY <1>out, <2>0, <2>2
  <2>3. QED  BY <2>1, <2>2
<1>2. ASSUME NEW s \in Session, NEW t \in Session, s < t
      PROVE  /\ Before(up'[s], up'[t])  /\ Before(up'[s], out'[t])
             /\ Before(out'[s], up'[t]) /\ Before(out'[s], out'[t])
  <2>0. /\ Before(up[s], up[t])  /\ Before(up[s], out[t])
        /\ Before(out[s], up[t]) /\ Before(out[s], out[t])
    BY <1>2 DEF InOrder, Across
  <2>1. CASE s = u
    <3>1. t # u /\ u < t
      BY <1>0, <1>2, <2>1
    <3>2. Ahead(j, up[t]) /\ Ahead(j, out[t])
      BY <3>1
    <3>3. Before(Append(out[s], j), up[t]) /\ Before(Append(out[s], j), out[t])
      BY <1>0, <2>0, <3>2, OrderOfAppend
    <3>4. QED  BY <1>out, <2>0, <2>1, <3>1, <3>3
  <2>2. CASE t = u
    <3>1. s # u /\ s <= u
      BY <1>0, <1>2, <2>2
    <3>2. After(up[s], j) /\ After(out[s], j)
      BY <3>1
    <3>3. Before(up[s], Append(out[t], j)) /\ Before(out[s], Append(out[t], j))
      BY <1>0, <2>0, <3>2, OrderOfAppend
    <3>4. QED  BY <1>out, <2>0, <2>2, <3>1, <3>3
  <2>3. CASE s # u /\ t # u
    BY <1>out, <2>0, <2>3
  <2>4. QED  BY <2>1, <2>2, <2>3
<1>3. QED  BY <1>1, <1>2 DEF InOrder, Within, Across

(* So they do when the writer of u puts the head of its queue on the       *)
(* connection.                                                             *)
LEMMA Moves ==
  ASSUME Queues, InOrder, NEW u \in Session, out[u] # <<>>,
         up' = [up EXCEPT ![u] = Append(up[u], Head(out[u]))],
         out' = [out EXCEPT ![u] = Tail(out[u])]
  PROVE  InOrder'
<1> DEFINE j == Head(out[u])
<1>0. /\ \A s \in Session : out[s] \in Seq(Jobs) /\ up[s] \in Seq(Jobs) /\ s \in Int
      /\ j \in Jobs /\ Tail(out[u]) \in Seq(Jobs) /\ Suffix(Tail(out[u]), out[u])
  <2>1. \A s \in Session : out[s] \in Seq(Jobs) /\ up[s] \in Seq(Jobs) /\ s \in Int
    BY Constants DEF Queues
  <2>2. QED  BY <2>1, Shortened, Suffixes
<1>new. /\ out'[u] = Tail(out[u]) /\ \A s \in Session : s # u => out'[s] = out[s]
        /\ up'[u] = Append(up[u], j) /\ \A s \in Session : s # u => up'[s] = up[s]
  BY DEF Queues
<1>in. Rising(up[u]) /\ Rising(out[u]) /\ Before(up[u], out[u])
  BY DEF InOrder, Within
<1>j. Ahead(j, Tail(out[u])) /\ After(up[u], j)
  BY <1>0, <1>in, OrderOfHead
<1>tail. /\ Rising(Tail(out[u])) /\ Before(up[u], Tail(out[u]))
         /\ \A r \in Seq(Jobs) : /\ Before(out[u], r) => Before(Tail(out[u]), r)
                                 /\ Before(r, out[u]) => Before(r, Tail(out[u]))
  <2>1. \A r \in Seq(Jobs) : Suffix(r, r)
    BY Suffixes
  <2>2. QED  BY <1>0, <1>in, <2>1, OrderOfSuffix
<1> HIDE DEF j
<1>1. ASSUME NEW s \in Session
      PROVE  Rising(up'[s]) /\ Rising(out'[s]) /\ Before(up'[s], out'[s])
  <2>1. CASE s = u
    <3>1. Rising(Append(up[u], j)) /\ Before(Append(up[u], j), Tail(out[u]))
      BY <1>0, <1>in, <1>j, <1>tail, OrderOfAppend
    <3>2. QED  BY <1>new, <1>tail, <2>1, <3>1
  <2>2. CASE s # u
    BY <1>new, <2>2 DEF InOrder, Within
  <2>3. QED  BY <2>1, <2>2
<1>2. ASSUME NEW s \in Session, NEW t \in Session, s < t
      PROVE  /\ Before(up'[s], up'[t])  /\ Before(up'[s], out'[t])
             /\ Before(out'[s], up'[t]) /\ Before(out'[s], out'[t])
  <2>0. /\ Before(up[s], up[t])  /\ Before(up[s], out[t])
        /\ Before(out[s], up[t]) /\ Before(out[s], out[t])
    BY <1>2 DEF InOrder, Across
  <2>1. CASE s = u
    <3>1. t # u
      BY <1>0, <1>2, <2>1
    <3>2. Ahead(j, up[t]) /\ Ahead(j, out[t])
      BY <1>0, <2>0, <2>1, OrderOfHead DEF j
    <3>3. Before(Append(up[u], j), up[t]) /\ Before(Append(up[u], j), out[t])
      BY <1>0, <2>0, <2>1, <3>2, OrderOfAppend
    <3>4. Before(Tail(out[u]), up[t]) /\ Before(Tail(out[u]), out[t])
      BY <1>0, <1>tail, <2>0, <2>1
    <3>5. QED  BY <1>new, <2>1, <3>1, <3>3, <3>4
  <2>2. CASE t = u
    <3>1. s # u
      BY <1>0, <1>2, <2>2
    <3>2. After(up[s], j) /\ After(out[s], j)
      BY <1>0, <2>0, <2>2, OrderOfHead DEF j
    <3>3. Before(up[s], Append(up[u], j)) /\ Before(out[s], Append(up[u], j))
      BY <1>0, <2>0, <2>2, <3>2, OrderOfAppend
    <3>4. Before(up[s], Tail(out[u])) /\ Before(out[s], Tail(out[u]))
      BY <1>0, <1>tail, <2>0, <2>2
    <3>5. QED  BY <1>new, <2>2, <3>1, <3>3, <3>4
  <2>3. CASE s # u /\ t # u
    BY <1>new, <2>0, <2>3
  <2>4. QED  BY <2>1, <2>2, <2>3
<1>3. QED  BY <1>1, <1>2 DEF InOrder, Within, Across

(* Sent, of the next state.                                                *)
SentNext(j, s) == IsPub(j) => j.num < seq'[j.from] /\ s <= using'[j.from]

LEMMA SentKept ==
  ASSUME TypeInv, TypeInv', OrderInv,
         \A q \in Publishers : seq[q] <= seq'[q]
  PROVE  /\ delivered' = delivered => Past'
         /\ (\A q \in Publishers : using[q] <= using'[q]) =>
              \A j \in Jobs, s \in Session : Sent(j, s) => SentNext(j, s)
<1>0. \A q \in Publishers : /\ seq[q] \in Int /\ seq'[q] \in Int
                            /\ using[q] \in Int /\ using'[q] \in Int
  BY Constants DEF TypeInv, TypeOK
<1>1. ASSUME delivered' = delivered PROVE Past'
  <2>1. \A i \in DOMAIN delivered :
          delivered[i].from \in Publishers /\ delivered[i].num \in Int
    <3>1. ASSUME NEW i \in DOMAIN delivered
          PROVE  delivered[i].from \in Publishers /\ delivered[i].num \in Int
      <4>1. delivered[i] \in PubJobs
        BY <3>1, Elements DEF TypeInv, TypeOK
      <4>2. QED  BY <4>1 DEF PubJobs, Job
    <3>2. QED  BY <3>1
  <2>2. ASSUME NEW i \in DOMAIN delivered
        PROVE  delivered[i].num < seq'[delivered[i].from]
    <3>1. delivered[i].num < seq[delivered[i].from]
      BY DEF OrderInv, Past
    <3>2. seq[delivered[i].from] <= seq'[delivered[i].from]
      BY <2>1
    <3>3. QED  BY <1>0, <2>1, <3>1, <3>2
  <2>3. QED  BY <1>1, <2>2 DEF Past
<1>2. ASSUME \A q \in Publishers : using[q] <= using'[q],
             NEW j \in Jobs, NEW s \in Session, Sent(j, s)
      PROVE  SentNext(j, s)
  <2>1. CASE ~IsPub(j)
    BY <2>1 DEF SentNext
  <2>2. CASE IsPub(j)
    <3>1. j.from \in Publishers /\ j.num \in Int /\ s \in Int
      BY <2>2, JobFacts, Constants
    <3>2. j.num < seq[j.from] /\ s <= using[j.from]
      BY <1>2, <2>2 DEF Sent
    <3>3. seq[j.from] <= seq'[j.from] /\ using[j.from] <= using'[j.from]
      BY <1>2, <3>1
    <3>4. j.num < seq'[j.from] /\ s <= using'[j.from]
      BY <1>0, <3>1, <3>2, <3>3
    <3>5. QED  BY <3>4 DEF SentNext
  <2>3. QED  BY <2>1, <2>2
<1>3. QED  BY <1>1, <1>2

LEMMA Quiet ==
  ASSUME OrderInv, UNCHANGED <<out, up, link, connected, delivered, seq, using, last, panic>>
  PROVE  OrderInv'
<1>1. InOrder'
  BY DEF OrderInv, InOrder, Within, Across
<1>2. Delivered' /\ Unmade' /\ Ended' /\ Past'
  BY DEF OrderInv, Delivered, Unmade, Ended, Past
<1>3. ~panic' => Own'
  BY DEF OrderInv, Own, Sent
<1>4. QED  BY <1>1, <1>2, <1>3 DEF OrderInv

LEMMA OrderMain ==
  ASSUME TypeInv, TypeInv', OrderInv, ~panic, Main
  PROVE  OrderInv'
<1>0. /\ Queues /\ InOrder /\ Delivered /\ Unmade /\ Ended /\ Past /\ Own
      /\ \A s \in Session : s \in Int
      /\ last \in Int
      /\ \A s \in Session : out[s] \in Seq(Jobs) /\ up[s] \in Seq(Jobs)
  BY QueueTypes DEF OrderInv
<1>1. CASE MainDial
  <2>1. /\ last' = last + 1 /\ last' \in Session /\ link' = [link EXCEPT ![last'] = TRUE]
        /\ UNCHANGED <<out, up, connected, delivered, pubVars, panic>>
    <3>1. /\ last' = last + 1 /\ last < MaxSessions /\ link' = [link EXCEPT ![last'] = TRUE]
          /\ UNCHANGED <<out, up, connected, delivered, pubVars, panic>>
      BY <1>1 DEF MainDial
    <3>2. last + 1 \in Session
      BY <3>1, Constants, QueueTypes
    <3>3. QED  BY <3>1, <3>2
  <2>2. link \in [Session -> BOOLEAN]
    BY DEF TypeInv, TypeOK
  <2>3. \A s \in Session : s # last' => link'[s] = link[s]
    BY <2>1, <2>2
  <2>new. last' > last
    BY <1>0, <2>1
  <2>4. out[last'] = <<>> /\ up[last'] = <<>> /\ last' \notin connected
    BY <1>0, <2>1, <2>new DEF Unmade
  <2>5. InOrder' /\ Past' /\ Own'
    BY <1>0, <2>1 DEF InOrder, Within, Across, Past, Own, Sent, pubVars
  <2>6. Delivered'
    <3>1. Before(delivered, <<>>)
      BY OrderOfEmpty
    <3>2. QED  BY <1>0, <2>1, <2>3, <2>4, <3>1 DEF Delivered
  <2>7. Unmade'
    <3>1. \A s \in Session : s > last' => s > last
      BY <1>0, <2>1
    <3>2. QED  BY <1>0, <2>1, <3>1 DEF Unmade
  <2>8. Ended'
    <3>1. \A s \in Session : up[s] # <<>> => link'[s]
      BY <1>0, <2>3, <2>4 DEF Ended
    <3>2. ASSUME NEW s \in connected, NEW t \in Session, t < s
          PROVE  ~link'[t]
      <4>1. s \in Session
        BY DEF TypeInv, TypeOK
      <4>2. ~(s > last)
        BY <1>0, <3>2, <4>1 DEF Unmade
      <4>3. t # last'
        BY <1>0, <2>1, <3>2, <4>1, <4>2
      <4>4. QED  BY <1>0, <2>3, <3>2, <4>1, <4>3 DEF Ended
    <3>3. QED  BY <2>1, <3>1, <3>2 DEF Ended
  <2>9. QED  BY <2>5, <2>6, <2>7, <2>8 DEF OrderInv
<1>2. ASSUME NEW type \in {"connect", "info", "subscribe", "log"}, NEW to, main # "dial",
             MainQueue(main, type, to)
      PROVE  OrderInv'
  <2> DEFINE j == Job(type, "main", 0)
  <2>1. /\ Send(last, j) /\ UNCHANGED <<last, up, link, connected, delivered, seq, using>>
    BY <1>2 DEF MainQueue, netVars, pubVars
  <2>2. last \in Session
    BY <1>2 DEF TypeInv, TypeOK, Numbers, Session
  <2>3. j \in Jobs /\ ~IsPub(j)
    BY MainJob
  <2>4. out' = out \/ out' = [out EXCEPT ![last] = Append(out[last], j)]
    BY <2>1 DEF Send
  <2> HIDE DEF j
  <2>5. \A q : After(q, j) /\ Ahead(j, q)
    BY <2>3 DEF After, Ahead, Behind
  <2>6. CASE out' = out
    <3>1. InOrder' /\ Delivered' /\ Unmade' /\ Ended' /\ Past'
      BY <1>0, <2>1, <2>6 DEF InOrder, Within, Across, Delivered, Unmade, Ended, Past
    <3>2. Own'
      BY <1>0, <2>1, <2>6 DEF Own, Sent
    <3>3. QED  BY <3>1, <3>2 DEF OrderInv
  <2>7. CASE out' = [out EXCEPT ![last] = Append(out[last], j)]
    <3>1. InOrder'
      BY <1>0, <2>1, <2>2, <2>3, <2>5, <2>7, Grows
    <3>2. out'[last] = Append(out[last], j) /\ \A s \in Session : s # last => out'[s] = out[s]
      BY <1>0, <2>2, <2>7 DEF Queues
    <3>3. Delivered'
      <4>1. delivered \in Seq(Jobs)
        BY DEF TypeInv, TypeOK, Jobs
      <4>2. Before(delivered, out[last]) => Before(delivered, Append(out[last], j))
        BY <1>0, <2>2, <2>3, <2>5, <4>1, OrderOfAppend
      <4>3. QED  BY <1>0, <2>1, <3>2, <4>2 DEF Delivered
    <3>4. Unmade'
      <4>1. \A s \in Session : s > last => s # last
        BY <1>0
      <4>2. QED  BY <1>0, <2>1, <3>2, <4>1 DEF Unmade
    <3>5. Ended' /\ Past'
      BY <1>0, <2>1 DEF Ended, Past
    <3>6. Own'
      <4>1. \A i \in DOMAIN Append(out[last], j) :
              (i \in DOMAIN out[last] /\ Append(out[last], j)[i] = out[last][i])
                \/ Append(out[last], j)[i] = j
        BY <1>0, <2>2, <2>3, Appended
      <4>2. \A s \in Session : Sent(j, s)
        BY <2>3 DEF Sent
      <4>3. \A s \in Session : /\ \A i \in DOMAIN up'[s] : Sent(up'[s][i], s)
                               /\ \A i \in DOMAIN out'[s] : Sent(out'[s][i], s)
        BY <1>0, <2>1, <3>2, <4>1, <4>2 DEF Own
      <4>4. QED  BY <2>1, <4>3 DEF Own, Sent
    <3>7. QED  BY <3>1, <3>3, <3>4, <3>5, <3>6 DEF OrderInv
  <2>8. QED  BY <2>4, <2>6, <2>7
<1>3. CASE \/ MainReceipt("connwait", "connack") \/ MainReceipt("subwait", "suback")
           \/ MainAck("connack", "info") \/ MainAck("suback", "serve") \/ MainRefused
           \/ MainServe \/ MainServeEnd \/ MainDrop
  <2>1. UNCHANGED <<out, up, link, connected, delivered, seq, using, last, panic>>
    BY <1>3 DEF MainReceipt, MainAck, MainRefused, MainServe, MainServeEnd, MainDrop,
                mainVars, connVars, netVars, pubVars
  <2>2. QED  BY <2>1, Quiet
<1>4. QED
  <2>1. CASE \/ MainQueue("connect", "connect", "connwait") \/ MainQueue("log", "log", "drop")
             \/ MainQueue("info", "info", "subscribe")
             \/ MainQueue("subscribe", "subscribe", "subwait")
    BY <1>2, <2>1 DEF MainQueue
  <2>2. QED  BY <1>1, <1>3, <2>1 DEF Main

LEMMA OrderPublisher ==
  ASSUME TypeInv, TypeInv', OrderInv, ~panic, NEW p \in Publishers, Publisher(p)
  PROVE  OrderInv'
<1>0. /\ Queues /\ InOrder /\ Delivered /\ Unmade /\ Ended /\ Past /\ Own
      /\ \A s \in Session : s \in Int /\ out[s] \in Seq(Jobs) /\ up[s] \in Seq(Jobs)
      /\ last \in Int
      /\ delivered \in Seq(Jobs)
      /\ out \in [Session -> Seq(Jobs)]
  <2>1. delivered \in Seq(Jobs)
    BY DEF TypeInv, TypeOK, Jobs
  <2>2. QED  BY <2>1, QueueTypes DEF OrderInv, Queues
<1>num. /\ seq \in [Publishers -> 1..(MaxMsgs + 1)] /\ using \in [Publishers -> 0..MaxSessions]
        /\ \A q \in Publishers : seq[q] \in Int /\ using[q] \in Int
  BY Constants DEF TypeInv, TypeOK
<1>seq. seq' = seq \/ Next1(p)
  BY DEF Publisher, PublishCheck, PublishLoad, PublishSend
<1>up. \A q \in Publishers : seq[q] <= seq'[q]
  BY <1>num, <1>seq DEF Next1
<1>past. UNCHANGED <<up, link, connected, delivered, last>>
  BY DEF Publisher, PublishCheck, PublishLoad, PublishSend, mainVars, connVars, netVars
<1>rest. Past' /\ Ended'
  BY <1>0, <1>up, <1>past, SentKept DEF Ended
<1>own. \A s \in Session : /\ \A i \in DOMAIN up[s] : up[s][i] \in Jobs /\ Sent(up[s][i], s)
                           /\ \A i \in DOMAIN out[s] : out[s][i] \in Jobs /\ Sent(out[s][i], s)
  BY <1>0, Elements DEF Own
<1>1. CASE PublishCheck(p) \/ PublishLoad(p)
  <2>1. out' = out
    BY <1>1 DEF PublishCheck, PublishLoad, connVars
  <2>2. InOrder' /\ Delivered' /\ Unmade'
    BY <1>0, <1>past, <2>1 DEF InOrder, Within, Across, Delivered, Unmade
  <2>3. ASSUME ~panic'
        PROVE  \A q \in Publishers : using[q] <= using'[q]
    <3>1. CASE using' = using
      BY <1>num, <3>1
    <3>2. CASE using' = [using EXCEPT ![p] = mqttClient] /\ mqttClient # 0
      <4>1. mqttClient = last /\ using[p] <= last
        BY <3>2 DEF TypeInv, Numbers
      <4>2. QED  BY <1>num, <3>2, <4>1
    <3>3. QED  BY <1>1, <2>3, <3>1, <3>2 DEF PublishCheck, PublishLoad
  <2>4. ~panic' => Own'
    <3>1. ASSUME ~panic' PROVE \A j \in Jobs, s \in Session : Sent(j, s) => SentNext(j, s)
      BY <1>up, <2>3, <3>1, SentKept
    <3>2. QED  BY <1>own, <1>past, <2>1, <3>1 DEF Own, Sent, SentNext
  <2>5. QED  BY <1>rest, <2>2, <2>4 DEF OrderInv
<1>2. CASE PublishSend(p)
  <2> DEFINE j == Job("publish", p, seq[p])
             u == using[p]
  <2>1. /\ pub[p] = "send" /\ Send(u, j) /\ Next1(p) /\ using' = using
    BY <1>2 DEF PublishSend
  <2>2. u \in Session /\ seq[p] \in 1..MaxMsgs /\ u <= last
    <3>1. using[p] # 0 /\ using[p] <= last /\ seq[p] <= MaxMsgs
      BY <2>1 DEF TypeInv, Numbers
    <3>2. using[p] \in 0..MaxSessions /\ seq[p] \in 1..(MaxMsgs + 1)
      BY <1>num
    <3>3. QED  BY <3>1, <3>2, Constants
  <2>3. j \in Jobs /\ IsPub(j) /\ j.from = p /\ j.num = seq[p]
    BY <2>2 DEF Jobs, PubJobs, Job, IsPub
  <2>4. \A i \in Jobs, s \in Session : Sent(i, s) => SentNext(i, s)
    BY <1>num, <1>up, <2>1, SentKept
  <2>5. \/ OutClosed(u) /\ panic' = TRUE /\ out' = out
        \/ out' = [out EXCEPT ![u] = Append(out[u], j)]
    BY <2>1 DEF Send
  <2>6. SentNext(j, u)
    <3>1. seq'[p] = seq[p] + 1
      BY <1>num, <2>1 DEF Next1
    <3>2. seq[p] < seq'[p] /\ u <= using'[p]
      BY <1>num, <2>1, <3>1
    <3>3. QED  BY <2>3, <3>2 DEF SentNext
  <2> HIDE DEF j
  <2>7. ASSUME NEW i \in Jobs, NEW s \in Session, Sent(i, s)
        PROVE  Behind(i, j) /\ (u < s => Behind(j, i))
    <3>1. CASE IsPub(i) /\ i.from = p
      <4>1. i.num < seq[p] /\ s <= u
        BY <2>7, <3>1 DEF Sent
      <4>2. ~(u < s)
        BY <1>0, <1>num, <2>2, <4>1
      <4>3. QED  BY <2>3, <4>1, <4>2 DEF Behind
    <3>2. CASE ~(IsPub(i) /\ i.from = p)
      BY <2>3, <3>2 DEF Behind
    <3>3. QED  BY <3>1, <3>2
  <2>8. CASE out' = out
    <3>1. InOrder' /\ Delivered' /\ Unmade'
      BY <1>0, <1>past, <2>8 DEF InOrder, Within, Across, Delivered, Unmade
    <3>2. Own'
      BY <1>own, <1>past, <2>4, <2>8 DEF Own, Sent, SentNext
    <3>3. QED  BY <1>rest, <3>1, <3>2 DEF OrderInv
  <2>9. CASE out' = [out EXCEPT ![u] = Append(out[u], j)]
    <3>0. out'[u] = Append(out[u], j) /\ \A s \in Session : s # u => out'[s] = out[s]
      BY <1>0, <2>2, <2>9
    <3>1. InOrder'
      <4>1. \A s \in Session : /\ After(up[s], j) /\ After(out[s], j)
                               /\ u < s => Ahead(j, up[s]) /\ Ahead(j, out[s])
        BY <1>own, <2>7 DEF After, Ahead
      <4>2. QED  BY ONLY <1>0, <1>past, <2>2, <2>3, <2>9, <4>1, Grows
    <3>2. Delivered'
      <4>1. \A i \in DOMAIN delivered : Behind(delivered[i], j)
        BY <1>0, <2>3 DEF Past, Behind
      <4>2. Before(delivered, out[u]) => Before(delivered, Append(out[u], j))
        BY <1>0, <2>2, <2>3, <4>1, OrderOfAppend DEF After
      <4>3. QED  BY <1>0, <1>past, <3>0, <4>2 DEF Delivered
    <3>3. Unmade'
      <4>1. \A s \in Session : s > last => s # u
        BY <1>0, <2>2
      <4>2. QED  BY <1>0, <1>past, <3>0, <4>1 DEF Unmade
    <3>4. Own'
      <4>1. \A i \in DOMAIN Append(out[u], j) :
              (i \in DOMAIN out[u] /\ Append(out[u], j)[i] = out[u][i]) \/ Append(out[u], j)[i] = j
        BY <1>0, <2>2, <2>3, Appended
      <4>2. \A i \in DOMAIN out'[u] : SentNext(out'[u][i], u)
        BY <1>own, <2>2, <2>4, <2>6, <3>0, <4>1
      <4>3. \A s \in Session : s # u => \A i \in DOMAIN out'[s] : SentNext(out'[s][i], s)
        BY <1>own, <2>4, <3>0
      <4>4. \A s \in Session : \A i \in DOMAIN up'[s] : SentNext(up'[s][i], s)
        BY <1>own, <1>past, <2>4
      <4>5. QED  BY <4>2, <4>3, <4>4 DEF Own, Sent, SentNext
    <3>5. QED  BY <1>rest, <3>1, <3>2, <3>3, <3>4 DEF OrderInv
  <2>10. QED  BY <2>5, <2>8, <2>9
<1>3. QED  BY <1>1, <1>2 DEF Publisher

LEMMA OrderConn ==
  ASSUME TypeInv, TypeInv', OrderInv, ~panic, NEW s \in Session, Reader(s) \/ Writer(s)
  PROVE  OrderInv'
<1>0. /\ Queues /\ InOrder /\ Delivered /\ Unmade /\ Ended /\ Past /\ Own
      /\ \A t \in Session : out[t] \in Seq(Jobs) /\ up[t] \in Seq(Jobs)
      /\ out \in [Session -> Seq(Jobs)] /\ up \in [Session -> Seq(Jobs)]
      /\ Queues'
  BY QueueTypes DEF OrderInv, Queues, TypeInv, TypeOK, Jobs
<1>1. CASE Reader(s) \/ WriterEnd(s)
  <2>1. UNCHANGED <<out, up, link, connected, delivered, seq, using, last, panic>>
    BY <1>1 DEF Reader, ReaderRead, ReaderIncoming, ReaderEnd, ReaderClose, WriterEnd,
                mainVars, netVars, pubVars
  <2>2. QED  BY <2>1, Quiet
<1>2. CASE WriterWrite(s)
  <2> DEFINE j == Head(out[s])
  <2>1. /\ out[s] # <<>> /\ out' = [out EXCEPT ![s] = Tail(out[s])]
        /\ UNCHANGED <<link, connected, delivered, seq, using, last, panic>>
        /\ \/ link[s] /\ up' = [up EXCEPT ![s] = Append(up[s], j)]
           \/ ~link[s] /\ up' = up
    BY <1>2 DEF WriterWrite, pubVars
  <2>2. /\ out'[s] = Tail(out[s]) /\ \A t \in Session : t # s => out'[t] = out[t]
    BY <1>0, <2>1
  <2>3. /\ j \in Jobs /\ j = out[s][1] /\ 1 \in DOMAIN out[s] /\ Tail(out[s]) \in Seq(Jobs)
        /\ \A i \in DOMAIN Tail(out[s]) : i + 1 \in DOMAIN out[s] /\ Tail(out[s])[i] = out[s][i + 1]
        /\ Suffix(Tail(out[s]), out[s])
    BY <1>0, <2>1, Shortened, Suffixes
  <2> HIDE DEF j
  <2>4. \A t \in Session : \A i \in DOMAIN out'[t] :
          \E k \in DOMAIN out[t] : out'[t][i] = out[t][k]
    BY <2>2, <2>3
  <2>5. delivered \in Seq(Jobs)
    BY DEF TypeInv, TypeOK, Jobs
  <2>6. Before(delivered, out[s]) => Before(delivered, Tail(out[s])) /\ After(delivered, j)
    <3>1. Suffix(delivered, delivered)
      BY <2>5, Suffixes
    <3>2. Before(delivered, out[s]) => Before(delivered, Tail(out[s]))
      BY <1>0, <2>3, <2>5, <3>1, OrderOfSuffix
    <3>3. Before(delivered, out[s]) => After(delivered, j)
      BY <2>3 DEF Before, After
    <3>4. QED  BY <3>2, <3>3
  <2>7. Past'
    BY <1>0, <2>1 DEF Past
  <2>8. ~(s > last)
    BY <1>0, <2>1 DEF Unmade
  <2>9. CASE ~link[s] /\ up' = up
    <3>1. InOrder'
      <4>1. \A t \in Session : Suffix(up'[t], up[t]) /\ Suffix(out'[t], out[t])
        BY <1>0, <2>2, <2>3, <2>9, Suffixes
      <4>2. QED  BY ONLY <1>0, <4>1, Shrinks
    <3>2. Delivered' /\ Unmade' /\ Ended'
      BY <1>0, <2>1, <2>2, <2>8, <2>9 DEF Delivered, Unmade, Ended
    <3>3. Own'
      BY <1>0, <2>1, <2>4, <2>9 DEF Own, Sent
    <3>4. QED  BY <2>7, <3>1, <3>2, <3>3 DEF OrderInv
  <2>10. CASE link[s] /\ up' = [up EXCEPT ![s] = Append(up[s], j)]
    <3>0. up'[s] = Append(up[s], j) /\ \A t \in Session : t # s => up'[t] = up[t]
      BY <1>0, <2>10
    <3>1. InOrder'
      BY <1>0, <2>1, <2>10, Moves DEF j
    <3>2. Delivered'
      <4>1. Before(delivered, up[s]) /\ Before(delivered, out[s])
        BY <1>0, <2>10 DEF Delivered
      <4>2. Before(delivered, Append(up[s], j))
        BY <1>0, <2>3, <2>5, <2>6, <4>1, OrderOfAppend
      <4>3. QED  BY <1>0, <2>1, <2>2, <2>6, <3>0, <4>1, <4>2 DEF Delivered
    <3>3. Unmade' /\ Ended'
      BY <1>0, <2>1, <2>2, <2>8, <2>10, <3>0 DEF Unmade, Ended
    <3>4. Own'
      <4>1. \A i \in DOMAIN Append(up[s], j) :
              (i \in DOMAIN up[s] /\ Append(up[s], j)[i] = up[s][i]) \/ Append(up[s], j)[i] = out[s][1]
        BY <1>0, <2>3, Appended
      <4>2. \A i \in DOMAIN up'[s] : Sent(up'[s][i], s)
        BY <1>0, <2>3, <3>0, <4>1 DEF Own
      <4>3. \A t \in Session : t # s => \A i \in DOMAIN up'[t] : Sent(up'[t][i], t)
        BY <1>0, <3>0 DEF Own
      <4>4. \A t \in Session : \A i \in DOMAIN out'[t] : Sent(out'[t][i], t)
        BY <1>0, <2>4 DEF Own
      <4>5. QED  BY <2>1, <4>2, <4>3, <4>4 DEF Own, Sent
    <3>5. QED  BY <2>7, <3>1, <3>2, <3>3, <3>4 DEF OrderInv
  <2>11. QED  BY <2>1, <2>9, <2>10
<1>3. QED  BY <1>1, <1>2 DEF Writer

LEMMA OrderNet ==
  ASSUME TypeInv, TypeInv', OrderInv, ~panic, NEW s \in Session, NetStep(s)
  PROVE  OrderInv'
<1>0. /\ Queues /\ InOrder /\ Delivered /\ Unmade /\ Ended /\ Past /\ Own
      /\ \A t \in Session : out[t] \in Seq(Jobs) /\ up[t] \in Seq(Jobs) /\ up'[t] \in Seq(Jobs)
      /\ \A t \in Session : t \in Int
      /\ Queues' /\ delivered \in Seq(Jobs)
  <2>1. Queues'
    BY DEF Queues, TypeInv, TypeOK, Jobs
  <2>2. delivered \in Seq(Jobs)
    BY DEF TypeInv, TypeOK, Jobs
  <2>3. QED  BY <2>1, <2>2, QueueTypes DEF OrderInv, Queues
<1>net. /\ out' = out /\ UNCHANGED <<seq, using, last, panic>>
        /\ \A t \in Session : Suffix(up'[t], up[t])
        /\ \A t \in Session : link'[t] => link[t]
        /\ \A t \in Session : up'[t] # <<>> => up[t] # <<>> /\ (link[t] => link'[t])
  BY DEF NetStep, mainVars, connVars, pubVars
<1>1. InOrder'
  <2>1. \A t \in Session : Suffix(out'[t], out[t])
    BY <1>0, <1>net, Suffixes
  <2>2. QED  BY ONLY <1>0, <1>net, <2>1, Shrinks
<1>2. Unmade'
  <2>1. \A t \in connected' : t \in connected \/ (t = s /\ up[s] # <<>>)
    BY DEF NetStep
  <2>2. QED  BY <1>0, <1>net, <2>1 DEF Unmade
<1>3. Ended'
  <2>1. \A t \in Session : up'[t] # <<>> => link'[t]
    BY <1>0, <1>net DEF Ended
  <2>2. \A c \in connected' : \A t \in Session : t < c => ~link'[t]
    <3>1. \A c \in connected : \A t \in Session : t < c => ~link'[t]
      BY <1>0, <1>net DEF Ended
    <3>2. connected' = connected \/ (connected' = connected \cup {s}
                                     /\ \A t \in Session : t < s => ~link'[t])
      BY DEF NetStep
    <3>3. QED  BY <3>1, <3>2
  <2>3. QED  BY <2>1, <2>2 DEF Ended
<1>4. Own'
  <2>1. \A t \in Session : \A i \in DOMAIN up'[t] : \E k \in DOMAIN up[t] : up'[t][i] = up[t][k]
    BY <1>net DEF Suffix
  <2>2. QED  BY <1>0, <1>net, <2>1 DEF Own, Sent
<1>5. \A t \in Session : link'[t] => Before(delivered, up'[t]) /\ Before(delivered, out'[t])
  <2>1. ASSUME NEW t \in Session, link'[t]
        PROVE  Before(delivered, up'[t]) /\ Before(delivered, out'[t])
    <3>1. Before(delivered, up[t]) /\ Before(delivered, out[t])
      BY <1>0, <1>net, <2>1 DEF Delivered
    <3>2. Suffix(delivered, delivered) /\ Suffix(up'[t], up[t])
      BY <1>0, <1>net, Suffixes
    <3>3. Before(delivered, up'[t])
      BY <1>0, <3>1, <3>2, OrderOfSuffix
    <3>4. QED  BY <1>net, <3>1, <3>3
  <2>2. QED  BY <2>1
<1>6. Delivered' /\ Past'
  <2>1. CASE delivered' = delivered
    BY <1>0, <1>net, <1>5, <2>1 DEF Delivered, Past
  <2>2. CASE /\ s \in connected /\ up[s] # <<>> /\ IsPub(Head(up[s]))
             /\ up' = [up EXCEPT ![s] = Tail(up[s])] /\ link' = link
             /\ delivered' = Append(delivered, Head(up[s]))
    <3> DEFINE h == Head(up[s])
    <3>1. h \in Jobs /\ h = up[s][1] /\ 1 \in DOMAIN up[s]
      BY <1>0, <2>2, Shortened
    <3>2. up'[s] = Tail(up[s]) /\ \A t \in Session : t # s => up'[t] = up[t]
      BY <1>0, <2>2 DEF Queues
    <3>3. delivered' = Append(delivered, h) /\ IsPub(h)
      BY <2>2
    <3>4. ASSUME NEW t \in Session, link[t]
          PROVE  Ahead(h, up'[t]) /\ Ahead(h, out[t])
      <4>1. ~(t < s)
        BY <1>0, <2>2, <3>4 DEF Ended
      <4>2. CASE t = s
        <5>1. Rising(up[s]) /\ Before(up[s], out[s])
          BY <1>0 DEF InOrder, Within
        <5>2. Ahead(h, Tail(up[s])) /\ Ahead(h, out[s])
          BY <1>0, <2>2, <5>1, OrderOfHead
        <5>3. QED  BY <3>2, <4>2, <5>2
      <4>3. CASE t # s
        <5>1. s < t
          BY <1>0, <4>1, <4>3
        <5>2. Before(up[s], up[t]) /\ Before(up[s], out[t])
          BY <1>0, <5>1 DEF InOrder, Across
        <5>3. QED  BY <1>0, <2>2, <3>2, <4>3, <5>2, OrderOfHead
      <4>4. QED  BY <4>2, <4>3
    <3>5. After(delivered, h)
      <4>1. link[s]
        BY <1>0, <2>2 DEF Ended
      <4>2. Before(delivered, up[s])
        BY <1>0, <4>1 DEF Delivered
      <4>3. QED  BY <3>1, <4>2 DEF Before, After
    <3>6. h.num < seq[h.from]
      BY <1>0, <3>1, <3>3 DEF Own, Sent
    <3> HIDE DEF h
    <3>7. Rising(delivered')
      BY <1>0, <3>1, <3>3, <3>5, OrderOfAppend DEF Delivered
    <3>8. ASSUME NEW t \in Session, link'[t]
          PROVE  Before(delivered', up'[t]) /\ Before(delivered', out'[t])
      <4>1. Ahead(h, up'[t]) /\ Ahead(h, out[t])
        BY <2>2, <3>4, <3>8
      <4>2. Before(delivered, up'[t]) /\ Before(delivered, out[t])
        BY <1>net, <1>5, <3>8
      <4>3. QED  BY <1>0, <1>net, <3>1, <3>3, <4>1, <4>2, OrderOfAppend
    <3>9. Past'
      <4>1. \A i \in DOMAIN Append(delivered, h) :
              (i \in DOMAIN delivered /\ Append(delivered, h)[i] = delivered[i])
                \/ Append(delivered, h)[i] = h
        BY <1>0, <3>1, Appended
      <4>2. \A i \in DOMAIN delivered' : delivered'[i].num < seq[delivered'[i].from]
        BY <1>0, <3>3, <3>6, <4>1 DEF Past
      <4>3. QED  BY <1>net, <4>2 DEF Past
    <3>10. QED  BY <3>7, <3>8, <3>9 DEF Delivered
  <2>3. QED  BY <2>1, <2>2 DEF NetStep
<1>7. QED  BY <1>1, <1>2, <1>3, <1>4, <1>6 DEF OrderInv

LEMMA OrderInit == Init => OrderInv
<1> SUFFICES ASSUME Init PROVE OrderInv
  OBVIOUS
<1>1. /\ \A s \in Session : out[s] = <<>> /\ up[s] = <<>> /\ ~link[s]
      /\ delivered = <<>> /\ connected = {}
  BY DEF Init
<1>2. InOrder /\ Delivered
  BY <1>1, OrderOfEmpty DEF InOrder, Within, Across, Delivered
<1>3. Unmade /\ Ended
  BY <1>1 DEF Unmade, Ended
<1>4. Past /\ Own
  BY <1>1, Empty DEF Past, Own
<1>5. QED  BY <1>2, <1>3, <1>4 DEF OrderInv

LEMMA OrderStep == TypeInv /\ TypeInv' /\ OrderInv /\ [Next]_vars => OrderInv'
<1> SUFFICES ASSUME TypeInv, TypeInv', OrderInv, [Next]_vars PROVE OrderInv'
  OBVIOUS
<1>1. CASE UNCHANGED vars
  <2>1. UNCHANGED <<out, up, link, connected, delivered, seq, using, last, panic>>
    BY <1>1 DEF vars, mainVars, connVars, netVars, pubVars
  <2>2. QED  BY <2>1, Quiet
<1>2. CASE Next
  <2>1. ~panic
    BY <1>2 DEF Next
  <2>2. CASE Main
    BY <2>1, <2>2, OrderMain
  <2>3. CASE \E p \in Publishers : Publisher(p)
    BY <2>1, <2>3, OrderPublisher
  <2>4. CASE \E s \in Session : Reader(s) \/ Writer(s)
    BY <2>1, <2>4, OrderConn
  <2>5. CASE \E s \in Session : Broker(s) \/ BrokerSet(s) \/ Break(s)
    BY <2>1, <2>5, NetSteps, OrderNet
  <2>6. QED  BY <1>2, <2>2, <2>3, <2>4, <2>5 DEF Next
<1>3. QED  BY <1>1, <1>2

(* mqtt_reader.go:57-87: whatever connections its messages go through, and *)
(* however old sessions drain meanwhile, the broker receives what each     *)
(* goroutine publishes in the order it was published and none twice.       *)
THEOREM PublishedInOrderCorrect == Spec => []PublishedInOrder
<1>1. TypeInv /\ OrderInv => PublishedInOrder
  <2>1. SUFFICES ASSUME TypeInv, OrderInv,
                        NEW i \in DOMAIN delivered, NEW j \in DOMAIN delivered,
                        i < j, delivered[i].from = delivered[j].from
                 PROVE  delivered[i].num < delivered[j].num
    BY DEF PublishedInOrder
  <2>2. delivered \in Seq(PubJobs)
    BY <2>1 DEF TypeInv, TypeOK
  <2>3. delivered[i] \in PubJobs /\ delivered[j] \in PubJobs
    BY <2>2, Elements
  <2>4. IsPub(delivered[i]) /\ IsPub(delivered[j])
    BY <2>3 DEF PubJobs, Job, IsPub
  <2>5. Behind(delivered[i], delivered[j])
    BY <2>1 DEF OrderInv, Delivered, Rising
  <2>6. QED  BY <2>1, <2>4, <2>5 DEF Behind
<1>2. Init => TypeInv /\ OrderInv
  BY TypeInit, OrderInit
<1>3. TypeInv /\ OrderInv /\ [Next]_vars => (TypeInv /\ OrderInv)'
  BY TypeStep, OrderStep
<1>4. QED  BY <1>1, <1>2, <1>3, PTL DEF Spec
=============================================================================
