---------------------------- MODULE MqttSession ----------------------------
(***************************************************************************)
(* gw3's connection to the MQTT broker: the loop mqttReader dials, makes a *)
(* ClientConn, connects, subscribes and serves messages until the          *)
(* connection ends, for ever; mqttPublish is called from btchipReader, the *)
(* timers and the miio goroutines and uses whatever client the global      *)
(* mqttClient holds.                                                       *)
(*                                                                         *)
(* A ClientConn is a session: a reader and a writer goroutine, the bounded *)
(* channels out and Incoming, the unbuffered connack and suback.  Sessions *)
(* are numbered, 0 is nil.  What is published is a number per publisher.   *)
(* ReaderRead has no case for a broker's DISCONNECT or an undecodable      *)
(* packet: like the end of the connection they make the reader exit.       *)
(***************************************************************************)
EXTENDS Naturals, FiniteSets, Sequences

CONSTANTS
  Publishers,    \* goroutines that call mqttPublish
  QueueLength,   \* clientQueueLength, of both channels (100 in the code)
  MaxSessions,   \* bound: connections gw3 makes
  MaxBreaks,     \* bound: connections that end
  MaxMsgs,       \* bound: messages of each publisher
  MaxSets        \* bound: messages of the broker to gw3/+/set

ASSUME SessionAssumption ==
  /\ QueueLength \in Nat \ {0}
  /\ MaxSessions \in Nat /\ MaxBreaks \in Nat
  /\ MaxMsgs \in Nat /\ MaxSets \in Nat

Session == 1..MaxSessions

VARIABLES
  mqttClient,  \* the session mqttPublish finds, 0 when nil
  last,        \* the last session made
  main,        \* program counter of mqttReader
  receipt,     \* TRUE: the writer has closed the receipt main waits for
  out,         \* per session, the channel out
  incoming,    \* per session, the channel Incoming
  rd,          \* per session, program counter of ClientConn.reader
  wr,          \* per session, program counter of ClientConn.writer
  link,        \* per session, TRUE while the TCP connection stands
  up,          \* per session, packets on their way to the broker
  down,        \* per session, packets on their way to gw3
  connected,   \* sessions the broker has accepted
  pub,         \* program counter of each publisher
  using,       \* the session a publisher has loaded
  seq,         \* the number of each publisher's current message
  delivered,   \* what the broker has received, in order
  breaks, sets, \* counters of the bounds
  panic        \* TRUE: a goroutine has panicked, gw3 has stopped

mainVars == <<mqttClient, last, main, receipt>>
connVars == <<out, incoming, rd, wr>>
netVars  == <<link, up, down, connected, delivered, breaks, sets>>
pubVars  == <<pub, using, seq>>
vars     == <<mainVars, connVars, netVars, pubVars, panic>>

Job(type, from, num) == [type |-> type, from |-> from, num |-> num]
MainJobs == {Job(t, "main", 0) : t \in {"connect", "info", "subscribe", "log"}}
PubJobs  == {Job("publish", p, i) : p \in Publishers, i \in 1..MaxMsgs}

(* What ClientConn.reader has closed, in the order of its deferred calls.  *)
OutClosed(s)      == rd[s] \in {"closeinc", "closeconn", "done"}
IncomingClosed(s) == rd[s] \in {"closeconn", "done"}

Init ==
  /\ mqttClient = 0 /\ last = 0 /\ main = "dial" /\ receipt = FALSE
  /\ out = [s \in Session |-> <<>>] /\ incoming = [s \in Session |-> <<>>]
  /\ rd = [s \in Session |-> "none"] /\ wr = [s \in Session |-> "none"]
  /\ link = [s \in Session |-> FALSE]
  /\ up = [s \in Session |-> <<>>] /\ down = [s \in Session |-> <<>>]
  /\ connected = {} /\ delivered = <<>> /\ breaks = 0 /\ sets = 0
  /\ pub = [p \in Publishers |-> "idle"]
  /\ using = [p \in Publishers |-> 0] /\ seq = [p \in Publishers |-> 1]
  /\ panic = FALSE

Send_Unbounded(s, job) ==  \* slip: the channel has no capacity
  IF OutClosed(s)
    THEN panic' = TRUE /\ UNCHANGED out
    ELSE panic' = FALSE /\ out' = [out EXCEPT ![s] = Append(@, job)]

-----------------------------------------------------------------------------
(***************************************************************************)
(* A send on the channel out of session s: it waits while the channel is   *)
(* full and panics when it is closed.                                      *)
(***************************************************************************)
Send(s, job) ==
  \/ /\ ~OutClosed(s) /\ Len(out[s]) < QueueLength
     /\ out' = [out EXCEPT ![s] = Append(@, job)]
     /\ panic' = FALSE
  \/ /\ OutClosed(s)
     /\ panic' = TRUE
     /\ UNCHANGED out

-----------------------------------------------------------------------------
(***************************************************************************)
(* mqttReader.                                                             *)
(***************************************************************************)
MainDial ==
  /\ main = "dial" /\ last < MaxSessions
  /\ last' = last + 1 /\ mqttClient' = last'
  /\ main' = "connect"
  /\ rd' = [rd EXCEPT ![last'] = "read"] /\ wr' = [wr EXCEPT ![last'] = "range"]
  /\ link' = [link EXCEPT ![last'] = TRUE]
  /\ UNCHANGED <<receipt, out, incoming, up, down, connected, delivered,
                 breaks, sets, pubVars, panic>>

(* Connect, updateInfo and Subscribe each queue a packet; the first and    *)
(* the last then wait for the receipt (sync) and for the broker's answer.  *)
MainQueue(from, type, to) ==
  /\ main = from
  /\ Send(last, Job(type, "main", 0))
  /\ main' = to /\ receipt' = FALSE
  /\ UNCHANGED <<mqttClient, last, incoming, rd, wr, netVars, pubVars>>

MainReceipt(from, to) ==
  /\ main = from /\ receipt
  /\ main' = to
  /\ UNCHANGED <<mqttClient, last, receipt, connVars, netVars, pubVars, panic>>

(* The rendezvous on connack or suback: main receives what the reader      *)
(* sends; a connack may refuse.  With log=mqtt mqttReader complains of that *)
(* through mqttLogWriter, to the very session that has been refused.       *)
MainAck(ack, to) ==
  /\ main = ack /\ rd[last] = ack
  /\ main' = to
  /\ rd' = [rd EXCEPT ![last] = "read"]
  /\ UNCHANGED <<mqttClient, last, receipt, out, incoming, wr, netVars, pubVars, panic>>

MainRefused ==
  /\ main = "connack" /\ rd[last] = "refused"
  /\ main' \in {"drop", "log"}
  /\ rd' = [rd EXCEPT ![last] = "read"]
  /\ UNCHANGED <<mqttClient, last, receipt, out, incoming, wr, netVars, pubVars, panic>>

MainServe ==
  /\ main = "serve" /\ incoming[last] # <<>>
  /\ incoming' = [incoming EXCEPT ![last] = Tail(@)]
  /\ UNCHANGED <<mainVars, out, rd, wr, netVars, pubVars, panic>>

MainServeEnd ==
  /\ main = "serve" /\ incoming[last] = <<>> /\ IncomingClosed(last)
  /\ main' = "drop"
  /\ UNCHANGED <<mqttClient, last, receipt, connVars, netVars, pubVars, panic>>

MainDrop ==
  /\ main = "drop"
  /\ mqttClient' = 0 /\ main' = "dial"
  /\ UNCHANGED <<last, receipt, connVars, netVars, pubVars, panic>>

Main ==
  \/ MainDial
  \/ MainQueue("connect", "connect", "connwait") \/ MainReceipt("connwait", "connack")
  \/ MainAck("connack", "info") \/ MainRefused \/ MainQueue("log", "log", "drop")
  \/ MainQueue("info", "info", "subscribe")
  \/ MainQueue("subscribe", "subscribe", "subwait") \/ MainReceipt("subwait", "suback")
  \/ MainAck("suback", "serve")
  \/ MainServe \/ MainServeEnd \/ MainDrop

-----------------------------------------------------------------------------
(***************************************************************************)
(* mqttPublish and mqttLogWriter.Write, in a publisher: a test of          *)
(* mqttClient, a second load of it for the call, and the send in Publish.  *)
(***************************************************************************)
Next1(p) == seq' = [seq EXCEPT ![p] = @ + 1]

PublishCheck(p) ==
  /\ pub[p] = "idle" /\ seq[p] <= MaxMsgs
  /\ IF mqttClient = 0
       THEN Next1(p) /\ UNCHANGED pub
       ELSE pub' = [pub EXCEPT ![p] = "load"] /\ UNCHANGED seq
  /\ UNCHANGED <<using, mainVars, connVars, netVars, panic>>

PublishLoad(p) ==
  /\ pub[p] = "load"
  /\ pub' = [pub EXCEPT ![p] = "send"]
  /\ using' = [using EXCEPT ![p] = mqttClient]
  /\ panic' = (mqttClient = 0)
  /\ UNCHANGED <<seq, mainVars, connVars, netVars>>

PublishSend_Swapped(p) ==  \* slip: overtakes the message queued before it
  /\ pub[p] = "send"
  /\ ~OutClosed(using[p]) /\ Len(out[using[p]]) < QueueLength
  /\ out' = [out EXCEPT ![using[p]] = <<Job("publish", p, seq[p])>> \o @]
  /\ pub' = [pub EXCEPT ![p] = "idle"]
  /\ Next1(p)
  /\ UNCHANGED <<using, mainVars, incoming, rd, wr, netVars, panic>>

PublishSend(p) ==
  /\ pub[p] = "send"
  /\ Send(using[p], Job("publish", p, seq[p]))
  /\ pub' = [pub EXCEPT ![p] = "idle"]
  /\ Next1(p)
  /\ UNCHANGED <<using, mainVars, incoming, rd, wr, netVars>>

Publisher(p) == PublishCheck(p) \/ PublishLoad(p) \/ PublishSend(p)

-----------------------------------------------------------------------------
(***************************************************************************)
(* ClientConn.reader and ClientConn.writer of session s.                   *)
(***************************************************************************)
ReaderGoto(s, label) == rd' = [rd EXCEPT ![s] = label]

ReaderRead(s) ==
  /\ rd[s] = "read" /\ down[s] # <<>>
  /\ ReaderGoto(s, Head(down[s]))
  /\ down' = [down EXCEPT ![s] = Tail(@)]
  /\ UNCHANGED <<mainVars, out, incoming, wr, link, up, connected, delivered,
                 breaks, sets, pubVars, panic>>

ReaderIncoming(s) ==
  /\ rd[s] = "set" /\ Len(incoming[s]) < QueueLength
  /\ incoming' = [incoming EXCEPT ![s] = Append(@, "set")]
  /\ ReaderGoto(s, "read")
  /\ UNCHANGED <<mainVars, out, wr, netVars, pubVars, panic>>

ReaderEnd(s) ==
  /\ rd[s] = "read" /\ down[s] = <<>> /\ ~link[s]
  /\ ReaderGoto(s, "closeout")
  /\ UNCHANGED <<mainVars, out, incoming, wr, netVars, pubVars, panic>>

ReaderClose_ConnOnly(s) ==  \* slip: the channels are not closed
  /\ rd[s] \in {"closeout", "closeinc", "closeconn"}
  /\ UNCHANGED <<mainVars, connVars, netVars, pubVars, panic>>

(* The deferred calls: close(out), close(Incoming), conn.Close().          *)
ReaderClose(s) ==
  /\ \/ rd[s] = "closeout"  /\ ReaderGoto(s, "closeinc")
     \/ rd[s] = "closeinc"  /\ ReaderGoto(s, "closeconn")
     \/ rd[s] = "closeconn" /\ ReaderGoto(s, "done")
  /\ UNCHANGED <<mainVars, out, incoming, wr, netVars, pubVars, panic>>

Reader(s) == ReaderRead(s) \/ ReaderIncoming(s) \/ ReaderEnd(s) \/ ReaderClose(s)

IsReceipted(job) == job.type \in {"connect", "subscribe"}

(* A write to a connection that has ended is lost or fails; a failure ends *)
(* the writer.                                                             *)
WriterWrite_Drops(s) ==  \* slip: all that is queued is taken for written
  /\ wr[s] = "range" /\ out[s] # <<>>
  /\ out' = [out EXCEPT ![s] = <<>>]
  /\ receipt' = (receipt \/ \E i \in DOMAIN out[s] : IsReceipted(out[s][i]))
  /\ up' = [up EXCEPT ![s] = IF link[s] THEN Append(@, Head(out[s])) ELSE @]
  /\ UNCHANGED <<wr, mqttClient, last, main, incoming, rd, link, down, connected,
                 delivered, breaks, sets, pubVars, panic>>

WriterWrite(s) ==
  /\ wr[s] = "range" /\ out[s] # <<>>
  /\ out' = [out EXCEPT ![s] = Tail(@)]
  /\ receipt' = (receipt \/ IsReceipted(Head(out[s])))
  /\ IF link[s]
       THEN up' = [up EXCEPT ![s] = Append(@, Head(out[s]))] /\ UNCHANGED wr
       ELSE /\ wr' \in {[wr EXCEPT ![s] = "done"]} \cup (IF rd[s] = "done" THEN {} ELSE {wr})
            /\ UNCHANGED up
  /\ UNCHANGED <<mqttClient, last, main, incoming, rd, link, down, connected,
                 delivered, breaks, sets, pubVars, panic>>

WriterEnd(s) ==
  /\ wr[s] = "range" /\ out[s] = <<>> /\ OutClosed(s)
  /\ wr' = [wr EXCEPT ![s] = "done"]
  /\ UNCHANGED <<mainVars, out, incoming, rd, netVars, pubVars, panic>>

Writer(s) == WriterWrite(s) \/ WriterEnd(s)

-----------------------------------------------------------------------------
(***************************************************************************)
(* The broker and the network, external.  The first packet must be a       *)
(* CONNECT; the broker may refuse it, and closes the connection of an      *)
(* older session, which has the same client id.                            *)
(***************************************************************************)
Ends(ss) ==
  /\ link' = [s \in Session |-> link[s] /\ s \notin ss]
  /\ up'   = [s \in Session |-> IF s \in ss THEN <<>> ELSE up[s]]

BrokerConnect(s) ==
  /\ s \notin connected /\ up[s] # <<>> /\ Head(up[s]).type = "connect"
  /\ \/ /\ connected' = connected \cup {s}
        /\ link' = [t \in Session |-> link[t] /\ t >= s]
        /\ up' = [t \in Session |-> IF t < s THEN <<>> ELSE IF t = s THEN Tail(up[t]) ELSE up[t]]
        /\ down' = [down EXCEPT ![s] = Append(@, "connack")]
        /\ UNCHANGED breaks
     \/ /\ breaks < MaxBreaks /\ breaks' = breaks + 1
        /\ Ends({s})
        /\ down' = [down EXCEPT ![s] = Append(@, "refused")]
        /\ UNCHANGED connected
  /\ UNCHANGED <<mainVars, connVars, delivered, sets, pubVars, panic>>

BrokerReject(s) ==
  /\ s \notin connected /\ up[s] # <<>> /\ Head(up[s]).type # "connect"
  /\ Ends({s})
  /\ UNCHANGED <<mainVars, connVars, down, connected, delivered, breaks, sets, pubVars, panic>>

BrokerReceive(s) ==
  /\ s \in connected /\ up[s] # <<>>
  /\ up' = [up EXCEPT ![s] = Tail(@)]
  /\ LET job == Head(up[s])
     IN  /\ delivered' = IF job.type = "publish" THEN Append(delivered, job) ELSE delivered
         /\ down' = IF job.type = "subscribe"
                      THEN [down EXCEPT ![s] = Append(@, "suback")] ELSE down
  /\ UNCHANGED <<mainVars, connVars, link, connected, breaks, sets, pubVars, panic>>

BrokerSet(s) ==
  /\ s \in connected /\ link[s] /\ sets < MaxSets /\ main = "serve" /\ s = last
  /\ sets' = sets + 1
  /\ down' = [down EXCEPT ![s] = Append(@, "set")]
  /\ UNCHANGED <<mainVars, connVars, link, up, connected, delivered, breaks, pubVars, panic>>

(* The connection ends: what was on its way to the broker is lost, what    *)
(* was on its way to gw3 may be.                                           *)
Break(s) ==
  /\ link[s] /\ breaks < MaxBreaks
  /\ breaks' = breaks + 1
  /\ Ends({s})
  /\ down' \in {down, [down EXCEPT ![s] = <<>>]}
  /\ UNCHANGED <<mainVars, connVars, connected, delivered, sets, pubVars, panic>>

Broker(s) == BrokerConnect(s) \/ BrokerReject(s) \/ BrokerReceive(s)

-----------------------------------------------------------------------------
Next ==
  /\ ~panic
  /\ \/ Main
     \/ \E p \in Publishers : Publisher(p)
     \/ \E s \in Session : Reader(s) \/ Writer(s) \/ Broker(s) \/ BrokerSet(s) \/ Break(s)

Spec == Init /\ [][Next]_vars

(* Goroutines are scheduled and the broker handles what reaches it.        *)
Fairness ==
  /\ WF_vars(~panic /\ Main)
  /\ \A p \in Publishers : WF_vars(~panic /\ Publisher(p))
  /\ \A s \in Session : /\ WF_vars(~panic /\ Reader(s)) /\ WF_vars(~panic /\ Writer(s))
                        /\ WF_vars(~panic /\ Broker(s))

FairSpec == Spec /\ Fairness

-----------------------------------------------------------------------------
TypeOK ==
  /\ mqttClient \in 0..MaxSessions /\ last \in 0..MaxSessions
  /\ main \in {"dial", "connect", "connwait", "connack", "info", "subscribe",
               "subwait", "suback", "serve", "log", "drop"}
  /\ receipt \in BOOLEAN
  /\ out \in [Session -> Seq(MainJobs \cup PubJobs)]
  /\ \A s \in Session : Len(out[s]) <= QueueLength /\ Len(incoming[s]) <= QueueLength
  /\ incoming \in [Session -> Seq({"set"})]
  /\ rd \in [Session -> {"none", "read", "set", "connack", "refused", "suback",
                         "closeout", "closeinc", "closeconn", "done"}]
  /\ wr \in [Session -> {"none", "range", "done"}]
  /\ link \in [Session -> BOOLEAN]
  /\ up \in [Session -> Seq(MainJobs \cup PubJobs)]
  /\ down \in [Session -> Seq({"connack", "refused", "suback", "set"})]
  /\ connected \subseteq Session /\ delivered \in Seq(PubJobs)
  /\ breaks \in 0..MaxBreaks /\ sets \in 0..MaxSets
  /\ pub \in [Publishers -> {"idle", "load", "send"}]
  /\ using \in [Publishers -> 0..MaxSessions]
  /\ seq \in [Publishers -> 1..(MaxMsgs + 1)]
  /\ panic \in BOOLEAN

(* mqtt_reader.go:57-87: the broker receives the messages of a goroutine   *)
(* in the order they were published and none twice, though they may go     *)
(* through different connections, while old sessions are still draining.   *)
PublishedInOrder ==
  \A i, j \in DOMAIN delivered :
    i < j /\ delivered[i].from = delivered[j].from => delivered[i].num < delivered[j].num

(* mqtt_reader.go:17-54: after a refusal, or a connection that ends,       *)
(* mqttReader serves a connection that stands, unless gw3 has panicked or  *)
(* mqttReader is stuck for the one reason there is: the connection ended   *)
(* during CONNECT or SUBSCRIBE, and the exit of its reader releases nobody *)
(* who waits for an answer, that of its writer nobody who waits for a      *)
(* receipt (mqtt.go:743, "cause any goroutines waiting on messages to      *)
(* arrive to exit", holds of Incoming only).                               *)
Online     == main = "serve" /\ link[last]
Stuck      == main \in {"connwait", "connack", "subwait", "suback"} /\ rd[last] = "done"
Reconnects == ~Online ~> (Online \/ Stuck \/ panic)

(* mqtt.go:878-884: a publish always returns, or finds the channel closed  *)
(* and stops gw3: no goroutine waits for ever on the queue of a connection *)
(* that has ended.                                                         *)
PublishReturns == \A p \in Publishers : (pub[p] = "send") ~> (pub[p] # "send" \/ panic)

(* Every message queued for a connection is delivered unless that          *)
(* connection ends.                                                        *)
EveryPublishDelivered ==
  \A p \in Publishers : \A i \in 1..MaxMsgs : \A s \in Session :
    (\E k \in DOMAIN out[s] : out[s][k] = Job("publish", p, i))
      ~> (panic \/ ~link[s] \/ \E k \in DOMAIN delivered : delivered[k] = Job("publish", p, i))

=============================================================================
