----------------------------- MODULE MiioProxy -----------------------------
(***************************************************************************)
(* The proxy between the gateway's programs and miio_agent.  miioReader    *)
(* accepts a program on /tmp/miio_agent.socket, dials the real agent and   *)
(* starts two goroutines miioSocketProxy, one per direction.  They share   *)
(* the address the program binds and, with everyone, the map miioConn from *)
(* an address to the connection gw3 injects its own messages into.         *)
(*                                                                         *)
(* Direction "in" reads from the program and writes to the agent, "out"    *)
(* the other way.  Connections are numbered as they are accepted.  What    *)
(* gw3 reads out of the messages is module BindKeys's.                     *)
(***************************************************************************)
EXTENDS Naturals, FiniteSets, SequencesExt

CONSTANTS
  Addresses,  \* addresses programs bind, e.g. Bluetooth
  Lengths,    \* lengths of messages, in units of the read buffer
  MaxConns,   \* bound: connections
  MaxMsgs     \* bound: messages of all ends together

ASSUME ProxyAssumption ==
  0 \notin Addresses /\ Lengths \subseteq Nat \ {0} /\ MaxConns \in Nat /\ MaxMsgs \in Nat

Conn == 1..MaxConns
Dir  == {"in", "out"}
Other(d) == IF d = "in" THEN "out" ELSE "in"

VARIABLES
  accepted,  \* number of connections accepted
  accepting, \* FALSE: miioReader is dialling the agent
  want,      \* per connection, the address its program binds
  addr,      \* per connection, *addr
  miioConn,  \* the connection registered at an address, 0 when there is none
  sock,      \* per connection and direction, the socket d reads from:
             \* "open", "peer" (closed by its other end), "closed" (by gw3)
  sent,      \* per connection and direction, what has been sent into it
  nread,     \* how many of them gw3 has read
  got,       \* what gw3 has written on in that direction
  pc, held   \* program counter of the goroutine, and the message it holds

vars == <<accepted, accepting, want, addr, miioConn, sock, sent, nread, got, pc, held>>

NoMsg == [num |-> 0, len |-> 0]

Init ==
  /\ accepted = 0 /\ accepting = TRUE
  /\ want = [c \in Conn |-> 0] /\ addr = [c \in Conn |-> 0]
  /\ miioConn = [a \in Addresses |-> 0]
  /\ sock = [c \in Conn |-> [d \in Dir |-> "closed"]]
  /\ sent = [c \in Conn |-> [d \in Dir |-> <<>>]]
  /\ nread = [c \in Conn |-> [d \in Dir |-> 0]]
  /\ got = [c \in Conn |-> [d \in Dir |-> <<>>]]
  /\ pc = [c \in Conn |-> [d \in Dir |-> "none"]]
  /\ held = [c \in Conn |-> [d \in Dir |-> NoMsg]]

-----------------------------------------------------------------------------
(***************************************************************************)
(* miioReader: accept, dial until it succeeds, start both goroutines.  An  *)
(* attempt that fails changes nothing; nobody is accepted meanwhile.       *)
(***************************************************************************)
Accept(a) ==
  /\ accepting /\ accepted < MaxConns
  /\ accepted' = accepted + 1 /\ accepting' = FALSE
  /\ want' = [want EXCEPT ![accepted'] = a]
  /\ sock' = [sock EXCEPT ![accepted'].in = "open"]
  /\ UNCHANGED <<addr, miioConn, sent, nread, got, pc, held>>

Dial ==
  /\ ~accepting
  /\ accepting' = TRUE
  /\ sock' = [sock EXCEPT ![accepted].out = "open"]
  /\ pc' = [pc EXCEPT ![accepted] = [d \in Dir |-> "read"]]
  /\ UNCHANGED <<accepted, want, addr, miioConn, sent, nread, got, held>>

-----------------------------------------------------------------------------
(***************************************************************************)
(* miioSocketProxy in direction d of connection c.  A read returns one     *)
(* message, cut to the buffer; bytes sent before the other end closed can  *)
(* still be read.                                                          *)
(***************************************************************************)
Goto(c, d, label) == pc' = [pc EXCEPT ![c][d] = label]

Cut(m) == [m EXCEPT !.len = 1]

(* The first message of a program, of number 1, is its bind.               *)
Binds(c, d, m) == d = "in" /\ addr[c] = 0 /\ m.num = 1

Read_Empty(c, d) ==    \* slip: the end of the messages is forwarded as one
  /\ pc[c][d] = "read" /\ sock[c][d] = "peer" /\ nread[c][d] = Len(sent[c][d])
  /\ held' = [held EXCEPT ![c][d] = NoMsg]
  /\ Goto(c, d, "write")
  /\ UNCHANGED <<accepted, accepting, want, addr, miioConn, sock, sent, nread, got>>

Read(c, d) ==
  /\ pc[c][d] = "read" /\ sock[c][d] # "closed"
  /\ nread[c][d] < Len(sent[c][d])
  /\ LET m == sent[c][d][nread[c][d] + 1]
     IN  /\ held' = [held EXCEPT ![c][d] = Cut(m)]
         /\ IF Binds(c, d, m)
              THEN addr' = [addr EXCEPT ![c] = want[c]] /\ Goto(c, d, "register")
              ELSE UNCHANGED addr /\ Goto(c, d, "write")
  /\ nread' = [nread EXCEPT ![c][d] = @ + 1]
  /\ UNCHANGED <<accepted, accepting, want, miioConn, sock, sent, got>>

ReadError(c, d) ==
  /\ pc[c][d] = "read"
  /\ \/ sock[c][d] = "closed"
     \/ sock[c][d] = "peer" /\ nread[c][d] = Len(sent[c][d])
  /\ Goto(c, d, "close")
  /\ UNCHANGED <<accepted, accepting, want, addr, miioConn, sock, sent, nread, got, held>>

Register(c, d) ==
  /\ pc[c][d] = "register"
  /\ miioConn' = [miioConn EXCEPT ![addr[c]] = c]
  /\ Goto(c, d, "write")
  /\ UNCHANGED <<accepted, accepting, want, addr, sock, sent, nread, got, held>>

Write_Twice(c, d) ==   \* slip: a message is written twice
  /\ pc[c][d] = "write" /\ sock[c][Other(d)] = "open"
  /\ got' = [got EXCEPT ![c][d] = @ \o <<held[c][d], held[c][d]>>]
  /\ Goto(c, d, "read")
  /\ UNCHANGED <<accepted, accepting, want, addr, miioConn, sock, sent, nread, held>>

Write(c, d) ==
  /\ pc[c][d] = "write"
  /\ IF sock[c][Other(d)] = "open"
       THEN got' = [got EXCEPT ![c][d] = Append(@, held[c][d])] /\ Goto(c, d, "read")
       ELSE Goto(c, d, "close") /\ UNCHANGED got
  /\ UNCHANGED <<accepted, accepting, want, addr, miioConn, sock, sent, nread, held>>

Close_None(c, d) ==    \* slip: the other socket is left open
  /\ pc[c][d] = "close"
  /\ Goto(c, d, "delete")
  /\ UNCHANGED <<accepted, accepting, want, addr, miioConn, sock, sent, nread, got, held>>

Close(c, d) ==
  /\ pc[c][d] = "close"
  /\ sock' = [sock EXCEPT ![c][Other(d)] = "closed"]
  /\ Goto(c, d, "delete")
  /\ UNCHANGED <<accepted, accepting, want, addr, miioConn, sent, nread, got, held>>

Delete_OutOnly(c, d) == \* slip: only the goroutine of the agent deletes
  /\ pc[c][d] = "delete"
  /\ miioConn' = IF d = "out" /\ addr[c] # 0
                   THEN [miioConn EXCEPT ![addr[c]] = 0] ELSE miioConn
  /\ Goto(c, d, "done")
  /\ UNCHANGED <<accepted, accepting, want, addr, sock, sent, nread, got, held>>

Delete(c, d) ==
  /\ pc[c][d] = "delete"
  /\ miioConn' = IF addr[c] # 0 THEN [miioConn EXCEPT ![addr[c]] = 0] ELSE miioConn
  /\ Goto(c, d, "done")
  /\ UNCHANGED <<accepted, accepting, want, addr, sock, sent, nread, got, held>>

miioSocketProxy(c, d) ==
  Read(c, d) \/ ReadError(c, d) \/ Register(c, d) \/ Write(c, d) \/ Close(c, d) \/ Delete(c, d)

-----------------------------------------------------------------------------
(***************************************************************************)
(* The program and the agent, external.  A program binds first; either end *)
(* sends and closes when it likes.                                         *)
(***************************************************************************)
NumSent ==
  Cardinality({m \in Conn \X Dir \X (1..MaxMsgs) : m[3] <= Len(sent[m[1]][m[2]])})

PeerSend(c, d, l) ==
  /\ sock[c][d] = "open" /\ NumSent < MaxMsgs
  /\ sent' = [sent EXCEPT ![c][d] = Append(@, [num |-> Len(@) + 1, len |-> l])]
  /\ UNCHANGED <<accepted, accepting, want, addr, miioConn, sock, nread, got, pc, held>>

PeerClose(c, d) ==
  /\ sock[c][d] = "open"
  /\ sock' = [sock EXCEPT ![c][d] = "peer"]
  /\ UNCHANGED <<accepted, accepting, want, addr, miioConn, sent, nread, got, pc, held>>

Next ==
  \/ \E a \in Addresses : Accept(a)
  \/ Dial
  \/ \E c \in Conn, d \in Dir :
       \/ miioSocketProxy(c, d) \/ PeerClose(c, d)
       \/ \E l \in Lengths : PeerSend(c, d, l)

Spec == Init /\ [][Next]_vars

(* Goroutines are scheduled, and an agent that has died is sooner or later *)
(* started again by daemon_miio.sh and can be dialled.                     *)
Fairness == WF_vars(Dial) /\ \A c \in Conn, d \in Dir : WF_vars(miioSocketProxy(c, d))

FairSpec == Spec /\ Fairness

-----------------------------------------------------------------------------
Msg == [num : 1..MaxMsgs, len : Lengths \cup {1}]

TypeOK ==
  /\ accepted \in 0..MaxConns /\ accepting \in BOOLEAN
  /\ want \in [Conn -> Addresses \cup {0}] /\ addr \in [Conn -> Addresses \cup {0}]
  /\ miioConn \in [Addresses -> 0..MaxConns]
  /\ sock \in [Conn -> [Dir -> {"open", "peer", "closed"}]]
  /\ sent \in [Conn -> [Dir -> Seq(Msg)]]
  /\ nread \in [Conn -> [Dir -> 0..MaxMsgs]]
  /\ got \in [Conn -> [Dir -> Seq(Msg)]]
  /\ pc \in [Conn -> [Dir -> {"none", "read", "register", "write", "close", "delete", "done"}]]
  /\ held \in [Conn -> [Dir -> Msg \cup {NoMsg}]]

Exited(c) == \A d \in Dir : pc[c][d] = "done"

(* miio_reader.go:138-141: once both goroutines of a connection have       *)
(* exited, gw3 does not find it in miioConn, whichever exited first and    *)
(* however its bind raced with the end of the other direction.             *)
NoStaleConn == \A a \in Addresses : \A c \in Conn : miioConn[a] = c => ~Exited(c)

(* miio_reader.go:71-132: each direction carries the messages it was sent, *)
(* in order, none twice and none skipped.                                  *)
Nums(s) == [i \in DOMAIN s |-> s[i].num]
ForwardedInOrder ==
  \A c \in Conn, d \in Dir : IsPrefix(Nums(got[c][d]), Nums(sent[c][d]))

(* miio_reader.go:31-41, 134-138: when one end closes, both goroutines     *)
(* exit and the other end is closed too, even if it closes while the agent *)
(* cannot be dialled and the other programs wait to be accepted.           *)
ClosedTogether ==
  \A c \in Conn, d \in Dir : (sock[c][d] = "peer") ~> (Exited(c) /\ sock[c][Other(d)] # "open")

=============================================================================
