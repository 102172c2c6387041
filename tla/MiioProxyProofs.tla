-------------------------- MODULE MiioProxyProofs --------------------------
(***************************************************************************)
(* Theorems about MiioProxy, for every number of connections, addresses    *)
(* and messages.                                                           *)
(***************************************************************************)
EXTENDS MiioProxy, FiniteSetTheorems, SequenceTheorems, TLAPS

Label == {"none", "read", "register", "write", "close", "delete", "done"}

(* As much of the type invariant as the proof needs.                       *)
Shape ==
  /\ accepted \in 0..MaxConns
  /\ addr \in [Conn -> Addresses \cup {0}] /\ want \in [Conn -> Addresses \cup {0}]
  /\ miioConn \in [Addresses -> 0..MaxConns]
  /\ pc \in [Conn -> [Dir -> Label]]

(* Who is registered at an address has bound it, and the goroutine that    *)
(* reads from its program, the only one that registers, has not exited:    *)
(* that one deletes whatever it has registered on its way out, even if the *)
(* other one has deleted before.                                           *)
Registered ==
  /\ \A a \in Addresses, c \in Conn : miioConn[a] = c => addr[c] = a /\ pc[c]["in"] # "done"
  /\ \A c \in Conn : pc[c]["out"] # "register"

IInv == Shape /\ Registered

-----------------------------------------------------------------------------
LEMMA Constants == MaxConns \in Nat /\ 0 \notin Addresses /\ 0 \notin Conn
BY ProxyAssumption DEF Conn

LEMMA InvInit == Init => IInv
<1> SUFFICES ASSUME Init PROVE IInv
  OBVIOUS
<1>1. Shape
  BY Constants DEF Init, Shape, Label
<1>2. Registered
  <2>1. \A a \in Addresses, c \in Conn : miioConn[a] # c
    BY Constants DEF Init
  <2>2. \A c \in Conn : pc[c]["out"] = "none"
    BY DEF Init, Dir
  <2>3. QED  BY <2>1, <2>2 DEF Registered
<1>3. QED  BY <1>1, <1>2 DEF IInv

(* Steps of the goroutine of direction d of connection c.                  *)
LEMMA ProxyStep ==
  ASSUME IInv, NEW c \in Conn, NEW d \in Dir, miioSocketProxy(c, d)
  PROVE  IInv'
<1> USE Constants
<1>0. /\ "in" \in Dir /\ "out" \in Dir
      /\ pc \in [Conn -> [Dir -> Label]] /\ addr \in [Conn -> Addresses \cup {0}]
      /\ want \in [Conn -> Addresses \cup {0}] /\ miioConn \in [Addresses -> 0..MaxConns]
  BY DEF IInv, Shape, Dir
<1>1. ASSUME NEW label \in Label, Goto(c, d, label)
      PROVE  /\ pc' \in [Conn -> [Dir -> Label]]
             /\ pc'[c][d] = label
             /\ \A c2 \in Conn, d2 \in Dir : c2 # c \/ d2 # d => pc'[c2][d2] = pc[c2][d2]
  BY <1>0, <1>1 DEF Goto
<1>labels. {"read", "register", "write", "close", "delete", "done"} \subseteq Label
  BY DEF Label
<1>2. CASE Read(c, d)
  <2> DEFINE m == sent[c][d][nread[c][d] + 1]
  <2>1. CASE Binds(c, d, m)
    <3>1. addr[c] = 0 /\ d = "in" /\ addr' = [addr EXCEPT ![c] = want[c]] /\ Goto(c, d, "register")
          /\ miioConn' = miioConn /\ want' = want /\ accepted' = accepted
      BY <1>2, <2>1 DEF Read, Binds
    <3>2. Shape'
      BY <1>0, <1>1, <1>labels, <3>1 DEF Shape, IInv
    <3>3. \A a \in Addresses : miioConn[a] # c
      BY <3>1 DEF IInv, Registered
    <3>4. Registered'
      BY <1>0, <1>1, <1>labels, <3>1, <3>3 DEF IInv, Registered
    <3>5. QED  BY <3>2, <3>4 DEF IInv
  <2>2. CASE ~Binds(c, d, m)
    <3>1. Goto(c, d, "write") /\ UNCHANGED <<addr, miioConn, want, accepted>>
      BY <1>2, <2>2 DEF Read
    <3>2. Shape'
      BY <1>0, <1>1, <1>labels, <3>1 DEF IInv, Shape
    <3>3. Registered'
      BY <1>0, <1>1, <1>labels, <3>1 DEF IInv, Registered
    <3>4. QED  BY <3>2, <3>3 DEF IInv
  <2>3. QED  BY <2>1, <2>2
<1>3. CASE ReadError(c, d) \/ Write(c, d) \/ Close(c, d)
  <2>1. PICK label \in {"read", "close", "delete"} : Goto(c, d, label)
    BY <1>3 DEF ReadError, Write, Close
  <2>2. UNCHANGED <<addr, miioConn, want, accepted>>
    BY <1>3 DEF ReadError, Write, Close
  <2>3. Shape'
    BY <1>0, <1>1, <1>labels, <2>1, <2>2 DEF IInv, Shape
  <2>4. Registered'
    BY <1>0, <1>1, <1>labels, <2>1, <2>2 DEF IInv, Registered
  <2>5. QED  BY <2>3, <2>4 DEF IInv
<1>4. CASE Register(c, d)
  <2>1. /\ pc[c][d] = "register" /\ Goto(c, d, "write") /\ UNCHANGED <<addr, want, accepted>>
        /\ miioConn' = [miioConn EXCEPT ![addr[c]] = c]
    BY <1>4 DEF Register
  <2>2. d = "in"
    BY <2>1 DEF IInv, Registered, Dir
  <2>3. c \in 0..MaxConns
    BY DEF Conn
  <2>4. Shape'
    BY <1>0, <1>1, <1>labels, <2>1, <2>3 DEF IInv, Shape
  <2>5. Registered'
    BY <1>0, <1>1, <1>labels, <2>1, <2>2 DEF IInv, Registered
  <2>6. QED  BY <2>4, <2>5 DEF IInv
<1>5. CASE Delete(c, d)
  <2>1. /\ Goto(c, d, "done") /\ UNCHANGED <<addr, want, accepted>>
        /\ miioConn' = IF addr[c] # 0 THEN [miioConn EXCEPT ![addr[c]] = 0] ELSE miioConn
    BY <1>5 DEF Delete
  <2>2. Shape'
    BY <1>0, <1>1, <1>labels, <2>1 DEF IInv, Shape
  <2>3. \A a \in Addresses : miioConn'[a] # c
    BY <1>0, <2>1 DEF IInv, Registered
  <2>4. \A a \in Addresses, c2 \in Conn : miioConn'[a] = c2 => miioConn[a] = c2
    BY <1>0, <2>1
  <2>5. Registered'
    BY <1>0, <1>1, <1>labels, <2>1, <2>3, <2>4 DEF IInv, Registered
  <2>6. QED  BY <2>2, <2>5 DEF IInv
<1>6. QED
  BY <1>2, <1>3, <1>4, <1>5 DEF miioSocketProxy

LEMMA InvStep == IInv /\ [Next]_vars => IInv'
<1> SUFFICES ASSUME IInv, [Next]_vars PROVE IInv'
  OBVIOUS
<1> USE Constants
<1>1. ASSUME NEW a \in Addresses, Accept(a)
      PROVE  IInv'
  <2>1. /\ accepted \in 0..MaxConns /\ accepted < MaxConns /\ accepted' = accepted + 1
        /\ want' = [want EXCEPT ![accepted'] = a] /\ UNCHANGED <<addr, miioConn, pc>>
    BY <1>1 DEF Accept, IInv, Shape
  <2>2. accepted' \in 0..MaxConns
    BY <2>1
  <2>3. want' \in [Conn -> Addresses \cup {0}]
    BY <2>1 DEF IInv, Shape
  <2>4. QED  BY <2>1, <2>2, <2>3 DEF IInv, Shape, Registered
<1>2. CASE Dial
  <2>1. pc' = [pc EXCEPT ![accepted] = [d \in Dir |-> "read"]] /\ UNCHANGED <<accepted, want, addr, miioConn>>
    BY <1>2 DEF Dial
  <2>2. pc' \in [Conn -> [Dir -> Label]]
    BY <2>1 DEF IInv, Shape, Label
  <2>3. \A c \in Conn : \/ pc'[c] = pc[c]
                        \/ pc'[c]["in"] = "read" /\ pc'[c]["out"] = "read"
    BY <2>1 DEF IInv, Shape, Dir
  <2>4. Shape'
    BY <2>1, <2>2 DEF IInv, Shape
  <2>5. ASSUME NEW c \in Conn
        PROVE  (pc[c]["in"] # "done" => pc'[c]["in"] # "done") /\ pc'[c]["out"] # "register"
    BY <2>3 DEF IInv, Registered
  <2>6. Registered'
    BY <2>1, <2>5 DEF IInv, Registered
  <2>7. QED  BY <2>4, <2>6 DEF IInv
<1>3. ASSUME NEW c \in Conn, NEW d \in Dir, PeerClose(c, d) \/ \E l \in Lengths : PeerSend(c, d, l)
      PROVE  IInv'
  <2>1. UNCHANGED <<accepted, want, addr, miioConn, pc>>
    BY <1>3 DEF PeerClose, PeerSend
  <2>2. QED  BY <2>1 DEF IInv, Shape, Registered
<1>4. CASE UNCHANGED vars
  BY <1>4 DEF vars, IInv, Shape, Registered
<1>5. QED
  BY <1>1, <1>2, <1>3, <1>4, ProxyStep DEF Next

(* miio_reader.go:138-141: whichever of the two goroutines of a connection *)
(* exits first, and however the bind of its program races with the end of  *)
(* the other direction, once both have exited miioConn does not have it.   *)
THEOREM NoStaleConnCorrect == Spec => []NoStaleConn
<1>1. IInv => NoStaleConn
  BY DEF IInv, Registered, NoStaleConn, Exited, Dir
<1>2. QED
  BY <1>1, InvInit, InvStep, PTL DEF Spec

-----------------------------------------------------------------------------
(***************************************************************************)
(* What a direction carries.  Its sequence s of messages sent is numbered  *)
(* from 1, and so is the sequence g of those written on; n have been read, *)
(* and all of these have been written but the one the goroutine holds, or  *)
(* held when it could not write it any more.                               *)
(***************************************************************************)
Link(s, n, g, p, h) ==
  /\ \A i \in 1..Len(s) : s[i].num = i
  /\ \A i \in 1..Len(g) : g[i].num = i
  /\ n <= Len(s) /\ Len(g) <= n
  /\ p \in {"none", "read"} => Len(g) = n
  /\ p \in {"register", "write"} => n = Len(g) + 1 /\ h.num = n

Carried ==
  \A c \in Conn, d \in Dir : Link(sent[c][d], nread[c][d], got[c][d], pc[c][d], held[c][d])

(* The goroutines of a connection start after the agent has been dialled.  *)
NotStarted ==
  /\ \A c \in Conn, d \in Dir :
       c > accepted \/ (c = accepted /\ ~accepting) => pc[c][d] = "none"
  /\ ~accepting => accepted \in Conn

DInv == TypeOK /\ Carried /\ NotStarted

-----------------------------------------------------------------------------
(* Changing the entry of one direction of a table.                         *)
LEMMA Update ==
  ASSUME NEW S, NEW f \in [Conn -> [Dir -> S]], NEW c \in Conn, NEW d \in Dir, NEW v \in S,
         NEW g, g = [f EXCEPT ![c][d] = v]
  PROVE  /\ g \in [Conn -> [Dir -> S]]
         /\ g[c][d] = v
         /\ \A c2 \in Conn, d2 \in Dir : c2 # c \/ d2 # d => g[c2][d2] = f[c2][d2]
OBVIOUS

(* Appending the next number to messages numbered from 1.                  *)
LEMMA Numbered ==
  ASSUME NEW s \in Seq(Msg), NEW m \in Msg, m.num = Len(s) + 1,
         \A i \in 1..Len(s) : s[i].num = i
  PROVE  /\ Append(s, m) \in Seq(Msg)
         /\ Len(Append(s, m)) = Len(s) + 1
         /\ \A i \in 1..Len(Append(s, m)) : Append(s, m)[i].num = i
<1>1. Len(s) \in Nat
  BY LenProperties
<1>2. Append(s, m) \in Seq(Msg) /\ Len(Append(s, m)) = Len(s) + 1
  BY AppendProperties
<1>3. /\ \A i \in 1..Len(s) : Append(s, m)[i] = s[i]
      /\ Append(s, m)[Len(s) + 1] = m
  BY AppendProperties
<1>4. ASSUME NEW i \in 1..Len(Append(s, m))
      PROVE  Append(s, m)[i].num = i
  <2>1. CASE i \in 1..Len(s)
    BY <1>3, <2>1
  <2>2. CASE i = Len(s) + 1
    BY <1>3, <2>2
  <2>3. QED  BY <1>1, <1>2, <2>1, <2>2
<1>5. QED  BY <1>2, <1>4

(* While fewer than MaxMsgs messages have been sent in all, no direction   *)
(* has been sent MaxMsgs.                                                  *)
LEMMA Room ==
  ASSUME sent \in [Conn -> [Dir -> Seq(Msg)]], NumSent < MaxMsgs, NEW c \in Conn, NEW d \in Dir
  PROVE  Len(sent[c][d]) < MaxMsgs
<1> DEFINE Pairs == (Conn \X Dir) \X (1..MaxMsgs)
           Triples == Conn \X Dir \X (1..MaxMsgs)
           Sent == {m \in Triples : m[3] <= Len(sent[m[1]][m[2]])}
           flat == [t \in Triples |-> <<<<t[1], t[2]>>, t[3]>>]
           mine == [i \in 1..MaxMsgs |-> <<c, d, i>>]
<1>1. IsFiniteSet(Conn) /\ IsFiniteSet(1..MaxMsgs) /\ Cardinality(1..MaxMsgs) = MaxMsgs
  BY FS_Interval, Constants, ProxyAssumption DEF Conn
<1>2. IsFiniteSet(Dir)
  <2>1. Dir = {"in"} \cup {"out"}
    BY DEF Dir
  <2>2. QED  BY <2>1, FS_Singleton, FS_AddElement
<1>3. IsFiniteSet(Pairs)
  <2>1. IsFiniteSet(Conn \X Dir)
    BY <1>1, <1>2, FS_Product
  <2>2. QED  BY <1>1, <2>1, FS_Product
<1>4. flat \in Injection(Triples, Pairs)
  <2>1. \A t \in Triples : flat[t] \in Pairs
    OBVIOUS
  <2>2. \A t, u \in Triples : flat[t] = flat[u] => t = u
    <3> TAKE t, u \in Triples
    <3>1. t = <<t[1], t[2], t[3]>> /\ u = <<u[1], u[2], u[3]>>
      OBVIOUS
    <3>2. flat[t] = <<<<t[1], t[2]>>, t[3]>> /\ flat[u] = <<<<u[1], u[2]>>, u[3]>>
      OBVIOUS
    <3>3. ASSUME flat[t] = flat[u]
          PROVE  t[1] = u[1] /\ t[2] = u[2] /\ t[3] = u[3]
      <4> HIDE DEF flat
      <4>1. QED  BY <3>2, <3>3
    <3>4. QED  BY <3>1, <3>3
  <2>3. flat \in [Triples -> Pairs]
    BY <2>1
  <2> HIDE DEF flat, Triples, Pairs
  <2>4. QED  BY <2>2, <2>3 DEF Injection, IsInjective
<1>5. IsFiniteSet(Triples)
  <2> HIDE DEF flat, Triples, Pairs
  <2>1. QED  BY <1>3, <1>4, FS_Injection
<1>6. IsFiniteSet(Sent)
  <2>1. Sent \in SUBSET Triples
    OBVIOUS
  <2> HIDE DEF Sent, Triples
  <2>2. QED  BY <1>5, <2>1, FS_Subset
<1>7. Cardinality(Sent) < MaxMsgs
  BY DEF NumSent
<1>8. SUFFICES ASSUME ~(Len(sent[c][d]) < MaxMsgs)
               PROVE  FALSE
  OBVIOUS
<1>9. Len(sent[c][d]) \in Nat /\ MaxMsgs \in Nat
  BY LenProperties, ProxyAssumption
<1>10. mine \in Injection(1..MaxMsgs, Sent)
  BY <1>8, <1>9 DEF Injection, IsInjective
<1>11. Cardinality(1..MaxMsgs) <= Cardinality(Sent)
  <2> HIDE DEF mine, Sent
  <2>1. QED  BY <1>6, <1>10, FS_Injection
<1>12. Cardinality(Sent) \in Nat
  <2> HIDE DEF Sent
  <2>1. QED  BY <1>6, FS_CardinalityType
<1>13. QED
  <2> HIDE DEF Sent
  <2>1. QED  BY <1>1, <1>7, <1>9, <1>11, <1>12

-----------------------------------------------------------------------------
LEMMA DInit == Init => DInv
<1> SUFFICES ASSUME Init PROVE DInv
  OBVIOUS
<1> USE Constants
<1>1. TypeOK
  <2>1. <<>> \in Seq(Msg)
    BY EmptySeq
  <2>2. sent \in [Conn -> [Dir -> Seq(Msg)]] /\ got \in [Conn -> [Dir -> Seq(Msg)]]
    BY <2>1 DEF Init
  <2>3. nread \in [Conn -> [Dir -> 0..MaxMsgs]]
    BY ProxyAssumption DEF Init
  <2>4. QED  BY <2>2, <2>3 DEF Init, TypeOK
<1>2. Carried
  <2> SUFFICES ASSUME NEW c \in Conn, NEW d \in Dir
               PROVE  Link(sent[c][d], nread[c][d], got[c][d], pc[c][d], held[c][d])
    BY DEF Carried
  <2>1. /\ sent[c][d] = <<>> /\ got[c][d] = <<>> /\ nread[c][d] = 0
        /\ pc[c][d] = "none"
    BY DEF Init
  <2>2. Len(<<>>) = 0
    BY EmptySeq
  <2>3. QED  BY <2>1, <2>2 DEF Link
<1>3. NotStarted
  BY DEF Init, NotStarted
<1>4. QED  BY <1>1, <1>2, <1>3 DEF DInv

(* Only one direction has changed, and carries what it should.             *)
LEMMA Frame ==
  ASSUME Carried, NEW c \in Conn, NEW d \in Dir,
         Link(sent'[c][d], nread'[c][d], got'[c][d], pc'[c][d], held'[c][d]),
         \A c2 \in Conn, d2 \in Dir : c2 # c \/ d2 # d =>
           /\ sent'[c2][d2] = sent[c2][d2] /\ nread'[c2][d2] = nread[c2][d2]
           /\ got'[c2][d2] = got[c2][d2] /\ pc'[c2][d2] = pc[c2][d2]
           /\ held'[c2][d2] = held[c2][d2]
  PROVE  Carried'
<1> SUFFICES ASSUME NEW c2 \in Conn, NEW d2 \in Dir
             PROVE  Link(sent'[c2][d2], nread'[c2][d2], got'[c2][d2], pc'[c2][d2], held'[c2][d2])
  BY DEF Carried
<1>1. CASE c2 = c /\ d2 = d
  BY <1>1
<1>2. CASE c2 # c \/ d2 # d
  <2>1. Link(sent[c2][d2], nread[c2][d2], got[c2][d2], pc[c2][d2], held[c2][d2])
    BY DEF Carried
  <2>2. QED  BY <1>2, <2>1
<1>3. QED  BY <1>1, <1>2

LEMMA GoroutineStep ==
  ASSUME DInv, NEW c \in Conn, NEW d \in Dir, miioSocketProxy(c, d)
  PROVE  DInv'
<1> USE Constants
<1>0. /\ sent \in [Conn -> [Dir -> Seq(Msg)]] /\ got \in [Conn -> [Dir -> Seq(Msg)]]
      /\ nread \in [Conn -> [Dir -> 0..MaxMsgs]] /\ held \in [Conn -> [Dir -> Msg \cup {NoMsg}]]
      /\ pc \in [Conn -> [Dir -> Label]]
      /\ Link(sent[c][d], nread[c][d], got[c][d], pc[c][d], held[c][d])
  BY DEF DInv, TypeOK, Carried, Label
<1>1. UNCHANGED <<accepted, accepting, want, sent>>
  BY DEF miioSocketProxy, Read, ReadError, Register, Write, Close, Delete
<1>2. /\ addr' \in [Conn -> Addresses \cup {0}] /\ miioConn' \in [Addresses -> 0..MaxConns]
      /\ sock' \in [Conn -> [Dir -> {"open", "peer", "closed"}]]
  <2>0. /\ addr \in [Conn -> Addresses \cup {0}] /\ want \in [Conn -> Addresses \cup {0}]
        /\ miioConn \in [Addresses -> 0..MaxConns]
        /\ sock \in [Conn -> [Dir -> {"open", "peer", "closed"}]]
    BY DEF DInv, TypeOK
  <2>1. Conn \subseteq 0..MaxConns /\ 0 \in 0..MaxConns /\ Other(d) \in Dir
    BY DEF Conn, Other, Dir
  <2>2. addr' = addr \/ addr' = [addr EXCEPT ![c] = want[c]]
    BY DEF miioSocketProxy, Read, ReadError, Register, Write, Close, Delete
  <2>3. \/ miioConn' = miioConn
        \/ \E k \in 0..MaxConns : miioConn' = [miioConn EXCEPT ![addr[c]] = k]
    BY <2>1 DEF miioSocketProxy, Read, ReadError, Register, Write, Close, Delete
  <2>4. sock' = sock \/ sock' = [sock EXCEPT ![c][Other(d)] = "closed"]
    BY DEF miioSocketProxy, Read, ReadError, Register, Write, Close, Delete
  <2>5. QED  BY <2>0, <2>1, <2>2, <2>3, <2>4
<1>3. /\ pc[c][d] # "none"
      /\ \E l \in Label \ {"none"} : Goto(c, d, l)
  <2>1. {"read", "register", "write", "close", "delete", "done"} \subseteq Label \ {"none"}
    BY DEF Label
  <2>2. QED
    BY <2>1 DEF miioSocketProxy, Read, ReadError, Register, Write, Close, Delete
<1>4. /\ pc' \in [Conn -> [Dir -> Label]]
      /\ \A c2 \in Conn, d2 \in Dir : c2 # c \/ d2 # d => pc'[c2][d2] = pc[c2][d2]
  BY <1>0, <1>3, Update DEF Goto
<1>5. NotStarted'
  BY <1>1, <1>3, <1>4 DEF DInv, NotStarted
<1>6. SUFFICES /\ nread' \in [Conn -> [Dir -> 0..MaxMsgs]]
               /\ got' \in [Conn -> [Dir -> Seq(Msg)]]
               /\ held' \in [Conn -> [Dir -> Msg \cup {NoMsg}]]
               /\ Carried'
  <2>1. /\ accepted \in 0..MaxConns /\ accepting \in BOOLEAN
        /\ want \in [Conn -> Addresses \cup {0}] /\ sent \in [Conn -> [Dir -> Seq(Msg)]]
    BY DEF DInv, TypeOK
  <2>2. accepted' = accepted /\ accepting' = accepting /\ want' = want /\ sent' = sent
    BY <1>1
  <2>3. TypeOK'
    BY <1>2, <1>4, <1>6, <2>1, <2>2 DEF TypeOK, Label
  <2>4. QED  BY <1>5, <1>6, <2>3 DEF DInv
<1>len. /\ Len(sent[c][d]) \in Nat /\ Len(got[c][d]) \in Nat
        /\ nread[c][d] \in 0..MaxMsgs /\ MaxMsgs \in Nat
  BY <1>0, LenProperties, ProxyAssumption
<1>7. CASE Read(c, d)
  <2> DEFINE m == sent[c][d][nread[c][d] + 1]
  <2>1. /\ pc[c][d] = "read" /\ nread[c][d] < Len(sent[c][d])
        /\ held' = [held EXCEPT ![c][d] = Cut(m)]
        /\ nread' = [nread EXCEPT ![c][d] = nread[c][d] + 1]
        /\ got' = got
    BY <1>0, <1>7 DEF Read
  <2>2. m \in Msg /\ m.num = nread[c][d] + 1
    <3>1. nread[c][d] + 1 \in 1..Len(sent[c][d])
      BY <1>len, <2>1
    <3>2. QED  BY <1>0, <3>1, ElementOfSeq DEF Link
  <2>3. Cut(m) \in Msg /\ Cut(m).num = nread[c][d] + 1
    <3> HIDE DEF m
    <3>1. QED  BY <2>2 DEF Cut, Msg
  <2>4. nread[c][d] + 1 \in 0..MaxMsgs
    BY <2>2, <1>len DEF Msg
  <2>5. pc'[c][d] \in {"register", "write"}
    BY <1>0, <1>7 DEF Read, Goto
  <2> HIDE DEF m
  <2>6. /\ held' \in [Conn -> [Dir -> Msg \cup {NoMsg}]] /\ held'[c][d] = Cut(m)
        /\ \A c2 \in Conn, d2 \in Dir : c2 # c \/ d2 # d => held'[c2][d2] = held[c2][d2]
    BY <1>0, <2>1, <2>3, Update
  <2>7. /\ nread' \in [Conn -> [Dir -> 0..MaxMsgs]] /\ nread'[c][d] = nread[c][d] + 1
        /\ \A c2 \in Conn, d2 \in Dir : c2 # c \/ d2 # d => nread'[c2][d2] = nread[c2][d2]
    BY <1>0, <2>1, <2>4, Update
  <2>8. Link(sent[c][d], nread[c][d] + 1, got[c][d], pc'[c][d], Cut(m))
    BY <1>0, <1>len, <2>1, <2>3, <2>5 DEF Link
  <2>9. Carried'
    BY <1>1, <1>4, <2>1, <2>6, <2>7, <2>8, Frame DEF DInv
  <2>10. QED  BY <1>0, <2>1, <2>6, <2>7, <2>9
<1>8. CASE Register(c, d)
  <2>1. /\ pc[c][d] = "register" /\ pc'[c][d] = "write"
        /\ nread' = nread /\ got' = got /\ held' = held
    BY <1>0, <1>8 DEF Register, Goto
  <2>2. Link(sent[c][d], nread[c][d], got[c][d], pc'[c][d], held[c][d])
    BY <1>0, <2>1 DEF Link
  <2>3. Carried'
    BY <1>1, <1>4, <2>1, <2>2, Frame DEF DInv
  <2>4. QED  BY <1>0, <2>1, <2>3
<1>9. CASE Write(c, d) /\ sock[c][Other(d)] = "open"
  <2>1. /\ pc[c][d] = "write" /\ pc'[c][d] = "read"
        /\ nread' = nread /\ held' = held
        /\ got' = [got EXCEPT ![c][d] = Append(got[c][d], held[c][d])]
    BY <1>0, <1>9 DEF Write, Goto
  <2>2. nread[c][d] = Len(got[c][d]) + 1 /\ held[c][d].num = Len(got[c][d]) + 1
    BY <1>0, <2>1 DEF Link
  <2>3. held[c][d] \in Msg
    BY <1>0, <1>len, <2>2 DEF NoMsg
  <2>4. /\ Append(got[c][d], held[c][d]) \in Seq(Msg)
        /\ Len(Append(got[c][d], held[c][d])) = Len(got[c][d]) + 1
        /\ \A i \in 1..Len(Append(got[c][d], held[c][d])) : Append(got[c][d], held[c][d])[i].num = i
    <3>1. got[c][d] \in Seq(Msg) /\ \A i \in 1..Len(got[c][d]) : got[c][d][i].num = i
      BY <1>0 DEF Link
    <3>2. QED  BY <2>2, <2>3, <3>1, Numbered
  <2>5. /\ got' \in [Conn -> [Dir -> Seq(Msg)]] /\ got'[c][d] = Append(got[c][d], held[c][d])
        /\ \A c2 \in Conn, d2 \in Dir : c2 # c \/ d2 # d => got'[c2][d2] = got[c2][d2]
    BY <1>0, <2>1, <2>4, Update
  <2>6. Link(sent[c][d], nread[c][d], got'[c][d], pc'[c][d], held[c][d])
    <3> DEFINE g == got'[c][d]
    <3>1. Len(g) = nread[c][d] /\ \A i \in 1..Len(g) : g[i].num = i
      BY <2>2, <2>4, <2>5
    <3>2. /\ nread[c][d] <= Len(sent[c][d]) /\ nread[c][d] \in Nat
          /\ \A i \in 1..Len(sent[c][d]) : sent[c][d][i].num = i
      BY <1>0, <1>len DEF Link
    <3> HIDE DEF g
    <3>3. Link(sent[c][d], nread[c][d], g, "read", held[c][d])
      BY <3>1, <3>2 DEF Link
    <3>4. QED  BY <2>1, <3>3 DEF g
  <2>7. Carried'
    BY <1>1, <1>4, <2>1, <2>5, <2>6, Frame DEF DInv
  <2>8. QED  BY <1>0, <2>1, <2>5, <2>7
<1>10. CASE \/ ReadError(c, d) \/ Close(c, d) \/ Delete(c, d)
            \/ Write(c, d) /\ sock[c][Other(d)] # "open"
  <2>1. /\ pc'[c][d] \in {"close", "delete", "done"}
        /\ nread' = nread /\ got' = got /\ held' = held
    BY <1>0, <1>10 DEF ReadError, Close, Delete, Write, Goto
  <2>2. Link(sent[c][d], nread[c][d], got[c][d], pc'[c][d], held[c][d])
    BY <1>0, <2>1 DEF Link
  <2>3. Carried'
    BY <1>1, <1>4, <2>1, <2>2, Frame DEF DInv
  <2>4. QED  BY <1>0, <2>1, <2>3
<1>11. QED
  BY <1>7, <1>8, <1>9, <1>10 DEF miioSocketProxy

(* The socket miioReader accepts on, the agent it dials, and the ends.     *)
LEMMA AcceptStep ==
  ASSUME DInv, NEW a \in Addresses, Accept(a)
  PROVE  DInv'
<1> USE Constants
<1>0. /\ accepted \in 0..MaxConns /\ want \in [Conn -> Addresses \cup {0}]
      /\ sock \in [Conn -> [Dir -> {"open", "peer", "closed"}]]
  BY DEF DInv, TypeOK
<1>1. /\ accepted < MaxConns /\ accepted' = accepted + 1 /\ accepting' = FALSE
      /\ want' = [want EXCEPT ![accepted'] = a]
      /\ sock' = [sock EXCEPT ![accepted']["in"] = "open"]
      /\ UNCHANGED <<addr, miioConn, sent, nread, got, pc, held>>
  BY DEF Accept
<1>2. accepted' \in 0..MaxConns /\ accepted' \in Conn
  BY <1>0, <1>1 DEF Conn
<1>3. want' \in [Conn -> Addresses \cup {0}]
  BY <1>0, <1>1
<1>4. sock' \in [Conn -> [Dir -> {"open", "peer", "closed"}]]
  BY <1>0, <1>1, <1>2, Update DEF Dir
<1>5. TypeOK'
  BY <1>1, <1>2, <1>3, <1>4 DEF DInv, TypeOK
<1>6. Carried'
  BY <1>1 DEF DInv, Carried
<1>7. NotStarted'
  BY <1>0, <1>1, <1>2 DEF DInv, NotStarted, Conn
<1>8. QED  BY <1>5, <1>6, <1>7 DEF DInv

LEMMA DialStep ==
  ASSUME DInv, Dial
  PROVE  DInv'
<1> USE Constants
<1>0. /\ accepted \in Conn /\ sock \in [Conn -> [Dir -> {"open", "peer", "closed"}]]
      /\ pc \in [Conn -> [Dir -> Label]]
      /\ \A d \in Dir : pc[accepted][d] = "none"
  BY DEF DInv, TypeOK, NotStarted, Dial, Label
<1>1. /\ accepting' = TRUE /\ sock' = [sock EXCEPT ![accepted]["out"] = "open"]
      /\ pc' = [pc EXCEPT ![accepted] = [d \in Dir |-> "read"]]
      /\ UNCHANGED <<accepted, want, addr, miioConn, sent, nread, got, held>>
  BY DEF Dial
<1>2. sock' \in [Conn -> [Dir -> {"open", "peer", "closed"}]]
  BY <1>0, <1>1, Update DEF Dir
<1>3. /\ pc' \in [Conn -> [Dir -> Label]]
      /\ \A c \in Conn, d \in Dir :
           pc'[c][d] = pc[c][d] \/ (c = accepted /\ pc[c][d] = "none" /\ pc'[c][d] = "read")
  <2>1. "read" \in Label
    BY DEF Label
  <2>2. QED  BY <1>0, <1>1, <2>1
<1>4. TypeOK'
  BY <1>1, <1>2, <1>3 DEF DInv, TypeOK, Label
<1>5. Carried'
  <2> SUFFICES ASSUME NEW c \in Conn, NEW d \in Dir
               PROVE  Link(sent[c][d], nread[c][d], got[c][d], pc'[c][d], held[c][d])
    BY <1>1 DEF Carried
  <2>1. Link(sent[c][d], nread[c][d], got[c][d], pc[c][d], held[c][d])
    BY DEF DInv, Carried
  <2>2. QED  BY <1>3, <2>1 DEF Link
<1>6. NotStarted'
  <2> SUFFICES ASSUME NEW c \in Conn, NEW d \in Dir, c > accepted
               PROVE  pc'[c][d] = "none"
    BY <1>1 DEF NotStarted
  <2>1. c # accepted
    BY <1>0 DEF Conn
  <2>2. QED  BY <1>3, <2>1 DEF DInv, NotStarted
<1>7. QED  BY <1>4, <1>5, <1>6 DEF DInv

LEMMA PeerSendStep ==
  ASSUME DInv, NEW c \in Conn, NEW d \in Dir, NEW l \in Lengths, PeerSend(c, d, l)
  PROVE  DInv'
<1> USE Constants
<1> DEFINE m == [num |-> Len(sent[c][d]) + 1, len |-> l]
<1>0. /\ sent \in [Conn -> [Dir -> Seq(Msg)]]
      /\ nread \in [Conn -> [Dir -> 0..MaxMsgs]] /\ got \in [Conn -> [Dir -> Seq(Msg)]]
      /\ Link(sent[c][d], nread[c][d], got[c][d], pc[c][d], held[c][d])
  BY DEF DInv, TypeOK, Carried
<1>1. /\ NumSent < MaxMsgs
      /\ sent' = [sent EXCEPT ![c][d] = Append(sent[c][d], m)]
      /\ UNCHANGED <<accepted, accepting, want, addr, miioConn, sock, nread, got, pc, held>>
  BY <1>0 DEF PeerSend
<1>2. m \in Msg /\ m.num = Len(sent[c][d]) + 1
  <2>1. Len(sent[c][d]) < MaxMsgs
    BY <1>0, <1>1, Room
  <2>2. Len(sent[c][d]) \in Nat
    BY <1>0, LenProperties
  <2>3. Len(sent[c][d]) + 1 \in 1..MaxMsgs
    BY <2>1, <2>2, ProxyAssumption
  <2>4. QED  BY <2>3 DEF Msg
<1> HIDE DEF m
<1>3. /\ Append(sent[c][d], m) \in Seq(Msg)
      /\ Len(Append(sent[c][d], m)) = Len(sent[c][d]) + 1
      /\ \A i \in 1..Len(Append(sent[c][d], m)) : Append(sent[c][d], m)[i].num = i
  <2>1. sent[c][d] \in Seq(Msg) /\ \A i \in 1..Len(sent[c][d]) : sent[c][d][i].num = i
    BY <1>0 DEF Link
  <2>2. QED  BY <1>2, <2>1, Numbered
<1>4. /\ sent' \in [Conn -> [Dir -> Seq(Msg)]] /\ sent'[c][d] = Append(sent[c][d], m)
      /\ \A c2 \in Conn, d2 \in Dir : c2 # c \/ d2 # d => sent'[c2][d2] = sent[c2][d2]
  BY <1>0, <1>1, <1>3, Update
<1>5. Len(sent[c][d]) \in Nat /\ Len(got[c][d]) \in Nat /\ nread[c][d] \in Nat
  BY <1>0, LenProperties, ProxyAssumption
<1>6. Link(sent'[c][d], nread[c][d], got[c][d], pc[c][d], held[c][d])
  BY <1>0, <1>3, <1>4, <1>5 DEF Link
<1>7. Carried'
  BY <1>1, <1>4, <1>6, Frame DEF DInv
<1>8. TypeOK'
  BY <1>1, <1>4 DEF DInv, TypeOK
<1>9. NotStarted'
  BY <1>1 DEF DInv, NotStarted
<1>10. QED  BY <1>7, <1>8, <1>9 DEF DInv

LEMMA PeerCloseStep ==
  ASSUME DInv, NEW c \in Conn, NEW d \in Dir, PeerClose(c, d)
  PROVE  DInv'
<1>1. /\ sock' = [sock EXCEPT ![c][d] = "peer"]
      /\ UNCHANGED <<accepted, accepting, want, addr, miioConn, sent, nread, got, pc, held>>
  BY DEF PeerClose
<1>2. sock' \in [Conn -> [Dir -> {"open", "peer", "closed"}]]
  BY <1>1, Update DEF DInv, TypeOK
<1>3. TypeOK'
  BY <1>1, <1>2 DEF DInv, TypeOK
<1>4. Carried' /\ NotStarted'
  BY <1>1 DEF DInv, Carried, NotStarted
<1>5. QED  BY <1>3, <1>4 DEF DInv

LEMMA DStep == DInv /\ [Next]_vars => DInv'
<1> SUFFICES ASSUME DInv, [Next]_vars PROVE DInv'
  OBVIOUS
<1>1. CASE UNCHANGED vars
  BY <1>1 DEF vars, DInv, TypeOK, Carried, NotStarted
<1>2. CASE Next
  BY <1>2, AcceptStep, DialStep, GoroutineStep, PeerSendStep, PeerCloseStep DEF Next
<1>3. QED  BY <1>1, <1>2

(* What Link says of the numbers is what IsPrefix says of the sequences.   *)
LEMMA PrefixOfNumbered ==
  ASSUME NEW s \in Seq(Msg), NEW g \in Seq(Msg), Len(g) <= Len(s),
         \A i \in 1..Len(s) : s[i].num = i, \A i \in 1..Len(g) : g[i].num = i
  PROVE  IsPrefix(Nums(g), Nums(s))
<1>1. /\ Len(s) \in Nat /\ DOMAIN s = 1..Len(s)
      /\ Len(g) \in Nat /\ DOMAIN g = 1..Len(g)
  BY LenProperties
<1>2. Nums(s) = [i \in 1..Len(s) |-> i] /\ Nums(g) = [i \in 1..Len(g) |-> i]
  BY <1>1 DEF Nums
<1>3. Nums(s) \in Seq(Nat) /\ Len(Nums(s)) = Len(s) /\ Nums(g) \in Seq(Nat) /\ Len(Nums(g)) = Len(g)
  BY <1>1, <1>2
<1> DEFINE a == SubSeq(Nums(g), 1, Len(g))
           b == SubSeq(Nums(s), 1, Len(g))
<1>4. a \in Seq(Nat) /\ b \in Seq(Nat) /\ Len(a) = Len(g) /\ Len(b) = Len(g)
  <2>1. \A i \in 1..Len(g) : Nums(g)[i] \in Nat /\ Nums(s)[i] \in Nat
    BY <1>1, <1>2
  <2>2. 1 \in Int /\ Len(g) \in Int
    BY <1>1
  <2>3. /\ a \in Seq(Nat) /\ Len(a) = IF 1 <= Len(g) THEN Len(g) - 1 + 1 ELSE 0
        /\ b \in Seq(Nat) /\ Len(b) = IF 1 <= Len(g) THEN Len(g) - 1 + 1 ELSE 0
    BY <2>1, <2>2, SubSeqProperties
  <2>4. QED  BY <1>1, <2>3
<1>5. ASSUME NEW i \in 1..Len(a) PROVE a[i] = b[i]
  <2>1. \A j \in 1..Len(g) : Nums(g)[j] \in Nat /\ Nums(s)[j] \in Nat
    BY <1>1, <1>2
  <2>2. 1 \in Int /\ Len(g) \in Int /\ i \in 1..Len(g) - 1 + 1
    BY <1>1, <1>4
  <2>3. a[i] = Nums(g)[1 + i - 1] /\ b[i] = Nums(s)[1 + i - 1]
    BY <2>1, <2>2, SubSeqProperties
  <2>4. 1 + i - 1 = i /\ i \in 1..Len(g) /\ i \in 1..Len(s)
    BY <1>1, <2>2
  <2>5. QED  BY <1>2, <2>3, <2>4
<1>6. a = b
  <2> HIDE DEF a, b
  <2>1. QED  BY <1>4, <1>5, SeqEqual
<1>7. QED  BY <1>3, <1>6 DEF IsPrefix

(* The type invariant of MiioProxy; NumSent bounds every direction.        *)
THEOREM TypeCorrect == Spec => []TypeOK
<1>1. DInv => TypeOK
  BY DEF DInv
<1>2. QED
  BY <1>1, DInit, DStep, PTL DEF Spec

(* miio_reader.go:71-132: a program and the agent get from each other the  *)
(* messages they were sent, in order, none twice and none skipped, however *)
(* the ends send and close and whenever the agent can be dialled.          *)
THEOREM ForwardedInOrderCorrect == Spec => []ForwardedInOrder
<1>1. ASSUME DInv PROVE ForwardedInOrder
  <2> SUFFICES ASSUME NEW c \in Conn, NEW d \in Dir
               PROVE  IsPrefix(Nums(got[c][d]), Nums(sent[c][d]))
    BY DEF ForwardedInOrder
  <2>1. /\ sent[c][d] \in Seq(Msg) /\ got[c][d] \in Seq(Msg) /\ nread[c][d] \in Nat
        /\ Link(sent[c][d], nread[c][d], got[c][d], pc[c][d], held[c][d])
    BY <1>1, ProxyAssumption DEF DInv, TypeOK, Carried
  <2>2. Len(got[c][d]) <= Len(sent[c][d])
    <3>1. Len(got[c][d]) \in Nat /\ Len(sent[c][d]) \in Nat
      BY <2>1, LenProperties
    <3>2. QED  BY <2>1, <3>1 DEF Link
  <2>3. QED  BY <2>1, <2>2, PrefixOfNumbered DEF Link
<1>2. QED
  BY <1>1, DInit, DStep, PTL DEF Spec

=============================================================================
