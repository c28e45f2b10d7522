-------------------------- MODULE HumanBridgeProofs --------------------------
(***************************************************************************)
(* The safety of HumanBridge, for every set of connections and messages,   *)
(* and of HumanFlow, whose steps leave the bridge alone or are steps of    *)
(* it, for every set of prompts.                                           *)
(***************************************************************************)
EXTENDS HumanFlow, SequenceTheorems, TLAPS

\* Type correctness.  What is handed over at the channel broadcast, and then
\* written to the clients, is a message.
Handover ==
  /\ \A c \in Conns : reader[c] = "sending" => message[c] \in Messages
  /\ hub.pc = "writing" => hub.message \in Messages

Types == TypeOK /\ Handover

\* Every action keeps every variable in its type.
LEMMA TypesInvariant == Spec => []Types
<1>1. Init => Types
  BY DEF Init, Types, TypeOK, Handover
<1>2. Types /\ [Next]_vars => Types'
  <2> SUFFICES ASSUME Types, [Next]_vars PROVE Types'
    OBVIOUS
  <2> USE DEF Types, TypeOK, Handover, conns, readers, history
  <2>1. ASSUME NEW c \in Conns, Connect(c) PROVE Types'
    BY <2>1 DEF Connect
  <2>2. ASSUME NEW c \in Conns, NEW m \in Messages, PeerSend(c, m) PROVE Types'
    BY <2>2 DEF PeerSend
  <2>3. ASSUME NEW c \in Conns, PeerStall(c) \/ PeerResume(c) \/ PeerClose(c) PROVE Types'
    BY <2>3 DEF PeerStall, PeerResume, PeerClose, Peer
  <2>4. ASSUME NEW c \in Conns, Reset(c) PROVE Types'
    <3>1. socket' \in [Conns -> {"ok", "broken", "closed"}]
      BY <2>4 DEF Reset
    <3>2. unread' \in [Conns -> Seq(Messages)]
      <4>1. CASE UNCHANGED unread
        BY <4>1
      <4>2. CASE unread' = [unread EXCEPT ![c] = <<>>]
        BY <4>2
      <4> QED
        BY <2>4, <4>1, <4>2, Zenon DEF Reset
    <3> QED
      BY <2>4, <3>1, <3>2 DEF Reset
  <2>5. ASSUME NEW c \in Conns, ReadMessage(c) PROVE Types'
    BY <2>5 DEF ReadMessage
  <2>6. ASSUME NEW c \in Conns, ReadFails(c) PROVE Types'
    BY <2>6 DEF ReadFails
  <2>7. ASSUME NEW c \in Conns, Register(c) PROVE Types'
    BY <2>7 DEF Register
  <2>8. ASSUME NEW c \in Conns, UnregisterReader(c) PROVE Types'
    BY <2>8 DEF UnregisterReader, Remove
  <2>9. ASSUME NEW c \in Conns, UnregisterFailed(c) PROVE Types'
    <3>1. asking' \in [Conns -> Nat]
      <4>1. asking[c] - 1 \in Nat
        BY <2>9 DEF UnregisterFailed
      <4> QED
        BY <2>9, <4>1 DEF UnregisterFailed
    <3>2. clients' \in SUBSET Conns /\ socket' \in [Conns -> {"ok", "broken", "closed"}]
      BY <2>9 DEF UnregisterFailed, Remove
    <3> QED
      BY <2>9, <3>1, <3>2 DEF UnregisterFailed
  <2>10. ASSUME NEW c \in Conns, Broadcast(c) PROVE Types'
    BY <2>10 DEF Broadcast
  <2>11. ASSUME NEW c \in Conns, Write(c) PROVE Types'
    <3>1. asking' \in [Conns -> Nat]
      BY <2>11 DEF Write
    <3>2. received' \in [Conns -> Seq(Messages)]
      BY <2>11 DEF Write
    <3> QED
      BY <2>11, <3>1, <3>2 DEF Write
  <2>12. CASE EndBroadcast
    BY <2>12 DEF EndBroadcast
  <2>13. CASE UNCHANGED vars
    BY <2>13 DEF vars
  <2> QED
    BY <2>1, <2>2, <2>3, <2>4, <2>5, <2>6, <2>7, <2>8, <2>9, <2>10, <2>11, <2>12, <2>13 DEF Next
<1> QED
  BY <1>1, <1>2, PTL DEF Spec

\* Every variable has its type in every reachable state.
THEOREM TypeCorrect == Spec => []TypeOK
  BY TypesInvariant, PTL DEF Types

-----------------------------------------------------------------------------
\* Registration.  A connection has a reader from its registration on, the hub
\* does not touch it before, and its reader is the last to ask for its removal.

Lifecycle ==
  \A c \in Conns :
    /\ reader[c] = "none" <=> peer[c] = "none"
    /\ reader[c] \in {"none", "registering"} => socket[c] # "closed"

LEMMA RegistrationInvariant == Spec => [](Lifecycle /\ RegisteredIsServed)
<1>1. Init => Lifecycle /\ RegisteredIsServed
  BY DEF Init, Lifecycle, RegisteredIsServed
<1>2. Types /\ Lifecycle /\ RegisteredIsServed /\ [Next]_vars => (Lifecycle /\ RegisteredIsServed)'
  <2> SUFFICES ASSUME Types, Lifecycle, RegisteredIsServed, [Next]_vars
               PROVE  (Lifecycle /\ RegisteredIsServed)'
    OBVIOUS
  <2> USE DEF Types, TypeOK, Lifecycle, RegisteredIsServed, conns, readers, history
  <2>1. ASSUME NEW c \in Conns, Connect(c) PROVE (Lifecycle /\ RegisteredIsServed)'
    BY <2>1 DEF Connect
  <2>2. ASSUME NEW c \in Conns, NEW m \in Messages, PeerSend(c, m)
        PROVE  (Lifecycle /\ RegisteredIsServed)'
    BY <2>2 DEF PeerSend
  <2>3. ASSUME NEW c \in Conns, PeerStall(c) \/ PeerResume(c) \/ PeerClose(c)
        PROVE  (Lifecycle /\ RegisteredIsServed)'
    BY SMTT(30), <2>3 DEF PeerStall, PeerResume, PeerClose, Peer
  <2>4. ASSUME NEW c \in Conns, Reset(c) PROVE (Lifecycle /\ RegisteredIsServed)'
    BY <2>4 DEF Reset
  <2>5. ASSUME NEW c \in Conns, ReadMessage(c) PROVE (Lifecycle /\ RegisteredIsServed)'
    BY <2>5 DEF ReadMessage
  <2>6. ASSUME NEW c \in Conns, ReadFails(c) PROVE (Lifecycle /\ RegisteredIsServed)'
    BY <2>6 DEF ReadFails
  <2>7. ASSUME NEW c \in Conns, Register(c) PROVE (Lifecycle /\ RegisteredIsServed)'
    BY <2>7 DEF Register
  <2>8. ASSUME NEW c \in Conns, UnregisterReader(c) PROVE (Lifecycle /\ RegisteredIsServed)'
    BY <2>8 DEF UnregisterReader, Remove
  <2>9. ASSUME NEW c \in Conns, UnregisterFailed(c) PROVE (Lifecycle /\ RegisteredIsServed)'
    <3>1. /\ reader' = reader /\ peer' = peer
          /\ c \in clients => clients' = clients \ {c} /\ socket' = [socket EXCEPT ![c] = "closed"]
          /\ c \notin clients => clients' = clients /\ socket' = socket
      BY <2>9 DEF UnregisterFailed, Remove
    <3>2. ASSUME NEW d \in Conns, socket'[d] = socket[d], d \in clients' <=> d \in clients
          PROVE  /\ reader'[d] = "none" <=> peer'[d] = "none"
                 /\ reader'[d] \in {"none", "registering"} => socket'[d] # "closed"
                 /\ d \in clients' <=> reader'[d] \in {"reading", "sending", "leaving"} /\ socket'[d] # "closed"
      BY <3>1, <3>2
    <3>3. CASE c \in clients
      <4>1. /\ \A d \in Conns \ {c} : socket'[d] = socket[d] /\ (d \in clients' <=> d \in clients)
            /\ c \notin clients' /\ socket'[c] = "closed"
        BY <3>1, <3>3
      <4>2. reader[c] \in {"reading", "sending", "leaving"}
        BY <3>3
      <4> QED
        BY <3>1, <3>2, <4>1, <4>2
    <3>4. CASE c \notin clients
      BY <3>1, <3>2, <3>4
    <3> QED
      BY <3>3, <3>4
  <2>10. ASSUME NEW c \in Conns, Broadcast(c) PROVE (Lifecycle /\ RegisteredIsServed)'
    BY <2>10 DEF Broadcast
  <2>11. ASSUME NEW c \in Conns, Write(c) PROVE (Lifecycle /\ RegisteredIsServed)'
    BY <2>11 DEF Write
  <2>12. CASE EndBroadcast
    BY <2>12 DEF EndBroadcast
  <2>13. CASE UNCHANGED vars
    BY <2>13 DEF vars
  <2> QED
    BY <2>1, <2>2, <2>3, <2>4, <2>5, <2>6, <2>7, <2>8, <2>9, <2>10, <2>11, <2>12, <2>13 DEF Next
<1> QED
  BY TypesInvariant, <1>1, <1>2, PTL DEF Spec

\* A connection is registered exactly while it is read and not closed.
THEOREM Registration == Spec => []RegisteredIsServed
  BY RegistrationInvariant, PTL

-----------------------------------------------------------------------------
\* The refinement.  A client that is alive lacks, of the order since its
\* registration, the message being written and nothing else, and that only while
\* its turn in the loop is to come.

Behind(c) == IF hub.pc = "writing" /\ c \in hub.todo THEN 1 ELSE 0

Delivery ==
  /\ hub.pc = "writing" => /\ hub.todo \subseteq clients
                            /\ order # <<>> /\ hub.message = order[Len(order)]
  /\ \A c \in Conns : reader[c] \in {"none", "registering"} => received[c] = <<>>
  /\ \A c \in clients : socket[c] = "ok" /\ Alive(c) =>
       start[c] + Len(received[c]) + Behind(c) = Len(order)

LEMMA DeliveryInvariant == Spec => []Delivery
<1>1. Init => Delivery
  BY DEF Init, Delivery
<1>2. Types /\ Lifecycle /\ RegisteredIsServed /\ Delivery /\ [Next]_vars => Delivery'
  <2> SUFFICES ASSUME Types, Lifecycle, RegisteredIsServed, Delivery, [Next]_vars
               PROVE  Delivery'
    OBVIOUS
  <2> USE DEF Types, TypeOK, Handover, Delivery, Behind, Alive, conns, readers, history
  <2>1. ASSUME NEW c \in Conns, Connect(c) PROVE Delivery'
    <3>1. c \notin clients /\ reader[c] = "none"
      BY <2>1 DEF Connect, Lifecycle, RegisteredIsServed
    <3>2. /\ \A d \in Conns \ {c} : peer'[d] = peer[d] /\ reader'[d] = reader[d]
          /\ UNCHANGED <<socket, clients, hub, order, start, received>>
      BY <2>1 DEF Connect
    <3>3. received[c] = <<>>
      BY <3>1
    <3>4. clients \subseteq Conns \ {c}
      BY <3>1
    <3> QED
      BY <3>2, <3>3, <3>4
  <2>2. ASSUME NEW c \in Conns, NEW m \in Messages, PeerSend(c, m) PROVE Delivery'
    BY <2>2 DEF PeerSend
  <2>3. ASSUME NEW c \in Conns, PeerStall(c) \/ PeerResume(c) \/ PeerClose(c) PROVE Delivery'
    <3>1. /\ \A d \in Conns : Alive(d)' => Alive(d)
          /\ UNCHANGED <<socket, reader, clients, hub, order, start, received>>
      BY <2>3 DEF PeerStall, PeerResume, PeerClose, Peer
    <3> QED
      BY <3>1
  <2>4. ASSUME NEW c \in Conns, Reset(c) PROVE Delivery'
    BY <2>4 DEF Reset
  <2>5. ASSUME NEW c \in Conns, ReadMessage(c) PROVE Delivery'
    BY <2>5 DEF ReadMessage
  <2>6. ASSUME NEW c \in Conns, ReadFails(c) PROVE Delivery'
    BY <2>6 DEF ReadFails
  <2>7. ASSUME NEW c \in Conns, Register(c) PROVE Delivery'
    BY <2>7 DEF Register, Selecting
  <2>8. ASSUME NEW c \in Conns, UnregisterReader(c) PROVE Delivery'
    BY <2>8 DEF UnregisterReader, Remove, Selecting
  <2>9. ASSUME NEW c \in Conns, UnregisterFailed(c) PROVE Delivery'
    BY <2>9 DEF UnregisterFailed, Remove, Selecting
  <2>10. ASSUME NEW c \in Conns, Broadcast(c) PROVE Delivery'
    <3>1. message[c] \in Messages
      BY <2>10 DEF Broadcast
    <3>2. /\ order' # <<>> /\ Len(order') = Len(order) + 1 /\ order'[Len(order')] = message[c]
          /\ Len(order) \in Nat
      <4>1. order \in Seq(Messages) /\ order' = Append(order, message[c])
        BY <2>10 DEF Broadcast
      <4> QED
        BY <3>1, <4>1
    <3>3. /\ hub'.pc = "writing" /\ hub'.message = message[c] /\ hub'.todo = clients
          /\ UNCHANGED <<clients, peer, socket, start, received>>
          /\ hub.pc = "select"
      BY <2>10 DEF Broadcast, Selecting
    <3>4. \A d \in Conns : reader'[d] \in {"none", "registering"} => reader[d] = reader'[d]
      BY <2>10 DEF Broadcast
    <3>5. \A d \in clients : Behind(d) = 0 /\ Behind(d)' = 1
      BY <3>3
    <3>6. \A d \in Conns : Len(received[d]) \in Nat /\ start[d] \in Nat
      OBVIOUS
    <3>7. \A d \in clients : socket[d] = "ok" /\ Alive(d) =>
            start[d] + Len(received[d]) + Behind(d)' = Len(order')
      <4> HIDE DEF Behind
      <4> QED
        BY <3>2, <3>3, <3>5, <3>6
    <3>8. Delivery!1'
      BY <3>2, <3>3
    <3> QED
      BY <3>3, <3>4, <3>7, <3>8
  <2>11. ASSUME NEW c \in Conns, Write(c) PROVE Delivery'
    <3>1. /\ hub.pc = "writing" /\ hub'.pc = "writing" /\ hub'.message = hub.message
          /\ c \in hub.todo /\ hub'.todo = hub.todo \ {c}
          /\ UNCHANGED <<clients, order, start, peer, socket, reader>>
      BY <2>11 DEF Write
    <3>2. c \in clients /\ reader[c] \notin {"none", "registering"}
      BY <3>1 DEF RegisteredIsServed
    <3>3. \A d \in Conns \ {c} : received'[d] = received[d]
      BY <2>11 DEF Write
    <3>4. socket[c] = "ok" /\ Alive(c) => Len(received'[c]) = Len(received[c]) + 1
      BY <2>11 DEF Write
    <3>5. \A d \in Conns : Len(received[d]) \in Nat /\ start[d] \in Nat
      OBVIOUS
    <3>6. \A d \in clients : socket[d] = "ok" /\ Alive(d) =>
            start[d] + Len(received'[d]) + Behind(d)' = Len(order)
      BY SMTT(30), <3>1, <3>2, <3>3, <3>4, <3>5
    <3> QED
      BY <3>1, <3>2, <3>3, <3>6
  <2>12. CASE EndBroadcast
    BY <2>12 DEF EndBroadcast
  <2>13. CASE UNCHANGED vars
    BY <2>13 DEF vars
  <2> QED
    BY <2>1, <2>2, <2>3, <2>4, <2>5, <2>6, <2>7, <2>8, <2>9, <2>10, <2>11, <2>12, <2>13 DEF Next
<1> QED
  BY TypesInvariant, RegistrationInvariant, <1>1, <1>2, PTL DEF Spec

\* A message in front of a sequence: what a reader that is sending holds in
\* front of what it has not read.
LEMMA InFront ==
  ASSUME NEW m \in Messages, NEW s \in Seq(Messages)
  PROVE  /\ <<m>> \o s \in Seq(Messages) /\ <<m>> \o s # <<>>
         /\ Head(<<m>> \o s) = m
         /\ Tail(<<m>> \o s) = s
         /\ Len(<<m>> \o s) = Len(s) + 1
         /\ SubSeq(<<m>> \o s, 1, 1) = <<m>>
<1> DEFINE q == <<m>> \o s
<1>1. /\ q \in Seq(Messages) /\ Len(q) = Len(s) + 1 /\ Len(s) \in Nat
      /\ q[1] = m /\ \A i \in 1..Len(s) : q[i + 1] = s[i]
  <2>1. <<m>> \in Seq(Messages) /\ Len(<<m>>) = 1 /\ <<m>>[1] = m
    OBVIOUS
  <2>2. Len(s) \in Nat
    BY LenProperties
  <2> HIDE DEF q
  <2>3. /\ q \in Seq(Messages) /\ Len(q) = 1 + Len(s)
        /\ \A i \in 1..1 + Len(s) : q[i] = IF i <= 1 THEN <<m>>[i] ELSE s[i - 1]
    BY <2>1, ConcatProperties DEF q
  <2>4. \A i \in 1..Len(s) : q[i + 1] = s[i]
    <3> TAKE i \in 1..Len(s)
    <3>1. i + 1 \in 1..1 + Len(s) /\ ~(i + 1 <= 1) /\ (i + 1) - 1 = i
      BY <2>2
    <3> QED
      BY <2>3, <3>1
  <2> QED
    BY <2>1, <2>2, <2>3, <2>4
<1> HIDE DEF q
<1>2. q # <<>>
  BY <1>1
<1>3. Head(q) = m
  BY <1>1, <1>2
<1>4. Tail(q) = s
  <2>1. Tail(q) \in Seq(Messages) /\ Len(Tail(q)) = Len(s)
    BY <1>1, <1>2, HeadTailProperties
  <2>2. \A i \in 1..Len(Tail(q)) : Tail(q)[i] = s[i]
    BY <1>1, <1>2, <2>1, HeadTailProperties
  <2> QED
    BY <2>1, <2>2, SeqEqual
<1>5. SubSeq(q, 1, 1) = <<m>>
  <2> DEFINE t == SubSeq(q, 1, 1)
  <2>1. 1 \in Int /\ \A i \in 1..1 : q[i] \in Messages
    BY <1>1
  <2>2. t \in Seq(Messages) /\ Len(t) = 1 /\ \A i \in 1..1 : t[i] = q[i]
    BY <2>1, SubSeqProperties
  <2>3. <<m>> \in Seq(Messages) /\ Len(<<m>>) = 1 /\ \A i \in 1..1 : <<m>>[i] = q[i]
    BY <1>1
  <2> HIDE DEF t
  <2>4. t = <<m>>
    BY <2>2, <2>3, SeqEqual
  <2> QED
    BY <2>4 DEF t
<1> QED
  BY <1>1, <1>2, <1>3, <1>4, <1>5 DEF q

\* A message sent behind what is held in front is sent behind all of it.
LEMMA AppendBehind ==
  ASSUME NEW m \in Messages, NEW s \in Seq(Messages), NEW n \in Messages
  PROVE  Append(<<m>> \o s, n) = <<m>> \o Append(s, n)
<1>1. <<m>> \in Seq(Messages) /\ <<n>> \in Seq(Messages)
  OBVIOUS
<1>2. <<m>> \o s \in Seq(Messages)
  BY InFront
<1>3. Append(<<m>> \o s, n) = (<<m>> \o s) \o <<n>>
  BY <1>2, AppendIsConcat
<1>4. (<<m>> \o s) \o <<n>> = <<m>> \o (s \o <<n>>)
  BY <1>1, ConcatAssociative
<1>5. Append(s, n) = s \o <<n>>
  BY AppendIsConcat
<1> QED
  BY <1>3, <1>4, <1>5

LEMMA BackInFront ==
  ASSUME NEW s \in Seq(Messages), s # <<>>
  PROVE  /\ Head(s) \in Messages /\ Tail(s) \in Seq(Messages)
         /\ <<Head(s)>> \o Tail(s) = s
<1>1. Head(s) \in Messages /\ Tail(s) \in Seq(Messages)
  BY HeadTailProperties
<1> DEFINE q == <<Head(s)>> \o Tail(s)
<1>2. /\ q \in Seq(Messages) /\ q # <<>> /\ Head(q) = Head(s) /\ Tail(q) = Tail(s)
      /\ Len(q) = Len(Tail(s)) + 1
  BY <1>1, InFront
<1> HIDE DEF q
<1>3. Len(q) = Len(s) /\ Len(s) \in Nat /\ Len(Tail(s)) = Len(s) - 1
  BY <1>2, HeadTailProperties, LenProperties
<1>4. \A i \in 1..Len(q) : q[i] = s[i]
  <2> TAKE i \in 1..Len(q)
  <2>1. CASE i = 1
    BY <1>2, <2>1
  <2>2. CASE i # 1
    <3>1. i - 1 \in 1..Len(Tail(s)) /\ (i - 1) + 1 = i
      BY <1>3, <2>2
    <3>2. Tail(q)[i - 1] = q[i] /\ Tail(s)[i - 1] = s[i]
      BY <1>2, <3>1, HeadTailProperties
    <3> QED
      BY <1>2, <3>2
  <2> QED
    BY <2>1, <2>2
<1> QED
  BY <1>1, <1>2, <1>3, <1>4, SeqEqual DEF q

\* The queues and the members of TotalOrderBroadcast.
Queue  == [c \in Conns |-> IF reader[c] = "sending" THEN <<message[c]>> \o unread[c] ELSE unread[c]]
Joined == {c \in Conns : reader[c] \notin {"none", "registering"}}

BridgeKept == UNCHANGED <<Queue, order, Joined, start, received>>

\* Every connection sees the messages in one order, from its registration on,
\* without gap or repetition.
THEOREM BridgeImplementsBroadcast == Spec => BroadcastIsTotallyOrdered
<1>1. Init => Bridge!Init
  BY DEF Init, Bridge!Init
<1>2. Types /\ Lifecycle /\ RegisteredIsServed /\ Delivery /\ [Next]_vars
        => [Bridge!Next]_(Bridge!vars)
  <2> SUFFICES ASSUME Types, Lifecycle, RegisteredIsServed, Delivery, [Next]_vars
               PROVE  Bridge!Next \/ BridgeKept
    BY DEF BridgeKept, Queue, Joined, Bridge!vars
  <2> USE DEF Types, TypeOK, Handover, conns, readers, history
  <2>0. \A c \in Conns : Queue[c] \in Seq(Messages)
    BY InFront DEF Queue
  <2>1. ASSUME NEW c \in Conns, NEW m \in Messages, PeerSend(c, m) PROVE Bridge!Next
    <3>1. Queue' = [Queue EXCEPT ![c] = Append(@, m)]
      <4>1. Queue'[c] = Append(Queue[c], m)
        <5>1. unread'[c] = Append(unread[c], m) /\ UNCHANGED <<reader, message>>
          BY <2>1 DEF PeerSend
        <5>2. CASE reader[c] = "sending"
          <6>1. message[c] \in Messages /\ unread[c] \in Seq(Messages)
            BY <5>2
          <6>2. Append(<<message[c]>> \o unread[c], m) = <<message[c]>> \o Append(unread[c], m)
            BY ONLY <6>1, m \in Messages, AppendBehind
          <6> QED
            BY <5>1, <5>2, <6>2 DEF Queue
        <5>3. CASE reader[c] # "sending"
          BY <5>1, <5>3 DEF Queue
        <5> QED
          BY <5>2, <5>3
      <4>2. \A d \in Conns \ {c} : Queue'[d] = Queue[d]
        BY <2>1 DEF PeerSend, Queue
      <4> QED
        BY <4>1, <4>2 DEF Queue
    <3>2. Bridge!Submit(c, m)
      BY <2>1, <3>1 DEF PeerSend, Bridge!Submit, Queue
    <3> QED
      BY <3>2 DEF Bridge!Next
  <2>2. ASSUME NEW c \in Conns, Reset(c) PROVE Bridge!Next \/ BridgeKept
    <3>1. CASE UNCHANGED unread
      BY <2>2, <3>1 DEF Reset, BridgeKept, Queue, Joined
    <3>2. CASE unread' = [unread EXCEPT ![c] = <<>>]
      <4> DEFINE n == IF reader[c] = "sending" THEN 1 ELSE 0
      <4>1. n \in 0..Len(Queue[c])
        BY InFront DEF Queue
      <4>2. Queue' = [Queue EXCEPT ![c] = SubSeq(@, 1, n)]
        <5>1. Queue'[c] = SubSeq(Queue[c], 1, n)
          <6>1. CASE reader[c] = "sending"
            <7>1. Queue[c] = <<message[c]>> \o unread[c] /\ Queue'[c] = <<message[c]>> \o <<>>
              BY <2>2, <3>2, <6>1 DEF Reset, Queue
            <7>2. <<message[c]>> \in Seq(Messages)
              BY <6>1
            <7>3. <<message[c]>> \o <<>> = <<message[c]>>
              BY <7>2, ConcatEmptySeq
            <7> QED
              BY <6>1, <7>1, <7>3, InFront
          <6>2. CASE reader[c] # "sending"
            BY <2>2, <3>2, <6>2, SubSeqEmpty DEF Reset, Queue
          <6> QED
            BY <6>1, <6>2
        <5>2. \A d \in Conns \ {c} : Queue'[d] = Queue[d]
          BY <2>2, <3>2 DEF Reset, Queue
        <5> HIDE DEF n
        <5> QED
          BY <5>1, <5>2 DEF Queue
      <4>3. Bridge!Lose(c)
        BY <2>2, <4>1, <4>2 DEF Reset, Bridge!Lose, Queue
      <4> QED
        BY <4>3 DEF Bridge!Next
    <3> QED
      BY <2>2, <3>1, <3>2, Zenon DEF Reset
  <2>3. ASSUME NEW c \in Conns, ReadMessage(c) PROVE BridgeKept
    <3>1. Queue' = Queue
      BY <2>3, BackInFront DEF ReadMessage, Queue
    <3>2. Joined' = Joined
      BY <2>3 DEF ReadMessage, Joined
    <3> QED
      BY <2>3, <3>1, <3>2 DEF ReadMessage, BridgeKept
  <2>4. ASSUME NEW c \in Conns, Register(c) PROVE Bridge!Next
    <3>1. c \notin Joined /\ Joined' = Joined \cup {c}
      BY <2>4 DEF Register, Joined
    <3>2. Queue' = Queue
      BY <2>4 DEF Register, Queue
    <3>3. Bridge!Join(c)
      BY <2>4, <3>1, <3>2 DEF Register, Bridge!Join, Queue, Joined
    <3> QED
      BY <3>3 DEF Bridge!Next
  <2>5. ASSUME NEW c \in Conns, Broadcast(c) PROVE Bridge!Next
    <3>1. message[c] \in Messages /\ Queue[c] = <<message[c]>> \o unread[c]
      BY <2>5 DEF Broadcast, Queue
    <3>2. Queue[c] # <<>> /\ Head(Queue[c]) = message[c] /\ Tail(Queue[c]) = unread[c]
      BY <3>1, InFront
    <3>3. Queue' = [Queue EXCEPT ![c] = Tail(@)]
      <4>1. /\ Queue'[c] = unread[c]
            /\ \A d \in Conns \ {c} : Queue'[d] = Queue[d]
        BY <2>5 DEF Broadcast, Queue
      <4> QED
        BY <3>2, <4>1 DEF Queue
    <3>4. Joined' = Joined
      BY <2>5 DEF Broadcast, Joined
    <3>5. Bridge!Order(c)
      BY <2>5, <3>2, <3>3, <3>4 DEF Broadcast, Bridge!Order, Queue, Joined
    <3> QED
      BY <3>5 DEF Bridge!Next
  <2>6. ASSUME NEW c \in Conns, Write(c) PROVE Bridge!Next \/ BridgeKept
    <3>1. Queue' = Queue /\ Joined' = Joined /\ UNCHANGED <<order, start>>
      BY <2>6 DEF Write, Queue, Joined
    <3>2. CASE socket[c] = "ok" /\ peer[c] = "open"
      <4>1. /\ c \in clients /\ c \in Joined
            /\ start[c] + Len(received[c]) + 1 = Len(order)
            /\ hub.message = order[Len(order)]
        BY <2>6, <3>2 DEF Write, Delivery, Behind, Alive, Joined, RegisteredIsServed
      <4>2. Len(received[c]) \in Nat /\ start[c] \in Nat /\ Len(order) \in Nat
        OBVIOUS
      <4>3. received' = [received EXCEPT ![c] = Append(@, order[start[c] + Len(@) + 1])]
        BY <2>6, <3>2, <4>1 DEF Write
      <4>4. Bridge!Receive(c)
        BY SMTT(30), <3>1, <4>1, <4>2, <4>3 DEF Bridge!Receive, Queue, Joined
      <4> QED
        BY <4>4 DEF Bridge!Next
    <3>3. CASE ~(socket[c] = "ok" /\ peer[c] = "open")
      BY <2>6, <3>1, <3>3 DEF Write, BridgeKept
    <3> QED
      BY <3>2, <3>3
  <2>7. ASSUME NEW c \in Conns,
               \/ Connect(c) \/ PeerStall(c) \/ PeerResume(c) \/ PeerClose(c)
               \/ ReadFails(c) \/ UnregisterReader(c) \/ UnregisterFailed(c) \/ EndBroadcast
        PROVE  BridgeKept
    <3>1. /\ UNCHANGED <<order, start, received, unread, message>>
          /\ \A d \in Conns : /\ reader[d] = "sending" <=> reader'[d] = "sending"
                              /\ reader[d] \in {"none", "registering"} <=>
                                   reader'[d] \in {"none", "registering"}
      BY <2>7 DEF Connect, PeerStall, PeerResume, PeerClose, Peer, ReadFails, UnregisterReader,
                  UnregisterFailed, Remove, EndBroadcast, Lifecycle
    <3> QED
      BY <3>1 DEF BridgeKept, Queue, Joined
  <2>8. CASE UNCHANGED vars
    BY <2>8 DEF vars, BridgeKept, Queue, Joined
  <2>9. EndBroadcast => BridgeKept
    BY DEF EndBroadcast, BridgeKept, Queue, Joined
  <2> QED
    BY <2>1, <2>2, <2>3, <2>4, <2>5, <2>6, <2>7, <2>8, <2>9 DEF Next
<1> QED
  BY TypesInvariant, RegistrationInvariant, DeliveryInvariant, <1>1, <1>2, PTL
  DEF Spec, Bridge!Spec, BroadcastIsTotallyOrdered

-----------------------------------------------------------------------------
\* One order, each message once.

\* A message that is appended to messages that are different from it.
LEMMA InjectiveAppend ==
  ASSUME NEW s \in Seq(Messages), NEW m \in Messages
  PROVE  /\ Range(Append(s, m)) = Range(s) \cup {m}
         /\ IsInjective(s) /\ m \notin Range(s) => IsInjective(Append(s, m))
<1>1. DOMAIN Append(s, m) = 1..(Len(s) + 1) /\ DOMAIN s = 1..Len(s) /\ Len(s) \in Nat
  OBVIOUS
<1>2. \A i \in 1..(Len(s) + 1) : Append(s, m)[i] = IF i = Len(s) + 1 THEN m ELSE s[i]
  OBVIOUS
<1> DEFINE n == Len(s) t == Append(s, m)
<1>3. /\ n \in Nat /\ DOMAIN s = 1..n /\ DOMAIN t = 1..(n + 1)
      /\ t[n + 1] = m /\ \A i \in 1..n : t[i] = s[i]
      /\ \A i \in 1..(n + 1) : i = n + 1 \/ i \in 1..n
      /\ n + 1 \in 1..(n + 1) /\ \A i \in 1..n : i \in 1..(n + 1)
  BY <1>1, <1>2
<1> HIDE DEF n, t
<1>4. Range(t) = Range(s) \cup {m}
  BY <1>3 DEF Range
<1>5. IsInjective(s) /\ m \notin Range(s) => IsInjective(t)
  BY <1>3 DEF IsInjective, Range
<1> QED
  BY <1>4, <1>5 DEF t

\* The first of messages that differ, and the others.
LEMMA InjectiveTail ==
  ASSUME NEW s \in Seq(Messages), s # <<>>, IsInjective(s)
  PROVE  /\ Head(s) \in Range(s) /\ Head(s) \notin Range(Tail(s))
         /\ Range(Tail(s)) \subseteq Range(s) /\ IsInjective(Tail(s))
<1> DEFINE n == Len(s) t == Tail(s)
<1>1. /\ n \in Nat /\ DOMAIN s = 1..n /\ Head(s) = s[1] /\ n >= 1
  OBVIOUS
<1>2. /\ DOMAIN t = 1..(n - 1) /\ \A i \in 1..(n - 1) : t[i] = s[i + 1]
  BY HeadTailProperties
<1>3. /\ 1 \in 1..n /\ \A i \in 1..(n - 1) : i + 1 \in 1..n /\ i + 1 # 1
      /\ \A i, j \in 1..(n - 1) : i + 1 = j + 1 => i = j
  BY <1>1
<1> HIDE DEF n, t
<1> QED
  BY <1>1, <1>2, <1>3 DEF Range, IsInjective, t

\* Messages are sent once, and each is in one place: not read yet, at the
\* channel broadcast, or in the order.
Pending(c) ==
  /\ IsInjective(unread[c])
  /\ \A m \in Range(unread[c]) : m \in Range(sent[c]) /\ m \notin Range(order)
  /\ reader[c] = "sending" =>
       /\ message[c] \in Range(sent[c])
       /\ message[c] \notin Range(unread[c]) /\ message[c] \notin Range(order)

SentByOne ==
  \A c, d \in Conns : c # d => \A m \in Range(sent[c]) : m \notin Range(sent[d])

Ordered ==
  /\ IsInjective(order)
  /\ \A m \in Range(order) : \E c \in Conns : m \in Range(sent[c])

Once == (\A c \in Conns : Pending(c)) /\ SentByOne /\ Ordered

LEMMA OnceInvariant == Spec => []Once
<1>1. Init => Once
  BY DEF Init, Once, Pending, SentByOne, Ordered, Range, IsInjective
<1>2. Types /\ Once /\ [Next]_vars => Once'
  <2> SUFFICES ASSUME Types, Once, [Next]_vars PROVE Once'
    OBVIOUS
  <2> USE DEF conns, readers, history
  <2>1. /\ order \in Seq(Messages)
        /\ \A c \in Conns : unread[c] \in Seq(Messages) /\ sent[c] \in Seq(Messages)
        /\ \A c \in Conns : reader[c] = "sending" => message[c] \in Messages
        /\ DOMAIN unread = Conns /\ DOMAIN sent = Conns
        /\ DOMAIN reader = Conns /\ DOMAIN message = Conns
    BY DEF Types, TypeOK, Handover
  <2>2. ASSUME NEW c \in Conns, NEW m \in Messages, PeerSend(c, m) PROVE Once'
    <3>1. /\ \A d \in Conns : m \notin Range(sent[d])
          /\ sent'[c] = Append(sent[c], m) /\ unread'[c] = Append(unread[c], m)
          /\ \A d \in Conns \ {c} : sent'[d] = sent[d] /\ unread'[d] = unread[d]
          /\ UNCHANGED <<reader, message, order>>
      BY <2>1, <2>2 DEF PeerSend
    <3>2. Range(sent'[c]) = Range(sent[c]) \cup {m}
      BY <2>1, <3>1, InjectiveAppend
    <3>3. Range(unread'[c]) = Range(unread[c]) \cup {m}
      BY <2>1, <3>1, InjectiveAppend
    <3>4. IsInjective(unread'[c])
      BY <2>1, <3>1, InjectiveAppend DEF Once, Pending
    <3>5. m \notin Range(order)
      BY <3>1 DEF Once, Ordered
    <3>6. reader[c] = "sending" => message[c] # m
      BY <3>1 DEF Once, Pending
    <3>7. Pending(c)'
      BY <3>1, <3>2, <3>3, <3>4, <3>5, <3>6 DEF Once, Pending
    <3>8. \A d \in Conns \ {c} : Pending(d)'
      BY <3>1 DEF Once, Pending
    <3>9. SentByOne'
      BY <3>1, <3>2 DEF Once, SentByOne
    <3>10. Ordered'
      BY <3>1, <3>2 DEF Once, Ordered
    <3> QED
      BY <3>7, <3>8, <3>9, <3>10 DEF Once
  <2>3. ASSUME NEW c \in Conns, Reset(c) PROVE Once'
    <3>1. Range(<<>>) = {} /\ IsInjective(<<>>)
      BY DEF Range, IsInjective
    <3> QED
      BY <2>1, <2>3, <3>1 DEF Reset, Once, Pending, SentByOne, Ordered
  <2>4. ASSUME NEW c \in Conns, ReadMessage(c) PROVE Once'
    <3>1. /\ unread[c] # <<>> /\ message'[c] = Head(unread[c]) /\ unread'[c] = Tail(unread[c])
          /\ \A d \in Conns \ {c} : /\ unread'[d] = unread[d] /\ message'[d] = message[d]
                                    /\ reader'[d] = reader[d]
          /\ UNCHANGED <<sent, order>>
      BY <2>1, <2>4 DEF ReadMessage
    <3>2. IsInjective(unread[c])
      BY DEF Once, Pending
    <3>3. /\ message'[c] \in Range(unread[c]) /\ message'[c] \notin Range(unread'[c])
          /\ Range(unread'[c]) \subseteq Range(unread[c]) /\ IsInjective(unread'[c])
      BY <2>1, <3>1, <3>2, InjectiveTail
    <3>4. Pending(c)'
      BY <3>1, <3>3 DEF Once, Pending
    <3>5. \A d \in Conns \ {c} : Pending(d)'
      BY <3>1 DEF Once, Pending
    <3> QED
      BY <3>1, <3>4, <3>5 DEF Once, SentByOne, Ordered
  <2>5. ASSUME NEW c \in Conns, Broadcast(c) PROVE Once'
    <3>1. /\ reader[c] = "sending" /\ reader'[c] = "reading"
          /\ order' = Append(order, message[c])
          /\ \A d \in Conns \ {c} : message'[d] = message[d] /\ reader'[d] = reader[d]
          /\ UNCHANGED <<unread, sent>>
      BY <2>1, <2>5 DEF Broadcast
    <3>2. /\ message[c] \in Range(sent[c])
          /\ message[c] \notin Range(order) /\ message[c] \notin Range(unread[c])
          /\ IsInjective(order)
      BY <3>1 DEF Once, Pending, Ordered
    <3>3. Range(order') = Range(order) \cup {message[c]} /\ IsInjective(order')
      BY <2>1, <3>1, <3>2, InjectiveAppend
    <3>4. Pending(c)'
      BY <3>1, <3>2, <3>3 DEF Once, Pending
    <3>5. ASSUME NEW d \in Conns \ {c} PROVE Pending(d)'
      <4>1. message[c] \notin Range(sent[d])
        BY <3>2 DEF Once, SentByOne
      <4> QED
        BY <3>1, <3>3, <4>1 DEF Once, Pending
    <3>6. Ordered'
      BY <3>1, <3>2, <3>3 DEF Once, Ordered
    <3> QED
      BY <3>1, <3>4, <3>5, <3>6 DEF Once, SentByOne
  <2>6. ASSUME NEW c \in Conns,
               \/ Connect(c) \/ PeerStall(c) \/ PeerResume(c) \/ PeerClose(c) \/ ReadFails(c)
               \/ Register(c) \/ UnregisterReader(c) \/ UnregisterFailed(c) \/ Write(c)
        PROVE  Once'
    <3>1. /\ UNCHANGED <<sent, unread, message, order>>
          /\ \A d \in Conns : reader'[d] = "sending" => reader[d] = "sending"
      BY <2>1, <2>6 DEF Connect, PeerStall, PeerResume, PeerClose, Peer, ReadFails, Register,
         UnregisterReader, UnregisterFailed, Write
    <3> QED
      BY <3>1 DEF Once, Pending, SentByOne, Ordered
  <2>7. CASE EndBroadcast \/ UNCHANGED vars
    BY <2>7 DEF EndBroadcast, vars, Once, Pending, SentByOne, Ordered
  <2> QED
    BY <2>2, <2>3, <2>4, <2>5, <2>6, <2>7 DEF Next
<1> QED
  BY TypesInvariant, <1>1, <1>2, PTL DEF Spec

\* What a connection has received is a part of the order that starts where the
\* connection was registered.
Slices ==
  \A c \in Conns :
    /\ start[c] + Len(received[c]) <= Len(order)
    /\ \A i \in 1..Len(received[c]) : received[c][i] = order[start[c] + i]

LEMMA SlicesInvariant == Spec => []Slices
<1>1. Init => Slices
  BY DEF Init, Slices
<1>2. Types /\ RegisteredIsServed /\ Delivery /\ Slices /\ [Next]_vars => Slices'
  <2> SUFFICES ASSUME Types, RegisteredIsServed, Delivery, Slices, [Next]_vars PROVE Slices'
    OBVIOUS
  <2> USE DEF conns, readers, history
  <2>1. /\ order \in Seq(Messages) /\ Len(order) \in Nat
        /\ start \in [Conns -> Nat] /\ received \in [Conns -> Seq(Messages)]
        /\ \A c \in Conns : start[c] \in Nat /\ Len(received[c]) \in Nat
    BY DEF Types, TypeOK
  <2>2. ASSUME NEW c \in Conns, Register(c) PROVE Slices'
    <3>1. received[c] = <<>> /\ Len(received[c]) = 0
      BY <2>2 DEF Register, Delivery
    <3>2. /\ start'[c] = Len(order) /\ \A d \in Conns \ {c} : start'[d] = start[d]
          /\ UNCHANGED <<order, received>>
      BY <2>1, <2>2 DEF Register
    <3> QED
      <4>1. start'[c] + Len(received'[c]) <= Len(order')
        BY <2>1, <3>1, <3>2
      <4>2. 1..Len(received'[c]) = {}
        BY <3>1, <3>2
      <4>3. ASSUME NEW d \in Conns \ {c}
            PROVE  /\ start'[d] + Len(received'[d]) <= Len(order')
                   /\ \A i \in 1..Len(received'[d]) : received'[d][i] = order'[start'[d] + i]
        <5>1. start'[d] = start[d] /\ received'[d] = received[d] /\ order' = order
          BY <3>2
        <5> QED
          BY <5>1 DEF Slices
      <4> QED
        BY <4>1, <4>2, <4>3 DEF Slices
  <2>3. ASSUME NEW c \in Conns, Broadcast(c) PROVE Slices'
    <3>1. /\ message[c] \in Messages /\ order' = Append(order, message[c])
          /\ UNCHANGED <<start, received>>
      BY <2>3 DEF Broadcast, Types, Handover
    <3>2. Len(order') = Len(order) + 1 /\ \A i \in 1..Len(order) : order'[i] = order[i]
      BY <2>1, <3>1
    <3>3. ASSUME NEW d \in Conns, NEW i \in 1..Len(received[d])
          PROVE  start[d] + i \in 1..Len(order)
      BY <2>1, <3>3 DEF Slices
    <3> QED
      BY <2>1, <3>1, <3>2, <3>3 DEF Slices
  <2>4. ASSUME NEW c \in Conns, Write(c) PROVE Slices'
    <3>1. /\ hub.pc = "writing" /\ c \in hub.todo /\ UNCHANGED <<order, start>>
          /\ \A d \in Conns \ {c} : received'[d] = received[d]
      BY <2>1, <2>4 DEF Write
    <3>2. CASE socket[c] = "ok" /\ peer[c] = "open"
      <4>1. /\ start[c] + Len(received[c]) + 1 = Len(order)
            /\ hub.message = order[Len(order)] /\ hub.message \in Messages
        BY <3>1, <3>2 DEF Delivery, Behind, Alive, Types, Handover
      <4>2. received'[c] = Append(received[c], hub.message)
        BY <2>1, <2>4, <3>2 DEF Write
      <4>3. /\ Len(received'[c]) = Len(received[c]) + 1
            /\ received'[c][Len(received[c]) + 1] = hub.message
            /\ \A i \in 1..Len(received[c]) : received'[c][i] = received[c][i]
        BY <2>1, <4>1, <4>2
      <4>4. \A i \in 1..Len(received'[c]) : i = Len(received[c]) + 1 \/ i \in 1..Len(received[c])
        BY <2>1, <4>3
      <4>5. start[c] + (Len(received[c]) + 1) = Len(order)
        BY <2>1, <4>1
      <4>6. start[c] + Len(received'[c]) <= Len(order)
        BY <2>1, <4>3, <4>5
      <4>7. ASSUME NEW i \in 1..Len(received'[c]) PROVE received'[c][i] = order[start[c] + i]
        <5>1. CASE i = Len(received[c]) + 1
          BY <4>1, <4>3, <4>5, <5>1
        <5>2. CASE i \in 1..Len(received[c])
          <6>1. received[c][i] = order[start[c] + i]
            BY <5>2 DEF Slices
          <6> QED
            BY <4>3, <5>2, <6>1
        <5> QED
          BY <4>4, <4>7, <5>1, <5>2
      <4> QED
        BY <3>1, <4>6, <4>7 DEF Slices
    <3>3. CASE ~(socket[c] = "ok" /\ peer[c] = "open")
      BY <2>4, <3>3 DEF Write, Slices
    <3> QED
      BY <3>2, <3>3
  <2>5. ASSUME NEW c \in Conns,
               \/ Connect(c) \/ \E m \in Messages : PeerSend(c, m)
               \/ PeerStall(c) \/ PeerResume(c) \/ PeerClose(c) \/ Reset(c)
               \/ ReadMessage(c) \/ ReadFails(c) \/ UnregisterReader(c) \/ UnregisterFailed(c)
        PROVE  Slices'
    <3>1. UNCHANGED <<order, start, received>>
      BY <2>5 DEF Connect, PeerSend, PeerStall, PeerResume, PeerClose, Peer, Reset, ReadMessage,
         ReadFails, UnregisterReader, UnregisterFailed
    <3> QED
      BY <3>1 DEF Slices
  <2>6. CASE EndBroadcast \/ UNCHANGED vars
    BY <2>6 DEF EndBroadcast, vars, Slices
  <2> QED
    BY <2>2, <2>3, <2>4, <2>5, <2>6 DEF Next
<1> QED
  BY TypesInvariant, RegistrationInvariant, DeliveryInvariant, <1>1, <1>2, PTL DEF Spec

\* All connections receive messages in one order and none twice: what they
\* receive are parts of one order in which each message occurs once.
THEOREM OneOrder == Spec => []ReceivedInOneOrder
<1>1. Types /\ Once /\ Slices => ReceivedInOneOrder
  <2> SUFFICES ASSUME Types, Once, Slices, NEW c \in Conns, NEW d \in Conns,
                      NEW i \in DOMAIN received[c], NEW j \in DOMAIN received[c],
                      NEW k \in DOMAIN received[d], NEW l \in DOMAIN received[d],
                      received[c][i] = received[d][k], received[c][j] = received[d][l], i < j
               PROVE  k < l
    BY DEF ReceivedInOneOrder
  <2>1. /\ DOMAIN order = 1..Len(order) /\ Len(order) \in Nat
        /\ \A e \in Conns : /\ start[e] \in Nat /\ Len(received[e]) \in Nat
                            /\ DOMAIN received[e] = 1..Len(received[e])
    BY DEF Types, TypeOK
  <2>2. ASSUME NEW e \in Conns, NEW n \in DOMAIN received[e]
        PROVE  /\ n \in Nat /\ start[e] + n \in DOMAIN order
               /\ received[e][n] = order[start[e] + n]
    <3>1. n \in 1..Len(received[e]) /\ Len(received[e]) \in Nat /\ start[e] \in Nat
      BY <2>1, <2>2
    <3>2. start[e] + Len(received[e]) <= Len(order) /\ received[e][n] = order[start[e] + n]
      BY <3>1 DEF Slices
    <3>3. start[e] + n \in 1..Len(order)
      BY <2>1, <3>1, <3>2
    <3> QED
      BY <2>1, <3>1, <3>2, <3>3
  <2>3. /\ i \in Nat /\ j \in Nat /\ k \in Nat /\ l \in Nat
        /\ start[c] \in Nat /\ start[d] \in Nat
    BY <2>1, <2>2
  <2>4. start[c] + i = start[d] + k /\ start[c] + j = start[d] + l
    BY <2>2 DEF Once, Ordered, IsInjective
  <2> QED
    BY <2>3, <2>4
<1> QED
  BY TypesInvariant, OnceInvariant, SlicesInvariant, <1>1, PTL

-----------------------------------------------------------------------------
\* The flow of a question.

\* What a step of the flow does to the bridge, the bridge may do by itself: the
\* tool, the human and the agent are among its peers.
THEOREM FlowImplementsBridge == SpecFlow => Spec
<1>1. InitFlow => Init
  BY DEF InitFlow
<1>2. [NextFlow]_allVars => [Next]_vars
  <2> SUFFICES ASSUME NextFlow PROVE Next \/ UNCHANGED vars
    BY DEF allVars
  <2>1. ASSUME NEW c \in Runs,
               \/ Dial(c) \/ DialFails(c) \/ Refused(c) \/ Publish(c) \/ PublishFails(c)
               \/ Close(c) \/ Leave(c) \/ Answer(c) \/ Fetch(c) \/ CutOff(c)
        PROVE  Next \/ UNCHANGED vars
    BY <2>1, PromptAssumption
    DEF Dial, DialFails, Refused, Publish, PublishFails, Close, Leave, Answer, Fetch, CutOff, Next
  <2>2. ASSUME NEW u \in UserInterfaces, Interface(u) PROVE Next \/ UNCHANGED vars
    BY <2>2 DEF UserInterfaces, Interface, Next
  <2>3. ASSUME NEW c \in Conns, Bridging(c) PROVE Next \/ UNCHANGED vars
    BY <2>3 DEF Bridging, Next
  <2> QED
    BY <2>1, <2>2, <2>3 DEF NextFlow, ToolDies, Restart
<1> QED
  BY <1>1, <1>2, PTL DEF SpecFlow, Spec

\* Every variable of the flow has its type.
FlowTypes ==
  /\ toolUp \in BOOLEAN
  /\ run \in [Runs -> {"called", "dialled", "published", "failed", "ended"}]
  /\ reply \in [Runs -> {"none", "waiting_for_human", "error", "unavailable"}]
  /\ answers \subseteq Runs
  /\ got \subseteq Runs
  /\ lost \subseteq Runs

LEMMA RepliesTyped ==
  ASSUME FlowTypes, NEW calls, NEW v \in {"waiting_for_human", "error", "unavailable"},
         Reply(calls, v)
  PROVE  reply' \in [Runs -> {"none", "waiting_for_human", "error", "unavailable"}]
BY DEF FlowTypes, Reply

THEOREM FlowTypeCorrect == SpecFlow => []TypeOKFlow
<1>1. InitFlow => FlowTypes
  BY DEF InitFlow, FlowTypes
<1>2. FlowTypes /\ [NextFlow]_allVars => FlowTypes'
  <2> SUFFICES ASSUME FlowTypes, [NextFlow]_allVars PROVE FlowTypes'
    OBVIOUS
  <2>1. ASSUME NEW c \in Runs, NEW from, NEW to \in {"dialled", "published", "failed"},
               RunGoes(c, from, to), UNCHANGED reply
        PROVE  FlowTypes'
    BY <2>1 DEF RunGoes, FlowTypes
  <2>2. ASSUME NEW c \in Runs, NEW from,
               NEW v \in {"waiting_for_human", "error", "unavailable"}, RunEnds(c, from, v)
        PROVE  FlowTypes'
    <3>1. reply' \in [Runs -> {"none", "waiting_for_human", "error", "unavailable"}]
      BY <2>2, RepliesTyped DEF RunEnds
    <3> QED
      BY <2>2, <3>1 DEF RunEnds, RunGoes, FlowTypes
  <2>3. ASSUME NEW c \in Runs, Answer(c) \/ Fetch(c) PROVE FlowTypes'
    BY <2>3 DEF Answer, Fetch, FlowTypes
  <2>4. ASSUME NEW c \in Runs, CutOff(c) PROVE FlowTypes'
    <3>1. reply' \in [Runs -> {"none", "waiting_for_human", "error", "unavailable"}]
      BY <2>4, RepliesTyped DEF CutOff
    <3> QED
      BY <2>4, <3>1 DEF CutOff, FlowTypes
  <2>5. CASE ToolDies \/ Restart
    <3>1. reply' \in [Runs -> {"none", "waiting_for_human", "error", "unavailable"}]
      BY <2>5, RepliesTyped DEF ToolDies, Restart
    <3> QED
      BY <2>5, <3>1 DEF ToolDies, Restart, FlowTypes
  <2>6. CASE UNCHANGED flowVars
    BY <2>6 DEF flowVars, FlowTypes
  <2> QED
    BY <2>1, <2>2, <2>3, <2>4, <2>5, <2>6
    DEF NextFlow, Dial, DialFails, Refused, Publish, PublishFails, Close, Leave, Interface,
        Bridging, allVars
<1>3. TypeOKFlow <=> TypeOK /\ FlowTypes
  BY DEF TypeOKFlow, FlowTypes
<1> QED
  BY <1>1, <1>2, <1>3, FlowImplementsBridge, TypeCorrect, PTL DEF SpecFlow

\* Before a Run has published its prompt, and after it has failed to, the prompt
\* is nowhere in the bridge.
Unpublished(c) == run[c] \in {"called", "dialled", "failed"} \/ reply[c] = "error"

Nowhere(m) ==
  /\ \A d \in Conns : m \notin Range(unread[d]) /\ message[d] # m
  /\ m \notin Range(order)

\* A step of the bridge brings a message nowhere it does not come from.
LEMMA BridgingKeepsNowhere ==
  ASSUME Types, NEW m \in Messages, Nowhere(m), NEW c \in Conns,
         \/ Connect(c) \/ PeerStall(c) \/ PeerResume(c) \/ PeerClose(c)
         \/ Reset(c) \/ ReadMessage(c) \/ ReadFails(c)
         \/ Register(c) \/ UnregisterReader(c) \/ UnregisterFailed(c)
         \/ Broadcast(c) \/ Write(c) \/ EndBroadcast
  PROVE  Nowhere(m)'
<1>1. CASE ReadMessage(c)
  <2>1. unread[c] \in Seq(Messages) /\ unread[c] # <<>>
    BY <1>1 DEF ReadMessage, Types, TypeOK
  <2>2. Head(unread[c]) \in Range(unread[c]) /\ Range(Tail(unread[c])) \subseteq Range(unread[c])
    BY <2>1 DEF Range
  <2> QED
    BY <1>1, <2>2 DEF ReadMessage, Nowhere, Types, TypeOK, history
<1>2. CASE Broadcast(c)
  <2>1. message[c] \in Messages /\ order \in Seq(Messages) /\ message[c] # m
    BY <1>2 DEF Broadcast, Types, TypeOK, Handover, Nowhere
  <2>2. m \notin Range(order')
    BY <1>2, <2>1, InjectiveAppend DEF Broadcast, Nowhere
  <2>3. NoMessage # m
    BY NoMessageAssumption
  <2> QED
    BY <1>2, <2>2, <2>3 DEF Broadcast, Nowhere, Types, TypeOK, conns
<1>3. CASE Reset(c)
  <2>1. Range(<<>>) = {}
    BY DEF Range
  <2> QED
    BY <1>3, <2>1 DEF Reset, Nowhere, Types, TypeOK, readers, history
<1>4. CASE ~(ReadMessage(c) \/ Broadcast(c) \/ Reset(c))
  BY <1>4 DEF Connect, PeerStall, PeerResume, PeerClose, Peer, ReadFails, Register,
     UnregisterReader, UnregisterFailed, Write, EndBroadcast, Nowhere, conns, readers, history
<1> QED
  BY <1>1, <1>2, <1>3, <1>4

LEMMA SendingKeepsNowhere ==
  ASSUME Types, NEW m \in Messages, Nowhere(m), NEW c \in Conns, NEW x \in Messages, x # m,
         PeerSend(c, x)
  PROVE  Nowhere(m)'
<1>1. m \notin Range(Append(unread[c], x))
  BY InjectiveAppend DEF Types, TypeOK, Nowhere
<1> QED
  BY <1>1 DEF PeerSend, Nowhere, Types, TypeOK, readers, history

UnpublishedNowhere == \A c \in Runs : Unpublished(c) => Nowhere(Prompt[c])

\* A Run has reported an error only if it has ended.
ErrorsEnd == \A c \in Runs : reply[c] = "error" => run[c] = "ended"

LEMMA ErrorsEndInvariant == SpecFlow => []ErrorsEnd
<1>1. InitFlow => ErrorsEnd
  BY DEF InitFlow, ErrorsEnd
<1>2. FlowTypes /\ ErrorsEnd /\ [NextFlow]_allVars => ErrorsEnd'
  <2> SUFFICES ASSUME FlowTypes, ErrorsEnd, [NextFlow]_allVars PROVE ErrorsEnd'
    OBVIOUS
  <2>1. ASSUME NEW c \in Runs, NEW from \in {"called", "dialled"}, NEW to,
               RunGoes(c, from, to), UNCHANGED reply
        PROVE  ErrorsEnd'
    BY <2>1 DEF RunGoes, ErrorsEnd, FlowTypes
  <2>2. ASSUME NEW c \in Runs, NEW from, NEW v, RunEnds(c, from, v) PROVE ErrorsEnd'
    BY <2>2 DEF RunEnds, RunGoes, Reply, ErrorsEnd, FlowTypes
  <2>3. ASSUME NEW c \in Runs, CutOff(c) PROVE ErrorsEnd'
    BY <2>3 DEF CutOff, Reply, ErrorsEnd
  <2>4. CASE ToolDies \/ Restart
    BY <2>4 DEF ToolDies, Restart, Reply, UnderWay, ErrorsEnd, FlowTypes
  <2>5. CASE UNCHANGED <<run, reply>>
    BY <2>5 DEF ErrorsEnd
  <2> QED
    BY <2>1, <2>2, <2>3, <2>4, <2>5
    DEF NextFlow, Dial, DialFails, Refused, Publish, PublishFails, Close, Leave, Answer, Fetch,
        Interface, Bridging, allVars, flowVars
<1>3. TypeOKFlow => FlowTypes
  BY DEF TypeOKFlow, FlowTypes
<1> QED
  BY <1>1, <1>2, <1>3, FlowTypeCorrect, PTL DEF SpecFlow

\* Nothing makes a published prompt an unpublished one.
LEMMA UnpublishedBefore ==
  ASSUME FlowTypes, ErrorsEnd, [NextFlow]_allVars, NEW c \in Runs, Unpublished(c)'
  PROVE  Unpublished(c) /\ ~Publish(c)
<1>1. ASSUME NEW d \in Runs, NEW from \in {"called", "dialled"},
             NEW to \in {"dialled", "published", "failed"},
             RunGoes(d, from, to), UNCHANGED reply
      PROVE  Unpublished(c) /\ ~Publish(c)
  BY <1>1 DEF RunGoes, Publish, Unpublished, ErrorsEnd, FlowTypes
<1>2. ASSUME NEW d \in Runs, NEW from \in {"called", "failed"},
             NEW v \in {"error", "unavailable"}, RunEnds(d, from, v)
      PROVE  Unpublished(c) /\ ~Publish(c)
  BY <1>2 DEF RunEnds, RunGoes, Reply, Publish, Unpublished, FlowTypes
<1>3. ASSUME NEW d \in Runs, RunEnds(d, "published", "waiting_for_human")
      PROVE  Unpublished(c) /\ ~Publish(c)
  BY <1>3 DEF RunEnds, RunGoes, Reply, Publish, Unpublished, FlowTypes
<1>4. ASSUME NEW d \in Runs, CutOff(d) PROVE Unpublished(c) /\ ~Publish(c)
  BY <1>4 DEF CutOff, Reply, Publish, RunGoes, Unpublished, FlowTypes
<1>5. CASE ToolDies \/ Restart
  BY <1>5 DEF ToolDies, Restart, Reply, Publish, RunGoes, Unpublished, FlowTypes
<1>6. CASE UNCHANGED <<run, reply>>
  BY <1>6 DEF Publish, RunGoes, Unpublished, FlowTypes
<1> QED
  BY <1>1, <1>2, <1>3, <1>4, <1>5, <1>6
  DEF NextFlow, Dial, DialFails, Refused, Publish, PublishFails, Close, Leave, Answer, Fetch,
      Interface, Bridging, allVars, flowVars

LEMMA UnpublishedInvariant == SpecFlow => []UnpublishedNowhere
<1>1. InitFlow => UnpublishedNowhere
  <2>1. Range(<<>>) = {}
    BY DEF Range
  <2> QED
    BY <2>1, PromptAssumption, NoMessageAssumption DEF InitFlow, Init, UnpublishedNowhere, Nowhere
<1>2. Types /\ FlowTypes /\ ErrorsEnd /\ UnpublishedNowhere /\ [NextFlow]_allVars
        => UnpublishedNowhere'
  <2> SUFFICES ASSUME Types, FlowTypes, ErrorsEnd, UnpublishedNowhere, [NextFlow]_allVars,
                      NEW c \in Runs, Unpublished(c)'
               PROVE  Nowhere(Prompt[c])'
    BY DEF UnpublishedNowhere
  <2>1. Prompt[c] \in Messages /\ Runs \subseteq Conns
    BY PromptAssumption
  <2>2. Unpublished(c) /\ ~Publish(c)
    BY UnpublishedBefore
  <2> DEFINE m == Prompt[c]
  <2>3. Nowhere(m) /\ m \in Messages
    BY <2>1, <2>2 DEF UnpublishedNowhere
  <2>4. ASSUME NEW d \in Runs, Publish(d) PROVE Nowhere(m)'
    <3>1. d # c
      BY <2>2, <2>4
    <3>2. Prompt[d] \in Messages /\ Prompt[d] # m /\ PeerSend(d, Prompt[d])
      BY <2>4, <3>1, PromptAssumption DEF Publish
    <3> HIDE DEF m
    <3> QED
      BY <2>1, <2>3, <3>2, SendingKeepsNowhere
  <2>5. ASSUME NEW u \in UserInterfaces, Interface(u) PROVE Nowhere(m)'
    <3>1. u \in Conns
      BY DEF UserInterfaces
    <3>2. ASSUME NEW x \in Messages \ {Prompt[d] : d \in Runs}, PeerSend(u, x)
          PROVE  Nowhere(m)'
      <4>1. x # m
        BY <3>2
      <4> HIDE DEF m
      <4> QED
        BY <2>3, <3>1, <3>2, <4>1, SendingKeepsNowhere
    <3> HIDE DEF m
    <3> QED
      BY <2>3, <2>5, <3>1, <3>2, BridgingKeepsNowhere DEF Interface
  <2>6. ASSUME NEW d \in Conns, Bridging(d) PROVE Nowhere(m)'
    <3> HIDE DEF m
    <3> QED
      BY <2>3, <2>6, BridgingKeepsNowhere DEF Bridging
  <2>7. CASE UNCHANGED vars
    BY <2>3, <2>7 DEF Nowhere, vars, conns, readers, history
  <2>8. ASSUME NEW d \in Runs, Dial(d) \/ Close(d) \/ Leave(d) PROVE Nowhere(m)'
    <3>1. d \in Conns /\ (Connect(d) \/ PeerClose(d) \/ UNCHANGED vars)
      BY <2>1, <2>8 DEF Dial, Close, Leave
    <3>2. ASSUME Connect(d) \/ PeerClose(d) PROVE Nowhere(m)'
      <4> HIDE DEF m
      <4> QED
        BY <2>3, <3>1, <3>2, BridgingKeepsNowhere
    <3> QED
      BY <2>7, <3>1, <3>2
  <2>9. ASSUME NEW d \in Runs,
               \/ DialFails(d) \/ Refused(d) \/ PublishFails(d)
               \/ Answer(d) \/ Fetch(d) \/ CutOff(d)
        PROVE  UNCHANGED vars
    BY <2>9 DEF DialFails, Refused, PublishFails, Answer, Fetch, CutOff
  <2> QED
    BY <2>4, <2>5, <2>6, <2>7, <2>8, <2>9 DEF NextFlow, ToolDies, Restart, allVars
<1>3. TypeOKFlow => FlowTypes
  BY DEF TypeOKFlow, FlowTypes
<1> QED
  BY <1>1, <1>2, <1>3, FlowImplementsBridge, TypesInvariant, FlowTypeCorrect, ErrorsEndInvariant,
     PTL DEF SpecFlow

\* A Run that reports an error of its own has asked nobody.
THEOREM FailedRunsHaveAskedNobody == SpecFlow => []FailedRunsAskNobody
<1>1. UnpublishedNowhere => FailedRunsAskNobody
  BY DEF UnpublishedNowhere, FailedRunsAskNobody, Unpublished, Nowhere
<1> QED
  BY UnpublishedInvariant, <1>1, PTL

-----------------------------------------------------------------------------
\* One question.

Asked == {c \in Runs : Prompt[c] \in Range(order)}

\* Only a broadcast puts a question to the humans, and only its own.
LEMMA BroadcastAsks ==
  ASSUME Types, NEW d \in Conns, Broadcast(d)
  PROVE  /\ Asked' = Asked \cup {c \in Runs : Prompt[c] = message[d]}
         /\ message[d] \in Messages
<1>1. /\ order \in Seq(Messages) /\ message[d] \in Messages
      /\ order' = Append(order, message[d])
  BY DEF Broadcast, Types, TypeOK, Handover
<1>2. Range(order') = Range(order) \cup {message[d]}
  BY <1>1, InjectiveAppend
<1> QED
  BY <1>1, <1>2 DEF Asked

LEMMA OthersKeepOrder ==
  ASSUME [NextFlow]_allVars
  PROVE  order' = order \/ \E d \in Conns : Broadcast(d) /\ UNCHANGED flowVars
<1>1. ASSUME NEW c,
             \/ Connect(c) \/ PeerStall(c) \/ PeerResume(c) \/ PeerClose(c)
             \/ Reset(c) \/ ReadMessage(c) \/ ReadFails(c)
             \/ Register(c) \/ UnregisterReader(c) \/ UnregisterFailed(c)
             \/ Write(c) \/ EndBroadcast \/ (\E m : PeerSend(c, m)) \/ UNCHANGED vars
      PROVE  order' = order
  BY <1>1 DEF vars, history, Connect, PeerSend, PeerStall, PeerResume, PeerClose, Peer,
     Reset, ReadMessage, ReadFails, Register, UnregisterReader, UnregisterFailed, Write,
     EndBroadcast
<1>2. ASSUME NEW c \in Runs,
             \/ Dial(c) \/ DialFails(c) \/ Refused(c) \/ Publish(c) \/ PublishFails(c)
             \/ Close(c) \/ Leave(c) \/ Answer(c) \/ Fetch(c) \/ CutOff(c)
      PROVE  order' = order
  BY <1>1, <1>2
  DEF Dial, DialFails, Refused, Publish, PublishFails, Close, Leave, Answer, Fetch, CutOff
<1>3. ASSUME NEW u \in UserInterfaces, Interface(u) PROVE order' = order
  BY <1>1, <1>3 DEF Interface
<1>4. ASSUME NEW c \in Conns, Bridging(c)
      PROVE  order' = order \/ (Broadcast(c) /\ UNCHANGED flowVars)
  BY <1>1, <1>4 DEF Bridging
<1>5. CASE ToolDies \/ Restart \/ UNCHANGED allVars
  BY <1>1, <1>5 DEF ToolDies, Restart, allVars
<1> QED
  BY <1>2, <1>3, <1>4, <1>5 DEF NextFlow

\* The Run, the bridge, the humans and the main server together implement
\* HumanQuestion: a prompt is asked only by a broadcast of a message that a Run
\* has published, and such a Run reports no error of its own.
THEOREM FlowImplementsQuestion == SpecFlow => FlowIsAQuestion
<1> DEFINE Kept == UNCHANGED <<reply, Asked, answers, got>>
<1>1. InitFlow => Question!Init
  <2>1. Range(<<>>) = {}
    BY DEF Range
  <2> QED
    BY <2>1 DEF InitFlow, Init, Question!Init
<1>2. FlowTypes /\ Types /\ UnpublishedNowhere /\ [NextFlow]_allVars
        => [Question!Next]_(Question!vars)
  <2> SUFFICES ASSUME FlowTypes, Types, UnpublishedNowhere, [NextFlow]_allVars
               PROVE  Question!Next \/ Kept
    BY DEF Question!vars, Asked
  <2>1. ASSUME NEW d \in Conns, Broadcast(d), UNCHANGED flowVars PROVE Question!Next \/ Kept
    <3>1. /\ Asked' = Asked \cup {c \in Runs : Prompt[c] = message[d]}
          /\ message[d] \in Messages
      BY <2>1, BroadcastAsks
    <3>2. CASE \E c \in Runs : Prompt[c] = message[d]
      <4>1. PICK c \in Runs : Prompt[c] = message[d]
        BY <3>2
      <4>2. Asked' = Asked \cup {c}
        BY <3>1, <4>1, PromptAssumption
      <4>3. reply[c] # "error"
        BY <4>1, PromptAssumption DEF UnpublishedNowhere, Unpublished, Nowhere
      <4>4. Question!Ask(c)
        BY <2>1, <4>2, <4>3 DEF Question!Ask, Asked, flowVars
      <4> QED
        BY <4>4 DEF Question!Next
    <3>3. CASE ~\E c \in Runs : Prompt[c] = message[d]
      BY <2>1, <3>1, <3>3 DEF flowVars
    <3> QED
      BY <3>2, <3>3
  <2>2. CASE order' = order
    <3>1. UNCHANGED Asked
      BY <2>2 DEF Asked
    <3>2. ASSUME NEW c \in Runs, RunEnds(c, "published", "waiting_for_human")
          PROVE  Question!Next \/ Kept
      <4>1. CASE reply[c] = "none"
        <5>1. reply' = [reply EXCEPT ![c] = "waiting_for_human"]
          BY <3>2, <4>1 DEF RunEnds, Reply, FlowTypes
        <5>2. Question!Wait(c)
          BY <3>1, <3>2, <4>1, <5>1 DEF RunEnds, RunGoes, Question!Wait, Asked
        <5> QED
          BY <5>2 DEF Question!Next
      <4>2. CASE reply[c] # "none"
        <5>1. reply' = reply
          BY <3>2, <4>2 DEF RunEnds, Reply, FlowTypes
        <5> QED
          BY <3>1, <3>2, <5>1 DEF RunEnds, RunGoes
      <4> QED
        BY <4>1, <4>2
    <3>3. ASSUME NEW c \in Runs, NEW from \in {"called", "failed"}, RunEnds(c, from, "error")
          PROVE  Question!Next \/ Kept
      <4>1. CASE reply[c] = "none"
        <5>1. reply' = [reply EXCEPT ![c] = "error"]
          BY <3>3, <4>1 DEF RunEnds, Reply, FlowTypes
        <5>2. c \notin Asked
          BY <3>3 DEF RunEnds, RunGoes, UnpublishedNowhere, Unpublished, Nowhere, Asked
        <5>3. Question!Fail(c)
          BY <3>1, <3>3, <4>1, <5>1, <5>2 DEF RunEnds, RunGoes, Question!Fail, Asked
        <5> QED
          BY <5>3 DEF Question!Next
      <4>2. CASE reply[c] # "none"
        <5>1. reply' = reply
          BY <3>3, <4>2 DEF RunEnds, Reply, FlowTypes
        <5> QED
          BY <3>1, <3>3, <5>1 DEF RunEnds, RunGoes
      <4> QED
        BY <4>1, <4>2
    <3>4. ASSUME NEW S \in SUBSET Runs, Reply(S, "unavailable"),
                 answers' \in {answers, {}}, UNCHANGED got
          PROVE  Question!Next
      <4>1. Question!CutOff(S)
        BY <3>4 DEF Reply, Question!CutOff
      <4>2. Question!Lose
        BY <3>1, <3>4, <4>1 DEF Question!Lose, Asked
      <4> QED
        BY <4>2 DEF Question!Next
    <3>5. ASSUME NEW c \in Runs, Refused(c) \/ CutOff(c) PROVE Question!Next
      BY <3>4, <3>5 DEF Refused, CutOff, RunEnds, RunGoes
    <3>6. CASE ToolDies \/ Restart
      <4>1. UnderWay \in SUBSET Runs
        BY DEF UnderWay
      <4> QED
        BY <3>4, <3>6, <4>1 DEF ToolDies, Restart
    <3>7. ASSUME NEW c \in Runs, Answer(c) PROVE Question!Next
      BY <3>1, <3>7 DEF Answer, Asked, Question!Answer, Question!Next
    <3>8. ASSUME NEW c \in Runs, Fetch(c) PROVE Question!Next
      BY <3>1, <3>8 DEF Fetch, Asked, Question!Fetch, Question!Next
    <3>9. CASE UNCHANGED <<reply, answers, got>>
      BY <3>1, <3>9
    <3> QED
      BY <3>2, <3>3, <3>5, <3>6, <3>7, <3>8, <3>9
      DEF NextFlow, Dial, DialFails, Publish, PublishFails, Close, Leave, RunGoes, Interface,
          Bridging, allVars, flowVars
  <2> QED
    BY <2>1, <2>2, OthersKeepOrder
<1>3. TypeOKFlow => FlowTypes
  BY DEF TypeOKFlow, FlowTypes
<1> QED
  BY <1>1, <1>2, <1>3, FlowImplementsBridge, FlowTypeCorrect, TypesInvariant,
     UnpublishedInvariant, PTL
  DEF SpecFlow, Question!Spec, FlowIsAQuestion
=============================================================================
