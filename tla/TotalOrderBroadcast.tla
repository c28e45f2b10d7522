------------------------- MODULE TotalOrderBroadcast -------------------------
(***************************************************************************)
(* What the human bridge promises to its connections: the messages of all  *)
(* senders are put in one order that respects the order of each sender,    *)
(* and a member receives, without gap or repetition, the part of it that   *)
(* starts when it joins.  It may stop receiving, and the messages of a     *)
(* sender that are not in the order yet may be lost.                       *)
(***************************************************************************)
EXTENDS Sequences, Naturals

CONSTANTS Conns, Messages

VARIABLES
  queue,     \* queue[c]: what c sent and has not been ordered
  order,     \* the messages in the order all members receive them
  joined,    \* the connections that have joined
  start,     \* start[c]: the length of the order when c joined
  received   \* received[c]: what c has received

vars == <<queue, order, joined, start, received>>

Init ==
  /\ queue = [c \in Conns |-> <<>>]
  /\ order = <<>>
  /\ joined = {}
  /\ start = [c \in Conns |-> 0]
  /\ received = [c \in Conns |-> <<>>]

Submit(c, m) ==
  /\ queue' = [queue EXCEPT ![c] = Append(@, m)]
  /\ UNCHANGED <<order, joined, start, received>>

Order(c) ==
  /\ queue[c] # <<>>
  /\ order' = Append(order, Head(queue[c]))
  /\ queue' = [queue EXCEPT ![c] = Tail(@)]
  /\ UNCHANGED <<joined, start, received>>

Lose(c) ==
  /\ \E n \in 0..Len(queue[c]) : queue' = [queue EXCEPT ![c] = SubSeq(@, 1, n)]
  /\ UNCHANGED <<order, joined, start, received>>

Join(c) ==
  /\ c \notin joined
  /\ joined' = joined \cup {c}
  /\ start' = [start EXCEPT ![c] = Len(order)]
  /\ UNCHANGED <<queue, order, received>>

Receive(c) ==
  /\ c \in joined
  /\ start[c] + Len(received[c]) < Len(order)
  /\ received' = [received EXCEPT ![c] = Append(@, order[start[c] + Len(@) + 1])]
  /\ UNCHANGED <<queue, order, joined, start>>

Next == \E c \in Conns :
  \/ \E m \in Messages : Submit(c, m)
  \/ Order(c) \/ Lose(c) \/ Join(c) \/ Receive(c)

Spec == Init /\ [][Next]_vars
=============================================================================
