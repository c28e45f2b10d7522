----------------------------- MODULE HumanBridge -----------------------------
(***************************************************************************)
(* The human bridge (MCP-NG/human_bridge/main.go): a WebSocket server that *)
(* sends every message it reads on a connection to all its connections.    *)
(* The prompts of the human_input tool and the answers typed into a user   *)
(* interface pass through it.                                              *)
(*                                                                         *)
(* One goroutine, Hub.run, owns the set of clients and does all the writes *)
(* (Hub.mu is taken by nobody else).  Each connection has a reader, and    *)
(* each failed write starts one more goroutine to ask for the removal of   *)
(* its connection.  They all meet Hub.run at unbuffered channels.          *)
(***************************************************************************)
EXTENDS Sequences, Naturals, Functions

CONSTANTS
  Conns,     \* connections; each is opened at most once
  Messages,  \* messages; each is sent at most once
  NoMessage,
  LossyReset \* a reset connection may lose what has not been read

ASSUME NoMessageAssumption  == NoMessage \notin Messages
ASSUME LossyResetAssumption == LossyReset \in BOOLEAN

VARIABLES
  peer,      \* peer[c]: the other end, which may read, not read, or be closed
  sent,      \* sent[c]: history, the messages the peer of c has sent
  unread,    \* unread[c]: those the bridge has not read
  socket,    \* socket[c]: the bridge's end; "broken" fails every write
  reader,    \* reader[c]: where serveWs, then the reader goroutine, of c is
  message,   \* message[c]: what the reader of c is handing over
  asking,    \* asking[c]: the goroutines that failed writes to c started
  clients,   \* Hub.clients
  hub,       \* Hub.run: [pc, message, todo]
  order,     \* history: the messages broadcast
  start,     \* start[c]: history, Len(order) when c was registered
  received   \* received[c]: history, what the peer of c has received

conns == <<peer, sent, unread, socket>>
readers == <<reader, message>>
history == <<order, start, received>>
vars == <<conns, readers, asking, clients, hub, history>>

TypeOK ==
  /\ peer \in [Conns -> {"none", "open", "stalled", "closed"}]
  /\ sent \in [Conns -> Seq(Messages)]
  /\ unread \in [Conns -> Seq(Messages)]
  /\ socket \in [Conns -> {"ok", "broken", "closed"}]
  /\ reader \in [Conns -> {"none", "registering", "reading", "sending", "leaving", "done"}]
  /\ message \in [Conns -> Messages \cup {NoMessage}]
  /\ asking \in [Conns -> Nat]
  /\ clients \in SUBSET Conns
  /\ hub \in [pc : {"select", "writing"}, message : Messages \cup {NoMessage}, todo : SUBSET Conns]
  /\ order \in Seq(Messages)
  /\ start \in [Conns -> Nat]
  /\ received \in [Conns -> Seq(Messages)]

Init ==
  /\ peer = [c \in Conns |-> "none"]
  /\ sent = [c \in Conns |-> <<>>]
  /\ unread = [c \in Conns |-> <<>>]
  /\ socket = [c \in Conns |-> "ok"]
  /\ reader = [c \in Conns |-> "none"]
  /\ message = [c \in Conns |-> NoMessage]
  /\ asking = [c \in Conns |-> 0]
  /\ clients = {}
  /\ hub = [pc |-> "select", message |-> NoMessage, todo |-> {}]
  /\ order = <<>>
  /\ start = [c \in Conns |-> 0]
  /\ received = [c \in Conns |-> <<>>]

-----------------------------------------------------------------------------
\* The other end of a connection.

Alive(c) == peer[c] \in {"open", "stalled"}

\* serveWs upgrades the request and blocks on the channel register.
Connect(c) ==
  /\ peer[c] = "none"
  /\ peer' = [peer EXCEPT ![c] = "open"]
  /\ reader' = [reader EXCEPT ![c] = "registering"]
  /\ UNCHANGED <<sent, unread, socket, message, asking, clients, hub, history>>

PeerSend(c, m) ==
  /\ Alive(c)
  /\ \A d \in Conns : m \notin Range(sent[d])
  /\ sent' = [sent EXCEPT ![c] = Append(@, m)]
  /\ unread' = [unread EXCEPT ![c] = Append(@, m)]
  /\ UNCHANGED <<peer, socket, readers, asking, clients, hub, history>>

Peer(c, from, to) ==
  /\ peer[c] \in from
  /\ peer' = [peer EXCEPT ![c] = to]
  /\ UNCHANGED <<sent, unread, socket, readers, asking, clients, hub, history>>

\* The peer stops reading until its buffers are full, and reads again.
PeerStall(c)  == Peer(c, {"open"}, "stalled")
PeerResume(c) == Peer(c, {"stalled"}, "open")

\* It closes the connection, as human_input does right after its message.
PeerClose(c)  == Peer(c, {"open", "stalled"}, "closed")

\* The closing end resets the connection: it closed with data it had not
\* read, or got data afterwards.  What the bridge has not read may be lost:
\* data still on its way, or all of it on some systems.
Reset(c) ==
  /\ peer[c] = "closed" /\ socket[c] = "ok"
  /\ socket' = [socket EXCEPT ![c] = "broken"]
  /\ \/ UNCHANGED unread
     \/ LossyReset /\ unread' = [unread EXCEPT ![c] = <<>>]
  /\ UNCHANGED <<peer, sent, readers, asking, clients, hub, history>>

-----------------------------------------------------------------------------
\* The reader goroutine of a connection.

\* Mutant: what was read stays in the buffer.
ReadMessage_again(c) ==
  /\ reader[c] = "reading" /\ unread[c] # <<>>
  /\ reader' = [reader EXCEPT ![c] = "sending"]
  /\ message' = [message EXCEPT ![c] = Head(unread[c])]
  /\ UNCHANGED <<conns, asking, clients, hub, history>>

ReadMessage(c) ==
  /\ reader[c] = "reading" /\ unread[c] # <<>>
  /\ reader' = [reader EXCEPT ![c] = "sending"]
  /\ message' = [message EXCEPT ![c] = Head(unread[c])]
  /\ unread' = [unread EXCEPT ![c] = Tail(@)]
  /\ UNCHANGED <<peer, sent, socket, asking, clients, hub, history>>

\* Mutant: the goroutine ends without asking for the removal.
ReadFails_silently(c) ==
  /\ reader[c] = "reading"
  /\ \/ peer[c] = "closed" /\ unread[c] = <<>>
     \/ socket[c] = "closed"
  /\ reader' = [reader EXCEPT ![c] = "done"]
  /\ UNCHANGED <<conns, message, asking, clients, hub, history>>

\* Mutant: the break is missing, and what a failed read returns is broadcast.
ReadFails_goesOn(c) ==
  /\ reader[c] = "reading"
  /\ \/ peer[c] = "closed" /\ unread[c] = <<>>
     \/ socket[c] = "closed"
  /\ reader' = [reader EXCEPT ![c] = "sending"]
  /\ UNCHANGED <<conns, message, asking, clients, hub, history>>

\* ReadMessage fails at the end of what a closed peer sent, or because the
\* hub has closed the connection (messages it holds in its buffer may still be
\* read).  Having answered a close frame the connection accepts no more writes.
ReadFails(c) ==
  /\ reader[c] = "reading"
  /\ \/ peer[c] = "closed" /\ unread[c] = <<>>
     \/ socket[c] = "closed"
  /\ reader' = [reader EXCEPT ![c] = "leaving"]
  /\ \/ UNCHANGED socket
     \/ socket[c] = "ok" /\ socket' = [socket EXCEPT ![c] = "broken"]
  /\ UNCHANGED <<peer, sent, unread, message, asking, clients, hub, history>>

-----------------------------------------------------------------------------
\* Hub.run: the select statement, and the loop over the clients.

Selecting == hub.pc = "select"

\* After the send to register serveWs starts the reader.
Register(c) ==
  /\ Selecting /\ reader[c] = "registering"
  /\ clients' = clients \cup {c}
  /\ reader' = [reader EXCEPT ![c] = "reading"]
  /\ start' = [start EXCEPT ![c] = Len(order)]
  /\ UNCHANGED <<conns, message, asking, hub, order, received>>

\* Mutant: the connection is closed but stays in the map.
Remove_closesOnly(c) ==
  IF c \in clients
  THEN socket' = [socket EXCEPT ![c] = "closed"] /\ UNCHANGED clients
  ELSE UNCHANGED <<clients, socket>>

\* A connection is asked to be removed more than once; only the first counts.
Remove(c) ==
  IF c \in clients
  THEN /\ clients' = clients \ {c}
       /\ socket' = [socket EXCEPT ![c] = "closed"]
  ELSE UNCHANGED <<clients, socket>>

UnregisterReader(c) ==
  /\ Selecting /\ reader[c] = "leaving"
  /\ Remove(c)
  /\ reader' = [reader EXCEPT ![c] = "done"]
  /\ UNCHANGED <<peer, sent, unread, message, asking, hub, history>>

UnregisterFailed(c) ==
  /\ Selecting /\ asking[c] > 0
  /\ Remove(c)
  /\ asking' = [asking EXCEPT ![c] = @ - 1]
  /\ UNCHANGED <<peer, sent, unread, readers, hub, history>>

\* Mutant: the sender is left out of the clients to write to, and so misses
\* a message in the order the others see.
Broadcast_toOthers(c) ==
  /\ Selecting /\ reader[c] = "sending"
  /\ hub' = [pc |-> "writing", message |-> message[c], todo |-> clients \ {c}]
  /\ order' = Append(order, message[c])
  /\ reader' = [reader EXCEPT ![c] = "reading"]
  /\ message' = [message EXCEPT ![c] = NoMessage]
  /\ UNCHANGED <<conns, asking, clients, start, received>>

Broadcast(c) ==
  /\ Selecting /\ reader[c] = "sending"
  /\ hub' = [pc |-> "writing", message |-> message[c], todo |-> clients]
  /\ order' = Append(order, message[c])
  /\ reader' = [reader EXCEPT ![c] = "reading"]
  /\ message' = [message EXCEPT ![c] = NoMessage]
  /\ UNCHANGED <<conns, asking, clients, start, received>>

\* Mutant: a failed write ends the loop over the clients.
Write_breaks(c) ==
  /\ hub.pc = "writing" /\ c \in hub.todo
  /\ peer[c] # "stalled" \/ socket[c] # "ok"
  /\ hub' = [hub EXCEPT !.todo = IF socket[c] = "ok" THEN @ \ {c} ELSE {}]
  /\ received' = IF socket[c] = "ok" /\ peer[c] = "open"
                 THEN [received EXCEPT ![c] = Append(@, hub.message)] ELSE received
  /\ asking' = IF socket[c] # "ok" THEN [asking EXCEPT ![c] = @ + 1] ELSE asking
  /\ UNCHANGED <<conns, readers, clients, order, start>>

\* WriteMessage blocks while the peer is stalled.  A write that the closed
\* peer will never read succeeds until the connection is broken.
Write(c) ==
  /\ hub.pc = "writing" /\ c \in hub.todo
  /\ peer[c] # "stalled" \/ socket[c] # "ok"
  /\ hub' = [hub EXCEPT !.todo = @ \ {c}]
  /\ received' = IF socket[c] = "ok" /\ peer[c] = "open"
                 THEN [received EXCEPT ![c] = Append(@, hub.message)] ELSE received
  /\ asking' = IF socket[c] # "ok" THEN [asking EXCEPT ![c] = @ + 1] ELSE asking
  /\ UNCHANGED <<conns, readers, clients, order, start>>

EndBroadcast ==
  /\ hub.pc = "writing" /\ hub.todo = {}
  /\ hub' = [pc |-> "select", message |-> NoMessage, todo |-> {}]
  /\ UNCHANGED <<conns, readers, asking, clients, history>>

Next ==
  \/ \E c \in Conns :
       \/ Connect(c) \/ \E m \in Messages : PeerSend(c, m)
       \/ PeerStall(c) \/ PeerResume(c) \/ PeerClose(c) \/ Reset(c)
       \/ ReadMessage(c) \/ ReadFails(c)
       \/ Register(c) \/ UnregisterReader(c) \/ UnregisterFailed(c)
       \/ Broadcast(c) \/ Write(c)
  \/ EndBroadcast

Spec == Init /\ [][Next]_vars

-----------------------------------------------------------------------------
\* Safety.

\* A connection is in Hub.clients exactly while it has a reader that will ask
\* for its removal and a socket the hub has not closed: however the requests
\* of the reader and of failed writes are ordered, no connection is written to
\* after its removal, and none is left behind.
RegisteredIsServed ==
  \A c \in Conns :
    c \in clients <=> reader[c] \in {"reading", "sending", "leaving"} /\ socket[c] # "closed"

\* Two connections never receive two messages in different orders, and none
\* receives a message twice (the case c = d): user interfaces agree on what
\* came first, and none shows a prompt again.
ReceivedInOneOrder ==
  \A c, d \in Conns : \A i, j \in DOMAIN received[c], k, l \in DOMAIN received[d] :
    received[c][i] = received[d][k] /\ received[c][j] = received[d][l] /\ i < j => k < l

\* All the connections see the messages of all senders in one order, from the
\* moment they are registered, without gaps, repetitions or inventions.
Bridge == INSTANCE TotalOrderBroadcast WITH
  queue  <- [c \in Conns |-> IF reader[c] = "sending" THEN <<message[c]>> \o unread[c]
                                                      ELSE unread[c]],
  joined <- {c \in Conns : reader[c] \notin {"none", "registering"}}

BroadcastIsTotallyOrdered == Bridge!Spec

-----------------------------------------------------------------------------
(***************************************************************************)
(* Fairness.  The goroutines run.  Channels serve their senders in the     *)
(* order of arrival and select takes a ready case at random, so that a     *)
(* goroutine whose channel is served again and again gets its turn.  A     *)
(* write to a peer that reads again and again gets through.                *)
(***************************************************************************)
HubFairness ==
  /\ \A c \in Conns :
       /\ SF_vars(Register(c)) /\ SF_vars(UnregisterReader(c))
       /\ SF_vars(UnregisterFailed(c)) /\ SF_vars(Broadcast(c))
       /\ SF_vars(Write(c))
  /\ WF_vars(EndBroadcast)

ReaderFairness == \A c \in Conns : WF_vars(ReadMessage(c) \/ ReadFails(c))

\* The bridge writes without a deadline: only the peer ends a stall.
PeerFairness == \A c \in Conns : WF_vars(PeerResume(c))

FairSpec == Spec /\ HubFairness /\ ReaderFairness /\ PeerFairness

-----------------------------------------------------------------------------
\* Liveness.

\* A closed connection, which nothing opens again, is forgotten: it leaves the
\* set of clients for good and none of its goroutines is left at a channel.
ClosedConnectionsLeave ==
  \A c \in Conns :
    <>[](peer[c] = "closed" => c \notin clients /\ reader[c] = "done" /\ asking[c] = 0)

\* What the repository says of the bridge and does not hold.
\* human_input/broker/websocket.go: "the server broadcasts all messages from
\* this connection".
AllMessagesBroadcast ==
  \A c \in Conns, m \in Messages : m \in Range(sent[c]) ~> m \in Range(order)
=============================================================================
