----------------------------- MODULE HumanFlow -----------------------------
(***************************************************************************)
(* A question to a human, from end to end: Run of the human_input tool     *)
(* (MCP-NG/tools/go/human_input) publishes a prompt through HumanBridge on *)
(* a connection of its own; whoever sees it in a user interface answers    *)
(* the main server (ProvideHumanInput), where the agent asks for the       *)
(* answer (GetHumanInput) until it is there.  The main server keeps the    *)
(* answers in memory.                                                      *)
(***************************************************************************)
EXTENDS HumanBridge

CONSTANT
  Prompt  \* Prompt[c]: the prompt of the Run that uses connection c

Runs == DOMAIN Prompt
UserInterfaces == Conns \ Runs

ASSUME PromptAssumption ==
  /\ Runs \subseteq Conns
  /\ \A c \in Runs : Prompt[c] \in Messages
  /\ \A c, d \in Runs : Prompt[c] = Prompt[d] => c = d

VARIABLES
  toolUp,   \* the process of human_input serves
  run,      \* run[c]: where the Run of c is
  reply,    \* reply[c]: how the call of ExecuteTool ended for the agent
  answers,  \* the runs with an answer to their task_id in humanInputs
  got,      \* history: those whose answer the agent has got
  lost      \* history: those whose answer was lost before the agent got it

flowVars == <<toolUp, run, reply, answers, got, lost>>
allVars  == <<vars, flowVars>>

TypeOKFlow ==
  /\ TypeOK
  /\ toolUp \in BOOLEAN
  /\ run \in [Runs -> {"called", "dialled", "published", "failed", "ended"}]
  /\ reply \in [Runs -> {"none", "waiting_for_human", "error", "unavailable"}]
  /\ answers \subseteq Runs
  /\ got \subseteq Runs
  /\ lost \subseteq Runs

InitFlow ==
  /\ Init
  /\ toolUp = TRUE
  /\ run = [c \in Runs |-> "called"]
  /\ reply = [c \in Runs |-> "none"]
  /\ answers = {}
  /\ got = {}
  /\ lost = {}

-----------------------------------------------------------------------------
\* Run, in the process of the tool.

\* Runs under way: the process they are in, or the server that waits for them,
\* may die.
UnderWay == {c \in Runs : run[c] \in {"dialled", "published", "failed"}}

\* Who is still waiting for the reply of one of the calls gets this one.
Reply(calls, v) ==
  reply' = [c \in Runs |-> IF c \in calls /\ reply[c] = "none" THEN v ELSE reply[c]]

RunGoes(c, from, to) ==
  /\ run[c] = from
  /\ run' = [run EXCEPT ![c] = to]
  /\ UNCHANGED <<toolUp, answers, got, lost>>

RunEnds(c, from, v) == RunGoes(c, from, "ended") /\ Reply({c}, v)

\* NewWebSocketPublisher: Dial returns when the bridge has upgraded the
\* connection, registered or not.
Dial(c) == toolUp /\ RunGoes(c, "called", "dialled") /\ Connect(c) /\ UNCHANGED reply

\* A Run without a prompt, with another broker or without a bridge fails before
\* it has a connection.
DialFails(c) == toolUp /\ RunEnds(c, "called", "error") /\ UNCHANGED vars

\* ExecuteTool finds the tool's process gone, or its Run ends with the process
\* before it has a connection.
Refused(c) == ~toolUp /\ RunEnds(c, "called", "unavailable") /\ UNCHANGED vars

Publish(c) ==
  RunGoes(c, "dialled", "published") /\ PeerSend(c, Prompt[c]) /\ UNCHANGED reply

\* Mutant: the publisher reports a failure although the prompt is out.
PublishFails_late(c) ==
  RunGoes(c, "dialled", "failed") /\ PeerSend(c, Prompt[c]) /\ UNCHANGED reply

PublishFails(c) ==
  RunGoes(c, "dialled", "failed") /\ UNCHANGED <<vars, reply>>

\* Mutant: an error of Close replaces the reply.
Close_checked(c) ==
  \/ RunEnds(c, "published", "waiting_for_human") /\ PeerClose(c)
  \/ RunEnds(c, "published", "error") /\ UNCHANGED vars
  \/ RunEnds(c, "failed", "error") /\ UNCHANGED vars

\* The deferred Close, whose error nobody looks at, and the end of Run.  It does
\* not wait for the bridge, and leaves the connection open when the close frame
\* cannot be written, as after a failed Publish.
Close(c) ==
  \/ RunEnds(c, "published", "waiting_for_human") /\ (PeerClose(c) \/ UNCHANGED vars)
  \/ RunEnds(c, "failed", "error") /\ UNCHANGED vars

\* A connection left open goes with the process or with Go's finalizer.
Leave(c) == run[c] = "ended" /\ PeerClose(c) /\ UNCHANGED flowVars

\* The process ends, with all its Runs: somebody calls the tool without any
\* arguments and Run panics, or it is killed.  The main server does not start it
\* again.
ToolDies ==
  /\ toolUp
  /\ toolUp' = FALSE
  /\ run' = [c \in Runs |-> IF c \in UnderWay THEN "ended" ELSE run[c]]
  /\ Reply(UnderWay, "unavailable")
  /\ UNCHANGED <<vars, answers, got, lost>>

-----------------------------------------------------------------------------
\* The bridge, the humans, the main server and the agent.

\* A user interface is opened, stops reading for a while, is closed, and may
\* send messages of its own.
Interface(u) ==
  /\ \/ Connect(u) \/ PeerStall(u) \/ PeerResume(u) \/ PeerClose(u)
     \/ \E m \in Messages \ {Prompt[c] : c \in Runs} : PeerSend(u, m)
  /\ UNCHANGED flowVars

Bridging(c) ==
  /\ \/ Reset(c) \/ ReadMessage(c) \/ ReadFails(c)
     \/ Register(c) \/ UnregisterReader(c) \/ UnregisterFailed(c)
     \/ Broadcast(c) \/ Write(c) \/ EndBroadcast
  /\ UNCHANGED flowVars

Seen(c) == \E u \in UserInterfaces : Prompt[c] \in Range(received[u])

\* ProvideHumanInput takes an answer to any task_id, from anybody, at any time
\* and again.
Answer(c) ==
  /\ answers' = answers \cup {c}
  /\ UNCHANGED <<vars, toolUp, run, reply, got, lost>>

\* The agent has the task_id once Run has replied, and asks for the answer as
\* often as it likes.
Fetch(c) ==
  /\ reply[c] = "waiting_for_human"
  /\ c \in answers
  /\ got' = got \cup {c}
  /\ UNCHANGED <<vars, toolUp, run, reply, answers, lost>>

\* The agent's call of ExecuteTool is cut off: its deadline, its connection, the
\* gateway.  Run goes on.
CutOff(c) ==
  /\ Reply({c}, "unavailable")
  /\ UNCHANGED <<vars, toolUp, run, answers, got, lost>>

\* The main server dies with humanInputs and the calls that wait for the tool,
\* whose Runs go on; started again it starts a tool that is gone.
Restart ==
  /\ toolUp' = TRUE
  /\ answers' = {}
  /\ lost' = lost \cup {c \in answers \ got : Seen(c)}
  /\ Reply(UnderWay, "unavailable")
  /\ UNCHANGED <<vars, run, got>>

NextFlow ==
  \/ \E c \in Runs : \/ Dial(c) \/ DialFails(c) \/ Refused(c)
                     \/ Publish(c) \/ PublishFails(c) \/ Close(c) \/ Leave(c)
                     \/ Answer(c) \/ Fetch(c) \/ CutOff(c)
  \/ \E u \in UserInterfaces : Interface(u)
  \/ \E c \in Conns : Bridging(c)
  \/ ToolDies \/ Restart

SpecFlow == InitFlow /\ [][NextFlow]_allVars

-----------------------------------------------------------------------------
\* A Run that has published returns, a human who has seen a prompt answers it
\* once, and an agent that waits keeps asking; nobody has to open a user
\* interface, or to keep it open.
AnswerSeen(c) == Seen(c) /\ c \notin lost /\ Answer(c)

FlowFairness ==
  \A c \in Runs :
    WF_allVars(Close(c)) /\ WF_allVars(AnswerSeen(c)) /\ WF_allVars(Fetch(c))

FairSpecFlow ==
  SpecFlow /\ HubFairness /\ ReaderFairness /\ PeerFairness /\ FlowFairness

\* A prompt that is being written to a user interface gets the agent an answer,
\* although the connection it came on is closed by then, unless that interface
\* is closed, the answer is lost with the main server, or the agent was never
\* told the task_id: its call was cut off, or the tool or the main server died
\* between the publication and the reply.
PromptsAnswered ==
  \A c \in Runs, u \in UserInterfaces :
    hub.message = Prompt[c] /\ u \in hub.todo ~>
      c \in got \cup lost \/ reply[c] = "unavailable" \/ peer[u] = "closed"

\* A Run that reports an error of its own has asked nobody, whatever happened to
\* its connection and its process: the agent may ask again without a human
\* being asked twice.  An error that ExecuteTool reports because the tool or the
\* connection is gone ("unavailable") promises no such thing.
FailedRunsAskNobody ==
  \A c \in Runs : reply[c] = "error" => Prompt[c] \notin Range(order)

\* From the agent's side all this is HumanQuestion: a question it was told has
\* failed is not put to the humans later either, though its connection may be
\* still open and the bridge behind; and through deaths, restarts and repeated
\* answers it gets an answer only to a question it was told to wait for.
Question == INSTANCE HumanQuestion WITH
  Questions <- Runs,
  asked     <- {c \in Runs : Prompt[c] \in Range(order)},
  stored    <- answers

FlowIsAQuestion == Question!Spec
=============================================================================
