--------------------------- MODULE HumanInputStore ---------------------------
(***************************************************************************)
(* What the main server promises about the answers of humans: a register   *)
(* per task that ProvideHumanInput sets and GetHumanInput reads, each call *)
(* taking effect at one moment while it is in flight.  Nothing removes an  *)
(* answer; a later one replaces it.  A call may also be refused without    *)
(* any effect.                                                             *)
(***************************************************************************)
CONSTANTS
  Clients, Tasks, Responses,
  NoTask, NoResponse, NoRequest, NoReply

VARIABLES
  answers,  \* answers[k]: the answer to task k
  call,     \* call[c]: the call client c has in flight
  result    \* result[c]: what the last call of c returned

vars == <<answers, call, result>>

Calls ==
       [op : {"ProvideHumanInput"}, task : Tasks \cup {NoTask}, response : Responses]
  \cup [op : {"GetHumanInput"}, task : Tasks \cup {NoTask}]

Init ==
  /\ answers = [k \in Tasks |-> NoResponse]
  /\ call = [c \in Clients |-> NoRequest]
  /\ result = [c \in Clients |-> NoReply]

Begin(c, r) ==
  /\ call[c] = NoRequest
  /\ call' = [call EXCEPT ![c] = r]
  /\ result' = [result EXCEPT ![c] = NoReply]
  /\ UNCHANGED answers

End(c, v) ==
  /\ call' = [call EXCEPT ![c] = NoRequest]
  /\ result' = [result EXCEPT ![c] = v]

Refuse(c) ==
  /\ call[c] # NoRequest
  /\ \/ End(c, [kind |-> "Unavailable"])
     \/ call[c].task = NoTask /\ End(c, [kind |-> "InvalidArgument"])
  /\ UNCHANGED answers

Provide(c, k) ==
  /\ call[c] # NoRequest /\ call[c].op = "ProvideHumanInput" /\ call[c].task = k
  /\ answers' = [answers EXCEPT ![k] = call[c].response]
  /\ End(c, [kind |-> "received"])

Get(c, k) ==
  /\ call[c] # NoRequest /\ call[c].op = "GetHumanInput" /\ call[c].task = k
  /\ End(c, IF answers[k] = NoResponse
            THEN [kind |-> "pending"]
            ELSE [kind |-> "completed", response |-> answers[k]])
  /\ UNCHANGED answers

\* The client turns to another operation of the server.
Forget(c) ==
  /\ call[c] = NoRequest
  /\ result' = [result EXCEPT ![c] = NoReply]
  /\ UNCHANGED <<answers, call>>

Next == \E c \in Clients :
  \/ \E r \in Calls : Begin(c, r)
  \/ Refuse(c) \/ Forget(c)
  \/ \E k \in Tasks : Provide(c, k) \/ Get(c, k)

Spec == Init /\ [][Next]_vars

\* What makes the store useful to an agent that polls: once answered, a task
\* is answered for every call that starts later.
AnsweredStaysAnswered ==
  [][\A k \in Tasks : answers[k] # NoResponse => answers'[k] # NoResponse]_vars
=============================================================================
