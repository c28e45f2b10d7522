---------------------------- MODULE HumanQuestion ----------------------------
(***************************************************************************)
(* What the tool human_input, the bridge and the main server promise       *)
(* together to the agent that asks a human: a call is replied to once; if  *)
(* the reply is an error of the tool the human neither has been nor will   *)
(* be asked, while an agent that was cut off knows nothing; and the agent  *)
(* gets only answers the main server keeps, to questions it waits for.     *)
(***************************************************************************)
CONSTANT Questions

VARIABLES
  reply,  \* reply[q]: what the agent knows of the call
  asked,  \* the questions put to the humans
  stored, \* those whose answer the main server keeps
  got     \* those whose answer the agent has got

vars == <<reply, asked, stored, got>>

Init ==
  /\ reply = [q \in Questions |-> "none"]
  /\ asked = {}
  /\ stored = {}
  /\ got = {}

Wait(q) ==
  /\ reply[q] = "none"
  /\ reply' = [reply EXCEPT ![q] = "waiting_for_human"]
  /\ UNCHANGED <<asked, stored, got>>

Fail(q) ==
  /\ reply[q] = "none"
  /\ q \notin asked
  /\ reply' = [reply EXCEPT ![q] = "error"]
  /\ UNCHANGED <<asked, stored, got>>

\* Calls that have not been replied to end without the tool's reply.
CutOff(S) ==
  reply' = [q \in Questions |-> IF q \in S /\ reply[q] = "none" THEN "unavailable" ELSE reply[q]]

Ask(q) ==
  /\ reply[q] # "error"
  /\ asked' = asked \cup {q}
  /\ UNCHANGED <<reply, stored, got>>

Answer(q) ==
  /\ stored' = stored \cup {q}
  /\ UNCHANGED <<reply, asked, got>>

Fetch(q) ==
  /\ reply[q] = "waiting_for_human"
  /\ q \in stored
  /\ got' = got \cup {q}
  /\ UNCHANGED <<reply, asked, stored>>

Lose ==
  /\ stored' \in {stored, {}}
  /\ \E S \in SUBSET Questions : CutOff(S)
  /\ UNCHANGED <<asked, got>>

Next ==
  \/ \E q \in Questions : Wait(q) \/ Fail(q) \/ Ask(q) \/ Answer(q) \/ Fetch(q)
  \/ Lose

Spec == Init /\ [][Next]_vars
=============================================================================
