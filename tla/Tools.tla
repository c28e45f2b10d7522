------------------------------- MODULE Tools -------------------------------
(***************************************************************************)
(* The Go tools side by side, as the main server calls them: calls of      *)
(* several clients run at the same time, each in its own goroutine of the  *)
(* tool's gRPC server.                                                     *)
(***************************************************************************)
EXTENDS FileTools, NetworkTools, DbQuerier

vars == <<callVars, fileVars, netVars, dbVars>>

TypeOK == TypeOKCalls /\ TypeOKFiles /\ TypeOKNet /\ TypeOKDb

Init == InitCalls /\ InitFiles /\ InitNet /\ InitDb

\* The calls that touch nothing but themselves.
PlainStep(c) == Calculator(c) \/ LogNotifier(c)

\* What tool and client do to carry on with a call.
Step(c) ==
  \/ PlainStep(c) /\ UNCHANGED <<fileVars, netVars, dbVars>>
  \/ FileStep(c)  /\ UNCHANGED <<netVars, dbVars>>
  \/ NetStep(c)   /\ UNCHANGED <<fileVars, dbVars>>
  \/ DbStep(c)    /\ UNCHANGED <<fileVars, netVars>>

Begin(c) ==
  /\ \E t \in Tools : \E a \in Arguments[t] : Execute(c, t, a)
  /\ UNCHANGED <<fileVars, netVars, dbVars>>

Service(c) == Network(c) /\ UNCHANGED <<fileVars, dbVars>>

Next == \E c \in Calls : Begin(c) \/ Step(c) \/ Service(c)

Spec == Init /\ [][Next]_vars

\* Each call has a goroutine of its own, and every wait of the tools is bounded
\* by a timeout or ends in an error: nothing is assumed of the services.
FairSpec == Spec /\ \A c \in Calls : WF_vars(Step(c))

-----------------------------------------------------------------------------
\* Every call of a Go tool is answered, though services may never answer, disks
\* fill up and other calls bring the process down.
CallsEnd == \A c \in Calls : Running(c) ~> Made(c) /\ call[c].pc = "done"
=============================================================================
