--------------------------- MODULE CodeInterpreter ---------------------------
(***************************************************************************)
(* The code_interpreter tool (MCP-NG/tools/python/code_interpreter): a     *)
(* gRPC server with a fixed pool of threads that runs the code of each     *)
(* request with sys.stdout redirected to a buffer of that request.         *)
(*                                                                         *)
(* sys.stdout is one variable of the process: redirect_stdout saves it,    *)
(* replaces it and puts the saved value back, each in a step of its own,   *)
(* while other threads of the pool do the same.                            *)
(***************************************************************************)
EXTENDS Sequences, Naturals, FiniteSets

CONSTANTS
  Runs,      \* the Run requests, each with its own buffer
  Workers,   \* the size of the pool (10 in the code)
  MaxPrints, \* bound: what the code of a run prints at most
  Console    \* the standard output the process was started with

ASSUME WorkersAssumption == Workers \in Nat \ {0}
ASSUME MaxPrintsAssumption == MaxPrints \in Nat
ASSUME ConsoleAssumption == Console \notin Runs

VARIABLES
  pc,       \* pc[r]: where the thread of run r is
  stdout,   \* sys.stdout: the buffer of a run, or the console
  saved,    \* saved[r]: what redirect_stdout of run r found there
  written,  \* written[f]: what has been written to file f: the runs that printed
  printed,  \* printed[r]: how much run r has printed
  result,   \* result[r]: what the call returned
  met       \* met[r]: history, the other runs that have been in the pool with r

vars == <<pc, stdout, saved, written, printed, result, met>>

Files   == Runs \cup {Console}
None    == [kind |-> "none"]
Results == [kind : {"none", "missing", "exception", "error"}] \cup [kind : {"result"}, output : Seq(Runs)]

TypeOK ==
  /\ pc \in [Runs -> {"idle", "queued", "called", "saved", "executing", "returned", "raised",
                      "captured", "done"}]
  /\ stdout \in Files
  /\ saved \in [Runs -> Files]
  /\ written \in [Files -> Seq(Runs)]
  /\ printed \in [Runs -> 0..MaxPrints]
  /\ result \in [Runs -> Results]
  /\ met \in [Runs -> SUBSET Runs]

Init ==
  /\ pc = [r \in Runs |-> "idle"]
  /\ stdout = Console
  /\ saved = [r \in Runs |-> Console]
  /\ written = [f \in Files |-> <<>>]
  /\ printed = [r \in Runs |-> 0]
  /\ result = [r \in Runs |-> None]
  /\ met = [r \in Runs |-> {}]

\* A thread of the pool works on the run.
Busy(r) == pc[r] \notin {"idle", "queued", "done"}
BusyRuns == {r \in Runs : Busy(r)}

Goto(r, from, to) == pc[r] = from /\ pc' = [pc EXCEPT ![r] = to]

-----------------------------------------------------------------------------
\* The RPC arrives and waits in the queue of the pool.
Arrive(r) ==
  /\ Goto(r, "idle", "queued")
  /\ UNCHANGED <<stdout, saved, written, printed, result, met>>

Start(r) ==
  /\ Cardinality(BusyRuns) < Workers
  /\ Goto(r, "queued", "called")
  /\ met' = [q \in Runs |-> IF q = r THEN met[q] \cup BusyRuns
                            ELSE IF Busy(q) THEN met[q] \cup {r} ELSE met[q]]
  /\ UNCHANGED <<stdout, saved, written, printed, result>>

\* Run: no code, no execution.  Code that is empty or no string is an error the
\* tool returns; an argument that is not there is an exception of the servicer,
\* which gRPC reports in the place of a reply.
MissingCode(r) ==
  /\ Goto(r, "called", "done")
  /\ \E k \in {"missing", "exception"} : result' = [result EXCEPT ![r] = [kind |-> k]]
  /\ UNCHANGED <<stdout, saved, written, printed, met>>

\* Entering "with redirect_stdout": save the old target, ...
SaveStdout(r) ==
  /\ Goto(r, "called", "saved")
  /\ saved' = [saved EXCEPT ![r] = stdout]
  /\ UNCHANGED <<stdout, written, printed, result, met>>

\* Mutant: what is redirected already is left alone.
SetStdout_once(r) ==
  /\ Goto(r, "saved", "executing")
  /\ stdout' = IF stdout = Console THEN r ELSE stdout
  /\ UNCHANGED <<saved, written, printed, result, met>>

\* ... then put the buffer in its place.
SetStdout(r) ==
  /\ Goto(r, "saved", "executing")
  /\ stdout' = r
  /\ UNCHANGED <<saved, written, printed, result, met>>

\* exec(code): print looks sys.stdout up each time.
PrintLine(r) ==
  /\ pc[r] = "executing" /\ printed[r] < MaxPrints
  /\ written' = [written EXCEPT ![stdout] = Append(@, r)]
  /\ printed' = [printed EXCEPT ![r] = @ + 1]
  /\ UNCHANGED <<pc, stdout, saved, result, met>>

CodeEnds(r) ==
  /\ Goto(r, "executing", "returned") \/ Goto(r, "executing", "raised")
  /\ UNCHANGED <<stdout, saved, written, printed, result, met>>

\* Leaving the with statement, by an exception too, which becomes the error
\* the run returns.
Restore(r) ==
  /\ stdout' = saved[r]
  /\ \/ Goto(r, "returned", "captured") /\ UNCHANGED result
     \/ /\ Goto(r, "raised", "done")
        /\ result' = [result EXCEPT ![r] = [kind |-> "error"]]
  /\ UNCHANGED <<saved, written, printed, met>>

\* Mutant: the bare output in the place of the dictionary.
Capture_bare(r) ==
  /\ Goto(r, "captured", "done")
  /\ result' = [result EXCEPT ![r] = written[r]]
  /\ UNCHANGED <<stdout, saved, written, printed, met>>

\* Mutant: sys.stdout.getvalue() after the with statement.
Capture_fromStdout(r) ==
  /\ Goto(r, "captured", "done")
  /\ result' = [result EXCEPT ![r] = [kind |-> "result", output |-> written[stdout]]]
  /\ UNCHANGED <<stdout, saved, written, printed, met>>

\* output_buffer.getvalue()
Capture(r) ==
  /\ Goto(r, "captured", "done")
  /\ result' = [result EXCEPT ![r] = [kind |-> "result", output |-> written[r]]]
  /\ UNCHANGED <<stdout, saved, written, printed, met>>

Next == \E r \in Runs :
  \/ Arrive(r) \/ Start(r) \/ MissingCode(r)
  \/ SaveStdout(r) \/ SetStdout(r) \/ PrintLine(r) \/ CodeEnds(r)
  \/ Restore(r) \/ Capture(r)

Spec == Init /\ [][Next]_vars

-----------------------------------------------------------------------------
\* The run returned what it printed, all of it and nothing else.
ExactOutput(r) ==
  result[r].kind = "result" =>
    /\ Len(result[r].output) = printed[r]
    /\ \A i \in 1..printed[r] : result[r].output[i] = r

\* A run that shares the pool with no other returns exactly what it printed,
\* whatever earlier runs that overlapped each other have made of sys.stdout.
SoloOutputExact == \A r \in Runs : met[r] = {} => ExactOutput(r)

\* What a run returns was printed by itself or by runs that were in the pool
\* while it was: although sys.stdout may go on pointing at the buffer of a run
\* that has ended, nothing that ran before or after it appears in its result.
OutputFromThePool ==
  \A r \in Runs : result[r].kind = "result" =>
    \A i \in 1..Len(result[r].output) : result[r].output[i] \in met[r] \cup {r}

\* docs/tools/python/code_interpreter.md: result is "the captured standard
\* output (stdout) from the executed code".  Overlapping runs print into each
\* other's buffers.
OutputIsOwn == \A r \in Runs : ExactOutput(r)
=============================================================================
