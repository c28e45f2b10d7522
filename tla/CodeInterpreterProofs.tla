------------------------ MODULE CodeInterpreterProofs ------------------------
(***************************************************************************)
(* Type correctness of the code interpreter, and what its sharing of       *)
(* sys.stdout leaves intact: the output of a run that meets no other run,  *)
(* and the bounds of what a run may find in its output, for every number   *)
(* of runs and of threads.  Earlier runs that overlapped may have left     *)
(* sys.stdout pointing anywhere but at the buffer of a run that was alone  *)
(* (SoloInv) or has not redirected it yet (PoolInv).                       *)
(***************************************************************************)
EXTENDS CodeInterpreter, TLAPS

THEOREM TypeCorrect == Spec => []TypeOK
<1>1. Init => TypeOK
  BY MaxPrintsAssumption DEF Init, TypeOK, Files, None, Results
<1>2. TypeOK /\ [Next]_vars => TypeOK'
  <2> SUFFICES ASSUME TypeOK, [Next]_vars PROVE TypeOK'
    OBVIOUS
  <2> USE DEF TypeOK, Goto
  <2>1. ASSUME NEW r \in Runs, Arrive(r) PROVE TypeOK'
    BY <2>1 DEF Arrive
  <2>2. ASSUME NEW r \in Runs, Start(r) PROVE TypeOK'
    <3>1. met' \in [Runs -> SUBSET Runs]
      BY <2>2 DEF Start, BusyRuns
    <3> QED
      BY <2>2, <3>1 DEF Start
  <2>3. ASSUME NEW r \in Runs, MissingCode(r) PROVE TypeOK'
    BY <2>3 DEF MissingCode, Results
  <2>4. ASSUME NEW r \in Runs, SaveStdout(r) PROVE TypeOK'
    BY <2>4 DEF SaveStdout
  <2>5. ASSUME NEW r \in Runs, SetStdout(r) PROVE TypeOK'
    BY <2>5 DEF SetStdout, Files
  <2>6. ASSUME NEW r \in Runs, PrintLine(r) PROVE TypeOK'
    <3>1. printed' \in [Runs -> 0..MaxPrints]
      <4>1. printed[r] + 1 \in 0..MaxPrints
        BY <2>6, MaxPrintsAssumption DEF PrintLine
      <4> QED
        BY <2>6, <4>1 DEF PrintLine
    <3>2. written' \in [Files -> Seq(Runs)]
      <4>1. Append(written[stdout], r) \in Seq(Runs)
        OBVIOUS
      <4> QED
        BY <2>6, <4>1 DEF PrintLine
    <3> QED
      BY <2>6, <3>1, <3>2 DEF PrintLine
  <2>7. ASSUME NEW r \in Runs, CodeEnds(r) PROVE TypeOK'
    BY <2>7 DEF CodeEnds
  <2>8. ASSUME NEW r \in Runs, Restore(r) PROVE TypeOK'
    <3>1. stdout' \in Files /\ pc' \in [Runs -> {"idle", "queued", "called", "saved",
             "executing", "returned", "raised", "captured", "done"}]
      BY <2>8 DEF Restore
    <3>2. [kind |-> "error"] \in Results
      BY DEF Results
    <3>3. result' \in [Runs -> Results]
      BY <2>8, <3>2 DEF Restore
    <3> QED
      BY <2>8, <3>1, <3>3 DEF Restore
  <2>9. ASSUME NEW r \in Runs, Capture(r) PROVE TypeOK'
    <3>1. [kind |-> "result", output |-> written[r]] \in Results
      BY DEF Results, Files
    <3> QED
      BY <2>9, <3>1 DEF Capture
  <2>10. CASE UNCHANGED vars
    BY <2>10 DEF vars
  <2> QED
    BY <2>1, <2>2, <2>3, <2>4, <2>5, <2>6, <2>7, <2>8, <2>9, <2>10 DEF Next
<1> QED
  BY <1>1, <1>2, PTL DEF Spec

-----------------------------------------------------------------------------
\* What holds of a run that has met no other.
SoloInv(r) ==
  met[r] = {} =>
    /\ Busy(r) => \A q \in Runs : Busy(q) => q = r
    /\ \A q \in Runs : saved[q] # r
    /\ pc[r] = "executing" => stdout = r
    /\ stdout = r => pc[r] \in {"executing", "returned", "raised"}
    /\ Len(written[r]) = printed[r]
    /\ \A i \in 1..printed[r] : written[r][i] = r
    /\ result[r].kind = "result" => pc[r] = "done" /\ result[r].output = written[r]

SInv == \A r \in Runs : SoloInv(r)

\* A step of q does nothing to the buffer of a run that is alone.
LEMMA StartKeepsSInv ==
  ASSUME TypeOK, SInv, NEW q \in Runs, Start(q)
  PROVE  SInv'
<1> SUFFICES ASSUME NEW r \in Runs, met'[r] = {} PROVE SoloInv(r)'
  BY DEF SInv, SoloInv
<1>1. met[r] = {} /\ SoloInv(r)
  BY DEF Start, SInv, TypeOK
<1>2. \A p \in Runs : Busy(p)' => Busy(p) \/ p = q
  BY DEF Start, Goto, Busy, TypeOK
<1>3. Busy(r)' => \A p \in Runs : Busy(p)' => p = r
  <2>1. CASE BusyRuns = {}
    BY <1>2, <2>1 DEF BusyRuns
  <2>2. CASE BusyRuns # {}
    <3>1. r # q /\ ~Busy(r)
      BY <2>2 DEF Start, BusyRuns
    <3> QED
      BY <1>2, <3>1
  <2> QED
    BY <2>1, <2>2
<1>4. /\ pc'[r] = "executing" <=> pc[r] = "executing"
      /\ pc[r] \in {"executing", "returned", "raised"} => pc'[r] = pc[r]
      /\ pc[r] = "done" => pc'[r] = "done"
  BY DEF Start, Goto, TypeOK
<1> QED
  BY <1>1, <1>3, <1>4 DEF Start, SoloInv

LEMMA OtherRunKeepsSoloInv ==
  ASSUME TypeOK, SInv, NEW q \in Runs, NEW r \in Runs, r # q,
         \/ Arrive(q) \/ MissingCode(q) \/ SaveStdout(q) \/ SetStdout(q)
         \/ PrintLine(q) \/ CodeEnds(q) \/ Restore(q) \/ Capture(q)
  PROVE  SoloInv(r)'
<1> SUFFICES ASSUME met'[r] = {} PROVE SoloInv(r)'
  BY DEF SoloInv
<1>1. met[r] = {} /\ SoloInv(r)
  BY DEF Arrive, MissingCode, SaveStdout, SetStdout, PrintLine, CodeEnds, Restore, Capture, SInv
<1>2. pc'[r] = pc[r] /\ (Busy(r)' <=> Busy(r)) /\ printed'[r] = printed[r] /\ result'[r] = result[r]
  BY DEF Arrive, MissingCode, SaveStdout, SetStdout, PrintLine, CodeEnds, Restore, Capture,
         Goto, Busy, TypeOK
<1>3. \A p \in Runs : Busy(p)' => Busy(p)
  BY DEF Arrive, MissingCode, SaveStdout, SetStdout, PrintLine, CodeEnds, Restore, Capture,
         Goto, Busy, TypeOK
<1>4. ~Arrive(q) => Busy(q)
  BY DEF MissingCode, SaveStdout, SetStdout, PrintLine, CodeEnds, Restore, Capture, Goto, Busy
<1>5. stdout = r => Busy(r)
  BY <1>1 DEF SoloInv, Busy
<1>6. CASE Arrive(q)
  BY <1>1, <1>2, <1>3, <1>6 DEF Arrive, SoloInv
<1>7. CASE ~Arrive(q)
  <2>1. ~Busy(r) /\ stdout # r
    BY <1>1, <1>4, <1>5, <1>7 DEF SoloInv
  <2>2. stdout' # r /\ \A p \in Runs : saved'[p] # r
    BY <1>1, <1>7, <2>1 DEF Arrive, MissingCode, SaveStdout, SetStdout, PrintLine, CodeEnds, Restore,
       Capture, SoloInv, TypeOK
  <2>3. written'[r] = written[r]
    BY <1>7, <2>1 DEF Arrive, MissingCode, SaveStdout, SetStdout, PrintLine, CodeEnds, Restore,
       Capture, TypeOK, Files
  <2>4. pc'[r] # "executing"
    BY <1>2, <2>1 DEF Busy
  <2> QED
    BY <1>1, <1>2, <2>1, <2>2, <2>3, <2>4 DEF SoloInv
<1> QED
  BY <1>6, <1>7

\* Its own steps: the text goes to its own buffer, and that is what it returns.
LEMMA OwnStepKeepsSoloInv ==
  ASSUME TypeOK, SInv, NEW r \in Runs,
         \/ Arrive(r) \/ MissingCode(r) \/ SaveStdout(r) \/ SetStdout(r)
         \/ PrintLine(r) \/ CodeEnds(r) \/ Restore(r) \/ Capture(r)
  PROVE  SoloInv(r)'
<1> SUFFICES ASSUME met'[r] = {} PROVE SoloInv(r)'
  BY DEF SoloInv
<1>1. met[r] = {} /\ SoloInv(r)
  BY DEF Arrive, MissingCode, SaveStdout, SetStdout, PrintLine, CodeEnds, Restore, Capture, SInv
<1>2. Busy(r)' => \A q \in Runs : Busy(q)' => q = r
  <2>1. \A q \in Runs \ {r} : Busy(q)' <=> Busy(q)
    BY DEF Arrive, MissingCode, SaveStdout, SetStdout, PrintLine, CodeEnds, Restore, Capture,
           Goto, Busy, TypeOK
  <2>2. Busy(r)' => Busy(r)
    BY DEF Arrive, MissingCode, SaveStdout, SetStdout, PrintLine, CodeEnds, Restore, Capture,
           Goto, Busy, TypeOK
  <2> QED
    BY <1>1, <2>1, <2>2 DEF SoloInv
<1>3. \A q \in Runs : saved'[q] # r
  <2>1. CASE SaveStdout(r)
    <3>1. stdout # r
      BY <1>1, <2>1 DEF SaveStdout, Goto, SoloInv
    <3> QED
      BY <1>1, <2>1, <3>1 DEF SaveStdout, SoloInv, TypeOK
  <2>2. CASE ~SaveStdout(r)
    BY <1>1, <2>2 DEF Arrive, MissingCode, SetStdout, PrintLine, CodeEnds, Restore, Capture, SoloInv
  <2> QED
    BY <2>1, <2>2
<1>4. /\ pc'[r] = "executing" => stdout' = r
      /\ stdout' = r => pc'[r] \in {"executing", "returned", "raised"}
  <2>1. CASE Arrive(r) \/ MissingCode(r) \/ SaveStdout(r) \/ Capture(r)
    <3>1. pc[r] \notin {"executing", "returned", "raised"} /\ stdout' = stdout /\ pc'[r] # "executing"
      BY <2>1 DEF Arrive, MissingCode, SaveStdout, Capture, Goto, TypeOK
    <3> QED
      BY <1>1, <3>1 DEF SoloInv
  <2>2. CASE SetStdout(r)
    BY <2>2 DEF SetStdout, Goto, TypeOK
  <2>3. CASE PrintLine(r)
    BY <1>1, <2>3 DEF PrintLine, SoloInv
  <2>4. CASE CodeEnds(r)
    BY <1>1, <2>4 DEF CodeEnds, Goto, SoloInv, TypeOK
  <2>5. CASE Restore(r)
    BY <1>1, <2>5 DEF Restore, Goto, SoloInv, TypeOK
  <2> QED
    BY <2>1, <2>2, <2>3, <2>4, <2>5
<1>5. Len(written'[r]) = printed'[r] /\ \A i \in 1..printed'[r] : written'[r][i] = r
  <2>1. CASE PrintLine(r)
    <3>1. stdout = r /\ pc[r] = "executing"
      BY <1>1, <2>1 DEF PrintLine, SoloInv
    <3>2. written'[r] = Append(written[r], r) /\ printed'[r] = printed[r] + 1
      BY <2>1, <3>1 DEF PrintLine, TypeOK, Files
    <3>3. written[r] \in Seq(Runs) /\ printed[r] \in Nat
      BY DEF TypeOK, Files
    <3>4. \A i \in 1..(printed[r] + 1) : i = printed[r] + 1 \/ i \in 1..printed[r]
      BY <3>3
    <3> QED
      BY <1>1, <3>2, <3>3, <3>4 DEF SoloInv
  <2>2. CASE ~PrintLine(r)
    BY <1>1, <2>2 DEF Arrive, MissingCode, SaveStdout, SetStdout, CodeEnds, Restore, Capture, SoloInv
  <2> QED
    BY <2>1, <2>2
<1>6. result'[r].kind = "result" => pc'[r] = "done" /\ result'[r].output = written'[r]
  <2>1. CASE Capture(r)
    BY <2>1 DEF Capture, Goto, TypeOK
  <2>2. CASE ~Capture(r)
    <3>1. pc[r] # "done" /\ result[r].kind # "result"
      BY <1>1, <2>2 DEF Arrive, MissingCode, SaveStdout, SetStdout, PrintLine, CodeEnds, Restore,
         Goto, SoloInv
    <3> QED
      BY <2>2, <3>1 DEF Arrive, MissingCode, SaveStdout, SetStdout, PrintLine, CodeEnds, Restore,
         TypeOK
  <2> QED
    BY <2>1, <2>2
<1> QED
  BY <1>2, <1>3, <1>4, <1>5, <1>6 DEF SoloInv

\* A run that shares the pool with no other returns exactly what it printed.
THEOREM SoloOutputIsExact == Spec => []SoloOutputExact
<1>1. Init => SInv
  BY ConsoleAssumption DEF Init, SInv, SoloInv, Busy, Files, None
<1>2. TypeOK /\ SInv /\ [Next]_vars => SInv'
  <2> SUFFICES ASSUME TypeOK, SInv, [Next]_vars PROVE SInv'
    OBVIOUS
  <2>1. CASE UNCHANGED vars
    BY <2>1 DEF vars, SInv, SoloInv, Busy
  <2>2. ASSUME NEW q \in Runs, Start(q) PROVE SInv'
    BY <2>2, StartKeepsSInv
  <2>3. ASSUME NEW q \in Runs,
               \/ Arrive(q) \/ MissingCode(q) \/ SaveStdout(q) \/ SetStdout(q)
               \/ PrintLine(q) \/ CodeEnds(q) \/ Restore(q) \/ Capture(q)
        PROVE  SInv'
    BY <2>3, OwnStepKeepsSoloInv, OtherRunKeepsSoloInv DEF SInv
  <2> QED
    BY <2>1, <2>2, <2>3 DEF Next
<1>3. TypeOK /\ SInv => SoloOutputExact
  <2> SUFFICES ASSUME TypeOK, SInv, NEW r \in Runs, met[r] = {}, result[r].kind = "result"
               PROVE  /\ Len(result[r].output) = printed[r]
                      /\ \A i \in 1..printed[r] : result[r].output[i] = r
    BY DEF SoloOutputExact, ExactOutput
  <2> QED
    BY DEF SInv, SoloInv
<1> QED
  BY <1>1, <1>2, <1>3, TypeCorrect, PTL DEF Spec

-----------------------------------------------------------------------------
\* What holds of every run.  Until it redirects sys.stdout nothing leads to its
\* buffer, which is empty; while it is in the pool, whoever prints there is too.
Early(r) == pc[r] \in {"idle", "queued", "called", "saved"}

PoolInv(r) ==
  /\ Busy(r) => \A q \in Runs \ {r} : Busy(q) => q \in met[r]
  /\ Early(r) => stdout # r /\ written[r] = <<>> /\ \A q \in Runs : saved[q] # r
  /\ Busy(r) => \A i \in 1..Len(written[r]) : written[r][i] \in met[r] \cup {r}
  /\ result[r].kind = "result" =>
       pc[r] = "done" /\ \A i \in 1..Len(result[r].output) : result[r].output[i] \in met[r] \cup {r}

\* The moves of a run through its call.
LEMMA Moves ==
  ASSUME TypeOK, NEW q \in Runs, NEW r \in Runs,
         \/ Arrive(q) \/ MissingCode(q) \/ SaveStdout(q) \/ SetStdout(q)
         \/ PrintLine(q) \/ CodeEnds(q) \/ Restore(q) \/ Capture(q)
  PROVE  /\ met' = met
         /\ Busy(r)' => Busy(r)
         /\ Early(r)' => Early(r)
         /\ pc[r] # "idle" /\ ~Busy(r) => pc'[r] = pc[r]
         /\ ~Arrive(q) => Busy(q)
<1> USE DEF Arrive, MissingCode, SaveStdout, SetStdout, PrintLine, CodeEnds, Restore, Capture,
            Goto, Busy, Early, TypeOK
<1>1. met' = met /\ (~Arrive(q) => Busy(q))
  OBVIOUS
<1>2. CASE r = q
  BY <1>1, <1>2
<1>3. CASE r # q
  <2>1. pc'[r] = pc[r]
    BY <1>3
  <2> QED
    BY <1>1, <2>1
<1> QED
  BY <1>2, <1>3

LEMMA StepKeepsPoolInv ==
  ASSUME TypeOK, NEW q \in Runs, NEW r \in Runs, PoolInv(r), PoolInv(q),
         \/ Arrive(q) \/ MissingCode(q) \/ SaveStdout(q) \/ SetStdout(q)
         \/ PrintLine(q) \/ CodeEnds(q) \/ Restore(q) \/ Capture(q)
  PROVE  PoolInv(r)'
<1>1. Busy(r)' => \A p \in Runs \ {r} : Busy(p)' => p \in met'[r]
  BY Moves DEF PoolInv
<1>2. ASSUME Early(r)' PROVE stdout' # r /\ written'[r] = <<>> /\ \A p \in Runs : saved'[p] # r
  <2>1. stdout # r /\ written[r] = <<>> /\ \A p \in Runs : saved[p] # r
    BY <1>2, Moves DEF PoolInv
  <2>2. ~SetStdout(r)
    BY <1>2 DEF SetStdout, Goto, Early, TypeOK
  <2>3. stdout' # r /\ \A p \in Runs : saved'[p] # r
    BY <2>1, <2>2 DEF Arrive, MissingCode, SaveStdout, SetStdout, PrintLine, CodeEnds, Restore,
       Capture, TypeOK
  <2>4. written'[r] = written[r]
    BY <2>1 DEF Arrive, MissingCode, SaveStdout, SetStdout, PrintLine, CodeEnds, Restore,
       Capture, TypeOK, Files
  <2> QED
    BY <2>1, <2>3, <2>4
<1>3. ASSUME Busy(r)'
      PROVE  \A i \in 1..Len(written'[r]) : written'[r][i] \in met'[r] \cup {r}
  <2>1. /\ Busy(r) /\ met'[r] = met[r]
        /\ \A i \in 1..Len(written[r]) : written[r][i] \in met[r] \cup {r}
    BY <1>3, Moves DEF PoolInv
  <2>2. CASE PrintLine(q) /\ stdout = r
    <3>1. q \in met[r] \cup {r}
      BY <2>1, <2>2, Moves DEF PoolInv, PrintLine, Busy
    <3>2. written'[r] = Append(written[r], q) /\ written[r] \in Seq(Runs)
      BY <2>2 DEF PrintLine, TypeOK, Files
    <3>3. /\ Len(written'[r]) = Len(written[r]) + 1 /\ written'[r][Len(written[r]) + 1] = q
          /\ \A i \in 1..Len(written[r]) : written'[r][i] = written[r][i]
          /\ \A i \in 1..(Len(written[r]) + 1) : i = Len(written[r]) + 1 \/ i \in 1..Len(written[r])
      BY <3>2
    <3> QED
      BY <2>1, <3>1, <3>3
  <2>3. CASE ~(PrintLine(q) /\ stdout = r)
    <3>1. written'[r] = written[r]
      BY <2>3 DEF Arrive, MissingCode, SaveStdout, SetStdout, PrintLine, CodeEnds, Restore,
         Capture, TypeOK, Files
    <3> QED
      BY <2>1, <3>1
  <2> QED
    BY <2>2, <2>3
<1>4. ASSUME result'[r].kind = "result"
      PROVE  /\ pc'[r] = "done"
             /\ \A i \in 1..Len(result'[r].output) : result'[r].output[i] \in met'[r] \cup {r}
  <2>1. CASE Capture(q) /\ q = r
    <3>1. /\ result'[r].output = written[r] /\ Busy(r) /\ pc'[r] = "done" /\ met' = met
      BY <2>1, Moves DEF Capture, Goto, TypeOK
    <3> QED
      BY <3>1 DEF PoolInv
  <2>2. CASE ~(Capture(q) /\ q = r)
    <3>1. result[r].kind = "result" /\ result'[r] = result[r]
      BY <1>4, <2>2 DEF Arrive, MissingCode, SaveStdout, SetStdout, PrintLine, CodeEnds, Restore,
         Capture, TypeOK
    <3>2. pc[r] = "done" /\ pc'[r] = "done"
      BY <3>1, Moves DEF PoolInv, Busy
    <3>3. met' = met
      BY Moves
    <3> QED
      BY <3>1, <3>2, <3>3 DEF PoolInv
  <2> QED
    BY <2>1, <2>2
<1> QED
  BY <1>1, <1>2, <1>3, <1>4 DEF PoolInv

LEMMA StartKeepsPoolInv ==
  ASSUME TypeOK, NEW q \in Runs, NEW r \in Runs, PoolInv(r), PoolInv(q), Start(q)
  PROVE  PoolInv(r)'
<1>1. /\ pc[q] = "queued" /\ pc'[q] = "called" /\ \A p \in Runs \ {q} : pc'[p] = pc[p]
      /\ UNCHANGED <<stdout, saved, written, result>>
  BY DEF Start, Goto, TypeOK
<1>2. /\ met[r] \subseteq met'[r]
      /\ Busy(r) => q \in met'[r]
      /\ BusyRuns \subseteq met'[q]
  <2>1. ~Busy(q)
    BY <1>1 DEF Busy
  <2> QED
    BY <2>1 DEF Start, TypeOK
<1>3. Busy(q)' /\ ~Busy(q) /\ Early(q) /\ \A p \in Runs \ {q} : Busy(p)' <=> Busy(p)
  BY <1>1 DEF Busy, Early
<1>4. Busy(r)' => \A p \in Runs \ {r} : Busy(p)' => p \in met'[r]
  BY <1>2, <1>3 DEF PoolInv, BusyRuns
<1>5. Early(r)' => Early(r)
  BY <1>1 DEF Early
<1>6. ASSUME Busy(r)'
      PROVE  \A i \in 1..Len(written'[r]) : written'[r][i] \in met'[r] \cup {r}
  <2>1. CASE r = q
    <3>1. written'[r] = <<>>
      BY <1>1, <1>3, <2>1 DEF PoolInv
    <3> QED
      BY <3>1
  <2>2. CASE r # q
    BY <1>1, <1>2, <1>3, <1>6, <2>2 DEF PoolInv
  <2> QED
    BY <2>1, <2>2
<1>7. result'[r].kind = "result" =>
        /\ pc'[r] = "done"
        /\ \A i \in 1..Len(result'[r].output) : result'[r].output[i] \in met'[r] \cup {r}
  BY <1>1, <1>2 DEF PoolInv
<1> QED
  BY <1>1, <1>4, <1>5, <1>6, <1>7 DEF PoolInv

\* What a run returns was printed by runs that were in the pool with it.
THEOREM OutputIsFromThePool == Spec => []OutputFromThePool
<1>1. Init => \A r \in Runs : PoolInv(r)
  BY ConsoleAssumption DEF Init, PoolInv, Busy, Early, Files, None
<1>2. TypeOK /\ (\A r \in Runs : PoolInv(r)) /\ [Next]_vars => (\A r \in Runs : PoolInv(r))'
  <2> SUFFICES ASSUME TypeOK, \A r \in Runs : PoolInv(r), [Next]_vars, NEW r \in Runs
               PROVE  PoolInv(r)'
    OBVIOUS
  <2>1. CASE UNCHANGED vars
    BY <2>1 DEF vars, PoolInv, Busy, Early
  <2> QED
    BY <2>1, StartKeepsPoolInv, StepKeepsPoolInv DEF Next
<1>3. (\A r \in Runs : PoolInv(r)) => OutputFromThePool
  BY DEF PoolInv, OutputFromThePool
<1> QED
  BY <1>1, <1>2, <1>3, TypeCorrect, PTL DEF Spec
=============================================================================
