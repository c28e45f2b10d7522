----------------------------- MODULE ToolsProofs -----------------------------
(***************************************************************************)
(* What holds of the calls of all the Go tools, for every set of calls,    *)
(* strings and arguments: type correctness, the contract of the            *)
(* descriptions, and how a process comes to die.  The proofs about the     *)
(* work of each tool extend this module: they need to know of the other    *)
(* tools only what OthersKeepOut says.                                     *)
(***************************************************************************)
EXTENDS Tools, TLAPS

-----------------------------------------------------------------------------
\* What a step does to the records of the calls.

\* The call c goes on to l, with the reply r, and the others stay.
Moves(c, l, r) ==
  /\ \A d \in Calls \ {c} : call'[d] = call[d]
  /\ Made(c) /\ Made(c)'
  /\ call'[c].tool = call[c].tool /\ call'[c].args = call[c].args
  /\ call'[c].pc = l /\ call'[c].reply = r

LEMMA CallFields ==
  ASSUME TypeOKCalls, NEW c \in Calls, Made(c)
  PROVE  /\ call[c].tool \in Tools /\ call[c].args \in Arguments[call[c].tool]
         /\ call[c].pc \in Pcs /\ call[c].reply \in Replies
         /\ call[c] = Call(call[c].tool, call[c].args, call[c].pc, call[c].reply)
  BY DEF TypeOKCalls, Made, CallRecords, Call

LEMMA CallIsRecord ==
  ASSUME NEW t \in Tools, NEW a \in Arguments[t], NEW l \in Pcs, NEW r \in Replies
  PROVE  /\ Call(t, a, l, r) \in CallRecords /\ Call(t, a, l, r) # NoCall
         /\ Call(t, a, l, r).tool = t /\ Call(t, a, l, r).args = a
         /\ Call(t, a, l, r).pc = l /\ Call(t, a, l, r).reply = r
<1>1. Call(t, a, l, r) \in [tool : {t}, args : Arguments[t], pc : Pcs, reply : Replies]
  BY DEF Call
<1>2. Call(t, a, l, r) \in CallRecords
  BY <1>1 DEF CallRecords
<1> QED
  BY <1>2, NoCallAssumption DEF Call

LEMMA GotoMoves ==
  ASSUME TypeOKCalls, NEW c \in Calls, Made(c), call[c].pc # "done",
         NEW l \in Pcs \ {"done"}, Goto(c, l), UNCHANGED <<up, keys>>
  PROVE  TypeOKCalls' /\ Moves(c, l, "none")
<1> DEFINE e == Call(call[c].tool, call[c].args, l, "none")
<1>1. "none" \in Replies
  BY DEF Replies
<1>2. /\ e \in CallRecords /\ e # NoCall
      /\ e.tool = call[c].tool /\ e.args = call[c].args /\ e.pc = l /\ e.reply = "none"
  BY <1>1, CallFields, CallIsRecord
<1>3. call' = [call EXCEPT ![c] = e]
  BY DEF Goto
<1> HIDE DEF e
<1> QED
  BY <1>2, <1>3 DEF TypeOKCalls, Moves, Made

LEMMA ReturnMoves ==
  ASSUME TypeOKCalls, NEW c \in Calls, Made(c),
         NEW r \in Replies \ {"none"}, Return(c, r), UNCHANGED <<up, keys>>
  PROVE  TypeOKCalls' /\ Moves(c, "done", r)
<1> DEFINE e == Call(call[c].tool, call[c].args, "done", r)
<1>1. "done" \in Pcs
  BY DEF Pcs
<1>2. /\ e \in CallRecords /\ e # NoCall
      /\ e.tool = call[c].tool /\ e.args = call[c].args /\ e.pc = "done" /\ e.reply = r
  BY <1>1, CallFields, CallIsRecord
<1>3. call' = [call EXCEPT ![c] = e]
  BY DEF Return
<1> HIDE DEF e
<1> QED
  BY <1>2, <1>3 DEF TypeOKCalls, Moves, Made

-----------------------------------------------------------------------------
\* A tool of T carries on with one of its calls.
Works(T) ==
  \E c \in Calls :
    /\ Running(c) /\ call[c].tool \in T
    /\ \E l \in Pcs, r \in {"none", "result", "error"} : Moves(c, l, r)

PlainTools == {"calculator", "log_notifier"}
FileTool   == {"file_reader", "file_writer", "list_directory"}
DbTool     == {"db_querier"}

\* The three shapes of a step: it leaves the call where it is, moves it on, or
\* ends it.
LEMMA ShapesWork ==
  ASSUME TypeOKCalls, NEW T, NEW c \in Calls, Running(c), call[c].tool \in T,
         UNCHANGED <<up, keys>>,
         \/ UNCHANGED call
         \/ \E l \in Pcs \ {"done"} : Goto(c, l)
         \/ \E r \in {"result", "error"} : Return(c, r)
  PROVE  TypeOKCalls' /\ Works(T)
<1>1. CASE UNCHANGED call
  <2>1. TypeOKCalls' /\ Moves(c, call[c].pc, call[c].reply)
    BY <1>1 DEF TypeOKCalls, Moves, Running, Made
  <2>2. call[c].pc \in Pcs /\ call[c].reply = "none"
    BY CallFields DEF TypeOKCalls, Running, Made
  <2> QED
    BY <2>1, <2>2 DEF Works
<1>2. ASSUME NEW l \in Pcs \ {"done"}, Goto(c, l) PROVE TypeOKCalls' /\ Works(T)
  BY <1>2, GotoMoves DEF Works, Running
<1>3. ASSUME NEW r \in {"result", "error"}, Return(c, r) PROVE TypeOKCalls' /\ Works(T)
  <2>1. r \in Replies \ {"none"}
    BY DEF Replies
  <2>2. TypeOKCalls' /\ Moves(c, "done", r)
    BY <1>3, <2>1, ReturnMoves DEF Running
  <2> QED
    BY <2>2 DEF Works, Pcs
<1> QED
  BY <1>1, <1>2, <1>3

LEMMA PlainWorks ==
  ASSUME TypeOKCalls, NEW c \in Calls, PlainStep(c)
  PROVE  TypeOKCalls' /\ Works(PlainTools) /\ UNCHANGED <<up, keys>>
<1>1. Running(c) /\ call[c].tool \in PlainTools /\ UNCHANGED <<up, keys>>
  BY DEF PlainStep, Calculator, LogNotifier, At, Running, PlainTools
<1>2. \E r \in {"result", "error"} : Return(c, r)
  BY DEF PlainStep, Calculator, LogNotifier
<1> QED
  BY <1>1, <1>2, ShapesWork

LEMMA FileWorks ==
  ASSUME TypeOKCalls, NEW c \in Calls, FileStep(c)
  PROVE  TypeOKCalls' /\ Works(FileTool) /\ UNCHANGED <<up, keys>>
<1>1. Running(c) /\ call[c].tool \in FileTool /\ UNCHANGED <<up, keys>>
  BY DEF FileStep, OpenWrite, WriteBlock, EndWrite, WriteFails, OpenRead, ReadBlock,
         EndRead, ReadFails, ListDirectory, At, Running, FileTool, callVars
<1>2. \/ UNCHANGED call
      \/ \E l \in Pcs \ {"done"} : Goto(c, l)
      \/ \E r \in {"result", "error"} : Return(c, r)
  BY DEF FileStep, OpenWrite, WriteBlock, EndWrite, WriteFails, OpenRead, ReadBlock,
         EndRead, ReadFails, ListDirectory, callVars, Pcs
<1> QED
  BY <1>1, <1>2, ShapesWork

LEMMA NetWorks ==
  ASSUME TypeOKCalls, NEW c \in Calls, NetStep(c)
  PROVE  TypeOKCalls' /\ Works(NetTools) /\ UNCHANGED <<up, keys>>
<1>1. Running(c) /\ call[c].tool \in NetTools /\ UNCHANGED <<up, keys>>
  BY DEF NetStep, Send, Receive, GiveUp, Waiting, IsNetCall, Running
<1>2. \/ \E l \in Pcs \ {"done"} : Goto(c, l)
      \/ \E r \in {"result", "error"} : Return(c, r)
  BY DEF NetStep, Send, Receive, GiveUp, Pcs
<1> QED
  BY <1>1, <1>2, ShapesWork

LEMMA DbWorks ==
  ASSUME TypeOKCalls, NEW c \in Calls, DbStep(c)
  PROVE  TypeOKCalls' /\ Works(DbTool) /\ UNCHANGED <<up, keys>>
<1>1. Running(c) /\ call[c].tool \in DbTool /\ UNCHANGED <<up, keys>>
  BY DEF DbStep, OpenDb, NextRow, EndOfRows, NextFails, Queries, At, Running, DbTool, callVars
<1>2. \/ UNCHANGED call
      \/ \E l \in Pcs \ {"done"} : Goto(c, l)
      \/ \E r \in {"result", "error"} : Return(c, r)
  BY DEF DbStep, OpenDb, NextRow, EndOfRows, NextFails, callVars, Pcs
<1> QED
  BY <1>1, <1>2, ShapesWork

\* A call is made, and may bring the process of its tool down.
Refusable(t, a) == t \in Keyed \ keys \/ ~Accepted(t, a) \/ Denied(t, a)

Sound(t, a) == ~Refusable(t, a) /\ (a = NoArguments => t = "list_directory")

Starts(c) ==
  /\ ~Made(c) /\ Made(c)'
  /\ call'[c].pc \in {"begun", "done"}
  /\ call'[c].reply \in {"none", "refused", "unavailable"}
  /\ call'[c].reply = "refused" => Refusable(call'[c].tool, call'[c].args)
  /\ call'[c].reply = "none" => Sound(call'[c].tool, call'[c].args)

Killed(d) ==
  /\ Running(d) /\ Made(d)'
  /\ call'[d].tool = call[d].tool /\ call'[d].args = call[d].args
  /\ call'[d].pc = "done" /\ call'[d].reply = "unavailable"

LEMMA ExecuteStarts ==
  ASSUME TypeOKCalls, NEW c \in Calls, NEW t \in Tools, NEW a \in Arguments[t],
         Execute(c, t, a)
  PROVE  /\ TypeOKCalls' /\ keys' = keys
         /\ Starts(c)
         /\ \A d \in Calls \ {c} : call'[d] = call[d] \/ Killed(d)
         /\ up' = up \/ (up' = up \ {t} /\ call'[c].tool = t /\ call'[c].args = NoArguments)
<1> USE DEF TypeOKCalls
<1>1. {"begun", "done"} \subseteq Pcs /\ {"none", "refused", "unavailable"} \subseteq Replies
  BY DEF Pcs, Replies
<1>2. ~Made(c) /\ keys' = keys
  BY DEF Execute
<1>3. ASSUME NEW l \in {"begun", "done"}, NEW r \in {"none", "refused", "unavailable"},
             l = "done" <=> r # "none",
             r = "refused" => Refusable(t, a), r = "none" => Sound(t, a),
             call' = [call EXCEPT ![c] = Call(t, a, l, r)], UNCHANGED up
      PROVE  /\ TypeOKCalls' /\ Starts(c)
             /\ \A d \in Calls \ {c} : call'[d] = call[d]
  <2> DEFINE e == Call(t, a, l, r)
  <2>1. l \in Pcs /\ r \in Replies
    BY <1>1
  <2>2. /\ e \in CallRecords /\ e # NoCall
        /\ e.tool = t /\ e.args = a /\ e.pc = l /\ e.reply = r
    BY <2>1, CallIsRecord
  <2>3. call' = [call EXCEPT ![c] = e]
    BY <1>3
  <2> HIDE DEF e
  <2> QED
    BY <2>2, <2>3, <1>2, <1>3 DEF Starts, Made
<1>4. CASE t \notin up
  BY <1>3, <1>4 DEF Execute
<1>5. CASE t \in up /\ Panics(t, a)
  <2>1. Panic(c, t, a) /\ a = NoArguments
    BY <1>5 DEF Execute, Panics
  <2> DEFINE e == Call(t, a, "done", "unavailable")
  <2>2. /\ e \in CallRecords /\ e # NoCall
        /\ e.tool = t /\ e.args = a /\ e.pc = "done" /\ e.reply = "unavailable"
    BY <1>1, CallIsRecord
  <2>3. \A d \in Calls \ {c} :
          call'[d] = IF Running(d) /\ call[d].tool = t
                     THEN Call(call[d].tool, call[d].args, "done", "unavailable") ELSE call[d]
    BY <2>1 DEF Panic
  <2>4. call' = [d \in Calls |-> call'[d]] /\ call'[c] = e /\ up' = up \ {t}
    BY <2>1 DEF Panic
  <2>5. ASSUME NEW d \in Calls \ {c}
        PROVE  /\ call'[d] = call[d] \/ Killed(d)
               /\ call'[d] \in CallRecords \cup {NoCall}
               /\ call'[d] # NoCall => (call'[d].pc = "done" <=> call'[d].reply # "none")
    <3>1. CASE Running(d) /\ call[d].tool = t
      <4>1. Call(call[d].tool, call[d].args, "done", "unavailable") = call'[d]
        BY <2>3, <3>1
      <4>2. call[d].tool \in Tools /\ call[d].args \in Arguments[call[d].tool]
        BY <3>1, CallFields DEF Running
      <4>3. /\ call'[d] \in CallRecords /\ call'[d] # NoCall
            /\ call'[d].tool = call[d].tool /\ call'[d].args = call[d].args
            /\ call'[d].pc = "done" /\ call'[d].reply = "unavailable"
        BY <1>1, <4>1, <4>2, CallIsRecord
      <4> QED
        BY <3>1, <4>3 DEF Killed, Made
    <3>2. CASE ~(Running(d) /\ call[d].tool = t)
      BY <2>3, <3>2
    <3> QED
      BY <3>1, <3>2
  <2> HIDE DEF e
  <2>6. call' \in [Calls -> CallRecords \cup {NoCall}]
    BY <2>2, <2>4, <2>5
  <2> QED
    BY <1>2, <2>1, <2>2, <2>4, <2>5, <2>6 DEF Starts, Made
<1>6. CASE t \in up /\ ~Panics(t, a)
  <2>1. CASE Refusable(t, a)
    <3>1. call' = [call EXCEPT ![c] = Call(t, a, "done", "refused")] /\ UNCHANGED up
      BY <1>6, <2>1 DEF Execute, Refusable
    <3> QED
      BY <1>2, <1>3, <2>1, <3>1
  <2>2. CASE ~Refusable(t, a)
    <3>1. call' = [call EXCEPT ![c] = Call(t, a, "begun", "none")] /\ UNCHANGED up
      BY <1>6, <2>2 DEF Execute, Refusable
    <3>2. Sound(t, a)
      BY <1>6, <2>2 DEF Sound, Refusable, Panics
    <3> QED
      BY <1>2, <1>3, <3>1, <3>2
  <2> QED
    BY <2>1, <2>2
<1> QED
  BY <1>4, <1>5, <1>6

-----------------------------------------------------------------------------
\* What the other tools do to the calls of the tools of T, and to the calls
\* that have not been made: nothing, except that a call is made, or killed.
OutsidersKeepOut(T) ==
  \A d \in Calls :
    \/ call'[d] = call[d]
    \/ Starts(d)
    \/ Killed(d)
    \/ /\ Made(d) /\ Made(d)'
       /\ call[d].tool \notin T /\ call'[d].tool = call[d].tool /\ call'[d].args = call[d].args

LEMMA OthersKeepOut ==
  ASSUME NEW T, NEW U, U \cap T = {}, Works(U)
  PROVE  OutsidersKeepOut(T)
  BY DEF Works, Moves, OutsidersKeepOut

\* A step is the work of one tool, or the others', which leaves it alone.
StepKinds ==
  \/ \E c \in Calls : FileStep(c) /\ Works(FileTool) /\ UNCHANGED <<up, netVars, dbVars>>
  \/ \E c \in Calls : NetStep(c)  /\ Works(NetTools) /\ UNCHANGED <<up, fileVars, dbVars>>
  \/ \E c \in Calls : DbStep(c)   /\ Works(DbTool)   /\ UNCHANGED <<up, fileVars, netVars>>
  \/ Works(PlainTools) /\ UNCHANGED <<up, fileVars, netVars, dbVars>>
  \/ \E c \in Calls : Network(c) /\ UNCHANGED <<callVars, fileVars, dbVars>>
  \/ /\ \E c \in Calls, t \in Tools : \E a \in Arguments[t] : Execute(c, t, a)
     /\ UNCHANGED <<fileVars, netVars, dbVars>>
  \/ UNCHANGED vars

LEMMA Steps ==
  ASSUME TypeOKCalls, [Next]_vars
  PROVE  TypeOKCalls' /\ keys' = keys /\ StepKinds
<1>1. CASE UNCHANGED vars
  BY <1>1 DEF vars, callVars, TypeOKCalls, StepKinds, Made
<1>2. ASSUME NEW c \in Calls, Begin(c) PROVE TypeOKCalls' /\ keys' = keys /\ StepKinds
  BY <1>2, ExecuteStarts DEF Begin, StepKinds
<1>3. ASSUME NEW c \in Calls, PlainStep(c), UNCHANGED <<fileVars, netVars, dbVars>>
      PROVE  TypeOKCalls' /\ keys' = keys /\ StepKinds
  BY <1>3, PlainWorks DEF StepKinds
<1>4. ASSUME NEW c \in Calls, FileStep(c), UNCHANGED <<netVars, dbVars>>
      PROVE  TypeOKCalls' /\ keys' = keys /\ StepKinds
  BY <1>4, FileWorks DEF StepKinds
<1>5. ASSUME NEW c \in Calls, NetStep(c), UNCHANGED <<fileVars, dbVars>>
      PROVE  TypeOKCalls' /\ keys' = keys /\ StepKinds
  BY <1>5, NetWorks DEF StepKinds
<1>6. ASSUME NEW c \in Calls, DbStep(c), UNCHANGED <<fileVars, netVars>>
      PROVE  TypeOKCalls' /\ keys' = keys /\ StepKinds
  BY <1>6, DbWorks DEF StepKinds
<1>7. ASSUME NEW c \in Calls, Network(c), UNCHANGED <<fileVars, dbVars>>
      PROVE  TypeOKCalls' /\ keys' = keys /\ StepKinds
  <2>1. UNCHANGED callVars
    BY <1>7 DEF Network, Perform, Decline, Repeat
  <2> QED
    BY <1>7, <2>1 DEF StepKinds, callVars, TypeOKCalls, Made
<1> QED
  BY <1>1, <1>2, <1>3, <1>4, <1>5, <1>6, <1>7 DEF Next, Step, Service

\* What the proofs about the work of one tool start from.
LEMMA FileToolOrOthers ==
  ASSUME TypeOKCalls, [Next]_vars
  PROVE  \/ \E c \in Calls : FileStep(c)
         \/ UNCHANGED fileVars /\ OutsidersKeepOut(FileTool)
<1>1. PlainTools \cap FileTool = {} /\ NetTools \cap FileTool = {} /\ DbTool \cap FileTool = {}
  BY DEF PlainTools, FileTool, NetTools, DbTool
<1>2. ASSUME NEW c \in Calls, NEW t \in Tools, NEW a \in Arguments[t], Execute(c, t, a)
      PROVE  OutsidersKeepOut(FileTool)
  BY <1>2, ExecuteStarts DEF OutsidersKeepOut
<1>3. UNCHANGED call => OutsidersKeepOut(FileTool)
  BY DEF OutsidersKeepOut
<1> QED
  BY <1>1, <1>2, <1>3, Steps, OthersKeepOut DEF StepKinds, vars, callVars

LEMMA NetToolsOrOthers ==
  ASSUME TypeOKCalls, [Next]_vars
  PROVE  \/ \E c \in Calls : NetStep(c) \/ Network(c)
         \/ UNCHANGED netVars /\ OutsidersKeepOut(NetTools)
<1>1. PlainTools \cap NetTools = {} /\ FileTool \cap NetTools = {} /\ DbTool \cap NetTools = {}
  BY DEF PlainTools, FileTool, NetTools, DbTool
<1>2. ASSUME NEW c \in Calls, NEW t \in Tools, NEW a \in Arguments[t], Execute(c, t, a)
      PROVE  OutsidersKeepOut(NetTools)
  BY <1>2, ExecuteStarts DEF OutsidersKeepOut
<1>3. UNCHANGED call => OutsidersKeepOut(NetTools)
  BY DEF OutsidersKeepOut
<1> QED
  BY <1>1, <1>2, <1>3, Steps, OthersKeepOut DEF StepKinds, vars, callVars

LEMMA DbToolOrOthers ==
  ASSUME TypeOKCalls, [Next]_vars
  PROVE  \/ \E c \in Calls : DbStep(c)
         \/ UNCHANGED dbVars /\ OutsidersKeepOut(DbTool)
<1>1. PlainTools \cap DbTool = {} /\ FileTool \cap DbTool = {} /\ NetTools \cap DbTool = {}
  BY DEF PlainTools, FileTool, NetTools, DbTool
<1>2. ASSUME NEW c \in Calls, NEW t \in Tools, NEW a \in Arguments[t], Execute(c, t, a)
      PROVE  OutsidersKeepOut(DbTool)
  BY <1>2, ExecuteStarts DEF OutsidersKeepOut
<1>3. UNCHANGED call => OutsidersKeepOut(DbTool)
  BY DEF OutsidersKeepOut
<1> QED
  BY <1>1, <1>2, <1>3, Steps, OthersKeepOut DEF StepKinds, vars, callVars

\* The records of the calls are well formed in every run.
THEOREM CallTypes == Spec => []TypeOKCalls
<1>1. Init => TypeOKCalls
  BY DEF Init, InitCalls, TypeOKCalls, Keyed, Tools, Schema
<1>2. TypeOKCalls /\ [Next]_vars => TypeOKCalls'
  BY Steps
<1> QED
  BY <1>1, <1>2, PTL DEF Spec

-----------------------------------------------------------------------------
\* The contract.  Only the beginning of Run looks at the arguments, so a call
\* that is under way has been accepted.
KeepsContract(c) ==
  Made(c) =>
    /\ call[c].reply = "refused" => Refusable(call[c].tool, call[c].args)
    /\ call[c].reply \in {"none", "result", "error"} => Sound(call[c].tool, call[c].args)

ContractInv == \A c \in Calls : KeepsContract(c)

\* What a description requires is what Run insists on, type by type, but for the
\* slash.
LEMMA RequiredIsNeeded ==
  ASSUME NEW t \in Tools
  PROVE  /\ \A n \in DOMAIN Needs[t] :
              /\ n \in DOMAIN Schema[t] /\ Schema[t][n].required
              /\ \/ Schema[t][n].type = Needs[t][n]
                 \/ t = "wildberries" /\ n = "endpoint" /\ Needs[t][n] = "rooted"
         /\ \A n \in DOMAIN Schema[t] : Schema[t][n].required =>
              /\ n \in DOMAIN Needs[t]
              /\ \/ Schema[t][n].type = Needs[t][n]
                 \/ Schema[t][n].type = "string" /\ Needs[t][n] = "rooted"
<1> USE DEF Needs, Schema, Required, Optional
<1>1. CASE t = "calculator"
  BY <1>1 DEF CalculatorNeeds, CalculatorSchema
<1>2. CASE t = "log_notifier"
  BY <1>2 DEF LogNotifierNeeds, LogNotifierSchema
<1>3. CASE t = "file_reader"
  BY <1>3 DEF FileReaderNeeds, FileReaderSchema
<1>4. CASE t = "file_writer"
  BY <1>4 DEF FileWriterNeeds, FileWriterSchema
<1>5. CASE t = "list_directory"
  BY <1>5 DEF ListDirectoryNeeds, ListDirectorySchema
<1>6. CASE t = "db_querier"
  BY <1>6 DEF DbQuerierNeeds, DbQuerierSchema
<1>7. CASE t = "api_caller"
  BY <1>7 DEF ApiCallerNeeds, ApiCallerSchema
<1>8. CASE t = "ozon"
  BY <1>8 DEF OzonNeeds, OzonSchema
<1>9. CASE t = "web_search"
  BY <1>9 DEF WebSearchNeeds, WebSearchSchema
<1>10. CASE t = "wildberries"
  BY <1>10 DEF WildberriesNeeds, WildberriesSchema
<1> QED
  BY <1>1, <1>2, <1>3, <1>4, <1>5, <1>6, <1>7, <1>8, <1>9, <1>10 DEF Tools

LEMMA ConformingIsAccepted ==
  ASSUME NEW t \in Tools, NEW a, Conforms(t, a), ~Unstated(t, a)
  PROVE  Accepted(t, a)
BY RequiredIsNeeded DEF Conforms, HasRequired, Accepted, Unstated

LEMMA AcceptedHasRequired ==
  ASSUME NEW t \in Tools, NEW a, Accepted(t, a)
  PROVE  HasRequired(t, a)
BY RequiredIsNeeded DEF HasRequired, Accepted, HasType

\* What is not accepted is never carried out.
LEMMA ContractHolds == Spec => []ContractInv
<1>1. Init => ContractInv
  BY DEF Init, InitCalls, ContractInv, KeepsContract, Made
<1>2. TypeOKCalls /\ ContractInv /\ [Next]_vars => ContractInv'
  <2> SUFFICES ASSUME TypeOKCalls, ContractInv, [Next]_vars, NEW d \in Calls, Made(d)'
               PROVE  KeepsContract(d)'
    BY DEF ContractInv, KeepsContract, Made
  <2>1. keys' = keys /\ StepKinds /\ KeepsContract(d)
    BY Steps DEF ContractInv
  <2>2. CASE call'[d] = call[d]
    BY <2>1, <2>2 DEF KeepsContract, Made, Refusable, Sound
  <2>3. CASE Starts(d)
    BY <2>1, <2>3 DEF Starts, KeepsContract, Refusable, Sound
  <2>4. CASE Killed(d)
    BY <2>4 DEF Killed, KeepsContract
  <2>5. ASSUME NEW T, Works(T), call'[d] # call[d] PROVE KeepsContract(d)'
    <3>1. PICK l \in Pcs, r \in {"none", "result", "error"} : Running(d) /\ Moves(d, l, r)
      BY <2>5 DEF Works, Moves
    <3>2. call[d].reply = "none" /\ Made(d)
      BY <3>1 DEF Running, Made, TypeOKCalls
    <3> QED
      BY <2>1, <3>1, <3>2 DEF Moves, KeepsContract, Sound, Refusable
  <2>6. ASSUME NEW c \in Calls, NEW t \in Tools, NEW a \in Arguments[t], Execute(c, t, a)
        PROVE  call'[d] = call[d] \/ Starts(d) \/ Killed(d)
    BY <2>6, ExecuteStarts
  <2> QED
    BY <2>1, <2>2, <2>3, <2>4, <2>5, <2>6 DEF StepKinds, vars, callVars
<1> QED
  BY <1>1, <1>2, CallTypes, PTL DEF Spec

\* A call whose arguments are as the tool describes them is refused on their
\* account only for the missing slash, and none is carried out without what the
\* description requires.
THEOREM DescriptionsAreContracts == Spec => []DescriptionIsTheContract
<1>1. TypeOKCalls /\ ContractInv => DescriptionIsTheContract
  <2> SUFFICES ASSUME TypeOKCalls, ContractInv, NEW c \in Calls, Made(c)
               PROVE  /\ /\ call[c].reply = "refused"
                         /\ Conforms(call[c].tool, call[c].args)
                         => \/ call[c].tool \in Keyed \ keys
                            \/ Denied(call[c].tool, call[c].args)
                            \/ Unstated(call[c].tool, call[c].args)
                      /\ call[c].reply \in {"result", "error"} =>
                           HasRequired(call[c].tool, call[c].args)
    BY DEF DescriptionIsTheContract
  <2>1. call[c].tool \in Tools
    BY CallFields
  <2>2. ASSUME call[c].reply = "refused", Conforms(call[c].tool, call[c].args),
               ~Unstated(call[c].tool, call[c].args)
        PROVE  call[c].tool \in Keyed \ keys \/ Denied(call[c].tool, call[c].args)
    BY <2>1, <2>2, ConformingIsAccepted DEF ContractInv, KeepsContract, Refusable
  <2>3. ASSUME call[c].reply \in {"result", "error"}
        PROVE  HasRequired(call[c].tool, call[c].args)
    BY <2>1, <2>3, AcceptedHasRequired DEF ContractInv, KeepsContract, Sound, Refusable
  <2> QED
    BY <2>2, <2>3
<1> QED
  BY <1>1, ContractHolds, CallTypes, PTL

\* A process dies only of a call that has no arguments at all.
THEOREM BareCallsAloneKill == Spec => []OnlyBareCallsKill
<1>1. Init => OnlyBareCallsKill
  BY DEF Init, InitCalls, OnlyBareCallsKill
<1>2. TypeOKCalls /\ OnlyBareCallsKill /\ [Next]_vars => OnlyBareCallsKill'
  <2> SUFFICES ASSUME TypeOKCalls, OnlyBareCallsKill, [Next]_vars,
                      NEW t \in Tools, t \notin up'
               PROVE  \E c \in Calls :
                        Made(c)' /\ call'[c].tool = t /\ call'[c].args = NoArguments
    BY DEF OnlyBareCallsKill
  <2>1. StepKinds
    BY Steps
  <2>2. ASSUME NEW d \in Calls, Made(d)
        PROVE  Made(d)' /\ call'[d].tool = call[d].tool /\ call'[d].args = call[d].args
    <3>1. ASSUME NEW T, Works(T)
          PROVE  Made(d)' /\ call'[d].tool = call[d].tool /\ call'[d].args = call[d].args
      BY <2>2, <3>1 DEF Works, Moves, Made
    <3>2. ASSUME NEW c \in Calls, NEW s \in Tools, NEW a \in Arguments[s], Execute(c, s, a)
          PROVE  Made(d)' /\ call'[d].tool = call[d].tool /\ call'[d].args = call[d].args
      BY <2>2, <3>2, ExecuteStarts DEF Starts, Killed, Made
    <3> QED
      BY <2>1, <2>2, <3>1, <3>2 DEF StepKinds, vars, callVars, Made
  <2>3. CASE t \notin up
    BY <2>2, <2>3 DEF OnlyBareCallsKill
  <2>4. CASE t \in up
    <3>1. PICK c \in Calls, s \in Tools : \E a \in Arguments[s] : Execute(c, s, a)
      BY <2>1, <2>4 DEF StepKinds, vars, callVars
    <3>2. Made(c)' /\ call'[c].tool = t /\ call'[c].args = NoArguments
      BY <2>4, <3>1, ExecuteStarts DEF Starts
    <3> QED
      BY <3>2
  <2> QED
    BY <2>3, <2>4
<1> QED
  BY <1>1, <1>2, CallTypes, PTL DEF Spec
=============================================================================
