--------------------------- MODULE McpServerProofs ---------------------------
(***************************************************************************)
(* The safety of McpServer, for every set of tools, clients, tasks and     *)
(* answers.                                                                *)
(***************************************************************************)
EXTENDS McpServer, TLAPS

-----------------------------------------------------------------------------
\* That a call in flight has a request is what types the fields the handlers
\* read from it.
RequestInv == \A c \in Clients : InFlight(c) => req[c] \in Requests

Types == TypeOK /\ RequestInv

-----------------------------------------------------------------------------
\* What each of the actors leaves alone.

ClientStep(c) == \/ \E r \in Requests : Call(c, r)
                 \/ Handler(c) \/ CallLock(c)
                 \/ ExecuteReturn(c) \/ ExecuteCancel(c)
HealthStep    == TickerFires \/ HealthCheck
MainStep      == GatewayFails \/ Signal \/ Shutdown
ToolStep      == \E t \in Tools : Hang(t) \/ Recover(t) \/ Die(t)

LEMMA Actors ==
  ASSUME [Next]_vars
  PROVE  (\E c \in Clients : ClientStep(c)) \/ HealthStep \/ MainStep \/ ToolStep \/ UNCHANGED vars
BY DEF Next, Exited, ClientStep, HealthStep, MainStep, ToolStep

LEMMA ClientsLeave ==
  ASSUME NEW c \in Clients, ClientStep(c), Types
  PROVE  /\ UNCHANGED <<proc, status, health, tick, gateway, mainpc, toKill, unkilled>>
         /\ \A d \in Clients \ {c} : pc'[d] = pc[d]
<1>0. pc = [d \in Clients |-> pc[d]]
  BY DEF Types, TypeOK
<1> USE <1>0 DEF mainVars, Goto, Return
<1>1. CASE \E r \in Requests : Call(c, r)
  BY <1>1 DEF Call
<1>2. CASE Forward(c) \/ CallRLock(c) \/ Enter(c) \/ CallLock(c)
  BY <1>2 DEF Forward, CallRLock, Enter, CallLock
<1>3. CASE ListTools(c) \/ ProvideHumanInput(c) \/ GetHumanInput(c)
  BY <1>3 DEF ListTools, ProvideHumanInput, GetHumanInput
<1>4. CASE ExecuteLookup(c) \/ ExecuteCheck(c) \/ ExecuteRun(c)
  BY <1>4 DEF ExecuteLookup, ExecuteCheck, ExecuteRun
<1>5. CASE ExecuteReturn(c) \/ ExecuteCancel(c)
  BY <1>5 DEF ExecuteReturn, ExecuteCancel
<1> QED
  BY <1>1, <1>2, <1>3, <1>4, <1>5 DEF ClientStep, Handler

LEMMA HealthLeaves ==
  ASSUME HealthStep
  PROVE  UNCHANGED <<proc, humanInputs, req, pc, reply, known, gateway, mainpc, toKill, unkilled>>
<1> USE DEF mainVars, clientVars
<1>1. CASE TickerFires \/ HealthTick \/ HealthStop \/ HealthLock \/ HealthEnter
  BY <1>1 DEF TickerFires, HealthTick, HealthStop, HealthLock, HealthEnter
<1>2. CASE HealthAnswer \/ HealthRecord \/ HealthUnlock
  BY <1>2 DEF HealthAnswer, HealthRecord, HealthUnlock
<1>3. CASE \E t \in Registered : HealthPick(t)
  BY <1>3 DEF HealthPick
<1> QED
  BY <1>1, <1>2, <1>3 DEF HealthStep, HealthCheck

LEMMA MainLeaves ==
  ASSUME MainStep
  PROVE  UNCHANGED <<status, humanInputs, req, pc, reply, known, health, tick>>
<1> USE DEF MainGoto, clientVars
<1>1. CASE GatewayFails \/ Signal \/ HttpDrained \/ HttpDeadline \/ GrpcStopped
  BY <1>1 DEF GatewayFails, Signal, HttpDrained, HttpDeadline, GrpcStopped
<1>2. CASE CleanupLock \/ CleanupEnter \/ CleanupUnlock \/ Exit \/ \E t \in Tools : CleanupKill(t)
  BY <1>2 DEF CleanupLock, CleanupEnter, CleanupUnlock, Exit, CleanupKill
<1> QED
  BY <1>1, <1>2 DEF MainStep, Shutdown

LEMMA ToolsLeave ==
  ASSUME ToolStep
  PROVE  UNCHANGED <<mu, status, humanInputs, req, pc, reply, known, health, tick,
                     gateway, mainpc, toKill, unkilled>>
BY DEF ToolStep, Hang, Recover, Die, Become, mainVars, clientVars

-----------------------------------------------------------------------------
\* Type correctness.

\* Every action keeps every variable in its type.
LEMMA TypesInvariant == Spec => []Types
<1>1. Init => Types
  <2> SUFFICES ASSUME Init PROVE Types
    OBVIOUS
  <2>1. mu \in Mutex!MutexType
    BY DEF Init, Mutex!MutexType, Mutex!Unlocked
  <2>2. proc \in [Tools -> {"serving", "hung", "dead"}]
    BY DEF Init
  <2> QED
    BY <2>1, <2>2 DEF Init, Types, TypeOK, RequestInv, InFlight
<1>2. Types /\ [Next]_vars => Types'
  <2> SUFFICES ASSUME Types, [Next]_vars PROVE Types'
    OBVIOUS
  <2> USE DEF Types, TypeOK, RequestInv, InFlight, Handled, Goto, Return, Reply, Replies, Inside,
              clientVars, mainVars, MainGoto
  <2>1. ASSUME NEW c \in Clients, NEW r \in Requests, Call(c, r) PROVE Types'
    BY <2>1 DEF Call
  <2>2. ASSUME NEW c \in Clients, Forward(c) PROVE Types'
    BY <2>2 DEF Forward
  <2>3. ASSUME NEW c \in Clients, CallRLock(c) PROVE Types'
    BY <2>3 DEF CallRLock, Mutex!RLock, Mutex!MutexType, Goroutines
  <2>4. ASSUME NEW c \in Clients, CallLock(c) PROVE Types'
    BY <2>4 DEF CallLock, Mutex!Lock, Mutex!MutexType, Goroutines
  <2>5. ASSUME NEW c \in Clients, Enter(c) PROVE Types'
    BY <2>5 DEF Enter
  <2>6. ASSUME NEW c \in Clients, ListTools(c) PROVE Types'
    BY <2>6 DEF ListTools, Mutex!RUnlock, Mutex!MutexType
  <2>7. ASSUME NEW c \in Clients, ProvideHumanInput(c) PROVE Types'
    BY <2>7 DEF ProvideHumanInput, Requests, Mutex!Unlock, Mutex!MutexType
  <2>8. ASSUME NEW c \in Clients, GetHumanInput(c) PROVE Types'
    <3>1. req[c].op = "GetHumanInput" /\ req[c] \in Requests
      BY <2>8 DEF GetHumanInput
    <3>2. req[c].task \in Tasks \cup {NoTask}
      BY <3>1 DEF Requests
    <3> DEFINE v == IF req[c].task = NoTask THEN Reply("InvalidArgument")
                    ELSE IF humanInputs[req[c].task] = NoResponse THEN Reply("pending")
                    ELSE [kind |-> "completed", response |-> humanInputs[req[c].task]]
    <3>3. v \in Replies /\ Return(c, v)
      <4>1. Return(c, v)
        BY <2>8 DEF GetHumanInput
      <4>2. CASE req[c].task = NoTask \/ humanInputs[req[c].task] = NoResponse
        BY <4>1, <4>2
      <4>3. CASE ~(req[c].task = NoTask \/ humanInputs[req[c].task] = NoResponse)
        <5>1. humanInputs[req[c].task] \in Responses
          BY <3>2, <4>3
        <5> QED
          BY <4>1, <4>3, <5>1
      <4> QED
        BY <4>2, <4>3
    <3> HIDE DEF v
    <3>4. mu' \in Mutex!MutexType
      BY <2>8 DEF GetHumanInput, Mutex!RUnlock, Mutex!MutexType
    <3> QED
      BY <2>8, <3>3, <3>4 DEF GetHumanInput
  <2>9. ASSUME NEW c \in Clients, ExecuteLookup(c) PROVE Types'
    BY SMTT(30), <2>9 DEF ExecuteLookup, Mutex!RUnlock, Mutex!MutexType
  <2>10. ASSUME NEW c \in Clients, ExecuteCheck(c) \/ ExecuteRun(c) PROVE Types'
    BY <2>10 DEF ExecuteCheck, ExecuteRun
  <2>11. ASSUME NEW c \in Clients, ExecuteReturn(c) PROVE Types'
    BY <2>11 DEF ExecuteReturn
  <2>12. ASSUME NEW c \in Clients, ExecuteCancel(c) PROVE Types'
    BY <2>12 DEF ExecuteCancel
  <2>13. CASE TickerFires
    BY <2>13 DEF TickerFires
  <2>14. CASE HealthTick
    BY <2>14 DEF HealthTick
  <2>15. CASE HealthStop
    BY <2>15 DEF HealthStop
  <2>16. CASE HealthLock
    BY <2>16 DEF HealthLock, Mutex!Lock, Mutex!MutexType, Goroutines
  <2>17. CASE HealthEnter
    BY <2>17 DEF HealthEnter
  <2>18. ASSUME NEW t \in Registered, HealthPick(t) PROVE Types'
    BY <2>18 DEF HealthPick
  <2>19. CASE HealthAnswer
    BY <2>19 DEF HealthAnswer
  <2>20. CASE HealthRecord
    BY <2>20 DEF HealthRecord
  <2>21. CASE HealthUnlock
    BY <2>21 DEF HealthUnlock, Mutex!Unlock, Mutex!MutexType
  <2>22. CASE GatewayFails \/ Signal \/ HttpDrained \/ HttpDeadline \/ GrpcStopped
              \/ CleanupEnter \/ Exit
    BY <2>22 DEF GatewayFails, Signal, HttpDrained, HttpDeadline, GrpcStopped, CleanupEnter, Exit
  <2>23. CASE CleanupLock
    BY <2>23 DEF CleanupLock, Mutex!Lock, Mutex!MutexType, Goroutines
  <2>24. CASE CleanupUnlock
    BY <2>24 DEF CleanupUnlock, Mutex!Unlock, Mutex!MutexType
  <2>25. ASSUME NEW t \in Tools, CleanupKill(t) PROVE Types'
    BY <2>25 DEF CleanupKill
  <2>26. ASSUME NEW t \in Tools, Hang(t) \/ Recover(t) \/ Die(t) PROVE Types'
    BY <2>26 DEF Hang, Recover, Die, Become
  <2>27. CASE UNCHANGED vars
    BY <2>27 DEF vars
  <2> QED
    BY <2>1, <2>2, <2>3, <2>4, <2>5, <2>6, <2>7, <2>8, <2>9, <2>10, <2>11, <2>12, <2>13,
       <2>14, <2>15, <2>16, <2>17, <2>18, <2>19, <2>20, <2>21, <2>22, <2>23, <2>24, <2>26,
       <2>27, <2>25
    DEF Next, Handler, HealthCheck, Shutdown, Exited
<1> QED
  BY <1>1, <1>2, PTL DEF Spec

\* Every variable has its type in every reachable state.
THEOREM TypeCorrect == Spec => []TypeOK
  BY TypesInvariant, PTL DEF Types

-----------------------------------------------------------------------------
\* Mutual exclusion.  LockInv ties the mutex to the program counters: who is
\* between Lock and Unlock owns it, who is between RLock and RUnlock reads or
\* is queued, a writer goes in only when no reader is left, and RLock admits
\* nobody while there is an owner.

ReaderAt(c) == pc[c] \in {"locking", "inside"} /\ ~Writes(c)
WriterAt(g) ==
  \/ g = HealthLoop /\ health.pc \in {"locking", "round", "checking", "answered"}
  \/ g = Main /\ mainpc \in {"locking", "killing"}
  \/ g \in Clients /\ pc[g] \in {"locking", "inside"} /\ Writes(g)

LockInv ==
  /\ \A c \in Clients : ReaderAt(c) <=> c \in mu.readers \cup mu.waiting
  /\ \A c \in Clients : ReaderInside(c) => c \in mu.readers
  /\ \A g \in Goroutines : WriterAt(g) <=> mu.owner = g
  /\ \A g \in Goroutines : WriterInside(g) => mu.readers = {}
  /\ mu.readers \cup mu.waiting \subseteq Clients
  /\ mu.readers \cap mu.waiting = {}
  /\ mu.owner = Nobody => mu.waiting = {}

\* The mutex is where the program counters say it is.
LEMMA LockInvariant == Spec => []LockInv
<1>1. Init => LockInv
  BY NamesAssumption
     DEF Init, LockInv, ReaderAt, ReaderInside, WriterAt, WriterInside, Mutex!Unlocked, Goroutines
<1>2. Types /\ LockInv /\ [Next]_vars => LockInv'
  <2> SUFFICES ASSUME Types, LockInv, [Next]_vars PROVE LockInv'
    OBVIOUS
  <2> USE NamesAssumption
      DEF Types, TypeOK, LockInv, ReaderAt, ReaderInside, WriterAt, WriterInside, Writes,
          Goroutines, Mutex!MutexType, Inside, Goto, Return, clientVars, mainVars, MainGoto
  <2>0. UNCHANGED <<mu, req, pc, health, mainpc>> => LockInv'
    OBVIOUS
  \* A reader goes out, and a handler that holds nothing moves on.
  <2>a. ASSUME NEW c \in Clients, NEW l \in {"idle", "looked"},
               pc[c] = "inside", ~Writes(c), pc' = [pc EXCEPT ![c] = l],
               Mutex!RUnlock(c), UNCHANGED <<req, health, mainpc>>
        PROVE  LockInv'
    <3>1. /\ mu'.owner = mu.owner /\ mu'.readers = mu.readers \ {c} /\ mu'.waiting = mu.waiting
          /\ c \notin mu.waiting
      BY <2>a DEF Mutex!RUnlock
    <3>2. \A d \in Clients : ReaderAt(d)' <=> ReaderAt(d) /\ d # c
      BY <2>a
    <3>3. \A d \in Clients : ReaderInside(d)' => ReaderInside(d) /\ d # c
      BY <2>a
    <3>4. \A g \in Goroutines : WriterAt(g)' <=> WriterAt(g)
      BY <2>a
    <3>5. \A g \in Goroutines : WriterInside(g)' => WriterInside(g)
      BY <2>a
    <3> QED
      BY <3>1, <3>2, <3>3, <3>4, <3>5
  <2>b. ASSUME NEW c \in Clients, NEW l \in {"idle", "checked", "running"},
               pc[c] \in {"looked", "checked", "running"}, pc' = [pc EXCEPT ![c] = l],
               UNCHANGED <<mu, req, health, mainpc>>
        PROVE  LockInv'
    <3>1. \A d \in Clients : (ReaderAt(d)' <=> ReaderAt(d)) /\ (ReaderInside(d)' <=> ReaderInside(d))
      BY <2>b
    <3>2. \A g \in Goroutines : (WriterAt(g)' <=> WriterAt(g)) /\ (WriterInside(g)' <=> WriterInside(g))
      BY <2>b
    <3> QED
      BY <2>b, <3>1, <3>2
  <2>1. ASSUME NEW c \in Clients, NEW r \in Requests, Call(c, r) PROVE LockInv'
    BY SMTT(30), <2>1 DEF Call, InFlight
  <2>2. ASSUME NEW c \in Clients, Forward(c) PROVE LockInv'
    BY SMTT(30), <2>2 DEF Forward
  <2>3. ASSUME NEW c \in Clients, CallRLock(c) PROVE LockInv'
    BY SMTT(30), <2>3 DEF CallRLock, Mutex!RLock
  <2>4. ASSUME NEW c \in Clients, CallLock(c) PROVE LockInv'
    <3>1. /\ mu.owner = Nobody /\ mu' = [mu EXCEPT !.owner = c]
          /\ pc[c] = "start" /\ Writes(c) /\ pc' = [pc EXCEPT ![c] = "locking"]
          /\ UNCHANGED <<req, health, mainpc>>
      BY <2>4 DEF CallLock, Mutex!Lock
    <3>2. /\ mu'.owner = c /\ mu'.readers = mu.readers /\ mu'.waiting = mu.waiting
          /\ mu'.readers \cup mu'.waiting \subseteq Clients
          /\ mu'.readers \cap mu'.waiting = {}
      BY <3>1
    <3>3. \A d \in Clients : ReaderAt(d)' <=> ReaderAt(d)
      BY <3>1
    <3>4. \A d \in Clients : ReaderInside(d)' <=> ReaderInside(d)
      BY <3>1
    <3>5. \A g \in Goroutines : WriterAt(g)' <=> g = c
      BY SMTT(30), <3>1
    <3>6. \A g \in Goroutines : WriterInside(g)' => WriterInside(g)
      BY <3>1
    <3> QED
      BY SMTT(30), <3>2, <3>3, <3>4, <3>5, <3>6
  <2>5. ASSUME NEW c \in Clients, Enter(c) PROVE LockInv'
    BY SMTT(30), <2>5 DEF Enter, Mutex!ReadHeld, Mutex!WriteHeld
  <2>6. ASSUME NEW c \in Clients, ListTools(c) PROVE LockInv'
    BY <2>a, <2>6 DEF ListTools
  <2>7. ASSUME NEW c \in Clients, ProvideHumanInput(c) PROVE LockInv'
    <3>1. /\ mu' = [owner |-> Nobody, readers |-> mu.waiting, waiting |-> {}]
          /\ pc[c] = "inside" /\ Writes(c) /\ pc' = [pc EXCEPT ![c] = "idle"]
          /\ UNCHANGED <<req, health, mainpc>>
      BY <2>7 DEF ProvideHumanInput, Mutex!Unlock
    <3>2. mu'.owner = Nobody /\ mu'.readers = mu.waiting /\ mu'.waiting = {}
      BY <3>1
    <3>3. mu.readers = {} /\ mu.owner = c
      BY <3>1
    <3>4. \A d \in Clients : ReaderAt(d)' <=> ReaderAt(d)
      BY <3>1
    <3>5. \A d \in Clients : ReaderInside(d)' => ReaderAt(d)
      BY <3>1
    <3>6. \A g \in Goroutines : WriterAt(g)' <=> WriterAt(g) /\ g # c
      BY <3>1
    <3>7. \A g \in Goroutines : ~WriterAt(g)'
      BY <3>3, <3>6
    <3>8. \A g \in Goroutines : ~WriterInside(g)'
      BY <3>7
    <3>9. mu.readers \cup mu.waiting = mu'.readers \cup mu'.waiting
      BY <3>2, <3>3
    <3>10. \A d \in Clients : ReaderAt(d)' <=> d \in mu'.readers \cup mu'.waiting
      BY <3>4, <3>9
    <3>11. \A d \in Clients : ReaderInside(d)' => d \in mu'.readers
      BY <3>2, <3>3, <3>5
    <3>12. \A g \in Goroutines : WriterAt(g)' <=> mu'.owner = g
      BY <3>2, <3>7
    <3> QED
      BY <3>2, <3>8, <3>9, <3>10, <3>11, <3>12
  <2>8. ASSUME NEW c \in Clients, GetHumanInput(c) PROVE LockInv'
    BY <2>a, <2>8 DEF GetHumanInput
  <2>9. ASSUME NEW c \in Clients, ExecuteLookup(c) PROVE LockInv'
    BY <2>a, <2>9 DEF ExecuteLookup
  <2>10. ASSUME NEW c \in Clients, ExecuteCheck(c) \/ ExecuteRun(c) PROVE LockInv'
    BY <2>b, <2>10 DEF ExecuteCheck, ExecuteRun
  <2>11. ASSUME NEW c \in Clients, ExecuteReturn(c) PROVE LockInv'
    BY <2>b, <2>11 DEF ExecuteReturn
  <2>12. ASSUME NEW c \in Clients, ExecuteCancel(c) PROVE LockInv'
    BY <2>b, <2>12 DEF ExecuteCancel
  <2>13. CASE TickerFires
    BY <2>0, <2>13 DEF TickerFires
  <2>14. CASE HealthTick
    BY <2>14 DEF HealthTick
  <2>15. CASE HealthStop
    BY <2>15 DEF HealthStop
  <2>16. CASE HealthLock
    BY <2>16 DEF HealthLock, Mutex!Lock
  <2>17. CASE HealthEnter
    BY <2>17 DEF HealthEnter, Mutex!WriteHeld
  <2>18. ASSUME NEW t \in Registered, HealthPick(t) PROVE LockInv'
    BY <2>18 DEF HealthPick
  <2>19. CASE HealthAnswer
    BY <2>19 DEF HealthAnswer
  <2>20. CASE HealthRecord
    BY <2>20 DEF HealthRecord
  <2>21. CASE HealthUnlock
    BY SMTT(30), <2>21 DEF HealthUnlock, Mutex!Unlock
  <2>22. CASE Signal \/ HttpDrained \/ HttpDeadline \/ GrpcStopped \/ Exit
    BY SMTT(30), <2>22 DEF Signal, HttpDrained, HttpDeadline, GrpcStopped, Exit
  <2>23. CASE CleanupLock
    BY <2>23 DEF CleanupLock, Mutex!Lock
  <2>24. CASE CleanupEnter
    BY SMTT(30), <2>24 DEF CleanupEnter, Mutex!WriteHeld
  <2>25. CASE GatewayFails \/ \E t \in Tools : CleanupKill(t)
    BY <2>0, <2>25 DEF GatewayFails, CleanupKill
  <2>26. CASE CleanupUnlock
    <3>1. /\ mu' = [owner |-> Nobody, readers |-> mu.waiting, waiting |-> {}]
          /\ mainpc = "killing" /\ mainpc' = "wait"
          /\ UNCHANGED <<pc, req, health>>
      BY <2>26 DEF CleanupUnlock, Mutex!Unlock
    <3>2. mu'.owner = Nobody /\ mu'.readers = mu.waiting /\ mu'.waiting = {}
      BY <3>1
    <3>3. mu.readers = {} /\ mu.owner = Main
      BY <3>1
    <3>4. \A d \in Clients : ReaderAt(d)' <=> ReaderAt(d)
      BY <3>1
    <3>5. \A d \in Clients : ReaderInside(d)' => ReaderAt(d)
      BY <3>1
    <3>6. \A g \in Goroutines : WriterAt(g)' <=> WriterAt(g) /\ g # Main
      BY <3>1
    <3>7. \A g \in Goroutines : ~WriterAt(g)'
      BY <3>3, <3>6
    <3>8. \A g \in Goroutines : ~WriterInside(g)'
      BY <3>7
    <3>9. mu.readers \cup mu.waiting = mu'.readers \cup mu'.waiting
      BY <3>2, <3>3
    <3>10. \A d \in Clients : ReaderAt(d)' <=> d \in mu'.readers \cup mu'.waiting
      BY <3>4, <3>9
    <3>11. \A d \in Clients : ReaderInside(d)' => d \in mu'.readers
      BY <3>2, <3>3, <3>5
    <3>12. \A g \in Goroutines : WriterAt(g)' <=> mu'.owner = g
      BY <3>2, <3>7
    <3> QED
      BY <3>2, <3>8, <3>9, <3>10, <3>11, <3>12
  <2>27. ASSUME NEW t \in Tools, Hang(t) \/ Recover(t) \/ Die(t) PROVE LockInv'
    BY <2>0, <2>27 DEF Hang, Recover, Die, Become
  <2>28. CASE UNCHANGED vars
    BY <2>0, <2>28 DEF vars
  <2> QED
    BY <2>1, <2>2, <2>3, <2>4, <2>5, <2>6, <2>7, <2>8, <2>9, <2>10, <2>11, <2>12, <2>13,
       <2>14, <2>15, <2>16, <2>17, <2>18, <2>19, <2>20, <2>21, <2>22, <2>23, <2>24, <2>26,
       <2>27, <2>28, <2>25
    DEF Next, Handler, HealthCheck, Shutdown, Exited
<1> QED
  BY TypesInvariant, <1>1, <1>2, PTL DEF Spec

\* The sections of a writer exclude one another and every reader.
THEOREM MutualExclusion == Spec => []CriticalSectionsExclusive
<1>1. LockInv => CriticalSectionsExclusive
  BY DEF LockInv, CriticalSectionsExclusive, ReaderAt, WriterAt, ReaderInside, WriterInside
<1> QED
  BY LockInvariant, <1>1, PTL

\* Whoever waits at server.mu waits, in the end, for somebody who has been let
\* in: the owner when no reader is left, else one of the readers before it.
THEOREM NoDeadlockAtMu == Spec => []LockWaitsEnd
<1>1. Types /\ LockInv => LockWaitsEnd
  <2> SUFFICES ASSUME Types, LockInv, NEW g \in Goroutines, BlockedAtMu(g)
               PROVE  \E h \in Goroutines : PassesMu(h) /\ ~BlockedAtMu(h)
    BY DEF LockWaitsEnd
  <2> USE NamesAssumption
      DEF BlockedAtMu, PassesMu, ReaderAt, WriterAt, Mutex!ReadHeld, Mutex!WriteHeld
  <2>1. mu.owner \in Goroutines
    <3>1. mu.owner # Nobody
      BY DEF LockInv
    <3> QED
      BY <3>1 DEF Types, TypeOK, Mutex!MutexType
  <2>2. CASE mu.readers = {}
    <3>1. WriterAt(mu.owner)
      BY <2>1 DEF LockInv
    <3>2. PassesMu(mu.owner) /\ ~BlockedAtMu(mu.owner)
      BY <2>2, <3>1 DEF Goroutines
    <3> QED
      BY <2>1, <3>2
  <2>3. CASE mu.readers # {}
    <3>1. PICK c \in Clients : c \in mu.readers
      BY <2>3 DEF LockInv
    <3>2. ReaderAt(c)
      BY <3>1 DEF LockInv
    <3>3. PassesMu(c) /\ ~BlockedAtMu(c)
      BY <3>1, <3>2
    <3> QED
      BY <3>3 DEF Goroutines
  <2> QED
    BY <2>2, <2>3
<1> QED
  BY TypesInvariant, LockInvariant, <1>1, PTL

-----------------------------------------------------------------------------
\* Shutdown.

\* What cleanup has come to is dead, or its Kill failed.
SweepInv ==
  /\ mainpc \in {"killing", "wait", "exited"} =>
       \A t \in Tools \ (toKill \cup unkilled) : proc[t] = "dead"
  /\ mainpc \in {"wait", "exited"} => toKill = {}

LEMMA SweepInvariant == Spec => []SweepInv
<1>1. Init => SweepInv
  BY DEF Init, SweepInv
<1>2. Types /\ SweepInv /\ [Next]_vars => SweepInv'
  <2> SUFFICES ASSUME Types, SweepInv, [Next]_vars PROVE SweepInv'
    OBVIOUS
  <2> USE DEF Types, TypeOK, SweepInv, MainGoto, mainVars
  <2>1. CASE UNCHANGED <<proc, mainpc, toKill, unkilled>>
    BY <2>1
  <2>2. CASE GatewayFails \/ Signal \/ HttpDrained \/ HttpDeadline \/ GrpcStopped \/ CleanupLock
    BY <2>2 DEF GatewayFails, Signal, HttpDrained, HttpDeadline, GrpcStopped, CleanupLock
  <2>3. CASE CleanupEnter
    BY <2>3 DEF CleanupEnter
  <2>4. ASSUME NEW t \in Tools, CleanupKill(t) PROVE SweepInv'
    BY <2>4 DEF CleanupKill
  <2>5. CASE CleanupUnlock \/ Exit
    BY <2>5 DEF CleanupUnlock, Exit
  <2>6. CASE ToolStep
    BY <2>6 DEF ToolStep, Hang, Recover, Die, Become
  <2>7. CASE (\E c \in Clients : ClientStep(c)) \/ HealthStep
    BY <2>1, <2>7, ClientsLeave, HealthLeaves
  <2>8. CASE UNCHANGED vars
    BY <2>1, <2>8 DEF vars
  <2> QED
    BY <2>2, <2>3, <2>4, <2>5, <2>6, <2>7, <2>8, Actors DEF MainStep, Shutdown
<1> QED
  BY TypesInvariant, <1>1, <1>2, PTL DEF Spec

\* The server leaves no process behind that it could kill: each one that was
\* started gets a Kill of its own, and nothing revives a process.
THEOREM NoProcessSurvives == Spec => []NoToolSurvives
<1>1. SweepInv => NoToolSurvives
  BY ZenonT(30) DEF SweepInv, NoToolSurvives
<1> QED
  BY SweepInvariant, <1>1, PTL

\* Once GracefulStop has returned the gRPC server is closed for good, so no
\* handler starts again.
THEOREM GracefulShutdown == Spec => []CleanupAfterDrain
<1>1. Init => CleanupAfterDrain
  BY DEF Init, CleanupAfterDrain
<1>2. Types /\ CleanupAfterDrain /\ [Next]_vars => CleanupAfterDrain'
  <2> SUFFICES ASSUME Types, CleanupAfterDrain, [Next]_vars PROVE CleanupAfterDrain'
    OBVIOUS
  <2> USE DEF Types, TypeOK, CleanupAfterDrain, Handled, InFlight, Goto, Return,
              clientVars, mainVars, MainGoto
  <2>1. ASSUME NEW c \in Clients, ClientStep(c) PROVE CleanupAfterDrain'
    <3>1. UNCHANGED mainpc /\ \A d \in Clients \ {c} : pc'[d] = pc[d]
      BY <2>1, ClientsLeave
    <3>2. ASSUME ~Handled(c), ~GrpcOpen PROVE ~Handled(c)'
      <4>1. CASE \E r \in Requests : Call(c, r)
        BY <3>2, <4>1 DEF Call, Accepting, GrpcOpen
      <4>2. CASE Forward(c)
        BY <3>2, <4>2 DEF Forward
      <4>3. CASE ~(Forward(c) \/ \E r \in Requests : Call(c, r))
        BY <2>1, <3>2, <4>3
           DEF ClientStep, Handler, CallRLock, CallLock, Enter, ListTools, ProvideHumanInput,
               GetHumanInput, ExecuteLookup, ExecuteCheck, ExecuteRun, ExecuteReturn,
               ExecuteCancel, Inside
      <4> QED
        BY <4>1, <4>2, <4>3
    <3> QED
      BY <3>1, <3>2 DEF GrpcOpen
  <2>2. CASE UNCHANGED <<pc, mainpc>>
    BY <2>2
  <2>3. CASE MainStep
    <3>1. UNCHANGED pc
      BY <2>3, MainLeaves
    <3> QED
      BY <2>3, <3>1 DEF MainStep, GatewayFails, Signal, Shutdown, HttpDrained, HttpDeadline,
                GrpcStopped, CleanupLock, CleanupEnter, CleanupKill, CleanupUnlock, Exit
  <2>4. CASE HealthStep \/ ToolStep
    BY <2>2, <2>4, HealthLeaves, ToolsLeave
  <2>5. CASE UNCHANGED vars
    BY <2>2, <2>5 DEF vars
  <2> QED
    BY <2>1, <2>3, <2>4, <2>5, Actors
<1> QED
  BY TypesInvariant, <1>1, <1>2, PTL DEF Spec

-----------------------------------------------------------------------------
\* Dead tools.  The answer of a health check exists only between Check and the
\* assignment of the status: no older answer is carried into the next
\* check, and none is recorded that was not given.

HealthInv == health.answer # "none" <=> health.pc = "answered"

LEMMA HealthInvariant == Spec => []HealthInv
<1>1. Init => HealthInv
  BY DEF Init, HealthInv
<1>2. Types /\ HealthInv /\ [Next]_vars => HealthInv'
  <2> SUFFICES ASSUME Types, HealthInv, [Next]_vars PROVE HealthInv'
    OBVIOUS
  <2> USE DEF Types, TypeOK, HealthInv
  <2>1. CASE UNCHANGED health
    BY <2>1
  <2>2. CASE HealthCheck
    BY ZenonT(30), <2>2 DEF HealthCheck, HealthTick, HealthStop, HealthLock, HealthEnter,
                HealthPick, HealthAnswer, HealthRecord, HealthUnlock
  <2>3. UNCHANGED health \/ HealthCheck
    BY Actors, ClientsLeave, MainLeaves, ToolsLeave DEF HealthStep, TickerFires, vars
  <2> QED
    BY <2>1, <2>2, <2>3
<1> QED
  BY TypesInvariant, <1>1, <1>2, PTL DEF Spec

\* What the server knows it does not forget: no step revives the tool or
\* records an older answer of it.
LEMMA KnowledgeLasts ==
  ASSUME Types, HealthInv, [Next]_vars, NEW t \in Registered, KnownDead(t)
  PROVE  KnownDead(t)'
<1> USE DEF Types, TypeOK, KnownDead, MainGoto
<1>1. CASE UNCHANGED <<proc, status, health>>
  BY <1>1
<1>2. CASE HealthCheck
  <2>1. UNCHANGED proc
    BY <1>2, HealthLeaves DEF HealthStep
  <2>2. CASE \E u \in Registered : HealthPick(u)
    BY <2>1, <2>2 DEF HealthInv, HealthPick
  <2>3. CASE HealthAnswer
    BY <2>1, <2>3 DEF HealthAnswer
  <2>4. CASE HealthRecord
    <3>1. status'[t] = "NOT_SERVING"
      BY <2>4, RegisteredAssumption DEF HealthInv, HealthRecord
    <3>2. health'.answer = "none"
      BY <2>4 DEF HealthRecord
    <3> QED
      BY <2>1, <3>1, <3>2
  <2>5. CASE HealthTick \/ HealthStop \/ HealthLock \/ HealthEnter \/ HealthUnlock
    BY <2>1, <2>5 DEF HealthTick, HealthStop, HealthLock, HealthEnter, HealthUnlock
  <2> QED
    BY <1>2, <2>2, <2>3, <2>4, <2>5 DEF HealthCheck
<1>3. CASE \E u \in Tools : CleanupKill(u)
  BY <1>3, RegisteredAssumption DEF CleanupKill
<1>4. CASE ToolStep
  BY <1>4, RegisteredAssumption DEF ToolStep, Hang, Recover, Die, Become
<1>5. CASE GatewayFails \/ Signal \/ HttpDrained \/ HttpDeadline \/ GrpcStopped
           \/ CleanupLock \/ CleanupEnter \/ CleanupUnlock \/ Exit
  BY <1>1, <1>5 DEF GatewayFails, Signal, HttpDrained, HttpDeadline, GrpcStopped,
                    CleanupLock, CleanupEnter, CleanupUnlock, Exit
<1>6. CASE (\E c \in Clients : ClientStep(c)) \/ TickerFires \/ UNCHANGED vars
  BY <1>1, <1>6, ClientsLeave DEF TickerFires, vars
<1> QED
  BY <1>2, <1>3, <1>4, <1>5, <1>6, Actors DEF HealthStep, MainStep, Shutdown

\* What was known when a call began is known still, and the call has neither
\* been sent to such a tool nor been shown it.
KnownInv ==
  \A c \in Clients : \A t \in known[c] :
    /\ KnownDead(t)
    /\ pc[c] \in {"checked", "running"} => req[c].tool # t
    /\ reply[c] # NoReply /\ reply[c].kind = "tools" => t \notin reply[c].tools

\* A call that begins when the server knows a tool to be dead is not run on it
\* and does not list it.
THEOREM DeadToolsStayDelisted == Spec => []DeadToolStaysDelisted
<1>1. Init => KnownInv
  BY DEF Init, KnownInv
<1>2. Types /\ HealthInv /\ KnownInv /\ [Next]_vars => KnownInv'
  <2> SUFFICES ASSUME Types, HealthInv, KnownInv, [Next]_vars,
                      NEW c \in Clients, NEW t \in known'[c]
               PROVE  /\ KnownDead(t)'
                      /\ pc'[c] \in {"checked", "running"} => req'[c].tool # t
                      /\ reply'[c] # NoReply /\ reply'[c].kind = "tools" => t \notin reply'[c].tools
    BY DEF KnownInv
  <2> USE DEF Types, TypeOK
  <2>1. CASE \E r \in Requests : Call(c, r)
    <3>1. t \in Registered /\ KnownDead(t)
      BY <2>1 DEF Call
    <3>2. pc'[c] \in {"gateway", "start"} /\ reply'[c] = NoReply
      BY <2>1 DEF Call, Goto
    <3> QED
      BY <3>1, <3>2, KnowledgeLasts
  <2>2. CASE t \in known[c] /\ UNCHANGED <<pc[c], req[c], reply[c]>>
    BY <2>2, KnowledgeLasts DEF KnownInv
  <2>3. ASSUME t \in known[c], UNCHANGED req,
               Handler(c) \/ CallLock(c) \/ ExecuteReturn(c) \/ ExecuteCancel(c)
        PROVE  /\ pc'[c] \in {"checked", "running"} => req'[c].tool # t
               /\ reply'[c] # NoReply /\ reply'[c].kind = "tools" => t \notin reply'[c].tools
    <3> USE <2>3 DEF Goto, Return, Reply
    <3>1. t \in Registered /\ KnownDead(t)
      BY DEF KnownInv
    <3>2. CASE Forward(c)
      BY <3>2 DEF Forward, KnownInv
    <3>3. CASE CallRLock(c) \/ CallLock(c) \/ Enter(c) \/ ExecuteLookup(c)
      BY <3>3 DEF CallRLock, CallLock, Enter, ExecuteLookup, KnownInv
    <3>4. CASE ListTools(c)
      BY <3>1, <3>4 DEF ListTools, KnownDead
    <3>5. CASE ProvideHumanInput(c) \/ GetHumanInput(c)
      BY <3>5 DEF ProvideHumanInput, GetHumanInput
    <3>6. CASE ExecuteCheck(c)
      BY <3>1, <3>6 DEF ExecuteCheck, Available, KnownDead, KnownInv
    <3>7. CASE ExecuteRun(c)
      BY <3>7 DEF ExecuteRun, KnownInv
    <3>8. CASE ExecuteReturn(c) \/ ExecuteCancel(c)
      BY <3>8 DEF ExecuteReturn, ExecuteCancel
    <3> QED
      BY <3>2, <3>3, <3>4, <3>5, <3>6, <3>7, <3>8 DEF Handler
  <2>4. ASSUME ~\E r \in Requests : Call(c, r)
        PROVE  /\ t \in known[c]
               /\ \/ UNCHANGED <<pc[c], req[c], reply[c]>>
                  \/ /\ UNCHANGED req
                     /\ Handler(c) \/ CallLock(c) \/ ExecuteReturn(c) \/ ExecuteCancel(c)
    <3>1. ASSUME NEW d \in Clients, NEW r \in Requests, Call(d, r)
          PROVE  t \in known[c] /\ UNCHANGED <<pc[c], req[c], reply[c]>>
      BY <2>4, <3>1 DEF Call, Goto
    <3>2. ASSUME NEW d \in Clients,
                 Handler(d) \/ CallLock(d) \/ ExecuteReturn(d) \/ ExecuteCancel(d)
          PROVE  /\ UNCHANGED <<known, req>>
                 /\ d # c => UNCHANGED <<pc[c], reply[c]>>
      BY <3>2 DEF Handler, Forward, CallRLock, CallLock, Enter, ListTools, ProvideHumanInput,
                  GetHumanInput, ExecuteLookup, ExecuteCheck, ExecuteRun, ExecuteReturn,
                  ExecuteCancel, Goto, Return
    <3>3. CASE UNCHANGED clientVars
      BY <3>3 DEF clientVars
    <3>4. (\E d \in Clients : ClientStep(d)) \/ UNCHANGED clientVars
      BY Actors, HealthLeaves, MainLeaves, ToolsLeave DEF vars, clientVars
    <3> QED
      BY <3>1, <3>2, <3>3, <3>4 DEF ClientStep
  <2>5. t \in known[c] => KnownDead(t)'
    BY KnowledgeLasts DEF KnownInv
  <2> QED
    BY <2>1, <2>2, <2>3, <2>4, <2>5
<1>3. KnownInv => DeadToolStaysDelisted
  BY DEF KnownInv, DeadToolStaysDelisted, KnownDead
<1> QED
  BY TypesInvariant, HealthInvariant, <1>1, <1>2, <1>3, PTL DEF Spec

-----------------------------------------------------------------------------
\* The refinement.  A call of a human operation begins where the client makes
\* it and takes effect where its handler holds the mutex, or where the gateway
\* is refused; every other step leaves the register and its calls alone.

\* The calls in flight and the results of HumanInputStore.
StoreCall   == [c \in Clients |-> IF HumanCall(c) /\ InFlight(c) THEN req[c] ELSE NoRequest]
StoreResult == [c \in Clients |-> IF HumanCall(c) THEN reply[c] ELSE NoReply]

StoreKept == UNCHANGED <<humanInputs, StoreCall, StoreResult>>

\* A step that neither starts nor ends a call of a human operation and stores
\* nothing is invisible to the store.
LEMMA StoreStutters ==
  ASSUME Types, UNCHANGED <<humanInputs, req>>,
         \A c \in Clients : HumanCall(c) => (InFlight(c)' <=> InFlight(c)) /\ reply'[c] = reply[c]
  PROVE  StoreKept
  BY DEF StoreKept, StoreCall, StoreResult, HumanCall

\* A handler past the lookup executes a tool.
Executing == \A c \in Clients : pc[c] \in {"looked", "checked", "running"} => req[c].op = "ExecuteTool"

LEMMA ExecutingInvariant == Spec => []Executing
<1>1. Init => Executing
  BY DEF Init, Executing
<1>2. Types /\ Executing /\ [Next]_vars => Executing'
  <2> SUFFICES ASSUME Types, Executing, [Next]_vars PROVE Executing'
    OBVIOUS
  <2> USE DEF Types, TypeOK, Executing, Goto, Return, clientVars, MainGoto
  <2>1. ASSUME NEW c \in Clients, NEW r \in Requests, Call(c, r) PROVE Executing'
    BY <2>1 DEF Call
  <2>2. ASSUME NEW c \in Clients, Handler(c) \/ CallLock(c) \/ ExecuteReturn(c) \/ ExecuteCancel(c)
        PROVE  Executing'
    BY <2>2 DEF Handler, Forward, CallRLock, CallLock, Enter, ListTools, ProvideHumanInput,
                GetHumanInput, ExecuteLookup, ExecuteCheck, ExecuteRun, ExecuteReturn, ExecuteCancel, Inside
  <2>3. CASE UNCHANGED <<req, pc>>
    BY <2>3
  <2> QED
    BY <2>1, <2>2, <2>3, Actors, HealthLeaves, MainLeaves, ToolsLeave DEF ClientStep, vars
<1> QED
  BY TypesInvariant, <1>1, <1>2, PTL DEF Spec

\* Concurrent calls of ProvideHumanInput and GetHumanInput are those of an
\* atomic register per task, through the whole shutdown.
THEOREM StoreImplemented == Spec => HumanInputsLinearizable
<1>1. Init => Store!Init
  BY DEF Init, Store!Init, HumanCall
<1>2. Types /\ Executing /\ [Next]_vars => [Store!Next]_(Store!vars)
  <2> SUFFICES ASSUME Types, Executing, [Next]_vars PROVE Store!Next \/ StoreKept
    BY DEF StoreKept, StoreCall, StoreResult, Store!vars
  <2> USE DEF Types, TypeOK, clientVars, MainGoto
  <2>1. ASSUME NEW c \in Clients, NEW r \in Requests, Call(c, r) PROVE Store!Next
    <3>1. /\ ~InFlight(c) /\ InFlight(c)'
          /\ req' = [req EXCEPT ![c] = r] /\ reply' = [reply EXCEPT ![c] = NoReply]
          /\ \A d \in Clients \ {c} : InFlight(d)' <=> InFlight(d)
          /\ UNCHANGED humanInputs
      BY <2>1 DEF Call, InFlight, Goto
    <3>2. /\ StoreCall[c] = NoRequest
          /\ StoreCall' = [StoreCall EXCEPT ![c] = IF r.op \in HumanOps THEN r ELSE NoRequest]
      <4>1. req'[c] = r /\ r # NoRequest /\ \A d \in Clients \ {c} : req'[d] = req[d]
        BY <3>1, RequestsAssumption
      <4>2. StoreCall'[c] = IF r.op \in HumanOps THEN r ELSE NoRequest
        BY <3>1, <4>1 DEF StoreCall, HumanCall
      <4>3. \A d \in Clients \ {c} : StoreCall'[d] = StoreCall[d]
        BY <3>1, <4>1 DEF StoreCall, HumanCall
      <4>4. StoreCall[c] = NoRequest
        BY <3>1 DEF StoreCall
      <4>5. StoreCall \in [Clients -> Requests \cup {NoRequest}]
        BY DEF StoreCall
      <4>6. StoreCall' = [d \in Clients |-> StoreCall'[d]]
        BY DEF StoreCall
      <4> HIDE DEF TypeOK
      <4> QED
        BY <4>2, <4>3, <4>4, <4>5, <4>6
    <3>3. StoreResult' = [StoreResult EXCEPT ![c] = NoReply]
      BY <3>1 DEF StoreResult, HumanCall
    <3>4. CASE r.op \in HumanOps
      <4>1. r \in Store!Calls
        BY <3>4 DEF HumanOps, Requests, Store!Calls
      <4>2. Store!Begin(c, r)
        BY <3>1, <3>2, <3>3, <3>4 DEF Store!Begin, StoreCall, StoreResult
      <4> QED
        BY <4>1, <4>2 DEF Store!Next
    <3>5. CASE r.op \notin HumanOps
      <4>1. StoreCall' = StoreCall
        BY <3>2, <3>5 DEF StoreCall
      <4>2. Store!Forget(c)
        BY <3>1, <3>2, <3>3, <4>1 DEF Store!Forget, StoreCall, StoreResult
      <4> QED
        BY <4>2 DEF Store!Next
    <3> QED
      BY <3>4, <3>5
  <2>2. ASSUME NEW c \in Clients, NEW v,
               InFlight(c), HumanCall(c), Return(c, v), UNCHANGED req
        PROVE  /\ StoreCall[c] = req[c] /\ StoreCall[c] # NoRequest
               /\ StoreCall' = [StoreCall EXCEPT ![c] = NoRequest]
               /\ StoreResult' = [StoreResult EXCEPT ![c] = v]
    <3>1. StoreCall[c] = req[c] /\ StoreCall[c] # NoRequest
      BY <2>2 DEF StoreCall, HumanCall
    <3>2. /\ ~InFlight(c)' /\ reply' = [reply EXCEPT ![c] = v]
          /\ \A d \in Clients \ {c} : InFlight(d)' <=> InFlight(d)
      BY <2>2 DEF Return, Goto, InFlight
    <3>3. StoreCall' = [StoreCall EXCEPT ![c] = NoRequest]
      BY <2>2, <3>2 DEF StoreCall, HumanCall
    <3>4. StoreResult' = [StoreResult EXCEPT ![c] = v]
      BY <2>2, <3>2 DEF StoreResult, HumanCall
    <3> QED
      BY <3>1, <3>3, <3>4
  <2>3. ASSUME NEW c \in Clients, Forward(c) PROVE Store!Next \/ StoreKept
    <3>1. CASE GrpcOpen \/ ~HumanCall(c)
      BY <2>3, <3>1, StoreStutters DEF Forward, Goto, Return, InFlight
    <3>2. CASE ~GrpcOpen /\ HumanCall(c)
      <4>1. /\ InFlight(c) /\ Return(c, [kind |-> "Unavailable"])
            /\ UNCHANGED <<req, humanInputs>>
        BY <2>3, <3>2 DEF Forward, InFlight, Reply
      <4>2. Store!Refuse(c)
        BY <2>2, <3>2, <4>1 DEF Store!Refuse, Store!End, StoreCall, StoreResult
      <4> QED
        BY <4>2 DEF Store!Next
    <3> QED
      BY <3>1, <3>2
  <2>4. ASSUME NEW c \in Clients, ProvideHumanInput(c) PROVE Store!Next
    <3>1. InFlight(c) /\ HumanCall(c) /\ req[c].op = "ProvideHumanInput" /\ UNCHANGED req
      BY <2>4, RequestsAssumption
         DEF ProvideHumanInput, Inside, RequestInv, InFlight, HumanCall, HumanOps
    <3>2. req[c].task \in Tasks \cup {NoTask}
      BY <3>1 DEF RequestInv, Requests
    <3>3. CASE req[c].task = NoTask
      <4>1. Return(c, [kind |-> "InvalidArgument"]) /\ UNCHANGED humanInputs
        BY <2>4, <3>3 DEF ProvideHumanInput, Reply
      <4>2. Store!Refuse(c)
        BY <2>2, <3>1, <3>3, <4>1 DEF Store!Refuse, Store!End, StoreCall, StoreResult
      <4> QED
        BY <4>2 DEF Store!Next
    <3>4. CASE req[c].task # NoTask
      <4>1. /\ Return(c, [kind |-> "received"])
            /\ humanInputs' = [humanInputs EXCEPT ![req[c].task] = req[c].response]
        BY <2>4, <3>4 DEF ProvideHumanInput, Reply
      <4>2. Store!Provide(c, req[c].task)
        BY <2>2, <3>1, <4>1 DEF Store!Provide, Store!End, StoreCall, StoreResult
      <4> QED
        BY <3>2, <3>4, <4>2 DEF Store!Next
    <3> QED
      BY <3>3, <3>4
  <2>5. ASSUME NEW c \in Clients, GetHumanInput(c) PROVE Store!Next
    <3>1. /\ InFlight(c) /\ HumanCall(c) /\ req[c].op = "GetHumanInput"
          /\ UNCHANGED <<req, humanInputs>>
      BY <2>5, RequestsAssumption
         DEF GetHumanInput, Inside, RequestInv, InFlight, HumanCall, HumanOps
    <3>2. req[c].task \in Tasks \cup {NoTask}
      BY <3>1 DEF RequestInv, Requests
    <3>3. CASE req[c].task = NoTask
      <4>1. Return(c, [kind |-> "InvalidArgument"])
        BY <2>5, <3>3 DEF GetHumanInput, Reply
      <4>2. Store!Refuse(c)
        BY <2>2, <3>1, <3>3, <4>1 DEF Store!Refuse, Store!End, StoreCall, StoreResult
      <4> QED
        BY <4>2 DEF Store!Next
    <3>4. CASE req[c].task # NoTask
      <4>1. Return(c, IF humanInputs[req[c].task] = NoResponse THEN [kind |-> "pending"]
                      ELSE [kind |-> "completed", response |-> humanInputs[req[c].task]])
        BY <2>5, <3>4 DEF GetHumanInput, Reply
      <4>2. Store!Get(c, req[c].task)
        BY <2>2, <3>1, <4>1 DEF Store!Get, Store!End, StoreCall, StoreResult
      <4> QED
        BY <3>2, <3>4, <4>2 DEF Store!Next
    <3> QED
      BY <3>3, <3>4
  <2>6. ASSUME NEW c \in Clients, CallRLock(c) \/ CallLock(c) \/ Enter(c) PROVE StoreKept
    BY <2>6, StoreStutters DEF CallRLock, CallLock, Enter, Goto, InFlight
  <2>7. ASSUME NEW c \in Clients, ListTools(c) \/ ExecuteLookup(c) PROVE StoreKept
    <3>1. ~HumanCall(c)
      BY <2>7 DEF ListTools, ExecuteLookup, Inside, HumanCall, HumanOps
    <3> QED
      BY <2>7, <3>1, StoreStutters DEF ListTools, ExecuteLookup, Goto, Return, InFlight
  <2>8. ASSUME NEW c \in Clients, ExecuteCheck(c) \/ ExecuteRun(c) \/ ExecuteReturn(c) \/ ExecuteCancel(c)
        PROVE  StoreKept
    <3>1. ~HumanCall(c)
      BY <2>8 DEF ExecuteCheck, ExecuteRun, ExecuteReturn, ExecuteCancel, Executing, HumanCall, HumanOps
    <3> QED
      BY <2>8, <3>1, StoreStutters DEF ExecuteCheck, ExecuteRun, ExecuteReturn, ExecuteCancel, Goto, Return, InFlight
  <2>9. UNCHANGED <<humanInputs, req, pc, reply>> => StoreKept
    BY StoreStutters DEF InFlight
  <2>10. CASE HealthStep \/ MainStep \/ ToolStep
    BY <2>9, <2>10, HealthLeaves, MainLeaves, ToolsLeave
  <2>11. CASE UNCHANGED vars
    BY <2>9, <2>11 DEF vars, clientVars
  <2> QED
    BY <2>1, <2>3, <2>4, <2>5, <2>6, <2>7, <2>8, <2>10, <2>11, Actors DEF ClientStep, Handler
<1> QED
  BY TypesInvariant, ExecutingInvariant, <1>1, <1>2, PTL DEF Spec, Store!Spec, HumanInputsLinearizable
=============================================================================
