------------------------------ MODULE McpServer ------------------------------
(***************************************************************************)
(* The main MCP server once newServer has returned                         *)
(* (MCP-NG/server/cmd/server/main.go): the gRPC handlers, the health-check *)
(* goroutine and the main goroutine with its graceful shutdown, sharing    *)
(* server.mu, and the tool processes they talk to.                         *)
(*                                                                         *)
(* Each client has at most one call in flight; its handler is a goroutine  *)
(* of its own.  A tool process answers RPCs ("serving"), is alive without  *)
(* answering ("hung": stopped, or all its workers busy) or is "dead".      *)
(***************************************************************************)

CONSTANTS
  Tools,        \* the tools whose process was started (server.toolCmds)
  Registered,   \* those that described themselves in time (server.tools)
  GrpcClients,  \* clients that call the gRPC port
  HttpClients,  \* clients that call through the HTTP/REST gateway
  Tasks,        \* task ids
  Responses,    \* answers a human may give
  NoTask,       \* the empty task id
  NoResponse,   \* no entry in server.humanInputs
  NoReply,      \* the call of a client has not returned
  NoRequest,    \* the client has not called yet
  NoTool,       \* the health check is not at any tool
  HealthLoop,   \* the health-check goroutine
  Main,         \* the main goroutine
  Nobody        \* the owner of a free mutex

Clients    == GrpcClients \cup HttpClients
Goroutines == Clients \cup {HealthLoop, Main}

ASSUME RegisteredAssumption == Registered \subseteq Tools
ASSUME NamesAssumption ==
  /\ HealthLoop # Main
  /\ {HealthLoop, Main} \cap Clients = {}
  /\ Nobody \notin Goroutines
  /\ NoTask \notin Tasks
  /\ NoResponse \notin Responses
  /\ NoTool \notin Tools

VARIABLES
  mu,           \* server.mu
  proc,         \* proc[t]: the state of the process of tool t
  status,       \* status[t]: toolClient.status of a registered tool
  humanInputs,  \* humanInputs[k]: the stored answer to task k
  req,          \* req[c]: the request of the latest call of client c
  pc,           \* pc[c]: where the handler of that call is
  reply,        \* reply[c]: what that call returned
  health,       \* the health-check goroutine: [pc, todo, tool, answer]
  tick,         \* the ticker's channel holds a tick
  gateway,      \* the HTTP/REST gateway accepts connections
  mainpc,       \* where the main goroutine is
  toKill,       \* the processes cleanup has yet to come to
  unkilled,     \* history: those whose Kill failed
  known         \* history: known[c]: the tools known to be dead when the
                \* latest call of client c began

clientVars == <<req, pc, reply, known>>
mainVars   == <<gateway, mainpc, toKill, unkilled>>
vars == <<mu, proc, status, humanInputs, clientVars, health, tick, mainVars>>

Mutex == INSTANCE RWMutex

-----------------------------------------------------------------------------
\* Requests and replies of the service MCP (mcp.proto).
Requests ==
       [op : {"ListTools"}]
  \cup [op : {"ExecuteTool"}, tool : Tools]
  \cup [op : {"ProvideHumanInput"}, task : Tasks \cup {NoTask}, response : Responses]
  \cup [op : {"GetHumanInput"}, task : Tasks \cup {NoTask}]

ASSUME RequestsAssumption == NoRequest \notin Requests

Replies ==
       [kind : {"executed", "Aborted", "Internal", "NotFound",
                "InvalidArgument", "Unavailable", "received", "pending"}]
  \cup [kind : {"tools"}, tools : SUBSET Registered]
  \cup [kind : {"completed"}, response : Responses]

Reply(k) == [kind |-> k]

\* ProvideHumanInput takes the write lock, the other handlers the read lock.
Writes(c) == req[c].op = "ProvideHumanInput"

TypeOK ==
  /\ mu \in Mutex!MutexType
  /\ proc \in [Tools -> {"serving", "hung", "dead"}]
  /\ status \in [Registered -> {"SERVING", "NOT_SERVING"}]
  /\ humanInputs \in [Tasks -> Responses \cup {NoResponse}]
  /\ req \in [Clients -> Requests \cup {NoRequest}]
  /\ pc \in [Clients -> {"idle", "gateway", "start", "locking", "inside",
                        "looked", "checked", "running"}]
  /\ reply \in [Clients -> Replies \cup {NoReply}]
  /\ health \in [pc     : {"select", "start", "locking", "round", "checking", "answered", "stopped"},
                 todo   : SUBSET Registered,
                 tool   : Registered \cup {NoTool},
                 answer : {"none", "SERVING", "error"}]
  /\ tick \in BOOLEAN
  /\ gateway \in BOOLEAN
  /\ mainpc \in {"serving", "httpShutdown", "grpcStop", "cleanup",
                 "locking", "killing", "wait", "exited"}
  /\ toKill \subseteq Tools
  /\ unkilled \subseteq Tools
  /\ known \in [Clients -> SUBSET Registered]

\* newServer has launched and registered the tools and probed each one once,
\* with whatever outcome; the ports are open.
Init ==
  /\ mu = Mutex!Unlocked
  /\ proc \in [Tools -> {"serving", "dead"}]
  /\ status \in [Registered -> {"SERVING", "NOT_SERVING"}]
  /\ humanInputs = [k \in Tasks |-> NoResponse]
  /\ req = [c \in Clients |-> NoRequest]
  /\ pc = [c \in Clients |-> "idle"]
  /\ reply = [c \in Clients |-> NoReply]
  /\ health = [pc |-> "select", todo |-> {}, tool |-> NoTool, answer |-> "none"]
  /\ tick = FALSE
  /\ gateway = TRUE
  /\ mainpc = "serving"
  /\ toKill = {}
  /\ unkilled = {}
  /\ known = [c \in Clients |-> {}]

Running == mainpc # "exited"
InFlight(c) == pc[c] # "idle"
Handled(c)  == InFlight(c) /\ pc[c] # "gateway"  \* has a handler

-----------------------------------------------------------------------------
\* The handlers.

\* The server has noticed the death of t, and no older answer of t is about
\* to be recorded.
KnownDead(t) ==
  /\ proc[t] = "dead"
  /\ status[t] = "NOT_SERVING"
  /\ ~(health.tool = t /\ health.answer = "SERVING")

\* The gRPC server accepts RPCs until GracefulStop, the gateway requests as
\* long as its listener is open.
GrpcOpen == mainpc \in {"serving", "httpShutdown"}
Accepting(c) == IF c \in HttpClients THEN gateway ELSE GrpcOpen

Goto(c, l) == pc' = [pc EXCEPT ![c] = l]

Return(c, v) == Goto(c, "idle") /\ reply' = [reply EXCEPT ![c] = v]

Call(c, r) ==
  /\ Accepting(c)
  /\ ~InFlight(c)
  /\ req' = [req EXCEPT ![c] = r]
  /\ Goto(c, IF c \in HttpClients THEN "gateway" ELSE "start")
  /\ reply' = [reply EXCEPT ![c] = NoReply]
  /\ known' = [known EXCEPT ![c] = {t \in Registered : KnownDead(t)}]
  /\ UNCHANGED <<mu, proc, status, humanInputs, health, tick, mainVars>>

\* The gateway makes the RPC of a request, which GracefulStop refuses.
Forward(c) ==
  /\ Running
  /\ pc[c] = "gateway"
  /\ IF GrpcOpen THEN Goto(c, "start") /\ UNCHANGED reply
                 ELSE Return(c, Reply("Unavailable"))
  /\ UNCHANGED <<mu, proc, status, humanInputs, req, known, health, tick, mainVars>>

CallRLock(c) ==
  /\ pc[c] = "start" /\ ~Writes(c)
  /\ Mutex!RLock(c)
  /\ Goto(c, "locking")
  /\ UNCHANGED <<proc, status, humanInputs, req, reply, known, health, tick, mainVars>>

CallLock(c) ==
  /\ pc[c] = "start" /\ Writes(c)
  /\ Mutex!Lock(c)
  /\ Goto(c, "locking")
  /\ UNCHANGED <<proc, status, humanInputs, req, reply, known, health, tick, mainVars>>

\* RLock or Lock returns.
Enter(c) ==
  /\ pc[c] = "locking"
  /\ IF Writes(c) THEN Mutex!WriteHeld(c) ELSE Mutex!ReadHeld(c)
  /\ Goto(c, "inside")
  /\ UNCHANGED <<mu, proc, status, humanInputs, req, reply, known, health, tick, mainVars>>

\* A handler is at the code it runs under the lock.
Inside(c, op) == pc[c] = "inside" /\ req[c].op = op

ListTools(c) ==
  /\ Inside(c, "ListTools")
  /\ Mutex!RUnlock(c)
  /\ Return(c, [kind  |-> "tools",
                tools |-> {t \in Registered : status[t] = "SERVING"}])
  /\ UNCHANGED <<proc, status, humanInputs, req, known, health, tick, mainVars>>

\* Mutant: the empty task id is stored like any other.
ProvideHumanInput_unchecked(c) ==
  /\ Inside(c, "ProvideHumanInput")
  /\ Mutex!Unlock
  /\ Return(c, Reply("received"))
  /\ humanInputs' = [k \in DOMAIN humanInputs \cup {req[c].task} |->
                       IF k = req[c].task THEN req[c].response ELSE humanInputs[k]]
  /\ UNCHANGED <<proc, status, req, known, health, tick, mainVars>>

ProvideHumanInput(c) ==
  /\ Inside(c, "ProvideHumanInput")
  /\ Mutex!Unlock
  /\ IF req[c].task = NoTask
     THEN /\ Return(c, Reply("InvalidArgument"))
          /\ UNCHANGED humanInputs
     ELSE /\ Return(c, Reply("received"))
          /\ humanInputs' = [humanInputs EXCEPT ![req[c].task] = req[c].response]
  /\ UNCHANGED <<proc, status, req, known, health, tick, mainVars>>

\* Mutant: an answer is handed out once.
GetHumanInput_consumes(c) ==
  /\ Inside(c, "GetHumanInput")
  /\ Mutex!RUnlock(c)
  /\ Return(c, IF req[c].task = NoTask THEN Reply("InvalidArgument")
               ELSE IF humanInputs[req[c].task] = NoResponse THEN Reply("pending")
               ELSE [kind |-> "completed", response |-> humanInputs[req[c].task]])
  /\ humanInputs' = [k \in Tasks |-> IF k = req[c].task THEN NoResponse ELSE humanInputs[k]]
  /\ UNCHANGED <<proc, status, req, known, health, tick, mainVars>>

GetHumanInput(c) ==
  /\ Inside(c, "GetHumanInput")
  /\ Mutex!RUnlock(c)
  /\ Return(c, IF req[c].task = NoTask THEN Reply("InvalidArgument")
               ELSE IF humanInputs[req[c].task] = NoResponse THEN Reply("pending")
               ELSE [kind |-> "completed", response |-> humanInputs[req[c].task]])
  /\ UNCHANGED <<proc, status, humanInputs, req, known, health, tick, mainVars>>

\* ExecuteTool looks the tool up under the read lock ...
ExecuteLookup(c) ==
  /\ Inside(c, "ExecuteTool")
  /\ Mutex!RUnlock(c)
  /\ Goto(c, "looked")
  /\ UNCHANGED <<proc, status, humanInputs, req, reply, known, health, tick, mainVars>>

\* ... and reads its status after the unlock, concurrently with the writes of
\* the health check: the step may fall anywhere in a round.
\* Mutant: a registered tool is taken to be available.
Available_always(t) == t \in Registered

Available(t) == t \in Registered /\ status[t] = "SERVING"

ExecuteCheck(c) ==
  /\ pc[c] = "looked"
  /\ IF Available(req[c].tool)
     THEN Goto(c, "checked") /\ UNCHANGED reply
     ELSE Return(c, Reply("NotFound"))
  /\ UNCHANGED <<mu, proc, status, humanInputs, req, known, health, tick, mainVars>>

\* The Run RPC is issued, whatever became of the tool since its status was read.
ExecuteRun(c) ==
  /\ pc[c] = "checked"
  /\ Goto(c, "running")
  /\ UNCHANGED <<mu, proc, status, humanInputs, req, reply, known, health, tick, mainVars>>

\* The Run RPC ends: with a result, with an error of the tool, or, when the
\* process is gone, with an RPC error.  A hung tool keeps it open.
ExecuteReturn(c) ==
  /\ pc[c] = "running"
  /\ \/ /\ proc[req[c].tool] = "serving"
        /\ \E k \in {"executed", "Aborted"} : Return(c, Reply(k))
     \/ /\ proc[req[c].tool] = "dead"
        /\ Return(c, Reply("Internal"))
  /\ UNCHANGED <<mu, proc, status, humanInputs, req, known, health, tick, mainVars>>

\* The client gives up: its context is the context of the Run RPC.
ExecuteCancel(c) ==
  /\ Running
  /\ pc[c] = "running"
  /\ Return(c, Reply("Internal"))
  /\ UNCHANGED <<mu, proc, status, humanInputs, req, known, health, tick, mainVars>>

Handler(c) == \/ Forward(c) \/ CallRLock(c) \/ Enter(c)
              \/ ListTools(c) \/ ProvideHumanInput(c) \/ GetHumanInput(c)
              \/ ExecuteLookup(c) \/ ExecuteCheck(c) \/ ExecuteRun(c)

-----------------------------------------------------------------------------
\* The health-check goroutine.

\* The channel of a time.Ticker holds one tick; more are dropped.
TickerFires ==
  /\ Running /\ ~tick
  /\ tick' = TRUE
  /\ UNCHANGED <<mu, proc, status, humanInputs, clientVars, health, mainVars>>

\* select: a tick starts a round, the closed shutdown channel ends the loop;
\* when both are ready either may be taken.
HealthTick ==
  /\ Running /\ health.pc = "select" /\ tick
  /\ tick' = FALSE
  /\ health' = [health EXCEPT !.pc = "start"]
  /\ UNCHANGED <<mu, proc, status, humanInputs, clientVars, mainVars>>

HealthStop ==
  /\ Running /\ health.pc = "select" /\ mainpc # "serving"
  /\ health' = [health EXCEPT !.pc = "stopped"]
  /\ UNCHANGED <<mu, proc, status, humanInputs, clientVars, tick, mainVars>>

HealthLock ==
  /\ Running /\ health.pc = "start"
  /\ Mutex!Lock(HealthLoop)
  /\ health' = [health EXCEPT !.pc = "locking"]
  /\ UNCHANGED <<proc, status, humanInputs, clientVars, tick, mainVars>>

HealthEnter ==
  /\ Running /\ health.pc = "locking"
  /\ Mutex!WriteHeld(HealthLoop)
  /\ health' = [health EXCEPT !.pc = "round", !.todo = Registered]
  /\ UNCHANGED <<mu, proc, status, humanInputs, clientVars, tick, mainVars>>

\* The loop over the map takes the tools in any order.
HealthPick(t) ==
  /\ Running /\ health.pc = "round" /\ t \in health.todo
  /\ health' = [health EXCEPT !.pc = "checking", !.tool = t, !.todo = @ \ {t}]
  /\ UNCHANGED <<mu, proc, status, humanInputs, clientVars, tick, mainVars>>

\* Check has no deadline: it ends when the tool answers or its process is
\* gone, with the mutex held all the while.
HealthAnswer ==
  /\ Running /\ health.pc = "checking"
  /\ proc[health.tool] # "hung"
  /\ health' = [health EXCEPT !.pc = "answered",
                  !.answer = IF proc[health.tool] = "dead" THEN "error" ELSE "SERVING"]
  /\ UNCHANGED <<mu, proc, status, humanInputs, clientVars, tick, mainVars>>

\* Mutants: an error changes nothing; a recovery is not recorded.
HealthRecord_skipsErrors ==
  /\ Running /\ health.pc = "answered"
  /\ status' = IF health.answer = "error" THEN status
               ELSE [status EXCEPT ![health.tool] = "SERVING"]
  /\ health' = [health EXCEPT !.pc = "round", !.tool = NoTool, !.answer = "none"]
  /\ UNCHANGED <<mu, proc, humanInputs, clientVars, tick, mainVars>>

HealthRecord_errorsOnly ==
  /\ Running /\ health.pc = "answered"
  /\ status' = IF health.answer = "error"
               THEN [status EXCEPT ![health.tool] = "NOT_SERVING"] ELSE status
  /\ health' = [health EXCEPT !.pc = "round", !.tool = NoTool, !.answer = "none"]
  /\ UNCHANGED <<mu, proc, humanInputs, clientVars, tick, mainVars>>

HealthRecord ==
  /\ Running /\ health.pc = "answered"
  /\ status' = [status EXCEPT ![health.tool] =
                  IF health.answer = "error" THEN "NOT_SERVING" ELSE "SERVING"]
  /\ health' = [health EXCEPT !.pc = "round", !.tool = NoTool, !.answer = "none"]
  /\ UNCHANGED <<mu, proc, humanInputs, clientVars, tick, mainVars>>

\* Mutant: the round ends without the unlock.
HealthUnlock_forgotten ==
  /\ Running /\ health.pc = "round" /\ health.todo = {}
  /\ health' = [health EXCEPT !.pc = "select"]
  /\ UNCHANGED <<mu, proc, status, humanInputs, clientVars, tick, mainVars>>

HealthUnlock ==
  /\ Running /\ health.pc = "round" /\ health.todo = {}
  /\ Mutex!Unlock
  /\ health' = [health EXCEPT !.pc = "select"]
  /\ UNCHANGED <<proc, status, humanInputs, clientVars, tick, mainVars>>

HealthCheck == \/ HealthTick \/ HealthStop \/ HealthLock \/ HealthEnter
               \/ \E t \in Registered : HealthPick(t)
               \/ HealthAnswer \/ HealthRecord \/ HealthUnlock

-----------------------------------------------------------------------------
\* The main goroutine: graceful shutdown.

\* ListenAndServe of the gateway fails (its port is in use, Accept fails): the
\* error is logged and the server goes on without a gateway; the requests it
\* has accepted go on as well.
GatewayFails ==
  /\ gateway
  /\ gateway' = FALSE
  /\ UNCHANGED <<mu, proc, status, humanInputs, clientVars, health, tick,
                 mainpc, toKill, unkilled>>

MainGoto(from, to) ==
  /\ mainpc = from /\ mainpc' = to
  /\ UNCHANGED <<status, humanInputs, clientVars, health, tick>>

\* SIGINT or SIGTERM: close(shutdown), then httpServer.Shutdown, which closes
\* the listener of the gateway.
Signal ==
  /\ MainGoto("serving", "httpShutdown")
  /\ gateway' = FALSE
  /\ UNCHANGED <<mu, proc, toKill, unkilled>>

\* Shutdown returns when no gateway request is left ...
HttpDrained ==
  /\ MainGoto("httpShutdown", "grpcStop")
  /\ \A c \in HttpClients : ~InFlight(c)
  /\ UNCHANGED <<mu, proc, gateway, toKill, unkilled>>

\* ... or when its five seconds are over; the requests left go on.
HttpDeadline ==
  /\ MainGoto("httpShutdown", "grpcStop")
  /\ \E c \in HttpClients : InFlight(c)
  /\ UNCHANGED <<mu, proc, gateway, toKill, unkilled>>

\* Mutant: Stop in the place of GracefulStop.
GrpcStopped_abruptly ==
  /\ MainGoto("grpcStop", "cleanup")
  /\ UNCHANGED <<mu, proc, gateway, toKill, unkilled>>

\* GracefulStop returns when every handler has, and has no deadline.
GrpcStopped ==
  /\ MainGoto("grpcStop", "cleanup")
  /\ \A c \in Clients : ~Handled(c)
  /\ UNCHANGED <<mu, proc, gateway, toKill, unkilled>>

\* Mutant: cleanup goes ahead without the mutex.
CleanupLock_skipped ==
  /\ MainGoto("cleanup", "killing")
  /\ UNCHANGED <<mu, proc, gateway, toKill, unkilled>>

CleanupLock ==
  /\ MainGoto("cleanup", "locking")
  /\ Mutex!Lock(Main)
  /\ UNCHANGED <<proc, gateway, toKill, unkilled>>

\* Mutant: cleanup goes through the registered tools only.
CleanupEnter_registered ==
  /\ MainGoto("locking", "killing")
  /\ Mutex!WriteHeld(Main)
  /\ toKill' = Registered
  /\ UNCHANGED <<mu, proc, gateway, unkilled>>

\* cleanup goes through toolCmds: every process that was started, registered
\* or not.
CleanupEnter ==
  /\ MainGoto("locking", "killing")
  /\ Mutex!WriteHeld(Main)
  /\ toKill' = Tools
  /\ UNCHANGED <<mu, proc, gateway, unkilled>>

\* Mutant: cleanup returns at the first Kill that fails.
CleanupKill_returns(t) ==
  /\ MainGoto("killing", "killing")
  /\ t \in toKill
  /\ \/ /\ proc' = [proc EXCEPT ![t] = "dead"]
        /\ toKill' = toKill \ {t}
        /\ UNCHANGED unkilled
     \/ /\ unkilled' = unkilled \cup {t}
        /\ toKill' = {}
        /\ UNCHANGED proc
  /\ UNCHANGED <<mu, gateway>>

\* A Kill that fails (the server may not signal the process) is logged, and
\* the loop goes on.
CleanupKill(t) ==
  /\ MainGoto("killing", "killing")
  /\ t \in toKill
  /\ toKill' = toKill \ {t}
  /\ \/ /\ proc' = [proc EXCEPT ![t] = "dead"]
        /\ UNCHANGED unkilled
     \/ /\ unkilled' = unkilled \cup {t}
        /\ UNCHANGED proc
  /\ UNCHANGED <<mu, gateway>>

CleanupUnlock ==
  /\ MainGoto("killing", "wait")
  /\ toKill = {}
  /\ Mutex!Unlock
  /\ UNCHANGED <<proc, gateway, toKill, unkilled>>

\* wg.Wait waits for the two Serve goroutines, which end with their listeners.
Exit ==
  /\ MainGoto("wait", "exited")
  /\ ~gateway
  /\ UNCHANGED <<mu, proc, gateway, toKill, unkilled>>

Shutdown == \/ HttpDrained \/ HttpDeadline \/ GrpcStopped
            \/ CleanupLock \/ CleanupEnter \/ CleanupUnlock \/ Exit
            \/ \E t \in Tools : CleanupKill(t)

-----------------------------------------------------------------------------
\* The tool processes.  Nothing restarts one that died.
Become(t, from, to) ==
  /\ proc[t] \in from
  /\ proc' = [proc EXCEPT ![t] = to]
  /\ UNCHANGED <<mu, status, humanInputs, clientVars, health, tick, mainVars>>

Hang(t)    == Become(t, {"serving"}, "hung")
Recover(t) == Become(t, {"hung"}, "serving")
Die(t)     == Become(t, {"serving", "hung"}, "dead")

\* After the exit of the server nothing is left to do.
Exited == ~Running /\ UNCHANGED vars

Next ==
  \/ \E c \in Clients : \/ \E r \in Requests : Call(c, r)
                        \/ Handler(c) \/ CallLock(c)
                        \/ ExecuteReturn(c) \/ ExecuteCancel(c)
  \/ TickerFires \/ HealthCheck
  \/ GatewayFails \/ Signal \/ Shutdown
  \/ \E t \in Tools : Hang(t) \/ Recover(t) \/ Die(t)
  \/ Exited

Spec == Init /\ [][Next]_vars

-----------------------------------------------------------------------------
\* Safety.

ReaderInside(c) == pc[c] = "inside" /\ ~Writes(c)
WriterInside(g) ==
  \/ g = HealthLoop /\ health.pc \in {"round", "checking", "answered"}
  \/ g = Main /\ mainpc = "killing"
  \/ g \in Clients /\ pc[g] = "inside" /\ Writes(g)

\* Nobody is in a critical section together with a writer: no handler reads
\* tools or humanInputs while ProvideHumanInput stores an answer or a health
\* round updates the statuses, and cleanup runs alone.
CriticalSectionsExclusive ==
  \A g \in Goroutines : WriterInside(g) =>
    /\ \A h \in Goroutines \ {g} : ~WriterInside(h)
    /\ \A c \in Clients : ~ReaderInside(c)

\* The places where a goroutine waits at server.mu for another one, and those
\* from which it gives back what it was granted.
BlockedAtMu(g) ==
  \/ g \in Clients /\ pc[g] = "start" /\ Writes(g) /\ mu.owner # Nobody
  \/ g \in Clients /\ pc[g] = "locking" /\ IF Writes(g) THEN ~Mutex!WriteHeld(g)
                                                        ELSE ~Mutex!ReadHeld(g)
  \/ g = HealthLoop /\ health.pc = "start" /\ mu.owner # Nobody
  \/ g = HealthLoop /\ health.pc = "locking" /\ ~Mutex!WriteHeld(g)
  \/ g = Main /\ mainpc = "cleanup" /\ mu.owner # Nobody
  \/ g = Main /\ mainpc = "locking" /\ ~Mutex!WriteHeld(g)

PassesMu(g) ==
  \/ g \in Clients /\ pc[g] \in {"locking", "inside"}
  \/ g = HealthLoop /\ health.pc \in {"locking", "round", "checking", "answered"}
  \/ g = Main /\ mainpc \in {"locking", "killing"}

\* Nobody waits at server.mu for goroutines that all wait there themselves, or
\* for one that has forgotten it: whenever a call, the health check or cleanup
\* is blocked, somebody has been let in and is on its way to the unlock.
LockWaitsEnd ==
  (\E g \in Goroutines : BlockedAtMu(g)) =>
    \E h \in Goroutines : PassesMu(h) /\ ~BlockedAtMu(h)

\* cleanup never takes a tool away from a call: from the moment GracefulStop
\* has returned, whatever happened to the HTTP deadline before, no RPC is in
\* its handler.
CleanupAfterDrain ==
  mainpc \in {"cleanup", "locking", "killing", "wait", "exited"} =>
    \A c \in Clients : ~Handled(c)

\* The server leaves no process behind: whatever hung, never registered or died
\* on its own, and whichever Kill failed, a tool that is alive when cleanup has
\* gone through the processes is one the server itself could not kill.
NoToolSurvives ==
  mainpc \in {"wait", "exited"} => \A t \in Tools \ unkilled : proc[t] = "dead"

\* A call that begins when the server knows a tool to be dead never gets as far
\* as that tool, nor is shown it: its decision is never older than the call,
\* though it is read without the mutex, used later, and may be outdated by then.
\* No round that was under way makes the server take the tool for alive again.
DeadToolStaysDelisted ==
  \A c \in Clients : \A t \in known[c] :
    /\ status[t] = "NOT_SERVING"
    /\ pc[c] \in {"checked", "running"} => req[c].tool # t
    /\ reply[c] # NoReply /\ reply[c].kind = "tools" => t \notin reply[c].tools

-----------------------------------------------------------------------------
\* The answers a human gives, as the agents see them: HumanInputStore.

HumanOps == {"ProvideHumanInput", "GetHumanInput"}
HumanCall(c) == req[c] # NoRequest /\ req[c].op \in HumanOps

Store == INSTANCE HumanInputStore WITH
  answers <- humanInputs,
  call    <- [c \in Clients |-> IF HumanCall(c) /\ InFlight(c) THEN req[c] ELSE NoRequest],
  result  <- [c \in Clients |-> IF HumanCall(c) THEN reply[c] ELSE NoReply]

\* Every concurrent execution of ProvideHumanInput and GetHumanInput is one
\* of a store that answers each call at one moment between its start and its
\* end, and nothing else the server does, shutting down included, changes it.
HumanInputsLinearizable == Store!Spec

-----------------------------------------------------------------------------
(***************************************************************************)
(* Fairness.  The Go runtime runs every goroutine that can go on; a Lock   *)
(* that is retried for ever gets its turn (sync.Mutex hands itself over to *)
(* a waiter it has starved), and so does the shutdown case of a select     *)
(* that is ready again and again (Go chooses at random).  A tool that is   *)
(* responsive again and again answers.  Clients and signals owe nothing.   *)
(***************************************************************************)
HandlerFairness ==
  \A c \in Clients : /\ WF_vars(Handler(c)) /\ SF_vars(CallLock(c))
                     /\ SF_vars(ExecuteReturn(c))

HealthFairness ==
  /\ WF_vars(TickerFires) /\ WF_vars(HealthTick) /\ SF_vars(HealthStop)
  /\ SF_vars(HealthLock) /\ WF_vars(HealthEnter)
  /\ \A t \in Registered : WF_vars(HealthPick(t))
  /\ SF_vars(HealthAnswer) /\ WF_vars(HealthRecord) /\ WF_vars(HealthUnlock)

ShutdownFairness == WF_vars(Shutdown) /\ SF_vars(CleanupLock)

\* The code waits for its tools without a deadline: nothing but the tool (or
\* an operator) ends a hang.
ToolFairness == \A t \in Tools : WF_vars(Recover(t))

\* The server on its own, and with tools that never hang for good.
ServerSpec == Spec /\ HandlerFairness /\ HealthFairness /\ ShutdownFairness
FairSpec   == ServerSpec /\ ToolFairness

-----------------------------------------------------------------------------
\* Liveness.

\* A handler that was entered returns: no call waits for ever for server.mu
\* or for a tool, whatever the other calls, the rounds and the shutdown do.
EveryCallAnswered == \A c \in Clients : Handled(c) ~> ~InFlight(c)

\* A tool that dies is delisted, unless the server shuts down first.
DeadToolDelisted ==
  \A t \in Registered :
    proc[t] = "dead" ~> status[t] = "NOT_SERVING" \/ mainpc # "serving"

\* A tool that serves for good is listed for good, however it started out.
ServingToolListed ==
  \A t \in Registered :
    <>[](proc[t] = "serving" /\ mainpc = "serving") => <>[](status[t] = "SERVING")

\* A shutdown ends, with or without a gateway, and leaves alive only processes
\* the server could not kill.
ShutdownCompletes ==
  mainpc = "httpShutdown" ~>
    mainpc = "exited" /\ \A t \in Tools \ unkilled : proc[t] = "dead"

\* What the repository says of the program and a hung tool refutes.
\* README.md: the server "continues to monitor" its tools, and a tool that is
\* not SERVING is not offered to clients.
HungToolDelisted ==
  \A t \in Registered :
    <>[](proc[t] = "hung") =>
      <>[](status[t] = "NOT_SERVING") \/ <>(mainpc # "serving")
=============================================================================
