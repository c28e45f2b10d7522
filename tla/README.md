# A verification of MCP-NG

MCP-NG is a main server that starts tools as separate processes, registers
them, watches their health and routes the calls of agents to them over gRPC and
HTTP, together with a WebSocket bridge through which a tool asks a human. This
directory holds TLA+ modules of the server, the bridge and the tools, the TLC
configurations that check them on small instances, and TLAPS proofs of their
safety properties and refinements for every value of the constants. Paths are relative to the
root of the repository; `main.go` alone is
`MCP-NG/server/cmd/server/main.go`.

To check it: `tlc -config <run>.cfg <module>` for a run listed below (its module is
the MC module, or `ToolDiscovery` itself),
`tlapm <module>.tla` for the eight proof modules.
`PROJECT.json` lists the runs, for each definition the lines it models, and for
each property a plausible bug in the code that the property catches (its
*mutant*, written just before the definition it changes).

## 1. Inventory

| Component | State | Operations | What is hard about it |
|---|---|---|---|
| **Main server, handlers** (`main.go:306-405`) | `tools` (name to client, description, status), `humanInputs`, both under `mu` (RWMutex) | `ListTools`, `ExecuteTool`, `ProvideHumanInput`, `GetHumanInput`, one goroutine per call | `ExecuteTool` reads `tool.status` after the unlock; a call to a tool lasts as long as the tool |
| **Main server, health loop** (`main.go:260-288`) | ticker, position in the round | one `Check` RPC per tool every ten seconds, under the write lock | no deadline on `Check`; the answer may be older than the death of the tool |
| **Main server, shutdown** (`main.go:495-515`, `291-304`) | `shutdown` channel, `toolCmds`, the two servers | signal, `httpServer.Shutdown` (5 s), `GracefulStop` (no limit), `cleanup`, `wg.Wait` | order of the steps against calls in flight and against the health round that holds `mu` |
| **Main server, startup** (`main.go:61-257`, `407-497`) | `tools`, `toolCmds`, retry counters | walk, skip list, `Start`, fifteen `GetDescription` attempts, initial `Check`, registration | partial failures, a crash or signal during startup, processes left by an earlier incarnation on the ports, names that collide |
| **HTTP/REST gateway** (`pkg/mcp/mcp.pb.gw.go`, generated) | connections | each request becomes an RPC to the own gRPC port | requests that outlive the deadline of `Shutdown` |
| **Human bridge** (`human_bridge/main.go`) | `Hub.clients`, three unbuffered channels, one socket and one reader per connection | register, unregister, broadcast, read | one goroutine writes to everybody without a deadline; removals are requested several times; connections come and go during a broadcast |
| **human_input tool** (`tools/go/human_input`) | none between calls | `Run`: connect to the bridge, publish the prompt, close, answer `waiting_for_human` | closes right after writing; nobody may be listening; a failed `Run` is asked again |
| **code_interpreter tool** (`tools/python/code_interpreter`) | `sys.stdout` of the process, a pool of ten threads | `Run`: execute code with stdout redirected to a buffer | `sys.stdout` is shared by the threads |
| **File tools** (`tools/go/file_reader`, `file_writer`, `list_directory`) | the files of the host | `Run`: check the path, then read, write or list | a file read or written while it is being written; a writer that fails or is killed half-way |
| **Network tools** (`tools/go/api_caller`, `ozon`, `web_search`, `wildberries`) | none (the keys of a service) | `Run`: one HTTP request with a timeout, its answer made a result or an error | the service acts late, twice, or without its answer arriving |
| **db_querier** (`tools/go/db_querier`) | a SQLite database | `Run`: check the file, query, step through the rows | the row loop ends on an error as it does at the end; other calls change the table meanwhile |
| **calculator, log_notifier** (`tools/go`) | none | `Run`: check the arguments, evaluate or log | as all Go tools: a call without arguments panics and ends the process |
| **hybrid_search** | none | only a configuration in the repository, on the server's skip list | |
| **gRPC contract** (`proto/mcp.proto` and generated code) | none | | |

How they interact. An agent calls the main server by gRPC, or by HTTP through
the gateway, which makes the same RPC on its own server. The server calls
tools by gRPC (`GetDescription`, `Check`, `Run`) and owns their processes. The
`human_input` tool sends a prompt as a WebSocket client of the bridge; a user
interface, another client of the bridge, shows it. The answer reaches the
server as a call of `ProvideHumanInput` by whoever the human talks to, and the
agent polls `GetHumanInput`. Within the server, the handlers, the health loop
and the main goroutine share `mu`; within the bridge, the readers and the
goroutines of failed writes meet `Hub.run` at its channels.

What makes each correct:

- *Server*: no reader overlaps a writer of the shared maps; every call is
  answered; an answer given by a human is stored once and read consistently; a
  dead tool is eventually delisted, and later calls do not get to it, a serving one
  is listed; shutdown loses no call, ends, and leaves no tool process behind that it
  can kill.
- *Startup*: every started process is remembered for cleanup; a tool that described
  itself is registered; one bad tool does not keep the others from being registered.
- *Bridge*: registration and sockets agree at all times; messages are seen by
  all in one order; no goroutine or connection is leaked; what a client sends is
  broadcast; one client cannot stop the others.
- *code_interpreter*: a result is the output of its own code.
- *human_input*: a prompt that reaches a human gets the agent an answer, and a
  `Run` that reports an error of its own has asked nobody.
- *Go tools*: what a description promises is accepted; what a tool returns is what
  it did, whole; every call ends; one call does no harm to others.

## 2. The modules

| Module | What it is |
|---|---|
| `McpServer` | the main server after `newServer`: handlers, gateway, health loop, shutdown, tool processes |
| `ToolDiscovery` | the startup of the server: launch, attempts, initial check, registration; crashes and restarts |
| `RWMutex` | Go's `sync.RWMutex` (external), an instance in `McpServer` |
| `HumanInputStore` | abstract: what the server promises about the answers of humans |
| `HumanBridge` | the bridge, with its peers |
| `TotalOrderBroadcast` | abstract: what the bridge promises to its connections |
| `HumanFlow` | composition: `human_input`'s `Run`, the bridge, a user interface, the answers in the server, the agent |
| `HumanQuestion` | abstract: what these promise together to the agent that asks |
| `CodeInterpreter` | the thread pool and `redirect_stdout` |
| `ToolCalls` | what the ten other Go tools have in common: descriptions, argument checks, the life of a call, panics |
| `FileTools`, `NetworkTools`, `DbQuerier` | what the calls of these tools do; each extends `ToolCalls` |
| `Tools` | composition: the Go tools side by side, with calls of several clients |
| `McpServerProofs`, `ToolDiscoveryProofs`, `HumanBridgeProofs`, `CodeInterpreterProofs` | theorems about these modules (`HumanBridgeProofs` also about `HumanFlow`) |
| `ToolsProofs`, `FileToolsProofs`, `NetworkToolsProofs`, `DbQuerierProofs` | theorems about `Tools`: common ones, and by tool |
| `MCMcpServer`, `MCHumanBridge`, `MCHumanFlow`, `MCCodeInterpreter`, `MCTools` | constants and symmetry sets for TLC |

### McpServer

| Variable | In the code |
|---|---|
| `mu` | `server.mu`: owner, readers, queued readers |
| `proc` | the processes behind `server.toolCmds`: serving, hung (alive, not answering) or dead |
| `status` | `toolClient.status`; its domain `Registered` is the key set of `server.tools`, which never changes after `newServer` |
| `humanInputs` | `server.humanInputs` |
| `req`, `pc`, `reply` | one call per client: its request, how far its handler is, what it returned |
| `health`, `tick` | the health goroutine and its ticker's channel of capacity one |
| `gateway` | whether `httpServer.ListenAndServe` accepts connections |
| `mainpc`, `toKill` | how far the main goroutine is in the shutdown, and the part of `toolCmds` that `cleanup` has yet to come to |
| `unkilled`, `known` | history: the processes whose `Kill` failed; the tools each call could know to be dead when it began |

A step ends where another goroutine can see or change something: at a call of
`Lock`, where it returns, at an RPC, at an unprotected read. What a handler does
between taking the lock and releasing it is one step for the readers and for
`ProvideHumanInput`, whose sections contain no such point; the health round,
which makes RPCs under the lock, is one step per RPC sent, answered and
recorded. `ExecuteTool` is six: the call and return of `RLock`, the lookup, the
read of `tool.status` after `RUnlock`, the call of `Run`, and its return.
Between the last three a health round may record the death of the tool:
the call then still goes to it, and gets an RPC error.

The read of `tool.status` races with the health loop (a data race in Go's
sense). The race is on one 32-bit field that is written with one of two values,
so the model lets the read fall anywhere in a round and return the value that is
there.

Facts taken from outside `src/`: `RLock` and `Lock` of a `RWMutex` queue as
`RWMutex` says; `GracefulStop` of the version of grpc-go in `go.sum` refuses new
RPCs at once and returns after the last handler; `httpServer.Shutdown` returns
when the last request has been answered or its context ends; the channel of a
ticker holds one tick. All tools set their health status once, to `SERVING`, so
`Check` answers `SERVING` or fails. `Kill` may fail (the server may not signal the
process), which `cleanup` logs; a process whose `Kill` has succeeded is dead.
`ListenAndServe` of the gateway may fail at any time (`GatewayFails`: its port is in
use, or `Accept` fails), which is logged as well: the server goes on without it.
A process that dies is not restarted by anything.

`McpServer` starts where `newServer` has returned: any registered tools, any status
(a tool may have died since its initial check). That `Registered` is a subset of
`Tools`, the tools the server launched, holds because every `config.json` of the
repository has a command; `ToolDiscovery` also covers one without.

### ToolDiscovery

| Variable | In the code |
|---|---|
| `config`, `name` | what the directory of a tool says (skipped, with a command, without one) and the name in its description: chosen in `Init`, never changed |
| `proc` | the tool processes, by tool and by the incarnation of the server that started them |
| `pc`, `todo`, `tool`, `attempts` | how far `filepath.Walk` and the loop of attempts are |
| `tools`, `toolCmds` | the fields of `server`, of the present incarnation |
| `inc`, `crashed`, `answered` | which incarnation runs; history: those that ended without `cleanup`, and the tools that gave this incarnation their description |

The server knows a tool by its port, so a step that calls a tool asks whoever
listens there. A tool that finds its port taken exits, except the Python tools,
whose gRPC library shares ports (`SharedPorts`). `filepath.Walk` takes the
directories in the order of their names; the model takes them in any order, which
stands for any names. An attempt is one step: it succeeds if a process answers and
fails if none listens or one hangs. The initial check and the registration are one
step, since nothing else runs in the server at that point. The three `os.Exit(1)`
of `main` are `OpenFails`; signals before `signal.Notify`, and those that cannot be
handled at all, are `Crash`; `Stop` is the whole graceful shutdown of `McpServer`.

### HumanBridge

| Variable | In the code |
|---|---|
| `clients` | `Hub.clients` |
| `hub` | where `Hub.run` is: in its `select`, or in the loop over the clients with a message and the clients still to be written to |
| `reader`, `message` | `serveWs` and the reader goroutine of a connection, and the message it is sending to the channel `broadcast` |
| `asking` | how many goroutines started by failed writes wait at `unregister` for this connection |
| `socket`, `unread` | the bridge's end of the connection |
| `peer`, `sent` | the other end |
| `order`, `start`, `received` | history variables, from which only properties read |

A rendezvous on an unbuffered channel is one step of both goroutines. The loop
over the clients is one step per write, because peers close, stall and are reset
between writes. `Hub.mu` is locked by `Hub.run` only and left out. A peer is a
user interface, `human_input` or anything else that speaks WebSocket: it sends,
stops reading (`PeerStall`), reads again, closes, and its host may reset the
connection, in which case data the bridge has not read may be lost
(`LossyReset`). A peer that vanishes without closing counts as one that stops
reading.

### HumanFlow

| Variable | In the code |
|---|---|
| those of `HumanBridge` | as above; the connections are those of the `Run`s of `human_input` and of user interfaces |
| `toolUp` | the process of `human_input` serves |
| `run` | how far each `Run` is in that process |
| `reply` | how the agent's call of `ExecuteTool` has ended: with the reply of `Run`, an error of `Run`, or `unavailable`, an error of the transport |
| `answers` | the keys of `server.humanInputs`, of the present incarnation of the server |
| `got`, `lost` | history: the prompts whose answer the agent has got, and those whose answer went with a restart before |

A step of the flow is a step of the tool, which is at the same time a step of its
peer in `HumanBridge` (`Dial` is `Connect`, `Publish` is `PeerSend`, `Close` and
`Leave` are `PeerClose`), a step of the human, the agent or the server, or a step of
the bridge or of a user interface alone. Three things the code decides are easily
missed: `Dial` returns when the connection is upgraded, before `Hub.run` has accepted
it; the deferred `Close`, whose error is dropped, comes before the reply of `Run`;
and `Close` leaves the connection open when the close frame cannot be
written, until the process or Go's finalizer closes it (`Leave`). The
human answers the main server directly: nothing in the bridge calls `ProvideHumanInput`, although
the diagram of `docs/tools/go/human_input.md:34` draws that call from the bridge.
`ProvideHumanInput` takes an answer to any task id, asked or not, at any time and
again (`Answer`), and `GetHumanInput` hands it out as often as it is asked (`Fetch`).

What may break in the middle: the process of the tool (`ToolDies`: a call without
arguments panics and ends it, or it is killed), with every `Run` in it, published
or not, and until the server is restarted nothing starts it again (`Refused`); the
agent's call alone (`CutOff`: its deadline, its connection or the gateway's), while
`Run` goes on; the main server (`Restart`), with the answers and with the calls that
wait for the tool, whose `Run`s go on. In the last three the agent may never learn the
task id of a prompt the humans see.

### CodeInterpreter

`redirect_stdout` is three separate accesses to `sys.stdout` (save, set,
restore), and each `print` reads it once more; each is a step. The code of a run
prints, ends or raises. A call without code gets either the tool's error reply (the
code is empty) or an RPC error (`arguments["code"]` raises, and the servicer with it).
The pool has `Workers` threads. `met` is history: the other runs that were in the pool
with a run.

### The Go tools

| Variable | Module | In the code |
|---|---|---|
| `call` | `ToolCalls` | per call of `ExecuteTool`: the tool, its arguments, where `Run` is, its reply |
| `up`, `keys` | `ToolCalls` | the processes that run; which have the keys of their service in `config.json` |
| `files` | `FileTools` | the files of the host, as sequences of blocks |
| `moved` | `FileTools` | how far `ioutil.WriteFile` or `ReadFile` of a call is |
| `first` | `FileTools` | history: what each file held when the tools started, absent or one of `Contents` |
| `settled`, `expected` | `FileTools` | history: what a file, or a call, has to hold unless it was disturbed; for a reader, the file as it was when it was opened |
| `flying`, `performed`, `answer` | `NetworkTools` | the requests on their way, how often the service acted, the answer that has arrived |
| `version`, `snapshot`, `rows` | `DbQuerier` | the state of the table, the one a query reads, `results` of `Run` |
| `failed` | `DbQuerier` | history: the calls whose statement ended with an error |

`Execute` is the beginning of `Run` in every tool: the keys, the type assertions
and the path check, in the code's order. The reply tells apart what was `refused`
there, what ended in an `error` later, and a call that found no process or lost it
(`unavailable`). `Needs` is read off the type assertions of each `Run` and `Schema`
off its `GetDescription`; they differ for `wildberries`, whose description says of
`endpoint` no more than that it is a string, while `Run` wants it to begin with a slash
(a string that does is `rooted`). Arguments are a record of strings and of names for the
other JSON types. A nil `Arguments` panics at its first use: in every tool but
`list_directory`, which tests for it, and in those that need keys only when they
have them; nothing recovers, so that the calls of others in the process end too.

A text is written and read in blocks, since a file is moved by more than one system
call. `ioutil.WriteFile` empties the file when it opens it, and fails at the
opening or after any block; a killed process stops after any block. Reading a text
that is not UTF-8 fails, as `structpb` does. Which paths are refused is modelled by
a name for those that `filepath.Clean` leaves starting with two dots. (`Clean` does
not make a path relative to `/app` any other; `filepath.Join` does.)

The network tools differ in their method, in the statuses and bodies they accept
and in their timeout, none of which bounds what the service does. The repetition of
a request whose connection broke is Go's `http.Transport`'s (external): for
`GET`, `HEAD`, `OPTIONS` and `TRACE`, and for requests with an `Idempotency-Key` or
`X-Idempotency-Key` header, which a caller of `api_caller` may set (`keyed`). The method
is what `strings.ToUpper` (`Capitals`) makes of the caller's, and an empty one is a
`GET` to `http.NewRequest`. What an answer becomes is a predicate on a
status and a kind of body.

The SQL statement is external: a `SELECT` reads the table as it was at its first
step, an update takes effect when it is stepped, and each step may fail.
`RowMap` is the loop over the columns.

### The abstract specifications

`HumanInputStore` is an atomic register per task: each call of
`ProvideHumanInput` or `GetHumanInput` takes effect at one moment while it is in
flight. `McpServer` implements it with `answers <- humanInputs` and the calls in
flight read off `req` and `pc`: `HumanInputsLinearizable`, checked by TLC and
proved.

`TotalOrderBroadcast` puts the messages of all senders in one order, which
respects each sender's, and gives each member a gapless part of it from the
moment it joined. `HumanBridge` implements it with the message a reader holds in
front of those it has not read: `BroadcastIsTotallyOrdered`, checked by TLC and
proved. `HumanFlow` in turn implements `HumanBridge` (`FlowImplementsBridge`), which
is what carries the safety of the bridge over to the flow.

`HumanQuestion` is the flow as the agent knows it, without connections and
processes: a call is replied to once, with a task to wait for, an error of the tool, or
not by the tool at all; a question is put to the humans before or after that, but never
once its call has reported an error, nor does a call report one whose question has been
put; anybody may answer anything; the agent gets answers only to questions it was told to wait
for, and only those the main server keeps, which may forget them all at any moment.
`HumanFlow` implements it with `asked <-` the prompts in the bridge's `order` and
`stored <- answers`: `FlowIsAQuestion`, checked by TLC and proved.

## 3. The runs

| Run | Instance | Result |
|---|---|---|
| `server_core` | two registered tools, one gRPC and one HTTP client | safety of the whole server (below) |
| `server_answers` | no tools, a gRPC and an HTTP client, one task, two answers | `HumanInputsLinearizable` |
| `server_live` | a registered and an unregistered tool, one HTTP client | liveness under `FairSpec` |
| `hung_tool` | one tool, one client | `HungToolDelisted` is violated |
| `discovery` | two tools, two names, two attempts, two incarnations | `OrphansComeFromCrashes`, `DescribedToolsRegistered`, `StartupEnds` |
| `bridge` | three connections, two messages, lossy resets | `RegisteredIsServed`, `ReceivedInOneOrder`, `BroadcastIsTotallyOrdered` |
| `bridge_early_close` | two connections, two messages, lossless network | `AllMessagesBroadcast` is violated |
| `human_flow` | one `Run`, one user interface, lossy resets, deaths of the tool, calls cut off, restarts | `FailedRunsAskNobody`, `FlowIsAQuestion`, and `ClosedConnectionsLeave`, `PromptsAnswered` under `FairSpecFlow` |
| `interpreter_pool` | three runs on two threads | `SoloOutputExact`, `OutputFromThePool` |
| `interpreter_mixed` | three runs on two threads | `OutputIsOwn` is violated |
| `tools` | any two calls of the ten Go tools | the safety properties of calls, files, services and queries below, and `CallsEnd` under `FairSpec` |
| `db_errors` | one call | `ErrorsAreReported` is violated |

What the passing runs show:

- `CriticalSectionsExclusive`: no handler is inside a section while
  `ProvideHumanInput`, a health round or `cleanup` is inside its own.
- `LockWaitsEnd`: whenever a goroutine waits at `server.mu`, one that holds the mutex,
  or has been let in, is not waiting there itself and is on its way to the unlock: no
  circle of handlers, health round and `cleanup`, and no path that forgets the
  unlock. (That the holder itself comes out, which a tool that hangs can prevent, is
  `EveryCallAnswered`.)
- `CleanupAfterDrain`: from the moment `GracefulStop` has returned no RPC is in
  its handler, although HTTP requests may have outlived the five seconds of
  `Shutdown` and the gateway may still be about to forward them.
- `NoToolSurvives`: after `cleanup` every process the server started is dead,
  hung tools and tools that never registered included, except those whose own `Kill`
  failed: one failure does not save the others.
- `DeadToolStaysDelisted`: of a tool that the server had recorded as dead when a call
  began (and no older answer of the tool was about to be recorded), the call
  never gets to that tool's `Run` and lists nothing of it, however late it uses the
  status it has read; and no round makes the tool SERVING again. (A call that began
  before may well go to a tool that was delisted since.)
- `HumanInputsLinearizable`: see above.
- `EveryCallAnswered`, `DeadToolDelisted`, `ServingToolListed`,
  `ShutdownCompletes`: the server does what it is for, provided no tool hangs for
  good; the shutdown also without a gateway, and when a `Kill` fails.
- `OrphansComeFromCrashes`: a live tool process is one the running server will
  kill, or it was started by an incarnation that crashed. What crashes orphan is
  real: the next incarnation's own process finds the port taken and exits, the
  orphan answers in its place and is registered, and `cleanup` will not kill it.
- `DescribedToolsRegistered`: a tool that has described itself before it was given up
  is found under its name once the ports are open, unless one of the same name
  replaced it; and a name leads to a tool that gave that name.
- `StartupEnds`: a startup ends, provided no tool hangs for good during its initial
  check.
- `RegisteredIsServed`: a connection is in `Hub.clients` exactly while it has a
  reader that will ask for its removal and a socket the hub has not closed, in
  whatever order the reader and the goroutines of failed writes ask.
- `ReceivedInOneOrder`: no two connections receive two messages in different orders,
  and none receives a message twice. It is what a user interface sees of
  `BroadcastIsTotallyOrdered`, stated without the abstract order.
- `BroadcastIsTotallyOrdered`: see above.
- `ClosedConnectionsLeave`: a closed connection is forgotten for good and leaves no
  goroutine at a channel, provided no peer stalls for good.
- `PromptsAnswered`: once the bridge has begun to write a prompt to a user
  interface, the agent gets its answer, although the connection the prompt came on
  is closed or broken by then, its own write fails, and the tool may be gone; unless
  that interface is closed, the server restarts while it holds the answer, or the
  agent was never told the task id (its call was cut off, or the tool or the server died
  between the publication and the reply).
- `FailedRunsAskNobody`: the prompt of a `Run` that reported an error of its own is not
  broadcast, then or later: the agent may ask again. Of an `unavailable` call it may not
  be asked again without the risk of asking twice, and the property says nothing.
- `FlowIsAQuestion`: see above.
- `SoloOutputExact`: a run that meets no other in the pool returns exactly what it
  printed, although earlier overlapping runs may have left `sys.stdout` at the
  buffer of a run that is over.
- `OutputFromThePool`: each line of a result was printed by that run or by one that
  was in the pool at the same time. `sys.stdout` may go on pointing at the buffer of a
  run that has ended, into which later runs print; none of that comes back in
  the result of another, and nothing printed before a run does in its own.
- `DescriptionIsTheContract`: of the ten tools none refuses a call made as its
  description says, except for missing keys, paths out of bounds, and one rule that a
  description leaves unstated: the slash of `wildberries` (`Unstated`); and a result
  or an error of the work itself is only given to a call with the arguments its
  description requires.
- `OnlyBareCallsKill`: a process is brought down only by a call of its tool without any
  arguments; missing or mistyped ones do no harm.
- `SettledFilesExact`: a file holds exactly the text of its last writer if no other
  writer overlapped it and it succeeded.
- `QuietReadsExact`: a read that no write overlapped returns exactly the content the file had
  when it was opened, whole, be it that of a writer that succeeded or what one that failed or
  was killed left.
- `OverlapsOnlyMix`: what is left of this when writers overlap, fail or die. A file is
  as it was when the tools started, or each of its blocks (there may be none) is one that some
  call was given for that place of that file, or a hole before it; nothing of the first text
  survives. A reader may find an empty file or a mixture, of such blocks and of that first
  text, each in its place.
- `ResultsWerePerformed`: no result without the service having acted, and a request is
  acted on once at most unless the agent asked for it in a form that may be
  repeated (an order of `ozon` or a search never is), however late requests and answers
  arrive.
- `CompleteResultsExact`: a query that came to its end returns each row of one
  version of the table, also when two columns have one name.
- `CallsEnd`: every call of a Go tool ends.

What the violated properties show (each is a statement of the repository that
the code does not keep; `PROJECT.json` quotes them under "findings"):

- `hung_tool`: `Check` has no deadline and runs under the write lock. A tool that
  is alive and silent stops the round; its status stays SERVING, and no other tool
  is monitored.
- `bridge_early_close`: a publisher that closes right after its message makes the
  hub's next write to it fail; the hub then closes the connection, and a reader
  that has not read the message yet gets an error in its place.
- `interpreter_mixed`: overlapping runs print into each other's buffers.
- `db_errors`: a statement that fails while its rows are fetched ends the loop like
  the last row, and what was fetched is returned as the result.

Two consequences of missing deadlines are assumed away by the fairness below rather
than shown by a run of their own: a handler that waits for a hung tool holds up
`GracefulStop`, and with it the killing of the tools, for ever; and a client of the
bridge that stops reading blocks `Hub.run` in `WriteMessage`.

### Bounds

No variable of `McpServer` or `CodeInterpreter` grows: a client has one call at a
time but makes any number of them, health rounds follow each other for ever, and
the shutdown may begin at any moment. Two clients give a reader beside a writer,
and one caller of each port, which the shutdown treats differently; the health
loop and the main goroutine are two more writers. Two tools let a round take
them in either order, with one of them recorded and the other not. The runs that
are about tools have no tasks and those about answers no tools, because the two
share nothing but the mutex, whose use by `ProvideHumanInput` the former still
contain (the call with the empty task id). A `GetHumanInput` after a second
`ProvideHumanInput` needs two answers to one task.

In `ToolDiscovery`, `MaxRetries` is a parameter of the code (15), and two attempts
have a first and a last. `MaxIncarnations` bounds the restarts: two are enough for a
server to meet what another left. Two tools can collide in their name, and one can
fail while the other registers.

In the bridge a connection is opened once and a message is sent once, which is
what bounds `order`, `received` and `asking`. Three connections give a sender, a
receiver and one that joins, leaves or fails in the middle; two messages are
what an order needs. `human_flow` has one `Run` and one user interface, without
symmetry: the publisher's own write fails before, after or instead of the
interface's, and either may be reset at any point. The tool may die and the server
restart any number of times, between any two steps of either. That several
prompts do not mix is the order of `bridge`; `FailedRunsAskNobody` and
`FlowIsAQuestion` are proved for any number of `Run`s and interfaces.

In `tools` two calls are enough for every pair of tools beside each other: writer
and writer, writer and reader, query and update, a panic beside a call in the same
process. Each tool has calls as described, with an argument left out or of another
type, and without arguments. One file, a first content of two blocks, and texts of no
block and of two make a shorter text replace a longer one and a mixture differ from both.
The methods are an empty one, one that is repeated whatever its case, and a `POST` with and without
an idempotency key. `MaxPerformed = 2` lets a repeated request be acted on twice;
`TableSize = 2` and `MaxVersion = 2` let both calls change the table between the rows
of a result; one of three columns repeats a name. The theorems about these tools
have no such bounds.

`MaxPrints` bounds what a run prints. Three runs on two threads are enough for a
run that starts alone after two that overlapped, and for a queue.

### Fairness

Liveness is checked under fairness of what the runtime schedules, and never of
clients, signals or failures:

- Weak fairness of each goroutine's next step: the scheduler runs it if it can
  go on.
- Strong fairness of `Lock` (`CallLock`, `HealthLock`, `CleanupLock`): a
  `sync.Mutex` hands itself to a waiter that it has starved for a millisecond.
- Strong fairness of `HealthStop`: when both cases of the `select` are ready
  Go takes one at random, so the closed channel is taken in the end.
- Strong fairness of the rendezvous with `Hub.run`: a channel serves its senders
  in order of arrival, and `select` takes ready cases at random.
- Strong fairness of an answer by a tool, or of a write to a peer, that is
  possible again and again.
- Strong fairness of `Register`, since a tool may hang and recover again and again.
- `FlowFairness`: a `Run` that has published returns, unless its process dies; a human
  answers a prompt that was seen, unless its answer was lost before (`AnswerSeen`); and an agent
  that was told to wait keeps asking. Nobody has to open a user interface.
- In `Tools`, weak fairness of each call's next step: a call has a goroutine of its
  own, disks and SQLite return or fail, and `http.Client` has a timeout in each of the
  network tools. The services owe nothing.
- `ToolFairness` (also part of `FairSpec` in `ToolDiscovery`) and `PeerFairness`: a hung tool recovers or dies, a stalled peer
  reads again or closes. These are assumptions about the environment that the code
  does nothing to ensure. `ToolFairness` is kept out of `ServerSpec`, under which `hung_tool`
  shows what happens without it. `bridge_early_close` is violated even with
  `PeerFairness`.

`CHECK_DEADLOCK FALSE` is set for the bridge, the flow, the interpreter, discovery and the tools:
connections, runs, incarnations and calls are finite in number, and a state in which all are over is an end and not a
deadlock. In `McpServer` deadlock is checked; after the exit the action `Exited`
stutters.

## 4. The proofs

All theorems hold for every value of the constants that meets the assumptions the
modules state (names of goroutines differ from each other, the "no value"
constants are not values, registered tools are started tools, the bounds are
natural numbers, paths that are accepted are among `Files`, the absence of a file and
"unsettled" are not contents, `Capitals` maps strings to strings).

`McpServerProofs`:

- `TypeCorrect`: `TypeOK` is invariant. It is not inductive alone: handlers read
  fields of `req[c]`, so `RequestInv` (a call in flight has a request) is added.
- `MutualExclusion`: `CriticalSectionsExclusive`. It follows from `LockInv`, which
  ties `mu` to the program counters: a goroutine owns the mutex exactly from its
  `Lock` to its `Unlock`; it is among the readers or in the queue exactly from
  `RLock` to `RUnlock`; a reader inside is among the readers; a writer inside has
  outlasted all of them; without an owner the queue is empty. The last parts are
  what a step of `Unlock`, which admits the queue, needs.
- `NoDeadlockAtMu`: `LockWaitsEnd`, from the same invariant. Whoever waits, a queued
  reader included, waits because the mutex has an owner. If readers are still
  counted, one of these has been admitted and waits for nobody; if none is, the owner
  itself has the mutex.
- `GracefulShutdown` (`CleanupAfterDrain`): after `GracefulStop` the port is closed
  for good, so `Forward` only refuses and no handler starts.
- `NoProcessSurvives` (`NoToolSurvives`), with `SweepInv`: what `cleanup` has come to is dead or
  its `Kill` failed, and it does not leave its loop before it has come to all of `toolCmds`; a dead
  process stays dead.
- `DeadToolsStayDelisted` (`DeadToolStaysDelisted`), with `HealthInv` (an answer is held
  exactly between its arrival and its record) and `KnowledgeLasts`: what is known to be
  dead stays known, since a later answer is an error. `KnownInv` then carries this from
  the beginning of a call to its decision, and with it to every later step of that call.
- `StoreImplemented`: `Spec => HumanInputsLinearizable`. Each step is mapped: a call
  of a human operation begins where the client makes it (`Begin`; a call of another
  operation is `Forget`), a gateway request that is refused is `Refuse`,
  `ProvideHumanInput` and `GetHumanInput` are `Provide` and `Get`, or `Refuse` for
  the empty task id, and all other steps leave the store as it is (`StoreStutters`).
  `Executing` (a handler past the lookup executes a tool) excludes that the end of a
  `Run` is taken for the end of a human operation.

`ToolDiscoveryProofs`:

- `TypeCorrect`: with `Dialing` (the loop of attempts is left at its last one; a
  tool under its initial check has a name).
- `NoOtherOrphans`: `OrphansComeFromCrashes`, with `CommandsAreOwn` (what is in
  `toolCmds` was started by this incarnation), without which a crash could orphan a
  process of an incarnation that is not the one recorded as crashed.
- `DescribedAreRegistered`: `DescribedToolsRegistered`, with `Registration`, its form
  during startup: a tool that has described itself is registered or is the one under
  its initial check.

`HumanBridgeProofs`:

- `TypeCorrect`: with `Handover` (a reader that is sending, and a hub that is
  writing, have a message).
- `Registration`: `RegisteredIsServed`, with `Lifecycle` (a connection that is not
  registered yet is not closed by the hub; a reader exists once the peer has
  connected). The reader's request is the last that matters: it is the only one
  that ends the reader, and the hub has removed the connection by then or does so
  with it.

- `BridgeImplementsBroadcast`: `Spec => BroadcastIsTotallyOrdered`. `Delivery` counts
  what a client has received: for a client whose socket works and whose peer is
  there, the start of its part of the order and what it has received make up the
  whole order, but for the message being written if its turn is to come; and that
  message is the last of the order. So a write is a `Receive`. A read moves a message
  from the unread ones to the reader, which holds it in front of them and changes no
  queue; a reset loses the rest, a suffix.
- `OneOrder`: `ReceivedInOneOrder`. `Once`: a message has one sender; until it is in
  `order` it is unread on that connection or with its reader, and only once, so that
  `order` has no message twice. `Slices`: what a connection has received is the part of `order` that
  begins at its `start`. The places of two messages in a slice then differ as they do
  in `order`.
- `FlowImplementsBridge`: every step of `HumanFlow` is a step of `HumanBridge` or
  leaves it alone, so that the invariants above hold in the flow. `FlowTypeCorrect`
  uses it, as does `FailedRunsHaveAskedNobody`, whose invariant `UnpublishedNowhere` says
  that the prompt of a `Run` that has not published it, or has reported an error, is
  nowhere in the bridge: not unread, not with a reader, not in the order. It needs
  `ErrorsEnd`: a `Run` that has reported an error has ended, so that neither a restart nor
  the death of the process makes it publish.
- `FlowImplementsQuestion`: `SpecFlow => FlowIsAQuestion`. Only a broadcast changes the order
  (`OthersKeepOrder`), by one message (`BroadcastAsks`), which by `UnpublishedNowhere` is not the prompt of a `Run`
  that has reported an error: the step is an `Ask`, or nothing if the message is of an
  interface. A `Run` that reports an error has by the same invariant asked nobody: the
  step is a `Fail`. A death, a call cut off and a restart are `Lose`; steps of the
  bridge, of the interfaces and of a `Run` that does not reply yet leave the question as it is.

`CodeInterpreterProofs`:

- `TypeCorrect`, and `SoloOutputIsExact`: `SoloOutputExact`. `SoloInv` says of a run that has
  met no other: while it is in the pool it is the only one there; `sys.stdout` is its
  own buffer while it executes, and at no other time than until it has restored; no run
  has saved its buffer, so that none can bring it back later; and its buffer holds
  exactly what it has printed.
- `OutputIsFromThePool`: `OutputFromThePool`. `PoolInv`: runs that are in the pool together have
  met; until a run redirects, nobody can reach its buffer (`sys.stdout` is not the buffer, no run
  has saved it) and it is empty; while the run is in the pool, whatever its buffer holds was printed by
  it or by runs it has met; its result is what was there when it ended.

`ToolsProofs` has what the modules about single tools need of the others: every step
of a tool moves one call of its own and leaves the rest, or is a call of another
tool, a panic or a step of a service.

- `CallTypes`; `DescriptionsAreContracts`: `DescriptionIsTheContract`, from lemmas
  that go through the ten tools (a call that conforms is accepted but for what is
  `Unstated`; an accepted one has what is required) and an invariant that a call past its
  checks was accepted; `BareCallsAloneKill`: `OnlyBareCallsKill`.

`FileToolsProofs`: `SettledFilesAreExact` and `QuietReadsAreExact`, from one
invariant. A call that has not begun has moved nothing; a writer whose `expected` is a
text is the only writer of its file, which holds exactly what it has moved, a
prefix of the text; a reader that is still undisturbed reads a file that holds what
`expected` says, whoever left it there, and has moved a prefix of it; a settled file has no writer and is as it
was settled.
`OverlapsAreMixtures` (`OverlapsOnlyMix`) needs that a call keeps its arguments whatever becomes
of it, a panic of its process included; that `first` never changes; and that the first
text of a file may be what its readers hold, but is gone from a file that somebody writes
(`MixInv`): were it not, a block written into the first text would make neither that text
nor a mixture.

`NetworkToolsProofs`: `RequestsArePerformedOnce`: the copies under way and the times the
service has acted are one together unless the request is repeatable, none before
it is sent, and an answer that makes a result exists only after the service has acted.
`RepeatsWereAskedFor` goes through the tools: whatever the method and headers the tool makes of
the arguments, the client repeats a request only if the arguments of the call allow it.

`DbQuerierProofs`: `CompleteResultsAreExact`: the rows of a query are, as far as it is,
those of its snapshot, which is not newer than the table; that `RowMap` keeps, for
each name, the value of some column of that name rests on a last such column
existing, by well-founded induction over numbers. `ToolTypesCorrect` puts the types of the four
modules together.

Every safety property that a passing run checks is stated by one of these theorems.
Only model-checked: the liveness properties (`EveryCallAnswered`, `DeadToolDelisted`,
`ServingToolListed`, `ShutdownCompletes`, `StartupEnds`, `ClosedConnectionsLeave`,
`PromptsAnswered`, `CallsEnd`), which need fairness and `ENABLED` and are beyond the
prover. Nothing is assumed without proof.

## 5. What is not modelled

- *`loadConfig` and `findProjectRoot`, and how a command line is put together*: they run
  once and decide what the ports, directories and commands are.
- *Marshalling, JSON and the generated code*: no behaviour of their own beyond the
  acceptance and forwarding that `Call` and `Forward` model.
- *Logging, CORS, the wording of replies.*
- *hybrid_search*: the repository holds its configuration only.
- *The values tools compute or fetch*: the arithmetic of calculator, the rounding of
  64-bit integers by `structpb`, the listing of a directory, the text of messages,
  URLs and headers. Failures of their conversion are outcomes of the actions.
- *The file system beyond single files*: links, directories that vanish, rights, except
  that any open, read or write may fail.
- *Calls of the Go tools through `McpServer`*: the server's side of a call is in
  `McpServer`, the tools' side in `Tools`; they meet at `ExecuteReturn` and `Return`. The
  composition would multiply two large state spaces and relate nothing the two do not
  say separately: the server passes arguments and replies on as they are.
- *Redirects*, which `http.Client` follows by further requests: services are taken to answer without.
- *Arguments of human_input*: a `Run` without a prompt or with another broker is one of
  those that fail before they have a connection; a call without arguments is `ToolDies`.
- *Code executed by code_interpreter*, apart from printing, ending and raising. It
  could replace `sys.stdout` itself or end the process.

## 6. Plan

In order of importance to the system; all but the last are done:

1. `McpServer`, `HumanInputStore`, their proofs and the refinement.
2. `HumanBridge`, `TotalOrderBroadcast`, their proofs and the refinement.
3. `CodeInterpreter` and its proofs.
4. `ToolDiscovery` and its proofs.
5. `HumanFlow`, `HumanQuestion`, their proofs and the refinement.
6. `ToolCalls`, `FileTools`, `NetworkTools`, `DbQuerier`, `Tools` and their proofs.
7. Left: the startup of the server put before `McpServer` as one specification,
   so that what a crash orphaned meets the health rounds and the shutdown of the
   next incarnation; the thread pool of the interpreter behind its health check,
   so that `hung_tool` follows from ten long runs.
