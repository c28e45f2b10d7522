---------------------------- MODULE ToolDiscovery ----------------------------
(***************************************************************************)
(* The startup of the main MCP server (main and discoverAndRunTools in     *)
(* MCP-NG/server/cmd/server/main.go), and what a server that crashed       *)
(* leaves to the next one: tool processes, which hold their ports.         *)
(*                                                                         *)
(* A process is a tool with the incarnation of the server that started it; *)
(* incarnation 0 stands for somebody else.  The server reaches a tool only *)
(* through the tool's port, whoever listens there.                         *)
(***************************************************************************)
EXTENDS Naturals

CONSTANTS
  Tools,           \* the tool directories, each with a port of its own
  SharedPorts,     \* those whose server shares its port (gRPC for Python does)
  Names,           \* the names under which tools may register
  NoName,          \* the empty name
  NoTool,
  MaxRetries,      \* how often a tool is asked for its description (15)
  MaxIncarnations  \* bound: how often the server is started

\* What server.tools holds under a name: whom to call, and its status.
Entries == [tool : Tools, status : {"SERVING", "NOT_SERVING"}]

ASSUME SharedPortsAssumption  == SharedPorts \subseteq Tools
ASSUME NoNameAssumption       == NoName \notin Names
ASSUME NoToolAssumption       == NoTool \notin Tools \cup Entries
ASSUME MaxRetriesAssumption   == MaxRetries \in Nat \ {0}
ASSUME IncarnationsAssumption == MaxIncarnations \in Nat

VARIABLES
  config,    \* config[t]: skipped, launched (has a command), or external; fixed
  name,      \* name[t]: the name in the description of the tool; fixed
  proc,      \* proc[p]: the state of process p
  inc,       \* the incarnation of the server
  crashed,   \* history: the incarnations that ended without cleanup
  pc,        \* where the main goroutine is
  todo,      \* the directories filepath.Walk has not reached
  tool,      \* the tool being connected to
  attempts,  \* the attempts that failed
  tools,     \* tools[n]: server.tools
  toolCmds,  \* server.toolCmds
  answered   \* history: the tools that gave this server their description

server == <<pc, todo, tool, attempts, tools, toolCmds, answered>>
vars   == <<config, name, proc, inc, crashed, server>>

Processes == Tools \X (0..MaxIncarnations)

TypeOK ==
  /\ config \in [Tools -> {"skipped", "launched", "external"}]
  /\ name \in [Tools -> Names \cup {NoName}]
  /\ proc \in [Processes -> {"none", "starting", "serving", "hung", "dead"}]
  /\ inc \in 0..MaxIncarnations
  /\ crashed \in SUBSET (1..MaxIncarnations)
  /\ pc \in {"down", "walk", "dial", "check", "serving"}
  /\ todo \in SUBSET Tools
  /\ tool \in Tools \cup {NoTool}
  /\ attempts \in 0..MaxRetries
  /\ tools \in [Names -> Entries \cup {NoTool}]
  /\ toolCmds \in SUBSET Processes
  /\ answered \in SUBSET Tools

\* No server has run yet; a tool without a command may be running.
Init ==
  /\ config \in [Tools -> {"skipped", "launched", "external"}]
  /\ name \in [Tools -> Names \cup {NoName}]
  /\ \E up \in SUBSET {t \in Tools : config[t] = "external"} :
       proc = [p \in Processes |-> IF p[2] = 0 /\ p[1] \in up THEN "serving" ELSE "none"]
  /\ inc = 0
  /\ crashed = {}
  /\ pc = "down"
  /\ todo = {}
  /\ tool = NoTool
  /\ attempts = 0
  /\ tools = [n \in Names |-> NoTool]
  /\ toolCmds = {}
  /\ answered = {}

Alive(p) == proc[p] \in {"starting", "serving", "hung"}

\* The processes that listen on the port of t.
At(t, s) == {p \in Processes : p[1] = t /\ proc[p] \in s}
Serving(t) == At(t, {"serving"}) # {}
Hanging(t) == At(t, {"hung"}) # {}
Free(t)    == At(t, {"serving", "hung"}) = {}

-----------------------------------------------------------------------------
\* The walk over the tool directories.

Boot ==
  /\ pc = "down" /\ inc < MaxIncarnations
  /\ inc' = inc + 1
  /\ pc' = "walk"
  /\ todo' = Tools
  /\ tools' = [n \in Names |-> NoTool]
  /\ toolCmds' = {}
  /\ answered' = {}
  /\ UNCHANGED <<config, name, proc, crashed, tool, attempts>>

Visit(t) == pc = "walk" /\ t \in todo /\ todo' = todo \ {t}

\* On the skip list, or without a configuration that can be read; or the
\* command cannot be started.
Skip(t) ==
  /\ Visit(t)
  /\ config[t] # "external"
  /\ UNCHANGED <<config, name, proc, inc, crashed, pc, tool, attempts, tools, toolCmds, answered>>

Dial(t) == pc' = "dial" /\ tool' = t /\ attempts' = 0

\* Mutant: the process is not remembered.
Launch_unremembered(t) ==
  /\ Visit(t)
  /\ config[t] = "launched"
  /\ proc' = [proc EXCEPT ![<<t, inc>>] = "starting"]
  /\ Dial(t)
  /\ UNCHANGED <<config, name, inc, crashed, tools, toolCmds, answered>>

Launch(t) ==
  /\ Visit(t)
  /\ config[t] = "launched"
  /\ proc' = [proc EXCEPT ![<<t, inc>>] = "starting"]
  /\ toolCmds' = toolCmds \cup {<<t, inc>>}
  /\ Dial(t)
  /\ UNCHANGED <<config, name, inc, crashed, tools, answered>>

\* A configuration without a command: the tool is expected to be running.
Expect(t) ==
  /\ Visit(t)
  /\ config[t] = "external"
  /\ Dial(t)
  /\ UNCHANGED <<config, name, proc, inc, crashed, tools, toolCmds, answered>>

\* Mutant: a description that arrives at the last attempt comes too late.
Describe_late ==
  /\ pc = "dial" /\ Serving(tool)
  /\ answered' = answered \cup {tool}
  /\ pc' = IF name[tool] = NoName \/ attempts = MaxRetries - 1 THEN "walk" ELSE "check"
  /\ UNCHANGED <<config, name, proc, inc, crashed, todo, tool, attempts, tools, toolCmds>>

\* GetDescription succeeds; a tool with an empty name is left out.
Describe ==
  /\ pc = "dial" /\ Serving(tool)
  /\ answered' = answered \cup {tool}
  /\ pc' = IF name[tool] = NoName THEN "walk" ELSE "check"
  /\ UNCHANGED <<config, name, proc, inc, crashed, todo, tool, attempts, tools, toolCmds>>

\* Mutants: an attempt too many, and failed attempts that are not counted.
AttemptFails_tooOften ==
  /\ pc = "dial" /\ (~Serving(tool) \/ Hanging(tool))
  /\ attempts' = attempts + 1
  /\ pc' = IF attempts = MaxRetries THEN "walk" ELSE "dial"
  /\ UNCHANGED <<config, name, proc, inc, crashed, todo, tool, tools, toolCmds, answered>>

AttemptFails_uncounted ==
  /\ pc = "dial" /\ (~Serving(tool) \/ Hanging(tool))
  /\ pc' = IF attempts = MaxRetries THEN "walk" ELSE "dial"
  /\ UNCHANGED <<config, name, proc, inc, crashed, todo, tool, attempts, tools, toolCmds, answered>>

\* It fails, by its deadline of a second if the process hangs; after the last
\* attempt the tool is given up.
AttemptFails ==
  /\ pc = "dial" /\ (~Serving(tool) \/ Hanging(tool))
  /\ attempts' = attempts + 1
  /\ pc' = IF attempts' = MaxRetries THEN "walk" ELSE "dial"
  /\ UNCHANGED <<config, name, proc, inc, crashed, todo, tool, tools, toolCmds, answered>>

\* The initial health check, without a deadline, and the registration, which
\* replaces a tool of the same name.
Register ==
  /\ pc = "check"
  /\ \E s \in {"SERVING", "NOT_SERVING"} :
       /\ IF s = "SERVING" THEN Serving(tool) ELSE Free(tool)
       /\ tools' = [tools EXCEPT ![name[tool]] = [tool |-> tool, status |-> s]]
  /\ pc' = "walk"
  /\ UNCHANGED <<config, name, proc, inc, crashed, todo, tool, attempts, toolCmds, answered>>

Walked == pc = "walk" /\ todo = {}

\* The ports are open and the signals are handled from here on.
OpenPorts ==
  /\ Walked
  /\ pc' = "serving"
  /\ UNCHANGED <<config, name, proc, inc, crashed, todo, tool, attempts, tools, toolCmds, answered>>

\* os.Exit(1) when the gRPC port is taken or the gateway cannot be set up.
OpenFails ==
  /\ Walked
  /\ pc' = "down"
  /\ crashed' = crashed \cup {inc}
  /\ UNCHANGED <<config, name, proc, inc, todo, tool, attempts, tools, toolCmds, answered>>

\* A signal before signal.Notify, or one that cannot be handled.
Crash ==
  /\ pc # "down"
  /\ pc' = "down"
  /\ crashed' = crashed \cup {inc}
  /\ UNCHANGED <<config, name, proc, inc, todo, tool, attempts, tools, toolCmds, answered>>

\* The graceful shutdown (its steps are in McpServer) ends with cleanup.
Stop ==
  /\ pc = "serving"
  /\ proc' = [p \in Processes |-> IF p \in toolCmds THEN "dead" ELSE proc[p]]
  /\ pc' = "down"
  /\ UNCHANGED <<config, name, inc, crashed, todo, tool, attempts, tools, toolCmds, answered>>

Startup == \/ \E t \in Tools : Skip(t) \/ Launch(t) \/ Expect(t)
           \/ Describe \/ AttemptFails \/ Register \/ OpenPorts \/ OpenFails

-----------------------------------------------------------------------------
\* The tool processes.

Become(p, from, to) ==
  /\ proc[p] \in from
  /\ proc' = [proc EXCEPT ![p] = to]
  /\ UNCHANGED <<config, name, inc, crashed, server>>

\* A tool listens, and exits when its port is taken.
Listen(p) ==
  /\ Free(p[1]) \/ p[1] \in SharedPorts
  /\ Become(p, {"starting"}, "serving")

ListenFails(p) == ~Free(p[1]) /\ Become(p, {"starting"}, "dead")

Hang(p)    == Become(p, {"serving"}, "hung")
Recover(p) == Become(p, {"hung"}, "serving")
Die(p)     == Become(p, {"starting", "serving", "hung"}, "dead")

Next ==
  \/ Boot \/ Startup \/ Crash \/ Stop
  \/ \E p \in Processes : Listen(p) \/ ListenFails(p) \/ Hang(p) \/ Recover(p) \/ Die(p)

Spec == Init /\ [][Next]_vars

-----------------------------------------------------------------------------
\* Safety.

\* A tool process that a server started and that is alive is one the running
\* server will kill, or one of a server that crashed: startups that fail for
\* a tool, tools that never register and tools of the same name included.
OrphansComeFromCrashes ==
  \A p \in Processes : Alive(p) /\ p[2] > 0 =>
    p[2] \in crashed \/ (pc # "down" /\ p \in toolCmds)

\* Every tool that gave its description is found under its name once the ports
\* are open, unless a tool of the same name has taken its place; and what is
\* found under a name has that name.
DescribedToolsRegistered ==
  pc = "serving" =>
    /\ \A t \in answered : name[t] \in Names => tools[name[t]] # NoTool
    /\ \A n \in Names : tools[n] # NoTool =>
         tools[n].tool \in answered /\ name[tools[n].tool] = n

-----------------------------------------------------------------------------
\* Liveness.  The main goroutine runs; a tool that is responsive again and
\* again answers; and a tool does not hang for good (which the code does
\* nothing to ensure: the initial health check has no deadline).
FairSpec == /\ Spec
            /\ WF_vars(Startup) /\ SF_vars(Register)
            /\ \A p \in Processes : WF_vars(Recover(p))

\* A startup ends, however many of the tools fail to start, to describe
\* themselves or to stay alive.
StartupEnds == pc \in {"walk", "dial", "check"} ~> pc \in {"serving", "down"}
=============================================================================
