------------------------------ MODULE ToolCalls ------------------------------
(***************************************************************************)
(* The Go tools as the agent meets them (MCP-NG/tools/go): what each tool  *)
(* says its arguments are (GetDescription), what Run insists on before it  *)
(* does anything, and the life of a call, from ExecuteTool of the main     *)
(* server to the reply of Run.                                             *)
(*                                                                         *)
(* What Run does once the arguments are accepted is the subject of         *)
(* FileTools, NetworkTools and DbQuerier, which share the calls of this    *)
(* module.  The two tools that touch nothing shared are here.              *)
(***************************************************************************)

CONSTANTS
  Calls,       \* calls; each is made at most once
  Strings,     \* the strings an argument may be
  Arguments,   \* Arguments[t]: what a call of tool t may carry
  NoArguments, \* a call whose arguments field is not set
  NoCall       \* the call has not been made

VARIABLES
  call,  \* call[c]: [tool, args, pc, reply]
  up,    \* the tools whose process runs
  keys   \* the tools whose config.json holds the keys of their service

callVars == <<call, up, keys>>

-----------------------------------------------------------------------------
\* GetDescription: the arguments of each tool.
Required(type) == [type |-> type, required |-> TRUE]
Optional(type) == [type |-> type, required |-> FALSE]

CalculatorSchema    == [expression |-> Required("string")]
LogNotifierSchema   == [message |-> Required("string"), level |-> Optional("string")]
FileReaderSchema    == [filepath |-> Required("string")]
FileWriterSchema    == [filepath |-> Required("string"), content |-> Required("string")]
ListDirectorySchema == [path |-> Optional("string")]
DbQuerierSchema     == [db_path |-> Required("string"), query |-> Required("string")]
ApiCallerSchema     == [url |-> Required("string"), method |-> Optional("string"),
                        headers |-> Optional("object"), json_body |-> Optional("object")]
OzonSchema          == [endpoint |-> Required("string"), payload |-> Required("object")]
\* Mutant: the description forgets that the query is required.
WebSearchSchema_lax == [query |-> Optional("string"), max_results |-> Optional("number")]
WebSearchSchema     == [query |-> Required("string"), max_results |-> Optional("number")]
\* The endpoint is any string here; that it starts with a slash only its example
\* shows.
WildberriesSchema   == [method |-> Required("string"), endpoint |-> Required("string"),
                        query_params |-> Optional("object"), json_body |-> Optional("object")]

Schema == [calculator |-> CalculatorSchema, log_notifier |-> LogNotifierSchema,
           file_reader |-> FileReaderSchema, file_writer |-> FileWriterSchema,
           list_directory |-> ListDirectorySchema, db_querier |-> DbQuerierSchema,
           api_caller |-> ApiCallerSchema, ozon |-> OzonSchema,
           web_search |-> WebSearchSchema, wildberries |-> WildberriesSchema]

Tools == DOMAIN Schema

\* Run: the arguments without which it returns an error.  The optional ones
\* are replaced by a default when they are absent or of another type.  "rooted"
\* stands for the strings that start with a slash.
CalculatorNeeds    == [expression |-> "string"]
LogNotifierNeeds   == [message |-> "string"]
FileReaderNeeds    == [filepath |-> "string"]
FileWriterNeeds    == [filepath |-> "string", content |-> "string"]
ListDirectoryNeeds == <<>>
DbQuerierNeeds     == [db_path |-> "string", query |-> "string"]
ApiCallerNeeds     == [url |-> "string"]
OzonNeeds          == [endpoint |-> "string", payload |-> "object"]
WebSearchNeeds     == [query |-> "string"]
WildberriesNeeds   == [method |-> "string", endpoint |-> "rooted"]

Needs == [calculator |-> CalculatorNeeds, log_notifier |-> LogNotifierNeeds,
          file_reader |-> FileReaderNeeds, file_writer |-> FileWriterNeeds,
          list_directory |-> ListDirectoryNeeds, db_querier |-> DbQuerierNeeds,
          api_caller |-> ApiCallerNeeds, ozon |-> OzonNeeds,
          web_search |-> WebSearchNeeds, wildberries |-> WildberriesNeeds]

\* "keyed" stands for the objects with an entry for the header Idempotency-Key
\* or X-Idempotency-Key.
HasType(v, type) ==
  CASE type = "string" -> v \in Strings
    [] type = "rooted" -> v \in Strings /\ v = "rooted"
    [] type = "object" -> v \in {"object", "keyed"}
    [] OTHER           -> v = type

\* What a caller that trusts the description may send.
HasRequired(t, a) ==
  \A n \in DOMAIN Schema[t] :
    Schema[t][n].required => n \in DOMAIN a /\ HasType(a[n], Schema[t][n].type)

Conforms(t, a) ==
  /\ a # NoArguments
  /\ HasRequired(t, a)
  /\ \A n \in DOMAIN a : n \in DOMAIN Schema[t] /\ HasType(a[n], Schema[t][n].type)

Accepted(t, a) ==
  \A n \in DOMAIN Needs[t] : n \in DOMAIN a /\ HasType(a[n], Needs[t][n])

\* The tools that return an error while their keys are missing.
Keyed == {"ozon", "web_search", "wildberries"}

\* A path that filepath.Clean leaves starting with two dots; the path of
\* list_directory counts as empty when it is not a string.
Denied(t, a) ==
  \/ t \in {"file_reader", "file_writer"} /\ a.filepath = "dotted"
  \/ /\ t = "list_directory" /\ a # NoArguments
     /\ "path" \in DOMAIN a /\ a.path = "dotted"

-----------------------------------------------------------------------------
Pcs     == {"begun", "writing", "reading", "waiting", "stepping", "done"}
Replies == {"none", "result", "error", "refused", "unavailable"}

CallRecords == UNION {[tool : {t}, args : Arguments[t], pc : Pcs, reply : Replies] : t \in Tools}

ASSUME NoCallAssumption == NoCall \notin CallRecords

TypeOKCalls ==
  /\ call \in [Calls -> CallRecords \cup {NoCall}]
  /\ \A c \in Calls : call[c] # NoCall => (call[c].pc = "done" <=> call[c].reply # "none")
  /\ up \in SUBSET Tools
  /\ keys \in SUBSET Keyed

InitCalls ==
  /\ call = [c \in Calls |-> NoCall]
  /\ up = Tools
  /\ keys \in {{}, Keyed}

Made(c) == call[c] # NoCall
Running(c) == Made(c) /\ call[c].pc # "done"
At(c, t, l) == Made(c) /\ call[c].tool = t /\ call[c].pc = l

Call(t, a, l, r) == [tool |-> t, args |-> a, pc |-> l, reply |-> r]

Goto(c, l) == call' = [call EXCEPT ![c] = Call(@.tool, @.args, l, "none")]

Return(c, r) == call' = [call EXCEPT ![c] = Call(@.tool, @.args, "done", r)]

\* The arguments of a call without any are a nil pointer, and gRPC does not
\* recover from a panic: the process ends, and with it the other calls in it.
\* Mutant: the type assertions of Run are made without their ok.
Panics_unchecked(t, a) ==
  a = NoArguments \/ \E n \in DOMAIN Schema[t] : n \notin DOMAIN a

Panics(t, a) ==
  /\ a = NoArguments
  /\ t # "list_directory"
  /\ t \in Keyed => t \in keys

Panic(c, t, a) ==
  /\ up' = up \ {t}
  /\ call' = [d \in Calls |->
       IF d = c THEN Call(t, a, "done", "unavailable")
       ELSE IF Running(d) /\ call[d].tool = t
            THEN Call(t, call[d].args, "done", "unavailable")
            ELSE call[d]]

\* ExecuteTool calls Run, which begins with its arguments.
Execute(c, t, a) ==
  /\ ~Made(c)
  /\ IF t \notin up
     THEN call' = [call EXCEPT ![c] = Call(t, a, "done", "unavailable")] /\ UNCHANGED up
     ELSE IF Panics(t, a) THEN Panic(c, t, a)
     ELSE /\ call' = [call EXCEPT ![c] =
               IF \/ t \in Keyed /\ t \notin keys
                  \/ ~Accepted(t, a)
                  \/ Denied(t, a)
               THEN Call(t, a, "done", "refused")
               ELSE Call(t, a, "begun", "none")]
          /\ UNCHANGED up
  /\ UNCHANGED keys

\* Parsing, evaluating or converting the value may fail.
Calculator(c) ==
  /\ At(c, "calculator", "begun")
  /\ \E r \in {"result", "error"} : Return(c, r)
  /\ UNCHANGED <<up, keys>>

LogNotifier(c) ==
  /\ At(c, "log_notifier", "begun")
  /\ Return(c, "result")
  /\ UNCHANGED <<up, keys>>

-----------------------------------------------------------------------------
\* The one demand of a Run that no description states: the endpoint of
\* wildberries starts with a slash.
Unstated(t, a) == t = "wildberries" /\ ~HasType(a.endpoint, "rooted")

\* A call whose arguments are as the tool describes them is refused on their
\* account in this one case only, besides the path check; and no tool carries out
\* a call without what its description requires, in the type it states.
DescriptionIsTheContract ==
  \A c \in Calls : Made(c) =>
    LET t == call[c].tool  a == call[c].args IN
    /\ call[c].reply = "refused" /\ Conforms(t, a) =>
         t \in Keyed \ keys \/ Denied(t, a) \/ Unstated(t, a)
    /\ call[c].reply \in {"result", "error"} => HasRequired(t, a)

\* A tool goes down only through a call of it that has no arguments at all:
\* arguments that are missing or mistyped do no harm to the calls of others.
OnlyBareCallsKill ==
  \A t \in Tools \ up :
    \E c \in Calls : Made(c) /\ call[c].tool = t /\ call[c].args = NoArguments
=============================================================================
