---------------------------- MODULE NetworkTools ----------------------------
(***************************************************************************)
(* api_caller, ozon, web_search and wildberries (MCP-NG/tools/go).  Each   *)
(* makes one HTTP request through Go's client and waits for the answer no  *)
(* longer than the client's timeout.  The service may act on a request     *)
(* before, after or without the tool hearing of it; the client itself      *)
(* sends a repeatable request again when a connection breaks.              *)
(***************************************************************************)
EXTENDS ToolCalls, Naturals

CONSTANTS
  Capitals,      \* Capitals[s]: the string s in capital letters
  MaxPerformed,  \* bound on the times a repeated request reaches the service
  Answers,       \* the answers of services: [status, body]
  NoAnswer

ASSUME CapitalsAssumption == Capitals \in [Strings -> STRING]

ASSUME MaxPerformedAssumption == MaxPerformed \in Nat \ {0}

VARIABLES
  flying,    \* flying[c]: copies of c's request on their way to the service
  performed, \* performed[c]: how often the service acted on it
  answer     \* answer[c]: the answer that has reached the tool

netVars == <<flying, performed, answer>>

-----------------------------------------------------------------------------
\* http.NewRequest makes the empty method a GET.
RequestMethod(s) == IF Capitals[s] = "" THEN "GET" ELSE Capitals[s]

\* The method each tool uses, and the answers it turns into a result: the body
\* is a JSON object, another JSON value, other text, text that is not UTF-8,
\* empty, or cut off.
\* Mutant: the method the caller gives is not read.
ApiCallerMethod_default(a) == "GET"
ApiCallerMethod(a) ==
  IF "method" \in DOMAIN a /\ a.method \in Strings THEN RequestMethod(a.method) ELSE "GET"
ApiCallerResult(r) ==
  r.status \in {"200", "2xx"} /\ r.body \in {"object", "json", "text", "empty"}

OzonMethod(a) == "POST"
OzonResult(r) == r.status = "200" /\ r.body \in {"object", "json"}

WebSearchMethod(a) == "POST"
WebSearchResult(r) == r.status = "200" /\ r.body = "object"

WildberriesMethod(a) == RequestMethod(a.method)
WildberriesResult(r) ==
  r.status \in {"200", "2xx"} /\ r.body \in {"object", "json", "text", "empty"}

Method(c) ==
  LET a == call[c].args IN
  CASE call[c].tool = "api_caller"  -> ApiCallerMethod(a)
    [] call[c].tool = "ozon"        -> OzonMethod(a)
    [] call[c].tool = "web_search"  -> WebSearchMethod(a)
    [] call[c].tool = "wildberries" -> WildberriesMethod(a)

IsResult(t, r) ==
  CASE t = "api_caller"  -> ApiCallerResult(r)
    [] t = "ozon"        -> OzonResult(r)
    [] t = "web_search"  -> WebSearchResult(r)
    [] t = "wildberries" -> WildberriesResult(r)

NetTools == {"api_caller", "ozon", "web_search", "wildberries"}

IsNetCall(c) == Made(c) /\ call[c].tool \in NetTools
Waiting(c) == IsNetCall(c) /\ call[c].pc = "waiting"

\* api_caller sets the headers it is given, whatever they are.
HasIdempotencyKey(c) ==
  /\ call[c].tool = "api_caller"
  /\ "headers" \in DOMAIN call[c].args
  /\ call[c].args.headers = "keyed"

SafeMethods == {"GET", "HEAD", "OPTIONS", "TRACE"}

\* The transport sends these again by itself: all four tools give it bodies it
\* can read a second time.
Repeatable(c) ==
  Method(c) \in SafeMethods \/ HasIdempotencyKey(c)

TypeOKNet ==
  /\ flying \in [Calls -> 0..MaxPerformed]
  /\ performed \in [Calls -> 0..MaxPerformed]
  /\ answer \in [Calls -> Answers \cup {NoAnswer}]

InitNet ==
  /\ flying = [c \in Calls |-> 0]
  /\ performed = [c \in Calls |-> 0]
  /\ answer = [c \in Calls |-> NoAnswer]

\* The request is made, or cannot be (a method or a URL that is none).
Send(c) ==
  /\ IsNetCall(c) /\ call[c].pc = "begun"
  /\ \/ Goto(c, "waiting") /\ flying' = [flying EXCEPT ![c] = 1]
     \/ Return(c, "error") /\ UNCHANGED flying
  /\ UNCHANGED <<up, keys, performed, answer>>

\* The service acts on a request, and may fail after it has.  Its answer finds
\* the tool waiting, or nobody.
Perform(c) ==
  /\ flying[c] > 0
  /\ flying' = [flying EXCEPT ![c] = @ - 1]
  /\ performed' = [performed EXCEPT ![c] = @ + 1]
  /\ \/ UNCHANGED answer
     \/ /\ Waiting(c) /\ answer[c] = NoAnswer
        /\ \E r \in Answers : r.status # "4xx" /\ answer' = [answer EXCEPT ![c] = r]
  /\ UNCHANGED callVars

\* The service declines the request without acting on it.
Decline(c) ==
  /\ flying[c] > 0
  /\ flying' = [flying EXCEPT ![c] = @ - 1]
  /\ \/ UNCHANGED answer
     \/ /\ Waiting(c) /\ answer[c] = NoAnswer
        /\ \E r \in Answers :
             r.status \in {"4xx", "5xx"} /\ answer' = [answer EXCEPT ![c] = r]
  /\ UNCHANGED <<callVars, performed>>

\* The connection breaks before a byte of the answer: the transport repeats the
\* request if that is repeatable.  The first copy may still arrive.
Repeat(c) ==
  /\ Waiting(c) /\ answer[c] = NoAnswer
  /\ Repeatable(c)
  /\ flying[c] + performed[c] < MaxPerformed
  /\ flying' = [flying EXCEPT ![c] = @ + 1]
  /\ UNCHANGED <<callVars, performed, answer>>

Receive(c) ==
  /\ Waiting(c) /\ answer[c] # NoAnswer
  /\ Return(c, IF IsResult(call[c].tool, answer[c]) THEN "result" ELSE "error")
  /\ answer' = [answer EXCEPT ![c] = NoAnswer]
  /\ UNCHANGED <<up, keys, flying, performed>>

\* The client's timeout (15 s in api_caller, 20 s in web_search, 30 s in the
\* others), a broken connection, or the end of the caller's context.
\* Mutant: the client has no timeout.
GiveUp_never(c) ==
  /\ Waiting(c) /\ answer[c] # NoAnswer
  /\ Return(c, "error")
  /\ answer' = [answer EXCEPT ![c] = NoAnswer]
  /\ UNCHANGED <<up, keys, flying, performed>>

GiveUp(c) ==
  /\ Waiting(c)
  /\ Return(c, "error")
  /\ answer' = [answer EXCEPT ![c] = NoAnswer]
  /\ UNCHANGED <<up, keys, flying, performed>>

NetStep(c) == Send(c) \/ Receive(c) \/ GiveUp(c)

Network(c) == Perform(c) \/ Decline(c) \/ Repeat(c)

-----------------------------------------------------------------------------
\* The caller asked for a request that may be carried out twice: it named a
\* method that changes nothing, in capitals or not, left the choice of it to
\* api_caller, or sent an idempotency key along.
MayRepeat(t, a) ==
  \/ /\ t \in {"api_caller", "wildberries"}
     /\ "method" \in DOMAIN a /\ a.method \in Strings
     /\ Capitals[a.method] \in SafeMethods \cup {""}
  \/ t = "api_caller" /\ ("method" \in DOMAIN a => a.method \notin Strings)
  \/ t = "api_caller" /\ "headers" \in DOMAIN a /\ a.headers = "keyed"

\* However late and however often requests and answers arrive, and whether or
\* not the tool has given up on them: the service acts at most once on what the
\* agent did not itself ask for in a form that may be repeated (an order of ozon,
\* a search, another method), and no result is returned unless it has acted.
ResultsWerePerformed ==
  \A c \in Calls : IsNetCall(c) =>
    /\ performed[c] > 1 => MayRepeat(call[c].tool, call[c].args)
    /\ call[c].reply = "result" => performed[c] >= 1
=============================================================================
