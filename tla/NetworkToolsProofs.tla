------------------------- MODULE NetworkToolsProofs -------------------------
(***************************************************************************)
(* What becomes of the requests of the network tools, for every set of     *)
(* calls and answers.  The copies of a request that are under way are      *)
(* counted together with those the service has acted on (RequestInv): only *)
(* the transport makes another copy, and only of a request its caller gave *)
(* a form in which it may be repeated, so a late delivery cannot make a    *)
(* second one.                                                             *)
(***************************************************************************)
EXTENDS ToolsProofs

MayRepeatCall(c) == MayRepeat(call[c].tool, call[c].args)

IdleInv(c) ==
  ~IsNetCall(c) \/ call[c].pc = "begun" =>
    flying[c] = 0 /\ performed[c] = 0 /\ answer[c] = NoAnswer

RequestInv(c) ==
  /\ flying[c] + performed[c] <= MaxPerformed
  /\ IsNetCall(c) => flying[c] + performed[c] <= 1 \/ MayRepeatCall(c)

AnswerInv(c) ==
  answer[c] # NoAnswer /\ answer[c].status \in {"200", "2xx"} => performed[c] >= 1

ResultInv(c) ==
  IsNetCall(c) /\ call[c].reply = "result" => performed[c] >= 1

NetInv(c) == IdleInv(c) /\ RequestInv(c) /\ AnswerInv(c) /\ ResultInv(c)

NInv == TypeOKNet /\ \A c \in Calls : NetInv(c)

\* A result is an answer with a status of success, whichever tool makes it.
LEMMA ResultsAreSuccesses ==
  ASSUME NEW t \in NetTools, NEW r, IsResult(t, r)
  PROVE  r.status \in {"200", "2xx"}
  BY DEF NetTools, IsResult, ApiCallerResult, OzonResult, WebSearchResult, WildberriesResult

\* What the transport repeats by itself, the caller asked for in such a form.
LEMMA RepeatsWereAskedFor ==
  ASSUME TypeOKCalls, ContractInv, NEW c \in Calls, Running(c),
         call[c].tool \in NetTools, Repeatable(c)
  PROVE  MayRepeat(call[c].tool, call[c].args)
<1> DEFINE t == call[c].tool  a == call[c].args
<1>1. CASE HasIdempotencyKey(c)
  BY <1>1 DEF HasIdempotencyKey, MayRepeat
<1>2. CASE Method(c) \in SafeMethods
  <2>1. ASSUME NEW s, RequestMethod(s) \in SafeMethods
        PROVE  Capitals[s] \in SafeMethods \cup {""}
    BY <2>1 DEF RequestMethod
  <2>2. CASE t = "api_caller"
    <3>1. Method(c) = ApiCallerMethod(a)
      BY <2>2 DEF Method
    <3>2. CASE "method" \in DOMAIN a /\ a.method \in Strings
      <4>1. RequestMethod(a.method) \in SafeMethods
        BY <1>2, <3>1, <3>2 DEF ApiCallerMethod
      <4> QED
        BY <2>1, <2>2, <3>2, <4>1 DEF MayRepeat
    <3>3. CASE ~("method" \in DOMAIN a /\ a.method \in Strings)
      BY <2>2, <3>3 DEF MayRepeat
    <3> QED
      BY <3>2, <3>3
  <2>3. CASE t = "wildberries"
    <3>1. Method(c) = RequestMethod(a.method)
      BY <2>3 DEF Method, WildberriesMethod
    <3>2. Accepted(t, a)
      <4>1. call[c].reply = "none" /\ Made(c)
        BY DEF Running, Made, TypeOKCalls
      <4>2. Sound(t, a) /\ t # "list_directory"
        BY <2>3, <4>1 DEF ContractInv, KeepsContract
      <4> QED
        BY <4>2 DEF Sound, Refusable
    <3>3. "method" \in DOMAIN a /\ a.method \in Strings
      BY <2>3, <3>2 DEF Accepted, Needs, WildberriesNeeds, HasType
    <3>4. Capitals[a.method] \in SafeMethods \cup {""}
      BY <1>2, <2>1, <3>1
    <3> QED
      BY <2>3, <3>3, <3>4 DEF MayRepeat
  <2>4. CASE t \in {"ozon", "web_search"}
    <3>1. Method(c) = "POST"
      BY <2>4 DEF Method, OzonMethod, WebSearchMethod
    <3> QED
      BY <1>2, <3>1 DEF SafeMethods
  <2> QED
    BY <2>2, <2>3, <2>4 DEF NetTools
<1> QED
  BY <1>1, <1>2 DEF Repeatable

\* The record of a call in which nothing happens to the request.
Bystander(d) ==
  \/ call'[d] = call[d]
  \/ Starts(d)
  \/ Killed(d)
  \/ /\ Made(d) /\ Made(d)'
     /\ call[d].tool \notin NetTools /\ call'[d].tool = call[d].tool

LEMMA BystanderKeepsNetInv ==
  ASSUME NEW d \in Calls, TypeOKNet, NetInv(d), Bystander(d),
         flying'[d] = flying[d], performed'[d] = performed[d], answer'[d] = answer[d]
  PROVE  NetInv(d)'
<1>1. IdleInv(d)'
  BY DEF NetInv, IdleInv, Bystander, Starts, Killed, Made, IsNetCall
<1>2. AnswerInv(d)'
  BY DEF NetInv, AnswerInv
<1>3. ResultInv(d)'
  BY DEF NetInv, ResultInv, Bystander, Starts, Killed, Made, IsNetCall
<1>4. RequestInv(d)'
  <2>1. CASE Starts(d)
    <3>1. flying[d] = 0 /\ performed[d] = 0
      BY <2>1 DEF Starts, NetInv, IdleInv, IsNetCall
    <3> QED
      BY <3>1, MaxPerformedAssumption DEF RequestInv
  <2>2. CASE ~Starts(d)
    <3>1. /\ IsNetCall(d)' => IsNetCall(d)
          /\ IsNetCall(d) => call'[d].tool = call[d].tool /\ call'[d].args = call[d].args
      BY <2>2 DEF Bystander, Killed, Made, IsNetCall, Running
    <3>2. IsNetCall(d) => (MayRepeatCall(d) <=> MayRepeatCall(d)')
      BY <3>1 DEF MayRepeatCall
    <3> QED
      BY <3>1, <3>2 DEF NetInv, RequestInv
  <2> QED
    BY <2>1, <2>2
<1> QED
  BY <1>1, <1>2, <1>3, <1>4 DEF NetInv

LEMMA OthersKeepNInv ==
  ASSUME NInv, UNCHANGED netVars, OutsidersKeepOut(NetTools)
  PROVE  NInv'
  BY BystanderKeepsNetInv DEF NInv, TypeOKNet, netVars, OutsidersKeepOut, Bystander

-----------------------------------------------------------------------------
\* The request goes out, the tool ends with its answer or without.
LEMMA NetStepKeepsNInv ==
  ASSUME TypeOKCalls, NInv, NEW c \in Calls, NetStep(c)
  PROVE  NInv'
<1>1. /\ Running(c) /\ Made(c) /\ IsNetCall(c) /\ performed' = performed
      /\ UNCHANGED <<up, keys>> /\ call[c].tool \in NetTools
  BY DEF NetStep, Send, Receive, GiveUp, Waiting, IsNetCall, Running
<1>2. ASSUME NEW l \in Pcs, NEW r \in Replies, Moves(c, l, r)
      PROVE  /\ IsNetCall(c)' /\ (MayRepeatCall(c) <=> MayRepeatCall(c)')
             /\ \A d \in Calls \ {c} : call'[d] = call[d]
  BY <1>1, <1>2 DEF Moves, IsNetCall, Made, MayRepeatCall
<1>3. ASSUME \A d \in Calls \ {c} : call'[d] = call[d],
             \A d \in Calls \ {c} : flying'[d] = flying[d] /\ answer'[d] = answer[d],
             TypeOKNet', NetInv(c)'
      PROVE  NInv'
  <2>1. \A d \in Calls \ {c} : NetInv(d)'
    BY <1>1, <1>3, BystanderKeepsNetInv DEF NInv, Bystander
  <2> QED
    BY <1>3, <2>1 DEF NInv
<1>4. TypeOKNet /\ NetInv(c) /\ flying[c] \in Nat /\ performed[c] \in Nat
  BY DEF NInv, TypeOKNet
<1>5. CASE Send(c)
  <2>1. IsNetCall(c) /\ call[c].pc = "begun" /\ flying[c] = 0 /\ performed[c] = 0
    BY <1>5 DEF Send, NInv, NetInv, IdleInv
  <2>2. answer' = answer
    BY <1>5 DEF Send
  <2>3. CASE Goto(c, "waiting") /\ flying' = [flying EXCEPT ![c] = 1]
    <3>1. Moves(c, "waiting", "none")
      BY <1>1, <2>1, <2>3, GotoMoves DEF Pcs
    <3>2. TypeOKNet'
      BY <1>1, <2>2, <2>3, <1>4, MaxPerformedAssumption DEF TypeOKNet
    <3>3. flying'[c] = 1 /\ performed'[c] = 0
      BY <1>1, <1>4, <2>1, <2>3 DEF TypeOKNet
    <3>4. NetInv(c)'
      <4>1. IsNetCall(c)' /\ call'[c].pc # "begun" /\ call'[c].reply # "result"
        BY <1>1, <3>1 DEF Moves, IsNetCall
      <4>2. answer'[c] = NoAnswer
        BY <2>1, <2>2, <1>4 DEF NetInv, IdleInv
      <4> QED
        BY <3>3, <4>1, <4>2, MaxPerformedAssumption
        DEF NetInv, IdleInv, RequestInv, AnswerInv, ResultInv
    <3>5. \A d \in Calls \ {c} : flying'[d] = flying[d] /\ answer'[d] = answer[d]
      BY <1>4, <2>2, <2>3 DEF TypeOKNet
    <3> QED
      BY <1>3, <3>1, <3>2, <3>4, <3>5 DEF Moves
  <2>4. CASE Return(c, "error") /\ UNCHANGED flying
    <3>1. Moves(c, "done", "error")
      BY <1>1, <2>4, ReturnMoves DEF Replies
    <3>2. TypeOKNet'
      BY <1>1, <1>4, <2>2, <2>4 DEF TypeOKNet
    <3>3. NetInv(c)'
      BY <1>1, <1>2, <1>4, <2>1, <2>2, <2>4, <3>1, MaxPerformedAssumption
      DEF Moves, NetInv, IdleInv, RequestInv, AnswerInv, ResultInv
    <3> QED
      BY <1>3, <2>2, <2>4, <3>1, <3>2, <3>3 DEF Moves
  <2> QED
    BY <1>5, <2>3, <2>4 DEF Send
<1>6. CASE Receive(c) \/ GiveUp(c)
  <2>1. PICK r \in {"result", "error"} :
          Return(c, r) /\ (r = "result" => answer[c] # NoAnswer /\ IsResult(call[c].tool, answer[c]))
    BY <1>6 DEF Receive, GiveUp
  <2>2. Moves(c, "done", r)
    BY <1>1, <2>1, ReturnMoves DEF Replies
  <2>3. /\ answer' = [answer EXCEPT ![c] = NoAnswer] /\ flying' = flying
        /\ IsNetCall(c)' /\ (MayRepeatCall(c) <=> MayRepeatCall(c)')
    BY <1>2, <1>6, <2>2 DEF Receive, GiveUp, Pcs, Replies
  <2>4. r = "result" => performed[c] >= 1
    BY <1>1, <1>4, <2>1, ResultsAreSuccesses DEF NetInv, AnswerInv
  <2>5. TypeOKNet' /\ answer'[c] = NoAnswer
    BY <1>1, <1>4, <2>3 DEF TypeOKNet
  <2>6. NetInv(c)'
    BY <1>1, <1>4, <2>2, <2>3, <2>4, <2>5
    DEF Moves, NetInv, IdleInv, RequestInv, AnswerInv, ResultInv
  <2>7. \A d \in Calls \ {c} : flying'[d] = flying[d] /\ answer'[d] = answer[d]
    BY <1>4, <2>3 DEF TypeOKNet
  <2> QED
    BY <1>3, <2>2, <2>5, <2>6, <2>7 DEF Moves
<1> QED
  BY <1>5, <1>6 DEF NetStep

\* The request reaches the service, is lost in the attempt, or is sent again.
LEMMA NetworkKeepsNInv ==
  ASSUME TypeOKCalls, ContractInv, NInv, NEW c \in Calls, Network(c)
  PROVE  NInv'
<1>1. /\ TypeOKNet /\ NetInv(c) /\ flying[c] \in Nat /\ performed[c] \in Nat
      /\ flying[c] + performed[c] <= MaxPerformed /\ MaxPerformed \in Nat
  BY MaxPerformedAssumption DEF NInv, TypeOKNet, NetInv, RequestInv
<1>2. call' = call
  BY DEF Network, Perform, Decline, Repeat, callVars
<1>3. IsNetCall(c) /\ IsNetCall(c)' /\ (MayRepeatCall(c) <=> MayRepeatCall(c)')
  BY <1>1, <1>2 DEF Network, Perform, Decline, Repeat, Waiting, IsNetCall, Made,
     NetInv, IdleInv, MayRepeatCall
<1>4. call[c].pc # "begun"
  BY <1>1 DEF Network, Perform, Decline, Repeat, Waiting, NetInv, IdleInv
<1>5. ASSUME NEW n \in Nat, NEW p \in Nat, NEW r \in Answers \cup {NoAnswer},
             flying' = [flying EXCEPT ![c] = n], performed' = [performed EXCEPT ![c] = p],
             answer' = [answer EXCEPT ![c] = r],
             n + p <= MaxPerformed, n + p <= flying[c] + performed[c] \/ MayRepeatCall(c),
             p >= performed[c],
             r = answer[c] \/ r.status \notin {"200", "2xx"} \/ p >= 1
      PROVE  NInv'
  <2>1. TypeOKNet'
    BY <1>1, <1>5 DEF TypeOKNet
  <2>2. flying'[c] = n /\ performed'[c] = p /\ answer'[c] = r
    BY <1>1, <1>5 DEF TypeOKNet
  <2>3. NetInv(c)'
    BY <1>1, <1>2, <1>3, <1>4, <1>5, <2>2 DEF NetInv, IdleInv, RequestInv, AnswerInv, ResultInv
  <2>4. ASSUME NEW d \in Calls \ {c} PROVE NetInv(d)'
    <3>1. flying'[d] = flying[d] /\ performed'[d] = performed[d] /\ answer'[d] = answer[d]
      BY <1>1, <1>5 DEF TypeOKNet
    <3> QED
      BY <1>1, <1>2, <3>1, BystanderKeepsNetInv DEF NInv, Bystander
  <2> QED
    BY <2>1, <2>3, <2>4 DEF NInv
<1>6. CASE Perform(c)
  <2> DEFINE n == flying[c] - 1  p == performed[c] + 1
  <2>1. /\ flying' = [flying EXCEPT ![c] = n] /\ performed' = [performed EXCEPT ![c] = p]
        /\ n \in Nat /\ p \in Nat /\ p >= 1 /\ p >= performed[c]
        /\ n + p <= MaxPerformed /\ n + p <= flying[c] + performed[c]
    BY <1>1, <1>6 DEF Perform
  <2>2. PICK r \in Answers \cup {NoAnswer} : answer' = [answer EXCEPT ![c] = r]
    BY <1>1, <1>6 DEF Perform, TypeOKNet
  <2> HIDE DEF n, p
  <2> QED
    BY <1>5, <2>1, <2>2
<1>7. CASE Decline(c)
  <2> DEFINE n == flying[c] - 1  p == performed[c]
  <2>1. /\ flying' = [flying EXCEPT ![c] = n] /\ performed' = [performed EXCEPT ![c] = p]
        /\ n \in Nat /\ p \in Nat /\ p >= performed[c]
        /\ n + p <= MaxPerformed /\ n + p <= flying[c] + performed[c]
    BY <1>1, <1>7 DEF Decline, TypeOKNet
  <2>2. PICK r \in Answers \cup {NoAnswer} :
          /\ answer' = [answer EXCEPT ![c] = r]
          /\ r = answer[c] \/ r.status \notin {"200", "2xx"}
    BY <1>1, <1>7 DEF Decline, TypeOKNet
  <2> HIDE DEF n, p
  <2> QED
    BY <1>5, <2>1, <2>2
<1>8. CASE Repeat(c)
  <2> DEFINE n == flying[c] + 1  p == performed[c]  r == answer[c]
  <2>1. /\ flying' = [flying EXCEPT ![c] = n] /\ performed' = [performed EXCEPT ![c] = p]
        /\ n \in Nat /\ p \in Nat /\ p >= performed[c]
        /\ n + p <= MaxPerformed
    BY <1>1, <1>8 DEF Repeat, TypeOKNet
  <2>2. answer' = [answer EXCEPT ![c] = r] /\ r \in Answers \cup {NoAnswer}
    BY <1>1, <1>8 DEF Repeat, TypeOKNet
  <2>3. MayRepeatCall(c)
    BY <1>8, RepeatsWereAskedFor DEF Repeat, Waiting, IsNetCall, Running, MayRepeatCall
  <2> HIDE DEF n, p
  <2> QED
    BY <1>5, <2>1, <2>2, <2>3
<1> QED
  BY <1>6, <1>7, <1>8 DEF Network

-----------------------------------------------------------------------------
LEMMA RequestsInvariant == Spec => []NInv
<1>1. Init => NInv
  BY MaxPerformedAssumption DEF Init, InitCalls, InitNet, NInv, TypeOKNet, NetInv, IdleInv,
     RequestInv, AnswerInv, ResultInv, IsNetCall, Made
<1>2. TypeOKCalls /\ ContractInv /\ NInv /\ [Next]_vars => NInv'
  BY NetToolsOrOthers, NetStepKeepsNInv, NetworkKeepsNInv, OthersKeepNInv
<1> QED
  BY <1>1, <1>2, CallTypes, ContractHolds, PTL DEF Spec

\* The service acts at most once on a request unless the caller's own arguments
\* make it one that may be repeated, and a result is never returned for one it
\* did not act on.
THEOREM RequestsArePerformedOnce == Spec => []ResultsWerePerformed
<1>1. NInv => ResultsWerePerformed
  BY DEF NInv, TypeOKNet, NetInv, RequestInv, ResultInv, MayRepeatCall,
     ResultsWerePerformed
<1> QED
  BY <1>1, RequestsInvariant, PTL
=============================================================================
