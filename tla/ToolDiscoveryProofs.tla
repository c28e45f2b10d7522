------------------------- MODULE ToolDiscoveryProofs -------------------------
(***************************************************************************)
(* The safety of ToolDiscovery, for any tools, names, number of attempts   *)
(* and number of incarnations of the server.                               *)
(***************************************************************************)
EXTENDS ToolDiscovery, TLAPS

-----------------------------------------------------------------------------
\* Type correctness.  The loop of attempts is left at its last one, and a tool
\* that is checked has a name.

Dialing ==
  /\ pc \in {"dial", "check"} => tool \in Tools
  /\ pc = "dial" => attempts < MaxRetries
  /\ pc = "check" => name[tool] \in Names
  /\ pc # "down" => inc > 0

Types == TypeOK /\ Dialing

\* Every action keeps every variable in its type.
LEMMA TypesInvariant == Spec => []Types
<1> USE MaxRetriesAssumption, IncarnationsAssumption
<1>1. Init => Types
  BY DEF Init, Types, TypeOK, Dialing, Processes
<1>2. Types /\ [Next]_vars => Types'
  <2> SUFFICES ASSUME Types, [Next]_vars PROVE Types'
    OBVIOUS
  <2> USE DEF Types, TypeOK, Entries, Dialing, Visit, Dial
  <2>1. CASE Boot
    BY <2>1 DEF Boot
  <2>2. ASSUME NEW t \in Tools, Skip(t) PROVE Types'
    BY <2>2 DEF Skip
  <2>3. ASSUME NEW t \in Tools, Launch(t) PROVE Types'
    <3>1. <<t, inc>> \in Processes
      BY DEF Processes
    <3> QED
      BY <2>3, <3>1 DEF Launch
  <2>4. ASSUME NEW t \in Tools, Expect(t) PROVE Types'
    BY <2>4 DEF Expect
  <2>5. CASE Describe
    BY <2>5 DEF Describe
  <2>6. CASE AttemptFails
    BY <2>6 DEF AttemptFails
  <2>7. CASE Register
    BY <2>7 DEF Register
  <2>8. CASE OpenPorts \/ OpenFails
    <3>1. pc # "down" => inc \in 1..MaxIncarnations
      OBVIOUS
    <3> QED
      BY <2>8, <3>1 DEF OpenPorts, OpenFails, Walked
  <2>9. CASE Crash
    BY <2>9 DEF Crash
  <2>10. CASE Stop
    BY <2>10 DEF Stop
  <2>11. ASSUME NEW p \in Processes,
                Listen(p) \/ ListenFails(p) \/ Hang(p) \/ Recover(p) \/ Die(p)
         PROVE  Types'
    BY <2>11 DEF Listen, ListenFails, Hang, Recover, Die, Become, server
  <2>12. CASE UNCHANGED vars
    BY <2>12 DEF vars, server
  <2> QED
    BY <2>1, <2>2, <2>3, <2>4, <2>5, <2>6, <2>7, <2>8, <2>9, <2>10, <2>11, <2>12
    DEF Next, Startup
<1> QED
  BY <1>1, <1>2, PTL DEF Spec

\* Every variable has its type in every reachable state.
THEOREM TypeCorrect == Spec => []TypeOK
  BY TypesInvariant, PTL DEF Types

-----------------------------------------------------------------------------
\* Processes.  server.toolCmds starts out empty with every incarnation, so what
\* a crash leaves behind belongs to the incarnation that crashed.

CommandsAreOwn == \A p \in toolCmds : p[2] = inc

\* The running server can kill every process that no crash has orphaned.
THEOREM NoOtherOrphans == Spec => []OrphansComeFromCrashes
<1> DEFINE Inv == CommandsAreOwn /\ OrphansComeFromCrashes
<1>1. Init => Inv
  BY DEF Init, CommandsAreOwn, OrphansComeFromCrashes, Alive, Processes
<1>2. Types /\ Inv /\ [Next]_vars => Inv'
  <2> SUFFICES ASSUME Types, Inv, [Next]_vars PROVE Inv'
    OBVIOUS
  <2> USE DEF Types, TypeOK, CommandsAreOwn, OrphansComeFromCrashes, Alive
  <2>1. CASE Boot
    BY <2>1 DEF Boot
  <2>2. ASSUME NEW t \in Tools, Launch(t) PROVE Inv'
    <3>1. <<t, inc>> \in Processes /\ <<t, inc>>[2] = inc
      BY DEF Processes
    <3> QED
      BY <2>2, <3>1 DEF Launch, Visit, Dial
  <2>3. ASSUME NEW t \in Tools, Skip(t) \/ Expect(t) PROVE Inv'
    BY <2>3 DEF Skip, Expect, Visit, Dial
  <2>4. CASE Describe \/ AttemptFails \/ Register \/ OpenPorts
    BY <2>4 DEF Describe, AttemptFails, Register, OpenPorts, Walked
  <2>5. CASE OpenFails \/ Crash
    BY <2>5 DEF OpenFails, Crash, Walked
  <2>6. CASE Stop
    BY <2>6 DEF Stop
  <2>7. ASSUME NEW p \in Processes,
               Listen(p) \/ ListenFails(p) \/ Hang(p) \/ Recover(p) \/ Die(p)
        PROVE  Inv'
    BY <2>7 DEF Listen, ListenFails, Hang, Recover, Die, Become, server
  <2>8. CASE UNCHANGED vars
    BY <2>8 DEF vars, server
  <2> QED
    BY <2>1, <2>2, <2>3, <2>4, <2>5, <2>6, <2>7, <2>8 DEF Next, Startup
<1> QED
  BY <1>1, <1>2, TypesInvariant, PTL DEF Spec

-----------------------------------------------------------------------------
\* Registration.  A tool that has given its description is registered, or it is
\* the one under its initial health check.

Registration ==
  /\ pc = "check" => tool \in answered
  /\ pc # "down" =>
       \A t \in answered :
         name[t] \in Names => tools[name[t]] # NoTool \/ (pc = "check" /\ t = tool)
  /\ \A n \in Names : tools[n] # NoTool => tools[n].tool \in answered /\ name[tools[n].tool] = n

\* No tool that has described itself is lost.
THEOREM DescribedAreRegistered == Spec => []DescribedToolsRegistered
<1>1. Init => Registration
  BY DEF Init, Registration
<1>2. Types /\ Registration /\ [Next]_vars => Registration'
  <2> SUFFICES ASSUME Types, Registration, [Next]_vars PROVE Registration'
    OBVIOUS
  <2> USE DEF Types, TypeOK, Dialing, Registration
  <2>1. CASE Boot
    BY <2>1 DEF Boot
  <2>2. ASSUME NEW t \in Tools, Skip(t) \/ Launch(t) \/ Expect(t) PROVE Registration'
    BY <2>2 DEF Skip, Launch, Expect, Visit, Dial
  <2>3. CASE Describe
    BY <2>3, NoNameAssumption DEF Describe
  <2>4. CASE AttemptFails
    BY <2>4 DEF AttemptFails
  <2>5. CASE Register
    <3>1. PICK s \in {"SERVING", "NOT_SERVING"} :
            tools' = [tools EXCEPT ![name[tool]] = [tool |-> tool, status |-> s]]
      BY <2>5 DEF Register
    <3>2. tools'[name[tool]] = [tool |-> tool, status |-> s]
      BY <2>5, <3>1 DEF Register
    <3>3. \A n \in Names : n # name[tool] => tools'[n] = tools[n]
      BY <3>1
    <3>4. [tool |-> tool, status |-> s] # NoTool
      BY <2>5, NoToolAssumption DEF Register, Entries
    <3> QED
      BY <2>5, <3>2, <3>3, <3>4 DEF Register
  <2>6. CASE OpenPorts \/ OpenFails \/ Crash \/ Stop
    BY <2>6 DEF OpenPorts, OpenFails, Walked, Crash, Stop
  <2>7. ASSUME NEW p \in Processes,
               Listen(p) \/ ListenFails(p) \/ Hang(p) \/ Recover(p) \/ Die(p)
        PROVE  Registration'
    BY <2>7 DEF Listen, ListenFails, Hang, Recover, Die, Become, server
  <2>8. CASE UNCHANGED vars
    BY <2>8 DEF vars, server
  <2> QED
    BY <2>1, <2>2, <2>3, <2>4, <2>5, <2>6, <2>7, <2>8 DEF Next, Startup
<1>3. Types /\ Registration => DescribedToolsRegistered
  BY DEF Types, TypeOK, Registration, DescribedToolsRegistered
<1> QED
  BY <1>1, <1>2, <1>3, TypesInvariant, PTL DEF Spec
=============================================================================
