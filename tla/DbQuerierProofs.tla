--------------------------- MODULE DbQuerierProofs ---------------------------
(***************************************************************************)
(* db_querier returns what one version of the table holds, for every table *)
(* size, every list of column names, repeated ones included, and every     *)
(* number of changes other calls make meanwhile.  The rows collected so    *)
(* far are, row by row, those of the version the query was started on      *)
(* (RowsInv).  The type correctness of all the tools together is last.     *)
(***************************************************************************)
EXTENDS FileToolsProofs, NetworkToolsProofs, WellFoundedInduction

LEMMA SmallestOf ==
  ASSUME NEW T \in SUBSET Nat, T # {}
  PROVE  \E x \in T : \A y \in T : x <= y
<1>1. \A x, y \in Nat : y < x => <<y, x>> \in OpToRel(<, Nat)
  BY SMT DEF OpToRel
<1>2. PICK R : IsWellFoundedOn(R, Nat) /\ \A x, y \in Nat : y < x => <<y, x>> \in R
  BY <1>1, NatLessThanWellFounded, Zenon
<1>3. \E x \in T : \A y \in T : <<y, x>> \notin R
  BY <1>2, WFMin
<1>4. PICK x \in T : \A y \in T : ~(y < x)
  BY <1>2, <1>3
<1>5. \A y \in T : x <= y
  BY <1>4
<1> QED
  BY <1>5

LEMMA LargestOf ==
  ASSUME NEW n \in Nat, NEW S \in SUBSET (1..n), S # {}
  PROVE  \E k \in S : \A j \in S : j <= k
<1> DEFINE T == {i \in Nat : i <= n /\ n - i \in S}
<1>1. PICK k \in S : TRUE
  OBVIOUS
<1>2. n - k \in T
  BY <1>1
<1>3. PICK x \in T : \A y \in T : x <= y
  BY <1>2, SmallestOf
<1>4. \A j \in S : n - j \in T
  OBVIOUS
<1>5. n - x \in S /\ \A j \in S : j <= n - x
  BY <1>3, <1>4
<1> QED
  BY <1>5

\* A row map has the names of the columns, and under each of them a value of a
\* column of that name.
LEMMA RowMapHolds ==
  ASSUME NEW i, NEW v
  PROVE  /\ DOMAIN RowMap(Row(i, v)) = {Columns[k] : k \in DOMAIN Columns}
         /\ \A k \in DOMAIN Columns :
              \E j \in DOMAIN Columns :
                Columns[j] = Columns[k] /\ RowMap(Row(i, v))[Columns[k]] = <<i, j, v>>
<1>1. DOMAIN RowMap(Row(i, v)) = {Columns[k] : k \in DOMAIN Columns}
  BY DEF RowMap
<1>2. ASSUME NEW k \in DOMAIN Columns
      PROVE  \E j \in DOMAIN Columns :
               Columns[j] = Columns[k] /\ RowMap(Row(i, v))[Columns[k]] = <<i, j, v>>
  <2> DEFINE S == {j \in DOMAIN Columns : Columns[j] = Columns[k]}
             Last(j) == Columns[j] = Columns[k] /\
                          \A l \in DOMAIN Columns : Columns[l] = Columns[k] => l <= j
             j0 == CHOOSE j \in DOMAIN Columns : Last(j)
  <2>1. Len(Columns) \in Nat /\ DOMAIN Columns = 1..Len(Columns)
    BY TableAssumption
  <2>2. S \in SUBSET (1..Len(Columns)) /\ S # {}
    BY <2>1
  <2>3. \E j \in S : \A l \in S : l <= j
    BY <2>1, <2>2, LargestOf
  <2>4. \E j \in DOMAIN Columns : Last(j)
    BY <2>3
  <2>5. j0 \in DOMAIN Columns /\ Last(j0)
    BY <2>4
  <2>6. RowMap(Row(i, v))[Columns[k]] = Row(i, v)[j0]
    BY DEF RowMap
  <2>7. Row(i, v)[j0] = <<i, j0, v>>
    BY <2>5 DEF Row
  <2> QED
    BY <2>5, <2>6, <2>7
<1> QED
  BY <1>1, <1>2

-----------------------------------------------------------------------------
RowMaps == {RowMap(Row(i, v)) : i \in Nat, v \in Nat}

IsDbCall(c) == Made(c) /\ call[c].tool = "db_querier"

EmptyInv(c) == ~Made(c) \/ (IsDbCall(c) /\ call[c].pc = "begun") => rows[c] = <<>>

RowsInv(c) ==
  \E v \in 0..version :
    /\ v = snapshot[c]
    /\ \A i \in 1..Len(rows[c]) : rows[c][i] = RowMap(Row(i, v))

WholeInv(c) ==
  /\ IsDbCall(c) /\ call[c].reply = "result" /\ c \notin failed /\ ~IsUpdate(c)
  => Len(rows[c]) = TableSize

QueryInv(c) == EmptyInv(c) /\ RowsInv(c) /\ WholeInv(c)

DInv ==
  /\ TypeOKDb
  /\ rows \in [Calls -> Seq(RowMaps)]
  /\ \A c \in Calls : QueryInv(c)

\* A call whose query does not move.
OffTheTable(d) ==
  \/ call'[d] = call[d]
  \/ Starts(d)
  \/ Killed(d)
  \/ /\ Made(d) /\ Made(d)'
     /\ call[d].tool # "db_querier" /\ call'[d].tool = call[d].tool

LEMMA OffTheTableKeepsQueryInv ==
  ASSUME NEW d \in Calls, QueryInv(d), OffTheTable(d), version \in Nat, version' \in Nat,
         rows'[d] = rows[d], snapshot'[d] = snapshot[d], version <= version',
         d \in failed => d \in failed'
  PROVE  QueryInv(d)'
<1>1. EmptyInv(d)'
  BY DEF QueryInv, EmptyInv, IsDbCall, OffTheTable, Starts, Killed, Made
<1>2. RowsInv(d)'
  BY DEF QueryInv, RowsInv
<1>3. WholeInv(d)'
  BY DEF QueryInv, WholeInv, IsDbCall, IsUpdate, OffTheTable, Starts, Killed, Made
<1> QED
  BY <1>1, <1>2, <1>3 DEF QueryInv

LEMMA OthersKeepDInv ==
  ASSUME DInv, UNCHANGED dbVars, OutsidersKeepOut(DbTool)
  PROVE  DInv'
  BY OffTheTableKeepsQueryInv
  DEF DInv, TypeOKDb, dbVars, OutsidersKeepOut, OffTheTable, DbTool

\* What is left to show of a step of the query of c: that c is well.
LEMMA OneQueryMoves ==
  ASSUME DInv, NEW c \in Calls, \A d \in Calls \ {c} : call'[d] = call[d],
         \A d \in Calls \ {c} : rows'[d] = rows[d] /\ snapshot'[d] = snapshot[d],
         version' \in Nat, version <= version', failed \subseteq failed',
         TypeOKDb', rows' \in [Calls -> Seq(RowMaps)], QueryInv(c)'
  PROVE  DInv'
<1>1. version \in Nat
  BY TableAssumption DEF DInv, TypeOKDb
<1>2. ASSUME NEW d \in Calls, d # c PROVE QueryInv(d)'
  BY <1>1, <1>2, OffTheTableKeepsQueryInv DEF DInv, OffTheTable
<1> QED
  BY <1>2 DEF DInv

LEMMA OpenDbKeepsDInv ==
  ASSUME TypeOKCalls, DInv, NEW c \in Calls, OpenDb(c)
  PROVE  DInv'
<1>1. /\ IsDbCall(c) /\ Made(c) /\ call[c].pc = "begun" /\ UNCHANGED <<up, keys>>
      /\ version' = version /\ rows' = rows /\ failed' = failed
  BY DEF OpenDb, At, IsDbCall
<1>2. rows[c] = <<>> /\ version \in Nat /\ TypeOKDb /\ snapshot[c] \in 0..version
  BY <1>1, TableAssumption DEF DInv, TypeOKDb, QueryInv, EmptyInv, RowsInv
<1>3. PICK l \in {"stepping", "done"}, r \in {"none", "error"} : Moves(c, l, r)
  BY <1>1, GotoMoves, ReturnMoves DEF OpenDb, Pcs, Replies
<1>4. \/ snapshot' = snapshot
      \/ snapshot' = [snapshot EXCEPT ![c] = version]
  BY DEF OpenDb
<1>5. snapshot'[c] \in 0..version /\ \A d \in Calls \ {c} : snapshot'[d] = snapshot[d]
  BY <1>2, <1>4 DEF TypeOKDb
<1>6. TypeOKDb' /\ rows' \in [Calls -> Seq(RowMaps)]
  BY <1>1, <1>2, <1>4 DEF TypeOKDb, DInv
<1>7. QueryInv(c)'
  BY <1>1, <1>2, <1>3, <1>5 DEF Moves, QueryInv, EmptyInv, RowsInv, WholeInv, IsDbCall
<1> QED
  BY <1>1, <1>2, <1>3, <1>5, <1>6, <1>7, OneQueryMoves DEF Moves

LEMMA NextRowKeepsDInv ==
  ASSUME TypeOKCalls, DInv, NEW c \in Calls, NextRow(c)
  PROVE  DInv'
<1>1. /\ IsDbCall(c) /\ call[c].pc = "stepping" /\ Made(c)
      /\ call' = call /\ version' = version /\ snapshot' = snapshot /\ failed' = failed
      /\ Len(rows[c]) < TableSize
  BY DEF NextRow, Queries, At, IsDbCall, callVars
<1>2. /\ TypeOKDb /\ version \in Nat /\ snapshot[c] \in Nat /\ TableSize \in Nat
      /\ rows[c] \in Seq(RowMaps) /\ Len(rows[c]) \in Nat
      /\ \A j \in 1..Len(rows[c]) : rows[c][j] = RowMap(Row(j, snapshot[c]))
      /\ snapshot[c] \in 0..version
  BY TableAssumption DEF DInv, TypeOKDb, QueryInv, RowsInv
<1> DEFINE i == Len(rows[c]) + 1
           m == RowMap(Row(i, snapshot[c]))
           x == Append(rows[c], m)
<1>3. rows' = [rows EXCEPT ![c] = x]
  BY DEF NextRow
<1>4. m \in RowMaps
  BY SMTT(30), <1>2 DEF RowMaps
<1> HIDE DEF m
<1>5. /\ x \in Seq(RowMaps) /\ Len(x) = i /\ x[i] = m
      /\ \A j \in 1..Len(rows[c]) : x[j] = rows[c][j]
  BY <1>2, <1>4
<1> HIDE DEF x
<1>6. rows'[c] = x /\ rows' \in [Calls -> Seq(RowMaps)] /\ \A d \in Calls \ {c} : rows'[d] = rows[d]
  BY <1>3, <1>5 DEF DInv
<1>7. TypeOKDb'
  <2>1. DOMAIN rows' = Calls
    BY <1>6
  <2>2. Len(rows'[c]) \in 0..TableSize
    <3>1. i \in 0..TableSize
      BY <1>1, <1>2
    <3> QED
      BY <1>5, <1>6, <3>1
  <2>3. \A d \in Calls : Len(rows'[d]) \in 0..TableSize
    BY <1>2, <1>6, <2>2 DEF TypeOKDb
  <2> QED
    BY <1>1, <1>2, <2>1, <2>3 DEF TypeOKDb
<1>8. \A j \in 1..i : x[j] = RowMap(Row(j, snapshot[c]))
  <2>1. \A j \in 1..i : j = i \/ j \in 1..Len(rows[c])
    BY <1>2
  <2> QED
    BY <1>2, <1>5, <2>1 DEF m
<1>9. RowsInv(c)'
  BY <1>1, <1>2, <1>5, <1>6, <1>8 DEF RowsInv
<1>10. EmptyInv(c)' /\ WholeInv(c)'
  BY <1>1 DEF EmptyInv, WholeInv, IsDbCall, Made, TypeOKCalls
<1> QED
  BY <1>1, <1>2, <1>6, <1>7, <1>9, <1>10, OneQueryMoves DEF QueryInv

\* The rows end, or the statement fails.
LEMMA EndKeepsDInv ==
  ASSUME TypeOKCalls, DInv, NEW c \in Calls, EndOfRows(c) \/ NextFails(c)
  PROVE  DInv'
<1>1. /\ IsDbCall(c) /\ call[c].pc = "stepping" /\ Made(c) /\ UNCHANGED <<up, keys>>
      /\ snapshot' = snapshot /\ rows' = rows
  BY DEF EndOfRows, NextFails, Queries, At, IsDbCall
<1>2. PICK r \in {"result", "error"} : Moves(c, "done", r)
  BY <1>1, ReturnMoves DEF EndOfRows, NextFails, Replies
<1>3. /\ TypeOKDb /\ version \in Nat /\ TableSize \in Nat /\ MaxVersion \in Nat
      /\ snapshot[c] \in 0..version
  BY TableAssumption DEF DInv, TypeOKDb, QueryInv, RowsInv
<1>4. version' \in 0..MaxVersion /\ version <= version'
  BY <1>3 DEF EndOfRows, NextFails, TypeOKDb
<1>5. /\ failed' \in SUBSET Calls /\ failed \subseteq failed'
      /\ c \notin failed' /\ ~IsUpdate(c) => Len(rows[c]) = TableSize
  BY <1>3 DEF EndOfRows, NextFails, TypeOKDb
<1>6. TypeOKDb' /\ rows' \in [Calls -> Seq(RowMaps)]
  BY <1>1, <1>3, <1>4, <1>5 DEF TypeOKDb, DInv
<1>7. IsUpdate(c)' <=> IsUpdate(c)
  BY <1>2 DEF Moves, IsUpdate
<1>8. EmptyInv(c)' /\ WholeInv(c)'
  BY <1>1, <1>2, <1>5, <1>7 DEF Moves, EmptyInv, WholeInv, IsDbCall, Made
<1>9. RowsInv(c)'
  BY <1>1, <1>3, <1>4 DEF DInv, QueryInv, RowsInv
<1> QED
  BY <1>1, <1>2, <1>4, <1>5, <1>6, <1>8, <1>9, OneQueryMoves DEF Moves, QueryInv

-----------------------------------------------------------------------------
LEMMA QueriesInvariant == Spec => []DInv
<1>1. Init => DInv
  BY TableAssumption DEF Init, InitCalls, InitDb, DInv, TypeOKDb, QueryInv, EmptyInv, RowsInv,
     WholeInv, IsDbCall, Made
<1>2. TypeOKCalls /\ DInv /\ [Next]_vars => DInv'
  BY DbToolOrOthers, OthersKeepDInv, OpenDbKeepsDInv, NextRowKeepsDInv, EndKeepsDInv DEF DbStep
<1> QED
  BY <1>1, <1>2, CallTypes, PTL DEF Spec

\* A query whose statement ran to its end returns every row once, in order, and
\* all of them from one version of the table.
THEOREM CompleteResultsAreExact == Spec => []CompleteResultsExact
<1>1. DInv => CompleteResultsExact
  <2> SUFFICES ASSUME DInv, NEW c \in Calls, IsDbCall(c), call[c].reply = "result",
                      c \notin failed, ~IsUpdate(c)
               PROVE  /\ DOMAIN rows[c] = 1..TableSize
                      /\ \E v \in 0..version : \A i \in 1..TableSize :
                           /\ DOMAIN rows[c][i] = {Columns[k] : k \in DOMAIN Columns}
                           /\ \A k \in DOMAIN Columns :
                                \E j \in DOMAIN Columns :
                                  /\ Columns[j] = Columns[k]
                                  /\ rows[c][i][Columns[k]] = <<i, j, v>>
    BY DEF CompleteResultsExact, IsDbCall
  <2>1. QueryInv(c) /\ rows[c] \in Seq(RowMaps)
    BY DEF DInv
  <2>2. DOMAIN rows[c] = 1..TableSize /\ Len(rows[c]) = TableSize
    BY <2>1 DEF QueryInv, WholeInv
  <2>3. /\ snapshot[c] \in 0..version
        /\ \A i \in 1..TableSize : rows[c][i] = RowMap(Row(i, snapshot[c]))
    BY <2>1, <2>2 DEF QueryInv, RowsInv
  <2>4. PICK v \in 0..version : v = snapshot[c]
    BY <2>3
  <2>5. ASSUME NEW i \in 1..TableSize
        PROVE  /\ DOMAIN rows[c][i] = {Columns[k] : k \in DOMAIN Columns}
               /\ \A k \in DOMAIN Columns :
                    \E j \in DOMAIN Columns :
                      Columns[j] = Columns[k] /\ rows[c][i][Columns[k]] = <<i, j, v>>
    <3>1. rows[c][i] = RowMap(Row(i, v))
      BY <2>3, <2>4
    <3> DEFINE m == RowMap(Row(i, v))
    <3>2. /\ DOMAIN m = {Columns[k] : k \in DOMAIN Columns}
          /\ \A k \in DOMAIN Columns :
               \E j \in DOMAIN Columns : Columns[j] = Columns[k] /\ m[Columns[k]] = <<i, j, v>>
      BY RowMapHolds, Zenon
    <3> HIDE DEF m
    <3>3. rows[c][i] = m
      BY <3>1 DEF m
    <3> QED
      BY <3>2, <3>3, Zenon
  <2> QED
    BY <2>2, <2>5
<1> QED
  BY <1>1, QueriesInvariant, PTL

-----------------------------------------------------------------------------
\* Every variable of the tools has its type.
THEOREM ToolTypesCorrect == Spec => []TypeOK
<1>1. TypeOKCalls /\ FInv /\ NInv /\ DInv => TypeOK
  BY DEF FInv, NInv, DInv, TypeOK
<1> QED
  BY <1>1, CallTypes, FilesInvariant, RequestsInvariant, QueriesInvariant, PTL
=============================================================================
