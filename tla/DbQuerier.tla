----------------------------- MODULE DbQuerier -----------------------------
(***************************************************************************)
(* db_querier (MCP-NG/tools/go/db_querier): a query on a SQLite database   *)
(* is stepped through row by row, while other calls change the table.      *)
(* SQLite is external: a query that reads sees the table as it was at its  *)
(* first step, one that changes the table is executed at its first step,   *)
(* and any step may fail (busy, constraint, I/O error).                    *)
(***************************************************************************)
EXTENDS ToolCalls, Naturals, Sequences

CONSTANTS
  Updates,     \* the queries, among Strings, that change the table
  Columns,     \* the names of the columns of a row, a sequence
  TableSize,   \* the number of rows
  MaxVersion   \* bound on the changes made to the table

ASSUME TableAssumption ==
  /\ Columns \in Seq(STRING)
  /\ TableSize \in Nat /\ MaxVersion \in Nat

VARIABLES
  version,   \* how often the table has been changed
  snapshot,  \* snapshot[c]: the version the query of c reads
  rows,      \* rows[c]: results of Run
  failed     \* history: the calls whose statement ended with an error

dbVars == <<version, snapshot, rows, failed>>

-----------------------------------------------------------------------------
\* The values of row i of the table at a version, column by column.
Row(i, v) == [k \in DOMAIN Columns |-> <<i, k, v>>]

\* rowMap: the values under the names of their columns; where two columns have
\* one name, the later value stays.
RowMap(values) ==
  [n \in {Columns[k] : k \in DOMAIN Columns} |->
     values[CHOOSE k \in DOMAIN Columns :
              Columns[k] = n /\ \A j \in DOMAIN Columns : Columns[j] = n => j <= k]]

Queries(c) == At(c, "db_querier", "stepping")
IsUpdate(c) == call[c].args.query \in Updates

TypeOKDb ==
  /\ version \in 0..MaxVersion
  /\ snapshot \in [Calls -> 0..MaxVersion]
  /\ DOMAIN rows = Calls /\ \A c \in Calls : Len(rows[c]) \in 0..TableSize
  /\ failed \in SUBSET Calls

InitDb ==
  /\ version = 0
  /\ snapshot = [c \in Calls |-> 0]
  /\ rows = [c \in Calls |-> <<>>]
  /\ failed = {}

\* os.Stat, sql.Open and the preparation of the statement.
OpenDb(c) ==
  /\ At(c, "db_querier", "begun")
  /\ \/ Return(c, "error") /\ UNCHANGED snapshot
     \/ Goto(c, "stepping") /\ snapshot' = [snapshot EXCEPT ![c] = version]
  /\ UNCHANGED <<up, keys, version, rows, failed>>

\* Mutant: the map is made once, before the loop.
NextRow_shared(c) ==
  /\ Queries(c) /\ ~IsUpdate(c)
  /\ Len(rows[c]) < TableSize
  /\ LET i == Len(rows[c]) + 1 IN
     rows' = [rows EXCEPT ![c] = [j \in 1..i |-> RowMap(Row(i, snapshot[c]))]]
  /\ UNCHANGED <<callVars, version, snapshot, failed>>

\* Mutant: the loop goes one step too far.
NextRow_past(c) ==
  /\ Queries(c) /\ ~IsUpdate(c)
  /\ Len(rows[c]) <= TableSize
  /\ LET i == Len(rows[c]) + 1 IN
     rows' = [rows EXCEPT ![c] = Append(@, RowMap(Row(i, snapshot[c])))]
  /\ UNCHANGED <<callVars, version, snapshot, failed>>

NextRow(c) ==
  /\ Queries(c) /\ ~IsUpdate(c)
  /\ Len(rows[c]) < TableSize
  /\ LET i == Len(rows[c]) + 1 IN
     rows' = [rows EXCEPT ![c] = Append(@, RowMap(Row(i, snapshot[c])))]
  /\ UNCHANGED <<callVars, version, snapshot, failed>>

\* rows.Next returns FALSE: there are no more rows, or the table was changed.
\* Converting the rows fails for a value structpb has no place for.
EndOfRows(c) ==
  /\ Queries(c)
  /\ IF IsUpdate(c) THEN version < MaxVersion /\ version' = version + 1
     ELSE Len(rows[c]) = TableSize /\ UNCHANGED version
  /\ \E r \in {"result", "error"} : Return(c, r)
  /\ UNCHANGED <<up, keys, snapshot, rows, failed>>

\* rows.Next also returns FALSE when the statement fails, and rows.Err is not
\* asked: Run goes on with the rows it has.
NextFails(c) ==
  /\ Queries(c)
  /\ failed' = failed \cup {c}
  /\ \E r \in {"result", "error"} : Return(c, r)
  /\ UNCHANGED <<up, keys, version, snapshot, rows>>

DbStep(c) == OpenDb(c) \/ NextRow(c) \/ EndOfRows(c) \/ NextFails(c)

-----------------------------------------------------------------------------
\* A query whose statement ran to its end returns every row once, in order,
\* each value under the name of its column, and all of them from one version of
\* the table, whatever other calls change in between.
CompleteResultsExact ==
  \A c \in Calls :
    /\ Made(c)
    /\ call[c].tool = "db_querier"
    /\ call[c].reply = "result"
    /\ c \notin failed
    /\ ~IsUpdate(c)
    => /\ DOMAIN rows[c] = 1..TableSize
       /\ \E v \in 0..version : \A i \in 1..TableSize :
            /\ DOMAIN rows[c][i] = {Columns[k] : k \in DOMAIN Columns}
            /\ \A k \in DOMAIN Columns :
                 \E j \in DOMAIN Columns :
                   Columns[j] = Columns[k] /\ rows[c][i][Columns[k]] = <<i, j, v>>

\* docs/tools/go/db_querier.md:23, and does not hold: "If the database file is
\* not found, the SQL query is invalid, or another error occurs, the tool returns
\* an error message."
ErrorsAreReported == \A c \in failed : call[c].reply # "result"
=============================================================================
