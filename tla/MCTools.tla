------------------------------ MODULE MCTools ------------------------------
(***************************************************************************)
(* Small instances of Tools for TLC: for each tool, calls as it describes  *)
(* them and calls with an argument left out, of another type, or refused.  *)
(***************************************************************************)
EXTENDS Tools, TLC

\* "rooted" starts with a slash, "dotted" with two dots; four are methods.
MCStrings == {"short", "long", "rooted", "dotted", "", "get", "Head", "post"}
MCCapitals ==
  [s \in MCStrings |-> CASE s = "get" -> "GET" [] s = "Head" -> "HEAD" [] s = "post" -> "POST"
                         [] OTHER -> s]
MCBlocks ==
  [s \in MCStrings |-> CASE s = "" -> 0 [] s \in {"long", "rooted"} -> 2 [] OTHER -> 1]
MCFiles    == {"short"}
MCContents == {"rooted"}
MCColumns == <<"id", "name", "id">>

None == {<<>>}
With(name, values) == {name :> v : v \in values}
And(A, B) == {a @@ b : a \in A, b \in B}

MCAnswers == {[status |-> "200", body |-> "object"], [status |-> "200", body |-> "cut"],
              [status |-> "2xx", body |-> "empty"], [status |-> "4xx", body |-> "object"],
              [status |-> "5xx", body |-> "text"]}

Some == [
  calculator     |-> With("expression", {"short", "number"}),
  log_notifier   |-> And(With("message", {"short"}), None \cup With("level", {"number"})),
  file_reader    |-> None \cup With("filepath", {"short", "dotted"}),
  file_writer    |-> And(With("filepath", {"short"}), None \cup With("content", {"", "long"})),
  list_directory |-> With("path", {"dotted", "number"}),
  db_querier     |-> And(With("db_path", {"short"}), None \cup With("query", {"get", "post"})),
  api_caller     |-> And(With("url", {"short"}),
                         None \cup With("method", {"", "Head", "post"}) \cup
                         And(With("method", {"post"}), With("headers", {"keyed"}))),
  ozon           |-> And(With("endpoint", {"rooted"}), None \cup With("payload", {"object"})),
  web_search     |-> And(With("max_results", {"number"}), None \cup With("query", {"short"})),
  wildberries    |-> And(With("endpoint", {"rooted", "short"}), With("method", {"get", "post"}))]

MCArguments == [t \in Tools |-> Some[t] \cup {NoArguments}]
MCUpdates == {"post"}
=============================================================================
