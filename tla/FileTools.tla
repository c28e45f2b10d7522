------------------------------ MODULE FileTools ------------------------------
(***************************************************************************)
(* file_writer, file_reader and list_directory (MCP-NG/tools/go).  Each    *)
(* call goes straight to the file system: nothing orders a call that       *)
(* writes a file and a call that reads or writes the same one.  A content  *)
(* is moved block by block, between which other calls take their steps.    *)
(***************************************************************************)
EXTENDS ToolCalls, Naturals, Sequences

CONSTANTS
  Files,      \* the paths calls read and write, among Strings
  Contents,   \* the texts files hold at first, among Strings
  Blocks,     \* Blocks[s]: the number of blocks of the text s
  Absent,     \* there is no such file
  Unsettled   \* nothing can be said of the content

ASSUME FilesAssumption ==
  /\ Files \subseteq Strings
  /\ Contents \subseteq Strings
  /\ Blocks \in [Strings -> Nat]

ASSUME PathsAssumption ==
  \A t \in {"file_reader", "file_writer"} : \A a \in Arguments[t] \ {NoArguments} :
    Accepted(t, a) /\ ~Denied(t, a) => a.filepath \in Files

VARIABLES
  files,    \* files[f]: the blocks of f, or Absent
  moved,    \* moved[c]: the blocks call c has written or read
  first,    \* history: the files as they were at first
  settled,  \* history: what the last writer of f had to leave there, Unsettled
            \* when it failed, or when another writer came in between
  expected  \* history: what c must leave or find, Unsettled once it is disturbed

fileVars == <<files, moved, first, settled, expected>>

-----------------------------------------------------------------------------
Text(s) == [i \in 1..Blocks[s] |-> <<s, i>>]

\* What a writer leaves between the end of a file another one has truncated
\* and its own position.
Hole == <<"hole", 0>>

\* Block b written at position i of the text x.
Overwrite(x, i, b) ==
  [j \in 1..(IF i > Len(x) THEN i ELSE Len(x)) |->
     IF j = i THEN b ELSE IF j \in DOMAIN x THEN x[j] ELSE Hole]

Writes(c, f) == At(c, "file_writer", "writing") /\ call[c].args.filepath = f
Reads(c, f)  == At(c, "file_reader", "reading") /\ call[c].args.filepath = f

Texts == {Text(s) : s \in Strings}
Piece == (Strings \X Nat) \cup {Hole}

ASSUME AbsentAssumption == Absent \notin Seq(Piece) /\ Unsettled \notin Seq(Piece)

TypeOKFiles ==
  /\ files \in [Files -> Seq(Piece) \cup {Absent}]
  /\ moved \in [Calls -> Seq(Piece)]
  /\ first \in [Files -> Texts \cup {Absent}]
  /\ settled \in [Files -> Seq(Piece) \cup {Absent, Unsettled}]
  /\ expected \in [Calls -> Seq(Piece) \cup {Absent, Unsettled}]

InitFiles ==
  /\ files \in [Files -> {Text(s) : s \in Contents} \cup {Absent}]
  /\ first = files
  /\ settled = files
  /\ moved = [c \in Calls |-> <<>>]
  /\ expected = [c \in Calls |-> Unsettled]

\* ioutil.WriteFile opens the file first, which creates or empties it.
\* Mutant: it is opened without being emptied.
OpenWrite_kept(c) ==
  /\ At(c, "file_writer", "begun")
  /\ LET f == call[c].args.filepath  others == {d \in Calls : Writes(d, f)} IN
     /\ files' = [files EXCEPT ![f] = IF @ = Absent THEN <<>> ELSE @]
     /\ settled' = [settled EXCEPT ![f] = Unsettled]
     /\ expected' = [d \in Calls |->
          IF d = c THEN IF others = {} THEN Text(call[c].args.content) ELSE Unsettled
          ELSE IF Writes(d, f) \/ Reads(d, f) THEN Unsettled
          ELSE expected[d]]
  /\ Goto(c, "writing")
  /\ UNCHANGED <<up, keys, moved, first>>

OpenWrite(c) ==
  /\ At(c, "file_writer", "begun")
  /\ LET f == call[c].args.filepath  others == {d \in Calls : Writes(d, f)} IN
     /\ files' = [files EXCEPT ![f] = <<>>]
     /\ settled' = [settled EXCEPT ![f] = Unsettled]
     /\ expected' = [d \in Calls |->
          IF d = c THEN IF others = {} THEN Text(call[c].args.content) ELSE Unsettled
          ELSE IF Writes(d, f) \/ Reads(d, f) THEN Unsettled
          ELSE expected[d]]
  /\ Goto(c, "writing")
  /\ UNCHANGED <<up, keys, moved, first>>

\* Mutant: blocks go to the end of the file, wherever that has got to.
WriteBlock_appended(c) ==
  /\ At(c, "file_writer", "writing")
  /\ LET f == call[c].args.filepath  i == Len(moved[c]) + 1
         text == Text(call[c].args.content) IN
     /\ i \in DOMAIN text
     /\ moved' = [moved EXCEPT ![c] = Append(@, text[i])]
     /\ files' = [files EXCEPT ![f] = Append(@, text[i])]
  /\ UNCHANGED <<callVars, first, settled, expected>>

WriteBlock(c) ==
  /\ At(c, "file_writer", "writing")
  /\ LET f == call[c].args.filepath  i == Len(moved[c]) + 1
         text == Text(call[c].args.content) IN
     /\ i \in DOMAIN text
     /\ moved' = [moved EXCEPT ![c] = Append(@, text[i])]
     /\ files' = [files EXCEPT ![f] = Overwrite(@, i, text[i])]
  /\ UNCHANGED <<callVars, first, settled, expected>>

EndWrite(c) ==
  /\ At(c, "file_writer", "writing")
  /\ Len(moved[c]) = Blocks[call[c].args.content]
  /\ settled' = [settled EXCEPT ![call[c].args.filepath] = expected[c]]
  /\ Return(c, "result")
  /\ UNCHANGED <<up, keys, files, moved, first, expected>>

\* The file cannot be opened, or not written to the end: what was written stays.
WriteFails(c) ==
  /\ At(c, "file_writer", "begun") \/ At(c, "file_writer", "writing")
  /\ Return(c, "error")
  /\ UNCHANGED <<up, keys, fileVars>>

OpenRead(c) ==
  /\ At(c, "file_reader", "begun")
  /\ LET f == call[c].args.filepath IN
     IF files[f] = Absent THEN Return(c, "error") /\ UNCHANGED expected
     ELSE /\ Goto(c, "reading")
          /\ expected' = [expected EXCEPT ![c] =
               IF \E d \in Calls : Writes(d, f) THEN Unsettled ELSE files[f]]
  /\ UNCHANGED <<up, keys, files, moved, first, settled>>

ReadBlock(c) ==
  /\ At(c, "file_reader", "reading")
  /\ LET x == files[call[c].args.filepath]  i == Len(moved[c]) + 1 IN
     /\ i \in DOMAIN x
     /\ moved' = [moved EXCEPT ![c] = Append(@, x[i])]
  /\ UNCHANGED <<callVars, files, first, settled, expected>>

\* Mutant: the first block is enough.
EndRead_short(c) ==
  /\ At(c, "file_reader", "reading")
  /\ Len(moved[c]) >= 1 \/ Len(files[call[c].args.filepath]) = 0
  /\ Return(c, "result")
  /\ UNCHANGED <<up, keys, fileVars>>

EndRead(c) ==
  /\ At(c, "file_reader", "reading")
  /\ Len(moved[c]) >= Len(files[call[c].args.filepath])
  /\ Return(c, "result")
  /\ UNCHANGED <<up, keys, fileVars>>

\* The file cannot be opened or read, or is not valid UTF-8.
ReadFails(c) ==
  /\ At(c, "file_reader", "begun") \/ At(c, "file_reader", "reading")
  /\ Return(c, "error")
  /\ UNCHANGED <<up, keys, fileVars>>

ListDirectory(c) ==
  /\ At(c, "list_directory", "begun")
  /\ \E r \in {"result", "error"} : Return(c, r)
  /\ UNCHANGED <<up, keys, fileVars>>

FileStep(c) ==
  \/ OpenWrite(c) \/ WriteBlock(c) \/ EndWrite(c) \/ WriteFails(c)
  \/ OpenRead(c) \/ ReadBlock(c) \/ EndRead(c) \/ ReadFails(c)
  \/ ListDirectory(c)

-----------------------------------------------------------------------------
\* A successful write no other write overlapped is what the file holds, whole
\* and with nothing left of the longer content before it, until the next one,
\* whatever other calls failed, died half-way or read in between.
SettledFilesExact ==
  \A f \in Files : settled[f] # Unsettled => files[f] = settled[f]

\* A successful read of a file nobody was writing meanwhile returns the content
\* as it stood when the file was opened, whole, and with nothing beyond it: also
\* where that content is what a failed or a killed writer left of its text.
QuietReadsExact ==
  \A c \in Calls :
    /\ Made(c)
    /\ call[c].tool = "file_reader"
    /\ call[c].reply = "result"
    /\ expected[c] # Unsettled
    => moved[c] = expected[c]

\* The accepted calls of t on the file f.
IsCallOn(c, t, f) ==
  /\ Made(c)
  /\ call[c].tool = t
  /\ call[c].args # NoArguments
  /\ Accepted(t, call[c].args)
  /\ call[c].args.filepath = f

\* The i-th block of the content of a call that writes f.
IsWritten(b, i, f) ==
  \E c \in Calls : IsCallOn(c, "file_writer", f) /\ b = <<call[c].args.content, i>>

Mixture(x, f) == \A i \in DOMAIN x : x[i] = Hole \/ IsWritten(x[i], i, f)

\* y is what f held at first.
MixtureWith(y, x, f) ==
  \A i \in DOMAIN x :
    \/ x[i] = Hole
    \/ IsWritten(x[i], i, f)
    \/ y # Absent /\ i \in DOMAIN y /\ x[i] = y[i]

\* However many writers overlap, fail half-way or die with the process: a file
\* is as it was at first, or nothing is left of that, and every block of it is
\* one that some call was given for that very place, or lies in a gap between
\* the blocks of two writers.  A reader holds such blocks and those the file
\* held in these places at first, and no others.
OverlapsOnlyMix ==
  \A f \in Files :
    /\ files[f] = first[f] \/ Mixture(files[f], f)
    /\ \A c \in Calls : IsCallOn(c, "file_reader", f) => MixtureWith(first[f], moved[c], f)
=============================================================================
