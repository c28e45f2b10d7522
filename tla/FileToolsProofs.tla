--------------------------- MODULE FileToolsProofs ---------------------------
(***************************************************************************)
(* The safety properties of the file tools, for every set of files, texts  *)
(* and calls.  The idea of the exactness properties: a history variable    *)
(* that is not Unsettled means that nothing has come in between, so that   *)
(*   - a quiet writer is alone on its file, which holds what it has        *)
(*     written so far (WriterInv),                                         *)
(*   - a settled file is as settled says, and nobody writes it (FileInv),  *)
(*   - a quiet reader reads a file that is as it was when the reader       *)
(*     opened it, and that nobody writes; it holds a beginning of it       *)
(*     (ReaderInv).                                                        *)
(***************************************************************************)
EXTENDS ToolsProofs

-----------------------------------------------------------------------------
\* Texts and files.
LEMMA TextIsSeq ==
  ASSUME NEW s \in Strings
  PROVE  /\ Text(s) \in Seq(Piece) /\ Text(s) \in Texts
         /\ Len(Text(s)) = Blocks[s]
         /\ DOMAIN Text(s) = 1..Blocks[s]
         /\ \A i \in 1..Blocks[s] : Text(s)[i] = <<s, i>>
<1>1. Blocks[s] \in Nat
  BY FilesAssumption
<1>2. \A i \in 1..Blocks[s] : <<s, i>> \in Piece
  BY <1>1 DEF Piece
<1>3. Text(s) \in [1..Blocks[s] -> Piece]
  BY <1>2 DEF Text
<1> QED
  BY <1>1, <1>3 DEF Text, Texts

LEMMA OverwriteIsSeq ==
  ASSUME NEW x \in Seq(Piece), NEW i \in Nat \ {0}, NEW b \in Piece
  PROVE  Overwrite(x, i, b) \in Seq(Piece)
<1> DEFINE n == IF i > Len(x) THEN i ELSE Len(x)
<1>1. n \in Nat
  OBVIOUS
<1>2. ASSUME NEW j \in 1..n
      PROVE  (IF j = i THEN b ELSE IF j \in DOMAIN x THEN x[j] ELSE Hole) \in Piece
  BY <1>2 DEF Piece
<1>3. Overwrite(x, i, b) \in [1..n -> Piece]
  BY <1>2 DEF Overwrite
<1> HIDE DEF n
<1> QED
  BY <1>1, <1>3

\* Writing at the end of a file is appending to it.
LEMMA OverwriteAppends ==
  ASSUME NEW x \in Seq(Piece), NEW b \in Piece
  PROVE  Overwrite(x, Len(x) + 1, b) = Append(x, b)
<1>1. Len(x) \in Nat /\ DOMAIN x = 1..Len(x)
  OBVIOUS
<1>2. Overwrite(x, Len(x) + 1, b) =
        [j \in 1..(Len(x) + 1) |->
           IF j = Len(x) + 1 THEN b ELSE IF j \in DOMAIN x THEN x[j] ELSE Hole]
  BY <1>1 DEF Overwrite
<1> DEFINE y == Append(x, b)
<1>3. /\ y \in Seq(Piece) /\ Len(y) = Len(x) + 1 /\ y[Len(x) + 1] = b
      /\ \A j \in 1..Len(x) : y[j] = x[j]
  OBVIOUS
<1> HIDE DEF y
<1>4. y \in [1..(Len(x) + 1) -> Piece]
  BY <1>3
<1>5. y = [j \in 1..(Len(x) + 1) |-> y[j]]
  BY <1>4
<1>6. \A j \in 1..(Len(x) + 1) : j # Len(x) + 1 => j \in 1..Len(x)
  BY <1>1
<1>7. Overwrite(x, Len(x) + 1, b) = [j \in 1..(Len(x) + 1) |-> y[j]]
  BY <1>1, <1>2, <1>3, <1>6
<1> QED
  BY <1>5, <1>7 DEF y

-----------------------------------------------------------------------------
Path(c)    == call[c].args.filepath
Content(c) == call[c].args.content
IsWriter(c) == At(c, "file_writer", "writing")
IsReader(c) == At(c, "file_reader", "reading")

\* x begins with y.
BeginsWith(x, y) == Len(y) <= Len(x) /\ \A i \in 1..Len(y) : y[i] = x[i]

FreshInv(c) ==
  ~Made(c) \/ (call[c].tool \in FileTool /\ call[c].pc = "begun") => moved[c] = <<>>

WriterInv(c) ==
  IsWriter(c) =>
    /\ files[Path(c)] \in Seq(Piece)
    /\ BeginsWith(Text(Content(c)), moved[c])
    /\ expected[c] # Unsettled =>
         /\ expected[c] = Text(Content(c))
         /\ files[Path(c)] = moved[c]
         /\ \A d \in Calls : Writes(d, Path(c)) => d = c

ReaderInv(c) ==
  IsReader(c) =>
    /\ files[Path(c)] \in Seq(Piece)
    /\ expected[c] # Unsettled =>
         /\ expected[c] = files[Path(c)]
         /\ BeginsWith(files[Path(c)], moved[c])
         /\ \A d \in Calls : ~Writes(d, Path(c))

ReadInv(c) ==
  /\ Made(c) /\ call[c].tool = "file_reader" /\ call[c].reply = "result"
  /\ expected[c] # Unsettled
  => moved[c] = expected[c]

FileInv(f) ==
  settled[f] # Unsettled =>
    /\ files[f] = settled[f]
    /\ \A d \in Calls : ~Writes(d, f)

CallInv(c) == FreshInv(c) /\ WriterInv(c) /\ ReaderInv(c) /\ ReadInv(c)

FInv ==
  /\ TypeOKFiles
  /\ \A c \in Calls : CallInv(c)
  /\ \A f \in Files : FileInv(f)

\* A call that is past the beginning of Run has been accepted.
LEMMA RunningIsAccepted ==
  ASSUME TypeOKCalls, ContractInv, NEW c \in Calls, Running(c),
         call[c].tool \in {"file_reader", "file_writer"}
  PROVE  /\ call[c].args \in Arguments[call[c].tool] /\ call[c].args # NoArguments
         /\ Accepted(call[c].tool, call[c].args) /\ ~Denied(call[c].tool, call[c].args)
<1>1. call[c].reply = "none" /\ Made(c)
  BY DEF Running, Made, TypeOKCalls
<1>2. Sound(call[c].tool, call[c].args)
  BY <1>1 DEF ContractInv, KeepsContract
<1> QED
  BY <1>1, <1>2, CallFields DEF Sound, Refusable

LEMMA PathsAreFiles ==
  ASSUME TypeOKCalls, ContractInv, NEW c \in Calls, Running(c),
         call[c].tool \in {"file_reader", "file_writer"}
  PROVE  /\ Path(c) \in Files
         /\ call[c].tool = "file_writer" => Content(c) \in Strings
<1> DEFINE t == call[c].tool  a == call[c].args
<1>1. a \in Arguments[t] /\ Accepted(t, a) /\ ~Denied(t, a) /\ a # NoArguments
  BY RunningIsAccepted
<1>2. Path(c) \in Files
  BY <1>1, PathsAssumption DEF Path
<1>3. ASSUME t = "file_writer" PROVE Content(c) \in Strings
  BY <1>1, <1>3 DEF Accepted, Needs, FileWriterNeeds, HasType, Content
<1> QED
  BY <1>2, <1>3

\* Two sequences, one of which begins with the other.
LEMMA BeginsWithAll ==
  ASSUME NEW x \in Seq(Piece), NEW y \in Seq(Piece), BeginsWith(x, y), Len(y) >= Len(x)
  PROVE  y = x
<1>1. Len(x) = Len(y) /\ \A i \in 1..Len(x) : y[i] = x[i]
  BY DEF BeginsWith
<1> QED
  BY <1>1

LEMMA BeginsWithOneMore ==
  ASSUME NEW x \in Seq(Piece), NEW y \in Seq(Piece), BeginsWith(x, y),
         Len(y) + 1 \in DOMAIN x
  PROVE  /\ Append(y, x[Len(y) + 1]) \in Seq(Piece)
         /\ BeginsWith(x, Append(y, x[Len(y) + 1]))
<1> DEFINE b == x[Len(y) + 1]
<1>1. b \in Piece /\ Len(y) + 1 <= Len(x)
  OBVIOUS
<1>2. /\ Append(y, b) \in Seq(Piece) /\ Len(Append(y, b)) = Len(y) + 1
      /\ Append(y, b)[Len(y) + 1] = b
      /\ \A i \in 1..Len(y) : Append(y, b)[i] = y[i]
  BY <1>1
<1>3. \A i \in 1..(Len(y) + 1) : i = Len(y) + 1 \/ i \in 1..Len(y)
  OBVIOUS
<1> HIDE DEF b
<1>4. BeginsWith(x, Append(y, b))
  BY <1>1, <1>2, <1>3 DEF BeginsWith, b
<1> QED
  BY <1>2, <1>4 DEF b

\* The reader of a file somebody writes is not a quiet one.
LEMMA NoQuietReaderOfWritten ==
  ASSUME FInv, NEW c \in Calls, NEW d \in Calls, IsReader(d), Path(d) \in Files,
         Writes(c, Path(d))
  PROVE  expected[d] = Unsettled
  BY DEF FInv, CallInv, ReaderInv

-----------------------------------------------------------------------------
\* Steps that touch no file and end no successful read.
Bystands(d) ==
  \/ call'[d] = call[d]
  \/ Starts(d)
  \/ Killed(d)
  \/ /\ Made(d) /\ Made(d)'
     /\ call[d].tool \notin FileTool /\ call'[d].tool = call[d].tool
  \/ /\ Made(d) /\ Made(d)'
     /\ call'[d].pc = "done"
     /\ call'[d].tool = "file_reader" => call'[d].reply # "result"

LEMMA BystandersKeepFInv ==
  ASSUME FInv, UNCHANGED fileVars, \A d \in Calls : Bystands(d)
  PROVE  FInv'
<1>1. TypeOKFiles'
  BY DEF FInv, TypeOKFiles, fileVars
<1>2. ASSUME NEW d \in Calls
      PROVE  /\ IsWriter(d)' => call'[d] = call[d]
             /\ IsReader(d)' => call'[d] = call[d]
             /\ \A f : Writes(d, f)' => Writes(d, f)
  BY DEF Bystands, Starts, Killed, Made, At, IsWriter, IsReader, Writes, FileTool
<1>3. ASSUME NEW d \in Calls PROVE CallInv(d)'
  <2>1. Bystands(d) /\ CallInv(d)
    BY DEF FInv
  <2>2. FreshInv(d)'
    BY <2>1 DEF CallInv, FreshInv, Bystands, Starts, Killed, Made, fileVars
  <2>3. WriterInv(d)'
    BY <1>2, <2>1 DEF CallInv, WriterInv, IsWriter, At, Made, Path, Content, fileVars
  <2>4. ReaderInv(d)'
    BY <1>2, <2>1 DEF CallInv, ReaderInv, IsReader, At, Made, Path, fileVars
  <2>5. ReadInv(d)'
    BY <2>1 DEF CallInv, ReadInv, Bystands, Starts, Killed, Made, FileTool, fileVars
  <2> QED
    BY <2>2, <2>3, <2>4, <2>5 DEF CallInv
<1>4. ASSUME NEW f \in Files PROVE FileInv(f)'
  BY <1>2 DEF FInv, FileInv, fileVars
<1> QED
  BY <1>1, <1>3, <1>4 DEF FInv

LEMMA OthersKeepFInv ==
  ASSUME FInv, UNCHANGED fileVars, OutsidersKeepOut(FileTool)
  PROVE  FInv'
  BY BystandersKeepFInv DEF OutsidersKeepOut, Bystands

\* A call that fails, and the listing of a directory.
LEMMA FailuresKeepFInv ==
  ASSUME TypeOKCalls, FInv, NEW c \in Calls,
         WriteFails(c) \/ ReadFails(c) \/ ListDirectory(c)
  PROVE  FInv'
<1>1. UNCHANGED fileVars /\ UNCHANGED <<up, keys>> /\ Made(c)
  BY DEF WriteFails, ReadFails, ListDirectory, At
<1>2. PICK r \in {"result", "error"} :
        Return(c, r) /\ (call[c].tool = "file_reader" => r = "error")
  BY DEF WriteFails, ReadFails, ListDirectory, At
<1>3. Moves(c, "done", r)
  BY <1>1, <1>2, ReturnMoves DEF Replies
<1>4. \A d \in Calls : Bystands(d)
  BY <1>2, <1>3 DEF Moves, Bystands
<1> QED
  BY <1>1, <1>4, BystandersKeepFInv

-----------------------------------------------------------------------------
\* A writer: it comes in and unsettles its file, it writes a block, it ends.
LEMMA OpenWriteKeepsFInv ==
  ASSUME TypeOKCalls, ContractInv, FInv, NEW c \in Calls, OpenWrite(c)
  PROVE  FInv'
<1>1. /\ Moves(c, "writing", "none") /\ Running(c)
      /\ call[c].tool = "file_writer" /\ call[c].pc = "begun"
  BY GotoMoves DEF OpenWrite, At, Running, Pcs
<1>2. PICK f \in Files : f = Path(c) /\ Content(c) \in Strings
  BY <1>1, PathsAreFiles
<1>3. /\ files' = [files EXCEPT ![f] = <<>>] /\ settled' = [settled EXCEPT ![f] = Unsettled]
      /\ moved' = moved
      /\ expected'[c] # Unsettled =>
           expected'[c] = Text(Content(c)) /\ \A d \in Calls : ~Writes(d, f)
      /\ \A d \in Calls \ {c} :
           expected'[d] = IF Writes(d, f) \/ Reads(d, f) THEN Unsettled ELSE expected[d]
  BY <1>2 DEF OpenWrite, Path, Content
<1>4. TypeOKFiles'
  <2>1. expected' \in [Calls -> Seq(Piece) \cup {Absent, Unsettled}]
    BY <1>2, TextIsSeq DEF FInv, TypeOKFiles, OpenWrite, Content
  <2>2. first' = first
    BY DEF OpenWrite
  <2> QED
    BY <1>2, <1>3, <2>1, <2>2 DEF FInv, TypeOKFiles
<1>5. \A d \in Calls : Writes(d, f)' => Writes(d, f) \/ d = c
  BY <1>1 DEF Moves, Writes, At, Made
<1>6. ASSUME NEW g \in Files, g # f, NEW d \in Calls PROVE Writes(d, g)' => Writes(d, g)
  BY <1>1, <1>2, <1>6 DEF Moves, Writes, At, Made, Path
<1>7. moved[c] = <<>>
  BY <1>1 DEF FInv, CallInv, FreshInv, FileTool
<1>8. CallInv(c)'
  <2>1. WriterInv(c)'
    <3>1. Path(c)' = f /\ Content(c)' = Content(c)
      BY <1>1, <1>2 DEF Moves, Path, Content
    <3>2. files'[f] = <<>> /\ moved'[c] = <<>>
      BY <1>2, <1>3, <1>7 DEF FInv, TypeOKFiles
    <3>3. BeginsWith(Text(Content(c)), <<>>)
      BY <1>2, TextIsSeq, FilesAssumption DEF BeginsWith
    <3>4. expected'[c] # Unsettled => \A d \in Calls : Writes(d, f)' => d = c
      BY <1>3, <1>5
    <3>5. Text(Content(c))' = Text(Content(c))
      BY <3>1 DEF Text
    <3>6. files[Path(c)]' \in Seq(Piece) /\ files[Path(c)]' = moved'[c]
      BY <3>1, <3>2
    <3>7. BeginsWith(Text(Content(c)), moved[c])'
      BY <3>2, <3>3, <3>5 DEF BeginsWith
    <3>8. \A d \in Calls : Writes(d, Path(c))' <=> Writes(d, f)'
      BY <3>1 DEF Writes
    <3> QED
      BY <1>3, <3>4, <3>5, <3>6, <3>7, <3>8 DEF WriterInv
  <2>2. FreshInv(c)' /\ ReaderInv(c)' /\ ReadInv(c)'
    BY <1>1 DEF Moves, FreshInv, ReaderInv, ReadInv, IsReader, At
  <2> QED
    BY <2>1, <2>2 DEF CallInv
<1>9. ASSUME NEW d \in Calls, d # c PROVE CallInv(d)'
  <2>1. call'[d] = call[d] /\ CallInv(d) /\ moved'[d] = moved[d]
    BY <1>1, <1>3, <1>9 DEF Moves, FInv
  <2>2. FreshInv(d)'
    BY <2>1 DEF CallInv, FreshInv, Made
  <2>3. ReadInv(d)'
    BY <1>3, <1>9, <2>1 DEF CallInv, ReadInv, Made, Writes, Reads, At, TypeOKCalls
  <2>4. CASE IsWriter(d)
    <3>1. WriterInv(d)'
      <4>1. Path(d) \in Files
        BY <2>4, PathsAreFiles DEF IsWriter, At, Running
      <4>2. CASE Path(d) = f
        BY SMTT(30), <1>2, <1>3, <1>9, <2>1, <2>4, <4>2
        DEF CallInv, WriterInv, IsWriter, Writes, At, Made, FInv, TypeOKFiles, Path, Content, Text
      <4>3. CASE Path(d) # f
        <5>1. ~Writes(d, f) /\ ~Reads(d, f)
          BY <2>4, <4>3 DEF Writes, Reads, IsWriter, At, Path
        <5>2. files'[Path(d)] = files[Path(d)] /\ expected'[d] = expected[d]
          BY <1>3, <1>9, <4>1, <4>3, <5>1 DEF FInv, TypeOKFiles
        <5>3. \A e \in Calls : Writes(e, Path(d))' => Writes(e, Path(d))
          BY <1>6, <4>1, <4>3, <2>1 DEF Path
        <5>4. Path(d)' = Path(d) /\ Content(d)' = Content(d)
          BY <2>1 DEF Path, Content
        <5>5. \A e \in Calls : Writes(e, Path(d))' => e = d \/ expected[d] = Unsettled
          BY <2>1, <2>4, <5>3 DEF CallInv, WriterInv
        <5> QED
          BY <2>1, <2>4, <5>2, <5>4, <5>5 DEF CallInv, WriterInv, Text, BeginsWith
      <4> QED
        BY <4>2, <4>3
    <3> QED
      BY <2>1, <2>2, <2>3, <2>4, <3>1 DEF CallInv, ReaderInv, IsWriter, IsReader, At, Made
  <2>5. CASE IsReader(d)
    <3>1. Path(d) \in Files /\ Path(d)' = Path(d)
      BY <2>1, <2>5, PathsAreFiles DEF IsReader, At, Running, Path
    <3>2. ReaderInv(d)'
      <4>1. CASE Path(d) = f
        BY <1>2, <1>3, <1>9, <2>1, <2>5, <3>1, <4>1
        DEF CallInv, ReaderInv, IsReader, Reads, At, Made, FInv, TypeOKFiles, Path
      <4>2. CASE Path(d) # f
        <5>1. ~Writes(d, f) /\ ~Reads(d, f)
          BY <2>5, <4>2 DEF Writes, Reads, IsReader, At, Path
        <5>2. files'[Path(d)] = files[Path(d)] /\ expected'[d] = expected[d]
          BY <1>3, <1>9, <3>1, <4>2, <5>1 DEF FInv, TypeOKFiles
        <5>3. \A e \in Calls : Writes(e, Path(d))' => Writes(e, Path(d))
          BY <1>6, <3>1, <4>2
        <5> QED
          BY <2>1, <2>5, <3>1, <5>2, <5>3 DEF CallInv, ReaderInv, BeginsWith, Writes
      <4> QED
        BY <4>1, <4>2
    <3> QED
      BY <2>1, <2>2, <2>3, <2>5, <3>2 DEF CallInv, WriterInv, IsWriter, IsReader, At, Made
  <2>6. CASE ~IsWriter(d) /\ ~IsReader(d)
    BY <2>1, <2>2, <2>3, <2>6 DEF CallInv, WriterInv, ReaderInv, IsWriter, IsReader, At, Made
  <2> QED
    BY <2>4, <2>5, <2>6
<1>10. ASSUME NEW g \in Files PROVE FileInv(g)'
  <2>1. CASE g = f
    BY <1>2, <1>3, <2>1 DEF FInv, TypeOKFiles, FileInv
  <2>2. CASE g # f
    BY <1>2, <1>3, <1>6, <2>2 DEF FInv, TypeOKFiles, FileInv
  <2> QED
    BY <2>1, <2>2
<1> QED
  BY <1>4, <1>8, <1>9, <1>10 DEF FInv

\* A call whose file stays as it is, and whose file nobody starts to write.
LEMMA UntouchedCall ==
  ASSUME NEW d \in Calls, CallInv(d),
         call'[d] = call[d], moved'[d] = moved[d], expected'[d] = expected[d],
         IsWriter(d) \/ IsReader(d) => files'[Path(d)] = files[Path(d)],
         \A e \in Calls : Writes(e, Path(d))' => Writes(e, Path(d))
  PROVE  CallInv(d)'
<1>1. /\ Path(d)' = Path(d) /\ Content(d)' = Content(d) /\ Made(d)' = Made(d)
      /\ IsWriter(d)' = IsWriter(d) /\ IsReader(d)' = IsReader(d)
  BY DEF Path, Content, Made, IsWriter, IsReader, At
<1>2. FreshInv(d)' /\ ReadInv(d)'
  BY <1>1 DEF CallInv, FreshInv, ReadInv
<1>3. WriterInv(d)'
  BY <1>1 DEF CallInv, WriterInv, Text, BeginsWith
<1>4. ReaderInv(d)'
  BY <1>1 DEF CallInv, ReaderInv, BeginsWith
<1> QED
  BY <1>2, <1>3, <1>4 DEF CallInv

LEMMA WriteBlockKeepsFInv ==
  ASSUME TypeOKCalls, ContractInv, FInv, NEW c \in Calls, WriteBlock(c)
  PROVE  FInv'
<1>1. /\ IsWriter(c) /\ Running(c) /\ call' = call
      /\ first' = first /\ settled' = settled /\ expected' = expected
  BY DEF WriteBlock, IsWriter, At, Running, callVars
<1>2. PICK f \in Files : f = Path(c) /\ Content(c) \in Strings
  BY <1>1, PathsAreFiles DEF IsWriter, At
<1> DEFINE text == Text(Content(c))
           i    == Len(moved[c]) + 1
           m    == Append(moved[c], text[i])
           x    == Overwrite(files[f], i, text[i])
<1>3. i \in DOMAIN text /\ moved' = [moved EXCEPT ![c] = m] /\ files' = [files EXCEPT ![f] = x]
  BY <1>2 DEF WriteBlock, Path, Content
<1>4. /\ text \in Seq(Piece) /\ moved[c] \in Seq(Piece) /\ files[f] \in Seq(Piece)
      /\ BeginsWith(text, moved[c])
      /\ expected[c] # Unsettled =>
           expected[c] = text /\ files[f] = moved[c] /\ \A d \in Calls : Writes(d, f) => d = c
  BY <1>1, <1>2, TextIsSeq DEF FInv, TypeOKFiles, CallInv, WriterInv
<1>5. m \in Seq(Piece) /\ BeginsWith(text, m) /\ text[i] \in Piece /\ i \in Nat \ {0}
  BY <1>3, <1>4, BeginsWithOneMore
<1>6. x \in Seq(Piece) /\ (expected[c] # Unsettled => x = m)
  BY <1>4, <1>5, OverwriteIsSeq, OverwriteAppends
<1> HIDE DEF text, i, m, x
<1>7. Writes(c, f)
  BY <1>1, <1>2 DEF Writes, IsWriter, Path
<1>8. TypeOKFiles'
  BY <1>1, <1>3, <1>5, <1>6 DEF FInv, TypeOKFiles
<1>9. CallInv(c)'
  <2>1. moved'[c] = m /\ files'[f] = x /\ Path(c)' = f /\ Content(c)' = Content(c)
    BY <1>1, <1>2, <1>3 DEF FInv, TypeOKFiles, Path, Content
  <2>2. Text(Content(c))' = text /\ \A d \in Calls : Writes(d, Path(c))' <=> Writes(d, f)
    BY <1>1, <2>1 DEF Text, text, Writes, At, Made
  <2>3. BeginsWith(Text(Content(c)), moved[c])'
    BY <1>5, <2>1, <2>2 DEF BeginsWith
  <2>4. WriterInv(c)'
    BY <1>1, <1>4, <1>6, <2>1, <2>2, <2>3 DEF WriterInv
  <2>5. FreshInv(c)' /\ ReaderInv(c)' /\ ReadInv(c)'
    BY <1>1 DEF IsWriter, IsReader, At, Made, FreshInv, ReaderInv, ReadInv
  <2> QED
    BY <2>4, <2>5 DEF CallInv
<1>10. ASSUME NEW d \in Calls, d # c PROVE CallInv(d)'
  <2>1. call'[d] = call[d] /\ CallInv(d) /\ moved'[d] = moved[d] /\ expected'[d] = expected[d]
    BY <1>1, <1>3, <1>10 DEF FInv
  <2>2. IsWriter(d) \/ IsReader(d) => Path(d) \in Files
    BY PathsAreFiles DEF IsWriter, IsReader, At, Running
  <2>3. \A e \in Calls : Writes(e, Path(d))' => Writes(e, Path(d))
    BY <1>1 DEF Writes, Path, At, Made
  <2>4. CASE (IsWriter(d) \/ IsReader(d)) /\ Path(d) = f
    <3>1. expected[d] = Unsettled
      <4>1. CASE IsWriter(d)
        BY <1>7, <1>10, <2>1, <2>4, <4>1 DEF CallInv, WriterInv
      <4>2. CASE IsReader(d)
        BY <1>7, <2>4, <4>2, NoQuietReaderOfWritten
      <4> QED
        BY <2>4, <4>1, <4>2
    <3>2. files[Path(d)]' \in Seq(Piece)
      BY <1>3, <1>6, <2>1, <2>4 DEF FInv, TypeOKFiles, Path
    <3>3. WriterInv(d)'
      BY <2>1, <3>1, <3>2 DEF CallInv, WriterInv, BeginsWith, Text, Content, IsWriter, At, Made
    <3>4. ReaderInv(d)'
      BY <2>1, <3>1, <3>2 DEF ReaderInv
    <3>5. FreshInv(d)' /\ ReadInv(d)'
      BY <2>1 DEF CallInv, FreshInv, ReadInv, Made
    <3> QED
      BY <3>3, <3>4, <3>5 DEF CallInv
  <2>5. CASE IsWriter(d) \/ IsReader(d) => Path(d) # f
    <3>1. IsWriter(d) \/ IsReader(d) => files'[Path(d)] = files[Path(d)]
      BY <1>3, <2>2, <2>5 DEF FInv, TypeOKFiles
    <3> QED
      BY <1>1, <2>1, <2>3, <3>1, UntouchedCall
  <2> QED
    BY <2>4, <2>5
<1>11. ASSUME NEW g \in Files PROVE FileInv(g)'
  <2>1. \A d \in Calls : Writes(d, g)' => Writes(d, g)
    BY <1>1 DEF Writes, At, Made
  <2> QED
    BY <1>1, <1>3, <1>7, <2>1 DEF FInv, TypeOKFiles, FileInv
<1> QED
  BY <1>8, <1>9, <1>10, <1>11 DEF FInv

LEMMA EndWriteKeepsFInv ==
  ASSUME TypeOKCalls, ContractInv, FInv, NEW c \in Calls, EndWrite(c)
  PROVE  FInv'
<1>1. /\ IsWriter(c) /\ Running(c) /\ Moves(c, "done", "result")
      /\ files' = files /\ moved' = moved /\ first' = first /\ expected' = expected
  BY ReturnMoves DEF EndWrite, IsWriter, At, Running, Replies
<1>2. PICK f \in Files : f = Path(c) /\ Content(c) \in Strings
  BY <1>1, PathsAreFiles DEF IsWriter, At
<1>3. settled' = [settled EXCEPT ![f] = expected[c]] /\ Len(moved[c]) = Blocks[Content(c)]
  BY <1>2 DEF EndWrite, Path, Content
<1>4. expected[c] # Unsettled => files[f] = expected[c] /\ \A d \in Calls : Writes(d, f) => d = c
  <2>1. /\ Text(Content(c)) \in Seq(Piece) /\ Len(Text(Content(c))) = Blocks[Content(c)]
        /\ moved[c] \in Seq(Piece) /\ Blocks[Content(c)] \in Nat
    BY <1>2, TextIsSeq, FilesAssumption DEF FInv, TypeOKFiles
  <2>2. moved[c] = Text(Content(c))
    BY <1>1, <1>3, <2>1, BeginsWithAll DEF FInv, CallInv, WriterInv
  <2> QED
    BY <1>1, <1>2, <2>2 DEF FInv, CallInv, WriterInv
<1>5. Writes(c, f)
  BY <1>1, <1>2 DEF Writes, IsWriter, Path
<1>6. ~Writes(c, f)' /\ \A d \in Calls : \A g : Writes(d, g)' => Writes(d, g)
  BY <1>1 DEF Moves, Writes, At, Made
<1>7. TypeOKFiles'
  BY <1>1, <1>3 DEF FInv, TypeOKFiles
<1>8. CallInv(c)'
  BY <1>1 DEF Moves, CallInv, FreshInv, WriterInv, ReaderInv, ReadInv, IsWriter, IsReader, At
<1>9. ASSUME NEW d \in Calls, d # c PROVE CallInv(d)'
  <2>1. call'[d] = call[d] /\ CallInv(d)
    BY <1>1, <1>9 DEF Moves, FInv
  <2>2. \A e \in Calls : Writes(e, Path(d))' => Writes(e, Path(d))
    BY <1>6, <2>1 DEF Path
  <2> QED
    BY <1>1, <2>1, <2>2, UntouchedCall
<1>10. ASSUME NEW g \in Files PROVE FileInv(g)'
  <2>1. CASE g = f
    BY <1>1, <1>3, <1>4, <1>6, <2>1 DEF FInv, TypeOKFiles, FileInv
  <2>2. CASE g # f
    BY <1>1, <1>3, <1>6, <2>2 DEF FInv, TypeOKFiles, FileInv
  <2> QED
    BY <2>1, <2>2
<1> QED
  BY <1>7, <1>8, <1>9, <1>10 DEF FInv

-----------------------------------------------------------------------------
\* A reader: it opens its file, reads a block, ends.  It disturbs nobody.
LEMMA ReaderKeepsOthers ==
  ASSUME TypeOKCalls, FInv, NEW c \in Calls, files' = files, settled' = settled,
         \A d \in Calls \ {c} :
           call'[d] = call[d] /\ moved'[d] = moved[d] /\ expected'[d] = expected[d],
         ~IsWriter(c)'
  PROVE  /\ \A d \in Calls \ {c} : CallInv(d)'
         /\ \A f \in Files : FileInv(f)'
<1>1. \A d \in Calls : \A f : Writes(d, f)' => Writes(d, f)
  BY DEF Writes, IsWriter, At, Made
<1>2. ASSUME NEW d \in Calls \ {c} PROVE CallInv(d)'
  <2>1. CallInv(d) /\ call'[d] = call[d]
    BY DEF FInv
  <2>2. \A e \in Calls : Writes(e, Path(d))' => Writes(e, Path(d))
    BY <1>1, <2>1 DEF Path
  <2> QED
    BY <2>1, <2>2, UntouchedCall
<1>3. ASSUME NEW f \in Files PROVE FileInv(f)'
  BY <1>1 DEF FInv, FileInv
<1> QED
  BY <1>2, <1>3

LEMMA OpenReadKeepsFInv ==
  ASSUME TypeOKCalls, ContractInv, FInv, NEW c \in Calls, OpenRead(c)
  PROVE  FInv'
<1>1. /\ Running(c) /\ call[c].tool = "file_reader" /\ call[c].pc = "begun" /\ Made(c)
      /\ files' = files /\ settled' = settled /\ moved' = moved /\ UNCHANGED <<up, keys>>
  BY DEF OpenRead, At, Running
<1>2. PICK f \in Files : f = Path(c)
  BY <1>1, PathsAreFiles
<1>3. CASE files[f] = Absent
  <2>1. Return(c, "error") /\ UNCHANGED fileVars
    BY <1>1, <1>2, <1>3 DEF OpenRead, Path, fileVars
  <2>2. Moves(c, "done", "error")
    BY <1>1, <2>1, ReturnMoves DEF Replies
  <2>3. \A d \in Calls : Bystands(d)
    BY <2>2 DEF Moves, Bystands
  <2> QED
    BY <2>1, <2>3, BystandersKeepFInv
<1>4. CASE files[f] # Absent
  <2> DEFINE e == IF \E d \in Calls : Writes(d, f) THEN Unsettled ELSE files[f]
  <2>1. Goto(c, "reading") /\ expected' = [expected EXCEPT ![c] = e]
    BY <1>2, <1>4 DEF OpenRead, Path
  <2>2. Moves(c, "reading", "none")
    BY <1>1, <2>1, GotoMoves DEF Pcs, Running
  <2>3. TypeOKFiles'
    <3>1. e \in Seq(Piece) \cup {Absent, Unsettled} /\ first' = first
      BY DEF FInv, TypeOKFiles, OpenRead
    <3> HIDE DEF e
    <3> QED
      BY <1>1, <2>1, <3>1 DEF FInv, TypeOKFiles
  <2>4. moved[c] = <<>> /\ files[f] \in Seq(Piece)
    BY <1>1, <1>4 DEF FInv, CallInv, FreshInv, FileTool, TypeOKFiles
  <2>5. CallInv(c)'
    <3>1. Path(c)' = f
      BY <1>2, <2>2 DEF Moves, Path
    <3>2. BeginsWith(files[Path(c)], moved[c])'
      BY <1>1, <2>4, <3>1 DEF BeginsWith
    <3>3. ReaderInv(c)'
      <4>1. expected'[c] # Unsettled =>
              expected'[c] = files[f] /\ \A d \in Calls : ~Writes(d, f)
        BY <2>1 DEF FInv, TypeOKFiles
      <4>2. \A d \in Calls : Writes(d, Path(c))' => Writes(d, f)
        BY <2>2, <3>1 DEF Moves, Writes, At, Made
      <4> QED
        BY <1>1, <2>4, <3>1, <3>2, <4>1, <4>2 DEF ReaderInv
    <3>4. FreshInv(c)' /\ WriterInv(c)' /\ ReadInv(c)'
      BY <2>2 DEF Moves, FreshInv, WriterInv, ReadInv, IsWriter, At
    <3> QED
      BY <3>3, <3>4 DEF CallInv
  <2>6. ~IsWriter(c)'
    BY <2>2 DEF Moves, IsWriter, At
  <2>7. \A d \in Calls \ {c} :
          call'[d] = call[d] /\ moved'[d] = moved[d] /\ expected'[d] = expected[d]
    BY <1>1, <2>1, <2>2 DEF Moves, FInv, TypeOKFiles
  <2> QED
    BY <1>1, <2>3, <2>5, <2>6, <2>7, ReaderKeepsOthers DEF FInv
<1> QED
  BY <1>3, <1>4

LEMMA ReadBlockKeepsFInv ==
  ASSUME TypeOKCalls, ContractInv, FInv, NEW c \in Calls, ReadBlock(c)
  PROVE  FInv'
<1>1. /\ IsReader(c) /\ Running(c) /\ call' = call
      /\ files' = files /\ first' = first /\ settled' = settled /\ expected' = expected
  BY DEF ReadBlock, IsReader, At, Running, callVars
<1>2. PICK f \in Files : f = Path(c)
  BY <1>1, PathsAreFiles DEF IsReader, At
<1> DEFINE x == files[f]
           m == Append(moved[c], x[Len(moved[c]) + 1])
<1>3. Len(moved[c]) + 1 \in DOMAIN x /\ moved' = [moved EXCEPT ![c] = m]
  BY <1>2 DEF ReadBlock, Path
<1>4. x \in Seq(Piece) /\ moved[c] \in Seq(Piece)
  BY <1>1, <1>2 DEF FInv, TypeOKFiles, CallInv, ReaderInv
<1>5. m \in Seq(Piece)
  BY <1>3, <1>4
<1>6. BeginsWith(x, moved[c]) => BeginsWith(x, m)
  BY <1>3, <1>4, BeginsWithOneMore
<1> HIDE DEF m
<1>7. TypeOKFiles'
  BY <1>1, <1>3, <1>5 DEF FInv, TypeOKFiles
<1>8. CallInv(c)'
  <2>1. moved'[c] = m /\ Path(c)' = f
    BY <1>1, <1>2, <1>3 DEF FInv, TypeOKFiles, Path
  <2>2. BeginsWith(files[Path(c)], moved[c])' <=> BeginsWith(x, m)
    BY <1>1, <2>1 DEF BeginsWith
  <2>3. ReaderInv(c)'
    <3>1. \A d \in Calls : Writes(d, Path(c))' <=> Writes(d, Path(c))
      BY <1>1, <1>2, <2>1 DEF Writes, At, Made
    <3> QED
      BY <1>1, <1>2, <1>4, <1>6, <2>1, <2>2, <3>1 DEF FInv, CallInv, ReaderInv
  <2>4. FreshInv(c)' /\ WriterInv(c)' /\ ReadInv(c)'
    BY <1>1 DEF IsWriter, IsReader, At, Made, FreshInv, WriterInv, ReadInv, TypeOKCalls
  <2> QED
    BY <2>3, <2>4 DEF CallInv
<1>9. ~IsWriter(c)'
  BY <1>1 DEF IsWriter, IsReader, At, Made
<1>10. \A d \in Calls \ {c} :
         call'[d] = call[d] /\ moved'[d] = moved[d] /\ expected'[d] = expected[d]
  BY <1>1, <1>3 DEF FInv, TypeOKFiles
<1> QED
  BY <1>1, <1>7, <1>8, <1>9, <1>10, ReaderKeepsOthers DEF FInv

LEMMA EndReadKeepsFInv ==
  ASSUME TypeOKCalls, ContractInv, FInv, NEW c \in Calls, EndRead(c)
  PROVE  FInv'
<1>1. /\ IsReader(c) /\ Running(c) /\ Moves(c, "done", "result") /\ UNCHANGED fileVars
  BY ReturnMoves DEF EndRead, IsReader, At, Running, Replies
<1>2. PICK f \in Files : f = Path(c)
  BY <1>1, PathsAreFiles DEF IsReader, At
<1>3. Len(moved[c]) >= Len(files[f])
  BY <1>2 DEF EndRead, Path
<1>4. expected[c] # Unsettled => moved[c] = expected[c]
  <2> SUFFICES ASSUME expected[c] # Unsettled PROVE moved[c] = expected[c]
    OBVIOUS
  <2>1. /\ files[f] \in Seq(Piece) /\ moved[c] \in Seq(Piece)
        /\ expected[c] = files[f] /\ BeginsWith(files[f], moved[c])
    BY <1>1, <1>2 DEF FInv, TypeOKFiles, CallInv, ReaderInv
  <2>2. moved[c] = files[f]
    BY <1>3, <2>1, BeginsWithAll
  <2> QED
    BY <2>1, <2>2
<1>5. TypeOKFiles'
  BY <1>1 DEF FInv, TypeOKFiles, fileVars
<1>6. CallInv(c)'
  BY <1>1, <1>4 DEF Moves, CallInv, FreshInv, WriterInv, ReaderInv, ReadInv,
     IsWriter, IsReader, At, fileVars
<1>7. ~IsWriter(c)'
  BY <1>1 DEF Moves, IsWriter, At
<1> QED
  BY <1>1, <1>5, <1>6, <1>7, ReaderKeepsOthers DEF FInv, Moves, fileVars

-----------------------------------------------------------------------------
\* The invariant holds throughout, from any files there may be at first.
LEMMA FilesInvariant == Spec => []FInv
<1>1. Init => FInv
  <2> SUFFICES ASSUME Init PROVE FInv
    OBVIOUS
  <2>1. Texts \subseteq Seq(Piece)
    BY TextIsSeq DEF Texts
  <2>2. files \in [Files -> Texts \cup {Absent}]
    BY FilesAssumption DEF Init, InitFiles, Texts
  <2>3. TypeOKFiles
    <3>1. \A f \in Files : files[f] \in Seq(Piece) \cup {Absent, Unsettled}
      BY <2>1, <2>2
    <3>2. /\ first = files /\ settled = files
          /\ moved = [c \in Calls |-> <<>>] /\ expected = [c \in Calls |-> Unsettled]
      BY DEF Init, InitFiles
    <3>3. /\ files \in [Files -> Seq(Piece) \cup {Absent}]
          /\ settled \in [Files -> Seq(Piece) \cup {Absent, Unsettled}]
      BY <2>1, <2>2, <3>1, <3>2
    <3>4. /\ moved \in [Calls -> Seq(Piece)]
          /\ expected \in [Calls -> Seq(Piece) \cup {Absent, Unsettled}]
      BY <3>2
    <3> QED
      BY <2>2, <3>2, <3>3, <3>4 DEF TypeOKFiles
  <2>4. \A c \in Calls : ~Made(c) /\ moved[c] = <<>>
    BY DEF Init, InitCalls, InitFiles, Made
  <2>5. \A c \in Calls : CallInv(c)
    BY <2>4 DEF CallInv, FreshInv, WriterInv, ReaderInv, ReadInv, IsWriter, IsReader, At
  <2>6. \A f \in Files : FileInv(f)
    BY <2>4 DEF Init, InitFiles, FileInv, Writes, At
  <2> QED
    BY <2>3, <2>5, <2>6 DEF FInv
<1>2. TypeOKCalls /\ ContractInv /\ FInv /\ [Next]_vars => FInv'
  <2> SUFFICES ASSUME TypeOKCalls, ContractInv, FInv, [Next]_vars PROVE FInv'
    OBVIOUS
  <2>1. ASSUME NEW c \in Calls, FileStep(c) PROVE FInv'
    <3>1. CASE OpenWrite(c)
      BY <3>1, OpenWriteKeepsFInv
    <3>2. CASE WriteBlock(c)
      BY <3>2, WriteBlockKeepsFInv
    <3>3. CASE EndWrite(c)
      BY <3>3, EndWriteKeepsFInv
    <3>4. CASE OpenRead(c)
      BY <3>4, OpenReadKeepsFInv
    <3>5. CASE ReadBlock(c)
      BY <3>5, ReadBlockKeepsFInv
    <3>6. CASE EndRead(c)
      BY <3>6, EndReadKeepsFInv
    <3>7. CASE WriteFails(c) \/ ReadFails(c) \/ ListDirectory(c)
      BY <3>7, FailuresKeepFInv
    <3> QED
      BY <2>1, <3>1, <3>2, <3>3, <3>4, <3>5, <3>6, <3>7 DEF FileStep
  <2>2. CASE UNCHANGED fileVars /\ OutsidersKeepOut(FileTool)
    BY <2>2, OthersKeepFInv
  <2> QED
    BY <2>1, <2>2, FileToolOrOthers
<1> QED
  BY <1>1, <1>2, CallTypes, ContractHolds, PTL DEF Spec

\* A successful write no other write overlapped is what the file holds, whole,
\* until the next one.
THEOREM SettledFilesAreExact == Spec => []SettledFilesExact
<1>1. FInv => SettledFilesExact
  BY DEF FInv, FileInv, SettledFilesExact
<1> QED
  BY <1>1, FilesInvariant, PTL

\* A successful read of a file nobody was writing meanwhile returns the content
\* as it stood when the file was opened, whole.
THEOREM QuietReadsAreExact == Spec => []QuietReadsExact
<1>1. FInv => QuietReadsExact
  BY DEF FInv, CallInv, ReadInv, QuietReadsExact
<1> QED
  BY <1>1, FilesInvariant, PTL
-----------------------------------------------------------------------------
(***************************************************************************)
(* What overlapping writers leave.  A call keeps its tool and its          *)
(* arguments whatever becomes of it, so that a block once written for some *)
(* call stays so; and a file somebody writes has been emptied, so that     *)
(* what it held at first is gone from it (though not from its readers).    *)
(***************************************************************************)
KeepArguments ==
  \A d \in Calls : Made(d) =>
    Made(d)' /\ call'[d].tool = call[d].tool /\ call'[d].args = call[d].args

LEMMA StepsKeepArguments ==
  ASSUME TypeOKCalls, [Next]_vars
  PROVE  KeepArguments
<1>1. ASSUME NEW c \in Calls, FileStep(c) PROVE KeepArguments
  BY <1>1, FileWorks DEF Works, Moves, KeepArguments, Made
<1>2. OutsidersKeepOut(FileTool) => KeepArguments
  BY DEF OutsidersKeepOut, Starts, Killed, KeepArguments, Made
<1> QED
  BY <1>1, <1>2, FileToolOrOthers

LEMMA CallsOnStay ==
  ASSUME KeepArguments, NEW c \in Calls, NEW t, NEW f, IsCallOn(c, t, f)
  PROVE  IsCallOn(c, t, f)' /\ call'[c].args = call[c].args
  BY DEF KeepArguments, IsCallOn

MixInv(f) ==
  /\ files[f] = first[f] \/ Mixture(files[f], f)
  /\ \A c \in Calls : Writes(c, f) => Mixture(files[f], f)
  /\ \A c \in Calls : IsCallOn(c, "file_reader", f) => MixtureWith(first[f], moved[c], f)

AllMixInv == \A f \in Files : MixInv(f)

LEMMA FirstStays ==
  ASSUME TypeOKCalls, [Next]_vars
  PROVE  first' = first
<1>1. ASSUME NEW c \in Calls, FileStep(c) PROVE first' = first
  BY <1>1 DEF FileStep, OpenWrite, WriteBlock, EndWrite, WriteFails, OpenRead, ReadBlock,
     EndRead, ReadFails, ListDirectory, fileVars
<1> QED
  BY <1>1, FileToolOrOthers DEF fileVars

\* The three parts of MixInv, when what they are about stays as it is.
LEMMA MixtureStays ==
  ASSUME KeepArguments, NEW f \in Files, files'[f] = files[f]
  PROVE  Mixture(files[f], f) => Mixture(files[f], f)'
  BY CallsOnStay DEF Mixture, IsWritten

LEMMA ReadersStay ==
  ASSUME KeepArguments, FInv, first' = first, NEW f \in Files, MixInv(f),
         NEW c \in Calls, moved'[c] = moved[c], IsCallOn(c, "file_reader", f)'
  PROVE  MixtureWith(first[f], moved[c], f)'
<1>1. CASE Made(c)
  <2>1. IsCallOn(c, "file_reader", f)
    BY <1>1 DEF KeepArguments, IsCallOn
  <2> QED
    BY <2>1, CallsOnStay DEF MixInv, MixtureWith, IsWritten
<1>2. CASE ~Made(c)
  <2>1. moved'[c] = <<>>
    BY <1>2 DEF FInv, CallInv, FreshInv
  <2> QED
    BY <2>1 DEF MixtureWith
<1> QED
  BY <1>1, <1>2

LEMMA MixStays ==
  ASSUME KeepArguments, FInv, first' = first, NEW f \in Files, MixInv(f),
         files'[f] = files[f], moved' = moved,
         \A c \in Calls : Writes(c, f)' => Writes(c, f)
  PROVE  MixInv(f)'
<1>1. \A c \in Calls : IsCallOn(c, "file_reader", f)' => MixtureWith(first[f], moved[c], f)'
  BY ReadersStay
<1> QED
  BY <1>1, MixtureStays DEF MixInv

\* A writer empties its file, which is a mixture of nothing.
LEMMA OpenWriteMixes ==
  ASSUME TypeOKCalls, ContractInv, FInv, KeepArguments, first' = first, NEW c \in Calls, OpenWrite(c),
         NEW f \in Files, MixInv(f)
  PROVE  MixInv(f)'
<1>1. /\ Moves(c, "writing", "none") /\ Running(c) /\ call[c].tool = "file_writer"
      /\ moved' = moved /\ files' = [files EXCEPT ![Path(c)] = <<>>]
  BY GotoMoves DEF OpenWrite, At, Running, Pcs, Path
<1>2. Path(c) \in Files
  BY <1>1, PathsAreFiles
<1>3. CASE f = Path(c)
  <2>1. files'[f] = <<>>
    BY <1>1, <1>2, <1>3 DEF FInv, TypeOKFiles
  <2>2. Mixture(files[f], f)'
    BY <2>1 DEF Mixture
  <2>3. \A d \in Calls : IsCallOn(d, "file_reader", f)' => MixtureWith(first[f], moved[d], f)'
    BY <1>1, ReadersStay
  <2> QED
    BY <2>2, <2>3 DEF MixInv
<1>4. CASE f # Path(c)
  <2>1. files'[f] = files[f]
    BY <1>1, <1>4 DEF FInv, TypeOKFiles
  <2>2. \A d \in Calls : Writes(d, f)' => Writes(d, f)
    BY <1>1, <1>4 DEF Moves, Writes, At, Made, Path
  <2> QED
    BY <1>1, <2>1, <2>2, MixStays
<1> QED
  BY <1>3, <1>4

\* It puts the i-th block of its content at position i, and at most holes before.
LEMMA WriteBlockMixes ==
  ASSUME TypeOKCalls, ContractInv, FInv, KeepArguments, first' = first, NEW c \in Calls, WriteBlock(c),
         NEW f \in Files, MixInv(f)
  PROVE  MixInv(f)'
<1>1. /\ IsWriter(c) /\ Running(c) /\ call' = call
      /\ call[c].tool = "file_writer" /\ Made(c)
  BY DEF WriteBlock, IsWriter, At, Running, callVars
<1>2. Path(c) \in Files /\ Content(c) \in Strings
  BY <1>1, PathsAreFiles
<1> DEFINE i == Len(moved[c]) + 1
           b == <<Content(c), i>>
           x == files[Path(c)]
<1>3. /\ i \in 1..Blocks[Content(c)]
      /\ moved' = [moved EXCEPT ![c] = Append(moved[c], b)]
      /\ files' = [files EXCEPT ![Path(c)] = Overwrite(x, i, b)]
  BY <1>2, TextIsSeq DEF WriteBlock, Path, Content
<1>4. \A d \in Calls \ {c} : moved'[d] = moved[d]
  BY <1>3 DEF FInv, TypeOKFiles
<1>5. \A d \in Calls : IsCallOn(d, "file_reader", f)' => d # c
  BY <1>1 DEF IsCallOn
<1>6. \A d \in Calls : IsCallOn(d, "file_reader", f)' => MixtureWith(first[f], moved[d], f)'
  BY <1>4, <1>5, ReadersStay
<1>7. \A d \in Calls : Writes(d, f)' => Writes(d, f)
  BY <1>1 DEF Writes, At, Made
<1>8. CASE f = Path(c)
  <2>1. files'[f] = Overwrite(x, i, b) /\ x = files[f]
    BY <1>2, <1>3, <1>8 DEF FInv, TypeOKFiles
  <2>2. Mixture(x, f)
    <3>1. Writes(c, f)
      BY <1>1, <1>8 DEF Writes, IsWriter, Path
    <3> QED
      BY <1>8, <3>1 DEF MixInv
  <2>3. IsCallOn(c, "file_writer", f)
    BY <1>1, <1>8, RunningIsAccepted DEF IsCallOn, Path
  <2>4. \A j \in DOMAIN Overwrite(x, i, b) :
          \/ (j = i /\ Overwrite(x, i, b)[j] = b)
          \/ (j \in DOMAIN x /\ Overwrite(x, i, b)[j] = x[j])
          \/ Overwrite(x, i, b)[j] = Hole
    BY DEF Overwrite
  <2> HIDE DEF x, i
  <2>5. \A j \in DOMAIN files'[f] : files'[f][j] = Hole \/ IsWritten(files'[f][j], j, f)
    BY <2>1, <2>2, <2>3, <2>4 DEF Mixture, IsWritten, Content
  <2>6. Mixture(files[f], f)'
    BY <2>5, CallsOnStay DEF Mixture, IsWritten
  <2> QED
    BY <1>6, <2>6 DEF MixInv
<1>9. CASE f # Path(c)
  <2>1. files'[f] = files[f]
    BY <1>2, <1>3, <1>9 DEF FInv, TypeOKFiles
  <2> QED
    BY <1>6, <1>7, <2>1, MixtureStays DEF MixInv
<1> QED
  BY <1>8, <1>9

\* A reader takes the block at its own position.
LEMMA ReadBlockMixes ==
  ASSUME TypeOKCalls, ContractInv, FInv, KeepArguments, first' = first, NEW c \in Calls, ReadBlock(c),
         NEW f \in Files, MixInv(f)
  PROVE  MixInv(f)'
<1>1. /\ IsReader(c) /\ Running(c) /\ call' = call /\ files' = files
      /\ call[c].tool = "file_reader" /\ Made(c)
  BY DEF ReadBlock, IsReader, At, Running, callVars
<1>2. Path(c) \in Files
  BY <1>1, PathsAreFiles
<1> DEFINE i == Len(moved[c]) + 1
           x == files[Path(c)]
           m == Append(moved[c], x[i])
<1>3. i \in DOMAIN x /\ moved' = [moved EXCEPT ![c] = m]
  BY DEF ReadBlock, Path
<1>4. moved'[c] = m /\ \A d \in Calls \ {c} : moved'[d] = moved[d]
  BY <1>3 DEF FInv, TypeOKFiles
<1>5. \A d \in Calls : Writes(d, f)' => Writes(d, f)
  BY <1>1 DEF Writes, At, Made
<1>6. ASSUME NEW d \in Calls, IsCallOn(d, "file_reader", f)'
      PROVE  MixtureWith(first[f], moved[d], f)'
  <2>1. CASE d # c
    BY <1>4, <1>6, <2>1, ReadersStay
  <2>2. CASE d = c
    <3>1. f = Path(c) /\ IsCallOn(c, "file_reader", f)
      BY <1>1, <1>6, <2>2 DEF IsCallOn, Path, Made
    <3>2. /\ \A j \in DOMAIN m : \/ (j = i /\ m[j] = x[i])
                               \/ (j \in DOMAIN moved[c] /\ m[j] = moved[c][j])
          /\ x \in Seq(Piece)
      <4>1. moved[c] \in Seq(Piece) /\ x \in Seq(Piece)
        BY <1>1, <1>2 DEF FInv, TypeOKFiles, CallInv, ReaderInv
      <4>2. x[i] \in Piece
        BY <1>3, <4>1
      <4> QED
        BY <4>1, <4>2
    <3> HIDE DEF m, i, x
    <3>3. \/ x[i] = Hole \/ IsWritten(x[i], i, f)
          \/ first[f] # Absent /\ i \in DOMAIN first[f] /\ x[i] = first[f][i]
      <4>1. x = files[f] /\ x # Absent
        BY <3>1, <3>2, AbsentAssumption DEF x
      <4>2. CASE x = first[f]
        BY <1>3, <4>1, <4>2
      <4>3. CASE Mixture(x, f)
        BY <1>3, <4>3 DEF Mixture
      <4> QED
        BY <4>1, <4>2, <4>3 DEF MixInv
    <3>4. MixtureWith(first[f], moved[c], f)
      BY <3>1 DEF MixInv
    <3>5. MixtureWith(first[f], m, f)
      BY <3>2, <3>3, <3>4 DEF MixtureWith
    <3> QED
      BY <1>4, <2>2, <3>5, CallsOnStay DEF MixtureWith, IsWritten
  <2> QED
    BY <2>1, <2>2
<1> QED
  BY <1>1, <1>5, <1>6, MixtureStays DEF MixInv

LEMMA MixturesInvariant == Spec => []AllMixInv
<1>1. Init => AllMixInv
  <2> SUFFICES ASSUME Init, NEW f \in Files PROVE MixInv(f)
    BY DEF AllMixInv
  <2>1. ASSUME NEW c \in Calls PROVE ~Made(c)
    BY DEF Init, InitCalls, Made
  <2>2. \A c \in Calls : ~Writes(c, f) /\ ~IsCallOn(c, "file_reader", f)
    BY ZenonT(30), <2>1 DEF Writes, At, IsCallOn
  <2>3. first = files
    BY DEF Init, InitFiles
  <2> QED
    BY <2>2, <2>3 DEF MixInv
<1>2. TypeOKCalls /\ ContractInv /\ FInv /\ AllMixInv /\ [Next]_vars => AllMixInv'
  <2> SUFFICES ASSUME TypeOKCalls, ContractInv, FInv, AllMixInv, [Next]_vars,
                      NEW f \in Files, MixInv(f)
               PROVE  MixInv(f)'
    BY DEF AllMixInv
  <2>1. KeepArguments /\ first' = first
    BY StepsKeepArguments, FirstStays
  <2>2. ASSUME NEW c \in Calls, FileStep(c) PROVE MixInv(f)'
    <3>1. CASE OpenWrite(c)
      BY <2>1, <3>1, OpenWriteMixes
    <3>2. CASE WriteBlock(c)
      BY <2>1, <3>2, WriteBlockMixes
    <3>3. CASE ReadBlock(c)
      BY <2>1, <3>3, ReadBlockMixes
    <3>4. CASE EndWrite(c) \/ OpenRead(c) \/ EndRead(c)
               \/ WriteFails(c) \/ ReadFails(c) \/ ListDirectory(c)
      <4>1. files' = files /\ moved' = moved
        BY <3>4 DEF EndWrite, OpenRead, EndRead, WriteFails, ReadFails, ListDirectory, fileVars
      <4>2. \E l \in {"reading", "done"} : Goto(c, l) \/ \E r : Return(c, r)
        BY <3>4 DEF EndWrite, OpenRead, EndRead, WriteFails, ReadFails, ListDirectory
      <4>3. \A d \in Calls : Writes(d, f)' => Writes(d, f)
        BY <4>2 DEF Goto, Return, Call, Writes, At, Made, TypeOKCalls
      <4> QED
        BY <2>1, <4>1, <4>3, MixStays
    <3> QED
      BY <2>2, <3>1, <3>2, <3>3, <3>4 DEF FileStep
  <2>3. CASE UNCHANGED fileVars /\ OutsidersKeepOut(FileTool)
    <3>1. \A d \in Calls : Writes(d, f)' => Writes(d, f)
      BY <2>3 DEF OutsidersKeepOut, Starts, Killed, Writes, At, Made, FileTool
    <3> QED
      BY <2>1, <2>3, <3>1, MixStays DEF fileVars
  <2> QED
    BY <2>2, <2>3, FileToolOrOthers
<1> QED
  BY <1>1, <1>2, CallTypes, ContractHolds, FilesInvariant, PTL DEF Spec

\* However many writers overlap, fail or die, a file is as it was at first or
\* a mixture of the contents given for it, each block in its place.
THEOREM OverlapsAreMixtures == Spec => []OverlapsOnlyMix
<1>1. AllMixInv => OverlapsOnlyMix
  BY DEF AllMixInv, MixInv, OverlapsOnlyMix
<1> QED
  BY <1>1, MixturesInvariant, PTL
=============================================================================
