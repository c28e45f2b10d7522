CONSTANTS
  Calls = {c1}
  NoCall = NoCall
  NoArguments = NoArguments
  Strings <- MCStrings
  Arguments <- MCArguments
  Files <- MCFiles
  Contents <- MCContents
  Blocks <- MCBlocks
  Absent = Absent
  Unsettled = Unsettled
  Capitals <- MCCapitals
  MaxPerformed = 2
  Answers <- MCAnswers
  NoAnswer = NoAnswer
  Updates <- MCUpdates
  Columns <- MCColumns
  TableSize = 2
  MaxVersion = 2
SPECIFICATION Spec
CHECK_DEADLOCK FALSE
INVARIANTS
  ErrorsAreReported
