CONSTANTS
  tool = tool
  prompt = prompt
  Conns = {tool, ui}
  Messages = {prompt}
  NoMessage = NoMessage
  LossyReset = TRUE
  Prompt <- MCPrompt
SPECIFICATION FairSpecFlow
CHECK_DEADLOCK FALSE
INVARIANTS
  FailedRunsAskNobody
PROPERTIES
  FlowIsAQuestion
  ClosedConnectionsLeave
  PromptsAnswered
