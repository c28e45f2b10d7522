CONSTANTS
  Conns = {tool, ui}
  Messages = {prompt, answer}
  NoMessage = NoMessage
  LossyReset = FALSE
SPECIFICATION FairSpec
CHECK_DEADLOCK FALSE
PROPERTIES
  AllMessagesBroadcast
