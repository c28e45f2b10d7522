CONSTANTS
  Conns = {tool, ui, agent}
  Messages = {prompt, answer}
  NoMessage = NoMessage
  LossyReset = TRUE
SPECIFICATION Spec
SYMMETRY Symmetry
CHECK_DEADLOCK FALSE
INVARIANTS
  TypeOK
  RegisteredIsServed
  ReceivedInOneOrder
PROPERTIES
  BroadcastIsTotallyOrdered
