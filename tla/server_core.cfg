CONSTANTS
  Tools = {websearch, calculator}
  Registered = {websearch, calculator}
  GrpcClients = {grpc}
  HttpClients = {http}
  Tasks = {}
  Responses = {yes}
  NoTask = NoTask
  NoResponse = NoResponse
  NoReply = NoReply
  NoRequest = NoRequest
  NoTool = NoTool
  HealthLoop = HealthLoop
  Main = Main
  Nobody = Nobody
SPECIFICATION Spec
SYMMETRY Symmetry
INVARIANTS
  TypeOK
  CriticalSectionsExclusive
  LockWaitsEnd
  CleanupAfterDrain
  NoToolSurvives
  DeadToolStaysDelisted
