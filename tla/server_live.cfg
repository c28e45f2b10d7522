CONSTANTS
  Tools = {websearch, unregistered}
  Registered = {websearch}
  GrpcClients = {}
  HttpClients = {http}
  Tasks = {}
  Responses = {yes}
  NoTask = NoTask
  NoResponse = NoResponse
  NoReply = NoReply
  NoRequest = NoRequest
  NoTool = NoTool
  HealthLoop = HealthLoop
  Main = Main
  Nobody = Nobody
SPECIFICATION FairSpec
PROPERTIES
  EveryCallAnswered
  DeadToolDelisted
  ServingToolListed
  ShutdownCompletes
