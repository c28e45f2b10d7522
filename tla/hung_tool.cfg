CONSTANTS
  Tools = {websearch}
  Registered = {websearch}
  GrpcClients = {grpc}
  HttpClients = {}
  Tasks = {}
  Responses = {yes}
  NoTask = NoTask
  NoResponse = NoResponse
  NoReply = NoReply
  NoRequest = NoRequest
  NoTool = NoTool
  HealthLoop = HealthLoop
  Main = Main
  Nobody = Nobody
SPECIFICATION ServerSpec
PROPERTIES
  HungToolDelisted
