CONSTANTS
  Tools = {}
  Registered = {}
  GrpcClients = {agent}
  HttpClients = {http}
  Tasks = {task}
  Responses = {yes, no}
  NoTask = NoTask
  NoResponse = NoResponse
  NoReply = NoReply
  NoRequest = NoRequest
  NoTool = NoTool
  HealthLoop = HealthLoop
  Main = Main
  Nobody = Nobody
SPECIFICATION Spec
SYMMETRY Symmetry
PROPERTIES
  HumanInputsLinearizable
