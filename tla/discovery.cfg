CONSTANTS
  Tools = {calculator, code_interpreter}
  SharedPorts = {code_interpreter}
  Names = {calculator_name, interpreter_name}
  NoName = NoName
  NoTool = NoTool
  MaxRetries = 2
  MaxIncarnations = 2
SPECIFICATION FairSpec
CHECK_DEADLOCK FALSE
INVARIANTS
  TypeOK
  
  DescribedToolsRegistered
PROPERTIES
  StartupEnds
