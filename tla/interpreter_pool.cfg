CONSTANTS
  Runs = {r1, r2, r3}
  Workers = 2
  MaxPrints = 2
  Console = Console
SPECIFICATION Spec
SYMMETRY Symmetry
CHECK_DEADLOCK FALSE
INVARIANTS
  TypeOK
  SoloOutputExact
  OutputFromThePool
