CONSTANTS
  Handlers = {h1, h2}
  MaxVersion = 3
  MaxText = 3
SPECIFICATION Spec
SYMMETRY Symmetry
INVARIANTS
  TypeOK
  DiagnosticsAreNewest
  RelaunchTakesEffect
CHECK_DEADLOCK FALSE
