SPECIFICATION Spec
CONSTANTS
  Handlers = {h1}
  Objects = {o1}
  MaxHead = 1
  MaxSets = 1
  Nobody = Nobody
INVARIANT FullyExecuted
