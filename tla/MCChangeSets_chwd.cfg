SPECIFICATION Spec
CONSTANTS
  Handlers = {h1, h2}
  Objects = {o1}
  MaxHead = 2
  MaxSets = 2
  Nobody = Nobody
INVARIANT InOwnClone
