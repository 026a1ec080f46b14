SPECIFICATION FairSpec
CONSTANTS
  a = a
  b = b
  m = m
  n = n
  Files = {a, b}
  Refs <- MCRefs
  Addr <- MCAddr
  Yields = {a}
  Scopes = {{a, b}, {a}, {b}}
  Bundles = {m, n}
  Elements <- MCElements
  Content <- MCContent
  NoBundle = NoBundle
  Itself = Itself
  MaxVersion = 2
  MaxEdits = 3
CHECK_DEADLOCK FALSE
INVARIANTS
  TypeOK
  Resolved
  AppliedAsDefined
  ElementsAreLinked
PROPERTIES
  ApplyEnds
