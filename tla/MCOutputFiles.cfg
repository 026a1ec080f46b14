SPECIFICATION Spec
CONSTANTS
  p1 = p1
  p2 = p2
  n1 = n1
  n2 = n2
  Virt <- MCVirt
  Phys <- MCPhys
  Nowhere = Nowhere
  Main = Main
SYMMETRY Symmetry
CHECK_DEADLOCK FALSE
INVARIANTS
  TypeOK
  RecordsAgree
PROPERTIES
  RecordIsKept
  ImportKeepsNames
