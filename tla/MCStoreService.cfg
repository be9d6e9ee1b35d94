SPECIFICATION Spec
CONSTANTS
  n1 = n1
  n2 = n2
  n3 = n3
  k1 = k1
  k2 = k2
  Nodes = {n1, n2, n3}
  Keys = {k1, k2}
  Clients = {1}
  NodeId <- MCNodeId
  KeyId <- MCKeyId
  Combined <- MCCombined
  Plans <- MCPlans
  Absent = Absent
  None = None
  Deleting = Deleting
INVARIANTS
  PlacementTypeOK
  UntouchedItemsArrive
  OnlyNeededMoves
PROPERTIES
  ReconfAnswers
CHECK_DEADLOCK FALSE
