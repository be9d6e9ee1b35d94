SPECIFICATION Spec
CONSTANTS
  a = a
  b = b
  outside = outside
  k1 = k1
  k2 = k2
  k3 = k3
  Nodes = {a, b}
  Keys = {k1, k2, k3}
  Home <- MCHome
  Emits <- MCEmits
  Plans <- MCTwoRounds
INVARIANTS
  ResultIsComplete
CHECK_DEADLOCK FALSE
