SPECIFICATION MCSpec
CONSTANTS
  n1 = n1
  n2 = n2
  Nodes = {n1, n2}
  Nil = Nil
  Rounds = {1, 2, 4, 5, 6}
  Bodies = {body}
  body = body
  Epoch = 3
  Gap = 2
  Depth = 1
  Environments <- MCEnvironments
INVARIANTS
  NoneRefused
  CachedInfoRight
  GapBlocksHaveSnapshots
  SearchFinds
SYMMETRY NodeSymmetry
CHECK_DEADLOCK FALSE
