CONSTANTS
  Parts = {p1, p2}
  Records = {m1}
  Stocks = {s1, s2}
  Uses = {c1, c2}
  Requests = {r1, r2}
  None = None
  MaxQuantity = 2
  MaxAborts = 1
  Nodes = {1, 2, 3, 4}
  Places = {l1}
  MaxDepth = 2
SPECIFICATION InventorySpec
SYMMETRY Symmetry
INVARIANT CostIsCurrentAlone
INVARIANT DeletionsCascadeAlone
PROPERTY NeverOverbookedAlone
PROPERTY NewUseIsCovered
INVARIANT Rooted
INVARIANT SubtreesIntact
