CONSTANTS
  Nodes = {n1, n2}
  Places = {l1}
  Stocks = {}
  Requests = {r1, r2}
  None = None
  MaxDepth = 2
SPECIFICATION TreeSpec
SYMMETRY Symmetry
INVARIANT Rooted
