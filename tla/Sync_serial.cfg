CONSTANTS
  Records = {i1, i2, i3}
  Items = {a1}
  Named = {a1}
  General = gen
  Keys = {k1}
  Odos = {o1, o2}
  Requests = {r1, r2}
  Clients = {c1}
  None = None
  MaxStamps = 5
SPECIFICATION MCSpec
SYMMETRY Symmetry
INVARIANT OneRowPerKey
 
