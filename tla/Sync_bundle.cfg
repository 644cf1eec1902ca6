CONSTANTS
  Records = {i1, i2}
  Items = {a1}
  Named = {a1}
  General = gen
  Keys = {k1}
  Odos = {o1, o2}
  Requests = {r1}
  Clients = {c1}
  None = None
  MaxStamps = 4
SPECIFICATION MCSpec
SYMMETRY Symmetry
PROPERTY BundledAreExact
