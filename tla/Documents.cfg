SPECIFICATION Spec
CONSTANTS
    Docs = {d1}
    Files = {f1, f2}
    Users = {u1, u2}
    Requests = {r1, r2}
    None = None
    MaxRegenerated = 1
    MaxAborts = 1
SYMMETRY Symmetry
INVARIANT RowsHaveTheirFiles
INVARIANT ArchiveHasItsFiles
