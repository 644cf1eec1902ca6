SPECIFICATION Spec
CONSTANTS
    Docs = {d1}
    Files = {f1}
    Users = {u1}
    Requests = {r1}
    None = None
    MaxRegenerated = 1
    MaxAborts = 0
SYMMETRY Symmetry
INVARIANT ArchiveNeverDangles
