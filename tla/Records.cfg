SPECIFICATION MCSpec
CONSTANTS
    Rows = {w1, w2, w3}
    Texts = {x1, x2}
    Keys = {k1}
    Requests = {r1, r2}
    None = None
    MaxAudit = 2
SYMMETRY Symmetry
INVARIANT RetriesAgree
INVARIANT WritesAreAudited
INVARIANT MarkupFits
INVARIANT OwnersInOrder
PROPERTY TombstonesStay
