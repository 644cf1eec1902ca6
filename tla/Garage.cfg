SPECIFICATION MCSpec
CONSTANTS
    Bikes = {b1, b2}
    Images = {f1, f2}
    Places = {p1, p2, p3}
    Rows = {w1}
    Expenses = {e1}
    Requests = {r1, r2}
    None = None
SYMMETRY Symmetry
INVARIANT ImagesOnDisk
INVARIANT LinksFollowMerges
INVARIANT ExpensesWhole
INVARIANT DeletesGoThrough
