------------------------------ MODULE Inventory ------------------------------
(* What the parts inventory and the storage locations have in common.         *)

CONSTANTS
    Stocks,      \* ids of partStocks rows
    Requests,    \* handlers in flight at one time
    None

=============================================================================
