---------------------------- MODULE MCInventory ----------------------------
(* One instance of the inventory for TLC: a history is of the parts, as in   *)
(* MCPartsInventory, or of the storage locations, with one request at a      *)
(* time.  Location ids are numbers, given out in order.                      *)
EXTENDS MCPartsInventory, StorageTree

VARIABLE kind

inventoryVars == <<vars, treeVars, alone, kind>>

InventoryInit ==
    /\ MCInit /\ TreeInit
    /\ kind \in {"parts", "tree"} /\ (kind = "tree" => alone)

OneAtATime == Cardinality({r \in Requests : treeReq[r] # TreeIdle}) <= 1
OnePurchase ==
    Cardinality({s \in Stocks : storedAt[s] # None \/ \E r \in Requests : treeReq[r].stock = s}) <= 1
InOrder == \A n \in Nodes : nodes[n].state # "none" => \A m \in 1 .. n : nodes[m].state # "none"

InventoryNext ==
    /\ UNCHANGED kind
    /\ \/ kind = "parts" /\ MCNext /\ UNCHANGED treeVars
       \/ kind = "tree" /\ TreeNext /\ OneAtATime' /\ OnePurchase' /\ InOrder'
          /\ UNCHANGED <<vars, alone>>

InventorySpec == InventoryInit /\ [][InventoryNext]_inventoryVars
=============================================================================
