--------------------------- MODULE MCStorageTree ---------------------------
(* Instances of StorageTree for TLC; the constants are model values.         *)
EXTENDS StorageTree, TLC

Symmetry ==
    Permutations(Nodes) \union Permutations(Places) \union Permutations(Stocks)
        \union Permutations(Requests)

=============================================================================
