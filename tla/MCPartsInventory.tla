-------------------------- MODULE MCPartsInventory --------------------------
(* Instances of PartsInventory for TLC.  A history either has its requests   *)
(* one after the other, each to its end, over every part and purchase; or    *)
(* they overlap and may stop half-way, over one part and one purchase.       *)
EXTENDS PartsInventory, TLC

VARIABLE alone

Symmetry ==
    Permutations(Requests) \union Permutations(Stocks) \union Permutations(Uses)
        \union Permutations(Parts) \union Permutations(Records)

MCInit == Init /\ alone \in BOOLEAN

AloneNext ==
    \/ \E r \in Requests :
          /\ \A x \in Requests \ {r} : At(x, "idle")
          /\ Handling(r) /\ aborts' = 0
    \/ Stop

InHand ==
    (Parts \ live) \union {stocks[s].part : s \in Stocks} \union {uses[c].part : c \in Uses}
        \union {req[r].part : r \in Requests}
Small ==
    /\ Cardinality({s \in Stocks : stocks[s].state # "none"}) <= 1
    /\ Cardinality(InHand \ {None}) <= 1

\* Where such a history ends: its part is deleted or its purchase made.
SmallStop ==
    /\ Parts \ live # {} \/ \E s \in Stocks : stocks[s].state # "none"
    /\ UNCHANGED vars

MCNext ==
    /\ UNCHANGED alone
    /\ IF alone THEN AloneNext ELSE (Next /\ Small') \/ SmallStop

MCSpec == MCInit /\ [][MCNext]_<<vars, alone>>

\* Of the histories without overlaps: every stored cost is the one of the live
\* consumptions, unless a handler is about to write it.
CostIsCurrentAlone == alone => CostIsCurrent

\* Of the same histories: deleting a part or a record ends what hangs on it.
DeletionsCascadeAlone == alone => DeletionsCascade

\* Of the same histories: no consumption, new or enlarged, overdraws a part.
NeverOverbookedAlone == [][alone => NoOverdraft]_vars
=============================================================================
