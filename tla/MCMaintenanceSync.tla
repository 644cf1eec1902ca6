------------------------- MODULE MCMaintenanceSync -------------------------
(* Instances of MaintenanceSync for TLC; the constants are model values.  A  *)
(* history is about sync, with one request at a time and pulls anywhere; or  *)
(* about retries, where requests overlap and nobody pulls.                   *)
EXTENDS MaintenanceSync, TLC

VARIABLE retrying

Symmetry ==
    Permutations(Records) \union Permutations(Items) \union Permutations(Keys)
        \union Permutations(Odos) \union Permutations(Requests) \union Permutations(Clients)

MCInit == Init /\ retrying \in BOOLEAN

MCNext ==
    /\ UNCHANGED retrying
    /\ Next
    /\ IF retrying
       THEN UNCHANGED <<copy, cursor>> /\ clock' < MaxStamps
       ELSE \A r, s \in Requests : At(r, "idle")' \/ At(s, "idle")' \/ r = s

\* Where a history about retries ends.
RetriesStop == retrying /\ clock = MaxStamps - 1 /\ UNCHANGED <<vars, retrying>>

MCSpec == MCInit /\ [][MCNext \/ RetriesStop]_<<vars, retrying>>
=============================================================================
