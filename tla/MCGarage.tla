------------------------------ MODULE MCGarage -------------------------------
(* Small instances of Garage for TLC.  What a history can mix is split in two, *)
(* for files and expenses share nothing with places but the motorcycles:    *)
(* uploads and expenses, or places and the rows linked to them.  Either     *)
(* half creates and deletes motorcycles.                                    *)
EXTENDS Garage, TLC

VARIABLE half

Symmetry ==
    Permutations(Bikes) \union Permutations(Images) \union Permutations(Places)
    \union Permutations(Rows) \union Permutations(Requests)

MCInit == Init /\ half \in {"charged", "linked"}

MCNext ==
    /\ UNCHANGED half
    /\ \/ \E r \in Requests : Motorcycle(r) /\ (half = "linked" => UNCHANGED disk /\ req'[r].pc # "updateBike")
       \/ \E r \in Requests : HangUp(r)
       \/ half = "charged" /\ \E r \in Requests : Expense(r)
       \/ half = "charged" /\ \E e \in Expenses : DeleteExpense(e)
       \/ half = "linked" /\ Place
       \/ half = "linked" /\ \E r \in Requests : Linked(r)

MCSpec == MCInit /\ [][MCNext]_<<vars, half>>
=============================================================================
