-------------------------- MODULE MCDocumentFiles --------------------------
(* Small instances of DocumentFiles for TLC. *)
EXTENDS DocumentFiles, TLC

\* Requests, users and uuids are interchangeable.
Symmetry == Permutations(Requests) \union Permutations(Users) \union Permutations(Files)
=============================================================================
