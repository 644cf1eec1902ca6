-------------------------------- MODULE Columns --------------------------------
(* What the rows of all tables share: None is a column that is NULL, which   *)
(* is no number.                                                             *)
EXTENDS Integers

CONSTANT None

ASSUME ColumnAssumption == None \notin Int
=============================================================================
