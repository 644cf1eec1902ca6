------------------------------- MODULE Logbook --------------------------------
(* What the pages of figures share: days are numbers, a year is YearDays of *)
(* them; entries are put in order, and sums are over functions, so that     *)
(* terms may be equal.                                                      *)
EXTENDS Columns, FiniteSets, FiniteSetsExt

CONSTANTS
    Motorcycles,
    YearDays

ASSUME LogbookAssumption == IsFiniteSet(Motorcycles) /\ YearDays \in Nat \ {0}

Year(day) == day \div YearDays

Total(f) == MapThenSumSet(LAMBDA x : f[x], DOMAIN f)

(* S in the order of a relation, which puts any two in one: the k-th has    *)
(* k - 1 before it.                                                         *)
Ranked(S, order) ==
    [k \in 1..Cardinality(S) |->
        CHOOSE x \in S : Cardinality({y \in S : <<y, x>> \in order}) = k - 1]
=============================================================================
