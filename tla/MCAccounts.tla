----------------------------- MODULE MCAccounts -----------------------------
(* Small instances of Accounts for TLC.  Some histories begin without users, *)
(* the others long after: an admin has a passkey, and the session it was     *)
(* registered in and its challenge are gone.                                 *)
EXTENDS Accounts, TLC

\* Everything but passwords is interchangeable.
Symmetry ==
    Permutations(Requests) \union Permutations(Users) \union Permutations(Tokens)
    \union Permutations(Challenges) \union Permutations(Keys)

InitWithKey ==
    /\ \E a \in Users, k \in Keys :
          /\ users = [u \in Users |-> IF u = a THEN [state |-> "live", role |-> "admin", pw |-> 0]
                                      ELSE NoUser]
          /\ keys = [x \in Keys |-> IF x = k THEN a ELSE None]
    /\ sessions = [t \in Tokens |-> NoSession]
    /\ challenges = [c \in Challenges |-> NoChallenge]
    /\ req = [r \in Requests |-> Idle]
    /\ passwords = 0
    /\ uses = [c \in Challenges |-> 0]

MCInit == Init \/ InitWithKey
MCSpec == MCInit /\ [][Next]_vars
=============================================================================
