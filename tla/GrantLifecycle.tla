--------------------------- MODULE GrantLifecycle ---------------------------
(***************************************************************************)
(* What the authorization server promises about a grant, with no tables,   *)
(* requests or clock: a user approves terms under a code, the code is      *)
(* spent at most once, a spent code leads to at most one grant, the grant  *)
(* carries exactly the approved terms, its secrets are replaced only while *)
(* it is live, and once ended it stays ended.                              *)
(***************************************************************************)
EXTENDS Naturals

CONSTANTS Codes, Tokens, Terms, None

VARIABLES approval,   \* code -> the terms a user approved under it, or None
          spent,      \* codes that have been redeemed
          grant       \* token -> None or [code, terms, gen, live]

avars == <<approval, spent, grant>>

Minted(c) == \E t \in Tokens : grant[t] # None /\ grant[t].code = c

AInit ==
    /\ approval = [c \in Codes |-> None]
    /\ spent = {}
    /\ grant = [t \in Tokens |-> None]

Approve(c, terms) ==
    /\ approval[c] = None
    /\ approval' = [approval EXCEPT ![c] = terms]
    /\ UNCHANGED <<spent, grant>>

Spend(c) ==
    /\ approval[c] # None
    /\ c \notin spent
    /\ spent' = spent \union {c}
    /\ UNCHANGED <<approval, grant>>

Mint(t, c) ==
    /\ c \in spent
    /\ grant[t] = None
    /\ ~Minted(c)
    /\ grant' = [grant EXCEPT ![t] =
                    [code |-> c, terms |-> approval[c], gen |-> 0, live |-> TRUE]]
    /\ UNCHANGED <<approval, spent>>

Rotate(t) ==
    /\ grant[t] # None
    /\ grant[t].live
    /\ grant' = [grant EXCEPT ![t].gen = @ + 1]
    /\ UNCHANGED <<approval, spent>>

End(T) ==
    /\ grant' = [t \in Tokens |->
                    IF t \in T /\ grant[t] # None
                    THEN [grant[t] EXCEPT !.live = FALSE] ELSE grant[t]]
    /\ UNCHANGED <<approval, spent>>

ANext ==
    \/ \E c \in Codes, terms \in Terms : Approve(c, terms)
    \/ \E c \in Codes : Spend(c)
    \/ \E t \in Tokens, c \in Codes : Mint(t, c)
    \/ \E t \in Tokens : Rotate(t)
    \/ \E T \in SUBSET Tokens : End(T)

ASpec == AInit /\ [][ANext]_avars

=============================================================================
