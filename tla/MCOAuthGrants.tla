---------------------------- MODULE MCOAuthGrants ----------------------------
(* Instances of OAuthGrants for TLC; the constants are model values.         *)
EXTENDS OAuthGrants, TLC

Symmetry ==
    Permutations(Requests) \union Permutations(Tokens) \union Permutations(Codes)
        \union Permutations(Clients) \union Permutations(Users)

=============================================================================
