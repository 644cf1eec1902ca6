SPECIFICATION MCSpec
CONSTANTS
    Users = {u1, u2}
    Tokens = {t1, t2}
    Challenges = {c1}
    Keys = {k1}
    Requests = {r1, r2}
    None = None
    EnableRegistration = TRUE
    MaxPasswords = 1
SYMMETRY Symmetry
INVARIANT ChallengeOnce
INVARIANT NobodyOutlivesTheirUser
PROPERTY CredentialsByTheirUser
PROPERTY PasswordsAreChosen
