--------------------------- MODULE Accounts_proofs ---------------------------
(***************************************************************************)
(* For any number of users, sessions, passkeys, challenges and requests:   *)
(* a challenge is used once; no session or passkey outlives its user; which  *)
(* password counts and which session may change credentials are what       *)
(* Accounts states.                                                        *)
(***************************************************************************)
EXTENDS Accounts, TLAPS

WithUser == {"register", "create", "open", "impersonate", "guard", "update", "addKey"}
            \union Credentials

\* What a handler carries between two statements is what it has read, unless the
\* history marks it as stale, unseen or ended.
Typed(q) ==
    /\ q \in ReqType
    /\ q.pc \in WithUser => q.user \in Users
    /\ q.pc \in {"register", "create"} => q.role \in {"user", "admin"}
    /\ q.pc \in {"addKey", "findKey"} => q.challenge \in Challenges
    /\ q.pc = "guard" => q.token \in Tokens
    /\ q.pc = "update" => q.seen.state = "live"
    /\ q.pc \in Credentials \union {"addKey"} => q.by = None \/ q.unseen
CarriesSession(q) ==
    q.pc = "guard" =>
        /\ sessions[q.token].state # "none"
        /\ sessions[q.token].by = q.by \/ sessions[q.token].state = "ended"
CarriesUsers(q) ==
    /\ q.pc = "update" => users[q.user].state # "none"
    /\ (q.pc = "update" /\ q.user \in Live /\ ~q.stale) => q.seen.pw = users[q.user].pw
CarriesChallenge(q) ==
    q.challenge \in Challenges =>
        challenges[q.challenge].state = "taken" /\ uses[q.challenge] = 0

\* A challenge is carried by one handler, and until then was not used.
OneHolder ==
    \A r, s \in Requests :
        req[r].challenge \in Challenges /\ req[r].challenge = req[s].challenge => r = s
UsedWhenTaken ==
    \A c \in Challenges : uses[c] <= 1 /\ (challenges[c].state # "taken" => uses[c] = 0)

\* The tables are what they should be.
Sound == TypeOK /\ NobodyOutlivesTheirUser

Inv ==
    /\ Sound
    /\ \A r \in Requests : Typed(req[r])
    /\ \A r \in Requests : CarriesSession(req[r])
    /\ \A r \in Requests : CarriesUsers(req[r])
    /\ \A r \in Requests : CarriesChallenge(req[r])
    /\ OneHolder
    /\ UsedWhenTaken

\* An idle request carries nothing.
LEMMA IdleTyped ==
    /\ NoUser \in UserType /\ Typed(Idle) /\ Idle.pc = "idle" /\ Idle.challenge = None
    /\ Idle.user = None
<1>1. NoUser \in UserType
  BY BoundAssumption, SMT DEF NoUser, UserType, States
<1>2. Idle \in ReqType
  BY <1>1, Zenon DEF Idle, ReqType, PCs
<1>3. Idle.pc = "idle" /\ Idle.challenge = None /\ Idle.user = None
  BY DEF Idle
<1>4. "idle" \notin WithUser \union {"addKey", "findKey"}
  BY DEF WithUser, Credentials
<1> QED
  BY <1>1, <1>2, <1>3, <1>4 DEF Typed, WithUser

\* The initial state.
LEMMA InitInv == Init => Inv
<1> SUFFICES ASSUME Init PROVE Inv
  OBVIOUS
<1>1. \A r \in Requests : req[r] = Idle
  BY DEF Init
<1>2. None \notin Challenges
  BY NoneAssumption
<1>3. Sound
  <2>1. users \in [Users -> UserType]
    BY IdleTyped DEF Init
  <2>2. sessions \in [Tokens -> SessionType] /\ challenges \in [Challenges -> ChallengeType]
    BY DEF Init, SessionType, ChallengeType, NoSession, NoChallenge
  <2>3. req \in [Requests -> ReqType]
    BY IdleTyped DEF Init, Typed
  <2>4. \A t \in Tokens : sessions[t].state \notin {"live", "expired"}
    BY DEF Init, NoSession
  <2> QED
    BY <2>1, <2>2, <2>3, <2>4, BoundAssumption, SMT DEF Sound, TypeOK, NobodyOutlivesTheirUser, Init
<1>4. UsedWhenTaken
  BY DEF UsedWhenTaken, Init
<1> QED
  BY <1>1, <1>2, <1>3, <1>4, IdleTyped
     DEF Inv, CarriesSession, CarriesUsers, CarriesChallenge, OneHolder

\* One handler goes on as q, the others as they were or marked as stale.
Goes(r, q) ==
    /\ req' \in [Requests -> ReqType]
    /\ req'[r] = q
    /\ \A x \in Requests \ {r} : req'[x] = req[x] \/ req'[x] = [req[x] EXCEPT !.stale = TRUE]

\* To mark what a handler carries as stale takes nothing of it away.
LEMMA Staler ==
    ASSUME NEW q \in ReqType, NEW p, p = q \/ p = [q EXCEPT !.stale = TRUE]
    PROVE  /\ p \in ReqType
           /\ p.pc = q.pc /\ p.user = q.user /\ p.token = q.token /\ p.seen = q.seen
           /\ p.role = q.role /\ p.challenge = q.challenge /\ p.by = q.by
           /\ p.unseen = q.unseen /\ (q.stale => p.stale)
<1>1. [q EXCEPT !.stale = TRUE] \in ReqType
  BY Zenon DEF ReqType
<1> QED
  BY <1>1 DEF ReqType

LEMMA GoesOn ==
    ASSUME Inv, NEW r \in Requests, NEW q, Typed(q), req' = [req EXCEPT ![r] = q]
    PROVE  Goes(r, q)
BY DEF Inv, Sound, TypeOK, Typed, Goes

LEMMA Outdated ==
    ASSUME Inv, NEW r \in Requests, NEW q, Typed(q), NEW X, Outdate(r, q, X)
    PROVE  Goes(r, q)
<1>1. req \in [Requests -> ReqType]
  BY DEF Inv, Sound, TypeOK
<1>2. \A x \in Requests : [req[x] EXCEPT !.stale = TRUE] \in ReqType
  BY <1>1, Staler
<1> QED
  BY <1>1, <1>2 DEF Outdate, Goes, Typed

\* What is left to show of a step in which r goes on as q: the tables, what q
\* carries, and what the others carry.
LEMMA Step ==
    ASSUME Inv, NEW r \in Requests, NEW q, Typed(q), Goes(r, q),
           CarriesSession(q)', CarriesUsers(q)', CarriesChallenge(q)',
           \A x \in Requests \ {r} : q.challenge \in Challenges => req[x].challenge # q.challenge,
           \A x \in Requests \ {r} :
              CarriesSession(req[x])' /\ CarriesUsers(req[x])' /\ CarriesChallenge(req[x])',
           Sound', UsedWhenTaken'
    PROVE  Inv'
<1>1. req \in [Requests -> ReqType]
  BY DEF Inv, Sound, TypeOK
<1>2. \A x \in Requests \ {r} :
        /\ Typed(req'[x])
        /\ req'[x].challenge = req[x].challenge
  <2> TAKE x \in Requests \ {r}
  <2>1. Typed(req[x])
    BY DEF Inv
  <2>2. req'[x] = req[x] \/ req'[x] = [req[x] EXCEPT !.stale = TRUE]
    BY DEF Goes
  <2> QED
    BY <1>1, <2>1, <2>2, Staler DEF Typed
<1>3. req'[r] = q
  BY DEF Goes
<1>4. OneHolder'
  BY <1>2, <1>3 DEF OneHolder, Inv
<1>5. \A x \in Requests : Typed(req'[x])
  BY <1>2, <1>3
<1>6. \A x \in Requests :
        CarriesSession(req[x])' /\ CarriesUsers(req[x])' /\ CarriesChallenge(req[x])'
  BY <1>3 DEF CarriesSession, CarriesUsers, CarriesChallenge
<1> QED
  BY <1>4, <1>5, <1>6 DEF Inv, Typed

\* The other handlers go on carrying what they carried.
LEMMA OthersSame ==
    ASSUME Inv, NEW r \in Requests, NEW q, Goes(r, q), NEW x \in Requests \ {r}
    PROVE  /\ Typed(req[x])
           /\ CarriesSession(req[x]) /\ CarriesUsers(req[x]) /\ CarriesChallenge(req[x])
           /\ req'[x].pc = req[x].pc /\ req'[x].user = req[x].user
           /\ req'[x].token = req[x].token /\ req'[x].seen = req[x].seen
           /\ req'[x].role = req[x].role /\ req'[x].challenge = req[x].challenge
           /\ req'[x].by = req[x].by /\ (req[x].stale => req'[x].stale)
<1>1. req[x] \in ReqType
  BY DEF Inv, Sound, TypeOK
<1>2. req'[x] = req[x] \/ req'[x] = [req[x] EXCEPT !.stale = TRUE]
  BY DEF Goes
<1> QED
  BY <1>1, <1>2, Staler DEF Inv

\* ... their session, if an old session keeps its opener or ends for good,
SessionsGoOn ==
    \A t \in Tokens : sessions[t].state # "none" =>
        /\ sessions'[t].state # "none"
        /\ sessions'[t].by = sessions[t].by \/ sessions'[t].state = "ended"
        /\ sessions[t].state = "ended" => sessions'[t].state = "ended"

LEMMA OthersSession ==
    ASSUME Inv, NEW r \in Requests, NEW q, Goes(r, q), NEW x \in Requests \ {r}, SessionsGoOn
    PROVE  CarriesSession(req[x])'
<1>1. /\ Typed(req[x]) /\ CarriesSession(req[x])
      /\ req'[x].pc = req[x].pc /\ req'[x].token = req[x].token /\ req'[x].by = req[x].by
  BY OthersSame
<1> QED
  BY <1>1 DEF CarriesSession, SessionsGoOn, Typed

\* ... what they read of the users, if no user comes and no password changes,
UsersGoOn ==
    /\ Live' \subseteq Live /\ \A u \in Live' : users'[u].pw = users[u].pw
    /\ \A u \in Users : users[u].state # "none" => users'[u].state # "none"

LEMMA OthersUsers ==
    ASSUME Inv, NEW r \in Requests, NEW q, Goes(r, q), NEW x \in Requests \ {r}, UsersGoOn
    PROVE  CarriesUsers(req[x])'
<1>1. /\ Typed(req[x]) /\ CarriesUsers(req[x])
      /\ req'[x].pc = req[x].pc /\ req'[x].user = req[x].user /\ req'[x].role = req[x].role
      /\ req'[x].seen = req[x].seen /\ (req[x].stale => req'[x].stale)
  BY OthersSame
<1> HIDE DEF Live
<1> QED
  BY <1>1 DEF CarriesUsers, UsersGoOn, Typed, WithUser

\* ... and their challenge, if only the one r carries is used.
ChallengesGoOn(r) ==
    \A c \in Challenges : challenges[c].state = "taken" =>
        /\ challenges'[c].state = "taken"
        /\ uses'[c] = uses[c] \/ req[r].challenge = c

LEMMA OthersChallenge ==
    ASSUME Inv, NEW r \in Requests, NEW q, Goes(r, q), NEW x \in Requests \ {r}, ChallengesGoOn(r)
    PROVE  CarriesChallenge(req[x])'
<1>1. CarriesChallenge(req[x]) /\ req'[x].challenge = req[x].challenge
  BY OthersSame
<1>2. req[x].challenge \in Challenges => req[r].challenge # req[x].challenge
  BY DEF Inv, OneHolder
<1> QED
  BY <1>1, <1>2 DEF CarriesChallenge, ChallengesGoOn

\* A statement that only reads: r goes on as q.
LEMMA Reading ==
    ASSUME Inv, NEW r \in Requests, NEW q, Typed(q), req' = [req EXCEPT ![r] = q],
           CarriesSession(q), CarriesUsers(q),
           q.challenge \in Challenges => q.challenge = req[r].challenge,
           UNCHANGED <<users, sessions, challenges, keys, passwords, uses>>
    PROVE  Inv'
<1>1. Goes(r, q)
  BY GoesOn
<1>2. SessionsGoOn /\ ChallengesGoOn(r)
  BY DEF SessionsGoOn, ChallengesGoOn
<1>3. UsersGoOn
  BY DEF UsersGoOn, Live
<1>4. CarriesSession(q)' /\ CarriesUsers(q)'
  BY DEF CarriesSession, CarriesUsers, Live
<1>5. /\ CarriesChallenge(q)'
      /\ \A x \in Requests \ {r} : q.challenge \in Challenges => req[x].challenge # q.challenge
  <2>1. CarriesChallenge(req[r]) /\ OneHolder
    BY DEF Inv
  <2> QED
    BY <2>1 DEF CarriesChallenge, OneHolder
<1>6. Sound' /\ UsedWhenTaken'
  BY <1>1 DEF Inv, Sound, TypeOK, NobodyOutlivesTheirUser, UsedWhenTaken, Live, Goes
<1>7. \A x \in Requests \ {r} :
        CarriesSession(req[x])' /\ CarriesUsers(req[x])' /\ CarriesChallenge(req[x])'
  BY <1>1, <1>2, <1>3, OthersSession, OthersUsers, OthersChallenge
<1> QED
  BY <1>1, <1>4, <1>5, <1>6, <1>7, Step

\* What a handler that is about to begin or to end carries.
LEMMA FreshRequest ==
    ASSUME NEW q, Typed(q), q.pc \notin {"guard", "update"}
    PROVE  CarriesSession(q) /\ CarriesUsers(q)
BY DEF CarriesSession, CarriesUsers

\* The handlers' first statements, and those that end a request.
LEMMA FinishInv ==
    ASSUME Inv, NEW r \in Requests, req' = [req EXCEPT ![r] = Idle],
           UNCHANGED <<users, sessions, challenges, keys, passwords, uses>>
    PROVE  Inv'
<1>1. Idle.challenge \notin Challenges
  BY IdleTyped, NoneAssumption
<1>2. CarriesSession(Idle) /\ CarriesUsers(Idle)
  BY IdleTyped DEF CarriesSession, CarriesUsers
<1> QED
  BY <1>1, <1>2, IdleTyped, Reading

\* A request that begins: what the first statement of each handler reads.
LEMMA BeginInv ==
    ASSUME Inv, NEW r \in Requests, NEW q, Start(r, q), Typed(q), q.challenge = None,
           CarriesSession(q), CarriesUsers(q),
           UNCHANGED <<users, sessions, challenges, keys, passwords, uses>>
    PROVE  Inv'
<1>1. q.challenge \notin Challenges
  BY NoneAssumption
<1> QED
  BY <1>1, Reading DEF Start

LEMMA RegisterInv ==
    ASSUME Inv, NEW r \in Requests, NEW u \in Users, Register(r, u)
    PROVE  Inv'
<1> DEFINE role == IF Live = {} THEN "admin" ELSE "user"
           q == [Idle EXCEPT !.pc = "register", !.user = u, !.role = role]
<1>1. role \in {"user", "admin"}
  OBVIOUS
<1>2. q \in ReqType /\ q.pc = "register" /\ q.user = u /\ q.role = role /\ q.challenge = None
  BY <1>1, IdleTyped, Zenon DEF Typed, ReqType, PCs, Idle
<1>3. "register" \notin Credentials \union {"addKey", "findKey", "guard", "update"}
  BY DEF Credentials
<1>4. Typed(q)
  BY <1>1, <1>2, <1>3 DEF Typed
<1>5. CarriesSession(q) /\ CarriesUsers(q)
  BY <1>2 DEF CarriesSession, CarriesUsers
<1>6. Start(r, q) /\ UNCHANGED <<users, sessions, challenges, keys, passwords, uses>>
  BY DEF Register
<1> HIDE DEF q
<1> QED
  BY <1>2, <1>4, <1>5, <1>6, BeginInv

LEMMA CreateUserInv ==
    ASSUME Inv, NEW r \in Requests, NEW t \in Tokens, NEW a \in Users, NEW u \in Users,
           NEW role \in {"user", "admin"}, CreateUser(r, t, a, u, role)
    PROVE  Inv'
<1> DEFINE q == [Idle EXCEPT !.pc = "create", !.user = u, !.role = role]
<1>1. q \in ReqType /\ q.pc = "create" /\ q.user = u /\ q.role = role /\ q.challenge = None
  BY IdleTyped, Zenon DEF Typed, ReqType, PCs, Idle
<1>2. "create" \notin Credentials \union {"addKey", "findKey", "guard", "update"}
  BY DEF Credentials
<1>3. Typed(q)
  BY <1>1, <1>2 DEF Typed
<1>4. Start(r, q) /\ UNCHANGED <<users, sessions, challenges, keys, passwords, uses>>
  BY DEF CreateUser
<1> HIDE DEF q
<1> QED
  BY <1>1, <1>3, <1>4, FreshRequest, BeginInv

LEMMA LoginInv ==
    ASSUME Inv, NEW r \in Requests, NEW u \in Users, Login(r, u)
    PROVE  Inv'
<1> DEFINE q == [Idle EXCEPT !.pc = "open", !.user = u]
<1>1. q \in ReqType /\ q.pc = "open" /\ q.user = u /\ q.challenge = None
  BY IdleTyped, Zenon DEF Typed, ReqType, PCs, Idle
<1>2. "open" \notin Credentials \union {"addKey", "findKey", "guard", "update"}
  BY DEF Credentials
<1>3. Typed(q)
  BY <1>1, <1>2 DEF Typed
<1>4. Start(r, q) /\ UNCHANGED <<users, sessions, challenges, keys, passwords, uses>>
  BY DEF Login
<1> HIDE DEF q
<1> QED
  BY <1>1, <1>3, <1>4, FreshRequest, BeginInv

LEMMA ImpersonateInv ==
    ASSUME Inv, NEW r \in Requests, NEW t \in Tokens, NEW a \in Users, NEW u \in Users,
           Impersonate(r, t, a, u)
    PROVE  Inv'
<1> DEFINE q == [Idle EXCEPT !.pc = "impersonate", !.user = u, !.by = a]
<1>1. q \in ReqType /\ q.pc = "impersonate" /\ q.user = u /\ q.challenge = None
  BY IdleTyped, Zenon DEF Typed, ReqType, PCs, Idle
<1>2. "impersonate" \notin Credentials \union {"addKey", "findKey", "guard", "update"}
  BY DEF Credentials
<1>3. Typed(q)
  BY <1>1, <1>2 DEF Typed
<1>4. Start(r, q) /\ UNCHANGED <<users, sessions, challenges, keys, passwords, uses>>
  BY DEF Impersonate
<1> HIDE DEF q
<1> QED
  BY <1>1, <1>3, <1>4, FreshRequest, BeginInv

LEMMA BeginUpdateInv ==
    ASSUME Inv, NEW r \in Requests, NEW t \in Tokens, NEW a \in Users, NEW u \in Users,
           BeginUpdate(r, t, a, u)
    PROVE  Inv'
<1> DEFINE q == [Idle EXCEPT !.pc = "update", !.user = u, !.seen = users[u], !.by = sessions[t].by]
<1>1. users[u] \in UserType /\ sessions[t].by \in Users \union {None}
  BY DEF Inv, Sound, TypeOK, SessionType
<1>2. /\ q \in ReqType /\ q.pc = "update" /\ q.user = u /\ q.challenge = None
      /\ q.seen = users[u]
  BY <1>1, IdleTyped, Zenon DEF Typed, ReqType, PCs, Idle
<1>3. "update" \notin Credentials \union {"addKey", "findKey", "guard", "register", "create"}
  BY DEF Credentials
<1>4. users[u].state = "live"
  BY DEF BeginUpdate, Live
<1>5. Typed(q)
  BY <1>2, <1>3, <1>4 DEF Typed
<1>6. CarriesSession(q) /\ CarriesUsers(q)
  BY <1>2, <1>4 DEF CarriesSession, CarriesUsers
<1>7. Start(r, q) /\ UNCHANGED <<users, sessions, challenges, keys, passwords, uses>>
  BY DEF BeginUpdate
<1> HIDE DEF q
<1> QED
  BY <1>2, <1>5, <1>6, <1>7, BeginInv

LEMMA BeginGuardedInv ==
    ASSUME Inv, NEW r \in Requests, NEW t \in Tokens, NEW u \in Users, BeginGuarded(r, t, u)
    PROVE  Inv'
<1> DEFINE q == [Idle EXCEPT !.pc = "guard", !.user = u, !.token = t, !.by = sessions[t].by]
<1>1. sessions[t].by \in Users \union {None}
  BY DEF Inv, Sound, TypeOK, SessionType
<1>2. /\ q \in ReqType /\ q.pc = "guard" /\ q.user = u /\ q.challenge = None
      /\ q.token = t /\ q.by = sessions[t].by
  BY <1>1, IdleTyped, Zenon DEF Typed, ReqType, PCs, Idle
<1>3. "guard" \notin Credentials \union {"addKey", "findKey", "update", "register", "create"}
  BY DEF Credentials
<1>4. sessions[t].state = "live"
  BY DEF BeginGuarded, Authenticated
<1>5. Typed(q)
  BY <1>2, <1>3 DEF Typed
<1>6. CarriesSession(q) /\ CarriesUsers(q)
  BY <1>2, <1>4 DEF CarriesSession, CarriesUsers
<1>7. Start(r, q) /\ UNCHANGED <<users, sessions, challenges, keys, passwords, uses>>
  BY DEF BeginGuarded
<1> HIDE DEF q
<1> QED
  BY <1>2, <1>5, <1>6, <1>7, BeginInv

\* The second look at the session: none, or one nobody opened for another, or
\* one that ended since.
LEMMA GuardInv ==
    ASSUME Inv, NEW r \in Requests, Guard(r)
    PROVE  Inv'
<1>1. UNCHANGED <<users, sessions, challenges, keys, passwords, uses>> /\ req[r].pc = "guard"
  BY DEF Guard, At
<1>2. CASE sessions[req[r].token].by # None
  BY <1>1, <1>2, FinishInv DEF Guard, Finish
<1>3. CASE sessions[req[r].token].by = None
  <2> DEFINE unseen == sessions[req[r].token].state = "ended" /\ req[r].by # None
  <2>1. PICK op \in Credentials :
          req' = [req EXCEPT ![r].pc = op, ![r].token = None, ![r].unseen = unseen]
    BY <1>3 DEF Guard
  <2> DEFINE q == [req[r] EXCEPT !.pc = op, !.token = None, !.unseen = unseen]
  <2>2. req \in [Requests -> ReqType] /\ req[r] \in ReqType /\ Typed(req[r]) /\ CarriesSession(req[r])
    BY DEF Inv, Sound, TypeOK
  <2>3. req' = [req EXCEPT ![r] = q]
    BY <2>1, <2>2, Zenon
  <2>4. op \in PCs /\ op \notin {"guard", "register", "update", "create", "addKey", "findKey"}
    BY DEF PCs, Credentials
  <2>5. /\ q \in ReqType /\ q.pc = op /\ q.unseen = unseen /\ q.by = req[r].by
        /\ q.user = req[r].user /\ q.challenge = req[r].challenge
    <3>1. unseen \in BOOLEAN
      OBVIOUS
    <3> HIDE DEF unseen
    <3> QED
      BY <2>2, <2>4, <3>1, Zenon DEF ReqType
  <2>6. q.by = None \/ q.unseen
    BY <1>1, <1>3, <2>2, <2>5 DEF CarriesSession
  <2>7. q.user \in Users
    BY <1>1, <2>2, <2>5 DEF Typed, WithUser
  <2> HIDE DEF q
  <2>8. Typed(q)
    BY <2>4, <2>5, <2>6, <2>7 DEF Typed
  <2> QED
    BY <1>1, <2>3, <2>4, <2>5, <2>8, FreshRequest, Reading
<1> QED
  BY <1>2, <1>3

\* A passkey is found by its id: from then on the request is its user's.
LEMMA FindKeyInv ==
    ASSUME Inv, NEW r \in Requests, FindKey(r)
    PROVE  Inv'
<1>1. PICK k \in Keys :
        keys[k] # None /\ req' = [req EXCEPT ![r].pc = "open", ![r].user = keys[k]]
  BY DEF FindKey
<1>2. UNCHANGED <<users, sessions, challenges, keys, passwords, uses>>
  BY DEF FindKey
<1> DEFINE q == [req[r] EXCEPT !.pc = "open", !.user = keys[k]]
<1>3. req \in [Requests -> ReqType] /\ req[r] \in ReqType /\ keys[k] \in Users
  BY <1>1 DEF Inv, Sound, TypeOK
<1>4. req' = [req EXCEPT ![r] = q]
  BY <1>1, <1>3, Zenon
<1>5. /\ q \in ReqType /\ q.pc = "open" /\ q.user = keys[k]
      /\ q.challenge = req[r].challenge
  <2>1. "open" \in PCs
    BY DEF PCs
  <2> QED
    BY <1>3, <2>1, Zenon DEF ReqType
<1>6. "open" \notin Credentials \union {"addKey", "findKey", "update", "register", "create", "guard"}
  BY DEF Credentials
<1> HIDE DEF q
<1>7. Typed(q)
  BY <1>3, <1>5, <1>6 DEF Typed
<1> QED
  BY <1>2, <1>4, <1>5, <1>6, <1>7, FreshRequest, Reading

\* A step that no handler takes part in.
LEMMA Tables ==
    ASSUME Inv, UNCHANGED req, SessionsGoOn, UsersGoOn,
           \A c \in Challenges : challenges[c].state = "taken" =>
               challenges'[c].state = "taken" /\ uses'[c] = uses[c],
           Sound', UsedWhenTaken'
    PROVE  Inv'
<1> SUFFICES ASSUME NEW x \in Requests
             PROVE  /\ Typed(req[x])
                    /\ CarriesSession(req[x])' /\ CarriesUsers(req[x])' /\ CarriesChallenge(req[x])'
  BY DEF Inv, OneHolder, Typed
<1>1. /\ Typed(req[x])
      /\ CarriesSession(req[x]) /\ CarriesUsers(req[x]) /\ CarriesChallenge(req[x])
  BY DEF Inv
<1>2. CarriesSession(req[x])'
  BY <1>1 DEF CarriesSession, SessionsGoOn, Typed
<1>3. CarriesUsers(req[x])'
  <2> HIDE DEF Live
  <2> QED
    BY <1>1 DEF CarriesUsers, UsersGoOn, Typed, WithUser
<1>4. CarriesChallenge(req[x])'
  BY <1>1 DEF CarriesChallenge
<1> QED
  BY <1>1, <1>2, <1>3, <1>4

\* What is left to show of the tables after a step.
LEMMA TypesOfTables ==
    ASSUME Inv, users' \in [Users -> UserType], sessions' \in [Tokens -> SessionType],
           challenges' \in [Challenges -> ChallengeType], keys' \in [Keys -> Users \union {None}],
           req' \in [Requests -> ReqType], passwords' \in 0 .. MaxPasswords,
           uses' \in [Challenges -> Nat], NobodyOutlivesTheirUser'
    PROVE  Sound'
BY DEF Sound, TypeOK

\* The next step of a session, whoever ends it.
LEMMA SessionInv ==
    ASSUME Inv, NEW t \in Tokens, NEW s \in SessionType,
           sessions[t].state \in {"live", "expired"}, sessions' = [sessions EXCEPT ![t] = s],
           s.state = "ended" \/ (s.state = "expired" /\ s.by = sessions[t].by /\ s.user = sessions[t].user),
           UNCHANGED <<users, challenges, keys, req, passwords, uses>>
    PROVE  Inv'
<1>1. sessions \in [Tokens -> SessionType]
  BY DEF Inv, Sound, TypeOK
<1>2. SessionsGoOn
  BY <1>1 DEF SessionsGoOn
<1>3. UsersGoOn
  BY DEF UsersGoOn, Live
<1>4. sessions' \in [Tokens -> SessionType]
  BY <1>1
<1>5. NobodyOutlivesTheirUser'
  <2>1. \A x \in Tokens : sessions'[x] = IF x = t THEN s ELSE sessions[x]
    BY <1>1
  <2>2. Live' = Live
    BY DEF Live
  <2>3. NobodyOutlivesTheirUser
    BY DEF Inv, Sound, TypeOK, NobodyOutlivesTheirUser
  <2> HIDE DEF Live
  <2> QED
    BY <2>1, <2>2, <2>3 DEF NobodyOutlivesTheirUser
<1>6. Sound'
  BY <1>4, <1>5, TypesOfTables DEF Inv, Sound, TypeOK
<1>7. UsedWhenTaken'
  BY DEF Inv, UsedWhenTaken
<1> QED
  BY <1>2, <1>3, <1>6, <1>7, Tables

LEMMA LogoutInv ==
    ASSUME Inv, NEW t \in Tokens, Logout(t)
    PROVE  Inv'
<1> DEFINE s == [NoSession EXCEPT !.state = "ended"]
<1>1. s \in SessionType /\ s.state = "ended"
  BY DEF NoSession, SessionType
<1>2. sessions' = [sessions EXCEPT ![t] = s]
  BY DEF Logout, EndSession
<1> QED
  BY <1>1, <1>2, SessionInv DEF Logout

LEMMA ExpireSessionInv ==
    ASSUME Inv, NEW t \in Tokens, ExpireSession(t)
    PROVE  Inv'
<1> DEFINE s == IF sessions[t].by = None THEN [NoSession EXCEPT !.state = "ended"]
                ELSE [sessions[t] EXCEPT !.state = "expired"]
<1>1. sessions \in [Tokens -> SessionType] /\ sessions[t] \in SessionType
  BY DEF Inv, Sound, TypeOK
<1>2. /\ s \in SessionType
      /\ s.state = "ended" \/ (s.state = "expired" /\ s.by = sessions[t].by /\ s.user = sessions[t].user)
  BY <1>1 DEF NoSession, SessionType
<1>3. sessions' = [sessions EXCEPT ![t] = s]
  BY <1>1, Zenon DEF ExpireSession
<1> HIDE DEF s
<1> QED
  BY <1>2, <1>3, SessionInv DEF ExpireSession

\* Two challenges of one login, or of one registration, are two rows.
LEMMA ChallengeTables ==
    ASSUME Inv, NEW c \in Challenges, NEW row \in ChallengeType,
           challenges' = [challenges EXCEPT ![c] = row],
           challenges[c].state # "taken",
           UNCHANGED <<users, sessions, keys, passwords, uses>>
    PROVE  /\ challenges' \in [Challenges -> ChallengeType]
           /\ challenges'[c] = row
           /\ \A x \in Challenges \ {c} : challenges'[x] = challenges[x]
           /\ UsedWhenTaken'
           /\ req' \in [Requests -> ReqType] => Sound'
<1>1. challenges \in [Challenges -> ChallengeType]
  BY DEF Inv, Sound, TypeOK
<1>2. /\ challenges' \in [Challenges -> ChallengeType]
      /\ challenges'[c] = row
      /\ \A x \in Challenges \ {c} : challenges'[x] = challenges[x]
  BY <1>1
<1>3. UsedWhenTaken'
  BY <1>2 DEF Inv, UsedWhenTaken
<1>4. NobodyOutlivesTheirUser'
  BY DEF Inv, Sound, TypeOK, NobodyOutlivesTheirUser, Live
<1>5. req' \in [Requests -> ReqType] => Sound'
  BY <1>2, <1>4, TypesOfTables DEF Inv, Sound, TypeOK
<1> QED
  BY <1>2, <1>3, <1>5

LEMMA QuietChallenge ==
    ASSUME Inv, NEW c \in Challenges, NEW row \in ChallengeType,
           challenges' = [challenges EXCEPT ![c] = row],
           challenges[c].state # "taken",
           UNCHANGED <<users, sessions, keys, req, passwords, uses>>
    PROVE  Inv'
<1>1. SessionsGoOn /\ UsersGoOn
  BY DEF SessionsGoOn, UsersGoOn, Live
<1>2. req \in [Requests -> ReqType]
  BY DEF Inv, Sound, TypeOK
<1>3. Sound' /\ UsedWhenTaken'
  BY <1>2, ChallengeTables
<1>4. \A x \in Challenges : challenges[x].state = "taken" =>
          challenges'[x].state = "taken" /\ uses'[x] = uses[x]
  BY ChallengeTables
<1> QED
  BY <1>1, <1>3, <1>4, Tables

LEMMA LoginOptionsInv == Inv /\ LoginOptions => Inv'
<1> SUFFICES ASSUME Inv, LoginOptions PROVE Inv'
  OBVIOUS
<1>1. PICK c \in Challenges :
        /\ challenges[c].state = "none"
        /\ challenges' = [challenges EXCEPT ![c] = [state |-> "open", user |-> None]]
        /\ UNCHANGED <<users, sessions, keys, passwords, uses>>
  BY DEF LoginOptions, NewChallenge
<1>2. [state |-> "open", user |-> None] \in ChallengeType
  BY DEF ChallengeType
<1> QED
  BY <1>1, <1>2, QuietChallenge DEF LoginOptions

LEMMA ExpireChallengeInv ==
    ASSUME Inv, NEW c \in Challenges, ExpireChallenge(c)
    PROVE  Inv'
<1> DEFINE row == [challenges[c] EXCEPT !.state = "expired"]
<1>1. challenges \in [Challenges -> ChallengeType] /\ challenges[c] \in ChallengeType
  BY DEF Inv, Sound, TypeOK
<1>2. row \in ChallengeType
  BY <1>1 DEF ChallengeType
<1>3. challenges' = [challenges EXCEPT ![c] = row]
  BY <1>1, Zenon DEF ExpireChallenge
<1> HIDE DEF row
<1> QED
  BY <1>2, <1>3, QuietChallenge DEF ExpireChallenge

\* A handler that ends beside a change of the tables.
LEMMA Ends ==
    ASSUME Inv, NEW r \in Requests, Goes(r, Idle),
           \A x \in Requests \ {r} :
              CarriesSession(req[x])' /\ CarriesUsers(req[x])' /\ CarriesChallenge(req[x])',
           Sound', UsedWhenTaken'
    PROVE  Inv'
<1>1. Idle.challenge \notin Challenges
  BY IdleTyped, NoneAssumption
<1>2. CarriesSession(Idle)' /\ CarriesUsers(Idle)' /\ CarriesChallenge(Idle)'
  BY <1>1, IdleTyped DEF CarriesSession, CarriesUsers, CarriesChallenge
<1> QED
  BY <1>1, <1>2, IdleTyped, Step

LEMMA RegisterOptionsInv ==
    ASSUME Inv, NEW r \in Requests, RegisterOptions(r)
    PROVE  Inv'
<1>1. Goes(r, Idle)
  BY IdleTyped, GoesOn DEF RegisterOptions, Finish
<1>2. req[r].user \in Users \union {None}
  BY DEF Inv, Sound, TypeOK, ReqType
<1>3. PICK c \in Challenges :
        /\ challenges[c].state = "none"
        /\ challenges' = [challenges EXCEPT ![c] = [state |-> "open", user |-> req[r].user]]
        /\ UNCHANGED <<users, sessions, keys, passwords, uses>>
  BY DEF RegisterOptions, NewChallenge
<1>4. [state |-> "open", user |-> req[r].user] \in ChallengeType
  BY <1>2 DEF ChallengeType
<1>5. SessionsGoOn /\ UsersGoOn
  BY <1>3 DEF SessionsGoOn, UsersGoOn, Live
<1>6. Sound' /\ UsedWhenTaken' /\ ChallengesGoOn(r)
  <2>1. req' \in [Requests -> ReqType]
    BY <1>1 DEF Goes
  <2> QED
    BY <1>3, <1>4, <2>1, ChallengeTables DEF ChallengesGoOn
<1>7. \A x \in Requests \ {r} :
        CarriesSession(req[x])' /\ CarriesUsers(req[x])' /\ CarriesChallenge(req[x])'
  BY <1>1, <1>5, <1>6, OthersSession, OthersUsers, OthersChallenge
<1> QED
  BY <1>1, <1>6, <1>7, Ends

\* The row of a challenge goes with the first request that presents it, and that
\* request carries it from then on.
LEMMA TakeInv ==
    ASSUME Inv, NEW r \in Requests, NEW c \in Challenges, Take(r, c)
    PROVE  Inv'
<1> DEFINE row == [NoChallenge EXCEPT
                     !.state = IF challenges[c].state = "open" THEN "taken" ELSE "lapsed"]
           pc == IF At(r, "take") THEN "addKey" ELSE "findKey"
           next == [req[r] EXCEPT !.pc = pc, !.challenge = c]
<1>1. row \in ChallengeType /\ (challenges[c].state = "open" => row.state = "taken")
  BY DEF NoChallenge, ChallengeType
<1>2. /\ challenges' = [challenges EXCEPT ![c] = row]
      /\ UNCHANGED <<users, sessions, keys, passwords, uses>>
      /\ challenges[c].state \in {"open", "expired"}
  BY DEF Take
<1>3. /\ challenges[c].state = "open" => challenges'[c].state = "taken"
      /\ \A x \in Challenges \ {c} : challenges'[x] = challenges[x]
      /\ UsedWhenTaken'
      /\ req' \in [Requests -> ReqType] => Sound'
  BY <1>1, <1>2, ChallengeTables
<1>4. SessionsGoOn /\ UsersGoOn /\ ChallengesGoOn(r)
  BY <1>2, <1>3 DEF SessionsGoOn, UsersGoOn, ChallengesGoOn, Live
<1>5. uses[c] = 0 /\ \A x \in Requests : req[x].challenge # c
  BY <1>2 DEF Inv, UsedWhenTaken, CarriesChallenge
<1>6. CASE challenges[c].state = "expired"
  <2>1. Goes(r, Idle)
    BY <1>6, IdleTyped, GoesOn DEF Take, Finish
  <2>2. \A x \in Requests \ {r} :
          CarriesSession(req[x])' /\ CarriesUsers(req[x])' /\ CarriesChallenge(req[x])'
    BY <1>4, <2>1, OthersSession, OthersUsers, OthersChallenge
  <2>3. Sound'
    BY <1>3, <2>1 DEF Goes
  <2> QED
    BY <1>3, <2>1, <2>2, <2>3, Ends
<1>7. CASE challenges[c].state # "expired"
  <2>1. req \in [Requests -> ReqType] /\ req[r] \in ReqType /\ Typed(req[r])
    BY DEF Inv, Sound, TypeOK
  <2>2. req' = [req EXCEPT ![r].pc = pc, ![r].challenge = c]
    BY <1>7 DEF Take
  <2> PICK q : q = next
    OBVIOUS
  <2>3. req' = [req EXCEPT ![r] = q]
    <3> HIDE DEF pc
    <3> QED
      BY <2>1, <2>2, Zenon
  <2>4. /\ q \in ReqType /\ q.pc = pc /\ q.challenge = c
        /\ q.by = req[r].by /\ q.unseen = req[r].unseen /\ q.user = req[r].user
    <3>1. pc \in PCs
      BY DEF PCs
    <3> HIDE DEF pc
    <3> QED
      BY <2>1, <3>1, Zenon DEF ReqType
  <2>5. pc = "addKey" => req[r].pc = "take"
    BY DEF At
  <2>6. "take" \in Credentials /\ "findKey" \notin WithUser /\ "addKey" \notin {"guard", "update", "create", "register"}
    BY DEF WithUser, Credentials
  <2>7. pc \in {"addKey", "findKey"}
    OBVIOUS
  <2> HIDE DEF next, pc
  <2>8. Typed(q)
    <3>1. CASE pc = "addKey"
      <4>1. q.user \in Users
        BY <2>1, <2>4, <2>5, <2>6, <3>1 DEF Typed, WithUser
      <4>2. q.by = None \/ q.unseen
        BY <2>1, <2>4, <2>5, <2>6, <3>1 DEF Typed
      <4> QED
        BY <2>4, <2>6, <3>1, <4>1, <4>2 DEF Typed
    <3>2. CASE pc = "findKey"
      <4>1. "findKey" \notin Credentials \union {"addKey", "guard", "update", "create", "register"}
        BY DEF Credentials
      <4> QED
        BY <2>4, <2>6, <3>2, <4>1 DEF Typed
    <3> QED
      BY <2>7, <3>1, <3>2
  <2>9. Goes(r, q)
    BY <2>3, <2>8, GoesOn
  <2>10. CarriesSession(q)' /\ CarriesUsers(q)' /\ CarriesChallenge(q)'
    BY <1>2, <1>3, <1>5, <1>7, <2>4, <2>7 DEF CarriesSession, CarriesUsers, CarriesChallenge
  <2>11. \A x \in Requests \ {r} :
          CarriesSession(req[x])' /\ CarriesUsers(req[x])' /\ CarriesChallenge(req[x])'
    BY <1>4, <2>9, OthersSession, OthersUsers, OthersChallenge
  <2>12. Sound'
    BY <1>3, <2>9 DEF Goes
  <2> QED
    BY <1>3, <1>5, <2>4, <2>8, <2>9, <2>10, <2>11, <2>12, Step
<1> QED
  BY <1>6, <1>7

\* The one that carries a challenge uses it.
LEMMA OpenSessionInv ==
    ASSUME Inv, NEW r \in Requests, OpenSession(r)
    PROVE  Inv'
<1>1. Goes(r, Idle)
  BY IdleTyped, GoesOn DEF OpenSession, Finish
<1>2. UNCHANGED <<users, challenges, keys, passwords>>
  BY DEF OpenSession
<1>3. PICK t \in Tokens :
        /\ sessions[t].state = "none"
        /\ IF {req[r].user, req[r].by} \ {None} \subseteq Live
           THEN /\ sessions' = [sessions EXCEPT ![t] =
                       [state |-> "live", user |-> req[r].user, by |-> req[r].by]]
                /\ uses' = [c \in Challenges |->
                               IF c = req[r].challenge THEN uses[c] + 1 ELSE uses[c]]
           ELSE UNCHANGED <<sessions, uses>>
  BY DEF OpenSession
<1>4. CASE ~({req[r].user, req[r].by} \ {None} \subseteq Live)
  BY <1>2, <1>3, <1>4, FinishInv DEF OpenSession, Finish
<1>5. CASE {req[r].user, req[r].by} \ {None} \subseteq Live
  <2> DEFINE s == [state |-> "live", user |-> req[r].user, by |-> req[r].by]
  <2>1. /\ req[r].user \in Users /\ req[r].by \in Users \union {None}
        /\ CarriesChallenge(req[r])
    BY DEF OpenSession, At, Inv, Typed, WithUser, ReqType
  <2>2. req[r].user \in Live /\ req[r].by \in Live \union {None}
    BY <1>5, <2>1, NoneAssumption
  <2>3. /\ sessions \in [Tokens -> SessionType] /\ uses \in [Challenges -> Nat]
        /\ NobodyOutlivesTheirUser /\ UsedWhenTaken
    BY DEF Inv, Sound, TypeOK, NobodyOutlivesTheirUser
  <2>4. s \in SessionType
    BY <2>1 DEF SessionType
  <2>5. sessions' = [sessions EXCEPT ![t] = s]
    BY <1>3, <1>5
  <2>6. uses' = [c \in Challenges |-> IF c = req[r].challenge THEN uses[c] + 1 ELSE uses[c]]
    BY <1>3, <1>5
  <2>7. s.user = req[r].user /\ s.by = req[r].by
    OBVIOUS
  <2> HIDE DEF s
  <2>8. \A x \in Tokens : sessions'[x] = IF x = t THEN s ELSE sessions[x]
    BY <2>3, <2>5
  <2>9. SessionsGoOn
    BY <1>3, <2>8 DEF SessionsGoOn
  <2>10. UsersGoOn /\ ChallengesGoOn(r)
    BY <1>2, <2>6 DEF UsersGoOn, ChallengesGoOn, Live
  <2>11. NobodyOutlivesTheirUser'
    <3>1. Live' = Live
      BY <1>2 DEF Live
    <3> HIDE DEF Live
    <3> QED
      BY <1>2, <2>2, <2>3, <2>7, <2>8, <3>1 DEF NobodyOutlivesTheirUser
  <2>12. Sound'
    <3>1. sessions' \in [Tokens -> SessionType] /\ uses' \in [Challenges -> Nat]
      BY <2>3, <2>4, <2>5, <2>6
    <3>2. req' \in [Requests -> ReqType]
      BY <1>1 DEF Goes
    <3> QED
      BY <1>2, <2>11, <3>1, <3>2, TypesOfTables DEF Inv, Sound, TypeOK
  <2>13. UsedWhenTaken'
    BY <1>2, <2>1, <2>3, <2>6 DEF UsedWhenTaken, CarriesChallenge
  <2>14. \A x \in Requests \ {r} :
          CarriesSession(req[x])' /\ CarriesUsers(req[x])' /\ CarriesChallenge(req[x])'
    BY <1>1, <2>9, <2>10, OthersSession, OthersUsers, OthersChallenge
  <2> QED
    BY <1>1, <2>12, <2>13, <2>14, Ends
<1> QED
  BY <1>4, <1>5

LEMMA AddKeyInv ==
    ASSUME Inv, NEW r \in Requests, AddKey(r)
    PROVE  Inv'
<1>1. Goes(r, Idle)
  BY IdleTyped, GoesOn DEF AddKey, Finish
<1>2. UNCHANGED <<users, sessions, challenges, passwords>>
  BY DEF AddKey
<1>3. PICK k \in Keys :
        IF req[r].user \in Live
        THEN /\ keys' = [keys EXCEPT ![k] = req[r].user]
             /\ uses' = [uses EXCEPT ![req[r].challenge] = @ + 1]
        ELSE UNCHANGED <<keys, uses>>
  BY DEF AddKey
<1>4. CASE req[r].user \notin Live
  BY <1>2, <1>3, <1>4, FinishInv DEF AddKey, Finish
<1>5. CASE req[r].user \in Live
  <2>1. req[r].challenge \in Challenges /\ CarriesChallenge(req[r])
    BY DEF AddKey, At, Inv, Typed
  <2>2. /\ keys \in [Keys -> Users \union {None}] /\ uses \in [Challenges -> Nat]
        /\ NobodyOutlivesTheirUser /\ UsedWhenTaken
    BY DEF Inv, Sound, TypeOK, NobodyOutlivesTheirUser
  <2>3. keys' = [keys EXCEPT ![k] = req[r].user] /\ uses' = [uses EXCEPT ![req[r].challenge] = @ + 1]
    BY <1>3, <1>5
  <2>4. keys' \in [Keys -> Users \union {None}] /\ uses' \in [Challenges -> Nat]
    BY <1>5, <2>1, <2>2, <2>3 DEF Live
  <2>5. SessionsGoOn /\ UsersGoOn /\ ChallengesGoOn(r)
    BY <1>2, <2>2, <2>3 DEF SessionsGoOn, UsersGoOn, ChallengesGoOn, Live
  <2>6. NobodyOutlivesTheirUser'
    BY <1>2, <1>5, <2>2, <2>3 DEF NobodyOutlivesTheirUser, Live
  <2>7. Sound'
    <3>1. req' \in [Requests -> ReqType]
      BY <1>1 DEF Goes
    <3> QED
      BY <1>2, <2>4, <2>6, <3>1, TypesOfTables DEF Inv, Sound, TypeOK
  <2>8. UsedWhenTaken'
    BY <1>2, <2>1, <2>2, <2>3 DEF UsedWhenTaken, CarriesChallenge
  <2>9. \A x \in Requests \ {r} :
          CarriesSession(req[x])' /\ CarriesUsers(req[x])' /\ CarriesChallenge(req[x])'
    BY <1>1, <2>5, OthersSession, OthersUsers, OthersChallenge
  <2> QED
    BY <1>1, <2>7, <2>8, <2>9, Ends
<1> QED
  BY <1>4, <1>5

LEMMA DeleteKeyInv ==
    ASSUME Inv, NEW r \in Requests, DeleteKey(r)
    PROVE  Inv'
<1>1. Goes(r, Idle)
  BY IdleTyped, GoesOn DEF DeleteKey, Finish
<1>2. UNCHANGED <<users, sessions, challenges, passwords, uses>>
  BY DEF DeleteKey
<1>3. PICK k \in Keys : keys' = [keys EXCEPT ![k] = None]
  BY DEF DeleteKey
<1>4. keys \in [Keys -> Users \union {None}] /\ NobodyOutlivesTheirUser
  BY DEF Inv, Sound, TypeOK, NobodyOutlivesTheirUser
<1>5. SessionsGoOn /\ UsersGoOn /\ ChallengesGoOn(r)
  BY <1>2 DEF SessionsGoOn, UsersGoOn, ChallengesGoOn, Live
<1>6. keys' \in [Keys -> Users \union {None}] /\ NobodyOutlivesTheirUser'
  BY <1>2, <1>3, <1>4 DEF NobodyOutlivesTheirUser, Live
<1>7. Sound' /\ UsedWhenTaken'
  <2>1. req' \in [Requests -> ReqType]
    BY <1>1 DEF Goes
  <2> QED
    BY <1>2, <1>6, <2>1, TypesOfTables DEF Inv, Sound, TypeOK, UsedWhenTaken
<1>8. \A x \in Requests \ {r} :
        CarriesSession(req[x])' /\ CarriesUsers(req[x])' /\ CarriesChallenge(req[x])'
  BY <1>1, <1>5, OthersSession, OthersUsers, OthersChallenge
<1> QED
  BY <1>1, <1>7, <1>8, Ends

\* What one handler writes into the row of a user, and whom it outdates by it.
LEMMA UserWritten ==
    ASSUME Inv, NEW r \in Requests, NEW q, Typed(q), q.challenge = None,
           q.pc \notin {"guard", "update"},
           NEW X, Outdate(r, q, X), NEW u \in Users, NEW row \in UserType,
           users' = [users EXCEPT ![u] = row], row.state = "live",
           users[u].state # "deleted", passwords' \in 0 .. MaxPasswords,
           users[u].state = "none" \/ (users[u].state = "live" /\ Updating(u) \subseteq X),
           UNCHANGED <<sessions, challenges, keys, uses>>
    PROVE  Inv'
<1>1. Goes(r, q)
  BY Outdated
<1>2. users \in [Users -> UserType] /\ req \in [Requests -> ReqType] /\ NobodyOutlivesTheirUser
  BY DEF Inv, Sound, TypeOK, NobodyOutlivesTheirUser
<1>3. /\ users' \in [Users -> UserType]
      /\ \A v \in Users : users'[v] = IF v = u THEN row ELSE users[v]
  BY <1>2
<1>4. Live' = Live \union {u}
  BY <1>3 DEF Live
<1>5. SessionsGoOn /\ ChallengesGoOn(r)
  BY DEF SessionsGoOn, ChallengesGoOn
<1>6. Sound' /\ UsedWhenTaken'
  <2>1. NobodyOutlivesTheirUser'
    <3> HIDE DEF Live
    <3> QED
      BY <1>2, <1>4 DEF NobodyOutlivesTheirUser
  <2>2. req' \in [Requests -> ReqType]
    BY <1>1 DEF Goes
  <2> QED
    BY <1>3, <2>1, <2>2, TypesOfTables DEF Inv, Sound, TypeOK, UsedWhenTaken
<1>7. ASSUME NEW x \in Requests \ {r}
      PROVE  CarriesUsers(req[x])'
  <2>1. /\ Typed(req[x]) /\ CarriesUsers(req[x]) /\ req[x] \in ReqType
        /\ req'[x].pc = req[x].pc /\ req'[x].user = req[x].user /\ req'[x].role = req[x].role
        /\ req'[x].seen = req[x].seen /\ (req[x].stale => req'[x].stale)
    BY <1>1, <1>2, OthersSame
  <2>2. x \in X => req'[x].stale
    <3>1. [req[x] EXCEPT !.stale = TRUE].stale
      BY <2>1 DEF ReqType
    <3> QED
      BY <3>1 DEF Outdate
  <2>3. CASE req[x].pc = "update"
    <3>1. req[x].user \in Users
      BY <2>1, <2>3 DEF Typed, WithUser
    <3>2. req[x].user = u => req'[x].stale
      BY <2>1, <2>2, <2>3 DEF CarriesUsers, Updating
    <3>3. req[x].user # u => (req[x].user \in Live' <=> req[x].user \in Live)
      BY <1>4
    <3> HIDE DEF Live
    <3> QED
      BY <1>3, <2>1, <2>3, <3>1, <3>2, <3>3 DEF CarriesUsers
  <2> QED
    BY <2>1, <2>3 DEF CarriesUsers
<1>8. \A x \in Requests \ {r} :
        CarriesSession(req[x])' /\ CarriesUsers(req[x])' /\ CarriesChallenge(req[x])'
  BY <1>1, <1>5, <1>7, OthersSession, OthersChallenge
<1>9. q.challenge \notin Challenges
  BY NoneAssumption
<1>10. CarriesSession(q)' /\ CarriesUsers(q)' /\ CarriesChallenge(q)'
  BY <1>9 DEF CarriesSession, CarriesUsers, CarriesChallenge
<1> QED
  BY <1>1, <1>6, <1>8, <1>9, <1>10, Step

LEMMA InsertUserInv ==
    ASSUME Inv, NEW r \in Requests, InsertUser(r)
    PROVE  Inv'
<1>1. UNCHANGED <<sessions, challenges, keys, passwords, uses>>
  BY DEF InsertUser
<1>2. CASE users[req[r].user].state # "none"
  BY <1>1, <1>2, FinishInv DEF InsertUser, Finish
<1>3. CASE users[req[r].user].state = "none"
  <2> DEFINE u == req[r].user
             row == [state |-> "live", role |-> req[r].role, pw |-> 0]
             opened == [Idle EXCEPT !.pc = "open", !.user = u]
             next == IF At(r, "register") THEN opened ELSE Idle
  <2>1. u \in Users /\ req[r].role \in {"user", "admin"}
    BY DEF InsertUser, At, Inv, Typed, WithUser
  <2>2. row \in UserType /\ row.state = "live"
    BY <2>1, BoundAssumption DEF UserType, States
  <2>3. users' = [users EXCEPT ![u] = row] /\ Outdate(r, next, {})
    <3>1. users' = [users EXCEPT ![u] = row] /\ req' = [req EXCEPT ![r] = next]
      BY <1>3 DEF InsertUser
    <3>2. req \in [Requests -> ReqType]
      BY DEF Inv, Sound, TypeOK
    <3> HIDE DEF next, u, row
    <3> QED
      BY <3>1, <3>2 DEF Outdate
  <2>4. Typed(opened) /\ opened.pc = "open" /\ opened.challenge = None
    <3>1. opened \in ReqType /\ opened.pc = "open" /\ opened.user = u /\ opened.challenge = None
      BY <2>1, IdleTyped, Zenon DEF Typed, ReqType, PCs, Idle
    <3>2. "open" \notin Credentials \union {"addKey", "findKey", "guard", "update"}
      BY DEF Credentials
    <3> HIDE DEF opened
    <3> QED
      BY <2>1, <3>1, <3>2 DEF Typed
  <2>5. Typed(next) /\ next.pc \notin {"guard", "update"} /\ next.challenge = None
    <3> HIDE DEF opened
    <3> QED
      BY <2>4, IdleTyped
  <2>6. passwords' \in 0 .. MaxPasswords
    BY <1>1 DEF Inv, Sound, TypeOK
  <2>7. users[u].state = "none" /\ users[u].state # "deleted"
    BY <1>3
  <2> HIDE DEF u, row, next
  <2> PICK v, w, q : v = u /\ w = row /\ q = next
    OBVIOUS
  <2> QED
    BY <1>1, <2>1, <2>2, <2>3, <2>5, <2>6, <2>7, UserWritten
<1> QED
  BY <1>2, <1>3

\* A choice of a password for a user who is gone.
LEMMA PasswordsCounted ==
    ASSUME Inv, NEW r \in Requests, req' = [req EXCEPT ![r] = Idle],
           passwords' \in 0 .. MaxPasswords,
           UNCHANGED <<users, sessions, challenges, keys, uses>>
    PROVE  Inv'
<1>1. Goes(r, Idle)
  BY IdleTyped, GoesOn
<1>2. SessionsGoOn /\ UsersGoOn /\ ChallengesGoOn(r)
  BY DEF SessionsGoOn, UsersGoOn, ChallengesGoOn, Live
<1>3. Sound' /\ UsedWhenTaken'
  BY <1>1 DEF Goes, Inv, Sound, TypeOK, NobodyOutlivesTheirUser, UsedWhenTaken, Live
<1>4. \A x \in Requests \ {r} :
        CarriesSession(req[x])' /\ CarriesUsers(req[x])' /\ CarriesChallenge(req[x])'
  BY <1>1, <1>2, OthersSession, OthersUsers, OthersChallenge
<1> QED
  BY <1>1, <1>3, <1>4, Ends

LEMMA ChangePasswordInv ==
    ASSUME Inv, NEW r \in Requests, ChangePassword(r)
    PROVE  Inv'
<1> DEFINE u == req[r].user
           row == [users[u] EXCEPT !.pw = passwords + 1]
<1>1. /\ UNCHANGED <<sessions, challenges, keys, uses>>
      /\ passwords < MaxPasswords /\ passwords' = passwords + 1
      /\ passwords \in 0 .. MaxPasswords
  BY DEF ChangePassword, Inv, Sound, TypeOK
<1>2. u \in Users
  BY DEF ChangePassword, At, Inv, Typed, WithUser, Credentials
<1>3. passwords' \in 0 .. MaxPasswords
  BY <1>1, BoundAssumption
<1>4. CASE u \in Live
  <2>1. users \in [Users -> UserType] /\ users[u].state = "live"
    BY <1>4 DEF Live, Inv, Sound, TypeOK
  <2>2. users' = [users EXCEPT ![u].pw = passwords + 1] /\ Outdate(r, Idle, Updating(u))
    BY <1>4 DEF ChangePassword
  <2>3. users' = [users EXCEPT ![u] = row]
    BY <1>2, <2>1, <2>2, Zenon
  <2>4. row \in UserType /\ row.state = "live"
    <3>1. passwords + 1 \in 0 .. MaxPasswords /\ users[u] \in UserType
      BY <1>1, <1>2, <1>3, <2>1
    <3> QED
      BY <2>1, <3>1, Zenon DEF UserType
  <2>5. Idle.pc \notin {"guard", "update"}
    BY IdleTyped
  <2> HIDE DEF u, row
  <2> PICK v, w : v = u /\ w = row
    OBVIOUS
  <2>6. Outdate(r, Idle, Updating(v)) /\ users[v].state # "deleted"
    BY <2>1, <2>2
  <2> QED
    BY <1>1, <1>2, <1>3, <2>1, <2>3, <2>4, <2>5, <2>6, IdleTyped, UserWritten
<1>5. CASE u \notin Live
  <2>1. req' = [req EXCEPT ![r] = Idle] /\ UNCHANGED users
    BY <1>5 DEF ChangePassword, Finish
  <2> QED
    BY <1>1, <1>3, <2>1, PasswordsCounted
<1> QED
  BY <1>4, <1>5

LEMMA UpdateUserInv ==
    ASSUME Inv, NEW r \in Requests, NEW pw \in {None, passwords + 1},
           NEW role \in {None, "user", "admin"}, UpdateUser(r, pw, role)
    PROVE  Inv'
<1> DEFINE u == req[r].user
           row == Merged(req[r].seen, pw, role)
<1>1. /\ UNCHANGED <<sessions, challenges, keys, uses>>
      /\ passwords \in 0 .. MaxPasswords /\ (pw # None => passwords < MaxPasswords)
      /\ passwords' = IF pw = None THEN passwords ELSE pw
  BY DEF UpdateUser, Inv, Sound, TypeOK
<1>2. /\ u \in Users /\ req[r].pc = "update"
      /\ req[r].seen \in UserType /\ req[r].seen.state = "live"
  BY DEF UpdateUser, At, Inv, Typed, WithUser, ReqType
<1>3. passwords' \in 0 .. MaxPasswords
  BY <1>1, BoundAssumption
<1>4. CASE u \in Live
  <2>1. users \in [Users -> UserType] /\ users[u].state = "live"
    BY <1>4 DEF Live, Inv, Sound, TypeOK
  <2>2. users' = [users EXCEPT ![u] = row] /\ Outdate(r, Idle, Updating(u))
    BY <1>4 DEF UpdateUser
  <2>3. row \in UserType /\ row.state = "live"
    <3>1. pw # None => pw \in 0 .. MaxPasswords
      BY <1>1, <1>3
    <3>2. role # None => role \in {"user", "admin"}
      OBVIOUS
    <3> QED
      BY <1>2, <3>1, <3>2, Zenon DEF Merged, UserType
  <2>4. Idle.pc \notin {"guard", "update"}
    BY IdleTyped
  <2> HIDE DEF u, row
  <2> PICK v, w : v = u /\ w = row
    OBVIOUS
  <2>5. Outdate(r, Idle, Updating(v)) /\ users[v].state # "deleted"
    BY <2>1, <2>2
  <2> QED
    BY <1>1, <1>2, <1>3, <2>1, <2>2, <2>3, <2>4, <2>5, IdleTyped, UserWritten
<1>5. CASE u \notin Live
  <2>1. req' = [req EXCEPT ![r] = Idle] /\ UNCHANGED users
    BY <1>5 DEF UpdateUser, Finish
  <2> QED
    BY <1>1, <1>3, <2>1, PasswordsCounted
<1> QED
  BY <1>4, <1>5

LEMMA DeleteUserInv ==
    ASSUME Inv, NEW t \in Tokens, NEW a \in Users, NEW u \in Users, DeleteUser(t, a, u)
    PROVE  Inv'
<1> DEFINE row == [NoUser EXCEPT !.state = "deleted"]
           gone == [NoSession EXCEPT !.state = "ended"]
<1>1. /\ UNCHANGED <<challenges, req, passwords, uses>>
      /\ users[u].state = "live"
      /\ \A s \in Tokens : sessions[s].by = u => sessions[s].user = u
      /\ users' = [users EXCEPT ![u] = row]
      /\ sessions' = [s \in Tokens |-> IF sessions[s].user = u THEN gone ELSE sessions[s]]
      /\ keys' = [k \in Keys |-> IF keys[k] = u THEN None ELSE keys[k]]
  BY DEF DeleteUser, Live
<1>2. /\ users \in [Users -> UserType] /\ sessions \in [Tokens -> SessionType]
      /\ keys \in [Keys -> Users \union {None}] /\ NobodyOutlivesTheirUser
  BY DEF Inv, Sound, TypeOK, NobodyOutlivesTheirUser
<1>3. row \in UserType /\ row.state = "deleted"
  BY BoundAssumption DEF NoUser, UserType, States
<1>4. gone \in SessionType /\ gone.state = "ended"
  BY DEF NoSession, SessionType
<1> HIDE DEF row, gone
<1>5. /\ users' \in [Users -> UserType]
      /\ \A v \in Users : users'[v] = IF v = u THEN row ELSE users[v]
  BY <1>1, <1>2, <1>3
<1>6. sessions' \in [Tokens -> SessionType] /\ keys' \in [Keys -> Users \union {None}]
  BY <1>1, <1>2, <1>4
<1>7. Live' = Live \ {u}
  BY <1>3, <1>5 DEF Live
<1>8. SessionsGoOn
  BY <1>1, <1>4 DEF SessionsGoOn
<1>9. UsersGoOn
  BY <1>3, <1>5, <1>7 DEF UsersGoOn, Live
<1>10. NobodyOutlivesTheirUser'
  <2> HIDE DEF Live
  <2>1. \A s \in Tokens : sessions'[s].state \in {"live", "expired"} =>
            sessions'[s].user \in Live' /\ sessions'[s].by \in Live' \union {None}
    BY <1>1, <1>2, <1>4, <1>7 DEF NobodyOutlivesTheirUser
  <2>2. \A k \in Keys : keys'[k] \in Live' \union {None}
    BY <1>1, <1>2, <1>7 DEF NobodyOutlivesTheirUser
  <2> QED
    BY <2>1, <2>2 DEF NobodyOutlivesTheirUser
<1>11. Sound'
  BY <1>1, <1>5, <1>6, <1>10, TypesOfTables DEF Inv, Sound, TypeOK
<1>12. UsedWhenTaken'
  BY <1>1 DEF Inv, UsedWhenTaken
<1> QED
  BY <1>1, <1>8, <1>9, <1>11, <1>12, Tables

LEMMA StutterInv == Inv /\ UNCHANGED vars => Inv'
<1> SUFFICES ASSUME Inv, UNCHANGED vars PROVE Inv'
  OBVIOUS
<1>1. SessionsGoOn /\ UsersGoOn
  BY DEF vars, SessionsGoOn, UsersGoOn, Live
<1>2. Sound' /\ UsedWhenTaken'
  BY DEF vars, Inv, Sound, TypeOK, NobodyOutlivesTheirUser, UsedWhenTaken, Live
<1> QED
  BY <1>1, <1>2, Tables DEF vars

\* Every step keeps the invariant: one step of the proof for each action.
LEMMA NextInv == Inv /\ [Next]_vars => Inv'
<1> SUFFICES ASSUME Inv, [Next]_vars PROVE Inv'
  OBVIOUS
<1>1. ASSUME NEW r \in Requests, Handling(r) PROVE Inv'
  <2>1. CASE \E u \in Users : Register(r, u) \/ Login(r, u)
    BY <2>1, RegisterInv, LoginInv
  <2>2. CASE \E t \in Tokens, a, u \in Users :
          \/ \E role \in {"user", "admin"} : CreateUser(r, t, a, u, role)
          \/ Impersonate(r, t, a, u) \/ BeginUpdate(r, t, a, u)
    BY <2>2, CreateUserInv, ImpersonateInv, BeginUpdateInv
  <2>3. CASE \E t \in Tokens, u \in Users : BeginGuarded(r, t, u)
    BY <2>3, BeginGuardedInv
  <2>4. CASE InsertUser(r) \/ OpenSession(r) \/ Guard(r) \/ RegisterOptions(r)
    BY <2>4, InsertUserInv, OpenSessionInv, GuardInv, RegisterOptionsInv
  <2>5. CASE \E c \in Challenges : Take(r, c)
    BY <2>5, TakeInv
  <2>6. CASE AddKey(r) \/ FindKey(r) \/ DeleteKey(r) \/ ChangePassword(r)
    BY <2>6, AddKeyInv, FindKeyInv, DeleteKeyInv, ChangePasswordInv
  <2>7. CASE \E pw \in {None, passwords + 1}, role \in {None, "user", "admin"} :
          UpdateUser(r, pw, role)
    BY <2>7, UpdateUserInv
  <2>8. CASE Abort(r)
    BY <2>8, FinishInv DEF Abort, Finish
  <2> QED
    BY <1>1, <2>1, <2>2, <2>3, <2>4, <2>5, <2>6, <2>7, <2>8 DEF Handling
<1>2. ASSUME NEW t \in Tokens, Logout(t) \/ ExpireSession(t) PROVE Inv'
  BY <1>2, LogoutInv, ExpireSessionInv
<1>3. CASE LoginOptions
  BY <1>3, LoginOptionsInv
<1>4. ASSUME NEW c \in Challenges, ExpireChallenge(c) PROVE Inv'
  BY <1>4, ExpireChallengeInv
<1>5. ASSUME NEW t \in Tokens, NEW a \in Users, NEW u \in Users, DeleteUser(t, a, u) PROVE Inv'
  BY <1>5, DeleteUserInv
<1>6. CASE Stop \/ UNCHANGED vars
  BY <1>6, StutterInv DEF Stop
<1> QED
  BY <1>1, <1>2, <1>3, <1>4, <1>5, <1>6 DEF Next

LEMMA Invariant == Spec => []Inv
BY InitInv, NextInv, PTL DEF Spec

---------------------------------------------------------------------------
(* The theorems.                                                            *)

\* Every table and handler keeps its type.
THEOREM TypeCorrect == Spec => []TypeOK
<1>1. Inv => TypeOK
  BY DEF Inv, Sound
<1> QED
  BY <1>1, Invariant, PTL

\* No session and no passkey outlives its user, no impersonation its admin,
\* whoever is deleted while a session is opened or a passkey registered.
THEOREM SessionsEndWithTheirUser == Spec => []NobodyOutlivesTheirUser
<1>1. Inv => NobodyOutlivesTheirUser
  BY DEF Inv, Sound
<1> QED
  BY <1>1, Invariant, PTL

\* A challenge is used at most once, by whatever requests it is presented, and not
\* at all once it has expired.
THEOREM ChallengesAreUsedOnce == Spec => []ChallengeOnce
<1>1. Inv => ChallengeOnce
  BY DEF Inv, UsedWhenTaken, ChallengeOnce
<1> QED
  BY <1>1, Invariant, PTL

\* Passwords change in two actions: to one just chosen, or to what the request
\* of an admin had read, which is another only if somebody wrote in between.
PasswordStep ==
    \A u \in Live \intersect Live' :
        users'[u].pw # users[u].pw =>
            \/ users'[u].pw \notin 0 .. passwords
            \/ \E r \in Updating(u) : req[r].stale

LEMMA UpdateUserStep ==
    ASSUME Inv, NEW r \in Requests, NEW pw \in {None, passwords + 1},
           NEW role \in {None, "user", "admin"}, UpdateUser(r, pw, role)
    PROVE  PasswordStep
<1> DEFINE v == req[r].user
<1>1. /\ passwords \in 0 .. MaxPasswords /\ users \in [Users -> UserType]
      /\ req[r].pc = "update" /\ req[r].seen \in UserType /\ CarriesUsers(req[r])
  BY DEF UpdateUser, At, Inv, Sound, TypeOK, ReqType
<1>2. users' = users \/ (v \in Live /\ users' = [users EXCEPT ![v] = Merged(req[r].seen, pw, role)])
  BY DEF UpdateUser
<1>3. Merged(req[r].seen, pw, role).pw = IF pw = None THEN req[r].seen.pw ELSE pw
  BY <1>1, Zenon DEF Merged, UserType
<1>4. passwords + 1 \notin 0 .. passwords
  BY <1>1, BoundAssumption
<1>5. v \in Live /\ ~req[r].stale => req[r].seen.pw = users[v].pw
  BY <1>1 DEF CarriesUsers
<1> SUFFICES ASSUME NEW u \in Live, users'[u].pw # users[u].pw
             PROVE  users'[u].pw \notin 0 .. passwords \/ \E x \in Updating(u) : req[x].stale
  BY DEF PasswordStep
<1>6. u = v /\ v \in Live /\ users'[u] = Merged(req[r].seen, pw, role)
  BY <1>1, <1>2 DEF Live
<1>7. r \in Updating(u)
  BY <1>1, <1>6 DEF Updating
<1> QED
  BY <1>3, <1>4, <1>5, <1>6, <1>7

LEMMA ChangePasswordStep ==
    ASSUME Inv, NEW r \in Requests, ChangePassword(r)
    PROVE  PasswordStep
<1>1. passwords \in 0 .. MaxPasswords /\ users \in [Users -> UserType]
  BY DEF Inv, Sound, TypeOK
<1>2. users' = users \/ users' = [users EXCEPT ![req[r].user].pw = passwords + 1]
  BY DEF ChangePassword
<1>3. passwords + 1 \notin 0 .. passwords
  BY <1>1, BoundAssumption
<1>4. \A u \in Users : users'[u] = users[u] \/ users'[u].pw = passwords + 1
  BY <1>1, <1>2 DEF UserType
<1> QED
  BY <1>3, <1>4 DEF PasswordStep, Live

\* An admin's update gives back an earlier password only over a change it did not
\* see; any other change of a password is to the one just chosen.
THEOREM PasswordsChange == Spec => PasswordsAreChosen
<1>1. ASSUME Inv, NEW r \in Requests, Handling(r) PROVE PasswordStep
  <2>1. CASE InsertUser(r)
    BY <1>1, <2>1 DEF InsertUser, PasswordStep, Live, Inv, Sound, TypeOK
  <2>2. CASE ChangePassword(r)
    BY <1>1, <2>2, ChangePasswordStep
  <2>3. CASE \E pw \in {None, passwords + 1}, role \in {None, "user", "admin"} :
          UpdateUser(r, pw, role)
    BY <1>1, <2>3, UpdateUserStep
  <2>4. CASE UNCHANGED users
    BY <2>4 DEF PasswordStep
  <2>5. \/ UNCHANGED users \/ InsertUser(r) \/ ChangePassword(r)
        \/ \E pw \in {None, passwords + 1}, role \in {None, "user", "admin"} :
              UpdateUser(r, pw, role)
    BY <1>1, Zenon
       DEF Handling, Register, Login, CreateUser, Impersonate, BeginUpdate, BeginGuarded,
           OpenSession, Guard, RegisterOptions, NewChallenge, Take, AddKey, FindKey, DeleteKey, Abort
  <2> QED
    BY <2>1, <2>2, <2>3, <2>4, <2>5
<1>2. ASSUME Inv, NEW t \in Tokens, NEW a \in Users, NEW u \in Users, DeleteUser(t, a, u)
      PROVE  PasswordStep
  BY <1>2 DEF DeleteUser, PasswordStep, Live, Inv, Sound, TypeOK, NoUser
<1>3. ASSUME Inv, [Next]_vars PROVE PasswordStep
  <2>1. CASE UNCHANGED users
    BY <2>1 DEF PasswordStep
  <2>2. \/ UNCHANGED users \/ (\E r \in Requests : Handling(r))
        \/ \E t \in Tokens, a, u \in Users : DeleteUser(t, a, u)
    BY <1>3, Zenon
       DEF Next, Logout, ExpireSession, LoginOptions, NewChallenge, ExpireChallenge, Stop, vars
  <2> QED
    BY <1>1, <1>2, <1>3, <2>1, <2>2
<1>4. Inv /\ [Next]_vars =>
        [\A u \in Live \intersect Live' :
            users'[u].pw # users[u].pw =>
                \/ users'[u].pw \notin 0 .. passwords
                \/ \E r \in Updating(u) : req[r].stale]_vars
  BY <1>3 DEF PasswordStep
<1> QED
  BY <1>4, Invariant, PTL DEF Spec, PasswordsAreChosen

\* Passkeys change in AddKey and DeleteKey, passwords in ChangePassword and
\* UpdateUser; every one of them acts for the user it carries.
CredentialStep ==
    \A u \in Live \intersect Live' :
        /\ KeysOf(u)' # KeysOf(u) =>
               \E r \in Requests : Acts(r, u) /\ (req[r].by = None \/ req[r].unseen)
        /\ users'[u].pw # users[u].pw =>
               \E r \in Requests :
                   Acts(r, u) /\ (req[r].by = None \/ req[r].unseen \/ At(r, "update"))

\* The handlers behind NotImpersonated end in the step that changes a credential,
\* and have a session that was let through.
LEMMA OwnStep ==
    ASSUME Inv, NEW r \in Requests, At(r, "addKey") \/ At(r, "deleteKey") \/ At(r, "changePassword"),
           req'[r] = Idle
    PROVE  /\ req[r].user \in Users
           /\ Acts(r, req[r].user) /\ (req[r].by = None \/ req[r].unseen)
<1>1. Typed(req[r]) /\ req[r].pc # "idle"
  BY DEF Inv, At
<1>2. req[r].pc \in Credentials \union {"addKey"} /\ req[r].pc \in WithUser
  BY DEF At, Credentials, WithUser
<1>3. Idle.pc = "idle"
  BY IdleTyped
<1> QED
  BY <1>1, <1>2, <1>3 DEF Typed, Acts

LEMMA KeyStep ==
    ASSUME Inv, NEW r \in Requests, AddKey(r) \/ DeleteKey(r)
    PROVE  CredentialStep
<1>1. /\ req \in [Requests -> ReqType] /\ req' = [req EXCEPT ![r] = Idle]
      /\ At(r, "addKey") \/ At(r, "deleteKey")
      /\ users' = users /\ keys \in [Keys -> Users \union {None}]
  BY DEF AddKey, DeleteKey, Finish, Inv, Sound, TypeOK
<1>2. req'[r] = Idle
  BY <1>1
<1>3. /\ req[r].user \in Users
      /\ Acts(r, req[r].user) /\ (req[r].by = None \/ req[r].unseen)
  BY <1>1, <1>2, OwnStep
<1>4. ASSUME NEW u \in Users, u # req[r].user PROVE KeysOf(u)' = KeysOf(u)
  <2>1. \A k \in Keys : keys'[k] = keys[k] \/ {keys'[k], keys[k]} \subseteq {None, req[r].user}
    BY <1>1 DEF AddKey, DeleteKey
  <2>2. u # None
    BY NoneAssumption
  <2>3. \A k \in Keys : keys'[k] = u <=> keys[k] = u
    BY <1>4, <2>1, <2>2
  <2> QED
    BY <2>3 DEF KeysOf
<1> QED
  BY <1>1, <1>3, <1>4 DEF CredentialStep, Live

LEMMA OwnPasswordStep ==
    ASSUME Inv, NEW r \in Requests, ChangePassword(r)
    PROVE  CredentialStep
<1>1. /\ req \in [Requests -> ReqType] /\ users \in [Users -> UserType]
      /\ At(r, "changePassword") /\ keys' = keys
  BY DEF ChangePassword, Inv, Sound, TypeOK
<1>2. req'[r] = Idle
  BY <1>1 DEF ChangePassword, Outdate, Finish
<1>3. Acts(r, req[r].user) /\ (req[r].by = None \/ req[r].unseen)
  BY <1>1, <1>2, OwnStep
<1>4. \A u \in Users : u # req[r].user => users'[u] = users[u]
  BY <1>1 DEF ChangePassword
<1>5. \A u : KeysOf(u)' = KeysOf(u)
  BY <1>1 DEF KeysOf
<1> QED
  BY <1>3, <1>4, <1>5 DEF CredentialStep, Live

LEMMA AdminPasswordStep ==
    ASSUME Inv, NEW r \in Requests, NEW pw, NEW role, UpdateUser(r, pw, role)
    PROVE  CredentialStep
<1>1. /\ req \in [Requests -> ReqType] /\ users \in [Users -> UserType]
      /\ At(r, "update") /\ keys' = keys
  BY DEF UpdateUser, Inv, Sound, TypeOK
<1>2. req'[r] = Idle
  BY <1>1 DEF UpdateUser, Outdate, Finish
<1>3. Acts(r, req[r].user)
  BY <1>1, <1>2, IdleTyped DEF Acts, At
<1>4. \A u \in Users : u # req[r].user => users'[u] = users[u]
  BY <1>1 DEF UpdateUser
<1>5. \A u : KeysOf(u)' = KeysOf(u)
  BY <1>1 DEF KeysOf
<1> QED
  BY <1>1, <1>3, <1>4, <1>5 DEF CredentialStep, Live

\* A password or a passkey of a user who stays is changed by a handler of that user
\* whose session NotImpersonated had let through, or by an admin's update_user,
\* whatever requests and deletions of users run at the same time.
THEOREM CredentialsStayTheUsers == Spec => CredentialsByTheirUser
<1>1. ASSUME Inv, NEW r \in Requests, Handling(r) PROVE CredentialStep
  <2>1. CASE AddKey(r) \/ DeleteKey(r)
    BY <1>1, <2>1, KeyStep
  <2>2. CASE ChangePassword(r)
    BY <1>1, <2>2, OwnPasswordStep
  <2>3. CASE \E pw \in {None, passwords + 1}, role \in {None, "user", "admin"} :
          UpdateUser(r, pw, role)
    BY <1>1, <2>3, AdminPasswordStep
  <2>4. CASE InsertUser(r)
    <3>1. users \in [Users -> UserType] /\ keys' = keys
      BY <1>1, <2>4 DEF InsertUser, Inv, Sound, TypeOK
    <3>2. \A u \in Live : users'[u] = users[u]
      BY <2>4, <3>1 DEF InsertUser, Live
    <3>3. \A u : KeysOf(u)' = KeysOf(u)
      BY <3>1 DEF KeysOf
    <3> QED
      BY <3>2, <3>3 DEF CredentialStep
  <2>5. CASE UNCHANGED <<users, keys>>
    BY <2>5 DEF CredentialStep, KeysOf
  <2>6. \/ UNCHANGED <<users, keys>>
        \/ AddKey(r) \/ DeleteKey(r) \/ ChangePassword(r) \/ InsertUser(r)
        \/ \E pw \in {None, passwords + 1}, role \in {None, "user", "admin"} :
              UpdateUser(r, pw, role)
    BY <1>1, Zenon
       DEF Handling, Register, Login, CreateUser, Impersonate, BeginUpdate, BeginGuarded,
           OpenSession, Guard, RegisterOptions, NewChallenge, Take, FindKey, Abort
  <2> QED
    BY <2>1, <2>2, <2>3, <2>4, <2>5, <2>6
<1>2. ASSUME Inv, NEW t \in Tokens, NEW a \in Users, NEW v \in Users, DeleteUser(t, a, v)
      PROVE  CredentialStep
  <2>1. /\ users' = [users EXCEPT ![v] = [NoUser EXCEPT !.state = "deleted"]]
        /\ keys' = [k \in Keys |-> IF keys[k] = v THEN None ELSE keys[k]]
        /\ users \in [Users -> UserType]
    BY <1>2 DEF DeleteUser, Inv, Sound, TypeOK
  <2>2. v \notin Live' /\ \A u \in Users : u # v => users'[u] = users[u]
    BY <2>1 DEF Live, NoUser
  <2>3. ASSUME NEW u \in Users, u # v PROVE KeysOf(u)' = KeysOf(u)
    BY <2>1, <2>3, NoneAssumption DEF KeysOf
  <2> QED
    BY <2>2, <2>3 DEF CredentialStep, Live
<1>3. ASSUME Inv, [Next]_vars PROVE CredentialStep
  <2>1. CASE UNCHANGED <<users, keys>>
    BY <2>1 DEF CredentialStep, KeysOf
  <2>2. \/ UNCHANGED <<users, keys>> \/ (\E r \in Requests : Handling(r))
        \/ \E t \in Tokens, a, u \in Users : DeleteUser(t, a, u)
    BY <1>3, Zenon
       DEF Next, Logout, ExpireSession, LoginOptions, NewChallenge, ExpireChallenge, Stop, vars
  <2> QED
    BY <1>1, <1>2, <1>3, <2>1, <2>2
<1>4. Inv /\ [Next]_vars => [CredentialStep]_vars
  BY <1>3
<1> QED
  BY <1>4, Invariant, PTL DEF Spec, CredentialsByTheirUser, CredentialStep
=============================================================================
