------------------------------ MODULE Accounts ------------------------------
(***************************************************************************)
(* Accounts: users, their sessions and passkeys, the challenges passkeys   *)
(* answer, and admins who change, delete and impersonate users.            *)
(*                                                                         *)
(* A request authenticates, checks and writes in statements of its own.  A *)
(* user is named by its address, used once, a password by the number of    *)
(* the choice that set it.  Time is the two actions that let a session or a challenge *)
(* expire.                                                                 *)
(***************************************************************************)
EXTENDS Naturals

CONSTANTS
    Users, Tokens, Challenges, Keys, Requests, None,
    EnableRegistration, \* config.enable_registration
    MaxPasswords        \* bound: passwords chosen after the first of each user

ASSUME NoneAssumption == None \notin Users \union Tokens \union Challenges \union Keys
ASSUME BoundAssumption == MaxPasswords \in Nat /\ EnableRegistration \in BOOLEAN

VARIABLES
    users, sessions, challenges, keys,  \* the tables
    req,        \* handlers in flight
    passwords,  \* history: passwords chosen
    uses        \* history: what came of each challenge

vars == <<users, sessions, challenges, keys, req, passwords, uses>>

NoUser == [state |-> "none", role |-> "user", pw |-> 0]
NoSession == [state |-> "none", user |-> None, by |-> None]
NoChallenge == [state |-> "none", user |-> None]
Idle == [pc |-> "idle", user |-> None, token |-> None, seen |-> NoUser, role |-> None,
         challenge |-> None, by |-> None, stale |-> FALSE, unseen |-> FALSE]

Init ==
    /\ users = [u \in Users |-> NoUser]
    /\ sessions = [t \in Tokens |-> NoSession]
    /\ challenges = [c \in Challenges |-> NoChallenge]
    /\ keys = [k \in Keys |-> None]
    /\ req = [r \in Requests |-> Idle]
    /\ passwords = 0
    /\ uses = [c \in Challenges |-> 0]

Live == {u \in Users : users[u].state = "live"}
At(r, pc) == req[r].pc = pc
Start(r, q) == At(r, "idle") /\ req' = [req EXCEPT ![r] = q]
Goto(r, pc) == req' = [req EXCEPT ![r].pc = pc]
Finish(r) == req' = [req EXCEPT ![r] = Idle]
\* Handler r goes on as q; what the others in X have read is stale.
Outdate(r, q, X) ==
    req' = [x \in Requests |->
               IF x = r THEN q ELSE IF x \in X THEN [req[x] EXCEPT !.stale = TRUE] ELSE req[x]]
Updating(u) == {r \in Requests : req[r].pc = "update" /\ req[r].user = u}

\* AuthUser and AdminUser: the session of the bearer token and its user.
Authenticated(t, u) == sessions[t].state = "live" /\ sessions[t].user = u
Admin(t, a) == Authenticated(t, a) /\ users[a].role = "admin"

---------------------------------------------------------------------------
(* Registration, and users an admin adds.                                   *)

\* register counts the users and looks the address up ...
Register(r, u) ==
    /\ Live = {} \/ EnableRegistration
    /\ users[u].state = "none"
    /\ Start(r, [Idle EXCEPT !.pc = "register", !.user = u,
                             !.role = IF Live = {} THEN "admin" ELSE "user"])
    /\ UNCHANGED <<users, sessions, challenges, keys, passwords, uses>>

CreateUser(r, t, a, u, role) ==
    /\ Admin(t, a) /\ users[u].state = "none"
    /\ Start(r, [Idle EXCEPT !.pc = "create", !.user = u, !.role = role])
    /\ UNCHANGED <<users, sessions, challenges, keys, passwords, uses>>

\* ... and inserts the user later, if nobody took the address meanwhile.  Only a
\* registration goes on to a session.
InsertUser(r) ==
    /\ At(r, "register") \/ At(r, "create")
    /\ LET u == req[r].user
           row == [state |-> "live", role |-> req[r].role, pw |-> 0] IN
       IF users[u].state = "none"
       THEN /\ users' = [users EXCEPT ![u] = row]
            /\ req' = [req EXCEPT ![r] = IF At(r, "register") THEN [Idle EXCEPT !.pc = "open", !.user = u]
                                         ELSE Idle]
       ELSE Finish(r) /\ UNCHANGED users
    /\ UNCHANGED <<sessions, challenges, keys, passwords, uses>>

---------------------------------------------------------------------------
(* Sessions.                                                                *)

\* login: the password was verified against the row read; lastLoginAt is left out.
Login(r, u) ==
    /\ u \in Live
    /\ Start(r, [Idle EXCEPT !.pc = "open", !.user = u])
    /\ UNCHANGED <<users, sessions, challenges, keys, passwords, uses>>

\* impersonate_user reads the other user, then opens a session by the admin.
Impersonate(r, t, a, u) ==
    /\ Admin(t, a) /\ u \in Live \ {a}
    /\ Start(r, [Idle EXCEPT !.pc = "impersonate", !.user = u, !.by = a])
    /\ UNCHANGED <<users, sessions, challenges, keys, passwords, uses>>

OpenSessionUnchecked(r) ==
    /\ At(r, "open") \/ At(r, "impersonate")
    /\ \E t \in Tokens :
          /\ sessions[t].state = "none"
          /\ sessions' = [sessions EXCEPT ![t] =
                 [state |-> "live", user |-> req[r].user, by |-> req[r].by]]
    /\ uses' = [c \in Challenges |-> IF c = req[r].challenge THEN uses[c] + 1 ELSE uses[c]]
    /\ Finish(r)
    /\ UNCHANGED <<users, challenges, keys, passwords>>
\* create_session and create_impersonation_session: the foreign keys refuse a
\* session of a user who is gone, or by one.
OpenSession(r) ==
    /\ At(r, "open") \/ At(r, "impersonate")
    /\ \E t \in Tokens :
          /\ sessions[t].state = "none"
          /\ IF {req[r].user, req[r].by} \ {None} \subseteq Live
             THEN /\ sessions' = [sessions EXCEPT ![t] =
                         [state |-> "live", user |-> req[r].user, by |-> req[r].by]]
                  /\ uses' = [c \in Challenges |->
                                 IF c = req[r].challenge THEN uses[c] + 1 ELSE uses[c]]
             ELSE UNCHANGED <<sessions, uses>>
    /\ Finish(r)
    /\ UNCHANGED <<users, challenges, keys, passwords>>

EndSession(t) == sessions' = [sessions EXCEPT ![t] = [NoSession EXCEPT !.state = "ended"]]
Logout(t) ==
    /\ sessions[t].state \in {"live", "expired"}
    /\ EndSession(t)
    /\ UNCHANGED <<users, challenges, keys, req, passwords, uses>>

\* Nothing removes the row of an expired session; only an impersonation's has any
\* effect from then on.
ExpireSession(t) ==
    /\ sessions[t].state = "live"
    /\ sessions' = [sessions EXCEPT ![t] = IF @.by = None THEN [NoSession EXCEPT !.state = "ended"]
                                           ELSE [@ EXCEPT !.state = "expired"]]
    /\ UNCHANGED <<users, challenges, keys, req, passwords, uses>>

---------------------------------------------------------------------------
(* Passkeys and passwords: the routes NotImpersonated guards.               *)

Credentials == {"options", "take", "deleteKey", "changePassword"}

BeginGuarded(r, t, u) ==
    /\ Authenticated(t, u)
    /\ Start(r, [Idle EXCEPT !.pc = "guard", !.user = u, !.token = t, !.by = sessions[t].by])
    /\ UNCHANGED <<users, sessions, challenges, keys, passwords, uses>>

GuardOpen(r) ==
    /\ At(r, "guard")
    /\ \E op \in Credentials : req' = [req EXCEPT ![r].pc = op, ![r].token = None]
    /\ UNCHANGED <<users, sessions, challenges, keys, passwords, uses>>
\* NotImpersonated looks the session up again: one that has ended since is let pass
\* (unseen, if an admin had opened it).
Guard(r) ==
    /\ At(r, "guard")
    /\ LET s == sessions[req[r].token] IN
       IF s.by # None THEN Finish(r)
       ELSE \E op \in Credentials :
               req' = [req EXCEPT ![r].pc = op, ![r].token = None,
                                  ![r].unseen = s.state = "ended" /\ req[r].by # None]
    /\ UNCHANGED <<users, sessions, challenges, keys, passwords, uses>>

NewChallenge(u) ==
    \E c \in Challenges :
        /\ challenges[c].state = "none"
        /\ challenges' = [challenges EXCEPT ![c] = [state |-> "open", user |-> u]]
        /\ UNCHANGED <<users, sessions, keys, passwords, uses>>
\* The challenge of a registration is its user's, that of a login nobody's.
RegisterOptions(r) == At(r, "options") /\ NewChallenge(req[r].user) /\ Finish(r)
LoginOptions == NewChallenge(None) /\ UNCHANGED req

ExpireChallenge(c) ==
    /\ challenges[c].state = "open"
    /\ challenges' = [challenges EXCEPT ![c].state = "expired"]
    /\ UNCHANGED <<users, sessions, keys, req, passwords, uses>>

TakeKept(r, c) ==
    /\ At(r, "take") \/ At(r, "idle")
    /\ challenges[c].state = "open" /\ challenges[c].user = req[r].user
    /\ req' = [req EXCEPT ![r].pc = IF At(r, "take") THEN "addKey" ELSE "findKey", ![r].challenge = c]
    /\ UNCHANGED <<users, sessions, challenges, keys, passwords, uses>>
\* take_challenge: DELETE ... WHERE id = ? AND userId IS ? RETURNING; an expired
\* one is deleted too, and rejected (lapsed).
Take(r, c) ==
    /\ At(r, "take") \/ At(r, "idle")
    /\ challenges[c].state \in {"open", "expired"} /\ challenges[c].user = req[r].user
    /\ challenges' = [challenges EXCEPT ![c] = [NoChallenge EXCEPT
                         !.state = IF challenges[c].state = "open" THEN "taken" ELSE "lapsed"]]
    /\ IF challenges[c].state = "expired" THEN Finish(r)
       ELSE req' = [req EXCEPT ![r].pc = IF At(r, "take") THEN "addKey" ELSE "findKey",
                               ![r].challenge = c]
    /\ UNCHANGED <<users, sessions, keys, passwords, uses>>

AddKey(r) ==
    /\ At(r, "addKey")
    /\ \E k \in Keys :
          /\ keys[k] = None
          /\ IF req[r].user \in Live
             THEN /\ keys' = [keys EXCEPT ![k] = req[r].user]
                  /\ uses' = [uses EXCEPT ![req[r].challenge] = @ + 1]
             ELSE UNCHANGED <<keys, uses>>
    /\ Finish(r)
    /\ UNCHANGED <<users, sessions, challenges, passwords>>

\* login_verify reads the key the answer names; the update of its counter has no
\* effect here.
FindKey(r) ==
    /\ At(r, "findKey")
    /\ \E k \in Keys :
          /\ keys[k] # None
          /\ req' = [req EXCEPT ![r].pc = "open", ![r].user = keys[k]]
    /\ UNCHANGED <<users, sessions, challenges, keys, passwords, uses>>

DeleteKey(r) ==
    /\ At(r, "deleteKey")
    /\ \E k \in Keys : keys[k] = req[r].user /\ keys' = [keys EXCEPT ![k] = None]
    /\ Finish(r)
    /\ UNCHANGED <<users, sessions, challenges, passwords, uses>>

\* The current password was checked against the row AuthUser had read.
ChangePassword(r) ==
    /\ At(r, "changePassword") /\ passwords < MaxPasswords
    /\ passwords' = passwords + 1
    /\ LET u == req[r].user IN
       IF u \in Live
       THEN /\ users' = [users EXCEPT ![u].pw = passwords + 1]
            /\ Outdate(r, Idle, Updating(u))
       ELSE Finish(r) /\ UNCHANGED users
    /\ UNCHANGED <<sessions, challenges, keys, uses>>

---------------------------------------------------------------------------
(* Admins change and delete users.                                          *)

BeginUpdate(r, t, a, u) ==
    /\ Admin(t, a) /\ u \in Live
    /\ Start(r, [Idle EXCEPT !.pc = "update", !.user = u, !.seen = users[u], !.by = sessions[t].by])
    /\ UNCHANGED <<users, sessions, challenges, keys, passwords, uses>>

MergedDefault(seen, pw, role) ==
    [seen EXCEPT !.pw = IF pw = None THEN 0 ELSE pw, !.role = IF role = None THEN @ ELSE role]
\* What the request does not name is written as it was read.
Merged(seen, pw, role) ==
    [seen EXCEPT !.pw = IF pw = None THEN @ ELSE pw, !.role = IF role = None THEN @ ELSE role]

UpdateUser(r, pw, role) ==
    /\ At(r, "update")
    /\ pw # None => passwords < MaxPasswords
    /\ passwords' = IF pw = None THEN passwords ELSE pw
    /\ LET u == req[r].user IN
       IF u \in Live
       THEN /\ users' = [users EXCEPT ![u] = Merged(req[r].seen, pw, role)]
            /\ Outdate(r, Idle, Updating(u))
       ELSE Finish(r) /\ UNCHANGED users
    /\ UNCHANGED <<sessions, challenges, keys, uses>>

\* The sessions and passkeys of the user go too; a session the user impersonates
\* another by, expired or not, refuses the delete.
DeleteUser(t, a, u) ==
    /\ Admin(t, a) /\ u \in Live
    /\ \A s \in Tokens : sessions[s].by = u => sessions[s].user = u
    /\ users' = [users EXCEPT ![u] = [NoUser EXCEPT !.state = "deleted"]]
    /\ sessions' = [s \in Tokens |-> IF sessions[s].user = u THEN [NoSession EXCEPT !.state = "ended"]
                                     ELSE sessions[s]]
    /\ keys' = [k \in Keys |-> IF keys[k] = u THEN None ELSE keys[k]]
    /\ UNCHANGED <<challenges, req, passwords, uses>>
---------------------------------------------------------------------------
\* A refusal, a failing statement or a dropped connection.
Abort(r) ==
    /\ ~At(r, "idle")
    /\ Finish(r)
    /\ UNCHANGED <<users, sessions, challenges, keys, passwords, uses>>

Handling(r) ==
    \/ \E u \in Users : Register(r, u) \/ Login(r, u)
    \/ \E t \in Tokens, a, u \in Users :
          \/ \E role \in {"user", "admin"} : CreateUser(r, t, a, u, role)
          \/ Impersonate(r, t, a, u) \/ BeginUpdate(r, t, a, u)
    \/ \E t \in Tokens, u \in Users : BeginGuarded(r, t, u)
    \/ InsertUser(r) \/ OpenSession(r) \/ Guard(r) \/ RegisterOptions(r)
    \/ \E c \in Challenges : Take(r, c)
    \/ AddKey(r) \/ FindKey(r) \/ DeleteKey(r) \/ ChangePassword(r)
    \/ \E pw \in {None, passwords + 1}, role \in {None, "user", "admin"} : UpdateUser(r, pw, role)
    \/ Abort(r)

\* Where the bounded history ends: no token or no address is left.
Exhausted ==
    \/ \A t \in Tokens : sessions[t].state # "none"
    \/ \A u \in Users : users[u].state = "deleted"
Stop == Exhausted /\ UNCHANGED vars

Next ==
    \/ \E r \in Requests : Handling(r)
    \/ \E t \in Tokens : Logout(t) \/ ExpireSession(t)
    \/ LoginOptions
    \/ \E c \in Challenges : ExpireChallenge(c)
    \/ \E t \in Tokens, a, u \in Users : DeleteUser(t, a, u)
    \/ Stop

Spec == Init /\ [][Next]_vars

---------------------------------------------------------------------------
(* Properties.                                                              *)

States == {"none", "live", "deleted"}
UserType == [state : States, role : {"user", "admin"}, pw : 0 .. MaxPasswords]
SessionType == [state : {"none", "live", "expired", "ended"}, user : Users \union {None},
                by : Users \union {None}]
ChallengeType == [state : {"none", "open", "expired", "taken", "lapsed"}, user : Users \union {None}]
PCs == {"idle", "register", "create", "open", "impersonate", "guard", "addKey", "findKey", "update"}
       \union Credentials
ReqType == [pc : PCs, user : Users \union {None}, token : Tokens \union {None}, seen : UserType,
            role : {"user", "admin", None}, challenge : Challenges \union {None},
            by : Users \union {None}, stale : BOOLEAN, unseen : BOOLEAN]

\* The tables and handlers have their types.
TypeOK ==
    /\ users \in [Users -> UserType]
    /\ sessions \in [Tokens -> SessionType]
    /\ challenges \in [Challenges -> ChallengeType]
    /\ keys \in [Keys -> Users \union {None}]
    /\ req \in [Requests -> ReqType]
    /\ passwords \in 0 .. MaxPasswords
    /\ uses \in [Challenges -> Nat]

\* No session and no passkey outlives its user, no impersonation its admin: not even
\* one whose user or admin is deleted between the statement that read them and the
\* one that opens the session or stores the passkey.
NobodyOutlivesTheirUser ==
    /\ \A t \in Tokens : sessions[t].state \in {"live", "expired"} =>
          /\ sessions[t].user \in Live
          /\ sessions[t].by \in Live \union {None}
    /\ \A k \in Keys : keys[k] \in Live \union {None}

\* A challenge opens at most one session or registers at most one passkey,
\* however many requests present it at the same time, and one that had expired
\* when it was presented does neither.
ChallengeOnce ==
    \A c \in Challenges :
        /\ uses[c] <= 1
        /\ challenges[c].state \in {"expired", "lapsed"} => uses[c] = 0

\* A user's password changes to one just chosen, or back to an earlier one by an
\* admin's update that had read the user before another change.
PasswordsAreChosen ==
    [][\A u \in Live \intersect Live' :
          users'[u].pw # users[u].pw =>
              \/ users'[u].pw \notin 0 .. passwords
              \/ \E r \in Updating(u) : req[r].stale]_vars

KeysOf(u) == {k \in Keys : keys[k] = u}
\* The step is one of request r on user u.
Acts(r, u) == req[r].user = u /\ req'[r].pc # req[r].pc
\* What lets a user log in, password or passkeys, changes only by a request of that
\* user in a session no admin has opened for them, or by an admin who sets the
\* password through update_user.  The session of an impersonated user is let
\* through only if it ended between its two lookups (unseen); update_user does not
\* ask whether the admin is one who is impersonated.
CredentialsByTheirUser ==
    [][\A u \in Live \intersect Live' :
          /\ KeysOf(u)' # KeysOf(u) =>
                 \E r \in Requests : Acts(r, u) /\ (req[r].by = None \/ req[r].unseen)
          /\ users'[u].pw # users[u].pw =>
                 \E r \in Requests :
                     Acts(r, u) /\ (req[r].by = None \/ req[r].unseen \/ At(r, "update"))]_vars
=============================================================================
