---------------------------- MODULE OAuthGrants ----------------------------
(***************************************************************************)
(* The OAuth authorization server in front of /mcp: client registration,   *)
(* consent, the token endpoint (code exchange and refresh), revocation,    *)
(* and the personal tokens that share the apiTokens table.                 *)
(*                                                                         *)
(* Every SQL statement outside a transaction commits by itself, so each    *)
(* statement is an action and a request moves from one to the next through *)
(* its pc; other requests run in between.  A read that only decides what   *)
(* the same handler does next, on columns nothing rewrites, is part of the *)
(* statement before which it is evaluated.  A request that is refused      *)
(* without writing anything is no step at all.                             *)
(***************************************************************************)
EXTENDS Integers, FiniteSets

CONSTANTS
    Clients, Users, Scopes,   \* registrations, accounts, consent scopes
    Codes, Tokens,            \* ids of rows ever inserted (bounds the history)
    Requests,                 \* handlers in flight at one time
    None,                     \* SQL NULL
    CodeTTL, ClientRetention, RefreshTTL,
    MaxActive,                \* MAX_ACTIVE_TOKENS_PER_USER
    MaxGen, MaxNow            \* bounds: rotations of a grant, clock

ASSUME NoneAssumption == None \notin Clients \union Users \union Scopes \union Codes \union Tokens
ASSUME TimeAssumption == {CodeTTL, ClientRetention, RefreshTTL} \subseteq Nat \ {0}
ASSUME BoundAssumption == {MaxActive, MaxGen, MaxNow} \subseteq Nat

VARIABLES
    now,       \* the clock every expiry is compared with
    clients,   \* oauthClients
    codes,     \* oauthAuthorizationCodes; a deleted row keeps its history here
    tokens,    \* apiTokens
    held,      \* refresh secrets [token, gen] some response has delivered
    req        \* the handlers in flight

vars == <<now, clients, codes, tokens, held, req>>

NoClient == [row |-> "none", created |-> 0]
NoCode == [row |-> "none", client |-> None, user |-> None, scope |-> None,
           expires |-> 0, used |-> FALSE, issued |-> None, replay |-> "none"]
NoToken == [kind |-> "none", user |-> None, client |-> None, scope |-> None,
            code |-> None, revoked |-> FALSE, refresh |-> 0, previous |-> -1,
            refreshExpires |-> 0, replayed |-> FALSE]
Idle == [pc |-> "idle", user |-> None, client |-> None, scope |-> None,
         code |-> None, token |-> None, gen |-> 0]

Init ==
    /\ now = 0
    /\ clients = [cl \in Clients |-> NoClient]
    /\ codes = [c \in Codes |-> NoCode]
    /\ tokens = [t \in Tokens |-> NoToken]
    /\ held = {}
    /\ req = [r \in Requests |-> Idle]

Live(t) == tokens[t].kind # "none" /\ ~tokens[t].revoked
Active(u) == {t \in Tokens : Live(t) /\ tokens[t].user = u}
Registered(cl) == cl \in Clients /\ clients[cl].row = "stored"
Stored(c) == codes[c].row = "stored"

Start(r, fields) == /\ req[r].pc = "idle"
                    /\ req' = [req EXCEPT ![r] = fields]
At(r, pc) == req[r].pc = pc
Goto(r, pc) == req' = [req EXCEPT ![r].pc = pc]
Finish(r) == req' = [req EXCEPT ![r] = Idle]

\* UPDATE apiTokens SET revokedAt = ? WHERE id IN T AND revokedAt IS NULL
RevokeAll(T) ==
    tokens' = [t \in Tokens |->
                  IF t \in T /\ Live(t) THEN [tokens[t] EXCEPT !.revoked = TRUE]
                                        ELSE tokens[t]]

---------------------------------------------------------------------------
(* Registration: prune_unused_clients, then the INSERT.                     *)

UnusedByCodes(cl) ==
    /\ clients[cl].created < now - ClientRetention
    /\ \A c \in Codes : Stored(c) /\ codes[c].client = cl => codes[c].expires <= now
Unused(cl) ==
    /\ clients[cl].created < now - ClientRetention
    /\ \A t \in Tokens : tokens[t].client # cl
    /\ \A c \in Codes : Stored(c) /\ codes[c].client = cl => codes[c].expires <= now

\* DELETE FROM oauthClients with its foreign keys: codes cascade, tokens keep
\* their row and lose the client.
DeleteClients(S) ==
    /\ clients' = [cl \in Clients |->
                      IF cl \in S THEN [clients[cl] EXCEPT !.row = "deleted"] ELSE clients[cl]]
    /\ codes' = [c \in Codes |->
                    IF Stored(c) /\ codes[c].client \in S
                    THEN [codes[c] EXCEPT !.row = "deleted"] ELSE codes[c]]
    /\ tokens' = [t \in Tokens |->
                     IF tokens[t].client \in S
                     THEN [tokens[t] EXCEPT !.client = None] ELSE tokens[t]]

RegisterPrune(r) ==
    /\ Start(r, [Idle EXCEPT !.pc = "register"])
    /\ DeleteClients({cl \in Clients : Registered(cl) /\ Unused(cl)})
    /\ UNCHANGED <<now, held>>

RegisterInsert(r) ==
    /\ At(r, "register")
    /\ \E cl \in Clients :
          /\ clients[cl].row = "none"
          /\ clients' = [clients EXCEPT ![cl] = [row |-> "stored", created |-> now]]
    /\ Finish(r)
    /\ UNCHANGED <<now, codes, tokens, held>>

---------------------------------------------------------------------------
(* Consent: load the client, drop expired codes, store the new one.         *)

BeginConsent(r, u, cl, s) ==
    /\ Registered(cl)
    /\ Start(r, [Idle EXCEPT !.pc = "pruneCodes", !.user = u, !.client = cl, !.scope = s])
    /\ UNCHANGED <<now, clients, codes, tokens, held>>

ConsentPrune(r) ==
    /\ At(r, "pruneCodes")
    /\ codes' = [c \in Codes |->
                    IF Stored(c) /\ codes[c].expires < now
                    THEN [codes[c] EXCEPT !.row = "deleted"] ELSE codes[c]]
    /\ Goto(r, "storeCode")
    /\ UNCHANGED <<now, clients, tokens, held>>

ConsentInsert(r) ==
    /\ At(r, "storeCode")
    /\ Registered(req[r].client)      \* the foreign key; otherwise only Abort
    /\ \E c \in Codes :
          /\ codes[c].row = "none"
          /\ codes' = [codes EXCEPT ![c] =
                [NoCode EXCEPT !.row = "stored", !.client = req[r].client,
                               !.user = req[r].user, !.scope = req[r].scope,
                               !.expires = now + CodeTTL]]
    /\ Finish(r)
    /\ UNCHANGED <<now, clients, tokens, held>>

---------------------------------------------------------------------------
(* exchange_code.                                                           *)

DeliveredGrant(c) == \E s \in held : tokens[s.token].code = c
\* The history of refused reuse: "late" when the grant had been delivered and
\* the code was still on file, "early" otherwise.
Reuse(c) == IF DeliveredGrant(c) /\ Stored(c) THEN "late" ELSE "early"
NoteReuse(c, how) ==
    codes' = [codes EXCEPT ![c].replay = IF @ = "late" THEN "late" ELSE how]

\* The checks before the claim: the client, reuse, expiry.  redirect_uri, PKCE
\* and resource are refused without a write.
Redeemable(cl, c) ==
    /\ Stored(c)
    /\ codes[c].client = cl
    /\ ~codes[c].used
    /\ codes[c].expires > now

BeginExchange(r, cl, c) ==
    /\ Registered(cl)
    /\ Redeemable(cl, c)
    /\ Start(r, [Idle EXCEPT !.pc = "claim", !.client = cl, !.code = c,
                             !.user = codes[c].user, !.scope = codes[c].scope])
    /\ UNCHANGED <<now, clients, codes, tokens, held>>

BeginReuse(r, cl, c) ==
    /\ Registered(cl)
    /\ Stored(c) /\ codes[c].client = cl /\ codes[c].used
    /\ codes[c].issued # None
    /\ Start(r, [Idle EXCEPT !.pc = "revokeIssued", !.code = c, !.token = codes[c].issued])
    /\ UNCHANGED <<now, clients, codes, tokens, held>>

RevokeIssued(r) ==
    /\ At(r, "revokeIssued")
    /\ RevokeAll({req[r].token})
    /\ NoteReuse(req[r].code, Reuse(req[r].code))
    /\ Finish(r)
    /\ UNCHANGED <<now, clients, held>>

\* A used code with no issuedTokenId yet, or a used code already deleted: the
\* request is refused and nothing is written (only the history records it).
RefuseReuse(cl, c) ==
    /\ Registered(cl)
    /\ codes[c].client = cl /\ codes[c].used
    /\ \/ Stored(c) /\ codes[c].issued = None
       \/ codes[c].row = "deleted"
    /\ NoteReuse(c, Reuse(c))
    /\ UNCHANGED <<now, clients, tokens, held, req>>

ExchangeClaimUnchecked(r) ==
    /\ At(r, "claim")
    /\ Stored(req[r].code)
    /\ codes' = [codes EXCEPT ![req[r].code].used = TRUE]
    /\ Goto(r, "supersede")
    /\ UNCHANGED <<now, clients, tokens, held>>
ExchangeClaim(r) ==
    /\ At(r, "claim")
    /\ LET c == req[r].code IN
       IF Stored(c) /\ ~codes[c].used
       THEN /\ codes' = [codes EXCEPT ![c].used = TRUE]
            /\ Goto(r, "supersede")
       ELSE /\ IF codes[c].used THEN NoteReuse(c, "early") ELSE UNCHANGED codes
            /\ Finish(r)
    /\ UNCHANGED <<now, clients, tokens, held>>

\* Both inserts into apiTokens count the user's unrevoked rows first.
BelowLimit(u) == Cardinality(Active(u)) < MaxActive

GrantsOf(u, cl) ==
    {t \in Tokens : tokens[t].kind = "oauth" /\ tokens[t].user = u /\ tokens[t].client = cl}

ExchangeSupersede(r) ==
    /\ At(r, "supersede")
    /\ RevokeAll(GrantsOf(req[r].user, req[r].client))
    /\ Goto(r, "count")
    /\ UNCHANGED <<now, clients, codes, held>>

ExchangeCountGivesBack(r) ==
    /\ At(r, "count")
    /\ IF BelowLimit(req[r].user) THEN Goto(r, "insert") ELSE Finish(r)
    /\ codes' = [codes EXCEPT ![req[r].code].used = BelowLimit(req[r].user)]
    /\ UNCHANGED <<now, clients, tokens, held>>
ExchangeCount(r) ==
    /\ At(r, "count")
    /\ IF BelowLimit(req[r].user) THEN Goto(r, "insert") ELSE Finish(r)
    /\ UNCHANGED <<now, clients, codes, tokens, held>>

ExchangeInsert(r) ==
    /\ At(r, "insert")
    /\ Registered(req[r].client)      \* the foreign key; otherwise only Abort
    /\ \E t \in Tokens :
          /\ tokens[t].kind = "none"
          /\ tokens' = [tokens EXCEPT ![t] =
                [NoToken EXCEPT !.kind = "oauth", !.user = req[r].user,
                                !.client = req[r].client, !.scope = req[r].scope,
                                !.code = req[r].code,
                                !.refreshExpires = now + RefreshTTL]]
          /\ req' = [req EXCEPT ![r] = [req[r] EXCEPT !.pc = "link", !.token = t]]
    /\ UNCHANGED <<now, clients, codes, held>>

ExchangeLinkMissing(r) ==
    /\ At(r, "link")
    /\ Goto(r, "respond")
    /\ UNCHANGED <<now, clients, codes, tokens, held>>
ExchangeLink(r) ==
    /\ At(r, "link")
    /\ codes' = [codes EXCEPT ![req[r].code].issued =
                    IF Stored(req[r].code) THEN req[r].token ELSE @]
    /\ Goto(r, "respond")
    /\ UNCHANGED <<now, clients, tokens, held>>

\* token(): the client's lastUsedAt, then the response with both secrets.
Respond(r) ==
    /\ At(r, "respond")
    /\ held' = held \union {[token |-> req[r].token, gen |-> req[r].gen]}
    /\ Finish(r)
    /\ UNCHANGED <<now, clients, codes, tokens>>

---------------------------------------------------------------------------
(* refresh.  The access and the refresh secret are replaced together, so    *)
(* one generation number stands for both.                                   *)

BeginRefresh(r, cl, s) ==
    LET t == s.token IN
    /\ Registered(cl)
    /\ tokens[t].refresh = s.gen
    /\ Live(t)
    /\ tokens[t].client = cl
    /\ tokens[t].refreshExpires > now
    /\ tokens[t].refresh < MaxGen
    /\ Start(r, [Idle EXCEPT !.pc = "rotate", !.token = t, !.gen = s.gen])
    /\ UNCHANGED <<now, clients, codes, tokens, held>>

\* No row carries the presented refresh token any more.
BeginSpentRefresh(r, cl, s) ==
    /\ Registered(cl)
    /\ tokens[s.token].refresh # s.gen
    /\ Start(r, [Idle EXCEPT !.pc = "revokeRotated", !.token = s.token, !.gen = s.gen])
    /\ UNCHANGED <<now, clients, codes, tokens, held>>

RefreshReplay(r) ==
    /\ At(r, "revokeRotated")
    /\ LET t == req[r].token IN
       tokens' = [tokens EXCEPT ![t] =
          [tokens[t] EXCEPT !.revoked = tokens[t].revoked \/ tokens[t].previous = req[r].gen,
                            !.replayed = TRUE]]
    /\ Finish(r)
    /\ UNCHANGED <<now, clients, codes, held>>

\* The WHERE of the rotating UPDATE, evaluated again on the current row.
StillLive(r) == Live(req[r].token)
StillCurrent(r) == tokens[req[r].token].refresh = req[r].gen /\ Live(req[r].token)

RefreshRotate(r) ==
    /\ At(r, "rotate")
    /\ LET t == req[r].token IN
       IF StillCurrent(r)
       THEN /\ tokens' = [tokens EXCEPT ![t] =
                  [tokens[t] EXCEPT !.refresh = tokens[t].refresh + 1,
                                    !.previous = req[r].gen,
                                    !.refreshExpires = now + RefreshTTL]]
            /\ req' = [req EXCEPT ![r] =
                  [req[r] EXCEPT !.pc = "respond", !.gen = req[r].gen + 1]]
       ELSE /\ tokens' = [tokens EXCEPT ![t].replayed =
                  tokens[t].replayed \/ tokens[t].refresh # req[r].gen]
            /\ Finish(r)
    /\ UNCHANGED <<now, clients, codes, held>>

---------------------------------------------------------------------------
(* Revocation and personal tokens.                                          *)

\* POST /oauth/revoke with a current secret of the client's own grant.
ClientRevoke(cl, s) ==
    /\ Registered(cl)
    /\ tokens[s.token].client = cl
    /\ tokens[s.token].refresh = s.gen
    /\ Live(s.token)
    /\ RevokeAll({s.token})
    /\ UNCHANGED <<now, clients, codes, held, req>>

UserRevoke(t) ==
    /\ Live(t)
    /\ RevokeAll({t})
    /\ UNCHANGED <<now, clients, codes, held, req>>

BeginPersonal(r, u) ==
    /\ BelowLimit(u)
    /\ Start(r, [Idle EXCEPT !.pc = "insertPersonal", !.user = u])
    /\ UNCHANGED <<now, clients, codes, tokens, held>>

InsertPersonal(r) ==
    /\ At(r, "insertPersonal")
    /\ \E t \in Tokens :
          /\ tokens[t].kind = "none"
          /\ tokens' = [tokens EXCEPT ![t] =
                [NoToken EXCEPT !.kind = "personal", !.user = req[r].user]]
    /\ Finish(r)
    /\ UNCHANGED <<now, clients, codes, held>>

---------------------------------------------------------------------------
\* The caller disconnects, or the statement the request is at fails: what was
\* committed stays, the rest of the handler never runs.
Abort(r) ==
    /\ req[r].pc # "idle"
    /\ Finish(r)
    /\ UNCHANGED <<now, clients, codes, tokens, held>>

Tick ==
    /\ now < MaxNow
    /\ now' = now + 1
    /\ UNCHANGED <<clients, codes, tokens, held, req>>

Registration(r) == RegisterPrune(r) \/ RegisterInsert(r)
Consent(r) ==
    \/ \E u \in Users, cl \in Clients, s \in Scopes : BeginConsent(r, u, cl, s)
    \/ ConsentPrune(r)
    \/ ConsentInsert(r)
Exchange(r) ==
    \/ \E cl \in Clients, c \in Codes : BeginExchange(r, cl, c) \/ BeginReuse(r, cl, c)
    \/ RevokeIssued(r)
    \/ ExchangeClaim(r)
    \/ ExchangeSupersede(r)
    \/ ExchangeCount(r)
    \/ ExchangeInsert(r)
    \/ ExchangeLink(r)
    \/ Respond(r)
Refresh(r) ==
    \/ \E cl \in Clients, s \in held : BeginRefresh(r, cl, s) \/ BeginSpentRefresh(r, cl, s)
    \/ RefreshReplay(r)
    \/ RefreshRotate(r)
Personal(r) == (\E u \in Users : BeginPersonal(r, u)) \/ InsertPersonal(r)

Next ==
    \/ \E r \in Requests :
          Registration(r) \/ Consent(r) \/ Exchange(r) \/ Refresh(r) \/ Personal(r) \/ Abort(r)
    \/ \E cl \in Clients, c \in Codes : RefuseReuse(cl, c)
    \/ \E cl \in Clients, s \in held : ClientRevoke(cl, s)
    \/ \E t \in Tokens : UserRevoke(t)
    \/ Tick

Spec == Init /\ [][Next]_vars

---------------------------------------------------------------------------
(* Faulty variants named next to a definition (..Unchecked, ..Missing, ..) are *)
(* what a slip in that line would be; no action uses them.                  *)
(***************************************************************************)
(* Properties.                                                              *)

PCs == {"idle", "register", "pruneCodes", "storeCode", "claim", "revokeIssued",
        "supersede", "count", "insert", "link", "respond", "rotate",
        "revokeRotated", "insertPersonal"}
Rows == {"none", "stored", "deleted"}
OrNone(S) == S \union {None}

ClientType == [row : Rows, created : Nat]
CodeType == [row : Rows, client : OrNone(Clients), user : OrNone(Users), scope : OrNone(Scopes),
             expires : Nat, used : BOOLEAN, issued : OrNone(Tokens),
             replay : {"none", "early", "late"}]
TokenType == [kind : {"none", "personal", "oauth"}, user : OrNone(Users),
              client : OrNone(Clients), scope : OrNone(Scopes), code : OrNone(Codes),
              revoked : BOOLEAN, refresh : Nat, previous : Int, refreshExpires : Nat,
              replayed : BOOLEAN]
ReqRecord == [pc : PCs, user : OrNone(Users), client : OrNone(Clients), scope : OrNone(Scopes),
              code : OrNone(Codes), token : OrNone(Tokens), gen : Nat]
\* A handler has the row it works on from the step that reads or inserts it.
HasRow(q) ==
    /\ q.pc \in {"claim", "revokeIssued", "supersede", "count", "insert", "link"} => q.code # None
    /\ q.pc \in {"revokeIssued", "link", "respond", "rotate", "revokeRotated"} => q.token # None
ReqType == {q \in ReqRecord : HasRow(q)}

\* Every table and every handler's local state has its type: the columns of
\* oauthClients, oauthAuthorizationCodes and apiTokens.
TypeOK ==
    /\ now \in Nat
    /\ clients \in [Clients -> ClientType]
    /\ codes \in [Codes -> CodeType]
    /\ tokens \in [Tokens -> TokenType]
    /\ held \subseteq [token : Tokens, gen : Nat]
    /\ req \in [Requests -> ReqType]

\* An authorization code leads to at most one grant, however many exchanges of
\* it overlap, fail half-way or are repeated (exchange_code's claim).
CodeSpentOnce ==
    \A t, u \in Tokens : tokens[t].code # None /\ tokens[t].code = tokens[u].code => t = u

\* A client only ever holds what a user approved for it on the consent screen:
\* every grant, after any exchange and any number of refreshes, has the user,
\* the client and the scope of the consent behind its code.
GrantMatchesConsent ==
    \A t \in Tokens : tokens[t].kind = "oauth" =>
        /\ tokens[t].code # None
        /\ LET c == codes[tokens[t].code] IN
           /\ c.row # "none" /\ c.used
           /\ <<tokens[t].user, tokens[t].client, tokens[t].scope>> = <<c.user, c.client, c.scope>>

\* Pruning never takes the client away from a grant: otherwise the grant could
\* neither be refreshed nor be replaced by a later authorization.
GrantsKeepTheirClient ==
    \A t \in Tokens : tokens[t].kind = "oauth" => Registered(tokens[t].client)

\* What a user approved stands: grants keep its terms, and their client.
ConsentStands == GrantMatchesConsent /\ GrantsKeepTheirClient

\* A code presented again after its grant was delivered, while the code is still
\* on file, ends the grant, and no refresh in flight brings it back.
LateReuseEndsGrant ==
    \A t \in Tokens :
        tokens[t].code # None /\ codes[tokens[t].code].replay = "late" => tokens[t].revoked

\* However refreshes overlap, each rotation replaces the secret that was current,
\* so the row always remembers the immediately preceding refresh token.
RotationIsSequential ==
    \A t \in Tokens : tokens[t].previous = tokens[t].refresh - 1

\* A revoked token stays revoked and its secrets are never replaced again, not
\* even by a refresh that had looked it up before the revocation.
RevokedIsFinal ==
    [][\A t \in Tokens : tokens[t].revoked =>
          tokens'[t].revoked /\ tokens'[t].refresh = tokens[t].refresh]_vars

---------------------------------------------------------------------------
(* The tables implement the life cycle of a grant.                          *)

Terms == [user : Users, client : Clients, scope : Scopes]
TermsOf(row) == [user |-> row.user, client |-> row.client, scope |-> row.scope]

\* NULL is no row.
AnyTerms == [user : OrNone(Users), client : OrNone(Clients), scope : OrNone(Scopes)]
AnyGrant == [code : OrNone(Codes), terms : AnyTerms, gen : Nat, live : BOOLEAN]
ASSUME NullAssumption == None \notin AnyTerms \union AnyGrant

Approvals == [c \in Codes |-> IF codes[c].row = "none" THEN None ELSE TermsOf(codes[c])]
Spent == {c \in Codes : codes[c].used}
GrantOf(t) ==
    IF tokens[t].kind # "oauth" THEN None
    ELSE [code |-> tokens[t].code, terms |-> TermsOf(tokens[t]),
          gen |-> tokens[t].refresh, live |-> ~tokens[t].revoked]
Grants == [t \in Tokens |-> GrantOf(t)]

Abstract == INSTANCE GrantLifecycle WITH
    approval <- Approvals, spent <- Spent, grant <- Grants

\* Every behaviour of the token endpoint is a behaviour of the abstract grant:
\* approve, spend once, mint once on the approved terms, rotate while live, end.
GrantsFollowLifecycle == Abstract!ASpec

=============================================================================
