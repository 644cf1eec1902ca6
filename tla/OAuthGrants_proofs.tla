------------------------- MODULE OAuthGrants_proofs -------------------------
(***************************************************************************)
(* Theorems about OAuthGrants for every set of clients, users, codes,      *)
(* tokens and requests, every lifetime and every bound.                    *)
(***************************************************************************)
EXTENDS OAuthGrants, TLAPS

\* One handler step of request r.
RequestStep(r) == Registration(r) \/ Consent(r) \/ Exchange(r) \/ Refresh(r) \/ Personal(r) \/ Abort(r)

\* The type invariant holds initially.
LEMMA InitType == Init => TypeOK
BY NoneAssumption DEF Init, TypeOK, NoClient, NoCode, NoToken, Idle, ClientType, CodeType, TokenType,
   ReqType, ReqRecord, HasRow, Rows, PCs, OrNone

\* Revoking a set of tokens keeps the table well typed.
LEMMA RevokeAllType ==
    ASSUME NEW T, TypeOK, RevokeAll(T)
    PROVE  tokens' \in [Tokens -> TokenType]
BY DEF RevokeAll, TypeOK, TokenType

\* A request record whose pc and ids are well typed keeps the type of req.
LEMMA StartType ==
    ASSUME NEW r \in Requests, NEW f \in ReqType, TypeOK, Start(r, f)
    PROVE  req' \in [Requests -> ReqType]
BY DEF Start, TypeOK

LEMMA GotoType ==
    ASSUME NEW r \in Requests, NEW pc \in PCs, TypeOK, Goto(r, pc),
           HasRow([req[r] EXCEPT !.pc = pc])
    PROVE  req' \in [Requests -> ReqType]
<1>1. [req[r] EXCEPT !.pc = pc] \in ReqType
  BY DEF TypeOK, ReqType, ReqRecord
<1> QED BY <1>1 DEF Goto, TypeOK

LEMMA FinishType ==
    ASSUME NEW r \in Requests, TypeOK, Finish(r)
    PROVE  req' \in [Requests -> ReqType]
BY DEF Finish, Idle, TypeOK, ReqType, ReqRecord, HasRow, PCs, OrNone

LEMMA NoteReuseType ==
    ASSUME NEW c, NEW how \in {"early", "late"}, TypeOK, NoteReuse(c, how)
    PROVE  codes' \in [Codes -> CodeType]
<1>1. CASE c \in Codes
  BY <1>1 DEF NoteReuse, TypeOK, CodeType
<1>2. CASE c \notin Codes
  BY <1>2 DEF NoteReuse, TypeOK
<1> QED BY <1>1, <1>2

\* Writing well-typed values into the columns of a token keeps its type.
LEMMA FlagsType ==
    ASSUME NEW x \in TokenType, NEW a \in BOOLEAN, NEW b \in BOOLEAN
    PROVE  /\ [x EXCEPT !.revoked = a, !.replayed = b] \in TokenType
           /\ [x EXCEPT !.replayed = b] \in TokenType
BY DEF TokenType

LEMMA RotatedType ==
    ASSUME NEW x \in TokenType, NEW g \in Nat, NEW p \in Int, NEW e \in Nat
    PROVE  [x EXCEPT !.refresh = g, !.previous = p, !.refreshExpires = e] \in TokenType
BY DEF TokenType

LEMMA AdvanceType ==
    ASSUME NEW q \in ReqRecord, NEW t \in Tokens, NEW g \in Nat
    PROVE  /\ q.code # None => [q EXCEPT !.pc = "link", !.token = t] \in ReqType
           /\ q.token # None => [q EXCEPT !.pc = "respond", !.gen = g] \in ReqType
<1>1. t # None
  BY NoneAssumption
<1>2. [q EXCEPT !.pc = "link", !.token = t] \in ReqRecord
  BY DEF ReqRecord, PCs, OrNone
<1>3. [q EXCEPT !.pc = "respond", !.gen = g] \in ReqRecord
  BY DEF ReqRecord, PCs
<1>4. q.code # None => HasRow([q EXCEPT !.pc = "link", !.token = t])
  BY <1>1 DEF HasRow, ReqRecord
<1>5. q.token # None => HasRow([q EXCEPT !.pc = "respond", !.gen = g])
  BY DEF HasRow, ReqRecord
<1> QED BY <1>2, <1>3, <1>4, <1>5 DEF ReqType

\* Writing one well-typed row keeps the table well typed.
LEMMA WriteTokenType ==
    ASSUME NEW t \in Tokens, NEW x \in TokenType, TypeOK, tokens' = [tokens EXCEPT ![t] = x]
    PROVE  tokens' \in [Tokens -> TokenType]
BY DEF TypeOK

LEMMA WriteReqType ==
    ASSUME NEW r \in Requests, NEW q \in ReqType, TypeOK, req' = [req EXCEPT ![r] = q]
    PROVE  req' \in [Requests -> ReqType]
BY DEF TypeOK

\* Registration and consent keep the types.
LEMMA RegistrationType ==
    ASSUME NEW r \in Requests, TypeOK, Registration(r)
    PROVE  TypeOK'
<1>1. CASE RegisterPrune(r)
  <2>1. [Idle EXCEPT !.pc = "register"] \in ReqType
    BY DEF Idle, ReqType, ReqRecord, HasRow, PCs, OrNone
  <2>2. req' \in [Requests -> ReqType]
    BY <1>1, <2>1, StartType DEF RegisterPrune
  <2>3. clients' \in [Clients -> ClientType]
    BY <1>1 DEF RegisterPrune, DeleteClients, TypeOK, ClientType, Rows
  <2>4. codes' \in [Codes -> CodeType]
    BY <1>1 DEF RegisterPrune, DeleteClients, TypeOK, CodeType, Rows
  <2>5. tokens' \in [Tokens -> TokenType]
    BY <1>1 DEF RegisterPrune, DeleteClients, TypeOK, TokenType, OrNone
  <2> QED BY <1>1, <2>2, <2>3, <2>4, <2>5 DEF RegisterPrune, TypeOK
<1>2. CASE RegisterInsert(r)
  <2>1. req' \in [Requests -> ReqType]
    BY <1>2, FinishType DEF RegisterInsert
  <2>2. clients' \in [Clients -> ClientType]
    BY <1>2 DEF RegisterInsert, TypeOK, ClientType, Rows
  <2> QED BY <1>2, <2>1, <2>2 DEF RegisterInsert, TypeOK
<1> QED BY <1>1, <1>2 DEF Registration

LEMMA ConsentType ==
    ASSUME NEW r \in Requests, TypeOK, Consent(r)
    PROVE  TypeOK'
<1>1. ASSUME NEW u \in Users, NEW cl \in Clients, NEW s \in Scopes, BeginConsent(r, u, cl, s)
      PROVE  TypeOK'
  <2>1. [Idle EXCEPT !.pc = "pruneCodes", !.user = u, !.client = cl, !.scope = s] \in ReqType
    BY DEF Idle, ReqType, ReqRecord, HasRow, PCs, OrNone
  <2>2. req' \in [Requests -> ReqType]
    BY <1>1, <2>1, StartType DEF BeginConsent
  <2> QED BY <1>1, <2>2 DEF BeginConsent, TypeOK
<1>2. CASE ConsentPrune(r)
  <2>1. HasRow([req[r] EXCEPT !.pc = "storeCode"])
    BY DEF TypeOK, ReqType, ReqRecord, HasRow
  <2>3. req' \in [Requests -> ReqType]
    BY <1>2, <2>1, GotoType DEF ConsentPrune, PCs
  <2>2. codes' \in [Codes -> CodeType]
    BY <1>2 DEF ConsentPrune, TypeOK, CodeType, Rows
  <2> QED BY <1>2, <2>2, <2>3 DEF ConsentPrune, TypeOK
<1>3. CASE ConsentInsert(r)
  <2>1. req' \in [Requests -> ReqType]
    BY <1>3, FinishType DEF ConsentInsert
  <2>2. now + CodeTTL \in Nat
    BY TimeAssumption DEF TypeOK
  <2>3. PICK c \in Codes :
           codes' = [codes EXCEPT ![c] =
                [NoCode EXCEPT !.row = "stored", !.client = req[r].client,
                               !.user = req[r].user, !.scope = req[r].scope,
                               !.expires = now + CodeTTL]]
    BY <1>3 DEF ConsentInsert
  <2>4. [NoCode EXCEPT !.row = "stored", !.client = req[r].client, !.user = req[r].user,
                       !.scope = req[r].scope, !.expires = now + CodeTTL] \in CodeType
    BY <2>2 DEF TypeOK, CodeType, Rows, NoCode, ReqType, ReqRecord, OrNone
  <2>5. codes' \in [Codes -> CodeType]
    BY <2>3, <2>4 DEF TypeOK
  <2> QED BY <1>3, <2>1, <2>5 DEF ConsentInsert, TypeOK
<1> QED BY <1>1, <1>2, <1>3 DEF Consent

LEMMA ExchangeType ==
    ASSUME NEW r \in Requests, TypeOK, Exchange(r)
    PROVE  TypeOK'
<1>1. ASSUME NEW cl \in Clients, NEW c \in Codes, BeginExchange(r, cl, c)
      PROVE  TypeOK'
  <2>1. [Idle EXCEPT !.pc = "claim", !.client = cl, !.code = c,
                     !.user = codes[c].user, !.scope = codes[c].scope] \in ReqType
    BY NoneAssumption DEF Idle, ReqType, ReqRecord, HasRow, PCs, OrNone, TypeOK, CodeType
  <2>2. req' \in [Requests -> ReqType]
    BY <1>1, <2>1, StartType DEF BeginExchange
  <2> QED BY <1>1, <2>2 DEF BeginExchange, TypeOK
<1>2. ASSUME NEW cl \in Clients, NEW c \in Codes, BeginReuse(r, cl, c)
      PROVE  TypeOK'
  <2>1. [Idle EXCEPT !.pc = "revokeIssued", !.code = c, !.token = codes[c].issued] \in ReqType
    BY <1>2, NoneAssumption DEF BeginReuse, Idle, ReqType, ReqRecord, HasRow, PCs, OrNone, TypeOK, CodeType
  <2>2. req' \in [Requests -> ReqType]
    BY <1>2, <2>1, StartType DEF BeginReuse
  <2> QED BY <1>2, <2>2 DEF BeginReuse, TypeOK
<1>3. CASE RevokeIssued(r)
  <2>1. /\ req' \in [Requests -> ReqType]
        /\ tokens' \in [Tokens -> TokenType]
    BY <1>3, FinishType, RevokeAllType DEF RevokeIssued
  <2>2. codes' \in [Codes -> CodeType]
    BY <1>3, NoteReuseType DEF RevokeIssued, Reuse
  <2> QED BY <1>3, <2>1, <2>2 DEF RevokeIssued, TypeOK
<1>4. CASE ExchangeClaim(r)
  <2>1. HasRow([req[r] EXCEPT !.pc = "supersede"])
    BY <1>4 DEF ExchangeClaim, At, TypeOK, ReqType, ReqRecord, HasRow
  <2>3. req' \in [Requests -> ReqType]
    BY <1>4, <2>1, GotoType, FinishType DEF ExchangeClaim, PCs
  <2>2. codes' \in [Codes -> CodeType]
    <3>1. CASE codes' = [codes EXCEPT ![req[r].code].used = TRUE]
      <4>1. CASE req[r].code \in Codes
        BY <3>1, <4>1 DEF TypeOK, CodeType
      <4>2. CASE req[r].code \notin Codes
        BY <3>1, <4>2 DEF TypeOK
      <4> QED BY <4>1, <4>2
    <3>2. CASE NoteReuse(req[r].code, "early")
      BY <3>2, NoteReuseType
    <3>3. CASE UNCHANGED codes
      BY <3>3 DEF TypeOK
    <3> QED BY <1>4, <3>1, <3>2, <3>3 DEF ExchangeClaim
  <2> QED BY <1>4, <2>2, <2>3 DEF ExchangeClaim, TypeOK
<1>5. CASE ExchangeSupersede(r)
  <2>1. HasRow([req[r] EXCEPT !.pc = "count"])
    BY <1>5 DEF ExchangeSupersede, At, TypeOK, ReqType, ReqRecord, HasRow
  <2>2. /\ req' \in [Requests -> ReqType]
        /\ tokens' \in [Tokens -> TokenType]
    BY <1>5, <2>1, GotoType, RevokeAllType DEF ExchangeSupersede, PCs
  <2> QED BY <1>5, <2>2 DEF ExchangeSupersede, TypeOK
<1>6. CASE ExchangeCount(r)
  <2>1. HasRow([req[r] EXCEPT !.pc = "insert"])
    BY <1>6 DEF ExchangeCount, At, TypeOK, ReqType, ReqRecord, HasRow
  <2>2. req' \in [Requests -> ReqType]
    BY <1>6, <2>1, GotoType, FinishType DEF ExchangeCount, PCs
  <2> QED BY <1>6, <2>2 DEF ExchangeCount, TypeOK
<1>7. CASE ExchangeInsert(r)
  <2>1. now + RefreshTTL \in Nat
    BY TimeAssumption DEF TypeOK
  <2>2. PICK t \in Tokens :
           /\ tokens' = [tokens EXCEPT ![t] =
                [NoToken EXCEPT !.kind = "oauth", !.user = req[r].user,
                                !.client = req[r].client, !.scope = req[r].scope,
                                !.code = req[r].code,
                                !.refreshExpires = now + RefreshTTL]]
           /\ req' = [req EXCEPT ![r] = [req[r] EXCEPT !.pc = "link", !.token = t]]
    BY <1>7 DEF ExchangeInsert
  <2>3. [NoToken EXCEPT !.kind = "oauth", !.user = req[r].user, !.client = req[r].client,
                        !.scope = req[r].scope, !.code = req[r].code,
                        !.refreshExpires = now + RefreshTTL] \in TokenType
    <3>1. /\ req[r].user \in OrNone(Users)
          /\ req[r].client \in OrNone(Clients)
          /\ req[r].scope \in OrNone(Scopes)
          /\ req[r].code \in OrNone(Codes)
      BY DEF TypeOK, ReqType, ReqRecord
    <3>2. NoToken \in [kind : {"none"}, user : {None}, client : {None}, scope : {None},
                       code : {None}, revoked : BOOLEAN, refresh : Nat, previous : Int,
                       refreshExpires : Nat, replayed : BOOLEAN]
      BY DEF NoToken
    <3> QED BY <2>1, <3>1, <3>2 DEF TokenType
  <2>4. [req[r] EXCEPT !.pc = "link", !.token = t] \in ReqType
    <3>1. req[r] \in ReqRecord /\ req[r].code # None
      BY <1>7 DEF ExchangeInsert, At, TypeOK, ReqType, HasRow
    <3> QED BY <3>1, AdvanceType
  <2>5. /\ tokens' \in [Tokens -> TokenType]
        /\ req' \in [Requests -> ReqType]
    BY <2>2, <2>3, <2>4 DEF TypeOK
  <2> QED BY <1>7, <2>5 DEF ExchangeInsert, TypeOK
<1>8. CASE ExchangeLink(r)
  <2>1. HasRow([req[r] EXCEPT !.pc = "respond"])
    BY <1>8 DEF ExchangeLink, At, TypeOK, ReqType, ReqRecord, HasRow
  <2>3. req' \in [Requests -> ReqType]
    BY <1>8, <2>1, GotoType DEF ExchangeLink, PCs
  <2>2. codes' \in [Codes -> CodeType]
    <3>1. req[r].token \in OrNone(Tokens)
      BY DEF TypeOK, ReqType, ReqRecord
    <3>2. ASSUME NEW x \in OrNone(Tokens), NEW c \in Codes
          PROVE  [codes[c] EXCEPT !.issued = x] \in CodeType
      BY DEF TypeOK, CodeType
    <3>3. ASSUME NEW c \in Codes
          PROVE  codes[c].issued \in OrNone(Tokens)
      BY DEF TypeOK, CodeType
    <3>4. CASE req[r].code \in Codes
      BY <1>8, <3>1, <3>2, <3>3, <3>4 DEF ExchangeLink, TypeOK
    <3>5. CASE req[r].code \notin Codes
      BY <1>8, <3>5 DEF ExchangeLink, TypeOK
    <3> QED BY <3>4, <3>5
  <2> QED BY <1>8, <2>2, <2>3 DEF ExchangeLink, TypeOK
<1>9. CASE Respond(r)
  <2>1. req' \in [Requests -> ReqType]
    BY <1>9, FinishType DEF Respond
  <2>2. /\ req[r].token \in Tokens
        /\ req[r].gen \in Nat
    BY <1>9 DEF Respond, At, TypeOK, ReqType, ReqRecord, HasRow, OrNone
  <2>3. held' \subseteq [token : Tokens, gen : Nat]
    BY <1>9, <2>2 DEF Respond, TypeOK
  <2> QED BY <1>9, <2>1, <2>3 DEF Respond, TypeOK
<1> QED BY <1>1, <1>2, <1>3, <1>4, <1>5, <1>6, <1>7, <1>8, <1>9 DEF Exchange

LEMMA RefreshType ==
    ASSUME NEW r \in Requests, TypeOK, Refresh(r)
    PROVE  TypeOK'
<1>1. ASSUME NEW cl \in Clients, NEW s \in held, BeginRefresh(r, cl, s)
      PROVE  TypeOK'
  <2>1. s \in [token : Tokens, gen : Nat]
    BY DEF TypeOK
  <2>2. [Idle EXCEPT !.pc = "rotate", !.token = s.token, !.gen = s.gen] \in ReqType
    BY <2>1, NoneAssumption DEF Idle, ReqType, ReqRecord, HasRow, PCs, OrNone
  <2>3. req' \in [Requests -> ReqType]
    BY <1>1, <2>2, StartType DEF BeginRefresh
  <2> QED BY <1>1, <2>3 DEF BeginRefresh, TypeOK
<1>2. ASSUME NEW cl \in Clients, NEW s \in held, BeginSpentRefresh(r, cl, s)
      PROVE  TypeOK'
  <2>1. s \in [token : Tokens, gen : Nat]
    BY DEF TypeOK
  <2>2. [Idle EXCEPT !.pc = "revokeRotated", !.token = s.token, !.gen = s.gen] \in ReqType
    BY <2>1, NoneAssumption DEF Idle, ReqType, ReqRecord, HasRow, PCs, OrNone
  <2>3. req' \in [Requests -> ReqType]
    BY <1>2, <2>2, StartType DEF BeginSpentRefresh
  <2> QED BY <1>2, <2>3 DEF BeginSpentRefresh, TypeOK
<1>3. CASE RefreshReplay(r)
  <2>1. req' \in [Requests -> ReqType]
    BY <1>3, FinishType DEF RefreshReplay
  <2>2. req[r].token \in Tokens
    BY <1>3 DEF RefreshReplay, At, TypeOK, ReqType, ReqRecord, HasRow, OrNone
  <2>3. [tokens[req[r].token] EXCEPT
            !.revoked = @ \/ tokens[req[r].token].previous = req[r].gen,
            !.replayed = TRUE] \in TokenType
    <3>1. tokens[req[r].token] \in TokenType
      BY <2>2 DEF TypeOK
    <3>2. (tokens[req[r].token].revoked \/ tokens[req[r].token].previous = req[r].gen) \in BOOLEAN
      OBVIOUS
    <3> QED BY <3>1, <3>2, FlagsType, Zenon
  <2>4. tokens' \in [Tokens -> TokenType]
    <3>1. tokens' = [tokens EXCEPT ![req[r].token] = [tokens[req[r].token] EXCEPT
            !.revoked = @ \/ tokens[req[r].token].previous = req[r].gen,
            !.replayed = TRUE]]
      BY <1>3, Zenon DEF RefreshReplay
    <3> QED BY <2>2, <2>3, <3>1, WriteTokenType, Zenon
  <2> QED BY <1>3, <2>1, <2>4 DEF RefreshReplay, TypeOK
<1>4. CASE RefreshRotate(r)
  <2>1. req[r].token \in Tokens /\ req[r] \in ReqRecord
    BY <1>4 DEF RefreshRotate, At, TypeOK, ReqType, ReqRecord, HasRow, OrNone
  <2>2. CASE StillCurrent(r)
    <3>1. [tokens[req[r].token] EXCEPT !.refresh = @ + 1, !.previous = req[r].gen,
                                       !.refreshExpires = now + RefreshTTL] \in TokenType
      <4>1. tokens[req[r].token] \in TokenType
        BY <2>1 DEF TypeOK
      <4>2. /\ tokens[req[r].token].refresh + 1 \in Nat
            /\ now + RefreshTTL \in Nat
            /\ req[r].gen \in Int
        BY <2>1, <4>1, TimeAssumption DEF TypeOK, TokenType, ReqRecord
      <4> QED BY <4>1, <4>2, RotatedType, Zenon
    <3>2. tokens' \in [Tokens -> TokenType]
      <4>1. tokens' = [tokens EXCEPT ![req[r].token] = [tokens[req[r].token] EXCEPT
               !.refresh = @ + 1, !.previous = req[r].gen, !.refreshExpires = now + RefreshTTL]]
        BY <1>4, <2>2, Zenon DEF RefreshRotate
      <4> QED BY <2>1, <3>1, <4>1, WriteTokenType, Zenon
    <3>3. [req[r] EXCEPT !.pc = "respond", !.gen = @ + 1] \in ReqType
      <4>1. req[r].gen + 1 \in Nat /\ req[r].token # None
        BY <2>1, NoneAssumption DEF ReqRecord
      <4> QED BY <2>1, <4>1, AdvanceType, Zenon
    <3>4. req' \in [Requests -> ReqType]
      <4>1. req' = [req EXCEPT ![r] = [req[r] EXCEPT !.pc = "respond", !.gen = @ + 1]]
        BY <1>4, <2>2, Zenon DEF RefreshRotate
      <4> QED BY <3>3, <4>1, WriteReqType, Zenon
    <3> QED BY <1>4, <3>2, <3>4 DEF RefreshRotate, TypeOK
  <2>3. CASE ~StillCurrent(r)
    <3>1. req' \in [Requests -> ReqType]
      BY <1>4, <2>3, FinishType DEF RefreshRotate
    <3>2. [tokens[req[r].token] EXCEPT
              !.replayed = @ \/ tokens[req[r].token].refresh # req[r].gen] \in TokenType
      <4>1. tokens[req[r].token] \in TokenType
        BY <2>1 DEF TypeOK
      <4>2. (tokens[req[r].token].replayed \/ tokens[req[r].token].refresh # req[r].gen) \in BOOLEAN
        OBVIOUS
      <4> QED BY <4>1, <4>2, FlagsType, Zenon
    <3>3. tokens' \in [Tokens -> TokenType]
      BY <1>4, <2>1, <2>3, <3>2 DEF RefreshRotate, TypeOK
    <3> QED BY <1>4, <3>1, <3>3 DEF RefreshRotate, TypeOK
  <2> QED BY <2>2, <2>3
<1> QED BY <1>1, <1>2, <1>3, <1>4 DEF Refresh

LEMMA PersonalType ==
    ASSUME NEW r \in Requests, TypeOK, Personal(r)
    PROVE  TypeOK'
<1>1. ASSUME NEW u \in Users, BeginPersonal(r, u)
      PROVE  TypeOK'
  <2>1. [Idle EXCEPT !.pc = "insertPersonal", !.user = u] \in ReqType
    BY DEF Idle, ReqType, ReqRecord, HasRow, PCs, OrNone
  <2>2. req' \in [Requests -> ReqType]
    BY <1>1, <2>1, StartType DEF BeginPersonal
  <2> QED BY <1>1, <2>2 DEF BeginPersonal, TypeOK
<1>2. CASE InsertPersonal(r)
  <2>1. req' \in [Requests -> ReqType]
    BY <1>2, FinishType DEF InsertPersonal
  <2>2. [NoToken EXCEPT !.kind = "personal", !.user = req[r].user] \in TokenType
    <3>1. req[r].user \in OrNone(Users)
      BY DEF TypeOK, ReqType, ReqRecord
    <3>2. NoToken \in [kind : {"none"}, user : {None}, client : {None}, scope : {None},
                       code : {None}, revoked : BOOLEAN, refresh : Nat, previous : Int,
                       refreshExpires : Nat, replayed : BOOLEAN]
      BY DEF NoToken
    <3>3. None \in OrNone(Clients) /\ None \in OrNone(Scopes) /\ None \in OrNone(Codes)
      BY DEF OrNone
    <3> QED BY <3>1, <3>2, <3>3 DEF TokenType
  <2>3. tokens' \in [Tokens -> TokenType]
    BY <1>2, <2>2 DEF InsertPersonal, TypeOK
  <2> QED BY <1>2, <2>1, <2>3 DEF InsertPersonal, TypeOK
<1> QED BY <1>1, <1>2 DEF Personal

\* Every step keeps the types: one lemma per handler, the rest here.
LEMMA StepType == TypeOK /\ [Next]_vars => TypeOK'
<1> SUFFICES ASSUME TypeOK, [Next]_vars PROVE TypeOK'
  OBVIOUS
<1>1. ASSUME NEW r \in Requests, RequestStep(r)
      PROVE  TypeOK'
  <2>1. CASE Abort(r)
    <3>1. req' \in [Requests -> ReqType]
      BY <2>1, FinishType DEF Abort
    <3> QED BY <2>1, <3>1 DEF Abort, TypeOK
  <2> QED BY <1>1, <2>1, RegistrationType, ConsentType, ExchangeType, RefreshType, PersonalType
          DEF RequestStep
<1>2. ASSUME NEW cl \in Clients, NEW c \in Codes, RefuseReuse(cl, c)
      PROVE  TypeOK'
  <2>1. codes' \in [Codes -> CodeType]
    BY <1>2, NoteReuseType DEF RefuseReuse, Reuse
  <2> QED BY <1>2, <2>1 DEF RefuseReuse, TypeOK
<1>3. ASSUME NEW cl \in Clients, NEW s \in held, ClientRevoke(cl, s)
      PROVE  TypeOK'
  <2>1. tokens' \in [Tokens -> TokenType]
    BY <1>3, RevokeAllType DEF ClientRevoke
  <2> QED BY <1>3, <2>1 DEF ClientRevoke, TypeOK
<1>4. ASSUME NEW t \in Tokens, UserRevoke(t)
      PROVE  TypeOK'
  <2>1. tokens' \in [Tokens -> TokenType]
    BY <1>4, RevokeAllType DEF UserRevoke
  <2> QED BY <1>4, <2>1 DEF UserRevoke, TypeOK
<1>5. CASE Tick
  BY <1>5 DEF Tick, TypeOK
<1>6. CASE UNCHANGED vars
  BY <1>6 DEF vars, TypeOK
<1> QED BY <1>1, <1>2, <1>3, <1>4, <1>5, <1>6 DEF Next, RequestStep

\* The tables and every handler's local state are well typed in every reachable
\* state (the columns of oauthClients, oauthAuthorizationCodes and apiTokens).
THEOREM TypeCorrect == Spec => []TypeOK
<1>1. Init => TypeOK
  BY InitType
<1>2. TypeOK /\ [Next]_vars => TypeOK'
  BY StepType
<1> QED BY <1>1, <1>2, PTL DEF Spec

---------------------------------------------------------------------------
(***************************************************************************)
(* One grant per code.  That two tokens never share a code is not          *)
(* inductive: it needs that the request which won the claim is the only    *)
(* one past it for that code (ClaimExclusive) and that no token of the     *)
(* code exists until that request inserts it (ClaimUnminted).              *)
(***************************************************************************)

Past(r) == req[r].pc \in {"supersede", "count", "insert"}

Unborn ==
    \A t \in Tokens : /\ tokens[t].kind # "oauth" => tokens[t].code = None /\ tokens[t].client = None
                      /\ tokens[t].kind = "none" => ~tokens[t].revoked /\ tokens[t].previous = -1

MatchesCode(q) ==
    LET c == codes[q.code] IN
    c.row # "none" /\ q.user = c.user /\ q.client = c.client /\ q.scope = c.scope

RequestsMatchCodes ==
    \A r \in Requests : req[r].pc = "claim" \/ Past(r) => MatchesCode(req[r])

ClaimUnminted ==
    \A r \in Requests : Past(r) =>
        codes[req[r].code].used /\ \A t \in Tokens : tokens[t].code # req[r].code

ClaimExclusive ==
    \A r, q \in Requests : Past(r) /\ Past(q) /\ req[r].code = req[q].code => r = q

GrantInv ==
    /\ TypeOK
    /\ Unborn
    /\ RequestsMatchCodes
    /\ ClaimUnminted
    /\ ClaimExclusive
    /\ GrantMatchesConsent
    /\ CodeSpentOnce
    /\ GrantsKeepTheirClient

\* A step is quiet when it leaves alone what GrantInv speaks of: who a token
\* belongs to, what a code approves and whether it is used, and which requests
\* hold a claim.
QuietTokens ==
    \A t \in Tokens :
        /\ tokens'[t].kind = tokens[t].kind
        /\ tokens'[t].user = tokens[t].user
        /\ tokens'[t].client = tokens[t].client
        /\ tokens'[t].scope = tokens[t].scope
        /\ tokens'[t].code = tokens[t].code
        /\ tokens[t].kind = "none" => /\ tokens'[t].revoked = tokens[t].revoked
                                      /\ tokens'[t].previous = tokens[t].previous

QuietCodes ==
    \A c \in Codes :
        /\ codes'[c].row = "none" <=> codes[c].row = "none"
        /\ codes'[c].user = codes[c].user
        /\ codes'[c].client = codes[c].client
        /\ codes'[c].scope = codes[c].scope
        /\ codes'[c].used = codes[c].used

QuietRequests ==
    \A r \in Requests :
        \/ req'[r].pc \notin {"claim", "supersede", "count", "insert"}
        \/ /\ req'[r].code = req[r].code
           /\ req'[r].user = req[r].user
           /\ req'[r].client = req[r].client
           /\ req'[r].scope = req[r].scope
           /\ \/ req'[r].pc = "claim" /\ req[r].pc = "claim"
              \/ Past(r)' /\ Past(r)

QuietClients == \A cl \in Clients : clients[cl].row = "stored" => clients'[cl].row = "stored"

LEMMA QuietRest ==
    ASSUME GrantInv, TypeOK', QuietTokens, QuietCodes, QuietRequests
    PROVE  /\ Unborn' /\ RequestsMatchCodes' /\ ClaimUnminted' /\ ClaimExclusive'
           /\ GrantMatchesConsent' /\ CodeSpentOnce'
<1>1. Unborn'
  BY DEF GrantInv, Unborn, QuietTokens
<1>2. ASSUME NEW r \in Requests, (req[r].pc = "claim" \/ Past(r))'
      PROVE  /\ req'[r].code \in Codes
             /\ req'[r].code = req[r].code
             /\ req[r].pc = "claim" \/ Past(r)
             /\ Past(r)' => Past(r)
             /\ req'[r].user = req[r].user
             /\ req'[r].client = req[r].client
             /\ req'[r].scope = req[r].scope
  <2>1. req'[r].code \in Codes
    BY <1>2 DEF Past, TypeOK, ReqType, ReqRecord, HasRow, OrNone
  <2> QED BY <1>2, <2>1 DEF QuietRequests, Past
<1>3. RequestsMatchCodes'
  BY <1>2 DEF GrantInv, RequestsMatchCodes, MatchesCode, QuietCodes
<1>4. ClaimUnminted'
  BY <1>2 DEF GrantInv, ClaimUnminted, QuietCodes, QuietTokens
<1>5. ClaimExclusive'
  BY <1>2 DEF GrantInv, ClaimExclusive
<1>6. GrantMatchesConsent'
  <2> SUFFICES ASSUME NEW t \in Tokens, tokens'[t].kind = "oauth"
               PROVE  /\ tokens'[t].code # None
                      /\ codes'[tokens'[t].code].row # "none"
                      /\ codes'[tokens'[t].code].used
                      /\ tokens'[t].user = codes'[tokens'[t].code].user
                      /\ tokens'[t].client = codes'[tokens'[t].code].client
                      /\ tokens'[t].scope = codes'[tokens'[t].code].scope
    BY DEF GrantMatchesConsent
  <2>1. tokens[t].code \in Codes
    BY DEF GrantInv, GrantMatchesConsent, QuietTokens, TypeOK, TokenType, OrNone
  <2> QED BY <2>1 DEF GrantInv, GrantMatchesConsent, QuietTokens, QuietCodes
<1>7. CodeSpentOnce'
  BY DEF GrantInv, CodeSpentOnce, QuietTokens
<1> QED BY <1>1, <1>3, <1>4, <1>5, <1>6, <1>7

LEMMA QuietStep ==
    ASSUME GrantInv, TypeOK', QuietTokens, QuietCodes, QuietRequests, QuietClients
    PROVE  GrantInv'
<1>1. GrantsKeepTheirClient'
  BY DEF GrantInv, GrantsKeepTheirClient, QuietTokens, QuietClients, Registered
<1> QED BY <1>1, QuietRest DEF GrantInv

LEMMA InitGrant == Init => GrantInv
<1> SUFFICES ASSUME Init PROVE GrantInv
  OBVIOUS
<1>1. TypeOK
  BY InitType
<1> QED BY <1>1 DEF Init, GrantInv, Unborn, RequestsMatchCodes, ClaimUnminted, ClaimExclusive, Past,
           GrantMatchesConsent, CodeSpentOnce, GrantsKeepTheirClient, NoToken, NoCode, Idle

\* What the helpers of the actions leave alone.
LEMMA RevokeAllQuiet ==
    ASSUME NEW T, TypeOK, RevokeAll(T) PROVE QuietTokens
BY DEF RevokeAll, QuietTokens, TypeOK, TokenType, Live

LEMMA NoteReuseQuiet ==
    ASSUME NEW c, NEW how, TypeOK, NoteReuse(c, how) PROVE QuietCodes
BY DEF NoteReuse, QuietCodes, TypeOK, CodeType

LEMMA FinishQuiet ==
    ASSUME NEW r \in Requests, TypeOK, Finish(r) PROVE QuietRequests
BY DEF Finish, Idle, QuietRequests, TypeOK, Past

LEMMA UnchangedQuiet ==
    /\ TypeOK /\ UNCHANGED tokens => QuietTokens
    /\ TypeOK /\ UNCHANGED codes => QuietCodes
    /\ TypeOK /\ UNCHANGED req => QuietRequests
    /\ TypeOK /\ UNCHANGED clients => QuietClients
BY DEF QuietTokens, QuietCodes, QuietRequests, QuietClients, Past

LEMMA StartQuiet ==
    ASSUME NEW r \in Requests, NEW f, TypeOK, Start(r, f),
           f.pc \notin {"claim", "supersede", "count", "insert"}
    PROVE  QuietRequests
BY DEF Start, QuietRequests, TypeOK, Past

LEMMA GotoQuiet ==
    ASSUME NEW r \in Requests, NEW pc, TypeOK, Goto(r, pc),
           \/ pc \notin {"claim", "supersede", "count", "insert"}
           \/ Past(r) /\ pc \in {"supersede", "count", "insert"}
    PROVE  QuietRequests
<1>1. ASSUME NEW q \in Requests, q # r PROVE req'[q] = req[q]
  BY <1>1 DEF Goto, TypeOK
<1>2. req'[r] = [req[r] EXCEPT !.pc = pc]
  BY DEF Goto, TypeOK
<1>3. req[r] \in ReqRecord
  BY DEF TypeOK, ReqType
<1> QED BY <1>1, <1>2, <1>3 DEF QuietRequests, Past, ReqRecord

\* Registering or pruning clients disturbs no grant: a client with a token is
\* not pruned.
LEMMA RegistrationGrant ==
    ASSUME NEW r \in Requests, GrantInv, TypeOK', Registration(r)
    PROVE  GrantInv'
<1> USE DEF GrantInv
<1>1. CASE RegisterPrune(r)
  <2> DEFINE S == {cl \in Clients : Registered(cl) /\ Unused(cl)}
  <2>1. DeleteClients(S) /\ Start(r, [Idle EXCEPT !.pc = "register"])
    BY <1>1 DEF RegisterPrune
  <2>2. ASSUME NEW t \in Tokens PROVE tokens[t].client \notin S
    BY DEF Unused
  <2> HIDE DEF S
  <2>3. QuietTokens
    BY <2>1, <2>2 DEF DeleteClients, QuietTokens, TypeOK
  <2>4. QuietCodes
    BY <2>1 DEF DeleteClients, QuietCodes, TypeOK, CodeType, Stored
  <2>5. QuietRequests
    <3>1. [Idle EXCEPT !.pc = "register"].pc = "register"
      BY DEF Idle
    <3> QED BY <2>1, <3>1, StartQuiet
  <2>6. ASSUME NEW t \in Tokens, tokens[t].kind = "oauth"
        PROVE  Registered(tokens[t].client)'
    <3>1. tokens'[t].client = tokens[t].client /\ tokens[t].client \notin S
      BY <2>2, <2>3 DEF QuietTokens
    <3>2. Registered(tokens[t].client)
      BY <2>6 DEF GrantsKeepTheirClient
    <3>3. clients'[tokens[t].client] = clients[tokens[t].client]
      BY <2>1, <3>1, <3>2 DEF Registered, DeleteClients
    <3> QED BY <3>1, <3>2, <3>3 DEF Registered
  <2>7. GrantsKeepTheirClient'
    BY <2>3, <2>6 DEF GrantsKeepTheirClient, QuietTokens
  <2>8. /\ Unborn' /\ RequestsMatchCodes' /\ ClaimUnminted' /\ ClaimExclusive'
        /\ GrantMatchesConsent' /\ CodeSpentOnce'
    BY <2>3, <2>4, <2>5, QuietRest
  <2> QED BY <2>7, <2>8
<1>2. CASE RegisterInsert(r)
  <2>1. QuietClients
    BY <1>2 DEF RegisterInsert, QuietClients, TypeOK
  <2>2. QuietRequests
    BY <1>2, FinishQuiet DEF RegisterInsert
  <2> QED BY <1>2, <2>1, <2>2, UnchangedQuiet, QuietStep DEF RegisterInsert
<1> QED BY <1>1, <1>2 DEF Registration

\* Issuing a code writes a row no token and no claim refers to yet.
LEMMA ConsentGrant ==
    ASSUME NEW r \in Requests, GrantInv, TypeOK', Consent(r)
    PROVE  GrantInv'
<1> USE DEF GrantInv
<1>1. ASSUME NEW u \in Users, NEW cl \in Clients, NEW s \in Scopes, BeginConsent(r, u, cl, s)
      PROVE  GrantInv'
  <2>1. [Idle EXCEPT !.pc = "pruneCodes", !.user = u, !.client = cl, !.scope = s].pc = "pruneCodes"
    BY DEF Idle
  <2>2. QuietRequests
    BY <1>1, <2>1, StartQuiet DEF BeginConsent
  <2> QED BY <1>1, <2>2, UnchangedQuiet, QuietStep DEF BeginConsent
<1>2. CASE ConsentPrune(r)
  <2>1. QuietCodes
    BY <1>2 DEF ConsentPrune, QuietCodes, TypeOK, CodeType, Stored
  <2>2. QuietRequests
    BY <1>2, GotoQuiet DEF ConsentPrune
  <2> QED BY <1>2, <2>1, <2>2, UnchangedQuiet, QuietStep DEF ConsentPrune
<1>3. CASE ConsentInsert(r)
  <2>1. PICK c \in Codes :
           /\ codes[c].row = "none"
           /\ codes' = [codes EXCEPT ![c] =
                [NoCode EXCEPT !.row = "stored", !.client = req[r].client,
                               !.user = req[r].user, !.scope = req[r].scope,
                               !.expires = now + CodeTTL]]
    BY <1>3 DEF ConsentInsert
  <2>2. ASSUME NEW d \in Codes, d # c PROVE codes'[d] = codes[d]
    BY <2>1, <2>2 DEF TypeOK
  <2>3. ASSUME NEW t \in Tokens PROVE tokens[t].code # c
    BY <2>1, NoneAssumption DEF GrantMatchesConsent, Unborn
  <2>4. ASSUME NEW q \in Requests, req[q].pc = "claim" \/ Past(q)
        PROVE  req[q].code \in Codes /\ req[q].code # c
    <3>1. req[q].code \in Codes
      BY <2>4 DEF Past, TypeOK, ReqType, ReqRecord, HasRow, OrNone
    <3> QED BY <2>1, <2>4, <3>1 DEF RequestsMatchCodes, MatchesCode
  <2>5. UNCHANGED <<clients, tokens>> /\ QuietRequests
    BY <1>3, FinishQuiet DEF ConsentInsert
  <2>6. ASSUME NEW q \in Requests, (req[q].pc = "claim" \/ Past(q))'
        PROVE  req'[q] = req[q]
    BY <1>3, <2>6 DEF ConsentInsert, Finish, Idle, Past, TypeOK
  <2>7. RequestsMatchCodes'
    BY <2>2, <2>4, <2>6 DEF RequestsMatchCodes, MatchesCode, Past
  <2>8. ClaimUnminted' /\ ClaimExclusive'
    BY <2>2, <2>4, <2>5, <2>6 DEF ClaimUnminted, ClaimExclusive, Past
  <2>9. GrantMatchesConsent'
    BY <2>2, <2>3, <2>5 DEF GrantMatchesConsent, TypeOK, TokenType, OrNone
  <2> QED BY <2>5, <2>7, <2>8, <2>9 DEF Unborn, CodeSpentOnce, GrantsKeepTheirClient, Registered
<1> QED BY <1>1, <1>2, <1>3 DEF Consent

\* The claim: only one request can have found the code unused.
LEMMA ClaimGrant ==
    ASSUME NEW r \in Requests, GrantInv, TypeOK', ExchangeClaim(r)
    PROVE  GrantInv'
<1> USE DEF GrantInv
<1> DEFINE c == req[r].code
<1>1. c \in Codes
  BY DEF ExchangeClaim, At, TypeOK, ReqType, ReqRecord, HasRow, OrNone
<1>2. UNCHANGED <<clients, tokens>>
  BY DEF ExchangeClaim
<1>3. CASE Stored(c) /\ ~codes[c].used
  <2>1. codes' = [codes EXCEPT ![c].used = TRUE] /\ Goto(r, "supersede")
    BY <1>3 DEF ExchangeClaim
  <2>2. req' = [req EXCEPT ![r].pc = "supersede"] /\ req[r].pc = "claim"
    BY <2>1 DEF Goto, ExchangeClaim, At
  <2>3. ASSUME NEW t \in Tokens PROVE tokens[t].code # c
    BY <1>1, <1>3, NoneAssumption DEF GrantMatchesConsent, Unborn
  <2>4. ASSUME NEW q \in Requests, Past(q) PROVE req[q].code # c
    BY <1>3, <2>4 DEF ClaimUnminted
  <2>5. ASSUME NEW q \in Requests
        PROVE  /\ q # r => req'[q] = req[q]
               /\ req'[q].code = req[q].code
               /\ req'[q].user = req[q].user
               /\ req'[q].client = req[q].client
               /\ req'[q].scope = req[q].scope
    BY <2>2 DEF TypeOK, ReqType, ReqRecord
  <2>6. ASSUME NEW d \in Codes
        PROVE  /\ codes'[d].row = codes[d].row
               /\ codes'[d].user = codes[d].user
               /\ codes'[d].client = codes[d].client
               /\ codes'[d].scope = codes[d].scope
               /\ codes[d].used => codes'[d].used
               /\ codes'[c].used
    BY <1>1, <2>1 DEF TypeOK, CodeType
  <2>7. ASSUME NEW q \in Requests, req[q].pc = "claim" \/ Past(q)
        PROVE  req[q].code \in Codes
    BY <2>7 DEF Past, TypeOK, ReqType, ReqRecord, HasRow, OrNone
  <2>8. RequestsMatchCodes'
    BY <2>2, <2>5, <2>6, <2>7 DEF RequestsMatchCodes, MatchesCode, Past
  <2>9. ClaimUnminted'
    BY <1>1, <1>2, <2>2, <2>3, <2>5, <2>6, <2>7 DEF ClaimUnminted, Past
  <2>10. ClaimExclusive'
    BY <2>4, <2>5 DEF ClaimExclusive, Past
  <2>11. GrantMatchesConsent'
    BY <1>2, <2>6 DEF GrantMatchesConsent, TypeOK, TokenType, OrNone
  <2> QED BY <1>2, <2>8, <2>9, <2>10, <2>11
          DEF Unborn, CodeSpentOnce, GrantsKeepTheirClient, Registered
<1>4. CASE ~(Stored(c) /\ ~codes[c].used)
  <2>1. QuietCodes
    BY <1>4, NoteReuseQuiet, UnchangedQuiet DEF ExchangeClaim
  <2>2. QuietRequests
    BY <1>4, FinishQuiet DEF ExchangeClaim
  <2> QED BY <1>2, <2>1, <2>2, UnchangedQuiet, QuietStep
<1> QED BY <1>3, <1>4

\* The insert: the claim is what makes the new grant the only one of its code.
LEMMA InsertGrant ==
    ASSUME NEW r \in Requests, GrantInv, TypeOK', ExchangeInsert(r)
    PROVE  GrantInv'
<1> USE DEF GrantInv
<1> DEFINE c == req[r].code
<1>1. c \in Codes /\ Past(r) /\ Registered(req[r].client)
  BY DEF ExchangeInsert, At, Past, TypeOK, ReqType, ReqRecord, HasRow, OrNone
<1>2. UNCHANGED <<clients, codes>>
  BY DEF ExchangeInsert
<1>3. PICK t \in Tokens :
         /\ tokens[t].kind = "none"
         /\ tokens' = [tokens EXCEPT ![t] =
                [NoToken EXCEPT !.kind = "oauth", !.user = req[r].user,
                                !.client = req[r].client, !.scope = req[r].scope,
                                !.code = req[r].code,
                                !.refreshExpires = now + RefreshTTL]]
         /\ req' = [req EXCEPT ![r] = [req[r] EXCEPT !.pc = "link", !.token = t]]
  BY DEF ExchangeInsert
<1>4. /\ tokens'[t].kind = "oauth"
      /\ tokens'[t].user = req[r].user
      /\ tokens'[t].client = req[r].client
      /\ tokens'[t].scope = req[r].scope
      /\ tokens'[t].code = c
      /\ ~tokens'[t].revoked
  BY <1>3 DEF NoToken, TypeOK
<1>5. ASSUME NEW u \in Tokens, u # t PROVE tokens'[u] = tokens[u]
  BY <1>3, <1>5 DEF TypeOK
<1>6. ASSUME NEW q \in Requests, (req[q].pc = "claim" \/ Past(q))'
      PROVE  q # r /\ req'[q] = req[q]
  <2>1. req'[r].pc = "link"
    BY <1>3 DEF TypeOK, ReqType, ReqRecord
  <2> QED BY <1>3, <1>6, <2>1 DEF Past, TypeOK
<1>7. Unborn'
  BY <1>4, <1>5 DEF Unborn
<1>8. RequestsMatchCodes'
  BY <1>2, <1>6 DEF RequestsMatchCodes, MatchesCode, Past
<1>9. ClaimUnminted'
  <2> SUFFICES ASSUME NEW q \in Requests, Past(q)'
               PROVE  codes'[req'[q].code].used /\ \A u \in Tokens : tokens'[u].code # req'[q].code
    BY DEF ClaimUnminted
  <2>1. q # r /\ req'[q] = req[q] /\ Past(q)
    BY <1>6 DEF Past
  <2>2. req[q].code # c
    BY <1>1, <2>1 DEF ClaimExclusive
  <2>3. codes[req[q].code].used /\ \A u \in Tokens : tokens[u].code # req[q].code
    BY <2>1 DEF ClaimUnminted
  <2> QED BY <1>2, <1>4, <1>5, <2>1, <2>2, <2>3
<1>10. ClaimExclusive'
  BY <1>6 DEF ClaimExclusive, Past
<1>11. GrantMatchesConsent'
  <2>1. /\ codes[c].row # "none" /\ codes[c].used
        /\ req[r].user = codes[c].user
        /\ req[r].client = codes[c].client
        /\ req[r].scope = codes[c].scope
    BY <1>1 DEF RequestsMatchCodes, MatchesCode, ClaimUnminted
  <2>2. c # None
    BY <1>1, NoneAssumption
  <2> QED BY <1>2, <1>4, <1>5, <2>1, <2>2 DEF GrantMatchesConsent
<1>12. CodeSpentOnce'
  <2>1. \A u \in Tokens : tokens[u].code # c
    BY <1>1 DEF ClaimUnminted
  <2> QED BY <1>4, <1>5, <2>1 DEF CodeSpentOnce
<1>13. GrantsKeepTheirClient'
  BY <1>1, <1>2, <1>4, <1>5 DEF GrantsKeepTheirClient, Registered
<1> QED BY <1>7, <1>8, <1>9, <1>10, <1>11, <1>12, <1>13

\* The other statements of the exchange are quiet, but for the start of one.
LEMMA ExchangeGrant ==
    ASSUME NEW r \in Requests, GrantInv, TypeOK', Exchange(r)
    PROVE  GrantInv'
<1> USE DEF GrantInv
<1>1. ASSUME NEW cl \in Clients, NEW c \in Codes, BeginExchange(r, cl, c)
      PROVE  GrantInv'
  <2>1. req' = [req EXCEPT ![r] =
                  [Idle EXCEPT !.pc = "claim", !.client = cl, !.code = c,
                               !.user = codes[c].user, !.scope = codes[c].scope]]
    BY <1>1 DEF BeginExchange, Start
  <2>2. UNCHANGED <<clients, codes, tokens>> /\ Stored(c) /\ codes[c].client = cl
    BY <1>1 DEF BeginExchange, Redeemable
  <2>3. ASSUME NEW q \in Requests, q # r PROVE req'[q] = req[q]
    BY <2>1, <2>3 DEF TypeOK
  <2>4. req'[r].pc = "claim" /\ MatchesCode(req[r])'
    BY <2>1, <2>2 DEF TypeOK, Idle, MatchesCode, Stored
  <2>5. RequestsMatchCodes'
    BY <2>2, <2>3, <2>4 DEF RequestsMatchCodes, MatchesCode, Past
  <2>6. ClaimUnminted' /\ ClaimExclusive'
    BY <2>2, <2>3, <2>4 DEF ClaimUnminted, ClaimExclusive, Past
  <2> QED BY <2>2, <2>5, <2>6
          DEF Unborn, GrantMatchesConsent, CodeSpentOnce, GrantsKeepTheirClient, Registered
<1>2. ASSUME NEW cl \in Clients, NEW c \in Codes, BeginReuse(r, cl, c)
      PROVE  GrantInv'
  <2>1. [Idle EXCEPT !.pc = "revokeIssued", !.code = c, !.token = codes[c].issued].pc = "revokeIssued"
    BY DEF Idle
  <2>2. QuietRequests
    BY <1>2, <2>1, StartQuiet DEF BeginReuse
  <2> QED BY <1>2, <2>2, UnchangedQuiet, QuietStep DEF BeginReuse
<1>3. CASE RevokeIssued(r)
  BY <1>3, RevokeAllQuiet, NoteReuseQuiet, FinishQuiet, UnchangedQuiet, QuietStep DEF RevokeIssued
<1>4. CASE ExchangeSupersede(r)
  <2>1. Past(r)
    BY <1>4 DEF ExchangeSupersede, At, Past
  <2> QED BY <1>4, <2>1, RevokeAllQuiet, GotoQuiet, UnchangedQuiet, QuietStep DEF ExchangeSupersede
<1>5. CASE ExchangeCount(r)
  <2>1. Past(r)
    BY <1>5 DEF ExchangeCount, At, Past
  <2>2. QuietRequests
    BY <1>5, <2>1, GotoQuiet, FinishQuiet DEF ExchangeCount
  <2> QED BY <1>5, <2>2, UnchangedQuiet, QuietStep DEF ExchangeCount
<1>6. CASE ExchangeLink(r)
  <2>1. QuietCodes
    BY <1>6 DEF ExchangeLink, QuietCodes, TypeOK, CodeType
  <2>2. QuietRequests
    BY <1>6, GotoQuiet DEF ExchangeLink
  <2> QED BY <1>6, <2>1, <2>2, UnchangedQuiet, QuietStep DEF ExchangeLink
<1>7. CASE Respond(r)
  BY <1>7, FinishQuiet, UnchangedQuiet, QuietStep DEF Respond
<1> QED BY <1>1, <1>2, <1>3, <1>4, <1>5, <1>6, <1>7, ClaimGrant, InsertGrant DEF Exchange

\* A refresh changes secrets and expiry only, a revocation only revokedAt.
LEMMA RefreshGrant ==
    ASSUME NEW r \in Requests, GrantInv, TypeOK', Refresh(r)
    PROVE  GrantInv'
<1> USE DEF GrantInv
<1>1. ASSUME NEW cl \in Clients, NEW s \in held, BeginRefresh(r, cl, s)
      PROVE  GrantInv'
  <2>1. [Idle EXCEPT !.pc = "rotate", !.token = s.token, !.gen = s.gen].pc = "rotate"
    BY DEF Idle
  <2>2. QuietRequests
    BY <1>1, <2>1, StartQuiet DEF BeginRefresh
  <2> QED BY <1>1, <2>2, UnchangedQuiet, QuietStep DEF BeginRefresh
<1>2. ASSUME NEW cl \in Clients, NEW s \in held, BeginSpentRefresh(r, cl, s)
      PROVE  GrantInv'
  <2>1. [Idle EXCEPT !.pc = "revokeRotated", !.token = s.token, !.gen = s.gen].pc = "revokeRotated"
    BY DEF Idle
  <2>2. QuietRequests
    BY <1>2, <2>1, StartQuiet DEF BeginSpentRefresh
  <2> QED BY <1>2, <2>2, UnchangedQuiet, QuietStep DEF BeginSpentRefresh
<1>3. CASE RefreshReplay(r)
  <2>1. req[r].token \in Tokens /\ req[r].gen \in Nat
    BY <1>3 DEF RefreshReplay, At, TypeOK, ReqType, ReqRecord, HasRow, OrNone
  <2>2. QuietTokens
    BY <1>3, <2>1 DEF RefreshReplay, QuietTokens, TypeOK, TokenType, Unborn
  <2>3. QuietRequests
    BY <1>3, FinishQuiet DEF RefreshReplay
  <2> QED BY <1>3, <2>2, <2>3, UnchangedQuiet, QuietStep DEF RefreshReplay
<1>4. CASE RefreshRotate(r)
  <2>1. QuietTokens
    <3> DEFINE t == req[r].token
    <3>1. t \in Tokens
      BY <1>4 DEF RefreshRotate, At, TypeOK, ReqType, ReqRecord, HasRow, OrNone
    <3>2. CASE StillCurrent(r)
      <4>1. tokens' = [tokens EXCEPT ![t] =
                  [tokens[t] EXCEPT !.refresh = tokens[t].refresh + 1,
                                    !.previous = req[r].gen,
                                    !.refreshExpires = now + RefreshTTL]]
        BY <1>4, <3>2 DEF RefreshRotate
      <4>2. tokens[t].kind # "none"
        BY <3>2 DEF StillCurrent, Live
      <4> QED BY <3>1, <4>1, <4>2 DEF QuietTokens, TypeOK, TokenType
    <3>3. CASE ~StillCurrent(r)
      <4>1. tokens' = [tokens EXCEPT ![t].replayed =
                  tokens[t].replayed \/ tokens[t].refresh # req[r].gen]
        BY <1>4, <3>3 DEF RefreshRotate
      <4> QED BY <3>1, <4>1 DEF QuietTokens, TypeOK, TokenType
    <3> QED BY <3>2, <3>3
  <2>2. QuietRequests
    <3>1. CASE StillCurrent(r)
      <4>1. req' = [req EXCEPT ![r] = [req[r] EXCEPT !.pc = "respond", !.gen = req[r].gen + 1]]
        BY <1>4, <3>1 DEF RefreshRotate
      <4>2. ASSUME NEW q \in Requests, q # r PROVE req'[q] = req[q]
        BY <4>1, <4>2 DEF TypeOK
      <4>3. req'[r].pc = "respond"
        BY <4>1 DEF TypeOK, ReqType, ReqRecord
      <4> QED BY <4>2, <4>3 DEF QuietRequests, Past
    <3>2. CASE ~StillCurrent(r)
      BY <1>4, <3>2, FinishQuiet DEF RefreshRotate
    <3> QED BY <3>1, <3>2
  <2> QED BY <1>4, <2>1, <2>2, UnchangedQuiet, QuietStep DEF RefreshRotate
<1> QED BY <1>1, <1>2, <1>3, <1>4 DEF Refresh

\* A personal token has no code and no client.
LEMMA PersonalGrant ==
    ASSUME NEW r \in Requests, GrantInv, TypeOK', Personal(r)
    PROVE  GrantInv'
<1> USE DEF GrantInv
<1>1. ASSUME NEW u \in Users, BeginPersonal(r, u)
      PROVE  GrantInv'
  <2>1. [Idle EXCEPT !.pc = "insertPersonal", !.user = u].pc = "insertPersonal"
    BY DEF Idle
  <2>2. QuietRequests
    BY <1>1, <2>1, StartQuiet DEF BeginPersonal
  <2> QED BY <1>1, <2>2, UnchangedQuiet, QuietStep DEF BeginPersonal
<1>2. CASE InsertPersonal(r)
  <2>1. PICK t \in Tokens :
           /\ tokens[t].kind = "none"
           /\ tokens' = [tokens EXCEPT ![t] =
                 [NoToken EXCEPT !.kind = "personal", !.user = req[r].user]]
    BY <1>2 DEF InsertPersonal
  <2>2. /\ tokens'[t].kind = "personal"
        /\ tokens'[t].code = None
        /\ tokens'[t].client = None
    BY <2>1 DEF NoToken, TypeOK
  <2>3. ASSUME NEW u \in Tokens, u # t PROVE tokens'[u] = tokens[u]
    BY <2>1, <2>3 DEF TypeOK
  <2>4. UNCHANGED <<clients, codes>>
    BY <1>2 DEF InsertPersonal
  <2>5. ASSUME NEW q \in Requests, (req[q].pc = "claim" \/ Past(q))'
        PROVE  req'[q] = req[q] /\ req[q].code \in Codes
    BY <1>2, <2>5 DEF InsertPersonal, Finish, Idle, Past, TypeOK, ReqType, ReqRecord, HasRow, OrNone
  <2>6. Unborn'
    BY <2>2, <2>3 DEF Unborn
  <2>7. RequestsMatchCodes'
    BY <2>4, <2>5 DEF RequestsMatchCodes, MatchesCode, Past
  <2>8. ClaimUnminted'
    BY <2>2, <2>3, <2>4, <2>5, NoneAssumption DEF ClaimUnminted, Past
  <2>9. ClaimExclusive'
    BY <2>5 DEF ClaimExclusive, Past
  <2>10. GrantMatchesConsent'
    BY <2>2, <2>3, <2>4 DEF GrantMatchesConsent
  <2>11. CodeSpentOnce'
    BY <2>2, <2>3 DEF CodeSpentOnce
  <2>12. GrantsKeepTheirClient'
    BY <2>2, <2>3, <2>4 DEF GrantsKeepTheirClient, Registered
  <2> QED BY <2>6, <2>7, <2>8, <2>9, <2>10, <2>11, <2>12
<1> QED BY <1>1, <1>2 DEF Personal

LEMMA StepGrant == GrantInv /\ [Next]_vars => GrantInv'
<1> SUFFICES ASSUME GrantInv, [Next]_vars PROVE GrantInv'
  OBVIOUS
<1>1. TypeOK /\ TypeOK'
  BY StepType DEF GrantInv
<1>2. ASSUME NEW r \in Requests, RequestStep(r)
      PROVE  GrantInv'
  <2>1. CASE Abort(r)
    BY <1>1, <2>1, FinishQuiet, UnchangedQuiet, QuietStep DEF Abort
  <2> QED BY <1>1, <1>2, <2>1, RegistrationGrant, ConsentGrant, ExchangeGrant, RefreshGrant, PersonalGrant
          DEF RequestStep
<1>3. ASSUME NEW cl \in Clients, NEW c \in Codes, RefuseReuse(cl, c)
      PROVE  GrantInv'
  BY <1>1, <1>3, NoteReuseQuiet, UnchangedQuiet, QuietStep DEF RefuseReuse
<1>4. ASSUME NEW cl \in Clients, NEW s \in held, ClientRevoke(cl, s)
      PROVE  GrantInv'
  BY <1>1, <1>4, RevokeAllQuiet, UnchangedQuiet, QuietStep DEF ClientRevoke
<1>5. ASSUME NEW t \in Tokens, UserRevoke(t)
      PROVE  GrantInv'
  BY <1>1, <1>5, RevokeAllQuiet, UnchangedQuiet, QuietStep DEF UserRevoke
<1>6. CASE Tick
  BY <1>1, <1>6, UnchangedQuiet, QuietStep DEF Tick
<1>7. CASE UNCHANGED vars
  BY <1>1, <1>7, UnchangedQuiet, QuietStep DEF vars
<1> QED BY <1>2, <1>3, <1>4, <1>5, <1>6, <1>7 DEF Next, RequestStep

LEMMA GrantInvariant == Spec => []GrantInv
<1>1. Init => GrantInv
  BY InitGrant
<1>2. GrantInv /\ [Next]_vars => GrantInv'
  BY StepGrant
<1> QED BY <1>1, <1>2, PTL DEF Spec

\* An authorization code leads to at most one grant (exchange_code's claim).
THEOREM CodesAreSpentOnce == Spec => []CodeSpentOnce
<1>1. GrantInv => CodeSpentOnce
  BY DEF GrantInv
<1> QED BY <1>1, GrantInvariant, PTL

\* Every grant has the user, client and scope some user consented to.
THEOREM GrantsMatchConsent == Spec => []GrantMatchesConsent
<1>1. GrantInv => GrantMatchesConsent
  BY DEF GrantInv
<1> QED BY <1>1, GrantInvariant, PTL

\* prune_unused_clients never removes the client of a grant.
THEOREM ClientsOfGrantsStay == Spec => []GrantsKeepTheirClient
<1>1. GrantInv => GrantsKeepTheirClient
  BY DEF GrantInv
<1> QED BY <1>1, GrantInvariant, PTL

\* Together: what a user approved on the consent screen is what every grant is,
\* for the client it was approved for, which is still registered.
THEOREM ConsentsStand == Spec => []ConsentStands
<1>1. GrantMatchesConsent /\ GrantsKeepTheirClient => ConsentStands
  BY DEF ConsentStands
<1> QED BY <1>1, GrantsMatchConsent, ClientsOfGrantsStay, PTL

---------------------------------------------------------------------------
(* Rotation and revocation.                                                 *)

\* What one step may do to the secrets of a token: nothing, or one rotation of
\* the current secret of a live token.  Only an unborn row is written afresh; a
\* born one keeps its kind, its code and its revocation.
SecretsStep(t) ==
    /\ tokens[t].revoked /\ tokens[t].kind # "none" => tokens'[t].revoked
    /\ tokens[t].kind # "none" => /\ tokens'[t].kind = tokens[t].kind
                                  /\ tokens'[t].code = tokens[t].code
    /\ \/ /\ tokens'[t].refresh = tokens[t].refresh
          /\ tokens'[t].previous = tokens[t].previous
       \/ /\ Live(t)
          /\ tokens'[t].refresh = tokens[t].refresh + 1
          /\ tokens'[t].previous = tokens[t].refresh
       \/ /\ tokens[t].kind = "none"
          /\ tokens'[t].refresh = 0
          /\ tokens'[t].previous = -1

LEMMA RevokeAllSecrets ==
    ASSUME NEW T, NEW t \in Tokens, TypeOK, RevokeAll(T)
    PROVE  SecretsStep(t)
BY DEF RevokeAll, SecretsStep, TypeOK, TokenType

LEMMA StepSecrets ==
    ASSUME TypeOK, [Next]_vars, NEW t \in Tokens
    PROVE  SecretsStep(t)
<1>1. CASE UNCHANGED tokens
  BY <1>1 DEF SecretsStep
<1>2. ASSUME NEW T, RevokeAll(T) PROVE SecretsStep(t)
  BY <1>2, RevokeAllSecrets
<1>3. ASSUME NEW r \in Requests, RegisterPrune(r) PROVE SecretsStep(t)
  BY <1>3 DEF RegisterPrune, DeleteClients, SecretsStep, TypeOK, TokenType
<1>4. ASSUME NEW r \in Requests, ExchangeInsert(r) PROVE SecretsStep(t)
  <2>1. PICK u \in Tokens :
         /\ tokens[u].kind = "none"
         /\ tokens' = [tokens EXCEPT ![u] =
                [NoToken EXCEPT !.kind = "oauth", !.user = req[r].user,
                                !.client = req[r].client, !.scope = req[r].scope,
                                !.code = req[r].code,
                                !.refreshExpires = now + RefreshTTL]]
    BY <1>4 DEF ExchangeInsert
  <2> QED BY <2>1 DEF SecretsStep, NoToken, TypeOK
<1>5. ASSUME NEW r \in Requests, InsertPersonal(r) PROVE SecretsStep(t)
  BY <1>5 DEF InsertPersonal, SecretsStep, NoToken, TypeOK
<1>6. ASSUME NEW r \in Requests, RefreshReplay(r) PROVE SecretsStep(t)
  BY <1>6 DEF RefreshReplay, SecretsStep, TypeOK, TokenType
<1>7. ASSUME NEW r \in Requests, RefreshRotate(r) PROVE SecretsStep(t)
  <2>1. CASE StillCurrent(r)
    <3>1. tokens' = [tokens EXCEPT ![req[r].token] =
                  [tokens[req[r].token] EXCEPT !.refresh = tokens[req[r].token].refresh + 1,
                                               !.previous = req[r].gen,
                                               !.refreshExpires = now + RefreshTTL]]
      BY <1>7, <2>1 DEF RefreshRotate
    <3> QED BY <2>1, <3>1 DEF StillCurrent, Live, SecretsStep, TypeOK, TokenType
  <2>2. CASE ~StillCurrent(r)
    <3>1. tokens' = [tokens EXCEPT ![req[r].token].replayed =
             tokens[req[r].token].replayed \/ tokens[req[r].token].refresh # req[r].gen]
      BY <1>7, <2>2 DEF RefreshRotate
    <3> QED BY <3>1 DEF SecretsStep, TypeOK, TokenType
  <2> QED BY <2>1, <2>2
<1>8. CASE Next
  <2>1. CASE \E r \in Requests : RequestStep(r)
    <3>1. PICK r \in Requests : RequestStep(r)
      BY <2>1
    <3>2. CASE Registration(r)
      BY <1>1, <1>3, <3>2 DEF Registration, RegisterInsert
    <3>3. CASE Consent(r)
      BY <1>1, <3>3 DEF Consent, BeginConsent, ConsentPrune, ConsentInsert
    <3>4. CASE Exchange(r)
      BY <1>1, <1>2, <1>4, <3>4 DEF Exchange, BeginExchange, BeginReuse, RevokeIssued, ExchangeClaim,
         ExchangeSupersede, ExchangeCount, ExchangeLink, Respond
    <3>5. CASE Refresh(r)
      BY <1>1, <1>6, <1>7, <3>5 DEF Refresh, BeginRefresh, BeginSpentRefresh
    <3>6. CASE Personal(r)
      BY <1>1, <1>5, <3>6 DEF Personal, BeginPersonal
    <3>7. CASE Abort(r)
      BY <1>1, <3>7 DEF Abort
    <3> QED BY <3>1, <3>2, <3>3, <3>4, <3>5, <3>6, <3>7 DEF RequestStep
  <2>2. CASE \E cl \in Clients, c \in Codes : RefuseReuse(cl, c)
    BY <1>1, <2>2 DEF RefuseReuse
  <2>3. CASE \E cl \in Clients, s \in held : ClientRevoke(cl, s)
    BY <1>2, <2>3 DEF ClientRevoke
  <2>4. CASE \E u \in Tokens : UserRevoke(u)
    BY <1>2, <2>4 DEF UserRevoke
  <2>5. CASE Tick
    BY <1>1, <2>5 DEF Tick
  <2> QED BY <1>8, <2>1, <2>2, <2>3, <2>4, <2>5 DEF Next, RequestStep
<1> QED BY <1>1, <1>8 DEF vars

\* However refreshes overlap, each rotation replaces the secret that was current
\* (the WHERE of refresh's UPDATE).
THEOREM RotationsAreSequential == Spec => []RotationIsSequential
<1>1. Init => RotationIsSequential
  BY DEF Init, RotationIsSequential, NoToken
<1>2. TypeOK /\ RotationIsSequential /\ [Next]_vars => RotationIsSequential'
  <2> SUFFICES ASSUME TypeOK, RotationIsSequential, [Next]_vars, NEW t \in Tokens
               PROVE  tokens'[t].previous = tokens'[t].refresh - 1
    BY DEF RotationIsSequential
  <2>1. SecretsStep(t)
    BY StepSecrets
  <2>2. tokens[t].refresh \in Nat /\ tokens[t].previous = tokens[t].refresh - 1
    BY DEF TypeOK, TokenType, RotationIsSequential
  <2> QED BY <2>1, <2>2 DEF SecretsStep
<1> QED BY <1>1, <1>2, TypeCorrect, PTL DEF Spec

\* A revoked token stays revoked and its secrets are never replaced again.
THEOREM RevocationIsFinal == Spec => RevokedIsFinal
<1>1. GrantInv /\ [Next]_vars =>
         [\A t \in Tokens : tokens[t].revoked =>
              tokens'[t].revoked /\ tokens'[t].refresh = tokens[t].refresh]_vars
  <2> SUFFICES ASSUME GrantInv, [Next]_vars, NEW t \in Tokens, tokens[t].revoked
               PROVE  tokens'[t].revoked /\ tokens'[t].refresh = tokens[t].refresh
    OBVIOUS
  <2>1. tokens[t].kind # "none"
    BY DEF GrantInv, Unborn
  <2>2. SecretsStep(t)
    BY StepSecrets DEF GrantInv
  <2> QED BY <2>1, <2>2 DEF SecretsStep, Live
<1> QED BY <1>1, GrantInvariant, PTL DEF Spec, RevokedIsFinal

---------------------------------------------------------------------------
(***************************************************************************)
(* Reuse of a code whose grant was delivered.  The secrets of a grant are  *)
(* handed out only after ExchangeLink recorded the grant at its code, so   *)
(* while the code is on file a replayer's request finds the row to revoke: *)
(* what is still ahead of the link cannot have been delivered.             *)
(***************************************************************************)

\* Some response has delivered a secret of t, or some handler is about to.
Handed(t) ==
    \/ \E s \in held : s.token = t
    \/ \E r \in Requests : req[r].pc \in {"respond", "rotate", "revokeRotated"} /\ req[r].token = t

HandedAreGrants == \A t \in Tokens : Handed(t) => tokens[t].kind = "oauth"

HandedAreLinked ==
    \A t \in Tokens : Handed(t) /\ Stored(tokens[t].code) => codes[tokens[t].code].issued = t

LinksMatch ==
    \A r \in Requests :
        /\ req[r].pc = "link" => /\ tokens[req[r].token].kind = "oauth"
                                 /\ tokens[req[r].token].code = req[r].code
        /\ req[r].pc = "revokeIssued" => tokens[req[r].token].code = req[r].code

IssuedMatch == \A c \in Codes : codes[c].issued # None => tokens[codes[c].issued].code = c

LateIsRevoked ==
    \A c \in Codes : codes[c].replay = "late" =>
        \E t \in Tokens : tokens[t].code = c /\ tokens[t].revoked

DeliveryInv ==
    /\ HandedAreGrants
    /\ HandedAreLinked
    /\ LinksMatch
    /\ IssuedMatch
    /\ LateIsRevoked

\* A step is calm when it delivers nothing new, links no code, brings no code
\* back and notes no late reuse.
CalmCodes ==
    \A c \in Codes : /\ codes'[c].issued = codes[c].issued
                     /\ Stored(c)' => Stored(c)
                     /\ codes'[c].replay = "late" => codes[c].replay = "late"

CalmRequests ==
    \A r \in Requests :
        /\ req'[r].pc \in {"link", "revokeIssued"} => req'[r] = req[r]
        /\ req'[r].pc \in {"respond", "rotate", "revokeRotated"} => Handed(req'[r].token)

CalmHeld == \A s \in held' : Handed(s.token)

BornTokens ==
    \A t \in Tokens : tokens[t].kind # "none" =>
        /\ tokens'[t].kind = tokens[t].kind
        /\ tokens'[t].code = tokens[t].code
        /\ tokens[t].revoked => tokens'[t].revoked

LEMMA StepBorn ==
    ASSUME TypeOK, [Next]_vars
    PROVE  BornTokens
BY StepSecrets DEF BornTokens, SecretsStep

\* A token with a code is a row.
LEMMA CodedAreBorn ==
    ASSUME GrantInv, NEW t \in Tokens, tokens[t].code \in Codes
    PROVE  tokens[t].kind # "none"
BY NoneAssumption DEF GrantInv, Unborn

LEMMA CalmHanded ==
    ASSUME CalmRequests, CalmHeld, NEW t \in Tokens, Handed(t)'
    PROVE  Handed(t)
BY DEF CalmRequests, CalmHeld, Handed

\* The parts of DeliveryInv, each with the frame it needs.
LEMMA HandedStep ==
    ASSUME GrantInv, DeliveryInv, BornTokens, CalmRequests, CalmHeld
    PROVE  HandedAreGrants'
BY CalmHanded DEF DeliveryInv, HandedAreGrants, BornTokens

LEMMA LinkedStep ==
    ASSUME GrantInv, DeliveryInv, BornTokens, CalmCodes, CalmRequests, CalmHeld
    PROVE  HandedAreLinked'
<1> SUFFICES ASSUME NEW t \in Tokens, Handed(t)', Stored(tokens[t].code)'
             PROVE  codes'[tokens'[t].code].issued = t
  BY DEF HandedAreLinked
<1>1. Handed(t) /\ tokens[t].kind = "oauth"
  BY CalmHanded DEF DeliveryInv, HandedAreGrants
<1>2. tokens'[t].code = tokens[t].code /\ tokens[t].code \in Codes
  BY <1>1 DEF BornTokens, GrantInv, GrantMatchesConsent, TypeOK, TokenType, OrNone
<1>3. Stored(tokens[t].code) /\ codes'[tokens[t].code].issued = codes[tokens[t].code].issued
  BY <1>2 DEF CalmCodes, Stored
<1> QED BY <1>1, <1>2, <1>3 DEF DeliveryInv, HandedAreLinked

LEMMA LinksStep ==
    ASSUME GrantInv, DeliveryInv, BornTokens, NEW r \in Requests, req'[r] = req[r]
    PROVE  /\ req'[r].pc = "link" => /\ tokens'[req'[r].token].kind = "oauth"
                                     /\ tokens'[req'[r].token].code = req'[r].code
           /\ req'[r].pc = "revokeIssued" => tokens'[req'[r].token].code = req'[r].code
<1>1. req[r].pc \in {"link", "revokeIssued"} => req[r].token \in Tokens /\ req[r].code \in Codes
  BY DEF GrantInv, TypeOK, ReqType, ReqRecord, HasRow, OrNone
<1> QED BY <1>1, CodedAreBorn DEF DeliveryInv, LinksMatch, BornTokens

LEMMA IssuedStep ==
    ASSUME GrantInv, DeliveryInv, BornTokens, NEW c \in Codes,
           codes'[c].issued = codes[c].issued
    PROVE  codes'[c].issued # None => tokens'[codes'[c].issued].code = c
<1> SUFFICES ASSUME codes[c].issued # None PROVE tokens'[codes[c].issued].code = c
  OBVIOUS
<1>1. codes[c].issued \in Tokens /\ tokens[codes[c].issued].code = c
  BY DEF GrantInv, TypeOK, CodeType, OrNone, DeliveryInv, IssuedMatch
<1> QED BY <1>1, CodedAreBorn DEF BornTokens

LEMMA LateStep ==
    ASSUME GrantInv, DeliveryInv, BornTokens, NEW c \in Codes, codes[c].replay = "late"
    PROVE  \E t \in Tokens : tokens'[t].code = c /\ tokens'[t].revoked
<1>1. PICK t \in Tokens : tokens[t].code = c /\ tokens[t].revoked
  BY DEF DeliveryInv, LateIsRevoked
<1> QED BY <1>1, CodedAreBorn DEF BornTokens

LEMMA CalmStep ==
    ASSUME GrantInv, DeliveryInv, BornTokens, CalmCodes, CalmRequests, CalmHeld
    PROVE  DeliveryInv'
<1>1. LinksMatch'
  BY LinksStep DEF LinksMatch, CalmRequests
<1>2. IssuedMatch'
  BY IssuedStep DEF IssuedMatch, CalmCodes
<1>3. LateIsRevoked'
  BY LateStep DEF LateIsRevoked, CalmCodes
<1> QED BY <1>1, <1>2, <1>3, HandedStep, LinkedStep DEF DeliveryInv

LEMMA UnchangedCalm ==
    /\ UNCHANGED codes => CalmCodes
    /\ UNCHANGED req => CalmRequests
    /\ TypeOK /\ UNCHANGED held => CalmHeld
<1>1. UNCHANGED codes => CalmCodes
  BY DEF CalmCodes, Stored
<1>2. UNCHANGED req => CalmRequests
  BY DEF CalmRequests, Handed
<1>3. UNCHANGED held /\ TypeOK => CalmHeld
  BY DEF CalmHeld, Handed
<1> QED BY <1>1, <1>2, <1>3

\* A request that goes on at pc with its token already handed out, or at a pc
\* that hands out nothing.
LEMMA MoveCalm ==
    ASSUME NEW r \in Requests, NEW q, TypeOK, req' = [req EXCEPT ![r] = q],
           q.pc \notin {"link", "revokeIssued"},
           q.pc \in {"respond", "rotate", "revokeRotated"} => Handed(q.token)
    PROVE  CalmRequests
<1>1. ASSUME NEW x \in Requests, x # r PROVE req'[x] = req[x]
  BY <1>1 DEF TypeOK
<1>2. req'[r] = q
  BY DEF TypeOK
<1>3. ASSUME NEW x \in Requests, req[x].pc \in {"respond", "rotate", "revokeRotated"}
      PROVE  Handed(req[x].token)
  BY <1>3 DEF Handed
<1> QED BY <1>1, <1>2, <1>3 DEF CalmRequests

LEMMA FinishCalm ==
    ASSUME NEW r \in Requests, TypeOK, Finish(r)
    PROVE  CalmRequests
BY MoveCalm DEF Finish, Idle

LEMMA GotoCalm ==
    ASSUME NEW r \in Requests, NEW pc, TypeOK, Goto(r, pc),
           pc \notin {"link", "revokeIssued", "respond", "rotate", "revokeRotated"}
    PROVE  CalmRequests
<1>1. req' = [req EXCEPT ![r] = [req[r] EXCEPT !.pc = pc]]
  BY DEF Goto
<1>2. [req[r] EXCEPT !.pc = pc].pc = pc
  BY DEF TypeOK, ReqType, ReqRecord
<1> QED BY <1>1, <1>2, MoveCalm

LEMMA StartCalm ==
    ASSUME NEW r \in Requests, NEW q, TypeOK, Start(r, q),
           q.pc \notin {"link", "revokeIssued"},
           q.pc \in {"respond", "rotate", "revokeRotated"} => Handed(q.token)
    PROVE  CalmRequests
BY MoveCalm DEF Start

\* Noting a reuse that came before the delivery.
LEMMA EarlyCalm ==
    ASSUME NEW c, TypeOK, NoteReuse(c, "early")
    PROVE  CalmCodes
BY DEF NoteReuse, CalmCodes, Stored, TypeOK, CodeType

\* Registration, consent up to its insert and the personal tokens.
LEMMA ConsentDelivery ==
    ASSUME GrantInv, DeliveryInv, BornTokens, NEW r \in Requests,
           Registration(r) \/ Consent(r) \/ Personal(r) \/ Abort(r)
    PROVE  DeliveryInv'
<1>0. TypeOK
  BY DEF GrantInv
<1>1. CASE RegisterPrune(r)
  <2>1. [Idle EXCEPT !.pc = "register"].pc = "register"
    BY DEF Idle
  <2>2. CalmRequests
    BY <1>0, <1>1, <2>1, StartCalm DEF RegisterPrune
  <2>3. CalmCodes
    BY <1>0, <1>1 DEF RegisterPrune, DeleteClients, CalmCodes, Stored, TypeOK, CodeType
  <2> QED BY <1>0, <1>1, <2>2, <2>3, UnchangedCalm, CalmStep DEF RegisterPrune
<1>2. CASE RegisterInsert(r) \/ InsertPersonal(r) \/ Abort(r)
  BY <1>0, <1>2, FinishCalm, UnchangedCalm, CalmStep DEF RegisterInsert, InsertPersonal, Abort
<1>3. ASSUME NEW u \in Users, NEW cl \in Clients, NEW s \in Scopes, BeginConsent(r, u, cl, s)
      PROVE  DeliveryInv'
  <2>1. [Idle EXCEPT !.pc = "pruneCodes", !.user = u, !.client = cl, !.scope = s].pc = "pruneCodes"
    BY DEF Idle
  <2> QED BY <1>0, <1>3, <2>1, StartCalm, UnchangedCalm, CalmStep DEF BeginConsent
<1>4. CASE ConsentPrune(r)
  <2>1. CalmCodes
    BY <1>0, <1>4 DEF ConsentPrune, CalmCodes, Stored, TypeOK, CodeType
  <2> QED BY <1>0, <1>4, <2>1, GotoCalm, UnchangedCalm, CalmStep DEF ConsentPrune
<1>5. ASSUME NEW u \in Users, BeginPersonal(r, u) PROVE DeliveryInv'
  <2>1. [Idle EXCEPT !.pc = "insertPersonal", !.user = u].pc = "insertPersonal"
    BY DEF Idle
  <2> QED BY <1>0, <1>5, <2>1, StartCalm, UnchangedCalm, CalmStep DEF BeginPersonal
<1>6. CASE ConsentInsert(r)
  <2>1. PICK c \in Codes :
           /\ codes[c].row = "none"
           /\ codes' = [codes EXCEPT ![c] =
                [NoCode EXCEPT !.row = "stored", !.client = req[r].client,
                               !.user = req[r].user, !.scope = req[r].scope,
                               !.expires = now + CodeTTL]]
    BY <1>6 DEF ConsentInsert
  <2>2. codes'[c].issued = None /\ codes'[c].replay = "none"
    BY <1>0, <2>1 DEF NoCode, TypeOK
  <2>3. ASSUME NEW d \in Codes, d # c PROVE codes'[d] = codes[d]
    BY <1>0, <2>1, <2>3 DEF TypeOK
  <2>4. ASSUME NEW t \in Tokens, tokens[t].kind = "oauth"
        PROVE  tokens[t].code \in Codes /\ tokens[t].code # c
    BY <1>0, <2>1, <2>4 DEF GrantInv, GrantMatchesConsent, TypeOK, TokenType, OrNone
  <2>5. UNCHANGED <<tokens, held>> /\ CalmRequests /\ CalmHeld
    BY <1>0, <1>6, FinishCalm, UnchangedCalm DEF ConsentInsert
  <2>6. HandedAreLinked'
    BY <2>3, <2>4, <2>5, CalmHanded DEF DeliveryInv, HandedAreGrants, HandedAreLinked, Stored
  <2>7. LinksMatch'
    BY <2>5, LinksStep DEF LinksMatch, CalmRequests
  <2>8. IssuedMatch'
    BY <2>2, <2>3, IssuedStep DEF IssuedMatch
  <2>9. LateIsRevoked'
    BY <2>2, <2>3, LateStep DEF LateIsRevoked
  <2> QED BY <2>5, <2>6, <2>7, <2>8, <2>9, HandedStep DEF DeliveryInv
<1> QED BY <1>1, <1>2, <1>3, <1>4, <1>5, <1>6 DEF Registration, Consent, Personal

\* A reuse is late only when the grant was delivered, and then the row the
\* request revokes is that grant.
LEMMA ReuseDelivery ==
    ASSUME GrantInv, DeliveryInv, BornTokens, NEW c \in Codes,
           NoteReuse(c, Reuse(c)), CalmRequests, CalmHeld,
           \E t \in Tokens : tokens[t].code = c /\ (Handed(t) /\ Stored(c) => tokens'[t].revoked)
    PROVE  DeliveryInv'
<1>1. TypeOK
  BY DEF GrantInv
<1>2. ASSUME NEW d \in Codes
      PROVE  codes'[d].issued = codes[d].issued /\ codes'[d].row = codes[d].row
  BY <1>1 DEF NoteReuse, TypeOK, CodeType
<1>3. HandedAreLinked'
  <2> SUFFICES ASSUME NEW t \in Tokens, Handed(t)', Stored(tokens[t].code)'
               PROVE  codes'[tokens'[t].code].issued = t
    BY DEF HandedAreLinked
  <2>1. Handed(t) /\ tokens[t].kind = "oauth"
    BY CalmHanded DEF DeliveryInv, HandedAreGrants
  <2>2. tokens'[t].code = tokens[t].code /\ tokens[t].code \in Codes
    BY <2>1 DEF BornTokens, GrantInv, GrantMatchesConsent, TypeOK, TokenType, OrNone
  <2> QED BY <1>2, <2>1, <2>2 DEF DeliveryInv, HandedAreLinked, Stored
<1>4. LinksMatch'
  BY LinksStep DEF LinksMatch, CalmRequests
<1>5. IssuedMatch'
  BY <1>2, IssuedStep DEF IssuedMatch
<1>6. ASSUME NEW d \in Codes, codes'[d].replay = "late"
      PROVE  \E t \in Tokens : tokens'[t].code = d /\ tokens'[t].revoked
  <2>1. CASE codes[d].replay = "late"
    BY <2>1, LateStep
  <2>2. CASE codes[d].replay # "late"
    <3>1. d = c /\ Reuse(c) = "late"
      BY <1>1, <1>6, <2>2 DEF NoteReuse, TypeOK, CodeType
    <3>2. Stored(c) /\ DeliveredGrant(c)
      BY <3>1 DEF Reuse
    <3>3. PICK s \in held : tokens[s.token].code = c
      BY <3>2 DEF DeliveredGrant
    <3>4. s.token \in Tokens /\ Handed(s.token)
      BY <1>1 DEF TypeOK, Handed
    <3>5. PICK t \in Tokens : tokens[t].code = c /\ (Handed(t) /\ Stored(c) => tokens'[t].revoked)
      OBVIOUS
    <3>6. t = s.token
      BY <3>3, <3>4, <3>5, NoneAssumption DEF GrantInv, CodeSpentOnce
    <3>7. tokens'[t].revoked /\ tokens'[t].code = c
      BY <3>2, <3>4, <3>5, <3>6, CodedAreBorn DEF BornTokens
    <3> QED BY <3>1, <3>7
  <2> QED BY <2>1, <2>2
<1>7. LateIsRevoked'
  BY <1>6 DEF LateIsRevoked
<1> QED BY <1>3, <1>4, <1>5, <1>7, HandedStep DEF DeliveryInv

\* A refused reuse revokes nothing, and nothing of its code was delivered.
LEMMA RefusedDelivery ==
    ASSUME GrantInv, DeliveryInv, BornTokens, NEW cl \in Clients, NEW c \in Codes, RefuseReuse(cl, c)
    PROVE  DeliveryInv'
<1>1. TypeOK /\ UNCHANGED <<tokens, held, req>> /\ NoteReuse(c, Reuse(c))
  BY DEF GrantInv, RefuseReuse
<1>2. CASE \E t \in Tokens : tokens[t].code = c
  <2>1. PICK t \in Tokens : tokens[t].code = c
    BY <1>2
  <2>2. ~(Handed(t) /\ Stored(c))
    BY <2>1, NoneAssumption DEF RefuseReuse, Stored, DeliveryInv, HandedAreLinked
  <2> QED BY <1>1, <2>1, <2>2, UnchangedCalm, ReuseDelivery
<1>3. CASE ~\E t \in Tokens : tokens[t].code = c
  <2>1. ~DeliveredGrant(c)
    BY <1>1, <1>3 DEF DeliveredGrant, TypeOK
  <2>2. NoteReuse(c, "early")
    BY <1>1, <2>1 DEF Reuse
  <2> QED BY <1>1, <2>2, EarlyCalm, UnchangedCalm, CalmStep
<1> QED BY <1>2, <1>3

\* ExchangeLink records the grant at its code before anything is delivered.
LEMMA LinkDelivery ==
    ASSUME GrantInv, DeliveryInv, BornTokens, NEW r \in Requests, ExchangeLink(r)
    PROVE  DeliveryInv'
<1> DEFINE c == req[r].code
           t == req[r].token
<1>1. TypeOK /\ UNCHANGED <<tokens, held>>
  BY DEF GrantInv, ExchangeLink
<1>2. /\ c \in Codes /\ t \in Tokens
      /\ tokens[t].kind = "oauth" /\ tokens[t].code = c
  BY <1>1 DEF ExchangeLink, At, TypeOK, ReqType, ReqRecord, HasRow, OrNone, DeliveryInv, LinksMatch
<1>3. codes' = [codes EXCEPT ![c].issued = IF Stored(c) THEN t ELSE @]
  BY DEF ExchangeLink
<1>4. ASSUME NEW d \in Codes
      PROVE  /\ codes'[d].row = codes[d].row /\ codes'[d].replay = codes[d].replay
             /\ ~(d = c /\ Stored(c)) => codes'[d].issued = codes[d].issued
             /\ d = c /\ Stored(c) => codes'[d].issued = t
  BY <1>1, <1>2, <1>3 DEF TypeOK, CodeType
<1>5. req' = [req EXCEPT ![r] = [req[r] EXCEPT !.pc = "respond"]]
  BY DEF ExchangeLink, Goto
<1>6. ASSUME NEW q \in Requests, q # r PROVE req'[q] = req[q]
  BY <1>1, <1>5, <1>6 DEF TypeOK
<1>7. req'[r].pc = "respond" /\ req'[r].token = t
  BY <1>1, <1>5 DEF TypeOK, ReqType, ReqRecord
<1>8. ASSUME NEW u \in Tokens, Handed(u)' PROVE u = t \/ Handed(u)
  BY <1>1, <1>6, <1>7, <1>8 DEF Handed
<1>9. HandedAreGrants'
  BY <1>1, <1>2, <1>8 DEF DeliveryInv, HandedAreGrants
<1>10. HandedAreLinked'
  <2> SUFFICES ASSUME NEW u \in Tokens, Handed(u)', Stored(tokens[u].code)'
               PROVE  codes'[tokens[u].code].issued = u
    BY <1>1 DEF HandedAreLinked
  <2>1. tokens[u].kind = "oauth"
    BY <1>1, <1>9 DEF HandedAreGrants
  <2>2. tokens[u].code \in Codes /\ tokens[u].code # None
    BY <1>1, <2>1 DEF GrantInv, GrantMatchesConsent, TypeOK, TokenType, OrNone
  <2>3. Stored(tokens[u].code)
    BY <1>1, <1>4, <2>2 DEF Stored
  <2>4. CASE u = t
    BY <1>2, <1>4, <2>3, <2>4
  <2>5. CASE u # t
    <3>1. tokens[u].code # c
      BY <1>2, <2>2, <2>5 DEF GrantInv, CodeSpentOnce
    <3> QED BY <1>4, <1>8, <2>2, <2>3, <2>5, <3>1 DEF DeliveryInv, HandedAreLinked
  <2> QED BY <2>4, <2>5
<1>11. LinksMatch'
  BY <1>1, <1>6, <1>7 DEF DeliveryInv, LinksMatch
<1>12. IssuedMatch'
  BY <1>1, <1>2, <1>4 DEF DeliveryInv, IssuedMatch
<1>13. LateIsRevoked'
  BY <1>1, <1>4 DEF DeliveryInv, LateIsRevoked
<1> QED BY <1>9, <1>10, <1>11, <1>12, <1>13 DEF DeliveryInv

LEMMA MintDelivery ==
    ASSUME GrantInv, DeliveryInv, BornTokens, NEW r \in Requests, ExchangeInsert(r)
    PROVE  DeliveryInv'
<1>1. TypeOK /\ UNCHANGED <<codes, held>>
  BY DEF GrantInv, ExchangeInsert
<1>2. PICK t \in Tokens :
         /\ tokens[t].kind = "none"
         /\ tokens' = [tokens EXCEPT ![t] =
                [NoToken EXCEPT !.kind = "oauth", !.user = req[r].user,
                                !.client = req[r].client, !.scope = req[r].scope,
                                !.code = req[r].code,
                                !.refreshExpires = now + RefreshTTL]]
         /\ req' = [req EXCEPT ![r] = [req[r] EXCEPT !.pc = "link", !.token = t]]
  BY DEF ExchangeInsert
<1>3. tokens'[t].kind = "oauth" /\ tokens'[t].code = req[r].code
  BY <1>1, <1>2 DEF NoToken, TypeOK
<1>4. ASSUME NEW q \in Requests, q # r PROVE req'[q] = req[q]
  BY <1>1, <1>2, <1>4 DEF TypeOK
<1>5. req'[r].pc = "link" /\ req'[r].token = t /\ req'[r].code = req[r].code
  BY <1>1, <1>2 DEF TypeOK, ReqType, ReqRecord
<1>6. ASSUME NEW u \in Tokens, Handed(u)' PROVE Handed(u)
  BY <1>1, <1>4, <1>5, <1>6 DEF Handed
<1>7. HandedAreGrants'
  BY <1>6 DEF DeliveryInv, HandedAreGrants, BornTokens
<1>8. HandedAreLinked'
  BY <1>1, <1>6 DEF DeliveryInv, HandedAreGrants, HandedAreLinked, BornTokens, Stored
<1>9. ASSUME NEW q \in Requests
      PROVE  /\ req'[q].pc = "link" => /\ tokens'[req'[q].token].kind = "oauth"
                                       /\ tokens'[req'[q].token].code = req'[q].code
             /\ req'[q].pc = "revokeIssued" => tokens'[req'[q].token].code = req'[q].code
  <2>1. CASE q = r
    BY <1>3, <1>5, <2>1
  <2>2. CASE q # r
    BY <1>4, <2>2, LinksStep
  <2> QED BY <2>1, <2>2
<1>10. LinksMatch'
  BY <1>9 DEF LinksMatch
<1>11. IssuedMatch'
  BY <1>1, IssuedStep DEF IssuedMatch
<1>12. LateIsRevoked'
  BY <1>1, LateStep DEF LateIsRevoked
<1> QED BY <1>7, <1>8, <1>10, <1>11, <1>12 DEF DeliveryInv

LEMMA ExchangeDelivery ==
    ASSUME GrantInv, DeliveryInv, BornTokens, NEW r \in Requests, Exchange(r)
    PROVE  DeliveryInv'
<1>0. TypeOK
  BY DEF GrantInv
<1>1. ASSUME NEW cl \in Clients, NEW c \in Codes, BeginExchange(r, cl, c)
      PROVE  DeliveryInv'
  <2>1. [Idle EXCEPT !.pc = "claim", !.client = cl, !.code = c,
                     !.user = codes[c].user, !.scope = codes[c].scope].pc = "claim"
    BY DEF Idle
  <2> QED BY <1>0, <1>1, <2>1, StartCalm, UnchangedCalm, CalmStep DEF BeginExchange
<1>2. ASSUME NEW cl \in Clients, NEW c \in Codes, BeginReuse(r, cl, c)
      PROVE  DeliveryInv'
  <2>1. UNCHANGED <<codes, tokens, held>> /\ codes[c].issued # None
    BY <1>2 DEF BeginReuse
  <2>2. req' = [req EXCEPT ![r] = [Idle EXCEPT !.pc = "revokeIssued", !.code = c,
                                               !.token = codes[c].issued]]
    BY <1>2 DEF BeginReuse, Start
  <2>3. ASSUME NEW q \in Requests, q # r PROVE req'[q] = req[q]
    BY <1>0, <2>2, <2>3 DEF TypeOK
  <2>4. req'[r].pc = "revokeIssued" /\ req'[r].code = c /\ req'[r].token = codes[c].issued
    BY <1>0, <2>2 DEF TypeOK, Idle
  <2>5. ASSUME NEW u \in Tokens, Handed(u)' PROVE Handed(u)
    BY <2>1, <2>3, <2>4, <2>5 DEF Handed
  <2>6. LinksMatch'
    BY <2>1, <2>3, <2>4 DEF DeliveryInv, LinksMatch, IssuedMatch
  <2>7. HandedAreGrants' /\ HandedAreLinked'
    BY <2>1, <2>5 DEF DeliveryInv, HandedAreGrants, HandedAreLinked, Stored
  <2>8. IssuedMatch' /\ LateIsRevoked'
    BY <2>1 DEF DeliveryInv, IssuedMatch, LateIsRevoked
  <2> QED BY <2>6, <2>7, <2>8 DEF DeliveryInv
<1>3. CASE RevokeIssued(r)
  <2> DEFINE c == req[r].code
             t == req[r].token
  <2>1. c \in Codes /\ t \in Tokens /\ tokens[t].code = c
    BY <1>0, <1>3 DEF RevokeIssued, At, TypeOK, ReqType, ReqRecord, HasRow, OrNone, DeliveryInv, LinksMatch
  <2>2. tokens'[t].revoked
    BY <1>0, <1>3, <2>1, CodedAreBorn DEF RevokeIssued, RevokeAll, Live, TypeOK, TokenType
  <2>3. CalmRequests /\ CalmHeld /\ NoteReuse(c, Reuse(c))
    BY <1>0, <1>3, FinishCalm, UnchangedCalm DEF RevokeIssued
  <2> HIDE DEF c, t
  <2> QED BY <2>1, <2>2, <2>3, ReuseDelivery
<1>4. CASE ExchangeClaim(r)
  <2> DEFINE c == req[r].code
  <2>1. CalmCodes
    <3>1. CASE codes' = [codes EXCEPT ![c].used = TRUE]
      BY <1>0, <3>1 DEF CalmCodes, Stored, TypeOK, CodeType
    <3>2. CASE NoteReuse(c, "early")
      BY <1>0, <3>2, EarlyCalm
    <3> QED BY <1>4, <3>1, <3>2, UnchangedCalm DEF ExchangeClaim
  <2>2. CalmRequests
    BY <1>0, <1>4, GotoCalm, FinishCalm DEF ExchangeClaim
  <2> QED BY <1>0, <1>4, <2>1, <2>2, UnchangedCalm, CalmStep DEF ExchangeClaim
<1>5. CASE ExchangeSupersede(r)
  BY <1>0, <1>5, GotoCalm, UnchangedCalm, CalmStep DEF ExchangeSupersede
<1>6. CASE ExchangeCount(r)
  <2>1. CalmRequests
    BY <1>0, <1>6, GotoCalm, FinishCalm DEF ExchangeCount
  <2> QED BY <1>0, <1>6, <2>1, UnchangedCalm, CalmStep DEF ExchangeCount
<1>7. CASE Respond(r)
  <2>1. CalmHeld
    BY <1>0, <1>7 DEF Respond, At, CalmHeld, Handed
  <2> QED BY <1>0, <1>7, <2>1, FinishCalm, UnchangedCalm, CalmStep DEF Respond
<1> QED BY <1>1, <1>2, <1>3, <1>4, <1>5, <1>6, <1>7, LinkDelivery, MintDelivery DEF Exchange

\* A refresh only goes on with a token whose secret the client presented.
LEMMA RefreshDelivery ==
    ASSUME GrantInv, DeliveryInv, BornTokens, NEW r \in Requests, Refresh(r)
    PROVE  DeliveryInv'
<1>0. TypeOK
  BY DEF GrantInv
<1>1. ASSUME NEW cl \in Clients, NEW s \in held, BeginRefresh(r, cl, s)
      PROVE  DeliveryInv'
  <2> DEFINE q == [Idle EXCEPT !.pc = "rotate", !.token = s.token, !.gen = s.gen]
  <2>1. q.pc = "rotate" /\ q.token = s.token
    BY DEF Idle
  <2>2. Start(r, q) /\ Handed(s.token)
    BY <1>1 DEF BeginRefresh, Handed
  <2> HIDE DEF q
  <2>3. CalmRequests
    BY <1>0, <2>1, <2>2, StartCalm
  <2> QED BY <1>0, <1>1, <2>3, UnchangedCalm, CalmStep DEF BeginRefresh
<1>2. ASSUME NEW cl \in Clients, NEW s \in held, BeginSpentRefresh(r, cl, s)
      PROVE  DeliveryInv'
  <2> DEFINE q == [Idle EXCEPT !.pc = "revokeRotated", !.token = s.token, !.gen = s.gen]
  <2>1. q.pc = "revokeRotated" /\ q.token = s.token
    BY DEF Idle
  <2>2. Start(r, q) /\ Handed(s.token)
    BY <1>2 DEF BeginSpentRefresh, Handed
  <2> HIDE DEF q
  <2>3. CalmRequests
    BY <1>0, <2>1, <2>2, StartCalm
  <2> QED BY <1>0, <1>2, <2>3, UnchangedCalm, CalmStep DEF BeginSpentRefresh
<1>3. CASE RefreshReplay(r)
  BY <1>0, <1>3, FinishCalm, UnchangedCalm, CalmStep DEF RefreshReplay
<1>4. CASE RefreshRotate(r)
  <2>1. CASE StillCurrent(r)
    <3> DEFINE q == [req[r] EXCEPT !.pc = "respond", !.gen = req[r].gen + 1]
    <3>1. req' = [req EXCEPT ![r] = q]
      BY <1>4, <2>1 DEF RefreshRotate
    <3>2. q.pc = "respond" /\ q.token = req[r].token
      BY <1>0 DEF TypeOK, ReqType, ReqRecord
    <3>3. Handed(req[r].token)
      BY <1>4 DEF RefreshRotate, At, Handed
    <3> HIDE DEF q
    <3>4. CalmRequests
      BY <1>0, <3>1, <3>2, <3>3, MoveCalm
    <3> QED BY <1>0, <1>4, <3>4, UnchangedCalm, CalmStep DEF RefreshRotate
  <2>2. CASE ~StillCurrent(r)
    <3>1. CalmRequests
      BY <1>0, <1>4, <2>2, FinishCalm DEF RefreshRotate
    <3> QED BY <1>0, <1>4, <3>1, UnchangedCalm, CalmStep DEF RefreshRotate
  <2> QED BY <2>1, <2>2
<1> QED BY <1>1, <1>2, <1>3, <1>4 DEF Refresh

LEMMA StepDelivery == GrantInv /\ DeliveryInv /\ [Next]_vars => DeliveryInv'
<1> SUFFICES ASSUME GrantInv, DeliveryInv, [Next]_vars PROVE DeliveryInv'
  OBVIOUS
<1>1. TypeOK /\ BornTokens
  BY StepBorn DEF GrantInv
<1>2. ASSUME NEW r \in Requests, RequestStep(r)
      PROVE  DeliveryInv'
  BY <1>1, <1>2, ConsentDelivery, ExchangeDelivery, RefreshDelivery DEF RequestStep
<1>3. ASSUME NEW cl \in Clients, NEW c \in Codes, RefuseReuse(cl, c)
      PROVE  DeliveryInv'
  BY <1>1, <1>3, RefusedDelivery
<1>4. ASSUME NEW cl \in Clients, NEW s \in held, ClientRevoke(cl, s)
      PROVE  DeliveryInv'
  BY <1>1, <1>4, UnchangedCalm, CalmStep DEF ClientRevoke
<1>5. ASSUME NEW t \in Tokens, UserRevoke(t)
      PROVE  DeliveryInv'
  BY <1>1, <1>5, UnchangedCalm, CalmStep DEF UserRevoke
<1>6. CASE Tick
  BY <1>1, <1>6, UnchangedCalm, CalmStep DEF Tick
<1>7. CASE UNCHANGED vars
  BY <1>1, <1>7, UnchangedCalm, CalmStep DEF vars
<1> QED BY <1>2, <1>3, <1>4, <1>5, <1>6, <1>7 DEF Next, RequestStep

\* A code presented again after its grant was delivered, while it is on file,
\* ends the grant for good (the issuedTokenId written before the response).
THEOREM LateReuseEnds == Spec => []LateReuseEndsGrant
<1>1. Init => DeliveryInv
  BY DEF Init, DeliveryInv, HandedAreGrants, HandedAreLinked, LinksMatch, IssuedMatch, LateIsRevoked,
     Handed, Idle, NoCode
<1>2. GrantInv /\ DeliveryInv /\ [Next]_vars => DeliveryInv'
  BY StepDelivery
<1>3. GrantInv /\ DeliveryInv => LateReuseEndsGrant
  <2> SUFFICES ASSUME GrantInv, DeliveryInv, NEW t \in Tokens, tokens[t].code # None,
                      codes[tokens[t].code].replay = "late"
               PROVE  tokens[t].revoked
    BY DEF LateReuseEndsGrant
  <2>1. tokens[t].code \in Codes
    BY DEF GrantInv, TypeOK, TokenType, OrNone
  <2>2. PICK u \in Tokens : tokens[u].code = tokens[t].code /\ tokens[u].revoked
    BY <2>1 DEF DeliveryInv, LateIsRevoked
  <2> QED BY <2>2 DEF GrantInv, CodeSpentOnce
<1> QED BY <1>1, <1>2, <1>3, GrantInvariant, PTL DEF Spec

---------------------------------------------------------------------------
(***************************************************************************)
(* The tables implement GrantLifecycle.  A claim spends the code, the      *)
(* insert mints, a rotation rotates; every other step ends some grants,    *)
(* possibly none.                                                          *)
(***************************************************************************)

\* A step that keeps every grant as it is or revokes it.
Ending ==
    \A t \in Tokens :
        /\ tokens'[t].kind = "oauth" <=> tokens[t].kind = "oauth"
        /\ tokens[t].kind = "oauth" =>
              /\ tokens'[t].code = tokens[t].code
              /\ tokens'[t].user = tokens[t].user
              /\ tokens'[t].client = tokens[t].client
              /\ tokens'[t].scope = tokens[t].scope
              /\ tokens'[t].refresh = tokens[t].refresh
              /\ tokens[t].revoked => tokens'[t].revoked

LEMMA UnchangedEnding ==
    ASSUME UNCHANGED tokens
    PROVE  Ending
BY DEF Ending

\* The record of a grant, field by field.
LEMMA GrantRecord ==
    ASSUME NEW x \in AnyGrant, NEW v \in BOOLEAN, NEW g \in Nat
    PROVE  /\ [x EXCEPT !.live = v] = [code |-> x.code, terms |-> x.terms, gen |-> x.gen, live |-> v]
           /\ [x EXCEPT !.gen = g] = [code |-> x.code, terms |-> x.terms, gen |-> g, live |-> x.live]
           /\ x = [code |-> x.code, terms |-> x.terms, gen |-> x.gen, live |-> x.live]
BY DEF AnyGrant

\* What GrantOf reads of a row.
LEMMA GrantFields ==
    ASSUME TypeOK, NEW t \in Tokens, tokens[t].kind = "oauth"
    PROVE  /\ GrantOf(t) \in AnyGrant
           /\ GrantOf(t).code = tokens[t].code
           /\ GrantOf(t).terms = TermsOf(tokens[t])
           /\ GrantOf(t).gen = tokens[t].refresh
           /\ GrantOf(t).live <=> ~tokens[t].revoked
           /\ GrantOf(t).live \in BOOLEAN
BY DEF GrantOf, AnyGrant, AnyTerms, TermsOf, TypeOK, TokenType

LEMMA GrantFieldsAfter ==
    ASSUME TypeOK', NEW t \in Tokens, tokens'[t].kind = "oauth"
    PROVE  /\ GrantOf(t)' \in AnyGrant
           /\ GrantOf(t)'.code = tokens'[t].code
           /\ GrantOf(t)'.terms = TermsOf(tokens'[t])
           /\ GrantOf(t)'.gen = tokens'[t].refresh
           /\ GrantOf(t)'.live <=> ~tokens'[t].revoked
           /\ GrantOf(t)'.live \in BOOLEAN
BY DEF GrantOf, AnyGrant, AnyTerms, TermsOf, TypeOK, TokenType

\* A grant is a record, so it is not NULL, and so are the terms of an issued code.
LEMMA NotNull ==
    ASSUME TypeOK
    PROVE  /\ \A t \in Tokens : tokens[t].kind = "oauth" <=> Grants[t] # None
           /\ \A c \in Codes : codes[c].row # "none" <=> Approvals[c] # None
<1>1. ASSUME NEW t \in Tokens, tokens[t].kind = "oauth" PROVE Grants[t] # None
  <2>1. GrantOf(t) \in AnyGrant
    BY <1>1 DEF GrantOf, AnyGrant, AnyTerms, TermsOf, TypeOK, TokenType
  <2> QED BY <2>1, NullAssumption DEF Grants
<1>2. ASSUME NEW c \in Codes, codes[c].row # "none" PROVE Approvals[c] # None
  <2>1. TermsOf(codes[c]) \in AnyTerms
    BY DEF AnyTerms, TermsOf, TypeOK, CodeType
  <2> QED BY <1>2, <2>1, NullAssumption DEF Approvals
<1>3. ASSUME NEW t \in Tokens, tokens[t].kind # "oauth" PROVE Grants[t] = None
  BY <1>3 DEF Grants, GrantOf
<1>4. ASSUME NEW c \in Codes, codes[c].row = "none" PROVE Approvals[c] = None
  BY <1>4 DEF Approvals
<1> QED BY <1>1, <1>2, <1>3, <1>4

LEMMA QuietApprovals ==
    ASSUME QuietCodes
    PROVE  UNCHANGED <<Approvals, Spent>>
BY DEF QuietCodes, Approvals, Spent, TermsOf

LEMMA EndStep ==
    ASSUME TypeOK, TypeOK', QuietCodes, Ending
    PROVE  Abstract!ANext
<1> DEFINE T == {t \in Tokens : tokens'[t].revoked}
<1>1. ASSUME NEW t \in Tokens
      PROVE  GrantOf(t)' = IF t \in T /\ Grants[t] # None
                           THEN [Grants[t] EXCEPT !.live = FALSE] ELSE Grants[t]
  <2>1. CASE tokens[t].kind # "oauth"
    <3>1. Grants[t] = None
      BY <2>1, NotNull
    <3>2. GrantOf(t)' = None
      BY <2>1 DEF Ending, GrantOf
    <3> QED BY <3>1, <3>2
  <2>2. CASE tokens[t].kind = "oauth"
    <3>1. Grants[t] # None /\ Grants[t] = GrantOf(t)
      BY <2>2, NotNull DEF Grants
    <3>2. /\ GrantOf(t) \in AnyGrant /\ GrantOf(t)' \in AnyGrant
          /\ GrantOf(t)'.code = GrantOf(t).code
          /\ GrantOf(t)'.terms = GrantOf(t).terms
          /\ GrantOf(t)'.gen = GrantOf(t).gen
      <4>1. tokens'[t].kind = "oauth" /\ TermsOf(tokens'[t]) = TermsOf(tokens[t])
        BY <2>2 DEF Ending, TermsOf
      <4>2. tokens'[t].code = tokens[t].code /\ tokens'[t].refresh = tokens[t].refresh
        BY <2>2 DEF Ending
      <4> QED BY <2>2, <4>1, <4>2, GrantFields, GrantFieldsAfter
    <3>3. /\ GrantOf(t).live <=> ~tokens[t].revoked
          /\ GrantOf(t)'.live <=> ~tokens'[t].revoked
          /\ GrantOf(t).live \in BOOLEAN /\ GrantOf(t)'.live \in BOOLEAN
      BY <2>2, GrantFields, GrantFieldsAfter DEF Ending
    <3>4. CASE tokens'[t].revoked
      <4>1. GrantOf(t)'.live = FALSE
        BY <3>3, <3>4
      <4>2. GrantOf(t)' = [GrantOf(t) EXCEPT !.live = FALSE]
        BY <3>2, <4>1, GrantRecord, Zenon
      <4> QED BY <3>1, <3>4, <4>2
    <3>5. CASE ~tokens'[t].revoked
      <4>1. GrantOf(t)'.live = GrantOf(t).live
        BY <2>2, <3>3, <3>5 DEF Ending
      <4>2. GrantOf(t)' = GrantOf(t)
        BY <3>2, <4>1, GrantRecord, Zenon
      <4> QED BY <3>1, <3>5, <4>2
    <3> QED BY <3>4, <3>5
  <2> QED BY <2>1, <2>2
<1>2. Grants' = [t \in Tokens |-> IF t \in T /\ Grants[t] # None
                                   THEN [Grants[t] EXCEPT !.live = FALSE] ELSE Grants[t]]
  BY <1>1 DEF Grants
<1>3. UNCHANGED <<Approvals, Spent>>
  BY QuietApprovals
<1>4. T \in SUBSET Tokens
  OBVIOUS
<1> HIDE DEF T
<1> QED BY <1>2, <1>3, <1>4 DEF Abstract!ANext, Abstract!End

LEMMA RevokeAllEnding ==
    ASSUME NEW T, TypeOK, RevokeAll(T)
    PROVE  Ending
BY DEF RevokeAll, Ending, TypeOK, TokenType

\* What a consent in progress is about: an account, a client and a scope.
ConsentsKnown ==
    \A r \in Requests : req[r].pc \in {"pruneCodes", "storeCode"} => TermsOf(req[r]) \in Terms

LEMMA KnownMove ==
    ASSUME NEW r \in Requests, NEW q, TypeOK, ConsentsKnown, req' = [req EXCEPT ![r] = q],
           q.pc \in {"pruneCodes", "storeCode"} => TermsOf(q) \in Terms
    PROVE  ConsentsKnown'
<1>1. ASSUME NEW x \in Requests, x # r PROVE req'[x] = req[x]
  BY <1>1 DEF TypeOK
<1>2. req'[r] = q
  BY DEF TypeOK
<1> QED BY <1>1, <1>2 DEF ConsentsKnown

LEMMA KnownMoves ==
    ASSUME NEW r \in Requests, TypeOK, ConsentsKnown
    PROVE  /\ Finish(r) => ConsentsKnown'
           /\ \A pc : Goto(r, pc) /\ pc \notin {"pruneCodes", "storeCode"} => ConsentsKnown'
           /\ \A q : Start(r, q) /\ q.pc \notin {"pruneCodes", "storeCode"} => ConsentsKnown'
<1>1. Finish(r) => ConsentsKnown'
  BY KnownMove DEF Finish, Idle
<1>2. ASSUME NEW pc, Goto(r, pc), pc \notin {"pruneCodes", "storeCode"} PROVE ConsentsKnown'
  <2>1. req' = [req EXCEPT ![r] = [req[r] EXCEPT !.pc = pc]]
    BY <1>2 DEF Goto
  <2>2. [req[r] EXCEPT !.pc = pc].pc = pc
    BY DEF TypeOK, ReqType, ReqRecord
  <2> QED BY <1>2, <2>1, <2>2, KnownMove
<1>3. ASSUME NEW q, Start(r, q), q.pc \notin {"pruneCodes", "storeCode"} PROVE ConsentsKnown'
  BY <1>3, KnownMove DEF Start
<1> QED BY <1>1, <1>2, <1>3

LEMMA StepKnown == TypeOK /\ ConsentsKnown /\ [Next]_vars => ConsentsKnown'
<1> SUFFICES ASSUME TypeOK, ConsentsKnown, [Next]_vars PROVE ConsentsKnown'
  OBVIOUS
<1>1. UNCHANGED req => ConsentsKnown'
  BY DEF ConsentsKnown
<1>2. ASSUME NEW r \in Requests, Consent(r) PROVE ConsentsKnown'
  <2>1. ASSUME NEW u \in Users, NEW cl \in Clients, NEW s \in Scopes, BeginConsent(r, u, cl, s)
        PROVE  ConsentsKnown'
    <3> DEFINE q == [Idle EXCEPT !.pc = "pruneCodes", !.user = u, !.client = cl, !.scope = s]
    <3>1. TermsOf(q) \in Terms
      BY DEF Idle, TermsOf, Terms
    <3>2. req' = [req EXCEPT ![r] = q]
      BY <2>1 DEF BeginConsent, Start
    <3> HIDE DEF q
    <3> QED BY <3>1, <3>2, KnownMove
  <2>2. CASE ConsentPrune(r)
    <3> DEFINE q == [req[r] EXCEPT !.pc = "storeCode"]
    <3>1. TermsOf(q) = TermsOf(req[r])
      BY DEF TermsOf, TypeOK, ReqType, ReqRecord
    <3>2. TermsOf(req[r]) \in Terms
      BY <2>2 DEF ConsentPrune, At, ConsentsKnown
    <3>3. req' = [req EXCEPT ![r] = q]
      BY <2>2 DEF ConsentPrune, Goto
    <3> HIDE DEF q
    <3> QED BY <3>1, <3>2, <3>3, KnownMove
  <2>3. CASE ConsentInsert(r)
    BY <2>3, KnownMoves DEF ConsentInsert
  <2> QED BY <1>2, <2>1, <2>2, <2>3 DEF Consent
<1>3. ASSUME NEW r \in Requests, Registration(r) \/ Personal(r) \/ Abort(r) PROVE ConsentsKnown'
  <2>1. [Idle EXCEPT !.pc = "register"].pc = "register"
    BY DEF Idle
  <2>2. ASSUME NEW u \in Users PROVE [Idle EXCEPT !.pc = "insertPersonal", !.user = u].pc = "insertPersonal"
    BY DEF Idle
  <2>3. CASE Registration(r)
    BY <2>1, <2>3, KnownMoves DEF Registration, RegisterPrune, RegisterInsert
  <2>4. CASE Personal(r)
    <3>1. ASSUME NEW u \in Users, BeginPersonal(r, u) PROVE ConsentsKnown'
      BY <2>2, <3>1, KnownMoves DEF BeginPersonal
    <3> QED BY <2>4, <3>1, KnownMoves DEF Personal, InsertPersonal
  <2>5. CASE Abort(r)
    BY <2>5, KnownMoves DEF Abort
  <2> QED BY <1>3, <2>3, <2>4, <2>5
<1>4. ASSUME NEW r \in Requests, Exchange(r) PROVE ConsentsKnown'
  <2>1. ASSUME NEW cl \in Clients, NEW c \in Codes, BeginExchange(r, cl, c) PROVE ConsentsKnown'
    <3>1. [Idle EXCEPT !.pc = "claim", !.client = cl, !.code = c,
                       !.user = codes[c].user, !.scope = codes[c].scope].pc = "claim"
      BY DEF Idle
    <3> QED BY <2>1, <3>1, KnownMoves DEF BeginExchange
  <2>2. ASSUME NEW cl \in Clients, NEW c \in Codes, BeginReuse(r, cl, c) PROVE ConsentsKnown'
    <3>1. [Idle EXCEPT !.pc = "revokeIssued", !.code = c, !.token = codes[c].issued].pc = "revokeIssued"
      BY DEF Idle
    <3> QED BY <2>2, <3>1, KnownMoves DEF BeginReuse
  <2>3. CASE ExchangeInsert(r)
    <3>1. PICK t \in Tokens : req' = [req EXCEPT ![r] = [req[r] EXCEPT !.pc = "link", !.token = t]]
      BY <2>3 DEF ExchangeInsert
    <3>2. [req[r] EXCEPT !.pc = "link", !.token = t].pc = "link"
      BY DEF TypeOK, ReqType, ReqRecord
    <3> QED BY <3>1, <3>2, KnownMove
  <2> QED BY <1>4, <2>1, <2>2, <2>3, KnownMoves
          DEF Exchange, RevokeIssued, ExchangeClaim, ExchangeSupersede, ExchangeCount, ExchangeLink, Respond
<1>5. ASSUME NEW r \in Requests, Refresh(r) PROVE ConsentsKnown'
  <2>1. ASSUME NEW cl \in Clients, NEW s \in held, BeginRefresh(r, cl, s) PROVE ConsentsKnown'
    <3>1. [Idle EXCEPT !.pc = "rotate", !.token = s.token, !.gen = s.gen].pc = "rotate"
      BY DEF Idle
    <3> QED BY <2>1, <3>1, KnownMoves DEF BeginRefresh
  <2>2. ASSUME NEW cl \in Clients, NEW s \in held, BeginSpentRefresh(r, cl, s) PROVE ConsentsKnown'
    <3>1. [Idle EXCEPT !.pc = "revokeRotated", !.token = s.token, !.gen = s.gen].pc = "revokeRotated"
      BY DEF Idle
    <3> QED BY <2>2, <3>1, KnownMoves DEF BeginSpentRefresh
  <2>3. CASE RefreshReplay(r)
    BY <2>3, KnownMoves DEF RefreshReplay
  <2>4. CASE RefreshRotate(r)
    <3>1. CASE StillCurrent(r)
      <4>1. req' = [req EXCEPT ![r] = [req[r] EXCEPT !.pc = "respond", !.gen = req[r].gen + 1]]
        BY <2>4, <3>1 DEF RefreshRotate
      <4>2. [req[r] EXCEPT !.pc = "respond", !.gen = req[r].gen + 1].pc = "respond"
        BY DEF TypeOK, ReqType, ReqRecord
      <4> QED BY <4>1, <4>2, KnownMove
    <3>2. CASE ~StillCurrent(r)
      BY <2>4, <3>2, KnownMoves DEF RefreshRotate
    <3> QED BY <3>1, <3>2
  <2> QED BY <1>5, <2>1, <2>2, <2>3, <2>4 DEF Refresh
<1> QED BY <1>1, <1>2, <1>3, <1>4, <1>5
        DEF Next, RefuseReuse, ClientRevoke, UserRevoke, Tick, vars

\* A code that was never issued is not used.
FreshUnused == \A c \in Codes : codes[c].row = "none" => ~codes[c].used

LEMMA QuietFresh ==
    ASSUME FreshUnused, QuietCodes
    PROVE  FreshUnused'
BY DEF FreshUnused, QuietCodes

\* A new code is an approval.
LEMMA ConsentApproves ==
    ASSUME TypeOK, ConsentsKnown, FreshUnused, NEW r \in Requests, ConsentInsert(r)
    PROVE  Abstract!ANext /\ FreshUnused'
<1>1. UNCHANGED tokens /\ TermsOf(req[r]) \in Terms
  BY DEF ConsentInsert, At, ConsentsKnown
<1>2. PICK c \in Codes :
         /\ codes[c].row = "none"
         /\ codes' = [codes EXCEPT ![c] =
              [NoCode EXCEPT !.row = "stored", !.client = req[r].client,
                             !.user = req[r].user, !.scope = req[r].scope,
                             !.expires = now + CodeTTL]]
  BY DEF ConsentInsert
<1>3. ASSUME NEW d \in Codes, d # c PROVE codes'[d] = codes[d]
  BY <1>2, <1>3 DEF TypeOK
<1>4. codes'[c].row = "stored" /\ TermsOf(codes'[c]) = TermsOf(req[r]) /\ ~codes'[c].used
  BY <1>2 DEF TypeOK, NoCode, TermsOf
<1>5. Approvals[c] = None /\ Approvals' = [Approvals EXCEPT ![c] = TermsOf(req[r])]
  BY <1>2, <1>3, <1>4 DEF Approvals, TermsOf
<1>6. Spent' = Spent
  BY <1>2, <1>3, <1>4 DEF FreshUnused, Spent
<1>7. Grants' = Grants
  BY <1>1 DEF Grants, GrantOf, TermsOf
<1>8. FreshUnused'
  BY <1>3, <1>4 DEF FreshUnused
<1> QED BY <1>1, <1>5, <1>6, <1>7, <1>8 DEF Abstract!ANext, Abstract!Approve

\* The claim spends the code.
LEMMA ClaimSpends ==
    ASSUME TypeOK, TypeOK', FreshUnused, NEW r \in Requests, ExchangeClaim(r)
    PROVE  Abstract!ANext /\ FreshUnused'
<1> DEFINE c == req[r].code
<1>1. c \in Codes /\ UNCHANGED tokens
  BY DEF ExchangeClaim, At, TypeOK, ReqType, ReqRecord, HasRow, OrNone
<1>2. CASE Stored(c) /\ ~codes[c].used
  <2>1. codes' = [codes EXCEPT ![c].used = TRUE]
    BY <1>2 DEF ExchangeClaim
  <2>2. ASSUME NEW d \in Codes
        PROVE  /\ codes'[d].row = codes[d].row /\ TermsOf(codes'[d]) = TermsOf(codes[d])
               /\ codes'[d].used <=> codes[d].used \/ d = c
    BY <1>1, <2>1 DEF TypeOK, CodeType, TermsOf
  <2>3. Approvals' = Approvals /\ Approvals[c] # None
    BY <1>1, <1>2, <2>2, NotNull DEF Approvals, Stored, TermsOf
  <2>4. c \notin Spent /\ Spent' = Spent \union {c}
    BY <1>1, <1>2, <2>2 DEF Spent
  <2>5. Grants' = Grants
    BY <1>1 DEF Grants, GrantOf, TermsOf
  <2>6. FreshUnused'
    BY <1>2, <2>2 DEF FreshUnused, Stored
  <2> HIDE DEF c
  <2> QED BY <1>1, <2>3, <2>4, <2>5, <2>6 DEF Abstract!ANext, Abstract!Spend
<1>3. CASE ~(Stored(c) /\ ~codes[c].used)
  <2>1. QuietCodes
    BY <1>3, NoteReuseQuiet, UnchangedQuiet DEF ExchangeClaim
  <2> QED BY <1>1, <2>1, UnchangedEnding, EndStep, QuietFresh
<1> QED BY <1>2, <1>3

\* The insert mints the one grant of a spent code, on the approved terms.
LEMMA InsertMints ==
    ASSUME GrantInv, NEW r \in Requests, ExchangeInsert(r)
    PROVE  Abstract!ANext
<1> DEFINE c == req[r].code
<1>0. TypeOK
  BY DEF GrantInv
<1>1. c \in Codes /\ Past(r) /\ UNCHANGED codes
  BY <1>0 DEF ExchangeInsert, At, Past, TypeOK, ReqType, ReqRecord, HasRow, OrNone
<1>2. /\ codes[c].used /\ codes[c].row # "none" /\ TermsOf(codes[c]) = TermsOf(req[r])
      /\ \A u \in Tokens : tokens[u].code # c
  BY <1>1 DEF GrantInv, ClaimUnminted, RequestsMatchCodes, MatchesCode, TermsOf
<1>3. PICK t \in Tokens :
         /\ tokens[t].kind = "none"
         /\ tokens' = [tokens EXCEPT ![t] =
                [NoToken EXCEPT !.kind = "oauth", !.user = req[r].user,
                                !.client = req[r].client, !.scope = req[r].scope,
                                !.code = req[r].code,
                                !.refreshExpires = now + RefreshTTL]]
  BY DEF ExchangeInsert
<1>4. ASSUME NEW u \in Tokens, u # t PROVE tokens'[u] = tokens[u]
  BY <1>0, <1>3, <1>4 DEF TypeOK
<1>5. /\ tokens'[t].kind = "oauth" /\ tokens'[t].code = c /\ tokens'[t].refresh = 0
      /\ ~tokens'[t].revoked /\ TermsOf(tokens'[t]) = TermsOf(req[r])
  BY <1>0, <1>3 DEF TypeOK, NoToken, TermsOf
<1>6. c \in Spent /\ Approvals[c] = TermsOf(req[r]) /\ UNCHANGED <<Approvals, Spent>>
  BY <1>1, <1>2 DEF Spent, Approvals, TermsOf
<1>7. Grants[t] = None
  BY <1>0, <1>3, NotNull
<1>8. ~Abstract!Minted(c)
  <2> SUFFICES ASSUME NEW u \in Tokens, Grants[u] # None, Grants[u].code = c PROVE FALSE
    BY DEF Abstract!Minted
  <2>1. tokens[u].kind = "oauth"
    BY <1>0, NotNull
  <2>2. Grants[u].code = tokens[u].code
    BY <2>1 DEF Grants, GrantOf
  <2> QED BY <1>2, <2>2
<1>9. GrantOf(t)' = [code |-> c, terms |-> Approvals[c], gen |-> 0, live |-> TRUE]
  BY <1>5, <1>6 DEF GrantOf, TermsOf
<1>10. ASSUME NEW u \in Tokens, u # t PROVE GrantOf(u)' = GrantOf(u)
  BY <1>4, <1>10 DEF GrantOf, TermsOf
<1>11. Grants' = [Grants EXCEPT ![t] = [code |-> c, terms |-> Approvals[c], gen |-> 0, live |-> TRUE]]
  BY <1>9, <1>10 DEF Grants
<1> HIDE DEF c
<1> QED BY <1>1, <1>6, <1>7, <1>8, <1>11 DEF Abstract!ANext, Abstract!Mint

\* A rotation is one of a live grant.
LEMMA RotateRotates ==
    ASSUME GrantInv, TypeOK', NEW r \in Requests, RefreshRotate(r)
    PROVE  Abstract!ANext
<1>0. TypeOK
  BY DEF GrantInv
<1> SUFFICES ASSUME NEW t \in Tokens, t = req[r].token
             PROVE  Abstract!ANext
  BY <1>0 DEF RefreshRotate, At, TypeOK, ReqType, ReqRecord, HasRow, OrNone
<1>1. UNCHANGED codes
  BY DEF RefreshRotate
<1>2. CASE StillCurrent(r) /\ tokens[t].kind = "oauth"
  <2>1. tokens' = [tokens EXCEPT ![t] =
             [tokens[t] EXCEPT !.refresh = tokens[t].refresh + 1,
                               !.previous = req[r].gen,
                               !.refreshExpires = now + RefreshTTL]]
    BY <1>2 DEF RefreshRotate
  <2>2. ASSUME NEW u \in Tokens, u # t PROVE GrantOf(u)' = GrantOf(u)
    BY <1>0, <2>1, <2>2 DEF GrantOf, TermsOf, TypeOK
  <2>3. /\ tokens'[t].kind = "oauth" /\ tokens'[t].code = tokens[t].code
        /\ TermsOf(tokens'[t]) = TermsOf(tokens[t])
        /\ tokens'[t].refresh = tokens[t].refresh + 1
        /\ tokens'[t].revoked = tokens[t].revoked
    BY <1>0, <1>1, <1>2, <2>1 DEF TermsOf, TypeOK, TokenType
  <2>4. /\ GrantOf(t) \in AnyGrant /\ GrantOf(t)' \in AnyGrant
        /\ GrantOf(t)'.code = GrantOf(t).code
        /\ GrantOf(t)'.terms = GrantOf(t).terms
        /\ GrantOf(t)'.gen = GrantOf(t).gen + 1
        /\ GrantOf(t)'.live = GrantOf(t).live
        /\ GrantOf(t).live
        /\ GrantOf(t).gen + 1 \in Nat
    <3>1. GrantOf(t).gen \in Nat
      BY <1>0, <1>1, <1>2, GrantFields DEF AnyGrant
    <3>2. ~tokens[t].revoked
      BY <1>2 DEF StillCurrent, Live
    <3>3. /\ GrantOf(t) \in AnyGrant /\ GrantOf(t)' \in AnyGrant
          /\ GrantOf(t)'.code = GrantOf(t).code
          /\ GrantOf(t)'.terms = GrantOf(t).terms
          /\ GrantOf(t)'.gen = GrantOf(t).gen + 1
      BY <1>0, <1>1, <1>2, <2>3, GrantFields, GrantFieldsAfter
    <3>4. GrantOf(t).live /\ GrantOf(t).live \in BOOLEAN
      BY <1>0, <1>1, <1>2, <3>2, GrantFields
    <3>5. GrantOf(t)'.live /\ GrantOf(t)'.live \in BOOLEAN
      BY <1>1, <2>3, <3>2, GrantFieldsAfter
    <3>6. GrantOf(t)'.live = GrantOf(t).live
      BY <3>4, <3>5
    <3> QED BY <3>1, <3>3, <3>4, <3>6
  <2>5. Grants' = [Grants EXCEPT ![t] = [Grants[t] EXCEPT !.gen = Grants[t].gen + 1]]
    <3>1. GrantOf(t)' = [GrantOf(t) EXCEPT !.gen = GrantOf(t).gen + 1]
      <4>1. TRUE \in BOOLEAN
        OBVIOUS
      <4>2. [GrantOf(t) EXCEPT !.gen = GrantOf(t).gen + 1]
              = [code |-> GrantOf(t).code, terms |-> GrantOf(t).terms,
                 gen |-> GrantOf(t).gen + 1, live |-> GrantOf(t).live]
        BY <2>4, <4>1, GrantRecord, Zenon
      <4>3. GrantOf(t)' = [code |-> GrantOf(t)'.code, terms |-> GrantOf(t)'.terms,
                           gen |-> GrantOf(t)'.gen, live |-> GrantOf(t)'.live]
        BY <2>4, <4>1, GrantRecord, Zenon
      <4> QED BY <2>4, <4>2, <4>3, Zenon
    <3>2. GrantOf(t)' = [Grants[t] EXCEPT !.gen = Grants[t].gen + 1]
      BY <1>1, <3>1 DEF Grants
    <3>3. ASSUME NEW u \in Tokens, u # t PROVE GrantOf(u)' = Grants[u]
      BY <2>2, <3>3 DEF Grants
    <3>4. Grants = [u \in Tokens |-> Grants[u]] /\ Grants' = [u \in Tokens |-> GrantOf(u)']
      BY DEF Grants
    <3> DEFINE g == [Grants[t] EXCEPT !.gen = Grants[t].gen + 1]
    <3> HIDE DEF g
    <3>5. GrantOf(t)' = g
      BY <3>2 DEF g
    <3>6. Grants' = [Grants EXCEPT ![t] = g]
      BY <3>3, <3>4, <3>5
    <3> QED BY <3>6 DEF g
  <2>6. Grants[t] # None
    BY <1>0, <1>1, <1>2, NotNull
  <2>7. UNCHANGED <<Approvals, Spent>>
    BY <1>1 DEF Approvals, Spent, TermsOf
  <2>8. Grants[t].live
    BY <1>1, <2>4 DEF Grants
  <2> QED BY <1>1, <2>5, <2>6, <2>7, <2>8 DEF Abstract!ANext, Abstract!Rotate
<1>3. CASE StillCurrent(r) /\ tokens[t].kind # "oauth"
  <2>1. tokens' = [tokens EXCEPT ![t] =
             [tokens[t] EXCEPT !.refresh = tokens[t].refresh + 1,
                               !.previous = req[r].gen,
                               !.refreshExpires = now + RefreshTTL]]
    BY <1>3 DEF RefreshRotate
  <2>2. Ending
    BY <1>0, <1>1, <1>3, <2>1 DEF Ending, TypeOK, TokenType
  <2> QED BY <1>0, <1>1, <2>2, UnchangedQuiet, EndStep
<1>4. CASE ~StillCurrent(r)
  <2>1. tokens' = [tokens EXCEPT ![t].replayed = tokens[t].replayed \/ tokens[t].refresh # req[r].gen]
    BY <1>4 DEF RefreshRotate
  <2>2. Ending
    BY <1>0, <1>1, <2>1 DEF Ending, TypeOK, TokenType
  <2> QED BY <1>0, <1>1, <2>2, UnchangedQuiet, EndStep
<1> QED BY <1>2, <1>3, <1>4

LEMMA LifecycleStep ==
    ASSUME GrantInv, TypeOK', ConsentsKnown, FreshUnused, [Next]_vars
    PROVE  Abstract!ANext /\ FreshUnused'
<1>0. TypeOK
  BY DEF GrantInv
<1>1. ASSUME QuietCodes, Ending PROVE Abstract!ANext /\ FreshUnused'
  BY <1>0, <1>1, EndStep, QuietFresh
<1>2. ASSUME NEW r \in Requests, Registration(r) \/ Personal(r) \/ Abort(r)
      PROVE  Abstract!ANext /\ FreshUnused'
  <2>1. CASE RegisterPrune(r)
    <3> DEFINE S == {cl \in Clients : Registered(cl) /\ Unused(cl)}
    <3>1. DeleteClients(S)
      BY <2>1 DEF RegisterPrune
    <3>2. ASSUME NEW t \in Tokens PROVE tokens[t].client \notin S
      BY DEF Unused
    <3> HIDE DEF S
    <3>3. QuietCodes
      BY <1>0, <3>1 DEF DeleteClients, QuietCodes, TypeOK, CodeType, Stored
    <3>4. Ending
      BY <1>0, <3>1, <3>2 DEF DeleteClients, Ending, TypeOK
    <3> QED BY <1>1, <3>3, <3>4
  <2>2. CASE InsertPersonal(r)
    <3>1. UNCHANGED codes
      BY <2>2 DEF InsertPersonal
    <3>2. Ending
      <4>1. PICK t \in Tokens :
               /\ tokens[t].kind = "none"
               /\ tokens' = [tokens EXCEPT ![t] =
                     [NoToken EXCEPT !.kind = "personal", !.user = req[r].user]]
        BY <2>2 DEF InsertPersonal
      <4>2. tokens'[t].kind = "personal"
        BY <1>0, <4>1 DEF NoToken, TypeOK
      <4>3. ASSUME NEW u \in Tokens, u # t PROVE tokens'[u] = tokens[u]
        BY <1>0, <4>1, <4>3 DEF TypeOK
      <4> QED BY <4>1, <4>2, <4>3 DEF Ending
    <3> QED BY <1>0, <1>1, <3>1, <3>2, UnchangedQuiet
  <2> QED BY <1>0, <1>1, <1>2, <2>1, <2>2, UnchangedQuiet, UnchangedEnding
          DEF Registration, RegisterInsert, Personal, BeginPersonal, Abort
<1>3. ASSUME NEW r \in Requests, Consent(r) PROVE Abstract!ANext /\ FreshUnused'
  <2>1. CASE ConsentPrune(r)
    <3>1. QuietCodes /\ UNCHANGED tokens
      BY <1>0, <2>1 DEF ConsentPrune, QuietCodes, TypeOK, CodeType, Stored
    <3> QED BY <1>1, <3>1, UnchangedEnding
  <2>2. CASE ConsentInsert(r)
    BY <1>0, <2>2, ConsentApproves
  <2> QED BY <1>0, <1>1, <1>3, <2>1, <2>2, UnchangedQuiet, UnchangedEnding DEF Consent, BeginConsent
<1>4. ASSUME NEW r \in Requests, Exchange(r) PROVE Abstract!ANext /\ FreshUnused'
  <2>1. CASE ExchangeClaim(r)
    BY <1>0, <2>1, ClaimSpends
  <2>2. CASE ExchangeInsert(r)
    BY <1>0, <2>2, InsertMints, UnchangedQuiet, QuietFresh DEF ExchangeInsert
  <2>3. CASE RevokeIssued(r)
    BY <1>0, <1>1, <2>3, RevokeAllEnding, NoteReuseQuiet DEF RevokeIssued
  <2>4. CASE ExchangeSupersede(r)
    BY <1>0, <1>1, <2>4, RevokeAllEnding, UnchangedQuiet DEF ExchangeSupersede
  <2>5. CASE ExchangeLink(r)
    <3>1. QuietCodes
      BY <1>0, <2>5 DEF ExchangeLink, QuietCodes, TypeOK, CodeType
    <3> QED BY <1>1, <2>5, <3>1, UnchangedEnding DEF ExchangeLink
  <2> QED BY <1>0, <1>1, <1>4, <2>1, <2>2, <2>3, <2>4, <2>5, UnchangedQuiet, UnchangedEnding
          DEF Exchange, BeginExchange, BeginReuse, ExchangeCount, Respond
<1>5. ASSUME NEW r \in Requests, Refresh(r) PROVE Abstract!ANext /\ FreshUnused'
  <2>1. CASE RefreshRotate(r)
    BY <1>0, <2>1, RotateRotates, UnchangedQuiet, QuietFresh DEF RefreshRotate
  <2>2. CASE RefreshReplay(r)
    <3>1. UNCHANGED codes
      BY <2>2 DEF RefreshReplay
    <3>2. Ending
      BY <1>0, <2>2 DEF RefreshReplay, Ending, TypeOK, TokenType
    <3> QED BY <1>0, <1>1, <3>1, <3>2, UnchangedQuiet
  <2> QED BY <1>0, <1>1, <1>5, <2>1, <2>2, UnchangedQuiet, UnchangedEnding
          DEF Refresh, BeginRefresh, BeginSpentRefresh
<1>6. ASSUME NEW cl \in Clients, NEW c \in Codes, RefuseReuse(cl, c)
      PROVE  Abstract!ANext /\ FreshUnused'
  BY <1>0, <1>1, <1>6, NoteReuseQuiet, UnchangedEnding DEF RefuseReuse
<1>7. ASSUME NEW T, RevokeAll(T), UNCHANGED codes
      PROVE  Abstract!ANext /\ FreshUnused'
  BY <1>0, <1>1, <1>7, RevokeAllEnding, UnchangedQuiet
<1>8. CASE Tick \/ UNCHANGED vars
  BY <1>0, <1>1, <1>8, UnchangedQuiet, UnchangedEnding DEF Tick, vars
<1> QED BY <1>2, <1>3, <1>4, <1>5, <1>6, <1>7, <1>8 DEF Next, ClientRevoke, UserRevoke

\* The token endpoint, with its tables, its requests in flight and its clock,
\* implements the life cycle of a grant.
THEOREM GrantsImplementLifecycle == Spec => GrantsFollowLifecycle
<1>1. Init => Abstract!AInit /\ ConsentsKnown /\ FreshUnused
  <2> SUFFICES ASSUME Init PROVE Abstract!AInit /\ ConsentsKnown /\ FreshUnused
    OBVIOUS
  <2>1. Approvals = [c \in Codes |-> None] /\ Spent = {}
    BY DEF Init, NoCode, Approvals, Spent
  <2>2. Grants = [t \in Tokens |-> None]
    BY DEF Init, NoToken, Grants, GrantOf
  <2>3. ConsentsKnown /\ FreshUnused
    BY DEF Init, Idle, NoCode, ConsentsKnown, FreshUnused
  <2> QED BY <2>1, <2>2, <2>3 DEF Abstract!AInit
<1>2. GrantInv /\ ConsentsKnown /\ FreshUnused /\ [Next]_vars =>
         [Abstract!ANext]_(Abstract!avars) /\ ConsentsKnown' /\ FreshUnused'
  BY StepType, StepKnown, LifecycleStep DEF GrantInv
<1> QED BY <1>1, <1>2, GrantInvariant, PTL DEF Spec, GrantsFollowLifecycle, Abstract!ASpec

=============================================================================
