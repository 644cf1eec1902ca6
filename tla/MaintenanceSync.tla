-------------------------- MODULE MaintenanceSync --------------------------
(***************************************************************************)
(* Maintenance records and their delta sync: create with an idempotency    *)
(* key, update with its bundled child records, soft delete, and the        *)
(* ?since= listing an offline client pulls from.                           *)
(*                                                                         *)
(* A handler reads what it needs and takes its sync_now() stamp, then runs *)
(* one transaction that begins with a write, so it commits as one step;    *)
(* other requests and pulls run in between.  Every stamp is a millisecond  *)
(* of its own.  The fields of a record are its odometer reading `odo`.     *)
(* Stamp 0 is an updatedAt that is NULL, which no cursor selects.          *)
(***************************************************************************)
EXTENDS Columns, FiniteSets

CONSTANTS
    Records,     \* row ids ever given out (AUTOINCREMENT: never again)
    Items,       \* bundled items
    Named,       \* those stored under their own name: the fluids and the chain
    General,     \* what every other item is stored as
    Keys,        \* clientIds
    Odos,        \* what a record may say
    Requests, Clients,
    MaxStamps    \* bound: stamps taken

ASSUME NoneAssumption == None \notin Records \union Items \union Keys \union Odos \union {General}
ASSUME NamedAssumption == Named \subseteq Items /\ General \notin Named
ASSUME StampAssumption == MaxStamps \in Nat

VARIABLES
    rows,        \* maintenanceRecords of one motorcycle
    clock,       \* milliseconds
    req,         \* handlers in flight
    answers,     \* the <<key, id>> of every answered create
    copy,        \* what a client holds of each record
    cursor       \* the newest updatedAt it has received

vars == <<rows, clock, req, answers, copy, cursor>>

NoRow == [state |-> "none", parent |-> None, item |-> None, odo |-> None, key |-> None,
          updatedAt |-> 0]
Idle == [pc |-> "idle", id |-> None, key |-> None, odo |-> None, items |-> {}, bundled |-> FALSE,
         stamp |-> 0]

Init ==
    /\ rows = [i \in Records |-> NoRow]
    /\ clock = 1
    /\ req = [r \in Requests |-> Idle]
    /\ answers = {}
    /\ copy = [c \in Clients |-> [i \in Records |-> None]]
    /\ cursor = [c \in Clients |-> 0]

Unused == {i \in Records : rows[i].state = "none"}
Stored == {i \in Records : rows[i].state \in {"live", "deleted"}}
Children(i) == {j \in Stored : rows[j].parent = i}
Visible(i) == IF rows[i].state = "live" THEN rows[i].odo ELSE None

\* What a bundled item is stored as.
StoredAs(a) == IF a \in Named THEN a ELSE General

Row(parent, item, odo, key, stamp) ==
    [state |-> "live", parent |-> parent, item |-> item, odo |-> odo, key |-> key,
     updatedAt |-> stamp]

At(r, pc) == req[r].pc = pc
\* The handler has checked its input and takes the stamp it will write.
Start(r, q) ==
    /\ At(r, "idle") /\ clock <= MaxStamps
    /\ req' = [req EXCEPT ![r] = [q EXCEPT !.stamp = clock]]
    /\ clock' = clock + 1
    /\ UNCHANGED <<rows, answers, copy, cursor>>
Finish(r) == req' = [req EXCEPT ![r] = Idle]
\* The answer arrives, or is lost and the client may send the request again.
Answer(k, i) == answers' = answers \/ (k # None /\ answers' = answers \union {<<k, i>>})

---------------------------------------------------------------------------
(* Create.                                                                  *)

AnswerAgain(r, k) ==
    /\ At(r, "idle")
    /\ \E i \in Stored : rows[i].key = k /\ Answer(k, i)
    /\ UNCHANGED <<rows, clock, req, copy, cursor>>

BeginCreate(r, k, o, I) ==
    /\ \A i \in Stored : rows[i].key = k => k = None
    /\ Start(r, [Idle EXCEPT !.pc = "create", !.key = k, !.odo = o, !.items = I])

\* A row id for the record and for each of its items.
FreshIds(I) == {f \in [I -> Unused] : \A a, b \in I : a # b => f[a] # f[b]}
Inserted(p, f, q) ==
    [i \in Records |->
        IF i = p THEN Row(None, None, q.odo, q.key, q.stamp)
        ELSE IF \E a \in q.items : f[a] = i
             THEN Row(p, StoredAs(CHOOSE a \in q.items : f[a] = i), q.odo, None, q.stamp)
             ELSE rows[i]]

CreateAnyway(r) ==
    /\ At(r, "create")
    /\ \E p \in Unused, f \in FreshIds(req[r].items) :
          /\ \A a \in req[r].items : f[a] # p
          /\ rows' = Inserted(p, f, req[r])
          /\ Answer(req[r].key, p)
    /\ Finish(r)
    /\ UNCHANGED <<clock, copy, cursor>>
Create(r) ==
    /\ At(r, "create")
    /\ \A i \in Stored : rows[i].key = req[r].key => req[r].key = None
    /\ \E p \in Unused, f \in FreshIds(req[r].items) :
          /\ \A a \in req[r].items : f[a] # p
          /\ rows' = Inserted(p, f, req[r])
          /\ Answer(req[r].key, p)
    /\ Finish(r)
    /\ UNCHANGED <<clock, copy, cursor>>

\* The unique index on clientId refuses the insert.
Refuse(r) ==
    /\ At(r, "create")
    /\ \E i \in Stored : rows[i].key = req[r].key /\ req[r].key # None
    /\ Finish(r)
    /\ UNCHANGED <<rows, clock, answers, copy, cursor>>

---------------------------------------------------------------------------
(* Update and delete.                                                       *)

\* The row may be a tombstone: update_maintenance does not look at deletedAt.
BeginUpdate(r, i, o, bundled, I) ==
    /\ i \in Stored /\ (bundled => rows[i].parent = None)
    /\ Start(r, [Idle EXCEPT !.pc = "update", !.id = i, !.odo = o, !.items = I, !.bundled = bundled])

\* A row after the update q: the record itself, and with bundledItems in the
\* request its children.  A child whose stored name is not listed is deleted for
\* good; one that stays follows the record without a new updatedAt.
Written(q, i) == [rows[i] EXCEPT !.odo = q.odo, !.updatedAt = q.stamp]
AfterUpdate(q) ==
    [i \in Records |->
        IF i = q.id /\ i \in Stored THEN Written(q, i)
        ELSE IF q.bundled /\ i \in Children(q.id)
             THEN IF rows[i].item \in q.items THEN [rows[i] EXCEPT !.odo = q.odo]
                  ELSE [rows[i] EXCEPT !.state = "removed"]
             ELSE rows[i]]
\* Listed items without a child before the update, deleted or not; each is
\* inserted, without an updatedAt.
MissingItems(q) ==
    IF q.bundled THEN {a \in q.items : \A j \in Children(q.id) : rows[j].item # StoredAs(a)} ELSE {}

Update(r) ==
    /\ At(r, "update")
    /\ LET q == req[r] IN
       \E f \in FreshIds(MissingItems(q)) :
          rows' = [i \in Records |->
                     IF \E a \in MissingItems(q) : f[a] = i
                     THEN Row(q.id, StoredAs(CHOOSE a \in MissingItems(q) : f[a] = i), q.odo, None, 0)
                     ELSE AfterUpdate(q)[i]]
    /\ Finish(r)
    /\ UNCHANGED <<clock, answers, copy, cursor>>

BeginDelete(r, i) ==
    /\ i \in Stored
    /\ Start(r, [Idle EXCEPT !.pc = "delete", !.id = i])

\* The tombstone; the children stay.  A row that is no longer live is a 404.
Delete(r) ==
    /\ At(r, "delete")
    /\ LET q == req[r] IN
       rows' = IF rows[q.id].state = "live"
               THEN [rows EXCEPT ![q.id] = [rows[q.id] EXCEPT !.state = "deleted", !.updatedAt = q.stamp]]
               ELSE rows
    /\ Finish(r)
    /\ UNCHANGED <<clock, answers, copy, cursor>>

---------------------------------------------------------------------------
(* The client.                                                              *)

\* Without a cursor the live rows, else every row changed after it.
ListedLive(c) ==
    IF cursor[c] = 0 THEN {i \in Records : rows[i].state = "live"}
    ELSE {i \in Stored : rows[i].state = "live" /\ rows[i].updatedAt > cursor[c]}
Listed(c) ==
    IF cursor[c] = 0 THEN {i \in Records : rows[i].state = "live"}
    ELSE {i \in Stored : rows[i].updatedAt > cursor[c]}
Newest(n, S) == n \in S /\ \A m \in S : m <= n

\* The client keeps what it got; a first, full listing replaces what it held.
Pull(c) ==
    /\ \E n \in {cursor[c]} \union {rows[i].updatedAt : i \in Listed(c)} :
          /\ Newest(n, {cursor[c]} \union {rows[i].updatedAt : i \in Listed(c)})
          /\ cursor' = [cursor EXCEPT ![c] = n]
    /\ copy' = [copy EXCEPT ![c] = [i \in Records |->
                   IF cursor[c] = 0 \/ i \in Listed(c) THEN Visible(i) ELSE copy[c][i]]]
    /\ UNCHANGED <<rows, clock, req, answers>>

---------------------------------------------------------------------------
Creating(r) ==
    \/ \E k \in Keys : AnswerAgain(r, k)
    \/ \E k \in Keys \union {None}, o \in Odos, I \in SUBSET Items : BeginCreate(r, k, o, I)
    \/ Create(r) \/ Refuse(r)
Changing(r) ==
    \/ \E i \in Records, o \in Odos :
          \/ BeginUpdate(r, i, o, FALSE, {})
          \/ \E I \in SUBSET Items : BeginUpdate(r, i, o, TRUE, I)
    \/ Update(r)
    \/ \E i \in Records : BeginDelete(r, i)
    \/ Delete(r)

\* Where the bounded history ends: no stamp, or no row id, is left.
Stop == (clock > MaxStamps \/ Unused = {}) /\ UNCHANGED vars

Next ==
    \/ \E r \in Requests : Creating(r) \/ Changing(r)
    \/ \E c \in Clients : Pull(c)
    \/ Stop

Spec == Init /\ [][Next]_vars

---------------------------------------------------------------------------
(* Properties.                                                              *)

PCs == {"idle", "create", "update", "delete"}
States == {"none", "live", "deleted", "removed"}
RowType == [state : States, parent : Records \union {None}, item : Items \union {General, None},
            odo : Odos \union {None}, key : Keys \union {None}, updatedAt : Nat]
ReqType == [pc : PCs, id : Records \union {None}, key : Keys \union {None}, odo : Odos \union {None},
            items : SUBSET Items, bundled : BOOLEAN, stamp : Nat]

\* Tables, handlers and clients have their types.
TypeOK ==
    /\ rows \in [Records -> RowType]
    /\ clock \in Nat
    /\ req \in [Requests -> ReqType]
    /\ answers \subseteq Keys \X Records
    /\ copy \in [Clients -> [Records -> Odos \union {None}]]
    /\ cursor \in [Clients -> Nat]

\* However often a create is sent and however its sendings overlap, a clientId
\* names one row, and every answer to it names that row.
OneRowPerKey ==
    /\ \A i, j \in Stored : rows[i].key = rows[j].key /\ rows[i].key # None => i = j
    /\ \A a \in answers : a[2] \in Stored => rows[a[2]].key = a[1]
    /\ \A a, b \in answers : a[1] = b[1] => a[2] = b[2]

TopLevel == {i \in Records : rows[i].parent = None}
Bundled == Records \ TopLevel

\* Delta sync of the records a client creates itself: with requests that do not
\* overlap every pull leaves the client with exactly what the server shows.
Shown == [i \in Records |-> IF i \in TopLevel THEN Visible(i) ELSE None]
Held == [c \in Clients |-> [i \in Records |-> IF i \in TopLevel THEN copy[c][i] ELSE None]]
Replica == INSTANCE OfflineReplica
              WITH Keys <- Records, Values <- Odos \union {None}, server <- Shown, replica <- Held
PullsAreExact == Replica!Spec

\* A pull brings the client up to date on bundled child records as well.
BundledAreExact ==
    [][\A c \in Clients : copy'[c] # copy[c] \/ cursor'[c] # cursor[c] =>
          \A i \in Bundled : copy'[c][i] = Visible(i)]_vars

=============================================================================
