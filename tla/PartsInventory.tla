--------------------------- MODULE PartsInventory ---------------------------
(***************************************************************************)
(* The parts inventory: purchases (partStocks) and consumptions            *)
(* (partConsumptions) of parts, booked against maintenance records.  What  *)
(* is on hand is derived from the live rows; maintenanceRecords.partsCost  *)
(* is stored and recomputed by the handlers after they commit.             *)
(*                                                                         *)
(* A handler checks first and writes later, so other requests run between  *)
(* its steps.  pool.begin() is a DEFERRED transaction: its first read      *)
(* fixes a snapshot, and its write fails (SQLITE_BUSY_SNAPSHOT) when       *)
(* another commit has happened since; `stale` says that one has.  Prices   *)
(* are left out: a partsCost is the quantities per part it was computed    *)
(* from.  Parts, records and rows belong to one user.                      *)
(***************************************************************************)
EXTENDS Inventory, Integers, FiniteSets

CONSTANTS
    Parts, Records,      \* the user's parts and maintenance records
    Uses,                \* ids of partConsumptions rows ever inserted
    MaxQuantity, MaxAborts   \* bounds

\* Ids of two tables; `live` holds both kinds.
ASSUME IdAssumption == Parts \intersect Records = {}
ASSUME NoneAssumption == None \notin Parts \union Records \union Stocks \union Uses
ASSUME BoundAssumption == MaxQuantity \in Nat \ {0} /\ MaxAborts \in Nat

Quantities == 1 .. MaxQuantity

VARIABLES
    live,        \* the parts and records without deletedAt
    stocks,      \* partStocks
    uses,        \* partConsumptions
    partsCost,   \* maintenanceRecords.partsCost
    req,         \* the handlers in flight
    aborts       \* bound: handlers that stopped half-way

tables == <<live, stocks, uses, partsCost>>
vars == <<live, stocks, uses, partsCost, req, aborts>>

NoStock == [state |-> "none", part |-> None, quantity |-> 0]
NoUse == [state |-> "none", part |-> None, record |-> None, quantity |-> 0]
Idle == [pc |-> "idle", part |-> None, row |-> None, record |-> None,
         quantity |-> 0, delta |-> 0, stale |-> FALSE, costs |-> {}, cost |-> None]

Init ==
    /\ live = Parts \union Records
    /\ stocks = [s \in Stocks |-> NoStock]
    /\ uses = [c \in Uses |-> NoUse]
    /\ partsCost = [m \in Records |-> None]
    /\ req = [r \in Requests |-> Idle]
    /\ aborts = 0

LiveStocks(p) == {s \in Stocks : stocks[s].state = "live" /\ stocks[s].part = p}
LiveUses(p) == {c \in Uses : uses[c].state = "live" /\ uses[c].part = p}
UsesOf(m) == {c \in Uses : uses[c].state = "live" /\ uses[c].record = m}

\* SUM(quantity) over the rows S of a table: how many single units they stand for.
Units(table, S) == UNION {{i} \X (1 .. table[i].quantity) : i \in S}
Total(table, S) == Cardinality(Units(table, S))

\* ON_HAND_SQL: live stock minus live consumption.
OnHand(p) == Total(stocks, LiveStocks(p)) - Total(uses, LiveUses(p))

\* What recalculate_parts_cost derives a record's cost from; NULL without any use.
Booked(m) ==
    IF UsesOf(m) = {} THEN None
    ELSE [p \in Parts |-> Total(uses, UsesOf(m) \intersect LiveUses(p))]

\* Handlers inside a transaction whose snapshot an earlier read has fixed.
Reading == {"insertUse", "editUse"}

At(r, pc) == req[r].pc = pc
Start(r, q) == At(r, "idle") /\ req' = [req EXCEPT ![r] = q]
Goto(r, pc) == req' = [req EXCEPT ![r].pc = pc]
Finish(r) == req' = [req EXCEPT ![r] = Idle]
\* Handler r commits a write and goes on as q: every other open snapshot is stale.
Commit(r, q) ==
    req' = [x \in Requests |->
               IF x = r THEN q
               ELSE IF req[x].pc \in Reading THEN [req[x] EXCEPT !.stale = TRUE]
               ELSE req[x]]
\* ... and recomputes the cost of the records in M, one after the other.
CommitThenCost(r, M) ==
    Commit(r, IF M = {} THEN Idle ELSE [Idle EXCEPT !.pc = "readCost", !.costs = M])
\* Checks that decide before anything is written.
Quiet == UNCHANGED <<live, stocks, uses, partsCost, aborts>>

OfRecord(m) == IF m = None THEN {} ELSE {m}

---------------------------------------------------------------------------
(* Purchases.                                                               *)

BeginStock(r, p, n) ==
    /\ p \in live
    /\ Start(r, [Idle EXCEPT !.pc = "insertStock", !.part = p, !.quantity = n])
    /\ Quiet

InsertStock(r) ==
    /\ At(r, "insertStock")
    /\ \E s \in Stocks :
          /\ stocks[s].state = "none"
          /\ stocks' = [stocks EXCEPT ![s] = [state |-> "live", part |-> req[r].part,
                                              quantity |-> req[r].quantity]]
    /\ Commit(r, Idle)
    /\ UNCHANGED <<live, uses, partsCost, aborts>>

\* The request names a quantity, or the one read here is written back.
BeginStockEdit(r, s, n) ==
    /\ stocks[s].state = "live"
    /\ Start(r, [Idle EXCEPT !.pc = "editStock", !.row = s, !.quantity = n])
    /\ Quiet

EditStock(r) ==
    /\ At(r, "editStock")
    /\ stocks' = [stocks EXCEPT ![req[r].row].quantity = req[r].quantity]
    /\ Commit(r, Idle)
    /\ UNCHANGED <<live, uses, partsCost, aborts>>

\* A correction: on-hand may become negative on purpose.
DeleteStock(r, s) ==
    /\ At(r, "idle") /\ stocks[s].state = "live"
    /\ stocks' = [stocks EXCEPT ![s].state = "deleted"]
    /\ Commit(r, Idle)
    /\ UNCHANGED <<live, uses, partsCost, aborts>>

---------------------------------------------------------------------------
(* Consumptions.                                                            *)

BeginUse(r, p, m, n) ==
    /\ p \in live /\ (m # None => m \in live)
    /\ Start(r, [Idle EXCEPT !.pc = "checkUse", !.part = p, !.record = m, !.quantity = n])
    /\ Quiet

\* BEGIN and on_hand: fixes the snapshot; not enough stock ends the request.
CheckUse(r) ==
    /\ At(r, "checkUse")
    /\ IF req[r].quantity > OnHand(req[r].part) THEN Finish(r) ELSE Goto(r, "insertUse")
    /\ Quiet

NewUse(r) == [state |-> "live", part |-> req[r].part, record |-> req[r].record,
              quantity |-> req[r].quantity]
InsertUseAnyway(r) ==
    /\ At(r, "insertUse")
    /\ \E c \in Uses :
          /\ uses[c].state = "none"
          /\ uses' = [uses EXCEPT ![c] = NewUse(r)]
    /\ CommitThenCost(r, OfRecord(req[r].record))
    /\ UNCHANGED <<live, stocks, partsCost, aborts>>
InsertUse(r) ==
    /\ At(r, "insertUse")
    /\ ~req[r].stale
    /\ \E c \in Uses :
          /\ uses[c].state = "none"
          /\ uses' = [uses EXCEPT ![c] = NewUse(r)]
    /\ CommitThenCost(r, OfRecord(req[r].record))
    /\ UNCHANGED <<live, stocks, partsCost, aborts>>

\* The INSERT or UPDATE on a stale snapshot is refused.
RefuseStale(r) ==
    /\ req[r].pc \in Reading /\ req[r].stale
    /\ Finish(r)
    /\ Quiet

\* update_part_consumption reads the row, and thereby the delta, before BEGIN.
BeginUseEdit(r, c, n) ==
    /\ uses[c].state = "live"
    /\ Start(r, [Idle EXCEPT !.pc = "checkEdit", !.row = c, !.part = uses[c].part,
                             !.record = uses[c].record, !.quantity = n,
                             !.delta = n - uses[c].quantity])
    /\ Quiet

\* Only an increase has to be covered; otherwise the UPDATE itself opens the
\* transaction and there is no snapshot to go stale.
CheckEditDropped(r) ==
    /\ At(r, "checkEdit") /\ req[r].delta > 0
    /\ Goto(r, "editUse")
    /\ Quiet
CheckEdit(r) ==
    /\ At(r, "checkEdit") /\ req[r].delta > 0
    /\ IF req[r].delta > OnHand(req[r].part) THEN Finish(r) ELSE Goto(r, "editUse")
    /\ Quiet

EditUse(r) ==
    /\ \/ At(r, "editUse") /\ ~req[r].stale
       \/ At(r, "checkEdit") /\ req[r].delta <= 0
    /\ uses' = [uses EXCEPT ![req[r].row].quantity = req[r].quantity]
    /\ CommitThenCost(r, OfRecord(req[r].record))
    /\ UNCHANGED <<live, stocks, partsCost, aborts>>

BeginUseDelete(r, c) ==
    /\ uses[c].state = "live"
    /\ Start(r, [Idle EXCEPT !.pc = "deleteUse", !.row = c, !.record = uses[c].record])
    /\ Quiet

\* The tombstone; already gone is a 404 before the cost is recomputed.
DeleteUse(r) ==
    /\ At(r, "deleteUse")
    /\ IF uses[req[r].row].state = "live"
       THEN /\ uses' = [uses EXCEPT ![req[r].row].state = "deleted"]
            /\ CommitThenCost(r, OfRecord(req[r].record))
       ELSE Finish(r) /\ UNCHANGED uses
    /\ UNCHANGED <<live, stocks, partsCost, aborts>>

---------------------------------------------------------------------------
(* Cascades, and the stored cost.                                           *)

Tombstone(C) ==
    uses' = [c \in Uses |-> IF c \in C THEN [uses[c] EXCEPT !.state = "deleted"] ELSE uses[c]]

\* delete_part notes the records it will have to recompute before it begins.
BeginPartDelete(r, p) ==
    /\ p \in live
    /\ Start(r, [Idle EXCEPT !.pc = "cascade", !.part = p,
                    !.costs = {m \in Records : \E c \in LiveUses(p) : uses[c].record = m}])
    /\ Quiet

CascadeForgetsStock(r) ==
    /\ At(r, "cascade")
    /\ LET p == req[r].part IN
       /\ live' = live \ {p}
       /\ Tombstone(LiveUses(p))
    /\ CommitThenCost(r, req[r].costs)
    /\ UNCHANGED <<stocks, partsCost, aborts>>
Cascade(r) ==
    /\ At(r, "cascade")
    /\ LET p == req[r].part IN
       /\ live' = live \ {p}
       /\ stocks' = [s \in Stocks |-> IF s \in LiveStocks(p)
                                      THEN [stocks[s] EXCEPT !.state = "deleted"] ELSE stocks[s]]
       /\ Tombstone(LiveUses(p))
    /\ CommitThenCost(r, req[r].costs)
    /\ UNCHANGED <<partsCost, aborts>>

\* delete_maintenance: the record and what it consumed, in one transaction that
\* starts with its UPDATE.
DeleteRecord(r, m) ==
    /\ At(r, "idle") /\ m \in live
    /\ live' = live \ {m}
    /\ Tombstone(UsesOf(m))
    /\ Commit(r, Idle)
    /\ UNCHANGED <<stocks, partsCost, aborts>>

\* recalculate_parts_cost: read the live consumptions ...
ReadCost(r) ==
    /\ At(r, "readCost")
    /\ \E m \in req[r].costs :
          req' = [req EXCEPT ![r] = [req[r] EXCEPT !.pc = "writeCost", !.record = m, !.cost = Booked(m)]]
    /\ Quiet

\* ... then write what they amount to, if it differs.
NextCost(r) ==
    LET left == req[r].costs \ {req[r].record} IN
    IF left = {} THEN Idle ELSE [Idle EXCEPT !.pc = "readCost", !.costs = left]
WriteCostIfBooked(r) ==
    /\ At(r, "writeCost")
    /\ partsCost' = [partsCost EXCEPT ![req[r].record] = IF req[r].cost = None THEN @ ELSE req[r].cost]
    /\ Commit(r, NextCost(r))
    /\ UNCHANGED <<live, stocks, uses, aborts>>
WriteCost(r) ==
    /\ At(r, "writeCost")
    /\ partsCost' = [partsCost EXCEPT ![req[r].record] = req[r].cost]
    /\ Commit(r, NextCost(r))
    /\ UNCHANGED <<live, stocks, uses, aborts>>

\* A dropped connection or a failing statement between two steps.
Abort(r) ==
    /\ ~At(r, "idle") /\ aborts < MaxAborts
    /\ aborts' = aborts + 1
    /\ Finish(r)
    /\ UNCHANGED tables

---------------------------------------------------------------------------
Purchase(r) ==
    \/ \E p \in Parts, n \in Quantities : BeginStock(r, p, n)
    \/ InsertStock(r)
    \/ \E s \in Stocks, n \in Quantities : BeginStockEdit(r, s, n)
    \/ EditStock(r)
    \/ \E s \in Stocks : DeleteStock(r, s)
Consumption(r) ==
    \/ \E p \in Parts, m \in Records \union {None}, n \in Quantities : BeginUse(r, p, m, n)
    \/ CheckUse(r) \/ InsertUse(r)
    \/ \E c \in Uses, n \in Quantities : BeginUseEdit(r, c, n)
    \/ CheckEdit(r) \/ EditUse(r)
    \/ \E c \in Uses : BeginUseDelete(r, c)
    \/ DeleteUse(r)
    \/ RefuseStale(r)
Deletion(r) ==
    \/ \E p \in Parts : BeginPartDelete(r, p)
    \/ Cascade(r)
    \/ \E m \in Records : DeleteRecord(r, m)
Costing(r) == ReadCost(r) \/ WriteCost(r)

\* Where the bounded history ends: every row id is given out, or nothing is left
\* to work on.
Exhausted ==
    \/ \A s \in Stocks : stocks[s].state # "none"
    \/ \A c \in Uses : uses[c].state # "none"
    \/ live = {}
Stop == Exhausted /\ UNCHANGED vars

Handling(r) == Purchase(r) \/ Consumption(r) \/ Deletion(r) \/ Costing(r) \/ Abort(r)

Next == (\E r \in Requests : Handling(r)) \/ Stop

Spec == Init /\ [][Next]_vars

---------------------------------------------------------------------------
(* Properties.                                                              *)

PCs == {"idle", "insertStock", "editStock", "checkUse", "insertUse", "checkEdit", "editUse",
        "deleteUse", "cascade", "readCost", "writeCost"}
States == {"none", "live", "deleted"}
Costs == [Parts -> Nat] \union {None}
StockType == [state : States, part : Parts \union {None}, quantity : 0 .. MaxQuantity]
UseType == [state : States, part : Parts \union {None}, record : Records \union {None}, quantity : 0 .. MaxQuantity]
ReqType == [pc : PCs, part : Parts \union {None}, row : Stocks \union Uses \union {None},
            record : Records \union {None}, quantity : 0 .. MaxQuantity, delta : Int, stale : BOOLEAN,
            costs : SUBSET Records, cost : Costs]

\* The tables and the handlers have their types; a row in use has a quantity.
TypeOK ==
    /\ live \subseteq Parts \union Records
    /\ stocks \in [Stocks -> StockType]
    /\ uses \in [Uses -> UseType]
    /\ partsCost \in [Records -> Costs]
    /\ req \in [Requests -> ReqType]
    /\ aborts \in 0 .. MaxAborts

\* However requests overlap, a new consumption is booked only while what is on
\* hand covers it: create_part_consumption checks and inserts on one snapshot.
NewUseIsCovered ==
    [][\A c \in Uses, p \in Parts :
          uses[c].state = "none" /\ uses'[c].state = "live" /\ uses'[c].part = p =>
              OnHand(p)' >= 0]_vars

\* Neither a new consumption nor a larger one takes what is on hand below zero;
\* only corrections of purchases may.
NoOverdraft ==
    \A c \in Uses, p \in Parts :
        /\ uses'[c].state = "live" /\ uses'[c].part = p
        /\ uses'[c].quantity > uses[c].quantity
        => OnHand(p)' >= 0

Recosting(m) == \E r \in Requests : m \in req[r].costs
\* The stored cost of a record is the one of its live consumptions, as soon as
\* no handler is still about to recompute it.
CostIsCurrent ==
    \A m \in Records : m \in live /\ ~Recosting(m) => partsCost[m] = Booked(m)

\* Deleting a part leaves neither a live purchase nor a live consumption of it.
NothingLiveOnDeletedPart ==
    \A p \in Parts \ live : LiveStocks(p) = {} /\ LiveUses(p) = {}

\* Deleting a maintenance record gives back what it consumed: no deleted record
\* keeps a live consumption.
DeletedRecordGivesBack == \A m \in Records \ live : UsesOf(m) = {}

\* Deletions take what hangs on the deleted row with them, and give it back.
DeletionsCascade == NothingLiveOnDeletedPart /\ DeletedRecordGivesBack

=============================================================================
