-------------------------------- MODULE Garage --------------------------------
(***************************************************************************)
(* Motorcycles with their image files, the places rows are linked to, and  *)
(* the expenses shared between motorcycles.                                *)
(*                                                                         *)
(* A handler verifies what it was sent with statements of their own and    *)
(* writes later; deleting a motorcycle, deleting or merging places and     *)
(* writing an expense are transactions.  Foreign keys are enforced         *)
(* (main.rs:54): an insert or update that names a missing row is refused,  *)
(* and so is a delete that leaves a row behind under ON DELETE NO ACTION.  *)
(***************************************************************************)
EXTENDS Naturals

CONSTANTS
    Bikes,       \* ids of motorcycles rows (AUTOINCREMENT: never reused)
    Images,      \* file names: fresh UUIDs
    Places,      \* ids of locations rows
    Rows,        \* ids of rows that refer to a motorcycle or a place
    Expenses,    \* ids of expenses rows
    Requests,    \* handlers that may be in flight
    None

ASSUME NoneAssumption == None \notin Bikes \union Images \union Places \union Rows \union Expenses

VARIABLES
    bikes,       \* motorcycles
    disk,        \* files in data/images
    places,      \* locations
    rows,        \* maintenanceRecords, issues, locationRecords, storageLocations
    expenses,    \* expenses with their expenseMotorcycles rows
    req,         \* handlers in flight
    mergedInto,  \* ghost: the canonical place a merge folded a place into
    refused      \* ghost: a foreign key has refused a delete or a merge

vars == <<bikes, disk, places, rows, expenses, req, mergedInto, refused>>

NoBike == [state |-> "none", image |-> None]
NoBikes == [b \in Bikes |-> NoBike]
NoRow == [table |-> "none", bike |-> None, place |-> None, asked |-> None]
NoExpense == [state |-> "none", charged |-> {}, wanted |-> {}]
Idle == [pc |-> "idle", bike |-> None, image |-> None, row |-> None, place |-> None,
         expense |-> None, charged |-> {}]

LiveBikes == {b \in Bikes : bikes[b].state = "live"}
LivePlaces == {p \in Places : places[p] = "live"}
LiveRows == {w \in Rows : rows[w].table \notin {"none", "gone"}}

(* Location markers are rows of earlier versions: nothing inserts them any  *)
(* more, so they are there from the start or not at all.                    *)
MarkerAt(b, p) == [table |-> "marker", bike |-> b, place |-> p, asked |-> p]

Init ==
    /\ \/ /\ bikes = NoBikes
          /\ places = [p \in Places |-> "none"]
          /\ rows = [w \in Rows |-> NoRow]
       \/ \E b \in Bikes, p \in Places, w \in Rows :
             /\ bikes = [NoBikes EXCEPT ![b].state = "live"]
             /\ places = [q \in Places |-> IF q = p THEN "live" ELSE "none"]
             /\ rows = [v \in Rows |-> IF v = w THEN MarkerAt(b, p) ELSE NoRow]
    /\ disk = {}
    /\ expenses = [e \in Expenses |-> NoExpense]
    /\ req = [r \in Requests |-> Idle]
    /\ mergedInto = [p \in Places |-> None]
    /\ refused = FALSE

Goto(r, q) == req' = [req EXCEPT ![r] = q]
Finish(r) == Goto(r, Idle)
Begin(r, q) == req[r].pc = "idle" /\ Goto(r, q)

Database == <<bikes, places, rows, expenses, mergedInto, refused>>

---------------------------------------------------------------------------
(* Motorcycles.                                                             *)

(* save_image: a new name for every upload.                                 *)
SaveImage(f) ==
    /\ f \notin disk
    /\ \A b \in Bikes : bikes[b].image # f
    /\ \A r \in Requests : req[r].image # f
    /\ disk' = disk \union {f}

BeginCreateBike(r) ==
    /\ UNCHANGED Database
    /\ \/ Begin(r, [Idle EXCEPT !.pc = "insertBike"]) /\ UNCHANGED disk
       \/ \E f \in Images : SaveImage(f) /\ Begin(r, [Idle EXCEPT !.pc = "insertBike", !.image = f])

InsertBike(r, b) ==
    /\ req[r].pc = "insertBike"
    /\ bikes[b].state = "none"
    /\ bikes' = [bikes EXCEPT ![b] = [state |-> "live", image |-> req[r].image]]
    /\ Finish(r)
    /\ UNCHANGED <<disk, places, rows, expenses, mergedInto, refused>>

(* The row is read, then the parts of the form arrive.                      *)
BeginUpdateBike(r, b) ==
    /\ b \in LiveBikes
    /\ Begin(r, [Idle EXCEPT !.pc = "updateBike", !.bike = b, !.image = bikes[b].image])
    /\ UNCHANGED <<Database, disk>>

UploadImage(r, f) ==
    /\ req[r].pc = "updateBike"
    /\ SaveImage(f)
    /\ Goto(r, [req[r] EXCEPT !.image = f])
    /\ UNCHANGED Database

(* Mutant: the file an update replaces is removed.                          *)
WriteBikeTidy(r) ==
    LET b == req[r].bike IN
    /\ req[r].pc = "updateBike"
    /\ IF b \in LiveBikes
       THEN /\ bikes' = [bikes EXCEPT ![b].image = req[r].image]
            /\ disk' = IF bikes[b].image = req[r].image THEN disk ELSE disk \ {bikes[b].image}
       ELSE UNCHANGED <<bikes, disk>>
    /\ Finish(r)
    /\ UNCHANGED <<places, rows, expenses, mergedInto, refused>>

(* The replaced file stays on disk.                                         *)
WriteBike(r) ==
    /\ req[r].pc = "updateBike"
    /\ bikes' = IF req[r].bike \in LiveBikes
                THEN [bikes EXCEPT ![req[r].bike].image = req[r].image] ELSE bikes
    /\ Finish(r)
    /\ UNCHANGED <<disk, places, rows, expenses, mergedInto, refused>>

BeginDeleteBike(r, b) ==
    /\ b \in LiveBikes
    /\ Begin(r, [Idle EXCEPT !.pc = "deleteBike", !.bike = b, !.image = bikes[b].image])
    /\ UNCHANGED <<Database, disk>>

(* The tables that refer to motorcycles without a cascade.                  *)
Uncascaded == {"record", "issue", "marker"}
Children(b) == {w \in LiveRows : rows[w].bike = b}
ClearedByDeleteButIssues(b) == {w \in Children(b) : rows[w].table \in {"record", "marker"}}
ClearedByDelete(b) == {w \in Children(b) : rows[w].table \in {"record", "issue", "marker"}}

DeleteBike(r) ==
    LET b == req[r].bike IN
    /\ req[r].pc = "deleteBike"
    /\ IF b \in LiveBikes
       THEN IF {w \in Children(b) : rows[w].table \in Uncascaded} \subseteq ClearedByDelete(b)
            THEN /\ bikes' = [bikes EXCEPT ![b] = [state |-> "gone", image |-> None]]
                 /\ rows' = [w \in Rows |-> IF w \in Children(b)
                                           THEN [NoRow EXCEPT !.table = "gone"] ELSE rows[w]]
                 /\ expenses' = [e \in Expenses |-> [expenses[e] EXCEPT !.charged = @ \ {b}]]
                 /\ Goto(r, [Idle EXCEPT !.pc = "unlink", !.image = req[r].image])
                 /\ UNCHANGED refused
            ELSE Finish(r) /\ refused' = TRUE /\ UNCHANGED <<bikes, rows, expenses>>
       ELSE Finish(r) /\ UNCHANGED <<bikes, rows, expenses, refused>>
    /\ UNCHANGED <<disk, places, mergedInto>>

RemoveImage(r) ==
    /\ req[r].pc = "unlink"
    /\ disk' = disk \ {req[r].image}
    /\ Finish(r)
    /\ UNCHANGED Database

---------------------------------------------------------------------------
(* Places, and the rows that refer to them.                                 *)

CreatePlace(p) ==
    /\ places[p] = "none"
    /\ places' = [places EXCEPT ![p] = "live"]
    /\ UNCHANGED <<bikes, disk, rows, expenses, req, mergedInto, refused>>

(* verify_motorcycle_ownership and verify_location_ownership come before    *)
(* the insert.  A storage location has no motorcycle, an issue no place.    *)
VerifyBike(r, table, b) ==
    /\ b \in LiveBikes
    /\ Begin(r, [Idle EXCEPT !.pc = table, !.bike = b])
    /\ UNCHANGED <<Database, disk>>

BeginShelf(r) ==
    /\ Begin(r, [Idle EXCEPT !.pc = "shelf"])
    /\ UNCHANGED <<Database, disk>>

VerifyPlace(r, p) ==
    /\ \/ req[r].pc \in {"record", "shelf", "readRecord"}
       \/ req[r].pc = "updateRow" /\ rows[req[r].row].table = "shelf"
    /\ p \in LivePlaces
    /\ Goto(r, [req[r] EXCEPT !.place = p])
    /\ UNCHANGED <<Database, disk>>

(* A record is read after the place of the body was verified, a shelf       *)
(* before; the place that was read stands in for one the body lacks.        *)
ReadRecord(r, w) ==
    /\ req[r].pc = "readRecord"
    /\ rows[w].table = "record" /\ rows[w].bike = req[r].bike
    /\ Goto(r, [req[r] EXCEPT !.pc = "updateRow", !.row = w,
                              !.place = IF @ = None THEN rows[w].place ELSE @])
    /\ UNCHANGED <<Database, disk>>

BeginUpdateShelf(r, w) ==
    /\ rows[w].table = "shelf"
    /\ \E p \in {rows[w].place, None} :
          Begin(r, [Idle EXCEPT !.pc = "updateRow", !.row = w, !.place = p])
    /\ UNCHANGED <<Database, disk>>

KeysHold(q) ==
    /\ q.bike # None => q.bike \in LiveBikes
    /\ q.place # None => q.place \in LivePlaces

InsertRow(r, w) ==
    LET q == req[r] IN
    /\ q.pc \in {"record", "issue", "shelf"}
    /\ rows[w].table = "none"
    /\ rows' = IF KeysHold(q)
               THEN [rows EXCEPT ![w] = [table |-> q.pc, bike |-> q.bike, place |-> q.place,
                                         asked |-> q.place]]
               ELSE rows
    /\ Finish(r)
    /\ UNCHANGED <<bikes, disk, places, expenses, mergedInto, refused>>

WriteRow(r) ==
    LET q == req[r] IN
    /\ q.pc = "updateRow"
    /\ rows' = IF q.row \in LiveRows /\ KeysHold(q)
               THEN [rows EXCEPT ![q.row].place = q.place, ![q.row].asked = q.place]
               ELSE rows
    /\ Finish(r)
    /\ UNCHANGED <<bikes, disk, places, expenses, mergedInto, refused>>

At(p) == {w \in LiveRows : rows[w].place = p}

(* merge_locations: every row is pointed at the canonical place, then the   *)
(* duplicates are deleted, in one transaction.                              *)
RepointedButRecords(w, canonical) ==
    [rows[w] EXCEPT !.place = IF rows[w].table = "record" THEN None ELSE canonical]
Repointed(w, canonical) == [rows[w] EXCEPT !.place = canonical]

MergePlaces(canonical, dups) ==
    LET moved == UNION {At(d) : d \in dups}
        after == [w \in Rows |-> IF w \in moved THEN Repointed(w, canonical) ELSE rows[w]] IN
    /\ canonical \in LivePlaces
    /\ dups # {} /\ dups \subseteq LivePlaces \ {canonical}
    /\ IF \A w \in LiveRows : after[w].place \notin dups
       THEN /\ rows' = after
            /\ places' = [p \in Places |-> IF p \in dups THEN "gone" ELSE places[p]]
            /\ mergedInto' = [p \in Places |-> IF p \in dups THEN canonical ELSE mergedInto[p]]
            /\ UNCHANGED refused
       ELSE refused' = TRUE /\ UNCHANGED <<rows, places, mergedInto>>
    /\ UNCHANGED <<bikes, disk, expenses, req>>

(* delete_location: records and storage locations lose the place, markers   *)
(* go.                                                                      *)
Detached(w) ==
    IF rows[w].table = "marker" THEN [NoRow EXCEPT !.table = "gone"]
    ELSE [rows[w] EXCEPT !.place = None]

DeletePlace(p) ==
    LET after == [w \in Rows |-> IF w \in At(p) THEN Detached(w) ELSE rows[w]] IN
    /\ p \in LivePlaces
    /\ IF \A w \in LiveRows : after[w].place # p
       THEN rows' = after /\ places' = [places EXCEPT ![p] = "gone"] /\ UNCHANGED refused
       ELSE refused' = TRUE /\ UNCHANGED <<rows, places>>
    /\ UNCHANGED <<bikes, disk, expenses, req, mergedInto>>

---------------------------------------------------------------------------
(* Expenses and the motorcycles they are charged to.                        *)

BeginExpense(r) ==
    /\ Begin(r, [Idle EXCEPT !.pc = "expense"])
    /\ UNCHANGED <<Database, disk>>

BeginUpdateExpense(r, e) ==
    /\ expenses[e].state = "live"
    /\ Begin(r, [Idle EXCEPT !.pc = "updateExpense", !.expense = e])
    /\ UNCHANGED <<Database, disk>>

(* One ownership check for each motorcycle of the body.                     *)
ChargeTo(r, b) ==
    /\ req[r].pc \in {"expense", "updateExpense"}
    /\ b \in LiveBikes \ req[r].charged
    /\ Goto(r, [req[r] EXCEPT !.charged = @ \union {b}])
    /\ UNCHANGED <<Database, disk>>

(* The junction rows are written one by one in the transaction of their     *)
(* expense; a foreign key that refuses one undoes all.                      *)
ChargedOneByOne(e, set) ==
    [expenses EXCEPT ![e] = [state |-> "live", charged |-> set \intersect LiveBikes,
                             wanted |-> IF set \subseteq LiveBikes THEN set ELSE @.wanted]]
Charged(e, set) ==
    IF set \subseteq LiveBikes
    THEN [expenses EXCEPT ![e] = [state |-> "live", charged |-> set, wanted |-> set]]
    ELSE expenses

InsertExpense(r, e) ==
    /\ req[r].pc = "expense"
    /\ expenses[e].state = "none"
    /\ expenses' = Charged(e, req[r].charged)
    /\ Finish(r)
    /\ UNCHANGED <<bikes, disk, places, rows, mergedInto, refused>>

WriteExpense(r) ==
    LET e == req[r].expense IN
    /\ req[r].pc = "updateExpense"
    /\ expenses' = IF expenses[e].state = "live" THEN Charged(e, req[r].charged) ELSE expenses
    /\ Finish(r)
    /\ UNCHANGED <<bikes, disk, places, rows, mergedInto, refused>>

DeleteExpense(e) ==
    /\ expenses[e].state = "live"
    /\ expenses' = [expenses EXCEPT ![e] = [NoExpense EXCEPT !.state = "gone"]]
    /\ UNCHANGED <<bikes, disk, places, rows, req, mergedInto, refused>>

---------------------------------------------------------------------------
Motorcycle(r) ==
    \/ BeginCreateBike(r)
    \/ \E b \in Bikes : InsertBike(r, b) \/ BeginUpdateBike(r, b) \/ BeginDeleteBike(r, b)
    \/ \E f \in Images : UploadImage(r, f)
    \/ WriteBike(r)
    \/ DeleteBike(r)
    \/ RemoveImage(r)

Place ==
    \/ \E p \in Places : CreatePlace(p) \/ DeletePlace(p)
    \/ \E p \in Places, dups \in SUBSET Places : MergePlaces(p, dups)

Linked(r) ==
    \/ \E b \in Bikes, table \in {"record", "issue", "readRecord"} : VerifyBike(r, table, b)
    \/ BeginShelf(r)
    \/ \E w \in Rows : ReadRecord(r, w) \/ BeginUpdateShelf(r, w) \/ InsertRow(r, w)
    \/ \E p \in Places : VerifyPlace(r, p)
    \/ WriteRow(r)

Expense(r) ==
    \/ BeginExpense(r)
    \/ \E e \in Expenses : BeginUpdateExpense(r, e) \/ InsertExpense(r, e)
    \/ \E b \in Bikes : ChargeTo(r, b)
    \/ WriteExpense(r)

(* The client hangs up: the handler is dropped where it waits, a            *)
(* transaction it is in is rolled back.                                     *)
HangUp(r) ==
    /\ req[r].pc # "idle"
    /\ Finish(r)
    /\ UNCHANGED <<Database, disk>>

Next ==
    \/ Place
    \/ \E r \in Requests : Motorcycle(r) \/ Linked(r) \/ Expense(r) \/ HangUp(r)
    \/ \E e \in Expenses : DeleteExpense(e)

Spec == Init /\ [][Next]_vars

---------------------------------------------------------------------------
(* Properties.                                                              *)

BikeType == [state : {"none", "live", "gone"}, image : Images \union {None}]
RowType == [table : {"none", "record", "issue", "marker", "shelf", "gone"},
            bike : Bikes \union {None}, place : Places \union {None},
            asked : Places \union {None}]
ExpenseType == [state : {"none", "live", "gone"}, charged : SUBSET Bikes, wanted : SUBSET Bikes]
PCs == {"idle", "insertBike", "updateBike", "deleteBike", "unlink", "record", "issue", "shelf",
        "readRecord", "updateRow", "expense", "updateExpense"}
ReqType == [pc : PCs, bike : Bikes \union {None}, image : Images \union {None},
            row : Rows \union {None}, place : Places \union {None},
            expense : Expenses \union {None}, charged : SUBSET Bikes]

(* Types, and the NOT NULL columns of the rows.                             *)
TypeOK ==
    /\ bikes \in [Bikes -> BikeType]
    /\ disk \subseteq Images
    /\ places \in [Places -> {"none", "live", "gone"}]
    /\ rows \in [Rows -> RowType]
    /\ \A w \in LiveRows :
          /\ rows[w].table # "shelf" => rows[w].bike # None
          /\ rows[w].table = "marker" => rows[w].place # None
    /\ expenses \in [Expenses -> ExpenseType]
    /\ req \in [Requests -> ReqType]

(* A motorcycle's image is on disk, whatever overlaps: an update writes     *)
(* back the name it read, and only the delete of the row removes the file.  *)
ImagesOnDisk == \A b \in LiveBikes : bikes[b].image # None => bikes[b].image \in disk

(* The places a link to p may be at by now: p, and what the merges in       *)
(* `into` have made of it.                                                  *)
Heirs(into, p) ==
    {q \in Places : \A S \in SUBSET Places :
        p \in S /\ (\A x \in S : into[x] # None => into[x] \in S) => q \in S}

(* Merging keeps links, deleting drops them: a row's place is the one it    *)
(* was last given, followed through every merge since, unless the end of    *)
(* that chain was deleted.                                                  *)
Survivors(p) == IF p = None THEN {} ELSE Heirs(mergedInto, p) \intersect LivePlaces
LinksFollowMerges ==
    \A w \in LiveRows : Survivors(rows[w].asked) = {rows[w].place} \ {None}

(* An expense is charged to exactly the motorcycles the last accepted body  *)
(* named, less the ones deleted since: never to a part of them.             *)
ExpensesWhole ==
    \A e \in Expenses : expenses[e].state = "live" =>
       expenses[e].charged = expenses[e].wanted \intersect LiveBikes

(* No foreign key refuses the delete of a motorcycle or a place, or a       *)
(* merge: the transaction clears or repoints every row that would hold it.  *)
DeletesGoThrough == ~refused
=============================================================================
