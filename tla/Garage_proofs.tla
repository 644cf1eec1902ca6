---------------------------- MODULE Garage_proofs -----------------------------
(***************************************************************************)
(* For any number of motorcycles, images, places, rows, expenses and       *)
(* requests: a motorcycle's image stays on disk, an expense is charged to  *)
(* whom it was said, no foreign key refuses a delete, and a row stays at   *)
(* the place it was given, or at what merges have made of that place.      *)
(***************************************************************************)
EXTENDS Garage, TLAPS

\* What a handler carries between its statements.
Carries(q) ==
    /\ q.pc \in {"record", "issue", "readRecord"} => q.bike \in Bikes
    /\ q.pc \in {"updateBike", "deleteBike"} => q.bike \in Bikes /\ bikes[q.bike].state # "none"
    /\ q.pc = "updateRow" => q.row \in Rows /\ rows[q.row].table \in {"record", "shelf", "gone"}
    /\ q.pc = "updateExpense" => q.expense \in Expenses

\* Who may still put an image into a row, and who may still remove its file.
Keeps(q) == q.pc = "insertBike" \/ (q.pc = "updateBike" /\ q.bike \in LiveBikes)
Removes(q) == q.pc = "unlink" \/ (q.pc = "deleteBike" /\ q.bike \in LiveBikes)
OfBike(q, b) == q.pc \in {"updateBike", "deleteBike"} /\ q.bike = b

\* An image that is carried is no other motorcycle's, and one to be kept is on disk.
Unshared(q) ==
    q.image # None /\ (Keeps(q) \/ Removes(q)) =>
        /\ Keeps(q) => q.image \in disk
        /\ \A b \in LiveBikes : OfBike(q, b) \/ bikes[b].image # q.image
\* Two handlers with one image have it from one motorcycle, if one will keep it.
Apart(q, p) ==
    q.image # None /\ q.image = p.image /\ Keeps(q) /\ (Keeps(p) \/ Removes(p)) =>
        OfBike(q, q.bike) /\ OfBike(p, q.bike)

ImagesSafe ==
    /\ ImagesOnDisk
    /\ \A b, c \in LiveBikes : bikes[b].image = bikes[c].image /\ bikes[b].image # None => b = c
    /\ \A r \in Requests : Unshared(req[r])
    /\ \A r, s \in Requests : r # s => Apart(req[r], req[s])

\* Nobody is charged who was not there, so a motorcycle added later is in no expense.
ExpensesSafe ==
    /\ ExpensesWhole
    /\ \A e \in Expenses : \A b \in expenses[e].wanted : bikes[b].state # "none"

Inv ==
    /\ TypeOK
    /\ \A r \in Requests : Carries(req[r])
    /\ ImagesSafe
    /\ ExpensesSafe
    /\ DeletesGoThrough

---------------------------------------------------------------------------
LEMMA IdleCarries == Idle \in ReqType /\ Idle.pc = "idle" /\ Idle.image = None /\ Carries(Idle)
<1>1. Idle \in ReqType
  BY Zenon DEF Idle, ReqType, PCs
<1> QED
  BY <1>1 DEF Idle, Carries

LEMMA InitInv == Init => Inv
<1> SUFFICES ASSUME Init PROVE Inv
  OBVIOUS
<1>1. \A r \in Requests : req[r] = Idle
  BY DEF Init
<1>2. bikes \in [Bikes -> BikeType] /\ \A b \in Bikes : bikes[b].image = None
  <2>1. NoBike \in BikeType /\ NoBikes \in [Bikes -> BikeType]
    BY DEF NoBike, NoBikes, BikeType
  <2>2. \A b \in Bikes : /\ [NoBikes EXCEPT ![b].state = "live"] \in [Bikes -> BikeType]
                         /\ \A c \in Bikes : [NoBikes EXCEPT ![b].state = "live"][c].image = None
    BY DEF NoBike, NoBikes, BikeType
  <2> QED
    BY <2>1, <2>2 DEF Init, NoBikes, NoBike
<1>3. NoRow \in RowType /\ NoRow.table = "none"
  BY DEF NoRow, RowType
<1>4. \A b \in Bikes, p \in Places :
        /\ MarkerAt(b, p) \in RowType /\ MarkerAt(b, p).table = "marker"
        /\ MarkerAt(b, p).bike # None /\ MarkerAt(b, p).place # None
  BY NoneAssumption DEF MarkerAt, RowType
<1>5. /\ rows \in [Rows -> RowType]
      /\ \A w \in LiveRows : rows[w].bike # None /\ rows[w].place # None
  BY <1>3, <1>4 DEF Init, LiveRows
<1>6. /\ expenses \in [Expenses -> ExpenseType]
      /\ \A e \in Expenses : expenses[e].state = "none" /\ expenses[e].wanted = {}
  BY DEF Init, NoExpense, ExpenseType
<1>7. TypeOK
  BY <1>2, <1>5, <1>6, IdleCarries DEF Init, TypeOK
<1>8. ImagesSafe
  <2>1. \A q : Apart(Idle, q) /\ Unshared(Idle)
    BY IdleCarries DEF Apart, Unshared
  <2> QED
    BY <1>1, <1>2, <2>1 DEF ImagesSafe, ImagesOnDisk, LiveBikes
<1>9. ExpensesSafe
  BY <1>6 DEF ExpensesSafe, ExpensesWhole
<1>10. \A r \in Requests : Carries(req[r])
  BY <1>1, IdleCarries
<1> QED
  BY <1>7, <1>8, <1>9, <1>10 DEF Inv, DeletesGoThrough, Init

---------------------------------------------------------------------------
\* One handler goes on as q.  What is to show of it: its type, what it carries, and
\* its image.

Goes(r, q) == req' \in [Requests -> ReqType] /\ req'[r] = q
              /\ \A s \in Requests \ {r} : req'[s] = req[s]

LEMMA GoesTo ==
    ASSUME Inv, NEW r \in Requests, NEW q \in ReqType, Goto(r, q)
    PROVE  Goes(r, q)
BY DEF Goto, Goes, Inv, TypeOK

LEMMA Finishes ==
    ASSUME Inv, NEW r \in Requests, Finish(r)
    PROVE  Goes(r, Idle)
BY GoesTo, IdleCarries DEF Finish

\* While motorcycles stay and no file is removed, it is enough to look at q.
LEMMA ImagesStay ==
    ASSUME Inv, NEW r \in Requests, NEW q \in ReqType, Goes(r, q),
           UNCHANGED bikes, disk \subseteq disk',
           Unshared(q)', \A s \in Requests \ {r} : Apart(q, req[s]) /\ Apart(req[s], q)
    PROVE  ImagesSafe'
<1>1. ImagesSafe
  BY DEF Inv
<1>2. LiveBikes' = LiveBikes
  BY DEF LiveBikes
<1>3. ImagesOnDisk' /\ \A b, c \in LiveBikes' :
        bikes'[b].image = bikes'[c].image /\ bikes'[b].image # None => b = c
  BY <1>1, <1>2 DEF ImagesSafe, ImagesOnDisk
<1>4. \A s \in Requests : Unshared(req[s])'
  <2> TAKE s \in Requests
  <2>1. CASE s = r
    BY <2>1 DEF Goes
  <2>2. CASE s # r
    BY <2>2, <1>1, <1>2 DEF Goes, ImagesSafe, Unshared, Keeps, Removes, OfBike
  <2> QED
    BY <2>1, <2>2
<1>5. \A s, t \in Requests : s # t => Apart(req[s], req[t])'
  <2> TAKE s, t \in Requests
  <2>1. CASE s = r /\ t # r
    BY <2>1, <1>2 DEF Goes, Apart, Keeps, Removes, OfBike
  <2>2. CASE s # r /\ t = r
    BY <2>2, <1>2 DEF Goes, Apart, Keeps, Removes, OfBike
  <2>3. CASE s # r /\ t # r
    BY <2>3, <1>1, <1>2 DEF Goes, ImagesSafe, Apart, Keeps, Removes, OfBike
  <2> QED
    BY <2>1, <2>2, <2>3
<1> QED
  BY <1>3, <1>4, <1>5 DEF ImagesSafe

\* A handler that carries no image can do nothing to one.
LEMMA NoImage ==
    ASSUME NEW q, q.image = None
    PROVE  Unshared(q)' /\ \A p : Apart(q, p) /\ Apart(p, q)
BY DEF Unshared, Apart

\* An image under a new name is nobody else's.
LEMMA NewImage ==
    ASSUME Inv, NEW r \in Requests, NEW f \in Images, SaveImage(f), UNCHANGED bikes,
           NEW q, q.image = f
    PROVE  Unshared(q)' /\ \A s \in Requests \ {r} : Apart(q, req[s]) /\ Apart(req[s], q)
BY DEF SaveImage, Unshared, Apart, LiveBikes

\* The image that is read from a live row is that row's, and on disk.
LEMMA ReadImage ==
    ASSUME Inv, NEW r \in Requests, NEW b \in LiveBikes, NEW q,
           OfBike(q, b), q.image = bikes[b].image, UNCHANGED <<bikes, disk>>
    PROVE  Unshared(q)' /\ \A s \in Requests \ {r} : Apart(q, req[s]) /\ Apart(req[s], q)
<1>1. ImagesSafe
  BY DEF Inv
<1>2. Unshared(q)'
  BY <1>1 DEF ImagesSafe, ImagesOnDisk, Unshared, OfBike, LiveBikes
<1>3. ASSUME NEW s \in Requests \ {r} PROVE Apart(q, req[s]) /\ Apart(req[s], q)
  BY <1>1, <1>3 DEF ImagesSafe, Unshared, Apart, OfBike, Keeps, Removes
<1> QED
  BY <1>2, <1>3

---------------------------------------------------------------------------
\* Steps that write no row.

LEMMA OnlyHandler ==
    ASSUME Inv, NEW r \in Requests, NEW q \in ReqType, Goes(r, q), UNCHANGED Database,
           disk \subseteq disk', disk' \subseteq Images, Carries(q),
           Unshared(q)', \A s \in Requests \ {r} : Apart(q, req[s]) /\ Apart(req[s], q)
    PROVE  Inv'
<1>1. UNCHANGED <<bikes, places, rows, expenses, refused>>
  BY DEF Database
<1>2. ImagesSafe'
  BY <1>1, ImagesStay
<1>3. TypeOK'
  BY <1>1 DEF Inv, TypeOK, Goes, LiveRows
<1>4. \A s \in Requests : Carries(req[s])'
  BY <1>1 DEF Inv, Goes, Carries
<1>5. ExpensesSafe' /\ DeletesGoThrough'
  BY <1>1 DEF Inv, ExpensesSafe, ExpensesWhole, DeletesGoThrough, LiveBikes
<1> QED
  BY <1>2, <1>3, <1>4, <1>5 DEF Inv

LEMMA PlainHandler ==
    ASSUME Inv, NEW r \in Requests, NEW q \in ReqType, Goto(r, q), q.image = None, Carries(q),
           UNCHANGED <<Database, disk>>
    PROVE  Inv'
<1>1. Goes(r, q)
  BY GoesTo
<1>2. disk \subseteq disk' /\ disk' \subseteq Images /\ UNCHANGED Database
  BY DEF Inv, TypeOK
<1>3. Unshared(q)' /\ \A s \in Requests \ {r} : Apart(q, req[s]) /\ Apart(req[s], q)
  BY NoImage
<1> QED
  BY <1>1, <1>2, <1>3, OnlyHandler

LEMMA CreateBikeStep ==
    ASSUME Inv, NEW r \in Requests, BeginCreateBike(r)
    PROVE  Inv'
<1>1. CASE Begin(r, [Idle EXCEPT !.pc = "insertBike"]) /\ UNCHANGED disk
  <2> DEFINE q == [Idle EXCEPT !.pc = "insertBike"]
  <2>1. q \in ReqType
    BY IdleCarries, Zenon DEF ReqType, PCs
  <2>2. q.image = None /\ Carries(q)
    BY DEF Idle, Carries
  <2>3. Goto(r, q) /\ UNCHANGED <<Database, disk>>
    BY <1>1 DEF Begin, BeginCreateBike
  <2> HIDE DEF q
  <2> QED
    BY <2>1, <2>2, <2>3, PlainHandler
<1>2. ASSUME NEW f \in Images, SaveImage(f),
             Begin(r, [Idle EXCEPT !.pc = "insertBike", !.image = f])
      PROVE  Inv'
  <2> DEFINE q == [Idle EXCEPT !.pc = "insertBike", !.image = f]
  <2>1. q \in ReqType
    BY IdleCarries, Zenon DEF ReqType, PCs
  <2>2. q.image = f /\ Carries(q)
    BY DEF Idle, Carries
  <2>3. Goes(r, q)
    BY <1>2, <2>1, GoesTo DEF Begin
  <2>4. disk \subseteq disk' /\ disk' \subseteq Images
    BY <1>2 DEF SaveImage, Inv, TypeOK
  <2>5. UNCHANGED Database /\ UNCHANGED bikes
    BY DEF BeginCreateBike, Database
  <2> HIDE DEF q
  <2> QED
    BY <1>2, <2>1, <2>2, <2>3, <2>4, <2>5, NewImage, OnlyHandler
<1> QED
  BY <1>1, <1>2 DEF BeginCreateBike

\* Of an update or a delete of a motorcycle that begins.
LEMMA ReadBikeStep ==
    ASSUME Inv, NEW r \in Requests, NEW b \in Bikes,
           BeginUpdateBike(r, b) \/ BeginDeleteBike(r, b)
    PROVE  Inv'
<1>1. b \in LiveBikes /\ UNCHANGED <<bikes, disk, Database>>
  BY DEF BeginUpdateBike, BeginDeleteBike, Database
<1>2. PICK pc \in {"updateBike", "deleteBike"} :
         Goto(r, [Idle EXCEPT !.pc = pc, !.bike = b, !.image = bikes[b].image])
  BY DEF BeginUpdateBike, BeginDeleteBike, Begin
<1>3. PICK f \in Images \union {None} : f = bikes[b].image
  BY DEF Inv, TypeOK, BikeType
<1> DEFINE q == [Idle EXCEPT !.pc = pc, !.bike = b, !.image = f]
<1>4. q \in ReqType
  BY IdleCarries, Zenon DEF ReqType, PCs
<1>5. q.pc = pc /\ q.bike = b /\ q.image = f
  BY DEF Idle
<1>6. Goto(r, q)
  BY <1>2, <1>3
<1> HIDE DEF q
<1>7. Carries(q) /\ OfBike(q, b)
  BY <1>1, <1>5 DEF Carries, OfBike, LiveBikes
<1>8. Goes(r, q)
  BY <1>4, <1>6, GoesTo
<1>9. Unshared(q)' /\ \A s \in Requests \ {r} : Apart(q, req[s]) /\ Apart(req[s], q)
  BY <1>1, <1>3, <1>5, <1>7, ReadImage
<1>10. disk \subseteq disk' /\ disk' \subseteq Images /\ UNCHANGED Database
  BY <1>1 DEF Inv, TypeOK
<1> QED
  BY <1>4, <1>7, <1>8, <1>9, <1>10, OnlyHandler

LEMMA UploadStep ==
    ASSUME Inv, NEW r \in Requests, NEW f \in Images, UploadImage(r, f)
    PROVE  Inv'
<1>1. PICK p \in ReqType : p = req[r]
  BY DEF Inv, TypeOK
<1> DEFINE q == [p EXCEPT !.image = f]
<1>2. q \in ReqType
  BY <1>1, Zenon DEF ReqType
<1>3. q.pc = "updateBike" /\ q.image = f /\ q.bike = p.bike
  BY <1>1 DEF ReqType, UploadImage
<1>4. Goto(r, q) /\ SaveImage(f) /\ UNCHANGED Database
  BY <1>1 DEF UploadImage
<1> HIDE DEF q
<1>5. Carries(p) /\ p.pc = "updateBike"
  BY <1>1 DEF Inv, UploadImage
<1>6. Carries(q)
  BY <1>3, <1>5 DEF Carries
<1>7. disk \subseteq disk' /\ disk' \subseteq Images /\ UNCHANGED bikes
  BY <1>4 DEF SaveImage, Inv, TypeOK, Database
<1> QED
  BY <1>2, <1>3, <1>4, <1>6, <1>7, GoesTo, NewImage, OnlyHandler

\* The handlers of rows and expenses, which know no image.
Imageless == {"record", "issue", "shelf", "readRecord", "updateRow", "expense", "updateExpense"}

LEMMA LinkedHandlers ==
    ASSUME Inv, NEW r \in Requests,
           \/ \E b \in Bikes, table \in {"record", "issue", "readRecord"} : VerifyBike(r, table, b)
           \/ BeginShelf(r)
           \/ \E w \in Rows : BeginUpdateShelf(r, w)
           \/ BeginExpense(r)
           \/ \E e \in Expenses : BeginUpdateExpense(r, e)
    PROVE  Inv'
<1>1. ASSUME NEW b \in Bikes, NEW table \in {"record", "issue", "readRecord"},
             VerifyBike(r, table, b)
      PROVE  Inv'
  <2> DEFINE q == [Idle EXCEPT !.pc = table, !.bike = b]
  <2>1. q \in ReqType
    BY IdleCarries, Zenon DEF ReqType, PCs
  <2>2. q.image = None /\ Carries(q)
    BY DEF Idle, Carries
  <2>3. Goto(r, q) /\ UNCHANGED <<Database, disk>>
    BY <1>1 DEF VerifyBike, Begin
  <2> HIDE DEF q
  <2> QED
    BY <2>1, <2>2, <2>3, PlainHandler
<1>2. ASSUME NEW pc \in {"shelf", "expense"}, Begin(r, [Idle EXCEPT !.pc = pc]),
             UNCHANGED <<Database, disk>>
      PROVE  Inv'
  <2> DEFINE q == [Idle EXCEPT !.pc = pc]
  <2>1. q \in ReqType
    BY IdleCarries, Zenon DEF ReqType, PCs
  <2>2. q.image = None /\ Carries(q)
    BY DEF Idle, Carries
  <2>3. Goto(r, q)
    BY <1>2 DEF Begin
  <2> HIDE DEF q
  <2> QED
    BY <1>2, <2>1, <2>2, <2>3, PlainHandler
<1>3. ASSUME NEW w \in Rows, BeginUpdateShelf(r, w) PROVE Inv'
  <2>1. rows[w].table = "shelf" /\ UNCHANGED <<Database, disk>>
    BY <1>3 DEF BeginUpdateShelf
  <2>2. PICK p \in Places \union {None} :
           Goto(r, [Idle EXCEPT !.pc = "updateRow", !.row = w, !.place = p])
    BY <1>3 DEF BeginUpdateShelf, Begin, Inv, TypeOK, RowType
  <2> DEFINE q == [Idle EXCEPT !.pc = "updateRow", !.row = w, !.place = p]
  <2>3. q \in ReqType
    BY IdleCarries, Zenon DEF ReqType, PCs
  <2>4. q.image = None /\ Carries(q)
    BY <2>1 DEF Idle, Carries
  <2>5. Goto(r, q)
    BY <2>2
  <2> HIDE DEF q
  <2> QED
    BY <2>1, <2>3, <2>4, <2>5, PlainHandler
<1>4. ASSUME NEW e \in Expenses, BeginUpdateExpense(r, e) PROVE Inv'
  <2> DEFINE q == [Idle EXCEPT !.pc = "updateExpense", !.expense = e]
  <2>1. q \in ReqType
    BY IdleCarries, Zenon DEF ReqType, PCs
  <2>2. q.image = None /\ Carries(q)
    BY DEF Idle, Carries
  <2>3. Goto(r, q) /\ UNCHANGED <<Database, disk>>
    BY <1>4 DEF BeginUpdateExpense, Begin
  <2> HIDE DEF q
  <2> QED
    BY <2>1, <2>2, <2>3, PlainHandler
<1> QED
  BY <1>1, <1>2, <1>3, <1>4 DEF BeginShelf, BeginExpense

\* A handler that goes on reading: what it carried of an image, it carries on.
LEMMA ReadsOn ==
    ASSUME Inv, NEW r \in Requests, NEW q \in ReqType, Goto(r, q), UNCHANGED <<Database, disk>>,
           req[r].pc \in Imageless, q.pc \in Imageless, Carries(q)
    PROVE  Inv'
<1>1. Goes(r, q)
  BY GoesTo
<1>2. Unshared(q)' /\ \A s \in Requests \ {r} : Apart(q, req[s]) /\ Apart(req[s], q)
  BY DEF Unshared, Apart, Keeps, Removes, Imageless
<1>3. disk \subseteq disk' /\ disk' \subseteq Images /\ UNCHANGED Database
  BY DEF Inv, TypeOK
<1> QED
  BY <1>1, <1>2, <1>3, OnlyHandler

LEMMA ReadingHandlers ==
    ASSUME Inv, NEW r \in Requests,
           \/ \E p \in Places : VerifyPlace(r, p)
           \/ \E w \in Rows : ReadRecord(r, w)
           \/ \E b \in Bikes : ChargeTo(r, b)
    PROVE  Inv'
<1>1. PICK q \in ReqType : q = req[r]
  BY DEF Inv, TypeOK
<1>2. Carries(q)
  BY <1>1 DEF Inv
<1>3. ASSUME NEW p \in Places, VerifyPlace(r, p) PROVE Inv'
  <2> DEFINE n == [q EXCEPT !.place = p]
  <2>1. n \in ReqType
    BY <1>1, Zenon DEF ReqType
  <2>2. n.pc = q.pc /\ n.bike = q.bike /\ n.row = q.row /\ n.expense = q.expense
    BY DEF ReqType
  <2>3. Goto(r, n) /\ UNCHANGED <<Database, disk>> /\ q.pc \in Imageless
    BY <1>1, <1>3 DEF VerifyPlace, Imageless
  <2> HIDE DEF n
  <2>4. Carries(n)
    BY <1>2, <2>2 DEF Carries
  <2> QED
    BY <1>1, <2>1, <2>2, <2>3, <2>4, ReadsOn
<1>4. ASSUME NEW w \in Rows, ReadRecord(r, w) PROVE Inv'
  <2>1. PICK p \in Places \union {None} : p = IF q.place = None THEN rows[w].place ELSE q.place
    BY <1>1 DEF Inv, TypeOK, RowType, ReqType
  <2> DEFINE n == [q EXCEPT !.pc = "updateRow", !.row = w, !.place = p]
  <2>2. n \in ReqType
    BY <1>1, Zenon DEF ReqType, PCs
  <2>3. n.pc = "updateRow" /\ n.row = w
    BY DEF ReqType
  <2>4. Goto(r, n) /\ UNCHANGED <<Database, disk>> /\ q.pc \in Imageless
    BY <1>1, <1>4, <2>1 DEF ReadRecord, Imageless
  <2> HIDE DEF n
  <2>5. Carries(n)
    BY <1>4, <2>3 DEF Carries, ReadRecord
  <2> QED
    BY <1>1, <2>2, <2>3, <2>4, <2>5, ReadsOn DEF Imageless
<1>5. ASSUME NEW b \in Bikes, ChargeTo(r, b) PROVE Inv'
  <2>1. PICK set \in SUBSET Bikes : set = q.charged \union {b}
    BY DEF ReqType
  <2> DEFINE n == [q EXCEPT !.charged = set]
  <2>2. n \in ReqType
    BY <1>1, Zenon DEF ReqType
  <2>3. n.pc = q.pc /\ n.bike = q.bike /\ n.row = q.row /\ n.expense = q.expense
    BY DEF ReqType
  <2>4. Goto(r, n) /\ UNCHANGED <<Database, disk>> /\ q.pc \in Imageless
    BY <1>1, <1>5, <2>1 DEF ChargeTo, Imageless
  <2> HIDE DEF n
  <2>5. Carries(n)
    BY <1>2, <2>3 DEF Carries
  <2> QED
    BY <1>1, <2>2, <2>3, <2>4, <2>5, ReadsOn
<1> QED
  BY <1>3, <1>4, <1>5

LEMMA HangUpStep ==
    ASSUME Inv, NEW r \in Requests, HangUp(r)
    PROVE  Inv'
BY PlainHandler, IdleCarries DEF HangUp, Finish

---------------------------------------------------------------------------
\* Steps that write a motorcycle.

LEMMA InsertBikeStep ==
    ASSUME Inv, NEW r \in Requests, NEW b \in Bikes, InsertBike(r, b)
    PROVE  Inv'
<1> DEFINE f == req[r].image
           x == [state |-> "live", image |-> f]
<1>1. /\ req[r].pc = "insertBike" /\ bikes[b].state = "none"
      /\ bikes' = [bikes EXCEPT ![b] = x] /\ Goes(r, Idle)
      /\ UNCHANGED <<disk, places, rows, expenses, refused>>
  BY Finishes DEF InsertBike
<1>2. f \in Images \union {None} /\ x \in BikeType
  BY DEF Inv, TypeOK, ReqType, BikeType
<1>3. /\ bikes'[b] = x /\ LiveBikes' = LiveBikes \union {b} /\ b \notin LiveBikes
      /\ \A c \in Bikes \ {b} : bikes'[c] = bikes[c]
  BY <1>1 DEF LiveBikes, Inv, TypeOK
<1>4. TypeOK'
  BY <1>1, <1>2 DEF Inv, TypeOK, Goes, LiveRows
<1>5. \A s \in Requests : Carries(req[s])'
  BY <1>1, <1>3, IdleCarries DEF Inv, Goes, Carries
<1>6. ExpensesSafe'
  <2>1. \A e \in Expenses : b \notin expenses[e].wanted
    BY <1>1 DEF Inv, ExpensesSafe
  <2>2. ExpensesWhole'
    BY <1>1, <1>3, <2>1 DEF Inv, ExpensesSafe, ExpensesWhole
  <2>3. \A e \in Expenses : \A c \in expenses[e].wanted : bikes'[c].state # "none"
    BY <1>1, <1>3, <2>1 DEF Inv, TypeOK, ExpenseType, ExpensesSafe
  <2> QED
    BY <1>1, <2>2, <2>3 DEF ExpensesSafe
<1>7. ImagesSafe'
  <2>1. Unshared(req[r]) /\ ImagesSafe
    BY DEF Inv, ImagesSafe
  <2>2. f # None => f \in disk /\ \A c \in LiveBikes : bikes[c].image # f
    BY <1>1, <2>1 DEF Unshared, Keeps, OfBike
  <2>3. ImagesOnDisk' /\ \A c, d \in LiveBikes' :
          bikes'[c].image = bikes'[d].image /\ bikes'[c].image # None => c = d
    <3>1. \A c \in LiveBikes : bikes'[c] = bikes[c] /\ c # b
      BY <1>3 DEF LiveBikes
    <3>2. bikes'[b].image = f
      BY <1>3
    <3> HIDE DEF f, x
    <3> QED
      BY <1>1, <1>3, <2>1, <2>2, <3>1, <3>2 DEF ImagesSafe, ImagesOnDisk
  <2>4. \A s \in Requests : s # r => (Keeps(req[s])' <=> Keeps(req[s]))
                                     /\ (Removes(req[s])' <=> Removes(req[s]))
                                     /\ req'[s] = req[s] /\ ~OfBike(req[s], b)
    <3> SUFFICES ASSUME NEW s \in Requests, s # r
                 PROVE  (Keeps(req[s])' <=> Keeps(req[s])) /\ (Removes(req[s])' <=> Removes(req[s]))
                        /\ req'[s] = req[s] /\ ~OfBike(req[s], b)
      OBVIOUS
    <3>1. req'[s] = req[s]
      BY <1>1 DEF Goes
    <3>2. ~OfBike(req[s], b)
      BY <1>1 DEF Inv, Carries, OfBike
    <3> QED
      BY <1>3, <3>1, <3>2 DEF Keeps, Removes, OfBike
  <2>5. ~Keeps(Idle)' /\ ~Removes(Idle)'
    BY IdleCarries DEF Keeps, Removes
  <2>6. \A s \in Requests : Unshared(req[s])'
    <3> TAKE s \in Requests
    <3>1. CASE s = r
      BY <1>1, <2>5, <3>1 DEF Goes, Unshared, Keeps, Removes
    <3>2. CASE s # r
      <4>1. Unshared(req[s]) /\ Apart(req[s], req[r]) /\ Apart(req[r], req[s])
        BY <2>1, <3>2 DEF ImagesSafe
      <4>2. req[s].image # None /\ (Keeps(req[s]) \/ Removes(req[s])) => req[s].image # f
        BY <1>1, <4>1 DEF Apart, Keeps, OfBike
      <4> QED
        BY <1>1, <1>3, <2>4, <3>2, <4>1, <4>2 DEF Unshared, OfBike, LiveBikes
    <3> QED
      BY <3>1, <3>2
  <2>7. \A s, t \in Requests : s # t => Apart(req[s], req[t])'
    <3> TAKE s, t \in Requests
    <3>1. CASE s = r \/ t = r
      BY <1>1, <3>1, IdleCarries DEF Goes, Apart
    <3>2. CASE s # r /\ t # r
      BY <2>1, <2>4, <3>2 DEF ImagesSafe, Apart, OfBike
    <3> QED
      BY <3>1, <3>2
  <2> QED
    BY <2>3, <2>6, <2>7 DEF ImagesSafe
<1> QED
  BY <1>1, <1>4, <1>5, <1>6, <1>7 DEF Inv, DeletesGoThrough

LEMMA WriteBikeStep ==
    ASSUME Inv, NEW r \in Requests, WriteBike(r)
    PROVE  Inv'
<1>1. /\ req[r].pc = "updateBike" /\ Goes(r, Idle)
      /\ UNCHANGED <<disk, places, rows, expenses, refused, mergedInto>>
  BY Finishes DEF WriteBike
<1>2. PICK b \in Bikes : b = req[r].bike
  BY <1>1 DEF Inv, Carries
<1>3. PICK f \in Images \union {None} : f = req[r].image
  BY DEF Inv, TypeOK, ReqType
<1>4. CASE b \notin LiveBikes
  <2>1. UNCHANGED <<Database, disk>> /\ Goto(r, Idle)
    BY <1>1, <1>2, <1>4 DEF WriteBike, Database, Finish
  <2> QED
    BY <2>1, IdleCarries, PlainHandler
<1>5. CASE b \in LiveBikes
  <2>1. bikes' = [bikes EXCEPT ![b].image = f]
    BY <1>2, <1>3, <1>5 DEF WriteBike
  <2>2. /\ bikes' \in [Bikes -> BikeType] /\ bikes'[b].image = f
        /\ \A c \in Bikes : bikes'[c].state = bikes[c].state
        /\ \A c \in Bikes \ {b} : bikes'[c] = bikes[c]
    BY <2>1 DEF Inv, TypeOK, BikeType
  <2>3. LiveBikes' = LiveBikes
    BY <2>2 DEF LiveBikes
  <2>4. TypeOK'
    BY <1>1, <2>2 DEF Inv, TypeOK, Goes, LiveRows
  <2>5. \A s \in Requests : Carries(req[s])'
    BY <1>1, <2>2, IdleCarries DEF Inv, Goes, Carries
  <2>6. ExpensesSafe'
    BY <1>1, <2>2, <2>3 DEF Inv, TypeOK, ExpenseType, ExpensesSafe, ExpensesWhole
  <2>7. ImagesSafe'
    <3>1. Unshared(req[r]) /\ ImagesSafe /\ Keeps(req[r])
      BY <1>1, <1>2, <1>5 DEF Inv, ImagesSafe, Keeps
    <3>2. f # None => f \in disk /\ \A c \in LiveBikes \ {b} : bikes[c].image # f
      BY <1>2, <1>3, <3>1 DEF Unshared, OfBike
    <3>3. ImagesOnDisk' /\ \A c, d \in LiveBikes' :
            bikes'[c].image = bikes'[d].image /\ bikes'[c].image # None => c = d
      <4>1. \A c \in LiveBikes : c \in Bikes
        BY DEF LiveBikes
      <4> QED
        BY <1>1, <2>2, <2>3, <3>1, <3>2, <4>1 DEF ImagesSafe, ImagesOnDisk
    <3>4. \A q : (Keeps(q)' <=> Keeps(q)) /\ (Removes(q)' <=> Removes(q))
      BY <2>3 DEF Keeps, Removes
    <3>5. \A s \in Requests : Unshared(req[s])'
      <4> TAKE s \in Requests
      <4>1. CASE s = r
        BY <1>1, <4>1, IdleCarries DEF Goes, Unshared
      <4>2. CASE s # r
        <5>1. Unshared(req[s]) /\ Apart(req[s], req[r]) /\ Apart(req[r], req[s])
              /\ req'[s] = req[s]
          BY <1>1, <3>1, <4>2 DEF ImagesSafe, Goes
        <5>2. PICK q : q = req[s]
          OBVIOUS
        <5>3. q.image # None /\ (Keeps(q) \/ Removes(q)) /\ q.image = f => OfBike(q, b)
          BY <1>2, <1>3, <3>1, <5>1, <5>2 DEF Apart, OfBike
        <5>4. Unshared(q)'
          BY <1>1, <2>2, <2>3, <3>4, <5>1, <5>2, <5>3 DEF Unshared, OfBike, LiveBikes
        <5> QED
          BY <5>1, <5>2, <5>4
      <4> QED
        BY <4>1, <4>2
    <3>6. \A s, t \in Requests : s # t => Apart(req[s], req[t])'
      <4> TAKE s, t \in Requests
      <4>1. CASE s = r \/ t = r
        BY <1>1, <4>1, IdleCarries DEF Goes, Apart
      <4>2. CASE s # r /\ t # r
        BY <1>1, <3>1, <2>3, <4>2 DEF Goes, ImagesSafe, Apart, OfBike, Keeps, Removes
      <4> QED
        BY <4>1, <4>2
    <3> QED
      BY <3>3, <3>5, <3>6 DEF ImagesSafe
  <2> QED
    BY <1>1, <2>4, <2>5, <2>6, <2>7 DEF Inv, DeletesGoThrough
<1> QED
  BY <1>4, <1>5

LEMMA RemoveImageStep ==
    ASSUME Inv, NEW r \in Requests, RemoveImage(r)
    PROVE  Inv'
<1>1. /\ req[r].pc = "unlink" /\ Goes(r, Idle) /\ disk' = disk \ {req[r].image}
      /\ UNCHANGED <<bikes, places, rows, expenses, refused>>
  BY Finishes DEF RemoveImage, Database
<1>2. PICK f \in Images \union {None} : f = req[r].image
  BY DEF Inv, TypeOK, ReqType
<1>3. LiveBikes' = LiveBikes
  BY <1>1 DEF LiveBikes
<1>4. TypeOK' /\ ExpensesSafe' /\ \A s \in Requests : Carries(req[s])'
  BY <1>1, <1>3, IdleCarries
     DEF Inv, TypeOK, Goes, LiveRows, ExpensesSafe, ExpensesWhole, Carries
<1>5. ImagesSafe'
  <2>1. Unshared(req[r]) /\ ImagesSafe /\ Removes(req[r])
    BY <1>1 DEF Inv, ImagesSafe, Removes
  <2>2. f # None => \A c \in LiveBikes : bikes[c].image # f
    BY <1>1, <1>2, <2>1 DEF Unshared, OfBike
  <2>3. ImagesOnDisk' /\ \A c, d \in LiveBikes' :
          bikes'[c].image = bikes'[d].image /\ bikes'[c].image # None => c = d
    BY <1>1, <1>2, <1>3, <2>1, <2>2 DEF ImagesSafe, ImagesOnDisk
  <2>4. \A s \in Requests : Unshared(req[s])'
    <3> TAKE s \in Requests
    <3>1. CASE s = r
      BY <1>1, <3>1, IdleCarries DEF Goes, Unshared
    <3>2. CASE s # r
      <4>1. Unshared(req[s]) /\ Apart(req[s], req[r]) /\ req'[s] = req[s]
        BY <1>1, <2>1, <3>2 DEF ImagesSafe, Goes
      <4>2. PICK q : q = req[s]
        OBVIOUS
      <4>3. q.image # None /\ Keeps(q) => q.image # f
        BY <1>1, <1>2, <2>1, <4>1, <4>2 DEF Apart, OfBike
      <4>4. Unshared(q)'
        BY <1>1, <1>2, <1>3, <4>1, <4>2, <4>3 DEF Unshared, OfBike, Keeps, Removes
      <4> QED
        BY <4>1, <4>2, <4>4
    <3> QED
      BY <3>1, <3>2
  <2>5. \A s, t \in Requests : s # t => Apart(req[s], req[t])'
    <3> TAKE s, t \in Requests
    <3>1. CASE s = r \/ t = r
      BY <1>1, <3>1, IdleCarries DEF Goes, Apart
    <3>2. CASE s # r /\ t # r
      BY <1>1, <2>1, <1>3, <3>2 DEF Goes, ImagesSafe, Apart, OfBike, Keeps, Removes
    <3> QED
      BY <3>1, <3>2
  <2> QED
    BY <2>3, <2>4, <2>5 DEF ImagesSafe
<1> QED
  BY <1>1, <1>4, <1>5 DEF Inv, DeletesGoThrough

LEMMA DeleteBikeStep ==
    ASSUME Inv, NEW r \in Requests, DeleteBike(r)
    PROVE  Inv'
<1>1. req[r].pc = "deleteBike" /\ UNCHANGED <<disk, places, mergedInto>>
  BY DEF DeleteBike
<1>2. PICK b \in Bikes : b = req[r].bike
  BY <1>1 DEF Inv, Carries
<1>3. PICK f \in Images \union {None} : f = req[r].image
  BY DEF Inv, TypeOK, ReqType
<1>4. CASE b \notin LiveBikes
  <2>1. UNCHANGED <<Database, disk>> /\ Goto(r, Idle)
    BY <1>1, <1>2, <1>4 DEF DeleteBike, Database, Finish
  <2> QED
    BY <2>1, IdleCarries, PlainHandler
<1>5. CASE b \in LiveBikes
  <2> DEFINE q == [Idle EXCEPT !.pc = "unlink", !.image = f]
             gone == [NoRow EXCEPT !.table = "gone"]
  <2>1. {w \in Children(b) : rows[w].table \in Uncascaded} \subseteq ClearedByDelete(b)
    BY DEF Uncascaded, ClearedByDelete
  <2>2. /\ bikes' = [bikes EXCEPT ![b] = [state |-> "gone", image |-> None]]
        /\ rows' = [w \in Rows |-> IF w \in Children(b) THEN gone ELSE rows[w]]
        /\ expenses' = [e \in Expenses |-> [expenses[e] EXCEPT !.charged = @ \ {b}]]
        /\ Goto(r, q) /\ UNCHANGED refused
    BY <1>2, <1>3, <1>5, <2>1 DEF DeleteBike
  <2>3. q \in ReqType /\ q.pc = "unlink" /\ q.image = f
    <3>1. q \in ReqType
      BY IdleCarries, Zenon DEF ReqType, PCs
    <3> QED
      BY <3>1 DEF Idle
  <2> HIDE DEF q
  <2>4. Goes(r, q)
    BY <2>2, <2>3, GoesTo
  <2>5. /\ bikes' \in [Bikes -> BikeType] /\ bikes'[b].state = "gone"
        /\ \A c \in Bikes \ {b} : bikes'[c] = bikes[c]
        /\ LiveBikes' = LiveBikes \ {b}
    BY <2>2 DEF Inv, TypeOK, BikeType, LiveBikes
  <2>6. gone \in RowType /\ gone.table = "gone"
    BY DEF NoRow, RowType
  <2>7. /\ rows' \in [Rows -> RowType]
        /\ \A w \in Rows : rows'[w] = rows[w] \/ rows'[w].table = "gone"
    BY <2>2, <2>6 DEF Inv, TypeOK
  <2>8. \A e \in Expenses :
          /\ expenses'[e] \in ExpenseType /\ expenses'[e].state = expenses[e].state
          /\ expenses'[e].charged = expenses[e].charged \ {b}
          /\ expenses'[e].wanted = expenses[e].wanted
    BY <2>2 DEF Inv, TypeOK, ExpenseType
  <2>9. TypeOK'
    <3>1. expenses' \in [Expenses -> ExpenseType]
      BY <2>2, <2>8
    <3> QED
      BY <1>1, <2>4, <2>5, <2>7, <3>1 DEF Inv, TypeOK, Goes, LiveRows
  <2>10. \A s \in Requests : Carries(req[s])'
    <3>1. Carries(q)'
      BY <2>3 DEF Carries
    <3> QED
      BY <2>4, <2>5, <2>7, <3>1 DEF Inv, Goes, Carries
  <2>11. ExpensesSafe'
    <3>1. ExpensesWhole'
      BY <2>5, <2>8 DEF Inv, ExpensesSafe, ExpensesWhole
    <3>2. \A e \in Expenses : \A c \in expenses'[e].wanted : bikes'[c].state # "none"
      BY <2>5, <2>8 DEF Inv, TypeOK, ExpenseType, ExpensesSafe
    <3> QED
      BY <3>1, <3>2 DEF ExpensesSafe
  <2>12. ImagesSafe'
    <3>1. Unshared(req[r]) /\ ImagesSafe /\ Removes(req[r])
      BY <1>1, <1>2, <1>5 DEF Inv, ImagesSafe, Removes
    <3>2. f # None => \A c \in LiveBikes \ {b} : bikes[c].image # f
      BY <1>2, <1>3, <3>1 DEF Unshared, OfBike
    <3>3. ImagesOnDisk' /\ \A c, d \in LiveBikes' :
            bikes'[c].image = bikes'[d].image /\ bikes'[c].image # None => c = d
      <4>1. \A c \in LiveBikes' : c \in LiveBikes /\ bikes'[c] = bikes[c]
        BY <2>5 DEF LiveBikes
      <4> QED
        BY <1>1, <3>1, <4>1 DEF ImagesSafe, ImagesOnDisk
    <3>4. \A p : /\ Keeps(p)' => Keeps(p) /\ ~OfBike(p, b)
                 /\ Removes(p)' => Removes(p)
      BY <2>5 DEF Keeps, Removes, OfBike
    <3>5. Unshared(q)'
      <4>1. \A c \in LiveBikes' : c \in LiveBikes \ {b} /\ bikes'[c] = bikes[c]
        BY <2>5 DEF LiveBikes
      <4> QED
        BY <2>3, <3>2, <4>1 DEF Unshared, Keeps
    <3>6. \A s \in Requests : Unshared(req[s])'
      <4> TAKE s \in Requests
      <4>1. CASE s = r
        BY <2>4, <3>5, <4>1 DEF Goes
      <4>2. CASE s # r
        <5>1. PICK p : p = req[s] /\ Unshared(p) /\ req'[s] = p
          BY <2>4, <3>1, <4>2 DEF ImagesSafe, Goes
        <5>2. \A c \in LiveBikes' : c \in LiveBikes /\ bikes'[c] = bikes[c]
          BY <2>5 DEF LiveBikes
        <5>3. Unshared(p)'
          BY <1>1, <3>4, <5>1, <5>2 DEF Unshared, OfBike
        <5> QED
          BY <5>1, <5>3
      <4> QED
        BY <4>1, <4>2
    <3>7. \A s, t \in Requests : s # t => Apart(req[s], req[t])'
      <4> SUFFICES ASSUME NEW s \in Requests, NEW t \in Requests, s # t
                   PROVE  Apart(req[s], req[t])'
        OBVIOUS
      <4>1. CASE s = r
        BY <2>3, <2>4, <4>1 DEF Goes, Apart, Keeps
      <4>2. CASE t = r
        <5>1. PICK p : p = req[s] /\ Apart(p, req[r]) /\ req'[s] = p
          BY <2>4, <3>1, <4>2 DEF ImagesSafe, Goes
        <5>2. ~(p.image # None /\ p.image = f /\ Keeps(p)')
          BY <1>2, <1>3, <3>1, <3>4, <5>1 DEF Apart, OfBike
        <5>3. Apart(p, q)'
          BY <2>3, <5>2 DEF Apart
        <5> QED
          BY <2>4, <4>2, <5>1, <5>3 DEF Goes
      <4>3. CASE s # r /\ t # r
        <5>1. PICK p, o : p = req[s] /\ o = req[t] /\ Apart(p, o)
                          /\ req'[s] = p /\ req'[t] = o
          BY <2>4, <3>1, <4>3 DEF ImagesSafe, Goes
        <5>2. Apart(p, o)'
          BY <3>4, <5>1 DEF Apart, OfBike
        <5> QED
          BY <5>1, <5>2
      <4> QED
        BY <4>1, <4>2, <4>3
    <3> QED
      BY <3>3, <3>6, <3>7 DEF ImagesSafe
  <2> QED
    BY <2>2, <2>9, <2>10, <2>11, <2>12 DEF Inv, DeletesGoThrough
<1> QED
  BY <1>4, <1>5

---------------------------------------------------------------------------
\* Steps that write places and rows: motorcycles, files and expenses stay.

LEMMA ElsewhereStays ==
    ASSUME Inv, UNCHANGED <<bikes, disk>>, UNCHANGED req \/ \E r \in Requests : Goes(r, Idle)
    PROVE  ImagesSafe'
<1>1. CASE UNCHANGED req
  BY <1>1 DEF Inv, ImagesSafe, ImagesOnDisk, LiveBikes, Unshared, Apart, Keeps, Removes
<1>2. ASSUME NEW r \in Requests, Goes(r, Idle) PROVE ImagesSafe'
  <2>1. Unshared(Idle)' /\ \A p : Apart(Idle, p) /\ Apart(p, Idle)
    BY IdleCarries DEF Unshared, Apart
  <2>2. PICK q \in ReqType : q = Idle
    BY IdleCarries
  <2> QED
    BY <1>2, <2>1, <2>2, ImagesStay
<1> QED
  BY <1>1, <1>2

LEMMA ExpensesStay ==
    ASSUME Inv, UNCHANGED <<bikes, expenses>>
    PROVE  ExpensesSafe'
BY DEF Inv, ExpensesSafe, ExpensesWhole, LiveBikes

\* Rows are written, none of a handler's to another table.
LEMMA RowsWritten ==
    ASSUME Inv, UNCHANGED <<bikes, disk, expenses, refused>>,
           UNCHANGED req \/ \E r \in Requests : Goes(r, Idle),
           places' \in [Places -> {"none", "live", "gone"}],
           rows' \in [Rows -> RowType],
           \A w \in LiveRows' :
              /\ rows'[w].table # "shelf" => rows'[w].bike # None
              /\ rows'[w].table = "marker" => rows'[w].place # None,
           \A w \in Rows : rows[w].table \in {"record", "shelf", "gone"} =>
              rows'[w].table \in {"record", "shelf", "gone"}
    PROVE  Inv'
<1>1. TypeOK'
  BY DEF Inv, TypeOK, Goes
<1>2. \A s \in Requests : Carries(req[s])'
  <2> TAKE s \in Requests
  <2>1. req'[s] = req[s] \/ req'[s] = Idle
    BY DEF Goes
  <2> QED
    BY <2>1, IdleCarries DEF Inv, Carries
<1>3. ImagesSafe' /\ ExpensesSafe'
  BY ElsewhereStays, ExpensesStay
<1> QED
  BY <1>1, <1>2, <1>3 DEF Inv, DeletesGoThrough

LEMMA InsertRowStep ==
    ASSUME Inv, NEW r \in Requests, NEW w \in Rows, InsertRow(r, w)
    PROVE  Inv'
<1>1. PICK q \in ReqType : q = req[r] /\ Carries(q)
  BY DEF Inv, TypeOK
<1>2. /\ q.pc \in {"record", "issue", "shelf"} /\ rows[w].table = "none" /\ Goes(r, Idle)
      /\ UNCHANGED <<bikes, disk, places, expenses, refused>>
  BY <1>1, Finishes DEF InsertRow
<1> DEFINE x == [table |-> q.pc, bike |-> q.bike, place |-> q.place, asked |-> q.place]
<1>3. x \in RowType /\ x.table = q.pc /\ (q.pc # "shelf" => x.bike # None)
  <2>1. q.pc # "shelf" => q.bike # None
    BY <1>1, <1>2, NoneAssumption DEF Carries
  <2> QED
    BY <1>2, <2>1 DEF RowType, ReqType
<1>4. rows' = rows \/ rows' = [rows EXCEPT ![w] = x]
  BY <1>1 DEF InsertRow
<1> HIDE DEF x
<1>5. /\ rows' \in [Rows -> RowType]
      /\ \A v \in Rows : rows'[v] = rows[v] \/ (v = w /\ rows'[v] = x)
  BY <1>3, <1>4 DEF Inv, TypeOK
<1>6. \A v \in LiveRows' :
        /\ rows'[v].table # "shelf" => rows'[v].bike # None
        /\ rows'[v].table = "marker" => rows'[v].place # None
  BY <1>2, <1>3, <1>5 DEF Inv, TypeOK, LiveRows
<1>7. places' \in [Places -> {"none", "live", "gone"}]
  BY <1>2 DEF Inv, TypeOK
<1>8. \A v \in Rows : rows[v].table \in {"record", "shelf", "gone"} =>
        rows'[v].table \in {"record", "shelf", "gone"}
  BY <1>2, <1>5
<1> QED
  BY <1>2, <1>5, <1>6, <1>7, <1>8, RowsWritten

LEMMA WriteRowStep ==
    ASSUME Inv, NEW r \in Requests, WriteRow(r)
    PROVE  Inv'
<1>1. PICK q \in ReqType : q = req[r] /\ Carries(q) /\ q.pc = "updateRow"
  BY DEF Inv, TypeOK, WriteRow
<1>2. Goes(r, Idle) /\ UNCHANGED <<bikes, disk, places, expenses, refused>>
  BY Finishes DEF WriteRow
<1>3. q.row \in Rows /\ rows[q.row].table \in {"record", "shelf", "gone"}
  BY <1>1 DEF Carries
<1>4. PICK old \in RowType : old = rows[q.row]
  BY <1>3 DEF Inv, TypeOK
<1> DEFINE x == [old EXCEPT !.place = q.place, !.asked = q.place]
<1>5. x \in RowType
  BY <1>1, Zenon DEF RowType, ReqType
<1>6. x.table = old.table /\ x.bike = old.bike
  BY DEF RowType
<1>7. rows' = rows \/ rows' = [rows EXCEPT ![q.row] = x]
  BY <1>1, <1>3, <1>4 DEF WriteRow, Inv, TypeOK
<1> HIDE DEF x
<1>8. /\ rows' \in [Rows -> RowType]
      /\ \A v \in Rows : rows'[v] = rows[v] \/ (v = q.row /\ rows'[v] = x)
  BY <1>5, <1>7 DEF Inv, TypeOK
<1>9. \A v \in LiveRows' :
        /\ rows'[v].table # "shelf" => rows'[v].bike # None
        /\ rows'[v].table = "marker" => rows'[v].place # None
  BY <1>3, <1>4, <1>6, <1>8 DEF Inv, TypeOK, LiveRows
<1>10. places' \in [Places -> {"none", "live", "gone"}]
  BY <1>2 DEF Inv, TypeOK
<1>11. \A v \in Rows : rows[v].table \in {"record", "shelf", "gone"} =>
        rows'[v].table \in {"record", "shelf", "gone"}
  BY <1>3, <1>4, <1>6, <1>8
<1> QED
  BY <1>2, <1>8, <1>9, <1>10, <1>11, RowsWritten

LEMMA CreatePlaceStep ==
    ASSUME Inv, NEW p \in Places, CreatePlace(p)
    PROVE  Inv'
<1>1. UNCHANGED <<bikes, disk, rows, expenses, refused, req>>
  BY DEF CreatePlace
<1>2. places' \in [Places -> {"none", "live", "gone"}]
  BY DEF CreatePlace, Inv, TypeOK
<1>3. /\ rows' \in [Rows -> RowType]
      /\ \A w \in LiveRows' :
           /\ rows'[w].table # "shelf" => rows'[w].bike # None
           /\ rows'[w].table = "marker" => rows'[w].place # None
  BY <1>1 DEF Inv, TypeOK, LiveRows
<1> QED
  BY <1>1, <1>2, <1>3, RowsWritten

\* No foreign key refuses a merge: every row at a duplicate is pointed elsewhere.
LEMMA MergeEffect ==
    ASSUME Inv, NEW p \in Places, NEW dups \in SUBSET Places, MergePlaces(p, dups)
    PROVE  /\ p \in LivePlaces /\ dups \subseteq LivePlaces \ {p}
           /\ rows' \in [Rows -> RowType]
           /\ \A w \in Rows :
                 /\ rows'[w].table = rows[w].table /\ rows'[w].bike = rows[w].bike
                 /\ rows'[w].asked = rows[w].asked
                 /\ rows'[w].place = IF w \in LiveRows /\ rows[w].place \in dups THEN p ELSE rows[w].place
           /\ places' = [q \in Places |-> IF q \in dups THEN "gone" ELSE places[q]]
           /\ mergedInto' = [q \in Places |-> IF q \in dups THEN p ELSE mergedInto[q]]
           /\ UNCHANGED <<bikes, disk, expenses, req, refused>>
<1> DEFINE moved == UNION {At(d) : d \in dups}
           after == [w \in Rows |-> IF w \in moved THEN Repointed(w, p) ELSE rows[w]]
<1>1. p \in LivePlaces /\ dups \subseteq LivePlaces \ {p}
  BY DEF MergePlaces
<1>2. \A w \in Rows : w \in moved <=> w \in LiveRows /\ rows[w].place \in dups
  BY DEF At, LiveRows
<1>3. \A w \in Rows : /\ rows[w] \in RowType /\ Repointed(w, p) \in RowType
                      /\ Repointed(w, p).table = rows[w].table
                      /\ Repointed(w, p).bike = rows[w].bike
                      /\ Repointed(w, p).asked = rows[w].asked
                      /\ Repointed(w, p).place = p
  <2> TAKE w \in Rows
  <2>1. PICK old \in RowType : old = rows[w]
    BY DEF Inv, TypeOK
  <2>2. [old EXCEPT !.place = p] \in RowType
    BY Zenon DEF RowType
  <2> QED
    BY <2>1, <2>2 DEF Repointed, RowType
<1> HIDE DEF moved
<1>4. \A w \in LiveRows : after[w].place \notin dups
  BY <1>1, <1>2, <1>3 DEF LiveRows
<1>5. /\ rows' = after
      /\ places' = [q \in Places |-> IF q \in dups THEN "gone" ELSE places[q]]
      /\ mergedInto' = [q \in Places |-> IF q \in dups THEN p ELSE mergedInto[q]]
      /\ UNCHANGED <<bikes, disk, expenses, req, refused>>
  BY <1>4 DEF MergePlaces, moved
<1>6. \A w \in Rows : rows'[w] = IF w \in LiveRows /\ rows[w].place \in dups
                                THEN Repointed(w, p) ELSE rows[w]
  BY <1>2, <1>5
<1>7. rows' \in [Rows -> RowType]
  BY <1>3, <1>5
<1> HIDE DEF after
<1> QED
  BY <1>1, <1>3, <1>5, <1>6, <1>7

LEMMA MergeStep ==
    ASSUME Inv, NEW p \in Places, NEW dups \in SUBSET Places, MergePlaces(p, dups)
    PROVE  Inv'
<1>1. /\ rows' \in [Rows -> RowType]
      /\ \A w \in Rows : /\ rows'[w].table = rows[w].table /\ rows'[w].bike = rows[w].bike
                         /\ rows'[w].place = rows[w].place \/ rows'[w].place = p
      /\ places' = [q \in Places |-> IF q \in dups THEN "gone" ELSE places[q]]
      /\ UNCHANGED <<bikes, disk, expenses, req, refused>>
  BY MergeEffect
<1>2. p # None
  BY NoneAssumption
<1>3. \A w \in LiveRows' :
        /\ rows'[w].table # "shelf" => rows'[w].bike # None
        /\ rows'[w].table = "marker" => rows'[w].place # None
  BY <1>1, <1>2 DEF Inv, TypeOK, LiveRows
<1>4. places' \in [Places -> {"none", "live", "gone"}]
  BY <1>1 DEF Inv, TypeOK
<1> QED
  BY <1>1, <1>3, <1>4, RowsWritten

\* Nor a delete of a place: every row at it loses it or goes.
LEMMA DeletePlaceEffect ==
    ASSUME Inv, NEW p \in Places, DeletePlace(p)
    PROVE  /\ p \in LivePlaces
           /\ rows' \in [Rows -> RowType]
           /\ \A w \in Rows : \/ rows'[w] = rows[w]
                              \/ rows'[w].table = "gone"
                              \/ /\ rows[w].table # "marker" /\ rows'[w].table = rows[w].table
                                 /\ rows'[w].bike = rows[w].bike
           /\ \A w \in LiveRows' :
                 /\ w \in LiveRows /\ rows'[w].asked = rows[w].asked
                 /\ rows'[w].place = IF rows[w].place = p THEN None ELSE rows[w].place
           /\ places' = [places EXCEPT ![p] = "gone"]
           /\ UNCHANGED <<bikes, disk, expenses, req, refused, mergedInto>>
<1> DEFINE after == [w \in Rows |-> IF w \in At(p) THEN Detached(w) ELSE rows[w]]
<1>1. p # None /\ p \in LivePlaces
  BY NoneAssumption DEF DeletePlace
<1>2. \A w \in Rows : rows[w] \in RowType
  BY DEF Inv, TypeOK
<1>3. \A w \in Rows : /\ Detached(w) \in RowType
                      /\ Detached(w).place = None
                      /\ \/ Detached(w).table = "gone"
                         \/ /\ rows[w].table # "marker"
                            /\ Detached(w).table = rows[w].table
                            /\ Detached(w).bike = rows[w].bike
                            /\ Detached(w).asked = rows[w].asked
  <2> TAKE w \in Rows
  <2>1. CASE rows[w].table = "marker"
    BY <2>1 DEF Detached, NoRow, RowType
  <2>2. CASE rows[w].table # "marker"
    <3>1. PICK old \in RowType : old = rows[w]
      BY <1>2
    <3>2. [old EXCEPT !.place = None] \in RowType
      BY Zenon DEF RowType
    <3>3. Detached(w) = [old EXCEPT !.place = None]
      BY <2>2, <3>1 DEF Detached
    <3> QED
      BY <2>2, <3>1, <3>2, <3>3 DEF RowType
  <2> QED
    BY <2>1, <2>2
<1>4. \A w \in LiveRows : after[w].place # p
  BY <1>1, <1>3 DEF At, LiveRows
<1>5. /\ rows' = after /\ places' = [places EXCEPT ![p] = "gone"]
      /\ UNCHANGED <<bikes, disk, expenses, req, refused, mergedInto>>
  BY <1>4 DEF DeletePlace
<1>6. \A w \in Rows : rows'[w] = IF w \in At(p) THEN Detached(w) ELSE rows[w]
  BY <1>5
<1>7. rows' \in [Rows -> RowType]
  BY <1>2, <1>3, <1>5
<1> HIDE DEF after
<1>8. ASSUME NEW w \in LiveRows'
      PROVE  /\ w \in LiveRows /\ rows'[w].asked = rows[w].asked
             /\ rows'[w].place = IF rows[w].place = p THEN None ELSE rows[w].place
  <2>1. w \in Rows /\ rows'[w].table \notin {"none", "gone"}
    BY DEF LiveRows
  <2>2. CASE w \in At(p)
    BY <1>3, <1>6, <2>1, <2>2 DEF At
  <2>3. CASE w \notin At(p)
    BY <1>6, <2>1, <2>3 DEF At, LiveRows
  <2> QED
    BY <2>2, <2>3
<1> QED
  BY <1>1, <1>3, <1>5, <1>6, <1>7, <1>8

LEMMA DeletePlaceStep ==
    ASSUME Inv, NEW p \in Places, DeletePlace(p)
    PROVE  Inv'
<1>1. /\ rows' \in [Rows -> RowType]
      /\ \A w \in Rows : \/ rows'[w] = rows[w]
                         \/ rows'[w].table = "gone"
                         \/ /\ rows[w].table # "marker" /\ rows'[w].table = rows[w].table
                            /\ rows'[w].bike = rows[w].bike
      /\ places' = [places EXCEPT ![p] = "gone"]
      /\ UNCHANGED <<bikes, disk, expenses, req, refused>>
  BY DeletePlaceEffect
<1>2. \A w \in LiveRows' :
        /\ rows'[w].table # "shelf" => rows'[w].bike # None
        /\ rows'[w].table = "marker" => rows'[w].place # None
  BY <1>1 DEF Inv, TypeOK, LiveRows
<1>3. places' \in [Places -> {"none", "live", "gone"}]
  BY <1>1 DEF Inv, TypeOK
<1>4. \A w \in Rows : rows[w].table \in {"record", "shelf", "gone"} =>
        rows'[w].table \in {"record", "shelf", "gone"}
  BY <1>1
<1> QED
  BY <1>1, <1>2, <1>3, <1>4, RowsWritten

---------------------------------------------------------------------------
\* Steps that write an expense.

LEMMA ExpenseWritten ==
    ASSUME Inv, NEW e \in Expenses, NEW x \in ExpenseType, expenses' = [expenses EXCEPT ![e] = x],
           UNCHANGED <<bikes, disk, places, rows, refused>>,
           UNCHANGED req \/ \E r \in Requests : Goes(r, Idle),
           x.charged = x.wanted, x.wanted \subseteq LiveBikes
    PROVE  Inv'
<1>1. LiveBikes' = LiveBikes
  BY DEF LiveBikes
<1>2. /\ expenses' \in [Expenses -> ExpenseType] /\ expenses'[e] = x
      /\ \A d \in Expenses \ {e} : expenses'[d] = expenses[d]
  BY DEF Inv, TypeOK
<1>3. TypeOK'
  BY <1>2 DEF Inv, TypeOK, Goes, LiveRows
<1>4. \A s \in Requests : Carries(req[s])'
  <2> TAKE s \in Requests
  <2>1. req'[s] = req[s] \/ req'[s] = Idle
    BY DEF Goes
  <2> QED
    BY <2>1, IdleCarries DEF Inv, Carries
<1>5. ExpensesSafe'
  BY <1>1, <1>2 DEF Inv, ExpensesSafe, ExpensesWhole, LiveBikes
<1> QED
  BY <1>3, <1>4, <1>5, ElsewhereStays DEF Inv, DeletesGoThrough

LEMMA ChargeStep ==
    ASSUME Inv, NEW r \in Requests, NEW e \in Expenses,
           InsertExpense(r, e) \/ (WriteExpense(r) /\ e = req[r].expense)
    PROVE  Inv'
<1>1. PICK set \in SUBSET Bikes : set = req[r].charged
  BY DEF Inv, TypeOK, ReqType
<1>2. Goes(r, Idle) /\ Goto(r, Idle) /\ UNCHANGED <<bikes, disk, places, rows, mergedInto, refused>>
  BY Finishes DEF InsertExpense, WriteExpense, Finish
<1> DEFINE x == [state |-> "live", charged |-> set, wanted |-> set]
<1>3. x \in ExpenseType /\ x.charged = set /\ x.wanted = set
  BY DEF ExpenseType
<1>4. \/ UNCHANGED expenses
      \/ set \subseteq LiveBikes /\ expenses' = [expenses EXCEPT ![e] = x]
  BY <1>1 DEF InsertExpense, WriteExpense, Charged
<1> HIDE DEF x
<1>5. CASE UNCHANGED expenses
  BY <1>2, <1>5, IdleCarries, PlainHandler DEF Database
<1>6. CASE set \subseteq LiveBikes /\ expenses' = [expenses EXCEPT ![e] = x]
  BY <1>2, <1>3, <1>6, ExpenseWritten
<1> QED
  BY <1>4, <1>5, <1>6

LEMMA DeleteExpenseStep ==
    ASSUME Inv, NEW e \in Expenses, DeleteExpense(e)
    PROVE  Inv'
<1> DEFINE x == [NoExpense EXCEPT !.state = "gone"]
<1>1. x \in ExpenseType /\ x.charged = {} /\ x.wanted = {}
  BY DEF NoExpense, ExpenseType
<1>2. expenses' = [expenses EXCEPT ![e] = x] /\ UNCHANGED <<bikes, disk, places, rows, req, refused>>
  BY DEF DeleteExpense
<1> HIDE DEF x
<1> QED
  BY <1>1, <1>2, ExpenseWritten

---------------------------------------------------------------------------
LEMMA NextInv == Inv /\ [Next]_vars => Inv'
<1> SUFFICES ASSUME Inv, [Next]_vars PROVE Inv'
  OBVIOUS
<1>1. CASE Place
  BY <1>1, CreatePlaceStep, DeletePlaceStep, MergeStep DEF Place
<1>2. ASSUME NEW r \in Requests, Motorcycle(r) PROVE Inv'
  BY <1>2, CreateBikeStep, InsertBikeStep, ReadBikeStep, UploadStep, WriteBikeStep,
     DeleteBikeStep, RemoveImageStep DEF Motorcycle
<1>3. ASSUME NEW r \in Requests, Linked(r) PROVE Inv'
  BY <1>3, LinkedHandlers, ReadingHandlers, InsertRowStep, WriteRowStep DEF Linked
<1>4. ASSUME NEW r \in Requests, Expense(r) PROVE Inv'
  <2>1. CASE WriteExpense(r)
    <3>1. req[r].expense \in Expenses
      BY <2>1 DEF WriteExpense, Inv, Carries
    <3> QED
      BY <2>1, <3>1, ChargeStep
  <2>2. CASE ~WriteExpense(r)
    BY <1>4, <2>2, LinkedHandlers, ReadingHandlers, ChargeStep DEF Expense
  <2> QED
    BY <2>1, <2>2
<1>5. ASSUME NEW r \in Requests, HangUp(r) PROVE Inv'
  BY <1>5, HangUpStep
<1>6. ASSUME NEW e \in Expenses, DeleteExpense(e) PROVE Inv'
  BY <1>6, DeleteExpenseStep
<1>7. CASE UNCHANGED vars
  <2>1. UNCHANGED <<bikes, disk, places, rows, expenses, req, refused>>
    BY <1>7 DEF vars
  <2>2. TypeOK' /\ ExpensesSafe' /\ \A s \in Requests : Carries(req[s])'
    BY <2>1, ExpensesStay DEF Inv, TypeOK, LiveRows, Carries
  <2> QED
    BY <2>1, <2>2, ElsewhereStays DEF Inv, DeletesGoThrough
<1> QED
  BY <1>1, <1>2, <1>3, <1>4, <1>5, <1>6, <1>7 DEF Next

THEOREM Invariant == Spec => []Inv
BY InitInv, NextInv, PTL DEF Spec

\* Every table and every handler in flight keeps its type, and the columns that are
\* NOT NULL their values.
THEOREM TypeCorrect == Spec => []TypeOK
<1>1. Inv => TypeOK
  BY DEF Inv
<1> QED
  BY Invariant, <1>1, PTL

\* However uploads, updates that write back a name they read, and deletes that remove a
\* file overlap, the image of a motorcycle is on disk.
THEOREM ImagesStayOnDisk == Spec => []ImagesOnDisk
<1>1. Inv => ImagesOnDisk
  BY DEF Inv, ImagesSafe
<1> QED
  BY Invariant, <1>1, PTL

\* An expense is charged to all the motorcycles of the last accepted body that still
\* exist, whatever was deleted between the checks and the transaction.
THEOREM ExpensesStayWhole == Spec => []ExpensesWhole
<1>1. Inv => ExpensesWhole
  BY DEF Inv, ExpensesSafe
<1> QED
  BY Invariant, <1>1, PTL

\* A delete of a motorcycle or a place and a merge of places clear or repoint every row
\* that would hold them, so no foreign key refuses them.
THEOREM NothingHoldsADelete == Spec => []DeletesGoThrough
<1>1. Inv => DeletesGoThrough
  BY DEF Inv
<1> QED
  BY Invariant, <1>1, PTL
---------------------------------------------------------------------------
\* Links.  A merge gives a place one heir, and only a place that was live; so the
\* heirs of a place are one chain, and only its end can be live.

LinksSafe ==
    /\ mergedInto \in [Places -> Places \union {None}]
    /\ \A p \in Places : mergedInto[p] # None => places[p] = "gone" /\ places[mergedInto[p]] # "none"
    /\ \A w \in LiveRows : rows[w].asked # None => places[rows[w].asked] # "none"
    /\ LinksFollowMerges

Closed(into, S) == \A x \in S : into[x] # None => into[x] \in S

\* The heirs of p are the least closed set with p.
LEMMA HeirsLeast ==
    ASSUME NEW into, NEW p \in Places, NEW S \in SUBSET Places, p \in S, Closed(into, S)
    PROVE  Heirs(into, p) \subseteq S
BY DEF Heirs, Closed

LEMMA HeirsClosed ==
    ASSUME NEW into \in [Places -> Places \union {None}], NEW p \in Places
    PROVE  /\ p \in Heirs(into, p) /\ Heirs(into, p) \subseteq Places
           /\ Closed(into, Heirs(into, p))
<1>1. p \in Heirs(into, p) /\ Heirs(into, p) \subseteq Places
  BY DEF Heirs
<1>2. ASSUME NEW x \in Heirs(into, p), into[x] # None PROVE into[x] \in Heirs(into, p)
  <2>1. x \in Places /\ into[x] \in Places
    BY <1>1, <1>2
  <2>2. ASSUME NEW S \in SUBSET Places, p \in S, \A y \in S : into[y] # None => into[y] \in S
        PROVE  into[x] \in S
    BY <1>2, <2>2 DEF Heirs
  <2> QED
    BY <2>1, <2>2, Zenon DEF Heirs
<1> QED
  BY <1>1, <1>2 DEF Closed

LEMMA HeirsOfEnd ==
    ASSUME NEW into \in [Places -> Places \union {None}], NEW p \in Places, into[p] = None
    PROVE  Heirs(into, p) = {p}
<1>1. Closed(into, {p})
  BY DEF Closed
<1> QED
  BY <1>1, HeirsLeast, HeirsClosed

\* The end of the chain of p is the end of the chain of every heir of p, so it is
\* the only end.
LEMMA OneEnd ==
    ASSUME NEW into \in [Places -> Places \union {None}], NEW p \in Places,
           NEW q \in Heirs(into, p), into[q] = None,
           NEW x \in Heirs(into, p), into[x] = None
    PROVE  x = q
<1>1. Heirs(into, p) \subseteq Places /\ Closed(into, Heirs(into, p)) /\ p \in Heirs(into, p)
  BY HeirsClosed
<1> DEFINE T == {y \in Heirs(into, p) : q \in Heirs(into, y)}
<1>2. Closed(into, T)
  <2> SUFFICES ASSUME NEW y \in T, into[y] # None PROVE into[y] \in T
    BY DEF Closed
  <2>1. /\ y \in Places /\ into[y] \in Places /\ into[y] \in Heirs(into, p) /\ y # q
    BY <1>1 DEF Closed
  <2>2. /\ into[y] \in Heirs(into, into[y]) /\ Heirs(into, into[y]) \subseteq Places
        /\ Closed(into, Heirs(into, into[y]))
    BY <2>1, HeirsClosed
  <2>3. Closed(into, {y} \union Heirs(into, into[y]))
    BY <2>1, <2>2 DEF Closed
  <2>4. Heirs(into, y) \subseteq {y} \union Heirs(into, into[y])
    <3>1. {y} \union Heirs(into, into[y]) \in SUBSET Places
      BY <2>1, <2>2
    <3> QED
      BY <2>1, <2>3, <3>1, HeirsLeast
  <2> QED
    BY <2>1, <2>4
<1>3. p \in T /\ T \in SUBSET Places
  BY <1>1
<1>4. x \in T
  BY <1>2, <1>3, HeirsLeast
<1>5. Heirs(into, x) = {x}
  BY <1>1, HeirsOfEnd
<1> QED
  BY <1>4, <1>5

LEMMA LivePlacesEnd ==
    ASSUME LinksSafe, NEW p \in LivePlaces
    PROVE  p \in Places /\ mergedInto[p] = None /\ Heirs(mergedInto, p) = {p}
<1>1. p \in Places /\ mergedInto[p] = None
  BY DEF LinksSafe, LivePlaces
<1> QED
  BY <1>1, HeirsOfEnd DEF LinksSafe

\* What a place was merged into has been there.
LEMMA HeirsWereThere ==
    ASSUME LinksSafe, NEW p \in Places, places[p] # "none"
    PROVE  \A q \in Heirs(mergedInto, p) : places[q] # "none"
<1> DEFINE S == {q \in Places : places[q] # "none"}
<1>1. Closed(mergedInto, S)
  BY DEF Closed, LinksSafe
<1> QED
  BY <1>1, HeirsLeast

\* The rows that stay keep their links.
LEMMA LinksStay ==
    ASSUME LinksSafe, UNCHANGED <<places, mergedInto>>,
           \A w \in LiveRows' : \/ /\ w \in LiveRows /\ rows'[w].place = rows[w].place
                                   /\ rows'[w].asked = rows[w].asked
                                \/ /\ rows'[w].place = rows'[w].asked
                                   /\ rows'[w].asked \in LivePlaces \union {None}
    PROVE  LinksSafe'
<1>1. LivePlaces' = LivePlaces
  BY DEF LivePlaces
<1>2. \A w \in LiveRows' : rows'[w].asked # None => places'[rows'[w].asked] # "none"
  BY DEF LinksSafe, LivePlaces
<1>3. ASSUME NEW w \in LiveRows' PROVE Survivors(rows[w].asked)' = {rows'[w].place} \ {None}
  <2>1. CASE /\ w \in LiveRows /\ rows'[w].place = rows[w].place /\ rows'[w].asked = rows[w].asked
    <3>1. Survivors(rows[w].asked) = {rows[w].place} \ {None}
      BY <2>1 DEF LinksSafe, LinksFollowMerges
    <3> QED
      BY <1>1, <2>1, <3>1 DEF Survivors
  <2>2. CASE rows'[w].place = rows'[w].asked /\ rows'[w].asked = None
    BY <2>2 DEF Survivors
  <2>3. CASE rows'[w].place = rows'[w].asked /\ rows'[w].asked \in LivePlaces
    <3>1. PICK p \in LivePlaces : p = rows'[w].asked
      BY <2>3
    <3>2. p # None /\ Heirs(mergedInto, p) = {p}
      BY NoneAssumption, LivePlacesEnd DEF LivePlaces
    <3> QED
      BY <1>1, <2>3, <3>1, <3>2 DEF Survivors
  <2> QED
    BY <1>3, <2>1, <2>2, <2>3
<1> QED
  BY <1>2, <1>3 DEF LinksSafe, LinksFollowMerges

\* Rows are written only where the foreign key holds.
LEMMA WritesKeepLinks ==
    ASSUME Inv, LinksSafe, NEW r \in Requests,
           WriteRow(r) \/ \E w \in Rows : InsertRow(r, w)
    PROVE  LinksSafe'
<1>1. PICK q \in ReqType : q = req[r]
  BY DEF Inv, TypeOK
<1>2. UNCHANGED <<places, mergedInto>>
  BY DEF WriteRow, InsertRow
<1>3. KeysHold(q) => q.place \in LivePlaces \union {None}
  BY DEF KeysHold
<1>4. ASSUME NEW w \in Rows, InsertRow(r, w) PROVE LinksSafe'
  <2> DEFINE x == [table |-> q.pc, bike |-> q.bike, place |-> q.place, asked |-> q.place]
  <2>1. x.place = q.place /\ x.asked = q.place
    OBVIOUS
  <2>2. rows' = rows \/ (KeysHold(q) /\ rows' = [rows EXCEPT ![w] = x])
    BY <1>1, <1>4 DEF InsertRow
  <2> HIDE DEF x
  <2>3. \A v \in Rows : rows'[v] = rows[v] \/ (KeysHold(q) /\ rows'[v] = x)
    BY <2>2 DEF Inv, TypeOK
  <2>4. \A v \in LiveRows' : \/ v \in LiveRows /\ rows'[v] = rows[v]
                             \/ KeysHold(q) /\ rows'[v] = x
    BY <2>3 DEF LiveRows
  <2> QED
    BY <1>2, <1>3, <2>1, <2>4, LinksStay
<1>5. CASE WriteRow(r)
  <2>1. q.row \in LiveRows => q.row \in Rows /\ rows[q.row] \in RowType
    BY DEF LiveRows, Inv, TypeOK
  <2>2. CASE q.row \in LiveRows /\ KeysHold(q)
    <3>1. PICK old \in RowType : old = rows[q.row]
      BY <2>1, <2>2
    <3> DEFINE x == [old EXCEPT !.place = q.place, !.asked = q.place]
    <3>2. x.place = q.place /\ x.asked = q.place /\ x.table = old.table
      BY DEF RowType
    <3>3. rows' = [rows EXCEPT ![q.row] = x]
      BY <1>1, <1>5, <2>1, <2>2, <3>1 DEF WriteRow, Inv, TypeOK
    <3> HIDE DEF x
    <3>4. \A v \in LiveRows' : (v \in LiveRows /\ rows'[v] = rows[v]) \/ rows'[v] = x
      BY <3>3 DEF Inv, TypeOK, LiveRows
    <3> QED
      BY <1>2, <1>3, <2>2, <3>2, <3>4, LinksStay
  <2>3. CASE ~(q.row \in LiveRows /\ KeysHold(q))
    <3>1. rows' = rows
      BY <1>1, <1>5, <2>3 DEF WriteRow
    <3> QED
      BY <1>2, <3>1, LinksStay DEF LiveRows
  <2> QED
    BY <2>2, <2>3
<1> QED
  BY <1>4, <1>5

\* A new place is nobody's heir yet.
LEMMA CreateKeepsLinks ==
    ASSUME Inv, LinksSafe, NEW p \in Places, CreatePlace(p)
    PROVE  LinksSafe'
<1>1. /\ UNCHANGED <<rows, mergedInto>> /\ places[p] = "none"
      /\ places' \in [Places -> {"none", "live", "gone"}]
      /\ places'[p] = "live" /\ \A q \in Places : q # p => places'[q] = places[q]
  BY DEF CreatePlace, Inv, TypeOK
<1>2. LiveRows' = LiveRows
  BY <1>1 DEF LiveRows
<1>3. ASSUME NEW w \in LiveRows PROVE Survivors(rows[w].asked)' = Survivors(rows[w].asked)
  <2>1. CASE rows[w].asked = None
    BY <1>1, <2>1 DEF Survivors
  <2>2. CASE rows[w].asked # None
    <3>1. PICK a \in Places : a = rows[w].asked
      BY <2>2 DEF Inv, TypeOK, RowType, LiveRows
    <3>2. p \notin Heirs(mergedInto, a)
      BY <1>1, <2>2, <3>1, HeirsWereThere DEF LinksSafe
    <3>3. Heirs(mergedInto, a) \intersect LivePlaces' = Heirs(mergedInto, a) \intersect LivePlaces
      BY <1>1, <3>2 DEF LivePlaces
    <3> QED
      BY <1>1, <2>2, <3>1, <3>3 DEF Survivors
  <2> QED
    BY <2>1, <2>2
<1>4. LinksFollowMerges'
  BY <1>1, <1>2, <1>3 DEF LinksSafe, LinksFollowMerges
<1>5. /\ \A q \in Places : mergedInto'[q] # None => places'[q] = "gone" /\ places'[mergedInto'[q]] # "none"
      /\ \A w \in LiveRows' : rows'[w].asked # None => places'[rows'[w].asked] # "none"
  BY <1>1, <1>2 DEF LinksSafe, Inv, TypeOK, RowType, LiveRows
<1> QED
  BY <1>1, <1>4, <1>5 DEF LinksSafe

\* A merge keeps every link: the chains that ended at a duplicate go on to the
\* canonical place, as do the rows.
LEMMA MergeKeepsLinks ==
    ASSUME Inv, LinksSafe, NEW p \in Places, NEW dups \in SUBSET Places, MergePlaces(p, dups)
    PROVE  LinksSafe'
<1>1. /\ p \in LivePlaces /\ dups \subseteq LivePlaces \ {p}
      /\ rows' \in [Rows -> RowType]
      /\ \A w \in Rows :
            /\ rows'[w].table = rows[w].table /\ rows'[w].asked = rows[w].asked
            /\ rows'[w].place = IF w \in LiveRows /\ rows[w].place \in dups THEN p ELSE rows[w].place
      /\ places' = [q \in Places |-> IF q \in dups THEN "gone" ELSE places[q]]
      /\ mergedInto' = [q \in Places |-> IF q \in dups THEN p ELSE mergedInto[q]]
  BY MergeEffect
<1> DEFINE into == [q \in Places |-> IF q \in dups THEN p ELSE mergedInto[q]]
<1>2. PICK new : new = into
  OBVIOUS
<1>3. mergedInto' = new /\ new \in [Places -> Places \union {None}]
  BY <1>1, <1>2 DEF LinksSafe
<1>4. \A q \in Places : new[q] = IF q \in dups THEN p ELSE mergedInto[q]
  BY <1>2
<1> HIDE DEF into
<1>5. /\ LiveRows' = LiveRows /\ LivePlaces' = LivePlaces \ dups /\ LivePlaces \subseteq Places
      /\ None \notin Places
  BY <1>1, NoneAssumption DEF LiveRows, LivePlaces
<1>6. \A q \in LivePlaces : mergedInto[q] = None
  BY LivePlacesEnd
<1>7. \A q \in LivePlaces' : new[q] = None
  BY <1>1, <1>4, <1>5, <1>6
<1>8. ASSUME NEW w \in LiveRows PROVE Survivors(rows[w].asked)' = {rows'[w].place} \ {None}
  <2>1. Survivors(rows[w].asked) = {rows[w].place} \ {None} /\ w \in Rows /\ rows'[w].asked = rows[w].asked
    BY <1>1 DEF LinksSafe, LinksFollowMerges, LiveRows
  <2>2. CASE rows[w].asked = None
    <3>1. rows[w].place = None
      BY <2>1, <2>2 DEF Survivors
    <3> QED
      BY <1>1, <1>5, <2>1, <2>2, <3>1 DEF Survivors
  <2>3. CASE rows[w].asked # None
    <3>1. PICK a \in Places : a = rows[w].asked
      BY <2>1, <2>3 DEF Inv, TypeOK, RowType
    <3> DEFINE old == Heirs(mergedInto, a)
               now == Heirs(new, a)
    <3>2. old \intersect LivePlaces = {rows[w].place} \ {None}
      BY <2>1, <2>3, <3>1 DEF Survivors
    <3>3. Survivors(rows[w].asked)' = now \intersect LivePlaces'
      BY <1>3, <2>1, <2>3, <3>1 DEF Survivors
    <3>4. /\ a \in old /\ old \subseteq Places /\ Closed(mergedInto, old)
          /\ a \in now /\ now \subseteq Places /\ Closed(new, now)
      BY <1>3, HeirsClosed DEF LinksSafe
    <3>5. old \subseteq now
      <4>1. Closed(mergedInto, now)
        BY <1>1, <1>4, <1>6, <3>4 DEF Closed
      <4> HIDE DEF now
      <4> QED
        BY <3>4, <4>1, HeirsLeast
    <3>6. \A x, y \in now \intersect LivePlaces' : x = y
      BY <1>3, <1>7, OneEnd
    <3>7. CASE rows[w].place \in dups
      <4>1. rows[w].place \in old /\ rows'[w].place = p /\ p \in LivePlaces'
        BY <1>1, <1>5, <2>1, <3>2, <3>7
      <4>2. p \in now
        BY <1>1, <1>4, <1>5, <3>4, <3>5, <3>7, <4>1 DEF Closed
      <4> HIDE DEF now, old
      <4> QED
        BY <1>5, <3>3, <3>6, <4>1, <4>2
    <3>8. CASE rows[w].place \notin dups
      <4>1. rows'[w].place = rows[w].place /\ old \intersect dups = {}
        BY <1>1, <2>1, <3>2, <3>8
      <4>2. Closed(new, old)
        BY <1>4, <3>4, <4>1 DEF Closed
      <4>3. now \subseteq old
        BY <3>4, <4>2, HeirsLeast
      <4> HIDE DEF now, old
      <4> QED
        BY <1>5, <3>2, <3>3, <3>5, <4>1, <4>3
    <3> QED
      BY <3>7, <3>8
  <2> QED
    BY <2>2, <2>3
<1>9. LinksFollowMerges'
  BY <1>5, <1>8 DEF LinksFollowMerges
<1>10. /\ \A q \in Places : mergedInto'[q] # None => places'[q] = "gone" /\ places'[mergedInto'[q]] # "none"
       /\ \A w \in LiveRows' : rows'[w].asked # None => places'[rows'[w].asked] # "none"
  <2>1. \A q \in Places : places[q] # "none" => places'[q] # "none"
    BY <1>1
  <2>2. ASSUME NEW q \in Places, mergedInto'[q] # None
        PROVE  places'[q] = "gone" /\ places'[mergedInto'[q]] # "none"
    <3>1. CASE q \in dups
      BY <1>1, <1>5, <2>1, <3>1 DEF LivePlaces
    <3>2. CASE q \notin dups
      <4>1. mergedInto'[q] = mergedInto[q] /\ mergedInto[q] \in Places /\ places[q] = "gone"
            /\ places[mergedInto[q]] # "none"
        BY <1>1, <2>2, <3>2 DEF LinksSafe
      <4> QED
        BY <1>1, <2>1, <3>2, <4>1
    <3> QED
      BY <3>1, <3>2
  <2>3. ASSUME NEW w \in LiveRows, rows[w].asked # None PROVE places'[rows[w].asked] # "none"
    <3>1. rows[w].asked \in Places /\ places[rows[w].asked] # "none"
      BY <2>3 DEF Inv, TypeOK, RowType, LiveRows, LinksSafe
    <3> QED
      BY <2>1, <3>1
  <2> QED
    BY <1>1, <1>5, <2>2, <2>3 DEF LiveRows
<1> QED
  BY <1>3, <1>9, <1>10 DEF LinksSafe

\* A delete takes the place from the rows, and from the ends of the chains.
LEMMA DeleteKeepsLinks ==
    ASSUME Inv, LinksSafe, NEW p \in Places, DeletePlace(p)
    PROVE  LinksSafe'
<1>1. /\ p \in LivePlaces /\ UNCHANGED mergedInto
      /\ places' = [places EXCEPT ![p] = "gone"]
      /\ \A w \in LiveRows' :
            /\ w \in LiveRows /\ rows'[w].asked = rows[w].asked
            /\ rows'[w].place = IF rows[w].place = p THEN None ELSE rows[w].place
  BY DeletePlaceEffect
<1>2. LivePlaces' = LivePlaces \ {p} /\ None \notin Places
  BY <1>1, NoneAssumption DEF LivePlaces, Inv, TypeOK
<1>3. ASSUME NEW w \in LiveRows' PROVE Survivors(rows[w].asked)' = {rows'[w].place} \ {None}
  <2>1. /\ Survivors(rows[w].asked) = {rows[w].place} \ {None} /\ rows'[w].asked = rows[w].asked
        /\ rows'[w].place = IF rows[w].place = p THEN None ELSE rows[w].place
    BY <1>1 DEF LinksSafe, LinksFollowMerges
  <2>2. Survivors(rows[w].asked)' = Survivors(rows[w].asked) \ {p}
    BY <1>1, <1>2, <2>1 DEF Survivors
  <2> QED
    BY <1>2, <2>1, <2>2
<1>4. LinksFollowMerges'
  BY <1>3 DEF LinksFollowMerges
<1>5. /\ \A q \in Places : mergedInto'[q] # None => places'[q] = "gone" /\ places'[mergedInto'[q]] # "none"
      /\ \A w \in LiveRows' : rows'[w].asked # None => places'[rows'[w].asked] # "none"
  <2>1. \A q \in Places : /\ places[q] # "none" => places'[q] # "none"
                          /\ places[q] = "gone" => places'[q] = "gone"
    BY <1>1 DEF Inv, TypeOK
  <2>2. \A q \in Places : mergedInto[q] # None =>
            mergedInto[q] \in Places /\ places[q] = "gone" /\ places[mergedInto[q]] # "none"
    BY DEF LinksSafe
  <2>3. \A w \in LiveRows : rows[w].asked # None => rows[w].asked \in Places /\ places[rows[w].asked] # "none"
    BY DEF Inv, TypeOK, RowType, LiveRows, LinksSafe
  <2> QED
    BY <1>1, <2>1, <2>2, <2>3
<1> QED
  BY <1>1, <1>4, <1>5 DEF LinksSafe

LEMMA LinksInit == Init => LinksSafe
<1> SUFFICES ASSUME Init PROVE LinksSafe
  OBVIOUS
<1>1. mergedInto = [p \in Places |-> None]
  BY DEF Init
<1>2. mergedInto \in [Places -> Places \union {None}] /\ \A p \in Places : mergedInto[p] = None
  BY <1>1
<1>3. ASSUME NEW w \in LiveRows
      PROVE  rows[w].asked = rows[w].place /\ rows[w].asked \in LivePlaces
  <2>1. CASE rows = [v \in Rows |-> NoRow]
    BY <2>1 DEF NoRow, LiveRows
  <2>2. ASSUME NEW b \in Bikes, NEW p \in Places, NEW v \in Rows,
               places = [q \in Places |-> IF q = p THEN "live" ELSE "none"],
               rows = [x \in Rows |-> IF x = v THEN MarkerAt(b, p) ELSE NoRow]
        PROVE  rows[w].asked = rows[w].place /\ rows[w].asked \in LivePlaces
    <3>1. rows[w] = MarkerAt(b, p)
      BY <2>2 DEF NoRow, LiveRows
    <3> QED
      BY <2>2, <3>1 DEF MarkerAt, LivePlaces
  <2> QED
    BY <2>1, <2>2, Zenon DEF Init
<1>4. ASSUME NEW w \in LiveRows PROVE Survivors(rows[w].asked) = {rows[w].place} \ {None}
  <2>1. PICK a \in LivePlaces : a = rows[w].asked /\ a = rows[w].place
    BY <1>3
  <2>2. a \in Places /\ a # None /\ Heirs(mergedInto, a) = {a}
    BY <1>2, HeirsOfEnd, NoneAssumption DEF LivePlaces
  <2> QED
    BY <2>1, <2>2 DEF Survivors
<1> QED
  BY <1>2, <1>3, <1>4 DEF LinksSafe, LinksFollowMerges, LivePlaces

LEMMA LinksNext == Inv /\ LinksSafe /\ [Next]_vars => LinksSafe'
<1> SUFFICES ASSUME Inv, LinksSafe, [Next]_vars PROVE LinksSafe'
  OBVIOUS
<1>1. CASE UNCHANGED <<places, rows, mergedInto>>
  BY <1>1, LinksStay DEF LiveRows
<1>2. CASE Place
  BY <1>2, CreateKeepsLinks, MergeKeepsLinks, DeleteKeepsLinks DEF Place
<1>3. ASSUME NEW r \in Requests, DeleteBike(r) PROVE LinksSafe'
  <2>1. UNCHANGED <<places, mergedInto>>
    BY <1>3, Zenon DEF DeleteBike
  <2>2. \/ UNCHANGED rows
        \/ rows' = [w \in Rows |-> IF w \in Children(req[r].bike)
                                   THEN [NoRow EXCEPT !.table = "gone"] ELSE rows[w]]
    BY <1>3, Zenon DEF DeleteBike
  <2>3. \A w \in LiveRows' : w \in LiveRows /\ rows'[w] = rows[w]
    BY <2>2 DEF LiveRows, NoRow
  <2> QED
    BY <2>1, <2>3, LinksStay
<1>4. ASSUME NEW r \in Requests, Motorcycle(r), ~DeleteBike(r) PROVE UNCHANGED <<places, rows, mergedInto>>
  BY <1>4 DEF Motorcycle, BeginCreateBike, InsertBike, BeginUpdateBike, UploadImage, WriteBike,
     BeginDeleteBike, RemoveImage, Database
<1>5. ASSUME NEW r \in Requests, Linked(r) PROVE LinksSafe'
  <2>1. CASE WriteRow(r) \/ \E w \in Rows : InsertRow(r, w)
    BY <2>1, WritesKeepLinks
  <2>2. CASE ~(WriteRow(r) \/ \E w \in Rows : InsertRow(r, w))
    <3>1. UNCHANGED <<places, rows, mergedInto>>
      BY <1>5, <2>2 DEF Linked, VerifyBike, BeginShelf, ReadRecord, BeginUpdateShelf, VerifyPlace, Database
    <3> QED
      BY <1>1, <3>1
  <2> QED
    BY <2>1, <2>2
<1>6. ASSUME NEW r \in Requests, Expense(r) \/ HangUp(r) PROVE UNCHANGED <<places, rows, mergedInto>>
  BY <1>6 DEF Expense, BeginExpense, BeginUpdateExpense, InsertExpense, ChargeTo, WriteExpense, HangUp, Database
<1>7. ASSUME NEW e \in Expenses, DeleteExpense(e) PROVE UNCHANGED <<places, rows, mergedInto>>
  BY <1>7 DEF DeleteExpense
<1>8. CASE UNCHANGED vars
  BY <1>1, <1>8 DEF vars
<1> QED
  BY <1>1, <1>2, <1>3, <1>4, <1>5, <1>6, <1>7, <1>8 DEF Next

\* Whatever is merged and deleted while rows are linked to places: a row is at the
\* place it was last given or the one that place was merged into, as long as it exists.
THEOREM LinksAreKept == Spec => []LinksFollowMerges
<1>1. LinksSafe => LinksFollowMerges
  BY DEF LinksSafe
<1>2. Spec => []LinksSafe
  BY Invariant, LinksInit, LinksNext, PTL DEF Spec
<1> QED
  BY <1>1, <1>2, PTL

==============================================================================
