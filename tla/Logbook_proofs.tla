---------------------------- MODULE Logbook_proofs ----------------------------
(***************************************************************************)
(* The logbook for any number of records, clients, motorcycles and places: *)
(* how clients keep it in step (MaintenanceSync), the chain of its fuel     *)
(* records (FuelChain), and the figures worked out from it (FleetStats,     *)
(* RideMap).                                                                *)
(***************************************************************************)
EXTENDS MaintenanceSync, FuelChain, FleetStats, RideMap,
        FiniteSetTheorems, WellFoundedInduction, TLAPS

\* What a committing handler q may do to one row.
SameName(old, new) == new.parent = old.parent /\ new.key = old.key
TopInserted(old, new, q) ==
    /\ old.state = "none" /\ new.state = "live"
    /\ new.parent = None /\ new.key = q.key /\ new.updatedAt = q.stamp
ChildInserted(old, new, q) ==
    /\ old.state = "none" /\ new.state = "live"
    /\ new.parent \in Records /\ new.key = None /\ new.updatedAt \in {0, q.stamp}
Stamped(old, new, q) ==
    /\ SameName(old, new)
    /\ old.state \in {"live", "deleted"} /\ new.state \in {"live", "deleted"}
    /\ new.updatedAt = q.stamp
ChildTouched(old, new) ==
    /\ SameName(old, new)
    /\ old.state \in {"live", "deleted"} /\ new.state \in {old.state, "removed"}
    /\ old.parent \in Records /\ new.updatedAt = old.updatedAt

\* What holds of a row after any commit but the insert of a record.
Revised(i, q) ==
    /\ rows'[i] \in RowType
    /\ \/ rows'[i] = rows[i]
       \/ ChildInserted(rows[i], rows'[i], q)
       \/ Stamped(rows[i], rows'[i], q)
       \/ ChildTouched(rows[i], rows'[i])

KeysUnique == \A i, j \in Stored : rows[i].key = rows[j].key /\ rows[i].key # None => i = j
KeyedAreTop == \A i \in Stored : rows[i].key # None => rows[i].parent = None
AnswersNameRows == \A a \in answers : a[2] \in Stored /\ rows[a[2]].key = a[1]
IdsInFlight == \A r \in Requests : req[r].pc \in {"update", "delete"} => req[r].id \in Records

KeyInv == TypeOK /\ KeysUnique /\ KeyedAreTop /\ AnswersNameRows /\ IdsInFlight

\* A new record for one request keeps the type of all.
LEMMA RequestType ==
    ASSUME TypeOK, NEW r \in Requests, NEW q \in ReqType, req' = [req EXCEPT ![r] = q]
    PROVE  /\ req' \in [Requests -> ReqType]
           /\ req'[r] = q
           /\ \A x \in Requests \ {r} : req'[x] = req[x]
BY DEF TypeOK

LEMMA IdleRequest == Idle \in ReqType
BY SMT DEF Idle, ReqType, PCs

\* What a bundled item is stored as has the type of an item.
LEMMA StoredAsTyped ==
    ASSUME NEW I \in SUBSET Items, NEW f, NEW i, \E a \in I : f[a] = i
    PROVE  StoredAs(CHOOSE a \in I : f[a] = i) \in Items \union {General, None}
<1>1. (CHOOSE a \in I : f[a] = i) \in Items
  BY Zenon
<1> QED
  BY <1>1, Zenon DEF StoredAs

\* The insert of a record: one top-level row with its key, and its children.
LEMMA CreateRows ==
    ASSUME TypeOK, NEW r \in Requests, Create(r)
    PROVE  \E p \in Records :
             /\ rows'[p] \in RowType /\ TopInserted(rows[p], rows'[p], req[r])
             /\ \A i \in Records \ {p} : Revised(i, req[r])
             /\ Answer(req[r].key, p)
<1> DEFINE q == req[r]
<1>1. PICK p \in Unused, f \in FreshIds(q.items) :
         /\ \A a \in q.items : f[a] # p
         /\ rows' = Inserted(p, f, q)
         /\ Answer(q.key, p)
  BY DEF Create
<1>2. /\ rows \in [Records -> RowType]
      /\ q \in ReqType /\ q.items \in SUBSET Items /\ q.odo \in Odos \union {None}
      /\ q.key \in Keys \union {None} /\ q.stamp \in Nat
  BY DEF TypeOK, ReqType
<1>3. /\ p \in Records /\ rows[p].state = "none"
      /\ \A a \in q.items : f[a] \in Records /\ rows[f[a]].state = "none"
  BY <1>1 DEF Unused, FreshIds
<1>4. rows'[p] = Row(None, None, q.odo, q.key, q.stamp)
  BY <1>1, <1>3 DEF Inserted
<1>5. rows'[p] \in RowType /\ TopInserted(rows[p], rows'[p], q)
  <2>2. /\ rows'[p] \in RowType /\ rows'[p].state = "live" /\ rows'[p].parent = None
        /\ rows'[p].key = q.key /\ rows'[p].updatedAt = q.stamp
    BY <1>2, <1>4 DEF Row, RowType, States
  <2> QED
    BY <1>3, <2>2 DEF TopInserted
<1>6. ASSUME NEW i \in Records \ {p}
      PROVE  Revised(i, q)
  <2>1. CASE \E a \in q.items : f[a] = i
    <3>1. rows'[i] = Row(p, StoredAs(CHOOSE a \in q.items : f[a] = i), q.odo, None, q.stamp)
      BY <1>1, <2>1, Zenon DEF Inserted
    <3>2. StoredAs(CHOOSE a \in q.items : f[a] = i) \in Items \union {General, None}
      BY <1>2, <2>1, StoredAsTyped
    <3>3. rows[i].state = "none"
      BY <1>3, <2>1
    <3> HIDE DEF q
    <3> DEFINE item == StoredAs(CHOOSE a \in q.items : f[a] = i)
    <3>4. item \in Items \union {General, None} /\ rows'[i] = Row(p, item, q.odo, None, q.stamp)
      BY <3>1, <3>2
    <3> HIDE DEF item
    <3>6. /\ rows'[i] \in RowType /\ rows'[i].state = "live" /\ rows'[i].parent = p
          /\ rows'[i].key = None /\ rows'[i].updatedAt = q.stamp
      BY <1>2, <1>3, <3>4 DEF Row, RowType, States
    <3> QED
      BY <1>3, <3>3, <3>6 DEF Revised, ChildInserted
  <2>2. CASE ~\E a \in q.items : f[a] = i
    <3>1. rows'[i] = rows[i]
      BY <1>1, <1>6, <2>2, Zenon DEF Inserted
    <3> QED
      BY <1>2, <3>1 DEF Revised
  <2> QED
    BY <2>1, <2>2
<1> QED
  BY <1>1, <1>3, <1>5, <1>6

\* An update stamps its record, and touches or inserts children.
LEMMA UpdateRows ==
    ASSUME TypeOK, IdsInFlight, NEW r \in Requests, Update(r), NEW i \in Records
    PROVE  Revised(i, req[r])
<1> DEFINE q == req[r]
<1>1. PICK f \in FreshIds(MissingItems(q)) :
         rows' = [j \in Records |->
                    IF \E a \in MissingItems(q) : f[a] = j
                    THEN Row(q.id, StoredAs(CHOOSE a \in MissingItems(q) : f[a] = j), q.odo, None, 0)
                    ELSE AfterUpdate(q)[j]]
  BY DEF Update
<1>2. /\ rows[i] \in RowType
      /\ q \in ReqType /\ q.items \in SUBSET Items /\ q.odo \in Odos \union {None}
      /\ q.stamp \in Nat /\ q.id \in Records
  BY DEF TypeOK, ReqType, Update, IdsInFlight, At
<1>3. MissingItems(q) \in SUBSET Items
  BY <1>2 DEF MissingItems
<1>4. CASE \E a \in MissingItems(q) : f[a] = i
  <2>1. rows'[i] = Row(q.id, StoredAs(CHOOSE a \in MissingItems(q) : f[a] = i), q.odo, None, 0)
    BY <1>1, <1>4, Zenon
  <2> DEFINE M == MissingItems(q)
  <2>a. M \in SUBSET Items /\ \E a \in M : f[a] = i
    BY <1>3, <1>4
  <2> HIDE DEF M
  <2>b. StoredAs(CHOOSE a \in M : f[a] = i) \in Items \union {General, None}
    BY <2>a, StoredAsTyped
  <2>2. StoredAs(CHOOSE a \in MissingItems(q) : f[a] = i) \in Items \union {General, None}
    BY <2>b DEF M
  <2>3. rows[i].state = "none"
    BY <1>1, <1>4 DEF FreshIds, Unused
  <2> HIDE DEF q
  <2> DEFINE item == StoredAs(CHOOSE a \in MissingItems(q) : f[a] = i)
  <2>4. item \in Items \union {General, None} /\ rows'[i] = Row(q.id, item, q.odo, None, 0)
    BY <2>1, <2>2
  <2> HIDE DEF item
  <2>6. /\ rows'[i] \in RowType /\ rows'[i].state = "live" /\ rows'[i].parent = q.id
        /\ rows'[i].key = None /\ rows'[i].updatedAt = 0
    BY <1>2, <2>4 DEF Row, RowType, States
  <2> QED
    BY <1>2, <2>3, <2>6 DEF Revised, ChildInserted, q
<1>5. CASE ~\E a \in MissingItems(q) : f[a] = i
  <2>1. rows'[i] = AfterUpdate(q)[i]
    BY <1>1, <1>5, Zenon
  <2>2. CASE i = q.id /\ i \in Stored
    <3>1. rows'[i] = [rows[i] EXCEPT !.odo = q.odo, !.updatedAt = q.stamp]
      BY <2>1, <2>2 DEF AfterUpdate, Written
    <3>2. rows'[i] \in RowType
      BY <1>2, <3>1, Zenon DEF RowType
    <3>3. /\ rows'[i].parent = rows[i].parent /\ rows'[i].key = rows[i].key
          /\ rows'[i].state = rows[i].state /\ rows'[i].updatedAt = q.stamp
      BY <1>2, <3>1 DEF RowType
    <3> QED
      BY <2>2, <3>2, <3>3 DEF Revised, Stamped, SameName, Stored
  <2>3. CASE ~(i = q.id /\ i \in Stored) /\ q.bundled /\ i \in Children(q.id)
    <3>1. rows'[i] = IF rows[i].item \in q.items THEN [rows[i] EXCEPT !.odo = q.odo]
                     ELSE [rows[i] EXCEPT !.state = "removed"]
      BY <2>1, <2>3 DEF AfterUpdate
    <3>2. "removed" \in States
      BY DEF States
    <3>3. rows'[i] \in RowType
      BY <1>2, <3>1, <3>2, Zenon DEF RowType
    <3>4. /\ rows'[i].parent = rows[i].parent /\ rows'[i].key = rows[i].key
          /\ rows'[i].state \in {rows[i].state, "removed"} /\ rows'[i].updatedAt = rows[i].updatedAt
      BY <1>2, <3>1 DEF RowType
    <3> QED
      BY <1>2, <2>3, <3>3, <3>4 DEF Revised, ChildTouched, SameName, Children, Stored
  <2>4. CASE ~(i = q.id /\ i \in Stored) /\ ~(q.bundled /\ i \in Children(q.id))
    BY <1>2, <2>1, <2>4 DEF AfterUpdate, Revised
  <2> QED
    BY <2>2, <2>3, <2>4
<1> QED
  BY <1>4, <1>5

\* A delete stamps its record.
LEMMA DeleteRows ==
    ASSUME TypeOK, IdsInFlight, NEW r \in Requests, Delete(r), NEW i \in Records
    PROVE  Revised(i, req[r])
<1> DEFINE q == req[r]
<1>1. rows \in [Records -> RowType] /\ q.stamp \in Nat /\ q.id \in Records /\ "deleted" \in States
  BY DEF TypeOK, ReqType, Delete, IdsInFlight, At, States
<1>2. CASE rows[q.id].state = "live" /\ i = q.id
  <2>1. rows'[i] = [rows[i] EXCEPT !.state = "deleted", !.updatedAt = q.stamp]
    BY <1>1, <1>2, Zenon DEF Delete
  <2>2. rows'[i] \in RowType
    BY <1>1, <2>1, Zenon DEF RowType
  <2>3. /\ rows'[i].parent = rows[i].parent /\ rows'[i].key = rows[i].key
        /\ rows'[i].state = "deleted" /\ rows'[i].updatedAt = q.stamp
    BY <1>1, <2>1 DEF RowType
  <2> QED
    BY <1>2, <2>2, <2>3 DEF Revised, Stamped, SameName
<1>3. CASE ~(rows[q.id].state = "live" /\ i = q.id)
  <2>1. rows'[i] = rows[i]
    BY <1>1, <1>3 DEF Delete
  <2> QED
    BY <1>1, <2>1 DEF Revised
<1> QED
  BY <1>2, <1>3

---------------------------------------------------------------------------
(* One row per key, for any interleaving.                                  *)

\* A handler starts: no row and no answer changes.
LEMMA StartKeys ==
    ASSUME KeyInv, NEW r \in Requests, NEW q \in ReqType,
           q.pc \in {"update", "delete"} => q.id \in Records, Start(r, q)
    PROVE  KeyInv'
<1> DEFINE w == [q EXCEPT !.stamp = clock]
<1>1. TypeOK /\ clock \in Nat
  BY DEF KeyInv, TypeOK
<1>2. w \in ReqType
  BY <1>1, Zenon DEF ReqType
<1>3. w.pc = q.pc /\ w.id = q.id
  BY DEF ReqType
<1>4. req' = [req EXCEPT ![r] = w]
  BY DEF Start
<1> HIDE DEF w
<1>5. /\ req' \in [Requests -> ReqType]
      /\ req'[r] = w
      /\ \A x \in Requests \ {r} : req'[x] = req[x]
  BY <1>1, <1>2, <1>4, RequestType
<1>6. TypeOK'
  BY <1>1, <1>5 DEF Start, TypeOK
<1>7. IdsInFlight'
  BY <1>3, <1>5 DEF KeyInv, IdsInFlight
<1> QED
  BY <1>6, <1>7 DEF Start, KeyInv, KeysUnique, KeyedAreTop, AnswersNameRows, Stored

\* A handler ends and its request is over.
LEMMA FinishTypes ==
    ASSUME TypeOK, IdsInFlight, NEW r \in Requests, Finish(r)
    PROVE  req' \in [Requests -> ReqType] /\ IdsInFlight'
<1>1. /\ req' \in [Requests -> ReqType]
      /\ req'[r] = Idle
      /\ \A x \in Requests \ {r} : req'[x] = req[x]
  BY IdleRequest, RequestType DEF Finish
<1>2. Idle.pc = "idle"
  BY DEF Idle
<1> QED
  BY <1>1, <1>2 DEF IdsInFlight

\* An update or a delete neither gives a row a key nor takes a keyed one away:
\* what it removes is a child, and children have no key.
LEMMA RevisedKeys ==
    ASSUME KeyInv, NEW r \in Requests, Finish(r), \A i \in Records : Revised(i, req[r]),
           rows' \in [Records -> RowType], UNCHANGED <<clock, answers, copy, cursor>>
    PROVE  KeyInv'
<1>1. TypeOK /\ KeysUnique /\ KeyedAreTop /\ AnswersNameRows /\ IdsInFlight
  BY DEF KeyInv
<1>2. req' \in [Requests -> ReqType] /\ IdsInFlight'
  BY <1>1, FinishTypes
<1>3. TypeOK'
  BY <1>1, <1>2 DEF TypeOK
<1>4. ASSUME NEW i \in Records, rows'[i].key # None, i \in Stored'
      PROVE  i \in Stored /\ rows[i].key = rows'[i].key /\ rows[i].parent = rows'[i].parent
  BY <1>4 DEF Revised, ChildInserted, Stamped, ChildTouched, SameName, Stored
<1>5. ASSUME NEW i \in Stored, rows[i].key # None
      PROVE  i \in Stored' /\ rows'[i].key = rows[i].key
  <2>1. i \in Records /\ rows[i].parent = None
    BY <1>1, <1>5 DEF KeyedAreTop, Stored
  <2>2. ~ChildTouched(rows[i], rows'[i])
    BY <2>1, NoneAssumption DEF ChildTouched
  <2> QED
    BY <1>5, <2>1, <2>2 DEF Revised, ChildInserted, Stamped, SameName, Stored
<1>6. Stored' \subseteq Records
  BY DEF Stored
<1>7. KeysUnique'
  <2> SUFFICES ASSUME NEW i \in Stored', NEW j \in Stored',
                      rows'[i].key = rows'[j].key, rows'[i].key # None
               PROVE  i = j
    BY DEF KeysUnique
  <2> QED
    BY <1>1, <1>4, <1>6 DEF KeysUnique
<1>8. KeyedAreTop'
  <2> SUFFICES ASSUME NEW i \in Stored', rows'[i].key # None
               PROVE  rows'[i].parent = None
    BY DEF KeyedAreTop
  <2> QED
    BY <1>1, <1>4, <1>6 DEF KeyedAreTop
<1>9. AnswersNameRows'
  <2> SUFFICES ASSUME NEW a \in answers
               PROVE  a[2] \in Stored' /\ rows'[a[2]].key = a[1]
    BY DEF AnswersNameRows
  <2>1. a[1] # None
    BY <1>1, NoneAssumption DEF TypeOK
  <2> QED
    BY <1>1, <1>5, <2>1 DEF AnswersNameRows
<1> QED
  BY <1>2, <1>3, <1>7, <1>8, <1>9 DEF KeyInv

\* A create inserts its key only while no stored row has it: the unique index.
LEMMA CreateKeys ==
    ASSUME KeyInv, NEW r \in Requests, Create(r)
    PROVE  KeyInv'
<1> DEFINE k == req[r].key
<1>1. TypeOK /\ KeysUnique /\ KeyedAreTop /\ AnswersNameRows /\ IdsInFlight
  BY DEF KeyInv
<1>2. PICK p \in Records :
         /\ rows'[p] \in RowType /\ TopInserted(rows[p], rows'[p], req[r])
         /\ \A i \in Records \ {p} : Revised(i, req[r])
         /\ Answer(k, p)
  BY <1>1, CreateRows
<1>3. /\ Finish(r) /\ UNCHANGED <<clock, copy, cursor>>
      /\ \A i \in Stored : rows[i].key = k => k = None
      /\ k \in Keys \union {None}
  BY <1>1 DEF Create, TypeOK, ReqType
<1>4. rows' \in [Records -> RowType]
  <2>1. \E f : rows' = [i \in Records |-> f[i]]
    <3>1. PICK x \in Unused, f \in FreshIds(req[r].items) : rows' = Inserted(x, f, req[r])
      BY DEF Create
    <3>2. rows' = [i \in Records |-> Inserted(x, f, req[r])[i]]
      BY <3>1, Zenon DEF Inserted
    <3> QED
      BY <3>2
  <2> QED
    BY <1>2, <2>1 DEF Revised
<1>5. answers' = answers \/ (k # None /\ answers' = answers \union {<<k, p>>})
  BY <1>2 DEF Answer
<1>6. answers' \subseteq Keys \X Records
  BY <1>1, <1>3, <1>5 DEF TypeOK
<1>7. req' \in [Requests -> ReqType] /\ IdsInFlight'
  BY <1>1, <1>3, FinishTypes
<1>8. TypeOK'
  BY <1>1, <1>3, <1>4, <1>6, <1>7 DEF TypeOK
<1>9. /\ p \in Stored' /\ rows'[p].key = k /\ rows'[p].parent = None /\ p \notin Stored
  BY <1>2 DEF TopInserted, Stored
<1>10. ASSUME NEW i \in Records \ {p}, rows'[i].key # None, i \in Stored'
       PROVE  i \in Stored /\ rows[i].key = rows'[i].key /\ rows[i].parent = rows'[i].parent
  BY <1>2, <1>10 DEF Revised, ChildInserted, Stamped, ChildTouched, SameName, Stored
<1>11. ASSUME NEW i \in Stored, rows[i].key # None
       PROVE  i \in Stored' /\ rows'[i].key = rows[i].key
  <2>1. i \in Records \ {p} /\ rows[i].parent = None
    BY <1>1, <1>9, <1>11 DEF KeyedAreTop, Stored
  <2>2. ~ChildTouched(rows[i], rows'[i])
    BY <2>1, NoneAssumption DEF ChildTouched
  <2> QED
    BY <1>2, <1>11, <2>1, <2>2 DEF Revised, ChildInserted, Stamped, SameName, Stored
<1>12. Stored' \subseteq Records
  BY DEF Stored
<1>13. KeysUnique'
  <2> SUFFICES ASSUME NEW i \in Stored', NEW j \in Stored',
                      rows'[i].key = rows'[j].key, rows'[i].key # None
               PROVE  i = j
    BY DEF KeysUnique
  <2>1. CASE i = p /\ j # p
    BY <1>3, <1>9, <1>10, <1>12, <2>1
  <2>2. CASE i # p /\ j = p
    BY <1>3, <1>9, <1>10, <1>12, <2>2
  <2>3. CASE i # p /\ j # p
    BY <1>1, <1>10, <1>12, <2>3 DEF KeysUnique
  <2> QED
    BY <2>1, <2>2, <2>3
<1>14. KeyedAreTop'
  <2> SUFFICES ASSUME NEW i \in Stored', rows'[i].key # None
               PROVE  rows'[i].parent = None
    BY DEF KeyedAreTop
  <2> QED
    BY <1>1, <1>9, <1>10, <1>12 DEF KeyedAreTop
<1>15. AnswersNameRows'
  <2> SUFFICES ASSUME NEW a \in answers'
               PROVE  a[2] \in Stored' /\ rows'[a[2]].key = a[1]
    BY DEF AnswersNameRows
  <2>1. CASE a \in answers
    <3>1. a[1] # None
      BY <1>1, <2>1, NoneAssumption DEF TypeOK
    <3> QED
      BY <1>1, <1>11, <2>1, <3>1 DEF AnswersNameRows
  <2>2. CASE a = <<k, p>>
    BY <1>9, <2>2
  <2> QED
    BY <1>5, <2>1, <2>2
<1> QED
  BY <1>7, <1>8, <1>13, <1>14, <1>15 DEF KeyInv

LEMMA UpdateKeys ==
    ASSUME KeyInv, NEW r \in Requests, Update(r)
    PROVE  KeyInv'
<1>1. \A i \in Records : Revised(i, req[r])
  BY UpdateRows DEF KeyInv
<1>2. rows' \in [Records -> RowType]
  <2>1. PICK f \in FreshIds(MissingItems(req[r])) :
         rows' = [j \in Records |->
                    IF \E a \in MissingItems(req[r]) : f[a] = j
                    THEN Row(req[r].id, StoredAs(CHOOSE a \in MissingItems(req[r]) : f[a] = j), req[r].odo, None, 0)
                    ELSE AfterUpdate(req[r])[j]]
    BY DEF Update
  <2>2. rows' = [j \in Records |-> rows'[j]]
    BY <2>1, Zenon
  <2> QED
    BY <1>1, <2>2 DEF Revised
<1> QED
  BY <1>1, <1>2, RevisedKeys DEF Update

LEMMA DeleteKeys ==
    ASSUME KeyInv, NEW r \in Requests, Delete(r)
    PROVE  KeyInv'
<1>1. \A i \in Records : Revised(i, req[r])
  BY DeleteRows DEF KeyInv
<1>2. rows' \in [Records -> RowType]
  <2>1. rows \in [Records -> RowType]
    BY DEF KeyInv, TypeOK
  <2>2. rows' = [j \in Records |-> rows'[j]]
    BY <2>1 DEF Delete
  <2> QED
    BY <1>1, <2>2 DEF Revised
<1> QED
  BY <1>1, <1>2, RevisedKeys DEF Delete

\* A repeated create, a refused one and a pull write no row.
LEMMA QuietKeys ==
    ASSUME KeyInv, NEW r \in Requests, (\E k \in Keys : AnswerAgain(r, k)) \/ Refuse(r)
    PROVE  KeyInv'
<1>1. TypeOK /\ KeysUnique /\ KeyedAreTop /\ AnswersNameRows /\ IdsInFlight
  BY DEF KeyInv
<1>2. ASSUME NEW k \in Keys, AnswerAgain(r, k) PROVE KeyInv'
  <2>1. PICK i \in Stored : rows[i].key = k /\ Answer(k, i)
    BY <1>2 DEF AnswerAgain
  <2>2. answers' = answers \/ answers' = answers \union {<<k, i>>}
    BY <2>1 DEF Answer
  <2>3. answers' \subseteq Keys \X Records
    BY <1>1, <2>1, <2>2 DEF TypeOK, Stored
  <2>4. TypeOK'
    BY <1>1, <1>2, <2>3 DEF AnswerAgain, TypeOK
  <2>5. AnswersNameRows'
    BY <1>1, <1>2, <2>1, <2>2 DEF AnswerAgain, AnswersNameRows, Stored
  <2> QED
    BY <1>1, <1>2, <2>4, <2>5 DEF AnswerAgain, KeyInv, KeysUnique, KeyedAreTop, IdsInFlight, Stored
<1>3. CASE Refuse(r)
  <2>1. req' \in [Requests -> ReqType] /\ IdsInFlight'
    BY <1>1, <1>3, FinishTypes DEF Refuse
  <2>2. TypeOK'
    BY <1>1, <1>3, <2>1 DEF Refuse, TypeOK
  <2> QED
    BY <1>1, <1>3, <2>1, <2>2 DEF Refuse, KeyInv, KeysUnique, KeyedAreTop, AnswersNameRows, Stored
<1> QED
  BY <1>2, <1>3

LEMMA PullKeys ==
    ASSUME KeyInv, NEW c \in Clients, Pull(c)
    PROVE  KeyInv'
<1>1. TypeOK
  BY DEF KeyInv
<1>2. \A i \in Records : rows[i].updatedAt \in Nat /\ Visible(i) \in Odos \union {None}
  BY <1>1 DEF TypeOK, RowType, Visible
<1>3. PICK n \in {cursor[c]} \union {rows[i].updatedAt : i \in Listed(c)} :
         cursor' = [cursor EXCEPT ![c] = n]
  BY DEF Pull
<1>4. n \in Nat
  BY <1>1, <1>2 DEF Listed, Stored, TypeOK
<1>5. cursor' \in [Clients -> Nat]
  BY <1>1, <1>3, <1>4 DEF TypeOK
<1>6. copy' \in [Clients -> [Records -> Odos \union {None}]]
  <2> DEFINE h == [i \in Records |-> IF cursor[c] = 0 \/ i \in Listed(c) THEN Visible(i) ELSE copy[c][i]]
  <2>1. h \in [Records -> Odos \union {None}]
    BY <1>1, <1>2 DEF TypeOK
  <2>2. copy' = [copy EXCEPT ![c] = h]
    BY DEF Pull
  <2> HIDE DEF h
  <2> QED
    BY <1>1, <2>1, <2>2 DEF TypeOK
<1>7. TypeOK'
  BY <1>1, <1>5, <1>6 DEF Pull, TypeOK
<1> QED
  BY <1>7 DEF Pull, KeyInv, KeysUnique, KeyedAreTop, AnswersNameRows, IdsInFlight, Stored

LEMMA CreatingKeys ==
    ASSUME KeyInv, NEW r \in Requests, Creating(r)
    PROVE  KeyInv'
<1>1. ASSUME NEW k \in Keys \union {None}, NEW o \in Odos, NEW I \in SUBSET Items,
             BeginCreate(r, k, o, I)
      PROVE  KeyInv'
  <2> DEFINE q == [Idle EXCEPT !.pc = "create", !.key = k, !.odo = o, !.items = I]
  <2>a. "create" \in PCs
    BY DEF PCs
  <2>b. q \in ReqType
    BY <2>a, IdleRequest, Zenon DEF ReqType
  <2>c. q.pc = "create"
    BY IdleRequest DEF ReqType
  <2>1. q \in ReqType /\ q.pc = "create"
    BY <2>b, <2>c
  <2>2. Start(r, q)
    BY <1>1 DEF BeginCreate
  <2> HIDE DEF q
  <2> QED
    BY <2>1, <2>2, StartKeys
<1> QED
  BY <1>1, CreateKeys, QuietKeys DEF Creating

LEMMA ChangingKeys ==
    ASSUME KeyInv, NEW r \in Requests, Changing(r)
    PROVE  KeyInv'
<1>1. ASSUME NEW i \in Records, NEW o \in Odos, NEW b \in BOOLEAN, NEW I \in SUBSET Items,
             BeginUpdate(r, i, o, b, I)
      PROVE  KeyInv'
  <2>a. "update" \in PCs
    BY DEF PCs
  <2> DEFINE q == [Idle EXCEPT !.pc = "update", !.id = i, !.odo = o, !.items = I, !.bundled = b]
  <2>b. q \in ReqType
    BY <2>a, IdleRequest, Zenon DEF ReqType
  <2>c. q.id = i
    BY IdleRequest DEF ReqType
  <2>1. q \in ReqType /\ q.id \in Records
    BY <2>b, <2>c
  <2>2. Start(r, q)
    BY <1>1 DEF BeginUpdate
  <2> HIDE DEF q
  <2> QED
    BY <2>1, <2>2, StartKeys
<1>2. ASSUME NEW i \in Records, BeginDelete(r, i)
      PROVE  KeyInv'
  <2>a. "delete" \in PCs
    BY DEF PCs
  <2> DEFINE q == [Idle EXCEPT !.pc = "delete", !.id = i]
  <2>b. q \in ReqType
    BY <2>a, IdleRequest, Zenon DEF ReqType
  <2>c. q.id = i
    BY IdleRequest DEF ReqType
  <2>1. q \in ReqType /\ q.id \in Records
    BY <2>b, <2>c
  <2>2. Start(r, q)
    BY <1>2 DEF BeginDelete
  <2> HIDE DEF q
  <2> QED
    BY <2>1, <2>2, StartKeys
<1>3. {} \in SUBSET Items
  OBVIOUS
<1> QED
  BY <1>1, <1>2, <1>3, UpdateKeys, DeleteKeys DEF Changing

LEMMA KeyInit == Init => KeyInv
<1> SUFFICES ASSUME Init PROVE KeyInv
  OBVIOUS
<1>1. NoRow \in RowType /\ NoRow.state = "none"
  BY SMT DEF NoRow, RowType, States
<1>2. Idle \in ReqType /\ Idle.pc = "idle"
  BY IdleRequest DEF Idle
<1>3. TypeOK
  BY <1>1, <1>2 DEF Init, TypeOK
<1>4. Stored = {} /\ answers = {} /\ \A r \in Requests : req[r].pc = "idle"
  BY <1>1, <1>2 DEF Init, Stored
<1> QED
  BY <1>3, <1>4 DEF KeyInv, KeysUnique, KeyedAreTop, AnswersNameRows, IdsInFlight

LEMMA KeyNext == KeyInv /\ [Next]_vars => KeyInv'
<1> SUFFICES ASSUME KeyInv, [Next]_vars PROVE KeyInv'
  OBVIOUS
<1>1. CASE UNCHANGED vars
  BY <1>1 DEF vars, KeyInv, TypeOK, KeysUnique, KeyedAreTop, AnswersNameRows, IdsInFlight, Stored
<1> QED
  BY <1>1, CreatingKeys, ChangingKeys, PullKeys DEF Next, Stop

\* Tables, handlers, clients and cursors keep their types.
THEOREM TypeCorrect == Spec => []TypeOK
<1>1. KeyInv => TypeOK
  BY DEF KeyInv
<1> QED
  BY <1>1, KeyInit, KeyNext, PTL DEF Spec

\* However many creates with one clientId overlap, are refused, or are sent again
\* after their answer was lost, and whatever updates and deletes run between
\* them: one row has the clientId, and every answer named it.
THEOREM OneRowForEachKey == Spec => []OneRowPerKey
<1>1. KeyInv => OneRowPerKey
  <2> SUFFICES ASSUME KeyInv PROVE OneRowPerKey
    OBVIOUS
  <2>1. \A a \in answers : a[1] # None /\ a[2] \in Stored /\ rows[a[2]].key = a[1]
    BY NoneAssumption DEF KeyInv, TypeOK, AnswersNameRows
  <2> QED
    BY <2>1 DEF KeyInv, KeysUnique, OneRowPerKey
<1> QED
  BY <1>1, KeyInit, KeyNext, PTL DEF Spec

---------------------------------------------------------------------------
(* Delta sync is exact while requests do not overlap.                       *)

Alone == \A r, s \in Requests : r = s

\* Every stamp taken is older than the clock, and the one that a handler is about
\* to write is newer than every row and every cursor.
Before(t) == (\A i \in Records : rows[i].updatedAt < t) /\ (\A c \in Clients : cursor[c] < t)
Latest ==
    /\ Before(clock)
    /\ \A r \in Requests : req[r].pc # "idle" => Before(req[r].stamp) /\ req[r].stamp < clock
UnusedAreBlank ==
    \A i \in Records : rows[i].state = "none" =>
        rows[i].parent = None /\ rows[i].updatedAt = 0 /\ \A c \in Clients : copy[c][i] = None
RemovedAreChildren == \A i \in Records : rows[i].state = "removed" => rows[i].parent # None
\* What a cursor has passed, its client holds.
UpToDate ==
    \A c \in Clients, i \in Records :
        cursor[c] # 0 /\ rows[i].parent = None /\ rows[i].updatedAt <= cursor[c]
        => copy[c][i] = Visible(i)

ExactInv == KeyInv /\ Latest /\ UnusedAreBlank /\ RemovedAreChildren /\ UpToDate

\* What any commit does to a row.
Committed(i, q) ==
    /\ rows'[i] \in RowType
    /\ Revised(i, q) \/ TopInserted(rows[i], rows'[i], q)
Commits(r) ==
    /\ ~At(r, "idle") /\ Finish(r) /\ UNCHANGED <<clock, copy, cursor>>
    /\ \A i \in Records : Committed(i, req[r])

\* Each step of a request either commits or leaves rows, copies and cursors alone.
LEMMA RequestSteps ==
    ASSUME KeyInv, NEW r \in Requests, Creating(r) \/ Changing(r)
    PROVE  \/ Commits(r)
           \/ \E q \in ReqType : Start(r, q)
           \/ UNCHANGED <<rows, clock, copy, cursor>> /\ (UNCHANGED req \/ Finish(r))
<1>0. TypeOK /\ IdsInFlight
  BY DEF KeyInv
<1>1. ASSUME Create(r) PROVE Commits(r)
  BY <1>0, <1>1, CreateRows DEF Create, Commits, Committed, Revised, At
<1>2. ASSUME Update(r) PROVE Commits(r)
  BY <1>0, <1>2, UpdateRows DEF Update, Commits, Committed, Revised, At
<1>3. ASSUME Delete(r) PROVE Commits(r)
  BY <1>0, <1>3, DeleteRows DEF Delete, Commits, Committed, Revised, At
<1>4. ASSUME NEW k \in Keys \union {None}, NEW o \in Odos, NEW I \in SUBSET Items,
             BeginCreate(r, k, o, I)
      PROVE  \E q \in ReqType : Start(r, q)
  <2>a. "create" \in PCs
    BY DEF PCs
  <2> DEFINE q == [Idle EXCEPT !.pc = "create", !.key = k, !.odo = o, !.items = I]
  <2>b. q \in ReqType
    BY <2>a, IdleRequest, Zenon DEF ReqType
  <2>2. Start(r, q)
    BY <1>4 DEF BeginCreate
  <2> HIDE DEF q
  <2> QED
    BY <2>b, <2>2
<1>5. ASSUME NEW i \in Records, NEW o \in Odos, NEW b \in BOOLEAN, NEW I \in SUBSET Items,
             BeginUpdate(r, i, o, b, I)
      PROVE  \E q \in ReqType : Start(r, q)
  <2>a. "update" \in PCs
    BY DEF PCs
  <2> DEFINE q == [Idle EXCEPT !.pc = "update", !.id = i, !.odo = o, !.items = I, !.bundled = b]
  <2>b. q \in ReqType
    BY <2>a, IdleRequest, Zenon DEF ReqType
  <2>2. Start(r, q)
    BY <1>5 DEF BeginUpdate
  <2> HIDE DEF q
  <2> QED
    BY <2>b, <2>2
<1>6. ASSUME NEW i \in Records, BeginDelete(r, i)
      PROVE  \E q \in ReqType : Start(r, q)
  <2>a. "delete" \in PCs
    BY DEF PCs
  <2> DEFINE q == [Idle EXCEPT !.pc = "delete", !.id = i]
  <2>b. q \in ReqType
    BY <2>a, IdleRequest, Zenon DEF ReqType
  <2>2. Start(r, q)
    BY <1>6 DEF BeginDelete
  <2> HIDE DEF q
  <2> QED
    BY <2>b, <2>2
<1>7. ASSUME (\E k \in Keys : AnswerAgain(r, k)) \/ Refuse(r)
      PROVE  UNCHANGED <<rows, clock, copy, cursor>> /\ (UNCHANGED req \/ Finish(r))
  BY <1>7 DEF AnswerAgain, Refuse
<1>8. {} \in SUBSET Items
  OBVIOUS
<1> QED
  BY <1>1, <1>2, <1>3, <1>4, <1>5, <1>6, <1>7, <1>8 DEF Creating, Changing

\* A commit of the only request stamps what it changes beyond every cursor.
LEMMA CommitExact ==
    ASSUME Alone, ExactInv, KeyInv', NEW r \in Requests, Commits(r)
    PROVE  ExactInv'
<1> DEFINE q == req[r]
<1>0. /\ TypeOK /\ Latest /\ UnusedAreBlank /\ RemovedAreChildren /\ UpToDate
      /\ \A c \in Clients : cursor[c] \in Nat
      /\ \A i \in Records : rows[i] \in RowType
  BY DEF ExactInv, KeyInv, TypeOK
<1>1. Before(q.stamp) /\ q.stamp < clock /\ q.stamp \in Nat /\ clock \in Nat
  BY <1>0 DEF Commits, At, Latest, TypeOK, ReqType
<1>2. \A x \in Requests : req'[x] = Idle
  BY <1>0 DEF Alone, Commits, Finish, TypeOK
<1>3. \A i \in Records : rows'[i].updatedAt \in {0, q.stamp, rows[i].updatedAt} /\ rows[i].updatedAt \in Nat
  BY <1>0 DEF Commits, Committed, Revised, TopInserted, ChildInserted, Stamped, ChildTouched, RowType
<1>4. Latest'
  BY <1>0, <1>1, <1>2, <1>3 DEF Latest, Before, Commits, Idle
<1>5. UnusedAreBlank'
  BY <1>0 DEF Commits, Committed, Revised, TopInserted, ChildInserted, Stamped, ChildTouched, UnusedAreBlank
<1>6. RemovedAreChildren'
  BY <1>0, NoneAssumption
  DEF Commits, Committed, Revised, TopInserted, ChildInserted, Stamped, ChildTouched, SameName, RemovedAreChildren
<1>7. UpToDate'
  <2> SUFFICES ASSUME NEW c \in Clients, NEW i \in Records, cursor[c] # 0,
                      rows'[i].parent = None, rows'[i].updatedAt <= cursor[c]
               PROVE  copy[c][i] = Visible(i)'
    BY DEF UpToDate, Commits
  <2>1. rows'[i].updatedAt # q.stamp
    BY <1>0, <1>1 DEF Before
  <2>2. rows'[i] = rows[i]
    BY <2>1, NoneAssumption
    DEF Commits, Committed, Revised, TopInserted, ChildInserted, Stamped, ChildTouched, SameName
  <2> QED
    BY <1>0, <2>2 DEF UpToDate, Visible
<1> QED
  BY <1>4, <1>5, <1>6, <1>7 DEF ExactInv

\* A handler takes a stamp newer than all that is written.
LEMMA StartExact ==
    ASSUME Alone, ExactInv, KeyInv', NEW r \in Requests, NEW q \in ReqType, Start(r, q)
    PROVE  ExactInv'
<1>1. /\ clock \in Nat /\ req \in [Requests -> ReqType]
      /\ \A c \in Clients : cursor[c] \in Nat
      /\ \A i \in Records : rows[i].updatedAt \in Nat
  BY DEF ExactInv, KeyInv, TypeOK, RowType
<1>2. req'[r].stamp = clock
  BY <1>1 DEF Start, ReqType
<1>3. \A x \in Requests : x = r
  BY DEF Alone
<1>4. Latest'
  BY <1>1, <1>2, <1>3 DEF ExactInv, Latest, Before, Start
<1> QED
  BY <1>4 DEF ExactInv, Start, UnusedAreBlank, RemovedAreChildren, UpToDate, Visible

\* A pull moves the cursor to the newest row listed, and takes every row listed.
LEMMA PullExact ==
    ASSUME ExactInv, KeyInv', NEW c \in Clients, Pull(c)
    PROVE  /\ ExactInv'
           /\ \A i \in Records : rows[i].parent = None => copy'[c][i] = Visible(i)
<1>0. /\ TypeOK /\ Latest /\ UnusedAreBlank /\ RemovedAreChildren /\ UpToDate
      /\ \A d \in Clients : cursor[d] \in Nat
      /\ \A i \in Records : rows[i] \in RowType /\ rows[i].updatedAt \in Nat
  BY DEF ExactInv, KeyInv, TypeOK, RowType
<1>1. PICK n \in {cursor[c]} \union {rows[i].updatedAt : i \in Listed(c)} :
         /\ Newest(n, {cursor[c]} \union {rows[i].updatedAt : i \in Listed(c)})
         /\ cursor' = [cursor EXCEPT ![c] = n]
  BY DEF Pull
<1>2. /\ cursor'[c] = n
      /\ \A d \in Clients \ {c} : cursor'[d] = cursor[d] /\ copy'[d] = copy[d]
      /\ \A i \in Records :
            copy'[c][i] = IF cursor[c] = 0 \/ i \in Listed(c) THEN Visible(i) ELSE copy[c][i]
      /\ UNCHANGED <<rows, clock, req>>
  BY <1>0, <1>1 DEF Pull, TypeOK
<1>3. n \in {cursor[c]} \union {rows[i].updatedAt : i \in Records}
  BY <1>1 DEF Listed, Stored
<1>4. Latest'
  BY <1>0, <1>2, <1>3 DEF Latest, Before
<1>5. UnusedAreBlank' /\ RemovedAreChildren'
  BY <1>0, <1>2 DEF UnusedAreBlank, RemovedAreChildren, Visible
<1>6. ASSUME NEW i \in Records, rows[i].parent = None
      PROVE  copy'[c][i] = Visible(i)
  <2>1. CASE cursor[c] = 0 \/ i \in Listed(c)
    BY <1>2, <2>1
  <2>2. CASE cursor[c] # 0 /\ i \notin Listed(c)
    <3>1. rows[i].updatedAt <= cursor[c]
      BY <1>0, <1>6, <2>2 DEF Listed, Stored, UnusedAreBlank, RemovedAreChildren, RowType, States
    <3> QED
      BY <1>0, <1>2, <1>6, <2>2, <3>1 DEF UpToDate
  <2> QED
    BY <2>1, <2>2
<1>7. UpToDate'
  <2> SUFFICES ASSUME NEW d \in Clients, NEW i \in Records, cursor'[d] # 0,
                      rows[i].parent = None, rows[i].updatedAt <= cursor'[d]
               PROVE  copy'[d][i] = Visible(i)
    BY <1>2 DEF UpToDate, Visible
  <2> QED
    BY <1>0, <1>2, <1>6 DEF UpToDate
<1> QED
  BY <1>4, <1>5, <1>6, <1>7 DEF ExactInv

LEMMA ExactInit == Init => ExactInv
<1> SUFFICES ASSUME Init PROVE ExactInv
  OBVIOUS
<1>1. /\ \A i \in Records : rows[i] = NoRow
      /\ \A r \in Requests : req[r].pc = "idle"
      /\ clock = 1 /\ \A c \in Clients : cursor[c] = 0 /\ \A i \in Records : copy[c][i] = None
  BY DEF Init, Idle
<1>2. NoRow.state = "none" /\ NoRow.parent = None /\ NoRow.updatedAt = 0
  BY DEF NoRow
<1> QED
  BY <1>1, <1>2, KeyInit DEF ExactInv, Latest, Before, UnusedAreBlank, RemovedAreChildren, UpToDate

\* A step that only ends a request, or does nothing.
LEMMA QuietExact ==
    ASSUME ExactInv, KeyInv', UNCHANGED <<rows, clock, copy, cursor>>,
           UNCHANGED req \/ \E r \in Requests : Finish(r)
    PROVE  ExactInv'
<1>1. \A x \in Requests : req'[x] = req[x] \/ req'[x].pc = "idle"
  BY DEF Finish, Idle, ExactInv, KeyInv, TypeOK
<1>2. Latest'
  BY <1>1 DEF ExactInv, Latest, Before
<1> QED
  BY <1>2 DEF ExactInv, UnusedAreBlank, RemovedAreChildren, UpToDate, Visible

LEMMA ExactNext == Alone /\ ExactInv /\ [Next]_vars => ExactInv'
<1> SUFFICES ASSUME Alone, ExactInv, [Next]_vars PROVE ExactInv'
  OBVIOUS
<1>0. KeyInv /\ KeyInv'
  BY KeyNext DEF ExactInv
<1>1. ASSUME NEW r \in Requests, Creating(r) \/ Changing(r) PROVE ExactInv'
  BY <1>0, <1>1, RequestSteps, CommitExact, StartExact, QuietExact
<1>2. ASSUME NEW c \in Clients, Pull(c) PROVE ExactInv'
  BY <1>0, <1>2, PullExact
<1>3. CASE UNCHANGED vars
  BY <1>0, <1>3, QuietExact DEF vars
<1> QED
  BY <1>1, <1>2, <1>3 DEF Next, Stop

\* Every step of the server is a change of what it shows and leaves what clients
\* hold; a pull makes the two equal.
LEMMA ReplicaStep ==
    ASSUME Alone, ExactInv, [Next]_vars
    PROVE  [Replica!Next]_<<Shown, Held>>
<1>0. TypeOK /\ KeyInv
  BY DEF ExactInv, KeyInv
<1>1. ASSUME NEW r \in Requests, Commits(r) PROVE Replica!Next
  <2>1. \A i \in Records : rows'[i] \in RowType
    BY <1>1 DEF Commits, Committed
  <2>2. Shown' \in [Records -> Odos \union {None}]
    BY <2>1 DEF Shown, TopLevel, Visible, RowType
  <2>3. ASSUME NEW i \in Records, NEW c \in Clients
        PROVE  (IF i \in TopLevel' THEN copy[c][i] ELSE None) = (IF i \in TopLevel THEN copy[c][i] ELSE None)
    <3>1. CASE rows'[i].parent = rows[i].parent
      BY <3>1 DEF TopLevel
    <3>2. CASE rows'[i].parent # rows[i].parent
      <4>1. rows[i].state = "none"
        BY <1>1, <3>2
        DEF Commits, Committed, Revised, TopInserted, ChildInserted, Stamped, ChildTouched, SameName
      <4> QED
        BY <4>1 DEF ExactInv, UnusedAreBlank
    <3> QED
      BY <3>1, <3>2
  <2>4. Held' = Held
    BY <1>1, <2>3 DEF Held, Commits
  <2> QED
    BY <2>2, <2>4 DEF Replica!Next, Replica!Change
<1>2. ASSUME UNCHANGED <<rows, copy>> PROVE UNCHANGED <<Shown, Held>>
  BY <1>2 DEF Shown, Held, TopLevel, Visible
<1>3. ASSUME NEW c \in Clients, Pull(c) PROVE Replica!Next
  <2>1. KeyInv'
    BY KeyNext DEF ExactInv
  <2>2. \A i \in Records : rows[i].parent = None => copy'[c][i] = Visible(i)
    BY <1>3, <2>1, PullExact
  <2>3. UNCHANGED rows /\ \A d \in Clients \ {c} : copy'[d] = copy[d]
    BY <1>0, <1>3 DEF Pull, TypeOK
  <2>4. Shown' = Shown
    BY <2>3 DEF Shown, TopLevel, Visible
  <2>5. [i \in Records |-> IF i \in TopLevel THEN copy'[c][i] ELSE None] = Shown
    BY <2>2 DEF Shown, TopLevel
  <2>6. TopLevel' = TopLevel
    BY <2>3 DEF TopLevel
  <2>7. Held' = [Held EXCEPT ![c] = Shown]
    BY <2>3, <2>5, <2>6 DEF Held
  <2> QED
    BY <2>4, <2>7 DEF Replica!Next, Replica!Refresh
<1>4. ASSUME NEW r \in Requests, Creating(r) \/ Changing(r)
      PROVE  [Replica!Next]_<<Shown, Held>>
  BY <1>0, <1>1, <1>2, <1>4, RequestSteps DEF Start
<1> QED
  BY <1>2, <1>3, <1>4 DEF Next, Stop, vars

\* While requests do not overlap, delta sync implements OfflineReplica for the
\* records themselves: a pull leaves the client with exactly what the server shows.
THEOREM SyncImplementsReplica ==
    ASSUME Alone
    PROVE  Spec => PullsAreExact
<1>1. Init => Replica!Init
  <2> SUFFICES ASSUME Init PROVE Replica!Init
    OBVIOUS
  <2>1. \A i \in Records : Visible(i) = None
    BY DEF Init, NoRow, Visible
  <2>2. Shown = [i \in Records |-> None]
    BY <2>1 DEF Shown
  <2>3. Held = [c \in Clients |-> Shown]
    BY <2>2 DEF Held, Init
  <2> QED
    BY <2>2, <2>3 DEF Replica!Init
<1>2. ExactInv /\ [Next]_vars => [Replica!Next]_<<Shown, Held>>
  BY ReplicaStep
<1>3. ExactInv /\ [Next]_vars => ExactInv'
  BY ExactNext
<1> QED
  BY <1>1, <1>2, <1>3, ExactInit, PTL DEF Spec, PullsAreExact, Replica!Spec

---------------------------------------------------------------------------
(* The fuel chain.                                                          *)
FillRow == [odo : Nat, trip : Nat \union {None}, fuel : BOOLEAN, deleted : BOOLEAN]
FillWrite == [id : Nat, odo : Nat, trip : Nat \union {None}]
FillRequest ==
    [pc : {"idle", "merge", "read", "write"}, id : Nat, row : FillRow \union {None},
     plan : SUBSET FillWrite]

ChainTypeOK ==
    /\ fills \in Seq(FillRow)
    /\ chain \in [Writers -> FillRequest]
    /\ overlapped \in BOOLEAN
    /\ \A r \in Writers : chain[r].pc = "merge" => chain[r].row \in FillRow

\* The trips are right, or those that are not are about to be written.
Counts(i) == i \in DOMAIN fills /\ IsFill(fills[i])
Current == \A i \in DOMAIN fills : Counts(i) => fills[i].trip = Gap(i)
OneWriter == \A r, s \in Writers : chain[r].pc # "idle" /\ chain[s].pc # "idle" => r = s
AllIdle == \A r \in Writers : chain[r].pc = "idle"
RightWrite(w) == Counts(w.id) /\ w.trip = Gap(w.id)
Mends(p) ==
    /\ \A w \in p : RightWrite(w)
    /\ \A i \in DOMAIN fills : Counts(i) => (fills[i].trip = Gap(i) \/ \E w \in p : w.id = i)
MergesNow ==
    \A r \in Writers : chain[r].pc = "merge" =>
        chain[r].id \in DOMAIN fills /\ chain[r].row = fills[chain[r].id] /\ Current
WritesMend == \A r \in Writers : chain[r].pc = "write" => Mends(chain[r].plan)

Settled == OneWriter /\ MergesNow /\ WritesMend /\ (AllIdle => Current)
FuelInv == ChainTypeOK /\ (overlapped \/ Settled)

\* A set of naturals has a least member.
LEMMA LeastNat ==
    ASSUME NEW S \in SUBSET Nat, S # {}
    PROVE  \E n \in S : \A m \in S : n <= m
<1> HIDE DEF OpToRel
<1>1. PICK n \in S : \A m \in S : <<m, n>> \notin OpToRel(<, Nat)
  BY NatLessThanWellFounded, WFMin
<1>2. n \in S /\ \A m \in S : ~(m < n)
  BY <1>1 DEF OpToRel
<1> QED
  BY <1>2

\* A set of numbers under a bound has a greatest member.
LEMMA GreatestNat ==
    ASSUME NEW S \in SUBSET Nat, S # {}, NEW b \in Nat, \A n \in S : n <= b
    PROVE  \E n \in S : \A m \in S : m <= n
<1> DEFINE T == {b - n : n \in S}
<1>1. T \in SUBSET Nat /\ T # {}
  <2>1. \A n \in S : b - n \in Nat
    OBVIOUS
  <2> QED
    BY <2>1
<1>2. PICK t \in T : \A u \in T : t <= u
  BY <1>1, LeastNat
<1>3. PICK n \in S : t = b - n
  BY <1>2
<1>4. \A m \in S : t <= b - m
  BY <1>2
<1>5. \A m \in S : m <= n
  BY <1>3, <1>4
<1> QED
  BY <1>5

LEMMA FillTypes ==
    ASSUME fills \in Seq(FillRow)
    PROVE  \A i \in DOMAIN fills :
              i \in Nat /\ fills[i] \in FillRow /\ fills[i].odo \in Nat
<1>1. \A i \in DOMAIN fills : i \in Nat /\ fills[i] \in FillRow
  OBVIOUS
<1> QED
  BY <1>1 DEF FillRow

\* The nearest fill below is one with the highest odometer.
LEMMA NearestIsHighest ==
    ASSUME fills \in Seq(FillRow), NEW i \in DOMAIN fills, Below(i) # {}
    PROVE  /\ Nearest(i) \in Below(i)
           /\ \A l \in Below(i) : fills[l].odo <= fills[Nearest(i)].odo
<1> DEFINE S == {fills[j].odo : j \in Below(i)}
<1>1. S \in SUBSET Nat /\ S # {} /\ fills[i].odo \in Nat /\ \A n \in S : n <= fills[i].odo
  BY FillTypes DEF Below
<1>2. PICK n \in S : \A m \in S : m <= n
  <2> HIDE DEF S
  <2> QED
    BY <1>1, GreatestNat
<1>3. \E j \in Below(i) : \A l \in Below(i) : fills[l].odo <= fills[j].odo
  BY <1>2
<1> QED
  BY <1>3, Zenon DEF Nearest

\* The gap depends on the fills that count and their odometers only.
SameFills ==
    /\ \A i : Counts(i)' <=> Counts(i)
    /\ \A i : Counts(i) => fills'[i].odo = fills[i].odo

LEMMA GapKept ==
    ASSUME fills \in Seq(FillRow), fills' \in Seq(FillRow), SameFills, NEW i, Counts(i)
    PROVE  Gap(i)' = Gap(i)
<1>1. i \in DOMAIN fills /\ i \in DOMAIN fills' /\ fills'[i].odo = fills[i].odo
  BY DEF SameFills, Counts
<1>2. Below(i)' = Below(i)
  BY <1>1 DEF Below, SameFills, Counts
<1>3. Repeats(i)' <=> Repeats(i)
  BY <1>1 DEF Repeats, SameFills, Counts
<1>4. \A j \in Below(i) : fills'[j].odo = fills[j].odo
  BY DEF Below, SameFills, Counts
<1>5. ASSUME Below(i) # {}
      PROVE  fills'[Nearest(i)'].odo = fills[Nearest(i)].odo
  <2>1. /\ Nearest(i) \in Below(i)
        /\ \A l \in Below(i) : fills[l].odo <= fills[Nearest(i)].odo
    BY <1>1, <1>5, NearestIsHighest
  <2>2. \A l \in Below(i) : fills'[l].odo <= fills'[Nearest(i)].odo
    BY <1>4, <2>1
  <2>3. /\ Nearest(i)' \in Below(i)
        /\ \A l \in Below(i) : fills'[l].odo <= fills'[Nearest(i)'].odo
    BY <1>2, <2>1, <2>2, Zenon DEF Nearest
  <2>4. /\ fills[Nearest(i)].odo \in Nat /\ fills[Nearest(i)'].odo \in Nat
        /\ fills'[Nearest(i)'].odo = fills[Nearest(i)'].odo
    BY <1>4, <2>1, <2>3, FillTypes DEF Below
  <2> QED
    BY <1>4, <2>1, <2>3, <2>4
<1>6. Gap(i)' = IF Below(i) = {} \/ Repeats(i) THEN None
                ELSE fills[i].odo - fills[Nearest(i)].odo
  <2>1. Gap(i)' = IF Below(i)' = {} \/ Repeats(i)' THEN None
                  ELSE fills'[i].odo - fills'[Nearest(i)'].odo
    BY Zenon DEF Gap
  <2> QED
    BY <1>1, <1>2, <1>3, <1>5, <2>1, Zenon
<1> QED
  BY <1>6, Zenon DEF Gap

\* What the query returns of a fill.
AsRead(i) == [id |-> i, odo |-> fills[i].odo]

LEMMA QueriedIs ==
    ASSUME fills \in Seq(FillRow)
    PROVE  /\ \A i : Counts(i) => AsRead(i) \in Queried
           /\ \A v \in Queried : Counts(v.id) /\ v = AsRead(v.id) /\ v.odo = fills[v.id].odo
           /\ \A v \in Queried : v.id \in Nat /\ v.odo \in Nat
<1>1. \A i : Counts(i) => AsRead(i) \in Queried
  BY DEF AsRead, Counts, Queried
<1>2. \A v \in Queried : Counts(v.id) /\ v = AsRead(v.id) /\ v.odo = fills[v.id].odo
  BY DEF AsRead, Counts, Queried
<1>3. \A v \in Queried : v.id \in Nat /\ v.odo \in Nat
  BY <1>2, FillTypes DEF Counts
<1> QED
  BY <1>1, <1>2, <1>3

\* Of the fills before one in the query's order one is the last.
LEMMA LastPreceding ==
    ASSUME fills \in Seq(FillRow), NEW v \in Queried, Preceding(v) # {}
    PROVE  \E w \in Preceding(v) : \A u \in Preceding(v) \ {w} : Sooner(u, w)
<1> DEFINE P == Preceding(v)
           odos == {w.odo : w \in P}
<1>1. /\ \A w \in P : w \in Queried /\ w.id \in Nat /\ w.odo \in Nat /\ w.odo <= v.odo
      /\ v.odo \in Nat
  BY QueriedIs DEF Preceding, Sooner
<1>2. PICK odo \in odos : \A n \in odos : n <= odo
  <2>1. odos \in SUBSET Nat /\ odos # {} /\ \A n \in odos : n <= v.odo
    BY <1>1
  <2> HIDE DEF odos
  <2> QED
    BY <1>1, <2>1, GreatestNat
<1> DEFINE ids == {w.id : w \in {u \in P : u.odo = odo}}
<1>3. PICK id \in ids : \A n \in ids : n <= id
  <2>1. ids \in SUBSET Nat /\ ids # {}
    BY <1>1, <1>2
  <2>2. Len(fills) \in Nat /\ \A n \in ids : n <= Len(fills)
    BY QueriedIs DEF Preceding, Counts
  <2> HIDE DEF ids
  <2> QED
    BY <2>1, <2>2, GreatestNat
<1>4. PICK w \in P : w.odo = odo /\ w.id = id
  BY <1>3
<1>5. \A u \in P \ {w} : Sooner(u, w)
  <2> SUFFICES ASSUME NEW u \in P, u # w PROVE Sooner(u, w)
    OBVIOUS
  <2>1. u.odo <= w.odo /\ (u.odo = w.odo => u.id <= w.id)
    BY <1>2, <1>3, <1>4
  <2>2. u.id # w.id
    BY <1>1, QueriedIs
  <2> QED
    BY <1>1, <2>1, <2>2 DEF Sooner
<1> QED
  BY <1>5

\* The recalculation computes the gap.
LEMMA PlannedIsGap ==
    ASSUME fills \in Seq(FillRow), NEW i, Counts(i)
    PROVE  Trip(PreviousOdo(AsRead(i)), fills[i].odo) = Gap(i)
<1> DEFINE v == AsRead(i)
<1>1. v \in Queried /\ v.id = i /\ v.odo = fills[i].odo
  BY QueriedIs DEF AsRead
<1>2. i \in DOMAIN fills /\ i \in Nat /\ fills[i].odo \in Nat
  BY FillTypes DEF Counts
<1>3. \A j \in Below(i) : AsRead(j) \in Preceding(v)
  BY <1>1, <1>2, QueriedIs DEF Below, Preceding, Sooner, Counts, AsRead
<1>4. \A w \in Preceding(v) :
         /\ Counts(w.id) /\ w.odo = fills[w.id].odo /\ w.odo \in Nat /\ w.id \in Nat
         /\ w.odo < fills[i].odo \/ (w.odo = fills[i].odo /\ w.id < i)
  BY <1>1, QueriedIs DEF Preceding, Sooner
<1> HIDE DEF v
<1>5. CASE Preceding(v) = {}
  <2>1. Below(i) = {}
    BY <1>3, <1>5
  <2>2. PreviousOdo(v) = None
    BY <1>5 DEF PreviousOdo
  <2> QED
    BY <2>1, <2>2 DEF Trip, Gap, v
<1>6. CASE Preceding(v) # {}
  <2> DEFINE w == CHOOSE x \in Preceding(v) : \A u \in Preceding(v) \ {x} : Sooner(u, x)
  <2>1. w \in Preceding(v) /\ \A u \in Preceding(v) \ {w} : Sooner(u, w)
    <3>1. \E x \in Preceding(v) : \A u \in Preceding(v) \ {x} : Sooner(u, x)
      BY <1>1, <1>6, LastPreceding
    <3> QED
      BY <3>1, Zenon
  <2>2. PreviousOdo(v) = w.odo
    BY <1>6, Zenon DEF PreviousOdo
  <2> HIDE DEF w
  <2>3. w.odo \in Nat /\ w.odo # None
    BY <1>4, <2>1, ColumnAssumption
  <2>4. \A u \in Preceding(v) : u.odo <= w.odo
    BY <1>4, <2>1 DEF Sooner
  <2>5. CASE Repeats(i)
    <3>1. PICK j \in DOMAIN fills : j < i /\ IsFill(fills[j]) /\ fills[j].odo = fills[i].odo
      BY <2>5 DEF Repeats
    <3>2. AsRead(j) \in Preceding(v)
      BY <1>1, <3>1, QueriedIs DEF Preceding, Sooner, Counts, AsRead
    <3>3. fills[i].odo <= w.odo
      BY <2>4, <3>1, <3>2 DEF AsRead
    <3> QED
      BY <1>2, <2>2, <2>3, <2>5, <3>3 DEF Trip, Gap, v
  <2>6. CASE ~Repeats(i)
    <3>1. \A u \in Preceding(v) : u.id \in Below(i)
      BY <1>2, <1>4, <2>6 DEF Below, Repeats, Counts
    <3>2. w.id \in Below(i) /\ w.odo = fills[w.id].odo
      BY <1>4, <2>1, <3>1
    <3>3. /\ Nearest(i) \in Below(i)
          /\ \A l \in Below(i) : fills[l].odo <= fills[Nearest(i)].odo
      BY <1>2, <3>2, NearestIsHighest
    <3>4. fills[Nearest(i)].odo <= w.odo
      BY <1>3, <2>4, <3>3 DEF AsRead
    <3>5. fills[Nearest(i)].odo = w.odo
      BY <2>3, <3>2, <3>3, <3>4, FillTypes DEF Below
    <3>6. w.odo < fills[i].odo
      BY <3>2 DEF Below
    <3> QED
      BY <1>2, <2>2, <2>3, <2>6, <3>2, <3>5, <3>6 DEF Trip, Gap, v
  <2> QED
    BY <2>5, <2>6
<1> QED
  BY <1>5, <1>6 DEF v

LEMMA GapType ==
    ASSUME fills \in Seq(FillRow), NEW i \in DOMAIN fills
    PROVE  Gap(i) \in Nat \union {None}
<1>1. CASE Below(i) = {} \/ Repeats(i)
  BY <1>1 DEF Gap
<1>2. CASE ~(Below(i) = {} \/ Repeats(i))
  <2>1. Nearest(i) \in Below(i)
    BY <1>2, NearestIsHighest
  <2>2. fills[i].odo - fills[Nearest(i)].odo \in Nat
    BY <2>1, FillTypes DEF Below
  <2> QED
    BY <1>2, <2>2 DEF Gap
<1> QED
  BY <1>1, <1>2

\* One pass writes all that is wrong, and only what is right.
LEMMA PlanMends ==
    ASSUME fills \in Seq(FillRow)
    PROVE  /\ Plan \subseteq FillWrite
           /\ Mends(Plan)
           /\ Plan = {} => Current
<1>1. \A v \in Queried :
         /\ Counts(v.id) /\ Planned(v) \in FillWrite /\ Planned(v).id = v.id
         /\ Planned(v).trip = Gap(v.id)
  <2> SUFFICES ASSUME NEW v \in Queried
               PROVE  /\ Counts(v.id) /\ Planned(v) \in FillWrite /\ Planned(v).id = v.id
                      /\ Planned(v).trip = Gap(v.id)
    OBVIOUS
  <2>1. Counts(v.id) /\ v = AsRead(v.id) /\ v.odo = fills[v.id].odo /\ v.id \in Nat /\ v.odo \in Nat
    BY QueriedIs
  <2>2. Trip(PreviousOdo(v), v.odo) = Gap(v.id)
    BY <2>1, PlannedIsGap
  <2>3. Gap(v.id) \in Nat \union {None}
    BY <2>1, GapType DEF Counts
  <2> QED
    BY <2>1, <2>2, <2>3 DEF Planned, FillWrite
<1>2. \A w \in Plan : w \in FillWrite /\ RightWrite(w)
  <2> SUFFICES ASSUME NEW w \in Plan PROVE w \in FillWrite /\ RightWrite(w)
    OBVIOUS
  <2>1. PICK v \in Queried : w = Planned(v)
    BY DEF Plan
  <2> QED
    BY <1>1, <2>1 DEF RightWrite
<1>3. \A i \in DOMAIN fills : Counts(i) => (fills[i].trip = Gap(i) \/ \E w \in Plan : w.id = i)
  <2> SUFFICES ASSUME NEW i \in DOMAIN fills, Counts(i), fills[i].trip # Gap(i)
               PROVE  \E w \in Plan : w.id = i
    OBVIOUS
  <2>1. AsRead(i) \in Queried /\ AsRead(i).id = i
    BY QueriedIs DEF AsRead
  <2>2. Planned(AsRead(i)).id = i /\ Planned(AsRead(i)).trip = Gap(i)
    BY <1>1, <2>1
  <2>3. Planned(AsRead(i)) \in Plan
    BY <2>1, <2>2, Zenon DEF Plan
  <2> QED
    BY <2>2, <2>3
<1> QED
  BY <1>2, <1>3 DEF Mends, Current

---------------------------------------------------------------------------
LEMMA NoFillTyped == NoFill \in FillRequest
BY DEF NoFill, FillRequest

\* A handler's record changes.
LEMMA FillRequestType ==
    ASSUME ChainTypeOK, NEW r \in Writers, NEW q \in FillRequest, chain' = [chain EXCEPT ![r] = q]
    PROVE  /\ chain' \in [Writers -> FillRequest]
           /\ chain'[r] = q
           /\ \A s \in Writers \ {r} : chain'[s] = chain[s]
BY DEF ChainTypeOK

LEMMA OthersIdle ==
    ASSUME NEW r \in Writers, ~Busy(r)
    PROVE  \A s \in Writers \ {r} : chain[s].pc = "idle"
BY DEF Busy

\* What one handler alone leaves behind.
LEMMA SettledNext ==
    ASSUME NEW r \in Writers, \A s \in Writers \ {r} : chain'[s].pc = "idle",
           chain'[r].pc = "merge" =>
               /\ chain'[r].id \in DOMAIN fills' /\ chain'[r].row = fills'[chain'[r].id]
               /\ Current',
           chain'[r].pc = "write" => Mends(chain[r].plan)',
           chain'[r].pc = "idle" => Current'
    PROVE  Settled'
<1>1. OneWriter'
  BY DEF OneWriter
<1>2. MergesNow'
  BY DEF MergesNow
<1>3. WritesMend'
  <2> SUFFICES ASSUME NEW s \in Writers, chain'[s].pc = "write" PROVE Mends(chain[s].plan)'
    BY DEF WritesMend
  <2> QED
    OBVIOUS
<1>4. (AllIdle => Current)'
  BY DEF AllIdle
<1> QED
  BY <1>1, <1>2, <1>3, <1>4 DEF Settled

LEMMA CurrentKept ==
    ASSUME fills \in Seq(FillRow), fills' \in Seq(FillRow), SameFills, Current,
           \A i : Counts(i) => fills'[i].trip = fills[i].trip
    PROVE  Current'
<1> SUFFICES ASSUME NEW i \in DOMAIN fills', Counts(i)' PROVE fills'[i].trip = Gap(i)'
  BY DEF Current
<1>1. Counts(i)
  BY DEF SameFills
<1>2. Gap(i)' = Gap(i)
  BY <1>1, GapKept
<1> QED
  BY <1>1, <1>2 DEF Current, Counts

LEMMA SameWhenUnchanged ==
    ASSUME UNCHANGED fills
    PROVE  SameFills
BY DEF SameFills, Counts

LEMMA CurrentUnchanged ==
    ASSUME fills \in Seq(FillRow), UNCHANGED fills, Current
    PROVE  Current'
BY SameWhenUnchanged, CurrentKept

LEMMA MendsUnchanged ==
    ASSUME fills \in Seq(FillRow), UNCHANGED fills, NEW p, Mends(p)
    PROVE  Mends(p)'
<1>1. \A i : Counts(i) => Gap(i)' = Gap(i)
  BY SameWhenUnchanged, GapKept
<1>2. \A i : Counts(i)' <=> Counts(i)
  BY DEF Counts
<1>3. \A w \in p : RightWrite(w)'
  BY <1>1, <1>2 DEF Mends, RightWrite
<1>4. \A i \in DOMAIN fills : Counts(i) => (fills'[i].trip = Gap(i)' \/ \E w \in p : w.id = i)
  BY <1>1 DEF Mends
<1> QED
  BY <1>2, <1>3, <1>4 DEF Mends

---------------------------------------------------------------------------
(* Type correctness.                                                        *)
LEMMA TombstoneTyped ==
    ASSUME NEW row \in FillRow
    PROVE  Tombstone(row) \in FillRow
BY DEF Tombstone, FillRow

\* A row is replaced by one of its type.
LEMMA FillReplaced ==
    ASSUME fills \in Seq(FillRow), NEW i, NEW row, i \in DOMAIN fills => row \in FillRow,
           fills' = [fills EXCEPT ![i] = row]
    PROVE  /\ fills' \in Seq(FillRow)
           /\ DOMAIN fills' = DOMAIN fills
           /\ i \in DOMAIN fills => fills'[i] = row
           /\ \A j \in DOMAIN fills : j # i => fills'[j] = fills[j]
<1>1. \A j \in DOMAIN fills : fills[j] \in FillRow
  OBVIOUS
<1>2. DOMAIN fills' = DOMAIN fills /\ DOMAIN fills = 1..Len(fills) /\ Len(fills) \in Nat
  OBVIOUS
<1>3. \A j \in DOMAIN fills : fills'[j] = IF j = i THEN row ELSE fills[j]
  OBVIOUS
<1>4. fills' \in [1..Len(fills) -> FillRow]
  BY <1>1, <1>2, <1>3
<1>5. fills' \in Seq(FillRow)
  BY <1>2, <1>4
<1> QED
  BY <1>2, <1>3, <1>5

LEMMA ReadTyped == [NoFill EXCEPT !.pc = "read"] \in FillRequest
BY DEF NoFill, FillRequest

LEMMA CreateTyped ==
    ASSUME ChainTypeOK, NEW r \in Writers, NEW odo \in FillOdos, NEW trip \in {None, 1},
           CreateFill(r, odo, trip)
    PROVE  ChainTypeOK'
<1>1. [odo |-> odo, trip |-> trip, fuel |-> TRUE, deleted |-> FALSE] \in FillRow
  BY ChainAssumption DEF FillRow
<1>2. fills' \in Seq(FillRow)
  BY <1>1 DEF CreateFill, ChainTypeOK
<1>3. PICK q : q = [NoFill EXCEPT !.pc = "read"]
  OBVIOUS
<1>4. chain' = [chain EXCEPT ![r] = q] /\ q \in FillRequest /\ q.pc = "read"
  BY <1>3, ReadTyped DEF CreateFill, NoFill
<1>5. overlapped' \in BOOLEAN
  BY DEF CreateFill, Meet
<1> QED
  BY <1>2, <1>4, <1>5, FillRequestType DEF ChainTypeOK

LEMMA ReadFillTyped ==
    ASSUME ChainTypeOK, NEW r \in Writers, NEW i \in DOMAIN fills, ReadFill(r, i)
    PROVE  ChainTypeOK'
<1>1. PICK q : q = [NoFill EXCEPT !.pc = "merge", !.id = i, !.row = fills[i]]
  OBVIOUS
<1>2. i \in Nat /\ fills[i] \in FillRow
  BY FillTypes DEF ChainTypeOK
<1>3. q \in FillRequest /\ q.row \in FillRow
  BY <1>1, <1>2 DEF NoFill, FillRequest
<1>4. chain' = [chain EXCEPT ![r] = q]
  BY <1>1 DEF ReadFill
<1>5. overlapped' \in BOOLEAN /\ fills' \in Seq(FillRow)
  BY DEF ReadFill, Meet, ChainTypeOK
<1> QED
  BY <1>3, <1>4, <1>5, FillRequestType DEF ChainTypeOK

\* What an update puts in the place of a row.
Merged(q, i, odo, fuel) ==
    IF fills[i].deleted THEN fills[i] ELSE [q.row EXCEPT !.odo = odo, !.fuel = fuel]

LEMMA WriteFillTyped ==
    ASSUME ChainTypeOK, NEW r \in Writers, NEW odo \in FillOdos, NEW fuel \in BOOLEAN,
           WriteFill(r, odo, fuel)
    PROVE  /\ ChainTypeOK'
           /\ fills' = [fills EXCEPT ![chain[r].id] = Merged(chain[r], chain[r].id, odo, fuel)]
           /\ chain' = [chain EXCEPT ![r] = AfterWrite(chain[r].row, fuel)]
           /\ AfterWrite(chain[r].row, fuel) \in FillRequest
<1> DEFINE q == chain[r]
           row == Merged(q, q.id, odo, fuel)
<1>1. q.row \in FillRow
  BY DEF WriteFill, ChainTypeOK
<1>2. fills' = [fills EXCEPT ![q.id] = row]
  BY DEF WriteFill, Merged
<1>3. q.id \in DOMAIN fills => row \in FillRow
  <2>1. [q.row EXCEPT !.odo = odo, !.fuel = fuel] \in FillRow
    BY <1>1, ChainAssumption DEF FillRow
  <2> QED
    BY <2>1, FillTypes DEF ChainTypeOK, Merged
<1>4. fills' \in Seq(FillRow)
  <2> HIDE DEF row
  <2> QED
    BY <1>2, <1>3, FillReplaced DEF ChainTypeOK
<1>5. PICK p : p = AfterWrite(q.row, fuel)
  OBVIOUS
<1>6. p \in FillRequest /\ p.pc # "merge"
  BY <1>5, ReadTyped, NoFillTyped DEF AfterWrite, NoFill
<1>7. chain' = [chain EXCEPT ![r] = p]
  BY <1>5 DEF WriteFill
<1>8. overlapped' \in BOOLEAN
  BY DEF WriteFill, Meet
<1>9. ChainTypeOK'
  BY <1>4, <1>6, <1>7, <1>8, FillRequestType DEF ChainTypeOK
<1> QED
  BY <1>2, <1>5, <1>6, <1>7, <1>9

LEMMA DeleteTyped ==
    ASSUME ChainTypeOK, NEW r \in Writers, NEW i \in DOMAIN fills, DeleteFill(r, i)
    PROVE  ChainTypeOK'
<1>1. Tombstone(fills[i]) \in FillRow
  BY TombstoneTyped, FillTypes DEF ChainTypeOK
<1>2. fills' \in Seq(FillRow)
  <2>1. fills' = [fills EXCEPT ![i] = Tombstone(fills[i])]
    BY DEF DeleteFill
  <2> QED
    BY <1>1, <2>1, FillReplaced DEF ChainTypeOK
<1>3. PICK q : q = [NoFill EXCEPT !.pc = "read"]
  OBVIOUS
<1>4. chain' = [chain EXCEPT ![r] = q] /\ q \in FillRequest /\ q.pc = "read"
  BY <1>3, ReadTyped DEF DeleteFill, NoFill
<1>5. overlapped' \in BOOLEAN
  BY DEF DeleteFill, Meet
<1> QED
  BY <1>2, <1>4, <1>5, FillRequestType DEF ChainTypeOK

LEMMA ReadChainTyped ==
    ASSUME ChainTypeOK, NEW r \in Writers, ReadChain(r)
    PROVE  /\ ChainTypeOK'
           /\ chain'[r].pc = "write" => (Plan # {} /\ chain'[r].plan = Plan)
           /\ chain'[r].pc = "idle" => Plan = {}
           /\ chain'[r].pc \in {"write", "idle"}
           /\ \A s \in Writers \ {r} : chain'[s] = chain[s]
<1>1. PICK q : q = IF Plan = {} THEN NoFill ELSE [NoFill EXCEPT !.pc = "write", !.plan = Plan]
  OBVIOUS
<1>2. chain' = [chain EXCEPT ![r] = q]
  BY <1>1 DEF ReadChain
<1>3. Plan \in SUBSET FillWrite
  BY PlanMends DEF ChainTypeOK
<1>4. CASE Plan = {}
  <2>1. q \in FillRequest /\ q.pc = "idle"
    BY <1>1, <1>4, NoFillTyped DEF NoFill
  <2> QED
    BY <1>2, <1>4, <2>1, FillRequestType DEF ChainTypeOK, ReadChain
<1>5. CASE Plan # {}
  <2>1. PICK p : p = Plan
    OBVIOUS
  <2>2. q = [NoFill EXCEPT !.pc = "write", !.plan = p]
    BY <1>1, <1>5, <2>1
  <2>3. q \in FillRequest /\ q.pc = "write" /\ q.plan = p
    BY <1>3, <2>1, <2>2 DEF NoFill, FillRequest
  <2>4. /\ chain' \in [Writers -> FillRequest]
        /\ chain'[r] = q
        /\ \A s \in Writers \ {r} : chain'[s] = chain[s]
    BY <1>2, <2>3, FillRequestType
  <2>5. fills' \in Seq(FillRow) /\ overlapped' \in BOOLEAN
    BY DEF ReadChain, ChainTypeOK
  <2> QED
    BY <1>5, <2>1, <2>3, <2>4, <2>5 DEF ChainTypeOK
<1> QED
  BY <1>4, <1>5

\* What a statement of the plan puts in the place of a row.
Mended(i, w) == IF fills[i].deleted THEN fills[i] ELSE [fills[i] EXCEPT !.trip = w.trip]

\* One statement of the plan w, and what is left.
Writing(r, w) ==
    /\ chain[r].pc = "write" /\ w \in chain[r].plan
    /\ fills' = [fills EXCEPT ![w.id] = Mended(w.id, w)]
    /\ chain'[r].pc \in {"idle", "write"}
    /\ chain'[r].pc = "idle" => chain[r].plan = {w}
    /\ chain'[r].pc = "write" => chain'[r].plan = chain[r].plan \ {w}
    /\ \A s \in Writers \ {r} : chain'[s] = chain[s]

LEMMA WriteNextTyped ==
    ASSUME ChainTypeOK, NEW r \in Writers, WriteNext(r)
    PROVE  ChainTypeOK' /\ \E w \in FillWrite : Writing(r, w)
<1>1. PICK w \in chain[r].plan :
         /\ fills' = [fills EXCEPT ![w.id] =
                         IF @.deleted THEN @ ELSE [@ EXCEPT !.trip = w.trip]]
         /\ chain' = [chain EXCEPT ![r] =
                         IF chain[r].plan \ {w} = {} THEN NoFill
                         ELSE [@ EXCEPT !.plan = chain[r].plan \ {w}]]
  BY DEF WriteNext
<1>2. chain[r] \in FillRequest /\ chain[r].plan \subseteq FillWrite /\ chain[r].pc = "write"
  BY DEF ChainTypeOK, WriteNext, FillRequest
<1>3. w \in FillWrite /\ w.trip \in Nat \union {None}
  BY <1>2 DEF FillWrite
<1>4. fills' = [fills EXCEPT ![w.id] = Mended(w.id, w)]
  BY <1>1 DEF Mended
<1>5. w.id \in DOMAIN fills => Mended(w.id, w) \in FillRow
  <2> SUFFICES ASSUME w.id \in DOMAIN fills PROVE Mended(w.id, w) \in FillRow
    OBVIOUS
  <2>1. fills[w.id] \in FillRow
    BY FillTypes DEF ChainTypeOK
  <2> QED
    BY <1>3, <2>1 DEF Mended, FillRow
<1>6. fills' \in Seq(FillRow)
  BY <1>4, <1>5, FillReplaced DEF ChainTypeOK
<1>7. PICK later : later = chain[r].plan \ {w}
  OBVIOUS
<1>8. PICK q : q = IF later = {} THEN NoFill ELSE [chain[r] EXCEPT !.plan = later]
  OBVIOUS
<1>9. chain' = [chain EXCEPT ![r] = q]
  BY <1>1, <1>7, <1>8
<1>10. later \in SUBSET FillWrite
  BY <1>2, <1>7
<1>11. /\ q \in FillRequest
       /\ later = {} => q.pc = "idle"
       /\ later # {} => (q.pc = "write" /\ q.plan = later)
  <2>1. CASE later = {}
    BY <1>8, <2>1, NoFillTyped DEF NoFill
  <2>2. CASE later # {}
    <3>1. q = [chain[r] EXCEPT !.plan = later]
      BY <1>8, <2>2
    <3> QED
      BY <1>2, <1>10, <2>2, <3>1 DEF FillRequest
  <2> QED
    BY <2>1, <2>2
<1>12. /\ chain' \in [Writers -> FillRequest]
       /\ chain'[r] = q
       /\ \A s \in Writers \ {r} : chain'[s] = chain[s]
  BY <1>9, <1>11, FillRequestType
<1>13. overlapped' \in BOOLEAN
  BY DEF WriteNext, Meet
<1>14. \A s \in Writers : chain'[s].pc = "merge" => chain'[s].row \in FillRow
  BY <1>11, <1>12 DEF ChainTypeOK
<1>15. ChainTypeOK'
  BY <1>6, <1>12, <1>13, <1>14 DEF ChainTypeOK
<1>16. Writing(r, w)
  BY <1>2, <1>4, <1>7, <1>11, <1>12 DEF Writing
<1> QED
  BY <1>3, <1>15, <1>16

LEMMA DropTyped ==
    ASSUME ChainTypeOK, NEW r \in Writers, DropFill(r)
    PROVE  ChainTypeOK'
<1>1. NoFill.pc = "idle"
  BY DEF NoFill
<1> QED
  BY <1>1, NoFillTyped, FillRequestType DEF DropFill, EndFill, ChainTypeOK

LEMMA ChainTypeInit == ChainInit => ChainTypeOK
<1> SUFFICES ASSUME ChainInit PROVE ChainTypeOK
  OBVIOUS
<1>1. fills \in Seq(FillRow)
  BY DEF ChainInit
<1>2. NoFill.pc # "merge"
  BY DEF NoFill
<1> QED
  BY <1>1, <1>2, NoFillTyped DEF ChainInit, ChainTypeOK

LEMMA ChainTypeNext == ChainTypeOK /\ [ChainNext]_chainVars => ChainTypeOK'
<1> SUFFICES ASSUME ChainTypeOK, [ChainNext]_chainVars PROVE ChainTypeOK'
  OBVIOUS
<1>1. CASE UNCHANGED chainVars
  BY <1>1 DEF chainVars, ChainTypeOK
<1>2. ASSUME NEW r \in Writers, NEW odo \in FillOdos, NEW trip \in {None, 1},
             CreateFill(r, odo, trip)
      PROVE  ChainTypeOK'
  BY <1>2, CreateTyped
<1>3. ASSUME NEW r \in Writers, NEW odo \in FillOdos, NEW fuel \in BOOLEAN,
             WriteFill(r, odo, fuel)
      PROVE  ChainTypeOK'
  BY <1>3, WriteFillTyped
<1>4. ASSUME NEW r \in Writers, NEW i \in DOMAIN fills, ReadFill(r, i) \/ DeleteFill(r, i)
      PROVE  ChainTypeOK'
  BY <1>4, ReadFillTyped, DeleteTyped
<1>5. ASSUME NEW r \in Writers, ReadChain(r) \/ WriteNext(r) \/ DropFill(r)
      PROVE  ChainTypeOK'
  BY <1>5, ReadChainTyped, WriteNextTyped, DropTyped
<1> QED
  BY <1>1, <1>2, <1>3, <1>4, <1>5 DEF ChainNext

---------------------------------------------------------------------------
(* The chain.                                                               *)

\* A step after which nothing counts as overlapped found the others idle.
LEMMA AloneWas ==
    ASSUME FuelInv, NEW r \in Writers, Meet(r), ~overlapped'
    PROVE  Settled /\ \A s \in Writers \ {r} : chain[s].pc = "idle"
BY OthersIdle DEF FuelInv, Meet

\* From there a handler that goes on to read owes nothing.
LEMMA ThenReads ==
    ASSUME NEW r \in Writers, \A s \in Writers \ {r} : chain[s].pc = "idle",
           chain \in [Writers -> FillRequest],
           chain' = [chain EXCEPT ![r] = [NoFill EXCEPT !.pc = "read"]]
    PROVE  Settled'
<1>1. PICK q : q = [NoFill EXCEPT !.pc = "read"]
  OBVIOUS
<1>2. q.pc = "read"
  BY <1>1 DEF NoFill
<1>3. chain'[r].pc = "read" /\ \A s \in Writers \ {r} : chain'[s].pc = "idle"
  BY <1>1, <1>2
<1> QED
  BY <1>3, SettledNext

LEMMA CreateSettled ==
    ASSUME FuelInv, NEW r \in Writers, NEW odo \in FillOdos, NEW trip \in {None, 1},
           CreateFill(r, odo, trip), ~overlapped'
    PROVE  Settled'
<1>1. \A s \in Writers \ {r} : chain[s].pc = "idle"
  BY AloneWas DEF CreateFill
<1> QED
  BY <1>1, ThenReads DEF CreateFill, FuelInv, ChainTypeOK

LEMMA DeleteSettled ==
    ASSUME FuelInv, NEW r \in Writers, NEW i \in DOMAIN fills, DeleteFill(r, i), ~overlapped'
    PROVE  Settled'
<1>1. \A s \in Writers \ {r} : chain[s].pc = "idle"
  BY AloneWas DEF DeleteFill
<1> QED
  BY <1>1, ThenReads DEF DeleteFill, FuelInv, ChainTypeOK

LEMMA ReadFillSettled ==
    ASSUME FuelInv, NEW r \in Writers, NEW i \in DOMAIN fills, ReadFill(r, i), ~overlapped'
    PROVE  Settled'
<1>1. Settled /\ \A s \in Writers \ {r} : chain[s].pc = "idle"
  BY AloneWas DEF ReadFill
<1>2. Current
  BY <1>1 DEF Settled, AllIdle, ReadFill
<1>3. Current'
  BY <1>2, CurrentUnchanged DEF ReadFill, FuelInv, ChainTypeOK
<1>4. PICK q : q = [NoFill EXCEPT !.pc = "merge", !.id = i, !.row = fills[i]]
  OBVIOUS
<1>5. q.pc = "merge" /\ q.id = i /\ q.row = fills[i]
  BY <1>4 DEF NoFill
<1>6. chain' = [chain EXCEPT ![r] = q] /\ fills' = fills /\ chain \in [Writers -> FillRequest]
  BY <1>4 DEF ReadFill, FuelInv, ChainTypeOK
<1>7. chain'[r] = q /\ \A s \in Writers \ {r} : chain'[s].pc = "idle"
  BY <1>1, <1>6
<1>8. chain'[r].id \in DOMAIN fills' /\ chain'[r].row = fills'[chain'[r].id]
  BY <1>5, <1>6, <1>7
<1> QED
  BY <1>3, <1>5, <1>7, <1>8, SettledNext

\* An update that touches no fill, before or after, owes nothing either.
LEMMA WriteFillSettled ==
    ASSUME FuelInv, NEW r \in Writers, NEW odo \in FillOdos, NEW fuel \in BOOLEAN,
           WriteFill(r, odo, fuel), ~overlapped'
    PROVE  Settled'
<1>0. PICK i : i = chain[r].id
  OBVIOUS
<1>1. Settled /\ \A s \in Writers \ {r} : chain[s].pc = "idle"
  BY AloneWas DEF WriteFill
<1>2. chain[r].pc = "merge"
  BY DEF WriteFill
<1>3. i \in DOMAIN fills /\ chain[r].row = fills[i] /\ Current
  BY <1>0, <1>1, <1>2 DEF Settled, MergesNow
<1>4. /\ fills' = [fills EXCEPT ![i] = Merged(chain[r], i, odo, fuel)]
      /\ chain' = [chain EXCEPT ![r] = AfterWrite(chain[r].row, fuel)]
      /\ ChainTypeOK /\ ChainTypeOK'
  BY <1>0, WriteFillTyped DEF FuelInv
<1>5. CASE fuel \/ fills[i].fuel
  BY <1>1, <1>3, <1>4, <1>5, ThenReads DEF AfterWrite, ChainTypeOK
<1>6. CASE ~fuel /\ ~fills[i].fuel
  <2>1. AfterWrite(chain[r].row, fuel) = NoFill
    BY <1>3, <1>6 DEF AfterWrite
  <2>2. NoFill.pc = "idle"
    BY DEF NoFill
  <2>3. chain'[r].pc = "idle" /\ \A s \in Writers \ {r} : chain'[s].pc = "idle"
    BY <1>1, <1>4, <2>1, <2>2 DEF ChainTypeOK
  <2>4. PICK row : row = Merged(chain[r], i, odo, fuel)
    OBVIOUS
  <2>5. ~row.fuel
    <3>1. fills[i] \in FillRow
      BY <1>3, <1>4, FillTypes DEF ChainTypeOK
    <3> QED
      BY <1>3, <1>6, <2>4, <3>1 DEF Merged, FillRow
  <2>6. /\ DOMAIN fills' = DOMAIN fills /\ fills'[i] = row
        /\ \A j \in DOMAIN fills : j # i => fills'[j] = fills[j]
    BY <1>3, <1>4, <2>4 DEF ChainTypeOK
  <2>7. ~Counts(i) /\ ~Counts(i)'
    <3>1. ~IsFill(fills[i]) /\ ~IsFill(row)
      BY <1>6, <2>5 DEF IsFill
    <3> QED
      BY <2>6, <3>1 DEF Counts
  <2>8. \A j : Counts(j)' <=> Counts(j)
    <3> SUFFICES ASSUME NEW CONSTANT j PROVE Counts(j)' <=> Counts(j)
      OBVIOUS
    <3>1. CASE j = i
      BY <2>6, <2>7, <3>1 DEF Counts
    <3>2. CASE j # i
      BY <2>6, <3>2 DEF Counts
    <3> QED
      BY <3>1, <3>2
  <2>9. \A j : Counts(j) => fills'[j] = fills[j]
    BY <2>6, <2>7 DEF Counts
  <2>10. SameFills
    BY <2>8, <2>9 DEF SameFills
  <2>11. Current'
    BY <1>3, <1>4, <2>9, <2>10, CurrentKept DEF ChainTypeOK
  <2> QED
    BY <2>3, <2>11, SettledNext
<1> QED
  BY <1>5, <1>6

\* A recalculation that nobody met repairs whatever came before.
LEMMA ReadChainSettled ==
    ASSUME FuelInv, NEW r \in Writers, ReadChain(r), ~overlapped'
    PROVE  Settled'
<1>1. \A s \in Writers \ {r} : chain[s].pc = "idle"
  <2>1. CASE ~Busy(r)
    BY <2>1, OthersIdle
  <2>2. CASE ~overlapped
    BY <2>2 DEF FuelInv, Settled, OneWriter, ReadChain
  <2> QED
    BY <2>1, <2>2 DEF ReadChain
<1>2. /\ fills \in Seq(FillRow) /\ UNCHANGED fills
      /\ chain'[r].pc = "write" => chain'[r].plan = Plan
      /\ chain'[r].pc = "idle" => Plan = {}
      /\ chain'[r].pc \in {"write", "idle"}
      /\ \A s \in Writers \ {r} : chain'[s] = chain[s]
  BY ReadChainTyped DEF FuelInv, ChainTypeOK, ReadChain
<1>3. PICK p : p = Plan
  OBVIOUS
<1>4. Mends(p) /\ (p = {} => Current)
  BY <1>2, <1>3, PlanMends
<1>5. Mends(p)' /\ (p = {} => Current')
  BY <1>2, <1>4, MendsUnchanged, CurrentUnchanged
<1>6. chain'[r].pc = "write" => Mends(chain[r].plan)'
  BY <1>2, <1>3, <1>5
<1> QED
  BY <1>1, <1>2, <1>3, <1>5, <1>6, SettledNext

LEMMA WriteNextSettled ==
    ASSUME FuelInv, NEW r \in Writers, WriteNext(r), ~overlapped'
    PROVE  Settled'
<1>1. Settled /\ \A s \in Writers \ {r} : chain[s].pc = "idle"
  BY AloneWas DEF WriteNext
<1>2. ChainTypeOK /\ ChainTypeOK'
  BY WriteNextTyped DEF FuelInv
<1>3. PICK w \in FillWrite : Writing(r, w)
  BY <1>2, WriteNextTyped
<1>4. PICK p : p = chain[r].plan
  OBVIOUS
<1>5. Mends(p) /\ w \in p
  BY <1>1, <1>3, <1>4 DEF Writing, Settled, WritesMend
<1>6. Counts(w.id) /\ w.id \in DOMAIN fills /\ w.trip = Gap(w.id)
  BY <1>5 DEF Mends, RightWrite, Counts
<1>7. PICK row : row = [fills[w.id] EXCEPT !.trip = w.trip]
  OBVIOUS
<1>8. Mended(w.id, w) = row
  BY <1>6, <1>7 DEF Mended, Counts, IsFill
<1>9. /\ row.trip = w.trip /\ row.odo = fills[w.id].odo /\ (IsFill(row) <=> IsFill(fills[w.id]))
  <2>1. fills[w.id] \in FillRow
    BY <1>2, <1>6, FillTypes DEF ChainTypeOK
  <2> QED
    BY <1>7, <2>1 DEF FillRow, IsFill
<1>10. /\ DOMAIN fills' = DOMAIN fills /\ fills'[w.id] = row
       /\ \A j \in DOMAIN fills : j # w.id => fills'[j] = fills[j]
  BY <1>2, <1>3, <1>6, <1>8 DEF Writing, ChainTypeOK
<1>11. SameFills
  BY <1>9, <1>10 DEF SameFills, Counts
<1>12. \A i : Counts(i) => Gap(i)' = Gap(i)
  BY <1>2, <1>11, GapKept DEF ChainTypeOK
<1>13. PICK later : later = p \ {w}
  OBVIOUS
<1>14. Mends(later)'
  <2>1. \A v \in later : RightWrite(v)'
    BY <1>5, <1>11, <1>12, <1>13 DEF Mends, RightWrite, SameFills
  <2>2. ASSUME NEW i \in DOMAIN fills', Counts(i)'
        PROVE  fills'[i].trip = Gap(i)' \/ \E v \in later : v.id = i
    <3>1. Counts(i) /\ Gap(i)' = Gap(i)
      BY <2>2, <1>11, <1>12 DEF SameFills
    <3>2. CASE i = w.id
      BY <1>6, <1>9, <1>10, <3>1, <3>2
    <3>3. CASE i # w.id
      BY <1>5, <1>10, <1>13, <3>1, <3>3 DEF Mends, Counts
    <3> QED
      BY <3>2, <3>3
  <2> QED
    BY <2>1, <2>2 DEF Mends
<1>15. chain'[r].pc = "idle" => Current'
  <2>1. chain'[r].pc = "idle" => later = {}
    BY <1>3, <1>4, <1>13 DEF Writing
  <2> QED
    BY <1>14, <2>1 DEF Mends, Current
<1>16. chain'[r].pc = "write" => Mends(chain[r].plan)'
  <2>1. chain'[r].pc = "write" => chain'[r].plan = later
    BY <1>3, <1>4, <1>13 DEF Writing
  <2> QED
    BY <1>14, <2>1
<1> QED
  BY <1>1, <1>3, <1>15, <1>16, SettledNext DEF Writing

LEMMA DropSettled ==
    ASSUME FuelInv, NEW r \in Writers, DropFill(r), ~overlapped'
    PROVE  Settled'
<1>1. chain[r].pc = "merge" /\ Settled
  BY DEF DropFill, FuelInv
<1>2. Current /\ \A s \in Writers \ {r} : chain[s].pc = "idle"
  BY <1>1 DEF Settled, MergesNow, OneWriter
<1>3. Current'
  BY <1>2, CurrentUnchanged DEF DropFill, FuelInv, ChainTypeOK
<1>4. NoFill.pc = "idle"
  BY DEF NoFill
<1>5. chain'[r].pc = "idle" /\ \A s \in Writers \ {r} : chain'[s].pc = "idle"
  BY <1>2, <1>4 DEF DropFill, EndFill, FuelInv, ChainTypeOK
<1> QED
  BY <1>3, <1>5, SettledNext

LEMMA FuelInit == ChainInit => FuelInv
<1> SUFFICES ASSUME ChainInit PROVE FuelInv
  OBVIOUS
<1>1. \A r \in Writers : chain[r].pc = "idle"
  BY DEF ChainInit, NoFill
<1>2. Current
  BY DEF ChainInit, Current
<1>3. Settled
  BY <1>1, <1>2 DEF Settled, OneWriter, MergesNow, WritesMend
<1> QED
  BY <1>3, ChainTypeInit DEF FuelInv

LEMMA FuelNext == FuelInv /\ [ChainNext]_chainVars => FuelInv'
<1> SUFFICES ASSUME FuelInv, [ChainNext]_chainVars, ~overlapped' PROVE Settled'
  BY ChainTypeNext DEF FuelInv
<1>1. CASE UNCHANGED chainVars
  <2>1. Settled /\ fills \in Seq(FillRow) /\ UNCHANGED <<fills, chain>>
    BY <1>1 DEF chainVars, FuelInv, ChainTypeOK
  <2>2. OneWriter' /\ (AllIdle' <=> AllIdle)
    BY <2>1 DEF Settled, OneWriter, AllIdle
  <2>3. Current => Current'
    BY <2>1, CurrentUnchanged
  <2>4. MergesNow'
    BY <2>1, <2>3 DEF Settled, MergesNow
  <2>5. WritesMend'
    <3> SUFFICES ASSUME NEW r \in Writers, chain[r].pc = "write" PROVE Mends(chain[r].plan)'
      BY <2>1 DEF WritesMend
    <3>1. PICK p : p = chain[r].plan
      OBVIOUS
    <3>2. Mends(p)'
      BY <2>1, <3>1, MendsUnchanged DEF Settled, WritesMend
    <3> QED
      BY <2>1, <3>1, <3>2
  <2> QED
    BY <2>1, <2>2, <2>3, <2>4, <2>5 DEF Settled
<1>2. ASSUME NEW r \in Writers, NEW odo \in FillOdos, NEW trip \in {None, 1},
             CreateFill(r, odo, trip)
      PROVE  Settled'
  BY <1>2, CreateSettled
<1>3. ASSUME NEW r \in Writers, NEW odo \in FillOdos, NEW fuel \in BOOLEAN,
             WriteFill(r, odo, fuel)
      PROVE  Settled'
  BY <1>3, WriteFillSettled
<1>4. ASSUME NEW r \in Writers, NEW i \in DOMAIN fills, ReadFill(r, i) \/ DeleteFill(r, i)
      PROVE  Settled'
  BY <1>4, ReadFillSettled, DeleteSettled
<1>5. ASSUME NEW r \in Writers, ReadChain(r) \/ WriteNext(r) \/ DropFill(r)
      PROVE  Settled'
  BY <1>5, ReadChainSettled, WriteNextSettled, DropSettled
<1> QED
  BY <1>1, <1>2, <1>3, <1>4, <1>5 DEF ChainNext

\* The fills and what the handlers of fills carry, plans of recalculate_fuel_chain
\* included, keep their types, for any number of both.
THEOREM ChainTypeCorrect == ChainSpec => []ChainTypeOK
<1> QED
  BY ChainTypeInit, ChainTypeNext, PTL DEF ChainSpec

\* However many fills and handlers there are: with nobody in flight and no overlap left
\* unmended, every trip is the gap to the nearest fill below (recalculate_fuel_chain
\* and the creates, updates and deletes that call it).
THEOREM ChainStaysCurrent == ChainSpec => []ChainIsCurrent
<1>1. FuelInv => ChainIsCurrent
  BY DEF FuelInv, Settled, AllIdle, Current, Counts, ChainIsCurrent
<1> QED
  BY <1>1, FuelInit, FuelNext, PTL DEF ChainSpec

---------------------------------------------------------------------------
(* Sums.                                                                    *)
(* Induction over the subsets of a finite set, for a set G of good ones.    *)
LEMMA SubsetsStrongly ==
    ASSUME NEW D, IsFiniteSet(D), NEW G,
           \A T \in SUBSET D : (\A x \in T : T \ {x} \in G) => T \in G
    PROVE  \A T \in SUBSET D : T \in G
<1> DEFINE bad == {n \in Nat : \E T \in SUBSET D : T \notin G /\ Cardinality(T) = n}
<1>1. \A T \in SUBSET D : IsFiniteSet(T) /\ Cardinality(T) \in Nat
  BY FS_Subset, FS_CardinalityType
<1> SUFFICES ASSUME bad # {} PROVE FALSE
  BY <1>1
<1>2. PICK n \in bad : \A m \in bad : n <= m
  <2>1. bad \in SUBSET Nat
    OBVIOUS
  <2> HIDE DEF bad
  <2> QED
    BY <2>1, LeastNat
<1>3. PICK T \in SUBSET D : T \notin G /\ Cardinality(T) = n
  BY <1>2
<1>4. PICK x \in T : T \ {x} \notin G
  BY <1>3
<1>5. T \ {x} \in SUBSET D /\ Cardinality(T \ {x}) = n - 1 /\ n - 1 \in Nat
  <2>1. T \ {x} \in SUBSET D
    OBVIOUS
  <2>2. Cardinality(T \ {x}) = Cardinality(T) - 1
    BY <1>1, <1>4, FS_RemoveElement, Zenon
  <2> QED
    BY <1>1, <1>3, <2>1, <2>2
<1>6. n - 1 \in bad
  BY <1>4, <1>5
<1> QED
  BY <1>2, <1>5, <1>6

LEMMA SubsetInduction ==
    ASSUME NEW D, IsFiniteSet(D), NEW G, {} \in G,
           \A T \in SUBSET D : \A x \in D \ T : T \in G => T \union {x} \in G
    PROVE  D \in G
<1>1. ASSUME NEW T \in SUBSET D, \A x \in T : T \ {x} \in G
      PROVE  T \in G
  <2>1. CASE T = {}
    BY <2>1
  <2>2. CASE T # {}
    <3>1. PICK x \in T : TRUE
      BY <2>2
    <3>2. T \ {x} \in SUBSET D /\ x \in D \ (T \ {x}) /\ T \ {x} \in G
      BY <1>1, <3>1
    <3>3. (T \ {x}) \union {x} \in G
      BY <3>2
    <3>4. (T \ {x}) \union {x} = T
      BY <3>1
    <3> QED
      BY <3>3, <3>4
  <2> QED
    BY <2>1, <2>2
<1> QED
  BY <1>1, SubsetsStrongly

---------------------------------------------------------------------------
(* Sums.                                                                    *)
Picked(s) == CHOOSE x \in s : TRUE
PartSums(f) ==
    CHOOSE g : g = [s \in SUBSET DOMAIN f |->
                       IF s = {} THEN 0 ELSE f[Picked(s)] + g[s \ {Picked(s)}]]

LEMMA TotalIsPart ==
    ASSUME NEW f
    PROVE  Total(f) = PartSums(f)[DOMAIN f]
BY DEF Total, MapThenSumSet, MapThenFoldSet, PartSums, Picked

Additive(m, f, D) ==
    /\ m \in [SUBSET D -> Int]
    /\ m[{}] = 0
    /\ \A s \in SUBSET D : \A x \in s : m[s] = f[x] + m[s \ {x}]

LEMMA AdditiveExists ==
    ASSUME NEW D, IsFiniteSet(D), NEW f \in [D -> Int]
    PROVE  \E m : Additive(m, f, D)
<1> DEFINE G == {T \in SUBSET D : \E m : Additive(m, f, T)}
<1>1. {} \in G
  <2> DEFINE m == [s \in SUBSET {} |-> 0]
  <2>1. Additive(m, f, {})
    BY DEF Additive
  <2> QED
    BY <2>1
<1>2. ASSUME NEW T \in SUBSET D, NEW x \in D \ T, T \in G
      PROVE  T \union {x} \in G
  <2>1. PICK m : Additive(m, f, T)
    BY <1>2
  <2> DEFINE k == [s \in SUBSET (T \union {x}) |-> IF x \in s THEN f[x] + m[s \ {x}] ELSE m[s]]
  <2>2. \A s \in SUBSET (T \union {x}) : s \ {x} \in SUBSET T /\ (x \notin s => s \in SUBSET T)
    OBVIOUS
  <2>3. k \in [SUBSET (T \union {x}) -> Int]
    BY <2>1, <2>2 DEF Additive
  <2>4. k[{}] = 0
    BY <2>1 DEF Additive
  <2>5. ASSUME NEW s \in SUBSET (T \union {x}), NEW y \in s
        PROVE  k[s] = f[y] + k[s \ {y}]
    <3>1. CASE x \notin s
      BY <2>1, <2>2, <3>1 DEF Additive
    <3>2. CASE y = x
      BY <2>2, <3>2
    <3>3. CASE x \in s /\ y # x
      <4>1. k[s] = f[x] + m[s \ {x}] /\ k[s \ {y}] = f[x] + m[(s \ {y}) \ {x}]
        BY <3>3
      <4>2. m[s \ {x}] = f[y] + m[(s \ {x}) \ {y}]
        BY <2>1, <2>2, <3>3 DEF Additive
      <4>3. (s \ {x}) \ {y} = (s \ {y}) \ {x}
        OBVIOUS
      <4>4. (s \ {x}) \ {y} \in SUBSET T /\ y \in D
        OBVIOUS
      <4>5. f[x] \in Int /\ f[y] \in Int /\ m[(s \ {x}) \ {y}] \in Int
        BY <2>1, <4>4 DEF Additive
      <4>6. k[s] = f[x] + (f[y] + m[(s \ {x}) \ {y}])
        BY <4>1, <4>2
      <4>7. k[s \ {y}] = f[x] + m[(s \ {x}) \ {y}]
        BY <4>1, <4>3
      <4> HIDE DEF k
      <4> QED
        BY <4>5, <4>6, <4>7
    <3> QED
      BY <3>1, <3>2, <3>3
  <2>6. Additive(k, f, T \union {x})
    <3> HIDE DEF k
    <3> QED
      BY <2>3, <2>4, <2>5 DEF Additive
  <2> QED
    BY <2>6
<1>3. D \in G
  <2> HIDE DEF G
  <2> QED
    BY <1>1, <1>2, SubsetInduction
<1> QED
  BY <1>3

LEMMA PartSumsAdditive ==
    ASSUME NEW D, IsFiniteSet(D), NEW f \in [D -> Int]
    PROVE  Additive(PartSums(f), f, D)
<1>1. PICK m : Additive(m, f, D)
  BY AdditiveExists
<1>2. DOMAIN f = D
  OBVIOUS
<1>3. \A s : s # {} => Picked(s) \in s
  BY DEF Picked
<1>4. m = [s \in SUBSET D |-> IF s = {} THEN 0 ELSE f[Picked(s)] + m[s \ {Picked(s)}]]
  <2>1. \A s \in SUBSET D : m[s] = IF s = {} THEN 0 ELSE f[Picked(s)] + m[s \ {Picked(s)}]
    BY <1>1, <1>3 DEF Additive
  <2>2. m = [s \in SUBSET D |-> m[s]]
    BY <1>1 DEF Additive
  <2> QED
    BY <2>1, <2>2
<1> DEFINE g == PartSums(f)
<1>5. g = [s \in SUBSET D |-> IF s = {} THEN 0 ELSE f[Picked(s)] + g[s \ {Picked(s)}]]
  BY <1>2, <1>4, Zenon DEF PartSums
<1> HIDE DEF g
<1>6. \A s \in SUBSET D : g[s] = IF s = {} THEN 0 ELSE f[Picked(s)] + g[s \ {Picked(s)}]
  BY <1>5
<1> DEFINE G == {s \in SUBSET D : g[s] = m[s]}
<1>7. ASSUME NEW T \in SUBSET D, \A x \in T : T \ {x} \in G
      PROVE  T \in G
  <2>1. CASE T = {}
    BY <1>1, <1>6, <2>1 DEF Additive
  <2>2. CASE T # {}
    <3>1. Picked(T) \in T /\ T \ {Picked(T)} \in G
      BY <1>3, <1>7, <2>2
    <3>2. m[T] = f[Picked(T)] + m[T \ {Picked(T)}]
      BY <1>1, <3>1 DEF Additive
    <3> QED
      BY <1>6, <2>2, <3>1, <3>2
  <2> QED
    BY <2>1, <2>2
<1>8. \A s \in SUBSET D : g[s] = m[s]
  <2>1. \A s \in SUBSET D : s \in G
    <3> HIDE DEF G
    <3> QED
      BY <1>7, SubsetsStrongly
  <2> QED
    BY <2>1
<1>9. g = m
  <2>1. g = [s \in SUBSET D |-> g[s]]
    BY <1>5
  <2>2. m = [s \in SUBSET D |-> m[s]]
    BY <1>1 DEF Additive
  <2> QED
    BY <1>8, <2>1, <2>2
<1> QED
  BY <1>1, <1>9 DEF g

\* The sum is that of any set of its terms and the rest.
LEMMA TotalType ==
    ASSUME NEW D, IsFiniteSet(D), NEW f \in [D -> Int]
    PROVE  Total(f) \in Int
<1>1. DOMAIN f = D
  OBVIOUS
<1>2. Additive(PartSums(f), f, D)
  BY PartSumsAdditive
<1>3. PartSums(f)[D] \in Int
  BY <1>2 DEF Additive
<1> QED
  BY <1>1, <1>3, TotalIsPart

LEMMA TotalEmpty ==
    ASSUME NEW f, DOMAIN f = {}
    PROVE  Total(f) = 0
<1>1. f \in [{} -> Int]
  OBVIOUS
<1> QED
  BY <1>1, FS_EmptySet, PartSumsAdditive, TotalIsPart DEF Additive

\* Terms left out.
Part(f, S) == [x \in S |-> f[x]]

LEMMA AdditiveUnique ==
    ASSUME NEW D, IsFiniteSet(D), NEW f \in [D -> Int], NEW m, Additive(m, f, D),
           NEW T \in SUBSET D, NEW h \in [T -> Int], NEW k, Additive(k, h, T),
           \A x \in T : h[x] = f[x]
    PROVE  k[T] = m[T]
<1> DEFINE G == {S \in SUBSET T : k[S] = m[S]}
<1>1. IsFiniteSet(T)
  BY FS_Subset
<1>2. ASSUME NEW S \in SUBSET T, \A x \in S : S \ {x} \in G
      PROVE  S \in G
  <2>1. CASE S = {}
    BY <2>1 DEF Additive
  <2>2. CASE S # {}
    <3>1. PICK x \in S : TRUE
      BY <2>2
    <3>2. k[S \ {x}] = m[S \ {x}]
      BY <1>2
    <3>3. k[S] = h[x] + k[S \ {x}]
      BY DEF Additive
    <3>4. m[S] = f[x] + m[S \ {x}]
      BY DEF Additive
    <3> QED
      BY <3>2, <3>3, <3>4
  <2> QED
    BY <2>1, <2>2
<1>3. T \in G
  <2>1. T \in SUBSET T
    OBVIOUS
  <2> HIDE DEF G
  <2>2. \A S \in SUBSET T : S \in G
    BY <1>1, <1>2, SubsetsStrongly
  <2> QED
    BY <2>1, <2>2
<1> QED
  BY <1>3

LEMMA PartType ==
    ASSUME NEW D, IsFiniteSet(D), NEW f \in [D -> Int], NEW S \in SUBSET D
    PROVE  /\ IsFiniteSet(S) /\ Part(f, S) \in [S -> Int] /\ DOMAIN Part(f, S) = S
           /\ \A x \in S : Part(f, S)[x] = f[x]
           /\ \A T \in SUBSET S : Part(Part(f, S), T) = Part(f, T)
<1>1. IsFiniteSet(S)
  BY FS_Subset
<1>2. Part(f, S) \in [S -> Int] /\ DOMAIN Part(f, S) = S /\ \A x \in S : Part(f, S)[x] = f[x]
  BY DEF Part
<1>3. \A T \in SUBSET S : Part(Part(f, S), T) = Part(f, T)
  BY DEF Part
<1> QED
  BY <1>1, <1>2, <1>3

LEMMA PartTotal ==
    ASSUME NEW D, IsFiniteSet(D), NEW f \in [D -> Int], NEW S \in SUBSET D
    PROVE  Total(Part(f, S)) = PartSums(f)[S]
<1> DEFINE p == Part(f, S)
<1>1. IsFiniteSet(S) /\ p \in [S -> Int] /\ DOMAIN p = S /\ \A x \in S : p[x] = f[x]
  BY PartType
<1> HIDE DEF p
<1>2. Total(p) = PartSums(p)[S]
  BY <1>1, TotalIsPart
<1>3. PartSums(p)[S] = PartSums(f)[S]
  BY <1>1, PartSumsAdditive, AdditiveUnique
<1> QED
  BY <1>2, <1>3 DEF p

\* Any term may be taken out first.
LEMMA TotalStep ==
    ASSUME NEW D, IsFiniteSet(D), NEW f \in [D -> Int], NEW x \in D
    PROVE  Total(f) = f[x] + Total(Part(f, D \ {x}))
<1>1. Total(f) = PartSums(f)[D]
  <2>1. DOMAIN f = D
    OBVIOUS
  <2> QED
    BY <2>1, TotalIsPart
<1>2. PartSums(f)[D] = f[x] + PartSums(f)[D \ {x}]
  <2>1. Additive(PartSums(f), f, D)
    BY PartSumsAdditive
  <2> QED
    BY <2>1 DEF Additive
<1>3. Total(Part(f, D \ {x})) = PartSums(f)[D \ {x}]
  BY PartTotal
<1> QED
  BY <1>1, <1>2, <1>3

\* A sum grows by the term added.
LEMMA PartStep ==
    ASSUME NEW D, IsFiniteSet(D), NEW f \in [D -> Int], NEW T \in SUBSET D, NEW x \in D \ T
    PROVE  Total(Part(f, T \union {x})) = f[x] + Total(Part(f, T))
<1>1. Additive(PartSums(f), f, D)
  BY PartSumsAdditive
<1>2. T \union {x} \in SUBSET D /\ x \in T \union {x} /\ (T \union {x}) \ {x} = T
  OBVIOUS
<1>3. PartSums(f)[T \union {x}] = f[x] + PartSums(f)[T]
  BY <1>1, <1>2 DEF Additive
<1> QED
  BY <1>2, <1>3, PartTotal

LEMMA PartWhole ==
    ASSUME NEW D, NEW f \in [D -> Int]
    PROVE  Part(f, D) = f
BY DEF Part

LEMMA PartNone ==
    ASSUME NEW f
    PROVE  Total(Part(f, {})) = 0
BY TotalEmpty DEF Part

---------------------------------------------------------------------------
\* Sums of sums.
LEMMA TotalPlus ==
    ASSUME NEW D, IsFiniteSet(D), NEW f \in [D -> Int], NEW g \in [D -> Int],
           NEW h \in [D -> Int], \A x \in D : h[x] = f[x] + g[x]
    PROVE  Total(h) = Total(f) + Total(g)
<1> DEFINE G == {T \in SUBSET D : Total(Part(h, T)) = Total(Part(f, T)) + Total(Part(g, T))}
<1>1. {} \in G
  BY PartNone
<1>2. ASSUME NEW T \in SUBSET D, NEW x \in D \ T, T \in G
      PROVE  T \union {x} \in G
  <2>1. /\ Total(Part(h, T \union {x})) = h[x] + Total(Part(h, T))
        /\ Total(Part(f, T \union {x})) = f[x] + Total(Part(f, T))
        /\ Total(Part(g, T \union {x})) = g[x] + Total(Part(g, T))
    BY PartStep
  <2>2. Total(Part(f, T)) \in Int /\ Total(Part(g, T)) \in Int
    BY PartType, TotalType
  <2>3. h[x] = f[x] + g[x] /\ f[x] \in Int /\ g[x] \in Int
    OBVIOUS
  <2>4. Total(Part(h, T)) = Total(Part(f, T)) + Total(Part(g, T))
    BY <1>2
  <2> QED
    BY <2>1, <2>2, <2>3, <2>4
<1>3. D \in G
  <2> HIDE DEF G
  <2> QED
    BY <1>1, <1>2, SubsetInduction
<1> QED
  BY <1>3, PartWhole

LEMMA TotalScaled ==
    ASSUME NEW D, IsFiniteSet(D), NEW f \in [D -> Int], NEW c \in Int,
           NEW h \in [D -> Int], \A x \in D : h[x] = c * f[x]
    PROVE  Total(h) = c * Total(f)
<1> DEFINE G == {T \in SUBSET D : Total(Part(h, T)) = c * Total(Part(f, T))}
<1>1. {} \in G
  BY PartNone
<1>2. ASSUME NEW T \in SUBSET D, NEW x \in D \ T, T \in G
      PROVE  T \union {x} \in G
  <2>1. /\ Total(Part(h, T \union {x})) = h[x] + Total(Part(h, T))
        /\ Total(Part(f, T \union {x})) = f[x] + Total(Part(f, T))
    BY PartStep
  <2>2. Total(Part(f, T)) \in Int
    BY PartType, TotalType
  <2>3. h[x] = c * f[x] /\ f[x] \in Int
    OBVIOUS
  <2>4. Total(Part(h, T)) = c * Total(Part(f, T))
    BY <1>2
  <2>5. \A a, b \in Int : c * a + c * b = c * (a + b)
    OBVIOUS
  <2> QED
    BY <2>1, <2>2, <2>3, <2>4, <2>5
<1>3. D \in G
  <2> HIDE DEF G
  <2> QED
    BY <1>1, <1>2, SubsetInduction
<1> QED
  BY <1>3, PartWhole

LEMMA TotalZero ==
    ASSUME NEW D, IsFiniteSet(D), NEW f \in [D -> Int], \A x \in D : f[x] = 0
    PROVE  Total(f) = 0
<1>1. Total(f) = 0 * Total(f)
  BY TotalScaled
<1> QED
  BY <1>1, TotalType

LEMMA TotalConstant ==
    ASSUME NEW D, IsFiniteSet(D), NEW c \in Int, NEW f \in [D -> Int], \A x \in D : f[x] = c
    PROVE  Total(f) = c * Cardinality(D)
<1> DEFINE G == {T \in SUBSET D : Total(Part(f, T)) = c * Cardinality(T)}
<1>1. {} \in G
  BY PartNone, FS_EmptySet
<1>2. ASSUME NEW T \in SUBSET D, NEW x \in D \ T, T \in G
      PROVE  T \union {x} \in G
  <2>1. Total(Part(f, T \union {x})) = f[x] + Total(Part(f, T))
    BY PartStep
  <2>2. IsFiniteSet(T)
    BY FS_Subset
  <2>3. Cardinality(T \union {x}) = Cardinality(T) + 1 /\ Cardinality(T) \in Nat
    BY <2>2, FS_AddElement, FS_CardinalityType
  <2>4. Total(Part(f, T)) = c * Cardinality(T) /\ f[x] = c
    BY <1>2
  <2>5. \A n \in Nat : c + c * n = c * (n + 1)
    OBVIOUS
  <2> QED
    BY <2>1, <2>3, <2>4, <2>5
<1>3. D \in G
  <2> HIDE DEF G
  <2> QED
    BY <1>1, <1>2, SubsetInduction
<1> QED
  BY <1>3, PartWhole

LEMMA TotalSame ==
    ASSUME NEW D, NEW f \in [D -> Int], NEW g \in [D -> Int], \A x \in D : f[x] = g[x]
    PROVE  Total(f) = Total(g)
<1>1. f = [x \in D |-> f[x]] /\ g = [x \in D |-> g[x]]
  OBVIOUS
<1>2. f = g
  BY <1>1
<1> QED
  BY <1>2

LEMMA TotalDisjoint ==
    ASSUME NEW D, IsFiniteSet(D), NEW f \in [D -> Int], NEW S \in SUBSET D
    PROVE  Total(f) = Total(Part(f, S)) + Total(Part(f, D \ S))
<1> DEFINE g == [x \in D |-> IF x \in S THEN f[x] ELSE 0]
           G == {T \in SUBSET D :
                   Total(Part(f, T)) = Total(Part(f, T \cap S)) + Total(Part(f, T \ S))}
<1>1. {} \in G
  <2>1. {} \cap S = {} /\ {} \ S = {}
    OBVIOUS
  <2> QED
    BY <2>1, PartNone
<1>2. ASSUME NEW T \in SUBSET D, NEW x \in D \ T, T \in G
      PROVE  T \union {x} \in G
  <2>1. Total(Part(f, T \union {x})) = f[x] + Total(Part(f, T))
    BY PartStep
  <2>2. Total(Part(f, T)) = Total(Part(f, T \cap S)) + Total(Part(f, T \ S))
    BY <1>2
  <2>3. /\ f[x] \in Int /\ T \cap S \in SUBSET D /\ T \ S \in SUBSET D
        /\ x \in D \ (T \cap S) /\ x \in D \ (T \ S)
    OBVIOUS
  <2>4. Total(Part(f, T \cap S)) \in Int /\ Total(Part(f, T \ S)) \in Int
    BY <2>3, PartType, TotalType
  <2>5. CASE x \in S
    <3>1. (T \union {x}) \cap S = (T \cap S) \union {x} /\ (T \union {x}) \ S = T \ S
      BY <2>5
    <3>2. Total(Part(f, (T \cap S) \union {x})) = f[x] + Total(Part(f, T \cap S))
      BY <2>3, PartStep
    <3>3. Total(Part(f, T \union {x})) =
             Total(Part(f, (T \union {x}) \cap S)) + Total(Part(f, (T \union {x}) \ S))
      <4>1. /\ Total(Part(f, (T \union {x}) \cap S)) = f[x] + Total(Part(f, T \cap S))
            /\ Total(Part(f, (T \union {x}) \ S)) = Total(Part(f, T \ S))
        BY <3>1, <3>2, Zenon
      <4> QED
        BY <2>1, <2>2, <2>3, <2>4, <4>1
    <3> QED
      BY <3>3
  <2>6. CASE x \notin S
    <3>1. (T \union {x}) \cap S = T \cap S /\ (T \union {x}) \ S = (T \ S) \union {x}
      BY <2>6
    <3>2. Total(Part(f, (T \ S) \union {x})) = f[x] + Total(Part(f, T \ S))
      BY <2>3, PartStep
    <3>3. Total(Part(f, T \union {x})) =
             Total(Part(f, (T \union {x}) \cap S)) + Total(Part(f, (T \union {x}) \ S))
      <4>1. /\ Total(Part(f, (T \union {x}) \cap S)) = Total(Part(f, T \cap S))
            /\ Total(Part(f, (T \union {x}) \ S)) = f[x] + Total(Part(f, T \ S))
        BY <3>1, <3>2, Zenon
      <4> QED
        BY <2>1, <2>2, <2>3, <2>4, <4>1
    <3> QED
      BY <3>3
  <2> QED
    BY <2>5, <2>6
<1>3. D \in G
  <2> HIDE DEF G
  <2> QED
    BY <1>1, <1>2, SubsetInduction
<1>4. D \cap S = S
  OBVIOUS
<1> QED
  BY <1>3, <1>4, PartWhole

\* Terms that are 0 may be left out.
LEMMA TotalSupport ==
    ASSUME NEW D, IsFiniteSet(D), NEW f \in [D -> Int], NEW S \in SUBSET D,
           \A x \in D \ S : f[x] = 0
    PROVE  Total(f) = Total(Part(f, S))
<1>1. Total(f) = Total(Part(f, S)) + Total(Part(f, D \ S))
  BY TotalDisjoint
<1>2. Total(Part(f, D \ S)) = 0
  <2>1. D \ S \in SUBSET D
    OBVIOUS
  <2>2. IsFiniteSet(D \ S) /\ Part(f, D \ S) \in [D \ S -> Int] /\ \A x \in D \ S : Part(f, D \ S)[x] = 0
    BY <2>1, PartType
  <2> QED
    BY <2>2, TotalZero
<1>3. Total(Part(f, S)) \in Int
  BY PartType, TotalType
<1> QED
  BY <1>1, <1>2, <1>3

\* The order of two summations does not matter.
LEMMA TotalSwap ==
    ASSUME NEW A, IsFiniteSet(A), NEW B, IsFiniteSet(B), NEW F \in [A -> [B -> Int]]
    PROVE  Total([a \in A |-> Total(F[a])]) = Total([b \in B |-> Total([a \in A |-> F[a][b]])])
<1> DEFINE rowSums == [a \in A |-> Total(F[a])]
           col(b) == [a \in A |-> F[a][b]]
           Cols(T) == [b \in B |-> Total(Part(col(b), T))]
           G == {T \in SUBSET A : Total(Part(rowSums, T)) = Total(Cols(T))}
<1>1. rowSums \in [A -> Int] /\ \A b \in B : col(b) \in [A -> Int]
  <2>1. \A a \in A : Total(F[a]) \in Int
    BY TotalType
  <2> QED
    BY <2>1
<1>2. \A T \in SUBSET A : Cols(T) \in [B -> Int]
  <2> SUFFICES ASSUME NEW T \in SUBSET A, NEW b \in B PROVE Total(Part(col(b), T)) \in Int
    OBVIOUS
  <2> HIDE DEF col
  <2> QED
    BY <1>1, PartType, TotalType
<1>3. {} \in G
  <2>1. \A b \in B : Cols({})[b] = 0
    BY PartNone
  <2>2. Total(Cols({})) = 0
    <3> HIDE DEF Cols
    <3> QED
      BY <1>2, <2>1, TotalZero
  <2> QED
    BY <2>2, PartNone
<1>4. ASSUME NEW T \in SUBSET A, NEW x \in A \ T, T \in G
      PROVE  T \union {x} \in G
  <2>1. Total(Part(rowSums, T \union {x})) = rowSums[x] + Total(Part(rowSums, T))
    <3> HIDE DEF rowSums
    <3> QED
      BY <1>1, PartStep
  <2>2. \A b \in B : Cols(T \union {x})[b] = F[x][b] + Cols(T)[b]
    <3> SUFFICES ASSUME NEW b \in B PROVE Cols(T \union {x})[b] = F[x][b] + Cols(T)[b]
      OBVIOUS
    <3>1. col(b)[x] = F[x][b]
      OBVIOUS
    <3>2. Total(Part(col(b), T \union {x})) = col(b)[x] + Total(Part(col(b), T))
      <4> HIDE DEF col
      <4> QED
        BY <1>1, PartStep
    <3> QED
      BY <3>1, <3>2
  <2>3. Total(Cols(T \union {x})) = Total(F[x]) + Total(Cols(T))
    <3>1. Cols(T \union {x}) \in [B -> Int] /\ Cols(T) \in [B -> Int] /\ F[x] \in [B -> Int]
      BY <1>2
    <3> HIDE DEF Cols
    <3>2. PICK p, q : p = Cols(T \union {x}) /\ q = Cols(T)
      OBVIOUS
    <3>3. /\ p \in [B -> Int] /\ q \in [B -> Int]
          /\ \A b \in B : p[b] = F[x][b] + q[b]
      BY <2>2, <3>1, <3>2
    <3>4. PICK r \in [B -> Int] : r = F[x]
      BY <3>1
    <3>5. \A b \in B : p[b] = r[b] + q[b]
      BY <3>3, <3>4
    <3>6. Total(p) = Total(r) + Total(q)
      BY <3>3, <3>5, TotalPlus
    <3> QED
      BY <3>2, <3>4, <3>6
  <2> QED
    BY <1>4, <2>1, <2>3
<1>5. A \in G
  <2> HIDE DEF G
  <2> QED
    BY <1>3, <1>4, SubsetInduction
<1>6. Part(rowSums, A) = rowSums
  BY <1>1, PartWhole
<1>7. Cols(A) = [b \in B |-> Total(col(b))]
  <2>1. \A b \in B : Part(col(b), A) = col(b)
    BY <1>1, PartWhole
  <2> QED
    BY <2>1
<1> QED
  BY <1>5, <1>6, <1>7

\* A sum by classes.
LEMMA TotalFibres ==
    ASSUME NEW D, IsFiniteSet(D), NEW f \in [D -> Int], NEW E, IsFiniteSet(E), NEW h \in [D -> E]
    PROVE  Total(f) = Total([e \in E |-> Total(Part(f, {x \in D : h[x] = e}))])
<1> DEFINE F == [e \in E |-> [x \in D |-> IF h[x] = e THEN f[x] ELSE 0]]
<1>1. F \in [E -> [D -> Int]]
  OBVIOUS
<1>2. Total([e \in E |-> Total(F[e])]) = Total([x \in D |-> Total([e \in E |-> F[e][x]])])
  <2> HIDE DEF F
  <2> QED
    BY <1>1, TotalSwap
<1>3. \A e \in E : Total(F[e]) = Total(Part(f, {x \in D : h[x] = e}))
  <2> SUFFICES ASSUME NEW e \in E PROVE Total(F[e]) = Total(Part(f, {x \in D : h[x] = e}))
    OBVIOUS
  <2> DEFINE S == {x \in D : h[x] = e}
  <2>1. F[e] \in [D -> Int] /\ S \in SUBSET D /\ \A x \in D \ S : F[e][x] = 0
    OBVIOUS
  <2>2. Total(F[e]) = Total(Part(F[e], S))
    <3> HIDE DEF F, S
    <3> QED
      BY <2>1, TotalSupport
  <2>3. Part(F[e], S) = Part(f, S)
    BY DEF Part
  <2> QED
    BY <2>2, <2>3
<1>4. \A x \in D : Total([e \in E |-> F[e][x]]) = f[x]
  <2> SUFFICES ASSUME NEW x \in D PROVE Total([e \in E |-> F[e][x]]) = f[x]
    OBVIOUS
  <2> DEFINE g == [e \in E |-> F[e][x]]
  <2>1. /\ g \in [E -> Int] /\ h[x] \in E /\ g[h[x]] = f[x] /\ f[x] \in Int
        /\ \A e \in E \ {h[x]} : g[e] = 0
    OBVIOUS
  <2> HIDE DEF g
  <2>2. Total(g) = g[h[x]] + Total(Part(g, E \ {h[x]}))
    BY <2>1, TotalStep
  <2>3. Total(Part(g, E \ {h[x]})) = 0
    <3>1. E \ {h[x]} \in SUBSET E
      OBVIOUS
    <3>2. /\ IsFiniteSet(E \ {h[x]}) /\ Part(g, E \ {h[x]}) \in [E \ {h[x]} -> Int]
          /\ \A e \in E \ {h[x]} : Part(g, E \ {h[x]})[e] = 0
      BY <2>1, <3>1, PartType
    <3> QED
      BY <3>2, TotalZero
  <2>4. Total(g) = f[x]
    BY <2>1, <2>2, <2>3
  <2> QED
    BY <2>4 DEF g
<1>5. [x \in D |-> Total([e \in E |-> F[e][x]])] = f
  <2>1. f = [x \in D |-> f[x]]
    OBVIOUS
  <2> HIDE DEF F
  <2> QED
    BY <1>4, <2>1, Zenon
<1>6. [e \in E |-> Total(F[e])] = [e \in E |-> Total(Part(f, {x \in D : h[x] = e}))]
  <2> HIDE DEF F
  <2> QED
    BY <1>3, Zenon
<1> QED
  BY <1>2, <1>5, <1>6

LEMMA TotalMonotone ==
    ASSUME NEW D, IsFiniteSet(D), NEW f \in [D -> Int], NEW g \in [D -> Int],
           \A x \in D : f[x] <= g[x]
    PROVE  Total(f) <= Total(g)
<1> DEFINE G == {T \in SUBSET D : Total(Part(f, T)) <= Total(Part(g, T))}
<1>1. {} \in G
  BY PartNone
<1>2. ASSUME NEW T \in SUBSET D, NEW x \in D \ T, T \in G
      PROVE  T \union {x} \in G
  <2>1. /\ Total(Part(f, T \union {x})) = f[x] + Total(Part(f, T))
        /\ Total(Part(g, T \union {x})) = g[x] + Total(Part(g, T))
    BY PartStep
  <2>2. Total(Part(f, T)) \in Int /\ Total(Part(g, T)) \in Int
    BY PartType, TotalType
  <2>3. f[x] <= g[x] /\ f[x] \in Int /\ g[x] \in Int
    OBVIOUS
  <2>4. Total(Part(f, T)) <= Total(Part(g, T))
    BY <1>2
  <2> QED
    BY <2>1, <2>2, <2>3, <2>4
<1>3. D \in G
  <2> HIDE DEF G
  <2> QED
    BY <1>1, <1>2, SubsetInduction
<1> QED
  BY <1>3, PartWhole

LEMMA TotalNat ==
    ASSUME NEW D, IsFiniteSet(D), NEW f \in [D -> Nat]
    PROVE  Total(f) \in Nat
<1> DEFINE g == [x \in D |-> 0]
<1>1. g \in [D -> Int] /\ f \in [D -> Int] /\ \A x \in D : g[x] = 0 /\ g[x] <= f[x]
  OBVIOUS
<1> HIDE DEF g
<1>2. Total(g) = 0 /\ Total(g) <= Total(f) /\ Total(f) \in Int
  BY <1>1, TotalZero, TotalMonotone, TotalType
<1> QED
  BY <1>2

LEMMA PartBelow ==
    ASSUME NEW D, IsFiniteSet(D), NEW f \in [D -> Nat], NEW S \in SUBSET D
    PROVE  Total(Part(f, S)) <= Total(f)
<1>1. f \in [D -> Int]
  OBVIOUS
<1>2. Total(f) = Total(Part(f, S)) + Total(Part(f, D \ S))
  BY <1>1, TotalDisjoint
<1>3. Total(Part(f, S)) \in Nat /\ Total(Part(f, D \ S)) \in Nat
  <2>1. \A T \in SUBSET D : IsFiniteSet(T) /\ Part(f, T) \in [T -> Nat]
    BY FS_Subset DEF Part
  <2>2. D \ S \in SUBSET D
    OBVIOUS
  <2> QED
    BY <2>1, <2>2, TotalNat
<1> QED
  BY <1>2, <1>3

---------------------------------------------------------------------------
\* Rows in order.
Orders(R, S) ==
    /\ \A x \in S : <<x, x>> \notin R
    /\ \A x, y, z \in S : <<x, y>> \in R /\ <<y, z>> \in R => <<x, z>> \in R
    /\ \A x, y \in S : x # y => <<x, y>> \in R \/ <<y, x>> \in R

LEMMA RankedIs ==
    ASSUME NEW S, IsFiniteSet(S), NEW R, Orders(R, S)
    PROVE  /\ Cardinality(S) \in Nat
           /\ Ranked(S, R) \in [1..Cardinality(S) -> S]
           /\ \A x \in S : \E k \in 1..Cardinality(S) : Ranked(S, R)[k] = x
           /\ \A i, j \in 1..Cardinality(S) : i < j => <<Ranked(S, R)[i], Ranked(S, R)[j]>> \in R
<1> DEFINE n == Cardinality(S)
           before(x) == {y \in S : <<y, x>> \in R}
           f == [x \in S |-> Cardinality(before(x)) + 1]
           r == Ranked(S, R)
<1>1. n \in Nat /\ IsFiniteSet(1..n) /\ Cardinality(1..n) = n
  <2>1. n \in Nat
    BY FS_CardinalityType
  <2> HIDE DEF n
  <2>2. IsFiniteSet(1..n) /\ Cardinality(1..n) = IF 1 > n THEN 0 ELSE n - 1 + 1
    BY <2>1, FS_Interval
  <2> QED
    BY <2>1, <2>2
<1>2. \A x \in S : /\ before(x) \in SUBSET (S \ {x})
                   /\ IsFiniteSet(before(x)) /\ Cardinality(before(x)) \in Nat
                   /\ Cardinality(before(x)) < n
  <2> SUFFICES ASSUME NEW x \in S
               PROVE  /\ before(x) \in SUBSET (S \ {x})
                      /\ IsFiniteSet(before(x)) /\ Cardinality(before(x)) \in Nat
                      /\ Cardinality(before(x)) < n
    OBVIOUS
  <2>1. before(x) \in SUBSET (S \ {x})
    BY DEF Orders
  <2>2. IsFiniteSet(S \ {x}) /\ Cardinality(S \ {x}) = n - 1
    BY FS_RemoveElement
  <2> HIDE DEF before, n
  <2>3. IsFiniteSet(before(x)) /\ Cardinality(before(x)) <= n - 1
    BY <2>1, <2>2, FS_Subset
  <2> QED
    BY <1>1, <2>1, <2>3, FS_CardinalityType
<1>3. f \in [S -> 1..n]
  <2> HIDE DEF before, n
  <2> QED
    BY <1>1, <1>2
<1>4. ASSUME NEW x \in S, NEW y \in S, <<x, y>> \in R PROVE f[x] < f[y]
  <2>1. before(x) \union {x} \in SUBSET before(y) /\ x \notin before(x)
    BY <1>4 DEF Orders
  <2> HIDE DEF before, n
  <2>2. Cardinality(before(x) \union {x}) = Cardinality(before(x)) + 1
    BY <1>2, <2>1, FS_AddElement
  <2>3. Cardinality(before(x) \union {x}) <= Cardinality(before(y))
    BY <1>2, <2>1, FS_Subset
  <2> QED
    BY <1>2, <2>2, <2>3
<1>5. \A x, y \in S : f[x] = f[y] => x = y
  <2> SUFFICES ASSUME NEW x \in S, NEW y \in S, x # y PROVE f[x] # f[y]
    OBVIOUS
  <2>1. <<x, y>> \in R \/ <<y, x>> \in R
    BY DEF Orders
  <2>2. f[x] < f[y] \/ f[y] < f[x]
    BY <1>4, <2>1
  <2>3. f[x] \in Int /\ f[y] \in Int
    <3> HIDE DEF f, n
    <3> QED
      BY <1>1, <1>3
  <2> HIDE DEF f
  <2> QED
    BY <2>2, <2>3
<1>6. \A k \in 1..n : \E x \in S : f[x] = k
  <2> HIDE DEF f, n
  <2>1. f \in Injection(S, 1..n)
    BY <1>3, <1>5 DEF Injection, IsInjective
  <2>2. f \in Surjection(S, 1..n)
    BY <1>1, <2>1, FS_Injection DEF n
  <2> QED
    BY <2>2 DEF Surjection
<1>7. \A k \in 1..n : r[k] \in S /\ f[r[k]] = k
  <2> SUFFICES ASSUME NEW k \in 1..n PROVE r[k] \in S /\ f[r[k]] = k
    OBVIOUS
  <2>1. r[k] = CHOOSE x \in S : Cardinality(before(x)) = k - 1
    BY DEF Ranked
  <2>2. \A x \in S : f[x] = k <=> Cardinality(before(x)) = k - 1
    <3> SUFFICES ASSUME NEW x \in S PROVE f[x] = k <=> Cardinality(before(x)) = k - 1
      OBVIOUS
    <3>1. f[x] = Cardinality(before(x)) + 1
      OBVIOUS
    <3> HIDE DEF before, f, n
    <3>2. Cardinality(before(x)) \in Nat /\ k \in Nat
      BY <1>1, <1>2
    <3> QED
      BY <3>1, <3>2
  <2>3. \E x \in S : Cardinality(before(x)) = k - 1
    <3> HIDE DEF before, f
    <3> QED
      BY <1>6, <2>2
  <2> HIDE DEF before, f, r
  <2>4. r[k] \in S /\ Cardinality(before(r[k])) = k - 1
    BY <2>1, <2>3, Zenon
  <2> QED
    BY <2>2, <2>4
<1>8. r \in [1..n -> S]
  <2> DEFINE c(k) == CHOOSE x \in S : Cardinality(before(x)) = k - 1
  <2>1. r = [k \in 1..n |-> c(k)]
    BY DEF Ranked
  <2>2. \A k \in 1..n : c(k) \in S
    <3> HIDE DEF c, n, f
    <3> QED
      BY <1>7, <2>1
  <2> HIDE DEF r, n, c
  <2> QED
    BY <2>1, <2>2
<1>9. \A x \in S : \E k \in 1..n : r[k] = x
  <2> HIDE DEF r, n, f
  <2> QED
    BY <1>3, <1>5, <1>7
<1>10. \A i, j \in 1..n : i < j => <<r[i], r[j]>> \in R
  <2> SUFFICES ASSUME NEW i \in 1..n, NEW j \in 1..n, i < j PROVE <<r[i], r[j]>> \in R
    OBVIOUS
  <2>1. r[i] \in S /\ r[j] \in S /\ f[r[i]] = i /\ f[r[j]] = j
    BY <1>7
  <2>2. i \in Int /\ j \in Int
    BY <1>1
  <2>3. r[i] # r[j] /\ <<r[j], r[i]>> \notin R
    <3> HIDE DEF f, r, n
    <3> QED
      BY <1>4, <2>1, <2>2
  <2> HIDE DEF f, r, n
  <2> QED
    BY <2>1, <2>3 DEF Orders
<1> QED
  BY <1>1, <1>8, <1>9, <1>10

---------------------------------------------------------------------------
(* The pages of figures.                                                    *)
BikeRow == [purchase : Day \union {None}, initial : Nat, reading : Nat,
            sold : Day \union {None}, saleOdo : Nat \union {None}]
RecordRow == [bike : Motorcycles, day : Day, odo : Nat, cost : Nat, parts : Nat]
ExpenseRow == [day : Day, amount : Nat, bikes : SUBSET Motorcycles]

FleetTypeOK ==
    /\ bikes \in [Motorcycles -> BikeRow]
    /\ IsFiniteSet(records) /\ records \subseteq RecordRow
    /\ IsFiniteSet(expenses) /\ expenses \subseteq ExpenseRow

LEMMA FleetTypeInit == FleetInit(Day \union {None}, Nat, Nat) => FleetTypeOK
<1> SUFFICES ASSUME FleetInit(Day \union {None}, Nat, Nat) PROVE FleetTypeOK
  OBVIOUS
<1>1. \A p \in Day \union {None}, i \in Nat, r \in Nat : Bike(p, i, r) \in BikeRow
  BY DEF Bike, BikeRow
<1>2. bikes \in [Motorcycles -> BikeRow]
  <2>1. bikes \in [Motorcycles -> {Bike(p, i, r) : p \in Day \union {None}, i \in Nat, r \in Nat}]
    BY DEF FleetInit
  <2>2. {Bike(p, i, r) : p \in Day \union {None}, i \in Nat, r \in Nat} \subseteq BikeRow
    BY <1>1
  <2> QED
    BY <2>1, <2>2
<1> QED
  BY <1>2, FS_EmptySet DEF FleetInit, FleetTypeOK

LEMMA FleetTypeNext == FleetTypeOK /\ [FleetNext]_fleetVars => FleetTypeOK'
<1> SUFFICES ASSUME FleetTypeOK, [FleetNext]_fleetVars PROVE FleetTypeOK'
  OBVIOUS
<1>1. ASSUME NEW b \in Motorcycles, NEW day \in Day, NEW odo \in Nat, NEW cost \in Nat,
             NEW parts \in Nat, LogRecord(b, day, odo, cost, parts)
      PROVE  FleetTypeOK'
  <2>1. PICK r : r = [bike |-> b, day |-> day, odo |-> odo, cost |-> cost, parts |-> parts]
    OBVIOUS
  <2>2. r \in RecordRow
    BY <2>1 DEF RecordRow
  <2>3. records' = records \union {r} /\ UNCHANGED <<bikes, expenses>>
    BY <1>1, <2>1 DEF LogRecord
  <2> QED
    BY <2>2, <2>3, FS_AddElement DEF FleetTypeOK
<1>2. ASSUME NEW day \in Day, NEW amount \in Nat, NEW linked \in SUBSET Motorcycles,
             LogExpense(day, amount, linked)
      PROVE  FleetTypeOK'
  <2>1. PICK e : e = [day |-> day, amount |-> amount, bikes |-> linked]
    OBVIOUS
  <2>2. e \in ExpenseRow
    BY <2>1 DEF ExpenseRow
  <2>3. expenses' = expenses \union {e} /\ UNCHANGED <<bikes, records>>
    BY <1>2, <2>1 DEF LogExpense
  <2> QED
    BY <2>2, <2>3, FS_AddElement DEF FleetTypeOK
<1>3. ASSUME NEW b \in Motorcycles, NEW day \in Day, NEW odo \in Nat \union {None},
             Sell(b, day, odo)
      PROVE  FleetTypeOK'
  <2>1. bikes' = [bikes EXCEPT ![b] = [bikes[b] EXCEPT !.sold = day, !.saleOdo = odo]]
    BY <1>3 DEF Sell
  <2>2. PICK k : k = [bikes[b] EXCEPT !.sold = day, !.saleOdo = odo]
    OBVIOUS
  <2>3. k \in BikeRow
    BY <2>2 DEF FleetTypeOK, BikeRow
  <2> QED
    BY <1>3, <2>1, <2>2, <2>3 DEF FleetTypeOK, Sell
<1>4. CASE UNCHANGED fleetVars
  BY <1>4 DEF fleetVars, FleetTypeOK
<1> QED
  BY <1>1, <1>2, <1>3, <1>4 DEF FleetNext

---------------------------------------------------------------------------
\* Days and years.
LEMMA DayType == Day \subseteq Nat /\ IsFiniteSet(Day) /\ Today \in Day
<1>1. LastDay \in Nat /\ Today \in 0..LastDay
  BY FleetAssumption
<1> QED
  BY <1>1, FS_Interval DEF Day

LEMMA YearType ==
    /\ \A d \in Nat : Year(d) \in Nat
    /\ CurrentYear \in Nat
<1>1. \A d \in Nat : Year(d) \in Nat
  BY LogbookAssumption DEF Year
<1> QED
  BY <1>1, DayType DEF CurrentYear

LEMMA LeastIs ==
    ASSUME NEW S \in SUBSET Nat, S # {}
    PROVE  Min(S) \in S /\ \A n \in S : Min(S) <= n
<1>1. \E n \in S : \A m \in S : n <= m
  BY LeastNat
<1> QED
  BY <1>1, Zenon DEF Min

LEMMA OwnRecords ==
    ASSUME FleetTypeOK, NEW b \in Motorcycles
    PROVE  /\ Own(b) \subseteq RecordsOf(b) /\ RecordsOf(b) \subseteq records
           /\ IsFiniteSet(Own(b)) /\ IsFiniteSet(RecordsOf(b))
           /\ \A r \in RecordsOf(b) : r \in RecordRow /\ r.bike = b /\ r.day \in Day /\ r.odo \in Nat
<1>1. Own(b) \subseteq RecordsOf(b) /\ RecordsOf(b) \subseteq records
  BY DEF Own, RecordsOf
<1>2. IsFiniteSet(Own(b)) /\ IsFiniteSet(RecordsOf(b))
  BY <1>1, FS_Subset DEF FleetTypeOK
<1>3. \A r \in RecordsOf(b) : r \in RecordRow /\ r.bike = b /\ r.day \in Day /\ r.odo \in Nat
  BY <1>1 DEF RecordsOf, FleetTypeOK, RecordRow
<1> QED
  BY <1>1, <1>2, <1>3

LEMMA OwnedFromType ==
    ASSUME FleetTypeOK, NEW b \in Motorcycles
    PROVE  /\ OwnedFrom(b) \in Day \union {None}
           /\ \A r \in Own(b) : OwnedFrom(b) \in Day /\ OwnedFrom(b) <= r.day
<1>1. CASE bikes[b].purchase # None
  <2>1. OwnedFrom(b) = bikes[b].purchase /\ bikes[b].purchase \in Day
    BY <1>1 DEF OwnedFrom, FleetTypeOK, BikeRow
  <2> QED
    BY <1>1, <2>1, DayType, OwnRecords DEF Own
<1>2. CASE bikes[b].purchase = None /\ Own(b) # {}
  <2> DEFINE S == {r.day : r \in Own(b)}
  <2>1. OwnedFrom(b) = Min(S)
    BY <1>2 DEF OwnedFrom
  <2>2. S \subseteq Day /\ S # {}
    BY <1>2, OwnRecords
  <2>3. Min(S) \in S /\ \A n \in S : Min(S) <= n
    <3> HIDE DEF S
    <3> QED
      BY <2>2, DayType, LeastIs
  <2> QED
    BY <2>1, <2>2, <2>3
<1>3. CASE bikes[b].purchase = None /\ Own(b) = {}
  BY <1>3 DEF OwnedFrom
<1> QED
  BY <1>1, <1>2, <1>3

\* The years shown begin before every entry.
LEMMA FirstYearIs ==
    ASSUME FleetTypeOK
    PROVE  /\ FirstYear \in Nat /\ FirstYear <= CurrentYear
           /\ \A b \in Motorcycles : \A d \in BikeDays(b) : FirstYear <= Year(d)
           /\ \A e \in expenses : FirstYear <= Year(e.day)
<1> DEFINE days == (UNION {BikeDays(b) : b \in Motorcycles})
                   \union {e.day : e \in {x \in expenses : x.bikes = {}}}
           S == {Year(d) : d \in days} \union {CurrentYear}
<1>1. \A e \in expenses : e.day \in Day /\ e.bikes \in SUBSET Motorcycles
  BY DEF FleetTypeOK, ExpenseRow
<1>2. \A b \in Motorcycles : BikeDays(b) \subseteq Day
  <2> SUFFICES ASSUME NEW b \in Motorcycles PROVE BikeDays(b) \subseteq Day
    OBVIOUS
  <2>1. {r.day : r \in Own(b)} \subseteq Day
    BY OwnRecords
  <2>2. {e.day : e \in {x \in expenses : b \in x.bikes}} \subseteq Day
    BY <1>1
  <2>3. (IF OwnedFrom(b) = None THEN {} ELSE {OwnedFrom(b)}) \subseteq Day
    BY OwnedFromType
  <2> QED
    BY <2>1, <2>2, <2>3 DEF BikeDays
<1>3. days \subseteq Day
  <2> DEFINE D1 == UNION {BikeDays(b) : b \in Motorcycles}
             D2 == {e.day : e \in {x \in expenses : x.bikes = {}}}
  <2>1. \A d \in D1 : d \in Day
    BY <1>2
  <2>2. \A d \in D2 : d \in Day
    BY <1>1
  <2>3. days = D1 \union D2
    OBVIOUS
  <2> HIDE DEF D1, D2, days
  <2> QED
    BY <2>1, <2>2, <2>3
<1>4. S \in SUBSET Nat /\ S # {}
  <2> HIDE DEF days
  <2> QED
    BY <1>3, DayType, YearType
<1>5. Min(S) \in S /\ \A n \in S : Min(S) <= n
  <2> HIDE DEF S
  <2> QED
    BY <1>4, LeastIs
<1>6. FirstYear = Min(S)
  BY DEF FirstYear
<1>7. \A b \in Motorcycles : \A d \in BikeDays(b) : FirstYear <= Year(d)
  BY <1>5, <1>6
<1>8. \A e \in expenses : FirstYear <= Year(e.day)
  <2> SUFFICES ASSUME NEW e \in expenses PROVE FirstYear <= Year(e.day)
    OBVIOUS
  <2>1. CASE e.bikes = {}
    <3>1. e \in {x \in expenses : x.bikes = {}}
      BY <2>1
    <3>2. e.day \in {x.day : x \in {z \in expenses : z.bikes = {}}}
      BY <3>1
    <3>3. e.day \in days
      BY <3>2, Zenon
    <3> HIDE DEF days
    <3>4. Year(e.day) \in S
      BY <3>3
    <3> QED
      BY <1>5, <1>6, <3>4
  <2>2. CASE e.bikes # {}
    <3>1. PICK b \in Motorcycles : b \in e.bikes
      BY <1>1, <2>2
    <3>2. e.day \in BikeDays(b)
      BY <3>1 DEF BikeDays
    <3> QED
      BY <1>7, <3>2
  <2> QED
    BY <2>1, <2>2
<1>9. FirstYear \in Nat /\ FirstYear <= CurrentYear
  <2> HIDE DEF S
  <2>1. CurrentYear \in S
    BY DEF S
  <2> QED
    BY <1>4, <1>5, <1>6, <2>1
<1> QED
  BY <1>7, <1>8, <1>9

LEMMA ShownType ==
    ASSUME FleetTypeOK
    PROVE  /\ IsFiniteSet(YearsShown)
           /\ \A y : y \in YearsShown <=> y \in Nat /\ FirstYear <= y /\ y <= CurrentYear
<1>1. FirstYear \in Nat /\ CurrentYear \in Nat
  BY FirstYearIs, YearType
<1> QED
  BY <1>1, FS_Interval DEF YearsShown

LEMMA DaysOfYearIs == \A d, y : d \in DaysOfYear(y) <=> d \in Day /\ Year(d) = y
BY DEF DaysOfYear

\* Entries from the first year on fall into the years shown, or later.
LEMMA ByYears ==
    ASSUME FleetTypeOK, NEW S, IsFiniteSet(S),
           \A x \in S : x.day \in Day /\ FirstYear <= Year(x.day),
           NEW f \in [S -> Int]
    PROVE  Total([y \in YearsShown |-> Total(Part(f, {x \in S : x.day \in DaysOfYear(y)}))])
               = Total(Part(f, ToNow(S)))
<1> DEFINE D == ToNow(S)
           g == Part(f, D)
           h == [x \in D |-> Year(x.day)]
<1>1. D \in SUBSET S
  BY DEF ToNow
<1>2. IsFiniteSet(D) /\ g \in [D -> Int] /\ \A T \in SUBSET D : Part(g, T) = Part(f, T)
  <2> HIDE DEF D
  <2> QED
    BY <1>1, PartType
<1>3. h \in [D -> YearsShown]
  <2> SUFFICES ASSUME NEW x \in D PROVE Year(x.day) \in YearsShown
    OBVIOUS
  <2>1. x \in S /\ Year(x.day) <= CurrentYear
    BY DEF ToNow
  <2> QED
    BY <2>1, ShownType, YearType, DayType
<1>4. \A y \in YearsShown : {x \in D : h[x] = y} = {x \in S : x.day \in DaysOfYear(y)}
  BY ShownType, DaysOfYearIs DEF ToNow
<1>5. Total(g) = Total([y \in YearsShown |-> Total(Part(g, {x \in D : h[x] = y}))])
  <2> HIDE DEF g, D, h
  <2> QED
    BY <1>2, <1>3, ShownType, TotalFibres
<1>6. \A y \in YearsShown : Part(g, {x \in D : h[x] = y}) = Part(f, {x \in S : x.day \in DaysOfYear(y)})
  <2> SUFFICES ASSUME NEW y \in YearsShown
               PROVE  Part(g, {x \in D : h[x] = y}) = Part(f, {x \in S : x.day \in DaysOfYear(y)})
    OBVIOUS
  <2>1. {x \in D : h[x] = y} \in SUBSET D
    OBVIOUS
  <2> HIDE DEF g, D, h
  <2> QED
    BY <1>2, <1>4, <2>1, Zenon
<1>7. [y \in YearsShown |-> Total(Part(g, {x \in D : h[x] = y}))]
         = [y \in YearsShown |-> Total(Part(f, {x \in S : x.day \in DaysOfYear(y)}))]
  <2> HIDE DEF g, D, h
  <2> QED
    BY <1>6, Zenon
<1> QED
  BY <1>5, <1>7

---------------------------------------------------------------------------
\* Costs.
AllOwn == UNION {Own(b) : b \in Motorcycles}
OwnCost == [r \in AllOwn |-> (r.cost + r.parts) * Unit]
Amount == [e \in expenses |-> e.amount * Unit]
On(S, days) == {x \in S : x.day \in days}

LEMMA CostTypes ==
    ASSUME FleetTypeOK
    PROVE  /\ IsFiniteSet(AllOwn) /\ OwnCost \in [AllOwn -> Nat] /\ OwnCost \in [AllOwn -> Int]
           /\ Amount \in [expenses -> Nat] /\ Amount \in [expenses -> Int]
           /\ \A r \in AllOwn : r \in RecordRow /\ r.bike \in Motorcycles /\ r \in Own(r.bike)
           /\ \A e \in expenses : e \in ExpenseRow
<1>1. \A r \in AllOwn : r \in RecordRow /\ r.bike \in Motorcycles /\ r \in Own(r.bike) /\ r \in records
  <2> SUFFICES ASSUME NEW r \in AllOwn
               PROVE  r \in RecordRow /\ r.bike \in Motorcycles /\ r \in Own(r.bike) /\ r \in records
    OBVIOUS
  <2>1. PICK b \in Motorcycles : r \in Own(b)
    BY DEF AllOwn
  <2> QED
    BY <2>1, OwnRecords
<1>2. IsFiniteSet(AllOwn)
  <2>1. AllOwn \in SUBSET records
    BY <1>1
  <2> QED
    BY <2>1, FS_Subset DEF FleetTypeOK
<1>3. Unit \in Nat
  BY FleetAssumption
<1>4. \A r \in RecordRow : (r.cost + r.parts) * Unit \in Nat
  <2> SUFFICES ASSUME NEW r \in RecordRow PROVE (r.cost + r.parts) * Unit \in Nat
    OBVIOUS
  <2>1. r.cost \in Nat /\ r.parts \in Nat
    BY DEF RecordRow
  <2> QED
    BY <1>3, <2>1
<1>5. \A e \in expenses : e \in ExpenseRow /\ e.amount * Unit \in Nat
  <2> SUFFICES ASSUME NEW e \in expenses PROVE e \in ExpenseRow /\ e.amount * Unit \in Nat
    OBVIOUS
  <2>1. e \in ExpenseRow
    BY DEF FleetTypeOK
  <2>2. e.amount \in Nat
    BY <2>1 DEF ExpenseRow
  <2> QED
    BY <1>3, <2>1, <2>2
<1>6. OwnCost \in [AllOwn -> Nat]
  BY <1>1, <1>4 DEF OwnCost
<1>7. Amount \in [expenses -> Nat]
  BY <1>5 DEF Amount
<1> QED
  BY <1>1, <1>2, <1>5, <1>6, <1>7

OwnCosts(b, days) == Total([r \in {o \in Own(b) : o.day \in days} |-> (r.cost + r.parts) * Unit])
Shares(b, days) ==
    Total([e \in {x \in expenses : b \in x.bikes /\ x.day \in days} |-> Share(e)])

\* A record is counted for its bike.
LEMMA RecordsOnce ==
    ASSUME FleetTypeOK, NEW days
    PROVE  /\ \A b \in Motorcycles : OwnCosts(b, days) \in Int
           /\ Total([b \in Motorcycles |-> OwnCosts(b, days)]) = Total(Part(OwnCost, On(AllOwn, days)))
<1> DEFINE D == On(AllOwn, days)
           g == Part(OwnCost, D)
           h == [r \in D |-> r.bike]
           OwnAt(b) == {o \in Own(b) : o.day \in days}
<1>1. D \in SUBSET AllOwn
  BY DEF On
<1>2. IsFiniteSet(D) /\ g \in [D -> Int] /\ \A T \in SUBSET D : Part(g, T) = Part(OwnCost, T)
  <2> HIDE DEF D
  <2> QED
    BY <1>1, CostTypes, PartType
<1>3. h \in [D -> Motorcycles]
  BY CostTypes DEF On
<1>4. \A b \in Motorcycles : {r \in D : h[r] = b} = OwnAt(b)
  BY CostTypes, OwnRecords DEF On, AllOwn
<1>5. \A b \in Motorcycles : OwnAt(b) \in SUBSET D
  BY <1>4
<1>6. \A b \in Motorcycles : Part(g, OwnAt(b)) = [r \in OwnAt(b) |-> (r.cost + r.parts) * Unit]
  <2> SUFFICES ASSUME NEW b \in Motorcycles
               PROVE  Part(g, OwnAt(b)) = [r \in OwnAt(b) |-> (r.cost + r.parts) * Unit]
    OBVIOUS
  <2>1. Part(g, OwnAt(b)) = Part(OwnCost, OwnAt(b))
    <3> HIDE DEF g, D, OwnAt
    <3> QED
      BY <1>2, <1>5
  <2>2. \A r \in OwnAt(b) : OwnCost[r] = (r.cost + r.parts) * Unit
    BY DEF OwnCost, AllOwn
  <2>3. Part(OwnCost, OwnAt(b)) = [r \in OwnAt(b) |-> (r.cost + r.parts) * Unit]
    <3> HIDE DEF OwnAt
    <3> QED
      BY <2>2, Zenon DEF Part
  <2> QED
    BY <2>1, <2>3
<1>7. \A b \in Motorcycles : OwnCosts(b, days) = Total(Part(g, {r \in D : h[r] = b}))
  <2> SUFFICES ASSUME NEW b \in Motorcycles
               PROVE  OwnCosts(b, days) = Total(Part(g, {r \in D : h[r] = b}))
    OBVIOUS
  <2>1. OwnCosts(b, days) = Total(Part(g, OwnAt(b)))
    <3>1. OwnCosts(b, days) = Total([r \in OwnAt(b) |-> (r.cost + r.parts) * Unit])
      BY DEF OwnCosts
    <3> HIDE DEF g, D, OwnAt, h
    <3> QED
      BY <1>6, <3>1, Zenon
  <2> HIDE DEF g, D, OwnAt, h
  <2> QED
    BY <1>4, <2>1, Zenon
<1>8. \A b \in Motorcycles : OwnCosts(b, days) \in Int
  <2> SUFFICES ASSUME NEW b \in Motorcycles PROVE OwnCosts(b, days) \in Int
    OBVIOUS
  <2> DEFINE S == {r \in D : h[r] = b}
  <2>1. S \in SUBSET D
    OBVIOUS
  <2>2. OwnCosts(b, days) = Total(Part(g, S))
    BY <1>7
  <2> HIDE DEF g, D, h, S
  <2> QED
    BY <1>2, <2>1, <2>2, PartType, TotalType
<1>9. [b \in Motorcycles |-> OwnCosts(b, days)]
         = [b \in Motorcycles |-> Total(Part(g, {r \in D : h[r] = b}))]
  <2> HIDE DEF g, D, h
  <2> QED
    BY <1>7, Zenon
<1>10. IsFiniteSet(Motorcycles)
  BY FleetAssumption, LogbookAssumption
<1>11. Total(g) = Total([b \in Motorcycles |-> Total(Part(g, {r \in D : h[r] = b}))])
  <2> HIDE DEF g, D, h
  <2> QED
    BY <1>2, <1>3, <1>10, TotalFibres
<1> QED
  BY <1>8, <1>9, <1>11

\* The shares of an expense add up to it.
LEMMA SharesAddUp ==
    ASSUME NEW e \in ExpenseRow, e.bikes # {}
    PROVE  Share(e) \in Int /\ Share(e) * Cardinality(e.bikes) = e.amount * Unit
<1> DEFINE n == Cardinality(e.bikes)
<1>1. e.bikes \in SUBSET Motorcycles /\ e.amount \in Nat /\ Unit \in Nat /\ IsFiniteSet(Motorcycles)
  BY FleetAssumption, LogbookAssumption DEF ExpenseRow
<1>2. IsFiniteSet(e.bikes) /\ n <= Cardinality(Motorcycles)
  BY <1>1, FS_Subset
<1>3. n \in Nat /\ n # 0 /\ Cardinality(Motorcycles) \in Nat
  BY <1>1, <1>2, FS_CardinalityType, FS_EmptySet
<1>4. Unit % n = 0
  BY <1>2, <1>3, FleetAssumption
<1> HIDE DEF n
<1>5. PICK u \in Nat : Unit = n * u
  <2>1. Unit = n * (Unit \div n) /\ Unit \div n \in Nat
    BY <1>1, <1>3, <1>4
  <2> QED
    BY <2>1
<1>6. PICK k \in Nat : k = e.amount * u
  BY <1>1, <1>5
<1>7. e.amount * Unit = n * k
  BY <1>1, <1>3, <1>5, <1>6
<1>8. (n * k) \div n = k
  BY <1>3, <1>6
<1>9. Share(e) = k
  BY <1>7, <1>8 DEF Share, n
<1> QED
  BY <1>3, <1>6, <1>7, <1>9 DEF n

\* An expense is counted by the bikes that share it, or else by the fleet.
LEMMA ExpensesOnce ==
    ASSUME FleetTypeOK, NEW days
    PROVE  /\ \A b \in Motorcycles : Shares(b, days) \in Int
           /\ Total([b \in Motorcycles |-> Shares(b, days)]) \in Int
           /\ FleetExpenses(days) \in Int
           /\ Total([b \in Motorcycles |-> Shares(b, days)]) + FleetExpenses(days)
                  = Total(Part(Amount, On(expenses, days)))
<1> DEFINE D == On(expenses, days)
           F == [b \in Motorcycles |-> [e \in D |-> IF b \in e.bikes THEN Share(e) ELSE 0]]
           shared == [e \in D |-> Total([b \in Motorcycles |-> F[b][e]])]
           common == [e \in D |-> IF e.bikes = {} THEN e.amount * Unit ELSE 0]
           all == Part(Amount, D)
<1>1. D \in SUBSET expenses
  BY DEF On
<1>2. IsFiniteSet(D) /\ all \in [D -> Int] /\ \A e \in D : all[e] = Amount[e]
  <2> HIDE DEF D
  <2> QED
    BY <1>1, CostTypes, PartType DEF FleetTypeOK
<1>3. \A e \in D : /\ e \in ExpenseRow /\ e.bikes \in SUBSET Motorcycles
                   /\ e.amount * Unit \in Int /\ Amount[e] = e.amount * Unit
  <2> SUFFICES ASSUME NEW e \in D
               PROVE  /\ e \in ExpenseRow /\ e.bikes \in SUBSET Motorcycles
                      /\ e.amount * Unit \in Int /\ Amount[e] = e.amount * Unit
    OBVIOUS
  <2>1. e \in expenses /\ e \in ExpenseRow
    BY <1>1, CostTypes
  <2>2. Amount[e] = e.amount * Unit /\ Amount[e] \in Int
    BY <2>1, CostTypes DEF Amount
  <2>3. e.bikes \in SUBSET Motorcycles
    BY <2>1 DEF ExpenseRow
  <2> QED
    BY <2>1, <2>2, <2>3
<1>4. F \in [Motorcycles -> [D -> Int]]
  <2>1. \A b \in Motorcycles : \A e \in D : (IF b \in e.bikes THEN Share(e) ELSE 0) \in Int
    <3> SUFFICES ASSUME NEW b \in Motorcycles, NEW e \in D, b \in e.bikes PROVE Share(e) \in Int
      OBVIOUS
    <3> QED
      BY <1>3, SharesAddUp
  <2> HIDE DEF D
  <2> QED
    BY <2>1
<1>5. IsFiniteSet(Motorcycles)
  BY FleetAssumption, LogbookAssumption
<1>6. \A b \in Motorcycles : Shares(b, days) = Total(F[b])
  <2> SUFFICES ASSUME NEW b \in Motorcycles PROVE Shares(b, days) = Total(F[b])
    OBVIOUS
  <2> DEFINE S == {x \in expenses : b \in x.bikes /\ x.day \in days}
  <2>1. F[b] \in [D -> Int] /\ S \in SUBSET D
    BY <1>4 DEF On
  <2>2. \A e \in D \ S : F[b][e] = 0
    BY DEF On
  <2>3. Total(F[b]) = Total(Part(F[b], S))
    <3> HIDE DEF F, S, D
    <3> QED
      BY <1>2, <2>1, <2>2, TotalSupport
  <2>4. \A e \in S : F[b][e] = Share(e)
    BY DEF On
  <2>5. Part(F[b], S) = [e \in S |-> Share(e)]
    <3> HIDE DEF F, S, D
    <3> QED
      BY <2>4, Zenon DEF Part
  <2>6. Shares(b, days) = Total([e \in S |-> Share(e)])
    BY DEF Shares
  <2> HIDE DEF F, S, D
  <2> QED
    BY <2>3, <2>5, <2>6, Zenon
<1>7. \A b \in Motorcycles : Shares(b, days) \in Int
  <2> HIDE DEF F, D
  <2> QED
    BY <1>2, <1>4, <1>6, TotalType
<1>8. Total([b \in Motorcycles |-> Shares(b, days)]) = Total(shared)
  <2>1. [b \in Motorcycles |-> Shares(b, days)] = [b \in Motorcycles |-> Total(F[b])]
    <3> HIDE DEF F
    <3> QED
      BY <1>6, Zenon
  <2> HIDE DEF F, D
  <2>2. Total([b \in Motorcycles |-> Total(F[b])]) = Total(shared)
    BY <1>2, <1>4, <1>5, TotalSwap
  <2> HIDE DEF shared
  <2> QED
    BY <2>1, <2>2, Zenon
<1>9. \A e \in D : shared[e] = IF e.bikes = {} THEN 0 ELSE e.amount * Unit
  <2> SUFFICES ASSUME NEW e \in D PROVE shared[e] = IF e.bikes = {} THEN 0 ELSE e.amount * Unit
    OBVIOUS
  <2> DEFINE g == [b \in Motorcycles |-> F[b][e]]
  <2>1. shared[e] = Total(g)
    OBVIOUS
  <2>2. /\ g \in [Motorcycles -> Int] /\ e.bikes \in SUBSET Motorcycles /\ IsFiniteSet(e.bikes)
        /\ \A b \in Motorcycles \ e.bikes : g[b] = 0
        /\ \A b \in e.bikes : g[b] = Share(e)
    <3>1. g \in [Motorcycles -> Int]
      <4> HIDE DEF F, D
      <4> QED
        BY <1>4
    <3>2. e.bikes \in SUBSET Motorcycles /\ IsFiniteSet(e.bikes)
      BY <1>3, <1>5, FS_Subset
    <3> QED
      BY <3>1, <3>2
  <2> HIDE DEF g
  <2>3. /\ Total(g) = Total(Part(g, e.bikes)) /\ Part(g, e.bikes) \in [e.bikes -> Int]
        /\ \A b \in e.bikes : Part(g, e.bikes)[b] = Share(e)
    BY <1>5, <2>2, TotalSupport, PartType
  <2>4. CASE e.bikes = {}
    <3>1. Part(g, e.bikes) = Part(g, {})
      BY <2>4
    <3> QED
      BY <2>1, <2>3, <2>4, <3>1, PartNone
  <2>5. CASE e.bikes # {}
    <3>1. Share(e) \in Int /\ Share(e) * Cardinality(e.bikes) = e.amount * Unit
      BY <1>3, <2>5, SharesAddUp
    <3>2. Total(Part(g, e.bikes)) = Share(e) * Cardinality(e.bikes)
      <4>1. PICK p \in [e.bikes -> Int] : p = Part(g, e.bikes)
        BY <2>3
      <4>2. Total(p) = Share(e) * Cardinality(e.bikes)
        BY <2>2, <2>3, <3>1, <4>1, TotalConstant
      <4> QED
        BY <4>1, <4>2
    <3> QED
      BY <2>1, <2>3, <2>5, <3>1, <3>2
  <2> QED
    BY <2>4, <2>5
<1>10. /\ shared \in [D -> Int] /\ common \in [D -> Int]
       /\ \A e \in D : all[e] = shared[e] + common[e]
  <2>1. \A e \in D : shared[e] \in Int /\ common[e] \in Int /\ all[e] = shared[e] + common[e]
    <3> SUFFICES ASSUME NEW e \in D
                 PROVE  shared[e] \in Int /\ common[e] \in Int /\ all[e] = shared[e] + common[e]
      OBVIOUS
    <3>1. common[e] = IF e.bikes = {} THEN e.amount * Unit ELSE 0
      OBVIOUS
    <3> HIDE DEF shared, common, all, D
    <3> QED
      BY <1>2, <1>3, <1>9, <3>1
  <2>2. shared = [e \in D |-> shared[e]] /\ common = [e \in D |-> common[e]]
    OBVIOUS
  <2> HIDE DEF shared, common, all, D
  <2> QED
    BY <2>1, <2>2
<1>11. FleetExpenses(days) = Total(common)
  <2> DEFINE S == {x \in expenses : x.bikes = {} /\ x.day \in days}
  <2>1. S \in SUBSET D /\ \A e \in D \ S : common[e] = 0
    BY DEF On
  <2>2. Total(common) = Total(Part(common, S))
    <3> HIDE DEF common, S, D
    <3> QED
      BY <1>2, <1>10, <2>1, TotalSupport
  <2>3. \A e \in S : common[e] = e.amount * Unit
    BY DEF On
  <2>4. Part(common, S) = [e \in S |-> e.amount * Unit]
    <3> HIDE DEF common, S, D
    <3> QED
      BY <2>3, Zenon DEF Part
  <2>5. FleetExpenses(days) = Total([e \in S |-> e.amount * Unit])
    BY DEF FleetExpenses
  <2> HIDE DEF common, S, D
  <2> QED
    BY <2>2, <2>4, <2>5, Zenon
<1>12. Total(all) = Total(shared) + Total(common) /\ Total(shared) \in Int /\ Total(common) \in Int
  <2> HIDE DEF shared, common, all, D
  <2> QED
    BY <1>2, <1>10, TotalPlus, TotalType
<1> QED
  BY <1>7, <1>8, <1>11, <1>12

LEMMA FleetCostsAre ==
    ASSUME FleetTypeOK, NEW days
    PROVE  FleetCosts(days) = Total(Part(OwnCost, On(AllOwn, days)))
                                  + Total(Part(Amount, On(expenses, days)))
<1> DEFINE f == [b \in Motorcycles |-> OwnCosts(b, days)]
           g == [b \in Motorcycles |-> Shares(b, days)]
           h == [b \in Motorcycles |-> CostsIn(b, days)]
<1>1. f \in [Motorcycles -> Int] /\ g \in [Motorcycles -> Int]
  BY RecordsOnce, ExpensesOnce
<1>2. \A b \in Motorcycles : h[b] = f[b] + g[b]
  BY DEF CostsIn, OwnCosts, Shares
<1>3. h \in [Motorcycles -> Int]
  <2>1. h = [b \in Motorcycles |-> h[b]]
    OBVIOUS
  <2> HIDE DEF f, g, h
  <2> QED
    BY <1>1, <1>2, <2>1
<1>4. Total(h) = Total(f) + Total(g) /\ Total(f) \in Int
  <2> HIDE DEF f, g, h
  <2> QED
    BY <1>1, <1>2, <1>3, TotalPlus, TotalType, FleetAssumption, LogbookAssumption
<1>5. FleetCosts(days) = Total(h) + FleetExpenses(days)
  BY DEF FleetCosts
<1>6. Total(f) = Total(Part(OwnCost, On(AllOwn, days)))
  BY RecordsOnce
<1>7. /\ Total(g) \in Int /\ FleetExpenses(days) \in Int
      /\ Total(g) + FleetExpenses(days) = Total(Part(Amount, On(expenses, days)))
  BY ExpensesOnce
<1> HIDE DEF f, g, h
<1> QED
  BY <1>4, <1>5, <1>6, <1>7

\* Records alike in their costs are told apart, so sums are over the rows.
LEMMA ScaledTotal ==
    ASSUME NEW S, IsFiniteSet(S), NEW f \in [S -> Int], NEW c \in Int,
           NEW g \in [S -> Int], \A x \in S : f[x] = g[x] * c
    PROVE  Total(f) = c * Total(g)
<1>1. \A x \in S : f[x] = c * g[x]
  OBVIOUS
<1> QED
  BY <1>1, TotalScaled

LEMMA OnceEach == FleetTypeOK => EveryCostOnce
<1> SUFFICES ASSUME FleetTypeOK PROVE EveryCostOnce
  OBVIOUS
<1> DEFINE rc(y) == Total(Part(OwnCost, On(AllOwn, DaysOfYear(y))))
           ec(y) == Total(Part(Amount, On(expenses, DaysOfYear(y))))
           f == [y \in YearsShown |-> rc(y)]
           g == [y \in YearsShown |-> ec(y)]
           h == [y \in YearsShown |-> FleetCosts(DaysOfYear(y))]
<1>1. \A S, days : On(S, days) \in SUBSET S
  BY DEF On
<1>2. /\ IsFiniteSet(AllOwn) /\ OwnCost \in [AllOwn -> Int]
      /\ IsFiniteSet(expenses) /\ Amount \in [expenses -> Int]
  BY CostTypes DEF FleetTypeOK
<1>3. \A days : /\ Total(Part(OwnCost, On(AllOwn, days))) \in Int
                /\ Total(Part(Amount, On(expenses, days))) \in Int
  BY <1>1, <1>2, PartType, TotalType
<1>4. /\ f \in [YearsShown -> Int] /\ g \in [YearsShown -> Int]
      /\ \A y \in YearsShown : h[y] = f[y] + g[y]
  <2>1. \A y \in YearsShown : rc(y) \in Int /\ ec(y) \in Int /\ FleetCosts(DaysOfYear(y)) = rc(y) + ec(y)
    BY <1>3, FleetCostsAre
  <2> HIDE DEF rc, ec
  <2> QED
    BY <2>1
<1>5. h \in [YearsShown -> Int]
  <2>1. h = [y \in YearsShown |-> h[y]]
    OBVIOUS
  <2> HIDE DEF f, g, h
  <2> QED
    BY <1>4, <2>1
<1>6. TotalCost = Total(f) + Total(g)
  <2>1. TotalCost = Total(h)
    BY DEF TotalCost
  <2> HIDE DEF f, g, h
  <2> QED
    BY <1>4, <1>5, <2>1, TotalPlus, ShownType
<1>7. Total(f) = Total(Part(OwnCost, ToNow(AllOwn)))
  <2>1. \A r \in AllOwn : r.day \in Day /\ FirstYear <= Year(r.day)
    <3> SUFFICES ASSUME NEW r \in AllOwn PROVE r.day \in Day /\ FirstYear <= Year(r.day)
      OBVIOUS
    <3>1. r.day \in Day /\ r.day \in BikeDays(r.bike) /\ r.bike \in Motorcycles
      BY CostTypes DEF RecordRow, BikeDays
    <3> QED
      BY <3>1, FirstYearIs
  <2> QED
    BY <1>2, <2>1, ByYears DEF On
<1>8. Total(g) = Total(Part(Amount, ToNow(expenses)))
  <2>1. \A e \in expenses : e.day \in Day /\ FirstYear <= Year(e.day)
    BY CostTypes, FirstYearIs DEF ExpenseRow
  <2> QED
    BY <1>2, <2>1, ByYears DEF On
<1>9. /\ Total(Part(OwnCost, ToNow(AllOwn)))
             = Unit * Total([r \in ToNow(AllOwn) |-> RecordCost(r)])
      /\ Total([r \in ToNow(AllOwn) |-> RecordCost(r)]) \in Int
  <2> DEFINE S == ToNow(AllOwn)
             k == [r \in S |-> RecordCost(r)]
             p == Part(OwnCost, S)
  <2>1. S \in SUBSET AllOwn
    BY DEF ToNow
  <2>2. \A r \in S : RecordCost(r) \in Int /\ OwnCost[r] = RecordCost(r) * Unit
    BY <2>1, CostTypes DEF RecordCost, RecordRow, OwnCost
  <2>3. k \in [S -> Int] /\ \A r \in S : k[r] = RecordCost(r)
    <3> HIDE DEF S
    <3> QED
      BY <2>2
  <2>4. IsFiniteSet(S) /\ p \in [S -> Int] /\ \A r \in S : p[r] = k[r] * Unit
    <3> HIDE DEF S
    <3>1. IsFiniteSet(S) /\ p \in [S -> Int] /\ \A r \in S : p[r] = OwnCost[r]
      BY <1>2, <2>1, PartType
    <3> HIDE DEF p, k
    <3> QED
      BY <2>2, <2>3, <3>1
  <2>5. Total(p) = Unit * Total(k) /\ Total(k) \in Int
    <3> HIDE DEF S, p, k
    <3>1. Unit \in Int /\ IsFiniteSet(S) /\ k \in [S -> Int] /\ p \in [S -> Int]
      BY <2>3, <2>4, FleetAssumption
    <3>2. Total(p) = Unit * Total(k)
      BY <2>4, <3>1, ScaledTotal
    <3> QED
      BY <3>1, <3>2, TotalType
  <2> QED
    BY <2>5
<1>10. /\ Total(Part(Amount, ToNow(expenses)))
             = Unit * Total([e \in ToNow(expenses) |-> e.amount])
       /\ Total([e \in ToNow(expenses) |-> e.amount]) \in Int
  <2> DEFINE S == ToNow(expenses)
             k == [e \in S |-> e.amount]
             p == Part(Amount, S)
  <2>1. S \in SUBSET expenses
    BY DEF ToNow
  <2>2. \A e \in S : e.amount \in Int /\ Amount[e] = e.amount * Unit
    BY <2>1, CostTypes DEF ExpenseRow, Amount
  <2>3. k \in [S -> Int] /\ \A e \in S : k[e] = e.amount
    <3> HIDE DEF S
    <3> QED
      BY <2>2
  <2>4. IsFiniteSet(S) /\ p \in [S -> Int] /\ \A e \in S : p[e] = k[e] * Unit
    <3> HIDE DEF S
    <3>1. IsFiniteSet(S) /\ p \in [S -> Int] /\ \A e \in S : p[e] = Amount[e]
      BY <1>2, <2>1, PartType
    <3> HIDE DEF p, k
    <3> QED
      BY <2>2, <2>3, <3>1
  <2>5. Total(p) = Unit * Total(k) /\ Total(k) \in Int
    <3> HIDE DEF S, p, k
    <3>1. Unit \in Int /\ IsFiniteSet(S) /\ k \in [S -> Int] /\ p \in [S -> Int]
      BY <2>3, <2>4, FleetAssumption
    <3>2. Total(p) = Unit * Total(k)
      BY <2>4, <3>1, ScaledTotal
    <3> QED
      BY <3>1, <3>2, TotalType
  <2> QED
    BY <2>5
<1>11. TotalCost = Unit * (Total([r \in ToNow(AllOwn) |-> RecordCost(r)])
                           + Total([e \in ToNow(expenses) |-> e.amount]))
  <2>1. PICK x \in Int : x = Total([r \in ToNow(AllOwn) |-> RecordCost(r)])
    BY <1>9
  <2>2. PICK y \in Int : y = Total([e \in ToNow(expenses) |-> e.amount])
    BY <1>10
  <2>3. TotalCost = Unit * x + Unit * y
    <3> HIDE DEF f, g, h
    <3> QED
      BY <1>6, <1>7, <1>8, <1>9, <1>10, <2>1, <2>2
  <2>4. Unit \in Int
    BY FleetAssumption
  <2>5. Unit * x + Unit * y = Unit * (x + y)
    BY <2>4
  <2> QED
    BY <2>1, <2>2, <2>3, <2>5, Zenon
<1>12. FleetCosts(YearToDate) <= FleetCosts(DaysOfYear(CurrentYear - 1))
  <2> DEFINE R == On(AllOwn, DaysOfYear(CurrentYear - 1))
             E == On(expenses, DaysOfYear(CurrentYear - 1))
  <2>1. On(AllOwn, YearToDate) \in SUBSET R /\ On(expenses, YearToDate) \in SUBSET E
    BY DEF YearToDate, On
  <2>2. R \in SUBSET AllOwn /\ E \in SUBSET expenses
    BY <1>1
  <2>3. \A S, D, m : IsFiniteSet(D) /\ m \in [D -> Nat] /\ S \in SUBSET D =>
            /\ IsFiniteSet(S) /\ Part(m, S) \in [S -> Nat]
            /\ \A T \in SUBSET S : Part(Part(m, S), T) = Part(m, T)
    BY FS_Subset DEF Part
  <2> HIDE DEF R, E
  <2>4. Total(Part(OwnCost, On(AllOwn, YearToDate))) <= Total(Part(OwnCost, R))
    <3>1. /\ IsFiniteSet(R) /\ Part(OwnCost, R) \in [R -> Nat]
          /\ Part(Part(OwnCost, R), On(AllOwn, YearToDate)) = Part(OwnCost, On(AllOwn, YearToDate))
      BY <2>1, <2>2, <2>3, CostTypes
    <3> QED
      BY <2>1, <3>1, PartBelow
  <2>5. Total(Part(Amount, On(expenses, YearToDate))) <= Total(Part(Amount, E))
    <3>1. /\ IsFiniteSet(E) /\ Part(Amount, E) \in [E -> Nat]
          /\ Part(Part(Amount, E), On(expenses, YearToDate)) = Part(Amount, On(expenses, YearToDate))
      BY <2>1, <2>2, <2>3, CostTypes DEF FleetTypeOK
    <3> QED
      BY <2>1, <3>1, PartBelow
  <2>6. /\ FleetCosts(YearToDate) = Total(Part(OwnCost, On(AllOwn, YearToDate)))
                                        + Total(Part(Amount, On(expenses, YearToDate)))
        /\ FleetCosts(DaysOfYear(CurrentYear - 1)) = Total(Part(OwnCost, R)) + Total(Part(Amount, E))
    BY FleetCostsAre DEF R, E
  <2> QED
    BY <1>3, <2>4, <2>5, <2>6 DEF R, E
<1> QED
  BY <1>11, <1>12 DEF EveryCostOnce, AllOwn

(* In every reachable state the rows of the pages of figures have their     *)
(* type (the tables' columns, for pages fleet_analysis.rs reads).           *)
THEOREM FleetTypeCorrect == FleetSpec => []FleetTypeOK
BY FleetTypeInit, FleetTypeNext, PTL DEF FleetSpec

(* Every amount is counted once and none is lost (fleet_analysis.rs,        *)
(* analyze), however many records, expenses, motorcycles and years.         *)
THEOREM CostsAreCountedOnce == FleetSpec => []EveryCostOnce
BY FleetTypeCorrect, OnceEach, PTL

---------------------------------------------------------------------------
\* Kilometres.
LEMMA MaxOfTwo == \A a, b \in Int : Max({a, b}) = IF a >= b THEN a ELSE b
<1> SUFFICES ASSUME NEW a \in Int, NEW b \in Int PROVE Max({a, b}) = IF a >= b THEN a ELSE b
  OBVIOUS
<1>1. \E x \in {a, b} : \A y \in {a, b} : x >= y
  OBVIOUS
<1>2. Max({a, b}) \in {a, b} /\ \A y \in {a, b} : Max({a, b}) >= y
  BY <1>1, Zenon DEF Max
<1> QED
  BY <1>2

\* A number spread over the days of I.
LEMMA TotalOver ==
    ASSUME NEW D, IsFiniteSet(D), NEW I \in SUBSET D, NEW c \in Int, NEW g \in [D -> Int],
           \A d \in I : g[d] = c, \A d \in D \ I : g[d] = 0
    PROVE  Total(g) = c * Cardinality(I)
<1>1. Total(g) = Total(Part(g, I))
  BY TotalSupport
<1>2. /\ IsFiniteSet(I) /\ Part(g, I) \in [I -> Int] /\ \A d \in I : Part(g, I)[d] = g[d]
  BY PartType
<1>3. PICK p \in [I -> Int] : p = Part(g, I)
  BY <1>2
<1>4. Total(p) = c * Cardinality(I)
  BY <1>2, <1>3, TotalConstant
<1> QED
  BY <1>1, <1>3, <1>4

Dividable == {n \in Nat : n # 0 /\ Unit % n = 0}

LEMMA DivideUnit ==
    ASSUME NEW a \in Nat, NEW n \in Dividable
    PROVE  (a * Unit) \div n \in Nat /\ ((a * Unit) \div n) * n = a * Unit
<1>1. Unit \in Nat /\ n \in Nat /\ n # 0 /\ Unit % n = 0
  BY FleetAssumption DEF Dividable
<1>2. PICK u \in Nat : Unit = n * u
  <2>1. Unit = n * (Unit \div n) /\ Unit \div n \in Nat
    BY <1>1
  <2> QED
    BY <2>1
<1>3. PICK k \in Nat : k = a * u
  BY <1>1, <1>2
<1>4. a * Unit = n * k
  BY <1>1, <1>2, <1>3
<1>5. (n * k) \div n = k
  BY <1>1, <1>3
<1> QED
  BY <1>1, <1>3, <1>4, <1>5

\* What a reading adds to the days.
Gained(km, from, to, d) ==
    IF to <= from THEN d = to ELSE from < d /\ d <= to

LEMMA SpreadIs ==
    ASSUME NEW km \in [Day -> Nat], NEW from \in Day, NEW to \in Day, NEW distance \in Nat
    PROVE  /\ Spread(km, from, to, distance) \in [Day -> Nat]
           /\ Total(Spread(km, from, to, distance)) = Total(km) + distance * Unit
           /\ Total(km) \in Nat
           /\ \A d \in Day : ~Gained(km, from, to, d) => Spread(km, from, to, distance)[d] = km[d]
<1> DEFINE I == {d \in Day : Gained(km, from, to, d)}
           q == IF to <= from THEN distance * Unit ELSE (distance * Unit) \div (to - from)
           g == [d \in Day |-> IF d \in I THEN q ELSE 0]
           s == Spread(km, from, to, distance)
<1>1. from \in Nat /\ to \in Nat /\ LastDay \in Nat /\ to <= LastDay /\ Unit \in Nat /\ IsFiniteSet(Day)
  BY DayType, FleetAssumption DEF Day
<1>2. to > from => to - from \in Dividable
  <2> SUFFICES ASSUME to > from PROVE to - from \in Dividable
    OBVIOUS
  <2>1. to - from \in 1..LastDay
    BY <1>1
  <2>2. Unit % (to - from) = 0
    BY <2>1, FleetAssumption
  <2> QED
    BY <1>1, <2>1, <2>2 DEF Dividable
<1>3. q \in Nat /\ q * Cardinality(I) = distance * Unit
  <2>1. CASE to <= from
    <3>1. I = {to}
      BY <2>1 DEF Gained
    <3>2. Cardinality(I) = 1
      BY <3>1, FS_Singleton
    <3>3. distance * Unit \in Nat
      BY <1>1
    <3> QED
      BY <2>1, <3>2, <3>3
  <2>2. CASE to > from
    <3>1. I = (from + 1)..to
      BY <1>1, <2>2 DEF Gained, Day
    <3>2. Cardinality(I) = to - from
      <4>1. from + 1 \in Int /\ to \in Int
        BY <1>1
      <4>2. Cardinality((from + 1)..to) = IF from + 1 > to THEN 0 ELSE to - (from + 1) + 1
        BY <4>1, FS_Interval
      <4> HIDE DEF I
      <4> QED
        BY <1>1, <2>2, <3>1, <4>2
    <3>3. /\ (distance * Unit) \div (to - from) \in Nat
          /\ ((distance * Unit) \div (to - from)) * (to - from) = distance * Unit
      BY <1>2, <2>2, DivideUnit
    <3>4. q = (distance * Unit) \div (to - from)
      BY <1>1, <2>2
    <3> QED
      BY <3>2, <3>3, <3>4
  <2> QED
    BY <1>1, <2>1, <2>2
<1>4. \A d \in Day : s[d] = km[d] + g[d]
  <2> SUFFICES ASSUME NEW d \in Day PROVE s[d] = km[d] + g[d]
    OBVIOUS
  <2>1. km[d] \in Nat /\ distance * Unit \in Nat
    BY <1>1
  <2>2. CASE to <= from
    BY <2>1, <2>2 DEF Spread, Gained
  <2>3. CASE to > from
    <3>1. s[d] = km[d] + (IF d \in (from + 1)..to THEN (distance * Unit) \div (to - from) ELSE 0)
      BY <1>1, <2>3 DEF Spread
    <3>2. d \in I <=> d \in (from + 1)..to
      BY <1>1, <2>3 DEF Gained, Day
    <3>3. q = (distance * Unit) \div (to - from)
      BY <1>1, <2>3
    <3>4. g[d] = IF d \in I THEN q ELSE 0
      OBVIOUS
    <3> HIDE DEF I, q, g, s
    <3> QED
      BY <3>1, <3>2, <3>3, <3>4
  <2> QED
    BY <1>1, <2>2, <2>3
<1>5. g \in [Day -> Int] /\ \A d \in Day : g[d] \in Nat
  <2> HIDE DEF q, I
  <2> QED
    BY <1>3
<1>6. s \in [Day -> Nat]
  <2>1. CASE to <= from
    <3>1. s = [km EXCEPT ![to] = @ + distance * Unit]
      BY <2>1 DEF Spread
    <3> QED
      BY <1>1, <3>1
  <2>2. CASE to > from
    <3> DEFINE c(d) == IF d \in (from + 1)..to THEN (distance * Unit) \div (to - from) ELSE 0
    <3>1. s = [d \in Day |-> km[d] + c(d)]
      BY <1>1, <2>2 DEF Spread
    <3>2. \A d \in Day : c(d) \in Nat
      BY <1>2, <2>2, DivideUnit
    <3> HIDE DEF c
    <3> QED
      BY <3>1, <3>2
  <2> QED
    BY <1>1, <2>1, <2>2
<1>7. Total(s) = Total(km) + Total(g) /\ Total(km) \in Nat
  <2> HIDE DEF s, g
  <2>1. s \in [Day -> Int] /\ km \in [Day -> Int]
    BY <1>6
  <2>2. g \in [Day -> Int] /\ IsFiniteSet(Day)
    BY <1>1, <1>5
  <2>3. Total(s) = Total(km) + Total(g)
    BY <1>4, <2>1, <2>2, TotalPlus
  <2> QED
    BY <2>2, <2>3, TotalNat
<1>8. Total(g) = q * Cardinality(I)
  <2>1. \A d \in Day : g[d] = IF d \in I THEN q ELSE 0
    OBVIOUS
  <2>2. I \in SUBSET Day
    OBVIOUS
  <2> HIDE DEF g, q, I
  <2>3. g \in [Day -> Int] /\ IsFiniteSet(Day) /\ q \in Int
    BY <1>1, <1>3, <1>5
  <2>4. (\A d \in I : g[d] = q) /\ (\A d \in Day \ I : g[d] = 0)
    BY <2>1, <2>2
  <2> QED
    BY <2>2, <2>3, <2>4, TotalOver
<1>9. \A d \in Day : ~Gained(km, from, to, d) => s[d] = km[d]
  <2> SUFFICES ASSUME NEW d \in Day, ~Gained(km, from, to, d) PROVE s[d] = km[d]
    OBVIOUS
  <2>1. g[d] = 0 /\ km[d] \in Nat
    OBVIOUS
  <2> HIDE DEF s, g
  <2> QED
    BY <1>4, <2>1
<1> HIDE DEF s, g, q, I
<1> QED
  BY <1>3, <1>6, <1>7, <1>8, <1>9 DEF s

---------------------------------------------------------------------------
\* The readings of a bike are added up in order.
Reading == Day \X Nat
Sum == [base : Reading \union {None}, km : [Day -> Nat]]
Walked(a, s, n) ==
    CHOOSE w : w = [k \in 0..n |-> IF k = 0 THEN a ELSE AddReading(w[k - 1], s[k])]

LEMMA UpTo ==
    ASSUME NEW n \in Nat, NEW G, 0 \in G, \A k \in 0..(n - 1) : k \in G => k + 1 \in G
    PROVE  \A k \in 0..n : k \in G
<1> DEFINE S == {k \in 0..n : k \notin G}
<1>1. SUFFICES ASSUME S # {} PROVE FALSE
  OBVIOUS
<1>2. S \in SUBSET Nat
  OBVIOUS
<1>3. PICK k \in S : \A m \in S : k <= m
  <2> HIDE DEF S
  <2> QED
    BY <1>1, <1>2, LeastNat
<1>4. k # 0 /\ k - 1 \in 0..(n - 1) /\ k - 1 \notin S
  BY <1>3
<1>5. k - 1 \in G
  BY <1>4
<1>6. (k - 1) + 1 \in G
  BY <1>4, <1>5
<1> QED
  BY <1>3, <1>6

LEMMA WalkedExists ==
    ASSUME NEW a, NEW s, NEW n \in Nat
    PROVE  /\ Walked(a, s, n)[0] = a
           /\ \A k \in 1..n : Walked(a, s, n)[k] = AddReading(Walked(a, s, n)[k - 1], s[k])
<1> DEFINE Is(w, m) == w = [k \in 0..m |-> IF k = 0 THEN a ELSE AddReading(w[k - 1], s[k])]
           G == {m \in 0..n : \E w : Is(w, m)}
<1>1. 0 \in G
  <2>1. PICK w : w = [k \in 0..0 |-> a]
    OBVIOUS
  <2>2. Is(w, 0)
    BY <2>1
  <2> HIDE DEF Is
  <2> QED
    BY <2>2
<1>2. ASSUME NEW m \in 0..(n - 1), m \in G PROVE m + 1 \in G
  <2>1. PICK w : Is(w, m)
    BY <1>2
  <2>2. PICK v : v = [k \in 0..(m + 1) |-> IF k = m + 1 THEN AddReading(w[m], s[m + 1]) ELSE w[k]]
    OBVIOUS
  <2>3. \A k \in 0..m : v[k] = w[k]
    BY <2>2
  <2>4. \A k \in 0..(m + 1) : v[k] = IF k = 0 THEN a ELSE AddReading(v[k - 1], s[k])
    <3> SUFFICES ASSUME NEW k \in 0..(m + 1)
                 PROVE  v[k] = IF k = 0 THEN a ELSE AddReading(v[k - 1], s[k])
      OBVIOUS
    <3>1. CASE k = m + 1
      BY <2>2, <2>3, <3>1
    <3>2. CASE k \in 0..m
      <4>1. w[k] = IF k = 0 THEN a ELSE AddReading(w[k - 1], s[k])
        BY <2>1, <3>2
      <4>2. k # 0 => k - 1 \in 0..m
        BY <3>2
      <4> QED
        BY <2>3, <3>2, <4>1, <4>2
    <3> QED
      BY <3>1, <3>2
  <2>5. Is(v, m + 1)
    BY <2>2, <2>4
  <2> HIDE DEF Is
  <2> QED
    BY <2>5
<1>3. n \in G
  <2> HIDE DEF G
  <2> QED
    BY <1>1, <1>2, UpTo
<1>4. Is(Walked(a, s, n), n)
  BY <1>3 DEF Walked
<1> DEFINE w == Walked(a, s, n)
<1>5. \A k \in 0..n : w[k] = IF k = 0 THEN a ELSE AddReading(w[k - 1], s[k])
  <2> HIDE DEF w
  <2> QED
    BY <1>4 DEF w
<1> HIDE DEF w
<1> QED
  BY <1>5 DEF w

LEMMA AddedIs ==
    ASSUME NEW acc \in Sum, NEW r \in Reading
    PROVE  /\ AddReading(acc, r) \in Sum
           /\ acc.base # None =>
                 /\ acc.base \in Reading /\ acc.km \in [Day -> Nat]
                 /\ r[2] < acc.base[2] => AddReading(acc, r) = acc
                 /\ r[2] >= acc.base[2] =>
                       AddReading(acc, r) =
                           [base |-> <<Max({r[1], acc.base[1]}), r[2]>>,
                            km |-> Spread(acc.km, acc.base[1], r[1], r[2] - acc.base[2])]
<1>1. r[1] \in Day /\ r[2] \in Nat /\ acc.km \in [Day -> Nat] /\ acc.base \in Reading \union {None}
  BY DEF Reading, Sum
<1>2. CASE acc.base = None
  <2>1. AddReading(acc, r) = [acc EXCEPT !.base = r]
    BY <1>2 DEF AddReading
  <2> QED
    BY <1>2, <2>1 DEF Sum
<1>3. CASE acc.base # None
  <2>1. acc.base \in Reading /\ acc.base[1] \in Day /\ acc.base[2] \in Nat
    BY <1>1, <1>3 DEF Reading
  <2>2. CASE r[2] < acc.base[2]
    <3>1. AddReading(acc, r) = acc
      BY <1>3, <2>2 DEF AddReading
    <3> QED
      BY <1>1, <2>1, <2>2, <3>1
  <2>3. CASE r[2] >= acc.base[2]
    <3>1. ~(r[2] < acc.base[2]) /\ r[2] - acc.base[2] \in Nat
      BY <1>1, <2>1, <2>3
    <3>2. AddReading(acc, r) = [base |-> <<Max({r[1], acc.base[1]}), r[2]>>,
                                km |-> Spread(acc.km, acc.base[1], r[1], r[2] - acc.base[2])]
      BY <1>3, <3>1 DEF AddReading
    <3>3. Spread(acc.km, acc.base[1], r[1], r[2] - acc.base[2]) \in [Day -> Nat]
      BY <1>1, <2>1, <3>1, SpreadIs
    <3>4. Max({r[1], acc.base[1]}) \in Day
      <4>1. r[1] \in Int /\ acc.base[1] \in Int
        BY <1>1, <2>1, DayType
      <4> QED
        BY <1>1, <2>1, <4>1, MaxOfTwo
    <3>5. AddReading(acc, r) \in Sum
      BY <1>1, <3>2, <3>3, <3>4 DEF Sum, Reading
    <3> QED
      BY <1>1, <2>1, <3>1, <3>2, <3>5
  <2> QED
    BY <1>1, <2>1, <2>2, <2>3
<1> QED
  BY <1>2, <1>3

LEMMA WalkType ==
    ASSUME NEW n \in Nat, NEW s \in [1..n -> Reading], NEW a \in Sum
    PROVE  \A k \in 0..n : Walked(a, s, n)[k] \in Sum
<1> DEFINE w == Walked(a, s, n)
           G == {k \in 0..n : w[k] \in Sum}
<1>1. 0 \in G
  BY WalkedExists
<1>2. ASSUME NEW k \in 0..(n - 1), k \in G PROVE k + 1 \in G
  <2>1. w[k] \in Sum /\ k + 1 \in 1..n /\ (k + 1) - 1 = k
    BY <1>2
  <2>2. w[k + 1] = AddReading(w[k], s[k + 1])
    <3>1. w[k + 1] = AddReading(w[(k + 1) - 1], s[k + 1])
      BY <2>1, WalkedExists
    <3> QED
      BY <2>1, <3>1
  <2>3. PICK r \in Reading : r = s[k + 1]
    BY <2>1
  <2>4. PICK acc \in Sum : acc = w[k]
    BY <2>1
  <2>5. AddReading(acc, r) \in Sum
    BY AddedIs
  <2> HIDE DEF w
  <2> QED
    BY <2>1, <2>2, <2>3, <2>4, <2>5
<1>3. \A k \in 0..n : k \in G
  <2> HIDE DEF G
  <2> QED
    BY <1>1, <1>2, UpTo
<1> QED
  BY <1>3

\* What holds after k readings: the base is the highest odometer so far.
Gone(acc, s, start, k) ==
    /\ acc \in Sum /\ acc.base \in Reading
    /\ acc.base[2] >= start[2]
    /\ acc.base[2] = start[2] \/ \E i \in 1..k : acc.base[2] = s[i][2]
    /\ \A i \in 1..k : s[i][2] <= acc.base[2]
    /\ acc.base[1] >= start[1]
    /\ acc.base[1] = start[1] \/ \E i \in 1..k : acc.base[1] = s[i][1]
    /\ Total(acc.km) = Unit * (acc.base[2] - start[2])
    /\ \A d \in Day : d > acc.base[1] => acc.km[d] = 0
    /\ (\A i \in 1..k : s[i][1] >= start[1]) => \A d \in Day : d < start[1] => acc.km[d] = 0

LEMMA ReadingNot == /\ None \notin Reading
                    /\ \A r \in Reading : r[1] \in Day /\ r[1] \in Nat /\ r[2] \in Nat
BY FleetAssumption, DayType DEF Reading, Day

LEMMA WalkedGone ==
    ASSUME NEW n \in Nat, NEW s \in [1..n -> Reading], NEW start \in Reading
    PROVE  \A k \in 0..n : Gone(Walked([base |-> start, km |-> NoKm], s, n)[k], s, start, k)
<1> DEFINE a == [base |-> start, km |-> NoKm]
           w == Walked(a, s, n)
           G == {k \in 0..n : Gone(w[k], s, start, k)}
<1>1. a \in Sum
  BY DEF Sum, NoKm
<1>2. w[0] = a
  <2> HIDE DEF a
  <2> QED
    BY WalkedExists
<1>3. 0 \in G
  <2>1. \A i : i \notin 1..0
    OBVIOUS
  <2>2. Total(NoKm) = 0
    <3>1. NoKm \in [Day -> Int] /\ \A d \in Day : NoKm[d] = 0
      BY DEF NoKm
    <3> QED
      BY <3>1, TotalZero, DayType
  <2>3. Unit \in Nat /\ start[2] \in Nat /\ start[1] \in Nat
    BY FleetAssumption, ReadingNot
  <2>4. Unit * (start[2] - start[2]) = 0
    BY <2>3
  <2>5. \A d \in Day : NoKm[d] = 0
    BY DEF NoKm
  <2>6. PICK z : z = a
    OBVIOUS
  <2>7. z.base = start /\ z.km = NoKm /\ z \in Sum
    BY <1>1, <2>6
  <2>8. Gone(z, s, start, 0)
    BY <2>1, <2>2, <2>3, <2>4, <2>5, <2>7 DEF Gone
  <2> QED
    BY <1>2, <2>6, <2>8
<1>4. ASSUME NEW k \in 0..(n - 1), k \in G PROVE k + 1 \in G
  <2>1. k \in Nat /\ k + 1 \in 1..n /\ (k + 1) - 1 = k
    BY <1>4
  <2>2. PICK acc : acc = w[k]
    OBVIOUS
  <2>3. PICK r \in Reading : r = s[k + 1]
    BY <2>1
  <2>4. w[k + 1] = AddReading(acc, r)
    <3>1. w[k + 1] = AddReading(w[(k + 1) - 1], s[k + 1])
      <4> HIDE DEF a
      <4> QED
        BY <2>1, WalkedExists
    <3> QED
      BY <2>1, <2>2, <2>3, <3>1
  <2>5. Gone(acc, s, start, k)
    BY <1>4, <2>2
  <2>6. PICK new : new = AddReading(acc, r)
    OBVIOUS
  <2>7. acc \in Sum /\ acc.base \in Reading /\ acc.base # None
    BY <2>5, ReadingNot DEF Gone
  <2>8. /\ new \in Sum /\ acc.km \in [Day -> Nat]
        /\ r[2] < acc.base[2] => new = acc
        /\ r[2] >= acc.base[2] =>
              new = [base |-> <<Max({r[1], acc.base[1]}), r[2]>>,
                     km |-> Spread(acc.km, acc.base[1], r[1], r[2] - acc.base[2])]
    BY <2>6, <2>7, AddedIs
  <2>9. /\ acc.base[1] \in Day /\ acc.base[1] \in Nat /\ acc.base[2] \in Nat
        /\ r[1] \in Day /\ r[1] \in Nat /\ r[2] \in Nat
        /\ start[1] \in Nat /\ start[2] \in Nat /\ Unit \in Nat
    BY <2>7, ReadingNot, FleetAssumption
  <2>10. \A i : i \in 1..(k + 1) <=> i \in 1..k \/ i = k + 1
    BY <2>1
  <2>11. CASE r[2] < acc.base[2]
    <3>1. new = acc
      BY <2>8, <2>11
    <3>2. \A i \in 1..(k + 1) : s[i][2] <= acc.base[2]
      <4>1. \A i \in 1..k : s[i][2] <= acc.base[2]
        BY <2>5 DEF Gone
      <4>2. s[k + 1][2] <= acc.base[2]
        BY <2>3, <2>9, <2>11
      <4> QED
        BY <2>10, <4>1, <4>2
    <3>3. Gone(acc, s, start, k + 1)
      BY <2>5, <2>10, <3>2 DEF Gone
    <3> QED
      BY <1>4, <2>1, <2>4, <2>6, <3>1, <3>3
  <2>12. CASE r[2] >= acc.base[2]
    <3>1. PICK d1 : d1 = Max({r[1], acc.base[1]})
      OBVIOUS
    <3>2. d1 = IF r[1] >= acc.base[1] THEN r[1] ELSE acc.base[1]
      BY <2>9, <3>1, MaxOfTwo
    <3>3. PICK km1 : km1 = Spread(acc.km, acc.base[1], r[1], r[2] - acc.base[2])
      OBVIOUS
    <3>4. new = [base |-> <<d1, r[2]>>, km |-> km1]
      BY <2>8, <2>12, <3>1, <3>3
    <3>5. new.base = <<d1, r[2]>> /\ new.km = km1 /\ new.base[1] = d1 /\ new.base[2] = r[2]
      BY <3>4
    <3>6. r[2] - acc.base[2] \in Nat
      BY <2>9, <2>12
    <3>7. /\ km1 \in [Day -> Nat]
          /\ Total(km1) = Total(acc.km) + (r[2] - acc.base[2]) * Unit
          /\ \A d \in Day : ~Gained(acc.km, acc.base[1], r[1], d) => km1[d] = acc.km[d]
      <4>1. PICK distance \in Nat : distance = r[2] - acc.base[2]
        BY <3>6
      <4>2. PICK from \in Day : from = acc.base[1]
        BY <2>9
      <4>3. PICK to \in Day : to = r[1]
        BY <2>9
      <4>4. PICK km \in [Day -> Nat] : km = acc.km
        BY <2>8
      <4>5. /\ Spread(km, from, to, distance) \in [Day -> Nat]
            /\ Total(Spread(km, from, to, distance)) = Total(km) + distance * Unit
            /\ \A d \in Day : ~Gained(km, from, to, d) => Spread(km, from, to, distance)[d] = km[d]
        <5>1. Spread(km, from, to, distance) \in [Day -> Nat]
          BY SpreadIs
        <5>2. Total(Spread(km, from, to, distance)) = Total(km) + distance * Unit
          BY SpreadIs
        <5>3. \A d \in Day : ~Gained(km, from, to, d) => Spread(km, from, to, distance)[d] = km[d]
          BY SpreadIs
        <5> QED
          BY <5>1, <5>2, <5>3
      <4>6. km1 = Spread(km, from, to, distance)
        BY <3>3, <4>1, <4>2, <4>3, <4>4
      <4> QED
        BY <4>1, <4>2, <4>3, <4>4, <4>5, <4>6, Zenon
    <3>8. new.base \in Reading
      BY <2>9, <3>2, <3>5 DEF Reading
    <3>9. new.base[2] >= start[2] /\ \E i \in 1..(k + 1) : new.base[2] = s[i][2]
      <4>1. acc.base[2] >= start[2]
        BY <2>5 DEF Gone
      <4> QED
        BY <2>3, <2>9, <2>10, <2>12, <3>5, <4>1
    <3>10. \A i \in 1..(k + 1) : s[i][2] <= new.base[2]
      <4> SUFFICES ASSUME NEW i \in 1..(k + 1) PROVE s[i][2] <= r[2]
        BY <3>5
      <4>1. CASE i = k + 1
        BY <2>3, <2>9, <4>1
      <4>2. CASE i \in 1..k
        <5>1. s[i][2] <= acc.base[2] /\ s[i] \in Reading
          BY <2>1, <2>5, <4>2 DEF Gone
        <5> QED
          BY <2>9, <2>12, <5>1, ReadingNot
      <4> QED
        BY <2>10, <4>1, <4>2
    <3>11. new.base[1] >= start[1] /\ new.base[1] >= acc.base[1]
      BY <2>5, <2>9, <3>2, <3>5 DEF Gone
    <3>12. new.base[1] = start[1] \/ \E i \in 1..(k + 1) : new.base[1] = s[i][1]
      <4>1. acc.base[1] = start[1] \/ \E i \in 1..k : acc.base[1] = s[i][1]
        BY <2>5 DEF Gone
      <4> QED
        BY <2>3, <2>10, <3>2, <3>5, <4>1
    <3>13. Total(new.km) = Unit * (new.base[2] - start[2])
      <4>1. PICK x \in Int : x = acc.base[2] - start[2]
        BY <2>9
      <4>2. PICK y \in Int : y = r[2] - acc.base[2]
        BY <3>6
      <4>3. Total(acc.km) = Unit * x
        BY <2>5, <4>1 DEF Gone
      <4>4. Total(new.km) = Unit * x + y * Unit
        BY <3>5, <3>7, <4>2, <4>3
      <4>5. new.base[2] - start[2] = x + y
        <5>1. PICK p \in Nat : p = acc.base[2]
          BY <2>9
        <5>2. PICK q \in Nat : q = start[2]
          BY <2>9
        <5>3. x = p - q /\ y = r[2] - p /\ new.base[2] - start[2] = r[2] - q
          BY <3>5, <4>1, <4>2, <5>1, <5>2
        <5> QED
          BY <2>9, <5>3
      <4>6. Unit * x + y * Unit = Unit * (x + y)
        BY <2>9
      <4> QED
        BY <4>4, <4>5, <4>6
    <3>14. \A d \in Day : d > new.base[1] => new.km[d] = 0
      <4> SUFFICES ASSUME NEW d \in Day, d > d1 PROVE km1[d] = 0
        BY <3>5
      <4>1. d \in Nat
        BY DayType
      <4>2. d > acc.base[1] /\ ~Gained(acc.km, acc.base[1], r[1], d)
        BY <2>9, <3>2, <4>1 DEF Gained
      <4> QED
        BY <2>5, <3>7, <4>2 DEF Gone
    <3>15. (\A i \in 1..(k + 1) : s[i][1] >= start[1])
              => \A d \in Day : d < start[1] => new.km[d] = 0
      <4> SUFFICES ASSUME \A i \in 1..(k + 1) : s[i][1] >= start[1],
                          NEW d \in Day, d < start[1]
                   PROVE  km1[d] = 0
        BY <3>5
      <4>1. d \in Nat /\ r[1] >= start[1] /\ \A i \in 1..k : s[i][1] >= start[1]
        BY <2>3, <2>10, DayType
      <4>2. acc.km[d] = 0 /\ acc.base[1] >= start[1]
        BY <2>5, <4>1 DEF Gone
      <4>3. ~Gained(acc.km, acc.base[1], r[1], d)
        BY <2>9, <4>1, <4>2 DEF Gained
      <4> QED
        BY <3>7, <4>2, <4>3
    <3>16. Gone(new, s, start, k + 1)
      BY <2>8, <3>8, <3>9, <3>10, <3>11, <3>12, <3>13, <3>14, <3>15 DEF Gone
    <3> QED
      BY <1>4, <2>1, <2>4, <2>6, <3>16
  <2> QED
    BY <2>9, <2>11, <2>12
<1>5. \A k \in 0..n : k \in G
  <2> HIDE DEF G
  <2> QED
    BY <1>3, <1>4, UpTo
<1> QED
  BY <1>5

\* The days up to a reading that goes forwards keep what they had there.
GoesForwards(s, n, start, j) ==
    /\ \A i, k \in 1..n : i < k => EarlierReading(s[i], s[k])
    /\ s[j][1] >= start[1] /\ s[j][2] >= start[2]
    /\ \A i \in 1..n : EarlierReading(s[i], s[j]) \/ s[i][1] = s[j][1] => s[i][2] <= s[j][2]

LEMMA WalkAfter ==
    ASSUME NEW n \in Nat, NEW s \in [1..n -> Reading], NEW start \in Reading, NEW j \in 1..n,
           GoesForwards(s, n, start, j),
           NEW w, w = Walked([base |-> start, km |-> NoKm], s, n)
    PROVE  /\ w[j].base = s[j]
           /\ \A d \in Day : d <= s[j][1] => w[n].km[d] = w[j].km[d]
<1> DEFINE x == s[j]
           G == {k \in 0..n : k >= j => /\ w[k].base[1] >= x[1]
                                        /\ \A d \in Day : d <= x[1] => w[k].km[d] = w[j].km[d]}
<1> USE DEF GoesForwards
<1>1. \A k \in 0..n : Gone(w[k], s, start, k)
  BY WalkedGone
<1>2. \A k \in 1..n : w[k] = AddReading(w[k - 1], s[k])
  <2> DEFINE a == [base |-> start, km |-> NoKm]
  <2>1. w = Walked(a, s, n)
    OBVIOUS
  <2> HIDE DEF a
  <2> QED
    BY <2>1, WalkedExists
<1>3. /\ \A k \in 0..n : w[k] \in Sum /\ w[k].base \in Reading /\ w[k].base # None
      /\ \A k \in 1..n : s[k] \in Reading
      /\ start[1] \in Nat /\ start[2] \in Nat
  BY <1>1, ReadingNot DEF Gone
<1>4. w[j].base = x
  <2>1. PICK acc \in Sum : acc = w[j - 1]
    BY <1>3
  <2>2. PICK r \in Reading : r = x
    BY <1>3
  <2>3. j - 1 \in 0..n /\ Gone(acc, s, start, j - 1) /\ acc.base \in Reading /\ acc.base # None
    BY <1>1, <1>3, <2>1
  <2>4. /\ acc.base[1] \in Nat /\ acc.base[2] \in Nat /\ r[1] \in Nat /\ r[2] \in Nat
    BY <2>3, ReadingNot
  <2>5. \A i \in 1..(j - 1) : s[i][2] <= r[2] /\ s[i][1] <= r[1]
    <3> SUFFICES ASSUME NEW i \in 1..(j - 1) PROVE s[i][2] <= r[2] /\ s[i][1] <= r[1]
      OBVIOUS
    <3>1. i \in 1..n /\ i < j
      OBVIOUS
    <3>2. EarlierReading(s[i], s[j]) /\ s[i] \in Reading
      BY <1>3, <3>1
    <3>3. s[i][1] \in Nat /\ s[i][2] \in Nat
      BY <3>2, ReadingNot
    <3>4. s[i][2] <= s[j][2]
      BY <3>1, <3>2
    <3> QED
      BY <2>2, <2>4, <3>2, <3>3, <3>4 DEF EarlierReading
  <2>6. acc.base[2] <= r[2] /\ acc.base[1] <= r[1]
    BY <2>2, <2>3, <2>5 DEF Gone
  <2>7. AddReading(acc, r) =
            [base |-> <<Max({r[1], acc.base[1]}), r[2]>>,
             km |-> Spread(acc.km, acc.base[1], r[1], r[2] - acc.base[2])]
    BY <2>3, <2>4, <2>6, AddedIs
  <2>8. Max({r[1], acc.base[1]}) = r[1]
    BY <2>4, <2>6, MaxOfTwo
  <2>9. w[j] = AddReading(acc, r)
    BY <1>2, <2>1, <2>2
  <2>10. w[j].base = <<r[1], r[2]>>
    <3>1. PICK km1 : km1 = Spread(acc.km, acc.base[1], r[1], r[2] - acc.base[2])
      OBVIOUS
    <3>2. w[j] = [base |-> <<r[1], r[2]>>, km |-> km1]
      BY <2>7, <2>8, <2>9, <3>1, Zenon
    <3> QED
      BY <3>2
  <2>11. r = <<r[1], r[2]>>
    BY DEF Reading
  <2> QED
    BY <2>2, <2>10, <2>11
<1>5. 0 \in G
  OBVIOUS
<1>6. ASSUME NEW k \in 0..(n - 1), k \in G PROVE k + 1 \in G
  <2>1. CASE k + 1 < j
    BY <2>1
  <2>2. CASE k + 1 = j
    <3>1. w[j].base[1] >= x[1]
      <4>1. x[1] \in Nat
        BY <1>3, ReadingNot
      <4> HIDE DEF x
      <4> QED
        BY <1>4, <4>1
    <3> HIDE DEF x
    <3> QED
      BY <2>2, <3>1
  <2>3. CASE k + 1 > j
    <3>1. k \in Nat /\ k >= j /\ k + 1 \in 1..n /\ (k + 1) - 1 = k
      BY <2>3
    <3>2. PICK acc \in Sum : acc = w[k]
      BY <1>3, <3>1
    <3>3. PICK r \in Reading : r = s[k + 1]
      BY <1>3, <3>1
    <3>4. PICK new : new = AddReading(acc, r)
      OBVIOUS
    <3>5. w[k + 1] = new
      BY <1>2, <3>1, <3>2, <3>3, <3>4
    <3>6. acc.base # None /\ acc.base \in Reading /\ acc.km \in [Day -> Nat] /\ w[j].km \in [Day -> Nat]
      BY <1>3, <3>1, <3>2 DEF Sum
    <3>7. /\ x \in Reading /\ x[1] \in Nat /\ x[2] \in Nat
          /\ r[1] \in Day /\ r[1] \in Nat /\ r[2] \in Nat
          /\ acc.base[1] \in Day /\ acc.base[1] \in Nat /\ acc.base[2] \in Nat
      BY <1>3, <3>6, ReadingNot
    <3>8. acc.base[1] >= x[1] /\ \A d \in Day : d <= x[1] => acc.km[d] = w[j].km[d]
      BY <1>6, <3>1, <3>2
    <3>9. r[1] > x[1]
      <4>1. EarlierReading(x, r)
        BY <3>1, <3>3, <2>3
      <4>2. r[1] = x[1] => r[2] <= x[2]
        BY <3>1, <3>3
      <4> HIDE DEF x
      <4> QED
        BY <3>7, <4>1, <4>2 DEF EarlierReading
    <3>10. CASE r[2] < acc.base[2]
      <4>1. new = acc
        BY <3>4, <3>6, <3>10, AddedIs
      <4> QED
        BY <3>1, <3>5, <3>8, <4>1
    <3>11. CASE r[2] >= acc.base[2]
      <4>1. PICK d1 : d1 = Max({r[1], acc.base[1]})
        OBVIOUS
      <4>2. PICK km1 : km1 = Spread(acc.km, acc.base[1], r[1], r[2] - acc.base[2])
        OBVIOUS
      <4>3. new = [base |-> <<d1, r[2]>>, km |-> km1]
        BY <3>4, <3>6, <3>11, <4>1, <4>2, AddedIs
      <4>4. new.base[1] = d1 /\ new.km = km1
        BY <4>3
      <4>5. d1 >= x[1]
        BY <3>7, <3>8, <4>1, MaxOfTwo
      <4>6. ASSUME NEW d \in Day, d <= x[1] PROVE km1[d] = acc.km[d]
        <5>1. PICK distance \in Nat : distance = r[2] - acc.base[2]
          BY <3>7, <3>11
        <5>2. PICK from \in Day : from = acc.base[1]
          BY <3>7
        <5>3. PICK to \in Day : to = r[1]
          BY <3>7
        <5>4. PICK km \in [Day -> Nat] : km = acc.km
          BY <3>6
        <5>5. ~Gained(km, from, to, d) => Spread(km, from, to, distance)[d] = km[d]
          BY SpreadIs
        <5>6. ~Gained(km, from, to, d)
          BY <3>7, <3>8, <3>9, <4>6, <5>2, <5>3, DayType DEF Gained
        <5>7. km1 = Spread(km, from, to, distance)
          BY <4>2, <5>1, <5>2, <5>3, <5>4
        <5> QED
          BY <5>4, <5>5, <5>6, <5>7
      <4> QED
        BY <3>1, <3>5, <3>8, <4>4, <4>5, <4>6
    <3> QED
      BY <3>7, <3>10, <3>11
  <2> QED
    BY <2>1, <2>2, <2>3
<1>7. \A k \in 0..n : k \in G
  <2> HIDE DEF G
  <2> QED
    BY <1>5, <1>6, UpTo
<1>8. n \in G /\ n >= j
  BY <1>7
<1> QED
  BY <1>4, <1>8

---------------------------------------------------------------------------
\* The readings of a bike.
LEMMA ImageFinite ==
    ASSUME NEW S, IsFiniteSet(S), NEW f, f = [x \in S |-> f[x]]
    PROVE  IsFiniteSet({f[x] : x \in S})
<1>1. f \in Surjection(S, {f[x] : x \in S})
  BY DEF Surjection
<1> QED
  BY <1>1, FS_Surjection

LEMMA LenIs == ASSUME NEW n \in Nat, NEW S, NEW s \in [1..n -> S] PROVE Len(s) = n
OBVIOUS

LEMMA ReadingsType ==
    ASSUME FleetTypeOK, NEW b \in Motorcycles
    PROVE  IsFiniteSet(ReadingsOf(b)) /\ ReadingsOf(b) \subseteq Reading
<1> DEFINE S == {o \in Own(b) : o.odo > 0}
           f == [r \in S |-> <<r.day, r.odo>>]
           logged == {<<r.day, r.odo>> : r \in S}
           sale == IF bikes[b].sold # None /\ bikes[b].saleOdo # None
                   THEN {<<bikes[b].sold, bikes[b].saleOdo>>} ELSE {}
<1>1. IsFiniteSet(S) /\ \A r \in S : r.day \in Day /\ r.odo \in Nat
  BY OwnRecords, FS_Subset
<1>2. IsFiniteSet(logged)
  <2>1. logged = {f[x] : x \in S}
    OBVIOUS
  <2>2. f = [x \in S |-> f[x]]
    OBVIOUS
  <2> HIDE DEF f, S, logged
  <2> QED
    BY <1>1, <2>1, <2>2, ImageFinite
<1>3. logged \subseteq Reading
  BY <1>1 DEF Reading
<1>4. sale \subseteq Reading /\ IsFiniteSet(sale)
  <2>1. sale \subseteq Reading
    BY DEF FleetTypeOK, BikeRow, Reading
  <2>2. IsFiniteSet(sale)
    BY FS_EmptySet, FS_Singleton
  <2> QED
    BY <2>1, <2>2
<1>5. ReadingsOf(b) = logged \union sale
  BY DEF ReadingsOf
<1>6. IsFiniteSet(logged \union sale)
  <2>1. CASE sale = {}
    BY <1>2, <2>1
  <2>2. CASE sale # {}
    <3>1. PICK z : sale = {z}
      BY <2>2
    <3> HIDE DEF sale, logged
    <3> QED
      BY <1>2, <3>1, FS_AddElement
  <2> QED
    BY <2>1, <2>2
<1> QED
  BY <1>3, <1>4, <1>5, <1>6

LEMMA InOrderIs ==
    ASSUME NEW R, IsFiniteSet(R), R \subseteq Reading
    PROVE  /\ Cardinality(R) \in Nat /\ Len(InOrder(R)) = Cardinality(R)
           /\ InOrder(R) \in [1..Cardinality(R) -> R] /\ InOrder(R) \in [1..Cardinality(R) -> Reading]
           /\ \A x \in R : \E k \in 1..Cardinality(R) : InOrder(R)[k] = x
           /\ \A i, j \in 1..Cardinality(R) : i < j => EarlierReading(InOrder(R)[i], InOrder(R)[j])
<1> DEFINE order == {p \in R \X R : EarlierReading(p[1], p[2])}
           n == Cardinality(R)
           s == InOrder(R)
<1>1. \A x \in R : x[1] \in Nat /\ x[2] \in Nat /\ x = <<x[1], x[2]>>
  BY ReadingNot DEF Reading
<1>2. \A x, y \in R : <<x, y>> \in order <=> EarlierReading(x, y)
  OBVIOUS
<1>3. Orders(order, R)
  <2> HIDE DEF order
  <2>1. \A x \in R : ~EarlierReading(x, x)
    BY <1>1 DEF EarlierReading
  <2>2. \A x, y, z \in R : EarlierReading(x, y) /\ EarlierReading(y, z) => EarlierReading(x, z)
    BY <1>1 DEF EarlierReading
  <2>3. \A x, y \in R : x # y => EarlierReading(x, y) \/ EarlierReading(y, x)
    <3> SUFFICES ASSUME NEW x \in R, NEW y \in R, x # y
                 PROVE  EarlierReading(x, y) \/ EarlierReading(y, x)
      OBVIOUS
    <3>1. x[1] # y[1] \/ x[2] # y[2]
      BY <1>1
    <3> QED
      BY <1>1, <3>1 DEF EarlierReading
  <2> QED
    BY <1>2, <2>1, <2>2, <2>3 DEF Orders
<1>4. s = Ranked(R, order)
  BY DEF InOrder
<1>5. /\ n \in Nat /\ s \in [1..n -> R]
      /\ \A x \in R : \E k \in 1..n : s[k] = x
      /\ \A i, j \in 1..n : i < j => <<s[i], s[j]>> \in order
  <2> HIDE DEF order, s, n
  <2> QED
    BY <1>3, <1>4, RankedIs DEF n
<1> HIDE DEF order, s, n
<1>6. Len(s) = n
  BY <1>5, LenIs
<1>7. \A i, j \in 1..n : i < j => EarlierReading(s[i], s[j])
  BY <1>2, <1>5
<1> QED
  BY <1>5, <1>6, <1>7 DEF s, n

LEMMA KmIs ==
    ASSUME FleetTypeOK, NEW b \in Motorcycles
    PROVE  LET n == Cardinality(ReadingsOf(b))
               s == InOrder(ReadingsOf(b))
               w == Walked([base |-> FirstReading(b), km |-> NoKm], s, n)
           IN  n \in Nat /\ s \in [1..n -> Reading] /\ KmPerDay(b) = w[n].km
<1> DEFINE n == Cardinality(ReadingsOf(b))
           s == InOrder(ReadingsOf(b))
           w == Walked([base |-> FirstReading(b), km |-> NoKm], s, n)
<1>1. n \in Nat /\ s \in [1..n -> Reading] /\ Len(s) = n
  BY ReadingsType, InOrderIs
<1>2. PICK R : R = ReadingsOf(b)
  OBVIOUS
<1>3. PICK start : start = FirstReading(b)
  OBVIOUS
<1>4. DailyDistance(start, R) =
          (CHOOSE u : u = [k \in 0..Len(InOrder(R)) |->
                              IF k = 0 THEN [base |-> start, km |-> NoKm]
                              ELSE AddReading(u[k - 1], InOrder(R)[k])])[Len(InOrder(R))].km
  BY DEF DailyDistance
<1>5. KmPerDay(b) = DailyDistance(start, R)
  BY <1>2, <1>3 DEF KmPerDay
<1>6. DailyDistance(start, R) = w[n].km
  <2>1. Len(InOrder(R)) = n /\ InOrder(R) = s
    BY <1>1, <1>2
  <2>2. DailyDistance(start, R) = Walked([base |-> start, km |-> NoKm], InOrder(R), Len(InOrder(R)))[Len(InOrder(R))].km
    BY <1>4 DEF Walked
  <2>3. w = Walked([base |-> start, km |-> NoKm], s, n)
    BY <1>3
  <2> HIDE DEF n, s, w
  <2> QED
    BY <2>1, <2>2, <2>3, Zenon
<1> QED
  BY <1>1, <1>5, <1>6

LEMMA StartType ==
    ASSUME FleetTypeOK, NEW b \in Motorcycles
    PROVE  /\ FirstReading(b) \in Reading \union {None}
           /\ FirstReading(b) # None => /\ FirstReading(b) \in Reading /\ OwnedFrom(b) \in Day
                                 /\ FirstReading(b)[1] = OwnedFrom(b)
           /\ FirstReading(b) = None => OwnedFrom(b) = None
<1>1. OwnedFrom(b) \in Day \union {None}
  BY OwnedFromType
<1>2. bikes[b].initial \in Nat
  BY DEF FleetTypeOK, BikeRow
<1>3. CASE OwnedFrom(b) = None
  BY <1>3 DEF FirstReading
<1>4. CASE OwnedFrom(b) # None
  <2>1. FirstReading(b) = <<OwnedFrom(b), bikes[b].initial>> /\ OwnedFrom(b) \in Day
    BY <1>1, <1>4 DEF FirstReading
  <2>2. FirstReading(b) \in Reading /\ FirstReading(b)[1] = OwnedFrom(b)
    BY <1>2, <2>1 DEF Reading
  <2> QED
    BY <2>1, <2>2, ReadingNot
<1> QED
  BY <1>3, <1>4

LEMMA KmType ==
    ASSUME FleetTypeOK, NEW b \in Motorcycles
    PROVE  KmPerDay(b) \in [Day -> Nat]
<1>1. PICK n : n = Cardinality(ReadingsOf(b))
  OBVIOUS
<1>2. PICK s : s = InOrder(ReadingsOf(b))
  OBVIOUS
<1>3. PICK a : a = [base |-> FirstReading(b), km |-> NoKm]
  OBVIOUS
<1>4. n \in Nat /\ s \in [1..n -> Reading] /\ KmPerDay(b) = Walked(a, s, n)[n].km
  BY <1>1, <1>2, <1>3, KmIs
<1>5. a \in Sum
  BY <1>3, StartType DEF Sum, NoKm
<1>6. n \in 0..n
  BY <1>4
<1>7. Walked(a, s, n)[n] \in Sum
  BY <1>4, <1>5, <1>6, WalkType
<1> QED
  BY <1>4, <1>7 DEF Sum

LEMMA KmInIs ==
    ASSUME FleetTypeOK, NEW b \in Motorcycles, NEW days \in SUBSET Day
    PROVE  /\ KmIn(b, days) = Total(Part(KmPerDay(b), days))
           /\ KmIn(b, days) \in Int
           /\ KmPerDay(b) \in [Day -> Int] /\ IsFiniteSet(Day)
<1>1. KmPerDay(b) \in [Day -> Int] /\ IsFiniteSet(Day)
  BY KmType, DayType
<1>2. KmIn(b, days) = Total(Part(KmPerDay(b), days))
  BY DEF KmIn, Part
<1>3. Total(Part(KmPerDay(b), days)) \in Int
  <2>1. PICK km \in [Day -> Int] : km = KmPerDay(b)
    BY <1>1
  <2>2. IsFiniteSet(days) /\ Part(km, days) \in [days -> Int]
    BY <1>1, PartType
  <2> QED
    BY <2>1, <2>2, TotalType
<1> QED
  BY <1>1, <1>2, <1>3

LEMMA ForwardsOnce ==
    ASSUME FleetTypeOK, NEW b \in Motorcycles, FirstReading(b) # None, NEW x \in Forwards(b),
           x[1] >= FirstReading(b)[1]
    PROVE  KmIn(b, 0..x[1]) = Unit * (x[2] - FirstReading(b)[2])
<1>1. PICK R : R = ReadingsOf(b)
  OBVIOUS
<1>2. PICK n : n = Cardinality(R)
  OBVIOUS
<1>3. PICK s : s = InOrder(R)
  OBVIOUS
<1>4. PICK start \in Reading : start = FirstReading(b)
  BY StartType
<1>5. PICK w : w = Walked([base |-> start, km |-> NoKm], s, n)
  OBVIOUS
<1>6. n \in Nat /\ s \in [1..n -> Reading] /\ KmPerDay(b) = w[n].km
  BY <1>1, <1>2, <1>3, <1>4, <1>5, KmIs
<1>7. /\ x \in R /\ x[2] >= start[2] /\ x[1] >= start[1]
      /\ \A y \in R : EarlierReading(y, x) \/ y[1] = x[1] => y[2] <= x[2]
  BY <1>1, <1>4 DEF Forwards
<1>8. /\ s \in [1..n -> R]
      /\ \A y \in R : \E k \in 1..n : s[k] = y
      /\ \A i, j \in 1..n : i < j => EarlierReading(s[i], s[j])
  BY <1>1, <1>2, <1>3, ReadingsType, InOrderIs
<1>9. PICK j \in 1..n : s[j] = x
  BY <1>7, <1>8
<1>10. \A i \in 1..n : EarlierReading(s[i], s[j]) \/ s[i][1] = s[j][1] => s[i][2] <= s[j][2]
  BY <1>7, <1>8, <1>9
<1>11. w[j].base = x /\ \A d \in Day : d <= x[1] => w[n].km[d] = w[j].km[d]
  <2>1. s[j][1] >= start[1] /\ s[j][2] >= start[2]
    BY <1>7, <1>9
  <2>2. w[j].base = s[j] /\ \A d \in Day : d <= s[j][1] => w[n].km[d] = w[j].km[d]
    <3>1. GoesForwards(s, n, start, j)
      BY <1>8, <1>10, <2>1 DEF GoesForwards
    <3> QED
      BY <1>5, <1>6, <3>1, WalkAfter
  <2> QED
    BY <1>9, <2>2
<1>12. Gone(w[j], s, start, j)
  <2>1. j \in 0..n
    BY <1>6
  <2> QED
    BY <1>5, <1>6, <2>1, WalkedGone
<1>13. PICK km \in [Day -> Int] : km = w[j].km
  BY <1>12 DEF Gone, Sum
<1>14. /\ Total(km) = Unit * (x[2] - start[2])
       /\ \A d \in Day : d > x[1] => km[d] = 0
  BY <1>11, <1>12, <1>13 DEF Gone
<1>15. PICK days \in SUBSET Day : days = 0..x[1] /\ \A d \in Day : d \in days <=> d <= x[1]
  <2>1. x \in Reading
    BY <1>6, <1>9
  <2>2. x[1] \in Day /\ x[1] \in Nat /\ LastDay \in Nat
    BY <2>1, ReadingNot, FleetAssumption
  <2> QED
    BY <2>2 DEF Day
<1>16. Total(km) = Total(Part(km, days))
  <2>1. x[1] \in Nat
    BY <1>6, <1>9, ReadingNot
  <2>2. \A d \in Day \ days : km[d] = 0
    BY <1>14, <1>15, <2>1, DayType
  <2> QED
    BY <2>2, DayType, TotalSupport
<1>17. Part(km, days) = Part(KmPerDay(b), days)
  <2>1. \A d \in days : km[d] = KmPerDay(b)[d]
    BY <1>6, <1>11, <1>13, <1>15
  <2> QED
    BY <2>1, Zenon DEF Part
<1>18. KmIn(b, days) = Total(Part(KmPerDay(b), days))
  BY KmInIs
<1> QED
  BY <1>4, <1>14, <1>15, <1>16, <1>17, <1>18

LEMMA GreatestIs ==
    ASSUME NEW S, NEW m \in S, S \subseteq Int, \A n \in S : n <= m
    PROVE  Max(S) = m
<1>1. Max(S) \in S /\ \A n \in S : Max(S) >= n
  <2>1. \E x \in S : \A y \in S : x >= y
    <3>1. \A y \in S : m >= y
      OBVIOUS
    <3> QED
      BY <3>1
  <2> QED
    BY <2>1, Zenon DEF Max
<1>2. Max(S) >= m /\ Max(S) <= m /\ Max(S) \in Int /\ m \in Int
  BY <1>1
<1> QED
  BY <1>2

LEMMA AllDriven ==
    ASSUME FleetTypeOK, NEW b \in Motorcycles, FirstReading(b) # None
    PROVE  /\ KmIn(b, Day) =
                 Unit * (Max({FirstReading(b)[2]} \union {x[2] : x \in ReadingsOf(b)}) - FirstReading(b)[2])
           /\ (bikes[b].sold = None \/ bikes[b].sold >= OwnedFrom(b)) =>
                 KmIn(b, {d \in Day : d < OwnedFrom(b)}) = 0
<1>1. PICK R : R = ReadingsOf(b)
  OBVIOUS
<1>2. PICK n : n = Cardinality(R)
  OBVIOUS
<1>3. PICK s : s = InOrder(R)
  OBVIOUS
<1>4. PICK start \in Reading : start = FirstReading(b)
  BY StartType
<1>5. PICK w : w = Walked([base |-> start, km |-> NoKm], s, n)
  OBVIOUS
<1>6. n \in Nat /\ s \in [1..n -> Reading] /\ KmPerDay(b) = w[n].km
  BY <1>1, <1>2, <1>3, <1>4, <1>5, KmIs
<1>7. /\ s \in [1..n -> R] /\ \A y \in R : \E k \in 1..n : s[k] = y
      /\ R \subseteq Reading
  BY <1>1, <1>2, <1>3, ReadingsType, InOrderIs
<1>8. PICK acc : acc = w[n]
  OBVIOUS
<1>9. Gone(acc, s, start, n)
  <2>1. n \in 0..n
    BY <1>6
  <2> QED
    BY <1>5, <1>6, <1>8, <2>1, WalkedGone
<1>10. start[1] \in Nat /\ start[2] \in Nat /\ acc.base[2] \in Nat
  BY <1>9, ReadingNot DEF Gone
<1>11. Max({start[2]} \union {x[2] : x \in R}) = acc.base[2]
  <2> DEFINE S == {start[2]} \union {x[2] : x \in R}
  <2>1. acc.base[2] \in S
    BY <1>7, <1>9 DEF Gone
  <2>2. S \subseteq Int
    BY <1>7, <1>10, ReadingNot
  <2>3. \A m \in S : m <= acc.base[2]
    BY <1>7, <1>9, <1>10 DEF Gone
  <2> HIDE DEF S
  <2>4. Max(S) = acc.base[2]
    BY <2>1, <2>2, <2>3, GreatestIs
  <2> QED
    BY <2>4 DEF S
<1>12. PICK km \in [Day -> Int] : km = KmPerDay(b)
  BY KmInIs
<1>13. km = acc.km /\ Total(km) = Unit * (acc.base[2] - start[2])
  BY <1>6, <1>8, <1>9, <1>12 DEF Gone
<1>14. KmIn(b, Day) = Total(km)
  <2>1. Part(km, Day) = km
    BY PartWhole
  <2>2. KmIn(b, Day) = Total(Part(km, Day))
    BY <1>12, KmInIs
  <2> QED
    BY <2>1, <2>2
<1>15. ASSUME bikes[b].sold = None \/ bikes[b].sold >= OwnedFrom(b)
       PROVE  KmIn(b, {d \in Day : d < OwnedFrom(b)}) = 0
  <2>1. start[1] = OwnedFrom(b) /\ OwnedFrom(b) \in Nat
    BY <1>4, StartType, DayType
  <2>2. \A x \in R : x[1] >= start[1]
    <3> SUFFICES ASSUME NEW x \in R PROVE x[1] >= start[1]
      OBVIOUS
    <3>1. CASE \E r \in Own(b) : x = <<r.day, r.odo>>
      BY <2>1, <3>1, OwnedFromType, DayType
    <3>2. CASE x = <<bikes[b].sold, bikes[b].saleOdo>> /\ bikes[b].sold # None
      BY <1>15, <2>1, <3>2
    <3> QED
      BY <1>1, <3>1, <3>2 DEF ReadingsOf
  <2>3. \A i \in 1..n : s[i][1] >= start[1]
    BY <1>7, <2>2
  <2>4. \A d \in Day : d < start[1] => km[d] = 0
    BY <1>9, <1>13, <2>3 DEF Gone
  <2>5. PICK days \in SUBSET Day : days = {d \in Day : d < OwnedFrom(b)}
    OBVIOUS
  <2>6. IsFiniteSet(days) /\ Part(km, days) \in [days -> Int] /\ \A d \in days : Part(km, days)[d] = 0
    <3>1. \A d \in days : km[d] = 0
      BY <2>1, <2>4, <2>5
    <3>2. IsFiniteSet(days) /\ Part(km, days) \in [days -> Int] /\ \A d \in days : Part(km, days)[d] = km[d]
      <4>1. IsFiniteSet(Day)
        BY DayType
      <4>2. \A S \in SUBSET Day : /\ IsFiniteSet(S) /\ Part(km, S) \in [S -> Int]
                                 /\ \A d \in S : Part(km, S)[d] = km[d]
        BY <4>1, PartType
      <4> QED
        BY <4>2
    <3> QED
      BY <3>1, <3>2
  <2>7. Total(Part(km, days)) = 0
    BY <2>6, TotalZero
  <2> QED
    BY <1>12, <2>5, <2>7, KmInIs
<1> QED
  BY <1>1, <1>4, <1>11, <1>13, <1>14, <1>15

---------------------------------------------------------------------------
\* Days divided into months and years.
LEMMA SameMonthSameYear ==
    ASSUME NEW d \in Nat, NEW e \in Nat, Month(d) = Month(e)
    PROVE  Year(d) = Year(e)
<1>1. YearDays \in Nat /\ YearDays # 0 /\ MonthDays \in Nat /\ MonthDays # 0 /\ YearDays % MonthDays = 0
  BY LogbookAssumption, FleetAssumption
<1>2. PICK c \in Nat : YearDays = MonthDays * c /\ c # 0
  <2>1. YearDays = MonthDays * (YearDays \div MonthDays) /\ YearDays \div MonthDays \in Nat
    BY <1>1
  <2>2. MonthDays * 0 = 0
    BY <1>1
  <2> QED
    BY <1>1, <2>1, <2>2
<1>3. PICK m \in Nat : m = Month(d)
  BY <1>1 DEF Month
<1>4. \A x \in Nat : Month(x) = m => MonthDays * m <= x /\ x < MonthDays * m + MonthDays
  BY <1>1, <1>3 DEF Month
<1>5. PICK q \in Nat : q = m \div c
  BY <1>2
<1>6. c * q <= m /\ m + 1 <= c * q + c
  BY <1>2, <1>5
<1>7. PICK t \in Nat : t = c * q
  BY <1>2
<1>8. MonthDays * t <= MonthDays * m /\ MonthDays * (m + 1) <= MonthDays * (t + c)
  BY <1>1, <1>2, <1>6, <1>7
<1>9. MonthDays * t = YearDays * q /\ MonthDays * (t + c) = YearDays * q + YearDays
  <2>1. MonthDays * t = (MonthDays * c) * q
    BY <1>1, <1>2, <1>7
  <2>2. MonthDays * (t + c) = MonthDays * t + MonthDays * c
    BY <1>1, <1>2
  <2> QED
    BY <1>2, <2>1, <2>2
<1>10. MonthDays * (m + 1) = MonthDays * m + MonthDays
  BY <1>1
<1>11. PICK p \in Nat : p = YearDays * q
  BY <1>1
<1>12. PICK r \in Nat : r = MonthDays * m
  BY <1>1
<1>13. \A x \in Nat : Month(x) = m => p <= x /\ x < p + YearDays
  BY <1>1, <1>4, <1>8, <1>9, <1>10, <1>11, <1>12
<1>14. \A x \in Nat : p <= x /\ x < p + YearDays => x \div YearDays = q
  <2> SUFFICES ASSUME NEW x \in Nat, YearDays * q <= x, x < YearDays * q + YearDays
               PROVE  x \div YearDays = q
    BY <1>11
  <2> QED
    BY <1>1
<1> QED
  BY <1>3, <1>13, <1>14 DEF Year

LEMMA KmDivided ==
    ASSUME FleetTypeOK, NEW b \in Motorcycles, NEW days \in SUBSET Day, NEW E, IsFiniteSet(E),
           NEW h \in [days -> E]
    PROVE  KmIn(b, days) = Total([e \in E |-> KmIn(b, {d \in days : h[d] = e})])
<1>1. PICK km \in [Day -> Int] : km = KmPerDay(b)
  BY KmInIs
<1>2. IsFiniteSet(Day)
  BY DayType
<1>3. PICK f : f = Part(km, days)
  OBVIOUS
<1>4. IsFiniteSet(days) /\ f \in [days -> Int] /\ \A T \in SUBSET days : Part(f, T) = Part(km, T)
  BY <1>2, <1>3, PartType
<1>5. Total(f) = Total([e \in E |-> Total(Part(f, {d \in days : h[d] = e}))])
  BY <1>4, TotalFibres
<1>6. \A e \in E : Total(Part(f, {d \in days : h[d] = e})) = KmIn(b, {d \in days : h[d] = e})
  <2> SUFFICES ASSUME NEW e \in E
               PROVE  Total(Part(f, {d \in days : h[d] = e})) = KmIn(b, {d \in days : h[d] = e})
    OBVIOUS
  <2>1. PICK T \in SUBSET days : T = {d \in days : h[d] = e}
    OBVIOUS
  <2>2. T \in SUBSET Day
    OBVIOUS
  <2>3. KmIn(b, T) = Total(Part(km, T)) /\ Part(f, T) = Part(km, T)
    BY <1>1, <1>4, <2>2, KmInIs
  <2>4. KmIn(b, T) = Total(Part(f, T))
    BY <2>3
  <2> QED
    BY <2>1, <2>4, Zenon
<1>7. [e \in E |-> Total(Part(f, {d \in days : h[d] = e}))]
         = [e \in E |-> KmIn(b, {d \in days : h[d] = e})]
  BY <1>6, Zenon
<1>8. KmIn(b, days) = Total(f)
  BY <1>1, <1>3, KmInIs
<1> QED
  BY <1>5, <1>7, <1>8

LEMMA FleetDivided ==
    ASSUME FleetTypeOK, NEW days \in SUBSET Day, NEW E, IsFiniteSet(E), NEW h \in [days -> E]
    PROVE  Total([b \in Motorcycles |-> KmIn(b, days)])
               = Total([e \in E |-> Total([b \in Motorcycles |-> KmIn(b, {d \in days : h[d] = e})])])
<1> DEFINE F == [e \in E |-> [b \in Motorcycles |-> KmIn(b, {d \in days : h[d] = e})]]
<1>1. F \in [E -> [Motorcycles -> Int]]
  <2>1. \A e \in E : \A b \in Motorcycles : KmIn(b, {d \in days : h[d] = e}) \in Int
    <3> SUFFICES ASSUME NEW e \in E, NEW b \in Motorcycles
                 PROVE  KmIn(b, {d \in days : h[d] = e}) \in Int
      OBVIOUS
    <3>1. PICK T \in SUBSET Day : T = {d \in days : h[d] = e}
      OBVIOUS
    <3>2. KmIn(b, T) \in Int
      BY KmInIs
    <3> QED
      BY <3>1, <3>2, Zenon
  <2> QED
    BY <2>1
<1>2. IsFiniteSet(Motorcycles)
  BY LogbookAssumption
<1>3. Total([e \in E |-> Total(F[e])]) = Total([b \in Motorcycles |-> Total([e \in E |-> F[e][b]])])
  <2> HIDE DEF F
  <2> QED
    BY <1>1, <1>2, TotalSwap
<1>4. [e \in E |-> Total(F[e])]
         = [e \in E |-> Total([b \in Motorcycles |-> KmIn(b, {d \in days : h[d] = e})])]
  OBVIOUS
<1>5. \A b \in Motorcycles : Total([e \in E |-> F[e][b]]) = KmIn(b, days)
  <2> SUFFICES ASSUME NEW b \in Motorcycles PROVE Total([e \in E |-> F[e][b]]) = KmIn(b, days)
    OBVIOUS
  <2>1. [e \in E |-> F[e][b]] = [e \in E |-> KmIn(b, {d \in days : h[d] = e})]
    OBVIOUS
  <2>2. KmIn(b, days) = Total([e \in E |-> KmIn(b, {d \in days : h[d] = e})])
    BY KmDivided
  <2> HIDE DEF F
  <2> QED
    BY <2>1, <2>2, Zenon
<1>6. [b \in Motorcycles |-> Total([e \in E |-> F[e][b]])] = [b \in Motorcycles |-> KmIn(b, days)]
  <2> HIDE DEF F
  <2> QED
    BY <1>5, Zenon
<1> HIDE DEF F
<1> QED
  BY <1>3, <1>4, <1>6, Zenon

LEMMA MonthsOfYear ==
    ASSUME FleetTypeOK, NEW y
    PROVE  FleetYear(y) = Total([m \in {Month(d) : d \in DaysOfYear(y)} |-> FleetMonth(m)])
<1> DEFINE days == DaysOfYear(y)
           h == [d \in days |-> Month(d)]
           M == {Month(d) : d \in days}
<1>1. days \in SUBSET Day /\ IsFiniteSet(days) /\ days \subseteq Nat
  <2>1. days \in SUBSET Day
    BY DEF DaysOfYear
  <2> HIDE DEF days
  <2> QED
    BY <2>1, DayType, FS_Subset
<1>2. IsFiniteSet(M)
  <2>1. M = {h[d] : d \in days}
    OBVIOUS
  <2>2. h = [d \in days |-> h[d]]
    OBVIOUS
  <2> HIDE DEF h, days, M
  <2> QED
    BY <1>1, <2>1, <2>2, ImageFinite
<1>3. h \in [days -> M]
  OBVIOUS
<1>4. \A m \in M : {d \in days : h[d] = m} = DaysOfMonth(m)
  <2> SUFFICES ASSUME NEW m \in M, NEW d
               PROVE  (d \in days /\ h[d] = m) <=> d \in DaysOfMonth(m)
    OBVIOUS
  <2>1. PICK e \in days : m = Month(e)
    OBVIOUS
  <2>2. d \in Day /\ Month(d) = m => Year(d) = y
    <3> SUFFICES ASSUME d \in Day, Month(d) = m PROVE Year(d) = y
      OBVIOUS
    <3>1. d \in Nat /\ e \in Nat /\ Year(e) = y
      BY <1>1, DayType, DaysOfYearIs
    <3> QED
      BY <2>1, <3>1, SameMonthSameYear
  <2> QED
    BY <2>2, DaysOfYearIs DEF DaysOfMonth
<1>5. Total([b \in Motorcycles |-> KmIn(b, days)])
         = Total([m \in M |-> Total([b \in Motorcycles |-> KmIn(b, {d \in days : h[d] = m})])])
  <2> HIDE DEF days, h, M
  <2> QED
    BY <1>1, <1>2, <1>3, FleetDivided
<1>6. [m \in M |-> Total([b \in Motorcycles |-> KmIn(b, {d \in days : h[d] = m})])]
         = [m \in M |-> FleetMonth(m)]
  <2>1. \A m \in M : Total([b \in Motorcycles |-> KmIn(b, {d \in days : h[d] = m})]) = FleetMonth(m)
    <3> HIDE DEF days, h, M
    <3> QED
      BY <1>4, Zenon DEF FleetMonth
  <2> HIDE DEF days, h, M
  <2> QED
    BY <2>1, Zenon
<1>7. FleetYear(y) = Total([b \in Motorcycles |-> KmIn(b, days)])
  BY DEF FleetYear
<1> QED
  BY <1>5, <1>6, <1>7

LEMMA YearsShownHoldAll ==
    ASSUME FleetTypeOK
    PROVE  TotalKm = Total([b \in Motorcycles |-> KmIn(b, {d \in Day : Year(d) <= CurrentYear})])
<1> DEFINE till == {d \in Day : Year(d) <= CurrentYear}
           days == {d \in till : FirstYear <= Year(d)}
           h == [d \in days |-> Year(d)]
<1>1. days \in SUBSET Day /\ till \in SUBSET Day /\ days \in SUBSET till
  OBVIOUS
<1>2. \A d \in Day : Year(d) \in Nat
  BY DayType, YearType
<1>3. h \in [days -> YearsShown]
  BY <1>2, ShownType
<1>4. \A y \in YearsShown : {d \in days : h[d] = y} = DaysOfYear(y)
  BY ShownType, DaysOfYearIs
<1>5. Total([b \in Motorcycles |-> KmIn(b, days)])
         = Total([y \in YearsShown |-> Total([b \in Motorcycles |-> KmIn(b, {d \in days : h[d] = y})])])
  <2> HIDE DEF days, h
  <2> QED
    BY <1>1, <1>3, ShownType, FleetDivided
<1>6. [y \in YearsShown |-> Total([b \in Motorcycles |-> KmIn(b, {d \in days : h[d] = y})])]
         = [y \in YearsShown |-> FleetYear(y)]
  <2>1. \A y \in YearsShown : Total([b \in Motorcycles |-> KmIn(b, {d \in days : h[d] = y})]) = FleetYear(y)
    <3> HIDE DEF days, h
    <3> QED
      BY <1>4, Zenon DEF FleetYear
  <2> HIDE DEF days, h
  <2> QED
    BY <2>1, Zenon
<1>7. \A b \in Motorcycles : KmIn(b, days) = KmIn(b, till)
  <2> SUFFICES ASSUME NEW b \in Motorcycles PROVE KmIn(b, days) = KmIn(b, till)
    OBVIOUS
  <2>1. PICK km \in [Day -> Int] : km = KmPerDay(b)
    BY KmInIs
  <2>2. KmIn(b, days) = Total(Part(km, days)) /\ KmIn(b, till) = Total(Part(km, till))
    BY <1>1, <2>1, KmInIs
  <2>3. \A d \in till \ days : km[d] = 0
    <3> SUFFICES ASSUME NEW d \in till \ days PROVE km[d] = 0
      OBVIOUS
    <3>1. d \in Day /\ Year(d) < FirstYear
      BY <1>2, FirstYearIs
    <3>2. d \notin BikeDays(b)
      BY <1>2, <3>1, FirstYearIs
    <3>3. ~(KmPerDay(b)[d] > 0)
      BY <3>1, <3>2 DEF BikeDays
    <3>4. KmPerDay(b)[d] \in Nat
      BY <3>1, KmType
    <3> QED
      BY <2>1, <3>3, <3>4
  <2>4. PICK g : g = Part(km, till)
    OBVIOUS
  <2> HIDE DEF till, days
  <2>5. IsFiniteSet(Day)
    BY DayType
  <2>6. /\ IsFiniteSet(till) /\ g \in [till -> Int] /\ \A d \in till : g[d] = km[d]
        /\ \A T \in SUBSET till : Part(g, T) = Part(km, T)
    BY <1>1, <2>4, <2>5, PartType
  <2>7. Total(g) = Total(Part(g, days))
    BY <1>1, <2>3, <2>6, TotalSupport
  <2>8. Part(g, days) = Part(km, days)
    BY <1>1, <2>6
  <2> QED
    BY <2>2, <2>4, <2>7, <2>8
<1>8. [b \in Motorcycles |-> KmIn(b, days)] = [b \in Motorcycles |-> KmIn(b, till)]
  <2> HIDE DEF till, days
  <2> QED
    BY <1>7, Zenon
<1>9. TotalKm = Total([y \in YearsShown |-> FleetYear(y)])
  BY DEF TotalKm
<1> HIDE DEF h, days
<1> QED
  BY <1>5, <1>6, <1>8, <1>9, Zenon

LEMMA KilometresOnce == FleetTypeOK => EveryKilometreOnce
<1> SUFFICES ASSUME FleetTypeOK PROVE EveryKilometreOnce
  OBVIOUS
<1>1. ASSUME NEW b \in Motorcycles, FirstReading(b) # None
      PROVE  /\ \A x \in Forwards(b) :
                   (x[1] >= FirstReading(b)[1]) => KmIn(b, 0..x[1]) = Unit * (x[2] - FirstReading(b)[2])
             /\ KmIn(b, Day) =
                   Unit * (Max({FirstReading(b)[2]} \union {x[2] : x \in ReadingsOf(b)}) - FirstReading(b)[2])
             /\ (bikes[b].sold = None \/ bikes[b].sold >= OwnedFrom(b)) =>
                   KmIn(b, {d \in Day : d < OwnedFrom(b)}) = 0
  BY <1>1, ForwardsOnce, AllDriven
<1>2. \A y : FleetYear(y) = Total([m \in {Month(d) : d \in DaysOfYear(y)} |-> FleetMonth(m)])
  BY MonthsOfYear
<1> QED
  BY <1>1, <1>2, YearsShownHoldAll DEF EveryKilometreOnce

(* Every kilometre on a bike's odometer is driven once (fleet_analysis.rs,  *)
(* daily_distance), whatever readings there are and however they are dated. *)
THEOREM KilometresAreDrivenOnce == FleetSpec => []EveryKilometreOnce
BY FleetTypeCorrect, KilometresOnce, PTL

---------------------------------------------------------------------------
\* Highest odometers.
LEMMA FiniteMax ==
    ASSUME NEW S \in SUBSET Nat, IsFiniteSet(S), S # {}
    PROVE  Max(S) \in S /\ Max(S) \in Nat /\ \A n \in S : n <= Max(S)
<1> DEFINE G == {T \in SUBSET S : T = {} \/ \E m \in T : \A n \in T : n <= m}
<1>1. {} \in G
  OBVIOUS
<1>2. ASSUME NEW T \in SUBSET S, NEW x \in S \ T, T \in G PROVE T \union {x} \in G
  <2>1. CASE T = {}
    <3>1. \A n \in T \union {x} : n <= x
      BY <2>1
    <3> QED
      BY <3>1
  <2>2. CASE T # {}
    <3>1. PICK m \in T : \A n \in T : n <= m
      BY <1>2, <2>2
    <3>2. CASE x <= m
      <4>1. \A n \in T \union {x} : n <= m
        BY <3>1, <3>2
      <4> QED
        BY <4>1
    <3>3. CASE ~(x <= m)
      <4>1. \A n \in T \union {x} : n <= x
        BY <3>1, <3>3
      <4> QED
        BY <4>1
    <3> QED
      BY <3>2, <3>3
  <2> QED
    BY <2>1, <2>2
<1>3. S \in G
  <2> HIDE DEF G
  <2> QED
    BY <1>1, <1>2, SubsetInduction
<1>4. \E x \in S : \A y \in S : x >= y
  BY <1>3
<1>5. Max(S) \in S /\ \A y \in S : Max(S) >= y
  BY <1>4, Zenon DEF Max
<1> QED
  BY <1>5

\* m is the highest of S.
Highest(m, S) == m \in S /\ S \subseteq Nat /\ \A n \in S : n <= m

LEMMA HighestIs == ASSUME NEW S, NEW m, Highest(m, S) PROVE Max(S) = m
<1>1. m \in S /\ S \subseteq Int /\ \A n \in S : n <= m
  BY DEF Highest
<1> QED
  BY <1>1, GreatestIs

LEMMA HighestExists ==
    ASSUME NEW S \in SUBSET Nat, IsFiniteSet(S), S # {}
    PROVE  Highest(Max(S), S)
BY FiniteMax DEF Highest

\* The odometers of a bike's own records up to a year, and where it started.
OwnTo(b, y) == {r \in Own(b) : Year(r.day) <= y}
OdosTo(b, y) == {bikes[b].initial} \union {r.odo : r \in OwnTo(b, y)}

LEMMA OdosToIs ==
    ASSUME FleetTypeOK, NEW b \in Motorcycles, NEW y
    PROVE  Highest(Max(OdosTo(b, y)), OdosTo(b, y))
<1> DEFINE S == OwnTo(b, y)
           f == [r \in S |-> r.odo]
<1>1. IsFiniteSet(S) /\ \A r \in S : r.odo \in Nat
  BY OwnRecords, FS_Subset DEF OwnTo
<1>2. bikes[b].initial \in Nat
  BY DEF FleetTypeOK, BikeRow
<1>3. IsFiniteSet({f[r] : r \in S})
  <2>1. f = [r \in S |-> f[r]]
    OBVIOUS
  <2> HIDE DEF S, f
  <2> QED
    BY <1>1, <2>1, ImageFinite
<1>4. {f[r] : r \in S} = {r.odo : r \in S}
  OBVIOUS
<1>5. IsFiniteSet(OdosTo(b, y))
  <2>1. OdosTo(b, y) = {f[r] : r \in S} \union {bikes[b].initial}
    BY <1>4 DEF OdosTo
  <2> HIDE DEF S, f
  <2> QED
    BY <1>3, <2>1, FS_AddElement
<1>6. OdosTo(b, y) \in SUBSET Nat /\ OdosTo(b, y) # {}
  BY <1>1, <1>2 DEF OdosTo
<1> QED
  BY <1>5, <1>6, HighestExists

LEMMA HighestUnion ==
    ASSUME NEW A, NEW m, Highest(m, A), NEW B \in SUBSET Nat, NEW n, Highest(n, A \union B)
    PROVE  Highest(n, {m} \union B)
<1>1. m \in Nat /\ n \in Nat /\ \A k \in A : k <= m
  BY DEF Highest
<1>2. n \in {m} \union B
  <2>1. CASE n \in B
    BY <2>1
  <2>2. CASE n \in A
    BY <1>1, <2>2 DEF Highest
  <2> QED
    BY <2>1, <2>2 DEF Highest
<1> QED
  BY <1>1, <1>2 DEF Highest

---------------------------------------------------------------------------
\* The statistics page: what its years hold.
LastOdoOf(b, p, w) ==
    w = [y \in (p - 1)..CurrentYear |->
            IF y < p THEN bikes[b].initial ELSE Max({w[y - 1]} \union OdoInYear(b, y))]

LEMMA LastOdoIs ==
    ASSUME FleetTypeOK, NEW b \in Motorcycles, bikes[b].purchase # None,
           Year(bikes[b].purchase) <= CurrentYear
    PROVE  /\ PurchaseYear(b) = Year(bikes[b].purchase) /\ PurchaseYear(b) \in Nat
           /\ PurchaseYear(b) <= CurrentYear
           /\ \A y \in (PurchaseYear(b) - 1)..CurrentYear : LastOdo(b)[y] = Max(OdosTo(b, y))
           /\ LastOdo(b)[PurchaseYear(b) - 1] = bikes[b].initial
<1>1. bikes[b].purchase \in Day /\ bikes[b].purchase \in Nat /\ bikes[b].initial \in Nat
  BY DayType DEF FleetTypeOK, BikeRow
<1>2. PICK p \in Nat : p = Year(bikes[b].purchase)
  BY <1>1, YearType
<1>3. PurchaseYear(b) = p /\ p <= CurrentYear
  BY <1>2 DEF PurchaseYear
<1>4. CurrentYear \in Nat
  BY YearType
<1>5. \A r \in Own(b) : r.day \in Nat /\ Year(r.day) \in Nat /\ p <= Year(r.day) /\ r.odo \in Nat
  <2> SUFFICES ASSUME NEW r \in Own(b)
               PROVE  r.day \in Nat /\ Year(r.day) \in Nat /\ p <= Year(r.day) /\ r.odo \in Nat
    OBVIOUS
  <2>1. r.day \in Nat /\ r.odo \in Nat /\ r.day >= bikes[b].purchase
    BY OwnRecords, DayType DEF Own
  <2>2. Year(bikes[b].purchase) <= Year(r.day)
    BY <1>1, <2>1, LogbookAssumption DEF Year
  <2> QED
    BY <1>2, <2>1, <2>2, YearType
<1>6. Max(OdosTo(b, p - 1)) = bikes[b].initial
  <2>1. OwnTo(b, p - 1) = {}
    BY <1>5 DEF OwnTo
  <2>2. OdosTo(b, p - 1) = {bikes[b].initial}
    BY <2>1 DEF OdosTo
  <2>3. Highest(bikes[b].initial, {bikes[b].initial})
    BY <1>1 DEF Highest
  <2> QED
    BY <2>2, <2>3, HighestIs
<1>7. \A y \in p..CurrentYear :
          Max(OdosTo(b, y)) = Max({Max(OdosTo(b, y - 1))} \union OdoInYear(b, y))
  <2> SUFFICES ASSUME NEW y \in p..CurrentYear
               PROVE  Max(OdosTo(b, y)) = Max({Max(OdosTo(b, y - 1))} \union OdoInYear(b, y))
    OBVIOUS
  <2>1. PICK m : m = Max(OdosTo(b, y - 1))
    OBVIOUS
  <2>2. PICK n : n = Max(OdosTo(b, y))
    OBVIOUS
  <2>3. PICK A : A = OdosTo(b, y - 1)
    OBVIOUS
  <2>4. PICK B : B = OdoInYear(b, y)
    OBVIOUS
  <2>5. OdosTo(b, y) = A \union B
    <3>1. y \in Nat
      BY <1>4
    <3>2. \A r \in Own(b) : Year(r.day) <= y <=> Year(r.day) <= y - 1 \/ Year(r.day) = y
      BY <1>5, <3>1
    <3> QED
      BY <2>3, <2>4, <3>2 DEF OdosTo, OwnTo, OdoInYear
  <2>6. Highest(m, A) /\ Highest(n, A \union B)
    BY <2>1, <2>2, <2>3, <2>5, OdosToIs
  <2>7. B \in SUBSET Nat
    BY <1>5, <2>4 DEF OdoInYear
  <2>8. Highest(n, {m} \union B)
    BY <2>6, <2>7, HighestUnion
  <2>9. Max({m} \union B) = n
    BY <2>8, HighestIs
  <2> QED
    BY <2>1, <2>2, <2>4, <2>9
<1>8. PICK w : LastOdoOf(b, p, w)
  <2>1. PICK w : w = [y \in (p - 1)..CurrentYear |-> Max(OdosTo(b, y))]
    OBVIOUS
  <2>2. \A y \in (p - 1)..CurrentYear :
            w[y] = IF y < p THEN bikes[b].initial ELSE Max({w[y - 1]} \union OdoInYear(b, y))
    <3> SUFFICES ASSUME NEW y \in (p - 1)..CurrentYear
                 PROVE  w[y] = IF y < p THEN bikes[b].initial
                               ELSE Max({w[y - 1]} \union OdoInYear(b, y))
      OBVIOUS
    <3>1. CASE y = p - 1
      BY <1>6, <2>1, <3>1
    <3>2. CASE y \in p..CurrentYear
      <4>1. y - 1 \in (p - 1)..CurrentYear /\ ~(y < p)
        BY <1>4, <3>2
      <4>2. w[y - 1] = Max(OdosTo(b, y - 1)) /\ w[y] = Max(OdosTo(b, y))
        BY <2>1, <4>1
      <4> QED
        BY <1>7, <3>2, <4>1, <4>2
    <3> QED
      BY <1>4, <3>1, <3>2
  <2>3. LastOdoOf(b, p, w)
    BY <2>1, <2>2 DEF LastOdoOf
  <2> QED
    BY <2>3
<1>9. LastOdo(b) = CHOOSE u : u = [y \in (PurchaseYear(b) - 1)..CurrentYear |->
              IF y < PurchaseYear(b) THEN bikes[b].initial
              ELSE Max({u[y - 1]} \union OdoInYear(b, y))]
  BY DEF LastOdo
<1>10. LastOdo(b) = CHOOSE u : LastOdoOf(b, p, u)
  BY <1>3, <1>9 DEF LastOdoOf
<1>11. PICK last : last = LastOdo(b)
  OBVIOUS
<1>12. LastOdoOf(b, p, last)
  BY <1>8, <1>10, <1>11, Zenon
<1>13. \A y \in (p - 1)..CurrentYear :
           last[y] = IF y < p THEN bikes[b].initial ELSE Max({last[y - 1]} \union OdoInYear(b, y))
  BY <1>12 DEF LastOdoOf
<1>14. PICK n \in Nat : n = CurrentYear - (p - 1)
  BY <1>3, <1>4
<1> DEFINE G == {k \in 0..n : last[p - 1 + k] = Max(OdosTo(b, p - 1 + k))}
<1>15. last[p - 1] = bikes[b].initial
  <2>1. p - 1 \in (p - 1)..CurrentYear /\ p - 1 < p
    BY <1>3, <1>4
  <2> QED
    BY <1>13, <2>1
<1>16. 0 \in G
  <2>1. p - 1 + 0 = p - 1
    OBVIOUS
  <2> QED
    BY <1>6, <1>15, <2>1
<1>17. ASSUME NEW k \in 0..(n - 1), k \in G PROVE k + 1 \in G
  <2>1. PICK y \in p..CurrentYear : y = p - 1 + (k + 1)
    BY <1>4, <1>14
  <2>2. /\ y - 1 = p - 1 + k /\ y \in (p - 1)..CurrentYear /\ ~(y < p)
    BY <1>4, <2>1
  <2>3. last[y] = Max({last[y - 1]} \union OdoInYear(b, y))
    BY <1>13, <2>2
  <2>4. last[y - 1] = Max(OdosTo(b, y - 1))
    BY <1>17, <2>2
  <2>5. last[y] = Max(OdosTo(b, y))
    BY <1>7, <2>3, <2>4
  <2> QED
    BY <2>1, <2>5
<1>18. \A k \in 0..n : k \in G
  <2> HIDE DEF G
  <2> QED
    BY <1>16, <1>17, UpTo
<1>19. \A y \in (p - 1)..CurrentYear : last[y] = Max(OdosTo(b, y))
  <2> SUFFICES ASSUME NEW y \in (p - 1)..CurrentYear PROVE last[y] = Max(OdosTo(b, y))
    OBVIOUS
  <2>1. PICK k \in 0..n : y = p - 1 + k
    <3>1. y - (p - 1) \in 0..n /\ y = p - 1 + (y - (p - 1))
      BY <1>4, <1>14
    <3> QED
      BY <3>1
  <2>2. k \in G
    BY <1>18
  <2> QED
    BY <2>1, <2>2
<1> QED
  BY <1>2, <1>3, <1>11, <1>15, <1>19

Differences(f, g, p, c) ==
    /\ \A y \in (p - 1)..c : g[y] \in Int
    /\ f = [y \in p..c |-> g[y] - g[y - 1]]

LEMMA Telescope ==
    ASSUME NEW p \in Int, NEW c \in Int, p <= c, NEW g, NEW f, Differences(f, g, p, c)
    PROVE  Total(f) = g[c] - g[p - 1]
<1> DEFINE D == p..c
           n == c - (p - 1)
           upto(k) == p..(p - 1 + k)
           G == {k \in 0..n : Total(Part(f, upto(k))) = g[p - 1 + k] - g[p - 1]}
<1>1. IsFiniteSet(D) /\ n \in Nat
  BY FS_Interval
<1>2. f \in [D -> Int] /\ \A y \in D : f[y] = g[y] - g[y - 1]
  <2>1. \A y \in D : y \in (p - 1)..c /\ y - 1 \in (p - 1)..c
    OBVIOUS
  <2>2. \A y \in D : g[y] - g[y - 1] \in Int
    BY <2>1 DEF Differences
  <2> QED
    BY <2>2 DEF Differences
<1>3. \A y \in (p - 1)..c : g[y] \in Int
  BY DEF Differences
<1>4. 0 \in G
  <2>1. upto(0) = {} /\ p - 1 + 0 = p - 1 /\ g[p - 1] \in Int
    BY <1>3
  <2>2. Total(Part(f, upto(0))) = 0
    <3> HIDE DEF upto
    <3> QED
      BY <2>1, PartNone
  <2>3. g[p - 1 + 0] - g[p - 1] = 0
    BY <2>1
  <2> QED
    BY <1>1, <2>2, <2>3
<1>5. ASSUME NEW k \in 0..(n - 1), k \in G PROVE k + 1 \in G
  <2>1. PICK y \in D : y = p - 1 + (k + 1)
    OBVIOUS
  <2>2. /\ y - 1 = p - 1 + k /\ y \notin upto(k) /\ upto(k + 1) = upto(k) \union {y}
        /\ upto(k) \in SUBSET D
    <3>1. y - 1 = p - 1 + k /\ y \notin upto(k)
      BY <2>1
    <3>2. upto(k + 1) = upto(k) \union {y}
      BY <2>1
    <3>3. upto(k) \in SUBSET D
      OBVIOUS
    <3> QED
      BY <3>1, <3>2, <3>3
  <2>3. PICK T \in SUBSET D : T = upto(k) /\ y \notin T
    BY <2>2
  <2>4. Total(Part(f, T \union {y})) = f[y] + Total(Part(f, T))
    <3>1. y \in D \ T
      BY <2>3
    <3>2. IsFiniteSet(D) /\ f \in [D -> Int]
      BY <1>1, <1>2
    <3> HIDE DEF D
    <3> QED
      BY <3>1, <3>2, PartStep
  <2>5. Total(Part(f, T)) = g[y - 1] - g[p - 1]
    BY <1>5, <2>2, <2>3
  <2>6. f[y] = g[y] - g[y - 1] /\ g[y] \in Int /\ g[y - 1] \in Int /\ g[p - 1] \in Int
    BY <1>2, <1>3
  <2>7. Total(Part(f, upto(k + 1))) = g[y] - g[p - 1]
    <3>1. Total(Part(f, upto(k + 1))) = Total(Part(f, T \union {y}))
      BY <2>2, <2>3
    <3> HIDE DEF upto, D
    <3> QED
      BY <2>4, <2>5, <2>6, <3>1
  <2> QED
    BY <2>1, <2>7
<1>6. \A k \in 0..n : k \in G
  <2> HIDE DEF G
  <2> QED
    BY <1>1, <1>4, <1>5, UpTo
<1>7. n \in G /\ upto(n) = D /\ p - 1 + n = c
  <2>1. n \in 0..n /\ upto(n) = D /\ p - 1 + n = c
    BY <1>1
  <2> HIDE DEF G, n, D, upto
  <2> QED
    BY <1>6, <2>1
<1>8. Part(f, D) = f
  <2> HIDE DEF D
  <2> QED
    BY <1>2, PartWhole
<1> QED
  BY <1>7, <1>8

---------------------------------------------------------------------------
\* One bike on three pages.
SoldTogether == \A b \in Motorcycles : bikes[b].sold = None => bikes[b].saleOdo = None

LEMMA SoldTogetherInit == FleetInit(Day \union {None}, Nat, Nat) => SoldTogether
<1> SUFFICES ASSUME FleetInit(Day \union {None}, Nat, Nat), NEW b \in Motorcycles
             PROVE  bikes[b].saleOdo = None
  BY DEF SoldTogether
<1>1. \A p, i, r : Bike(p, i, r).saleOdo = None
  BY DEF Bike
<1>2. bikes[b] \in {Bike(p, i, r) : p \in Day \union {None}, i \in Nat, r \in Nat}
  BY DEF FleetInit
<1> QED
  BY <1>1, <1>2

LEMMA SoldTogetherNext == FleetTypeOK /\ SoldTogether /\ [FleetNext]_fleetVars => SoldTogether'
<1> SUFFICES ASSUME FleetTypeOK, SoldTogether, [FleetNext]_fleetVars PROVE SoldTogether'
  OBVIOUS
<1>1. CASE UNCHANGED bikes
  BY <1>1 DEF SoldTogether
<1>2. ASSUME NEW b \in Motorcycles, NEW day \in Day, NEW odo \in Nat \union {None},
             Sell(b, day, odo)
      PROVE  SoldTogether'
  <2>1. PICK k : k = [bikes[b] EXCEPT !.sold = day, !.saleOdo = odo]
    OBVIOUS
  <2>2. bikes' = [bikes EXCEPT ![b] = k]
    BY <1>2, <2>1 DEF Sell
  <2>3. bikes[b] \in BikeRow
    BY DEF FleetTypeOK
  <2>4. k.sold = day
    BY <2>1, <2>3 DEF BikeRow
  <2>5. day # None
    BY DayType, ColumnAssumption
  <2> QED
    BY <2>2, <2>4, <2>5 DEF SoldTogether, FleetTypeOK
<1> QED
  BY <1>1, <1>2 DEF FleetNext, fleetVars, LogRecord, LogExpense

LEMMA PlainIs ==
    ASSUME FleetTypeOK, SoldTogether, NEW b \in Motorcycles, Plain(b)
    PROVE  /\ bikes[b].purchase \in Day /\ bikes[b].purchase # None
           /\ OwnedFrom(b) = bikes[b].purchase /\ OwnedFrom(b) # None
           /\ Year(bikes[b].purchase) <= CurrentYear
           /\ bikes[b].sold = None /\ bikes[b].saleOdo = None
           /\ bikes[b].initial \in Nat /\ bikes[b].reading \in Nat
           /\ \A r \in RecordsOf(b) \ Own(b) : r.odo <= bikes[b].initial
<1>1. bikes[b] \in BikeRow
  BY DEF FleetTypeOK
<1>2. bikes[b].purchase # None /\ bikes[b].sold = None
  BY DEF Plain
<1> QED
  BY <1>1, <1>2 DEF Plain, OwnedFrom, SoldTogether, BikeRow

LEMMA DistancesAgree ==
    ASSUME FleetTypeOK, SoldTogether, NEW b \in Motorcycles, Plain(b), NothingAhead(b)
    PROVE  LET overall == DistanceOverall(b)
               yearly == YearlyDistance(b)
               home == CurrentOdo(b) - bikes[b].initial
           IN /\ KmIn(b, Day) = Unit * overall
              /\ overall = Total(yearly)
              /\ home = Max({overall, bikes[b].reading - bikes[b].initial})
              /\ OdoThisYear(b) - yearly[CurrentYear] = home - overall
<1>1. PICK initial \in Nat : initial = bikes[b].initial
  BY PlainIs
<1>2. PICK reading \in Nat : reading = bikes[b].reading
  BY PlainIs
<1>3. PICK c \in Nat : c = CurrentYear
  BY YearType
<1>4. PICK p \in Nat : p = PurchaseYear(b) /\ p <= c
  BY <1>3, PlainIs, LastOdoIs
<1>5. PICK last : last = LastOdo(b)
  OBVIOUS
<1>6. /\ \A y \in (p - 1)..c : last[y] = Max(OdosTo(b, y))
      /\ last[p - 1] = initial
  BY <1>1, <1>3, <1>4, <1>5, PlainIs, LastOdoIs
<1>7. \A y \in (p - 1)..c : last[y] \in Nat /\ Highest(last[y], OdosTo(b, y))
  <2>1. \A y : Highest(Max(OdosTo(b, y)), OdosTo(b, y))
    BY OdosToIs
  <2>2. \A y : Max(OdosTo(b, y)) \in Nat
    BY <2>1 DEF Highest
  <2> QED
    BY <1>6, <2>1, <2>2
<1>8. c \in (p - 1)..c /\ c - 1 \in (p - 1)..c
  BY <1>4
<1>9. PICK top \in Nat : top = last[c]
  BY <1>7, <1>8
<1>10. Highest(top, OdosTo(b, c))
  BY <1>7, <1>8, <1>9
<1>11. DistanceOverall(b) = top - initial
  BY <1>1, <1>3, <1>5, <1>9 DEF DistanceOverall
<1>12. \A r \in RecordsOf(b) : /\ r.odo \in Nat /\ r.day \in Day /\ Year(r.day) \in Nat /\ Year(r.day) <= c
                               /\ r \in Own(b) \/ r.odo <= initial
  BY <1>1, <1>3, OwnRecords, PlainIs, DayType, YearType DEF NothingAhead
<1>13. \A r \in Own(b) : r \in RecordsOf(b)
  BY OwnRecords
<1>14. top >= initial /\ \A r \in RecordsOf(b) : r.odo <= top
  <2>1. initial \in OdosTo(b, c) /\ \A r \in Own(b) : r.odo \in OdosTo(b, c)
    BY <1>1, <1>12, <1>13 DEF OdosTo, OwnTo
  <2>2. top >= initial /\ \A r \in Own(b) : r.odo <= top
    BY <1>10, <2>1 DEF Highest
  <2> QED
    BY <1>12, <2>2
<1>15. top = initial \/ \E r \in Own(b) : top = r.odo
  BY <1>1, <1>10 DEF Highest, OdosTo, OwnTo
<1>16. KmIn(b, Day) = Unit * (top - initial)
  <2>1. FirstReading(b) = <<bikes[b].purchase, initial>>
    BY <1>1, PlainIs DEF FirstReading
  <2>2. FirstReading(b)[2] = initial
    BY <2>1
  <2>3. FirstReading(b) # None
    BY <2>1, <1>1, PlainIs, ReadingNot DEF Reading
  <2>4. \A x : x \in ReadingsOf(b) <=> \E r \in Own(b) : r.odo > 0 /\ x = <<r.day, r.odo>>
    BY PlainIs DEF ReadingsOf
  <2> DEFINE S == {initial} \union {x[2] : x \in ReadingsOf(b)}
  <2>5. \A n : n \in S <=> n = initial \/ \E r \in Own(b) : r.odo > 0 /\ n = r.odo
    <3>1. \A n : (\E x \in ReadingsOf(b) : n = x[2]) <=> \E r \in Own(b) : r.odo > 0 /\ n = r.odo
      <4> SUFFICES ASSUME NEW n
                   PROVE  (\E x \in ReadingsOf(b) : n = x[2]) <=> \E r \in Own(b) : r.odo > 0 /\ n = r.odo
        OBVIOUS
      <4>1. ASSUME NEW x \in ReadingsOf(b), n = x[2] PROVE \E r \in Own(b) : r.odo > 0 /\ n = r.odo
        BY <2>4, <4>1
      <4>2. ASSUME NEW r \in Own(b), r.odo > 0, n = r.odo PROVE \E x \in ReadingsOf(b) : n = x[2]
        <5>1. PICK x : x = <<r.day, r.odo>>
          OBVIOUS
        <5>2. x \in ReadingsOf(b) /\ n = x[2]
          BY <2>4, <4>2, <5>1
        <5> QED
          BY <5>2
      <4> QED
        BY <4>1, <4>2
    <3> QED
      BY <3>1
  <2> HIDE DEF S
  <2>6. Highest(top, S)
    <3>1. S \subseteq Nat
      BY <1>12, <1>13, <2>5
    <3>2. \A n \in S : n <= top
      BY <1>13, <1>14, <2>5
    <3>3. top \in S
      BY <1>12, <1>13, <1>14, <1>15, <2>5
    <3> QED
      BY <3>1, <3>2, <3>3 DEF Highest
  <2>7. Max(S) = top
    BY <2>6, HighestIs
  <2>8. KmIn(b, Day) = Unit * (Max({FirstReading(b)[2]} \union {x[2] : x \in ReadingsOf(b)}) - FirstReading(b)[2])
    BY <2>3, AllDriven
  <2>9. KmIn(b, Day) = Unit * (Max(S) - initial)
    BY <2>2, <2>8, Zenon DEF S
  <2> QED
    BY <2>7, <2>9
<1>17. PICK yearly : yearly = [y \in p..c |-> last[y] - last[y - 1]]
  OBVIOUS
<1>18. YearlyDistance(b) = yearly
  BY <1>3, <1>4, <1>5, <1>17 DEF YearlyDistance
<1>19. Total(yearly) = top - initial
  <2>1. \A y \in (p - 1)..c : last[y] \in Int
    BY <1>7
  <2>2. Total(yearly) = last[c] - last[p - 1]
    <3>1. Differences(yearly, last, p, c)
      BY <1>17, <2>1 DEF Differences
    <3> QED
      BY <1>4, <3>1, Telescope
  <2> QED
    BY <1>6, <1>9, <2>2
<1>20. PICK high \in Nat : high = IF top >= reading THEN top ELSE reading
  OBVIOUS
<1>21. CurrentOdo(b) = high
  <2>1. CurrentOdo(b) = Max({initial, reading} \union OdosOf(b, Day))
    <3>1. ({bikes[b].saleOdo} \ {None}) = {}
      BY PlainIs
    <3>2. {initial, reading} \union OdosOf(b, Day) \union {} = {initial, reading} \union OdosOf(b, Day)
      OBVIOUS
    <3> QED
      BY <1>1, <1>2, <3>1, <3>2 DEF CurrentOdo
  <2> DEFINE S == {initial, reading} \union OdosOf(b, Day)
  <2>2. \A n : n \in S <=> n = initial \/ n = reading \/ \E r \in RecordsOf(b) : n = r.odo
    BY <1>12 DEF OdosOf
  <2> HIDE DEF S
  <2>3. Highest(high, S)
    <3>1. S \subseteq Nat
      BY <1>12, <2>2
    <3>2. \A n \in S : n <= high
      BY <1>12, <1>14, <1>20, <2>2
    <3>3. high \in S
      BY <1>13, <1>15, <1>20, <2>2
    <3> QED
      BY <3>1, <3>2, <3>3 DEF Highest
  <2>4. Max(S) = high
    BY <2>3, HighestIs
  <2> QED
    BY <2>1, <2>4 DEF S
<1>22. PICK before \in Nat : before = last[c - 1]
  BY <1>7, <1>8
<1>23. Highest(before, OdosTo(b, c - 1))
  BY <1>7, <1>8, <1>22
<1>24. LastYearOdo(b) = before
  <2> DEFINE S == {initial} \union OdosOf(b, {d \in Day : Year(d) < CurrentYear})
  <2>1. \A n : n \in S <=> n = initial \/ \E r \in RecordsOf(b) : Year(r.day) < c /\ n = r.odo
    BY <1>3, <1>12 DEF OdosOf
  <2>2. initial <= before /\ \A r \in Own(b) : Year(r.day) < c => r.odo <= before
    <3>1. initial \in OdosTo(b, c - 1)
      BY <1>1 DEF OdosTo
    <3>2. \A r \in Own(b) : Year(r.day) < c => r.odo \in OdosTo(b, c - 1)
      BY <1>12, <1>13 DEF OdosTo, OwnTo
    <3> QED
      BY <1>23, <3>1, <3>2 DEF Highest
  <2>3. before = initial \/ \E r \in Own(b) : Year(r.day) < c /\ before = r.odo
    <3>1. \A r \in Own(b) : Year(r.day) <= c - 1 => Year(r.day) < c
      BY <1>12, <1>13
    <3> QED
      BY <1>1, <1>23, <3>1 DEF Highest, OdosTo, OwnTo
  <2> HIDE DEF S
  <2>4. Highest(before, S)
    <3>1. S \subseteq Nat
      BY <1>12, <2>1
    <3>2. \A n \in S : n <= before
      BY <1>12, <2>1, <2>2
    <3>3. before \in S
      BY <1>13, <2>1, <2>3
    <3> QED
      BY <3>1, <3>2, <3>3 DEF Highest
  <2>5. Max(S) = before
    BY <2>4, HighestIs
  <2>6. LastYearOdo(b) = Max(S)
    BY <1>1 DEF LastYearOdo, S
  <2> QED
    BY <2>5, <2>6
<1>25. OdoThisYear(b) = high - before
  BY <1>21, <1>24 DEF OdoThisYear
<1>26. yearly[c] = top - before
  BY <1>4, <1>9, <1>17, <1>22
<1>27. Max({top - initial, reading - initial}) = high - initial
  <2>1. top - initial \in Int /\ reading - initial \in Int
    OBVIOUS
  <2>2. Max({top - initial, reading - initial})
           = IF top - initial >= reading - initial THEN top - initial ELSE reading - initial
    BY <2>1, MaxOfTwo
  <2> QED
    BY <1>20, <2>2
<1>28. /\ DistanceOverall(b) = Total(YearlyDistance(b))
       /\ CurrentOdo(b) - bikes[b].initial
             = Max({DistanceOverall(b), bikes[b].reading - bikes[b].initial})
  BY <1>1, <1>2, <1>11, <1>18, <1>19, <1>21, <1>27
<1>29. OdoThisYear(b) - YearlyDistance(b)[CurrentYear]
          = CurrentOdo(b) - bikes[b].initial - DistanceOverall(b)
  <2>1. (high - before) - (top - before) = (high - initial) - (top - initial)
    OBVIOUS
  <2> QED
    BY <1>1, <1>3, <1>11, <1>18, <1>21, <1>25, <1>26, <2>1
<1>30. KmIn(b, Day) = Unit * DistanceOverall(b)
  BY <1>11, <1>16
<1> QED
  BY <1>28, <1>29, <1>30

LEMMA YearsAgree ==
    ASSUME FleetTypeOK, SoldTogether, NEW b \in Motorcycles, Plain(b), NEW y \in Year(0)..CurrentYear
    PROVE  (b \in BikesOwned(y)) = (b \in BikesCounted(y))
<1>1. OwnedFrom(b) = bikes[b].purchase /\ OwnedFrom(b) # None /\ bikes[b].sold = None
  BY PlainIs
<1>2. PurchaseYear(b) = Year(bikes[b].purchase) /\ PurchaseYear(b) \in Nat
  BY PlainIs, LastOdoIs
<1>3. CurrentYear \in Nat /\ Year(0) \in Nat
  BY YearType
<1>4. b \in BikesOwned(y) <=> y \in PurchaseYear(b)..CurrentYear
  BY <1>1, <1>2 DEF BikesOwned
<1>5. b \in BikesCounted(y) <=> y >= PurchaseYear(b)
  BY DEF BikesCounted
<1> QED
  BY <1>2, <1>3, <1>4, <1>5

\* The records of a year, which every page reads.
InYear(b, y) == {o \in RecordsOf(b) : Year(o.day) = y}

LEMMA InYearType ==
    ASSUME FleetTypeOK, NEW b \in Motorcycles, NEW y
    PROVE  /\ IsFiniteSet(InYear(b, y))
           /\ \A r \in InYear(b, y) : /\ r \in records /\ r.cost \in Nat /\ r.parts \in Nat
                                      /\ RecordCost(r) = r.cost + r.parts
<1>1. InYear(b, y) \in SUBSET RecordsOf(b)
  BY DEF InYear
<1>2. IsFiniteSet(InYear(b, y))
  BY <1>1, OwnRecords, FS_Subset
<1>3. \A r \in InYear(b, y) : r \in records /\ r \in RecordRow
  BY <1>1, OwnRecords
<1> QED
  BY <1>2, <1>3 DEF RecordRow, RecordCost

LEMMA CostsAgree ==
    ASSUME FleetTypeOK, SoldTogether, NEW b \in Motorcycles, Plain(b), NEW y \in Nat,
           y > PurchaseYear(b)
    PROVE  Unit * YearlyCost(b, y) = RecordCosts(b, y)
<1> DEFINE S == InYear(b, y)
           f == [r \in S |-> RecordCost(r)]
           g == [r \in S |-> (r.cost + r.parts) * Unit]
           days == DaysOfYear(y)
<1>1. PurchaseYear(b) = Year(bikes[b].purchase) /\ PurchaseYear(b) \in Nat /\ bikes[b].purchase \in Nat
  BY PlainIs, LastOdoIs, DayType
<1>2. YearlyCost(b, y) = Total(f)
  BY <1>1 DEF YearlyCost, InYear
<1>3. {o \in Own(b) : o.day \in days} = S
  <2>1. \A r \in RecordsOf(b) : Year(r.day) = y => r \in Own(b)
    <3> SUFFICES ASSUME NEW r \in RecordsOf(b), Year(r.day) = y PROVE r \in Own(b)
      OBVIOUS
    <3>1. r.day \in Nat
      BY OwnRecords, DayType
    <3>2. r.day >= bikes[b].purchase
      <4>1. Year(r.day) > Year(bikes[b].purchase)
        BY <1>1
      <4> QED
        BY <1>1, <3>1, <4>1, LogbookAssumption DEF Year
    <3> QED
      BY <3>2 DEF Own
  <2>2. \A r \in RecordsOf(b) : r.day \in days <=> Year(r.day) = y
    BY OwnRecords, DaysOfYearIs
  <2>3. Own(b) \subseteq RecordsOf(b)
    BY OwnRecords
  <2> HIDE DEF days
  <2> QED
    BY <2>1, <2>2, <2>3 DEF InYear
<1>4. OwnCosts(b, days) = Total(g)
  <2> HIDE DEF days
  <2> QED
    BY <1>3, Zenon DEF OwnCosts
<1>5. IsFiniteSet(S) /\ \A r \in S : RecordCost(r) \in Int /\ (r.cost + r.parts) * Unit = RecordCost(r) * Unit
  BY InYearType
<1>6. Unit \in Int
  BY FleetAssumption
<1>7. f \in [S -> Int] /\ g \in [S -> Int] /\ \A r \in S : g[r] = f[r] * Unit
  <2> HIDE DEF S
  <2> QED
    BY <1>5, <1>6
<1>8. Total(g) = Unit * Total(f)
  <2> HIDE DEF S, f, g
  <2> QED
    BY <1>5, <1>6, <1>7, ScaledTotal
<1>9. RecordCosts(b, y) = OwnCosts(b, days)
  <2>1. {e \in expenses : b \in e.bikes /\ Year(e.day) = y} = {e \in expenses : b \in e.bikes /\ e.day \in days}
    <3>1. \A e \in expenses : e.day \in Day
      BY DEF FleetTypeOK, ExpenseRow
    <3> QED
      BY <3>1, DaysOfYearIs
  <2>2. PICK mine \in Int : mine = OwnCosts(b, days)
    BY RecordsOnce
  <2>3. PICK shared \in Int : shared = Shares(b, days)
    BY ExpensesOnce
  <2>4. CostsIn(b, days) = mine + shared
    BY <2>2, <2>3 DEF CostsIn, OwnCosts, Shares
  <2>5. Total([e \in {x \in expenses : b \in x.bikes /\ Year(x.day) = y} |-> Share(e)]) = shared
    <3> HIDE DEF days
    <3> QED
      BY <2>1, <2>3, Zenon DEF Shares
  <2>6. RecordCosts(b, y) = mine + shared - shared
    BY <2>4, <2>5 DEF RecordCosts
  <2> QED
    BY <2>2, <2>6
<1> QED
  BY <1>2, <1>4, <1>8, <1>9

LEMMA HomeCostsAgree ==
    ASSUME FleetTypeOK, SoldTogether, NEW b \in Motorcycles, Plain(b)
    PROVE  /\ HomeCostThisYear(b) + PartsThisYear(b) = YearlyCost(b, CurrentYear)
           /\ YearlyCost(b, CurrentYear) <= CostThisYear
<1> DEFINE S == InYear(b, CurrentYear)
           f == [r \in S |-> r.cost]
           g == [r \in S |-> r.parts]
           h == [r \in S |-> RecordCost(r)]
           all == {o \in records : Year(o.day) = CurrentYear}
           k == [r \in all |-> RecordCost(r)]
<1>1. ~(CurrentYear < PurchaseYear(b))
  BY PlainIs, LastOdoIs, YearType
<1>2. /\ HomeCostThisYear(b) = Total(f) /\ PartsThisYear(b) = Total(g)
      /\ YearlyCost(b, CurrentYear) = Total(h) /\ CostThisYear = Total(k)
  BY <1>1 DEF HomeCostThisYear, PartsThisYear, YearlyCost, CostThisYear, InYear
<1>3. IsFiniteSet(S) /\ \A r \in S : r.cost \in Nat /\ r.parts \in Nat /\ RecordCost(r) = r.cost + r.parts
  BY InYearType
<1>4. /\ f \in [S -> Int] /\ g \in [S -> Int] /\ h \in [S -> Int]
      /\ \A r \in S : h[r] = f[r] + g[r]
  <2> HIDE DEF S
  <2> QED
    BY <1>3
<1>5. Total(h) = Total(f) + Total(g)
  <2> HIDE DEF S, f, g, h
  <2> QED
    BY <1>3, <1>4, TotalPlus
<1>6. IsFiniteSet(all) /\ k \in [all -> Nat]
  <2>1. all \in SUBSET records
    OBVIOUS
  <2>2. \A r \in records : r \in RecordRow
    BY DEF FleetTypeOK
  <2>3. \A r \in all : RecordCost(r) \in Nat
    BY <2>2 DEF RecordRow, RecordCost
  <2>4. IsFiniteSet(all)
    <3> HIDE DEF all
    <3> QED
      BY <2>1, FS_Subset DEF FleetTypeOK
  <2> HIDE DEF all
  <2> QED
    BY <2>3, <2>4
<1>7. S \in SUBSET all
  BY OwnRecords DEF InYear
<1>8. Part(k, S) = h
  BY <1>7 DEF Part
<1>9. Total(h) <= Total(k)
  <2> HIDE DEF S, h, k, all
  <2>1. Total(Part(k, S)) <= Total(k)
    BY <1>6, <1>7, PartBelow
  <2> QED
    BY <1>8, <2>1
<1> QED
  BY <1>2, <1>5, <1>9

LEMMA OnePicture == FleetTypeOK /\ SoldTogether => PagesAgree
<1> SUFFICES ASSUME FleetTypeOK, SoldTogether PROVE PagesAgree
  OBVIOUS
<1>1. Year(0)..CurrentYear \subseteq Nat
  BY YearType
<1> QED
  BY <1>1, DistancesAgree, YearsAgree, CostsAgree, HomeCostsAgree DEF PagesAgree

(* What a user reads on one page does not contradict another               *)
(* (fleet_analysis.rs, daily_distance; stats.rs, get_stats; home.rs,       *)
(* get_home_data).                                                          *)
THEOREM PagesDoAgree == FleetSpec => []PagesAgree
<1>1. FleetSpec => []SoldTogether
  BY FleetTypeCorrect, SoldTogetherInit, SoldTogetherNext, PTL DEF FleetSpec
<1> QED
  BY <1>1, FleetTypeCorrect, OnePicture, PTL

---------------------------------------------------------------------------
(* The map.                                                                 *)
StopRow == [bike : Motorcycles, day : Nat, odo : Int, place : Nat \union {None}]
MarkerRow == [id : Int, day : Nat, place : Places]
VisitRow == [day : Nat, place : Places]

MapTypeOK ==
    /\ stops \in Seq(StopRow)
    /\ IsFiniteSet(markers) /\ markers \subseteq MarkerRow
    /\ visits \in Seq(VisitRow)
    /\ storage \subseteq Places

LEMMA MapTypeInit == MapInit => MapTypeOK
<1> SUFFICES ASSUME MapInit PROVE MapTypeOK
  OBVIOUS
<1>1. IsFiniteSet(markers) /\ markers \subseteq MarkerRow
  BY FS_EmptySet DEF MapInit
<1>2. stops \in Seq(StopRow) /\ visits \in Seq(VisitRow) /\ storage \subseteq Places
  BY DEF MapInit
<1> QED
  BY <1>1, <1>2 DEF MapTypeOK

LEMMA MapTypeNext == MapTypeOK /\ [MapNext]_mapVars => MapTypeOK'
<1> SUFFICES ASSUME MapTypeOK, [MapNext]_mapVars PROVE MapTypeOK'
  OBVIOUS
<1> USE DEF MapTypeOK
<1>1. ASSUME NEW bike \in Motorcycles, NEW day \in Nat, NEW odo \in Int,
             NEW place \in Nat \union {None}, LogStop(bike, day, odo, place)
      PROVE  MapTypeOK'
  <2>1. [bike |-> bike, day |-> day, odo |-> odo, place |-> place] \in StopRow
    BY DEF StopRow
  <2> QED
    BY <1>1, <2>1 DEF LogStop
<1>2. ASSUME NEW id \in Int, NEW day \in Nat, NEW place \in Places, LogMarker(id, day, place)
      PROVE  MapTypeOK'
  <2>1. [id |-> id, day |-> day, place |-> place] \in MarkerRow
    BY DEF MarkerRow
  <2>2. IsFiniteSet(markers') /\ markers' \subseteq MarkerRow
    BY <1>2, <2>1, FS_AddElement DEF LogMarker
  <2> QED
    BY <1>2, <2>2 DEF LogMarker
<1>3. ASSUME NEW day \in Nat, NEW place \in Places, LogVisit(day, place)
      PROVE  MapTypeOK'
  <2>1. [day |-> day, place |-> place] \in VisitRow
    BY DEF VisitRow
  <2> QED
    BY <1>3, <2>1 DEF LogVisit
<1>4. CASE UNCHANGED mapVars
  BY <1>4 DEF mapVars
<1> QED
  BY <1>1, <1>2, <1>3, <1>4 DEF MapNext

(* In every reachable state the rows the map reads have their shape and the *)
(* markers are finitely many (the tables read by compute_map).              *)
THEOREM MapTypeCorrect == MapSpec => []MapTypeOK
BY MapTypeInit, MapTypeNext, PTL DEF MapSpec

---------------------------------------------------------------------------
\* The stops of a bike in order.
LEMMA StopIs ==
    ASSUME MapTypeOK
    PROVE  /\ Len(stops) \in Nat /\ DOMAIN stops = 1..Len(stops) /\ IsFiniteSet(DOMAIN stops)
           /\ Cardinality(DOMAIN stops) = Len(stops)
           /\ \A i \in DOMAIN stops : /\ stops[i].bike \in Motorcycles /\ stops[i].day \in Nat
                                      /\ stops[i].odo \in Int /\ stops[i].place \in Nat \union {None}
<1>1. Len(stops) \in Nat /\ DOMAIN stops = 1..Len(stops) /\ \A i \in DOMAIN stops : stops[i] \in StopRow
  BY DEF MapTypeOK
<1>2. IsFiniteSet(1..Len(stops)) /\ Cardinality(1..Len(stops)) = Len(stops)
  <2>1. /\ IsFiniteSet(1..Len(stops))
        /\ Cardinality(1..Len(stops)) = IF 1 > Len(stops) THEN 0 ELSE Len(stops) - 1 + 1
    BY <1>1, FS_Interval
  <2> QED
    BY <1>1, <2>1
<1> QED
  BY <1>1, <1>2 DEF StopRow

LEMMA RouteIs ==
    ASSUME MapTypeOK, NEW bike
    PROVE  LET n == Cardinality(Riding(bike))
               route == Route(bike)
           IN  /\ n \in Nat /\ Len(route) = n
               /\ route \in [1..n -> Riding(bike)]
               /\ \A i \in Riding(bike) : \E k \in 1..n : route[k] = i
               /\ \A j, k \in 1..n : j < k => RiddenBefore(route[j], route[k])
<1> DEFINE R == Riding(bike)
           order == {p \in R \X R : RiddenBefore(p[1], p[2])}
           n == Cardinality(R)
           route == Route(bike)
<1>1. IsFiniteSet(R) /\ R \subseteq DOMAIN stops
  BY StopIs, FS_Subset DEF Riding
<1>2. \A i \in R : i \in Int /\ stops[i].day \in Nat /\ stops[i].odo \in Int
  BY <1>1, StopIs
<1>3. \A i, j \in R : <<i, j>> \in order <=> RiddenBefore(i, j)
  OBVIOUS
<1>4. Orders(order, R)
  <2> HIDE DEF order, R
  <2>1. \A i \in R : ~RiddenBefore(i, i)
    BY <1>2 DEF RiddenBefore
  <2>2. \A i, j, k \in R : RiddenBefore(i, j) /\ RiddenBefore(j, k) => RiddenBefore(i, k)
    BY <1>2 DEF RiddenBefore
  <2>3. \A i, j \in R : i # j => RiddenBefore(i, j) \/ RiddenBefore(j, i)
    BY <1>2 DEF RiddenBefore
  <2> QED
    BY <1>3, <2>1, <2>2, <2>3 DEF Orders
<1>5. route = Ranked(R, order)
  BY DEF Route
<1>6. /\ n \in Nat /\ route \in [1..n -> R]
      /\ \A i \in R : \E k \in 1..n : route[k] = i
      /\ \A j, k \in 1..n : j < k => <<route[j], route[k]>> \in order
  <2> HIDE DEF order, R, n, route
  <2> QED
    BY <1>1, <1>4, <1>5, RankedIs DEF n
<1> HIDE DEF order, R, n, route
<1>7. Len(route) = n
  BY <1>6, LenIs
<1>8. \A j, k \in 1..n : j < k => RiddenBefore(route[j], route[k])
  BY <1>3, <1>6
<1> QED
  BY <1>6, <1>7, <1>8 DEF n, R, route

LEMMA RouteOrdered ==
    ASSUME MapTypeOK, NEW bike, NEW n, n = Cardinality(Riding(bike)),
           NEW route, route = Route(bike), NEW j \in 1..n, NEW k \in 1..n
    PROVE  /\ route[k] \in DOMAIN stops /\ stops[route[k]].bike = bike
           /\ stops[route[k]].day \in Nat /\ stops[route[k]].odo \in Int
           /\ j <= k => stops[route[j]].day <= stops[route[k]].day
           /\ route[j] = route[k] => j = k
           /\ NeverFalls(bike) /\ j <= k => stops[route[j]].odo <= stops[route[k]].odo
<1>1. /\ n \in Nat /\ route \in [1..n -> Riding(bike)]
      /\ \A i \in Riding(bike) : \E m \in 1..n : route[m] = i
      /\ \A l, m \in 1..n : l < m => RiddenBefore(route[l], route[m])
  BY RouteIs
<1>2. route[j] \in Riding(bike) /\ route[k] \in Riding(bike)
  BY <1>1
<1>3. \A i \in Riding(bike) : /\ i \in DOMAIN stops /\ i \in Nat /\ stops[i].bike = bike
                              /\ stops[i].day \in Nat /\ stops[i].odo \in Int
  BY StopIs DEF Riding
<1>4. j < k => RiddenBefore(route[j], route[k])
  BY <1>1
<1>5. k < j => RiddenBefore(route[k], route[j])
  BY <1>1
<1>6. j <= k => stops[route[j]].day <= stops[route[k]].day
  BY <1>1, <1>2, <1>3, <1>4 DEF RiddenBefore
<1>7. route[j] = route[k] => j = k
  BY <1>1, <1>2, <1>3, <1>4, <1>5 DEF RiddenBefore
<1>8. ASSUME NeverFalls(bike), j < k PROVE stops[route[j]].odo <= stops[route[k]].odo
  BY <1>2, <1>3, <1>4, <1>8 DEF RiddenBefore, NeverFalls
<1> QED
  BY <1>1, <1>2, <1>3, <1>6, <1>7, <1>8

---------------------------------------------------------------------------
\* Sums over an image, and numbers of rows.
LEMMA PartOne ==
    ASSUME NEW D, IsFiniteSet(D), NEW f \in [D -> Int], NEW x \in D
    PROVE  Total(Part(f, {x})) = f[x]
<1>1. x \in D \ {} /\ {} \in SUBSET D /\ {} \union {x} = {x}
  OBVIOUS
<1>2. Total(Part(f, {} \union {x})) = f[x] + Total(Part(f, {}))
  BY <1>1, PartStep
<1>3. Total(Part(f, {})) = 0
  BY PartNone
<1>4. f[x] \in Int
  OBVIOUS
<1>5. Total(Part(f, {x})) = Total(Part(f, {} \union {x}))
  BY <1>1
<1> QED
  BY <1>2, <1>3, <1>4, <1>5

LEMMA TotalImage ==
    ASSUME NEW K, IsFiniteSet(K), NEW S, IsFiniteSet(S), NEW h \in [K -> S],
           \A s \in S : \E k \in K : h[k] = s, \A j, k \in K : h[j] = h[k] => j = k,
           NEW f \in [S -> Int], NEW g \in [K -> Int], \A k \in K : g[k] = f[h[k]]
    PROVE  Total(f) = Total(g)
<1> DEFINE e == [s \in S |-> Total(Part(g, {k \in K : h[k] = s}))]
<1>1. Total(g) = Total(e)
  BY TotalFibres
<1>2. \A s \in S : e[s] = f[s]
  <2> SUFFICES ASSUME NEW s \in S PROVE e[s] = f[s]
    OBVIOUS
  <2>1. PICK k \in K : h[k] = s
    OBVIOUS
  <2>2. {j \in K : h[j] = s} = {k}
    BY <2>1
  <2>3. Total(Part(g, {k})) = g[k]
    BY PartOne
  <2>4. e[s] = Total(Part(g, {j \in K : h[j] = s}))
    OBVIOUS
  <2>5. e[s] = Total(Part(g, {k}))
    BY <2>2, <2>4, Zenon
  <2> QED
    BY <2>1, <2>3, <2>5
<1>3. e = [s \in S |-> e[s]]
  OBVIOUS
<1> HIDE DEF e
<1>4. e \in [S -> Int]
  BY <1>2, <1>3
<1>5. Total(e) = Total(f)
  BY <1>2, <1>4, TotalSame
<1> QED
  BY <1>1, <1>5

\* A set is as large as its parts together.
LEMMA CountFibres ==
    ASSUME NEW D, IsFiniteSet(D), NEW E, IsFiniteSet(E), NEW h \in [D -> E]
    PROVE  Cardinality(D) = Total([e \in E |-> Cardinality({x \in D : h[x] = e})])
<1> DEFINE one == [x \in D |-> 1]
           of(e) == {x \in D : h[x] = e}
<1>1. one \in [D -> Int] /\ \A x \in D : one[x] = 1
  OBVIOUS
<1>2. Cardinality(D) \in Nat
  BY FS_CardinalityType
<1>3. Total(one) = 1 * Cardinality(D)
  <2> HIDE DEF one
  <2> QED
    BY <1>1, TotalConstant
<1>4. Total(one) = Total([e \in E |-> Total(Part(one, of(e)))])
  BY <1>1, TotalFibres
<1>5. \A e \in E : Total(Part(one, of(e))) = Cardinality(of(e))
  <2> SUFFICES ASSUME NEW e \in E PROVE Total(Part(one, of(e))) = Cardinality(of(e))
    OBVIOUS
  <2>1. PICK T \in SUBSET D : T = of(e)
    OBVIOUS
  <2> HIDE DEF one, of
  <2>2. /\ IsFiniteSet(T) /\ Part(one, T) \in [T -> Int]
        /\ \A x \in T : Part(one, T)[x] = one[x]
    BY <1>1, PartType
  <2>3. \A x \in T : Part(one, T)[x] = 1
    BY <1>1, <2>2
  <2>4. PICK p \in [T -> Int] : p = Part(one, T)
    BY <2>2
  <2>5. Total(p) = 1 * Cardinality(T)
    BY <2>2, <2>3, <2>4, TotalConstant
  <2>6. Cardinality(T) \in Nat
    BY <2>2, FS_CardinalityType
  <2> QED
    BY <2>1, <2>4, <2>5, <2>6
<1>6. [e \in E |-> Total(Part(one, of(e)))] = [e \in E |-> Cardinality(of(e))]
  <2> HIDE DEF one, of
  <2> QED
    BY <1>5
<1>7. [e \in E |-> Cardinality(of(e))] = [e \in E |-> Cardinality({x \in D : h[x] = e})]
  OBVIOUS
<1> HIDE DEF one, of
<1>8. Total(one) = Total([e \in E |-> Cardinality({x \in D : h[x] = e})])
  BY <1>4, <1>6, <1>7, Zenon
<1> QED
  BY <1>2, <1>3, <1>8

---------------------------------------------------------------------------
\* Legs.
LEMMA LegIs ==
    ASSUME MapTypeOK, NEW i \in DOMAIN stops, NEW j \in DOMAIN stops
    PROVE  /\ Leg(i, j).from = i /\ Leg(i, j).to = j
           /\ Leg(i, j).bike = stops[j].bike /\ Leg(i, j).day = stops[j].day
           /\ Leg(i, j).km = stops[j].odo - stops[i].odo
           /\ Leg(i, j).day \in Nat /\ Leg(i, j).km \in Int
<1>1. /\ stops[i].odo \in Int /\ stops[j].odo \in Int /\ stops[j].day \in Nat
  BY StopIs
<1>2. /\ Leg(i, j).from = i /\ Leg(i, j).to = j
      /\ Leg(i, j).bike = stops[j].bike /\ Leg(i, j).day = stops[j].day
      /\ Leg(i, j).km = stops[j].odo - stops[i].odo
  BY DEF Leg
<1> QED
  BY <1>1, <1>2

LEMMA LegOfRoute ==
    ASSUME MapTypeOK, NEW bike, NEW n, n = Cardinality(Riding(bike)),
           NEW route, route = Route(bike), NEW leg \in Legs(bike)
    PROVE  \E k \in 1..(n - 1) : leg = Leg(route[k], route[k + 1]) /\ leg.km > 0
<1>1. n \in Nat /\ Len(route) = n
  BY RouteIs
<1>2. leg \in {Leg(route[k], route[k + 1]) : k \in 1..(n - 1)} /\ leg.km > 0
  BY <1>1 DEF Legs
<1> QED
  BY <1>2

LEMMA LegsAre ==
    ASSUME MapTypeOK, NEW bike, NEW leg \in Legs(bike)
    PROVE  /\ leg.from \in DOMAIN stops /\ leg.to \in DOMAIN stops
           /\ leg.bike = bike /\ bike \in Bikes /\ bike \in Motorcycles
           /\ leg.day = stops[leg.to].day /\ leg.day \in Nat
           /\ leg.km \in Int /\ leg.km > 0
           /\ leg = Leg(leg.from, leg.to)
<1>1. PICK n : n = Cardinality(Riding(bike))
  OBVIOUS
<1>2. PICK route : route = Route(bike)
  OBVIOUS
<1>3. PICK k \in 1..(n - 1) : leg = Leg(route[k], route[k + 1]) /\ leg.km > 0
  BY <1>1, <1>2, LegOfRoute
<1>4. n \in Nat
  BY <1>1, RouteIs
<1>5. k \in 1..n /\ k + 1 \in 1..n
  BY <1>3, <1>4
<1>6. PICK i \in DOMAIN stops : i = route[k]
  BY <1>1, <1>2, <1>5, RouteOrdered
<1>7. PICK j \in DOMAIN stops : j = route[k + 1] /\ stops[j].bike = bike
  BY <1>1, <1>2, <1>5, RouteOrdered
<1>8. leg = Leg(i, j)
  BY <1>3, <1>6, <1>7
<1>9. bike \in Bikes
  BY <1>7 DEF Bikes
<1>10. bike \in Motorcycles
  BY <1>7, StopIs
<1> QED
  BY <1>3, <1>7, <1>8, <1>9, <1>10, LegIs

LEMMA LegsFinite ==
    ASSUME MapTypeOK
    PROVE  /\ IsFiniteSet(AllLegs) /\ IsFiniteSet(Bikes) /\ Bikes \subseteq Motorcycles
           /\ \A bike : Legs(bike) = {leg \in AllLegs : leg.bike = bike}
<1>1. PICK D : D = DOMAIN stops /\ IsFiniteSet(D)
  BY StopIs
<1> DEFINE P == D \X D
           f == [p \in P |-> Leg(p[1], p[2])]
<1>2. IsFiniteSet({f[p] : p \in P})
  <2>1. f = [p \in P |-> f[p]]
    OBVIOUS
  <2>2. IsFiniteSet(P)
    BY <1>1, FS_Product
  <2> HIDE DEF f, P
  <2> QED
    BY <2>1, <2>2, ImageFinite
<1>3. AllLegs \subseteq {f[p] : p \in P}
  <2> SUFFICES ASSUME NEW leg \in AllLegs PROVE leg \in {f[p] : p \in P}
    OBVIOUS
  <2>1. PICK bike \in Bikes : leg \in Legs(bike)
    BY DEF AllLegs
  <2>2. PICK i \in D, j \in D : leg = Leg(i, j)
    BY <1>1, <2>1, LegsAre
  <2>3. PICK p \in P : p[1] = i /\ p[2] = j
    <3>1. <<i, j>> \in P /\ <<i, j>>[1] = i /\ <<i, j>>[2] = j
      OBVIOUS
    <3> QED
      BY <3>1
  <2>4. f[p] = Leg(p[1], p[2])
    BY Zenon
  <2>5. f[p] = leg
    BY <2>2, <2>3, <2>4
  <2> HIDE DEF f, P
  <2> QED
    BY <2>5
<1>4. IsFiniteSet(AllLegs)
  <2> HIDE DEF f, P
  <2> QED
    BY <1>2, <1>3, FS_Subset
<1>5. Bikes \subseteq Motorcycles
  BY StopIs DEF Bikes
<1>6. IsFiniteSet(Bikes)
  BY <1>5, LogbookAssumption, FS_Subset
<1>7. ASSUME NEW bike PROVE Legs(bike) = {leg \in AllLegs : leg.bike = bike}
  <2>1. ASSUME NEW leg \in Legs(bike) PROVE leg \in AllLegs /\ leg.bike = bike
    <3>1. leg.bike = bike /\ bike \in Bikes
      BY <2>1, LegsAre
    <3> QED
      BY <2>1, <3>1 DEF AllLegs
  <2>2. ASSUME NEW leg \in AllLegs, leg.bike = bike PROVE leg \in Legs(bike)
    <3>1. PICK b \in Bikes : leg \in Legs(b)
      BY <2>2 DEF AllLegs
    <3>2. leg.bike = b
      BY <3>1, LegsAre
    <3> QED
      BY <2>2, <3>1, <3>2
  <2> QED
    BY <2>1, <2>2
<1> QED
  BY <1>4, <1>5, <1>6, <1>7

LEMMA LegOfAll ==
    ASSUME MapTypeOK, NEW leg \in AllLegs
    PROVE  /\ leg.bike \in Bikes /\ leg.to \in DOMAIN stops
           /\ leg.day = stops[leg.to].day /\ leg.day \in Nat /\ leg.km \in Int
<1>1. PICK bike \in Bikes : leg \in Legs(bike)
  BY DEF AllLegs
<1> QED
  BY <1>1, LegsAre

\* With an odometer that never falls the legs add up to what it rose by.
LEMMA WayIs ==
    ASSUME MapTypeOK, NEW bike, NeverFalls(bike), NEW n, n = Cardinality(Riding(bike)), n # 0,
           NEW route, route = Route(bike)
    PROVE  Km(Legs(bike)) = stops[route[n]].odo - stops[route[1]].odo
<1> DEFINE g == [k \in 1..n |-> stops[route[k]].odo]
           f == [k \in 2..n |-> g[k] - g[k - 1]]
           Q == {k \in 2..n : f[k] > 0}
           L == Legs(bike)
           km == [leg \in L |-> leg.km]
           h == [k \in Q |-> Leg(route[k - 1], route[k])]
<1>1. n \in Nat /\ Len(route) = n /\ n >= 1
  BY RouteIs
<1>2. \A k \in 1..n : g[k] \in Int /\ g[k] = stops[route[k]].odo
  <2> SUFFICES ASSUME NEW k \in 1..n PROVE g[k] \in Int /\ g[k] = stops[route[k]].odo
    OBVIOUS
  <2>1. stops[route[k]].odo \in Int
    BY RouteOrdered
  <2> QED
    BY <2>1
<1>3. \A k \in 2..n : /\ k \in 1..n /\ k - 1 \in 1..n /\ f[k] = g[k] - g[k - 1]
                      /\ f[k] \in Int /\ f[k] >= 0
  <2> SUFFICES ASSUME NEW k \in 2..n
               PROVE  /\ k \in 1..n /\ k - 1 \in 1..n /\ f[k] = g[k] - g[k - 1]
                      /\ f[k] \in Int /\ f[k] >= 0
    OBVIOUS
  <2>1. k \in 1..n /\ k - 1 \in 1..n /\ k - 1 <= k
    BY <1>1
  <2>2. stops[route[k - 1]].odo <= stops[route[k]].odo
    BY <2>1, RouteOrdered
  <2>3. f[k] = g[k] - g[k - 1]
    OBVIOUS
  <2> HIDE DEF f, g
  <2> QED
    BY <1>2, <2>1, <2>2, <2>3
<1>4. f = [k \in 2..n |-> f[k]] /\ IsFiniteSet(2..n)
  BY <1>1, FS_Interval
<1>5. \A k \in Q : k \in 2..n /\ f[k] > 0
  OBVIOUS
<1>6. \A k \in 2..n : f[k] > 0 => k \in Q
  OBVIOUS
<1>7. n >= 2 => Total(f) = g[n] - g[1]
  <2> SUFFICES ASSUME n >= 2 PROVE Total(f) = g[n] - g[1]
    OBVIOUS
  <2>1. f = [k \in 2..n |-> g[k] - g[k - 1]]
    OBVIOUS
  <2> HIDE DEF f, g
  <2>2. Differences(f, g, 2, n)
    BY <1>2, <2>1 DEF Differences
  <2>3. Total(f) = g[n] - g[2 - 1]
    BY <1>1, <2>2, Telescope
  <2> QED
    BY <2>3
<1>8. n = 1 => Total(f) = g[n] - g[1]
  <2> SUFFICES ASSUME n = 1 PROVE Total(f) = g[n] - g[1]
    OBVIOUS
  <2>1. DOMAIN f = {}
    OBVIOUS
  <2> HIDE DEF f, g
  <2>2. Total(f) = 0
    BY <2>1, TotalEmpty
  <2>3. g[n] = g[1] /\ g[1] \in Int
    BY <1>2
  <2> QED
    BY <2>2, <2>3
<1>9. Total(f) = g[n] - g[1]
  BY <1>1, <1>7, <1>8
<1>10. \A k \in Q : /\ Leg(route[k - 1], route[k]) \in L
                    /\ h[k] = Leg(route[k - 1], route[k])
                    /\ h[k].km = f[k] /\ h[k].to = route[k]
  <2> SUFFICES ASSUME NEW k \in Q
               PROVE  /\ Leg(route[k - 1], route[k]) \in L
                      /\ h[k] = Leg(route[k - 1], route[k])
                      /\ h[k].km = f[k] /\ h[k].to = route[k]
    OBVIOUS
  <2>1. k \in 1..n /\ k - 1 \in 1..n /\ k - 1 \in 1..(n - 1) /\ (k - 1) + 1 = k /\ f[k] > 0
    BY <1>1, <1>3, <1>5
  <2>2. PICK i \in DOMAIN stops : i = route[k - 1]
    BY <2>1, RouteOrdered
  <2>3. PICK j \in DOMAIN stops : j = route[k]
    BY <2>1, RouteOrdered
  <2>4. Leg(i, j).km = stops[j].odo - stops[i].odo /\ Leg(i, j).to = j
    BY LegIs
  <2>5. Leg(i, j).km = f[k]
    <3>1. f[k] = g[k] - g[k - 1] /\ g[k] = stops[route[k]].odo /\ g[k - 1] = stops[route[k - 1]].odo
      BY <1>2, <1>3, <1>5, <2>1
    <3> HIDE DEF f, g
    <3> QED
      BY <2>2, <2>3, <2>4, <3>1
  <2>6. h[k] = Leg(route[k - 1], route[k])
    OBVIOUS
  <2>7. Leg(route[k - 1], route[k]) \in L
    <3>1. Leg(route[k - 1], route[k - 1 + 1]) \in {Leg(route[m], route[m + 1]) : m \in 1..(Len(route) - 1)}
      BY <1>1, <2>1
    <3>2. Leg(route[k - 1], route[k]).km > 0
      BY <2>1, <2>2, <2>3, <2>5
    <3> HIDE DEF f, g, Q, h
    <3> QED
      BY <2>1, <3>1, <3>2 DEF Legs
  <2> HIDE DEF f, g, Q, h, L
  <2> QED
    BY <2>2, <2>3, <2>4, <2>5, <2>6, <2>7
<1>11. \A leg \in L : leg.km \in Int /\ km[leg] = leg.km /\ \E k \in Q : h[k] = leg
  <2> SUFFICES ASSUME NEW leg \in L
               PROVE  leg.km \in Int /\ km[leg] = leg.km /\ \E k \in Q : h[k] = leg
    OBVIOUS
  <2>1. leg.km \in Int
    BY LegsAre
  <2>2. PICK m \in 1..(n - 1) : leg = Leg(route[m], route[m + 1]) /\ leg.km > 0
    BY LegOfRoute
  <2>3. m \in 1..n /\ m + 1 \in 1..n /\ m + 1 \in 2..n /\ (m + 1) - 1 = m
    BY <1>1
  <2>4. PICK i \in DOMAIN stops : i = route[m]
    BY <2>3, RouteOrdered
  <2>5. PICK j \in DOMAIN stops : j = route[m + 1]
    BY <2>3, RouteOrdered
  <2>6. leg.km = stops[j].odo - stops[i].odo
    BY <2>2, <2>4, <2>5, LegIs
  <2>7. f[m + 1] = leg.km
    <3>1. f[m + 1] = g[m + 1] - g[(m + 1) - 1]
      BY <1>3, <2>3
    <3>2. g[m + 1] = stops[route[m + 1]].odo /\ g[m] = stops[route[m]].odo
      BY <1>2, <2>3
    <3> HIDE DEF f, g
    <3> QED
      BY <2>3, <2>4, <2>5, <2>6, <3>1, <3>2
  <2>8. m + 1 \in Q
    BY <1>6, <2>2, <2>3, <2>7
  <2>9. h[m + 1] = Leg(route[(m + 1) - 1], route[m + 1])
    BY <2>8
  <2>10. h[m + 1] = leg
    BY <2>2, <2>3, <2>9
  <2>11. km[leg] = leg.km
    OBVIOUS
  <2> HIDE DEF f, g, Q, h, L, km
  <2> QED
    BY <2>1, <2>8, <2>10, <2>11
<1>12. \A j, k \in Q : h[j] = h[k] => j = k
  <2> SUFFICES ASSUME NEW j \in Q, NEW k \in Q, h[j] = h[k] PROVE j = k
    OBVIOUS
  <2>1. h[j].to = route[j] /\ h[k].to = route[k]
    BY <1>10
  <2>2. j \in 1..n /\ k \in 1..n
    BY <1>3, <1>5
  <2> HIDE DEF h, Q, f, g
  <2>3. route[j] = route[k]
    BY <2>1
  <2> QED
    BY <2>2, <2>3, RouteOrdered
<1>13. h = [k \in Q |-> h[k]] /\ km = [leg \in L |-> km[leg]] /\ Q \in SUBSET (2..n)
  OBVIOUS
<1>14. IsFiniteSet(L)
  <2>1. L \subseteq AllLegs /\ IsFiniteSet(AllLegs)
    BY LegsFinite
  <2> QED
    BY <2>1, FS_Subset
<1>15. Km(L) = Total(km)
  BY DEF Km
<1> HIDE DEF f, g, Q, h, L, km
<1>16. h \in [Q -> L] /\ km \in [L -> Int] /\ f \in [2..n -> Int]
  BY <1>3, <1>4, <1>10, <1>11, <1>13
<1>17. PICK D : D = 2..n /\ IsFiniteSet(D) /\ Q \in SUBSET D /\ f \in [D -> Int]
  BY <1>4, <1>13, <1>16
<1>18. Total(f) = Total(Part(f, Q))
  <2>1. \A k \in D \ Q : f[k] = 0
    BY <1>3, <1>6, <1>17
  <2> QED
    BY <1>17, <2>1, TotalSupport
<1>19. /\ IsFiniteSet(Q) /\ Part(f, Q) \in [Q -> Int] /\ \A k \in Q : Part(f, Q)[k] = f[k]
  <2>1. PICK T \in SUBSET D : T = Q
    BY <1>17
  <2>2. PICK v \in [D -> Int] : v = f
    BY <1>17
  <2>3. IsFiniteSet(D)
    BY <1>17
  <2>4. IsFiniteSet(T) /\ Part(v, T) \in [T -> Int] /\ \A k \in T : Part(v, T)[k] = v[k]
    BY <2>3, PartType
  <2> QED
    BY <2>1, <2>2, <2>4
<1>20. \A k \in Q : Part(f, Q)[k] = km[h[k]]
  <2> SUFFICES ASSUME NEW k \in Q PROVE Part(f, Q)[k] = km[h[k]]
    OBVIOUS
  <2>1. h[k] \in L /\ h[k].km = f[k]
    BY <1>10
  <2> QED
    BY <1>11, <1>19, <2>1
<1>21. Total(km) = Total(Part(f, Q))
  <2>1. PICK p \in [Q -> Int] : p = Part(f, Q)
    BY <1>19
  <2>2. \A k \in Q : p[k] = km[h[k]]
    BY <1>20, <2>1
  <2>3. \A leg \in L : \E k \in Q : h[k] = leg
    BY <1>11
  <2>4. IsFiniteSet(Q) /\ IsFiniteSet(L) /\ h \in [Q -> L] /\ km \in [L -> Int]
    BY <1>14, <1>16, <1>19
  <2>5. Total(km) = Total(p)
    BY <1>12, <2>2, <2>3, <2>4, TotalImage
  <2> QED
    BY <2>1, <2>5
<1>22. g[n] = stops[route[n]].odo /\ g[1] = stops[route[1]].odo
  BY <1>1, <1>2
<1> QED
  BY <1>9, <1>15, <1>18, <1>21, <1>22 DEF L

\* However the legs are divided, the parts add up.
LEMMA LegsDivided ==
    ASSUME MapTypeOK, NEW D \in SUBSET AllLegs, NEW E, IsFiniteSet(E), NEW h \in [D -> E]
    PROVE  Km(D) = Total([e \in E |-> Km({leg \in D : h[leg] = e})])
<1> DEFINE km == [leg \in D |-> leg.km]
           of(e) == {leg \in D : h[leg] = e}
<1>1. IsFiniteSet(D)
  BY LegsFinite, FS_Subset
<1>2. \A leg \in D : leg.km \in Int
  BY LegOfAll
<1>3. km \in [D -> Int]
  BY <1>2
<1>4. Km(D) = Total(km)
  BY DEF Km
<1>5. Total(km) = Total([e \in E |-> Total(Part(km, of(e)))])
  <2> HIDE DEF km
  <2> QED
    BY <1>1, <1>3, TotalFibres DEF of
<1>6. \A e \in E : Part(km, of(e)) = [leg \in of(e) |-> leg.km]
  BY DEF Part
<1>7. \A e \in E : Km(of(e)) = Total([leg \in of(e) |-> leg.km])
  BY DEF Km
<1> HIDE DEF km, of
<1>8. \A e \in E : Total(Part(km, of(e))) = Km(of(e))
  BY <1>6, <1>7, Zenon
<1>9. [e \in E |-> Total(Part(km, of(e)))] = [e \in E |-> Km(of(e))]
  BY <1>8
<1>10. Km(D) = Total([e \in E |-> Km(of(e))])
  BY <1>4, <1>5, <1>9, Zenon
<1> QED
  BY <1>10 DEF of

LEMMA LegsByBike ==
    ASSUME MapTypeOK, NEW y
    PROVE  YearKm(y) = Total([b \in Bikes |-> BikeYearKm(b, y)])
<1> DEFINE D == {leg \in AllLegs : Year(leg.day) = y}
           h == [leg \in D |-> leg.bike]
<1>1. IsFiniteSet(Bikes) /\ D \in SUBSET AllLegs
  BY LegsFinite
<1>3. h \in [D -> Bikes]
  BY LegOfAll
<1>4. \A b \in Bikes : {leg \in D : h[leg] = b} = {leg \in Legs(b) : Year(leg.day) = y}
  BY LegsFinite
<1>5. YearKm(y) = Km(D) /\ \A b \in Bikes : BikeYearKm(b, y) = Km({leg \in Legs(b) : Year(leg.day) = y})
  BY DEF YearKm, BikeYearKm
<1> HIDE DEF D, h
<1>6. Km(D) = Total([b \in Bikes |-> Km({leg \in D : h[leg] = b})])
  BY <1>1, <1>3, LegsDivided
<1>7. \A b \in Bikes : Km({leg \in D : h[leg] = b}) = BikeYearKm(b, y)
  BY <1>4, <1>5, Zenon
<1>8. [b \in Bikes |-> Km({leg \in D : h[leg] = b})] = [b \in Bikes |-> BikeYearKm(b, y)]
  BY <1>7
<1> QED
  BY <1>5, <1>6, <1>8, Zenon

LEMMA LegsByCountry ==
    ASSUME MapTypeOK, NEW y
    PROVE  YearKm(y) = Total(KmByCountry(y))
<1> DEFINE D == {leg \in AllLegs : Year(leg.day) = y}
           h == [leg \in D |-> CountryOf(leg)]
           E == {CountryOf(leg) : leg \in D}
<1>1. IsFiniteSet(D) /\ D \in SUBSET AllLegs
  <2>1. IsFiniteSet(AllLegs)
    BY LegsFinite
  <2> QED
    BY <2>1, FS_Subset
<1>2. h = [leg \in D |-> h[leg]] /\ E = {h[leg] : leg \in D} /\ h \in [D -> E]
  OBVIOUS
<1>3. \A c : {leg \in D : CountryOf(leg) = c} = {leg \in D : h[leg] = c}
  OBVIOUS
<1>4. YearKm(y) = Km(D)
  BY DEF YearKm
<1>5. KmByCountry(y) = [c \in E |-> Km({leg \in D : CountryOf(leg) = c})]
  BY DEF KmByCountry
<1> HIDE DEF D, h, E
<1>6. IsFiniteSet(E)
  BY <1>1, <1>2, ImageFinite
<1>7. Km(D) = Total([c \in E |-> Km({leg \in D : h[leg] = c})])
  BY <1>1, <1>2, <1>6, LegsDivided
<1>8. [c \in E |-> Km({leg \in D : CountryOf(leg) = c})] = [c \in E |-> Km({leg \in D : h[leg] = c})]
  BY <1>3, Zenon
<1> QED
  BY <1>4, <1>5, <1>7, <1>8, Zenon

LEMMA LegsByYear ==
    ASSUME MapTypeOK
    PROVE  Km(AllLegs) = Total([y \in Years |-> YearKm(y)])
<1> DEFINE h == [leg \in AllLegs |-> Year(leg.day)]
<1>1. IsFiniteSet(Years)
  <2>1. PICK D : D = DOMAIN stops /\ IsFiniteSet(D)
    BY StopIs
  <2> DEFINE f == [i \in D |-> Year(stops[i].day)]
  <2>2. f = [i \in D |-> f[i]] /\ Years = {f[i] : i \in D}
    BY <2>1 DEF Years
  <2> HIDE DEF f
  <2> QED
    BY <2>1, <2>2, ImageFinite
<1>2. \A leg \in AllLegs : Year(leg.day) \in Years
  <2> SUFFICES ASSUME NEW leg \in AllLegs PROVE Year(leg.day) \in Years
    OBVIOUS
  <2>1. PICK i \in DOMAIN stops : leg.day = stops[i].day
    BY LegOfAll
  <2> QED
    BY <2>1 DEF Years
<1>3. h \in [AllLegs -> Years] /\ AllLegs \in SUBSET AllLegs
  BY <1>2
<1>4. \A y : {leg \in AllLegs : h[leg] = y} = {leg \in AllLegs : Year(leg.day) = y}
  OBVIOUS
<1>5. \A y : YearKm(y) = Km({leg \in AllLegs : Year(leg.day) = y})
  BY DEF YearKm
<1> HIDE DEF h
<1>6. Km(AllLegs) = Total([y \in Years |-> Km({leg \in AllLegs : h[leg] = y})])
  BY <1>1, <1>3, LegsDivided
<1>7. [y \in Years |-> Km({leg \in AllLegs : h[leg] = y})] = [y \in Years |-> YearKm(y)]
  BY <1>4, <1>5, Zenon
<1> QED
  BY <1>6, <1>7, Zenon

LEMMA LegsByDay ==
    ASSUME MapTypeOK
    PROVE  Km(AllLegs) = Total([d \in DOMAIN Calendar |-> Calendar[d].km])
<1> DEFINE E == {stops[i].day : i \in DOMAIN stops}
           h == [leg \in AllLegs |-> leg.day]
<1>1. IsFiniteSet(E)
  <2>1. PICK D : D = DOMAIN stops /\ IsFiniteSet(D)
    BY StopIs
  <2> DEFINE f == [i \in D |-> stops[i].day]
  <2>2. f = [i \in D |-> f[i]] /\ E = {f[i] : i \in D}
    BY <2>1
  <2> HIDE DEF f, E
  <2> QED
    BY <2>1, <2>2, ImageFinite
<1>2. \A leg \in AllLegs : leg.day \in E
  <2> SUFFICES ASSUME NEW leg \in AllLegs PROVE leg.day \in E
    OBVIOUS
  <2>1. PICK i \in DOMAIN stops : leg.day = stops[i].day
    BY LegOfAll
  <2> QED
    BY <2>1
<1>3. h \in [AllLegs -> E] /\ AllLegs \in SUBSET AllLegs
  BY <1>2
<1>4. \A d : {leg \in AllLegs : h[leg] = d} = {leg \in AllLegs : leg.day = d}
  OBVIOUS
<1>5. /\ DOMAIN Calendar = E
      /\ \A d \in E : Calendar[d].km = Km({leg \in AllLegs : leg.day = d})
  BY DEF Calendar
<1> HIDE DEF h, E
<1>6. Km(AllLegs) = Total([d \in E |-> Km({leg \in AllLegs : h[leg] = d})])
  BY <1>1, <1>3, LegsDivided
<1>7. \A d \in E : Km({leg \in AllLegs : h[leg] = d}) = Calendar[d].km
  BY <1>4, <1>5, Zenon
<1>8. [d \in E |-> Km({leg \in AllLegs : h[leg] = d})] = [d \in E |-> Calendar[d].km]
  BY <1>7
<1>9. [d \in E |-> Calendar[d].km] = [d \in DOMAIN Calendar |-> Calendar[d].km]
  BY <1>5, Zenon
<1> QED
  BY <1>6, <1>8, <1>9, Zenon

---------------------------------------------------------------------------
\* Locations.
LEMMA CountsAre ==
    ASSUME MapTypeOK, NEW l
    PROVE  FuelStopsAt(l) \in Nat /\ WorkshopVisitsAt(l) \in Nat /\ ParkedAt(l) \in Nat
<1>1. IsFiniteSet(DOMAIN stops) /\ IsFiniteSet(markers)
  BY StopIs DEF MapTypeOK
<1>2. IsFiniteSet(DOMAIN visits)
  <2>1. Len(visits) \in Nat /\ DOMAIN visits = 1..Len(visits)
    BY DEF MapTypeOK
  <2> QED
    BY <2>1, FS_Interval
<1>3. IsFiniteSet({i \in DOMAIN stops : stops[i].place = l})
  BY <1>1, FS_Subset
<1>4. IsFiniteSet({i \in DOMAIN visits : visits[i].place = l})
  BY <1>2, FS_Subset
<1>5. IsFiniteSet({v \in markers : v.place = l})
  BY <1>1, FS_Subset
<1>6. FuelStopsAt(l) \in Nat
  BY <1>3, FS_CardinalityType DEF FuelStopsAt, StopsAt
<1>7. WorkshopVisitsAt(l) \in Nat
  BY <1>4, FS_CardinalityType DEF WorkshopVisitsAt
<1>8. ParkedAt(l) \in Nat
  BY <1>5, FS_CardinalityType DEF ParkedAt
<1> QED
  BY <1>6, <1>7, <1>8

LEMMA StopsPlaced ==
    ASSUME MapTypeOK
    PROVE  Len(stops) = Total([l \in Places |-> FuelStopsAt(l)]) + Cardinality(Unlocated)
<1> DEFINE D == {i \in DOMAIN stops : stops[i].place \in Places}
           h == [i \in D |-> stops[i].place]
<1>1. IsFiniteSet(Places)
  BY MapAssumption
<1>2. IsFiniteSet(DOMAIN stops) /\ Cardinality(DOMAIN stops) = Len(stops)
  BY StopIs
<1>3. D \cap Unlocated = {} /\ D \union Unlocated = DOMAIN stops
  BY DEF Unlocated
<1>4. IsFiniteSet(D) /\ IsFiniteSet(Unlocated)
  BY <1>2, <1>3, FS_Subset
<1>5. h \in [D -> Places]
  OBVIOUS
<1>6. \A l \in Places : {i \in D : h[i] = l} = StopsAt(l)
  BY DEF StopsAt
<1> HIDE DEF D, h
<1>7. Cardinality(D) = Total([l \in Places |-> Cardinality({i \in D : h[i] = l})])
  BY <1>1, <1>4, <1>5, CountFibres
<1>8. \A l \in Places : Cardinality({i \in D : h[i] = l}) = FuelStopsAt(l)
  BY <1>6, Zenon DEF FuelStopsAt
<1>9. [l \in Places |-> Cardinality({i \in D : h[i] = l})] = [l \in Places |-> FuelStopsAt(l)]
  BY <1>8
<1>10. Cardinality(D) = Total([l \in Places |-> FuelStopsAt(l)])
  BY <1>7, <1>9, Zenon
<1>11. Cardinality(D \union Unlocated)
         = Cardinality(D) + Cardinality(Unlocated) - Cardinality(D \cap Unlocated)
  BY <1>4, FS_Union
<1>12. Cardinality(D \cap Unlocated) = 0
  BY <1>3, FS_EmptySet
<1>13. Cardinality(D) \in Nat /\ Cardinality(Unlocated) \in Nat
  BY <1>4, FS_CardinalityType
<1>14. Cardinality(D \union Unlocated) = Len(stops)
  BY <1>2, <1>3
<1> QED
  BY <1>10, <1>11, <1>12, <1>13, <1>14

LEMMA VisitsPlaced ==
    ASSUME MapTypeOK
    PROVE  Len(visits) = Total([l \in Places |-> WorkshopVisitsAt(l)])
<1> DEFINE D == DOMAIN visits
           h == [i \in D |-> visits[i].place]
<1>1. IsFiniteSet(Places)
  BY MapAssumption
<1>2. IsFiniteSet(D) /\ Cardinality(D) = Len(visits)
  <2>1. Len(visits) \in Nat /\ DOMAIN visits = 1..Len(visits)
    BY DEF MapTypeOK
  <2>2. /\ IsFiniteSet(1..Len(visits))
        /\ Cardinality(1..Len(visits)) = IF 1 > Len(visits) THEN 0 ELSE Len(visits) - 1 + 1
    BY <2>1, FS_Interval
  <2> QED
    BY <2>1, <2>2
<1>3. \A i \in DOMAIN visits : visits[i] \in VisitRow
  BY DEF MapTypeOK
<1>4. h \in [D -> Places]
  BY <1>3 DEF VisitRow
<1>5. \A l \in Places : {i \in D : h[i] = l} = {i \in DOMAIN visits : visits[i].place = l}
  OBVIOUS
<1> HIDE DEF D, h
<1>6. Cardinality(D) = Total([l \in Places |-> Cardinality({i \in D : h[i] = l})])
  BY <1>1, <1>2, <1>4, CountFibres
<1>7. \A l \in Places : Cardinality({i \in D : h[i] = l}) = WorkshopVisitsAt(l)
  BY <1>5, Zenon DEF WorkshopVisitsAt
<1>8. [l \in Places |-> Cardinality({i \in D : h[i] = l})] = [l \in Places |-> WorkshopVisitsAt(l)]
  BY <1>7
<1> QED
  BY <1>2, <1>6, <1>8, Zenon

LEMMA MarkersPlaced ==
    ASSUME MapTypeOK
    PROVE  Cardinality(markers) = Total([l \in Places |-> ParkedAt(l)])
<1> DEFINE h == [v \in markers |-> v.place]
<1>1. IsFiniteSet(Places) /\ IsFiniteSet(markers)
  BY MapAssumption DEF MapTypeOK
<1>2. h \in [markers -> Places]
  BY DEF MapTypeOK, MarkerRow
<1>3. \A l \in Places : {v \in markers : h[v] = l} = {v \in markers : v.place = l}
  OBVIOUS
<1> HIDE DEF h
<1>4. Cardinality(markers) = Total([l \in Places |-> Cardinality({v \in markers : h[v] = l})])
  BY <1>1, <1>2, CountFibres
<1>5. \A l \in Places : Cardinality({v \in markers : h[v] = l}) = ParkedAt(l)
  BY <1>3, Zenon DEF ParkedAt
<1>6. [l \in Places |-> Cardinality({v \in markers : h[v] = l})] = [l \in Places |-> ParkedAt(l)]
  BY <1>5
<1> QED
  BY <1>4, <1>6, Zenon

LEMMA EveryRecordPlaced ==
    ASSUME MapTypeOK
    PROVE  Len(stops) + Len(visits) + Cardinality(markers) =
              Total([l \in Located |-> LocationsOut[l].fuelStops + LocationsOut[l].maintenanceVisits
                                       + LocationsOut[l].parkedVisits])
              + Total(Ungeocoded)
              + Cardinality(Unlocated)
<1> DEFINE f == [l \in Places |-> FuelStopsAt(l)]
           w == [l \in Places |-> WorkshopVisitsAt(l)]
           p == [l \in Places |-> ParkedAt(l)]
           fw == [l \in Places |-> FuelStopsAt(l) + WorkshopVisitsAt(l)]
           all == [l \in Places |-> VisitsAt(l)]
           shown == [l \in Located |-> LocationsOut[l].fuelStops + LocationsOut[l].maintenanceVisits
                                       + LocationsOut[l].parkedVisits]
<1>1. IsFiniteSet(Places) /\ Located \in SUBSET Places
  BY MapAssumption
<1>2. \A l \in Places : /\ f[l] = FuelStopsAt(l) /\ w[l] = WorkshopVisitsAt(l) /\ p[l] = ParkedAt(l)
                        /\ fw[l] = FuelStopsAt(l) + WorkshopVisitsAt(l)
                        /\ all[l] = FuelStopsAt(l) + WorkshopVisitsAt(l) + ParkedAt(l)
  BY DEF VisitsAt
<1>3. /\ f = [l \in Places |-> f[l]] /\ w = [l \in Places |-> w[l]] /\ p = [l \in Places |-> p[l]]
      /\ fw = [l \in Places |-> fw[l]] /\ all = [l \in Places |-> all[l]]
  OBVIOUS
<1>4. Part(all, Located) = shown
  <2>1. \A l \in Located : LocationsOut[l] = LocationOut(l)
    BY DEF LocationsOut
  <2>2. \A l \in Located : /\ LocationOut(l).fuelStops = FuelStopsAt(l)
                           /\ LocationOut(l).maintenanceVisits = WorkshopVisitsAt(l)
                           /\ LocationOut(l).parkedVisits = ParkedAt(l)
    BY DEF LocationOut
  <2>3. Part(all, Located) = [l \in Located |-> all[l]]
    BY DEF Part
  <2>4. \A l \in Located : all[l] = LocationsOut[l].fuelStops + LocationsOut[l].maintenanceVisits
                                     + LocationsOut[l].parkedVisits
    <3> HIDE DEF all
    <3> QED
      BY <1>1, <1>2, <2>1, <2>2
  <2> HIDE DEF all
  <2> QED
    BY <2>3, <2>4
<1>5. Part(all, Places \ Located) = Ungeocoded
  BY DEF Part, Ungeocoded
<1>6. /\ Len(stops) = Total(f) + Cardinality(Unlocated)
      /\ Len(visits) = Total(w) /\ Cardinality(markers) = Total(p)
  BY StopsPlaced, VisitsPlaced, MarkersPlaced
<1> HIDE DEF f, w, p, fw, all, shown
<1>7. \A l \in Places : FuelStopsAt(l) \in Nat /\ WorkshopVisitsAt(l) \in Nat /\ ParkedAt(l) \in Nat
  BY CountsAre
<1>8. /\ f \in [Places -> Int] /\ w \in [Places -> Int] /\ p \in [Places -> Int]
      /\ fw \in [Places -> Int] /\ all \in [Places -> Int]
  BY <1>2, <1>3, <1>7
<1>9. Total(fw) = Total(f) + Total(w)
  <2>1. \A l \in Places : fw[l] = f[l] + w[l]
    BY <1>2
  <2> QED
    BY <1>1, <1>8, <2>1, TotalPlus
<1>10. Total(all) = Total(fw) + Total(p)
  <2>1. \A l \in Places : all[l] = fw[l] + p[l]
    BY <1>2
  <2> QED
    BY <1>1, <1>8, <2>1, TotalPlus
<1>11. Total(all) = Total(shown) + Total(Ungeocoded)
  <2>1. Total(all) = Total(Part(all, Located)) + Total(Part(all, Places \ Located))
    BY <1>1, <1>8, TotalDisjoint
  <2> QED
    BY <1>4, <1>5, <2>1
<1>12. Total(f) \in Int /\ Total(w) \in Int /\ Total(p) \in Int
  BY <1>1, <1>8, TotalType
<1>13. Cardinality(Unlocated) \in Nat
  <2>1. Unlocated \subseteq DOMAIN stops /\ IsFiniteSet(DOMAIN stops)
    BY StopIs DEF Unlocated
  <2> QED
    BY <2>1, FS_Subset, FS_CardinalityType
<1>14. Len(stops) + Len(visits) + Cardinality(markers)
         = (Total(shown) + Total(Ungeocoded)) + Cardinality(Unlocated)
  BY <1>6, <1>9, <1>10, <1>11, <1>12, <1>13
<1>15. Total(shown) = Total([l \in Located |-> LocationsOut[l].fuelStops
                                  + LocationsOut[l].maintenanceVisits + LocationsOut[l].parkedVisits])
  BY DEF shown
<1> QED
  BY <1>14, <1>15, Zenon

LEMMA SmallestIs ==
    ASSUME NEW S, S \subseteq Int, NEW m \in S, \A n \in S : m <= n
    PROVE  Min(S) = m
<1>1. \E x \in S : \A y \in S : x <= y
  OBVIOUS
<1>2. Min(S) \in S /\ \A y \in S : Min(S) <= y
  BY <1>1, Zenon DEF Min
<1>3. Min(S) \in Int /\ m \in Int /\ Min(S) <= m /\ m <= Min(S)
  BY <1>2
<1> QED
  BY <1>3

LEMMA WayOfBike ==
    ASSUME MapTypeOK, NEW b \in Bikes, NeverFalls(b)
    PROVE  Km(Legs(b)) = Max(Readings(b)) - Min(Readings(b))
<1>1. PICK n : n = Cardinality(Riding(b))
  OBVIOUS
<1>2. PICK route : route = Route(b)
  OBVIOUS
<1>3. n \in Nat /\ \A i \in Riding(b) : \E k \in 1..n : route[k] = i
  BY <1>1, <1>2, RouteIs
<1>4. n # 0
  <2>1. PICK i \in DOMAIN stops : stops[i].bike = b
    BY DEF Bikes
  <2>2. i \in Riding(b)
    BY <2>1 DEF Riding
  <2> QED
    BY <1>3, <2>2
<1>5. 1 \in 1..n /\ n \in 1..n
  BY <1>3, <1>4
<1>6. Km(Legs(b)) = stops[route[n]].odo - stops[route[1]].odo
  BY <1>1, <1>2, <1>4, WayIs
<1>7. \A k \in 1..n : /\ route[k] \in DOMAIN stops /\ stops[route[k]].bike = b
                      /\ stops[route[k]].odo \in Int
  BY <1>1, <1>2, RouteOrdered
<1>8. \A k \in 1..n : /\ stops[route[1]].odo <= stops[route[k]].odo
                      /\ stops[route[k]].odo <= stops[route[n]].odo
  <2> SUFFICES ASSUME NEW k \in 1..n
               PROVE  /\ stops[route[1]].odo <= stops[route[k]].odo
                      /\ stops[route[k]].odo <= stops[route[n]].odo
    OBVIOUS
  <2>1. 1 <= k /\ k <= n
    BY <1>3
  <2> QED
    BY <1>1, <1>2, <1>5, <2>1, RouteOrdered
<1>9. \A o : o \in Readings(b) <=> \E k \in 1..n : o = stops[route[k]].odo
  <2>1. ASSUME NEW o \in Readings(b) PROVE \E k \in 1..n : o = stops[route[k]].odo
    <3>1. PICK i \in Riding(b) : o = stops[i].odo
      BY DEF Readings
    <3> QED
      BY <1>3, <3>1
  <2>2. ASSUME NEW k \in 1..n PROVE stops[route[k]].odo \in Readings(b)
    BY <1>7 DEF Readings, Riding
  <2> QED
    BY <2>1, <2>2
<1>10. Readings(b) \subseteq Int
  BY <1>7, <1>9
<1>11. Max(Readings(b)) = stops[route[n]].odo
  <2>1. PICK m \in Readings(b) : m = stops[route[n]].odo
    BY <1>5, <1>9
  <2>2. \A o \in Readings(b) : o <= m
    BY <1>8, <1>9, <2>1
  <2>3. Max(Readings(b)) = m
    BY <1>10, <2>2, GreatestIs
  <2> QED
    BY <2>1, <2>3
<1>12. Min(Readings(b)) = stops[route[1]].odo
  <2>1. PICK m \in Readings(b) : m = stops[route[1]].odo
    BY <1>5, <1>9
  <2>2. \A o \in Readings(b) : m <= o
    BY <1>8, <1>9, <2>1
  <2>3. Min(Readings(b)) = m
    BY <1>10, <2>2, SmallestIs
  <2> QED
    BY <2>1, <2>3
<1> QED
  BY <1>6, <1>11, <1>12

LEMMA DaysAtIs ==
    ASSUME MapTypeOK, NEW l
    PROVE  DaysAt(l) \subseteq Nat /\ IsFiniteSet(DaysAt(l))
<1>1. PICK S : S = StopsAt(l) /\ IsFiniteSet(S) /\ \A i \in S : stops[i].day \in Nat
  <2>1. StopsAt(l) \subseteq DOMAIN stops /\ IsFiniteSet(DOMAIN stops)
    BY StopIs DEF StopsAt
  <2> QED
    BY <2>1, StopIs, FS_Subset
<1>2. PICK M : M = {m \in markers : m.place = l} /\ IsFiniteSet(M) /\ \A v \in M : v.day \in Nat
  <2>1. {m \in markers : m.place = l} \subseteq markers /\ IsFiniteSet(markers)
    BY DEF MapTypeOK
  <2>2. \A v \in markers : v.day \in Nat
    BY DEF MapTypeOK, MarkerRow
  <2>3. IsFiniteSet({m \in markers : m.place = l})
    BY <2>1, FS_Subset
  <2> QED
    BY <2>2, <2>3
<1>3. PICK V : V = {j \in DOMAIN visits : visits[j].place = l} /\ IsFiniteSet(V)
               /\ \A i \in V : visits[i].day \in Nat
  <2>1. Len(visits) \in Nat /\ DOMAIN visits = 1..Len(visits)
    BY DEF MapTypeOK
  <2>2. IsFiniteSet(DOMAIN visits)
    BY <2>1, FS_Interval
  <2>3. IsFiniteSet({j \in DOMAIN visits : visits[j].place = l})
    BY <2>2, FS_Subset
  <2>4. \A j \in DOMAIN visits : visits[j].day \in Nat
    <3>1. \A j \in DOMAIN visits : visits[j] \in VisitRow
      BY DEF MapTypeOK
    <3> QED
      BY <3>1 DEF VisitRow
  <2> QED
    BY <2>3, <2>4
<1> DEFINE f == [i \in S |-> stops[i].day]
           g == [v \in M |-> v.day]
           h == [i \in V |-> visits[i].day]
<1>4. f = [i \in S |-> f[i]] /\ g = [v \in M |-> g[v]] /\ h = [i \in V |-> h[i]]
  OBVIOUS
<1>5. DaysAt(l) = ({f[i] : i \in S} \union {g[v] : v \in M}) \union {h[i] : i \in V}
  BY <1>1, <1>2, <1>3 DEF DaysAt
<1>6. f \in [S -> Nat] /\ g \in [M -> Nat] /\ h \in [V -> Nat]
  BY <1>1, <1>2, <1>3
<1> HIDE DEF f, g, h
<1>7. IsFiniteSet({f[i] : i \in S})
  BY <1>1, <1>4, ImageFinite
<1>8. IsFiniteSet({g[v] : v \in M})
  BY <1>2, <1>4, ImageFinite
<1>9. IsFiniteSet({h[i] : i \in V})
  BY <1>3, <1>4, ImageFinite
<1>10. IsFiniteSet({f[i] : i \in S} \union {g[v] : v \in M})
  BY <1>7, <1>8, FS_Union
<1>11. IsFiniteSet(DaysAt(l))
  <2>1. IsFiniteSet(({f[i] : i \in S} \union {g[v] : v \in M}) \union {h[i] : i \in V})
    BY <1>9, <1>10, FS_Union
  <2> QED
    BY <1>5, <2>1
<1> QED
  BY <1>5, <1>6, <1>11

LEMMA VisitsInTime ==
    ASSUME MapTypeOK, NEW l \in Located, NEW leg \in AllLegs, stops[leg.to].place = l
    PROVE  leg.day \in LocationsOut[l].firstVisit..LocationsOut[l].lastVisit
<1>1. leg.to \in StopsAt(l) /\ leg.day = stops[leg.to].day
  BY LegOfAll DEF StopsAt
<1>2. PICK d \in DaysAt(l) : d = leg.day
  BY <1>1 DEF DaysAt
<1>3. PICK D \in SUBSET Nat : D = DaysAt(l) /\ IsFiniteSet(D)
  BY DaysAtIs
<1>4. D # {}
  BY <1>2, <1>3
<1>5. Min(D) \in D /\ \A n \in D : Min(D) <= n
  BY <1>4, LeastIs
<1>6. Max(D) \in D /\ \A n \in D : n <= Max(D)
  BY <1>3, <1>4, FiniteMax
<1>7. LocationsOut[l].firstVisit = Min(D) /\ LocationsOut[l].lastVisit = Max(D)
  <2>1. LocationsOut[l] = LocationOut(l)
    BY DEF LocationsOut
  <2>2. LocationOut(l).firstVisit = Min(D)
    BY <1>3, <1>4 DEF LocationOut
  <2>3. LocationOut(l).lastVisit = Max(D)
    BY <1>3, <1>4 DEF LocationOut
  <2> QED
    BY <2>1, <2>2, <2>3
<1> QED
  BY <1>2, <1>3, <1>5, <1>6, <1>7

LEMMA WholeWay == MapTypeOK => LegsAreTheWayRidden
<1> SUFFICES ASSUME MapTypeOK PROVE LegsAreTheWayRidden
  OBVIOUS
<1>1. \A b \in Bikes : NeverFalls(b) => Km(Legs(b)) = Max(Readings(b)) - Min(Readings(b))
  BY WayOfBike
<1>2. \A y \in Years : /\ YearKm(y) = Total([b \in Bikes |-> BikeYearKm(b, y)])
                       /\ YearKm(y) = Total(KmByCountry(y))
  BY LegsByBike, LegsByCountry
<1>3. Km(AllLegs) = Total([y \in Years |-> YearKm(y)])
  BY LegsByYear
<1>4. Km(AllLegs) = Total([d \in DOMAIN Calendar |-> Calendar[d].km])
  BY LegsByDay
<1>5. \A l \in Located : LocationsOut[l].lastVisit # None =>
         \A leg \in AllLegs : stops[leg.to].place = l =>
            leg.day \in LocationsOut[l].firstVisit..LocationsOut[l].lastVisit
  BY VisitsInTime
<1> QED
  BY <1>1, <1>2, <1>3, <1>4, <1>5, EveryRecordPlaced, Zenon DEF LegsAreTheWayRidden

(* However late a stop is logged, no kilometre of a bike is lost or driven  *)
(* twice on the map, years, bikes, countries and calendar divide the same   *)
(* legs, and every record is counted at one place or as unlocated, for any  *)
(* bikes, places, days and odometers (analyze).                             *)
THEOREM MapHoldsTheWay == MapSpec => []LegsAreTheWayRidden
BY MapTypeCorrect, WholeWay, PTL

---------------------------------------------------------------------------
\* The tour walk: what holds of runs finished and under way at the k-th stop.
Positions(n, run) == run \in Seq(1..n) /\ Len(run) >= 1
Finished(route, n, run, k) ==
    /\ Positions(n, run) /\ OneRide(route, run) /\ Last(run) <= k
    /\ \/ HomeSide(route[Last(run)])
       \/ Last(run) < n /\ TooLong(route[Last(run)], route[Last(run) + 1])
UnderWay(route, n, run, k) ==
    /\ Positions(n, run) /\ OneRide(route, run) /\ Last(run) = k
    /\ \A j \in 2..Len(run) : ~HomeSide(route[run[j]])
EndsBefore(route, run, later) ==
    /\ Last(run) <= later[1]
    /\ Last(run) = later[1] => ~Away(route[Last(run)])
InTurn(route, runs) ==
    \A i, j \in DOMAIN runs : i < j => EndsBefore(route, runs[i], runs[j])

Ridden(route, n, walk, k) ==
    /\ walk.finished \in Seq(Seq(1..n))
    /\ \A i \in DOMAIN walk.finished : Finished(route, n, walk.finished[i], k)
    /\ InTurn(route, walk.finished)
    /\ walk.open # <<>> =>
          /\ UnderWay(route, n, walk.open, k)
          /\ \A i \in DOMAIN walk.finished : EndsBefore(route, walk.finished[i], walk.open)
    /\ \A p \in 1..k : Away(route[p]) =>
          \/ \E i \in DOMAIN walk.finished : p \in StopsOf(walk.finished[i])
          \/ walk.open # <<>> /\ p \in StopsOf(walk.open)

LEMMA AwayNotHome == \A i : Away(i) => ~HomeSide(i)
BY DEF Away, HomeSide

\* A run is the positions from its first to its last.
LEMMA RunIs ==
    ASSUME NEW n \in Nat, NEW route, NEW run, Positions(n, run), OneRide(route, run)
    PROVE  /\ Len(run) \in Nat /\ Len(run) >= 1 /\ DOMAIN run = 1..Len(run)
           /\ run[1] \in 1..n /\ Last(run) \in 1..n /\ run[1] <= Last(run)
           /\ Last(run) = run[1] + Len(run) - 1
           /\ \A k \in 1..Len(run) : run[k] = run[1] + k - 1 /\ run[k] \in 1..n
           /\ StopsOf(run) = run[1]..Last(run)
<1>1. Len(run) \in Nat /\ Len(run) >= 1 /\ DOMAIN run = 1..Len(run)
  BY DEF Positions
<1>2. \A k \in 1..Len(run) : run[k] = run[1] + k - 1 /\ run[k] \in 1..n
  <2>1. run \in Seq(1..n)
    BY DEF Positions
  <2>2. \A k \in DOMAIN run : run[k] \in 1..n
    BY <2>1
  <2>3. \A k \in DOMAIN run : run[k] = run[1] + k - 1
    BY DEF OneRide
  <2> QED
    BY <1>1, <2>2, <2>3
<1>3. run[1] \in 1..n /\ Last(run) \in 1..n /\ Last(run) = run[1] + Len(run) - 1
  <2>1. 1 \in 1..Len(run) /\ Len(run) \in 1..Len(run)
    BY <1>1
  <2> QED
    BY <1>2, <2>1 DEF Last
<1>4. StopsOf(run) = run[1]..Last(run)
  <2>1. ASSUME NEW p \in StopsOf(run) PROVE p \in run[1]..Last(run)
    <3>1. PICK k \in 1..Len(run) : p = run[k]
      BY <1>1, <2>1 DEF StopsOf
    <3> QED
      BY <1>1, <1>2, <1>3, <3>1
  <2>2. ASSUME NEW p \in run[1]..Last(run) PROVE p \in StopsOf(run)
    <3>1. PICK k \in 1..Len(run) : k = p - run[1] + 1
      BY <1>1, <1>3
    <3>2. run[k] = p
      BY <1>2, <1>3, <3>1
    <3> QED
      BY <1>1, <3>2 DEF StopsOf
  <2> QED
    BY <2>1, <2>2
<1> QED
  BY <1>1, <1>2, <1>3, <1>4

LEMMA UnderWayIs == \A route, n, run, k : UnderWay(route, n, run, k) => run # <<>>
BY DEF UnderWay, Positions

LEMMA OpenedIs ==
    ASSUME NEW n \in Nat, NEW route, NEW k \in 1..n, NEW run, run = Opened(route, k)
    PROVE  /\ ~Away(route[k]) => run = <<>>
           /\ Away(route[k]) =>
                 /\ UnderWay(route, n, run, k) /\ run # <<>> /\ k \in StopsOf(run)
                 /\ \/ run[1] = k
                    \/ run[1] = k - 1 /\ ~TooLong(route[k - 1], route[k])
<1>1. CASE ~Away(route[k])
  BY <1>1 DEF Opened
<1>2. CASE Away(route[k]) /\ k > 1 /\ ~TooLong(route[k - 1], route[k])
  <2>1. run = <<k - 1, k>> /\ k - 1 \in 1..n
    BY <1>2 DEF Opened
  <2>2. run \in Seq(1..n) /\ Len(run) = 2 /\ run[1] = k - 1 /\ run[2] = k /\ DOMAIN run = 1..2
    BY <2>1
  <2> HIDE <2>1
  <2>3. \A j \in 2..Len(run) : ~HomeSide(route[run[j]])
    BY <1>2, <2>2, AwayNotHome
  <2>4. OneRide(route, run)
    BY <1>2, <2>2 DEF OneRide
  <2>5. UnderWay(route, n, run, k)
    BY <2>2, <2>3, <2>4 DEF UnderWay, Positions, Last
  <2>6. k \in StopsOf(run)
    BY <2>2 DEF StopsOf
  <2> QED
    BY <1>2, <2>2, <2>5, <2>6, UnderWayIs
<1>3. CASE Away(route[k]) /\ ~(k > 1 /\ ~TooLong(route[k - 1], route[k]))
  <2>1. run = <<k>>
    BY <1>3 DEF Opened
  <2>2. run \in Seq(1..n) /\ Len(run) = 1 /\ run[1] = k /\ DOMAIN run = 1..1
    BY <2>1
  <2> HIDE <2>1
  <2>3. \A j \in 2..Len(run) : ~HomeSide(route[run[j]])
    BY <2>2
  <2>4. OneRide(route, run)
    BY <2>2 DEF OneRide
  <2>5. UnderWay(route, n, run, k)
    BY <2>2, <2>3, <2>4 DEF UnderWay, Positions, Last
  <2>6. k \in StopsOf(run)
    BY <2>2 DEF StopsOf
  <2> QED
    BY <1>3, <2>2, <2>5, <2>6, UnderWayIs
<1> QED
  BY <1>1, <1>2, <1>3

\* A stop near in time joins the run under way.
Extends(n, run, longer, m, k) ==
    /\ m \in Nat /\ m >= 1 /\ run[1] \in Int /\ k = run[1] + m - 1
    /\ DOMAIN run = 1..m /\ Len(run) = m
    /\ \A j \in 1..m : run[j] = run[1] + j - 1
    /\ longer \in Seq(1..n) /\ Len(longer) = m + 1 /\ DOMAIN longer = 1..(m + 1)
    /\ \A j \in 1..m : longer[j] = run[j]
    /\ longer[m + 1] = k + 1

RunOn(route, n, run, longer, k) ==
    /\ Positions(n, longer) /\ OneRide(route, longer) /\ Last(longer) = k + 1
    /\ longer # <<>> /\ longer[1] = run[1]
    /\ StopsOf(longer) = StopsOf(run) \union {k + 1}
    /\ ~HomeSide(route[k + 1]) => UnderWay(route, n, longer, k + 1)

LEMMA ExtendsIs ==
    ASSUME NEW n \in Nat, NEW route, NEW k \in 1..(n - 1), NEW run, UnderWay(route, n, run, k)
    PROVE  Extends(n, run, Append(run, k + 1), Len(run), k)
<1>1. PICK m \in Nat : m = Len(run) /\ m >= 1
  BY RunIs DEF UnderWay
<1>2. /\ DOMAIN run = 1..Len(run)
      /\ \A j \in 1..Len(run) : run[j] = run[1] + j - 1
      /\ Last(run) = k /\ run[1] \in 1..n /\ Last(run) = run[1] + Len(run) - 1
  BY RunIs DEF UnderWay
<1>3. run \in Seq(1..n) /\ k + 1 \in 1..n
  BY DEF UnderWay, Positions
<1>4. PICK longer : longer = Append(run, k + 1)
  OBVIOUS
<1>5. /\ longer \in Seq(1..n) /\ Len(longer) = m + 1
      /\ DOMAIN longer = 1..(m + 1)
      /\ \A j \in 1..m : longer[j] = run[j]
      /\ longer[m + 1] = k + 1
  BY <1>1, <1>3, <1>4
<1>6. Extends(n, run, longer, m, k)
  <2>1. run[1] \in Int
    BY <1>2
  <2>2. /\ DOMAIN run = 1..m /\ k = run[1] + m - 1
        /\ \A j \in 1..m : run[j] = run[1] + j - 1
    BY <1>1, <1>2
  <2> QED
    BY <1>1, <1>5, <2>1, <2>2 DEF Extends
<1> QED
  BY <1>1, <1>4, <1>6

LEMMA ExtendedRun ==
    ASSUME NEW n \in Nat, NEW route, NEW k \in 1..(n - 1), NEW run, UnderWay(route, n, run, k),
           ~TooLong(route[k], route[k + 1]), NEW longer, NEW m, Extends(n, run, longer, m, k)
    PROVE  RunOn(route, n, run, longer, k)
<1>1. m \in Nat /\ m >= 1 /\ Len(run) = m
  BY DEF Extends
<1>2. /\ DOMAIN run = 1..m /\ run[1] \in Int /\ k = run[1] + m - 1
      /\ \A j \in 1..m : run[j] = run[1] + j - 1
  BY DEF Extends
<1>3. 1 \in 1..m /\ m \in 1..m
  BY <1>1
<1>4. run[m] = k
  BY <1>1, <1>2, <1>3
<1>5. /\ longer \in Seq(1..n) /\ Len(longer) = m + 1
      /\ DOMAIN longer = 1..(m + 1)
      /\ \A j \in 1..m : longer[j] = run[j]
      /\ longer[m + 1] = k + 1
  BY DEF Extends
<1>6. longer[1] = run[1] /\ Last(longer) = k + 1 /\ longer # <<>>
  BY <1>1, <1>3, <1>5 DEF Last
<1>7. \A j \in 2..m : ~HomeSide(route[longer[j]])
  <2>1. \A j \in 2..m : ~HomeSide(route[run[j]])
    BY <1>1 DEF UnderWay
  <2>2. \A j \in 2..m : j \in 1..m
    OBVIOUS
  <2> QED
    BY <1>5, <2>1, <2>2
<1>8. OneRide(route, longer)
  <2>1. \A j \in DOMAIN longer : longer[j] = longer[1] + j - 1
    <3> SUFFICES ASSUME NEW j \in 1..(m + 1) PROVE longer[j] = longer[1] + j - 1
      BY <1>5
    <3>1. CASE j \in 1..m
      BY <1>2, <1>5, <1>6, <3>1
    <3>2. CASE j = m + 1
      <4>1. longer[j] = k + 1 /\ longer[1] = run[1]
        BY <1>5, <1>6, <3>2
      <4>2. run[1] \in Int /\ k = run[1] + m - 1
        BY <1>2
      <4> QED
        BY <1>1, <3>2, <4>1, <4>2
    <3> QED
      BY <1>1, <3>1, <3>2
  <2>2. \A j \in 1..(Len(longer) - 1) : ~TooLong(route[longer[j]], route[longer[j + 1]])
    <3> SUFFICES ASSUME NEW j \in 1..m PROVE ~TooLong(route[longer[j]], route[longer[j + 1]])
      <4>1. Len(longer) - 1 = m
        BY <1>1, <1>5
      <4> QED
        BY <4>1
    <3>1. CASE j < m
      <4>1. j \in 1..(m - 1) /\ j + 1 \in 1..m
        BY <1>1, <3>1
      <4>2. ~TooLong(route[run[j]], route[run[j + 1]])
        BY <1>1, <4>1 DEF UnderWay, OneRide
      <4> QED
        BY <1>5, <4>1, <4>2
    <3>2. CASE j = m
      <4>1. longer[j] = k /\ longer[j + 1] = k + 1
        BY <1>4, <1>5, <3>2
      <4> QED
        BY <4>1
    <3> QED
      BY <1>1, <3>1, <3>2
  <2>3. \A j \in 2..(Len(longer) - 1) : ~HomeSide(route[longer[j]])
    <3>1. Len(longer) - 1 = m
      BY <1>1, <1>5
    <3> QED
      BY <1>7, <3>1
  <2> QED
    BY <2>1, <2>2, <2>3 DEF OneRide
<1>9. StopsOf(longer) = StopsOf(run) \union {k + 1}
  <2>1. ASSUME NEW p \in StopsOf(longer) PROVE p \in StopsOf(run) \union {k + 1}
    <3>1. PICK j \in 1..(m + 1) : p = longer[j]
      BY <1>5, <2>1 DEF StopsOf
    <3>2. CASE j \in 1..m
      BY <1>2, <1>5, <3>1, <3>2 DEF StopsOf
    <3>3. CASE j = m + 1
      BY <1>5, <3>1, <3>3
    <3> QED
      BY <1>1, <3>2, <3>3
  <2>2. ASSUME NEW p \in StopsOf(run) PROVE p \in StopsOf(longer)
    <3>1. PICK j \in 1..m : p = run[j]
      BY <1>2, <2>2 DEF StopsOf
    <3>2. p = longer[j] /\ j \in DOMAIN longer
      <4>1. j \in 1..(m + 1)
        BY <1>1
      <4> QED
        BY <1>5, <3>1, <4>1
    <3> QED
      BY <3>2 DEF StopsOf
  <2>3. k + 1 \in StopsOf(longer)
    <3>1. m + 1 \in DOMAIN longer
      <4>1. m + 1 \in 1..(m + 1)
        BY <1>1
      <4> QED
        BY <1>5, <4>1
    <3> QED
      BY <1>5, <3>1 DEF StopsOf
  <2> QED
    BY <2>1, <2>2, <2>3
<1>10. ~HomeSide(route[k + 1]) => \A j \in 2..Len(longer) : ~HomeSide(route[longer[j]])
  <2> SUFFICES ASSUME ~HomeSide(route[k + 1]), NEW j \in 2..(m + 1)
               PROVE  ~HomeSide(route[longer[j]])
    BY <1>5
  <2>1. CASE j \in 2..m
    BY <1>7, <2>1
  <2>2. CASE j = m + 1
    BY <1>5, <2>2
  <2> QED
    BY <1>1, <2>1, <2>2
<1>11. Positions(n, longer)
  BY <1>1, <1>5 DEF Positions
<1> QED
  BY <1>6, <1>8, <1>9, <1>10, <1>11 DEF UnderWay, RunOn

LEMMA Joined ==
    ASSUME NEW n \in Nat, NEW route, NEW k \in 1..(n - 1), NEW run, UnderWay(route, n, run, k),
           ~TooLong(route[k], route[k + 1]), NEW longer, longer = Append(run, k + 1)
    PROVE  RunOn(route, n, run, longer, k)
<1>1. PICK m : m = Len(run)
  OBVIOUS
<1>2. Extends(n, run, longer, m, k)
  BY <1>1, ExtendsIs
<1> QED
  BY <1>2, ExtendedRun

LEMMA OneMore == \A m \in Nat : \A j \in 1..(m + 1) : j \in 1..m \/ j = m + 1
OBVIOUS

LEMMA NextInTurn ==
    ASSUME NEW n \in Nat, NEW route, NEW runs \in Seq(Seq(1..n)), InTurn(route, runs),
           NEW run \in Seq(1..n), \A i \in DOMAIN runs : EndsBefore(route, runs[i], run),
           NEW more, more = Append(runs, run)
    PROVE  /\ more \in Seq(Seq(1..n)) /\ InTurn(route, more)
           /\ Len(runs) \in Nat /\ DOMAIN runs = 1..Len(runs) /\ DOMAIN more = 1..(Len(runs) + 1)
           /\ \A i \in DOMAIN runs : i \in DOMAIN more /\ more[i] = runs[i]
           /\ more[Len(runs) + 1] = run
<1>1. PICK S : S = Seq(1..n)
  OBVIOUS
<1>2. runs \in Seq(S) /\ run \in S
  BY <1>1
<1>3. PICK m \in Nat : m = Len(runs)
  BY <1>2
<1>4. /\ more \in Seq(S) /\ DOMAIN runs = 1..m
      /\ DOMAIN more = 1..(m + 1)
      /\ \A i \in 1..m : more[i] = runs[i]
      /\ more[m + 1] = run
  BY <1>2, <1>3
<1>5. InTurn(route, more)
  <2> SUFFICES ASSUME NEW i \in 1..(m + 1), NEW j \in 1..(m + 1), i < j
               PROVE  EndsBefore(route, more[i], more[j])
    BY <1>4 DEF InTurn
  <2>1. i \in 1..m /\ more[i] = runs[i]
    <3>1. i \in 1..m
      OBVIOUS
    <3> QED
      BY <1>4, <3>1
  <2>2. CASE j \in 1..m
    BY <1>4, <2>1, <2>2 DEF InTurn
  <2>3. CASE j = m + 1
    BY <1>4, <2>1, <2>3
  <2> QED
    <3>1. j \in 1..m \/ j = m + 1
      BY OneMore, Zenon
    <3> QED
      BY <2>2, <2>3, <3>1
<1>6. \A i \in DOMAIN runs : i \in DOMAIN more /\ more[i] = runs[i]
  <2>1. \A i \in 1..m : i \in 1..(m + 1)
    BY <1>3
  <2> QED
    BY <1>4, <2>1
<1> QED
  BY <1>1, <1>3, <1>4, <1>5, <1>6

\* The runs so far hold every away stop up to the k-th.
Behind(route, n, runs, k) ==
    /\ runs \in Seq(Seq(1..n)) /\ InTurn(route, runs)
    /\ \A i \in DOMAIN runs : Finished(route, n, runs[i], k)
Covered(route, runs, k) ==
    \A p \in 1..k : Away(route[p]) => \E i \in DOMAIN runs : p \in StopsOf(runs[i])

LEMMA Longer ==
    \A route, n, run : \A k \in Int : Positions(n, run) /\ n \in Nat /\ OneRide(route, run) =>
        (Finished(route, n, run, k) => Finished(route, n, run, k + 1))
<1> SUFFICES ASSUME NEW route, NEW n \in Nat, NEW run, NEW k \in Int, Positions(n, run),
                    OneRide(route, run), Finished(route, n, run, k)
             PROVE  Finished(route, n, run, k + 1)
  OBVIOUS
<1>1. Last(run) \in 1..n /\ Last(run) <= k
  BY RunIs DEF Finished
<1>2. Last(run) <= k + 1
  BY <1>1
<1> QED
  BY <1>2 DEF Finished

LEMMA Reopened ==
    ASSUME NEW n \in Nat, NEW route, NEW k \in 0..(n - 1), NEW runs, Behind(route, n, runs, k),
           Covered(route, runs, k), NEW walk, walk.finished = runs, walk.open = Opened(route, k + 1)
    PROVE  Ridden(route, n, walk, k + 1)
<1>1. PICK o : o = Opened(route, k + 1)
  OBVIOUS
<1>2. k + 1 \in 1..n /\ (k + 1) - 1 = k /\ k \in Int
  OBVIOUS
<1>3. /\ ~Away(route[k + 1]) => o = <<>>
      /\ Away(route[k + 1]) =>
            /\ UnderWay(route, n, o, k + 1) /\ o # <<>> /\ k + 1 \in StopsOf(o)
            /\ o[1] = k + 1 \/ (o[1] = k /\ ~TooLong(route[k], route[k + 1]))
  <2>1. PICK l \in 1..n : l = k + 1 /\ l - 1 = k
    BY <1>2
  <2>2. /\ ~Away(route[l]) => o = <<>>
        /\ Away(route[l]) =>
              /\ UnderWay(route, n, o, l) /\ o # <<>> /\ l \in StopsOf(o)
              /\ o[1] = l \/ (o[1] = l - 1 /\ ~TooLong(route[l - 1], route[l]))
    BY <1>1, <2>1, OpenedIs
  <2> QED
    BY <2>1, <2>2
<1>4. ASSUME NEW i \in DOMAIN runs
      PROVE  Finished(route, n, runs[i], k + 1) /\ (o # <<>> => EndsBefore(route, runs[i], o))
  <2>1. PICK run : run = runs[i]
    OBVIOUS
  <2>2. Finished(route, n, run, k)
    BY <2>1 DEF Behind
  <2>3. Positions(n, run) /\ OneRide(route, run) /\ Last(run) <= k
    BY <2>2 DEF Finished
  <2>4. Last(run) \in 1..n
    BY <2>3, RunIs
  <2>5. Finished(route, n, run, k + 1)
    BY <1>2, <2>2, <2>3, Longer
  <2>6. ASSUME o # <<>> PROVE EndsBefore(route, run, o)
    <3>1. o[1] = k + 1 \/ (o[1] = k /\ ~TooLong(route[k], route[k + 1]))
      BY <1>3, <2>6
    <3>2. Last(run) <= o[1]
      BY <2>3, <2>4, <3>1
    <3>3. ASSUME Last(run) = o[1] PROVE ~Away(route[Last(run)])
      <4>1. Last(run) = k /\ ~TooLong(route[k], route[k + 1])
        BY <2>3, <2>4, <3>1, <3>3
      <4>2. HomeSide(route[Last(run)])
        BY <2>2, <4>1 DEF Finished
      <4> QED
        BY <4>2, AwayNotHome
    <3> QED
      BY <3>2, <3>3 DEF EndsBefore
  <2> QED
    BY <2>1, <2>5, <2>6
<1>5. ASSUME NEW p \in 1..(k + 1), Away(route[p])
      PROVE  \/ \E i \in DOMAIN runs : p \in StopsOf(runs[i])
             \/ o # <<>> /\ p \in StopsOf(o)
  <2>1. p \in 1..k \/ p = k + 1
    OBVIOUS
  <2>2. CASE p \in 1..k
    BY <1>5, <2>2 DEF Covered
  <2>3. CASE p = k + 1
    BY <1>3, <1>5, <2>3
  <2> QED
    BY <2>1, <2>2, <2>3
<1>6. o # <<>> => UnderWay(route, n, o, k + 1)
  BY <1>3
<1>7. runs \in Seq(Seq(1..n)) /\ InTurn(route, runs)
  BY DEF Behind
<1> QED
  BY <1>1, <1>4, <1>5, <1>6, <1>7 DEF Ridden

\* A run that ends is behind the walk with those before it.
LEMMA Closed ==
    ASSUME NEW n \in Nat, NEW route, NEW k \in 0..n, NEW runs, Behind(route, n, runs, k),
           NEW run, Finished(route, n, run, k), \A i \in DOMAIN runs : EndsBefore(route, runs[i], run),
           \A p \in 1..k : Away(route[p]) =>
              (\E i \in DOMAIN runs : p \in StopsOf(runs[i])) \/ p \in StopsOf(run)
    PROVE  Behind(route, n, Append(runs, run), k) /\ Covered(route, Append(runs, run), k)
<1>1. PICK more : more = Append(runs, run)
  OBVIOUS
<1>2. run \in Seq(1..n) /\ runs \in Seq(Seq(1..n)) /\ InTurn(route, runs)
  BY DEF Finished, Positions, Behind
<1>3. PICK m \in Nat : m = Len(runs) /\ DOMAIN runs = 1..m
  BY <1>2, NextInTurn
<1>4. more \in Seq(Seq(1..n)) /\ InTurn(route, more)
  BY <1>1, <1>2, NextInTurn
<1>5. DOMAIN more = 1..(m + 1) /\ more[m + 1] = run
  BY <1>1, <1>2, <1>3, NextInTurn
<1>6. \A i \in DOMAIN runs : i \in DOMAIN more /\ more[i] = runs[i]
  BY <1>1, <1>2, NextInTurn
<1>7. \A i \in DOMAIN more : i \in DOMAIN runs \/ i = m + 1
  BY <1>3, <1>5, OneMore, Zenon
<1>8. m + 1 \in DOMAIN more
  BY <1>3, <1>5
<1>9. \A i \in DOMAIN more : Finished(route, n, more[i], k)
  <2>1. \A i \in DOMAIN runs : Finished(route, n, runs[i], k)
    BY DEF Behind
  <2> QED
    BY <1>5, <1>6, <1>7, <2>1, Zenon
<1>10. Covered(route, more, k)
  <2> SUFFICES ASSUME NEW p \in 1..k, Away(route[p])
               PROVE  \E i \in DOMAIN more : p \in StopsOf(more[i])
    BY DEF Covered
  <2>1. CASE \E i \in DOMAIN runs : p \in StopsOf(runs[i])
    BY <1>6, <2>1, Zenon
  <2>2. CASE p \in StopsOf(run)
    BY <1>5, <1>8, <2>2, Zenon
  <2> QED
    BY <2>1, <2>2
<1> QED
  BY <1>1, <1>4, <1>9, <1>10 DEF Behind

LEMMA Onward ==
    ASSUME NEW n \in Nat, NEW route, NEW k \in 0..(n - 1), NEW walk, Ridden(route, n, walk, k),
           NEW next, next = Walk(route, walk, k + 1)
    PROVE  Ridden(route, n, next, k + 1)
<1>1. PICK F : F = walk.finished
  OBVIOUS
<1>2. PICK O : O = walk.open
  OBVIOUS
<1>3. Behind(route, n, F, k)
  BY <1>1 DEF Ridden, Behind
<1>4. O # <<>> => /\ UnderWay(route, n, O, k)
                  /\ \A i \in DOMAIN F : EndsBefore(route, F[i], O)
  BY <1>1, <1>2 DEF Ridden
<1>5. \A p \in 1..k : Away(route[p]) =>
         \/ \E i \in DOMAIN F : p \in StopsOf(F[i])
         \/ O # <<>> /\ p \in StopsOf(O)
  BY <1>1, <1>2 DEF Ridden
<1>6. k \in 0..n /\ k + 1 \in 0..n /\ k \in Int
  OBVIOUS
<1>7. CASE O = <<>>
  <2>1. next.open = Opened(route, k + 1) /\ next.finished = F
    BY <1>1, <1>2, <1>7 DEF Walk
  <2>2. Covered(route, F, k)
    BY <1>5, <1>7 DEF Covered
  <2> QED
    BY <1>3, <2>1, <2>2, Reopened
<1>8. CASE O # <<>> /\ TooLong(route[Last(O)], route[k + 1])
  <2>1. next.open = Opened(route, k + 1) /\ next.finished = Append(F, O)
    BY <1>1, <1>2, <1>8 DEF Walk
  <2>2. UnderWay(route, n, O, k)
    BY <1>4, <1>8
  <2>3. Last(O) = k /\ k < n /\ k <= k
    BY <1>6, <2>2 DEF UnderWay
  <2>4. Finished(route, n, O, k)
    BY <1>8, <2>2, <2>3 DEF UnderWay, Finished
  <2>5. \A i \in DOMAIN F : EndsBefore(route, F[i], O)
    BY <1>4, <1>8
  <2>6. \A p \in 1..k : Away(route[p]) =>
           (\E i \in DOMAIN F : p \in StopsOf(F[i])) \/ p \in StopsOf(O)
    BY <1>5
  <2>7. Behind(route, n, Append(F, O), k)
    BY <1>3, <1>6, <2>4, <2>5, <2>6, Closed
  <2>8. Covered(route, Append(F, O), k)
    BY <1>3, <1>6, <2>4, <2>5, <2>6, Closed
  <2> QED
    BY <2>1, <2>7, <2>8, Reopened
<1>9. CASE O # <<>> /\ ~TooLong(route[Last(O)], route[k + 1])
  <2>1. UnderWay(route, n, O, k) /\ Last(O) = k
    BY <1>4, <1>9 DEF UnderWay
  <2>2. k \in 1..(n - 1)
    <3>1. k \in 1..n
      BY <2>1, RunIs DEF UnderWay
    <3> QED
      BY <3>1
  <2>3. ~TooLong(route[k], route[k + 1])
    BY <1>9, <2>1
  <2>4. PICK longer : longer = Append(O, k + 1)
    OBVIOUS
  <2>5. RunOn(route, n, O, longer, k)
    BY <2>1, <2>2, <2>3, <2>4, Joined
  <2>6. \A i \in DOMAIN F : EndsBefore(route, F[i], longer)
    BY <1>4, <1>9, <2>5 DEF EndsBefore, RunOn
  <2>7. \A p \in 1..(k + 1) : Away(route[p]) =>
           (\E i \in DOMAIN F : p \in StopsOf(F[i])) \/ p \in StopsOf(longer)
    <3> SUFFICES ASSUME NEW p \in 1..(k + 1), Away(route[p])
                 PROVE  (\E i \in DOMAIN F : p \in StopsOf(F[i])) \/ p \in StopsOf(longer)
      OBVIOUS
    <3>1. p \in 1..k \/ p = k + 1
      OBVIOUS
    <3>2. StopsOf(longer) = StopsOf(O) \union {k + 1}
      BY <2>5 DEF RunOn
    <3> QED
      BY <1>5, <3>1, <3>2
  <2>8. Behind(route, n, F, k + 1)
    <3>1. ASSUME NEW i \in DOMAIN F PROVE Finished(route, n, F[i], k + 1)
      <4>1. Finished(route, n, F[i], k)
        BY <1>3 DEF Behind
      <4> QED
        BY <1>6, <4>1, Longer DEF Finished
    <3> QED
      BY <1>3, <3>1 DEF Behind
  <2>9. CASE HomeSide(route[k + 1])
    <3>1. next.open = <<>> /\ next.finished = Append(F, longer)
      BY <1>1, <1>2, <1>9, <2>4, <2>9 DEF Walk
    <3>2. Finished(route, n, longer, k + 1)
      BY <1>6, <2>5, <2>9 DEF RunOn, Finished
    <3>3. Behind(route, n, Append(F, longer), k + 1)
      BY <1>6, <2>6, <2>7, <2>8, <3>2, Closed
    <3>4. Covered(route, Append(F, longer), k + 1)
      BY <1>6, <2>6, <2>7, <2>8, <3>2, Closed
    <3> QED
      BY <3>1, <3>3, <3>4 DEF Ridden, Behind, Covered
  <2>10. CASE ~HomeSide(route[k + 1])
    <3>1. next.open = longer /\ next.finished = F
      BY <1>1, <1>2, <1>9, <2>4, <2>10 DEF Walk
    <3>2. UnderWay(route, n, longer, k + 1) /\ longer # <<>>
      BY <2>5, <2>10 DEF RunOn
    <3> QED
      BY <2>6, <2>7, <2>8, <3>1, <3>2 DEF Ridden, Behind
  <2> QED
    BY <2>9, <2>10
<1> QED
  BY <1>7, <1>8, <1>9

\* The walk of a route, step by step.
Strolled(route, n) ==
    CHOOSE w : w = [k \in 0..n |-> IF k = 0 THEN [open |-> <<>>, finished |-> <<>>]
                                   ELSE Walk(route, w[k - 1], k)]

LEMMA StrolledExists ==
    ASSUME NEW route, NEW n \in Nat
    PROVE  /\ Strolled(route, n)[0] = [open |-> <<>>, finished |-> <<>>]
           /\ \A k \in 1..n : Strolled(route, n)[k] = Walk(route, Strolled(route, n)[k - 1], k)
<1>1. PICK a : a = [open |-> <<>>, finished |-> <<>>]
  OBVIOUS
<1> DEFINE Is(w, m) == w = [k \in 0..m |-> IF k = 0 THEN a ELSE Walk(route, w[k - 1], k)]
           G == {m \in 0..n : \E w : Is(w, m)}
<1>2. 0 \in G
  <2>1. PICK w : w = [k \in 0..0 |-> a]
    OBVIOUS
  <2>2. Is(w, 0)
    BY <2>1
  <2> HIDE DEF Is
  <2> QED
    BY <2>2
<1>3. ASSUME NEW m \in 0..(n - 1), m \in G PROVE m + 1 \in G
  <2>1. PICK w : Is(w, m)
    BY <1>3
  <2>2. PICK v : v = [k \in 0..(m + 1) |-> IF k = m + 1 THEN Walk(route, w[m], m + 1) ELSE w[k]]
    OBVIOUS
  <2>3. \A k \in 0..m : v[k] = w[k]
    BY <2>2
  <2>4. \A k \in 0..(m + 1) : v[k] = IF k = 0 THEN a ELSE Walk(route, v[k - 1], k)
    <3> SUFFICES ASSUME NEW k \in 0..(m + 1)
                 PROVE  v[k] = IF k = 0 THEN a ELSE Walk(route, v[k - 1], k)
      OBVIOUS
    <3>1. CASE k = m + 1
      <4>1. v[k] = Walk(route, w[m], m + 1) /\ k - 1 = m /\ k # 0
        BY <2>2, <3>1
      <4>2. v[m] = w[m]
        BY <2>3
      <4> QED
        BY <3>1, <4>1, <4>2
    <3>2. CASE k \in 0..m
      <4>1. w[k] = IF k = 0 THEN a ELSE Walk(route, w[k - 1], k)
        BY <2>1, <3>2
      <4>2. k # 0 => k - 1 \in 0..m
        BY <3>2
      <4> QED
        BY <2>3, <3>2, <4>1, <4>2
    <3> QED
      BY <3>1, <3>2
  <2>5. Is(v, m + 1)
    BY <2>2, <2>4
  <2> HIDE DEF Is
  <2> QED
    BY <2>5
<1>4. n \in G
  <2> HIDE DEF G
  <2> QED
    BY <1>2, <1>3, UpTo
<1>5. Is(Strolled(route, n), n)
  BY <1>1, <1>4 DEF Strolled
<1> DEFINE w == Strolled(route, n)
<1>6. \A k \in 0..n : w[k] = IF k = 0 THEN a ELSE Walk(route, w[k - 1], k)
  <2> HIDE DEF w
  <2> QED
    BY <1>5 DEF w
<1> HIDE DEF w
<1> QED
  BY <1>1, <1>6 DEF w

LEMMA AlwaysRidden ==
    ASSUME NEW n \in Nat, NEW route
    PROVE  Ridden(route, n, Strolled(route, n)[n], n)
<1> DEFINE w == Strolled(route, n)
           G == {k \in 0..n : Ridden(route, n, w[k], k)}
<1>1. 0 \in G
  <2>1. PICK a : a = w[0] /\ a = [open |-> <<>>, finished |-> <<>>]
    BY StrolledExists
  <2>2. a.open = <<>> /\ a.finished = <<>>
    BY <2>1
  <2>3. a.finished \in Seq(Seq(1..n)) /\ DOMAIN a.finished = {}
    BY <2>2
  <2>4. \A p \in 1..0 : FALSE
    OBVIOUS
  <2>5. Ridden(route, n, a, 0)
    BY <2>2, <2>3, <2>4 DEF Ridden, InTurn
  <2> HIDE DEF w
  <2>6. Ridden(route, n, w[0], 0)
    BY <2>1, <2>5
  <2>7. 0 \in 0..n
    OBVIOUS
  <2> QED
    BY <2>6, <2>7
<1>2. ASSUME NEW k \in 0..(n - 1), k \in G PROVE k + 1 \in G
  <2>1. k + 1 \in 1..n /\ (k + 1) - 1 = k /\ k + 1 \in 0..n
    OBVIOUS
  <2>2. w[k + 1] = Walk(route, w[(k + 1) - 1], k + 1)
    BY <2>1, StrolledExists
  <2>3. w[k + 1] = Walk(route, w[k], k + 1)
    BY <2>1, <2>2
  <2>4. Ridden(route, n, w[k], k)
    BY <1>2
  <2> HIDE DEF w
  <2>5. Ridden(route, n, w[k + 1], k + 1)
    BY <2>3, <2>4, Onward
  <2>6. PICK l \in 0..n : l = k + 1
    BY <2>1
  <2>7. Ridden(route, n, w[l], l)
    BY <2>5, <2>6
  <2>8. l \in G
    BY <2>7
  <2> HIDE DEF G
  <2> QED
    BY <2>6, <2>8
<1>3. \A k \in 0..n : k \in G
  <2> HIDE DEF G
  <2> QED
    BY <1>1, <1>2, UpTo
<1> QED
  BY <1>3

AllRuns(route, n, runs) ==
    /\ runs \in Seq(Seq(1..n)) /\ InTurn(route, runs) /\ Covered(route, runs, n)
    /\ \A k \in DOMAIN runs :
          Positions(n, runs[k]) /\ OneRide(route, runs[k]) /\ Whole(route, runs[k])

LEMMA FinishedWhole ==
    ASSUME NEW n \in Nat, NEW route, Len(route) = n, NEW run, NEW k, Finished(route, n, run, k)
    PROVE  Positions(n, run) /\ OneRide(route, run) /\ Whole(route, run)
BY DEF Finished, Whole

LEMMA RunsAndLast ==
    ASSUME NEW n \in Nat, NEW route, Len(route) = n, NEW F, Behind(route, n, F, n),
           NEW O, UnderWay(route, n, O, n), \A k \in DOMAIN F : EndsBefore(route, F[k], O),
           \A p \in 1..n : Away(route[p]) =>
              (\E k \in DOMAIN F : p \in StopsOf(F[k])) \/ p \in StopsOf(O),
           NEW runs, runs = Append(F, O)
    PROVE  AllRuns(route, n, runs)
<1>1. /\ F \in Seq(Seq(1..n)) /\ InTurn(route, F)
      /\ \A k \in DOMAIN F : Finished(route, n, F[k], n)
  BY DEF Behind
<1>2. \A k \in DOMAIN F : Positions(n, F[k]) /\ OneRide(route, F[k]) /\ Whole(route, F[k])
  BY <1>1, FinishedWhole
<1>3. Positions(n, O) /\ OneRide(route, O) /\ Whole(route, O) /\ O \in Seq(1..n)
  BY DEF UnderWay, Whole, Positions
<1>4. PICK m \in Nat : m = Len(F) /\ DOMAIN F = 1..m
  BY <1>1, <1>3, NextInTurn
<1>5. runs \in Seq(Seq(1..n)) /\ InTurn(route, runs)
  BY <1>1, <1>3, NextInTurn
<1>6. DOMAIN runs = 1..(m + 1) /\ runs[m + 1] = O
  BY <1>1, <1>3, <1>4, NextInTurn
<1>7. \A k \in DOMAIN F : k \in DOMAIN runs /\ runs[k] = F[k]
  BY <1>1, <1>3, NextInTurn
<1>8. \A k \in DOMAIN runs : k \in DOMAIN F \/ k = m + 1
  BY <1>4, <1>6, OneMore, Zenon
<1>9. m + 1 \in DOMAIN runs
  <2>1. m + 1 \in 1..(m + 1)
    BY <1>4
  <2> QED
    BY <1>6, <2>1
<1>10. \A k \in DOMAIN runs :
          Positions(n, runs[k]) /\ OneRide(route, runs[k]) /\ Whole(route, runs[k])
  BY <1>2, <1>3, <1>6, <1>7, <1>8, Zenon
<1>11. Covered(route, runs, n)
  <2> SUFFICES ASSUME NEW p \in 1..n, Away(route[p])
               PROVE  \E k \in DOMAIN runs : p \in StopsOf(runs[k])
    BY DEF Covered
  <2>1. CASE \E k \in DOMAIN F : p \in StopsOf(F[k])
    BY <1>7, <2>1, Zenon
  <2>2. CASE p \in StopsOf(O)
    BY <1>6, <1>9, <2>2, Zenon
  <2> QED
    BY <2>1, <2>2
<1> QED
  BY <1>5, <1>10, <1>11 DEF AllRuns

LEMMA RunsOfWalk ==
    ASSUME NEW n \in Nat, NEW route, Len(route) = n, NEW walk, Ridden(route, n, walk, n),
           NEW runs,
           runs = IF walk.open = <<>> THEN walk.finished ELSE Append(walk.finished, walk.open)
    PROVE  AllRuns(route, n, runs)
<1>1. PICK F : F = walk.finished
  OBVIOUS
<1>2. PICK O : O = walk.open
  OBVIOUS
<1>3. Behind(route, n, F, n)
  BY <1>1 DEF Ridden, Behind
<1>4. \A p \in 1..n : Away(route[p]) =>
         \/ \E k \in DOMAIN F : p \in StopsOf(F[k])
         \/ O # <<>> /\ p \in StopsOf(O)
  BY <1>1, <1>2 DEF Ridden
<1>5. CASE O = <<>>
  <2>1. runs = F
    BY <1>1, <1>2, <1>5
  <2>2. \A k \in DOMAIN F : Positions(n, F[k]) /\ OneRide(route, F[k]) /\ Whole(route, F[k])
    BY <1>3, FinishedWhole DEF Behind
  <2> QED
    BY <1>3, <1>4, <1>5, <2>1, <2>2 DEF AllRuns, Covered, Behind
<1>6. CASE O # <<>>
  <2>1. PICK more : more = Append(F, O)
    OBVIOUS
  <2>2. UnderWay(route, n, O, n) /\ \A k \in DOMAIN F : EndsBefore(route, F[k], O)
    BY <1>1, <1>2, <1>6 DEF Ridden
  <2>3. \A p \in 1..n : Away(route[p]) =>
           (\E k \in DOMAIN F : p \in StopsOf(F[k])) \/ p \in StopsOf(O)
    BY <1>4
  <2>4. AllRuns(route, n, more)
    BY <1>3, <2>1, <2>2, <2>3, RunsAndLast
  <2>5. runs = more
    BY <1>1, <1>2, <1>6, <2>1
  <2> QED
    BY <2>4, <2>5
<1> QED
  BY <1>5, <1>6

LEMMA RunsAre ==
    ASSUME MapTypeOK, NEW bike, NEW n, n = Cardinality(Riding(bike)),
           NEW route, route = Route(bike)
    PROVE  AllRuns(route, n, Runs(bike))
<1>1. n \in Nat /\ Len(route) = n
  BY RouteIs
<1>2. PICK walk : walk = Strolled(route, n)[n]
  OBVIOUS
<1>3. Ridden(route, n, walk, n)
  BY <1>1, <1>2, AlwaysRidden
<1>4. Runs(bike) = LET w == Strolled(Route(bike), Len(Route(bike)))[Len(Route(bike))]
                   IN IF w.open = <<>> THEN w.finished ELSE Append(w.finished, w.open)
  BY DEF Runs, Strolled
<1>5. Strolled(Route(bike), Len(Route(bike)))[Len(Route(bike))] = walk
  BY <1>1, <1>2
<1>6. Runs(bike) = IF walk.open = <<>> THEN walk.finished ELSE Append(walk.finished, walk.open)
  BY <1>4, <1>5
<1> QED
  BY <1>1, <1>3, <1>6, RunsOfWalk

LEMMA PositionOnce ==
    ASSUME NEW n \in Nat, NEW route, NEW runs, AllRuns(route, n, runs),
           NEW j \in DOMAIN runs, NEW k \in DOMAIN runs, j < k,
           NEW p, p \in StopsOf(runs[j]), p \in StopsOf(runs[k])
    PROVE  p = Last(runs[j]) /\ p = runs[k][1] /\ ~Away(route[p])
<1>1. PICK r : r = runs[j]
  OBVIOUS
<1>2. PICK s : s = runs[k]
  OBVIOUS
<1>3. Positions(n, r) /\ OneRide(route, r) /\ Positions(n, s) /\ OneRide(route, s)
  BY <1>1, <1>2 DEF AllRuns
<1>4. EndsBefore(route, r, s)
  BY <1>1, <1>2 DEF AllRuns, InTurn
<1>5. p \in r[1]..Last(r) /\ r[1] \in 1..n /\ Last(r) \in 1..n
  BY <1>1, <1>3, RunIs
<1>6. p \in s[1]..Last(s) /\ s[1] \in 1..n /\ Last(s) \in 1..n
  BY <1>2, <1>3, RunIs
<1>7. Last(r) <= s[1] /\ p \in Int
  BY <1>4, <1>5 DEF EndsBefore
<1>8. p = Last(r) /\ p = s[1]
  BY <1>5, <1>6, <1>7
<1> QED
  BY <1>1, <1>2, <1>4, <1>8 DEF EndsBefore

LEMMA OneRunEach ==
    ASSUME NEW n \in Nat, NEW route, NEW runs, AllRuns(route, n, runs),
           NEW p \in 1..n, Away(route[p])
    PROVE  Cardinality({k \in DOMAIN runs : p \in StopsOf(runs[k])}) = 1
<1>1. PICK m \in DOMAIN runs : p \in StopsOf(runs[m])
  BY DEF AllRuns, Covered
<1>2. DOMAIN runs \subseteq Int
  BY DEF AllRuns
<1>3. ASSUME NEW k \in DOMAIN runs, p \in StopsOf(runs[k]) PROVE k = m
  <2>1. ~(k < m)
    BY <1>1, <1>3, PositionOnce
  <2>2. ~(m < k)
    BY <1>1, <1>3, PositionOnce
  <2> QED
    BY <1>2, <2>1, <2>2
<1>4. {k \in DOMAIN runs : p \in StopsOf(runs[k])} = {m}
  BY <1>1, <1>3
<1> QED
  BY <1>4, FS_Singleton

LEMMA ApartButHome ==
    ASSUME NEW n \in Nat, NEW route, NEW runs, AllRuns(route, n, runs),
           NEW j \in DOMAIN runs, NEW k \in DOMAIN runs, j < k
    PROVE  ShareAtMostHome(runs[j], runs[k])
<1>1. \A p : p \in StopsOf(runs[j]) /\ p \in StopsOf(runs[k]) => p = Last(runs[j]) /\ p = runs[k][1]
  BY PositionOnce
<1> QED
  BY <1>1 DEF ShareAtMostHome

LEMMA DayTripIs ==
    ASSUME MapTypeOK, NEW bike, NEW route, route = Route(bike), NEW runs, runs = Runs(bike),
           NEW k \in DayTrips(bike), NEW i \in StopsOf(runs[k])
    PROVE  stops[route[i]].day = Starts(route, runs[k])
<1>1. PICK n : n = Cardinality(Riding(bike))
  OBVIOUS
<1>2. n \in Nat /\ AllRuns(route, n, runs)
  BY <1>1, RouteIs, RunsAre
<1>3. k \in DOMAIN runs /\ Ends(route, runs[k]) <= Starts(route, runs[k])
  BY DEF DayTrips
<1>4. PICK run : run = runs[k]
  OBVIOUS
<1>5. Positions(n, run) /\ OneRide(route, run)
  BY <1>2, <1>3, <1>4 DEF AllRuns
<1>6. /\ run[1] \in 1..n /\ Last(run) \in 1..n /\ StopsOf(run) = run[1]..Last(run)
  BY <1>2, <1>5, RunIs
<1>7. PICK f \in 1..n : f = run[1]
  BY <1>6
<1>8. PICK t \in 1..n : t = Last(run)
  BY <1>6
<1>9. i \in 1..n /\ f <= i /\ i <= t
  BY <1>2, <1>4, <1>6, <1>7, <1>8
<1>10. /\ stops[route[f]].day <= stops[route[i]].day /\ stops[route[i]].day <= stops[route[t]].day
       /\ stops[route[f]].day \in Nat /\ stops[route[i]].day \in Nat /\ stops[route[t]].day \in Nat
  BY <1>1, <1>9, RouteOrdered
<1>11. stops[route[t]].day <= stops[route[f]].day /\ Starts(route, runs[k]) = stops[route[f]].day
  BY <1>3, <1>4, <1>7, <1>8 DEF Starts, Ends
<1> QED
  BY <1>10, <1>11

LEMMA ToursApart ==
    ASSUME MapTypeOK, NEW bike, NEW j \in DOMAIN Tours(bike), NEW k \in DOMAIN Tours(bike), j < k
    PROVE  /\ Tours(bike)[j].id # Tours(bike)[k].id
           /\ Tours(bike)[j].legs \cap Tours(bike)[k].legs = {}
<1>1. PICK n : n = Cardinality(Riding(bike))
  OBVIOUS
<1>2. PICK route : route = Route(bike)
  OBVIOUS
<1>3. PICK runs : runs = Runs(bike)
  OBVIOUS
<1>4. n \in Nat /\ AllRuns(route, n, runs)
  BY <1>1, <1>2, <1>3, RouteIs, RunsAre
<1>5. /\ j \in DOMAIN runs /\ k \in DOMAIN runs
      /\ Ends(route, runs[j]) > Starts(route, runs[j])
      /\ Tours(bike)[j] = TourOf(bike, route, runs[j])
      /\ Tours(bike)[k] = TourOf(bike, route, runs[k])
  BY <1>2, <1>3 DEF Tours
<1>6. PICK r : r = runs[j]
  OBVIOUS
<1>7. PICK s : s = runs[k]
  OBVIOUS
<1>8. Positions(n, r) /\ OneRide(route, r) /\ Positions(n, s) /\ OneRide(route, s)
  BY <1>4, <1>5, <1>6, <1>7 DEF AllRuns
<1>9. Last(r) <= s[1]
  BY <1>4, <1>5, <1>6, <1>7 DEF AllRuns, InTurn, EndsBefore
<1>10. /\ Len(r) \in Nat /\ r[1] \in 1..n /\ Last(r) \in 1..n /\ Last(r) = r[1] + Len(r) - 1
       /\ \A a \in 1..Len(r) : r[a] = r[1] + a - 1 /\ r[a] \in 1..n
  BY <1>4, <1>8, RunIs
<1>11. /\ Len(s) \in Nat /\ s[1] \in 1..n
       /\ \A c \in 1..Len(s) : s[c] = s[1] + c - 1 /\ s[c] \in 1..n
  BY <1>4, <1>8, RunIs
<1>12. Starts(route, r) # Starts(route, s)
  <2>1. PICK f \in 1..n : f = r[1]
    BY <1>10
  <2>2. PICK t \in 1..n : t = Last(r)
    BY <1>10
  <2>3. PICK u \in 1..n : u = s[1]
    BY <1>11
  <2>4. t <= u
    BY <1>9, <2>2, <2>3
  <2>5. /\ stops[route[t]].day <= stops[route[u]].day
        /\ stops[route[t]].day \in Nat /\ stops[route[u]].day \in Nat
    BY <1>1, <1>2, <2>4, RouteOrdered
  <2>6. stops[route[f]].day \in Nat
    BY <1>1, <1>2, RouteOrdered
  <2>7. stops[route[t]].day > stops[route[f]].day
    BY <1>5, <1>6, <2>1, <2>2 DEF Starts, Ends
  <2> QED
    BY <2>1, <2>3, <2>5, <2>6, <2>7 DEF Starts
<1>13. /\ TourOf(bike, route, r).id = <<bike, Starts(route, r)>>
       /\ TourOf(bike, route, s).id = <<bike, Starts(route, s)>>
  BY DEF TourOf
<1>14. TourOf(bike, route, r).id # TourOf(bike, route, s).id
  BY <1>12, <1>13
<1>15. ASSUME NEW leg \in TourOf(bike, route, r).legs, leg \in TourOf(bike, route, s).legs
       PROVE  FALSE
  <2>1. PICK a \in 1..(Len(r) - 1) : leg.from = route[r[a]]
    BY DEF TourOf
  <2>2. PICK c \in 1..(Len(s) - 1) : leg.from = route[s[c]]
    BY <1>15 DEF TourOf
  <2>3. a \in 1..Len(r) /\ c \in 1..Len(s)
    BY <1>10, <1>11
  <2>4. PICK x \in 1..n : x = r[a] /\ x = r[1] + a - 1
    BY <1>10, <2>3
  <2>5. PICK y \in 1..n : y = s[c] /\ y = s[1] + c - 1
    BY <1>11, <2>3
  <2>6. route[x] = route[y]
    BY <2>1, <2>2, <2>4, <2>5
  <2>7. x = y
    BY <1>1, <1>2, <2>6, RouteOrdered
  <2>8. x < Last(r)
    BY <1>10, <2>1, <2>4
  <2>9. s[1] <= y
    BY <1>11, <2>2, <2>5
  <2> QED
    BY <1>9, <1>10, <1>11, <2>7, <2>8, <2>9
<1>16. TourOf(bike, route, r).legs \cap TourOf(bike, route, s).legs = {}
  BY <1>15
<1> QED
  BY <1>5, <1>6, <1>7, <1>14, <1>16

LEMMA RidesCovered == MapTypeOK => ToursCoverTheRides
<1> SUFFICES ASSUME MapTypeOK, NEW b \in Bikes
             PROVE  LET route == Route(b)
                        runs == Runs(b)
                        tours == Tours(b)
                    IN
                    /\ \A i \in DOMAIN route :
                          Away(route[i]) =>
                              Cardinality({k \in DOMAIN runs : i \in StopsOf(runs[k])}) = 1
                    /\ \A k \in DOMAIN runs : OneRide(route, runs[k]) /\ Whole(route, runs[k])
                    /\ \A k, l \in DOMAIN runs : k < l => ShareAtMostHome(runs[k], runs[l])
                    /\ \A k \in DayTrips(b) : \A i \in StopsOf(runs[k]) :
                          stops[route[i]].day = Starts(route, runs[k])
                    /\ \A k, l \in DOMAIN tours : k # l =>
                          tours[k].id # tours[l].id /\ tours[k].legs \cap tours[l].legs = {}
  BY DEF ToursCoverTheRides
<1> DEFINE route == Route(b)
           runs == Runs(b)
           tours == Tours(b)
<1>1. PICK n \in Nat : n = Cardinality(Riding(b)) /\ DOMAIN route = 1..n
  BY RouteIs
<1>2. AllRuns(route, n, runs)
  BY <1>1, RunsAre
<1>3. \A i \in DOMAIN route :
         Away(route[i]) => Cardinality({k \in DOMAIN runs : i \in StopsOf(runs[k])}) = 1
  <2> HIDE DEF route, runs
  <2> QED
    BY <1>1, <1>2, OneRunEach
<1>4. \A k \in DOMAIN runs : OneRide(route, runs[k]) /\ Whole(route, runs[k])
  <2> HIDE DEF route, runs
  <2> QED
    BY <1>2 DEF AllRuns
<1>5. \A k, l \in DOMAIN runs : k < l => ShareAtMostHome(runs[k], runs[l])
  <2> HIDE DEF route, runs
  <2> QED
    BY <1>2, ApartButHome
<1>6. \A k \in DayTrips(b) : \A i \in StopsOf(runs[k]) :
         stops[route[i]].day = Starts(route, runs[k])
  BY DayTripIs
<1>7. \A k, l \in DOMAIN tours : k # l =>
         tours[k].id # tours[l].id /\ tours[k].legs \cap tours[l].legs = {}
  <2>1. DOMAIN tours \subseteq Int
    <3>1. DOMAIN tours \subseteq DOMAIN runs
      BY DEF Tours
    <3>2. DOMAIN runs \subseteq Int
      <4> HIDE DEF route, runs
      <4> QED
        BY <1>2 DEF AllRuns
    <3> QED
      BY <3>1, <3>2
  <2>2. \A k, l \in DOMAIN tours : k < l =>
           tours[k].id # tours[l].id /\ tours[k].legs \cap tours[l].legs = {}
    BY ToursApart
  <2> HIDE DEF route, runs, tours
  <2> SUFFICES ASSUME NEW k \in DOMAIN tours, NEW l \in DOMAIN tours, k # l
               PROVE  tours[k].id # tours[l].id /\ tours[k].legs \cap tours[l].legs = {}
    OBVIOUS
  <2>3. k < l \/ l < k
    BY <2>1
  <2> QED
    BY <2>2, <2>3
<1> QED
  BY <1>3, <1>4, <1>5, <1>6, <1>7, Zenon

(* Every stop away from home is part of one ride, no ride is cut in two,    *)
(* and no leg is part of two tours, for any bikes, places, gaps and order   *)
(* of logging (the tour walk of analyze).                                   *)
THEOREM ToursHoldTheRides == MapSpec => []ToursCoverTheRides
BY MapTypeCorrect, RidesCovered, PTL
===============================================================================
