---------------------------- MODULE McpTools_proofs ----------------------------
(***************************************************************************)
(* For any number of rows, texts, keys, requests and calls.  The records:  *)
(* a markup spells its text, a tombstone is final, a key names one row,    *)
(* and the order of the owners has no ties.  The tools over them: they do  *)
(* nothing to the tables that the apps' handlers cannot do, calls that     *)
(* repeat a key agree, and every row a call inserted is in the audit log.  *)
(***************************************************************************)
EXTENDS McpTools, FiniteSetTheorems, WellFoundedInduction, TLAPS

---------------------------------------------------------------------------
(* The records of BikeRecords.                                              *)

\* What a stored row is, whichever handler wrote it last.
Sound(x) ==
    /\ Fits(x.text, x.markup)
    /\ x.table = "detail" => x.text # None /\ x.markup = None
    /\ x.deleted => x.table \in Keyed
    /\ x.key # None => x.table \in Keyed

\* What a handler carries between its statements.
Carries(q) ==
    /\ q.pc = "idle" => q = Idle
    /\ q.pc \in {"write", "copy"} => Fits(q.text, q.markup)
    /\ q.pc \in {"write", "insert", "copy"} => q.table \in Tables
    /\ q.pc = "copy" => q.table = "torque" /\ q.key = None
    /\ q.pc = "write" => q.row \in Rows /\ (q.table = "detail" => q.text # None)
    /\ q.key # None => q.table \in Keyed
    /\ IsFiniteSet(q.owners)

KeyNamesOneRow ==
    \A v, w \in Rows :
       rows[v].table = rows[w].table /\ rows[v].key = rows[w].key /\ rows[v].key # None => v = w

\* The ids in use: finitely many at any time, so that a last owner exists.
Used == {w \in Rows : rows[w].table # "none"}

RowsInv ==
    /\ rows \in [Rows -> RowType]
    /\ outdated \in BOOLEAN
    /\ \A w \in Rows : Sound(rows[w])
    /\ KeyNamesOneRow
    /\ IsFiniteSet(Used)
    /\ OwnersInOrder
ReqInv ==
    /\ req \in [Requests -> ReqType]
    /\ \A r \in Requests : Carries(req[r])
Inv == RowsInv /\ ReqInv

---------------------------------------------------------------------------
\* Finite sets.

Above(S, f, w) == {v \in S : f[v] > f[w]}

\* A function from a finite set to the naturals has a greatest value: the elements
\* above a given one are subsets of S, and one of these subsets is minimal.
LEMMA Highest ==
    ASSUME NEW S, IsFiniteSet(S), S # {}, NEW f \in [S -> Nat]
    PROVE  \E w \in S : \A v \in S : f[v] <= f[w]
<1> DEFINE T == {Above(S, f, w) : w \in S}
           R == StrictSubsetOrdering(S)
<1>1. IsWellFoundedOn(R, SUBSET S)
  <2>1. FiniteSubsetsOf(S) = SUBSET S
    BY FS_FiniteSubsetsOfFinite
  <2>2. IsWellFoundedOn(StrictSubsetOrdering(S), FiniteSubsetsOf(S))
    BY FS_StrictSubsetOrderingWellFounded
  <2> QED
    BY <2>1, <2>2, Zenon
<1>2. T \subseteq SUBSET S /\ T # {}
  <2>1. \A w \in S : Above(S, f, w) \subseteq S
    BY DEF Above
  <2> QED
    BY <2>1
<1>3. PICK x \in T : \A y \in T : ~ (<<y, x>> \in R)
  <2> HIDE DEF T, R
  <2> QED
    BY <1>1, <1>2, WFMin, Zenon
<1>4. PICK w \in S : x = Above(S, f, w)
  BY <1>3
<1>5. \A v \in S : f[v] <= f[w]
  <2> SUFFICES ASSUME NEW v \in S, f[v] > f[w] PROVE FALSE
    BY SMT
  <2>1. Above(S, f, v) \subseteq x
    BY <1>4, SMT DEF Above
  <2>2. v \in x /\ v \notin Above(S, f, v)
    BY <1>4, SMT DEF Above
  <2>3. Above(S, f, v) \in T
    OBVIOUS
  <2>4. <<Above(S, f, v), x>> \in R
    BY <2>1, <2>2, <2>3, <1>2, <1>3, Zenon DEF StrictSubsetOrdering
  <2> QED
    BY <2>3, <2>4, <1>3, Zenon
<1> QED
  BY <1>5

\* The next place is a number above every owner's.
LEMMA NextIsAbove ==
    ASSUME Inv
    PROVE  NextOrder \in Nat /\ \A w \in Of("owner") : rows[w].order < NextOrder
<1> DEFINE O == Of("owner")
           f == [w \in O |-> rows[w].order]
           N == {rows[w].order : w \in O}
<1>1. \A w \in O : w \in Rows /\ rows[w].order \in Nat
  BY DEF Inv, RowsInv, RowType, Of
<1>2. CASE O = {}
  BY <1>2, SMT DEF NextOrder
<1>3. CASE O # {}
  <2>1. IsFiniteSet(O)
    <3>1. O \in SUBSET Used
      BY DEF Of, Used
    <3> QED
      BY <3>1, FS_Subset, Zenon DEF Inv, RowsInv
  <2>2. f \in [O -> Nat]
    BY <1>1
  <2>3. PICK w \in O : \A v \in O : f[v] <= f[w]
    <3> HIDE DEF O, f
    <3> QED
      BY <1>3, <2>1, <2>2, Highest, Zenon
  <2>4. \E n \in N : \A v \in O : rows[v].order <= n
    BY <2>3
  <2> DEFINE top == CHOOSE n \in N : \A v \in O : rows[v].order <= n
  <2>5. top \in N /\ \A v \in O : rows[v].order <= top
    <3> HIDE DEF N, O
    <3> QED
      BY <2>4, Zenon
  <2>6. top \in Nat
    BY <2>5, <1>1
  <2>7. NextOrder = 1 + top
    BY <1>3, Zenon DEF NextOrder
  <2> HIDE DEF top, N
  <2> QED
    BY <2>5, <2>6, <2>7, <1>1, SMT
<1> QED
  BY <1>2, <1>3

---------------------------------------------------------------------------
\* Steps: what there is to show of a handler that goes on, and of a row that is written.

LEMMA IdleSound ==
    /\ Idle \in ReqType /\ Carries(Idle)
    /\ NoRow \in RowType /\ Sound(NoRow) /\ NoRow.table = "none" /\ NoRow.key = None
<1>1. Idle \in ReqType
  BY Zenon DEF Idle, ReqType
<1>2. Carries(Idle)
  BY FS_EmptySet DEF Carries, Idle, Keyed
<1>3. NoRow \in RowType
  BY SMT DEF NoRow, RowType
<1> QED
  BY <1>1, <1>2, <1>3 DEF NoRow, Sound, Fits

LEMMA GoesOn ==
    ASSUME Inv, NEW r \in Requests, NEW q \in ReqType, Carries(q), req' = [req EXCEPT ![r] = q]
    PROVE  ReqInv'
<1>1. req \in [Requests -> ReqType] /\ \A s \in Requests : Carries(req[s])
  BY DEF Inv, ReqInv
<1>2. \A s \in Requests : req'[s] \in ReqType /\ Carries(req'[s])
  BY <1>1
<1>3. req' \in [Requests -> ReqType]
  BY <1>1
<1> QED
  BY <1>2, <1>3 DEF ReqInv

LEMMA Finished ==
    ASSUME Inv, NEW r \in Requests, Finish(r)
    PROVE  ReqInv'
BY GoesOn, IdleSound DEF Finish

LEMMA Began ==
    ASSUME Inv, NEW r \in Requests, NEW q \in ReqType, Carries(q), Begin(r, q)
    PROVE  Inv'
<1>1. ReqInv'
  BY GoesOn DEF Begin
<1>2. RowsInv'
  BY DEF Begin, Inv, RowsInv, KeyNamesOneRow, Used, OwnersInOrder, Of
<1> QED
  BY <1>1, <1>2 DEF Inv

LEMMA RowWritten ==
    ASSUME Inv, NEW w \in Rows, NEW x \in RowType, Sound(x),
           rows' = [rows EXCEPT ![w] = x], UNCHANGED outdated,
           x.key # None =>
              \A v \in Rows \ {w} : ~(rows[v].table = x.table /\ rows[v].key = x.key),
           x.table = "owner" =>
              outdated \/ \A v \in Of("owner") \ {w} : rows[v].order # x.order
    PROVE  RowsInv'
<1>1. RowsInv
  BY DEF Inv
<1>2. /\ rows' \in [Rows -> RowType] /\ rows'[w] = x
      /\ \A v \in Rows \ {w} : rows'[v] = rows[v]
  BY <1>1 DEF RowsInv
<1>3. \A v \in Rows : Sound(rows'[v])
  BY <1>1, <1>2 DEF RowsInv
<1>4. KeyNamesOneRow'
  <2> SUFFICES ASSUME NEW u \in Rows, NEW v \in Rows,
                      rows'[u].table = rows'[v].table, rows'[u].key = rows'[v].key,
                      rows'[u].key # None
               PROVE  u = v
    BY DEF KeyNamesOneRow
  <2>1. CASE u = w \/ v = w
    BY <2>1, <1>2
  <2>2. CASE u # w /\ v # w
    BY <2>2, <1>1, <1>2 DEF RowsInv, KeyNamesOneRow
  <2> QED
    BY <2>1, <2>2
<1>5. IsFiniteSet(Used')
  <2>1. IsFiniteSet(Used \union {w})
    BY <1>1, FS_AddElement DEF RowsInv
  <2>2. Used' \in SUBSET (Used \union {w})
    BY <1>2 DEF Used
  <2> QED
    BY <2>1, <2>2, FS_Subset, Zenon
<1>6. OwnersInOrder'
  <2> SUFFICES ASSUME ~outdated, NEW u \in Of("owner")', NEW v \in Of("owner")',
                      rows'[u].order = rows'[v].order
               PROVE  u = v
    BY DEF OwnersInOrder
  <2>1. u \in Rows /\ v \in Rows /\ rows'[u].table = "owner" /\ rows'[v].table = "owner"
    BY DEF Of
  <2>2. CASE u = w \/ v = w
    BY <2>1, <2>2, <1>2 DEF Of
  <2>3. CASE u # w /\ v # w
    BY <2>1, <2>3, <1>1, <1>2 DEF RowsInv, OwnersInOrder, Of
  <2> QED
    BY <2>2, <2>3
<1> QED
  BY <1>1, <1>2, <1>3, <1>4, <1>5, <1>6 DEF RowsInv

---------------------------------------------------------------------------
\* Creates.

LEMMA CreatedIsSound ==
    ASSUME NEW q \in ReqType, Carries(q), q.pc \in {"insert", "copy"},
           NEW text \in Texts \union {None}, NEW markup \in Texts \union {None},
           Fits(text, markup), q.table \in Plain => text # None
    PROVE  /\ Created(q, text, markup) \in RowType
           /\ Sound(Created(q, text, markup))
           /\ Created(q, text, markup).table = q.table
           /\ Created(q, text, markup).key = q.key
<1> DEFINE m == IF q.table \in Plain THEN None ELSE markup
           x == [NoRow EXCEPT !.table = q.table, !.text = text, !.key = q.key, !.markup = m]
<1>1. m \in Texts \union {None} /\ Fits(text, m) /\ (q.table = "detail" => m = None)
  BY DEF Fits, Plain
<1>2. q.table \in Tables /\ q.key \in Keys \union {None} /\ (q.key # None => q.table \in Keyed)
  BY DEF ReqType, Carries
<1> HIDE DEF m
<1>3. x \in RowType
  BY <1>1, <1>2, IdleSound, Zenon DEF RowType
<1>4. x.table = q.table /\ x.text = text /\ x.key = q.key /\ x.markup = m /\ ~x.deleted
  BY DEF NoRow
<1>5. Sound(x)
  BY <1>1, <1>2, <1>4 DEF Sound, Plain
<1> QED
  BY <1>3, <1>4, <1>5 DEF Created, m

LEMMA InsertStep ==
    ASSUME Inv, NEW r \in Requests, NEW w \in Rows,
           NEW text \in Texts \union {None}, NEW markup \in Texts \union {None},
           Insert(r, w, text, markup)
    PROVE  Inv'
<1> DEFINE q == req[r]
           x == Created(q, text, markup)
<1>1. q \in ReqType /\ Carries(q) /\ q.pc = "insert" /\ q.table # "owner"
  BY DEF Inv, ReqInv, Insert
<1>2. x \in RowType /\ Sound(x) /\ x.table = q.table /\ x.key = q.key
  BY <1>1, CreatedIsSound DEF Insert
<1>3. RowsInv'
  <2>1. CASE KeyIsFree(q)
    <3>1. rows' = [rows EXCEPT ![w] = x] /\ UNCHANGED outdated
      BY <2>1 DEF Insert
    <3>2. x.key # None =>
            \A v \in Rows \ {w} : ~(rows[v].table = x.table /\ rows[v].key = x.key)
      BY <2>1, <1>2 DEF KeyIsFree, Of
    <3> HIDE DEF x
    <3> QED
      BY <1>1, <1>2, <3>1, <3>2, RowWritten
  <2>2. CASE ~KeyIsFree(q)
    BY <2>2 DEF Insert, Inv, RowsInv, KeyNamesOneRow, Used, OwnersInOrder, Of
  <2> QED
    BY <2>1, <2>2
<1> QED
  BY <1>3, Finished DEF Inv, Insert

LEMMA InsertOwnerStep ==
    ASSUME Inv, NEW r \in Requests, NEW w \in Rows,
           NEW text \in Texts \union {None}, NEW markup \in Texts \union {None},
           InsertOwner(r, w, text, markup)
    PROVE  Inv'
<1> DEFINE q == req[r]
           y == Created(q, text, markup)
           x == [y EXCEPT !.order = NextOrder]
<1>1. q \in ReqType /\ Carries(q) /\ q.pc = "insert" /\ q.table = "owner"
  BY DEF Inv, ReqInv, InsertOwner
<1>2. y \in RowType /\ Sound(y) /\ y.table = "owner" /\ y.key = q.key
  BY <1>1, CreatedIsSound DEF InsertOwner, Plain
<1>3. q.key = None
  BY <1>1 DEF Carries, Keyed
<1>4. rows' = [rows EXCEPT ![w] = x] /\ UNCHANGED outdated
  BY DEF InsertOwner
<1>5. NextOrder \in Nat /\ \A v \in Of("owner") : rows[v].order < NextOrder
  BY NextIsAbove
<1> HIDE DEF y
<1>6. x \in RowType
  BY <1>2, <1>5, Zenon DEF RowType
<1>7. /\ x.table = y.table /\ x.text = y.text /\ x.markup = y.markup /\ x.key = y.key
      /\ x.deleted = y.deleted /\ x.order = NextOrder
  BY <1>2, <1>5 DEF RowType
<1>8. Sound(x)
  BY <1>2, <1>7 DEF Sound
<1>9. \A v \in Of("owner") : rows[v].order # x.order
  <2>1. \A v \in Of("owner") : rows[v].order \in Nat
    BY DEF Inv, RowsInv, RowType, Of
  <2> QED
    BY <2>1, <1>5, <1>7, SMT
<1> HIDE DEF x
<1>10. RowsInv'
  BY <1>2, <1>3, <1>4, <1>6, <1>7, <1>8, <1>9, RowWritten
<1> QED
  BY <1>10, Finished DEF Inv, InsertOwner

LEMMA InsertCopyStep ==
    ASSUME Inv, NEW r \in Requests, NEW w \in Rows, InsertCopy(r, w)
    PROVE  Inv'
<1> DEFINE q == req[r]
           x == Created(q, q.text, q.markup)
<1>1. q \in ReqType /\ Carries(q) /\ q.pc = "copy"
  BY DEF Inv, ReqInv, InsertCopy
<1>2. /\ q.table = "torque" /\ q.key = None /\ Fits(q.text, q.markup)
      /\ q.text \in Texts \union {None} /\ q.markup \in Texts \union {None}
  BY <1>1 DEF Carries, ReqType
<1>3. x \in RowType /\ Sound(x) /\ x.table = "torque" /\ x.key = None
  BY <1>1, <1>2, CreatedIsSound DEF Plain
<1>4. rows' = [rows EXCEPT ![w] = x] /\ UNCHANGED outdated
  BY DEF InsertCopy
<1> HIDE DEF x
<1>5. RowsInv'
  BY <1>3, <1>4, RowWritten
<1> QED
  BY <1>5, Finished DEF Inv, InsertCopy

LEMMA CreateStep ==
    ASSUME Inv, NEW r \in Requests, Create(r)
    PROVE  Inv'
<1>1. CASE \E table \in Tables : WithoutKey(r, table)
  <2> PICK table \in Tables : WithoutKey(r, table)
    BY <1>1
  <2> DEFINE q == [Idle EXCEPT !.pc = "insert", !.table = table]
  <2>1. q \in ReqType
    BY IdleSound, Zenon DEF ReqType
  <2>2. Carries(q)
    BY FS_EmptySet DEF Carries, Idle
  <2> QED
    BY <2>1, <2>2, Began DEF WithoutKey
<1>2. CASE \E table \in Keyed, k \in Keys : LookUpKey(r, table, k)
  <2> PICK table \in Keyed, k \in Keys : LookUpKey(r, table, k)
    BY <1>2
  <2> DEFINE q == [Idle EXCEPT !.pc = "insert", !.table = table, !.key = k]
  <2>1. table \in Tables
    BY DEF Tables, Keyed
  <2>2. q \in ReqType
    BY <2>1, IdleSound, Zenon DEF ReqType
  <2>3. Carries(q)
    BY <2>1, FS_EmptySet DEF Carries, Idle
  <2> QED
    BY <2>2, <2>3, Began DEF LookUpKey
<1>3. CASE \E w \in Rows, text \in Texts \union {None} : \E markup \in {None, text} :
              Insert(r, w, text, markup) \/ InsertOwner(r, w, text, markup)
  BY <1>3, InsertStep, InsertOwnerStep
<1>4. ASSUME NEW w \in Rows, ReadSource(r, w) PROVE Inv'
  <2> DEFINE q == [Idle EXCEPT !.pc = "copy", !.table = "torque", !.text = rows[w].text,
                              !.markup = rows[w].markup]
  <2>1. rows[w].text \in Texts \union {None} /\ rows[w].markup \in Texts \union {None}
    BY DEF Inv, RowsInv, RowType
  <2>2. Fits(rows[w].text, rows[w].markup) /\ "torque" \in Tables
    BY DEF Inv, RowsInv, Sound, Tables
  <2>3. q \in ReqType
    BY <2>1, <2>2, IdleSound, Zenon DEF ReqType
  <2>4. Carries(q)
    BY <2>2, FS_EmptySet DEF Carries, Idle
  <2> QED
    BY <2>3, <2>4, Began, <1>4 DEF ReadSource
<1> QED
  BY <1>1, <1>2, <1>3, <1>4, InsertCopyStep DEF Create

---------------------------------------------------------------------------
\* Updates: what is written back was read from the row, and a markup that is kept
\* goes with the text it was read with.

LEMMA WriteStep ==
    ASSUME Inv, NEW r \in Requests, NEW table \in Tables, NEW new \in Texts \union {None},
           NEW sent \in BOOLEAN, NEW markup \in Texts \union {None},
           table = "detail" => new # None,
           Write(r, table, new, sent, markup)
    PROVE  Inv' /\ \A w \in Rows : rows[w].deleted => rows'[w].deleted
<1> DEFINE q == req[r]
           m == IF table \in Plain THEN None
                ELSE ResolveMarkup(sent, markup, new, q.text, q.markup)
           x == [rows[q.row] EXCEPT !.text = new, !.markup = m]
<1>1. q \in ReqType /\ Carries(q) /\ q.pc = "write" /\ q.table = table
  BY DEF Inv, ReqInv, Write
<1>2. q.row \in Rows /\ Fits(q.text, q.markup) /\ q.markup \in Texts \union {None}
  BY <1>1 DEF Carries, ReqType
<1>3. m \in Texts \union {None} /\ Fits(new, m) /\ (table = "detail" => m = None)
  BY <1>2 DEF Write, ResolveMarkup, Fits, Plain
<1>4. rows[q.row] \in RowType /\ Sound(rows[q.row])
  BY <1>2 DEF Inv, RowsInv
<1>5. UNCHANGED outdated /\ ReqInv'
  BY Finished DEF Write
<1>6. CASE rows[q.row].table = table
  <2>1. rows' = [rows EXCEPT ![q.row] = x]
    BY <1>6 DEF Write
  <2> HIDE DEF m
  <2>2. x \in RowType
    BY <1>3, <1>4, Zenon DEF RowType
  <2>3. /\ x.table = rows[q.row].table /\ x.text = new /\ x.markup = m
        /\ x.key = rows[q.row].key /\ x.deleted = rows[q.row].deleted
        /\ x.order = rows[q.row].order
    BY <1>4 DEF RowType
  <2>4. Sound(x)
    BY <1>3, <1>4, <1>6, <2>3 DEF Sound
  <2>5. x.key # None =>
          \A v \in Rows \ {q.row} : ~(rows[v].table = x.table /\ rows[v].key = x.key)
    BY <1>2, <2>3 DEF Inv, RowsInv, KeyNamesOneRow
  <2>6. x.table = "owner" =>
          outdated \/ \A v \in Of("owner") \ {q.row} : rows[v].order # x.order
    BY <1>2, <2>3 DEF Inv, RowsInv, OwnersInOrder, Of
  <2> HIDE DEF x
  <2>7. RowsInv'
    BY <1>2, <1>5, <2>1, <2>2, <2>4, <2>5, <2>6, RowWritten
  <2>8. \A w \in Rows : rows[w].deleted => rows'[w].deleted
    BY <1>2, <2>1, <2>3 DEF Inv, RowsInv
  <2> QED
    BY <1>5, <2>7, <2>8 DEF Inv
<1>7. CASE rows[q.row].table # table
  BY <1>5, <1>7 DEF Write, Inv, RowsInv, KeyNamesOneRow, Used, OwnersInOrder, Of
<1> QED
  BY <1>6, <1>7

LEMMA UpdateStep ==
    ASSUME Inv, NEW r \in Requests, Update(r)
    PROVE  Inv' /\ \A w \in Rows : rows[w].deleted => rows'[w].deleted
<1>1. req[r].text \in Texts \union {None}
  BY DEF Inv, ReqInv, ReqType
<1>2. {"issue", "torque", "detail", "owner", "expense"} \subseteq Tables
  BY DEF Tables
<1>3. ASSUME NEW w \in Rows, ReadRow(r, w)
      PROVE  Inv' /\ \A v \in Rows : rows[v].deleted => rows'[v].deleted
  <2> DEFINE q == [Idle EXCEPT !.pc = "write", !.table = rows[w].table, !.row = w,
                              !.text = rows[w].text, !.markup = rows[w].markup]
  <2>1. /\ rows[w].text \in Texts \union {None} /\ rows[w].markup \in Texts \union {None}
        /\ rows[w].table \in Tables
    BY <1>3 DEF Inv, RowsInv, RowType, ReadRow
  <2>2. /\ Fits(rows[w].text, rows[w].markup)
        /\ rows[w].table = "detail" => rows[w].text # None
    BY DEF Inv, RowsInv, Sound
  <2>3. q \in ReqType
    BY <2>1, IdleSound, Zenon DEF ReqType
  <2>4. Carries(q)
    BY <2>1, <2>2, FS_EmptySet DEF Carries, Idle
  <2>5. UNCHANGED rows
    BY <1>3 DEF ReadRow, Begin
  <2> QED
    BY <2>3, <2>4, <2>5, Began, <1>3 DEF ReadRow
<1>4. ASSUME NEW text \in Texts \union {None}, NEW sent \in BOOLEAN,
             NEW markup \in Texts \union {None},
             \/ UpdateIssue(r, text, sent, markup)
             \/ UpdateTorqueSpec(r, text, sent, markup)
             \/ UpdatePreviousOwner(r, text, sent, markup)
             \/ UpdateExpense(r, text, sent, markup)
      PROVE  Inv' /\ \A w \in Rows : rows[w].deleted => rows'[w].deleted
  <2>1. PICK table \in Tables \ {"detail"}, new \in Texts \union {None} :
           Write(r, table, new, sent, markup)
    BY <1>1, <1>2, <1>4, Zenon
       DEF UpdateIssue, UpdateTorqueSpec, UpdatePreviousOwner, UpdateExpense
  <2> QED
    BY <2>1, WriteStep
<1>5. ASSUME NEW text \in Texts \union {None}, UpdateDetail(r, text)
      PROVE  Inv' /\ \A w \in Rows : rows[w].deleted => rows'[w].deleted
  <2> DEFINE new == IF text = None THEN req[r].text ELSE text
  <2>1. Write(r, "detail", new, FALSE, None)
    BY <1>5 DEF UpdateDetail
  <2>2. req[r].text # None
    BY <2>1 DEF Write, Inv, ReqInv, Carries
  <2>3. new \in Texts \union {None} /\ new # None
    BY <1>1, <2>2
  <2> HIDE DEF new
  <2> QED
    BY <1>2, <2>1, <2>3, WriteStep
<1> QED
  BY <1>3, <1>4, <1>5 DEF Update

---------------------------------------------------------------------------
\* Deletes.

LEMMA SoftDeleteStep ==
    ASSUME Inv, NEW w \in Rows, SoftDelete(w)
    PROVE  Inv' /\ \A v \in Rows : rows[v].deleted => rows'[v].deleted
<1> DEFINE x == [rows[w] EXCEPT !.deleted = TRUE]
<1>1. rows[w] \in RowType /\ Sound(rows[w]) /\ rows[w].table \in Keyed
  BY DEF Inv, RowsInv, SoftDelete
<1>2. rows' = [rows EXCEPT ![w] = x] /\ UNCHANGED outdated /\ UNCHANGED req
  BY DEF SoftDelete
<1>3. x \in RowType
  BY <1>1, Zenon DEF RowType
<1>4. /\ x.table = rows[w].table /\ x.text = rows[w].text /\ x.markup = rows[w].markup
      /\ x.key = rows[w].key /\ x.deleted
  BY <1>1 DEF RowType
<1>5. Sound(x)
  BY <1>1, <1>4 DEF Sound
<1>6. x.key # None =>
        \A v \in Rows \ {w} : ~(rows[v].table = x.table /\ rows[v].key = x.key)
  BY <1>4 DEF Inv, RowsInv, KeyNamesOneRow
<1>7. x.table # "owner"
  BY <1>1, <1>4 DEF Keyed
<1> HIDE DEF x
<1>8. RowsInv'
  BY <1>2, <1>3, <1>5, <1>6, <1>7, RowWritten
<1> QED
  BY <1>2, <1>4, <1>8 DEF Inv, ReqInv, RowsInv

LEMMA HardDeleteStep ==
    ASSUME Inv, NEW w \in Rows, HardDelete(w)
    PROVE  Inv' /\ \A v \in Rows : rows[v].deleted => rows'[v].deleted
<1> DEFINE x == [NoRow EXCEPT !.table = "gone"]
<1>1. rows[w] \in RowType /\ ~rows[w].deleted
  BY DEF Inv, RowsInv, HardDelete, Sound, RowType
<1>2. rows' = [rows EXCEPT ![w] = x] /\ UNCHANGED outdated /\ UNCHANGED req
  BY DEF HardDelete
<1>3. x \in RowType
  BY IdleSound, Zenon DEF RowType
<1>4. /\ x.table = "gone" /\ x.key = None /\ x.text = None /\ x.markup = None
      /\ ~x.deleted
  BY DEF NoRow
<1>5. Sound(x)
  BY <1>4 DEF Sound, Fits
<1> HIDE DEF x
<1>6. RowsInv'
  BY <1>2, <1>3, <1>4, <1>5, RowWritten
<1> QED
  BY <1>1, <1>2, <1>6 DEF Inv, ReqInv, RowsInv

---------------------------------------------------------------------------
\* Reordering.

LEMMA CheckOrderStep ==
    ASSUME Inv, NEW r \in Requests, CheckOrder(r)
    PROVE  Inv'
<1> DEFINE O == Of("owner")
           q == [Idle EXCEPT !.pc = "reorder", !.table = "owner", !.owners = O]
<1>1. O \in SUBSET Rows /\ O \in SUBSET Used
  BY DEF Of, Used
<1>2. IsFiniteSet(O)
  BY <1>1, FS_Subset, Zenon DEF Inv, RowsInv
<1> HIDE DEF O
<1>3. q \in ReqType
  BY <1>1, IdleSound, Zenon DEF ReqType, Tables
<1>4. /\ q.pc = "reorder" /\ q.owners = O /\ q.key = None
  BY DEF Idle
<1>5. Carries(q)
  BY <1>2, <1>4 DEF Carries
<1>6. Begin(r, q)
  BY DEF CheckOrder, O
<1> QED
  BY <1>3, <1>5, <1>6, Began

LEMMA WriteOrderStep ==
    ASSUME Inv, NEW r \in Requests, NEW f \in Numberings(req[r].owners), WriteOrder(r, f)
    PROVE  Inv' /\ \A w \in Rows : rows[w].deleted => rows'[w].deleted
<1> DEFINE O == req[r].owners
           top == Cardinality(O) - 1
           x(w) == [rows[w] EXCEPT !.order = f[w]]
<1>1. O \in SUBSET Rows /\ IsFiniteSet(O)
  BY DEF Inv, ReqInv, ReqType, Carries
<1>2. f \in [O -> 0..top] /\ \A v, w \in O : f[v] = f[w] => v = w
  BY DEF Numberings
<1>3. \A w \in O : f[w] \in Nat
  <2>1. top \in Int
    BY <1>1, FS_CardinalityType, SMT
  <2> HIDE DEF top
  <2> QED
    BY <2>1, <1>2, SMT
<1>4. \A w \in Rows :
        rows'[w] = IF w \in O \intersect Of("owner") THEN x(w) ELSE rows[w]
  BY DEF WriteOrder
<1>5. \A w \in Rows : rows[w] \in RowType /\ Sound(rows[w])
  BY DEF Inv, RowsInv
<1>6. \A w \in Rows : rows'[w] \in RowType
  <2>1. \A w \in O : x(w) \in RowType
    BY <1>1, <1>3, <1>5, Zenon DEF RowType
  <2> HIDE DEF x, O
  <2> QED
    BY <2>1, <1>4, <1>5
<1>7. \A w \in Rows :
        /\ rows'[w].table = rows[w].table /\ rows'[w].text = rows[w].text
        /\ rows'[w].markup = rows[w].markup /\ rows'[w].key = rows[w].key
        /\ rows'[w].deleted = rows[w].deleted
        /\ w \in O \intersect Of("owner") => rows'[w].order = f[w]
  <2>1. \A w \in Rows :
          /\ x(w).table = rows[w].table /\ x(w).text = rows[w].text
          /\ x(w).markup = rows[w].markup /\ x(w).key = rows[w].key
          /\ x(w).deleted = rows[w].deleted /\ x(w).order = f[w]
    BY <1>5 DEF RowType
  <2> HIDE DEF x, O
  <2> QED
    BY <2>1, <1>4
<1>8. rows' \in [Rows -> RowType]
  <2>1. DOMAIN rows' = Rows /\ rows' = [w \in DOMAIN rows' |-> rows'[w]]
    BY DEF WriteOrder
  <2> QED
    BY <2>1, <1>6
<1>9. outdated' = (outdated \/ O # Of("owner")) /\ ReqInv'
  BY Finished DEF WriteOrder
<1>10. Of("owner")' = Of("owner") /\ Used' = Used
  BY <1>7 DEF Of, Used
<1> HIDE DEF O, top, x
<1>11. OwnersInOrder'
  <2> SUFFICES ASSUME ~outdated' PROVE \A v, w \in Of("owner") :
                      rows'[v].order = rows'[w].order => v = w
    BY <1>10 DEF OwnersInOrder
  <2>1. O = Of("owner")
    BY <1>9
  <2>2. \A w \in Of("owner") : rows'[w].order = f[w]
    BY <1>1, <1>7, <2>1
  <2> QED
    BY <1>2, <2>1, <2>2
<1>12. KeyNamesOneRow'
  BY <1>7 DEF Inv, RowsInv, KeyNamesOneRow
<1>13. \A w \in Rows : Sound(rows'[w])
  BY <1>5, <1>7 DEF Sound
<1>14. IsFiniteSet(Used') /\ outdated' \in BOOLEAN
  BY <1>9, <1>10 DEF Inv, RowsInv
<1>15. RowsInv'
  BY <1>8, <1>11, <1>12, <1>13, <1>14 DEF RowsInv
<1> QED
  BY <1>7, <1>9, <1>15 DEF Inv

---------------------------------------------------------------------------
LEMMA InitInv == Init => Inv
<1> SUFFICES ASSUME Init PROVE Inv
  OBVIOUS
<1>1. \A w \in Rows : rows[w] = NoRow
  BY DEF Init
<1>2. rows \in [Rows -> RowType] /\ req \in [Requests -> ReqType]
  BY IdleSound DEF Init
<1>3. Used = {} /\ Of("owner") = {}
  BY <1>1, IdleSound DEF Used, Of
<1>4. IsFiniteSet(Used)
  BY <1>3, FS_EmptySet
<1>5. KeyNamesOneRow /\ OwnersInOrder
  BY <1>1, <1>3, IdleSound DEF KeyNamesOneRow, OwnersInOrder
<1> QED
  BY <1>1, <1>2, <1>4, <1>5, IdleSound DEF Inv, RowsInv, ReqInv, Init

\* Every step keeps the invariant and every tombstone.
LEMMA NextInv ==
    ASSUME Inv, [Next]_vars
    PROVE  Inv' /\ \A w \in Rows : rows[w].deleted => rows'[w].deleted
<1> DEFINE Stay == \A w \in Rows : rows[w].deleted => rows'[w].deleted
<1>1. ASSUME NEW r \in Requests, Create(r) PROVE Inv' /\ Stay
  <2>1. Inv'
    BY <1>1, CreateStep
  <2>2. \A w \in Rows : rows'[w] = rows[w] \/ rows[w] = NoRow
    BY <1>1 DEF Create, WithoutKey, LookUpKey, Insert, InsertOwner, ReadSource, InsertCopy,
                Begin, Inv, RowsInv
  <2>3. ~NoRow.deleted
    BY DEF NoRow
  <2> QED
    BY <2>1, <2>2, <2>3
<1>2. ASSUME NEW r \in Requests, Update(r) PROVE Inv' /\ Stay
  BY <1>2, UpdateStep
<1>3. ASSUME NEW r \in Requests, Reorder(r) PROVE Inv' /\ Stay
  <2>1. CASE CheckOrder(r)
    BY <2>1, CheckOrderStep DEF CheckOrder, Begin
  <2>2. CASE \E f \in Numberings(req[r].owners) : WriteOrder(r, f)
    BY <2>2, WriteOrderStep
  <2> QED
    BY <1>3, <2>1, <2>2 DEF Reorder
<1>4. ASSUME NEW r \in Requests, HangUp(r) PROVE Inv' /\ Stay
  <2>1. UNCHANGED <<rows, outdated>> /\ ReqInv'
    BY <1>4, Finished DEF HangUp
  <2> QED
    BY <2>1 DEF Inv, RowsInv, KeyNamesOneRow, Used, OwnersInOrder, Of
<1>5. ASSUME NEW w \in Rows, SoftDelete(w) \/ HardDelete(w) PROVE Inv' /\ Stay
  BY <1>5, SoftDeleteStep, HardDeleteStep
<1>6. CASE UNCHANGED vars
  BY <1>6 DEF vars, Inv, RowsInv, ReqInv, KeyNamesOneRow, Used, OwnersInOrder, Of
<1> QED
  BY <1>1, <1>2, <1>3, <1>4, <1>5, <1>6 DEF Next

THEOREM Invariant == Spec => []Inv
<1>1. Inv /\ [Next]_vars => Inv'
  BY NextInv
<1> QED
  BY InitInv, <1>1, PTL DEF Spec

\* Every stored row and every handler in flight keeps its type, and a detail has
\* its value.
THEOREM TypeCorrect == Spec => []TypeOK
<1>1. Inv => TypeOK
  BY DEF Inv, RowsInv, ReqInv, TypeOK, Sound, Of
<1> QED
  BY Invariant, <1>1, PTL

\* Whatever updates, imports and older clients overlap, a stored markup spells the
\* stored text.
THEOREM MarkupsSpellTheirText == Spec => []MarkupFits
<1>1. Inv => MarkupFits
  BY DEF Inv, RowsInv, MarkupFits, Sound
<1> QED
  BY Invariant, <1>1, PTL

\* A deleted row that devices replicate stays deleted, whatever a handler that read
\* it before writes back.
THEOREM TombstonesAreFinal == Spec => TombstonesStay
<1>1. Inv /\ [Next]_vars => [\A w \in Rows : rows[w].deleted => rows'[w].deleted]_vars
  BY NextInv
<1> QED
  BY Invariant, <1>1, PTL DEF Spec, TombstonesStay

\* The order of the owners has no ties, unless owners changed between the check of an
\* order and its numbering.
THEOREM OwnersStayInOrder == Spec => []OwnersInOrder
<1>1. Inv => OwnersInOrder
  BY DEF Inv, RowsInv
<1> QED
  BY Invariant, <1>1, PTL

---------------------------------------------------------------------------
(* The tools.                                                               *)

CallType == [pc : {"none", "tool", "audit"},
             tool : ReadTools \union WriteTools \union {"none", "unknown"},
             scope : Scopes \union {"none"}, key : Keys \union {None},
             row : Rows \union {None}, outcome : {"none", "ok", "error", "denied"}]

\* The issue a call answers with has the key the call was given.
TellsTruth(c) ==
    c.tool = "create_issue" /\ c.outcome = "ok" /\ c.key # None =>
        /\ c.row \in Rows
        /\ rows[c.row].table = "issue" /\ rows[c.row].key = c.key

\* What a call in flight has, and what its handler's slot holds.
CallSound(c, q) ==
    /\ c.pc = "none" => c = NoCall
    /\ c.pc = "tool" =>
          /\ c.row = None
          /\ q.pc \in {"idle", "insert", "write"}
          /\ c.tool \in WriteTools => c.scope = "write"
          /\ q.pc = "insert" => c.tool \in {"create_issue", "add_expense"}
          /\ q.pc = "write" => c.tool = "update_issue_status"
          /\ q.pc = "insert" /\ c.tool = "create_issue" => q.table = "issue" /\ q.key = c.key
    /\ c.pc = "audit" => q.pc = "idle" /\ TellsTruth(c)
    /\ c.row # None => c.pc = "audit" /\ c.scope = "write"

CallsInv ==
    /\ calls \in [Requests -> CallType]
    /\ audit \subseteq CallType
    /\ owed \subseteq Rows
    /\ \A r \in Requests : CallSound(calls[r], req[r])
    /\ \A a \in audit : TellsTruth(a)
    /\ WritesAreAudited

AllInv == Inv /\ CallsInv

---------------------------------------------------------------------------
\* Every statement of a tool is one of the apps' handlers.
LEMMA StepIsHandlers ==
    ASSUME Inv, [McpNext]_<<vars, mcpVars>>
    PROVE  [Next]_vars
<1>1. ASSUME NEW r \in Requests, Call(r) PROVE [Next]_vars
  <2>1. CASE \/ \E tool \in ReadTools \union WriteTools \union {"unknown"}, scope \in Scopes :
                   CallTool(r, tool, scope)
             \/ Audit(r)
    BY <2>1 DEF CallTool, Audit, vars
  <2>2. CASE ToolFails(r) \/ CutOff(r)
    <3>1. req' = [req EXCEPT ![r] = Idle] /\ UNCHANGED <<rows, outdated>>
      BY <2>2 DEF ToolFails, CutOff
    <3>2. CASE req[r].pc = "idle"
      <4>1. req[r] = Idle
        BY <3>2 DEF Inv, ReqInv, Carries
      <4>2. req' = req
        BY <3>1, <4>1 DEF Inv, ReqInv
      <4> QED
        BY <3>1, <4>2 DEF vars
    <3>3. CASE req[r].pc # "idle"
      BY <3>1, <3>3 DEF HangUp, Finish, Next
    <3> QED
      BY <3>2, <3>3
  <2>3. CASE Tool(r)
    <3>1. CASE ListIssues(r) \/ ListExpenses(r)
      BY <3>1 DEF ListIssues, ListExpenses, vars
    <3>2. CASE UpdateIssueStatus(r)
      <4>1. CASE \E w \in Of("issue") : ReadRow(r, w)
        BY <4>1 DEF Of, Update, Next
      <4>2. CASE Write(r, "issue", req[r].text, FALSE, None)
        <5>1. UpdateIssue(r, None, FALSE, None)
          BY <4>2 DEF UpdateIssue
        <5>2. Update(r)
          BY <5>1, Zenon DEF Update
        <5> QED
          BY <5>2 DEF Next
      <4> QED
        BY <3>2, <4>1, <4>2 DEF UpdateIssueStatus
    <3>3. ASSUME NEW k \in Keys \union {None}, CreateIssueFor(r, k) PROVE [Next]_vars
      <4>1. UNCHANGED vars \/ WithoutKey(r, "issue") \/ (k \in Keys /\ LookUpKey(r, "issue", k))
        BY <3>3 DEF CreateIssueFor
      <4>2. "issue" \in Tables /\ "issue" \in Keyed
        BY DEF Tables, Keyed
      <4> QED
        BY <4>1, <4>2 DEF Create, Next
    <3>4. ASSUME NEW text \in Texts \union {None}, CreateIssue(r, text) \/ AddExpense(r, text)
          PROVE  [Next]_vars
      <4>1. WithoutKey(r, "expense") \/ \E w \in Rows : Insert(r, w, text, None)
        BY <3>4 DEF CreateIssue, AddExpense, Inserts
      <4>2. "expense" \in Tables
        BY DEF Tables
      <4>3. Create(r)
        BY <4>1, <4>2, Zenon DEF Create
      <4> QED
        BY <4>3 DEF Next
    <3> QED
      BY <2>3, <3>1, <3>2, <3>3, <3>4 DEF Tool
  <2> QED
    BY <1>1, <2>1, <2>2, <2>3 DEF Call
<1>2. ASSUME NEW r \in Requests, AppRequest(r) PROVE [Next]_vars
  BY <1>2 DEF AppRequest, Next
<1>3. ASSUME NEW w \in Rows, SoftDelete(w) \/ HardDelete(w) PROVE [Next]_vars
  BY <1>3 DEF Next
<1>4. CASE UNCHANGED <<vars, mcpVars>>
  BY <1>4 DEF vars
<1> QED
  BY <1>1, <1>2, <1>3, <1>4 DEF McpNext

\* An issue stays an issue and keeps its key.
LEMMA IssuesKeep ==
    ASSUME Inv, [Next]_vars, NEW v \in Rows, rows[v].table = "issue"
    PROVE  rows'[v].table = "issue" /\ rows'[v].key = rows[v].key
<1>1. rows \in [Rows -> RowType] /\ rows[v] \in RowType /\ rows[v] # NoRow
  BY IdleSound DEF Inv, RowsInv
<1>2. ASSUME NEW r \in Requests, Create(r) PROVE rows'[v] = rows[v]
  BY <1>1, <1>2 DEF Create, WithoutKey, LookUpKey, Insert, InsertOwner, ReadSource, InsertCopy,
                    Begin
<1>3. ASSUME NEW r \in Requests, NEW table, NEW new, NEW sent, NEW markup,
             Write(r, table, new, sent, markup)
      PROVE  rows'[v].table = rows[v].table /\ rows'[v].key = rows[v].key
  BY <1>1, <1>3 DEF Write, RowType
<1>4. ASSUME NEW r \in Requests, Update(r)
      PROVE  rows'[v].table = rows[v].table /\ rows'[v].key = rows[v].key
  BY <1>3, <1>4 DEF Update, UpdateIssue, UpdateTorqueSpec, UpdatePreviousOwner, UpdateExpense,
                    UpdateDetail, ReadRow, Begin
<1>5. ASSUME NEW r \in Requests, Reorder(r) PROVE rows'[v] = rows[v]
  BY <1>1, <1>5 DEF Reorder, CheckOrder, Begin, WriteOrder, Of
<1>6. ASSUME NEW r \in Requests, HangUp(r) PROVE rows'[v] = rows[v]
  BY <1>6 DEF HangUp
<1>7. ASSUME NEW w \in Rows, SoftDelete(w)
      PROVE  rows'[v].table = rows[v].table /\ rows'[v].key = rows[v].key
  BY <1>1, <1>7 DEF SoftDelete, RowType
<1>8. ASSUME NEW w \in Rows, HardDelete(w) PROVE rows'[v] = rows[v]
  BY <1>1, <1>8 DEF HardDelete, Keyed
<1> QED
  BY <1>2, <1>4, <1>5, <1>6, <1>7, <1>8 DEF Next, vars

---------------------------------------------------------------------------
\* One call goes on as c; the others keep their slot.
LEMMA CallGoesOn ==
    ASSUME AllInv, [Next]_vars, NEW r \in Requests, NEW c \in CallType,
           calls' = [calls EXCEPT ![r] = c], CallSound(c, req[r])',
           \A s \in Requests \ {r} : req'[s] = req[s],
           audit' \subseteq CallType, \A a \in audit' : TellsTruth(a)',
           owed' \subseteq Rows, WritesAreAudited'
    PROVE  CallsInv'
<1>1. calls' \in [Requests -> CallType]
  BY DEF AllInv, CallsInv
<1>2. \A s \in Requests \ {r} : CallSound(calls[s], req[s])'
  <2> TAKE s \in Requests \ {r}
  <2>1. calls'[s] = calls[s] /\ CallSound(calls[s], req[s])
    BY DEF AllInv, CallsInv
  <2>2. TellsTruth(calls[s]) => TellsTruth(calls[s])'
    BY <2>1, IssuesKeep DEF AllInv, TellsTruth
  <2> QED
    BY <2>1, <2>2 DEF CallSound
<1>3. CallSound(calls[r], req[r])'
  BY DEF AllInv, CallsInv
<1> QED
  BY <1>1, <1>2, <1>3 DEF CallsInv

\* A call whose outcome changes while the log and what is owed stay.
LEMMA CallMoves ==
    ASSUME AllInv, [Next]_vars, NEW r \in Requests, NEW c \in CallType,
           calls' = [calls EXCEPT ![r] = c], CallSound(c, req[r])',
           \A s \in Requests \ {r} : req'[s] = req[s],
           UNCHANGED <<audit, owed>>, calls[r].row = None
    PROVE  CallsInv'
<1>1. \A a \in audit : TellsTruth(a)'
  BY IssuesKeep DEF AllInv, CallsInv, TellsTruth
<1>2. WritesAreAudited'
  <2> SUFFICES ASSUME NEW w \in owed
               PROVE  \E s \in Requests : calls'[s].row = w /\ calls'[s].scope = "write"
    BY DEF WritesAreAudited
  <2>1. PICK s \in Requests : calls[s].row = w /\ calls[s].scope = "write"
    BY DEF AllInv, CallsInv, WritesAreAudited
  <2>2. w # None
    BY NoneAssumption DEF AllInv, CallsInv
  <2> QED
    BY <2>1, <2>2
<1> QED
  BY <1>1, <1>2, CallGoesOn DEF AllInv, CallsInv

LEMMA NoCallSound == NoCall \in CallType /\ \A q : CallSound(NoCall, q)
<1>1. NoCall \in CallType
  BY Zenon DEF NoCall, CallType
<1> QED
  BY <1>1 DEF NoCall, CallSound

\* The answer of a tool that ran: its fields but outcome and row stay.
LEMMA AnswerSound ==
    ASSUME AllInv, NEW r \in Requests, calls[r].pc = "tool",
           NEW outcome \in {"ok", "error"}, NEW row \in Rows \union {None},
           Answered(r, outcome, row)
    PROVE  \E c \in CallType :
              /\ calls' = [calls EXCEPT ![r] = c]
              /\ c.pc = "audit" /\ c.tool = calls[r].tool /\ c.scope = calls[r].scope
              /\ c.key = calls[r].key /\ c.outcome = outcome /\ c.row = row
<1> DEFINE c == [calls[r] EXCEPT !.pc = "audit", !.outcome = outcome, !.row = row]
<1>1. calls \in [Requests -> CallType] /\ calls[r] \in CallType
  BY DEF AllInv, CallsInv
<1>2. c \in CallType
  BY <1>1, Zenon DEF CallType
<1>3. /\ c.pc = "audit" /\ c.tool = calls[r].tool /\ c.scope = calls[r].scope
      /\ c.key = calls[r].key /\ c.outcome = outcome /\ c.row = row
  BY <1>1 DEF CallType
<1>4. calls' = [calls EXCEPT ![r] = c]
  BY <1>1 DEF Answered
<1> QED
  BY <1>2, <1>3, <1>4

---------------------------------------------------------------------------
\* The gate.

LEMMA CallToolStep ==
    ASSUME AllInv, NEW r \in Requests, NEW scope \in Scopes,
           NEW tool \in ReadTools \union WriteTools \union {"unknown"}, CallTool(r, tool, scope)
    PROVE  CallsInv'
<1> DEFINE n == [NoCall EXCEPT !.tool = tool, !.scope = scope]
           answered(outcome) == [n EXCEPT !.pc = "audit", !.outcome = outcome]
           c == IF tool \notin ReadTools \union WriteTools THEN answered("error")
                ELSE IF ~IsReadOnly(tool) /\ scope # "write" THEN answered("denied")
                ELSE [n EXCEPT !.pc = "tool"]
<1>1. /\ UNCHANGED <<rows, req, outdated, audit, owed>> /\ req[r].pc = "idle"
      /\ calls[r] = NoCall
      /\ calls' = [calls EXCEPT ![r] = c]
  BY DEF CallTool, vars
<1>2. n \in CallType
  BY NoCallSound, Zenon DEF CallType
<1>3. answered("error") \in CallType /\ answered("denied") \in CallType
      /\ [n EXCEPT !.pc = "tool"] \in CallType
  BY <1>2, Zenon DEF CallType
<1>4. c \in CallType
  BY <1>3
<1>5. /\ n.tool = tool /\ n.scope = scope /\ n.row = None /\ n.key = None
  BY DEF NoCall
<1>6. /\ c.tool = tool /\ c.scope = scope /\ c.row = None /\ c.pc \in {"tool", "audit"}
      /\ c.outcome # "ok"
      /\ c.pc = "tool" /\ tool \in WriteTools => scope = "write"
  BY DEF NoCall, IsReadOnly, ReadTools, WriteTools
<1> HIDE DEF c
<1>7. CallSound(c, req[r])'
  BY <1>1, <1>6 DEF CallSound, TellsTruth
<1>8. calls[r].row = None
  BY <1>1 DEF NoCall
<1>9. [Next]_vars
  BY <1>1 DEF vars
<1> QED
  BY <1>1, <1>4, <1>7, <1>8, <1>9, CallMoves

LEMMA AuditStep ==
    ASSUME AllInv, NEW r \in Requests, Audit(r)
    PROVE  CallsInv'
<1> DEFINE e == [calls[r] EXCEPT !.pc = "none"]
<1>1. /\ calls[r] \in CallType /\ calls[r].pc = "audit" /\ TellsTruth(calls[r])
      /\ UNCHANGED <<rows, req, outdated>>
      /\ audit' = audit \union {e} /\ owed' = owed \ Told(audit')
      /\ calls' = [calls EXCEPT ![r] = NoCall]
  BY DEF Audit, vars, AllInv, CallsInv, CallSound
<1>2. e \in CallType
  BY <1>1, Zenon DEF CallType
<1>3. e.tool = calls[r].tool /\ e.outcome = calls[r].outcome /\ e.key = calls[r].key
      /\ e.row = calls[r].row
  BY <1>1 DEF CallType
<1> HIDE DEF e
<1>4. \A a \in audit' : TellsTruth(a)'
  BY <1>1, <1>3 DEF AllInv, CallsInv, TellsTruth
<1>5. WritesAreAudited'
  <2> SUFFICES ASSUME NEW w \in owed'
               PROVE  \E s \in Requests : calls'[s].row = w /\ calls'[s].scope = "write"
    BY DEF WritesAreAudited
  <2>1. w # calls[r].row
    BY <1>1, <1>3 DEF Told
  <2>2. PICK s \in Requests : calls[s].row = w /\ calls[s].scope = "write"
    BY <1>1 DEF AllInv, CallsInv, WritesAreAudited
  <2> QED
    BY <1>1, <2>1, <2>2
<1>6. [Next]_vars
  BY <1>1 DEF vars
<1>7. audit' \subseteq CallType /\ owed' \subseteq Rows
  BY <1>1, <1>2 DEF AllInv, CallsInv
<1>8. CallSound(NoCall, req[r])'
  BY <1>1, NoCallSound DEF NoCall, CallSound
<1> QED
  BY <1>1, <1>4, <1>5, <1>6, <1>7, <1>8, NoCallSound, CallGoesOn

LEMMA CutOffStep ==
    ASSUME AllInv, [Next]_vars, NEW r \in Requests, CutOff(r)
    PROVE  CallsInv'
<1>1. /\ owed' = owed \ {calls[r].row} /\ UNCHANGED <<rows, audit>>
      /\ calls' = [calls EXCEPT ![r] = NoCall]
      /\ \A s \in Requests \ {r} : req'[s] = req[s]
  BY DEF CutOff, AllInv, Inv, ReqInv
<1>2. WritesAreAudited'
  BY <1>1 DEF WritesAreAudited, AllInv, CallsInv
<1>3. \A a \in audit' : TellsTruth(a)'
  BY <1>1 DEF AllInv, CallsInv, TellsTruth
<1>4. CallSound(NoCall, req[r])'
  BY DEF NoCall, CallSound
<1>5. audit' \subseteq CallType /\ owed' \subseteq Rows
  BY <1>1 DEF AllInv, CallsInv
<1> QED
  BY <1>1, <1>2, <1>3, <1>4, <1>5, NoCallSound, CallGoesOn

\* An answer that tells of no row, after which the handler's slot is idle.
LEMMA PlainAnswer ==
    ASSUME AllInv, [Next]_vars, NEW r \in Requests, calls[r].pc = "tool",
           NEW outcome \in {"ok", "error"}, Answered(r, outcome, None),
           outcome = "ok" => calls[r].tool # "create_issue",
           req'[r].pc = "idle", \A s \in Requests \ {r} : req'[s] = req[s],
           UNCHANGED <<audit, owed>>
    PROVE  CallsInv'
<1>1. PICK c \in CallType :
         /\ calls' = [calls EXCEPT ![r] = c]
         /\ c.pc = "audit" /\ c.tool = calls[r].tool /\ c.scope = calls[r].scope
         /\ c.key = calls[r].key /\ c.outcome = outcome /\ c.row = None
  BY AnswerSound
<1>2. calls[r].row = None
  BY DEF AllInv, CallsInv, CallSound
<1>3. CallSound(c, req[r])'
  BY <1>1 DEF CallSound, TellsTruth
<1> QED
  BY <1>1, <1>2, <1>3, CallMoves

---------------------------------------------------------------------------
\* The tools.

\* The slots of other handlers are not touched.
LEMMA OtherSlots ==
    ASSUME Inv, NEW r \in Requests,
           \/ \E q : Begin(r, q)
           \/ Finish(r)
    PROVE  \A s \in Requests \ {r} : req'[s] = req[s]
BY DEF Inv, ReqInv, Begin, Finish

\* A tool's handler starts: the call is as it was, but for its key.
LEMMA SlotTaken ==
    ASSUME AllInv, [Next]_vars, NEW r \in Requests, NEW q, Begin(r, q),
           calls[r].pc = "tool", q.pc \in {"insert", "write"},
           NEW k \in Keys \union {None},
           calls' = [calls EXCEPT ![r].key = k],
           q.pc = "insert" => calls[r].tool \in {"create_issue", "add_expense"},
           q.pc = "write" => calls[r].tool = "update_issue_status",
           q.pc = "insert" /\ calls[r].tool = "create_issue" => q.table = "issue" /\ q.key = k,
           UNCHANGED <<audit, owed>>
    PROVE  CallsInv'
<1> DEFINE c == [calls[r] EXCEPT !.key = k]
<1>1. calls[r] \in CallType /\ CallSound(calls[r], req[r])
  BY DEF AllInv, CallsInv
<1>2. c \in CallType
  BY <1>1, Zenon DEF CallType
<1>3. /\ c.pc = "tool" /\ c.tool = calls[r].tool /\ c.scope = calls[r].scope
      /\ c.row = None /\ c.key = k
  BY <1>1 DEF CallType, CallSound
<1>4. calls' = [calls EXCEPT ![r] = c] /\ calls[r].row = None
  BY <1>1 DEF AllInv, CallsInv, CallSound
<1> HIDE DEF c
<1>5. req'[r] = q
  BY DEF Begin, AllInv, Inv, ReqInv
<1>6. PICK d \in CallType : d = c
  BY <1>2
<1>7. CallSound(d, req[r])'
  BY <1>1, <1>3, <1>5, <1>6 DEF CallSound
<1>8. \A s \in Requests \ {r} : req'[s] = req[s]
  BY OtherSlots DEF AllInv
<1> QED
  BY <1>4, <1>6, <1>7, <1>8, CallMoves

LEMMA InsertsStep ==
    ASSUME AllInv, [Next]_vars, NEW r \in Requests, NEW text \in Texts \union {None},
           calls[r].pc = "tool", calls[r].tool \in WriteTools, Inserts(r, text)
    PROVE  CallsInv'
<1>1. PICK w \in Rows, outcome \in {"ok", "error"} :
         /\ Insert(r, w, text, None)
         /\ IF KeyIsFree(req[r])
            THEN owed' = owed \union {w} /\ Answered(r, outcome, w)
            ELSE UNCHANGED owed /\ Answered(r, "error", None)
         /\ UNCHANGED audit
  BY DEF Inserts
<1>2. /\ \A s \in Requests \ {r} : req'[s] = req[s]
      /\ req'[r].pc = "idle" /\ req[r].pc = "insert"
  BY <1>1, OtherSlots DEF AllInv, Insert, Finish, Inv, ReqInv, Idle
<1>3. CASE ~KeyIsFree(req[r])
  BY <1>1, <1>2, <1>3, PlainAnswer
<1>4. CASE KeyIsFree(req[r])
  <2>1. Answered(r, outcome, w) /\ owed' = owed \union {w}
    BY <1>1, <1>4
  <2>2. PICK c \in CallType :
           /\ calls' = [calls EXCEPT ![r] = c]
           /\ c.pc = "audit" /\ c.tool = calls[r].tool /\ c.scope = calls[r].scope
           /\ c.key = calls[r].key /\ c.outcome = outcome /\ c.row = w
    BY <2>1, AnswerSound
  <2>3. CallSound(calls[r], req[r]) /\ calls[r].row = None /\ calls[r].scope = "write"
    BY DEF AllInv, CallsInv, CallSound
  <2>4. c.tool = "create_issue" => rows'[w].table = "issue" /\ rows'[w].key = c.key
    <3> SUFFICES ASSUME c.tool = "create_issue"
                 PROVE  rows'[w].table = "issue" /\ rows'[w].key = c.key
      OBVIOUS
    <3> DEFINE x == Created(req[r], text, None)
    <3>1. req[r].table = "issue" /\ req[r].key = c.key
      BY <1>2, <2>2, <2>3 DEF CallSound
    <3>2. rows'[w] = x
      BY <1>1, <1>4 DEF Insert, AllInv, Inv, RowsInv
    <3>3. req[r] \in ReqType /\ Carries(req[r])
      BY DEF AllInv, Inv, ReqInv
    <3>4. x.table = req[r].table /\ x.key = req[r].key
      <4>1. "issue" \notin Plain
        BY DEF Plain
      <4>2. Fits(text, None)
        BY DEF Fits
      <4> QED
        BY <1>2, <3>1, <3>3, <4>1, <4>2, CreatedIsSound
    <3> QED
      BY <3>1, <3>2, <3>4
  <2>5. CallSound(c, req[r])'
    BY <1>2, <2>2, <2>3, <2>4 DEF CallSound, TellsTruth
  <2>6. WritesAreAudited'
    <3> SUFFICES ASSUME NEW v \in owed'
                 PROVE  \E s \in Requests : calls'[s].row = v /\ calls'[s].scope = "write"
      BY DEF WritesAreAudited
    <3>1. calls'[r] = c /\ \A s \in Requests \ {r} : calls'[s] = calls[s]
      BY <2>2 DEF AllInv, CallsInv
    <3>2. CASE v = w
      BY <2>2, <2>3, <3>1, <3>2
    <3>3. CASE v # w
      <4>1. PICK s \in Requests : calls[s].row = v /\ calls[s].scope = "write"
        BY <2>1, <3>3 DEF AllInv, CallsInv, WritesAreAudited
      <4>2. v # None
        BY <2>1, <3>3, NoneAssumption DEF AllInv, CallsInv
      <4> QED
        BY <2>3, <3>1, <4>1, <4>2
    <3> QED
      BY <3>2, <3>3
  <2>7. \A a \in audit' : TellsTruth(a)'
    BY <1>1, IssuesKeep DEF AllInv, CallsInv, TellsTruth
  <2>8. audit' \subseteq CallType /\ owed' \subseteq Rows
    BY <1>1, <2>1 DEF AllInv, CallsInv
  <2> QED
    BY <1>2, <2>2, <2>5, <2>6, <2>7, <2>8, CallGoesOn
<1> QED
  BY <1>3, <1>4

LEMMA CreateIssueForStep ==
    ASSUME AllInv, [Next]_vars, NEW r \in Requests, NEW k \in Keys \union {None},
           CreateIssueFor(r, k)
    PROVE  CallsInv'
<1>1. /\ calls[r].pc = "tool" /\ calls[r].tool = "create_issue"
      /\ calls[r] \in CallType /\ CallSound(calls[r], req[r])
      /\ calls[r].row = None /\ calls[r].scope = "write"
  BY DEF CreateIssueFor, Runs, AllInv, CallsInv, CallSound, WriteTools
<1>2. ASSUME NEW w \in Of("issue"), req[r].pc = "idle", k # None, rows[w].key = k,
             calls' = [calls EXCEPT ![r].pc = "audit", ![r].outcome = "ok",
                                    ![r].row = w, ![r].key = k],
             UNCHANGED <<vars, audit, owed>>
      PROVE  CallsInv'
  <2> DEFINE c == [calls[r] EXCEPT !.pc = "audit", !.outcome = "ok", !.row = w, !.key = k]
  <2>1. w \in Rows /\ rows[w].table = "issue"
    BY DEF Of
  <2>2. c \in CallType
    BY <1>1, <2>1, Zenon DEF CallType
  <2>3. /\ c.pc = "audit" /\ c.tool = "create_issue" /\ c.scope = "write"
        /\ c.outcome = "ok" /\ c.row = w /\ c.key = k
    BY <1>1 DEF CallType
  <2>4. calls' = [calls EXCEPT ![r] = c]
    BY <1>2 DEF AllInv, CallsInv
  <2> HIDE DEF c
  <2>5. PICK d \in CallType : d = c
    BY <2>2
  <2>6. UNCHANGED <<rows, req, outdated, audit, owed>>
    BY <1>2 DEF vars
  <2>7. CallSound(d, req[r])'
    BY <1>2, <2>1, <2>3, <2>5, <2>6 DEF CallSound, TellsTruth
  <2> QED
    BY <1>1, <2>4, <2>5, <2>6, <2>7, CallMoves
<1>3. ASSUME IF k = None THEN WithoutKey(r, "issue") ELSE LookUpKey(r, "issue", k),
             calls' = [calls EXCEPT ![r].key = k], UNCHANGED <<audit, owed>>
      PROVE  CallsInv'
  <2> DEFINE q == [Idle EXCEPT !.pc = "insert", !.table = "issue", !.key = k]
  <2>1. q.pc = "insert" /\ q.table = "issue" /\ q.key = k
    BY DEF Idle
  <2>2. k = None => q = [Idle EXCEPT !.pc = "insert", !.table = "issue"]
    <3> DEFINE i == [Idle EXCEPT !.pc = "insert", !.table = "issue"]
    <3>1. i \in ReqType /\ i.key = None
      BY IdleSound, Zenon DEF ReqType, Idle, Tables
    <3>2. i = [i EXCEPT !.key = i.key]
      <4> HIDE DEF i
      <4> QED
        BY <3>1 DEF ReqType
    <3>3. q = [i EXCEPT !.key = k]
      OBVIOUS
    <3> QED
      BY <3>1, <3>2, <3>3
  <2>3. Begin(r, q)
    BY <1>3, <2>2, Zenon DEF WithoutKey, LookUpKey
  <2> HIDE DEF q
  <2> QED
    BY <1>1, <1>3, <2>1, <2>3, SlotTaken
<1> QED
  BY <1>2, <1>3 DEF CreateIssueFor

LEMMA ToolStep ==
    ASSUME AllInv, [Next]_vars, NEW r \in Requests, Tool(r)
    PROVE  CallsInv'
<1>1. calls[r] \in CallType /\ CallSound(calls[r], req[r])
  BY DEF AllInv, CallsInv
<1>2. CASE ListIssues(r) \/ ListExpenses(r)
  <2>1. calls[r].pc = "tool" /\ calls[r].tool \in ReadTools /\ Answered(r, "ok", None)
        /\ UNCHANGED <<rows, req, outdated, audit, owed>>
    BY <1>2 DEF ListIssues, ListExpenses, Runs, ReadTools, vars
  <2>2. req[r].pc = "idle"
    BY <1>1, <2>1 DEF CallSound, ReadTools
  <2> QED
    BY <2>1, <2>2, PlainAnswer DEF ReadTools
<1>3. CASE UpdateIssueStatus(r)
  <2>1. calls[r].pc = "tool" /\ calls[r].tool = "update_issue_status"
    BY <1>3 DEF UpdateIssueStatus, Runs
  <2>2. ASSUME NEW w \in Of("issue"), ReadRow(r, w), UNCHANGED mcpVars PROVE CallsInv'
    <3> DEFINE q == [Idle EXCEPT !.pc = "write", !.table = rows[w].table, !.row = w,
                                !.text = rows[w].text, !.markup = rows[w].markup]
    <3>1. q.pc = "write" /\ Begin(r, q)
      BY <2>2 DEF Idle, ReadRow
    <3>2. UNCHANGED <<audit, owed>> /\ calls' = [calls EXCEPT ![r].key = calls[r].key]
      BY <2>2, <1>1 DEF mcpVars, CallType, AllInv, CallsInv
    <3>3. calls[r].key \in Keys \union {None}
      BY <1>1 DEF CallType
    <3> HIDE DEF q
    <3>4. PICK p : p = q
      OBVIOUS
    <3>5. PICK k \in Keys \union {None} : k = calls[r].key
      BY <3>3
    <3> QED
      BY <2>1, <3>1, <3>2, <3>4, <3>5, SlotTaken
  <2>3. ASSUME Write(r, "issue", req[r].text, FALSE, None), Answered(r, "ok", None),
               UNCHANGED <<audit, owed>>
        PROVE  CallsInv'
    <3>1. req'[r].pc = "idle" /\ \A s \in Requests \ {r} : req'[s] = req[s]
      BY <2>3, OtherSlots DEF Write, Finish, AllInv, Inv, ReqInv, Idle
    <3> QED
      BY <2>1, <2>3, <3>1, PlainAnswer
  <2> QED
    BY <1>3, <2>2, <2>3 DEF UpdateIssueStatus
<1>4. ASSUME NEW text \in Texts \union {None}, CreateIssue(r, text) \/ AddExpense(r, text)
      PROVE  CallsInv'
  <2>1. calls[r].pc = "tool" /\ calls[r].tool \in {"create_issue", "add_expense"}
    BY <1>4 DEF CreateIssue, AddExpense, Runs
  <2>2. CASE Inserts(r, text)
    BY <2>1, <2>2, InsertsStep DEF WriteTools
  <2>3. CASE AddExpense(r, text) /\ WithoutKey(r, "expense") /\ UNCHANGED mcpVars
    <3> DEFINE q == [Idle EXCEPT !.pc = "insert", !.table = "expense"]
    <3>1. q.pc = "insert" /\ Begin(r, q)
      BY <2>3 DEF Idle, WithoutKey
    <3>2. UNCHANGED <<audit, owed>> /\ calls' = [calls EXCEPT ![r].key = calls[r].key]
      BY <2>3, <1>1 DEF mcpVars, CallType, AllInv, CallsInv
    <3>3. PICK k \in Keys \union {None} : k = calls[r].key
      BY <1>1 DEF CallType
    <3>4. calls[r].tool = "add_expense"
      BY <2>3 DEF AddExpense, Runs
    <3> HIDE DEF q
    <3> QED
      BY <2>1, <3>1, <3>2, <3>3, <3>4, SlotTaken
  <2> QED
    BY <1>4, <2>2, <2>3 DEF CreateIssue, AddExpense
<1> QED
  BY <1>2, <1>3, <1>4, CreateIssueForStep DEF Tool

---------------------------------------------------------------------------
LEMMA CallsInit == McpInit => AllInv
<1> SUFFICES ASSUME McpInit PROVE AllInv
  OBVIOUS
<1>1. Inv
  BY InitInv DEF McpInit
<1>2. CallsInv
  BY NoCallSound DEF McpInit, CallsInv, WritesAreAudited
<1> QED
  BY <1>1, <1>2 DEF AllInv

LEMMA McpNextInv == AllInv /\ [McpNext]_<<vars, mcpVars>> => AllInv'
<1> SUFFICES ASSUME AllInv, [McpNext]_<<vars, mcpVars>> PROVE AllInv'
  OBVIOUS
<1>1. [Next]_vars
  BY StepIsHandlers DEF AllInv
<1>2. Inv'
  BY <1>1, NextInv DEF AllInv
<1>3. ASSUME NEW r \in Requests, Call(r) PROVE CallsInv'
  <2>1. CASE ToolFails(r)
    <3>1. /\ calls[r].pc = "tool" /\ Answered(r, "error", None)
          /\ req'[r].pc = "idle" /\ \A s \in Requests \ {r} : req'[s] = req[s]
          /\ UNCHANGED <<audit, owed>>
      BY <2>1 DEF ToolFails, AllInv, Inv, ReqInv, Idle
    <3> QED
      BY <1>1, <3>1, PlainAnswer
  <2> QED
    BY <1>1, <1>3, <2>1, CallToolStep, ToolStep, AuditStep, CutOffStep DEF Call
<1>4. ASSUME NEW r \in Requests, AppRequest(r) PROVE CallsInv'
  <2>1. calls[r] = NoCall /\ UNCHANGED <<calls, audit, owed>>
    BY <1>4 DEF AppRequest, mcpVars
  <2>2. (\E q : Begin(r, q)) \/ Finish(r)
    <3>1. CASE Create(r)
      <4>1. ASSUME NEW w \in Rows, ReadSource(r, w) PROVE \E q : Begin(r, q)
        BY <4>1 DEF ReadSource
      <4>2. ASSUME NEW table \in Tables, WithoutKey(r, table) PROVE \E q : Begin(r, q)
        BY <4>2 DEF WithoutKey
      <4>3. ASSUME NEW table \in Keyed, NEW k \in Keys, LookUpKey(r, table, k)
            PROVE  \E q : Begin(r, q)
        BY <4>3 DEF LookUpKey
      <4> QED
        BY <3>1, <4>1, <4>2, <4>3 DEF Create, Insert, InsertOwner, InsertCopy
    <3>2. CASE Update(r)
      <4>1. ASSUME NEW w \in Rows, ReadRow(r, w) PROVE \E q : Begin(r, q)
        BY <4>1 DEF ReadRow
      <4>2. ASSUME NEW table, NEW new, NEW sent, NEW markup, Write(r, table, new, sent, markup)
            PROVE  Finish(r)
        BY <4>2 DEF Write
      <4> QED
        BY <3>2, <4>1, <4>2 DEF Update, UpdateIssue, UpdateTorqueSpec, UpdatePreviousOwner,
                                UpdateExpense, UpdateDetail
    <3>3. CASE Reorder(r)
      BY <3>3 DEF Reorder, CheckOrder, WriteOrder
    <3>4. CASE HangUp(r)
      BY <3>4 DEF HangUp
    <3> QED
      BY <1>4, <3>1, <3>2, <3>3, <3>4 DEF AppRequest
  <2>3. \A s \in Requests \ {r} : req'[s] = req[s]
    BY <2>2, OtherSlots DEF AllInv
  <2>4. calls' = [calls EXCEPT ![r] = NoCall] /\ calls[r].row = None
    BY <2>1 DEF AllInv, CallsInv, NoCall
  <2>5. CallSound(NoCall, req[r])'
    BY DEF NoCall, CallSound
  <2> QED
    BY <1>1, <2>1, <2>3, <2>4, <2>5, NoCallSound, CallMoves
<1>5. ASSUME UNCHANGED req, UNCHANGED mcpVars PROVE CallsInv'
  <2>1. \A c : TellsTruth(c) => TellsTruth(c)'
    BY <1>1, IssuesKeep DEF AllInv, TellsTruth
  <2> QED
    BY <1>5, <2>1 DEF AllInv, CallsInv, mcpVars, CallSound, WritesAreAudited
<1>6. CallsInv'
  BY <1>3, <1>4, <1>5 DEF McpNext, SoftDelete, HardDelete, vars
<1> QED
  BY <1>2, <1>6 DEF AllInv

THEOREM McpInvariant == McpSpec => []AllInv
BY CallsInit, McpNextInv, PTL DEF McpSpec

\* The tools do to the tables only what the apps' handlers do: every history with tool
\* calls is a history of BikeRecords.
THEOREM ToolsAreHandlers == McpSpec => Spec
<1>1. McpInit => Init
  BY DEF McpInit
<1>2. AllInv /\ [McpNext]_<<vars, mcpVars>> => [Next]_vars
  BY StepIsHandlers DEF AllInv
<1> QED
  BY <1>1, <1>2, McpInvariant, PTL DEF McpSpec, Spec

\* However often, and however close together, a create_issue is repeated with its key,
\* all calls that were told of success were told of one row.
THEOREM RetriesGetOneRow == McpSpec => []RetriesAgree
<1>1. AllInv => RetriesAgree
  <2> SUFFICES ASSUME AllInv, NEW a \in audit, NEW b \in audit,
                      {a.tool, b.tool} = {"create_issue"}, {a.outcome, b.outcome} = {"ok"},
                      a.key = b.key, a.key # None
               PROVE  a.row = b.row
    BY DEF RetriesAgree
  <2>1. a.tool = "create_issue" /\ b.tool = "create_issue" /\ a.outcome = "ok" /\ b.outcome = "ok"
    BY SMT
  <2>2. TellsTruth(a) /\ TellsTruth(b)
    BY DEF AllInv, CallsInv
  <2> QED
    BY <2>1, <2>2 DEF TellsTruth, AllInv, Inv, RowsInv, KeyNamesOneRow
<1> QED
  BY McpInvariant, <1>1, PTL

\* Every row a tool call inserted is in the audit log, or the call that writes it there
\* is in flight with the scope that allows it.
THEOREM EveryWriteIsAudited == McpSpec => []WritesAreAudited
<1>1. AllInv => WritesAreAudited
  BY DEF AllInv, CallsInv
<1> QED
  BY McpInvariant, <1>1, PTL
=============================================================================
