-------------------------- MODULE Inventory_proofs --------------------------
(***************************************************************************)
(* The parts inventory, for any number of parts, records, rows and         *)
(* requests, any quantities and any bound on aborts: a new consumption is  *)
(* covered however requests overlap; and when they do not overlap, the     *)
(* stored costs are current, deletions cascade and nothing is overbooked.  *)
(*                                                                         *)
(* And the storage locations its purchases are kept in, for any number of  *)
(* them and any depth: places stay on roots however requests overlap; and  *)
(* when they do not overlap, the locations stay a forest of live nodes.    *)
(***************************************************************************)
EXTENDS MCPartsInventory, StorageTree, FiniteSetTheorems, TLAPS

---------------------------------------------------------------------------
(* Sums of quantities: a quantity is that many units, a sum the number of   *)
(* units of all rows.                                                       *)

LEMMA Count == \A n \in Nat : IsFiniteSet(1 .. n) /\ Cardinality(1 .. n) = n
<1> SUFFICES ASSUME NEW n \in Nat PROVE IsFiniteSet(1 .. n) /\ Cardinality(1 .. n) = n
  OBVIOUS
<1>1. 1 \in Int /\ n \in Int
  OBVIOUS
<1>2. IsFiniteSet(1 .. n) /\ Cardinality(1 .. n) = IF 1 > n THEN 0 ELSE n - 1 + 1
  BY <1>1, FS_Interval, Zenon
<1> QED
  BY <1>2

\* Finitely many rows, each with a quantity.
Bounded(table, S) == IsFiniteSet(S) /\ \A i \in S : table[i].quantity \in 0 .. MaxQuantity

\* Such rows have a sum, ...
LEMMA TotalType ==
    ASSUME NEW table, NEW S, Bounded(table, S)
    PROVE  IsFiniteSet(Units(table, S)) /\ Total(table, S) \in Nat
<1>1. MaxQuantity \in Nat
  BY BoundAssumption
<1>2. Units(table, S) \in SUBSET (S \X (1 .. MaxQuantity))
  BY <1>1 DEF Units, Bounded
<1>3. IsFiniteSet(S \X (1 .. MaxQuantity))
  <2>1. IsFiniteSet(1 .. MaxQuantity)
    BY <1>1, Count
  <2> QED
    BY <2>1, FS_Product DEF Bounded
<1>4. IsFiniteSet(Units(table, S))
  BY <1>2, <1>3, FS_Subset
<1> QED
  BY <1>4, FS_CardinalityType DEF Total

\* ... which grows by the quantity of a row that joins them, ...
LEMMA AddRow ==
    ASSUME NEW table, NEW S, NEW c, c \notin S, Bounded(table, S), table[c].quantity \in 0 .. MaxQuantity
    PROVE  Total(table, S \union {c}) = Total(table, S) + table[c].quantity
<1> DEFINE U == {c} \X (1 .. table[c].quantity)
<1>1. Units(table, S \union {c}) = Units(table, S) \union U
  BY DEF Units
<1>2. Units(table, S) \cap U = {}
  BY DEF Units
<1>3. IsFiniteSet(U) /\ Cardinality(U) = table[c].quantity
  <2>1. table[c].quantity \in Nat
    BY BoundAssumption
  <2>2. IsFiniteSet(1 .. table[c].quantity) /\ Cardinality(1 .. table[c].quantity) = table[c].quantity
    BY <2>1, Count
  <2>3. IsFiniteSet({c}) /\ Cardinality({c}) = 1
    BY FS_Singleton
  <2>4. IsFiniteSet(U) /\ Cardinality(U) = Cardinality({c}) * Cardinality(1 .. table[c].quantity)
    BY <2>2, <2>3, FS_Product
  <2> QED
    BY <2>1, <2>2, <2>3, <2>4
<1>4. IsFiniteSet(Units(table, S)) /\ Total(table, S) \in Nat
  BY TotalType
<1>5. Cardinality(Units(table, S) \union U)
          = Cardinality(Units(table, S)) + Cardinality(U) - Cardinality({})
  BY <1>2, <1>3, <1>4, FS_Union
<1>6. Cardinality({}) = 0
  BY FS_EmptySet
<1>7. table[c].quantity \in Nat
  BY BoundAssumption
<1> HIDE DEF U
<1> QED
  <2>1. Total(table, S \union {c}) = Cardinality(Units(table, S) \union U)
    BY <1>1 DEF Total
  <2>2. Total(table, S) = Cardinality(Units(table, S))
    BY DEF Total
  <2> QED
    BY <2>1, <2>2, <1>3, <1>4, <1>5, <1>6, <1>7

\* ... and depends on the quantities of the rows only.
LEMMA SameTotal ==
    ASSUME NEW t, NEW u, NEW S, \A i \in S : t[i].quantity = u[i].quantity
    PROVE  Total(t, S) = Total(u, S)
<1>1. Units(t, S) = Units(u, S)
  BY DEF Units
<1> QED
  BY <1>1 DEF Total

\* One row of S has another quantity.
LEMMA ChangeRow ==
    ASSUME NEW t, NEW u, NEW S, NEW c \in S, Bounded(t, S), Bounded(u, S),
           \A i \in S \ {c} : t[i].quantity = u[i].quantity
    PROVE  Total(u, S) = Total(t, S) - t[c].quantity + u[c].quantity
<1> DEFINE R == S \ {c}
<1>1. S = R \union {c} /\ c \notin R
  OBVIOUS
<1>2. Bounded(t, R) /\ Bounded(u, R)
  BY FS_RemoveElement DEF Bounded
<1>3. t[c].quantity \in Nat /\ u[c].quantity \in Nat
  BY BoundAssumption DEF Bounded
<1>4. Total(t, R) \in Nat /\ Total(u, R) = Total(t, R)
  BY <1>2, TotalType, SameTotal
<1>5. Total(t, R \union {c}) = Total(t, R) + t[c].quantity
  BY <1>1, <1>2, AddRow DEF Bounded
<1>6. Total(u, R \union {c}) = Total(u, R) + u[c].quantity
  BY <1>1, <1>2, AddRow DEF Bounded
<1> HIDE DEF R
<1> QED
  BY <1>1, <1>3, <1>4, <1>5, <1>6

---------------------------------------------------------------------------
(* Any overlap: the types, and what a handler about to insert has read.     *)

StockRows == {s \in Stocks : stocks[s].state # "none"}
UseRows == {c \in Uses : uses[c].state # "none"}

\* Only finitely many rows are in use, so what is on hand is a number.
Tables ==
    /\ live \subseteq Parts \union Records
    /\ stocks \in [Stocks -> StockType]
    /\ uses \in [Uses -> UseType]
    /\ partsCost \in [Records -> Costs]
    /\ IsFiniteSet(StockRows) /\ IsFiniteSet(UseRows)

\* The ids a request carries are those of the table it writes.
Fits(q) ==
    /\ q \in ReqType
    /\ q.pc = "editStock" => q.row \in Stocks
    /\ q.pc \in {"checkEdit", "editUse", "deleteUse"} => q.row \in Uses
    /\ q.pc = "cascade" => q.part \in Parts
    /\ q.pc = "writeCost" => q.record \in Records

\* What a handler read holds until another commits: then its snapshot is stale,
\* and the insert is refused.
Covered(q) == q.pc = "insertUse" /\ ~q.stale => q.quantity <= OnHand(q.part)

Inv ==
    /\ Tables /\ aborts \in 0 .. MaxAborts
    /\ req \in [Requests -> ReqType]
    /\ \A r \in Requests : Fits(req[r]) /\ Covered(req[r])

LEMMA Rows ==
    ASSUME Tables
    PROVE  /\ \A s \in Stocks : /\ stocks[s] \in StockType /\ stocks[s].quantity \in 0 .. MaxQuantity
                                /\ stocks[s].part \in Parts \union {None}
           /\ \A c \in Uses : /\ uses[c] \in UseType /\ uses[c].quantity \in 0 .. MaxQuantity
                              /\ uses[c].part \in Parts \union {None}
                              /\ uses[c].record \in Records \union {None}
BY DEF Tables, StockType, UseType

\* What is summed up has a sum.
LEMMA LiveBounded ==
    ASSUME Tables, NEW p
    PROVE  Bounded(stocks, LiveStocks(p)) /\ Bounded(uses, LiveUses(p))
<1>1. LiveStocks(p) \in SUBSET StockRows /\ LiveUses(p) \in SUBSET UseRows
  BY DEF LiveStocks, LiveUses, StockRows, UseRows
<1>2. IsFiniteSet(LiveStocks(p)) /\ IsFiniteSet(LiveUses(p))
  BY <1>1, FS_Subset DEF Tables
<1> QED
  BY <1>2, Rows DEF Bounded, LiveStocks, LiveUses

LEMMA OnHandType == ASSUME Tables, NEW p PROVE OnHand(p) \in Int
BY LiveBounded, TotalType DEF OnHand

LEMMA BookedType == ASSUME Tables, NEW m PROVE Booked(m) \in Costs
<1>1. ASSUME NEW p PROVE Total(uses, UsesOf(m) \intersect LiveUses(p)) \in Nat
  <2>1. IsFiniteSet(UsesOf(m) \intersect LiveUses(p))
    BY LiveBounded, FS_Intersection DEF Bounded
  <2>2. Bounded(uses, UsesOf(m) \intersect LiveUses(p))
    BY <2>1, LiveBounded DEF Bounded
  <2> QED
    BY <2>2, TotalType
<1> QED
  BY <1>1 DEF Booked, Costs

\* A finished request carries nothing.
LEMMA IdleFits == Fits(Idle) /\ Idle.pc = "idle" /\ Idle.costs = {}
<1>1. /\ Idle.pc = "idle" /\ Idle.part = None /\ Idle.row = None /\ Idle.record = None
      /\ Idle.quantity = 0 /\ Idle.delta = 0 /\ Idle.stale = FALSE /\ Idle.costs = {}
      /\ Idle.cost = None
  BY Zenon DEF Idle
<1>2. Idle \in ReqType
  BY BoundAssumption, SMT DEF Idle, ReqType, PCs, Costs
<1> QED
  BY <1>1, <1>2 DEF Fits

\* A handler that goes on without a write.
LEMMA QuietStep ==
    ASSUME Inv, NEW r \in Requests, NEW q, Fits(q), Covered(q),
           req' = [req EXCEPT ![r] = q], UNCHANGED tables, aborts' \in 0 .. MaxAborts
    PROVE  Inv'
<1>1. UNCHANGED <<live, stocks, uses, partsCost>>
  BY DEF tables
<1>2. Tables'
  BY <1>1 DEF Inv, Tables, StockRows, UseRows
<1>3. \A p : OnHand(p)' = OnHand(p)
  BY <1>1 DEF OnHand, LiveStocks, LiveUses, Total, Units
<1>4. req' \in [Requests -> ReqType]
  BY DEF Inv, Fits
<1>5. ASSUME NEW x \in Requests PROVE Fits(req'[x]) /\ Covered(req[x])'
  <2>1. req'[x] = q \/ req'[x] = req[x]
    BY DEF Inv
  <2>2. Fits(req'[x])
    BY <2>1 DEF Inv
  <2>3. Covered(req'[x])
    BY <2>1 DEF Inv
  <2>4. Covered(req[x])'
    BY <1>3, <2>3 DEF Covered
  <2> QED
    BY <2>2, <2>4
<1> QED
  BY <1>2, <1>4, <1>5 DEF Inv, Fits

\* What a commit does to a handler that is not the one that commits.
LEMMA CommitOthers ==
    ASSUME req \in [Requests -> ReqType], NEW r \in Requests, NEW q, Commit(r, q),
           NEW x \in Requests, x # r
    PROVE  /\ req[x].pc \notin Reading => req'[x] = req[x]
           /\ req[x].pc \in Reading => req'[x] = [req[x] EXCEPT !.stale = TRUE]
BY DEF Commit

\* ... and what that leaves of it.
LEMMA StaleFields ==
    ASSUME NEW q \in ReqType
    PROVE  LET n == [q EXCEPT !.stale = TRUE] IN
           /\ n \in ReqType /\ n.pc = q.pc /\ n.part = q.part /\ n.row = q.row
           /\ n.record = q.record /\ n.quantity = q.quantity /\ n.delta = q.delta
           /\ n.stale = TRUE /\ n.costs = q.costs /\ n.cost = q.cost
BY Zenon DEF ReqType

\* A handler that commits: whoever was about to insert is refused.
LEMMA CommitStep ==
    ASSUME Inv, NEW r \in Requests, NEW q, Fits(q), q.pc # "insertUse",
           Commit(r, q), Tables', aborts' = aborts
    PROVE  Inv'
<1>1. req'[r] = q /\ DOMAIN req' = Requests /\ req' = [x \in Requests |-> req'[x]]
  BY DEF Commit
<1>2. ASSUME NEW x \in Requests PROVE Fits(req'[x]) /\ Covered(req[x])'
  <2>1. CASE x = r
    BY <1>1, <2>1 DEF Covered
  <2>2. CASE x # r /\ req[x].pc \notin Reading
    BY <2>2, CommitOthers DEF Inv, Covered, Reading
  <2>3. CASE x # r /\ req[x].pc \in Reading
    <3>1. PICK n : n = [req[x] EXCEPT !.stale = TRUE]
      OBVIOUS
    <3>2. /\ n \in ReqType /\ n.pc = req[x].pc /\ n.part = req[x].part /\ n.row = req[x].row
          /\ n.record = req[x].record /\ n.stale = TRUE
      BY <3>1, StaleFields DEF Inv
    <3>3. req'[x] = n
      BY <2>3, <3>1, CommitOthers DEF Inv
    <3> QED
      BY <3>2, <3>3 DEF Inv, Fits, Covered
  <2> QED
    BY <2>1, <2>2, <2>3
<1>3. req' \in [Requests -> ReqType]
  BY <1>1, <1>2 DEF Fits
<1> QED
  BY <1>2, <1>3 DEF Inv

\* What a new request starts with has its type.
LEMMA Defaults ==
    /\ None \in Parts \union {None} /\ None \in Stocks \union Uses \union {None}
    /\ None \in Records \union {None} /\ 0 \in 0 .. MaxQuantity /\ 0 \in Int
    /\ {} \in SUBSET Records /\ None \in Costs
    /\ \A n \in Quantities : n \in 0 .. MaxQuantity /\ n \in Int
    /\ {"insertStock", "editStock", "checkUse", "checkEdit", "deleteUse", "cascade", "readCost"} \subseteq PCs
BY BoundAssumption DEF Quantities, PCs, Costs

\* A write of one row of a table, or of several, adds at most one row to those in use.
LEMMA FiniteRows ==
    ASSUME Tables
    PROVE  /\ \A s \in Stocks : IsFiniteSet(StockRows \union {s})
           /\ \A c \in Uses : IsFiniteSet(UseRows \union {c})
BY FS_AddElement DEF Tables

\* One lemma per group of handlers: none disturbs the types or what others read.
LEMMA PurchaseKeeps ==
    ASSUME Inv, NEW r \in Requests, Purchase(r)
    PROVE  Inv'
<1>0. Tables /\ Fits(req[r]) /\ req[r] \in ReqType /\ aborts \in 0 .. MaxAborts
  BY DEF Inv, Fits
<1>1. ASSUME NEW p \in Parts, NEW n \in Quantities, BeginStock(r, p, n) PROVE Inv'
  <2>1. PICK q : q = [Idle EXCEPT !.pc = "insertStock", !.part = p, !.quantity = n]
    OBVIOUS
  <2>2. Fits(q) /\ Covered(q)
    <3>1. q = [pc |-> "insertStock", part |-> p, row |-> None, record |-> None, quantity |-> n,
               delta |-> 0, stale |-> FALSE, costs |-> {}, cost |-> None]
      BY <2>1 DEF Idle
    <3>2. q \in ReqType /\ q.pc = "insertStock"
      BY <3>1, Defaults DEF ReqType
    <3> QED
      BY <3>2 DEF Fits, Covered
  <2> QED
    BY <1>0, <1>1, <2>1, <2>2, QuietStep DEF BeginStock, Start, Quiet, tables
<1>2. CASE InsertStock(r)
  <2>1. PICK s \in Stocks :
            /\ stocks[s].state = "none"
            /\ stocks' = [stocks EXCEPT ![s] = [state |-> "live", part |-> req[r].part,
                                                quantity |-> req[r].quantity]]
    BY <1>2 DEF InsertStock
  <2>2. stocks' \in [Stocks -> StockType]
    BY <1>0, <2>1, SMT DEF Tables, StockType, States, ReqType
  <2>3. StockRows' \in SUBSET (StockRows \union {s})
    BY <1>0, <2>1 DEF StockRows, Tables
  <2>4. IsFiniteSet(StockRows')
    BY <1>0, <2>3, FiniteRows, FS_Subset
  <2>5. Tables'
    BY <1>0, <1>2, <2>2, <2>4 DEF InsertStock, Tables, UseRows
  <2> QED
    BY <1>2, <2>5, IdleFits, CommitStep DEF InsertStock
<1>3. ASSUME NEW s \in Stocks, NEW n \in Quantities, BeginStockEdit(r, s, n) PROVE Inv'
  <2>1. PICK q : q = [Idle EXCEPT !.pc = "editStock", !.row = s, !.quantity = n]
    OBVIOUS
  <2>2. Fits(q) /\ Covered(q)
    <3>1. q = [pc |-> "editStock", part |-> None, row |-> s, record |-> None, quantity |-> n,
               delta |-> 0, stale |-> FALSE, costs |-> {}, cost |-> None]
      BY <2>1 DEF Idle
    <3>2. q \in ReqType /\ q.pc = "editStock" /\ q.row = s
      BY <3>1, Defaults DEF ReqType
    <3> QED
      BY <3>2 DEF Fits, Covered
  <2> QED
    BY <1>0, <1>3, <2>1, <2>2, QuietStep DEF BeginStockEdit, Start, Quiet, tables
<1>4. CASE EditStock(r)
  <2>1. req[r].row \in Stocks /\ req[r].quantity \in 0 .. MaxQuantity
    BY <1>0, <1>4 DEF EditStock, At, Fits, ReqType
  <2>2. stocks' \in [Stocks -> StockType]
    BY <1>0, <1>4, <2>1 DEF EditStock, Tables, StockType
  <2>3. \A s \in Stocks : stocks'[s].state = stocks[s].state
    BY <1>0, <1>4, <2>1 DEF EditStock, Tables, StockType
  <2>4. StockRows' = StockRows
    BY <2>3 DEF StockRows
  <2>5. Tables'
    BY <1>0, <1>4, <2>2, <2>4 DEF EditStock, Tables, UseRows
  <2> QED
    BY <1>4, <2>5, IdleFits, CommitStep DEF EditStock
<1>5. ASSUME NEW s \in Stocks, DeleteStock(r, s) PROVE Inv'
  <2>2. stocks' \in [Stocks -> StockType]
    BY <1>0, <1>5 DEF DeleteStock, Tables, StockType, States
  <2>3. StockRows' \in SUBSET (StockRows \union {s})
    BY <1>0, <1>5 DEF DeleteStock, StockRows, Tables
  <2>4. IsFiniteSet(StockRows')
    BY <1>0, <2>3, FiniteRows, FS_Subset
  <2>5. Tables'
    BY <1>0, <1>5, <2>2, <2>4 DEF DeleteStock, Tables, UseRows
  <2> QED
    BY <1>5, <2>5, IdleFits, CommitStep DEF DeleteStock
<1> QED
  BY <1>1, <1>2, <1>3, <1>4, <1>5 DEF Purchase

\* What a commit goes on with.
LEMMA CostFits ==
    ASSUME NEW M \in SUBSET Records
    PROVE  LET q == IF M = {} THEN Idle ELSE [Idle EXCEPT !.pc = "readCost", !.costs = M] IN
           /\ Fits(q) /\ q.pc \in {"idle", "readCost"} /\ q.costs = M
           /\ q.pc = "idle" <=> M = {}
<1>1. [Idle EXCEPT !.pc = "readCost", !.costs = M].pc = "readCost"
      /\ [Idle EXCEPT !.pc = "readCost", !.costs = M].costs = M
  BY Zenon DEF Idle
<1>2. Fits([Idle EXCEPT !.pc = "readCost", !.costs = M])
  <2>1. PICK q : q = [Idle EXCEPT !.pc = "readCost", !.costs = M]
    OBVIOUS
  <2>2. q = [pc |-> "readCost", part |-> None, row |-> None, record |-> None, quantity |-> 0,
             delta |-> 0, stale |-> FALSE, costs |-> M, cost |-> None]
    BY <2>1 DEF Idle
  <2>3. q \in ReqType /\ q.pc = "readCost"
    BY <2>2, Defaults DEF ReqType
  <2> QED
    BY <2>1, <2>3 DEF Fits
<1> QED
  BY <1>1, <1>2, IdleFits

\* A commit with costs to recompute, ...
LEMMA CostStep ==
    ASSUME Inv, NEW r \in Requests, NEW M \in SUBSET Records,
           CommitThenCost(r, M), Tables', aborts' = aborts
    PROVE  Inv'
<1>1. PICK q : q = IF M = {} THEN Idle ELSE [Idle EXCEPT !.pc = "readCost", !.costs = M]
  OBVIOUS
<1>2. Fits(q) /\ q.pc # "insertUse"
  BY <1>1, CostFits
<1> QED
  BY <1>1, <1>2, CommitStep DEF CommitThenCost

\* A handler that only moves on to another step.
LEMMA Moved ==
    ASSUME NEW q \in ReqType, NEW pc \in PCs
    PROVE  LET n == [q EXCEPT !.pc = pc] IN
           /\ n \in ReqType /\ n.pc = pc /\ n.part = q.part /\ n.row = q.row
           /\ n.record = q.record /\ n.quantity = q.quantity /\ n.delta = q.delta
           /\ n.stale = q.stale /\ n.costs = q.costs /\ n.cost = q.cost
BY Zenon DEF ReqType

\* ... the end of a request, ...
LEMMA FinishKeeps ==
    ASSUME Inv, NEW r \in Requests, Finish(r), UNCHANGED tables, aborts' \in 0 .. MaxAborts
    PROVE  Inv'
BY IdleFits, QuietStep DEF Finish, Covered

\* ... and rows that become tombstones.
LEMMA TombstoneTables ==
    ASSUME Tables, NEW C \in SUBSET UseRows, Tombstone(C), live' \subseteq live,
           partsCost' = partsCost, stocks' \in [Stocks -> StockType], StockRows' = StockRows
    PROVE  Tables'
<1>1. uses' \in [Uses -> UseType]
  BY DEF Tombstone, Tables, UseType, States
<1>2. UseRows' = UseRows
  <2>1. \A c \in Uses : uses'[c] = IF c \in C THEN [uses[c] EXCEPT !.state = "deleted"] ELSE uses[c]
    BY DEF Tombstone
  <2> QED
    BY <2>1 DEF UseRows, Tables, UseType
<1> QED
  BY <1>1, <1>2 DEF Tables

\* Writing a row of partConsumptions.
LEMMA UseTables ==
    ASSUME Tables, NEW c \in Uses, NEW w \in UseType, uses' = [uses EXCEPT ![c] = w],
           UNCHANGED <<live, stocks, partsCost>>
    PROVE  Tables'
<1>1. UseRows' \in SUBSET (UseRows \union {c})
  BY DEF UseRows, Tables
<1>2. IsFiniteSet(UseRows')
  BY <1>1, FiniteRows, FS_Subset
<1> QED
  BY <1>2 DEF Tables, StockRows

\* Inserting it takes its quantity from what is on hand.
LEMMA InsertKeeps ==
    ASSUME Inv, NEW r \in Requests, InsertUse(r)
    PROVE  Inv'
<1>0. Tables /\ Fits(req[r]) /\ req[r] \in ReqType
  BY DEF Inv, Fits
<1>1. PICK c \in Uses : uses[c].state = "none" /\ uses' = [uses EXCEPT ![c] = NewUse(r)]
  BY DEF InsertUse
<1>2. NewUse(r) \in UseType /\ req[r].record \in Records \union {None}
  BY <1>0, SMT DEF NewUse, UseType, States, ReqType
<1>3. Tables'
  BY <1>0, <1>1, <1>2, UseTables DEF InsertUse
<1>4. OfRecord(req[r].record) \in SUBSET Records
  BY <1>2 DEF OfRecord
<1> QED
  BY <1>3, <1>4, CostStep DEF InsertUse

LEMMA ConsumptionKeeps ==
    ASSUME Inv, NEW r \in Requests, Consumption(r)
    PROVE  Inv'
<1>0. Tables /\ Fits(req[r]) /\ req[r] \in ReqType /\ aborts \in 0 .. MaxAborts
  BY DEF Inv, Fits
<1>00. req[r].record \in Records \union {None} /\ req[r].quantity \in 0 .. MaxQuantity
  BY <1>0 DEF ReqType
<1>1. ASSUME NEW p \in Parts, NEW m \in Records \union {None}, NEW n \in Quantities,
             BeginUse(r, p, m, n)
      PROVE  Inv'
  <2>1. PICK q : q = [Idle EXCEPT !.pc = "checkUse", !.part = p, !.record = m, !.quantity = n]
    OBVIOUS
  <2>2. Fits(q) /\ Covered(q)
    <3>1. q = [pc |-> "checkUse", part |-> p, row |-> None, record |-> m, quantity |-> n,
               delta |-> 0, stale |-> FALSE, costs |-> {}, cost |-> None]
      BY <2>1 DEF Idle
    <3>2. q \in ReqType /\ q.pc = "checkUse"
      BY <3>1, Defaults DEF ReqType
    <3> QED
      BY <3>2 DEF Fits, Covered
  <2> QED
    BY <1>0, <1>1, <2>1, <2>2, QuietStep DEF BeginUse, Start, Quiet, tables
<1>2. CASE CheckUse(r)
  <2>1. UNCHANGED tables /\ aborts' = aborts
    BY <1>2 DEF CheckUse, Quiet, tables
  <2>2. CASE Finish(r)
    BY <1>0, <2>1, <2>2, FinishKeeps
  <2>3. CASE req[r].quantity <= OnHand(req[r].part) /\ Goto(r, "insertUse")
    <3>1. PICK q : q = [req[r] EXCEPT !.pc = "insertUse"]
      OBVIOUS
    <3>2. /\ q \in ReqType /\ q.pc = "insertUse" /\ q.quantity = req[r].quantity
          /\ q.part = req[r].part
      BY <1>0, <3>1, Moved DEF PCs
    <3>3. Fits(q) /\ Covered(q)
      BY <2>3, <3>2 DEF Fits, Covered
    <3>4. req' = [req EXCEPT ![r] = q]
      BY <2>3, <3>1 DEF Goto, Inv
    <3> QED
      BY <1>0, <2>1, <3>3, <3>4, QuietStep
  <2>4. req[r].quantity \in Int /\ OnHand(req[r].part) \in Int
    BY <1>0, <1>00, OnHandType, BoundAssumption
  <2> QED
    BY <1>2, <2>2, <2>3, <2>4 DEF CheckUse
<1>3. CASE InsertUse(r)
  BY <1>3, InsertKeeps
<1>4. ASSUME NEW c \in Uses, NEW n \in Quantities, BeginUseEdit(r, c, n) PROVE Inv'
  <2>1. PICK q : q = [Idle EXCEPT !.pc = "checkEdit", !.row = c, !.part = uses[c].part,
                             !.record = uses[c].record, !.quantity = n,
                             !.delta = n - uses[c].quantity]
    OBVIOUS
  <2>2. Fits(q) /\ Covered(q)
    <3>1. q = [pc |-> "checkEdit", part |-> uses[c].part, row |-> c, record |-> uses[c].record,
               quantity |-> n, delta |-> n - uses[c].quantity, stale |-> FALSE,
               costs |-> {}, cost |-> None]
      BY <2>1 DEF Idle
    <3>2. n \in Int /\ n - uses[c].quantity \in Int /\ n \in 0 .. MaxQuantity
      BY <1>0, Rows, BoundAssumption DEF Quantities
    <3>3. q \in ReqType /\ q.pc = "checkEdit" /\ q.row = c
      BY <1>0, <3>1, <3>2, Defaults, Rows DEF ReqType
    <3> QED
      BY <3>3 DEF Fits, Covered
  <2> QED
    BY <1>0, <1>4, <2>1, <2>2, QuietStep DEF BeginUseEdit, Start, Quiet, tables
<1>5. CASE CheckEdit(r)
  <2>1. UNCHANGED tables /\ aborts' = aborts
    BY <1>5 DEF CheckEdit, Quiet, tables
  <2>2. CASE Finish(r)
    BY <1>0, <2>1, <2>2, FinishKeeps
  <2>3. CASE Goto(r, "editUse")
    <3>1. PICK q : q = [req[r] EXCEPT !.pc = "editUse"]
      OBVIOUS
    <3>2. q \in ReqType /\ q.pc = "editUse" /\ q.row = req[r].row
      BY <1>0, <3>1, Moved DEF PCs
    <3>3. Fits(q) /\ Covered(q)
      BY <1>0, <1>5, <3>2 DEF Fits, Covered, CheckEdit, At
    <3>4. req' = [req EXCEPT ![r] = q]
      BY <2>3, <3>1 DEF Goto, Inv
    <3> QED
      BY <1>0, <2>1, <3>3, <3>4, QuietStep
  <2> QED
    BY <1>5, <2>2, <2>3 DEF CheckEdit
<1>6. CASE EditUse(r)
  <2>1. req[r].row \in Uses
    BY <1>0, <1>6 DEF EditUse, At, Fits
  <2>2. PICK w : w = [uses[req[r].row] EXCEPT !.quantity = req[r].quantity]
    OBVIOUS
  <2>3. w \in UseType
    BY <1>0, <1>00, <2>1, <2>2, Rows DEF UseType
  <2>4. uses' = [uses EXCEPT ![req[r].row] = w]
    BY <1>6, <2>2 DEF EditUse
  <2>5. Tables'
    BY <1>0, <1>6, <2>1, <2>3, <2>4, UseTables DEF EditUse
  <2>6. OfRecord(req[r].record) \in SUBSET Records
    BY <1>00 DEF OfRecord
  <2> QED
    BY <1>6, <2>5, <2>6, CostStep DEF EditUse
<1>7. ASSUME NEW c \in Uses, BeginUseDelete(r, c) PROVE Inv'
  <2>1. PICK q : q = [Idle EXCEPT !.pc = "deleteUse", !.row = c, !.record = uses[c].record]
    OBVIOUS
  <2>2. Fits(q) /\ Covered(q)
    <3>1. q = [pc |-> "deleteUse", part |-> None, row |-> c, record |-> uses[c].record,
               quantity |-> 0, delta |-> 0, stale |-> FALSE, costs |-> {}, cost |-> None]
      BY <2>1 DEF Idle
    <3>2. q \in ReqType /\ q.pc = "deleteUse" /\ q.row = c
      BY <1>0, <3>1, Defaults, Rows DEF ReqType
    <3> QED
      BY <3>2 DEF Fits, Covered
  <2> QED
    BY <1>0, <1>7, <2>1, <2>2, QuietStep DEF BeginUseDelete, Start, Quiet, tables
<1>8. CASE DeleteUse(r)
  <2>1. CASE Finish(r) /\ UNCHANGED uses
    BY <1>0, <1>8, <2>1, FinishKeeps DEF DeleteUse, tables
  <2>2. CASE /\ uses' = [uses EXCEPT ![req[r].row].state = "deleted"]
             /\ CommitThenCost(r, OfRecord(req[r].record))
    <3>1. req[r].row \in Uses
      BY <1>0, <1>8 DEF DeleteUse, At, Fits
    <3>2. PICK w : w = [uses[req[r].row] EXCEPT !.state = "deleted"]
      OBVIOUS
    <3>3. w \in UseType
      BY <1>0, <3>1, <3>2, Rows DEF UseType, States
    <3>4. Tables'
      BY <1>0, <1>8, <2>2, <3>1, <3>2, <3>3, UseTables DEF DeleteUse
    <3>5. OfRecord(req[r].record) \in SUBSET Records
      BY <1>00 DEF OfRecord
    <3> QED
      BY <1>8, <2>2, <3>4, <3>5, CostStep DEF DeleteUse
  <2> QED
    BY <1>8, <2>1, <2>2 DEF DeleteUse
<1>9. CASE RefuseStale(r)
  BY <1>0, <1>9, FinishKeeps DEF RefuseStale, Quiet, tables
<1> QED
  BY <1>1, <1>2, <1>3, <1>4, <1>5, <1>6, <1>7, <1>8, <1>9 DEF Consumption

LEMMA DeletionKeeps ==
    ASSUME Inv, NEW r \in Requests, Deletion(r)
    PROVE  Inv'
<1>0. Tables /\ Fits(req[r]) /\ req[r] \in ReqType /\ aborts \in 0 .. MaxAborts
  BY DEF Inv, Fits
<1>1. ASSUME NEW p \in Parts, BeginPartDelete(r, p) PROVE Inv'
  <2> DEFINE M == {m \in Records : \E c \in LiveUses(p) : uses[c].record = m}
  <2>1. PICK q : q = [Idle EXCEPT !.pc = "cascade", !.part = p, !.costs = M]
    OBVIOUS
  <2>2. M \in SUBSET Records
    OBVIOUS
  <2>3. req' = [req EXCEPT ![r] = q] /\ UNCHANGED tables /\ aborts' = aborts
    BY <1>1, <2>1 DEF BeginPartDelete, Start, Quiet, tables
  <2> HIDE DEF M
  <2>4. Fits(q) /\ Covered(q)
    <3>1. q = [pc |-> "cascade", part |-> p, row |-> None, record |-> None, quantity |-> 0,
               delta |-> 0, stale |-> FALSE, costs |-> M, cost |-> None]
      BY <2>1 DEF Idle
    <3>2. q \in ReqType /\ q.pc = "cascade" /\ q.part = p
      BY <2>2, <3>1, Defaults DEF ReqType
    <3> QED
      BY <3>2 DEF Fits, Covered
  <2> QED
    BY <1>0, <2>3, <2>4, QuietStep
<1>2. CASE Cascade(r)
  <2>1. LiveUses(req[r].part) \in SUBSET UseRows
    BY DEF LiveUses, UseRows
  <2>2. \A s \in Stocks : stocks'[s] = IF s \in LiveStocks(req[r].part)
                                      THEN [stocks[s] EXCEPT !.state = "deleted"] ELSE stocks[s]
    BY <1>2 DEF Cascade
  <2>3. stocks' \in [Stocks -> StockType]
    BY <1>0, <1>2 DEF Cascade, Tables, StockType, States
  <2>4. StockRows' = StockRows
    BY <1>0, <2>2, Rows DEF StockRows, LiveStocks, StockType
  <2>5. Tables'
    BY <1>0, <1>2, <2>1, <2>3, <2>4, TombstoneTables DEF Cascade
  <2>6. req[r].costs \in SUBSET Records
    BY <1>0 DEF ReqType
  <2> QED
    BY <1>2, <2>5, <2>6, CostStep DEF Cascade
<1>3. ASSUME NEW m \in Records, DeleteRecord(r, m) PROVE Inv'
  <2>1. UsesOf(m) \in SUBSET UseRows
    BY DEF UsesOf, UseRows
  <2>2. Tables'
    BY <1>0, <1>3, <2>1, TombstoneTables DEF DeleteRecord, StockRows, Tables
  <2> QED
    BY <1>3, <2>2, IdleFits, CommitStep DEF DeleteRecord
<1> QED
  BY <1>1, <1>2, <1>3 DEF Deletion

LEMMA CostingKeeps ==
    ASSUME Inv, NEW r \in Requests, Costing(r)
    PROVE  Inv'
<1>0. Tables /\ Fits(req[r]) /\ req[r] \in ReqType /\ aborts \in 0 .. MaxAborts
  BY DEF Inv, Fits
<1>1. CASE ReadCost(r)
  <2>1. PICK m \in req[r].costs :
            req' = [req EXCEPT ![r] = [req[r] EXCEPT !.pc = "writeCost", !.record = m, !.cost = Booked(m)]]
    BY <1>1 DEF ReadCost
  <2>2. PICK q : q = [req[r] EXCEPT !.pc = "writeCost", !.record = m, !.cost = Booked(m)]
    OBVIOUS
  <2>3. m \in Records /\ Booked(m) \in Costs
    BY <1>0, <2>1, BookedType DEF ReqType
  <2>4. q \in ReqType /\ q.pc = "writeCost" /\ q.record = m
    <3>1. PICK c \in Costs : c = Booked(m)
      BY <2>3
    <3> QED
      BY <1>0, <2>2, <2>3, <3>1 DEF ReqType, PCs
  <2>5. Fits(q) /\ Covered(q)
    BY <2>3, <2>4 DEF Fits, Covered
  <2> QED
    BY <1>0, <1>1, <2>1, <2>2, <2>5, QuietStep DEF ReadCost, Quiet, tables
<1>2. CASE WriteCost(r)
  <2>1. req[r].record \in Records /\ req[r].cost \in Costs
    BY <1>0, <1>2 DEF WriteCost, At, Fits, ReqType
  <2>2. Tables'
    BY <1>0, <1>2, <2>1 DEF WriteCost, Tables, StockRows, UseRows
  <2>3. req[r].costs \ {req[r].record} \in SUBSET Records
    BY <1>0 DEF ReqType
  <2>4. PICK q : q = NextCost(r)
    OBVIOUS
  <2>5. Fits(q) /\ q.pc # "insertUse"
    BY <2>3, <2>4, CostFits DEF NextCost
  <2> QED
    BY <1>2, <2>2, <2>4, <2>5, CommitStep DEF WriteCost
<1> QED
  BY <1>1, <1>2 DEF Costing

LEMMA InvInit == Init => Inv
<1> SUFFICES ASSUME Init PROVE Inv
  OBVIOUS
<1>1. StockRows = {} /\ UseRows = {}
  BY SMT DEF Init, StockRows, UseRows, NoStock, NoUse
<1>2. NoStock \in StockType /\ NoUse \in UseType
  BY BoundAssumption, SMT DEF NoStock, NoUse, StockType, UseType, States
<1>3. Tables
  BY <1>1, <1>2, FS_EmptySet DEF Init, Tables, Costs
<1> QED
  BY <1>3, IdleFits, BoundAssumption DEF Init, Inv, Covered, Fits

LEMMA InvNext == Inv /\ [Next]_vars => Inv'
<1> SUFFICES ASSUME Inv, [Next]_vars PROVE Inv'
  OBVIOUS
<1>1. CASE UNCHANGED vars
  BY <1>1 DEF vars, Inv, Tables, StockRows, UseRows, Covered, OnHand, LiveStocks, LiveUses, Total, Units
<1>2. ASSUME NEW r \in Requests, Abort(r) PROVE Inv'
  <2>1. aborts' \in 0 .. MaxAborts
    BY <1>2, BoundAssumption DEF Abort, Inv
  <2> QED
    BY <1>2, <2>1, FinishKeeps DEF Abort
<1> QED
  BY <1>1, <1>2, PurchaseKeeps, ConsumptionKeeps, DeletionKeeps, CostingKeeps
  DEF Next, Stop, Handling

\* The tables and the handlers keep their types.
THEOREM TypeCorrect == Spec => []TypeOK
<1>1. Inv => TypeOK
  BY DEF Inv, Tables, TypeOK
<1> QED
  BY <1>1, InvInit, InvNext, PTL DEF Spec

---------------------------------------------------------------------------
(* What a new row, or another quantity in a row, takes from what is on hand. *)

LEMMA InsertTakes ==
    ASSUME Tables, Tables', NEW c \in Uses, uses[c].state = "none", uses'[c].state = "live",
           \A d \in Uses \ {c} : uses'[d] = uses[d], stocks' = stocks,
           NEW p, uses'[c].part = p
    PROVE  OnHand(p)' = OnHand(p) - uses'[c].quantity
<1>1. LiveUses(p)' = LiveUses(p) \union {c} /\ c \notin LiveUses(p)
  BY DEF LiveUses
<1>2. LiveStocks(p)' = LiveStocks(p)
  BY DEF LiveStocks
<1>3. /\ Bounded(stocks, LiveStocks(p)) /\ Bounded(uses, LiveUses(p))
      /\ uses'[c].quantity \in 0 .. MaxQuantity
  BY LiveBounded, Rows DEF Tables, UseType
<1>4. \A d \in LiveUses(p) : uses'[d] = uses[d]
  BY DEF LiveUses
<1>5. Bounded(uses', LiveUses(p))
  BY <1>3, <1>4 DEF Bounded
<1>6. Total(uses', LiveUses(p) \union {c}) = Total(uses', LiveUses(p)) + uses'[c].quantity
  BY <1>1, <1>3, <1>5, AddRow
<1>7. Total(uses', LiveUses(p)) = Total(uses, LiveUses(p))
  BY <1>4, SameTotal
<1>8. Total(uses, LiveUses(p)) \in Nat /\ Total(stocks, LiveStocks(p)) \in Nat
      /\ uses'[c].quantity \in Nat
  BY <1>3, TotalType, BoundAssumption
<1>9. OnHand(p)' = Total(stocks, LiveStocks(p)) - Total(uses', LiveUses(p) \union {c})
  BY <1>1, <1>2 DEF OnHand
<1>10. OnHand(p) = Total(stocks, LiveStocks(p)) - Total(uses, LiveUses(p))
  BY DEF OnHand
<1> QED
  BY <1>6, <1>7, <1>8, <1>9, <1>10

LEMMA EditTakes ==
    ASSUME Tables, Tables', NEW c \in Uses, uses[c].state = "live", uses'[c].state = "live",
           \A d \in Uses \ {c} : uses'[d] = uses[d], stocks' = stocks,
           NEW p, uses[c].part = p, uses'[c].part = p
    PROVE  OnHand(p)' = OnHand(p) - (uses'[c].quantity - uses[c].quantity)
<1>1. LiveUses(p)' = LiveUses(p) /\ c \in LiveUses(p)
  BY DEF LiveUses
<1>2. LiveStocks(p)' = LiveStocks(p)
  BY DEF LiveStocks
<1>3. /\ Bounded(stocks, LiveStocks(p)) /\ Bounded(uses, LiveUses(p))
      /\ uses[c].quantity \in 0 .. MaxQuantity /\ uses'[c].quantity \in 0 .. MaxQuantity
  BY LiveBounded, Rows DEF Tables, UseType
<1>4. \A d \in LiveUses(p) \ {c} : uses[d].quantity = uses'[d].quantity
  BY DEF LiveUses
<1>5. Bounded(uses', LiveUses(p))
  <2>1. \A d \in LiveUses(p) : uses'[d].quantity \in 0 .. MaxQuantity
    BY <1>3, <1>4 DEF Bounded
  <2> QED
    BY <1>3, <2>1 DEF Bounded
<1>6. Total(uses', LiveUses(p)) = Total(uses, LiveUses(p)) - uses[c].quantity + uses'[c].quantity
  BY <1>1, <1>3, <1>4, <1>5, ChangeRow
<1>7. Total(uses, LiveUses(p)) \in Nat /\ Total(stocks, LiveStocks(p)) \in Nat
      /\ uses[c].quantity \in Nat /\ uses'[c].quantity \in Nat
  BY <1>3, TotalType, BoundAssumption
<1>8. OnHand(p)' = Total(stocks, LiveStocks(p)) - Total(uses', LiveUses(p))
  BY <1>1, <1>2 DEF OnHand
<1>9. OnHand(p) = Total(stocks, LiveStocks(p)) - Total(uses, LiveUses(p))
  BY DEF OnHand
<1> QED
  BY <1>6, <1>7, <1>8, <1>9

\* Only an insert brings a row to life, and only an insert or an edit gives a row
\* another quantity.
LEMMA OthersTakeNothing ==
    ASSUME Inv, NEW r \in Requests, Handling(r), ~InsertUse(r), ~EditUse(r)
    PROVE  \A c \in Uses : /\ uses'[c].quantity = uses[c].quantity
                           /\ uses'[c].state = "live" => uses[c].state = "live"
<1>0. Tables
  BY DEF Inv
<1>1. CASE UNCHANGED uses
  BY <1>1
<1>2. ASSUME NEW C, Tombstone(C)
      PROVE  \A c \in Uses : /\ uses'[c].quantity = uses[c].quantity
                             /\ uses'[c].state = "live" => uses[c].state = "live"
  <2>1. \A c \in Uses : uses'[c] = IF c \in C THEN [uses[c] EXCEPT !.state = "deleted"] ELSE uses[c]
    BY <1>2 DEF Tombstone
  <2> QED
    BY <1>0, <2>1, Rows DEF UseType
<1>3. CASE DeleteUse(r)
  BY <1>0, <1>3, Rows DEF DeleteUse, UseType, Tables
<1>4. CASE Cascade(r)
  BY <1>2, <1>4 DEF Cascade
<1>5. ASSUME NEW m \in Records, DeleteRecord(r, m) PROVE Tombstone(UsesOf(m))
  BY <1>5 DEF DeleteRecord
<1> QED
  BY <1>1, <1>2, <1>3, <1>4, <1>5
  DEF Handling, Purchase, Consumption, Deletion, Costing, Abort, BeginStock, InsertStock,
      BeginStockEdit, EditStock, DeleteStock, BeginUse, CheckUse, BeginUseEdit, CheckEdit,
      BeginUseDelete, RefuseStale, BeginPartDelete, ReadCost, WriteCost, Quiet, tables

\* An edit changes one quantity and nothing else, ...
LEMMA EditEffect ==
    ASSUME Inv, NEW r \in Requests, EditUse(r)
    PROVE  /\ req[r].row \in Uses /\ stocks' = stocks /\ live' = live
           /\ \A c \in Uses : /\ uses'[c].state = uses[c].state /\ uses'[c].part = uses[c].part
                              /\ uses'[c].record = uses[c].record
                              /\ c # req[r].row => uses'[c] = uses[c]
           /\ uses'[req[r].row].quantity = req[r].quantity
<1>1. req[r].row \in Uses /\ Tables
  BY DEF Inv, EditUse, At, Fits
<1>2. uses' = [uses EXCEPT ![req[r].row].quantity = req[r].quantity]
  BY DEF EditUse
<1> QED
  BY <1>1, <1>2, Rows DEF EditUse, Tables, UseType

\* ... and an insert brings one row to life.
LEMMA InsertEffect ==
    ASSUME Inv, NEW r \in Requests, InsertUse(r)
    PROVE  \E c \in Uses :
              /\ uses[c].state = "none" /\ uses'[c] = NewUse(r)
              /\ \A d \in Uses \ {c} : uses'[d] = uses[d]
              /\ stocks' = stocks /\ live' = live
              /\ uses'[c].state = "live" /\ uses'[c].part = req[r].part
              /\ uses'[c].record = req[r].record /\ uses'[c].quantity = req[r].quantity
<1>1. PICK c \in Uses : uses[c].state = "none" /\ uses' = [uses EXCEPT ![c] = NewUse(r)]
  BY DEF InsertUse
<1>2. uses'[c] = NewUse(r) /\ \A d \in Uses \ {c} : uses'[d] = uses[d]
  BY <1>1 DEF Inv, Tables
<1> QED
  BY <1>1, <1>2 DEF InsertUse, NewUse

\* A new row is covered: what the handler read still holds, for a commit in between
\* would have made its snapshot stale.
LEMMA InsertCovered ==
    ASSUME Inv, Inv', NEW r \in Requests, InsertUse(r), NEW c \in Uses, NEW p,
           uses'[c].state = "live", uses'[c].part = p, uses'[c] # uses[c]
    PROVE  OnHand(p)' >= 0
<1>1. /\ uses[c].state = "none" /\ \A d \in Uses \ {c} : uses'[d] = uses[d]
      /\ stocks' = stocks /\ p = req[r].part /\ uses'[c].quantity = req[r].quantity
  BY InsertEffect
<1>2. req[r].quantity <= OnHand(p) /\ req[r].quantity \in 0 .. MaxQuantity
  BY <1>1 DEF Inv, InsertUse, At, Covered, ReqType
<1>3. OnHand(p)' = OnHand(p) - req[r].quantity
  BY <1>1, InsertTakes DEF Inv
<1>4. OnHand(p) \in Int /\ req[r].quantity \in Int
  BY <1>2, OnHandType, BoundAssumption DEF Inv
<1> QED
  BY <1>2, <1>3, <1>4

\* However requests overlap, a new consumption is booked only while what is on
\* hand covers it (create_part_consumption).
THEOREM NewUsesAreCovered == Spec => NewUseIsCovered
<1> DEFINE Born(c, p) == uses[c].state = "none" /\ uses'[c].state = "live" /\ uses'[c].part = p
<1>1. ASSUME Inv, [Next]_vars, NEW c \in Uses, NEW p \in Parts, Born(c, p)
      PROVE  OnHand(p)' >= 0
  <2>1. Inv' /\ ~UNCHANGED vars
    BY <1>1, InvNext DEF vars
  <2>2. PICK r \in Requests : Handling(r)
    BY <1>1, <2>1 DEF Next, Stop
  <2>3. ~EditUse(r)
    BY <1>1, <2>2, EditEffect
  <2>4. InsertUse(r)
    BY <1>1, <2>2, <2>3, OthersTakeNothing
  <2> QED
    BY <1>1, <2>1, <2>4, InsertCovered
<1>2. Inv /\ [Next]_vars =>
        [\A c \in Uses, p \in Parts : Born(c, p) => OnHand(p)' >= 0]_vars
  BY <1>1
<1> QED
  BY <1>2, InvInit, InvNext, PTL DEF Spec, NewUseIsCovered

---------------------------------------------------------------------------
(* One request after the other: what a handler carries is what the tables   *)
(* hold.                                                                    *)

Carries(q) ==
    /\ q.pc \in {"insertStock", "checkUse", "insertUse", "cascade"} => q.part \in live
    /\ q.pc \in {"checkUse", "insertUse"} => q.record \in live \union {None}
    /\ q.pc \in {"checkEdit", "editUse", "deleteUse"} =>
          /\ uses[q.row].state = "live" /\ q.record = uses[q.row].record
    /\ q.pc \in {"checkEdit", "editUse"} =>
          /\ q.part = uses[q.row].part
          /\ q.delta = q.quantity - uses[q.row].quantity
    /\ q.pc = "editUse" => q.delta <= OnHand(q.part)
    /\ q.pc = "cascade" => q.costs = {m \in Records : \E c \in LiveUses(q.part) : uses[c].record = m}
    /\ q.pc = "writeCost" => q.record \in q.costs /\ q.cost = Booked(q.record)
    /\ q.pc \notin {"cascade", "readCost", "writeCost"} => q.costs = {}

\* At most one handler is at work, ...
Single == \A r, x \in Requests : ~At(r, "idle") /\ ~At(x, "idle") => r = x

\* ... it carries what the tables hold, nothing live hangs on a deleted row, and
\* every stored cost it is not about to write is current.
Lone == Single /\ DeletionsCascade /\ CostIsCurrent /\ \A r \in Requests : Carries(req[r])

Turn(r) == \A x \in Requests \ {r} : At(x, "idle")

\* The cost of a record depends on its live rows only.
LEMMA BookedSame ==
    ASSUME NEW m, \A c \in Uses : c \in UsesOf(m) \/ c \in UsesOf(m)' => uses'[c] = uses[c]
    PROVE  Booked(m)' = Booked(m)
<1>1. UsesOf(m)' = UsesOf(m)
  BY DEF UsesOf
<1>2. ASSUME NEW p
      PROVE  Total(uses, UsesOf(m) \intersect LiveUses(p))' = Total(uses, UsesOf(m) \intersect LiveUses(p))
  <2>1. \A c \in UsesOf(m) : c \in LiveUses(p)' <=> c \in LiveUses(p)
    BY DEF UsesOf, LiveUses
  <2>2. (UsesOf(m) \intersect LiveUses(p))' = UsesOf(m) \intersect LiveUses(p)
    BY <1>1, <2>1
  <2>3. \A c \in UsesOf(m) \intersect LiveUses(p) : uses'[c].quantity = uses[c].quantity
    BY DEF UsesOf
  <2>4. Total(uses', UsesOf(m) \intersect LiveUses(p)) = Total(uses, UsesOf(m) \intersect LiveUses(p))
    BY <2>3, SameTotal
  <2> QED
    BY <2>2, <2>4
<1> QED
  BY <1>1, <1>2 DEF Booked

\* Whoever waits is idle and stays so.
LEMMA LoneStep ==
    ASSUME Inv, Lone, NEW r \in Requests, Turn(r), NEW q,
           req' = [req EXCEPT ![r] = q] \/ Commit(r, q),
           Carries(q)', DeletionsCascade',
           \A m \in Records : m \in live' /\ m \notin q.costs => partsCost'[m] = Booked(m)'
    PROVE  Lone'
<1>1. req'[r] = q /\ \A x \in Requests \ {r} : req'[x] = req[x]
  BY DEF Inv, Commit, Turn, At, Reading
<1>2. \A x \in Requests \ {r} : req'[x].pc = "idle" /\ req'[x].costs = {}
  BY <1>1 DEF Turn, At, Lone, Carries
<1>3. Single'
  BY <1>2 DEF Single, At
<1>4. CostIsCurrent'
  BY <1>1 DEF CostIsCurrent, Recosting
<1>5. ASSUME NEW x \in Requests PROVE Carries(req[x])'
  BY <1>1, <1>2 DEF Carries
<1> QED
  BY <1>3, <1>4, <1>5 DEF Lone

\* A handler that reads.
LEMMA LoneQuiet ==
    ASSUME Inv, Lone, NEW r \in Requests, Turn(r), NEW q, req' = [req EXCEPT ![r] = q],
           UNCHANGED tables, req[r].costs \subseteq q.costs, Carries(q)
    PROVE  Lone'
<1>1. UNCHANGED <<live, stocks, uses, partsCost>>
  BY DEF tables
<1>2. \A m : Booked(m)' = Booked(m)
  BY <1>1, BookedSame
<1>3. Carries(q)'
  BY <1>1, <1>2 DEF Carries, OnHand, LiveStocks, LiveUses, Total, Units
<1>4. DeletionsCascade'
  BY <1>1 DEF Lone, DeletionsCascade, NothingLiveOnDeletedPart, DeletedRecordGivesBack,
              LiveStocks, LiveUses, UsesOf
<1>5. ASSUME NEW m \in Records, m \in live, m \notin q.costs PROVE partsCost[m] = Booked(m)
  <2>1. ~Recosting(m)
    BY <1>5 DEF Recosting, Turn, At, Lone, Carries
  <2> QED
    BY <1>5, <2>1 DEF Lone, CostIsCurrent
<1> QED
  BY <1>1, <1>2, <1>3, <1>4, <1>5, LoneStep

\* A handler that writes, and has the costs of the records in M to compute.
LEMMA LoneCommit ==
    ASSUME Inv, Lone, NEW r \in Requests, Turn(r), NEW M \in SUBSET Records,
           CommitThenCost(r, M), DeletionsCascade',
           \A m \in Records : m \in live' /\ m \notin M => partsCost'[m] = Booked(m)'
    PROVE  Lone'
<1>1. PICK q : q = IF M = {} THEN Idle ELSE [Idle EXCEPT !.pc = "readCost", !.costs = M]
  OBVIOUS
<1>2. q.pc \in {"idle", "readCost"} /\ q.costs = M /\ (q.pc = "idle" <=> M = {})
  BY <1>1, CostFits
<1>3. Carries(q)'
  BY <1>2 DEF Carries
<1> QED
  BY <1>1, <1>2, <1>3, LoneStep DEF CommitThenCost

\* ... or none.
LEMMA LoneDone ==
    ASSUME Inv, Lone, NEW r \in Requests, Turn(r), Commit(r, Idle), DeletionsCascade',
           \A m \in Records : m \in live' => partsCost'[m] = Booked(m)'
    PROVE  Lone'
<1>1. CommitThenCost(r, {})
  BY DEF CommitThenCost
<1> QED
  BY <1>1, LoneCommit

\* A request that ends with nothing left to compute.
LEMMA LoneFinish ==
    ASSUME Inv, Lone, NEW r \in Requests, Turn(r), Finish(r), UNCHANGED tables, req[r].costs = {}
    PROVE  Lone'
BY IdleFits, LoneQuiet DEF Finish, Carries

\* Rows that only disappear.
LEMMA Fewer ==
    ASSUME DeletionsCascade, live' = live,
           \A s \in Stocks : stocks'[s].state = "live" =>
               stocks[s].state = "live" /\ stocks'[s].part = stocks[s].part,
           \A c \in Uses : uses'[c].state = "live" =>
               /\ uses[c].state = "live" /\ uses'[c].part = uses[c].part
               /\ uses'[c].record = uses[c].record
    PROVE  DeletionsCascade'
BY DEF DeletionsCascade, NothingLiveOnDeletedPart, DeletedRecordGivesBack,
       LiveStocks, LiveUses, UsesOf

\* What was current before a step on the tables of the purchases is so after it.
LEMMA CurrentBefore ==
    ASSUME Lone, NEW r \in Requests, Turn(r), NEW m \in Records, m \in live, m \notin req[r].costs
    PROVE  partsCost[m] = Booked(m)
<1>1. ~Recosting(m)
  BY DEF Recosting, Turn, At, Lone, Carries
<1> QED
  BY <1>1 DEF Lone, CostIsCurrent

\* One lemma per group of handlers.
LEMMA PurchaseAlone ==
    ASSUME Inv, Inv', Lone, NEW r \in Requests, Turn(r), Purchase(r)
    PROVE  Lone'
<1>0. Tables /\ Tables' /\ Fits(req[r]) /\ req[r] \in ReqType /\ Carries(req[r])
  BY DEF Inv, Fits, Lone
<1>1. ASSUME NEW p \in Parts, NEW n \in Quantities, BeginStock(r, p, n) PROVE Lone'
  <2>1. PICK q : q = [Idle EXCEPT !.pc = "insertStock", !.part = p, !.quantity = n]
    OBVIOUS
  <2>2. q.pc = "insertStock" /\ q.part = p /\ q.costs = {}
    BY <2>1, Zenon DEF Idle
  <2>3. Carries(q) /\ req[r].costs = {}
    BY <1>0, <1>1, <2>2 DEF Carries, BeginStock, Start, At
  <2> QED
    BY <1>1, <2>1, <2>3, LoneQuiet DEF BeginStock, Start, Quiet, tables
<1>2. CASE InsertStock(r)
  <2>1. /\ req[r].costs = {} /\ req[r].part \in live
        /\ UNCHANGED <<live, uses, partsCost>> /\ Commit(r, Idle)
    BY <1>0, <1>2 DEF Carries, InsertStock, At
  <2>2. PICK s \in Stocks :
            stocks' = [stocks EXCEPT ![s] = [state |-> "live", part |-> req[r].part,
                                             quantity |-> req[r].quantity]]
    BY <1>2 DEF InsertStock
  <2>3. \A x \in Stocks : \/ stocks'[x] = stocks[x]
                          \/ stocks'[x].part \in live
    BY <1>0, <2>1, <2>2 DEF Tables
  <2>4. DeletionsCascade'
    BY <2>1, <2>3 DEF Lone, DeletionsCascade, NothingLiveOnDeletedPart, DeletedRecordGivesBack,
                      LiveStocks, LiveUses, UsesOf
  <2> QED
    BY <2>1, <2>4, CurrentBefore, BookedSame, LoneDone
<1>3. ASSUME NEW s \in Stocks, NEW n \in Quantities, BeginStockEdit(r, s, n) PROVE Lone'
  <2>1. PICK q : q = [Idle EXCEPT !.pc = "editStock", !.row = s, !.quantity = n]
    OBVIOUS
  <2>2. q.pc = "editStock" /\ q.costs = {}
    BY <2>1, Zenon DEF Idle
  <2>3. Carries(q) /\ req[r].costs = {}
    BY <1>0, <1>3, <2>2 DEF Carries, BeginStockEdit, Start, At
  <2> QED
    BY <1>3, <2>1, <2>3, LoneQuiet DEF BeginStockEdit, Start, Quiet, tables
<1>4. CASE EditStock(r) \/ \E s \in Stocks : DeleteStock(r, s)
  <2>1. /\ req[r].costs = {}
        /\ UNCHANGED <<live, uses, partsCost>> /\ Commit(r, Idle)
    BY <1>0, <1>4 DEF Carries, EditStock, DeleteStock, At
  <2>2. \A x \in Stocks : stocks'[x].state = "live" =>
            stocks[x].state = "live" /\ stocks'[x].part = stocks[x].part
    <3>1. CASE EditStock(r)
      <4>1. req[r].row \in Stocks
        BY <1>0, <3>1 DEF EditStock, At, Fits
      <4> QED
        BY <1>0, <3>1, <4>1, Rows DEF EditStock, Tables, StockType
    <3>2. ASSUME NEW s \in Stocks, DeleteStock(r, s)
          PROVE  \A x \in Stocks : stocks'[x].state = "live" =>
                     stocks[x].state = "live" /\ stocks'[x].part = stocks[x].part
      BY <1>0, <3>2, Rows DEF DeleteStock, Tables, StockType
    <3> QED
      BY <1>4, <3>1, <3>2
  <2>3. DeletionsCascade'
    BY <2>1, <2>2, Fewer DEF Lone
  <2> QED
    BY <2>1, <2>3, CurrentBefore, BookedSame, LoneDone
<1> QED
  BY <1>1, <1>2, <1>3, <1>4 DEF Purchase

\* A write of one row in the use of a record: only that record's cost changes.
LEMMA OneUse ==
    ASSUME Inv, Lone, NEW r \in Requests, Turn(r), req[r].costs = {},
           NEW c \in Uses, \A d \in Uses \ {c} : uses'[d] = uses[d],
           uses[c].state = "live" => uses[c].record = req[r].record,
           uses'[c].state = "live" => uses'[c].record = req[r].record,
           CommitThenCost(r, OfRecord(req[r].record)), UNCHANGED <<live, partsCost>>,
           DeletionsCascade'
    PROVE  Lone'
<1>1. OfRecord(req[r].record) \in SUBSET Records
  BY DEF OfRecord, Inv, Fits, ReqType
<1>2. ASSUME NEW m \in Records, m \in live', m \notin OfRecord(req[r].record)
      PROVE  partsCost'[m] = Booked(m)'
  <2>1. m # req[r].record
    BY <1>2, NoneAssumption DEF OfRecord
  <2>2. \A d \in Uses : d \in UsesOf(m) \/ d \in UsesOf(m)' => uses'[d] = uses[d]
    BY <2>1 DEF UsesOf
  <2>3. Booked(m)' = Booked(m)
    BY <2>2, BookedSame
  <2> QED
    BY <1>2, <2>3, CurrentBefore
<1> QED
  BY <1>1, <1>2, LoneCommit

LEMMA ConsumptionAlone ==
    ASSUME Inv, Inv', Lone, NEW r \in Requests, Turn(r), Consumption(r)
    PROVE  Lone'
<1>0. Tables /\ Tables' /\ Fits(req[r]) /\ req[r] \in ReqType /\ Carries(req[r])
  BY DEF Inv, Fits, Lone
<1>1. ASSUME NEW p \in Parts, NEW m \in Records \union {None}, NEW n \in Quantities,
             BeginUse(r, p, m, n)
      PROVE  Lone'
  <2>1. PICK q : q = [Idle EXCEPT !.pc = "checkUse", !.part = p, !.record = m, !.quantity = n]
    OBVIOUS
  <2>2. q.pc = "checkUse" /\ q.part = p /\ q.record = m /\ q.costs = {}
    BY <2>1, Zenon DEF Idle
  <2>3. Carries(q) /\ req[r].costs = {}
    BY <1>0, <1>1, <2>2 DEF Carries, BeginUse, Start, At
  <2> QED
    BY <1>1, <2>1, <2>3, LoneQuiet DEF BeginUse, Start, Quiet, tables
<1>2. CASE CheckUse(r)
  <2>1. UNCHANGED tables /\ req[r].costs = {}
    BY <1>0, <1>2 DEF CheckUse, Quiet, tables, Carries, At
  <2>2. CASE Finish(r)
    BY <2>1, <2>2, LoneFinish
  <2>3. CASE Goto(r, "insertUse")
    <3>1. PICK q : q = [req[r] EXCEPT !.pc = "insertUse"]
      OBVIOUS
    <3>2. q.pc = "insertUse" /\ q.part = req[r].part /\ q.record = req[r].record /\ q.costs = {}
      BY <1>0, <2>1, <3>1, Moved DEF PCs
    <3>3. Carries(q)
      BY <1>0, <1>2, <3>2 DEF CheckUse, At, Carries
    <3>4. req' = [req EXCEPT ![r] = q]
      BY <2>3, <3>1 DEF Goto, Inv
    <3> QED
      BY <2>1, <3>2, <3>3, <3>4, LoneQuiet
  <2> QED
    BY <1>2, <2>2, <2>3 DEF CheckUse
<1>3. CASE InsertUse(r)
  <2>1. req[r].costs = {} /\ req[r].part \in live /\ req[r].record \in live \union {None}
    BY <1>0, <1>3 DEF Carries, InsertUse, At
  <2>2. PICK c \in Uses :
              /\ uses[c].state = "none"
              /\ \A d \in Uses \ {c} : uses'[d] = uses[d]
              /\ stocks' = stocks /\ live' = live
              /\ uses'[c].part = req[r].part /\ uses'[c].record = req[r].record
    BY <1>3, InsertEffect
  <2>3. None \notin Records
    BY NoneAssumption
  <2>4. DeletionsCascade'
    BY <2>1, <2>2, <2>3 DEF Lone, DeletionsCascade, NothingLiveOnDeletedPart,
                            DeletedRecordGivesBack, LiveStocks, LiveUses, UsesOf
  <2> QED
    BY <1>3, <2>1, <2>2, <2>4, OneUse DEF InsertUse
<1>4. ASSUME NEW c \in Uses, NEW n \in Quantities, BeginUseEdit(r, c, n) PROVE Lone'
  <2>1. PICK q : q = [Idle EXCEPT !.pc = "checkEdit", !.row = c, !.part = uses[c].part,
                             !.record = uses[c].record, !.quantity = n,
                             !.delta = n - uses[c].quantity]
    OBVIOUS
  <2>2. /\ q.pc = "checkEdit" /\ q.row = c /\ q.part = uses[c].part /\ q.record = uses[c].record
        /\ q.quantity = n /\ q.delta = n - uses[c].quantity /\ q.costs = {}
    BY <2>1 DEF Idle
  <2>3. Carries(q) /\ req[r].costs = {}
    BY <1>0, <1>4, <2>2 DEF Carries, BeginUseEdit, Start, At
  <2> QED
    BY <1>4, <2>1, <2>3, LoneQuiet DEF BeginUseEdit, Start, Quiet, tables
<1>5. CASE CheckEdit(r)
  <2>1. UNCHANGED tables /\ req[r].costs = {}
    BY <1>0, <1>5 DEF CheckEdit, Quiet, tables, Carries, At
  <2>2. CASE Finish(r)
    BY <2>1, <2>2, LoneFinish
  <2>3. CASE req[r].delta <= OnHand(req[r].part) /\ Goto(r, "editUse")
    <3>1. PICK q : q = [req[r] EXCEPT !.pc = "editUse"]
      OBVIOUS
    <3>2. /\ q.pc = "editUse" /\ q.part = req[r].part /\ q.record = req[r].record
          /\ q.row = req[r].row /\ q.quantity = req[r].quantity /\ q.delta = req[r].delta
          /\ q.costs = {}
      BY <1>0, <2>1, <3>1, Moved DEF PCs
    <3>3. Carries(q)
      BY <1>0, <1>5, <2>3, <3>2 DEF CheckEdit, At, Carries
    <3>4. req' = [req EXCEPT ![r] = q]
      BY <2>3, <3>1 DEF Goto, Inv
    <3> QED
      BY <2>1, <3>2, <3>3, <3>4, LoneQuiet
  <2>4. req[r].delta \in Int /\ OnHand(req[r].part) \in Int
    BY <1>0, OnHandType DEF ReqType
  <2> QED
    BY <1>5, <2>2, <2>3, <2>4 DEF CheckEdit
<1>6. CASE EditUse(r)
  <2>1. /\ req[r].costs = {} /\ uses[req[r].row].record = req[r].record
    BY <1>0, <1>6 DEF Carries, EditUse, At
  <2>2. DeletionsCascade'
    BY <1>6, EditEffect, Fewer DEF Lone
  <2> QED
    <3>1. PICK c \in Uses : c = req[r].row
      BY <1>6, EditEffect
    <3>2. /\ \A d \in Uses \ {c} : uses'[d] = uses[d]
          /\ uses[c].record = req[r].record /\ uses'[c].record = req[r].record
      BY <1>6, <2>1, <3>1, EditEffect
    <3>3. CommitThenCost(r, OfRecord(req[r].record)) /\ UNCHANGED <<live, partsCost>>
      BY <1>6 DEF EditUse
    <3> QED
      BY <2>1, <2>2, <3>2, <3>3, OneUse
<1>7. ASSUME NEW c \in Uses, BeginUseDelete(r, c) PROVE Lone'
  <2>1. PICK q : q = [Idle EXCEPT !.pc = "deleteUse", !.row = c, !.record = uses[c].record]
    OBVIOUS
  <2>2. q.pc = "deleteUse" /\ q.row = c /\ q.record = uses[c].record /\ q.costs = {}
    BY <2>1, Zenon DEF Idle
  <2>3. Carries(q) /\ req[r].costs = {}
    BY <1>0, <1>7, <2>2 DEF Carries, BeginUseDelete, Start, At
  <2> QED
    BY <1>7, <2>1, <2>3, LoneQuiet DEF BeginUseDelete, Start, Quiet, tables
<1>8. CASE DeleteUse(r)
  <2>1. /\ req[r].costs = {} /\ uses[req[r].row].record = req[r].record
        /\ uses[req[r].row].state = "live" /\ req[r].row \in Uses
    BY <1>0, <1>8 DEF Carries, DeleteUse, At, Fits
  <2>2. \A d \in Uses : /\ uses'[d].state = "live" => uses[d].state = "live"
                        /\ uses'[d].part = uses[d].part /\ uses'[d].record = uses[d].record
                        /\ d # req[r].row => uses'[d] = uses[d]
    BY <1>0, <1>8, <2>1, Rows DEF DeleteUse, Tables, UseType
  <2>3. stocks' = stocks /\ live' = live /\ partsCost' = partsCost
    BY <1>8 DEF DeleteUse
  <2>4. DeletionsCascade'
    BY <2>2, <2>3, Fewer DEF Lone
  <2> QED
    BY <1>8, <2>1, <2>2, <2>3, <2>4, OneUse DEF DeleteUse
<1>9. CASE RefuseStale(r)
  <2>1. req[r].costs = {}
    BY <1>0, <1>9 DEF RefuseStale, Reading, Carries
  <2> QED
    BY <1>9, <2>1, LoneFinish DEF RefuseStale, Quiet, tables
<1> QED
  BY <1>1, <1>2, <1>3, <1>4, <1>5, <1>6, <1>7, <1>8, <1>9 DEF Consumption

LEMMA DeletionAlone ==
    ASSUME Inv, Inv', Lone, NEW r \in Requests, Turn(r), Deletion(r)
    PROVE  Lone'
<1>0. Tables /\ Tables' /\ Fits(req[r]) /\ req[r] \in ReqType /\ Carries(req[r])
  BY DEF Inv, Fits, Lone
<1>00. ASSUME NEW C, Tombstone(C)
       PROVE  \A c \in Uses : /\ uses'[c].state = "live" => uses[c].state = "live" /\ c \notin C
                              /\ uses'[c].part = uses[c].part /\ uses'[c].record = uses[c].record
                              /\ c \notin C => uses'[c] = uses[c]
  <2>1. \A c \in Uses : uses'[c] = IF c \in C THEN [uses[c] EXCEPT !.state = "deleted"] ELSE uses[c]
    BY <1>00 DEF Tombstone
  <2> QED
    BY <1>0, <2>1, Rows DEF UseType
<1>1. ASSUME NEW p \in Parts, BeginPartDelete(r, p) PROVE Lone'
  <2> DEFINE M == {m \in Records : \E c \in LiveUses(p) : uses[c].record = m}
  <2>1. PICK q : q = [Idle EXCEPT !.pc = "cascade", !.part = p, !.costs = M]
    OBVIOUS
  <2>2. q.pc = "cascade" /\ q.part = p /\ q.costs = M
    BY <2>1 DEF Idle
  <2>3. Carries(q) /\ req[r].costs = {}
    BY <1>0, <1>1, <2>2 DEF Carries, BeginPartDelete, Start, At
  <2> QED
    BY <1>1, <2>1, <2>3, LoneQuiet DEF BeginPartDelete, Start, Quiet, tables
<1>2. CASE Cascade(r)
  <2>1. PICK p \in Parts : p = req[r].part
    BY <1>0, <1>2 DEF Fits, Cascade, At
  <2>2. /\ req[r].costs = {m \in Records : \E c \in LiveUses(p) : uses[c].record = m}
        /\ live' = live \ {p} /\ Tombstone(LiveUses(p)) /\ partsCost' = partsCost
        /\ CommitThenCost(r, req[r].costs)
    BY <1>0, <1>2, <2>1 DEF Cascade, At, Carries
  <2>3. \A s \in Stocks : stocks'[s].state = "live" => stocks'[s] = stocks[s] /\ s \notin LiveStocks(p)
    <3>1. \A s \in Stocks : stocks'[s] = IF s \in LiveStocks(p)
                                          THEN [stocks[s] EXCEPT !.state = "deleted"] ELSE stocks[s]
      BY <1>2, <2>1 DEF Cascade
    <3> QED
      BY <1>0, <3>1, Rows DEF StockType
  <2>4. \A c \in Uses : /\ uses'[c].state = "live" => uses'[c] = uses[c] /\ c \notin LiveUses(p)
                        /\ c \notin LiveUses(p) => uses'[c] = uses[c]
    BY <1>00, <2>2
  <2>5. p \notin Records
    BY IdAssumption
  <2>6. NothingLiveOnDeletedPart'
    BY <2>2, <2>3, <2>4 DEF Lone, DeletionsCascade, NothingLiveOnDeletedPart, LiveStocks, LiveUses
  <2>7. DeletedRecordGivesBack'
    BY <2>2, <2>4, <2>5 DEF Lone, DeletionsCascade, DeletedRecordGivesBack, UsesOf
  <2>8. ASSUME NEW m \in Records, m \in live', m \notin req[r].costs PROVE partsCost'[m] = Booked(m)'
    <3>1. \A c \in Uses : c \in UsesOf(m) \/ c \in UsesOf(m)' => uses'[c] = uses[c]
      BY <2>2, <2>4, <2>8 DEF UsesOf
    <3> QED
      BY <2>2, <2>8, <3>1, BookedSame, CurrentBefore
  <2>9. req[r].costs \in SUBSET Records
    BY <1>0 DEF ReqType
  <2> QED
    BY <2>2, <2>6, <2>7, <2>8, <2>9, LoneCommit DEF DeletionsCascade
<1>3. ASSUME NEW m \in Records, DeleteRecord(r, m) PROVE Lone'
  <2>1. /\ req[r].costs = {} /\ live' = live \ {m} /\ Tombstone(UsesOf(m))
        /\ UNCHANGED <<stocks, partsCost>> /\ Commit(r, Idle)
    BY <1>0, <1>3 DEF Carries, DeleteRecord, At
  <2>2. \A c \in Uses : /\ uses'[c].state = "live" => uses'[c] = uses[c] /\ c \notin UsesOf(m)
                        /\ c \notin UsesOf(m) => uses'[c] = uses[c]
    BY <1>00, <2>1
  <2>3. m \notin Parts
    BY IdAssumption
  <2>4. NothingLiveOnDeletedPart'
    BY <2>1, <2>2, <2>3 DEF Lone, DeletionsCascade, NothingLiveOnDeletedPart, LiveStocks, LiveUses
  <2>5. DeletedRecordGivesBack'
    BY <2>1, <2>2 DEF Lone, DeletionsCascade, DeletedRecordGivesBack, UsesOf
  <2>6. ASSUME NEW n \in Records, n \in live' PROVE partsCost'[n] = Booked(n)'
    <3>1. \A c \in Uses : c \in UsesOf(n) \/ c \in UsesOf(n)' => uses'[c] = uses[c]
      BY <2>1, <2>2, <2>6 DEF UsesOf
    <3> QED
      BY <2>1, <2>6, <3>1, BookedSame, CurrentBefore
  <2> QED
    BY <2>1, <2>4, <2>5, <2>6, LoneDone DEF DeletionsCascade
<1> QED
  BY <1>1, <1>2, <1>3 DEF Deletion

LEMMA CostingAlone ==
    ASSUME Inv, Inv', Lone, NEW r \in Requests, Turn(r), Costing(r)
    PROVE  Lone'
<1>0. Tables /\ Tables' /\ Fits(req[r]) /\ req[r] \in ReqType /\ Carries(req[r])
  BY DEF Inv, Fits, Lone
<1>1. CASE ReadCost(r)
  <2>1. PICK m \in req[r].costs :
            req' = [req EXCEPT ![r] = [req[r] EXCEPT !.pc = "writeCost", !.record = m, !.cost = Booked(m)]]
    BY <1>1 DEF ReadCost
  <2>2. PICK q : q = [req[r] EXCEPT !.pc = "writeCost", !.record = m, !.cost = Booked(m)]
    OBVIOUS
  <2>3. q.pc = "writeCost" /\ q.record = m /\ q.cost = Booked(m) /\ q.costs = req[r].costs
    BY <1>0, <2>2 DEF ReqType
  <2>4. Carries(q)
    BY <2>3 DEF Carries
  <2> QED
    BY <1>1, <2>1, <2>2, <2>3, <2>4, LoneQuiet DEF ReadCost, Quiet, tables
<1>2. CASE WriteCost(r)
  <2>1. PICK m \in Records : m = req[r].record
    BY <1>0, <1>2 DEF WriteCost, At, Fits
  <2>2. /\ m \in req[r].costs /\ req[r].cost = Booked(m) /\ req[r].costs \ {m} \in SUBSET Records
        /\ UNCHANGED <<live, stocks, uses>>
        /\ partsCost' = [partsCost EXCEPT ![m] = Booked(m)]
    BY <1>0, <1>2, <2>1 DEF WriteCost, At, Carries, ReqType
  <2>3. CommitThenCost(r, req[r].costs \ {m})
    BY <1>2, <2>1 DEF WriteCost, NextCost, CommitThenCost
  <2>4. DeletionsCascade'
    BY <2>2, Fewer DEF Lone
  <2>5. ASSUME NEW n \in Records, n \in live', n \notin req[r].costs \ {m}
        PROVE  partsCost'[n] = Booked(n)'
    <3>1. Booked(n)' = Booked(n)
      BY <2>2, BookedSame
    <3>2. CASE n = m
      BY <1>0, <2>2, <3>1, <3>2 DEF Tables
    <3>3. CASE n # m
      BY <1>0, <2>2, <2>5, <3>1, <3>3, CurrentBefore DEF Tables
    <3> QED
      BY <3>2, <3>3
  <2> QED
    BY <2>2, <2>3, <2>4, <2>5, LoneCommit
<1> QED
  BY <1>1, <1>2 DEF Costing

\* The histories that are checked: without an overlap, or with any.
AloneInv == Inv /\ (alone => Lone)

LEMMA AloneInit == MCInit => AloneInv
<1> SUFFICES ASSUME MCInit PROVE AloneInv
  OBVIOUS
<1>1. Init /\ Inv
  BY InvInit DEF MCInit
<1>2. \A r \in Requests : req[r] = Idle
  BY <1>1 DEF Init
<1>3. \A m \in Records : UsesOf(m) = {}
  BY <1>1, SMT DEF Init, UsesOf, NoUse
<1>4. DeletionsCascade
  BY <1>1 DEF Init, DeletionsCascade, NothingLiveOnDeletedPart, DeletedRecordGivesBack
<1>5. CostIsCurrent
  BY <1>1, <1>3 DEF Init, CostIsCurrent, Booked
<1>6. Lone
  BY <1>2, <1>4, <1>5, IdleFits DEF Lone, Single, At, Carries
<1> QED
  BY <1>1, <1>6 DEF AloneInv

\* The end of a history, and a step of another one, change nothing.
LEMMA LoneStutter == Lone /\ UNCHANGED vars => Lone'
<1> SUFFICES ASSUME Lone, UNCHANGED vars PROVE Lone'
  OBVIOUS
<1>1. UNCHANGED <<live, stocks, uses, partsCost, req>>
  BY DEF vars
<1>2. Single'
  BY <1>1 DEF Lone, Single, At
<1>3. DeletionsCascade'
  BY <1>1, Fewer DEF Lone
<1>4. \A m : Booked(m)' = Booked(m)
  BY <1>1, BookedSame
<1>5. CostIsCurrent'
  BY <1>1, <1>4 DEF Lone, CostIsCurrent, Recosting
<1>6. ASSUME NEW q, Carries(q) PROVE Carries(q)'
  BY <1>1, <1>4, <1>6 DEF Carries, OnHand, LiveStocks, LiveUses, Total, Units
<1>7. \A r \in Requests : Carries(req[r])'
  BY <1>1, <1>6 DEF Lone
<1> QED
  BY <1>2, <1>3, <1>5, <1>7 DEF Lone

\* A step of a history without overlaps.
LEMMA AloneStep ==
    ASSUME Inv, Inv', Lone, AloneNext
    PROVE  Lone'
<1>1. ASSUME NEW r \in Requests, Turn(r), Handling(r), aborts' = 0 PROVE Lone'
  <2>1. ~Abort(r)
    BY <1>1 DEF Abort, Inv
  <2> QED
    BY <1>1, <2>1, PurchaseAlone, ConsumptionAlone, DeletionAlone, CostingAlone DEF Handling
<1>2. CASE Stop
  BY <1>2, LoneStutter DEF Stop
<1> QED
  BY <1>1, <1>2 DEF AloneNext, Turn

\* The steps TLC takes are steps of the specification.
LEMMA MCNextIsNext == [MCNext]_<<vars, alone>> => [Next]_vars /\ UNCHANGED alone
BY DEF MCNext, AloneNext, Next, SmallStop, vars

LEMMA AloneInvNext == AloneInv /\ [MCNext]_<<vars, alone>> => AloneInv'
<1> SUFFICES ASSUME AloneInv, [MCNext]_<<vars, alone>> PROVE AloneInv'
  OBVIOUS
<1>1. Inv /\ Inv' /\ UNCHANGED alone
  BY MCNextIsNext, InvNext DEF AloneInv
<1>2. ASSUME alone PROVE Lone'
  <2>1. AloneNext \/ UNCHANGED vars
    BY <1>2 DEF MCNext
  <2> QED
    BY <1>1, <1>2, <2>1, AloneStep, LoneStutter DEF AloneInv
<1> QED
  BY <1>1, <1>2 DEF AloneInv

\* One after the other, every handler leaves the partsCost of each live record
\* what its live consumptions amount to (recalculate_parts_cost).
THEOREM CostsAreCurrent == MCSpec => []CostIsCurrentAlone
<1>1. AloneInv => CostIsCurrentAlone
  BY DEF AloneInv, Lone, CostIsCurrentAlone
<1> QED
  BY <1>1, AloneInit, AloneInvNext, PTL DEF MCSpec

\* One after the other, a deletion takes with it what hangs on the row, and no
\* later write puts anything live on it (delete_part, delete_maintenance).
THEOREM DeletionsDoCascade == MCSpec => []DeletionsCascadeAlone
<1>1. AloneInv => DeletionsCascadeAlone
  BY DEF AloneInv, Lone, DeletionsCascadeAlone
<1> QED
  BY <1>1, AloneInit, AloneInvNext, PTL DEF MCSpec

\* An edit takes what it adds, and that is covered.
LEMMA EditCovered ==
    ASSUME Inv, Inv', Lone, NEW r \in Requests, EditUse(r), NEW c \in Uses, NEW p,
           uses'[c].state = "live", uses'[c].part = p, uses'[c].quantity > uses[c].quantity
    PROVE  OnHand(p)' >= 0
<1>1. /\ req[r].row \in Uses /\ stocks' = stocks
      /\ \A d \in Uses : d # req[r].row => uses'[d] = uses[d]
      /\ uses[c].state = "live" /\ uses[c].part = p
      /\ uses'[req[r].row].quantity = req[r].quantity
  BY EditEffect
<1>2. /\ uses[c].quantity \in 0 .. MaxQuantity /\ uses'[c].quantity \in 0 .. MaxQuantity
      /\ OnHand(p) \in Int /\ req[r].delta \in Int
  BY Rows, OnHandType DEF Inv, Tables, UseType, ReqType
<1>3. uses[c].quantity \in Int /\ uses'[c].quantity \in Int
  BY <1>2, BoundAssumption
<1>4. c = req[r].row
  BY <1>1, <1>3
<1>5. req[r].pc \in {"checkEdit", "editUse"} /\ Carries(req[r])
  BY DEF EditUse, At, Lone
<1>6. req[r].delta = uses'[c].quantity - uses[c].quantity /\ req[r].part = p
  BY <1>1, <1>4, <1>5 DEF Carries
<1>7. req[r].delta <= OnHand(p)
  <2>1. CASE req[r].pc = "editUse"
    BY <1>5, <1>6, <2>1 DEF Carries
  <2>2. CASE req[r].pc # "editUse"
    BY <1>2, <1>3, <1>6, <2>2 DEF EditUse, At
  <2> QED
    BY <2>1, <2>2
<1>8. OnHand(p)' = OnHand(p) - (uses'[c].quantity - uses[c].quantity)
  BY <1>1, <1>4, EditTakes DEF Inv
<1> QED
  BY <1>2, <1>3, <1>6, <1>7, <1>8

\* One after the other, neither a new consumption nor an enlarged one takes what
\* is on hand below zero (create_part_consumption, update_part_consumption).
THEOREM NothingIsOverbooked == MCSpec => NeverOverbookedAlone
<1>1. ASSUME AloneInv, [MCNext]_<<vars, alone>>, alone, ~UNCHANGED vars PROVE NoOverdraft
  <2> SUFFICES ASSUME NEW c \in Uses, NEW p \in Parts, uses'[c].state = "live",
                      uses'[c].part = p, uses'[c].quantity > uses[c].quantity
               PROVE  OnHand(p)' >= 0
    BY DEF NoOverdraft
  <2>1. Inv /\ Inv' /\ Lone
    BY <1>1, AloneInvNext DEF AloneInv
  <2>2. PICK r \in Requests : Handling(r)
    BY <1>1, MCNextIsNext DEF Next, Stop
  <2>3. uses[c].quantity \in Int /\ uses'[c].quantity \in Int
    BY <2>1, Rows, BoundAssumption DEF Inv, Tables, UseType
  <2>4. InsertUse(r) \/ EditUse(r)
    BY <2>1, <2>2, <2>3, OthersTakeNothing
  <2> QED
    BY <2>1, <2>3, <2>4, InsertCovered, EditCovered
<1>2. AloneInv /\ [MCNext]_<<vars, alone>> => [alone => NoOverdraft]_vars
  BY <1>1
<1> QED
  BY <1>2, AloneInit, AloneInvNext, PTL DEF MCSpec, NeverOverbookedAlone

---------------------------------------------------------------------------
(* Storage locations.                                                       *)

Stored(n) == nodes[n].state # "none"

\* What a handler carries from its checks to its write, whoever runs in between:
\* rows are never un-inserted, and a place goes with an insert at the root only.
Carried(q) ==
    /\ q.pc \in {"walk", "write", "delete"} => q.node \in Nodes /\ Stored(q.node)
    /\ q.pc \in {"insert", "walk", "write", "delete"} /\ q.parent # None => Stored(q.parent)
    /\ q.pc = "insert" /\ q.place # None => q.parent = None

ParentsStored == \A n \in Nodes : nodes[n].parent # None => Stored(nodes[n].parent)

PlaceInv ==
    /\ TreeTypeOK
    /\ PlaceAtRoot
    /\ ParentsStored
    /\ \A r \in Requests : Carried(treeReq[r])

\* A new record for one request keeps the type of all.
LEMMA RequestType ==
    ASSUME TreeTypeOK, NEW r \in Requests, NEW q \in TreeReqType, treeReq' = [treeReq EXCEPT ![r] = q]
    PROVE  /\ treeReq' \in [Requests -> TreeReqType]
           /\ treeReq'[r] = q
           /\ \A x \in Requests \ {r} : treeReq'[x] = treeReq[x]
BY DEF TreeTypeOK

\* Idle is a request's record, and carries nothing.
LEMMA IdleRequest == TreeIdle \in TreeReqType /\ Carried(TreeIdle)
<1>1. 0 \in 0 .. MaxDepth
  BY DepthAssumption
<1>2. TreeIdle \in TreeReqType
  BY <1>1, SMT DEF TreeIdle, TreeReqType, TreePCs
<1>3. TreeIdle.pc = "idle"
  BY DEF TreeIdle
<1> QED
  BY <1>2, <1>3 DEF Carried

\* A step that writes no table keeps the invariant if what the request goes on
\* with is typed and carries what it must.
LEMMA TreeQuiet ==
    ASSUME PlaceInv, NEW r \in Requests, NEW q \in TreeReqType, Carried(q),
           treeReq' = [treeReq EXCEPT ![r] = q], UNCHANGED <<nodes, storedAt>>
    PROVE  PlaceInv'
<1>1. TreeTypeOK
  BY DEF PlaceInv
<1>2. /\ treeReq' \in [Requests -> TreeReqType]
      /\ treeReq'[r] = q
      /\ \A x \in Requests \ {r} : treeReq'[x] = treeReq[x]
  BY <1>1, RequestType
<1>3. TreeTypeOK'
  BY <1>1, <1>2 DEF TreeTypeOK
<1>4. \A x \in Requests : Carried(treeReq[x])
  BY DEF PlaceInv
<1>5. Carried(q)'
  BY DEF Carried, Stored
<1>6. \A x \in Requests : Carried(treeReq[x])'
  <2> TAKE x \in Requests
  <2>1. CASE x = r
    BY <2>1, <1>2, <1>5 DEF Carried, Stored
  <2>2. CASE x # r
    BY <2>2, <1>2, <1>4 DEF Carried, Stored
  <2> QED
    BY <2>1, <2>2
<1> QED
  BY <1>3, <1>6 DEF PlaceInv, PlaceAtRoot, ParentsStored, Stored

\* The first step of each handler is such a step.
LEMMA BeginInsertStep ==
    ASSUME PlaceInv, NEW r \in Requests, NEW p \in Nodes \union {None},
           NEW place \in Places \union {None}, BeginInsert(r, p, place)
    PROVE  PlaceInv'
<1> DEFINE q == [TreeIdle EXCEPT !.pc = "insert", !.parent = p, !.place = place]
<1>1. TreeIdle \in TreeReqType /\ "insert" \in TreePCs
  BY IdleRequest DEF TreePCs
<1>2. q \in TreeReqType
  BY <1>1, Zenon DEF TreeReqType
<1>3. Carried(q)
  BY SMT DEF BeginInsert, Carried, Stored, Live, TreeIdle
<1> QED
  BY <1>2, <1>3, TreeQuiet DEF BeginInsert, TreeStart

LEMMA BeginSteps ==
    ASSUME PlaceInv, NEW r \in Requests, NEW n \in Nodes, NEW p \in Nodes \union {None},
           NEW place \in Places \union {None},
           \/ BeginRelink(r, n, place) \/ BeginUnnest(r, n, place)
           \/ (p \in Nodes /\ BeginMove(r, n, p)) \/ BeginDelete(r, n)
    PROVE  PlaceInv'
<1>0. /\ TreeTypeOK /\ ParentsStored
      /\ nodes[n].parent \in Nodes \union {None}
      /\ TreeIdle \in TreeReqType
      /\ {"insert", "write", "walk", "delete"} \subseteq TreePCs
  BY IdleRequest DEF PlaceInv, TreeTypeOK, NodeType, TreePCs
<1>2. CASE BeginRelink(r, n, place)
  <2> DEFINE q == [TreeIdle EXCEPT !.pc = "write", !.node = n, !.parent = nodes[n].parent, !.place = place]
  <2>1. q \in TreeReqType
    BY <1>0, Zenon DEF TreeReqType
  <2>2. Carried(q)
    BY <1>0, <1>2, SMT DEF BeginRelink, Carried, Stored, ParentsStored, Live, TreeIdle
  <2> QED
    BY <1>2, <2>1, <2>2, TreeQuiet DEF BeginRelink, TreeStart
<1>3. CASE BeginUnnest(r, n, place)
  <2> DEFINE q == [TreeIdle EXCEPT !.pc = "write", !.node = n, !.place = place]
  <2>1. q \in TreeReqType
    BY <1>0, Zenon DEF TreeReqType
  <2>2. Carried(q)
    BY <1>3, SMT DEF BeginUnnest, Carried, Stored, Live, TreeIdle
  <2> QED
    BY <1>3, <2>1, <2>2, TreeQuiet DEF BeginUnnest, TreeStart
<1>4. CASE p \in Nodes /\ BeginMove(r, n, p)
  <2> DEFINE q == [TreeIdle EXCEPT !.pc = "walk", !.node = n, !.parent = p, !.at = p]
  <2>1. q \in TreeReqType
    BY <1>0, <1>4, Zenon DEF TreeReqType
  <2>2. Carried(q)
    BY <1>4, SMT DEF BeginMove, Carried, Stored, Live, TreeIdle
  <2> QED
    BY <1>4, <2>1, <2>2, TreeQuiet DEF BeginMove, TreeStart
<1>5. CASE BeginDelete(r, n)
  <2> DEFINE q == [TreeIdle EXCEPT !.pc = "delete", !.node = n, !.parent = nodes[n].parent]
  <2>1. q \in TreeReqType
    BY <1>0, Zenon DEF TreeReqType
  <2>2. Carried(q)
    BY <1>0, <1>5, SMT DEF BeginDelete, Carried, Stored, ParentsStored, Live, TreeIdle
  <2> QED
    BY <1>5, <2>1, <2>2, TreeQuiet DEF BeginDelete, TreeStart
<1> QED
  BY <1>2, <1>3, <1>4, <1>5

LEMMA WalkStep ==
    ASSUME PlaceInv, NEW r \in Requests, Walk(r)
    PROVE  PlaceInv'
<1> DEFINE q == treeReq[r]
<1>0. q \in TreeReqType /\ Carried(q) /\ MaxDepth \in Nat
  BY DepthAssumption DEF PlaceInv, TreeTypeOK
<1>1. CASE TreeGoto(r, TreeIdle)
  BY <1>1, IdleRequest, TreeQuiet DEF TreeGoto
<1>2. CASE TreeGoto(r, [q EXCEPT !.pc = "write"])
  <2>1. "write" \in TreePCs
    BY DEF TreePCs
  <2>2. [q EXCEPT !.pc = "write"] \in TreeReqType
    BY <1>0, <2>1, Zenon DEF TreeReqType
  <2>3. Carried([q EXCEPT !.pc = "write"])
    BY <1>0, SMT DEF Walk, Carried, TreeReqType
  <2> QED
    BY <1>2, <2>2, <2>3, TreeQuiet DEF TreeGoto
<1>3. CASE /\ q.depth # MaxDepth /\ q.at # None
           /\ TreeGoto(r, [q EXCEPT !.at = nodes[q.at].parent, !.depth = q.depth + 1])
  <2>1. q.at \in Nodes /\ q.depth + 1 \in 0 .. MaxDepth
    BY <1>0, <1>3, SMT DEF TreeReqType
  <2>2. nodes[q.at].parent \in Nodes \union {None}
    BY <2>1 DEF PlaceInv, TreeTypeOK, NodeType
  <2>3. [q EXCEPT !.at = nodes[q.at].parent, !.depth = q.depth + 1] \in TreeReqType
    BY <1>0, <2>1, <2>2, Zenon DEF TreeReqType
  <2>4. Carried([q EXCEPT !.at = nodes[q.at].parent, !.depth = q.depth + 1])
    BY <1>0, SMT DEF Carried, TreeReqType
  <2> QED
    BY <1>3, <2>3, <2>4, TreeQuiet DEF TreeGoto
<1> QED
  BY <1>1, <1>2, <1>3 DEF Walk

\* A step that writes the tables and ends its request: what the others carry
\* stays valid as long as no row is un-inserted.
LEMMA WritingStep ==
    ASSUME PlaceInv, NEW r \in Requests, TreeFinish(r),
           nodes' \in [Nodes -> NodeType],
           storedAt' \in [Stocks -> Nodes \union {None}],
           \A n \in Nodes : Stored(n) => Stored(n)',
           PlaceAtRoot', ParentsStored'
    PROVE  PlaceInv'
<1>1. TreeTypeOK /\ TreeIdle \in TreeReqType
  BY IdleRequest DEF PlaceInv
<1>2. /\ treeReq' \in [Requests -> TreeReqType]
      /\ treeReq'[r] = TreeIdle
      /\ \A x \in Requests \ {r} : treeReq'[x] = treeReq[x]
  BY <1>1, RequestType DEF TreeFinish
<1>3. TreeTypeOK'
  BY <1>2 DEF TreeTypeOK
<1>4. \A x \in Requests : Carried(treeReq[x])'
  <2> TAKE x \in Requests
  <2>1. CASE x = r
    BY <2>1, <1>2 DEF Carried, TreeIdle
  <2>2. CASE x # r
    <3>1. treeReq'[x] = treeReq[x] /\ Carried(treeReq[x]) /\ treeReq[x] \in TreeReqType
      BY <2>2, <1>1, <1>2 DEF PlaceInv, TreeTypeOK
    <3>2. treeReq[x].parent # None => treeReq[x].parent \in Nodes
      BY <3>1 DEF TreeReqType
    <3> QED
      BY <3>1, <3>2 DEF Carried
  <2> QED
    BY <2>1, <2>2
<1> QED
  BY <1>3, <1>4 DEF PlaceInv

LEMMA InsertStep ==
    ASSUME PlaceInv, NEW r \in Requests, Insert(r)
    PROVE  PlaceInv'
<1> DEFINE q == treeReq[r]
           row == [state |-> "live", parent |-> q.parent, place |-> q.place]
<1>1. PICK n \in Nodes : nodes[n].state = "none" /\ nodes' = [nodes EXCEPT ![n] = row]
  BY DEF Insert
<1>2. /\ nodes \in [Nodes -> NodeType] /\ storedAt \in [Stocks -> Nodes \union {None}]
      /\ q \in TreeReqType /\ Carried(q) /\ q.pc = "insert"
      /\ PlaceAtRoot /\ ParentsStored
  BY DEF PlaceInv, TreeTypeOK, Insert
<1>3. row \in NodeType
  BY <1>2 DEF NodeType, TreeReqType
<1>4. nodes' \in [Nodes -> NodeType]
  BY <1>1, <1>2, <1>3
<1>5. /\ nodes'[n] = row
      /\ \A m \in Nodes \ {n} : nodes'[m] = nodes[m]
  BY <1>1, <1>2
<1>6. \A m \in Nodes : Stored(m) => Stored(m)'
  BY <1>1, <1>5 DEF Stored
<1>7. PlaceAtRoot'
  BY <1>2, <1>5 DEF PlaceAtRoot, Carried
<1>8. ParentsStored'
  <2> SUFFICES ASSUME NEW m \in Nodes, nodes'[m].parent # None
               PROVE  nodes'[nodes'[m].parent].state # "none"
    BY DEF ParentsStored, Stored
  <2>1. nodes'[m].parent \in Nodes
    BY <1>4 DEF NodeType
  <2>2. Stored(nodes'[m].parent)
    BY <1>2, <1>5 DEF ParentsStored, Carried
  <2> QED
    BY <1>6, <2>1, <2>2 DEF Stored
<1> QED
  BY <1>2, <1>4, <1>6, <1>7, <1>8, WritingStep DEF Insert

LEMMA WriteStep ==
    ASSUME PlaceInv, NEW r \in Requests, Write(r)
    PROVE  PlaceInv'
<1> DEFINE q == treeReq[r]
           row == [state |-> nodes[q.node].state, parent |-> q.parent,
                   place |-> IF q.parent = None THEN q.place ELSE None]
<1>1. /\ nodes \in [Nodes -> NodeType] /\ storedAt \in [Stocks -> Nodes \union {None}]
      /\ q \in TreeReqType /\ Carried(q) /\ q.pc = "write"
      /\ PlaceAtRoot /\ ParentsStored
  BY DEF PlaceInv, TreeTypeOK, Write
<1>2. q.node \in Nodes /\ Stored(q.node)
  BY <1>1 DEF Carried
<1>3. row \in NodeType
  BY <1>1, <1>2 DEF NodeType, TreeReqType
<1>4. /\ nodes' \in [Nodes -> NodeType]
      /\ nodes'[q.node] = row
      /\ \A m \in Nodes \ {q.node} : nodes'[m] = nodes[m]
  BY <1>1, <1>2, <1>3 DEF Write
<1>5. \A m \in Nodes : Stored(m) => Stored(m)'
  BY <1>4 DEF Stored
<1>6. PlaceAtRoot'
  BY <1>1, <1>4 DEF PlaceAtRoot
<1>7. ParentsStored'
  <2> SUFFICES ASSUME NEW m \in Nodes, nodes'[m].parent # None
               PROVE  nodes'[nodes'[m].parent].state # "none"
    BY DEF ParentsStored, Stored
  <2>1. nodes'[m].parent \in Nodes
    BY <1>4 DEF NodeType
  <2>2. Stored(nodes'[m].parent)
    BY <1>1, <1>4 DEF ParentsStored, Carried
  <2> QED
    BY <1>5, <2>1, <2>2 DEF Stored
<1> QED
  BY <1>1, <1>4, <1>5, <1>6, <1>7, WritingStep DEF Write

\* A row after a delete: its place and state are kept but for the tombstone, and
\* only what hung under the deleted row is moved.
LEMMA SurvivorRow ==
    ASSUME PlaceInv, NEW r \in Requests, Delete(r), NEW n \in Nodes
    PROVE  /\ nodes'[n] \in NodeType
           /\ nodes'[n].place = nodes[n].place
           /\ Stored(n) => Stored(n)'
           /\ \/ nodes'[n].parent = nodes[n].parent
              \/ nodes[n].parent = treeReq[r].node /\ nodes'[n].parent = treeReq[r].parent
<1>1. nodes'[n] = Survivor(treeReq[r], n)
  BY DEF Delete
<1>2. nodes[n] \in NodeType /\ treeReq[r] \in TreeReqType
  BY DEF PlaceInv, TreeTypeOK
<1>3. CASE n = treeReq[r].node
  BY <1>1, <1>2, <1>3 DEF Survivor, NodeType, Stored
<1>4. CASE n # treeReq[r].node /\ n \in Live /\ nodes[n].parent = treeReq[r].node
  BY <1>1, <1>2, <1>4 DEF Survivor, NodeType, TreeReqType, Stored
<1>5. CASE n # treeReq[r].node /\ ~(n \in Live /\ nodes[n].parent = treeReq[r].node)
  BY <1>1, <1>2, <1>5 DEF Survivor, NodeType, Stored
<1> QED
  BY <1>3, <1>4, <1>5

LEMMA DeleteStep ==
    ASSUME PlaceInv, NEW r \in Requests, Delete(r)
    PROVE  PlaceInv'
<1> DEFINE q == treeReq[r]
<1>1. /\ storedAt \in [Stocks -> Nodes \union {None}]
      /\ q \in TreeReqType /\ Carried(q) /\ q.pc = "delete"
      /\ PlaceAtRoot /\ ParentsStored
  BY DEF PlaceInv, TreeTypeOK, Delete
<1>2. q.node \in Nodes /\ q.node # None
  BY <1>1, TreeAssumption DEF Carried
<1>3. nodes' \in [Nodes -> NodeType]
  <2>1. nodes' = [n \in Nodes |-> Survivor(q, n)]
    BY DEF Delete
  <2> QED
    BY <2>1, SurvivorRow
<1>4. storedAt' \in [Stocks -> Nodes \union {None}]
  BY <1>1 DEF Delete
<1>5. \A m \in Nodes : Stored(m) => Stored(m)'
  BY SurvivorRow
<1>6. PlaceAtRoot'
  BY <1>1, <1>2, SurvivorRow DEF PlaceAtRoot
<1>7. ParentsStored'
  <2> SUFFICES ASSUME NEW m \in Nodes, nodes'[m].parent # None
               PROVE  nodes'[nodes'[m].parent].state # "none"
    BY DEF ParentsStored, Stored
  <2>1. nodes'[m].parent \in Nodes
    BY <1>3 DEF NodeType
  <2>2. Stored(nodes'[m].parent)
    BY <1>1, <2>1, SurvivorRow DEF ParentsStored, Carried
  <2> QED
    BY <1>5, <2>1, <2>2 DEF Stored
<1> QED
  BY <1>3, <1>4, <1>5, <1>6, <1>7, WritingStep DEF Delete

\* A purchase is stored without touching the tree.
LEMMA StoringStep ==
    ASSUME PlaceInv, NEW r \in Requests, Storing(r)
    PROVE  PlaceInv'
<1>0. TreeTypeOK /\ TreeIdle \in TreeReqType /\ Carried(TreeIdle)
  BY IdleRequest DEF PlaceInv
<1>1. ASSUME NEW s \in Stocks, NEW n \in Nodes \union {None}, BeginStore(r, s, n)
      PROVE  PlaceInv'
  <2> DEFINE q == [TreeIdle EXCEPT !.pc = "store", !.stock = s, !.parent = n]
  <2>1. "store" \in TreePCs
    BY DEF TreePCs
  <2>2. q \in TreeReqType
    BY <1>0, <2>1, Zenon DEF TreeReqType
  <2>3. Carried(q)
    BY SMT DEF Carried, TreeIdle
  <2> QED
    BY <1>1, <2>2, <2>3, TreeQuiet DEF BeginStore, TreeStart
<1>2. ASSUME Store(r)
      PROVE  PlaceInv'
  <2>1. storedAt' \in [Stocks -> Nodes \union {None}]
    BY <1>0, <1>2 DEF Store, TreeTypeOK, TreeReqType
  <2> QED
    BY <1>0, <1>2, <2>1, WritingStep DEF Store, PlaceInv, PlaceAtRoot, ParentsStored, Stored, TreeTypeOK
<1> QED
  BY <1>1, <1>2 DEF Storing

LEMMA PlaceInvInit == TreeInit => PlaceInv
<1> SUFFICES ASSUME TreeInit PROVE PlaceInv
  OBVIOUS
<1>1. NoNode \in NodeType /\ TreeIdle \in TreeReqType /\ Carried(TreeIdle)
  BY IdleRequest DEF NoNode, NodeType
<1>2. TreeTypeOK
  BY <1>1 DEF TreeInit, TreeTypeOK
<1> QED
  BY <1>1, <1>2 DEF TreeInit, PlaceInv, PlaceAtRoot, ParentsStored, NoNode

LEMMA PlaceInvNext == PlaceInv /\ [TreeNext]_treeVars => PlaceInv'
<1> SUFFICES ASSUME PlaceInv, [TreeNext]_treeVars PROVE PlaceInv'
  OBVIOUS
<1>1. ASSUME NEW r \in Requests, Creating(r) PROVE PlaceInv'
  BY <1>1, InsertStep, BeginInsertStep DEF Creating
<1>2. ASSUME NEW r \in Requests, Updating(r) PROVE PlaceInv'
  BY <1>2, BeginSteps, WalkStep, WriteStep DEF Updating
<1>3. ASSUME NEW r \in Requests, Deleting(r) PROVE PlaceInv'
  BY <1>3, BeginSteps, DeleteStep DEF Deleting
<1>4. ASSUME NEW r \in Requests, Storing(r) PROVE PlaceInv'
  BY <1>4, StoringStep
<1>5. CASE UNCHANGED treeVars
  BY <1>5 DEF treeVars, PlaceInv, TreeTypeOK, PlaceAtRoot, ParentsStored, Carried, Stored
<1> QED
  BY <1>1, <1>2, <1>3, <1>4, <1>5 DEF TreeNext, TreeStop

\* The tables and the handlers keep their types.
THEOREM TreeTypes == TreeSpec => []TreeTypeOK
<1>1. PlaceInv => TreeTypeOK
  BY DEF PlaceInv
<1> QED
  BY <1>1, PlaceInvInit, PlaceInvNext, PTL DEF TreeSpec

\* However creates, moves, relinks and deletes overlap, only roots carry a place
\* (create_storage_location, update_storage_location, delete_storage_location).
THEOREM PlacesStayOnRoots == TreeSpec => []PlaceAtRoot
<1>1. PlaceInv => PlaceAtRoot
  BY DEF PlaceInv
<1> QED
  BY <1>1, PlaceInvInit, PlaceInvNext, PTL DEF TreeSpec

---------------------------------------------------------------------------
(* Requests that do not overlap: the locations are a forest.               *)

OneRequest == \A r, s \in Requests : r = s

\* The walk has seen a set of locations without q.node that leads from q.parent to
\* `end` and nowhere else.
Cleared(q, end) ==
    \E W \in SUBSET Nodes :
        /\ q.node \notin W
        /\ q.parent \in W \union {end}
        /\ \A m \in W : nodes[m].parent \in W \union {end}

Free(q) ==
    /\ q.pc = "walk" => Cleared(q, q.at)
    /\ q.pc = "write" => q.parent = nodes[q.node].parent \/ Cleared(q, None)
    /\ q.pc = "delete" => q.parent = nodes[q.node].parent
    /\ q.pc \in {"walk", "write", "delete"} => q.node \in Live
    /\ q.pc \in {"insert", "walk", "write", "delete", "store"} => q.parent \in Live \union {None}

Forest == Rooted /\ LiveParents /\ StoredAtLive
ForestInv == PlaceInv /\ Forest /\ \A r \in Requests : Free(treeReq[r])

LEMMA QuietForest ==
    ASSUME OneRequest, ForestInv, PlaceInv', NEW r \in Requests, NEW q, Free(q),
           treeReq' = [treeReq EXCEPT ![r] = q], UNCHANGED <<nodes, storedAt>>
    PROVE  ForestInv'
<1>1. \A x \in Requests : treeReq'[x] = q
  BY DEF OneRequest, ForestInv, PlaceInv, TreeTypeOK
<1>2. Live' = Live
  BY DEF Live
<1>3. \A e : Cleared(q, e)' <=> Cleared(q, e)
  BY DEF Cleared
<1>4. Free(q)'
  BY <1>2, <1>3 DEF Free, Cleared
<1>5. \A x \in Requests : Free(treeReq[x])'
  BY <1>1, <1>4 DEF Free, Cleared
<1>6. Forest'
  BY <1>2 DEF ForestInv, Forest, Rooted, LiveParents, StoredAtLive
<1> QED
  BY <1>5, <1>6 DEF ForestInv

\* With one request, the step that writes leaves nobody with anything to write.
LEMMA WritingForest ==
    ASSUME OneRequest, ForestInv, PlaceInv', NEW r \in Requests, TreeFinish(r), Forest'
    PROVE  ForestInv'
<1>1. \A x \in Requests : treeReq'[x] = TreeIdle
  BY DEF OneRequest, ForestInv, PlaceInv, TreeTypeOK, TreeFinish
<1>2. \A x \in Requests : Free(treeReq[x])'
  BY <1>1 DEF Free, TreeIdle
<1> QED
  BY <1>2 DEF ForestInv

LEMMA BeginForest ==
    ASSUME OneRequest, ForestInv, PlaceInv', NEW r \in Requests, NEW n \in Nodes,
           NEW p \in Nodes \union {None}, NEW place \in Places \union {None},
           \/ BeginRelink(r, n, place) \/ BeginUnnest(r, n, place)
           \/ (p \in Nodes /\ BeginMove(r, n, p)) \/ BeginDelete(r, n)
    PROVE  ForestInv'
<1>0. LiveParents /\ {} \in SUBSET Nodes
  BY DEF ForestInv, Forest
<1>1. CASE BeginRelink(r, n, place)
  <2> DEFINE q == [TreeIdle EXCEPT !.pc = "write", !.node = n, !.parent = nodes[n].parent, !.place = place]
  <2>1. Free(q)
    BY <1>0, <1>1 DEF BeginRelink, Free, TreeIdle, LiveParents
  <2> QED
    BY <1>1, <2>1, QuietForest DEF BeginRelink, TreeStart
<1>2. CASE BeginUnnest(r, n, place)
  <2> DEFINE q == [TreeIdle EXCEPT !.pc = "write", !.node = n, !.place = place]
  <2>1. q.pc = "write" /\ q.node = n /\ q.parent = None
    BY DEF TreeIdle
  <2>2. Cleared(q, None)
    BY <1>0, <2>1 DEF Cleared
  <2>3. Free(q)
    BY <1>2, <2>1, <2>2 DEF BeginUnnest, Free
  <2> QED
    BY <1>2, <2>3, QuietForest DEF BeginUnnest, TreeStart
<1>3. CASE p \in Nodes /\ BeginMove(r, n, p)
  <2> DEFINE q == [TreeIdle EXCEPT !.pc = "walk", !.node = n, !.parent = p, !.at = p]
  <2>1. q.pc = "walk" /\ q.node = n /\ q.parent = p /\ q.at = p
    BY DEF TreeIdle
  <2>2. Cleared(q, p)
    BY <1>0, <2>1 DEF Cleared
  <2>3. Free(q)
    BY <1>3, <2>1, <2>2 DEF BeginMove, Free
  <2> QED
    BY <1>3, <2>3, QuietForest DEF BeginMove, TreeStart
<1>4. CASE BeginDelete(r, n)
  <2> DEFINE q == [TreeIdle EXCEPT !.pc = "delete", !.node = n, !.parent = nodes[n].parent]
  <2>1. Free(q)
    BY <1>0, <1>4 DEF BeginDelete, Free, TreeIdle, LiveParents
  <2> QED
    BY <1>4, <2>1, QuietForest DEF BeginDelete, TreeStart
<1> QED
  BY <1>1, <1>2, <1>3, <1>4

LEMMA BeginInsertForest ==
    ASSUME OneRequest, ForestInv, PlaceInv', NEW r \in Requests, NEW p \in Nodes \union {None},
           NEW place \in Places \union {None}, BeginInsert(r, p, place)
    PROVE  ForestInv'
<1> DEFINE q == [TreeIdle EXCEPT !.pc = "insert", !.parent = p, !.place = place]
<1>1. Free(q)
  BY DEF BeginInsert, Free, TreeIdle
<1> QED
  BY <1>1, QuietForest DEF BeginInsert, TreeStart

\* A round of the walk adds the location it stands on to the set it has seen.
LEMMA WalkForest ==
    ASSUME OneRequest, ForestInv, PlaceInv', NEW r \in Requests, Walk(r)
    PROVE  ForestInv'
<1> DEFINE q == treeReq[r]
<1>0. q \in TreeReqType /\ Free(q) /\ q.pc = "walk" /\ nodes \in [Nodes -> NodeType]
  BY DEF ForestInv, PlaceInv, TreeTypeOK, Walk
<1>1. PICK W \in SUBSET Nodes :
         /\ q.node \notin W
         /\ q.parent \in W \union {q.at}
         /\ \A m \in W : nodes[m].parent \in W \union {q.at}
  BY <1>0 DEF Free, Cleared
<1>2. CASE TreeGoto(r, TreeIdle)
  <2>1. Free(TreeIdle)
    BY DEF Free, TreeIdle
  <2> QED
    BY <1>2, <2>1, QuietForest DEF TreeGoto
<1>3. CASE q.at = None /\ TreeGoto(r, [q EXCEPT !.pc = "write"])
  <2> DEFINE w == [q EXCEPT !.pc = "write"]
  <2>1. w.pc = "write" /\ w.node = q.node /\ w.parent = q.parent
    BY <1>0 DEF TreeReqType
  <2>2. Cleared(w, None)
    BY <1>1, <1>3, <2>1 DEF Cleared
  <2>3. Free(w)
    BY <1>0, <2>1, <2>2 DEF Free
  <2> QED
    BY <1>3, <2>3, QuietForest DEF TreeGoto
<1>4. CASE /\ q.at # None /\ q.at # q.node
           /\ TreeGoto(r, [q EXCEPT !.at = nodes[q.at].parent, !.depth = q.depth + 1])
  <2> DEFINE w == [q EXCEPT !.at = nodes[q.at].parent, !.depth = q.depth + 1]
             V == W \union {q.at}
  <2>1. w.pc = "walk" /\ w.node = q.node /\ w.parent = q.parent /\ w.at = nodes[q.at].parent
    BY <1>0 DEF TreeReqType
  <2>2. V \in SUBSET Nodes
    BY <1>0, <1>4 DEF TreeReqType
  <2>3. w.node \notin V /\ w.parent \in V \union {w.at}
    BY <1>1, <1>4, <2>1
  <2>4. \A m \in V : nodes[m].parent \in V \union {w.at}
    BY <1>1, <2>1
  <2>5. Cleared(w, w.at)
    BY <2>2, <2>3, <2>4 DEF Cleared
  <2>6. Free(w)
    BY <1>0, <2>1, <2>5 DEF Free
  <2> QED
    BY <1>4, <2>6, QuietForest DEF TreeGoto
<1> QED
  BY <1>2, <1>3, <1>4 DEF Walk

\* A new leaf under a live location closes no cycle: nothing hangs under it.
LEMMA InsertForest ==
    ASSUME OneRequest, ForestInv, PlaceInv', NEW r \in Requests, Insert(r)
    PROVE  ForestInv'
<1> DEFINE q == treeReq[r]
           row == [state |-> "live", parent |-> q.parent, place |-> q.place]
<1>1. PICK n \in Nodes : nodes[n].state = "none" /\ nodes' = [nodes EXCEPT ![n] = row]
  BY DEF Insert
<1>2. /\ nodes \in [Nodes -> NodeType]
      /\ Free(q) /\ q.pc = "insert" /\ ParentsStored /\ Forest
  BY DEF ForestInv, PlaceInv, TreeTypeOK, Insert
<1>3. /\ nodes'[n] = row
      /\ \A m \in Nodes \ {n} : nodes'[m] = nodes[m]
  BY <1>1, <1>2
<1>4. q.parent \in Live \union {None} /\ q.parent # n
  BY <1>1, <1>2, TreeAssumption DEF Free, Live
<1>5. \A m \in Nodes : nodes[m].parent # n
  BY <1>1, <1>2, TreeAssumption DEF ParentsStored, Stored
<1>6. Rooted'
  <2> SUFFICES ASSUME NEW S \in SUBSET Nodes, \A m \in S : nodes'[m].parent \in S
               PROVE  S = {}
    BY DEF Rooted
  <2>1. \A m \in S \ {n} : nodes[m].parent \in S \ {n}
    BY <1>3, <1>5
  <2>2. S \ {n} = {}
    BY <1>2, <2>1 DEF Forest, Rooted
  <2> QED
    BY <1>3, <1>4, <2>2
<1>7. Live' = Live \union {n}
  BY <1>1, <1>3 DEF Live
<1>8. LiveParents' /\ StoredAtLive'
  BY <1>2, <1>3, <1>4, <1>7 DEF Forest, LiveParents, StoredAtLive, Insert
<1> QED
  BY <1>6, <1>8, WritingForest DEF Insert, Forest

\* A move goes under a location whose ancestors the walk has all seen.
LEMMA WriteForest ==
    ASSUME OneRequest, ForestInv, PlaceInv', NEW r \in Requests, Write(r)
    PROVE  ForestInv'
<1> DEFINE q == treeReq[r]
           row == [state |-> nodes[q.node].state, parent |-> q.parent,
                   place |-> IF q.parent = None THEN q.place ELSE None]
<1>1. /\ nodes \in [Nodes -> NodeType]
      /\ Free(q) /\ q.pc = "write" /\ Forest
  BY DEF ForestInv, PlaceInv, TreeTypeOK, Write
<1>2. q.node \in Nodes /\ q.node \in Live /\ q.parent \in Live \union {None}
  BY <1>1 DEF Free, Live
<1>3. /\ nodes'[q.node] = row
      /\ \A m \in Nodes \ {q.node} : nodes'[m] = nodes[m]
  BY <1>1, <1>2 DEF Write
<1>4. row.parent = q.parent /\ row.state = nodes[q.node].state
  OBVIOUS
<1>5. Rooted'
  <2> SUFFICES ASSUME NEW S \in SUBSET Nodes, \A m \in S : nodes'[m].parent \in S
               PROVE  S = {}
    BY DEF Rooted
  <2>1. CASE q.node \notin S \/ q.parent = nodes[q.node].parent
    <3>1. \A m \in S : nodes[m].parent \in S
      BY <1>3, <1>4, <2>1
    <3> QED
      BY <1>1, <3>1 DEF Forest, Rooted
  <2>2. CASE q.node \in S /\ Cleared(q, None)
    <3>1. PICK W \in SUBSET Nodes :
             /\ q.node \notin W
             /\ q.parent \in W \union {None}
             /\ \A m \in W : nodes[m].parent \in W \union {None}
      BY <2>2 DEF Cleared
    <3>2. q.parent \in S \intersect W
      BY <1>3, <1>4, <2>2, <3>1, TreeAssumption
    <3>3. \A m \in S \intersect W : nodes[m].parent \in S \intersect W
      BY <1>3, <3>1, TreeAssumption
    <3>4. S \intersect W = {}
      BY <1>1, <3>3 DEF Forest, Rooted
    <3> QED
      BY <3>2, <3>4
  <2> QED
    BY <1>1, <2>1, <2>2 DEF Free
<1>6. Live' = Live
  BY <1>2, <1>3, <1>4 DEF Live
<1>7. LiveParents' /\ StoredAtLive'
  BY <1>1, <1>2, <1>3, <1>4, <1>6 DEF Forest, LiveParents, StoredAtLive, Write
<1> QED
  BY <1>5, <1>7, WritingForest DEF Write, Forest

\* A delete shortens the chains that went through the deleted location.
LEMMA DeleteForest ==
    ASSUME OneRequest, ForestInv, PlaceInv', NEW r \in Requests, Delete(r)
    PROVE  ForestInv'
<1> DEFINE q == treeReq[r]
<1>1. /\ PlaceInv /\ Forest /\ Free(q) /\ q.pc = "delete"
      /\ nodes \in [Nodes -> NodeType]
      /\ storedAt \in [Stocks -> Nodes \union {None}]
  BY DEF ForestInv, PlaceInv, TreeTypeOK, Delete
<1>2. q.node \in Nodes /\ q.node \in Live /\ q.parent = nodes[q.node].parent
      /\ q.parent \in Live \union {None}
  BY <1>1 DEF Free, Live
<1>3. \A m \in Nodes :
         \/ nodes'[m].parent = nodes[m].parent
         \/ nodes[m].parent = q.node /\ nodes'[m].parent = q.parent
  BY <1>1, SurvivorRow
<1>4. nodes' = [n \in Nodes |-> Survivor(q, n)]
  BY DEF Delete
<1>5. q.parent # q.node
  <2>1. CASE q.parent = q.node
    <3>1. \A m \in {q.node} : nodes[m].parent \in {q.node}
      BY <1>2, <2>1
    <3> QED
      BY <1>1, <1>2, <3>1 DEF Forest, Rooted
  <2> QED
    BY <2>1
<1>6. nodes'[q.node].parent = q.parent
  BY <1>2, <1>3
<1>7. Rooted'
  <2> SUFFICES ASSUME NEW S \in SUBSET Nodes, \A m \in S : nodes'[m].parent \in S
               PROVE  S = {}
    BY DEF Rooted
  <2>1. CASE \A m \in S : nodes[m].parent \in S
    BY <1>1, <2>1 DEF Forest, Rooted
  <2>2. CASE \E m \in S : nodes[m].parent \notin S
    <3>1. q.parent \in S
      BY <1>3, <2>2
    <3>2. \A m \in S \union {q.node} : nodes[m].parent \in S \union {q.node}
      BY <1>2, <1>3, <3>1
    <3>3. S \union {q.node} = {}
      BY <1>1, <1>2, <3>2 DEF Forest, Rooted
    <3> QED
      BY <3>3
  <2> QED
    BY <2>1, <2>2
<1>8. Live' = Live \ {q.node}
  <2>1. \A m \in Nodes : nodes'[m].state =
                           IF m = q.node THEN "deleted" ELSE nodes[m].state
    BY <1>1, <1>4 DEF Survivor, NodeType
  <2> QED
    BY <1>2, <2>1 DEF Live
<1>9. LiveParents'
  <2> SUFFICES ASSUME NEW n \in Live' PROVE nodes'[n].parent \in Live' \union {None}
    BY DEF LiveParents
  <2>1. n \in Live /\ n # q.node /\ n \in Nodes
    BY <1>8 DEF Live
  <2>2. CASE nodes[n].parent = q.node
    <3>1. nodes'[n].parent = q.parent
      BY <1>1, <1>4, <2>1, <2>2 DEF Survivor, NodeType
    <3> QED
      BY <1>2, <1>5, <1>8, <3>1
  <2>3. CASE nodes[n].parent # q.node
    BY <1>1, <1>3, <1>8, <2>1, <2>3 DEF Forest, LiveParents
  <2> QED
    BY <2>2, <2>3
<1>10. StoredAtLive'
  BY <1>1, <1>8 DEF Delete, Forest, StoredAtLive
<1> QED
  BY <1>7, <1>9, <1>10, WritingForest DEF Delete, Forest

LEMMA StoringForest ==
    ASSUME OneRequest, ForestInv, PlaceInv', NEW r \in Requests, Storing(r)
    PROVE  ForestInv'
<1>1. ASSUME NEW s \in Stocks, NEW n \in Nodes \union {None}, BeginStore(r, s, n)
      PROVE  ForestInv'
  <2> DEFINE q == [TreeIdle EXCEPT !.pc = "store", !.stock = s, !.parent = n]
  <2>1. q.pc = "store" /\ q.parent = n
    BY DEF TreeIdle
  <2>2. n \in Live \union {None}
    BY <1>1 DEF BeginStore, ForestInv, Forest, StoredAtLive
  <2>3. Free(q)
    BY <2>1, <2>2 DEF Free
  <2> QED
    BY <1>1, <2>3, QuietForest DEF BeginStore, TreeStart
<1>2. ASSUME Store(r)
      PROVE  ForestInv'
  <2>1. Live' = Live /\ treeReq[r].parent \in Live \union {None}
    BY <1>2 DEF Store, Live, ForestInv, Free
  <2>2. StoredAtLive'
    BY <1>2, <2>1 DEF Store, StoredAtLive, ForestInv, Forest, PlaceInv, TreeTypeOK
  <2>3. Rooted' /\ LiveParents'
    BY <1>2, <2>1 DEF Store, ForestInv, Forest, Rooted, LiveParents
  <2> QED
    BY <1>2, <2>2, <2>3, WritingForest DEF Store, Forest
<1> QED
  BY <1>1, <1>2 DEF Storing

LEMMA ForestInit == TreeInit => ForestInv
<1> SUFFICES ASSUME TreeInit PROVE ForestInv
  OBVIOUS
<1>1. PlaceInv /\ \A n \in Nodes : nodes[n].parent = None /\ nodes[n].state = "none"
  BY PlaceInvInit DEF TreeInit, NoNode
<1>2. Live = {} /\ \A r \in Requests : Free(treeReq[r])
  BY <1>1 DEF Live, TreeInit, Free, TreeIdle
<1>3. Rooted
  BY <1>1, TreeAssumption DEF Rooted
<1> QED
  BY <1>1, <1>2, <1>3 DEF ForestInv, Forest, LiveParents, StoredAtLive, TreeInit

LEMMA ForestNext == OneRequest /\ ForestInv /\ [TreeNext]_treeVars => ForestInv'
<1> SUFFICES ASSUME OneRequest, ForestInv, [TreeNext]_treeVars PROVE ForestInv'
  OBVIOUS
<1>0. PlaceInv'
  BY PlaceInvNext DEF ForestInv
<1>1. ASSUME NEW r \in Requests, Creating(r) PROVE ForestInv'
  BY <1>0, <1>1, InsertForest, BeginInsertForest DEF Creating
<1>2. ASSUME NEW r \in Requests, Updating(r) PROVE ForestInv'
  BY <1>0, <1>2, BeginForest, WalkForest, WriteForest DEF Updating
<1>3. ASSUME NEW r \in Requests, Deleting(r) PROVE ForestInv'
  BY <1>0, <1>3, BeginForest, DeleteForest DEF Deleting
<1>4. ASSUME NEW r \in Requests, Storing(r) PROVE ForestInv'
  BY <1>0, <1>4, StoringForest
<1>5. CASE UNCHANGED treeVars
  BY <1>0, <1>5 DEF treeVars, ForestInv, Forest, Rooted, LiveParents, StoredAtLive, Live, Free, Cleared
<1> QED
  BY <1>1, <1>2, <1>3, <1>4, <1>5 DEF TreeNext, TreeStop

\* While requests do not overlap, no sequence of moves, deletes and creates makes
\* a location its own ancestor: verify_no_cycle is enough, at any depth bound.
THEOREM TreeStaysRooted ==
    ASSUME OneRequest
    PROVE  TreeSpec => []Rooted
<1>1. ForestInv => Rooted
  BY DEF ForestInv, Forest
<1>2. ForestInv /\ [TreeNext]_treeVars => ForestInv'
  BY ForestNext
<1> QED
  BY <1>1, <1>2, ForestInit, PTL DEF TreeSpec

\* ... and deletes leave neither a live location under a tombstone nor a purchase
\* at a deleted location; places stay on roots in any case.
THEOREM SubtreesSurvive ==
    ASSUME OneRequest
    PROVE  TreeSpec => []SubtreesIntact
<1>1. ForestInv => LiveParents /\ StoredAtLive
  BY DEF ForestInv, Forest
<1>2. ForestInv /\ [TreeNext]_treeVars => ForestInv'
  BY ForestNext
<1>3. PlaceAtRoot /\ LiveParents /\ StoredAtLive => SubtreesIntact
  BY DEF SubtreesIntact
<1> QED
  BY <1>1, <1>2, <1>3, ForestInit, PlacesStayOnRoots, PTL DEF TreeSpec

=============================================================================
