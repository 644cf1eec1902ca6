----------------------------- MODULE StorageTree -----------------------------
(***************************************************************************)
(* The tree of storage locations (shelf in a cupboard in a room), the      *)
(* place a root is linked to, and the purchases kept in them.              *)
(*                                                                         *)
(* Create and move check first and write later, each check a statement of  *)
(* its own: the walk up the parent chain reads one node per step.  Delete  *)
(* is one transaction that begins with a write, after the node was read.   *)
(* A name that PartsInventory has as well begins with Tree here, so that   *)
(* one module can speak about both.                                        *)
(***************************************************************************)
EXTENDS Inventory, Integers, FiniteSets

CONSTANTS
    Nodes,       \* ids of storageLocations rows ever inserted
    Places,      \* physical locations a root may be linked to
    MaxDepth     \* MAX_HIERARCHY_DEPTH

ASSUME TreeAssumption == None \notin Nodes \union Places
ASSUME DepthAssumption == MaxDepth \in Nat \ {0}

VARIABLES
    nodes,       \* storageLocations
    storedAt,    \* partStocks.storageLocationId
    treeReq      \* handlers in flight

treeVars == <<nodes, storedAt, treeReq>>

NoNode == [state |-> "none", parent |-> None, place |-> None]
TreeIdle == [pc |-> "idle", node |-> None, parent |-> None, place |-> None, stock |-> None,
             at |-> None, depth |-> 0]

TreeInit ==
    /\ nodes = [n \in Nodes |-> NoNode]
    /\ storedAt = [s \in Stocks |-> None]
    /\ treeReq = [r \in Requests |-> TreeIdle]

Live == {n \in Nodes : nodes[n].state = "live"}

TreeStart(r, q) ==
    /\ treeReq[r].pc = "idle"
    /\ treeReq' = [treeReq EXCEPT ![r] = q]
    /\ UNCHANGED <<nodes, storedAt>>
TreeFinish(r) == treeReq' = [treeReq EXCEPT ![r] = TreeIdle]
TreeGoto(r, q) == treeReq' = [treeReq EXCEPT ![r] = q] /\ UNCHANGED <<nodes, storedAt>>

---------------------------------------------------------------------------
(* Create.  Only a root is linked to a place.                               *)

BeginInsert(r, p, place) ==
    /\ p # None => p \in Live /\ place = None
    /\ TreeStart(r, [TreeIdle EXCEPT !.pc = "insert", !.parent = p, !.place = place])

Insert(r) ==
    /\ treeReq[r].pc = "insert"
    /\ \E n \in Nodes :
          /\ nodes[n].state = "none"
          /\ nodes' = [nodes EXCEPT ![n] = [state |-> "live", parent |-> treeReq[r].parent,
                                            place |-> treeReq[r].place]]
    /\ TreeFinish(r)
    /\ UNCHANGED storedAt

---------------------------------------------------------------------------
(* Update: rename or relink in place, or move.                              *)

\* parentId absent: the parent read here is written back.
BeginRelink(r, n, place) ==
    /\ n \in Live
    /\ place # None /\ place # nodes[n].place => nodes[n].parent = None
    /\ TreeStart(r, [TreeIdle EXCEPT !.pc = "write", !.node = n, !.parent = nodes[n].parent, !.place = place])

\* parentId null: to the root, where a place may be named.
BeginUnnest(r, n, place) ==
    /\ n \in Live
    /\ TreeStart(r, [TreeIdle EXCEPT !.pc = "write", !.node = n, !.place = place])

\* A new parent has to be live, and n none of its ancestors; n's place is cleared.
BeginMove(r, n, p) ==
    /\ n \in Live /\ p \in Live
    /\ TreeStart(r, [TreeIdle EXCEPT !.pc = "walk", !.node = n, !.parent = p, !.at = p])

\* One round of verify_no_cycle.
WalkOneLevel(r) ==
    /\ treeReq[r].pc = "walk"
    /\ IF treeReq[r].at # treeReq[r].node THEN TreeGoto(r, [treeReq[r] EXCEPT !.pc = "write"])
       ELSE TreeGoto(r, TreeIdle)
Walk(r) ==
    LET q == treeReq[r] IN
    /\ q.pc = "walk"
    /\ IF q.depth = MaxDepth \/ q.at = q.node THEN TreeGoto(r, TreeIdle)
       ELSE IF q.at = None THEN TreeGoto(r, [q EXCEPT !.pc = "write"])
       ELSE TreeGoto(r, [q EXCEPT !.at = nodes[q.at].parent, !.depth = q.depth + 1])

Write(r) ==
    /\ treeReq[r].pc = "write"
    /\ nodes' = [nodes EXCEPT ![treeReq[r].node] =
                    [state |-> nodes[treeReq[r].node].state, parent |-> treeReq[r].parent,
                     place |-> IF treeReq[r].parent = None THEN treeReq[r].place ELSE None]]
    /\ TreeFinish(r)
    /\ UNCHANGED storedAt

---------------------------------------------------------------------------
(* Delete, and what is stored.                                              *)

BeginDelete(r, n) ==
    /\ n \in Live
    /\ TreeStart(r, [TreeIdle EXCEPT !.pc = "delete", !.node = n, !.parent = nodes[n].parent])

\* The tombstone; the children move up to the parent that was read, and what was
\* stored here is stored nowhere.
Survivor(q, n) ==
    IF n = q.node THEN [nodes[n] EXCEPT !.state = "deleted"]
    ELSE IF n \in Live /\ nodes[n].parent = q.node THEN [nodes[n] EXCEPT !.parent = q.parent]
    ELSE nodes[n]
DeleteAlone(r) ==
    /\ treeReq[r].pc = "delete"
    /\ nodes' = [nodes EXCEPT ![treeReq[r].node] = [nodes[treeReq[r].node] EXCEPT !.state = "deleted"]]
    /\ storedAt' = [s \in Stocks |-> IF storedAt[s] = treeReq[r].node THEN None ELSE storedAt[s]]
    /\ TreeFinish(r)
Delete(r) ==
    /\ treeReq[r].pc = "delete"
    /\ nodes' = [n \in Nodes |-> Survivor(treeReq[r], n)]
    /\ storedAt' = [s \in Stocks |-> IF storedAt[s] = treeReq[r].node THEN None ELSE storedAt[s]]
    /\ TreeFinish(r)

\* create_part_stock and update_part_stock check a location that is named and
\* write it, or the one read with the purchase, later.
BeginStore(r, s, n) ==
    /\ n \in Live \/ n = storedAt[s]
    /\ TreeStart(r, [TreeIdle EXCEPT !.pc = "store", !.stock = s, !.parent = n])

Store(r) ==
    /\ treeReq[r].pc = "store"
    /\ storedAt' = [storedAt EXCEPT ![treeReq[r].stock] = treeReq[r].parent]
    /\ TreeFinish(r)
    /\ UNCHANGED nodes

---------------------------------------------------------------------------
Creating(r) ==
    \/ \E p \in Nodes \union {None}, place \in Places \union {None} : BeginInsert(r, p, place)
    \/ Insert(r)
Updating(r) ==
    \/ \E n \in Nodes :
          \/ \E place \in Places \union {None} :
                 BeginRelink(r, n, place) \/ BeginUnnest(r, n, place)
          \/ \E p \in Nodes : BeginMove(r, n, p)
    \/ Walk(r) \/ Write(r)
Deleting(r) == (\E n \in Nodes : BeginDelete(r, n)) \/ Delete(r)
Storing(r) ==
    \/ \E s \in Stocks, n \in Nodes \union {None} : BeginStore(r, s, n)
    \/ Store(r)

\* Where the bounded history ends: a row id is missing.
TreeStop == (\A n \in Nodes : nodes[n].state # "none") /\ UNCHANGED treeVars

TreeNext ==
    \/ \E r \in Requests : Creating(r) \/ Updating(r) \/ Deleting(r) \/ Storing(r)
    \/ TreeStop

TreeSpec == TreeInit /\ [][TreeNext]_treeVars

---------------------------------------------------------------------------
(* Properties.                                                              *)

TreePCs == {"idle", "insert", "walk", "write", "delete", "store"}
NodeType == [state : {"none", "live", "deleted"}, parent : Nodes \union {None},
             place : Places \union {None}]
TreeReqType == [pc : TreePCs, node : Nodes \union {None}, parent : Nodes \union {None},
                place : Places \union {None}, stock : Stocks \union {None},
                at : Nodes \union {None}, depth : 0 .. MaxDepth]

\* The tables and the handlers have their types.
TreeTypeOK ==
    /\ nodes \in [Nodes -> NodeType]
    /\ storedAt \in [Stocks -> Nodes \union {None}]
    /\ treeReq \in [Requests -> TreeReqType]

\* The parent chain of every storage location ends: no set of locations has all
\* its parents inside itself.
Rooted ==
    \A S \in SUBSET Nodes :
        (\A n \in S : nodes[n].parent \in S) => S = {}

\* A live location hangs under a live one, so a subtree survives its root.
LiveParents == \A n \in Live : nodes[n].parent \in Live \union {None}

\* Only a root carries a place, however moves, deletes and relinks overlap; every
\* other location inherits it.
PlaceAtRoot == \A n \in Nodes : nodes[n].place # None => nodes[n].parent = None

\* What is stored is stored at a live location.
StoredAtLive == \A s \in Stocks : storedAt[s] \in Live \union {None}

\* A move, a relink or a delete leaves nothing hanging in the air: places on
\* roots, live locations under live ones, purchases at live ones.
SubtreesIntact == PlaceAtRoot /\ LiveParents /\ StoredAtLive

=============================================================================
