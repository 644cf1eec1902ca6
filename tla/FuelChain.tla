------------------------------ MODULE FuelChain -------------------------------
(***************************************************************************)
(* The fuel records of one motorcycle.  A fill's trip and consumption are  *)
(* derived from the fill before it, so every write of a fill is followed   *)
(* by recalculate_fuel_chain, which reads the fills and then writes the    *)
(* ones that changed row by row, outside any transaction.                  *)
(*                                                                         *)
(* The consumption is the litres over the trip and is written with it, so  *)
(* only the trip is kept.  Fills of one odometer are ordered by id; their  *)
(* date is left out.                                                       *)
(***************************************************************************)
EXTENDS Columns, Sequences

CONSTANTS
    MaxRow,      \* bound: rows ever created
    FillOdos,    \* odometer readings a client sends
    Writers      \* requests that write fills

ASSUME ChainAssumption ==
    /\ MaxRow \in Nat
    /\ FillOdos \subseteq Nat \ {0}

VARIABLES
    fills,       \* the rows, by id
    chain,       \* handlers in flight
    overlapped   \* ghost: a handler met another or was dropped, and no recalculation has run alone since

chainVars == <<fills, chain, overlapped>>

NoFill == [pc |-> "idle", id |-> 0, row |-> None, plan |-> {}]

ChainInit ==
    /\ fills = <<>>
    /\ chain = [r \in Writers |-> NoFill]
    /\ overlapped = FALSE

(* Of a deleted row only the type is read again.                            *)
Tombstone(row) == [row EXCEPT !.odo = 0, !.trip = None, !.deleted = TRUE]
IsFill(row) == row.fuel /\ ~row.deleted
Busy(r) == \E s \in Writers \ {r} : chain[s].pc # "idle"

(* fuel_stats_for_gap.                                                      *)
Trip(prev, odo) == IF prev # None /\ odo > prev THEN odo - prev ELSE None

(* The order of the query: odometer, then id.                               *)
Sooner(v, w) == v.odo < w.odo \/ (v.odo = w.odo /\ v.id < w.id)
Queried == {[id |-> i, odo |-> fills[i].odo] : i \in {j \in DOMAIN fills : IsFill(fills[j])}}

(* prev_odo: that of the fill just before in this order.                    *)
Preceding(v) == {w \in Queried : Sooner(w, v)}
PreviousOdo(v) ==
    IF Preceding(v) = {} THEN None
    ELSE (CHOOSE w \in Preceding(v) : \A u \in Preceding(v) \ {w} : Sooner(u, w)).odo

(* What the recalculation will write, from the rows it read.                *)
Planned(v) == [id |-> v.id, odo |-> v.odo, trip |-> Trip(PreviousOdo(v), v.odo)]
Plan == {w \in {Planned(v) : v \in Queried} : fills[w.id].trip # w.trip}

---------------------------------------------------------------------------
EndFill(r) == chain' = [chain EXCEPT ![r] = NoFill]
Meet(r) == overlapped' = (overlapped \/ Busy(r))

(* A create inserts what the client sent, a trip of its own included.       *)
CreateFill(r, odo, trip) ==
    /\ chain[r].pc = "idle"
    /\ Len(fills) < MaxRow
    /\ fills' = Append(fills, [odo |-> odo, trip |-> trip, fuel |-> TRUE, deleted |-> FALSE])
    /\ chain' = [chain EXCEPT ![r] = [NoFill EXCEPT !.pc = "read"]]
    /\ Meet(r)

(* An update merges the body into the row it read, a deleted one included.  *)
ReadFill(r, i) ==
    /\ chain[r].pc = "idle"
    /\ i \in DOMAIN fills
    /\ chain' = [chain EXCEPT ![r] = [NoFill EXCEPT !.pc = "merge", !.id = i, !.row = fills[i]]]
    /\ Meet(r)
    /\ UNCHANGED fills

AfterWrite(was, fuel) == IF fuel \/ was.fuel THEN [NoFill EXCEPT !.pc = "read"] ELSE NoFill

WriteFill(r, odo, fuel) ==
    LET q == chain[r] IN
    /\ q.pc = "merge"
    /\ fills' = [fills EXCEPT ![q.id] =
                    IF fills[q.id].deleted THEN @
                    ELSE [q.row EXCEPT !.odo = odo, !.fuel = fuel]]
    /\ chain' = [chain EXCEPT ![r] = AfterWrite(q.row, fuel)]
    /\ Meet(r)

(* A mutant: the neighbour of a deleted fill keeps its trip.                *)
DeleteFillAlone(r, i) ==
    /\ chain[r].pc = "idle"
    /\ i \in DOMAIN fills
    /\ ~fills[i].deleted
    /\ fills' = [fills EXCEPT ![i] = Tombstone(@)]
    /\ Meet(r)
    /\ UNCHANGED chain

DeleteFill(r, i) ==
    /\ chain[r].pc = "idle"
    /\ i \in DOMAIN fills
    /\ ~fills[i].deleted
    /\ fills' = [fills EXCEPT ![i] = Tombstone(@)]
    /\ chain' = [chain EXCEPT ![r] = [NoFill EXCEPT !.pc = "read"]]
    /\ Meet(r)

(* recalculate_fuel_chain.                                                  *)
ReadChain(r) ==
    /\ chain[r].pc = "read"
    /\ chain' = [chain EXCEPT ![r] = IF Plan = {} THEN NoFill
                                     ELSE [NoFill EXCEPT !.pc = "write", !.plan = Plan]]
    /\ overlapped' = (overlapped /\ Busy(r))
    /\ UNCHANGED fills

WriteNext(r) ==
    /\ chain[r].pc = "write"
    /\ \E w \in chain[r].plan :
          LET later == chain[r].plan \ {w} IN
          /\ \A v \in later : Sooner(w, v)
          /\ fills' = [fills EXCEPT ![w.id] = IF @.deleted THEN @ ELSE [@ EXCEPT !.trip = w.trip]]
          /\ chain' = [chain EXCEPT ![r] = IF later = {} THEN NoFill
                                           ELSE [@ EXCEPT !.plan = later]]
    /\ Meet(r)

(* The client hangs up, or a statement fails: what is written stays.        *)
DropFill(r) ==
    /\ chain[r].pc # "idle"
    /\ EndFill(r)
    /\ overlapped' = (overlapped \/ chain[r].pc # "merge")
    /\ UNCHANGED fills

ChainNext ==
    \E r \in Writers :
        \/ \E odo \in FillOdos, trip \in {None, 1} : CreateFill(r, odo, trip)
        \/ \E odo \in FillOdos, fuel \in BOOLEAN : WriteFill(r, odo, fuel)
        \/ \E i \in DOMAIN fills : ReadFill(r, i) \/ DeleteFill(r, i)
        \/ ReadChain(r)
        \/ WriteNext(r)
        \/ DropFill(r)

ChainSpec == ChainInit /\ [][ChainNext]_chainVars

---------------------------------------------------------------------------
(* Once the handlers are done, every fill that counts has the trip, and     *)
(* with it the consumption, of the gap to the nearest live fill below it,   *)
(* whatever was backfilled, corrected, deleted or switched to another type; *)
(* and where handlers met or one was dropped halfway, the next write that   *)
(* runs alone mends the chain (recalculate_fuel_chain and its callers).     *)
Below(i) == {j \in DOMAIN fills : IsFill(fills[j]) /\ fills[j].odo < fills[i].odo}
Repeats(i) == \E j \in DOMAIN fills : j < i /\ IsFill(fills[j]) /\ fills[j].odo = fills[i].odo
Nearest(i) == CHOOSE j \in Below(i) : \A l \in Below(i) : fills[l].odo <= fills[j].odo
Gap(i) == IF Below(i) = {} \/ Repeats(i) THEN None ELSE fills[i].odo - fills[Nearest(i)].odo

ChainIsCurrent ==
    (~overlapped /\ \A r \in Writers : chain[r].pc = "idle") =>
        \A i \in DOMAIN fills :
            IsFill(fills[i]) => fills[i].trip = Gap(i)
=============================================================================
