----------------------------- MODULE BikeRecords ------------------------------
(***************************************************************************)
(* What is written down about a motorcycle: issues, torque specs, details, *)
(* previous owners and expenses.  Most have a free text with a formatted   *)
(* twin, the markup, which clients show only while it still spells the     *)
(* text.                                                                   *)
(*                                                                         *)
(* An update reads the row, merges the body into it and writes every       *)
(* column back in a second statement; a create looks its idempotency key   *)
(* up before it inserts.                                                   *)
(***************************************************************************)
EXTENDS Naturals, FiniteSets

CONSTANTS
    Rows,        \* ids (AUTOINCREMENT: never reused)
    Texts,
    Keys,        \* clientId values
    Requests,    \* handlers that may be in flight
    None

ASSUME NoneAssumption == None \notin Rows \union Texts \union Keys

VARIABLES
    rows,        \* the five tables
    req,         \* handlers in flight
    outdated     \* ghost: an order was written over other owners than it was checked against

vars == <<rows, req, outdated>>

Tables == {"issue", "torque", "detail", "owner", "expense"}
Keyed == {"issue", "torque", "detail"}       \* have a clientId and a deletedAt
Plain == {"detail"}                          \* have no markup

(* A markup is named by the text it spells.                                 *)
NoRow == [table |-> "none", text |-> None, markup |-> None, key |-> None,
          deleted |-> FALSE, order |-> 0]
Idle == [pc |-> "idle", table |-> "none", row |-> None, text |-> None, markup |-> None,
         key |-> None, owners |-> {}]

Init ==
    /\ rows = [w \in Rows |-> NoRow]
    /\ req = [r \in Requests |-> Idle]
    /\ outdated = FALSE

Of(table) == {w \in Rows : rows[w].table = table}

Begin(r, q) ==
    /\ req[r].pc = "idle"
    /\ req' = [req EXCEPT ![r] = q]
    /\ UNCHANGED <<rows, outdated>>
Finish(r) == req' = [req EXCEPT ![r] = Idle]

(* What a body can carry: a text with its markup or without, as older       *)
(* clients send it.  No client sends a markup for another text.             *)
Fits(text, markup) == markup \in {None, text}

---------------------------------------------------------------------------
(* Creates.                                                                 *)

(* A key that is found ends the request: the stored row is the answer.      *)
LookUpKey(r, table, k) ==
    /\ table \in Keyed
    /\ \A w \in Of(table) : rows[w].key # k
    /\ Begin(r, [Idle EXCEPT !.pc = "insert", !.table = table, !.key = k])

WithoutKey(r, table) == Begin(r, [Idle EXCEPT !.pc = "insert", !.table = table])

(* Mutant: an index that is not unique.                                     *)
KeyNotUnique(q) == q.table \in Tables
(* The unique index refuses the second of two creates with one key.         *)
KeyIsFree(q) == q.key = None \/ \A w \in Of(q.table) : rows[w].key # q.key

Created(q, text, markup) ==
    [NoRow EXCEPT !.table = q.table, !.text = text, !.key = q.key,
                  !.markup = IF q.table \in Plain THEN None ELSE markup]

Insert(r, w, text, markup) ==
    LET q == req[r] IN
    /\ q.pc = "insert" /\ q.table # "owner"
    /\ rows[w] = NoRow
    /\ Fits(text, markup)
    /\ q.table \in Plain => text # None
    /\ rows' = IF KeyIsFree(q) THEN [rows EXCEPT ![w] = Created(q, text, markup)] ELSE rows
    /\ Finish(r)
    /\ UNCHANGED outdated

(* The place after the last owner, read in the transaction that inserts.    *)
NextOrderByCount == Cardinality(Of("owner"))
NextOrder ==
    IF Of("owner") = {} THEN 0
    ELSE 1 + CHOOSE n \in {rows[w].order : w \in Of("owner")} :
                \A w \in Of("owner") : rows[w].order <= n

InsertOwner(r, w, text, markup) ==
    LET q == req[r] IN
    /\ q.pc = "insert" /\ q.table = "owner"
    /\ rows[w] = NoRow
    /\ Fits(text, markup)
    /\ rows' = [rows EXCEPT ![w] = [Created(q, text, markup) EXCEPT !.order = NextOrder]]
    /\ Finish(r)
    /\ UNCHANGED outdated

(* import_torque_specs: a spec is read, deleted or not, and copied without  *)
(* its key, one after the other and each in a statement of its own.         *)
ReadSource(r, w) ==
    /\ rows[w].table = "torque"
    /\ Begin(r, [Idle EXCEPT !.pc = "copy", !.table = "torque", !.text = rows[w].text,
                            !.markup = rows[w].markup])

InsertCopy(r, w) ==
    LET q == req[r] IN
    /\ q.pc = "copy"
    /\ rows[w] = NoRow
    /\ rows' = [rows EXCEPT ![w] = Created(q, q.text, q.markup)]
    /\ Finish(r)
    /\ UNCHANGED outdated

---------------------------------------------------------------------------
(* Updates.                                                                 *)

ReadRow(r, w) ==
    /\ rows[w].table \in Tables
    /\ Begin(r, [Idle EXCEPT !.pc = "write", !.table = rows[w].table, !.row = w,
                            !.text = rows[w].text, !.markup = rows[w].markup])

(* resolve_markup: a markup that is sent wins, a text that changes without  *)
(* one drops the stored markup.                                             *)
ResolveMarkupKept(sent, markup, new, old, stored) == IF sent THEN markup ELSE stored
ResolveMarkup(sent, markup, new, old, stored) ==
    IF sent THEN markup ELSE IF new # old THEN None ELSE stored

(* Mutant: the update also clears deletedAt.                                *)
WriteRevived(r, table, new, sent, markup) ==
    /\ req[r].pc = "write" /\ req[r].table = table
    /\ sent => Fits(new, markup)
    /\ rows' = IF rows[req[r].row].table = table
               THEN [rows EXCEPT ![req[r].row].text = new, ![req[r].row].markup = None,
                                 ![req[r].row].deleted = FALSE]
               ELSE rows
    /\ Finish(r)
    /\ UNCHANGED outdated

Write(r, table, new, sent, markup) ==
    LET q == req[r]
        merged == [rows[q.row] EXCEPT
                     !.text = new,
                     !.markup = IF table \in Plain THEN None
                                ELSE ResolveMarkup(sent, markup, new, q.text, q.markup)] IN
    /\ q.pc = "write" /\ q.table = table
    /\ sent => Fits(new, markup)
    /\ rows' = IF rows[q.row].table = table THEN [rows EXCEPT ![q.row] = merged] ELSE rows
    /\ Finish(r)
    /\ UNCHANGED outdated

(* The text of the body, or the one that was read.  Only an issue's         *)
(* description can be cleared: elsewhere null means absent.                 *)
UpdateIssue(r, text, sent, markup) ==
    \/ Write(r, "issue", text, sent, markup)
    \/ Write(r, "issue", req[r].text, sent, markup)
UpdateTorqueSpec(r, text, sent, markup) ==
    Write(r, "torque", IF text = None THEN req[r].text ELSE text, sent, markup)
UpdateDetail(r, text) ==
    Write(r, "detail", IF text = None THEN req[r].text ELSE text, FALSE, None)
UpdatePreviousOwner(r, text, sent, markup) ==
    Write(r, "owner", IF text = None THEN req[r].text ELSE text, sent, markup)
UpdateExpense(r, text, sent, markup) ==
    Write(r, "expense", IF text = None THEN req[r].text ELSE text, sent, markup)

---------------------------------------------------------------------------
(* Deletes.                                                                 *)

(* A row that devices replicate stays as a tombstone.                       *)
SoftDelete(w) ==
    /\ rows[w].table \in Keyed
    /\ ~rows[w].deleted
    /\ rows' = [rows EXCEPT ![w].deleted = TRUE]
    /\ UNCHANGED <<req, outdated>>

HardDelete(w) ==
    /\ rows[w].table \in Tables \ Keyed
    /\ rows' = [rows EXCEPT ![w] = [NoRow EXCEPT !.table = "gone"]]
    /\ UNCHANGED <<req, outdated>>

---------------------------------------------------------------------------
(* reorder_previous_owners: the body must name every owner, which is        *)
(* checked before the transaction that numbers them.                        *)

CheckOrder(r) ==
    /\ Of("owner") # {}
    /\ Begin(r, [Idle EXCEPT !.pc = "reorder", !.table = "owner", !.owners = Of("owner")])

Numberings(set) ==
    {f \in [set -> 0..(Cardinality(set) - 1)] : \A v, w \in set : f[v] = f[w] => v = w}

WriteOrder(r, f) ==
    LET q == req[r] IN
    /\ q.pc = "reorder"
    /\ f \in Numberings(q.owners)
    /\ rows' = [w \in Rows |-> IF w \in q.owners \intersect Of("owner")
                              THEN [rows[w] EXCEPT !.order = f[w]] ELSE rows[w]]
    /\ outdated' = (outdated \/ q.owners # Of("owner"))
    /\ Finish(r)

---------------------------------------------------------------------------
Create(r) ==
    \/ \E table \in Tables : WithoutKey(r, table)
    \/ \E table \in Keyed, k \in Keys : LookUpKey(r, table, k)
    \/ \E w \in Rows, text \in Texts \union {None} : \E markup \in {None, text} :
          Insert(r, w, text, markup) \/ InsertOwner(r, w, text, markup)
    \/ \E w \in Rows : ReadSource(r, w) \/ InsertCopy(r, w)

Update(r) ==
    \/ \E w \in Rows : ReadRow(r, w)
    \/ \E text \in Texts \union {None}, sent \in BOOLEAN, markup \in Texts \union {None} :
          /\ sent \/ markup = None
          /\ \/ UpdateIssue(r, text, sent, markup)
             \/ UpdateTorqueSpec(r, text, sent, markup)
             \/ UpdatePreviousOwner(r, text, sent, markup)
             \/ UpdateExpense(r, text, sent, markup)
    \/ \E text \in Texts \union {None} : UpdateDetail(r, text)

Reorder(r) == CheckOrder(r) \/ \E f \in Numberings(req[r].owners) : WriteOrder(r, f)

HangUp(r) ==
    /\ req[r].pc # "idle"
    /\ Finish(r)
    /\ UNCHANGED <<rows, outdated>>

Next ==
    \/ \E r \in Requests : Create(r) \/ Update(r) \/ Reorder(r) \/ HangUp(r)
    \/ \E w \in Rows : SoftDelete(w) \/ HardDelete(w)

Spec == Init /\ [][Next]_vars

---------------------------------------------------------------------------
(* Properties.                                                              *)

RowType == [table : Tables \union {"none", "gone"}, text : Texts \union {None},
            markup : Texts \union {None}, key : Keys \union {None},
            deleted : BOOLEAN, order : Nat]
ReqType == [pc : {"idle", "insert", "copy", "write", "reorder"},
            table : Tables \union {"none"}, row : Rows \union {None},
            text : Texts \union {None}, markup : Texts \union {None},
            key : Keys \union {None}, owners : SUBSET Rows]

(* Types; a detail has a value and no markup.                               *)
TypeOK ==
    /\ rows \in [Rows -> RowType]
    /\ req \in [Requests -> ReqType]
    /\ outdated \in BOOLEAN
    /\ \A w \in Of("detail") : rows[w].text # None /\ rows[w].markup = None

(* The stored markup spells the stored text, whatever updates, imports and  *)
(* older clients overlap.                                                   *)
MarkupFits == \A w \in Rows : Fits(rows[w].text, rows[w].markup)

(* A tombstone is final: an update that read the row before it was deleted  *)
(* does not bring it back when it writes.                                   *)
TombstonesStay == [][\A w \in Rows : rows[w].deleted => rows'[w].deleted]_vars

(* No two owners have one place in the order, unless an owner was deleted   *)
(* or added between the check of an order and its numbering.                *)
OwnersInOrder ==
    \/ outdated
    \/ \A v, w \in Of("owner") : rows[v].order = rows[w].order => v = w
=============================================================================
