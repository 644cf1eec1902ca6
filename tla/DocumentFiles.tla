--------------------------- MODULE DocumentFiles ---------------------------
(***************************************************************************)
(* Documents: rows in the database, the files and previews they name in    *)
(* two upload directories, their links to motorcycles, and a backup that   *)
(* copies first the rows and then the files.                               *)
(*                                                                         *)
(* Nothing spans the database and the directories.  A handler reads the    *)
(* row, saves and removes files, and writes the row back, each in a step   *)
(* of its own; its connection may drop at any of them.  A file is the uuid *)
(* it is stored under, a preview <<f, n>> is the n-th one made of file f   *)
(* (0 by its upload).  Every user has one motorcycle, named by the user.   *)
(* Titles and isPrivate are left out: a request isPrivate refuses changes  *)
(* nothing.                                                                *)
(***************************************************************************)
EXTENDS Naturals

CONSTANTS
    Docs, Files,    \* row ids and uuids ever given out
    Users, Requests, None,
    MaxRegenerated, \* bound: previews an admin regenerates
    MaxAborts       \* bound: requests that stop half-way

ASSUME NoneAssumption == None \notin Docs \union Files \union Users \union (Files \X Nat)
ASSUME BoundAssumption == MaxRegenerated \in Nat /\ MaxAborts \in Nat

VARIABLES
    rows,           \* documents
    links,          \* documentMotorcycles
    files, previews,\* the upload directories
    req,            \* handlers in flight
    backup,         \* the backup of the history: its snapshot and its archive
    damaged,        \* documents whose row was written back stale, or whose file was removed
                    \* by a replacement that stopped before the row was written
    aborts

vars == <<rows, links, files, previews, req, backup, damaged, aborts>>

NoRow == [state |-> "none", owner |-> None, file |-> None, preview |-> None]
Idle == [pc |-> "idle", user |-> None, doc |-> None, old |-> NoRow, file |-> None, preview |-> None,
         stale |-> FALSE]
NoBackup == [pc |-> "none", rows |-> [d \in Docs |-> NoRow], files |-> {}]

Init ==
    /\ rows = [d \in Docs |-> NoRow] /\ links = {}
    /\ files = {} /\ previews = {}
    /\ req = [r \in Requests |-> Idle]
    /\ backup = NoBackup
    /\ damaged = {}
    /\ aborts = 0

Stored == {d \in Docs : rows[d].state = "stored"}
Names(x, f) == x.file = f \/ (x.preview # None /\ x.preview[1] = f)
\* A uuid is new: no file, row, request or backup has it.
Fresh(f) ==
    /\ f \notin files \union backup.files
    /\ \A p \in previews : p[1] # f
    /\ \A d \in Docs : ~Names(rows[d], f) /\ ~Names(backup.rows[d], f)
    /\ \A r \in Requests : ~Names(req[r], f) /\ ~Names(req[r].old, f)

At(r, pc) == req[r].pc = pc
Start(r, q) == At(r, "idle") /\ req' = [req EXCEPT ![r] = q]
Goto(r, pc) == req' = [req EXCEPT ![r].pc = pc]
Finish(r) == req' = [req EXCEPT ![r] = Idle]
\* Handler r changes the row of d and goes on as q: what others read of it is stale.
Changed(r, d, q) ==
    req' = [x \in Requests |->
               IF x = r THEN q
               ELSE IF req[x].doc = d THEN [req[x] EXCEPT !.stale = TRUE] ELSE req[x]]
\* The row of d is written; the motorcycles follow at pc, if the request names any.
ThenLinks(r, d, pc) == {Idle, [Idle EXCEPT !.pc = pc, !.user = req[r].user, !.doc = d]}

---------------------------------------------------------------------------
(* Saving a file and its preview.                                           *)

\* save_document_file writes the upload under a new uuid ...
Save(r, q) ==
    \E f \in Files :
        /\ Fresh(f)
        /\ files' = files \union {f}
        /\ Start(r, [q EXCEPT !.pc = "preview", !.file = f])
        /\ UNCHANGED <<rows, links, previews, backup, damaged, aborts>>

\* ... and makes its preview in a blocking task; some files have none, some fail.
Preview(r) ==
    /\ At(r, "preview")
    /\ \E p \in {None, <<req[r].file, 0>>} :
          /\ previews' = previews \union ({p} \ {None})
          /\ req' = [req EXCEPT ![r].preview = p,
                                ![r].pc = IF req[r].doc = None THEN "insert" ELSE "remove"]
    /\ UNCHANGED <<rows, links, files, backup, damaged, aborts>>

---------------------------------------------------------------------------
(* Create.                                                                  *)

BeginCreate(r, u) == Save(r, [Idle EXCEPT !.user = u])

Insert(r) ==
    /\ At(r, "insert")
    /\ \E d \in Docs :
          /\ rows[d].state = "none"
          /\ rows' = [rows EXCEPT ![d] = [state |-> "stored", owner |-> req[r].user,
                         file |-> req[r].file, preview |-> req[r].preview]]
          /\ \E q \in ThenLinks(r, d, "link") : Changed(r, d, q)
    /\ UNCHANGED <<links, files, previews, backup, damaged, aborts>>

---------------------------------------------------------------------------
(* Update.  Only the owner changes the row; anybody who may see the document *)
(* links it to motorcycles of their own.                                     *)

BeginEdit(r, u, d) ==
    /\ d \in Stored
    /\ Start(r, IF rows[d].owner = u
                THEN [Idle EXCEPT !.pc = "update", !.user = u, !.doc = d, !.old = rows[d]]
                ELSE [Idle EXCEPT !.pc = "unlink", !.user = u, !.doc = d])
    /\ UNCHANGED <<rows, links, files, previews, backup, damaged, aborts>>

BeginReplace(r, u, d) ==
    /\ d \in Stored /\ rows[d].owner = u
    /\ Save(r, [Idle EXCEPT !.user = u, !.doc = d, !.old = rows[d]])

\* The old file and preview go before the row names the new ones.
RemoveOld(r) ==
    /\ At(r, "remove")
    /\ files' = files \ {req[r].old.file}
    /\ previews' = previews \ {req[r].old.preview}
    /\ Goto(r, "update")
    /\ UNCHANGED <<rows, links, backup, damaged, aborts>>

NewRowSwapped(q) ==
    IF q.file = None THEN q.old ELSE [q.old EXCEPT !.preview = q.preview]
NewRow(q) ==
    IF q.file = None THEN q.old ELSE [q.old EXCEPT !.file = q.file, !.preview = q.preview]

\* Every column is written, those the request does not name as they were read.
\* Without the row nothing is written and the request ends in an error.
Update(r) ==
    /\ At(r, "update")
    /\ LET q == req[r] IN
       IF q.doc \in Stored
       THEN /\ rows' = [rows EXCEPT ![q.doc] = NewRow(q)]
            /\ damaged' = IF q.file # None THEN damaged \ {q.doc}
                          ELSE IF q.stale THEN damaged \union {q.doc} ELSE damaged
            /\ \E next \in ThenLinks(r, q.doc, "unlink") : Changed(r, q.doc, next)
       ELSE Finish(r) /\ UNCHANGED <<rows, damaged>>
    /\ UNCHANGED <<links, files, previews, backup, aborts>>

\* The owner's list replaces every link of the document, another user's those of
\* the own motorcycles.
Unlink(r) ==
    /\ At(r, "unlink")
    /\ LET d == req[r].doc IN
       links' = IF d \in Stored /\ rows[d].owner = req[r].user THEN links \ ({d} \X Users)
                ELSE links \ {<<d, req[r].user>>}
    /\ Goto(r, "link") \/ Finish(r)
    /\ UNCHANGED <<rows, files, previews, backup, damaged, aborts>>

\* The foreign key refuses a link to a row that is gone.
Link(r) ==
    /\ At(r, "link")
    /\ links' = IF req[r].doc \in Stored THEN links \union {<<req[r].doc, req[r].user>>} ELSE links
    /\ Finish(r)
    /\ UNCHANGED <<rows, files, previews, backup, damaged, aborts>>

---------------------------------------------------------------------------
(* Delete, and the admin's regeneration of previews.                        *)

BeginDelete(r, u, d) ==
    /\ d \in Stored /\ rows[d].owner = u
    /\ Start(r, [Idle EXCEPT !.pc = "delete", !.user = u, !.doc = d, !.old = rows[d]])
    /\ UNCHANGED <<rows, links, files, previews, backup, damaged, aborts>>

\* The row goes with its links ...
DeleteRow(r) ==
    /\ At(r, "delete")
    /\ LET d == req[r].doc IN
       /\ rows' = IF d \in Stored THEN [rows EXCEPT ![d].state = "deleted"] ELSE rows
       /\ links' = links \ ({d} \X Users)
       /\ Changed(r, d, [req[r] EXCEPT !.pc = "removeDeleted"])
    /\ UNCHANGED <<files, previews, backup, damaged, aborts>>
\* ... then the files it named when it was read.
RemoveDeleted(r) ==
    /\ At(r, "removeDeleted")
    /\ files' = files \ {req[r].old.file}
    /\ previews' = previews \ {req[r].old.preview}
    /\ Finish(r)
    /\ UNCHANGED <<rows, links, backup, damaged, aborts>>

\* One document of the listing regenerate_previews works through: a new preview
\* from the file it was listed with, if that is still there.
Regenerate(r, d) ==
    /\ d \in Stored /\ rows[d].file \in files
    /\ \E n \in 1 .. MaxRegenerated :
          /\ <<rows[d].file, n>> \notin previews
          /\ previews' = previews \union {<<rows[d].file, n>>}
          /\ Start(r, [Idle EXCEPT !.pc = "repoint", !.doc = d, !.preview = <<rows[d].file, n>>])
    /\ UNCHANGED <<rows, links, files, backup, damaged, aborts>>
Repoint(r) ==
    /\ At(r, "repoint")
    /\ LET d == req[r].doc IN
       IF d \in Stored
       THEN /\ rows' = [rows EXCEPT ![d].preview = req[r].preview]
            /\ damaged' = IF req[r].stale THEN damaged \union {d} ELSE damaged
            /\ Changed(r, d, Idle)
       ELSE Finish(r) /\ UNCHANGED <<rows, damaged>>
    /\ UNCHANGED <<links, files, previews, backup, aborts>>

---------------------------------------------------------------------------
(* Around the handlers.                                                     *)

\* A dropped connection, a failing statement or a crash between two steps.  The
\* blocking task of a preview finishes on its own.
Replacing(r) == At(r, "update") /\ req[r].file # None
Abort(r) ==
    /\ ~At(r, "idle") /\ aborts < MaxAborts
    /\ aborts' = aborts + 1
    /\ Finish(r)
    /\ previews' \in {previews} \union (IF At(r, "preview") THEN {previews \union {<<req[r].file, 0>>}} ELSE {})
    /\ damaged' = IF Replacing(r) THEN damaged \union {req[r].doc} ELSE damaged
    /\ UNCHANGED <<rows, links, files, backup>>

BackupFilesFirst ==
    /\ \/ /\ backup.pc = "none"
          /\ backup' = [backup EXCEPT !.pc = "snapshot", !.files = files]
       \/ /\ backup.pc = "snapshot"
          /\ backup' = [backup EXCEPT !.pc = "archived", !.rows = rows]
    /\ UNCHANGED <<rows, links, files, previews, req, damaged, aborts>>
\* A backup: the snapshot of the rows, then the archive of the directories.
Backup ==
    /\ \/ /\ backup.pc = "none"
          /\ backup' = [backup EXCEPT !.pc = "snapshot", !.rows = rows]
       \/ /\ backup.pc = "snapshot"
          /\ backup' = [backup EXCEPT !.pc = "archived", !.files = files]
    /\ UNCHANGED <<rows, links, files, previews, req, damaged, aborts>>
---------------------------------------------------------------------------
Handling(r) ==
    \/ \E u \in Users : BeginCreate(r, u)
    \/ \E u \in Users, d \in Docs : BeginEdit(r, u, d) \/ BeginReplace(r, u, d) \/ BeginDelete(r, u, d)
    \/ Preview(r) \/ Insert(r) \/ RemoveOld(r) \/ Update(r) \/ Unlink(r) \/ Link(r)
    \/ DeleteRow(r) \/ RemoveDeleted(r)
    \/ \E d \in Docs : Regenerate(r, d)
    \/ Repoint(r)
    \/ Abort(r)

\* Where the bounded history ends: no row id or no uuid is left for a create.
Exhausted ==
    \/ \A d \in Docs : rows[d].state # "none"
    \/ \A f \in Files : ~Fresh(f)
Stop == Exhausted /\ UNCHANGED vars

Next == (\E r \in Requests : Handling(r)) \/ Backup \/ Stop

Spec == Init /\ [][Next]_vars

---------------------------------------------------------------------------
(* Properties.                                                              *)

PCs == {"idle", "preview", "insert", "remove", "update", "unlink", "link", "delete",
        "removeDeleted", "repoint"}
PreviewNames == Files \X (0 .. MaxRegenerated)
RowType == [state : {"none", "stored", "deleted"}, owner : Users \union {None},
            file : Files \union {None}, preview : PreviewNames \union {None}]
ReqType == [pc : PCs, user : Users \union {None}, doc : Docs \union {None}, old : RowType,
            file : Files \union {None}, preview : PreviewNames \union {None}, stale : BOOLEAN]

\* Rows, directories and handlers have their types; links are of stored rows.
TypeOK ==
    /\ rows \in [Docs -> RowType]
    /\ links \subseteq Stored \X Users
    /\ files \subseteq Files /\ previews \subseteq PreviewNames
    /\ req \in [Requests -> ReqType]
    /\ backup \in [pc : {"none", "snapshot", "archived"}, rows : [Docs -> RowType], files : SUBSET Files]
    /\ damaged \subseteq Docs
    /\ aborts \in 0 .. MaxAborts

\* A stored row names a file and a preview that are on the disk, whatever the
\* order of uploads, replacements and deletes: but between the removal of the
\* old file and the update of the row, and where a stale row was written back.
RowsHaveTheirFiles ==
    \A d \in Stored \ damaged :
        \/ \E r \in Requests : Replacing(r) /\ req[r].doc = d
        \/ rows[d].file \in files /\ rows[d].preview \in previews \union {None}

\* An archive has the file of every document its snapshot lists, whatever uploads,
\* edits, regenerations and begun deletes ran beside the backup: but those whose row
\* named a lost file anyway (damaged), and those that were deleted or given another
\* file, or were about to be, before the directories were copied.
ArchiveHasItsFiles ==
    backup.pc = "archived" =>
        \A d \in Stored \ damaged :
            /\ backup.rows[d].state = "stored"
            /\ rows[d].file = backup.rows[d].file
            /\ ~\E r \in Requests : Replacing(r) /\ req[r].doc = d
            => backup.rows[d].file \in backup.files

\* What BACKUP_PROPOSAL.md says of the order "snapshot first, then files": a restore
\* has no row without its file.
ArchiveNeverDangles ==
    backup.pc = "archived" =>
        \A d \in Docs : backup.rows[d].state = "stored" => backup.rows[d].file \in backup.files

=============================================================================
