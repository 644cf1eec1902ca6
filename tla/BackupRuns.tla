----------------------------- MODULE BackupRuns -----------------------------
(***************************************************************************)
(* Database and upload backups: the scheduler and the admin's "back up     *)
(* now" share perform_backup under one try_lock guard; an archive is       *)
(* written off-thread; history rows live in the backups table, archives    *)
(* and snapshots on disk.  Every await is a point where other requests     *)
(* run, where a manual run's connection may be dropped (its future with    *)
(* it, but not the blocking archive task) and where the process may die.   *)
(*                                                                         *)
(* The data that is backed up is two versions that only grow, one of the   *)
(* database (the backups table left out, as in fingerprint) and one of the *)
(* upload directories (their listing has mtimes), so equal fingerprints    *)
(* are equal versions.  A stamp is the second a run started in: it names   *)
(* the run's snapshot and its archive.                                     *)
(***************************************************************************)
EXTENDS Integers, FiniteSets

CONSTANTS
    Scheduler, Manuals,   \* the background task; manual requests in flight
    Deleters,             \* delete_backup requests in flight
    None,
    Keep,                 \* BACKUP_KEEP (config takes only values above 0)
    Interval, MinPoll,    \* BACKUP_INTERVAL_HOURS and MIN_POLL, in seconds
    MaxRow, MaxNow, MaxVersion, MaxFaults   \* bounds of the history

ASSUME HandlerAssumption == Scheduler \notin Manuals /\ None \notin Manuals \union {Scheduler}
ASSUME KeepAssumption == Keep \in Nat \ {0}
ASSUME BoundAssumption == {Interval, MinPoll, MaxRow, MaxNow, MaxVersion, MaxFaults} \subseteq Nat

Handlers == Manuals \union {Scheduler}
Stamps == 0 .. MaxNow
RowIds == 1 .. MaxRow

VARIABLES
    now, up,       \* the clock in seconds; whether the process runs
    db, files,     \* versions of the database and of the upload directories
    rows,          \* the backups table
    archives,      \* motomanager-<stamp>.tar.gz
    snapshots,     \* the stamps with a .snapshot-<stamp>.sqlite on disk
    guard,         \* the BackupGuard: who holds it
    run, wake,     \* each handler inside perform_backup; the scheduler's timer
    writers,       \* blocking archive tasks
    del,           \* delete_backup requests
    started,       \* history: runs begun per stamp (2 stands for more)
    abandoned,     \* history: rows whose run stopped without recording an end
    faults         \* bound: errors, dropped connections and crashes so far

disk == <<archives, snapshots>>
history == <<started, abandoned, faults>>
vars == <<now, up, db, files, rows, archives, snapshots, guard, run, wake,
          writers, del, started, abandoned, faults>>

NoRow == [status |-> "none", stamp |-> 0, finished |-> 0, db |-> 0, files |-> 0]
NoFile == [state |-> "absent", db |-> 0, files |-> 0]
Idle == [pc |-> "idle", row |-> 0, stamp |-> 0, db |-> 0, files |-> 0]
NoDelete == [pc |-> "idle", row |-> 0, file |-> None]

Init ==
    /\ now = 0 /\ up = TRUE /\ db = 0 /\ files = 0
    /\ rows = [i \in RowIds |-> NoRow]
    /\ archives = [s \in Stamps |-> NoFile]
    /\ snapshots = {}
    /\ guard = None
    /\ run = [h \in Handlers |-> IF h = Scheduler THEN [Idle EXCEPT !.pc = "poll"] ELSE Idle]
    /\ wake = 0
    /\ writers = {}
    /\ del = [d \in Deleters |-> NoDelete]
    /\ started = [s \in Stamps |-> 0]
    /\ abandoned = {}
    /\ faults = 0

Stored(i) == rows[i].status # "none"
Success(i) == rows[i].status = "success"
Whole(s) == archives[s].state = "whole"
At(h, pc) == up /\ run[h].pc = pc
Goto(h, pc) == run' = [run EXCEPT ![h].pc = pc]
Fault == faults < MaxFaults /\ faults' = faults + 1

\* Dropping the guard ends a run; the scheduler then pauses for MIN_POLL.
Release(h) ==
    /\ guard' = None
    /\ run' = [run EXCEPT ![h] = IF h = Scheduler THEN [Idle EXCEPT !.pc = "pause"] ELSE Idle]
    /\ wake' = IF h = Scheduler THEN now + MinPoll ELSE wake

---------------------------------------------------------------------------
(* The scheduler's loop.                                                    *)

\* Row i finished last among those with a status in S (the sub-second order of
\* finishedAt is the order of the ids, as runs are serial).
LastFinished(i, S) ==
    /\ rows[i].status \in S
    /\ \A j \in RowIds : rows[j].status \in S =>
          \/ rows[j].finished < rows[i].finished
          \/ rows[j].finished = rows[i].finished /\ j <= i

SecondsUntilDue(i) ==
    LET elapsed == now - rows[i].finished IN
    IF elapsed > Interval THEN 0 ELSE Interval - elapsed

\* seconds_until_due, counted from the last success or skip; none yet or a
\* failing query means overdue.
Poll ==
    /\ At(Scheduler, "poll")
    /\ \/ wake' = now
       \/ \E i \in RowIds : LastFinished(i, {"success", "skipped"})
                           /\ wake' = now + SecondsUntilDue(i)
    /\ Goto(Scheduler, "due")
    /\ UNCHANGED <<now, up, db, files, rows, disk, guard, writers, del, history>>

Awake(h) == IF h = Scheduler THEN At(h, "due") /\ now >= wake ELSE At(h, "idle")

SchedulerBusyStops ==
    /\ Awake(Scheduler) /\ guard # None
    /\ Goto(Scheduler, "idle")
    /\ UNCHANGED <<now, up, db, files, rows, disk, guard, wake, writers, del, history>>
SchedulerBusy ==
    /\ Awake(Scheduler) /\ guard # None
    /\ Goto(Scheduler, "pause")
    /\ wake' = now + MinPoll
    /\ UNCHANGED <<now, up, db, files, rows, disk, guard, writers, del, history>>

Resume ==
    /\ At(Scheduler, "pause") /\ now >= wake
    /\ Goto(Scheduler, "poll")
    /\ UNCHANGED <<now, up, db, files, rows, disk, guard, wake, writers, del, history>>

---------------------------------------------------------------------------
(* perform_backup.                                                          *)

\* backups.id is INTEGER PRIMARY KEY without AUTOINCREMENT: one above the
\* highest stored id, so the id of a deleted newest row is given out again.
NextId(i) == /\ \A j \in RowIds : Stored(j) => j < i
             /\ i = 1 \/ (i > 1 /\ Stored(i - 1))

BeginRun(h) ==
    \E i \in RowIds :
        /\ NextId(i)
        /\ rows' = [rows EXCEPT ![i] = [NoRow EXCEPT !.status = "running", !.stamp = now]]
        /\ run' = [run EXCEPT ![h] = [Idle EXCEPT !.pc = "vacuum", !.row = i, !.stamp = now]]
        /\ abandoned' = abandoned \ {i}
        /\ started' = [started EXCEPT ![now] = IF @ = 0 THEN 1 ELSE 2]
        /\ guard' = h
        /\ UNCHANGED <<now, up, db, files, disk, wake, writers, del, faults>>

\* try_lock, then the INSERT of the running row.
BeginUnguarded(h) == Awake(h) /\ BeginRun(h)
Begin(h) == Awake(h) /\ guard = None /\ BeginRun(h)

\* VACUUM INTO refuses a path that exists.
Vacuum(h) ==
    /\ At(h, "vacuum")
    /\ LET s == run[h].stamp IN
       IF s \in snapshots
       THEN Goto(h, "failed") /\ UNCHANGED snapshots
       ELSE /\ snapshots' = snapshots \union {s}
            /\ run' = [run EXCEPT ![h].pc = "fingerprint", ![h].db = db]
    /\ UNCHANGED <<now, up, db, files, rows, archives, guard, wake, writers, del, history>>

\* scrub_snapshot and verify_snapshot pass; fingerprint lists the uploads.
Fingerprint(h) ==
    /\ At(h, "fingerprint")
    /\ run' = [run EXCEPT ![h].pc = "compare", ![h].files = files]
    /\ UNCHANGED <<now, up, db, files, rows, disk, guard, wake, writers, del, history>>

\* An error before the archive.  Scrubbing and a bad integrity_check remove the
\* snapshot, every other early return leaves it.
RunFails(h) ==
    /\ \/ /\ At(h, "vacuum") \/ At(h, "fingerprint")
          /\ \/ snapshots' = snapshots \union {run[h].stamp}
             \/ snapshots' = snapshots \ {run[h].stamp}
       \/ At(h, "compare") /\ UNCHANGED snapshots
    /\ Fault
    /\ Goto(h, "failed")
    /\ UNCHANGED <<now, up, db, files, rows, archives, guard, wake, writers, del, started, abandoned>>

\* last_success_hash is the fingerprint of this run.
UnchangedDb(h) ==
    \E i \in RowIds : LastFinished(i, {"success"}) /\ rows[i].db = run[h].db
UnchangedSince(h) ==
    \E i \in RowIds : /\ LastFinished(i, {"success"})
                      /\ rows[i].db = run[h].db /\ rows[i].files = run[h].files

Skip(h) ==
    /\ At(h, "compare") /\ h = Scheduler /\ UnchangedSince(h)
    /\ snapshots' = snapshots \ {run[h].stamp}
    /\ Goto(h, "skipped")
    /\ UNCHANGED <<now, up, db, files, rows, archives, guard, wake, writers, del, history>>

\* spawn_blocking(build_archive): File::create truncates the archive.
Archive(h) ==
    /\ At(h, "compare") /\ ~(h = Scheduler /\ UnchangedSince(h))
    /\ LET s == run[h].stamp IN
       /\ archives' = [archives EXCEPT ![s] = [NoFile EXCEPT !.state = "partial"]]
       /\ writers' = writers \union {[stamp |-> s, db |-> run[h].db, files |-> files]}
    /\ Goto(h, "archiving")
    /\ UNCHANGED <<now, up, db, files, rows, snapshots, guard, wake, del, history>>

\* The task tells the run that awaits it, if there still is one.
Report(w, pc) ==
    run' = [h \in Handlers |->
               IF run[h].pc = "archiving" /\ run[h].stamp = w.stamp
               THEN [run[h] EXCEPT !.pc = pc] ELSE run[h]]

\* The archive is complete, with the uploads of some moment since it started;
\* a file unlinked meanwhile stays unlinked.
WriterDone(w) ==
    /\ up
    /\ \E f \in w.files .. files :
          archives' = [archives EXCEPT ![w.stamp] =
              IF @.state = "absent" THEN @ ELSE [state |-> "whole", db |-> w.db, files |-> f]]
    /\ writers' = writers \ {w}
    /\ Report(w, "prune")
    /\ UNCHANGED <<now, up, db, files, rows, snapshots, guard, wake, del, history>>

\* build_archive returns an error and leaves what it wrote.
WriterFailsAs(w, pc) ==
    /\ up /\ Fault
    /\ writers' = writers \ {w}
    /\ Report(w, pc)
    /\ UNCHANGED <<now, up, db, files, rows, disk, guard, wake, del, started, abandoned>>
WriterFailsUnnoticed(w) == WriterFailsAs(w, "prune")
WriterFails(w) == WriterFailsAs(w, "failed")

Newer(s) == {t \in Stamps : t > s /\ archives[t].state # "absent"}

\* The snapshot goes; prune_old_archives keeps the newest Keep by name, whole
\* or not, recorded or not.
PruneOffByOne(h) ==
    /\ At(h, "prune")
    /\ snapshots' = snapshots \ {run[h].stamp}
    /\ archives' = [s \in Stamps |-> IF Cardinality(Newer(s)) >= Keep - 1 THEN NoFile ELSE archives[s]]
    /\ Goto(h, "success")
    /\ UNCHANGED <<now, up, db, files, rows, guard, wake, writers, del, history>>
Prune(h) ==
    /\ At(h, "prune")
    /\ snapshots' = snapshots \ {run[h].stamp}
    /\ archives' = [s \in Stamps |-> IF Cardinality(Newer(s)) >= Keep THEN NoFile ELSE archives[s]]
    /\ Goto(h, "success")
    /\ UNCHANGED <<now, up, db, files, rows, guard, wake, writers, del, history>>

\* UPDATE backups SET status = .. WHERE id = ?: nothing if the row is gone.
Record(h) ==
    /\ up /\ run[h].pc \in {"success", "skipped", "failed"}
    /\ LET i == run[h].row IN
       rows' = [rows EXCEPT ![i] =
                   IF ~Stored(i) THEN @
                   ELSE IF run[h].pc = "failed"
                   THEN [@ EXCEPT !.status = "failed", !.finished = now]
                   ELSE [@ EXCEPT !.status = run[h].pc, !.finished = now,
                                  !.db = run[h].db, !.files = run[h].files]]
    /\ Release(h)
    /\ UNCHANGED <<now, up, db, files, disk, writers, del, history>>

\* The UPDATE fails: the guard is dropped and the row stays running.
RecordFails(h) ==
    /\ up /\ run[h].pc \in {"success", "skipped", "failed"}
    /\ Fault
    /\ Release(h)
    /\ abandoned' = abandoned \union {run[h].row}
    /\ UNCHANGED <<now, up, db, files, rows, disk, writers, del, started>>

InRun(h) == run[h].row # 0

\* The connection of a manual run is dropped at one of its awaits.  A VACUUM
\* INTO already handed to SQLite may still complete.
Cancel(h) ==
    /\ up /\ h \in Manuals /\ InRun(h)
    /\ Fault
    /\ \/ UNCHANGED snapshots
       \/ run[h].pc = "vacuum" /\ snapshots' = snapshots \union {run[h].stamp}
    /\ Release(h)
    /\ abandoned' = abandoned \union {run[h].row}
    /\ UNCHANGED <<now, up, db, files, rows, archives, writers, del, started>>

---------------------------------------------------------------------------
(* delete_backup: read the row, remove the file, delete the row.            *)

DeleteRead(d, i) ==
    /\ up /\ del[d].pc = "idle" /\ Stored(i)
    /\ rows[i].status # "running"
    /\ del' = [del EXCEPT ![d] = [pc |-> "unlink", row |-> i,
                                  file |-> IF Success(i) THEN rows[i].stamp ELSE None]]
    /\ UNCHANGED <<now, up, db, files, rows, disk, guard, run, wake, writers, history>>

DeleteFile(d) ==
    /\ up /\ del[d].pc = "unlink"
    /\ archives' = [s \in Stamps |-> IF s = del[d].file THEN NoFile ELSE archives[s]]
    /\ del' = [del EXCEPT ![d].pc = "row"]
    /\ UNCHANGED <<now, up, db, files, rows, snapshots, guard, run, wake, writers, history>>

DeleteRow(d) ==
    /\ up /\ del[d].pc = "row"
    /\ rows' = [rows EXCEPT ![del[d].row] = NoRow]
    /\ del' = [del EXCEPT ![d] = NoDelete]
    /\ UNCHANGED <<now, up, db, files, disk, guard, run, wake, writers, history>>

\* The DELETE fails or the connection is dropped.
DeleteStops(d) ==
    /\ up /\ del[d].pc # "idle"
    /\ Fault
    /\ del' = [del EXCEPT ![d] = NoDelete]
    /\ UNCHANGED <<now, up, db, files, rows, disk, guard, run, wake, writers, started, abandoned>>

---------------------------------------------------------------------------
(* The process and its surroundings.                                        *)

Crash ==
    /\ up /\ Fault
    /\ up' = FALSE
    /\ guard' = None
    /\ run' = [h \in Handlers |-> Idle]
    /\ writers' = {}
    /\ del' = [d \in Deleters |-> NoDelete]
    /\ UNCHANGED <<now, db, files, rows, disk, wake, started, abandoned>>

\* reset_stale_running, then the scheduler's task.
Restarted ==
    /\ ~up
    /\ up' = TRUE
    /\ run' = [run EXCEPT ![Scheduler].pc = "poll"]
    /\ abandoned' = {}
    /\ UNCHANGED <<now, db, files, disk, guard, wake, writers, del, started, faults>>
RestartOnly == Restarted /\ UNCHANGED rows
Restart ==
    /\ Restarted
    /\ rows' = [i \in RowIds |-> IF rows[i].status = "running"
                                 THEN [rows[i] EXCEPT !.status = "failed", !.finished = now]
                                 ELSE rows[i]]

Environment == UNCHANGED <<up, rows, disk, guard, run, wake, writers, del, history>>
ChangeRows == db < MaxVersion /\ db' = db + 1 /\ UNCHANGED <<now, files>> /\ Environment
ChangeUploads == files < MaxVersion /\ files' = files + 1 /\ UNCHANGED <<now, db>> /\ Environment
Tick == now < MaxNow /\ now' = now + 1 /\ UNCHANGED <<db, files>> /\ Environment

\* The bounded clock or table is used up: what follows is not explored.
Spent == now = MaxNow \/ Stored(MaxRow)
Stop == Spent /\ UNCHANGED vars

---------------------------------------------------------------------------
RunStep(h) ==
    \/ Vacuum(h) \/ Fingerprint(h) \/ Skip(h) \/ Archive(h) \/ Prune(h) \/ Record(h)
RunError(h) == RunFails(h) \/ RecordFails(h) \/ Cancel(h)
WriterStep == \E w \in writers : WriterDone(w) \/ WriterFails(w)
SchedulerStep == Poll \/ SchedulerBusy \/ Resume
Delete(d) ==
    \/ \E i \in RowIds : DeleteRead(d, i)
    \/ DeleteFile(d) \/ DeleteRow(d) \/ DeleteStops(d)

Next ==
    \/ \E h \in Handlers : Begin(h) \/ RunStep(h) \/ RunError(h)
    \/ WriterStep
    \/ SchedulerStep
    \/ \E d \in Deleters : Delete(d)
    \/ Crash \/ Restart
    \/ ChangeRows \/ ChangeUploads \/ Tick
    \/ Stop

Spec == Init /\ [][Next]_vars

\* A spawned task and a request being served are polled until they finish,
\* the archive task has a thread of its own, the process is restarted by its
\* container, and time passes.  Nobody has to ask for a backup.
Fairness ==
    /\ \A h \in Handlers : WF_vars(RunStep(h))
    /\ WF_vars(WriterStep)
    /\ WF_vars(SchedulerStep) /\ WF_vars(Begin(Scheduler))
    /\ WF_vars(Restart)
    /\ WF_vars(Tick)

---------------------------------------------------------------------------
(* Properties.                                                              *)

PCs == {"idle", "poll", "due", "pause", "vacuum", "fingerprint", "compare", "archiving",
        "prune", "success", "skipped", "failed"}
RowType == [status : {"none", "running", "success", "skipped", "failed"},
            stamp : Stamps, finished : Nat, db : Nat, files : Nat]
FileType == [state : {"absent", "partial", "whole"}, db : Nat, files : Nat]
RunType == [pc : PCs, row : 0 .. MaxRow, stamp : Stamps, db : Nat, files : Nat]
DelType == [pc : {"idle", "unlink", "row"}, row : 0 .. MaxRow, file : Stamps \union {None}]

\* The history table, the disk and the handlers have their types.
TypeOK ==
    /\ now \in Stamps /\ up \in BOOLEAN
    /\ {db, files, wake, faults} \subseteq Nat
    /\ rows \in [RowIds -> RowType]
    /\ archives \in [Stamps -> FileType]
    /\ snapshots \subseteq Stamps
    /\ guard \in Handlers \union {None}
    /\ run \in [Handlers -> RunType]
    /\ writers \subseteq [stamp : Stamps, db : Nat, files : Nat]
    /\ del \in [Deleters -> DelType]
    /\ started \in [Stamps -> 0 .. 2]
    /\ abandoned \subseteq RowIds

\* perform_backup never runs twice at once, whoever asks: every handler inside
\* it holds the guard.
RunsAreSerial == \A h \in Handlers : InRun(h) => guard = h

\* A running row belongs to a run in progress, or its run stopped since the
\* process started: no running row outlives a restart.
RunningIsThisProcess ==
    up => \A i \in RowIds : rows[i].status = "running" =>
              i \in abandoned \/ \E h \in Handlers : run[h].row = i

Spaced == \A s \in Stamps : started[s] <= 1

\* A backup listed as successful is never torn: while no two runs start in one
\* second, its archive is whole, with the database and the uploads its
\* fingerprint describes (or newer uploads), or it is gone.
SuccessIsWhole ==
    Spaced => \A i \in RowIds : Success(i) =>
        LET a == archives[rows[i].stamp] IN
        \/ a.state = "absent"
        \/ a.state = "whole" /\ a.db = rows[i].db /\ a.files >= rows[i].files

\* Retention never takes the last restore point: unless an admin deletes it,
\* a whole archive at least as new as every successful backup is on disk, even
\* when the process dies between the pruning and the recording of a run.
RestorePointRemains ==
    Spaced => \A i \in RowIds : Success(i) =>
        \E s \in Stamps : s >= rows[i].stamp /\ Whole(s) /\ archives[s].db >= rows[i].db

Saved(h) == \E s \in Stamps : Whole(s) /\ archives[s].db = run[h].db
                                       /\ archives[s].files = run[h].files
Deleting == \E d \in Deleters : del[d].pc # "idle"

\* A step that skips a run leaves nothing unsaved: when it decides that nothing changed
\* (and nobody is deleting), an archive with exactly the database and the uploads
\* it saw is on disk.
SkipCovered ==
    \A h \in Handlers :
        Spaced /\ ~Deleting /\ run[h].pc = "compare" /\ run'[h].pc = "skipped" => Saved(h)

=============================================================================
