---------------------------- MODULE MCBackupRuns ----------------------------
(* Instances of BackupRuns for TLC; handlers and requests are model values.  *)
(* In some histories, of a shorter clock, an admin may delete backups; in    *)
(* the others nobody does.                                                   *)
EXTENDS BackupRuns, TLC

VARIABLE deleting

MCInit == Init /\ deleting \in BOOLEAN

MCNext ==
    /\ UNCHANGED deleting
    /\ Next
    /\ IF deleting THEN now' <= 1 ELSE UNCHANGED del

MCSpec == MCInit /\ [][MCNext]_<<vars, deleting>> /\ Fairness

\* Where nobody deletes a backup: retention never takes the last restore point.
RestorePointKept == ~deleting => RestorePointRemains

\* Where nobody deletes a backup: a run that is skipped because nothing changed
\* finds all of it in an archive on disk.
SkipsAreCovered == [][~deleting => SkipCovered]_vars

\* Where nobody deletes a backup: whoever takes the guard gives it back ...
RunsEnd == ~deleting /\ guard # None ~> guard = None

\* ... and the scheduler polls again, unless its timer is past the bounded clock
\* or no row is left.
SchedulerSurvives ==
    ~deleting /\ run[Scheduler].pc # "poll" ~>
        run[Scheduler].pc = "poll" \/ wake > MaxNow \/ Stored(MaxRow)

BackupsGoOn == RunsEnd /\ SchedulerSurvives
=============================================================================
