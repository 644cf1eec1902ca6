-------------------------- MODULE BackupRuns_proofs --------------------------
(***************************************************************************)
(* For any number of manual and delete requests, any retention and any     *)
(* bound: the types, that runs are serial, that a running row is never     *)
(* older than the process, that a success is whole; and where nobody       *)
(* deletes, that retention keeps a restore point and a skip is covered.    *)
(* Serial runs need to know which control points are inside                *)
(* perform_backup, and that a process that is down runs none.  The two     *)
(* later parts say what they need on top of that.                          *)
(***************************************************************************)
EXTENDS MCBackupRuns, FiniteSetTheorems, TLAPS

Working == {"vacuum", "fingerprint", "compare", "archiving", "prune", "success",
            "skipped", "failed"}

HandlersInStep ==
    \A h \in Handlers :
        /\ run[h].pc \in Working <=> run[h].row # 0
        /\ ~up => run[h].pc = "idle"

Serial == TypeOK /\ HandlersInStep /\ RunsAreSerial
IInv == Serial /\ RunningIsThisProcess

\* The constants have the ranges the arithmetic on rows and stamps needs.
LEMMA Ranges ==
    /\ MaxRow \in Nat /\ MaxNow \in Nat /\ MaxFaults \in Nat
    /\ Interval \in Nat /\ MinPoll \in Nat /\ MaxVersion \in Nat /\ Keep \in Nat
    /\ Scheduler \in Handlers /\ Manuals \subseteq Handlers
    /\ None \notin Handlers
BY BoundAssumption, KeepAssumption, HandlerAssumption DEF Handlers

\* The initial state has the types.
LEMMA InitTypes == Init => TypeOK
<1> SUFFICES ASSUME Init PROVE TypeOK
  OBVIOUS
<1> USE Ranges
<1>1. rows \in [RowIds -> RowType]
  BY SMT DEF Init, NoRow, RowType, Stamps
<1>2. archives \in [Stamps -> FileType]
  BY SMT DEF Init, NoFile, FileType
<1>3. run \in [Handlers -> RunType]
  BY SMT DEF Init, Idle, RunType, PCs, Stamps
<1>4. del \in [Deleters -> DelType]
  BY SMT DEF Init, NoDelete, DelType, Stamps
<1>5. started \in [Stamps -> 0 .. 2]
  BY SMT DEF Init, Stamps
<1>6. /\ now \in Stamps /\ up \in BOOLEAN /\ {db, files, wake, faults} \subseteq Nat
      /\ snapshots \subseteq Stamps /\ guard \in Handlers \union {None}
      /\ writers \subseteq [stamp : Stamps, db : Nat, files : Nat]
      /\ abandoned \subseteq RowIds
  BY SMT DEF Init, Stamps
<1> QED
  BY <1>1, <1>2, <1>3, <1>4, <1>5, <1>6 DEF TypeOK

\* Changing one handler's record keeps the type of the others.
LEMMA HandlerType ==
    ASSUME TypeOK, NEW h \in Handlers, NEW q \in RunType, run' = [run EXCEPT ![h] = q]
    PROVE  run' \in [Handlers -> RunType]
BY DEF TypeOK

\* Moving a handler to another control point keeps its type.
LEMMA GotoType ==
    ASSUME TypeOK, NEW h \in Handlers, NEW pc \in PCs, Goto(h, pc)
    PROVE  run' \in [Handlers -> RunType]
BY SMT DEF TypeOK, Goto, RunType

\* Dropping the guard keeps the types.
LEMMA ReleaseType ==
    ASSUME TypeOK, NEW h \in Handlers, Release(h)
    PROVE  /\ run' \in [Handlers -> RunType]
           /\ guard' \in Handlers \union {None}
           /\ wake' \in Nat
<1>1. Idle \in RunType /\ [Idle EXCEPT !.pc = "pause"] \in RunType
  BY Ranges, SMT DEF Idle, RunType, PCs, Stamps
<1>2. run' \in [Handlers -> RunType]
  BY <1>1, HandlerType DEF Release
<1>3. wake \in Nat /\ now \in Nat
  BY Ranges DEF TypeOK, Stamps
<1>4. wake' \in Nat
  BY <1>3, Ranges, SMT DEF Release
<1> QED
  BY <1>2, <1>4 DEF Release

\* Each group of steps keeps the types.
LEMMA BeginTypes ==
    ASSUME TypeOK, NEW h \in Handlers, Begin(h)
    PROVE  TypeOK'
<1> USE Ranges
<1>1. PICK i \in RowIds :
         /\ rows' = [rows EXCEPT ![i] = [NoRow EXCEPT !.status = "running", !.stamp = now]]
         /\ run' = [run EXCEPT ![h] = [Idle EXCEPT !.pc = "vacuum", !.row = i, !.stamp = now]]
         /\ abandoned' = abandoned \ {i}
         /\ started' = [started EXCEPT ![now] = IF @ = 0 THEN 1 ELSE 2]
         /\ guard' = h
         /\ UNCHANGED <<now, up, db, files, disk, wake, writers, del, faults>>
  BY DEF Begin, BeginRun
<1>2. now \in Stamps
  BY DEF TypeOK
<1>3. [NoRow EXCEPT !.status = "running", !.stamp = now] \in RowType
  <2>1. NoRow \in RowType
    BY SMT DEF NoRow, RowType, Stamps
  <2> QED
    BY <1>2, <2>1, Zenon DEF RowType
<1>4. [Idle EXCEPT !.pc = "vacuum", !.row = i, !.stamp = now] \in RunType
  <2>1. Idle \in RunType /\ i \in 0 .. MaxRow /\ "vacuum" \in PCs
    BY SMT DEF Idle, RunType, PCs, Stamps, RowIds
  <2> QED
    BY <1>2, <2>1, Zenon DEF RunType
<1>5. rows' \in [RowIds -> RowType]
  BY <1>1, <1>3 DEF TypeOK
<1>6. run' \in [Handlers -> RunType]
  BY <1>1, <1>4, HandlerType
<1>7. started' \in [Stamps -> 0 .. 2]
  BY <1>1, SMT DEF TypeOK
<1> QED
  BY <1>1, <1>5, <1>6, <1>7 DEF TypeOK, disk

LEMMA RunStepTypes ==
    ASSUME TypeOK, NEW h \in Handlers, RunStep(h)
    PROVE  TypeOK'
<1> USE Ranges
<1>0. run[h] \in RunType /\ run[h].stamp \in Stamps
  BY DEF TypeOK, RunType
<1>1. CASE Vacuum(h)
  <2>1. CASE Goto(h, "failed") /\ UNCHANGED snapshots
    <3>1. run' \in [Handlers -> RunType]
      BY <2>1, GotoType DEF PCs
    <3> QED
      BY <1>1, <2>1, <3>1 DEF Vacuum, TypeOK, history
  <2>2. CASE /\ snapshots' = snapshots \union {run[h].stamp}
             /\ run' = [run EXCEPT ![h].pc = "fingerprint", ![h].db = db]
    <3>1. run' = [run EXCEPT ![h] = [run[h] EXCEPT !.pc = "fingerprint", !.db = db]]
      BY <2>2, Zenon
    <3>2. "fingerprint" \in PCs /\ db \in Nat
      BY DEF PCs, TypeOK
    <3>3. [run[h] EXCEPT !.pc = "fingerprint", !.db = db] \in RunType
      BY <1>0, <3>2, Zenon DEF RunType
    <3>4. run' \in [Handlers -> RunType]
      BY <3>1, <3>3, HandlerType
    <3> QED
      BY <1>0, <1>1, <2>2, <3>4 DEF Vacuum, TypeOK, history
  <2> QED
    BY <1>1, <2>1, <2>2 DEF Vacuum
<1>2. CASE Fingerprint(h)
  <2>1. run' = [run EXCEPT ![h] = [run[h] EXCEPT !.pc = "compare", !.files = files]]
    BY <1>2, Zenon DEF Fingerprint
  <2>2. "compare" \in PCs /\ files \in Nat
    BY DEF PCs, TypeOK
  <2>3. [run[h] EXCEPT !.pc = "compare", !.files = files] \in RunType
    BY <1>0, <2>2, Zenon DEF RunType
  <2>4. run' \in [Handlers -> RunType]
    BY <2>1, <2>3, HandlerType
  <2> QED
    BY <1>2, <2>4 DEF Fingerprint, TypeOK, disk, history
<1>3. CASE Skip(h)
  <2>1. run' \in [Handlers -> RunType]
    BY <1>3, GotoType DEF Skip, PCs
  <2> QED
    BY <1>3, <2>1 DEF Skip, TypeOK, history
<1>4. CASE Archive(h)
  <2>1. run' \in [Handlers -> RunType]
    BY <1>4, GotoType DEF Archive, PCs
  <2>2. archives' \in [Stamps -> FileType]
    <3>1. NoFile \in FileType /\ "partial" \in {"absent", "partial", "whole"}
      BY SMT DEF NoFile, FileType
    <3>2. [NoFile EXCEPT !.state = "partial"] \in FileType
      BY <3>1, Zenon DEF FileType
    <3> QED
      BY <1>4, <3>2 DEF Archive, TypeOK
  <2>3. [stamp |-> run[h].stamp, db |-> run[h].db, files |-> files]
           \in [stamp : Stamps, db : Nat, files : Nat]
    BY <1>0, SMT DEF TypeOK, RunType
  <2>4. writers' \subseteq [stamp : Stamps, db : Nat, files : Nat]
    BY <1>4, <2>3 DEF Archive, TypeOK
  <2> QED
    BY <1>4, <2>1, <2>2, <2>4 DEF Archive, TypeOK, history
<1>5. CASE Prune(h)
  <2>1. run' \in [Handlers -> RunType]
    BY <1>5, GotoType DEF Prune, PCs
  <2>2. NoFile \in FileType
    BY SMT DEF NoFile, FileType
  <2>3. archives' \in [Stamps -> FileType]
    BY <1>5, <2>2 DEF Prune, TypeOK
  <2> QED
    BY <1>5, <2>1, <2>3 DEF Prune, TypeOK, history
<1>6. CASE Record(h)
  <2>1. now \in Nat
    BY DEF TypeOK, Stamps
  <2>2. rows' \in [RowIds -> RowType]
    <3> DEFINE i == run[h].row
    <3>1. ASSUME i \in RowIds
          PROVE  /\ rows[i] \in RowType
                 /\ [rows[i] EXCEPT !.status = "failed", !.finished = now] \in RowType
                 /\ run[h].pc # "failed" =>
                       [rows[i] EXCEPT !.status = run[h].pc, !.finished = now,
                                       !.db = run[h].db, !.files = run[h].files] \in RowType
      <4>1. /\ rows[i] \in RowType /\ run[h].db \in Nat /\ run[h].files \in Nat
            /\ "failed" \in {"none", "running", "success", "skipped", "failed"}
            /\ run[h].pc # "failed" =>
                 run[h].pc \in {"none", "running", "success", "skipped", "failed"}
        BY <1>0, <1>6, <3>1 DEF TypeOK, RunType, Record
      <4> QED
        BY <2>1, <4>1, Zenon DEF RowType
    <3>2. CASE i \in RowIds
      BY <1>6, <3>1, <3>2 DEF Record, TypeOK
    <3>3. CASE i \notin RowIds
      BY <1>6, <3>3 DEF Record, TypeOK
    <3> QED
      BY <3>2, <3>3
  <2> QED
    BY <1>6, <2>2, ReleaseType DEF Record, TypeOK, disk, history
<1> QED
  BY <1>1, <1>2, <1>3, <1>4, <1>5, <1>6 DEF RunStep

LEMMA RunErrorTypes ==
    ASSUME TypeOK, HandlersInStep, NEW h \in Handlers, RunError(h)
    PROVE  TypeOK'
<1> USE Ranges
<1>0. run[h] \in RunType /\ run[h].stamp \in Stamps
  BY DEF TypeOK, RunType
<1>1. CASE RunFails(h)
  <2>1. run' \in [Handlers -> RunType]
    BY <1>1, GotoType DEF RunFails, PCs
  <2>2. snapshots' \subseteq Stamps /\ faults' \in Nat
    BY <1>0, <1>1 DEF RunFails, Fault, TypeOK
  <2> QED
    BY <1>1, <2>1, <2>2 DEF RunFails, TypeOK
<1>2. CASE RecordFails(h)
  <2>1. run[h].row \in RowIds
    BY <1>0, <1>2, SMT DEF RecordFails, HandlersInStep, Working, RunType, RowIds
  <2>2. abandoned' \subseteq RowIds /\ faults' \in Nat
    BY <1>2, <2>1 DEF RecordFails, Fault, TypeOK
  <2> QED
    BY <1>2, <2>2, ReleaseType DEF RecordFails, TypeOK, disk
<1>3. CASE Cancel(h)
  <2>1. run[h].row \in RowIds
    BY <1>0, <1>3, SMT DEF Cancel, InRun, RunType, RowIds
  <2>2. abandoned' \subseteq RowIds /\ faults' \in Nat /\ snapshots' \subseteq Stamps
    BY <1>0, <1>3, <2>1 DEF Cancel, Fault, TypeOK
  <2> QED
    BY <1>3, <2>2, ReleaseType DEF Cancel, TypeOK
<1> QED
  BY <1>1, <1>2, <1>3 DEF RunError

LEMMA ReportType ==
    ASSUME TypeOK, NEW w, NEW pc \in PCs, Report(w, pc)
    PROVE  run' \in [Handlers -> RunType]
BY SMT DEF TypeOK, Report, RunType

LEMMA WriterTypes ==
    ASSUME TypeOK, WriterStep
    PROVE  TypeOK'
<1>1. PICK w \in writers : WriterDone(w) \/ WriterFails(w)
  BY DEF WriterStep
<1>2. w \in [stamp : Stamps, db : Nat, files : Nat]
  BY <1>1 DEF TypeOK
<1>3. CASE WriterDone(w)
  <2>1. PICK f \in w.files .. files :
           archives' = [archives EXCEPT ![w.stamp] =
              IF @.state = "absent" THEN @ ELSE [state |-> "whole", db |-> w.db, files |-> f]]
    BY <1>3 DEF WriterDone
  <2>2. f \in Nat /\ w.db \in Nat
    BY <1>2, SMT DEF TypeOK
  <2>3. [state |-> "whole", db |-> w.db, files |-> f] \in FileType
    BY <2>2, SMT DEF FileType
  <2>4. archives' \in [Stamps -> FileType]
    BY <2>1, <2>3 DEF TypeOK
  <2>5. run' \in [Handlers -> RunType]
    BY <1>3, ReportType DEF WriterDone, PCs
  <2> QED
    BY <1>3, <2>4, <2>5 DEF WriterDone, TypeOK, history
<1>4. CASE WriterFails(w)
  <2>1. run' \in [Handlers -> RunType]
    BY <1>4, ReportType DEF WriterFails, WriterFailsAs, PCs
  <2> QED
    BY <1>4, <2>1, Ranges DEF WriterFails, WriterFailsAs, Fault, TypeOK, disk
<1> QED
  BY <1>1, <1>3, <1>4

LEMMA SchedulerTypes ==
    ASSUME TypeOK, SchedulerStep
    PROVE  TypeOK'
<1> USE Ranges
<1>0. now \in Nat
  BY DEF TypeOK, Stamps
<1>1. CASE Poll
  <2>1. wake' \in Nat
    <3>1. ASSUME NEW i \in RowIds
          PROVE  SecondsUntilDue(i) \in Nat
      <4>1. rows[i].finished \in Nat
        BY DEF TypeOK, RowType
      <4> QED
        BY <1>0, <4>1, SMT DEF SecondsUntilDue
    <3> QED
      BY <1>0, <1>1, <3>1, SMT DEF Poll
  <2>2. run' \in [Handlers -> RunType]
    BY <1>1, GotoType DEF Poll, PCs
  <2> QED
    BY <1>1, <2>1, <2>2 DEF Poll, TypeOK, disk, history
<1>2. CASE SchedulerBusy
  <2>1. run' \in [Handlers -> RunType]
    BY <1>2, GotoType DEF SchedulerBusy, PCs
  <2>2. wake' \in Nat
    BY <1>0, <1>2, SMT DEF SchedulerBusy
  <2> QED
    BY <1>2, <2>1, <2>2 DEF SchedulerBusy, TypeOK, disk, history
<1>3. CASE Resume
  <2>1. run' \in [Handlers -> RunType]
    BY <1>3, GotoType DEF Resume, PCs
  <2> QED
    BY <1>3, <2>1 DEF Resume, TypeOK, disk, history
<1> QED
  BY <1>1, <1>2, <1>3 DEF SchedulerStep

LEMMA DeleteTypes ==
    ASSUME TypeOK, NEW d \in Deleters, Delete(d)
    PROVE  TypeOK'
<1> USE Ranges
<1>1. ASSUME NEW i \in RowIds, DeleteRead(d, i)
      PROVE  TypeOK'
  <2>1. [pc |-> "unlink", row |-> i, file |-> IF Success(i) THEN rows[i].stamp ELSE None] \in DelType
    BY SMT DEF DelType, TypeOK, RowType, RowIds
  <2> QED
    BY <1>1, <2>1 DEF DeleteRead, TypeOK, disk, history
<1>2. CASE DeleteFile(d)
  <2>1. NoFile \in FileType
    BY SMT DEF NoFile, FileType
  <2>2. archives' \in [Stamps -> FileType]
    BY <1>2, <2>1 DEF DeleteFile, TypeOK
  <2>3. del' \in [Deleters -> DelType]
    BY <1>2, SMT DEF DeleteFile, TypeOK, DelType
  <2> QED
    BY <1>2, <2>2, <2>3 DEF DeleteFile, TypeOK, history
<1>3. NoDelete \in DelType
  BY SMT DEF NoDelete, DelType
<1>4. CASE DeleteRow(d)
  <2>1. NoRow \in RowType
    BY SMT DEF NoRow, RowType, Stamps
  <2> QED
    BY <1>3, <1>4, <2>1 DEF DeleteRow, TypeOK, disk, history
<1>5. CASE DeleteStops(d)
  BY <1>3, <1>5 DEF DeleteStops, Fault, TypeOK, disk
<1> QED
  BY <1>1, <1>2, <1>4, <1>5 DEF Delete

LEMMA ProcessTypes ==
    ASSUME TypeOK, Crash \/ Restart \/ ChangeRows \/ ChangeUploads \/ Tick
    PROVE  TypeOK'
<1> USE Ranges
<1>1. CASE Crash
  <2>1. Idle \in RunType /\ NoDelete \in DelType
    BY SMT DEF Idle, RunType, PCs, Stamps, NoDelete, DelType
  <2>2. run' \in [Handlers -> RunType] /\ del' \in [Deleters -> DelType]
    BY <1>1, <2>1 DEF Crash
  <2>3. guard' \in Handlers \union {None} /\ up' \in BOOLEAN /\ writers' = {}
    BY <1>1 DEF Crash
  <2>4. {db', files', wake', faults'} \subseteq Nat
    BY <1>1, SMT DEF Crash, Fault, TypeOK
  <2> QED
    BY <1>1, <2>2, <2>3, <2>4 DEF Crash, TypeOK, disk
<1>2. CASE Restart
  <2>1. now \in Nat
    BY DEF TypeOK, Stamps
  <2>2. rows' \in [RowIds -> RowType]
    <3>1. ASSUME NEW i \in RowIds
          PROVE  [rows[i] EXCEPT !.status = "failed", !.finished = now] \in RowType
      <4>1. rows[i] \in RowType /\ "failed" \in {"none", "running", "success", "skipped", "failed"}
        BY DEF TypeOK
      <4> QED
        BY <2>1, <4>1, Zenon DEF RowType
    <3> QED
      BY <1>2, <3>1 DEF Restart, TypeOK
  <2>3. run' \in [Handlers -> RunType]
    BY <1>2, GotoType DEF Restart, Restarted, Goto, PCs
  <2> QED
    BY <1>2, <2>2, <2>3 DEF Restart, Restarted, TypeOK, disk
<1>3. CASE ChangeRows
  BY <1>3 DEF ChangeRows, Environment, TypeOK, disk, history
<1>4. CASE ChangeUploads
  BY <1>4 DEF ChangeUploads, Environment, TypeOK, disk, history
<1>5. CASE Tick
  BY <1>5, SMT DEF Tick, Environment, TypeOK, Stamps, disk, history
<1> QED
  BY <1>1, <1>2, <1>3, <1>4, <1>5

\* Every step keeps the types.
LEMMA NextTypes ==
    ASSUME TypeOK, HandlersInStep, Next
    PROVE  TypeOK'
<1>1. CASE Stop
  BY <1>1 DEF Stop, vars, TypeOK
<1> QED
  BY <1>1, BeginTypes, RunStepTypes, RunErrorTypes, WriterTypes, SchedulerTypes,
     DeleteTypes, ProcessTypes DEF Next

---------------------------------------------------------------------------
\* A step that leaves every handler inside its run, or outside of it, and the
\* guard alone, keeps the runs serial.
LEMMA SerialKept ==
    ASSUME HandlersInStep, RunsAreSerial, UNCHANGED <<up, guard>>,
           \A h \in Handlers : /\ run'[h].row = run[h].row
                               /\ run'[h].pc \in Working <=> run[h].pc \in Working
                               /\ ~up => run'[h].pc = "idle"
    PROVE  HandlersInStep' /\ RunsAreSerial'
BY DEF HandlersInStep, RunsAreSerial, InRun

\* A handler that moves from one point of its run to the next.
LEMMA SerialGoto ==
    ASSUME Serial, up, UNCHANGED <<up, guard>>,
           NEW h \in Handlers, NEW pc, Goto(h, pc),
           pc \in Working <=> run[h].pc \in Working
    PROVE  HandlersInStep' /\ RunsAreSerial'
<1>1. \A g \in Handlers : run[g] \in RunType
  BY DEF Serial, TypeOK
<1>2. \A g \in Handlers : run'[g] = IF g = h THEN [run[g] EXCEPT !.pc = pc] ELSE run[g]
  BY DEF Goto, Serial, TypeOK
<1>3. \A g \in Handlers : /\ run'[g].row = run[g].row
                          /\ run'[g].pc \in Working <=> run[g].pc \in Working
  BY <1>1, <1>2 DEF RunType
<1> QED
  BY <1>3, SerialKept DEF Serial

\* The end of a run gives the guard back.
LEMMA SerialRelease ==
    ASSUME Serial, up, UNCHANGED up, NEW h \in Handlers, InRun(h), Release(h)
    PROVE  HandlersInStep' /\ RunsAreSerial'
<1>1. \A g \in Handlers : g # h => run'[g] = run[g] /\ run[g].row = 0
  BY Ranges DEF Release, Serial, TypeOK, RunsAreSerial, InRun
<1>2. run'[h].row = 0 /\ run'[h].pc \notin Working
  BY SMT DEF Release, Serial, TypeOK, Idle, Working
<1> QED
  BY <1>1, <1>2, SMT DEF Serial, HandlersInStep, RunsAreSerial, InRun

\* A step that touches neither the handlers nor the guard nor the process.
LEMMA SerialQuiet ==
    ASSUME Serial, UNCHANGED <<up, guard, run>>
    PROVE  HandlersInStep' /\ RunsAreSerial'
BY DEF Serial, HandlersInStep, RunsAreSerial, InRun

LEMMA BeginSerial ==
    ASSUME Serial, NEW h \in Handlers, Begin(h)
    PROVE  HandlersInStep' /\ RunsAreSerial'
<1>1. PICK i \in RowIds :
         /\ run' = [run EXCEPT ![h] = [Idle EXCEPT !.pc = "vacuum", !.row = i, !.stamp = now]]
         /\ guard' = h /\ up' = up
  BY DEF Begin, BeginRun
<1>2. up /\ guard = None
  BY DEF Begin, Awake, At
<1>3. \A g \in Handlers : run[g].row = 0
  BY <1>2, Ranges DEF Serial, RunsAreSerial, InRun
<1>4. \A g \in Handlers : g # h => run'[g] = run[g]
  BY <1>1 DEF Serial, TypeOK
<1>5. run'[h].row = i /\ run'[h].pc = "vacuum" /\ i # 0
  <2>1. [Idle EXCEPT !.pc = "vacuum", !.row = i, !.stamp = now].row = i
    BY Zenon DEF Idle
  <2>2. [Idle EXCEPT !.pc = "vacuum", !.row = i, !.stamp = now].pc = "vacuum"
    BY Zenon DEF Idle
  <2>3. run'[h] = [Idle EXCEPT !.pc = "vacuum", !.row = i, !.stamp = now]
    BY <1>1, Zenon DEF Serial, TypeOK
  <2>4. i # 0
    BY Ranges, SMT DEF RowIds
  <2> QED
    BY <2>1, <2>2, <2>3, <2>4
<1> QED
  BY <1>1, <1>2, <1>3, <1>4, <1>5 DEF Serial, HandlersInStep, RunsAreSerial, InRun, Working

LEMMA RunSerial ==
    ASSUME Serial, NEW h \in Handlers, RunStep(h) \/ RunError(h)
    PROVE  HandlersInStep' /\ RunsAreSerial'
<1>1. CASE Vacuum(h)
  <2>1. CASE Goto(h, "failed")
    BY <1>1, <2>1, SerialGoto DEF Vacuum, At, Working
  <2>2. CASE run' = [run EXCEPT ![h].pc = "fingerprint", ![h].db = db]
    <3>1. /\ \A g \in Handlers : g # h => run'[g] = run[g]
          /\ run'[h].row = run[h].row /\ run'[h].pc = "fingerprint"
      BY <2>2, Zenon DEF Serial, TypeOK, RunType
    <3> QED
      BY <1>1, <3>1, SerialKept DEF Vacuum, At, Serial, HandlersInStep, Working
  <2> QED
    BY <1>1, <2>1, <2>2 DEF Vacuum
<1>2. CASE Fingerprint(h)
  <2>1. /\ \A g \in Handlers : g # h => run'[g] = run[g]
        /\ run'[h].row = run[h].row /\ run'[h].pc = "compare"
    BY <1>2, Zenon DEF Fingerprint, Serial, TypeOK, RunType
  <2> QED
    BY <1>2, <2>1, SerialKept DEF Fingerprint, At, Serial, HandlersInStep, Working
<1>3. CASE Skip(h)
  BY <1>3, SerialGoto DEF Skip, At, Working
<1>4. CASE Archive(h)
  BY <1>4, SerialGoto DEF Archive, At, Working
<1>5. CASE Prune(h)
  BY <1>5, SerialGoto DEF Prune, At, Working
<1>6. CASE RunFails(h)
  BY <1>6, SerialGoto DEF RunFails, At, Working
<1>7. CASE Record(h) \/ RecordFails(h)
  BY <1>7, SerialRelease DEF Record, RecordFails, Serial, HandlersInStep, InRun, Working
<1>8. CASE Cancel(h)
  BY <1>8, SerialRelease DEF Cancel
<1> QED
  BY <1>1, <1>2, <1>3, <1>4, <1>5, <1>6, <1>7, <1>8 DEF RunStep, RunError

LEMMA WriterSerial ==
    ASSUME Serial, WriterStep
    PROVE  HandlersInStep' /\ RunsAreSerial'
<1>1. PICK w \in writers : WriterDone(w) \/ WriterFails(w)
  BY DEF WriterStep
<1>2. PICK pc \in {"prune", "failed"} : Report(w, pc)
  BY <1>1 DEF WriterDone, WriterFails, WriterFailsAs
<1>3. \A g \in Handlers : /\ run'[g].row = run[g].row
                          /\ run'[g].pc \in Working <=> run[g].pc \in Working
  BY <1>2 DEF Report, Serial, TypeOK, RunType, Working
<1> QED
  BY <1>1, <1>3, SerialKept DEF WriterDone, WriterFails, WriterFailsAs, Serial

LEMMA SchedulerSerial ==
    ASSUME Serial, SchedulerStep
    PROVE  HandlersInStep' /\ RunsAreSerial'
BY Ranges, SerialGoto DEF SchedulerStep, Poll, SchedulerBusy, Resume, Awake, At, Working

LEMMA ProcessSerial ==
    ASSUME Serial, Crash \/ Restart
    PROVE  HandlersInStep' /\ RunsAreSerial'
<1>1. CASE Crash
  BY <1>1, SMT DEF Crash, Idle, HandlersInStep, RunsAreSerial, InRun, Working
<1>2. CASE Restart
  <2>1. \A g \in Handlers : run[g].pc = "idle" /\ run[g].row = 0
    BY <1>2 DEF Restart, Restarted, Serial, HandlersInStep, Working
  <2>2. \A g \in Handlers : run'[g].pc \in {"idle", "poll"} /\ run'[g].row = 0
    BY <1>2, <2>1 DEF Restart, Restarted, Serial, TypeOK, RunType
  <2>3. up'
    BY <1>2 DEF Restart, Restarted
  <2> QED
    BY <2>2, <2>3 DEF HandlersInStep, RunsAreSerial, InRun, Working
<1> QED
  BY <1>1, <1>2

LEMMA NextSerial ==
    ASSUME Serial, [Next]_vars
    PROVE  Serial'
<1>1. CASE Next
  <2>1. TypeOK'
    BY <1>1, NextTypes DEF Serial
  <2>2. HandlersInStep' /\ RunsAreSerial'
    <3>1. ASSUME NEW d \in Deleters, Delete(d)
          PROVE  UNCHANGED <<up, guard, run>>
      BY <3>1 DEF Delete, DeleteRead, DeleteFile, DeleteRow, DeleteStops
    <3>2. CASE ChangeRows \/ ChangeUploads \/ Tick \/ Stop
      BY <3>2, SerialQuiet DEF ChangeRows, ChangeUploads, Tick, Environment, Stop, vars
    <3> QED
      BY <1>1, <3>1, <3>2, SerialQuiet, BeginSerial, RunSerial, WriterSerial, SchedulerSerial,
         ProcessSerial DEF Next
  <2> QED
    BY <2>1, <2>2 DEF Serial
<1>2. CASE UNCHANGED vars
  BY <1>2 DEF vars, Serial, TypeOK, HandlersInStep, RunsAreSerial, InRun
<1> QED
  BY <1>1, <1>2

LEMMA InitSerial == Init => Serial
<1> SUFFICES ASSUME Init PROVE Serial
  OBVIOUS
<1>1. \A h \in Handlers : run[h].pc \in {"idle", "poll"} /\ run[h].row = 0 /\ up
  BY SMT DEF Init, Idle
<1> QED
  BY <1>1, InitTypes DEF Serial, HandlersInStep, RunsAreSerial, InRun, Working

\* The tables, the disk and the handlers keep their types (perform_backup,
\* its scheduler, delete_backup and the startup sweep).
THEOREM TypeCorrect == Spec => []TypeOK
<1>1. Serial => TypeOK
  BY DEF Serial
<1> QED
  BY InitSerial, NextSerial, <1>1, PTL DEF Spec

\* However many requests ask for a backup, and wherever runs fail, are cancelled
\* or die, perform_backup never runs twice at once.
THEOREM SerialRuns == Spec => []RunsAreSerial
<1>1. Serial => RunsAreSerial
  BY DEF Serial
<1> QED
  BY InitSerial, NextSerial, <1>1, PTL DEF Spec

---------------------------------------------------------------------------
\* A step that starts no row, stops no run and does not restart the process.
LEMMA RunningKept ==
    ASSUME RunningIsThisProcess, up' => up, abandoned \subseteq abandoned',
           \A i \in RowIds : rows'[i].status = "running" => rows[i].status = "running",
           \A h \in Handlers : run'[h].row = run[h].row
    PROVE  RunningIsThisProcess'
BY DEF RunningIsThisProcess

LEMMA BeginRunning ==
    ASSUME IInv, NEW h \in Handlers, Begin(h)
    PROVE  RunningIsThisProcess'
<1>1. PICK i \in RowIds :
         /\ rows' = [rows EXCEPT ![i] = [NoRow EXCEPT !.status = "running", !.stamp = now]]
         /\ run' = [run EXCEPT ![h] = [Idle EXCEPT !.pc = "vacuum", !.row = i, !.stamp = now]]
         /\ abandoned' = abandoned \ {i} /\ up' = up
  BY DEF Begin, BeginRun
<1>2. up /\ run[h].row = 0
  BY Ranges DEF Begin, Awake, At, IInv, Serial, RunsAreSerial, InRun
<1>3. run'[h].row = i
  <2>1. [Idle EXCEPT !.pc = "vacuum", !.row = i, !.stamp = now].row = i
    BY Zenon DEF Idle
  <2>2. run'[h] = [Idle EXCEPT !.pc = "vacuum", !.row = i, !.stamp = now]
    BY <1>1, Zenon DEF IInv, Serial, TypeOK
  <2> QED
    BY <2>1, <2>2
<1>4. \A g \in Handlers : g # h => run'[g] = run[g]
  BY <1>1 DEF IInv, Serial, TypeOK
<1>5. \A j \in RowIds : j # i => rows'[j] = rows[j]
  BY <1>1 DEF IInv, Serial, TypeOK
<1>6. \A j \in RowIds : j # 0
  BY Ranges, SMT DEF RowIds
<1> QED
  BY <1>1, <1>2, <1>3, <1>4, <1>5, <1>6 DEF IInv, RunningIsThisProcess

\* A run that stops has recorded the end of its row, or the row is abandoned.
LEMMA ReleaseRunning ==
    ASSUME IInv, up, UNCHANGED up, NEW h \in Handlers, Release(h), abandoned \subseteq abandoned',
           \A i \in RowIds : rows'[i].status = "running" =>
               rows[i].status = "running" /\ (run[h].row = i => i \in abandoned')
    PROVE  RunningIsThisProcess'
<1>1. \A g \in Handlers : g # h => run'[g] = run[g]
  BY DEF Release, IInv, Serial, TypeOK
<1> QED
  BY <1>1 DEF IInv, RunningIsThisProcess

LEMMA RunRunning ==
    ASSUME IInv, NEW h \in Handlers, RunStep(h) \/ RunError(h)
    PROVE  RunningIsThisProcess'
<1>0. run \in [Handlers -> RunType]
  BY DEF IInv, Serial, TypeOK
<1>1. ASSUME NEW pc, Goto(h, pc)
      PROVE  \A g \in Handlers : run'[g].row = run[g].row
  BY <1>0, <1>1 DEF Goto, RunType
<1>2. CASE Vacuum(h) \/ Fingerprint(h)
  <2>1. CASE \E pc \in PCs : Goto(h, pc)
    BY <1>1, <1>2, <2>1, RunningKept DEF Vacuum, Fingerprint, IInv, history
  <2>2. CASE \/ run' = [run EXCEPT ![h].pc = "fingerprint", ![h].db = db]
             \/ run' = [run EXCEPT ![h].pc = "compare", ![h].files = files]
    <3>1. \A g \in Handlers : g # h => run'[g] = run[g]
      BY <1>0, <2>2
    <3>2. run'[h].row = run[h].row
      <4>1. CASE run' = [run EXCEPT ![h].pc = "fingerprint", ![h].db = db]
        BY <1>0, <4>1, Zenon DEF RunType
      <4>2. CASE run' = [run EXCEPT ![h].pc = "compare", ![h].files = files]
        BY <1>0, <4>2, Zenon DEF RunType
      <4> QED
        BY <2>2, <4>1, <4>2
    <3> QED
      BY <1>2, <3>1, <3>2, RunningKept DEF Vacuum, Fingerprint, IInv, history
  <2> QED
    BY <1>2, <2>1, <2>2 DEF Vacuum, Fingerprint, PCs
<1>3. CASE Skip(h) \/ Archive(h) \/ Prune(h) \/ RunFails(h)
  BY <1>1, <1>3, RunningKept DEF Skip, Archive, Prune, RunFails, IInv, history
<1>4. CASE Record(h)
  <2>1. ASSUME NEW i \in RowIds, rows'[i].status = "running"
        PROVE  rows[i].status = "running" /\ run[h].row # i
    <3>1. CASE run[h].row = i
      <4>1. CASE ~Stored(i)
        BY <1>4, <2>1, <3>1, <4>1 DEF Record, Stored, IInv, Serial, TypeOK
      <4>2. CASE Stored(i) /\ run[h].pc = "failed"
        <5>1. rows'[i] = [rows[i] EXCEPT !.status = "failed", !.finished = now]
          BY <1>4, <3>1, <4>2 DEF Record, IInv, Serial, TypeOK
        <5>2. rows[i] \in RowType
          BY DEF IInv, Serial, TypeOK
        <5>3. rows'[i].status = "failed"
          BY <5>1, <5>2, Zenon DEF RowType
        <5> QED
          BY <2>1, <5>3
      <4>3. CASE Stored(i) /\ run[h].pc # "failed"
        <5>1. rows'[i] = [rows[i] EXCEPT !.status = run[h].pc, !.finished = now,
                                         !.db = run[h].db, !.files = run[h].files]
          BY <1>4, <3>1, <4>3 DEF Record, IInv, Serial, TypeOK
        <5>2. rows[i] \in RowType
          BY DEF IInv, Serial, TypeOK
        <5>3. rows'[i].status = run[h].pc
          BY <5>1, <5>2, Zenon DEF RowType
        <5> QED
          BY <1>4, <2>1, <5>3 DEF Record
      <4> QED
        BY <4>1, <4>2, <4>3
    <3>2. CASE run[h].row # i
      BY <1>4, <2>1, <3>2 DEF Record, IInv, Serial, TypeOK
    <3> QED
      BY <3>1, <3>2
  <2> QED
    BY <1>4, <2>1, ReleaseRunning DEF Record, history
<1>5. CASE RecordFails(h) \/ Cancel(h)
  BY <1>5, ReleaseRunning DEF RecordFails, Cancel
<1> QED
  BY <1>2, <1>3, <1>4, <1>5 DEF RunStep, RunError

LEMMA OtherRunning ==
    ASSUME IInv,
           \/ WriterStep \/ SchedulerStep \/ Crash \/ Restart
           \/ ChangeRows \/ ChangeUploads \/ Tick \/ Stop
           \/ \E d \in Deleters : Delete(d)
    PROVE  RunningIsThisProcess'
<1>0. run \in [Handlers -> RunType]
  BY DEF IInv, Serial, TypeOK
<1>1. CASE WriterStep
  <2>1. PICK w \in writers : WriterDone(w) \/ WriterFails(w)
    BY <1>1 DEF WriterStep
  <2>2. PICK pc \in {"prune", "failed"} : Report(w, pc)
    BY <2>1 DEF WriterDone, WriterFails, WriterFailsAs
  <2>3. \A g \in Handlers : run'[g].row = run[g].row
    BY <1>0, <2>2 DEF Report, RunType
  <2> QED
    BY <2>1, <2>3, RunningKept DEF WriterDone, WriterFails, WriterFailsAs, IInv, history
<1>2. CASE SchedulerStep
  <2>1. PICK pc \in PCs : Goto(Scheduler, pc)
    BY <1>2 DEF SchedulerStep, Poll, SchedulerBusy, Resume, PCs
  <2>2. \A g \in Handlers : run'[g].row = run[g].row
    BY <1>0, <2>1, Ranges DEF Goto, RunType
  <2> QED
    BY <1>2, <2>2, RunningKept DEF SchedulerStep, Poll, SchedulerBusy, Resume, IInv, history
<1>3. CASE Crash
  BY <1>3 DEF Crash, RunningIsThisProcess
<1>4. CASE Restart
  <2>1. ASSUME NEW i \in RowIds
        PROVE  rows'[i].status # "running"
    <3>1. rows[i] \in RowType
      BY DEF IInv, Serial, TypeOK
    <3>2. [rows[i] EXCEPT !.status = "failed", !.finished = now].status = "failed"
      BY <3>1, Zenon DEF RowType
    <3> QED
      BY <1>4, <3>2 DEF Restart
  <2> QED
    BY <2>1 DEF RunningIsThisProcess
<1>5. CASE ChangeRows \/ ChangeUploads \/ Tick \/ Stop
  BY <1>5, RunningKept DEF ChangeRows, ChangeUploads, Tick, Environment, Stop, vars, IInv, history
<1>6. ASSUME NEW d \in Deleters, Delete(d)
      PROVE  RunningIsThisProcess'
  <2>1. \A i \in RowIds : rows'[i].status = "running" => rows[i].status = "running"
    <3>1. CASE DeleteRow(d)
      <4>1. NoRow.status = "none"
        BY DEF NoRow
      <4> QED
        BY <3>1, <4>1 DEF DeleteRow, IInv, Serial, TypeOK
    <3> QED
      BY <1>6, <3>1 DEF Delete, DeleteRead, DeleteFile, DeleteStops
  <2> QED
    BY <1>6, <2>1, RunningKept
       DEF Delete, DeleteRead, DeleteFile, DeleteRow, DeleteStops, IInv, history
<1> QED
  BY <1>1, <1>2, <1>3, <1>4, <1>5, <1>6

\* A row that says running belongs to a run in progress or to one that stopped
\* since the process started: reset_stale_running leaves none of an older one.
THEOREM RunningRowsAreThisProcess == Spec => []RunningIsThisProcess
<1>1. Init => IInv
  BY InitSerial, SMT DEF Init, IInv, RunningIsThisProcess, NoRow
<1>2. IInv /\ [Next]_vars => IInv'
  <2> SUFFICES ASSUME IInv, [Next]_vars PROVE IInv'
    OBVIOUS
  <2>1. Serial'
    BY NextSerial DEF IInv
  <2>2. RunningIsThisProcess'
    <3>1. CASE Next
      BY <3>1, BeginRunning, RunRunning, OtherRunning DEF Next
    <3>2. CASE UNCHANGED vars
      BY <3>2, RunningKept DEF vars, IInv
    <3> QED
      BY <3>1, <3>2
  <2> QED
    BY <2>1, <2>2 DEF IInv
<1>3. IInv => RunningIsThisProcess
  BY DEF IInv
<1> QED
  BY <1>1, <1>2, <1>3, PTL DEF Spec

---------------------------------------------------------------------------
(***************************************************************************)
(* Successful backups are whole.  A stamp is used once while runs are      *)
(* spaced, so a run owns its row and its stamp; an archive task shares a   *)
(* stamp only with the run that still awaits it, never with a recorded     *)
(* success, whatever became of the run that started it.                    *)
(***************************************************************************)

\* Whatever carries a stamp belongs to a run that was begun in that second.
StampsStarted ==
    /\ \A i \in RowIds : Stored(i) => started[rows[i].stamp] # 0
    /\ \A h \in Handlers : InRun(h) => started[run[h].stamp] # 0
    /\ \A w \in writers : started[w.stamp] # 0
    /\ \A s \in Stamps : archives[s].state # "absent" => started[s] # 0

\* An admin's delete may have taken the row of a run, but nobody else has it.
RunOwnsRow ==
    \A h \in Handlers : InRun(h) =>
        \/ rows[run[h].row].status = "none"
        \/ rows[run[h].row].status = "running" /\ rows[run[h].row].stamp = run[h].stamp

RunSees == \A h \in Handlers : run[h].files <= files

RunOwnsStamp ==
    \A h \in Handlers, i \in RowIds :
        InRun(h) /\ Stored(i) /\ rows[i].stamp = run[h].stamp => i = run[h].row

WritersApart == \A w, v \in writers : w.stamp = v.stamp => w = v

WritersUnrecorded == \A w \in writers, i \in RowIds : Success(i) => rows[i].stamp # w.stamp

WriterOfRun ==
    \A w \in writers, h \in Handlers : InRun(h) /\ w.stamp = run[h].stamp =>
        run[h].pc = "archiving" /\ w.db = run[h].db /\ w.files >= run[h].files

ArchiveOfRun ==
    \A h \in Handlers : run[h].pc \in {"prune", "success"} =>
        LET a == archives[run[h].stamp] IN
        \/ a.state = "absent"
        \/ a.state = "whole" /\ a.db = run[h].db /\ a.files >= run[h].files

SpacedInv ==
    RunOwnsStamp /\ WritersApart /\ WritersUnrecorded /\ WriterOfRun /\ ArchiveOfRun

WholeInv ==
    /\ StampsStarted /\ RunOwnsRow /\ RunSees
    /\ Spaced => SpacedInv
    /\ SuccessIsWhole

\* A step fades when it begins no run, writes no archive and records no success:
\* rows, archives and writers only disappear, runs only move on or end.
FadingRun(g) ==
    /\ run'[g].files <= files'
    /\ InRun(g)' => /\ InRun(g) /\ run'[g].row = run[g].row /\ run'[g].stamp = run[g].stamp
                    /\ \/ rows'[run[g].row] = rows[run[g].row]
                       \/ rows'[run[g].row].status = "none"
    /\ run'[g].pc \in {"prune", "success"} =>
          /\ run[g].pc \in {"prune", "success"}
          /\ run'[g].stamp = run[g].stamp /\ run'[g].db = run[g].db /\ run'[g].files = run[g].files
    /\ Spaced => \A w \in writers' :
          InRun(g)' /\ w.stamp = run'[g].stamp /\ run[g].pc = "archiving" => run'[g] = run[g]

FadingRows ==
    \A i \in RowIds : /\ Stored(i)' => Stored(i) /\ rows'[i].stamp = rows[i].stamp
                      /\ Success(i)' => rows'[i] = rows[i]

FadingFiles == \A s \in Stamps : archives'[s] = archives[s] \/ archives'[s].state = "absent"

Fading ==
    /\ started' = started
    /\ writers' \subseteq writers
    /\ FadingRows
    /\ FadingFiles
    /\ \A g \in Handlers : FadingRun(g)

\* The stamps that are in use are stamps, and versions are numbers.
LEMMA Typed ==
    ASSUME TypeOK
    PROVE  /\ files \in Nat /\ db \in Nat /\ now \in Stamps
           /\ \A i \in RowIds : /\ rows[i] \in RowType /\ rows[i].stamp \in Stamps
                                /\ rows[i].db \in Nat /\ rows[i].files \in Nat
           /\ \A h \in Handlers : /\ run[h] \in RunType /\ run[h].stamp \in Stamps
                                  /\ run[h].db \in Nat /\ run[h].files \in Nat
                                  /\ run[h].row \in 0 .. MaxRow
           /\ \A w \in writers : /\ w.stamp \in Stamps /\ w.db \in Nat /\ w.files \in Nat
           /\ \A s \in Stamps : /\ archives[s] \in FileType /\ archives[s].db \in Nat
                                /\ archives[s].files \in Nat
BY DEF TypeOK, RowType, RunType, FileType

LEMMA InRunRow ==
    ASSUME TypeOK, NEW h \in Handlers, InRun(h)
    PROVE  run[h].row \in RowIds
BY Ranges, Typed, SMT DEF InRun, RowIds

LEMMA FadingWhole ==
    ASSUME Serial, TypeOK', WholeInv, Fading
    PROVE  WholeInv'
<1>0. TypeOK
  BY DEF Serial
<1>1. StampsStarted'
  <2>1. \A i \in RowIds : Stored(i)' => started'[rows'[i].stamp] # 0
    BY DEF WholeInv, StampsStarted, Fading, FadingRows
  <2>2. \A h \in Handlers : InRun(h)' => started'[run'[h].stamp] # 0
    BY DEF WholeInv, StampsStarted, Fading, FadingRun
  <2>3. \A w \in writers' : started'[w.stamp] # 0
    BY DEF WholeInv, StampsStarted, Fading
  <2>4. \A s \in Stamps : archives'[s].state # "absent" => started'[s] # 0
    BY DEF WholeInv, StampsStarted, Fading, FadingFiles
  <2> QED
    BY <2>1, <2>2, <2>3, <2>4 DEF StampsStarted
<1>2. RunOwnsRow'
  BY DEF WholeInv, RunOwnsRow, Fading, FadingRun
<1>3. RunSees'
  BY DEF RunSees, Fading, FadingRun
<1>4. ASSUME Spaced' PROVE Spaced
  BY <1>4 DEF Spaced, Fading
<1>5. ASSUME Spaced' PROVE SpacedInv'
  <2>1. SpacedInv
    BY <1>4, <1>5 DEF WholeInv
  <2>2. RunOwnsStamp'
    BY <2>1 DEF SpacedInv, RunOwnsStamp, Fading, FadingRun, FadingRows
  <2>3. WritersApart'
    BY <2>1 DEF SpacedInv, WritersApart, Fading
  <2>4. WritersUnrecorded'
    BY <2>1 DEF SpacedInv, WritersUnrecorded, Fading, FadingRows, Success
  <2>5. WriterOfRun'
    BY <1>4, <1>5, <2>1 DEF SpacedInv, WriterOfRun, Fading, FadingRun
  <2>6. ArchiveOfRun'
    <3> SUFFICES ASSUME NEW h \in Handlers, run'[h].pc \in {"prune", "success"}
                 PROVE  LET a == archives'[run'[h].stamp] IN
                        \/ a.state = "absent"
                        \/ a.state = "whole" /\ a.db = run'[h].db /\ a.files >= run'[h].files
      BY DEF ArchiveOfRun
    <3>1. /\ run[h].pc \in {"prune", "success"}
          /\ run'[h].stamp = run[h].stamp /\ run'[h].db = run[h].db /\ run'[h].files = run[h].files
      BY DEF Fading, FadingRun
    <3>2. run[h].stamp \in Stamps
      BY <1>0, Typed
    <3>3. \/ archives'[run[h].stamp] = archives[run[h].stamp]
          \/ archives'[run[h].stamp].state = "absent"
      BY <3>2 DEF Fading, FadingFiles
    <3> QED
      BY <2>1, <3>1, <3>3 DEF SpacedInv, ArchiveOfRun
  <2> QED
    BY <2>2, <2>3, <2>4, <2>5, <2>6 DEF SpacedInv
<1>6. SuccessIsWhole'
  <2> SUFFICES ASSUME Spaced', NEW i \in RowIds, Success(i)'
               PROVE  LET a == archives'[rows'[i].stamp] IN
                      \/ a.state = "absent"
                      \/ a.state = "whole" /\ a.db = rows'[i].db /\ a.files >= rows'[i].files
    BY DEF SuccessIsWhole
  <2>1. rows'[i] = rows[i] /\ Success(i) /\ rows[i].stamp \in Stamps
    BY <1>0, Typed DEF Fading, FadingRows, Success
  <2>2. \/ archives'[rows[i].stamp] = archives[rows[i].stamp]
        \/ archives'[rows[i].stamp].state = "absent"
    BY <2>1 DEF Fading, FadingFiles
  <2> QED
    BY <1>4, <2>1, <2>2 DEF WholeInv, SuccessIsWhole
<1> QED
  BY <1>1, <1>2, <1>3, <1>5, <1>6 DEF WholeInv

\* A handler the step leaves alone, one that is out of its run after it, and one
\* that moves on without having archived anything.
LEMMA FadingSame ==
    ASSUME Serial, WholeInv, files <= files', files' \in Nat, NEW g \in Handlers, run'[g] = run[g],
           InRun(g) => \/ rows'[run[g].row] = rows[run[g].row]
                       \/ rows'[run[g].row].status = "none"
    PROVE  FadingRun(g)
<1>1. run[g].files <= files /\ run[g].files \in Nat /\ files \in Nat
  BY Typed DEF Serial, WholeInv, RunSees
<1> QED
  BY <1>1 DEF FadingRun, InRun

LEMMA FadingOut ==
    ASSUME files' \in Nat, NEW g \in Handlers, run'[g].row = 0, run'[g].files = 0,
           run'[g].pc \notin {"prune", "success"}
    PROVE  FadingRun(g)
BY DEF FadingRun, InRun

LEMMA FadingMove ==
    ASSUME NEW g \in Handlers, run'[g].files <= files', run'[g].pc \notin {"prune", "success"},
           run'[g].row = run[g].row, run'[g].stamp = run[g].stamp,
           run[g].pc # "archiving" \/ run'[g] = run[g],
           UNCHANGED rows
    PROVE  FadingRun(g)
BY DEF FadingRun, InRun

\* What Goto and Release write.
LEMMA GotoFields ==
    ASSUME TypeOK, NEW h \in Handlers, NEW pc, Goto(h, pc)
    PROVE  /\ \A g \in Handlers : g # h => run'[g] = run[g]
           /\ run'[h].pc = pc /\ run'[h].row = run[h].row /\ run'[h].stamp = run[h].stamp
           /\ run'[h].db = run[h].db /\ run'[h].files = run[h].files
<1>1. run[h] \in RunType
  BY Typed
<1>2. run'[h] = [run[h] EXCEPT !.pc = pc]
  BY DEF Goto, TypeOK
<1>3. /\ run'[h].pc = pc /\ run'[h].row = run[h].row /\ run'[h].stamp = run[h].stamp
      /\ run'[h].db = run[h].db /\ run'[h].files = run[h].files
  BY <1>1, <1>2, Zenon DEF RunType
<1>4. \A g \in Handlers : g # h => run'[g] = run[g]
  BY DEF Goto, TypeOK
<1> QED
  BY <1>3, <1>4

LEMMA ReleaseFields ==
    ASSUME TypeOK, NEW h \in Handlers, Release(h)
    PROVE  /\ \A g \in Handlers : g # h => run'[g] = run[g]
           /\ run'[h].pc \in {"idle", "pause"} /\ run'[h].row = 0 /\ run'[h].files = 0 /\ run'[h].db = 0
<1>1. \A g \in Handlers : g # h => run'[g] = run[g]
  BY DEF Release, TypeOK
<1>2. run'[h] = Idle \/ run'[h] = [Idle EXCEPT !.pc = "pause"]
  BY DEF Release, TypeOK
<1> QED
  BY <1>1, <1>2, SMT DEF Idle

LEMMA VacuumFields ==
    ASSUME TypeOK, NEW h \in Handlers, Vacuum(h)
    PROVE  /\ \A g \in Handlers : g # h => run'[g] = run[g]
           /\ run'[h].row = run[h].row /\ run'[h].stamp = run[h].stamp /\ run'[h].files = run[h].files
           /\ \/ run'[h].pc = "failed" /\ run'[h].db = run[h].db
              \/ run'[h].pc = "fingerprint" /\ run'[h].db = db
<1>1. CASE Goto(h, "failed")
  BY <1>1, GotoFields
<1>2. CASE run' = [run EXCEPT ![h].pc = "fingerprint", ![h].db = db]
  <2>1. \A g \in Handlers : g # h => run'[g] = run[g]
    BY <1>2 DEF TypeOK
  <2>2. /\ run'[h].row = run[h].row /\ run'[h].stamp = run[h].stamp /\ run'[h].files = run[h].files
        /\ run'[h].pc = "fingerprint" /\ run'[h].db = db
    BY <1>2, Zenon DEF TypeOK, RunType
  <2> QED
    BY <2>1, <2>2
<1> QED
  BY <1>1, <1>2 DEF Vacuum

LEMMA FingerprintFields ==
    ASSUME TypeOK, NEW h \in Handlers, Fingerprint(h)
    PROVE  /\ \A g \in Handlers : g # h => run'[g] = run[g]
           /\ run'[h].row = run[h].row /\ run'[h].stamp = run[h].stamp /\ run'[h].db = run[h].db
           /\ run'[h].pc = "compare" /\ run'[h].files = files
<1>1. run' = [run EXCEPT ![h].pc = "compare", ![h].files = files]
  BY DEF Fingerprint
<1>2. \A g \in Handlers : g # h => run'[g] = run[g]
  BY <1>1 DEF TypeOK
<1>3. /\ run'[h].row = run[h].row /\ run'[h].stamp = run[h].stamp /\ run'[h].db = run[h].db
      /\ run'[h].pc = "compare" /\ run'[h].files = files
  BY <1>1, Zenon DEF TypeOK, RunType
<1> QED
  BY <1>2, <1>3

LEMMA ReportFields ==
    ASSUME TypeOK, NEW w, NEW pc, Report(w, pc), NEW g \in Handlers
    PROVE  \/ run'[g] = run[g] /\ ~(run[g].pc = "archiving" /\ run[g].stamp = w.stamp)
           \/ /\ run[g].pc = "archiving" /\ run[g].stamp = w.stamp
              /\ run'[g].pc = pc /\ run'[g].row = run[g].row /\ run'[g].stamp = run[g].stamp
              /\ run'[g].db = run[g].db /\ run'[g].files = run[g].files
<1>1. run[g] \in RunType
  BY Typed
<1>2. CASE run[g].pc = "archiving" /\ run[g].stamp = w.stamp
  <2>1. run'[g] = [run[g] EXCEPT !.pc = pc]
    BY <1>2 DEF Report
  <2>2. /\ run'[g].pc = pc /\ run'[g].row = run[g].row /\ run'[g].stamp = run[g].stamp
        /\ run'[g].db = run[g].db /\ run'[g].files = run[g].files
    BY <1>1, <2>1, Zenon DEF RunType
  <2> QED
    BY <1>2, <2>2
<1>3. CASE ~(run[g].pc = "archiving" /\ run[g].stamp = w.stamp)
  BY <1>3 DEF Report
<1> QED
  BY <1>2, <1>3

\* Rows, archives and writers that a step leaves alone fade trivially.
LEMMA FadingTables ==
    /\ UNCHANGED rows => FadingRows
    /\ UNCHANGED archives => FadingFiles
BY DEF FadingRows, FadingFiles, Stored, Success

LEMMA RunStepFades ==
    ASSUME Serial, WholeInv, NEW h \in Handlers,
           \/ Vacuum(h) \/ Fingerprint(h) \/ Skip(h) \/ Prune(h)
           \/ RunFails(h) \/ RecordFails(h) \/ Cancel(h)
    PROVE  Fading
<1>0. TypeOK /\ RunSees
  BY DEF Serial, WholeInv
<1>1. /\ UNCHANGED <<rows, files, writers, started>>
      /\ files \in Nat /\ files <= files
  BY <1>0, Typed, SMT DEF Vacuum, Fingerprint, Skip, Prune, RunFails, RecordFails, Cancel, history
<1>2. FadingRows
  BY <1>1, FadingTables
<1>3. FadingFiles
  <2>1. CASE Prune(h)
    BY <2>1 DEF Prune, FadingFiles, NoFile
  <2>2. CASE UNCHANGED archives
    BY <2>2, FadingTables
  <2> QED
    BY <2>1, <2>2 DEF Vacuum, Fingerprint, Skip, RunFails, RecordFails, Cancel, disk
<1>4. \A g \in Handlers : g # h => run'[g] = run[g]
  BY <1>0, VacuumFields, FingerprintFields, GotoFields, ReleaseFields
     DEF Skip, Prune, RunFails, RecordFails, Cancel
<1>5. ASSUME NEW g \in Handlers, g # h PROVE FadingRun(g)
  BY <1>1, <1>4, <1>5, FadingSame
<1>6. FadingRun(h)
  <2>0. run[h].files <= files /\ run[h].files \in Nat
    BY <1>0, Typed DEF RunSees
  <2>1. CASE Vacuum(h)
    BY <1>0, <1>1, <2>0, <2>1, VacuumFields, FadingMove DEF Vacuum, At
  <2>2. CASE Fingerprint(h)
    BY <1>0, <1>1, <2>2, FingerprintFields, FadingMove DEF Fingerprint, At
  <2>3. CASE Skip(h)
    BY <1>0, <1>1, <2>0, <2>3, GotoFields, FadingMove DEF Skip, At
  <2>4. CASE Prune(h)
    <3>1. /\ run[h].pc = "prune" /\ run'[h].pc = "success" /\ run'[h].row = run[h].row
          /\ run'[h].stamp = run[h].stamp /\ run'[h].db = run[h].db /\ run'[h].files = run[h].files
      BY <1>0, <2>4, GotoFields DEF Prune, At
    <3> QED
      BY <1>1, <2>0, <3>1 DEF FadingRun, InRun
  <2>5. CASE RunFails(h)
    BY <1>0, <1>1, <2>0, <2>5, GotoFields, FadingMove DEF RunFails, At
  <2>6. CASE RecordFails(h) \/ Cancel(h)
    BY <1>0, <1>1, <2>6, ReleaseFields, FadingOut DEF RecordFails, Cancel
  <2> QED
    BY <2>1, <2>2, <2>3, <2>4, <2>5, <2>6
<1> QED
  BY <1>1, <1>2, <1>3, <1>5, <1>6 DEF Fading

\* The scheduler's own steps, the clock and new data.
LEMMA IdleFades ==
    ASSUME Serial, WholeInv,
           SchedulerStep \/ ChangeRows \/ ChangeUploads \/ Tick \/ UNCHANGED vars
    PROVE  Fading
<1>0. TypeOK /\ RunSees
  BY DEF Serial, WholeInv
<1>1. /\ UNCHANGED <<rows, archives, writers, started>>
      /\ files' \in Nat /\ files <= files'
  BY <1>0, Typed, SMT
  DEF SchedulerStep, Poll, SchedulerBusy, Resume, ChangeRows, ChangeUploads, Tick, Environment,
      vars, disk, history
<1>2. CASE UNCHANGED run
  BY <1>1, <1>2, FadingTables, FadingSame DEF Fading
<1>3. CASE SchedulerStep
  <2>1. PICK pc \in {"due", "pause", "poll"} : Goto(Scheduler, pc)
    BY <1>3 DEF SchedulerStep, Poll, SchedulerBusy, Resume
  <2>2. run[Scheduler].pc \in {"poll", "due", "pause"} /\ UNCHANGED files
    BY <1>3 DEF SchedulerStep, Poll, SchedulerBusy, Resume, Awake, At
  <2>3. run[Scheduler].files <= files /\ run[Scheduler].files \in Nat
    BY <1>0, Typed, Ranges DEF RunSees
  <2>4. FadingRun(Scheduler)
    BY <1>0, <1>1, <2>1, <2>2, <2>3, Ranges, GotoFields, FadingMove
  <2>5. ASSUME NEW g \in Handlers, g # Scheduler PROVE FadingRun(g)
    BY <1>0, <1>1, <2>1, <2>5, Ranges, GotoFields, FadingSame
  <2> QED
    BY <1>1, <2>4, <2>5, FadingTables DEF Fading
<1> QED
  BY <1>2, <1>3 DEF ChangeRows, ChangeUploads, Tick, Environment, vars

\* delete_backup, a crash and a restart, and an archive task that fails.
LEMMA DeleteFades ==
    ASSUME Serial, WholeInv, NEW d \in Deleters, Delete(d)
    PROVE  Fading
<1>0. TypeOK
  BY DEF Serial
<1>1. UNCHANGED <<run, files, writers, started>> /\ files \in Nat /\ files <= files
  BY <1>0, Typed, SMT DEF Delete, DeleteRead, DeleteFile, DeleteRow, DeleteStops, history
<1>2. \A i \in RowIds : rows'[i] = rows[i] \/ rows'[i].status = "none"
  BY <1>0 DEF Delete, DeleteRead, DeleteFile, DeleteRow, DeleteStops, NoRow, TypeOK
<1>3. FadingRows
  BY <1>2 DEF FadingRows, Stored, Success
<1>4. FadingFiles
  BY DEF Delete, DeleteRead, DeleteFile, DeleteRow, DeleteStops, NoFile, FadingFiles, disk
<1>5. ASSUME NEW g \in Handlers PROVE FadingRun(g)
  BY <1>0, <1>1, <1>2, InRunRow, FadingSame
<1> QED
  BY <1>1, <1>3, <1>4, <1>5 DEF Fading

LEMMA CrashFades ==
    ASSUME Serial, WholeInv, Crash
    PROVE  Fading
<1>0. TypeOK
  BY DEF Serial
<1>1. UNCHANGED <<rows, archives, started, files>> /\ writers' = {} /\ files \in Nat
  BY <1>0, Typed DEF Crash, disk
<1>2. \A g \in Handlers : run'[g] = Idle
  BY DEF Crash
<1>3. ASSUME NEW g \in Handlers PROVE FadingRun(g)
  BY <1>1, <1>2, FadingOut, SMT DEF Idle
<1> QED
  BY <1>1, <1>3, FadingTables DEF Fading

LEMMA RestartFades ==
    ASSUME Serial, WholeInv, Restart
    PROVE  Fading
<1>0. TypeOK
  BY DEF Serial
<1>1. /\ ~up /\ run' = [run EXCEPT ![Scheduler].pc = "poll"]
      /\ UNCHANGED <<archives, started, files, writers>>
  <2>1. Restarted
    BY Zenon DEF Restart
  <2> QED
    BY <2>1 DEF Restarted, disk
<1>2. \A g \in Handlers : run[g].row = 0 /\ run[g].pc = "idle"
  BY <1>1 DEF Serial, HandlersInStep, Working
<1>3. \A g \in Handlers : /\ run'[g].row = 0 /\ run'[g].files = run[g].files
                          /\ run'[g].pc \in {"idle", "poll"}
  <2>1. Goto(Scheduler, "poll")
    BY <1>1 DEF Goto
  <2> QED
    BY <1>0, <1>2, <2>1, Ranges, GotoFields
<1>4. ASSUME NEW g \in Handlers PROVE FadingRun(g)
  BY <1>1, <1>2, <1>3 DEF FadingRun, InRun, WholeInv, RunSees
<1>5. ASSUME NEW i \in RowIds
      PROVE  \/ rows'[i] = rows[i]
             \/ /\ rows'[i].status = "failed" /\ rows'[i].stamp = rows[i].stamp
                /\ rows[i].status = "running"
  <2>1. rows[i] \in RowType
    BY <1>0, Typed
  <2>2. /\ [rows[i] EXCEPT !.status = "failed", !.finished = now].status = "failed"
        /\ [rows[i] EXCEPT !.status = "failed", !.finished = now].stamp = rows[i].stamp
    BY <2>1, Zenon DEF RowType
  <2>3. rows'[i] = IF rows[i].status = "running"
                   THEN [rows[i] EXCEPT !.status = "failed", !.finished = now] ELSE rows[i]
    BY Zenon DEF Restart
  <2> QED
    BY <2>2, <2>3
<1>6. FadingRows
  BY <1>5 DEF FadingRows, Stored, Success
<1> QED
  BY <1>1, <1>4, <1>6, FadingTables DEF Fading

LEMMA WriterFailsFades ==
    ASSUME Serial, WholeInv, NEW w \in writers, WriterFails(w)
    PROVE  Fading
<1>0. TypeOK
  BY DEF Serial
<1>1. /\ UNCHANGED <<rows, archives, files, started>> /\ files \in Nat /\ files <= files
      /\ writers' = writers \ {w} /\ Report(w, "failed")
  BY <1>0, Typed, SMT DEF WriterFails, WriterFailsAs, disk
<1>2. ASSUME NEW g \in Handlers PROVE FadingRun(g)
  <2>1. CASE run'[g] = run[g]
    BY <1>1, <2>1, FadingSame
  <2>2. CASE /\ run[g].stamp = w.stamp
             /\ run'[g].pc = "failed" /\ run'[g].row = run[g].row /\ run'[g].stamp = run[g].stamp
             /\ run'[g].db = run[g].db /\ run'[g].files = run[g].files
    <3>1. run'[g].files <= files'
      BY <1>1, <2>2 DEF WholeInv, RunSees
    <3>2. ASSUME Spaced, NEW v \in writers', v.stamp = run'[g].stamp PROVE FALSE
      BY <1>1, <2>2, <3>2 DEF WholeInv, SpacedInv, WritersApart
    <3> QED
      BY <1>1, <2>2, <3>1, <3>2 DEF FadingRun, InRun
  <2> QED
    BY <1>0, <1>1, <2>1, <2>2, ReportFields
<1> QED
  BY <1>1, <1>2, FadingTables DEF Fading


\* The four steps that do more: a run begins, an archive is started or finished,
\* an end is recorded.
LEMMA BeginFields ==
    ASSUME Serial, NEW h \in Handlers, Begin(h)
    PROVE  /\ \A g \in Handlers : run[g].row = 0
           /\ UNCHANGED <<now, db, files, archives, writers, del>>
           /\ started' = [started EXCEPT ![now] = IF @ = 0 THEN 1 ELSE 2]
           /\ \A g \in Handlers : g # h => run'[g] = run[g]
           /\ run'[h].pc = "vacuum" /\ run'[h].stamp = now /\ run'[h].db = 0 /\ run'[h].files = 0
           /\ run'[h].row \in RowIds /\ ~Stored(run'[h].row)
           /\ \A i \in RowIds : i # run'[h].row => rows'[i] = rows[i]
           /\ rows'[run'[h].row].status = "running" /\ rows'[run'[h].row].stamp = now
<1>1. PICK i \in RowIds :
         /\ NextId(i)
         /\ rows' = [rows EXCEPT ![i] = [NoRow EXCEPT !.status = "running", !.stamp = now]]
         /\ run' = [run EXCEPT ![h] = [Idle EXCEPT !.pc = "vacuum", !.row = i, !.stamp = now]]
         /\ started' = [started EXCEPT ![now] = IF @ = 0 THEN 1 ELSE 2]
         /\ UNCHANGED <<now, up, db, files, disk, wake, writers, del, faults>>
  BY Zenon DEF Begin, BeginRun
<1>2. UNCHANGED <<now, db, files, archives, writers, del>>
  BY <1>1 DEF disk
<1>3. \A g \in Handlers : run[g].row = 0
  <2>1. guard = None
    BY DEF Begin
  <2> QED
    BY <2>1, Ranges DEF Serial, RunsAreSerial, InRun
<1>4. ~Stored(i)
  BY <1>1, Ranges, SMT DEF NextId, RowIds
<1> DEFINE q == [Idle EXCEPT !.pc = "vacuum", !.row = i, !.stamp = now]
           r == [NoRow EXCEPT !.status = "running", !.stamp = now]
<1>5. q.pc = "vacuum" /\ q.row = i /\ q.stamp = now /\ q.db = 0 /\ q.files = 0
  BY Zenon DEF Idle
<1>6. r.status = "running" /\ r.stamp = now
  BY Zenon DEF NoRow
<1>7. run'[h] = q /\ \A g \in Handlers : g # h => run'[g] = run[g]
  BY <1>1, Zenon DEF Serial, TypeOK
<1>8. rows'[i] = r /\ \A j \in RowIds : j # i => rows'[j] = rows[j]
  BY <1>1, Zenon DEF Serial, TypeOK
<1>9. started' = [started EXCEPT ![now] = IF @ = 0 THEN 1 ELSE 2]
  BY <1>1
<1> HIDE DEF q, r
<1>10. run'[h].row = i
  BY <1>5, <1>7
<1> QED
  BY <1>2, <1>3, <1>4, <1>5, <1>6, <1>7, <1>8, <1>9, <1>10

\* Spaced runs: the second in which a run begins has begun no other.
LEMMA BeginStamp ==
    ASSUME Serial, NEW h \in Handlers, Begin(h)
    PROVE  /\ \A s \in Stamps : started[s] # 0 => started'[s] # 0
           /\ started'[now] # 0
           /\ Spaced' => Spaced /\ started[now] = 0
<1>1. started' = [started EXCEPT ![now] = IF @ = 0 THEN 1 ELSE 2]
  BY BeginFields
<1>2. started \in [Stamps -> 0 .. 2] /\ now \in Stamps
  BY DEF Serial, TypeOK
<1> QED
  BY <1>1, <1>2 DEF Spaced

LEMMA BeginWhole ==
    ASSUME Serial, WholeInv, NEW h \in Handlers, Begin(h)
    PROVE  WholeInv'
<1>0. TypeOK
  BY DEF Serial
<1>1. StampsStarted'
  BY <1>0, Typed, BeginFields, BeginStamp DEF WholeInv, StampsStarted, Stored, InRun
<1>2. RunOwnsRow'
  BY BeginFields DEF RunOwnsRow, InRun
<1>3. RunSees'
  BY <1>0, Typed, BeginFields DEF WholeInv, RunSees
<1>4. ASSUME Spaced' PROVE SpacedInv'
  <2>0. Spaced /\ started[now] = 0 /\ SpacedInv
    BY <1>4, BeginStamp DEF WholeInv
  <2>1. RunOwnsStamp'
    BY <2>0, BeginFields DEF RunOwnsStamp, WholeInv, StampsStarted, Stored, InRun
  <2>2. WritersApart'
    BY <2>0, BeginFields DEF WritersApart, SpacedInv
  <2>3. WritersUnrecorded'
    BY <2>0, BeginFields DEF WritersUnrecorded, SpacedInv, Success
  <2>4. WriterOfRun'
    BY <2>0, BeginFields DEF WriterOfRun, WholeInv, StampsStarted, InRun
  <2>5. ArchiveOfRun'
    BY <2>0, BeginFields DEF ArchiveOfRun, SpacedInv
  <2> QED
    BY <2>1, <2>2, <2>3, <2>4, <2>5 DEF SpacedInv
<1>5. SuccessIsWhole'
  <2>1. \A i \in RowIds : Success(i)' => Success(i) /\ rows'[i] = rows[i]
    BY BeginFields DEF Success
  <2> QED
    BY <2>1, BeginFields, BeginStamp DEF WholeInv, SuccessIsWhole
<1> QED
  BY <1>1, <1>2, <1>3, <1>4, <1>5 DEF WholeInv

LEMMA ArchiveFields ==
    ASSUME TypeOK, NEW h \in Handlers, Archive(h)
    PROVE  /\ up /\ run[h].pc = "compare" /\ ~(h = Scheduler /\ UnchangedSince(h))
           /\ UNCHANGED <<now, db, files, rows, started, del>>
           /\ \A g \in Handlers : g # h => run'[g] = run[g]
           /\ run'[h].pc = "archiving" /\ run'[h].row = run[h].row /\ run'[h].stamp = run[h].stamp
           /\ run'[h].db = run[h].db /\ run'[h].files = run[h].files
           /\ writers' = writers \union {[stamp |-> run[h].stamp, db |-> run[h].db, files |-> files]}
           /\ \A s \in Stamps : s # run[h].stamp => archives'[s] = archives[s]
           /\ archives'[run[h].stamp].state = "partial"
<1>1. /\ up /\ run[h].pc = "compare" /\ ~(h = Scheduler /\ UnchangedSince(h))
      /\ UNCHANGED <<now, db, files, rows, started, del>>
      /\ writers' = writers \union {[stamp |-> run[h].stamp, db |-> run[h].db, files |-> files]}
      /\ Goto(h, "archiving")
  BY DEF Archive, At, history
<1>2. archives' = [archives EXCEPT ![run[h].stamp] = [NoFile EXCEPT !.state = "partial"]]
  BY Zenon DEF Archive
<1>3. [NoFile EXCEPT !.state = "partial"].state = "partial"
  BY Zenon DEF NoFile
<1>4. run[h].stamp \in Stamps /\ archives \in [Stamps -> FileType]
  BY Typed DEF TypeOK
<1>5. /\ \A s \in Stamps : s # run[h].stamp => archives'[s] = archives[s]
      /\ archives'[run[h].stamp].state = "partial"
  BY <1>2, <1>3, <1>4
<1> QED
  BY <1>1, <1>5, GotoFields

\* Inside its run, a handler is alone, and has recorded nothing under its stamp.
LEMMA RunAlone ==
    ASSUME Serial, NEW h \in Handlers, InRun(h)
    PROVE  \A g \in Handlers : g # h => ~InRun(g) /\ run[g].pc \notin Working
BY Ranges DEF Serial, RunsAreSerial, HandlersInStep, InRun

LEMMA RunUnrecorded ==
    ASSUME WholeInv, Spaced, NEW h \in Handlers, InRun(h),
           NEW i \in RowIds, Success(i)
    PROVE  rows[i].stamp # run[h].stamp
BY DEF WholeInv, SpacedInv, RunOwnsStamp, RunOwnsRow, Stored, Success

LEMMA ArchiveWhole ==
    ASSUME Serial, WholeInv, NEW h \in Handlers, Archive(h)
    PROVE  WholeInv'
<1>0. TypeOK
  BY DEF Serial
<1>1. run[h].pc = "compare" /\ InRun(h)
  BY <1>0, ArchiveFields DEF Serial, HandlersInStep, Working, InRun
<1>2. \A g \in Handlers : g # h => ~InRun(g) /\ run[g].pc \notin Working
  BY <1>1, RunAlone
<1> DEFINE n == [stamp |-> run[h].stamp, db |-> run[h].db, files |-> files]
<1>3. n.stamp = run[h].stamp /\ n.db = run[h].db /\ n.files = files
  OBVIOUS
<1>4. writers' = writers \union {n}
  BY <1>0, ArchiveFields
<1> HIDE DEF n
<1>5. StampsStarted'
  BY <1>0, <1>1, <1>3, <1>4, Typed, ArchiveFields DEF WholeInv, StampsStarted, Stored, InRun
<1>6. RunOwnsRow'
  BY <1>0, ArchiveFields DEF WholeInv, RunOwnsRow, InRun
<1>7. RunSees'
  BY <1>0, ArchiveFields DEF WholeInv, RunSees
<1>8. Spaced' <=> Spaced
  BY <1>0, ArchiveFields DEF Spaced
<1>9. ASSUME Spaced PROVE SpacedInv'
  <2>0. SpacedInv
    BY <1>9 DEF WholeInv
  <2>1. RunOwnsStamp'
    BY <1>0, <2>0, ArchiveFields DEF RunOwnsStamp, SpacedInv, Stored, InRun
  <2>2. \A w \in writers : w.stamp # run[h].stamp
    BY <1>1, <2>0 DEF SpacedInv, WriterOfRun
  <2>3. WritersApart'
    BY <1>3, <1>4, <2>0, <2>2 DEF WritersApart, SpacedInv
  <2>4. WritersUnrecorded'
    BY <1>0, <1>1, <1>3, <1>4, <1>9, <2>0, ArchiveFields, RunUnrecorded
    DEF WritersUnrecorded, SpacedInv, Success
  <2>5. WriterOfRun'
    <3> SUFFICES ASSUME NEW w \in writers', NEW g \in Handlers, InRun(g)', w.stamp = run'[g].stamp
                 PROVE  run'[g].pc = "archiving" /\ w.db = run'[g].db /\ w.files >= run'[g].files
      BY DEF WriterOfRun
    <3>1. g = h
      BY <1>0, <1>2, ArchiveFields DEF InRun
    <3>2. w = n
      BY <1>0, <1>4, <2>2, <3>1, ArchiveFields
    <3> QED
      BY <1>0, <1>3, <3>1, <3>2, Typed, ArchiveFields DEF WholeInv, RunSees
  <2>6. ArchiveOfRun'
    BY <1>0, <1>2, ArchiveFields DEF ArchiveOfRun, Working
  <2> QED
    BY <2>1, <2>3, <2>4, <2>5, <2>6 DEF SpacedInv
<1>10. SuccessIsWhole'
  <2> SUFFICES ASSUME Spaced, NEW i \in RowIds, Success(i)
               PROVE  LET a == archives'[rows[i].stamp] IN
                      \/ a.state = "absent"
                      \/ a.state = "whole" /\ a.db = rows[i].db /\ a.files >= rows[i].files
    BY <1>0, <1>8, ArchiveFields DEF SuccessIsWhole, Success
  <2> QED
    BY <1>0, <1>1, Typed, ArchiveFields, RunUnrecorded DEF WholeInv, SuccessIsWhole
<1> QED
  BY <1>5, <1>6, <1>7, <1>8, <1>9, <1>10 DEF WholeInv

LEMMA WriterDoneFields ==
    ASSUME TypeOK, NEW w \in writers, WriterDone(w)
    PROVE  /\ UNCHANGED <<now, db, files, rows, started, del>>
           /\ writers' = writers \ {w}
           /\ Report(w, "prune")
           /\ \A s \in Stamps : s # w.stamp => archives'[s] = archives[s]
           /\ \/ archives[w.stamp].state = "absent" /\ archives'[w.stamp] = archives[w.stamp]
              \/ /\ archives[w.stamp].state # "absent"
                 /\ archives'[w.stamp].state = "whole" /\ archives'[w.stamp].db = w.db
                 /\ archives'[w.stamp].files \in w.files .. files
<1>1. w.stamp \in Stamps /\ archives \in [Stamps -> FileType]
  BY Typed DEF TypeOK
<1>2. PICK f \in w.files .. files :
          archives' = [archives EXCEPT ![w.stamp] =
              IF @.state = "absent" THEN @ ELSE [state |-> "whole", db |-> w.db, files |-> f]]
  BY Zenon DEF WriterDone
<1>3. /\ UNCHANGED <<now, db, files, rows, started, del>>
      /\ writers' = writers \ {w}
      /\ Report(w, "prune")
  BY DEF WriterDone, history
<1> QED
  BY <1>1, <1>2, <1>3

LEMMA WriterDoneWhole ==
    ASSUME Serial, WholeInv, NEW w \in writers, WriterDone(w)
    PROVE  WholeInv'
<1>0. TypeOK
  BY DEF Serial
<1>1. /\ UNCHANGED <<files, rows, started>>
      /\ writers' = writers \ {w}
      /\ w.stamp \in Stamps
  BY <1>0, Typed, WriterDoneFields
<1>2. ASSUME NEW g \in Handlers
      PROVE  \/ run'[g] = run[g] /\ ~(run[g].pc = "archiving" /\ run[g].stamp = w.stamp)
             \/ /\ run[g].pc = "archiving" /\ run[g].stamp = w.stamp
                /\ run'[g].pc = "prune" /\ run'[g].row = run[g].row /\ run'[g].stamp = run[g].stamp
                /\ run'[g].db = run[g].db /\ run'[g].files = run[g].files
  BY <1>0, WriterDoneFields, ReportFields
<1>3. StampsStarted'
  BY <1>0, <1>1, <1>2, WriterDoneFields DEF WholeInv, StampsStarted, Stored, InRun
<1>4. RunOwnsRow'
  BY <1>1, <1>2 DEF WholeInv, RunOwnsRow, InRun
<1>5. RunSees'
  BY <1>1, <1>2 DEF WholeInv, RunSees
<1>6. Spaced' <=> Spaced
  BY <1>1 DEF Spaced
<1>7. ASSUME Spaced PROVE SpacedInv'
  <2>0. SpacedInv
    BY <1>7 DEF WholeInv
  <2>1. RunOwnsStamp'
    BY <1>1, <1>2, <2>0 DEF RunOwnsStamp, SpacedInv, Stored, InRun
  <2>2. WritersApart'
    BY <1>1, <2>0 DEF WritersApart, SpacedInv
  <2>3. WritersUnrecorded'
    BY <1>1, <2>0 DEF WritersUnrecorded, SpacedInv, Success
  <2>4. WriterOfRun'
    <3> SUFFICES ASSUME NEW v \in writers, v # w, NEW g \in Handlers, InRun(g)', v.stamp = run'[g].stamp
                 PROVE  run'[g].pc = "archiving" /\ v.db = run'[g].db /\ v.files >= run'[g].files
      BY <1>1 DEF WriterOfRun
    <3>1. v.stamp # w.stamp
      BY <2>0 DEF SpacedInv, WritersApart
    <3>2. run'[g] = run[g]
      BY <1>2, <3>1
    <3> QED
      BY <2>0, <3>2 DEF SpacedInv, WriterOfRun, InRun
  <2>5. ArchiveOfRun'
    <3> SUFFICES ASSUME NEW g \in Handlers, run'[g].pc \in {"prune", "success"}
                 PROVE  LET a == archives'[run'[g].stamp] IN
                        \/ a.state = "absent"
                        \/ a.state = "whole" /\ a.db = run'[g].db /\ a.files >= run'[g].files
      BY DEF ArchiveOfRun
    <3>0. run[g].stamp \in Stamps /\ run[g].files \in Nat /\ w.files \in Nat /\ files \in Nat
      BY <1>0, Typed
    <3>1. CASE run'[g] = run[g]
      <4>1. InRun(g) /\ run[g].pc # "archiving"
        BY <3>1 DEF Serial, HandlersInStep, Working, InRun
      <4>2. run[g].stamp # w.stamp
        BY <2>0, <4>1 DEF SpacedInv, WriterOfRun
      <4> QED
        BY <1>0, <2>0, <3>0, <3>1, <4>2, WriterDoneFields DEF SpacedInv, ArchiveOfRun
    <3>2. CASE run[g].pc = "archiving" /\ run[g].stamp = w.stamp /\ run'[g] # run[g]
      <4>1. w.db = run[g].db /\ w.files >= run[g].files
        <5>1. InRun(g)
          BY <3>2 DEF Serial, HandlersInStep, Working, InRun
        <5> QED
          BY <2>0, <3>2, <5>1 DEF SpacedInv, WriterOfRun
      <4>2. /\ run'[g].stamp = w.stamp /\ run'[g].db = run[g].db /\ run'[g].files = run[g].files
        BY <1>2, <3>2
      <4> QED
        BY <1>0, <3>0, <4>1, <4>2, WriterDoneFields
    <3> QED
      BY <1>2, <3>1, <3>2
  <2> QED
    BY <2>1, <2>2, <2>3, <2>4, <2>5 DEF SpacedInv
<1>8. SuccessIsWhole'
  <2> SUFFICES ASSUME Spaced, NEW i \in RowIds, Success(i)
               PROVE  LET a == archives'[rows[i].stamp] IN
                      \/ a.state = "absent"
                      \/ a.state = "whole" /\ a.db = rows[i].db /\ a.files >= rows[i].files
    BY <1>1, <1>6 DEF SuccessIsWhole, Success
  <2>1. rows[i].stamp # w.stamp /\ rows[i].stamp \in Stamps
    BY <1>0, Typed DEF WholeInv, SpacedInv, WritersUnrecorded
  <2> QED
    BY <1>0, <2>1, WriterDoneFields DEF WholeInv, SuccessIsWhole
<1> QED
  BY <1>3, <1>4, <1>5, <1>6, <1>7, <1>8 DEF WholeInv

LEMMA RecordFields ==
    ASSUME Serial, NEW h \in Handlers, Record(h)
    PROVE  /\ run[h].pc \in {"success", "skipped", "failed"} /\ InRun(h)
           /\ UNCHANGED <<now, db, files, archives, writers, started, del>>
           /\ \A g \in Handlers : g # h => run'[g] = run[g]
           /\ run'[h].pc \in {"idle", "pause"} /\ run'[h].row = 0 /\ run'[h].files = 0 /\ run'[h].db = 0
           /\ \A i \in RowIds : i # run[h].row => rows'[i] = rows[i]
           /\ \/ rows'[run[h].row] = rows[run[h].row] /\ ~Stored(run[h].row)
              \/ /\ Stored(run[h].row)
                 /\ rows'[run[h].row].status = run[h].pc
                 /\ rows'[run[h].row].stamp = rows[run[h].row].stamp
                 /\ run[h].pc # "failed" => /\ rows'[run[h].row].db = run[h].db
                                            /\ rows'[run[h].row].files = run[h].files
<1>0. TypeOK
  BY DEF Serial
<1>1. /\ run[h].pc \in {"success", "skipped", "failed"}
      /\ UNCHANGED <<now, db, files, archives, writers, started, del>>
      /\ Release(h)
  BY DEF Record, disk, history
<1>2. InRun(h)
  BY <1>1 DEF Serial, HandlersInStep, Working, InRun
<1> DEFINE i == run[h].row
           bad == [rows[i] EXCEPT !.status = "failed", !.finished = now]
           good == [rows[i] EXCEPT !.status = run[h].pc, !.finished = now,
                                   !.db = run[h].db, !.files = run[h].files]
<1>3. i \in RowIds /\ rows[i] \in RowType
  BY <1>0, <1>2, Typed, InRunRow
<1>4. rows' = [rows EXCEPT ![i] = IF ~Stored(i) THEN rows[i]
                                  ELSE IF run[h].pc = "failed" THEN bad ELSE good]
  BY Zenon DEF Record
<1>5. /\ bad.status = "failed" /\ bad.stamp = rows[i].stamp
      /\ good.status = run[h].pc /\ good.stamp = rows[i].stamp
      /\ good.db = run[h].db /\ good.files = run[h].files
  BY <1>3, Zenon DEF RowType
<1>6. /\ \A j \in RowIds : j # i => rows'[j] = rows[j]
      /\ rows'[i] = IF ~Stored(i) THEN rows[i] ELSE IF run[h].pc = "failed" THEN bad ELSE good
  BY <1>0, <1>3, <1>4 DEF TypeOK
<1> HIDE DEF bad, good
<1> QED
  BY <1>0, <1>1, <1>2, <1>5, <1>6, ReleaseFields

LEMMA RecordWhole ==
    ASSUME Serial, WholeInv, NEW h \in Handlers, Record(h)
    PROVE  WholeInv'
<1>0. TypeOK /\ InRun(h)
  BY RecordFields DEF Serial
<1>i. PICK i \in RowIds : i = run[h].row
  BY <1>0, InRunRow
<1>1. \A g \in Handlers : run'[g].row = 0 /\ run'[g].pc \notin {"prune", "success"}
  BY <1>0, RecordFields, RunAlone DEF InRun, Working
<1>2. ASSUME NEW j \in RowIds
      PROVE  /\ Stored(j)' => Stored(j) /\ rows'[j].stamp = rows[j].stamp
             /\ Success(j)' /\ j # i => rows'[j] = rows[j]
  BY <1>i, RecordFields DEF Stored, Success
<1>3. ASSUME Success(i)'
      PROVE  /\ run[h].pc = "success" /\ rows'[i].stamp = run[h].stamp
             /\ rows'[i].db = run[h].db /\ rows'[i].files = run[h].files
  BY <1>0, <1>i, <1>3, RecordFields DEF Success, Stored, WholeInv, RunOwnsRow
<1>5. UNCHANGED <<files, archives, writers, started>>
  BY RecordFields
<1>6. StampsStarted'
  BY <1>1, <1>2, <1>5 DEF WholeInv, StampsStarted, InRun
<1>7. RunOwnsRow'
  BY <1>1 DEF RunOwnsRow, InRun
<1>8. RunSees'
  BY <1>0, Typed, RecordFields DEF WholeInv, RunSees
<1>9. ASSUME Spaced PROVE SpacedInv' /\ SuccessIsWhole'
  <2>0. SpacedInv /\ SuccessIsWhole
    BY <1>9 DEF WholeInv
  <2>1. RunOwnsStamp' /\ WriterOfRun' /\ ArchiveOfRun'
    BY <1>1 DEF RunOwnsStamp, WriterOfRun, ArchiveOfRun, InRun
  <2>2. WritersApart'
    BY <1>5, <2>0 DEF WritersApart, SpacedInv
  <2>3. WritersUnrecorded'
    <3> SUFFICES ASSUME NEW w \in writers, NEW j \in RowIds, Success(j)', rows'[j].stamp = w.stamp
                 PROVE  FALSE
      BY <1>5 DEF WritersUnrecorded
    <3>1. CASE j = i
      <4>1. run[h].pc = "archiving"
        BY <1>0, <1>3, <2>0, <3>1 DEF SpacedInv, WriterOfRun
      <4> QED
        BY <1>3, <3>1, <4>1
    <3>2. CASE j # i
      BY <1>2, <2>0, <3>2 DEF SpacedInv, WritersUnrecorded, Success
    <3> QED
      BY <3>1, <3>2
  <2>4. SuccessIsWhole'
    <3> SUFFICES ASSUME NEW j \in RowIds, Success(j)'
                 PROVE  LET a == archives[rows'[j].stamp] IN
                        \/ a.state = "absent"
                        \/ a.state = "whole" /\ a.db = rows'[j].db /\ a.files >= rows'[j].files
      BY <1>5 DEF SuccessIsWhole
    <3>1. CASE j = i
      BY <1>3, <2>0, <3>1 DEF SpacedInv, ArchiveOfRun
    <3>2. CASE j # i
      BY <1>2, <1>9, <2>0, <3>2 DEF SuccessIsWhole, Success
    <3> QED
      BY <3>1, <3>2
  <2> QED
    BY <2>0, <2>1, <2>2, <2>3, <2>4 DEF SpacedInv
<1>10. Spaced' <=> Spaced
  BY <1>5 DEF Spaced
<1>11. SuccessIsWhole'
  BY <1>9, <1>10 DEF SuccessIsWhole
<1> QED
  BY <1>6, <1>7, <1>8, <1>9, <1>10, <1>11 DEF WholeInv

LEMMA NextWhole ==
    ASSUME Serial, Serial', WholeInv, [Next]_vars
    PROVE  WholeInv'
<1>1. TypeOK'
  BY DEF Serial
<1>2. ASSUME Fading PROVE WholeInv'
  BY <1>1, <1>2, FadingWhole
<1>3. ASSUME NEW h \in Handlers, Begin(h) \/ RunStep(h) \/ RunError(h) PROVE WholeInv'
  BY <1>2, <1>3, BeginWhole, ArchiveWhole, RecordWhole, RunStepFades DEF RunStep, RunError
<1>4. CASE WriterStep
  BY <1>2, <1>4, WriterDoneWhole, WriterFailsFades DEF WriterStep
<1> QED
  BY <1>2, <1>3, <1>4, IdleFades, DeleteFades, CrashFades, RestartFades DEF Next, Stop

LEMMA InitWhole == Init => WholeInv
<1> SUFFICES ASSUME Init PROVE WholeInv
  OBVIOUS
<1>1. \A h \in Handlers : run[h].pc \in {"idle", "poll"} /\ run[h].row = 0 /\ run[h].files = 0
  BY SMT DEF Init, Idle
<1>2. \A i \in RowIds : rows[i].status = "none"
  BY SMT DEF Init, NoRow
<1>3. \A s \in Stamps : archives[s].state = "absent"
  BY SMT DEF Init, NoFile
<1>4. writers = {} /\ files = 0
  BY DEF Init
<1> QED
  BY <1>1, <1>2, <1>3, <1>4, SMT
  DEF WholeInv, StampsStarted, RunOwnsRow, RunSees, SpacedInv, RunOwnsStamp, WritersApart,
      WritersUnrecorded, WriterOfRun, ArchiveOfRun, SuccessIsWhole, Stored, Success, InRun

\* Whatever fails, is cancelled or dies, and whichever archive task outlives its
\* run: the archive of a successful backup is never torn.
THEOREM SuccessesAreWhole == Spec => []SuccessIsWhole
<1>1. Init => Serial /\ WholeInv
  BY InitSerial, InitWhole
<1>2. Serial /\ WholeInv /\ [Next]_vars => (Serial /\ WholeInv)'
  BY NextSerial, NextWhole
<1>3. WholeInv => SuccessIsWhole
  BY DEF WholeInv
<1> QED
  BY <1>1, <1>2, <1>3, PTL DEF Spec

---------------------------------------------------------------------------
(***************************************************************************)
(* Restore points.  While nobody deletes a backup, every success is        *)
(* covered: a whole archive, not older, has its database and uploads or    *)
(* newer ones, and nothing newer than what exists.  Pruning keeps it       *)
(* because the archive of the run that prunes is the newest there is and   *)
(* covers them all.  A run that compares its fingerprint needs a cover no  *)
(* newer than what it saw: two fingerprints that agree then pin it down.   *)
(***************************************************************************)

\* Versions only grow, and nothing knows a version that does not exist yet.
Bounds ==
    /\ \A i \in RowIds : Success(i) => rows[i].db <= db /\ rows[i].files <= files
    /\ \A h \in Handlers : run[h].db <= db
    /\ \A w \in writers : w.db <= db /\ w.files <= files
    /\ \A s \in Stamps : Whole(s) => archives[s].db <= db /\ archives[s].files <= files

\* No run begins in the future, nor after a run that is still in progress.
Latest ==
    \A t \in Stamps : /\ t > now => started[t] = 0
                      /\ \A h \in Handlers : InRun(h) /\ t > run[h].stamp => started[t] = 0

\* What a run has seen is not older than what any success recorded.
RunAfter ==
    \A h \in Handlers, i \in RowIds : Success(i) =>
        /\ run[h].pc \in {"fingerprint", "compare", "archiving", "prune", "success"} =>
              rows[i].db <= run[h].db
        /\ run[h].pc \in {"compare", "archiving", "prune", "success"} =>
              rows[i].files <= run[h].files

FileOfRun ==
    /\ \A h \in Handlers :
          /\ run[h].pc \in {"vacuum", "fingerprint", "compare"} =>
                archives[run[h].stamp].state = "absent"
          /\ run[h].pc = "archiving" => archives[run[h].stamp].state # "absent"
          /\ run[h].pc \in {"prune", "success"} => Whole(run[h].stamp)
    /\ \A w \in writers : ~Whole(w.stamp)

Covers(a, r, d, f) ==
    /\ a.state = "whole"
    /\ r.db <= a.db /\ a.db <= d
    /\ r.files <= a.files /\ a.files <= f
CoveredBy(i, d, f) ==
    \E s \in Stamps : s >= rows[i].stamp /\ Covers(archives[s], rows[i], d, f)

AllCovered ==
    \A i \in RowIds : Success(i) =>
        /\ CoveredBy(i, db, files)
        /\ \A h \in Handlers :
              /\ run[h].pc = "fingerprint" => CoveredBy(i, run[h].db, files)
              /\ run[h].pc = "compare" => CoveredBy(i, run[h].db, run[h].files)

KeepInv ==
    /\ Bounds /\ Latest /\ RunAfter
    /\ Spaced => FileOfRun /\ AllCovered

Kept == Serial /\ WholeInv /\ KeepInv

\* A step keeps everything when it touches no archive and records no success, and
\* a run it moves is past its archive or out.
KeepingRun(g) ==
    /\ run'[g].db <= db'
    /\ \/ run'[g] = run[g]
       \/ /\ run'[g].pc \notin {"vacuum", "fingerprint", "compare", "archiving", "prune", "success"}
          /\ InRun(g)' => InRun(g) /\ run'[g].stamp = run[g].stamp

Keeping ==
    /\ UNCHANGED <<started, archives>>
    /\ writers' \subseteq writers
    /\ now <= now' /\ db <= db' /\ files <= files'
    /\ \A i \in RowIds : Success(i)' => rows'[i] = rows[i]
    /\ \A g \in Handlers : KeepingRun(g)

LEMMA KeepingKeeps ==
    ASSUME Kept, TypeOK', Keeping
    PROVE  KeepInv'
<1>0. /\ TypeOK /\ Bounds /\ Latest /\ RunAfter
      /\ UNCHANGED <<started, archives>> /\ writers' \subseteq writers
      /\ now <= now' /\ db <= db' /\ files <= files'
      /\ now \in Nat /\ db \in Nat /\ files \in Nat /\ now' \in Nat /\ db' \in Nat /\ files' \in Nat
  <2>1. {now, now'} \subseteq Nat /\ {db, db', files, files'} \subseteq Nat
    BY SMT DEF Kept, Serial, TypeOK, Stamps
  <2> QED
    BY <2>1 DEF Kept, Serial, KeepInv, Keeping
<1>1. ASSUME NEW i \in RowIds, Success(i)'
      PROVE  Success(i) /\ rows'[i] = rows[i] /\ rows[i].db \in Nat /\ rows[i].files \in Nat
  BY <1>0, <1>1, Typed DEF Keeping, Success
<1>2. ASSUME NEW g \in Handlers PROVE KeepingRun(g)
  BY <1>2 DEF Keeping
<1>3. Bounds'
  <2>1. \A i \in RowIds : Success(i)' => rows'[i].db <= db' /\ rows'[i].files <= files'
    BY <1>0, <1>1 DEF Bounds
  <2>2. \A g \in Handlers : run'[g].db <= db'
    BY <1>2 DEF KeepingRun
  <2>3. \A w \in writers' : w.db <= db' /\ w.files <= files'
    BY <1>0, Typed DEF Bounds
  <2>4. \A s \in Stamps : Whole(s)' => archives'[s].db <= db' /\ archives'[s].files <= files'
    BY <1>0, Typed DEF Bounds, Whole
  <2> QED
    BY <2>1, <2>2, <2>3, <2>4 DEF Bounds
<1>4. Latest'
  <2> SUFFICES ASSUME NEW t \in Stamps
               PROVE  /\ t > now' => started[t] = 0
                      /\ \A g \in Handlers : InRun(g)' /\ t > run'[g].stamp => started[t] = 0
    BY <1>0 DEF Latest
  <2>1. t > now' => started[t] = 0
    BY <1>0 DEF Latest, Stamps
  <2>2. ASSUME NEW g \in Handlers, InRun(g)' PROVE InRun(g) /\ run'[g].stamp = run[g].stamp
    BY <1>2, <2>2 DEF KeepingRun, InRun
  <2> QED
    BY <1>0, <2>1, <2>2 DEF Latest
<1>5. RunAfter'
  BY <1>0, <1>1, <1>2 DEF RunAfter, KeepingRun
<1>6. ASSUME Spaced' PROVE FileOfRun' /\ AllCovered'
  <2>0. FileOfRun /\ AllCovered
    BY <1>0, <1>6 DEF Spaced, Kept, KeepInv
  <2>1. FileOfRun'
    BY <1>0, <1>2, <2>0 DEF FileOfRun, KeepingRun, Whole
  <2>2. ASSUME NEW i \in RowIds, Success(i)' PROVE CoveredBy(i, db, files)'
    <3>1. Success(i) /\ rows'[i] = rows[i] /\ CoveredBy(i, db, files)
      BY <1>1, <2>0, <2>2 DEF AllCovered
    <3> QED
      BY <1>0, <3>1, Typed DEF CoveredBy, Covers
  <2>3. ASSUME NEW i \in RowIds, Success(i)', NEW g \in Handlers, run'[g].pc = "fingerprint"
        PROVE  CoveredBy(i, run[g].db, files)'
    <3>1. run'[g] = run[g] /\ Success(i) /\ rows'[i] = rows[i]
      BY <1>1, <1>2, <2>3 DEF KeepingRun
    <3>2. CoveredBy(i, run[g].db, files)
      BY <2>0, <2>3, <3>1 DEF AllCovered
    <3> QED
      BY <1>0, <3>1, <3>2, Typed DEF CoveredBy, Covers
  <2>4. ASSUME NEW i \in RowIds, Success(i)', NEW g \in Handlers, run'[g].pc = "compare"
        PROVE  CoveredBy(i, run[g].db, run[g].files)'
    <3>1. run'[g] = run[g] /\ Success(i) /\ rows'[i] = rows[i]
      BY <1>1, <1>2, <2>4 DEF KeepingRun
    <3>2. CoveredBy(i, run[g].db, run[g].files)
      BY <2>0, <2>4, <3>1 DEF AllCovered
    <3> QED
      BY <1>0, <3>1, <3>2 DEF CoveredBy
  <2> QED
    BY <2>1, <2>2, <2>3, <2>4 DEF AllCovered
<1> QED
  BY <1>3, <1>4, <1>5, <1>6 DEF KeepInv

LEMMA RunKeeps ==
    ASSUME Kept, NEW h \in Handlers,
           \/ Vacuum(h) /\ run'[h].pc = "failed"
           \/ Skip(h) \/ RunFails(h) \/ RecordFails(h) \/ Cancel(h)
    PROVE  Keeping
<1>0. TypeOK /\ Bounds
  BY DEF Kept, Serial, KeepInv
<1>1. UNCHANGED <<now, db, files, rows, archives, writers, started>>
  <2>1. CASE Vacuum(h) \/ Skip(h)
    BY <2>1 DEF Vacuum, Skip, history
  <2>2. CASE RunFails(h) \/ Cancel(h)
    BY <2>2 DEF RunFails, Cancel
  <2>3. CASE RecordFails(h)
    BY <2>3 DEF RecordFails, disk
  <2> QED
    BY <2>1, <2>2, <2>3
<1>2. now \in Nat /\ db \in Nat /\ files \in Nat
  BY <1>0, Typed, SMT DEF Stamps
<1>3. \A g \in Handlers : g # h => run'[g] = run[g]
  BY <1>0, VacuumFields, GotoFields, ReleaseFields DEF Skip, RunFails, RecordFails, Cancel
<1>4. KeepingRun(h)
  <2>1. CASE Vacuum(h) /\ run'[h].pc = "failed"
    BY <1>0, <1>1, <2>1, VacuumFields DEF KeepingRun, Bounds, InRun
  <2>2. CASE Skip(h) \/ RunFails(h)
    <3>1. PICK pc \in {"skipped", "failed"} : Goto(h, pc)
      BY <2>2 DEF Skip, RunFails
    <3> QED
      BY <1>0, <1>1, <3>1, GotoFields DEF KeepingRun, Bounds, InRun
  <2>3. CASE RecordFails(h) \/ Cancel(h)
    <3>1. Release(h)
      BY <2>3 DEF RecordFails, Cancel
    <3> QED
      BY <1>0, <1>1, <1>2, <3>1, ReleaseFields DEF KeepingRun, InRun
  <2> QED
    BY <2>1, <2>2, <2>3
<1> QED
  BY <1>0, <1>1, <1>2, <1>3, <1>4 DEF Keeping, KeepingRun, Bounds

LEMMA IdleKeeps ==
    ASSUME Kept,
           SchedulerStep \/ ChangeRows \/ ChangeUploads \/ Tick \/ UNCHANGED vars
    PROVE  Keeping
<1>0. TypeOK /\ Bounds /\ now \in Nat /\ db \in Nat /\ files \in Nat
  <2>1. TypeOK /\ Bounds
    BY DEF Kept, Serial, KeepInv
  <2> QED
    BY <2>1, Typed, SMT DEF Stamps
<1>1. /\ UNCHANGED <<rows, archives, writers, started>>
      /\ now <= now' /\ db <= db' /\ files <= files'
  BY <1>0, SMT DEF SchedulerStep, Poll, SchedulerBusy, Resume, ChangeRows, ChangeUploads, Tick,
                   Environment, vars, disk, history
<1>2. db' \in Nat
  BY <1>0, SMT DEF SchedulerStep, Poll, SchedulerBusy, Resume, ChangeRows, ChangeUploads, Tick,
                   Environment, vars
<1>3. ASSUME NEW g \in Handlers PROVE run[g].db <= db'
  BY <1>0, <1>1, <1>2, <1>3, Typed DEF Bounds
<1>4. CASE UNCHANGED run
  BY <1>1, <1>3, <1>4 DEF Keeping, KeepingRun
<1>5. CASE SchedulerStep
  <2>1. PICK pc \in {"due", "pause", "poll"} : Goto(Scheduler, pc)
    BY <1>5 DEF SchedulerStep, Poll, SchedulerBusy, Resume
  <2>2. ASSUME NEW g \in Handlers PROVE KeepingRun(g)
    BY <1>0, <1>3, <2>1, Ranges, GotoFields DEF KeepingRun, InRun
  <2> QED
    BY <1>1, <2>2 DEF Keeping
<1> QED
  BY <1>4, <1>5 DEF ChangeRows, ChangeUploads, Tick, Environment, vars

LEMMA ProcessKeeps ==
    ASSUME Kept, Crash \/ Restart
    PROVE  Keeping
<1>0. /\ TypeOK /\ Bounds /\ now \in Nat /\ db \in Nat /\ files \in Nat
  <2>1. TypeOK /\ Bounds
    BY DEF Kept, Serial, KeepInv
  <2> QED
    BY <2>1, Typed, SMT DEF Stamps
<1>1. CASE Crash
  <2>1. /\ UNCHANGED <<now, db, files, rows, archives, started>> /\ writers' = {}
        /\ \A g \in Handlers : run'[g] = Idle
    BY <1>1 DEF Crash, disk
  <2>2. ASSUME NEW g \in Handlers PROVE KeepingRun(g)
    BY <1>0, <2>1, SMT DEF KeepingRun, Idle, InRun
  <2> QED
    BY <1>0, <2>1, <2>2 DEF Keeping
<1>2. CASE Restart
  <2>1. Restarted
    BY <1>2, Zenon DEF Restart
  <2>2. /\ Goto(Scheduler, "poll")
        /\ UNCHANGED <<now, db, files, archives, started, writers>>
    BY <2>1 DEF Restarted, Goto, disk
  <2>3. run[Scheduler].pc = "idle"
    BY <2>1, Ranges DEF Restarted, Kept, Serial, HandlersInStep
  <2>4. ASSUME NEW g \in Handlers PROVE KeepingRun(g)
    BY <1>0, <2>2, Ranges, GotoFields DEF KeepingRun, Bounds, InRun
  <2>5. ASSUME NEW i \in RowIds, Success(i)' PROVE rows'[i] = rows[i]
    <3>1. rows[i] \in RowType
      BY <1>0, Typed
    <3>2. [rows[i] EXCEPT !.status = "failed", !.finished = now].status = "failed"
      BY <3>1, Zenon DEF RowType
    <3>3. rows'[i] = IF rows[i].status = "running"
                     THEN [rows[i] EXCEPT !.status = "failed", !.finished = now] ELSE rows[i]
      BY <1>2, Zenon DEF Restart
    <3> QED
      BY <2>5, <3>2, <3>3 DEF Success
  <2> QED
    BY <1>0, <2>2, <2>4, <2>5 DEF Keeping
<1> QED
  BY <1>1, <1>2

LEMMA WriterFailsKeeps ==
    ASSUME Kept, NEW w \in writers, WriterFails(w)
    PROVE  Keeping
<1>0. /\ TypeOK /\ Bounds /\ now \in Nat /\ db \in Nat /\ files \in Nat
  <2>1. TypeOK /\ Bounds
    BY DEF Kept, Serial, KeepInv
  <2> QED
    BY <2>1, Typed, SMT DEF Stamps
<1>1. /\ UNCHANGED <<now, db, files, rows, archives, started>>
      /\ writers' = writers \ {w} /\ Report(w, "failed")
  BY DEF WriterFails, WriterFailsAs, disk
<1>2. ASSUME NEW g \in Handlers PROVE KeepingRun(g)
  BY <1>0, <1>1, ReportFields DEF KeepingRun, Bounds, InRun
<1> QED
  BY <1>0, <1>1, <1>2 DEF Keeping

\* A step of a run that is in perform_backup: nobody else is, so what it keeps of
\* the other handlers is nothing.
LEMMA NobodyElse ==
    ASSUME Serial, NEW h \in Handlers, run[h].pc \in Working,
           \A g \in Handlers : g # h => run'[g] = run[g]
    PROVE  \A g \in Handlers : g # h =>
              ~InRun(g) /\ ~InRun(g)' /\ run[g].pc \notin Working /\ run'[g].pc \notin Working
<1>1. InRun(h)
  BY DEF Serial, HandlersInStep, InRun
<1> QED
  BY <1>1, RunAlone DEF InRun

\* The success rows are those of before.
LEMMA SameRows ==
    ASSUME UNCHANGED rows
    PROVE  \A i \in RowIds : (Success(i)' <=> Success(i)) /\ rows'[i] = rows[i]
BY DEF Success

LEMMA BeginKeeps ==
    ASSUME Kept, TypeOK', NEW h \in Handlers, Begin(h)
    PROVE  KeepInv'
<1>0. /\ Serial /\ TypeOK /\ Bounds /\ Latest
      /\ UNCHANGED <<now, db, files, archives, writers>> /\ db \in Nat /\ now \in Stamps
      /\ \A g \in Handlers : g # h => run'[g] = run[g]
      /\ run'[h].pc = "vacuum" /\ run'[h].stamp = now /\ run'[h].db = 0
  BY BeginFields, Typed DEF Kept, KeepInv, Serial
<1>1. ASSUME NEW i \in RowIds, Success(i)' PROVE Success(i) /\ rows'[i] = rows[i]
  BY <1>0, <1>1, BeginFields DEF Success
<1>2. \A g \in Handlers : run[g].row = 0 /\ run[g].pc \notin Working
  BY <1>0, BeginFields DEF Serial, HandlersInStep
<1>3. Bounds'
  BY <1>0, <1>1 DEF Bounds, Whole
<1>4. Latest'
  <2>1. \A t \in Stamps : t > now => started'[t] = started[t]
    BY <1>0, BeginFields DEF TypeOK, Stamps
  <2> QED
    BY <1>0, <1>2, <2>1 DEF Latest, InRun
<1>5. RunAfter'
  BY <1>0, <1>2 DEF RunAfter, Working
<1>6. ASSUME Spaced' PROVE FileOfRun' /\ AllCovered'
  <2>0. Spaced /\ started[now] = 0 /\ FileOfRun /\ AllCovered
    BY <1>0, <1>6, BeginStamp DEF Kept, KeepInv
  <2>1. archives[now].state = "absent"
    BY <1>0, <2>0 DEF Kept, WholeInv, StampsStarted
  <2>2. FileOfRun'
    BY <1>0, <1>2, <2>0, <2>1 DEF FileOfRun, Whole, Working
  <2>3. AllCovered'
    BY <1>0, <1>1, <1>2, <2>0 DEF AllCovered, CoveredBy, Working
  <2> QED
    BY <2>2, <2>3
<1> QED
  BY <1>3, <1>4, <1>5, <1>6 DEF KeepInv

\* VACUUM INTO and the fingerprint: the run now knows the current versions.
LEMMA LookKeeps ==
    ASSUME Kept, TypeOK', NEW h \in Handlers,
           \/ Vacuum(h) /\ run'[h].pc = "fingerprint"
           \/ Fingerprint(h)
    PROVE  KeepInv'
<1>0. /\ Serial /\ TypeOK /\ Bounds /\ Latest /\ RunAfter /\ run[h].pc \in Working
      /\ run'[h].stamp = run[h].stamp /\ run'[h].row = run[h].row
      /\ \A g \in Handlers : g # h => run'[g] = run[g]
  BY VacuumFields, FingerprintFields DEF Kept, KeepInv, Serial, Vacuum, Fingerprint, At, Working
<1>1. UNCHANGED <<now, db, files, rows, archives, writers, started>> /\ db \in Nat
  BY <1>0, Typed DEF Vacuum, Fingerprint, disk, history
<1>2. \/ run[h].pc = "vacuum" /\ run'[h].pc = "fingerprint" /\ run'[h].db = db
      \/ /\ run[h].pc = "fingerprint" /\ run'[h].pc = "compare"
         /\ run'[h].db = run[h].db /\ run'[h].files = files
  BY <1>0, VacuumFields, FingerprintFields DEF Vacuum, Fingerprint, At
<1>3. \A g \in Handlers : g # h => ~InRun(g)' /\ run'[g].pc \notin Working
  BY <1>0, NobodyElse
<1>4. Bounds'
  BY <1>0, <1>1, <1>2, SameRows DEF Bounds, Whole
<1>5. Latest'
  BY <1>0, <1>1 DEF Latest, InRun
<1>6. RunAfter'
  BY <1>0, <1>1, <1>2, <1>3, SameRows DEF RunAfter, Bounds, Working
<1>7. ASSUME Spaced' PROVE FileOfRun' /\ AllCovered'
  <2>0. FileOfRun /\ AllCovered
    BY <1>1, <1>7 DEF Spaced, Kept, KeepInv
  <2>1. FileOfRun'
    BY <1>0, <1>1, <1>2, <1>3, <2>0 DEF FileOfRun, Whole, Working
  <2>2. AllCovered'
    BY <1>1, <1>2, <1>3, <2>0, SameRows DEF AllCovered, CoveredBy, Working
  <2> QED
    BY <2>1, <2>2
<1> QED
  BY <1>4, <1>5, <1>6, <1>7 DEF KeepInv

LEMMA ArchiveKeeps ==
    ASSUME Kept, TypeOK', NEW h \in Handlers, Archive(h)
    PROVE  KeepInv'
<1>0. /\ Serial /\ TypeOK /\ Bounds /\ Latest /\ RunAfter
      /\ UNCHANGED <<now, db, files, rows, started>>
      /\ \A g \in Handlers : g # h => run'[g] = run[g]
      /\ run[h].pc = "compare" /\ run[h].stamp \in Stamps
      /\ run'[h].pc = "archiving" /\ run'[h].row = run[h].row /\ run'[h].stamp = run[h].stamp
      /\ run'[h].db = run[h].db /\ run'[h].files = run[h].files
      /\ \A s \in Stamps : s # run[h].stamp => archives'[s] = archives[s]
      /\ archives'[run[h].stamp].state = "partial"
  BY ArchiveFields, Typed DEF Kept, KeepInv, Serial
<1>1. \A g \in Handlers : g # h => ~InRun(g)' /\ run'[g].pc \notin Working
  BY <1>0, NobodyElse DEF Working
<1>2. ASSUME NEW w \in writers'
      PROVE  w \in writers \/ (w.stamp = run[h].stamp /\ w.db = run[h].db /\ w.files = files)
  BY <1>0, ArchiveFields
<1>3. Bounds'
  <2>1. \A w \in writers' : w.db <= db /\ w.files <= files
    BY <1>0, <1>2, Typed DEF Bounds
  <2>2. \A s \in Stamps : Whole(s)' => Whole(s) /\ archives'[s] = archives[s]
    BY <1>0 DEF Whole
  <2> QED
    BY <1>0, <2>1, <2>2, SameRows DEF Bounds
<1>4. Latest'
  BY <1>0 DEF Latest, InRun
<1>5. RunAfter'
  BY <1>0, <1>1, SameRows DEF RunAfter, Working
<1>6. ASSUME Spaced' PROVE FileOfRun' /\ AllCovered'
  <2>0. FileOfRun /\ AllCovered
    BY <1>0, <1>6 DEF Spaced, Kept, KeepInv
  <2>1. FileOfRun'
    BY <1>0, <1>1, <1>2, <2>0, Typed DEF FileOfRun, Whole, Working
  <2>2. \A s \in Stamps : Whole(s) => archives'[s] = archives[s]
    BY <1>0, <2>0 DEF FileOfRun, Whole
  <2>3. ASSUME NEW i \in RowIds, Success(i)' PROVE CoveredBy(i, db, files)'
    <3>1. CoveredBy(i, db, files)
      BY <1>0, <2>0, <2>3, SameRows DEF AllCovered
    <3> QED
      BY <1>0, <2>2, <3>1 DEF CoveredBy, Covers, Whole
  <2> QED
    BY <1>0, <1>1, <2>1, <2>3 DEF AllCovered, Working
<1> QED
  BY <1>3, <1>4, <1>5, <1>6 DEF KeepInv

LEMMA WriterDoneKeeps ==
    ASSUME Kept, TypeOK', NEW w \in writers, WriterDone(w)
    PROVE  KeepInv'
<1>0. /\ Serial /\ TypeOK /\ Bounds /\ Latest /\ RunAfter
      /\ UNCHANGED <<now, db, files, rows, started>> /\ writers' = writers \ {w}
      /\ \A s \in Stamps : s # w.stamp => archives'[s] = archives[s]
      /\ w.stamp \in Stamps /\ w.db \in Nat /\ w.files \in Nat /\ files \in Nat
  BY WriterDoneFields, Typed DEF Kept, KeepInv, Serial
<1>1. \/ archives[w.stamp].state = "absent" /\ archives'[w.stamp] = archives[w.stamp]
      \/ /\ archives[w.stamp].state # "absent"
         /\ archives'[w.stamp].state = "whole" /\ archives'[w.stamp].db = w.db
         /\ archives'[w.stamp].files \in w.files .. files
  BY <1>0, WriterDoneFields
<1>2. ASSUME NEW g \in Handlers
      PROVE  \/ run'[g] = run[g] /\ ~(run[g].pc = "archiving" /\ run[g].stamp = w.stamp)
             \/ /\ run[g].pc = "archiving" /\ run[g].stamp = w.stamp
                /\ run'[g].pc = "prune" /\ run'[g].row = run[g].row /\ run'[g].stamp = run[g].stamp
                /\ run'[g].db = run[g].db /\ run'[g].files = run[g].files
  BY <1>0, WriterDoneFields, ReportFields
<1>3. Bounds'
  <2>1. \A g \in Handlers : run'[g].db <= db
    BY <1>0, <1>2 DEF Bounds
  <2>2. ASSUME NEW s \in Stamps, Whole(s)' PROVE archives'[s].db <= db /\ archives'[s].files <= files
    BY <1>0, <1>1, <2>2 DEF Bounds, Whole
  <2> QED
    BY <1>0, <2>1, <2>2, SameRows DEF Bounds
<1>4. Latest'
  BY <1>0, <1>2 DEF Latest, InRun
<1>5. RunAfter'
  BY <1>0, <1>2, SameRows DEF RunAfter
<1>6. ASSUME Spaced' PROVE FileOfRun' /\ AllCovered'
  <2>0. FileOfRun /\ AllCovered /\ WritersApart
    BY <1>0, <1>6 DEF Spaced, Kept, KeepInv, WholeInv, SpacedInv
  <2>1. \A s \in Stamps : Whole(s) => s # w.stamp /\ archives'[s] = archives[s]
    BY <1>0, <2>0 DEF FileOfRun, Whole
  <2>2. \A s \in Stamps : (archives'[s].state = "absent") <=> (archives[s].state = "absent")
    BY <1>0, <1>1
  <2>3. FileOfRun'
    <3>1. ASSUME NEW g \in Handlers
          PROVE  /\ run'[g].pc \in {"vacuum", "fingerprint", "compare"} =>
                       archives'[run'[g].stamp].state = "absent"
                 /\ run'[g].pc = "archiving" => archives'[run'[g].stamp].state # "absent"
                 /\ run'[g].pc \in {"prune", "success"} => Whole(run[g].stamp)'
                 /\ run'[g].stamp = run[g].stamp
      <4>1. run[g].stamp \in Stamps
        BY <1>0, Typed
      <4>2. CASE run'[g] = run[g]
        BY <2>0, <2>1, <2>2, <4>1, <4>2 DEF FileOfRun, Whole
      <4>3. CASE run[g].pc = "archiving" /\ run[g].stamp = w.stamp /\ run'[g].pc = "prune"
        <5>1. archives[w.stamp].state # "absent"
          BY <2>0, <4>3 DEF FileOfRun
        <5> QED
          BY <1>1, <1>2, <4>3, <5>1 DEF Whole
      <4> QED
        BY <1>2, <4>2, <4>3
    <3>2. ASSUME NEW v \in writers, v # w PROVE v.stamp # w.stamp /\ v.stamp \in Stamps
      BY <1>0, <2>0, <3>2, Typed DEF WritersApart
    <3>3. \A v \in writers' : ~Whole(v.stamp)'
      BY <1>0, <2>0, <3>2 DEF FileOfRun, Whole
    <3> QED
      BY <3>1, <3>3 DEF FileOfRun, Whole
  <2>4. ASSUME NEW i \in RowIds, Success(i)
        PROVE  /\ CoveredBy(i, db, files)'
               /\ \A g \in Handlers :
                     /\ run'[g].pc = "fingerprint" => CoveredBy(i, run[g].db, files)'
                     /\ run'[g].pc = "compare" => CoveredBy(i, run[g].db, run[g].files)'
    <3>1. \A g \in Handlers : run'[g].pc \in {"fingerprint", "compare"} => run'[g] = run[g]
      BY <1>2
    <3> QED
      BY <1>0, <2>0, <2>1, <2>4, <3>1 DEF AllCovered, CoveredBy, Covers, Whole
  <2> QED
    BY <1>0, <2>3, <2>4, SameRows DEF AllCovered
<1> QED
  BY <1>3, <1>4, <1>5, <1>6 DEF KeepInv

\* The archive of the run that prunes, or that records, is the newest there is and
\* covers every success.
LEMMA RunCovers ==
    ASSUME Kept, Spaced, NEW h \in Handlers, run[h].pc \in {"prune", "success"}
    PROVE  /\ run[h].stamp \in Stamps
           /\ Newer(run[h].stamp) = {}
           /\ \A i \in RowIds : Success(i) =>
                 /\ run[h].stamp >= rows[i].stamp
                 /\ Covers(archives[run[h].stamp], rows[i], db, files)
           /\ archives[run[h].stamp].state = "whole"
           /\ archives[run[h].stamp].db = run[h].db /\ archives[run[h].stamp].db <= db
           /\ archives[run[h].stamp].files >= run[h].files /\ archives[run[h].stamp].files <= files
<1>1. /\ TypeOK /\ InRun(h) /\ Bounds /\ Latest /\ RunAfter /\ FileOfRun /\ StampsStarted /\ ArchiveOfRun
  BY DEF Kept, Serial, HandlersInStep, Working, InRun, KeepInv, WholeInv, SpacedInv
<1>2. /\ run[h].stamp \in Stamps /\ run[h].db \in Nat /\ run[h].files \in Nat
      /\ archives[run[h].stamp].files \in Nat
  BY <1>1, Typed
<1>3. Newer(run[h].stamp) = {}
  BY <1>1, <1>2 DEF Newer, Latest, StampsStarted
<1>4. /\ archives[run[h].stamp].state = "whole"
      /\ archives[run[h].stamp].db = run[h].db /\ archives[run[h].stamp].db <= db
      /\ archives[run[h].stamp].files >= run[h].files /\ archives[run[h].stamp].files <= files
  BY <1>1, <1>2 DEF FileOfRun, ArchiveOfRun, Bounds, Whole
<1>5. ASSUME NEW i \in RowIds, Success(i)
      PROVE  /\ run[h].stamp >= rows[i].stamp
             /\ Covers(archives[run[h].stamp], rows[i], db, files)
  <2>1. rows[i].stamp \in Stamps /\ rows[i].files \in Nat /\ rows[i].db \in Nat
    BY <1>1, Typed
  <2>2. run[h].stamp >= rows[i].stamp
    BY <1>1, <1>2, <1>5, <2>1, Ranges DEF Latest, StampsStarted, Stored, Success, Stamps
  <2>3. rows[i].db <= run[h].db /\ rows[i].files <= run[h].files
    BY <1>1, <1>5 DEF RunAfter
  <2> QED
    BY <1>2, <1>4, <2>1, <2>2, <2>3 DEF Covers
<1> QED
  BY <1>2, <1>3, <1>4, <1>5

LEMMA PruneKeeps ==
    ASSUME Kept, TypeOK', NEW h \in Handlers, Prune(h)
    PROVE  KeepInv'
<1>0. /\ Serial /\ TypeOK /\ Bounds /\ Latest /\ RunAfter
      /\ up /\ run[h].pc = "prune" /\ Goto(h, "success")
      /\ UNCHANGED <<now, db, files, rows, writers, started>>
      /\ archives' = [s \in Stamps |-> IF Cardinality(Newer(s)) >= Keep THEN NoFile ELSE archives[s]]
  BY DEF Prune, At, history, Kept, KeepInv, Serial
<1>1. /\ \A g \in Handlers : g # h => run'[g] = run[g]
      /\ run'[h].pc = "success" /\ run'[h].row = run[h].row /\ run'[h].stamp = run[h].stamp
      /\ run'[h].db = run[h].db /\ run'[h].files = run[h].files
  BY <1>0, GotoFields
<1>2. \A g \in Handlers : g # h => ~InRun(g)' /\ run'[g].pc \notin Working
  BY <1>0, <1>1, NobodyElse DEF Working
<1>3. \A s \in Stamps : archives'[s] = archives[s] \/ archives'[s].state = "absent"
  BY <1>0 DEF NoFile
<1>4. Bounds'
  BY <1>0, <1>1, <1>3, SameRows DEF Bounds, Whole
<1>5. Latest'
  BY <1>0, <1>1 DEF Latest, InRun
<1>6. RunAfter'
  BY <1>0, <1>1, SameRows DEF RunAfter
<1>7. ASSUME Spaced' PROVE FileOfRun' /\ AllCovered'
  <2>0. Spaced /\ FileOfRun
    BY <1>0, <1>7 DEF Spaced, Kept, KeepInv
  <2>1. archives'[run[h].stamp] = archives[run[h].stamp]
    <3>1. Cardinality(Newer(run[h].stamp)) = 0
      BY <1>0, <2>0, RunCovers, FS_EmptySet
    <3>2. run[h].stamp \in Stamps /\ ~(0 >= Keep)
      BY <1>0, <2>0, RunCovers, KeepAssumption
    <3> QED
      BY <1>0, <3>1, <3>2
  <2>2. FileOfRun'
    <3>1. archives'[run[h].stamp].state = "whole"
      BY <1>0, <2>0, <2>1, RunCovers
    <3>2. \A w \in writers : ~Whole(w.stamp)'
      BY <1>0, <1>3, <2>0, Typed DEF FileOfRun, Whole
    <3> QED
      BY <1>0, <1>1, <1>2, <3>1, <3>2 DEF FileOfRun, Whole, Working
  <2>3. ASSUME NEW i \in RowIds, Success(i) PROVE CoveredBy(i, db, files)'
    BY <1>0, <2>0, <2>1, <2>3, RunCovers DEF CoveredBy
  <2> QED
    BY <1>0, <1>1, <1>2, <2>2, <2>3, SameRows DEF AllCovered, Working
<1> QED
  BY <1>4, <1>5, <1>6, <1>7 DEF KeepInv

LEMMA RecordKeeps ==
    ASSUME Kept, TypeOK', NEW h \in Handlers, Record(h)
    PROVE  KeepInv'
<1>0. /\ Serial /\ TypeOK /\ Bounds /\ Latest /\ RunSees
      /\ run[h].pc \in {"success", "skipped", "failed"} /\ InRun(h)
      /\ UNCHANGED <<now, db, files, archives, writers, started>>
      /\ \A g \in Handlers : g # h => run'[g] = run[g]
      /\ run'[h].pc \in {"idle", "pause"} /\ run'[h].row = 0 /\ run'[h].db = 0
      /\ db \in Nat
  BY RecordFields, Typed DEF Kept, KeepInv, Serial, WholeInv
<1>i. PICK i \in RowIds : i = run[h].row
  BY <1>0, InRunRow
<1>1. \A g \in Handlers : ~InRun(g)' /\ run'[g].pc \notin Working
  <2>1. \A g \in Handlers : g # h => ~InRun(g)' /\ run'[g].pc \notin Working
    BY <1>0, NobodyElse DEF Working
  <2> QED
    BY <1>0, <2>1 DEF InRun, Working
<1>2. ASSUME NEW j \in RowIds, Success(j)'
      PROVE  \/ Success(j) /\ rows'[j] = rows[j]
             \/ /\ run[h].pc = "success" /\ rows'[j].stamp = run[h].stamp
                /\ rows'[j].db = run[h].db /\ rows'[j].files = run[h].files
  <2>1. CASE j # i
    BY <1>i, <1>2, <2>1, RecordFields, Zenon DEF Kept, Success
  <2>2. CASE j = i
    <3>1. /\ rows'[i].status = run[h].pc /\ rows'[i].stamp = rows[i].stamp /\ Stored(i)
          /\ rows'[i].db = run[h].db /\ rows'[i].files = run[h].files
      BY <1>0, <1>i, <1>2, <2>2, RecordFields DEF Success, Stored
    <3>2. rows[i].stamp = run[h].stamp
      BY <1>0, <1>i, <3>1 DEF Kept, WholeInv, RunOwnsRow, Stored
    <3> QED
      BY <1>2, <2>2, <3>1, <3>2 DEF Success
  <2> QED
    BY <2>1, <2>2
<1>3. Bounds'
  <2>1. ASSUME NEW j \in RowIds, Success(j)' PROVE rows'[j].db <= db /\ rows'[j].files <= files
    BY <1>0, <1>2, <2>1 DEF Bounds, RunSees
  <2>2. \A g \in Handlers : run'[g].db <= db
    BY <1>0 DEF Bounds
  <2> QED
    BY <1>0, <2>1, <2>2 DEF Bounds, Whole
<1>4. Latest'
  BY <1>0, <1>1 DEF Latest
<1>5. RunAfter'
  BY <1>1 DEF RunAfter, Working
<1>6. ASSUME Spaced' PROVE FileOfRun' /\ AllCovered'
  <2>0. Spaced /\ FileOfRun /\ AllCovered
    BY <1>0, <1>6 DEF Spaced, Kept, KeepInv
  <2>1. FileOfRun'
    BY <1>0, <1>1, <2>0 DEF FileOfRun, Whole, Working
  <2>2. ASSUME NEW j \in RowIds, Success(j)' PROVE CoveredBy(j, db, files)'
    <3>1. CASE Success(j) /\ rows'[j] = rows[j]
      BY <1>0, <2>0, <3>1 DEF AllCovered, CoveredBy
    <3>2. CASE /\ run[h].pc = "success" /\ rows'[j].stamp = run[h].stamp
               /\ rows'[j].db = run[h].db /\ rows'[j].files = run[h].files
      <4>1. run[h].stamp \in Stamps /\ run[h].db \in Nat
        BY <1>0, Typed
      <4>2. Covers(archives[run[h].stamp], rows'[j], db, files)
        BY <2>0, <3>2, <4>1, RunCovers DEF Covers
      <4>3. run[h].stamp >= rows'[j].stamp
        BY <3>2, <4>1 DEF Stamps
      <4> QED
        BY <1>0, <4>1, <4>2, <4>3 DEF CoveredBy
    <3> QED
      BY <1>2, <2>2, <3>1, <3>2
  <2> QED
    BY <1>1, <2>1, <2>2 DEF AllCovered, Working
<1> QED
  BY <1>3, <1>4, <1>5, <1>6 DEF KeepInv

LEMMA NextKeeps ==
    ASSUME Kept, ~Deleting, ~Deleting', [Next]_vars
    PROVE  Kept'
<1>1. Serial' /\ TypeOK' /\ WholeInv'
  BY NextSerial, NextWhole DEF Kept, Serial
<1> SUFFICES KeepInv'
  BY <1>1 DEF Kept
<1>2. ASSUME Keeping PROVE KeepInv'
  BY <1>1, <1>2, KeepingKeeps
<1>3. ASSUME NEW h \in Handlers, Begin(h) \/ RunStep(h) \/ RunError(h) PROVE KeepInv'
  <2>1. ASSUME Vacuum(h) PROVE run'[h].pc \in {"failed", "fingerprint"}
    BY <2>1, VacuumFields DEF Kept, Serial
  <2> QED
    BY <1>1, <1>2, <1>3, <2>1, BeginKeeps, LookKeeps, ArchiveKeeps, PruneKeeps, RecordKeeps, RunKeeps
    DEF RunStep, RunError
<1>4. CASE WriterStep
  <2>1. PICK w \in writers : WriterDone(w) \/ WriterFails(w)
    BY <1>4 DEF WriterStep
  <2> QED
    BY <1>1, <1>2, <2>1, WriterDoneKeeps, WriterFailsKeeps
<1>5. ASSUME NEW d \in Deleters, Delete(d) PROVE FALSE
  <2>1. del[d].pc = "idle"
    BY DEF Deleting
  <2>2. PICK i \in RowIds : DeleteRead(d, i)
    BY <1>5, <2>1 DEF Delete, DeleteFile, DeleteRow, DeleteStops
  <2>3. del'[d].pc = "unlink"
    BY <2>2 DEF DeleteRead, Kept, Serial, TypeOK
  <2> QED
    BY <2>3 DEF Deleting
<1>6. ASSUME SchedulerStep \/ ChangeRows \/ ChangeUploads \/ Tick \/ UNCHANGED vars PROVE KeepInv'
  BY <1>2, <1>6, IdleKeeps
<1>7. CASE Crash \/ Restart
  BY <1>2, <1>7, ProcessKeeps
<1> QED
  BY <1>3, <1>4, <1>5, <1>6, <1>7 DEF Next, Stop

LEMMA InitKept == Init => Kept /\ ~Deleting
<1> SUFFICES ASSUME Init PROVE Kept /\ ~Deleting
  OBVIOUS
<1>1. \A h \in Handlers : run[h].pc \in {"idle", "poll"} /\ run[h].row = 0 /\ run[h].db = 0
  BY SMT DEF Init, Idle
<1>2. \A i \in RowIds : ~Success(i)
  BY SMT DEF Init, NoRow, Success
<1>3. \A s \in Stamps : ~Whole(s)
  BY SMT DEF Init, NoFile, Whole
<1>4. writers = {} /\ db = 0 /\ \A s \in Stamps : started[s] = 0
  BY DEF Init
<1>5. ~Deleting
  BY SMT DEF Init, NoDelete, Deleting
<1>6. KeepInv
  BY <1>1, <1>2, <1>3, <1>4, SMT DEF KeepInv, Bounds, Latest, RunAfter, FileOfRun, AllCovered, InRun
<1> QED
  BY <1>5, <1>6, InitSerial, InitWhole DEF Kept

LEMMA KeptRestores == Kept => RestorePointRemains
<1> SUFFICES ASSUME Kept, Spaced, NEW i \in RowIds, Success(i)
             PROVE  \E s \in Stamps : s >= rows[i].stamp /\ Whole(s) /\ archives[s].db >= rows[i].db
  BY DEF RestorePointRemains
<1>1. CoveredBy(i, db, files)
  BY DEF Kept, KeepInv, AllCovered
<1>2. PICK s \in Stamps : s >= rows[i].stamp /\ Covers(archives[s], rows[i], db, files)
  BY <1>1 DEF CoveredBy
<1>3. archives[s].db \in Nat /\ rows[i].db \in Nat
  BY Typed DEF Kept, Serial
<1> QED
  BY <1>2, <1>3 DEF Covers, Whole

\* Only a run that compares equal fingerprints is skipped.
LEMMA OnlySkipSkips ==
    ASSUME Serial, [Next]_vars, NEW h \in Handlers, run[h].pc = "compare", run'[h].pc = "skipped"
    PROVE  UnchangedSince(h)
<1>0. TypeOK /\ up
  BY DEF Serial, HandlersInStep
<1>1. CASE Skip(h)
  BY <1>1 DEF Skip
<1>2. ASSUME NEW g \in Handlers, Begin(g) \/ RunStep(g) \/ RunError(g), ~Skip(h) PROVE FALSE
  <2>1. CASE g = h
    BY <1>0, <1>2, <2>1, BeginFields, ArchiveFields, RecordFields, GotoFields, ReleaseFields
    DEF RunStep, RunError, Vacuum, Fingerprint, Prune, RunFails, RecordFails, Cancel, At
  <2>2. CASE g # h
    BY <1>0, <1>2, <2>2, BeginFields, VacuumFields, FingerprintFields, ArchiveFields, RecordFields,
       GotoFields, ReleaseFields
    DEF RunStep, RunError, Skip, Prune, RunFails, RecordFails, Cancel
  <2> QED
    BY <2>1, <2>2
<1>3. CASE WriterStep
  BY <1>0, <1>3, ReportFields DEF WriterStep, WriterDone, WriterFails, WriterFailsAs
<1>4. CASE SchedulerStep
  <2>1. PICK pc \in {"due", "pause", "poll"} : Goto(Scheduler, pc)
    BY <1>4 DEF SchedulerStep, Poll, SchedulerBusy, Resume
  <2> QED
    BY <1>0, <2>1, Ranges, GotoFields
<1>5. CASE Crash
  <2>1. run'[h] = Idle
    BY <1>5 DEF Crash
  <2> QED
    BY <2>1, SMT DEF Idle
<1>6. CASE Restart
  <2>1. Restarted
    BY <1>6, Zenon DEF Restart
  <2> QED
    BY <1>0, <2>1 DEF Restarted
<1>7. ASSUME \/ \E d \in Deleters : Delete(d)
             \/ ChangeRows \/ ChangeUploads \/ Tick \/ Stop \/ UNCHANGED vars
      PROVE  FALSE
  <2>1. UNCHANGED run
    BY <1>7 DEF Delete, DeleteRead, DeleteFile, DeleteRow, DeleteStops, ChangeRows, ChangeUploads,
                Tick, Environment, Stop, vars
  <2> QED
    BY <2>1
<1> QED
  BY <1>1, <1>2, <1>3, <1>4, <1>5, <1>6, <1>7 DEF Next

LEMMA KeptSkips == Kept /\ [Next]_vars => SkipCovered
<1> SUFFICES ASSUME Kept, [Next]_vars, NEW h \in Handlers, Spaced,
                    run[h].pc = "compare", run'[h].pc = "skipped"
             PROVE  Saved(h)
  BY DEF SkipCovered
<1>1. PICK i \in RowIds : /\ LastFinished(i, {"success"})
                          /\ rows[i].db = run[h].db /\ rows[i].files = run[h].files
  BY OnlySkipSkips DEF Kept, UnchangedSince
<1>2. Success(i)
  BY <1>1 DEF LastFinished, Success
<1>3. CoveredBy(i, run[h].db, run[h].files)
  BY <1>2 DEF Kept, KeepInv, AllCovered
<1>4. PICK s \in Stamps : Covers(archives[s], rows[i], run[h].db, run[h].files)
  BY <1>3 DEF CoveredBy
<1>5. archives[s].db \in Nat /\ archives[s].files \in Nat /\ run[h].db \in Nat /\ run[h].files \in Nat
  BY Typed DEF Kept, Serial
<1> QED
  BY <1>1, <1>4, <1>5 DEF Covers, Saved, Whole

\* A history in which nobody deletes a backup never loses its restore point ...
THEOREM RetentionKeepsARestorePoint == Spec /\ []~Deleting => []RestorePointRemains
BY InitKept, NextKeeps, KeptRestores, PTL DEF Spec

\* ... and skips no backup that is needed.
THEOREM SkipsAreSafe == Spec /\ []~Deleting => [][SkipCovered]_vars
BY InitKept, NextKeeps, KeptSkips, PTL DEF Spec

\* The same of the behaviours that are model-checked, in which either an admin may
\* delete backups or nobody does.
DeletingInv == Serial /\ (~deleting => Kept /\ ~Deleting)

LEMMA InitDeleting == MCInit => DeletingInv
BY InitKept, InitSerial DEF MCInit, DeletingInv

LEMMA NextDeleting ==
    ASSUME DeletingInv, [MCNext]_<<vars, deleting>>
    PROVE  DeletingInv'
<1>1. [Next]_vars /\ UNCHANGED deleting
  BY DEF MCNext
<1>2. Serial'
  BY <1>1, NextSerial DEF DeletingInv
<1>3. ASSUME ~deleting PROVE Kept' /\ ~Deleting'
  <2>1. UNCHANGED del
    BY <1>3 DEF MCNext, vars
  <2>2. ~Deleting'
    BY <1>3, <2>1 DEF DeletingInv, Deleting
  <2> QED
    BY <1>1, <1>3, <2>2, NextKeeps DEF DeletingInv
<1> QED
  BY <1>1, <1>2, <1>3 DEF DeletingInv

\* Where nobody deletes a backup, retention never takes the last restore point.
THEOREM RestorePointIsKept == MCSpec => []RestorePointKept
<1>1. DeletingInv => RestorePointKept
  BY KeptRestores DEF DeletingInv, RestorePointKept
<1> QED
  BY <1>1, InitDeleting, NextDeleting, PTL DEF MCSpec

\* Where nobody deletes a backup, a skipped run leaves nothing unsaved.
THEOREM SkippedRunsAreCovered == MCSpec => SkipsAreCovered
<1>1. DeletingInv /\ [MCNext]_<<vars, deleting>> => [~deleting => SkipCovered]_vars
  BY KeptSkips DEF DeletingInv, MCNext
<1> QED
  BY <1>1, InitDeleting, NextDeleting, PTL DEF MCSpec, SkipsAreCovered

=============================================================================
