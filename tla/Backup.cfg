CONSTANTS
  Scheduler = scheduler
  Manuals = {m1}
  Deleters = {d1}
  None = None
  Keep = 1
  Interval = 1
  MinPoll = 1
  MaxRow = 2
  MaxNow = 2
  MaxVersion = 1
  MaxFaults = 1
SPECIFICATION MCSpec
INVARIANT RunsAreSerial
INVARIANT RunningIsThisProcess
INVARIANT SuccessIsWhole
INVARIANT RestorePointKept
PROPERTY SkipsAreCovered
PROPERTY BackupsGoOn
