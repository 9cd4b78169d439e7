CONSTANTS
  WatchdogDrivers = {d1}
  Panic = panic
  Resets = {2}
  Others = {3}
  DoNothing = 0
  Second = 2
  MaxSeconds = 2
  TimersMaxTime = 7
  ClockMaxTime = 6
  MaxCounter = 2
  Day = 3
  MaxKeys = 3
  MaxBoots = 2
  Count = 1
  Averages = {}
  QuickPollCount = 2
  Elapsed = {55, 310}
  AcpiFails = TRUE
  Fans = {f}
  DellPosters = {p}
  MaxUpdates = 2
  Readers = {r1, r2}

SPECIFICATION Spec
CHECK_DEADLOCK FALSE

INVARIANT TypeOK
INVARIANT JobHasTimer
INVARIANT CountdownHonest
INVARIANT FirstGenerationPrivate
INVARIANT SecondPublishes
INVARIANT RegisteredWhenReady
INVARIANT SubmittedReadable
INVARIANT UpdateScheduled
INVARIANT CalledWithTarget
INVARIANT LastTargetApplied
INVARIANT ControlAgrees
INVARIANT RefreshComes
PROPERTY WakeCounterGrows
PROPERTY SleepStopsQuickPolls
PROPERTY SleepCompletes
PROPERTY EventuallyPublished
