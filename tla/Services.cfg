CONSTANTS
  Runners = {"worker", "web"}
  Worker = {"worker"}
  MaxLoginFailures = 3
  MaxIdle = 1
  Cooldown = 3
  Window = 1
  Limit = 10
  MaxRestarts = 1
  MaxUnheard = 1
  Volumes = {"C:", "D:"}
  Links = {"dms to its database"}
  SixHours = 2
  Keep = 3
  MaxReleases = 5
  MaxEnrolments = 2
  MaxStops = 1
  Requests = {1, 2}
  Values = {1, 2}
  MaxVersions = 2
  Forms = {{"field"}, {"enabled"}}
  Day = 2
  MaxSwaps = 2
  Days = {0, 1, 2, 4}
  MaxOutage = 2
  MaxHeld = 2
  Items = {1, 2, 3}
  PerUser = {3}
  States = {1, 2}
  Cap = 1
  Applications <- SmallApplications
  Targets <- SmallTargets
  WindowDays = 14
  MaxProcesses = 2
  StallAfter = 4
  MaxAge = 30
SPECIFICATION FairSpec
INVARIANTS
  LoginsWithinLimit
  LinksRemembered
  DiagnosisAgrees
  DriftRecorded
  HeldMailGoesOnce
PROPERTIES
  LostSessionIsNoOutage
  WorkflowComesBack
  VolumesComeBack
  AgentReconnects
  UndoIsPossible
  CertificateFollows
  QuickCyclesSee
  NoFalseAlarm
  StallTold
CHECK_DEADLOCK FALSE
