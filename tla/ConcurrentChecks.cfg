CONSTANTS
  worker = worker
  api = api
  Procs <- WorkerAndApi
  Worker = worker
  MaxIncidents = 2
  MaxCrashes = 1
SPECIFICATION FairSpec
INVARIANTS
  OneOpenPerProcess
  CopiesBounded
PROPERTIES
  NothingWrittenIsLost
  AnnouncedUnlessCrashed
  ClosesDespiteRaces
