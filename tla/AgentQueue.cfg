CONSTANTS
  Cap = 2
  MaxBeats = 4
  MaxCrashes = 1
SPECIFICATION FairSpec
INVARIANTS
  EvidenceKept
PROPERTY
  QueueDrains
