CONSTANTS
  ThisMachine = FALSE
  MaxIncidents = 2
SPECIFICATION FairSpec
INVARIANTS
  OneOpenUnlessReopened
PROPERTIES
  FalseAlarmWithdrawn
  StatusRecovers
  NewOutageNoticed
