CONSTANTS
  Warning = 1
  Critical = 2
  Measurements <- FiveReports
  Discoveries <- ThreeDiscoveries
  Watchlists <- TwoWatchlists
SPECIFICATION FairSpec
PROPERTIES
  ImplementsDebounce
  ProblemsTracked
