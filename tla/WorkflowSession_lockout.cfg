CONSTANTS
  Runners = {"worker"}
  Worker = {"worker"}
  MaxLoginFailures = 3
  MaxIdle = 1
  Cooldown = 3
  Window = 1
  Limit = 10
  MaxRestarts = 0
  MaxUnheard = 10
SPECIFICATION WorkflowSpec
INVARIANT NeverLocked
