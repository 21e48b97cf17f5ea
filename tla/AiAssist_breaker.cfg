\* Redis comes and goes, the process restarts; connections are scarce.
SPECIFICATION FairSpec
CONSTANTS
  Assistants = {a1, a2}
  Others = {o1}
  Processes <- OneProcess
  ProcessOf <- AllOnOne
  Threshold = 2
  Cooldown = 2
  PoolSize = 2
  PoolTimeout = 1
  Window = 2
  Limit = 2
  MayBreak = TRUE
INVARIANTS TypeOK SuggestionsBounded FailuresBounded
PROPERTY BreakerCloses
