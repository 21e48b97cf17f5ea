\* The defaults' proportions; as many calls as the pool has connections.
SPECIFICATION Spec
CONSTANTS
  Assistants = {a1, a2}
  Others = {o1}
  Processes <- OneProcess
  ProcessOf <- AllOnOne
  Threshold = 3
  Cooldown = 1
  PoolSize = 2
  PoolTimeout = 1
  Window = 2
  Limit = 12
  MayBreak = FALSE
INVARIANTS CoreIsServed
