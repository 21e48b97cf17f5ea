\* A registration, two bootstraps and a new workspace.
SPECIFICATION FairSpec
CONSTANTS
  r1 = r1
  b1 = b1
  b2 = b2
  c1 = c1
  c2 = c2
  Registers = {r1}
  Bootstraps = {b1, b2}
  Creators = {c1, c2}
  EmailOf <- EmailMC
  NameOf <- NameMC
  ProcessOf <- ProcessMC
  SystemRows <- Rows
  CreateOrder <- TwoOrders
  Free = Free
  Kept = Kept
CHECK_DEADLOCK FALSE
INVARIANTS TypeOK OnlyRacesFail
PROPERTIES ImplementsDirectory RequestsAreAnswered
