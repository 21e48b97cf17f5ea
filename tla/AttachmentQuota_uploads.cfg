\* Two processes: two uploads and a handler that inserts.
SPECIFICATION FairSpec
CONSTANTS
  Uploads = {u1, u2}
  Writers = {w1}
  Listings = {}
  u1 = u1
  Processes <- TwoProcesses
  ProcessOf <- Split
  Nobody = Nobody
  MaxBytes = 2
  Quota = 3
CHECK_DEADLOCK FALSE
INVARIANT WithinQuota
PROPERTIES ImplementsLedger LoopComesBack
