\* An upload to a workspace near its quota, and the one after it, on one process.
SPECIFICATION FairSpec
CONSTANTS
  Uploads = {u1, u2}
  Writers = {}
  Listings = {}
  u1 = u1
  Processes <- OneProcess
  ProcessOf <- AllOnOne
  Nobody = Nobody
  MaxBytes = 2
  Quota = 2
CHECK_DEADLOCK FALSE
PROPERTY LoopComesBack
