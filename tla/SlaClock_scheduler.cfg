\* Two scheduler processes and both objectives.
SPECIFICATION FairSpec
CONSTANTS
  Objectives = {"first_response", "resolution"}
  Schedulers = {s1, s2}
  Callers = {}
  Readers = {}
  Nobody = Nobody
  Policies <- NoPolicies
  DefaultSla <- MCDefault
  NoRow = NoRow
  NoTime = NoTime
  MaxTime = 4
  MaxSenders = 1
  MaxEvents = 1
INVARIANTS TypeOK NotificationsBounded VerdictMatchesHistory
PROPERTIES EveryObjectiveSettles EventsAreRecorded
