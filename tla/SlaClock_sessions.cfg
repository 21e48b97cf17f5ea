\* Two callers of POST /sla/evaluate, who take no lock, a reader, and two
\* requests whose events may commit in either order; three transactions of
\* these five are under way at one time.
SPECIFICATION Spec
CONSTANTS
  Objectives = {"first_response"}
  Schedulers = {}
  Callers = {c1, c2}
  Readers = {g1}
  Nobody = Nobody
  Policies <- MCPolicies
  DefaultSla <- MCDefault
  NoRow = NoRow
  NoTime = NoTime
  MaxTime = 2
  MaxSenders = 2
  MaxEvents = 2
CONSTRAINT ThreeOverlap
SYMMETRY Symmetry
INVARIANTS FlagsMatchNotifications NotificationsBounded StopsWereEarliest
PROPERTY DeadlinesNeverMove
