\* Three requests of the service desk and the portal, in every overlap.
SPECIFICATION Spec
CONSTANTS
  r1 = r1
  r2 = r2
  r3 = r3
  None = None
  Absent = Absent
  Requests = {r1, r2, r3}
  Users = {"op", "u"}
  Members = {"op"}
  Names = {"x", "y"}
  Tasks = {"k1", "k2"}
  Notices = {"n1", "n2"}
  NoticeOf <- MCNoticeOf
  Lookups = {"q1", "q2", "c1", "g1"}
  TableOf <- MCTableOf
  Pairs = {"p1"}
  TagOf <- MCTagOf
  Organizations = {"o1"}
  Clients = {"a", "b"}
  Contacts = {"e1", "e2"}
  ClientOf <- MCClientOf
  Tickets = {"t1", "t2"}
  LinkTable = "links"
  Starts <- MCStarts
SYMMETRY AnyRequest
INVARIANTS
  TypeOK
  ChangesHold
PROPERTIES
  FailuresAreClashes
  ThreadStays
\* Each request is made once: when all are answered, nothing is left to do.
CHECK_DEADLOCK FALSE
