\* Three requests, two at a time, under the fairness of their worker threads.
SPECIFICATION MCFairSpec
CONSTANTS
  Requests = {r1, r2, r3}
  Closers = {r1, r2}
  NoRequest = NoRequest
  MaxInFlight = 2
  Users = {u1}
  NoUser = NoUser
  Columns = {priority}
  Values = {low, high}
  Keep = Keep
INVARIANTS TypeOK PointerFollowsWrites EventsFollowEarlierOnes
PROPERTIES EveryChangeIsAudited ImplementsLifecycle RequestsFinish
