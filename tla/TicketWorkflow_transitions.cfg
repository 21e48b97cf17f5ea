\* Two requests in two worker threads.
SPECIFICATION MCSpec
CONSTANTS
  Requests = {r1, r2}
  Closers = {r1, r2}
  NoRequest = NoRequest
  MaxInFlight = 2
  Users = {u1}
  NoUser = NoUser
  Columns = {priority}
  Values = {low, high}
  Keep = Keep
PROPERTY StatusFollowsStateMachine
