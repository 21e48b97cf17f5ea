\* An operator tab and a portal tab share the cookie.
SPECIFICATION Spec
CONSTANTS
  Tabs <- TwoTabs
  Portal <- OnlyPortal
  Calls <- TwoAndOne
  TabOf <- OwnTab
  Sessions = {s1, s2, s3}
  NoSession = NoSession
SYMMETRY AnyRow
INVARIANTS TypeOK NothingIsLeftBehind
PROPERTY SignedOutForACause
