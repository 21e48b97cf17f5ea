------------------------- MODULE MCBrowserSessions -------------------------
(***************************************************************************)
(* Small instances of BrowserSessions for TLC.                             *)
(***************************************************************************)
EXTENDS BrowserSessions, TLC

\* One operator tab with two calls under way, one tab of the portal.
TwoTabs == {"console", "portal"}
OnlyPortal == {"portal"}
TwoAndOne == {"me", "spaces", "accounts"}
OwnTab == [c \in Calls |-> IF c = "accounts" THEN "portal" ELSE "console"]

\* Rows are told apart by nothing but who refers to them.
AnyRow == Permutations(Sessions)

=============================================================================
