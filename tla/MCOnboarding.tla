---------------------------- MODULE MCOnboarding ----------------------------
(***************************************************************************)
(* Small instances of Onboarding for TLC: two processes that create the    *)
(* system rows in different orders, two accounts, one name of workspace.   *)
(***************************************************************************)
EXTENDS Onboarding, TLC

Row(code) == <<code, 0>>

Rows == {Row("read"), Row("write"), Row("admin")}

TwoOrders ==
  [p1 |-> <<Row("read"), Row("write"), Row("admin")>>,
   p2 |-> <<Row("write"), Row("read"), Row("admin")>>]

CONSTANTS r1, b1, b2, c1, c2

EmailMC == [r \in Requests |-> IF r \in {r1, b1, c1} THEN <<"ann@", 0>> ELSE <<"bob@", 0>>]
NameMC == [r \in Founders |-> "desk"]
ProcessMC == [r \in Requests |-> IF r \in {b1, c1} THEN "p1" ELSE "p2"]
=============================================================================
