------------------------------ MODULE MCPortal ------------------------------
(***************************************************************************)
(* A small workspace: a task and room for another, two queues, a category  *)
(* and a tag, one ticket that may carry the tag and one a customer may     *)
(* open, two clients and two customers, and three requests.                *)
(***************************************************************************)
EXTENDS Portal, TLC

CONSTANTS r1, r2, r3

MCNoticeOf == ("k1" :> "n1") @@ ("k2" :> "n2")
MCTableOf  == ("q1" :> "queue") @@ ("q2" :> "queue") @@ ("c1" :> "category") @@ ("g1" :> "tag")
MCTagOf    == ("p1" :> "g1")
MCClientOf == ("e1" :> "a") @@ ("e2" :> "a")

Client(g) == [is_active |-> "yes", organization |-> g]

MCStart(other, tag, pair, links, threads) ==
  ("k1" :> [status |-> "open", completed_at |-> "never"])
  @@ ("n1" :> [user |-> "op", read_at |-> "never"])
  @@ ("k2" :> Absent) @@ ("n2" :> Absent)
  @@ ("q1" :> [name |-> "x", is_active |-> "yes"]) @@ ("q2" :> Absent) @@ ("c1" :> Absent)
  @@ ("g1" :> tag) @@ ("p1" :> pair)
  @@ ("o1" :> Absent) @@ ("a" :> Client(None)) @@ ("b" :> other)
  @@ ("e1" :> "kept") @@ ("e2" :> Absent)
  @@ ("t1" :> [client |-> "a", threads |-> threads]) @@ ("t2" :> Absent)
  @@ ("links" :> links)

\* Nothing was shared yet; a tag and a link were; a customer has written too.
MCStarts ==
  LET link == [client |-> "a", user |-> "u"]
      tag  == [name |-> "x"]
  IN  {MCStart(Absent, Absent, Absent, {}, <<>>),
       MCStart(Client(None), tag, None, {link}, <<>>),
       MCStart(Client(None), tag, Absent, {link}, <<NewThread(None, "web", {None})>>)}

AnyRequest == Permutations({r1, r2, r3})
=============================================================================
