------------------------- MODULE MCAttachmentQuota -------------------------
(***************************************************************************)
(* Small instances of AttachmentQuota for TLC: one API process, as the     *)
(* image starts it, or two that split the uploads.                         *)
(***************************************************************************)
EXTENDS AttachmentQuota, TLC

CONSTANTS u1   \* an upload that the second process serves, when there is one

OneProcess == {"p1"}
TwoProcesses == {"p1", "p2"}
AllOnOne == [r \in Requests |-> "p1"]
Split == [r \in Requests |-> IF r = u1 THEN "p2" ELSE "p1"]
=============================================================================
