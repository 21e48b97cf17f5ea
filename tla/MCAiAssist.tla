----------------------------- MODULE MCAiAssist -----------------------------
(***************************************************************************)
(* Small instances of AiAssist for TLC.  A tick stands for 30 seconds.     *)
(***************************************************************************)
EXTENDS AiAssist, TLC

OneProcess == {"p1"}
AllOnOne == [t \in Threads |-> "p1"]

=============================================================================
