--------------------------- MODULE MCConsoleView ---------------------------
(***************************************************************************)
(* Small instances of ConsoleView for TLC.                                 *)
(***************************************************************************)
EXTENDS ConsoleView, TLC

TwoSpaces == {"w1", "w2"}
TwoLists == {"tickets", "clients"}

\* In w2 the user may not read the clients.
NoClientsInW2 == [w \in Spaces |-> IF w = "w1" THEN Lists ELSE {"tickets"}]

=============================================================================
