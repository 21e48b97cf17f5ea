---------------------------- MODULE ConsoleView ----------------------------
(***************************************************************************)
(* What one tab of the operator console shows (App.tsx): the selected      *)
(* workspace, its permissions and its lists.  Every choice asks the API,   *)
(* nothing cancels what was asked before, and each answer is applied when  *)
(* it comes: by useEffect, which looks the selection up again and may put  *)
(* back the one it was started with, and by loadWorkspace.                 *)
(*                                                                         *)
(* Calls of one kind for one workspace are counted, not told apart.        *)
(***************************************************************************)
EXTENDS Integers

CONSTANTS
  Spaces,     \* workspaces of the user, as GET /workspaces lists them
  First,      \* the first of them
  Lists,      \* lists that loadWorkspace fills
  Permitted,  \* those that the user may read in each workspace
  Nothing,    \* no workspace is selected; a list is empty
  MaxCalls,   \* bound: calls of one kind for one workspace
  MaxActs     \* bound: what the user does

ASSUME ViewConstants ==
  /\ First \in Spaces /\ Nothing \notin Spaces
  /\ Permitted \in [Spaces -> SUBSET Lists]
  /\ MaxCalls \in Nat \ {0} /\ MaxActs \in Nat

VARIABLES
  authenticated,
  workspace,    \* workspaceId
  permissions,  \* the workspace whose permissions are held
  shown,        \* the workspace that the items of each list are of
  asked,        \* answers of useEffect under way, by the workspaceId it saw
  loads,        \* loadWorkspace calls that wait for my-permissions
  lists,        \* calls for a list under way
  marks,        \* markRead calls under way
  acts,         \* what the user has done
  chosen,       \* history: what the user chose last
  strayed,      \* history: the user acted while an answer of another
                \* workspace was awaited
  erred         \* history: a call of useEffect or loadWorkspace failed

screen == <<workspace, permissions, shown>>
calls == <<asked, loads, lists, marks>>
vars == <<authenticated, screen, calls, acts, chosen, strayed, erred>>

Selections == Spaces \cup {Nothing}

\* What l shows when it was loaded for w: setter([]) where it may not be read.
Content(w, l) == IF l \in Permitted[w] THEN w ELSE Nothing

\* Something is under way for w.
Awaits(w) ==
  \/ asked[w] > 0
  \/ w \in Spaces /\ (loads[w] > 0 \/ marks[w] > 0 \/ \E l \in Lists : lists[w][l] > 0)

Quiet == \A w \in Selections : ~Awaits(w)
-----------------------------------------------------------------------------
\* The tab is opened or loaded again: sessionStorage may hold tokens and a
\* workspace, and useEffect starts with them.
Init ==
  /\ authenticated \in BOOLEAN /\ workspace \in Selections
  /\ permissions = Nothing
  /\ shown = [l \in Lists |-> Nothing]
  /\ asked = [w \in Selections |-> IF authenticated /\ w = workspace THEN 1 ELSE 0]
  /\ loads = [w \in Spaces |-> 0]
  /\ lists = [w \in Spaces |-> [l \in Lists |-> 0]]
  /\ marks = [w \in Spaces |-> 0]
  /\ acts = 0 /\ chosen = workspace /\ strayed = FALSE /\ erred = FALSE

\* The user does something, at a time when nothing of another workspace than
\* w is awaited, or astray.
Act(w) ==
  /\ acts < MaxActs /\ acts' = acts + 1
  /\ strayed' = (strayed \/ \E v \in Selections \ {w} : Awaits(v))
  /\ UNCHANGED erred

\* The selection of a workspace: loadWorkspace at once, and useEffect because
\* workspaceId has changed.
Choose(w) ==
  /\ authenticated /\ w # workspace /\ workspace # Nothing
  /\ asked[w] < MaxCalls /\ loads[w] < MaxCalls
  /\ Act(w)
  /\ workspace' = w /\ chosen' = w
  /\ loads' = [loads EXCEPT ![w] = @ + 1]
  /\ asked' = [asked EXCEPT ![w] = @ + 1]
  /\ UNCHANGED <<authenticated, permissions, shown, lists, marks>>

\* login, and useEffect because authenticated has changed.
Login ==
  /\ ~authenticated /\ asked[workspace] < MaxCalls
  /\ Act(workspace)
  /\ authenticated' = TRUE
  /\ asked' = [asked EXCEPT ![workspace] = @ + 1]
  /\ UNCHANGED <<screen, loads, lists, marks, chosen>>

\* logout clears the selection, and no list.
Logout ==
  /\ authenticated
  /\ Act(Nothing)
  /\ authenticated' = FALSE
  /\ workspace' = Nothing /\ chosen' = Nothing
  /\ UNCHANGED <<permissions, shown, calls>>

\* Mutant: useEffect runs again whatever it has set.
Reruns_Always(s) == authenticated

\* The dependencies of useEffect have changed when s is selected.
Reruns(s) == authenticated /\ s # workspace

\* The workspace useEffect saw, if the answer lists it.
Selected(w) == IF w \in Spaces THEN w ELSE First

\* The answer of useEffect: the selection it settles on is stored and loaded;
\* useEffect runs again if that changes workspaceId.
Settle(w) ==
  LET s == Selected(w)
      again == Reruns(s)
      left == [asked EXCEPT ![w] = @ - 1]
  IN  /\ asked[w] > 0 /\ loads[s] < MaxCalls
      /\ again => left[s] < MaxCalls
      /\ workspace' = s
      /\ loads' = [loads EXCEPT ![s] = @ + 1]
      /\ asked' = IF again THEN [left EXCEPT ![s] = @ + 1] ELSE left
      /\ chosen' = IF chosen = Nothing THEN s ELSE chosen
      /\ UNCHANGED <<authenticated, permissions, shown, lists, marks, acts, strayed, erred>>

\* useEffect's calls fail: the tab signs out and keeps its selection.
SettleFails(w) ==
  /\ asked[w] > 0
  /\ asked' = [asked EXCEPT ![w] = @ - 1]
  /\ authenticated' = FALSE /\ erred' = TRUE
  /\ UNCHANGED <<screen, loads, lists, marks, acts, chosen, strayed>>

\* Mutant: a list that may not be read is left as it was.
Cleared_Not(w) == shown

Cleared(w) == [l \in Lists |-> IF l \in Permitted[w] THEN shown[l] ELSE Nothing]

\* Mutant: the permissions are not looked at.
Readable_All(w) == Lists

Readable(w) == Permitted[w]

\* my-permissions answers: lists that may be read are asked for, the others
\* are emptied.
Permissions(w) ==
  /\ loads[w] > 0 /\ \A l \in Readable(w) : lists[w][l] < MaxCalls
  /\ loads' = [loads EXCEPT ![w] = @ - 1]
  /\ permissions' = w
  /\ shown' = Cleared(w)
  /\ lists' = [lists EXCEPT ![w] =
       [l \in Lists |-> IF l \in Readable(w) THEN @[l] + 1 ELSE @[l]]]
  /\ UNCHANGED <<authenticated, workspace, asked, marks, acts, chosen, strayed, erred>>

\* An error is shown beside what was loaded before.
PermissionsFail(w) ==
  /\ loads[w] > 0
  /\ loads' = [loads EXCEPT ![w] = @ - 1]
  /\ erred' = TRUE
  /\ UNCHANGED <<authenticated, screen, asked, lists, marks, acts, chosen, strayed>>

Answer(w, l) ==
  /\ lists[w][l] > 0
  /\ lists' = [lists EXCEPT ![w][l] = @ - 1]
  /\ shown' = [shown EXCEPT ![l] = w]
  /\ UNCHANGED <<authenticated, workspace, permissions, asked, loads, marks,
                 acts, chosen, strayed, erred>>

AnswerFails(w, l) ==
  /\ lists[w][l] > 0
  /\ lists' = [lists EXCEPT ![w][l] = @ - 1]
  /\ erred' = TRUE
  /\ UNCHANGED <<authenticated, screen, asked, loads, marks, acts, chosen, strayed>>

\* A notification is marked as read; then its workspace is loaded again.
MarkRead ==
  /\ authenticated /\ workspace # Nothing /\ marks[workspace] < MaxCalls
  /\ Act(workspace)
  /\ marks' = [marks EXCEPT ![workspace] = @ + 1]
  /\ UNCHANGED <<authenticated, screen, asked, loads, lists, chosen>>

Marked(w) ==
  /\ marks[w] > 0 /\ loads[w] < MaxCalls
  /\ marks' = [marks EXCEPT ![w] = @ - 1]
  /\ loads' = [loads EXCEPT ![w] = @ + 1]
  /\ UNCHANGED <<authenticated, screen, asked, lists, acts, chosen, strayed, erred>>

\* The error is nobody's; nothing is loaded.
MarkFails(w) ==
  /\ marks[w] > 0
  /\ marks' = [marks EXCEPT ![w] = @ - 1]
  /\ UNCHANGED <<authenticated, screen, asked, loads, lists, acts, chosen, strayed, erred>>

Next ==
  \/ Login \/ Logout \/ MarkRead
  \/ \E w \in Selections : Settle(w) \/ SettleFails(w)
  \/ \E w \in Spaces :
       \/ Choose(w) \/ Permissions(w) \/ PermissionsFail(w)
       \/ Marked(w) \/ MarkFails(w)
       \/ \E l \in Lists : Answer(w, l) \/ AnswerFails(w, l)

Spec == Init /\ [][Next]_vars

\* Every call is answered, one way or the other.
FairSpec ==
  /\ Spec
  /\ \A w \in Selections : WF_vars(Settle(w) \/ SettleFails(w))
  /\ \A w \in Spaces :
       /\ WF_vars(Permissions(w) \/ PermissionsFail(w))
       /\ WF_vars(Marked(w) \/ MarkFails(w))
       /\ \A l \in Lists : WF_vars(Answer(w, l) \/ AnswerFails(w, l))
-----------------------------------------------------------------------------
TypeOK ==
  /\ {authenticated, strayed, erred} \subseteq BOOLEAN
  /\ {workspace, permissions, chosen} \subseteq Selections
  /\ shown \in [Lists -> Selections]
  /\ asked \in [Selections -> 0..MaxCalls]
  /\ loads \in [Spaces -> 0..MaxCalls] /\ marks \in [Spaces -> 0..MaxCalls]
  /\ lists \in [Spaces -> [Lists -> 0..MaxCalls]]
  /\ \A w \in Spaces, l \in Lists : lists[w][l] > 0 => l \in Permitted[w]
  /\ acts \in 0..MaxActs

\* OneWorkspaceShown: when every answer has come, the selection is the user's
\* and the permissions and all lists are of that workspace, unless the user
\* acted while an answer of another workspace was awaited or a call failed.
\* (useEffect and loadWorkspace apply every answer, however late.)
OneWorkspaceShown ==
  authenticated /\ Quiet /\ ~strayed /\ ~erred =>
    /\ workspace = chosen /\ permissions = workspace
    /\ workspace \in Spaces /\ \A l \in Lists : shown[l] = Content(workspace, l)

\* ScreenComesToRest: once the user does nothing more, every answer comes and
\* asks for nothing again, whichever calls failed, unless the user ever acted
\* while an answer of another workspace was awaited.
ScreenComesToRest == <>[](Quiet \/ strayed)

\* SelectionSettles: once the user does nothing more, the selected workspace
\* stays the same.
SelectionSettles == <>[][UNCHANGED workspace]_vars
=============================================================================
