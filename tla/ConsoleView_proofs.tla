------------------------- MODULE ConsoleView_proofs -------------------------
(***************************************************************************)
(* Proofs about ConsoleView, for any workspaces, permissions and lists.    *)
(***************************************************************************)
EXTENDS ConsoleView, TLAPS

LEMMA Sets == /\ First \in Spaces /\ Nothing \notin Spaces /\ First # Nothing
              /\ Spaces \subseteq Selections /\ Nothing \in Selections
              /\ MaxCalls \in Nat /\ MaxActs \in Nat
              /\ \A w \in Selections : w \in Spaces \/ w = Nothing
BY ViewConstants DEF Selections

LEMMA SelectedIsListed == \A w \in Selections : Selected(w) \in Spaces
BY Sets DEF Selected

LEMMA TypeInit == Init => TypeOK
<1>1. SUFFICES ASSUME Init PROVE TypeOK
  OBVIOUS
<1>2. 0 \in 0..MaxCalls /\ 1 \in 0..MaxCalls /\ 0 \in 0..MaxActs
  BY ViewConstants
<1>3. /\ asked \in [Selections -> 0..MaxCalls]
      /\ loads \in [Spaces -> 0..MaxCalls] /\ marks \in [Spaces -> 0..MaxCalls]
      /\ lists \in [Spaces -> [Lists -> 0..MaxCalls]]
      /\ \A w \in Spaces, l \in Lists : lists[w][l] = 0
  BY <1>1, <1>2 DEF Init
<1>4. /\ {authenticated, strayed, erred} \subseteq BOOLEAN
      /\ {workspace, permissions, chosen} \subseteq Selections
      /\ shown \in [Lists -> Selections] /\ acts \in 0..MaxActs
  BY <1>1, <1>2, Sets DEF Init
<1>5. \A w \in Spaces, l \in Lists : lists[w][l] > 0 => l \in Permitted[w]
  BY <1>3
<1> QED BY <1>3, <1>4, <1>5 DEF TypeOK

LEMMA TypeStep ==
  ASSUME TypeOK, [Next]_vars
  PROVE  TypeOK'
<1> USE Sets DEF TypeOK
<1>1. CASE Login
  <2>1. {strayed', erred'} \subseteq BOOLEAN
    BY <1>1 DEF Login, Act
  <2>3. acts' \in 0..MaxActs
    BY <1>1 DEF Login, Act
  <2>2. asked' \in [Selections -> 0..MaxCalls]
    BY <1>1 DEF Login
  <2>4. /\ authenticated' \in BOOLEAN
        /\ UNCHANGED <<workspace, permissions, shown, loads, lists, marks, chosen>>
    BY <1>1 DEF Login, screen
  <2> QED BY <2>1, <2>2, <2>3, <2>4
<1>2. CASE Logout
  <2>1. {strayed', erred'} \subseteq BOOLEAN
    BY <1>2 DEF Logout, Act
  <2>2. acts' \in 0..MaxActs
    BY <1>2 DEF Logout, Act
  <2>3. authenticated' \in BOOLEAN /\ workspace' = Nothing /\ chosen' = Nothing
    BY <1>2 DEF Logout
  <2>4. UNCHANGED <<permissions, shown, asked, loads, lists, marks>>
    BY <1>2 DEF Logout, calls
  <2> QED BY <2>1, <2>2, <2>3, <2>4
<1>3. CASE MarkRead
  BY <1>3 DEF MarkRead, Act, screen
<1>4. ASSUME NEW w \in Selections, Settle(w) PROVE TypeOK'
  <2> DEFINE s == Selected(w)
             left == [asked EXCEPT ![w] = @ - 1]
  <2>1. s \in Spaces /\ s \in Selections
    BY SelectedIsListed
  <2>2. left \in [Selections -> 0..MaxCalls]
    BY <1>4 DEF Settle
  <2>3. asked' \in [Selections -> 0..MaxCalls]
    BY <1>4, <2>1, <2>2 DEF Settle
  <2>4. loads' \in [Spaces -> 0..MaxCalls]
    BY <1>4, <2>1 DEF Settle
  <2> QED BY <1>4, <2>1, <2>3, <2>4 DEF Settle
<1>5. ASSUME NEW w \in Selections, SettleFails(w) PROVE TypeOK'
  <2>1. {authenticated', strayed', erred'} \subseteq BOOLEAN
    BY <1>5 DEF SettleFails
  <2>2. asked' \in [Selections -> 0..MaxCalls]
    BY <1>5 DEF SettleFails
  <2>3. UNCHANGED <<workspace, permissions, shown, loads, lists, marks, acts, chosen>>
    BY <1>5 DEF SettleFails, screen
  <2> QED BY <2>1, <2>2, <2>3
<1>6. ASSUME NEW w \in Spaces, Choose(w) PROVE TypeOK'
  <2>1. {strayed', erred'} \subseteq BOOLEAN
    BY <1>6 DEF Choose, Act
  <2>3. acts' \in 0..MaxActs
    BY <1>6 DEF Choose, Act
  <2>2. asked' \in [Selections -> 0..MaxCalls] /\ loads' \in [Spaces -> 0..MaxCalls]
    BY <1>6 DEF Choose
  <2>4. UNCHANGED <<authenticated, permissions, shown, lists, marks>> /\ workspace' = w /\ chosen' = w
    BY <1>6 DEF Choose
  <2> QED BY <2>1, <2>2, <2>3, <2>4
<1>7. ASSUME NEW w \in Spaces, Permissions(w) PROVE TypeOK'
  <2>1. lists' \in [Spaces -> [Lists -> 0..MaxCalls]]
    BY <1>7 DEF Permissions
  <2>2. shown' \in [Lists -> Selections]
    BY <1>7 DEF Permissions, Cleared
  <2>3. \A v \in Spaces, l \in Lists : lists'[v][l] > 0 => l \in Permitted[v]
    BY <1>7 DEF Permissions, Readable
  <2> QED BY <1>7, <2>1, <2>2, <2>3 DEF Permissions
<1>8. ASSUME NEW w \in Spaces, PermissionsFail(w) PROVE TypeOK'
  BY <1>8 DEF PermissionsFail, screen
<1>9. ASSUME NEW w \in Spaces, NEW l \in Lists, Answer(w, l) PROVE TypeOK'
  BY <1>9 DEF Answer
<1>10. ASSUME NEW w \in Spaces, NEW l \in Lists, AnswerFails(w, l) PROVE TypeOK'
  BY <1>10 DEF AnswerFails, screen
<1>11. ASSUME NEW w \in Spaces, Marked(w) PROVE TypeOK'
  BY <1>11 DEF Marked, screen
<1>12. ASSUME NEW w \in Spaces, MarkFails(w) PROVE TypeOK'
  BY <1>12 DEF MarkFails, screen
<1>13. CASE UNCHANGED vars
  BY <1>13 DEF vars, screen, calls
<1> QED BY <1>1, <1>2, <1>3, <1>4, <1>5, <1>6, <1>7, <1>8, <1>9, <1>10, <1>11,
      <1>12, <1>13 DEF Next

\* Whatever workspaces, lists and permissions there are, no call is awaited for
\* a list that the user may not read in its workspace (loadWorkspace asks for
\* those that my-permissions allows).
THEOREM ViewTypeCorrect == Spec => []TypeOK
BY TypeInit, TypeStep, PTL DEF Spec
-----------------------------------------------------------------------------
\* Answers are awaited for the selected workspace; one that useEffect asked for
\* when nothing was selected yet settles on the first workspace.
OnlySelectionAwaited ==
  \A v \in Selections : Awaits(v) /\ v # workspace => v = Nothing /\ workspace = First

Filled(l) ==
  IF l \in Permitted[workspace] THEN shown[l] = workspace \/ lists[workspace][l] > 0
  ELSE shown[l] = Nothing

\* The selected workspace will be loaded, or is, but for the lists awaited.
Loaded ==
  /\ workspace \in Spaces
  /\ \/ loads[workspace] > 0
     \/ permissions = workspace /\ \A l \in Lists : Filled(l)

\* What holds while the user has not acted across an answer and no call failed:
\* useEffect asks what to load, or it will be loaded.
Steady ==
  /\ OnlySelectionAwaited
  /\ authenticated => asked[workspace] > 0 \/ Loaded
  /\ workspace = chosen

ViewInv == TypeOK /\ (~strayed /\ ~erred => Steady)

LEMMA ViewInvInit == Init => ViewInv
BY TypeInit, Sets DEF Init, ViewInv, Steady, OnlySelectionAwaited, Awaits

\* Nothing but the selection w is awaited when the user acts.
LEMMA ActsOnItsOwn ==
  ASSUME NEW w, Act(w), ~strayed', ~erred'
  PROVE  ~strayed /\ ~erred /\ \A v \in Selections \ {w} : ~Awaits(v)
BY DEF Act

LEMMA ViewInvStep ==
  ASSUME ViewInv, [Next]_vars
  PROVE  ViewInv'
<1> USE Sets
<1>0. TypeOK /\ TypeOK'
  BY TypeStep DEF ViewInv
<1> SUFFICES ASSUME ~strayed', ~erred' PROVE Steady'
  BY <1>0 DEF ViewInv
<1>1. CASE Login
  <2>1. Steady /\ \A v \in Selections \ {workspace} : ~Awaits(v)
    BY <1>1, ActsOnItsOwn DEF Login, ViewInv
  <2>2. /\ UNCHANGED <<workspace, permissions, shown, loads, lists, marks, chosen>>
        /\ asked' = [asked EXCEPT ![workspace] = @ + 1] /\ workspace \in Selections
    BY <1>0, <1>1 DEF Login, screen, TypeOK
  <2>3. \A v \in Selections \ {workspace} : Awaits(v)' <=> Awaits(v)
    BY <1>0, <2>2 DEF Awaits, TypeOK
  <2>4. OnlySelectionAwaited'
    BY <2>1, <2>2, <2>3 DEF OnlySelectionAwaited
  <2>5. asked'[workspace] > 0
    BY <1>0, <2>2 DEF TypeOK
  <2> QED BY <2>1, <2>2, <2>4, <2>5 DEF Steady
<1>2. CASE Logout
  <2>1. \A v \in Selections \ {Nothing} : ~Awaits(v)
    BY <1>2, ActsOnItsOwn DEF Logout
  <2>2. /\ workspace' = Nothing /\ chosen' = Nothing /\ ~authenticated'
        /\ \A v \in Selections : Awaits(v)' <=> Awaits(v)
    BY <1>2 DEF Logout, calls, Awaits
  <2> QED BY <2>1, <2>2 DEF Steady, OnlySelectionAwaited
<1>3. CASE MarkRead
  <2>1. Steady /\ \A v \in Selections \ {workspace} : ~Awaits(v)
    BY <1>3, ActsOnItsOwn DEF MarkRead, ViewInv
  <2>2. /\ UNCHANGED <<authenticated, workspace, permissions, shown, asked, loads, lists, chosen>>
        /\ marks' = [marks EXCEPT ![workspace] = @ + 1] /\ workspace \in Selections
    BY <1>0, <1>3 DEF MarkRead, screen, TypeOK
  <2>3. \A v \in Selections \ {workspace} : Awaits(v)' <=> Awaits(v)
    BY <1>0, <2>2 DEF Awaits, TypeOK
  <2>4. OnlySelectionAwaited'
    BY <2>1, <2>2, <2>3 DEF OnlySelectionAwaited
  <2> QED BY <2>1, <2>2, <2>4 DEF Steady, Loaded, Filled
<1>4. ASSUME NEW w \in Selections, Settle(w) PROVE Steady'
  <2> DEFINE s == Selected(w)
  <2>1. /\ Steady /\ asked[w] > 0 /\ s \in Spaces /\ workspace' \in Spaces
        /\ UNCHANGED <<authenticated, permissions, shown, lists, marks>>
        /\ workspace' = s /\ loads' = [loads EXCEPT ![s] = @ + 1]
        /\ chosen' = IF chosen = Nothing THEN s ELSE chosen
    BY <1>4, SelectedIsListed DEF Settle, ViewInv
  <2>2. \A v \in Selections \ {s} : asked'[v] > 0 => asked[v] > 0
    <3> DEFINE left == [asked EXCEPT ![w] = @ - 1]
    <3>1. left \in [Selections -> Int] /\ \A v \in Selections : left[v] > 0 => asked[v] > 0
      BY <1>0 DEF TypeOK
    <3> HIDE DEF left
    <3>2. asked' = [left EXCEPT ![s] = @ + 1] \/ asked' = left
      BY <1>4 DEF Settle, left
    <3> QED BY <3>1, <3>2
  <2>3. \A v \in Selections \ {s} : Awaits(v)' => Awaits(v)
    BY <1>0, <2>1, <2>2 DEF Awaits, TypeOK
  <2>4. w # workspace => w = Nothing /\ workspace = First
    BY <2>1 DEF Steady, OnlySelectionAwaited, Awaits
  <2>5. s = IF workspace = Nothing THEN First ELSE workspace
    BY <1>0, <2>4 DEF Selected, TypeOK
  <2>6. OnlySelectionAwaited'
    <3>1. ASSUME NEW v \in Selections, v # s, Awaits(v) PROVE v = Nothing /\ s = First
      BY <2>1, <2>5, <3>1 DEF Steady, OnlySelectionAwaited
    <3> QED BY <2>1, <2>3, <3>1 DEF OnlySelectionAwaited
  <2>7. loads'[workspace'] > 0
    BY <1>0, <2>1 DEF TypeOK
  <2>8. workspace' = chosen' /\ workspace' # Nothing
    BY <2>1, <2>5 DEF Steady
  <2>9. Loaded'
    BY <2>1, <2>7 DEF Loaded
  <2> HIDE DEF s
  <2> QED BY <2>6, <2>8, <2>9 DEF Steady
<1>5. ASSUME NEW w \in Selections, SettleFails(w) PROVE FALSE
  BY <1>5 DEF SettleFails
<1>6. ASSUME NEW w \in Spaces, Choose(w) PROVE Steady'
  <2>1. \A v \in Selections \ {w} : ~Awaits(v)
    BY <1>6, ActsOnItsOwn DEF Choose
  <2>2. /\ workspace' = w /\ chosen' = w /\ UNCHANGED <<lists, marks>>
        /\ loads' = [loads EXCEPT ![w] = @ + 1] /\ asked' = [asked EXCEPT ![w] = @ + 1]
    BY <1>6 DEF Choose
  <2>3. \A v \in Selections \ {w} : ~Awaits(v)'
    BY <1>0, <2>1, <2>2 DEF Awaits, TypeOK
  <2>4. loads'[w] > 0
    BY <1>0, <2>2 DEF TypeOK
  <2> QED BY <2>2, <2>3, <2>4 DEF Steady, OnlySelectionAwaited, Loaded
\* Among the answers of a workspace, that is the selected one.
<1>7. ASSUME ~strayed, ~erred, NEW w \in Spaces, Awaits(w)
      PROVE  w = workspace /\ Steady
  BY <1>7 DEF ViewInv, Steady, OnlySelectionAwaited
<1>8. ASSUME NEW w \in Spaces, Permissions(w) PROVE Steady'
  <2>1. /\ UNCHANGED <<authenticated, workspace, asked, marks, chosen>>
        /\ loads[w] > 0 /\ loads' = [loads EXCEPT ![w] = @ - 1]
        /\ permissions' = w /\ shown' = Cleared(w)
        /\ lists' = [lists EXCEPT ![w] =
             [l \in Lists |-> IF l \in Permitted[w] THEN @[l] + 1 ELSE @[l]]]
        /\ ~strayed /\ ~erred
    BY <1>8 DEF Permissions, Readable
  <2>2. w = workspace /\ Steady
    BY <1>7, <2>1 DEF Awaits
  <2>3. \A v \in Selections \ {w} : Awaits(v)' => Awaits(v)
    BY <1>0, <2>1 DEF Awaits, TypeOK
  <2>4. OnlySelectionAwaited'
    BY <2>1, <2>2, <2>3 DEF Steady, OnlySelectionAwaited
  <2>5. ASSUME NEW l \in Lists PROVE Filled(l)'
    <3>1. l \in Permitted[w] => lists'[w][l] > 0
      BY <1>0, <2>1 DEF TypeOK
    <3>2. l \notin Permitted[w] => shown'[l] = Nothing
      BY <2>1 DEF Cleared
    <3> QED BY <2>1, <2>2, <3>1, <3>2 DEF Filled
  <2> QED BY <2>1, <2>2, <2>4, <2>5 DEF Steady, Loaded
<1>9. ASSUME NEW w \in Spaces, PermissionsFail(w) PROVE FALSE
  BY <1>9 DEF PermissionsFail
<1>10. ASSUME NEW w \in Spaces, NEW l \in Lists, Answer(w, l) PROVE Steady'
  <2>1. /\ UNCHANGED <<authenticated, workspace, permissions, asked, loads, marks, chosen>>
        /\ lists[w][l] > 0 /\ lists' = [lists EXCEPT ![w][l] = @ - 1]
        /\ shown' = [shown EXCEPT ![l] = w] /\ ~strayed /\ ~erred
    BY <1>10 DEF Answer
  <2>2. w = workspace /\ Steady /\ l \in Permitted[w]
    BY <1>0, <1>7, <2>1 DEF Awaits, TypeOK
  <2>3. \A v \in Selections \ {w} : Awaits(v)' => Awaits(v)
    BY <1>0, <2>1 DEF Awaits, TypeOK
  <2>4. OnlySelectionAwaited'
    BY <2>1, <2>2, <2>3 DEF Steady, OnlySelectionAwaited
  <2>5. ASSUME NEW k \in Lists, Filled(k) PROVE Filled(k)'
    <3>1. CASE k = l
      BY <1>0, <2>1, <2>2, <3>1 DEF Filled, TypeOK
    <3>2. CASE k # l
      <4>1. shown'[k] = shown[k] /\ lists'[w][k] = lists[w][k]
        BY <1>0, <2>1, <3>2 DEF TypeOK
      <4> QED BY <2>1, <2>2, <2>5, <4>1 DEF Filled
    <3> QED BY <3>1, <3>2
  <2> QED BY <2>1, <2>2, <2>4, <2>5 DEF Steady, Loaded
<1>11. ASSUME NEW w \in Spaces, NEW l \in Lists, AnswerFails(w, l) PROVE FALSE
  BY <1>11 DEF AnswerFails
<1>12. ASSUME NEW w \in Spaces, Marked(w) PROVE Steady'
  <2>1. /\ UNCHANGED <<authenticated, workspace, permissions, shown, asked, lists, chosen>>
        /\ marks[w] > 0 /\ marks' = [marks EXCEPT ![w] = @ - 1]
        /\ loads' = [loads EXCEPT ![w] = @ + 1] /\ ~strayed /\ ~erred
    BY <1>12 DEF Marked, screen
  <2>2. w = workspace /\ Steady
    BY <1>7, <2>1 DEF Awaits
  <2>3. \A v \in Selections \ {w} : Awaits(v)' => Awaits(v)
    BY <1>0, <2>1 DEF Awaits, TypeOK
  <2>4. OnlySelectionAwaited'
    BY <2>1, <2>2, <2>3 DEF Steady, OnlySelectionAwaited
  <2>5. loads'[w] > 0
    BY <1>0, <2>1 DEF TypeOK
  <2> QED BY <2>1, <2>2, <2>4, <2>5 DEF Steady, Loaded
<1>13. ASSUME NEW w \in Spaces, MarkFails(w) PROVE Steady'
  <2>1. /\ UNCHANGED <<authenticated, workspace, permissions, shown, asked, loads, lists, chosen>>
        /\ marks[w] > 0 /\ marks' = [marks EXCEPT ![w] = @ - 1] /\ ~strayed /\ ~erred
    BY <1>13 DEF MarkFails, screen
  <2>2. w = workspace /\ Steady
    BY <1>7, <2>1 DEF Awaits
  <2>3. \A v \in Selections : Awaits(v)' => Awaits(v)
    BY <1>0, <2>1 DEF Awaits, TypeOK
  <2> QED BY <2>1, <2>2, <2>3 DEF Steady, OnlySelectionAwaited, Loaded, Filled
<1>14. CASE UNCHANGED vars
  BY <1>14 DEF vars, screen, calls, ViewInv, Steady, OnlySelectionAwaited, Awaits,
     Loaded, Filled
<1> QED BY <1>1, <1>2, <1>3, <1>4, <1>5, <1>6, <1>8, <1>9, <1>10, <1>11, <1>12,
      <1>13, <1>14 DEF Next

\* For any number of workspaces, lists and calls under way: when every answer
\* has come, the tab shows the workspace that the user chose last, with its
\* permissions and its lists, unless the user acted while an answer of another
\* workspace was awaited or a call failed (App.tsx, useEffect, loadWorkspace).
THEOREM ShowsOneWorkspace == Spec => []OneWorkspaceShown
<1>1. ViewInv => OneWorkspaceShown
  <2>1. SUFFICES ASSUME ViewInv, authenticated, Quiet, ~strayed, ~erred
                 PROVE  /\ workspace = chosen /\ permissions = workspace
                        /\ workspace \in Spaces
                        /\ \A l \in Lists : shown[l] = Content(workspace, l)
    BY DEF OneWorkspaceShown
  <2>2. Steady /\ TypeOK
    BY <2>1 DEF ViewInv
  <2>3. workspace \in Spaces /\ Loaded
    BY <2>1, <2>2, Sets DEF Steady, Loaded, Quiet, Awaits, TypeOK
  <2>4. ~(loads[workspace] > 0) /\ \A l \in Lists : ~(lists[workspace][l] > 0)
    BY <2>1, <2>3, Sets DEF Quiet, Awaits
  <2> QED BY <2>2, <2>3, <2>4 DEF Steady, Loaded, Filled, Content
<1> QED BY <1>1, ViewInvInit, ViewInvStep, PTL DEF Spec
=============================================================================
