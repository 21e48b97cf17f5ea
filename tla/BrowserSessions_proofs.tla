------------------------ MODULE BrowserSessions_proofs ------------------------
(***************************************************************************)
(* Proofs about the refresh sessions of a browser, for any number of tabs, *)
(* calls and sessions.                                                     *)
(***************************************************************************)
EXTENDS BrowserSessions, TLAPS

Typed ==
  /\ live \subseteq Sessions /\ cookie \in Sessions \cup {NoSession}
  /\ access \in [Tabs -> AccessTokens]
  /\ signedIn \in [Tabs -> BOOLEAN] /\ loading \in [Tabs -> BOOLEAN]
  /\ op \in [Tabs -> {"none", "login", "welcome", "logout", "bye"}]
  /\ phase \in [Calls -> {"idle", "sent", "resent"} \cup Refreshing]
  /\ effect \in [Calls -> BOOLEAN] /\ bearer \in [Calls -> AccessTokens]
  /\ carried \in [Calls \cup Tabs -> Sessions \cup {NoSession}]
  /\ incidents \subseteq Both

LEMMA NewIsUnused ==
  ASSUME Unused # {}
  PROVE  New \in Unused
BY DEF New

\* A call that fails ends, and may sign its tab out.
Thrown(c) ==
  /\ phase' = [phase EXCEPT ![c] = "idle"]
  /\ effect' = [effect EXCEPT ![c] = FALSE]
  /\ bearer' = [bearer EXCEPT ![c] = "none"]
  /\ carried' = [carried EXCEPT ![c] = NoSession]
  /\ live' = live /\ cookie' = cookie /\ op' = op
  /\ loading' \in [Tabs -> BOOLEAN]
  /\ \A t \in Tabs : loading'[t] => loading[t] /\ (t = TabOf[c] => ~effect[c])
  /\ \/ access' = access /\ signedIn' = signedIn
     \/ /\ access' = [access EXCEPT ![TabOf[c]] = "none"]
        /\ signedIn' = [signedIn EXCEPT ![TabOf[c]] = FALSE]

\* What else is known of it.
Cause(c) ==
  /\ incidents \subseteq incidents' /\ incidents' \subseteq incidents \cup Both
  /\ \/ phase[c] = "asking" /\ carried[c] \notin live
     \/ phase[c] = "resent" /\ "ended" \in incidents'
     \/ Both \subseteq incidents'

Throws(c) == Deny(c) \/ Refused(c) \/ Lose(c) \/ Abort(c)

LEMMA CallThrown ==
  ASSUME Typed, NEW c \in Calls, Throws(c)
  PROVE  Thrown(c) /\ Cause(c)
<1>1. Thrown(c)
  BY SessionConstants DEF Throws, Deny, Refused, Lose, Abort, Throw, EndCall, Typed, Thrown
<1>2. Cause(c)
  BY DEF Throws, Deny, Refused, Lose, Abort, IsActive, Note, Both, Cause
<1> QED BY <1>1, <1>2

LEMMA TypedStays ==
  Typed /\ [Next]_vars => Typed'
<1> SUFFICES ASSUME Typed, [Next]_vars PROVE Typed'
  OBVIOUS
<1>0. \A c \in Calls : Throws(c) => Thrown(c) /\ Cause(c)
  BY CallThrown
<1> USE SessionConstants DEF Typed, tokens, tabs, calls, AccessTokens, Refreshing, Both, Unused
<1>1. ASSUME NEW t \in Tabs, Load(t) PROVE Typed'
  BY <1>1 DEF Load, Send
<1>2. ASSUME NEW t \in Tabs, Reopen(t) PROVE Typed'
  BY <1>2 DEF Reopen, Send
<1>3. ASSUME NEW t \in Tabs, Login(t) PROVE Typed'
  BY <1>3 DEF Login, Overlap, Note
<1>4. ASSUME NEW t \in Tabs, Logout(t) PROVE Typed'
  BY <1>4 DEF Logout, Overlap, Note
<1>5. ASSUME NEW t \in Tabs, LoginFails(t) PROVE Typed'
  BY <1>5 DEF LoginFails
<1>6. ASSUME NEW t \in Tabs, Issue(t) PROVE Typed'
  BY <1>6, NewIsUnused DEF Issue, Note
<1>7. ASSUME NEW t \in Tabs, Enter(t) PROVE Typed'
  BY <1>7 DEF Enter, Send, NextCookie
<1>8. ASSUME NEW t \in Tabs, Revoke(t) PROVE Typed'
  BY <1>8 DEF Revoke
<1>9. ASSUME NEW t \in Tabs, Leave(t) PROVE Typed'
  BY <1>9 DEF Leave, SignOut
<1>10. ASSUME NEW t \in Tabs, LoseLogout(t) PROVE Typed'
  BY <1>10 DEF LoseLogout, SignOut, Note
<1>11. ASSUME NEW t \in Tabs, LoseWelcome(t) PROVE Typed'
  BY <1>11 DEF LoseWelcome, Note
<1>12. ASSUME NEW t \in Tabs, ExpireAccess(t) PROVE Typed'
  BY <1>12 DEF ExpireAccess
<1>13. ASSUME NEW c \in Calls, Fetch(c) PROVE Typed'
  BY <1>13 DEF Fetch, Send
<1>14. ASSUME NEW c \in Calls, Served(c) PROVE Typed'
  BY <1>14 DEF Served, EndCall, StillLoading
<1>15. ASSUME NEW c \in Calls, Follow(c) PROVE Typed'
  BY <1>15 DEF Follow, Send
<1>16. ASSUME NEW c \in Calls, Refuse(c) PROVE Typed'
  BY <1>16 DEF Refuse, Overlap, Note
<1>17. ASSUME NEW c \in Calls, Check(c) PROVE Typed'
  BY <1>17 DEF Check, IsActive
<1>18. ASSUME NEW c \in Calls, Rotate(c) PROVE Typed'
  BY <1>18, NewIsUnused DEF Rotate, Rotated
<1>19. ASSUME NEW c \in Calls, Refreshed(c) PROVE Typed'
  BY <1>19 DEF Refreshed, NextCookie
<1>20. ASSUME NEW c \in Calls, Throws(c) PROVE Typed'
  <2>1. Thrown(c) /\ Cause(c)
    BY <1>20, <1>0
  <2>2. access' \in [Tabs -> AccessTokens]
    <3>1. "none" \in AccessTokens /\ access \in [Tabs -> AccessTokens]
      OBVIOUS
    <3>2. access' = access \/ access' = [access EXCEPT ![TabOf[c]] = "none"]
      BY <2>1 DEF Thrown
    <3> QED BY <3>1, <3>2
  <2>3. signedIn' \in [Tabs -> BOOLEAN]
    <3>1. signedIn' = signedIn \/ signedIn' = [signedIn EXCEPT ![TabOf[c]] = FALSE]
      BY <2>1 DEF Thrown
    <3> QED BY <3>1
  <2>4. effect' \in [Calls -> BOOLEAN]
    BY <2>1 DEF Thrown
  <2>5. phase' \in [Calls -> {"idle", "sent", "resent"} \cup Refreshing]
    BY <2>1 DEF Thrown
  <2>6. bearer' \in [Calls -> AccessTokens]
    BY <2>1 DEF Thrown
  <2>7. carried' \in [Calls \cup Tabs -> Sessions \cup {NoSession}]
    BY <2>1 DEF Thrown
  <2>8. /\ live' \subseteq Sessions /\ cookie' \in Sessions \cup {NoSession}
        /\ op' \in [Tabs -> {"none", "login", "welcome", "logout", "bye"}]
        /\ loading' \in [Tabs -> BOOLEAN] /\ incidents' \subseteq Both
    BY <2>1 DEF Thrown, Cause
  <2> QED BY <2>2, <2>3, <2>4, <2>5, <2>6, <2>7, <2>8
<1>21. ASSUME NEW s \in Sessions, ExpireSession(s) PROVE Typed'
  BY <1>21 DEF ExpireSession, Note
<1>22. CASE UNCHANGED vars
  BY <1>22 DEF vars
<1> QED
  BY <1>1, <1>2, <1>3, <1>4, <1>5, <1>6, <1>7, <1>8, <1>9, <1>10, <1>11, <1>12,
     <1>13, <1>14, <1>15, <1>16, <1>17, <1>18, <1>19, <1>20, <1>21, <1>22
  DEF Next, Conclude, Progress, Throws

\* An effect waits for a call that is under way.
Waits ==
  /\ \A t \in Tabs : loading[t] => \E c \in CallsOf(t) : effect[c]
  /\ \A c \in Calls : effect[c] => phase[c] # "idle"

LEMMA WaitsStay ==
  Typed /\ Waits /\ [Next]_vars => Waits'
<1> SUFFICES ASSUME Typed, Waits, [Next]_vars PROVE Waits'
  OBVIOUS
<1>0. \A c \in Calls : Throws(c) => Thrown(c) /\ Cause(c)
  BY CallThrown
<1> USE SessionConstants DEF Typed, Waits, CallsOf, tokens, tabs, calls
<1>1. ASSUME NEW t \in Tabs, Load(t) PROVE Waits'
  BY <1>1 DEF Load, Send
<1>2. ASSUME NEW t \in Tabs, Reopen(t) PROVE Waits'
  BY <1>2 DEF Reopen, Send
<1>3. ASSUME NEW t \in Tabs, Login(t) PROVE Waits'
  BY <1>3 DEF Login, Overlap, Note
<1>4. ASSUME NEW t \in Tabs, Logout(t) PROVE Waits'
  BY <1>4 DEF Logout, Overlap, Note
<1>5. ASSUME NEW t \in Tabs, LoginFails(t) PROVE Waits'
  BY <1>5 DEF LoginFails
<1>6. ASSUME NEW t \in Tabs, Issue(t) PROVE Waits'
  BY <1>6, NewIsUnused DEF Issue, Note
<1>7. ASSUME NEW t \in Tabs, Enter(t) PROVE Waits'
  BY <1>7 DEF Enter, Send, NextCookie
<1>8. ASSUME NEW t \in Tabs, Revoke(t) PROVE Waits'
  BY <1>8 DEF Revoke
<1>9. ASSUME NEW t \in Tabs, Leave(t) PROVE Waits'
  BY <1>9 DEF Leave, SignOut
<1>10. ASSUME NEW t \in Tabs, LoseLogout(t) PROVE Waits'
  BY <1>10 DEF LoseLogout, SignOut, Note
<1>11. ASSUME NEW t \in Tabs, LoseWelcome(t) PROVE Waits'
  BY <1>11 DEF LoseWelcome, Note
<1>12. ASSUME NEW t \in Tabs, ExpireAccess(t) PROVE Waits'
  BY <1>12 DEF ExpireAccess
<1>13. ASSUME NEW c \in Calls, Fetch(c) PROVE Waits'
  BY <1>13 DEF Fetch, Send
<1>14. ASSUME NEW c \in Calls, Served(c) PROVE Waits'
  BY <1>14 DEF Served, EndCall, StillLoading
<1>15. ASSUME NEW c \in Calls, Follow(c) PROVE Waits'
  BY <1>15 DEF Follow, Send
<1>16. ASSUME NEW c \in Calls, Refuse(c) PROVE Waits'
  BY <1>16 DEF Refuse, Overlap, Note
<1>17. ASSUME NEW c \in Calls, Check(c) PROVE Waits'
  BY <1>17 DEF Check, IsActive
<1>18. ASSUME NEW c \in Calls, Rotate(c) PROVE Waits'
  BY <1>18, NewIsUnused DEF Rotate, Rotated
<1>19. ASSUME NEW c \in Calls, Refreshed(c) PROVE Waits'
  BY <1>19 DEF Refreshed, NextCookie
<1>20. ASSUME NEW c \in Calls, Throws(c) PROVE Waits'
  <2>1. /\ phase' = [phase EXCEPT ![c] = "idle"] /\ effect' = [effect EXCEPT ![c] = FALSE]
        /\ \A t \in Tabs : loading'[t] => loading[t] /\ (t = TabOf[c] => ~effect[c])
    BY <1>20, <1>0 DEF Thrown
  <2>2. \A d \in Calls : effect'[d] => effect[d] /\ d # c /\ phase'[d] = phase[d]
    BY <2>1 DEF Typed
  <2>3. \A d \in Calls : effect[d] /\ d # c => effect'[d]
    BY <2>1 DEF Typed
  <2>4. ASSUME NEW t \in Tabs, loading'[t] PROVE \E d \in CallsOf(t) : effect'[d]
    <3>1. PICK d \in CallsOf(t) : effect[d]
      BY <2>1, <2>4 DEF Waits
    <3>2. d \in Calls /\ d # c
      BY <2>1, <2>4, <3>1 DEF CallsOf
    <3> QED BY <2>3, <3>1, <3>2
  <2> QED BY <2>2, <2>4 DEF Waits
<1>21. ASSUME NEW s \in Sessions, ExpireSession(s) PROVE Waits'
  BY <1>21 DEF ExpireSession, Note
<1>22. CASE UNCHANGED vars
  BY <1>22 DEF vars
<1> QED
  BY <1>1, <1>2, <1>3, <1>4, <1>5, <1>6, <1>7, <1>8, <1>9, <1>10, <1>11, <1>12,
     <1>13, <1>14, <1>15, <1>16, <1>17, <1>18, <1>19, <1>20, <1>21, <1>22
  DEF Next, Conclude, Progress, Throws

\* The answers on their way carry sessions of their own.
Own ==
  /\ \A x \in Delivering : carried[x] \in Sessions \ {cookie}
  /\ \A x, y \in Delivering : carried[x] = carried[y] => x = y

LEMMA OwnStays ==
  Typed /\ Own /\ [Next]_vars => Own'
<1> SUFFICES ASSUME Typed, Own, [Next]_vars PROVE Own'
  OBVIOUS
<1>0. \A c \in Calls : Throws(c) => Thrown(c) /\ Cause(c)
  BY CallThrown
<1> USE SessionConstants DEF Typed, Own, Delivering, Unused, tokens, tabs, calls
<1>1. ASSUME NEW t \in Tabs, Load(t) PROVE Own'
  BY <1>1 DEF Load, Send
<1>2. ASSUME NEW t \in Tabs, Reopen(t) PROVE Own'
  BY <1>2 DEF Reopen, Send
<1>3. ASSUME NEW t \in Tabs, Login(t) PROVE Own'
  BY <1>3 DEF Login, Overlap, Note
<1>4. ASSUME NEW t \in Tabs, Logout(t) PROVE Own'
  BY <1>4 DEF Logout, Overlap, Note
<1>5. ASSUME NEW t \in Tabs, LoginFails(t) PROVE Own'
  BY <1>5 DEF LoginFails
<1>6. ASSUME NEW t \in Tabs, Issue(t) PROVE Own'
  BY <1>6, NewIsUnused DEF Issue, Note
<1>7. ASSUME NEW t \in Tabs, Enter(t) PROVE Own'
  BY <1>7 DEF Enter, Send, NextCookie
<1>8. ASSUME NEW t \in Tabs, Revoke(t) PROVE Own'
  BY <1>8 DEF Revoke
<1>9. ASSUME NEW t \in Tabs, Leave(t) PROVE Own'
  BY <1>9 DEF Leave, SignOut
<1>10. ASSUME NEW t \in Tabs, LoseLogout(t) PROVE Own'
  BY <1>10 DEF LoseLogout, SignOut, Note
<1>11. ASSUME NEW t \in Tabs, LoseWelcome(t) PROVE Own'
  BY <1>11 DEF LoseWelcome, Note
<1>12. ASSUME NEW t \in Tabs, ExpireAccess(t) PROVE Own'
  BY <1>12 DEF ExpireAccess
<1>13. ASSUME NEW c \in Calls, Fetch(c) PROVE Own'
  BY <1>13 DEF Fetch, Send
<1>14. ASSUME NEW c \in Calls, Served(c) PROVE Own'
  BY <1>14 DEF Served, EndCall, StillLoading
<1>15. ASSUME NEW c \in Calls, Follow(c) PROVE Own'
  BY <1>15 DEF Follow, Send
<1>16. ASSUME NEW c \in Calls, Refuse(c) PROVE Own'
  BY <1>16 DEF Refuse, Overlap, Note
<1>17. ASSUME NEW c \in Calls, Check(c) PROVE Own'
  BY <1>17 DEF Check, IsActive
<1>18. ASSUME NEW c \in Calls, Rotate(c) PROVE Own'
  BY <1>18, NewIsUnused DEF Rotate, Rotated
<1>19. ASSUME NEW c \in Calls, Refreshed(c) PROVE Own'
  BY <1>19 DEF Refreshed, NextCookie
<1>20. ASSUME NEW c \in Calls, Throws(c) PROVE Own'
  BY <1>20, <1>0 DEF Thrown, Cause
<1>21. ASSUME NEW s \in Sessions, ExpireSession(s) PROVE Own'
  BY <1>21 DEF ExpireSession, Note
<1>22. CASE UNCHANGED vars
  BY <1>22 DEF vars
<1> QED
  BY <1>1, <1>2, <1>3, <1>4, <1>5, <1>6, <1>7, <1>8, <1>9, <1>10, <1>11, <1>12,
     <1>13, <1>14, <1>15, <1>16, <1>17, <1>18, <1>19, <1>20, <1>21, <1>22
  DEF Next, Conclude, Progress, Throws

-----------------------------------------------------------------------------
\* At most one request that can change the cookie is under way.
Alone == \A x, y \in Pending : x = y

\* What there is of sessions while nothing may have stranded one: the one that
\* the cookie holds, or the one of an answer that is on its way.
Kept ==
  "stranded" \notin incidents =>
    /\ Alone
    /\ Delivering = {} => live \subseteq {cookie}
    /\ \A x \in Delivering : live \subseteq {carried[x]}
    /\ \A c \in Calls : phase[c] \in {"asking", "rotating"} => carried[c] = cookie
    /\ \A t \in Tabs : /\ op[t] = "logout" => carried[t] = cookie
                       /\ op[t] = "bye" => live = {}

LEMMA KeptStays ==
  Typed /\ Own /\ Kept /\ [Next]_vars => Kept'
<1> SUFFICES ASSUME Typed, Own, Kept, [Next]_vars PROVE Kept'
  OBVIOUS
<1>0. \A c \in Calls : Throws(c) => Thrown(c) /\ Cause(c)
  BY CallThrown
<1> USE SessionConstants DEF Typed, Kept, Own, Alone, Pending, Delivering, Refreshing, Unused, Both, tokens, tabs, calls
<1>1. ASSUME NEW t \in Tabs, Load(t) PROVE Kept'
  <2>1. /\ \A d \in Calls : phase'[d] = phase[d] \/ (phase'[d] = "sent" /\ phase[d] \notin Refreshing)
        /\ live' = live /\ cookie' = cookie /\ carried' = carried /\ op' = op
        /\ incidents' = incidents
    BY <1>1 DEF Load, Send, CallsOf
  <2>2. Pending' = Pending /\ Delivering' = Delivering
    BY <2>1
  <2> HIDE DEF Pending, Delivering
  <2> QED BY <2>1, <2>2
<1>2. ASSUME NEW t \in Tabs, Reopen(t) PROVE Kept'
  <2>1. /\ \A d \in Calls : phase'[d] = phase[d] \/ (phase'[d] = "sent" /\ phase[d] \notin Refreshing)
        /\ live' = live /\ cookie' = cookie /\ carried' = carried /\ op' = op
        /\ incidents' = incidents
    BY <1>2 DEF Reopen, Send, CallsOf
  <2>2. Pending' = Pending /\ Delivering' = Delivering
    BY <2>1
  <2> HIDE DEF Pending, Delivering
  <2> QED BY <2>1, <2>2
<1>3. ASSUME NEW t \in Tabs, Login(t) PROVE Kept'
  BY <1>3 DEF Login, Overlap, Note
<1>4. ASSUME NEW t \in Tabs, Logout(t) PROVE Kept'
  BY <1>4 DEF Logout, Overlap, Note
<1>5. ASSUME NEW t \in Tabs, LoginFails(t) PROVE Kept'
  BY <1>5 DEF LoginFails
<1>6. ASSUME NEW t \in Tabs, Issue(t) PROVE Kept'
  BY <1>6, NewIsUnused DEF Issue, Note
<1>7. ASSUME NEW t \in Tabs, Enter(t) PROVE Kept'
  BY <1>7 DEF Enter, Send, NextCookie
<1>8. ASSUME NEW t \in Tabs, Revoke(t) PROVE Kept'
  BY <1>8 DEF Revoke
<1>9. ASSUME NEW t \in Tabs, Leave(t) PROVE Kept'
  BY <1>9 DEF Leave, SignOut
<1>10. ASSUME NEW t \in Tabs, LoseLogout(t) PROVE Kept'
  BY <1>10 DEF LoseLogout, SignOut, Note
<1>11. ASSUME NEW t \in Tabs, LoseWelcome(t) PROVE Kept'
  BY <1>11 DEF LoseWelcome, Note
<1>12. ASSUME NEW t \in Tabs, ExpireAccess(t) PROVE Kept'
  BY <1>12 DEF ExpireAccess
<1>13. ASSUME NEW c \in Calls, Fetch(c) PROVE Kept'
  <2>1. /\ \A d \in Calls : phase'[d] = phase[d] \/ (phase'[d] = "sent" /\ phase[d] \notin Refreshing)
        /\ live' = live /\ cookie' = cookie /\ carried' = carried /\ op' = op
        /\ incidents' = incidents
    BY <1>13 DEF Fetch, Send
  <2>2. Pending' = Pending /\ Delivering' = Delivering
    BY <2>1
  <2> HIDE DEF Pending, Delivering
  <2> QED BY <2>1, <2>2
<1>14. ASSUME NEW c \in Calls, Served(c) PROVE Kept'
  BY <1>14 DEF Served, EndCall, StillLoading
<1>15. ASSUME NEW c \in Calls, Follow(c) PROVE Kept'
  <2>1. /\ \A d \in Calls : phase'[d] = phase[d] \/ (phase'[d] = "sent" /\ phase[d] \notin Refreshing)
        /\ live' = live /\ cookie' = cookie /\ carried' = carried /\ op' = op
        /\ incidents' = incidents
    BY <1>15 DEF Follow, Send
  <2>2. Pending' = Pending /\ Delivering' = Delivering
    BY <2>1
  <2> HIDE DEF Pending, Delivering
  <2> QED BY <2>1, <2>2
<1>16. ASSUME NEW c \in Calls, Refuse(c) PROVE Kept'
  BY <1>16 DEF Refuse, Overlap, Note
<1>17. ASSUME NEW c \in Calls, Check(c) PROVE Kept'
  BY <1>17 DEF Check, IsActive
<1>18. ASSUME NEW c \in Calls, Rotate(c) PROVE Kept'
  BY <1>18, NewIsUnused DEF Rotate, Rotated
<1>19. ASSUME NEW c \in Calls, Refreshed(c) PROVE Kept'
  BY <1>19 DEF Refreshed, NextCookie
<1>20. ASSUME NEW c \in Calls, Throws(c) PROVE Kept'
  BY <1>20, <1>0 DEF Thrown, Cause
<1>21. ASSUME NEW s \in Sessions, ExpireSession(s) PROVE Kept'
  BY <1>21 DEF ExpireSession, Note
<1>22. CASE UNCHANGED vars
  BY <1>22 DEF vars
<1> QED
  BY <1>1, <1>2, <1>3, <1>4, <1>5, <1>6, <1>7, <1>8, <1>9, <1>10, <1>11, <1>12,
     <1>13, <1>14, <1>15, <1>16, <1>17, <1>18, <1>19, <1>20, <1>21, <1>22
  DEF Next, Conclude, Progress, Throws

\* What there is of them while no session of a tab may have ended: a tab that
\* is signed in can be refreshed.
Calm ==
  "ended" \notin incidents =>
    /\ Alone
    /\ \A c \in Calls : phase[c] # "idle" => signedIn[TabOf[c]]
    /\ \A t \in Tabs : op[t] \in {"none", "login", "welcome"}
    /\ \A t \in Tabs : access[t] # "none" => signedIn[t]
    /\ \A x \in Delivering : carried[x] \in live
    /\ \A c \in Calls : phase[c] \in {"asking", "rotating"} => carried[c] = cookie /\ cookie \in live
    /\ \A t \in Tabs : signedIn[t] => cookie \in live \/ \E c \in Calls : phase[c] = "rotated"

LEMMA CalmStays ==
  Typed /\ Own /\ Calm /\ [Next]_vars => Calm'
<1> SUFFICES ASSUME Typed, Own, Calm, [Next]_vars PROVE Calm'
  OBVIOUS
<1>0. \A c \in Calls : Throws(c) => Thrown(c) /\ Cause(c)
  BY CallThrown
<1> USE SessionConstants DEF Typed, Calm, Own, Alone, Pending, Delivering, Refreshing, Unused, Both, tokens, tabs, calls
<1>1. ASSUME NEW t \in Tabs, Load(t) PROVE Calm'
  <2>1. /\ \A d \in Calls : phase'[d] = phase[d] \/ (phase'[d] = "sent" /\ phase[d] \notin Refreshing)
        /\ live' = live /\ cookie' = cookie /\ carried' = carried /\ op' = op
        /\ incidents' = incidents
    BY <1>1 DEF Load, Send, CallsOf
  <2>2. Pending' = Pending /\ Delivering' = Delivering
    BY <2>1
  <2> HIDE DEF Pending, Delivering
  <2>3. /\ signedIn' = signedIn /\ access' = access
        /\ \A d \in Calls : phase'[d] # phase[d] => signedIn[TabOf[d]]
    BY <1>1 DEF Load, Send, CallsOf
  <2> QED BY <2>1, <2>2, <2>3
<1>2. ASSUME NEW t \in Tabs, Reopen(t) PROVE Calm'
  BY <1>2 DEF Reopen, Send
<1>3. ASSUME NEW t \in Tabs, Login(t) PROVE Calm'
  BY <1>3 DEF Login, Overlap, Note
<1>4. ASSUME NEW t \in Tabs, Logout(t) PROVE Calm'
  BY <1>4 DEF Logout, Overlap, Note
<1>5. ASSUME NEW t \in Tabs, LoginFails(t) PROVE Calm'
  BY <1>5 DEF LoginFails
<1>6. ASSUME NEW t \in Tabs, Issue(t) PROVE Calm'
  BY <1>6, NewIsUnused DEF Issue, Note
<1>7. ASSUME NEW t \in Tabs, Enter(t) PROVE Calm'
  <2> SUFFICES ASSUME "ended" \notin incidents' PROVE Calm'
    OBVIOUS
  <2>1. /\ op[t] = "welcome" /\ incidents' = incidents /\ live' = live
        /\ cookie' = carried[t] /\ access' = [access EXCEPT ![t] = "fresh"]
        /\ signedIn' = [signedIn EXCEPT ![t] = TRUE] /\ op' = [op EXCEPT ![t] = "none"]
        /\ \A d \in Calls : phase'[d] = IF TabOf[d] = t THEN "sent" ELSE phase[d]
    BY <1>7 DEF Enter, Send, NextCookie, CallsOf
  <2>2. Pending = {t} /\ t \in Delivering /\ carried[t] \in live
    BY <2>1
  <2>3. \A d \in Calls : phase[d] \notin Refreshing
    BY <2>2
  <2>4. Pending' = {} /\ Delivering' = {}
    BY <2>1, <2>2, <2>3
  <2> QED BY <2>1, <2>2, <2>3, <2>4
<1>8. ASSUME NEW t \in Tabs, Revoke(t) PROVE Calm'
  BY <1>8 DEF Revoke
<1>9. ASSUME NEW t \in Tabs, Leave(t) PROVE Calm'
  BY <1>9 DEF Leave, SignOut
<1>10. ASSUME NEW t \in Tabs, LoseLogout(t) PROVE Calm'
  BY <1>10 DEF LoseLogout, SignOut, Note
<1>11. ASSUME NEW t \in Tabs, LoseWelcome(t) PROVE Calm'
  BY <1>11 DEF LoseWelcome, Note
<1>12. ASSUME NEW t \in Tabs, ExpireAccess(t) PROVE Calm'
  BY <1>12 DEF ExpireAccess
<1>13. ASSUME NEW c \in Calls, Fetch(c) PROVE Calm'
  BY <1>13 DEF Fetch, Send
<1>14. ASSUME NEW c \in Calls, Served(c) PROVE Calm'
  BY <1>14 DEF Served, EndCall, StillLoading
<1>15. ASSUME NEW c \in Calls, Follow(c) PROVE Calm'
  BY <1>15 DEF Follow, Send
<1>16. ASSUME NEW c \in Calls, Refuse(c) PROVE Calm'
  BY <1>16 DEF Refuse, Overlap, Note
<1>17. ASSUME NEW c \in Calls, Check(c) PROVE Calm'
  BY <1>17 DEF Check, IsActive
<1>18. ASSUME NEW c \in Calls, Rotate(c) PROVE Calm'
  BY <1>18, NewIsUnused DEF Rotate, Rotated
<1>19. ASSUME NEW c \in Calls, Refreshed(c) PROVE Calm'
  BY <1>19 DEF Refreshed, NextCookie
<1>20. ASSUME NEW c \in Calls, Throws(c) PROVE Calm'
  BY <1>20, <1>0 DEF Thrown, Cause
<1>21. ASSUME NEW s \in Sessions, ExpireSession(s) PROVE Calm'
  BY <1>21 DEF ExpireSession, Note
<1>22. CASE UNCHANGED vars
  BY <1>22 DEF vars
<1> QED
  BY <1>1, <1>2, <1>3, <1>4, <1>5, <1>6, <1>7, <1>8, <1>9, <1>10, <1>11, <1>12,
     <1>13, <1>14, <1>15, <1>16, <1>17, <1>18, <1>19, <1>20, <1>21, <1>22
  DEF Next, Conclude, Progress, Throws

-----------------------------------------------------------------------------
IInv == Typed /\ Waits /\ Own /\ Kept /\ Calm

LEMMA InitIInv == Init => IInv
<1> SUFFICES ASSUME Init PROVE IInv
  OBVIOUS
<1>1. Typed
  BY DEF Init, Typed, AccessTokens, Both
<1>2. Pending = {} /\ Delivering = {}
  BY DEF Init, Pending, Delivering, Refreshing
<1>3. Waits /\ Own
  BY <1>2 DEF Init, Waits, Own
<1>4. Kept /\ Calm
  BY <1>2 DEF Init, Kept, Calm, Alone
<1> QED BY <1>1, <1>3, <1>4 DEF IInv

LEMMA StepIInv == IInv /\ [Next]_vars => IInv'
BY TypedStays, WaitsStay, OwnStays, KeptStays, CalmStays DEF IInv

LEMMA AlwaysIInv == Spec => []IInv
BY InitIInv, StepIInv, PTL DEF Spec

\* A tab signs out by itself only when a session may have ended.
LEMMA StepSignsOut ==
  ASSUME IInv, [Next]_vars, NEW t \in Tabs, signedIn[t], ~signedIn'[t]
  PROVE  "ended" \in incidents'
<1> USE DEF IInv
<1>1. ASSUME NEW c \in Calls, Throws(c) PROVE "ended" \in incidents'
  <2>1. Cause(c)
    BY <1>1, CallThrown
  <2>2. CASE phase[c] = "asking" /\ carried[c] \notin live
    BY <2>1, <2>2 DEF Calm, Cause
  <2> QED BY <2>1, <2>2 DEF Cause, Both
<1>2. ASSUME NEW u \in Tabs, Leave(u) PROVE "ended" \in incidents'
  BY <1>2 DEF Leave, Calm
<1>3. ASSUME NEW u \in Tabs, LoseLogout(u) PROVE "ended" \in incidents'
  BY <1>3 DEF LoseLogout, Note, Both
<1>4. CASE \E u \in Tabs : Reopen(u) \/ Enter(u)
  <2>1. PICK u \in Tabs : signedIn' = [signedIn EXCEPT ![u] = TRUE]
    BY <1>4 DEF Reopen, Enter
  <2> QED BY <2>1 DEF Typed
<1>5. CASE signedIn' = signedIn
  BY <1>5
<1>6. ASSUME NEW u \in Tabs,
             \/ Load(u) \/ Login(u) \/ Logout(u) \/ LoginFails(u) \/ Issue(u) \/ Revoke(u)
             \/ LoseWelcome(u) \/ ExpireAccess(u)
      PROVE  signedIn' = signedIn
  BY <1>6 DEF Load, Login, Logout, LoginFails, Issue, Revoke, LoseWelcome, ExpireAccess, tabs
<1>7. ASSUME NEW c \in Calls,
             \/ Fetch(c) \/ Served(c) \/ Follow(c) \/ Refuse(c) \/ Check(c) \/ Rotate(c)
             \/ Refreshed(c)
      PROVE  signedIn' = signedIn
  BY <1>7 DEF Fetch, Served, Follow, Refuse, Check, Rotate, Refreshed, tabs
<1>8. ASSUME NEW s \in Sessions, ExpireSession(s) PROVE signedIn' = signedIn
  BY <1>8 DEF ExpireSession, tabs
<1>9. CASE UNCHANGED vars
  BY <1>5, <1>9 DEF vars, tabs
<1> QED
  BY <1>1, <1>2, <1>3, <1>4, <1>5, <1>6, <1>7, <1>8, <1>9
  DEF Next, Conclude, Progress, Throws

\* Types, and what the steps rely on, whatever requests of the tabs overlap.
THEOREM SessionsTypeCorrect == Spec => []TypeOK
<1>1. IInv => TypeOK
  BY DEF IInv, Typed, Waits, Own, TypeOK
<1> QED BY <1>1, AlwaysIInv, PTL

\* Every session that can still be refreshed is in the browser's cookie or on its
\* way to it, for any number of tabs and calls, unless an answer was lost, a login
\* took the place of another or requests raced for the cookie: refresh revokes
\* what it replaces, and logout what the cookie held.
THEOREM NoSessionIsLeft == Spec => []NothingIsLeftBehind
<1>1. IInv => NothingIsLeftBehind
  BY DEF IInv, Kept, NothingIsLeftBehind
<1> QED BY <1>1, AlwaysIInv, PTL

\* No tab is signed out by a refresh on its own: the cookie that a refused call
\* takes along is that of a session which is active.
THEOREM TabsStaySignedIn == Spec => SignedOutForACause
<1>1. IInv /\ [Next]_vars =>
        [\A t \in Tabs : signedIn[t] /\ ~signedIn'[t] => "ended" \in incidents']_vars
  BY StepSignsOut
<1> QED BY <1>1, AlwaysIInv, PTL DEF Spec, SignedOutForACause
=============================================================================
