-------------------------- MODULE BrowserSessions --------------------------
(***************************************************************************)
(* The refresh sessions of one browser: the rows of auth_service, the      *)
(* cookie that holds the token of one of them, and the tabs that share the *)
(* cookie.  Each tab keeps an access token of its own (sessionStorage),    *)
(* and its calls go through api() of api.ts: a call that is refused asks   *)
(* for a refresh and is sent once more.                                    *)
(*                                                                         *)
(* A request is one step at the server and one at the browser, but for a   *)
(* refresh, which reads its session before it revokes it.  Answers arrive  *)
(* in any order, or never.                                                 *)
(***************************************************************************)
EXTENDS FiniteSets, Integers

CONSTANTS
  Tabs,       \* tabs of the operator console and of the portal
  Portal,     \* those that show PortalApp
  Calls,      \* the calls of api() that a tab can have under way
  TabOf,      \* the tab of each
  Sessions,   \* identities of rows; one that is out of use is used again
  NoSession

CallsOf(t) == {c \in Calls : TabOf[c] = t}

ASSUME SessionConstants ==
  /\ Portal \subseteq Tabs
  /\ Tabs \cap Calls = {}
  /\ TabOf \in [Calls -> Tabs]
  /\ \A t \in Tabs : CallsOf(t) # {}
  /\ IsFiniteSet(Sessions) /\ IsFiniteSet(Calls)
  /\ NoSession \notin Sessions

VARIABLES
  live,       \* sessions that are neither revoked nor expired
  cookie,     \* the session of the browser's csp_refresh
  access,     \* the access token in each tab's sessionStorage
  signedIn,   \* the tab's authenticated
  op,         \* login or logout of the tab
  loading,    \* the tab's useEffect waits for its calls
  phase,      \* progress of each call
  effect,     \* the call is one that useEffect waits for
  bearer,     \* the access token that the call was sent with
  carried,    \* session in the cookie of a request, or of its answer
  incidents   \* history: whether something may have stranded a session, or
              \* ended one that a tab uses

tokens == <<live, cookie, access>>
tabs == <<signedIn, op, loading>>
calls == <<phase, effect, bearer>>
vars == <<tokens, tabs, calls, carried, incidents>>

AccessTokens == {"none", "fresh", "expired"}

\* The steps of a refresh: sent, past the check of its session, answered.
Refreshing == {"asking", "rotating", "rotated"}

\* Requests under way whose answer may set or clear the cookie.
Pending ==
  {c \in Calls : phase[c] \in Refreshing} \cup {t \in Tabs : op[t] # "none"}

\* Requests whose answer is on its way with a new session.
Delivering ==
  {c \in Calls : phase[c] = "rotated"} \cup {t \in Tabs : op[t] = "welcome"}

\* Rows that nothing refers to: new sessions take their place.
Unused == Sessions \ (live \cup {cookie} \cup {carried[x] : x \in Calls \cup Tabs})

New == CHOOSE s \in Unused : TRUE

\* Bound: what a tab starts leaves a row for each request that may need one.
Reserved ==
  {c \in Calls : \/ phase[c] \in {"sent", "asking", "rotating"}
                \/ op[TabOf[c]] \in {"login", "welcome"}}
    \cup {t \in Tabs : op[t] = "login"}

CanIssue(n) == Cardinality(Unused) >= n + Cardinality(Reserved)

\* "stranded": an answer was lost, a login took the place of another, or a
\* request that can change the cookie was sent while another was under way.
\* "ended": a token expired, a tab signed out, and all but the login above.
Both == {"stranded", "ended"}

Note(what) == incidents' = incidents \cup what

Overlap == IF Pending # {} THEN Both ELSE {}
-----------------------------------------------------------------------------
Init ==
  /\ live = {} /\ cookie = NoSession
  /\ access = [t \in Tabs |-> "none"]
  /\ signedIn = [t \in Tabs |-> FALSE]
  /\ op = [t \in Tabs |-> "none"]
  /\ loading = [t \in Tabs |-> FALSE]
  /\ phase = [c \in Calls |-> "idle"]
  /\ effect = [c \in Calls |-> FALSE]
  /\ bearer = [c \in Calls |-> "none"]
  /\ carried = [x \in Calls \cup Tabs |-> NoSession]
  /\ incidents = {}

\* The calls C of one tab are sent with the tab's access token.
Send(C, token, forEffect) ==
  /\ phase' = [c \in Calls |-> IF c \in C THEN "sent" ELSE phase[c]]
  /\ effect' = [c \in Calls |-> IF c \in C THEN forEffect ELSE effect[c]]
  /\ bearer' = [c \in Calls |-> IF c \in C THEN token ELSE bearer[c]]

\* useEffect: /auth/me and another call at once, when the tab is signed in
\* and again when its workspace changes.
Load(t) ==
  /\ signedIn[t] /\ op[t] = "none" /\ t \notin Portal
  /\ \A c \in CallsOf(t) : phase[c] = "idle"
  /\ CanIssue(Cardinality(CallsOf(t)))
  /\ Send(CallsOf(t), access[t], TRUE)
  /\ loading' = [loading EXCEPT ![t] = TRUE]
  /\ UNCHANGED <<tokens, signedIn, op, carried, incidents>>

\* A call whose failure the tab only reports: lists, messages, replies.
Fetch(c) ==
  LET t == TabOf[c] IN
  /\ signedIn[t] /\ op[t] = "none" /\ phase[c] = "idle" /\ ~loading[t]
  /\ CanIssue(1)
  /\ Send({c}, access[t], FALSE)
  /\ UNCHANGED <<tokens, tabs, carried, incidents>>

\* A page is opened again, with what sessionStorage holds.
Reopen(t) ==
  /\ op[t] = "none" /\ \A c \in CallsOf(t) : phase[c] = "idle"
  /\ ~signedIn[t] /\ access[t] # "none"
  /\ CanIssue(Cardinality(CallsOf(t)))
  /\ signedIn' = [signedIn EXCEPT ![t] = TRUE]
  /\ Send(CallsOf(t), access[t], TRUE)
  /\ loading' = [loading EXCEPT ![t] = TRUE]
  /\ UNCHANGED <<tokens, op, carried, incidents>>
-----------------------------------------------------------------------------
\* The call ends; useEffect is over when no call of it is left.
EndCall(c) ==
  /\ phase' = [phase EXCEPT ![c] = "idle"]
  /\ effect' = [effect EXCEPT ![c] = FALSE]
  /\ bearer' = [bearer EXCEPT ![c] = "none"]
  /\ carried' = [carried EXCEPT ![c] = NoSession]

\* Mutant: the effect is never over.
StillLoading_Forgets(c) == loading[TabOf[c]]

\* Promise.all waits for the other calls of the effect.
StillLoading(c) ==
  loading[TabOf[c]] /\ \E d \in CallsOf(TabOf[c]) \ {c} : effect[d]

\* get_current_user takes the token; the caller gets its answer.
Served(c) ==
  LET t == TabOf[c] IN
  /\ phase[c] \in {"sent", "resent"} /\ bearer[c] = "fresh"
  /\ EndCall(c)
  /\ loading' = [loading EXCEPT ![t] = StillLoading(c)]
  /\ UNCHANGED <<tokens, signedIn, op, incidents>>

\* loadAccounts of PortalApp goes on with the tickets of the link and the
\* messages of the ticket, each asked for when the call before it is answered.
Follow(c) ==
  LET t == TabOf[c] IN
  /\ phase[c] \in {"sent", "resent"} /\ bearer[c] = "fresh"
  /\ t \in Portal /\ effect[c] /\ loading[t] /\ ~StillLoading(c)
  /\ CanIssue(1)
  /\ Send({c}, access[t], TRUE)
  /\ UNCHANGED <<tokens, tabs, carried, incidents>>

\* 401: refreshTokens is sent, with the cookie of this moment.
Refuse(c) ==
  /\ phase[c] = "sent" /\ bearer[c] # "fresh"
  /\ phase' = [phase EXCEPT ![c] = "asking"]
  /\ carried' = [carried EXCEPT ![c] = cookie]
  /\ Note(Overlap)
  /\ UNCHANGED <<tokens, tabs, effect, bearer>>

\* Session.is_active, and the row is there.
IsActive(s) == s \in live

Check(c) ==
  /\ phase[c] = "asking" /\ IsActive(carried[c])
  /\ phase' = [phase EXCEPT ![c] = "rotating"]
  /\ UNCHANGED <<tokens, tabs, effect, bearer, carried, incidents>>

\* Mutant: the old session is not revoked.
Rotated_KeepsOld(old, new) == live \cup {new}

Rotated(old, new) == (live \ {old}) \cup {new}

\* refresh revokes the session, whatever has become of it since the check,
\* creates its successor and commits.
Rotate(c) ==
  /\ phase[c] = "rotating" /\ Unused # {}
  /\ live' = Rotated(carried[c], New)
  /\ carried' = [carried EXCEPT ![c] = New]
  /\ phase' = [phase EXCEPT ![c] = "rotated"]
  /\ UNCHANGED <<cookie, access, tabs, effect, bearer, incidents>>

\* Mutant: the answer of a refresh does not set the cookie.
NextCookie_Old(new) == cookie

\* _set_browser_refresh_cookie.
NextCookie(new) == new

\* The answer of the refresh: the browser stores the cookie, the tab the
\* access token, and the call is sent again.
Refreshed(c) ==
  LET t == TabOf[c] IN
  /\ phase[c] = "rotated"
  /\ cookie' = NextCookie(carried[c])
  /\ access' = [access EXCEPT ![t] = "fresh"]
  /\ carried' = [carried EXCEPT ![c] = NoSession]
  /\ phase' = [phase EXCEPT ![c] = "resent"]
  /\ bearer' = [bearer EXCEPT ![c] = "fresh"]
  /\ UNCHANGED <<live, tabs, effect, incidents>>
-----------------------------------------------------------------------------
\* useEffect catches the error of the first of its calls that fails, and
\* signs the tab out; PortalApp does so only on a 401.
Drops(c, unauthorized) ==
  /\ effect[c] /\ loading[TabOf[c]]
  /\ unauthorized \/ TabOf[c] \notin Portal

Throw(c, unauthorized) ==
  LET t == TabOf[c] IN
  /\ EndCall(c)
  /\ IF Drops(c, unauthorized)
     THEN /\ access' = [access EXCEPT ![t] = "none"]
          /\ signedIn' = [signedIn EXCEPT ![t] = FALSE]
     ELSE UNCHANGED <<access, signedIn>>
  /\ loading' = [loading EXCEPT ![t] = @ /\ ~effect[c]]
  /\ UNCHANGED <<live, cookie, op>>

\* The refresh is refused: the call fails with the 401 that it got.
Deny(c) ==
  /\ phase[c] = "asking" /\ ~IsActive(carried[c])
  /\ Throw(c, TRUE)
  /\ UNCHANGED incidents

\* The token expires before the repeated call is served: the 401 is final.
Refused(c) ==
  /\ phase[c] = "resent" /\ bearer[c] # "fresh"
  /\ Throw(c, TRUE)
  /\ Note({"ended"})

\* A request or an answer is lost, and fetch throws.
Lose(c) ==
  /\ phase[c] # "idle"
  /\ Throw(c, FALSE)
  /\ Note(Both)

\* The transaction of the refresh fails and is rolled back; refreshTokens
\* takes any error for a refusal.
Abort(c) ==
  /\ phase[c] = "rotating"
  /\ Throw(c, TRUE)
  /\ Note(Both)
-----------------------------------------------------------------------------
\* The user signs in.  (A new load would need the tab's calls.)
Login(t) ==
  /\ ~signedIn[t] /\ op[t] = "none"
  /\ \A c \in CallsOf(t) : phase[c] = "idle"
  /\ CanIssue(1 + Cardinality(CallsOf(t)))
  /\ op' = [op EXCEPT ![t] = "login"]
  /\ Note(Overlap)
  /\ UNCHANGED <<tokens, signedIn, loading, calls, carried>>

\* Wrong password, too many attempts, or the network: an error is shown.
LoginFails(t) ==
  /\ op[t] = "login"
  /\ op' = [op EXCEPT ![t] = "none"]
  /\ UNCHANGED <<tokens, signedIn, loading, calls, carried, incidents>>

\* issue_token_pair; the session of the cookie is left as it is.
Issue(t) ==
  /\ op[t] = "login" /\ Unused # {}
  /\ live' = live \cup {New}
  /\ carried' = [carried EXCEPT ![t] = New]
  /\ op' = [op EXCEPT ![t] = "welcome"]
  /\ Note(IF cookie \in live THEN {"stranded"} ELSE {})
  /\ UNCHANGED <<cookie, access, signedIn, loading, calls>>

\* The answer of the login; the tab is signed in and its effect loads.
Enter(t) ==
  /\ op[t] = "welcome"
  /\ cookie' = NextCookie(carried[t])
  /\ carried' = [carried EXCEPT ![t] = NoSession]
  /\ access' = [access EXCEPT ![t] = "fresh"]
  /\ signedIn' = [signedIn EXCEPT ![t] = TRUE]
  /\ op' = [op EXCEPT ![t] = "none"]
  /\ loading' = [loading EXCEPT ![t] = TRUE]
  /\ Send(CallsOf(t), "fresh", TRUE)
  /\ UNCHANGED <<live, incidents>>

Logout(t) ==
  /\ signedIn[t] /\ op[t] = "none"
  /\ op' = [op EXCEPT ![t] = "logout"]
  /\ carried' = [carried EXCEPT ![t] = cookie]
  /\ Note(Overlap \cup {"ended"})
  /\ UNCHANGED <<tokens, signedIn, loading, calls>>

\* AuthService.logout.
Revoke(t) ==
  /\ op[t] = "logout"
  /\ live' = live \ {carried[t]}
  /\ op' = [op EXCEPT ![t] = "bye"]
  /\ carried' = [carried EXCEPT ![t] = NoSession]
  /\ UNCHANGED <<cookie, access, signedIn, loading, calls, incidents>>

\* clearTokens and the tab's state; useEffect's calls may still be under way.
SignOut(t) ==
  /\ access' = [access EXCEPT ![t] = "none"]
  /\ signedIn' = [signedIn EXCEPT ![t] = FALSE]
  /\ op' = [op EXCEPT ![t] = "none"]
  /\ UNCHANGED <<live, loading, calls>>

\* The answer of the logout deletes the cookie.
Leave(t) ==
  /\ op[t] = "bye"
  /\ SignOut(t)
  /\ cookie' = NoSession
  /\ UNCHANGED <<carried, incidents>>

\* The request of a logout or its answer is lost: the tab signs out alone.
LoseLogout(t) ==
  /\ op[t] \in {"logout", "bye"}
  /\ SignOut(t)
  /\ carried' = [carried EXCEPT ![t] = NoSession]
  /\ Note(Both)
  /\ UNCHANGED cookie

\* The answer of a login is lost.
LoseWelcome(t) ==
  /\ op[t] = "welcome"
  /\ op' = [op EXCEPT ![t] = "none"]
  /\ carried' = [carried EXCEPT ![t] = NoSession]
  /\ Note(Both)
  /\ UNCHANGED <<tokens, signedIn, loading, calls>>
-----------------------------------------------------------------------------
\* access_token_minutes pass.
ExpireAccess(t) ==
  /\ access[t] = "fresh"
  /\ access' = [access EXCEPT ![t] = "expired"]
  /\ bearer' = [c \in Calls |->
       IF TabOf[c] = t /\ bearer[c] = "fresh" THEN "expired" ELSE bearer[c]]
  /\ UNCHANGED <<live, cookie, tabs, phase, effect, carried, incidents>>

\* refresh_token_days pass.
ExpireSession(s) ==
  /\ s \in live
  /\ live' = live \ {s}
  /\ Note({"ended"})
  /\ UNCHANGED <<cookie, access, tabs, calls, carried>>

Progress(c) ==
  \/ Served(c) \/ Follow(c) \/ Refuse(c) \/ Check(c) \/ Rotate(c) \/ Refreshed(c)
  \/ Deny(c) \/ Refused(c)

Conclude(t) == LoginFails(t) \/ Issue(t) \/ Enter(t) \/ Revoke(t) \/ Leave(t)

Next ==
  \/ \E t \in Tabs :
       \/ Load(t) \/ Reopen(t) \/ Login(t) \/ Logout(t) \/ Conclude(t)
       \/ LoseLogout(t) \/ LoseWelcome(t) \/ ExpireAccess(t)
  \/ \E c \in Calls : Fetch(c) \/ Progress(c) \/ Lose(c) \/ Abort(c)
  \/ \E s \in Sessions : ExpireSession(s)

Spec == Init /\ [][Next]_vars
-----------------------------------------------------------------------------
\* Types, and what the steps rely on: an effect waits for a call that is
\* under way, and a new session's answer carries one that is its own.
TypeOK ==
  /\ live \subseteq Sessions /\ cookie \in Sessions \cup {NoSession}
  /\ access \in [Tabs -> AccessTokens]
  /\ signedIn \in [Tabs -> BOOLEAN] /\ loading \in [Tabs -> BOOLEAN]
  /\ op \in [Tabs -> {"none", "login", "welcome", "logout", "bye"}]
  /\ phase \in [Calls -> {"idle", "sent", "resent"} \cup Refreshing]
  /\ effect \in [Calls -> BOOLEAN] /\ bearer \in [Calls -> AccessTokens]
  /\ carried \in [Calls \cup Tabs -> Sessions \cup {NoSession}]
  /\ incidents \subseteq Both
  /\ \A t \in Tabs : loading[t] => \E c \in CallsOf(t) : effect[c]
  /\ \A c \in Calls : effect[c] => phase[c] # "idle"
  /\ \A x \in Delivering : carried[x] \in Sessions \ {cookie}

\* NothingIsLeftBehind: every session that can still be refreshed is the one
\* in the browser's cookie or in an answer on its way to it, as long as no
\* answer was lost, no login took the place of another, and no two requests
\* that change the cookie were under way at once.  After a logout, which
\* deletes the cookie, there is none.  (refresh revokes before it issues,
\* issue_token_pair does not look at the cookie.)
NothingIsLeftBehind ==
  "stranded" \notin incidents =>
    live \subseteq {cookie} \cup {carried[x] : x \in Delivering}

\* SignedOutForACause: a tab whose user did not sign out stays signed in
\* unless a token expired, an answer was lost, some tab signed out, or two
\* requests raced for the cookie: a refresh on its own never fails.
SignedOutForACause ==
  [][ \A t \in Tabs : signedIn[t] /\ ~signedIn'[t] =>
        "ended" \in incidents' ]_vars
=============================================================================
