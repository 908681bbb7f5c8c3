------------------------------- MODULE WebSession -------------------------------
(*****************************************************************************)
(* Signing in and out in one browser tab (useAuth.js, client.js, router,     *)
(* AppLayout.vue, LoginView.vue) and the live connection that the console's  *)
(* frame opens when it is mounted.  The session can end on the server at any *)
(* time; any request answered with 401 reloads the tab at the login page.    *)
(*****************************************************************************)
EXTENDS Naturals

None == "none"
Route == {"login", "console"}
Answer == {None, "sent", "in", "out", "failed"}   \* a request and what it was answered

VARIABLES
    session,     \* the browser's cookie names a session the server knows
    route,       \* the page shown: None while the first navigation has not ended
    target,      \* the navigation under way: where to
    loaded, authenticated,   \* authState
    status,      \* loadAuthStatus' request (authState.loading)
    waits,       \* the navigation under way began that request
    signing,     \* login() or logout() in flight: [what, answer]
    realtime,    \* connectRealtime was called and not disconnectRealtime
    cut          \* history: in the console shown, a sign-out failed or was taken back by the
                 \* late answer of loadAuthStatus

vars == <<session, route, target, loaded, authenticated, status, waits, signing, realtime, cut>>

TypeOK ==
    /\ session \in BOOLEAN /\ route \in Route \cup {None} /\ target \in Route \cup {None}
    /\ loaded \in BOOLEAN /\ authenticated \in BOOLEAN /\ status \in Answer
    /\ waits \in BOOLEAN /\ realtime \in BOOLEAN /\ cut \in BOOLEAN
    /\ signing \in [what : {None, "login", "logout"}, answer : Answer]

NotSigning == [what |-> None, answer |-> None]

\* A tab as it is loaded, at some address.
Fresh(to) ==
    /\ route' = None /\ target' = to /\ loaded' = FALSE /\ authenticated' = FALSE
    /\ status' = None /\ waits' = FALSE /\ signing' = NotSigning /\ realtime' = FALSE
    /\ cut' = FALSE

Init ==
    /\ session \in BOOLEAN /\ route = None /\ target \in Route
    /\ loaded = FALSE /\ authenticated = FALSE /\ status = None /\ waits = FALSE
    /\ signing = NotSigning /\ realtime = FALSE /\ cut = FALSE

-----------------------------------------------------------------------------
\* router.beforeEach, once the state is there: where a navigation leads.
Guarded(to) == IF to = "login" /\ authenticated THEN "console"
               ELSE IF to = "console" /\ ~authenticated THEN "login" ELSE to

\* The route changes; the console's frame connects when it is mounted and disconnects when it
\* goes.  A navigation to where the tab is already leaves the frame alone.
GoTo(to) ==
    /\ route' = to /\ target' = None /\ waits' = FALSE
    /\ realtime' = IF route = to THEN realtime ELSE to = "console"
    /\ cut' = (cut /\ route = to)

\* loadAuthStatus: a navigation asks for the status unless it is known; while another one's
\* request is under way it goes on at once with whatever the state says.
AskStatus ==
    /\ target # None /\ ~loaded /\ status = None
    /\ status' = "sent" /\ waits' = TRUE
    /\ UNCHANGED <<session, route, target, loaded, authenticated, signing, realtime, cut>>

Arrive ==
    /\ target # None /\ ~waits /\ (loaded \/ status # None)
    /\ GoTo(Guarded(target))
    /\ UNCHANGED <<session, loaded, authenticated, status, signing>>

\* The user follows a link or the browser's buttons; a navigation under way is given up.
Navigate(to) ==
    /\ target' = to /\ waits' = FALSE
    /\ UNCHANGED <<session, route, loaded, authenticated, status, signing, realtime, cut>>

StatusAnswered ==
    /\ status = "sent" /\ status' \in {IF session THEN "in" ELSE "out", "failed"}
    /\ UNCHANGED <<session, route, target, loaded, authenticated, waits, signing, realtime,
                   cut>>

\* An error ends the navigation that waits; the next one asks again.
StatusArrives ==
    /\ status \in {"in", "out", "failed"} /\ status' = None /\ waits' = FALSE
    /\ IF status = "failed"
       THEN /\ target' = IF waits THEN None ELSE target
            /\ UNCHANGED <<loaded, authenticated, cut>>
       ELSE /\ loaded' = TRUE /\ authenticated' = (status = "in") /\ UNCHANGED target
            /\ cut' = (cut \/ (loaded /\ authenticated' # authenticated))
    /\ UNCHANGED <<session, route, signing, realtime>>

-----------------------------------------------------------------------------
\* login() from the login page, logout() from the console
Submit ==
    /\ route = "login" /\ signing = NotSigning
    /\ signing' = [what |-> "login", answer |-> "sent"]
    /\ UNCHANGED <<session, route, target, loaded, authenticated, status, waits, realtime, cut>>

SignOut ==
    /\ route = "console" /\ signing = NotSigning
    /\ signing' = [what |-> "logout", answer |-> "sent"]
    /\ UNCHANGED <<session, route, target, loaded, authenticated, status, waits, realtime, cut>>

ServerSigns ==
    /\ signing.answer = "sent"
    /\ \/ /\ session' = (signing.what = "login")
          /\ signing' = [what |-> signing.what,
                         answer |-> IF signing.what = "login" THEN "in" ELSE "out"]
       \/ signing' = [signing EXCEPT !.answer = "failed"] /\ UNCHANGED session
    /\ UNCHANGED <<route, target, loaded, authenticated, status, waits, realtime, cut>>

LoginArrives ==
    /\ signing.what = "login" /\ signing.answer \in {"in", "failed"}
    /\ signing' = NotSigning
    /\ IF signing.answer = "in"
       THEN loaded' = TRUE /\ authenticated' = TRUE /\ target' = "console" /\ waits' = FALSE
       ELSE UNCHANGED <<loaded, authenticated, target, waits>>
    /\ UNCHANGED <<session, route, status, realtime, cut>>

BugLogoutArrives ==
    /\ signing.what = "logout" /\ signing.answer \in {"out", "failed"}
    /\ signing' = NotSigning
    /\ cut' = (signing.answer = "failed")
    /\ realtime' = FALSE /\ target' = "login" /\ waits' = FALSE
    /\ UNCHANGED <<session, route, loaded, authenticated, status>>

\* signOut: the connection is closed and the login page asked for also when logout() failed.
LogoutArrives ==
    /\ signing.what = "logout" /\ signing.answer \in {"out", "failed"}
    /\ signing' = NotSigning
    /\ IF signing.answer = "out" THEN loaded' = TRUE /\ authenticated' = FALSE /\ UNCHANGED cut
       ELSE cut' = TRUE /\ UNCHANGED <<loaded, authenticated>>
    /\ realtime' = FALSE /\ target' = "login" /\ waits' = FALSE
    /\ UNCHANGED <<session, route, status>>

\* The session expires or is ended elsewhere, or another tab signs in.
SessionChanges ==
    /\ session' = ~session
    /\ UNCHANGED <<route, target, loaded, authenticated, status, waits, signing, realtime, cut>>

\* api(): a request of the console is answered with 401, and the tab is loaded anew at login.
Unauthorized ==
    /\ route = "console" /\ ~session /\ Fresh("login")
    /\ UNCHANGED session

Reload(to) == Fresh(to) /\ UNCHANGED session

Next ==
    \/ AskStatus \/ Arrive \/ StatusAnswered \/ StatusArrives
    \/ \E to \in Route : Navigate(to) \/ Reload(to)
    \/ Submit \/ SignOut \/ ServerSigns \/ LoginArrives \/ LogoutArrives
    \/ SessionChanges \/ Unauthorized

Spec == Init /\ [][Next]_vars

-----------------------------------------------------------------------------
\* The console is live: while it is shown and nobody is signing out of it, the connection its
\* pages listen to is open, through redirections, sign-outs that are sent back and reloads,
\* unless a sign-out has failed or was taken back.  No other page keeps the connection.
\* (connectRealtime, disconnectRealtime, signOut, router.beforeEach)
ConsoleIsLive ==
    realtime = (route = "console") \/ cut \/ (target # None /\ ~authenticated)
=============================================================================
