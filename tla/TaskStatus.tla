------------------------------- MODULE TaskStatus -------------------------------
(****************************************************************************)
(* The scheduler's status on the tasks page (TasksView.vue).  It is written *)
(* by the live feed, by loads, by the 30-second refresh, and by the answers *)
(* of the page's own commands, none of which waits for another: a button is *)
(* disabled only for its own command, and whichever command ends first      *)
(* takes the others' `busy' away.  A status is the number of changes it     *)
(* reflects.                                                                *)
(****************************************************************************)
EXTENDS Naturals

CONSTANTS MaxChanges,  \* bound: changes of the scheduler
          MaxCommands  \* bound: commands in flight at once

None == "none"
Command == {"start", "stop", "create", "clear", "save"}
Shows == {"start", "stop", "create"}   \* the commands whose answer brings the status
Slot == 1..MaxCommands
Quiet == [at |-> None, status |-> 0]
Idle == [what |-> None, at |-> None, status |-> 0]

VARIABLES
    server,     \* the scheduler's status
    shown,      \* scheduler
    delivered,  \* the changes the feed has brought to this page
    loading,    \* loading: nothing of the page is shown
    silent,     \* a silent load: [at, status]
    refresh,    \* refreshScheduler in flight (schedulerRefreshPending), likewise
    current,    \* schedulerRefreshVersion is still the one the refresh began with
    busy,       \* busy: the command begun last, until any command ends
    command     \* calls of the commands, and of the load on mount: [what, at, status]

vars == <<server, shown, delivered, loading, silent, refresh, current, busy, command>>
page == <<shown, delivered, loading, current, busy>>

\* "load" and "status" are the requests a command awaits after its own answer; "loaded" and
\* "told" are their answers.
Stage == {None, "sent", "answered", "refused", "load", "loaded", "status", "told"}

TypeOK ==
    /\ server \in 0..MaxChanges /\ shown \in 0..server /\ delivered \in 0..server
    /\ \A r \in {silent, refresh} :
          r.at \in {None, "sent", "answered"} /\ r.status \in 0..server
    /\ \A i \in Slot : /\ command[i].what \in Command \cup {None, "mount"}
                       /\ command[i].at \in Stage /\ command[i].status \in 0..server
    /\ current \in BOOLEAN /\ loading \in BOOLEAN /\ busy \in Command \cup {None}

\* onMounted loads and subscribes.
Init ==
    /\ server = 0 /\ shown = 0 /\ delivered = 0 /\ loading = TRUE
    /\ silent = Quiet /\ refresh = Quiet /\ current = TRUE /\ busy = None
    /\ command = [i \in Slot |-> IF i = 1 THEN [what |-> "mount", at |-> "load", status |-> 0]
                                 ELSE Idle]

\* A change of the scheduler; the feed carries the new status with it.
SchedulerChanges ==
    /\ server < MaxChanges /\ server' = server + 1
    /\ UNCHANGED <<page, silent, refresh, command>>

Deliver ==
    /\ delivered < server /\ delivered' = delivered + 1 /\ shown' = delivered'
    /\ UNCHANGED <<server, loading, silent, refresh, current, busy, command>>

\* A change of accounts or settings loads silently; load() does not ask which load is newest.
LoadSilently ==
    /\ silent = Quiet /\ silent' = [Quiet EXCEPT !.at = "sent"]
    /\ UNCHANGED <<server, page, refresh, command>>

SilentAnswered ==
    /\ silent.at = "sent" /\ silent' = [at |-> "answered", status |-> server]
    /\ UNCHANGED <<server, page, refresh, command>>

SilentEnds(ok) ==
    /\ silent.at = "answered" /\ silent' = Quiet
    /\ shown' = IF ok THEN silent.status ELSE shown
    /\ UNCHANGED <<server, delivered, loading, refresh, current, busy, command>>

\* refreshScheduler, by the interval
Refresh ==
    /\ refresh = Quiet /\ ~loading /\ busy = None
    /\ refresh' = [Quiet EXCEPT !.at = "sent"] /\ current' = TRUE
    /\ UNCHANGED <<server, shown, delivered, loading, silent, busy, command>>

RefreshAnswered ==
    /\ refresh.at = "sent" /\ refresh' = [at |-> "answered", status |-> server]
    /\ UNCHANGED <<server, page, silent, command>>

BugRefreshEnds(ok) ==
    /\ refresh.at = "answered" /\ refresh' = IF current THEN Quiet ELSE refresh
    /\ shown' = IF ok /\ current THEN refresh.status ELSE shown
    /\ UNCHANGED <<server, delivered, loading, silent, current, busy, command>>
RefreshEnds(ok) ==
    /\ refresh.at = "answered" /\ refresh' = Quiet
    /\ shown' = IF ok /\ current THEN refresh.status ELSE shown
    /\ UNCHANGED <<server, delivered, loading, silent, current, busy, command>>

\* start, stop, createOne, clearLogs make the refresh in flight an old one, saveDefaults does
\* not.  While the page is hidden only the confirmation of clearing can still be answered.
Begin(i, c) ==
    /\ command[i] = Idle /\ busy # c /\ (loading => c = "clear")
    /\ busy' = c /\ current' = (current /\ c = "save")
    /\ command' = [command EXCEPT ![i] = [what |-> c, at |-> "sent", status |-> 0]]
    /\ UNCHANGED <<server, shown, delivered, loading, silent, refresh>>

\* A refused command may have changed the scheduler too (a failed creation is recorded); what
\* clearLogs and saveDefaults are told makes no difference to the status.
ServerObeys(i, at) ==
    /\ command[i].at = "sent"
    /\ command[i].what \notin Shows => at = "answered"
    /\ server' \in {server, server + 1} /\ server' <= MaxChanges
    /\ command[i].what = "save" => server' = server
    /\ command' = [command EXCEPT ![i] = [@ EXCEPT !.at = at, !.status =
                     IF at = "answered" /\ command[i].what \in Shows THEN server' ELSE 0]]
    /\ UNCHANGED <<page, silent, refresh>>

\* start and stop show the status in their answer and await a load; a refused createOne asks
\* for the status; everything else ends here.
CommandAnswered(i) ==
    LET c == command[i]
        loads == c.at = "answered" /\ c.what \in {"start", "stop"}
        asks == c.at = "refused" /\ c.what = "create"
    IN
    /\ c.at \in {"answered", "refused"}
    /\ shown' = IF c.at = "answered" /\ c.what \in Shows THEN c.status ELSE shown
    /\ loading' = (loading \/ loads)
    /\ command' = [command EXCEPT ![i] = IF loads THEN [@ EXCEPT !.at = "load", !.status = 0]
                                         ELSE IF asks THEN [@ EXCEPT !.at = "status"]
                                         ELSE Idle]
    /\ busy' = IF loads \/ asks THEN busy ELSE None
    /\ UNCHANGED <<server, delivered, silent, refresh, current>>

ReadAnswered(i) ==
    /\ command[i].at \in {"load", "status"}
    /\ command' = [command EXCEPT ![i] =
                     [@ EXCEPT !.at = IF command[i].at = "load" THEN "loaded" ELSE "told",
                               !.status = server]]
    /\ UNCHANGED <<server, page, silent, refresh>>

\* Any load that set `loading' clears it, and any command clears `busy'.
ReadEnds(i, ok) ==
    /\ command[i].at \in {"loaded", "told"}
    /\ command' = [command EXCEPT ![i] = Idle]
    /\ shown' = IF ok THEN command[i].status ELSE shown
    /\ loading' = (loading /\ command[i].at # "loaded")
    /\ busy' = IF command[i].what = "mount" THEN busy ELSE None
    /\ UNCHANGED <<server, delivered, silent, refresh, current>>

SilentStep == SilentAnswered \/ \E ok \in BOOLEAN : SilentEnds(ok)
RefreshStep == RefreshAnswered \/ \E ok \in BOOLEAN : RefreshEnds(ok)
CommandStep(i) ==
    \/ \E at \in {"answered", "refused"} : ServerObeys(i, at)
    \/ CommandAnswered(i) \/ ReadAnswered(i) \/ \E ok \in BOOLEAN : ReadEnds(i, ok)

Next ==
    \/ SchedulerChanges \/ Deliver \/ LoadSilently \/ Refresh \/ SilentStep \/ RefreshStep
    \/ \E i \in Slot : CommandStep(i) \/ \E c \in Command : Begin(i, c)

\* The interval fires, requests end, and refreshes do not fail for ever.  The feed may be
\* disconnected for as long as it likes.
Fairness ==
    /\ WF_vars(Refresh) /\ WF_vars(RefreshStep) /\ SF_vars(RefreshEnds(TRUE))
    /\ WF_vars(SilentStep) /\ \A i \in Slot : WF_vars(CommandStep(i))

Spec == Init /\ [][Next]_vars /\ Fairness

-----------------------------------------------------------------------------
\* Once the user pauses, the page comes to show the scheduler's status without the feed,
\* whatever commands overlapped and in whatever order their answers and loads arrived.  A user
\* who never pauses keeps the refresh away.  (refreshScheduler)
CommandsPause == <>[](\A i \in Slot : command[i] = Idle)
StatusRecovers == CommandsPause => (shown # server ~> shown = server)
=============================================================================
