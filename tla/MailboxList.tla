------------------------------ MODULE MailboxList ------------------------------
(*****************************************************************************)
(* The table of the mailbox page (MailboxesView.vue): what load() shows      *)
(* while filters, pages and sizes change, the live feed patches rows or asks *)
(* for a reload, deletions and jobs reload silently, and the table is polled *)
(* every 30 seconds.                                                         *)
(*                                                                           *)
(* Only the newest load counts (loadRequestID): the answer of a load that    *)
(* was overtaken changes nothing, so it is forgotten when it is overtaken.   *)
(*****************************************************************************)
EXTENDS Naturals

CONSTANTS View,        \* filters, page and page size together
          MaxChanges,  \* bound: changes of the mailbox pool
          MaxSilent    \* bound: silent reloads by deletions and jobs

Nothing == [kind |-> "none"]
Unseen == {0}

VARIABLES
    view,        \* query, accountID, status, page, pageSize
    shown,       \* the table: the view it was loaded for, the changes it reflects
    newest,      \* the newest load while it is in flight
    loading,
    polling,     \* autoRefreshing
    held,        \* hidden tab, busy buttons or a running deletion queue
    timer,       \* realtimeRefreshTimer is set
    changes,     \* the changes of the pool so far
    patches,     \* those the feed carries the new row for
    delivered,   \* how many of them the feed has brought to this page
    silent       \* silent reloads so far

vars == <<view, shown, newest, loading, polling, held, timer, changes, patches, delivered,
          silent>>

Change == 1..MaxChanges
Load == [kind : {"loud", "silent", "poll"}, view : View, seen : (SUBSET Change) \cup {Unseen}]

TypeOK ==
    /\ view \in View
    /\ shown \in [view : View, seen : SUBSET Change]
    /\ newest \in Load \cup {Nothing}
    /\ loading \in BOOLEAN /\ polling \in BOOLEAN /\ held \in BOOLEAN /\ timer \in BOOLEAN
    /\ changes \in 0..MaxChanges /\ patches \subseteq Change
    /\ delivered \in 0..changes /\ silent \in 0..MaxSilent

\* load(): a loud one blocks paging until it ends; a silent one does not, but becomes the newest.
Start(kind, v) ==
    /\ newest' = [kind |-> kind, view |-> v, seen |-> Unseen]
    /\ loading' = (loading \/ kind = "loud")

Init ==
    /\ view \in View /\ shown = [view |-> view, seen |-> {}]
    /\ newest = [kind |-> "loud", view |-> view, seen |-> Unseen] /\ loading = TRUE
    /\ polling = FALSE /\ held = FALSE /\ timer = FALSE
    /\ changes = 0 /\ patches = {} /\ delivered = 0 /\ silent = 0

\* Filters, an observed resize and actions that end with load() start one at any time.
ChangeView(v) ==
    /\ view' = v /\ Start("loud", v)
    /\ UNCHANGED <<shown, polling, held, timer, changes, patches, delivered, silent>>

GoToPage(v) == ~loading /\ v # view /\ ChangeView(v)

\* A deletion's end, a cleanup's or synchronisation's end: load({ silent: true })
SilentReload ==
    /\ silent < MaxSilent /\ silent' = silent + 1
    /\ Start("silent", view)
    /\ UNCHANGED <<view, shown, polling, held, timer, changes, patches, delivered>>

BugMayRefresh == timer /\ ~held /\ ~loading /\ ~polling
MayRefresh == ~held /\ ~loading /\ ~polling

\* refreshMailboxPool, called by the 30-second interval
Poll ==
    /\ MayRefresh /\ polling' = TRUE /\ Start("poll", view)
    /\ UNCHANGED <<view, shown, held, timer, changes, patches, delivered, silent>>

\* ... and by the timer of scheduleRealtimeMailboxRefresh; the collected changes are forgotten
\* also when the refresh returns at once.
TimerFires ==
    /\ timer /\ timer' = FALSE
    /\ IF MayRefresh THEN polling' = TRUE /\ Start("poll", view)
                     ELSE UNCHANGED <<newest, loading, polling>>
    /\ UNCHANGED <<view, shown, held, changes, patches, delivered, silent>>

ServerAnswers ==
    /\ newest # Nothing /\ newest.seen = Unseen
    /\ newest' = [newest EXCEPT !.seen = 1..changes]
    /\ UNCHANGED <<view, shown, loading, polling, held, timer, changes, patches, delivered,
                   silent>>

\* The newest load ends with its answer or an error; an error leaves the table as it is.
LoadEnds(ok) ==
    /\ newest # Nothing /\ newest.seen # Unseen
    /\ newest' = Nothing
    /\ shown' = IF ok THEN [view |-> newest.view, seen |-> newest.seen] ELSE shown
    /\ loading' = (loading /\ newest.kind # "loud")
    /\ UNCHANGED <<view, polling, held, timer, changes, patches, delivered, silent>>

\* refreshMailboxPool's finally, once its load (answered or overtaken) has ended.
PollEnds ==
    /\ polling /\ newest.kind # "poll" /\ polling' = FALSE
    /\ UNCHANGED <<view, shown, newest, loading, held, timer, changes, patches, delivered,
                   silent>>

\* The pool changes; the feed carries the row itself or only that something changed.
PoolChanges(carriesRow) ==
    /\ changes < MaxChanges /\ changes' = changes + 1
    /\ patches' = IF carriesRow THEN patches \cup {changes + 1} ELSE patches
    /\ UNCHANGED <<view, shown, newest, loading, polling, held, timer, delivered, silent>>

\* applyRealtimeMailboxChange patches the row; any other change sets the timer.
Deliver ==
    /\ delivered < changes /\ delivered' = delivered + 1
    /\ IF delivered' \in patches
       THEN shown' = [shown EXCEPT !.seen = @ \cup {delivered'}] /\ UNCHANGED timer
       ELSE timer' = TRUE /\ UNCHANGED shown
    /\ UNCHANGED <<view, newest, loading, polling, held, changes, patches, silent>>

Hold ==
    /\ held' = ~held
    /\ UNCHANGED <<view, shown, newest, loading, polling, timer, changes, patches, delivered,
                   silent>>

\* onBeforeUnmount, onMounted: the timers and the subscription go, a new table loads.
Remount ==
    /\ Start("loud", view) /\ polling' = FALSE /\ timer' = FALSE
    /\ shown' = [view |-> view, seen |-> {}]
    /\ delivered' = changes
    /\ UNCHANGED <<view, held, changes, patches, silent>>

Next ==
    \/ \E v \in View : ChangeView(v) \/ GoToPage(v)
    \/ SilentReload \/ Poll \/ TimerFires \/ ServerAnswers \/ PollEnds
    \/ \E ok \in BOOLEAN : LoadEnds(ok)
    \/ \E carriesRow \in BOOLEAN : PoolChanges(carriesRow)
    \/ Deliver \/ Hold \/ Remount

\* Timers fire, requests end, and requests do not fail for ever.
Fairness ==
    /\ WF_vars(Poll) /\ WF_vars(TimerFires) /\ WF_vars(ServerAnswers) /\ WF_vars(PollEnds)
    /\ WF_vars(\E ok \in BOOLEAN : LoadEnds(ok)) /\ SF_vars(LoadEnds(TRUE))
    /\ WF_vars(Deliver)

Spec == Init /\ [][Next]_vars /\ Fairness

-----------------------------------------------------------------------------
UpToDate == shown = [view |-> view, seen |-> 1..changes]

\* A loud load was overtaken by a silent one: nothing in flight will clear `loading`, and
\* refreshMailboxPool returns at once until the next loud load.
Overtaken == loading /\ newest.kind # "loud"

\* What the pool has become is shown in the end, whatever the order of answers and feed, unless
\* nobody lets the page refresh: a lost race of answers, a failed load or a refresh skipped by
\* the timer is made good by the next poll.  The one way to miss a change for ever is a loud
\* load that was overtaken.  (load, refreshMailboxPool)
FreshOrOvertaken == ~UpToDate ~> UpToDate \/ held \/ Overtaken
=============================================================================
