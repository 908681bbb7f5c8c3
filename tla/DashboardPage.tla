----------------------------- MODULE DashboardPage -----------------------------
(***************************************************************************)
(* The figures of the dashboard (DashboardView.vue).  They are read with   *)
(* the page and never polled: the feed's batches of new mail are added to  *)
(* them, and any other change of mailboxes, mail or accounts sets a short  *)
(* timer that reads them again.                                            *)
(***************************************************************************)
EXTENDS Naturals, Sequences, FiniteSets

CONSTANT MaxChanges  \* bound: changes of the server

None == "none"
Read == {1, 2}   \* requests for the dashboard in flight; bound: two
Quiet == [at |-> None, seen |-> 0]

VARIABLES
    log,        \* the server's changes, in order: "mail" (batch-updated) or "other"
    counted,    \* how often the page's figures count each of them
    delivered,  \* the changes the feed has brought to the browser
    mounted,    \* the first load has ended and the page listens to the feed
    timer,      \* realtimeRefreshTimer is set
    reads,      \* the requests: [at, seen]
    reading,    \* history: the changes the reading that is shown has seen
    shownAt,    \* history: those delivered when it was shown
    missed      \* history: other changes lost to the figures, see Deliver and ReadEnds

vars == <<log, counted, delivered, mounted, timer, reads, reading, shownAt, missed>>

TypeOK ==
    /\ log \in Seq({"mail", "other"}) /\ Len(log) <= MaxChanges
    /\ counted \in [1..MaxChanges -> 0..2] /\ missed \subseteq DOMAIN log
    /\ {delivered, reading, shownAt} \subseteq 0..Len(log)
    /\ mounted \in BOOLEAN /\ timer \in BOOLEAN
    /\ reads \in [Read -> [at : {None, "sent", "answered"}, seen : 0..Len(log)]]

\* onMounted reads the dashboard first and listens to the feed afterwards.
Init ==
    /\ log = <<>> /\ counted = [k \in 1..MaxChanges |-> 0] /\ delivered = 0
    /\ mounted = FALSE /\ timer = FALSE /\ reading = 0 /\ shownAt = 0 /\ missed = {}
    /\ reads = [r \in Read |-> IF r = 1 THEN [Quiet EXCEPT !.at = "sent"] ELSE Quiet]

Change(kind) ==
    /\ Len(log) < MaxChanges /\ log' = Append(log, kind)
    /\ UNCHANGED <<counted, delivered, mounted, timer, reads, reading, shownAt, missed>>

\* The other changes between two points.
Between(from, to) == {k \in DOMAIN log : log[k] = "other" /\ from < k /\ k <= to}
Smaller(m, n) == IF m < n THEN m ELSE n
\* A reading under way has change k.
Coming(k) ==
    \E r \in Read : reads[r].at = "sent" \/ (reads[r].at = "answered" /\ k <= reads[r].seen)

\* What a delivered change does to the page before and after it listens.
Unheard(k) == IF Coming(k) THEN missed ELSE missed \cup Between(k - 1, k)
Added(k) == IF log[k] = "mail" THEN [counted EXCEPT ![k] = @ + 1] ELSE counted

BugDeliver ==
    LET k == delivered + 1
    IN  /\ delivered < Len(log) /\ delivered' = k
        /\ counted' = IF mounted THEN Added(k) ELSE counted
        /\ timer' = (mounted /\ log[k] = "other")
        /\ missed' = IF mounted THEN missed ELSE Unheard(k)
        /\ UNCHANGED <<log, mounted, reads, reading, shownAt>>
\* scheduleRealtimeRefresh
Deliver ==
    LET k == delivered + 1
    IN  /\ delivered < Len(log) /\ delivered' = k
        /\ counted' = IF mounted THEN Added(k) ELSE counted
        /\ timer' = (timer \/ (mounted /\ log[k] = "other"))
        /\ missed' = IF mounted THEN missed ELSE Unheard(k)
        /\ UNCHANGED <<log, mounted, reads, reading, shownAt>>

\* refreshDashboard
TimerFires(r) ==
    /\ timer /\ reads[r] = Quiet
    /\ timer' = FALSE /\ reads' = [reads EXCEPT ![r].at = "sent"]
    /\ UNCHANGED <<log, counted, delivered, mounted, reading, shownAt, missed>>

ServerAnswers(r) ==
    /\ reads[r].at = "sent"
    /\ reads' = [reads EXCEPT ![r] = [at |-> "answered", seen |-> Len(log)]]
    /\ UNCHANGED <<log, counted, delivered, mounted, timer, reading, shownAt, missed>>

\* A reading replaces all figures and has every change it saw, those missed before included.
\* Lost are the delivered changes that an older answer takes back (no answer asks which is the
\* newest) and those that a failed reading had seen.
ReadEnds(r, ok) ==
    LET seen == reads[r].seen
    IN  /\ reads[r].at = "answered" /\ reads' = [reads EXCEPT ![r] = Quiet]
        /\ mounted' = TRUE
        /\ reading' = IF ok THEN seen ELSE reading
        /\ shownAt' = IF ok \/ ~mounted THEN delivered ELSE shownAt
        /\ counted' = IF ok THEN [k \in 1..MaxChanges |-> IF k <= seen THEN 1 ELSE 0]
                            ELSE counted
        /\ missed' = IF ok THEN {k \in missed : seen < k} \cup
                                Between(seen, Smaller(reading, delivered))
                     ELSE missed \cup Between(reading, Smaller(seen, delivered))
        /\ UNCHANGED <<log, delivered, timer>>

Next ==
    \/ \E kind \in {"mail", "other"} : Change(kind)
    \/ Deliver
    \/ \E r \in Read : TimerFires(r) \/ ServerAnswers(r) \/ \E ok \in BOOLEAN : ReadEnds(r, ok)

Spec == Init /\ [][Next]_vars

-----------------------------------------------------------------------------
\* When nothing is on its way to the page, its figures, which mix increments of the feed with
\* readings of all of them, count every change of the server once, with exactly these
\* exceptions: mail that crossed the reading that is shown is counted twice if the reading had
\* it and the feed brought it afterwards, and not at all if the feed brought it before and the
\* reading did not have it; another change is not counted if it was delivered before the page
\* listened, seen only by a reading that failed, or taken back by an older one, and not read
\* since.  (scheduleRealtimeRefresh, refreshDashboard, onMounted)
Crossing(k) ==
    IF shownAt < k /\ k <= reading THEN 2 ELSE IF reading < k /\ k <= shownAt THEN 0 ELSE 1
FiguresRight ==
    ~timer /\ delivered = Len(log) /\ (\A r \in Read : reads[r] = Quiet)
        => \A k \in DOMAIN log : IF log[k] = "mail" THEN counted[k] = Crossing(k)
                                 ELSE counted[k] = 1 \/ k \in missed
=============================================================================
