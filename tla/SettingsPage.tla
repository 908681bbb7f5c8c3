------------------------------ MODULE SettingsPage ------------------------------
(***************************************************************************)
(* The form of the settings page (SettingsView.vue).  It is saved as a     *)
(* whole, so it must be what the server has but for what was typed.  The   *)
(* feed says that settings, accounts or mailboxes changed; a single timer, *)
(* set anew by every change, reads the form or only the runtime state      *)
(* again, as its last change says.                                         *)
(***************************************************************************)
EXTENDS Naturals, Sequences, FiniteSets

CONSTANT MaxChanges  \* bound: changes the feed carries

None == "none"
Load == {"first", "second"}    \* loads in flight; bound: two
Put == {"save", "again"}       \* saves in flight; bound: two
Request == Load \cup Put
Quiet == [at |-> None, seen |-> 0]

VARIABLES
    log,        \* the changes, in order: "settings" or "other"
    delivered,  \* those the feed has brought to the browser
    base,       \* form: the changes of the settings it is based on
    loaded,     \* the first load has ended: the form is shown and may be saved
    listening,  \* the page has subscribed to the feed
    timer,      \* realtimeRefreshTimer: None, "load" or "runtime"
    requests,   \* [at, seen]
    missed      \* history: changes lost to the form, see Deliver and RequestEnds

vars == <<log, delivered, base, loaded, listening, timer, requests, missed>>

TypeOK ==
    /\ log \in Seq({"settings", "other"}) /\ Len(log) <= MaxChanges
    /\ delivered \in 0..Len(log) /\ base \in 0..Len(log) /\ missed \subseteq DOMAIN log
    /\ loaded \in BOOLEAN /\ listening \in BOOLEAN /\ timer \in {None, "load", "runtime"}
    /\ requests \in [Request -> [at : {None, "sent", "answered"}, seen : 0..Len(log)]]

Init ==
    /\ log = <<>> /\ delivered = 0 /\ base = 0 /\ loaded = FALSE /\ listening = FALSE
    /\ timer = None /\ missed = {}
    /\ requests = [r \in Request |-> IF r = "first" THEN [Quiet EXCEPT !.at = "sent"]
                                     ELSE Quiet]

Change(kind) ==
    /\ Len(log) < MaxChanges /\ log' = Append(log, kind)
    /\ UNCHANGED <<delivered, base, loaded, listening, timer, requests, missed>>

\* The changes of the settings between two points that have been delivered.
Between(from, to) == {k \in DOMAIN log : log[k] = "settings" /\ from < k /\ k <= to}
Smaller(m, n) == IF m < n THEN m ELSE n
\* A load under way brings change k.
Coming(k) ==
    \E r \in Load : requests[r].at = "sent" \/ (requests[r].at = "answered" /\ k <= requests[r].seen)

BugNextTimer(kind) == IF kind = "settings" /\ timer = None THEN "load" ELSE "runtime"

\* scheduleRealtimeRefresh.  Lost are the changes delivered before the page listens, and those
\* whose reload is due when, within the 120 milliseconds, another change takes its place.
NextTimer(kind) == IF kind = "settings" THEN "load" ELSE "runtime"
Deliver ==
    /\ delivered < Len(log) /\ delivered' = delivered + 1
    /\ LET kind == log[delivered']
           lost == IF ~listening THEN Between(base, delivered') \cap {delivered'}
                   ELSE IF timer = "load" /\ kind = "other" THEN Between(base, delivered)
                   ELSE {}
       IN  /\ timer' = IF listening THEN NextTimer(kind) ELSE timer
           /\ missed' = missed \cup {k \in lost : ~Coming(k)}
    /\ UNCHANGED <<log, base, loaded, listening, requests>>

\* onMounted subscribes when both the first load and the request for updates have ended.
Listen ==
    /\ loaded /\ ~listening /\ listening' = TRUE
    /\ UNCHANGED <<log, delivered, base, loaded, timer, requests, missed>>

\* load({ silent: true }) or refreshRuntime, which leaves the form alone
TimerFires(r) ==
    /\ timer # None /\ r \in Load /\ requests[r] = Quiet /\ timer' = None
    /\ requests' = IF timer = "load" THEN [requests EXCEPT ![r].at = "sent"] ELSE requests
    /\ UNCHANGED <<log, delivered, base, loaded, listening, missed>>

\* saveSystem.  `saving' disables the button, but a test of the notification that ends clears
\* it while a save is under way.
Save(r) ==
    /\ loaded /\ r \in Put /\ requests[r] = Quiet
    /\ requests' = [requests EXCEPT ![r].at = "sent"]
    /\ UNCHANGED <<log, delivered, base, loaded, listening, timer, missed>>

\* The server's answer to a save has the settings as saved.
ServerAnswers(r) ==
    /\ requests[r].at = "sent"
    /\ IF r \in Put THEN Len(log) < MaxChanges /\ log' = Append(log, "settings")
                    ELSE UNCHANGED log
    /\ requests' = [requests EXCEPT ![r] = [at |-> "answered", seen |-> Len(log')]]
    /\ UNCHANGED <<delivered, base, loaded, listening, timer, missed>>

\* An answer has every change it saw, those missed before included.  Lost are the delivered
\* changes that an older answer takes back (load() does not ask which is newest) and those that
\* a failed load had seen.  A failed save changes nothing on the page, stored or not.
RequestEnds(r, ok) ==
    LET seen == requests[r].seen
    IN  /\ requests[r].at = "answered" /\ requests' = [requests EXCEPT ![r] = Quiet]
        /\ loaded' = (loaded \/ r \in Load)
        /\ base' = IF ok THEN seen ELSE base
        /\ missed' = IF ok THEN {k \in missed : seen < k} \cup
                                Between(seen, Smaller(base, delivered))
                     ELSE IF r \in Load THEN missed \cup Between(base, Smaller(seen, delivered))
                     ELSE missed
        /\ UNCHANGED <<log, delivered, listening, timer>>

Next ==
    \/ \E kind \in {"settings", "other"} : Change(kind)
    \/ Deliver \/ Listen
    \/ \E r \in Request : \/ TimerFires(r) \/ Save(r) \/ ServerAnswers(r)
                          \/ \E ok \in BOOLEAN : RequestEnds(r, ok)

Spec == Init /\ [][Next]_vars

-----------------------------------------------------------------------------
\* When nothing is on its way to the page, its form is based on every change of the server's
\* settings, so saving it takes none back, except changes lost in one of four ways and not read
\* since: delivered before the page listened, their due reload replaced by another change's
\* timer, seen only by a load that failed, or taken back by an older answer.
\* (scheduleRealtimeRefresh, onMounted, load, saveSystem)
FormCurrent ==
    /\ timer = None /\ delivered = Len(log) /\ \A r \in Request : requests[r] = Quiet
    => \A k \in DOMAIN log : log[k] = "settings" => k <= base \/ k \in missed
=============================================================================
