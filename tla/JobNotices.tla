------------------------------- MODULE JobNotices -------------------------------
(****************************************************************************)
(* The notice of the background mail synchronisation on the mailbox page    *)
(* (MailboxesView.vue).  What the job does reaches the page by three ways   *)
(* that race: the live feed, the answer of the request that starts it, and  *)
(* a chain of status requests that is carried on only by an applied answer. *)
(* An introduction hides all of it for the first 1.45 seconds.              *)
(****************************************************************************)
EXTENDS Naturals, Sequences

CONSTANTS MaxJobs,   \* bound: synchronisations started
          MaxFeed    \* bound: changes on their way to the page

None == "none"
Slot == {1, 2}                            \* status requests in flight; bound: two
Job == [gen : 0..MaxJobs, running : BOOLEAN]
Idle == [gen |-> 0, running |-> FALSE]    \* there was no job yet
Quiet == [at |-> None, job |-> Idle]      \* no request
Sent == [at |-> "sent", job |-> Idle]

VARIABLES
    server,    \* the job as the server has it
    feed,      \* changes of it, in order, not yet delivered
    known,     \* existingMailboxMessageSync
    notice,    \* syncExistingMessagesNoticeID: what it shows
    intro,     \* syncExistingMessagesIntroVisible, with its timer
    timer,     \* syncExistingMessagesStatusTimer is set
    requests,  \* status requests: where each is, and the job it was answered with
    starting,  \* the POST, likewise
    broken     \* history: the page was left, a status request failed, or its answer was
               \* older than what the page knew

vars == <<server, feed, known, notice, intro, timer, requests, starting, broken>>

TypeOK ==
    /\ server \in Job /\ feed \in Seq(Job) /\ known \in Job
    /\ notice \in {None, "progress", "result"}
    /\ intro \in BOOLEAN /\ timer \in BOOLEAN /\ broken \in BOOLEAN
    /\ requests \in [Slot -> [at : {None, "sent", "answered"}, job : Job]]
    /\ starting \in [at : {None, "sent", "answered", "refused", "failed"}, job : Job]

\* onMounted asks for the status once.
Init ==
    /\ server = Idle /\ feed = <<>> /\ known = server
    /\ notice = None /\ intro = FALSE /\ timer = FALSE
    /\ requests = [s \in Slot |-> IF s = 1 THEN Sent ELSE Quiet]
    /\ starting = Quiet /\ broken = FALSE

BugAnnounced(job, showCompleted) ==
    \/ job.running
    \/ job.gen > 0 /\ showCompleted

\* applyExistingMailboxMessageSyncJob.  A job that ended is announced when the caller says so
\* or when the page knew it as running.
Announced(job, showCompleted) ==
    \/ job.running
    \/ job.gen > 0 /\ (showCompleted \/ known.running)

Apply(job, showCompleted, hidden) ==
    /\ known' = job /\ timer' = job.running
    /\ notice' = IF hidden \/ ~Announced(job, showCompleted) THEN notice
                 ELSE IF job.running THEN "progress" ELSE "result"

-----------------------------------------------------------------------------
\* The server: another page may start a job, a job reports its progress and ends.
Publish(job) == Len(feed) < MaxFeed /\ server' = job /\ feed' = Append(feed, job)
Begin == server.gen < MaxJobs /\ ~server.running
         /\ Publish([gen |-> server.gen + 1, running |-> TRUE])

StartedElsewhere ==
    Begin /\ UNCHANGED <<known, notice, intro, timer, requests, starting, broken>>

Progress ==
    /\ server.running /\ Publish(server)
    /\ UNCHANGED <<known, notice, intro, timer, requests, starting, broken>>

JobEnds ==
    /\ server.running /\ server' = [server EXCEPT !.running = FALSE]
    /\ feed' = Append(feed, server')
    /\ UNCHANGED <<known, notice, intro, timer, requests, starting, broken>>

\* applyRealtimeMailboxChange
Deliver ==
    /\ feed # <<>> /\ feed' = Tail(feed)
    /\ Apply(Head(feed), TRUE, intro)
    /\ UNCHANGED <<server, intro, requests, starting, broken>>

-----------------------------------------------------------------------------
\* syncExistingMailboxMessages with showExistingMailboxMessageSyncIntro
Start ==
    /\ ~known.running /\ starting = Quiet
    /\ starting' = Sent /\ intro' = TRUE
    /\ UNCHANGED <<server, feed, known, notice, timer, requests, broken>>

ServerStarts ==
    /\ starting.at = "sent"
    /\ \/ Begin /\ starting' = [at |-> "answered", job |-> server']
       \/ /\ server.running /\ starting' = [starting EXCEPT !.at = "refused"]
          /\ UNCHANGED <<server, feed>>
       \/ starting' = [starting EXCEPT !.at = "failed"] /\ UNCHANGED <<server, feed>>
    /\ UNCHANGED <<known, notice, intro, timer, requests, broken>>

\* A new status request takes the first free slot.
Ask == \E s \in Slot :
          /\ requests[s] = Quiet /\ \A t \in Slot : t < s => requests[t] # Quiet
          /\ requests' = [requests EXCEPT ![s] = Sent]

StartAnswered ==
    /\ starting.at \notin {None, "sent"} /\ starting' = Quiet
    /\ IF starting.at = "answered"
       THEN Apply(starting.job, TRUE, intro) /\ UNCHANGED <<intro, requests>>
       ELSE /\ intro' = FALSE
            /\ IF starting.at = "refused"
               THEN Ask /\ UNCHANGED notice
               ELSE notice' = "result" /\ UNCHANGED requests
            /\ UNCHANGED <<known, timer>>
    /\ UNCHANGED <<server, feed, broken>>

IntroEnds ==
    /\ intro /\ intro' = FALSE
    /\ Apply(known, TRUE, FALSE)
    /\ UNCHANGED <<server, feed, requests, starting, broken>>

\* loadExistingMailboxMessageSyncStatus, from the timer
TimerFires ==
    /\ timer /\ timer' = FALSE /\ Ask
    /\ UNCHANGED <<server, feed, known, notice, intro, starting, broken>>

ServerAnswers(s) ==
    /\ requests[s].at = "sent"
    /\ requests' = [requests EXCEPT ![s] = [at |-> "answered", job |-> server]]
    /\ UNCHANGED <<server, feed, known, notice, intro, timer, starting, broken>>

\* A failed request is swallowed: nothing sets the timer again.
StatusArrives(s, ok) ==
    /\ requests[s].at = "answered" /\ requests' = [requests EXCEPT ![s] = Quiet]
    /\ IF ok THEN Apply(requests[s].job, FALSE, intro) ELSE UNCHANGED <<known, timer, notice>>
    /\ broken' = (broken \/ ~ok \/ requests[s].job.gen < known.gen)
    /\ UNCHANGED <<server, feed, intro, starting>>

\* The user closes a notice, or its time is up; updateToast shows it anew.
NoticeGoes ==
    /\ notice # None /\ notice' = None
    /\ UNCHANGED <<server, feed, known, intro, timer, requests, starting, broken>>

\* onBeforeUnmount clears the timers; the notice stays where it is.
Leave ==
    /\ broken' = TRUE /\ timer' = FALSE
    /\ UNCHANGED <<server, feed, known, notice, intro, requests, starting>>

Step ==
    \/ StartedElsewhere \/ Progress \/ JobEnds \/ Deliver
    \/ Start \/ ServerStarts \/ StartAnswered \/ IntroEnds
    \/ TimerFires
    \/ \E s \in Slot : ServerAnswers(s) \/ \E ok \in BOOLEAN : StatusArrives(s, ok)
    \/ NoticeGoes \/ Leave

\* Nothing is claimed of a broken chain, and the model stops there.
Next == ~broken /\ Step

\* The job ends, timers fire and requests end.  Nothing is asked of the feed, which may be
\* disconnected for as long as it likes.
Fairness ==
    /\ WF_vars(~broken /\ JobEnds) /\ WF_vars(~broken /\ IntroEnds)
    /\ WF_vars(~broken /\ StartAnswered)
    /\ WF_vars(~broken /\ TimerFires)
    /\ \A s \in Slot : /\ WF_vars(~broken /\ ServerAnswers(s))
                       /\ WF_vars(~broken /\ \E ok \in BOOLEAN : StatusArrives(s, ok))

Spec == Init /\ [][Next]_vars /\ Fairness

-----------------------------------------------------------------------------
\* The notice of a running synchronisation does not stay for ever: whatever the order of feed,
\* start and status answers, the chain of status requests turns it into the result, unless a
\* request failed, an old answer overtook a newer one, or the page was left.
\* (applyExistingMailboxMessageSyncJob, loadExistingMailboxMessageSyncStatus)
JobReported == notice = "progress" ~> notice # "progress" \/ broken
=============================================================================
