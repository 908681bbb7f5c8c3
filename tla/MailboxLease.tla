------------------------------ MODULE MailboxLease ------------------------------
(***************************************************************************)
(* The mailbox pool and its leases: internal/store/mailbox_lease.go, the   *)
(* mailbox operations of internal/store/mailbox.go and apple.go that touch *)
(* a lease, and the HTTP handlers and the reaper that call them.           *)
(*                                                                         *)
(* Every store operation runs under Store.mu in one SQLite transaction, so *)
(* it is one step.  The caller reads time.Now() BEFORE it waits for the    *)
(* mutex, so the `now' of a step is any instant of Window.  Calls that     *)
(* write nothing (refusals, idempotent answers) have no action.            *)
(***************************************************************************)
EXTENDS Naturals

CONSTANTS
    Job,          \* (project, request_id) pairs a client may send
    NoJob,        \* a claim with an empty request_id
    TTL,          \* lease durations after mailboxLeaseTTL's clamp
    Lag,          \* how old a caller's `now' may be when it gets the mutex
    Stamp,        \* Stamp[t]: rank of the text of instant t among all texts
    MaxMailboxes, \* bound on imported mailboxes
    MaxLeases,    \* bound on created leases
    MaxClock,     \* bound on the clock
    MaxDeadline   \* bound on deadlines, past every instant a lease is renewed at

ASSUME ConstantsAssumption ==
    /\ NoJob \notin Job
    /\ TTL \subseteq Nat \ {0}
    /\ Lag \in Nat
    /\ Stamp \in [0 .. MaxDeadline -> Nat]
    /\ MaxMailboxes \in Nat
    /\ MaxLeases \in Nat
    /\ MaxClock \in Nat
    /\ MaxDeadline \in Nat /\ MaxClock <= MaxDeadline
    /\ \A ttl \in TTL : MaxClock + ttl <= MaxDeadline

VARIABLES
    clock,        \* the instant, as the operating system tells it
    mailbox,      \* table mailboxes, in the order of created_at
    nextMailbox,  \* the next mailbox to be imported
    lease,        \* table mailbox_leases, in the order of id
    nextLease,    \* the next lease id
    recycled      \* history: used mailboxes an administrator reopened

vars == <<clock, mailbox, nextMailbox, lease, nextLease, recycled>>

Mailbox == 1 .. MaxMailboxes
LeaseId == 1 .. MaxLeases
NoLease == 0

\* "disabled" stands for every status that is none of the other three
\* (active, failed, disabled): no operation tells them apart.
Status == {"available", "reserved", "used", "disabled"}
LeaseState == {"claimed", "committed", "released", "expired"}
Terminal == {"committed", "released", "expired"}

\* api_active and icloud_active are only ever tested together: `active'.
MailboxRecord ==
    [here: BOOLEAN, active: BOOLEAN, status: Status, lease: LeaseId \cup {NoLease}]
LeaseRecord ==
    [state: LeaseState \cup {"none"}, mailbox: Nat, job: Job \cup {NoJob},
     created: Nat, expires: Nat]

AbsentMailbox == [here |-> FALSE, active |-> FALSE, status |-> "disabled",
                  lease |-> NoLease]
AbsentLease == [state |-> "none", mailbox |-> 0, job |-> NoJob,
                created |-> 0, expires |-> 0]

Window == {n \in 0 .. clock : clock <= n + Lag}

---------------------------------------------------------------------------
(* Timestamps in SQL                                                        *)

\* The queries compare RFC3339Nano text, local time first and then the zone
\* offset, so their order is that of Stamp: the order of time only while the
\* server's zone keeps one offset (CONSTANT Stamp, given in MCMailboxLease).
TextLeq(a, b) == Stamp[a] <= Stamp[b]
TextLess(a, b) == Stamp[a] < Stamp[b]

Held(l) == lease[l].state = "claimed"

\* The rows the sweep selects: state claimed and expires_at <= now, as text.
BugExpirable(now) == {l \in LeaseId : Held(l) /\ TextLeq(now, lease[l].expires)}
BugExpirableAny(now) ==
    {l \in LeaseId : lease[l].state # "none" /\ TextLeq(lease[l].expires, now)}
BugExpirableActive(now) ==
    {l \in LeaseId : Held(l) /\ TextLeq(lease[l].expires, now) /\ mailbox[lease[l].mailbox].active}
Expirable(now) == {l \in LeaseId : Held(l) /\ TextLeq(lease[l].expires, now)}

SweptLeases(now) ==
    [l \in LeaseId |-> IF l \in Expirable(now)
                       THEN [lease[l] EXCEPT !.state = "expired"]
                       ELSE lease[l]]

\* A mailbox follows its lease only while it is still bound to it.
Freed(m, now) == \E l \in Expirable(now) : lease[l].mailbox = m /\ mailbox[m].lease = l

SweptMailboxes(now) ==
    [m \in Mailbox |->
        IF Freed(m, now)
        THEN [mailbox[m] EXCEPT !.lease = NoLease,
                                !.status = IF @ = "reserved" THEN "available" ELSE @]
        ELSE mailbox[m]]

\* expireMailboxLeasesTx, committed.
Sweep(now) ==
    /\ lease' = SweptLeases(now)
    /\ mailbox' = SweptMailboxes(now)

---------------------------------------------------------------------------
(* Helpers of the lease operations                                          *)

BugJobLeases(job) == {l \in LeaseId : lease[l].state \in {"claimed"} /\ lease[l].job = job}
JobLeases(job) == {l \in LeaseId : lease[l].state # "none" /\ lease[l].job = job}

BugClaimable(box, m) == box[m].here /\ box[m].active /\ box[m].status \in {"available", "used"}
Claimable(box, m) ==
    /\ box[m].here
    /\ box[m].active
    /\ box[m].status = "available"
    /\ box[m].lease = NoLease

\* ORDER BY created_at ASC LIMIT 1: mailboxes are numbered in that order.
OldestClaimable(box, m) ==
    /\ Claimable(box, m)
    /\ \A n \in Mailbox : Claimable(box, n) => m <= n

\* The guard that commit, release and renew share after their state checks.
Bound(l) ==
    LET m == lease[l].mailbox IN
    /\ mailbox[m].here
    /\ mailbox[m].lease = l
    /\ mailbox[m].status = "reserved"

TimedOut(l, now) == lease[l].expires <= now

\* ORDER BY created_at DESC, id DESC LIMIT 1 over the mailbox's leases.
Latest(l) ==
    \A k \in LeaseId :
        (lease[k].state # "none" /\ lease[k].mailbox = lease[l].mailbox) =>
            \/ TextLess(lease[k].created, lease[l].created)
            \/ lease[k].created = lease[l].created /\ k <= l

---------------------------------------------------------------------------
Init ==
    /\ clock = 0
    /\ mailbox = [m \in Mailbox |-> AbsentMailbox]
    /\ nextMailbox = 1
    /\ lease = [l \in LeaseId |-> AbsentLease]
    /\ nextLease = 1
    /\ recycled = {}

\* ClaimMailboxLease, request_id seen before: the old lease is returned,
\* whatever its state, and only the sweep is committed.
ClaimRepeated(job, now) ==
    /\ job # NoJob
    /\ \E l \in JobLeases(job) : TRUE
    /\ Sweep(now)
    /\ UNCHANGED <<clock, nextMailbox, nextLease, recycled>>

\* ClaimMailboxLease, nothing to hand out: the sweep is committed all the same.
ClaimNothing(job, now) ==
    /\ job = NoJob \/ JobLeases(job) = {}
    /\ \A m \in Mailbox : ~Claimable(SweptMailboxes(now), m)
    /\ Sweep(now)
    /\ UNCHANGED <<clock, nextMailbox, nextLease, recycled>>

\* ClaimMailboxLease, the grant: available -> reserved in the sweep's step.
ClaimGrant(job, ttl, now, m) ==
    /\ job = NoJob \/ JobLeases(job) = {}
    /\ nextLease <= MaxLeases
    /\ OldestClaimable(SweptMailboxes(now), m)
    /\ lease' = [SweptLeases(now) EXCEPT ![nextLease] =
                    [state |-> "claimed", mailbox |-> m, job |-> job,
                     created |-> now, expires |-> now + ttl]]
    /\ mailbox' = [SweptMailboxes(now) EXCEPT ![m].status = "reserved",
                                              ![m].lease = nextLease]
    /\ nextLease' = nextLease + 1
    /\ UNCHANGED <<clock, nextMailbox, recycled>>

\* CommitMailboxLease.
Commit(l, now) ==
    /\ Held(l)
    /\ ~TimedOut(l, now)
    /\ Bound(l)
    /\ lease' = [lease EXCEPT ![l].state = "committed"]
    /\ mailbox' = [mailbox EXCEPT ![lease[l].mailbox].status = "used",
                                  ![lease[l].mailbox].lease = NoLease]
    /\ UNCHANGED <<clock, nextMailbox, nextLease, recycled>>

\* ReleaseMailboxLease.
Release(l, now) ==
    /\ Held(l)
    /\ ~TimedOut(l, now)
    /\ Bound(l)
    /\ lease' = [lease EXCEPT ![l].state = "released"]
    /\ mailbox' = [mailbox EXCEPT ![lease[l].mailbox].status = "available",
                                  ![lease[l].mailbox].lease = NoLease]
    /\ UNCHANGED <<clock, nextMailbox, nextLease, recycled>>

\* RenewMailboxLease: the new expiry counts from now, it may be an earlier one.
Renew(l, ttl, now) ==
    /\ Held(l)
    /\ ~TimedOut(l, now)
    /\ Bound(l)
    /\ lease' = [lease EXCEPT ![l].expires = now + ttl]
    /\ UNCHANGED <<clock, mailbox, nextMailbox, nextLease, recycled>>

\* Commit, renew or release after the deadline: refused (release: answered as
\* already recovered), and the sweep of every lease is committed.
TooLate(l, now) ==
    /\ \/ lease[l].state = "expired"
       \/ Held(l) /\ TimedOut(l, now)
    /\ Sweep(now)
    /\ UNCHANGED <<clock, nextMailbox, nextLease, recycled>>

\* ReconcileUsedMailboxLease of a lease given back by mistake.
Reconcile(l) ==
    LET m == lease[l].mailbox IN
    /\ lease[l].state \in {"released", "expired"}
    /\ mailbox[m].here
    /\ Latest(l)
    /\ mailbox[m].status = "available"
    /\ mailbox[m].lease = NoLease
    /\ mailbox' = [mailbox EXCEPT ![m].status = "used"]
    /\ UNCHANGED <<clock, nextMailbox, lease, nextLease, recycled>>

---------------------------------------------------------------------------
(* Operations on mailboxes that end or follow leases                        *)

\* SetMailboxStatus: an administrator writes the flags and, unless `s' is
\* empty, the status; any status but reserved ends the active lease.
BugBlankStatus(m, active, s) ==
    /\ mailbox[m].here
    /\ mailbox' = [mailbox EXCEPT ![m].active = active, ![m].status = s]
    /\ UNCHANGED <<clock, nextMailbox, lease, nextLease, recycled>>
BugSetMailboxStatus(m, active, s) ==
    /\ mailbox[m].here
    /\ ~(s = "reserved" /\ mailbox[m].lease = NoLease)
    /\ mailbox' = [mailbox EXCEPT ![m].active = active,
                                  ![m].status = IF s = "" THEN @ ELSE s,
                                  ![m].lease = IF s \in {"", "reserved"} THEN @ ELSE NoLease]
    /\ recycled' = IF mailbox[m].status = "used" /\ s \notin {"", "used"}
                   THEN recycled \cup {m} ELSE recycled
    /\ UNCHANGED <<clock, nextMailbox, lease, nextLease>>
SetMailboxStatus(m, active, s) ==
    LET l == mailbox[m].lease
        ends == l # NoLease /\ s \notin {"", "reserved"}
    IN
    /\ mailbox[m].here
    /\ ~(s = "reserved" /\ l = NoLease)
    /\ mailbox' = [mailbox EXCEPT ![m].active = active,
                                  ![m].status = IF s = "" THEN @ ELSE s,
                                  ![m].lease = IF ends THEN NoLease ELSE @]
    /\ lease' = IF ends /\ Held(l)
                THEN [lease EXCEPT ![l].state = IF s = "used" THEN "committed"
                                                ELSE "released"]
                ELSE lease
    /\ recycled' = IF mailbox[m].status = "used" /\ s \notin {"", "used"}
                   THEN recycled \cup {m} ELSE recycled
    /\ UNCHANGED <<clock, nextMailbox, nextLease>>

\* UpsertMailboxFromRemote of a known address: the remote flag is copied, the
\* status and the lease are kept.
BugRefreshMailbox(m, active) ==
    /\ mailbox[m].here
    /\ mailbox' = [mailbox EXCEPT ![m].active = active,
                                  ![m].status = IF active THEN "available" ELSE "disabled"]
    /\ UNCHANGED <<clock, nextMailbox, lease, nextLease, recycled>>
RefreshMailbox(m, active) ==
    /\ mailbox[m].here
    /\ mailbox' = [mailbox EXCEPT ![m].active = active]
    /\ UNCHANGED <<clock, nextMailbox, lease, nextLease, recycled>>

\* UpsertMailboxFromRemote of a new address.
ImportMailbox(active) ==
    /\ nextMailbox <= MaxMailboxes
    /\ mailbox' = [mailbox EXCEPT ![nextMailbox] =
                      [here |-> TRUE, active |-> active, lease |-> NoLease,
                       status |-> IF active THEN "available" ELSE "disabled"]]
    /\ nextMailbox' = nextMailbox + 1
    /\ UNCHANGED <<clock, lease, nextLease, recycled>>

\* DeleteMailbox (one mailbox) and DeleteAppleAccount (those of an account):
\* the leases go in the same transaction.
LeasesOf(S) == {l \in LeaseId : lease[l].state # "none" /\ lease[l].mailbox \in S}

DeleteMailboxes(S) ==
    /\ S # {}
    /\ \A m \in S : mailbox[m].here
    /\ mailbox' = [m \in Mailbox |-> IF m \in S THEN AbsentMailbox ELSE mailbox[m]]
    /\ lease' = [l \in LeaseId |-> IF l \in LeasesOf(S) THEN AbsentLease ELSE lease[l]]
    /\ recycled' = recycled \ S
    /\ UNCHANGED <<clock, nextMailbox, nextLease>>

\* runMailboxLeaseReaper: once at start, then on every tick of its timer.
Reap ==
    \E now \in Window :
        /\ Sweep(now)
        /\ UNCHANGED <<clock, nextMailbox, nextLease, recycled>>

Tick ==
    /\ clock < MaxClock
    /\ clock' = clock + 1
    /\ UNCHANGED <<mailbox, nextMailbox, lease, nextLease, recycled>>

---------------------------------------------------------------------------
ClientStep ==
    \E now \in Window :
        \/ \E job \in Job \cup {NoJob} :
              \/ ClaimRepeated(job, now)
              \/ ClaimNothing(job, now)
              \/ \E ttl \in TTL, m \in Mailbox : ClaimGrant(job, ttl, now, m)
        \/ \E l \in LeaseId :
              \/ Commit(l, now)
              \/ Release(l, now)
              \/ TooLate(l, now)
              \/ \E ttl \in TTL : Renew(l, ttl, now)
              \/ Reconcile(l)

AdminStep ==
    \/ \E m \in Mailbox, active \in BOOLEAN :
          \/ RefreshMailbox(m, active)
          \/ \E s \in Status \cup {""} : SetMailboxStatus(m, active, s)
    \/ \E active \in BOOLEAN : ImportMailbox(active)
    \/ \E S \in SUBSET Mailbox : DeleteMailboxes(S)

Next == ClientStep \/ AdminStep \/ Reap \/ Tick

Spec == Init /\ [][Next]_vars

\* Time passes, and the reaper's goroutine keeps taking its timer's ticks.
FairSpec == Spec /\ WF_vars(Tick) /\ WF_vars(Reap)

---------------------------------------------------------------------------
(* Properties                                                               *)

TypeOK ==
    /\ clock \in 0 .. MaxClock
    /\ mailbox \in [Mailbox -> MailboxRecord]
    /\ nextMailbox \in 1 .. (MaxMailboxes + 1)
    /\ lease \in [LeaseId -> LeaseRecord]
    /\ nextLease \in 1 .. (MaxLeases + 1)
    /\ recycled \subseteq Mailbox

\* A mailbox that names an active lease is reserved, present, and the lease is
\* claimed and names the mailbox: nobody holds a mailbox on a dead lease.
MailboxPointsAtLease ==
    \A m \in Mailbox : mailbox[m].lease # NoLease =>
        /\ mailbox[m].here
        /\ mailbox[m].status = "reserved"
        /\ Held(mailbox[m].lease)
        /\ lease[mailbox[m].lease].mailbox = m

\* A claimed lease is the active lease of its mailbox, so two claimed leases
\* never share a mailbox.
LeasePointsAtMailbox ==
    \A l \in LeaseId : Held(l) =>
        /\ lease[l].mailbox \in Mailbox
        /\ mailbox[lease[l].mailbox].lease = l

\* A reserved mailbox always has a lease that can give it back: none is lost
\* to the pool for ever.
NoLostReservation ==
    \A m \in Mailbox : mailbox[m].status = "reserved" => mailbox[m].lease # NoLease

\* Lease ids are never reused and no lease outlives its mailbox.
LeasesAreIssued ==
    \A l \in LeaseId : lease[l].state # "none" =>
        /\ l < nextLease
        /\ lease[l].mailbox \in Mailbox
        /\ mailbox[lease[l].mailbox].here

\* Mailbox rows are only ever filled by an import.
MailboxesAreImported == \A m \in Mailbox : mailbox[m].here => m < nextMailbox

\* The two tables agree, whatever order claims, late calls, administrator
\* edits, deletions and sweeps are executed in.
BindingConsistent ==
    /\ MailboxPointsAtLease
    /\ LeasePointsAtMailbox
    /\ NoLostReservation
    /\ LeasesAreIssued
    /\ MailboxesAreImported

\* However often a client retries a claim with one request_id, one lease
\* serves it.
OneLeasePerRequest ==
    \A k, l \in LeaseId :
        (lease[k].state # "none" /\ lease[l].state # "none"
         /\ lease[k].job = lease[l].job /\ lease[l].job # NoJob) => k = l

\* Two committed leases on one mailbox mean two accounts bound to one address:
\* that takes an administrator who reopened the used mailbox in between.
BoundOnce ==
    \A k, l \in LeaseId :
        /\ lease[k].state = "committed"
        /\ lease[l].state = "committed"
        /\ lease[k].mailbox = lease[l].mailbox
        /\ k # l
        => lease[l].mailbox \in recycled

\* committed, released and expired are final: a lease leaves them only with
\* its mailbox.  Reconciliation keeps the lease's outcome as an audit record.
OutcomeIsFinal ==
    [][\A l \in LeaseId : lease[l].state \in Terminal =>
          \/ lease'[l].state = lease[l].state
          \/ ~mailbox'[lease[l].mailbox].here]_vars

\* A used mailbox returns to circulation only in a step of SetMailboxStatus, the
\* first time and every later time: no sweep, late call, retry, reconciliation or
\* remote synchronisation reopens it.
Reopened(m) == \E active \in BOOLEAN, s \in Status : SetMailboxStatus(m, active, s)

UsedUntilReopened ==
    [][\A m \in Mailbox :
          (mailbox[m].status = "used" /\ mailbox'[m].here /\ mailbox'[m].status # "used")
              => Reopened(m)]_vars

\* The sweep takes a lease from its holder only after the deadline.
NoEarlyExpiry ==
    [][\A l \in LeaseId : (Held(l) /\ lease'[l].state = "expired")
          => lease[l].expires <= clock]_vars

\* A claimed lease whose deadline nobody moves any more is recovered by the
\* reaper.  A client that renews before every deadline keeps its lease, and the
\* mailbox reserved, for as long as it likes: only a deadline that stays is sure
\* to be met, and only those the bounded clock reaches can be asked about.
AbandonedIsRecovered ==
    \A l \in LeaseId, d \in 0 .. MaxClock :
        LET waits == Held(l) /\ lease[l].expires = d IN waits ~> ~waits

=============================================================================
