-------------------------------- MODULE MailSync --------------------------------
(****************************************************************************)
(* Reading the mail of one Apple account: SyncMessages, SyncMailboxMessages *)
(* and the bulk job's calls of syncGroup (internal/mailbox/service.go), the *)
(* IMAP search it makes (internal/protocol/imap_client.go) and the message  *)
(* tables (internal/store/mailbox.go), with iCloud Web reading switched off *)
(* (the default).                                                           *)
(*                                                                          *)
(* A mail is its IMAP UID, an index of `inbox'.  Calls for one account are  *)
(* single flight: one leads, the others wait for its result.                *)
(****************************************************************************)
EXTENDS Naturals, Sequences, FiniteSets

CONSTANTS
    Mailbox,    \* privacy mailboxes of the account
    Caller,     \* goroutines that may ask for a synchronisation
    Kind,       \* kinds of request they make
    Limit,      \* mails a read fetches (8)
    WatchLimit, \* mails the watcher's first read of a group fetches (20)
    Lookback,   \* how far back a search without a cursor goes (a day)
    WatchLookback, \* MailWatcherLookbackHours: how far the watcher's first read goes
    Overlap,    \* mailboxSyncCursorOverlap
    Heartbeat,  \* mailboxSyncHeartbeatInterval
    Transit,    \* how long a mail may be on its way
    MaxMail,    \* bound on mails
    MaxClock    \* bound on time

Nobody == "nobody"

ASSUME MailSyncAssumption ==
    /\ Nobody \notin Caller
    /\ Kind \subseteq {"verification", "watcher", "manual", "bulk"}
    /\ Limit \in Nat \ {0} /\ WatchLimit \in Nat \ {0}
    /\ Lookback \in Nat /\ WatchLookback \in Nat
    /\ Overlap \in Nat /\ Heartbeat \in Nat /\ Transit \in Nat
    /\ MaxMail \in Nat /\ MaxClock \in Nat

VARIABLES
    clock,
    inbox,    \* every mail Apple has delivered, in the order of UIDs
    present,  \* UIDs still in the INBOX
    box,      \* table mailboxes
    stored,   \* table messages, by mailbox
    cursor,   \* runtime state mail-sync: last_scanned_uid, 0 for none
    caller,   \* the calls of syncGroup
    flight,   \* Service.syncs[account]: the leading caller
    excused   \* history: mails the cursor has passed for a reason, see Excuse

vars == <<clock, inbox, present, box, stored, cursor, caller, flight, excused>>
apple == <<clock, inbox, present>>
tables == <<box, stored, cursor, excused>>
calls == <<caller, flight>>

Uid == 1 .. MaxMail
Never == MaxClock + 1

Mail == [to: Mailbox, code: BOOLEAN, sent: 0 .. MaxClock, arrived: 0 .. MaxClock]
Box == [status: {"unknown", "enabled", "disabled", "deleted"}, last: 0 .. Never, count: Nat]
Unknown == [status |-> "unknown", last |-> Never, count |-> 0]
Call == [pc: {"idle", "asking", "waiting", "storing"}, kind: Kind \cup {"none"},
         boxes: SUBSET Mailbox, refreshed: SUBSET Mailbox, scanned: SUBSET Uid,
         after: 0 .. MaxClock, first: BOOLEAN, last: 0 .. MaxMail, outcome: {"none", "ok", "error"}]
NoCall == [pc |-> "idle", kind |-> "none", boxes |-> {}, refreshed |-> {},
           scanned |-> {}, after |-> 0, first |-> FALSE, last |-> 0, outcome |-> "none"]

Here == {m \in Mailbox : box[m].status \in {"enabled", "disabled"}}
Greatest(S) == CHOOSE x \in S : \A y \in S : y <= x

---------------------------------------------------------------------------
(* The IMAP read                                                            *)

FirstOf(S, n) == {u \in S : Cardinality({v \in S : v < u}) < n}
LastOf(S, n) == {u \in S : Cardinality({v \in S : v > u}) < n}

Incremental(kind) == kind # "bulk" /\ cursor > 0

\* The instant `span' before now.
Ago(span) == IF clock > span THEN clock - span ELSE 0

\* UID SEARCH UID cursor+1:* -- the range names the last mail even when the
\* cursor is beyond it (RFC 3501) -- or, without a cursor, what arrived SINCE the
\* request's own date or else within the last day; a full scan asks for ALL.
Hits(call) ==
    LET new == {u \in present : u > cursor}
        since == IF call.kind = "watcher" THEN call.after ELSE Ago(Lookback)
    IN
    CASE call.kind = "bulk" -> present
      [] call.kind # "bulk" /\ Incremental(call.kind) ->
            IF new # {} \/ present = {} THEN new ELSE {Greatest(present)}
      [] OTHER -> {u \in present : inbox[u].arrived >= since}

FetchLimit(kind) == IF kind = "watcher" THEN WatchLimit ELSE Limit

\* Oldest first behind a cursor, newest first without one, all in a full scan.
BugScanned(call) ==
    IF call.kind = "bulk" THEN Hits(call) ELSE LastOf(Hits(call), FetchLimit(call.kind))
Scanned(call) ==
    CASE call.kind = "bulk" -> Hits(call)
      [] call.kind # "bulk" /\ Incremental(call.kind) ->
            FirstOf(Hits(call), FetchLimit(call.kind))
      [] OTHER -> LastOf(Hits(call), FetchLimit(call.kind))

\* LastUID of the result, the next cursor.
BugLastUid(scanned) == IF scanned = {} THEN cursor ELSE Greatest(scanned) + 1
LastUid(scanned) == IF scanned = {} THEN cursor ELSE Greatest(scanned)

\* mailboxSyncAfter: mail dated before the mailbox's last synchronisation, less
\* the overlap, or before the date of the request, is taken for old.
Overdue(call, u) ==
    LET last == box[inbox[u].to].last IN
    \/ last # Never /\ inbox[u].sent + Overlap < last
    \/ inbox[u].sent < call.after

\* Verification reads and the watcher's keep only mail that looks like a code.
CodesOnly(call) == call.kind \in {"verification", "watcher"}

\* iCloudIMAPMessagesByMailbox.
Matched(call) ==
    {u \in call.scanned :
        /\ inbox[u].to \in call.refreshed
        /\ CodesOnly(call) => inbox[u].code
        /\ ~Overdue(call, u)}

---------------------------------------------------------------------------
Init ==
    /\ clock = 0
    /\ inbox = <<>>
    /\ present = {}
    /\ box = [m \in Mailbox |-> Unknown]
    /\ stored = [m \in Mailbox |-> {}]
    /\ cursor = 0
    /\ caller = [c \in Caller |-> NoCall]
    /\ flight = Nobody
    /\ excused = {}

(* Apple *)

Arrive(m, code, sent) ==
    /\ Len(inbox) < MaxMail
    /\ sent <= clock /\ clock <= sent + Transit
    /\ inbox' = Append(inbox, [to |-> m, code |-> code, sent |-> sent, arrived |-> clock])
    /\ present' = present \cup {Len(inbox')}
    /\ UNCHANGED clock /\ UNCHANGED tables /\ UNCHANGED calls

Tick ==
    /\ clock < MaxClock
    /\ clock' = clock + 1
    /\ UNCHANGED <<inbox, present>> /\ UNCHANGED tables /\ UNCHANGED calls

---------------------------------------------------------------------------
(* syncGroup                                                                *)

\* The caller's list: the enabled mailboxes and the one it asks for; the bulk
\* job takes every mailbox.  The list is read, and the date of the watcher's first
\* read fixed, before the flight is; its later reads are verification reads.
List(kind, m) ==
    IF kind = "bulk" THEN Here ELSE {n \in Here : box[n].status = "enabled" \/ n = m}

Request(c, kind, m) ==
    /\ caller[c].pc = "idle"
    /\ m \in Here
    /\ caller' = [caller EXCEPT ![c] =
            [NoCall EXCEPT !.pc = "asking", !.kind = kind, !.boxes = List(kind, m),
                           !.after = IF kind = "watcher" THEN Ago(WatchLookback) ELSE 0]]
    /\ UNCHANGED flight /\ UNCHANGED apple /\ UNCHANGED tables

Signature(c) == <<caller[c].kind, caller[c].after, caller[c].boxes>>

\* The leader leaves: the flight is free, waiters with its signature return
\* its result, the others ask again.
BugFinish(c, outcome) ==
    /\ flight' = IF outcome = "ok" THEN Nobody ELSE flight
    /\ caller' = [w \in Caller |->
            IF w = c \/ (caller[w].pc = "waiting" /\ Signature(w) = Signature(c))
            THEN [NoCall EXCEPT !.outcome = outcome]
            ELSE IF caller[w].pc = "waiting" THEN [caller[w] EXCEPT !.pc = "asking"]
            ELSE caller[w]]
Finish(c, outcome) ==
    /\ flight' = Nobody
    /\ caller' = [w \in Caller |->
            IF w = c \/ (caller[w].pc = "waiting" /\ Signature(w) = Signature(c))
            THEN [NoCall EXCEPT !.outcome = outcome]
            ELSE IF caller[w].pc = "waiting" THEN [caller[w] EXCEPT !.pc = "asking"]
            ELSE caller[w]]

\* syncGroupNow up to the answer of the IMAP server.  Nothing but a deletion
\* can change what it reads before the search, so the reads are one step.
Lead(c) ==
    LET kind == caller[c].kind
        scanned == Scanned(caller[c])
        refreshed == caller[c].boxes \cap Here
    IN
    /\ caller[c].pc = "asking"
    /\ flight = Nobody
    /\ refreshed # {}
    /\ flight' = c
    /\ caller' = [caller EXCEPT ![c] =
            [@ EXCEPT !.pc = "storing", !.refreshed = refreshed, !.scanned = scanned,
                      !.first = ~Incremental(kind),
                      !.last = LastUid(scanned)]]
    /\ UNCHANGED apple /\ UNCHANGED tables

\* Every mailbox of the list is gone: done at once.
NothingToRead(c) ==
    /\ caller[c].pc = "asking"
    /\ flight = Nobody
    /\ caller[c].boxes \cap Here = {}
    /\ caller' = [caller EXCEPT ![c] = [NoCall EXCEPT !.outcome = "ok"]]
    /\ UNCHANGED flight /\ UNCHANGED apple /\ UNCHANGED tables

Wait(c) ==
    /\ caller[c].pc = "asking"
    /\ flight # Nobody
    /\ caller' = [caller EXCEPT ![c].pc = "waiting"]
    /\ UNCHANGED flight /\ UNCHANGED apple /\ UNCHANGED tables

\* The waiter's context ends.
GiveUp(c) ==
    /\ caller[c].pc = "waiting"
    /\ caller' = [caller EXCEPT ![c] = [NoCall EXCEPT !.outcome = "error"]]
    /\ UNCHANGED flight /\ UNCHANGED apple /\ UNCHANGED tables

\* No session, no IMAP password, or the connection fails.
Fail(c) ==
    /\ caller[c].pc = "storing"
    /\ Finish(c, "error")
    /\ UNCHANGED apple /\ UNCHANGED tables

\* Why the cursor may pass a mail that is not stored: it was gone, dated too
\* old (also when it only became old while a limited read left it behind),
\* addressed to a mailbox that was not on the list (also one imported since), no
\* code (for a read that keeps only codes), or older than a first read without a
\* cursor reaches.
Excuse(call) ==
    {u \in 1 .. call.last :
        \/ u \notin present \cup call.scanned
        \/ inbox[u].to \notin call.refreshed
        \/ Overdue(call, u)
        \/ CodesOnly(call) /\ ~inbox[u].code
        \/ call.first /\ u \notin call.scanned}

\* The transaction finds every mailbox of the batch.
AllFound(call) == call.refreshed \subseteq Here

\* applyMailboxSyncBatch: one transaction for all mailboxes and the cursor,
\* which fails as a whole when one of the mailboxes has been deleted.
Apply(c) ==
    LET call == caller[c]
        new == [m \in Mailbox |-> {u \in Matched(call) \ stored[m] : inbox[u].to = m}]
        due(m) == box[m].last = Never \/ clock >= box[m].last + Heartbeat
    IN
    /\ call.pc = "storing"
    /\ IF AllFound(call)
       THEN /\ stored' = [m \in Mailbox |-> stored[m] \cup new[m]]
            /\ box' = [m \in Mailbox |->
                  IF m \in call.refreshed
                  THEN [box[m] EXCEPT
                          !.count = @ + Cardinality(new[m]),
                          !.last = IF new[m] # {} \/ due(m) THEN clock ELSE @]
                  ELSE box[m]]
            /\ IF call.kind = "bulk" THEN UNCHANGED <<cursor, excused>>
               ELSE cursor' = call.last /\ excused' = excused \cup Excuse(call)
            /\ Finish(c, "ok")
       ELSE Finish(c, "error") /\ UNCHANGED tables
    /\ UNCHANGED apple

---------------------------------------------------------------------------
(* Everything else that touches mailboxes and messages                      *)

ImportMailbox(m) ==
    /\ box[m].status = "unknown"
    /\ box' = [box EXCEPT ![m].status = "enabled"]
    /\ UNCHANGED <<stored, cursor, excused>> /\ UNCHANGED apple /\ UNCHANGED calls

\* SetMailboxStatus to and from disabled.
Toggle(m) ==
    /\ m \in Here
    /\ box' = [box EXCEPT ![m].status = IF @ = "enabled" THEN "disabled" ELSE "enabled"]
    /\ UNCHANGED <<stored, cursor, excused>> /\ UNCHANGED apple /\ UNCHANGED calls

\* DeleteMailbox; a mailbox is a row, and its id is not used again.
DeleteMailbox(m) ==
    /\ m \in Here
    /\ box' = [box EXCEPT ![m] = [Unknown EXCEPT !.status = "deleted"]]
    /\ stored' = [stored EXCEPT ![m] = {}]
    /\ excused' = excused \cup stored[m]
    /\ UNCHANGED cursor /\ UNCHANGED apple /\ UNCHANGED calls

\* DeleteMailboxMessages, PruneMessagesBefore, and the local half of a remote
\* cleaning (DeleteMailboxMessagesByRemoteIDs) of one mailbox.
BugDeleteMessages(m, S) ==
    /\ S # {} /\ S \subseteq stored[m]
    /\ stored' = [stored EXCEPT ![m] = @ \ S]
    /\ excused' = excused \cup S
    /\ UNCHANGED <<box, cursor>> /\ UNCHANGED apple /\ UNCHANGED calls
DeleteMessages(m, S) ==
    /\ S # {} /\ S \subseteq stored[m]
    /\ stored' = [stored EXCEPT ![m] = @ \ S]
    /\ box' = [box EXCEPT ![m].count = Cardinality(stored'[m])]
    /\ excused' = excused \cup S
    /\ UNCHANGED cursor /\ UNCHANGED apple /\ UNCHANGED calls

\* The remote half: mail leaves the INBOX.
Expunge(u) ==
    /\ u \in present
    /\ present' = present \ {u}
    /\ UNCHANGED <<clock, inbox>> /\ UNCHANGED tables /\ UNCHANGED calls

---------------------------------------------------------------------------
CallStep(c) == Lead(c) \/ NothingToRead(c) \/ Wait(c)
AnswerStep(c) == Apply(c) \/ Fail(c)

AdminStep ==
    \E m \in Mailbox :
        \/ ImportMailbox(m) \/ Toggle(m) \/ DeleteMailbox(m)
        \/ \E S \in SUBSET stored[m] : DeleteMessages(m, S)

Next ==
    \/ \E m \in Mailbox, code \in BOOLEAN, sent \in 0 .. clock : Arrive(m, code, sent)
    \/ Tick
    \/ \E c \in Caller :
          \/ \E kind \in Kind, m \in Mailbox : Request(c, kind, m)
          \/ CallStep(c) \/ AnswerStep(c) \/ GiveUp(c)
    \/ AdminStep
    \/ \E u \in Uid : Expunge(u)

Spec == Init /\ [][Next]_vars

\* Goroutines go on, and the IMAP server answers or the deadline of the read
\* passes.  Nothing is assumed of who gets the flight first.
FairSpec ==
    /\ Spec
    /\ \A c \in Caller : WF_vars(CallStep(c)) /\ WF_vars(AnswerStep(c))

---------------------------------------------------------------------------
(* Properties                                                               *)

TypeOK ==
    /\ clock \in 0 .. MaxClock
    /\ inbox \in Seq(Mail) /\ Len(inbox) <= MaxMail
    /\ present \subseteq 1 .. Len(inbox)
    /\ box \in [Mailbox -> Box]
    /\ stored \in [Mailbox -> SUBSET Uid]
    /\ cursor \in 0 .. MaxMail
    /\ caller \in [Caller -> Call]
    /\ flight \in Caller \cup {Nobody}
    /\ excused \subseteq Uid

\* ReceiveCount is the number of stored messages and no message outlives its
\* mailbox, whatever synchronisations, repetitions and deletions overlap.
MessagesCounted ==
    \A m \in Mailbox :
        /\ stored[m] # {} => m \in Here
        /\ m \in Here => box[m].count = Cardinality(stored[m])

\* A code mail behind the cursor is stored in its mailbox or has one of the
\* excuses above: no order of the limit, failure of the batch, shared result or
\* cursor that a repeated mail sets back makes the cursor pass another one.
NoCodePassedOver ==
    \A u \in 1 .. cursor : inbox[u].code => u \in stored[inbox[u].to] \cup excused

\* Whoever is told that a full scan succeeded has every mail of the INBOX that
\* the scan saw for the mailboxes on its list.
FullScanComplete ==
    [][\A c \in Caller :
          (caller[c].pc = "storing" /\ caller[c].kind = "bulk" /\ caller'[c].outcome = "ok")
              => \A u \in caller[c].scanned :
                    inbox[u].to \in caller[c].refreshed => u \in stored'[inbox[u].to]]_vars

\* Who leads a read or waits for one like his own returns when it ends; and
\* as long as somebody asks, calls return: a read that fails, or whose mailboxes
\* are deleted meanwhile, never blocks the account for good.
CallsReturn ==
    /\ \A c \in Caller :
          (flight # Nobody /\ caller[c].pc \in {"waiting", "storing"}
                           /\ Signature(c) = Signature(flight))
              ~> caller[c].pc = "idle"
    /\ \/ []<>(\A c \in Caller : caller[c].pc = "idle")
       \/ []<><<\E c \in Caller : caller[c].pc # "idle" /\ caller'[c].pc = "idle">>_vars

=============================================================================
