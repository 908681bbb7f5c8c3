------------------------------- MODULE ChangeFeed -------------------------------
(****************************************************************************)
(* The change log and its live feed: commitTx, changeHub and ChangesAfter   *)
(* of internal/store/sqlite.go, the SSE handler of internal/httpapi/        *)
(* realtime.go and the browser's frontend/src/composables/useRealtime.js.   *)
(*                                                                          *)
(* A change is its sequence number: AUTOINCREMENT numbers are contiguous    *)
(* (a rolled back insert gives its number back), so the table change_log is *)
(* the interval trimmed + 1 .. latest.  A writer holds Store.mu from its    *)
(* commit to the end of its publication, but a handler reads the table      *)
(* without that mutex and may see a change before it is published.          *)
(****************************************************************************)
EXTENDS Naturals, Sequences

CONSTANTS
    Client,     \* browser tabs, each with at most one connection
    Batch,      \* how many changes one transaction may log
    Limit,      \* values change_log_limit may be set to
    Buffer,     \* capacity of a subscriber's channel (128)
    PageSize,   \* rows of one ChangesAfter query (500)
    MaxSequence \* bound on logged changes

ASSUME FeedAssumption ==
    /\ Batch \subseteq Nat
    /\ Limit \subseteq Nat \ {0} /\ Limit # {}
    /\ Buffer \in Nat \ {0}
    /\ PageSize \in Nat \ {0}
    /\ MaxSequence \in Nat

VARIABLES
    latest,   \* greatest sequence in change_log
    trimmed,  \* greatest sequence that retention deleted
    limit,    \* Store.changeLogLimit
    outbox,   \* committed changes the writer has yet to publish
    sending,  \* the writer is inside changeHub.publish
    handler,  \* per client: the goroutine of its SSE connection
    wire,     \* per client: written to the connection, not yet dispatched
    stalled,  \* clients whose connection passes nothing on, unnoticed
    seen,     \* per client: realtimeState.lastSequence
    eventID,  \* per client: the EventSource's last event id, 0 for none
    opened,   \* history: end of the log when the page first connected
    base,     \* history: the same, for the last start without an event id
    got       \* history: changes given to the page's listeners

vars == <<latest, trimmed, limit, outbox, sending, handler, wire, stalled, seen,
          eventID, opened, base, got>>
log == <<latest, trimmed, limit>>
hub == <<outbox, sending>>
page == <<seen, eventID, opened, base, got>>

Sequence == 1 .. MaxSequence
NotOpened == MaxSequence + 1

\* held: the change taken from the channel while a replay fills the gap.
Handler == [pc: {"off", "subscribed", "paging", "live"},
            last: Nat, held: Nat, buffer: Seq(Sequence)]
Off == [pc |-> "off", last |-> 0, held |-> 0, buffer |-> <<>>]

Lower(a, b) == IF a < b THEN a ELSE b
Higher(a, b) == IF a < b THEN b ELSE a

\* ChangesAfter: the oldest PageSize retained rows above `last'.
BugRows(last) ==
    LET from == Higher(last, trimmed) IN [i \in 1 .. PageSize |-> from + i]
Rows(last) ==
    LET from == Higher(last, trimmed) IN
    [i \in 1 .. Lower(PageSize, latest - Lower(from, latest)) |-> from + i]

Connected(c) == handler[c].pc # "off"

---------------------------------------------------------------------------
Init ==
    /\ latest = 0
    /\ trimmed = 0
    /\ limit \in Limit
    /\ outbox = <<>>
    /\ sending = FALSE
    /\ handler = [c \in Client |-> Off]
    /\ wire = [c \in Client |-> <<>>]
    /\ stalled = {}
    /\ seen = [c \in Client |-> 0]
    /\ eventID = [c \in Client |-> 0]
    /\ opened = [c \in Client |-> NotOpened]
    /\ base = [c \in Client |-> 0]
    /\ got = [c \in Client |-> {}]

\* commitTx up to the commit: number the changes, apply the retention limit.
Commit(n) ==
    /\ outbox = <<>>
    /\ latest + n <= MaxSequence
    /\ latest' = latest + n
    /\ trimmed' = IF latest' > limit THEN Higher(trimmed, latest' - limit) ELSE trimmed
    /\ outbox' = [i \in 1 .. n |-> latest + i]
    /\ UNCHANGED <<limit, sending, handler, wire, stalled>> /\ UNCHANGED page

\* changeHub.publish, one change: offered to every subscriber, dropped by
\* those whose channel is full.
BugPublish ==
    /\ outbox # <<>>
    /\ \A c \in Client : Connected(c) => Len(handler[c].buffer) < Buffer
    /\ handler' = [c \in Client |->
            IF Connected(c) THEN [handler[c] EXCEPT !.buffer = Append(@, Head(outbox))]
                            ELSE handler[c]]
    /\ outbox' = Tail(outbox)
    /\ sending' = (outbox' # <<>>)
    /\ UNCHANGED <<wire, stalled>> /\ UNCHANGED log /\ UNCHANGED page
Publish ==
    /\ outbox # <<>>
    /\ handler' = [c \in Client |->
            IF Connected(c) /\ Len(handler[c].buffer) < Buffer
            THEN [handler[c] EXCEPT !.buffer = Append(@, Head(outbox))]
            ELSE handler[c]]
    /\ outbox' = Tail(outbox)
    /\ sending' = (outbox' # <<>>)
    /\ UNCHANGED <<wire, stalled>> /\ UNCHANGED log /\ UNCHANGED page

---------------------------------------------------------------------------
(* handleRealtime                                                           *)

\* SubscribeChanges comes first; it waits for a publication under way.
Subscribe(c) ==
    /\ ~Connected(c)
    /\ ~sending
    /\ handler' = [handler EXCEPT ![c] = [Off EXCEPT !.pc = "subscribed"]]
    /\ UNCHANGED <<wire, stalled>> /\ UNCHANGED log /\ UNCHANGED hub /\ UNCHANGED page

\* No Last-Event-ID: the feed starts at the end of the log.
StartAtLatest(c) ==
    /\ handler[c].pc = "subscribed"
    /\ eventID[c] = 0
    /\ handler' = [handler EXCEPT ![c].pc = "live", ![c].last = latest]
    /\ base' = [base EXCEPT ![c] = latest]
    /\ opened' = [opened EXCEPT ![c] = Lower(@, latest)]
    /\ UNCHANGED <<wire, stalled, seen, eventID, got>> /\ UNCHANGED log /\ UNCHANGED hub

\* Last-Event-ID: the feed resumes behind it.
Resume(c) ==
    /\ handler[c].pc = "subscribed"
    /\ eventID[c] # 0
    /\ handler' = [handler EXCEPT ![c].pc = "paging", ![c].last = eventID[c]]
    /\ UNCHANGED <<wire, stalled>> /\ UNCHANGED log /\ UNCHANGED hub /\ UNCHANGED page

\* One turn of replayRealtimeChanges.  A short page ends the replay, and the
\* change that caused it is written unless the replay has brought it.
Replay(c) ==
    LET h == handler[c]
        rows == Rows(h.last)
        reached == IF rows = <<>> THEN h.last ELSE rows[Len(rows)]
        more == Len(rows) = PageSize
        pending == ~more /\ h.held > reached
    IN
    /\ h.pc = "paging"
    /\ wire' = [wire EXCEPT ![c] = @ \o rows \o (IF pending THEN <<h.held>> ELSE <<>>)]
    /\ handler' = [handler EXCEPT ![c] =
            [pc |-> IF more THEN "paging" ELSE "live",
             last |-> IF pending THEN h.held ELSE reached,
             held |-> IF more THEN h.held ELSE 0,
             buffer |-> h.buffer]]
    /\ UNCHANGED stalled /\ UNCHANGED log /\ UNCHANGED hub /\ UNCHANGED page

\* A change from the channel: old ones are skipped, a gap starts a replay.
BugReceive(c) ==
    LET h == handler[c]
        change == Head(h.buffer)
    IN
    /\ h.pc = "live"
    /\ h.buffer # <<>>
    /\ handler' = [handler EXCEPT ![c].buffer = Tail(@),
                                  ![c].last = Higher(@, change)]
    /\ wire' = IF change > h.last THEN [wire EXCEPT ![c] = Append(@, change)] ELSE wire
    /\ UNCHANGED stalled /\ UNCHANGED log /\ UNCHANGED hub /\ UNCHANGED page
BugReceiveTwice(c) ==
    LET h == handler[c]
        change == Head(h.buffer)
    IN
    /\ h.pc = "live"
    /\ h.buffer # <<>>
    /\ handler' = [handler EXCEPT ![c].buffer = Tail(@),
                                  ![c].last = change]
    /\ wire' = [wire EXCEPT ![c] = Append(@, change)]
    /\ UNCHANGED stalled /\ UNCHANGED log /\ UNCHANGED hub /\ UNCHANGED page
Receive(c) ==
    LET h == handler[c]
        change == Head(h.buffer)
        next == change = h.last + 1
        gap == change > h.last + 1
    IN
    /\ h.pc = "live"
    /\ h.buffer # <<>>
    /\ handler' = [handler EXCEPT ![c] =
            [pc |-> IF gap THEN "paging" ELSE "live",
             last |-> IF next THEN change ELSE h.last,
             held |-> IF gap THEN change ELSE 0,
             buffer |-> Tail(h.buffer)]]
    /\ wire' = IF next THEN [wire EXCEPT ![c] = Append(@, change)] ELSE wire
    /\ UNCHANGED stalled /\ UNCHANGED log /\ UNCHANGED hub /\ UNCHANGED page

\* The heartbeat replays whatever the channel dropped.
BugHeartbeat(c) == FALSE /\ UNCHANGED vars
Heartbeat(c) ==
    /\ handler[c].pc = "live"
    /\ handler' = [handler EXCEPT ![c].pc = "paging"]
    /\ UNCHANGED <<wire, stalled>> /\ UNCHANGED log /\ UNCHANGED hub /\ UNCHANGED page

---------------------------------------------------------------------------
(* The browser                                                              *)

\* dispatchChange: changes at or below lastSequence are ignored.
Dispatch(c) ==
    LET change == Head(wire[c]) IN
    /\ wire[c] # <<>>
    /\ c \notin stalled
    /\ wire' = [wire EXCEPT ![c] = Tail(@)]
    /\ eventID' = [eventID EXCEPT ![c] = change]
    /\ seen' = [seen EXCEPT ![c] = Higher(@, change)]
    /\ got' = IF change > seen[c] THEN [got EXCEPT ![c] = @ \cup {change}] ELSE got
    /\ UNCHANGED <<handler, stalled, opened, base>> /\ UNCHANGED log /\ UNCHANGED hub

\* The network or the browser stops taking what the server writes; the server
\* may go on for a while (socket buffers) or hang in a write for ever.
Stall(c) ==
    /\ Connected(c)
    /\ stalled' = stalled \cup {c}
    /\ UNCHANGED <<handler, wire>> /\ UNCHANGED log /\ UNCHANGED hub /\ UNCHANGED page

\* The connection breaks: what is on the wire is lost, the handler returns and
\* unsubscribes, and the EventSource will reconnect on its own.
Break(c) ==
    /\ Connected(c)
    /\ handler' = [handler EXCEPT ![c] = Off]
    /\ wire' = [wire EXCEPT ![c] = <<>>]
    /\ stalled' = stalled \ {c}
    /\ UNCHANGED log /\ UNCHANGED hub /\ UNCHANGED page

\* disconnectRealtime, or connectRealtime in a page loaded anew: a fresh
\* EventSource has no last event id.
Leave(c) ==
    /\ handler' = [handler EXCEPT ![c] = Off]
    /\ wire' = [wire EXCEPT ![c] = <<>>]
    /\ stalled' = stalled \ {c}
    /\ seen' = [seen EXCEPT ![c] = 0]
    /\ eventID' = [eventID EXCEPT ![c] = 0]
    /\ opened' = [opened EXCEPT ![c] = NotOpened]
    /\ base' = [base EXCEPT ![c] = 0]
    /\ got' = [got EXCEPT ![c] = {}]
    /\ UNCHANGED log /\ UNCHANGED hub

\* The process dies and is restarted: the log is on disk, the hub is not, and
\* SetChangeLogLimit takes the limit from the configuration.
Restart(n) ==
    /\ limit' = n
    /\ outbox' = <<>>
    /\ sending' = FALSE
    /\ handler' = [c \in Client |-> Off]
    /\ wire' = [c \in Client |-> <<>>]
    /\ stalled' = {}
    /\ UNCHANGED <<latest, trimmed>> /\ UNCHANGED page

---------------------------------------------------------------------------
ServerStep(c) ==
    \/ StartAtLatest(c)
    \/ Resume(c)
    \/ Replay(c)
    \/ Receive(c)
    \/ Heartbeat(c)

BrowserStep(c) == Dispatch(c) \/ Stall(c) \/ Break(c) \/ Leave(c)

Next ==
    \/ \E n \in Batch : Commit(n)
    \/ Publish
    \/ \E c \in Client : Subscribe(c) \/ ServerStep(c) \/ BrowserStep(c)
    \/ \E n \in Limit : Restart(n)

Spec == Init /\ [][Next]_vars

\* A writer's goroutine goes on.  So do the handler and the browser of a
\* connection that has not stalled.  Nobody has to connect.
FairSpec ==
    /\ Spec
    /\ WF_vars(Publish)
    /\ \A c \in Client :
        /\ WF_vars(c \notin stalled /\ ServerStep(c))
        /\ WF_vars(Dispatch(c))

---------------------------------------------------------------------------
(* Properties                                                               *)

TypeOK ==
    /\ latest \in 0 .. MaxSequence
    /\ trimmed \in 0 .. MaxSequence
    /\ limit \in Limit
    /\ outbox \in Seq(Sequence)
    /\ sending \in BOOLEAN
    /\ handler \in [Client -> Handler]
    /\ wire \in [Client -> Seq(Sequence)]
    /\ stalled \subseteq Client
    /\ seen \in [Client -> 0 .. MaxSequence]
    /\ eventID \in [Client -> 0 .. MaxSequence]
    /\ opened \in [Client -> 0 .. NotOpened]
    /\ base \in [Client -> 0 .. MaxSequence]
    /\ got \in [Client -> SUBSET Sequence]

\* A connection carries changes in ascending order, none of them twice and
\* none the page already has, across drops, replays and resumptions.
InOrder ==
    \A c \in Client : \A i \in 1 .. Len(wire[c]) :
        /\ seen[c] < wire[c][i]
        /\ \A k \in 1 .. (i - 1) : wire[c][k] < wire[c][i]

\* What the page has dispatched leaves no hole behind: a missing change was
\* deleted by the retention limit, whatever a full channel or a broken
\* connection lost.
NoSilentGap ==
    \A c \in Client : \A s \in (base[c] + 1) .. seen[c] :
        s \in got[c] \/ s <= trimmed

\* The same for everything since the page first connected.
NothingMissedWhileOpen ==
    \A c \in Client : \A s \in (opened[c] + 1) .. seen[c] :
        s \in got[c] \/ s <= trimmed

\* While a client stays connected and takes what it is sent, every change reaches it, even when its
\* channel dropped the last one published.
CaughtUp ==
    \A c \in Client : \A s \in Sequence :
        (handler[c].pc \in {"paging", "live"} /\ latest >= s)
            ~> (Higher(seen[c], base[c]) >= s \/ ~Connected(c) \/ c \in stalled)

\* A stalled browser never holds up a database writer.
WriterNeverBlocked == outbox # <<>> ~> outbox = <<>>

=============================================================================
