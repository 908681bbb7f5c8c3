---------------------------- MODULE ChangeFeedProofs ----------------------------
(****************************************************************************)
(* Proofs about ChangeFeed, for any number of clients and changes and any   *)
(* capacity of the channel and of a page of the replay.                     *)
(*                                                                          *)
(* Neither InOrder nor NoSilentGap is inductive: both speak of what the     *)
(* page has dispatched, and what comes next depends on the server's side.   *)
(* The invariant links the two ends: a connection's wire ascends from the   *)
(* page's position to the handler's (Aligned), and everything up to the     *)
(* handler's position was dispatched, is on the wire or was deleted         *)
(* (Covered).  A replay is over only when it reaches the end of the log,    *)
(* and nothing any part of the feed knows of is beyond it (Known).          *)
(****************************************************************************)
EXTENDS ChangeFeed, SequenceTheorems, TLAPS

\* Nothing in memory or in a browser is ahead of the log.
HandlerUpTo(n) == [pc: {"off", "subscribed", "paging", "live"},
                   last: 0 .. n, held: 0 .. n, buffer: Seq(1 .. n)]
Known ==
    /\ latest \in 0 .. MaxSequence
    /\ trimmed \in 0 .. latest
    /\ trimmed < latest \/ latest = 0
    /\ limit \in Limit
    /\ outbox \in Seq(1 .. latest)
    /\ sending \in BOOLEAN
    /\ handler \in [Client -> HandlerUpTo(latest)]
    /\ wire \in [Client -> Seq(1 .. latest)]
    /\ stalled \subseteq Client
    /\ seen \in [Client -> 0 .. latest]
    /\ eventID \in [Client -> 0 .. latest]
    /\ opened \in [Client -> 0 .. NotOpened]
    /\ base \in [Client -> 0 .. latest]
    /\ got \in [Client -> SUBSET (1 .. latest)]

\* The first n entries of w ascend strictly, above lo and up to hi.
Climbs(w, n, lo, hi) ==
    \A i \in 1 .. n :
        /\ w[i] \in Nat /\ lo < w[i] /\ w[i] <= hi
        /\ \A k \in 1 .. (i - 1) : w[k] < w[i]
Ascends(w, lo, hi) == Climbs(w, Len(w), lo, hi)

\* The wire leads from the page's position to the handler's.
Following(c) == handler[c].pc \in {"paging", "live"}
Aligned(c) ==
    /\ ~Following(c) => wire[c] = <<>>
    /\ Following(c) => seen[c] <= handler[c].last
    /\ Ascends(wire[c], seen[c], handler[c].last)

\* What was dispatched, is under way or was deleted leaves no hole.
On(w, s) == \E i \in 1 .. Len(w) : w[i] = s
Covered(c) ==
    /\ eventID[c] = seen[c]
    /\ \A s \in (base[c] + 1) .. seen[c] : s \in got[c] \/ s <= trimmed
    /\ Following(c) => \A s \in (base[c] + 1) .. handler[c].last :
            s \in got[c] \/ s <= trimmed \/ On(wire[c], s)

Feed == \A c \in Client : Aligned(c) /\ Covered(c)
IInv == Known /\ Feed

---------------------------------------------------------------------------
(* Lemmas about the operators of the model                                  *)

\* A sequence over 1 .. m is one over 1 .. n when the log has grown.
LEMMA SeqUpTo ==
    ASSUME NEW m \in Nat, NEW n \in Nat, m <= n, NEW s \in Seq(1 .. m)
    PROVE  s \in Seq(1 .. n)
<1>1. 1 .. m \subseteq 1 .. n
    OBVIOUS
<1>. QED  BY <1>1, SeqMonotonic

\* The elements of a sequence over 1 .. m.
LEMMA ElementUpTo ==
    ASSUME NEW m \in Nat, NEW s \in Seq(1 .. m)
    PROVE  /\ Len(s) \in Nat
           /\ \A i \in 1 .. Len(s) : s[i] \in 1 .. m
BY ElementOfSeq, LenProperties

\* A page of the replay: consecutive changes behind `last' and behind what
\* retention deleted, and a short page reaches the end of the log.
LEMMA RowsAre ==
    ASSUME Known, NEW last \in 0 .. latest
    PROVE  /\ Rows(last) \in Seq(1 .. latest)
           /\ Higher(last, trimmed) \in 0 .. latest
           /\ Len(Rows(last)) \in Nat
           /\ Higher(last, trimmed) + Len(Rows(last)) <= latest
           /\ \A i \in 1 .. Len(Rows(last)) :
                  Rows(last)[i] = Higher(last, trimmed) + i
           /\ Len(Rows(last)) # PageSize => Higher(last, trimmed) + Len(Rows(last)) = latest
           /\ Rows(last) = <<>> <=> Len(Rows(last)) = 0
<1>. DEFINE from == Higher(last, trimmed)
            size == Lower(PageSize, latest - Lower(from, latest))
            rows == [i \in 1 .. size |-> from + i]
<1>1. /\ latest \in Nat /\ trimmed \in 0 .. latest /\ PageSize \in Nat \ {0}
    BY FeedAssumption DEF Known
<1>2. from \in 0 .. latest
    BY <1>1 DEF Higher
<1>3. /\ size \in Nat
      /\ from + size <= latest
      /\ size # PageSize => from + size = latest
    BY <1>1, <1>2 DEF Lower
<1>4. Rows(last) = rows
    BY DEF Rows
<1>. HIDE DEF from, size
<1>5. rows \in Seq(1 .. latest) /\ Len(rows) = size
    BY <1>1, <1>2, <1>3
<1>6. \A i \in 1 .. size : rows[i] = from + i
    OBVIOUS
<1>7. rows = <<>> <=> size = 0
    BY <1>5, EmptySeq, LenProperties
<1>. QED  BY <1>2, <1>3, <1>4, <1>5, <1>6, <1>7 DEF from

\* The two lemmas below rest on these facts about numbered values: an
\* ascending list continued by consecutive numbers, and one without its first.
LEMMA Continued ==
    ASSUME NEW n \in Nat, NEW k \in Nat, NEW w, NEW v,
           NEW lo \in Nat, NEW mid \in Nat, NEW from \in Nat, lo <= mid, mid <= from,
           Climbs(w, n, lo, mid),
           \A i \in 1 .. n : v[i] = w[i],
           \A i \in 1 .. k : v[n + i] = from + i
    PROVE  Climbs(v, n + k, lo, from + k)
<1>. SUFFICES ASSUME NEW i \in 1 .. (n + k)
              PROVE  /\ v[i] \in Nat /\ lo < v[i] /\ v[i] <= from + k
                     /\ \A j \in 1 .. (i - 1) : v[j] < v[i]
    BY DEF Climbs
<1>1. CASE i <= n
    BY <1>1 DEF Climbs
<1>2. CASE i > n
    <2>1. ASSUME NEW j \in 1 .. (n + k), j > n PROVE v[j] = from + (j - n)
        <3>1. j - n \in 1 .. k /\ n + (j - n) = j
            BY <2>1
        <3>. QED  BY <3>1
    <2>2. v[i] = from + (i - n)
        BY <1>2, <2>1
    <2>3. ASSUME NEW j \in 1 .. (i - 1) PROVE v[j] < v[i]
        <3>1. CASE j <= n
            BY <3>1, <2>2, <1>2 DEF Climbs
        <3>2. CASE j > n
            BY <3>2, <2>1, <2>2
        <3>. QED  BY <3>1, <3>2
    <2>. QED  BY <1>2, <2>2, <2>3
<1>. QED  BY <1>1, <1>2

LEMMA WithoutFirst ==
    ASSUME NEW n \in Nat, n # 0, NEW w, NEW t, NEW lo \in Nat, NEW hi \in Nat,
           Climbs(w, n, lo, hi),
           \A i \in 1 .. (n - 1) : t[i] = w[i + 1]
    PROVE  Climbs(t, n - 1, w[1], hi)
<1>1. ASSUME NEW i \in 1 .. (n - 1)
      PROVE  /\ t[i] \in Nat /\ w[1] < t[i] /\ t[i] <= hi
             /\ \A j \in 1 .. (i - 1) : t[j] < t[i]
    <2>1. i + 1 \in 1 .. n /\ i + 1 # 1 /\ t[i] = w[i + 1]
        OBVIOUS
    <2>2. w[1] < w[i + 1] /\ w[i + 1] <= hi /\ w[i + 1] \in Nat
        BY <2>1 DEF Climbs
    <2>3. ASSUME NEW j \in 1 .. (i - 1) PROVE t[j] < t[i]
        <3>1. j + 1 \in 1 .. ((i + 1) - 1) /\ j \in 1 .. (n - 1)
            OBVIOUS
        <3>. QED  BY <2>1, <3>1 DEF Climbs
    <2>. QED  BY <2>1, <2>2, <2>3
<1>. QED  BY <1>1 DEF Climbs

\* Consecutive changes behind an ascending wire keep it ascending.
LEMMA AscendsOn ==
    ASSUME NEW m \in Nat, NEW w \in Seq(1 .. m), NEW r \in Seq(1 .. m),
           NEW lo \in Nat, NEW mid \in Nat, NEW from \in Nat,
           lo <= mid, mid <= from, Ascends(w, lo, mid),
           \A i \in 1 .. Len(r) : r[i] = from + i
    PROVE  /\ w \o r \in Seq(1 .. m)
           /\ Ascends(w \o r, lo, from + Len(r))
           /\ \A s : On(w, s) => On(w \o r, s)
           /\ \A s \in (from + 1) .. (from + Len(r)) : On(w \o r, s)
<1>1. PICK n, k, v : n = Len(w) /\ k = Len(r) /\ v = w \o r
    OBVIOUS
<1>2. /\ v \in Seq(1 .. m) /\ n \in Nat /\ k \in Nat /\ Len(v) = n + k
      /\ \A i \in 1 .. n + k : v[i] = IF i <= n THEN w[i] ELSE r[i - n]
    BY <1>1, ConcatProperties, LenProperties
<1>3. Climbs(w, n, lo, mid) /\ \A i \in 1 .. k : r[i] = from + i
    BY <1>1 DEF Ascends
<1>4. \A i \in 1 .. n : v[i] = w[i]
    BY <1>2
<1>5. ASSUME NEW i \in 1 .. k PROVE v[n + i] = from + i
    <2>1. n + i \in 1 .. n + k /\ ~(n + i <= n) /\ (n + i) - n = i
        BY <1>2
    <2>. QED  BY <2>1, <1>2, <1>3
<1>6. Climbs(v, n + k, lo, from + k)
    BY <1>2, <1>3, <1>4, <1>5, Continued
<1>7. \A s : On(w, s) => On(v, s)
    BY <1>1, <1>2, <1>4 DEF On
<1>8. ASSUME NEW s \in (from + 1) .. (from + k) PROVE On(v, s)
    <2>1. s - from \in 1 .. k /\ n + (s - from) \in 1 .. (n + k)
        BY <1>2
    <2>2. v[n + (s - from)] = s
        BY <2>1, <1>5
    <2>. QED  BY <2>1, <2>2, <1>2 DEF On
<1>. QED  BY <1>1, <1>2, <1>6, <1>7, <1>8 DEF Ascends

\* Taking the first change off an ascending wire.
LEMMA AscendsTail ==
    ASSUME NEW m \in Nat, NEW w \in Seq(1 .. m), w # <<>>,
           NEW lo \in Nat, NEW hi \in Nat, Ascends(w, lo, hi)
    PROVE  /\ Head(w) \in 1 .. m /\ lo < Head(w) /\ Head(w) <= hi
           /\ Tail(w) \in Seq(1 .. m)
           /\ Ascends(Tail(w), Head(w), hi)
           /\ \A s : On(w, s) => s >= Head(w) /\ (s = Head(w) \/ On(Tail(w), s))
<1>1. PICK n, t : n = Len(w) /\ t = Tail(w)
    OBVIOUS
<1>2. /\ n \in Nat \ {0} /\ t \in Seq(1 .. m) /\ Len(t) = n - 1
      /\ \A i \in 1 .. (n - 1) : t[i] = w[i + 1]
    BY <1>1, HeadTailProperties, EmptySeq
<1>3. \A i \in 1 .. n : w[i] \in 1 .. m
    BY <1>1, ElementUpTo
<1>4. Head(w) = w[1]
    OBVIOUS
<1>5. Climbs(w, n, lo, hi)
    BY <1>1 DEF Ascends
<1>6. lo < w[1] /\ w[1] <= hi /\ 1 \in 1 .. n
    BY <1>2, <1>5 DEF Climbs
<1>7. Climbs(t, n - 1, w[1], hi)
    BY <1>2, <1>5, WithoutFirst
<1>8. ASSUME NEW s, On(w, s) PROVE s >= w[1] /\ (s = w[1] \/ On(t, s))
    <2>1. PICK i \in 1 .. n : w[i] = s
        BY <1>1, <1>8 DEF On
    <2>2. CASE i = 1
        BY <2>1, <2>2, <1>3
    <2>3. CASE i # 1
        <3>1. i - 1 \in 1 .. (n - 1) /\ t[i - 1] = s
            BY <2>1, <2>3, <1>2
        <3>2. w[1] < w[i] /\ w[i] \in Nat /\ w[1] \in Nat
            BY <2>3, <1>5, <1>6 DEF Climbs
        <3>3. Len(t) = n - 1
            BY <1>2
        <3>4. On(t, s)
            BY <3>1, <3>3 DEF On
        <3>. QED  BY <2>1, <3>2, <3>4
    <2>. QED  BY <2>2, <2>3
<1>. QED  BY <1>1, <1>2, <1>3, <1>4, <1>6, <1>7, <1>8 DEF Ascends

---------------------------------------------------------------------------
(* Type correctness                                                         *)

\* What was in bounds stays so when the log has grown.
LEMMA HandlerGrows ==
    ASSUME NEW m \in Nat, NEW n \in Nat, m <= n
    PROVE  HandlerUpTo(m) \subseteq HandlerUpTo(n)
<1>1. Seq(1 .. m) \subseteq Seq(1 .. n)
    BY SeqUpTo
<1>. QED  BY <1>1 DEF HandlerUpTo

LEMMA KnownInit == Init => Known
<1>. SUFFICES ASSUME Init PROVE Known
    OBVIOUS
<1>1. <<>> \in Seq(1 .. 0)
    BY EmptySeq
<1>2. Off \in HandlerUpTo(0)
    BY <1>1 DEF Off, HandlerUpTo
<1>3. latest = 0 /\ 0 \in 0 .. MaxSequence /\ NotOpened \in 0 .. NotOpened
    BY FeedAssumption DEF Init, NotOpened
<1>4. /\ handler \in [Client -> HandlerUpTo(latest)]
      /\ wire \in [Client -> Seq(1 .. latest)] /\ outbox \in Seq(1 .. latest)
    BY <1>1, <1>2, <1>3 DEF Init
<1>5. /\ seen \in [Client -> 0 .. latest] /\ eventID \in [Client -> 0 .. latest]
      /\ base \in [Client -> 0 .. latest] /\ opened \in [Client -> 0 .. NotOpened]
    BY <1>3 DEF Init
<1>6. got \in [Client -> SUBSET (1 .. latest)]
    BY DEF Init
<1>7. /\ latest \in 0 .. MaxSequence /\ trimmed \in 0 .. latest /\ limit \in Limit
      /\ sending \in BOOLEAN /\ stalled \subseteq Client
    <2>1. trimmed = 0 /\ limit \in Limit /\ sending = FALSE /\ stalled = {}
        BY DEF Init
    <2>2. sending \in BOOLEAN
        BY <2>1, Zenon
    <2>. QED  BY <1>3, <2>1, <2>2
<1>. QED  BY <1>3, <1>4, <1>5, <1>6, <1>7 DEF Known

\* A transaction: the log grows, what is known of it stays below its end.
LEMMA KnownCommit ==
    ASSUME Known, NEW n \in Batch, Commit(n) PROVE Known'
<1>1. /\ n \in Nat /\ latest \in Nat /\ latest' = latest + n /\ latest' \in 0 .. MaxSequence
      /\ latest <= latest' /\ limit \in Nat \ {0} /\ trimmed \in 0 .. latest
    BY FeedAssumption DEF Known, Commit
<1>2. trimmed' \in 0 .. latest' /\ (trimmed' < latest' \/ latest' = 0)
    BY <1>1 DEF Known, Commit, Higher
<1>3. outbox' \in Seq(1 .. latest')
    <2>1. \A i \in 1 .. n : latest + i \in 1 .. latest'
        BY <1>1
    <2>. QED  BY <1>1, <2>1 DEF Commit
<1>4. handler' \in [Client -> HandlerUpTo(latest')]
    BY <1>1, HandlerGrows DEF Known, Commit
<1>5. wire' \in [Client -> Seq(1 .. latest')]
    BY <1>1, SeqUpTo DEF Known, Commit
<1>6. /\ seen' \in [Client -> 0 .. latest'] /\ eventID' \in [Client -> 0 .. latest']
      /\ base' \in [Client -> 0 .. latest'] /\ got' \in [Client -> SUBSET (1 .. latest')]
    BY <1>1 DEF Known, Commit, page
<1>. QED  BY <1>1, <1>2, <1>3, <1>4, <1>5, <1>6 DEF Known, Commit, page

\* The writer and a restart leave the end of the log where it is.
LEMMA KnownShared ==
    ASSUME Known, Publish \/ \E n \in Limit : Restart(n) PROVE Known'
<1>1. /\ latest \in Nat /\ <<>> \in Seq(1 .. latest)
      /\ Off \in HandlerUpTo(latest)
    BY FeedAssumption, EmptySeq DEF Known, Off, HandlerUpTo
<1>2. CASE Publish
    <2>1. Head(outbox) \in 1 .. latest /\ Tail(outbox) \in Seq(1 .. latest)
        BY <1>2, HeadTailProperties DEF Publish, Known
    <2>2. ASSUME NEW d \in Client PROVE handler'[d] \in HandlerUpTo(latest)
        <3>1. handler[d] \in HandlerUpTo(latest)
            BY DEF Known
        <3>2. Append(handler[d].buffer, Head(outbox)) \in Seq(1 .. latest)
            BY <2>1, <3>1, AppendProperties DEF HandlerUpTo
        <3>3. [handler[d] EXCEPT !.buffer = Append(@, Head(outbox))] \in HandlerUpTo(latest)
            BY <3>1, <3>2 DEF HandlerUpTo
        <3>. QED  BY <1>2, <3>1, <3>3 DEF Publish
    <2>3. handler' \in [Client -> HandlerUpTo(latest)]
        BY <1>2, <2>2 DEF Publish
    <2>4. sending' \in BOOLEAN
        BY <1>2 DEF Publish
    <2>. QED  BY <1>2, <2>1, <2>3, <2>4 DEF Publish, Known, log, page
<1>3. CASE \E n \in Limit : Restart(n)
    BY <1>1, <1>3 DEF Restart, Known, log, page
<1>. QED  BY <1>2, <1>3

\* So do the steps of a connection and of a page that take no change.
LEMMA KnownRest ==
    ASSUME Known, NEW c \in Client,
           \/ Subscribe(c) \/ StartAtLatest(c) \/ Resume(c)
           \/ Heartbeat(c) \/ Stall(c) \/ Break(c) \/ Leave(c)
    PROVE  Known'
<1>1. /\ latest \in Nat /\ <<>> \in Seq(1 .. latest)
      /\ Off \in HandlerUpTo(latest)
    BY FeedAssumption, EmptySeq DEF Known, Off, HandlerUpTo
<1>3. CASE Subscribe(c)
    <2>1. [Off EXCEPT !.pc = "subscribed"] \in HandlerUpTo(latest)
        BY <1>1 DEF Off, HandlerUpTo
    <2>. QED  BY <1>3, <2>1 DEF Subscribe, Known, log, hub, page
<1>4. CASE StartAtLatest(c)
    <2>1. handler' \in [Client -> HandlerUpTo(latest)]
        <3>1. latest \in 0 .. latest
            BY <1>1
        <3>2. handler' = [handler EXCEPT ![c].pc = "live", ![c].last = latest]
            BY <1>4 DEF StartAtLatest
        <3>3. ASSUME NEW n \in 0 .. latest, handler' = [handler EXCEPT ![c].pc = "live", ![c].last = n]
              PROVE  handler' \in [Client -> HandlerUpTo(latest)]
            BY <3>3 DEF Known, HandlerUpTo
        <3>. QED  BY <3>1, <3>2, <3>3
    <2>2. opened' \in [Client -> 0 .. NotOpened]
        BY <1>1, <1>4, FeedAssumption DEF StartAtLatest, Known, Lower, NotOpened
    <2>. QED  BY <1>1, <1>4, <2>1, <2>2 DEF StartAtLatest, Known, log, hub
<1>5. CASE Resume(c)
    <2>1. handler' \in [Client -> HandlerUpTo(latest)]
        BY <1>1, <1>5 DEF Resume, Known, HandlerUpTo
    <2>. QED  BY <1>5, <2>1 DEF Resume, Known, log, hub, page
<1>6. CASE Heartbeat(c)
    <2>1. handler' \in [Client -> HandlerUpTo(latest)]
        BY <1>1, <1>6 DEF Heartbeat, Known, HandlerUpTo
    <2>. QED  BY <1>6, <2>1 DEF Heartbeat, Known, log, hub, page
<1>7. CASE Stall(c)
    BY <1>7 DEF Stall, Known, log, hub, page
<1>8. CASE Break(c)
    BY <1>1, <1>8 DEF Break, Known, log, hub, page
<1>9. CASE Leave(c)
    BY <1>1, <1>9, FeedAssumption DEF Leave, Known, log, hub, NotOpened
<1>. QED  BY <1>3, <1>4, <1>5, <1>6, <1>7, <1>8, <1>9

\* A change taken from the channel, and one taken by the browser.
LEMMA KnownTaken ==
    ASSUME Known, NEW c \in Client, Receive(c) \/ Dispatch(c) PROVE Known'
<1>1. latest \in Nat /\ handler[c] \in HandlerUpTo(latest) /\ wire[c] \in Seq(1 .. latest)
    BY FeedAssumption DEF Known
<1>2. CASE Receive(c)
    <2>. DEFINE change == Head(handler[c].buffer)
    <2>1. change \in 1 .. latest /\ Tail(handler[c].buffer) \in Seq(1 .. latest)
        BY <1>1, <1>2, HeadTailProperties DEF Receive, HandlerUpTo
    <2>2. handler[c].last \in 0 .. latest
        BY <1>1 DEF HandlerUpTo
    <2>3. Append(wire[c], change) \in Seq(1 .. latest)
        BY <1>1, <2>1, AppendProperties
    <2>. HIDE DEF change
    <2>4. wire' \in [Client -> Seq(1 .. latest)]
        BY <1>2, <2>3 DEF Receive, Known, change
    <2>5. handler' \in [Client -> HandlerUpTo(latest)]
        <3>. DEFINE moved == [pc |-> IF change > handler[c].last + 1 THEN "paging" ELSE "live",
                              last |-> IF change = handler[c].last + 1 THEN change
                                       ELSE handler[c].last,
                              held |-> IF change > handler[c].last + 1 THEN change ELSE 0,
                              buffer |-> Tail(handler[c].buffer)]
        <3>1. moved \in HandlerUpTo(latest)
            BY <1>1, <2>1, <2>2 DEF HandlerUpTo
        <3>2. handler' = [handler EXCEPT ![c] = moved]
            BY <1>2 DEF Receive, change
        <3>. HIDE DEF moved
        <3>. QED  BY <3>1, <3>2 DEF Known
    <2>. QED  BY <1>2, <2>4, <2>5 DEF Receive, Known, log, hub, page
<1>3. CASE Dispatch(c)
    <2>. DEFINE change == Head(wire[c])
    <2>1. change \in 1 .. latest /\ Tail(wire[c]) \in Seq(1 .. latest)
        BY <1>1, <1>3, HeadTailProperties DEF Dispatch
    <2>. HIDE DEF change
    <2>2. /\ wire' \in [Client -> Seq(1 .. latest)]
          /\ eventID' \in [Client -> 0 .. latest]
        BY <1>1, <1>3, <2>1 DEF Dispatch, Known, change
    <2>3. seen' \in [Client -> 0 .. latest] /\ got' \in [Client -> SUBSET (1 .. latest)]
        BY <1>1, <1>3, <2>1 DEF Dispatch, Known, Higher, change
    <2>. QED  BY <1>3, <2>2, <2>3 DEF Dispatch, Known, log, hub
<1>. QED  BY <1>2, <1>3

\* One turn of a replay: the page of rows goes on the wire, and a short page
\* has reached the end of the log, so the held change is among its rows.
LEMMA ReplayDoes ==
    ASSUME Known, NEW c \in Client, Replay(c)
    PROVE  LET h == handler[c]
               rows == Rows(h.last)
               from == Higher(h.last, trimmed)
               reached == IF Len(rows) = 0 THEN h.last ELSE from + Len(rows)
           IN
           /\ wire' = [wire EXCEPT ![c] = wire[c] \o rows]
           /\ handler' = [handler EXCEPT ![c] =
                  [pc |-> IF Len(rows) = PageSize THEN "paging" ELSE "live",
                   last |-> reached,
                   held |-> IF Len(rows) = PageSize THEN h.held ELSE 0,
                   buffer |-> h.buffer]]
           /\ h.pc = "paging"
<1>1. /\ latest \in Nat /\ handler[c] \in HandlerUpTo(latest) /\ wire[c] \in Seq(1 .. latest)
      /\ trimmed \in Nat /\ (trimmed < latest \/ latest = 0)
    BY FeedAssumption DEF Known
<1>2. handler[c].last \in 0 .. latest /\ handler[c].held \in 0 .. latest
    BY <1>1 DEF HandlerUpTo
<1>. DEFINE h == handler[c]
            rows == Rows(h.last)
            from == Higher(h.last, trimmed)
            reached == IF rows = <<>> THEN h.last ELSE rows[Len(rows)]
            n == Len(rows)
<1>3. /\ rows \in Seq(1 .. latest) /\ from \in 0 .. latest /\ n \in Nat
      /\ from + n <= latest /\ (n # PageSize => from + n = latest)
      /\ (rows = <<>> <=> n = 0)
      /\ \A i \in 1 .. n : rows[i] = from + i
    BY <1>2, RowsAre
<1>4. reached = IF n = 0 THEN h.last ELSE from + n
    BY <1>3
<1>5. ~(n # PageSize /\ h.held > reached)
    <2>1. CASE n = 0
        BY <1>1, <1>2, <1>3, <1>4, <2>1 DEF Higher
    <2>2. CASE n # 0
        BY <1>2, <1>3, <1>4, <2>2
    <2>. QED  BY <2>1, <2>2
<1>6. (wire[c] \o rows) \o <<>> = wire[c] \o rows
    BY <1>1, <1>3, ConcatProperties, ConcatEmptySeq
<1>7. wire' = [wire EXCEPT ![c] = wire[c] \o rows]
    <2>1. wire' = [wire EXCEPT ![c] = (wire[c] \o rows) \o <<>>]
        BY <1>5 DEF Replay
    <2>. QED  BY <2>1, <1>6
<1>8. handler' = [handler EXCEPT ![c] =
            [pc |-> IF n = PageSize THEN "paging" ELSE "live", last |-> reached,
             held |-> IF n = PageSize THEN h.held ELSE 0, buffer |-> h.buffer]]
    BY <1>5 DEF Replay
<1>. QED  BY <1>4, <1>7, <1>8 DEF Replay

LEMMA KnownReplay ==
    ASSUME Known, NEW c \in Client, Replay(c) PROVE Known'
<1>1. /\ latest \in Nat /\ handler[c] \in HandlerUpTo(latest) /\ wire[c] \in Seq(1 .. latest)
      /\ handler[c].last \in 0 .. latest
    BY FeedAssumption DEF Known, HandlerUpTo
<1>. DEFINE rows == Rows(handler[c].last)
            from == Higher(handler[c].last, trimmed)
            reached == IF Len(rows) = 0 THEN handler[c].last ELSE from + Len(rows)
            next == [pc |-> IF Len(rows) = PageSize THEN "paging" ELSE "live",
                     last |-> reached,
                     held |-> IF Len(rows) = PageSize THEN handler[c].held ELSE 0,
                     buffer |-> handler[c].buffer]
<1>2. rows \in Seq(1 .. latest) /\ reached \in 0 .. latest
    <2>1. /\ rows \in Seq(1 .. latest) /\ from \in 0 .. latest
          /\ Len(rows) \in Nat /\ from + Len(rows) <= latest
        BY <1>1, RowsAre
    <2>. QED  BY <1>1, <2>1
<1>3. wire[c] \o rows \in Seq(1 .. latest)
    BY <1>1, <1>2, ConcatProperties
<1>4. next \in HandlerUpTo(latest)
    <2>. HIDE DEF reached, rows
    <2>. QED  BY <1>1, <1>2 DEF HandlerUpTo
<1>5. /\ wire' = [wire EXCEPT ![c] = wire[c] \o rows]
      /\ handler' = [handler EXCEPT ![c] = next]
    BY ReplayDoes
<1>. HIDE DEF rows, next
<1>6. /\ wire' \in [Client -> Seq(1 .. latest)]
      /\ handler' \in [Client -> HandlerUpTo(latest)]
    BY <1>3, <1>4, <1>5 DEF Known
<1>. QED  BY <1>6 DEF Replay, Known, log, hub, page

LEMMA KnownStep == Known /\ [Next]_vars => Known'
<1>. SUFFICES ASSUME Known, [Next]_vars PROVE Known'
    OBVIOUS
<1>1. CASE \E n \in Batch : Commit(n)
    BY <1>1, KnownCommit
<1>2. CASE \E c \in Client : Replay(c)
    BY <1>2, KnownReplay
<1>3. CASE \E c \in Client : Receive(c) \/ Dispatch(c)
    BY <1>3, KnownTaken
<1>4. CASE Publish \/ \E n \in Limit : Restart(n)
    BY <1>4, KnownShared
<1>5. CASE \E c \in Client : \/ Subscribe(c) \/ StartAtLatest(c) \/ Resume(c)
                             \/ Heartbeat(c) \/ Stall(c) \/ Break(c) \/ Leave(c)
    BY <1>5, KnownRest
<1>6. CASE UNCHANGED vars
    BY <1>6 DEF vars, Known
<1>. QED  BY <1>1, <1>2, <1>3, <1>4, <1>5, <1>6 DEF Next, ServerStep, BrowserStep

---------------------------------------------------------------------------
(* Both ends of a connection                                                *)

\* Facts about one client that the steps below need.
LEMMA ClientKnown ==
    ASSUME Known, NEW c \in Client
    PROVE  /\ latest \in Nat /\ trimmed \in 0 .. latest
           /\ handler[c] \in HandlerUpTo(latest)
           /\ handler[c].last \in 0 .. latest
           /\ handler[c].buffer \in Seq(1 .. latest)
           /\ wire[c] \in Seq(1 .. latest)
           /\ seen[c] \in 0 .. latest /\ eventID[c] \in 0 .. latest
           /\ base[c] \in 0 .. latest
BY FeedAssumption DEF Known, HandlerUpTo

LEMMA EmptyAscends == \A lo, hi : Ascends(<<>>, lo, hi)
BY DEF Ascends, Climbs

\* Nothing is lost for a client none of whose positions moves: retention only
\* deletes more.
LEMMA StillFed ==
    ASSUME Known, NEW d \in Client, Aligned(d), Covered(d),
           handler'[d].pc = handler[d].pc, handler'[d].last = handler[d].last,
           wire'[d] = wire[d], seen'[d] = seen[d], eventID'[d] = eventID[d],
           base'[d] = base[d], got'[d] = got[d],
           trimmed' \in Nat, trimmed <= trimmed'
    PROVE  Aligned(d)' /\ Covered(d)'
<1>1. Aligned(d)'
    BY DEF Aligned, Following
<1>2. \A s \in Nat : s <= trimmed => s <= trimmed'
    BY ClientKnown
<1>3. /\ \A s \in (base[d] + 1) .. seen[d] : s \in Nat
      /\ \A s \in (base[d] + 1) .. handler[d].last : s \in Nat
    BY ClientKnown
<1>4. Following(d)' <=> Following(d)
    BY DEF Following
<1>5. \A s \in (base[d] + 1) .. seen[d] : s \in got'[d] \/ s <= trimmed'
    BY <1>2, <1>3 DEF Covered
<1>6. Following(d) => \A s \in (base[d] + 1) .. handler[d].last :
            s \in got'[d] \/ s <= trimmed' \/ On(wire'[d], s)
    BY <1>2, <1>3 DEF Covered
<1>. QED  BY <1>1, <1>4, <1>5, <1>6 DEF Covered

\* A connection that ends leaves the page where it was, or as new.
LEMMA ClosedFed ==
    ASSUME Known, NEW d \in Client, Covered(d),
           handler'[d] = Off, wire'[d] = <<>>, trimmed' = trimmed,
           \/ /\ seen'[d] = seen[d] /\ eventID'[d] = eventID[d]
              /\ base'[d] = base[d] /\ got'[d] = got[d]
           \/ seen'[d] = 0 /\ eventID'[d] = 0 /\ base'[d] = 0
    PROVE  Aligned(d)' /\ Covered(d)'
<1>1. ~(Following(d)')
    BY DEF Following, Off
<1>2. Aligned(d)'
    BY <1>1, EmptyAscends DEF Aligned
<1>3. CASE seen'[d] = seen[d] /\ eventID'[d] = eventID[d] /\ base'[d] = base[d] /\ got'[d] = got[d]
    BY <1>1, <1>2, <1>3 DEF Covered
<1>4. CASE seen'[d] = 0 /\ eventID'[d] = 0 /\ base'[d] = 0
    BY <1>1, <1>2, <1>4 DEF Covered
<1>. QED  BY <1>3, <1>4

\* SubscribeChanges and the two ways a feed can start.
LEMMA StartFed ==
    ASSUME Known, NEW c \in Client, Aligned(c), Covered(c),
           Subscribe(c) \/ StartAtLatest(c) \/ Resume(c)
    PROVE  Aligned(c)' /\ Covered(c)'
<1>1. ~Following(c) /\ wire[c] = <<>> /\ wire'[c] = <<>>
    BY DEF Subscribe, StartAtLatest, Resume, Connected, Following, Aligned
<1>2. CASE Subscribe(c)
    <2>1. handler'[c].pc = "subscribed"
        BY <1>2 DEF Subscribe, Known, Off
    <2>2. ~(Following(c)')
        BY <2>1 DEF Following
    <2>3. Aligned(c)'
        BY <1>1, <2>2, EmptyAscends DEF Aligned
    <2>4. Covered(c)'
        BY <1>2, <2>2 DEF Subscribe, Covered, log, page
    <2>. QED  BY <2>3, <2>4
<1>3. CASE StartAtLatest(c)
    <2>1. handler'[c].pc = "live" /\ handler'[c].last = latest /\ base'[c] = latest
        BY <1>3, ClientKnown DEF StartAtLatest, Known, HandlerUpTo
    <2>2. Following(c)'
        BY <2>1 DEF Following
    <2>3. seen'[c] = 0 /\ eventID'[c] = 0
        BY <1>3 DEF StartAtLatest, Covered
    <2>4. Aligned(c)'
        BY <1>1, <2>1, <2>2, <2>3, ClientKnown, EmptyAscends DEF Aligned
    <2>5. Covered(c)'
        BY <2>1, <2>2, <2>3, ClientKnown DEF Covered
    <2>. QED  BY <2>4, <2>5
<1>4. CASE Resume(c)
    <2>1. handler'[c].pc = "paging" /\ handler'[c].last = seen[c]
        BY <1>4, ClientKnown DEF Resume, Known, HandlerUpTo, Covered
    <2>2. Following(c)'
        BY <2>1 DEF Following
    <2>3. seen'[c] = seen[c] /\ eventID' = eventID /\ base' = base /\ got' = got /\ trimmed' = trimmed
        BY <1>4 DEF Resume, log, page
    <2>4. Aligned(c)'
        BY <1>1, <2>1, <2>2, <2>3, ClientKnown, EmptyAscends DEF Aligned
    <2>5. Covered(c)'
        BY <2>1, <2>2, <2>3 DEF Covered
    <2>. QED  BY <2>4, <2>5
<1>. QED  BY <1>2, <1>3, <1>4

\* A turn of a replay: its rows follow on, and what they leave out behind the
\* handler's position was deleted.
LEMMA ReplayFed ==
    ASSUME Known, NEW c \in Client, Aligned(c), Covered(c), Replay(c)
    PROVE  Aligned(c)' /\ Covered(c)'
<1>. DEFINE last == handler[c].last
            rows == Rows(last)
            from == Higher(last, trimmed)
            reached == IF Len(rows) = 0 THEN last ELSE from + Len(rows)
<1>1. /\ wire' = [wire EXCEPT ![c] = wire[c] \o rows]
      /\ handler' = [handler EXCEPT ![c] =
             [pc |-> IF Len(rows) = PageSize THEN "paging" ELSE "live",
              last |-> reached,
              held |-> IF Len(rows) = PageSize THEN handler[c].held ELSE 0,
              buffer |-> handler[c].buffer]]
      /\ handler[c].pc = "paging"
    BY ReplayDoes
<1>2. /\ wire'[c] = wire[c] \o rows /\ handler'[c].last = reached
      /\ handler'[c].pc \in {"paging", "live"}
    <2>. HIDE DEF rows, reached
    <2>. QED  BY <1>1 DEF Known
<1>3. Following(c) /\ Following(c)'
    BY <1>1, <1>2 DEF Following
<1>4. /\ seen' = seen /\ eventID' = eventID /\ base' = base /\ got' = got /\ trimmed' = trimmed
    BY DEF Replay, log, page
<1>5. /\ last \in 0 .. latest /\ latest \in Nat /\ trimmed \in Nat
      /\ seen[c] \in Nat /\ seen[c] <= last /\ base[c] \in Nat
      /\ wire[c] \in Seq(1 .. latest) /\ Ascends(wire[c], seen[c], last)
    BY <1>3, ClientKnown DEF Aligned
<1>6. /\ rows \in Seq(1 .. latest) /\ from \in 0 .. latest /\ Len(rows) \in Nat
      /\ from + Len(rows) <= latest
      /\ \A i \in 1 .. Len(rows) : rows[i] = from + i
      /\ rows = <<>> <=> Len(rows) = 0
    BY <1>5, RowsAre
<1>7. last <= from /\ \A s \in Nat : last < s /\ s <= from => s <= trimmed
    BY <1>5 DEF Higher
<1>8. /\ Ascends(wire[c] \o rows, seen[c], from + Len(rows))
      /\ \A s : On(wire[c], s) => On(wire[c] \o rows, s)
      /\ \A s \in (from + 1) .. (from + Len(rows)) : On(wire[c] \o rows, s)
    <2>. HIDE DEF last, rows, from
    <2>1. /\ latest \in Nat /\ seen[c] \in Nat /\ last \in Nat /\ from \in Nat
          /\ seen[c] <= last /\ last <= from
        BY <1>5, <1>6, <1>7
    <2>2. wire[c] \in Seq(1 .. latest) /\ Ascends(wire[c], seen[c], last)
        BY <1>5
    <2>3. rows \in Seq(1 .. latest) /\ \A i \in 1 .. Len(rows) : rows[i] = from + i
        BY <1>6
    <2>. QED  BY <2>1, <2>2, <2>3, AscendsOn
<1>9. Ascends(wire[c] \o rows, seen[c], reached)
    <2>1. CASE Len(rows) = 0
        <3>1. wire[c] \o rows = wire[c]
            BY <1>5, <1>6, <2>1, ConcatEmptySeq
        <3>. QED  BY <1>5, <2>1, <3>1
    <2>2. CASE Len(rows) # 0
        BY <1>8, <2>2
    <2>. QED  BY <2>1, <2>2
<1>10. seen[c] <= reached
    <2>. HIDE DEF last, rows, from
    <2>. QED  BY <1>5, <1>6, <1>7
<1>11. Aligned(c)'
    BY <1>2, <1>3, <1>4, <1>9, <1>10 DEF Aligned
<1>12. ASSUME NEW s \in (base[c] + 1) .. reached
       PROVE  s \in got[c] \/ s <= trimmed \/ On(wire[c] \o rows, s)
    <2>1. s \in Nat /\ (s <= last \/ (last < s /\ s <= from + Len(rows)))
        <3>. HIDE DEF last, rows, from
        <3>. QED  BY <1>5, <1>6
    <2>2. CASE s <= last
        <3>1. s \in (base[c] + 1) .. last
            BY <2>1, <2>2, <1>5
        <3>. QED  BY <1>3, <1>8, <3>1 DEF Covered
    <2>3. CASE last < s /\ s <= from
        BY <2>1, <2>3, <1>7
    <2>4. CASE from < s /\ s <= from + Len(rows)
        <3>1. s \in (from + 1) .. (from + Len(rows))
            <4>. HIDE DEF rows, from
            <4>. QED  BY <2>1, <2>4, <1>6
        <3>. QED  BY <1>8, <3>1
    <2>5. s <= from \/ from < s
        BY <2>1, <1>6
    <2>. QED  BY <2>1, <2>2, <2>3, <2>4, <2>5
<1>13. Covered(c)'
    <2>. HIDE DEF rows, reached
    <2>. QED  BY <1>2, <1>4, <1>12 DEF Covered
<1>. QED  BY <1>11, <1>13

\* A change from the channel: the next one follows on, an old one is skipped,
\* and one behind a gap waits for a replay.
LEMMA ReceiveFed ==
    ASSUME Known, NEW c \in Client, Aligned(c), Covered(c), Receive(c)
    PROVE  Aligned(c)' /\ Covered(c)'
<1>1. PICK change, last, w :
          /\ change = Head(handler[c].buffer) /\ last = handler[c].last /\ w = wire[c]
    OBVIOUS
<1>2. Following(c) /\ handler[c].buffer # <<>>
    BY DEF Receive, Following
<1>3. /\ latest \in Nat /\ change \in 1 .. latest /\ last \in 0 .. latest
      /\ w \in Seq(1 .. latest) /\ Ascends(w, seen[c], last)
      /\ seen[c] \in Nat /\ seen[c] <= last /\ base[c] \in Nat
    BY <1>1, <1>2, ClientKnown, HeadTailProperties DEF Aligned
<1>4. /\ handler'[c].pc \in {"paging", "live"}
      /\ handler'[c].last = IF change = last + 1 THEN change ELSE last
      /\ wire'[c] = IF change = last + 1 THEN Append(w, change) ELSE w
    BY <1>1 DEF Receive, Known
<1>5. Following(c)'
    BY <1>4 DEF Following
<1>6. /\ seen' = seen /\ eventID' = eventID /\ base' = base /\ got' = got /\ trimmed' = trimmed
    BY DEF Receive, log, page
<1>7. CASE change # last + 1
    <2>1. handler'[c].last = handler[c].last /\ wire'[c] = wire[c]
        BY <1>1, <1>4, <1>7
    <2>2. Aligned(c)'
        BY <1>2, <1>5, <1>6, <2>1 DEF Aligned
    <2>3. Covered(c)'
        BY <1>2, <1>5, <1>6, <2>1 DEF Covered
    <2>. QED  BY <2>2, <2>3
<1>8. CASE change = last + 1
    <2>1. PICK r : r = <<change>>
        OBVIOUS
    <2>2. /\ r \in Seq(1 .. latest) /\ Len(r) = 1
          /\ \A i \in 1 .. Len(r) : r[i] = last + i
          /\ Append(w, change) = w \o r
        BY <1>3, <1>8, <2>1
    <2>3. /\ Ascends(w \o r, seen[c], last + Len(r))
          /\ \A s : On(w, s) => On(w \o r, s)
          /\ \A s \in (last + 1) .. (last + Len(r)) : On(w \o r, s)
        <3>1. last \in Nat /\ last <= last
            BY <1>3
        <3>2. \A i \in 1 .. Len(r) : r[i] = last + i
            BY <2>2
        <3>3. r \in Seq(1 .. latest)
            BY <2>2
        <3>. QED  BY <1>3, <3>1, <3>2, <3>3, AscendsOn
    <2>4. /\ handler'[c].last = last + Len(r) /\ last + Len(r) = last + 1
          /\ wire'[c] = w \o r
        BY <1>4, <1>8, <2>2
    <2>5. Aligned(c)'
        <3>1. seen[c] <= last + 1
            BY <1>3
        <3>. QED  BY <1>5, <1>6, <2>3, <2>4, <3>1 DEF Aligned
    <2>6. ASSUME NEW s \in (base[c] + 1) .. (last + 1)
          PROVE  s \in got[c] \/ s <= trimmed \/ On(w \o r, s)
        <3>1. CASE s <= last
            <4>1. s \in (base[c] + 1) .. handler[c].last
                BY <1>1, <1>3, <3>1
            <4>. QED  BY <1>1, <1>2, <2>3, <4>1 DEF Covered
        <3>2. CASE ~(s <= last)
            <4>1. s \in (last + 1) .. (last + Len(r))
                BY <1>3, <2>2, <3>2
            <4>. QED  BY <2>3, <4>1
        <3>. QED  BY <3>1, <3>2
    <2>7. Covered(c)'
        BY <1>6, <2>4, <2>6 DEF Covered
    <2>. QED  BY <2>5, <2>7
<1>. QED  BY <1>7, <1>8

\* The browser dispatches the first change on the wire: it is new, and what it
\* passes over was dispatched before or deleted.
LEMMA DispatchFed ==
    ASSUME Known, NEW c \in Client, Aligned(c), Covered(c), Dispatch(c)
    PROVE  Aligned(c)' /\ Covered(c)'
<1>1. PICK change, last, w, t :
          /\ change = Head(wire[c]) /\ last = handler[c].last
          /\ w = wire[c] /\ t = Tail(wire[c])
    OBVIOUS
<1>2. w # <<>> /\ Following(c)
    BY <1>1 DEF Dispatch, Aligned
<1>3. /\ latest \in Nat /\ last \in 0 .. latest /\ w \in Seq(1 .. latest)
      /\ Ascends(w, seen[c], last) /\ seen[c] \in Nat /\ base[c] \in Nat
    BY <1>1, ClientKnown DEF Aligned
<1>4. /\ change \in 1 .. latest /\ seen[c] < change /\ change <= last
      /\ Ascends(t, change, last)
      /\ \A s : On(w, s) => s >= change /\ (s = change \/ On(t, s))
    <2>1. last \in Nat
        BY <1>3
    <2>. QED  BY <1>1, <1>2, <1>3, <2>1, AscendsTail
<1>5. /\ wire'[c] = t /\ eventID'[c] = change /\ seen'[c] = change
      /\ got'[c] = got[c] \cup {change}
    BY <1>1, <1>3, <1>4 DEF Dispatch, Known, Higher
<1>6. handler' = handler /\ base' = base /\ trimmed' = trimmed /\ Following(c)'
    BY <1>2 DEF Dispatch, log, Following
<1>7. Aligned(c)'
    BY <1>1, <1>4, <1>5, <1>6 DEF Aligned
<1>8. ASSUME NEW s \in (base[c] + 1) .. last
      PROVE  s \in got'[c] \/ s <= trimmed \/ On(t, s)
    BY <1>1, <1>2, <1>4, <1>5, <1>8 DEF Covered
<1>9. ASSUME NEW s \in (base[c] + 1) .. change
      PROVE  s \in got'[c] \/ s <= trimmed
    <2>1. s \in (base[c] + 1) .. last /\ s \in Nat
        BY <1>3, <1>4
    <2>2. CASE On(w, s)
        <3>1. s = change
            BY <1>4, <2>1, <2>2
        <3>. QED  BY <1>5, <3>1
    <2>3. CASE ~On(w, s)
        BY <1>1, <1>2, <1>5, <2>1, <2>3 DEF Covered
    <2>. QED  BY <2>2, <2>3
<1>10. Covered(c)'
    BY <1>1, <1>5, <1>6, <1>8, <1>9 DEF Covered
<1>. QED  BY <1>7, <1>10

\* Every step, for every client: the ones it is about, and the others.
LEMMA FeedStep == Known /\ Feed /\ [Next]_vars => Feed'
<1>. SUFFICES ASSUME Known, Feed, [Next]_vars, NEW d \in Client
              PROVE  Aligned(d)' /\ Covered(d)'
    BY DEF Feed
<1>1. Aligned(d) /\ Covered(d) /\ trimmed \in Nat /\ trimmed' \in Nat
    BY ClientKnown, KnownStep, FeedAssumption DEF Feed, Known
<1>2. CASE \E n \in Batch : Commit(n)
    <2>1. PICK n \in Batch : Commit(n)
        BY <1>2
    <2>2. trimmed <= trimmed'
        <3>1. limit \in Nat /\ latest' \in Nat
            BY <2>1, KnownStep, FeedAssumption DEF Known
        <3>. QED  BY <1>1, <2>1, <3>1 DEF Commit, Higher
    <2>. QED  BY <1>1, <2>1, <2>2, StillFed DEF Commit, page
<1>3. CASE Publish
    <2>1. handler'[d].pc = handler[d].pc /\ handler'[d].last = handler[d].last
        BY <1>3, ClientKnown DEF Publish, HandlerUpTo
    <2>. QED  BY <1>1, <1>3, <2>1, StillFed DEF Publish, log, page
<1>4. CASE \E n \in Limit : Restart(n)
    BY <1>1, <1>4, ClosedFed DEF Restart, page
<1>5. CASE UNCHANGED vars
    BY <1>1, <1>5, StillFed DEF vars
<1>6. CASE \E c \in Client : Subscribe(c) \/ ServerStep(c) \/ BrowserStep(c)
    <2>1. PICK c \in Client : Subscribe(c) \/ ServerStep(c) \/ BrowserStep(c)
        BY <1>6
    <2>2. trimmed' = trimmed
        BY <2>1 DEF ServerStep, BrowserStep, Subscribe, StartAtLatest, Resume, Replay, Receive,
                    Heartbeat, Dispatch, Stall, Break, Leave, log
    <2>3. CASE c # d
        <3>1. /\ handler'[d] = handler[d] /\ wire'[d] = wire[d]
              /\ seen'[d] = seen[d] /\ eventID'[d] = eventID[d]
              /\ base'[d] = base[d] /\ got'[d] = got[d]
            BY <2>1, <2>3 DEF ServerStep, BrowserStep, Subscribe, StartAtLatest, Resume, Replay,
                Receive, Heartbeat, Dispatch, Stall, Break, Leave, page, Known
        <3>. QED  BY <1>1, <2>2, <3>1, StillFed
    <2>4. CASE c = d /\ (Subscribe(c) \/ StartAtLatest(c) \/ Resume(c))
        BY <1>1, <2>4, StartFed
    <2>5. CASE c = d /\ Replay(c)
        BY <1>1, <2>5, ReplayFed
    <2>6. CASE c = d /\ Receive(c)
        BY <1>1, <2>6, ReceiveFed
    <2>7. CASE c = d /\ Dispatch(c)
        BY <1>1, <2>7, DispatchFed
    <2>8. CASE c = d /\ Heartbeat(c)
        <3>1. handler'[d].pc = "paging" /\ handler[d].pc = "live" /\ handler'[d].last = handler[d].last
            BY <2>8, ClientKnown DEF Heartbeat, Known, HandlerUpTo
        <3>2. Following(d) /\ Following(d)'
            BY <3>1 DEF Following
        <3>. QED  BY <1>1, <2>8, <3>1, <3>2 DEF Heartbeat, page, log, Aligned, Covered
    <2>9. CASE c = d /\ Stall(c)
        BY <1>1, <2>2, <2>9, StillFed DEF Stall, page
    <2>10. CASE c = d /\ Break(c)
        BY <1>1, <2>2, <2>10, ClosedFed DEF Break, page, Known
    <2>11. CASE c = d /\ Leave(c)
        BY <1>1, <2>2, <2>11, ClosedFed DEF Leave, Known
    <2>. QED  BY <2>1, <2>3, <2>4, <2>5, <2>6, <2>7, <2>8, <2>9, <2>10, <2>11
              DEF ServerStep, BrowserStep
<1>. QED  BY <1>2, <1>3, <1>4, <1>5, <1>6 DEF Next

LEMMA FeedInit == Init => Feed
<1>. SUFFICES ASSUME Init, NEW c \in Client PROVE Aligned(c) /\ Covered(c)
    BY DEF Feed
<1>1. handler[c].pc = "off" /\ wire[c] = <<>> /\ seen[c] = 0 /\ eventID[c] = 0 /\ base[c] = 0
    BY DEF Init, Off
<1>2. ~Following(c)
    BY <1>1 DEF Following
<1>. QED  BY <1>1, <1>2, EmptyAscends DEF Aligned, Covered

---------------------------------------------------------------------------
(* Theorems                                                                 *)

LEMMA Invariance == Spec => []IInv
<1>1. Init => IInv
    BY KnownInit, FeedInit DEF IInv
<1>2. IInv /\ [Next]_vars => IInv'
    BY KnownStep, FeedStep DEF IInv
<1>. QED  BY <1>1, <1>2, PTL DEF Spec

\* Every variable keeps its type; commitTx never logs beyond the end, and no
\* number in a channel, on a connection or in a browser is ahead of the log.
THEOREM TypeCorrect == Spec => []TypeOK
<1>1. Known => TypeOK
    <2>. SUFFICES ASSUME Known PROVE TypeOK
        OBVIOUS
    <2>1. latest \in Nat /\ MaxSequence \in Nat /\ latest <= MaxSequence
        BY FeedAssumption DEF Known
    <2>2. Seq(1 .. latest) \subseteq Seq(Sequence)
        BY <2>1, SeqUpTo DEF Sequence
    <2>3. HandlerUpTo(latest) \subseteq Handler
        BY <2>1, <2>2 DEF HandlerUpTo, Handler
    <2>4. 0 .. latest \subseteq 0 .. MaxSequence /\ 1 .. latest \subseteq Sequence
        BY <2>1 DEF Sequence
    <2>5. /\ outbox \in Seq(Sequence) /\ handler \in [Client -> Handler]
          /\ wire \in [Client -> Seq(Sequence)]
        BY <2>2, <2>3 DEF Known
    <2>6. /\ seen \in [Client -> 0 .. MaxSequence] /\ eventID \in [Client -> 0 .. MaxSequence]
          /\ base \in [Client -> 0 .. MaxSequence] /\ got \in [Client -> SUBSET Sequence]
        BY <2>4 DEF Known
    <2>7. trimmed \in 0 .. MaxSequence
        BY <2>4 DEF Known
    <2>. QED  BY <2>5, <2>6, <2>7 DEF Known, TypeOK
<1>. QED  BY <1>1, Invariance, PTL DEF IInv

\* replayRealtimeChanges and the channel never bring a connection a change
\* twice, out of order, or one dispatchChange would ignore.
THEOREM OrderKept == Spec => []InOrder
<1>1. IInv => InOrder
    <2>. SUFFICES ASSUME IInv, NEW c \in Client PROVE
            \A i \in 1 .. Len(wire[c]) :
                seen[c] < wire[c][i] /\ \A k \in 1 .. (i - 1) : wire[c][k] < wire[c][i]
        BY DEF InOrder
    <2>. QED  BY DEF IInv, Feed, Aligned, Ascends, Climbs
<1>. QED  BY <1>1, Invariance, PTL

\* Whatever a full channel or a broken connection lost, a change the page has
\* passed without dispatching it is one the retention limit deleted.
THEOREM NothingSkipped == Spec => []NoSilentGap
<1>1. IInv => NoSilentGap
    BY DEF IInv, Feed, Covered, NoSilentGap
<1>. QED  BY <1>1, Invariance, PTL

==================================================================================
