------------------------------ MODULE DeleteQueue ------------------------------
(****************************************************************************)
(* The deletion queue of the mailbox page (MailboxesView.vue) with the      *)
(* shared confirmation dialog it waits on (useConfirm.js).                  *)
(*                                                                          *)
(* A deletion takes minutes on Apple's side, so the page accepts mailboxes  *)
(* from three places (a row or the drawer, the ticked rows, a pasted list   *)
(* that the server resolves), and runs up to MaxConcurrent of them, one for *)
(* each Apple account.  A ticked row is remembered as {id, email} only: its *)
(* account is unknown to the queue.                                         *)
(****************************************************************************)
EXTENDS Naturals, SequencesExt

CONSTANTS Mailbox, Account,
          AccountOf,      \* the Apple account of every mailbox
          MaxConcurrent,  \* maxConcurrentDeleteAccounts
          MaxAccepted     \* bound: how many deletions are accepted in a behaviour

None == "none"
Unknown == "unknown-account"
Origin == {"full", "ticked"}   \* a whole mailbox (row, drawer, resolved address) or a ticked row
Item == [id : Mailbox, from : Origin]

VARIABLES
    pool,        \* mailboxes the server has
    ticked,      \* selectedMailboxes
    dialog,      \* who waits for the visible confirmation: None, "deletion", "other"
    asked,       \* the deletions whose confirmation is awaited (deleteConfirmID)
    pasted,      \* the resolve request of the pasted list: [at, ids it found]
    queue,       \* deleteQueue
    deleting,    \* deletingMailboxIDs, with the key each one occupies
    settling,    \* ended deletions whose list reload is awaited
    inRun,       \* deleteQueueRunning
    tally,       \* deleteSucceeded, deleteFailed
    notice,      \* the queue's notice: None, "progress", "result"
    accepted     \* history: deletions accepted since the counters were cleared, and in all

vars == <<pool, ticked, dialog, asked, pasted, queue, deleting, settling, inRun, tally,
          notice, accepted>>

BugKeyOf(item) == item.id

\* mailboxDeleteAccountKey
KeyOf(item) == IF item.from = "ticked" THEN Unknown ELSE AccountOf[item.id]

Ids(S) == {item.id : item \in S}
Waiting == ToSet(queue)
Keys(S) == {KeyOf(item) : item \in S}
AskedIds == Ids(asked)

\* isMailboxDeleteBusy: a deletion of the row is asked for, waits or runs.
Busy(m) == \/ m \in AskedIds /\ \E item \in asked : item.from = "full"
           \/ m \in Ids(deleting) \cup Ids(Waiting)

TypeOK ==
    /\ pool \subseteq Mailbox /\ ticked \subseteq Mailbox
    /\ dialog \in {None, "deletion", "other"}
    /\ asked \in SUBSET Item
    /\ pasted \in [at : {None, "sent", "answered"}, ids : SUBSET Mailbox]
    /\ queue \in Seq(Item) /\ deleting \in SUBSET Item
    /\ settling \in Nat /\ inRun \in BOOLEAN
    /\ tally \in [done : Nat, failed : Nat]
    /\ notice \in {None, "progress", "result"}
    /\ accepted \in [batch : Nat, all : Nat]

Init ==
    /\ pool = Mailbox /\ ticked = {} /\ dialog = None /\ asked = {}
    /\ pasted = [at |-> None, ids |-> {}]
    /\ queue = <<>> /\ deleting = {} /\ settling = 0 /\ inRun = FALSE
    /\ tally = [done |-> 0, failed |-> 0] /\ notice = None
    /\ accepted = [batch |-> 0, all |-> 0]

-----------------------------------------------------------------------------
(* processDeleteQueue.  Its loop takes the first waiting item whose key is  *)
(* free, again and again: the i-th item starts when its key is free, no     *)
(* earlier item has that key, and fewer than the free places start before.  *)

BugStartable(q, i, busyKeys) == KeyOf(q[i]) \notin busyKeys
Startable(q, i, busyKeys) ==
    KeyOf(q[i]) \notin busyKeys /\ \A j \in 1..(i - 1) : KeyOf(q[j]) # KeyOf(q[i])

Starts(q, running) ==
    {i \in DOMAIN q :
        /\ Startable(q, i, Keys(running))
        /\ Cardinality({j \in 1..(i - 1) : Startable(q, j, Keys(running))})
             < MaxConcurrent - Cardinality(Keys(running))}

\* What is not taken out stays in its order.
Ascending(S) ==
    CHOOSE at \in [1..Cardinality(S) -> S] : \A i, j \in DOMAIN at : i < j => at[i] < at[j]
Left(q, gone) ==
    LET at == Ascending({i \in DOMAIN q : q[i] \notin gone})
    IN  [k \in DOMAIN at |-> q[at[k]]]

ProcessQueue(q, running, counts) ==
    LET now == running \cup {q[i] : i \in Starts(q, running)}
        left == Left(q, now)
        idle == left = <<>> /\ now = {}
    IN  /\ queue' = left /\ deleting' = now
        /\ inRun' = ~idle
        /\ notice' = IF idle THEN "result"
                     ELSE IF counts.done + counts.failed + Cardinality(now) + Len(left) > 0
                     THEN "progress" ELSE notice

\* enqueueMailboxDeletions(mailboxes): those not yet waiting or running are appended; the
\* counters start again unless a run is under way.
Fresh(items) == {item \in items : item.id \notin Ids(deleting) \cup Ids(Waiting)}
BugCleared == deleting = {}
Cleared == ~inRun

Enqueue(items) ==
    LET new == Fresh(items)
        counts == IF Cleared THEN [done |-> 0, failed |-> 0] ELSE tally
    IN  IF new = {} THEN UNCHANGED <<queue, deleting, inRun, tally, notice, accepted>>
        ELSE /\ accepted.all + Cardinality(new) <= MaxAccepted
             /\ tally' = counts
             /\ accepted' = [batch |-> (IF Cleared THEN 0 ELSE accepted.batch)
                                          + Cardinality(new),
                             all |-> accepted.all + Cardinality(new)]
             /\ ProcessQueue(queue \o SetToSeq(new), deleting, counts)

-----------------------------------------------------------------------------
Dialogless == dialog = None /\ pasted.at = None   \* no overlay covers the page

\* toggleMailboxSelection, toggleAllMailboxSelection (which ticks busy rows as well)
Tick(m) ==
    /\ Dialogless /\ m \in pool
    /\ ticked' = IF m \in ticked THEN ticked \ {m} ELSE ticked \cup {m}
    /\ UNCHANGED <<pool, dialog, asked, pasted, queue, deleting, settling, inRun, tally,
                   notice, accepted>>

\* deleteMailbox(mailbox, localOnly), up to its confirmation
AskRow(m) ==
    /\ Dialogless /\ asked = {} /\ m \in pool /\ ~Busy(m)
    /\ asked' = {[id |-> m, from |-> "full"]} /\ dialog' = "deletion"
    /\ UNCHANGED <<pool, ticked, pasted, queue, deleting, settling, inRun, tally, notice,
                   accepted>>

\* removeSelectedMailboxes, up to its confirmation
AskTicked ==
    LET targets == {m \in ticked : ~Busy(m)}
    IN  /\ Dialogless /\ asked = {} /\ targets # {}
        /\ asked' = {[id |-> m, from |-> "ticked"] : m \in targets} /\ dialog' = "deletion"
        /\ UNCHANGED <<pool, ticked, pasted, queue, deleting, settling, inRun, tally,
                       notice, accepted>>

\* confirm() called by another action while a dialog may be visible (cleanAllAppleMail asks
\* after an awaited request): the one that waited is answered with FALSE, and its finally
\* clause clears deleteConfirmID.
AskOther ==
    /\ dialog' = "other" /\ asked' = {}
    /\ UNCHANGED <<pool, ticked, pasted, queue, deleting, settling, inRun, tally, notice,
                   accepted>>

Cancel ==
    /\ dialog # None /\ dialog' = None /\ asked' = {}
    /\ UNCHANGED <<pool, ticked, pasted, queue, deleting, settling, inRun, tally, notice,
                   accepted>>

Accept ==
    /\ dialog # None /\ dialog' = None /\ asked' = {}
    /\ IF dialog = "deletion" THEN Enqueue(asked)
       ELSE UNCHANGED <<queue, deleting, inRun, tally, notice, accepted>>
    /\ UNCHANGED <<pool, ticked, pasted, settling>>

\* submitBulkDeleteEmails: the server resolves the pasted addresses, the answer arrives later.
SubmitPasted ==
    /\ Dialogless /\ pasted' = [pasted EXCEPT !.at = "sent"]
    /\ UNCHANGED <<pool, ticked, dialog, asked, queue, deleting, settling, inRun, tally,
                   notice, accepted>>

\* It finds those of the addresses that it has.  An answer without mailboxes stands for a
\* failed request too: both only show an error.
Resolve ==
    /\ pasted.at = "sent"
    /\ \E found \in SUBSET pool : pasted' = [at |-> "answered", ids |-> found]
    /\ UNCHANGED <<pool, ticked, dialog, asked, queue, deleting, settling, inRun, tally,
                   notice, accepted>>

PastedArrives ==
    /\ pasted.at = "answered" /\ pasted' = [at |-> None, ids |-> {}]
    /\ Enqueue({[id |-> m, from |-> "full"] : m \in {n \in pasted.ids : ~Busy(n)}})
    /\ UNCHANGED <<pool, ticked, dialog, asked, settling>>

\* executeMailboxDeletion: the answer of the DELETE request.  The item leaves the running ones
\* and its key is free at once; the queue goes on when the awaited list reload has ended.
DeletionAnswered(item, ok) ==
    /\ item \in deleting /\ (ok => item.id \in pool)
    /\ pool' = IF ok THEN pool \ {item.id} ELSE pool
    /\ ticked' = IF ok THEN ticked \ {item.id} ELSE ticked
    /\ tally' = IF ok THEN [tally EXCEPT !.done = @ + 1] ELSE [tally EXCEPT !.failed = @ + 1]
    /\ deleting' = deleting \ {item}
    /\ settling' = settling + 1
    /\ UNCHANGED <<dialog, asked, pasted, queue, inRun, notice, accepted>>

Settle ==
    /\ settling > 0 /\ settling' = settling - 1
    /\ ProcessQueue(queue, deleting, tally)
    /\ UNCHANGED <<pool, ticked, dialog, asked, pasted, tally, accepted>>

Next ==
    \/ \E m \in Mailbox : Tick(m) \/ AskRow(m)
    \/ AskTicked \/ AskOther \/ Cancel \/ Accept
    \/ SubmitPasted \/ Resolve \/ PastedArrives
    \/ \E item \in Item, ok \in BOOLEAN : DeletionAnswered(item, ok)
    \/ Settle

\* A request of the page ends with an answer or an error, and the continuations after it run:
\* the browser owes that.  The user owes nothing.
Fairness ==
    /\ \A m \in Mailbox : WF_vars(\E from \in Origin, ok \in BOOLEAN :
                                    DeletionAnswered([id |-> m, from |-> from], ok))
    /\ WF_vars(Settle)

Spec == Init /\ [][Next]_vars /\ Fairness

-----------------------------------------------------------------------------
\* Two deletions of one Apple account run together only when the queue could not know it: one
\* of them comes from a ticked row, whose account was not remembered, and the other does not.
\* (processDeleteQueue's activeDeleteAccounts, isMailboxDeleting, isMailboxDeleteQueued)
AccountsSerialised ==
    /\ Cardinality(deleting) <= MaxConcurrent
    /\ \A v, w \in deleting :
          v # w /\ AccountOf[v.id] = AccountOf[w.id] => v.from # w.from

\* The notice's figures add up: what succeeded, failed, runs and waits is everything accepted
\* since the counters were cleared, although a run may go on behind an awaited list reload
\* and new mailboxes are accepted at any time.  (updateDeleteProgress)
CountsAddUp ==
    tally.done + tally.failed + Cardinality(deleting) + Len(queue) = accepted.batch

\* The queue implements serialised work: every accepted mailbox is deleted or reported, in
\* the order and the concurrency KeyedWork allows, and none is accepted twice while it waits
\* or runs.  (enqueueMailboxDeletions, processDeleteQueue, executeMailboxDeletion)
Pool == INSTANCE KeyedWork WITH
            Work <- Item, Lane <- [item \in Item |-> KeyOf(item)],
            Subject <- [item \in Item |-> item.id], Limit <- MaxConcurrent,
            waiting <- Waiting, running <- deleting
ImplementsKeyedWork == Pool!Spec
=============================================================================
