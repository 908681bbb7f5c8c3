# iCloud Privacy Mail v2 in TLA+

The program manages Apple "Hide My Email" addresses: it signs in to Apple
accounts, creates and imports privacy mailboxes, hands them out to outside
clients through leases, fetches their mail and serves verification codes. It is
one Go process with one SQLite database (`internal/store`), an HTTP API
(`internal/httpapi`), background goroutines and a Vue front end. These modules
model its stateful parts, check them with TLC and prove what matters most with
TLAPS. `PROJECT.json` lists every component, run, mutant, mapped source line,
finding, hazard and theorem.

## Inventory

All store operations take `Store.mu` and run in one SQLite transaction
(`SetMaxOpenConns(1)`), so one store call is one atomic step; everything that
spans two calls, a network request or two mutexes is not. In the browser the code
between two `await`s is one atomic step; every `await api(...)` is a place where
clicks, timers, feed events and other answers come in between.

| component | state it keeps | operations | correct when |
|---|---|---|---|
| Mailbox pool and leases (`store/mailbox_lease.go`, `store/mailbox.go`, `httpapi/mailbox_lease.go`) | tables `mailboxes`, `mailbox_leases` | claim, commit, release, renew, reconcile, sweep, status edit, import, delete | a mailbox has at most one holder, is bound once, never lost to the pool |
| Change log and live feed (`store/sqlite.go`, `httpapi/realtime.go`, `useRealtime.js`) | `change_log`, subscriber channels, SSE connections, browser sequence | commit, publish, subscribe, replay, heartbeat, reconnect | browsers get every retained change once, in order; writers never wait for them |
| Scheduled creation (`scheduler/service.go`, `mailbox.Service.Create`) | run state (memory and disk), generation, cancel function, `createMu` | start, stop, resume, round, record, manual create | one goroutine in charge, counters belong to its run, restarts lose nothing |
| Message synchronisation (`mailbox/service.go` syncGroup, `store/mailbox.go` ApplyMailboxSyncBatch) | in-flight calls per account, sync cursors, messages | sync group, wait for another's result, apply a batch | one fetch per group, no duplicate message, counts agree |
| Bulk synchronisation job, Apple mail cleanup job (`mailbox/service.go`) | job record, generation, worker pool | start, progress, cancel, finish, interrupt | progress belongs to the job, a job always ends |
| Code retrieval (`mailbox/service.go` findCode, `httpapi/p2.go`) | last served message per mailbox | poll, peek, consume | a code is consumed once, no stale code is served |
| Mail watcher (`mailwatcher/service.go`) | worker per account group, wake set, status | wake, reconcile workers, IDLE, poll | every wake is honoured, replaced workers stop and leave no trace |
| Apple accounts and sessions (`apple/service.go`, `store/apple.go`) | `apple_accounts`, `icloud_sessions` with login states | log in, check, keep alive, save, merge, delete | no newer login state is overwritten by an older one |
| Mailbox deletion and remote cleaning (`mailbox/service.go`) | remote messages, remote address, local rows | clean, deactivate, delete, delete local | partial failures can be repeated, nothing is half deleted for good |
| Administrator login and web sessions (`auth/service.go`) | admins, web sessions, pending second factors | set up, log in, verify, log out, expire | a session is valid until logout, expiry or password change |
| Offline notifications (`httpapi/serverchan.go`) | last known login state per account | observe, notify | one notification per transition |
| Database maintenance (`httpapi/database.go`, `store.BackupDatabase`) | backup files and keys, maintenance records | back up, rotate, checkpoint, vacuum | every kept backup has its key |
| Update check (`updatecheck/service.go`, `httpapi/update.go`) | cached release | fetch, compare | newest version wins, failures keep the cache |
| Protocol clients (`internal/protocol`) | HTTP and IMAP connections | requests to Apple | outside, modelled by their outcomes |
| Deletion queue of the mailbox page (`MailboxesView.vue`, `useConfirm.js`) | ticked rows, confirmation, queue, running deletions, counters, notice | ask, confirm, paste, enqueue, run, settle | every accepted mailbox is deleted or reported once, one deletion per Apple account |
| Table of the mailbox page (`MailboxesView.vue`) | rows, newest load, flags, timers | load, poll, patch, reload | the table catches up with the pool whatever answer comes last |
| Drawer, code dialog, message reader (`MailboxesView.vue`) | selected mailbox, its mail and form, dialog, reader | open, save, synchronise, clean, get code, read, poll | nothing of one mailbox is shown, or saved, under another |
| Job notices of the mailbox page (`MailboxesView.vue`) | known job, notice, introduction, timer | feed, start, status chain | the notice of a job that ended says so |
| Tasks page (`TasksView.vue`) | scheduler status; creation form, its record, saves in flight | refresh, commands, automatic save, settings dialog | the status recovers without the feed; what is shown is stored |
| Dashboard, settings, Apple accounts (`DashboardView.vue`, `SettingsView.vue`, `AppleAccountsView.vue`) | figures; form; list, selection, credentials | readings and increments; load and save; select, check, log in, delete | figures are right, saving takes back nobody's change, credentials go to their account |
| Public code page (`PublicCodeView.vue`) | address, dialog, list, reader, cache | get code, get mail, open, prefetch | what is shown belongs to the address it is shown for |
| Browser session and routing (`useAuth.js`, `client.js`, `router`, `AppLayout.vue`, `LoginView.vue`) | authentication state, route, live connection | status, sign in and out, navigate, 401 | the console that is shown is connected, no other page is |
| Notices (`useToast.js`) | three notices and their timers | push, update, remove | messages do not push out a job's progress |
| Exports, announcements, tooltips, configuration, launcher | page state, files | rendering, file output | not modelled |

Hard behaviours: network calls between two reads of shared state (creation,
synchronisation, session refresh), goroutines superseded by a generation
counter, non-blocking channels that drop, text comparison of timestamps,
process exit in the middle of a job, and handlers that check in one store call
and act in the next. `PROJECT.json` "hazards" lists them at their lines.

## Plan

Done: the data of the pool and its mail on the server (`MailboxLease`, `MailSync`
and their proofs), what drives and reports it (`Scheduler`, `ChangeFeed`), and
the front end, page by page: `DeleteQueue` with the abstract queue `KeyedWork` it
implements, `MailboxList`, `MailboxDetail`, `JobNotices`, `TaskStatus`,
`CreateSettings`, `DashboardPage`, `SettingsPage`, `AccountsPage`, `PublicCode`,
`WebSession` and `Toast`, composed in `Console`. Every invariant and action property
that a passing run checks is also proved. Next, in this order:

1. `CodeServing` on top of the message tables: polling, peeking, consumption of
   the last served message, and what deleting that message brings back.
2. `SyncJob` and `MailWatcher`: the job whose notice `JobNotices` shows, its
   generations and its interruption by a restart; wake-ups and replaced workers.
3. `SessionStore`: login states under concurrent refresh, login and deletion.
4. `DeleteFlow` behind `DeleteQueue`, `BackupRotation`, the server's side of
   `WebSession`, `Notifications`, `UpdateCheck`, and the pure helpers.
5. `LeasePool`, the abstract pool of mailboxes that `MailboxLease` implements.
6. Proofs about the modules of items 1 to 5 as they appear.

## MailboxLease

State: `mailbox` and `lease` are the two tables, `clock` the operating system's
time. `recycled` is a history variable: the used mailboxes an administrator
reopened. There is one action per store operation; the calls that are refused
without a write change nothing and have no action. The handler reads
`time.Now()` before it waits for the store mutex, so `now` ranges over `Window`,
at most `Lag` old. SQLite compares timestamps as RFC3339 text; `Stamp` gives the
rank of each instant's text, which is the order of time only while the zone
keeps one offset. `TooLate` is the path of commit, renew and release that sweeps
and refuses. A reconciliation that finds its lease already used by this mailbox
answers without a write, so it has no action either.

| run | instance | shows |
|---|---|---|
| `lease_history` | 1 mailbox, 3 leases, 1 request id, clock lag 1 | `BindingConsistent`, `OneLeasePerRequest`, `BoundOnce`, `OutcomeIsFinal`, `UsedUntilReopened`, `NoEarlyExpiry`, `AbandonedIsRecovered` |
| `lease_text_time` | the night summer time ends | `NoEarlyExpiry` fails: text order expires a lease early |

Three leases are enough for a mailbox to be given back, bound, reopened and
bound again with late calls of each holder; a clock of two ticks and a lag of one
for expiry before, at and after a call's instant. The run has one mailbox, so that
three leases meet on it; which of several available mailboxes a claim takes matters to
no property it checks, and the theorems below hold for any number of mailboxes.

The clock is bounded (`MaxClock`), the calls are not: a lease may be granted or
renewed at every instant, up to a deadline past the clock's last (`MaxDeadline`).

Fairness: time passes and the reaper's goroutine goes on (`FairSpec`). Clients
and administrators have none. `RenewMailboxLease` has no limit, so a client that
renews in time keeps its mailbox for ever and no property says otherwise.
`AbandonedIsRecovered` is about a deadline that nobody moves: a claimed lease does
not keep one that the clock reaches.

### Proofs (`MailboxLeaseProofs`)

`TypeCorrect` and `BindingAlwaysConsistent` hold for every number of mailboxes
and leases, every lag and every `Stamp`, from `ConstantsAssumption` alone.
`BindingConsistent` is made inductive by its own parts: a mailbox that names a
lease is reserved and the lease claimed and pointing back; a claimed lease is
its mailbox's; a reserved mailbox has a lease; leases are numbered below
`nextLease` and mailboxes below `nextMailbox`. Without the last two a claim
could overwrite a live lease. `SweepAgrees`, `GrantAgrees` and `EndAgrees` are
the three ways a step moves both tables; every action is one of them or moves
neither.

Four theorems rest on it. `Fate` says what one step may do to a row: a lease is
cleared with its mailbox, created by a grant, or keeps its request and mailbox
and at most ends; a used mailbox leaves that status only in a step of `SetMailboxStatus`, which
also puts it into `recycled`. For an
import this needs `AbsentIsBlank`: a row outside the table is blank, so an import
cannot overwrite a used one. `RequestsServedOnce`, `OutcomesAreFinal` and
`UsedStaysUsed` follow from it; `MailboxBoundOnce` also needs `BoundIsUsed` (the
mailbox of a committed lease is used or was reopened): a second commit would
have to find that mailbox reserved.

`ExpiryIsNeverEarly` proves `NoEarlyExpiry` from the premise that the texts of two
instants are ordered as the instants are; `lease_text_time` shows that without it
the property fails. The invariant behind it is that every deadline is an instant whose
text has a rank (`DeadlinesInTime`), so the premise applies to it; the step lemma
(`DeadlineFate`) says that a lease that expires in a step was expirable at the
instant of the call that swept, which is in `Window` and so not later than the
clock. `AbandonedIsRecovered` is liveness and model-checked only.

## ChangeFeed

`change_log` is an interval of sequence numbers, `trimmed + 1 .. latest`. A
writer commits (`Commit`), then publishes change by change (`Publish`) before it
lets go of `Store.mu`; a connection's handler is the record `handler[c]` with
its place in `handleRealtime`, its channel and its `lastSequence`; `wire` is
what has been written and not yet dispatched; `seen` and `eventID` are the
browser's. `Replay` is one `ChangesAfter` page, written at once: what a broken
connection loses of it is lost from `wire`.

| run | instance | shows |
|---|---|---|
| `feed` | 1 browser, channel 2, page 2, retention 2 or 3, 5 changes in batches of 0 to 2 | `InOrder`, `NoSilentGap`, `CaughtUp` (the heartbeat repairs what the channel dropped), `WriterNeverBlocked` |
| `feed_first_gap` | 3 changes | `NothingMissedWhileOpen` fails: no event id before the first change |

The order of the real sizes (channel < page < retention) is not assumed:
overflow of the channel, full pages and trimmed replays all happen. Fairness:
a committed writer's goroutine, the handlers and the network go on, except on
connections that are `stalled`: the handler removes its write deadline, so such
a one may hold the handler for ever, and `WriterNeverBlocked` still holds.
Nothing is assumed of reconnections.

### Proofs (`ChangeFeedProofs`)

From `FeedAssumption` alone: any number of browsers, any channel, page and batch
sizes, retention limits that change between restarts. `IInv` has two halves.
`Known` bounds every number in a channel, on a connection or in a browser by what
the log or the outbox has. `Feed` is one statement per browser: what is on its
connection climbs from what it has seen (`Aligned`), the handler's `lastSequence`
is where the connection ends, and between what the page has seen and what it has
written the connection carries every change that retention has not deleted
(`Covered`). `InOrder` is not inductive without it: that the next change written is
newer than the last one on the connection is known only through `lastSequence`; nor is
`NoSilentGap`, since a change is dispatched only after it has travelled. `OrderKept`,
`NothingSkipped` and `TypeCorrect` follow. `CaughtUp` and `WriterNeverBlocked` are
liveness and stay with the model checker.

## Scheduler

`runner[g]` is the goroutine of generation g with its place in `run` and
`runRound`, `call[k]` a `Create` call (of runner k, or 0 for the manual
handler), `state`/`disk` the in-memory and the saved state, written together at
the end of every critical section. Instants matter only relative to the next
planned round: "future" or "past", wherever the instant is remembered. `Signal`
cancels every context and the process may live on until `Exit`; `Boot` is
`NewService` followed by `Resume`. Saving is taken to
succeed: the code ignores its error (`service.go:442`), and a failed save would leave the
disk behind until the next one. `signalled` is a history variable: whether the
last exit was announced by a signal.

| run | instance | shows |
|---|---|---|
| `sched_safe` | 2 accounts, 2 starts, 1 exit by signal or crash | `OneLiveRunner`, `ResumedAfterCrash`, `NoEarlyRound`, `CountsOwnRun` |
| `sched_live` | 1 account, 2 starts, manual creations | `RoundsContinue`, `CancelledRunnersEnd` |
| `sched_shutdown` | 1 start, 1 signal | `UnfinishedIsSaved` fails: `finish` saves the task as stopped |
| `sched_delete_race` | 1 start, 1 deletion | `PlannedAccountsExist` fails: the check and the deletion are two steps |

Two starts give two goroutines, the old one inside `Create` when the new one
runs; counters stick at `MaxCount`. Fairness: goroutines go on, Apple's answers
or time-outs come, time passes, and `createMu` is handed to every waiter (Go's
mutex prevents starvation), hence `SF` for `TakeCreateMu`.

### Proofs (`SchedulerProofs`)

From `SchedulerAssumption` alone, for any accounts, plans and number of starts,
exits and counts. `IInv` joins `ResumedAfterCrash` to four facts: the types
(`Typed`); that memory and disk agree while the process is up, and memory is blank
while it is down (`Memory`); that at most two generations are used per start
(`Numbered`), so that no goroutine is born under a number another one has; and for
each goroutine where its context and call stand and that a current one that is not
done is the one `cancel` reaches (`Runners`). `OneLiveRunner` alone says nothing of
goroutines that are cancelled and still inside `Create`, which are the ones that come
back. `OneGoroutine` and `ResumedRight` are the invariants, `RoundsOnTime` and
`OwnRunCounted` the action properties: a goroutine whose result arrives late finds
either itself current or another generation, and `Record` writes only in the first
case. `RoundsContinue` and `CancelledRunnersEnd` are liveness; `UnfinishedIsSaved`
and `PlannedAccountsExist` are false, as their runs show.

## MailSync

One Apple account. A mail is its UID, an index of `inbox`; `present` is what the
INBOX still holds; `box` and `stored` are the tables `mailboxes` and `messages`,
`cursor` the saved `last_scanned_uid`, `flight` the entry of `Service.syncs` and
`caller[c]` one call of `syncGroup`: it takes its list of mailboxes (`Request`),
waits or leads (`Wait`, `Lead`), and its answer is stored in one transaction
(`Apply`) or fails (`Fail`). Deletions, prunings and cleanings of the tables and
expunges at Apple come in between. `Hits`, `Scanned` and `Matched` are the IMAP
search, the fetch limit and the matching; `Overdue` is `mailboxSyncAfter`, the
filter by date. A search without a cursor goes back a day (`Lookback`), or as far
as the request says: kind `watcher` is the watcher's first read of a group, with
its own look-back and a larger limit; its later reads are verification reads.
SINCE compares the day a mail arrived, the filter the instant its header names,
so a mail has both (`arrived`, `sent`). The search and the fetch of one read are
one step.

`excused` is a history variable: mails the cursor may have passed, each for a
reason the code gives (`Excuse`). Two of them hide losses that a user would mind:
mail that became `Overdue` while a limited read had left it behind (the rest of a
backlog, dropped by its date) and mail for a mailbox that was imported or enabled
after the read's list was made. `NoCodePassedOver` says nothing about those; the
finding of `mail_full_scan` and the hazards name them.

| run | instance | shows |
|---|---|---|
| `mail_read` | 1 mailbox, 3 mails, fetch limit 1 (the watcher's 2), look-back below the clock's range | `MessagesCounted`, `NoCodePassedOver` |
| `mail_calls` | 2 mailboxes, 2 callers, 1 mail | `CallsReturn` |
| `mail_full_scan` | 1 mailbox, 2 mails | `FullScanComplete` fails: a full scan drops mail older than the last synchronisation |

Three mails are one behind the cursor and a backlog larger than the limit; two
mailboxes give lists that are partly gone when the batch is stored. Fairness:
goroutines go on and the IMAP server answers or the deadline of the read passes.
Which caller gets a free flight is left open, so `CallsReturn` promises a return
to those who share a read, and otherwise only that some call returns.

### Proofs (`MailSyncProofs`)

From `MailSyncAssumption` alone, for any number of mailboxes, callers, mails and
any fetch limits and look-backs. `CountedAlways` is inductive once an unknown mailbox is known to
count 0 and to keep no message (`RowCounted`). `CodesNeverPassedOver` needs what
a read in flight knows (`CursorInv`): the caller that stores its answer holds the
flight, so nobody else moves the cursor, and it has left out no mail that is
still present between the saved cursor and the one it is about to save
(`Reading`). `FirstLeavesNoGap` and `GreatestIsMaximum` say that the fetch limit
cuts off a suffix, `AddedAreCounted` and `ApplySettles` that storing a batch
counts and settles its mails, and `NobodyReadsAfter` that the flight is free when
it ends. `CallsReturn` is liveness and stays with the model checker.

Not modelled: reading through iCloud Web and merging its results (switched off
by default), a change of UIDVALIDITY, mail to several aliases at once, and a panic
inside a read: `syncGroup` frees the flight without `defer`, so a panic that
net/http recovers leaves the account's flight taken, and its waiters waiting.

## The front end: `Console`

A page keeps its state in `ref`s that every handler, timer and feed event may
write between any two `await`s. Each module below is one page, or one part of the
mailbox page; an action is a stretch of code between two `await`s, and a request
is a small record with its place: `sent` until the server reads or writes its
state, `answered` until the continuation in the browser runs. The two are
separate steps, so answers arrive late, old and in any order. What covers the
page (a dialog, a drawer, a reader) and what is `disabled` in the template are
guards of the user's actions, because the browser enforces them.

The router shows one page at a time and a page shares no `ref` with another. So
`Console` has all pages' variables, opens one of them (`page`) and leaves the
others' variables alone: its behaviours are the union of the pages'. `MCConsole` is
the finite instance that the run `pages` checks. Where
the parts of the mailbox page do touch, the effect is part of the module it falls
on: the silent reload after a deletion and the buttons and queue that keep the
poll away (`held`) in `MailboxList`, a deleted mailbox in `MailboxDetail`, another
part's confirmation (`AskOther`) in `DeleteQueue`.

| module | state and actions in the code | property |
|---|---|---|
| `DeleteQueue` | `deleteMailbox`, `removeSelectedMailboxes` and `submitBulkDeleteEmails` ask (`AskRow`, `AskTicked`, `SubmitPasted`), `enqueueMailboxDeletions` is `Enqueue`, `processDeleteQueue`'s loop is `Starts`, `executeMailboxDeletion` is `DeletionAnswered` and, after its awaited reload, `Settle` | `AccountsSerialised`, `CountsAddUp`, `ImplementsKeyedWork` |
| `MailboxList` | `load` and `loadRequestID` (`newest`), `refreshMailboxPool`, `scheduleRealtimeMailboxRefresh`, `applyRealtimeMailboxChange` | `FreshOrOvertaken` |
| `MailboxDetail` | `openMailbox`, `saveStatus`, `syncMailbox`, `clean`, `getCode`, `quickGetCode`, `openMessage`; `row` is `rowBusyActions`; the other variables say which mailbox a part of the page belongs to | `DrawerMatches`, `CodeMatches` |
| `JobNotices` | `applyExistingMailboxMessageSyncJob` with its three callers: feed, start, status chain; the introduction | `JobReported` |
| `TaskStatus` | `load`, `refreshScheduler` with `schedulerRefreshVersion` (`current`), `start`, `stop`, `createOne`, `clearLogs`, `saveDefaults` and `onMounted`'s load; commands overlap, and whichever ends first clears `busy` | `StatusRecovers` |
| `CreateSettings` | `scheduleFormAutoSave`, `saveFormSettings`, `saveDefaults`, `load`, `onBeforeUnmount`; one field that form and dialog share | `FormSaved` |
| `DashboardPage` | `scheduleRealtimeRefresh` (`Deliver`), `refreshDashboard`, `onMounted`; `counted` is how often the figures count each change | `FiguresRight` |
| `SettingsPage` | `scheduleRealtimeRefresh` with its single timer, `load`, `saveSystem`, `onMounted` with its late subscription (`Listen`) | `FormCurrent` |
| `AccountsPage` | `selectAccount`, `checkAccount`, `saveIMAP`, `deleteAccount`, `load` | `CredentialsMatch` |
| `PublicCode` | `getCode`, `getMessages`, `openMessage` with its request number, the cache and prefetch | `ShownMatches` |
| `WebSession` | `loadAuthStatus`, `login`, `logout`, `beforeEach`, `api`'s 401 branch, `connectRealtime` and `disconnectRealtime` in `AppLayout.vue` | `ConsoleIsLive` |
| `Toast` | `push`, `update`, `remove` | `ProgressStays` |

### What the properties leave out, and why

Several races of the pages are real and end badly; a property that ignored them
would be false, one that excluded too much would be empty. Each has a history
variable, or a named case, that is set exactly where the code loses:

- `AccountsSerialised` excuses two deletions of one account when just one of them
  is a ticked row: `toggleMailboxSelection` remembers no account, so all ticked
  rows share the key `unknown-account`.
- `FreshOrOvertaken` excuses `Overtaken`: a loud load that a silent one overtakes
  never clears `loading`, and then `refreshMailboxPool` returns at once, for ever.
- `crossed` (`MailboxDetail`, `AccountsPage`): an answer of an earlier request puts
  another mailbox, or another account, in place of the one the user has opened. The
  behaviours of these two pages end there.
- `broken` (`JobNotices`): the status chain is carried on by applied answers only, so
  a failed request, or an answer older than what the page knows, ends it.
- `FiguresRight` says how each change is counted, the wrong counts included: mail that
  crosses the reading on its way is counted twice if the reading had it and the feed
  brings it afterwards, and not at all if the feed brought it first (`Crossing`).
  Another change may be uncounted (`missed`) for one of three reasons: it was
  delivered before the page listened, only a failed reading had it, or an older
  reading came last.
- `missed` (`SettingsPage`): changes of the settings that the form does not have, lost in
  one of four ways: delivered before the page listens, which it does only when the
  update check has ended too; a due reload whose timer another change replaced (the
  single timer then reads the runtime state only); a load that failed; an older answer
  that came last. The next good answer brings them. Until then saving the form takes
  them back.
- `StatusRecovers` has the premise that commands pause (`CommandsPause`): the
  30-second refresh does not run beside a command, and every command outdates the one
  in flight, so a user who never pauses keeps it away.
- `spoiled` (`CreateSettings`): a save failed or was overtaken on its way. The module has
  one field, and this page is the only one that writes it: another tab's change, which
  the page answers with a silent load, and the fields only the dialog shows, which an
  automatic save carries along as they were last loaded, are left out.
- `cut` (`WebSession`): a failed sign-out has closed the connection of a console that
  the guard then shows again.

The mutants of these properties show that the excuses do not swallow the bugs.

Two steps are drawn together because nothing of the page depends on what lies between
them: the confirmation before a remote cleaning and its request (`CleanRemote`), and the
request of the public page's prefetch and its answer (`DetailArrives`).

### The abstract queue

`KeyedWork` says what a queue of deletions promises: accepted work waits, runs and
is gone, none is dropped or runs twice, no subject is accepted while it waits or
runs, no two pieces of a lane run together, at most `Limit` run, and everything
that waits is run in the end. `DeleteQueue` implements it with the account key as
lane and the mailbox id as subject (`Pool == INSTANCE KeyedWork WITH ...`); the run
checks `Pool!Spec`, its liveness included. The safety half, `Pool!Safety`, is also
proved (`QueueKeepsItsPromise`); that what waits runs in the end is left to the run.

### The run `pages`

Three mailboxes of two accounts (two of one account, so that a lane has a queue),
three accepted deletions, two at once (the code's limit of four is a constant of the
model; two is enough for a deletion that has to wait for a place); two mailboxes in
the drawer, so that every answer can meet the other one open; two filters, two changes
of the pool and one silent reload; two synchronisations with one change on its way;
two commands in flight, and the load on mount as one of them, over one change of the
scheduler (no guard depends on the status, so one change tells a new status from an
old one); two saves in flight, of the creation form and of the settings, with two
loads beside them; a log of three changes (one before, one in and one after a
reading); two accounts with two requests in flight; five notices, two more than are
shown. Every race named above happens within these bounds, and each of the run's
sixteen properties has a mutant that violates it there. The page may stop when the
user does, so deadlock is not an error.

Fairness: a request of a page ends, with an answer or an error, and the
continuation after it runs; timers fire. The browser and its time-outs give this.
`Queue!Fairness` is part of the run's specification. The properties of the pages
that ask again by themselves have their fairness as a premise
(`List!Fairness => List!FreshOrOvertaken`, likewise `Jobs` and `Tasks`), since only
there is it needed: the 30-second intervals go on, and a request that is repeated
for ever succeeds once in a while (`SF`), because a server that never answers well
leaves nothing to show. The user owes nothing but the pause between commands that
`StatusRecovers` asks for.

### Proofs

Thirteen theorems about `Console`, each `Spec => ...` for any mailboxes, accounts,
addresses, messages and bounds. A step of the console is a step of the open page and
leaves every other page's variables alone (`PublicSteps`, `DetailSteps`, ...), so an
invariant is shown to be kept by the steps of its own page. `ConsoleAssumption` is
needed only where something is counted: it says that there are finitely many mailboxes,
that the table has some view, that the bounds are natural numbers, and that at least one
command may be in flight.

`ConsoleProofs`: what a page shows belongs together.

- `ConsoleAlwaysLive`: `ConsoleIsLive` alone is not inductive. A navigation waits only
  for a status that is not loaded; a connection is open only under the console; frame
  and connection disagree without a `cut` only in a signed-out tab on its way to the
  login page that is not signing in (`WebInv`).
- `ShownAlwaysMatches`: the code and the list that are awaited are awaited for the address
  they will be shown under (`asked = email`, `mailing = loaded`).
- `DrawerAlwaysMatches` and `CodeAlwaysMatches`, proved together: the open message is
  the newest one asked for (`ReaderHeld`), and a code request keeps the dialog open on
  its own mailbox and is the only one (`DialogHeld`).
- `FormAlwaysCurrent`: every change of the settings is in the form, lost in one of the four
  ways, undelivered, due with the timer, or in a load that will bring it
  (`SettingsFound`).
- `FiguresAlwaysRight`: how often a change is counted is how often the newest reading has
  it (`ByReading`) plus how often the feed has brought it since that reading was shown
  (`ByFeed`); a change that is not mail is read, lost, undelivered, due with the timer,
  or in a reading under way (`DashboardFound`).
- `CredentialsAlwaysMatch`: inductive as it stands. Details fill form and selection
  together, lists and deletions only drop the selection, and the two answers that
  select another account are the ones that cross.

`DeletionProofs`: the deletion queue. `AccountsAlwaysSerialised`, `CountsAlwaysAddUp`
and `QueueKeepsItsPromise` follow from `QueueInv`: the types; that no mailbox waits twice
(`Distinct`), runs twice or runs while it waits (`Apart`); that what runs has one key each
and fits in the places (`Held`); that a confirmed list names no mailbox twice; and that
outside a run nothing waits or runs. The last one is why `CountsAddUp` alone is not
inductive: the counters are cleared when no run is under way. The step to `KeyedWork` needs
one more fact of each step (`Onward`: what waited waits or runs, what runs does not wait
again). Most of the module is about the operators: that a finite set of numbers can be
listed in ascending order (`CanAscend`), what the queue keeps when some of it starts
(`LeftFacts`), and that the items `Starts` takes have different keys and fit in the free
places (`StartsFit`).

`CreationProofs`: `FormAlwaysSaved`. A save in flight is a record with the position in
which it was sent, so the invariant (`Kept`) can say which of them the server will have
processed last (`Lands`) and require that one to carry what the form shows; `SavesKnown`
adds that the saves are numbered without gaps at the top, and that the dialog runs one
save at a time. What one save's answer does to the others is a renumbering (`SameSaves`).

`PageTypeProofs`: `TypesAlwaysKept`, the types of all twelve pages at once. For the
tasks page and the settings this needs that no request brings more than the server has
(`TasksInv`, `SettingsBounded`,
`DashboardBounded`). `ProgressAlwaysStays`: every notice has an id of its
own below the next one (`ToastsInv`), so removing the evicted notice takes no other
along, and the evicted one is persistent only if all are (`PassingFirst`).

## What is not modelled

The components of the inventory without a module are the plan's items 1 to 4: code
retrieval, the two background jobs, the mail watcher, the session store, the steps
of a remote deletion, the server's side of signing in, notifications, database
maintenance and the update check. The protocol clients are outside: the modules
that call them take every outcome they can have. Exports, announcements, tooltips,
configuration and the launcher keep no state that other parts depend on.

Hazards without a property, with their lines in `PROJECT.json`: two callers that
take a code of one mailbox, a late login check that meets a newer login, a bulk
synchronisation cut off by an exit. Neither modelled nor listed there: the last
commits of the database's log lost in a power failure, a database file that is
replaced under open pages, a crash in the middle of a creation round, an account
deleted while a creation for it is on its way, an address that Apple created but
whose answer was lost, and a watcher's worker that reports after its successor.

In the front end: a mailbox page that is left and entered again, which starts with
an empty queue beside the requests of the old one; the quick edit of a row,
imports and exports; the notices of the Apple mail cleanup and of the import of
existing mailboxes; the log and the account list of the tasks page; runtime events
on the dashboard; tests, database actions and the update check on the settings
page; what is typed in the dialogs of login and second factor.

Model-checked only: the liveness properties (`AbandonedIsRecovered`, `CaughtUp`,
`WriterNeverBlocked`, `RoundsContinue`, `CancelledRunnersEnd`, `CallsReturn`,
`FreshOrOvertaken`, `JobReported`, `StatusRecovers` and the liveness half of
`ImplementsKeyedWork`), because what is enabled and what fairness brings about is out
of the prover's reach. The five properties of the runs that expect a violation are
false and have no theorem.
