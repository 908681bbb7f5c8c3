-------------------------------- MODULE Console --------------------------------
(****************************************************************************)
(* The pages of the front end as the router shows them: one at a time.      *)
(* `page` is the page, or the part of the mailbox page, that a behaviour is *)
(* about; the variables of the others keep their initial values.  What the  *)
(* parts of the mailbox page do to each other is in each part's model: a    *)
(* deletion's silent reload and the queue that holds back the poll in       *)
(* MailboxList, a deleted mailbox in the drawer in MailboxDetail, another   *)
(* part's confirmation in DeleteQueue.                                      *)
(****************************************************************************)
EXTENDS Naturals, Sequences, FiniteSets

CONSTANTS
    Mailbox, Account, AccountOf,   \* what is deleted, and the Apple account it belongs to
    Opened,                        \* the mailboxes whose drawer is opened
    View,                          \* filters, page and size of the table
    Value,                         \* what a field of the creation form may hold
    Email, Message, OwnerOf,       \* the public page's addresses and their mail
    MaxConcurrent, MaxAccepted, MaxChanges, MaxSilent, MaxJobs, MaxFeed, MaxStatus, MaxCommands,
    MaxPuts, MaxLog, MaxRowRequests, MaxId  \* the bounds of the modules

ASSUME ConsoleAssumption ==
    /\ IsFiniteSet(Mailbox) /\ View # {} /\ MaxConcurrent \in Nat /\ MaxPuts \in Nat
    /\ {MaxChanges, MaxSilent, MaxJobs, MaxStatus, MaxLog, MaxId} \subseteq Nat
    /\ MaxCommands \in Nat \ {0}

Page == {"queue", "list", "detail", "jobs", "tasks", "create", "dashboard", "settings",
         "accounts", "public", "session", "toast"}

VARIABLES
    page,
    pool, ticked, confirmation, asked, pasted, queue, deleting, settling, inRun, tally,
    queueNotice, accepted,
    view, table, newestLoad, listLoading, polling, held, listTimer, changes, patches,
    listFeed, silentReloads,
    selected, messages, edit, reader, fetching, codeDialog, row, saving, syncing, cleaning,
    coding, polled, crossed,
    job, feed, known, jobNotice, intro, statusTimer, statusRequests, starting, broken,
    scheduler, status, statusFeed, tasksLoading, silent, refresh, current, busy, command,
    setting, form, draft, settingsDialog, initialized, pending, puts, formLoad, left, spoiled,
    figureLog, counted, figureFeed, figuresMounted, figureTimer, reads, reading, shownAt, uncounted,
    log, delivered, base, formLoaded, listening, formTimer, requests, missed,
    accounts, listed, account, imap, imapOpen, details, deletions, checking, imapSaving,
    accountsLoad, reselected,
    email, publicDialog, loadedEmail, mail, mailing, openMail, full, opened, cache,
    session, route, target, loaded, authenticated, authStatus, waits, signing, realtime, cut,
    notices, timers, nextId

QueueVars == <<pool, ticked, confirmation, asked, pasted, queue, deleting, settling, inRun,
               tally, queueNotice, accepted>>
ListVars == <<view, table, newestLoad, listLoading, polling, held, listTimer, changes, patches,
              listFeed, silentReloads>>
DetailVars == <<selected, messages, edit, reader, fetching, codeDialog, row, saving, syncing,
                cleaning, coding, polled, crossed>>
JobsVars == <<job, feed, known, jobNotice, intro, statusTimer, statusRequests, starting,
              broken>>
TasksVars == <<scheduler, status, statusFeed, tasksLoading, silent, refresh, current, busy,
               command>>
CreateVars == <<setting, form, draft, settingsDialog, initialized, pending, puts, formLoad,
                left, spoiled>>
DashboardVars == <<figureLog, counted, figureFeed, figuresMounted, figureTimer, reads,
                   reading, shownAt, uncounted>>
SettingsVars == <<log, delivered, base, formLoaded, listening, formTimer, requests, missed>>
AccountsVars == <<accounts, listed, account, imap, imapOpen, details, deletions, checking,
                  imapSaving, accountsLoad, reselected>>
PublicVars == <<email, publicDialog, loadedEmail, mail, mailing, openMail, full, opened, cache>>
WebVars == <<session, route, target, loaded, authenticated, authStatus, waits, signing,
             realtime, cut>>
ToastsVars == <<notices, timers, nextId>>

Queue == INSTANCE DeleteQueue WITH
    dialog <- confirmation, notice <- queueNotice
List == INSTANCE MailboxList WITH
    shown <- table, newest <- newestLoad, loading <- listLoading, timer <- listTimer,
    delivered <- listFeed, silent <- silentReloads
Detail == INSTANCE MailboxDetail WITH Mailbox <- Opened, dialog <- codeDialog
Jobs == INSTANCE JobNotices WITH
    server <- job, notice <- jobNotice, timer <- statusTimer, requests <- statusRequests
Tasks == INSTANCE TaskStatus WITH
    MaxChanges <- MaxStatus, server <- scheduler, shown <- status, delivered <- statusFeed,
    loading <- tasksLoading
Create == INSTANCE CreateSettings WITH
    server <- setting, dialog <- settingsDialog, loading <- formLoad
Dashboard == INSTANCE DashboardPage WITH
    MaxChanges <- MaxLog, log <- figureLog, delivered <- figureFeed,
    mounted <- figuresMounted, timer <- figureTimer, missed <- uncounted
Settings == INSTANCE SettingsPage WITH
    MaxChanges <- MaxLog, loaded <- formLoaded, timer <- formTimer
Accounts == INSTANCE AccountsPage WITH
    server <- accounts, selected <- account, saving <- imapSaving, loading <- accountsLoad,
    crossed <- reselected
Public == INSTANCE PublicCode WITH
    dialog <- publicDialog, loaded <- loadedEmail, listed <- mail, reader <- openMail
Web == INSTANCE WebSession WITH status <- authStatus
Toasts == INSTANCE Toast

Any(S) == CHOOSE v \in S : TRUE

\* The three pages that ask the server again by themselves, when they are not open: nothing is
\* in flight and no timer is set.
ListClosed ==
    /\ view = Any(View) /\ table = [view |-> Any(View), seen |-> {}] /\ newestLoad = List!Nothing
    /\ listLoading = FALSE /\ polling = FALSE /\ held = TRUE /\ listTimer = FALSE
    /\ changes = 0 /\ patches = {} /\ listFeed = 0 /\ silentReloads = 0

JobsClosed ==
    /\ job = Jobs!Idle /\ feed = <<>> /\ known = Jobs!Idle /\ jobNotice = "none"
    /\ intro = FALSE /\ statusTimer = FALSE /\ starting = Jobs!Quiet /\ broken = TRUE
    /\ statusRequests = [s \in Jobs!Slot |-> Jobs!Quiet]

TasksClosed ==
    /\ scheduler = 0 /\ status = 0 /\ statusFeed = 0 /\ current = TRUE /\ busy = Tasks!None
    /\ silent = Tasks!Quiet /\ refresh = Tasks!Quiet /\ tasksLoading = TRUE
    /\ command = [i \in Tasks!Slot |-> Tasks!Idle]

\* Where a page may begin in several states, the pages that are not open take one of them.
Init ==
    /\ page \in Page
    /\ IF page = "list" THEN List!Init ELSE ListClosed
    /\ IF page = "jobs" THEN Jobs!Init ELSE JobsClosed
    /\ IF page = "tasks" THEN Tasks!Init ELSE TasksClosed
    /\ Queue!Init /\ Detail!Init /\ Dashboard!Init /\ Settings!Init /\ Accounts!Init
    /\ Create!Init /\ (page = "create" \/ (setting = Any(Value) /\ form = Any(Value)))
    /\ Public!Init /\ (page = "public" \/ email = Any(Email))
    /\ Web!Init /\ (page = "session" \/ (session /\ target = "console"))
    /\ Toasts!Init

Opens(p) == page = p /\ UNCHANGED page
Rest(p) ==
    /\ IF p = "queue" THEN TRUE ELSE UNCHANGED QueueVars
    /\ IF p = "list" THEN TRUE ELSE UNCHANGED ListVars
    /\ IF p = "detail" THEN TRUE ELSE UNCHANGED DetailVars
    /\ IF p = "jobs" THEN TRUE ELSE UNCHANGED JobsVars
    /\ IF p = "tasks" THEN TRUE ELSE UNCHANGED TasksVars
    /\ IF p = "create" THEN TRUE ELSE UNCHANGED CreateVars
    /\ IF p = "dashboard" THEN TRUE ELSE UNCHANGED DashboardVars
    /\ IF p = "settings" THEN TRUE ELSE UNCHANGED SettingsVars
    /\ IF p = "accounts" THEN TRUE ELSE UNCHANGED AccountsVars
    /\ IF p = "public" THEN TRUE ELSE UNCHANGED PublicVars
    /\ IF p = "session" THEN TRUE ELSE UNCHANGED WebVars
    /\ IF p = "toast" THEN TRUE ELSE UNCHANGED ToastsVars

Next ==
    \/ Opens("queue") /\ Queue!Next /\ Rest("queue")
    \/ Opens("list") /\ List!Next /\ Rest("list")
    \/ Opens("detail") /\ Detail!Next /\ Rest("detail")
    \/ Opens("jobs") /\ Jobs!Next /\ Rest("jobs")
    \/ Opens("tasks") /\ Tasks!Next /\ Rest("tasks")
    \/ Opens("create") /\ Create!Next /\ Rest("create")
    \/ Opens("dashboard") /\ Dashboard!Next /\ Rest("dashboard")
    \/ Opens("settings") /\ Settings!Next /\ Rest("settings")
    \/ Opens("accounts") /\ Accounts!Next /\ Rest("accounts")
    \/ Opens("public") /\ Public!Next /\ Rest("public")
    \/ Opens("session") /\ Web!Next /\ Rest("session")
    \/ Opens("toast") /\ Toasts!Next /\ Rest("toast")

vars == <<page, QueueVars, ListVars, DetailVars, JobsVars, TasksVars, CreateVars,
          DashboardVars, SettingsVars, AccountsVars, PublicVars, WebVars, ToastsVars>>

\* The fairness of the queue is assumed throughout, that of a page which asks the server again
\* by itself where its own property needs it.
Spec == Init /\ [][Next]_vars /\ Queue!Fairness

-----------------------------------------------------------------------------
\* Every variable of every page keeps its type.
TypeOK ==
    /\ Queue!TypeOK /\ List!TypeOK /\ Detail!TypeOK /\ Jobs!TypeOK /\ Tasks!TypeOK
    /\ Create!TypeOK /\ Dashboard!TypeOK /\ Settings!TypeOK /\ Accounts!TypeOK
    /\ Public!TypeOK /\ Web!TypeOK /\ Toasts!TypeOK

\* processDeleteQueue: two deletions of one account run together only if one of them comes
\* from a ticked row, whose account the queue cannot know.
AccountsSerialised == Queue!AccountsSerialised
\* updateDeleteProgress: succeeded, failed, running and waiting are all that was accepted.
CountsAddUp == Queue!CountsAddUp
\* The deletion queue implements KeyedWork: nothing accepted is lost, doubled or left waiting.
ImplementsKeyedWork == Queue!ImplementsKeyedWork

\* refreshMailboxPool: the table catches up with the pool, but for an overtaken loud load.
FreshOrOvertaken == List!Fairness => List!FreshOrOvertaken
\* openMailbox, saveStatus: form, mail and open message are those of the drawer's mailbox.
DrawerMatches == Detail!DrawerMatches
\* getCode, quickGetCode: the code in the dialog is that of the mailbox it names.
CodeMatches == Detail!CodeMatches
\* loadExistingMailboxMessageSyncStatus: the notice of a running job becomes its result.
JobReported == Jobs!Fairness => Jobs!JobReported

\* refreshScheduler: once the user pauses, the tasks page comes to show the scheduler's status
\* without the feed.
StatusRecovers == Tasks!Fairness => Tasks!StatusRecovers
\* saveFormSettings, saveDefaults: what the creation form shows is what was stored.
FormSaved == Create!FormSaved
\* refreshDashboard: the dashboard's figures, kept by increments, are the server's.
FiguresRight == Dashboard!FiguresRight
\* SettingsView's load: the form that is saved as a whole is based on the newest settings.
FormCurrent == Settings!FormCurrent
\* saveIMAP: the credentials in the form are those of the account they are sent for.
CredentialsMatch == Accounts!CredentialsMatch
\* PublicCodeView: code, list and message belong to the address they are shown for.
ShownMatches == Public!ShownMatches
\* connectRealtime, signOut: the console that is shown has its live connection.
ConsoleIsLive == Web!ConsoleIsLive
\* useToast's push: a progress notice gives way only to another one.
ProgressStays == Toasts!ProgressStays
=============================================================================
