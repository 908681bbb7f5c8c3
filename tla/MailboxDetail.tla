----------------------------- MODULE MailboxDetail -----------------------------
(*****************************************************************************)
(* The drawer, the code dialog and the message reader of the mailbox page    *)
(* (MailboxesView.vue).  All three are filled by requests that go on while   *)
(* the user closes one mailbox and opens another; startBusy and startRowBusy *)
(* admit one request per button and one per row.  The model keeps which      *)
(* mailbox every part of the page belongs to.                                *)
(*****************************************************************************)
CONSTANTS Mailbox

None == "none"
Maybe == Mailbox \cup {None}
RowTask == {"detail", "code", "code detail", "sync"}

VARIABLES
    selected, messages, edit,   \* the drawer: whose mailbox, whose mail, whose form
    reader,      \* selectedMessage: whose message is open
    fetching,    \* the newest request for a full message: whose
    dialog,      \* codeDialogOpen, codeMailbox, code: whose
    row,         \* rowBusyActions: what runs for a row
    saving, syncing,            \* whose status is saved, whose drawer synchronises
    cleaning,    \* busy "clean"
    coding,      \* busy "code": the code request, then the requests for its drawer
    polled,      \* whose drawer the poll of the table reads anew
    crossed      \* history: the drawer changed under the user's hands, or the dialog was
                 \* taken away from a running code request

vars == <<selected, messages, edit, reader, fetching, dialog, row, saving, syncing, cleaning,
          coding, polled, crossed>>
drawer == <<selected, messages, edit>>
tasks == <<row, saving, syncing, cleaning, coding, polled>>

NoDialog == [open |-> FALSE, box |-> None, code |-> None]
NoCoding == [step |-> None, box |-> None]

TypeOK ==
    /\ selected \in Maybe /\ messages \in Maybe /\ edit \in Maybe
    /\ reader \in Maybe /\ fetching \in Maybe
    /\ dialog \in [open : BOOLEAN, box : Maybe, code : Maybe]
    /\ row \in [Mailbox -> RowTask \cup {None}]
    /\ saving \in Maybe /\ syncing \in Maybe /\ cleaning \in BOOLEAN
    /\ coding \in [step : {None, "code", "detail"}, box : Maybe]
    /\ polled \in Maybe /\ crossed \in BOOLEAN

Init ==
    /\ selected = None /\ messages = None /\ edit = None /\ reader = None /\ fetching = None
    /\ dialog = NoDialog /\ row = [m \in Mailbox |-> None]
    /\ saving = None /\ syncing = None /\ cleaning = FALSE /\ coding = NoCoding
    /\ polled = None /\ crossed = FALSE

BugCodeBusy == coding.step # None
CodeBusy == coding.step # None \/ \E m \in Mailbox : row[m] \in {"code", "code detail"}

\* The drawer is reachable while no dialog covers it, the rows while the drawer is closed too.
AtDrawer == selected # None /\ ~dialog.open
AtRows == selected = None /\ ~dialog.open

\* openMailbox(m) up to its requests: returns at once for a busy row.
BeginOpen(m, tasksOfRows) ==
    IF tasksOfRows[m] # None
    THEN row' = tasksOfRows /\ UNCHANGED <<dialog, reader, crossed>>
    ELSE /\ row' = [tasksOfRows EXCEPT ![m] = "detail"]
         /\ dialog' = NoDialog /\ reader' = None
         /\ crossed' = (crossed \/ dialog.open \/ CodeBusy)

OpenMailbox(m) ==
    /\ AtRows /\ row[m] = None /\ BeginOpen(m, row)
    /\ UNCHANGED <<drawer, fetching, saving, syncing, cleaning, coding, polled>>

\* An answer puts m into the drawer.  It comes unexpected when the drawer is not as the user of
\* that request left it, or while the code of another mailbox is awaited.
Show(m, welcome) ==
    /\ selected' = m
    /\ crossed' = \/ crossed \/ selected \notin welcome
                  \/ coding.step # None /\ coding.box # m

DetailArrives(m, ok) ==
    /\ row[m] = "detail" /\ row' = [row EXCEPT ![m] = None]
    /\ IF ok THEN Show(m, {None, m}) /\ messages' = m /\ edit' = m
       ELSE UNCHANGED <<drawer, crossed>>
    /\ UNCHANGED <<reader, fetching, dialog, saving, syncing, cleaning, coding, polled>>

\* Escape closes the reader first, then the code dialog unless it is busy, then the drawer,
\* whose watcher closes the reader.  (handlePageKeydown, closeCodeDialog)
Escape ==
    /\ \/ reader # None /\ reader' = None /\ UNCHANGED <<dialog, selected>>
       \/ /\ reader = None /\ dialog.open /\ ~CodeBusy
          /\ dialog' = NoDialog /\ UNCHANGED <<reader, selected>>
       \/ /\ reader = None /\ ~dialog.open /\ selected # None
          /\ selected' = None /\ UNCHANGED <<reader, dialog>>
    /\ UNCHANGED <<messages, edit, fetching, tasks, crossed>>

\* executeMailboxDeletion, when the deleted mailbox is the one in the drawer
Deleted ==
    /\ selected # None /\ selected' = None /\ messages' = None /\ reader' = None
    /\ UNCHANGED <<edit, fetching, dialog, tasks, crossed>>

\* saveStatus sends the form to the mailbox in the drawer and shows the answer.
SaveStatus ==
    /\ AtDrawer /\ saving = None /\ saving' = selected
    /\ UNCHANGED <<drawer, reader, fetching, dialog, row, syncing, cleaning, coding, polled,
                   crossed>>

SaveArrives(ok) ==
    /\ saving # None /\ saving' = None
    /\ IF ok THEN Show(saving, {saving})
       ELSE UNCHANGED <<selected, crossed>>
    /\ UNCHANGED <<messages, edit, reader, fetching, dialog, row, syncing, cleaning, coding,
                   polled>>

\* syncMailbox (the drawer's), quickSyncMailbox (a row's), cleanRemote (confirmed)
SyncMailbox ==
    /\ AtDrawer /\ syncing = None /\ syncing' = selected
    /\ UNCHANGED <<drawer, reader, fetching, dialog, row, saving, cleaning, coding, polled,
                   crossed>>

QuickSync(m) ==
    /\ AtRows /\ row[m] = None /\ row' = [row EXCEPT ![m] = "sync"]
    /\ UNCHANGED <<drawer, reader, fetching, dialog, saving, syncing, cleaning, coding,
                   polled, crossed>>

QuickSyncEnds(m) ==
    /\ row[m] = "sync" /\ row' = [row EXCEPT ![m] = None]
    /\ UNCHANGED <<drawer, reader, fetching, dialog, saving, syncing, cleaning, coding,
                   polled, crossed>>

\* The confirmation, which only delays the request, is part of the step.
CleanRemote ==
    /\ AtDrawer /\ ~cleaning /\ cleaning' = TRUE
    /\ UNCHANGED <<drawer, reader, fetching, dialog, row, saving, syncing, coding, polled,
                   crossed>>

\* Both end by opening a mailbox again: the synchronised one, or whichever is in the drawer.
SyncEnds(ok) ==
    /\ syncing # None /\ syncing' = None
    /\ IF ok THEN BeginOpen(syncing, row) ELSE UNCHANGED <<row, dialog, reader, crossed>>
    /\ UNCHANGED <<drawer, fetching, saving, cleaning, coding, polled>>

CleanEnds(ok) ==
    /\ cleaning /\ cleaning' = FALSE
    /\ IF ok /\ selected # None THEN BeginOpen(selected, row)
       ELSE UNCHANGED <<row, dialog, reader, crossed>>
    /\ UNCHANGED <<drawer, fetching, saving, syncing, coding, polled>>

OpenCodeDialog(m) == dialog' = [open |-> TRUE, box |-> m, code |-> None]

\* getCode, from the drawer.  After the code it reads the drawer's mailbox anew.
GetCode ==
    /\ AtDrawer /\ coding.step = None /\ OpenCodeDialog(selected)
    /\ coding' = [step |-> "code", box |-> selected]
    /\ UNCHANGED <<drawer, reader, fetching, row, saving, syncing, cleaning, polled, crossed>>

CodeArrives(ok) ==
    /\ coding.step = "code"
    /\ dialog' = IF ok THEN [dialog EXCEPT !.code = coding.box] ELSE dialog
    /\ coding' = IF ok /\ selected # None THEN [step |-> "detail", box |-> selected]
                 ELSE NoCoding
    /\ UNCHANGED <<drawer, reader, fetching, row, saving, syncing, cleaning, polled, crossed>>

CodeDetailArrives(ok) ==
    /\ coding.step = "detail" /\ coding' = NoCoding
    /\ IF ok THEN /\ Show(coding.box, {coding.box}) /\ messages' = coding.box
                  /\ dialog' = [dialog EXCEPT !.box = coding.box]
       ELSE UNCHANGED <<selected, messages, dialog, crossed>>
    /\ UNCHANGED <<edit, reader, fetching, row, saving, syncing, cleaning, polled>>

\* quickGetCode, from a row
QuickGetCode(m) ==
    /\ AtRows /\ row[m] = None /\ row' = [row EXCEPT ![m] = "code"]
    /\ OpenCodeDialog(m)
    /\ UNCHANGED <<drawer, reader, fetching, saving, syncing, cleaning, coding, polled,
                   crossed>>

QuickCodeArrives(m, ok) ==
    /\ row[m] = "code"
    /\ row' = [row EXCEPT ![m] = IF ok THEN "code detail" ELSE None]
    /\ dialog' = IF ok THEN [dialog EXCEPT !.code = m] ELSE dialog
    /\ UNCHANGED <<drawer, reader, fetching, saving, syncing, cleaning, coding, polled,
                   crossed>>

QuickDetailArrives(m, ok) ==
    /\ row[m] = "code detail" /\ row' = [row EXCEPT ![m] = None]
    /\ dialog' = IF ok THEN [dialog EXCEPT !.box = m] ELSE dialog
    /\ UNCHANGED <<drawer, reader, fetching, saving, syncing, cleaning, coding, polled,
                   crossed>>

\* refreshMailboxPool begins when nothing runs on the page; behind its awaited load, when anything
\* may run again, it reads the drawer's mailbox anew.  What was typed into the form stays, and the
\* answer counts while that mailbox is open.
PollDrawer ==
    /\ selected # None /\ polled = None /\ polled' = selected
    /\ UNCHANGED <<drawer, reader, fetching, dialog, row, saving, syncing, cleaning, coding,
                   crossed>>

BugPollArrives(ok) ==
    /\ polled # None /\ polled' = None
    /\ messages' = IF ok THEN polled ELSE messages
    /\ UNCHANGED <<selected, edit, reader, fetching, dialog, row, saving, syncing, cleaning,
                   coding, crossed>>
PollArrives(ok) ==
    /\ polled # None /\ polled' = None
    /\ messages' = IF ok /\ selected = polled THEN polled ELSE messages
    /\ UNCHANGED <<selected, edit, reader, fetching, dialog, row, saving, syncing, cleaning,
                   coding, crossed>>

\* openMessage shows the listed message and fetches the full one; an answer counts only for the
\* newest request and while its message is open.  (closeSelectedMessage makes it an old one.)
OpenMessage ==
    /\ AtDrawer /\ messages # None
    /\ reader' = messages /\ fetching' = selected
    /\ UNCHANGED <<drawer, dialog, tasks, crossed>>

MessageArrives ==
    /\ fetching # None /\ fetching' = None
    /\ reader' = IF reader = None THEN None ELSE fetching
    /\ UNCHANGED <<drawer, dialog, tasks, crossed>>

Step ==
    \/ \E m \in Mailbox : \/ OpenMailbox(m) \/ QuickSync(m) \/ QuickSyncEnds(m)
                          \/ QuickGetCode(m)
                          \/ \E ok \in BOOLEAN : \/ DetailArrives(m, ok)
                                                 \/ QuickCodeArrives(m, ok)
                                                 \/ QuickDetailArrives(m, ok)
    \/ Escape \/ Deleted \/ SaveStatus \/ SyncMailbox \/ CleanRemote \/ GetCode
    \/ \E ok \in BOOLEAN : \/ SaveArrives(ok) \/ SyncEnds(ok) \/ CleanEnds(ok)
                           \/ CodeArrives(ok) \/ CodeDetailArrives(ok)
    \/ OpenMessage \/ MessageArrives
    \/ PollDrawer \/ \E ok \in BOOLEAN : PollArrives(ok)

\* Nothing is claimed of a page that has crossed, and the model stops there.
Next == ~crossed /\ Step

Spec == Init /\ [][Next]_vars

-----------------------------------------------------------------------------
\* Until an answer changes the drawer under the user's hands, the form and the mail in the
\* drawer and the open message are those of the mailbox it names, in whatever order requests
\* for two mailboxes end: what is saved next is saved to the mailbox it was typed for.
\* (openMailbox, saveStatus, openMessage, executeMailboxDeletion)
DrawerMatches ==
    ~crossed /\ selected # None =>
        messages = selected /\ edit = selected /\ reader \in {None, selected}

\* Until then, too, the code in the dialog is that of the mailbox it is shown for.
\* (getCode, quickGetCode, closeCodeDialog)
CodeMatches ==
    ~crossed /\ dialog.open /\ dialog.code # None => dialog.code = dialog.box
=============================================================================
