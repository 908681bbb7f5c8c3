------------------------------ MODULE ConsoleProofs ------------------------------
(****************************************************************************)
(* What is proved of the console's pages, for any mailboxes, accounts,      *)
(* addresses and bounds.  A step of the console is a step of the open page  *)
(* and leaves the variables of every other one alone, so an invariant is    *)
(* shown to be kept by the steps of its page.                               *)
(****************************************************************************)
EXTENDS Console, TLAPS

(* What a step of the console is to one page                                *)

LEMMA PublicSteps == [Next]_vars => [Public!Next]_(Public!vars)
BY DEF Next, vars, Rest, Opens, PublicVars, Public!vars

LEMMA DetailSteps == [Next]_vars => [Detail!Next]_(Detail!vars)
BY DEF Next, vars, Rest, Opens, DetailVars, Detail!vars

LEMMA WebSteps == [Next]_vars => [Web!Next]_(Web!vars)
BY DEF Next, vars, Rest, Opens, WebVars, Web!vars

LEMMA SettingsSteps == [Next]_vars => [Settings!Next]_(Settings!vars)
BY DEF Next, vars, Rest, Opens, SettingsVars, Settings!vars

LEMMA DashboardSteps == [Next]_vars => [Dashboard!Next]_(Dashboard!vars)
BY DEF Next, vars, Rest, Opens, DashboardVars, Dashboard!vars

LEMMA AccountsSteps == [Next]_vars => [Accounts!Next]_(Accounts!vars)
BY DEF Next, vars, Rest, Opens, AccountsVars, Accounts!vars

-----------------------------------------------------------------------------
(* The public page.  ShownMatches becomes inductive with the fact that a code *)
(* and a list are awaited for the address they will be shown under: the       *)
(* buttons are disabled while getCode and getMessages wait.                   *)

PublicInv ==
    /\ Public!TypeOK
    /\ publicDialog.asked # Public!None => publicDialog.asked = publicDialog.email
    /\ mailing # Public!None => mailing = loadedEmail
    /\ Public!ShownMatches

LEMMA PublicStarts == Public!Init => PublicInv
BY DEF Public!Init, PublicInv, Public!TypeOK, Public!ShownMatches, Public!NoDialog

\* The answers that are still awaited keep their form.
LEMMA OutdatedTyped ==
    ASSUME opened \subseteq [message : Message, newest : BOOLEAN]
    PROVE  Public!Outdated \subseteq [message : Message, newest : BOOLEAN]
BY DEF Public!Outdated

LEMMA PublicTypePreserved == Public!TypeOK /\ [Public!Next]_(Public!vars) => Public!TypeOK'
<1> SUFFICES ASSUME Public!TypeOK, [Public!Next]_(Public!vars) PROVE Public!TypeOK'
    OBVIOUS
<1> USE DEF Public!TypeOK
<1>1. ASSUME NEW e \in Email, Public!Type(e) PROVE Public!TypeOK'
    BY <1>1 DEF Public!Type
<1>2. CASE Public!GetCode
    BY <1>2 DEF Public!GetCode
<1>3. ASSUME NEW ok \in BOOLEAN, Public!CodeArrives(ok) PROVE Public!TypeOK'
    BY <1>3 DEF Public!CodeArrives
<1>4. CASE Public!GetMessages
    BY <1>4 DEF Public!GetMessages
<1>5. ASSUME NEW e \in Email, NEW ok \in BOOLEAN, Public!MessagesArrive(e, ok) PROVE Public!TypeOK'
    BY <1>5 DEF Public!MessagesArrive
<1>6. ASSUME NEW m \in Message, Public!OpenMessage(m) PROVE Public!TypeOK'
    <2>1. Public!Outdated \subseteq [message : Message, newest : BOOLEAN]
        BY OutdatedTyped
    <2>2. [message |-> m, newest |-> TRUE] \in [message : Message, newest : BOOLEAN]
        OBVIOUS
    <2>3. opened' \subseteq [message : Message, newest : BOOLEAN]
        BY <1>6, <2>1, <2>2 DEF Public!OpenMessage
    <2>. QED
        BY <1>6, <2>3 DEF Public!OpenMessage
<1>7. ASSUME NEW m \in Message, NEW ok \in BOOLEAN, Public!DetailArrives(m, ok) PROVE Public!TypeOK'
    BY <1>7 DEF Public!DetailArrives
<1>8. CASE Public!Escape
    <2>1. Public!Outdated \subseteq [message : Message, newest : BOOLEAN]
        BY OutdatedTyped
    <2>2. openMail' \in Message \cup {Public!None} /\ full' \in Message \cup {Public!None}
        BY <1>8 DEF Public!Escape
    <2>3. opened' = Public!Outdated \/ opened' = opened
        BY <1>8 DEF Public!Escape
    <2>4. publicDialog' = Public!NoDialog \/ publicDialog' = publicDialog
        BY <1>8 DEF Public!Escape
    <2>5. Public!NoDialog \in [open : BOOLEAN, email : Email \cup {Public!None},
                       asked : Email \cup {Public!None}, code : Email \cup {Public!None}]
        BY DEF Public!NoDialog
    <2>6. UNCHANGED <<email, loadedEmail, mail, mailing, cache>>
        BY <1>8 DEF Public!Escape
    <2>. QED
        BY <2>1, <2>2, <2>3, <2>4, <2>5, <2>6
<1>9. CASE UNCHANGED Public!vars
    BY <1>9 DEF Public!vars
<1>. QED
    BY <1>1, <1>2, <1>3, <1>4, <1>5, <1>6, <1>7, <1>8, <1>9 DEF Public!Next

LEMMA PublicPreserved == PublicInv /\ [Public!Next]_(Public!vars) => PublicInv'
<1> SUFFICES ASSUME PublicInv, [Public!Next]_(Public!vars) PROVE PublicInv'
    OBVIOUS
<1>0. Public!TypeOK'
    BY PublicTypePreserved DEF PublicInv
<1> USE <1>0 DEF PublicInv, Public!ShownMatches, Public!TypeOK
<1>1. ASSUME NEW e \in Email, Public!Type(e) PROVE PublicInv'
    BY <1>1 DEF Public!Type
<1>2. CASE Public!GetCode
    BY <1>2 DEF Public!GetCode
\* A code is the answer for the address in the dialog.
<1>3. ASSUME NEW ok \in BOOLEAN, Public!CodeArrives(ok) PROVE PublicInv'
    BY <1>3 DEF Public!CodeArrives
\* No message is open, and the old address takes its list along.
<1>4. CASE Public!GetMessages
    BY <1>4 DEF Public!GetMessages, Public!Page
<1>5. ASSUME NEW e \in Email, NEW ok \in BOOLEAN, Public!MessagesArrive(e, ok) PROVE PublicInv'
    BY <1>5 DEF Public!MessagesArrive
<1>6. ASSUME NEW m \in Message, Public!OpenMessage(m) PROVE PublicInv'
    BY <1>6 DEF Public!OpenMessage
\* Full content counts for the newest request, whose message is still open.
<1>7. ASSUME NEW m \in Message, NEW ok \in BOOLEAN, Public!DetailArrives(m, ok) PROVE PublicInv'
    <2>1. ASSUME NEW o \in opened, o.message = m, Public!Welcome(o) PROVE openMail = m
        BY <2>1 DEF Public!Welcome
    <2>2. full' = full \/ (full' = m /\ openMail = m)
        BY <1>7, <2>1 DEF Public!DetailArrives
    <2>. QED
        BY <1>7, <2>2 DEF Public!DetailArrives
<1>8. CASE Public!Escape
    BY <1>8 DEF Public!Escape, Public!NoDialog
<1>9. CASE UNCHANGED Public!vars
    BY <1>9 DEF Public!vars
<1>. QED
    BY <1>1, <1>2, <1>3, <1>4, <1>5, <1>6, <1>7, <1>8, <1>9 DEF Public!Next

\* The code, the list and the open message of the public page belong to the address they are
\* shown for.  (PublicCodeView's getCode, getMessages, openMessage)
THEOREM ShownAlwaysMatches == Spec => []ShownMatches
<1>1. Init => Public!Init
    BY DEF Init
<1>2. PublicInv => ShownMatches
    BY DEF PublicInv, ShownMatches
<1>. QED
    BY <1>1, <1>2, PublicStarts, PublicPreserved, PublicSteps, PTL DEF Spec

-----------------------------------------------------------------------------
(* The drawer, the message reader and the code dialog.  Two conditions make  *)
(* their matching inductive: what the reader and its request belong to       *)
(* (ReaderHeld), and that a code request keeps the dialog open on its own    *)
(* mailbox (DialogHeld).                                                     *)

RowCoding(m) == row[m] \in {"code", "code detail"}

\* What the parts are, as far as it matters which mailbox they belong to.
DrawerTyped ==
    /\ selected \in Detail!Maybe /\ saving \in Detail!Maybe /\ syncing \in Detail!Maybe
    /\ row \in [Opened -> Detail!RowTask \cup {Detail!None}]
    /\ codeDialog \in [open : BOOLEAN, box : Detail!Maybe, code : Detail!Maybe]
    /\ coding \in [step : {Detail!None, "code", "detail"}, box : Detail!Maybe]

\* The reader is closed with the drawer, and the newest request for a full message is the
\* open message's.
ReaderHeld ==
    /\ selected = Detail!None => reader = Detail!None
    /\ reader # Detail!None => fetching \in {Detail!None, reader}

\* The dialog stays open, on the mailbox whose code is awaited, and there is one such request;
\* the drawer it was begun from is still the same or closed.
DialogHeld ==
    /\ \A m \in Opened : RowCoding(m) =>
          codeDialog.open /\ codeDialog.box = m /\ coding.step = Detail!None
    /\ coding.step # Detail!None =>
          codeDialog.open /\ codeDialog.box = coding.box /\ selected \in {Detail!None, coding.box}

Matched == Detail!DrawerMatches /\ ReaderHeld /\ DialogHeld /\ Detail!CodeMatches

DetailInv == DrawerTyped /\ (~crossed => Matched)

LEMMA DetailStarts == Detail!Init => DetailInv
<1> SUFFICES ASSUME Detail!Init PROVE DetailInv
    OBVIOUS
<1>1. DrawerTyped
    BY DEF Detail!Init, DrawerTyped, Detail!NoDialog, Detail!NoCoding, Detail!Maybe
<1>2. \A m \in Opened : ~RowCoding(m)
    BY DEF Detail!Init, RowCoding, Detail!None
<1>3. coding.step = Detail!None /\ ~codeDialog.open
    BY DEF Detail!Init, Detail!NoCoding, Detail!NoDialog
<1>. QED
    BY <1>1, <1>2, <1>3 
    DEF Detail!Init, DetailInv, Matched, Detail!DrawerMatches, ReaderHeld, DialogHeld,
       Detail!CodeMatches

\* An answer that changes the drawer under the user's hands crosses.
LEMMA ShowOrCross ==
    ASSUME NEW m, NEW welcome, Detail!Show(m, welcome), ~crossed'
    PROVE  /\ selected' = m /\ ~crossed /\ selected \in welcome
           /\ coding.step # Detail!None => coding.box = m
BY Zenon DEF Detail!Show

\* Opening a mailbox leaves a busy row alone; otherwise it closes dialog and reader, and crosses
\* if that takes the dialog away.
LEMMA OpenOrBusy ==
    ASSUME NEW m, Detail!BeginOpen(m, row), ~crossed'
    PROVE  \/ /\ UNCHANGED <<row, codeDialog, reader>> /\ ~crossed
           \/ /\ row' = [row EXCEPT ![m] = "detail"] /\ row[m] = Detail!None
              /\ codeDialog' = Detail!NoDialog /\ reader' = Detail!None
              /\ ~crossed /\ ~codeDialog.open /\ ~Detail!CodeBusy
<1>1. CASE row[m] # Detail!None
    BY <1>1, Zenon DEF Detail!BeginOpen
<1>2. CASE row[m] = Detail!None
    BY <1>2, Zenon DEF Detail!BeginOpen
<1>. QED
    BY <1>1, <1>2

LEMMA OpenShape ==
    ASSUME DrawerTyped, NEW m \in Opened, Detail!BeginOpen(m, row)
    PROVE  /\ row' \in [Opened -> Detail!RowTask \cup {Detail!None}]
           /\ codeDialog' \in [open : BOOLEAN, box : Detail!Maybe, code : Detail!Maybe]
<1>1. Detail!NoDialog \in [open : BOOLEAN, box : Detail!Maybe, code : Detail!Maybe]
    BY DEF Detail!NoDialog, Detail!Maybe
<1>2. [row EXCEPT ![m] = "detail"] \in [Opened -> Detail!RowTask \cup {Detail!None}]
    BY DEF DrawerTyped, Detail!RowTask
<1>3. row' \in {row, [row EXCEPT ![m] = "detail"]} /\ codeDialog' \in {codeDialog, Detail!NoDialog}
    BY Zenon DEF Detail!BeginOpen
<1>. QED
    BY <1>1, <1>2, <1>3 DEF DrawerTyped

LEMMA DrawerTypePreserved == DrawerTyped /\ [Detail!Next]_(Detail!vars) => DrawerTyped'
<1> SUFFICES ASSUME DrawerTyped, [Detail!Next]_(Detail!vars) PROVE DrawerTyped'
    OBVIOUS
<1> USE DEF DrawerTyped, Detail!drawer, Detail!tasks
<1>1. ASSUME NEW m \in Opened, Detail!OpenMailbox(m) PROVE DrawerTyped'
    BY <1>1, OpenShape DEF Detail!OpenMailbox
<1>2. ASSUME NEW m \in Opened, NEW ok \in BOOLEAN, Detail!DetailArrives(m, ok) PROVE DrawerTyped'
    BY <1>2 DEF Detail!DetailArrives, Detail!Show, Detail!Maybe
<1>3. CASE Detail!Escape
    <2>1. selected' \in {Detail!None, selected} /\ codeDialog' \in {Detail!NoDialog, codeDialog}
        BY <1>3, Zenon DEF Detail!Escape
    <2>2. /\ Detail!NoDialog \in [open : BOOLEAN, box : Detail!Maybe, code : Detail!Maybe]
          /\ Detail!None \in Detail!Maybe
        BY DEF Detail!NoDialog, Detail!Maybe
    <2>3. UNCHANGED <<saving, syncing, row, coding>>
        BY <1>3 DEF Detail!Escape
    <2>. QED
        BY <2>1, <2>2, <2>3
<1>4. CASE Detail!Deleted
    BY <1>4 DEF Detail!Deleted, Detail!Maybe
<1>5. CASE Detail!SaveStatus \/ Detail!SyncMailbox \/ Detail!CleanRemote
    BY <1>5 DEF Detail!SaveStatus, Detail!SyncMailbox, Detail!CleanRemote
<1>6. ASSUME NEW ok \in BOOLEAN, Detail!SaveArrives(ok) PROVE DrawerTyped'
    BY <1>6 DEF Detail!SaveArrives, Detail!Show, Detail!Maybe
<1>7. ASSUME NEW m \in Opened, Detail!QuickSync(m) \/ Detail!QuickSyncEnds(m) PROVE DrawerTyped'
    BY <1>7 DEF Detail!QuickSync, Detail!QuickSyncEnds, Detail!RowTask
<1>8. ASSUME NEW ok \in BOOLEAN, Detail!SyncEnds(ok) PROVE DrawerTyped'
    <2>1. syncing \in Opened /\ syncing' \in Detail!Maybe
        BY <1>8 DEF Detail!SyncEnds, Detail!Maybe
    <2>2. Detail!BeginOpen(syncing, row) \/ UNCHANGED <<row, codeDialog>>
        BY <1>8 DEF Detail!SyncEnds
    <2>. QED
        BY <1>8, <2>1, <2>2, OpenShape DEF Detail!SyncEnds
<1>9. ASSUME NEW ok \in BOOLEAN, Detail!CleanEnds(ok) PROVE DrawerTyped'
    <2>1. (selected \in Opened /\ Detail!BeginOpen(selected, row)) \/ UNCHANGED <<row, codeDialog>>
        BY <1>9 DEF Detail!CleanEnds, Detail!Maybe
    <2>. QED
        BY <1>9, <2>1, OpenShape DEF Detail!CleanEnds
<1>10. CASE Detail!GetCode
    BY <1>10 DEF Detail!GetCode, Detail!OpenCodeDialog, Detail!AtDrawer, Detail!Maybe
<1>11. ASSUME NEW ok \in BOOLEAN, Detail!CodeArrives(ok) PROVE DrawerTyped'
    BY <1>11 DEF Detail!CodeArrives, Detail!NoCoding, Detail!Maybe
<1>12. ASSUME NEW ok \in BOOLEAN, Detail!CodeDetailArrives(ok) PROVE DrawerTyped'
    BY <1>12 DEF Detail!CodeDetailArrives, Detail!Show, Detail!NoCoding, Detail!Maybe
<1>13. ASSUME NEW m \in Opened, Detail!QuickGetCode(m) PROVE DrawerTyped'
    BY <1>13 DEF Detail!QuickGetCode, Detail!OpenCodeDialog, Detail!RowTask, Detail!Maybe
<1>14. ASSUME NEW m \in Opened, NEW ok \in BOOLEAN, Detail!QuickCodeArrives(m, ok)
       PROVE  DrawerTyped'
    BY <1>14 DEF Detail!QuickCodeArrives, Detail!RowTask, Detail!Maybe
<1>15. ASSUME NEW m \in Opened, NEW ok \in BOOLEAN, Detail!QuickDetailArrives(m, ok)
       PROVE  DrawerTyped'
    BY <1>15 DEF Detail!QuickDetailArrives, Detail!RowTask, Detail!Maybe
<1>16. CASE Detail!PollDrawer \/ (\E ok \in BOOLEAN : Detail!PollArrives(ok))
    BY <1>16 DEF Detail!PollDrawer, Detail!PollArrives
<1>17. CASE Detail!OpenMessage \/ Detail!MessageArrives
    BY <1>17 DEF Detail!OpenMessage, Detail!MessageArrives
<1>18. CASE UNCHANGED Detail!vars
    BY <1>18 DEF Detail!vars
<1>. QED
    BY <1>1, <1>2, <1>3, <1>4, <1>5, <1>6, <1>7, <1>8, <1>9, <1>10, <1>11, <1>12, <1>13,
       <1>14, <1>15, <1>16, <1>17, <1>18 DEF Detail!Next, Detail!Step

\* While no dialog is open no code is awaited, so one that opens is on its own.
LEMMA NoCodeWithoutDialog ==
    ASSUME DialogHeld, ~codeDialog.open
    PROVE  coding.step = Detail!None /\ \A m \in Opened : ~RowCoding(m)
BY DEF DialogHeld

\* A mailbox that is opened again keeps the four conditions: its row is not a code's.
LEMMA OpenKeepsMatched ==
    ASSUME DrawerTyped, Matched, NEW m \in Opened, Detail!BeginOpen(m, row), ~crossed',
           UNCHANGED <<Detail!drawer, fetching, coding>>
    PROVE  Matched'
<1> USE DEF Matched, Detail!DrawerMatches, ReaderHeld, DialogHeld, Detail!CodeMatches, Detail!drawer
<1>1. CASE UNCHANGED <<row, codeDialog, reader>> /\ ~crossed
    <2>1. \A n \in Opened : RowCoding(n)' = RowCoding(n)
        BY <1>1 DEF RowCoding
    <2>. QED
        BY <1>1, <2>1
<1>2. CASE /\ row' = [row EXCEPT ![m] = "detail"] /\ codeDialog' = Detail!NoDialog
           /\ reader' = Detail!None
           /\ ~crossed /\ ~codeDialog.open
    <2>1. coding.step = Detail!None /\ \A n \in Opened : ~RowCoding(n)
        BY <1>2, NoCodeWithoutDialog
    <2>2. \A n \in Opened : ~RowCoding(n)'
        BY <1>2, <2>1 DEF RowCoding, DrawerTyped
    <2>3. ~codeDialog'.open
        BY <1>2 DEF Detail!NoDialog
    <2>. QED
        BY <1>2, <2>1, <2>2, <2>3
<1>. QED
    BY <1>1, <1>2, OpenOrBusy

LEMMA StepMatched ==
    ASSUME DrawerTyped, DrawerTyped', Matched, ~crossed, Detail!Step, ~crossed'
    PROVE  Matched'
<1> USE DEF Matched, Detail!DrawerMatches, ReaderHeld, DialogHeld, Detail!CodeMatches,
        Detail!drawer, Detail!tasks
<1>1. ASSUME NEW m \in Opened, Detail!OpenMailbox(m) PROVE Matched'
    BY <1>1, OpenKeepsMatched DEF Detail!OpenMailbox
\* The drawer was closed, or showed this mailbox already.
<1>2. ASSUME NEW m \in Opened, NEW ok \in BOOLEAN, Detail!DetailArrives(m, ok) PROVE Matched'
    <2>1. \A n \in Opened : RowCoding(n)' => RowCoding(n)
        BY <1>2 DEF Detail!DetailArrives, RowCoding, DrawerTyped, Detail!None
    <2>2. CASE ok
        <3>1. Detail!Show(m, {Detail!None, m}) /\ messages' = m /\ edit' = m
            BY <1>2, <2>2 DEF Detail!DetailArrives
        <3>2. /\ selected' = m /\ selected \in {Detail!None, m}
              /\ coding.step # Detail!None => coding.box = m
            BY <3>1, ShowOrCross
        <3>. QED
            BY <1>2, <2>1, <3>1, <3>2 DEF Detail!DetailArrives
    <2>3. CASE ~ok
        BY <1>2, <2>1, <2>3 DEF Detail!DetailArrives
    <2>. QED
        BY <2>2, <2>3
<1>3. CASE Detail!Escape
    <2>1. \A n \in Opened : RowCoding(n)' = RowCoding(n)
        BY <1>3 DEF Detail!Escape, RowCoding
    <2>2. CASE reader # Detail!None /\ reader' = Detail!None /\ UNCHANGED <<codeDialog, selected>>
        BY <1>3, <2>1, <2>2 DEF Detail!Escape
    <2>3. CASE /\ reader = Detail!None /\ codeDialog.open /\ ~Detail!CodeBusy
               /\ codeDialog' = Detail!NoDialog
               /\ UNCHANGED <<reader, selected>>
        <3>1. coding.step = Detail!None /\ \A n \in Opened : ~RowCoding(n)
            BY <2>3 DEF Detail!CodeBusy, RowCoding
        <3>. QED
            BY <1>3, <2>1, <2>3, <3>1 DEF Detail!Escape, Detail!NoDialog
    <2>4. CASE /\ reader = Detail!None /\ ~codeDialog.open /\ selected' = Detail!None
               /\ UNCHANGED <<reader, codeDialog>>
        BY <1>3, <2>1, <2>4 DEF Detail!Escape
    <2>. QED
        BY <1>3, <2>2, <2>3, <2>4, Zenon DEF Detail!Escape
<1>4. CASE Detail!Deleted
    <2>1. \A n \in Opened : RowCoding(n)' = RowCoding(n)
        BY <1>4 DEF Detail!Deleted, RowCoding
    <2>. QED
        BY <1>4, <2>1 DEF Detail!Deleted
<1>5. CASE Detail!SaveStatus \/ Detail!SyncMailbox \/ Detail!CleanRemote
    <2>1. UNCHANGED <<Detail!drawer, reader, fetching, codeDialog, row, coding>>
        BY <1>5 DEF Detail!SaveStatus, Detail!SyncMailbox, Detail!CleanRemote
    <2>. QED
        BY <2>1 DEF RowCoding
<1>6. ASSUME NEW ok \in BOOLEAN, Detail!SaveArrives(ok) PROVE Matched'
    <2>1. selected' = selected
        BY <1>6, ShowOrCross DEF Detail!SaveArrives
    <2>2. UNCHANGED <<messages, edit, reader, fetching, codeDialog, row, coding>>
        BY <1>6 DEF Detail!SaveArrives
    <2>. QED
        BY <2>1, <2>2 DEF RowCoding
<1>7. ASSUME NEW m \in Opened, Detail!QuickSync(m) \/ Detail!QuickSyncEnds(m) PROVE Matched'
    <2>1. \A n \in Opened : RowCoding(n)' => RowCoding(n)
        BY <1>7 DEF Detail!QuickSync, Detail!QuickSyncEnds, RowCoding, DrawerTyped, Detail!None
    <2>. QED
        BY <1>7, <2>1 DEF Detail!QuickSync, Detail!QuickSyncEnds
<1>8. ASSUME NEW ok \in BOOLEAN, Detail!SyncEnds(ok) PROVE Matched'
    <2>1. CASE ok
        BY <1>8, <2>1, OpenKeepsMatched DEF Detail!SyncEnds, DrawerTyped, Detail!Maybe
    <2>2. CASE ~ok
        BY <1>8, <2>2 DEF Detail!SyncEnds, RowCoding
    <2>. QED
        BY <2>1, <2>2
<1>9. ASSUME NEW ok \in BOOLEAN, Detail!CleanEnds(ok) PROVE Matched'
    <2>1. CASE ok /\ selected # Detail!None
        BY <1>9, <2>1, OpenKeepsMatched DEF Detail!CleanEnds, DrawerTyped, Detail!Maybe
    <2>2. CASE ~(ok /\ selected # Detail!None)
        BY <1>9, <2>2 DEF Detail!CleanEnds, RowCoding
    <2>. QED
        BY <2>1, <2>2
\* No other code is awaited while no dialog is open.
<1>10. CASE Detail!GetCode
    <2>1. \A n \in Opened : ~RowCoding(n)'
        BY <1>10, NoCodeWithoutDialog DEF Detail!GetCode, Detail!AtDrawer, RowCoding
    <2>2. /\ codeDialog' = [open |-> TRUE, box |-> selected, code |-> Detail!None]
          /\ coding' = [step |-> "code", box |-> selected]
          /\ UNCHANGED <<Detail!drawer, reader, fetching, crossed>>
        BY <1>10 DEF Detail!GetCode, Detail!OpenCodeDialog
    <2>. QED
        BY <2>1, <2>2
<1>11. ASSUME NEW ok \in BOOLEAN, Detail!CodeArrives(ok) PROVE Matched'
    <2>1. /\ coding.step # Detail!None
          /\ UNCHANGED <<Detail!drawer, reader, fetching, row, crossed>>
          /\ codeDialog'.open /\ codeDialog'.box = coding.box
          /\ codeDialog'.code \in {codeDialog.code, coding.box}
          /\ coding' = Detail!NoCoding \/ (coding'.box = selected /\ selected # Detail!None)
        BY <1>11 DEF Detail!CodeArrives, DrawerTyped, Detail!None
    <2>2. \A n \in Opened : ~RowCoding(n)'
        BY <2>1 DEF RowCoding
    <2>. QED
        BY <2>1, <2>2 DEF Detail!NoCoding
<1>12. ASSUME NEW ok \in BOOLEAN, Detail!CodeDetailArrives(ok) PROVE Matched'
    <2>1. /\ coding.step # Detail!None /\ coding' = Detail!NoCoding
          /\ UNCHANGED <<edit, reader, fetching, row>>
        BY <1>12 DEF Detail!CodeDetailArrives, Detail!None
    <2>2. \A n \in Opened : ~RowCoding(n)'
        BY <2>1 DEF RowCoding
    <2>3. selected' = selected /\ messages' \in {messages, coding.box}
          /\ (messages' # messages => coding.box = selected)
        BY <1>12, ShowOrCross DEF Detail!CodeDetailArrives
    <2>4. /\ codeDialog'.open = codeDialog.open /\ codeDialog'.code = codeDialog.code
          /\ codeDialog'.box = codeDialog.box
        BY <1>12, <2>1 DEF Detail!CodeDetailArrives, DrawerTyped
    <2>. QED
        BY <2>1, <2>2, <2>3, <2>4 DEF Detail!NoCoding
<1>13. ASSUME NEW m \in Opened, Detail!QuickGetCode(m) PROVE Matched'
    <2>1. coding.step = Detail!None /\ \A n \in Opened : ~RowCoding(n)
        BY <1>13, NoCodeWithoutDialog DEF Detail!QuickGetCode, Detail!AtRows
    <2>2. \A n \in Opened : RowCoding(n)' => n = m
        BY <1>13, <2>1 DEF Detail!QuickGetCode, RowCoding, DrawerTyped
    <2>3. /\ codeDialog' = [open |-> TRUE, box |-> m, code |-> Detail!None]
          /\ UNCHANGED <<Detail!drawer, reader, fetching, coding, crossed>>
        BY <1>13 DEF Detail!QuickGetCode, Detail!OpenCodeDialog
    <2>. QED
        BY <2>1, <2>2, <2>3
<1>14. ASSUME NEW m \in Opened, NEW ok \in BOOLEAN, Detail!QuickCodeArrives(m, ok) PROVE Matched'
    <2>1. RowCoding(m) /\ UNCHANGED <<Detail!drawer, reader, fetching, coding, crossed>>
        BY <1>14 DEF Detail!QuickCodeArrives, RowCoding
    <2>2. \A n \in Opened : RowCoding(n)' => RowCoding(n)
        BY <1>14 DEF Detail!QuickCodeArrives, RowCoding, DrawerTyped, Detail!None
    <2>3. codeDialog'.open = codeDialog.open /\ codeDialog'.box = codeDialog.box
          /\ codeDialog'.code \in {codeDialog.code, m}
        BY <1>14 DEF Detail!QuickCodeArrives, DrawerTyped
    <2>. QED
        BY <2>1, <2>2, <2>3
<1>15. ASSUME NEW m \in Opened, NEW ok \in BOOLEAN, Detail!QuickDetailArrives(m, ok) PROVE Matched'
    <2>1. RowCoding(m) /\ UNCHANGED <<Detail!drawer, reader, fetching, coding, crossed>>
        BY <1>15 DEF Detail!QuickDetailArrives, RowCoding
    <2>2. \A n \in Opened : RowCoding(n)' => RowCoding(n)
        BY <1>15 DEF Detail!QuickDetailArrives, RowCoding, DrawerTyped, Detail!None
    <2>3. codeDialog'.open = codeDialog.open /\ codeDialog'.code = codeDialog.code
          /\ codeDialog'.box \in {codeDialog.box, m}
        BY <1>15 DEF Detail!QuickDetailArrives, DrawerTyped
    <2>. QED
        BY <2>1, <2>2, <2>3
<1>16. CASE Detail!PollDrawer \/ (\E ok \in BOOLEAN : Detail!PollArrives(ok))
    <2>1. /\ messages' = messages \/ messages' = selected
          /\ UNCHANGED <<selected, edit, reader, fetching, codeDialog, row, coding>>
        BY <1>16 DEF Detail!PollDrawer, Detail!PollArrives
    <2>. QED
        BY <2>1 DEF RowCoding
<1>17. CASE Detail!OpenMessage \/ Detail!MessageArrives
    <2>1. UNCHANGED <<Detail!drawer, codeDialog, row, coding>>
        BY <1>17 DEF Detail!OpenMessage, Detail!MessageArrives
    <2>. QED
        BY <1>17, <2>1 DEF Detail!OpenMessage, Detail!MessageArrives, Detail!AtDrawer, RowCoding
<1>. QED
    BY <1>1, <1>2, <1>3, <1>4, <1>5, <1>6, <1>7, <1>8, <1>9, <1>10, <1>11, <1>12, <1>13,
       <1>14, <1>15, <1>16, <1>17 DEF Detail!Step

LEMMA DetailPreserved == DetailInv /\ [Detail!Next]_(Detail!vars) => DetailInv'
<1> SUFFICES ASSUME DetailInv, [Detail!Next]_(Detail!vars) PROVE DetailInv'
    OBVIOUS
<1>0. DrawerTyped'
    BY DrawerTypePreserved DEF DetailInv
<1>1. CASE Detail!Next
    BY <1>0, <1>1, StepMatched DEF DetailInv, Detail!Next
<1>2. CASE UNCHANGED Detail!vars
    BY <1>0, <1>2 DEF DetailInv, Matched, Detail!DrawerMatches, ReaderHeld, DialogHeld,
       Detail!CodeMatches, RowCoding, Detail!vars
<1>. QED
    BY <1>1, <1>2

LEMMA DetailAlways == Spec => []DetailInv
<1>1. Init => Detail!Init
    BY DEF Init
<1>. QED
    BY <1>1, DetailStarts, DetailPreserved, DetailSteps, PTL DEF Spec

\* Form, mail and open message are those of the drawer's mailbox until an answer changes the
\* drawer under the user's hands.  (openMailbox, saveStatus)
THEOREM DrawerAlwaysMatches == Spec => []DrawerMatches
<1>1. DetailInv => DrawerMatches
    BY DEF DetailInv, Matched, DrawerMatches, Detail!DrawerMatches
<1>. QED
    BY <1>1, DetailAlways, PTL

\* The code in the dialog is that of the mailbox it names until the dialog is taken away from
\* a running request.  (getCode, quickGetCode)
THEOREM CodeAlwaysMatches == Spec => []CodeMatches
<1>1. DetailInv => CodeMatches
    BY DEF DetailInv, Matched, CodeMatches, Detail!CodeMatches
<1>. QED
    BY <1>1, DetailAlways, PTL

-----------------------------------------------------------------------------
(* The browser's session.  ConsoleIsLive is not inductive: when it is a      *)
(* navigation away from the console that excuses a closed connection, that   *)
(* navigation must not be given up and nobody may sign in before it ends.    *)

\* The connection and the console's frame agree.
Agree == realtime = (route = "console")

\* A navigation fails only with a status that is not known yet, and when frame and connection
\* disagree without a cut, it is a signed-out tab on its way to the login page.
WebInv ==
    /\ Web!TypeOK
    /\ waits => ~loaded
    /\ realtime => route = "console"
    /\ Agree \/ cut \/ (target # Web!None /\ ~authenticated /\ loaded /\ signing.what # "login")

\* Where a navigation ends, the connection is as the page needs it.
LEMMA GoToAgrees ==
    ASSUME WebInv, NEW to \in Web!Route, Web!GoTo(to), to = "console" => authenticated,
           UNCHANGED authenticated
    PROVE  (realtime' => route' = "console") /\ (Agree' \/ cut')
BY DEF WebInv, Web!TypeOK, Web!GoTo, Agree, Web!Route

LEMMA WebStarts == Web!Init => WebInv
<1> SUFFICES ASSUME Web!Init PROVE WebInv
    OBVIOUS
<1>1. Web!TypeOK
    BY DEF Web!Init, Web!TypeOK, Web!NotSigning, Web!Route, Web!Answer, Web!None
<1>2. route # "console" /\ ~realtime
    BY DEF Web!Init, Web!None
<1>3. Agree
    BY <1>2, Zenon DEF Web!Init, Agree
<1>. QED
    BY <1>1, <1>2, <1>3 DEF Web!Init, WebInv

LEMMA WebTypePreserved == Web!TypeOK /\ [Web!Next]_(Web!vars) => Web!TypeOK'
<1> SUFFICES ASSUME Web!TypeOK, [Web!Next]_(Web!vars) PROVE Web!TypeOK'
    OBVIOUS
<1> USE DEF Web!TypeOK, Web!Route, Web!Answer, Web!None, Web!NotSigning
<1>1. CASE Web!AskStatus
    BY <1>1 DEF Web!AskStatus
<1>2. CASE Web!Arrive
    BY <1>2 DEF Web!Arrive, Web!GoTo, Web!Guarded
<1>3. CASE Web!StatusAnswered
    BY <1>3 DEF Web!StatusAnswered
<1>4. CASE Web!StatusArrives
    <2>1. authenticated' \in BOOLEAN /\ cut' \in BOOLEAN
        BY <1>4, Zenon DEF Web!StatusArrives
    <2>. QED
        BY <1>4, <2>1 DEF Web!StatusArrives
<1>5. ASSUME NEW to \in Web!Route, Web!Navigate(to) PROVE Web!TypeOK'
    <2>1. waits' \in BOOLEAN /\ loaded' \in BOOLEAN /\ session' \in BOOLEAN
        BY <1>5, Zenon DEF Web!Navigate
    <2>. QED  BY <1>5, <2>1 DEF Web!Navigate
<1>6. ASSUME NEW to \in Web!Route, Web!Reload(to) PROVE Web!TypeOK'
    BY <1>6 DEF Web!Reload, Web!Fresh
<1>7. CASE Web!Submit \/ Web!SignOut
    BY <1>7 DEF Web!Submit, Web!SignOut
<1>8. CASE Web!ServerSigns
    <2>1. session' \in BOOLEAN
        BY <1>8, Zenon DEF Web!ServerSigns
    <2>2. signing' \in [what : {Web!None, "login", "logout"}, answer : Web!Answer]
        BY <1>8 DEF Web!ServerSigns
    <2>. QED
        BY <1>8, <2>1, <2>2 DEF Web!ServerSigns
<1>9. CASE Web!LoginArrives
    BY <1>9 DEF Web!LoginArrives
<1>10. CASE Web!LogoutArrives
    <2>1. cut' \in BOOLEAN
        BY <1>10, Zenon DEF Web!LogoutArrives
    <2>. QED
        BY <1>10, <2>1 DEF Web!LogoutArrives
<1>11. CASE Web!SessionChanges
    <2>1. session' \in BOOLEAN
        BY <1>11, Zenon DEF Web!SessionChanges
    <2>. QED
        BY <1>11, <2>1 DEF Web!SessionChanges
<1>12. CASE Web!Unauthorized
    BY <1>12 DEF Web!Unauthorized, Web!Fresh
<1>13. CASE UNCHANGED Web!vars
    BY <1>13 DEF Web!vars
<1>. QED
    BY <1>1, <1>2, <1>3, <1>4, <1>5, <1>6, <1>7, <1>8, <1>9,
       <1>10, <1>11, <1>12, <1>13 DEF Web!Next

LEMMA WebPreserved == WebInv /\ [Web!Next]_(Web!vars) => WebInv'
<1> SUFFICES ASSUME WebInv, [Web!Next]_(Web!vars) PROVE WebInv'
    OBVIOUS
<1>0. Web!TypeOK'
    BY WebTypePreserved DEF WebInv
<1> USE <1>0 DEF WebInv, Agree
<1>1. CASE Web!AskStatus
    BY <1>1 DEF Web!AskStatus, Web!TypeOK, Web!None
<1>2. CASE Web!Arrive
    <2>1. Web!Guarded(target) \in Web!Route /\ (Web!Guarded(target) = "console" => authenticated)
        BY <1>2 DEF Web!Arrive, Web!Guarded, Web!TypeOK, Web!Route
    <2>2. (realtime' => route' = "console") /\ (Agree' \/ cut')
        BY <1>2, <2>1, GoToAgrees DEF Web!Arrive
    <2>. QED
        BY <1>2, <2>2 DEF Web!Arrive, Web!GoTo
<1>3. CASE Web!StatusAnswered
    BY <1>3 DEF Web!StatusAnswered
<1>4. CASE Web!StatusArrives
    BY <1>4 DEF Web!StatusArrives, Web!TypeOK
<1>5. ASSUME NEW to \in Web!Route, Web!Navigate(to) PROVE WebInv'
    BY <1>5 DEF Web!Navigate, Web!Route, Web!None
<1>6. ASSUME NEW to \in Web!Route, Web!Reload(to) PROVE WebInv'
    BY <1>6 DEF Web!Reload, Web!Fresh, Web!None
<1>7. CASE Web!Submit
    BY <1>7 DEF Web!Submit, Web!TypeOK
<1>8. CASE Web!SignOut
    BY <1>8 DEF Web!SignOut
<1>9. CASE Web!ServerSigns
    <2>1. signing'.what = signing.what
        BY <1>9 DEF Web!ServerSigns, Web!TypeOK
    <2>. QED
        BY <1>9, <2>1 DEF Web!ServerSigns
<1>10. CASE Web!LoginArrives
    BY <1>10 DEF Web!LoginArrives, Web!TypeOK, Web!NotSigning, Web!None
<1>11. CASE Web!LogoutArrives
    BY <1>11 DEF Web!LogoutArrives, Web!TypeOK, Web!NotSigning, Web!None
<1>12. CASE Web!SessionChanges
    BY <1>12 DEF Web!SessionChanges
<1>13. CASE Web!Unauthorized
    BY <1>13 DEF Web!Unauthorized, Web!Fresh, Web!None
<1>14. CASE UNCHANGED Web!vars
    BY <1>14 DEF Web!vars
<1>. QED
    BY <1>1, <1>2, <1>3, <1>4, <1>5, <1>6, <1>7, <1>8, <1>9, <1>10, <1>11, <1>12, <1>13,
       <1>14 DEF Web!Next

\* The console that is shown keeps its live connection, unless a sign-out failed or was taken
\* back.  (connectRealtime, signOut, router.beforeEach)
THEOREM ConsoleAlwaysLive == Spec => []ConsoleIsLive
<1>1. Init => Web!Init
    BY DEF Init
<1>2. WebInv => ConsoleIsLive
    BY DEF WebInv, ConsoleIsLive, Agree, Web!ConsoleIsLive
<1>. QED
    BY <1>1, <1>2, WebStarts, WebPreserved, WebSteps, PTL DEF Spec

-----------------------------------------------------------------------------
(* The settings page.  The inductive invariant says of every change of the   *)
(* settings where it is meanwhile: in the form, lost, not yet delivered, due *)
(* with the timer, or in a load.                                             *)

\* What the proof needs of the variables' types.
SettingsShape ==
    /\ log \in Seq({"settings", "other"}) /\ delivered \in 0 .. Len(log)
    /\ base \in Nat
    /\ formTimer \in {Settings!None, "load", "runtime"}
    /\ requests \in [Settings!Request -> [at : {Settings!None, "sent", "answered"}, seen : Nat]]

SettingsFound(k) ==
    \/ k <= base \/ k \in missed \/ delivered < k \/ formTimer = "load" \/ Settings!Coming(k)

SettingsInv ==
    /\ SettingsShape
    /\ \A k \in DOMAIN log : log[k] = "settings" => SettingsFound(k)

LEMMA SettingsLogGrows ==
    ASSUME SettingsShape, NEW kind \in {"settings", "other"}
    PROVE  /\ Append(log, kind) \in Seq({"settings", "other"})
           /\ DOMAIN Append(log, kind) = DOMAIN log \cup {Len(log) + 1}
           /\ \A k \in DOMAIN log : Append(log, kind)[k] = log[k]
           /\ DOMAIN log = 1 .. Len(log) /\ Len(log) \in Nat
           /\ Len(Append(log, kind)) = Len(log) + 1
BY DEF SettingsShape

LEMMA SettingsStarts == Settings!Init => SettingsInv
BY DEF Settings!Init, SettingsInv, SettingsShape, Settings!Request, Settings!Load, Settings!Put,
   Settings!Quiet, Settings!None

LEMMA SettingsShapePreserved == SettingsShape /\ [Settings!Next]_(Settings!vars) => SettingsShape'
<1> SUFFICES ASSUME SettingsShape, [Settings!Next]_(Settings!vars) PROVE SettingsShape'
    OBVIOUS
<1>0. Len(log) \in Nat /\ delivered \in Nat
    BY DEF SettingsShape
<1>1. ASSUME NEW kind \in {"settings", "other"}, Settings!Change(kind) PROVE SettingsShape'
    <2>1. log' \in Seq({"settings", "other"}) /\ Len(log') = Len(log) + 1
        BY <1>1, SettingsLogGrows DEF Settings!Change
    <2>2. delivered' \in 0 .. Len(log')
        BY <1>0, <1>1, <2>1 DEF Settings!Change, SettingsShape
    <2>. QED
        BY <1>1, <2>1, <2>2 DEF Settings!Change, SettingsShape
<1>2. CASE Settings!Deliver
    <2>1. delivered' \in 0 .. Len(log) /\ log' = log
        BY <1>0, <1>2 DEF Settings!Deliver
    <2>2. formTimer' \in {Settings!None, "load", "runtime"}
        BY <1>2 DEF Settings!Deliver, Settings!NextTimer, SettingsShape
    <2>. QED
        BY <1>2, <2>1, <2>2 DEF Settings!Deliver, SettingsShape
<1>3. CASE Settings!Listen
    BY <1>3 DEF Settings!Listen, SettingsShape
<1>4. ASSUME NEW r \in Settings!Request, Settings!TimerFires(r) PROVE SettingsShape'
    BY <1>4 DEF Settings!TimerFires, SettingsShape
<1>5. ASSUME NEW r \in Settings!Request, Settings!Save(r) PROVE SettingsShape'
    BY <1>5 DEF Settings!Save, SettingsShape
<1>6. ASSUME NEW r \in Settings!Request, Settings!ServerAnswers(r) PROVE SettingsShape'
    <2>1. log' = log \/ log' = Append(log, "settings")
        BY <1>6 DEF Settings!ServerAnswers
    <2>2. log' \in Seq({"settings", "other"}) /\ Len(log') \in Nat /\ Len(log) <= Len(log')
        <3>1. CASE log' = log
            BY <1>0, <3>1 DEF SettingsShape
        <3>2. CASE log' = Append(log, "settings")
            BY <1>0, <3>2, SettingsLogGrows DEF SettingsShape
        <3>. QED
            BY <2>1, <3>1, <3>2
    <2>3. delivered' \in 0 .. Len(log')
        BY <1>0, <1>6, <2>2 DEF Settings!ServerAnswers, SettingsShape
    <2>4. requests' \in [Settings!Request -> [at : {Settings!None, "sent", "answered"}, seen : Nat]]
        BY <1>6, <2>2 DEF Settings!ServerAnswers, SettingsShape
    <2>. QED
        BY <1>6, <2>2, <2>3, <2>4 DEF Settings!ServerAnswers, SettingsShape
<1>7. ASSUME NEW r \in Settings!Request, NEW ok \in BOOLEAN, Settings!RequestEnds(r, ok)
      PROVE SettingsShape'
    BY <1>7 DEF Settings!RequestEnds, SettingsShape, Settings!Quiet
<1>8. CASE UNCHANGED Settings!vars
    BY <1>8 DEF Settings!vars, SettingsShape
<1>. QED
    BY <1>1, <1>2, <1>3, <1>4, <1>5, <1>6, <1>7, <1>8 DEF Settings!Next

LEMMA SettingsPreserved == SettingsInv /\ [Settings!Next]_(Settings!vars) => SettingsInv'
<1> SUFFICES ASSUME SettingsInv, [Settings!Next]_(Settings!vars) PROVE SettingsInv'
    OBVIOUS
<1>0. /\ SettingsShape /\ SettingsShape' /\ Len(log) \in Nat /\ DOMAIN log = 1 .. Len(log)
      /\ delivered \in Nat /\ delivered <= Len(log) /\ base \in Nat
    BY SettingsShapePreserved DEF SettingsInv, SettingsShape
<1> USE <1>0
<1>a. ASSUME NEW k \in DOMAIN log, log[k] = "settings" PROVE SettingsFound(k)
    BY <1>a DEF SettingsInv
\* A change is not delivered yet when it is made.
<1>1. ASSUME NEW kind \in {"settings", "other"}, Settings!Change(kind) PROVE SettingsInv'
    <2>1. UNCHANGED <<delivered, base, missed, formTimer, requests>>
        BY <1>1 DEF Settings!Change
    <2>2. ASSUME NEW k \in DOMAIN log', log'[k] = "settings" PROVE SettingsFound(k)'
        <3>1. CASE k \in DOMAIN log
            <4>1. log[k] = "settings"
                BY <1>1, <2>2, <3>1, SettingsLogGrows DEF Settings!Change
            <4>. QED
                BY <1>a, <2>1, <3>1, <4>1 DEF SettingsFound, Settings!Coming
        <3>2. CASE k \notin DOMAIN log
            <4>1. k = Len(log) + 1
                BY <1>1, <2>2, <3>2, SettingsLogGrows DEF Settings!Change
            <4>. QED
                BY <2>1, <4>1 DEF SettingsFound
        <3>. QED
            BY <3>1, <3>2
    <2>. QED
        BY <2>2 DEF SettingsInv
\* A delivered change sets the timer, is brought by a load, or is lost; so is what was due.
<1>2. CASE Settings!Deliver
    <2> DEFINE kind == log[delivered + 1]
               lost == IF ~listening
                       THEN Settings!Between(base, delivered + 1) \cap {delivered + 1}
                       ELSE IF formTimer = "load" /\ kind = "other"
                            THEN Settings!Between(base, delivered)
                       ELSE {}
    <2>1. /\ UNCHANGED <<log, base, listening, requests>> /\ delivered' = delivered + 1
          /\ missed' = missed \cup {k \in lost : ~Settings!Coming(k)}
          /\ formTimer' = IF listening THEN Settings!NextTimer(kind) ELSE formTimer
        BY <1>2 DEF Settings!Deliver
    <2>2. kind \in {"settings", "other"}
        BY <1>2 DEF Settings!Deliver, SettingsShape
    <2>3. ASSUME NEW k \in DOMAIN log, log[k] = "settings" PROVE SettingsFound(k)'
        <3>1. Settings!Coming(k)' = Settings!Coming(k)
            BY <2>1 DEF Settings!Coming
        <3>2. k \in lost => k \in missed' \/ Settings!Coming(k)'
            BY <2>1, <3>1
        <3> HIDE DEF kind
        <3>3. CASE k = delivered + 1
            <4>1. CASE listening
                <5>1. kind = "settings"
                    BY <2>3, <3>3 DEF kind
                <5>2. formTimer' = "load"
                    BY <2>1, <4>1, <5>1 DEF Settings!NextTimer
                <5>. QED
                    BY <5>2 DEF SettingsFound
            <4>2. CASE ~listening
                <5>1. k <= base \/ k \in lost
                    BY <2>3, <3>3, <4>2 DEF Settings!Between
                <5>. QED
                    BY <2>1, <3>2, <5>1 DEF SettingsFound
            <4>. QED
                BY <4>1, <4>2
        <3>4. CASE k # delivered + 1
            <4>1. SettingsFound(k) /\ (delivered < k => delivered + 1 < k)
                BY <1>a, <2>3, <3>4
            <4>2. formTimer = "load" => formTimer' = "load" \/ (listening /\ kind = "other")
                BY <2>1, <2>2 DEF Settings!NextTimer
            <4>3. k <= base \/ delivered < k \/ k \in Settings!Between(base, delivered)
                BY <2>3 DEF Settings!Between
            <4>4. formTimer = "load" => SettingsFound(k)'
                BY <2>1, <3>2, <4>1, <4>2, <4>3 DEF SettingsFound
            <4>. QED
                BY <2>1, <3>1, <4>1, <4>4 DEF SettingsFound
        <3>. QED
            BY <3>3, <3>4
    <2>. QED
        BY <2>1, <2>3 DEF SettingsInv
<1>3. CASE Settings!Listen
    BY <1>3 DEF Settings!Listen, SettingsInv, SettingsFound, Settings!Coming
\* The reload that was due is on its way.
<1>4. ASSUME NEW r \in Settings!Request, Settings!TimerFires(r) PROVE SettingsInv'
    <2>1. r \in Settings!Load /\ UNCHANGED <<log, delivered, base, missed>>
        BY <1>4 DEF Settings!TimerFires
    <2>2. CASE formTimer = "load"
        <3>1. requests'[r].at = "sent"
            BY <1>4, <2>2 DEF Settings!TimerFires, SettingsShape
        <3>. QED
            BY <2>1, <3>1 DEF SettingsInv, SettingsFound, Settings!Coming
    <2>3. CASE formTimer # "load"
        <3>1. requests' = requests
            BY <1>4, <2>3 DEF Settings!TimerFires
        <3>. QED
            BY <2>1, <2>3, <3>1 DEF SettingsInv, SettingsFound, Settings!Coming
    <2>. QED
        BY <2>2, <2>3
<1>5. ASSUME NEW r \in Settings!Request, Settings!Save(r) PROVE SettingsInv'
    <2>1. r \notin Settings!Load /\ UNCHANGED <<log, delivered, base, missed, formTimer>>
        BY <1>5 DEF Settings!Save, Settings!Load, Settings!Put
    <2>2. \A q \in Settings!Load : requests'[q] = requests[q]
        BY <1>5, <2>1 DEF Settings!Save, SettingsShape, Settings!Request
    <2>. QED
        BY <2>1, <2>2 DEF SettingsInv, SettingsFound, Settings!Coming
\* An answer has every change made before it; the one a save makes is yet to be delivered.
<1>6. ASSUME NEW r \in Settings!Request, Settings!ServerAnswers(r) PROVE SettingsInv'
    <2>1. log' = log \/ log' = Append(log, "settings")
        BY <1>6 DEF Settings!ServerAnswers
    <2>2. /\ Len(log') \in Nat /\ Len(log) <= Len(log')
          /\ \A k \in DOMAIN log' : k \in DOMAIN log \/ k = Len(log) + 1
          /\ \A k \in DOMAIN log : log'[k] = log[k]
        <3>1. CASE log' = log
            BY <3>1
        <3>2. CASE log' = Append(log, "settings")
            BY <3>2, SettingsLogGrows
        <3>. QED
            BY <2>1, <3>1, <3>2
    <2>3. UNCHANGED <<delivered, base, missed, formTimer>>
        BY <1>6 DEF Settings!ServerAnswers
    <2>4. \A q \in Settings!Request :
             IF q = r THEN requests'[q].at = "answered" /\ requests'[q].seen = Len(log')
                      ELSE requests'[q] = requests[q]
        BY <1>6 DEF Settings!ServerAnswers, SettingsShape
    <2>5. \A k \in DOMAIN log : Settings!Coming(k) => Settings!Coming(k)'
        BY <2>2, <2>4 DEF Settings!Coming, Settings!Request
    <2>6. ASSUME NEW k \in DOMAIN log', log'[k] = "settings" PROVE SettingsFound(k)'
        <3>1. CASE k \in DOMAIN log
            BY <1>a, <2>2, <2>3, <2>5, <2>6, <3>1 DEF SettingsFound
        <3>2. CASE k = Len(log) + 1
            BY <2>3, <3>2 DEF SettingsFound
        <3>. QED
            BY <2>2, <3>1, <3>2
    <2>. QED
        BY <2>6 DEF SettingsInv
\* An answer has what it saw; what else it or its failure takes from the form is lost.
<1>7. ASSUME NEW r \in Settings!Request, NEW ok \in BOOLEAN, Settings!RequestEnds(r, ok)
      PROVE SettingsInv'
    <2> DEFINE seen == requests[r].seen
    <2>1. UNCHANGED <<log, delivered, formTimer>> /\ requests[r].at = "answered"
        BY <1>7 DEF Settings!RequestEnds
    <2>2. seen \in Nat
        BY DEF SettingsShape
    <2>3. /\ base' = (IF ok THEN seen ELSE base)
          /\ missed' = IF ok THEN {k \in missed : seen < k} \cup
                                  Settings!Between(seen, Settings!Smaller(base, delivered))
                       ELSE IF r \in Settings!Load
                       THEN missed \cup Settings!Between(base, Settings!Smaller(seen, delivered))
                       ELSE missed
        BY <1>7 DEF Settings!RequestEnds
    <2>4. \A q \in Settings!Request : q # r => requests'[q] = requests[q]
        BY <1>7 DEF Settings!RequestEnds, SettingsShape
    <2>5. \A k : Settings!Coming(k) =>
                    (r \in Settings!Load /\ k <= seen) \/ Settings!Coming(k)'
        BY <2>1, <2>4 DEF Settings!Coming, Settings!Request
    <2> HIDE DEF seen
    <2>6. ASSUME NEW k \in DOMAIN log, log[k] = "settings" PROVE SettingsFound(k)'
        <3>1. SettingsFound(k) /\ k \in Nat
            BY <1>a, <2>6
        <3>2. CASE ok
            <4>1. k <= base => k <= seen \/ delivered < k \/ k \in missed'
                BY <2>2, <2>3, <2>6, <3>1, <3>2 DEF Settings!Between, Settings!Smaller
            <4>2. k \in missed => k <= seen \/ k \in missed'
                BY <2>2, <2>3, <3>1, <3>2
            <4>. QED
                BY <2>1, <2>3, <2>5, <3>1, <3>2, <4>1, <4>2 DEF SettingsFound
        <3>3. CASE ~ok
            <4>1. r \in Settings!Load /\ k <= seen =>
                     k <= base \/ delivered < k \/ k \in missed'
                BY <2>2, <2>3, <2>6, <3>1, <3>3 DEF Settings!Between, Settings!Smaller
            <4>2. k \in missed => k \in missed'
                BY <2>3, <3>3
            <4>. QED
                BY <2>1, <2>3, <2>5, <3>1, <3>3, <4>1, <4>2 DEF SettingsFound
        <3>. QED
            BY <3>2, <3>3
    <2>. QED
        BY <2>1, <2>6 DEF SettingsInv
<1>8. CASE UNCHANGED Settings!vars
    BY <1>8 DEF Settings!vars, SettingsInv, SettingsFound, Settings!Coming
<1>. QED
    BY <1>1, <1>2, <1>3, <1>4, <1>5, <1>6, <1>7, <1>8 DEF Settings!Next

\* The settings form is based on every change of the server's settings when nothing is on its
\* way to it, except those lost in one of the four ways `missed' records.  (SettingsView's
\* scheduleRealtimeRefresh, onMounted, load, saveSystem)
THEOREM FormAlwaysCurrent == Spec => []FormCurrent
<1>1. ASSUME SettingsInv, formTimer = Settings!None, delivered = Len(log),
             \A r \in Settings!Request : requests[r] = Settings!Quiet,
             NEW k \in DOMAIN log, log[k] = "settings"
      PROVE  k <= base \/ k \in missed
    <2>1. SettingsFound(k)
        BY <1>1 DEF SettingsInv
    <2>2. k \in Nat /\ delivered \in Nat /\ k <= delivered
        BY <1>1 DEF SettingsInv, SettingsShape
    <2>3. formTimer # "load" /\ ~Settings!Coming(k)
        BY <1>1 DEF Settings!Coming, Settings!Request, Settings!Quiet, Settings!None
    <2>. QED
        BY <2>1, <2>2, <2>3 DEF SettingsFound
<1>2. SettingsInv => FormCurrent
    BY <1>1 DEF FormCurrent, Settings!FormCurrent
<1>3. Init => Settings!Init
    BY DEF Init
<1>. QED
    BY <1>2, <1>3, SettingsStarts, SettingsPreserved, SettingsSteps, PTL DEF Spec

-----------------------------------------------------------------------------
(* The dashboard.  Mail is counted by the reading that is shown and by the    *)
(* increments delivered since; every other change is read, lost, or found     *)
(* like a change of the settings above.                                       *)

Changes == {"mail", "other"}

DashboardShape ==
    /\ figureLog \in Seq(Changes) /\ Len(figureLog) <= MaxLog
    /\ figureFeed \in 0 .. Len(figureLog)
    /\ reading \in Nat /\ shownAt \in Nat
    /\ counted \in [1 .. MaxLog -> Nat]
    /\ reads \in [Dashboard!Read -> [at : {Dashboard!None, "sent", "answered"}, seen : Nat]]

DashboardFound(k) ==
    \/ k <= reading \/ k \in uncounted \/ figureFeed < k \/ figureTimer \/ Dashboard!Coming(k)

\* The part of the figures the reading gives, and what the feed has added since.
ByReading(k) == IF k <= reading THEN 1 ELSE 0
ByFeed(k) ==
    IF figuresMounted /\ figureLog[k] = "mail" /\ shownAt < k /\ k <= figureFeed THEN 1 ELSE 0

DashboardInv ==
    /\ DashboardShape /\ shownAt <= figureFeed
    /\ \A k \in DOMAIN figureLog : figureLog[k] = "other" => DashboardFound(k)
    /\ \A k \in 1 .. MaxLog : counted[k] = ByReading(k) + ByFeed(k)
    /\ ~figuresMounted => reads[1].at # Dashboard!None

LEMMA DashboardLogGrows ==
    ASSUME DashboardShape, NEW kind \in Changes
    PROVE  /\ Append(figureLog, kind) \in Seq(Changes)
           /\ DOMAIN Append(figureLog, kind) = DOMAIN figureLog \cup {Len(figureLog) + 1}
           /\ \A k \in DOMAIN figureLog : Append(figureLog, kind)[k] = figureLog[k]
           /\ DOMAIN figureLog = 1 .. Len(figureLog) /\ Len(figureLog) \in Nat
           /\ Len(Append(figureLog, kind)) = Len(figureLog) + 1
BY DEF DashboardShape

LEMMA DashboardStarts == Dashboard!Init => DashboardInv
<1> SUFFICES ASSUME Dashboard!Init PROVE DashboardInv
    OBVIOUS
<1>1. MaxLog \in Nat
    BY ConsoleAssumption
<1>2. DashboardShape
    BY <1>1 DEF Dashboard!Init, DashboardShape, Dashboard!Read, Dashboard!Quiet
<1>3. reads[1].at = "sent" /\ figuresMounted = FALSE /\ figureLog = <<>> /\ figureFeed = 0
      /\ shownAt = 0
    BY DEF Dashboard!Init, Dashboard!Read, Dashboard!Quiet
<1>4. \A k \in 1 .. MaxLog : counted[k] = ByReading(k) + ByFeed(k)
    BY <1>3 DEF Dashboard!Init, ByReading, ByFeed
<1>. QED
    BY <1>2, <1>3, <1>4 DEF DashboardInv, Dashboard!None

LEMMA DashboardShapePreserved ==
    DashboardShape /\ [Dashboard!Next]_(Dashboard!vars) => DashboardShape'
<1> SUFFICES ASSUME DashboardShape, [Dashboard!Next]_(Dashboard!vars) PROVE DashboardShape'
    OBVIOUS
<1>0. Len(figureLog) \in Nat /\ figureFeed \in Nat /\ MaxLog \in Nat
    BY ConsoleAssumption DEF DashboardShape
<1>1. ASSUME NEW kind \in {"mail", "other"}, Dashboard!Change(kind) PROVE DashboardShape'
    <2>1. figureLog' \in Seq(Changes) /\ Len(figureLog') = Len(figureLog) + 1
        BY <1>1, DashboardLogGrows DEF Dashboard!Change, Changes
    <2>2. figureFeed' \in 0 .. Len(figureLog') /\ Len(figureLog') <= MaxLog
        BY <1>0, <1>1, <2>1 DEF Dashboard!Change, DashboardShape
    <2>. QED
        BY <1>1, <2>1, <2>2 DEF Dashboard!Change, DashboardShape
<1>2. CASE Dashboard!Deliver
    <2>1. figureFeed' \in 0 .. Len(figureLog) /\ figureLog' = figureLog
        BY <1>0, <1>2 DEF Dashboard!Deliver
    <2>2. Dashboard!Added(figureFeed + 1) \in [1 .. MaxLog -> Nat]
        <3> DEFINE more == counted[figureFeed + 1] + 1
        <3>1. more \in Nat
            BY <1>0, <1>2 DEF Dashboard!Deliver, DashboardShape
        <3> HIDE DEF more
        <3>2. [counted EXCEPT ![figureFeed + 1] = more] \in [1 .. MaxLog -> Nat]
            BY <3>1 DEF DashboardShape
        <3>. QED
            BY <3>2 DEF more, Dashboard!Added, DashboardShape
    <2>3. counted' \in [1 .. MaxLog -> Nat]
        BY <1>2, <2>2 DEF Dashboard!Deliver, DashboardShape
    <2>. QED
        BY <1>2, <2>1, <2>3 DEF Dashboard!Deliver, DashboardShape
<1>3. ASSUME NEW r \in Dashboard!Read, Dashboard!TimerFires(r) PROVE DashboardShape'
    BY <1>3 DEF Dashboard!TimerFires, DashboardShape
<1>4. ASSUME NEW r \in Dashboard!Read, Dashboard!ServerAnswers(r) PROVE DashboardShape'
    BY <1>0, <1>4 DEF Dashboard!ServerAnswers, DashboardShape
<1>5. ASSUME NEW r \in Dashboard!Read, NEW ok \in BOOLEAN, Dashboard!ReadEnds(r, ok)
      PROVE DashboardShape'
    <2>1. reads[r].seen \in Nat /\ UNCHANGED <<figureLog, figureFeed>>
        BY <1>5 DEF Dashboard!ReadEnds, DashboardShape
    <2>2. reads' \in [Dashboard!Read -> [at : {Dashboard!None, "sent", "answered"}, seen : Nat]]
        BY <1>5 DEF Dashboard!ReadEnds, DashboardShape, Dashboard!Quiet
    <2>3. reading' \in Nat /\ shownAt' \in Nat /\ counted' \in [1 .. MaxLog -> Nat]
        BY <1>0, <1>5, <2>1 DEF Dashboard!ReadEnds, DashboardShape
    <2>. QED
        BY <2>1, <2>2, <2>3 DEF DashboardShape
<1>6. CASE UNCHANGED Dashboard!vars
    BY <1>6 DEF Dashboard!vars, DashboardShape
<1>. QED
    BY <1>1, <1>2, <1>3, <1>4, <1>5, <1>6 DEF Dashboard!Next

LEMMA DashboardPreserved == DashboardInv /\ [Dashboard!Next]_(Dashboard!vars) => DashboardInv'
<1> SUFFICES ASSUME DashboardInv, [Dashboard!Next]_(Dashboard!vars) PROVE DashboardInv'
    OBVIOUS
<1>0. /\ DashboardShape /\ DashboardShape' /\ DOMAIN figureLog = 1 .. Len(figureLog)
      /\ Len(figureLog) \in Nat /\ MaxLog \in Nat /\ Len(figureLog) <= MaxLog
      /\ figureFeed \in Nat /\ figureFeed <= Len(figureLog)
      /\ reading \in Nat /\ shownAt \in Nat /\ shownAt <= figureFeed
    BY DashboardShapePreserved, ConsoleAssumption DEF DashboardInv, DashboardShape
<1> USE <1>0
<1>a. ASSUME NEW k \in DOMAIN figureLog, figureLog[k] = "other" PROVE DashboardFound(k)
    BY <1>a DEF DashboardInv
<1>b. ASSUME NEW k \in 1 .. MaxLog PROVE counted[k] = ByReading(k) + ByFeed(k)
    BY <1>b DEF DashboardInv
\* A change is neither delivered nor read when it is made.
<1>1. ASSUME NEW kind \in {"mail", "other"}, Dashboard!Change(kind) PROVE DashboardInv'
    <2>1. UNCHANGED <<counted, figureFeed, figuresMounted, figureTimer, reads, reading, shownAt,
                      uncounted>>
        BY <1>1 DEF Dashboard!Change
    <2>2. /\ DOMAIN figureLog' = DOMAIN figureLog \cup {Len(figureLog) + 1}
          /\ \A k \in DOMAIN figureLog : figureLog'[k] = figureLog[k]
        BY <1>1, DashboardLogGrows DEF Dashboard!Change, Changes
    <2>3. ASSUME NEW k \in DOMAIN figureLog', figureLog'[k] = "other" PROVE DashboardFound(k)'
        <3>1. CASE k \in DOMAIN figureLog
            BY <1>a, <2>1, <2>2, <2>3, <3>1 DEF DashboardFound, Dashboard!Coming
        <3>2. CASE k = Len(figureLog) + 1
            BY <2>1, <3>2 DEF DashboardFound
        <3>. QED
            BY <2>2, <3>1, <3>2
    <2>4. ASSUME NEW k \in 1 .. MaxLog PROVE (counted[k] = ByReading(k) + ByFeed(k))'
        <3>1. k <= figureFeed => figureLog'[k] = figureLog[k]
            BY <2>2
        <3>. QED
            BY <1>b, <2>1, <3>1 DEF ByReading, ByFeed
    <2>. QED
        BY <2>1, <2>3, <2>4 DEF DashboardInv
\* New mail counts once more; any other change sets the timer, or comes before the page listens.
<1>2. CASE Dashboard!Deliver
    <2> DEFINE d == figureFeed + 1
    <2>1. /\ UNCHANGED <<figureLog, figuresMounted, reads, reading, shownAt>> /\ figureFeed' = d
          /\ d \in DOMAIN figureLog
          /\ counted' = (IF figuresMounted THEN Dashboard!Added(d) ELSE counted)
          /\ uncounted' = IF figuresMounted THEN uncounted ELSE Dashboard!Unheard(d)
        BY <1>2 DEF Dashboard!Deliver
    <2>2. (figureTimer => figureTimer') /\ (figuresMounted /\ figureLog[d] = "other" => figureTimer')
        BY <1>2, Zenon DEF Dashboard!Deliver
    <2>3. \A k : Dashboard!Coming(k)' = Dashboard!Coming(k)
        BY <2>1 DEF Dashboard!Coming
    <2>4. \A k : k \in uncounted => k \in uncounted'
        BY <2>1 DEF Dashboard!Unheard
    <2>5. ASSUME NEW k \in DOMAIN figureLog, figureLog[k] = "other" PROVE DashboardFound(k)'
        <3>1. CASE k = d /\ figuresMounted
            BY <2>2, <2>5, <3>1 DEF DashboardFound
        <3>2. CASE k = d /\ ~figuresMounted
            BY <2>1, <2>3, <2>5, <3>2 DEF DashboardFound, Dashboard!Unheard, Dashboard!Between
        <3>3. CASE k # d
            <4>1. DashboardFound(k) /\ (figureFeed < k => d < k)
                BY <1>a, <2>5, <3>3
            <4>. QED
                BY <2>1, <2>2, <2>3, <2>4, <4>1 DEF DashboardFound
        <3>. QED
            BY <3>1, <3>2, <3>3
    <2>6. ASSUME NEW k \in 1 .. MaxLog PROVE (counted[k] = ByReading(k) + ByFeed(k))'
        <3>1. counted[k] = ByReading(k) + ByFeed(k)
            BY <1>b
        <3>2. CASE k # d \/ ~figuresMounted \/ figureLog[d] # "mail"
            <4>1. counted'[k] = counted[k]
                BY <2>1, <3>2 DEF Dashboard!Added, DashboardShape
            <4>2. ByFeed(k)' = ByFeed(k) /\ ByReading(k)' = ByReading(k)
                BY <2>1, <3>2 DEF ByFeed, ByReading
            <4>. QED
                BY <3>1, <4>1, <4>2
        <3>3. CASE k = d /\ figuresMounted /\ figureLog[d] = "mail"
            <4>1. counted'[k] = counted[k] + 1
                BY <2>1, <3>3 DEF Dashboard!Added, DashboardShape
            <4>2. ByFeed(k) = 0 /\ ByFeed(k)' = 1 /\ ByReading(k)' = ByReading(k)
                BY <2>1, <3>3 DEF ByFeed, ByReading
            <4>3. ByReading(k) \in Nat
                BY DEF ByReading
            <4>. QED
                BY <3>1, <4>1, <4>2, <4>3
        <3>. QED
            BY <3>2, <3>3
    <2>. QED
        BY <2>1, <2>5, <2>6 DEF DashboardInv
<1>3. ASSUME NEW r \in Dashboard!Read, Dashboard!TimerFires(r) PROVE DashboardInv'
    <2>1. UNCHANGED <<figureLog, counted, figureFeed, figuresMounted, reading, shownAt, uncounted>>
        BY <1>3 DEF Dashboard!TimerFires
    <2>2. reads'[r].at = "sent" /\ \A q \in Dashboard!Read : q # r => reads'[q] = reads[q]
        BY <1>3 DEF Dashboard!TimerFires, DashboardShape
    <2>3. \A k \in DOMAIN figureLog : DashboardFound(k)'
        BY <2>2 DEF DashboardFound, Dashboard!Coming
    <2>4. \A k \in 1 .. MaxLog : (counted[k] = ByReading(k) + ByFeed(k))'
        BY <1>b, <2>1 DEF ByReading, ByFeed
    <2>5. ~figuresMounted' => reads'[1].at # Dashboard!None
        BY <2>1, <2>2 DEF DashboardInv, Dashboard!Read, Dashboard!None
    <2>. QED
        BY <2>1, <2>3, <2>4, <2>5 DEF DashboardInv
\* A reading has every change made before it.
<1>4. ASSUME NEW r \in Dashboard!Read, Dashboard!ServerAnswers(r) PROVE DashboardInv'
    <2>1. UNCHANGED <<figureLog, counted, figureFeed, figuresMounted, figureTimer, reading, shownAt,
                      uncounted>>
        BY <1>4 DEF Dashboard!ServerAnswers
    <2>2. \A q \in Dashboard!Read :
             IF q = r THEN reads'[q].at = "answered" /\ reads'[q].seen = Len(figureLog)
                      ELSE reads'[q] = reads[q]
        BY <1>4 DEF Dashboard!ServerAnswers, DashboardShape
    <2>3. \A k \in DOMAIN figureLog : Dashboard!Coming(k) => Dashboard!Coming(k)'
        BY <2>2 DEF Dashboard!Coming
    <2>4. \A k \in DOMAIN figureLog : figureLog[k] = "other" => DashboardFound(k)'
        BY <1>a, <2>1, <2>3 DEF DashboardFound
    <2>5. \A k \in 1 .. MaxLog : (counted[k] = ByReading(k) + ByFeed(k))'
        BY <1>b, <2>1 DEF ByReading, ByFeed
    <2>6. ~figuresMounted' => reads'[1].at # Dashboard!None
        BY <2>1, <2>2 DEF DashboardInv, Dashboard!Read, Dashboard!None
    <2>. QED
        BY <2>1, <2>4, <2>5, <2>6 DEF DashboardInv
\* A reading replaces the figures; what else it or its failure takes from them is lost.
<1>5. ASSUME NEW r \in Dashboard!Read, NEW ok \in BOOLEAN, Dashboard!ReadEnds(r, ok)
      PROVE DashboardInv'
    <2> DEFINE seen == reads[r].seen
    <2>1. /\ UNCHANGED <<figureLog, figureFeed, figureTimer>>
          /\ figuresMounted' /\ reads[r].at = "answered"
        BY <1>5 DEF Dashboard!ReadEnds
    <2>2. seen \in Nat
        BY DEF DashboardShape
    <2>3. /\ reading' = (IF ok THEN seen ELSE reading)
          /\ shownAt' = (IF ok \/ ~figuresMounted THEN figureFeed ELSE shownAt)
          /\ counted' = (IF ok THEN [k \in 1 .. MaxLog |-> IF k <= seen THEN 1 ELSE 0]
                         ELSE counted)
          /\ uncounted' = IF ok THEN {k \in uncounted : seen < k} \cup
                                     Dashboard!Between(seen, Dashboard!Smaller(reading, figureFeed))
                          ELSE uncounted \cup
                               Dashboard!Between(reading, Dashboard!Smaller(seen, figureFeed))
        BY <1>5 DEF Dashboard!ReadEnds
    <2>4. \A q \in Dashboard!Read : q # r => reads'[q] = reads[q]
        BY <1>5 DEF Dashboard!ReadEnds, DashboardShape
    <2>5. \A k : Dashboard!Coming(k) => k <= seen \/ Dashboard!Coming(k)'
        BY <2>1, <2>4 DEF Dashboard!Coming
    <2> HIDE DEF seen
    <2>6. ASSUME NEW k \in DOMAIN figureLog, figureLog[k] = "other" PROVE DashboardFound(k)'
        <3>1. DashboardFound(k) /\ k \in Nat
            BY <1>a, <2>6
        <3>2. CASE ok
            <4>1. k <= reading => k <= seen \/ figureFeed < k \/ k \in uncounted'
                BY <2>2, <2>3, <2>6, <3>1, <3>2 DEF Dashboard!Between, Dashboard!Smaller
            <4>2. k \in uncounted => k <= seen \/ k \in uncounted'
                BY <2>2, <2>3, <3>1, <3>2
            <4>. QED
                BY <2>1, <2>3, <2>5, <3>1, <3>2, <4>1, <4>2 DEF DashboardFound
        <3>3. CASE ~ok
            <4>1. k <= seen => k <= reading \/ figureFeed < k \/ k \in uncounted'
                BY <2>2, <2>3, <2>6, <3>1, <3>3 DEF Dashboard!Between, Dashboard!Smaller
            <4>2. k \in uncounted => k \in uncounted'
                BY <2>3, <3>3
            <4>. QED
                BY <2>1, <2>3, <2>5, <3>1, <3>3, <4>1, <4>2 DEF DashboardFound
        <3>. QED
            BY <3>2, <3>3
    <2>7. ASSUME NEW k \in 1 .. MaxLog PROVE (counted[k] = ByReading(k) + ByFeed(k))'
        <3>1. CASE ok
            BY <2>1, <2>2, <2>3, <3>1 DEF ByReading, ByFeed
        <3>2. CASE ~ok /\ ~figuresMounted
            BY <1>b, <2>1, <2>3, <3>2 DEF ByReading, ByFeed
        <3>3. CASE ~ok /\ figuresMounted
            BY <1>b, <2>1, <2>3, <3>3 DEF ByReading, ByFeed
        <3>. QED
            BY <3>1, <3>2, <3>3
    <2>8. shownAt' <= figureFeed'
        BY <2>1, <2>3
    <2>. QED
        BY <2>1, <2>6, <2>7, <2>8 DEF DashboardInv
<1>6. CASE UNCHANGED Dashboard!vars
    BY <1>6 DEF Dashboard!vars, DashboardInv, DashboardFound, Dashboard!Coming, ByReading, ByFeed
<1>. QED
    BY <1>1, <1>2, <1>3, <1>4, <1>5, <1>6 DEF Dashboard!Next

\* When nothing is on its way to the dashboard its figures count every change once, mail that
\* crossed the reading twice or not at all, and no change that was lost.  (DashboardView's
\* scheduleRealtimeRefresh, refreshDashboard, onMounted)
THEOREM FiguresAlwaysRight == Spec => []FiguresRight
<1>1. ASSUME DashboardInv, ~figureTimer, figureFeed = Len(figureLog),
             \A r \in Dashboard!Read : reads[r] = Dashboard!Quiet,
             NEW k \in DOMAIN figureLog
      PROVE  IF figureLog[k] = "mail" THEN counted[k] = Dashboard!Crossing(k)
             ELSE counted[k] = 1 \/ k \in uncounted
    <2>1. /\ k \in Nat /\ k <= figureFeed /\ k \in 1 .. MaxLog
          /\ reading \in Nat /\ shownAt \in Nat /\ figureFeed \in Nat
        BY <1>1, ConsoleAssumption DEF DashboardInv, DashboardShape
    <2>2. counted[k] = ByReading(k) + ByFeed(k)
        BY <1>1, <2>1 DEF DashboardInv
    <2>3. figuresMounted /\ ~Dashboard!Coming(k)
        BY <1>1 DEF DashboardInv, Dashboard!Coming, Dashboard!Read, Dashboard!Quiet, Dashboard!None
    <2>4. CASE figureLog[k] = "mail"
        BY <2>1, <2>2, <2>3, <2>4 DEF ByReading, ByFeed, Dashboard!Crossing
    <2>5. CASE figureLog[k] # "mail"
        <3>1. figureLog[k] = "other"
            BY <1>1, <2>5 DEF DashboardInv, DashboardShape, Changes
        <3>2. k <= reading \/ k \in uncounted
            BY <1>1, <2>1, <2>3, <3>1 DEF DashboardInv, DashboardFound
        <3>. QED
            BY <2>2, <2>5, <3>2 DEF ByReading, ByFeed
    <2>. QED
        BY <2>4, <2>5
<1>2. DashboardInv => FiguresRight
    BY <1>1 DEF FiguresRight, Dashboard!FiguresRight
<1>3. Init => Dashboard!Init
    BY DEF Init
<1>. QED
    BY <1>2, <1>3, DashboardStarts, DashboardPreserved, DashboardSteps, PTL DEF Spec

-----------------------------------------------------------------------------
(* The Apple accounts page                                                   *)

\* Until they select another account, the answers of check and save find theirs selected.
LEMMA AnswerSelects ==
    ASSUME NEW a, Accounts!Answer(a), ~reselected'
    PROVE  account' = account /\ ~reselected
BY Zenon DEF Accounts!Answer

\* Details fill form and selection together, lists and deletions only drop the selection.
LEMMA CredentialsStep ==
    ASSUME Accounts!CredentialsMatch, ~reselected, Accounts!Step, ~reselected'
    PROVE  Accounts!CredentialsMatch'
<1> USE DEF Accounts!CredentialsMatch
<1>1. ASSUME UNCHANGED <<account, imap, imapOpen>> PROVE Accounts!CredentialsMatch'
    BY <1>1
<1>2. CASE Accounts!FeedLoads \/ Accounts!ServerLists \/ Accounts!Check \/ Accounts!SaveIMAP
    BY <1>1, <1>2 DEF Accounts!FeedLoads, Accounts!ServerLists, Accounts!Check,
       Accounts!SaveIMAP
<1>3. ASSUME NEW a \in Account,
             Accounts!LoginAdds(a) \/ Accounts!Select(a) \/ Accounts!Delete(a)
      PROVE  Accounts!CredentialsMatch'
    BY <1>1, <1>3 DEF Accounts!LoginAdds, Accounts!Select, Accounts!Delete
<1>4. ASSUME NEW ok \in BOOLEAN, Accounts!LoadEnds(ok) PROVE Accounts!CredentialsMatch'
    BY <1>4 DEF Accounts!LoadEnds
<1>5. ASSUME NEW a \in Account, NEW ok \in BOOLEAN, Accounts!DetailArrives(a, ok)
      PROVE  Accounts!CredentialsMatch'
    BY <1>5 DEF Accounts!DetailArrives
<1>6. ASSUME NEW a \in Account, NEW ok \in BOOLEAN, Accounts!DeleteArrives(a, ok)
      PROVE  Accounts!CredentialsMatch'
    BY <1>6 DEF Accounts!DeleteArrives
<1>7. ASSUME NEW ok \in BOOLEAN, Accounts!CheckArrives(ok) PROVE Accounts!CredentialsMatch'
    BY <1>7, AnswerSelects DEF Accounts!CheckArrives
<1>8. CASE Accounts!OpenIMAP \/ Accounts!CloseIMAP
    BY <1>8 DEF Accounts!OpenIMAP, Accounts!CloseIMAP
<1>9. ASSUME NEW ok \in BOOLEAN, Accounts!SaveArrives(ok) PROVE Accounts!CredentialsMatch'
    BY <1>9, AnswerSelects DEF Accounts!SaveArrives
<1>. QED
    BY <1>2, <1>3, <1>4, <1>5, <1>6, <1>7, <1>8, <1>9 DEF Accounts!Step

\* Saving sends the credentials to the account whose they are, until the answer of a check or
\* of an earlier save selects another one.  (saveIMAP, selectAccount, load)
THEOREM CredentialsAlwaysMatch == Spec => []CredentialsMatch
<1>1. Init => CredentialsMatch
    BY DEF Init, Accounts!Init, CredentialsMatch, Accounts!CredentialsMatch
<1>2. ASSUME CredentialsMatch, [Accounts!Next]_(Accounts!vars) PROVE CredentialsMatch'
    <2>1. CASE Accounts!Next /\ ~reselected'
        BY <1>2, <2>1, CredentialsStep DEF Accounts!Next, CredentialsMatch
    <2>2. CASE reselected'
        BY <2>2 DEF CredentialsMatch, Accounts!CredentialsMatch
    <2>3. CASE UNCHANGED Accounts!vars
        BY <1>2, <2>3 DEF CredentialsMatch, Accounts!CredentialsMatch, Accounts!vars
    <2>. QED
        BY <1>2, <2>1, <2>2, <2>3
<1>. QED
    BY <1>1, <1>2, AccountsSteps, PTL DEF Spec
=============================================================================
