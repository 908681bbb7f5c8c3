------------------------------- MODULE PublicCode -------------------------------
(***************************************************************************)
(* The public page (PublicCodeView.vue): a visitor types an address, asks  *)
(* for its code or its mail, and reads a message.  A request may take 15   *)
(* seconds; the address can be changed meanwhile, and answers are written  *)
(* into one dialog, one list and one reader.                               *)
(***************************************************************************)
CONSTANTS Email, Message,
          OwnerOf   \* the address every message belongs to

None == "none"

VARIABLES
    email,    \* what is typed
    dialog,   \* codeDialogOpen, codeEmail, codeResult; asked: codeLoading, for which address
    loaded,   \* loadedEmail
    listed,   \* messages
    mailing,  \* mailLoading: the address of getMessages' request
    reader,   \* selectedMessage
    full,     \* the message whose full content the reader shows
    opened,   \* openMessage calls that wait, and whether each is still the newest
    cache     \* messageDetailCache

vars == <<email, dialog, loaded, listed, mailing, reader, full, opened, cache>>

NoDialog == [open |-> FALSE, email |-> None, asked |-> None, code |-> None]

TypeOK ==
    /\ email \in Email /\ loaded \in Email \cup {None} /\ mailing \in Email \cup {None}
    /\ dialog \in [open : BOOLEAN, email : Email \cup {None},
                   asked : Email \cup {None}, code : Email \cup {None}]
    /\ listed \subseteq Message /\ cache \subseteq Message
    /\ reader \in Message \cup {None} /\ full \in Message \cup {None}
    /\ opened \subseteq [message : Message, newest : BOOLEAN]

Init ==
    /\ email \in Email /\ dialog = NoDialog /\ loaded = None /\ listed = {} /\ mailing = None
    /\ reader = None /\ full = None /\ opened = {} /\ cache = {}

Page == ~dialog.open /\ reader = None   \* no overlay covers the page

Type(e) ==
    /\ Page /\ email' = e
    /\ UNCHANGED <<dialog, loaded, listed, mailing, reader, full, opened, cache>>

\* getCode and its answer
GetCode ==
    /\ Page /\ dialog.asked = None
    /\ dialog' = [open |-> TRUE, email |-> email, asked |-> email, code |-> None]
    /\ UNCHANGED <<email, loaded, listed, mailing, reader, full, opened, cache>>

CodeArrives(ok) ==
    /\ dialog.asked # None
    /\ dialog' = [dialog EXCEPT !.asked = None, !.code = IF ok THEN dialog.asked ELSE @]
    /\ UNCHANGED <<email, loaded, listed, mailing, reader, full, opened, cache>>

\* getMessages; the caches go with the address they were filled for.
GetMessages ==
    /\ Page /\ mailing = None
    /\ mailing' = email /\ loaded' = email
    /\ IF loaded = email THEN UNCHANGED <<listed, cache>> ELSE listed' = {} /\ cache' = {}
    /\ UNCHANGED <<email, dialog, reader, full, opened>>

MessagesArrive(from, ok) ==
    /\ mailing # None /\ from = mailing /\ mailing' = None
    /\ listed' = IF ok THEN {m \in Message : OwnerOf[m] = from} ELSE listed
    /\ UNCHANGED <<email, dialog, loaded, reader, full, opened, cache>>

\* openMessage and loadMessageDetail, whose answer every waiting call of the message shares;
\* prefetchMessage only fills the cache.
Outdated == {[o EXCEPT !.newest = FALSE] : o \in opened}

OpenMessage(m) ==
    /\ Page /\ m \in listed
    /\ reader' = m
    /\ full' = IF m \in cache THEN m ELSE None
    /\ opened' = Outdated \cup (IF m \in cache THEN {} ELSE {[message |-> m, newest |-> TRUE]})
    /\ UNCHANGED <<email, dialog, loaded, listed, mailing, cache>>

BugWelcome(o) == reader # None
Welcome(o) == o.newest /\ reader = o.message
DetailArrives(m, ok) ==
    LET waiting == {o \in opened : o.message = m}
    IN  /\ waiting # {} \/ m \in listed
        /\ opened' = opened \ waiting
        /\ cache' = IF ok THEN cache \cup {m} ELSE cache
        /\ full' = IF ok /\ \E o \in waiting : Welcome(o) THEN m ELSE full
        /\ UNCHANGED <<email, dialog, loaded, listed, mailing, reader>>

\* handleEscape: closeSelectedMessage, else closeCodeDialog, which refuses during a request
Escape ==
    \/ /\ reader # None /\ reader' = None /\ full' = None /\ opened' = Outdated
       /\ UNCHANGED <<email, dialog, loaded, listed, mailing, cache>>
    \/ /\ reader = None /\ dialog.open /\ dialog.asked = None /\ dialog' = NoDialog
       /\ UNCHANGED <<email, loaded, listed, mailing, reader, full, opened, cache>>

Next ==
    \/ \E e \in Email : Type(e)
    \/ GetCode \/ GetMessages \/ Escape
    \/ \E ok \in BOOLEAN : CodeArrives(ok) \/ \E e \in Email : MessagesArrive(e, ok)
    \/ \E m \in Message : OpenMessage(m) \/ \E ok \in BOOLEAN : DetailArrives(m, ok)

Spec == Init /\ [][Next]_vars

-----------------------------------------------------------------------------
\* The code, the list and the open message belong to the address they are shown for, and the
\* full content to the open message, although the address is changed and messages are closed
\* and opened while their requests go on.  (getCode, getMessages, openMessage)
ShownMatches ==
    /\ dialog.code # None => dialog.code = dialog.email
    /\ \A m \in listed : OwnerOf[m] = loaded
    /\ reader # None => OwnerOf[reader] = loaded
    /\ full # None => full = reader
=============================================================================
