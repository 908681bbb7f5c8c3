------------------------------ MODULE AccountsPage ------------------------------
(***************************************************************************)
(* The Apple accounts page (AppleAccountsView.vue): the list, the selected *)
(* account and the form of its IMAP credentials.  Any number of requests   *)
(* go on at once (startBusy admits one per button, one detail and one      *)
(* deletion per account) and nearly all of their answers set `selected`;   *)
(* the credentials are sent to whatever account is selected then.          *)
(***************************************************************************)
EXTENDS Naturals, FiniteSets

CONSTANTS Account,
          MaxRowRequests  \* bound: details and deletions in flight

None == "none"
Maybe == Account \cup {None}
Unread == {None}   \* a load the server has not answered yet

VARIABLES
    server,     \* the accounts the server has
    listed,     \* data.items
    selected,   \* selected: which account
    imap,       \* imap: whose credentials the form holds
    imapOpen,   \* showIMAP
    details,    \* busy "detail:id": selectAccount's requests in flight
    deletions,  \* busy "delete:id": deletions in flight
    checking,   \* busy "check": of which account
    saving,     \* busy "imap": for which account
    loading,    \* the answer of a load in flight: [open, items]
    crossed     \* history: an answer selected another account behind the user's back

vars == <<server, listed, selected, imap, imapOpen, details, deletions, checking, saving,
          loading, crossed>>

NoLoad == [open |-> FALSE, items |-> {}]
Asked == [open |-> TRUE, items |-> Unread]

TypeOK ==
    /\ server \subseteq Account /\ listed \subseteq Account
    /\ selected \in Maybe /\ imap \in Maybe /\ imapOpen \in BOOLEAN
    /\ details \subseteq Account /\ deletions \subseteq Account
    /\ checking \in Maybe /\ saving \in Maybe
    /\ loading \in [open : BOOLEAN, items : (SUBSET Account) \cup {Unread}]
    /\ crossed \in BOOLEAN

Init ==
    /\ server = Account /\ listed = {} /\ selected = None /\ imap = None /\ imapOpen = FALSE
    /\ details = {} /\ deletions = {} /\ checking = None /\ saving = None
    /\ loading = Asked /\ crossed = FALSE

-----------------------------------------------------------------------------
\* load(), after a command or by the feed's timer; a second one asks anew (bound: the older
\* answer is not followed any more).
Load == loading' = Asked

\* scheduleRealtimeRefresh; what it patches in place selects nothing and is left out.
FeedLoads ==
    /\ ~loading.open /\ Load
    /\ UNCHANGED <<server, listed, selected, imap, imapOpen, details, deletions, checking,
                   saving, crossed>>

ServerLists ==
    /\ loading = Asked /\ loading' = [open |-> TRUE, items |-> server]
    /\ UNCHANGED <<server, listed, selected, imap, imapOpen, details, deletions, checking,
                   saving, crossed>>

\* The selected account is kept with its credentials, or dropped when it is not listed.
LoadEnds(ok) ==
    /\ loading.open /\ loading.items # Unread /\ loading' = NoLoad
    /\ IF ok THEN /\ listed' = loading.items
                  /\ selected' = IF selected \in loading.items THEN selected ELSE None
             ELSE UNCHANGED <<listed, selected>>
    /\ UNCHANGED <<server, imap, imapOpen, details, deletions, checking, saving, crossed>>

\* startLogin, submit2FA: the account is there when Apple has accepted it.
LoginAdds(a) ==
    /\ a \notin server /\ server' = server \cup {a} /\ Load
    /\ UNCHANGED <<listed, selected, imap, imapOpen, details, deletions, checking, saving,
                   crossed>>

-----------------------------------------------------------------------------
RowFree == Cardinality(details) + Cardinality(deletions) < MaxRowRequests

\* selectAccount; its answer fills the form of credentials also while that is open.
Select(a) ==
    /\ ~imapOpen /\ a \in listed \ details /\ RowFree /\ details' = details \cup {a}
    /\ UNCHANGED <<server, listed, selected, imap, imapOpen, deletions, checking, saving,
                   loading, crossed>>

BugDetailArrives(a, ok) ==
    /\ a \in details /\ details' = details \ {a}
    /\ IF ok THEN selected' = a /\ imap' = IF imapOpen THEN imap ELSE a
             ELSE UNCHANGED <<selected, imap>>
    /\ UNCHANGED <<server, listed, imapOpen, deletions, checking, saving, loading, crossed>>
DetailArrives(a, ok) ==
    /\ a \in details /\ details' = details \ {a}
    /\ IF ok THEN selected' = a /\ imap' = a ELSE UNCHANGED <<selected, imap>>
    /\ UNCHANGED <<server, listed, imapOpen, deletions, checking, saving, loading, crossed>>

\* checkAccount, saveIMAP: their answers select the account they were begun for, whatever was
\* selected meanwhile.
Answer(a) == selected' = a /\ crossed' = (crossed \/ selected # a)

Check ==
    /\ selected # None /\ ~imapOpen /\ checking = None /\ checking' = selected
    /\ UNCHANGED <<server, listed, selected, imap, imapOpen, details, deletions, saving,
                   loading, crossed>>

CheckArrives(ok) ==
    /\ checking # None /\ checking' = None
    /\ IF ok THEN Answer(checking) /\ Load ELSE UNCHANGED <<selected, crossed, loading>>
    /\ UNCHANGED <<server, listed, imap, imapOpen, details, deletions, saving>>

OpenIMAP ==
    /\ selected # None /\ ~imapOpen /\ imapOpen' = TRUE /\ imap' = selected
    /\ UNCHANGED <<server, listed, selected, details, deletions, checking, saving, loading,
                   crossed>>

CloseIMAP ==
    /\ imapOpen /\ imapOpen' = FALSE
    /\ UNCHANGED <<server, listed, selected, imap, details, deletions, checking, saving,
                   loading, crossed>>

SaveIMAP ==
    /\ imapOpen /\ selected # None /\ saving = None /\ saving' = selected
    /\ UNCHANGED <<server, listed, selected, imap, imapOpen, details, deletions, checking,
                   loading, crossed>>

SaveArrives(ok) ==
    /\ saving # None /\ saving' = None
    /\ IF ok THEN imapOpen' = FALSE /\ Answer(saving) /\ Load
             ELSE UNCHANGED <<selected, imapOpen, crossed, loading>>
    /\ UNCHANGED <<server, listed, imap, details, deletions, checking>>

\* deleteAccount, confirmed
Delete(a) ==
    /\ ~imapOpen /\ a \in listed \ deletions /\ RowFree /\ deletions' = deletions \cup {a}
    /\ UNCHANGED <<server, listed, selected, imap, imapOpen, details, checking, saving,
                   loading, crossed>>

DeleteArrives(a, ok) ==
    /\ a \in deletions /\ deletions' = deletions \ {a} /\ (ok => a \in server)
    /\ IF ok THEN /\ server' = server \ {a}
                  /\ selected' = IF selected = a THEN None ELSE selected
                  /\ Load
             ELSE UNCHANGED <<server, selected, loading>>
    /\ UNCHANGED <<listed, imap, imapOpen, details, checking, saving, crossed>>

Step ==
    \/ FeedLoads \/ ServerLists
    \/ \E a \in Account :
          \/ LoginAdds(a) \/ Select(a) \/ Delete(a)
          \/ \E ok \in BOOLEAN : DetailArrives(a, ok) \/ DeleteArrives(a, ok)
    \/ Check \/ OpenIMAP \/ CloseIMAP \/ SaveIMAP
    \/ \E ok \in BOOLEAN : LoadEnds(ok) \/ CheckArrives(ok) \/ SaveArrives(ok)

\* Nothing is claimed of a page that has crossed, and the model stops there.
Next == ~crossed /\ Step

Spec == Init /\ [][Next]_vars

-----------------------------------------------------------------------------
\* The credentials in the open form are those of the selected account, to which saving them
\* sends them, in whatever order details, lists and deletions arrive, until the answer of a
\* check or of an earlier save selects another account.
\* (selectAccount, openIMAPDialog, saveIMAP, load)
CredentialsMatch == ~crossed /\ imapOpen /\ selected # None => imap = selected
=============================================================================
