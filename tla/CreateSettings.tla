----------------------------- MODULE CreateSettings -----------------------------
(****************************************************************************)
(* The creation form of the tasks page (TasksView.vue).  The form saves     *)
(* itself half a second after a change; the settings dialog edits and saves *)
(* the record (defaultForm) that every automatic save carries along; loads  *)
(* replace that record.  The model follows one field both can write, and    *)
(* this page as its only writer.                                            *)
(****************************************************************************)
EXTENDS Naturals, FiniteSets

CONSTANTS Value,   \* what the field may hold
          MaxPuts  \* bound: saves in flight at once

None == "none"
Put == [no : 1..MaxPuts, kind : {"auto", "dialog"}, value : Value, current : BOOLEAN,
        processed : BOOLEAN]   \* no: the order in which those in flight were sent

VARIABLES
    server,       \* the stored setting
    form,         \* form: what the page shows
    draft,        \* defaultForm: what the dialog shows
    dialog,       \* "closed", "open", or a save of it runs ("busy")
    initialized,
    pending,      \* autoSavePending, with its timer
    puts,         \* saves in flight
    loading,      \* a load() in flight: [at, value]
    left,         \* the page was left
    spoiled       \* history: a save failed or was overtaken on its way to the server, or the
                  \* form was first filled with an answer older than a save, or the page was
                  \* left during the dialog's save

vars == <<server, form, draft, dialog, initialized, pending, puts, loading, left, spoiled>>

TypeOK ==
    /\ server \in Value /\ form \in Value /\ draft \in Value
    /\ dialog \in {"closed", "open", "busy"}
    /\ initialized \in BOOLEAN /\ pending \in BOOLEAN
    /\ puts \subseteq Put /\ Cardinality(puts) <= MaxPuts
    /\ loading \in [at : {None, "sent", "answered"}, value : Value]
    /\ left \in BOOLEAN /\ spoiled \in BOOLEAN

Init ==
    /\ server \in Value /\ form \in Value /\ draft = form
    /\ dialog = "closed" /\ initialized = FALSE /\ pending = FALSE /\ puts = {}
    /\ loading = [at |-> "sent", value |-> form] /\ left = FALSE /\ spoiled = FALSE

-----------------------------------------------------------------------------
\* scheduleFormAutoSave, by the watcher of the form: any change of it, also one by the program.
\* A new version makes the answers of earlier saves old ones.
Outdated(P) == {[p EXCEPT !.current = FALSE] : p \in P}
FormBecomes(v, P, watched) ==
    /\ form' = v
    /\ pending' = (pending \/ (v # form /\ watched))
    /\ puts' = IF v # form /\ watched THEN Outdated(P) ELSE P

\* saveFormSettings, saveDefaults: a request is sent after those in flight.
Sent(P, kind, v) ==
    P \cup {[no |-> Cardinality(P) + 1, kind |-> kind, value |-> v, current |-> TRUE,
             processed |-> FALSE]}
After(no, gone) == IF no > gone THEN no - 1 ELSE no
Without(p) == {[q EXCEPT !.no = After(q.no, p.no)] : q \in puts \ {p}}
MayPut == Cardinality(puts) < MaxPuts

EditForm(v) ==
    /\ ~left /\ dialog # "open" /\ v # form
    /\ FormBecomes(v, puts, initialized)
    /\ UNCHANGED <<server, draft, dialog, initialized, loading, left, spoiled>>

\* createOne shows the default again when the mailbox was created.
CreatedOne ==
    /\ ~left /\ FormBecomes(draft, puts, initialized)
    /\ UNCHANGED <<server, draft, dialog, initialized, loading, left, spoiled>>

AutoSave ==
    /\ pending /\ ~left /\ MayPut /\ pending' = FALSE
    /\ puts' = Sent(puts, "auto", form)
    /\ UNCHANGED <<server, form, draft, dialog, initialized, loading, left, spoiled>>

OpenDialog ==
    /\ ~left /\ dialog = "closed" /\ dialog' = "open"
    /\ UNCHANGED <<server, form, draft, initialized, pending, puts, loading, left, spoiled>>

\* The fields stay open to the user during the save of them, as does the form.
EditDraft(v) ==
    /\ dialog # "closed" /\ ~left /\ draft' = v
    /\ UNCHANGED <<server, form, dialog, initialized, pending, puts, loading, left, spoiled>>

\* Cancelling keeps what was typed in defaultForm.
CancelDialog ==
    /\ dialog = "open" /\ dialog' = "closed"
    /\ UNCHANGED <<server, form, draft, initialized, pending, puts, loading, left, spoiled>>

\* saveDefaults takes the place of the automatic save that was pending.
SaveDefaults ==
    /\ dialog = "open" /\ ~left /\ MayPut
    /\ dialog' = "busy" /\ pending' = FALSE
    /\ puts' = Sent(Outdated(puts), "dialog", draft)
    /\ UNCHANGED <<server, form, draft, initialized, loading, left, spoiled>>

ServerSaves(p) ==
    /\ p \in puts /\ ~p.processed
    /\ server' = p.value
    /\ spoiled' = (spoiled \/ \E q \in puts : q.no < p.no /\ ~q.processed)
    /\ puts' = (puts \ {p}) \cup {[p EXCEPT !.processed = TRUE]}
    /\ UNCHANGED <<form, draft, dialog, initialized, pending, loading, left>>

\* The answer of a save: assignDefaultSettings, and applyDefaults for the dialog's.
AutoSaved(p) ==
    /\ p \in puts /\ p.kind = "auto" /\ p.processed
    /\ puts' = Without(p)
    /\ draft' = IF p.current THEN p.value ELSE draft
    /\ UNCHANGED <<server, form, dialog, initialized, pending, loading, left, spoiled>>

DefaultsSaved(p) ==
    /\ p \in puts /\ p.kind = "dialog" /\ p.processed
    /\ draft' = p.value /\ dialog' = "closed"
    /\ IF left THEN puts' = Without(p) /\ UNCHANGED <<form, pending>>
       ELSE FormBecomes(p.value, Without(p), initialized)
    /\ UNCHANGED <<server, initialized, loading, left, spoiled>>

SaveFails(p) ==
    /\ p \in puts /\ puts' = Without(p) /\ spoiled' = TRUE
    /\ dialog' = IF p.kind = "dialog" THEN "open" ELSE dialog
    /\ UNCHANGED <<server, form, draft, initialized, pending, loading, left>>

-----------------------------------------------------------------------------
\* load(), by the feed or after start and stop
Load ==
    /\ ~left /\ loading.at = None /\ loading' = [loading EXCEPT !.at = "sent"]
    /\ UNCHANGED <<server, form, draft, dialog, initialized, pending, puts, left, spoiled>>

ServerAnswers ==
    /\ loading.at = "sent" /\ loading' = [at |-> "answered", value |-> server]
    /\ UNCHANGED <<server, form, draft, dialog, initialized, pending, puts, left, spoiled>>

\* Only the first answer is shown in the form; every later one replaces the dialog's record.
LoadEnds(ok) ==
    /\ loading.at = "answered" /\ loading' = [loading EXCEPT !.at = None]
    /\ draft' = IF ok THEN loading.value ELSE draft
    /\ initialized' = (initialized \/ (ok /\ ~left))
    /\ IF ok /\ ~initialized /\ ~left THEN FormBecomes(loading.value, puts, TRUE)
       ELSE UNCHANGED <<form, pending, puts>>
    /\ spoiled' = (spoiled \/ (ok /\ ~initialized /\ loading.value # server))
    /\ UNCHANGED <<server, dialog, left>>

BugLeave ==
    /\ ~left /\ MayPut /\ left' = TRUE /\ pending' = FALSE
    /\ spoiled' = (spoiled \/ dialog = "busy")
    /\ UNCHANGED <<server, form, draft, dialog, initialized, puts, loading>>

\* onBeforeUnmount sends what is pending at once; the form of a page that was left is not seen.
Leave ==
    /\ ~left /\ MayPut /\ left' = TRUE /\ pending' = FALSE
    /\ puts' = IF pending THEN Sent(puts, "auto", form) ELSE puts
    /\ spoiled' = (spoiled \/ dialog = "busy")
    /\ UNCHANGED <<server, form, draft, dialog, initialized, loading>>

Next ==
    \/ \E v \in Value : EditForm(v) \/ EditDraft(v)
    \/ CreatedOne \/ AutoSave \/ OpenDialog \/ CancelDialog \/ SaveDefaults
    \/ \E p \in puts : ServerSaves(p) \/ AutoSaved(p) \/ DefaultsSaved(p) \/ SaveFails(p)
    \/ Load \/ ServerAnswers \/ \E ok \in BOOLEAN : LoadEnds(ok)
    \/ Leave

Spec == Init /\ [][Next]_vars

-----------------------------------------------------------------------------
\* When no save is pending or on its way, the server has what the form shows (or showed when
\* the page was left): through edits, the dialog's save, late answers, the reset after a
\* creation and leaving the page, unless a save failed or the network changed the order of requests.
\* (scheduleFormAutoSave, saveFormSettings, saveDefaults, onBeforeUnmount)
FormSaved == initialized /\ ~pending /\ puts = {} /\ ~spoiled => server = form
=============================================================================
