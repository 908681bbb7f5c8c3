--------------------------------- MODULE Toast ---------------------------------
(****************************************************************************)
(* The notices at the edge of every page (useToast.js): at most three, each *)
(* one either persistent (a job's progress) or with a timer that removes    *)
(* it.  Every page pushes and updates notices without knowing the others'.  *)
(****************************************************************************)
EXTENDS Naturals, Sequences

CONSTANT MaxId   \* bound: notices pushed

VARIABLES notices,  \* the shown ones, oldest first
          timers,   \* the notices with a timer
          nextId

vars == <<notices, timers, nextId>>

Notice == [id : 1..MaxId, persistent : BOOLEAN]

TypeOK ==
    /\ notices \in Seq(Notice) /\ Len(notices) <= 3
    /\ timers \subseteq 1..MaxId /\ nextId \in 1..(MaxId + 1)

Init == notices = <<>> /\ timers = {} /\ nextId = 1

Shown == {notices[i] : i \in DOMAIN notices}

BugTooMany(s) == Len(s) > 4
TooMany(s) == Len(s) > 3

BugEvicted(s) == s[1].id

\* push: with more than three, the oldest one that is not persistent goes, else the oldest.
\* That may be the new one itself, whose timer is set all the same.
Evicted(s) ==
    LET passing == {i \in DOMAIN s : ~s[i].persistent}
    IN  IF passing = {} THEN s[1].id ELSE s[CHOOSE i \in passing : \A j \in passing : i <= j].id

\* remove: no two notices have the same id.
Without(s, id) ==
    LET at == CHOOSE i \in DOMAIN s : s[i].id = id
    IN  IF \A i \in DOMAIN s : s[i].id # id THEN s
        ELSE [i \in 1..(Len(s) - 1) |-> IF i < at THEN s[i] ELSE s[i + 1]]

Push(persistent) ==
    LET all == Append(notices, [id |-> nextId, persistent |-> persistent])
        own == IF persistent THEN {} ELSE {nextId}
    IN  /\ nextId <= MaxId /\ nextId' = nextId + 1
        /\ notices' = IF TooMany(all) THEN Without(all, Evicted(all)) ELSE all
        /\ timers' = (IF TooMany(all) THEN timers \ {Evicted(all)} ELSE timers) \cup own

\* update: a notice that is no longer shown is pushed anew.
Update(id, persistent) ==
    IF \E n \in Shown : n.id = id
    THEN /\ notices' = [i \in DOMAIN notices |->
                           IF notices[i].id = id THEN [id |-> id, persistent |-> persistent]
                           ELSE notices[i]]
         /\ timers' = IF persistent THEN timers \ {id} ELSE timers \cup {id}
         /\ UNCHANGED nextId
    ELSE Push(persistent)

\* remove(): by the user or by the timer
Dismiss(id) ==
    /\ notices' = Without(notices, id) /\ timers' = timers \ {id}
    /\ UNCHANGED nextId

Next ==
    \/ \E persistent \in BOOLEAN :
          Push(persistent) \/ \E id \in 1..(nextId - 1) : Update(id, persistent)
    \/ \E id \in timers \cup {n.id : n \in Shown} : Dismiss(id)

Spec == Init /\ [][Next]_vars
-----------------------------------------------------------------------------
\* A progress notice is pushed out only by another one: what a running job reports stays
\* visible however many messages of other pages pass.  (push, update)
ProgressStays ==
    [][\A n \in Shown : n.persistent /\ nextId' # nextId /\ n \notin Shown'
          => \A m \in Shown' : m.persistent]_vars
=============================================================================
