------------------------------- MODULE KeyedWork -------------------------------
(****************************************************************************)
(* What a queue of deletions promises, without saying how it is kept: work  *)
(* waits, then runs, then is gone; at most Limit pieces run, no two of them *)
(* in one lane; no subject is accepted again while work on it waits or      *)
(* runs; and everything that waits is run in the end.                       *)
(****************************************************************************)
EXTENDS Naturals, FiniteSets

CONSTANTS Work,    \* the pieces of work
          Lane,    \* [Work -> lanes]: the work of one lane is serialised
          Subject, \* [Work -> subjects]: what a piece of work is about
          Limit    \* how many pieces may run at once

VARIABLES waiting, running

vars == <<waiting, running>>

OnePer(Of, S) == \A v, w \in S : Of[v] = Of[w] => v = w

Init == waiting = {} /\ running = {}

\* A step may end running work, accept new work and start what waits: nothing that waits is
\* dropped, nothing that runs waits again.
Next ==
    /\ waiting' \cup running' \subseteq Work
    /\ waiting \subseteq waiting' \cup running'
    /\ waiting' \cap (running' \cup running) = {}
    /\ OnePer(Subject, waiting' \cup running')
    /\ OnePer(Lane, running') /\ Cardinality(running') <= Limit

About(s) == \E w \in waiting : Subject[w] = s

Safety == Init /\ [][Next]_vars

Spec == Safety /\ \A s \in {Subject[w] : w \in Work} : About(s) ~> ~About(s)
=============================================================================
