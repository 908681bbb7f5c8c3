----------------------------- MODULE SchedulerProofs -----------------------------
(****************************************************************************)
(* Proofs about Scheduler, for any accounts and plans, any number of starts *)
(* and process ends, with and without termination signals.                  *)
(*                                                                          *)
(* Everything rests on what a generation means: no goroutine has one above  *)
(* the current (Born), every goroutine that still works is the current one  *)
(* and the one Service.cancel would cancel (Singular), and while it is      *)
(* current nobody else writes its run's part of the state, so that its      *)
(* timer agrees with the planned instant (Planned) and its counts belong to *)
(* the last start (Own).  Only a termination signal cancels a goroutine     *)
(* that stays current (Ended): the one case in which finish has an effect.  *)
(****************************************************************************)
EXTENDS Scheduler, SequenceTheorems, TLAPS

Keys == {Manual} \cup Generation
CallPcs == {"none", "queued", "first", "second", "saving"}
Call == [pc: CallPcs, account: Account \cup {NoCall.account}]

\* The type invariant, with the types the calls and the counters have.
Typed ==
    /\ process \in {"up", "closing", "down"}
    /\ state \in State
    /\ disk \in State
    /\ control \in [generation: 0 .. MaxGeneration, cancel: {0} \cup Generation]
    /\ runner \in [Generation -> Runner]
    /\ call \in [Keys -> Call]
    /\ \A k \in Keys : call[k].pc # "none" => call[k].account \in Account
    /\ createMu \in {Manual, Nobody} \cup Generation
    /\ account \subseteq Account
    /\ mailbox \subseteq Account
    /\ starting \in Plans
    /\ deleting \subseteq Account
    /\ starts \in 0 .. MaxStarts
    /\ wanted \in BOOLEAN
    /\ signalled \in BOOLEAN

\* A process that is down has nothing in memory; one that is not has saved
\* what it has.
Memory ==
    /\ process = "down" =>
          /\ ~state.running
          /\ control.generation = 0 /\ control.cancel = 0
          /\ \A g \in Generation : runner[g].pc = "none"
          /\ \A k \in Keys : call[k].pc = "none"
    /\ process # "down" => disk = state

\* Each run uses one generation to begin and one to end.
Numbered ==
    /\ control.generation <= 2 * starts
    /\ state.running => control.generation < 2 * starts
    /\ disk.running => starts > 0
    /\ starting # <<>> => starts < MaxStarts

\* No goroutine has a generation above the current one.
Born(g) == runner[g].pc # "none" => g <= control.generation

\* A call belongs to a goroutine that waits for it, at an account of its list.
Called(g) ==
    /\ call[g].pc # "none" => runner[g].pc = "create"
    /\ runner[g].pc \in {"create", "ok", "error"} => runner[g].todo # <<>>

\* One that still works is the current one, and Service.cancel would cancel it.
Singular(g) == Live(g) => Current(g) /\ control.cancel = g

\* Only a termination signal cancels the goroutine of a run that goes on.
Ended(g) == runner[g].cancelled /\ Current(g) => signalled

\* The current goroutine is the one of the last start, or of its resumption.
Own(g) == Current(g) => runner[g].start = starts

\* While the planned instant is ahead, the current goroutine waits for it.
Planned(g) ==
    Current(g) => \/ runner[g].pc = "wait" /\ runner[g].timer = "future"
                  \/ state.next # "future"

Placed(g) == Born(g) /\ Called(g) /\ Singular(g) /\ Ended(g) /\ Own(g) /\ Planned(g)
Runners == \A g \in Generation : Placed(g)

IInv ==
    /\ Typed /\ Memory /\ Numbered
    /\ Runners
    /\ ResumedAfterCrash

---------------------------------------------------------------------------
(* Lemmas about the records of the model                                    *)

\* What the critical sections write is a state again.
LEMMA StateWritten ==
    ASSUME NEW s \in State
    PROVE  /\ [s EXCEPT !.running = FALSE, !.status = "stopped"] \in State
           /\ [s EXCEPT !.status = "creating", !.next = "zero"] \in State
           /\ [s EXCEPT !.status = "waiting", !.next = "future"] \in State
           /\ [s EXCEPT !.status = "recovering"] \in State
           /\ [s EXCEPT !.next = Pass(@)] \in State
           /\ [s EXCEPT !.success = Bump(@)] \in State
           /\ [s EXCEPT !.failed = Bump(@)] \in State
           /\ [s EXCEPT !.failed = Bump(@), !.running = FALSE,
                        !.status = "stopped", !.next = "zero"] \in State
<1>1. \A n \in 0 .. MaxCount : Bump(n) \in 0 .. MaxCount
    BY SchedulerAssumption DEF Bump
<1>2. \A i \in Instant : Pass(i) \in Instant
    BY DEF Pass, Instant
<1>3. Bump(s.success) \in 0 .. MaxCount /\ Bump(s.failed) \in 0 .. MaxCount
    BY <1>1 DEF State
<1>4. s.next \in Instant /\ Pass(s.next) \in Instant
    BY <1>2 DEF State
<1>5. [s EXCEPT !.running = FALSE, !.status = "stopped"] \in State
    BY DEF State
<1>6. [s EXCEPT !.status = "creating", !.next = "zero"] \in State
    BY DEF State, Instant
<1>7. [s EXCEPT !.status = "waiting", !.next = "future"] \in State
    BY DEF State, Instant
<1>8. [s EXCEPT !.status = "recovering"] \in State
    BY DEF State
<1>9. [s EXCEPT !.next = Pass(@)] \in State
    BY <1>4 DEF State
<1>10. [s EXCEPT !.success = Bump(@)] \in State
    BY <1>3 DEF State
<1>11. [s EXCEPT !.failed = Bump(@)] \in State
    BY <1>3 DEF State
<1>12. [s EXCEPT !.failed = Bump(@), !.running = FALSE,
                 !.status = "stopped", !.next = "zero"] \in State
    BY <1>3 DEF State, Instant
<1>. QED  BY <1>5, <1>6, <1>7, <1>8, <1>9, <1>10, <1>11, <1>12

\* What moves a goroutine on leaves a goroutine.
RunnerPc == {"none", "wait", "round", "each", "create", "ok", "error", "pause", "after", "done"}
LEMMA RunnerMoved ==
    ASSUME NEW f \in [Generation -> Runner], NEW g \in Generation, NEW pc \in RunnerPc
    PROVE  /\ [f EXCEPT ![g].pc = pc] \in [Generation -> Runner]
           /\ [f EXCEPT ![g].cancelled = TRUE] \in [Generation -> Runner]
           /\ [f EXCEPT ![g].pc = "wait", ![g].timer = "future"] \in [Generation -> Runner]
           /\ \A todo \in Seq(Account) :
                  [f EXCEPT ![g].pc = pc, ![g].todo = todo] \in [Generation -> Runner]
<1>1. [f EXCEPT ![g].pc = pc] \in [Generation -> Runner]
    BY DEF Runner, RunnerPc
<1>2. [f EXCEPT ![g].cancelled = TRUE] \in [Generation -> Runner]
    BY DEF Runner
<1>3. [f EXCEPT ![g].pc = "wait", ![g].timer = "future"] \in [Generation -> Runner]
    <2>1. [[f[g] EXCEPT !.pc = "wait"] EXCEPT !.timer = "future"] \in Runner
        BY DEF Runner, Instant
    <2>. QED  BY <2>1
<1>4. ASSUME NEW todo \in Seq(Account)
      PROVE  [f EXCEPT ![g].pc = pc, ![g].todo = todo] \in [Generation -> Runner]
    BY DEF Runner, RunnerPc
<1>. QED  BY <1>1, <1>2, <1>3, <1>4

LEMMA PlanKnown ==
    /\ Plans \subseteq Seq(Account)
    /\ Fresh \in State
    /\ NoRunner \in Runner
    /\ NoCall \in Call /\ NoCall.pc = "none"
    /\ MaxGeneration \in Nat /\ Generation \subseteq Nat \ {0}
<1>1. <<>> \in Plans /\ <<>> \in Seq(Account)
    BY EmptySeq DEF Plans
<1>2. 0 \in 0 .. MaxCount /\ 0 \in 0 .. MaxStarts
    BY SchedulerAssumption
<1>3. Fresh \in State
    BY <1>1, <1>2 DEF Fresh, State, Instant
<1>4. NoRunner \in Runner
    BY <1>1, <1>2 DEF NoRunner, Runner, Instant
<1>5. NoCall \in Call /\ NoCall.pc = "none"
    BY DEF NoCall, Call, CallPcs
<1>6. MaxGeneration \in Nat
    BY SchedulerAssumption DEF MaxGeneration
<1>7. Generation \subseteq Nat \ {0}
    BY <1>6 DEF Generation
<1>8. Plans \subseteq Seq(Account)
    BY <1>1, SchedulerAssumption DEF Plans
<1>. QED  BY <1>3, <1>4, <1>5, <1>6, <1>7, <1>8

LEMMA TypedInit == Init => Typed
<1>. SUFFICES ASSUME Init PROVE Typed
    OBVIOUS
<1>1. /\ control \in [generation: 0 .. MaxGeneration, cancel: {0} \cup Generation]
      /\ starts \in 0 .. MaxStarts
    BY PlanKnown, SchedulerAssumption DEF Init
<1>2. /\ state \in State /\ disk \in State /\ runner \in [Generation -> Runner]
      /\ call \in [Keys -> Call] /\ \A k \in Keys : call[k].pc = "none"
    BY PlanKnown DEF Init, Keys
<1>3. wanted \in BOOLEAN /\ signalled \in BOOLEAN
    BY Zenon DEF Init
<1>. QED  BY <1>1, <1>2, <1>3 DEF Init, Typed, Plans

\* Requests that only check, and the deletion of an account.
LEMMA TypedRequest ==
    ASSUME Typed, \/ \E plan \in Plan : StartCheck(plan)
                  \/ \E a \in Account : ManualCreate(a) \/ DeleteCheck(a) \/ Delete(a)
    PROVE  Typed'
<1>1. CASE \E plan \in Plan : StartCheck(plan)
    BY <1>1 DEF StartCheck, Typed, tables, history, Plans
<1>2. CASE \E a \in Account : ManualCreate(a)
    <2>1. PICK a \in Account : ManualCreate(a)
        BY <1>2
    <2>. DEFINE new == [pc |-> "queued", account |-> a]
    <2>2. new \in Call /\ new.pc # "none" /\ new.account \in Account
        BY DEF Call, CallPcs
    <2>3. call' = [call EXCEPT ![Manual] = new] /\ Manual \in Keys
        BY <2>1 DEF ManualCreate, Keys
    <2>. HIDE DEF new
    <2>4. call' \in [Keys -> Call] /\ \A k \in Keys : call'[k].pc # "none" => call'[k].account \in Account
        BY <2>2, <2>3 DEF Typed
    <2>. QED  BY <2>1, <2>4 DEF ManualCreate, Typed, tables, history, requests
<1>3. CASE \E a \in Account : DeleteCheck(a)
    BY <1>3 DEF DeleteCheck, Typed, tables, history
<1>4. CASE \E a \in Account : Delete(a)
    BY <1>4 DEF Delete, Typed, history
<1>. QED  BY <1>1, <1>2, <1>3, <1>4

\* Start and Stop: the generation stays within its bound.
LEMMA TypedStart == ASSUME Typed, Numbered, Start PROVE Typed'
<1>1. starting \in Plans /\ starts \in Nat /\ control.generation \in Nat
    BY PlanKnown, SchedulerAssumption DEF Typed
<1>2. CASE state.running
    BY <1>1, <1>2 DEF Start, Typed, tables, Plans
<1>3. CASE ~state.running
    <2>. DEFINE g == control.generation + 1
                new == [Fresh EXCEPT !.running = TRUE, !.status = "running", !.accounts = starting]
                begun == [NoRunner EXCEPT !.pc = "round", !.accounts = starting,
                                          !.cancelled = (process = "closing"), !.start = starts + 1]
    <2>1. /\ state' = new /\ disk' = new /\ control' = [generation |-> g, cancel |-> g]
          /\ runner' = [runner EXCEPT ![g] = begun]
          /\ starts' = starts + 1 /\ wanted' = TRUE /\ signalled' = (process = "closing")
          /\ starting' = <<>>
        BY <1>3 DEF Start, Publish
    <2>2. starts + 1 \in 0 .. MaxStarts /\ g \in Generation
        BY <1>1, SchedulerAssumption DEF Start, Numbered, Typed, Generation, MaxGeneration
    <2>3. new \in State
        BY <1>1, PlanKnown DEF State
    <2>4. begun \in Runner
        <3>1. (process = "closing") \in BOOLEAN
            OBVIOUS
        <3>2. ASSUME NEW b \in BOOLEAN, NEW n \in 0 .. MaxStarts
              PROVE  [NoRunner EXCEPT !.pc = "round", !.accounts = starting,
                                      !.cancelled = b, !.start = n] \in Runner
            BY <1>1, PlanKnown DEF Runner
        <3>. QED  BY <2>2, <3>1, <3>2, Zenon
    <2>. HIDE DEF new, begun, g
    <2>5. /\ state' \in State /\ disk' \in State /\ runner' \in [Generation -> Runner]
          /\ control' \in [generation: 0 .. MaxGeneration, cancel: {0} \cup Generation]
        <3>1. g \in 0 .. MaxGeneration
            BY <2>2 DEF Generation
        <3>. QED  BY <2>1, <2>2, <2>3, <2>4, <3>1 DEF Typed
    <2>6. wanted' \in BOOLEAN /\ signalled' \in BOOLEAN
        BY <2>1, Zenon
    <2>. QED  BY <2>1, <2>2, <2>5, <2>6 DEF Start, Typed, tables, Plans
<1>. QED  BY <1>2, <1>3

LEMMA CancelledRunners ==
    ASSUME Typed, NEW k \in {0} \cup Generation
    PROVE  /\ CancelRunner(k) \in [Generation -> Runner]
           /\ \A g \in Generation :
                 /\ CancelRunner(k)[g].pc = runner[g].pc
                 /\ CancelRunner(k)[g].timer = runner[g].timer
                 /\ CancelRunner(k)[g].todo = runner[g].todo
                 /\ CancelRunner(k)[g].start = runner[g].start
                 /\ CancelRunner(k)[g].cancelled <=> (runner[g].cancelled \/ k = g)
<1>1. CASE k = 0
    BY <1>1, PlanKnown DEF Typed, CancelRunner
<1>2. CASE k # 0
    <2>1. CancelRunner(k) = [runner EXCEPT ![k].cancelled = TRUE] /\ k \in Generation
        BY <1>2 DEF CancelRunner
    <2>2. ASSUME NEW g \in Generation
          PROVE  /\ CancelRunner(k)[g].pc = runner[g].pc
                 /\ CancelRunner(k)[g].timer = runner[g].timer
                 /\ CancelRunner(k)[g].todo = runner[g].todo
                 /\ CancelRunner(k)[g].start = runner[g].start
                 /\ CancelRunner(k)[g].cancelled <=> (runner[g].cancelled \/ k = g)
        BY <2>1 DEF Typed, Runner
    <2>3. CancelRunner(k) \in [Generation -> Runner]
        <3>1. "none" \in RunnerPc /\ runner \in [Generation -> Runner]
            BY DEF Typed, RunnerPc
        <3>2. [runner EXCEPT ![k].cancelled = TRUE] \in [Generation -> Runner]
            BY <2>1, <3>1, RunnerMoved
        <3>. QED  BY <2>1, <3>2
    <2>. QED  BY <2>2, <2>3
<1>. QED  BY <1>1, <1>2

LEMMA TypedStop == ASSUME Typed, Numbered, Stop PROVE Typed'
<1>1. starts \in Nat /\ starts <= MaxStarts /\ control.generation \in Nat
    BY PlanKnown, SchedulerAssumption DEF Typed
<1>2. control' \in [generation: 0 .. MaxGeneration, cancel: {0} \cup Generation]
    <2>1. control.generation + 1 \in 0 .. MaxGeneration
        BY <1>1, SchedulerAssumption DEF Stop, Numbered, MaxGeneration
    <2>. QED  BY <2>1 DEF Stop
<1>3. state' \in State /\ disk' \in State
    BY StateWritten DEF Stop, Publish, Typed
<1>4. runner' \in [Generation -> Runner]
    BY CancelledRunners DEF Stop, Typed
<1>5. wanted' \in BOOLEAN
    BY Zenon DEF Stop
<1>. QED  BY <1>2, <1>3, <1>4, <1>5 DEF Stop, Typed, requests, tables

\* finish: the goroutine is over and, if it is the current one, so is the run.
LEMMA FinishTyped ==
    ASSUME Typed, NEW g \in Generation, Finish(g)
    PROVE  /\ state' \in State /\ disk' \in State
           /\ control' \in [generation: 0 .. MaxGeneration, cancel: {0} \cup Generation]
           /\ runner' \in [Generation -> Runner]
<1>1. "done" \in RunnerPc /\ runner \in [Generation -> Runner]
    BY DEF RunnerPc, Typed
<1>2. runner' \in [Generation -> Runner]
    BY <1>1, RunnerMoved DEF Finish, GoTo
<1>3. CASE Current(g)
    <2>1. state' \in State /\ disk' \in State
        BY <1>3, StateWritten DEF Finish, Publish, Typed
    <2>2. control' \in [generation: 0 .. MaxGeneration, cancel: {0} \cup Generation]
        BY <1>3 DEF Finish, Typed
    <2>. QED  BY <1>2, <2>1, <2>2
<1>4. CASE ~Current(g)
    BY <1>2, <1>4 DEF Finish, Typed
<1>. QED  BY <1>3, <1>4

\* A goroutine's own steps.
LEMMA TypedRunner ==
    ASSUME Typed, Numbered, NEW g \in Generation, Called(g), RunnerStep(g) PROVE Typed'
<1>1. /\ runner \in [Generation -> Runner] /\ state \in State
      /\ runner[g].todo \in Seq(Account) /\ runner[g].accounts \in Seq(Account)
    BY PlanKnown DEF Typed, Runner
<1>2. \A pc \in RunnerPc : [runner EXCEPT ![g].pc = pc] \in [Generation -> Runner]
    BY <1>1, RunnerMoved
<1>3. CASE Wait(g)
    <2>1. Finish(g) \/ (GoTo(g, "round") /\ UNCHANGED <<state, disk, control>>)
        BY <1>3 DEF Wait
    <2>2. /\ state' \in State /\ disk' \in State
          /\ control' \in [generation: 0 .. MaxGeneration, cancel: {0} \cup Generation]
          /\ runner' \in [Generation -> Runner]
        <3>1. CASE Finish(g)
            BY <3>1, FinishTyped
        <3>2. CASE GoTo(g, "round") /\ UNCHANGED <<state, disk, control>>
            BY <1>2, <3>2 DEF GoTo, RunnerPc, Typed
        <3>. QED  BY <2>1, <3>1, <3>2
    <2>. QED  BY <1>3, <2>2 DEF Wait, Typed, requests, tables, history
<1>4. CASE BeginRound(g)
    <2>1. /\ state' \in State /\ disk' \in State
          /\ control' \in [generation: 0 .. MaxGeneration, cancel: {0} \cup Generation]
          /\ runner' \in [Generation -> Runner]
        <3>1. CASE Finish(g)
            BY <3>1, FinishTyped
        <3>2. CASE GoTo(g, "after") /\ UNCHANGED <<state, disk, control>>
            BY <1>2, <3>2 DEF GoTo, RunnerPc, Typed
        <3>3. CASE /\ runner' = [runner EXCEPT ![g].pc = "each", ![g].todo = runner[g].accounts]
                   /\ Publish([state EXCEPT !.status = "creating", !.next = "zero"])
                   /\ UNCHANGED control
            <4>1. state' \in State /\ disk' \in State
                BY <1>1, <3>3, StateWritten DEF Publish
            <4>2. "each" \in RunnerPc
                BY DEF RunnerPc
            <4>3. runner' \in [Generation -> Runner]
                BY <1>1, <3>3, <4>2, RunnerMoved
            <4>. QED  BY <3>3, <4>1, <4>3 DEF Typed
        <3>. QED  BY <1>4, <3>1, <3>2, <3>3 DEF BeginRound
    <2>. QED  BY <1>4, <2>1 DEF BeginRound, Typed, requests, tables, history
<1>5. CASE Each(g)
    <2>1. runner' \in [Generation -> Runner]
        BY <1>2, <1>5 DEF Each, GoTo, RunnerPc
    <2>2. /\ call' \in [Keys -> Call]
          /\ \A k \in Keys : call'[k].pc # "none" => call'[k].account \in Account
        <3>1. CASE UNCHANGED call
            BY <3>1 DEF Typed
        <3>2. CASE call' # call
            <4>. DEFINE a == Head(runner[g].todo)
                        new == [pc |-> "queued", account |-> a]
            <4>1. call' = [call EXCEPT ![g] = new] /\ a \in account
                BY <1>5, <3>2 DEF Each
            <4>2. new \in Call /\ new.account \in Account /\ g \in Keys
                BY <4>1 DEF Call, CallPcs, Keys, Typed
            <4>. HIDE DEF new
            <4>. QED  BY <4>1, <4>2 DEF Typed
        <3>. QED  BY <3>1, <3>2
    <2>. QED  BY <1>5, <2>1, <2>2 DEF Each, Typed, requests, tables, history
<1>6. CASE Record(g)
    <2>1. /\ state' \in State /\ disk' \in State
          /\ control' \in [generation: 0 .. MaxGeneration, cancel: {0} \cup Generation]
          /\ runner' \in [Generation -> Runner]
          /\ wanted' \in BOOLEAN
        <3>1. CASE ~Current(g)
            BY <1>2, <1>6, <3>1 DEF Record, GoTo, RunnerPc, Typed
        <3>2. CASE Current(g) /\ runner[g].pc = "ok"
            <4>1. /\ Publish([state EXCEPT !.success = Bump(@)])
                  /\ UNCHANGED <<control, wanted>>
                  /\ runner' = [runner EXCEPT ![g].todo = Tail(@),
                           ![g].pc = IF Len(runner[g].todo) = 1 THEN "after" ELSE "pause"]
                BY <1>6, <3>2 DEF Record
            <4>2. Tail(runner[g].todo) \in Seq(Account)
                BY <1>1, <3>2, HeadTailProperties DEF Called
            <4>3. ASSUME NEW todo \in Seq(Account), NEW pc \in RunnerPc
                  PROVE  [runner EXCEPT ![g].todo = todo, ![g].pc = pc] \in [Generation -> Runner]
                BY <1>1 DEF Runner, RunnerPc
            <4>4. runner' \in [Generation -> Runner]
                <5>1. CASE Len(runner[g].todo) = 1
                    <6>1. "after" \in RunnerPc
                        BY DEF RunnerPc
                    <6>2. runner' = [runner EXCEPT ![g].todo = Tail(runner[g].todo), ![g].pc = "after"]
                        BY <4>1, <5>1
                    <6>. QED  BY <4>2, <4>3, <6>1, <6>2
                <5>2. CASE Len(runner[g].todo) # 1
                    <6>1. "pause" \in RunnerPc
                        BY DEF RunnerPc
                    <6>2. runner' = [runner EXCEPT ![g].todo = Tail(runner[g].todo), ![g].pc = "pause"]
                        BY <4>1, <5>2
                    <6>. QED  BY <4>2, <4>3, <6>1, <6>2
                <5>. QED  BY <5>1, <5>2
            <4>5. state' \in State /\ disk' \in State
                BY <1>1, <4>1, StateWritten DEF Publish
            <4>. QED  BY <4>1, <4>4, <4>5 DEF Typed
        <3>3. CASE Current(g) /\ runner[g].pc = "error"
            <4>1. /\ runner' = [CancelRunner(control.cancel) EXCEPT ![g].pc = "after"]
                  /\ control' = [generation |-> g + 1, cancel |-> 0]
                  /\ Publish([state EXCEPT !.failed = Bump(@), !.running = FALSE,
                                           !.status = "stopped", !.next = "zero"])
                  /\ wanted' = FALSE
                BY <1>6, <3>3 DEF Record
            <4>2. CancelRunner(control.cancel) \in [Generation -> Runner]
                BY CancelledRunners DEF Typed
            <4>3. "after" \in RunnerPc
                BY DEF RunnerPc
            <4>4. runner' \in [Generation -> Runner]
                BY <4>1, <4>2, <4>3, RunnerMoved
            <4>5. state' \in State /\ disk' \in State
                BY <1>1, <4>1, StateWritten DEF Publish
            <4>6. g + 1 \in 0 .. MaxGeneration
                BY <3>3, PlanKnown, SchedulerAssumption DEF Current, Numbered, Typed, MaxGeneration
            <4>7. wanted' \in BOOLEAN
                BY <4>1, Zenon
            <4>. QED  BY <4>1, <4>4, <4>5, <4>6, <4>7
        <3>. QED  BY <1>6, <3>1, <3>2, <3>3 DEF Record
    <2>. QED  BY <1>6, <2>1 DEF Record, Typed, requests, tables
<1>7. CASE Pause(g)
    <2>1. runner' \in [Generation -> Runner]
        BY <1>2, <1>7 DEF Pause, GoTo, RunnerPc
    <2>. QED  BY <1>7, <2>1 DEF Pause, Typed, requests, tables, history
<1>8. CASE After(g)
    <2>1. /\ state' \in State /\ disk' \in State
          /\ control' \in [generation: 0 .. MaxGeneration, cancel: {0} \cup Generation]
          /\ runner' \in [Generation -> Runner]
        <3>1. CASE Finish(g)
            BY <3>1, FinishTyped
        <3>2. CASE GoTo(g, "done") /\ UNCHANGED <<state, disk, control>>
            BY <1>2, <3>2 DEF GoTo, RunnerPc, Typed
        <3>3. CASE /\ runner' = [runner EXCEPT ![g].pc = "wait", ![g].timer = "future"]
                   /\ Publish([state EXCEPT !.status = "waiting", !.next = "future"])
                   /\ UNCHANGED control
            <4>1. state' \in State /\ disk' \in State
                BY <1>1, <3>3, StateWritten DEF Publish
            <4>2. "wait" \in RunnerPc
                BY DEF RunnerPc
            <4>3. runner' \in [Generation -> Runner]
                BY <1>1, <3>3, <4>2, RunnerMoved
            <4>. QED  BY <3>3, <4>1, <4>3 DEF Typed
        <3>. QED  BY <1>8, <3>1, <3>2, <3>3 DEF After
    <2>. QED  BY <1>8, <2>1 DEF After, Typed, requests, tables, history
<1>. QED  BY <1>3, <1>4, <1>5, <1>6, <1>7, <1>8 DEF RunnerStep

\* Create returns to the goroutine or to the manual handler.
LEMMA ReturnTyped ==
    ASSUME Typed, NEW k \in Keys, NEW result \in {"ok", "error"}, Return(k, result)
    PROVE  /\ state' \in State /\ disk' \in State
           /\ runner' \in [Generation -> Runner]
           /\ call' \in [Keys -> Call]
           /\ \A l \in Keys : call'[l].pc # "none" => call'[l].account \in Account
           /\ createMu' = Nobody
<1>1. call' = [call EXCEPT ![k] = NoCall] /\ createMu' = Nobody
    BY DEF Return
<1>2. /\ call' \in [Keys -> Call]
      /\ \A l \in Keys : call'[l].pc # "none" => call'[l].account \in Account
    BY <1>1, PlanKnown DEF Typed
<1>3. CASE k = Manual
    <2>1. state' \in State /\ disk' \in State
        BY <1>3, StateWritten DEF Return, Publish, Typed
    <2>. QED  BY <1>1, <1>2, <1>3, <2>1 DEF Return, Typed
<1>4. CASE k # Manual
    <2>1. result \in RunnerPc /\ k \in Generation /\ runner \in [Generation -> Runner]
        BY <1>4 DEF RunnerPc, Keys, Typed
    <2>2. runner' \in [Generation -> Runner]
        <3>1. runner' = [runner EXCEPT ![k].pc = result]
            BY <1>4 DEF Return, GoTo
        <3>. QED  BY <2>1, <3>1, RunnerMoved
    <2>. QED  BY <1>1, <1>2, <1>4, <2>2 DEF Return, Typed
<1>. QED  BY <1>3, <1>4

\* The steps of a Create call.
LEMMA TypedCreate ==
    ASSUME Typed, NEW k \in Keys, TakeCreateMu(k) \/ CreateStep(k) PROVE Typed'
<1>1. ASSUME NEW pc \in CallPcs \ {"none"}, call[k].pc # "none",
             call' = [call EXCEPT ![k].pc = pc]
      PROVE  /\ call' \in [Keys -> Call]
             /\ \A l \in Keys : call'[l].pc # "none" => call'[l].account \in Account
    BY <1>1 DEF Typed, Call
<1>2. CASE TakeCreateMu(k)
    <2>1. CASE Return(k, "error")
        BY <1>2, <2>1, ReturnTyped DEF TakeCreateMu, Typed, requests, tables, history
    <2>2. CASE /\ createMu' = k
               /\ call' = [call EXCEPT ![k].pc = "first"]
               /\ UNCHANGED <<state, disk, runner>>
        <3>1. call[k].pc # "none" /\ "first" \in CallPcs \ {"none"}
            BY <1>2 DEF TakeCreateMu, CallPcs
        <3>2. /\ call' \in [Keys -> Call]
              /\ \A l \in Keys : call'[l].pc # "none" => call'[l].account \in Account
            BY <1>1, <2>2, <3>1
        <3>. QED  BY <1>2, <2>2, <3>2 DEF TakeCreateMu, Typed, requests, tables, history, Keys
    <2>. QED  BY <1>2, <2>1, <2>2 DEF TakeCreateMu
<1>3. CASE Answer(k)
    <2>1. CASE Return(k, "error")
        BY <1>3, <2>1, ReturnTyped DEF Answer, Typed, requests, tables, history
    <2>2. CASE /\ \/ call' = [call EXCEPT ![k].pc = "saving"]
                  \/ call' = [call EXCEPT ![k].pc = "second"]
               /\ UNCHANGED <<state, disk, runner, createMu>>
        <3>1. call[k].pc # "none" /\ {"saving", "second"} \subseteq CallPcs \ {"none"}
            BY <1>3 DEF Answer, CallPcs
        <3>2. /\ call' \in [Keys -> Call]
              /\ \A l \in Keys : call'[l].pc # "none" => call'[l].account \in Account
            BY <1>1, <2>2, <3>1
        <3>. QED  BY <1>3, <2>2, <3>2 DEF Answer, Typed, requests, tables, history
    <2>. QED  BY <1>3, <2>1, <2>2 DEF Answer
<1>4. CASE Save(k)
    <2>1. mailbox' \subseteq Account
        BY <1>4 DEF Save, Typed
    <2>2. Return(k, "ok") \/ Return(k, "error")
        BY <1>4 DEF Save
    <2>. QED  BY <1>4, <2>1, <2>2, ReturnTyped DEF Save, Typed, requests, history
<1>. QED  BY <1>2, <1>3, <1>4 DEF CreateStep

\* Time, a signal, the end of the process and its next start.
LEMMA TypedWorld ==
    ASSUME Typed, Numbered, Memory, TimePasses \/ Signal \/ Exit \/ Boot PROVE Typed'
<1>1. CASE TimePasses
    <2>1. state' \in State /\ disk' \in State
        BY <1>1, StateWritten DEF TimePasses, Typed
    <2>2. ASSUME NEW g \in Generation PROVE [runner[g] EXCEPT !.timer = Pass(@)] \in Runner
        <3>1. \A i \in Instant : Pass(i) \in Instant
            BY DEF Pass, Instant
        <3>2. runner[g] \in Runner
            BY DEF Typed
        <3>3. Pass(runner[g].timer) \in Instant
            BY <3>1, <3>2 DEF Runner
        <3>. QED  BY <3>2, <3>3 DEF Runner
    <2>3. runner' \in [Generation -> Runner]
        BY <1>1, <2>2 DEF TimePasses
    <2>. QED  BY <1>1, <2>1, <2>3 DEF TimePasses, Typed, requests, tables, history
<1>2. CASE Signal
    <2>1. ASSUME NEW g \in Generation, NEW b \in BOOLEAN
          PROVE  [runner[g] EXCEPT !.cancelled = b] \in Runner
        <3>1. runner[g] \in Runner
            BY DEF Typed
        <3>. QED  BY <3>1 DEF Runner
    <2>2. ASSUME NEW g \in Generation
          PROVE  [runner[g] EXCEPT !.cancelled = runner[g].pc # "none"] \in Runner
        <3>1. (runner[g].pc # "none") \in BOOLEAN
            OBVIOUS
        <3>. QED  BY <2>1, <3>1, Zenon
    <2>3. runner' \in [Generation -> Runner]
        BY <1>2, <2>2 DEF Signal
    <2>4. signalled' \in BOOLEAN
        BY <1>2, Zenon DEF Signal
    <2>. QED  BY <1>2, <2>3, <2>4 DEF Signal, Typed, requests, tables
<1>3. CASE Exit
    <2>1. control' \in [generation: 0 .. MaxGeneration, cancel: {0} \cup Generation]
        BY <1>3, PlanKnown DEF Exit
    <2>2. /\ runner' \in [Generation -> Runner] /\ call' \in [Keys -> Call] /\ state' \in State
          /\ \A k \in Keys : call'[k].pc = "none"
        BY <1>3, PlanKnown DEF Exit, Keys
    <2>. QED  BY <1>3, <2>1, <2>2 DEF Exit, Typed, tables, Plans
<1>4. CASE Boot
    <2>1. CASE disk.running
        <3>. DEFINE resumed == [NoRunner EXCEPT !.pc = "wait", !.accounts = disk.accounts,
                                                !.timer = disk.next, !.start = starts]
        <3>1. /\ Publish([disk EXCEPT !.status = "recovering"])
              /\ control' = [generation |-> 1, cancel |-> 1]
              /\ runner' = [runner EXCEPT ![1] = resumed]
            BY <1>4, <2>1 DEF Boot
        <3>2. 1 \in Generation /\ 1 \in 0 .. MaxGeneration
            BY <2>1, SchedulerAssumption DEF Numbered, Typed, Generation, MaxGeneration
        <3>3. resumed \in Runner
            <4>1. disk.accounts \in Plans /\ disk.next \in Instant /\ starts \in 0 .. MaxStarts
                BY DEF Typed, State
            <4>. QED  BY <4>1, PlanKnown DEF Runner
        <3>. HIDE DEF resumed
        <3>4. state' \in State /\ disk' \in State
            BY <3>1, StateWritten DEF Publish, Typed
        <3>5. runner' \in [Generation -> Runner]
            BY <3>1, <3>3 DEF Typed
        <3>. QED  BY <1>4, <3>1, <3>2, <3>4, <3>5 DEF Boot, Typed, requests, tables, history
    <2>2. CASE ~disk.running
        BY <1>4, <2>2 DEF Boot, Typed, requests, tables, history
    <2>. QED  BY <2>1, <2>2
<1>. QED  BY <1>1, <1>2, <1>3, <1>4

LEMMA TypedStep == Typed /\ Numbered /\ Memory /\ Runners /\ [Next]_vars => Typed'
<1>. SUFFICES ASSUME Typed, Numbered, Memory, Runners, [Next]_vars PROVE Typed'
    OBVIOUS
<1>1. CASE UNCHANGED vars
    BY <1>1 DEF vars, Typed
<1>2. CASE RequestStep
    BY <1>2, TypedRequest, TypedStart, TypedStop DEF RequestStep
<1>3. CASE \E g \in Generation : RunnerStep(g)
    BY <1>3, TypedRunner DEF Runners, Placed
<1>4. CASE \E k \in {Manual} \cup Generation : TakeCreateMu(k) \/ CreateStep(k)
    BY <1>4, TypedCreate DEF Keys
<1>5. CASE TimePasses \/ Signal \/ Exit \/ Boot
    BY <1>5, TypedWorld
<1>. QED  BY <1>1, <1>2, <1>3, <1>4, <1>5 DEF Next

---------------------------------------------------------------------------
(* What the steps do                                                        *)

\* GoTo moves one goroutine and changes nothing else about any.
LEMMA GoToDoes ==
    ASSUME Typed, NEW g \in Generation, NEW pc \in RunnerPc, GoTo(g, pc)
    PROVE  \A h \in Generation :
               /\ runner'[h].pc = IF h = g THEN pc ELSE runner[h].pc
               /\ runner'[h].timer = runner[h].timer
               /\ runner'[h].todo = runner[h].todo
               /\ runner'[h].start = runner[h].start
               /\ runner'[h].cancelled = runner[h].cancelled
BY DEF GoTo, Typed, Runner

\* What finish does to the run: nothing unless its goroutine is current.
LEMMA FinishDoes ==
    ASSUME Typed, NEW g \in Generation, Finish(g)
    PROVE  /\ GoTo(g, "done")
           /\ Current(g) => /\ Publish([state EXCEPT !.running = FALSE, !.status = "stopped"])
                            /\ ~state'.running /\ state'.next = state.next
                            /\ control'.generation = control.generation
           /\ ~Current(g) => UNCHANGED <<state, disk, control>>
<1>1. CASE Current(g)
    <2>1. /\ Publish([state EXCEPT !.running = FALSE, !.status = "stopped"])
          /\ control' = [control EXCEPT !.cancel = 0] /\ GoTo(g, "done")
        BY <1>1 DEF Finish
    <2>2. ~state'.running /\ state'.next = state.next
        BY <2>1 DEF Publish, Typed, State
    <2>3. control'.generation = control.generation
        BY <2>1 DEF Typed
    <2>. QED  BY <1>1, <2>1, <2>2, <2>3
<1>2. CASE ~Current(g)
    BY <1>2 DEF Finish
<1>. QED  BY <1>1, <1>2

\* The steps of a goroutine, by what they do to the state: it ends after its
\* context was cancelled; it moves and writes nothing; it begins a round, plans
\* the next one, or records a result of the run it belongs to.
Ends(g) == runner[g].cancelled /\ Finish(g) /\ UNCHANGED call /\ UNCHANGED history
Moves(g) ==
    /\ UNCHANGED <<state, disk, control>> /\ UNCHANGED history
    /\ \/ /\ runner[g].pc = "wait" /\ runner[g].timer # "future"
          /\ GoTo(g, "round") /\ UNCHANGED call
       \/ /\ runner[g].pc = "each" /\ runner[g].todo # <<>>
          /\ \/ GoTo(g, "error") /\ UNCHANGED call
             \/ /\ GoTo(g, "create")
                /\ \A h \in Generation : h # g => call'[h] = call[h]
       \/ /\ runner[g].pc \in {"round", "each", "ok", "error", "pause"}
          /\ \E pc \in {"after", "each"} : /\ pc = "each" => runner[g].pc = "pause"
                                           /\ GoTo(g, pc)
          /\ UNCHANGED call
       \/ /\ runner[g].pc = "after" /\ ~runner[g].cancelled /\ ~Current(g)
          /\ GoTo(g, "done") /\ UNCHANGED call
Begins(g) ==
    /\ runner[g].pc = "round" /\ Current(g)
    /\ runner' = [runner EXCEPT ![g].pc = "each", ![g].todo = runner[g].accounts]
    /\ Publish([state EXCEPT !.status = "creating", !.next = "zero"])
    /\ UNCHANGED <<control, call>> /\ UNCHANGED history
Waits(g) ==
    /\ runner[g].pc = "after" /\ Current(g)
    /\ runner' = [runner EXCEPT ![g].pc = "wait", ![g].timer = "future"]
    /\ Publish([state EXCEPT !.status = "waiting", !.next = "future"])
    /\ UNCHANGED <<control, call>> /\ UNCHANGED history
Succeeds(g) ==
    /\ runner[g].pc = "ok" /\ Current(g)
    /\ \E pc \in {"after", "pause"} :
          runner' = [runner EXCEPT ![g].todo = Tail(@), ![g].pc = pc]
    /\ Publish([state EXCEPT !.success = Bump(@)])
    /\ UNCHANGED <<control, call>> /\ UNCHANGED history
Fails(g) ==
    /\ runner[g].pc = "error" /\ Current(g)
    /\ runner' = [CancelRunner(control.cancel) EXCEPT ![g].pc = "after"]
    /\ control' = [generation |-> g + 1, cancel |-> 0]
    /\ Publish([state EXCEPT !.failed = Bump(@), !.running = FALSE,
                             !.status = "stopped", !.next = "zero"])
    /\ wanted' = FALSE
    /\ UNCHANGED <<call, starts, crashes, signalled>>

LEMMA RunnerSteps ==
    ASSUME Typed, NEW g \in Generation, RunnerStep(g)
    PROVE  /\ Ends(g) \/ Moves(g) \/ Begins(g) \/ Waits(g) \/ Succeeds(g) \/ Fails(g)
           /\ UNCHANGED process /\ UNCHANGED requests
           /\ runner[g].pc \notin {"none", "create", "done"}
<1>1. CASE Wait(g)
    BY <1>1 DEF Wait, Ends, Moves
<1>2. CASE BeginRound(g)
    <2>1. CASE runner[g].cancelled /\ Finish(g)
        BY <1>2, <2>1 DEF BeginRound, Ends
    <2>2. CASE GoTo(g, "after") /\ UNCHANGED <<state, disk, control>>
        BY <1>2, <2>2 DEF BeginRound, Moves
    <2>3. CASE /\ Current(g)
               /\ runner' = [runner EXCEPT ![g].pc = "each", ![g].todo = runner[g].accounts]
               /\ Publish([state EXCEPT !.status = "creating", !.next = "zero"])
               /\ UNCHANGED control
        BY <1>2, <2>3 DEF BeginRound, Begins
    <2>4. UNCHANGED process /\ UNCHANGED requests /\ runner[g].pc \notin {"none", "create", "done"}
        BY <1>2 DEF BeginRound
    <2>. QED  BY <1>2, <2>1, <2>2, <2>3, <2>4 DEF BeginRound
<1>3. CASE Each(g)
    <2>1. CASE GoTo(g, "after") /\ UNCHANGED call
        BY <1>3, <2>1 DEF Each, Moves
    <2>2. CASE GoTo(g, "error") /\ UNCHANGED call /\ runner[g].todo # <<>>
        BY <1>3, <2>2 DEF Each, Moves
    <2>3. CASE /\ GoTo(g, "create") /\ runner[g].todo # <<>>
               /\ call' = [call EXCEPT ![g] = [pc |-> "queued", account |-> Head(runner[g].todo)]]
        <3>1. \A h \in Generation : h # g => call'[h] = call[h]
            BY <2>3 DEF Typed, Keys
        <3>. QED  BY <1>3, <2>3, <3>1 DEF Each, Moves
    <2>. QED  BY <1>3, <2>1, <2>2, <2>3 DEF Each
<1>4. CASE Record(g)
    <2>1. CASE ~Current(g)
        BY <1>4, <2>1 DEF Record, Moves, history
    <2>2. CASE Current(g) /\ runner[g].pc = "ok"
        <3>1. runner' = [runner EXCEPT ![g].todo = Tail(@),
                   ![g].pc = IF Len(runner[g].todo) = 1 THEN "after" ELSE "pause"]
            BY <1>4, <2>2 DEF Record
        <3>2. \E pc \in {"after", "pause"} :
                  runner' = [runner EXCEPT ![g].todo = Tail(@), ![g].pc = pc]
            <4>1. PICK pc : pc = IF Len(runner[g].todo) = 1 THEN "after" ELSE "pause"
                OBVIOUS
            <4>. QED  BY <3>1, <4>1
        <3>. QED  BY <1>4, <2>2, <3>2 DEF Record, Succeeds, history
    <2>3. CASE Current(g) /\ runner[g].pc = "error"
        BY <1>4, <2>3 DEF Record, Fails
    <2>. QED  BY <1>4, <2>1, <2>2, <2>3 DEF Record
<1>5. CASE Pause(g)
    BY <1>5 DEF Pause, Moves
<1>6. CASE After(g)
    <2>1. CASE runner[g].cancelled /\ Finish(g)
        BY <1>6, <2>1 DEF After, Ends
    <2>2. CASE ~runner[g].cancelled /\ ~Current(g) /\ GoTo(g, "done") /\ UNCHANGED <<state, disk, control>>
        BY <1>6, <2>2 DEF After, Moves
    <2>3. CASE /\ Current(g)
               /\ runner' = [runner EXCEPT ![g].pc = "wait", ![g].timer = "future"]
               /\ Publish([state EXCEPT !.status = "waiting", !.next = "future"])
               /\ UNCHANGED control
        BY <1>6, <2>3 DEF After, Waits
    <2>4. UNCHANGED process /\ UNCHANGED requests /\ runner[g].pc \notin {"none", "create", "done"}
        BY <1>6 DEF After
    <2>. QED  BY <1>6, <2>1, <2>2, <2>3, <2>4 DEF After
<1>. QED  BY <1>1, <1>2, <1>3, <1>4, <1>5, <1>6 DEF RunnerStep

---------------------------------------------------------------------------
(* The state in memory and on disk                                          *)

Saved == Memory /\ Numbered /\ ResumedAfterCrash

LEMMA SavedRunner ==
    ASSUME Typed, Saved, NEW g \in Generation, Ended(g), RunnerStep(g) PROVE Saved'
<1>1. /\ UNCHANGED process /\ UNCHANGED requests
      /\ runner[g].pc \notin {"none", "create", "done"}
    BY RunnerSteps
<1>2. process # "down" /\ process' # "down" /\ disk = state
    BY <1>1 DEF Saved, Memory
<1>3. /\ starts \in Nat /\ control.generation \in Nat /\ state \in State
    BY SchedulerAssumption, PlanKnown DEF Typed
<1>4. CASE Ends(g)
    <2>1. CASE Current(g)
        <3>1. /\ disk' = state' /\ ~state'.running /\ UNCHANGED history
              /\ control'.generation = control.generation
            BY <1>4, <2>1, FinishDoes DEF Ends, Publish
        <3>2. signalled
            BY <1>4, <2>1 DEF Ends, Ended
        <3>. QED  BY <1>1, <1>2, <1>3, <3>1, <3>2
                  DEF Saved, Memory, Numbered, ResumedAfterCrash, history, requests
    <2>2. CASE ~Current(g)
        BY <1>1, <1>2, <1>4, <2>2, FinishDoes
           DEF Ends, Saved, Memory, Numbered, ResumedAfterCrash, history, requests
    <2>. QED  BY <2>1, <2>2
<1>5. CASE Moves(g)
    BY <1>1, <1>2, <1>5 DEF Moves, Saved, Memory, Numbered, ResumedAfterCrash, history, requests
<1>6. CASE Begins(g) \/ Waits(g) \/ Succeeds(g)
    <2>1. /\ disk' = state' /\ UNCHANGED control /\ UNCHANGED history
          /\ state'.running = state.running
        BY <1>3, <1>6 DEF Begins, Waits, Succeeds, Publish, State
    <2>. QED  BY <1>1, <1>2, <2>1 DEF Saved, Memory, Numbered, ResumedAfterCrash, history, requests
<1>7. CASE Fails(g)
    <2>1. /\ disk' = state' /\ ~state'.running /\ ~wanted'
          /\ control'.generation = control.generation + 1 /\ state.running
          /\ UNCHANGED <<starts, signalled>>
        BY <1>3, <1>7 DEF Fails, Publish, State, Current
    <2>. QED  BY <1>1, <1>2, <1>3, <2>1 DEF Saved, Memory, Numbered, ResumedAfterCrash, requests
<1>. QED  BY <1>4, <1>5, <1>6, <1>7, RunnerSteps

LEMMA SavedRequest ==
    ASSUME Typed, Saved, RequestStep PROVE Saved'
<1>1. /\ starts \in Nat /\ control.generation \in Nat /\ state \in State
    BY SchedulerAssumption, PlanKnown DEF Typed
<1>2. CASE \E plan \in Plan : StartCheck(plan)
    BY <1>2 DEF StartCheck, Saved, Memory, Numbered, ResumedAfterCrash, history
<1>3. CASE \E a \in Account : ManualCreate(a)
    BY <1>3 DEF ManualCreate, Saved, Memory, Numbered, ResumedAfterCrash, history, requests
<1>4. CASE \E a \in Account : DeleteCheck(a) \/ Delete(a)
    BY <1>4 DEF DeleteCheck, Delete, Saved, Memory, Numbered, ResumedAfterCrash, history
<1>5. CASE Start
    <2>1. CASE state.running
        BY <1>5, <2>1 DEF Start, Saved, Memory, Numbered, ResumedAfterCrash
    <2>2. CASE ~state.running
        <3>1. /\ disk' = state' /\ state'.running /\ wanted' /\ starts' = starts + 1
              /\ control'.generation = control.generation + 1 /\ process' = process
              /\ starting' = <<>> /\ process # "down"
            <4>1. /\ Publish([Fresh EXCEPT !.running = TRUE, !.status = "running",
                                           !.accounts = starting])
                  /\ control' = [generation |-> control.generation + 1,
                                 cancel |-> control.generation + 1]
                  /\ wanted' = TRUE /\ starts' = starts + 1 /\ process' = process
                  /\ starting' = <<>> /\ process # "down"
                BY <1>5, <2>2 DEF Start
            <4>2. state'.running /\ disk' = state'
                BY <4>1 DEF Publish, Fresh
            <4>3. control'.generation = control.generation + 1
                BY <4>1
            <4>. QED  BY <4>1, <4>2, <4>3
        <3>. QED  BY <1>1, <3>1 DEF Saved, Memory, Numbered, ResumedAfterCrash
    <2>. QED  BY <2>1, <2>2
<1>6. CASE Stop
    <2>1. /\ disk' = state' /\ ~state'.running /\ ~wanted' /\ process' = process
          /\ control'.generation = control.generation + 1 /\ state.running
          /\ UNCHANGED <<starts, signalled, starting>> /\ process # "down"
        BY <1>1, <1>6 DEF Stop, Publish, State, requests
    <2>. QED  BY <1>1, <2>1 DEF Saved, Memory, Numbered, ResumedAfterCrash
<1>. QED  BY <1>2, <1>3, <1>4, <1>5, <1>6 DEF RequestStep

LEMMA SavedCreate ==
    ASSUME Typed, Saved, NEW k \in Keys, TakeCreateMu(k) \/ CreateStep(k) PROVE Saved'
<1>1. /\ UNCHANGED <<process, control>> /\ UNCHANGED requests /\ UNCHANGED history
      /\ call[k].pc # "none"
    BY DEF TakeCreateMu, CreateStep, Answer, Save
<1>2. process # "down" /\ disk = state /\ state \in State
    BY <1>1 DEF Saved, Memory, Typed
<1>3. \/ UNCHANGED <<state, disk>>
      \/ Return(k, "ok") \/ Return(k, "error")
    BY DEF TakeCreateMu, CreateStep, Answer, Save
<1>4. disk' = state' /\ state'.running = state.running
    BY <1>2, <1>3 DEF Return, Publish, State
<1>. QED  BY <1>1, <1>2, <1>4 DEF Saved, Memory, Numbered, ResumedAfterCrash, history, requests

LEMMA SavedWorld ==
    ASSUME Typed, Saved, TimePasses \/ Signal \/ Exit \/ Boot PROVE Saved'
<1>1. starts \in Nat /\ state \in State /\ disk \in State /\ runner \in [Generation -> Runner]
    BY SchedulerAssumption DEF Typed
<1>2. CASE TimePasses
    <2>1. /\ state'.running = state.running /\ disk'.running = disk.running
          /\ disk = state => disk' = state'
        BY <1>1, <1>2 DEF TimePasses, State
    <2>2. ASSUME NEW g \in Generation PROVE runner'[g].pc = runner[g].pc
        BY <1>1, <1>2 DEF TimePasses, Runner
    <2>. QED  BY <1>2, <2>1, <2>2
              DEF TimePasses, Saved, Memory, Numbered, ResumedAfterCrash, history, requests
<1>3. CASE Signal
    BY <1>3 DEF Signal, Saved, Memory, Numbered, ResumedAfterCrash, requests
<1>4. CASE Exit
    <2>1. /\ process' = "down" /\ ~state'.running
          /\ control'.generation = 0 /\ control'.cancel = 0
          /\ \A g \in Generation : runner'[g].pc = "none"
          /\ \A k \in Keys : call'[k].pc = "none"
          /\ UNCHANGED <<disk, starts, wanted, signalled>> /\ starting' = <<>>
        BY <1>4 DEF Exit, Fresh, NoRunner, NoCall, Keys
    <2>. QED  BY <1>1, <2>1 DEF Saved, Memory, Numbered, ResumedAfterCrash
<1>5. CASE Boot
    <2>1. CASE disk.running
        <3>1. /\ disk' = state' /\ state'.running /\ control'.generation = 1
              /\ process' = "up" /\ UNCHANGED history /\ UNCHANGED requests
            BY <1>1, <1>5, <2>1 DEF Boot, Publish, State
        <3>. QED  BY <1>1, <2>1, <3>1 DEF Saved, Memory, Numbered, ResumedAfterCrash, history, requests
    <2>2. CASE ~disk.running
        BY <1>5, <2>2 DEF Boot, Saved, Memory, Numbered, ResumedAfterCrash, history, requests
    <2>. QED  BY <2>1, <2>2
<1>. QED  BY <1>2, <1>3, <1>4, <1>5

---------------------------------------------------------------------------
(* The goroutines                                                           *)

\* A row that stays, with the run it is part of.
LEMMA StillPlaced ==
    ASSUME NEW h \in Generation, Placed(h),
           runner'[h].pc = runner[h].pc, runner'[h].todo = runner[h].todo,
           runner'[h].timer = runner[h].timer, runner'[h].start = runner[h].start,
           runner'[h].cancelled = runner[h].cancelled,
           call'[h].pc # "none" => call[h].pc # "none",
           control' = control, state'.running = state.running,
           state'.next = state.next \/ state'.next # "future",
           starts' = starts, signalled' = signalled
    PROVE  Placed(h)'
<1>1. /\ Live(h)' <=> Live(h)
      /\ Current(h)' <=> Current(h)
    BY DEF Live, Current
<1>2. Born(h)' /\ Called(h)'
    BY DEF Placed, Born, Called
<1>3. Singular(h)' /\ Own(h)' /\ Planned(h)'
    BY <1>1 DEF Placed, Singular, Own, Planned
<1>4. Ended(h)'
    BY <1>1 DEF Placed, Ended
<1>. QED  BY <1>2, <1>3, <1>4 DEF Placed

\* When no run goes on, no goroutine may still work.
LEMMA StoppedPlaced ==
    ASSUME NEW h \in Generation, ~state'.running, Born(h)', Called(h)', ~(Live(h)')
    PROVE  Placed(h)'
BY DEF Placed, Singular, Ended, Own, Planned, Current

LEMMA PlacedRunner ==
    ASSUME Typed, Saved, Runners, NEW g \in Generation, NEW h \in Generation, RunnerStep(g)
    PROVE  Placed(h)'
<1>1. runner[g].pc \notin {"none", "create", "done"}
    BY RunnerSteps
<1>2. Placed(g) /\ Placed(h) /\ call[g].pc = "none"
    BY <1>1 DEF Runners, Placed, Called
<1>3. /\ state \in State /\ runner \in [Generation -> Runner]
      /\ control.generation \in Nat /\ Generation \subseteq Nat
    BY PlanKnown DEF Typed
<1>4. CASE Ends(g)
    <2>1. /\ runner'[h].pc = IF h = g THEN "done" ELSE runner[h].pc
          /\ runner'[h].timer = runner[h].timer /\ runner'[h].todo = runner[h].todo
          /\ runner'[h].start = runner[h].start /\ runner'[h].cancelled = runner[h].cancelled
        <3>1. "done" \in RunnerPc /\ GoTo(g, "done")
            BY <1>4 DEF RunnerPc, Ends, Finish
        <3>. QED  BY <3>1, GoToDoes
    <2>2. UNCHANGED call /\ UNCHANGED history
        BY <1>4 DEF Ends
    <2>3. CASE Current(g)
        <3>1. ~state'.running /\ control'.generation = control.generation
            BY <1>4, <2>3, FinishDoes DEF Ends
        <3>2. Born(h)' /\ Called(h)'
            BY <1>1, <1>2, <2>1, <2>2, <3>1 DEF Placed, Born, Called
        <3>3. ~(Live(h)')
            BY <1>2, <2>1, <2>3 DEF Placed, Singular, Live, Current, Ends
        <3>. QED  BY <3>1, <3>2, <3>3, StoppedPlaced
    <2>4. CASE ~Current(g)
        <3>1. UNCHANGED <<state, disk, control>>
            BY <1>4, <2>4, FinishDoes DEF Ends
        <3>2. CASE h # g
            BY <1>2, <2>1, <2>2, <3>1, <3>2, StillPlaced DEF history
        <3>3. CASE h = g
            <4>1. ~(Current(g)') /\ ~(Live(g)')
                BY <2>1, <2>4, <3>1, <3>3 DEF Current, Live
            <4>2. Born(g)' /\ Called(g)'
                BY <1>1, <1>2, <2>1, <2>2, <3>1, <3>3 DEF Placed, Born, Called
            <4>. QED  BY <3>3, <4>1, <4>2 DEF Placed, Singular, Ended, Own, Planned
        <3>. QED  BY <3>2, <3>3
    <2>. QED  BY <2>3, <2>4
<1>5. CASE Moves(g)
    <2>1. PICK pc \in RunnerPc :
            /\ GoTo(g, pc)
            /\ h # g => call'[h] = call[h]
            /\ pc \notin {"none", "wait"} /\ (pc \in {"create", "error"} => runner[g].todo # <<>>)
            /\ pc # "ok"
            /\ pc # "create" => call' = call
            /\ pc = "done" => ~Current(g)
            /\ runner[g].pc = "wait" => runner[g].timer # "future"
        BY <1>1, <1>5 DEF Moves, RunnerPc
    <2>2. /\ runner'[h].pc = IF h = g THEN pc ELSE runner[h].pc
          /\ runner'[h].timer = runner[h].timer /\ runner'[h].todo = runner[h].todo
          /\ runner'[h].start = runner[h].start /\ runner'[h].cancelled = runner[h].cancelled
        BY <2>1, GoToDoes
    <2>3. UNCHANGED <<state, disk, control>> /\ UNCHANGED history
        BY <1>5 DEF Moves
    <2>4. CASE h # g
        BY <1>2, <2>1, <2>2, <2>3, <2>4, StillPlaced DEF history
    <2>5. CASE h = g
        <3>1. Current(g)' <=> Current(g)
            BY <2>3 DEF Current
        <3>2. Live(g)' => Live(g)
            BY <1>1, <2>2, <2>5 DEF Live
        <3>3. Born(g)' /\ Called(g)'
            BY <1>1, <1>2, <2>1, <2>2, <2>3, <2>5 DEF Placed, Born, Called
        <3>4. Singular(g)' /\ Own(g)'
            BY <1>2, <2>2, <2>3, <2>5, <3>1, <3>2 DEF Placed, Singular, Own, history
        <3>5. Ended(g)'
            BY <1>2, <2>2, <2>3, <2>5, <3>1 DEF Placed, Ended, history
        <3>6. Planned(g)'
            BY <1>2, <2>1, <2>2, <2>3, <2>5, <3>1 DEF Placed, Planned
        <3>. QED  BY <2>5, <3>3, <3>4, <3>5, <3>6 DEF Placed
    <2>. QED  BY <2>4, <2>5
<1>6. CASE Begins(g) \/ Waits(g) \/ Succeeds(g)
    <2>1. /\ UNCHANGED <<control, call>> /\ UNCHANGED history
          /\ state'.running = state.running /\ Current(g)
          /\ runner'[h].start = runner[h].start /\ runner'[h].cancelled = runner[h].cancelled
          /\ h # g => runner'[h] = runner[h]
          /\ runner'[g].pc \in {"each", "wait", "after", "pause"}
          /\ runner'[g].start = runner[g].start
          /\ runner'[g].cancelled = runner[g].cancelled
        <3>1. CASE Begins(g)
            BY <1>3, <3>1 DEF Begins, Publish, State, Runner
        <3>2. CASE Waits(g)
            BY <1>3, <3>2 DEF Waits, Publish, State, Runner
        <3>3. CASE Succeeds(g)
            BY <1>3, <3>3 DEF Succeeds, Publish, State, Runner
        <3>. QED  BY <1>6, <3>1, <3>2, <3>3
    <2>2. \/ state'.next # "future"
          \/ runner'[g].pc = "wait" /\ runner'[g].timer = "future"
        <3>1. CASE Begins(g)
            BY <1>3, <3>1 DEF Begins, Publish, State
        <3>2. CASE Waits(g)
            BY <1>3, <3>2 DEF Waits, Runner
        <3>3. CASE Succeeds(g)
            BY <1>2, <1>3, <2>1, <3>3 DEF Succeeds, Publish, State, Placed, Planned
        <3>. QED  BY <1>6, <3>1, <3>2, <3>3
    <2>3. Current(h)' <=> Current(h)
        BY <2>1 DEF Current
    <2>4. Live(h)' => Live(h)
        BY <1>1, <2>1 DEF Live
    <2>5. Born(h)' /\ Called(h)'
        BY <1>1, <1>2, <2>1 DEF Placed, Born, Called
    <2>6. Singular(h)' /\ Own(h)'
        BY <1>2, <2>1, <2>3, <2>4 DEF Placed, Singular, Own, history
    <2>7. Ended(h)'
        BY <1>2, <2>1, <2>3 DEF Placed, Ended, history
    <2>8. Planned(h)'
        BY <2>1, <2>2, <2>3 DEF Planned, Current
    <2>. QED  BY <2>5, <2>6, <2>7, <2>8 DEF Placed
<1>7. CASE Fails(g)
    <2>1. control.cancel \in {0} \cup Generation /\ g = control.generation
        BY <1>7 DEF Typed, Fails, Current
    <2>2. /\ runner'[h].pc = IF h = g THEN "after" ELSE runner[h].pc
          /\ runner'[h].todo = runner[h].todo
          /\ runner'[h].cancelled <=> (runner[h].cancelled \/ control.cancel = h)
        <3>1. PICK f : f = CancelRunner(control.cancel)
            OBVIOUS
        <3>2. /\ f \in [Generation -> Runner]
              /\ f[h].pc = runner[h].pc /\ f[h].todo = runner[h].todo
              /\ f[h].cancelled <=> (runner[h].cancelled \/ control.cancel = h)
            BY <2>1, <3>1, CancelledRunners
        <3>3. runner' = [f EXCEPT ![g].pc = "after"]
            BY <1>7, <3>1 DEF Fails
        <3>. QED  BY <3>2, <3>3 DEF Runner
    <2>3. UNCHANGED call /\ ~state'.running /\ control'.generation = control.generation + 1
        BY <1>3, <1>7, <2>1 DEF Fails, Publish, State
    <2>4. Born(h)' /\ Called(h)'
        BY <1>1, <1>2, <1>3, <2>1, <2>2, <2>3 DEF Placed, Born, Called
    <2>5. ~(Live(h)')
        BY <1>1, <1>2, <2>2 DEF Placed, Singular, Live
    <2>. QED  BY <2>3, <2>4, <2>5, StoppedPlaced
<1>. QED  BY <1>4, <1>5, <1>6, <1>7, RunnerSteps

LEMMA PlacedRequest ==
    ASSUME Typed, Saved, Runners, NEW h \in Generation, RequestStep PROVE Placed(h)'
<1>1. /\ Placed(h) /\ state \in State /\ runner \in [Generation -> Runner]
      /\ control.generation \in Nat /\ Generation \subseteq Nat \ {0}
      /\ h \in Keys /\ h # Manual /\ starts \in Nat
    BY PlanKnown, SchedulerAssumption DEF Runners, Typed, Keys, Manual
<1>2. CASE \/ \E plan \in Plan : StartCheck(plan)
           \/ \E a \in Account : ManualCreate(a) \/ DeleteCheck(a) \/ Delete(a)
    <2>1. UNCHANGED <<state, control, runner>> /\ UNCHANGED history /\ call'[h] = call[h]
        BY <1>1, <1>2 DEF StartCheck, ManualCreate, DeleteCheck, Delete, Typed
    <2>. QED  BY <1>1, <2>1, StillPlaced DEF history
<1>3. CASE Start
    <2>1. CASE state.running
        BY <1>1, <1>3, <2>1, StillPlaced DEF Start
    <2>2. CASE ~state.running
        <3>. DEFINE g == control.generation + 1
                    begun == [NoRunner EXCEPT !.pc = "round", !.accounts = starting,
                                    !.cancelled = (process = "closing"), !.start = starts + 1]
        <3>1. /\ Publish([Fresh EXCEPT !.running = TRUE, !.status = "running",
                                       !.accounts = starting])
              /\ control' = [generation |-> g, cancel |-> g]
              /\ runner' = [runner EXCEPT ![g] = begun]
              /\ starts' = starts + 1 /\ call' = call
            BY <1>3, <2>2 DEF Start
        <3>2. signalled' <=> process = "closing"
            BY <1>3, <2>2 DEF Start
        <3>3. state'.running /\ state'.next = "zero"
            BY <3>1 DEF Publish, Fresh
        <3>4. control'.generation = g /\ control'.cancel = g /\ g \in Nat
            BY <1>1, <3>1
        <3>5. ~Live(h)
            BY <1>1, <2>2 DEF Placed, Singular, Current
        <3>6. CASE h # g
            <4>1. runner'[h] = runner[h]
                BY <1>1, <3>1, <3>6
            <4>2. ~(Current(h)') /\ ~(Live(h)')
                BY <3>4, <3>5, <3>6, <4>1 DEF Current, Live
            <4>3. Born(h)' /\ Called(h)'
                BY <1>1, <3>1, <3>4, <4>1 DEF Placed, Born, Called
            <4>. QED  BY <4>2, <4>3 DEF Placed, Singular, Ended, Own, Planned
        <3>7. CASE h = g
            <4>1. /\ begun.pc = "round" /\ begun.start = starts + 1
                  /\ begun.cancelled <=> process = "closing"
                BY DEF NoRunner
            <4>2. runner'[h] = begun
                BY <1>1, <3>1, <3>7
            <4>. HIDE DEF begun
            <4>3. Current(h)' /\ control'.cancel = h
                BY <3>3, <3>4, <3>7 DEF Current
            <4>4. call[h].pc = "none"
                <5>1. ~(h <= control.generation)
                    BY <1>1, <3>7
                <5>. QED  BY <1>1, <5>1 DEF Placed, Born, Called
            <4>5. Born(h)' /\ Called(h)'
                BY <1>1, <3>1, <3>4, <3>7, <4>1, <4>2, <4>4 DEF Born, Called
            <4>6. Singular(h)' /\ Own(h)' /\ Planned(h)'
                BY <3>1, <3>3, <4>1, <4>2, <4>3 DEF Singular, Own, Planned
            <4>7. Ended(h)'
                BY <3>2, <4>1, <4>2 DEF Ended
            <4>. QED  BY <4>5, <4>6, <4>7 DEF Placed
        <3>. QED  BY <3>6, <3>7
    <2>. QED  BY <2>1, <2>2
<1>4. CASE Stop
    <2>1. control.cancel \in {0} \cup Generation
        BY DEF Typed
    <2>2. /\ runner'[h].pc = runner[h].pc /\ runner'[h].todo = runner[h].todo
          /\ runner'[h].cancelled <=> (runner[h].cancelled \/ control.cancel = h)
        BY <1>4, <2>1, CancelledRunners DEF Stop
    <2>3. UNCHANGED call /\ ~state'.running /\ control'.generation = control.generation + 1
        BY <1>1, <1>4 DEF Stop, Publish, State
    <2>4. Born(h)' /\ Called(h)'
        BY <1>1, <2>2, <2>3 DEF Placed, Born, Called
    <2>5. ~(Live(h)')
        BY <1>1, <2>2 DEF Placed, Singular, Live
    <2>. QED  BY <2>3, <2>4, <2>5, StoppedPlaced
<1>. QED  BY <1>2, <1>3, <1>4 DEF RequestStep

LEMMA PlacedCreate ==
    ASSUME Typed, Runners, NEW k \in Keys, NEW h \in Generation,
           TakeCreateMu(k) \/ CreateStep(k)
    PROVE  Placed(h)'
<1>1. /\ Placed(h) /\ state \in State /\ runner \in [Generation -> Runner]
      /\ call \in [Keys -> Call] /\ h \in Keys /\ h # Manual
    BY PlanKnown DEF Runners, Typed, Keys, Manual
<1>2. UNCHANGED control /\ UNCHANGED history /\ call[k].pc # "none"
    BY DEF TakeCreateMu, CreateStep, Answer, Save
<1>3. CASE UNCHANGED <<state, disk, runner>> /\ \E pc \in CallPcs : call' = [call EXCEPT ![k].pc = pc]
    <2>1. call'[h].pc # "none" => call[h].pc # "none"
        BY <1>1, <1>2, <1>3 DEF Call
    <2>. QED  BY <1>1, <1>2, <1>3, <2>1, StillPlaced DEF history
<1>4. ASSUME NEW result \in {"ok", "error"}, Return(k, result) PROVE Placed(h)'
    <2>1. /\ call' = [call EXCEPT ![k] = NoCall]
          /\ call'[h].pc # "none" => call[h].pc # "none"
        BY <1>1, <1>4, PlanKnown DEF Return
    <2>2. CASE k = Manual
        <3>1. state'.running = state.running /\ state'.next = state.next /\ UNCHANGED runner
            BY <1>1, <1>4, <2>2 DEF Return, Publish, State
        <3>. QED  BY <1>1, <1>2, <2>1, <3>1, StillPlaced DEF history
    <2>3. CASE k # Manual
        <3>1. k \in Generation /\ result \in RunnerPc
            BY <2>3 DEF Keys, RunnerPc
        <3>2. GoTo(k, result) /\ UNCHANGED <<state, disk>>
            BY <1>4, <2>3 DEF Return
        <3>3. /\ runner'[h].pc = IF h = k THEN result ELSE runner[h].pc
              /\ runner'[h].timer = runner[h].timer /\ runner'[h].todo = runner[h].todo
              /\ runner'[h].start = runner[h].start /\ runner'[h].cancelled = runner[h].cancelled
            BY <3>1, <3>2, GoToDoes
        <3>4. CASE h # k
            BY <1>1, <1>2, <2>1, <3>2, <3>3, <3>4, StillPlaced DEF history
        <3>5. CASE h = k
            <4>1. runner[h].pc = "create" /\ runner[h].todo # <<>>
                BY <1>1, <1>2, <3>5 DEF Placed, Called
            <4>2. call'[h].pc = "none"
                BY <1>1, <2>1, <3>5, PlanKnown
            <4>3. /\ Current(h)' <=> Current(h)
                  /\ Live(h)' => Live(h)
                BY <1>2, <3>2, <3>3, <4>1 DEF Current, Live
            <4>4. Born(h)' /\ Called(h)'
                BY <1>1, <1>2, <3>3, <4>1, <4>2 DEF Placed, Born, Called
            <4>5. Singular(h)' /\ Own(h)' /\ Planned(h)'
                BY <1>1, <1>2, <3>2, <3>3, <4>1, <4>3 DEF Placed, Singular, Own, Planned, history
            <4>6. Ended(h)'
                BY <1>1, <1>2, <3>3, <4>3 DEF Placed, Ended, history
            <4>. QED  BY <4>4, <4>5, <4>6 DEF Placed
        <3>. QED  BY <3>4, <3>5
    <2>. QED  BY <2>2, <2>3
<1>5. {"first", "second", "saving"} \subseteq CallPcs
    BY DEF CallPcs
<1>6. CASE TakeCreateMu(k)
    BY <1>3, <1>4, <1>5, <1>6 DEF TakeCreateMu
<1>7. CASE Answer(k)
    BY <1>3, <1>4, <1>5, <1>7 DEF Answer
<1>8. CASE Save(k)
    BY <1>4, <1>8 DEF Save
<1>. QED  BY <1>6, <1>7, <1>8 DEF CreateStep

LEMMA PlacedWorld ==
    ASSUME Typed, Saved, Runners, NEW h \in Generation, TimePasses \/ Signal \/ Exit \/ Boot
    PROVE  Placed(h)'
<1>1. /\ Placed(h) /\ state \in State /\ disk \in State /\ runner \in [Generation -> Runner]
      /\ Generation \subseteq Nat \ {0} /\ h \in Keys
    BY PlanKnown DEF Runners, Typed, Keys
<1>2. CASE TimePasses
    <2>1. /\ state'.running = state.running /\ state'.next = Pass(state.next)
          /\ UNCHANGED <<control, call>> /\ UNCHANGED history
        BY <1>1, <1>2 DEF TimePasses, State
    <2>2. /\ runner'[h].pc = runner[h].pc /\ runner'[h].todo = runner[h].todo
          /\ runner'[h].start = runner[h].start /\ runner'[h].cancelled = runner[h].cancelled
        BY <1>1, <1>2 DEF TimePasses, Runner
    <2>3. state'.next # "future"
        BY <2>1 DEF Pass
    <2>4. /\ Live(h)' <=> Live(h)
          /\ Current(h)' <=> Current(h)
        BY <2>1, <2>2 DEF Live, Current
    <2>5. Born(h)' /\ Called(h)'
        BY <1>1, <2>1, <2>2 DEF Placed, Born, Called
    <2>6. Singular(h)' /\ Own(h)' /\ Planned(h)'
        BY <1>1, <2>1, <2>2, <2>3, <2>4 DEF Placed, Singular, Own, Planned, history
    <2>7. Ended(h)'
        BY <1>1, <2>1, <2>2, <2>4 DEF Placed, Ended, history
    <2>. QED  BY <2>5, <2>6, <2>7 DEF Placed
<1>3. CASE Signal
    <2>1. /\ UNCHANGED <<state, control, call, starts>>
        BY <1>3 DEF Signal
    <2>2. /\ runner'[h].pc = runner[h].pc /\ runner'[h].todo = runner[h].todo
          /\ runner'[h].start = runner[h].start /\ runner'[h].timer = runner[h].timer
        BY <1>1, <1>3 DEF Signal, Runner
    <2>3. runner'[h].cancelled <=> runner[h].pc # "none"
        BY <1>1, <1>3 DEF Signal, Runner
    <2>4. Current(h)' <=> Current(h)
        BY <2>1 DEF Current
    <2>5. ~(Live(h)')
        BY <2>2, <2>3 DEF Live
    <2>6. Ended(h)'
        BY <1>3 DEF Signal, Ended
    <2>7. Born(h)' /\ Called(h)'
        BY <1>1, <2>1, <2>2 DEF Placed, Born, Called
    <2>8. Singular(h)' /\ Own(h)' /\ Planned(h)'
        BY <1>1, <2>1, <2>2, <2>4, <2>5 DEF Placed, Singular, Own, Planned
    <2>. QED  BY <2>6, <2>7, <2>8 DEF Placed
<1>4. CASE Exit
    <2>1. runner'[h].pc = "none" /\ call'[h].pc = "none" /\ ~state'.running
        BY <1>1, <1>4, PlanKnown DEF Exit, Fresh, NoRunner, Keys
    <2>2. Born(h)' /\ Called(h)' /\ ~(Live(h)')
        BY <2>1 DEF Born, Called, Live
    <2>. QED  BY <2>1, <2>2, StoppedPlaced
<1>5. CASE Boot
    <2>1. /\ runner[h].pc = "none" /\ call[h].pc = "none" /\ call' = call
          /\ ~state.running /\ control.generation = 0
        BY <1>1, <1>5 DEF Boot, Saved, Memory
    <2>2. CASE disk.running
        <3>. DEFINE resumed == [NoRunner EXCEPT !.pc = "wait", !.accounts = disk.accounts,
                                                !.timer = disk.next, !.start = starts]
        <3>1. /\ Publish([disk EXCEPT !.status = "recovering"])
              /\ control' = [generation |-> 1, cancel |-> 1]
              /\ runner' = [runner EXCEPT ![1] = resumed] /\ UNCHANGED history
            BY <1>5, <2>2 DEF Boot
        <3>2. /\ resumed.pc = "wait" /\ resumed.timer = disk.next
              /\ resumed.start = starts /\ resumed.cancelled = FALSE
            BY DEF NoRunner
        <3>. HIDE DEF resumed
        <3>3. state'.running /\ state'.next = disk.next
            BY <1>1, <2>2, <3>1 DEF Publish, State
        <3>4. CASE h # 1
            <4>1. runner'[h] = runner[h]
                BY <1>1, <3>1, <3>4
            <4>2. ~(Current(h)') /\ ~(Live(h)')
                BY <2>1, <3>1, <3>4, <4>1 DEF Current, Live
            <4>3. Born(h)' /\ Called(h)'
                BY <2>1, <4>1 DEF Born, Called
            <4>. QED  BY <4>2, <4>3 DEF Placed, Singular, Ended, Own, Planned
        <3>5. CASE h = 1
            <4>1. runner'[h] = resumed
                BY <1>1, <3>1, <3>5
            <4>2. Current(h)' /\ control'.cancel = h
                BY <3>1, <3>3, <3>5 DEF Current
            <4>3. Born(h)' /\ Called(h)'
                BY <2>1, <3>1, <3>2, <3>5, <4>1 DEF Born, Called
            <4>4. Singular(h)' /\ Own(h)' /\ Planned(h)'
                BY <3>1, <3>2, <3>3, <4>1, <4>2 DEF Singular, Own, Planned, history
            <4>5. Ended(h)'
                BY <3>2, <4>1 DEF Ended
            <4>. QED  BY <4>3, <4>4, <4>5 DEF Placed
        <3>. QED  BY <3>4, <3>5
    <2>3. CASE ~disk.running
        <3>1. runner' = runner /\ state' = disk /\ control' = control
            BY <1>5, <2>3 DEF Boot
        <3>2. ~state'.running /\ ~(Live(h)') /\ Born(h)' /\ Called(h)'
            BY <2>1, <2>3, <3>1 DEF Live, Born, Called
        <3>. QED  BY <3>2, StoppedPlaced
    <2>. QED  BY <2>2, <2>3
<1>. QED  BY <1>2, <1>3, <1>4, <1>5

---------------------------------------------------------------------------
(* Theorems                                                                 *)

LEMMA InvariantInit == Init => IInv
<1>. SUFFICES ASSUME Init PROVE IInv
    OBVIOUS
<1>1. /\ state = Fresh /\ disk = Fresh /\ process = "up" /\ starts = 0
      /\ control.generation = 0 /\ starting = <<>> /\ wanted = FALSE
    BY DEF Init
<1>2. Memory /\ Numbered /\ ResumedAfterCrash
    BY <1>1 DEF Memory, Numbered, ResumedAfterCrash, Fresh
<1>3. ASSUME NEW g \in Generation PROVE Placed(g)
    <2>1. runner[g].pc = "none" /\ call[g].pc = "none" /\ ~state.running
        <3>1. g \in {Manual} \cup Generation
            OBVIOUS
        <3>2. runner[g] = NoRunner /\ call[g] = NoCall
            BY <3>1 DEF Init
        <3>3. ~state.running
            BY <1>1 DEF Fresh
        <3>4. runner[g].pc = "none"
            BY <3>2 DEF NoRunner
        <3>5. call[g].pc = "none"
            BY <3>2, PlanKnown
        <3>. QED  BY <3>3, <3>4, <3>5
    <2>. QED  BY <2>1 DEF Placed, Born, Called, Singular, Live, Ended, Own, Planned, Current
<1>. QED  BY <1>2, <1>3, TypedInit DEF IInv, Runners

LEMMA InvariantStep == IInv /\ [Next]_vars => IInv'
<1>. SUFFICES ASSUME IInv, [Next]_vars PROVE IInv'
    OBVIOUS
<1>1. Typed /\ Saved /\ Runners /\ \A g \in Generation : Ended(g)
    BY DEF IInv, Saved, Runners, Placed
<1>2. Typed'
    BY <1>1, TypedStep DEF Saved
<1>3. CASE UNCHANGED vars
    <2>1. Saved' /\ Runners'
        BY <1>1, <1>3 DEF vars, Saved, Memory, Numbered, ResumedAfterCrash, Runners, Placed, Born,
            Called, Singular, Live, Ended, Own, Planned, Current
    <2>. QED  BY <1>2, <2>1 DEF IInv, Saved
<1>4. CASE Next
    <2>1. Saved'
        BY <1>1, <1>4, SavedRequest, SavedRunner, SavedCreate, SavedWorld DEF Next, Keys
    <2>2. ASSUME NEW h \in Generation PROVE Placed(h)'
        BY <1>1, <1>4, PlacedRequest, PlacedRunner, PlacedCreate, PlacedWorld DEF Next, Keys
    <2>. QED  BY <1>2, <2>1, <2>2 DEF IInv, Saved, Runners
<1>. QED  BY <1>3, <1>4

LEMMA Invariance == Spec => []IInv
BY InvariantInit, InvariantStep, PTL DEF Spec

\* Every variable keeps its type: in particular no run ever needs a generation
\* beyond two for each start, and Record never takes the tail of an empty list.
THEOREM TypeCorrect == Spec => []TypeOK
<1>1. IInv => TypeOK
    BY DEF IInv, Typed, TypeOK, Keys, Call, CallPcs
<1>. QED  BY <1>1, Invariance, PTL

\* Start, Resume, Stop and a failed creation never leave two goroutines at
\* work, nor a current one that Stop would not reach.
THEOREM OneGoroutine == Spec => []OneLiveRunner
<1>1. IInv => OneLiveRunner
    BY DEF IInv, Runners, Placed, Singular, OneLiveRunner, Current
<1>. QED  BY <1>1, Invariance, PTL

\* What SaveRuntimeState has on disk at any end of the process: a run that was
\* stopped or failed is not resumed, and one that was not is, unless a
\* termination signal let finish end it.
THEOREM ResumedRight == Spec => []ResumedAfterCrash
<1>1. IInv => ResumedAfterCrash
    BY DEF IInv
<1>. QED  BY <1>1, Invariance, PTL

\* A goroutine that is about to begin a round or to record a result is moved
\* by its own step only, or ends with the process.
LEMMA OwnStep ==
    ASSUME Typed, Saved, Runners, NEW g \in Generation, Next,
           runner[g].pc \in {"round", "ok", "error"}, runner'[g].pc # runner[g].pc
    PROVE  RunnerStep(g) \/ (process' = "down" /\ runner'[g].pc = "none")
<1>1. /\ runner \in [Generation -> Runner] /\ g <= control.generation
      /\ control.generation \in Nat /\ Generation \subseteq Nat /\ process # "down"
    BY PlanKnown DEF Typed, Runners, Placed, Born, Saved, Memory
<1>2. CASE RequestStep
    <2>1. CASE Start
        <3>1. g # control.generation + 1
            BY <1>1
        <3>2. runner'[g] = runner[g]
            BY <1>1, <2>1, <3>1 DEF Start
        <3>. QED  BY <3>2
    <2>2. CASE Stop
        <3>1. control.cancel \in {0} \cup Generation
            BY DEF Typed
        <3>. QED  BY <2>2, <3>1, CancelledRunners DEF Stop
    <2>. QED  BY <1>2, <2>1, <2>2 DEF RequestStep, StartCheck, ManualCreate, DeleteCheck, Delete
<1>3. CASE \E h \in Generation : RunnerStep(h)
    <2>1. PICK h \in Generation : RunnerStep(h)
        BY <1>3
    <2>2. ASSUME h # g PROVE runner'[g].pc = runner[g].pc
        <3>1. CASE Ends(h)
            <4>1. "done" \in RunnerPc /\ GoTo(h, "done")
                BY <3>1 DEF RunnerPc, Ends, Finish
            <4>. QED  BY <2>2, <4>1, GoToDoes
        <3>2. CASE Moves(h)
            <4>1. PICK pc \in RunnerPc : GoTo(h, pc)
                BY <3>2 DEF Moves, RunnerPc
            <4>. QED  BY <2>2, <4>1, GoToDoes
        <3>3. CASE Begins(h) \/ Waits(h) \/ Succeeds(h)
            BY <1>1, <2>2, <3>3 DEF Begins, Waits, Succeeds, Runner
        <3>4. CASE Fails(h)
            <4>1. PICK f : f = CancelRunner(control.cancel)
                OBVIOUS
            <4>2. f \in [Generation -> Runner] /\ f[g].pc = runner[g].pc
                BY <4>1, CancelledRunners DEF Typed
            <4>3. runner' = [f EXCEPT ![h].pc = "after"]
                BY <3>4, <4>1 DEF Fails
            <4>. QED  BY <2>2, <4>2, <4>3
        <3>. QED  BY <2>1, <3>1, <3>2, <3>3, <3>4, RunnerSteps
    <2>. QED  BY <2>1, <2>2
<1>4. CASE \E k \in Keys : TakeCreateMu(k) \/ CreateStep(k)
    <2>1. PICK k \in Keys : TakeCreateMu(k) \/ CreateStep(k)
        BY <1>4
    <2>2. call[k].pc # "none" /\ (runner' = runner \/ Return(k, "ok") \/ Return(k, "error"))
        BY <2>1 DEF TakeCreateMu, CreateStep, Answer, Save
    <2>3. CASE k = Manual
        BY <2>2, <2>3 DEF Return
    <2>4. CASE k # Manual
        <3>1. k \in Generation /\ {"ok", "error"} \subseteq RunnerPc
            BY <2>4 DEF Keys, RunnerPc
        <3>2. runner[k].pc = "create"
            BY <2>2, <3>1 DEF Runners, Placed, Called
        <3>3. runner' = runner \/ GoTo(k, "ok") \/ GoTo(k, "error")
            BY <2>2, <2>4 DEF Return
        <3>. QED  BY <3>1, <3>2, <3>3, GoToDoes
    <2>. QED  BY <2>3, <2>4
<1>5. CASE TimePasses \/ Signal
    BY <1>1, <1>5 DEF TimePasses, Signal, Runner
<1>6. CASE Exit
    BY <1>6 DEF Exit, NoRunner
<1>7. CASE Boot
    BY <1>1, <1>7 DEF Boot
<1>. QED  BY <1>2, <1>3, <1>4, <1>5, <1>6, <1>7 DEF Next, Keys

\* Across pauses, restarts and resumptions runRound begins no round before the
\* instant that was saved for it.
THEOREM RoundsOnTime == Spec => NoEarlyRound
<1>. DEFINE Step == \A g \in Generation : (runner[g].pc = "round" /\ runner'[g].pc = "each")
                        => state.next # "future"
<1>1. IInv /\ [Next]_vars => [Step]_vars
    <2>. SUFFICES ASSUME IInv, Next, NEW g \in Generation,
                         runner[g].pc = "round", runner'[g].pc = "each"
                  PROVE  state.next # "future"
        OBVIOUS
    <2>1. Typed /\ Saved /\ Runners /\ Placed(g)
        BY DEF IInv, Saved, Runners
    <2>2. RunnerStep(g)
        BY <2>1, OwnStep
    <2>3. Current(g)
        <3>1. CASE Ends(g)
            <4>1. "done" \in RunnerPc /\ GoTo(g, "done")
                BY <3>1 DEF RunnerPc, Ends, Finish
            <4>. QED  BY <2>1, <4>1, GoToDoes
        <3>2. CASE Moves(g)
            <4>1. PICK pc \in RunnerPc : GoTo(g, pc) /\ pc # "each"
                BY <3>2 DEF Moves, RunnerPc
            <4>. QED  BY <2>1, <4>1, GoToDoes
        <3>. QED  BY <2>1, <2>2, <3>1, <3>2, RunnerSteps DEF Begins, Waits, Succeeds, Fails
    <2>. QED  BY <2>1, <2>3 DEF Placed, Planned
<1>. QED  BY <1>1, Invariance, PTL DEF Spec, NoEarlyRound

\* A goroutine that Stop and Start have superseded while Create was under way
\* brings its result home without changing the counters of the new run.
THEOREM OwnRunCounted == Spec => CountsOwnRun
<1>. DEFINE Step == \A g \in Generation :
              (runner[g].pc \in {"ok", "error"} /\ runner'[g].pc # runner[g].pc
               /\ process' # "down"
               /\ <<state.success, state.failed>> # <<state.success, state.failed>>')
                  => runner[g].start = starts
<1>1. IInv /\ [Next]_vars => [Step]_vars
    <2>. SUFFICES ASSUME IInv, Next, NEW g \in Generation,
                         runner[g].pc \in {"ok", "error"}, runner'[g].pc # runner[g].pc,
                         process' # "down",
                         <<state.success, state.failed>> # <<state.success, state.failed>>'
                  PROVE  runner[g].start = starts
        OBVIOUS
    <2>1. Typed /\ Saved /\ Runners /\ Placed(g)
        BY DEF IInv, Saved, Runners
    <2>2. RunnerStep(g)
        BY <2>1, OwnStep
    <2>3. state' # state
        OBVIOUS
    <2>4. Current(g)
        BY <2>1, <2>2, <2>3, RunnerSteps, FinishDoes
           DEF Ends, Moves, Begins, Waits, Succeeds, Fails
    <2>. QED  BY <2>1, <2>4 DEF Placed, Own
<1>. QED  BY <1>1, Invariance, PTL DEF Spec, CountsOwnRun

==================================================================================
