------------------------------- MODULE Scheduler -------------------------------
(***************************************************************************)
(* The timed creation of mailboxes: internal/scheduler/service.go, the     *)
(* Create call of internal/mailbox/service.go it shares with the manual    *)
(* handler, the handlers that start, stop and delete, and process exit.    *)
(*                                                                         *)
(* Each Start or Resume begins a goroutine named by its generation.  Stop, *)
(* a failed creation and a shutdown cancel its context; the goroutine sees *)
(* that only where it looks, so several may be alive at once.  A critical  *)
(* section of Service.mu, which ends with SaveRuntimeState, is one step.   *)
(***************************************************************************)
EXTENDS Naturals, Sequences, Functions

CONSTANTS
    Account,    \* Apple accounts, each with a login session
    Plan,       \* account lists a configuration may hold, without repetitions
    Graceful,   \* whether a termination signal may arrive (else only crashes)
    MaxStarts,  \* bound on Start calls
    MaxCrashes, \* bound on process ends
    MaxCount    \* the counters stick at this value

ASSUME SchedulerAssumption ==
    /\ Plan \subseteq Seq(Account) \ {<<>>}
    /\ Graceful \in BOOLEAN
    /\ MaxStarts \in Nat /\ MaxCrashes \in Nat /\ MaxCount \in Nat

VARIABLES
    process,  \* "up", "closing" (signal received, exit imminent), "down"
    state,    \* Service.state
    control,  \* Service.generation, and whose context Service.cancel cancels
    disk,     \* runtime state "scheduler"
    runner,   \* the goroutines, by generation
    call,     \* Create calls: of runner g, or of the manual handler (0)
    createMu, \* holder of mailbox.Service.createMu
    account,  \* table apple_accounts (with its session)
    mailbox,  \* accounts that some mailbox row names
    starting, \* plan of a Start call that has checked its accounts
    deleting, \* accounts whose deletion has passed the scheduler check
    starts,   \* history: number of Start calls that began a run
    crashes,  \* number of process ends
    wanted,   \* history: started, not stopped since, and no creation failed
    signalled \* history: a termination signal came since the last start

vars == <<process, state, control, disk, runner, call, createMu, account,
          mailbox, starting, deleting, starts, crashes, wanted, signalled>>

\* A run and its end use a generation each; a restart begins again with 1, and
\* it resumes a run only if there was a start before it.
MaxGeneration == 2 * MaxStarts
Generation == 1 .. MaxGeneration
Manual == 0
Nobody == MaxGeneration + 1
Plans == Plan \cup {<<>>}

\* Instants matter only against the next round's: not set, ahead, or reached.
Instant == {"zero", "future", "past"}
State == [running: BOOLEAN,
          status: {"idle", "running", "recovering", "creating", "waiting", "stopped"},
          accounts: Plans, next: Instant,
          success: 0 .. MaxCount, failed: 0 .. MaxCount]
Fresh == [running |-> FALSE, status |-> "idle", accounts |-> <<>>, next |-> "zero",
          success |-> 0, failed |-> 0]
Runner == [pc: {"none", "wait", "round", "each", "create", "ok", "error", "pause",
                "after", "done"},
           accounts: Plans, todo: Seq(Account), timer: Instant,
           cancelled: BOOLEAN, start: 0 .. MaxStarts]
NoRunner == [pc |-> "none", accounts |-> <<>>, todo |-> <<>>, timer |-> "zero",
             cancelled |-> FALSE, start |-> 0]
NoCall == [pc |-> "none", account |-> ""]

Bump(n) == IF n < MaxCount THEN n + 1 ELSE n
Pass(instant) == IF instant = "future" THEN "past" ELSE instant

\* addEventLocked at the end of a critical section: memory and disk together.  The error of a
\* save, which the code ignores, is left out: every save succeeds.
Publish(new) == state' = new /\ disk' = new

Cancelled(k) == k # Manual /\ runner[k].cancelled
Current(g) == control.generation = g /\ state.running

requests == <<starting, deleting>>
tables == <<account, mailbox>>
history == <<starts, crashes, wanted, signalled>>

---------------------------------------------------------------------------
Init ==
    /\ process = "up"
    /\ state = Fresh
    /\ control = [generation |-> 0, cancel |-> 0]
    /\ disk = Fresh
    /\ runner = [g \in Generation |-> NoRunner]
    /\ call = [k \in {Manual} \cup Generation |-> NoCall]
    /\ createMu = Nobody
    /\ account = Account
    /\ mailbox = {}
    /\ starting = <<>>
    /\ deleting = {}
    /\ starts = 0
    /\ crashes = 0
    /\ wanted = FALSE
    /\ signalled = FALSE

\* Start, first part: every account and its session is looked up in the store.
StartCheck(plan) ==
    /\ process # "down"
    /\ starting = <<>>
    /\ starts < MaxStarts
    /\ Range(plan) \subseteq account
    /\ starting' = plan
    /\ UNCHANGED <<process, state, control, disk, runner, call, createMu, deleting>>
    /\ UNCHANGED tables /\ UNCHANGED history

\* Start, second part, under Service.mu.  The context descends from the
\* process's: after a signal it is born cancelled.
Start ==
    /\ process # "down"
    /\ starting # <<>>
    /\ starting' = <<>>
    /\ IF state.running
       THEN UNCHANGED <<state, control, disk, runner, starts, wanted, signalled>>
       ELSE LET g == control.generation + 1 IN
            /\ Publish([Fresh EXCEPT !.running = TRUE, !.status = "running",
                                     !.accounts = starting])
            /\ control' = [generation |-> g, cancel |-> g]
            /\ runner' = [runner EXCEPT ![g] =
                    [NoRunner EXCEPT !.pc = "round", !.accounts = starting,
                                     !.cancelled = (process = "closing"),
                                     !.start = starts + 1]]
            /\ starts' = starts + 1
            /\ wanted' = TRUE
            /\ signalled' = (process = "closing")
    /\ UNCHANGED <<process, call, createMu, deleting, crashes>> /\ UNCHANGED tables

CancelRunner(g) ==
    IF g = 0 THEN runner ELSE [runner EXCEPT ![g].cancelled = TRUE]

BugStopNoCancel ==
    /\ process # "down"
    /\ state.running
    /\ control' = [generation |-> control.generation + 1, cancel |-> 0]
    /\ Publish([state EXCEPT !.running = FALSE, !.status = "stopped"])
    /\ wanted' = FALSE
    /\ UNCHANGED <<process, runner, call, createMu, starts, crashes, signalled>>
    /\ UNCHANGED requests /\ UNCHANGED tables
BugStopStatus ==
    /\ process # "down"
    /\ state.running
    /\ runner' = CancelRunner(control.cancel)
    /\ control' = [generation |-> control.generation + 1, cancel |-> 0]
    /\ Publish([state EXCEPT !.running = FALSE, !.status = "stopped by hand"])
    /\ wanted' = FALSE
    /\ UNCHANGED <<process, call, createMu, starts, crashes, signalled>>
    /\ UNCHANGED requests /\ UNCHANGED tables
BugStopNotSaved ==
    /\ process # "down"
    /\ state.running
    /\ runner' = CancelRunner(control.cancel)
    /\ control' = [generation |-> control.generation + 1, cancel |-> 0]
    /\ state' = [state EXCEPT !.running = FALSE, !.status = "stopped"]
    /\ wanted' = FALSE
    /\ UNCHANGED <<process, disk, call, createMu, starts, crashes, signalled>>
    /\ UNCHANGED requests /\ UNCHANGED tables
\* Stop.  Of a stopped scheduler it only raises the generation, which no
\* goroutine can notice: not modelled as a step.
Stop ==
    /\ process # "down"
    /\ state.running
    /\ runner' = CancelRunner(control.cancel)
    /\ control' = [generation |-> control.generation + 1, cancel |-> 0]
    /\ Publish([state EXCEPT !.running = FALSE, !.status = "stopped"])
    /\ wanted' = FALSE
    /\ UNCHANGED <<process, call, createMu, starts, crashes, signalled>>
    /\ UNCHANGED requests /\ UNCHANGED tables

---------------------------------------------------------------------------
(* run and runRound of generation g                                         *)

GoTo(g, pc) == runner' = [runner EXCEPT ![g].pc = pc]

\* finish: only a shutdown reaches its body, Stop and failures having raised
\* the generation.
Finish(g) ==
    /\ GoTo(g, "done")
    /\ IF Current(g)
       THEN /\ Publish([state EXCEPT !.running = FALSE, !.status = "stopped"])
            /\ control' = [control EXCEPT !.cancel = 0]
       ELSE UNCHANGED <<state, disk, control>>

\* The timer before the next round, or before the first one of Resume.
Wait(g) ==
    /\ runner[g].pc = "wait"
    /\ \/ runner[g].cancelled /\ Finish(g)
       \/ runner[g].timer # "future" /\ GoTo(g, "round") /\ UNCHANGED <<state, disk, control>>
    /\ UNCHANGED <<process, call, createMu>>
    /\ UNCHANGED requests /\ UNCHANGED tables /\ UNCHANGED history

\* The top of run's loop and the first critical section of runRound.
BeginRound(g) ==
    /\ runner[g].pc = "round"
    /\ \/ /\ runner[g].cancelled
          /\ Finish(g)
       \/ /\ ~runner[g].cancelled
          /\ ~Current(g)
          /\ GoTo(g, "after")
          /\ UNCHANGED <<state, disk, control>>
       \/ /\ ~runner[g].cancelled
          /\ Current(g)
          /\ runner' = [runner EXCEPT ![g].pc = "each", ![g].todo = runner[g].accounts]
          /\ Publish([state EXCEPT !.status = "creating", !.next = "zero"])
          /\ UNCHANGED control
    /\ UNCHANGED <<process, call, createMu>>
    /\ UNCHANGED requests /\ UNCHANGED tables /\ UNCHANGED history

\* The loop over the accounts: the context is looked at, and Create reads the
\* session of the account.
Each(g) ==
    /\ runner[g].pc = "each"
    /\ IF runner[g].cancelled \/ runner[g].todo = <<>>
       THEN GoTo(g, "after") /\ UNCHANGED call
       ELSE LET a == Head(runner[g].todo) IN
            IF a \in account
            THEN /\ GoTo(g, "create")
                 /\ call' = [call EXCEPT ![g] = [pc |-> "queued", account |-> a]]
            ELSE GoTo(g, "error") /\ UNCHANGED call
    /\ UNCHANGED <<process, state, control, disk, createMu>>
    /\ UNCHANGED requests /\ UNCHANGED tables /\ UNCHANGED history

\* The critical section after Create.  A failure ends the run for good.
BugRecord(g) ==
    /\ runner[g].pc = "ok"
    /\ runner' = [runner EXCEPT ![g].todo = Tail(@),
                     ![g].pc = IF Len(runner[g].todo) = 1 THEN "after" ELSE "pause"]
    /\ Publish([state EXCEPT !.success = Bump(@)])
    /\ UNCHANGED <<process, control, call, createMu, starts, crashes, wanted, signalled>>
    /\ UNCHANGED requests /\ UNCHANGED tables
Record(g) ==
    /\ runner[g].pc \in {"ok", "error"}
    /\ \/ /\ ~Current(g)
          /\ GoTo(g, "after")
          /\ UNCHANGED <<state, disk, control, wanted>>
       \/ /\ Current(g) /\ runner[g].pc = "ok"
          /\ runner' = [runner EXCEPT ![g].todo = Tail(@),
                           ![g].pc = IF Len(runner[g].todo) = 1 THEN "after" ELSE "pause"]
          /\ Publish([state EXCEPT !.success = Bump(@)])
          /\ UNCHANGED <<control, wanted>>
       \/ /\ Current(g) /\ runner[g].pc = "error"
          /\ runner' = [CancelRunner(control.cancel) EXCEPT ![g].pc = "after"]
          /\ control' = [generation |-> g + 1, cancel |-> 0]
          /\ Publish([state EXCEPT !.failed = Bump(@), !.running = FALSE,
                                   !.status = "stopped", !.next = "zero"])
          /\ wanted' = FALSE
    /\ UNCHANGED <<process, call, createMu, starts, crashes, signalled>>
    /\ UNCHANGED requests /\ UNCHANGED tables

\* The pause between two accounts.
Pause(g) ==
    /\ runner[g].pc = "pause"
    /\ GoTo(g, IF runner[g].cancelled THEN "after" ELSE "each")
    /\ UNCHANGED <<process, state, control, disk, call, createMu>>
    /\ UNCHANGED requests /\ UNCHANGED tables /\ UNCHANGED history

\* After a round: the wait for the next one is planned and saved.
After(g) ==
    /\ runner[g].pc = "after"
    /\ \/ /\ runner[g].cancelled
          /\ Finish(g)
       \/ /\ ~runner[g].cancelled
          /\ ~Current(g)
          /\ GoTo(g, "done")
          /\ UNCHANGED <<state, disk, control>>
       \/ /\ ~runner[g].cancelled
          /\ Current(g)
          /\ runner' = [runner EXCEPT ![g].pc = "wait", ![g].timer = "future"]
          /\ Publish([state EXCEPT !.status = "waiting", !.next = "future"])
          /\ UNCHANGED control
    /\ UNCHANGED <<process, call, createMu>>
    /\ UNCHANGED requests /\ UNCHANGED tables /\ UNCHANGED history

---------------------------------------------------------------------------
(* mailbox.Service.Create, called by a runner or by the manual handler      *)

\* handleCreatePrivacyMailbox.
ManualCreate(a) ==
    /\ process # "down"
    /\ call[Manual].pc = "none"
    /\ a \in account
    /\ call' = [call EXCEPT ![Manual] = [pc |-> "queued", account |-> a]]
    /\ UNCHANGED <<process, state, control, disk, runner, createMu>>
    /\ UNCHANGED requests /\ UNCHANGED tables /\ UNCHANGED history

\* Create returns: the runner goes on to Record, the handler records at once
\* (RecordManualSuccess, RecordManualFailure).
BugReturn(k, result) ==
    /\ call' = [call EXCEPT ![k] = NoCall]
    /\ createMu' = IF result = "ok" THEN Nobody ELSE createMu
    /\ IF k = Manual
       THEN /\ Publish(IF result = "ok" THEN [state EXCEPT !.success = Bump(@)]
                                        ELSE [state EXCEPT !.failed = Bump(@)])
            /\ UNCHANGED runner
       ELSE /\ GoTo(k, result)
            /\ UNCHANGED <<state, disk>>
Return(k, result) ==
    /\ call' = [call EXCEPT ![k] = NoCall]
    /\ createMu' = Nobody
    /\ IF k = Manual
       THEN /\ Publish(IF result = "ok" THEN [state EXCEPT !.success = Bump(@)]
                                        ELSE [state EXCEPT !.failed = Bump(@)])
            /\ UNCHANGED runner
       ELSE /\ GoTo(k, result)
            /\ UNCHANGED <<state, disk>>

\* createMu is taken and the first request goes out; with a cancelled context
\* none does.
TakeCreateMu(k) ==
    /\ call[k].pc = "queued"
    /\ createMu = Nobody
    /\ IF Cancelled(k)
       THEN Return(k, "error")
       ELSE /\ createMu' = k
            /\ call' = [call EXCEPT ![k].pc = "first"]
            /\ UNCHANGED <<state, disk, runner>>
    /\ UNCHANGED <<process, control>>
    /\ UNCHANGED requests /\ UNCHANGED tables /\ UNCHANGED history

\* Apple's answer.  A failure on the new interface falls back to the old one
\* unless the channel is fixed.
Answer(k) ==
    /\ call[k].pc \in {"first", "second"}
    /\ \/ /\ call' = [call EXCEPT ![k].pc = "saving"]
          /\ UNCHANGED <<state, disk, runner, createMu>>
       \/ /\ call[k].pc = "first" /\ ~Cancelled(k)
          /\ call' = [call EXCEPT ![k].pc = "second"]
          /\ UNCHANGED <<state, disk, runner, createMu>>
       \/ Return(k, "error")
    /\ UNCHANGED <<process, control>>
    /\ UNCHANGED requests /\ UNCHANGED tables /\ UNCHANGED history

\* UpsertMailboxFromRemote: the account is written, never looked up.
Save(k) ==
    /\ call[k].pc = "saving"
    /\ \/ mailbox' = mailbox \cup {call[k].account} /\ Return(k, "ok")
       \/ mailbox' = mailbox /\ Return(k, "error")
    /\ UNCHANGED <<process, control, account>>
    /\ UNCHANGED requests /\ UNCHANGED history

---------------------------------------------------------------------------
(* Account deletion, time, process                                          *)

\* handleAppleAccountDelete: an account of the running plan is refused.
DeleteCheck(a) ==
    /\ process # "down"
    /\ ~(state.running /\ a \in Range(state.accounts))
    /\ a \in account \ deleting
    /\ deleting' = deleting \cup {a}
    /\ UNCHANGED <<process, state, control, disk, runner, call, createMu, starting>>
    /\ UNCHANGED tables /\ UNCHANGED history

\* Store.DeleteAppleAccount.
Delete(a) ==
    /\ a \in deleting
    /\ deleting' = deleting \ {a}
    /\ account' = account \ {a}
    /\ mailbox' = mailbox \ {a}
    /\ UNCHANGED <<process, state, control, disk, runner, call, createMu, starting>>
    /\ UNCHANGED history

\* The planned instant is reached, wherever it is remembered.
TimePasses ==
    /\ state' = [state EXCEPT !.next = Pass(@)]
    /\ disk' = [disk EXCEPT !.next = Pass(@)]
    /\ runner' = [g \in Generation |-> [runner[g] EXCEPT !.timer = Pass(@)]]
    /\ UNCHANGED <<process, control, call, createMu>>
    /\ UNCHANGED requests /\ UNCHANGED tables /\ UNCHANGED history

\* SIGTERM: the root context is cancelled and the process is about to exit.
Signal ==
    /\ Graceful
    /\ process = "up"
    /\ crashes < MaxCrashes
    /\ process' = "closing"
    /\ runner' = [g \in Generation |-> [runner[g] EXCEPT !.cancelled = runner[g].pc # "none"]]
    /\ UNCHANGED <<state, control, disk, call, createMu>>
    /\ UNCHANGED requests /\ UNCHANGED tables
    /\ signalled' = TRUE
    /\ UNCHANGED <<starts, crashes, wanted>>

\* The process ends, at any point: only the database stays.
Exit ==
    /\ process # "down"
    /\ crashes < MaxCrashes
    /\ process' = "down"
    /\ crashes' = crashes + 1
    /\ state' = Fresh
    /\ control' = [generation |-> 0, cancel |-> 0]
    /\ runner' = [g \in Generation |-> NoRunner]
    /\ call' = [k \in {Manual} \cup Generation |-> NoCall]
    /\ createMu' = Nobody
    /\ starting' = <<>>
    /\ deleting' = {}
    /\ UNCHANGED <<disk, starts, wanted, signalled>> /\ UNCHANGED tables

\* NewService loads the saved state; Resume continues an unfinished task, no
\* earlier than it was planned.
BugBoot ==
    /\ process = "down"
    /\ process' = "up"
    /\ IF disk.running
       THEN /\ Publish([disk EXCEPT !.status = "recovering"])
            /\ control' = [generation |-> 1, cancel |-> 1]
            /\ runner' = [runner EXCEPT ![1] =
                    [NoRunner EXCEPT !.pc = "round", !.accounts = disk.accounts,
                                     !.start = starts]]
       ELSE state' = disk /\ UNCHANGED <<disk, control, runner>>
    /\ UNCHANGED <<call, createMu>>
    /\ UNCHANGED requests /\ UNCHANGED tables /\ UNCHANGED history
Boot ==
    /\ process = "down"
    /\ process' = "up"
    /\ IF disk.running
       THEN /\ Publish([disk EXCEPT !.status = "recovering"])
            /\ control' = [generation |-> 1, cancel |-> 1]
            /\ runner' = [runner EXCEPT ![1] =
                    [NoRunner EXCEPT !.pc = "wait", !.accounts = disk.accounts,
                                     !.timer = disk.next, !.start = starts]]
       ELSE state' = disk /\ UNCHANGED <<disk, control, runner>>
    /\ UNCHANGED <<call, createMu>>
    /\ UNCHANGED requests /\ UNCHANGED tables /\ UNCHANGED history

---------------------------------------------------------------------------
RunnerStep(g) ==
    \/ Wait(g) \/ BeginRound(g) \/ Each(g) \/ Record(g) \/ Pause(g) \/ After(g)

CreateStep(k) == Answer(k) \/ Save(k)

RequestStep ==
    \/ \E plan \in Plan : StartCheck(plan)
    \/ Start
    \/ Stop
    \/ \E a \in Account : ManualCreate(a) \/ DeleteCheck(a) \/ Delete(a)

Next ==
    \/ RequestStep
    \/ \E g \in Generation : RunnerStep(g)
    \/ \E k \in {Manual} \cup Generation : TakeCreateMu(k) \/ CreateStep(k)
    \/ TimePasses
    \/ Signal
    \/ Exit
    \/ Boot

Spec == Init /\ [][Next]_vars

\* Goroutines go on, requests are answered or time out, time passes, and a
\* sync.Mutex is handed to every goroutine that keeps waiting for it.
FairSpec ==
    /\ Spec
    /\ \A g \in Generation : WF_vars(RunnerStep(g))
    /\ \A k \in {Manual} \cup Generation : WF_vars(CreateStep(k)) /\ SF_vars(TakeCreateMu(k))
    /\ WF_vars(TimePasses)

---------------------------------------------------------------------------
(* Properties                                                               *)

TypeOK ==
    /\ process \in {"up", "closing", "down"}
    /\ state \in State
    /\ disk \in State
    /\ control \in [generation: 0 .. MaxGeneration, cancel: {0} \cup Generation]
    /\ runner \in [Generation -> Runner]
    /\ \A k \in {Manual} \cup Generation :
          /\ call[k].pc \in {"none", "queued", "first", "second", "saving"}
          /\ call[k].pc # "none" => call[k].account \in Account
    /\ createMu \in {Manual, Nobody} \cup Generation
    /\ account \subseteq Account
    /\ mailbox \subseteq Account
    /\ starting \in Plans
    /\ deleting \subseteq Account

Live(g) == runner[g].pc \notin {"none", "done"} /\ ~runner[g].cancelled

\* Two goroutines never work side by side: whatever runs besides the current
\* one has a cancelled context, and the current one is cancellable.
OneLiveRunner ==
    \A g \in Generation : Live(g) /\ process = "up" =>
        /\ \A h \in Generation : Live(h) => h = g
        /\ Current(g) => control.cancel = g

\* The saved state says "running" exactly while the task has been started and
\* neither stopped nor ended by a failed creation: a restart resumes no
\* stopped task and forgets no unfinished one.
UnfinishedIsSaved == disk.running = wanted

\* The same with no termination signal in the history, and the half of it that
\* no signal breaks: a task that was stopped or has failed stays ended.
ResumedAfterCrash ==
    /\ disk.running => wanted
    /\ wanted /\ ~signalled => disk.running

\* A round never begins before the instant that was planned for it, restarts
\* included.
NoEarlyRound ==
    [][\A g \in Generation : (runner[g].pc = "round" /\ runner'[g].pc = "each")
          => state.next # "future"]_vars

\* What a superseded goroutine still brings home is not counted for the run
\* that replaced it.
CountsOwnRun ==
    [][\A g \in Generation :
          (runner[g].pc \in {"ok", "error"} /\ runner'[g].pc # runner[g].pc
           /\ process' # "down" /\ <<state.success, state.failed>> # <<state.success, state.failed>>')
              => runner[g].start = starts]_vars

\* The accounts of a running task exist: a deletion waits for its end.
PlannedAccountsExist == state.running => Range(state.accounts) \subseteq account

\* A running task goes from round to wait and from wait to round until it is
\* stopped, fails or loses its process: no lock, answer or timer holds it up.
Halted == ~state.running \/ process # "up"
RoundsContinue ==
    /\ (~Halted) ~> (state.status = "creating" \/ Halted)
    /\ (~Halted) ~> (state.status = "waiting" \/ Halted)

\* A cancelled goroutine ends, whatever it was waiting for.
CancelledRunnersEnd ==
    \A g \in Generation : runner[g].cancelled ~> runner[g].pc \in {"none", "done"}

=============================================================================
