----------------------------- MODULE PageTypeProofs -----------------------------
(****************************************************************************)
(* The types of all pages' variables, and the notices.  What the other      *)
(* proofs of the console say of the types of their pages is taken from      *)
(* their invariants; the pages nothing else is proved about follow here.    *)
(****************************************************************************)
EXTENDS ConsoleProofs, CreationProofs

LEMMA ListSteps == [Next]_vars => [List!Next]_(List!vars)
BY DEF Next, vars, Rest, Opens, ListVars, List!vars

LEMMA JobsSteps == [Next]_vars => [Jobs!Next]_(Jobs!vars)
BY DEF Next, vars, Rest, Opens, JobsVars, Jobs!vars

LEMMA TasksSteps == [Next]_vars => [Tasks!Next]_(Tasks!vars)
BY DEF Next, vars, Rest, Opens, TasksVars, Tasks!vars

LEMMA ToastsSteps == [Next]_vars => [Toasts!Next]_(Toasts!vars)
BY DEF Next, vars, Rest, Opens, ToastsVars, Toasts!vars

-----------------------------------------------------------------------------
(* The table of the mailbox page                                             *)

LEMMA ListStarts == Init => List!TypeOK
<1> SUFFICES ASSUME Init PROVE List!TypeOK
    OBVIOUS
<1>1. Any(View) \in View /\ MaxChanges \in Nat /\ MaxSilent \in Nat
    BY ConsoleAssumption DEF Any
<1>2. CASE page = "list"
    <2>1. List!Init
        BY <1>2 DEF Init
    <2>2. /\ table \in [view : View, seen : SUBSET List!Change] /\ view \in View
          /\ newestLoad \in List!Load
        BY <2>1 DEF List!Init, List!Load
    <2>3. /\ listLoading \in BOOLEAN /\ polling \in BOOLEAN /\ held \in BOOLEAN
          /\ listTimer \in BOOLEAN
        BY <2>1, Zenon DEF List!Init
    <2>. QED
        BY <1>1, <2>1, <2>2, <2>3 DEF List!Init, List!TypeOK
<1>3. CASE page # "list"
    <2>1. ListClosed
        BY <1>3 DEF Init
    <2>2. table \in [view : View, seen : SUBSET List!Change] /\ view \in View
        BY <1>1, <2>1 DEF ListClosed
    <2>3. /\ listLoading \in BOOLEAN /\ polling \in BOOLEAN /\ held \in BOOLEAN
          /\ listTimer \in BOOLEAN
        BY <2>1, Zenon DEF ListClosed
    <2>. QED
        BY <1>1, <2>1, <2>2, <2>3 DEF ListClosed, List!TypeOK
<1>. QED
    BY <1>2, <1>3

LEMMA ListPreserved == List!TypeOK /\ [List!Next]_(List!vars) => List!TypeOK'
<1> SUFFICES ASSUME List!TypeOK, [List!Next]_(List!vars) PROVE List!TypeOK'
    OBVIOUS
<1> USE DEF List!TypeOK
<1>0. MaxChanges \in Nat /\ MaxSilent \in Nat
    BY ConsoleAssumption
<1>1. ASSUME NEW kind \in {"loud", "silent", "poll"}, NEW v \in View, List!Start(kind, v)
      PROVE  newestLoad' \in List!Load /\ listLoading' \in BOOLEAN
    <2>1. newestLoad' \in List!Load
        BY <1>1 DEF List!Start, List!Load
    <2>2. listLoading' \in BOOLEAN
        BY <1>1, Zenon DEF List!Start
    <2>. QED
        BY <2>1, <2>2
<1>2. ASSUME NEW v \in View, List!ChangeView(v) PROVE List!TypeOK'
    BY <1>1, <1>2 DEF List!ChangeView
<1>3. ASSUME NEW v \in View, List!GoToPage(v) PROVE List!TypeOK'
    BY <1>2, <1>3 DEF List!GoToPage
<1>4. CASE List!SilentReload
    BY <1>0, <1>1, <1>4 DEF List!SilentReload
<1>5. CASE List!Poll
    BY <1>1, <1>5 DEF List!Poll
<1>6. CASE List!TimerFires
    <2>1. CASE List!MayRefresh
        BY <1>1, <1>6, <2>1 DEF List!TimerFires
    <2>2. CASE ~List!MayRefresh
        BY <1>6, <2>2 DEF List!TimerFires
    <2>. QED
        BY <2>1, <2>2
<1>7. CASE List!ServerAnswers
    <2>1. newestLoad \in List!Load /\ 1 .. changes \in SUBSET List!Change
        BY <1>0, <1>7 DEF List!ServerAnswers, List!Change
    <2>2. newestLoad' \in List!Load
        BY <1>7, <2>1 DEF List!ServerAnswers, List!Load
    <2>. QED
        BY <1>7, <2>2 DEF List!ServerAnswers
<1>8. CASE List!PollEnds
    BY <1>8 DEF List!PollEnds
<1>9. ASSUME NEW ok \in BOOLEAN, List!LoadEnds(ok) PROVE List!TypeOK'
    <2>1. newestLoad.view \in View /\ newestLoad.seen \in SUBSET List!Change
        BY <1>9 DEF List!LoadEnds, List!Load
    <2>2. table' \in [view : View, seen : SUBSET List!Change]
        BY <1>9, <2>1 DEF List!LoadEnds
    <2>3. listLoading' \in BOOLEAN
        BY <1>9, Zenon DEF List!LoadEnds
    <2>. QED
        BY <1>9, <2>2, <2>3 DEF List!LoadEnds
<1>10. ASSUME NEW carriesRow \in BOOLEAN, List!PoolChanges(carriesRow) PROVE List!TypeOK'
    BY <1>0, <1>10 DEF List!PoolChanges, List!Change
<1>11. CASE List!Deliver
    <2>1. listFeed' \in List!Change /\ listFeed' \in 0 .. changes
        BY <1>0, <1>11 DEF List!Deliver, List!Change
    <2>2. CASE listFeed' \in patches
        <3>1. /\ table' = [table EXCEPT !.seen = @ \cup {listFeed'}]
              /\ UNCHANGED <<view, newestLoad, listLoading, polling, held, listTimer, changes,
                             patches, silentReloads>>
            BY <1>11, <2>2 DEF List!Deliver
        <3>. QED
            BY <2>1, <3>1
    <2>3. CASE listFeed' \notin patches
        BY <1>11, <2>1, <2>3 DEF List!Deliver
    <2>. QED
        BY <2>2, <2>3
<1>12. CASE List!Hold
    BY <1>12 DEF List!Hold
<1>13. CASE List!Remount
    <2>1. /\ newestLoad' \in List!Load /\ listLoading' \in BOOLEAN
          /\ table' \in [view : View, seen : SUBSET List!Change]
        BY <1>1, <1>13 DEF List!Remount
    <2>2. listFeed' \in 0 .. changes
        BY <1>0, <1>13 DEF List!Remount
    <2>. QED
        BY <1>13, <2>1, <2>2 DEF List!Remount
<1>14. CASE UNCHANGED List!vars
    BY <1>14 DEF List!vars
<1>. QED
    BY <1>2, <1>3, <1>4, <1>5, <1>6, <1>7, <1>8, <1>9, <1>10, <1>11, <1>12, <1>13, <1>14
    DEF List!Next

-----------------------------------------------------------------------------
(* The job notices                                                           *)

LEMMA JobsStarts == Init => Jobs!TypeOK
<1> SUFFICES ASSUME Init PROVE Jobs!TypeOK
    OBVIOUS
<1>1. Jobs!Idle \in Jobs!Job /\ <<>> \in Seq(Jobs!Job)
    BY ConsoleAssumption DEF Jobs!Idle, Jobs!Job
<1>2. /\ Jobs!Quiet \in [at : {Jobs!None, "sent", "answered"}, job : Jobs!Job]
      /\ Jobs!Sent \in [at : {Jobs!None, "sent", "answered"}, job : Jobs!Job]
      /\ Jobs!Quiet \in [at : {Jobs!None, "sent", "answered", "refused", "failed"},
                         job : Jobs!Job]
    BY <1>1 DEF Jobs!Quiet, Jobs!Sent, Jobs!None
<1>3. CASE page = "jobs"
    <2>1. Jobs!Init
        BY <1>3 DEF Init
    <2>. QED
        BY <1>1, <1>2, <2>1 DEF Jobs!Init, Jobs!TypeOK
<1>4. CASE page # "jobs"
    <2>1. JobsClosed
        BY <1>4 DEF Init
    <2>. QED
        BY <1>1, <1>2, <2>1 DEF JobsClosed, Jobs!TypeOK, Jobs!None
<1>. QED
    BY <1>3, <1>4

LEMMA JobsPreserved == Jobs!TypeOK /\ [Jobs!Next]_(Jobs!vars) => Jobs!TypeOK'
<1> SUFFICES ASSUME Jobs!TypeOK, [Jobs!Next]_(Jobs!vars) PROVE Jobs!TypeOK'
    OBVIOUS
<1> USE DEF Jobs!TypeOK
<1>0. /\ Jobs!Idle \in Jobs!Job /\ MaxJobs \in Nat
      /\ \A j \in Jobs!Job : j.running \in BOOLEAN /\ j.gen \in 0 .. MaxJobs
      /\ Jobs!Quiet \in [at : {Jobs!None, "sent", "answered"}, job : Jobs!Job]
      /\ Jobs!Sent \in [at : {Jobs!None, "sent", "answered"}, job : Jobs!Job]
    BY ConsoleAssumption DEF Jobs!Idle, Jobs!Job, Jobs!Quiet, Jobs!Sent, Jobs!None
<1>1. ASSUME NEW j \in Jobs!Job, NEW showCompleted, NEW hidden,
             Jobs!Apply(j, showCompleted, hidden)
      PROVE  known' \in Jobs!Job /\ statusTimer' \in BOOLEAN
             /\ jobNotice' \in {Jobs!None, "progress", "result"}
    BY <1>0, <1>1 DEF Jobs!Apply
<1>2. ASSUME Jobs!Begin PROVE job' \in Jobs!Job /\ feed' \in Seq(Jobs!Job)
    <2>1. [gen |-> job.gen + 1, running |-> TRUE] \in Jobs!Job
        BY <1>0, <1>2 DEF Jobs!Begin, Jobs!Job
    <2>. QED
        BY <1>2, <2>1 DEF Jobs!Begin, Jobs!Publish
<1>3. ASSUME Jobs!Ask
      PROVE  statusRequests' \in [Jobs!Slot -> [at : {Jobs!None, "sent", "answered"},
                                                job : Jobs!Job]]
    BY <1>0, <1>3 DEF Jobs!Ask
<1>4. CASE Jobs!StartedElsewhere
    BY <1>2, <1>4 DEF Jobs!StartedElsewhere
<1>5. CASE Jobs!Progress
    BY <1>5 DEF Jobs!Progress, Jobs!Publish
<1>6. CASE Jobs!JobEnds
    <2>1. job' \in Jobs!Job
        BY <1>6 DEF Jobs!JobEnds, Jobs!Job
    <2>. QED
        BY <1>6, <2>1 DEF Jobs!JobEnds
<1>7. CASE Jobs!Deliver
    <2>1. Head(feed) \in Jobs!Job /\ Tail(feed) \in Seq(Jobs!Job)
        BY <1>7, HeadTailProperties DEF Jobs!Deliver
    <2>. QED
        BY <1>1, <1>7, <2>1 DEF Jobs!Deliver
<1>8. CASE Jobs!Start
    BY <1>0, <1>8 DEF Jobs!Start, Jobs!Sent
<1>9. CASE Jobs!ServerStarts
    <2>1. job' \in Jobs!Job /\ feed' \in Seq(Jobs!Job)
        BY <1>2, <1>9 DEF Jobs!ServerStarts
    <2>2. starting' \in [at : {Jobs!None, "sent", "answered", "refused", "failed"},
                         job : Jobs!Job]
        BY <1>9, <2>1 DEF Jobs!ServerStarts
    <2>. QED
        BY <1>9, <2>1, <2>2 DEF Jobs!ServerStarts
<1>10. CASE Jobs!StartAnswered
    <2>1. /\ starting' = Jobs!Quiet /\ UNCHANGED <<job, feed, broken>>
          /\ starting' \in [at : {Jobs!None, "sent", "answered", "refused", "failed"},
                            job : Jobs!Job]
        BY <1>0, <1>10 DEF Jobs!StartAnswered, Jobs!Quiet, Jobs!None
    <2>2. CASE starting.at = "answered"
        BY <1>1, <1>10, <2>1, <2>2 DEF Jobs!StartAnswered
    <2>3. CASE starting.at # "answered"
        BY <1>3, <1>10, <2>1, <2>3 DEF Jobs!StartAnswered
    <2>. QED
        BY <2>2, <2>3
<1>11. CASE Jobs!IntroEnds
    BY <1>1, <1>11 DEF Jobs!IntroEnds
<1>12. CASE Jobs!TimerFires
    BY <1>3, <1>12 DEF Jobs!TimerFires
<1>13. ASSUME NEW s \in Jobs!Slot, Jobs!ServerAnswers(s) PROVE Jobs!TypeOK'
    BY <1>13 DEF Jobs!ServerAnswers
<1>14. ASSUME NEW s \in Jobs!Slot, NEW ok \in BOOLEAN, Jobs!StatusArrives(s, ok)
       PROVE  Jobs!TypeOK'
    <2>1. broken' \in BOOLEAN
        BY <1>14, Zenon DEF Jobs!StatusArrives
    <2>2. /\ UNCHANGED <<job, feed, intro, starting>>
          /\ statusRequests' \in [Jobs!Slot -> [at : {Jobs!None, "sent", "answered"},
                                                job : Jobs!Job]]
        BY <1>0, <1>14 DEF Jobs!StatusArrives
    <2>3. CASE ok
        BY <1>1, <1>14, <2>1, <2>2, <2>3 DEF Jobs!StatusArrives
    <2>4. CASE ~ok
        BY <1>14, <2>1, <2>2, <2>4 DEF Jobs!StatusArrives
    <2>. QED
        BY <2>3, <2>4
<1>15. CASE Jobs!NoticeGoes
    BY <1>15 DEF Jobs!NoticeGoes
<1>16. CASE Jobs!Leave
    BY <1>16 DEF Jobs!Leave
<1>17. CASE UNCHANGED Jobs!vars
    BY <1>17 DEF Jobs!vars
<1>. QED
    BY <1>4, <1>5, <1>6, <1>7, <1>8, <1>9, <1>10, <1>11, <1>12, <1>13, <1>14, <1>15, <1>16,
       <1>17 DEF Jobs!Next, Jobs!Step

-----------------------------------------------------------------------------
(* The scheduler's status on the tasks page                                  *)

\* A request for the status, and a call of a command, with the status they bring
Carries == [at : {Tasks!None, "sent", "answered"}, status : Nat]
Called == [what : Tasks!Command \cup {Tasks!None, "mount"}, at : Tasks!Stage, status : Nat]

CallsCarry ==
    /\ command \in [Tasks!Slot -> Called]
    /\ \A i \in Tasks!Slot : command[i].status <= scheduler

TasksInv ==
    /\ scheduler \in 0 .. MaxStatus /\ status \in 0 .. scheduler /\ statusFeed \in 0 .. scheduler
    /\ silent \in Carries /\ silent.status <= scheduler
    /\ refresh \in Carries /\ refresh.status <= scheduler
    /\ CallsCarry
    /\ current \in BOOLEAN /\ tasksLoading \in BOOLEAN
    /\ busy \in Tasks!Command \cup {Tasks!None}

LEMMA QuietCarries ==
    ASSUME scheduler \in Nat
    PROVE  /\ Tasks!Quiet \in Carries /\ Tasks!Quiet.status = 0
           /\ [Tasks!Quiet EXCEPT !.at = "sent"] \in Carries
           /\ [Tasks!Quiet EXCEPT !.at = "sent"].status = 0
           /\ [at |-> "answered", status |-> scheduler] \in Carries
           /\ Tasks!Idle \in Called /\ Tasks!Idle.status = 0
BY DEF Tasks!Quiet, Tasks!Idle, Tasks!None, Tasks!Stage, Carries, Called

LEMMA TasksStarts == Init => TasksInv
<1> SUFFICES ASSUME Init PROVE TasksInv
    OBVIOUS
<1>1. MaxStatus \in Nat /\ MaxCommands \in Nat
    BY ConsoleAssumption
<1>2. [what |-> "mount", at |-> "load", status |-> 0] \in Called
    BY DEF Called, Tasks!Stage
<1>3. CASE page = "tasks"
    <2>1. Tasks!Init
        BY <1>3 DEF Init
    <2>2. CallsCarry
        BY <1>2, <2>1, QuietCarries DEF Tasks!Init, CallsCarry
    <2>. QED
        BY <1>1, <2>1, <2>2, QuietCarries DEF Tasks!Init, TasksInv
<1>4. CASE page # "tasks"
    <2>1. TasksClosed
        BY <1>4 DEF Init
    <2>2. CallsCarry
        BY <2>1, QuietCarries DEF TasksClosed, CallsCarry
    <2>. QED
        BY <1>1, <2>1, <2>2, QuietCarries DEF TasksClosed, TasksInv
<1>. QED
    BY <1>3, <1>4

\* One call changes, and brings no more than the scheduler has.
LEMMA CallChanges ==
    ASSUME TasksInv, scheduler' \in Nat, scheduler <= scheduler', NEW i \in Tasks!Slot,
           NEW call \in Called, call.status <= scheduler',
           command' = [command EXCEPT ![i] = call]
    PROVE  CallsCarry'
<1>1. command' \in [Tasks!Slot -> Called]
    BY DEF TasksInv, CallsCarry
<1>2. ASSUME NEW j \in Tasks!Slot PROVE command'[j].status <= scheduler'
    <2>1. command[j] \in Called /\ command[j].status <= scheduler /\ scheduler \in Nat
        BY DEF TasksInv, CallsCarry
    <2>2. command[j].status \in Nat
        BY <2>1 DEF Called
    <2>3. command'[j] = IF j = i THEN call ELSE command[j]
        BY DEF TasksInv, CallsCarry
    <2>. QED
        BY <2>1, <2>2, <2>3
<1>. QED
    BY <1>1, <1>2 DEF CallsCarry

LEMMA CallStays ==
    ASSUME TasksInv, scheduler' \in Nat, scheduler <= scheduler', command' = command
    PROVE  CallsCarry'
<1>1. ASSUME NEW j \in Tasks!Slot PROVE command[j].status <= scheduler'
    <2>1. command[j] \in Called /\ command[j].status <= scheduler /\ scheduler \in Nat
        BY DEF TasksInv, CallsCarry
    <2>2. command[j].status \in Nat
        BY <2>1 DEF Called
    <2>. QED
        BY <2>1, <2>2
<1>. QED
    BY <1>1 DEF TasksInv, CallsCarry

LEMMA TasksPreserved == TasksInv /\ [Tasks!Next]_(Tasks!vars) => TasksInv'
<1> SUFFICES ASSUME TasksInv, [Tasks!Next]_(Tasks!vars) PROVE TasksInv'
    OBVIOUS
<1> USE DEF TasksInv
<1>0. /\ MaxStatus \in Nat /\ scheduler \in Nat
      /\ silent.status \in Nat /\ refresh.status \in Nat
    BY ConsoleAssumption DEF Carries
<1>1. ASSUME NEW i \in Tasks!Slot
      PROVE  /\ command[i] \in Called /\ command[i].status \in Nat
             /\ command[i].status <= scheduler
    BY DEF CallsCarry, Called
<1>3. CASE Tasks!SchedulerChanges
    <2>1. /\ scheduler' = scheduler + 1 /\ scheduler < MaxStatus /\ command' = command
          /\ UNCHANGED <<status, statusFeed, tasksLoading, silent, refresh, current, busy>>
        BY <1>3 DEF Tasks!SchedulerChanges, Tasks!page
    <2>2. CallsCarry'
        BY <1>0, <2>1, CallStays
    <2>. QED
        BY <1>0, <2>1, <2>2
<1>4. CASE Tasks!Deliver
    <2>1. CallsCarry'
        BY <1>0, <1>4, CallStays DEF Tasks!Deliver
    <2>. QED
        BY <1>0, <1>4, <2>1 DEF Tasks!Deliver
<1>5. CASE Tasks!LoadSilently \/ Tasks!Refresh
    <2>1. CallsCarry'
        BY <1>0, <1>5, CallStays DEF Tasks!LoadSilently, Tasks!Refresh
    <2>2. current' \in BOOLEAN
        BY <1>5, Zenon DEF Tasks!LoadSilently, Tasks!Refresh, Tasks!page
    <2>. QED
        BY <1>0, <1>5, <2>1, <2>2, QuietCarries
        DEF Tasks!LoadSilently, Tasks!Refresh, Tasks!page
<1>6. CASE Tasks!SilentStep \/ Tasks!RefreshStep
    <2>1. /\ UNCHANGED <<scheduler, statusFeed, tasksLoading, current, busy, command>>
          /\ status' \in {status, silent.status, refresh.status}
          /\ silent' \in {silent, Tasks!Quiet, [at |-> "answered", status |-> scheduler]}
          /\ refresh' \in {refresh, Tasks!Quiet, [at |-> "answered", status |-> scheduler]}
        BY <1>6
        DEF Tasks!SilentStep, Tasks!RefreshStep, Tasks!SilentAnswered, Tasks!SilentEnds,
            Tasks!RefreshAnswered, Tasks!RefreshEnds, Tasks!page
    <2>2. CallsCarry'
        BY <1>0, <2>1, CallStays
    <2>3. [at |-> "answered", status |-> scheduler].status = scheduler
        OBVIOUS
    <2>. QED
        BY <1>0, <2>1, <2>2, <2>3, QuietCarries
<1>7. ASSUME NEW i \in Tasks!Slot, NEW c \in Tasks!Command, Tasks!Begin(i, c) PROVE TasksInv'
    <2> DEFINE call == [what |-> c, at |-> "sent", status |-> 0]
    <2>1. call \in Called /\ call.status = 0
        BY DEF Called, Tasks!Stage
    <2>2. /\ UNCHANGED <<scheduler, status, statusFeed, tasksLoading, silent, refresh>>
          /\ busy' = c /\ command' = [command EXCEPT ![i] = call]
        BY <1>7 DEF Tasks!Begin
    <2> HIDE DEF call
    <2>3. scheduler' \in Nat /\ scheduler <= scheduler' /\ call.status <= scheduler'
        BY <1>0, <2>1, <2>2
    <2>4. CallsCarry'
        BY <2>1, <2>2, <2>3, CallChanges
    <2>5. current' \in BOOLEAN
        BY <1>7, Zenon DEF Tasks!Begin
    <2>. QED
        BY <1>0, <2>2, <2>4, <2>5
<1>8. ASSUME NEW i \in Tasks!Slot, NEW at \in {"answered", "refused"}, Tasks!ServerObeys(i, at)
      PROVE  TasksInv'
    <2> DEFINE brings == IF at = "answered" /\ command[i].what \in Tasks!Shows THEN scheduler'
                         ELSE 0
               call == [command[i] EXCEPT !.at = at, !.status = brings]
    <2>1. /\ UNCHANGED <<status, statusFeed, tasksLoading, current, busy, silent, refresh>>
          /\ scheduler' \in 0 .. MaxStatus /\ scheduler' \in {scheduler, scheduler + 1}
          /\ command' = [command EXCEPT ![i] = call]
        BY <1>0, <1>8 DEF Tasks!ServerObeys, Tasks!page
    <2>2. scheduler' \in Nat /\ scheduler <= scheduler' /\ brings \in Nat /\ brings <= scheduler'
        BY <1>0, <2>1
    <2> HIDE DEF brings
    <2>3. call \in Called /\ call.status = brings
        BY <1>1, <2>2 DEF Called, Tasks!Stage
    <2> HIDE DEF call
    <2>4. CallsCarry'
        BY <2>1, <2>2, <2>3, CallChanges
    <2>. QED
        BY <1>0, <2>1, <2>2, <2>4
<1>9. ASSUME NEW i \in Tasks!Slot, Tasks!CommandAnswered(i) PROVE TasksInv'
    <2> DEFINE loads == [command[i] EXCEPT !.at = "load", !.status = 0]
               asks == [command[i] EXCEPT !.at = "status"]
    <2>1. /\ UNCHANGED <<scheduler, statusFeed, silent, refresh, current>>
          /\ status' \in {status, command[i].status} /\ busy' \in {busy, Tasks!None}
          /\ \E call \in {loads, asks, Tasks!Idle} : command' = [command EXCEPT ![i] = call]
        BY <1>9 DEF Tasks!CommandAnswered
    <2>2. loads \in Called /\ loads.status = 0
        BY <1>1 DEF Called, Tasks!Stage
    <2>3. asks \in Called /\ asks.status = command[i].status
        BY <1>1 DEF Called, Tasks!Stage
    <2> HIDE DEF loads, asks
    <2>4. \A call \in {loads, asks, Tasks!Idle} : call \in Called /\ call.status <= scheduler
        BY <1>0, <1>1, <2>2, <2>3, QuietCarries
    <2>5. scheduler' \in Nat /\ scheduler' = scheduler /\ scheduler <= scheduler'
        BY <1>0, <2>1
    <2>6. CallsCarry'
        BY <2>1, <2>4, <2>5, CallChanges
    <2>7. tasksLoading' \in BOOLEAN
        BY <1>9, Zenon DEF Tasks!CommandAnswered
    <2>. QED
        BY <1>0, <1>1, <2>1, <2>6, <2>7
<1>10. ASSUME NEW i \in Tasks!Slot, Tasks!ReadAnswered(i) PROVE TasksInv'
    <2> DEFINE at == IF command[i].at = "load" THEN "loaded" ELSE "told"
               call == [command[i] EXCEPT !.at = at, !.status = scheduler]
    <2>1. /\ UNCHANGED <<scheduler, status, statusFeed, tasksLoading, current, busy, silent,
                         refresh>>
          /\ command' = [command EXCEPT ![i] = call]
        BY <1>10 DEF Tasks!ReadAnswered, Tasks!page
    <2>2. at \in Tasks!Stage
        BY DEF Tasks!Stage
    <2> HIDE DEF at
    <2>3. call \in Called /\ call.status = scheduler
        BY <1>0, <1>1, <2>2 DEF Called
    <2> HIDE DEF call
    <2>4. scheduler' \in Nat /\ scheduler <= scheduler' /\ call.status <= scheduler'
        BY <1>0, <2>1, <2>3
    <2>5. CallsCarry'
        BY <2>1, <2>3, <2>4, CallChanges
    <2>. QED
        BY <1>0, <2>1, <2>5
<1>11. ASSUME NEW i \in Tasks!Slot, NEW ok \in BOOLEAN, Tasks!ReadEnds(i, ok) PROVE TasksInv'
    <2>1. /\ UNCHANGED <<scheduler, statusFeed, silent, refresh, current>>
          /\ status' \in {status, command[i].status} /\ busy' \in {busy, Tasks!None}
          /\ command' = [command EXCEPT ![i] = Tasks!Idle]
        BY <1>11 DEF Tasks!ReadEnds
    <2>2. /\ scheduler' \in Nat /\ scheduler <= scheduler'
          /\ Tasks!Idle \in Called /\ Tasks!Idle.status <= scheduler'
        BY <1>0, <2>1, QuietCarries
    <2>3. CallsCarry'
        BY <2>1, <2>2, CallChanges
    <2>4. tasksLoading' \in BOOLEAN
        BY <1>11, Zenon DEF Tasks!ReadEnds
    <2>. QED
        BY <1>0, <1>1, <2>1, <2>3, <2>4
<1>12. CASE UNCHANGED Tasks!vars
    <2>1. CallsCarry'
        BY <1>0, <1>12, CallStays DEF Tasks!vars
    <2>. QED
        BY <1>0, <1>12, <2>1 DEF Tasks!vars
<1>. QED
    BY <1>3, <1>4, <1>5, <1>6, <1>7, <1>8, <1>9, <1>10, <1>11, <1>12
    DEF Tasks!Next, Tasks!CommandStep

-----------------------------------------------------------------------------
(* The drawer and the code dialog: the parts DrawerTyped leaves out          *)

\* Whose mail, form and message are shown and asked for
PartsTyped ==
    /\ messages \in Detail!Maybe /\ edit \in Detail!Maybe
    /\ reader \in Detail!Maybe /\ fetching \in Detail!Maybe
    /\ cleaning \in BOOLEAN /\ polled \in Detail!Maybe /\ crossed \in BOOLEAN

LEMMA PartsStart == Detail!Init => PartsTyped
BY DEF Detail!Init, PartsTyped, Detail!Maybe

LEMMA PartsPreserved ==
    DrawerTyped /\ PartsTyped /\ [Detail!Next]_(Detail!vars) => PartsTyped'
<1> SUFFICES ASSUME DrawerTyped, PartsTyped, [Detail!Next]_(Detail!vars) PROVE PartsTyped'
    OBVIOUS
<1> USE DEF PartsTyped, Detail!drawer, Detail!tasks
<1>0. /\ selected \in Detail!Maybe /\ coding.box \in Detail!Maybe /\ Detail!None \in Detail!Maybe
      /\ \A m \in Opened : m \in Detail!Maybe
    BY DEF DrawerTyped, Detail!Maybe
<1>1. ASSUME NEW m, NEW welcome, Detail!Show(m, welcome) PROVE crossed' \in BOOLEAN
    BY <1>1, Zenon DEF Detail!Show
<1>2. ASSUME NEW m, Detail!BeginOpen(m, row)
      PROVE  crossed' \in BOOLEAN /\ reader' \in Detail!Maybe
    <2>1. crossed' \in BOOLEAN
        BY <1>2, Zenon DEF Detail!BeginOpen
    <2>. QED
        BY <1>0, <1>2, <2>1 DEF Detail!BeginOpen
<1>3. ASSUME NEW m \in Opened, Detail!OpenMailbox(m) PROVE PartsTyped'
    BY <1>2, <1>3 DEF Detail!OpenMailbox
<1>4. ASSUME NEW m \in Opened, NEW ok \in BOOLEAN, Detail!DetailArrives(m, ok) PROVE PartsTyped'
    <2>1. /\ UNCHANGED <<reader, fetching, cleaning, polled>>
          /\ messages' \in {m, messages} /\ edit' \in {m, edit}
          /\ crossed' = crossed \/ Detail!Show(m, {Detail!None, m})
        BY <1>4 DEF Detail!DetailArrives
    <2>. QED
        BY <1>0, <1>1, <2>1
<1>5. CASE Detail!Escape \/ Detail!Deleted
    <2>1. /\ UNCHANGED <<edit, fetching, cleaning, polled, crossed>>
          /\ reader' \in {reader, Detail!None} /\ messages' \in {messages, Detail!None}
        BY <1>5 DEF Detail!Escape, Detail!Deleted
    <2>. QED
        BY <1>0, <2>1
<1>6. CASE Detail!SaveStatus \/ Detail!SyncMailbox \/ Detail!GetCode
    BY <1>6 DEF Detail!SaveStatus, Detail!SyncMailbox, Detail!GetCode
<1>7. ASSUME NEW ok \in BOOLEAN, Detail!SaveArrives(ok) PROVE PartsTyped'
    <2>1. /\ UNCHANGED <<messages, edit, reader, fetching, cleaning, polled>>
          /\ crossed' = crossed \/ Detail!Show(saving, {saving})
        BY <1>7 DEF Detail!SaveArrives
    <2>. QED
        BY <1>1, <2>1
<1>8. ASSUME NEW m \in Opened, Detail!QuickSync(m) \/ Detail!QuickSyncEnds(m)
                               \/ Detail!QuickGetCode(m)
      PROVE  PartsTyped'
    BY <1>8 DEF Detail!QuickSync, Detail!QuickSyncEnds, Detail!QuickGetCode
<1>9. CASE Detail!CleanRemote
    BY <1>9 DEF Detail!CleanRemote
<1>10. ASSUME NEW ok \in BOOLEAN, Detail!SyncEnds(ok) PROVE PartsTyped'
    <2>1. /\ UNCHANGED <<messages, edit, fetching, cleaning, polled>>
          /\ UNCHANGED <<reader, crossed>> \/ Detail!BeginOpen(syncing, row)
        BY <1>10 DEF Detail!SyncEnds
    <2>. QED
        BY <1>2, <2>1
<1>11. ASSUME NEW ok \in BOOLEAN, Detail!CleanEnds(ok) PROVE PartsTyped'
    <2>1. /\ UNCHANGED <<messages, edit, fetching, polled>> /\ cleaning' = FALSE
          /\ UNCHANGED <<reader, crossed>> \/ Detail!BeginOpen(selected, row)
        BY <1>11 DEF Detail!CleanEnds
    <2>. QED
        BY <1>2, <2>1
<1>12. ASSUME NEW ok \in BOOLEAN, Detail!CodeArrives(ok) PROVE PartsTyped'
    BY <1>12 DEF Detail!CodeArrives
<1>13. ASSUME NEW ok \in BOOLEAN, Detail!CodeDetailArrives(ok) PROVE PartsTyped'
    <2>1. /\ UNCHANGED <<edit, reader, fetching, cleaning, polled>>
          /\ messages' \in {messages, coding.box}
          /\ crossed' = crossed \/ Detail!Show(coding.box, {coding.box})
        BY <1>13 DEF Detail!CodeDetailArrives
    <2>. QED
        BY <1>0, <1>1, <2>1
<1>14. ASSUME NEW m \in Opened, NEW ok \in BOOLEAN,
              Detail!QuickCodeArrives(m, ok) \/ Detail!QuickDetailArrives(m, ok)
       PROVE  PartsTyped'
    BY <1>14 DEF Detail!QuickCodeArrives, Detail!QuickDetailArrives
<1>15. CASE Detail!PollDrawer \/ \E ok \in BOOLEAN : Detail!PollArrives(ok)
    <2>1. /\ UNCHANGED <<edit, reader, fetching, cleaning, crossed>>
          /\ messages' \in {messages, polled} /\ polled' \in {selected, Detail!None}
        BY <1>15 DEF Detail!PollDrawer, Detail!PollArrives
    <2>. QED
        BY <1>0, <2>1
<1>16. CASE Detail!OpenMessage \/ Detail!MessageArrives
    <2>1. /\ UNCHANGED <<messages, edit, cleaning, polled, crossed>>
          /\ reader' \in {messages, fetching, Detail!None}
          /\ fetching' \in {selected, Detail!None}
        BY <1>16 DEF Detail!OpenMessage, Detail!MessageArrives
    <2>. QED
        BY <1>0, <2>1
<1>17. CASE UNCHANGED Detail!vars
    BY <1>17 DEF Detail!vars
<1>. QED
    BY <1>3, <1>4, <1>5, <1>6, <1>7, <1>8, <1>9, <1>10, <1>11, <1>12, <1>13, <1>14, <1>15,
       <1>16, <1>17 DEF Detail!Next, Detail!Step

-----------------------------------------------------------------------------
(* The settings page and the dashboard: nothing is ahead of the log          *)

SettingsBounded ==
    /\ Len(log) <= MaxLog /\ base <= Len(log) /\ missed \subseteq 1 .. Len(log)
    /\ \A r \in Settings!Request : requests[r].seen <= Len(log)
    /\ formLoaded \in BOOLEAN /\ listening \in BOOLEAN

LEMMA SettingsBoundedStarts == Settings!Init => SettingsBounded
<1> SUFFICES ASSUME Settings!Init PROVE SettingsBounded
    OBVIOUS
<1>1. formLoaded \in BOOLEAN /\ listening \in BOOLEAN
    BY Zenon DEF Settings!Init
<1>2. Len(log) = 0 /\ base = 0 /\ missed = {}
    BY DEF Settings!Init
<1>3. \A r \in Settings!Request : requests[r].seen = 0
    BY DEF Settings!Init, Settings!Quiet
<1>. QED
    BY <1>1, <1>2, <1>3, ConsoleAssumption DEF SettingsBounded

LEMMA SettingsBoundedPreserved ==
    SettingsShape /\ SettingsBounded /\ [Settings!Next]_(Settings!vars) => SettingsBounded'
<1> SUFFICES ASSUME SettingsShape, SettingsBounded, [Settings!Next]_(Settings!vars)
             PROVE  SettingsBounded'
    OBVIOUS
<1> USE DEF SettingsBounded
<1>0. /\ Len(log) \in Nat /\ MaxLog \in Nat /\ base \in Nat /\ DOMAIN log = 1 .. Len(log)
      /\ requests \in [Settings!Request -> [at : {Settings!None, "sent", "answered"}, seen : Nat]]
    BY ConsoleAssumption DEF SettingsShape
<1>1. ASSUME NEW kind \in {"settings", "other"}, Settings!Change(kind) PROVE SettingsBounded'
    <2>1. Len(log') = Len(log) + 1 /\ Len(log) < MaxLog
          /\ UNCHANGED <<base, formLoaded, listening, requests, missed>>
        BY <1>1, SettingsLogGrows DEF Settings!Change
    <2>2. \A r \in Settings!Request : requests[r].seen \in Nat
        BY <1>0
    <2>. QED
        BY <1>0, <2>1, <2>2
<1>2. CASE Settings!Deliver
    <2>1. UNCHANGED <<log, base, formLoaded, listening, requests>>
        BY <1>2 DEF Settings!Deliver
    <2>2. missed' \subseteq 1 .. Len(log)
        BY <1>0, <1>2 DEF Settings!Deliver, Settings!Between
    <2>. QED
        BY <2>1, <2>2
<1>3. CASE Settings!Listen
    BY <1>3 DEF Settings!Listen
<1>4. ASSUME NEW r \in Settings!Request, Settings!TimerFires(r) \/ Settings!Save(r)
      PROVE  SettingsBounded'
    <2>1. UNCHANGED <<log, base, formLoaded, listening, missed>>
        BY <1>4 DEF Settings!TimerFires, Settings!Save
    <2>2. \A q \in Settings!Request : requests'[q].seen = requests[q].seen
        BY <1>0, <1>4 DEF Settings!TimerFires, Settings!Save
    <2>. QED
        BY <2>1, <2>2
<1>5. ASSUME NEW r \in Settings!Request, Settings!ServerAnswers(r) PROVE SettingsBounded'
    <2>1. /\ UNCHANGED <<base, formLoaded, listening, missed>>
          /\ requests' = [requests EXCEPT ![r] = [at |-> "answered", seen |-> Len(log')]]
          /\ log' = log \/ (Len(log) < MaxLog /\ log' = Append(log, "settings"))
        BY <1>5 DEF Settings!ServerAnswers
    <2>2. Len(log') \in Nat /\ Len(log) <= Len(log') /\ Len(log') <= MaxLog
        BY <1>0, <2>1, SettingsLogGrows
    <2>3. \A q \in Settings!Request : /\ requests[q].seen \in Nat
                                      /\ requests'[q].seen \in {requests[q].seen, Len(log')}
        BY <1>0, <2>1
    <2>. QED
        BY <1>0, <2>1, <2>2, <2>3
<1>6. ASSUME NEW r \in Settings!Request, NEW ok \in BOOLEAN, Settings!RequestEnds(r, ok)
      PROVE  SettingsBounded'
    <2>1. /\ log' = log /\ requests' = [requests EXCEPT ![r] = Settings!Quiet]
          /\ base' \in {requests[r].seen, base} /\ listening' = listening
        BY <1>6 DEF Settings!RequestEnds
    <2>2. formLoaded' \in BOOLEAN
        BY <1>6, Zenon DEF Settings!RequestEnds
    <2>3. \A q \in Settings!Request : requests'[q].seen \in {requests[q].seen, 0}
        BY <1>0, <2>1 DEF Settings!Quiet
    <2>4. missed' \subseteq 1 .. Len(log)
        BY <1>0, <1>6 DEF Settings!RequestEnds, Settings!Between
    <2>. QED
        BY <1>0, <2>1, <2>2, <2>3, <2>4
<1>7. CASE UNCHANGED Settings!vars
    BY <1>7 DEF Settings!vars
<1>. QED
    BY <1>1, <1>2, <1>3, <1>4, <1>5, <1>6, <1>7 DEF Settings!Next

DashboardBounded ==
    /\ reading <= Len(figureLog) /\ uncounted \subseteq 1 .. Len(figureLog)
    /\ \A r \in Dashboard!Read : reads[r].seen <= Len(figureLog)
    /\ figuresMounted \in BOOLEAN /\ figureTimer \in BOOLEAN

LEMMA DashboardBoundedStarts == Dashboard!Init => DashboardBounded
<1> SUFFICES ASSUME Dashboard!Init PROVE DashboardBounded
    OBVIOUS
<1>1. figuresMounted \in BOOLEAN /\ figureTimer \in BOOLEAN
    BY Zenon DEF Dashboard!Init
<1>2. Len(figureLog) = 0 /\ reading = 0 /\ uncounted = {}
    BY DEF Dashboard!Init
<1>3. \A r \in Dashboard!Read : reads[r].seen = 0
    BY DEF Dashboard!Init, Dashboard!Quiet
<1>. QED
    BY <1>1, <1>2, <1>3 DEF DashboardBounded

LEMMA DashboardBoundedPreserved ==
    DashboardShape /\ DashboardBounded /\ [Dashboard!Next]_(Dashboard!vars) => DashboardBounded'
<1> SUFFICES ASSUME DashboardShape, DashboardBounded, [Dashboard!Next]_(Dashboard!vars)
             PROVE  DashboardBounded'
    OBVIOUS
<1> USE DEF DashboardBounded
<1>0. /\ Len(figureLog) \in Nat /\ reading \in Nat /\ DOMAIN figureLog = 1 .. Len(figureLog)
      /\ figureFeed \in Nat
      /\ reads \in [Dashboard!Read -> [at : {Dashboard!None, "sent", "answered"}, seen : Nat]]
    BY DEF DashboardShape
<1>1. ASSUME NEW kind \in Changes, Dashboard!Change(kind) PROVE DashboardBounded'
    <2>1. Len(figureLog') = Len(figureLog) + 1
          /\ UNCHANGED <<figuresMounted, figureTimer, reads, reading, uncounted>>
        BY <1>1, DashboardLogGrows DEF Dashboard!Change
    <2>2. \A r \in Dashboard!Read : reads[r].seen \in Nat
        BY <1>0
    <2>. QED
        BY <1>0, <2>1, <2>2
<1>2. CASE Dashboard!Deliver
    <2>1. figureTimer' \in BOOLEAN
        BY <1>2, Zenon DEF Dashboard!Deliver
    <2>2. uncounted' \subseteq 1 .. Len(figureLog)
        BY <1>0, <1>2 DEF Dashboard!Deliver, Dashboard!Unheard, Dashboard!Between
    <2>. QED
        BY <1>2, <2>1, <2>2 DEF Dashboard!Deliver
<1>3. ASSUME NEW r \in Dashboard!Read, Dashboard!TimerFires(r) \/ Dashboard!ServerAnswers(r)
      PROVE  DashboardBounded'
    <2>1. UNCHANGED <<figureLog, figuresMounted, reading, uncounted>>
        BY <1>3 DEF Dashboard!TimerFires, Dashboard!ServerAnswers
    <2>2. \A q \in Dashboard!Read : reads'[q].seen \in {reads[q].seen, Len(figureLog)}
        BY <1>0, <1>3 DEF Dashboard!TimerFires, Dashboard!ServerAnswers
    <2>3. figureTimer' \in BOOLEAN
        BY <1>3, Zenon DEF Dashboard!TimerFires, Dashboard!ServerAnswers
    <2>. QED
        BY <1>0, <2>1, <2>2, <2>3
<1>4. ASSUME NEW r \in Dashboard!Read, NEW ok \in BOOLEAN, Dashboard!ReadEnds(r, ok)
      PROVE  DashboardBounded'
    <2>1. UNCHANGED <<figureLog, figureTimer>> /\ figuresMounted' = TRUE
          /\ reading' \in {reads[r].seen, reading}
        BY <1>4 DEF Dashboard!ReadEnds
    <2>2. uncounted' \subseteq 1 .. Len(figureLog)
        BY <1>0, <1>4 DEF Dashboard!ReadEnds, Dashboard!Between
    <2>3. \A q \in Dashboard!Read : reads'[q].seen \in {reads[q].seen, 0}
        BY <1>0, <1>4 DEF Dashboard!ReadEnds, Dashboard!Quiet
    <2>. QED
        BY <1>0, <2>1, <2>2, <2>3
<1>5. CASE UNCHANGED Dashboard!vars
    BY <1>5 DEF Dashboard!vars
<1>. QED
    BY <1>1, <1>2, <1>3, <1>4, <1>5 DEF Dashboard!Next, Changes

-----------------------------------------------------------------------------
(* The Apple accounts page                                                   *)

LEMMA AccountsTypeStarts == Accounts!Init => Accounts!TypeOK
<1> SUFFICES ASSUME Accounts!Init PROVE Accounts!TypeOK
    OBVIOUS
<1>1. imapOpen \in BOOLEAN /\ reselected \in BOOLEAN
    BY Zenon DEF Accounts!Init
<1>2. accountsLoad \in [open : BOOLEAN, items : (SUBSET Account) \cup {Accounts!Unread}]
    BY DEF Accounts!Init, Accounts!Asked
<1>. QED
    BY <1>1, <1>2 DEF Accounts!Init, Accounts!TypeOK, Accounts!Maybe

LEMMA AccountsTypePreserved ==
    Accounts!TypeOK /\ [Accounts!Next]_(Accounts!vars) => Accounts!TypeOK'
<1> SUFFICES ASSUME Accounts!TypeOK, [Accounts!Next]_(Accounts!vars) PROVE Accounts!TypeOK'
    OBVIOUS
<1> DEFINE LoadType == [open : BOOLEAN, items : (SUBSET Account) \cup {Accounts!Unread}]
<1> USE DEF Accounts!TypeOK
<1>0. /\ Accounts!Asked \in LoadType /\ Accounts!NoLoad \in LoadType
      /\ [open |-> TRUE, items |-> accounts] \in LoadType
      /\ Accounts!None \in Accounts!Maybe /\ \A a \in Account : a \in Accounts!Maybe
    BY DEF Accounts!Asked, Accounts!NoLoad, Accounts!Maybe
<1>1. ASSUME NEW a \in Accounts!Maybe, Accounts!Answer(a)
      PROVE  account' \in Accounts!Maybe /\ reselected' \in BOOLEAN
    BY <1>1, Zenon DEF Accounts!Answer
<1>2. ASSUME Accounts!Load PROVE accountsLoad' \in LoadType
    BY <1>0, <1>2 DEF Accounts!Load
<1>3. CASE Accounts!FeedLoads
    BY <1>2, <1>3 DEF Accounts!FeedLoads
<1>4. CASE Accounts!ServerLists
    BY <1>0, <1>4 DEF Accounts!ServerLists
<1>5. ASSUME NEW ok \in BOOLEAN, Accounts!LoadEnds(ok) PROVE Accounts!TypeOK'
    <2>1. accountsLoad.items \in SUBSET Account /\ accountsLoad' \in LoadType
        BY <1>0, <1>5 DEF Accounts!LoadEnds
    <2>. QED
        BY <1>0, <1>5, <2>1 DEF Accounts!LoadEnds
<1>6. ASSUME NEW a \in Account, Accounts!LoginAdds(a) PROVE Accounts!TypeOK'
    BY <1>2, <1>6 DEF Accounts!LoginAdds
<1>7. ASSUME NEW a \in Account, Accounts!Select(a) \/ Accounts!Delete(a) PROVE Accounts!TypeOK'
    BY <1>7 DEF Accounts!Select, Accounts!Delete
<1>8. ASSUME NEW a \in Account, NEW ok \in BOOLEAN, Accounts!DetailArrives(a, ok)
      PROVE  Accounts!TypeOK'
    BY <1>0, <1>8 DEF Accounts!DetailArrives
<1>9. ASSUME NEW a \in Account, NEW ok \in BOOLEAN, Accounts!DeleteArrives(a, ok)
      PROVE  Accounts!TypeOK'
    BY <1>0, <1>2, <1>9 DEF Accounts!DeleteArrives
<1>10. CASE Accounts!Check \/ Accounts!SaveIMAP
    BY <1>10 DEF Accounts!Check, Accounts!SaveIMAP
<1>11. ASSUME NEW ok \in BOOLEAN, Accounts!CheckArrives(ok) PROVE Accounts!TypeOK'
    <2>1. /\ account' \in Accounts!Maybe /\ reselected' \in BOOLEAN
          /\ accountsLoad' \in LoadType
        <3>1. CASE ok
            BY <1>1, <1>2, <1>11, <3>1 DEF Accounts!CheckArrives
        <3>2. CASE ~ok
            BY <1>11, <3>2 DEF Accounts!CheckArrives
        <3>. QED
            BY <3>1, <3>2
    <2>. QED
        BY <1>0, <1>11, <2>1 DEF Accounts!CheckArrives
<1>12. CASE Accounts!OpenIMAP \/ Accounts!CloseIMAP
    <2>1. imapOpen' \in BOOLEAN
        BY <1>12, Zenon DEF Accounts!OpenIMAP, Accounts!CloseIMAP
    <2>. QED
        BY <1>12, <2>1 DEF Accounts!OpenIMAP, Accounts!CloseIMAP
<1>13. ASSUME NEW ok \in BOOLEAN, Accounts!SaveArrives(ok) PROVE Accounts!TypeOK'
    <2>1. /\ account' \in Accounts!Maybe /\ reselected' \in BOOLEAN
          /\ accountsLoad' \in LoadType
        <3>1. CASE ok
            BY <1>1, <1>2, <1>13, <3>1 DEF Accounts!SaveArrives
        <3>2. CASE ~ok
            BY <1>13, <3>2 DEF Accounts!SaveArrives
        <3>. QED
            BY <3>1, <3>2
    <2>2. imapOpen' \in BOOLEAN
        BY <1>13, Zenon DEF Accounts!SaveArrives
    <2>. QED
        BY <1>0, <1>13, <2>1, <2>2 DEF Accounts!SaveArrives
<1>14. CASE UNCHANGED Accounts!vars
    BY <1>14 DEF Accounts!vars
<1>. QED
    BY <1>3, <1>4, <1>5, <1>6, <1>7, <1>8, <1>9, <1>10, <1>11, <1>12, <1>13, <1>14
    DEF Accounts!Next, Accounts!Step

-----------------------------------------------------------------------------
(* The notices.  That every notice has an id of its own, below the next one, *)
(* is what keeps remove() from taking another notice along.                  *)

OwnIds(s) == \A i, j \in DOMAIN s : s[i].id = s[j].id => i = j

ToastsInv ==
    /\ Toasts!TypeOK /\ OwnIds(notices)
    /\ \A i \in DOMAIN notices : notices[i].id < nextId
    /\ timers \subseteq 1 .. (nextId - 1)

\* The notices t are s without the one called id.
Removed(t, s, id) ==
    /\ t \in Seq(Toasts!Notice) /\ OwnIds(t)
    /\ Len(t) = IF \E i \in DOMAIN s : s[i].id = id THEN Len(s) - 1 ELSE Len(s)
    /\ \A k \in DOMAIN t : \E i \in DOMAIN s : t[k] = s[i]
    /\ \A i \in DOMAIN s : s[i].id # id => \E k \in DOMAIN t : t[k] = s[i]

\* remove() takes the notice with the given id, if there is one, and no other.
LEMMA NoticeRemoved ==
    ASSUME NEW s \in Seq(Toasts!Notice), OwnIds(s), NEW id, NEW t, t = Toasts!Without(s, id)
    PROVE  Removed(t, s, id)
<1> USE DEF Removed
<1>0. Len(s) \in Nat /\ DOMAIN s = 1 .. Len(s) /\ \A i \in DOMAIN s : s[i] \in Toasts!Notice
    OBVIOUS
<1>1. CASE \A i \in DOMAIN s : s[i].id # id
    BY <1>1 DEF Toasts!Without
<1>2. CASE \E i \in DOMAIN s : s[i].id = id
    <2> DEFINE at == CHOOSE i \in DOMAIN s : s[i].id = id
    <2>1. at \in 1 .. Len(s) /\ s[at].id = id
        BY <1>0, <1>2
    <2>2. t = [i \in 1 .. (Len(s) - 1) |-> IF i < at THEN s[i] ELSE s[i + 1]]
        BY <1>2 DEF Toasts!Without
    <2> HIDE DEF at
    <2>3. /\ t \in Seq(Toasts!Notice) /\ Len(t) = Len(s) - 1 /\ DOMAIN t = 1 .. (Len(s) - 1)
        BY <1>0, <2>1, <2>2
    <2> DEFINE from(k) == IF k < at THEN k ELSE k + 1
    <2>4. \A k \in DOMAIN t : from(k) \in DOMAIN s /\ t[k] = s[from(k)]
        BY <1>0, <2>1, <2>2, <2>3
    <2>5. OwnIds(t)
        <3>1. ASSUME NEW k \in DOMAIN t, NEW l \in DOMAIN t, t[k].id = t[l].id PROVE k = l
            <4>1. from(k) = from(l)
                BY <2>4, <3>1 DEF OwnIds
            <4>. QED
                BY <2>1, <2>3, <4>1
        <3>. QED
            BY <3>1 DEF OwnIds
    <2>6. ASSUME NEW i \in DOMAIN s, s[i].id # id PROVE \E k \in DOMAIN t : t[k] = s[i]
        <3>1. i # at /\ i \in 1 .. Len(s)
            BY <1>0, <2>1, <2>6
        <3>2. CASE i < at
            BY <2>1, <2>2, <2>3, <3>1, <3>2
        <3>3. CASE i > at
            <4>1. i - 1 \in DOMAIN t /\ ~(i - 1 < at) /\ (i - 1) + 1 = i
                BY <2>1, <2>3, <3>1, <3>3
            <4>. QED
                BY <2>2, <2>3, <4>1
        <3>. QED
            BY <2>1, <3>1, <3>2, <3>3
    <2>. QED
        BY <1>2, <2>3, <2>4, <2>5, <2>6
<1>. QED
    BY <1>1, <1>2

\* The notice that push() gives up is a shown one, and a persistent one only if all are.
LEMMA PassingFirst ==
    ASSUME NEW s \in Seq(Toasts!Notice), s # <<>>
    PROVE  \E i \in DOMAIN s : /\ Toasts!Evicted(s) = s[i].id
                               /\ s[i].persistent => \A j \in DOMAIN s : s[j].persistent
<1> DEFINE passing == {i \in DOMAIN s : ~s[i].persistent}
           first == CHOOSE i \in passing : \A j \in passing : i <= j
<1>0. Len(s) \in Nat /\ DOMAIN s = 1 .. Len(s) /\ 1 \in DOMAIN s
    OBVIOUS
<1>1. CASE passing = {}
    <2>1. Toasts!Evicted(s) = s[1].id
        BY <1>1 DEF Toasts!Evicted
    <2>. QED
        BY <1>0, <1>1, <2>1
<1>2. CASE passing # {}
    <2>1. Toasts!Evicted(s) = s[first].id
        BY <1>2 DEF Toasts!Evicted
    <2>2. passing \in SUBSET (0 .. Len(s))
        BY <1>0
    <2>3. \E i \in passing : \A j \in passing : i <= j
        BY <1>0, <1>2, <2>2, Least
    <2>4. first \in passing
        BY <2>3
    <2>. QED
        BY <2>1, <2>4
<1>. QED
    BY <1>1, <1>2

LEMMA ToastsStarts == Toasts!Init => ToastsInv
BY ConsoleAssumption DEF Toasts!Init, ToastsInv, Toasts!TypeOK, OwnIds

\* A new notice is shown with an id of its own, or it is the one that gives way.
LEMMA Pushed ==
    ASSUME ToastsInv, NEW persistent \in BOOLEAN, Toasts!Push(persistent)
    PROVE  /\ ToastsInv'
           /\ \A n \in Toasts!Shown : n.persistent /\ n \notin Toasts!Shown'
                 => \A m \in Toasts!Shown' : m.persistent
<1> DEFINE new == [id |-> nextId, persistent |-> persistent]
           all == Append(notices, new)
           own == IF persistent THEN {} ELSE {nextId}
<1>1. /\ nextId \in 1 .. MaxId /\ nextId' = nextId + 1 /\ nextId' \in 1 .. (MaxId + 1)
      /\ MaxId \in Nat /\ nextId \in Nat
    BY ConsoleAssumption DEF ToastsInv, Toasts!TypeOK, Toasts!Push
<1>2. /\ new \in Toasts!Notice /\ new.id = nextId
      /\ notices \in Seq(Toasts!Notice) /\ Len(notices) \in Nat /\ Len(notices) <= 3
    <2> HIDE DEF all, own
    <2>1. notices \in Seq(Toasts!Notice)
        BY DEF ToastsInv, Toasts!TypeOK
    <2>2. Len(notices) \in Nat /\ Len(notices) <= 3
        BY <2>1, LenProperties DEF ToastsInv, Toasts!TypeOK
    <2>3. new \in Toasts!Notice /\ new.id = nextId
        BY <1>1 DEF Toasts!Notice
    <2> HIDE DEF new
    <2>. QED
        BY <2>1, <2>2, <2>3
<1>3. /\ all \in Seq(Toasts!Notice) /\ Len(all) = Len(notices) + 1 /\ all # <<>>
      /\ DOMAIN all = 1 .. (Len(notices) + 1) /\ DOMAIN notices = 1 .. Len(notices)
      /\ \A i \in DOMAIN notices : i \in DOMAIN all /\ all[i] = notices[i]
      /\ all[Len(notices) + 1] = new
    BY <1>2
<1>4. /\ notices' = IF Toasts!TooMany(all) THEN Toasts!Without(all, Toasts!Evicted(all)) ELSE all
      /\ timers' \subseteq timers \cup {nextId}
    BY DEF Toasts!Push
<1> HIDE DEF new, all
<1>5. \A i \in DOMAIN all : i \in DOMAIN notices \/ i = Len(notices) + 1
    BY <1>2, <1>3
<1>6. \A i \in DOMAIN all : all[i].id \in Nat /\ all[i].id < nextId'
    <2>1. \A i \in DOMAIN notices : notices[i].id \in Nat
        <3>1. \A i \in DOMAIN notices : notices[i] \in Toasts!Notice
            BY <1>2
        <3>2. \A n \in Toasts!Notice : n.id \in Nat
            BY <1>1 DEF Toasts!Notice
        <3>. QED
            BY <3>1, <3>2
    <2>. QED
        BY <1>1, <1>2, <1>3, <1>5, <2>1 DEF ToastsInv
<1>7. OwnIds(all)
    <2>1. ASSUME NEW i \in DOMAIN all, NEW j \in DOMAIN all, all[i].id = all[j].id PROVE i = j
        <3>1. CASE i \in DOMAIN notices /\ j \in DOMAIN notices
            BY <1>3, <2>1, <3>1 DEF ToastsInv, OwnIds
        <3>2. CASE i \in DOMAIN notices /\ j = Len(notices) + 1
            BY <1>1, <1>2, <1>3, <2>1, <3>2 DEF ToastsInv
        <3>3. CASE i = Len(notices) + 1 /\ j \in DOMAIN notices
            BY <1>1, <1>2, <1>3, <2>1, <3>3 DEF ToastsInv
        <3>. QED
            BY <1>5, <3>1, <3>2, <3>3
    <2>. QED
        BY <2>1 DEF OwnIds
<1>8. timers' \subseteq 1 .. (nextId' - 1) /\ timers' \subseteq 1 .. MaxId
    <2>1. timers \subseteq 1 .. (nextId - 1)
        BY DEF ToastsInv
    <2>. QED
        BY <1>1, <1>4, <2>1
<1>9. CASE ~Toasts!TooMany(all)
    <2>1. notices' = all /\ Len(all) <= 3
        BY <1>2, <1>3, <1>4, <1>9 DEF Toasts!TooMany
    <2>2. ToastsInv'
        BY <1>1, <1>3, <1>6, <1>7, <1>8, <2>1 DEF ToastsInv, Toasts!TypeOK, OwnIds
    <2>3. \A n \in Toasts!Shown : n \in Toasts!Shown'
        BY <1>3, <2>1 DEF Toasts!Shown
    <2>. QED
        BY <2>2, <2>3
<1>10. CASE Toasts!TooMany(all)
    <2>1. notices' = Toasts!Without(all, Toasts!Evicted(all))
        BY <1>4, <1>10
    <2>2. PICK e \in DOMAIN all : /\ Toasts!Evicted(all) = all[e].id
                                  /\ all[e].persistent => \A j \in DOMAIN all : all[j].persistent
        BY <1>3, PassingFirst
    <2>3. /\ notices' \in Seq(Toasts!Notice) /\ OwnIds(notices')
          /\ Len(notices') = Len(all) - 1
          /\ \A k \in DOMAIN notices' : \E i \in DOMAIN all : notices'[k] = all[i]
          /\ \A i \in DOMAIN all :
                all[i].id # all[e].id => \E k \in DOMAIN notices' : notices'[k] = all[i]
        <3>1. \E i \in DOMAIN all : all[i].id = all[e].id
            OBVIOUS
        <3>2. notices' = Toasts!Without(all, all[e].id)
            BY <2>1, <2>2, Zenon
        <3>3. all \in Seq(Toasts!Notice)
            BY <1>3
        <3>4. Removed(notices', all, all[e].id)
            BY <1>7, <3>2, <3>3, NoticeRemoved, Zenon
        <3>5. Len(notices') = Len(all) - 1
            BY <3>1, <3>4 DEF Removed
        <3>. QED
            BY <3>4, <3>5, Zenon DEF Removed
    <2>4. ToastsInv'
        <3>1. Len(notices') <= 3
            <4>1. Len(notices) \in Nat /\ Len(notices) <= 3 /\ Len(notices') = (Len(notices) + 1) - 1
                BY <1>2, <1>3, <2>3
            <4>. QED
                BY <4>1
        <3>2. \A k \in DOMAIN notices' : notices'[k].id < nextId'
            BY <1>6, <2>3
        <3>. QED
            BY <1>1, <1>8, <2>3, <3>1, <3>2 DEF ToastsInv, Toasts!TypeOK, OwnIds
    <2>5. ASSUME NEW n \in Toasts!Shown, n.persistent, n \notin Toasts!Shown',
                 NEW m \in Toasts!Shown'
          PROVE  m.persistent
        <3>1. PICK i \in DOMAIN all : n = all[i]
            BY <1>3, <2>5 DEF Toasts!Shown
        <3>2. all[i].id = all[e].id
            BY <2>3, <2>5, <3>1 DEF Toasts!Shown
        <3>3. i = e
            BY <1>7, <3>2 DEF OwnIds
        <3>4. \A j \in DOMAIN all : all[j].persistent
            <4>1. n = all[e]
                BY <3>1, <3>3
            <4>2. all[e].persistent
                BY <2>5, <4>1, Zenon
            <4>. QED
                BY <2>2, <4>2, Zenon
        <3>. QED
            BY <2>3, <2>5, <3>4 DEF Toasts!Shown
    <2>. QED
        BY <2>4, <2>5
<1>. QED
    BY <1>9, <1>10

LEMMA ToastsPreserved == ToastsInv /\ [Toasts!Next]_(Toasts!vars) => ToastsInv'
<1> SUFFICES ASSUME ToastsInv, [Toasts!Next]_(Toasts!vars) PROVE ToastsInv'
    OBVIOUS
<1>0. /\ notices \in Seq(Toasts!Notice) /\ Len(notices) <= 3 /\ DOMAIN notices = 1 .. Len(notices)
      /\ nextId \in 1 .. (MaxId + 1) /\ MaxId \in Nat /\ timers \subseteq 1 .. MaxId
    BY ConsoleAssumption DEF ToastsInv, Toasts!TypeOK
<1>1. ASSUME NEW persistent \in BOOLEAN, NEW id \in 1 .. (nextId - 1),
             Toasts!Update(id, persistent), \E n \in Toasts!Shown : n.id = id
      PROVE  ToastsInv'
    <2> DEFINE new == [id |-> id, persistent |-> persistent]
    <2>1. /\ notices' = [i \in DOMAIN notices |-> IF notices[i].id = id THEN new ELSE notices[i]]
          /\ timers' \subseteq timers \cup {id} /\ nextId' = nextId
        BY <1>1 DEF Toasts!Update
    <2>2. new \in Toasts!Notice /\ new.id = id
        BY <1>0 DEF Toasts!Notice
    <2> HIDE DEF new
    <2>3. /\ notices' \in Seq(Toasts!Notice) /\ Len(notices') = Len(notices)
          /\ DOMAIN notices' = DOMAIN notices
        BY <1>0, <2>1, <2>2
    <2>4. \A i \in DOMAIN notices : notices'[i].id = notices[i].id
        BY <2>1, <2>2
    <2>5. OwnIds(notices')
        BY <2>3, <2>4 DEF ToastsInv, OwnIds
    <2>6. \A i \in DOMAIN notices' : notices'[i].id < nextId'
        BY <2>1, <2>3, <2>4 DEF ToastsInv
    <2>7. timers' \subseteq 1 .. (nextId' - 1) /\ timers' \subseteq 1 .. MaxId
        BY <1>0, <2>1 DEF ToastsInv
    <2>. QED
        BY <1>0, <2>1, <2>3, <2>5, <2>6, <2>7 DEF ToastsInv, Toasts!TypeOK, OwnIds
<1>2. ASSUME NEW persistent \in BOOLEAN, NEW id \in 1 .. (nextId - 1),
             Toasts!Update(id, persistent), ~ \E n \in Toasts!Shown : n.id = id
      PROVE  ToastsInv'
    BY <1>2, Pushed DEF Toasts!Update
<1>3. ASSUME NEW id, Toasts!Dismiss(id) PROVE ToastsInv'
    <2>1. /\ notices' = Toasts!Without(notices, id) /\ timers' \subseteq timers
          /\ nextId' = nextId
        BY <1>3 DEF Toasts!Dismiss
    <2>2. OwnIds(notices)
        BY DEF ToastsInv
    <2>3. /\ notices' \in Seq(Toasts!Notice) /\ OwnIds(notices')
          /\ Len(notices') \in {Len(notices) - 1, Len(notices)}
          /\ \A k \in DOMAIN notices' : \E i \in DOMAIN notices : notices'[k] = notices[i]
        <3>1. notices \in Seq(Toasts!Notice)
            BY <1>0
        <3>2. Removed(notices', notices, id)
            BY <2>1, <2>2, <3>1, NoticeRemoved, Zenon
        <3>3. Len(notices') \in {Len(notices) - 1, Len(notices)}
            BY <3>2 DEF Removed
        <3>. QED
            BY <3>2, <3>3, Zenon DEF Removed
    <2>4. Len(notices') <= 3
        <3>1. Len(notices) \in Nat /\ Len(notices) <= 3
            BY <1>0, LenProperties
        <3>2. Len(notices') = Len(notices) - 1 \/ Len(notices') = Len(notices)
            BY <2>3
        <3>. QED
            BY <3>1, <3>2
    <2>5. \A k \in DOMAIN notices' : notices'[k].id < nextId'
        BY <2>1, <2>3 DEF ToastsInv
    <2>6. timers' \subseteq 1 .. (nextId' - 1) /\ timers' \subseteq 1 .. MaxId
        BY <1>0, <2>1 DEF ToastsInv
    <2>. QED
        BY <1>0, <2>1, <2>3, <2>4, <2>5, <2>6 DEF ToastsInv, Toasts!TypeOK, OwnIds
<1>4. CASE UNCHANGED Toasts!vars
    BY <1>4 DEF Toasts!vars, ToastsInv, Toasts!TypeOK, OwnIds
<1>. QED
    BY <1>1, <1>2, <1>3, <1>4, Pushed DEF Toasts!Next

LEMMA ToastsAlways == Spec => []ToastsInv
<1>1. Init => Toasts!Init
    BY DEF Init
<1>. QED
    BY <1>1, ToastsStarts, ToastsPreserved, ToastsSteps, PTL DEF Spec

\* A progress notice is pushed out only when every notice left is one too, with any number of
\* notices of any pages.  (useToast's push)
THEOREM ProgressAlwaysStays == Spec => ProgressStays
<1> DEFINE Stays == \A n \in Toasts!Shown :
                       n.persistent /\ nextId' # nextId /\ n \notin Toasts!Shown'
                       => \A m \in Toasts!Shown' : m.persistent
<1>1. ASSUME ToastsInv, Toasts!Next PROVE Stays
    <2>1. CASE nextId' = nextId
        BY <2>1
    <2>2. CASE nextId' # nextId
        <3>1. PICK persistent \in BOOLEAN : Toasts!Push(persistent)
            BY <1>1, <2>2 DEF Toasts!Next, Toasts!Update, Toasts!Dismiss
        <3>. QED
            BY <1>1, <3>1, Pushed
    <2>. QED
        BY <2>1, <2>2
<1>2. ToastsInv /\ [Next]_vars => [Stays]_(Toasts!vars)
    BY <1>1, ToastsSteps
<1>. QED
    BY <1>2, ToastsAlways, PTL DEF Spec, ProgressStays, Toasts!ProgressStays

-----------------------------------------------------------------------------
(* The types of all pages                                                    *)

LEMMA QueueTyped == QueueInv => Queue!TypeOK
BY DEF QueueInv

LEMMA ListTyped == Spec => []List!TypeOK
BY ListStarts, ListPreserved, ListSteps, PTL DEF Spec

LEMMA DetailTyped == Spec => []Detail!TypeOK
<1>1. Init => Detail!Init
    BY DEF Init
<1>2. Init => DrawerTyped /\ PartsTyped
    BY <1>1, DetailStarts, PartsStart DEF DetailInv
<1>3. DrawerTyped /\ PartsTyped /\ [Next]_vars => DrawerTyped' /\ PartsTyped'
    BY DetailSteps, DrawerTypePreserved, PartsPreserved
<1>4. DrawerTyped /\ PartsTyped => Detail!TypeOK
    BY DEF DrawerTyped, PartsTyped, Detail!TypeOK
<1>. QED
    BY <1>2, <1>3, <1>4, PTL DEF Spec

LEMMA JobsTyped == Spec => []Jobs!TypeOK
BY JobsStarts, JobsPreserved, JobsSteps, PTL DEF Spec

LEMMA TasksTyped == Spec => []Tasks!TypeOK
<1>1. TasksInv => Tasks!TypeOK
    <2> SUFFICES ASSUME TasksInv PROVE Tasks!TypeOK
        OBVIOUS
    <2>0. scheduler \in Nat
        BY ConsoleAssumption DEF TasksInv
    <2>1. ASSUME NEW r \in {silent, refresh}
          PROVE  r.status \in 0 .. scheduler /\ r.at \in {Tasks!None, "sent", "answered"}
        BY <2>0, <2>1 DEF TasksInv, Carries
    <2>2. ASSUME NEW i \in Tasks!Slot
          PROVE  /\ command[i].what \in Tasks!Command \cup {Tasks!None, "mount"}
                 /\ command[i].at \in Tasks!Stage /\ command[i].status \in 0 .. scheduler
        BY <2>0 DEF TasksInv, CallsCarry, Called
    <2>. QED
        BY <2>1, <2>2 DEF TasksInv, Tasks!TypeOK
<1>. QED
    BY <1>1, TasksStarts, TasksPreserved, TasksSteps, PTL DEF Spec

LEMMA CreateTyped == CreateInv => Create!TypeOK
<1> SUFFICES ASSUME CreateInv PROVE Create!TypeOK
    OBVIOUS
<1>1. puts \subseteq Create!Put /\ Create!Cardinality(puts) <= MaxPuts
    BY CreateCountOf DEF CreateInv, SavesKnown, Numbered
<1>. QED
    BY <1>1 DEF CreateInv, FormTyped, Create!TypeOK

LEMMA DashboardTyped == Spec => []Dashboard!TypeOK
<1>1. Init => Dashboard!Init
    BY DEF Init
<1>2. DashboardInv => DashboardShape
    BY DEF DashboardInv
<1>3. Init => DashboardInv /\ DashboardBounded
    BY <1>1, DashboardStarts, DashboardBoundedStarts
<1>4. DashboardInv /\ DashboardBounded /\ [Next]_vars => (DashboardInv /\ DashboardBounded)'
    BY <1>2, DashboardSteps, DashboardPreserved, DashboardBoundedPreserved
<1>5. DashboardInv /\ DashboardBounded => Dashboard!TypeOK
    <2> SUFFICES ASSUME DashboardInv, DashboardBounded PROVE Dashboard!TypeOK
        OBVIOUS
    <2>1. /\ Len(figureLog) \in Nat /\ DOMAIN figureLog = 1 .. Len(figureLog)
          /\ {figureFeed, reading, shownAt} \subseteq 0 .. Len(figureLog)
        BY DEF DashboardInv, DashboardShape, DashboardBounded
    <2>2. reads \in [Dashboard!Read -> [at : {Dashboard!None, "sent", "answered"},
                                        seen : 0 .. Len(figureLog)]]
        BY <2>1 DEF DashboardInv, DashboardShape, DashboardBounded
    <2>3. counted \in [1 .. MaxLog -> 0 .. 2]
        <3>1. \A k \in 1 .. MaxLog : counted[k] \in 0 .. 2
            BY DEF DashboardInv, ByReading, ByFeed
        <3>. QED
            BY <3>1 DEF DashboardInv, DashboardShape
    <2>. QED
        BY <2>1, <2>2, <2>3
           DEF DashboardInv, DashboardShape, DashboardBounded, Dashboard!TypeOK, Changes
<1>. QED
    BY <1>3, <1>4, <1>5, PTL DEF Spec

LEMMA SettingsTyped == Spec => []Settings!TypeOK
<1>1. Init => Settings!Init
    BY DEF Init
<1>2. SettingsInv => SettingsShape
    BY DEF SettingsInv
<1>3. Init => SettingsInv /\ SettingsBounded
    BY <1>1, SettingsStarts, SettingsBoundedStarts
<1>4. SettingsInv /\ SettingsBounded /\ [Next]_vars => (SettingsInv /\ SettingsBounded)'
    BY <1>2, SettingsSteps, SettingsPreserved, SettingsBoundedPreserved
<1>5. SettingsShape /\ SettingsBounded => Settings!TypeOK
    <2> SUFFICES ASSUME SettingsShape, SettingsBounded PROVE Settings!TypeOK
        OBVIOUS
    <2>1. Len(log) \in Nat /\ DOMAIN log = 1 .. Len(log)
        BY DEF SettingsShape
    <2>2. requests \in [Settings!Request -> [at : {Settings!None, "sent", "answered"},
                                             seen : 0 .. Len(log)]]
        BY <2>1 DEF SettingsShape, SettingsBounded
    <2>. QED
        BY <2>1, <2>2 DEF SettingsShape, SettingsBounded, Settings!TypeOK
<1>. QED
    BY <1>2, <1>3, <1>4, <1>5, PTL DEF Spec

LEMMA AccountsTyped == Spec => []Accounts!TypeOK
<1>1. Init => Accounts!Init
    BY DEF Init
<1>. QED
    BY <1>1, AccountsTypeStarts, AccountsTypePreserved, AccountsSteps, PTL DEF Spec

LEMMA PublicTyped == Spec => []Public!TypeOK
<1>1. Init => Public!Init
    BY DEF Init
<1>2. PublicInv => Public!TypeOK
    BY DEF PublicInv
<1>. QED
    BY <1>1, <1>2, PublicStarts, PublicPreserved, PublicSteps, PTL DEF Spec

LEMMA WebTyped == Spec => []Web!TypeOK
<1>1. Init => Web!Init
    BY DEF Init
<1>2. WebInv => Web!TypeOK
    BY DEF WebInv
<1>. QED
    BY <1>1, <1>2, WebStarts, WebPreserved, WebSteps, PTL DEF Spec

\* Every variable of every page keeps its type: no list of a page outgrows its bound, no page
\* shows what the server never had, and no request is in a state its answer does not know.
THEOREM TypesAlwaysKept == Spec => []TypeOK
<1>1. ToastsInv => Toasts!TypeOK
    BY DEF ToastsInv
<1>. QED
    BY <1>1, QueueAlways, QueueTyped, ListTyped, DetailTyped, JobsTyped, TasksTyped, CreateAlways,
       CreateTyped, DashboardTyped, SettingsTyped, AccountsTyped, PublicTyped, WebTyped,
       ToastsAlways, PTL DEF TypeOK
=============================================================================
