--------------------------- MODULE SchedulerProofs ---------------------------
(***************************************************************************)
(* Theorems about Scheduler for any length of the day, the month and the   *)
(* runs, any run time, and any number of requests, loops and restarts.     *)
(***************************************************************************)
EXTENDS Scheduler, TLAPS

-----------------------------------------------------------------------------
(* Typing.                                                                 *)

\* Numbers of days and hours are numbers.
LEMMA Numbers ==
    /\ {Day, Hour, MonthLength, MaxTasks} \subseteq Nat \ {0}
    /\ {Horizon, Early, Lag, MinRun, MaxRun} \subseteq Nat
BY SchedulerAssumption

\* Today is the day that contains now.
LEMMA TodayType ==
    ASSUME now \in Nat
    PROVE  Today \in Nat /\ now < (Today + 1) * Day
BY Numbers DEF Today

LEMMA TargetType ==
    ASSUME runTime \in Nat, NEW d \in Nat
    PROVE  Target(d) \in Nat
BY Numbers DEF Target

\* A sleep makes a task of the right type.
LEMMA SleepType ==
    ASSUME tasks \in [Tasks -> TaskState], NEW k \in Tasks, NEW pc \in {"asleep", "erring"},
           NEW t \in Nat, NEW d \in Nat, Sleep(k, pc, t, d)
    PROVE  tasks' \in [Tasks -> TaskState]
BY DEF Sleep, TaskState

\* What the two fixed task states are.
LEMMA DoneType ==
    /\ Done \in TaskState /\ Done.pc = "done"
    /\ NotStarted \in TaskState /\ NotStarted.pc = "none"
BY DEF Done, NotStarted, TaskState

\* The step from the while to the next sleep, whichever sleep it is.
LEMMA HeadType ==
    ASSUME TypeOK, NEW k \in Tasks, Head(k)
    PROVE  tasks' \in [Tasks -> TaskState]
<1>1. /\ now \in Nat /\ runTime \in Nat /\ tasks \in [Tasks -> TaskState]
      /\ Today \in Nat /\ Today + 1 \in Nat /\ now + Hour \in Nat
    BY Numbers, TodayType DEF TypeOK
<1>2. Target(Today) \in Nat /\ Target(Today + 1) \in Nat
    BY <1>1, TargetType
<1>3. CASE tasks' = [tasks EXCEPT ![k] = Done]
    BY <1>1, <1>3, DoneType
<1>4. CASE \/ Sleep(k, "asleep", Target(Today), Today)
           \/ Sleep(k, "asleep", Target(Today + 1), Today + 1)
           \/ Sleep(k, "erring", now + Hour, 0)
    BY <1>1, <1>2, <1>4, SleepType
<1> QED BY <1>3, <1>4 DEF Head

LEMMA TypeInit == Init => TypeOK
<1> SUFFICES ASSUME Init PROVE TypeOK
    OBVIOUS
<1>1. tasks \in [Tasks -> TaskState]
    BY DoneType DEF Init
<1>2. /\ now \in Nat /\ since \in 0..now /\ runTime \in 0..(Day - 1)
      /\ task \in Tasks \cup {NoTask} /\ begun \subseteq Nat
    BY DEF Init
<1>3. request \in [Requests -> Tasks \cup {NoTask}] /\ completed \in [Days -> 0..2]
    BY DEF Init
<1>4. /\ up \in BOOLEAN /\ isRunning \in BOOLEAN
      /\ isRunning \/ task # NoTask => up
    BY DEF Init
<1> QED BY <1>1, <1>2, <1>3, <1>4 DEF TypeOK

\* Dying, and starting and stopping, keep the types.
LEMMA TypeControl ==
    ASSUME TypeOK, Boot \/ Start \/ Shutdown \/ Crash \/ \E c \in Requests : Stop(c) \/ Answer(c)
    PROVE  TypeOK'
<1> USE DEF TypeOK, history
<1>1. ASSUME StartScheduler, UNCHANGED <<now, runTime, request, begun, completed>>, up'
      PROVE  TypeOK'
    <2>1. PICK k \in Tasks : tasks' = [tasks EXCEPT ![k].pc = "new"] /\ task' = k
        BY <1>1 DEF StartScheduler
    <2>2. tasks' \in [Tasks -> TaskState]
        BY <2>1 DEF TaskState
    <2>3. isRunning' = TRUE /\ since' = now /\ now \in Nat
        BY <1>1 DEF StartScheduler
    <2> QED BY <1>1, <2>1, <2>2, <2>3
<1>2. CASE Boot \/ Start
    BY <1>1, <1>2 DEF Boot, Start, Free
<1>3. ASSUME NEW c \in Requests, StopScheduler(c), UNCHANGED <<now, runTime, up, task, history>>, up
      PROVE  TypeOK'
    <2> DEFINE b == tasks[task].pc # "done"
    <2>0. b \in BOOLEAN /\ tasks' = [tasks EXCEPT ![task].cancelled = b]
        BY <1>3 DEF StopScheduler
    <2> HIDE DEF b
    <2>1. tasks' \in [Tasks -> TaskState]
        BY <2>0 DEF TaskState
    <2> QED BY <1>3, <2>1 DEF StopScheduler
<1>4. CASE Shutdown \/ \E c \in Requests : Stop(c)
    BY <1>3, <1>4 DEF Shutdown, Stop, Free, Requests
<1>5. ASSUME ProcessEnds, UNCHANGED <<now, runTime, history>> PROVE TypeOK'
    BY <1>5, DoneType DEF ProcessEnds
<1>6. CASE Crash
    BY <1>5, <1>6 DEF Crash
<1>7. ASSUME NEW c \in Requests, Answer(c) PROVE TypeOK'
    BY <1>5, <1>7 DEF Answer
<1> QED BY <1>2, <1>4, <1>6, <1>7

\* The steps of a loop keep the types.
LEMMA TypeTask ==
    ASSUME TypeOK, NEW k \in Tasks, TaskStep(k)
    PROVE  TypeOK'
<1>1. tasks' \in [Tasks -> TaskState]
    <2>1. CASE Head(k)
        BY <2>1, HeadType
    <2>2. CASE Cancelled(k)
        BY <2>2, DoneType DEF Cancelled, TypeOK
    <2>3. CASE tasks' = [tasks EXCEPT ![k].pc = "running", ![k].until = now]
        <3>1. now \in Nat /\ tasks \in [Tasks -> TaskState]
            BY DEF TypeOK
        <3>2. [tasks[k] EXCEPT !.pc = "running", !.until = now] \in TaskState
            BY <3>1 DEF TaskState
        <3>3. tasks' = [tasks EXCEPT ![k] = [tasks[k] EXCEPT !.pc = "running", !.until = now]]
            BY <2>3, <3>1
        <3> QED BY <3>1, <3>2, <3>3
    <2> QED BY <2>1, <2>2, <2>3 DEF TaskStep, Begin, Wake, EndRun, Retry
<1>2. UNCHANGED <<now, runTime, up, isRunning, task, request, since>>
    BY DEF TaskStep, Begin, Wake, EndRun, Retry, Cancelled, history
<1>3. begun' \subseteq Nat
    <2>1. tasks[k].day \in Nat
        BY DEF TypeOK, TaskState
    <2> QED BY <2>1 DEF TaskStep, Begin, Wake, EndRun, Retry, Cancelled, history, TypeOK
<1>4. completed' \in [Days -> 0..2]
    BY DEF TaskStep, Begin, Wake, EndRun, Retry, Cancelled, history, TypeOK
<1> QED BY <1>1, <1>2, <1>3, <1>4 DEF TypeOK

LEMMA TypeNext == TypeOK /\ [Next]_vars => TypeOK'
<1> SUFFICES ASSUME TypeOK, [Next]_vars PROVE TypeOK'
    OBVIOUS
<1>1. CASE Tick
    BY <1>1 DEF Tick, TypeOK, history
<1>2. CASE UNCHANGED vars
    BY <1>2 DEF vars, TypeOK
<1> QED BY <1>1, <1>2, TypeControl, TypeTask DEF Next

\* Types are invariant.
THEOREM TypeCorrect == Spec => []TypeOK
BY TypeInit, TypeNext, PTL DEF Spec

-----------------------------------------------------------------------------
(* One loop at a time.                                                     *)

\* A reconciliation holds the event loop, so nobody cancels its task, nor one
\* that does not exist yet.
RunUndisturbed ==
    /\ \A k \in Tasks : tasks[k].pc \in {"none", "running"} => ~tasks[k].cancelled
    /\ task \in Tasks => tasks[task].pc # "none"

LoopInv == OneLoop /\ RunUndisturbed

LEMMA LoopInit == Init => LoopInv
BY DEF Init, LoopInv, OneLoop, RunUndisturbed, Live, NotStarted, Tasks, NoTask

\* Head leaves an uncancelled live task of the running scheduler alive.
LEMMA LoopHead ==
    ASSUME TypeOK, LoopInv, NEW k \in Tasks, k \in Live, Head(k),
           UNCHANGED <<isRunning, task>>
    PROVE  LoopInv'
<1>1. isRunning /\ k = task
    BY DEF LoopInv, OneLoop
<1>2. /\ tasks'[k].pc \in {"asleep", "erring"} /\ tasks'[k].cancelled = FALSE
      /\ \A j \in Tasks : j # k => tasks'[j] = tasks[j]
    BY <1>1 DEF Head, Sleep, TypeOK
<1>3. Live' = Live
    BY <1>2 DEF Live
<1> QED BY <1>1, <1>2, <1>3 DEF LoopInv, OneLoop, RunUndisturbed

\* The steps of a task.
LEMMA LoopTask ==
    ASSUME TypeOK, LoopInv, NEW k \in Tasks, TaskStep(k)
    PROVE  LoopInv'
<1>1. UNCHANGED <<isRunning, task>>
    BY DEF TaskStep, Begin, Wake, EndRun, Retry, Cancelled
<1>2. CASE (Begin(k) \/ EndRun(k) \/ Retry(k) \/ Wake(k)) /\ Head(k)
    <2>1. k \in Live
        BY <1>2 DEF Begin, EndRun, Retry, Wake, Awake, Live, LoopInv, RunUndisturbed
    <2> QED BY <1>1, <1>2, <2>1, LoopHead
<1>3. CASE Wake(k) /\ ~Head(k)
    <2>1. /\ tasks[k].pc = "asleep" /\ ~tasks[k].cancelled
          /\ tasks' = [tasks EXCEPT ![k].pc = "running", ![k].until = now]
        BY <1>3 DEF Wake, Awake
    <2>2. /\ tasks'[k].pc = "running" /\ tasks'[k].cancelled = tasks[k].cancelled
          /\ \A j \in Tasks : j # k => tasks'[j] = tasks[j]
        BY <2>1 DEF TypeOK, TaskState
    <2>3. Live' = Live
        BY <2>1, <2>2 DEF Live
    <2> QED BY <1>1, <2>1, <2>2, <2>3 DEF LoopInv, OneLoop, RunUndisturbed
<1>4. CASE Cancelled(k)
    <2>1. /\ tasks[k].cancelled /\ tasks'[k] = Done
          /\ \A j \in Tasks : j # k => tasks'[j] = tasks[j]
        BY <1>4 DEF Cancelled, TypeOK
    <2>2. Live' = Live
        BY <2>1, DoneType DEF Live
    <2> QED BY <1>1, <2>1, <2>2, DoneType DEF LoopInv, OneLoop, RunUndisturbed
<1> QED BY <1>2, <1>3, <1>4 DEF TaskStep, Begin, EndRun, Retry

\* Starting, stopping and dying.
LEMMA LoopControl ==
    ASSUME TypeOK, LoopInv,
           Boot \/ Start \/ Shutdown \/ Crash \/ \E c \in Requests : Stop(c) \/ Answer(c)
    PROVE  LoopInv'
<1>1. CASE Boot \/ Start
    <2>1. StartScheduler
        BY <1>1 DEF Boot, Start
    <2>2. PICK k \in Tasks : /\ tasks[k].pc = "none" /\ task' = k
                             /\ tasks' = [tasks EXCEPT ![k].pc = "new"]
        BY <2>1 DEF StartScheduler
    <2>3. isRunning' /\ Live = {}
        BY <2>1 DEF StartScheduler, LoopInv, OneLoop
    <2>4. /\ tasks'[k].pc = "new" /\ ~tasks'[k].cancelled
          /\ \A j \in Tasks : j # k => tasks'[j] = tasks[j]
        BY <2>2 DEF TypeOK, TaskState, LoopInv, RunUndisturbed
    <2>5. Live' = {k}
        BY <2>3, <2>4 DEF Live
    <2> QED BY <2>2, <2>3, <2>4, <2>5 DEF LoopInv, OneLoop, RunUndisturbed
<1>2. ASSUME NEW c \in Requests, StopScheduler(c), Free, UNCHANGED task PROVE LoopInv'
    <2>1. tasks' = [tasks EXCEPT ![task].cancelled = (tasks[task].pc # "done")] /\ ~isRunning'
        BY <1>2 DEF StopScheduler
    <2>2. \A k \in Tasks : /\ tasks'[k].pc = tasks[k].pc
                           /\ k # task => tasks'[k] = tasks[k]
                           /\ k = task => tasks'[k].cancelled = (tasks[k].pc # "done")
        BY <2>1 DEF TypeOK, TaskState
    <2>3. Live' = {}
        BY <2>2 DEF Live, LoopInv, OneLoop
    <2>4. \A k \in Tasks : /\ tasks'[k].pc # "running"
                           /\ tasks'[k].pc = "none" => tasks'[k].cancelled = tasks[k].cancelled
        BY <1>2, <2>2 DEF Free, LoopInv, RunUndisturbed
    <2> QED BY <1>2, <2>1, <2>2, <2>3, <2>4 DEF LoopInv, OneLoop, RunUndisturbed
<1>3. CASE Shutdown \/ \E c \in Requests : Stop(c)
    BY <1>2, <1>3 DEF Shutdown, Stop, Requests
<1>4. ASSUME ProcessEnds PROVE LoopInv'
    <2>1. ~isRunning' /\ \A k \in Tasks : tasks'[k].pc \in {"none", "done"}
        BY <1>4, DoneType DEF ProcessEnds
    <2>2. task' \notin Tasks /\ \A k \in Tasks : ~tasks'[k].cancelled
        BY <1>4 DEF ProcessEnds, NoTask, Tasks, NotStarted, Done
    <2> QED BY <2>1, <2>2 DEF LoopInv, OneLoop, RunUndisturbed, Live
<1>5. ASSUME NEW c \in Requests, Answer(c) PROVE LoopInv'
    <2>1. CASE UNCHANGED <<isRunning, task, tasks>>
        BY <2>1 DEF LoopInv, OneLoop, RunUndisturbed, Live
    <2> QED BY <1>4, <1>5, <2>1 DEF Answer
<1> QED BY <1>1, <1>3, <1>4, <1>5 DEF Crash

LEMMA LoopNext == TypeOK /\ LoopInv /\ [Next]_vars => LoopInv'
<1> SUFFICES ASSUME TypeOK, LoopInv, [Next]_vars PROVE LoopInv'
    OBVIOUS
<1>1. CASE Tick \/ UNCHANGED vars
    <2>1. UNCHANGED <<isRunning, task, tasks>>
        BY <1>1 DEF Tick, vars
    <2> QED BY <2>1 DEF LoopInv, OneLoop, RunUndisturbed, Live
<1> QED BY <1>1, LoopTask, LoopControl DEF Next

\* However starts, stops, shutdowns and crashes follow or overtake each other,
\* the flag is up exactly while self.task is the only loop that goes on.
THEOREM OnlyOneLoop == Spec => []OneLoop
<1>1. Spec => []LoopInv
    BY TypeCorrect, LoopInit, LoopNext, PTL DEF Spec
<1>2. LoopInv => OneLoop
    BY DEF LoopInv
<1> QED BY <1>1, <1>2, PTL

-----------------------------------------------------------------------------
(* One reconciliation a day.                                               *)

\* What a loop that goes on is about to do has not been done: the day it sleeps
\* towards, or whose reconciliation it runs, is not completed; and it begins at
\* most Early ticks before the target.
Ahead(k) ==
    /\ tasks[k].pc = "asleep" => tasks[k].until = Target(tasks[k].day)
    /\ tasks[k].pc = "running" => tasks[k].until + Early >= Target(tasks[k].day)
    /\ tasks[k].pc \in {"asleep", "running"} /\ tasks[k].day \in Days
           => completed[tasks[k].day] = 0

\* A day is completed once, and only after its target.
CompletedLate ==
    \A d \in Days : completed[d] = 0 \/ (completed[d] = 1 /\ now > Target(d))

OnceInv == CompletedLate /\ \A k \in Live : Ahead(k)

LEMMA OnceInit == Init => OnceInv
BY DEF Init, OnceInv, CompletedLate, Live, NotStarted

\* The types the arithmetic needs.
LEMMA OnceTypes ==
    ASSUME TypeOK
    PROVE  /\ now \in Nat /\ runTime \in Nat
           /\ \A k \in Tasks : tasks[k].until \in Nat /\ tasks[k].day \in Nat
           /\ \A d \in Days : d \in Nat /\ completed[d] \in 0..2
           /\ \A d \in Nat : Target(d) \in Nat
<1>1. now \in Nat /\ runTime \in Nat
    BY Numbers DEF TypeOK
<1>2. \A k \in Tasks : tasks[k].until \in Nat /\ tasks[k].day \in Nat
    BY DEF TypeOK, TaskState
<1>3. \A d \in Days : d \in Nat /\ completed[d] \in 0..2
    <2>1. completed \in [Days -> 0..2]
        BY DEF TypeOK
    <2>2. \A d \in Days : d \in Nat
        BY Numbers DEF Days
    <2> QED BY <2>1, <2>2
<1> QED BY <1>1, <1>2, <1>3, TargetType

\* The loop goes to sleep towards a target that has not passed, so one whose
\* reconciliation is not completed.
LEMMA OnceHead ==
    ASSUME TypeOK, NEW k \in Tasks, Head(k), CompletedLate', UNCHANGED <<now, runTime>>,
           k \in Live'
    PROVE  Ahead(k)'
<1>1. /\ now \in Nat /\ runTime \in Nat /\ Today \in Nat /\ now < (Today + 1) * Day
      /\ Today + 1 \in Nat /\ Target(Today) \in Nat /\ Target(Today + 1) \in Nat
    BY TodayType, OnceTypes
<1>2. \A d : Target(d)' = Target(d)
    BY DEF Target
<1>3. ASSUME NEW d \in Nat, now <= Target(d), Sleep(k, "asleep", Target(d), d)
      PROVE  Ahead(k)'
    <2>1. tasks'[k].pc = "asleep" /\ tasks'[k].until = Target(d) /\ tasks'[k].day = d
        BY <1>3 DEF Sleep, TypeOK
    <2>2. d \in Days => completed'[d] = 0
        <3>1. Target(d) \in Nat
            BY <1>1, TargetType
        <3> QED BY <1>1, <1>2, <1>3, <3>1 DEF CompletedLate
    <2> QED BY <1>2, <2>1, <2>2 DEF Ahead
<1>4. CASE now <= Target(Today) /\ Sleep(k, "asleep", Target(Today), Today)
    BY <1>1, <1>3, <1>4
<1>5. CASE Sleep(k, "asleep", Target(Today + 1), Today + 1)
    <2>1. now <= Target(Today + 1)
        <3> DEFINE dawn == (Today + 1) * Day
        <3>1. dawn \in Nat /\ now < dawn
            BY <1>1, Numbers
        <3>2. Target(Today + 1) = dawn + runTime
            BY DEF Target
        <3> HIDE DEF dawn
        <3> QED BY <1>1, <3>1, <3>2
    <2> QED BY <1>1, <1>3, <1>5, <2>1
<1>6. CASE Sleep(k, "erring", now + Hour, 0)
    BY <1>6 DEF Sleep, Ahead, TypeOK
<1>7. CASE tasks' = [tasks EXCEPT ![k] = Done]
    BY <1>7, DoneType DEF Live, TypeOK
<1> QED BY <1>4, <1>5, <1>6, <1>7 DEF Head

\* When a reconciliation ends, its target has passed.
LEMMA OnceEnds ==
    ASSUME TypeOK, LoopInv, OnceInv, NEW k \in Tasks, EndRun(k)
    PROVE  CompletedLate'
<1> DEFINE d == tasks[k].day
<1>1. /\ tasks[k].pc = "running" /\ now >= tasks[k].until + MinRun
      /\ completed' = [completed EXCEPT ![d] = IF completed[d] = 0 THEN 1 ELSE 2]
      /\ UNCHANGED <<now, runTime>>
    BY DEF EndRun
<1>2. Ahead(k)
    BY <1>1 DEF LoopInv, RunUndisturbed, Live, OnceInv
<1>3. now > Target(d)
    BY <1>1, <1>2, OnceTypes, Numbers, SchedulerAssumption DEF Ahead
<1>4. d \in Days => completed[d] = 0
    BY <1>1, <1>2 DEF Ahead
<1>5. \A e \in Days : Target(e)' = Target(e)
    BY <1>1 DEF Target
<1> QED BY <1>1, <1>3, <1>4, <1>5 DEF OnceInv, CompletedLate, TypeOK

\* The steps of a task.
LEMMA OnceTask ==
    ASSUME TypeOK, LoopInv, LoopInv', OnceInv, NEW k \in Tasks, TaskStep(k)
    PROVE  OnceInv'
<1>0. UNCHANGED <<now, runTime>>
    BY DEF TaskStep, Begin, Wake, EndRun, Retry, Cancelled
<1>1. CompletedLate'
    <2>1. CASE EndRun(k)
        BY <2>1, OnceEnds
    <2>2. CASE ~EndRun(k)
        <3>1. UNCHANGED completed
            BY <2>2 DEF TaskStep, Begin, Wake, Retry, Cancelled, history
        <3> QED BY <1>0, <3>1 DEF OnceInv, CompletedLate, Target
    <2> QED BY <2>1, <2>2
<1>2. \A j \in Tasks : j # k => tasks'[j] = tasks[j]
    BY DEF TaskStep, Begin, Wake, EndRun, Retry, Cancelled, Head, Sleep, TypeOK
<1>3. ASSUME NEW j \in Live', j # k PROVE Ahead(j)'
    <2>1. j \in Live /\ tasks'[j] = tasks[j]
        BY <1>2, <1>3 DEF Live
    <2>2. k \notin Live
        BY <1>3, <2>1 DEF LoopInv, OneLoop
    <2>3. UNCHANGED completed
        BY <2>2 DEF TaskStep, Begin, Wake, EndRun, Retry, Cancelled, Live, LoopInv,
                    RunUndisturbed, history
    <2> QED BY <1>0, <2>1, <2>3 DEF OnceInv, Ahead, Target
<1>4. ASSUME k \in Live' PROVE Ahead(k)'
    <2>1. CASE Head(k)
        BY <1>0, <1>1, <1>4, <2>1, OnceHead
    <2>2. CASE Cancelled(k)
        BY <1>4, <2>2, DoneType DEF Cancelled, Live, TypeOK
    <2>3. CASE Wake(k) /\ ~Head(k)
        <3>1. /\ tasks[k].pc = "asleep" /\ ~tasks[k].cancelled
              /\ now + Early >= tasks[k].until /\ UNCHANGED completed
              /\ tasks' = [tasks EXCEPT ![k].pc = "running", ![k].until = now]
            BY <2>3 DEF Wake, Awake
        <3>2. /\ tasks'[k].pc = "running" /\ tasks'[k].until = now
              /\ tasks'[k].day = tasks[k].day
            BY <3>1 DEF TypeOK, TaskState
        <3>3. Ahead(k)
            BY <3>1 DEF OnceInv, Live
        <3> QED BY <1>0, <3>1, <3>2, <3>3 DEF Ahead, Target
    <2> QED BY <2>1, <2>2, <2>3 DEF TaskStep, Begin, EndRun, Retry
<1> QED BY <1>1, <1>3, <1>4 DEF OnceInv

\* Everybody else, and the clock.
LEMMA OnceOthers ==
    ASSUME TypeOK, OnceInv,
           \/ Boot \/ Start \/ Shutdown \/ Crash \/ Tick \/ UNCHANGED vars
           \/ \E c \in Requests : Stop(c) \/ Answer(c)
    PROVE  OnceInv'
<1>1. UNCHANGED <<runTime, completed>> /\ (now' = now \/ now' = now + 1)
    BY DEF Boot, Start, Shutdown, Crash, Tick, vars, Stop, Answer, history
<1>2. CompletedLate'
    BY <1>1, OnceTypes DEF OnceInv, CompletedLate, Target
<1>3. \A k \in Live' : tasks'[k].pc = "new" \/ (k \in Live /\ tasks'[k] = tasks[k])
    <2>1. CASE Boot \/ Start
        BY <2>1 DEF Boot, Start, StartScheduler, Live, TypeOK, TaskState
    <2>2. CASE Shutdown \/ \E c \in Requests : Stop(c)
        <3>1. PICK c \in Requests : StopScheduler(c)
            BY <2>2 DEF Shutdown, Stop, Requests
        <3>2. tasks' = [tasks EXCEPT ![task].cancelled = (tasks[task].pc # "done")]
            BY <3>1 DEF StopScheduler
        <3>3. \A k \in Tasks :
                  /\ k # task => tasks'[k] = tasks[k]
                  /\ k = task => /\ tasks'[k].pc = tasks[k].pc
                                 /\ tasks'[k].cancelled = (tasks[k].pc # "done")
            BY <3>2 DEF TypeOK, TaskState
        <3> QED BY <3>3 DEF Live
    <2>3. CASE ProcessEnds
        BY <2>3, DoneType DEF ProcessEnds, Live
    <2>4. CASE UNCHANGED tasks
        BY <2>4 DEF Live
    <2> QED BY <2>1, <2>2, <2>3, <2>4 DEF Crash, Tick, Answer, vars
<1>4. ASSUME NEW k \in Live' PROVE Ahead(k)'
    <2>1. CASE tasks'[k].pc = "new"
        BY <2>1 DEF Ahead
    <2>2. CASE k \in Live /\ tasks'[k] = tasks[k]
        BY <1>1, <2>2 DEF OnceInv, Ahead, Target
    <2> QED BY <1>3, <2>1, <2>2
<1> QED BY <1>2, <1>4 DEF OnceInv

LEMMA OnceNext == TypeOK /\ LoopInv /\ LoopInv' /\ OnceInv /\ [Next]_vars => OnceInv'
BY OnceTask, OnceOthers DEF Next

\* No replica of the API reconciles a day to the end twice, whatever is stopped,
\* started, killed or late in it, as long as a sleep ends early by less than a
\* reconciliation takes; of several replicas each does it once.
THEOREM ReplicaRunsOnceADay == Spec => []OncePerReplica
<1>1. Spec => []LoopInv
    BY TypeCorrect, LoopInit, LoopNext, PTL DEF Spec
<1>2. Spec => []OnceInv
    BY <1>1, TypeCorrect, OnceInit, OnceNext, PTL DEF Spec
<1>3. OnceInv => OncePerReplica
    BY DEF OnceInv, CompletedLate, OncePerReplica
<1> QED BY <1>2, <1>3, PTL

-----------------------------------------------------------------------------
(* No day is skipped.                                                      *)

\* The days whose run is promised.
Owed(d) == since <= Target(d) /\ (FirstOfMonth(d) => runTime + 1 >= Hour + Lag)

\* Each such day before n has had its run.
Served(n) == \A d \in Nat : d < n /\ Owed(d) => d \in begun

\* Where the loop of a running scheduler can be: it gets its first turn at once;
\* it sleeps towards a day with all earlier ones served; it runs that day's
\* reconciliation, which ends before the next target; or it repeats the hour of
\* the error handler, from the last day of a month until the first of the next
\* is an hour old.
OnTime(k) ==
    /\ tasks[k].pc = "new" => now = since
    /\ tasks[k].pc = "asleep" =>
           /\ tasks[k].until = Target(tasks[k].day)
           /\ now <= tasks[k].until + Lag
           /\ Served(tasks[k].day)
    /\ tasks[k].pc = "running" =>
           /\ tasks[k].until <= Target(tasks[k].day) + Lag
           /\ now <= tasks[k].until + MaxRun
           /\ Served(tasks[k].day) /\ tasks[k].day \in begun
    /\ tasks[k].pc = "erring" =>
           \E d \in Nat : /\ FirstOfMonth(d)
                          /\ tasks[k].until < d * Day + Hour
                          /\ now <= tasks[k].until + Lag
                          /\ Served(d)

DayInv == isRunning => OnTime(task)

\* The running scheduler has nothing to make up for.
CaughtUp == \A d \in Nat : Owed(d) /\ Target(d) < now => d \in begun

LEMMA DayInit == Init => DayInv
BY DEF Init, DayInv

\* The days, one after the other.
LEMMA DayOrder ==
    ASSUME TypeOK
    PROVE  /\ \A d \in Nat : d * Day \in Nat /\ Target(d) = d * Day + runTime
           /\ \A d \in Nat : (d + 1) * Day = d * Day + Day
           /\ \A d, e \in Nat : d < e => d * Day + Day <= e * Day
           /\ Today * Day <= now /\ now < Today * Day + Day
<1>1. now \in Nat /\ Day \in Nat \ {0}
    BY Numbers DEF TypeOK
<1>2. \A d \in Nat : d * Day \in Nat /\ Target(d) = d * Day + runTime
    BY <1>1 DEF Target
<1>3. \A d \in Nat : (d + 1) * Day = d * Day + Day
    BY <1>1
<1>4. ASSUME NEW d \in Nat, NEW e \in Nat, d < e PROVE d * Day + Day <= e * Day
    <2>1. PICK c \in Nat : e = d + 1 + c
        <3>1. e - (d + 1) \in Nat /\ e = d + 1 + (e - (d + 1))
            BY <1>4
        <3> QED BY <3>1
    <2>2. e * Day = d * Day + Day + c * Day
        BY <1>1, <2>1
    <2>3. c * Day \in Nat /\ d * Day \in Nat
        BY <1>1
    <2> QED BY <1>1, <2>2, <2>3
<1>5. Today * Day <= now /\ now < Today * Day + Day
    BY <1>1 DEF Today
<1> QED BY <1>2, <1>3, <1>4, <1>5

\* From the while to the next sleep nothing is forgotten.
LEMMA DayHead ==
    ASSUME TypeOK, NEW k \in Tasks, Head(k), isRunning, CaughtUp,
           UNCHANGED <<now, runTime, since, begun>>
    PROVE  OnTime(k)'
<1> DEFINE Dawn(d) == d * Day
<1>1. /\ now \in Nat /\ runTime \in Nat /\ Today \in Nat /\ Today + 1 \in Nat
      /\ Day \in Nat \ {0} /\ Hour \in Nat /\ Lag \in Nat
      /\ runTime < Day
    BY Numbers, TodayType, OnceTypes DEF TypeOK
<1>2. /\ \A d \in Nat : Dawn(d) \in Nat /\ Target(d) = Dawn(d) + runTime
      /\ \A d \in Nat : Dawn(d + 1) = Dawn(d) + Day
      /\ \A d, e \in Nat : d < e => Dawn(d) + Day <= Dawn(e)
      /\ Dawn(Today) <= now /\ now < Dawn(Today) + Day
    BY DayOrder
<1>3. \A d : Target(d)' = Target(d) /\ Owed(d)' = Owed(d) /\ Served(d)' = Served(d)
    BY DEF Target, Owed, Served, FirstOfMonth
<1>4. Served(Today) /\ (now > Target(Today) => Served(Today + 1))
    <2>1. ASSUME NEW d \in Nat, d < Today PROVE Target(d) < now
        <3> HIDE DEF Dawn
        <3> QED BY <1>1, <1>2, <2>1
    <2>2. ASSUME NEW d \in Nat, d < Today + 1, d >= Today PROVE d = Today
        BY <1>1, <2>2
    <2> QED BY <1>1, <2>1, <2>2 DEF CaughtUp, Served
<1>5. ASSUME NEW d \in Nat, now <= Target(d), Served(d), Sleep(k, "asleep", Target(d), d)
      PROVE  OnTime(k)'
    <2>1. tasks'[k].pc = "asleep" /\ tasks'[k].until = Target(d) /\ tasks'[k].day = d
        BY <1>5 DEF Sleep, TypeOK
    <2>2. Target(d) \in Nat
        BY <1>1, TargetType
    <2> QED BY <1>1, <1>3, <1>5, <2>1, <2>2 DEF OnTime
<1>6. CASE now <= Target(Today) /\ Sleep(k, "asleep", Target(Today), Today)
    BY <1>1, <1>4, <1>5, <1>6
<1>7. CASE now > Target(Today) /\ Sleep(k, "asleep", Target(Today + 1), Today + 1)
    <2>1. now <= Target(Today + 1)
        <3> HIDE DEF Dawn
        <3> QED BY <1>1, <1>2
    <2> QED BY <1>1, <1>4, <1>5, <1>7, <2>1
<1>8. CASE now > Target(Today) /\ LastOfMonth(Today) /\ Sleep(k, "erring", now + Hour, 0)
    <2>1. tasks'[k].pc = "erring" /\ tasks'[k].until = now + Hour
        BY <1>8 DEF Sleep, TypeOK
    <2>2. now + Hour < Dawn(Today + 1) + Hour
        <3> HIDE DEF Dawn
        <3> QED BY <1>1, <1>2
    <2>3. PICK d \in Nat : d = Today + 1
        BY <1>1
    <2>4. FirstOfMonth(d) /\ Served(d)'
        BY <1>3, <1>4, <1>8, <2>3 DEF LastOfMonth
    <2>5. now' <= tasks'[k].until + Lag
        BY <1>1, <2>1
    <2> QED BY <1>1, <2>1, <2>2, <2>3, <2>4, <2>5 DEF OnTime, FirstOfMonth
<1> QED BY <1>6, <1>7, <1>8 DEF Head

\* A task that has its turn on time has nothing to make up for: not when it
\* begins, ...
LEMMA DayBegin ==
    ASSUME TypeOK, now = since
    PROVE  CaughtUp
BY OnceTypes DEF CaughtUp, Owed

\* ... not when its reconciliation ends, ...
LEMMA DayEndRun ==
    ASSUME TypeOK, LoopInv, OnceInv, NEW k \in Tasks, EndRun(k), OnTime(k)
    PROVE  CaughtUp
<1> DEFINE Dawn(d) == d * Day
           D == tasks[k].day
<1>1. /\ tasks[k].pc = "running" /\ now >= tasks[k].until + MinRun
      /\ tasks[k].until <= Target(D) + Lag /\ now <= tasks[k].until + MaxRun
      /\ Served(D) /\ D \in begun
    BY DEF EndRun, OnTime
<1>2. /\ now \in Nat /\ runTime \in Nat /\ D \in Nat /\ tasks[k].until \in Nat
      /\ Day \in Nat \ {0} /\ Lag \in Nat /\ MaxRun \in Nat /\ MaxRun + Lag < Day
    BY OnceTypes, Numbers, SchedulerAssumption
<1>3. /\ \A d \in Nat : Dawn(d) \in Nat /\ Target(d) = Dawn(d) + runTime
      /\ \A d, e \in Nat : d < e => Dawn(d) + Day <= Dawn(e)
    BY DayOrder
<1> HIDE DEF Dawn, D
<1>4. ASSUME NEW d \in Nat, Target(d) < now PROVE d < D \/ d = D
    <2>1. ~(D < d)
        BY <1>1, <1>2, <1>3, <1>4
    <2> QED BY <1>2, <2>1
<1> QED BY <1>1, <1>4 DEF CaughtUp, Served

\* ... and not when the hour of the error handler is over: the retry still
\* comes before the next target, but for a first of the month whose target
\* falls into that hour.
LEMMA DayRetry ==
    ASSUME TypeOK, NEW k \in Tasks, tasks[k].pc = "erring", OnTime(k)
    PROVE  CaughtUp
<1> DEFINE Dawn(d) == d * Day
<1>1. PICK D \in Nat : /\ FirstOfMonth(D) /\ Served(D)
                       /\ tasks[k].until < Dawn(D) + Hour /\ now <= tasks[k].until + Lag
    BY DEF OnTime
<1>2. /\ now \in Nat /\ runTime \in Nat /\ tasks[k].until \in Nat
      /\ Day \in Nat \ {0} /\ Lag \in Nat /\ Hour \in Nat /\ Hour + Lag <= Day
    BY OnceTypes, Numbers, SchedulerAssumption
<1>3. /\ \A d \in Nat : Dawn(d) \in Nat /\ Target(d) = Dawn(d) + runTime
      /\ \A d, e \in Nat : d < e => Dawn(d) + Day <= Dawn(e)
    BY DayOrder
<1> HIDE DEF Dawn
<1>4. ASSUME NEW d \in Nat, Owed(d), Target(d) < now PROVE d < D
    <2>1. d # D
        <3>1. SUFFICES ASSUME d = D PROVE FALSE
            OBVIOUS
        <3>2. runTime + 1 >= Hour + Lag /\ Dawn(D) + runTime < now
            BY <1>1, <1>3, <1>4, <3>1 DEF Owed
        <3>3. Dawn(D) \in Nat
            BY <1>3
        <3> QED BY <1>1, <1>2, <3>2, <3>3
    <2>2. ~(D < d)
        BY <1>1, <1>2, <1>3, <1>4
    <2> QED BY <2>1, <2>2
<1> QED BY <1>1, <1>4 DEF CaughtUp, Served

\* The steps of the running scheduler's own loop.
LEMMA DayTask ==
    ASSUME TypeOK, LoopInv, OnceInv, isRunning, OnTime(task), task \in Tasks,
           TaskStep(task)
    PROVE  OnTime(task)'
<1>1. UNCHANGED <<now, runTime, isRunning, task, since>>
    BY DEF TaskStep, Begin, Wake, EndRun, Retry, Cancelled, history
<1>2. ~tasks[task].cancelled
    BY DEF LoopInv, OneLoop, Live
<1>3. CASE Begin(task) \/ EndRun(task) \/ Retry(task)
    <2>1. CaughtUp
        BY <1>3, DayBegin, DayEndRun, DayRetry DEF Begin, Retry, OnTime
    <2>2. Head(task) /\ UNCHANGED begun
        BY <1>3 DEF Begin, EndRun, Retry, history
    <2>3. PICK k \in Tasks : k = task
        OBVIOUS
    <2>4. OnTime(k)'
        BY <1>1, <2>1, <2>2, <2>3, DayHead
    <2> QED BY <1>1, <2>3, <2>4
<1>4. CASE Wake(task)
    <2>1. /\ tasks[task].pc = "asleep" /\ begun' = begun \cup {tasks[task].day}
          /\ tasks' = [tasks EXCEPT ![task].pc = "running", ![task].until = now]
        BY <1>4 DEF Wake
    <2>2. /\ tasks'[task].pc = "running" /\ tasks'[task].until = now
          /\ tasks'[task].day = tasks[task].day
        BY <2>1 DEF TypeOK, TaskState
    <2>3. \A d : Target(d)' = Target(d) /\ (Served(d) => Served(d)')
        BY <1>1, <2>1 DEF Target, Owed, Served, FirstOfMonth
    <2>4. now <= Target(tasks[task].day) + Lag /\ Served(tasks[task].day)
        BY <2>1 DEF OnTime
    <2>5. PICK d \in Nat : d = tasks[task].day
        BY OnceTypes
    <2>6. now' <= tasks'[task].until + MaxRun
        BY <1>1, <2>2, OnceTypes, Numbers
    <2>7. Served(d)' /\ now <= Target(d)' + Lag
        BY <2>3, <2>4, <2>5
    <2> QED BY <1>1, <2>1, <2>2, <2>5, <2>6, <2>7 DEF OnTime
<1>5. ~Cancelled(task)
    BY <1>2 DEF Cancelled
<1> QED BY <1>3, <1>4, <1>5 DEF TaskStep

\* Loops that somebody has cancelled, and requests, do not touch it.
LEMMA DayQuiet ==
    ASSUME TypeOK, DayInv, isRunning' => isRunning /\ tasks'[task] = tasks[task],
           UNCHANGED <<now, runTime, task, since, begun>>
    PROVE  DayInv'
<1>1. \A d : Target(d)' = Target(d) /\ Served(d)' = Served(d)
    BY DEF Target, Owed, Served, FirstOfMonth
<1> QED BY <1>1 DEF DayInv, OnTime, FirstOfMonth

\* The clock: whoever is due has had its turn.
LEMMA DayTick ==
    ASSUME TypeOK, LoopInv, DayInv, Tick
    PROVE  DayInv'
<1> SUFFICES ASSUME isRunning' PROVE OnTime(task)'
    BY DEF DayInv
<1>1. /\ isRunning /\ task \in Tasks /\ OnTime(task) /\ now' = now + 1
      /\ UNCHANGED <<runTime, since, begun, task, tasks>>
    BY DEF Tick, history, DayInv, LoopInv, OneLoop, Live
<1>2. /\ tasks[task].pc = "running" => now < tasks[task].until + MaxRun
      /\ Free => tasks[task].pc # "new"
      /\ Free /\ tasks[task].pc \in {"asleep", "erring"} => now < tasks[task].until + Lag
    BY <1>1 DEF Tick
<1>3. tasks[task].pc # "running" => Free
    BY <1>1 DEF TypeOK, Free, LoopInv, OneLoop, RunUndisturbed, Live
<1>4. /\ now \in Nat /\ tasks[task].until \in Nat /\ Lag \in Nat /\ MaxRun \in Nat
    BY <1>1, OnceTypes, Numbers
<1>5. \A d : Target(d)' = Target(d) /\ Served(d)' = Served(d)
    BY <1>1 DEF Target, Owed, Served, FirstOfMonth
<1>6. CASE tasks[task].pc = "running"
    BY <1>1, <1>2, <1>4, <1>5, <1>6 DEF OnTime
<1>7. CASE tasks[task].pc = "asleep"
    BY <1>1, <1>2, <1>3, <1>4, <1>5, <1>7 DEF OnTime
<1>8. CASE tasks[task].pc = "erring"
    BY <1>1, <1>2, <1>3, <1>4, <1>5, <1>8 DEF OnTime, FirstOfMonth
<1>9. CASE tasks[task].pc \notin {"running", "asleep", "erring"}
    BY <1>1, <1>2, <1>3, <1>9 DEF OnTime
<1> QED BY <1>6, <1>7, <1>8, <1>9

LEMMA DayNext ==
    TypeOK /\ LoopInv /\ OnceInv /\ DayInv /\ [Next]_vars => DayInv'
<1> SUFFICES ASSUME TypeOK, LoopInv, OnceInv, DayInv, [Next]_vars PROVE DayInv'
    OBVIOUS
<1>1. CASE Boot \/ Start
    <2>1. StartScheduler /\ UNCHANGED now
        BY <1>1 DEF Boot, Start
    <2>2. PICK k \in Tasks : /\ tasks[k].pc = "none" /\ task' = k
                             /\ tasks' = [tasks EXCEPT ![k].pc = "new"]
        BY <2>1 DEF StartScheduler
    <2>3. tasks'[k].pc = "new" /\ since' = now
        BY <2>1, <2>2 DEF TypeOK, TaskState, StartScheduler
    <2> QED BY <2>1, <2>2, <2>3 DEF DayInv, OnTime
<1>2. CASE Shutdown \/ Crash \/ \E c \in Requests : Stop(c)
    BY <1>2 DEF Shutdown, Crash, Stop, StopScheduler, ProcessEnds, DayInv
<1>3. ASSUME NEW c \in Requests, Answer(c) PROVE DayInv'
    <2>1. CASE ProcessEnds
        BY <2>1 DEF ProcessEnds, DayInv
    <2>2. CASE UNCHANGED <<isRunning, task, tasks>>
        BY <1>3, <2>2, DayQuiet DEF Answer, history
    <2> QED BY <1>3, <2>1, <2>2 DEF Answer
<1>4. ASSUME NEW k \in Tasks, TaskStep(k) PROVE DayInv'
    <2> SUFFICES ASSUME isRunning' PROVE DayInv'
        BY DEF DayInv
    <2>1. UNCHANGED <<now, runTime, isRunning, task, since>>
        BY <1>4 DEF TaskStep, Begin, Wake, EndRun, Retry, Cancelled, history
    <2>2. CASE k = task
        BY <1>4, <2>1, <2>2, DayTask DEF DayInv
    <2>3. CASE k # task
        <3>1. k \notin Live
            BY <2>1, <2>3 DEF LoopInv, OneLoop
        <3>2. Cancelled(k)
            BY <1>4, <3>1 DEF TaskStep, Begin, Wake, Awake, EndRun, Retry, Live,
                              LoopInv, RunUndisturbed
        <3>3. tasks'[task] = tasks[task] /\ UNCHANGED begun
            BY <2>3, <3>2 DEF Cancelled, history, TypeOK
        <3> QED BY <2>1, <3>3, DayQuiet
    <2> QED BY <2>2, <2>3
<1>5. CASE UNCHANGED vars
    BY <1>5, DayQuiet DEF vars
<1> QED BY <1>1, <1>2, <1>3, <1>4, <1>5, DayTick DEF Next

\* When the invariants hold, the days that the property speaks of are served.
LEMMA DayServed ==
    ASSUME TypeOK, LoopInv, DayInv, isRunning, NEW d \in Nat, Owed(d), now > Target(d) + Lag
    PROVE  d \in begun
<1> DEFINE Dawn(e) == e * Day
           D == tasks[task].day
           until == tasks[task].until
<1>1. task \in Tasks /\ OnTime(task)
    BY DEF LoopInv, OneLoop, Live, DayInv
<1>2. /\ now \in Nat /\ runTime \in Nat /\ D \in Nat /\ until \in Nat /\ Day \in Nat \ {0}
      /\ Lag \in Nat /\ MaxRun \in Nat /\ MaxRun + Lag < Day
    BY <1>1, OnceTypes, Numbers, SchedulerAssumption
<1>3. /\ \A e \in Nat : Dawn(e) \in Nat /\ Target(e) = Dawn(e) + runTime
      /\ \A e, f \in Nat : e < f => Dawn(e) + Day <= Dawn(f)
    BY DayOrder
<1>4. CASE tasks[task].pc = "new"
    BY <1>1, <1>2, <1>3, <1>4 DEF OnTime, Owed
<1>5. CASE tasks[task].pc = "asleep"
    <2>1. until = Target(D) /\ now <= until + Lag /\ Served(D)
        BY <1>1, <1>5 DEF OnTime
    <2> HIDE DEF Dawn, D, until
    <2>2. ~(D < d) /\ d # D
        BY <1>2, <1>3, <2>1
    <2> QED BY <1>2, <2>1, <2>2 DEF Served
<1>6. CASE tasks[task].pc = "running"
    <2>1. /\ until <= Target(D) + Lag /\ now <= until + MaxRun
          /\ Served(D) /\ D \in begun
        BY <1>1, <1>6 DEF OnTime
    <2> HIDE DEF Dawn, D, until
    <2>2. ~(D < d)
        BY <1>2, <1>3, <2>1
    <2> QED BY <1>2, <2>1, <2>2 DEF Served
<1>7. CASE tasks[task].pc = "erring"
    BY <1>1, <1>2, <1>3, <1>7, DayRetry DEF CaughtUp
<1>8. tasks[task].pc \in {"new", "asleep", "running", "erring"}
    BY <1>1 DEF TypeOK, TaskState, LoopInv, OneLoop, Live
<1> QED BY <1>4, <1>5, <1>6, <1>7, <1>8

\* No day's run is skipped while the scheduler runs: each day it was running
\* before the target, _run_reconciliation has begun when the loop had time to;
\* excepted is only the first of a month whose target comes before the hourly
\* retries, which replace(day=day + 1) starts, have passed midnight.
THEOREM RunsEveryDay == Spec => []EveryDayRuns
<1>1. Spec => []LoopInv
    BY TypeCorrect, LoopInit, LoopNext, PTL DEF Spec
<1>2. Spec => []OnceInv
    BY <1>1, TypeCorrect, OnceInit, OnceNext, PTL DEF Spec
<1>3. Spec => []DayInv
    BY <1>1, <1>2, TypeCorrect, DayInit, DayNext, PTL DEF Spec
<1>4. TypeOK /\ LoopInv /\ DayInv => EveryDayRuns
    BY DayServed, OnceTypes DEF EveryDayRuns, Owed
<1> QED BY <1>1, <1>3, <1>4, TypeCorrect, PTL
=============================================================================
