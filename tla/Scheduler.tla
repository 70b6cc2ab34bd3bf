------------------------------ MODULE Scheduler ------------------------------
(***************************************************************************)
(* The daily reconciliation: app/services/reconciliation_scheduler.py, the *)
(* lifespan of main.py that starts and stops it with the API process, and  *)
(* the admin's start and stop requests (app/routes/reconciliation_routes.  *)
(* py).                                                                    *)
(*                                                                         *)
(* This is the scheduler of one replica of the API: one process at a time, *)
(* started again when it ends.  Every replica has its own and reads        *)
(* nothing of the others', so what is said here is said of each; that      *)
(* several reconcile at once is Reconciliation's matter.                   *)
(*                                                                         *)
(* Everything here runs on the one event loop of an API process.  A        *)
(* coroutine is interrupted only where it really suspends: the scheduler's *)
(* two sleeps, and the await of stop_scheduler for the task it cancelled.  *)
(* A reconciliation never suspends, so while one runs nothing else does.   *)
(*                                                                         *)
(* now is the wall clock in ticks; day d of the run begins at d * Day.     *)
(***************************************************************************)
EXTENDS Naturals

CONSTANTS
    Clients,        \* stop requests that may be waiting at once
    Lifespan,       \* the stop request of the process's own shutdown
    Day,            \* ticks in a day
    Hour,           \* ticks slept after an error
    MonthLength,    \* days in a month
    Horizon,        \* bound: days before the clock stops, outside a reconciliation
    Early,          \* how far the wall clock may lag behind when a sleep ends
    Lag,            \* how late the event loop may serve a due sleep: it may be
                    \* busy with a request or a manual reconciliation
    MinRun, MaxRun, \* ticks a reconciliation takes
    MaxTasks        \* bound: loops ever started

ASSUME SchedulerAssumption ==
    /\ {Day, Hour, MonthLength, MaxTasks} \subseteq Nat \ {0}
    /\ {Horizon, Early, Lag, MinRun, MaxRun} \subseteq Nat
    /\ Early < MinRun /\ MinRun <= MaxRun
    /\ Early < Hour
    /\ MaxRun + Lag < Day
    /\ Hour + Lag <= Day
    /\ Lifespan \notin Clients

Days == 0..(Horizon + 1)
Tasks == 1..MaxTasks
NoTask == 0
Requests == Clients \cup {Lifespan}

VARIABLES
    now,        \* datetime.now()
    runTime,    \* RECONCILIATION_HOUR and _MINUTE
    up,         \* is the replica's process alive?
    isRunning,  \* ReconciliationScheduler.is_running
    task,       \* ReconciliationScheduler.task
    tasks,      \* the loops ever created: where each is, and until when
    request,    \* [Requests -> Tasks \cup {NoTask}]: the task a stop awaits
    since,      \* history: when is_running last became True
    begun,      \* history: days whose reconciliation has begun
    completed   \* history: [Days -> 0..2]: reconciliations of a day, saturated

vars == <<now, runTime, up, isRunning, task, tasks, request, since, begun, completed>>
history == <<since, begun, completed>>

\* none: not created.  new: created, not yet begun.  asleep: until the target,
\* which is that of day.  erring: in the sleep after an error.  running: a
\* reconciliation, since until.
TaskState ==
    [pc : {"none", "new", "asleep", "erring", "running", "done"},
     until : Nat, day : Nat, cancelled : BOOLEAN]

NotStarted == [pc |-> "none", until |-> 0, day |-> 0, cancelled |-> FALSE]
Done == [NotStarted EXCEPT !.pc = "done"]

Today == now \div Day
Target(d) == d * Day + runTime
FirstOfMonth(d) == d % MonthLength = 0
LastOfMonth(d) == FirstOfMonth(d + 1)

\* The event loop is free for the next step of somebody.
Free == up /\ \A k \in Tasks : tasks[k].pc # "running"

-----------------------------------------------------------------------------
Init ==
    /\ now = 0
    /\ runTime \in 0..(Day - 1)
    /\ up = FALSE
    /\ isRunning = FALSE
    /\ task = NoTask
    /\ tasks = [k \in Tasks |-> NotStarted]
    /\ request = [c \in Requests |-> NoTask]
    /\ since = 0
    /\ begun = {}
    /\ completed = [d \in Days |-> 0]

-----------------------------------------------------------------------------
(* Starting and stopping.                                                  *)

\* start_scheduler: unless it runs, raise the flag and create the loop.
StartScheduler ==
    /\ ~isRunning
    /\ \E k \in Tasks :
           /\ tasks[k].pc = "none"
           /\ \A j \in Tasks : j < k => tasks[j].pc # "none"
           /\ tasks' = [tasks EXCEPT ![k].pc = "new"]
           /\ task' = k
    /\ isRunning' = TRUE
    /\ since' = now

\* The replica's next process: its lifespan starts a scheduler of its own.
Boot ==
    /\ ~up
    /\ up' = TRUE
    /\ StartScheduler
    /\ UNCHANGED <<now, runTime, request, begun, completed>>

\* POST /scheduler/start.  Uvicorn serves no request once it shuts down.
Start ==
    /\ Free
    /\ request[Lifespan] = NoTask
    /\ StartScheduler
    /\ UNCHANGED <<now, runTime, up, request, begun, completed>>

\* Mutant of StopScheduler: the flag is taken down, the task left to see it.
StopByFlag(c) ==
    /\ isRunning' = FALSE
    /\ request' = [request EXCEPT ![c] = task]
    /\ UNCHANGED tasks

\* stop_scheduler up to its await: the flag is down and the task cancelled,
\* which it notices in its sleep.
StopScheduler(c) ==
    /\ isRunning' = FALSE
    /\ request' = [request EXCEPT ![c] = task]
    /\ tasks' = [tasks EXCEPT ![task].cancelled = (tasks[task].pc # "done")]

\* POST /scheduler/stop.
Stop(c) ==
    /\ Free
    /\ c # Lifespan /\ request[c] = NoTask /\ request[Lifespan] = NoTask
    /\ isRunning
    /\ StopScheduler(c)
    /\ UNCHANGED <<now, runTime, up, task, history>>

\* The process is told to end: the lifespan stops the scheduler, running or not.
Shutdown ==
    /\ Free
    /\ request[Lifespan] = NoTask
    /\ StopScheduler(Lifespan)
    /\ UNCHANGED <<now, runTime, up, task, history>>

\* Mutant of ProcessEnds: the flag outlives the process.
ProcessEndsFlagged ==
    /\ up' = FALSE
    /\ UNCHANGED isRunning
    /\ task' = NoTask
    /\ tasks' = [k \in Tasks |-> IF tasks[k].pc = "none" THEN NotStarted ELSE Done]
    /\ request' = [c \in Requests |-> NoTask]

\* All that is in memory is gone.
ProcessEnds ==
    /\ up' = FALSE
    /\ isRunning' = FALSE
    /\ task' = NoTask
    /\ tasks' = [k \in Tasks |-> IF tasks[k].pc = "none" THEN NotStarted ELSE Done]
    /\ request' = [c \in Requests |-> NoTask]

\* The awaited task has ended; CancelledError is what it is expected to raise.
Answer(c) ==
    /\ Free
    /\ request[c] # NoTask
    /\ tasks[request[c]].pc = "done"
    /\ IF c = Lifespan
       THEN ProcessEnds
       ELSE /\ request' = [request EXCEPT ![c] = NoTask]
            /\ UNCHANGED <<up, isRunning, task, tasks>>
    /\ UNCHANGED <<now, runTime, history>>

\* The process is killed, also in the middle of a reconciliation.
Crash ==
    /\ up
    /\ ProcessEnds
    /\ UNCHANGED <<now, runTime, history>>

-----------------------------------------------------------------------------
(* The loop of task k.                                                     *)

Sleep(k, pc, t, d) ==
    tasks' = [tasks EXCEPT ![k] =
                 [pc |-> pc, until |-> t, day |-> d, cancelled |-> FALSE]]

\* Mutant of Head: a target that has passed is still today's.
HeadToday(k) ==
    IF ~isRunning THEN tasks' = [tasks EXCEPT ![k] = Done]
    ELSE Sleep(k, "asleep", Target(Today), Today)

\* From the while to the next sleep.  replace(day=day + 1) raises on the last
\* day of a month, which the handler answers with an hour's sleep.
Head(k) ==
    \/ ~isRunning /\ tasks' = [tasks EXCEPT ![k] = Done]
    \/ /\ isRunning /\ now <= Target(Today)
       /\ Sleep(k, "asleep", Target(Today), Today)
    \/ /\ isRunning /\ now > Target(Today) /\ ~LastOfMonth(Today)
       /\ Sleep(k, "asleep", Target(Today + 1), Today + 1)
    \/ /\ isRunning /\ now > Target(Today) /\ LastOfMonth(Today)
       /\ Sleep(k, "erring", now + Hour, 0)

\* The new task gets its first turn.
Begin(k) ==
    /\ Free
    /\ tasks[k].pc = "new" /\ ~tasks[k].cancelled
    /\ Head(k)
    /\ UNCHANGED <<now, runTime, up, isRunning, task, request, history>>

Awake(k) == ~tasks[k].cancelled /\ now + Early >= tasks[k].until

\* The target is reached, or nearly: the reconciliation begins.
Wake(k) ==
    /\ Free
    /\ tasks[k].pc = "asleep" /\ Awake(k)
    /\ now < Horizon * Day
    /\ \/ /\ isRunning
          /\ tasks' = [tasks EXCEPT ![k].pc = "running", ![k].until = now]
          /\ begun' = begun \cup {tasks[k].day}
       \/ ~isRunning /\ Head(k) /\ UNCHANGED begun
    /\ UNCHANGED <<now, runTime, up, isRunning, task, request, since, completed>>

\* Mutant of EndRun: an exception of the reconciliation ends the loop.
EndRunForGood(k) ==
    /\ tasks[k].pc = "running"
    /\ now >= tasks[k].until + MinRun
    /\ completed' = [completed EXCEPT ![tasks[k].day] = IF @ = 0 THEN 1 ELSE 2]
    /\ tasks' = [tasks EXCEPT ![k] = Done]
    /\ UNCHANGED <<now, runTime, up, isRunning, task, request, since, begun>>

\* _run_reconciliation returns, whatever the reconciliation raised, and the
\* loop goes round without suspending.
EndRun(k) ==
    /\ tasks[k].pc = "running"
    /\ now >= tasks[k].until + MinRun
    /\ completed' = [completed EXCEPT ![tasks[k].day] = IF @ = 0 THEN 1 ELSE 2]
    /\ Head(k)
    /\ UNCHANGED <<now, runTime, up, isRunning, task, request, since, begun>>

\* The hour after an error is over.
Retry(k) ==
    /\ Free
    /\ tasks[k].pc = "erring" /\ Awake(k)
    /\ Head(k)
    /\ UNCHANGED <<now, runTime, up, isRunning, task, request, history>>

\* Mutant of Cancelled: the cancellation is taken for one more error.
CancelledGoesOn(k) ==
    /\ Free
    /\ tasks[k].cancelled
    /\ tasks[k].pc \in {"new", "asleep", "erring"}
    /\ Head(k)
    /\ UNCHANGED <<now, runTime, up, isRunning, task, request, history>>

\* CancelledError arrives before the task began, in its sleep (and breaks the
\* loop), or in the sleep of the error handler (and leaves it).
Cancelled(k) ==
    /\ Free
    /\ tasks[k].cancelled
    /\ tasks[k].pc \in {"new", "asleep", "erring"}
    /\ tasks' = [tasks EXCEPT ![k] = Done]
    /\ UNCHANGED <<now, runTime, up, isRunning, task, request, history>>

TaskStep(k) == Begin(k) \/ Wake(k) \/ EndRun(k) \/ Retry(k) \/ Cancelled(k)

\* Time goes by, but a reconciliation ends within MaxRun, and unless one holds
\* the event loop, a task that is ready is served at once and a sleep at most
\* Lag after its end.
Tick ==
    /\ now < Horizon * Day \/ (up /\ ~Free)
    /\ \A k \in Tasks :
           /\ tasks[k].pc = "running" => now < tasks[k].until + MaxRun
           /\ Free => tasks[k].pc # "new" /\ ~tasks[k].cancelled
           /\ Free /\ tasks[k].pc \in {"asleep", "erring"} => now < tasks[k].until + Lag
    /\ now' = now + 1
    /\ UNCHANGED <<runTime, up, isRunning, task, tasks, request, history>>

Next ==
    \/ Boot \/ Start \/ Shutdown \/ Crash \/ Tick
    \/ \E c \in Requests : Stop(c) \/ Answer(c)
    \/ \E k \in Tasks : TaskStep(k)

Spec == Init /\ [][Next]_vars

\* The event loop serves what is ready, and a reconciliation that holds it gets
\* on with its work.  Nobody has to start or stop anything.
Fairness ==
    /\ WF_vars(~Free /\ Tick)
    /\ \A k \in Tasks : WF_vars(TaskStep(k))
    /\ \A c \in Requests : WF_vars(Answer(c))

LiveSpec == Spec /\ Fairness

-----------------------------------------------------------------------------
\* The loops that have not ended and that nobody has cancelled.
Live == {k \in Tasks : tasks[k].pc \notin {"none", "done"} /\ ~tasks[k].cancelled}

\* Every variable has its type, and a scheduler lives only in a live process.
TypeOK ==
    /\ now \in Nat
    /\ runTime \in 0..(Day - 1)
    /\ up \in BOOLEAN
    /\ isRunning \in BOOLEAN
    /\ task \in Tasks \cup {NoTask}
    /\ tasks \in [Tasks -> TaskState]
    /\ request \in [Requests -> Tasks \cup {NoTask}]
    /\ since \in 0..now
    /\ begun \subseteq Nat
    /\ completed \in [Days -> 0..2]
    /\ isRunning \/ task # NoTask => up

\* However start and stop overtake each other, also while a stop awaits the
\* task it cancelled, the loop that runs is the one the flag and stop_scheduler
\* know of: the flag is up exactly while self.task is the only live loop.
OneLoop == Live = IF isRunning THEN {task} ELSE {}

\* A day's run is not skipped while the scheduler runs: each day it was running
\* before the target, the reconciliation has begun when the loop had time to.
\* The exception is what replace(day=day + 1) costs: the first of a month is
\* skipped when the target comes before the hourly retries that span midnight.
EveryDayRuns ==
    \A d \in Days :
        /\ isRunning /\ since <= Target(d) /\ now > Target(d) + Lag
        /\ FirstOfMonth(d) => runTime + 1 >= Hour + Lag
        => d \in begun

\* No replica reconciles a day twice, however often it is stopped, started and
\* restarted: the sleep may end a little early, but never so early that the
\* reconciliation is over before its target.  Nothing is shared by the replicas, so n
\* of them reconcile a day up to n times.
OncePerReplica == \A d \in Days : completed[d] <= 1

\* Every stop request, and the shutdown of the process, returns: the task it
\* awaits always notices the cancellation, also when another request starts
\* the scheduler again meanwhile.
StopReturns ==
    \A c \in Requests : request[c] # NoTask ~> request[c] = NoTask
=============================================================================
