----------------------------- MODULE ScheduledTasks -----------------------------
(***************************************************************************)
(* Recurring work: the schedules kept in Redis, and the worker that makes  *)
(* them match its own build each time it boots.                            *)
(*                                                                         *)
(* Booting upserts every task the build declares, and goes on when one     *)
(* cannot be armed; it then removes what the build does not declare, and   *)
(* stops when that fails.  Only then does it take jobs.  A job carries the *)
(* name of its task alone: what the worker calls is looked up in its build.*)
(* A failed call is tried again, three times in all; a worker that dies    *)
(* leaves the job to the next one, which may call the API again.           *)
(*                                                                         *)
(* The schedules and the queue are BullMQ's (external); one worker runs at *)
(* a time, and what the sweeps do is Checkout's and PaymentSettlement's.   *)
(***************************************************************************)
EXTENDS Naturals, FiniteSets

CONSTANTS
    TaskNames,
    Crons, NotArmed,
    Builds,         \* how many builds are deployed in all
    Declares,       \* Declares[b][t]: the cron the build b gives to t, if it declares t
    JobAttempts,    \* SCHEDULED_TASK_JOB_OPTIONS.attempts
    MaxMishaps      \* bound: failures and crashes

ASSUME ScheduledTasksAssumption ==
    /\ NotArmed \notin Crons
    /\ Builds \in Nat \ {0} /\ JobAttempts \in Nat \ {0} /\ MaxMishaps \in Nat
    /\ Declares \in [1..Builds -> [TaskNames -> Crons \cup {NotArmed}]]

VARIABLES
    build,          \* the build deployed
    worker,         \* the worker: how far it has booted, and what it has still to arm
    unarmed,        \* the tasks this worker could not arm
    schedules,      \* schedules[t]: the cron Redis repeats t with
    jobs,           \* jobs[t]: the job of t, with its attempts
    called,         \* the calls made to the API: task and build
    mishaps

scheduleVars == <<build, worker, unarmed, schedules, jobs, called, mishaps>>

NoJob == [state |-> "none", attempts |-> 0]
Down == [stage |-> "down", todo |-> {}]
Declared == {t \in TaskNames : Declares[build][t] # NotArmed}
Scheduled == {t \in TaskNames : schedules[t] # NotArmed}

ScheduledTasksTypeOK ==
    /\ build \in 1..Builds /\ mishaps \in 0..MaxMishaps
    /\ worker \in [stage : {"down", "arming", "pruning", "running"}, todo : SUBSET TaskNames]
    /\ unarmed \subseteq TaskNames
    /\ schedules \in [TaskNames -> Crons \cup {NotArmed}]
    /\ jobs \in [TaskNames -> [state : {"none", "waiting", "active"}, attempts : 0..JobAttempts]]
    /\ called \subseteq TaskNames \X (1..Builds)

ScheduledTasksInit ==
    /\ build = 1 /\ worker = Down /\ unarmed = {} /\ called = {} /\ mishaps = 0
    /\ schedules = [t \in TaskNames |-> NotArmed]
    /\ jobs = [t \in TaskNames |-> NoJob]

Mishap == mishaps < MaxMishaps /\ mishaps' = mishaps + 1

\* A job the worker held when it stopped is waiting again.
Returned == [t \in TaskNames |-> IF jobs[t].state = "active" THEN [jobs[t] EXCEPT !.state = "waiting"] ELSE jobs[t]]
Stop == worker' = Down /\ jobs' = Returned

-------------------------------------------------------------------------------
Deploy ==
    /\ worker = Down /\ build < Builds
    /\ build' = build + 1
    /\ UNCHANGED <<worker, unarmed, schedules, jobs, called, mishaps>>

\* onApplicationBootstrap, syncSchedules
Boot ==
    /\ worker = Down
    /\ worker' = [stage |-> "arming", todo |-> Declared]
    /\ unarmed' = {}
    /\ UNCHANGED <<build, schedules, jobs, called, mishaps>>

UpsertSchedule(t) ==
    /\ worker.stage = "arming" /\ t \in worker.todo
    /\ worker' = [worker EXCEPT !.todo = @ \ {t}]
    /\ \/ /\ schedules' = [schedules EXCEPT ![t] = Declares[build][t]]
          /\ UNCHANGED <<unarmed, mishaps>>
       \/ Mishap /\ unarmed' = unarmed \cup {t} /\ UNCHANGED schedules
    /\ UNCHANGED <<build, jobs, called>>

LeftBehind == Scheduled \ Declared

ListSchedules ==
    /\ worker.stage = "arming" /\ worker.todo = {}
    /\ worker' = [stage |-> "pruning", todo |-> LeftBehind]
    /\ UNCHANGED <<build, unarmed, schedules, jobs, called, mishaps>>

\* removeSchedule: the job of its next turn goes with it, one that is due already stays.
RemoveSchedule(t) ==
    /\ worker.stage = "pruning" /\ t \in worker.todo
    /\ worker' = [worker EXCEPT !.todo = @ \ {t}]
    /\ schedules' = [schedules EXCEPT ![t] = NotArmed]
    /\ UNCHANGED <<build, unarmed, jobs, called, mishaps>>

StartWorker ==
    /\ worker.stage = "pruning" /\ worker.todo = {}
    /\ worker' = [stage |-> "running", todo |-> {}]
    /\ UNCHANGED <<build, unarmed, schedules, jobs, called, mishaps>>

\* A listing or a removal that fails ends the boot; so may anything end the worker.
WorkerStops ==
    /\ worker # Down /\ Mishap /\ Stop
    /\ UNCHANGED <<build, unarmed, schedules, called>>

\* onApplicationShutdown lets the jobs under way end.
Shutdown ==
    /\ worker.stage = "running" /\ \A t \in TaskNames : jobs[t].state # "active"
    /\ worker' = Down
    /\ UNCHANGED <<build, unarmed, schedules, jobs, called, mishaps>>

Tick(t) ==
    /\ t \in Scheduled /\ jobs[t] = NoJob
    /\ jobs' = [jobs EXCEPT ![t] = [state |-> "waiting", attempts |-> 0]]
    /\ UNCHANGED <<build, worker, unarmed, schedules, called, mishaps>>

TakeJob(t) ==
    /\ worker.stage = "running" /\ jobs[t].state = "waiting"
    /\ jobs' = [jobs EXCEPT ![t].state = "active"]
    /\ UNCHANGED <<build, worker, unarmed, schedules, called, mishaps>>

Fails(t) ==
    IF jobs[t].attempts + 1 >= JobAttempts THEN NoJob
    ELSE [state |-> "waiting", attempts |-> jobs[t].attempts + 1]

\* RunScheduledTask: the call may fail after the API has done the work.
Runnable(t) == t \in Declared

RunTask(t) ==
    /\ jobs[t].state = "active" /\ Runnable(t)
    /\ called' = called \cup {<<t, build>>}
    /\ \/ jobs' = [jobs EXCEPT ![t] = NoJob] /\ UNCHANGED mishaps
       \/ Mishap /\ jobs' = [jobs EXCEPT ![t] = Fails(t)]
    /\ UNCHANGED <<build, worker, unarmed, schedules>>

UnknownTask(t) ==
    /\ jobs[t].state = "active" /\ ~Runnable(t)
    /\ jobs' = [jobs EXCEPT ![t] = Fails(t)]
    /\ UNCHANGED <<build, worker, unarmed, schedules, called, mishaps>>

ScheduledTasksNext ==
    \/ Deploy \/ Boot \/ ListSchedules \/ StartWorker \/ WorkerStops \/ Shutdown
    \/ \E t \in TaskNames : UpsertSchedule(t) \/ RemoveSchedule(t) \/ Tick(t) \/ TakeJob(t)
                        \/ RunTask(t) \/ UnknownTask(t)

-------------------------------------------------------------------------------
(* A schedule never outlives the build that declared it: once the worker   *)
(* takes jobs, Redis repeats what its build declares and nothing else, but *)
(* for the tasks it reported it could not arm; and no job left over in the *)
(* queue makes a build call what it does not declare.                      *)
SchedulesFollowTheBuild ==
    /\ worker.stage = "running" =>
        \A t \in TaskNames \ unarmed : schedules[t] = Declares[build][t]
    /\ \A call \in called : Declares[call[2]][call[1]] # NotArmed
================================================================================
