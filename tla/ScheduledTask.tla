----------------------------- MODULE ScheduledTask -----------------------------
(***************************************************************************)
(* Scheduled Java tasks: tasks that a second person has approved, the      *)
(* dispatchers of the worker replicas that claim what is due, executions   *)
(* with a row in PostgreSQL and a job in Redis, the runners that call the  *)
(* Java service, cancellation, and the reconciliation that every replica   *)
(* makes when it starts.                                                   *)
(*                                                                         *)
(* Time counts the occurrences of the cron expression: occurrence k is due *)
(* from time k on.                                                         *)
(*                                                                         *)
(* Most rows are written by id after a look at something else.  Three      *)
(* ghost variables, which no action reads, record where that goes wrong:   *)
(* `rearmed' the occurrences that a user who enabled a task has put on     *)
(* again, `overtaken' the executions on which a write came too late, and   *)
(* `stranded' those left behind by a call that failed or a request that    *)
(* died, which only the next start of a replica finds, if it does.         *)
(***************************************************************************)
EXTENDS FiniteSets, Integers

CONSTANTS
    Task,       \* scheduled tasks
    Cron,       \* the tasks that recur; the others run once
    Forbid,     \* the tasks with concurrencyPolicy `forbid'
    Dispatcher, \* one per worker replica
    Request,    \* manual runs, changes of a task and cancellations that may
                \* be under way at the same time
    Execution,  \* executions, numbered in the order of their creation
    Runner,     \* concurrent executions, over all replicas
    None,       \* no task, no execution
    Attempts,   \* maxRetries + 1
    MaxTime,    \* bound: occurrences of a cron expression
    Happens,    \* the kinds of events that are not plain progress
    MaxEvents   \* bound: such events in a behaviour

\* crash: a worker replica dies.  error: a call of the service or to PostgreSQL
\* fails, or the pod of a request dies.  add_error: a call to Redis fails.
EventKinds == {"late_approval", "change", "expire", "crash", "start", "error",
               "add_error", "cancel"}
Starter == Dispatcher \cup Request

ASSUME ScheduleAssumption ==
    /\ Cron \subseteq Task /\ Forbid \subseteq Task
    /\ Execution \subseteq Nat \ {0} /\ IsFiniteSet(Execution)
    /\ Dispatcher \cap Request = {} /\ None \notin Task \cup Execution \cup Nat
    /\ Attempts \in Nat \ {0} /\ MaxTime \in Nat /\ MaxEvents \in Nat
    /\ Happens \subseteq EventKinds

VARIABLES
    now,         \* the time
    task,        \* [Task -> ScheduledJavaTask.status]
    approved,    \* the tasks with an approvedAt
    next,        \* [Task -> nextRunAt, or None]
    step, about, \* where each starter stands, and with which task
    slot,        \* the occurrence it has claimed; 0 for a manual run
    planned,     \* the time of a next run, as it has computed it
    exec,        \* the execution it has inserted, or is about to cancel
    note,        \* the status it is about to write
    row, of, occurrence, \* [Execution -> status, task and occurrence]
    job,         \* [Execution -> state of its job]
    tries,       \* [Execution -> attemptsMade]
    stalls,      \* [Execution -> how often its job has stalled]
    pc, at,      \* where each runner stands, and with which execution
    aborted,     \* the runners whose poll has seen a cancellation
    listed,      \* [Execution -> what the reconciliation of a start does next]
    replicas,    \* "dead" if one has died since the last one was started again
    events,      \* events so far
    rearmed, overtaken, stranded \* ghosts: see above

tasks == <<now, task, approved, next>>
starters == <<step, about, slot, planned, exec, note>>
executions == <<row, of, occurrence, job, tries, stalls>>
runners == <<pc, at, aborted>>
starts == <<listed, replicas>>
history == <<rearmed, overtaken, stranded>>
vars == <<tasks, starters, executions, runners, starts, history, events>>

Finished == {"succeeded", "failed", "cancelled"} \* timed_out is `failed' here
Open == {"queued", "running", "cancelling"}
JobStates == {"missing", "waiting", "active", "completed", "failed"}
MaxStalls == 1 \* BullMQ's maxStalledCount: the next stall fails the job

TypeOK ==
    /\ now \in 0..MaxTime
    /\ task \in [Task -> {"pending_approval", "enabled", "paused", "rejected",
                          "completed", "expired"}]
    /\ approved \subseteq Task
    /\ next \in [Task -> (0..MaxTime + 1) \cup {None}]
    /\ step \in [Starter -> {"idle", "plan", "claim", "check", "insert", "add",
                           "fail", "misled", "change", "look", "remove", "write"}]
    /\ about \in [Starter -> Task \cup {None}]
    /\ slot \in [Starter -> 0..MaxTime]
    /\ planned \in [Starter -> (0..MaxTime + 1) \cup {None}]
    /\ exec \in [Starter -> Execution \cup {None}]
    /\ note \in [Starter -> {"none", "enabled", "paused", "cancelling", "cancelled"}]
    /\ row \in [Execution -> Finished \cup Open \cup {"none"}]
    /\ of \in [Execution -> Task \cup {None}]
    /\ occurrence \in [Execution -> 0..MaxTime]
    /\ job \in [Execution -> JobStates] /\ tries \in [Execution -> 0..Attempts]
    /\ stalls \in [Execution -> 0..MaxStalls]
    /\ pc \in [Runner -> {"idle", "read", "start", "call", "ok", "error",
                          "done", "threw"}]
    /\ at \in [Runner -> Execution \cup {None}] /\ aborted \subseteq Runner
    /\ listed \in [Execution -> {"no", "listed", "queued", "failed"}]
    /\ replicas \in {"alive", "dead"} /\ events \in 0..MaxEvents
    /\ rearmed \subseteq Task \X (0..MaxTime)
    /\ overtaken \subseteq Execution /\ stranded \subseteq Execution

Init ==
    /\ now = 0 /\ task = [t \in Task |-> "pending_approval"] /\ approved = {}
    /\ next = [t \in Task |-> 1]
    /\ step = [a \in Starter |-> "idle"] /\ about = [a \in Starter |-> None]
    /\ slot = [a \in Starter |-> 0] /\ planned = [a \in Starter |-> None]
    /\ exec = [a \in Starter |-> None] /\ note = [a \in Starter |-> "none"]
    /\ row = [e \in Execution |-> "none"] /\ of = [e \in Execution |-> None]
    /\ occurrence = [e \in Execution |-> 0]
    /\ job = [e \in Execution |-> "missing"] /\ tries = [e \in Execution |-> 0]
    /\ stalls = [e \in Execution |-> 0]
    /\ pc = [r \in Runner |-> "idle"] /\ at = [r \in Runner |-> None]
    /\ aborted = {}
    /\ listed = [e \in Execution |-> "no"] /\ replicas = "alive"
    /\ rearmed = {} /\ overtaken = {} /\ stranded = {} /\ events = 0

-------------------------------------------------------------------------------
(* Helpers *)

Event(kind) ==
    kind \in Happens /\ events < MaxEvents /\ events' = events + 1

SetTask(t, s) == task' = [task EXCEPT ![t] = s]
SetRow(e, s) == row' = [row EXCEPT ![e] = s]
SetJob(e, s) == job' = [job EXCEPT ![e] = s]
Goto(r, label) == pc' = [pc EXCEPT ![r] = label]
Takes(a, label) == step' = [step EXCEPT ![a] = label]
Rests(a) ==
    /\ Takes(a, "idle") /\ about' = [about EXCEPT ![a] = None]
    /\ slot' = [slot EXCEPT ![a] = 0] /\ planned' = [planned EXCEPT ![a] = None]
    /\ exec' = [exec EXCEPT ![a] = None] /\ note' = [note EXCEPT ![a] = "none"]

Rearmed(pairs) == rearmed' = rearmed \cup pairs /\ UNCHANGED <<overtaken, stranded>>
Overtaken(e, late) ==
    /\ overtaken' = IF late THEN overtaken \cup {e} ELSE overtaken
    /\ UNCHANGED <<rearmed, stranded>>
Strand(executed) == stranded' = stranded \cup executed /\ UNCHANGED <<rearmed, overtaken>>

(* Who has claimed an occurrence, or is executing it.  A claim is forgotten *)
(* when its dispatcher dies or finds the task busy.                         *)
Claims(t, k) == {a \in Starter : step[a] \in {"check", "insert"} /\ about[a] = t /\ slot[a] = k}
Runs(t, k) == {e \in Execution : of[e] = t /\ occurrence[e] = k}

-------------------------------------------------------------------------------
(* Tasks *)

Tick ==
    /\ now < MaxTime /\ now' = now + 1
    /\ UNCHANGED <<task, approved, next, starters, executions, runners, starts, history, events>>

(* approveTask looks at the status and writes by id; rejectTask writes only *)
(* if the status is still pending, and so may come in between.              *)
Approve(t) ==
    /\ \/ task[t] = "pending_approval" /\ UNCHANGED events
       \/ task[t] = "rejected" /\ Event("late_approval")
    /\ SetTask(t, "enabled") /\ approved' = approved \cup {t}
    /\ UNCHANGED <<now, next, starters, executions, runners, starts, history>>

Reject(t) ==
    /\ task[t] = "pending_approval" /\ SetTask(t, "rejected")
    /\ UNCHANGED <<now, approved, next, starters, executions, runners, starts, history, events>>

Upcoming == now + 1 \* nextCron

(* changeStatus looks whether the task was ever approved and computes the   *)
(* next run, and then writes both by id.  Occurrences that were claimed in  *)
(* the meantime may lie at or after that run: they are on again.            *)
LookAtTask(a, t, s) ==
    /\ a \in Request /\ step[a] = "idle" /\ t \in approved /\ Event("change")
    /\ Takes(a, "change") /\ about' = [about EXCEPT ![a] = t]
    /\ note' = [note EXCEPT ![a] = s]
    /\ planned' = [planned EXCEPT ![a] = IF s = "enabled" /\ t \in Cron THEN Upcoming ELSE None]
    /\ UNCHANGED <<tasks, slot, exec, executions, runners, starts, history>>

ChangeStatus(a) ==
    LET t == about[a] IN
    /\ step[a] = "change" /\ SetTask(t, note[a])
    /\ next' = [next EXCEPT ![t] = IF planned[a] = None THEN @ ELSE planned[a]]
    /\ Rearmed({<<t, k>> : k \in {j \in 0..MaxTime :
           planned[a] # None /\ planned[a] <= j /\ Claims(t, j) \cup Runs(t, j) # {}}})
    /\ Rests(a)
    /\ UNCHANGED <<now, approved, executions, runners, starts, events>>

Expire(t) ==
    /\ task[t] \in {"enabled", "paused"} /\ SetTask(t, "expired") /\ Event("expire")
    /\ next' = [next EXCEPT ![t] = None]
    /\ UNCHANGED <<now, approved, starters, executions, runners, starts, history>>

-------------------------------------------------------------------------------
(* Starting an execution: dispatchDueTasks and runManually *)

IsDue(t) == task[t] = "enabled" /\ next[t] # None /\ next[t] <= now

FindDue(a, t) ==
    /\ a \in Dispatcher /\ step[a] = "idle" /\ IsDue(t)
    /\ Takes(a, "plan") /\ about' = [about EXCEPT ![a] = t]
    /\ UNCHANGED <<tasks, slot, planned, exec, note, executions, runners, starts,
                   history, events>>

(* The next run and the time of the claim are computed before it is made. *)
Plan(a) ==
    /\ step[a] = "plan" /\ Takes(a, "claim")
    /\ planned' = [planned EXCEPT ![a] = Upcoming]
    /\ UNCHANGED <<tasks, about, slot, exec, note, executions, runners, starts,
                   history, events>>

StillDue(a) ==
    /\ task[about[a]] = "enabled" /\ next[about[a]] # None
    /\ next[about[a]] < planned[a]
LeftDue(a) == next[about[a]]
NextRun(a) == IF about[a] \in Cron THEN planned[a] ELSE None

Claim(a) ==
    LET t == about[a] IN
    /\ step[a] = "claim"
    /\ IF StillDue(a)
       THEN /\ Takes(a, "check") /\ slot' = [slot EXCEPT ![a] = next[t]]
            /\ next' = [next EXCEPT ![t] = NextRun(a)]
            /\ task' = [task EXCEPT ![t] = IF t \in Cron THEN @ ELSE "completed"]
            /\ planned' = [planned EXCEPT ![a] = None] /\ UNCHANGED <<about, exec, note>>
       ELSE Rests(a) /\ UNCHANGED <<next, task>>
    /\ UNCHANGED <<now, approved, executions, runners, starts, history, events>>

RunManually(a, t) ==
    /\ a \in Request /\ step[a] = "idle"
    /\ task[t] \in {"enabled", "completed"} /\ t \in approved
    /\ Takes(a, "check") /\ about' = [about EXCEPT ![a] = t]
    /\ UNCHANGED <<tasks, slot, planned, exec, note, executions, runners, starts,
                   history, events>>

(* A cancelling execution does not count. *)
Busy(t) == \E e \in Execution : of[e] = t /\ row[e] \in {"queued", "running"}

CheckPolicy(a) ==
    /\ step[a] = "check"
    /\ IF about[a] \in Forbid /\ Busy(about[a])
       THEN Rests(a)
       ELSE Takes(a, "insert") /\ UNCHANGED <<about, slot, planned, exec, note>>
    /\ UNCHANGED <<tasks, executions, runners, starts, history, events>>

Insert(a, e) ==
    /\ step[a] = "insert" /\ row[e] = "none"
    /\ \A f \in Execution : f < e => row[f] # "none"
    /\ SetRow(e, "queued") /\ of' = [of EXCEPT ![e] = about[a]]
    /\ occurrence' = [occurrence EXCEPT ![e] = slot[a]]
    /\ Takes(a, "add") /\ exec' = [exec EXCEPT ![a] = e]
    /\ UNCHANGED <<tasks, about, slot, planned, note, job, tries, stalls, runners,
                   starts, history, events>>

(* queue.add; it may throw although the job has arrived. *)
Add(a) ==
    /\ step[a] = "add" /\ SetJob(exec[a], "waiting") /\ Rests(a)
    /\ UNCHANGED <<tasks, row, of, occurrence, tries, stalls, runners, starts,
                   history, events>>

AddThrows(a) ==
    /\ step[a] = "add" /\ Event("add_error")
    /\ \/ Takes(a, "fail") /\ UNCHANGED job
       \/ Takes(a, "misled") /\ SetJob(exec[a], "waiting")
    /\ UNCHANGED <<tasks, about, slot, planned, exec, note, row, of, occurrence,
                   tries, stalls, runners, starts, history>>

FailRow(a) ==
    /\ step[a] \in {"fail", "misled"} /\ SetRow(exec[a], "failed") /\ Rests(a)
    /\ UNCHANGED <<tasks, of, occurrence, job, tries, stalls, runners, starts,
                   history, events>>

(* A call to PostgreSQL or Redis throws, or the pod of a request dies: no   *)
(* more is done, and an execution without a job is left as it is.           *)
GiveUp(a) ==
    /\ step[a] # "idle" /\ (a \in Dispatcher => step[a] # "add") /\ Event("error")
    /\ Strand({e \in Execution : exec[a] = e /\ job[e] = "missing"})
    /\ Rests(a)
    /\ UNCHANGED <<tasks, executions, runners, starts>>

-------------------------------------------------------------------------------
(* Running an execution: the BullMQ worker and processExecution *)

Fetch(r, e) ==
    /\ pc[r] = "idle" /\ job[e] = "waiting"
    /\ SetJob(e, "active") /\ Goto(r, "read") /\ at' = [at EXCEPT ![r] = e]
    /\ UNCHANGED <<tasks, starters, row, of, occurrence, tries, stalls, aborted,
                   starts, history, events>>

UnwantedYet(e) == row[e] = "cancelling"
(* An execution that has been cancelled is not run. *)
Unwanted(e) == row[e] = "cancelled"

Read(r) ==
    /\ pc[r] = "read" /\ Goto(r, IF Unwanted(at[r]) THEN "threw" ELSE "start")
    /\ UNCHANGED <<tasks, starters, executions, at, aborted, starts, history, events>>

(* The status is written without a condition, then the service is called. *)
Start(r) ==
    /\ pc[r] = "start" /\ SetRow(at[r], "running") /\ Goto(r, "call")
    /\ UNCHANGED <<tasks, starters, of, occurrence, job, tries, stalls, at, aborted,
                   starts, history, events>>

Poll(r) ==
    /\ pc[r] \in {"read", "start", "call", "ok"} /\ r \notin aborted
    /\ row[at[r]] \in {"cancelling", "cancelled"} /\ aborted' = aborted \cup {r}
    /\ UNCHANGED <<tasks, starters, executions, pc, at, starts, history, events>>

(* The service answers, or fails or takes too long, or the call is aborted. *)
Answer(r) ==
    /\ pc[r] = "call"
    /\ \/ r \notin aborted /\ Goto(r, "ok") /\ UNCHANGED events
       \/ r \notin aborted /\ Goto(r, "error") /\ Event("error")
       \/ r \in aborted /\ Goto(r, "error") /\ UNCHANGED events
    /\ UNCHANGED <<tasks, starters, executions, at, aborted, starts, history>>

PastAttempts(e) == tries[e] >= Attempts
FinalAttempt(e) == tries[e] + 1 >= Attempts
FailedStatus(r) ==
    IF r \in aborted THEN "cancelled"
    ELSE IF FinalAttempt(at[r]) THEN "failed" ELSE "queued"
Outcome(r) == IF pc[r] = "ok" THEN "succeeded" ELSE FailedStatus(r)

Record(r) ==
    /\ pc[r] \in {"ok", "error"} /\ SetRow(at[r], Outcome(r))
    /\ Goto(r, IF pc[r] = "ok" THEN "done" ELSE "threw")
    /\ UNCHANGED <<tasks, starters, of, occurrence, job, tries, stalls, at, aborted,
                   starts, history, events>>

(* A call to PostgreSQL throws; the row keeps what the attempt found. *)
Throw(r) ==
    /\ pc[r] \in {"read", "start", "ok", "error"} /\ Event("error")
    /\ Goto(r, IF pc[r] = "ok" THEN "error" ELSE "threw")
    /\ Strand({e \in {at[r]} : pc[r] # "ok" /\ FinalAttempt(e)})
    /\ UNCHANGED <<tasks, starters, executions, at, aborted, starts>>

(* BullMQ learns of the outcome: it completes, retries or fails the job. *)
Report(r) ==
    LET e == at[r] IN
    /\ \/ pc[r] = "done" /\ SetJob(e, "completed")
       \/ pc[r] = "threw" /\ FinalAttempt(e) /\ SetJob(e, "failed")
       \/ pc[r] = "threw" /\ ~FinalAttempt(e) /\ SetJob(e, "waiting")
    /\ tries' = [tries EXCEPT ![e] = @ + 1]
    /\ Goto(r, "idle") /\ at' = [at EXCEPT ![r] = None] /\ aborted' = aborted \ {r}
    /\ UNCHANGED <<tasks, starters, row, of, occurrence, stalls, starts, history, events>>

(* The lock of a job whose runner has died runs out: the job is run again, *)
(* or has stalled too often and fails, which no handler writes into a row. *)
Stalled(e) ==
    /\ job[e] = "active" /\ \A r \in Runner : at[r] # e
    /\ IF stalls[e] < MaxStalls
       THEN /\ SetJob(e, "waiting") /\ stalls' = [stalls EXCEPT ![e] = @ + 1]
            /\ UNCHANGED history
       ELSE SetJob(e, "failed") /\ Strand({e}) /\ UNCHANGED stalls
    /\ UNCHANGED <<tasks, starters, row, of, occurrence, tries, runners, starts, events>>

-------------------------------------------------------------------------------
(* Cancellation: cancelExecution, one step for each access *)

CancelReads(a, e) ==
    /\ a \in Request /\ step[a] = "idle" /\ row[e] \in Open /\ Event("cancel")
    /\ Takes(a, "look") /\ exec' = [exec EXCEPT ![a] = e]
    /\ UNCHANGED <<tasks, about, slot, planned, note, executions, runners, starts, history>>

CancelLooks(a) ==
    /\ step[a] = "look"
    /\ Takes(a, IF job[exec[a]] \in {"missing", "active"} THEN "write" ELSE "remove")
    /\ note' = [note EXCEPT ![a] = IF job[exec[a]] = "active" THEN "cancelling" ELSE "cancelled"]
    /\ UNCHANGED <<tasks, about, slot, planned, exec, executions, runners, starts,
                   history, events>>

(* A job that has been fetched meanwhile is locked: the request fails. *)
CancelRemoves(a) ==
    /\ step[a] = "remove"
    /\ IF job[exec[a]] = "active"
       THEN Rests(a) /\ UNCHANGED job
       ELSE /\ Takes(a, "write") /\ SetJob(exec[a], "missing")
            /\ UNCHANGED <<about, slot, planned, exec, note>>
    /\ UNCHANGED <<tasks, row, of, occurrence, tries, stalls, runners, starts,
                   history, events>>

(* Too late is a cancellation that did not see a job that is there now, or *)
(* saw an attempt whose execution has ended or lost its job since.         *)
CancelWrites(a) ==
    LET e == exec[a] IN
    /\ step[a] = "write" /\ SetRow(e, note[a]) /\ Rests(a)
    /\ Overtaken(e, IF note[a] = "cancelling"
                    THEN row[e] \in Finished \/ job[e] = "missing"
                    ELSE job[e] # "missing")
    /\ UNCHANGED <<tasks, of, occurrence, job, tries, stalls, runners, starts, events>>

-------------------------------------------------------------------------------
(* Death and start of a replica *)

(* reconcile, first statement: the executions that look interrupted. *)
NewlyListed == {e \in Execution : listed[e] = "no" /\ row[e] \in {"queued", "running"}}

(* A replica that has died is started again; others come when they like.   *)
(* What was stranded without a job is found, if its row looks interrupted. *)
StartReplica ==
    /\ \/ replicas = "dead" /\ replicas' = "alive" /\ UNCHANGED events
       \/ Event("start") /\ UNCHANGED replicas
    /\ listed' = [e \in Execution |-> IF e \in NewlyListed THEN "listed" ELSE listed[e]]
    /\ stranded' = stranded \ {e \in NewlyListed : job[e] = "missing"}
    /\ UNCHANGED <<tasks, starters, executions, runners, rearmed, overtaken>>

(* A replica dies with its dispatcher, the runners R and the part L of the *)
(* reconciliation under way.                                               *)
Crash(a, R, L) ==
    /\ a \in Dispatcher
    /\ \/ step[a] # "idle" \/ \E r \in R : pc[r] # "idle"
       \/ \E e \in L : listed[e] # "no"
    /\ Event("crash") /\ replicas' = "dead" /\ Rests(a)
    /\ pc' = [r \in Runner |-> IF r \in R THEN "idle" ELSE pc[r]]
    /\ at' = [r \in Runner |-> IF r \in R THEN None ELSE at[r]]
    /\ aborted' = aborted \ R
    /\ listed' = [e \in Execution |-> IF e \in L THEN "no" ELSE listed[e]]
    /\ UNCHANGED <<tasks, executions, history>>

IsKnown(e) == row[e] # "none"
HasJob(e) == job[e] # "missing"

ReconcileLooks(e) ==
    /\ listed[e] = "listed"
    /\ listed' = [listed EXCEPT ![e] = IF HasJob(e) THEN "queued" ELSE "failed"]
    /\ UNCHANGED <<tasks, starters, executions, runners, replicas, history, events>>

ReconcileWrites(e) ==
    /\ listed[e] \in {"queued", "failed"}
    /\ SetRow(e, listed[e]) /\ listed' = [listed EXCEPT ![e] = "no"]
    /\ Overtaken(e, row[e] \in Finished \cup {"cancelling"})
    /\ UNCHANGED <<tasks, starters, of, occurrence, job, tries, stalls, runners,
                   replicas, events>>

-------------------------------------------------------------------------------
TaskStep(t) == Approve(t) \/ Reject(t) \/ Expire(t)

RequestBegins(a) ==
    \/ \E t \in Task : RunManually(a, t) \/ \E s \in {"enabled", "paused"} : LookAtTask(a, t, s)
    \/ \E e \in Execution : CancelReads(a, e)

StarterStep(a) ==
    \/ Plan(a) \/ Claim(a) \/ CheckPolicy(a) \/ Add(a) \/ AddThrows(a) \/ FailRow(a)
    \/ ChangeStatus(a) \/ CancelLooks(a) \/ CancelRemoves(a) \/ CancelWrites(a)
    \/ \E e \in Execution : Insert(a, e)

RunnerStep(r) == Read(r) \/ Start(r) \/ Answer(r) \/ Record(r) \/ Report(r)

ExecutionStep(e) == Stalled(e) \/ ReconcileLooks(e) \/ ReconcileWrites(e)

Next ==
    \/ Tick \/ StartReplica
    \/ \E t \in Task : TaskStep(t)
    \/ \E a \in Starter : \/ StarterStep(a) \/ GiveUp(a) \/ RequestBegins(a)
                          \/ \E t \in Task : FindDue(a, t)
                          \/ \E R \in SUBSET Runner, L \in SUBSET Execution : Crash(a, R, L)
    \/ \E r \in Runner : \/ RunnerStep(r) \/ Poll(r) \/ Throw(r)
                         \/ \E e \in Execution : Fetch(r, e)
    \/ \E e \in Execution : ExecutionStep(e)

Spec == Init /\ [][Next]_vars

(* Handlers that have begun go on; a runner that is free fetches a job; the *)
(* lock of a dead runner runs out; the service answers or the call times    *)
(* out; a replica that died comes back.  Time, users and events are not fair. *)
FairSpec ==
    /\ Spec
    /\ \A a \in Starter : WF_vars(StarterStep(a))
    /\ \A r \in Runner : WF_vars(RunnerStep(r)) /\ WF_vars(\E e \in Execution : Fetch(r, e))
    /\ \A e \in Execution : WF_vars(ExecutionStep(e))
    /\ WF_vars(StartReplica /\ replicas = "dead")

-------------------------------------------------------------------------------
(* Properties *)

(* dispatchDueTasks on several replicas: an occurrence is run at most once, *)
(* however many dispatchers find it due, compute a next run and claim late, *)
(* die with it, or meet a user who pauses the task; a user who enables it   *)
(* with a run computed before a claim may have it run again.                *)
OncePerOccurrence ==
    \A t \in Task, k \in 1..MaxTime : <<t, k>> \notin rearmed =>
        /\ \A a, b \in Claims(t, k) : a = b
        /\ \A e, f \in Runs(t, k) : e = f
        /\ Claims(t, k) = {} \/ Runs(t, k) = {}

(* cancelExecution against enqueueExecution and processExecution: while the *)
(* row says cancelled the service is not called, unless the write that says *)
(* so did not see a job that was there.                                     *)
CancelledIsNotCalled ==
    [][\A r \in Runner : pc[r] = "start" /\ pc'[r] = "call" /\ row[at[r]] = "cancelled"
           => at[r] \in overtaken]_vars

(* Every execution ends, though runners and dispatchers die, replicas      *)
(* start, the service or the queue fails; unless a write came too late on  *)
(* it, or it is stranded: by a job that failed without a row written, for  *)
(* good, or without a job, until the next start of a replica.              *)
ExecutionsEnd ==
    \A e \in Execution :
        row[e] \in Open ~> row[e] \in Finished \/ e \in overtaken \cup stranded
===============================================================================
