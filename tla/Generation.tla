------------------------------ MODULE Generation ------------------------------
(***************************************************************************)
(* Code-generation tasks: the Task rows in PostgreSQL, the BullMQ jobs in  *)
(* Redis that carry them, and the workers that admit a task within the     *)
(* quotas of its user and team, run it under the workspace lock and record *)
(* the outcome.  Users and administrators cancel and replay meanwhile.     *)
(*                                                                         *)
(* The row and the job of a task live in two stores and are never written  *)
(* together; most of the module is about what may come between two writes. *)
(* Many of them are made by id upon an earlier look.  Two ghost variables  *)
(* say where that goes wrong.  `overtaken' has the tasks whose job was     *)
(* fetched while somebody who had looked before had yet to write the row;  *)
(* `forsaken' has the active tasks whose last keeper died, or whose job an *)
(* administrator removed too early.  README section 5 has the code.        *)
(***************************************************************************)
EXTENDS FiniteSets, Integers

CONSTANTS
    Task,      \* tasks, and their jobs (jobId = task.id)
    SessionOf, \* [Task -> session]; a session has a workspace of its own
    ScopesOf,  \* [session -> the user and the team its generations count for]
    Limit,     \* [scope -> GENERATION_MAX_PER_USER or _PER_TEAM; 0: no limit]
    Runner,    \* concurrent executions, over all worker pods; a runner also
               \* stands for the `failed' listener that it has called
    Call,      \* concurrent requests to cancel, replay or remove, over all API pods
    None,      \* no runner, no task
    Attempts,  \* AGENT_JOB_ATTEMPTS
    MaxStalls, \* BullMQ's maxStalledCount
    Happens,   \* the kinds of events that are not plain progress
    MaxEvents  \* bound: such events in a behaviour

Session == {SessionOf[t] : t \in Task}
Scope == UNION {ScopesOf[s] : s \in Session}
EventKinds == {"error", "timeout", "crash", "cancel", "replay", "remove"}

ASSUME GenerationAssumption ==
    /\ IsFiniteSet(Task) /\ IsFiniteSet(Runner) /\ DOMAIN SessionOf = Task
    /\ DOMAIN ScopesOf = Session /\ Limit \in [Scope -> Nat]
    /\ None \notin Runner \cup Task
    /\ Attempts \in Nat \ {0} /\ MaxStalls \in Nat
    /\ Happens \subseteq EventKinds /\ MaxEvents \in Nat

VARIABLES
    row,     \* Task.status
    job,     \* state of the BullMQ job; "waiting" is waiting or delayed
    owner,   \* whose token holds the active job
    tries,   \* attemptsMade
    stalls,  \* stalledCounter
    commits, \* tasks whose result is in the session's Git history
    lock,    \* [Session -> the runner inside `workspace:<project>:<user>']
    pc, at,  \* where each runner stands, and with which task
    abort,   \* reason of the runner's AbortController
    request, \* [Task -> the enqueue request in progress]
    doing, of, \* where each call stands, and with which task
    overtaken, forsaken, \* ghosts: see above
    events   \* events so far

queue == <<job, owner, tries, stalls>>
runners == <<lock, pc, at, abort>>
calls == <<doing, of>>
ghosts == <<overtaken, forsaken>>
vars == <<row, queue, commits, runners, request, calls, ghosts, events>>

Active == {"queued", "running", "cancelling"}
Finished == {"succeeded", "failed", "cancelled", "timed_out"}
Open == {"queued", "running"}
Labels == {"idle", "read", "admit", "delay", "enter", "start", "prepare",
           "generate", "commit", "save", "complete", "reject", "reject_final",
           "failed_event", "failed_seen"}
Requests == {"none", "adding", "add_failed"}
CallSteps == {"idle", "look", "mark", "remove", "finish",
              "requeue", "retry", "unretry", "drop"}

TypeOK ==
    /\ row \in [Task -> Active \cup Finished \cup {"none"}]
    /\ job \in [Task -> {"none", "waiting", "active", "completed", "failed"}]
    /\ owner \in [Task -> Runner \cup {None}]
    /\ tries \in [Task -> 0..Attempts] /\ stalls \in [Task -> 0..MaxStalls]
    /\ commits \subseteq Task
    /\ lock \in [Session -> Runner \cup {None}]
    /\ pc \in [Runner -> Labels] /\ at \in [Runner -> Task \cup {None}]
    /\ abort \in [Runner -> {"no", "cancelled", "timed_out", "disk_limit"}]
    /\ request \in [Task -> Requests]
    /\ doing \in [Call -> CallSteps] /\ of \in [Call -> Task \cup {None}]
    /\ overtaken \subseteq Task /\ forsaken \subseteq Task
    /\ events \in 0..MaxEvents

Init ==
    /\ row = [t \in Task |-> "none"] /\ job = [t \in Task |-> "none"]
    /\ owner = [t \in Task |-> None]
    /\ tries = [t \in Task |-> 0] /\ stalls = [t \in Task |-> 0]
    /\ commits = {}
    /\ lock = [s \in Session |-> None]
    /\ pc = [r \in Runner |-> "idle"] /\ at = [r \in Runner |-> None]
    /\ abort = [r \in Runner |-> "no"]
    /\ request = [t \in Task |-> "none"]
    /\ doing = [c \in Call |-> "idle"] /\ of = [c \in Call |-> None]
    /\ overtaken = {} /\ forsaken = {} /\ events = 0

-------------------------------------------------------------------------------
(* Helpers *)

Event(kind) == kind \in Happens /\ events < MaxEvents /\ events' = events + 1

Same(t) == {u \in Task : SessionOf[u] = SessionOf[t]}
InScope(c) == {t \in Task : c \in ScopesOf[SessionOf[t]]}

(* The partial unique index on Task: one active row in a session. *)
IndexAllows(t, status) ==
    status \in Active => \A u \in Same(t) \ {t} : row[u] \notin Active
SetRow(t, status) ==
    /\ IndexAllows(t, status)
    /\ row' = [row EXCEPT ![t] = status]
SetRowIf(t, from, status) ==
    row' = [row EXCEPT ![t] = IF @ \in from THEN status ELSE @]

Goto(r, label) == pc' = [pc EXCEPT ![r] = label]

(* The processor has returned and the runner takes no part in t any more. *)
Free(r) ==
    /\ Goto(r, "idle")
    /\ at' = [at EXCEPT ![r] = None]
    /\ abort' = [abort EXCEPT ![r] = "no"]

Unlock(r) == lock' = [s \in Session |-> IF lock[s] = r THEN None ELSE lock[s]]

(* A job is moved only by the runner whose token it carries. *)
MoveJob(r, t, state) ==
    IF owner[t] = r
    THEN /\ job' = [job EXCEPT ![t] = state]
         /\ owner' = [owner EXCEPT ![t] = None]
    ELSE UNCHANGED <<job, owner>>

-------------------------------------------------------------------------------
(* Enqueueing *)

(* createQueuedTask: the session has no active task; the row comes first. *)
Create(t) ==
    /\ row[t] = "none"
    /\ SetRow(t, "queued")
    /\ request' = [request EXCEPT ![t] = "adding"]
    /\ UNCHANGED <<queue, commits, runners, calls, ghosts, events>>

AddJob(t) ==
    /\ request[t] = "adding"
    /\ job' = [job EXCEPT ![t] = "waiting"]
    /\ request' = [request EXCEPT ![t] = "none"]
    /\ UNCHANGED <<row, owner, tries, stalls, commits, runners, calls, ghosts, events>>

(* queue.add throws; the job may have arrived all the same. *)
AddFails(t) ==
    /\ request[t] = "adding"
    /\ Event("error")
    /\ job' \in {job, [job EXCEPT ![t] = "waiting"]}
    /\ request' = [request EXCEPT ![t] = "add_failed"]
    /\ UNCHANGED <<row, owner, tries, stalls, commits, runners, calls, ghosts>>

AddFailWrites(t) ==
    /\ request[t] = "add_failed"
    /\ SetRow(t, "failed")
    /\ request' = [request EXCEPT ![t] = "none"]
    /\ UNCHANGED <<queue, commits, runners, calls, ghosts, events>>

ApiCrash(t) ==
    /\ request[t] # "none"
    /\ Event("crash")
    /\ request' = [request EXCEPT ![t] = "none"]
    /\ UNCHANGED <<row, queue, commits, runners, calls, ghosts>>

(* reconcileInterruptedTasks of a worker that starts: adding a job takes   *)
(* less than the 60 seconds it waits.                                      *)
Reconcile(t) ==
    /\ row[t] = "queued" /\ job[t] = "none" /\ request[t] # "adding"
    /\ SetRow(t, "failed")
    /\ UNCHANGED <<queue, commits, runners, request, calls, ghosts, events>>

-------------------------------------------------------------------------------
(* Calls: cancel and adminCancel, replayDeadLetter, removeDeadLetter *)

Begin(c, t, step) ==
    /\ doing[c] = "idle"
    /\ doing' = [doing EXCEPT ![c] = step] /\ of' = [of EXCEPT ![c] = t]
CallGoto(c, step) == doing' = [doing EXCEPT ![c] = step] /\ UNCHANGED of
Answer(c) == doing' = [doing EXCEPT ![c] = "idle"] /\ of' = [of EXCEPT ![c] = None]

(* cancel has found a job, whatever the row says; adminCancel has found an *)
(* active row, and looks for a job next.                                   *)
CancelRequest(c, t) ==
    /\ Event("cancel") /\ (job[t] # "none" \/ row[t] \in Active)
    /\ Begin(c, t, "look")
    /\ UNCHANGED <<row, queue, commits, runners, request, ghosts>>

InProgress(t) == job[t] = "active"

CancelLooks(c, t) ==
    /\ doing[c] = "look" /\ of[c] = t
    /\ CallGoto(c, IF InProgress(t) THEN "mark"
                   ELSE IF job[t] = "none" THEN "finish" ELSE "remove")
    /\ UNCHANGED <<row, queue, commits, runners, request, ghosts, events>>

(* job.remove throws when the job is active by now. *)
RemoveJob(c, t) ==
    /\ doing[c] \in {"remove", "drop"} /\ of[c] = t
    /\ IF job[t] = "active"
       THEN UNCHANGED <<job, forsaken>> /\ Answer(c)
       ELSE /\ job' = [job EXCEPT ![t] = "none"]
            /\ \/ doing[c] = "remove" /\ CallGoto(c, "finish") /\ UNCHANGED forsaken
               \/ /\ doing[c] = "drop" /\ Answer(c)
                  /\ forsaken' = IF row[t] = "running" THEN forsaken \cup {t} ELSE forsaken
    /\ UNCHANGED <<row, owner, tries, stalls, commits, runners, request, overtaken,
                   events>>

AtOnce == "cancelled"
InTheEnd == "cancelling"

(* By id, whatever the row says by now; only the index can object. *)
CancelWrites(c, t) ==
    /\ of[c] = t
    /\ \/ doing[c] = "mark" /\ SetRow(t, InTheEnd)
       \/ doing[c] = "mark" /\ ~IndexAllows(t, InTheEnd) /\ UNCHANGED row
       \/ doing[c] = "finish" /\ SetRow(t, "cancelled")
    /\ Answer(c)
    /\ UNCHANGED <<queue, commits, runners, request, ghosts, events>>

Replay(c, t) ==
    /\ job[t] = "failed" /\ row[t] = "failed" /\ IndexAllows(t, "queued")
    /\ Event("replay") /\ Begin(c, t, "requeue")
    /\ UNCHANGED <<row, queue, commits, runners, request, ghosts>>

Requeue(c, t) ==
    /\ doing[c] = "requeue" /\ of[c] = t
    /\ \/ SetRow(t, "queued") /\ CallGoto(c, "retry")
       \/ ~IndexAllows(t, "queued") /\ UNCHANGED row /\ Answer(c)
    /\ UNCHANGED <<queue, commits, runners, request, ghosts, events>>

(* job.retry throws unless the job is failed. *)
RetryJob(c, t) ==
    /\ doing[c] = "retry" /\ of[c] = t
    /\ IF job[t] = "failed"
       THEN job' = [job EXCEPT ![t] = "waiting"] /\ Answer(c)
       ELSE CallGoto(c, "unretry") /\ UNCHANGED job
    /\ UNCHANGED <<row, owner, tries, stalls, commits, runners, request, ghosts, events>>

RetryFails(c, t) ==
    /\ doing[c] = "unretry" /\ of[c] = t
    /\ SetRow(t, "failed") /\ Answer(c)
    /\ UNCHANGED <<queue, commits, runners, request, ghosts, events>>

RemoveDeadLetter(c, t) ==
    /\ job[t] = "failed" /\ Event("remove") /\ Begin(c, t, "drop")
    /\ UNCHANGED <<row, queue, commits, runners, request, ghosts>>

(* The pod dies, with a row or a job changed and the other not yet. *)
CallCrash(c, t) ==
    /\ doing[c] # "idle" /\ of[c] = t /\ Event("crash") /\ Answer(c)
    /\ forsaken' = IF doing[c] \in {"finish", "retry", "unretry"} /\ row[t] \in Open
                   THEN forsaken \cup {t} ELSE forsaken
    /\ UNCHANGED <<row, queue, commits, runners, request, overtaken>>

-------------------------------------------------------------------------------
(* Admission *)

(* Somebody has seen the task before it is run, and will write upon that. *)
WriteIsDue(t) ==
    \/ request[t] = "add_failed"
    \/ \E c \in Call : of[c] = t /\ doing[c] \in {"finish", "requeue", "retry", "unretry"}
    \/ \E r \in Runner : at[r] = t /\ pc[r] = "failed_seen"

Fetch(r, t) ==
    /\ pc[r] = "idle" /\ job[t] = "waiting"
    /\ job' = [job EXCEPT ![t] = "active"] /\ owner' = [owner EXCEPT ![t] = r]
    /\ at' = [at EXCEPT ![r] = t] /\ Goto(r, "read")
    /\ overtaken' = IF WriteIsDue(t) THEN overtaken \cup {t} ELSE overtaken
    /\ UNCHANGED <<row, tries, stalls, commits, lock, abort, request, calls, forsaken,
                   events>>

(* admit reads the row before it takes the advisory locks. *)
AdmitReads(r, t) ==
    /\ pc[r] = "read" /\ at[r] = t
    /\ Goto(r, IF row[t] \in {"cancelled", "cancelling", "succeeded"}
               THEN "reject_final" ELSE "admit")
    /\ UNCHANGED <<row, queue, commits, lock, at, abort, request, calls, ghosts, events>>

AllActive == {t \in Task : row[t] \in Active}
Counted == {t \in Task : row[t] \in {"running", "cancelling"}}
FullByOne(c, t) == Limit[c] > 0 /\ Cardinality((Counted \cap InScope(c)) \ {t}) > Limit[c]
Full(c, t) == Limit[c] > 0 /\ Cardinality((Counted \cap InScope(c)) \ {t}) >= Limit[c]
HasRoom(t) == \A c \in ScopesOf[SessionOf[t]] : ~Full(c, t)

(* Counting and writing are one step under the locks of team and user.     *)
(* An update that the index refuses is a failed attempt.                   *)
AdmitWrites(r, t) ==
    /\ pc[r] = "admit" /\ at[r] = t
    /\ \/ HasRoom(t) /\ SetRow(t, "running") /\ Goto(r, "enter")
       \/ ~HasRoom(t) /\ SetRow(t, "queued") /\ Goto(r, "delay")
       \/ ~IndexAllows(t, "running") /\ UNCHANGED row /\ Goto(r, "reject")
    /\ UNCHANGED <<queue, commits, lock, at, abort, request, calls, ghosts, events>>

(* Without room the job is delayed, which is no attempt. *)
Delay(r, t) ==
    /\ pc[r] = "delay" /\ at[r] = t
    /\ MoveJob(r, t, "waiting") /\ Free(r)
    /\ UNCHANGED <<row, tries, stalls, commits, lock, request, calls, ghosts, events>>

-------------------------------------------------------------------------------
(* Execution *)

Running == {"enter", "start", "prepare", "generate", "commit", "save"}

(* cancellationPoll, the execution timeout and the resource poll. *)
Poll(r, t) ==
    /\ pc[r] \in Running /\ at[r] = t /\ abort[r] = "no"
    /\ \/ row[t] = "cancelling" /\ abort' = [abort EXCEPT ![r] = "cancelled"]
          /\ UNCHANGED events
       \/ /\ Event("timeout")
          /\ \E reason \in {"timed_out", "disk_limit"} :
                abort' = [abort EXCEPT ![r] = reason]
    /\ UNCHANGED <<row, queue, commits, lock, pc, at, request, calls, ghosts>>

Enter(r, t) ==
    /\ pc[r] = "enter" /\ at[r] = t /\ lock[SessionOf[t]] = None
    /\ lock' = [lock EXCEPT ![SessionOf[t]] = r]
    /\ Goto(r, "start")
    /\ UNCHANGED <<row, queue, commits, at, abort, request, calls, ghosts, events>>

Rejection(r) == IF abort[r] # "no" THEN "reject_final" ELSE "reject"

(* Everything that throws before runTask's try: the session lookups and    *)
(* the wait for the lock, an abort, missing credentials or worktree, an    *)
(* update that the index refuses.  The row is not written.                 *)
FailsEarly(r, t) ==
    /\ pc[r] \in {"enter", "start", "prepare"} /\ at[r] = t
    /\ \/ Event("error")
       \/ pc[r] # "prepare" /\ abort[r] # "no" /\ UNCHANGED events
       \/ pc[r] = "prepare" /\ ~IndexAllows(t, "running") /\ UNCHANGED events
    /\ Unlock(r) /\ Goto(r, Rejection(r))
    /\ UNCHANGED <<row, queue, commits, at, abort, request, calls, ghosts>>

(* The last look at the signal; an abort during executor.prepare comes too *)
(* late to keep the row from being written.                                *)
Prepare(r, t) ==
    /\ pc[r] = "start" /\ at[r] = t /\ abort[r] = "no"
    /\ Goto(r, "prepare")
    /\ UNCHANGED <<row, queue, commits, lock, at, abort, request, calls, ghosts, events>>

Start(r, t) ==
    /\ pc[r] = "prepare" /\ at[r] = t
    /\ SetRow(t, "running")
    /\ Goto(r, "generate")
    /\ UNCHANGED <<queue, commits, lock, at, abort, request, calls, ghosts, events>>

(* The provider and the build verification; a result with isError or a     *)
(* failed build is an outcome, not an exception.                           *)
Generate(r, t) ==
    /\ pc[r] = "generate" /\ at[r] = t
    /\ \/ Goto(r, "commit") /\ UNCHANGED <<row, lock, events>>
       \/ /\ Event("error")
          /\ SetRow(t, "failed") /\ Unlock(r) /\ Goto(r, "complete")
    /\ UNCHANGED <<queue, commits, at, abort, request, calls, ghosts>>

Commit(r, t) ==
    /\ pc[r] = "commit" /\ at[r] = t
    /\ commits' = commits \cup {t}
    /\ Goto(r, "save")
    /\ UNCHANGED <<row, queue, lock, at, abort, request, calls, ghosts, events>>

Save(r, t) ==
    /\ pc[r] = "save" /\ at[r] = t
    /\ SetRow(t, "succeeded")
    /\ Unlock(r) /\ Goto(r, "complete")
    /\ UNCHANGED <<queue, commits, at, abort, request, calls, ghosts, events>>

(* The catch of runTask: an abort throws out of generate, an error out of  *)
(* any step of the try.                                                    *)
OutcomeIsAbort(r) == IF abort[r] = "no" THEN "failed" ELSE abort[r]
Outcome(r) ==
    IF abort[r] \in {"cancelled", "timed_out"} THEN abort[r] ELSE "failed"

Throws(r, t) ==
    /\ at[r] = t
    /\ \/ pc[r] = "generate" /\ abort[r] # "no" /\ UNCHANGED events
       \/ pc[r] \in {"generate", "commit", "save"} /\ Event("error")
    /\ SetRowIf(t, {"running", "cancelling"}, Outcome(r))
    /\ Unlock(r) /\ Goto(r, Rejection(r))
    /\ UNCHANGED <<queue, commits, at, abort, request, calls, ghosts>>

-------------------------------------------------------------------------------
(* The end of a job *)

Complete(r, t) ==
    /\ pc[r] = "complete" /\ at[r] = t
    /\ MoveJob(r, t, "completed") /\ Free(r)
    /\ UNCHANGED <<row, tries, stalls, commits, lock, request, calls, ghosts, events>>

(* Another attempt after a backoff, or the end of the job. *)
LastAttempt(r, t) == pc[r] = "reject_final" \/ tries[t] + 1 >= Attempts

Reject(r, t) ==
    /\ pc[r] \in {"reject", "reject_final"} /\ at[r] = t
    /\ IF owner[t] = r
       THEN tries' = [tries EXCEPT ![t] = IF @ < Attempts THEN @ + 1 ELSE @]
       ELSE UNCHANGED tries
    /\ MoveJob(r, t, IF LastAttempt(r, t) THEN "failed" ELSE "waiting")
    /\ Goto(r, "failed_event")
    /\ UNCHANGED <<row, stalls, commits, lock, at, abort, request, calls, ghosts, events>>

QueuedOnly == {"queued"}
FailedEventCovers == {"queued", "running"}

(* The listener is called for every failed attempt, and looks whether the  *)
(* job is failed for good; its write comes later.                          *)
AnyFailure(t) == TRUE
StillFailed(t) == job[t] = "failed"

Listen(r, t) ==
    /\ pc[r] = "failed_event" /\ at[r] = t
    /\ IF StillFailed(t)
       THEN Goto(r, "failed_seen") /\ UNCHANGED <<at, abort>>
       ELSE Free(r)
    /\ UNCHANGED <<row, queue, commits, lock, request, calls, ghosts, events>>

FailedEvent(r, t) ==
    /\ pc[r] = "failed_seen" /\ at[r] = t
    /\ SetRowIf(t, FailedEventCovers, "failed")
    /\ Free(r)
    /\ UNCHANGED <<queue, commits, lock, request, calls, ghosts, events>>

(* A worker dies; the keys of its locks expire. *)
Listening == {"failed_event", "failed_seen"}
Crash(r, t) ==
    /\ pc[r] # "idle" /\ at[r] = t /\ Event("crash")
    /\ Free(r) /\ Unlock(r)
    /\ forsaken' = IF pc[r] \in Listening /\ job[t] = "failed" /\ row[t] \in Open
                   THEN forsaken \cup {t} ELSE forsaken
    /\ UNCHANGED <<row, queue, commits, request, calls, overtaken>>

MayStall(t) == stalls[t] < MaxStalls

(* The worker of an active job is dead, and the job's lock has expired (a   *)
(* live worker renews it).  BullMQ hands the job out again, but not for    *)
(* ever; the worker that finds out then emits `failed'.                    *)
Stalled(t) == job[t] = "active" /\ \A r \in Runner : owner[t] = r => at[r] # t

Stall(t) ==
    /\ Stalled(t) /\ MayStall(t)
    /\ job' = [job EXCEPT ![t] = "waiting"] /\ owner' = [owner EXCEPT ![t] = None]
    /\ stalls' = [stalls EXCEPT ![t] = @ + 1]
    /\ UNCHANGED <<row, tries, commits, runners, request, calls, ghosts, events>>

StallFails(r, t) ==
    /\ Stalled(t) /\ ~MayStall(t) /\ pc[r] = "idle"
    /\ job' = [job EXCEPT ![t] = "failed"] /\ owner' = [owner EXCEPT ![t] = None]
    /\ Goto(r, "failed_event") /\ at' = [at EXCEPT ![r] = t]
    /\ UNCHANGED <<row, tries, stalls, commits, lock, abort, request, calls, ghosts, events>>

-------------------------------------------------------------------------------
Work(r, t) ==
    \/ AdmitReads(r, t) \/ AdmitWrites(r, t) \/ Delay(r, t)
    \/ Enter(r, t) \/ FailsEarly(r, t) \/ Prepare(r, t) \/ Start(r, t)
    \/ Generate(r, t) \/ Commit(r, t) \/ Save(r, t) \/ Throws(r, t)
    \/ Complete(r, t) \/ Reject(r, t) \/ Listen(r, t) \/ FailedEvent(r, t)

RequestStep(t) == AddJob(t) \/ AddFailWrites(t)

CallStep(c, t) ==
    \/ CancelLooks(c, t) \/ RemoveJob(c, t) \/ CancelWrites(c, t)
    \/ Requeue(c, t) \/ RetryJob(c, t) \/ RetryFails(c, t)

CallBegins(c, t) == CancelRequest(c, t) \/ Replay(c, t) \/ RemoveDeadLetter(c, t)

StallCheck(t) == Stall(t) \/ \E r \in Runner : StallFails(r, t)

Next ==
    \E t \in Task :
        \/ Create(t) \/ AddFails(t) \/ ApiCrash(t) \/ Reconcile(t)
        \/ RequestStep(t) \/ StallCheck(t)
        \/ \E c \in Call : CallBegins(c, t) \/ CallStep(c, t) \/ CallCrash(c, t)
        \/ \E r \in Runner : Crash(r, t) \/ Fetch(r, t) \/ Poll(r, t) \/ Work(r, t)

Spec == Init /\ [][Next]_vars

(* BullMQ hands jobs out in order, so that a waiting job is fetched in the *)
(* end however often others come back; workers, polls and the stall check  *)
(* run on timers (the last beside the jobs of the worker, whatever it      *)
(* runs), and worker pods restart.                                         *)
Fairness ==
    /\ \A t \in Task :
          /\ SF_vars(\E r \in Runner : Fetch(r, t)) /\ SF_vars(StallCheck(t))
          /\ WF_vars(RequestStep(t)) /\ WF_vars(Reconcile(t))
    /\ \A c \in Call, t \in Task : WF_vars(CallStep(c, t))
    /\ \A r \in Runner, t \in Task : WF_vars(Work(r, t)) /\ WF_vars(Poll(r, t))

FairSpec == Spec /\ Fairness

-------------------------------------------------------------------------------
(* Properties *)

Executing == {r \in Runner : pc[r] \in {"generate", "commit", "save"}}

\* The generations under way for a user or a team never exceed its limit,
\* whatever is cancelled, retried, replayed or redelivered after a crash, those
\* apart whose row was overwritten by somebody who had looked before (overtaken).
QuotaKept ==
    \A c \in Scope : Limit[c] > 0 =>
        Cardinality({r \in Executing : at[r] \in InScope(c) \ overtaken}) <= Limit[c]

\* While a generation writes into a workspace its row says so: nobody can
\* queue another one for the session, and the task is counted.  A write by id
\* can spoil that only if it was decided on before the job was fetched.
ExecutionIsVisible ==
    \A r \in Executing : at[r] \notin overtaken => row[at[r]] \in {"running", "cancelling"}

\* Once a task is shown as cancelled it adds nothing to the Git history, unless
\* the cancellation had found no job and one was added and fetched meanwhile.
CancelledStaysOut ==
    [][\A t \in Task \ overtaken' :
           row[t] = "cancelled" /\ t \notin commits => t \notin commits']_vars

\* A queued or running row has somebody who will bring it to an end: its
\* request, a call, its job, the listener or the reconciliation, unless the one
\* who had it in hand died, or its job was removed before the listener looked.
SomebodyCares ==
    \A t \in Task \ forsaken : row[t] \in Open =>
        \/ request[t] # "none"
        \/ \E c \in Call : of[c] = t /\ doing[c] \in {"finish", "retry", "unretry"}
        \/ job[t] \in {"waiting", "active"}
        \/ \E r \in Runner : at[r] = t /\ pc[r] \in Listening
        \/ row[t] = "queued" /\ job[t] = "none"

\* Every task comes to an end, although workers crash, attempts fail and
\* tasks wait for each other's quota, unless some task is forsaken: that one
\* stays active for ever, and may take the last place of the others.
TasksEnd ==
    \A t \in Task : row[t] \in Active ~> row[t] \in Finished \/ forsaken # {}

\* A cancellation that was accepted has an effect: the task ends.
CancelEnds == \A t \in Task : row[t] = "cancelling" ~> row[t] \in Finished
===============================================================================
