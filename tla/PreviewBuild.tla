----------------------------- MODULE PreviewBuild -----------------------------
(***************************************************************************)
(* Image builds of Kubernetes previews: the PreviewBuildRecord rows that   *)
(* count against the quotas of user and team, the BuildKit Jobs that are   *)
(* created suspended when there is no room.  Requests start, watch, cancel *)
(* and stop; one worker at a time checks the Jobs, cancels what has queued *)
(* for too long and resumes suspended Jobs.  The source of a build and the *)
(* Deployment that runs its image are left out.                            *)
(*                                                                         *)
(* A request or a duty of the worker is the sequence of steps it still has *)
(* to do; the steps of different agents interleave at every await.         *)
(***************************************************************************)
EXTENDS FiniteSets, Integers, Sequences, SequencesExt

CONSTANTS
    Build,     \* attempts to build; each has a record and a Job
    SessionOf, \* [Build -> session]; a session has one preview
    ScopesOf,  \* [session -> the user and the team its builds count for]
    Limit,     \* [scope -> PREVIEW_BUILD_MAX_PER_USER or _PER_TEAM]
    Request,   \* requests that may be under way at the same time
    Worker,    \* the maintenance loop, which runs on one pod at a time
    None,      \* no build
    Happens,   \* the kinds of events that are not plain progress
    MaxEvents  \* bound: such events in a behaviour

Session == {SessionOf[b] : b \in Build}
Scope == UNION {ScopesOf[s] : s \in Session}
Agent == Request \cup {Worker}

\* stop: a preview is stopped.  cancel: somebody cancels a build, whose start
\* may still be under way.  error: a call to Kubernetes or the last transaction
\* of a start fails.  lost: a deletion fails, a creation or a patch is answered
\* with an error.  crash, worker_crash: the pod of a request or the worker dies.
EventKinds == {"stop", "cancel", "error", "lost", "crash", "worker_crash"}

ASSUME PreviewAssumption ==
    /\ IsFiniteSet(Build) /\ DOMAIN SessionOf = Build
    /\ DOMAIN ScopesOf = Session /\ Limit \in [Scope -> Nat \ {0}]
    /\ Worker \notin Request /\ None \notin Build
    /\ Happens \subseteq EventKinds /\ MaxEvents \in Nat

VARIABLES
    record,  \* PreviewBuildRecord.status
    line,    \* the builds in the order of queuedAt
    job,     \* the state of the Job
    preview, \* [Session -> PreviewInstance.extra.buildRecordId]
    todo,    \* [Agent -> the steps still to be done]
    events,  \* events so far
    \* Two history variables, which no action reads:
    astray,  \* builds whose Job was deleted before it was created, or about
             \* whose Job a call failed
    orphaned \* builds whose place the worker had given when it died, and
             \* whose Job it had not resumed

vars == <<record, line, job, preview, todo, events, astray, orphaned>>
rows == <<record, line>>
history == <<astray, orphaned>>

Unfinished == {"queued", "building"}
Finished == {"succeeded", "failed", "cancelled"}
StartDuties == {"reserve", "create_job", "create_suspended", "save"}
Duties == StartDuties \cup {"delete_job", "finish", "write", "resume"}
Step == [do : Duties, of : Build, to : Finished \cup {"-"}]

TypeOK ==
    /\ record \in [Build -> Unfinished \cup Finished \cup {"none"}]
    /\ line \in Seq(Build) /\ IsInjective(line)
    /\ ToSet(line) = {b \in Build : record[b] # "none"}
    /\ job \in [Build -> {"none", "suspended", "running", "complete", "failed"}]
    /\ preview \in [Session -> Build \cup {None}]
    /\ todo \in [Agent -> Seq(Step)]
    /\ events \in 0..MaxEvents
    /\ astray \subseteq Build /\ orphaned \subseteq Build

Init ==
    /\ record = [b \in Build |-> "none"] /\ line = <<>>
    /\ job = [b \in Build |-> "none"]
    /\ preview = [s \in Session |-> None]
    /\ todo = [a \in Agent |-> <<>>] /\ events = 0
    /\ astray = {} /\ orphaned = {}

-------------------------------------------------------------------------------
(* Helpers *)

Can(kind) == kind \in Happens /\ events < MaxEvents
Event(kind) == Can(kind) /\ events' = events + 1

Act(duty, b) == [do |-> duty, of |-> b, to |-> "-"]
Finish(b, status) == [do |-> "finish", of |-> b, to |-> status]

\* The steps of K8sPreviewService.stop, and of cancelRecord for a build that
\* is not its preview's.
EndSteps(b) == <<Act("delete_job", b), Finish(b, "cancelled")>>

\* Agent a is about to do this duty for b, and goes on with these steps.
Doing(a, duty, b) == todo[a] # <<>> /\ Head(todo[a]).do = duty /\ Head(todo[a]).of = b
Then(a, steps) == todo' = [todo EXCEPT ![a] = steps \o Tail(@)]
Done(a) == Then(a, <<>>)
Instead(a, steps) == todo' = [todo EXCEPT ![a] = steps]

\* The start request of b is still under way.
Starting(b) == \E a \in Agent : \E step \in ToSet(todo[a]) :
                  step.of = b /\ step.do \in StartDuties

\* Somebody is about to create the Job of b.
ToCreate(b) == \E a \in Agent : Doing(a, "create_job", b) \/ Doing(a, "create_suspended", b)

-------------------------------------------------------------------------------
(* Requests *)

\* PreviewService.start stops the preview it finds, whatever its status.
Start(a, b) ==
    LET old == preview[SessionOf[b]] IN
    /\ todo[a] = <<>> /\ record[b] = "none" /\ ~Starting(b)
    /\ Instead(a, (IF old = None THEN <<>> ELSE EndSteps(old))
                   \o <<Act("reserve", b)>>)
    /\ UNCHANGED <<rows, job, preview, events, history>>

\* PreviewService.stop, and reapExpired of a preview nobody has looked at.
Stop(a, s) ==
    /\ todo[a] = <<>> /\ preview[s] # None
    /\ Event("stop")
    /\ Instead(a, EndSteps(preview[s]))
    /\ UNCHANGED <<rows, job, preview, history>>

\* cancelBuild and adminCancel, which do not look whether the start of the
\* build is still under way.
Cancel(a, b) ==
    /\ todo[a] = <<>> /\ record[b] \in Unfinished
    /\ Event("cancel")
    /\ Instead(a, EndSteps(b))
    /\ UNCHANGED <<rows, job, preview, history>>

\* status: what the Job says is written down once it has ended.
Verdict(b) == IF job[b] = "complete" THEN "succeeded" ELSE "failed"

Watch(a, s) ==
    LET b == preview[s] IN
    /\ todo[a] = <<>> /\ b # None
    /\ record[b] # "queued" /\ job[b] \in {"complete", "failed"}
    /\ Instead(a, <<Finish(b, Verdict(b))>>)
    /\ UNCHANGED <<rows, job, preview, events, history>>

-------------------------------------------------------------------------------
(* The steps of a start *)

Building(c) == {b \in Build : record[b] = "building" /\ c \in ScopesOf[SessionOf[b]]}
RoomForOneMore(b) == \A c \in ScopesOf[SessionOf[b]] : Cardinality(Building(c)) <= Limit[c]
HasRoom(b) == \A c \in ScopesOf[SessionOf[b]] : Cardinality(Building(c)) < Limit[c]

\* reserveBuild counts and inserts under an advisory lock.
NotYet(b) == "pending"
Reserved(b) == IF HasRoom(b) THEN "building" ELSE "queued"

Reserve(a, b) ==
    /\ Doing(a, "reserve", b)
    /\ record' = [record EXCEPT ![b] = Reserved(b)]
    /\ line' = Append(line, b)
    /\ Then(a, <<Act(IF HasRoom(b) THEN "create_job" ELSE "create_suspended", b),
                 Act("save", b)>>)
    /\ UNCHANGED <<job, preview, events, history>>

Created(a, b) ==
    \/ Doing(a, "create_job", b) /\ job' = [job EXCEPT ![b] = "running"]
    \/ Doing(a, "create_suspended", b) /\ job' = [job EXCEPT ![b] = "suspended"]

CreateJob(a, b) ==
    /\ Created(a, b) /\ Done(a)
    /\ UNCHANGED <<rows, preview, events, history>>

\* The Job is created, and the answer is lost: the record is ended.
CreateLost(a, b) ==
    /\ Event("lost")
    /\ Created(a, b) /\ Instead(a, <<Finish(b, "failed")>>)
    /\ astray' = astray \cup {b}
    /\ UNCHANGED <<rows, preview, orphaned>>

\* Deployment, Service, Ingress and policies are there; the instance is saved.
Save(a, b) ==
    /\ Doing(a, "save", b)
    /\ preview' = [preview EXCEPT ![SessionOf[b]] = b]
    /\ Done(a)
    /\ UNCHANGED <<rows, job, events, history>>

\* What is cleaned up when a step of the start fails: nothing, when it is
\* one of the upserts before the instance is saved; and the record is ended
\* only if that fails for a conflict of service keys.
Undo(duty, b) ==
    {steps \in {<<>>, <<Finish(b, "failed")>>, <<Act("delete_job", b)>>, EndSteps(b)} :
        \/ duty = "reserve" /\ steps = <<>>
        \/ duty \in {"create_job", "create_suspended"} /\ steps = <<Finish(b, "failed")>>
        \/ duty = "save" /\ steps # <<Finish(b, "failed")>>}

\* The failure may come after the instance has been saved, from its routes.
StartFails(a, b) ==
    /\ todo[a] # <<>> /\ Head(todo[a]).of = b
    /\ Event("error")
    /\ \E steps \in Undo(Head(todo[a]).do, b) :
          /\ Instead(a, steps)
          /\ preview' \in IF steps = <<Act("delete_job", b)>>
                           THEN {preview, [preview EXCEPT ![SessionOf[b]] = b]}
                           ELSE {preview}
    /\ UNCHANGED <<rows, job, history>>

-------------------------------------------------------------------------------
(* The steps that end a build *)

\* Promise.allSettled and finally: a deletion that fails is passed over.
Deleted == IF Can("lost") THEN BOOLEAN ELSE {TRUE}
Lose(done) == events' = IF done THEN events ELSE events + 1

DeleteJob(a, b) ==
    /\ Doing(a, "delete_job", b) /\ Done(a)
    /\ \E done \in Deleted :
          /\ Lose(done)
          /\ job' = IF done THEN [job EXCEPT ![b] = "none"] ELSE job
          /\ astray' = IF done /\ ~ToCreate(b) THEN astray ELSE astray \cup {b}
    /\ UNCHANGED <<rows, preview, orphaned>>

\* finishBuild: a look at the record, then an update by id.
FinishLooks(a, b) ==
    /\ Doing(a, "finish", b)
    /\ Then(a, IF record[b] \in Unfinished
                  THEN <<[Head(todo[a]) EXCEPT !.do = "write"]>> ELSE <<>>)
    /\ UNCHANGED <<rows, job, preview, events, history>>

FinishWrites(a, b) ==
    /\ Doing(a, "write", b)
    /\ record' = [record EXCEPT ![b] = Head(todo[a]).to] /\ Done(a)
    /\ UNCHANGED <<line, job, preview, events, history>>

-------------------------------------------------------------------------------
(* The worker: maintainBuildQueue *)

\* PREVIEW_BUILD_QUEUE_TIMEOUT_MINUTES.
Expire(b) ==
    /\ todo[Worker] = <<>> /\ record[b] = "queued"
    /\ Instead(Worker, EndSteps(b))
    /\ UNCHANGED <<rows, job, preview, events, history>>

\* A start that is still under way creates its Job within the grace period.
NeverLost(b) == FALSE
JobLost(b) == job[b] = "none" /\ ~Starting(b)

Check(b) ==
    /\ todo[Worker] = <<>> /\ record[b] = "building"
    /\ \/ /\ job[b] \in {"complete", "failed"}
          /\ Instead(Worker, <<Finish(b, Verdict(b))>>)
       \/ JobLost(b) /\ Instead(Worker, <<Finish(b, "failed")>>)
    /\ UNCHANGED <<rows, job, preview, events, history>>

\* dispatchQueued: the first in the line that has room, under reserveBuild's
\* lock; its Job is resumed afterwards.
Candidates == {i \in DOMAIN line : record[line[i]] = "queued" /\ HasRoom(line[i])}

Dispatch(b) ==
    /\ todo[Worker] = <<>>
    /\ \E i \in Candidates : line[i] = b /\ \A j \in Candidates : i <= j
    /\ record' = [record EXCEPT ![b] = "building"]
    /\ Instead(Worker, <<Act("resume", b)>>)
    /\ UNCHANGED <<line, job, preview, events, history>>

\* The Job may have been deleted, or not been created yet; a patch that is
\* answered with an error may have been made.
Resume(b) ==
    /\ Doing(Worker, "resume", b)
    /\ \E done \in Deleted :
          /\ Lose(done)
          /\ Then(Worker, IF done /\ job[b] # "none" THEN <<>>
                                                     ELSE <<Finish(b, "failed")>>)
          /\ \/ job' = [job EXCEPT ![b] = IF @ = "suspended" THEN "running" ELSE @]
             \/ ~done /\ job' = job
          /\ astray' = IF done THEN astray ELSE astray \cup {b}
    /\ UNCHANGED <<rows, preview, orphaned>>

\* The place that the worker had given for the Job it was at.
LeftBehind == {b \in Build :
    /\ Head(todo[Worker]).of = b /\ record[b] = "building"
    /\ job[b] = "suspended" \/ ToCreate(b)}

Crash(a) ==
    /\ todo[a] # <<>>
    /\ Event(IF a = Worker THEN "worker_crash" ELSE "crash")
    /\ Instead(a, <<>>)
    /\ orphaned' = IF a = Worker THEN orphaned \cup LeftBehind ELSE orphaned
    /\ UNCHANGED <<rows, job, preview, astray>>

-------------------------------------------------------------------------------
(* Kubernetes *)

\* A Job succeeds, fails too often or reaches activeDeadlineSeconds.
JobEnds(b) ==
    /\ job[b] = "running"
    /\ \E end \in {"complete", "failed"} : job' = [job EXCEPT ![b] = end]
    /\ UNCHANGED <<rows, preview, todo, events, history>>

-------------------------------------------------------------------------------
Work(a, b) ==
    \/ Reserve(a, b) \/ CreateJob(a, b) \/ Save(a, b)
    \/ DeleteJob(a, b) \/ FinishLooks(a, b) \/ FinishWrites(a, b)

Maintain(b) == Expire(b) \/ Check(b)

Next ==
    \/ \E a \in Request :
          \/ \E b \in Build :
                Start(a, b) \/ Cancel(a, b) \/ StartFails(a, b) \/ CreateLost(a, b)
          \/ \E s \in Session : Stop(a, s) \/ Watch(a, s)
    \/ \E a \in Agent : Crash(a) \/ \E b \in Build : Work(a, b)
    \/ \E b \in Build : Maintain(b) \/ Dispatch(b) \/ Resume(b) \/ JobEnds(b)

Spec == Init /\ [][Next]_vars

\* Requests that have begun go on; the worker's loop comes to every row again
\* and again, between its other duties; Jobs have a deadline.
Fairness ==
    /\ \A a \in Agent : WF_vars(\E b \in Build : Work(a, b))
    /\ WF_vars(\E b \in Build : Resume(b))
    /\ \A b \in Build : SF_vars(Expire(b)) /\ SF_vars(Check(b)) /\ WF_vars(JobEnds(b))

FairSpec == Spec /\ Fairness

-------------------------------------------------------------------------------
(* Properties *)

\* The Jobs that run for a user or a team never exceed its limit: a Job runs
\* only while its record holds a place, unless it was deleted before it was
\* there or a call about it failed and nobody looked again.
NoOversell == \A c \in Scope :
    Cardinality({b \in Build \ astray :
                    job[b] = "running" /\ c \in ScopesOf[SessionOf[b]]}) <= Limit[c]

\* A build that was reserved comes to an end and gives its place back, even
\* if the request that started it dies on the way; only a place that the
\* worker had given and not yet used when it died stays.
BuildEnds == \A b \in Build :
    record[b] \in Unfinished ~> record[b] \in Finished \/ b \in orphaned
===============================================================================
