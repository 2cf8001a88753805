--------------------------- MODULE Generation_proofs ---------------------------
(***************************************************************************)
(* Proofs about Generation: for any tasks, sessions, limits, workers and   *)
(* calls, and whatever fails, dies, is cancelled, replayed or removed,     *)
(* running work is visible in its row and within the limits, and open rows *)
(* have a keeper.  The generations of a session are an ExclusiveSection,   *)
(* those of a user or a team a LimitedSection.  No event is excluded: what *)
(* the code does not keep is left out by the ghosts of the model, task by  *)
(* task.                                                                   *)
(***************************************************************************)
EXTENDS Generation, FiniteSetTheorems, TLAPS

-------------------------------------------------------------------------------
(* Types *)

\* At first no task exists and every variable is in its range.
LEMMA InitTypeOK == Init => TypeOK
BY GenerationAssumption
   DEF Init, TypeOK, Active, Finished, Labels, Requests, CallSteps

\* The steps that no runner takes: of requests, the reconciliation and the check
\* for stalled jobs, and of calls.
Aside(t) == \/ Create(t) \/ AddFails(t) \/ ApiCrash(t) \/ Reconcile(t)
            \/ RequestStep(t) \/ Stall(t)
Calling(c, t) == CallBegins(c, t) \/ CallStep(c, t) \/ CallCrash(c, t)

\* The steps of a runner keep the types.
LEMMA WorkTypeOK ==
    ASSUME TypeOK, NEW r \in Runner, NEW t \in Task, Work(r, t)
    PROVE  TypeOK'
<1> USE GenerationAssumption DEF TypeOK, Active, Finished, Labels, Goto, Free, Unlock,
        MoveJob, SetRow, SetRowIf, Event, queue, runners, calls, ghosts, Session
<1>1. CASE AdmitReads(r, t)
    BY <1>1 DEF AdmitReads
<1>2. CASE AdmitWrites(r, t)
    BY <1>2 DEF AdmitWrites
<1>3. CASE Delay(r, t)
    BY <1>3 DEF Delay
<1>4. CASE Enter(r, t)
    BY <1>4 DEF Enter
<1>5. CASE FailsEarly(r, t)
    BY <1>5 DEF FailsEarly, Rejection
<1>6. CASE Prepare(r, t) \/ Start(r, t)
    BY <1>6 DEF Prepare, Start
<1>7. CASE Generate(r, t)
    BY <1>7 DEF Generate
<1>8. CASE Commit(r, t)
    BY <1>8 DEF Commit
<1>9. CASE Save(r, t)
    BY <1>9 DEF Save
<1>10. CASE Throws(r, t)
    BY <1>10 DEF Throws, Outcome, Rejection
<1>11. CASE Complete(r, t)
    BY <1>11 DEF Complete
<1>12. CASE Reject(r, t)
    BY <1>12 DEF Reject
<1>13. CASE Listen(r, t) \/ FailedEvent(r, t)
    BY <1>13 DEF Listen, FailedEvent
<1> QED BY <1>1, <1>2, <1>3, <1>4, <1>5, <1>6, <1>7, <1>8, <1>9, <1>10, <1>11,
           <1>12, <1>13 DEF Work

\* Requests, calls, queue, reconciler and crashes keep the types as runners do.
LEMMA NextTypeOK == TypeOK /\ [Next]_vars => TypeOK'
<1> SUFFICES ASSUME TypeOK, [Next]_vars PROVE TypeOK'
    OBVIOUS
<1> USE GenerationAssumption DEF TypeOK, Active, Finished, Labels, Requests, CallSteps,
        Goto, Free, Unlock, SetRow, SetRowIf, Event, Begin, CallGoto, Answer, queue,
        runners, calls, ghosts
<1>1. ASSUME NEW t \in Task, Aside(t) PROVE TypeOK'
    <2>1. CASE Create(t) \/ ApiCrash(t) \/ Reconcile(t)
        BY <2>1 DEF Create, ApiCrash, Reconcile
    <2>2. CASE AddFails(t) \/ RequestStep(t)
        BY <2>2 DEF AddFails, RequestStep, AddJob, AddFailWrites
    <2>3. CASE Stall(t)
        BY <2>3 DEF Stall, MayStall
    <2> QED BY <1>1, <2>1, <2>2, <2>3 DEF Aside
<1>2. ASSUME NEW c \in Call, NEW t \in Task, Calling(c, t) PROVE TypeOK'
    <2>1. CASE CallBegins(c, t)
        BY <2>1 DEF CallBegins, CancelRequest, Replay, RemoveDeadLetter
    <2>2. CASE CancelLooks(c, t)
        BY <2>2 DEF CancelLooks
    <2>3. CASE RemoveJob(c, t)
        BY <2>3 DEF RemoveJob
    <2>4. CASE CancelWrites(c, t)
        BY <2>4 DEF CancelWrites, InTheEnd
    <2>5. CASE Requeue(c, t)
        BY <2>5 DEF Requeue
    <2>6. CASE RetryJob(c, t) \/ RetryFails(c, t)
        BY <2>6 DEF RetryJob, RetryFails
    <2>7. CASE CallCrash(c, t)
        BY <2>7 DEF CallCrash
    <2> QED BY <1>2, <2>1, <2>2, <2>3, <2>4, <2>5, <2>6, <2>7 DEF Calling, CallStep
<1>3. ASSUME NEW r \in Runner, NEW t \in Task, StallFails(r, t) PROVE TypeOK'
    BY <1>3 DEF StallFails
<1>4. ASSUME NEW r \in Runner, NEW t \in Task, Crash(r, t) PROVE TypeOK'
    BY <1>4 DEF Crash
<1>5. ASSUME NEW r \in Runner, NEW t \in Task, Fetch(r, t) \/ Poll(r, t) PROVE TypeOK'
    BY <1>5 DEF Fetch, Poll
<1>6. ASSUME NEW r \in Runner, NEW t \in Task, Work(r, t) PROVE TypeOK'
    BY <1>6, WorkTypeOK
<1>7. CASE UNCHANGED vars
    BY <1>7 DEF vars
<1> QED BY <1>1, <1>2, <1>3, <1>4, <1>5, <1>6, <1>7
        DEF Next, Aside, Calling, StallCheck

\* Rows, jobs, runners, requests and calls keep their types; above all, attempts
\* and stalls stay within what BullMQ allows.
THEOREM TypeCorrect == Spec => []TypeOK
BY InitTypeOK, NextTypeOK, PTL DEF Spec

\* No request, call or check moves a runner, touches a lock or the history, or
\* shows a task as running or as succeeded.
LEMMA RunnersStay ==
    ASSUME TypeOK,
           NEW t \in Task, Aside(t) \/ \E c \in Call : Calling(c, t)
    PROVE  /\ UNCHANGED <<commits, lock, pc, at, abort>>
           /\ \A u \in Task : row'[u] \in {"running", "succeeded"} => row'[u] = row[u]
<1> DEFINE Stay == /\ UNCHANGED <<commits, lock, pc, at, abort>>
                   /\ \A u \in Task : row'[u] \in {"running", "succeeded"} => row'[u] = row[u]
<1> USE DEF TypeOK, SetRow, runners
<1>1. CASE Aside(t)
    BY <1>1 DEF Aside, Create, AddFails, ApiCrash, Reconcile, RequestStep, AddJob,
                AddFailWrites, Stall
<1>2. ASSUME NEW c \in Call, CallBegins(c, t) \/ CallCrash(c, t) \/ CancelLooks(c, t)
                             \/ RemoveJob(c, t) \/ RetryJob(c, t)
      PROVE  Stay
    BY <1>2 DEF CallBegins, CancelRequest, Replay, RemoveDeadLetter, CallCrash,
                CancelLooks, RemoveJob, RetryJob
<1>3. ASSUME NEW c \in Call, CancelWrites(c, t) \/ Requeue(c, t) \/ RetryFails(c, t)
      PROVE  Stay
    BY <1>3 DEF CancelWrites, InTheEnd, Requeue, RetryFails
<1> QED BY <1>1, <1>2, <1>3 DEF Calling, CallStep

-------------------------------------------------------------------------------
(* Row and job *)

(***************************************************************************)
(* A runner that attends to a job holds it, so no two attend to the same   *)
(* one.  Who decided on a write before the job was fetched marks the task  *)
(* as overtaken; who looks later finds an active job and writes nothing    *)
(* but `cancelling'.  Between admission and outcome the row then says that *)
(* the task is in progress.                                                *)
(***************************************************************************)
Attending(r) == pc[r] \notin {"idle", "failed_event", "failed_seen"}

JobsHeld ==
    /\ \A r \in Runner : Attending(r) =>
          at[r] \in Task /\ job[at[r]] = "active" /\ owner[at[r]] = r
    /\ \A t \in Task : owner[t] # None => job[t] = "active"

RequestsFit == \A t \in Task :
    /\ request[t] = "adding" => job[t] = "none"
    /\ row[t] = "none" => job[t] = "none" /\ request[t] = "none"

NothingIsDue == \A r \in Runner, t \in Task :
    Attending(r) /\ at[r] = t /\ t \notin overtaken => ~WriteIsDue(t)

RunningIsVisible ==
    \A r \in Runner : pc[r] \in Running /\ at[r] \notin overtaken =>
        row[at[r]] \in {"running", "cancelling"}

HeldInv == TypeOK /\ JobsHeld /\ RequestsFit
ProgressInv == HeldInv /\ NothingIsDue /\ RunningIsVisible

\* With no job there is nothing to attend to.
LEMMA InitProgressInv == Init => ProgressInv
<1>1. Init => JobsHeld /\ RequestsFit /\ NothingIsDue /\ RunningIsVisible
    BY GenerationAssumption
       DEF Init, JobsHeld, Attending, RequestsFit, NothingIsDue, RunningIsVisible, Running
<1> QED BY <1>1, InitTypeOK DEF ProgressInv, HeldInv

\* A runner that works for a job holds it until it leaves it.
LEMMA WorkHeldInv ==
    ASSUME HeldInv, NEW r \in Runner, NEW t \in Task, Work(r, t)
    PROVE  (JobsHeld /\ RequestsFit)'
<1> USE GenerationAssumption DEF HeldInv, TypeOK, JobsHeld, Attending, RequestsFit,
        Labels, Goto, Free, MoveJob, SetRow, SetRowIf, Event, queue, runners, calls, ghosts
<1>1. CASE AdmitReads(r, t)
    BY <1>1 DEF AdmitReads
<1>2. CASE AdmitWrites(r, t)
    BY <1>2 DEF AdmitWrites
<1>3. CASE Delay(r, t)
    BY <1>3 DEF Delay
<1>4. CASE Enter(r, t)
    BY <1>4 DEF Enter
<1>5. CASE FailsEarly(r, t)
    BY <1>5 DEF FailsEarly, Rejection
<1>6. CASE Prepare(r, t) \/ Start(r, t)
    BY <1>6 DEF Prepare, Start
<1>7. CASE Generate(r, t)
    BY <1>7 DEF Generate
<1>8. CASE Commit(r, t)
    BY <1>8 DEF Commit
<1>9. CASE Save(r, t)
    BY <1>9 DEF Save
<1>10. CASE Throws(r, t)
    BY <1>10 DEF Throws, Outcome, Rejection
<1>11. CASE Complete(r, t)
    BY <1>11 DEF Complete
<1>12. CASE Reject(r, t)
    BY <1>12 DEF Reject
<1>13. CASE Listen(r, t) \/ FailedEvent(r, t)
    BY <1>13 DEF Listen, FailedEvent
<1> QED BY <1>1, <1>2, <1>3, <1>4, <1>5, <1>6, <1>7, <1>8, <1>9, <1>10, <1>11,
           <1>12, <1>13 DEF Work

\* Requests and calls touch jobs that nobody attends to.
LEMMA AsideHeldInv ==
    ASSUME HeldInv, NEW t \in Task, Aside(t) \/ \E c \in Call : Calling(c, t)
    PROVE  (JobsHeld /\ RequestsFit)'
<1> USE GenerationAssumption DEF HeldInv, TypeOK, JobsHeld, Attending, RequestsFit,
        SetRow, queue, runners
<1>1. CASE Create(t) \/ ApiCrash(t) \/ Reconcile(t)
    BY <1>1 DEF Create, ApiCrash, Reconcile
<1>2. CASE AddFails(t) \/ RequestStep(t)
    BY <1>2 DEF AddFails, RequestStep, AddJob, AddFailWrites
<1>3. CASE Stall(t)
    BY <1>3 DEF Stall, Stalled
<1>4. ASSUME NEW c \in Call, CallBegins(c, t) \/ CallCrash(c, t) \/ CancelLooks(c, t)
      PROVE  (JobsHeld /\ RequestsFit)'
    BY <1>4 DEF CallBegins, CancelRequest, Replay, RemoveDeadLetter, CallCrash, CancelLooks
<1>5. ASSUME NEW c \in Call, RemoveJob(c, t) \/ RetryJob(c, t)
      PROVE  (JobsHeld /\ RequestsFit)'
    BY <1>5 DEF RemoveJob, RetryJob
<1>6. ASSUME NEW c \in Call, CancelWrites(c, t) \/ Requeue(c, t) \/ RetryFails(c, t)
      PROVE  (JobsHeld /\ RequestsFit)'
    BY <1>6 DEF CancelWrites, InTheEnd, Requeue, RetryFails
<1> QED BY <1>1, <1>2, <1>3, <1>4, <1>5, <1>6 DEF Aside, Calling, CallStep

\* The others take up a job that waits, end one that nobody holds, or die.
LEMMA NextHeldInv == HeldInv /\ [Next]_vars => HeldInv'
<1> SUFFICES ASSUME HeldInv, [Next]_vars PROVE (JobsHeld /\ RequestsFit)'
    BY NextTypeOK DEF HeldInv
<1> USE GenerationAssumption DEF HeldInv, TypeOK, JobsHeld, Attending, RequestsFit,
        Goto, Free, queue, runners
<1>1. ASSUME NEW t \in Task, Aside(t) \/ \E c \in Call : Calling(c, t)
      PROVE  (JobsHeld /\ RequestsFit)'
    BY <1>1, AsideHeldInv
<1>2. ASSUME NEW r \in Runner, NEW t \in Task, StallFails(r, t)
      PROVE  (JobsHeld /\ RequestsFit)'
    BY <1>2 DEF StallFails, Stalled
<1>3. ASSUME NEW r \in Runner, NEW t \in Task, Crash(r, t) \/ Fetch(r, t) \/ Poll(r, t)
      PROVE  (JobsHeld /\ RequestsFit)'
    BY <1>3 DEF Crash, Fetch, Poll, Running
<1>4. ASSUME NEW r \in Runner, NEW t \in Task, Work(r, t) PROVE (JobsHeld /\ RequestsFit)'
    BY <1>4, WorkHeldInv
<1>5. CASE UNCHANGED vars
    BY <1>5 DEF vars
<1> QED BY <1>1, <1>2, <1>3, <1>4, <1>5 DEF Next, Aside, Calling, StallCheck

\* Two runners do not attend to the same task.
LEMMA OneAttends ==
    ASSUME HeldInv, NEW p \in Runner, NEW q \in Runner,
           Attending(p), Attending(q), at[p] = at[q]
    PROVE  p = q
BY DEF HeldInv, JobsHeld

\* A runner writes the row of its task and nothing is due for it while it does.
LEMMA WorkVisible ==
    ASSUME ProgressInv, NEW r \in Runner, NEW t \in Task, Work(r, t)
    PROVE  (NothingIsDue /\ RunningIsVisible)'
<1>1. overtaken' = overtaken /\ request' = request /\ doing' = doing /\ of' = of
    BY DEF Work, AdmitReads, AdmitWrites, Delay, Enter, FailsEarly, Prepare, Start,
           Generate, Commit, Save, Throws, Complete, Reject, Listen, FailedEvent, calls, ghosts
<1>2. \A p \in Runner \ {r} : pc'[p] = pc[p] /\ at'[p] = at[p]
    BY DEF ProgressInv, HeldInv, TypeOK, Work, AdmitReads, AdmitWrites, Delay, Enter,
           FailsEarly, Prepare, Start, Generate, Commit, Save, Throws, Complete, Reject,
           Listen, FailedEvent, Goto, Free
<1>3. at[r] = t /\ pc[r] # "idle"
    BY DEF Work, AdmitReads, AdmitWrites, Delay, Enter, FailsEarly, Prepare, Start,
           Generate, Commit, Save, Throws, Complete, Reject, Listen, FailedEvent, Running
<1>4. Attending(r)' => Attending(r)
    BY DEF Attending, ProgressInv, HeldInv, TypeOK, Work, AdmitReads, AdmitWrites, Delay,
           Enter, FailsEarly, Prepare, Start, Generate, Commit, Save, Throws, Complete,
           Reject, Listen, FailedEvent, Goto, Free, Rejection, Running
<1>5. Attending(r)' => at'[r] = t
    BY <1>3, <1>4 DEF Attending, ProgressInv, HeldInv, TypeOK, Work, AdmitReads, AdmitWrites,
       Delay, Enter, FailsEarly, Prepare, Start, Generate, Commit, Save, Throws, Complete,
       Reject, Listen, FailedEvent, Goto, Free
<1>6. pc'[r] = "failed_seen" => job[t] = "failed" /\ at'[r] = t
    BY <1>3 DEF ProgressInv, HeldInv, TypeOK, Work, AdmitReads, AdmitWrites, Delay,
       Enter, FailsEarly, Prepare, Start, Generate, Commit, Save, Throws, Complete,
       Reject, Listen, StillFailed, FailedEvent, Goto, Free, Rejection
<1>7. NothingIsDue'
    <2> SUFFICES ASSUME NEW q \in Runner, NEW u \in Task,
                        Attending(q)', at'[q] = u, u \notin overtaken
                 PROVE  ~WriteIsDue(u)'
        BY <1>1 DEF NothingIsDue
    <2>1. Attending(q) /\ at[q] = u
        BY <1>2, <1>3, <1>4, <1>5 DEF Attending
    <2>2. ~WriteIsDue(u) /\ job[u] = "active"
        BY <2>1 DEF ProgressInv, HeldInv, JobsHeld, NothingIsDue
    <2>3. \A p \in Runner : at'[p] = u /\ pc'[p] = "failed_seen"
                               => at[p] = u /\ pc[p] = "failed_seen"
        BY <1>2, <1>6, <2>2
    <2> QED BY <1>1, <2>2, <2>3 DEF WriteIsDue
<1>8. \A u \in Task \ {t} : row'[u] = row[u]
    BY DEF ProgressInv, HeldInv, TypeOK, Work, AdmitReads, AdmitWrites, Delay, Enter,
           FailsEarly, Prepare, Start, Generate, Commit, Save, Throws, Complete, Reject,
           Listen, FailedEvent, SetRow, SetRowIf
<1>9. row'[t] = row[t] \/ Attending(r) \/ WriteIsDue(t)
    BY <1>3 DEF Work, Delay, Complete, Reject, Listen, AdmitReads, AdmitWrites, Enter,
       FailsEarly, Prepare, Start, Generate, Commit, Save, Throws, FailedEvent, Attending,
       WriteIsDue
<1>10. RunningIsVisible'
    <2> SUFFICES ASSUME NEW q \in Runner, pc'[q] \in Running, at'[q] \notin overtaken
                 PROVE  row'[at'[q]] \in {"running", "cancelling"}
        BY <1>1 DEF RunningIsVisible
    <2>1. CASE q = r
        <3>1. at'[r] = t /\ Attending(r)
            BY <1>4, <1>5, <2>1 DEF Attending, Running
        <3>2. \/ row'[t] \in {"running", "cancelling"}
              \/ row'[t] = row[t] /\ pc[r] \in Running
            BY <2>1 DEF ProgressInv, HeldInv, TypeOK, Work, AdmitReads, AdmitWrites, Delay,
               Enter, FailsEarly, Prepare, Start, Generate, Commit, Save, Throws, Complete,
               Reject, Listen, FailedEvent, SetRow, SetRowIf, Running, Rejection, Goto, Free
        <3> QED BY <1>3, <2>1, <3>1, <3>2 DEF ProgressInv, RunningIsVisible
    <2>2. CASE q # r
        <3>1. pc'[q] = pc[q] /\ at'[q] = at[q] /\ Attending(q)
            BY <1>2, <2>2 DEF Attending, Running
        <3>2. row[at[q]] \in {"running", "cancelling"} /\ at[q] \in Task
            BY <3>1 DEF ProgressInv, HeldInv, JobsHeld, RunningIsVisible
        <3>3. ~WriteIsDue(at[q])
            BY <3>1, <3>2 DEF ProgressInv, NothingIsDue
        <3>4. at[q] = t => row'[t] = row[t]
            BY <1>3, <1>9, <2>2, <3>1, <3>3, OneAttends DEF ProgressInv
        <3> QED BY <1>8, <3>1, <3>2, <3>4
    <2> QED BY <2>1, <2>2
<1> QED BY <1>7, <1>10

\* Whoever looks at a task finds no active job, or writes `cancelling'; and
\* whoever writes anything else has looked before.
LEMMA AsideVisible ==
    ASSUME ProgressInv, NEW t \in Task, Aside(t) \/ \E c \in Call : Calling(c, t)
    PROVE  (NothingIsDue /\ RunningIsVisible)'
<1>1. UNCHANGED <<pc, at>>
    BY RunnersStay DEF ProgressInv, HeldInv
<1>2. UNCHANGED overtaken
    BY DEF Aside, Create, AddFails, ApiCrash, Reconcile, RequestStep, AddJob,
           AddFailWrites, Stall, Calling, CallBegins, CancelRequest, Replay,
           RemoveDeadLetter, CallStep, CancelLooks, RemoveJob, CancelWrites, Requeue,
           RetryJob, RetryFails, CallCrash, ghosts
<1> DEFINE Attended == \E q \in Runner : Attending(q) /\ at[q] = t /\ t \notin overtaken
<1>3. Attended => job[t] = "active" /\ ~WriteIsDue(t)
    BY DEF ProgressInv, HeldInv, JobsHeld, NothingIsDue
<1>4. Attended => ~WriteIsDue(t)' /\ (row'[t] = row[t] \/ row'[t] = "cancelling")
    <2> SUFFICES ASSUME Attended
                 PROVE  ~WriteIsDue(t)' /\ (row'[t] = row[t] \/ row'[t] = "cancelling")
        OBVIOUS
    <2> DEFINE Goal == ~WriteIsDue(t)' /\ (row'[t] = row[t] \/ row'[t] = "cancelling")
    <2>0. job[t] = "active" /\ ~WriteIsDue(t) /\ TypeOK /\ request[t] # "adding"
              /\ row[t] # "none"
        BY <1>3 DEF ProgressInv, HeldInv, RequestsFit
    <2> HIDE DEF Attended
    <2> USE <1>1, <2>0 DEF WriteIsDue, TypeOK, SetRow, queue, runners, calls
    <2>1. CASE Aside(t)
        BY <2>1 DEF Aside, Create, AddFails, ApiCrash, Reconcile, RequestStep, AddJob,
                    AddFailWrites, Stall
    <2>2. ASSUME NEW c \in Call, CallBegins(c, t) \/ CallCrash(c, t) PROVE Goal
        BY <2>2 DEF CallBegins, CancelRequest, Replay, RemoveDeadLetter, CallCrash, Begin,
                    Answer
    <2>3. ASSUME NEW c \in Call, CancelLooks(c, t) \/ RemoveJob(c, t) PROVE Goal
        BY <2>3 DEF CancelLooks, InProgress, RemoveJob, CallGoto, Answer
    <2>4. ASSUME NEW c \in Call, CancelWrites(c, t) PROVE Goal
        BY <2>4 DEF CancelWrites, InTheEnd, Answer
    <2>5. ASSUME NEW c \in Call, Requeue(c, t) \/ RetryJob(c, t) \/ RetryFails(c, t)
          PROVE  FALSE
        BY <2>5 DEF Requeue, RetryJob, RetryFails
    <2> QED BY <2>1, <2>2, <2>3, <2>4, <2>5 DEF Calling, CallStep
<1>5. \A u \in Task \ {t} :
         row'[u] = row[u] /\ (WriteIsDue(u)' => WriteIsDue(u))
    <2> SUFFICES ASSUME NEW u \in Task \ {t}
                 PROVE  row'[u] = row[u] /\ (WriteIsDue(u)' => WriteIsDue(u))
        OBVIOUS
    <2> DEFINE Goal == row'[u] = row[u] /\ (WriteIsDue(u)' => WriteIsDue(u))
    <2> USE <1>1 DEF WriteIsDue, ProgressInv, HeldInv, TypeOK, SetRow, queue, runners, calls
    <2>1. CASE Aside(t)
        BY <2>1 DEF Aside, Create, AddFails, ApiCrash, Reconcile, RequestStep, AddJob,
                    AddFailWrites, Stall
    <2>2. ASSUME NEW c \in Call, CallBegins(c, t) \/ CallCrash(c, t) PROVE Goal
        BY <2>2 DEF CallBegins, CancelRequest, Replay, RemoveDeadLetter, CallCrash, Begin,
                    Answer
    <2>3. ASSUME NEW c \in Call, CancelLooks(c, t) \/ RemoveJob(c, t) PROVE Goal
        BY <2>3 DEF CancelLooks, RemoveJob, CallGoto, Answer
    <2>4. ASSUME NEW c \in Call, CancelWrites(c, t) PROVE Goal
        BY <2>4 DEF CancelWrites, Answer
    <2>5. ASSUME NEW c \in Call, Requeue(c, t) \/ RetryJob(c, t) \/ RetryFails(c, t)
          PROVE  Goal
        BY <2>5 DEF Requeue, RetryJob, RetryFails, CallGoto, Answer
    <2> QED BY <2>1, <2>2, <2>3, <2>4, <2>5 DEF Calling, CallStep
<1>6. \A q \in Runner : Attending(q) => at[q] \in Task
    BY DEF ProgressInv, HeldInv, JobsHeld
<1> HIDE DEF Attended
<1>7. NothingIsDue'
    <2> SUFFICES ASSUME NEW q \in Runner, NEW u \in Task,
                        Attending(q), at[q] = u, u \notin overtaken
                 PROVE  ~WriteIsDue(u)'
        BY <1>1, <1>2 DEF NothingIsDue, Attending
    <2>1. u = t => Attended
        BY DEF Attended
    <2>2. ~WriteIsDue(u)
        BY DEF ProgressInv, NothingIsDue
    <2> QED BY <1>4, <1>5, <2>1, <2>2
<1>8. RunningIsVisible'
    <2> SUFFICES ASSUME NEW q \in Runner, pc[q] \in Running, at[q] \notin overtaken
                 PROVE  row'[at[q]] \in {"running", "cancelling"}
        BY <1>1, <1>2 DEF RunningIsVisible
    <2>1. Attending(q) /\ row[at[q]] \in {"running", "cancelling"}
        BY DEF Attending, Running, ProgressInv, RunningIsVisible
    <2>2. at[q] = t => Attended
        BY <2>1 DEF Attended
    <2> QED BY <1>4, <1>5, <1>6, <2>1, <2>2
<1> QED BY <1>7, <1>8

\* A fetch marks a task that somebody has yet to write; the rest takes runners away.
LEMMA NextProgressInv == ProgressInv /\ [Next]_vars => ProgressInv'
<1> SUFFICES ASSUME ProgressInv, [Next]_vars PROVE (NothingIsDue /\ RunningIsVisible)'
    BY NextHeldInv DEF ProgressInv
<1> USE DEF ProgressInv, HeldInv, TypeOK, NothingIsDue, RunningIsVisible, Running,
        Attending, Goto, Free, queue, runners, calls, ghosts
<1>1. ASSUME NEW t \in Task, Aside(t) \/ \E c \in Call : Calling(c, t)
      PROVE  (NothingIsDue /\ RunningIsVisible)'
    BY <1>1, AsideVisible
<1>2. ASSUME NEW r \in Runner, NEW t \in Task, StallFails(r, t) \/ Crash(r, t) \/ Poll(r, t)
      PROVE  (NothingIsDue /\ RunningIsVisible)'
    BY <1>2 DEF StallFails, Crash, Poll, WriteIsDue
<1>3. ASSUME NEW r \in Runner, NEW t \in Task, Fetch(r, t)
      PROVE  (NothingIsDue /\ RunningIsVisible)'
    BY <1>3 DEF Fetch, WriteIsDue
<1>4. ASSUME NEW r \in Runner, NEW t \in Task, Work(r, t)
      PROVE  (NothingIsDue /\ RunningIsVisible)'
    BY <1>4, WorkVisible
<1>5. CASE UNCHANGED vars
    BY <1>5 DEF vars, WriteIsDue
<1> QED BY <1>1, <1>2, <1>3, <1>4, <1>5 DEF Next, Aside, Calling, StallCheck

\* In every reachable state attending runners hold their jobs, nobody has a write
\* in hand that the fetch did not notice, and running work shows in its row.
THEOREM ProgressInvAlways == Spec => []ProgressInv
BY InitProgressInv, NextProgressInv, PTL DEF Spec

\* While a generation writes into its workspace its row says so, whatever
\* users, administrators, workers and crashes do to the row meanwhile, if no write
\* was decided on before its job was fetched.
THEOREM ExecutionIsVisibleAlways == Spec => []ExecutionIsVisible
<1>1. ProgressInv => ExecutionIsVisible
    BY DEF ProgressInv, RunningIsVisible, Running, ExecutionIsVisible, Executing
<1> QED BY <1>1, ProgressInvAlways, PTL

\* A task that is shown as cancelled does not get into the history any more:
\* only Commit adds to it, and it runs for a task in progress.
THEOREM CancelledStaysOutAlways == Spec => CancelledStaysOut
<1> DEFINE StaysOut == \A t \in Task \ overtaken' :
               row[t] = "cancelled" /\ t \notin commits => t \notin commits'
<1>1. ProgressInv /\ [Next]_vars => [StaysOut]_vars
    <2> SUFFICES ASSUME ProgressInv, Next PROVE StaysOut
        OBVIOUS
    <2>1. ASSUME NEW r \in Runner, NEW t \in Task, Commit(r, t) PROVE StaysOut
        BY <2>1 DEF Commit, ProgressInv, RunningIsVisible, Running, ghosts
    <2>2. ASSUME NEW t \in Task, Aside(t) \/ \E c \in Call : Calling(c, t)
          PROVE  commits' = commits
        BY <2>2, RunnersStay DEF ProgressInv, HeldInv
    <2>3. ASSUME NEW r \in Runner, NEW t \in Task, StallFails(r, t) \/ Crash(r, t)
                 \/ Fetch(r, t) \/ Poll(r, t) \/ Work(r, t), ~Commit(r, t)
          PROVE  commits' = commits
        BY <2>3 DEF StallFails, Crash, Fetch, Poll, Work, AdmitReads, AdmitWrites, Delay,
               Enter, FailsEarly, Prepare, Start, Generate, Save, Throws, Complete,
               Reject, Listen, FailedEvent
    <2> QED BY <2>1, <2>2, <2>3 DEF Next, Aside, Calling, StallCheck
<1> QED BY <1>1, ProgressInvAlways, PTL DEF Spec, CancelledStaysOut

-------------------------------------------------------------------------------
(* Quotas *)

\* The runners that have been admitted for a user or a team, with a task that
\* nobody had in hand when they fetched it.
Occupied(c) ==
    {r \in Runner : pc[r] \in Running /\ at[r] \in InScope(c) \ overtaken}

QuotaInv == \A c \in Scope : Limit[c] > 0 => Cardinality(Occupied(c)) <= Limit[c]

Granted(r, t) == AdmitWrites(r, t) /\ HasRoom(t) /\ pc' = [pc EXCEPT ![r] = "enter"]

\* Admission is the only way in.
LEMMA OnlyAdmitted ==
    ASSUME TypeOK, [Next]_vars, \A r \in Runner, t \in Task : ~Granted(r, t)
    PROVE  \A p \in Runner : pc'[p] \in Running => pc[p] \in Running /\ at'[p] = at[p]
<1> DEFINE NobodyEnters ==
        \A p \in Runner : pc'[p] \in Running => pc[p] \in Running /\ at'[p] = at[p]
<1> USE DEF TypeOK, Running, Goto, Free, Rejection, queue, runners
<1>1. ASSUME NEW t \in Task, Aside(t) \/ \E c \in Call : Calling(c, t)
      PROVE  NobodyEnters
    BY <1>1, RunnersStay
<1>2. ASSUME NEW r \in Runner, NEW t \in Task, AdmitWrites(r, t) PROVE NobodyEnters
    BY <1>2 DEF AdmitWrites, Granted
<1>3. ASSUME NEW r \in Runner, NEW t \in Task, Work(r, t), ~AdmitWrites(r, t)
      PROVE  NobodyEnters
    BY <1>3 DEF Work, AdmitReads, Delay, Enter, FailsEarly, Prepare, Start, Generate,
                Commit, Save, Throws, Complete, Reject, Listen, FailedEvent
<1>4. ASSUME NEW r \in Runner, NEW t \in Task,
             StallFails(r, t) \/ Crash(r, t) \/ Fetch(r, t) \/ Poll(r, t)
      PROVE  NobodyEnters
    BY <1>4 DEF StallFails, Crash, Fetch, Poll
<1>5. CASE UNCHANGED vars
    BY <1>5 DEF vars
<1> QED BY <1>1, <1>2, <1>3, <1>4, <1>5 DEF Next, Aside, Calling, StallCheck

\* Nobody is marked who has been admitted, and nobody loses the mark.
LEMMA MarkedBefore ==
    ASSUME ProgressInv, [Next]_vars
    PROVE  /\ overtaken \subseteq overtaken'
           /\ \A p \in Runner : pc[p] \in Running /\ at[p] \in overtaken'
                                => at[p] \in overtaken
<1>1. overtaken' = overtaken
      \/ \E t \in Task : job[t] = "waiting" /\ overtaken' = overtaken \cup {t}
    BY DEF Next, vars, Create, AddFails, ApiCrash, Reconcile, RequestStep, AddJob,
           AddFailWrites, StallCheck, Stall, StallFails, CallBegins, CancelRequest, Replay,
           RemoveDeadLetter, CallStep, CancelLooks, RemoveJob, CancelWrites, Requeue,
           RetryJob, RetryFails, CallCrash, Crash, Fetch, Poll, Work, AdmitReads,
           AdmitWrites, Delay, Enter, FailsEarly, Prepare, Start, Generate, Commit, Save,
           Throws, Complete, Reject, Listen, FailedEvent, ghosts
<1> QED BY <1>1 DEF ProgressInv, HeldInv, JobsHeld, Attending, Running

\* Who has been admitted occupies a counted task of its own.
LEMMA CountCovers ==
    ASSUME ProgressInv, NEW r \in Runner, NEW t \in Task, pc[r] = "admit", at[r] = t,
           NEW c \in Scope
    PROVE  Cardinality(Occupied(c)) <= Cardinality((Counted \cap InScope(c)) \ {t})
<1> DEFINE Rows == (Counted \cap InScope(c)) \ {t}
           task == [p \in Occupied(c) |-> at[p]]
<1>1. IsFiniteSet(Rows)
    BY GenerationAssumption, FS_Subset DEF Counted
<1>2. ASSUME NEW p \in Occupied(c) PROVE at[p] \in Rows
    BY <1>2 DEF Occupied, ProgressInv, HeldInv, JobsHeld, Attending, RunningIsVisible,
                Running, Counted
<1>3. ASSUME NEW p \in Occupied(c), NEW q \in Occupied(c), at[p] = at[q] PROVE p = q
    BY <1>3 DEF Occupied, ProgressInv, HeldInv, JobsHeld, Attending, Running
<1>4. task \in Injection(Occupied(c), Rows)
    BY <1>2, <1>3 DEF Injection, IsInjective
<1> QED BY <1>1, <1>4, FS_Injection

\* What an admission counts leaves room beside all that were admitted before.
LEMMA RoomLeft ==
    ASSUME ProgressInv, NEW r \in Runner, NEW t \in Task, Granted(r, t),
           NEW c \in Scope, Limit[c] > 0, t \in InScope(c)
    PROVE  Cardinality(Occupied(c)) < Limit[c]
<1> DEFINE Rows == (Counted \cap InScope(c)) \ {t}
<1>1. ~Full(c, t) /\ pc[r] = "admit" /\ at[r] = t
    BY DEF Granted, AdmitWrites, HasRoom, InScope
<1>2. Cardinality(Occupied(c)) <= Cardinality(Rows)
    BY <1>1, CountCovers
<1>3. IsFiniteSet(Rows) /\ Cardinality(Rows) \in Nat /\ IsFiniteSet(Occupied(c))
    BY GenerationAssumption, FS_Subset, FS_CardinalityType DEF Counted, Occupied
<1>4. Cardinality(Occupied(c)) \in Nat /\ Limit[c] \in Nat
    BY <1>3, FS_CardinalityType, GenerationAssumption
<1>5. Cardinality(Rows) < Limit[c]
    BY <1>1, <1>3, <1>4 DEF Full
<1> QED BY <1>2, <1>3, <1>4, <1>5

\* An admission finds room beside all that were admitted before; no other step
\* adds to those occupying a scope.
LEMMA NextQuotaInv == ProgressInv /\ QuotaInv /\ [Next]_vars => QuotaInv'
<1> SUFFICES ASSUME ProgressInv, QuotaInv, [Next]_vars, NEW c \in Scope, Limit[c] > 0
             PROVE  Cardinality(Occupied(c)') <= Limit[c]
    BY DEF QuotaInv
<1>1. /\ IsFiniteSet(Occupied(c)) /\ Cardinality(Occupied(c)) \in Nat
      /\ Limit[c] \in Nat
    BY GenerationAssumption, FS_Subset, FS_CardinalityType DEF Occupied
<1>2. CASE Occupied(c)' \subseteq Occupied(c)
    <2>1. Cardinality(Occupied(c)') <= Cardinality(Occupied(c)) /\ IsFiniteSet(Occupied(c)')
        BY <1>1, <1>2, FS_Subset
    <2>2. Cardinality(Occupied(c)') \in Nat
        BY <2>1, FS_CardinalityType
    <2> QED BY <1>1, <2>1, <2>2 DEF QuotaInv
<1>3. CASE \A r \in Runner, t \in Task : ~Granted(r, t)
    <2>1. Occupied(c)' \subseteq Occupied(c)
        BY <1>3, OnlyAdmitted, MarkedBefore DEF ProgressInv, HeldInv, Occupied, InScope
    <2> QED BY <1>2, <2>1
<1>4. ASSUME NEW r \in Runner, NEW t \in Task, Granted(r, t)
      PROVE  Cardinality(Occupied(c)') <= Limit[c]
    <2>1. /\ pc[r] = "admit" /\ at[r] = t /\ at' = at /\ overtaken' = overtaken
          /\ pc' = [pc EXCEPT ![r] = "enter"]
        BY <1>4 DEF Granted, AdmitWrites, Goto, ghosts, ProgressInv, HeldInv, TypeOK
    <2>2. Occupied(c)' \subseteq Occupied(c) \cup {r}
        BY <2>1 DEF Occupied, InScope, ProgressInv, HeldInv, TypeOK
    <2>3. CASE t \notin InScope(c)
        <3>1. Occupied(c)' \subseteq Occupied(c)
            BY <2>1, <2>2, <2>3 DEF Occupied, InScope
        <3> QED BY <1>2, <3>1
    <2>4. CASE t \in InScope(c)
        <3>1. Cardinality(Occupied(c)) < Limit[c]
            BY <1>4, <2>4, RoomLeft
        <3>2. /\ IsFiniteSet(Occupied(c) \cup {r})
              /\ Cardinality(Occupied(c) \cup {r}) <= Cardinality(Occupied(c)) + 1
            <4>1. IsFiniteSet(Occupied(c) \cup {r})
                BY <1>1, FS_AddElement
            <4>2. Cardinality(Occupied(c) \cup {r})
                    = IF r \in Occupied(c) THEN Cardinality(Occupied(c))
                                          ELSE Cardinality(Occupied(c)) + 1
                BY <1>1, FS_AddElement
            <4>3. PICK n \in Nat : n = Cardinality(Occupied(c))
                BY <1>1
            <4> QED BY <4>1, <4>2, <4>3
        <3>3. /\ Cardinality(Occupied(c)') <= Cardinality(Occupied(c) \cup {r})
              /\ IsFiniteSet(Occupied(c)')
            BY <2>2, <3>2, FS_Subset
        <3>4. Cardinality(Occupied(c)') \in Nat /\ Cardinality(Occupied(c) \cup {r}) \in Nat
            BY <3>2, <3>3, FS_CardinalityType
        <3> QED BY <1>1, <3>1, <3>2, <3>3, <3>4
    <2> QED BY <2>3, <2>4
<1> QED BY <1>3, <1>4

\* The runners that occupy a user or a team, from admission to outcome, are never
\* more than its limit.
THEOREM QuotaInvAlways == Spec => [](ProgressInv /\ QuotaInv)
<1>1. Init => QuotaInv
    <2> SUFFICES ASSUME Init, NEW c \in Scope PROVE Occupied(c) = {}
        BY FS_EmptySet, GenerationAssumption DEF QuotaInv
    <2> QED BY DEF Init, Occupied, Running
<1> QED BY <1>1, InitProgressInv, NextProgressInv, NextQuotaInv, PTL DEF Spec

\* The generations under way for a user or a team never exceed its limit: the
\* count of an admission covers all that were admitted before.
THEOREM QuotaKeptAlways == Spec => []QuotaKept
<1>1. ASSUME QuotaInv PROVE QuotaKept
    <2> SUFFICES ASSUME NEW c \in Scope, Limit[c] > 0
                 PROVE  Cardinality({r \in Executing : at[r] \in InScope(c) \ overtaken})
                              <= Limit[c]
        BY DEF QuotaKept
    <2> DEFINE Busy == {r \in Executing : at[r] \in InScope(c) \ overtaken}
    <2>1. Busy \subseteq Occupied(c)
        BY DEF Executing, Occupied, Running
    <2>2. IsFiniteSet(Occupied(c))
        BY GenerationAssumption, FS_Subset DEF Occupied
    <2>3. Cardinality(Busy) <= Cardinality(Occupied(c)) /\ IsFiniteSet(Busy)
        BY <2>1, <2>2, FS_Subset
    <2>4. /\ Cardinality(Busy) \in Nat /\ Cardinality(Occupied(c)) \in Nat
          /\ Limit[c] \in Nat
        BY <2>2, <2>3, FS_CardinalityType, GenerationAssumption
    <2> QED BY <1>1, <2>3, <2>4 DEF QuotaInv
<1> QED BY <1>1, QuotaInvAlways, PTL

-------------------------------------------------------------------------------
(* Nobody is forgotten *)

(***************************************************************************)
(* An open row has a job that is not over, or one that is failed and whose *)
(* listener is alive, or is about to be written by a call, or is queued    *)
(* without a job, which the reconciliation looks for.  A runner that is    *)
(* about to complete its job has written the outcome: the row is open      *)
(* again only if a replay, that had looked at an earlier failure, has it   *)
(* in hand.                                                                *)
(***************************************************************************)
InHand(t) == \E c \in Call : of[c] = t /\ doing[c] \in {"finish", "retry", "unretry"}
Heard(t) == \E r \in Runner : at[r] = t /\ pc[r] \in Listening

Kept(t) == \/ t \in forsaken \/ row[t] \notin Open \/ InHand(t)
           \/ job[t] \in {"waiting", "active"}
           \/ job[t] = "failed" /\ Heard(t)
           \/ job[t] = "none" /\ row[t] = "queued"

Done(t) == t \in forsaken \/ row[t] \notin Open \/ InHand(t)

CareInv ==
    /\ \A t \in Task : Kept(t)
    /\ \A r \in Runner, t \in Task : pc[r] = "complete" /\ at[r] = t => Done(t)

\* What a runner does for its own task.
LEMMA WorkKept ==
    ASSUME HeldInv, CareInv, NEW r \in Runner, NEW t \in Task, Work(r, t)
    PROVE  Kept(t)' /\ \A p \in Runner : pc'[p] = "complete" /\ at'[p] = t => Done(t)'
<1>1. of' = of /\ doing' = doing /\ forsaken' = forsaken
    BY DEF Work, AdmitReads, AdmitWrites, Delay, Enter, FailsEarly, Prepare, Start,
           Generate, Commit, Save, Throws, Complete, Reject, Listen, FailedEvent, calls, ghosts
<1>2. InHand(t)' = InHand(t)
    BY <1>1 DEF InHand
<1> DEFINE Goal == Kept(t)' /\ (pc'[r] = "complete" => Done(t)')
<1> USE <1>1, <1>2 DEF HeldInv, TypeOK, JobsHeld, Attending, CareInv, Kept, Done, Open,
        Goto, Free, MoveJob, SetRow, SetRowIf, queue, runners
<1>3. ASSUME \/ AdmitReads(r, t) \/ AdmitWrites(r, t) \/ Enter(r, t) \/ Prepare(r, t)
             \/ Start(r, t) \/ Commit(r, t)
      PROVE  Goal
    BY <1>3 DEF AdmitReads, AdmitWrites, Enter, Prepare, Start, Commit
<1>4. ASSUME FailsEarly(r, t) \/ Throws(r, t)
      PROVE  Goal
    BY <1>4 DEF FailsEarly, Throws, Rejection
<1>5. ASSUME Generate(r, t) \/ Save(r, t)
      PROVE  Goal
    BY <1>5 DEF Generate, Save
<1>6. ASSUME Delay(r, t)
      PROVE  Goal
    BY <1>6 DEF Delay
<1>7. ASSUME Complete(r, t)
      PROVE  Goal
    BY <1>7 DEF Complete
<1>8. ASSUME Reject(r, t)
      PROVE  Goal
    <2>1. job'[t] = "waiting" \/ job'[t] = "failed"
        BY <1>8 DEF Reject
    <2>2. at'[r] = t /\ pc'[r] = "failed_event"
        BY <1>8 DEF Reject
    <2>3. Heard(t)'
        BY <2>2 DEF Heard, Listening
    <2>4. Kept(t)'
        BY <2>1, <2>3
    <2> QED BY <2>2, <2>4
<1>9. ASSUME Listen(r, t)
      PROVE  Goal
    <2>1. CASE job[t] = "failed"
        <3>1. at'[r] = t /\ pc'[r] = "failed_seen"
            BY <1>9, <2>1 DEF Listen, StillFailed
        <3> QED BY <1>9, <2>1, <3>1 DEF Listen, Heard, Listening
    <2>2. CASE job[t] # "failed"
        BY <1>9, <2>2 DEF Listen, StillFailed
    <2> QED BY <2>1, <2>2
<1>10. ASSUME FailedEvent(r, t)
      PROVE  Goal
    BY <1>10 DEF FailedEvent, FailedEventCovers
<1>11. Goal
    BY <1>3, <1>4, <1>5, <1>6, <1>7, <1>8, <1>9, <1>10 DEF Work
<1>12. ASSUME NEW p \in Runner, pc'[p] = "complete", at'[p] = t, p # r PROVE Done(t)'
    <2>1. pc'[p] = pc[p] /\ at'[p] = at[p]
        BY <1>12 DEF Work, AdmitReads, AdmitWrites, Delay, Enter, FailsEarly, Prepare, Start,
               Generate, Commit, Save, Throws, Complete, Reject, Listen, FailedEvent
    <2>2. at[r] = t
        BY DEF Work, AdmitReads, AdmitWrites, Delay, Enter, FailsEarly, Prepare, Start,
               Generate, Commit, Save, Throws, Complete, Reject, Listen, FailedEvent
    <2>3. ~Attending(r) /\ Done(t)
        BY <1>12, <2>1, <2>2, OneAttends
    <2>4. Listen(r, t) \/ FailedEvent(r, t)
        BY <2>3 DEF Work, AdmitReads, AdmitWrites, Delay, Enter, FailsEarly, Prepare, Start,
               Generate, Commit, Save, Throws, Complete, Reject
    <2> QED BY <2>3, <2>4 DEF Listen, FailedEvent, FailedEventCovers
<1> QED BY <1>11, <1>12

\* What requests, calls and checks do to the task they are for.
LEMMA AsideKept ==
    ASSUME HeldInv, CareInv, NEW t \in Task, Aside(t) \/ \E c \in Call : Calling(c, t)
    PROVE  Kept(t)' /\ (\A r \in Runner : pc[r] = "complete" /\ at[r] = t => Done(t)')
<1>1. UNCHANGED <<pc, at>>
    BY RunnersStay DEF HeldInv
<1>2. Heard(t)' = Heard(t)
    BY <1>1 DEF Heard
<1> DEFINE Ends == \E r \in Runner : pc[r] = "complete" /\ at[r] = t
<1>3. Kept(t) /\ (Ends => Done(t) /\ job[t] = "active")
    BY DEF HeldInv, JobsHeld, Attending, CareInv
<1> HIDE DEF Ends
<1> DEFINE Goal == Kept(t)' /\ (Ends => Done(t)')
<1> USE <1>2, <1>3 DEF HeldInv, TypeOK, RequestsFit, Kept, Done, Open, SetRow, queue
<1>4. Aside(t) => UNCHANGED <<doing, of, forsaken>>
    BY DEF Aside, Create, AddFails, ApiCrash, Reconcile, RequestStep, AddJob,
           AddFailWrites, Stall, calls, ghosts
<1>5. Aside(t) => InHand(t)' = InHand(t)
    BY <1>4 DEF InHand
<1>6. ASSUME Create(t) \/ ApiCrash(t) \/ Reconcile(t)
      PROVE  Goal
    BY <1>4, <1>5, <1>6 DEF Aside, Create, ApiCrash, Reconcile
<1>7. ASSUME AddFails(t) \/ RequestStep(t) \/ Stall(t)
      PROVE  Goal
    BY <1>4, <1>5, <1>7 DEF Aside, AddFails, RequestStep, AddJob, AddFailWrites, Stall
<1>8. ASSUME NEW c \in Call, CallBegins(c, t) PROVE Goal
    <2>1. UNCHANGED <<row, job, forsaken>> /\ doing[c] = "idle"
        BY <1>8 DEF CallBegins, CancelRequest, Replay, RemoveDeadLetter, Begin, ghosts
    <2>2. /\ \A d \in Call \ {c} : doing'[d] = doing[d] /\ of'[d] = of[d]
        BY <1>8 DEF CallBegins, CancelRequest, Replay, RemoveDeadLetter, Begin
    <2>3. InHand(t) => InHand(t)'
        BY <2>1, <2>2 DEF InHand
    <2> QED BY <2>1, <2>3
<1>9. ASSUME NEW c \in Call, CancelLooks(c, t) PROVE Goal
    <2>1. InHand(t) => InHand(t)'
        BY <1>9 DEF CancelLooks, CallGoto, InHand
    <2> QED BY <1>9, <2>1 DEF CancelLooks, ghosts
<1>10. ASSUME NEW c \in Call, RemoveJob(c, t) PROVE Goal
    <2>1. InHand(t) => InHand(t)'
        BY <1>10 DEF RemoveJob, CallGoto, Answer, InHand
    <2>2. doing[c] = "remove" /\ job[t] # "active" => InHand(t)'
        BY <1>10 DEF RemoveJob, CallGoto, InHand
    <2> QED BY <1>10, <2>1, <2>2 DEF RemoveJob
<1>11. ASSUME NEW c \in Call, CancelWrites(c, t) PROVE Goal
    <2>1. CASE doing[c] = "mark"
        <3>1. InHand(t) => InHand(t)'
            BY <1>11, <2>1 DEF CancelWrites, Answer, InHand
        <3> QED BY <1>11, <2>1, <3>1 DEF CancelWrites, InTheEnd, ghosts
    <2>2. CASE doing[c] = "finish"
        BY <1>11, <2>2 DEF CancelWrites
    <2> QED BY <1>11, <2>1, <2>2 DEF CancelWrites
<1>12. ASSUME NEW c \in Call, Requeue(c, t) PROVE Goal
    <2>1. CASE SetRow(t, "queued") /\ CallGoto(c, "retry")
        <3>1. InHand(t)'
            BY <1>12, <2>1 DEF Requeue, CallGoto, InHand
        <3> QED BY <3>1
    <2>2. CASE UNCHANGED row /\ Answer(c)
        <3>1. InHand(t) => InHand(t)'
            BY <1>12, <2>2 DEF Requeue, Answer, InHand
        <3> QED BY <1>12, <2>2, <3>1 DEF Requeue, ghosts
    <2> QED BY <1>12, <2>1, <2>2 DEF Requeue
<1>13. ASSUME NEW c \in Call, RetryJob(c, t) PROVE Goal
    <2>1. CASE job[t] = "failed"
        BY <1>13, <2>1 DEF RetryJob
    <2>2. CASE job[t] # "failed"
        <3>1. InHand(t)'
            BY <1>13, <2>2 DEF RetryJob, CallGoto, InHand
        <3> QED BY <3>1
    <2> QED BY <2>1, <2>2
<1>14. ASSUME NEW c \in Call, RetryFails(c, t) PROVE Goal
    BY <1>14 DEF RetryFails
<1>15. ASSUME NEW c \in Call, CallCrash(c, t) PROVE Goal
    <2>1. CASE doing[c] \in {"finish", "retry", "unretry"} /\ row[t] \in Open
        BY <1>15, <2>1 DEF CallCrash
    <2>2. CASE doing[c] \notin {"finish", "retry", "unretry"}
        <3>1. InHand(t) => InHand(t)'
            BY <1>15, <2>2 DEF CallCrash, Answer, InHand
        <3> QED BY <1>15, <2>2, <3>1 DEF CallCrash
    <2>3. CASE row[t] \notin Open
        BY <1>15, <2>3 DEF CallCrash
    <2> QED BY <2>1, <2>2, <2>3
<1> QED BY <1>4, <1>5, <1>6, <1>7, <1>8, <1>9, <1>10, <1>11, <1>12, <1>13, <1>14,
           <1>15 DEF Aside, Calling, CallStep, Ends

\* A step for one task leaves what keeps the others, but for the runner that
\* takes it up.
LEMMA OthersKept ==
    ASSUME HeldInv, CareInv, NEW t \in Task, NEW u \in Task, u # t,
           \/ Aside(t) \/ \E c \in Call : Calling(c, t)
           \/ \E r \in Runner : \/ Crash(r, t) \/ Fetch(r, t) \/ Poll(r, t)
                                \/ Work(r, t) \/ StallFails(r, t)
    PROVE  /\ Kept(u)'
           /\ \A r \in Runner : pc'[r] = "complete" /\ at'[r] = u => Done(u)'
<1> USE DEF HeldInv, TypeOK
<1>1. row'[u] = row[u] /\ job'[u] = job[u] /\ (u \in forsaken => u \in forsaken')
    <2> DEFINE Alike == row'[u] = row[u] /\ job'[u] = job[u] /\ (u \in forsaken => u \in forsaken')
    <2> USE DEF SetRow, SetRowIf, MoveJob, queue, ghosts
    <2>1. CASE Aside(t)
        BY <2>1 DEF Aside, Create, AddFails, ApiCrash, Reconcile, RequestStep, AddJob,
                    AddFailWrites, Stall
    <2>2. ASSUME NEW c \in Call, Calling(c, t) PROVE Alike
        BY <2>2 DEF Calling, CallBegins, CancelRequest, Replay, RemoveDeadLetter, CallStep,
               CancelLooks, RemoveJob, CancelWrites, Requeue, RetryJob, RetryFails, CallCrash
    <2>3. ASSUME NEW r \in Runner,
                 Crash(r, t) \/ Fetch(r, t) \/ Poll(r, t) \/ StallFails(r, t)
          PROVE  Alike
        BY <2>3 DEF Crash, Fetch, Poll, StallFails
    <2>4. ASSUME NEW r \in Runner, Work(r, t) PROVE Alike
        BY <2>4 DEF Work, AdmitReads, AdmitWrites, Delay, Enter, FailsEarly, Prepare, Start,
               Generate, Commit, Save, Throws, Complete, Reject, Listen, FailedEvent
    <2> QED BY <2>1, <2>2, <2>3, <2>4
<1>2. InHand(u) => InHand(u)'
    <2> SUFFICES ASSUME NEW d \in Call, of[d] = u, doing[d] # "idle"
                 PROVE  of'[d] = u /\ doing'[d] = doing[d]
        BY DEF InHand
    <2> DEFINE Stays == of'[d] = u /\ doing'[d] = doing[d]
    <2> USE DEF calls
    <2>1. CASE Aside(t)
        BY <2>1 DEF Aside, Create, AddFails, ApiCrash, Reconcile, RequestStep, AddJob,
                    AddFailWrites, Stall
    <2>2. ASSUME NEW c \in Call, CallStep(c, t) \/ CallCrash(c, t) PROVE Stays
        BY <2>2 DEF CallStep, CancelLooks, RemoveJob, CancelWrites, Requeue, RetryJob,
                    RetryFails, CallCrash, CallGoto, Answer
    <2>3. ASSUME NEW c \in Call, CallBegins(c, t) PROVE Stays
        BY <2>3 DEF CallBegins, CancelRequest, Replay, RemoveDeadLetter, Begin
    <2>4. ASSUME NEW r \in Runner,
                 Crash(r, t) \/ Fetch(r, t) \/ Poll(r, t) \/ StallFails(r, t) \/ Work(r, t)
          PROVE  Stays
        BY <2>4 DEF Crash, Fetch, Poll, StallFails, Work, AdmitReads, AdmitWrites, Delay,
               Enter, FailsEarly, Prepare, Start, Generate, Commit, Save, Throws, Complete,
               Reject, Listen, FailedEvent
    <2> QED BY <2>1, <2>2, <2>3, <2>4 DEF Calling
<1>3. \A p \in Runner :
         /\ pc[p] # "idle" /\ at[p] = u => pc'[p] = pc[p] /\ at'[p] = u
         /\ pc'[p] # "idle" /\ at'[p] = u => pc[p] = pc'[p] /\ at[p] = u
    <2> SUFFICES ASSUME NEW p \in Runner
                 PROVE  /\ pc[p] # "idle" /\ at[p] = u => pc'[p] = pc[p] /\ at'[p] = u
                        /\ pc'[p] # "idle" /\ at'[p] = u => pc[p] = pc'[p] /\ at[p] = u
        OBVIOUS
    <2> DEFINE Follows ==
            /\ pc[p] # "idle" /\ at[p] = u => pc'[p] = pc[p] /\ at'[p] = u
            /\ pc'[p] # "idle" /\ at'[p] = u => pc[p] = pc'[p] /\ at[p] = u
    <2> USE DEF Goto, Free
    <2>1. CASE Aside(t) \/ \E c \in Call : Calling(c, t)
        BY <2>1, RunnersStay
    <2>2. ASSUME NEW r \in Runner,
                 Crash(r, t) \/ Fetch(r, t) \/ Poll(r, t) \/ StallFails(r, t)
          PROVE  Follows
        BY <2>2 DEF Crash, Fetch, Poll, StallFails
    <2>3. ASSUME NEW r \in Runner, Work(r, t) PROVE Follows
        BY <2>3 DEF Work, AdmitReads, AdmitWrites, Delay, Enter, FailsEarly, Prepare, Start,
               Generate, Commit, Save, Throws, Complete, Reject, Listen, FailedEvent
    <2> QED BY <2>1, <2>2, <2>3
<1>4. Heard(u) => Heard(u)'
    BY <1>3 DEF Heard, Listening
<1>5. Kept(u)'
    BY <1>1, <1>2, <1>4 DEF CareInv, Kept, Open
<1>6. ASSUME NEW p \in Runner, pc'[p] = "complete", at'[p] = u PROVE Done(u)'
    BY <1>1, <1>2, <1>3, <1>6 DEF CareInv, Done, Open
<1> QED BY <1>5, <1>6

\* What a worker that takes up a task or dies, and the check for stalled jobs, do
\* to that task.
LEMMA OddKept ==
    ASSUME HeldInv, CareInv, NEW r \in Runner, NEW t \in Task,
           Crash(r, t) \/ Fetch(r, t) \/ Poll(r, t) \/ StallFails(r, t)
    PROVE  Kept(t)' /\ \A p \in Runner : pc'[p] = "complete" /\ at'[p] = t => Done(t)'
<1> USE DEF HeldInv, TypeOK, CareInv, Kept, Open, Goto, Free, calls, ghosts, queue
<1>1. UNCHANGED <<row, doing, of>> /\ forsaken \subseteq forsaken'
    BY DEF Crash, Fetch, Poll, StallFails
<1>2. InHand(t)' = InHand(t)
    BY <1>1 DEF InHand
<1>3. ASSUME NEW p \in Runner, pc'[p] = "complete", at'[p] = t PROVE Done(t)'
    <2>1. Done(t)
        BY <1>3 DEF Crash, Fetch, Poll, StallFails, Running
    <2> QED BY <1>1, <1>2, <2>1 DEF Done
<1> USE <1>1, <1>2
<1>4. ASSUME Fetch(r, t)
      PROVE  Kept(t)'
    BY <1>4 DEF Fetch
<1>5. ASSUME Poll(r, t)
      PROVE  Kept(t)'
    BY <1>5 DEF Poll, Heard
<1>6. ASSUME StallFails(r, t)
      PROVE  Kept(t)'
    <2>1. job'[t] = "failed" /\ at'[r] = t /\ pc'[r] = "failed_event"
        BY <1>6 DEF StallFails
    <2> QED BY <2>1 DEF Heard, Listening
<1>7. ASSUME Crash(r, t)
      PROVE  Kept(t)'
    <2>1. CASE pc[r] \in Listening /\ job[t] = "failed" /\ row[t] \in Open
        BY <1>7, <2>1 DEF Crash
    <2>2. CASE pc[r] \notin Listening
        <3>1. Heard(t) => Heard(t)'
            BY <1>7, <2>2 DEF Crash, Heard, Listening
        <3> QED BY <1>7, <2>2, <3>1 DEF Crash
    <2>3. CASE job[t] # "failed" \/ row[t] \notin Open
        BY <1>7, <2>3 DEF Crash
    <2> QED BY <2>1, <2>2, <2>3
<1> QED BY <1>3, <1>4, <1>5, <1>6, <1>7

\* Every step keeps the task that it is for, and the others.
LEMMA NextCareInv == HeldInv /\ CareInv /\ [Next]_vars => CareInv'
<1> SUFFICES ASSUME HeldInv, CareInv, [Next]_vars PROVE CareInv'
    OBVIOUS
<1>1. CASE UNCHANGED vars
    BY <1>1 DEF vars, queue, runners, calls, ghosts, CareInv, Kept, Done, InHand, Heard
<1>2. ASSUME NEW t \in Task,
             Kept(t)' /\ \A r \in Runner : pc'[r] = "complete" /\ at'[r] = t => Done(t)',
             \/ Aside(t) \/ \E c \in Call : Calling(c, t)
             \/ \E r \in Runner : \/ Crash(r, t) \/ Fetch(r, t) \/ Poll(r, t)
                                  \/ Work(r, t) \/ StallFails(r, t)
      PROVE  CareInv'
    <2>1. \A u \in Task : /\ Kept(u)'
                         /\ \A r \in Runner : pc'[r] = "complete" /\ at'[r] = u => Done(u)'
        BY <1>2, OthersKept
    <2> QED BY <2>1 DEF CareInv
<1>3. ASSUME NEW t \in Task, Aside(t) \/ \E c \in Call : Calling(c, t) PROVE CareInv'
    <2>1. UNCHANGED <<pc, at>>
        BY <1>3, RunnersStay DEF HeldInv
    <2>2. Kept(t)' /\ \A r \in Runner : pc'[r] = "complete" /\ at'[r] = t => Done(t)'
        BY <1>3, <2>1, AsideKept
    <2> QED BY <1>2, <1>3, <2>2
<1>4. ASSUME NEW r \in Runner, NEW t \in Task, Work(r, t) PROVE CareInv'
    BY <1>2, <1>4, WorkKept
<1>5. ASSUME NEW r \in Runner, NEW t \in Task,
             Crash(r, t) \/ Fetch(r, t) \/ Poll(r, t) \/ StallFails(r, t)
      PROVE  CareInv'
    BY <1>2, <1>5, OddKept
<1> QED BY <1>1, <1>3, <1>4, <1>5 DEF Next, Aside, Calling, StallCheck

\* An open row has somebody who will bring it to an end, whatever is cancelled,
\* replayed, fails and dies, unless its keeper died with it in hand or its job was
\* removed before the listener looked: the task is then marked as forsaken.
THEOREM SomebodyCaresAlways == Spec => []SomebodyCares
<1>1. Init => CareInv
    BY DEF Init, CareInv, Kept, Done, Open
<1>2. CareInv => SomebodyCares
    BY DEF CareInv, Kept, InHand, Heard, SomebodyCares
<1>3. ProgressInv => HeldInv
    BY DEF ProgressInv
<1> QED BY <1>1, <1>2, <1>3, NextCareInv, ProgressInvAlways, PTL DEF Spec

-------------------------------------------------------------------------------
(* The sections *)

InLock == {"start", "prepare", "generate", "commit", "save"}

\* Who is inside the workspace lock of a session.
Within(s) == {r \in Runner : pc[r] \in InLock /\ SessionOf[at[r]] = s}

KeysFit == \A s \in Session, r \in Runner : lock[s] = r <=> r \in Within(s)

\* A runner takes the key of its session and gives it back with the outcome.
LEMMA WorkKeysFit ==
    ASSUME ProgressInv, KeysFit, NEW r \in Runner, NEW t \in Task, Work(r, t)
    PROVE  KeysFit'
<1> USE GenerationAssumption DEF ProgressInv, HeldInv, TypeOK, KeysFit, Within, InLock,
        Labels, Session, Goto, Free, Unlock, Rejection, queue, runners
<1>1. CASE AdmitReads(r, t)
    BY <1>1 DEF AdmitReads
<1>2. CASE AdmitWrites(r, t)
    BY <1>2 DEF AdmitWrites
<1>3. CASE Enter(r, t)
    BY <1>3 DEF Enter
<1>4. CASE FailsEarly(r, t)
    BY <1>4 DEF FailsEarly
<1>5. CASE Prepare(r, t) \/ Start(r, t)
    BY <1>5 DEF Prepare, Start
<1>6. CASE Generate(r, t)
    BY <1>6 DEF Generate
<1>7. CASE Commit(r, t)
    BY <1>7 DEF Commit
<1>8. CASE Save(r, t)
    BY <1>8 DEF Save
<1>9. CASE Throws(r, t)
    BY <1>9 DEF Throws
<1>10. CASE Complete(r, t)
    BY <1>10 DEF Complete
<1>11. CASE Reject(r, t)
    BY <1>11 DEF Reject
<1>12. CASE Delay(r, t) \/ Listen(r, t) \/ FailedEvent(r, t)
    BY <1>12 DEF Delay, Listen, FailedEvent
<1> QED BY <1>1, <1>2, <1>3, <1>4, <1>5, <1>6, <1>7, <1>8, <1>9, <1>10, <1>11,
           <1>12 DEF Work

\* The other steps take no key; the keys of a worker that dies expire.
LEMMA NextKeysFit == ProgressInv /\ KeysFit /\ [Next]_vars => KeysFit'
<1> SUFFICES ASSUME ProgressInv, KeysFit, [Next]_vars PROVE KeysFit'
    OBVIOUS
<1> USE GenerationAssumption DEF ProgressInv, HeldInv, TypeOK, KeysFit, Within, InLock,
        Labels, Session, Goto, Free, Unlock, queue, runners
<1>1. ASSUME NEW t \in Task, Aside(t) \/ \E c \in Call : Calling(c, t)
      PROVE  KeysFit'
    <2>1. UNCHANGED <<lock, pc, at>>
        BY <1>1, RunnersStay
    <2> QED BY <2>1
<1>2. ASSUME NEW r \in Runner, NEW t \in Task, Crash(r, t) PROVE KeysFit'
    BY <1>2 DEF Crash
<1>3. ASSUME NEW r \in Runner, NEW t \in Task, Fetch(r, t) \/ StallFails(r, t)
      PROVE  KeysFit'
    BY <1>3 DEF Fetch, StallFails
<1>4. ASSUME NEW r \in Runner, NEW t \in Task, Poll(r, t) PROVE KeysFit'
    BY <1>4 DEF Poll
<1>5. ASSUME NEW r \in Runner, NEW t \in Task, Work(r, t) PROVE KeysFit'
    BY <1>5, WorkKeysFit
<1>6. CASE UNCHANGED vars
    BY <1>6 DEF vars
<1> QED BY <1>1, <1>2, <1>3, <1>4, <1>5, <1>6 DEF Next, Aside, Calling, StallCheck

\* A key goes from nobody to a runner and back.
LEMMA KeyTurns ==
    ASSUME TypeOK, [Next]_vars, NEW s \in Session
    PROVE  \/ lock'[s] = lock[s]
           \/ lock[s] = None /\ lock'[s] \in Runner
           \/ lock[s] \in Runner /\ lock'[s] = None
<1> DEFINE Turns == \/ lock'[s] = lock[s]
                    \/ lock[s] = None /\ lock'[s] \in Runner
                    \/ lock[s] \in Runner /\ lock'[s] = None
<1> USE GenerationAssumption DEF TypeOK, Unlock, queue, runners
<1>1. ASSUME NEW t \in Task, Aside(t) \/ \E c \in Call : Calling(c, t)
      PROVE  Turns
    BY <1>1, RunnersStay
<1>2. ASSUME NEW r \in Runner, NEW t \in Task, Crash(r, t) PROVE Turns
    BY <1>2 DEF Crash
<1>3. ASSUME NEW r \in Runner, NEW t \in Task,
             Fetch(r, t) \/ Poll(r, t) \/ StallFails(r, t)
      PROVE  Turns
    BY <1>3 DEF Fetch, Poll, StallFails
<1>4. ASSUME NEW r \in Runner, NEW t \in Task, Work(r, t) PROVE Turns
    BY <1>4 DEF Work, AdmitReads, AdmitWrites, Delay, Enter, FailsEarly, Prepare, Start,
                Generate, Commit, Save, Throws, Complete, Reject, Listen, FailedEvent
<1>5. CASE UNCHANGED vars
    BY <1>5 DEF vars
<1> QED BY <1>1, <1>2, <1>3, <1>4, <1>5 DEF Next, Aside, Calling, StallCheck

\* The workspace of one session.
Workspace(s) == INSTANCE ExclusiveSection WITH Caller <- Runner, inside <- Within(s)

\* In the workspace of a session the generations of all workers behave as
\* ExclusiveSection, the one that ProjectWorkspace shows of its key when saves,
\* Git writes and cleanups enter it as well.
THEOREM WorkspacesRefine ==
    ASSUME NEW s \in Session
    PROVE  Spec => Workspace(s)!Spec
<1>1. Init => KeysFit /\ Workspace(s)!Init
    BY GenerationAssumption DEF Init, KeysFit, Within, InLock, Workspace!Init
<1>2. TypeOK /\ KeysFit /\ KeysFit' /\ [Next]_vars => [Workspace(s)!Next]_(Within(s))
    <2> SUFFICES ASSUME TypeOK, KeysFit, KeysFit', [Next]_vars
                 PROVE  Workspace(s)!Next \/ Within(s)' = Within(s)
        OBVIOUS
    <2>1. /\ Within(s) = {r \in Runner : lock[s] = r}
          /\ Within(s)' = {r \in Runner : lock'[s] = r}
        BY DEF KeysFit, Within
    <2>2. CASE lock'[s] = lock[s]
        BY <2>1, <2>2
    <2>3. CASE lock[s] = None /\ lock'[s] \in Runner
        <3>1. Workspace(s)!Enter(lock'[s])
            BY <2>1, <2>3, GenerationAssumption DEF Workspace!Enter
        <3> QED BY <2>3, <3>1 DEF Workspace!Next
    <2>4. CASE lock[s] \in Runner /\ lock'[s] = None
        <3>1. Workspace(s)!Leave(lock[s])
            BY <2>1, <2>4, GenerationAssumption DEF Workspace!Leave
        <3> QED BY <2>4, <3>1 DEF Workspace!Next
    <2> QED BY <2>2, <2>3, <2>4, KeyTurns
<1>3. ProgressInv => TypeOK
    BY DEF ProgressInv, HeldInv
<1> QED BY <1>1, <1>2, <1>3, ProgressInvAlways, NextKeysFit, PTL DEF Spec, Workspace!Spec

\* The partial unique index.
OneActive == \A t, u \in Task :
    SessionOf[t] = SessionOf[u] /\ row[t] \in Active /\ row[u] \in Active => t = u

\* The index refuses a second active row in whatever order rows are written, and no
\* write without it makes a row active that was not.
LEMMA NextOneActive == TypeOK /\ OneActive /\ [Next]_vars => OneActive'
<1> SUFFICES ASSUME TypeOK, OneActive, [Next]_vars PROVE OneActive'
    OBVIOUS
<1> USE DEF TypeOK, OneActive, Active, Finished
<1>1. ASSUME NEW t \in Task, NEW status \in Active \cup Finished, SetRow(t, status)
      PROVE  OneActive'
    BY <1>1 DEF SetRow, IndexAllows, Same
<1>2. ASSUME NEW t \in Task, NEW from, NEW status \in Finished, SetRowIf(t, from, status)
      PROVE  OneActive'
    BY <1>2 DEF SetRowIf
<1>3. ASSUME row' = row PROVE OneActive'
    BY <1>3
<1>4. ASSUME NEW t \in Task, Aside(t) PROVE OneActive'
    BY <1>1, <1>3, <1>4 DEF Aside, Create, AddFails, ApiCrash, Reconcile, RequestStep,
       AddJob, AddFailWrites, Stall
<1>5. ASSUME NEW c \in Call, NEW t \in Task, Calling(c, t) PROVE OneActive'
    BY <1>1, <1>3, <1>5 DEF Calling, CallBegins, CancelRequest, Replay, RemoveDeadLetter,
       CallStep, CancelLooks, RemoveJob, CancelWrites, InTheEnd, Requeue, RetryJob,
       RetryFails, CallCrash
<1>6. ASSUME NEW r \in Runner, NEW t \in Task,
             Crash(r, t) \/ Fetch(r, t) \/ Poll(r, t) \/ StallFails(r, t)
      PROVE  OneActive'
    BY <1>3, <1>6 DEF Crash, Fetch, Poll, StallFails
<1>7. ASSUME NEW r \in Runner, NEW t \in Task, Throws(r, t) \/ FailedEvent(r, t)
      PROVE  OneActive'
    <2>1. Outcome(r) \in Finished
        BY DEF Outcome
    <2> QED BY <1>2, <1>3, <1>7, <2>1 DEF Throws, FailedEvent
<1>8. ASSUME NEW r \in Runner, NEW t \in Task,
             Work(r, t), ~Throws(r, t), ~FailedEvent(r, t)
      PROVE  OneActive'
    BY <1>1, <1>3, <1>8 DEF Work, AdmitReads, AdmitWrites, Delay, Enter, FailsEarly,
       Prepare, Start, Generate, Commit, Save, Complete, Reject, Listen, queue
<1>9. CASE UNCHANGED vars
    BY <1>3, <1>9 DEF vars
<1> QED BY <1>4, <1>5, <1>6, <1>7, <1>8, <1>9 DEF Next, Aside, Calling, StallCheck

\* From its admission on a generation is alone in its session, also while it waits
\* for the lock: the rows tell two of them apart already.
OneGenerationEach ==
    \A p, q \in {r \in Runner : pc[r] \in Running /\ at[r] \notin overtaken} :
        SessionOf[at[p]] = SessionOf[at[q]] => p = q

\* However often tasks of a session are cancelled, replayed and redelivered, one of
\* its generations at a time is under way on all workers: the partial unique index
\* on the rows and BullMQ's token suffice for it, without the workspace lock, for
\* tasks that nobody had in hand when they were fetched.
THEOREM OneGenerationEachAlways == Spec => []OneGenerationEach
<1>1. Init => OneActive
    BY DEF Init, OneActive, Active
<1>2. ProgressInv /\ OneActive => OneGenerationEach
    <2> SUFFICES ASSUME ProgressInv, OneActive, NEW p \in Runner, NEW q \in Runner,
                        pc[p] \in Running, pc[q] \in Running,
                        at[p] \notin overtaken, at[q] \notin overtaken,
                        SessionOf[at[p]] = SessionOf[at[q]]
                 PROVE  p = q
        BY DEF OneGenerationEach
    <2>1. at[p] \in Task /\ owner[at[p]] = p /\ row[at[p]] \in Active
        BY DEF ProgressInv, HeldInv, JobsHeld, Attending, RunningIsVisible, Running, Active
    <2>2. at[q] \in Task /\ owner[at[q]] = q /\ row[at[q]] \in Active
        BY DEF ProgressInv, HeldInv, JobsHeld, Attending, RunningIsVisible, Running, Active
    <2> QED BY <2>1, <2>2 DEF OneActive
<1>3. ProgressInv => TypeOK
    BY DEF ProgressInv, HeldInv
<1> QED BY <1>1, <1>2, <1>3, ProgressInvAlways, NextOneActive, PTL DEF Spec

-------------------------------------------------------------------------------
(* The history *)

\* A task that is shown as succeeded is in the Git history, and stays there.
HistoryTells == \A t \in Task : row[t] = "succeeded" => t \in commits

\* The two stores are written one after the other, and a worker may die between;
\* whatever else happens, the row never says more than the history has.
THEOREM HistoryTellsAlways == Spec => []HistoryTells
<1> DEFINE Saved == \A r \in Runner : pc[r] = "save" => at[r] \in commits
           Inv == Saved /\ HistoryTells
<1>1. Init => Inv
    BY DEF Init, HistoryTells
<1>2. TypeOK /\ Inv /\ [Next]_vars => Inv'
    <2> SUFFICES ASSUME TypeOK, Inv, [Next]_vars PROVE Inv'
        OBVIOUS
    <2> USE DEF TypeOK, HistoryTells, Goto, Free, SetRow, SetRowIf, Rejection, queue,
            runners
    <2>1. ASSUME NEW t \in Task, Aside(t) \/ \E c \in Call : Calling(c, t)
          PROVE  Inv'
        BY <2>1, RunnersStay
    <2>2. ASSUME NEW r \in Runner, NEW t \in Task,
                 Fetch(r, t) \/ Poll(r, t) \/ StallFails(r, t) \/ Crash(r, t)
          PROVE  Inv'
        BY <2>2 DEF Fetch, Poll, StallFails, Crash
    <2>3. ASSUME NEW r \in Runner, NEW t \in Task, Commit(r, t) \/ Save(r, t) PROVE Inv'
        BY <2>3 DEF Commit, Save
    <2>4. ASSUME NEW r \in Runner, NEW t \in Task, \/ Prepare(r, t) \/ Start(r, t)
                     \/ Generate(r, t) \/ Throws(r, t) \/ Enter(r, t) \/ FailsEarly(r, t)
          PROVE  Inv'
        BY <2>4 DEF Prepare, Start, Generate, Throws, Enter, FailsEarly, Outcome
    <2>5. ASSUME NEW r \in Runner, NEW t \in Task, \/ AdmitReads(r, t) \/ AdmitWrites(r, t)
                     \/ Delay(r, t) \/ Complete(r, t) \/ Reject(r, t) \/ Listen(r, t)
                     \/ FailedEvent(r, t)
          PROVE  Inv'
        BY <2>5 DEF AdmitReads, AdmitWrites, Delay, Complete, Reject, Listen, FailedEvent
    <2>6. CASE UNCHANGED vars
        BY <2>6 DEF vars
    <2> QED BY <2>1, <2>2, <2>3, <2>4, <2>5, <2>6 DEF Next, Work, Aside, Calling, StallCheck
<1>3. Inv => HistoryTells
    OBVIOUS
<1> HIDE DEF Inv
<1> QED BY <1>1, <1>2, <1>3, TypeCorrect, PTL DEF Spec

-------------------------------------------------------------------------------
(* The limits as sections *)

\* A step moves one runner at most.
LEMMA OneMoves ==
    ASSUME TypeOK, [Next]_vars
    PROVE  \/ UNCHANGED <<pc, at>>
           \/ \E r \in Runner : \A p \in Runner \ {r} : pc'[p] = pc[p] /\ at'[p] = at[p]
<1> DEFINE Moves == \E r \in Runner : \A p \in Runner \ {r} : pc'[p] = pc[p] /\ at'[p] = at[p]
<1> USE DEF TypeOK, Goto, Free, queue, runners
<1>1. ASSUME NEW t \in Task, Aside(t) \/ \E c \in Call : Calling(c, t)
      PROVE  UNCHANGED <<pc, at>>
    BY <1>1, RunnersStay
<1>2. ASSUME NEW r \in Runner, NEW t \in Task,
             Crash(r, t) \/ Fetch(r, t) \/ Poll(r, t) \/ StallFails(r, t)
      PROVE  Moves
    BY <1>2 DEF Crash, Fetch, Poll, StallFails
<1>3. ASSUME NEW r \in Runner, NEW t \in Task, Work(r, t) PROVE Moves
    BY <1>3 DEF Work, AdmitReads, AdmitWrites, Delay, Enter, FailsEarly, Prepare, Start,
                Generate, Commit, Save, Throws, Complete, Reject, Listen, FailedEvent
<1>4. CASE UNCHANGED vars
    BY <1>4 DEF vars
<1> QED BY <1>1, <1>2, <1>3, <1>4 DEF Next, Aside, Calling, StallCheck

\* The generations of one user or team.
Limited(c) == INSTANCE LimitedSection
    WITH Caller <- Runner, Limit <- Limit[c], inside <- Occupied(c)

\* An admission lets its runner in; nobody else comes in.
LEMMA AdmissionEnters ==
    ASSUME ProgressInv, NEW c \in Scope, Limit[c] > 0,
           NEW r \in Runner, NEW t \in Task, Granted(r, t)
    PROVE  [Limited(c)!Next]_(Occupied(c))
<1>1. /\ pc[r] = "admit" /\ at[r] = t /\ at' = at /\ overtaken' = overtaken
      /\ pc' = [pc EXCEPT ![r] = "enter"]
    BY DEF Granted, AdmitWrites, Goto, ghosts, ProgressInv, HeldInv, TypeOK
<1>2. r \notin Occupied(c)
    BY <1>1 DEF Occupied, Running
<1>3. CASE t \in InScope(c) \ overtaken
    <2>1. Occupied(c)' = Occupied(c) \cup {r}
        BY <1>1, <1>3 DEF Occupied, InScope, Running, ProgressInv, HeldInv, TypeOK
    <2>2. Cardinality(Occupied(c)) < Limit[c]
        BY <1>3, RoomLeft
    <2>3. Limited(c)!Cardinality(Occupied(c)) = Cardinality(Occupied(c))
        BY DEF Limited!Cardinality, Cardinality
    <2>4. Limited(c)!Enter(r)
        BY <1>2, <2>1, <2>2, <2>3 DEF Limited!Enter
    <2> QED BY <2>4 DEF Limited!Next
<1>4. CASE t \notin InScope(c) \ overtaken
    <2>1. Occupied(c)' = Occupied(c)
        BY <1>1, <1>4 DEF Occupied, InScope, Running, ProgressInv, HeldInv, TypeOK
    <2> QED BY <2>1
<1> QED BY <1>3, <1>4

\* For each user and team with a limit the generations of all workers come and go
\* as through one counter, which nobody keeps: the scheduler counts rows, and rows
\* and runners change at different times.
THEOREM LimitsRefine ==
    ASSUME NEW c \in Scope, Limit[c] > 0
    PROVE  Spec => Limited(c)!Spec
<1>1. Init => Limited(c)!Init
    BY DEF Init, Limited!Init, Occupied, Running
<1>2. ProgressInv /\ [Next]_vars => [Limited(c)!Next]_(Occupied(c))
    <2> SUFFICES ASSUME ProgressInv, [Next]_vars PROVE [Limited(c)!Next]_(Occupied(c))
        OBVIOUS
    <2>1. ASSUME NEW r \in Runner, NEW t \in Task, Granted(r, t)
          PROVE  [Limited(c)!Next]_(Occupied(c))
        BY <2>1, AdmissionEnters
    <2>2. CASE \A r \in Runner, t \in Task : ~Granted(r, t)
        <3>1. Occupied(c)' \subseteq Occupied(c)
            BY <2>2, OnlyAdmitted, MarkedBefore DEF ProgressInv, HeldInv, Occupied, InScope
        <3>2. CASE UNCHANGED <<pc, at>>
            BY <3>1, <3>2, MarkedBefore DEF Occupied, InScope
        <3>3. ASSUME NEW r \in Runner,
                     \A p \in Runner \ {r} : pc'[p] = pc[p] /\ at'[p] = at[p]
              PROVE  [Limited(c)!Next]_(Occupied(c))
            <4>1. Occupied(c) \ {r} \subseteq Occupied(c)'
                BY <3>3, MarkedBefore DEF Occupied, InScope
            <4>2. Occupied(c)' = Occupied(c) \/ (r \in Occupied(c) /\ Occupied(c)' = Occupied(c) \ {r})
                BY <3>1, <4>1
            <4> QED BY <4>2 DEF Limited!Next, Limited!Leave
        <3> QED BY <3>2, <3>3, OneMoves DEF ProgressInv, HeldInv
    <2> QED BY <2>1, <2>2
<1> QED BY <1>1, <1>2, ProgressInvAlways, PTL DEF Spec, Limited!Spec
===============================================================================
