-------------------------- MODULE ScheduledTask_proofs --------------------------
(***************************************************************************)
(* Proofs about ScheduledTask: for any tasks, replicas, requests and        *)
(* executions, any time and any number of events, an occurrence runs at    *)
(* most once unless a user puts it on again, a cancelled execution is not  *)
(* called, and one that has not ended is in the hands of somebody.         *)
(***************************************************************************)
EXTENDS ScheduledTask, TLAPS

(***************************************************************************)
(* A runner has the active job it attends to for itself.                   *)
(***************************************************************************)
JobsHeld ==
    /\ \A r \in Runner : at[r] = None <=> pc[r] = "idle"
    /\ \A r \in Runner : at[r] # None => job[at[r]] = "active"
    /\ \A r, q \in Runner : at[r] # None /\ at[r] = at[q] => r = q
    /\ \A e \in Execution : job[e] \in {"waiting", "active"} => tries[e] < Attempts

(***************************************************************************)
(* A starter alone adds the job of the row it has inserted; a cancellation *)
(* is about an execution, a change or a claim about a task.                *)
(***************************************************************************)
Adds(a) == step[a] \in {"add", "fail"}
Cancels(a) == step[a] \in {"look", "remove", "write"}
AddersFit ==
    /\ \A a \in Starter : Adds(a) => job[exec[a]] = "missing" /\ tries[exec[a]] = 0
    /\ \A a, b \in Starter : Adds(a) /\ Adds(b) /\ exec[a] = exec[b] => a = b
    /\ \A e \in Execution : row[e] = "none" =>
          of[e] = None /\ job[e] = "missing" /\ tries[e] = 0 /\ listed[e] = "no"
StartersFit ==
    /\ \A a \in Starter :
          step[a] \in {"plan", "claim", "check", "insert", "change"} => about[a] \in Task
    /\ \A a \in Starter : step[a] = "idle" => slot[a] = 0
    /\ \A a \in Starter : step[a] = "claim" => planned[a] # None
    /\ \A a \in Starter : step[a] = "change" => note[a] \in {"enabled", "paused"}
    /\ \A a \in Starter : step[a] = "remove" => note[a] = "cancelled"
    /\ \A a \in Starter : step[a] = "write" => note[a] \in {"cancelling", "cancelled"}
    /\ \A a \in Starter : Adds(a) \/ step[a] = "misled" \/ Cancels(a) =>
          exec[a] \in Execution /\ row[exec[a]] # "none"

JobInv == TypeOK /\ JobsHeld /\ AddersFit /\ StartersFit

(* The types in groups; a step disturbs a few of them. *)
TasksType ==
    /\ now \in 0..MaxTime
    /\ task \in [Task -> {"pending_approval", "enabled", "paused", "rejected",
                          "completed", "expired"}]
    /\ approved \subseteq Task
    /\ next \in [Task -> (0..MaxTime + 1) \cup {None}]
StartersType ==
    /\ step \in [Starter -> {"idle", "plan", "claim", "check", "insert", "add",
                           "fail", "misled", "change", "look", "remove", "write"}]
    /\ about \in [Starter -> Task \cup {None}]
    /\ slot \in [Starter -> 0..MaxTime]
    /\ planned \in [Starter -> (0..MaxTime + 1) \cup {None}]
    /\ exec \in [Starter -> Execution \cup {None}]
    /\ note \in [Starter -> {"none", "enabled", "paused", "cancelling", "cancelled"}]
ExecutionsType ==
    /\ row \in [Execution -> Finished \cup Open \cup {"none"}]
    /\ of \in [Execution -> Task \cup {None}]
    /\ occurrence \in [Execution -> 0..MaxTime]
    /\ job \in [Execution -> JobStates] /\ tries \in [Execution -> 0..Attempts]
    /\ stalls \in [Execution -> 0..MaxStalls]
RunnersType ==
    /\ pc \in [Runner -> {"idle", "read", "start", "call", "ok", "error",
                          "done", "threw"}]
    /\ at \in [Runner -> Execution \cup {None}] /\ aborted \subseteq Runner
StartsType ==
    /\ listed \in [Execution -> {"no", "listed", "queued", "failed"}]
    /\ replicas \in {"alive", "dead"} /\ events \in 0..MaxEvents
HistoryType ==
    /\ rearmed \subseteq Task \X (0..MaxTime)
    /\ overtaken \subseteq Execution /\ stranded \subseteq Execution

\* The groups make up the type invariant.
LEMMA TypeGroups ==
    TypeOK <=> /\ TasksType /\ StartersType /\ ExecutionsType /\ RunnersType
               /\ StartsType /\ HistoryType
BY Zenon DEF TypeOK, TasksType, StartersType, ExecutionsType, RunnersType, StartsType, HistoryType

\* So they do after a step.
LEMMA NextJobInvGroups ==
    /\ TasksType' /\ StartersType' /\ ExecutionsType' /\ RunnersType' /\ StartsType'
    /\ HistoryType' /\ JobsHeld' /\ AddersFit' /\ StartersFit'
    => JobInv'
BY Zenon DEF JobInv, TypeOK, TasksType, StartersType, ExecutionsType, RunnersType, StartsType,
   HistoryType

-------------------------------------------------------------------------------
(* Types, jobs and starters *)

\* At first there is no execution and nobody attends to anything.
LEMMA InitJobInv == Init => JobInv
<1> SUFFICES ASSUME Init PROVE JobInv
    OBVIOUS
<1>1. TasksType
    BY ScheduleAssumption DEF Init, TasksType
<1>2. StartersType
    BY ScheduleAssumption DEF Init, StartersType
<1>3. ExecutionsType
    BY ScheduleAssumption DEF Init, ExecutionsType, Finished, Open, JobStates, MaxStalls
<1>4. RunnersType /\ StartsType /\ HistoryType
    BY ScheduleAssumption DEF Init, RunnersType, StartsType, HistoryType
<1>5. JobsHeld /\ AddersFit /\ StartersFit
    BY ScheduleAssumption DEF Init, JobsHeld, AddersFit, StartersFit, Adds, Cancels
<1> QED BY <1>1, <1>2, <1>3, <1>4, <1>5, TypeGroups DEF JobInv

\* A counted event stays within the bound, and the other steps count none.
LEMMA EventsCounted == ASSUME StartsType, NEW k, Event(k) PROVE events' \in 0..MaxEvents
BY ScheduleAssumption DEF StartsType, Event

\* Reviews and expiries of tasks touch neither jobs nor starters.
LEMMA TaskJobInv ==
    ASSUME JobInv, NEW t \in Task, TaskStep(t)
    PROVE  JobInv'
<1>1. /\ TasksType /\ StartersType /\ ExecutionsType /\ RunnersType /\ StartsType
      /\ HistoryType /\ JobsHeld /\ AddersFit /\ StartersFit
    BY TypeGroups DEF JobInv
<1>2. UNCHANGED <<starters, executions, runners, starts, history>>
    BY DEF TaskStep, Approve, Reject, Expire
<1>3. TasksType'
    BY <1>1 DEF TaskStep, Approve, Reject, Expire, TasksType, SetTask
<1>4. events' \in 0..MaxEvents
    BY <1>1, EventsCounted DEF TaskStep, Approve, Reject, Expire, StartsType
<1>5. /\ StartersType' /\ ExecutionsType' /\ RunnersType' /\ StartsType' /\ HistoryType'
      /\ JobsHeld' /\ AddersFit' /\ StartersFit'
    BY <1>1, <1>2, <1>4 DEF StartersType, ExecutionsType, RunnersType, StartsType,
       HistoryType, JobsHeld, AddersFit, StartersFit, Adds, Cancels, starters, executions,
       runners, starts, history
<1> QED BY <1>3, <1>5, NextJobInvGroups

\* A starter that rests is about nothing.
LEMMA RestsTyped ==
    ASSUME StartersType, NEW a \in Starter, Rests(a)
    PROVE  /\ StartersType'
           /\ step'[a] = "idle" /\ slot'[a] = 0
           /\ \A b \in Starter \ {a} :
                 /\ step'[b] = step[b] /\ about'[b] = about[b] /\ slot'[b] = slot[b]
                 /\ planned'[b] = planned[b] /\ exec'[b] = exec[b] /\ note'[b] = note[b]
BY ScheduleAssumption DEF StartersType, Rests, Takes

\* One starter moves while rows that are there stay there: what the others
\* are about is as it was.
LEMMA OneStarterFits ==
    ASSUME StartersFit, NEW a \in Starter,
           \A b \in Starter \ {a} :
               /\ step'[b] = step[b] /\ about'[b] = about[b] /\ slot'[b] = slot[b]
               /\ planned'[b] = planned[b] /\ exec'[b] = exec[b] /\ note'[b] = note[b],
           \A e \in Execution : row[e] # "none" => row'[e] # "none",
           \/ step'[a] = "idle" /\ slot'[a] = 0
           \/ step'[a] \in {"plan", "check", "insert"} /\ about'[a] \in Task
           \/ step'[a] = "claim" /\ about'[a] \in Task /\ planned'[a] # None
           \/ step'[a] = "change" /\ about'[a] \in Task /\ note'[a] \in {"enabled", "paused"}
           \/ /\ \/ step'[a] \in {"add", "fail", "misled", "look"}
                 \/ step'[a] = "remove" /\ note'[a] = "cancelled"
                 \/ step'[a] = "write" /\ note'[a] \in {"cancelling", "cancelled"}
              /\ exec'[a] \in Execution /\ row'[exec'[a]] # "none"
    PROVE  StartersFit'
<1>1. ASSUME NEW b \in Starter \ {a}
      PROVE  /\ step'[b] \in {"plan", "claim", "check", "insert", "change"} => about'[b] \in Task
             /\ step'[b] = "idle" => slot'[b] = 0
             /\ step'[b] = "claim" => planned'[b] # None
             /\ step'[b] = "change" => note'[b] \in {"enabled", "paused"}
             /\ step'[b] = "remove" => note'[b] = "cancelled"
             /\ step'[b] = "write" => note'[b] \in {"cancelling", "cancelled"}
             /\ Adds(b)' \/ step'[b] = "misled" \/ Cancels(b)' =>
                    exec'[b] \in Execution /\ row'[exec'[b]] # "none"
    BY <1>1 DEF StartersFit, Adds, Cancels
<1>2. /\ step'[a] \in {"plan", "claim", "check", "insert", "change"} => about'[a] \in Task
      /\ step'[a] = "idle" => slot'[a] = 0
      /\ step'[a] = "claim" => planned'[a] # None
      /\ step'[a] = "change" => note'[a] \in {"enabled", "paused"}
      /\ step'[a] = "remove" => note'[a] = "cancelled"
      /\ step'[a] = "write" => note'[a] \in {"cancelling", "cancelled"}
      /\ Adds(a)' \/ step'[a] = "misled" \/ Cancels(a)' =>
             exec'[a] \in Execution /\ row'[exec'[a]] # "none"
    BY DEF Adds, Cancels
<1> QED BY <1>1, <1>2 DEF StartersFit


\* A write of rows and jobs by a starter, with a step of one of them: what is
\* left to show is that nobody else is adding what it disturbs.
LEMMA StarterKeepsJobs ==
    ASSUME JobInv, NEW a \in Starter, StartersType', StartersFit', ExecutionsType',
           events' \in 0..MaxEvents, TasksType', HistoryType', UNCHANGED <<runners, starts>>,
           \A b \in Starter \ {a} : step'[b] = step[b] /\ exec'[b] = exec[b],
           UNCHANGED tries,
           \A e \in Execution : job'[e] = job[e] \/ (job[e] # "active" /\ job'[e] = "missing")
               \/ (Adds(a) /\ exec[a] = e /\ job'[e] = "waiting" /\ ~Adds(a)'),
           \A e \in Execution : row'[e] = "none" => row[e] = "none" /\ of'[e] = of[e],
           Adds(a)' => \/ Adds(a) /\ exec'[a] = exec[a]
                       \/ /\ exec'[a] \in Execution /\ row[exec'[a]] = "none"
    PROVE  JobInv'
<1>1. /\ StartersType /\ ExecutionsType /\ RunnersType /\ StartsType
      /\ JobsHeld /\ AddersFit /\ StartersFit
    BY TypeGroups DEF JobInv
<1>2. RunnersType' /\ StartsType'
    BY <1>1 DEF RunnersType, StartsType, runners, starts
<1>3. \A r \in Runner : at'[r] = at[r] /\ pc'[r] = pc[r]
    BY DEF runners
<1>4. ASSUME NEW e \in Execution, Adds(a), exec[a] = e PROVE job[e] = "missing" /\ tries[e] = 0
    BY <1>1, <1>4 DEF AddersFit
<1>5. JobsHeld'
    <2>1. ASSUME NEW r \in Runner, at[r] # None PROVE job'[at[r]] = "active"
        <3>1. at[r] \in Execution /\ job[at[r]] = "active"
            BY <1>1, <2>1 DEF JobsHeld, RunnersType
        <3>2. PICK e \in Execution : e = at[r]
            BY <3>1
        <3>3. job'[e] = job[e]
            BY <1>4, <3>1, <3>2
        <3> QED BY <3>1, <3>2, <3>3
    <2>2. ASSUME NEW e \in Execution, job'[e] \in {"waiting", "active"} PROVE tries'[e] < Attempts
        <3>1. job'[e] = job[e] \/ (Adds(a) /\ exec[a] = e)
            BY <2>2
        <3>2. CASE job'[e] = job[e]
            BY <1>1, <2>2, <3>2 DEF JobsHeld
        <3>3. CASE Adds(a) /\ exec[a] = e
            BY <1>4, <3>3, ScheduleAssumption
        <3> QED BY <3>1, <3>2, <3>3
    <2> QED BY <1>1, <1>3, <2>1, <2>2 DEF JobsHeld
<1>6. AddersFit'
    <2>1. \A b \in Starter \ {a} : Adds(b)' <=> Adds(b)
        BY DEF Adds
    <2>2. ASSUME NEW b \in Starter, Adds(b)'
          PROVE  job'[exec'[b]] = "missing" /\ tries'[exec'[b]] = 0
        <3>1. CASE b = a /\ ~(Adds(a) /\ exec'[a] = exec[a])
            <4>1. PICK e \in Execution : e = exec'[a] /\ row[e] = "none"
                BY <2>2, <3>1
            <4>2. job[e] = "missing" /\ tries[e] = 0
                BY <1>1, <4>1 DEF AddersFit
            <4>3. job'[e] = "missing"
                BY <2>2, <3>1, <4>1, <4>2
            <4> QED BY <3>1, <4>1, <4>2, <4>3
        <3>2. CASE Adds(b) /\ exec'[b] = exec[b]
            <4>1. exec[b] \in Execution
                BY <1>1, <3>2 DEF StartersFit
            <4>2. PICK e \in Execution : e = exec[b]
                BY <4>1
            <4>3. job[e] = "missing" /\ tries[e] = 0
                BY <1>1, <3>2, <4>2 DEF AddersFit
            <4>4. Adds(a) /\ exec[a] = e => b = a
                BY <1>1, <3>2, <4>2 DEF AddersFit
            <4>5. job'[e] = "missing"
                BY <2>2, <4>3, <4>4
            <4> QED BY <3>2, <4>2, <4>3, <4>5
        <3> QED BY <2>1, <2>2, <3>1, <3>2
    <2>3. ASSUME NEW b \in Starter, NEW c \in Starter, Adds(b)', Adds(c)', exec'[b] = exec'[c]
          PROVE  b = c
        <3>1. \A d \in Starter \ {a} : Adds(d)' => Adds(d) /\ exec'[d] = exec[d] /\ row[exec[d]] # "none"
            BY <1>1, <2>1 DEF StartersFit
        <3>2. Adds(a)' => \/ Adds(a) /\ exec'[a] = exec[a] /\ row[exec[a]] # "none"
                          \/ row[exec'[a]] = "none"
            BY <1>1 DEF StartersFit
        <3> QED BY <1>1, <2>3, <3>1, <3>2 DEF AddersFit
    <2>4. ASSUME NEW e \in Execution, row'[e] = "none"
          PROVE  of'[e] = None /\ job'[e] = "missing" /\ tries'[e] = 0 /\ listed'[e] = "no"
        <3>1. row[e] = "none" /\ of'[e] = of[e] /\ listed' = listed
            BY <2>4 DEF starts
        <3>2. of[e] = None /\ job[e] = "missing" /\ tries[e] = 0 /\ listed[e] = "no"
            BY <1>1, <3>1 DEF AddersFit
        <3>3. ~(Adds(a) /\ exec[a] = e)
            BY <1>1, <3>1 DEF StartersFit
        <3> QED BY <3>1, <3>2, <3>3
    <2> QED BY <2>2, <2>3, <2>4 DEF AddersFit
<1> QED BY <1>2, <1>5, <1>6, NextJobInvGroups

\* Claims, checks and changes: no execution is touched.
LEMMA ClaimJobInv ==
    ASSUME JobInv, NEW a \in Starter,
           \/ Plan(a) \/ Claim(a) \/ CheckPolicy(a) \/ ChangeStatus(a)
           \/ \E t \in Task : \/ FindDue(a, t) \/ RunManually(a, t)
                              \/ \E s \in {"enabled", "paused"} : LookAtTask(a, t, s)
    PROVE  JobInv'
<1>1. /\ TasksType /\ StartersType /\ ExecutionsType /\ StartsType /\ HistoryType
      /\ AddersFit /\ StartersFit
    BY TypeGroups DEF JobInv
<1>2. /\ UNCHANGED <<executions, runners, starts>> /\ ~Adds(a)'
      /\ \A b \in Starter \ {a} : /\ step'[b] = step[b] /\ about'[b] = about[b]
            /\ slot'[b] = slot[b] /\ planned'[b] = planned[b] /\ exec'[b] = exec[b]
            /\ note'[b] = note[b]
    BY <1>1 DEF Plan, Claim, CheckPolicy, ChangeStatus, FindDue, RunManually, LookAtTask,
       Takes, Rests, Adds, StartersType
<1>3. ExecutionsType' /\ UNCHANGED tries
    BY <1>1, <1>2 DEF ExecutionsType, executions
<1>4. events' \in 0..MaxEvents
    <2>1. UNCHANGED events \/ Event("change")
        BY DEF Plan, Claim, CheckPolicy, ChangeStatus, FindDue, RunManually, LookAtTask
    <2> QED BY <1>1, <2>1, EventsCounted DEF StartsType
<1>5. Upcoming \in 0..MaxTime + 1 /\ Upcoming # None
    <2>1. now + 1 \in 1..MaxTime + 1
        BY <1>1, ScheduleAssumption DEF TasksType
    <2> QED BY <2>1, ScheduleAssumption DEF Upcoming
<1>6. step[a] \in {"plan", "claim", "check", "insert", "change"} => about[a] \in Task
    BY <1>1 DEF StartersFit
<1>7. StartersType' /\ StartersFit'
    <2>1. \A e \in Execution : row[e] # "none" => row'[e] # "none"
        BY <1>2 DEF executions
    <2>2. CASE Plan(a)
        <3>1. StartersType' /\ step'[a] = "claim" /\ about'[a] \in Task /\ planned'[a] # None
            BY <1>1, <1>5, <1>6, <2>2 DEF Plan, Takes, StartersType
        <3> QED BY <1>1, <1>2, <2>1, <3>1, OneStarterFits
    <2>3. CASE Claim(a) /\ StillDue(a)
        <3>1. next[about[a]] \in 0..MaxTime
            BY <1>1, <1>6, <2>3, ScheduleAssumption DEF Claim, StillDue, TasksType, StartersFit, StartersType
        <3>2. StartersType' /\ step'[a] = "check" /\ about'[a] \in Task
            BY <1>1, <1>6, <2>3, <3>1 DEF Claim, Takes, StartersType
        <3> QED BY <1>1, <1>2, <2>1, <3>2, OneStarterFits
    <2>4. CASE Rests(a)
        BY <1>1, <1>2, <2>1, <2>4, RestsTyped, OneStarterFits
    <2>5. CASE CheckPolicy(a) /\ ~Rests(a)
        <3>1. StartersType' /\ step'[a] = "insert" /\ about'[a] \in Task
            BY <1>1, <1>6, <2>5 DEF CheckPolicy, Takes, StartersType
        <3> QED BY <1>1, <1>2, <2>1, <3>1, OneStarterFits
    <2>6. ASSUME NEW t \in Task, FindDue(a, t) \/ RunManually(a, t)
          PROVE  StartersType' /\ StartersFit'
        <3>1. StartersType' /\ step'[a] \in {"plan", "check"} /\ about'[a] \in Task
            BY <1>1, <2>6 DEF FindDue, RunManually, Takes, StartersType
        <3> QED BY <1>1, <1>2, <2>1, <3>1, OneStarterFits
    <2>7. ASSUME NEW t \in Task, NEW s \in {"enabled", "paused"}, LookAtTask(a, t, s)
          PROVE  StartersType' /\ StartersFit'
        <3>1. /\ StartersType' /\ step'[a] = "change" /\ about'[a] \in Task
              /\ note'[a] \in {"enabled", "paused"}
            BY <1>1, <1>5, <2>7 DEF LookAtTask, Takes, StartersType
        <3> QED BY <1>1, <1>2, <2>1, <3>1, OneStarterFits
    <2> QED BY <2>2, <2>3, <2>4, <2>5, <2>6, <2>7 DEF Claim, CheckPolicy, ChangeStatus
<1>8. TasksType'
    <2>1. CASE UNCHANGED tasks
        BY <1>1, <2>1 DEF TasksType, tasks
    <2>2. CASE Claim(a) /\ StillDue(a)
        <3>1. step[a] = "claim" /\ planned[a] \in (0..MaxTime + 1) \cup {None}
            BY <1>1, <2>2 DEF Claim, StartersType
        <3> QED BY <1>1, <2>2, <3>1 DEF Claim, NextRun, TasksType
    <2>3. CASE Claim(a) /\ ~StillDue(a)
        BY <1>1, <2>3 DEF Claim, TasksType
    <2>4. CASE ChangeStatus(a)
        <3>1. /\ about[a] \in Task /\ note[a] \in {"enabled", "paused"}
              /\ planned[a] \in (0..MaxTime + 1) \cup {None}
            BY <1>1, <2>4 DEF ChangeStatus, StartersFit, StartersType
        <3> QED BY <1>1, <2>4, <3>1 DEF ChangeStatus, SetTask, TasksType
    <2> QED BY <2>1, <2>2, <2>3, <2>4 DEF Plan, CheckPolicy, FindDue, RunManually, LookAtTask
<1>9. HistoryType'
    <2>1. CASE UNCHANGED history
        BY <1>1, <2>1 DEF HistoryType, history
    <2>2. CASE ChangeStatus(a)
        <3>1. about[a] \in Task
            BY <1>1, <2>2 DEF ChangeStatus, StartersFit
        <3> QED BY <1>1, <2>2, <3>1 DEF ChangeStatus, Rearmed, HistoryType
    <2> QED BY <2>1, <2>2 DEF Plan, Claim, CheckPolicy, FindDue, RunManually, LookAtTask
<1>10. \A e \in Execution : job'[e] = job[e] /\ row'[e] = row[e] /\ of'[e] = of[e]
    BY <1>2 DEF executions
<1> QED BY <1>2, <1>3, <1>4, <1>7, <1>8, <1>9, <1>10, StarterKeepsJobs

\* An insert takes an execution nobody has yet; its job is added at most once.
LEMMA EnqueueJobInv ==
    ASSUME JobInv, NEW a \in Starter,
           \/ Add(a) \/ AddThrows(a) \/ FailRow(a) \/ GiveUp(a)
           \/ \E e \in Execution : Insert(a, e)
    PROVE  JobInv'
<1>1. /\ TasksType /\ StartersType /\ ExecutionsType /\ StartsType /\ HistoryType
      /\ AddersFit /\ StartersFit
    BY TypeGroups DEF JobInv
<1>2. /\ UNCHANGED <<tasks, runners, starts, tries>>
      /\ \A b \in Starter \ {a} : /\ step'[b] = step[b] /\ about'[b] = about[b]
            /\ slot'[b] = slot[b] /\ planned'[b] = planned[b] /\ exec'[b] = exec[b]
            /\ note'[b] = note[b]
    BY <1>1 DEF Add, AddThrows, FailRow, GiveUp, Insert, Takes, Rests, StartersType, executions
<1>3. TasksType'
    BY <1>1, <1>2 DEF TasksType, tasks
<1>4. events' \in 0..MaxEvents
    <2>1. UNCHANGED events \/ \E k \in EventKinds : Event(k)
        BY DEF Add, AddThrows, FailRow, GiveUp, Insert, EventKinds
    <2> QED BY <1>1, <2>1, EventsCounted DEF StartsType
<1>5. HistoryType'
    BY <1>1 DEF Add, AddThrows, FailRow, GiveUp, Insert, Strand, HistoryType, history
<1>6. CASE GiveUp(a)
    <2>1. UNCHANGED executions /\ Rests(a)
        BY <1>6 DEF GiveUp
    <2>2. StartersType' /\ StartersFit' /\ ~Adds(a)'
        BY <1>1, <2>1, RestsTyped, OneStarterFits DEF executions, Adds
    <2>3. ExecutionsType' /\ \A e \in Execution : job'[e] = job[e] /\ row'[e] = row[e] /\ of'[e] = of[e]
        BY <1>1, <2>1 DEF ExecutionsType, executions
    <2> QED BY <1>2, <1>3, <1>4, <1>5, <2>2, <2>3, StarterKeepsJobs
<1>7. CASE Add(a) \/ AddThrows(a) \/ FailRow(a)
    <2>1. /\ step[a] \in {"add", "fail", "misled"} /\ exec[a] \in Execution /\ row[exec[a]] # "none"
          /\ (step[a] = "add" => Adds(a))
        BY <1>1, <1>7 DEF Add, AddThrows, FailRow, StartersFit, Adds
    <2>2. PICK e \in Execution : e = exec[a] /\ row[e] # "none"
        BY <2>1
    <2>3. \/ row' = row /\ job' = job /\ step[a] = "add" /\ step'[a] = "fail" /\ exec' = exec
          \/ /\ row' = row /\ job' = [job EXCEPT ![e] = "waiting"] /\ step[a] = "add"
             /\ step'[a] = "misled" /\ exec' = exec
          \/ row' = row /\ job' = [job EXCEPT ![e] = "waiting"] /\ step[a] = "add" /\ Rests(a)
          \/ row' = [row EXCEPT ![e] = "failed"] /\ job' = job /\ Rests(a)
        BY <1>1, <1>7, <2>2 DEF Add, AddThrows, FailRow, SetJob, SetRow, Takes, StartersType
    <2>4. UNCHANGED <<of, occurrence, stalls>>
        BY <1>7 DEF Add, AddThrows, FailRow
    <2>5. ExecutionsType'
        BY <1>1, <1>2, <2>3, <2>4 DEF ExecutionsType, JobStates, Finished, Open
    <2>6. /\ StartersType' /\ step'[a] \in {"idle", "fail", "misled"}
          /\ step'[a] \in {"fail", "misled"} => exec' = exec
          /\ step'[a] = "idle" => slot'[a] = 0
        <3>1. CASE Rests(a)
            BY <1>1, <3>1, RestsTyped
        <3>2. CASE AddThrows(a)
            BY <1>1, <3>2 DEF AddThrows, Takes, StartersType
        <3> QED BY <1>7, <3>1, <3>2 DEF Add, FailRow
    <2>7. \A f \in Execution : (row[f] # "none" => row'[f] # "none") /\ (row'[f] = "none" => row[f] = "none")
        BY <1>1, <2>2, <2>3 DEF ExecutionsType
    <2>8. StartersFit'
        BY <1>1, <1>2, <2>1, <2>6, <2>7, OneStarterFits
    <2>9. \A f \in Execution : job'[f] = job[f] \/
              (Adds(a) /\ exec[a] = f /\ job'[f] = "waiting" /\ ~Adds(a)')
        <3>1. Rests(a) => step'[a] = "idle"
            BY <1>1, RestsTyped
        <3> QED BY <1>1, <2>1, <2>2, <2>3, <3>1 DEF ExecutionsType, Adds
    <2>10. Adds(a)' => Adds(a) /\ exec'[a] = exec[a]
        <3>1. Rests(a) => step'[a] = "idle"
            BY <1>1, RestsTyped
        <3> QED BY <2>1, <2>3, <3>1 DEF Adds
    <2> QED BY <1>2, <1>3, <1>4, <1>5, <2>4, <2>5, <2>6, <2>7, <2>8, <2>9, <2>10, StarterKeepsJobs
<1>8. ASSUME NEW e \in Execution, Insert(a, e) PROVE JobInv'
    <2>1. /\ row[e] = "none" /\ row' = [row EXCEPT ![e] = "queued"] /\ about[a] \in Task
          /\ of' = [of EXCEPT ![e] = about[a]] /\ occurrence' = [occurrence EXCEPT ![e] = slot[a]]
          /\ UNCHANGED <<job, stalls>>
        BY <1>1, <1>8 DEF Insert, SetRow, StartersFit
    <2>2. ExecutionsType'
        BY <1>1, <1>2, <2>1 DEF ExecutionsType, StartersType, Finished, Open
    <2>3. StartersType' /\ step'[a] = "add" /\ exec'[a] = e
        BY <1>1, <1>8 DEF Insert, Takes, StartersType
    <2>4. \A f \in Execution : /\ row[f] # "none" => row'[f] # "none"
                               /\ row'[f] = "none" => row[f] = "none" /\ of'[f] = of[f]
        BY <1>1, <2>1 DEF ExecutionsType
    <2>5. row'[e] # "none"
        BY <1>1, <2>1 DEF ExecutionsType
    <2>6. StartersFit'
        BY <1>1, <1>2, <2>3, <2>4, <2>5, OneStarterFits
    <2> QED BY <1>2, <1>3, <1>4, <1>5, <2>1, <2>2, <2>3, <2>4, <2>6, StarterKeepsJobs
<1> QED BY <1>6, <1>7, <1>8

\* A cancellation removes a job only while it is not active.
LEMMA CancelJobInv ==
    ASSUME JobInv, NEW a \in Starter,
           \/ CancelLooks(a) \/ CancelRemoves(a) \/ CancelWrites(a)
           \/ \E e \in Execution : CancelReads(a, e)
    PROVE  JobInv'
<1>1. /\ TasksType /\ StartersType /\ ExecutionsType /\ StartsType /\ HistoryType
      /\ AddersFit /\ StartersFit
    BY TypeGroups DEF JobInv
<1>2. /\ UNCHANGED <<tasks, runners, starts, tries, of, occurrence, stalls>> /\ ~Adds(a)'
      /\ \A b \in Starter \ {a} : /\ step'[b] = step[b] /\ about'[b] = about[b]
            /\ slot'[b] = slot[b] /\ planned'[b] = planned[b] /\ exec'[b] = exec[b]
            /\ note'[b] = note[b]
    BY <1>1 DEF CancelLooks, CancelRemoves, CancelWrites, CancelReads, Takes, Rests, StartersType,
       executions, Adds
<1>3. TasksType' /\ HistoryType'
    <2>1. TasksType'
        BY <1>1, <1>2 DEF TasksType, tasks
    <2>2. CASE UNCHANGED history
        BY <1>1, <2>1, <2>2 DEF HistoryType, history
    <2>3. CASE CancelWrites(a)
        <3>1. exec[a] \in Execution
            BY <1>1, <2>3 DEF CancelWrites, StartersFit, Cancels
        <3> QED BY <1>1, <2>1, <2>3, <3>1 DEF CancelWrites, Overtaken, HistoryType
    <2> QED BY <2>1, <2>2, <2>3 DEF CancelLooks, CancelRemoves, CancelReads
<1>4. events' \in 0..MaxEvents
    <2>1. UNCHANGED events \/ Event("cancel")
        BY DEF CancelLooks, CancelRemoves, CancelWrites, CancelReads
    <2> QED BY <1>1, <2>1, EventsCounted DEF StartsType
<1>5. ASSUME NEW e \in Execution, CancelReads(a, e) PROVE JobInv'
    <2>1. /\ StartersType' /\ UNCHANGED executions /\ row[e] # "none" /\ step'[a] = "look"
          /\ exec'[a] = e
        BY <1>1, <1>5 DEF CancelReads, Takes, StartersType, Open
    <2>2. ExecutionsType' /\ \A f \in Execution : job'[f] = job[f] /\ row'[f] = row[f] /\ of'[f] = of[f]
        BY <1>1, <2>1 DEF ExecutionsType, executions
    <2>3. StartersFit'
        BY <1>1, <1>2, <2>1, <2>2, OneStarterFits
    <2> QED BY <1>2, <1>3, <1>4, <2>1, <2>2, <2>3, StarterKeepsJobs
<1>6. CASE CancelLooks(a) \/ CancelRemoves(a) \/ CancelWrites(a)
    <2>1. /\ step[a] \in {"look", "remove", "write"} /\ exec[a] \in Execution
          /\ row[exec[a]] # "none"
        BY <1>1, <1>6 DEF CancelLooks, CancelRemoves, CancelWrites, StartersFit, Cancels
    <2>2. PICK e \in Execution : e = exec[a] /\ row[e] # "none"
        BY <2>1
    <2>3. CASE CancelLooks(a)
        <3>1. /\ UNCHANGED executions /\ exec' = exec
              /\ step'[a] = (IF job[e] \in {"missing", "active"} THEN "write" ELSE "remove")
              /\ note'[a] = (IF job[e] = "active" THEN "cancelling" ELSE "cancelled")
            BY <1>1, <2>2, <2>3 DEF CancelLooks, Takes, StartersType
        <3>2. StartersType'
            BY <1>1, <2>3 DEF CancelLooks, Takes, StartersType
        <3>3. ExecutionsType' /\ \A f \in Execution : job'[f] = job[f] /\ row'[f] = row[f] /\ of'[f] = of[f]
            BY <1>1, <3>1 DEF ExecutionsType, executions
        <3>4. StartersFit'
            BY <1>1, <1>2, <2>1, <3>1, <3>3, OneStarterFits
        <3> QED BY <1>2, <1>3, <1>4, <3>2, <3>3, <3>4, StarterKeepsJobs
    <2>4. CASE (CancelRemoves(a) /\ job[e] = "active") \/ CancelWrites(a)
        <3>1. /\ Rests(a) /\ UNCHANGED job
              /\ row' = row \/ row' = [row EXCEPT ![e] = note[a]]
              /\ row' = row \/ note[a] \in {"cancelling", "cancelled"}
            BY <1>1, <2>2, <2>4 DEF CancelRemoves, CancelWrites, SetRow, StartersFit
        <3>2. ExecutionsType'
            BY <1>1, <1>2, <3>1 DEF ExecutionsType, Finished, Open
        <3>3. /\ \A f \in Execution : row[f] # "none" => row'[f] # "none"
              /\ \A f \in Execution : row'[f] = "none" => row[f] = "none" /\ of'[f] = of[f]
            BY <1>1, <1>2, <2>2, <3>1 DEF ExecutionsType
        <3>4. StartersType' /\ step'[a] = "idle" /\ slot'[a] = 0
            BY <1>1, <3>1, RestsTyped
        <3>5. StartersFit'
            BY <1>1, <1>2, <3>3, <3>4, OneStarterFits
        <3> QED BY <1>2, <1>3, <1>4, <3>1, <3>2, <3>3, <3>4, <3>5, StarterKeepsJobs
    <2>5. CASE CancelRemoves(a) /\ job[e] # "active"
        <3>1. /\ job' = [job EXCEPT ![e] = "missing"] /\ UNCHANGED <<row, exec, note>>
              /\ step[a] = "remove" /\ StartersType' /\ step'[a] = "write"
            BY <1>1, <2>2, <2>5 DEF CancelRemoves, Takes, SetJob, StartersType
        <3>2. ExecutionsType'
            BY <1>1, <1>2, <3>1 DEF ExecutionsType, JobStates
        <3>3. note'[a] = "cancelled" /\ exec'[a] \in Execution /\ row'[exec'[a]] # "none"
            BY <1>1, <2>1, <3>1 DEF StartersFit
        <3>4. StartersFit'
            BY <1>1, <1>2, <3>1, <3>3, OneStarterFits
        <3>5. \A f \in Execution : job'[f] = job[f] \/ (job[f] # "active" /\ job'[f] = "missing")
            BY <1>1, <2>5, <3>1 DEF ExecutionsType
        <3> QED BY <1>2, <1>3, <1>4, <3>1, <3>2, <3>4, <3>5, StarterKeepsJobs
    <2> QED BY <1>6, <2>3, <2>4, <2>5
<1> QED BY <1>5, <1>6

\* Whoever moves jobs that are there, and writes rows that are there, leaves the
\* starters alone.
LEMMA OthersKeepStarters ==
    ASSUME JobInv, UNCHANGED starters, UNCHANGED of, 
           \A e \in Execution : row'[e] = "none" <=> row[e] = "none",
           \A e \in Execution : row[e] = "none" => listed'[e] \in {"no", listed[e]},
           \A e \in Execution : (job'[e] = job[e] /\ tries'[e] = tries[e]) \/ job[e] # "missing"
    PROVE  AddersFit' /\ StartersFit'
<1>1. AddersFit /\ StartersFit /\ StartersType
    BY TypeGroups DEF JobInv
<1>2. StartersFit'
    BY <1>1 DEF StartersFit, Adds, Cancels, starters
<1>3. \A a \in Starter : (Adds(a)' <=> Adds(a)) /\ exec'[a] = exec[a]
    BY DEF Adds, starters
<1>4. ASSUME NEW a \in Starter, Adds(a)
      PROVE  job'[exec[a]] = "missing" /\ tries'[exec[a]] = 0
    <2>1. PICK e \in Execution : e = exec[a]
        BY <1>1, <1>4 DEF StartersFit
    <2>2. job[e] = "missing" /\ tries[e] = 0
        BY <1>1, <1>4, <2>1 DEF AddersFit
    <2> QED BY <2>1, <2>2
<1>5. \A e \in Execution : row'[e] = "none" =>
          of'[e] = None /\ job'[e] = "missing" /\ tries'[e] = 0 /\ listed'[e] = "no"
    BY <1>1 DEF AddersFit
<1> QED BY <1>1, <1>2, <1>3, <1>4, <1>5 DEF AddersFit

\* What a runner attends to has a row and a job.
LEMMA AttendedTo ==
    ASSUME JobInv, NEW r \in Runner, pc[r] # "idle"
    PROVE  /\ at[r] \in Execution /\ job[at[r]] = "active" /\ row[at[r]] # "none"
           /\ tries[at[r]] \in 0..Attempts - 1
<1>1. ExecutionsType /\ RunnersType /\ JobsHeld /\ AddersFit
    BY TypeGroups DEF JobInv
<1>2. at[r] \in Execution /\ job[at[r]] = "active"
    BY <1>1 DEF JobsHeld, RunnersType
<1>3. PICK e \in Execution : e = at[r] /\ job[e] = "active"
    BY <1>2
<1>4. tries[e] \in 0..Attempts /\ tries[e] < Attempts /\ row[e] # "none"
    BY <1>1, <1>3 DEF ExecutionsType, JobsHeld, AddersFit
<1> QED BY <1>3, <1>4, ScheduleAssumption

\* A runner fetches a waiting job, and leaves it when it reports its outcome.
LEMMA RunnerJobInv ==
    ASSUME JobInv, NEW r \in Runner,
           RunnerStep(r) \/ Poll(r) \/ Throw(r) \/ \E e \in Execution : Fetch(r, e)
    PROVE  JobInv'
<1>1. /\ TasksType /\ StartersType /\ ExecutionsType /\ RunnersType /\ StartsType /\ HistoryType
      /\ JobsHeld /\ AddersFit /\ StartersFit
    BY TypeGroups DEF JobInv
<1>2. UNCHANGED <<tasks, starters, starts, of, occurrence, stalls>>
    BY DEF RunnerStep, Read, Start, Answer, Record, Report, Poll, Throw, Fetch, executions
<1>3. TasksType' /\ StartersType'
    BY <1>1, <1>2 DEF TasksType, tasks, StartersType, starters
<1>4. StartsType'
    <2>1. UNCHANGED events \/ Event("error")
        BY DEF RunnerStep, Read, Start, Answer, Record, Report, Poll, Throw, Fetch
    <2> QED BY <1>1, <1>2, <2>1, EventsCounted DEF StartsType, starts
<1>5. HistoryType'
    <2>1. CASE UNCHANGED history
        BY <1>1, <2>1 DEF HistoryType, history
    <2>2. CASE Throw(r)
        <3>1. at[r] \in Execution
            BY <2>2, AttendedTo DEF Throw
        <3> QED BY <1>1, <2>2, <3>1 DEF Throw, Strand, HistoryType
    <2> QED BY <2>1, <2>2 DEF RunnerStep, Read, Start, Answer, Record, Report, Poll, Fetch
<1>6. CASE \E e \in Execution : Fetch(r, e)
    <2>1. PICK e \in Execution :
              /\ pc[r] = "idle" /\ job[e] = "waiting" /\ job' = [job EXCEPT ![e] = "active"]
              /\ pc' = [pc EXCEPT ![r] = "read"] /\ at' = [at EXCEPT ![r] = e]
              /\ UNCHANGED <<row, tries, aborted>>
        BY <1>6 DEF Fetch, SetJob, Goto
    <2>2. ExecutionsType' /\ RunnersType'
        BY <1>1, <1>2, <2>1 DEF ExecutionsType, RunnersType, JobStates
    <2>3. JobsHeld'
        <3>1. \A q \in Runner : at[q] # e
            BY <1>1, <2>1, ScheduleAssumption DEF JobsHeld
        <3>2. ASSUME NEW q \in Runner \ {r}, at[q] # None PROVE job'[at[q]] = "active"
            <4>1. PICK f \in Execution \ {e} : f = at[q] /\ job[f] = "active"
                BY <1>1, <3>1, <3>2 DEF JobsHeld, RunnersType
            <4> QED BY <1>1, <2>1, <4>1 DEF ExecutionsType
        <3>3. \A f \in Execution : job'[f] \in {"waiting", "active"} => tries'[f] < Attempts
            BY <1>1, <2>1 DEF JobsHeld, ExecutionsType
        <3> QED BY <1>1, <2>1, <3>1, <3>2, <3>3, ScheduleAssumption
                DEF JobsHeld, RunnersType, ExecutionsType
    <2>4. \A f \in Execution : (job'[f] = job[f] /\ tries'[f] = tries[f]) \/ job[f] # "missing"
        BY <1>1, <2>1 DEF ExecutionsType
    <2>5. AddersFit' /\ StartersFit'
        BY <1>2, <2>1, <2>4, OthersKeepStarters DEF starts
    <2> QED BY <1>3, <1>4, <1>5, <2>2, <2>3, <2>5, NextJobInvGroups
<1>7. CASE Read(r) \/ Start(r) \/ Answer(r) \/ Record(r) \/ Poll(r) \/ Throw(r)
    <2>1. pc[r] # "idle"
        BY <1>7 DEF Read, Start, Answer, Record, Poll, Throw
    <2>2. PICK e \in Execution : e = at[r] /\ row[e] # "none"
        BY <2>1, AttendedTo
    <2>3. /\ UNCHANGED <<job, tries, at>> /\ aborted' \subseteq Runner
          /\ \/ pc' = pc
             \/ \E l \in {"start", "call", "ok", "error", "done", "threw"} : pc' = [pc EXCEPT ![r] = l]
          /\ row' = row \/ \E s \in Finished \cup Open : row' = [row EXCEPT ![e] = s]
        BY <1>1, <1>7, <2>2 DEF Read, Start, Answer, Record, Poll, Throw, Goto, SetRow, Outcome,
           FailedStatus, executions, RunnersType, Finished, Open
    <2>4. ExecutionsType' /\ RunnersType'
        BY <1>1, <1>2, <2>3 DEF ExecutionsType, RunnersType
    <2>5. JobsHeld'
        <3>1. \A q \in Runner : (pc'[q] = "idle" <=> pc[q] = "idle") /\ at'[q] = at[q]
            BY <1>1, <2>1, <2>3 DEF RunnersType
        <3> QED BY <1>1, <2>3, <3>1 DEF JobsHeld
    <2>6. \A f \in Execution : row'[f] = "none" <=> row[f] = "none"
        BY <1>1, <2>2, <2>3 DEF ExecutionsType, Finished, Open
    <2>7. AddersFit' /\ StartersFit'
        BY <1>2, <2>3, <2>6, OthersKeepStarters DEF starts
    <2> QED BY <1>3, <1>4, <1>5, <2>4, <2>5, <2>7, NextJobInvGroups
<1>8. CASE Report(r)
    <2>1. pc[r] # "idle"
        BY <1>8 DEF Report
    <2>2. PICK e \in Execution : e = at[r] /\ job[e] = "active" /\ tries[e] \in 0..Attempts - 1
        BY <2>1, AttendedTo
    <2>3. PICK s \in {"completed", "failed", "waiting"} :
              job' = [job EXCEPT ![e] = s] /\ (s = "waiting" => ~FinalAttempt(e))
        BY <1>8, <2>2 DEF Report, SetJob
    <2>4. s = "waiting" => tries[e] + 1 < Attempts
        BY <2>2, <2>3, ScheduleAssumption DEF FinalAttempt
    <2>5. /\ pc' = [pc EXCEPT ![r] = "idle"] /\ at' = [at EXCEPT ![r] = None]
          /\ aborted' = aborted \ {r} /\ tries' = [tries EXCEPT ![e] = @ + 1]
          /\ UNCHANGED row
        BY <1>8, <2>2 DEF Report, Goto
    <2>6. ExecutionsType' /\ RunnersType'
        BY <1>1, <1>2, <2>2, <2>3, <2>5, ScheduleAssumption DEF ExecutionsType, RunnersType, JobStates
    <2>7. JobsHeld'
        <3>1. \A q \in Runner \ {r} : at[q] # e
            BY <1>1, <2>2, ScheduleAssumption DEF JobsHeld
        <3>2. ASSUME NEW q \in Runner \ {r}, at[q] # None PROVE job'[at[q]] = "active"
            <4>1. PICK f \in Execution \ {e} : f = at[q] /\ job[f] = "active"
                BY <1>1, <3>1, <3>2 DEF JobsHeld, RunnersType
            <4> QED BY <1>1, <2>3, <4>1 DEF ExecutionsType
        <3>3. ASSUME NEW f \in Execution, job'[f] \in {"waiting", "active"}
              PROVE  tries'[f] < Attempts
            <4>1. CASE f = e
                BY <1>1, <2>2, <2>3, <2>4, <2>5, <3>3, <4>1 DEF ExecutionsType
            <4>2. CASE f # e
                BY <1>1, <2>3, <2>5, <3>3, <4>2 DEF ExecutionsType, JobsHeld
            <4> QED BY <4>1, <4>2
        <3>4. \A q \in Runner : at'[q] = None <=> pc'[q] = "idle"
            BY <1>1, <2>5 DEF JobsHeld, RunnersType
        <3>5. \A q \in Runner : at'[q] # None => q # r /\ at'[q] = at[q]
            BY <1>1, <2>5 DEF RunnersType
        <3> QED BY <1>1, <3>2, <3>3, <3>4, <3>5 DEF JobsHeld
    <2>8. \A f \in Execution : (job'[f] = job[f] /\ tries'[f] = tries[f]) \/ job[f] # "missing"
        BY <1>1, <2>2, <2>3, <2>5 DEF ExecutionsType
    <2>9. AddersFit' /\ StartersFit'
        BY <1>2, <2>5, <2>8, OthersKeepStarters DEF starts
    <2> QED BY <1>3, <1>4, <1>5, <2>6, <2>7, <2>9, NextJobInvGroups
<1> QED BY <1>6, <1>7, <1>8 DEF RunnerStep

\* A job goes back to the queue, or fails, only when its runner has died; the
\* reconciliation writes rows that are there.
LEMMA ExecutionJobInv ==
    ASSUME JobInv, NEW e \in Execution, ExecutionStep(e)
    PROVE  JobInv'
<1>1. /\ TasksType /\ StartersType /\ ExecutionsType /\ RunnersType /\ StartsType /\ HistoryType
      /\ JobsHeld /\ AddersFit /\ StartersFit
    BY TypeGroups DEF JobInv
<1>2. UNCHANGED <<tasks, starters, runners, of, occurrence, tries, replicas, events>>
    BY DEF ExecutionStep, Stalled, ReconcileLooks, ReconcileWrites, executions, starts
<1>3. TasksType' /\ StartersType' /\ RunnersType'
    BY <1>1, <1>2 DEF TasksType, tasks, StartersType, starters, RunnersType, runners
<1>4. StartsType'
    BY <1>1, <1>2 DEF ExecutionStep, Stalled, ReconcileLooks, ReconcileWrites, StartsType, starts
<1>5. HistoryType'
    BY <1>1 DEF ExecutionStep, Stalled, ReconcileLooks, ReconcileWrites, HistoryType, history,
       Strand, Overtaken
<1>6. /\ row' = row \/ (row[e] # "none" /\ \E s \in {"queued", "failed"} : row' = [row EXCEPT ![e] = s])
      /\ job' = job \/ (job[e] = "active" /\ \E s \in {"waiting", "failed"} : job' = [job EXCEPT ![e] = s])
      /\ job' # job => \A r \in Runner : at[r] # e
      /\ stalls' \in [Execution -> 0..MaxStalls]
    <2>1. CASE Stalled(e)
        BY <1>1, <2>1 DEF Stalled, SetJob, ExecutionsType, MaxStalls
    <2>2. CASE ReconcileLooks(e)
        BY <1>1, <2>2 DEF ReconcileLooks, ExecutionsType, executions
    <2>3. CASE ReconcileWrites(e)
        <3>1. row[e] # "none"
            BY <1>1, <2>3 DEF ReconcileWrites, AddersFit
        <3> QED BY <1>1, <2>3, <3>1 DEF ReconcileWrites, SetRow, ExecutionsType
    <2> QED BY <2>1, <2>2, <2>3 DEF ExecutionStep
<1>7. ExecutionsType'
    BY <1>1, <1>2, <1>6 DEF ExecutionsType, JobStates, Finished, Open
<1>8. JobsHeld'
    <2>1. ASSUME NEW r \in Runner, at[r] # None PROVE job'[at[r]] = "active"
        <3>1. PICK f \in Execution : f = at[r] /\ job[f] = "active"
            BY <1>1, <2>1 DEF JobsHeld, RunnersType
        <3> QED BY <1>1, <1>6, <3>1 DEF ExecutionsType
    <2>2. \A f \in Execution : job'[f] \in {"waiting", "active"} => job[f] \in {"waiting", "active"}
        BY <1>1, <1>6 DEF ExecutionsType
    <2> QED BY <1>1, <1>2, <2>1, <2>2 DEF JobsHeld, runners
<1>9. AddersFit' /\ StartersFit'
    <2>1. \A f \in Execution : row'[f] = "none" <=> row[f] = "none"
        BY <1>1, <1>6 DEF ExecutionsType
    <2>2. \A f \in Execution : job'[f] = job[f] \/ job[f] # "missing"
        BY <1>1, <1>6 DEF ExecutionsType
    <2>3. \A f \in Execution : row[f] = "none" => listed'[f] \in {"no", listed[f]}
        <3>1. ExecutionStep(e) => \/ listed' = listed
                                  \/ listed[e] # "no" /\ \E s \in {"no", "queued", "failed"} :
                                         listed' = [listed EXCEPT ![e] = s]
            BY DEF ExecutionStep, Stalled, ReconcileLooks, ReconcileWrites, starts
        <3> QED BY <1>1, <3>1 DEF AddersFit, StartsType
    <2> QED BY <1>2, <2>1, <2>2, <2>3, OthersKeepStarters
<1> QED BY <1>3, <1>4, <1>5, <1>7, <1>8, <1>9, NextJobInvGroups

\* Time, deaths and starts of replicas.
LEMMA ReplicaJobInv ==
    ASSUME JobInv,
           \/ Tick \/ StartReplica \/ UNCHANGED vars
           \/ \E a \in Starter, R \in SUBSET Runner, L \in SUBSET Execution : Crash(a, R, L)
    PROVE  JobInv'
<1>1. /\ TasksType /\ StartersType /\ ExecutionsType /\ RunnersType /\ StartsType /\ HistoryType
      /\ JobsHeld /\ AddersFit /\ StartersFit
    BY TypeGroups DEF JobInv
<1>2. CASE Tick \/ UNCHANGED vars
    <2>1. TasksType'
        BY <1>1, <1>2, ScheduleAssumption DEF Tick, vars, tasks, TasksType
    <2>2. UNCHANGED <<starters, executions, runners, starts, history, events>>
        BY <1>2 DEF Tick, vars
    <2>3. /\ StartersType' /\ ExecutionsType' /\ RunnersType' /\ StartsType' /\ HistoryType'
          /\ JobsHeld' /\ AddersFit' /\ StartersFit'
        BY <1>1, <2>2 DEF StartersType, ExecutionsType, RunnersType, StartsType,
           HistoryType, JobsHeld, AddersFit, StartersFit, Adds, Cancels, starters, executions,
           runners, starts, history
    <2> QED BY <2>1, <2>3, NextJobInvGroups
<1>3. CASE StartReplica
    <2>1. UNCHANGED <<tasks, starters, executions, runners, rearmed, overtaken>>
        BY <1>3 DEF StartReplica
    <2>2. stranded' \subseteq stranded
        BY <1>3 DEF StartReplica
    <2>3. events' \in 0..MaxEvents
        BY <1>1, <1>3, EventsCounted DEF StartReplica, StartsType
    <2>4. StartsType'
        BY <1>1, <1>3, <2>3 DEF StartReplica, StartsType
    <2>5. /\ TasksType' /\ StartersType' /\ ExecutionsType' /\ RunnersType' /\ HistoryType'
          /\ JobsHeld'
        BY <1>1, <2>1, <2>2 DEF TasksType, StartersType, ExecutionsType, RunnersType,
           HistoryType, JobsHeld, tasks, starters, executions, runners
    <2>6. \A e \in Execution : row[e] = "none" => listed'[e] \in {"no", listed[e]}
        BY <1>3 DEF StartReplica, NewlyListed
    <2>7. AddersFit' /\ StartersFit'
        BY <2>1, <2>6, OthersKeepStarters DEF executions
    <2> QED BY <2>4, <2>5, <2>7, NextJobInvGroups
<1>4. ASSUME NEW a \in Starter, NEW R \in SUBSET Runner, NEW L \in SUBSET Execution, Crash(a, R, L)
      PROVE  JobInv'
    <2>1. UNCHANGED <<tasks, executions, history>> /\ Rests(a)
        BY <1>4 DEF Crash
    <2>2. /\ StartersType' /\ step'[a] = "idle" /\ slot'[a] = 0
          /\ \A b \in Starter \ {a} :
                /\ step'[b] = step[b] /\ about'[b] = about[b] /\ slot'[b] = slot[b]
                /\ planned'[b] = planned[b] /\ exec'[b] = exec[b] /\ note'[b] = note[b]
        BY <1>1, <2>1, RestsTyped
    <2>3. StartersFit'
        BY <1>1, <2>1, <2>2, OneStarterFits DEF executions
    <2>4. events' \in 0..MaxEvents
        BY <1>1, <1>4, EventsCounted DEF Crash
    <2>5. StartsType' /\ RunnersType'
        BY <1>1, <1>4, <2>4 DEF Crash, StartsType, RunnersType
    <2>6. TasksType' /\ ExecutionsType' /\ HistoryType'
        BY <1>1, <2>1 DEF TasksType, ExecutionsType, HistoryType, tasks, executions, history
    <2>7. JobsHeld'
        <3>1. \A r \in Runner : \/ at'[r] = at[r] /\ pc'[r] = pc[r]
                                \/ at'[r] = None /\ pc'[r] = "idle"
            BY <1>4 DEF Crash
        <3> QED BY <1>1, <2>1, <3>1 DEF JobsHeld, executions
    <2>8. AddersFit'
        <3>1. \A b \in Starter : Adds(b)' => b # a /\ Adds(b) /\ exec'[b] = exec[b]
            BY <2>2 DEF Adds
        <3>2. \A e \in Execution : listed'[e] \in {"no", listed[e]}
            BY <1>4 DEF Crash
        <3> QED BY <1>1, <2>1, <3>1, <3>2 DEF AddersFit, executions
    <2> QED BY <2>2, <2>3, <2>5, <2>6, <2>7, <2>8, NextJobInvGroups
<1> QED BY <1>2, <1>3, <1>4

\* No step leaves the invariant.
LEMMA NextJobInv == JobInv /\ [Next]_vars => JobInv'
BY TaskJobInv, ClaimJobInv, EnqueueJobInv, CancelJobInv, RunnerJobInv, ExecutionJobInv,
   ReplicaJobInv DEF Next, StarterStep, RequestBegins

\* The types and the division of work hold in every behaviour.
LEMMA JobInvAlways == Spec => []JobInv
BY InitJobInv, NextJobInv, PTL DEF Spec

\* Every variable keeps its type; above all, a job is not tried more often than
\* maxRetries + 1 times, though it is redelivered after a death.
THEOREM TypeCorrect == Spec => []TypeOK
BY JobInvAlways, PTL DEF JobInv

-------------------------------------------------------------------------------
(* Occurrences *)

(***************************************************************************)
(* What has been claimed lies behind the due time of its task, however old *)
(* the next run is that a dispatcher writes, for it claims only what lies  *)
(* before it.  So a claim finds an occurrence that nobody has yet.  A user *)
(* who enables a task may set the due time back: `rearmed' has those.      *)
(***************************************************************************)
Claimed(a) == step[a] \in {"check", "insert"} /\ slot[a] # 0
Scheduled(e) == of[e] # None /\ occurrence[e] # 0
Behind(t, k) == <<t, k>> \in rearmed \/ (next[t] # None => k < next[t])

OccurrenceInv ==
    /\ \A a \in Starter : Claimed(a) => Behind(about[a], slot[a])
    /\ \A e \in Execution : Scheduled(e) => Behind(of[e], occurrence[e])
    /\ \A a, b \in Starter :
          Claimed(a) /\ Claimed(b) /\ about[a] = about[b] /\ slot[a] = slot[b]
              => a = b \/ <<about[a], slot[a]>> \in rearmed
    /\ \A e, f \in Execution :
          Scheduled(e) /\ Scheduled(f) /\ of[e] = of[f] /\ occurrence[e] = occurrence[f]
              => e = f \/ <<of[e], occurrence[e]>> \in rearmed
    /\ \A a \in Starter, e \in Execution :
          Claimed(a) /\ Scheduled(e) /\ about[a] = of[e] /\ slot[a] = occurrence[e]
              => <<about[a], slot[a]>> \in rearmed

\* Nothing is claimed at first.
LEMMA InitOccurrenceInv == Init => OccurrenceInv
BY ScheduleAssumption DEF Init, OccurrenceInv, Claimed, Scheduled

\* A step that forgets claims, and leaves due times and executions alone.
LEMMA ForgettingKeepsOccurrences ==
    ASSUME OccurrenceInv, UNCHANGED <<next, of, occurrence, rearmed>>,
           \A a \in Starter : Claimed(a)' =>
               Claimed(a) /\ about'[a] = about[a] /\ slot'[a] = slot[a]
    PROVE  OccurrenceInv'
<1>1. \A e \in Execution : Scheduled(e)' <=> Scheduled(e)
    BY DEF Scheduled
<1>2. \A a \in Starter : Claimed(a)' => Behind(about[a], slot[a])'
    <2>1. ASSUME NEW a \in Starter, Claimed(a)' PROVE Behind(about[a], slot[a])'
        <3>1. Behind(about[a], slot[a]) /\ about'[a] = about[a] /\ slot'[a] = slot[a]
            BY <2>1 DEF OccurrenceInv
        <3> QED BY <3>1 DEF Behind
    <2> QED BY <2>1
<1>3. \A e \in Execution : Scheduled(e)' => Behind(of[e], occurrence[e])'
    BY <1>1 DEF OccurrenceInv, Behind
<1>4. \A a, b \in Starter :
          Claimed(a)' /\ Claimed(b)' /\ about'[a] = about'[b] /\ slot'[a] = slot'[b]
              => a = b \/ <<about'[a], slot'[a]>> \in rearmed'
    BY DEF OccurrenceInv
<1>5. \A e, f \in Execution :
          Scheduled(e)' /\ Scheduled(f)' /\ of'[e] = of'[f] /\ occurrence'[e] = occurrence'[f]
              => e = f \/ <<of'[e], occurrence'[e]>> \in rearmed'
    BY <1>1 DEF OccurrenceInv
<1>6. \A a \in Starter, e \in Execution :
          Claimed(a)' /\ Scheduled(e)' /\ about'[a] = of'[e] /\ slot'[a] = occurrence'[e]
              => <<about'[a], slot'[a]>> \in rearmed'
    BY <1>1 DEF OccurrenceInv
<1> QED BY <1>2, <1>3, <1>4, <1>5, <1>6 DEF OccurrenceInv

\* Users and time: a due time that is set back rearms what lies at or after it.
LEMMA TaskKeepsOccurrences ==
    ASSUME JobInv, OccurrenceInv,
           (\E t \in Task : TaskStep(t)) \/ \E a \in Starter : ChangeStatus(a)
    PROVE  OccurrenceInv'
<1>1. TasksType /\ StartersType /\ ExecutionsType /\ HistoryType /\ StartersFit
    BY TypeGroups DEF JobInv
<1>2. /\ UNCHANGED <<of, occurrence>> /\ rearmed \subseteq rearmed'
      /\ \A a \in Starter : Claimed(a)' =>
             Claimed(a) /\ about'[a] = about[a] /\ slot'[a] = slot[a]
    <2>1. ASSUME NEW t \in Task, TaskStep(t)
          PROVE  UNCHANGED <<starters, of, occurrence, rearmed>>
        BY <2>1 DEF TaskStep, Approve, Reject, Expire, executions, history
    <2>2. ASSUME NEW a \in Starter, ChangeStatus(a)
          PROVE  UNCHANGED <<of, occurrence>> /\ rearmed \subseteq rearmed' /\ Rests(a)
        BY <2>2 DEF ChangeStatus, Rearmed, executions
    <2>3. CASE \E t \in Task : TaskStep(t)
        BY <2>1, <2>3 DEF Claimed, starters
    <2>4. CASE \E a \in Starter : ChangeStatus(a)
        <3>1. PICK a \in Starter : ChangeStatus(a)
            BY <2>4
        <3> QED BY <1>1, <2>2, <3>1, RestsTyped DEF Claimed
    <2> QED BY <2>3, <2>4
<1>3. ASSUME NEW t \in Task, NEW k \in 1..MaxTime, Behind(t, k),
             \/ \E b \in Starter : Claimed(b) /\ about[b] = t /\ slot[b] = k
             \/ \E e \in Execution : Scheduled(e) /\ of[e] = t /\ occurrence[e] = k
      PROVE  Behind(t, k)'
    <2>1. CASE next'[t] \in {next[t], None}
        BY <1>2, <1>3, <2>1 DEF Behind
    <2>2. CASE next'[t] \notin {next[t], None}
        <3>1. PICK a \in Starter : ChangeStatus(a) /\ t = about[a] /\ next'[t] = planned[a]
            <4>1. ASSUME NEW u \in Task, TaskStep(u) PROVE FALSE
                BY <1>1, <2>2, <4>1 DEF TaskStep, Approve, Reject, Expire, TasksType
            <4> QED BY <1>1, <2>2, <4>1 DEF ChangeStatus, TasksType
        <3>2. planned[a] # None /\ planned[a] \in 0..MaxTime + 1
            BY <1>1, <2>2, <3>1 DEF StartersType
        <3>3. Claims(t, k) \cup Runs(t, k) # {}
            BY <1>3 DEF Claims, Runs, Claimed
        <3>4. planned[a] <= k => <<t, k>> \in rearmed'
            BY <3>1, <3>2, <3>3 DEF ChangeStatus, Rearmed
        <3> QED BY <3>1, <3>2, <3>4 DEF Behind
    <2> QED BY <2>1, <2>2
<1>4. \A e \in Execution : Scheduled(e)' <=> Scheduled(e)
    BY <1>2 DEF Scheduled
<1>5. \A a \in Starter : Claimed(a) => about[a] \in Task /\ slot[a] \in 1..MaxTime
    BY <1>1, ScheduleAssumption DEF Claimed, StartersFit, StartersType
<1>6. \A e \in Execution : Scheduled(e) => of[e] \in Task /\ occurrence[e] \in 1..MaxTime
    BY <1>1, ScheduleAssumption DEF Scheduled, ExecutionsType
<1>7. \A a \in Starter : Claimed(a)' => Behind(about[a], slot[a])'
    <2>1. ASSUME NEW a \in Starter, Claimed(a)' PROVE Behind(about[a], slot[a])'
        <3>1. PICK t \in Task, k \in 1..MaxTime :
                  /\ t = about[a] /\ k = slot[a] /\ Claimed(a) /\ Behind(t, k)
                  /\ t = about'[a] /\ k = slot'[a]
            BY <1>2, <1>5, <2>1 DEF OccurrenceInv
        <3>2. Behind(t, k)'
            BY <1>3, <3>1
        <3> QED BY <3>1, <3>2 DEF Behind
    <2> QED BY <2>1
<1>8. \A e \in Execution : Scheduled(e)' => Behind(of[e], occurrence[e])'
    <2>1. ASSUME NEW e \in Execution, Scheduled(e)' PROVE Behind(of[e], occurrence[e])'
        <3>1. PICK t \in Task, k \in 1..MaxTime :
                  /\ t = of[e] /\ k = occurrence[e] /\ Scheduled(e) /\ Behind(t, k)
                  /\ t = of'[e] /\ k = occurrence'[e]
            BY <1>2, <1>4, <1>6, <2>1 DEF OccurrenceInv
        <3>2. Behind(t, k)'
            BY <1>3, <3>1
        <3> QED BY <3>1, <3>2 DEF Behind
    <2> QED BY <2>1
<1>9. \A a, b \in Starter :
          Claimed(a)' /\ Claimed(b)' /\ about'[a] = about'[b] /\ slot'[a] = slot'[b]
              => a = b \/ <<about'[a], slot'[a]>> \in rearmed'
    BY <1>2 DEF OccurrenceInv
<1>10. \A e, f \in Execution :
          Scheduled(e)' /\ Scheduled(f)' /\ of'[e] = of'[f] /\ occurrence'[e] = occurrence'[f]
              => e = f \/ <<of'[e], occurrence'[e]>> \in rearmed'
    BY <1>2, <1>4 DEF OccurrenceInv
<1>11. \A a \in Starter, e \in Execution :
          Claimed(a)' /\ Scheduled(e)' /\ about'[a] = of'[e] /\ slot'[a] = occurrence'[e]
              => <<about'[a], slot'[a]>> \in rearmed'
    BY <1>2, <1>4 DEF OccurrenceInv
<1> QED BY <1>7, <1>8, <1>9, <1>10, <1>11 DEF OccurrenceInv

\* A claim takes the due time itself and moves it on.
LEMMA ClaimKeepsOccurrences ==
    ASSUME JobInv, OccurrenceInv, NEW a \in Starter, Claim(a), StillDue(a)
    PROVE  OccurrenceInv'
<1>1. TasksType /\ StartersType /\ ExecutionsType /\ HistoryType /\ StartersFit
    BY TypeGroups DEF JobInv
<1>2. PICK t \in Task : t = about[a] /\ step[a] = "claim"
    BY <1>1 DEF Claim, StartersFit
<1>3. planned[a] \in 0..MaxTime + 1 /\ next[t] \in 0..MaxTime /\ next[t] < planned[a]
    BY <1>1, <1>2, ScheduleAssumption DEF StillDue, StartersFit, StartersType, TasksType
<1>4. PICK k \in 0..MaxTime : k = next[t]
    BY <1>3
<1>5. /\ slot' = [slot EXCEPT ![a] = k] /\ about' = about /\ step' = [step EXCEPT ![a] = "check"]
      /\ UNCHANGED <<of, occurrence, rearmed>>
      /\ next' = [next EXCEPT ![t] = NextRun(a)] /\ NextRun(a) \in {planned[a], None}
    BY <1>2, <1>4 DEF Claim, Takes, NextRun, executions, history
<1>6. \A b \in Starter \ {a} : (Claimed(b)' <=> Claimed(b)) /\ about'[b] = about[b] /\ slot'[b] = slot[b]
    BY <1>5 DEF Claimed
<1>7. \A e \in Execution : Scheduled(e)' <=> Scheduled(e)
    BY <1>5 DEF Scheduled
<1>8. slot'[a] = k /\ about'[a] = t
    BY <1>1, <1>2, <1>5 DEF StartersType
<1>9. ASSUME NEW u \in Task, NEW j \in Nat, Behind(u, j) PROVE Behind(u, j)'
    <2>1. CASE u = t
        <3>1. <<u, j>> \in rearmed \/ j < k
            BY <1>3, <1>4, <1>9, <2>1, ScheduleAssumption DEF Behind
        <3>2. next'[t] # None => next'[t] = planned[a]
            BY <1>1, <1>5 DEF TasksType
        <3> QED BY <1>3, <1>4, <1>5, <2>1, <3>1, <3>2 DEF Behind
    <2>2. CASE u # t
        BY <1>1, <1>5, <1>9, <2>2 DEF Behind, TasksType
    <2> QED BY <2>1, <2>2
<1>10. Behind(t, k)'
    <2>1. next'[t] # None => next'[t] = planned[a]
        BY <1>1, <1>5 DEF TasksType
    <2> QED BY <1>3, <1>4, <2>1 DEF Behind
<1>11. \A b \in Starter : Claimed(b) => about[b] \in Task /\ slot[b] \in Nat /\ Behind(about[b], slot[b])
    BY <1>1, ScheduleAssumption DEF Claimed, StartersFit, StartersType, OccurrenceInv
<1>12. \A e \in Execution : Scheduled(e) => of[e] \in Task /\ occurrence[e] \in Nat /\ Behind(of[e], occurrence[e])
    BY <1>1, ScheduleAssumption DEF Scheduled, ExecutionsType, OccurrenceInv
<1>13. ASSUME Behind(t, k) PROVE <<t, k>> \in rearmed
    BY <1>3, <1>4, <1>13, ScheduleAssumption DEF Behind
<1>14. \A b \in Starter : Claimed(b)' => Behind(about[b], slot[b])'
    <2>1. ASSUME NEW b \in Starter \ {a}, Claimed(b)' PROVE Behind(about[b], slot[b])'
        <3>1. PICK u \in Task, j \in Nat : u = about[b] /\ j = slot[b] /\ Behind(u, j)
                  /\ u = about'[b] /\ j = slot'[b]
            BY <1>6, <1>11, <2>1
        <3>2. Behind(u, j)'
            BY <1>9, <3>1
        <3> QED BY <3>1, <3>2 DEF Behind
    <2>2. Behind(about[a], slot[a])'
        BY <1>8, <1>10 DEF Behind
    <2> QED BY <2>1, <2>2
<1>15. \A e \in Execution : Scheduled(e)' => Behind(of[e], occurrence[e])'
    <2>1. ASSUME NEW e \in Execution, Scheduled(e)' PROVE Behind(of[e], occurrence[e])'
        <3>1. PICK u \in Task, j \in Nat : u = of[e] /\ j = occurrence[e] /\ Behind(u, j)
                  /\ u = of'[e] /\ j = occurrence'[e]
            BY <1>5, <1>7, <1>12, <2>1
        <3>2. Behind(u, j)'
            BY <1>9, <3>1
        <3> QED BY <3>1, <3>2 DEF Behind
    <2> QED BY <2>1
<1>16. \A b \in Starter \ {a} : Claimed(b)' /\ about'[b] = t /\ slot'[b] = k => <<t, k>> \in rearmed'
    BY <1>5, <1>6, <1>11, <1>13
<1>17. \A e \in Execution : Scheduled(e)' /\ of'[e] = t /\ occurrence'[e] = k => <<t, k>> \in rearmed'
    BY <1>5, <1>7, <1>12, <1>13
<1>18. \A b, c \in Starter :
          Claimed(b)' /\ Claimed(c)' /\ about'[b] = about'[c] /\ slot'[b] = slot'[c]
              => b = c \/ <<about'[b], slot'[b]>> \in rearmed'
    BY <1>5, <1>6, <1>8, <1>16 DEF OccurrenceInv
<1>19. \A e, f \in Execution :
          Scheduled(e)' /\ Scheduled(f)' /\ of'[e] = of'[f] /\ occurrence'[e] = occurrence'[f]
              => e = f \/ <<of'[e], occurrence'[e]>> \in rearmed'
    BY <1>5, <1>7 DEF OccurrenceInv
<1>20. \A b \in Starter, e \in Execution :
          Claimed(b)' /\ Scheduled(e)' /\ about'[b] = of'[e] /\ slot'[b] = occurrence'[e]
              => <<about'[b], slot'[b]>> \in rearmed'
    BY <1>5, <1>6, <1>7, <1>8, <1>17 DEF OccurrenceInv
<1> QED BY <1>14, <1>15, <1>18, <1>19, <1>20 DEF OccurrenceInv

\* An insert turns a claim into an execution.
LEMMA InsertKeepsOccurrences ==
    ASSUME JobInv, OccurrenceInv, NEW a \in Starter, NEW e \in Execution, Insert(a, e)
    PROVE  OccurrenceInv'
<1>1. StartersType /\ ExecutionsType /\ AddersFit /\ StartersFit
    BY TypeGroups DEF JobInv
<1>2. of[e] = None /\ step[a] = "insert" /\ about[a] \in Task
    BY <1>1 DEF Insert, AddersFit, StartersFit
<1>3. /\ of' = [of EXCEPT ![e] = about[a]] /\ occurrence' = [occurrence EXCEPT ![e] = slot[a]]
      /\ step' = [step EXCEPT ![a] = "add"] /\ UNCHANGED <<next, about, slot, rearmed>>
    BY DEF Insert, Takes, tasks, history
<1>4. /\ of'[e] = about[a] /\ occurrence'[e] = slot[a] /\ step'[a] = "add"
      /\ \A f \in Execution \ {e} : of'[f] = of[f] /\ occurrence'[f] = occurrence[f]
      /\ \A b \in Starter \ {a} : step'[b] = step[b]
    BY <1>1, <1>3 DEF StartersType, ExecutionsType
<1>5. \A b \in Starter : Claimed(b)' => b # a /\ Claimed(b)
    BY <1>3, <1>4 DEF Claimed
<1>6. \A f \in Execution \ {e} : Scheduled(f)' <=> Scheduled(f)
    BY <1>4 DEF Scheduled
<1>7. Scheduled(e)' => Claimed(a)
    BY <1>2, <1>4 DEF Scheduled, Claimed
<1>8. \A b \in Starter : Claimed(b)' => Behind(about[b], slot[b])'
    BY <1>3, <1>5 DEF OccurrenceInv, Behind
<1>9. \A f \in Execution : Scheduled(f)' => Behind(of[f], occurrence[f])'
    <2>1. \A f \in Execution \ {e} : Scheduled(f)' => Behind(of[f], occurrence[f])'
        BY <1>3, <1>4, <1>6 DEF OccurrenceInv, Behind
    <2>2. Scheduled(e)' => Behind(of[e], occurrence[e])'
        BY <1>3, <1>4, <1>7 DEF OccurrenceInv, Behind
    <2> QED BY <2>1, <2>2
<1>10. \A b, c \in Starter :
          Claimed(b)' /\ Claimed(c)' /\ about'[b] = about'[c] /\ slot'[b] = slot'[c]
              => b = c \/ <<about'[b], slot'[b]>> \in rearmed'
    BY <1>3, <1>5 DEF OccurrenceInv
<1>11. \A f, g \in Execution :
          Scheduled(f)' /\ Scheduled(g)' /\ of'[f] = of'[g] /\ occurrence'[f] = occurrence'[g]
              => f = g \/ <<of'[f], occurrence'[f]>> \in rearmed'
    <2>1. \A f \in Execution \ {e} : Scheduled(f)' /\ Scheduled(e)' /\ of'[f] = of'[e]
              /\ occurrence'[f] = occurrence'[e] => <<of'[f], occurrence'[f]>> \in rearmed'
        BY <1>3, <1>4, <1>6, <1>7 DEF OccurrenceInv
    <2>2. \A f, g \in Execution \ {e} : Scheduled(f)' /\ Scheduled(g)' /\ of'[f] = of'[g]
              /\ occurrence'[f] = occurrence'[g] => f = g \/ <<of'[f], occurrence'[f]>> \in rearmed'
        BY <1>3, <1>4, <1>6 DEF OccurrenceInv
    <2> QED BY <2>1, <2>2
<1>12. \A b \in Starter, f \in Execution :
          Claimed(b)' /\ Scheduled(f)' /\ about'[b] = of'[f] /\ slot'[b] = occurrence'[f]
              => <<about'[b], slot'[b]>> \in rearmed'
    BY <1>3, <1>4, <1>5, <1>6, <1>7 DEF OccurrenceInv
<1> QED BY <1>8, <1>9, <1>10, <1>11, <1>12 DEF OccurrenceInv

\* Nobody else touches due times, claims or what an execution is for.
LEMMA NextOccurrenceInv ==
    JobInv /\ OccurrenceInv /\ [Next]_vars => OccurrenceInv'
<1> SUFFICES ASSUME JobInv, OccurrenceInv, [Next]_vars PROVE OccurrenceInv'
    OBVIOUS
<1>1. StartersType /\ StartersFit
    BY TypeGroups DEF JobInv
<1>2. ASSUME UNCHANGED <<next, starters, of, occurrence, rearmed>> PROVE OccurrenceInv'
    BY <1>2, ForgettingKeepsOccurrences DEF Claimed, starters
<1>3. ASSUME NEW a \in Starter, UNCHANGED <<next, of, occurrence, rearmed>>,
             \A b \in Starter \ {a} : step'[b] = step[b] /\ about'[b] = about[b] /\ slot'[b] = slot[b],
             Claimed(a)' => Claimed(a) /\ about'[a] = about[a] /\ slot'[a] = slot[a]
      PROVE  OccurrenceInv'
    <2>1. \A b \in Starter : Claimed(b)' => Claimed(b) /\ about'[b] = about[b] /\ slot'[b] = slot[b]
        BY <1>3 DEF Claimed
    <2> QED BY <1>3, <2>1, ForgettingKeepsOccurrences
<1>4. ASSUME NEW a \in Starter, UNCHANGED <<next, of, occurrence, rearmed>>, Rests(a)
      PROVE  OccurrenceInv'
    BY <1>1, <1>3, <1>4, RestsTyped DEF Claimed
<1>5. CASE Tick \/ StartReplica \/ UNCHANGED vars
    BY <1>2, <1>5 DEF Tick, StartReplica, vars, tasks, history, executions
<1>6. ASSUME NEW t \in Task, TaskStep(t) PROVE OccurrenceInv'
    BY <1>6, TaskKeepsOccurrences
<1>7. ASSUME NEW a \in Starter, StarterStep(a) PROVE OccurrenceInv'
    <2>1. CASE Claim(a)
        BY <1>4, <2>1, ClaimKeepsOccurrences DEF Claim, executions, history
    <2>2. CASE ChangeStatus(a)
        BY <2>2, TaskKeepsOccurrences
    <2>3. CASE \E e \in Execution : Insert(a, e)
        BY <2>3, InsertKeepsOccurrences
    <2>4. CASE (CheckPolicy(a) \/ Add(a) \/ FailRow(a) \/ CancelRemoves(a) \/ CancelWrites(a)) /\ Rests(a)
        <3>1. UNCHANGED <<next, of, occurrence, rearmed>>
            BY <2>4 DEF CheckPolicy, Add, FailRow, CancelRemoves, CancelWrites, Overtaken, tasks,
               executions, history
        <3> QED BY <1>4, <2>4, <3>1
    <2>5. CASE \/ Plan(a) \/ AddThrows(a) \/ CancelLooks(a) \/ (CheckPolicy(a) /\ ~Rests(a))
               \/ (CancelRemoves(a) /\ ~Rests(a))
        <3>1. UNCHANGED <<next, of, occurrence, rearmed, about, slot>>
            BY <2>5 DEF Plan, AddThrows, CancelLooks, CheckPolicy, CancelRemoves, tasks,
               executions, history
        <3>2. \E l \in {"claim", "fail", "misled", "write", "remove", "insert"} :
                  step' = [step EXCEPT ![a] = l] /\ (l = "insert" => step[a] = "check")
            BY <2>5 DEF Plan, AddThrows, CancelLooks, CheckPolicy, CancelRemoves, Takes
        <3>3. \A b \in Starter \ {a} : step'[b] = step[b]
            BY <1>1, <3>2 DEF StartersType
        <3>4. step'[a] \in {"check", "insert"} => step[a] = "check"
            BY <1>1, <3>2 DEF StartersType
        <3>5. Claimed(a)' => Claimed(a)
            BY <3>1, <3>4 DEF Claimed
        <3> QED BY <1>3, <3>1, <3>3, <3>5
    <2>6. Add(a) \/ FailRow(a) \/ CancelWrites(a) => Rests(a)
        BY DEF Add, FailRow, CancelWrites
    <2> QED BY <1>7, <2>1, <2>2, <2>3, <2>4, <2>5, <2>6 DEF StarterStep
<1>8. ASSUME NEW a \in Starter, GiveUp(a) PROVE OccurrenceInv'
    BY <1>4, <1>8 DEF GiveUp, Strand, tasks, executions
<1>9. ASSUME NEW a \in Starter, RequestBegins(a) \/ \E t \in Task : FindDue(a, t)
      PROVE  OccurrenceInv'
    <2>1. /\ UNCHANGED <<next, of, occurrence, rearmed, slot>> /\ step[a] = "idle"
          /\ \A b \in Starter \ {a} : step'[b] = step[b] /\ about'[b] = about[b]
        BY <1>1, <1>9 DEF RequestBegins, FindDue, RunManually, LookAtTask, CancelReads, Takes,
           StartersType, tasks, executions, history
    <2>2. ~Claimed(a)'
        BY <1>1, <2>1 DEF Claimed, StartersFit
    <2> QED BY <1>3, <2>1, <2>2
<1>10. ASSUME NEW a \in Starter, NEW R \in SUBSET Runner, NEW L \in SUBSET Execution, Crash(a, R, L)
       PROVE  OccurrenceInv'
    BY <1>4, <1>10 DEF Crash, tasks, executions, history
<1>11. ASSUME NEW r \in Runner, \/ RunnerStep(r) \/ Poll(r) \/ Throw(r)
                                \/ \E e \in Execution : Fetch(r, e)
       PROVE  OccurrenceInv'
    BY <1>2, <1>11 DEF RunnerStep, Poll, Throw, Fetch, Read, Start, Answer, Record, Report,
       Strand, tasks, executions, history
<1>12. ASSUME NEW e \in Execution, ExecutionStep(e) PROVE OccurrenceInv'
    BY <1>2, <1>12 DEF ExecutionStep, Stalled, ReconcileLooks, ReconcileWrites, Strand,
       Overtaken, tasks, executions, history
<1> QED BY <1>5, <1>6, <1>7, <1>8, <1>9, <1>10, <1>11, <1>12 DEF Next

\* However many replicas dispatch, however late they claim, die or are started,
\* and whatever users do to a task meanwhile, no occurrence of it is run twice
\* but for one that a user has put on again: enabled the task with a run
\* computed before that occurrence was claimed, and written after.
THEOREM OncePerOccurrenceAlways == Spec => []OncePerOccurrence
<1>1. JobInv /\ OccurrenceInv => OncePerOccurrence
    <2> SUFFICES ASSUME JobInv, OccurrenceInv, NEW t \in Task, NEW k \in 1..MaxTime,
                        <<t, k>> \notin rearmed
                 PROVE  /\ \A a, b \in Claims(t, k) : a = b
                        /\ \A e, f \in Runs(t, k) : e = f
                        /\ Claims(t, k) = {} \/ Runs(t, k) = {}
        BY DEF OncePerOccurrence
    <2>1. \A a \in Claims(t, k) : a \in Starter /\ Claimed(a) /\ about[a] = t /\ slot[a] = k
        BY DEF Claims, Claimed
    <2>2. \A e \in Runs(t, k) :
              e \in Execution /\ Scheduled(e) /\ of[e] = t /\ occurrence[e] = k
        BY ScheduleAssumption DEF Runs, Scheduled
    <2> QED BY <2>1, <2>2 DEF OccurrenceInv
<1> QED BY <1>1, JobInvAlways, InitOccurrenceInv, NextOccurrenceInv, PTL DEF Spec

-------------------------------------------------------------------------------
(* Cancellation *)

\* A runner that has found its execution not cancelled is about to call the
\* service; the row may say cancelled by then only if the write was late.
CancelInv ==
    \A r \in Runner : pc[r] = "start" /\ row[at[r]] = "cancelled" => at[r] \in overtaken

\* Whoever is not a runner keeps this up, if it cancels in time.
LEMMA OthersKeepCancelInv ==
    ASSUME JobInv, CancelInv, overtaken \subseteq overtaken',
           \A r \in Runner : (at'[r] = at[r] /\ pc'[r] = pc[r]) \/ pc'[r] = "idle",
           \A e \in Execution : row'[e] = "cancelled" =>
               row[e] = "cancelled" \/ job[e] # "active" \/ e \in overtaken'
    PROVE  CancelInv'
<1> SUFFICES ASSUME NEW r \in Runner, pc'[r] = "start", row'[at'[r]] = "cancelled"
             PROVE  at'[r] \in overtaken'
    BY DEF CancelInv
<1>1. at'[r] = at[r] /\ pc[r] = "start"
    OBVIOUS
<1>2. PICK e \in Execution : e = at[r] /\ job[e] = "active"
    BY <1>1, AttendedTo
<1> QED BY <1>1, <1>2 DEF CancelInv

\* Only a cancellation that did not see the job writes `cancelled' under a
\* runner, and this is what `overtaken' records.
LEMMA NextCancelInv == JobInv /\ CancelInv /\ [Next]_vars => CancelInv'
<1> SUFFICES ASSUME JobInv, CancelInv, [Next]_vars PROVE CancelInv'
    OBVIOUS
<1>1. ExecutionsType /\ RunnersType /\ JobsHeld /\ StartersFit
    BY TypeGroups DEF JobInv
<1>2. ASSUME UNCHANGED <<runners, row, overtaken>> PROVE CancelInv'
    BY <1>2, OthersKeepCancelInv DEF runners
<1>3. CASE Tick \/ StartReplica \/ UNCHANGED vars
    BY <1>2, <1>3 DEF Tick, StartReplica, vars, executions, history
<1>4. ASSUME NEW t \in Task, TaskStep(t) PROVE CancelInv'
    BY <1>2, <1>4 DEF TaskStep, Approve, Reject, Expire, executions, history
<1>5. ASSUME NEW a \in Starter, StarterStep(a) PROVE CancelInv'
    <2>1. CASE \/ Plan(a) \/ Claim(a) \/ CheckPolicy(a) \/ Add(a) \/ AddThrows(a)
               \/ ChangeStatus(a) \/ CancelLooks(a) \/ CancelRemoves(a)
        BY <1>2, <2>1 DEF Plan, Claim, CheckPolicy, Add, AddThrows, ChangeStatus, CancelLooks,
           CancelRemoves, Rearmed, executions, history
    <2>2. CASE FailRow(a) \/ \E e \in Execution : Insert(a, e)
        <3>1. UNCHANGED <<runners, overtaken>>
            BY <2>2 DEF FailRow, Insert, history
        <3>2. \A e \in Execution : row'[e] = "cancelled" => row[e] = "cancelled"
            BY <1>1, <2>2 DEF FailRow, Insert, SetRow, ExecutionsType
        <3> QED BY <3>1, <3>2, OthersKeepCancelInv DEF runners
    <2>3. CASE CancelWrites(a)
        <3>1. /\ UNCHANGED runners /\ overtaken \subseteq overtaken'
              /\ row' = [row EXCEPT ![exec[a]] = note[a]]
            BY <2>3 DEF CancelWrites, Overtaken, SetRow
        <3>2. ASSUME NEW e \in Execution, row'[e] = "cancelled", row[e] # "cancelled",
                     job[e] = "active"
              PROVE  e \in overtaken'
            <4>1. e = exec[a] /\ note[a] = "cancelled"
                BY <1>1, <3>1, <3>2 DEF ExecutionsType
            <4> QED BY <2>3, <3>2, <4>1 DEF CancelWrites, Overtaken
        <3> QED BY <3>1, <3>2, OthersKeepCancelInv DEF runners
    <2> QED BY <1>5, <2>1, <2>2, <2>3 DEF StarterStep
<1>6. ASSUME NEW a \in Starter, GiveUp(a) \/ RequestBegins(a) \/ \E t \in Task : FindDue(a, t)
      PROVE  CancelInv'
    BY <1>2, <1>6 DEF GiveUp, Strand, RequestBegins, RunManually, LookAtTask, CancelReads, FindDue,
       executions, history
<1>7. ASSUME NEW a \in Starter, NEW R \in SUBSET Runner, NEW L \in SUBSET Execution, Crash(a, R, L)
      PROVE  CancelInv'
    <2>1. /\ UNCHANGED <<row, overtaken>>
          /\ \A r \in Runner : (at'[r] = at[r] /\ pc'[r] = pc[r]) \/ pc'[r] = "idle"
        BY <1>7 DEF Crash, executions, history
    <2> QED BY <2>1, OthersKeepCancelInv
<1>8. ASSUME NEW e \in Execution, ExecutionStep(e) PROVE CancelInv'
    <2>1. UNCHANGED runners /\ overtaken \subseteq overtaken'
        BY <1>8 DEF ExecutionStep, Stalled, ReconcileLooks, ReconcileWrites, Strand, Overtaken,
           history
    <2>2. row' = row \/ (row' = [row EXCEPT ![e] = listed[e]] /\ listed[e] \in {"queued", "failed"})
        BY <1>8 DEF ExecutionStep, Stalled, ReconcileLooks, ReconcileWrites, SetRow, executions
    <2>3. \A f \in Execution : row'[f] = "cancelled" => row[f] = "cancelled"
        BY <1>1, <2>2 DEF ExecutionsType
    <2> QED BY <2>1, <2>3, OthersKeepCancelInv DEF runners
<1>9. ASSUME NEW q \in Runner, \/ RunnerStep(q) \/ Poll(q) \/ Throw(q)
                               \/ \E e \in Execution : Fetch(q, e)
      PROVE  CancelInv'
    <2> SUFFICES ASSUME NEW r \in Runner, pc'[r] = "start", row'[at'[r]] = "cancelled"
                 PROVE  at'[r] \in overtaken'
        BY DEF CancelInv
    <2>1. overtaken' = overtaken
        BY <1>9 DEF RunnerStep, Read, Start, Answer, Record, Report, Poll, Throw, Fetch, Strand,
           history
    <2>2. CASE q = r
        <3>1. at' = at /\ row' = row /\ (row[at[r]] = "cancelled" => pc[r] = "start")
            <4>1. ~Start(r) /\ ~Record(r) /\ ~Report(r) /\ ~Answer(r) /\ ~Throw(r)
                  /\ \A e \in Execution : ~Fetch(r, e)
                BY <1>1 DEF Start, Record, Report, Answer, Throw, Fetch, Goto, RunnersType
            <4>2. CASE Read(r)
                BY <1>1, <4>2 DEF Read, Goto, Unwanted, RunnersType, executions
            <4>3. CASE Poll(r)
                BY <4>3 DEF Poll, executions
            <4> QED BY <1>9, <2>2, <4>1, <4>2, <4>3 DEF RunnerStep
        <3> QED BY <2>1, <3>1 DEF CancelInv
    <2>3. CASE q # r
        <3>1. at'[r] = at[r] /\ pc'[r] = pc[r]
            BY <1>1, <1>9, <2>3 DEF RunnerStep, Read, Start, Answer, Record, Report, Poll, Throw,
               Fetch, Goto, RunnersType
        <3>2. PICK e \in Execution : e = at[r]
            BY <3>1, AttendedTo
        <3>3. at[q] # e
            BY <1>1, <2>3, <3>2, ScheduleAssumption DEF JobsHeld
        <3>4. row' = row \/ \E s \in Finished \cup Open : row' = [row EXCEPT ![at[q]] = s]
            BY <1>9 DEF RunnerStep, Read, Start, Answer, Record, Report, Poll, Throw, Fetch,
               SetRow, Outcome, FailedStatus, Finished, Open, executions
        <3>5. row'[e] = row[e]
            BY <1>1, <3>3, <3>4 DEF ExecutionsType
        <3> QED BY <2>1, <3>1, <3>2, <3>5 DEF CancelInv
    <2> QED BY <2>2, <2>3
<1> QED BY <1>3, <1>4, <1>5, <1>6, <1>7, <1>8, <1>9 DEF Next

\* However many runners, redeliveries, cancellations, deaths and starts there
\* are, the service is not called while the row says cancelled, unless the
\* write that says so did not see the job.  While it says only cancelling, an
\* attempt may begin: it writes running over it, and calls.
THEOREM CancelledIsNotCalledAlways == Spec => CancelledIsNotCalled
<1>1. Init => CancelInv
    BY DEF Init, CancelInv
<1>2. CancelInv => [\A r \in Runner :
          pc[r] = "start" /\ pc'[r] = "call" /\ row[at[r]] = "cancelled"
              => at[r] \in overtaken]_vars
    BY DEF CancelInv
<1> QED BY <1>1, <1>2, JobInvAlways, NextCancelInv, PTL DEF Spec, CancelledIsNotCalled

-------------------------------------------------------------------------------
(* Nobody is forgotten *)

(***************************************************************************)
(* An execution that is open is attended to: BullMQ holds its job, or the  *)
(* starter that inserted it is about to add one, or a cancellation that    *)
(* found no job or has taken it away is about to write so, or the start of *)
(* a replica has listed it and not yet found a job, or it waits for the    *)
(* start of the replica that died.  The exceptions are the rows on which a *)
(* write by id came too late, and those that a failed call, a request that *)
(* died or a job that stalled too often has stranded.                      *)
(***************************************************************************)
Excepted(e) == e \in overtaken \/ e \in stranded
Settled(e) == row[e] \in Finished \/ Excepted(e)
Adding(e) == \E a \in Starter : Adds(a) /\ exec[a] = e
Writing(e, s) == \E a \in Starter : step[a] = "write" /\ exec[a] = e /\ note[a] = s
Interrupted(e) == row[e] \in {"queued", "running"} /\ job[e] = "missing"
Attended(e) ==
    \/ Excepted(e)
    \/ job[e] \in {"waiting", "active"}
    \/ Adding(e) \/ Writing(e, "cancelled")
    \/ listed[e] \in {"listed", "failed"}
    \/ replicas = "dead" /\ Interrupted(e) /\ listed[e] = "no"

(***************************************************************************)
(* What keeps it so: a job ends, and a runner reports the end of one, only *)
(* when the row has ended; nobody cancels what runs, or lists as having a  *)
(* job, an execution that is still being added; and one that is being      *)
(* cancelled has a job, or loses it to another cancellation.               *)
(***************************************************************************)
Reporting(r, e) == at[r] = e /\ (pc[r] = "done" \/ (pc[r] = "threw" /\ FinalAttempt(e)))
NotLost(e) ==
    /\ job[e] \in {"completed", "failed"} => Settled(e)
    /\ \A r \in Runner : Reporting(r, e) => Settled(e)
    /\ Adding(e) => /\ listed[e] # "queued" /\ ~Writing(e, "cancelling")
                    /\ row[e] = "queued" \/ row[e] \in Finished
    /\ row[e] = "cancelling" /\ job[e] = "missing" => Excepted(e) \/ Writing(e, "cancelled")
    /\ row[e] \in Open => Attended(e)
NoneLost ==
    /\ \A e \in Execution : NotLost(e)
    /\ \A a \in Starter : Cancels(a) => a \in Request

\* Nothing is open at first.
LEMMA InitNoneLost == Init => NoneLost
BY DEF Init, NoneLost, NotLost, Reporting, Adding, Adds, Cancels, Open

\* A step leaves alone what it does not touch.
LEMMA LeftAlone ==
    ASSUME NEW e \in Execution, NotLost(e), row'[e] = row[e], job'[e] = job[e],
           listed'[e] = listed[e], replicas' \in {replicas, "dead"},
           Excepted(e) => Excepted(e)',
           \A r \in Runner : Reporting(r, e)' => Reporting(r, e),
           Adding(e)' <=> Adding(e),
           \A s \in {"cancelling", "cancelled"} : Writing(e, s)' <=> Writing(e, s)
    PROVE  NotLost(e)'
<1>1. Settled(e) => Settled(e)'
    BY DEF Settled
<1>2. Attended(e) => Attended(e)'
    BY DEF Attended, Interrupted
<1> QED BY <1>1, <1>2 DEF NotLost

\* The exceptions of a step.
LEMMA ExceptionsGrow ==
    ASSUME overtaken \subseteq overtaken', stranded \subseteq stranded'
    PROVE  \A e : Excepted(e) => Excepted(e)'
BY DEF Excepted

\* One starter moves: nobody else begins or ends to add or to write.
LEMMA OneStarterAlone ==
    ASSUME NEW a \in Starter, NEW e,
           \A b \in Starter \ {a} : step'[b] = step[b] /\ exec'[b] = exec[b] /\ note'[b] = note[b],
           exec[a] # e \/ step[a] \notin {"add", "fail", "write"},
           exec'[a] # e \/ step'[a] \notin {"add", "fail", "write"}
    PROVE  /\ Adding(e)' <=> Adding(e)
           /\ \A s \in {"cancelling", "cancelled"} : Writing(e, s)' <=> Writing(e, s)
BY DEF Adding, Writing, Adds

\* Steps of a starter that are not about an execution, or only read.
LEMMA ReadersLoseNone ==
    ASSUME JobInv, NoneLost, NEW a \in Starter,
           UNCHANGED <<executions, runners, starts>>,
           overtaken \subseteq overtaken', stranded \subseteq stranded',
           step[a] \notin {"add", "fail", "write"}, step'[a] \notin {"add", "fail", "write"},
           \A b \in Starter \ {a} : step'[b] = step[b] /\ exec'[b] = exec[b] /\ note'[b] = note[b],
           Cancels(a)' => a \in Request
    PROVE  NoneLost'
<1>1. ASSUME NEW e \in Execution PROVE NotLost(e)'
    <2>1. NotLost(e) /\ row'[e] = row[e] /\ job'[e] = job[e] /\ listed'[e] = listed[e]
          /\ replicas' = replicas
        BY DEF NoneLost, executions, starts
    <2>2. \A r \in Runner : Reporting(r, e)' => Reporting(r, e)
        BY DEF Reporting, FinalAttempt, runners, executions
    <2> QED BY <2>1, <2>2, ExceptionsGrow, OneStarterAlone, LeftAlone
<1>2. \A b \in Starter : Cancels(b)' => b \in Request
    BY DEF NoneLost, Cancels
<1> QED BY <1>1, <1>2 DEF NoneLost

\* Claims, checks, changes and the first looks of a cancellation.
LEMMA ClaimLosesNone ==
    ASSUME JobInv, NoneLost, NEW a \in Starter,
           \/ Plan(a) \/ Claim(a) \/ CheckPolicy(a) \/ ChangeStatus(a) \/ RequestBegins(a)
           \/ \E t \in Task : FindDue(a, t)
           \/ CancelRemoves(a) /\ job[exec[a]] = "active"
           \/ CancelLooks(a) /\ job[exec[a]] \notin {"missing", "active"}
    PROVE  NoneLost'
<1>1. StartersType
    BY TypeGroups DEF JobInv
<1>2. /\ UNCHANGED <<executions, runners, starts>>
      /\ overtaken \subseteq overtaken' /\ stranded \subseteq stranded'
    BY DEF Plan, Claim, CheckPolicy, ChangeStatus, RequestBegins, RunManually, LookAtTask,
       CancelReads, FindDue, CancelRemoves, CancelLooks, Rearmed, history, executions
<1>3. \/ Rests(a) /\ step[a] \in {"claim", "check", "change", "remove"}
      \/ /\ UNCHANGED <<exec, note>> /\ step[a] \in {"idle", "plan", "claim", "check"}
         /\ \E l \in {"plan", "claim", "check", "insert"} : step' = [step EXCEPT ![a] = l]
      \/ /\ a \in Request /\ step[a] = "idle"
         /\ \A b \in Starter \ {a} : exec'[b] = exec[b] /\ note'[b] = note[b]
         /\ \E l \in {"change", "look", "check"} : step' = [step EXCEPT ![a] = l]
      \/ /\ step[a] = "look" /\ step' = [step EXCEPT ![a] = "remove"]
         /\ \A b \in Starter \ {a} : exec'[b] = exec[b] /\ note'[b] = note[b]
    BY <1>1 DEF Plan, Claim, CheckPolicy, ChangeStatus, RequestBegins, RunManually, LookAtTask,
       CancelReads, FindDue, CancelRemoves, CancelLooks, Takes, StartersType
<1>4. /\ step[a] \notin {"add", "fail", "write"} /\ step'[a] \notin {"add", "fail", "write"}
      /\ \A b \in Starter \ {a} : step'[b] = step[b] /\ exec'[b] = exec[b] /\ note'[b] = note[b]
      /\ Cancels(a)' => a \in Request
    <2>1. CASE Rests(a) /\ step[a] \in {"claim", "check", "change", "remove"}
        BY <1>1, <2>1, RestsTyped DEF Cancels
    <2>2. CASE ~(Rests(a) /\ step[a] \in {"claim", "check", "change", "remove"})
        BY <1>1, <1>3, <2>2 DEF Cancels, NoneLost, StartersType
    <2> QED BY <2>1, <2>2
<1> QED BY <1>2, <1>4, ReadersLoseNone

\* Between the insert of a row and the add of its job the starter attends to it,
\* and after that BullMQ; a row whose add failed is failed, or stranded.
LEMMA EnqueueLosesNone ==
    ASSUME JobInv, NoneLost, NEW a \in Starter,
           \/ Add(a) \/ AddThrows(a) \/ FailRow(a) \/ GiveUp(a)
           \/ \E e \in Execution : Insert(a, e)
    PROVE  NoneLost'
<1>1. StartersType /\ ExecutionsType /\ JobsHeld /\ AddersFit /\ StartersFit
    BY TypeGroups DEF JobInv
<1>2. /\ UNCHANGED <<tries, runners, starts>>
      /\ overtaken \subseteq overtaken' /\ stranded \subseteq stranded'
      /\ \A b \in Starter \ {a} : step'[b] = step[b] /\ exec'[b] = exec[b] /\ note'[b] = note[b]
      /\ ~Cancels(a)'
    <2>1. Rests(a) \/ \E l \in {"add", "fail", "misled"} :
              /\ step' = [step EXCEPT ![a] = l] /\ note' = note
              /\ \A b \in Starter \ {a} : exec'[b] = exec[b]
        BY <1>1 DEF Add, AddThrows, FailRow, GiveUp, Insert, Takes, StartersType
    <2>2. /\ ~Cancels(a)'
          /\ \A b \in Starter \ {a} : step'[b] = step[b] /\ exec'[b] = exec[b] /\ note'[b] = note[b]
        <3>1. CASE Rests(a)
            BY <1>1, <3>1, RestsTyped DEF Cancels
        <3>2. CASE ~Rests(a)
            BY <1>1, <2>1, <3>2 DEF Cancels, StartersType
        <3> QED BY <3>1, <3>2
    <2> QED BY <2>2 DEF Add, AddThrows, FailRow, GiveUp, Insert, Strand, executions, history
<1>3. \A b \in Starter : Cancels(b)' => b \in Request
    BY <1>2 DEF NoneLost, Cancels
<1>4. \A e \in Execution, r \in Runner : Reporting(r, e)' <=> Reporting(r, e)
    BY <1>2 DEF Reporting, FinalAttempt, runners
<1>5. \A e \in Execution : NotLost(e) /\ (Excepted(e) => Excepted(e)') /\ listed'[e] = listed[e]
          /\ replicas' = replicas
    BY <1>2, ExceptionsGrow DEF NoneLost, starts
<1>6. CASE GiveUp(a)
    <2>1. UNCHANGED <<row, job>> /\ step'[a] = "idle"
        BY <1>1, <1>6, RestsTyped DEF GiveUp, executions
    <2>2. ASSUME NEW e \in Execution, exec[a] # e PROVE NotLost(e)'
        BY <1>2, <1>4, <1>5, <2>1, <2>2, OneStarterAlone, LeftAlone
    <2>3. ASSUME NEW e \in Execution, exec[a] = e PROVE NotLost(e)'
        <3>1. job[e] = "missing" => Excepted(e)'
            BY <1>6, <2>3 DEF GiveUp, Strand, Excepted
        <3>2. /\ Adding(e)' => Adding(e)
              /\ \A s \in {"cancelling", "cancelled"} : Writing(e, s)' => Writing(e, s)
            BY <1>2, <2>1 DEF Adding, Adds, Writing
        <3>3. Settled(e) => Settled(e)'
            BY <1>5, <2>1 DEF Settled
        <3>4. row'[e] \in Open => Attended(e)'
            <4>1. CASE job[e] \in {"missing", "waiting", "active"}
                BY <2>1, <3>1, <4>1 DEF Attended
            <4>2. CASE job[e] \in {"completed", "failed"}
                BY <1>5, <2>1, <4>2 DEF NotLost, Settled, Attended, Open, Finished
            <4> QED BY <1>1, <4>1, <4>2 DEF ExecutionsType, JobStates
        <3> QED BY <1>4, <1>5, <2>1, <3>1, <3>2, <3>3, <3>4 DEF NotLost
    <2> QED BY <1>3, <2>2, <2>3 DEF NoneLost
<1>7. ASSUME NEW e \in Execution, Insert(a, e) PROVE NoneLost'
    <2>1. /\ row[e] = "none" /\ job[e] = "missing" /\ listed[e] = "no"
          /\ row' = [row EXCEPT ![e] = "queued"] /\ job' = job
          /\ step[a] = "insert" /\ step'[a] = "add" /\ exec'[a] = e
        BY <1>1, <1>7 DEF Insert, SetRow, Takes, AddersFit, StartersType
    <2>2. ASSUME NEW f \in Execution \ {e} PROVE NotLost(f)'
        <3>1. row'[f] = row[f] /\ job'[f] = job[f]
            BY <1>1, <2>1 DEF ExecutionsType
        <3> QED BY <1>2, <1>4, <1>5, <2>1, <3>1, OneStarterAlone, LeftAlone
    <2>3. NotLost(e)'
        <3>1. row'[e] = "queued" /\ Adding(e)'
            BY <1>1, <2>1 DEF ExecutionsType, Adding, Adds
        <3>2. \A s \in {"cancelling", "cancelled"} : ~Writing(e, s)'
            BY <1>1, <1>2, <2>1 DEF Writing, StartersFit, Cancels
        <3>3. \A r \in Runner : ~Reporting(r, e)
            BY <1>1, <2>1, ScheduleAssumption DEF Reporting, JobsHeld
        <3> QED BY <1>4, <1>5, <2>1, <3>1, <3>2, <3>3 DEF NotLost, Attended
    <2> QED BY <1>3, <2>2, <2>3 DEF NoneLost
<1>8. CASE Add(a) \/ AddThrows(a) \/ FailRow(a)
    <2>1. step[a] \in {"add", "fail", "misled"} /\ exec[a] \in Execution
        BY <1>1, <1>8 DEF Add, AddThrows, FailRow, StartersFit, Adds
    <2>2. PICK e \in Execution : e = exec[a]
        BY <2>1
    <2>3. \/ /\ row' = row /\ job' = job /\ step[a] = "add" /\ step'[a] = "fail" /\ exec'[a] = e
          \/ /\ row' = row /\ job' = [job EXCEPT ![e] = "waiting"] /\ step[a] = "add"
             /\ step'[a] \in {"misled", "idle"}
          \/ row' = [row EXCEPT ![e] = "failed"] /\ job' = job /\ step'[a] = "idle"
        <3>1. Rests(a) => step'[a] = "idle"
            BY <1>1, RestsTyped
        <3> QED BY <1>1, <1>8, <2>2, <3>1 DEF Add, AddThrows, FailRow, SetJob, SetRow, Takes,
                   StartersType
    <2>4. exec'[a] = e \/ step'[a] \notin {"add", "fail", "write"}
        BY <2>3
    <2>5. ASSUME NEW f \in Execution \ {e} PROVE NotLost(f)'
        <3>1. row'[f] = row[f] /\ job'[f] = job[f]
            BY <1>1, <2>3 DEF ExecutionsType
        <3>2. exec[a] # f /\ (exec'[a] # f \/ step'[a] \notin {"add", "fail", "write"})
            BY <2>2, <2>4
        <3> QED BY <1>2, <1>4, <1>5, <3>1, <3>2, OneStarterAlone, LeftAlone
    <2>6. NotLost(e)'
        <3>1. \A s \in {"cancelling", "cancelled"} : Writing(e, s)' <=> Writing(e, s)
            BY <1>2, <2>1, <2>3 DEF Writing
        <3>2. CASE row' = row /\ job' = job /\ step[a] = "add" /\ step'[a] = "fail" /\ exec'[a] = e
            <4>1. Adding(e) /\ Adding(e)'
                BY <2>2, <3>2 DEF Adding, Adds
            <4> QED BY <1>4, <1>5, <3>1, <3>2, <4>1, LeftAlone
        <3>3. CASE /\ row' = row /\ job' = [job EXCEPT ![e] = "waiting"] /\ step[a] = "add"
                   /\ step'[a] \in {"misled", "idle"}
            <4>1. ~Adding(e)'
                BY <1>1, <1>2, <2>2, <3>3 DEF Adding, Adds, AddersFit
            <4>2. job'[e] = "waiting" /\ job[e] = "missing"
                BY <1>1, <2>2, <3>3 DEF ExecutionsType, AddersFit, Adds
            <4>3. \A r \in Runner : ~Reporting(r, e)
                BY <1>1, <4>2, ScheduleAssumption DEF Reporting, JobsHeld
            <4> QED BY <1>4, <4>1, <4>2, <4>3 DEF NotLost, Attended
        <3>4. CASE row' = [row EXCEPT ![e] = "failed"] /\ job' = job /\ step'[a] = "idle"
            <4>1. row'[e] = "failed"
                BY <1>1, <3>4 DEF ExecutionsType
            <4>2. Adding(e)' => Adding(e)
                BY <1>2, <3>4 DEF Adding, Adds
            <4> QED BY <1>5, <3>1, <4>1, <4>2 DEF NotLost, Settled, Finished, Open
        <3> QED BY <2>3, <3>2, <3>3, <3>4
    <2> QED BY <1>3, <2>5, <2>6 DEF NoneLost
<1> QED BY <1>6, <1>7, <1>8

\* A cancellation that finds no job, or takes it away, writes so; one that
\* writes `cancelling' too late is an exception.
LEMMA CancelLosesNone ==
    ASSUME JobInv, NoneLost, NEW a \in Starter,
           \/ CancelLooks(a) /\ job[exec[a]] \in {"missing", "active"}
           \/ CancelRemoves(a) /\ job[exec[a]] # "active"
           \/ CancelWrites(a)
    PROVE  NoneLost'
<1>1. StartersType /\ ExecutionsType /\ JobsHeld /\ AddersFit /\ StartersFit
    BY TypeGroups DEF JobInv
<1>2. /\ step[a] \in {"look", "remove", "write"} /\ exec[a] \in Execution /\ row[exec[a]] # "none"
      /\ step[a] = "remove" => note[a] = "cancelled"
      /\ step[a] = "write" => note[a] \in {"cancelling", "cancelled"}
    BY <1>1 DEF CancelLooks, CancelRemoves, CancelWrites, StartersFit, Cancels
<1>3. PICK e \in Execution : e = exec[a] /\ row[e] # "none"
    BY <1>2
<1>4. /\ UNCHANGED <<tries, runners, starts>>
      /\ overtaken \subseteq overtaken' /\ stranded \subseteq stranded'
      /\ \A b \in Starter \ {a} : step'[b] = step[b] /\ exec'[b] = exec[b] /\ note'[b] = note[b]
    BY <1>1 DEF CancelLooks, CancelRemoves, CancelWrites, Takes, Rests, Overtaken, StartersType,
       history, executions
<1>5. /\ exec'[a] = e \/ step'[a] = "idle"
      /\ \A f \in Execution \ {e} : row'[f] = row[f] /\ job'[f] = job[f]
    <2>1. CASE CancelLooks(a) \/ (CancelRemoves(a) /\ job[exec[a]] # "active")
        BY <1>1, <1>3, <2>1 DEF CancelLooks, CancelRemoves, SetJob, executions, ExecutionsType
    <2>2. CASE CancelWrites(a)
        BY <1>1, <1>3, <2>2, RestsTyped DEF CancelWrites, SetRow, ExecutionsType
    <2> QED BY <2>1, <2>2
<1>6. a \in Request
    BY <1>2 DEF NoneLost, Cancels
<1>7. \A b \in Starter : Cancels(b)' => b \in Request
    BY <1>4, <1>6 DEF NoneLost, Cancels
<1>8. \A f \in Execution, r \in Runner : Reporting(r, f)' <=> Reporting(r, f)
    BY <1>4 DEF Reporting, FinalAttempt, runners
<1>9. \A f \in Execution : NotLost(f) /\ (Excepted(f) => Excepted(f)') /\ listed'[f] = listed[f]
          /\ replicas' = replicas
    BY <1>4, ExceptionsGrow DEF NoneLost, starts
<1>10. ASSUME NEW f \in Execution \ {e} PROVE NotLost(f)'
    <2>1. exec[a] # f /\ (exec'[a] # f \/ step'[a] \notin {"add", "fail", "write"})
        BY <1>3, <1>5
    <2> QED BY <1>4, <1>5, <1>8, <1>9, <2>1, OneStarterAlone, LeftAlone
<1>11. NotLost(e)'
    <2>1. CASE CancelLooks(a) /\ job[e] \in {"missing", "active"}
        <3>1. /\ UNCHANGED <<row, job>> /\ step'[a] = "write" /\ exec'[a] = e
              /\ note'[a] = (IF job[e] = "active" THEN "cancelling" ELSE "cancelled")
              /\ step[a] = "look"
            BY <1>1, <1>3, <2>1 DEF CancelLooks, Takes, StartersType, executions
        <3>2. Adding(e)' <=> Adding(e)
            BY <1>4, <3>1 DEF Adding, Adds
        <3>3. Adding(e) => job[e] = "missing"
            BY <1>1 DEF Adding, AddersFit
        <3>4. /\ Writing(e, "cancelled") => Writing(e, "cancelled")'
              /\ job[e] = "missing" => (Writing(e, "cancelling")' => Writing(e, "cancelling"))
            BY <1>4, <3>1 DEF Writing
        <3>5. Attended(e) => Attended(e)'
            BY <1>9, <3>1, <3>2, <3>4 DEF Attended, Interrupted
        <3>6. Settled(e) => Settled(e)'
            BY <1>9, <3>1 DEF Settled
        <3> QED BY <1>8, <1>9, <3>1, <3>2, <3>3, <3>4, <3>5, <3>6 DEF NotLost
    <2>2. CASE CancelRemoves(a) /\ job[e] # "active"
        <3>1. /\ row' = row /\ job'[e] = "missing" /\ step'[a] = "write" /\ exec'[a] = e
              /\ note'[a] = "cancelled" /\ step[a] = "remove"
            BY <1>1, <1>2, <1>3, <2>2 DEF CancelRemoves, SetJob, Takes, StartersType, ExecutionsType
        <3>2. Adding(e)' <=> Adding(e)
            BY <1>4, <3>1 DEF Adding, Adds
        <3>3. Writing(e, "cancelled")' /\ (Writing(e, "cancelling")' => Writing(e, "cancelling"))
            BY <1>4, <3>1 DEF Writing
        <3>4. \A r \in Runner : ~Reporting(r, e)
            BY <1>1, <2>2, ScheduleAssumption DEF Reporting, JobsHeld
        <3> QED BY <1>8, <1>9, <3>1, <3>2, <3>3, <3>4 DEF NotLost, Attended
    <2>3. CASE CancelWrites(a) /\ note[a] = "cancelled"
        <3>1. row'[e] = "cancelled" /\ job' = job /\ step'[a] = "idle"
            BY <1>1, <1>3, <2>3, RestsTyped DEF CancelWrites, SetRow, ExecutionsType
        <3>2. (Adding(e)' => Adding(e)) /\ (Writing(e, "cancelling")' => Writing(e, "cancelling"))
            BY <1>4, <3>1 DEF Adding, Adds, Writing
        <3> QED BY <1>9, <3>1, <3>2 DEF NotLost, Settled, Finished, Open
    <2>4. CASE CancelWrites(a) /\ note[a] = "cancelling"
        <3>1. row'[e] = "cancelling" /\ job' = job /\ step'[a] = "idle" /\ step[a] = "write"
            BY <1>1, <1>3, <2>4, RestsTyped DEF CancelWrites, SetRow, ExecutionsType
        <3>2. row[e] \in Finished \/ job[e] = "missing" => Excepted(e)'
            BY <1>3, <2>4 DEF CancelWrites, Overtaken, Excepted
        <3>3. ~Adding(e) /\ ~Adding(e)'
            <4>1. Writing(e, "cancelling")
                BY <1>3, <2>4, <3>1 DEF Writing
            <4> QED BY <1>4, <1>9, <3>1, <4>1 DEF NotLost, Adding, Adds
        <3>4. Settled(e) => Settled(e)'
            BY <1>9, <3>2 DEF Settled
        <3>5. Attended(e)'
            <4>1. CASE row[e] \in Open
                <5>1. Writing(e, "cancelled") => Writing(e, "cancelled")'
                    BY <1>4, <2>4 DEF Writing
                <5> QED BY <1>9, <3>1, <3>2, <3>3, <4>1, <5>1 DEF NotLost, Attended, Interrupted
            <4>2. CASE row[e] \in Finished
                BY <3>2, <4>2 DEF Attended
            <4> QED BY <1>1, <1>3, <4>1, <4>2 DEF ExecutionsType
        <3> QED BY <1>8, <1>9, <3>1, <3>2, <3>3, <3>4, <3>5 DEF NotLost
    <2> QED BY <1>2, <1>3, <2>1, <2>2, <2>3, <2>4 DEF CancelWrites
<1> QED BY <1>7, <1>10, <1>11 DEF NoneLost

\* A runner has an active job; it reports success, or the last failure, after it
\* has written the row, or strands it.
LEMMA RunnerLosesNone ==
    ASSUME JobInv, NoneLost, NEW r \in Runner,
           RunnerStep(r) \/ Poll(r) \/ Throw(r) \/ \E e \in Execution : Fetch(r, e)
    PROVE  NoneLost'
<1>1. ExecutionsType /\ RunnersType /\ JobsHeld /\ AddersFit
    BY TypeGroups DEF JobInv
<1>2. UNCHANGED <<starters, starts, overtaken>> /\ stranded \subseteq stranded'
    BY DEF RunnerStep, Read, Start, Answer, Record, Report, Poll, Throw, Fetch, Strand, history
<1>3. PICK e \in Execution : \/ pc[r] # "idle" /\ at[r] = e /\ job[e] = "active"
                             \/ pc[r] = "idle" /\ Fetch(r, e)
    <2>1. CASE pc[r] # "idle"
        BY <2>1, AttendedTo
    <2>2. CASE pc[r] = "idle"
        BY <2>2 DEF RunnerStep, Read, Start, Answer, Record, Report, Poll, Throw
    <2> QED BY <2>1, <2>2
<1>4. pc[r] = "idle" \/ ~\E f \in Execution : Fetch(r, f)
    BY DEF Fetch
<1>5. /\ \A f \in Execution \ {e} : row'[f] = row[f] /\ job'[f] = job[f] /\ tries'[f] = tries[f]
      /\ \A q \in Runner \ {r} : at'[q] = at[q] /\ pc'[q] = pc[q] /\ at[q] # e
      /\ at'[r] \in {e, None}
    <2>1. CASE pc[r] # "idle"
        <3>1. \A q \in Runner \ {r} : at[q] # e
            BY <1>1, <1>3, <2>1, ScheduleAssumption DEF JobsHeld, Fetch
        <3>2. at[r] = e
            BY <1>3, <2>1
        <3> QED BY <1>1, <1>4, <2>1, <3>1, <3>2 DEF RunnerStep, Read, Start, Answer, Record, Report,
                Poll, Throw, Goto, SetRow, SetJob, executions, ExecutionsType, RunnersType
    <2>2. CASE pc[r] = "idle"
        <3>1. Fetch(r, e) /\ job[e] = "waiting"
            BY <1>3, <2>2 DEF Fetch
        <3>2. \A q \in Runner : at[q] # e
            BY <1>1, <3>1, ScheduleAssumption DEF JobsHeld
        <3> QED BY <1>1, <3>1, <3>2 DEF Fetch, Goto, SetJob, ExecutionsType, RunnersType
    <2> QED BY <2>1, <2>2
<1>6. \A f \in Execution :
          /\ NotLost(f) /\ (Adding(f)' <=> Adding(f)) /\ (Excepted(f) => Excepted(f)')
          /\ \A s \in {"cancelling", "cancelled"} : Writing(f, s)' <=> Writing(f, s)
          /\ listed'[f] = listed[f] /\ replicas' = replicas
    BY <1>2, ExceptionsGrow DEF NoneLost, Adding, Adds, Writing, starters, starts
<1>7. ASSUME NEW f \in Execution \ {e} PROVE NotLost(f)'
    <2>1. \A q \in Runner : Reporting(q, f)' => Reporting(q, f)
        BY <1>5, ScheduleAssumption DEF Reporting, FinalAttempt
    <2> QED BY <1>5, <1>6, <2>1, LeftAlone
<1>8. NotLost(e)'
    <2>1. job[e] \in {"waiting", "active"} /\ ~Adding(e) /\ ~Adding(e)'
        <3>1. job[e] \in {"waiting", "active"}
            BY <1>3 DEF Fetch
        <3> QED BY <1>1, <1>6, <3>1 DEF Adding, AddersFit
    <2>2. \A q \in Runner \ {r} : ~Reporting(q, e)'
        BY <1>5 DEF Reporting
    <2>3. CASE pc[r] = "idle" /\ Fetch(r, e)
        <3>1. job'[e] = "active" /\ pc'[r] = "read"
            BY <1>1, <2>3 DEF Fetch, SetJob, Goto, ExecutionsType, RunnersType
        <3> QED BY <1>6, <2>1, <2>2, <3>1 DEF NotLost, Attended, Reporting
    <2>4. CASE at[r] = e /\ Report(r)
        <3>1. row' = row /\ at'[r] # e
            BY <1>1, <2>4, ScheduleAssumption DEF Report, RunnersType
        <3>2. \/ Reporting(r, e) /\ job'[e] \in {"completed", "failed"}
              \/ job'[e] = "waiting"
            BY <1>1, <2>4 DEF Report, SetJob, Reporting, ExecutionsType
        <3>3. Settled(e) => Settled(e)'
            BY <1>6, <3>1 DEF Settled
        <3>4. job'[e] # "waiting" => Settled(e)'
            BY <1>6, <3>2, <3>3 DEF NotLost
        <3>5. row'[e] \in Open => Attended(e)'
            BY <3>2, <3>4 DEF Attended, Settled, Open, Finished
        <3>6. ~Reporting(r, e)'
            BY <3>1 DEF Reporting
        <3> QED BY <1>6, <2>1, <2>2, <3>1, <3>2, <3>4, <3>5, <3>6 DEF NotLost
    <2>5. CASE /\ pc[r] # "idle" /\ at[r] = e /\ job[e] = "active"
               /\ Poll(r) \/ Read(r) \/ Start(r) \/ Answer(r) \/ Record(r) \/ Throw(r)
        <3>1. job' = job /\ tries' = tries /\ at' = at
            BY <2>5 DEF Poll, Read, Start, Answer, Record, Throw, executions
        <3>2. Reporting(r, e)' => Settled(e)'
            <4>1. CASE Record(r)
                BY <1>1, <2>5, <4>1, <3>1 DEF Record, SetRow, Outcome, FailedStatus, Goto,
                    Reporting, Settled, Finished, FinalAttempt, ExecutionsType, RunnersType
            <4>2. CASE Read(r)
                BY <1>1, <2>5, <4>2 DEF Read, Unwanted, Goto, executions, Reporting, Settled,
                    Finished, RunnersType
            <4>3. CASE Start(r) \/ Answer(r)
                BY <1>1, <2>5, <4>3 DEF Start, Answer, Goto, Reporting, RunnersType
            <4>4. CASE Poll(r)
                BY <2>5, <4>4 DEF Poll, Reporting
            <4>5. CASE Throw(r)
                BY <1>1, <2>5, <4>5, <3>1 DEF Throw, Strand, Goto, Reporting, FinalAttempt, Settled,
                    Excepted, RunnersType
            <4> QED BY <2>5, <4>1, <4>2, <4>3, <4>4, <4>5
        <3> QED BY <2>1, <2>2, <2>5, <3>1, <3>2 DEF NotLost, Attended
    <2> QED BY <1>3, <1>4, <2>3, <2>4, <2>5 DEF RunnerStep
<1>9. \A a \in Starter : Cancels(a)' => a \in Request
    BY <1>2 DEF NoneLost, Cancels, starters
<1> QED BY <1>7, <1>8, <1>9 DEF NoneLost

\* A redelivery keeps the job; one that stalled too often strands its row; a
\* reconciliation that finds no job fails the row.
LEMMA ExecutionLosesNone ==
    ASSUME JobInv, NoneLost, NEW e \in Execution, ExecutionStep(e)
    PROVE  NoneLost'
<1>1. ExecutionsType /\ StartsType /\ JobsHeld /\ AddersFit
    BY TypeGroups DEF JobInv
<1>2. /\ UNCHANGED <<starters, runners, tries, replicas>>
      /\ overtaken \subseteq overtaken' /\ stranded \subseteq stranded'
    BY DEF ExecutionStep, Stalled, ReconcileLooks, ReconcileWrites, Strand, Overtaken, history,
       executions, starts
<1>3. \A f \in Execution \ {e} : row'[f] = row[f] /\ job'[f] = job[f] /\ listed'[f] = listed[f]
    BY <1>1 DEF ExecutionStep, Stalled, ReconcileLooks, ReconcileWrites, SetRow, SetJob,
       executions, starts, ExecutionsType, StartsType
<1>4. \A f \in Execution :
          /\ NotLost(f) /\ (Adding(f)' <=> Adding(f)) /\ (Excepted(f) => Excepted(f)')
          /\ \A s \in {"cancelling", "cancelled"} : Writing(f, s)' <=> Writing(f, s)
          /\ \A r \in Runner : Reporting(r, f)' <=> Reporting(r, f)
    BY <1>2, ExceptionsGrow DEF NoneLost, Adding, Adds, Writing, Reporting, FinalAttempt,
       starters, runners
<1>5. ASSUME NEW f \in Execution \ {e} PROVE NotLost(f)'
    BY <1>2, <1>3, <1>4, LeftAlone
<1>6. Adding(e) => job[e] = "missing"
    BY <1>1 DEF Adding, AddersFit
<1>7. NotLost(e)'
    <2>1. CASE Stalled(e)
        <3>1. /\ row' = row /\ listed' = listed /\ job[e] = "active"
              /\ job'[e] = "waiting" \/ (job'[e] = "failed" /\ Excepted(e)')
              /\ \A r \in Runner : at[r] # e
            BY <1>1, <2>1 DEF Stalled, SetJob, Strand, Excepted, ExecutionsType, starts
        <3> QED BY <1>4, <1>6, <3>1 DEF NotLost, Attended, Reporting, Settled
    <2>2. CASE ReconcileLooks(e)
        <3>1. /\ listed[e] = "listed" /\ UNCHANGED <<row, job>>
              /\ listed'[e] = (IF job[e] # "missing" THEN "queued" ELSE "failed")
            BY <1>1, <2>2 DEF ReconcileLooks, HasJob, executions, StartsType
        <3>2. Settled(e) => Settled(e)'
            BY <1>4, <3>1 DEF Settled
        <3>3. row'[e] \in Open => Attended(e)'
            <4>1. CASE job[e] \in {"missing", "waiting", "active"}
                BY <3>1, <4>1 DEF Attended
            <4>2. CASE job[e] \in {"completed", "failed"}
                BY <1>4, <3>1, <4>2 DEF NotLost, Settled, Attended, Open, Finished
            <4> QED BY <1>1, <4>1, <4>2 DEF ExecutionsType, JobStates
        <3> QED BY <1>4, <1>6, <3>1, <3>2, <3>3 DEF NotLost
    <2>3. CASE ReconcileWrites(e)
        <3>1. /\ listed[e] \in {"queued", "failed"} /\ row'[e] = listed[e] /\ listed'[e] = "no"
              /\ job' = job
            BY <1>1, <2>3 DEF ReconcileWrites, SetRow, ExecutionsType, StartsType
        <3>2. row[e] \in Finished \cup {"cancelling"} => Excepted(e)'
            BY <2>3 DEF ReconcileWrites, Overtaken, Excepted
        <3>3. row[e] # "none"
            BY <1>1, <3>1 DEF AddersFit
        <3>4. Settled(e) => Settled(e)'
            BY <1>4, <3>2 DEF Settled
        <3>5. CASE listed[e] = "queued"
            <4>1. ~Adding(e)
                BY <1>4, <3>5 DEF NotLost
            <4>2. Attended(e)'
                <5>1. CASE row[e] \in {"queued", "running"}
                    BY <1>4, <3>1, <3>5, <4>1, <5>1 DEF NotLost, Open, Attended
                <5>2. CASE row[e] \in Finished \cup {"cancelling"}
                    BY <3>2, <5>2 DEF Attended
                <5> QED BY <1>1, <3>3, <5>1, <5>2 DEF ExecutionsType, Open
            <4> QED BY <1>4, <3>1, <3>4, <3>5, <4>1, <4>2 DEF NotLost
        <3>6. CASE listed[e] = "failed"
            BY <1>4, <3>1, <3>6 DEF NotLost, Settled, Finished, Open
        <3> QED BY <3>1, <3>5, <3>6
    <2> QED BY <2>1, <2>2, <2>3 DEF ExecutionStep
<1>8. \A a \in Starter : Cancels(a)' => a \in Request
    BY <1>2 DEF NoneLost, Cancels, starters
<1> QED BY <1>5, <1>7, <1>8 DEF NoneLost

\* A start lists what looks interrupted, and so finds what was stranded without
\* a job.
LEMMA StartLosesNone ==
    ASSUME JobInv, NoneLost, StartReplica
    PROVE  NoneLost'
<1>1. ExecutionsType /\ StartsType /\ JobsHeld /\ AddersFit
    BY TypeGroups DEF JobInv
<1>2. UNCHANGED <<starters, executions, runners, overtaken>>
    BY DEF StartReplica
<1>3. ASSUME NEW e \in Execution PROVE NotLost(e)'
    <2>1. /\ NotLost(e) /\ (Adding(e)' <=> Adding(e)) /\ row'[e] = row[e] /\ job'[e] = job[e]
          /\ \A s \in {"cancelling", "cancelled"} : Writing(e, s)' <=> Writing(e, s)
          /\ \A r \in Runner : Reporting(r, e)' <=> Reporting(r, e)
        BY <1>2 DEF NoneLost, Adding, Adds, Writing, Reporting, FinalAttempt, starters,
           executions, runners
    <2>2. CASE e \in NewlyListed
        <3>1. listed'[e] = "listed" /\ listed[e] = "no" /\ row[e] \in {"queued", "running"}
            BY <2>2 DEF StartReplica, NewlyListed
        <3>2. job[e] # "missing" => (Excepted(e) => Excepted(e)')
            BY <1>2 DEF StartReplica, Excepted
        <3>3. job[e] # "missing" => (Settled(e) => Settled(e)')
            BY <2>1, <3>2 DEF Settled
        <3>4. \A r \in Runner : Reporting(r, e) => job[e] = "active"
            BY <1>1, ScheduleAssumption DEF Reporting, JobsHeld
        <3> QED BY <2>1, <3>1, <3>3, <3>4 DEF NotLost, Attended
    <2>3. CASE e \notin NewlyListed
        <3>1. listed'[e] = listed[e] /\ (Excepted(e) => Excepted(e)')
            BY <1>2, <2>3 DEF StartReplica, Excepted
        <3>2. Settled(e) => Settled(e)'
            BY <2>1, <3>1 DEF Settled
        <3>3. Attended(e) => Attended(e)'
            BY <2>1, <2>3, <3>1 DEF Attended, Interrupted, NewlyListed
        <3> QED BY <2>1, <3>1, <3>2, <3>3 DEF NotLost
    <2> QED BY <2>2, <2>3
<1>4. \A a \in Starter : Cancels(a)' => a \in Request
    BY <1>2 DEF NoneLost, Cancels, starters
<1> QED BY <1>3, <1>4 DEF NoneLost

\* A death leaves what it was adding or reconciling to the start that follows.
LEMMA CrashLosesNone ==
    ASSUME JobInv, NoneLost, NEW a \in Starter, NEW R \in SUBSET Runner,
           NEW L \in SUBSET Execution, Crash(a, R, L)
    PROVE  NoneLost'
<1>1. StartersType /\ ExecutionsType /\ StartsType /\ JobsHeld /\ AddersFit
    BY TypeGroups DEF JobInv
<1>2. /\ UNCHANGED <<executions, overtaken, stranded>> /\ replicas' = "dead" /\ a \in Dispatcher
      /\ \A r \in Runner : (pc'[r] = pc[r] /\ at'[r] = at[r]) \/ at'[r] = None
      /\ \A e \in Execution : listed'[e] = listed[e] \/ listed'[e] = "no"
    BY DEF Crash, history
<1>3. /\ step'[a] = "idle"
      /\ \A b \in Starter \ {a} : step'[b] = step[b] /\ exec'[b] = exec[b] /\ note'[b] = note[b]
    BY <1>1, RestsTyped DEF Crash
<1>4. ~Cancels(a)
    BY <1>2, ScheduleAssumption DEF NoneLost
<1>5. \A b \in Starter : Cancels(b)' => b \in Request
    BY <1>3 DEF NoneLost, Cancels
<1>6. ASSUME NEW e \in Execution PROVE NotLost(e)'
    <2>1. /\ NotLost(e) /\ (Excepted(e)' <=> Excepted(e)) /\ row'[e] = row[e] /\ job'[e] = job[e]
          /\ (Adding(e)' => Adding(e)) /\ e # None
          /\ \A s \in {"cancelling", "cancelled"} : Writing(e, s)' <=> Writing(e, s)
        BY <1>2, <1>3, <1>4, ScheduleAssumption
           DEF NoneLost, Excepted, Adding, Adds, Writing, Cancels, executions
    <2>2. \A r \in Runner : Reporting(r, e)' => Reporting(r, e)
        BY <1>2, <2>1 DEF Reporting, FinalAttempt, executions
    <2>3. Settled(e) => Settled(e)'
        BY <2>1 DEF Settled
    <2>4. row[e] \in Open => Attended(e)'
        <3>1. CASE Excepted(e) \/ job[e] \in {"waiting", "active"} \/ Writing(e, "cancelled")
            BY <2>1, <3>1 DEF Attended
        <3>2. CASE job[e] \in {"completed", "failed"} /\ row[e] \in Open
            BY <2>1, <3>2 DEF NotLost, Settled, Attended, Open, Finished
        <3>3. CASE job[e] = "missing" /\ row[e] = "cancelling"
            BY <2>1, <3>3 DEF NotLost, Attended
        <3>4. CASE job[e] = "missing" /\ row[e] \in {"queued", "running"}
            <4>1. listed'[e] \in {"no", "listed", "failed"} => Attended(e)'
                BY <1>2, <2>1, <3>4 DEF Attended, Interrupted
            <4>2. CASE listed[e] # "queued"
                BY <1>1, <1>2, <4>1, <4>2 DEF StartsType
            <4>3. CASE listed[e] = "queued"
                BY <2>1, <3>1, <3>4, <4>3 DEF NotLost, Attended, Open
            <4> QED BY <4>2, <4>3
        <3> QED BY <1>1, <3>1, <3>2, <3>3, <3>4 DEF ExecutionsType, JobStates, Open
    <2>5. Adding(e)' => listed'[e] # "queued"
        BY <1>2, <2>1 DEF NotLost
    <2> QED BY <2>1, <2>2, <2>3, <2>4, <2>5 DEF NotLost
<1> QED BY <1>5, <1>6 DEF NoneLost

\* No step leaves an open execution without somebody who attends to it.
LEMMA NextNoneLost == JobInv /\ NoneLost /\ [Next]_vars => NoneLost'
<1> SUFFICES ASSUME JobInv, NoneLost, [Next]_vars PROVE NoneLost'
    OBVIOUS
<1>1. ASSUME UNCHANGED <<starters, executions, runners, starts, history>> PROVE NoneLost'
    BY <1>1 DEF NoneLost, NotLost, Attended, Interrupted, Settled, Excepted, Adding, Adds, Writing,
       Reporting, FinalAttempt, Cancels, starters, executions, runners, starts, history
<1>2. CASE Tick \/ UNCHANGED vars
    BY <1>1, <1>2 DEF Tick, vars
<1>3. ASSUME NEW t \in Task, TaskStep(t) PROVE NoneLost'
    BY <1>1, <1>3 DEF TaskStep, Approve, Reject, Expire
<1>4. ASSUME NEW a \in Starter, StarterStep(a) PROVE NoneLost'
    <2>1. ~Cancels(a) \/ (exec[a] \in Execution /\ job[exec[a]] \in JobStates)
        BY TypeGroups DEF JobInv, StartersFit, ExecutionsType
    <2>2. CancelLooks(a) \/ CancelRemoves(a) \/ CancelWrites(a) => Cancels(a)
        BY DEF CancelLooks, CancelRemoves, CancelWrites, Cancels
    <2> QED BY <1>4, <2>1, <2>2, ClaimLosesNone, EnqueueLosesNone, CancelLosesNone
            DEF StarterStep, JobStates
<1> QED BY <1>2, <1>3, <1>4, ClaimLosesNone, EnqueueLosesNone, RunnerLosesNone, ExecutionLosesNone,
           StartLosesNone, CrashLosesNone DEF Next

\* The safety half of ExecutionsEnd, for any number of deaths: an execution that
\* is open is in somebody's hands (enqueueExecution, processExecution,
\* cancelExecution and reconcile hand it on to one another), unless a write by
\* id came too late on it or it is stranded: by a failed call, by the death of
\* the pod of a request, or by a job that stalled too often.
THEOREM AttendedAlways ==
    Spec => [](\A e \in Execution : row[e] \in Open => Attended(e))
<1>1. NoneLost => \A e \in Execution : row[e] \in Open => Attended(e)
    BY DEF NoneLost, NotLost
<1> QED BY <1>1, JobInvAlways, InitNoneLost, NextNoneLost, PTL DEF Spec
===============================================================================
