--------------------------- MODULE DatabaseTransfer ---------------------------
(***************************************************************************)
(* Database transfers: copies of tables into another database (migration)  *)
(* or into files (backup), dumps and their restoration (native_backup,     *)
(* native_restore).  Every worker replica ticks; a tick fails the running  *)
(* transfers without a heartbeat, claims the oldest queued one and runs it *)
(* to its end.  Users cancel and retry meanwhile; an approver lets every   *)
(* migration and every restoration through first.                          *)
(*                                                                         *)
(* An executor looks at the row between batches and writes its outcome by  *)
(* id, and a request looks at the row before it writes by id.  The ghost   *)
(* variable `overtaken' collects the transfers on which one of these came  *)
(* too late, `shuffled' those whose source returned its rows in another    *)
(* order from one page to the next; what is promised of the others is      *)
(* stated below.                                                           *)
(***************************************************************************)
EXTENDS FiniteSets, Integers

CONSTANTS
    Transfer,  \* numbered in the order of requestedAt
    KindsOf,   \* [Transfer -> the kinds it may be created with]
    Worker,    \* worker replicas; each runs one transfer at a time
    None,      \* no transfer
    Tables,    \* number of tables of a transfer
    Batches,   \* [table -> number of its batches, of up to 500 rows]
    Happens,   \* the kinds of events that are not plain progress
    MaxEvents  \* bound: such events in a behaviour

\* backup_into: a backup whose row names a target database too.
Kinds == {"migration", "backup", "backup_into", "native_backup", "native_restore"}
EventKinds == {"cancel", "late", "retry", "crash", "error", "stall", "shuffle"}
MaxCopies == 2 \* bound: more copies of a batch than one are all alike
MaxLate == 4   \* bound: more late writes than three are all alike

ASSUME DatabaseTransferAssumption ==
    /\ Transfer \subseteq Nat /\ IsFiniteSet(Transfer) /\ None \notin Transfer
    /\ KindsOf \in [Transfer -> SUBSET Kinds]
    /\ Tables \in Nat \ {0} /\ Batches \in [1..Tables -> Nat]
    /\ Happens \subseteq EventKinds /\ MaxEvents \in Nat

VARIABLES
    kind, status, strategy, \* the row: kind, status, conflictStrategy,
    cancelRequested,        \* cancelRequested,
    counted,                \* and migratedRows > 0
    made,      \* [Transfer -> tables that exist in the target database]
    copies,    \* [Transfer -> [batch of a table -> how often it is in the
               \* target database of a migration, or in the files of a backup]]
    request,   \* the status a request has seen and will write upon
    pc, at,    \* where each worker stands, and with which transfer
    plan,      \* conflictStrategy as its executor has read it
    table, offset, \* local variables of runTransfer
    late,      \* ghost: writes to the target since the user cancelled
    overtaken, \* ghost: see above
    shuffled,  \* ghost: see above
    events     \* events so far

row == <<kind, status, strategy, cancelRequested, counted>>
target == <<made, copies, late>>
executors == <<pc, at, plan, table, offset>>
history == <<overtaken, shuffled>>
vars == <<row, target, request, executors, history, events>>

NeedsApproval(k) == k \in {"migration", "native_restore"}
HasTarget(k) == k \in {"migration", "backup_into"} \* a target database
Appends(k, s) == k = "migration" /\ s = "append"
Strategies == {"fail", "append", "replace"}
Finished == {"succeeded", "failed", "cancelled", "rejected"}
Statuses == Finished \cup {"none", "pending_approval", "queued", "running"}
Labels == {"idle", "found", "load", "look", "allow", "command", "verify",
           "table", "exists", "drop", "create", "truncate",
           "batch", "copy", "count", "next", "finish", "fail", "stop"}
Cell == UNION {{<<i, b>> : b \in 1..Batches[i]} : i \in 1..Tables}
Empty == [c \in Cell |-> 0]
Full == [c \in Cell |-> 1]

TypeOK ==
    /\ kind \in [Transfer -> Kinds] /\ status \in [Transfer -> Statuses]
    /\ strategy \in [Transfer -> Strategies]
    /\ cancelRequested \in [Transfer -> BOOLEAN]
    /\ counted \in [Transfer -> BOOLEAN]
    /\ made \in [Transfer -> SUBSET (1..Tables)]
    /\ copies \in [Transfer -> [Cell -> 0..MaxCopies]]
    /\ request \in [Transfer -> Statuses]
    /\ pc \in [Worker -> Labels] /\ at \in [Worker -> Transfer \cup {None}]
    /\ plan \in [Worker -> Strategies]
    /\ table \in [Worker -> 1..Tables]
    /\ offset \in [Worker -> Nat] /\ \A w \in Worker : offset[w] <= Batches[table[w]]
    /\ late \in [Transfer -> 0..MaxLate]
    /\ overtaken \subseteq Transfer /\ shuffled \subseteq Transfer
    /\ events \in 0..MaxEvents

(* Targets are empty at first; what they may hold before is not of interest. *)
Init ==
    /\ kind = [t \in Transfer |-> "migration"]
    /\ status = [t \in Transfer |-> "none"]
    /\ strategy = [t \in Transfer |-> "fail"]
    /\ cancelRequested = [t \in Transfer |-> FALSE]
    /\ counted = [t \in Transfer |-> FALSE]
    /\ made = [t \in Transfer |-> {}] /\ copies = [t \in Transfer |-> Empty]
    /\ request = [t \in Transfer |-> "none"]
    /\ pc = [w \in Worker |-> "idle"] /\ at = [w \in Worker |-> None]
    /\ plan = [w \in Worker |-> "fail"]
    /\ table = [w \in Worker |-> 1] /\ offset = [w \in Worker |-> 0]
    /\ late = [t \in Transfer |-> 0] /\ events = 0
    /\ overtaken = {} /\ shuffled = {}

-------------------------------------------------------------------------------
(* Helpers *)

Event(e) == e \in Happens /\ events < MaxEvents /\ events' = events + 1

Executing(w) == pc[w] \notin {"idle", "found"}
Executors(t) == {w \in Worker : Executing(w) /\ at[w] = t}
Goto(w, label) == pc' = [pc EXCEPT ![w] = label]
Idle(w) ==
    /\ Goto(w, "idle") /\ at' = [at EXCEPT ![w] = None]
    /\ plan' = [plan EXCEPT ![w] = "fail"]
    /\ table' = [table EXCEPT ![w] = 1] /\ offset' = [offset EXCEPT ![w] = 0]

SetStatus(t, s) == status' = [status EXCEPT ![t] = s]
NotOvertaken == UNCHANGED history
Overtaken(t) == overtaken' = overtaken \cup {t} /\ UNCHANGED shuffled

(* A write to the target; `late' counts those after the user cancelled. *)
Written(t, m, c) ==
    /\ made' = [made EXCEPT ![t] = m] /\ copies' = [copies EXCEPT ![t] = c]
    /\ late' = [late EXCEPT ![t] =
                   IF cancelRequested[t] /\ @ < MaxLate THEN @ + 1 ELSE @]

-------------------------------------------------------------------------------
(* Requests of users and approvers *)

(* createTransfer and createNativeRestore: the latter from a finished dump. *)
(* The strategy of a transfer without target database is never read.        *)
Create(t, k, s) ==
    /\ status[t] = "none" /\ \A u \in Transfer : u < t => status[u] # "none"
    /\ k = "native_restore" =>
           \E u \in Transfer : kind[u] = "native_backup" /\ status[u] = "succeeded"
    /\ HasTarget(k) \/ s = "fail"
    /\ kind' = [kind EXCEPT ![t] = k]
    /\ strategy' = [strategy EXCEPT ![t] = s]
    /\ SetStatus(t, IF NeedsApproval(k) THEN "pending_approval" ELSE "queued")
    /\ UNCHANGED <<cancelRequested, counted, target, request, executors,
                   history, events>>

Review(t, s) ==
    /\ status[t] = "pending_approval" /\ SetStatus(t, s)
    /\ UNCHANGED <<kind, strategy, cancelRequested, counted, target, request,
                   executors, history, events>>

Approve(t) == Review(t, "queued")
Reject(t) == Review(t, "rejected")

(* What cancelTransfer writes for a transfer it saw running, or elsewhere. *)
CancelledAtOnce(t, seen) == "cancelled"
CancelledStatus(t, seen) == IF seen = "running" THEN status[t] ELSE "cancelled"
CancelMeans(t, seen) ==
    /\ SetStatus(t, CancelledStatus(t, seen))
    /\ cancelRequested' = [cancelRequested EXCEPT ![t] = TRUE]
    /\ UNCHANGED <<kind, strategy, counted, target>>

MayRetry(t, s) == kind[t] = "migration" /\ counted[t] => s = "replace"
RetryMeans(t, s) ==
    /\ strategy' = [strategy EXCEPT ![t] = s]
    /\ SetStatus(t, IF NeedsApproval(kind[t]) THEN "pending_approval" ELSE "queued")
    /\ cancelRequested' = [cancelRequested EXCEPT ![t] = FALSE]
    /\ counted' = [counted EXCEPT ![t] = FALSE]
    /\ late' = [late EXCEPT ![t] = 0]
    /\ UNCHANGED <<kind, made, copies>>

Cancellable == {"pending_approval", "queued", "running"}
Retryable == {"failed", "cancelled"}

(* The look at the row and the write, with nothing in between. *)
Cancel(t) ==
    /\ status[t] \in Cancellable /\ CancelMeans(t, status[t]) /\ Event("cancel")
    /\ UNCHANGED <<request, executors, history>>

Retry(t, s) ==
    /\ status[t] \in Retryable /\ MayRetry(t, s)
    /\ HasTarget(kind[t]) \/ s = strategy[t]
    /\ RetryMeans(t, s) /\ Event("retry")
    /\ UNCHANGED <<request, executors, history>>

(* The two with something in between.  A retry names no strategy here. *)
LookFirst(t) ==
    /\ status[t] \in Cancellable \cup Retryable /\ request[t] = "none"
    /\ status[t] \in Retryable => MayRetry(t, strategy[t])
    /\ request' = [request EXCEPT ![t] = status[t]] /\ Event("late")
    /\ UNCHANGED <<row, target, executors, history>>

WriteUpon(t) ==
    /\ request[t] # "none"
    /\ IF request[t] \in Retryable
       THEN RetryMeans(t, strategy[t])
       ELSE CancelMeans(t, request[t])
    /\ request' = [request EXCEPT ![t] = "none"]
    /\ IF status[t] # request[t] THEN Overtaken(t) ELSE NotOvertaken
    /\ UNCHANGED <<executors, events>>

-------------------------------------------------------------------------------
(* dispatchTransfer: the sweep, the claim and the outcome *)

(* The heartbeat is two minutes old: nobody runs the transfer any more ... *)
OverdueAndUnwanted(t) ==
    cancelRequested[t] /\ status[t] = "running" /\ Executors(t) = {}
Overdue(t) == status[t] = "running" /\ Executors(t) = {}

Sweep(w, t) ==
    /\ pc[w] = "idle" /\ Overdue(t) /\ SetStatus(t, "failed")
    /\ UNCHANGED <<kind, strategy, cancelRequested, counted, target, request,
                   executors, history, events>>

(* ... or its executor is slow: a batch that takes longer than that. *)
SweepAlive(w, t) ==
    /\ pc[w] = "idle" /\ status[t] = "running" /\ Executors(t) # {}
    /\ SetStatus(t, "failed") /\ Overtaken(t) /\ Event("stall")
    /\ UNCHANGED <<kind, strategy, cancelRequested, counted, target, request,
                   executors>>

Find(w, t) ==
    /\ pc[w] = "idle" /\ status[t] = "queued"
    /\ \A u \in Transfer : status[u] = "queued" => t <= u
    /\ Goto(w, "found") /\ at' = [at EXCEPT ![w] = t]
    /\ UNCHANGED <<row, target, request, plan, table, offset, history, events>>

StillThere(t) == status[t] # "none"
StillQueued(t) == status[t] = "queued"

Claim(w) ==
    /\ pc[w] = "found"
    /\ IF StillQueued(at[w])
       THEN /\ SetStatus(at[w], "running") /\ Goto(w, "load")
            /\ UNCHANGED <<at, plan, table, offset>>
       ELSE Idle(w) /\ UNCHANGED status
    /\ UNCHANGED <<kind, strategy, cancelRequested, counted, target, request,
                   history, events>>

(* The last write of an executor, by id whatever the row says. *)
Outcome(w, label, s) ==
    /\ pc[w] = label /\ SetStatus(at[w], s) /\ Idle(w)
    /\ UNCHANGED <<kind, strategy, cancelRequested, counted, target, request,
                   history, events>>

Succeed(w) == Outcome(w, "finish", "succeeded")
Fail(w) == Outcome(w, "fail", "failed")
Stop(w) == Outcome(w, "stop", "cancelled")

-------------------------------------------------------------------------------
(* runTransfer, one step for each access to the row or to the target *)

Running(t) == status[t] = "running"
Active(t) == Running(t) /\ ~cancelRequested[t] \* ensureTransferActive

Load(w) ==
    LET t == at[w] IN
    /\ pc[w] = "load"
    /\ plan' = [plan EXCEPT ![w] = strategy[t]]
    /\ Goto(w, CASE kind[t] = "native_backup" -> "command"
                 [] kind[t] = "native_restore" -> "look"
                 [] OTHER -> "table")
    /\ UNCHANGED <<row, target, request, at, table, offset, history, events>>

(* A restoration finds no table in its database. *)
LookAtTarget(w) ==
    /\ pc[w] = "look"
    /\ Goto(w, IF made[at[w]] = {} THEN "allow" ELSE "fail")
    /\ UNCHANGED <<row, target, request, at, plan, table, offset, history, events>>

(* pg_dump, mariadb-dump, pg_restore or mariadb has ended; a dump is a file. *)
Made(t) == IF kind[t] = "native_restore" THEN 1..Tables ELSE made[t]

Command(w) ==
    LET t == at[w] IN
    /\ pc[w] = "command" /\ ~cancelRequested[t]
    /\ Written(t, Made(t), Full)
    /\ Goto(w, IF kind[t] = "native_backup" THEN "verify" ELSE "finish")
    /\ UNCHANGED <<row, request, at, plan, table, offset, history, events>>

(* It was killed, or failed, with some of its work done. *)
CommandFails(w) ==
    LET t == at[w] IN
    /\ pc[w] = "command"
    /\ \E m \in {made[t], Made(t)} : Written(t, m, Empty)
    /\ \/ cancelRequested[t] /\ Goto(w, "stop") /\ UNCHANGED events
       \/ ~cancelRequested[t] /\ Goto(w, "fail") /\ Event("error")
    /\ UNCHANGED <<row, request, at, plan, table, offset, history>>

(* ensureTransferActive, and where the executor goes on. *)
Check(w, label, next) ==
    /\ pc[w] = label
    /\ Goto(w, IF Active(at[w]) THEN next ELSE "stop")
    /\ UNCHANGED <<row, target, request, at, plan, table, offset, history, events>>

Verify(w) == Check(w, "verify", "finish")
Allow(w) == Check(w, "allow", "command")
StartTable(w) == Check(w, "table", IF HasTarget(kind[at[w]]) THEN "exists" ELSE "truncate")
StartBatch(w) == Check(w, "batch", "copy")

(* targetTableExists: what the strategy says of a table that is there. *)
TableExists(w) ==
    LET t == at[w] IN
    /\ pc[w] = "exists"
    /\ Goto(w, IF table[w] \notin made[t] \/ plan[w] = "append" THEN "create"
               ELSE IF plan[w] = "replace" THEN "drop" ELSE "fail")
    /\ UNCHANGED <<row, target, request, at, plan, table, offset, history, events>>

(* The copies of the other tables; a backup's are files, not the database. *)
Emptied(w) == [c \in Cell |-> IF c[1] = table[w] THEN 0 ELSE copies[at[w]][c]]
Rows(w) == IF kind[at[w]] = "migration" THEN Emptied(w) ELSE copies[at[w]]

DropTable(w) ==
    LET t == at[w] IN
    /\ pc[w] = "drop"
    /\ IF table[w] \in made[t]
       THEN Written(t, made[t] \ {table[w]}, Rows(w)) /\ Goto(w, "create")
       ELSE Goto(w, "fail") /\ UNCHANGED target
    /\ UNCHANGED <<row, request, at, plan, table, offset, history, events>>

(* CREATE TABLE IF NOT EXISTS: a table that is there keeps what it has. *)
EnsureTable(w) ==
    LET t == at[w] IN
    /\ pc[w] = "create"
    /\ Written(t, made[t] \cup {table[w]},
               IF table[w] \in made[t] THEN copies[t] ELSE Rows(w))
    /\ Goto(w, IF kind[t] = "migration" THEN "batch" ELSE "truncate")
    /\ UNCHANGED <<row, request, at, plan, table, offset, history, events>>

(* The file of a backup is emptied, whatever the strategy is. *)
Kept(w) == copies[at[w]]
Truncated(w) == Emptied(w)

Truncate(w) ==
    /\ pc[w] = "truncate"
    /\ Written(at[w], made[at[w]], Truncated(w)) /\ Goto(w, "batch")
    /\ UNCHANGED <<row, request, at, plan, table, offset, history, events>>

AllReadAndMore(w) == offset[w] > Batches[table[w]]
AllRead(w) == offset[w] = Batches[table[w]]

EndOfTable(w) ==
    /\ pc[w] = "copy" /\ AllRead(w) /\ Goto(w, "next")
    /\ UNCHANGED <<row, target, request, at, plan, table, offset, history, events>>

(* The rows of batch b arrive at the target as the next page. *)
Insert(w, b) ==
    LET t == at[w] IN
    /\ pc[w] = "copy" /\ ~AllRead(w)
    /\ Written(t, made[t], [copies[t] EXCEPT ![<<table[w], b>>] =
                               IF @ < MaxCopies THEN @ + 1 ELSE @])
    /\ offset' = [offset EXCEPT ![w] = @ + 1]
    /\ Goto(w, "count")
    /\ UNCHANGED <<row, request, at, plan, table>>

Copy(w) == Insert(w, offset[w] + 1) /\ UNCHANGED <<history, events>>

(* LIMIT and OFFSET without ORDER BY: the source may return its rows in    *)
(* another order, or has others by now, and the page has been read before. *)
CopyOther(w) ==
    /\ \E b \in 1..Batches[table[w]] \ {offset[w] + 1} : Insert(w, b)
    /\ shuffled' = shuffled \cup {at[w]} /\ UNCHANGED overtaken
    /\ Event("shuffle")

(* migratedRows, heartbeat and checkpoint; a short batch is the last one. *)
Count(w) ==
    /\ pc[w] = "count"
    /\ counted' = [counted EXCEPT ![at[w]] = TRUE]
    /\ \/ Goto(w, "batch")
       \/ AllRead(w) /\ Goto(w, "next")
    /\ UNCHANGED <<kind, status, strategy, cancelRequested, target, request, at,
                   plan, table, offset, history, events>>

NextTable(w) ==
    /\ pc[w] = "next"
    /\ IF table[w] = Tables
       THEN Goto(w, "finish") /\ UNCHANGED table
       ELSE Goto(w, "table") /\ table' = [table EXCEPT ![w] = @ + 1]
    /\ offset' = [offset EXCEPT ![w] = 0]
    /\ UNCHANGED <<row, target, request, at, plan, history, events>>

(* A step throws: the outcome is `failed'; if writing it fails, nothing is. *)
Throws(w) ==
    /\ Executing(w) /\ pc[w] # "command" /\ Event("error")
    /\ IF pc[w] \in {"fail", "stop"}
       THEN Idle(w)
       ELSE Goto(w, "fail") /\ UNCHANGED <<at, plan, table, offset>>
    /\ UNCHANGED <<row, target, request, history>>

Crash(w) ==
    /\ Executing(w) /\ Event("crash") /\ Idle(w)
    /\ UNCHANGED <<row, target, request, history>>

-------------------------------------------------------------------------------
Requests(t) ==
    \/ \E k \in KindsOf[t], s \in Strategies : Create(t, k, s)
    \/ Approve(t) \/ Reject(t) \/ Cancel(t)
    \/ \E s \in Strategies : Retry(t, s)
    \/ LookFirst(t)

Dispatch(w) == \E t \in Transfer : Sweep(w, t) \/ Find(w, t)

Step(w) ==
    \/ Claim(w) \/ Load(w) \/ Command(w) \/ (CommandFails(w) /\ cancelRequested[at[w]])
    \/ LookAtTarget(w) \/ Allow(w) \/ Verify(w) \/ StartTable(w) \/ TableExists(w)
    \/ DropTable(w) \/ EnsureTable(w) \/ Truncate(w) \/ StartBatch(w)
    \/ EndOfTable(w) \/ Copy(w) \/ Count(w) \/ NextTable(w) \/ Succeed(w) \/ Fail(w) \/ Stop(w)

Trouble(w) ==
    \/ CommandFails(w) \/ CopyOther(w) \/ Throws(w) \/ Crash(w)
    \/ \E t \in Transfer : SweepAlive(w, t)

Next ==
    \/ \E t \in Transfer : Requests(t) \/ WriteUpon(t)
    \/ \E w \in Worker : Dispatch(w) \/ Step(w) \/ Trouble(w)

Spec == Init /\ [][Next]_vars

(* A worker ticks every two seconds and goes on with what it runs. *)
FairSpec == Spec /\ \A w \in Worker : WF_vars(Dispatch(w)) /\ WF_vars(Step(w))

-------------------------------------------------------------------------------
(* Properties *)

(* The claim of a queued transfer and the sweep of a silent one: replicas  *)
(* that crash and are replaced never run one transfer twice at a time,     *)
(* unless a sweep or a request came too late on it.                        *)
OneExecutor ==
    \A t \in Transfer \ overtaken : \A v, w \in Executors(t) : v = w

(* runTransfer and the rule for retries: the target of a succeeded transfer *)
(* has every batch of every table, and has none twice unless it is a        *)
(* migration that appends, whatever earlier runs had left there.            *)
SucceededIsComplete ==
    \A t \in Transfer \ (overtaken \cup shuffled) : status[t] = "succeeded" =>
        \A c \in Cell :
            /\ copies[t][c] >= 1
            /\ ~Appends(kind[t], strategy[t]) => copies[t][c] = 1

(* cancelTransfer on a running transfer only asks: what an executor writes *)
(* between two looks at the row may still reach the target: a batch or a   *)
(* command, or the preparation of one table, which drops it, makes it and  *)
(* empties a file; and nothing after that.                                 *)
BetweenLooks(k) == CASE k = "migration" -> 2 [] k = "backup_into" -> 3 [] OTHER -> 1
CancelStopsAtNextLook ==
    \A t \in Transfer \ overtaken : late[t] <= BetweenLooks(kind[t])

(* The outcome of a transfer is final until it is retried: no executor and *)
(* no sweep, all of which write by id or by status, changes it later.      *)
FinishedStays ==
    [][\A t \in Transfer \ overtaken' : status[t] \in Finished =>
           \/ status'[t] = status[t]
           \/ status[t] \in Retryable /\ status'[t] \in {"pending_approval", "queued"}]_vars

(* Whatever crashes, fails or comes too late: every transfer that was let *)
(* through ends, be it by the sweep.                                      *)
TransfersEnd ==
    \A t \in Transfer : status[t] \in {"queued", "running"} ~>
                        status[t] \notin {"queued", "running"}
===============================================================================
