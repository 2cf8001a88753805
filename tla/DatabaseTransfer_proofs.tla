------------------------ MODULE DatabaseTransfer_proofs ------------------------
(***************************************************************************)
(* Proofs about DatabaseTransfer: for any transfers, workers, tables and   *)
(* batches, and any number of events, a transfer on which nothing came too *)
(* late has one executor, keeps its outcome, is written after approval,    *)
(* until the next look after a cancellation, and is complete when it       *)
(* succeeded.                                                              *)
(***************************************************************************)
EXTENDS DatabaseTransfer, TLAPS

AtFits == \A w \in Worker : at[w] = None <=> pc[w] = "idle"

RequestsFit == \A t \in Transfer : request[t] \in Cancellable \cup Retryable \cup {"none"}

(***************************************************************************)
(* Whoever executes a transfer is alone and finds its row running: a claim *)
(* takes it from queued, a sweep waits until nobody executes it.           *)
(***************************************************************************)
Sole ==
    /\ \A v, w \in Worker :
          Executing(v) /\ Executing(w) /\ at[v] = at[w] /\ at[w] \notin overtaken => v = w
    /\ \A w \in Worker : Executing(w) /\ at[w] \notin overtaken => status[at[w]] = "running"

RowInv == TypeOK /\ AtFits /\ RequestsFit /\ Sole

-------------------------------------------------------------------------------
(* Types, rows and executors *)

\* Nobody executes anything at first.
LEMMA InitRowInv == Init => RowInv
<1> SUFFICES ASSUME Init PROVE RowInv
    OBVIOUS
<1>1. 1 \in 1..Tables /\ 0 <= Batches[1] /\ events \in 0..MaxEvents
    BY DatabaseTransferAssumption DEF Init
<1>2. copies \in [Transfer -> [Cell -> 0..MaxCopies]]
    BY DEF Init, Empty, MaxCopies
<1>3. table \in [Worker -> 1..Tables] /\ offset \in [Worker -> Nat]
    BY <1>1 DEF Init
<1>4. \A w \in Worker : offset[w] <= Batches[table[w]]
    BY <1>1 DEF Init
<1>5. late \in [Transfer -> 0..MaxLate]
    BY DEF Init, MaxLate
<1>6. made \in [Transfer -> SUBSET (1..Tables)]
    BY DEF Init
<1>7. TypeOK
    BY <1>1, <1>2, <1>3, <1>4, <1>5, <1>6, Zenon
       DEF Init, TypeOK, Kinds, Statuses, Finished, Strategies, Labels
<1>8. AtFits /\ RequestsFit /\ Sole
    BY DatabaseTransferAssumption DEF Init, AtFits, RequestsFit, Sole, Executing
<1> QED BY <1>7, <1>8 DEF RowInv

-------------------------------------------------------------------------------
(* TypeOK in its parts, of which a step changes few. *)

KindType == kind \in [Transfer -> Kinds] /\ strategy \in [Transfer -> Strategies]
StatusType == status \in [Transfer -> Statuses]
FlagType == cancelRequested \in [Transfer -> BOOLEAN] /\ counted \in [Transfer -> BOOLEAN]
TargetType ==
    /\ made \in [Transfer -> SUBSET (1..Tables)]
    /\ copies \in [Transfer -> [Cell -> 0..MaxCopies]] /\ late \in [Transfer -> 0..MaxLate]
PlaceType ==
    /\ pc \in [Worker -> Labels] /\ at \in [Worker -> Transfer \cup {None}]
    /\ plan \in [Worker -> Strategies]
LoopType ==
    /\ table \in [Worker -> 1..Tables] /\ offset \in [Worker -> Nat]
    /\ \A w \in Worker : offset[w] <= Batches[table[w]]
RestType ==
    /\ request \in [Transfer -> Statuses]
    /\ overtaken \subseteq Transfer /\ shuffled \subseteq Transfer
EventType == events \in 0..MaxEvents

\* Together they are the type invariant ...
LEMMA TypeParts ==
    TypeOK <=> /\ KindType /\ StatusType /\ FlagType /\ TargetType /\ PlaceType
               /\ LoopType /\ RestType /\ EventType
BY DEF TypeOK, KindType, StatusType, FlagType, TargetType, PlaceType, LoopType,
       RestType, EventType

\* ... before a step and after it.
LEMMA TypePartsNext ==
    TypeOK' <=> /\ KindType' /\ StatusType' /\ FlagType' /\ TargetType' /\ PlaceType'
                /\ LoopType' /\ RestType' /\ EventType'
BY DEF TypeOK, KindType, StatusType, FlagType, TargetType, PlaceType, LoopType,
       RestType, EventType

\* Events are counted up to their bound.
LEMMA EventTyped ==
    ASSUME EventType, NEW e, Event(e) \/ UNCHANGED events PROVE EventType'
BY DatabaseTransferAssumption DEF EventType, Event

\* A worker that goes elsewhere, with or without its local variables.
LEMMA GotoTyped ==
    ASSUME PlaceType, NEW w \in Worker, NEW label \in Labels, Goto(w, label),
           UNCHANGED <<at, plan>>
    PROVE  PlaceType'
BY DEF PlaceType, Goto

\* A worker that gives up what it ran.
LEMMA IdleTyped ==
    ASSUME PlaceType, LoopType, NEW w \in Worker, Idle(w) PROVE PlaceType' /\ LoopType'
<1>1. 1 \in 1..Tables /\ 0 <= Batches[1] /\ "idle" \in Labels /\ "fail" \in Strategies
    BY DatabaseTransferAssumption DEF Labels, Strategies
<1>2. PlaceType'
    BY <1>1 DEF PlaceType, Idle, Goto
<1>3. LoopType'
    BY <1>1 DEF LoopType, Idle
<1> QED BY <1>2, <1>3

\* A write leaves tables and copies behind, and is counted as late or not.
LEMMA WrittenTyped ==
    ASSUME TargetType, NEW t \in Transfer, NEW m \in SUBSET (1..Tables),
           NEW c \in [Cell -> 0..MaxCopies], Written(t, m, c)
    PROVE  TargetType'
BY DEF TargetType, Written, MaxLate

\* One more copy of a batch, up to the bound of the model.
LEMMA OneMoreTyped ==
    ASSUME NEW f \in [Cell -> 0..MaxCopies], NEW cell
    PROVE  [f EXCEPT ![cell] = IF @ < MaxCopies THEN @ + 1 ELSE @] \in [Cell -> 0..MaxCopies]
<1>1. CASE cell \in Cell
    BY <1>1 DEF MaxCopies
<1>2. CASE cell \notin Cell
    <2>1. [f EXCEPT ![cell] = IF @ < MaxCopies THEN @ + 1 ELSE @] = f
        BY <1>2
    <2> QED BY <2>1, Zenon
<1> QED BY <1>1, <1>2

\* A status is set to one of the known ones.
LEMMA StatusTyped ==
    ASSUME StatusType, NEW t, NEW s \in Statuses, SetStatus(t, s) PROVE StatusType'
BY DEF StatusType, SetStatus

\* Cancellation, retry and progress set the flags of a row.
LEMMA FlagsTyped ==
    ASSUME FlagType, NEW t,
           \/ cancelRequested' = [cancelRequested EXCEPT ![t] = TRUE] /\ counted' = counted
           \/ /\ cancelRequested' = [cancelRequested EXCEPT ![t] = FALSE]
              /\ counted' = [counted EXCEPT ![t] = FALSE]
           \/ counted' = [counted EXCEPT ![t] = TRUE] /\ cancelRequested' = cancelRequested
    PROVE  FlagType'
<1>1. FALSE \in BOOLEAN /\ TRUE \in BOOLEAN
    OBVIOUS
<1>2. \A f \in [Transfer -> BOOLEAN], b \in BOOLEAN : [f EXCEPT ![t] = b] \in [Transfer -> BOOLEAN]
    BY Zenon
<1> QED BY <1>1, <1>2, Zenon DEF FlagType

\* The requests of users and approvers keep the types.
LEMMA RequestTyped ==
    ASSUME TypeOK, NEW t \in Transfer, Requests(t) \/ WriteUpon(t)
    PROVE  TypeOK'
<1>0. /\ KindType /\ StatusType /\ FlagType /\ TargetType /\ PlaceType
      /\ LoopType /\ RestType /\ EventType
    BY TypeParts
<1>1. PlaceType' /\ LoopType'
    BY <1>0 DEF Requests, Create, Approve, Reject, Review, Cancel, Retry, LookFirst,
                WriteUpon, executors, PlaceType, LoopType
<1>2. EventType'
    BY <1>0, EventTyped DEF Requests, Create, Approve, Reject, Review, Cancel, Retry,
                            LookFirst, WriteUpon
<1>3. RestType'
    <2>0. shuffled' = shuffled
        BY DEF Requests, Create, Approve, Reject, Review, Cancel, Retry, LookFirst,
               WriteUpon, Overtaken, NotOvertaken, history
    <2>1. \/ UNCHANGED <<request, overtaken>>
          \/ request' = [request EXCEPT ![t] = status[t]] /\ UNCHANGED overtaken
          \/ /\ request' = [request EXCEPT ![t] = "none"]
             /\ overtaken' \in {overtaken, overtaken \cup {t}}
        BY DEF Requests, Create, Approve, Reject, Review, Cancel, Retry, LookFirst,
               WriteUpon, Overtaken, NotOvertaken, history
    <2>2. status[t] \in Statuses /\ "none" \in Statuses
        BY <1>0 DEF StatusType, Statuses
    <2> QED BY <1>0, <2>0, <2>1, <2>2 DEF RestType
<1>4. ASSUME NEW seen \in Statuses, CancelMeans(t, seen)
      PROVE  KindType' /\ StatusType' /\ FlagType' /\ TargetType'
    <2>1. CancelledStatus(t, seen) \in Statuses
        BY <1>0 DEF CancelledStatus, StatusType, Statuses, Finished
    <2>2. StatusType'
        BY <1>0, <1>4, <2>1, StatusTyped DEF CancelMeans
    <2>3. FlagType'
        BY <1>0, <1>4, FlagsTyped DEF CancelMeans
    <2> QED BY <1>0, <1>4, <2>2, <2>3 DEF CancelMeans, KindType, TargetType, target
<1>5. ASSUME NEW s \in Strategies, RetryMeans(t, s)
      PROVE  KindType' /\ StatusType' /\ FlagType' /\ TargetType'
    <2>1. StatusType'
        BY <1>0, <1>5, StatusTyped DEF RetryMeans, Statuses
    <2>2. FlagType'
        BY <1>0, <1>5, FlagsTyped DEF RetryMeans
    <2>3. TargetType'
        BY <1>0, <1>5 DEF RetryMeans, TargetType, MaxLate
    <2> QED BY <1>0, <1>5, <2>1, <2>2, <2>3 DEF RetryMeans, KindType
<1>6. KindType' /\ StatusType' /\ FlagType' /\ TargetType'
    <2>1. ASSUME NEW k \in KindsOf[t], NEW s \in Strategies, Create(t, k, s)
          PROVE  KindType' /\ StatusType' /\ FlagType' /\ TargetType'
        <3>1. k \in Kinds
            BY DatabaseTransferAssumption
        <3>2. StatusType'
            BY <1>0, <2>1, StatusTyped DEF Create, Statuses
        <3> QED BY <1>0, <2>1, <3>1, <3>2 DEF Create, KindType, FlagType, TargetType, target
    <2>2. ASSUME Approve(t) \/ Reject(t)
          PROVE  KindType' /\ StatusType' /\ FlagType' /\ TargetType'
        <3>1. StatusType'
            BY <1>0, <2>2, StatusTyped DEF Approve, Reject, Review, Statuses, Finished
        <3> QED BY <1>0, <2>2, <3>1
                DEF Approve, Reject, Review, KindType, FlagType, TargetType, target
    <2>3. CASE Cancel(t)
        <3>1. status[t] \in Statuses
            BY <1>0 DEF StatusType
        <3> QED BY <2>3, <3>1, <1>4 DEF Cancel
    <2>4. ASSUME NEW s \in Strategies, Retry(t, s)
          PROVE  KindType' /\ StatusType' /\ FlagType' /\ TargetType'
        BY <2>4, <1>5 DEF Retry
    <2>5. CASE LookFirst(t)
        BY <1>0, <2>5 DEF LookFirst, row, target, KindType, StatusType, FlagType, TargetType
    <2>6. CASE WriteUpon(t)
        <3>1. request[t] \in Statuses /\ strategy[t] \in Strategies
            BY <1>0 DEF RestType, KindType
        <3> QED BY <2>6, <3>1, <1>4, <1>5 DEF WriteUpon
    <2> QED BY <2>1, <2>2, <2>3, <2>4, <2>5, <2>6 DEF Requests
<1> QED BY <1>1, <1>2, <1>3, <1>6, TypePartsNext

\* The steps of a worker that set the status of a row and nothing but their
\* own place: sweep, claim, outcome, and those that throw or crash.
LEMMA DispatchTyped ==
    ASSUME TypeOK, NEW w \in Worker,
           \/ Dispatch(w) \/ Claim(w) \/ Succeed(w) \/ Fail(w) \/ Stop(w)
           \/ Throws(w) \/ Crash(w) \/ \E t \in Transfer : SweepAlive(w, t)
    PROVE  TypeOK'
<1>0. /\ KindType /\ StatusType /\ FlagType /\ TargetType /\ PlaceType
      /\ LoopType /\ RestType /\ EventType
    BY TypeParts
<1> USE DEF Dispatch, Sweep, SweepAlive, Find, Claim, Succeed, Fail, Stop, Outcome,
            Throws, Crash
<1>1. KindType' /\ FlagType' /\ TargetType'
    BY <1>0 DEF row, target, KindType, FlagType, TargetType
<1>2. EventType'
    BY <1>0, EventTyped
<1>3. RestType'
    BY <1>0 DEF RestType, Overtaken, history
<1>4. StatusType'
    BY <1>0, StatusTyped DEF row, StatusType, Statuses, Finished
<1>5. PlaceType' /\ LoopType'
    <2>1. CASE Idle(w)
        BY <1>0, <2>1, IdleTyped
    <2>2. CASE UNCHANGED executors
        BY <1>0, <2>2 DEF executors, PlaceType, LoopType
    <2>3. CASE /\ \E label \in {"load", "fail"} : Goto(w, label)
               /\ UNCHANGED <<at, plan, table, offset>>
        BY <1>0, <2>3, GotoTyped DEF Labels, LoopType
    <2>4. ASSUME NEW t \in Transfer, Find(w, t) PROVE PlaceType' /\ LoopType'
        BY <1>0, <2>4 DEF PlaceType, LoopType, Labels, Goto
    <2> QED BY <2>1, <2>2, <2>3, <2>4
<1> QED BY <1>1, <1>2, <1>3, <1>4, <1>5, TypePartsNext

(***************************************************************************)
(* The steps of an executor between claim and outcome: those that only     *)
(* look, those that write to the target, and those that go on in a loop.   *)
(***************************************************************************)
Looks(w) ==
    \/ Load(w) \/ LookAtTarget(w) \/ Allow(w) \/ Verify(w) \/ StartTable(w)
    \/ TableExists(w) \/ StartBatch(w) \/ EndOfTable(w)
Writes(w) ==
    \/ Command(w) \/ CommandFails(w) \/ DropTable(w) \/ EnsureTable(w) \/ Truncate(w)
    \/ Copy(w) \/ CopyOther(w)
Executes(w) == Looks(w) \/ Writes(w) \/ Count(w) \/ NextTable(w)

\* A look leaves the target and the loop as they are.
LEMMA LooksFrame ==
    ASSUME PlaceType, KindType, NEW w \in Worker, Looks(w)
    PROVE  /\ pc[w] \in {"load", "look", "allow", "verify", "table", "exists", "batch", "copy"}
           /\ \E label \in Labels \ {"idle", "found"} : Goto(w, label)
           /\ UNCHANGED <<row, target, request, at, table, offset, history, events>>
           /\ \/ plan' = plan
              \/ pc[w] = "load" /\ plan' = [plan EXCEPT ![w] = strategy[at[w]]]
BY DEF Looks, Load, LookAtTarget, Allow, Verify, StartTable, TableExists, StartBatch, EndOfTable,
       Check, Labels

\* The rows a write leaves at its target, and the tables.
LEMMA WritesFrame ==
    ASSUME PlaceType, LoopType, TargetType, NEW w \in Worker, at[w] \in Transfer, Writes(w)
    PROVE  /\ pc[w] \in {"command", "drop", "create", "truncate", "copy"}
           /\ \E label \in Labels \ {"idle", "found"} : Goto(w, label)
           /\ \/ UNCHANGED target
              \/ \E m \in SUBSET (1..Tables), c \in [Cell -> 0..MaxCopies] : Written(at[w], m, c)
           /\ UNCHANGED <<row, request, at, plan, table, overtaken>>
           /\ shuffled' \in {shuffled, shuffled \cup {at[w]}}
           /\ \/ offset' = offset
              \/ ~AllRead(w) /\ offset' = [offset EXCEPT ![w] = offset[w] + 1]
<1>1. made[at[w]] \in SUBSET (1..Tables) /\ copies[at[w]] \in [Cell -> 0..MaxCopies]
    BY DEF TargetType
<1>2. Empty \in [Cell -> 0..MaxCopies] /\ Full \in [Cell -> 0..MaxCopies]
    BY DEF Empty, Full, MaxCopies
<1>3. Emptied(w) \in [Cell -> 0..MaxCopies] /\ table[w] \in 1..Tables
    BY <1>1 DEF Emptied, MaxCopies, LoopType
<1>4. Rows(w) \in [Cell -> 0..MaxCopies] /\ Truncated(w) \in [Cell -> 0..MaxCopies]
    BY <1>1, <1>3 DEF Rows, Truncated
<1>a. Made(at[w]) \in SUBSET (1..Tables)
    BY <1>1 DEF Made
<1>5. CASE Command(w)
    BY <1>2, <1>5, <1>a DEF Command, Labels, history
<1>6. CASE CommandFails(w)
    BY <1>1, <1>2, <1>6, <1>a DEF CommandFails, Labels, history
<1>7. CASE DropTable(w)
    <2>1. made[at[w]] \ {table[w]} \in SUBSET (1..Tables)
        BY <1>1
    <2>2. \/ UNCHANGED target
          \/ Written(at[w], made[at[w]] \ {table[w]}, Rows(w))
        BY <1>7 DEF DropTable
    <2>3. \/ UNCHANGED target
          \/ \E m \in SUBSET (1..Tables), c \in [Cell -> 0..MaxCopies] : Written(at[w], m, c)
        BY <1>4, <2>1, <2>2
    <2> QED BY <1>7, <2>3 DEF DropTable, Labels, history
<1>8. CASE EnsureTable(w)
    <2> DEFINE c == IF table[w] \in made[at[w]] THEN copies[at[w]] ELSE Rows(w)
    <2>1. made[at[w]] \cup {table[w]} \in SUBSET (1..Tables) /\ c \in [Cell -> 0..MaxCopies]
        BY <1>1, <1>3, <1>4
    <2>2. Written(at[w], made[at[w]] \cup {table[w]}, c)
        BY <1>8 DEF EnsureTable
    <2>3. \E m \in SUBSET (1..Tables), d \in [Cell -> 0..MaxCopies] : Written(at[w], m, d)
        BY <2>1, <2>2
    <2> QED BY <1>8, <2>3 DEF EnsureTable, Labels, history
<1>9. CASE Truncate(w)
    BY <1>1, <1>4, <1>9 DEF Truncate, Labels, history
<1>10. ASSUME NEW b, Insert(w, b)
       PROVE  \E m \in SUBSET (1..Tables), c \in [Cell -> 0..MaxCopies] : Written(at[w], m, c)
    <2> DEFINE copied == [copies[at[w]] EXCEPT ![<<table[w], b>>] =
                             IF @ < MaxCopies THEN @ + 1 ELSE @]
    <2>1. copied \in [Cell -> 0..MaxCopies]
        BY <1>1, OneMoreTyped
    <2>2. Written(at[w], made[at[w]], copied)
        BY <1>10 DEF Insert
    <2> QED BY <1>1, <2>1, <2>2
<1>11. ASSUME NEW b, Insert(w, b)
       PROVE  /\ pc[w] = "copy" /\ Goto(w, "count")
              /\ UNCHANGED <<row, request, at, plan, table>>
              /\ ~AllRead(w) /\ offset' = [offset EXCEPT ![w] = offset[w] + 1]
    BY <1>11 DEF Insert
<1>12. CASE Copy(w)
    BY <1>10, <1>11, <1>12 DEF Copy, Labels, history
<1>13. CASE CopyOther(w)
    <2>1. PICK b \in 1..Batches[table[w]] : Insert(w, b)
        BY <1>13 DEF CopyOther
    <2>2. overtaken' = overtaken /\ shuffled' = shuffled \cup {at[w]}
        BY <1>13 DEF CopyOther
    <2> QED BY <1>10, <1>11, <2>1, <2>2 DEF Labels
<1> QED BY <1>5, <1>6, <1>7, <1>8, <1>9, <1>12, <1>13 DEF Writes

\* The steps of an executor keep the types: it stays within the tables and their
\* batches.
LEMMA ExecutorTyped ==
    ASSUME TypeOK, AtFits, NEW w \in Worker, Executes(w)
    PROVE  TypeOK'
<1>0. /\ KindType /\ StatusType /\ FlagType /\ TargetType /\ PlaceType
      /\ LoopType /\ RestType /\ EventType
    BY TypeParts
<1>1. at[w] \in Transfer
    <2>1. pc[w] # "idle"
        BY DEF Executes, Looks, Writes, Load, LookAtTarget, Allow, Verify, StartTable,
               TableExists, StartBatch, EndOfTable, Check, Command, CommandFails, DropTable,
               EnsureTable, Truncate, Copy, CopyOther, Insert, Count, NextTable
    <2> QED BY <1>0, <2>1 DEF AtFits, PlaceType
<1>2. CASE Looks(w)
    <2>1. KindType' /\ StatusType' /\ FlagType' /\ TargetType' /\ RestType' /\ LoopType'
          /\ EventType'
        BY <1>0, <1>2, LooksFrame DEF row, target, history, KindType, StatusType, FlagType,
              TargetType, RestType, LoopType, EventType
    <2>2. strategy[at[w]] \in Strategies
        BY <1>0, <1>1 DEF KindType
    <2>3. at' = at /\ pc' \in [Worker -> Labels] /\ plan' \in [Worker -> Strategies]
        BY <1>0, <1>2, <2>2, LooksFrame DEF PlaceType, Goto
    <2> QED BY <1>0, <2>1, <2>3, TypePartsNext DEF PlaceType
<1>3. CASE Writes(w)
    <2>1. KindType' /\ StatusType' /\ FlagType' /\ RestType'
        BY <1>0, <1>1, <1>3, WritesFrame DEF row, KindType, StatusType, FlagType, RestType
    <2>2. EventType'
        BY <1>0, <1>3, EventTyped DEF Writes, Command, CommandFails, DropTable, EnsureTable,
                                      Truncate, Copy, CopyOther
    <2>3. TargetType'
        <3>1. CASE UNCHANGED target
            BY <1>0, <3>1 DEF target, TargetType
        <3>2. ASSUME NEW m \in SUBSET (1..Tables), NEW c \in [Cell -> 0..MaxCopies],
                     Written(at[w], m, c)
              PROVE  TargetType'
            BY <1>0, <1>1, <3>2, WrittenTyped
        <3> QED BY <1>0, <1>1, <1>3, <3>1, <3>2, WritesFrame
    <2>4. PlaceType'
        BY <1>0, <1>1, <1>3, WritesFrame DEF PlaceType, Goto
    <2>5. LoopType'
        <3>1. table' = table
            BY <1>0, <1>1, <1>3, WritesFrame
        <3>2. CASE offset' = offset
            BY <1>0, <3>1, <3>2 DEF LoopType
        <3>3. CASE ~AllRead(w) /\ offset' = [offset EXCEPT ![w] = offset[w] + 1]
            <4>1. Batches[table[w]] \in Nat /\ offset[w] \in Nat /\ offset[w] < Batches[table[w]]
                BY <1>0, <3>3, DatabaseTransferAssumption DEF LoopType, AllRead
            <4> QED BY <1>0, <3>1, <3>3, <4>1 DEF LoopType
        <3> QED BY <1>0, <1>1, <1>3, <3>2, <3>3, WritesFrame
    <2> QED BY <2>1, <2>2, <2>3, <2>4, <2>5, TypePartsNext
<1>4. CASE Count(w)
    <2>1. KindType' /\ StatusType' /\ TargetType' /\ RestType' /\ LoopType' /\ EventType'
        BY <1>0, <1>4 DEF Count, target, history, KindType, StatusType, TargetType, RestType,
                          LoopType, EventType
    <2>2. FlagType'
        BY <1>0, <1>4, FlagsTyped DEF Count
    <2>3. PlaceType'
        BY <1>0, <1>4, GotoTyped DEF Count, Labels
    <2> QED BY <2>1, <2>2, <2>3, TypePartsNext
<1>5. CASE NextTable(w)
    <2>1. KindType' /\ StatusType' /\ FlagType' /\ TargetType' /\ RestType' /\ EventType'
        BY <1>0, <1>5 DEF NextTable, row, target, history, KindType, StatusType, FlagType,
                          TargetType, RestType, EventType
    <2>2. PlaceType'
        BY <1>0, <1>5, GotoTyped DEF NextTable, Labels
    <2>3. LoopType'
        <3>1. table' \in [Worker -> 1..Tables] /\ \A v \in Worker : v # w => table'[v] = table[v]
            <4>1. table[w] \in 1..Tables /\ Tables \in Nat
                BY <1>0, DatabaseTransferAssumption DEF LoopType
            <4>2. CASE table' = table
                BY <1>0, <4>2 DEF LoopType
            <4>3. CASE table[w] # Tables /\ table' = [table EXCEPT ![w] = table[w] + 1]
                <5>1. table[w] + 1 \in 1..Tables
                    BY <4>1, <4>3
                <5> QED BY <1>0, <4>3, <5>1 DEF LoopType
            <4> QED BY <1>5, <4>2, <4>3 DEF NextTable
        <3>2. offset' = [offset EXCEPT ![w] = 0]
            BY <1>5 DEF NextTable
        <3>3. \A v \in Worker : Batches[table'[v]] \in Nat
            BY <3>1, DatabaseTransferAssumption
        <3> QED BY <1>0, <3>1, <3>2, <3>3 DEF LoopType
    <2> QED BY <2>1, <2>2, <2>3, TypePartsNext
<1> QED BY <1>2, <1>3, <1>4, <1>5 DEF Executes

\* An executor touches its own place and the target of its own transfer, and no
\* row but for the count of rows.
LEMMA ExecutorFrame ==
    ASSUME TypeOK, AtFits, NEW w \in Worker, Executes(w)
    PROVE  /\ Executing(w) /\ at[w] \in Transfer /\ at' = at
           /\ \E label \in Labels \ {"idle", "found"} : Goto(w, label)
           /\ UNCHANGED <<kind, status, strategy, cancelRequested, request, overtaken>>
           /\ shuffled' \in {shuffled, shuffled \cup {at[w]}}
           /\ \A v \in Worker \ {w} : /\ pc'[v] = pc[v] /\ plan'[v] = plan[v]
                                      /\ table'[v] = table[v] /\ offset'[v] = offset[v]
           /\ \A t \in Transfer \ {at[w]} :
                  made'[t] = made[t] /\ copies'[t] = copies[t] /\ late'[t] = late[t]
<1>0. KindType /\ TargetType /\ PlaceType /\ LoopType
    BY TypeParts
<1>1. Executing(w) /\ at[w] \in Transfer
    <2>1. pc[w] \notin {"idle", "found"}
        BY DEF Executes, Looks, Writes, Load, LookAtTarget, Allow, Verify, StartTable,
               TableExists, StartBatch, EndOfTable, Check, Command, CommandFails, DropTable,
               EnsureTable, Truncate, Copy, CopyOther, Insert, Count, NextTable
    <2> QED BY <1>0, <2>1 DEF AtFits, PlaceType, Executing
<1>2. CASE Looks(w)
    <2>1. \E label \in Labels \ {"idle", "found"} : Goto(w, label)
        BY <1>0, <1>2, LooksFrame
    <2>2. /\ UNCHANGED <<row, target, request, at, table, offset, history>>
          /\ \A v \in Worker \ {w} : plan'[v] = plan[v]
        BY <1>0, <1>2, LooksFrame DEF PlaceType
    <2> QED BY <1>0, <1>1, <2>1, <2>2 DEF row, target, history, PlaceType, Goto
<1>3. CASE Writes(w)
    <2>1. \E label \in Labels \ {"idle", "found"} : Goto(w, label)
        BY <1>0, <1>1, <1>3, WritesFrame
    <2>2. /\ UNCHANGED <<row, request, at, plan, table, overtaken>>
          /\ shuffled' \in {shuffled, shuffled \cup {at[w]}}
          /\ \A v \in Worker \ {w} : offset'[v] = offset[v]
        BY <1>0, <1>1, <1>3, WritesFrame DEF LoopType
    <2>3. \A t \in Transfer \ {at[w]} :
              made'[t] = made[t] /\ copies'[t] = copies[t] /\ late'[t] = late[t]
        <3>1. CASE UNCHANGED target
            BY <3>1 DEF target
        <3>2. ASSUME NEW m, NEW c, Written(at[w], m, c)
              PROVE  \A t \in Transfer \ {at[w]} :
                        made'[t] = made[t] /\ copies'[t] = copies[t] /\ late'[t] = late[t]
            BY <1>0, <3>2 DEF Written, TargetType
        <3> QED BY <1>0, <1>1, <1>3, <3>1, <3>2, WritesFrame
    <2> QED BY <1>0, <1>1, <2>1, <2>2, <2>3 DEF row, PlaceType, Goto
<1>4. CASE Count(w)
    <2>1. \E label \in Labels \ {"idle", "found"} : Goto(w, label)
        BY <1>4 DEF Count, Labels
    <2>2. UNCHANGED <<kind, status, strategy, cancelRequested, target, request, at, plan,
                      table, offset, history>>
        BY <1>4 DEF Count
    <2> QED BY <1>0, <1>1, <2>1, <2>2 DEF target, history, PlaceType, Goto
<1>5. CASE NextTable(w)
    <2>1. \E label \in Labels \ {"idle", "found"} : Goto(w, label)
        BY <1>5 DEF NextTable, Labels
    <2>2. UNCHANGED <<row, target, request, at, plan, history>>
        BY <1>5 DEF NextTable
    <2>3. \A v \in Worker \ {w} : table'[v] = table[v] /\ offset'[v] = offset[v]
        BY <1>0, <1>5 DEF NextTable, LoopType
    <2> QED BY <1>0, <1>1, <2>1, <2>2, <2>3 DEF row, target, history, PlaceType, Goto
<1> QED BY <1>2, <1>3, <1>4, <1>5 DEF Executes

-------------------------------------------------------------------------------
(* Rows and executors *)

\* A request leaves executors alone.  It changes the row of a running transfer
\* only to ask for cancellation, or it is recorded as too late.
LEMMA RequestSole ==
    ASSUME RowInv, NEW t \in Transfer, Requests(t) \/ WriteUpon(t)
    PROVE  AtFits' /\ RequestsFit' /\ Sole'
<1>1. KindType /\ StatusType /\ RestType /\ PlaceType
    BY TypeParts DEF RowInv
<1>2. UNCHANGED <<pc, at>> /\ overtaken \subseteq overtaken'
    BY DEF Requests, Create, Approve, Reject, Review, Cancel, Retry, LookFirst, WriteUpon,
           Overtaken, NotOvertaken, history, executors
<1>3. RequestsFit'
    <2>1. \/ UNCHANGED request
          \/ status[t] \in Cancellable \cup Retryable /\ request' = [request EXCEPT ![t] = status[t]]
          \/ request' = [request EXCEPT ![t] = "none"]
        BY DEF Requests, Create, Approve, Reject, Review, Cancel, Retry, LookFirst, WriteUpon
    <2> QED BY <1>1, <2>1 DEF RestType, RowInv, RequestsFit
<1>4. \/ status' = status
      \/ /\ \E s \in Statuses : status' = [status EXCEPT ![t] = s]
         /\ status[t] # "running" \/ t \in overtaken'
    <2>1. status = [status EXCEPT ![t] = status[t]]
        BY <1>1 DEF StatusType
    <2>2. CASE WriteUpon(t)
        <3>1. status[t] # request[t] => t \in overtaken'
            BY <2>2 DEF WriteUpon, Overtaken
        <3>2. CASE request[t] = "running"
            BY <2>1, <2>2, <3>2 DEF WriteUpon, Retryable, CancelMeans, CancelledStatus, SetStatus
        <3>3. CASE request[t] # "running"
            <4>1. \E s \in Statuses : status' = [status EXCEPT ![t] = s]
                BY <2>2, <3>3 DEF WriteUpon, RetryMeans, CancelMeans, CancelledStatus,
                                  SetStatus, Statuses, Finished
            <4> QED BY <3>1, <3>3, <4>1
        <3> QED BY <3>2, <3>3
    <2>3. CASE Cancel(t)
        <3>1. CASE status[t] = "running"
            BY <2>1, <2>3, <3>1 DEF Cancel, CancelMeans, CancelledStatus, SetStatus
        <3>2. CASE status[t] # "running"
            BY <2>3, <3>2 DEF Cancel, CancelMeans, CancelledStatus, SetStatus, Statuses, Finished
        <3> QED BY <3>1, <3>2
    <2>4. ASSUME NEW k \in KindsOf[t], NEW s \in Strategies, Create(t, k, s)
          PROVE  \E r \in Statuses : status' = [status EXCEPT ![t] = r] /\ status[t] # "running"
        BY <2>4 DEF Create, SetStatus, Statuses
    <2>5. ASSUME NEW s \in Strategies, Retry(t, s)
          PROVE  \E r \in Statuses : status' = [status EXCEPT ![t] = r] /\ status[t] # "running"
        BY <2>5 DEF Retry, RetryMeans, SetStatus, Statuses, Retryable
    <2>6. CASE Approve(t) \/ Reject(t)
        BY <2>6 DEF Approve, Reject, Review, SetStatus, Statuses, Finished
    <2>7. CASE LookFirst(t)
        BY <2>7 DEF LookFirst, row
    <2> QED BY <2>2, <2>3, <2>4, <2>5, <2>6, <2>7 DEF Requests
<1>5. Sole'
    <2>1. ASSUME NEW w \in Worker, Executing(w), at[w] \notin overtaken'
          PROVE  status'[at[w]] = "running"
        <3>1. status[at[w]] = "running" /\ at[w] \in Transfer
            BY <1>1, <1>2, <2>1 DEF RowInv, Sole, AtFits, Executing, PlaceType
        <3> QED BY <1>1, <1>4, <2>1, <3>1 DEF StatusType
    <2> QED BY <1>2, <2>1 DEF RowInv, Sole, Executing
<1> QED BY <1>2, <1>3, <1>5 DEF RowInv, AtFits

\* The sweep meets a transfer that nobody executes, or is recorded; a worker
\* claims a queued transfer, which nobody executes; an outcome ends its row and
\* its executor together.
LEMMA DispatchSole ==
    ASSUME RowInv, NEW w \in Worker,
           \/ Dispatch(w) \/ Claim(w) \/ Succeed(w) \/ Fail(w) \/ Stop(w)
           \/ Throws(w) \/ Crash(w) \/ \E t \in Transfer : SweepAlive(w, t)
    PROVE  AtFits' /\ RequestsFit' /\ Sole'
<1>1. StatusType /\ PlaceType
    BY TypeParts DEF RowInv
<1> USE <1>1 DEF RowInv, AtFits, RequestsFit, Sole, Executing, StatusType, PlaceType,
                 Goto, SetStatus
<1>2. ASSUME NEW t \in Transfer, Sweep(w, t) PROVE AtFits' /\ RequestsFit' /\ Sole'
    BY <1>2 DEF Sweep, Overdue, Executors, executors, history
<1>3. ASSUME NEW t \in Transfer, SweepAlive(w, t) PROVE AtFits' /\ RequestsFit' /\ Sole'
    BY <1>3 DEF SweepAlive, Overtaken, executors
<1>4. ASSUME NEW t \in Transfer, Find(w, t) PROVE AtFits' /\ RequestsFit' /\ Sole'
    BY <1>4, DatabaseTransferAssumption DEF Find, row, history
<1>5. CASE Claim(w)
    BY <1>5 DEF Claim, StillQueued, Idle, history
<1>6. CASE Succeed(w) \/ Fail(w) \/ Stop(w)
    BY <1>6 DEF Succeed, Fail, Stop, Outcome, Idle, history
<1>7. CASE Throws(w) \/ Crash(w)
    BY <1>7 DEF Throws, Crash, Idle, row, history
<1> QED BY <1>2, <1>3, <1>4, <1>5, <1>6, <1>7 DEF Dispatch

\* An executor goes on with what it runs.
LEMMA ExecutorSole ==
    ASSUME RowInv, NEW w \in Worker, Executes(w)
    PROVE  AtFits' /\ RequestsFit' /\ Sole'
<1>1. PlaceType
    BY TypeParts DEF RowInv
<1>2. Executing(w) /\ \E label \in Labels \ {"idle", "found"} : Goto(w, label)
    BY ExecutorFrame DEF RowInv
<1>3. UNCHANGED <<status, request, at, overtaken>>
    BY ExecutorFrame DEF RowInv
<1> QED BY <1>1, <1>2, <1>3 DEF RowInv, AtFits, RequestsFit, Sole, Executing, PlaceType, Goto

\* Whoever moves is a request, a worker that takes or leaves a transfer, or an
\* executor.
LEMMA WhoMoves ==
    ASSUME Next
    PROVE  \/ \E t \in Transfer : Requests(t) \/ WriteUpon(t)
           \/ \E w \in Worker :
                 \/ Dispatch(w) \/ Claim(w) \/ Succeed(w) \/ Fail(w) \/ Stop(w)
                 \/ Throws(w) \/ Crash(w) \/ \E t \in Transfer : SweepAlive(w, t)
           \/ \E w \in Worker : Executes(w)
BY DEF Next, Step, Trouble, Executes, Looks, Writes

\* No step leaves the invariant.
LEMMA NextRowInv == RowInv /\ [Next]_vars => RowInv'
<1> SUFFICES ASSUME RowInv, [Next]_vars PROVE RowInv'
    OBVIOUS
<1>1. ASSUME NEW t \in Transfer, Requests(t) \/ WriteUpon(t) PROVE RowInv'
    BY <1>1, RequestTyped, RequestSole DEF RowInv
<1>2. ASSUME NEW w \in Worker,
             \/ Dispatch(w) \/ Claim(w) \/ Succeed(w) \/ Fail(w) \/ Stop(w)
             \/ Throws(w) \/ Crash(w) \/ \E t \in Transfer : SweepAlive(w, t)
      PROVE  RowInv'
    BY <1>2, DispatchTyped, DispatchSole DEF RowInv
<1>3. ASSUME NEW w \in Worker, Executes(w) PROVE RowInv'
    BY <1>3, ExecutorTyped, ExecutorSole DEF RowInv
<1>4. CASE UNCHANGED vars
    BY <1>4 DEF vars, row, target, executors, history, RowInv, TypeOK, AtFits, RequestsFit, Sole,
                Executing
<1> QED BY <1>1, <1>2, <1>3, <1>4, WhoMoves

\* The invariant holds in every behaviour.
THEOREM RowInvAlways == Spec => []RowInv
BY InitRowInv, NextRowInv, PTL DEF Spec

\* Every variable keeps its type; above all, an executor never goes beyond the
\* tables and batches of its transfer.
THEOREM TypeCorrect == Spec => []TypeOK
BY RowInvAlways, PTL DEF RowInv

\* However many replicas claim, crash and sweep, one executes a transfer.
THEOREM OneExecutorAlways == Spec => []OneExecutor
<1>1. RowInv => OneExecutor
    BY DEF RowInv, Sole, OneExecutor, Executors
<1> QED BY <1>1, RowInvAlways, PTL

\* Only a retry changes a finished row, whatever else is under way.
LEMMA StepFinished ==
    ASSUME RowInv, [Next]_vars, NEW t \in Transfer, t \notin overtaken',
           status[t] \in Finished, status'[t] # status[t]
    PROVE  status[t] \in Retryable /\ status'[t] \in {"pending_approval", "queued"}
<1>1. StatusType /\ RestType /\ PlaceType
    BY TypeParts DEF RowInv
<1> USE DEF Finished, Retryable, SetStatus, StatusType
<1>2. ASSUME NEW u \in Transfer, Requests(u)
      PROVE  status[t] \in Retryable /\ status'[t] \in {"pending_approval", "queued"}
    BY <1>1, <1>2 DEF Requests, Create, Approve, Reject, Review, Cancel, CancelMeans,
                      Cancellable, Retry, RetryMeans, LookFirst, row
<1>3. ASSUME NEW u \in Transfer, WriteUpon(u)
      PROVE  status[t] \in Retryable /\ status'[t] \in {"pending_approval", "queued"}
    <2>1. t = u
        BY <1>1, <1>3 DEF WriteUpon, RetryMeans, CancelMeans
    <2>2. status[t] = request[t] /\ request[t] \in Cancellable \cup Retryable
        BY <1>3, <2>1 DEF WriteUpon, Overtaken, RowInv, RequestsFit
    <2> QED BY <1>1, <1>3, <2>1, <2>2 DEF WriteUpon, RetryMeans, Cancellable
<1>4. ASSUME NEW w \in Worker, Succeed(w) \/ Fail(w) \/ Stop(w) PROVE FALSE
    <2>1. status[at[w]] # "running" /\ t = at[w]
        BY <1>1, <1>4 DEF Succeed, Fail, Stop, Outcome
    <2>2. Executing(w) /\ at[w] \notin overtaken
        BY <1>4, <2>1 DEF Succeed, Fail, Stop, Outcome, Executing, history
    <2> QED BY <2>1, <2>2 DEF RowInv, Sole
<1>5. ASSUME NEW w \in Worker,
             Dispatch(w) \/ Claim(w) \/ \E u \in Transfer : SweepAlive(w, u)
      PROVE  FALSE
    BY <1>1, <1>5 DEF Dispatch, Sweep, Overdue, Find, Claim, StillQueued, SweepAlive, row
<1>6. ASSUME NEW w \in Worker, Executes(w) \/ Throws(w) \/ Crash(w) PROVE FALSE
    BY <1>6, ExecutorFrame DEF RowInv, Throws, Crash, row
<1>7. CASE UNCHANGED vars
    BY <1>7 DEF vars, row
<1> QED BY <1>2, <1>3, <1>4, <1>5, <1>6, <1>7, WhoMoves

\* An outcome is final until somebody retries.
THEOREM FinishedStaysAlways == Spec => FinishedStays
<1>1. RowInv /\ [Next]_vars => [\A t \in Transfer \ overtaken' : status[t] \in Finished =>
          \/ status'[t] = status[t]
          \/ status[t] \in Retryable /\ status'[t] \in {"pending_approval", "queued"}]_vars
    BY StepFinished
<1> QED BY <1>1, RowInvAlways, PTL DEF Spec, FinishedStays

-------------------------------------------------------------------------------
(* Approval *)

LetThrough == {"queued", "running"}
Approved(t) ==
    NeedsApproval(kind'[t]) /\ status[t] \notin LetThrough /\ status'[t] \in LetThrough
        => status[t] = "pending_approval"
WrittenRunning(t) ==
    made'[t] # made[t] \/ copies'[t] # copies[t] => status[t] = "running"
ChangesTables(t) ==
    made'[t] # made[t] => NeedsApproval(kind[t]) \/ kind[t] = "backup_into"

\* Whoever lets a transfer through that writes into a database is the approver.
LEMMA StepApproved ==
    ASSUME RowInv, [Next]_vars, NEW t \in Transfer
    PROVE  Approved(t)
<1> USE DEF SetStatus, Approved, LetThrough
<1>1. StatusType /\ RestType /\ PlaceType /\ KindType
    BY TypeParts DEF RowInv
<1> USE DEF StatusType, KindType
<1>2. ASSUME NEW u \in Transfer, Requests(u) PROVE Approved(t)
    BY <1>1, <1>2 DEF Requests, Create, Approve, Reject, Review, Cancel, CancelMeans,
                      CancelledStatus, Retry, RetryMeans, LookFirst, row
<1>3. ASSUME NEW u \in Transfer, WriteUpon(u) PROVE Approved(t)
    BY <1>1, <1>3 DEF WriteUpon, RetryMeans, CancelMeans, CancelledStatus
<1>4. ASSUME NEW w \in Worker, Succeed(w) \/ Fail(w) \/ Stop(w) PROVE Approved(t)
    BY <1>1, <1>4 DEF Succeed, Fail, Stop, Outcome
<1>5. ASSUME NEW w \in Worker,
             Dispatch(w) \/ Claim(w) \/ \E u \in Transfer : SweepAlive(w, u)
      PROVE  Approved(t)
    BY <1>1, <1>5 DEF Dispatch, Sweep, Overdue, Find, Claim, StillQueued, SweepAlive, row
<1>6. ASSUME NEW w \in Worker, Executes(w) \/ Throws(w) \/ Crash(w) PROVE Approved(t)
    BY <1>6, ExecutorFrame DEF RowInv, Throws, Crash, row
<1>7. CASE UNCHANGED vars
    BY <1>7 DEF vars, row
<1> QED BY <1>2, <1>3, <1>4, <1>5, <1>6, <1>7, WhoMoves

\* Only an executor writes to a target, and it finds its row running.
LEMMA StepWritten ==
    ASSUME RowInv, [Next]_vars, NEW t \in Transfer \ overtaken
    PROVE  WrittenRunning(t)
<1> USE DEF WrittenRunning
<1>1. TargetType /\ PlaceType
    BY TypeParts DEF RowInv
<1>2. ASSUME NEW u \in Transfer, Requests(u) \/ WriteUpon(u) PROVE WrittenRunning(t)
    BY <1>2 DEF Requests, Create, Approve, Reject, Review, Cancel, CancelMeans, Retry,
                RetryMeans, LookFirst, WriteUpon, target
<1>3. ASSUME NEW w \in Worker,
             \/ Dispatch(w) \/ Claim(w) \/ Succeed(w) \/ Fail(w) \/ Stop(w)
             \/ Throws(w) \/ Crash(w) \/ \E u \in Transfer : SweepAlive(w, u)
      PROVE  WrittenRunning(t)
    BY <1>3 DEF Dispatch, Sweep, Find, Claim, SweepAlive, Succeed, Fail, Stop, Outcome,
                Throws, Crash, target
<1>4. ASSUME NEW w \in Worker, Executes(w) PROVE WrittenRunning(t)
    <2>1. Executing(w) /\ \A u \in Transfer \ {at[w]} :
              made'[u] = made[u] /\ copies'[u] = copies[u]
        BY <1>4, ExecutorFrame DEF RowInv
    <2>2. at[w] = t => status[t] = "running"
        BY <2>1 DEF RowInv, Sole
    <2> QED BY <2>1, <2>2
<1>5. CASE UNCHANGED vars
    BY <1>5 DEF vars, target
<1> QED BY <1>2, <1>3, <1>4, <1>5, WhoMoves

(***************************************************************************)
(* An executor stands where tables are dropped and made only with a kind   *)
(* that has a target database; its transfer never changes its kind.        *)
(***************************************************************************)
TargetFits(w) == pc[w] \in {"exists", "drop", "create"} => HasTarget(kind[at[w]])
TargetInv == \A w \in Worker : Executing(w) /\ at[w] \notin overtaken => TargetFits(w)

\* Requests give a kind to a transfer that has no executor yet.
LEMMA RequestKind ==
    ASSUME RowInv, NEW t \in Transfer, Requests(t) \/ WriteUpon(t)
    PROVE  /\ UNCHANGED executors /\ overtaken \subseteq overtaken'
           /\ \A w \in Worker : Executing(w) /\ at[w] \notin overtaken => kind'[at[w]] = kind[at[w]]
<1>1. StatusType /\ KindType /\ PlaceType
    BY TypeParts DEF RowInv
<1>2. UNCHANGED executors /\ overtaken \subseteq overtaken'
    BY DEF Requests, Create, Approve, Reject, Review, Cancel, Retry, LookFirst, WriteUpon,
           Overtaken, NotOvertaken, history
<1>3. ASSUME NEW u \in Transfer, kind'[u] # kind[u] PROVE status[u] = "none"
    BY <1>1, <1>3 DEF Requests, Create, Approve, Reject, Review, Cancel, CancelMeans, Retry,
                      RetryMeans, LookFirst, WriteUpon, row, KindType
<1>4. ASSUME NEW w \in Worker, Executing(w), at[w] \notin overtaken
      PROVE  kind'[at[w]] = kind[at[w]]
    <2>1. status[at[w]] = "running" /\ at[w] \in Transfer
        BY <1>1, <1>4 DEF RowInv, Sole, AtFits, Executing, PlaceType
    <2> QED BY <1>3, <2>1
<1> QED BY <1>2, <1>4

\* No step leaves the invariant.
LEMMA NextTargetInv == RowInv /\ TargetInv /\ [Next]_vars => TargetInv'
<1> SUFFICES ASSUME RowInv, TargetInv, [Next]_vars PROVE TargetInv'
    OBVIOUS
<1>0. PlaceType /\ KindType
    BY TypeParts DEF RowInv
<1>1. ASSUME NEW t \in Transfer, Requests(t) \/ WriteUpon(t) PROVE TargetInv'
    BY <1>1, RequestKind DEF TargetInv, TargetFits, Executing, executors
<1>2. ASSUME NEW w \in Worker,
             \/ Dispatch(w) \/ Claim(w) \/ Succeed(w) \/ Fail(w) \/ Stop(w)
             \/ Throws(w) \/ Crash(w) \/ \E t \in Transfer : SweepAlive(w, t)
      PROVE  TargetInv'
    <2>1. kind' = kind /\ overtaken \subseteq overtaken'
        BY <1>2 DEF Dispatch, Sweep, Find, Claim, Succeed, Fail, Stop, Outcome, Throws, Crash,
                    SweepAlive, Overtaken, history, row
    <2>2. ASSUME NEW v \in Worker
          PROVE  \/ pc'[v] \in {"idle", "found", "load", "fail"}
                 \/ pc'[v] = pc[v] /\ at'[v] = at[v]
        BY <1>0, <1>2 DEF Dispatch, Sweep, Find, Claim, Succeed, Fail, Stop, Outcome, Throws,
                    Crash, SweepAlive, Idle, Goto, executors, PlaceType
    <2> QED BY <2>1, <2>2 DEF TargetInv, TargetFits, Executing
<1>3. ASSUME NEW w \in Worker, Executes(w) PROVE TargetInv'
    <2>1. /\ at' = at /\ UNCHANGED <<kind, overtaken>> /\ Executing(w)
          /\ \A v \in Worker \ {w} : pc'[v] = pc[v]
        BY <1>3, ExecutorFrame DEF RowInv
    <2>2. ASSUME at[w] \notin overtaken, pc'[w] \in {"exists", "drop", "create"}
          PROVE  HasTarget(kind[at[w]])
        <3>1. TargetFits(w)
            BY <2>1, <2>2 DEF TargetInv
        <3>2. CASE StartTable(w)
            BY <1>0, <2>2, <3>2 DEF StartTable, Check, Goto, PlaceType
        <3>3. CASE TableExists(w) \/ DropTable(w)
            BY <3>1, <3>3 DEF TableExists, DropTable, TargetFits
        <3>4. pc'[w] \in {"exists", "drop", "create"} =>
                  StartTable(w) \/ TableExists(w) \/ DropTable(w)
            BY <1>0, <1>3 DEF Executes, Looks, Writes, Load, LookAtTarget, Allow, Verify,
                StartBatch, EndOfTable, Check, Command, CommandFails, EnsureTable, Truncate,
                Copy, CopyOther, Insert, Count, NextTable, Goto, PlaceType
        <3> QED BY <2>2, <3>2, <3>3, <3>4
    <2> QED BY <2>1, <2>2 DEF TargetInv, TargetFits, Executing
<1>4. CASE UNCHANGED vars
    BY <1>4 DEF vars, row, target, executors, history, TargetInv, TargetFits, Executing
<1> QED BY <1>1, <1>2, <1>3, <1>4, WhoMoves

\* The invariant holds in every behaviour.
THEOREM TargetInvAlways == Spec => []TargetInv
<1>1. Init => TargetInv
    BY DEF Init, TargetInv, Executing
<1> QED BY <1>1, RowInvAlways, NextTargetInv, PTL DEF Spec

\* Tables of a database are made and dropped for a migration, a restoration or a
\* backup that names a target.
LEMMA StepChangesTables ==
    ASSUME RowInv, TargetInv, [Next]_vars, NEW t \in Transfer \ overtaken
    PROVE  ChangesTables(t)
<1> USE DEF ChangesTables
<1>1. TargetType /\ PlaceType /\ LoopType
    BY TypeParts DEF RowInv
<1>2. ASSUME NEW u \in Transfer, Requests(u) \/ WriteUpon(u) PROVE ChangesTables(t)
    BY <1>2 DEF Requests, Create, Approve, Reject, Review, Cancel, CancelMeans, Retry,
                RetryMeans, LookFirst, WriteUpon, target
<1>3. ASSUME NEW w \in Worker,
             \/ Dispatch(w) \/ Claim(w) \/ Succeed(w) \/ Fail(w) \/ Stop(w)
             \/ Throws(w) \/ Crash(w) \/ \E u \in Transfer : SweepAlive(w, u)
      PROVE  ChangesTables(t)
    BY <1>3 DEF Dispatch, Sweep, Find, Claim, SweepAlive, Succeed, Fail, Stop, Outcome,
                Throws, Crash, target
<1>4. ASSUME NEW w \in Worker, Executes(w), made'[t] # made[t]
      PROVE  NeedsApproval(kind[t]) \/ kind[t] = "backup_into"
    <2>1. at[w] = t /\ Executing(w)
        BY <1>4, ExecutorFrame DEF RowInv
    <2>2. TargetFits(w)
        BY <2>1 DEF TargetInv
    <2>3. CASE DropTable(w) \/ EnsureTable(w)
        <3>1. HasTarget(kind[t])
            BY <2>1, <2>2, <2>3 DEF DropTable, EnsureTable, TargetFits
        <3> QED BY <3>1 DEF HasTarget, NeedsApproval
    <2>4. CASE Command(w) \/ CommandFails(w)
        <3>1. made'[t] = Made(t) \/ made'[t] = made[t]
            BY <1>1, <2>1, <2>4 DEF Command, CommandFails, Written, TargetType
        <3> QED BY <1>4, <3>1 DEF Made, NeedsApproval
    <2>5. CASE Truncate(w) \/ Copy(w) \/ CopyOther(w)
        <3>1. made'[t] = made[t]
            BY <1>1, <2>1, <2>5 DEF Truncate, Copy, CopyOther, Insert, Written, TargetType
        <3> QED BY <1>4, <3>1
    <2>6. CASE Looks(w) \/ Count(w) \/ NextTable(w)
        <3>1. made' = made
            BY <1>1, <2>6, TypeParts, LooksFrame DEF RowInv, Count, NextTable, target
        <3> QED BY <1>4, <3>1
    <2> QED BY <1>4, <2>3, <2>4, <2>5, <2>6 DEF Executes, Writes
<1>5. CASE UNCHANGED vars
    BY <1>5 DEF vars, target
<1> QED BY <1>2, <1>3, <1>4, <1>5, WhoMoves

\* approveTransfer, claim and runTransfer together: a migration or a restoration
\* is let through by an approver only, after its creation as after every retry;
\* unless a write by id came too late on it, the target of a transfer is written
\* only while its row says running, so only after that; and besides these two
\* kinds only a backup that names a target database makes or drops tables of one.
THEOREM WrittenIfApproved ==
    Spec => [][/\ \A t \in Transfer : Approved(t)
               /\ \A t \in Transfer \ overtaken : WrittenRunning(t) /\ ChangesTables(t)]_vars
<1>1. RowInv /\ TargetInv /\ [Next]_vars =>
          [/\ \A t \in Transfer : Approved(t)
           /\ \A t \in Transfer \ overtaken : WrittenRunning(t) /\ ChangesTables(t)]_vars
    BY StepApproved, StepWritten, StepChangesTables
<1> QED BY <1>1, RowInvAlways, TargetInvAlways, PTL DEF Spec

-------------------------------------------------------------------------------
(* Cancellation *)

(***************************************************************************)
(* A transfer that nobody has claimed is not cancelled, so its executor    *)
(* starts with no late write.  It looks at the flag before a batch and     *)
(* before the preparation of a table, whose writes add up; where it stands *)
(* says how many late ones there may be.                                   *)
(***************************************************************************)
Waiting == {"none", "pending_approval", "queued"}
Unwritten == {"load", "look", "allow", "command", "exists", "drop", "copy"}
Allowance(w) ==
    CASE pc[w] \in Unwritten -> 0
      [] pc[w] = "create" -> 1
      [] pc[w] = "truncate" -> IF kind[at[w]] = "backup_into" THEN 2 ELSE 0
      [] OTHER -> BetweenLooks(kind[at[w]])

CancelInv ==
    /\ \A t \in Transfer \ overtaken :
          /\ status[t] \in Waiting => ~cancelRequested[t]
          /\ ~cancelRequested[t] => late[t] = 0
          /\ late[t] <= BetweenLooks(kind[t])
    /\ \A w \in Worker : Executing(w) /\ at[w] \notin overtaken => late[at[w]] <= Allowance(w)

\* Nothing is written or cancelled at first.
LEMMA InitCancelInv == Init => CancelInv
<1>1. \A k : BetweenLooks(k) >= 0
    BY DEF BetweenLooks
<1> QED BY <1>1 DEF Init, CancelInv, Executing

\* Requests: a cancellation of a transfer that waits makes it wait no more, and a
\* retry, which finds no executor, clears the flag and the count.
LEMMA RequestCancelInv ==
    ASSUME RowInv, CancelInv, NEW t \in Transfer, Requests(t) \/ WriteUpon(t)
    PROVE  CancelInv'
<1>1. StatusType /\ FlagType /\ TargetType /\ PlaceType /\ KindType
    BY TypeParts DEF RowInv
<1>2. /\ UNCHANGED <<pc, at>> /\ overtaken \subseteq overtaken'
      /\ \A w \in Worker : Executing(w) /\ at[w] \notin overtaken => kind'[at[w]] = kind[at[w]]
    BY RequestKind DEF executors
<1>3. \A u \in Transfer \ {t} :
          /\ status'[u] = status[u] /\ cancelRequested'[u] = cancelRequested[u]
          /\ late'[u] = late[u] /\ kind'[u] = kind[u]
    BY <1>1 DEF Requests, Create, Approve, Reject, Review, Cancel, CancelMeans, Retry,
                RetryMeans, LookFirst, WriteUpon, SetStatus, row, target,
                StatusType, FlagType, TargetType, KindType
<1>4. \A k : BetweenLooks(k) \in 1..3
    BY DEF BetweenLooks
<1>5. ASSUME t \notin overtaken' =>
                 /\ status'[t] \in Waiting => ~cancelRequested'[t]
                 /\ ~cancelRequested'[t] => late'[t] = 0
                 /\ late'[t] = 0 \/ (late'[t] = late[t] /\ kind'[t] = kind[t])
      PROVE  CancelInv'
    <2>1. ASSUME NEW u \in Transfer \ overtaken'
          PROVE  /\ status'[u] \in Waiting => ~cancelRequested'[u]
                 /\ ~cancelRequested'[u] => late'[u] = 0
                 /\ late'[u] <= BetweenLooks(kind'[u])
        <3>1. u \notin overtaken
            BY <1>2, <2>1
        <3>2. late'[u] = 0 \/ (late'[u] = late[u] /\ kind'[u] = kind[u])
            BY <1>3, <1>5, <2>1
        <3>3. late'[u] <= BetweenLooks(kind'[u])
            BY <1>4, <3>1, <3>2 DEF CancelInv
        <3> QED BY <1>3, <1>5, <2>1, <3>1, <3>3 DEF CancelInv
    <2>2. ASSUME NEW w \in Worker, Executing(w)', at'[w] \notin overtaken'
          PROVE  late'[at'[w]] <= Allowance(w)'
        <3>1. Executing(w) /\ at[w] \in Transfer /\ at'[w] = at[w] /\ at[w] \notin overtaken
            BY <1>1, <1>2, <2>2 DEF RowInv, AtFits, PlaceType, Executing
        <3>2. late[at[w]] <= Allowance(w)
            BY <3>1 DEF CancelInv
        <3>6. \A u \in Transfer : late[u] \in Nat
            BY <1>1 DEF TargetType, MaxLate
        <3>7. late[at[w]] \in Nat
            BY <3>1, <3>6
        <3>3. Allowance(w)' = Allowance(w)
            BY <1>2, <3>1 DEF Allowance
        <3>4. late'[at[w]] = 0 \/ late'[at[w]] = late[at[w]]
            BY <1>3, <1>5, <2>2, <3>1
        <3>5. 0 <= Allowance(w)
            BY <1>4 DEF Allowance
        <3> QED BY <3>1, <3>2, <3>3, <3>4, <3>5, <3>7
    <2> QED BY <2>1, <2>2 DEF CancelInv
<1>6. ASSUME t \notin overtaken', NEW seen, CancelMeans(t, seen), seen = status[t],
             status[t] \in Cancellable
      PROVE  CancelInv'
    <2>1. cancelRequested'[t] /\ late' = late /\ kind' = kind
        BY <1>1, <1>6 DEF CancelMeans, target, FlagType
    <2>2. status'[t] \notin Waiting
        BY <1>1, <1>6 DEF CancelMeans, CancelledStatus, SetStatus, StatusType, Waiting, Cancellable
    <2> QED BY <1>5, <2>1, <2>2
<1>7. ASSUME t \notin overtaken', NEW s, RetryMeans(t, s) PROVE CancelInv'
    <2>1. ~cancelRequested'[t] /\ late'[t] = 0
        BY <1>1, <1>7 DEF RetryMeans, FlagType, TargetType
    <2> QED BY <1>5, <2>1
<1>8. ASSUME t \notin overtaken', UNCHANGED <<cancelRequested, late>>,
             status'[t] \in Waiting => status[t] \in Waiting,
             kind' = kind \/ status[t] = "none"
      PROVE  CancelInv'
    <2>1. /\ status[t] \in Waiting => ~cancelRequested[t]
          /\ ~cancelRequested[t] => late[t] = 0
        BY <1>2, <1>8 DEF CancelInv
    <2>2. kind' = kind \/ late'[t] = 0
        BY <1>8, <2>1 DEF Waiting
    <2> QED BY <1>5, <1>8, <2>1, <2>2
<1>9. CASE t \notin overtaken' /\ Requests(t)
    <2>1. ASSUME NEW k \in KindsOf[t], NEW s \in Strategies, Create(t, k, s) PROVE CancelInv'
        BY <1>8, <1>9, <2>1 DEF Create, target, Waiting
    <2>2. CASE Approve(t) \/ Reject(t)
        BY <1>8, <1>9, <2>2 DEF Approve, Reject, Review, target, Waiting
    <2>3. CASE Cancel(t)
        BY <1>6, <1>9, <2>3 DEF Cancel
    <2>4. ASSUME NEW s \in Strategies, Retry(t, s) PROVE CancelInv'
        BY <1>7, <1>9, <2>4 DEF Retry
    <2>5. CASE LookFirst(t)
        BY <1>8, <1>9, <2>5 DEF LookFirst, row, target
    <2> QED BY <1>9, <2>1, <2>2, <2>3, <2>4, <2>5 DEF Requests
<1>10. CASE t \notin overtaken' /\ WriteUpon(t)
    <2>1. status[t] = request[t] /\ request[t] \in Cancellable \cup Retryable
        BY <1>10 DEF WriteUpon, Overtaken, RowInv, RequestsFit
    <2> QED BY <1>6, <1>7, <1>10, <2>1 DEF WriteUpon
<1>11. CASE t \in overtaken'
    BY <1>5, <1>11
<1> QED BY <1>9, <1>10, <1>11

\* A claim finds a transfer that is not cancelled; sweeps, outcomes and deaths
\* write nothing into a target.
LEMMA DispatchCancelInv ==
    ASSUME RowInv, CancelInv, NEW w \in Worker,
           \/ Dispatch(w) \/ Claim(w) \/ Succeed(w) \/ Fail(w) \/ Stop(w)
           \/ Throws(w) \/ Crash(w) \/ \E t \in Transfer : SweepAlive(w, t)
    PROVE  CancelInv'
<1>1. StatusType /\ PlaceType
    BY TypeParts DEF RowInv
<1>2. UNCHANGED <<kind, cancelRequested, late>> /\ overtaken \subseteq overtaken'
    BY DEF Dispatch, Sweep, Find, Claim, Succeed, Fail, Stop, Outcome, Throws, Crash,
           SweepAlive, Overtaken, history, row, target
<1>3. \A t \in Transfer : status'[t] \in Waiting => status[t] \in Waiting
    BY <1>1 DEF Dispatch, Sweep, Find, Claim, Succeed, Fail, Stop, Outcome, Throws, Crash,
                SweepAlive, SetStatus, StatusType, row, Waiting
<1>4. \A t \in Transfer \ overtaken' :
          /\ status'[t] \in Waiting => ~cancelRequested'[t]
          /\ ~cancelRequested'[t] => late'[t] = 0
          /\ late'[t] <= BetweenLooks(kind'[t])
    BY <1>2, <1>3 DEF CancelInv
<1>5. ASSUME NEW v \in Worker, Executing(v)', at'[v] \notin overtaken'
      PROVE  late'[at'[v]] <= Allowance(v)'
    <2>1. CASE pc'[v] = pc[v] /\ at'[v] = at[v]
        <3>1. Allowance(v)' = Allowance(v)
            BY <1>2, <2>1 DEF Allowance
        <3> QED BY <1>2, <1>5, <2>1, <3>1 DEF CancelInv, Executing
    <2>2. CASE v = w /\ Throws(w) /\ pc'[v] = "fail"
        <3>1. at'[w] = at[w] /\ Executing(w) /\ at[w] \in Transfer \ overtaken
            BY <1>1, <1>2, <1>5, <2>2 DEF Throws, Idle, Goto, PlaceType, Executing, RowInv, AtFits
        <3>2. Allowance(w)' = BetweenLooks(kind[at[w]])
            BY <1>2, <2>2, <3>1 DEF Allowance, Unwritten
        <3> QED BY <1>2, <2>2, <3>1, <3>2 DEF CancelInv
    <2>3. CASE v = w /\ Claim(w) /\ StillQueued(at[w])
        <3>1. /\ status[at[w]] = "queued" /\ at[w] \in Transfer \ overtaken /\ at' = at
              /\ pc'[w] = "load"
            BY <1>1, <1>2, <1>5, <2>3 DEF Claim, Goto, StillQueued, RowInv, AtFits, PlaceType
        <3>2. late[at[w]] = 0
            BY <3>1 DEF CancelInv, Waiting
        <3> QED BY <1>2, <2>3, <3>1, <3>2 DEF Allowance, Unwritten
    <2>4. CASE v = w /\ pc'[v] \in {"idle", "found"}
        BY <1>5, <2>4 DEF Executing
    <2> QED BY <1>1, <2>1, <2>2, <2>3, <2>4
            DEF Dispatch, Sweep, Find, Claim, Succeed, Fail, Stop, Outcome, Throws, Crash,
                SweepAlive, Idle, Goto, PlaceType, executors
<1> QED BY <1>4, <1>5 DEF CancelInv

\* Where no write follows a look yet, none is allowed.
LEMMA NothingAllowed == ASSUME NEW w \in Worker, pc[w] \in Unwritten PROVE Allowance(w) = 0
<1>1. pc[w] \notin {"create", "truncate"}
    BY DEF Unwritten
<1> QED BY <1>1 DEF Allowance

\* Where a look leads, and what a write adds up to.
LEMMA ExecutorAllowance ==
    ASSUME RowInv, TargetInv, CancelInv, NEW w \in Worker, Executes(w), at[w] \notin overtaken
    PROVE  /\ late'[at[w]] <= Allowance(w)' /\ late'[at[w]] <= BetweenLooks(kind[at[w]])
           /\ ~cancelRequested[at[w]] => late'[at[w]] = 0
<1>1. PlaceType /\ TargetType /\ KindType /\ LoopType /\ FlagType
    BY TypeParts DEF RowInv
<1>2. at[w] \in Transfer /\ Executing(w) /\ at' = at /\ kind' = kind
    BY ExecutorFrame DEF RowInv
<1> DEFINE t == at[w]
<1>3. /\ late[t] <= Allowance(w) /\ late[t] <= BetweenLooks(kind[t]) /\ late[t] \in Nat
      /\ ~cancelRequested[t] => late[t] = 0
    BY <1>1, <1>2 DEF CancelInv, TargetType, MaxLate
<1>4. BetweenLooks(kind[t]) \in 1..3 /\ kind[t] \in Kinds
    BY <1>1, <1>2 DEF BetweenLooks, KindType
<1>5. CASE late' = late /\ pc'[w] \notin Unwritten \cup {"create", "truncate"}
    BY <1>2, <1>3, <1>5 DEF Allowance
<1>6. CASE late'[t] = 0
    <2>1. Allowance(w)' >= 0
        BY <1>2, <1>4 DEF Allowance
    <2> QED BY <1>2, <1>4, <1>6, <2>1
<1>7. ASSUME NEW m, NEW c, Written(t, m, c)
      PROVE  late'[t] \in Nat /\ late'[t] <= late[t] + 1 /\ (~cancelRequested[t] => late'[t] = 0)
    <2>1. late'[t] = IF cancelRequested[t] /\ late[t] < MaxLate THEN late[t] + 1 ELSE late[t]
        BY <1>1, <1>2, <1>7 DEF Written, TargetType
    <2> QED BY <1>3, <2>1
<1>8. CASE Looks(w)
    <2>1. late' = late
        BY <1>1, <1>8, LooksFrame DEF target
    <2>2. CASE Active(t)
        BY <1>3, <1>6, <2>1, <2>2 DEF Active
    <2>3. CASE pc'[w] \notin Unwritten \cup {"create", "truncate"}
        BY <1>5, <2>1, <2>3
    <2>4. CASE pc[w] \in Unwritten
        <3>1. Allowance(w) = 0
            BY <2>4, NothingAllowed
        <3>2. late[t] = 0
            BY <1>3, <3>1
        <3> QED BY <1>6, <2>1, <3>2
    <2>5. Verify(w) \/ StartTable(w) \/ StartBatch(w) => Active(t) \/ pc'[w] = "stop"
        BY <1>1 DEF Verify, StartTable, StartBatch, Check, Goto, PlaceType
    <2>6. Looks(w) => \/ Verify(w) \/ StartTable(w) \/ StartBatch(w)
                      \/ pc[w] \in Unwritten
        BY DEF Looks, Load, LookAtTarget, Allow, TableExists, EndOfTable, Check, Unwritten
    <2> QED BY <1>8, <2>2, <2>3, <2>4, <2>5, <2>6 DEF Unwritten
<1>9. CASE Count(w) \/ NextTable(w)
    <2>1. late' = late /\ pc'[w] \notin Unwritten \cup {"create", "truncate"}
        BY <1>1, <1>9 DEF Count, NextTable, Goto, PlaceType, target, Unwritten
    <2> QED BY <1>5, <2>1
<1>10. CASE Command(w) \/ CommandFails(w) \/ Copy(w) \/ CopyOther(w)
    <2>1. \E m, c : Written(t, m, c)
        BY <1>10 DEF Command, CommandFails, Copy, CopyOther, Insert
    <2>2. pc[w] \in Unwritten /\ pc'[w] \notin Unwritten \cup {"create", "truncate"}
        BY <1>1, <1>10 DEF Command, CommandFails, Copy, CopyOther, Insert, Goto, PlaceType,
                           Unwritten
    <2>3. late[t] = 0
        BY <1>3, <2>2, NothingAllowed
    <2>4. late'[t] <= 1 /\ (~cancelRequested[t] => late'[t] = 0) /\ late'[t] \in Nat
        BY <1>7, <2>1, <2>3
    <2>5. Allowance(w)' = BetweenLooks(kind[t])
        BY <1>2, <2>2 DEF Allowance
    <2> QED BY <1>4, <2>4, <2>5
<1>11. CASE DropTable(w)
    <2>1. pc[w] = "drop" /\ late[t] = 0
        BY <1>3, <1>11 DEF DropTable, Allowance, Unwritten
    <2>2. CASE UNCHANGED target
        BY <1>6, <2>1, <2>2 DEF target
    <2>3. CASE pc'[w] = "create"
        <3>1. \E m, c : Written(t, m, c)
            BY <1>1, <1>11, <2>3 DEF DropTable, Goto, PlaceType
        <3>2. late'[t] <= 1 /\ (~cancelRequested[t] => late'[t] = 0) /\ late'[t] \in Nat
            BY <1>7, <2>1, <3>1
        <3>3. Allowance(w)' = 1
            BY <2>3 DEF Allowance, Unwritten
        <3> QED BY <1>4, <3>2, <3>3
    <2> QED BY <1>1, <1>11, <2>2, <2>3 DEF DropTable, Goto, PlaceType
<1>12. CASE EnsureTable(w)
    <2>1. pc[w] = "create" /\ late[t] <= 1
        BY <1>3, <1>12 DEF EnsureTable, Allowance, Unwritten
    <2>2. \E m, c : Written(t, m, c)
        BY <1>12 DEF EnsureTable
    <2>3. late'[t] <= 2 /\ (~cancelRequested[t] => late'[t] = 0) /\ late'[t] \in Nat
        BY <1>3, <1>7, <2>1, <2>2
    <2>4. kind[t] \in {"migration", "backup_into"}
        BY <1>2, <2>1 DEF TargetInv, TargetFits, HasTarget
    <2>5. BetweenLooks(kind[t]) >= 2
        BY <2>4 DEF BetweenLooks
    <2>6. \/ kind[t] = "migration" /\ pc'[w] = "batch"
          \/ kind[t] = "backup_into" /\ pc'[w] = "truncate"
        BY <1>1, <1>12, <2>4 DEF EnsureTable, Goto, PlaceType
    <2>7. Allowance(w)' >= 2
        BY <1>2, <1>4, <2>5, <2>6 DEF Allowance, Unwritten
    <2>8. Allowance(w)' \in Nat
        BY <1>2, <1>4, <2>6 DEF Allowance, Unwritten
    <2> QED BY <1>4, <2>3, <2>5, <2>7, <2>8
<1>13. CASE Truncate(w)
    <2>1. pc[w] = "truncate" /\ late[t] + 1 <= BetweenLooks(kind[t])
        <3>1. pc[w] = "truncate"
            BY <1>13 DEF Truncate
        <3>2. late[t] <= IF kind[t] = "backup_into" THEN 2 ELSE 0
            BY <1>3, <3>1 DEF Allowance, Unwritten
        <3>3. kind[t] = "backup_into" => BetweenLooks(kind[t]) = 3
            BY DEF BetweenLooks
        <3> QED BY <1>3, <1>4, <3>1, <3>2, <3>3
    <2>2. \E m, c : Written(t, m, c)
        BY <1>13 DEF Truncate
    <2>3. /\ late'[t] <= BetweenLooks(kind[t])
          /\ ~cancelRequested[t] => late'[t] = 0
        BY <1>3, <1>4, <1>7, <2>1, <2>2
    <2>4. Allowance(w)' = BetweenLooks(kind[t])
        BY <1>1, <1>2, <1>13 DEF Truncate, Goto, PlaceType, Allowance, Unwritten
    <2> QED BY <2>3, <2>4
<1> QED BY <1>8, <1>9, <1>10, <1>11, <1>12, <1>13 DEF Executes, Writes

\* An executor enters a writing step by a look at the flag, and leaves it with
\* its write.
LEMMA ExecutorCancelInv ==
    ASSUME RowInv, TargetInv, CancelInv, NEW w \in Worker, Executes(w)
    PROVE  CancelInv'
<1>1. PlaceType
    BY TypeParts DEF RowInv
<1>2. /\ Executing(w) /\ at[w] \in Transfer /\ at' = at
      /\ UNCHANGED <<kind, status, cancelRequested, overtaken>>
      /\ \A v \in Worker \ {w} : pc'[v] = pc[v]
      /\ \A t \in Transfer \ {at[w]} : late'[t] = late[t]
    BY ExecutorFrame DEF RowInv
<1>3. at[w] \notin overtaken =>
          /\ late'[at[w]] <= Allowance(w)' /\ late'[at[w]] <= BetweenLooks(kind[at[w]])
          /\ ~cancelRequested[at[w]] => late'[at[w]] = 0
    BY ExecutorAllowance
<1>4. \A t \in Transfer \ overtaken' :
          /\ status'[t] \in Waiting => ~cancelRequested'[t]
          /\ ~cancelRequested'[t] => late'[t] = 0
          /\ late'[t] <= BetweenLooks(kind'[t])
    BY <1>2, <1>3 DEF CancelInv
<1>5. ASSUME NEW v \in Worker \ {w}, Executing(v)', at'[v] \notin overtaken'
      PROVE  late'[at'[v]] <= Allowance(v)'
    <2>1. Executing(v) /\ at[v] \in Transfer \ overtaken /\ at'[v] = at[v]
        BY <1>1, <1>2, <1>5 DEF Executing, RowInv, AtFits, PlaceType
    <2>2. at[v] # at[w]
        BY <1>2, <1>5, <2>1 DEF RowInv, Sole
    <2>3. Allowance(v)' = Allowance(v)
        BY <1>2, <1>5, <2>1 DEF Allowance
    <2> QED BY <1>2, <2>1, <2>2, <2>3 DEF CancelInv
<1>6. \A v \in Worker : Executing(v)' /\ at'[v] \notin overtaken' => late'[at'[v]] <= Allowance(v)'
    BY <1>2, <1>3, <1>5
<1> QED BY <1>4, <1>6 DEF CancelInv

\* No step leaves the invariant.
LEMMA NextCancelInv == RowInv /\ TargetInv /\ CancelInv /\ [Next]_vars => CancelInv'
<1>1. CancelInv /\ UNCHANGED vars => CancelInv'
    BY DEF CancelInv, Allowance, Executing, vars, row, target, executors, history
<1> QED BY <1>1, RequestCancelInv, DispatchCancelInv, ExecutorCancelInv, WhoMoves

\* A cancellation lets no more reach the target than what an executor writes
\* between two looks at the row.
THEOREM CancelStopsAlways == Spec => []CancelStopsAtNextLook
<1>1. CancelInv => CancelStopsAtNextLook
    BY DEF CancelInv, CancelStopsAtNextLook
<1> QED BY <1>1, RowInvAlways, TargetInvAlways, InitCancelInv, NextCancelInv, PTL DEF Spec

-------------------------------------------------------------------------------
(* Completeness *)

(***************************************************************************)
(* An executor has the strategy of the row, which nobody changes while the *)
(* row is running.  What it has gone through is at the target as it should *)
(* be; what is left of its table is not there at all, unless it appends.   *)
(***************************************************************************)
Exempt == overtaken \cup shuffled

Good(t, c) ==
    copies[t][c] >= 1 /\ (~Appends(kind[t], strategy[t]) => copies[t][c] = 1)
Reached(w, c) == c[1] < table[w] \/ (c[1] = table[w] /\ c[2] <= offset[w])

InTable == {"batch", "copy", "count", "next"}
InLoop == InTable \cup {"table", "exists", "drop", "create", "truncate"}

LoopFits(w) ==
    /\ pc[w] \in {"idle", "found", "load", "look", "allow", "command"} =>
           table[w] = 1 /\ offset[w] = 0
    /\ pc[w] \in {"table", "exists", "drop", "create", "truncate"} => offset[w] = 0
    /\ pc[w] = "next" => AllRead(w)

CopyFits(w) ==
    /\ pc[w] \in InLoop => plan[w] = strategy[at[w]]
    /\ pc[w] \in InLoop => \A c \in Cell : Reached(w, c) => Good(at[w], c)
    /\ pc[w] \in InTable /\ ~Appends(kind[at[w]], plan[w]) =>
           \A c \in Cell : c[1] = table[w] /\ ~Reached(w, c) => copies[at[w]][c] = 0
    /\ pc[w] = "create" /\ plan[w] # "append" => table[w] \notin made[at[w]]
    /\ pc[w] \in {"verify", "finish"} => \A c \in Cell : Good(at[w], c)

CopyInv ==
    /\ \A w \in Worker : LoopFits(w)
    /\ \A w \in Worker : Executing(w) /\ at[w] \notin Exempt => CopyFits(w)
    /\ SucceededIsComplete

\* A cell is a batch of a table.
LEMMA CellParts ==
    /\ \A c \in Cell : c[1] \in 1..Tables /\ c[2] \in 1..Batches[c[1]] /\ c = <<c[1], c[2]>>
                       /\ c[2] \in Nat /\ c[1] \in Nat
    /\ \A i \in 1..Tables : \A b \in 1..Batches[i] : <<i, b>> \in Cell
<1>0. \A i \in 1..Tables : Batches[i] \in Nat
    BY DatabaseTransferAssumption
<1>1. ASSUME NEW c \in Cell
      PROVE  /\ c[1] \in 1..Tables /\ c[2] \in 1..Batches[c[1]] /\ c = <<c[1], c[2]>>
             /\ c[2] \in Nat /\ c[1] \in Nat
    <2>1. PICK i \in 1..Tables : c \in {<<i, b>> : b \in 1..Batches[i]}
        BY DEF Cell
    <2>2. PICK b \in 1..Batches[i] : c = <<i, b>>
        BY <2>1
    <2>3. c[1] = i /\ c[2] = b
        BY <2>2
    <2>4. i \in Nat /\ b \in Nat
        BY <1>0, DatabaseTransferAssumption
    <2> QED BY <2>2, <2>3, <2>4
<1>2. ASSUME NEW i \in 1..Tables, NEW b \in 1..Batches[i] PROVE <<i, b>> \in Cell
    BY DEF Cell
<1> QED BY <1>1, <1>2

\* Nothing is copied and nothing has succeeded at first.
LEMMA InitCopyInv == Init => CopyInv
BY DEF Init, CopyInv, LoopFits, Executing, SucceededIsComplete

\* An executor that stays where it is, with its row and its target as they were.
LEMMA CopyKept ==
    ASSUME NEW v \in Worker, CopyFits(v), at'[v] = at[v], pc'[v] = pc[v], plan'[v] = plan[v],
           table'[v] = table[v], offset'[v] = offset[v], kind'[at[v]] = kind[at[v]],
           strategy'[at[v]] = strategy[at[v]], copies'[at[v]] = copies[at[v]],
           made'[at[v]] = made[at[v]]
    PROVE  CopyFits(v)'
BY DEF CopyFits, Good, Reached

\* A transfer that had succeeded, with its row and its target as they were.
LEMMA SucceededKept ==
    ASSUME SucceededIsComplete, Exempt \subseteq Exempt',
           \A t \in Transfer \ Exempt' : status'[t] = "succeeded" =>
               /\ status[t] = "succeeded"
               /\ kind'[t] = kind[t] /\ strategy'[t] = strategy[t] /\ copies'[t] = copies[t]
    PROVE  SucceededIsComplete'
BY DEF SucceededIsComplete, Exempt

\* Requests: one that gives a row another strategy finds it without executor and
\* leaves it pending or queued.
LEMMA RequestCopyInv ==
    ASSUME RowInv, CopyInv, NEW t \in Transfer, Requests(t) \/ WriteUpon(t)
    PROVE  CopyInv'
<1>1. StatusType /\ KindType /\ PlaceType
    BY TypeParts DEF RowInv
<1>2. /\ UNCHANGED <<pc, at, plan, table, offset>> /\ overtaken \subseteq overtaken'
      /\ \A w \in Worker : Executing(w) /\ at[w] \notin overtaken => kind'[at[w]] = kind[at[w]]
    BY RequestKind DEF executors
<1>a. UNCHANGED <<made, copies, shuffled>>
    BY DEF Requests, Create, Approve, Reject, Review, Cancel, CancelMeans, Retry, RetryMeans,
           LookFirst, WriteUpon, Overtaken, NotOvertaken, history, target
<1>b. Exempt \subseteq Exempt'
    BY <1>2, <1>a DEF Exempt
<1> DEFINE Keeps(u) ==
              /\ strategy'[u] = strategy[u] \/ status[u] \in Retryable \cup {"none"}
              /\ status'[u] = "succeeded" => /\ status[u] = "succeeded"
                                             /\ strategy'[u] = strategy[u] /\ kind'[u] = kind[u]
<1>3. ASSUME NEW u \in Transfer \ overtaken' PROVE Keeps(u)
    <2>1. CASE Requests(t)
        <3>1. ASSUME NEW k \in KindsOf[t], NEW s \in Strategies, Create(t, k, s) PROVE Keeps(u)
            BY <1>1, <3>1 DEF Create, SetStatus, KindType, StatusType
        <3>2. ASSUME NEW s \in Strategies, Retry(t, s) PROVE Keeps(u)
            BY <1>1, <3>2 DEF Retry, RetryMeans, SetStatus, KindType, StatusType
        <3>3. CASE Approve(t) \/ Reject(t) \/ Cancel(t) \/ LookFirst(t)
            BY <1>1, <3>3 DEF Approve, Reject, Review, Cancel, CancelMeans, CancelledStatus,
                              LookFirst, SetStatus, row, StatusType
        <3> QED BY <2>1, <3>1, <3>2, <3>3 DEF Requests
    <2>2. CASE WriteUpon(t)
        <3>1. u = t => status[t] = request[t]
            BY <2>2 DEF WriteUpon, Overtaken
        <3> QED BY <1>1, <2>2, <3>1
                DEF WriteUpon, CancelMeans, CancelledStatus, RetryMeans, SetStatus,
                    KindType, StatusType
    <2> QED BY <2>1, <2>2
<1>4. \A w \in Worker : LoopFits(w)'
    BY <1>2 DEF CopyInv, LoopFits, AllRead
<1>5. ASSUME NEW w \in Worker, Executing(w)', at'[w] \notin Exempt' PROVE CopyFits(w)'
    <2>1. Executing(w) /\ at[w] \in Transfer \ overtaken' /\ at[w] \notin Exempt
        BY <1>1, <1>2, <1>b, <1>5 DEF RowInv, AtFits, PlaceType, Executing, Exempt
    <2>2. status[at[w]] = "running"
        BY <2>1 DEF RowInv, Sole, Exempt
    <2>3. strategy'[at[w]] = strategy[at[w]]
        BY <1>3, <2>1, <2>2 DEF Retryable
    <2>4. CopyFits(w) /\ kind'[at[w]] = kind[at[w]]
        BY <1>2, <2>1 DEF CopyInv, Exempt
    <2> QED BY <1>2, <1>a, <2>3, <2>4, CopyKept
<1>6. SucceededIsComplete'
    BY <1>a, <1>b, <1>3, SucceededKept DEF CopyInv, Exempt
<1> QED BY <1>4, <1>5, <1>6 DEF CopyInv

\* Sweep, claim and outcome: an executor begins with nothing gone through, and the
\* one that reports success has gone through everything.
LEMMA DispatchCopyInv ==
    ASSUME RowInv, CopyInv, NEW w \in Worker,
           \/ Dispatch(w) \/ Claim(w) \/ Succeed(w) \/ Fail(w) \/ Stop(w)
           \/ Throws(w) \/ Crash(w) \/ \E t \in Transfer : SweepAlive(w, t)
    PROVE  CopyInv'
<1>1. StatusType /\ PlaceType /\ LoopType
    BY TypeParts DEF RowInv
<1>2. UNCHANGED <<kind, strategy, made, copies>> /\ Exempt \subseteq Exempt'
    BY DEF Dispatch, Sweep, Find, Claim, Succeed, Fail, Stop, Outcome, Throws, Crash,
           SweepAlive, Overtaken, history, row, target, Exempt
<1>3. \A v \in Worker \ {w} : /\ pc'[v] = pc[v] /\ at'[v] = at[v] /\ plan'[v] = plan[v]
                              /\ table'[v] = table[v] /\ offset'[v] = offset[v]
    BY <1>1 DEF Dispatch, Sweep, Find, Claim, Succeed, Fail, Stop, Outcome, Throws, Crash,
                SweepAlive, Idle, Goto, executors, PlaceType, LoopType
<1>4. \/ pc'[w] \in {"idle", "found"} /\ table'[w] = 1 /\ offset'[w] = 0
      \/ pc'[w] = "load" /\ table'[w] = 1 /\ offset'[w] = 0
      \/ pc'[w] = "fail"
      \/ UNCHANGED executors
    BY <1>1 DEF Dispatch, Sweep, Find, Claim, Succeed, Fail, Stop, Outcome, Throws, Crash,
                SweepAlive, Idle, Goto, executors, PlaceType, LoopType, CopyInv, LoopFits
<1>5. \A v \in Worker : LoopFits(v)'
    BY <1>3, <1>4 DEF CopyInv, LoopFits, AllRead, executors
<1>6. ASSUME NEW v \in Worker, Executing(v)', at'[v] \notin Exempt' PROVE CopyFits(v)'
    <2>1. CASE v # w \/ UNCHANGED executors
        <3>1. /\ pc'[v] = pc[v] /\ at'[v] = at[v] /\ plan'[v] = plan[v]
              /\ table'[v] = table[v] /\ offset'[v] = offset[v]
            BY <1>3, <2>1 DEF executors
        <3>2. CopyFits(v)
            BY <1>2, <1>6, <3>1 DEF CopyInv, Executing
        <3> QED BY <1>2, <3>1, <3>2, CopyKept
    <2>2. CASE v = w /\ pc'[w] = "load"
        BY <2>2 DEF CopyFits, InLoop, InTable
    <2>3. CASE v = w /\ pc'[w] = "fail"
        BY <2>3 DEF CopyFits, InLoop, InTable
    <2>4. CASE v = w /\ pc'[w] \in {"idle", "found"}
        BY <1>6, <2>4 DEF Executing
    <2> QED BY <1>4, <2>1, <2>2, <2>3, <2>4
<1>7. CASE Succeed(w)
    <2>1. Executing(w) /\ at[w] \in Transfer /\ pc[w] = "finish" /\ Exempt' = Exempt
        BY <1>1, <1>7 DEF Succeed, Outcome, Executing, RowInv, AtFits, PlaceType, history, Exempt
    <2>2. at[w] \notin Exempt => \A c \in Cell : Good(at[w], c)
        BY <2>1 DEF CopyInv, CopyFits
    <2>3. \A t \in Transfer \ {at[w]} : status'[t] = status[t]
        BY <1>1, <1>7 DEF Succeed, Outcome, SetStatus, StatusType
    <2> QED BY <1>2, <1>5, <1>6, <2>1, <2>2, <2>3 DEF CopyInv, SucceededIsComplete, Good, Exempt
<1>8. CASE ~Succeed(w)
    <2>1. \A t \in Transfer : status'[t] = "succeeded" => status[t] = "succeeded"
        BY <1>1, <1>8 DEF Dispatch, Sweep, Find, Claim, Fail, Stop, Outcome, Throws, Crash,
                SweepAlive, SetStatus, StatusType, row
    <2>2. SucceededIsComplete'
        BY <1>2, <2>1, SucceededKept DEF CopyInv
    <2> QED BY <1>5, <1>6, <2>2 DEF CopyInv
<1> QED BY <1>7, <1>8

\* A look changes the place of its executor alone, and what it has copied of its
\* table stays as it is; the new table is not there when it is to be made.
LEMMA LooksCopyFits ==
    ASSUME RowInv, CopyInv, NEW w \in Worker, at[w] \in Transfer \ Exempt, Looks(w)
    PROVE  CopyFits(w)'
<1>1. PlaceType /\ LoopType /\ KindType
    BY TypeParts DEF RowInv
<1>2. UNCHANGED <<kind, strategy, made, copies, at, table, offset>>
    BY <1>1, LooksFrame DEF row, target
<1>3. CopyFits(w) /\ LoopFits(w)
    BY <1>1, LooksFrame DEF CopyInv, Executing
<1>4. \A c \in Cell : /\ Reached(w, c)' <=> Reached(w, c)
                      /\ Good(at[w], c)' <=> Good(at[w], c)
    BY <1>2 DEF Reached, Good
<1>5. CASE Load(w)
    <2>1. /\ plan'[w] = strategy'[at'[w]] /\ table'[w] = 1 /\ offset'[w] = 0
          /\ pc'[w] \in {"table", "command", "look"}
        BY <1>1, <1>2, <1>3, <1>5 DEF Load, Goto, PlaceType, LoopFits
    <2>2. \A c \in Cell : ~Reached(w, c)'
        BY <2>1, CellParts, DatabaseTransferAssumption DEF Reached
    <2> QED BY <2>1, <2>2 DEF CopyFits, InLoop, InTable
<1>6. CASE LookAtTarget(w) \/ Allow(w)
    <2>1. pc'[w] \in {"allow", "fail", "command", "stop"}
        BY <1>1, <1>6 DEF LookAtTarget, Allow, Check, Goto, PlaceType
    <2> QED BY <2>1 DEF CopyFits, InLoop, InTable
<1>7. CASE Verify(w) \/ StartTable(w) \/ StartBatch(w) \/ EndOfTable(w)
    <2>1. plan' = plan
        BY <1>7 DEF Verify, StartTable, StartBatch, EndOfTable, Check
    <2>2. \/ pc'[w] = "stop"
          \/ pc[w] = "verify" /\ pc'[w] = "finish"
          \/ pc[w] = "table" /\ pc'[w] \in {"exists", "truncate"}
          \/ pc[w] = "batch" /\ pc'[w] = "copy"
          \/ pc[w] = "copy" /\ pc'[w] = "next"
        BY <1>1, <1>7 DEF Verify, StartTable, StartBatch, EndOfTable, Check, Goto, PlaceType
    <2> QED BY <1>2, <1>3, <1>4, <2>1, <2>2 DEF CopyFits, InLoop, InTable
<1>8. CASE TableExists(w)
    <2>1. plan' = plan /\ pc[w] = "exists"
        BY <1>8 DEF TableExists
    <2>2. \/ pc'[w] \in {"drop", "fail"}
          \/ pc'[w] = "create" /\ (table[w] \notin made[at[w]] \/ plan[w] = "append")
        BY <1>1, <1>8 DEF TableExists, Goto, PlaceType
    <2> QED BY <1>2, <1>3, <1>4, <2>1, <2>2 DEF CopyFits, InLoop, InTable
<1> QED BY <1>5, <1>6, <1>7, <1>8 DEF Looks

\* Nothing of the table of an executor is gone through before its first batch.
LEMMA NothingReached ==
    ASSUME RowInv, NEW w \in Worker, offset[w] = 0
    PROVE  /\ \A c \in Cell : Reached(w, c) => c[1] # table[w]
           /\ \A c \in Cell : Reached(w, c) => Emptied(w)[c] = copies[at[w]][c]
           /\ \A c \in Cell : c[1] = table[w] => Emptied(w)[c] = 0
<1>1. LoopType
    BY TypeParts DEF RowInv
<1>2. ASSUME NEW c \in Cell, Reached(w, c) PROVE c[1] # table[w]
    BY <1>1, <1>2, CellParts DEF Reached, LoopType
<1> QED BY <1>2 DEF Emptied

\* The table as the batches find it has nothing of this run, and what was gone
\* through before is in other tables.
LEMMA PrepareCopyFits ==
    ASSUME RowInv, TargetInv, CopyInv, NEW w \in Worker, at[w] \in Transfer \ Exempt,
           DropTable(w) \/ EnsureTable(w) \/ Truncate(w)
    PROVE  CopyFits(w)'
<1>1. PlaceType /\ TargetType /\ LoopType /\ KindType
    BY TypeParts DEF RowInv
<1>2. /\ UNCHANGED <<kind, strategy, at, plan, table, offset>>
      /\ pc[w] \in {"drop", "create", "truncate"} /\ offset[w] = 0
    BY DEF DropTable, EnsureTable, Truncate, row, CopyInv, LoopFits
<1>3. CopyFits(w) /\ TargetFits(w)
    BY <1>2 DEF CopyInv, Executing, TargetInv, Exempt
<1>4. /\ plan[w] = strategy[at[w]]
      /\ \A c \in Cell : Reached(w, c) => Good(at[w], c)
      /\ \A c \in Cell : Reached(w, c)' <=> Reached(w, c)
    BY <1>2, <1>3 DEF CopyFits, InLoop, Reached
<1>5. ASSUME copies'[at[w]] \in {copies[at[w]], Emptied(w)}
      PROVE  \A c \in Cell : Reached(w, c)' => Good(at[w], c)'
    BY <1>2, <1>4, <1>5, NothingReached DEF Good
<1>6. ASSUME copies'[at[w]] = Emptied(w)
      PROVE  \A c \in Cell : c[1] = table'[w] => copies'[at'[w]][c] = 0
    BY <1>2, <1>6, NothingReached
<1>7. CASE DropTable(w)
    <2>1. CASE pc'[w] = "fail"
        BY <2>1 DEF CopyFits, InLoop, InTable
    <2>2. CASE pc'[w] # "fail"
        <3>1. /\ pc'[w] = "create" /\ made'[at[w]] = made[at[w]] \ {table[w]}
              /\ copies'[at[w]] = Rows(w)
            BY <1>1, <1>7, <2>2 DEF DropTable, Goto, Written, PlaceType, TargetType
        <3>2. copies'[at[w]] \in {copies[at[w]], Emptied(w)}
            BY <3>1 DEF Rows
        <3> QED BY <1>2, <1>4, <1>5, <3>1, <3>2 DEF CopyFits, InLoop, InTable
    <2> QED BY <2>1, <2>2
<1>8. CASE EnsureTable(w)
    <2>1. /\ pc[w] = "create"
          /\ copies'[at[w]] = IF table[w] \in made[at[w]] THEN copies[at[w]] ELSE Rows(w)
          /\ pc'[w] = IF kind[at[w]] = "migration" THEN "batch" ELSE "truncate"
        BY <1>1, <1>8 DEF EnsureTable, Goto, Written, PlaceType, TargetType
    <2>2. copies'[at[w]] \in {copies[at[w]], Emptied(w)}
        BY <2>1 DEF Rows
    <2>3. pc'[w] = "batch" /\ ~Appends(kind[at[w]], plan[w]) => copies'[at[w]] = Emptied(w)
        <3>1. ASSUME kind[at[w]] = "migration", plan[w] # "append"
              PROVE  copies'[at[w]] = Emptied(w)
            BY <1>3, <2>1, <3>1 DEF CopyFits, Rows
        <3> QED BY <2>1, <3>1 DEF Appends
    <2>4. pc'[w] \in {"batch", "truncate"}
        BY <2>1
    <2> QED BY <1>2, <1>4, <1>5, <1>6, <2>2, <2>3, <2>4 DEF CopyFits, InLoop, InTable
<1>9. CASE Truncate(w)
    <2>1. pc'[w] = "batch" /\ copies'[at[w]] = Emptied(w)
        BY <1>1, <1>9 DEF Truncate, Truncated, Goto, Written, PlaceType, TargetType
    <2> QED BY <1>2, <1>4, <1>5, <1>6, <2>1 DEF CopyFits, InLoop, InTable
<1> QED BY <1>7, <1>8, <1>9

\* A batch is the next cell of its table: it was not there, or it may be there twice.
LEMMA CopyCopyFits ==
    ASSUME RowInv, CopyInv, NEW w \in Worker, at[w] \in Transfer \ Exempt, Copy(w)
    PROVE  CopyFits(w)'
<1>1. PlaceType /\ TargetType /\ LoopType
    BY TypeParts DEF RowInv
<1>2. UNCHANGED <<kind, strategy, at, plan, table>> /\ pc[w] = "copy" /\ ~AllRead(w)
    BY DEF Copy, Insert, row
<1>3. CopyFits(w)
    BY <1>2 DEF CopyInv, Executing
<1>4. PICK cell : cell = <<table[w], offset[w] + 1>>
    OBVIOUS
<1>5. /\ offset'[w] = offset[w] + 1 /\ pc'[w] = "count"
      /\ copies'[at[w]] = [copies[at[w]] EXCEPT ![cell] = IF @ < MaxCopies THEN @ + 1 ELSE @]
    BY <1>1, <1>4 DEF Copy, Insert, Goto, Written, PlaceType, TargetType, LoopType
<1>6. copies[at[w]] \in [Cell -> 0..MaxCopies] /\ offset[w] \in Nat /\ table[w] \in 1..Tables
    BY <1>1 DEF TargetType, LoopType
<1>7. \A c \in Cell : c # cell => copies'[at[w]][c] = copies[at[w]][c]
    BY <1>5, <1>6
<1>8. cell \in Cell
    <2>1. offset[w] <= Batches[table[w]] /\ Batches[table[w]] \in Nat
        BY <1>1, DatabaseTransferAssumption DEF LoopType
    <2>2. offset[w] + 1 \in 1..Batches[table[w]]
        BY <1>2, <1>6, <2>1 DEF AllRead
    <2> QED BY <1>4, <1>6, <2>2, CellParts
<1>9. copies'[at[w]][cell] = IF copies[at[w]][cell] < 2 THEN copies[at[w]][cell] + 1
                                                        ELSE copies[at[w]][cell]
    BY <1>5, <1>6, <1>8 DEF MaxCopies
<1>10. copies'[at[w]][cell] >= 1
    BY <1>6, <1>8, <1>9 DEF MaxCopies
<1>11. ~Reached(w, cell) /\ cell[1] = table[w]
    BY <1>4, <1>6 DEF Reached
<1>12. ~Appends(kind[at[w]], plan[w]) => copies'[at[w]][cell] = 1
    <2>1. ~Appends(kind[at[w]], plan[w]) => copies[at[w]][cell] = 0
        BY <1>2, <1>3, <1>8, <1>11 DEF CopyFits, InTable
    <2> QED BY <1>9, <2>1
<1>13. plan[w] = strategy[at[w]]
    BY <1>2, <1>3 DEF CopyFits, InLoop, InTable
<1>14. \A c \in Cell : Reached(w, c)' => Reached(w, c) \/ c = cell
    <2>1. ASSUME NEW c \in Cell, Reached(w, c)', c # cell PROVE Reached(w, c)
        <3>1. c[1] < table[w] \/ (c[1] = table[w] /\ c[2] <= offset[w] + 1)
            BY <1>2, <1>5, <2>1 DEF Reached
        <3>2. c[1] = table[w] => c[2] # offset[w] + 1
            BY <1>4, <2>1, CellParts
        <3>3. c[2] \in Nat
            BY CellParts
        <3>4. ASSUME c[1] = table[w], c[2] <= offset[w] + 1 PROVE c[2] <= offset[w]
            BY <1>6, <3>2, <3>3, <3>4
        <3> QED BY <3>1, <3>4 DEF Reached
    <2> QED BY <2>1
<1>15. \A c \in Cell : Reached(w, c) => Reached(w, c)'
    BY <1>2, <1>5, <1>6, CellParts DEF Reached
<1>16. \A c \in Cell : Reached(w, c) => Good(at[w], c) /\ c # cell
    BY <1>2, <1>3, <1>11 DEF CopyFits, InLoop, InTable
<1>17. Reached(w, cell)'
    BY <1>2, <1>4, <1>5, <1>6 DEF Reached
<1>18. \A c \in Cell : Reached(w, c)' => Good(at[w], c)'
    <2>1. ASSUME NEW c \in Cell, Reached(w, c) PROVE Good(at[w], c)'
        BY <1>2, <1>7, <1>16, <2>1 DEF Good
    <2>2. Good(at[w], cell)'
        BY <1>2, <1>10, <1>12, <1>13 DEF Good
    <2> QED BY <1>14, <2>1, <2>2
<1>19. ~Appends(kind'[at'[w]], plan'[w]) =>
          \A c \in Cell : c[1] = table'[w] /\ ~Reached(w, c)' => copies'[at'[w]][c] = 0
    <2>1. ASSUME ~Appends(kind[at[w]], plan[w]), NEW c \in Cell, c[1] = table'[w],
                 ~Reached(w, c)'
          PROVE  copies'[at[w]][c] = 0
        <3>1. c # cell /\ ~Reached(w, c)
            BY <1>15, <1>17, <2>1
        <3>2. copies[at[w]][c] = 0
            BY <1>2, <1>3, <2>1, <3>1 DEF CopyFits, InTable
        <3> QED BY <1>7, <3>1, <3>2
    <2> QED BY <1>2, <2>1
<1> QED BY <1>2, <1>5, <1>13, <1>18, <1>19 DEF CopyFits

\* At the end of a table all of it is gone through, at the end of the last all of
\* the transfer.
LEMMA NextCopyFits ==
    ASSUME RowInv, CopyInv, NEW w \in Worker, at[w] \in Transfer \ Exempt,
           Count(w) \/ NextTable(w)
    PROVE  CopyFits(w)'
<1>1. PlaceType /\ LoopType
    BY TypeParts DEF RowInv
<1>2. UNCHANGED <<kind, strategy, made, copies, at, plan>>
    BY DEF Count, NextTable, row, target
<1>3. CopyFits(w)
    BY DEF CopyInv, Executing, Count, NextTable
<1>4. CASE Count(w)
    <2>1. pc[w] = "count" /\ pc'[w] \in {"batch", "next"} /\ UNCHANGED <<table, offset>>
        BY <1>1, <1>4 DEF Count, Goto, PlaceType
    <2> QED BY <1>2, <1>3, <2>1 DEF CopyFits, InLoop, InTable, Good, Reached
<1>5. CASE NextTable(w)
    <2>1. pc[w] = "next" /\ offset[w] = Batches[table[w]] /\ offset'[w] = 0
        BY <1>1, <1>5 DEF NextTable, CopyInv, LoopFits, AllRead, LoopType
    <2>2. \A c \in Cell : c[1] <= table[w] => Reached(w, c)
        <3>1. ASSUME NEW c \in Cell, c[1] <= table[w] PROVE Reached(w, c)
            <4>1. c[1] = table[w] => c[2] \in 1..offset[w]
                BY <2>1, CellParts
            <4>2. c[1] = table[w] => c[2] <= offset[w]
                BY <1>1, <4>1 DEF LoopType
            <4>3. c[1] < table[w] \/ c[1] = table[w]
                BY <1>1, <3>1, CellParts, DatabaseTransferAssumption DEF LoopType
            <4> QED BY <4>2, <4>3 DEF Reached
        <3> QED BY <3>1
    <2>3. \A c \in Cell : c[1] <= table[w] => Good(at[w], c)
        BY <1>3, <2>1, <2>2 DEF CopyFits, InLoop, InTable
    <2>4. CASE table[w] = Tables
        <3>1. pc'[w] = "finish"
            BY <1>1, <1>5, <2>4 DEF NextTable, Goto, PlaceType
        <3>2. \A c \in Cell : c[1] <= table[w]
            BY <2>4, CellParts, DatabaseTransferAssumption
        <3> QED BY <1>2, <2>3, <3>1, <3>2 DEF CopyFits, InLoop, InTable, Good
    <2>5. CASE table[w] # Tables
        <3>1. pc'[w] = "table" /\ table'[w] = table[w] + 1
            BY <1>1, <1>5, <2>5 DEF NextTable, Goto, PlaceType, LoopType
        <3>2. ASSUME NEW c \in Cell, Reached(w, c)' PROVE c[1] <= table[w]
            <4>1. c[1] \in Nat /\ c[2] \in Nat /\ c[2] >= 1
                BY CellParts, DatabaseTransferAssumption
            <4>2. c[1] < table[w] + 1 \/ c[2] <= 0
                BY <2>1, <3>1, <3>2 DEF Reached
            <4> QED BY <1>1, <4>1, <4>2, DatabaseTransferAssumption DEF LoopType
        <3>3. plan[w] = strategy[at[w]]
            BY <1>3, <2>1 DEF CopyFits, InLoop, InTable
        <3>4. \A c \in Cell : Reached(w, c)' => Good(at[w], c)'
            BY <1>2, <2>3, <3>2 DEF Good
        <3> QED BY <1>2, <3>1, <3>3, <3>4 DEF CopyFits, InTable
    <2> QED BY <2>4, <2>5
<1> QED BY <1>4, <1>5

\* The steps of an executor between claim and outcome.
LEMMA ExecutorCopyInv ==
    ASSUME RowInv, TargetInv, CopyInv, NEW w \in Worker, Executes(w)
    PROVE  CopyInv'
<1>1. TargetType /\ PlaceType /\ LoopType
    BY TypeParts DEF RowInv
<1>2. /\ Executing(w) /\ at' = at /\ UNCHANGED <<kind, status, strategy>>
      /\ overtaken' = overtaken /\ Exempt \subseteq Exempt' /\ at[w] \in Transfer
    BY ExecutorFrame DEF RowInv, Exempt
<1>3. \A v \in Worker \ {w} : /\ pc'[v] = pc[v] /\ plan'[v] = plan[v]
                              /\ table'[v] = table[v] /\ offset'[v] = offset[v]
    BY ExecutorFrame DEF RowInv
<1>4. \A t \in Transfer \ {at[w]} : copies'[t] = copies[t] /\ made'[t] = made[t]
    BY ExecutorFrame DEF RowInv
<1>5. SucceededIsComplete'
    <2>1. at[w] \notin Exempt' => status[at[w]] # "succeeded"
        BY <1>2 DEF RowInv, Sole, Exempt
    <2> QED BY <1>2, <1>4, <2>1, SucceededKept DEF CopyInv
<1>6. ASSUME NEW v \in Worker \ {w}, Executing(v)', at'[v] \notin Exempt'
      PROVE  CopyFits(v)'
    <2>1. Executing(v) /\ at[v] \notin Exempt /\ at[v] \in Transfer
        BY <1>1, <1>2, <1>3, <1>6 DEF Executing, RowInv, AtFits, PlaceType
    <2>2. at[v] # at[w]
        BY <1>2, <1>6, <2>1 DEF RowInv, Sole, Exempt
    <2>3. CopyFits(v)
        BY <2>1 DEF CopyInv
    <2> QED BY <1>2, <1>3, <1>4, <2>1, <2>2, <2>3, CopyKept
<1>7. LoopFits(w)'
    <2>1. CASE Looks(w)
        <3>1. table' = table /\ offset' = offset
            BY <1>1, <2>1, TypeParts, LooksFrame DEF RowInv
        <3>2. CASE Load(w) \/ LookAtTarget(w) \/ Allow(w)
            BY <1>1, <3>1, <3>2 DEF Load, LookAtTarget, Allow, Check, Goto, PlaceType, CopyInv,
                                    LoopFits
        <3>3. CASE Verify(w) \/ StartTable(w) \/ TableExists(w) \/ StartBatch(w)
            BY <1>1, <3>1, <3>3 DEF Verify, StartTable, TableExists, StartBatch, Check, Goto,
                                    PlaceType, CopyInv, LoopFits
        <3>4. CASE EndOfTable(w)
            BY <1>1, <3>1, <3>4 DEF EndOfTable, Goto, PlaceType, LoopFits, AllRead
        <3> QED BY <2>1, <3>2, <3>3, <3>4 DEF Looks
    <2>2. CASE Command(w) \/ CommandFails(w) \/ DropTable(w) \/ EnsureTable(w) \/ Truncate(w)
        BY <1>1, <2>2 DEF Command, CommandFails, DropTable, EnsureTable, Truncate, Goto,
                          PlaceType, CopyInv, LoopFits
    <2>3. CASE Copy(w) \/ CopyOther(w) \/ Count(w)
        BY <1>1, <2>3 DEF Copy, CopyOther, Insert, Count, Goto, PlaceType, LoopFits, AllRead
    <2>4. CASE NextTable(w)
        BY <1>1, <2>4 DEF NextTable, Goto, PlaceType, LoopType, LoopFits
    <2> QED BY <2>1, <2>2, <2>3, <2>4 DEF Executes, Writes
<1>8. ASSUME at[w] \notin Exempt' PROVE CopyFits(w)'
    <2>0. at[w] \in Transfer \ Exempt
        BY <1>2, <1>8
    <2>1. CASE Looks(w)
        BY <2>0, <2>1, LooksCopyFits
    <2>2. CASE Command(w)
        <3>1. copies'[at'[w]] = Full /\ pc'[w] \in {"verify", "finish"}
            BY <1>1, <1>2, <2>2 DEF Command, Written, Goto, PlaceType, TargetType
        <3>2. \A c \in Cell : Good(at[w], c)'
            BY <3>1, <1>2 DEF Good, Full
        <3> QED BY <1>2, <3>1, <3>2 DEF CopyFits, InLoop, InTable
    <2>3. CASE CommandFails(w)
        <3>1. pc'[w] \in {"stop", "fail"}
            BY <1>1, <2>3 DEF CommandFails, Goto, PlaceType
        <3> QED BY <3>1 DEF CopyFits, InLoop, InTable
    <2>4. CASE DropTable(w) \/ EnsureTable(w) \/ Truncate(w)
        BY <2>0, <2>4, PrepareCopyFits
    <2>5. CASE Copy(w)
        BY <2>0, <2>5, CopyCopyFits
    <2>6. CASE CopyOther(w)
        BY <1>8, <2>6 DEF CopyOther, Exempt
    <2>7. CASE Count(w) \/ NextTable(w)
        BY <2>0, <2>7, NextCopyFits
    <2> QED BY <2>1, <2>2, <2>3, <2>4, <2>5, <2>6, <2>7 DEF Executes, Writes
<1>9. \A v \in Worker : LoopFits(v)'
    <2>1. ASSUME NEW v \in Worker \ {w} PROVE LoopFits(v)'
        BY <1>3, <2>1 DEF CopyInv, LoopFits, AllRead
    <2> QED BY <1>7, <2>1
<1>10. \A v \in Worker : Executing(v)' /\ at'[v] \notin Exempt' => CopyFits(v)'
    BY <1>2, <1>6, <1>8
<1> QED BY <1>5, <1>9, <1>10 DEF CopyInv

\* No step leaves the invariant.
LEMMA NextCopyInv == RowInv /\ TargetInv /\ CopyInv /\ [Next]_vars => CopyInv'
<1>1. CopyInv /\ UNCHANGED vars => CopyInv'
    BY DEF CopyInv, LoopFits, AllRead, CopyFits, InLoop, InTable, Good, Reached, Exempt,
           SucceededIsComplete, Executing, vars, row, target, executors, history
<1> QED BY <1>1, RequestCopyInv, DispatchCopyInv, ExecutorCopyInv, WhoMoves

\* A transfer that has succeeded is complete, and has nothing twice unless it appends.
THEOREM SucceededIsCompleteAlways == Spec => []SucceededIsComplete
<1>1. CopyInv => SucceededIsComplete
    BY DEF CopyInv
<1> QED BY <1>1, RowInvAlways, TargetInvAlways, InitCopyInv, NextCopyInv, PTL DEF Spec
===============================================================================
