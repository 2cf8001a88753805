------------------------- MODULE WorkspaceLock_proofs -------------------------
(***************************************************************************)
(* Theorems of WorkspaceLock, for every set of callers and every lease,    *)
(* interval, wait and lag that meet LockAssumption.                        *)
(***************************************************************************)
EXTENDS WorkspaceLock, TLAPS

USE DEF Phases, Outcomes, FreeFor, OwnsKey, TtlOnSet, TtlOnRenew, Expires

-------------------------------------------------------------------------------
(* Type correctness: every variable stays in its range under every step. *)

\* Before the first call the key is free and all timers are in range.
LEMMA InitTypeOK == Init => TypeOK
  BY LockAssumption DEF Init, TypeOK

\* The end of a call keeps the types.
LEMMA AbandonTypeOK ==
  ASSUME TypeOK, NEW c \in Caller, Abandon(c)
  PROVE  TypeOK'
  BY LockAssumption DEF TypeOK, Abandon, Return

\* Every step of a caller keeps the types.
LEMMA StepTypeOK ==
  ASSUME TypeOK, NEW c \in Caller, Step(c)
  PROVE  TypeOK'
<1> USE LockAssumption
<1>1. CASE Call(c)        BY <1>1 DEF TypeOK, Call, local
<1>2. CASE SetGranted(c)  BY <1>2 DEF TypeOK, SetGranted
<1>3. CASE WaitTimeout(c) BY <1>3, AbandonTypeOK DEF WaitTimeout
<1>4. CASE AnswerLost(c)  BY <1>4 DEF TypeOK, AnswerLost
<1>5. CASE StartTask(c)   BY <1>5 DEF TypeOK, StartTask
<1>6. CASE Renew(c)
  <2>1. due[c] + Period \in -Lag..Period
    BY <1>6 DEF Renew, TypeOK
  <2>2. due' \in [Caller -> -Lag..Period]
    BY <1>6, <2>1 DEF Renew, TypeOK
  <2>3. lockLost' \in [Caller -> BOOLEAN]
    <3>1. CASE key = c
      BY <1>6, <3>1 DEF Renew, TypeOK
    <3>2. CASE key # c
      BY <1>6, <3>2, Zenon DEF Renew, TypeOK
    <3>3. QED
      BY <3>1, <3>2
  <2>4. ttl' \in 0..Lease /\ unconfirmed' \in [Caller -> 0..Lease]
    BY <1>6 DEF Renew, TypeOK
  <2>5. QED
    BY <1>6, <2>2, <2>3, <2>4 DEF TypeOK, Renew
<1>7. CASE RenewError(c)
  <2>1. due[c] + Period \in -Lag..Period
    BY <1>7 DEF RenewError, TypeOK
  <2>2. due' \in [Caller -> -Lag..Period]
    BY <1>7, <2>1 DEF RenewError, TypeOK
  <2>3. (lockLost[c] \/ unconfirmed[c] >= Lease) \in BOOLEAN
    OBVIOUS
  <2>4. lockLost' \in [Caller -> BOOLEAN]
    BY <1>7, <2>3, Zenon DEF RenewError, TypeOK
  <2>5. QED
    BY <1>7, <2>2, <2>4 DEF TypeOK, RenewError
<1>8. CASE \E result \in {"ok", "threw"} : TaskEnds(c, result)
  BY <1>8 DEF TypeOK, TaskEnds
<1>9. CASE Release(c)      BY <1>9 DEF TypeOK, Release, Return
<1>10. CASE ReleaseError(c) BY <1>10, AbandonTypeOK DEF ReleaseError
<1>11. CASE Crash(c)        BY <1>11, AbandonTypeOK DEF Crash
<1>12. QED
  BY <1>1, <1>2, <1>3, <1>4, <1>5, <1>6, <1>7, <1>8, <1>9, <1>10, <1>11
  DEF Step, Poll

\* The passing of time keeps the types.
LEMMA TickTypeOK ==
  ASSUME TypeOK, Tick
  PROVE  TypeOK'
<1> USE LockAssumption
<1>1. ttl' \in 0..Lease /\ key' \in Caller \cup {NoToken, Stale}
  BY DEF TypeOK, Tick, AtLeast
<1>2. due' \in [Caller -> -Lag..Period]
  BY DEF TypeOK, Tick, AtLeast
<1>3. waited' \in [Caller -> 0..Wait]
  BY DEF TypeOK, Tick, AtMost
<1>4. unconfirmed' \in [Caller -> 0..Lease]
  BY DEF TypeOK, Tick, AtMost
<1>5. everLost' \in [Caller -> BOOLEAN]
  <2>1. \A c \in Caller :
          (everLost[c] \/ (pc[c] = "running" /\ key' # c)) \in BOOLEAN
    OBVIOUS
  <2>2. QED
    BY <2>1, Zenon DEF Tick
<1>6. QED
  BY <1>1, <1>2, <1>3, <1>4, <1>5 DEF TypeOK, Tick

\* In every state of every behaviour each variable is in its range.
THEOREM TypeCorrect == Spec => []TypeOK
<1>1. TypeOK /\ [Next]_vars => TypeOK'
  <2>1. TypeOK /\ UNCHANGED vars => TypeOK'
    BY DEF TypeOK, vars
  <2>2. QED
    BY <2>1, StepTypeOK, TickTypeOK DEF Next
<1>2. QED
  BY InitTypeOK, <1>1, PTL DEF Spec

-------------------------------------------------------------------------------
(* A lease that Redis confirms in time never lapses. *)

\* Before the first call nobody depends on a lease.
LEMMA InitLeaseInv == Init => LeaseInv
  BY DEF Init, LeaseInv, LeaseCovers

\* A step of one caller leaves the other callers' leases alone, unless it
\* touches the key they hold, which it cannot.
LEMMA StepLeaseInv ==
  ASSUME TypeOK, LeaseInv, Reliable, NEW c \in Caller, Step(c),
         NEW d \in Caller
  PROVE  LeaseCovers(d)'
<1> USE LockAssumption DEF LeaseInv, LeaseCovers
<1>1. CASE Call(c)        BY <1>1 DEF TypeOK, Call, local
<1>2. CASE SetGranted(c)
  <2>1. CASE d = c        BY <1>2, <2>1 DEF TypeOK, SetGranted
  <2>2. CASE d # c        BY <1>2, <2>2 DEF TypeOK, SetGranted
  <2>3. QED               BY <2>1, <2>2
<1>3. CASE Abandon(c)
  <2>1. CASE d = c        BY <1>3, <2>1 DEF TypeOK, Abandon, Return
  <2>2. CASE d # c        BY <1>3, <2>2 DEF TypeOK, Abandon, Return
  <2>3. QED               BY <2>1, <2>2
<1>4. CASE AnswerLost(c)  BY <1>4 DEF AnswerLost
<1>5. CASE StartTask(c)
  <2>1. CASE d = c
    <3>1. due'[c] = Period /\ pc'[c] = "running" /\ ~lockLost'[c]
          /\ outcome'[c] # "lost" /\ key' = c /\ ttl' = ttl
      BY <1>5 DEF TypeOK, StartTask
    <3>2. ttl \in Nat /\ due[c] \in -Lag..Period /\ ttl >= Lease + due[c]
      BY <1>5 DEF TypeOK, StartTask
    <3>3. ttl' >= Lease - Period - Lag + due'[c]
      BY <3>1, <3>2
    <3>4. QED
      BY <2>1, <3>1, <3>3
  <2>2. CASE d # c        BY <1>5, <2>2 DEF TypeOK, StartTask
  <2>3. QED               BY <2>1, <2>2
<1>6. CASE Renew(c)
  <2>1. CASE d = c        BY <1>6, <2>1 DEF TypeOK, Renew
  <2>2. CASE d # c        BY <1>6, <2>2 DEF TypeOK, Renew
  <2>3. QED               BY <2>1, <2>2
<1>7. CASE RenewError(c)  BY <1>7 DEF RenewError
<1>8. CASE \E result \in {"ok", "threw"} : TaskEnds(c, result)
  <2> PICK result \in {"ok", "threw"} : TaskEnds(c, result)
    BY <1>8
  <2>1. CASE d = c        BY <2>1 DEF TypeOK, TaskEnds
  <2>2. CASE d # c        BY <2>2 DEF TypeOK, TaskEnds
  <2>3. QED               BY <2>1, <2>2
<1>9. CASE Release(c)
  <2>1. CASE d = c        BY <1>9, <2>1 DEF TypeOK, Release, Return
  <2>2. CASE d # c        BY <1>9, <2>2 DEF TypeOK, Release, Return
  <2>3. QED               BY <2>1, <2>2
<1>10. QED
  BY <1>1, <1>2, <1>3, <1>4, <1>5, <1>6, <1>7, <1>8, <1>9
  DEF Step, Poll, WaitTimeout, ReleaseError, Crash

\* Time passes only while nobody is Lag late, so the lease outlives it.
LEMMA TickLeaseInv ==
  ASSUME TypeOK, LeaseInv, Reliable, Tick, NEW d \in Caller
  PROVE  LeaseCovers(d)'
<1> USE LockAssumption DEF LeaseInv, LeaseCovers, TypeOK
<1>1. pc' = pc /\ lockLost' = lockLost /\ outcome' = outcome
  BY DEF Tick
<1>2. CASE pc[d] \in {"granted", "running"}
  <2>1. due[d] > -Lag /\ due'[d] = due[d] - 1
    BY <1>2 DEF Tick, InTime, AtLeast
  <2>2. ttl > 1
    BY <1>2, <2>1
  <2>3. key' = key /\ ttl' = ttl - 1
    BY <2>2 DEF Tick, AtLeast
  <2>4. QED
    BY <1>1, <1>2, <2>1, <2>3
<1>3. CASE pc[d] \notin {"granted", "running"}
  BY <1>1, <1>3
<1>4. QED
  BY <1>2, <1>3

\* The lease invariant holds in every reachable state.
THEOREM LeaseHolds == Spec => []LeaseInv
<1>1. TypeOK /\ LeaseInv /\ [Next]_vars => LeaseInv'
  <2> SUFFICES ASSUME TypeOK, LeaseInv, [Next]_vars, Reliable,
                      NEW d \in Caller
               PROVE  LeaseCovers(d)'
    BY DEF LeaseInv
  <2>1. CASE UNCHANGED vars
    BY <2>1 DEF vars, LeaseInv, LeaseCovers
  <2>2. QED
    BY <2>1, StepLeaseInv, TickLeaseInv DEF Next
<1>2. QED
  BY TypeCorrect, InitLeaseInv, <1>1, PTL DEF Spec

\* At most one task runs at a time while Redis answers within Lag.
THEOREM Exclusion == Spec => []MutualExclusion
<1>1. LeaseInv => MutualExclusion
  BY DEF LeaseInv, LeaseCovers, MutualExclusion, Holding
<1>2. QED
  BY LeaseHolds, <1>1, PTL

\* No call reports a lost lock while Redis answers within Lag.
THEOREM NoLoss == Spec => []NoSpuriousLoss
<1>1. LeaseInv => NoSpuriousLoss
  BY DEF LeaseInv, LeaseCovers, NoSpuriousLoss
<1>2. QED
  BY LeaseHolds, <1>1, PTL

-------------------------------------------------------------------------------
(* The lock implements the abstract section. *)

\* A caller enters an empty section when its task starts, leaves it when the
\* task ends or its pod dies, and every other step is a stutter.
LEMMA StepRefines ==
  ASSUME TypeOK, LeaseInv, Reliable, NEW c \in Caller, Step(c)
  PROVE  Section!Next \/ UNCHANGED Holding
<1> USE DEF TypeOK, Holding, LeaseInv, LeaseCovers, Section!Next
<1>1. CASE StartTask(c)
  <2>1. Holding = {}
    BY <1>1 DEF StartTask
  <2>2. Holding' = {c}
    BY <1>1, <2>1 DEF StartTask
  <2>3. Section!Enter(c)
    BY <2>1, <2>2 DEF Section!Enter
  <2>4. QED
    BY <2>3
<1>2. CASE pc'[c] # "running" /\ pc' = [pc EXCEPT ![c] = pc'[c]]
  <2>1. CASE c \in Holding
    <3>1. Holding' = Holding \ {c}
      BY <1>2, <2>1
    <3>2. Section!Leave(c)
      BY <2>1, <3>1 DEF Section!Leave
    <3>3. QED
      BY <3>2
  <2>2. CASE c \notin Holding
    <3>1. Holding' = Holding
      BY <1>2, <2>2
    <3>2. QED
      BY <3>1
  <2>3. QED
    BY <2>1, <2>2
<1>3. CASE Renew(c)
  BY <1>3 DEF Renew
<1>4. CASE RenewError(c)
  BY <1>4 DEF RenewError
<1>5. ASSUME Step(c), ~StartTask(c), ~Renew(c), ~RenewError(c)
      PROVE  pc'[c] # "running" /\ pc' = [pc EXCEPT ![c] = pc'[c]]
  BY <1>5 DEF Step, Call, Poll, SetGranted, WaitTimeout, Abandon, Return,
              AnswerLost, TaskEnds, Release, ReleaseError, Crash
<1>6. QED
  BY <1>1, <1>2, <1>3, <1>4, <1>5

\* While Redis answers within Lag, runExclusive is an exclusive section.
THEOREM Refinement == Reliable /\ Spec => ImplementsSection
<1> SUFFICES ASSUME Reliable
             PROVE  Spec => ImplementsSection
  OBVIOUS
<1>1. Init => Section!Init
  BY DEF Init, Section!Init, Holding
<1>2. TypeOK /\ LeaseInv /\ [Next]_vars => [Section!Next]_Holding
  <2>1. UNCHANGED vars => UNCHANGED Holding
    BY DEF vars, Holding
  <2>2. Tick => UNCHANGED Holding
    BY DEF Tick, Holding
  <2>3. QED
    BY <2>1, <2>2, StepRefines DEF Next
<1>3. QED
  BY <1>1, <1>2, TypeCorrect, LeaseHolds, PTL
  DEF Spec, ImplementsSection, Section!Spec

-------------------------------------------------------------------------------
(* What the tokens give without any assumption on time: stalls, outages,   *)
(* lost answers and crashes included.                                      *)

\* A call that lost its key never owns it again while its task runs.
THEOREM LossStays == Spec => LossIsFinal
<1>1. ASSUME TypeOK, [Next]_vars, NEW d \in Caller,
             pc[d] = "running", pc'[d] = "running", key # d
      PROVE  key' # d
  <2> USE <1>1, LockAssumption DEF TypeOK
  <2>1. CASE UNCHANGED vars
    BY <2>1 DEF vars
  <2>2. CASE Tick
    BY <2>2 DEF Tick
  <2>3. ASSUME NEW c \in Caller, Step(c)
        PROVE  key' # d
    BY <2>3 DEF Step, Call, Poll, SetGranted, WaitTimeout, Abandon, Return,
                AnswerLost, StartTask, Renew, RenewError, TaskEnds, Release,
                ReleaseError, Crash
  <2>4. QED
    BY <2>1, <2>2, <2>3 DEF Next
<1>2. TypeOK /\ [Next]_vars => [LossKept]_vars
  BY <1>1 DEF LossKept
<1>3. QED
  BY <1>2, TypeCorrect, PTL DEF Spec, LossIsFinal

\* The key of a running task goes away by expiry or by that task's own end.
THEOREM OwnerFrees == Spec => OnlyOwnerFrees
<1>1. ASSUME TypeOK, [Next]_vars, NEW d \in Holding, key = d, key' # d
      PROVE  pc'[d] # "running" \/ ttl <= 1
  <2> USE <1>1, LockAssumption DEF TypeOK, Holding
  <2>1. CASE UNCHANGED vars
    BY <2>1 DEF vars
  <2>2. CASE Tick
    BY <2>2 DEF Tick
  <2>3. ASSUME NEW c \in Caller, Step(c)
        PROVE  pc'[d] # "running" \/ ttl <= 1
    BY <2>3 DEF Step, Call, Poll, SetGranted, WaitTimeout, Abandon, Return,
                AnswerLost, StartTask, Renew, RenewError, TaskEnds, Release,
                ReleaseError, Crash
  <2>4. QED
    BY <2>1, <2>2, <2>3 DEF Next
<1>2. TypeOK /\ [Next]_vars => [FreedByOwner]_vars
  BY <1>1 DEF FreedByOwner
<1>3. QED
  BY <1>2, TypeCorrect, PTL DEF Spec, OnlyOwnerFrees

===============================================================================
