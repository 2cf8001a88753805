---------------------------- MODULE WorkspaceLock ----------------------------
(***************************************************************************)
(* DistributedWorkspaceLockService.runExclusive on ONE resource key: a     *)
(* Redis lease taken with SET NX PX, renewed by a timer while the task     *)
(* runs and deleted by a script that compares the token.                   *)
(*                                                                         *)
(* A call draws a fresh UUID as its token.  The token of the call in       *)
(* progress is written as its caller; the token of a call that is over is  *)
(* the value Stale, which no caller can renew or delete any more.          *)
(* Time is discrete and relative, so every counter below is bounded.       *)
(***************************************************************************)
EXTENDS Integers

CONSTANTS
    Caller,      \* calls that compete for the key (one per pod and request)
    NoToken,     \* the key is absent
    Stale,       \* the key holds the token of a call that is over
    Lease,       \* leaseMs
    Period,      \* the renewal interval, max(1000, leaseMs / 3)
    Wait,        \* waitMs
    Lag,         \* the longest a Redis exchange takes when Reliable
    Reliable     \* FALSE: the process may stall, Redis may be away, any time

(***************************************************************************)
(* The service does not validate its two settings.  With the defaults      *)
(* (lease 60 s, interval 20 s) the last conjunct leaves an exchange 20 s.  *)
(***************************************************************************)
ASSUME LockAssumption ==
    /\ NoToken \notin Caller /\ Stale \notin Caller /\ NoToken # Stale
    /\ Lease \in Nat /\ Period \in Nat \ {0} /\ Wait \in Nat /\ Lag \in Nat
    /\ Reliable \in BOOLEAN
    /\ Period + 2 * Lag < Lease

VARIABLES
    key,         \* the Redis key: NoToken, Stale or the token of a caller
    ttl,         \* ticks until Redis drops the key
    pc,          \* where each call stands
    due,         \* ticks to the next answer or renewal; below 0 it is late
    waited,      \* ticks spent in the polling loop, up to Wait
    unconfirmed, \* ticks since lastConfirmedAt, up to Lease
    lockLost,    \* the flag of the renewal callback
    everLost,    \* history: the key was not this call's while its task ran
    outcome      \* what the call will return, once its task has settled

vars == <<key, ttl, pc, due, waited, unconfirmed, lockLost, everLost, outcome>>
local == <<due, waited, unconfirmed, lockLost, everLost, outcome>>

Phases == {"idle", "waiting", "granted", "running", "releasing"}
Outcomes == {"none", "ok", "lost", "threw"}

TypeOK ==
    /\ key \in Caller \cup {NoToken, Stale}
    /\ ttl \in 0..Lease
    /\ pc \in [Caller -> Phases]
    /\ due \in [Caller -> -Lag..Period]
    /\ waited \in [Caller -> 0..Wait]
    /\ unconfirmed \in [Caller -> 0..Lease]
    /\ lockLost \in [Caller -> BOOLEAN]
    /\ everLost \in [Caller -> BOOLEAN]
    /\ outcome \in [Caller -> Outcomes]

Init ==
    /\ key = NoToken /\ ttl = 0
    /\ pc = [c \in Caller |-> "idle"]
    /\ due = [c \in Caller |-> 0]
    /\ waited = [c \in Caller |-> 0]
    /\ unconfirmed = [c \in Caller |-> 0]
    /\ lockLost = [c \in Caller |-> FALSE]
    /\ everLost = [c \in Caller |-> FALSE]
    /\ outcome = [c \in Caller |-> "none"]

-------------------------------------------------------------------------------
(* The Redis commands; above each, what a mistake would make of it. *)

AnyValue(c) == TRUE             \* NX forgotten
FreeFor(c) == key = NoToken

AnyToken(c) == key # NoToken    \* DEL without comparing the token
OwnsKey(c) == key = c

Seconds == 1000 * Lease         \* EX given the milliseconds of PX
TtlOnSet == Lease

NotExtended == ttl              \* GET without PEXPIRE
TtlOnRenew == Lease

NoExpiry == FALSE               \* PX forgotten
Expires == ttl <= 1

Never(c) == waited[c] > Wait    \* the deadline moves with the clock
DeadlinePassed(c) == waited[c] = Wait

-------------------------------------------------------------------------------
(* The end of a call: its local variables go, and with them its token. *)

Return(c) ==
    /\ pc' = [pc EXCEPT ![c] = "idle"]
    /\ due' = [due EXCEPT ![c] = 0]
    /\ waited' = [waited EXCEPT ![c] = 0]
    /\ unconfirmed' = [unconfirmed EXCEPT ![c] = 0]
    /\ lockLost' = [lockLost EXCEPT ![c] = FALSE]
    /\ everLost' = [everLost EXCEPT ![c] = FALSE]
    /\ outcome' = [outcome EXCEPT ![c] = "none"]

\* The call ends without having deleted its key, if it has one.
Abandon(c) ==
    /\ key' = IF key = c THEN Stale ELSE key
    /\ UNCHANGED ttl
    /\ Return(c)

(* Waiting for the key *)

Call(c) ==
    /\ pc[c] = "idle"
    /\ pc' = [pc EXCEPT ![c] = "waiting"]
    /\ UNCHANGED <<key, ttl, local>>

\* Redis executes SET key token PX lease NX and answers OK; the caller has
\* not seen the answer yet.
SetGranted(c) ==
    /\ pc[c] = "waiting" /\ FreeFor(c)
    /\ key' = c /\ ttl' = TtlOnSet
    /\ pc' = [pc EXCEPT ![c] = "granted"]
    /\ due' = [due EXCEPT ![c] = 0]
    /\ UNCHANGED <<waited, unconfirmed, lockLost, everLost, outcome>>

\* The key exists, and the deadline has passed: the call throws.  A key that
\* carries this call's own token (see AnswerLost) is left behind.
WaitTimeout(c) ==
    /\ pc[c] = "waiting" /\ ~FreeFor(c) /\ DeadlinePassed(c)
    /\ Abandon(c)

\* One turn of the polling loop that ends it; any other turn changes nothing.
Poll(c) == SetGranted(c) \/ WaitTimeout(c)

\* The connection drops after SET ran and before its answer arrived:
\* maxRetriesPerRequest null sends the command again, and NX refuses it.
AnswerLost(c) ==
    /\ ~Reliable /\ pc[c] = "granted"
    /\ pc' = [pc EXCEPT ![c] = "waiting"]
    /\ due' = [due EXCEPT ![c] = 0]
    /\ UNCHANGED <<key, ttl, waited, unconfirmed, lockLost, everLost, outcome>>

-------------------------------------------------------------------------------
(* Holding the key *)

\* The answer arrives: the flags are set, the renewal timer starts, the task
\* begins.
StartTask(c) ==
    /\ pc[c] = "granted"
    /\ pc' = [pc EXCEPT ![c] = "running"]
    /\ due' = [due EXCEPT ![c] = Period]
    /\ waited' = [waited EXCEPT ![c] = 0]
    /\ everLost' = [everLost EXCEPT ![c] = key # c]
    /\ UNCHANGED <<key, ttl, unconfirmed, lockLost, outcome>>

\* RENEW_SCRIPT runs.  The interval keeps its phase, however late this was.
Renew(c) ==
    /\ pc[c] = "running" /\ due[c] <= 0
    /\ due' = [due EXCEPT ![c] = @ + Period]
    /\ IF key = c
         THEN /\ ttl' = TtlOnRenew
              /\ unconfirmed' = [unconfirmed EXCEPT ![c] = 0]
              /\ UNCHANGED lockLost
         ELSE /\ lockLost' = [lockLost EXCEPT ![c] = TRUE]
              /\ UNCHANGED <<ttl, unconfirmed>>
    /\ UNCHANGED <<key, pc, waited, everLost, outcome>>

\* The renewal is rejected: the flag is raised once a whole lease has gone
\* by without a confirmation.
RenewError(c) ==
    /\ ~Reliable /\ pc[c] = "running" /\ due[c] <= 0
    /\ due' = [due EXCEPT ![c] = @ + Period]
    /\ lockLost' = [lockLost EXCEPT ![c] = @ \/ unconfirmed[c] >= Lease]
    /\ UNCHANGED <<key, ttl, pc, waited, unconfirmed, everLost, outcome>>

\* The task settles.  lockLost is looked at here, once, and only if the task
\* did not throw; finally stops the timer.
TaskEnds(c, result) ==
    /\ pc[c] = "running"
    /\ pc' = [pc EXCEPT ![c] = "releasing"]
    /\ outcome' = [outcome EXCEPT ![c] =
                     IF result = "ok" /\ lockLost[c] THEN "lost" ELSE result]
    /\ due' = [due EXCEPT ![c] = 0]
    /\ unconfirmed' = [unconfirmed EXCEPT ![c] = 0]
    /\ UNCHANGED <<key, ttl, waited, lockLost, everLost>>

\* RELEASE_SCRIPT: the key is deleted only if it still carries the token.
Release(c) ==
    /\ pc[c] = "releasing"
    /\ key' = IF OwnsKey(c) THEN NoToken ELSE key
    /\ ttl' = IF OwnsKey(c) THEN 0 ELSE ttl
    /\ Return(c)

\* A rejected release is only logged: the key stays until its lease is over.
ReleaseError(c) ==
    /\ ~Reliable /\ pc[c] = "releasing"
    /\ Abandon(c)

-------------------------------------------------------------------------------
(* The environment *)

\* The pod dies: nothing of the call survives but the key in Redis.
Crash(c) ==
    /\ pc[c] # "idle"
    /\ Abandon(c)

\* A Reliable system handles every answer and renewal at most Lag late.
InTime(c) == pc[c] \in {"granted", "running"} => due[c] > -Lag

AtLeast(n, low) == IF n < low THEN low ELSE n
AtMost(n, high) == IF n > high THEN high ELSE n

\* One tick.  Redis drops the key when its time to live is over.
Tick ==
    /\ Reliable => \A c \in Caller : InTime(c)
    /\ ttl' = AtLeast(ttl - 1, 0)
    /\ key' = IF Expires THEN NoToken ELSE key
    /\ due' = [c \in Caller |->
                 IF pc[c] \in {"granted", "running"}
                   THEN AtLeast(due[c] - 1, -Lag) ELSE due[c]]
    /\ waited' = [c \in Caller |->
                    IF pc[c] = "waiting" THEN AtMost(waited[c] + 1, Wait)
                                         ELSE waited[c]]
    /\ unconfirmed' = [c \in Caller |->
                         IF pc[c] = "running"
                           THEN AtMost(unconfirmed[c] + 1, Lease)
                           ELSE unconfirmed[c]]
    /\ everLost' = [c \in Caller |->
                      everLost[c] \/ (pc[c] = "running" /\ key' # c)]
    /\ UNCHANGED <<pc, lockLost, outcome>>

Step(c) ==
    \/ Call(c) \/ Poll(c) \/ AnswerLost(c) \/ StartTask(c)
    \/ Renew(c) \/ RenewError(c)
    \/ (\E result \in {"ok", "threw"} : TaskEnds(c, result))
    \/ Release(c) \/ ReleaseError(c) \/ Crash(c)

Next == Tick \/ \E c \in Caller : Step(c)

Spec == Init /\ [][Next]_vars

(***************************************************************************)
(* Timers fire, the loop goes on polling, answers arrive and the release   *)
(* is sent.  A task need not end and a key need not be called for.         *)
(***************************************************************************)
Fairness ==
    /\ WF_vars(Tick)
    /\ \A c \in Caller : /\ WF_vars(Poll(c)) /\ WF_vars(StartTask(c))
                         /\ WF_vars(Renew(c)) /\ WF_vars(Release(c))

FairSpec == Spec /\ Fairness

-------------------------------------------------------------------------------
(* Properties *)

Holding == {c \in Caller : pc[c] = "running"}

\* While Redis answers within Lag, at most one caller's task is running:
\* the lease is always renewed before it lapses.
MutualExclusion ==
    Reliable => \A c, d \in Holding : c = d

\* While Redis answers within Lag, no task ends in "the lock was lost during
\* the operation": work is not thrown away for a lock that was held.
NoSpuriousLoss == Reliable => \A c \in Caller : outcome[c] # "lost"

\* A key that a call has lost is never handed back to it: neither a late
\* renewal nor the expiry of the next holder's lease makes the call the
\* owner of a section that somebody else may have been in meanwhile.
LossKept ==
    \A c \in Caller :
        pc[c] = "running" /\ pc'[c] = "running" /\ key # c => key' # c

LossIsFinal == [][LossKept]_vars

\* The key of a running task goes away only by the expiry of its lease or
\* by that task's own release or crash: the late release of a call that
\* overran its lease never frees the key of the call that came after it.
FreedByOwner ==
    \A c \in Holding :
        key = c /\ key' # c => pc'[c] # "running" \/ ttl <= 1

OnlyOwnerFrees == [][FreedByOwner]_vars

\* A call that waits is answered: it gets the key or throws, whoever holds
\* the key, crashes with it or leaves it behind.
WaiterAnswered == \A c \in Caller : pc[c] = "waiting" ~> pc[c] # "waiting"

\* A key that nobody can delete any more (its pod died, its release failed,
\* its SET was answered into a dead connection) disappears by itself.
OrphanExpires == key = Stale ~> key # Stale

\* The inductive invariant behind the three properties of a Reliable system.
\* The answer to a SET that is d late leaves a lease of Lease - d; a renewal
\* is due before that lease runs out by the margin Lease - Period - Lag.
LeaseCovers(c) ==
    /\ pc[c] = "granted" => key = c /\ ttl >= Lease + due[c] /\ due[c] <= 0
    /\ pc[c] = "running" => key = c /\ ttl >= Lease - Period - Lag + due[c]
    /\ ~lockLost[c]
    /\ outcome[c] # "lost"

LeaseInv == Reliable => \A c \in Caller : LeaseCovers(c)

\* The callers inside the section, as ExclusiveSection counts them.
Section == INSTANCE ExclusiveSection WITH inside <- Holding

\* While Redis answers within Lag the lock implements ExclusiveSection.
ImplementsSection == Section!Spec

===============================================================================
