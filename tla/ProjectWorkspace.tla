--------------------------- MODULE ProjectWorkspace ---------------------------
(***************************************************************************)
(* One project on the shared volume: its repository, the worktrees of its  *)
(* users and its deployment worktree, and the operations of several pods   *)
(* that create, write and remove them under the workspace locks.           *)
(*                                                                         *)
(* runExclusive is the exclusive section that WorkspaceLock implements:    *)
(* lock[k] is the operation inside the section of key k.  The key          *)
(* `workspace:<project>:<user>' is written as the user.  A wait may time   *)
(* out whenever somebody else is inside.                                   *)
(***************************************************************************)
EXTENDS FiniteSets, Integers, Sequences, SequencesExt

CONSTANTS
    UserSeq,      \* the users of the project, sorted by id
    Owner,        \* the project's creator, who works in the repository itself
    Admins,       \* users who are administrators of the platform
    Op,           \* operations: one request, job or worker each
    Kind,         \* [Op -> what the operation does]
    UserOf,       \* [Op -> the user it is done for]
    Repo, Deploy, \* the keys `repository:<project>' and `deployment:...'
    Nobody,       \* a free key
    MaxAttempts,  \* PROJECT_CLEANUP_MAX_ATTEMPTS
    MaxFaults     \* bound: crashes, slow or failed removals in a behaviour

User == ToSet(UserSeq)
Key == User \cup {Repo, Deploy}
Kinds == {"open", "save", "generate", "deploy", "clean", "purge"}

ASSUME WorkspaceAssumption ==
    /\ Owner \in User /\ Admins \subseteq User
    /\ Kind \in [Op -> Kinds] /\ UserOf \in [Op -> User]
    /\ Repo # Deploy /\ {Repo, Deploy} \cap User = {} /\ Nobody \notin Op
    /\ MaxAttempts \in Nat \ {0} /\ MaxFaults \in Nat

ASSUME UsersListed == UserSeq \in Seq(User)

VARIABLES
    status,     \* Project.status; "gone" once the row is deleted
    attempts,   \* Project.deletionAttempts
    sessions,   \* users with a Session row
    tree,       \* worktrees that exist; the owner's is the repository
    deployTree, \* the deployment worktree exists
    lock,       \* [Key -> Op or Nobody]
    pc,         \* where each operation stands
    listed,     \* users a cleanup lists before it locks their workspaces
    loaded,     \* deletionAttempts as the cleanup read it
    astray,     \* history: files were made between the look of a purge and its
                \* delete, or by a deployment of a project in removal
    faults      \* faults so far

vars == <<status, attempts, sessions, tree, deployTree, lock, pc, listed,
          loaded, astray, faults>>
disk == <<tree, deployTree>>
row == <<status, attempts, sessions>>
memory == <<listed, loaded, astray>>

Statuses == {"active", "deleting", "deleting_cleanup", "deletion_failed", "gone"}
Labels == {"idle", "create_session", "ensure", "lock_repo", "check_repo",
           "create_tree", "lock_user", "check_user", "write", "lock_deploy",
           "load", "lock_prepare", "prepare", "claim", "lock_clean", "list",
           "lock_users", "remove", "delete_row", "clean_failed", "purge"}

TypeOK ==
    /\ status \in Statuses /\ attempts \in 0..MaxAttempts
    /\ sessions \subseteq User /\ tree \subseteq User
    /\ deployTree \in BOOLEAN
    /\ lock \in [Key -> Op \cup {Nobody}]
    /\ pc \in [Op -> Labels]
    /\ listed \in [Op -> SUBSET User]
    /\ loaded \in [Op -> 0..MaxAttempts]
    /\ astray \in BOOLEAN
    /\ faults \in 0..MaxFaults

Init ==
    /\ status = "active" /\ attempts = 0
    /\ sessions \in {{Owner}, User} /\ tree \in {{}, {Owner}}
    /\ deployTree = FALSE
    /\ lock = [k \in Key |-> Nobody]
    /\ pc = [o \in Op |-> "idle"]
    /\ listed = [o \in Op |-> {}] /\ loaded = [o \in Op |-> 0]
    /\ astray = FALSE /\ faults = 0

-------------------------------------------------------------------------------
(* Helpers *)

Goto(o, label) == pc' = [pc EXCEPT ![o] = label]

\* runExclusive returned or threw: every section the operation is in is left.
Finish(o) ==
    /\ Goto(o, "idle")
    /\ lock' = [k \in Key |-> IF lock[k] = o THEN Nobody ELSE lock[k]]

\* The operation is refused or fails without a change of row or disk.
Refuse(o) == Finish(o) /\ UNCHANGED <<row, disk, memory, faults>>

\* requireSession and requireProject let an operation through while the
\* project is active and the session is there.
SessionUsable(u) == status = "active" /\ u \in sessions

\* A purge has looked at the directories and will delete the row.
PurgeUnderWay == \E o \in Op : pc[o] = "purge"

\* Somebody is about to make files inside the repository's section.
Maker(o) == pc[o] \in {"create_tree", "prepare"}

\* Enter the section of key k, or throw after waiting for it in vain.
Enter(o, k, label) ==
    /\ lock[k] = Nobody
    /\ lock' = [lock EXCEPT ![k] = o]
    /\ Goto(o, label)
    /\ UNCHANGED <<row, disk, memory, faults>>

-------------------------------------------------------------------------------
(* Requests of users *)

\* The interceptor's requireSession, the worker's admission, requireProject.
Start(o) ==
    /\ pc[o] = "idle" /\ status = "active"
    /\ \/ /\ Kind[o] = "open"
          /\ Goto(o, IF UserOf[o] \in sessions THEN "ensure"
                                               ELSE "create_session")
       \/ Kind[o] = "save" /\ UserOf[o] \in sessions /\ Goto(o, "ensure")
       \/ Kind[o] = "generate" /\ UserOf[o] \in sessions /\ Goto(o, "lock_user")
       \/ Kind[o] = "deploy" /\ Goto(o, "lock_deploy")
    /\ UNCHANGED <<row, disk, lock, memory, faults>>

\* SessionService.create and releaseSession: the check of the project is over,
\* the row is inserted now; the foreign key refuses it once the project is gone.
CreateSession(o) ==
    /\ pc[o] = "create_session"
    /\ IF status = "gone"
         THEN Refuse(o)
         ELSE /\ sessions' = sessions \cup {UserOf[o]}
              /\ Goto(o, "ensure")
              /\ UNCHANGED <<status, attempts, disk, lock, memory, faults>>

\* What an operation does once its worktree is known to be there.
AfterEnsure(o) ==
    CASE Kind[o] = "open" -> "idle"
      [] Kind[o] = "save" -> "lock_user"
      [] Kind[o] = "generate" -> "write"
      [] Kind[o] = "deploy" -> "load"

\* ensureForSession before the repository lock: an existing worktree is used
\* as it is.
Ensure(o) ==
    /\ pc[o] = "ensure"
    /\ IF ~SessionUsable(UserOf[o])
         THEN Refuse(o)
         ELSE /\ Goto(o, IF UserOf[o] \in tree THEN AfterEnsure(o)
                                               ELSE "lock_repo")
              /\ UNCHANGED <<row, disk, lock, memory, faults>>

\* After the repository lock was waited for, the session is checked again,
\* and another pod may have made the worktree.
UsableUnderRepo(u) == SessionUsable(u)

LeaveRepo(o, label) ==
    /\ lock' = [lock EXCEPT ![Repo] = Nobody]
    /\ Goto(o, label)

CheckRepo(o) ==
    /\ pc[o] = "check_repo"
    /\ IF ~UsableUnderRepo(UserOf[o])
         THEN Refuse(o)
         ELSE /\ IF UserOf[o] \in tree
                   THEN LeaveRepo(o, AfterEnsure(o))
                   ELSE Goto(o, "create_tree") /\ UNCHANGED lock
              /\ UNCHANGED <<row, disk, memory, faults>>

\* accessRole: an administrator is treated as the owner of every project.
HasOwnersRole(u) == u = Owner \/ u \in Admins

\* The repository is initialised if it is missing, which only the owner's role
\* may do; a worktree is added for anyone but the owner.
CreateTree(o) ==
    /\ pc[o] = "create_tree"
    /\ IF ~HasOwnersRole(UserOf[o]) /\ Owner \notin tree
         THEN Refuse(o)
         ELSE /\ tree' = tree \cup {Owner, UserOf[o]}
              /\ LeaveRepo(o, AfterEnsure(o))
              /\ astray' = (astray \/ PurgeUnderWay)
              /\ UNCHANGED <<row, deployTree, listed, loaded, faults>>

\* Inside the workspace lock the handler or runTask checks the session once
\* more: the request may have waited while the project was removed.
NoCheck(u) == TRUE
UsableUnderUser(u) == SessionUsable(u)

CheckUser(o) ==
    /\ pc[o] = "check_user"
    /\ IF ~UsableUnderUser(UserOf[o])
         THEN Refuse(o)
         ELSE /\ Goto(o, IF Kind[o] = "generate" THEN "ensure" ELSE "write")
              /\ UNCHANGED <<row, disk, lock, memory, faults>>

\* Files are saved, a Git operation or a generation ends; the lock is left.
WriteDone(o) == pc[o] = "write" /\ Refuse(o)

-------------------------------------------------------------------------------
(* Deployments *)

\* ensureForDeployment reads the project before it waits for the repository.
LoadProject(o) ==
    /\ pc[o] = "load"
    /\ IF status = "gone"
         THEN Refuse(o)
         ELSE /\ Goto(o, "lock_prepare")
              /\ UNCHANGED <<row, disk, lock, memory, faults>>

\* The repository is initialised if it is missing; then the deployment
\* worktree is added or moved to the branch, unless the branch is missing.
\* DeployService.deploy goes on from here: see Deployment.
Prepare(o) ==
    /\ pc[o] = "prepare"
    /\ tree' = tree \cup {Owner}
    /\ deployTree' \in {deployTree, TRUE}
    /\ Finish(o)
    /\ astray' = (astray \/ PurgeUnderWay \/ status # "active")
    /\ UNCHANGED <<row, listed, loaded, faults>>

-------------------------------------------------------------------------------
(* Removal *)

\* ProjectService.remove refuses nothing but a claimed cleanup, and it looks
\* at the row before it may stop a deployment: a claim can come in between.
RemoveProject ==
    /\ status # "gone"
    /\ status' = "deleting" /\ attempts' = 0
    /\ UNCHANGED <<sessions, disk, lock, pc, memory, faults>>

\* The cleanup worker reads a project in removal ...
FindRemoval(o) ==
    /\ pc[o] = "idle" /\ Kind[o] = "clean" /\ status = "deleting"
    /\ loaded' = [loaded EXCEPT ![o] = attempts]
    /\ Goto(o, "claim")
    /\ UNCHANGED <<row, disk, lock, listed, astray, faults>>

\* ... and claims it, unless another worker has.
Claim(o) ==
    /\ pc[o] = "claim"
    /\ IF status = "deleting"
         THEN status' = "deleting_cleanup" /\ Goto(o, "lock_clean")
         ELSE UNCHANGED status /\ Goto(o, "idle")
    /\ UNCHANGED <<attempts, sessions, disk, lock, memory, faults>>

\* A claim that is ten minutes old is taken back, whether its worker died or
\* is only slow.
NothingClaimed == FALSE
Claimed == status = "deleting_cleanup"

TakeBack(o) ==
    /\ pc[o] = "idle" /\ Kind[o] = "clean" /\ Claimed
    /\ LET slow == \E d \in Op : Kind[d] = "clean" /\ pc[d] \notin {"idle", "claim"}
       IN  /\ slow => faults < MaxFaults
           /\ faults' = IF slow THEN faults + 1 ELSE faults
    /\ status' = "deleting"
    /\ UNCHANGED <<attempts, sessions, disk, lock, pc, memory>>

\* Under the repository lock: whose workspaces are there?
OwnerOnly(S) == S \cap {Owner}
UsersToLock(S) == S

ListSessions(o) ==
    /\ pc[o] = "list"
    /\ listed' = [listed EXCEPT ![o] = UsersToLock(sessions)]
    /\ Goto(o, "lock_users")
    /\ UNCHANGED <<row, disk, lock, loaded, astray, faults>>

\* The workspaces are locked one inside the other, in the order of the ids.
StillToLock(o) == {u \in listed[o] : lock[u] # o}
FirstOf(S) == UserSeq[SelectInSeq(UserSeq, LAMBDA u : u \in S)]

AllLocked(o) ==
    /\ pc[o] = "lock_users" /\ StillToLock(o) = {}
    /\ Goto(o, "remove")
    /\ UNCHANGED <<row, disk, lock, memory, faults>>

\* The sessions are read again; worktrees, deployments and repository go.
RemoveFiles(o) ==
    /\ pc[o] = "remove"
    /\ tree' = tree \ (sessions \cup {Owner})
    /\ deployTree' = FALSE
    /\ lock' = [k \in Key |-> IF lock[k] = o THEN Nobody ELSE lock[k]]
    /\ Goto(o, "delete_row")
    /\ UNCHANGED <<row, memory, faults>>

\* git or rm fails on the way: some worktrees are gone, the sections are left.
RemoveFails(o) ==
    /\ pc[o] = "remove" /\ faults < MaxFaults /\ faults' = faults + 1
    /\ \E gone \in SUBSET (tree \ {Owner}) : tree' = tree \ gone
    /\ deployTree' \in {deployTree, FALSE}
    /\ lock' = [k \in Key |-> IF lock[k] = o THEN Nobody ELSE lock[k]]
    /\ Goto(o, "clean_failed")
    /\ UNCHANGED <<row, memory>>

\* project.delete by id, which cascades to the sessions; a row that another
\* worker has deleted is an error.
DeleteRow(o) ==
    /\ pc[o] = "delete_row"
    /\ IF status = "gone"
         THEN Goto(o, "clean_failed") /\ UNCHANGED <<status, sessions>>
         ELSE Goto(o, "idle") /\ status' = "gone" /\ sessions' = {}
    /\ UNCHANGED <<attempts, disk, lock, memory, faults>>

\* The catch block: another attempt later, or the end of the attempts; a
\* project that is no longer claimed is left alone.
OneTooMany(n) == n > MaxAttempts
Exhausted(n) == n >= MaxAttempts

CleanFailed(o) ==
    /\ pc[o] = "clean_failed"
    /\ IF status = "deleting_cleanup"
         THEN LET n == loaded[o] + 1 IN
              /\ status' = IF Exhausted(n) THEN "deletion_failed" ELSE "deleting"
              /\ attempts' = n
         ELSE UNCHANGED <<status, attempts>>
    /\ Goto(o, "idle")
    /\ UNCHANGED <<sessions, disk, lock, memory, faults>>

\* An administrator queues a failed removal again.
RetryCleanup ==
    /\ status = "deletion_failed"
    /\ status' = "deleting" /\ attempts' = 0
    /\ UNCHANGED <<sessions, disk, lock, pc, memory, faults>>

\* An administrator deletes the row of a failed removal, if no directory of
\* the project exists; the row goes only if the removal is still failed.
NobodyLooks == TRUE
FilesMissing == tree = {} /\ ~deployTree

CheckPurge(o) ==
    /\ pc[o] = "idle" /\ Kind[o] = "purge"
    /\ status = "deletion_failed" /\ FilesMissing
    /\ Goto(o, "purge")
    /\ UNCHANGED <<row, disk, lock, memory, faults>>

Purge(o) ==
    /\ pc[o] = "purge"
    /\ IF status = "deletion_failed"
         THEN /\ status' = "gone" /\ sessions' = {}
              /\ astray' = (astray \/ \E d \in Op : Maker(d))
         ELSE UNCHANGED <<status, sessions, astray>>
    /\ Goto(o, "idle")
    /\ UNCHANGED <<attempts, disk, lock, listed, loaded, faults>>

-------------------------------------------------------------------------------
(* Locks *)

\* Where an operation goes once it has entered the section it waits for.
AfterLock ==
    [lock_repo |-> "check_repo", lock_user |-> "check_user",
     lock_deploy |-> "create_session", lock_prepare |-> "prepare",
     lock_clean |-> "list", lock_users |-> "lock_users"]

Waiting(o) ==
    /\ pc[o] \in DOMAIN AfterLock
    /\ pc[o] = "lock_users" => StillToLock(o) # {}

\* The key it waits for.
Wanted(o) ==
    CASE pc[o] = "lock_user"   -> UserOf[o]
      [] pc[o] = "lock_deploy" -> Deploy
      [] pc[o] = "lock_users"  -> FirstOf(StillToLock(o))
      [] OTHER                 -> Repo

Acquire(o) == Waiting(o) /\ Enter(o, Wanted(o), AfterLock[pc[o]])

\* A mutant without deadline.
WaitsForever(o) == FALSE
AfterGiveUp(o) == IF Kind[o] = "clean" THEN "clean_failed" ELSE "idle"

\* waitMs is over: the error unwinds every section the operation is in.
GiveUp(o) ==
    /\ Waiting(o) /\ lock[Wanted(o)] # Nobody
    /\ lock' = [k \in Key |-> IF lock[k] = o THEN Nobody ELSE lock[k]]
    /\ Goto(o, AfterGiveUp(o))
    /\ UNCHANGED <<row, disk, memory, faults>>

\* The pod dies; its keys expire.
Crash(o) ==
    /\ pc[o] # "idle" /\ faults < MaxFaults /\ faults' = faults + 1
    /\ Finish(o)
    /\ UNCHANGED <<row, disk, memory>>

-------------------------------------------------------------------------------
Work(o) ==
    \/ CreateSession(o) \/ Ensure(o) \/ CheckRepo(o) \/ CreateTree(o)
    \/ CheckUser(o) \/ WriteDone(o) \/ LoadProject(o) \/ Prepare(o)
    \/ FindRemoval(o) \/ Claim(o) \/ ListSessions(o) \/ AllLocked(o) \/ RemoveFiles(o)
    \/ DeleteRow(o) \/ CleanFailed(o) \/ Purge(o) \/ Acquire(o) \/ GiveUp(o)

\* A claim left behind by a dead worker is taken back in the end.
Revive(o) == TakeBack(o) /\ faults' = faults

Next ==
    \/ RemoveProject \/ RetryCleanup
    \/ \E o \in Op : Start(o) \/ CheckPurge(o) \/ Work(o) \/ TakeBack(o)
                     \/ RemoveFails(o) \/ Crash(o)

Spec == Init /\ [][Next]_vars

\* Handlers that have begun go on, and the cleanup worker ticks.  Nobody need
\* start a request, and nothing need fail.
FairSpec ==
    /\ Spec /\ \A o \in Op : WF_vars(Work(o))
    /\ \A o \in {c \in Op : Kind[c] = "clean"} : WF_vars(Revive(o))

-------------------------------------------------------------------------------
(* Properties *)

Writing == {o \in Op : pc[o] \in {"write", "create_tree", "prepare"}}
Removing == {o \in Op : pc[o] = "remove"}

\* Files are removed while nobody saves, generates, creates a worktree or
\* prepares a deployment: the cleanup holds the repository and every
\* workspace that a session of the project can be writing to.
RemovalExcludesWriters == Removing # {} => Writing = {}

\* A save or a generation writes into a worktree that exists, although it
\* may have waited for its lock while the project was removed.
WritersHaveTree == \A o \in Op : pc[o] = "write" => UserOf[o] \in tree

\* Once its row is deleted, nothing of the project is left on the volume, where
\* nobody could find it any more to remove it: of all that waits, retries, fails
\* or dies, only a deployment, which does not look at the row again, and files that
\* somebody makes while a purge is under way leave something there.
NoUntrackedFiles == status = "gone" => (tree = {} /\ ~deployTree) \/ astray

\* A removal that was accepted ends: the project is gone, or it shows up as
\* failed for an administrator, however the users keep the locks busy.
RemovalEnds == status = "deleting" ~> status \in {"gone", "deletion_failed"}

\* Every operation ends, whatever the others hold: waits are bounded.
OperationsEnd == \A o \in Op : pc[o] # "idle" ~> pc[o] = "idle"
===============================================================================
