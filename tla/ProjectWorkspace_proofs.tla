------------------------ MODULE ProjectWorkspace_proofs ------------------------
(***************************************************************************)
(* Proofs about ProjectWorkspace, for any users and operations: its types; *)
(* that a cleanup removes the files of a project only while nobody writes  *)
(* them, as long as no purge meets both a cleanup and a writer; and that a *)
(* project without a row has no files, but for those that a deployment or  *)
(* a purge without a second look leaves there.  Then, with no exception:   *)
(* on each key the operations implement ExclusiveSection, and they wait    *)
(* for each other in one kind of circle only.                              *)
(***************************************************************************)
EXTENDS ProjectWorkspace, TLAPS, WellFoundedInduction

-------------------------------------------------------------------------------
(* Types *)

CleanSteps == {"claim", "lock_clean", "list", "lock_users", "remove", "delete_row",
               "clean_failed"}

\* Where an operation may stand, by its kind.
KindsFit ==
    \A o \in Op : /\ Kind[o] = "clean" => pc[o] \in CleanSteps \cup {"idle"}
                  /\ Kind[o] = "purge" => pc[o] \in {"idle", "purge"}
                  /\ pc[o] = "purge" => Kind[o] = "purge"
                  /\ pc[o] \in {"create_session", "lock_deploy"} => Kind[o] # "generate"
                  /\ pc[o] \in {"lock_deploy", "load", "lock_prepare", "prepare"}
                        => Kind[o] = "deploy"
                  /\ pc[o] \in {"lock_user", "check_user"} => Kind[o] \in {"save", "generate"}

\* A removal that has not failed for good has attempts left.
AttemptsLeft ==
    /\ status \in {"active", "deleting", "deleting_cleanup"} => attempts < MaxAttempts
    /\ \A o \in Op : loaded[o] < MaxAttempts

TypeInv == TypeOK /\ KindsFit /\ AttemptsLeft

\* A new project is active, has all its attempts and nobody works on it.
LEMMA InitTypeInv == Init => TypeInv
<1> SUFFICES ASSUME Init PROVE TypeInv
    OBVIOUS
<1> USE WorkspaceAssumption DEF Init
<1>1. TypeOK
    <2>1. status \in Statuses /\ attempts \in 0..MaxAttempts /\ faults \in 0..MaxFaults
        BY DEF Statuses
    <2>2. sessions \subseteq User /\ tree \subseteq User
        BY Zenon
    <2>3. deployTree \in BOOLEAN
        BY Zenon
    <2>4. lock \in [Key -> Op \cup {Nobody}]
        BY Zenon
    <2>5. pc \in [Op -> Labels] /\ listed \in [Op -> SUBSET User]
        BY Zenon DEF Labels
    <2>6. loaded \in [Op -> 0..MaxAttempts]
        <3>1. 0 \in 0..MaxAttempts
            BY SMT
        <3> QED BY <3>1, Zenon
    <2> QED BY <2>1, <2>2, <2>3, <2>4, <2>5, <2>6, Zenon DEF TypeOK
<1>2. KindsFit
    BY DEF KindsFit
<1>3. AttemptsLeft
    BY DEF AttemptsLeft
<1> QED BY <1>1, <1>2, <1>3 DEF TypeInv

\* The steps of an operation keep the types.
LEMMA WorkTypeInv ==
    ASSUME TypeInv, NEW o \in Op, Work(o)
    PROVE  TypeInv'
<1> USE WorkspaceAssumption DEF TypeInv, TypeOK, Labels, Kinds, KindsFit,
        AttemptsLeft, CleanSteps, Goto, row, disk, memory
<1>1. CASE CreateSession(o)
    BY <1>1 DEF CreateSession, Refuse, Finish
<1>2. CASE Ensure(o)
    BY <1>2 DEF Ensure, Refuse, Finish, AfterEnsure
<1>3. CASE CheckRepo(o)
    BY <1>3 DEF CheckRepo, LeaveRepo, Refuse, Finish, AfterEnsure
<1>4. CASE CreateTree(o)
    <2>1. CASE Refuse(o)
        BY <2>1 DEF Refuse, Finish
    <2>2. ASSUME ~Refuse(o) PROVE TypeInv'
        <3>1. tree' \subseteq User
            BY <1>4, <2>2 DEF CreateTree
        <3>a. astray' = (astray \/ PurgeUnderWay)
            BY <1>4, <2>2, Zenon DEF CreateTree
        <3>b. astray' \in BOOLEAN
            BY <3>a, Zenon
        <3>2. /\ pc' = [pc EXCEPT ![o] = AfterEnsure(o)] /\ lock' = [lock EXCEPT ![Repo] = Nobody]
              /\ UNCHANGED <<status, attempts, sessions, deployTree, listed, loaded, faults>>
            BY <1>4, <2>2 DEF CreateTree, LeaveRepo
        <3>3. pc[o] = "create_tree"
            BY <1>4 DEF CreateTree
        <3>4. /\ AfterEnsure(o) \in {"idle", "lock_user", "write", "load"}
              /\ AfterEnsure(o) = "lock_user" => Kind[o] = "save"
              /\ AfterEnsure(o) = "load" => Kind[o] = "deploy"
            BY <3>3 DEF AfterEnsure
        <3> QED BY <3>1, <3>b, <3>2, <3>3, <3>4
    <2> QED BY <2>1, <2>2
<1>5. CASE CheckUser(o)
    BY <1>5 DEF CheckUser, Refuse, Finish
<1>6. CASE WriteDone(o)
    BY <1>6 DEF WriteDone, Refuse, Finish
<1>7. CASE LoadProject(o)
    BY <1>7 DEF LoadProject, Refuse, Finish
<1>8. CASE Prepare(o)
    BY <1>8 DEF Prepare, Finish
<1>9. CASE FindRemoval(o) \/ Claim(o)
    BY <1>9 DEF FindRemoval, Claim, Statuses
<1>10. CASE ListSessions(o)
    BY <1>10 DEF ListSessions, UsersToLock
<1>11. CASE AllLocked(o)
    BY <1>11 DEF AllLocked
<1>12. CASE RemoveFiles(o)
    BY <1>12 DEF RemoveFiles
<1>13. CASE DeleteRow(o)
    BY <1>13 DEF DeleteRow, Statuses
<1>14. CASE CleanFailed(o)
    BY <1>14 DEF CleanFailed, Statuses, Exhausted
<1>15. CASE Purge(o)
    BY <1>15 DEF Purge, Statuses
<1>16. CASE Acquire(o)
    <2>1. pc[o] \in DOMAIN AfterLock
        BY <1>16 DEF Acquire, Waiting
    <2>2. /\ AfterLock[pc[o]] \in Labels
          /\ pc[o] \in CleanSteps => AfterLock[pc[o]] \in CleanSteps
          /\ pc[o] \notin {"idle", "purge"} /\ AfterLock[pc[o]] \notin {"purge", "lock_deploy"}
          /\ AfterLock[pc[o]] = "create_session" => pc[o] = "lock_deploy"
          /\ AfterLock[pc[o]] \in {"load", "lock_prepare", "prepare"} => pc[o] = "lock_prepare"
          /\ AfterLock[pc[o]] \in {"lock_user", "check_user"} => pc[o] = "lock_user"
        BY <2>1 DEF AfterLock
    <2> HIDE DEF Labels, CleanSteps
    <2>3. UNCHANGED <<status, attempts, sessions, tree, deployTree, listed, loaded, astray, faults>>
        BY <1>16 DEF Acquire, Enter
    <2>4. pc' = [pc EXCEPT ![o] = AfterLock[pc[o]]] /\ lock' = [lock EXCEPT ![Wanted(o)] = o]
        BY <1>16 DEF Acquire, Enter
    <2> QED BY <2>2, <2>3, <2>4
<1>17. CASE GiveUp(o)
    BY <1>17 DEF GiveUp, AfterGiveUp, Waiting, AfterLock
<1> QED BY <1>1, <1>2, <1>3, <1>4, <1>5, <1>6, <1>7, <1>8, <1>9, <1>10, <1>11,
           <1>12, <1>13, <1>14, <1>15, <1>16, <1>17 DEF Work

\* Requests to remove, retries, purges and crashes keep types and attempts too.
LEMMA NextTypeInv == TypeInv /\ [Next]_vars => TypeInv'
<1> SUFFICES ASSUME TypeInv, [Next]_vars PROVE TypeInv'
    OBVIOUS
<1> USE WorkspaceAssumption DEF TypeInv, TypeOK, Statuses, Labels, Kinds,
        KindsFit, AttemptsLeft, CleanSteps, Goto, row, disk, memory
<1>1. CASE RemoveProject
    BY <1>1 DEF RemoveProject
<1>2. CASE RetryCleanup
    BY <1>2 DEF RetryCleanup
<1>3. ASSUME NEW o \in Op, Start(o) PROVE TypeInv'
    BY <1>3 DEF Start
<1>4. ASSUME NEW o \in Op, CheckPurge(o) PROVE TypeInv'
    BY <1>4 DEF CheckPurge
<1>5. ASSUME NEW o \in Op, Work(o) PROVE TypeInv'
    BY <1>5, WorkTypeInv
<1>6. ASSUME NEW o \in Op, TakeBack(o) PROVE TypeInv'
    BY <1>6 DEF TakeBack, Claimed
<1>7. ASSUME NEW o \in Op, RemoveFails(o) PROVE TypeInv'
    <2>1. tree' \subseteq User
        BY <1>7 DEF RemoveFails
    <2>2. deployTree' \in BOOLEAN
        BY <1>7, Zenon DEF RemoveFails
    <2>3. /\ faults' \in 0..MaxFaults
          /\ UNCHANGED <<status, attempts, sessions, listed, loaded, astray>>
        BY <1>7 DEF RemoveFails
    <2>4. /\ pc' = [pc EXCEPT ![o] = "clean_failed"]
          /\ lock' = [k \in Key |-> IF lock[k] = o THEN Nobody ELSE lock[k]]
          /\ pc[o] = "remove"
        BY <1>7, Zenon DEF RemoveFails
    <2>5. lock' \in [Key -> Op \cup {Nobody}]
        BY <2>4
    <2>6. pc' \in [Op -> Labels] /\ KindsFit'
        BY <2>4
    <2>7. AttemptsLeft'
        BY <2>3
    <2> QED BY <2>1, <2>2, <2>3, <2>5, <2>6, <2>7, Zenon
<1>8. ASSUME NEW o \in Op, Crash(o) PROVE TypeInv'
    BY <1>8 DEF Crash, Finish
<1>9. CASE UNCHANGED vars
    BY <1>9 DEF vars
<1> QED BY <1>1, <1>2, <1>3, <1>4, <1>5, <1>6, <1>7, <1>8, <1>9 DEF Next

\* Statuses, keys and steps keep their types, each kind of operation stays at the
\* steps of its handler, and a removal under way has attempts left.
THEOREM TypeInvAlways == Spec => []TypeInv
BY InitTypeInv, NextTypeInv, PTL DEF Spec

\* Every variable keeps its type; above all, the attempts of a removal stay
\* within PROJECT_CLEANUP_MAX_ATTEMPTS.
THEOREM TypeCorrect == Spec => []TypeOK
<1>1. TypeInv => TypeOK
    BY DEF TypeInv
<1> QED BY <1>1, TypeInvAlways, PTL

-------------------------------------------------------------------------------
(* Removal *)

(***************************************************************************)
(* An operation is inside a workspace from its last check under the lock   *)
(* on.  It may write if it has made that check and the one under the       *)
(* repository's lock, or can still pass it, which it cannot once the       *)
(* project is not active any more.  A cleanup locks the workspaces of the  *)
(* sessions it has listed, and that is enough: who may write has a session.*)
(***************************************************************************)
BeforeTree == {"ensure", "lock_repo", "check_repo"}

Inside(o) ==
    \/ pc[o] = "write"
    \/ Kind[o] = "generate" /\ pc[o] \in BeforeTree \cup {"create_tree"}

MayWrite(o) == Inside(o) /\ (pc[o] \in BeforeTree => status = "active")

RepoSteps == {"check_repo", "create_tree", "prepare", "list", "lock_users", "remove"}

KeysHeld ==
    \A o \in Op :
        /\ pc[o] \in RepoSteps => lock[Repo] = o
        /\ pc[o] = "check_user" \/ Inside(o) => lock[UserOf[o]] = o
        /\ pc[o] = "remove" => \A u \in listed[o] : lock[u] = o

\* A removal, once begun, is never undone, and its list covers who may write.
RemovalSeen ==
    \A o \in Op :
        /\ pc[o] \in CleanSteps => status # "active"
        /\ pc[o] \in {"lock_users", "remove"} =>
              \A w \in Op : MayWrite(w) => UserOf[w] \in listed[o]
        /\ pc[o] = "delete_row" => \A w \in Op : ~MayWrite(w)

\* A cleanup and somebody who may write do not meet without the row.
Apart ==
    \/ \A o \in Op : pc[o] \notin CleanSteps
    \/ \A w \in Op : ~MayWrite(w)

SessionsKept ==
    /\ status # "gone" => \A o \in Op : Inside(o) => UserOf[o] \in sessions
    /\ status = "gone" => sessions = {} /\ Apart

\* A save has made sure of its worktree before it waits for the workspace.
TreesKept ==
    \A o \in Op :
        /\ pc[o] \in {"lock_user", "check_user"} => Kind[o] \in {"save", "generate"}
        /\ pc[o] = "write" => UserOf[o] \in tree
        /\ /\ Kind[o] = "save" /\ pc[o] \in {"lock_user", "check_user"}
           /\ status = "active"
           => UserOf[o] \in tree

Guarded == KeysHeld /\ RemovalSeen /\ SessionsKept /\ TreesKept

RemovalInv == TypeInv /\ Guarded

\* The hypothesis of what follows: the row is purged only while no cleanup is
\* under way or nobody may write.  A purge empties the list of sessions that a
\* late cleanup would read.
PurgesApart == \A o \in Op : Purge(o) /\ status = "deletion_failed" => Apart

\* Nobody holds a key, lists sessions or writes in a new project.
LEMMA InitGuarded == Init => Guarded
BY WorkspaceAssumption
   DEF Init, Guarded, KeysHeld, RemovalSeen, SessionsKept, TreesKept, Inside,
       MayWrite, Apart, BeforeTree, RepoSteps, CleanSteps

\* When files are removed nobody may write.
LEMMA NobodyWrites ==
    ASSUME RemovalInv, NEW o \in Op, pc[o] = "remove"
    PROVE  \A w \in Op : ~MayWrite(w)
BY DEF RemovalInv, Guarded, KeysHeld, RemovalSeen, MayWrite, Inside, BeforeTree

\* An operation that has its worktree waits or writes according to its kind.
LEMMA AfterEnsureFits ==
    ASSUME TypeInv, NEW o \in Op, pc[o] \in {"ensure", "check_repo", "create_tree"}
    PROVE  /\ AfterEnsure(o) \in {"idle", "lock_user", "write", "load"}
           /\ AfterEnsure(o) = "write" <=> Kind[o] = "generate"
           /\ AfterEnsure(o) = "lock_user" <=> Kind[o] = "save"
           /\ AfterEnsure(o) = "load" <=> Kind[o] = "deploy"
BY WorkspaceAssumption DEF AfterEnsure, TypeInv, KindsFit, Kinds, CleanSteps

\* Leaving every section without a change of row or disk guards no less.
LEMMA RefuseGuarded ==
    ASSUME RemovalInv, NEW o \in Op, Refuse(o)
    PROVE  Guarded'
<1> USE WorkspaceAssumption DEF RemovalInv, TypeInv, TypeOK, Guarded
<1>1. /\ pc' = [pc EXCEPT ![o] = "idle"]
      /\ lock' = [k \in Key |-> IF lock[k] = o THEN Nobody ELSE lock[k]]
      /\ UNCHANGED <<status, sessions, tree, listed>>
    BY DEF Refuse, Finish, Goto, row, disk, memory
<1>2. \A p \in Op : Inside(p)' => Inside(p) /\ p # o
    BY <1>1 DEF Inside, BeforeTree
<1>a. \A p \in Op : MayWrite(p)' => MayWrite(p)
    BY <1>1, <1>2 DEF MayWrite, Inside, BeforeTree
<1>3. KeysHeld'
    BY <1>1, <1>2 DEF KeysHeld, RepoSteps, Key
<1>4. RemovalSeen'
    BY <1>1, <1>a DEF RemovalSeen, CleanSteps
<1>5. SessionsKept'
    BY <1>1, <1>2, <1>a DEF SessionsKept, Apart, CleanSteps
<1>6. TreesKept'
    BY <1>1 DEF TreesKept
<1> QED BY <1>3, <1>4, <1>5, <1>6

\* A cleanup and the writers stay apart when none of either appears.
LEMMA ApartStays ==
    ASSUME Apart,
           \A p \in Op : pc'[p] \in CleanSteps => pc[p] \in CleanSteps,
           \A p \in Op : MayWrite(p)' => MayWrite(p)
    PROVE  Apart'
<1>1. CASE \A p \in Op : pc[p] \notin CleanSteps
    <2>1. \A p \in Op : pc'[p] \notin CleanSteps
        BY <1>1
    <2> QED BY <2>1 DEF Apart
<1>2. CASE \A p \in Op : ~MayWrite(p)
    <2>1. \A p \in Op : ~MayWrite(p)'
        BY <1>2
    <2> QED BY <2>1 DEF Apart
<1> QED BY <1>1, <1>2 DEF Apart

\* The steps of an operation keep the cleanup and the writers apart.
LEMMA WorkGuarded ==
    ASSUME RemovalInv, PurgesApart, NEW o \in Op, Work(o)
    PROVE  Guarded'
<1> USE WorkspaceAssumption DEF RemovalInv, TypeInv, TypeOK, Labels, Guarded,
        KeysHeld, RemovalSeen, SessionsKept, TreesKept, Inside, MayWrite, Apart,
        BeforeTree, RepoSteps, CleanSteps, KindsFit, Key, Goto, row, disk, memory, SessionUsable
<1>1. CASE CreateSession(o)
    <2>1. CASE status = "gone"
        BY <1>1, <2>1, RefuseGuarded DEF CreateSession
    <2>2. CASE status # "gone"
        BY <1>1, <2>2 DEF CreateSession
    <2> QED BY <2>1, <2>2
<1>2. CASE Ensure(o)
    <2>1. CASE ~SessionUsable(UserOf[o])
        BY <1>2, <2>1, RefuseGuarded DEF Ensure
    <2>2. CASE SessionUsable(UserOf[o]) /\ UserOf[o] \in tree
        BY <1>2, <2>2, AfterEnsureFits DEF Ensure
    <2>3. CASE SessionUsable(UserOf[o]) /\ UserOf[o] \notin tree
        BY <1>2, <2>3 DEF Ensure
    <2> QED BY <2>1, <2>2, <2>3
<1>3. CASE CheckRepo(o)
    <2>1. CASE ~UsableUnderRepo(UserOf[o])
        BY <1>3, <2>1, RefuseGuarded DEF CheckRepo
    <2>2. CASE UsableUnderRepo(UserOf[o]) /\ UserOf[o] \in tree
        BY <1>3, <2>2, AfterEnsureFits DEF CheckRepo, LeaveRepo, UsableUnderRepo
    <2>3. CASE UsableUnderRepo(UserOf[o]) /\ UserOf[o] \notin tree
        BY <1>3, <2>3 DEF CheckRepo, UsableUnderRepo
    <2> QED BY <2>1, <2>2, <2>3
<1>4. CASE CreateTree(o)
    <2>1. CASE ~HasOwnersRole(UserOf[o]) /\ Owner \notin tree
        BY <1>4, <2>1, RefuseGuarded DEF CreateTree
    <2>2. CASE ~(~HasOwnersRole(UserOf[o]) /\ Owner \notin tree)
        BY <1>4, <2>2, AfterEnsureFits DEF CreateTree, LeaveRepo
    <2> QED BY <2>1, <2>2
<1>5. CASE CheckUser(o)
    <2>1. CASE ~UsableUnderUser(UserOf[o])
        BY <1>5, <2>1, RefuseGuarded DEF CheckUser
    <2>2. CASE UsableUnderUser(UserOf[o])
        BY <1>5, <2>2 DEF CheckUser, UsableUnderUser
    <2> QED BY <2>1, <2>2
<1>6. CASE WriteDone(o)
    BY <1>6, RefuseGuarded DEF WriteDone
<1>7. CASE LoadProject(o)
    <2>1. CASE status = "gone"
        BY <1>7, <2>1, RefuseGuarded DEF LoadProject
    <2>2. CASE status # "gone"
        BY <1>7, <2>2 DEF LoadProject
    <2> QED BY <2>1, <2>2
<1>8. CASE Prepare(o)
    BY <1>8 DEF Prepare, Finish
<1>9. CASE FindRemoval(o) \/ Claim(o)
    BY <1>9 DEF FindRemoval, Claim
<1>10. CASE ListSessions(o)
    BY <1>10 DEF ListSessions, UsersToLock
<1>11. CASE AllLocked(o)
    BY <1>11 DEF AllLocked, StillToLock
<1>12. CASE RemoveFiles(o)
    BY <1>12, NobodyWrites DEF RemoveFiles
<1>13. CASE DeleteRow(o)
    BY <1>13 DEF DeleteRow
<1>14. CASE CleanFailed(o)
    BY <1>14 DEF CleanFailed
<1>15. CASE Purge(o)
    <2>1. /\ pc[o] = "purge" /\ pc' = [pc EXCEPT ![o] = "idle"]
          /\ UNCHANGED <<tree, lock, listed>>
        BY <1>15 DEF Purge
    <2>2. CASE status # "deletion_failed"
        BY <1>15, <2>1, <2>2 DEF Purge
    <2>3. CASE status = "deletion_failed"
        <3>1. Apart /\ status' = "gone" /\ sessions' = {}
            BY <1>15, <2>3 DEF Purge, PurgesApart
        <3>2. \A p \in Op : pc'[p] \in CleanSteps => pc[p] \in CleanSteps
            BY <2>1
        <3>4. \A p \in Op : MayWrite(p)' => MayWrite(p)
            BY <2>1, <3>1
        <3>3. Apart'
            <4> HIDE DEF MayWrite, Apart, BeforeTree, Inside, CleanSteps
            <4>1. Apart
                BY <3>1
            <4> QED BY ONLY <4>1, <3>2, <3>4, ApartStays, Zenon
        <3> QED BY <2>1, <2>3, <3>1, <3>2, <3>3
    <2> QED BY <2>2, <2>3
<1>16. CASE Acquire(o)
    BY <1>16 DEF Acquire, Enter, Waiting, AfterLock, Wanted
<1>17. CASE GiveUp(o)
    BY <1>17 DEF GiveUp, AfterGiveUp, Waiting, AfterLock
<1> QED BY <1>1, <1>2, <1>3, <1>4, <1>5, <1>6, <1>7, <1>8, <1>9, <1>10, <1>11,
           <1>12, <1>13, <1>14, <1>15, <1>16, <1>17 DEF Work

\* No step opens a workspace to somebody whom a cleanup has not listed, and none
\* frees a key that guards a directory.
LEMMA NextGuarded ==
    ASSUME RemovalInv, PurgesApart, [Next]_vars
    PROVE  Guarded'
<1> USE WorkspaceAssumption DEF RemovalInv, TypeInv, TypeOK, Labels, Guarded,
        KeysHeld, RemovalSeen, SessionsKept, TreesKept, Inside, MayWrite, Apart,
        BeforeTree, RepoSteps, CleanSteps, KindsFit, Key, Goto, row, disk, memory
<1>1. CASE RemoveProject
    BY <1>1 DEF RemoveProject
<1>2. CASE RetryCleanup
    BY <1>2 DEF RetryCleanup
<1>3. ASSUME NEW o \in Op, Start(o) PROVE Guarded'
    BY <1>3 DEF Start
<1>4. ASSUME NEW o \in Op, CheckPurge(o) PROVE Guarded'
    BY <1>4 DEF CheckPurge
<1>5. ASSUME NEW o \in Op, Work(o) PROVE Guarded'
    BY <1>5, WorkGuarded
<1>6. ASSUME NEW o \in Op, TakeBack(o) PROVE Guarded'
    BY <1>6 DEF TakeBack, Claimed
<1>7. ASSUME NEW o \in Op, RemoveFails(o) PROVE Guarded'
    BY <1>7, NobodyWrites DEF RemoveFails
<1>8. ASSUME NEW o \in Op, Crash(o) PROVE Guarded'
    BY <1>8 DEF Crash, Finish
<1>9. CASE UNCHANGED vars
    BY <1>9 DEF vars
<1> QED BY <1>1, <1>2, <1>3, <1>4, <1>5, <1>6, <1>7, <1>8, <1>9 DEF Next

\* Whoever is inside a workspace holds its key, and has a session that a cleanup
\* will see, or has seen, in its list, if he may write.
THEOREM RemovalInvAlways == Spec /\ [][PurgesApart]_vars => []RemovalInv
<1>1. Init => RemovalInv
    BY InitTypeInv, InitGuarded DEF RemovalInv
<1>2. RemovalInv /\ [Next]_vars /\ [PurgesApart]_vars => RemovalInv'
    <2>1. RemovalInv /\ UNCHANGED vars => PurgesApart
        BY DEF vars, PurgesApart, Purge, RemovalInv, TypeInv, TypeOK, Goto
    <2> QED BY <2>1, NextTypeInv, NextGuarded DEF RemovalInv
<1> QED BY <1>1, <1>2, PTL DEF Spec

\* Whatever users, sessions, workers, stale claims, failures and crashes there
\* are: files are removed while nobody writes, if purges keep apart.
THEOREM RemovalExcludesWritersAlways ==
    Spec /\ [][PurgesApart]_vars => []RemovalExcludesWriters
<1>1. ASSUME RemovalInv PROVE RemovalExcludesWriters
    <2>1. ASSUME NEW o \in Removing, NEW w \in Writing PROVE FALSE
        <3>1. /\ o \in Op /\ pc[o] = "remove"
              /\ w \in Op /\ pc[w] \in {"write", "create_tree", "prepare"}
            BY <2>1 DEF Removing, Writing
        <3>2. CASE pc[w] = "write"
            BY <1>1, <3>1, <3>2, NobodyWrites DEF Inside, MayWrite, BeforeTree
        <3>3. CASE pc[w] \in {"create_tree", "prepare"}
            \* Both would be inside the repository.
            BY <1>1, <3>1, <3>3 DEF RemovalInv, Guarded, KeysHeld, RepoSteps
        <3> QED BY <3>1, <3>2, <3>3
    <2> QED BY <2>1 DEF RemovalExcludesWriters
<1>2. RemovalInv => RemovalExcludesWriters
    BY <1>1
<1> QED BY <1>2, RemovalInvAlways, PTL

\* A save or a generation finds its worktree in place, although it may have
\* waited for its lock while the project was removed, if purges keep apart.
THEOREM WritersHaveTreeAlways ==
    Spec /\ [][PurgesApart]_vars => []WritersHaveTree
<1>1. RemovalInv => WritersHaveTree
    BY DEF RemovalInv, Guarded, TreesKept, WritersHaveTree
<1> QED BY <1>1, RemovalInvAlways, PTL

-------------------------------------------------------------------------------
(* When purges keep apart *)

\* No administrator deletes a row, or there is one cleanup worker at most.
NobodyPurges == \A o \in Op : Kind[o] # "purge"
OneCleaner == \A o, d \in Op : Kind[o] = "clean" /\ Kind[d] = "clean" => o = d

\* With one cleanup worker, a removal that has failed for good is not under way.
FailedIsOver == OneCleaner /\ status = "deletion_failed" =>
                    \A o \in Op : pc[o] \notin CleanSteps

CleanersOnly == \A o \in Op : pc[o] \in CleanSteps => Kind[o] = "clean"

\* The cleanup's handler is run by the cleanup worker only, and the one who
\* gives a removal up goes idle.
LEMMA NextFailedIsOver ==
    ASSUME TypeInv, CleanersOnly, FailedIsOver, [Next]_vars
    PROVE  (CleanersOnly /\ FailedIsOver)'
<1> USE WorkspaceAssumption DEF TypeInv, TypeOK, Labels, CleanersOnly, FailedIsOver,
        OneCleaner, CleanSteps, KindsFit, Kinds, Goto, row, disk, memory
<1>1. CASE RemoveProject \/ RetryCleanup
    BY <1>1 DEF RemoveProject, RetryCleanup
<1>2. ASSUME NEW o \in Op, Start(o) \/ CheckPurge(o) \/ TakeBack(o)
      PROVE  (CleanersOnly /\ FailedIsOver)'
    BY <1>2 DEF Start, CheckPurge, TakeBack
<1>3. ASSUME NEW o \in Op, RemoveFails(o) \/ Crash(o)
      PROVE  (CleanersOnly /\ FailedIsOver)'
    <2>1. \/ pc' = [pc EXCEPT ![o] = "idle"]
          \/ pc' = [pc EXCEPT ![o] = "clean_failed"] /\ pc[o] = "remove"
        BY <1>3 DEF RemoveFails, Crash, Finish
    <2>2. status' = status
        BY <1>3 DEF RemoveFails, Crash
    <2> QED BY <2>1, <2>2
<1>4. ASSUME NEW o \in Op, CreateSession(o) \/ CheckUser(o) \/ WriteDone(o)
                           \/ LoadProject(o) \/ Prepare(o)
      PROVE  (CleanersOnly /\ FailedIsOver)'
    <2>1. \E label \in {"idle", "ensure", "write", "lock_prepare"} :
              pc' = [pc EXCEPT ![o] = label]
        BY <1>4 DEF CreateSession, CheckUser, WriteDone, LoadProject, Prepare, Refuse, Finish
    <2>2. status' = status
        BY <1>4 DEF CreateSession, CheckUser, WriteDone, LoadProject, Prepare, Refuse
    <2> QED BY <2>1, <2>2
<1>5. ASSUME NEW o \in Op, Ensure(o) \/ CheckRepo(o) \/ CreateTree(o)
      PROVE  (CleanersOnly /\ FailedIsOver)'
    BY <1>5, AfterEnsureFits DEF Ensure, CheckRepo, CreateTree, LeaveRepo, Refuse, Finish
<1>6. ASSUME NEW o \in Op, FindRemoval(o) \/ Claim(o) \/ ListSessions(o) \/ AllLocked(o)
                           \/ RemoveFiles(o) \/ DeleteRow(o) \/ Purge(o)
      PROVE  (CleanersOnly /\ FailedIsOver)'
    BY <1>6 DEF FindRemoval, Claim, ListSessions, AllLocked, RemoveFiles, DeleteRow, Purge
<1>7. ASSUME NEW o \in Op, CleanFailed(o)
      PROVE  (CleanersOnly /\ FailedIsOver)'
    BY <1>7 DEF CleanFailed
<1>8. ASSUME NEW o \in Op, Acquire(o) \/ GiveUp(o)
      PROVE  (CleanersOnly /\ FailedIsOver)'
    BY <1>8 DEF Acquire, Enter, GiveUp, AfterGiveUp, Waiting, AfterLock
<1>9. CASE UNCHANGED vars
    BY <1>9 DEF vars
<1> QED BY <1>1, <1>2, <1>3, <1>4, <1>5, <1>6, <1>7, <1>8, <1>9 DEF Next, Work

\* Purges keep apart where nobody purges, and where only one worker cleans up.
THEOREM PurgesKeepApart ==
    ASSUME NobodyPurges \/ OneCleaner
    PROVE  Spec => [][PurgesApart]_vars
<1>1. Init => CleanersOnly /\ FailedIsOver
    BY DEF Init, CleanersOnly, FailedIsOver, CleanSteps
<1>2. TypeInv /\ CleanersOnly /\ FailedIsOver /\ [Next]_vars => (CleanersOnly /\ FailedIsOver)'
    BY NextFailedIsOver
<1>3. TypeInv /\ FailedIsOver => PurgesApart
    BY DEF TypeInv, KindsFit, FailedIsOver, PurgesApart, Purge, Apart, NobodyPurges
<1> QED BY <1>1, <1>2, <1>3, TypeInvAlways, PTL DEF Spec

-------------------------------------------------------------------------------
(* What is left on the volume *)

(***************************************************************************)
(* A worktree belongs to a session or to the owner, so the cleanup finds   *)
(* it; and who is about to create one has seen, inside the repository,     *)
(* that the project is active.  Prepare has not, and the look that a purge *)
(* takes at the directories is over when it deletes the row: a deployment  *)
(* of a project in removal, or files made meanwhile, lead it astray.       *)
(***************************************************************************)
\* What leads no project astray: deployments of active projects, files that are
\* made while no purge is under way, and purges while nobody makes any.
MadeInTime ==
    /\ \A o \in Op : Prepare(o) => status = "active"
    /\ \A o \in Op : (CreateTree(o) /\ tree' # tree) \/ Prepare(o) => ~PurgeUnderWay
    /\ \A o, d \in Op : Purge(o) /\ status = "deletion_failed" => ~Maker(d)

FilesOwned ==
    /\ status # "gone" => tree \subseteq sessions \cup {Owner}
    /\ \A o \in Op :
          /\ pc[o] = "create_tree" => UserOf[o] \in sessions /\ status # "gone"
          /\ pc[o] = "purge" => tree = {} /\ deployTree = FALSE
          /\ pc[o] = "delete_row" => \A w \in Op : pc[w] # "create_tree"
    /\ status = "gone" \/ (\E o \in Op : pc[o] = "delete_row")
          => tree = {} /\ deployTree = FALSE

FilesInv == RemovalInv /\ FilesOwned

\* A purge in time finds nobody who may write.
LEMMA InTimeKeepsApart == FilesInv /\ MadeInTime => PurgesApart
<1> SUFFICES ASSUME FilesInv, MadeInTime, NEW o \in Op, Purge(o), status = "deletion_failed",
                    NEW w \in Op, MayWrite(w)
             PROVE  FALSE
    BY DEF PurgesApart, Apart
<1>1. tree = {} /\ ~Maker(w)
    BY DEF FilesInv, FilesOwned, MadeInTime, Purge
<1> QED BY <1>1 DEF FilesInv, RemovalInv, Guarded, TreesKept, Maker, MayWrite, Inside, BeforeTree

\* A step that creates files does so under a key that keeps the row alive, and the
\* row is deleted only over missing files.
LEMMA WorkFilesOwned ==
    ASSUME FilesInv, MadeInTime, NEW o \in Op, Work(o)
    PROVE  FilesOwned'
<1> USE WorkspaceAssumption DEF FilesInv, RemovalInv, TypeInv, TypeOK, Labels,
        FilesOwned, KindsFit, CleanSteps, Goto, row, disk, memory, SessionUsable
<1>1. CASE CreateSession(o)
    BY <1>1 DEF CreateSession, Refuse, Finish
<1>2. CASE Ensure(o)
    BY <1>2, AfterEnsureFits DEF Ensure, Refuse, Finish
<1>3. CASE CheckRepo(o)
    BY <1>3, AfterEnsureFits DEF CheckRepo, UsableUnderRepo, LeaveRepo, Refuse, Finish,
                                 Guarded, RemovalSeen
<1>4. CASE CreateTree(o)
    <2>1. CASE tree' = tree
        BY <1>4, <2>1, AfterEnsureFits DEF CreateTree, LeaveRepo, Refuse, Finish
    <2>2. CASE tree' # tree
        BY <1>4, <2>2, AfterEnsureFits
           DEF CreateTree, LeaveRepo, Refuse, disk, MadeInTime, PurgeUnderWay
    <2> QED BY <2>1, <2>2
<1>5. CASE CheckUser(o)
    BY <1>5 DEF CheckUser, Refuse, Finish
<1>6. CASE WriteDone(o)
    BY <1>6 DEF WriteDone, Refuse, Finish
<1>7. CASE LoadProject(o) \/ Prepare(o)
    <2>1. CASE LoadProject(o)
        BY <2>1 DEF LoadProject, Refuse, Finish
    <2>2. CASE Prepare(o)
        BY <2>2 DEF Prepare, Finish, MadeInTime, PurgeUnderWay, Guarded, RemovalSeen
    <2> QED BY <1>7, <2>1, <2>2
<1>8. CASE FindRemoval(o) \/ Claim(o)
    BY <1>8 DEF FindRemoval, Claim
<1>9. CASE ListSessions(o) \/ AllLocked(o)
    BY <1>9 DEF ListSessions, AllLocked
<1>10. CASE RemoveFiles(o)
    BY <1>10 DEF RemoveFiles, Guarded, KeysHeld, RepoSteps, SessionsKept
<1>11. CASE DeleteRow(o)
    BY <1>11 DEF DeleteRow
<1>12. CASE CleanFailed(o)
    BY <1>12 DEF CleanFailed
<1>13. CASE Purge(o)
    BY <1>13 DEF Purge, MadeInTime, Maker
<1>14. CASE Acquire(o)
    BY <1>14 DEF Acquire, Enter, Waiting, AfterLock
<1>15. CASE GiveUp(o)
    BY <1>15 DEF GiveUp, AfterGiveUp
<1> QED BY <1>1, <1>2, <1>3, <1>4, <1>5, <1>6, <1>7, <1>8, <1>9, <1>10, <1>11,
           <1>12, <1>13, <1>14, <1>15 DEF Work

\* Files of a project without a row do not appear by any other step either.
LEMMA NextFilesOwned ==
    ASSUME FilesInv, MadeInTime, [Next]_vars
    PROVE  FilesOwned'
<1> USE WorkspaceAssumption DEF FilesInv, RemovalInv, TypeInv, TypeOK, Labels,
        FilesOwned, KindsFit, CleanSteps, Goto, row, disk, memory
<1>1. CASE RemoveProject
    BY <1>1 DEF RemoveProject
<1>2. CASE RetryCleanup
    BY <1>2 DEF RetryCleanup
<1>3. ASSUME NEW o \in Op, Start(o) PROVE FilesOwned'
    BY <1>3 DEF Start
<1>4. ASSUME NEW o \in Op, CheckPurge(o) PROVE FilesOwned'
    BY <1>4 DEF CheckPurge, FilesMissing
<1>5. ASSUME NEW o \in Op, Work(o) PROVE FilesOwned'
    BY <1>5, WorkFilesOwned
<1>6. ASSUME NEW o \in Op, TakeBack(o) PROVE FilesOwned'
    BY <1>6 DEF TakeBack, Claimed
<1>7. ASSUME NEW o \in Op, RemoveFails(o) PROVE FilesOwned'
    BY <1>7 DEF RemoveFails
<1>8. ASSUME NEW o \in Op, Crash(o) PROVE FilesOwned'
    BY <1>8 DEF Crash, Finish
<1>9. CASE UNCHANGED vars
    BY <1>9 DEF vars
<1> QED BY <1>1, <1>2, <1>3, <1>4, <1>5, <1>6, <1>7, <1>8, <1>9 DEF Next

\* A project that is not astray after a step was not before, and the step was in time.
LEMMA NotAstray ==
    ASSUME TypeInv, [Next]_vars, ~astray'
    PROVE  ~astray /\ MadeInTime
<1> USE DEF TypeInv, TypeOK
<1>1. MadeInTime
    BY DEF MadeInTime, Purge, Prepare, CreateTree, Refuse, disk
<1>2. ASSUME NEW o \in Op, Prepare(o) \/ Purge(o) \/ CreateTree(o) PROVE ~astray
    BY <1>2 DEF Prepare, Purge, CreateTree, Refuse, memory
<1>3. ASSUME NEW o \in Op, Work(o), ~Prepare(o), ~Purge(o), ~CreateTree(o)
      PROVE  astray' = astray
    BY <1>3 DEF Work, CreateSession, Ensure, CheckRepo, CheckUser, WriteDone,
                LoadProject, FindRemoval, Claim, ListSessions, AllLocked, RemoveFiles, DeleteRow,
                CleanFailed, Acquire, Enter, GiveUp, Refuse, memory
<1>4. ASSUME NEW o \in Op, Start(o) \/ CheckPurge(o) \/ TakeBack(o) \/ RemoveFails(o) \/ Crash(o)
      PROVE  astray' = astray
    BY <1>4 DEF Start, CheckPurge, TakeBack, RemoveFails, Crash, memory
<1>5. CASE RemoveProject \/ RetryCleanup \/ UNCHANGED vars
    BY <1>1, <1>5 DEF RemoveProject, RetryCleanup, vars, memory
<1> QED BY <1>1, <1>2, <1>3, <1>4, <1>5 DEF Next

\* Whatever interleaves, fails or dies, nothing of a project whose row is deleted is
\* left on the volume, unless a deployment prepared it while it was removed, or files
\* were made between the look of a purge and its delete.
THEOREM NoUntrackedFilesAlways == Spec => []NoUntrackedFiles
<1>1. Init => (astray \/ FilesInv)
    BY WorkspaceAssumption, InitTypeInv, InitGuarded
       DEF Init, FilesOwned, FilesInv, RemovalInv
<1>2. TypeInv /\ (astray \/ FilesInv) /\ [Next]_vars => (astray \/ FilesInv)'
    BY NotAstray, InTimeKeepsApart, NextTypeInv, NextGuarded, NextFilesOwned
       DEF FilesInv, RemovalInv
<1>3. FilesInv => NoUntrackedFiles
    BY Zenon DEF FilesInv, FilesOwned, NoUntrackedFiles
<1>4. astray => NoUntrackedFiles
    BY DEF NoUntrackedFiles
<1> QED BY <1>1, <1>2, <1>3, <1>4, TypeInvAlways, PTL DEF Spec

\* Nobody prepares the owner's repository for a deployment.
NobodyDeploys == \A o \in Op : Kind[o] # "deploy"

\* Nothing goes astray where nobody purges and nobody deploys: users, sessions, workers,
\* retries, cleanups, stale claims, failures and crashes alone leave no files behind.
THEOREM NothingGoesAstray ==
    ASSUME NobodyPurges, NobodyDeploys
    PROVE  Spec => []~astray
<1>1. Init => ~astray
    BY DEF Init
<1>2. TypeInv /\ ~astray /\ [Next]_vars => ~astray'
    <2> SUFFICES ASSUME TypeInv, ~astray, [Next]_vars PROVE ~astray'
        OBVIOUS
    <2> USE DEF TypeInv, TypeOK, KindsFit
    <2>1. /\ \A o \in Op : ~Prepare(o) /\ ~Purge(o)
          /\ ~PurgeUnderWay
        BY DEF Prepare, Purge, PurgeUnderWay, NobodyPurges, NobodyDeploys
    <2>2. ASSUME NEW o \in Op, Work(o) PROVE astray' = astray
        <3>1. CASE CreateTree(o)
            BY <2>1, <3>1 DEF CreateTree, Refuse, memory
        <3>2. CASE ~CreateTree(o)
            BY <2>1, <2>2, <3>2
               DEF Work, CreateSession, Ensure, CheckRepo, CheckUser, WriteDone, LoadProject,
                   FindRemoval, Claim, ListSessions, AllLocked, RemoveFiles, DeleteRow, CleanFailed,
                   Acquire, Enter, GiveUp, Refuse, memory
        <3> QED BY <3>1, <3>2
    <2>3. ASSUME NEW o \in Op, Start(o) \/ CheckPurge(o) \/ TakeBack(o) \/ RemoveFails(o) \/ Crash(o)
          PROVE  astray' = astray
        BY <2>3 DEF Start, CheckPurge, TakeBack, RemoveFails, Crash, memory
    <2>4. CASE RemoveProject \/ RetryCleanup \/ UNCHANGED vars
        BY <2>4 DEF RemoveProject, RetryCleanup, vars, memory
    <2> QED BY <2>2, <2>3, <2>4 DEF Next
<1> QED BY <1>1, <1>2, TypeInvAlways, PTL DEF Spec

-------------------------------------------------------------------------------
(* Sections *)

(***************************************************************************)
(* The operations that run inside runExclusive with key k, by where they   *)
(* stand and not by what the lock says.  A cleanup enters the workspaces   *)
(* one after the other and leaves them together.                           *)
(***************************************************************************)
Within(k) == {o \in Op :
    \/ k = Repo /\ pc[o] \in RepoSteps
    \/ k = Deploy /\ Kind[o] = "deploy" /\ pc[o] \notin {"idle", "lock_deploy"}
    \/ k = UserOf[o] /\ (pc[o] = "check_user" \/ Inside(o))
    \/ k \in User /\ pc[o] \in {"lock_users", "remove"} /\ lock[k] = o}

KeysFit == \A k \in Key, o \in Op : lock[k] = o <=> o \in Within(k)

\* Keys and places fit each other: no key is kept by an operation that is over or
\* has left the section, and no section is entered without its key.
SectionInv == TypeInv /\ CleanersOnly /\ KeysFit

\* The first user of a nonempty set is one of its members.
LEMMA FirstOfFits ==
    ASSUME NEW S \in SUBSET User, S # {}
    PROVE  FirstOf(S) \in S
<1> DEFINE I == {i \in 1..Len(UserSeq) : UserSeq[i] \in S}
<1>1. Len(UserSeq) \in Nat /\ DOMAIN UserSeq = 1..Len(UserSeq)
    BY UsersListed
<1>2. I # {} /\ I \subseteq Nat
    BY <1>1 DEF User, ToSet
<1>3. Min(I) \in I
    <2>1. PICK n \in I : \A m \in I : <<m, n>> \notin OpToRel(<, Nat)
        BY <1>2, WFMin, NatLessThanWellFounded
    <2>2. OpToRel(<, Nat) = {ss \in Nat \X Nat : ss[1] < ss[2]}
        BY DEF OpToRel
    <2>3. ASSUME NEW m \in I PROVE n <= m
        <3>1. m \in Nat /\ n \in Nat /\ ~(m < n)
            BY <1>2, <2>1, <2>2
        <3> QED BY <3>1
    <2> QED BY <2>1, <2>3 DEF Min
<1>4. FirstOf(S) = UserSeq[Min(I)]
    BY <1>2 DEF FirstOf, SelectInSeq
<1> QED BY <1>3, <1>4

\* A step of one operation concerns its own keys.
LEMMA WorkKeysFit ==
    ASSUME SectionInv, NEW o \in Op, Work(o)
    PROVE  KeysFit'
<1> USE WorkspaceAssumption DEF SectionInv, TypeInv, TypeOK, Labels, KindsFit, Kinds,
        CleanersOnly, CleanSteps, KeysFit, Within, Inside, BeforeTree, RepoSteps,
        Key, Goto, row, disk, memory
<1>1. CASE CreateSession(o)
    BY <1>1 DEF CreateSession, Refuse, Finish
<1>2. CASE Ensure(o)
    BY <1>2, AfterEnsureFits DEF Ensure, Refuse, Finish
<1>3. CASE CheckRepo(o)
    BY <1>3, AfterEnsureFits DEF CheckRepo, LeaveRepo, Refuse, Finish
<1>4. CASE CreateTree(o)
    BY <1>4, AfterEnsureFits DEF CreateTree, LeaveRepo, Refuse, Finish
<1>5. CASE CheckUser(o)
    BY <1>5 DEF CheckUser, Refuse, Finish
<1>6. CASE WriteDone(o)
    BY <1>6 DEF WriteDone, Refuse, Finish
<1>7. CASE LoadProject(o)
    BY <1>7 DEF LoadProject, Refuse, Finish
<1>8. CASE Prepare(o)
    BY <1>8 DEF Prepare, Finish
<1>9. CASE FindRemoval(o) \/ Claim(o)
    BY <1>9 DEF FindRemoval, Claim
<1>10. CASE ListSessions(o) \/ AllLocked(o)
    BY <1>10 DEF ListSessions, AllLocked
<1>11. CASE RemoveFiles(o)
    BY <1>11 DEF RemoveFiles
<1>12. CASE DeleteRow(o)
    BY <1>12 DEF DeleteRow
<1>13. CASE CleanFailed(o)
    BY <1>13 DEF CleanFailed
<1>14. CASE Purge(o)
    BY <1>14 DEF Purge
<1>15. CASE Acquire(o)
    <2>1. /\ lock[Wanted(o)] = Nobody /\ lock' = [lock EXCEPT ![Wanted(o)] = o]
          /\ pc' = [pc EXCEPT ![o] = AfterLock[pc[o]]] /\ pc[o] \in DOMAIN AfterLock
        BY <1>15 DEF Acquire, Enter, Waiting
    <2>2. \A k \in Key, p \in Op \ {o} : /\ lock'[k] = p <=> lock[k] = p
                                         /\ p \in Within(k)' <=> p \in Within(k)
        BY <2>1
    <2>3. CASE pc[o] = "lock_user"
        BY <2>1, <2>2, <2>3 DEF AfterLock, Wanted
    <2>4. CASE pc[o] = "lock_deploy"
        BY <2>1, <2>2, <2>4 DEF AfterLock, Wanted
    <2>5. CASE pc[o] = "lock_users"
        <3>1. Wanted(o) = FirstOf(StillToLock(o)) /\ StillToLock(o) # {}
            BY <1>15, <2>5 DEF Acquire, Waiting, Wanted
        <3>2. StillToLock(o) \in SUBSET User
            BY DEF StillToLock
        <3>3. Wanted(o) \in User
            BY <3>1, <3>2, FirstOfFits
        <3> QED BY <2>1, <2>2, <2>5, <3>3 DEF AfterLock
    <2>6. CASE pc[o] \in {"lock_repo", "lock_prepare", "lock_clean"}
        BY <2>1, <2>2, <2>6 DEF AfterLock, Wanted
    <2> QED BY <2>1, <2>3, <2>4, <2>5, <2>6 DEF AfterLock
<1>16. CASE GiveUp(o)
    BY <1>16 DEF GiveUp, AfterGiveUp, Waiting, AfterLock
<1> QED BY <1>1, <1>2, <1>3, <1>4, <1>5, <1>6, <1>7, <1>8, <1>9, <1>10, <1>11,
           <1>12, <1>13, <1>14, <1>15, <1>16 DEF Work

\* Nor does any other step take a key, or leave one with somebody outside.
LEMMA NextSectionInv == SectionInv /\ FailedIsOver /\ [Next]_vars => KeysFit'
<1> SUFFICES ASSUME SectionInv, [Next]_vars PROVE KeysFit'
    OBVIOUS
<1> USE WorkspaceAssumption DEF SectionInv, TypeInv, TypeOK, Labels, KindsFit, Kinds,
        CleanersOnly, CleanSteps, KeysFit, Within, Inside, BeforeTree, RepoSteps,
        Key, Goto, row, disk, memory
<1>1. CASE RemoveProject \/ RetryCleanup
    BY <1>1 DEF RemoveProject, RetryCleanup
<1>2. ASSUME NEW o \in Op, Start(o) \/ CheckPurge(o) \/ TakeBack(o) PROVE KeysFit'
    BY <1>2 DEF Start, CheckPurge, TakeBack
<1>3. ASSUME NEW o \in Op, RemoveFails(o) PROVE KeysFit'
    BY <1>3 DEF RemoveFails
<1>4. ASSUME NEW o \in Op, Crash(o) PROVE KeysFit'
    BY <1>4 DEF Crash, Finish
<1>5. ASSUME NEW o \in Op, Work(o) PROVE KeysFit'
    BY <1>5, WorkKeysFit
<1>6. CASE UNCHANGED vars
    BY <1>6 DEF vars
<1> QED BY <1>1, <1>2, <1>3, <1>4, <1>5, <1>6 DEF Next

\* Without any hypothesis: a key is held by who is within its section, and by
\* nobody else.  In particular an operation that has ended keeps none.
THEOREM SectionInvAlways == Spec => []SectionInv
<1> DEFINE Inv == SectionInv /\ FailedIsOver
<1>1. Init => Inv
    <2>1. Init => CleanersOnly /\ FailedIsOver
        BY DEF Init, CleanersOnly, FailedIsOver, CleanSteps
    <2>2. Init => KeysFit
        BY WorkspaceAssumption DEF Init, KeysFit, Within, Inside, RepoSteps, BeforeTree, Key
    <2> QED BY <2>1, <2>2, InitTypeInv DEF SectionInv
<1>2. Inv /\ [Next]_vars => Inv'
    BY NextTypeInv, NextFailedIsOver, NextSectionInv DEF SectionInv
<1>3. Inv => SectionInv
    OBVIOUS
<1> QED BY <1>1, <1>2, <1>3, PTL DEF Spec

\* A key goes from nobody to somebody and back.
LEMMA KeyTurns ==
    ASSUME TypeInv, [Next]_vars, NEW k \in Key
    PROVE  \/ lock'[k] = lock[k]
           \/ lock[k] = Nobody /\ lock'[k] \in Op
           \/ lock[k] \in Op /\ lock'[k] = Nobody
<1> DEFINE Turns == \/ lock'[k] = lock[k]
                    \/ lock[k] = Nobody /\ lock'[k] \in Op
                    \/ lock[k] \in Op /\ lock'[k] = Nobody
<1> USE WorkspaceAssumption DEF TypeInv, TypeOK, row, disk, memory
<1>1. CASE RemoveProject \/ RetryCleanup
    BY <1>1 DEF RemoveProject, RetryCleanup
<1>2. ASSUME NEW o \in Op, Finish(o) PROVE Turns
    BY <1>2 DEF Finish
<1>3. ASSUME NEW o \in Op, Start(o) \/ CheckPurge(o) \/ TakeBack(o) PROVE Turns
    BY <1>3 DEF Start, CheckPurge, TakeBack
<1>4. ASSUME NEW o \in Op, RemoveFails(o) \/ RemoveFiles(o) \/ GiveUp(o) PROVE Turns
    BY <1>4 DEF RemoveFails, RemoveFiles, GiveUp
<1>5. ASSUME NEW o \in Op, Crash(o) \/ WriteDone(o) \/ Prepare(o) PROVE Turns
    BY <1>5, <1>2 DEF Crash, WriteDone, Prepare, Refuse
<1>6. ASSUME NEW o \in Op, CreateSession(o) \/ Ensure(o) \/ CheckUser(o) \/ LoadProject(o)
      PROVE  Turns
    BY <1>6, <1>2 DEF CreateSession, Ensure, CheckUser, LoadProject, Refuse
<1>7. ASSUME NEW o \in Op, CheckRepo(o) \/ CreateTree(o) PROVE Turns
    BY <1>7, <1>2 DEF CheckRepo, CreateTree, Refuse, LeaveRepo
<1>8. ASSUME NEW o \in Op, FindRemoval(o) \/ Claim(o) \/ ListSessions(o)
                           \/ AllLocked(o) \/ DeleteRow(o)
                           \/ CleanFailed(o) \/ Purge(o)
      PROVE  Turns
    BY <1>8 DEF FindRemoval, Claim, ListSessions, AllLocked, DeleteRow, CleanFailed, Purge
<1>9. ASSUME NEW o \in Op, Acquire(o) PROVE Turns
    BY <1>9 DEF Acquire, Enter
<1>10. CASE UNCHANGED vars
    BY <1>10 DEF vars
<1> QED BY <1>1, <1>3, <1>4, <1>5, <1>6, <1>7, <1>8, <1>9, <1>10 DEF Next, Work

\* The section of one key, as ExclusiveSection promises it.
Section(k) == INSTANCE ExclusiveSection WITH Caller <- Op, inside <- Within(k)

\* One at a time enters the section of a key, when nobody is within.
LEMMA StepRefines ==
    ASSUME SectionInv, SectionInv', [Next]_vars, NEW k \in Key
    PROVE  [Section(k)!Next]_(Within(k))
<1>1. /\ Within(k) = {o \in Op : lock[k] = o}
      /\ Within(k)' = {o \in Op : lock'[k] = o}
    BY DEF SectionInv, KeysFit, Within
<1>2. CASE lock'[k] = lock[k]
    BY <1>1, <1>2
<1>3. CASE lock[k] = Nobody /\ lock'[k] \in Op
    <2>1. Section(k)!Enter(lock'[k])
        BY <1>1, <1>3, WorkspaceAssumption DEF Section!Enter
    <2> QED BY <1>3, <2>1 DEF Section!Next
<1>4. CASE lock[k] \in Op /\ lock'[k] = Nobody
    <2>1. Section(k)!Leave(lock[k])
        BY <1>1, <1>4, WorkspaceAssumption DEF Section!Leave
    <2> QED BY <1>4, <2>1 DEF Section!Next
<1> QED BY <1>2, <1>3, <1>4, KeyTurns DEF SectionInv

\* The handlers, nested as they are, keep within each key what runExclusive
\* promises: WorkspaceLock and ProjectWorkspace implement the same section.
THEOREM SectionsRefine ==
    ASSUME NEW k \in Key
    PROVE  Spec => Section(k)!Spec
<1>1. Init => Section(k)!Init
    BY WorkspaceAssumption
       DEF Init, Section!Init, Within, Inside, RepoSteps, BeforeTree
<1>2. SectionInv /\ SectionInv' /\ [Next]_vars => [Section(k)!Next]_(Within(k))
    BY StepRefines
<1> QED BY <1>1, <1>2, SectionInvAlways, PTL DEF Spec, Section!Spec

\* Two operations never write into one worktree, nor into one repository, at once:
\* no hypothesis about purges, deployments or cleanups is needed.
OneWriterEach ==
    /\ \A a, b \in Op : pc[a] = "write" /\ pc[b] = "write" /\ UserOf[a] = UserOf[b] => a = b
    /\ \A a, b \in Op : /\ pc[a] \in {"create_tree", "prepare", "remove"}
                        /\ pc[b] \in {"create_tree", "prepare", "remove"}
                        => a = b

\* Whatever is created, saved, generated, deployed, removed and purged by however
\* many pods, each worktree has one writer and the repository one owner.
THEOREM OneWriterEachAlways == Spec => []OneWriterEach
<1>1. SectionInv => OneWriterEach
    <2> SUFFICES ASSUME SectionInv PROVE OneWriterEach
        OBVIOUS
    <2>1. \A o \in Op : pc[o] = "write" => lock[UserOf[o]] = o
        BY WorkspaceAssumption DEF SectionInv, KeysFit, Within, Inside, Key
    <2>2. \A o \in Op : pc[o] \in {"create_tree", "prepare", "remove"} => lock[Repo] = o
        BY WorkspaceAssumption DEF SectionInv, KeysFit, Within, RepoSteps, Key
    <2> QED BY <2>1, <2>2 DEF OneWriterEach
<1> QED BY <1>1, SectionInvAlways, PTL

(***************************************************************************)
(* Operations that wait for each other in a circle.  The order of the      *)
(* locks, repository before workspace, is meant to exclude them; a         *)
(* generation that finds no worktree reverses it.                          *)
(***************************************************************************)
Circle(S) == S # {} /\ \A a \in S : Waiting(a) /\ lock[Wanted(a)] \in S

Reversal(g, c) ==
    /\ Kind[g] = "generate" /\ pc[g] = "lock_repo"
    /\ Kind[c] = "clean" /\ pc[c] = "lock_users"
    /\ lock[Repo] = c /\ Wanted(c) = UserOf[g] /\ lock[UserOf[g]] = g

OneKindOfCircle == \A S \in SUBSET Op : Circle(S) => \E g, c \in S : Reversal(g, c)

\* Whom the members of a circle wait for, by where these stand.
LEMMA WaitsFor ==
    ASSUME SectionInv, NEW b \in Op, Waiting(b), NEW k \in Key, lock[k] = b
    PROVE  \/ pc[b] \in {"lock_repo", "lock_prepare"} /\ Wanted(b) = Repo
           \/ pc[b] = "lock_users" /\ lock[Repo] = b
<1>1. pc[b] \in {"lock_repo", "lock_user", "lock_deploy", "lock_prepare", "lock_clean",
                 "lock_users"}
    BY DEF Waiting, AfterLock
<1>2. pc[b] \notin {"lock_user", "lock_deploy", "lock_clean"}
    <2>1. b \in Within(k)
        BY DEF SectionInv, KeysFit
    <2> QED BY <2>1 DEF SectionInv, TypeInv, KindsFit, CleanersOnly, CleanSteps, Within,
                        Inside, BeforeTree, RepoSteps
<1>3. CASE pc[b] \in {"lock_repo", "lock_prepare"}
    BY <1>3 DEF Wanted
<1>4. CASE pc[b] = "lock_users"
    BY <1>4 DEF SectionInv, KeysFit, Within, RepoSteps, Key
<1> QED BY <1>1, <1>2, <1>3, <1>4

\* A cleanup waits for a workspace, whose key it has not.
LEMMA CleanupWaits ==
    ASSUME TypeInv, NEW c \in Op, Waiting(c), pc[c] = "lock_users"
    PROVE  Wanted(c) \in User /\ lock[Wanted(c)] # c
<1>1. Wanted(c) = FirstOf(StillToLock(c)) /\ StillToLock(c) # {}
    BY DEF Waiting, Wanted
<1>2. StillToLock(c) \in SUBSET User
    BY DEF TypeInv, TypeOK, StillToLock
<1>3. Wanted(c) \in StillToLock(c)
    BY <1>1, <1>2, FirstOfFits
<1> QED BY <1>2, <1>3 DEF StillToLock

\* If operations wait for each other in a circle, whatever else happens, then a
\* cleanup inside the repository waits for the workspace of a generation that waits
\* there for the repository to create its worktree.
THEOREM OneKindOfCircleAlways == Spec => []OneKindOfCircle
<1>1. SectionInv => OneKindOfCircle
    <2> SUFFICES ASSUME SectionInv, NEW S \in SUBSET Op, Circle(S)
                 PROVE  \E g, c \in S : Reversal(g, c)
        BY DEF OneKindOfCircle
    <2>1. \A a \in S : a \in Op /\ Waiting(a) /\ lock[Wanted(a)] \in S
        BY DEF Circle
    <2>2. \A a \in S : Wanted(a) \in Key
        <3> SUFFICES ASSUME NEW a \in S PROVE Wanted(a) \in Key
            OBVIOUS
        <3>1. CASE pc[a] = "lock_users"
            BY <2>1, <3>1, CleanupWaits DEF SectionInv, Key
        <3>2. CASE pc[a] # "lock_users"
            BY <2>1, <3>2, WorkspaceAssumption DEF Wanted, Key
        <3> QED BY <3>1, <3>2
    <2>3. PICK a \in S : TRUE
        BY DEF Circle
    <2>4. PICK b \in S : b = lock[Wanted(a)]
        BY <2>1, <2>3
    <2>5. PICK c \in S : pc[c] = "lock_users" /\ lock[Repo] = c
        <3>1. CASE pc[b] = "lock_users" /\ lock[Repo] = b
            BY <3>1
        <3>2. CASE Wanted(b) = Repo
            <4>1. PICK d \in S : d = lock[Repo]
                BY <2>1, <3>2
            <4>2. d \in Op /\ Waiting(d) /\ pc[d] \in RepoSteps
                BY <2>1, <4>1, WorkspaceAssumption DEF SectionInv, KeysFit, Within, Key
            <4> QED BY <4>1, <4>2 DEF RepoSteps, Waiting, AfterLock
        <3> QED BY <2>1, <2>2, <2>3, <2>4, <3>1, <3>2, WaitsFor
    <2>6. PICK u \in User : u = Wanted(c) /\ lock[u] # c
        BY <2>1, <2>5, CleanupWaits DEF SectionInv
    <2>7. PICK g \in S : g = lock[u]
        BY <2>1, <2>6
    <2>8. g \in Op /\ Waiting(g) /\ g \in Within(u) /\ u \notin {Repo, Deploy}
        BY <2>1, <2>6, <2>7, WorkspaceAssumption DEF SectionInv, KeysFit, Key
    <2>9. pc[g] # "lock_users"
        BY <2>5, <2>6, <2>7, <2>8, WorkspaceAssumption
           DEF SectionInv, KeysFit, Within, RepoSteps, Key
    <2>10. u = UserOf[g] /\ Kind[g] = "generate" /\ pc[g] = "lock_repo"
        BY <2>8, <2>9 DEF Within, Inside, BeforeTree, Waiting, AfterLock
    <2>11. Kind[c] = "clean"
        BY <2>1, <2>5 DEF SectionInv, CleanersOnly, CleanSteps
    <2> QED BY <2>5, <2>6, <2>7, <2>10, <2>11 DEF Reversal
<1> QED BY <1>1, SectionInvAlways, PTL
================================================================================
