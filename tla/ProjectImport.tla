----------------------------- MODULE ProjectImport -----------------------------
(***************************************************************************)
(* The import of a project from Git: the row goes from import_queued over  *)
(* importing to active or import_failed.  Every worker replica ticks; the  *)
(* one whose conditional update wins imports into the repository, without  *)
(* a workspace lock, while its heartbeat keeps the lease of the row alive. *)
(* Its owner may retry, keep what is there, or remove the project.         *)
(***************************************************************************)
EXTENDS Naturals

CONSTANTS
    Worker,   \* replicas; each executes one import at a time
    MaxEvents \* bound: errors and crashes in a behaviour

ASSUME ImportAssumption == MaxEvents \in Nat

VARIABLES
    status,  \* Project.status; "gone" once the row is deleted
    repo,    \* the repository of the project exists
    code,    \* ... and has files in it
    pc,      \* [Worker -> where it stands in tick and executeImport]
    keeper,  \* a request that keeps the local code
    cleaner, \* the cleanup worker
    revived, \* history: the end of an import has brought a removed project back
    events   \* errors and crashes so far

vars == <<status, repo, code, pc, keeper, cleaner, revived, events>>
files == <<repo, code>>
others == <<keeper, cleaner, revived>>

Statuses == {"import_queued", "importing", "import_failed", "active",
             "deleting", "deleting_cleanup", "gone"}
ImportSteps == {"load", "ensure", "check", "checkout", "record", "fail"}

TypeOK ==
    /\ status \in Statuses
    /\ repo \in BOOLEAN /\ code \in BOOLEAN /\ (code => repo)
    /\ pc \in [Worker -> ImportSteps \cup {"idle", "look", "claim"}]
    /\ keeper \in {"idle", "update"} /\ cleaner \in {"idle", "files", "row"}
    /\ revived \in BOOLEAN
    /\ events \in 0..MaxEvents

\* ProjectService.create has just committed.
Init ==
    /\ status = "import_queued" /\ repo = FALSE /\ code = FALSE
    /\ pc = [w \in Worker |-> "idle"]
    /\ keeper = "idle" /\ cleaner = "idle" /\ revived = FALSE /\ events = 0

-------------------------------------------------------------------------------
(* Helpers *)

At(w, step) == pc[w] = step
Goto(w, step) == pc' = [pc EXCEPT ![w] = step]
Event == events < MaxEvents /\ events' = events + 1

Importers == {w \in Worker : pc[w] \in ImportSteps}

-------------------------------------------------------------------------------
(* ProjectImportWorkerService.tick *)

\* A live importer renews the lease well before it is over, so only a dead
\* one, or one that could not write its result, leaves the row behind.
LeaseKept == FALSE
LeaseOver == Importers = {}

Tick(w) ==
    /\ At(w, "idle")
    /\ status' = IF status = "importing" /\ LeaseOver THEN "import_queued" ELSE status
    /\ Goto(w, "look")
    /\ UNCHANGED <<files, others, events>>

Look(w) ==
    /\ At(w, "look")
    /\ Goto(w, IF status = "import_queued" THEN "claim" ELSE "idle")
    /\ UNCHANGED <<status, files, others, events>>

AsSeen == status # "gone"
StillQueued == status = "import_queued"

Claim(w) ==
    /\ At(w, "claim")
    /\ IF StillQueued
         THEN status' = "importing" /\ Goto(w, "load")
         ELSE UNCHANGED status /\ Goto(w, "idle")
    /\ UNCHANGED <<files, others, events>>

-------------------------------------------------------------------------------
(* ProjectService.executeImport *)

\* A project that is no longer being imported is left alone.
Load(w) ==
    /\ At(w, "load")
    /\ Goto(w, IF status = "importing" THEN "ensure" ELSE "idle")
    /\ UNCHANGED <<status, files, others, events>>

\* ensureForSession refuses a project in removal and initialises the repository.
Ensure(w) ==
    /\ At(w, "ensure")
    /\ LET usable == status \in {"import_queued", "importing", "active"} IN
       /\ repo' = (repo \/ usable)
       /\ Goto(w, IF usable THEN "check" ELSE "fail")
    /\ UNCHANGED <<status, code, others, events>>

\* importRemote works in an empty repository only.
Check(w) ==
    /\ At(w, "check")
    /\ Goto(w, IF repo /\ ~code THEN "checkout" ELSE "fail")
    /\ UNCHANGED <<status, files, others, events>>

\* The cleanup may have taken the directory away.
Checkout(w) ==
    /\ At(w, "checkout")
    /\ code' = repo
    /\ Goto(w, IF repo THEN "record" ELSE "fail")
    /\ UNCHANGED <<status, repo, others, events>>

\* The last transaction updates the row by id, whatever its status.
Record(w) ==
    /\ At(w, "record")
    /\ IF status = "gone"
         THEN UNCHANGED status /\ Goto(w, "fail")
         ELSE status' = "active" /\ Goto(w, "idle")
    /\ revived' = (revived \/ status \in {"deleting", "deleting_cleanup"})
    /\ UNCHANGED <<files, keeper, cleaner, events>>

\* Git, the database or the volume fails; a checkout may be there in part.
Throws(w) ==
    /\ pc[w] \in {"ensure", "check", "checkout", "record"} /\ Event
    /\ code' \in IF At(w, "checkout") THEN {code, repo} ELSE {code}
    /\ Goto(w, "fail")
    /\ UNCHANGED <<status, repo, others>>

\* The catch: the workspace is not cleaned, the row fails if it still is
\* being imported.
AnyOutcome == "failed"
Outcome == IF status = "importing" THEN "import_failed" ELSE status

Fail(w) ==
    /\ At(w, "fail")
    /\ status' = Outcome
    /\ Goto(w, "idle")
    /\ UNCHANGED <<files, others, events>>

\* The worker dies, or cannot write that the import has failed.
Crash(w) ==
    /\ w \in Importers /\ Event
    /\ Goto(w, "idle")
    /\ UNCHANGED <<status, files, others>>

-------------------------------------------------------------------------------
(* Requests *)

\* retryImport and retryProjectImport.
Retry ==
    /\ status = "import_failed"
    /\ status' = "import_queued"
    /\ UNCHANGED <<files, pc, others, events>>

\* keepLocalAfterImportFailure looks at row and files, then updates.
FindLocal ==
    /\ keeper = "idle" /\ status = "import_failed" /\ code
    /\ keeper' = "update"
    /\ UNCHANGED <<status, files, pc, cleaner, revived, events>>

StillThere == status # "gone"
StillFailed == status = "import_failed"

KeepLocal ==
    /\ keeper = "update" /\ keeper' = "idle"
    /\ status' = IF StillFailed THEN "active" ELSE status
    /\ UNCHANGED <<files, pc, cleaner, revived, events>>

\* remove refuses nothing but a claimed cleanup; a claim may come in after
\* it has looked.
Remove ==
    /\ status # "gone" /\ status' = "deleting"
    /\ UNCHANGED <<files, pc, others, events>>

-------------------------------------------------------------------------------
(* The cleanup, as far as an import meets it: see ProjectWorkspace *)

Clean ==
    /\ \/ cleaner = "idle" /\ cleaner' = "files"
          /\ status = "deleting" /\ status' = "deleting_cleanup"
          /\ UNCHANGED files
       \/ cleaner = "files" /\ cleaner' = "row"
          /\ repo' = FALSE /\ code' = FALSE
          /\ UNCHANGED status
       \/ cleaner = "row" /\ cleaner' = "idle"
          /\ status' = "gone"
          /\ UNCHANGED files
    /\ UNCHANGED <<pc, keeper, revived, events>>

-------------------------------------------------------------------------------
Import(w) ==
    \/ Tick(w) \/ Look(w) \/ Claim(w)
    \/ Load(w) \/ Ensure(w) \/ Check(w) \/ Checkout(w) \/ Record(w) \/ Fail(w)

Next ==
    \/ \E w \in Worker : Import(w) \/ Throws(w) \/ Crash(w)
    \/ Retry \/ FindLocal \/ KeepLocal \/ Remove \/ Clean

Spec == Init /\ [][Next]_vars

\* The timers of the workers tick and their handlers go on; nobody need send
\* a request.
FairSpec == Spec /\ \A w \in Worker : WF_vars(Import(w))

-------------------------------------------------------------------------------
(* Properties *)

\* Replicas do not import the same project at the same time, also after a
\* crash, a retry or a removal; nothing else keeps two Git processes apart.
OneImporter == \A v, w \in Importers : v = w

\* Nobody imports into a project its users can write to: `checkout -B' would
\* take their changes away.
ActiveIsNotImported ==
    status = "active" => \A w \in Worker : pc[w] \notin {"load", "ensure", "check", "checkout"}

\* A queued or claimed import ends, whatever its workers meet.
ImportEnds ==
    status \in {"import_queued", "importing"} ~> status \notin {"import_queued", "importing"}
===============================================================================
