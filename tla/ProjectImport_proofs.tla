------------------------- MODULE ProjectImport_proofs -------------------------
(***************************************************************************)
(* Proofs that one replica at a time imports a project, and none imports   *)
(* into an active one, for every set of replicas and any number of faults. *)
(*                                                                         *)
(* The fact that carries both is the converse of the claim: while somebody *)
(* imports, the row is `importing', or the project is being removed.  A    *)
(* claim finds `import_queued', so nobody is importing yet.                *)
(*                                                                         *)
(* An active project has its code unless the end of an import has brought  *)
(* a removed project back, and nothing else brings one back.               *)
(***************************************************************************)
EXTENDS ProjectImport, TLAPS

\* What the row may say while a replica is inside executeImport.
RowIsTaken == Importers # {} => status \in {"importing", "deleting", "deleting_cleanup", "gone"}

ImportInv == TypeOK /\ OneImporter /\ RowIsTaken

\* Importers by their steps, which is what the provers compare.
LEMMA ImportersUnchanged ==
    ASSUME pc' = pc PROVE Importers' = Importers
BY DEF Importers

\* A replica that goes on with a step of the import was inside already.
LEMMA ImporterGoesOn ==
    ASSUME TypeOK, NEW w \in Importers, NEW step \in ImportSteps, Goto(w, step)
    PROVE Importers' = Importers
BY DEF Importers, Goto, TypeOK

\* A replica outside the import, or leaving it.
LEMMA ImporterLeaves ==
    ASSUME TypeOK, NEW w \in Worker, NEW step, step \notin ImportSteps, Goto(w, step)
    PROVE Importers' = Importers \ {w}
BY DEF Importers, Goto, TypeOK

\* The winner of a claim.
LEMMA ImporterEnters ==
    ASSUME TypeOK, NEW w \in Worker, NEW step \in ImportSteps, Goto(w, step)
    PROVE Importers' = Importers \cup {w}
BY DEF Importers, Goto, TypeOK

\* Init establishes the invariant.
LEMMA InitImportInv == Init => ImportInv
<1> SUFFICES ASSUME Init PROVE ImportInv
    OBVIOUS
<1>1. TypeOK
    <2>1. events \in 0..MaxEvents BY ImportAssumption DEF Init
    <2> QED BY <2>1, Zenon DEF Init, TypeOK, ImportSteps, Statuses
<1>2. Importers = {}
    BY DEF Init, Importers, ImportSteps
<1> QED BY <1>1, <1>2 DEF ImportInv, OneImporter, RowIsTaken

\* Every step keeps the types.
LEMMA NextTypeOK == TypeOK /\ [Next]_vars => TypeOK'
<1> SUFFICES ASSUME TypeOK, [Next]_vars PROVE TypeOK'
    OBVIOUS
<1> USE ImportAssumption DEF TypeOK, Statuses, ImportSteps, files, others
<1>1. ASSUME NEW w \in Worker, Import(w) PROVE TypeOK'
    <2>1. CASE Tick(w) BY <2>1 DEF Tick, At, Goto
    <2>2. CASE Look(w) BY <2>2 DEF Look, At, Goto
    <2>3. CASE Claim(w) BY <2>3 DEF Claim, At, Goto
    <2>4. CASE Load(w) BY <2>4 DEF Load, At, Goto
    <2>5. CASE Ensure(w) BY <2>5 DEF Ensure, At, Goto
    <2>6. CASE Check(w) BY <2>6 DEF Check, At, Goto
    <2>7. CASE Checkout(w) BY <2>7 DEF Checkout, At, Goto
    <2>8. CASE Record(w) BY <2>8 DEF Record, At, Goto
    <2>9. CASE Fail(w) BY <2>9 DEF Fail, Outcome, At, Goto
    <2> QED BY <1>1, <2>1, <2>2, <2>3, <2>4, <2>5, <2>6, <2>7, <2>8, <2>9 DEF Import
<1>2. ASSUME NEW w \in Worker, Throws(w) PROVE TypeOK'
    BY <1>2 DEF Throws, At, Goto, Event
<1>3. ASSUME NEW w \in Worker, Crash(w) PROVE TypeOK'
    BY <1>3 DEF Crash, Goto, Event
<1>4. CASE Retry BY <1>4 DEF Retry
<1>5. CASE FindLocal BY <1>5 DEF FindLocal
<1>6. CASE KeepLocal BY <1>6 DEF KeepLocal
<1>7. CASE Remove BY <1>7 DEF Remove
<1>8. CASE Clean
    <2>1. (repo \in BOOLEAN /\ code \in BOOLEAN /\ (code => repo))'
        <3>1. (repo' = repo /\ code' = code) \/ (repo' = FALSE /\ code' = FALSE)
            BY <1>8, SMT DEF Clean
        <3>2. CASE repo' = repo /\ code' = code BY <3>2, Zenon
        <3>3. CASE repo' = FALSE /\ code' = FALSE BY <3>3, Zenon
        <3> QED BY <3>1, <3>2, <3>3, Zenon
    <2>2. status' \in Statuses /\ cleaner' \in {"idle", "files", "row"}
        BY <1>8 DEF Clean
    <2>3. (pc' = pc /\ keeper' = keeper /\ revived' = revived /\ events' = events)
        BY <1>8 DEF Clean
    <2> QED BY <2>1, <2>2, <2>3
<1>9. CASE UNCHANGED vars BY <1>9 DEF vars
<1> QED BY <1>1, <1>2, <1>3, <1>4, <1>5, <1>6, <1>7, <1>8, <1>9 DEF Next

\* Every step keeps the importer alone, and the row taken.
LEMMA NextImportInv == ImportInv /\ [Next]_vars => ImportInv'
<1> SUFFICES ASSUME ImportInv, [Next]_vars PROVE (OneImporter /\ RowIsTaken)'
    BY NextTypeOK DEF ImportInv
<1> USE DEF ImportInv, OneImporter, RowIsTaken
<1>1. ASSUME NEW w \in Worker, Import(w) PROVE (OneImporter /\ RowIsTaken)'
    \* Only Tick and Look of a replica outside come before a claim.
    <2>1. CASE Tick(w)
        <3>1. Importers' = Importers
            BY <2>1, ImporterLeaves DEF Tick, At, ImportSteps, Importers
        <3> QED BY <2>1, <3>1 DEF Tick, LeaseOver
    <2>2. CASE Look(w)
        <3>1. Importers' = Importers \ {w}
            BY <2>2, ImporterLeaves DEF Look, ImportSteps
        <3> QED BY <2>2, <3>1 DEF Look
    <2>3. CASE Claim(w)
        <3>1. CASE StillQueued
            <4>1. Importers = {} BY <3>1 DEF StillQueued
            <4>2. Importers' = Importers \cup {w}
                BY <2>3, <3>1, ImporterEnters DEF Claim, ImportSteps
            <4> QED BY <2>3, <3>1, <4>1, <4>2 DEF Claim
        <3>2. CASE ~StillQueued
            <4>1. Importers' = Importers \ {w}
                BY <2>3, <3>2, ImporterLeaves DEF Claim, ImportSteps
            <4> QED BY <2>3, <3>2, <4>1 DEF Claim
        <3> QED BY <3>1, <3>2
    \* The steps inside: the importer goes on or leaves.
    <2>4. CASE Load(w) \/ Ensure(w) \/ Check(w) \/ Checkout(w)
        <3>1. w \in Importers /\ status' = status
            BY <2>4 DEF Load, Ensure, Check, Checkout, At, Importers, ImportSteps
        <3>2. PICK step \in ImportSteps \cup {"idle"} : Goto(w, step)
            BY <2>4 DEF Load, Ensure, Check, Checkout, ImportSteps
        <3>3. Importers' = Importers \/ Importers' = Importers \ {w}
            <4>1. CASE step \in ImportSteps BY <3>1, <3>2, <4>1, ImporterGoesOn
            <4>2. CASE step = "idle" BY <3>1, <3>2, <4>2, ImporterLeaves DEF ImportSteps
            <4> QED BY <4>1, <4>2
        <3> QED BY <3>1, <3>3
    <2>5. CASE Record(w)
        <3>1. w \in Importers BY <2>5 DEF Record, At, Importers, ImportSteps
        <3>2. CASE status = "gone"
            <4>1. Importers' = Importers
                BY <2>5, <3>1, <3>2, ImporterGoesOn DEF Record, ImportSteps
            <4> QED BY <2>5, <3>2, <4>1 DEF Record
        <3>3. CASE status # "gone"
            <4>1. Importers' = Importers \ {w}
                BY <2>5, <3>1, <3>3, ImporterLeaves DEF Record, ImportSteps
            <4> QED BY <3>1, <4>1
        <3> QED BY <3>2, <3>3
    <2>6. CASE Fail(w)
        <3>1. w \in Importers BY <2>6 DEF Fail, At, Importers, ImportSteps
        <3>2. Importers' = Importers \ {w}
            BY <2>6, <3>1, ImporterLeaves DEF Fail, ImportSteps
        <3> QED BY <3>1, <3>2
    <2> QED BY <1>1, <2>1, <2>2, <2>3, <2>4, <2>5, <2>6 DEF Import
<1>2. ASSUME NEW w \in Worker, Throws(w) PROVE (OneImporter /\ RowIsTaken)'
    <2>1. w \in Importers /\ status' = status BY <1>2 DEF Throws, Importers, ImportSteps
    <2>2. Importers' = Importers BY <1>2, <2>1, ImporterGoesOn DEF Throws, ImportSteps
    <2> QED BY <2>1, <2>2
<1>3. ASSUME NEW w \in Worker, Crash(w) PROVE (OneImporter /\ RowIsTaken)'
    <2>1. Importers' = Importers \ {w} BY <1>3, ImporterLeaves DEF Crash, ImportSteps
    <2> QED BY <1>3, <2>1 DEF Crash
<1>4. CASE Retry BY <1>4, ImportersUnchanged DEF Retry
<1>5. CASE FindLocal BY <1>5, ImportersUnchanged DEF FindLocal
<1>6. CASE KeepLocal BY <1>6, ImportersUnchanged DEF KeepLocal, StillFailed
<1>7. CASE Remove BY <1>7, ImportersUnchanged DEF Remove
<1>8. CASE Clean BY <1>8, ImportersUnchanged DEF Clean
<1>9. CASE UNCHANGED vars BY <1>9, ImportersUnchanged DEF vars
<1> QED BY <1>1, <1>2, <1>3, <1>4, <1>5, <1>6, <1>7, <1>8, <1>9 DEF Next

\* The invariant holds in every behaviour.
THEOREM ImportInvAlways == Spec => []ImportInv
BY InitImportInv, NextImportInv, PTL DEF Spec

\* The variables of an import keep their types.
THEOREM ImportTypeOK == Spec => []TypeOK
BY ImportInvAlways, PTL DEF ImportInv

\* At most one replica imports the project.
THEOREM OneImporterAlways == Spec => []OneImporter
BY ImportInvAlways, PTL DEF ImportInv

\* Nobody imports into an active project.
THEOREM ActiveIsNotImportedAlways == Spec => []ActiveIsNotImported
<1>1. ImportInv => ActiveIsNotImported
    BY DEF ImportInv, RowIsTaken, ActiveIsNotImported, Importers, ImportSteps
<1> QED BY <1>1, ImportInvAlways, PTL

-------------------------------------------------------------------------------
(* The section *)

\* executeImport takes no workspace lock.  The conditional claim and the lease
\* stand in for it, and here is the section they make of it.
Section == INSTANCE ExclusiveSection WITH Caller <- Worker, inside <- Importers

\* The import of a project behaves as a section that one replica at a time may be
\* inside, whatever is retried, kept, removed or lost meanwhile: only a claim
\* enters it, and it finds nobody there.
THEOREM ImportersRefine == Spec => Section!Spec
<1>1. Init => Section!Init
    BY DEF Init, Section!Init, Importers, ImportSteps
<1>2. ImportInv /\ [Next]_vars => [Section!Next]_Importers
    <2> SUFFICES ASSUME ImportInv, [Next]_vars
                 PROVE  Section!Next \/ Importers' = Importers
        OBVIOUS
    <2>1. ASSUME NEW w \in Worker, Import(w) \/ Throws(w) \/ Crash(w)
          PROVE  Section!Next \/ Importers' = Importers
        <3>1. PICK step \in ImportSteps \cup {"idle", "look", "claim"} : Goto(w, step)
            BY <2>1 DEF Import, Tick, Look, Claim, Load, Ensure, Check, Checkout, Record,
                        Fail, Throws, Crash, ImportSteps
        <3>2. CASE step \notin ImportSteps
            <4>1. Importers' = Importers \ {w}
                BY <3>1, <3>2, ImporterLeaves DEF ImportInv
            <4>2. w \in Importers => Section!Leave(w)
                BY <4>1 DEF Section!Leave
            <4>3. w \notin Importers => Importers' = Importers
                BY <4>1
            <4> QED BY <4>2, <4>3 DEF Section!Next
        <3>3. CASE step \in ImportSteps /\ w \in Importers
            BY <3>1, <3>3, ImporterGoesOn DEF ImportInv
        <3>4. CASE step \in ImportSteps /\ w \notin Importers
            <4>1. Claim(w) /\ StillQueued
                BY <2>1, <3>1, <3>4 DEF Import, Tick, Look, Claim, Load, Ensure, Check,
                   Checkout, Record, Fail, Throws, Crash, At, Goto, Importers,
                   ImportSteps, ImportInv, TypeOK
            <4>2. Importers = {}
                BY <4>1 DEF ImportInv, RowIsTaken, StillQueued
            <4>3. Importers' = Importers \cup {w}
                BY <3>1, <3>4, ImporterEnters DEF ImportInv
            <4> QED BY <4>2, <4>3 DEF Section!Next, Section!Enter
        <3> QED BY <3>2, <3>3, <3>4
    <2>2. CASE Retry \/ FindLocal \/ KeepLocal \/ Remove \/ Clean \/ UNCHANGED vars
        BY <2>2, ImportersUnchanged DEF Retry, FindLocal, KeepLocal, Remove, Clean, vars
    <2> QED BY <2>1, <2>2 DEF Next
<1> QED BY <1>1, <1>2, ImportInvAlways, PTL DEF Spec, Section!Spec

-------------------------------------------------------------------------------
(* Removal *)

Removed == {"deleting", "deleting_cleanup", "gone"}

\* An active project has its repository and its code, unless the end of an import,
\* which updates the row by id, has brought a removed project back.
ActiveHasCode == status = "active" => (repo /\ code) \/ revived

\* A removal that no import is under way in is final: no claim, retry, kept copy
\* or late transaction takes the project back.
RemovalIsFinal ==
    [][(status \in Removed /\ Importers = {})
         => (status' \in Removed /\ Importers' = {})]_vars

\* What an import, a kept copy and an active project rest on, as long as no
\* import has brought a removed project back: only a removal takes files away.
CodeInv ==
    ~revived =>
        /\ Importers # {} => status \in Removed \cup {"importing"}
        /\ cleaner # "idle" => status \in Removed
        /\ \A w \in Worker :
              status = "importing" =>
                  /\ pc[w] \in {"check", "checkout", "record"} => repo
                  /\ pc[w] = "record" => code
        /\ keeper = "update" => code \/ status \in Removed
        /\ status = "active" => code

\* The steps of a replica, its errors and its death keep the files an import needs.
LEMMA WorkerCodeInv ==
    ASSUME ImportInv, CodeInv, NEW w \in Worker, Import(w) \/ Throws(w) \/ Crash(w)
    PROVE  CodeInv'
<1> USE DEF ImportInv, OneImporter, TypeOK, Statuses, CodeInv, Removed, Importers,
            ImportSteps, At, Goto, files, others
<1>1. CASE Tick(w)
    BY <1>1 DEF Tick, LeaseOver
<1>2. CASE Look(w)
    BY <1>2 DEF Look
<1>3. CASE Claim(w)
    BY <1>3 DEF Claim, StillQueued
<1>4. CASE Load(w)
    BY <1>4 DEF Load
<1>5. CASE Ensure(w)
    BY <1>5 DEF Ensure
<1>6. CASE Check(w)
    BY <1>6 DEF Check
<1>7. CASE Checkout(w)
    BY <1>7 DEF Checkout
<1>8. CASE Record(w)
    <2>1. w \in Importers /\ UNCHANGED <<repo, code, keeper, cleaner>>
        BY <1>8 DEF Record
    <2>2. CASE status = "gone"
        BY <1>8, <2>1, <2>2 DEF Record
    <2>3. ASSUME status # "gone", ~revived' PROVE CodeInv'
        <3>1. status = "importing" /\ ~revived
            BY <1>8, <2>1, <2>3 DEF Record
        <3>2. code /\ cleaner = "idle"
            BY <1>8, <3>1 DEF Record
        <3>3. Importers' = {} /\ status' = "active"
            BY <1>8, <2>1, <2>3 DEF Record
        <3> QED BY <2>1, <3>1, <3>2, <3>3
    <2> QED BY <2>2, <2>3
<1>9. CASE Fail(w)
    BY <1>9 DEF Fail, Outcome
<1>10. CASE Throws(w)
    BY <1>10 DEF Throws
<1>11. CASE Crash(w)
    BY <1>11 DEF Crash
<1> QED BY <1>1, <1>2, <1>3, <1>4, <1>5, <1>6, <1>7, <1>8, <1>9, <1>10, <1>11 DEF Import

\* Every step keeps them.
LEMMA NextCodeInv ==
    ASSUME ImportInv, CodeInv, [Next]_vars
    PROVE  CodeInv'
<1> USE DEF ImportInv, TypeOK, Statuses, CodeInv, Removed, files, others
<1>1. ASSUME NEW w \in Worker, Import(w) \/ Throws(w) \/ Crash(w)
      PROVE  CodeInv'
    BY <1>1, WorkerCodeInv
<1>2. CASE Retry \/ FindLocal \/ KeepLocal
    BY <1>2, ImportersUnchanged DEF Retry, FindLocal, KeepLocal, StillFailed
<1>3. CASE Remove
    BY <1>3, ImportersUnchanged DEF Remove
<1>4. CASE Clean
    <2>1. /\ pc' = pc /\ keeper' = keeper /\ revived' = revived
          /\ Importers' = Importers
        BY <1>4, ImportersUnchanged DEF Clean
    <2>2. ~revived => status \in Removed /\ status' \in Removed
        BY <1>4 DEF Clean
    <2> QED BY <2>1, <2>2
<1>5. CASE UNCHANGED vars
    BY <1>5, ImportersUnchanged DEF vars
<1> QED BY <1>1, <1>2, <1>3, <1>4, <1>5 DEF Next

\* Also where it is removed in the middle, an import, a retry or a kept copy makes no
\* project active that has no code, unless its last transaction has brought a removed
\* project back.
THEOREM ActiveHasCodeAlways == Spec => []ActiveHasCode
<1>1. Init => CodeInv
    BY DEF Init, CodeInv, Importers, ImportSteps
<1>2. ImportInv /\ CodeInv /\ [Next]_vars => CodeInv'
    BY NextCodeInv
<1>3. ImportInv /\ CodeInv => ActiveHasCode
    BY DEF ImportInv, TypeOK, CodeInv, ActiveHasCode
<1> QED BY <1>1, <1>2, <1>3, ImportInvAlways, PTL DEF Spec

\* Only an import that is under way brings a project back: a removal that meets none
\* is final, and nobody starts to import what is being removed.
THEOREM RemovalIsFinalAlways == Spec => RemovalIsFinal
<1> DEFINE Over == status \in Removed /\ Importers = {}
<1>1. ASSUME ImportInv, [Next]_vars, Over
      PROVE  Over'
    <2> USE DEF ImportInv, TypeOK, Statuses, Removed, files, others
    <2>1. CASE \E w \in Worker : Import(w) \/ Throws(w) \/ Crash(w)
        <3>1. PICK w \in Worker : Import(w) \/ Throws(w) \/ Crash(w)
            BY <2>1
        <3>2. Tick(w) \/ Look(w) \/ Claim(w)
            BY <1>1, <3>1 DEF Import, Load, Ensure, Check, Checkout, Record, Fail, Throws,
                              Crash, At, Importers, ImportSteps
        <3>3. status' = status
            BY <1>1, <3>2 DEF Tick, Look, Claim, StillQueued
        <3>4. pc' = [pc EXCEPT ![w] = pc'[w]] /\ pc'[w] \in {"idle", "look", "claim"}
            BY <1>1, <3>2 DEF Tick, Look, Claim, StillQueued, Goto
        <3> QED BY <1>1, <3>3, <3>4 DEF Importers, ImportSteps
    <2>2. CASE Retry \/ FindLocal \/ KeepLocal \/ Remove \/ Clean
        BY <1>1, <2>2, ImportersUnchanged
           DEF Retry, FindLocal, KeepLocal, StillFailed, Remove, Clean
    <2>3. CASE UNCHANGED vars
        BY <1>1, <2>3, ImportersUnchanged DEF vars
    <2> QED BY <1>1, <2>1, <2>2, <2>3 DEF Next
<1>2. ImportInv /\ [Next]_vars
        => [(status \in Removed /\ Importers = {})
              => (status' \in Removed /\ Importers' = {})]_vars
    BY <1>1
<1> QED BY <1>2, ImportInvAlways, PTL DEF Spec, RemovalIsFinal
===============================================================================
