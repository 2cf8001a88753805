---------------------------- MODULE PreviewRouting ----------------------------
(***************************************************************************)
(* Previews of requirements and their routes.  A developer starts the      *)
(* preview of a session for a requirement; its resources run in            *)
(* Kubernetes, its row and the endpoint that resolve gives to the gateways *)
(* are in PostgreSQL.  Whoever asks for the status of a preview copies     *)
(* what the cluster says into the row and publishes or withdraws the       *)
(* endpoint; the worker asks every 20 seconds.  Transactions take one      *)
(* advisory lock per requirement and are single steps here, everything     *)
(* else interleaves.  All sessions are of one project, with one service    *)
(* key; images exist (their builds are in PreviewBuild).                   *)
(***************************************************************************)
EXTENDS Naturals

CONSTANTS
    Requirement,
    Session,     \* the developers' sessions of the project
    Request,     \* API calls on previews that may be under way together
    None,        \* no requirement, no session, no link
    Unclaimed,   \* a link without a branch
    MaxCalls,    \* bound: calls that users make
    MaxEvents    \* bound: events that are not plain progress

ASSUME RoutingAssumption ==
    /\ None \notin Requirement \cup Session /\ Unclaimed \notin Session \cup {None}
    /\ Request \cap Session = {}
    /\ MaxCalls \in Nat /\ MaxEvents \in Nat

VARIABLES
    ended,    \* requirements that are completed, cancelled or archived
    link,     \* [Requirement -> the session that has its branch, Unclaimed or None]
    row,      \* [Session -> status and requirement of its PreviewInstance]
    cluster,  \* [Session -> what the Deployment of the preview reports]
    route,    \* [Session -> requirement of its RequirementRouteEndpoint, or None]
    call,     \* [Caller -> where a call stands]
    revived,  \* ghost: rows that a late status call took out of `stopped'
    calls,    \* calls of users so far
    events    \* events so far

vars == <<ended, link, row, cluster, route, call, revived, calls, events>>

(* The worker's status call on the row of session s is the caller s: the  *)
(* passes of reconcileRoutes do not overlap.                              *)
Caller == Request \cup Session

Running == {"starting", "ready"}
Unstopped == Running \cup {"failed"}
Reports == Running \cup {"failed", "absent"}
Points == {"idle", "unroute", "halt", "deploy", "register", "settle", "undo",
           "write", "check", "publish"}

Idle == [op |-> "none", at |-> "idle", s |-> None, r |-> None, seen |-> "absent"]

TypeOK ==
    /\ ended \subseteq Requirement
    /\ link \in [Requirement -> Session \cup {Unclaimed, None}]
    /\ row \in [Session -> [status : Unstopped \cup {"none", "stopped"},
                            req : Requirement \cup {None}]]
    /\ cluster \in [Session -> Reports]
    /\ route \in [Session -> Requirement \cup {None}]
    /\ call \in [Caller -> [op : {"none", "start", "stop", "status"}, at : Points,
                            s : Session \cup {None}, r : Requirement \cup {None},
                            seen : Reports]]
    /\ revived \subseteq Session
    /\ calls \in 0..MaxCalls /\ events \in 0..MaxEvents

Init ==
    /\ ended = {}
    /\ link = [r \in Requirement |-> None]
    /\ row = [s \in Session |-> [status |-> "none", req |-> None]]
    /\ cluster = [s \in Session |-> "absent"]
    /\ route = [s \in Session |-> None]
    /\ call = [c \in Caller |-> Idle]
    /\ revived = {}
    /\ calls = 0 /\ events = 0

-------------------------------------------------------------------------------
(* The requirement: each of these is one transaction under its lock *)

(* addProject. *)
Link(r) ==
    /\ r \notin ended /\ link[r] = None
    /\ link' = [link EXCEPT ![r] = Unclaimed]
    /\ UNCHANGED <<ended, row, cluster, route, call, revived, calls, events>>

(* The claim at the end of createProjectBranch. *)
Claim(r, s) ==
    /\ r \notin ended /\ link[r] = Unclaimed
    /\ link' = [link EXCEPT ![r] = s]
    /\ UNCHANGED <<ended, row, cluster, route, call, revived, calls, events>>

(* removeProject; it does not mind a preview that failed. *)
Unlink(r) ==
    /\ r \notin ended /\ link[r] # None
    /\ \A s \in Session : row[s].req = r => row[s].status \notin Running
    /\ link' = [link EXCEPT ![r] = None]
    /\ UNCHANGED <<ended, row, cluster, route, call, revived, calls, events>>

(* update to a final status, and updateStage on the last stage. *)
QuietFor(r) == \A s \in Session : row[s].req = r => row[s].status \notin Unstopped

End(r) ==
    /\ r \notin ended /\ QuietFor(r)
    /\ ended' = ended \cup {r}
    /\ route' = [s \in Session |-> IF route[s] = r THEN None ELSE route[s]]
    /\ UNCHANGED <<link, row, cluster, call, revived, calls, events>>

-------------------------------------------------------------------------------
(* Calls *)

Goes(c, point) == call' = [call EXCEPT ![c].at = point]
Returns(c) == call' = [call EXCEPT ![c] = Idle]

Begins(c, op, point, s, r, seen) ==
    /\ call[c].at = "idle"
    /\ calls' = IF c \in Request THEN calls + 1 ELSE calls
    /\ calls' <= MaxCalls
    /\ call' = [call EXCEPT ![c] =
           [op |-> op, at |-> point, s |-> s, r |-> r, seen |-> seen]]

Happens == events < MaxEvents /\ events' = events + 1

(* The deletions are settled, not checked: the Deployment may remain. *)
DeletesResources(s) ==
    \/ cluster' = [cluster EXCEPT ![s] = "absent"] /\ UNCHANGED events
    \/ cluster[s] # "absent" /\ UNCHANGED cluster /\ Happens

(* K8sPreviewService.stop, for a user or for the reaper. *)
Stop(c, s) ==
    /\ row[s].status # "none"
    /\ Begins(c, "stop", "unroute", s, None, "absent")
    /\ DeletesResources(s)
    /\ UNCHANGED <<ended, link, row, route, revived>>

(* PreviewService.start stops what the session has, and then starts. *)
Start(c, s, r) ==
    /\ IF row[s].status = "none"
         THEN Begins(c, "start", "deploy", s, r, "absent") /\ UNCHANGED <<cluster, events>>
         ELSE Begins(c, "start", "unroute", s, r, "absent") /\ DeletesResources(s)
    /\ UNCHANGED <<ended, link, row, route, revived>>

(* sync with a status other than ready withdraws the endpoint.  The row is *)
(* written after it by stop and by a status call that found nothing.       *)
Unroute(c) ==
    /\ call[c].at = "unroute"
    /\ route' = [route EXCEPT ![call[c].s] = None]
    /\ IF call[c].seen = "absent" THEN Goes(c, "halt") ELSE Returns(c)
    /\ UNCHANGED <<ended, link, row, cluster, revived, calls, events>>

Halt(c) ==
    /\ call[c].at = "halt"
    /\ row' = [row EXCEPT ![call[c].s].status = "stopped"]
    /\ revived' = revived \ {call[c].s}
    /\ IF call[c].op = "start" THEN Goes(c, "deploy") ELSE Returns(c)
    /\ UNCHANGED <<ended, link, cluster, route, calls, events>>

\* The partial unique index on the active rows of a service key.
KeyIsFree(s, r) ==
    \A x \in Session \ {s} : row[x].req = r => row[x].status \notin Running

Deployable(s, r) == r \notin ended /\ link[r] = s

(* The checks of startIfBound and the creation of the resources; those of *)
(* an earlier start may still be there.                                   *)
Deploy(c) ==
    LET s == call[c].s  r == call[c].r
    IN  /\ call[c].at = "deploy"
        /\ IF r # None => Deployable(s, r) /\ KeyIsFree(s, r)
             THEN /\ \E k \in {"starting"} \cup ({cluster[s]} \ {"absent"}) :
                         cluster' = [cluster EXCEPT ![s] = k]
                  /\ Goes(c, "register")
             ELSE Returns(c) /\ UNCHANGED cluster
        /\ UNCHANGED <<ended, link, row, route, revived, calls, events>>

(* The transaction that registers the preview looks again. *)
\* Mutant: it trusts the checks made before the resources were created.
AcceptsBlindly(s, r) == r # None => KeyIsFree(s, r)
Accepts(s, r) == r # None => Deployable(s, r) /\ KeyIsFree(s, r)

Register(c) ==
    LET s == call[c].s  r == call[c].r
    IN  /\ call[c].at = "register"
        /\ IF Accepts(s, r)
             THEN /\ row' = [row EXCEPT ![s] = [status |-> "starting", req |-> r]]
                  /\ revived' = revived \ {s}
                  /\ Goes(c, "settle")
             ELSE Goes(c, "undo") /\ UNCHANGED <<row, revived>>
        /\ UNCHANGED <<ended, link, cluster, route, calls, events>>

(* sync('starting') after the registration; if it fails, the resources are *)
(* deleted and the row stays.                                              *)
Settle(c) ==
    /\ call[c].at = "settle"
    /\ route' = [route EXCEPT ![call[c].s] = None]
    /\ Returns(c)
    /\ UNCHANGED <<ended, link, row, cluster, revived, calls, events>>

SettleFails(c) ==
    /\ call[c].at = "settle"
    /\ Goes(c, "undo") /\ Happens
    /\ UNCHANGED <<ended, link, row, cluster, route, revived, calls>>

Undo(c) ==
    /\ call[c].at = "undo"
    /\ DeletesResources(call[c].s)
    /\ Returns(c)
    /\ UNCHANGED <<ended, link, row, route, revived, calls>>

-------------------------------------------------------------------------------
(* status *)

(* reconcileRoutes takes the rows that run for an open requirement. *)
\* Mutant: it takes those that start only.
ReconciledOnce(s) ==
    row[s].status = "starting" /\ row[s].req \in Requirement \ ended
Reconciled(s) ==
    row[s].status \in Running /\ row[s].req \in Requirement \ ended

(* A Deployment that is not found ends the preview. *)
\* Mutant: what is not found is written as it is.
ByReport(report) == "write"
Answer(report) == IF report = "absent" THEN "unroute" ELSE "write"

(* The record and then the cluster are read; a record older than the      *)
(* report is not apart from one as old, since all it carries is compared  *)
(* with the row again.                                                    *)
Status(c, s) ==
    /\ row[s].status # "none"
    /\ c \in Request \/ (c = s /\ Reconciled(s))
    /\ Begins(c, "status", Answer(cluster[s]), s, row[s].req, cluster[s])
    /\ UNCHANGED <<ended, link, row, cluster, route, revived, events>>

(* The row is updated by session, whatever has happened to it; the index  *)
(* may refuse.                                                            *)
WriteRow(c) ==
    LET s == call[c].s  seen == call[c].seen
    IN  /\ call[c].at = "write"
        /\ IF row[s].req # None /\ seen \in Running => KeyIsFree(s, row[s].req)
             THEN /\ row' = [row EXCEPT ![s].status = seen]
                  /\ revived' = IF row[s].status = "stopped" THEN revived \cup {s}
                                                             ELSE revived
                  /\ Goes(c, IF seen = "ready" /\ call[c].r # None THEN "check"
                                                                   ELSE "unroute")
             ELSE Returns(c) /\ UNCHANGED <<row, revived>>
        /\ UNCHANGED <<ended, link, cluster, route, calls, events>>

(* What sync requires of a preview whose caller names requirement r. *)
\* Mutant: not that the requirement's branch is the session's.
CanonicalUnlinked(s, r) ==
    row[s] = [status |-> "ready", req |-> r] /\ r \notin ended
Canonical(s, r) ==
    row[s] = [status |-> "ready", req |-> r] /\ Deployable(s, r)

Check(c) ==
    /\ call[c].at = "check"
    /\ Goes(c, IF Canonical(call[c].s, call[c].r) THEN "publish" ELSE "unroute")
    /\ UNCHANGED <<ended, link, row, cluster, route, revived, calls, events>>

(* The transaction looks again, and replaces the endpoint of the key. *)
StillReady(s, r) == Canonical(s, r)

Publish(c) ==
    LET s == call[c].s  r == call[c].r
    IN  /\ call[c].at = "publish"
        /\ route' = IF StillReady(s, r)
                      THEN [x \in Session |-> IF x = s THEN r
                                              ELSE IF route[x] = r THEN None
                                              ELSE route[x]]
                      ELSE [route EXCEPT ![s] = None]
        /\ Returns(c)
        /\ UNCHANGED <<ended, link, row, cluster, revived, calls, events>>

(* resolve sends a request of requirement r to the preview of session s. *)
Resolves(r, s) ==
    /\ r \notin ended /\ link[r] # None
    /\ route[s] = r /\ row[s] = [status |-> "ready", req |-> r]

-------------------------------------------------------------------------------
(* What happens by itself *)

(* Pods become ready. *)
Progress(s) ==
    /\ cluster[s] \in {"starting", "failed"}
    /\ cluster' = [cluster EXCEPT ![s] = "ready"]
    /\ UNCHANGED <<ended, link, row, route, call, revived, calls, events>>

(* They fail, or start again. *)
Regress(s) ==
    /\ cluster[s] # "absent" /\ Happens
    /\ \E k \in {"starting", "failed"} \ {cluster[s]} :
           cluster' = [cluster EXCEPT ![s] = k]
    /\ UNCHANGED <<ended, link, row, route, call, revived, calls>>

(* The lease of an endpoint runs out; removeExpired only tidies up. *)
Expire(s) ==
    /\ route[s] # None /\ Happens
    /\ route' = [route EXCEPT ![s] = None]
    /\ UNCHANGED <<ended, link, row, cluster, call, revived, calls>>

(* The process of a caller dies. *)
Die(c) ==
    /\ call[c].at # "idle" /\ Happens
    /\ Returns(c)
    /\ UNCHANGED <<ended, link, row, cluster, route, revived, calls>>

Manage(r) == Link(r) \/ Unlink(r) \/ End(r) \/ \E s \in Session : Claim(r, s)

Open(c) ==
    \E s \in Session :
        \/ Stop(c, s) \/ Status(c, s)
        \/ \E r \in Requirement \cup {None} : Start(c, s, r)

Step(c) ==
    \/ Unroute(c) \/ Halt(c) \/ Deploy(c) \/ Register(c) \/ Settle(c) \/ Undo(c)
    \/ WriteRow(c) \/ Check(c) \/ Publish(c)

Next ==
    \/ \E r \in Requirement : Manage(r)
    \/ \E c \in Request : Open(c)
    \/ \E s \in Session : Status(s, s) \/ Progress(s) \/ Regress(s) \/ Expire(s)
    \/ \E c \in Caller : Step(c) \/ SettleFails(c) \/ Die(c)

Spec == Init /\ [][Next]_vars

(* The worker looks every 20 seconds and goes on with what it began; nobody *)
(* else need do anything.                                                   *)
FairSpec == Spec /\ \A s \in Session : WF_vars(Status(s, s) \/ Step(s))

-------------------------------------------------------------------------------
(* Properties *)

(* update, updateStage and the registration against one another: a         *)
(* requirement that has ended has no endpoint, and no preview of it starts  *)
(* or runs, except one whose row a late status call took back from          *)
(* `stopped'.                                                               *)
EndedIsQuiet ==
    \A s \in Session :
        /\ route[s] \notin ended
        /\ row[s].req \in ended /\ s \notin revived => row[s].status \notin Unstopped

(* sync and reconcileRoutes: a preview that stays ready, of an open         *)
(* requirement whose branch is its session's, is routed again and again,    *)
(* whatever late calls withdraw and whatever leases run out.                *)
Deserves(s) ==
    /\ row[s].status \in Running /\ cluster[s] = "ready"
    /\ \E r \in Requirement : row[s].req = r /\ Deployable(s, r)

RouteReturns ==
    \A s \in Session : <>[]Deserves(s) => []<>(route[s] = row[s].req)

(* What resolve answers, against removeProject and a new claim: a gateway   *)
(* is never sent for good to a session that has not the requirement's       *)
(* branch.                                                                  *)
Misrouted(s) == \E r \in Requirement : Resolves(r, s) /\ link[r] # s

MisrouteEnds == \A s \in Session : []<>~Misrouted(s)
===============================================================================
