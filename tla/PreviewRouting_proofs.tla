------------------------- MODULE PreviewRouting_proofs -------------------------
(***************************************************************************)
(* Proofs about PreviewRouting: for any requirements, sessions and calls,  *)
(* a requirement that has ended has no endpoint, and none of its previews  *)
(* starts or runs unless a late status call revived its row.               *)
(***************************************************************************)
EXTENDS PreviewRouting, TLAPS

(***************************************************************************)
(* A call that is under way is about a session, and one that will write    *)
(* the row has found the Deployment; a session without a preview has no    *)
(* requirement.                                                            *)
(***************************************************************************)
CallsFit ==
    /\ \A c \in Caller : call[c].at # "idle" => call[c].s \in Session
    /\ \A c \in Caller : call[c].at = "write" => call[c].seen \in Unstopped

NoneHasNone == \A s \in Session : row[s].status = "none" => row[s].req = None

IInv == TypeOK /\ CallsFit /\ NoneHasNone /\ EndedIsQuiet

-------------------------------------------------------------------------------
(* The calls *)

CallType ==
    call \in [Caller -> [op : {"none", "start", "stop", "status"}, at : Points,
                         s : Session \cup {None}, r : Requirement \cup {None},
                         seen : Reports]]

\* A call that goes on keeps its subject.
LEMMA GoesKeepsCalls ==
    ASSUME CallType, CallsFit, NEW c \in Caller, NEW point \in Points,
           call[c].at # "idle", point # "write", Goes(c, point)
    PROVE  CallType' /\ CallsFit'
<1>1. CallType'
    BY DEF CallType, Goes
<1>2. \A x \in Caller : x # c => call'[x] = call[x]
    BY DEF CallType, Goes
<1>3. call'[c].at = point /\ call'[c].s = call[c].s
    BY DEF CallType, Goes
<1> QED BY <1>1, <1>2, <1>3 DEF CallsFit

\* A call that returns is idle.
LEMMA ReturnsKeepsCalls ==
    ASSUME CallType, CallsFit, NEW c \in Caller, Returns(c)
    PROVE  CallType' /\ CallsFit'
<1>1. CallType'
    BY DEF CallType, Returns, Idle, Points, Reports
<1>2. \A x \in Caller : x # c => call'[x] = call[x]
    BY DEF CallType, Returns
<1>3. call'[c].at = "idle"
    BY DEF CallType, Returns, Idle
<1> QED BY <1>1, <1>2, <1>3 DEF CallsFit

\* A call begins with its subject.
LEMMA BeginsKeepsCalls ==
    ASSUME CallType, CallsFit, calls \in 0..MaxCalls, NEW c \in Caller,
           NEW op \in {"start", "stop", "status"}, NEW point \in Points,
           NEW s \in Session, NEW r \in Requirement \cup {None}, NEW seen \in Reports,
           point = "write" => seen \in Unstopped,
           Begins(c, op, point, s, r, seen)
    PROVE  CallType' /\ CallsFit' /\ calls' \in 0..MaxCalls
<1>1. calls' \in 0..MaxCalls
    BY RoutingAssumption DEF Begins
<1>2. CallType'
    BY DEF CallType, Begins
<1>3. \A x \in Caller : x # c => call'[x] = call[x]
    BY DEF CallType, Begins
<1>4. call'[c].at = point /\ call'[c].s = s /\ call'[c].seen = seen
    BY DEF CallType, Begins
<1> QED BY <1>1, <1>2, <1>3, <1>4 DEF CallsFit

-------------------------------------------------------------------------------
(* The invariant *)

\* At first nothing has a preview.
LEMMA InitIInv == Init => IInv
<1> SUFFICES ASSUME Init PROVE IInv
    OBVIOUS
<1>1. TypeOK
    BY RoutingAssumption DEF Init, TypeOK, Idle, Points, Reports, Running, Unstopped
<1>2. CallsFit /\ NoneHasNone /\ EndedIsQuiet
    BY DEF Init, CallsFit, NoneHasNone, EndedIsQuiet, Idle
<1> QED BY <1>1, <1>2 DEF IInv

\* Links change nothing that the invariant relates; the end of a
\* requirement finds its previews stopped and removes its endpoints.
LEMMA ManageIInv ==
    ASSUME IInv, NEW r \in Requirement, Manage(r)
    PROVE  IInv'
<1> USE DEF IInv, TypeOK, CallsFit, NoneHasNone, EndedIsQuiet
<1>1. CASE Link(r)
    BY <1>1 DEF Link
<1>2. CASE Unlink(r)
    BY <1>2 DEF Unlink
<1>3. CASE \E s \in Session : Claim(r, s)
    BY <1>3 DEF Claim
<1>4. CASE End(r)
    <2>1. TypeOK' /\ CallsFit' /\ NoneHasNone'
        BY <1>4 DEF End
    <2>2. ASSUME NEW s \in Session PROVE route'[s] \notin ended'
        BY <1>4, RoutingAssumption DEF End
    <2>3. ASSUME NEW s \in Session, row[s].req \in ended', s \notin revived
          PROVE  row[s].status \notin Unstopped
        BY <1>4, <2>3 DEF End, QuietFor
    <2> QED BY <1>4, <2>1, <2>2, <2>3 DEF End
<1> QED BY <1>1, <1>2, <1>3, <1>4 DEF Manage

\* A call that begins may delete resources, and nothing else.
LEMMA OpenIInv ==
    ASSUME IInv, NEW c \in Caller, NEW s \in Session,
           Stop(c, s) \/ Status(c, s) \/ \E r \in Requirement \cup {None} : Start(c, s, r)
    PROVE  IInv'
<1> USE DEF IInv, Points, Reports, Running, Unstopped
<1>1. CallType /\ CallsFit /\ calls \in 0..MaxCalls
    BY DEF TypeOK, CallType
<1>2. CASE Stop(c, s)
    <2>1. CallType' /\ CallsFit' /\ calls' \in 0..MaxCalls
        BY <1>1, <1>2, BeginsKeepsCalls DEF Stop
    <2>2. cluster' \in [Session -> Reports] /\ events' \in 0..MaxEvents
        BY <1>2, RoutingAssumption DEF Stop, DeletesResources, Happens, TypeOK
    <2> QED BY <1>2, <2>1, <2>2 DEF Stop, TypeOK, CallType, NoneHasNone, EndedIsQuiet
<1>3. ASSUME NEW r \in Requirement \cup {None}, Start(c, s, r)
      PROVE  IInv'
    <2>1. CallType' /\ CallsFit' /\ calls' \in 0..MaxCalls
        BY <1>1, <1>3, BeginsKeepsCalls DEF Start
    <2>2. cluster' \in [Session -> Reports] /\ events' \in 0..MaxEvents
        BY <1>3, RoutingAssumption DEF Start, DeletesResources, Happens, TypeOK
    <2> QED BY <1>3, <2>1, <2>2 DEF Start, TypeOK, CallType, NoneHasNone, EndedIsQuiet
<1>4. CASE Status(c, s)
    <2>1. row[s].req \in Requirement \cup {None} /\ cluster[s] \in Reports
        BY DEF TypeOK
    <2>2. Answer(cluster[s]) \in Points
          /\ (Answer(cluster[s]) = "write" => cluster[s] \in Unstopped)
        BY <2>1 DEF Answer
    <2>3. CallType' /\ CallsFit' /\ calls' \in 0..MaxCalls
        BY <1>1, <1>4, <2>1, <2>2, BeginsKeepsCalls DEF Status
    <2> QED BY <1>4, <2>3 DEF Status, TypeOK, CallType, NoneHasNone, EndedIsQuiet
<1> QED BY <1>2, <1>3, <1>4

\* A call that goes on: what it does to the row and the endpoint of its session
\* leaves ended requirements quiet.
LEMMA StepIInv ==
    ASSUME IInv, NEW c \in Caller, Step(c) \/ SettleFails(c) \/ Die(c)
    PROVE  IInv'
<1> DEFINE s == call[c].s
           r == call[c].r
           seen == call[c].seen
<1> USE DEF IInv, Points, Reports, Running, Unstopped
<1>1. call[c].at # "idle"
    BY DEF Step, SettleFails, Die, Unroute, Halt, Deploy, Register, Settle, Undo,
           WriteRow, Check, Publish
<1>2. s \in Session /\ r \in Requirement \cup {None} /\ seen \in Reports
    BY <1>1 DEF TypeOK, CallsFit
<1>3. CallType /\ CallsFit
    BY DEF TypeOK, CallType
<1>4. ended \subseteq Requirement /\ None \notin ended
    BY RoutingAssumption DEF TypeOK
<1>a. CASE Unroute(c)
    <2>1. CallType' /\ CallsFit'
        BY <1>1, <1>3, <1>a, GoesKeepsCalls, ReturnsKeepsCalls DEF Unroute
    <2>2. TypeOK'
        BY <1>a, <2>1 DEF Unroute, TypeOK, CallType
    <2>3. EndedIsQuiet'
        BY <1>a, <1>4 DEF Unroute, TypeOK, EndedIsQuiet
    <2> QED BY <1>a, <2>1, <2>2, <2>3 DEF Unroute, NoneHasNone
<1>b. CASE Halt(c)
    <2>1. CallType' /\ CallsFit'
        BY <1>1, <1>3, <1>b, GoesKeepsCalls, ReturnsKeepsCalls DEF Halt
    <2>2. row' = [row EXCEPT ![s].status = "stopped"] /\ revived' = revived \ {s}
          /\ UNCHANGED <<ended, link, cluster, route, calls, events>>
        BY <1>b DEF Halt
    <2>3. row'[s] = [status |-> "stopped", req |-> row[s].req]
        BY <1>2, <2>2 DEF TypeOK
    <2>4. \A x \in Session : x # s => row'[x] = row[x]
        BY <2>2 DEF TypeOK
    <2>5. TypeOK'
        BY <1>2, <2>1, <2>2 DEF TypeOK, CallType
    <2>6. EndedIsQuiet' /\ NoneHasNone'
        BY <1>2, <2>2, <2>3, <2>4 DEF EndedIsQuiet, NoneHasNone
    <2> QED BY <2>1, <2>5, <2>6
<1>c. CASE Deploy(c)
    <2>1. CallType' /\ CallsFit'
        BY <1>1, <1>3, <1>c, GoesKeepsCalls, ReturnsKeepsCalls DEF Deploy
    <2>2. cluster' \in [Session -> Reports]
        BY <1>2, <1>c DEF Deploy, TypeOK
    <2> QED BY <1>c, <2>1, <2>2 DEF Deploy, TypeOK, CallType, NoneHasNone, EndedIsQuiet
<1>d. CASE Register(c)
    <2>1. CallType' /\ CallsFit'
        BY <1>1, <1>3, <1>d, GoesKeepsCalls DEF Register
    <2>2. CASE ~Accepts(s, r)
        BY <1>d, <2>1, <2>2 DEF Register, TypeOK, CallType, NoneHasNone, EndedIsQuiet
    <2>3. CASE Accepts(s, r)
        <3>1. row' = [row EXCEPT ![s] = [status |-> "starting", req |-> r]]
              /\ revived' = revived \ {s}
              /\ UNCHANGED <<ended, link, cluster, route, calls, events>>
            BY <1>d, <2>3 DEF Register
        <3>2. row'[s] = [status |-> "starting", req |-> r]
              /\ \A x \in Session : x # s => row'[x] = row[x]
            BY <1>2, <3>1 DEF TypeOK
        <3>3. r \notin ended
            BY <1>4, <2>3 DEF Accepts, Deployable
        <3>4. TypeOK'
            BY <1>2, <2>1, <3>1 DEF TypeOK, CallType
        <3>5. EndedIsQuiet' /\ NoneHasNone'
            BY <1>2, <3>1, <3>2, <3>3 DEF EndedIsQuiet, NoneHasNone
        <3> QED BY <2>1, <3>4, <3>5
    <2> QED BY <2>2, <2>3
<1>e. CASE Settle(c)
    <2>1. CallType' /\ CallsFit'
        BY <1>3, <1>e, ReturnsKeepsCalls DEF Settle
    <2>2. EndedIsQuiet'
        BY <1>e, <1>4 DEF Settle, TypeOK, EndedIsQuiet
    <2> QED BY <1>e, <2>1, <2>2 DEF Settle, TypeOK, CallType, NoneHasNone
<1>f. CASE SettleFails(c)
    <2>1. CallType' /\ CallsFit'
        BY <1>1, <1>3, <1>f, GoesKeepsCalls DEF SettleFails
    <2>2. events' \in 0..MaxEvents
        BY <1>f, RoutingAssumption DEF SettleFails, Happens, TypeOK
    <2> QED BY <1>f, <2>1, <2>2
            DEF SettleFails, TypeOK, CallType, NoneHasNone, EndedIsQuiet
<1>g. CASE Undo(c)
    <2>1. CallType' /\ CallsFit'
        BY <1>3, <1>g, ReturnsKeepsCalls DEF Undo
    <2>2. cluster' \in [Session -> Reports] /\ events' \in 0..MaxEvents
        BY <1>2, <1>g, RoutingAssumption DEF Undo, DeletesResources, Happens, TypeOK
    <2> QED BY <1>g, <2>1, <2>2 DEF Undo, TypeOK, CallType, NoneHasNone, EndedIsQuiet
<1>h. CASE WriteRow(c)
    <2>1. CallType' /\ CallsFit'
        BY <1>1, <1>3, <1>h, GoesKeepsCalls, ReturnsKeepsCalls DEF WriteRow
    <2>2. seen \in Unstopped
        BY <1>h DEF WriteRow, CallsFit
    <2>3. CASE UNCHANGED <<row, revived>>
        BY <1>h, <2>1, <2>3 DEF WriteRow, TypeOK, CallType, NoneHasNone, EndedIsQuiet
    <2>4. CASE /\ row' = [row EXCEPT ![s].status = seen]
               /\ revived' = IF row[s].status = "stopped" THEN revived \cup {s}
                                                          ELSE revived
        <3>1. UNCHANGED <<ended, link, cluster, route, calls, events>>
            BY <1>h DEF WriteRow
        <3>2. row'[s] = [status |-> seen, req |-> row[s].req]
              /\ \A x \in Session : x # s => row'[x] = row[x]
            BY <1>2, <2>4 DEF TypeOK
        <3>3. TypeOK'
            BY <1>2, <2>1, <2>2, <2>4, <3>1 DEF TypeOK, CallType
        <3>4. row[s].req \in ended => s \in revived'
            BY <1>2, <1>4, <2>4 DEF TypeOK, NoneHasNone, EndedIsQuiet
        <3>5. EndedIsQuiet'
            BY <1>2, <2>4, <3>1, <3>2, <3>4 DEF EndedIsQuiet
        <3>6. NoneHasNone'
            BY <1>2, <2>2, <3>2 DEF NoneHasNone
        <3> QED BY <2>1, <3>3, <3>5, <3>6
    <2> QED BY <1>h, <2>3, <2>4 DEF WriteRow
<1>i. CASE Check(c)
    <2>1. CallType' /\ CallsFit'
        BY <1>1, <1>3, <1>i, GoesKeepsCalls DEF Check
    <2> QED BY <1>i, <2>1 DEF Check, TypeOK, CallType, NoneHasNone, EndedIsQuiet
<1>j. CASE Publish(c)
    <2>1. CallType' /\ CallsFit'
        BY <1>3, <1>j, ReturnsKeepsCalls DEF Publish
    <2>2. ASSUME NEW x \in Session PROVE route'[x] \in {r, None, route[x]}
        BY <1>2, <1>j DEF Publish, TypeOK
    <2>3. route' \in [Session -> Requirement \cup {None}]
        BY <1>2, <1>j DEF Publish, TypeOK
    <2>4. CASE StillReady(s, r)
        <3>1. r \notin ended
            BY <2>4 DEF StillReady, Canonical, Deployable
        <3>2. EndedIsQuiet'
            BY <1>4, <1>j, <2>2, <3>1 DEF Publish, EndedIsQuiet
        <3> QED BY <1>j, <2>1, <2>3, <3>2 DEF Publish, TypeOK, CallType, NoneHasNone
    <2>5. CASE ~StillReady(s, r)
        <3>1. EndedIsQuiet'
            BY <1>2, <1>4, <1>j, <2>5 DEF Publish, TypeOK, EndedIsQuiet
        <3> QED BY <1>j, <2>1, <2>3, <3>1 DEF Publish, TypeOK, CallType, NoneHasNone
    <2> QED BY <2>4, <2>5
<1>k. CASE Die(c)
    <2>1. CallType' /\ CallsFit'
        BY <1>3, <1>k, ReturnsKeepsCalls DEF Die
    <2>2. events' \in 0..MaxEvents
        BY <1>k, RoutingAssumption DEF Die, Happens, TypeOK
    <2> QED BY <1>k, <2>1, <2>2 DEF Die, TypeOK, CallType, NoneHasNone, EndedIsQuiet
<1> QED BY <1>a, <1>b, <1>c, <1>d, <1>e, <1>f, <1>g, <1>h, <1>i, <1>j, <1>k DEF Step

\* Pods come and go, and a lease runs out.
LEMMA ClusterIInv ==
    ASSUME IInv, NEW s \in Session, Progress(s) \/ Regress(s) \/ Expire(s)
    PROVE  IInv'
<1> USE DEF IInv, TypeOK, CallsFit, NoneHasNone, EndedIsQuiet, Reports, Running, Unstopped
<1>1. CASE Progress(s)
    BY <1>1 DEF Progress
<1>2. CASE Regress(s)
    BY <1>2, RoutingAssumption DEF Regress, Happens
<1>3. CASE Expire(s)
    BY <1>3, RoutingAssumption DEF Expire, Happens
<1> QED BY <1>1, <1>2, <1>3

\* The invariant holds at first and every step keeps it.
LEMMA IInvAlways == Spec => []IInv
<1>1. IInv /\ [Next]_vars => IInv'
    <2> SUFFICES ASSUME IInv, [Next]_vars PROVE IInv'
        OBVIOUS
    <2>1. CASE UNCHANGED vars
        BY <2>1 DEF vars, IInv, TypeOK, CallsFit, NoneHasNone, EndedIsQuiet
    <2>2. ASSUME NEW r \in Requirement, Manage(r) PROVE IInv'
        BY <2>2, ManageIInv
    <2>3. ASSUME NEW c \in Request, Open(c) PROVE IInv'
        BY <2>3, OpenIInv DEF Open, Caller
    <2>4. ASSUME NEW s \in Session, Status(s, s) \/ Progress(s) \/ Regress(s) \/ Expire(s)
          PROVE  IInv'
        BY <2>4, OpenIInv, ClusterIInv DEF Caller
    <2>5. ASSUME NEW c \in Caller, Step(c) \/ SettleFails(c) \/ Die(c) PROVE IInv'
        BY <2>5, StepIInv
    <2> QED BY <2>1, <2>2, <2>3, <2>4, <2>5 DEF Next
<1> QED BY InitIInv, <1>1, PTL DEF Spec

-------------------------------------------------------------------------------
(* Theorems *)

\* Every variable of the previews and routes stays in its range.
THEOREM TypeCorrect == Spec => []TypeOK
<1>1. IInv => TypeOK
    BY DEF IInv
<1> QED BY IInvAlways, <1>1, PTL

\* A requirement that has ended has no endpoint, and none of its previews
\* starts or runs unless a late status call revived its row, whatever calls,
\* failures and deaths interleave.
THEOREM EndedIsQuietAlways == Spec => []EndedIsQuiet
<1>1. IInv => EndedIsQuiet
    BY DEF IInv
<1> QED BY IInvAlways, <1>1, PTL
===============================================================================
