-------------------------- MODULE PreviewBuild_proofs --------------------------
(***************************************************************************)
(* Proofs about PreviewBuild, for any builds, sessions, quotas and number   *)
(* of concurrent requests and under every kind of event.  The records that *)
(* hold a place keep to the limits; the Jobs that run keep to them as      *)
(* well, but for those whose Job was deleted before it was created, or     *)
(* about whose Job a call failed; and no place stays with a Job that does  *)
(* not run, but for those that the worker had given when it died.          *)
(***************************************************************************)
EXTENDS PreviewBuild, FiniteSetTheorems, SequenceTheorems, TLAPS

(***************************************************************************)
(* What an agent still has to do, and what it is about to do.              *)
(***************************************************************************)
Steps(a) == 1..Len(todo[a])
Has(a, duty, b) == \E i \in Steps(a) : todo[a][i].do = duty /\ todo[a][i].of = b
Creating == {"create_job", "create_suspended"}
Ending == {"finish", "write"}
Ends(a, b) == 1 \in Steps(a) /\ todo[a][1].do \in Ending /\ todo[a][1].of = b
Started(b) == \E a \in Agent : \E duty \in StartDuties : Has(a, duty, b)

(***************************************************************************)
(* The order of the steps of an agent.                                     *)
(***************************************************************************)
StepFits(a, i) ==
    LET step == todo[a][i] IN
    /\ step.do \in Creating \cup {"delete_job", "write"} => i = 1
    /\ step.do = "finish" /\ i # 1 =>
           i = 2 /\ todo[a][1].do = "delete_job" /\ todo[a][1].of = step.of
    /\ step.do \in {"reserve", "save"} => i = Len(todo[a])
    /\ step.do = "resume" => i = 1 /\ Len(todo[a]) = 1 /\ a = Worker
    /\ step.do \in StartDuties => a # Worker
    /\ step.do \in Ending => step.to \in Finished

StepsFit == \A a \in Agent : \A i \in Steps(a) : StepFits(a, i)

\* The places keep to the limits.
PlacesKept == \A c \in Scope : Cardinality(Building(c)) <= Limit[c]

-------------------------------------------------------------------------------
(* How the steps of an agent change *)

TodoType == todo \in [Agent -> Seq(Step)]

\* Agent a has done its first step ...
Shrunk(a) ==
    /\ Len(todo[a]) >= 1 /\ Len(todo'[a]) = Len(todo[a]) - 1
    /\ \A i \in Steps(a)' : todo'[a][i] = todo[a][i + 1]
    /\ \A c \in Agent \ {a} : todo'[c] = todo[c]

\* ... or has another step in place of it.
Replaced(a, step) ==
    /\ Len(todo[a]) >= 1 /\ Len(todo'[a]) = Len(todo[a]) /\ todo'[a][1] = step
    /\ \A i \in Steps(a)' : i > 1 => todo'[a][i] = todo[a][i]
    /\ \A c \in Agent \ {a} : todo'[c] = todo[c]

\* Then with nothing more to do.
LEMMA DoneShrinks ==
    ASSUME TodoType, NEW a \in Agent, todo[a] # <<>>, Done(a)
    PROVE  TodoType' /\ Shrunk(a)
<1>1. todo[a] \in Seq(Step) /\ todo[a] # <<>>
    BY DEF TodoType
<1>2. Tail(todo[a]) \in Seq(Step) /\ Len(Tail(todo[a])) = Len(todo[a]) - 1
      /\ \A i \in 1..Len(Tail(todo[a])) : Tail(todo[a])[i] = todo[a][i + 1]
    BY <1>1, HeadTailProperties
<1>3. <<>> \o Tail(todo[a]) = Tail(todo[a])
    BY <1>2, ConcatEmptySeq
<1>4. todo' = [todo EXCEPT ![a] = Tail(todo[a])]
    BY <1>3 DEF Done, Then
<1>5. todo'[a] = Tail(todo[a]) /\ \A c \in Agent \ {a} : todo'[c] = todo[c]
    BY <1>4 DEF TodoType
<1>6. Len(todo[a]) >= 1
    BY <1>1, EmptySeq, LenProperties
<1> QED BY <1>2, <1>4, <1>5, <1>6 DEF TodoType, Shrunk, Steps

\* Then with one step more.
LEMMA ThenReplaces ==
    ASSUME TodoType, NEW a \in Agent, todo[a] # <<>>, NEW step \in Step, Then(a, <<step>>)
    PROVE  TodoType' /\ Replaced(a, step)
<1> DEFINE new == <<step>> \o Tail(todo[a])
<1>1. todo[a] \in Seq(Step) /\ todo[a] # <<>>
    BY DEF TodoType
<1>2. Tail(todo[a]) \in Seq(Step) /\ Len(Tail(todo[a])) = Len(todo[a]) - 1
      /\ \A i \in 1..Len(Tail(todo[a])) : Tail(todo[a])[i] = todo[a][i + 1]
    BY <1>1, HeadTailProperties
<1>3. <<step>> \in Seq(Step) /\ Len(<<step>>) = 1 /\ <<step>>[1] = step
    OBVIOUS
<1>4. new \in Seq(Step) /\ Len(new) = Len(todo[a])
      /\ new[1] = step /\ \A i \in 2..Len(todo[a]) : new[i] = Tail(todo[a])[i - 1]
    <2>1. Len(todo[a]) \in Nat /\ Len(todo[a]) >= 1
        BY <1>1, EmptySeq, LenProperties
    <2>2. new \in Seq(Step) /\ Len(new) = Len(<<step>>) + Len(Tail(todo[a]))
          /\ \A i \in 1..Len(<<step>>) + Len(Tail(todo[a])) :
                new[i] = IF i <= Len(<<step>>) THEN <<step>>[i]
                                               ELSE Tail(todo[a])[i - Len(<<step>>)]
        BY <1>2, <1>3, ConcatProperties
    <2> QED BY <1>2, <1>3, <2>1, <2>2
<1>5. todo' = [todo EXCEPT ![a] = new]
    BY DEF Then
<1>6. todo'[a] = new /\ \A c \in Agent \ {a} : todo'[c] = todo[c]
    BY <1>5 DEF TodoType
<1>7. Len(todo[a]) >= 1
    BY <1>1, EmptySeq, LenProperties
<1>8. \A i \in 2..Len(todo[a]) : new[i] = todo[a][i]
    BY <1>2, <1>4, <1>1, LenProperties
<1> HIDE DEF new
<1> QED BY <1>4, <1>5, <1>6, <1>7, <1>8 DEF TodoType, Replaced, Steps

\* Instead of all steps.
LEMMA InsteadSets ==
    ASSUME TodoType, NEW a \in Agent, NEW steps \in Seq(Step), Instead(a, steps)
    PROVE  TodoType' /\ todo'[a] = steps /\ \A c \in Agent \ {a} : todo'[c] = todo[c]
BY DEF TodoType, Instead

-------------------------------------------------------------------------------
(* What follows for the steps that are left *)

NewStepsOf(a, new) ==
    \A c \in Agent, duty \in Duties, b \in Build :
        Has(c, duty, b)' => Has(c, duty, b) \/ (c = a /\ <<duty, b>> \in new)

\* The first step in terms of Doing.
LEMMA DoingFirst ==
    ASSUME TodoType, NEW a \in Agent, NEW duty, NEW b, Doing(a, duty, b)
    PROVE  /\ todo[a] # <<>> /\ 1 \in Steps(a) /\ todo[a][1] \in Step
           /\ todo[a][1].do = duty /\ todo[a][1].of = b /\ Has(a, duty, b)
<1>1. todo[a] \in Seq(Step) /\ todo[a] # <<>>
    BY DEF TodoType, Doing
<1>2. Len(todo[a]) \in Nat /\ Len(todo[a]) >= 1 /\ Head(todo[a]) = todo[a][1]
    BY <1>1, EmptySeq, LenProperties
<1>3. 1 \in Steps(a) /\ todo[a][1] \in Step
    BY <1>1, <1>2, ElementOfSeq DEF Steps
<1> QED BY <1>1, <1>2, <1>3 DEF Doing, Has

\* The steps have types.
LEMMA StepTyped ==
    ASSUME TodoType, NEW a \in Agent, NEW i \in Steps(a)
    PROVE  /\ todo[a][i] \in Step /\ todo[a][i].do \in Duties /\ todo[a][i].of \in Build
           /\ Has(a, todo[a][i].do, todo[a][i].of)
<1>1. todo[a] \in Seq(Step)
    BY DEF TodoType
<1>2. todo[a][i] \in Step
    BY <1>1, ElementOfSeq DEF Steps
<1>3. todo[a][i].do \in Duties /\ todo[a][i].of \in Build
    BY <1>2 DEF Step
<1> QED BY <1>2, <1>3 DEF Has

\* No step appears when one is done.
LEMMA ShrunkHas ==
    ASSUME TodoType, NEW a \in Agent, Shrunk(a), StepsFit
    PROVE  /\ NewStepsOf(a, {}) /\ StepsFit'
           /\ \A b \in Build : Ends(a, b)' =>
                 todo[a][1].do = "delete_job" /\ todo[a][1].of = b
           /\ \A c \in Agent \ {a}, b \in Build : Ends(c, b)' <=> Ends(c, b)
<1>1. Len(todo[a]) \in Nat
    BY LenProperties DEF TodoType
<1>2. ASSUME NEW c \in Agent, NEW duty \in Duties, NEW b \in Build, Has(c, duty, b)'
      PROVE  Has(c, duty, b)
    <2>1. CASE c = a
        BY <1>1, <1>2, <2>1 DEF Has, Steps, Shrunk
    <2>2. CASE c # a
        BY <1>2, <2>2 DEF Has, Steps, Shrunk
    <2> QED BY <2>1, <2>2
<1>3. ASSUME NEW c \in Agent, NEW i \in Steps(c)' PROVE StepFits(c, i)'
    <2>1. CASE c = a
        <3>1. i + 1 \in Steps(a) /\ todo'[a][i] = todo[a][i + 1] /\ i \in Nat \ {0}
            BY <1>1, <1>3, <2>1 DEF Shrunk, Steps
        <3>2. StepFits(a, i + 1)
            BY <3>1 DEF StepsFit
        <3> QED BY <1>1, <2>1, <3>1, <3>2 DEF StepFits, Shrunk
    <2>2. CASE c # a
        BY <1>3, <2>2 DEF StepsFit, StepFits, Steps, Shrunk
    <2> QED BY <2>1, <2>2
<1>4. ASSUME NEW b \in Build, Ends(a, b)'
      PROVE  todo[a][1].do = "delete_job" /\ todo[a][1].of = b
    <2>1. 2 \in Steps(a) /\ todo[a][2].do \in Ending /\ todo[a][2].of = b
        BY <1>1, <1>4 DEF Ends, Shrunk, Steps
    <2> QED BY <2>1 DEF StepsFit, StepFits, Ending
<1> QED BY <1>2, <1>3, <1>4 DEF NewStepsOf, StepsFit, Ends, Steps, Shrunk

\* Only the new step appears when it replaces one that is no deletion.
LEMMA ReplacedHas ==
    ASSUME TodoType, StepsFit, NEW a \in Agent, NEW step \in Step, Replaced(a, step),
           todo[a][1].do # "delete_job", step.do \in Ending, step.to \in Finished
    PROVE  /\ NewStepsOf(a, {<<step.do, step.of>>}) /\ StepsFit'
           /\ \A b \in Build : Ends(a, b)' => b = step.of
           /\ \A c \in Agent \ {a}, b \in Build : Ends(c, b)' <=> Ends(c, b)
<1>1. Len(todo[a]) \in Nat
    BY LenProperties DEF TodoType
<1>2. ASSUME NEW c \in Agent, NEW duty \in Duties, NEW b \in Build, Has(c, duty, b)'
      PROVE  Has(c, duty, b) \/ (c = a /\ <<duty, b>> \in {<<step.do, step.of>>})
    <2>1. CASE c = a
        <3>1. PICK i \in Steps(a)' : todo'[a][i].do = duty /\ todo'[a][i].of = b
            BY <1>2, <2>1 DEF Has
        <3>2. CASE i = 1
            BY <2>1, <3>1, <3>2 DEF Replaced
        <3>3. CASE i # 1
            <4>1. i \in Steps(a) /\ todo'[a][i] = todo[a][i]
                BY <1>1, <3>1, <3>3 DEF Replaced, Steps
            <4> QED BY <2>1, <3>1, <4>1 DEF Has
        <3> QED BY <3>2, <3>3
    <2>2. CASE c # a
        BY <1>2, <2>2 DEF Has, Steps, Replaced
    <2> QED BY <2>1, <2>2
<1>3. ASSUME NEW c \in Agent, NEW i \in Steps(c)' PROVE StepFits(c, i)'
    <2>1. CASE c = a /\ i = 1
        BY <1>1, <2>1 DEF StepFits, Replaced, Ending, Creating, StartDuties
    <2>2. CASE c = a /\ i # 1
        <3>1. i \in Steps(a) /\ todo'[a][i] = todo[a][i]
            BY <1>1, <1>3, <2>2 DEF Replaced, Steps
        <3>2. StepFits(a, i)
            BY <3>1 DEF StepsFit
        <3> QED BY <1>1, <2>2, <3>1, <3>2 DEF StepFits, Replaced
    <2>3. CASE c # a
        BY <1>3, <2>3 DEF StepsFit, StepFits, Steps, Replaced
    <2> QED BY <2>1, <2>2, <2>3
<1> QED BY <1>2, <1>3 DEF NewStepsOf, StepsFit, Ends, Steps, Replaced

\* An agent that does something else has the new steps only.
LEMMA InsteadHas ==
    ASSUME TodoType, StepsFit, NEW a \in Agent, NEW steps \in Seq(Step), Instead(a, steps)
    PROVE  /\ TodoType'
           /\ \A duty, b : Has(a, duty, b)' <=>
                 \E i \in 1..Len(steps) : steps[i].do = duty /\ steps[i].of = b
           /\ \A c \in Agent \ {a} : \A duty, b : Has(c, duty, b)' <=> Has(c, duty, b)
           /\ (\A i \in Steps(a)' : StepFits(a, i)') => StepsFit'
           /\ \A b : Ends(a, b)' <=>
                 1 \in 1..Len(steps) /\ steps[1].do \in Ending /\ steps[1].of = b
           /\ \A c \in Agent \ {a} : \A b : Ends(c, b)' <=> Ends(c, b)
<1>1. TodoType' /\ todo'[a] = steps /\ \A c \in Agent \ {a} : todo'[c] = todo[c]
    BY InsteadSets
<1>2. ASSUME \A i \in Steps(a)' : StepFits(a, i)', NEW c \in Agent, NEW i \in Steps(c)'
      PROVE  StepFits(c, i)'
    <2>1. CASE c = a
        BY <1>2, <2>1
    <2>2. CASE c # a
        BY <1>1, <1>2, <2>2 DEF StepsFit, StepFits, Steps
    <2> QED BY <2>1, <2>2
<1> QED BY <1>1, <1>2 DEF StepsFit, Has, Ends, Steps

\* Nothing at all, after a crash or a failure ...
LEMMA InsteadNothing ==
    ASSUME TodoType, StepsFit, NEW a \in Agent, Instead(a, <<>>)
    PROVE  /\ TodoType' /\ StepsFit' /\ NewStepsOf(a, {})
           /\ \A duty, b : ~Has(a, duty, b)'
           /\ \A b : ~Ends(a, b)'
           /\ \A c \in Agent \ {a} : \A b : Ends(c, b)' <=> Ends(c, b)
<1> DEFINE steps == <<>>
<1>1. steps \in Seq(Step) /\ 1..Len(steps) = {}
    BY EmptySeq
<1>2. Instead(a, steps)
    OBVIOUS
<1> HIDE DEF steps
<1>3. todo'[a] = steps
    BY <1>1, <1>2, InsteadSets
<1>4. \A i \in Steps(a)' : StepFits(a, i)'
    BY <1>1, <1>3 DEF Steps
<1> QED BY <1>1, <1>2, <1>4, InsteadHas DEF NewStepsOf

\* ... a single step ...
LEMMA InsteadOne ==
    ASSUME TodoType, StepsFit, NEW a \in Agent, NEW step \in Step, Instead(a, <<step>>),
           \/ step.do \in Ending /\ step.to \in Finished
           \/ step.do = "delete_job"
           \/ step.do \in {"reserve", "save"} /\ a # Worker
           \/ step.do = "resume" /\ a = Worker
    PROVE  /\ TodoType' /\ StepsFit' /\ NewStepsOf(a, {<<step.do, step.of>>})
           /\ \A duty, b : Has(a, duty, b)' <=> duty = step.do /\ b = step.of
           /\ \A b : Ends(a, b)' <=> step.do \in Ending /\ step.of = b
           /\ \A c \in Agent \ {a} : \A b : Ends(c, b)' <=> Ends(c, b)
<1> DEFINE steps == <<step>>
<1>1. steps \in Seq(Step) /\ 1..Len(steps) = {1} /\ steps[1] = step /\ Len(steps) = 1
    OBVIOUS
<1>2. Instead(a, steps)
    OBVIOUS
<1> HIDE DEF steps
<1>3. todo'[a] = steps
    BY <1>1, <1>2, InsteadSets
<1>4. \A i \in Steps(a)' : StepFits(a, i)'
    BY <1>1, <1>3 DEF Steps, StepFits, Ending, Creating, StartDuties
<1> QED BY <1>1, <1>2, <1>4, InsteadHas DEF NewStepsOf

\* ... or the end of a build.
LEMMA InsteadEnds ==
    ASSUME TodoType, StepsFit, NEW a \in Agent, NEW b \in Build, Instead(a, EndSteps(b))
    PROVE  /\ TodoType' /\ StepsFit'
           /\ NewStepsOf(a, {<<"delete_job", b>>, <<"finish", b>>})
           /\ \A duty, d : Has(a, duty, d)' <=> duty \in {"delete_job", "finish"} /\ d = b
           /\ \A d : ~Ends(a, d)'
           /\ \A c \in Agent \ {a} : \A d : Ends(c, d)' <=> Ends(c, d)
<1> DEFINE steps == EndSteps(b)
<1>1. /\ steps \in Seq(Step) /\ 1..Len(steps) = {1, 2} /\ Len(steps) = 2
      /\ steps[1].do = "delete_job" /\ steps[1].of = b
      /\ steps[2].do = "finish" /\ steps[2].of = b /\ steps[2].to \in Finished
    BY DEF EndSteps, Act, Finish, Step, Duties, StartDuties, Finished
<1>2. Instead(a, steps)
    OBVIOUS
<1> HIDE DEF steps
<1>3. todo'[a] = steps
    BY <1>1, <1>2, InsteadSets
<1>4. \A i \in Steps(a)' : StepFits(a, i)'
    BY <1>1, <1>3 DEF Steps, StepFits, Ending, Creating, StartDuties
<1> QED BY <1>1, <1>2, <1>4, InsteadHas DEF NewStepsOf, Ending

-------------------------------------------------------------------------------
(* Steps that change no row, Job or preview *)

RecordType == record \in [Build -> Unfinished \cup Finished \cup {"none"}]
LineType ==
    /\ line \in Seq(Build) /\ IsInjective(line)
    /\ ToSet(line) = {b \in Build : record[b] # "none"}
JobType == job \in [Build -> {"none", "suspended", "running", "complete", "failed"}]
PreviewType == preview \in [Session -> Build \cup {None}]
EventType == events \in 0..MaxEvents
HistoryType == astray \subseteq Build /\ orphaned \subseteq Build

\* The parts of the type invariant.
LEMMA TypeParts ==
    TypeOK <=> /\ RecordType /\ LineType /\ JobType /\ PreviewType /\ TodoType
               /\ EventType /\ HistoryType
BY DEF TypeOK, RecordType, LineType, JobType, PreviewType, TodoType, EventType, HistoryType

\* A build is not started by steps that are no starts.
LEMMA NoneStarts ==
    ASSUME NEW a \in Agent, NEW new, NewStepsOf(a, new),
           \A duty \in StartDuties, b \in Build : <<duty, b>> \notin new
    PROVE  /\ \A b \in Build : Started(b)' => Started(b)
           /\ \A c \in Agent, duty \in StartDuties, b \in Build :
                 Has(c, duty, b)' => Has(c, duty, b)
<1>1. ASSUME NEW c \in Agent, NEW duty \in StartDuties, NEW b \in Build, Has(c, duty, b)'
      PROVE  Has(c, duty, b)
    BY <1>1 DEF NewStepsOf, Duties
<1> QED BY <1>1 DEF Started

\* A start that is under way, in terms of steps.
LEMMA StartingMeans ==
    ASSUME TodoType, NEW b \in Build
    PROVE  Starting(b) <=> Started(b)
<1>1. \A a \in Agent : \A step : step \in ToSet(todo[a]) <=>
                                   \E i \in Steps(a) : step = todo[a][i]
    BY LenProperties DEF TodoType, ToSet, Steps
<1>2. ASSUME Starting(b) PROVE Started(b)
    BY <1>1, <1>2 DEF Starting, Started, Has
<1>3. ASSUME Started(b) PROVE Starting(b)
    BY <1>1, <1>3 DEF Starting, Started, Has
<1> QED BY <1>2, <1>3

-------------------------------------------------------------------------------
(* Records *)

\* A build is reserved once, by the one who starts it, and whoever does
\* anything else for it finds its record, as does who sees its preview.
RecordsFit ==
    /\ \A a \in Agent, b \in Build :
          /\ Has(a, "reserve", b) => record[b] = "none"
          /\ \A duty \in Duties \ {"reserve"} : Has(a, duty, b) => record[b] # "none"
    /\ \A a, c \in Agent, b \in Build : \A duty, other \in StartDuties :
          Has(a, duty, b) /\ Has(c, other, b) => a = c
    /\ \A s \in Session : preview[s] # None => record[preview[s]] # "none"

StepsInv == PreviewType /\ TodoType /\ StepsFit /\ RecordsFit
RecordInv == TypeOK /\ StepsFit /\ RecordsFit /\ PlacesKept

\* What an agent takes up must fit the records, and no record appears.
LEMMA StepsKeep ==
    ASSUME RecordsFit, PreviewType, NEW a \in Agent, NEW new, NewStepsOf(a, new),
           \A b \in Build : record'[b] = "none" <=> record[b] = "none",
           \A b \in Build : <<"reserve", b>> \in new => record[b] = "none" /\ ~Started(b),
           \A duty \in Duties \ {"reserve"}, b \in Build : <<duty, b>> \in new =>
              duty \notin StartDuties /\ record[b] # "none",
           \A s \in Session :
              \/ preview'[s] = preview[s]
              \/ \E b \in Build : preview'[s] = b /\ record[b] # "none"
    PROVE  RecordsFit'
<1>1. ASSUME NEW c \in Agent, NEW b \in Build
      PROVE  /\ Has(c, "reserve", b)' => record'[b] = "none"
             /\ \A duty \in Duties \ {"reserve"} : Has(c, duty, b)' => record'[b] # "none"
    BY DEF RecordsFit, NewStepsOf, Duties, StartDuties
<1>2. ASSUME NEW c \in Agent, NEW d \in Agent, NEW b \in Build,
             NEW duty \in StartDuties, NEW other \in StartDuties,
             Has(c, duty, b)', Has(d, other, b)'
      PROVE  c = d
    <2>1. ASSUME NEW e \in Agent, NEW step \in StartDuties, Has(e, step, b)'
          PROVE  Has(e, step, b) \/ (e = a /\ ~Started(b))
        BY <2>1 DEF NewStepsOf, Duties, StartDuties
    <2>2. CASE Started(b)
        BY <1>2, <2>1, <2>2 DEF RecordsFit
    <2>3. CASE ~Started(b)
        BY <1>2, <2>1, <2>3 DEF Started
    <2> QED BY <2>2, <2>3
<1>3. ASSUME NEW s \in Session, (preview[s] # None)'
      PROVE  (record[preview[s]] # "none")'
    <2>1. CASE preview'[s] = preview[s]
        <3>1. PICK b \in Build : b = preview[s]
            BY <1>3, <2>1 DEF PreviewType
        <3>2. record[b] # "none"
            BY <1>3, <2>1, <3>1 DEF RecordsFit
        <3>3. record'[b] # "none" /\ preview'[s] = b
            BY <2>1, <3>1, <3>2
        <3> QED BY <3>3
    <2>2. ASSUME NEW b \in Build, preview'[s] = b, record[b] # "none"
          PROVE  (record[preview[s]] # "none")'
        BY <2>2
    <2> QED BY <2>1, <2>2
<1> QED BY <1>1, <1>2, <1>3 DEF RecordsFit

\* An agent that has done its first step.
LEMMA DoneFits ==
    ASSUME StepsInv, NEW a \in Agent, todo[a] # <<>>, Done(a), PreviewType',
           \A b \in Build : record'[b] = "none" <=> record[b] = "none",
           \A s \in Session :
              \/ preview'[s] = preview[s]
              \/ \E b \in Build : preview'[s] = b /\ record[b] # "none"
    PROVE  StepsInv'
<1>1. TodoType' /\ Shrunk(a)
    BY DoneShrinks DEF StepsInv
<1>2. NewStepsOf(a, {}) /\ StepsFit'
    BY <1>1, ShrunkHas DEF StepsInv
<1>3. RecordsFit'
    BY <1>2, StepsKeep DEF StepsInv
<1> QED BY <1>1, <1>2, <1>3 DEF StepsInv

\* An agent that has a step in place of its first one.
LEMMA ReplacedFits ==
    ASSUME StepsInv, NEW a \in Agent, todo[a] # <<>>, todo[a][1].do # "delete_job",
           NEW step \in Step, Then(a, <<step>>), step.do \in Ending, step.to \in Finished,
           record[step.of] # "none", UNCHANGED <<record, preview>>
    PROVE  StepsInv'
<1> DEFINE new == {<<step.do, step.of>>}
<1>1. TodoType' /\ Replaced(a, step)
    BY ThenReplaces DEF StepsInv
<1>2. NewStepsOf(a, new) /\ StepsFit'
    BY <1>1, ReplacedHas DEF StepsInv
<1>3. \A duty \in Duties, b \in Build : <<duty, b>> \in new =>
          duty \in Ending /\ record[b] # "none"
    OBVIOUS
<1> HIDE DEF new
<1>4. \A duty \in Ending : duty \in Duties /\ duty \notin StartDuties
    BY DEF Ending, Duties, StartDuties
<1>5. \A b \in Build : <<"reserve", b>> \notin new
    BY <1>3, <1>4 DEF Duties, StartDuties
<1>6. RecordsFit'
    BY <1>2, <1>3, <1>4, <1>5, StepsKeep DEF StepsInv
<1> QED BY <1>1, <1>2, <1>6 DEF StepsInv, PreviewType

\* An agent that ends a build that has a record, or only deletes its Job, or
\* does nothing more.
LEMMA EndFits ==
    ASSUME StepsInv, NEW a \in Agent, NEW b \in Build, record' = record, PreviewType',
           \A s \in Session :
              \/ preview'[s] = preview[s]
              \/ \E d \in Build : preview'[s] = d /\ record[d] # "none",
           \/ Instead(a, <<>>)
           \/ /\ record[b] # "none"
              /\ \/ Instead(a, EndSteps(b))
                 \/ Instead(a, <<Act("delete_job", b)>>)
                 \/ \E status \in Finished : Instead(a, <<Finish(b, status)>>)
    PROVE  StepsInv'
<1> DEFINE new == IF record[b] # "none" THEN {<<"delete_job", b>>, <<"finish", b>>} ELSE {}
<1>1. /\ \A duty \in Duties, d \in Build : <<duty, d>> \in new =>
            duty \notin StartDuties /\ record[d] # "none"
      /\ \A d \in Build : <<"reserve", d>> \notin new
    BY DEF StartDuties
<1>2. TodoType' /\ StepsFit' /\ NewStepsOf(a, new)
    <2>1. CASE Instead(a, <<>>)
        BY <2>1, InsteadNothing DEF StepsInv, NewStepsOf
    <2>2. CASE record[b] # "none" /\ Instead(a, EndSteps(b))
        BY <2>2, InsteadEnds DEF StepsInv, NewStepsOf
    <2>3. CASE record[b] # "none" /\ Instead(a, <<Act("delete_job", b)>>)
        <3> DEFINE step == Act("delete_job", b)
        <3>1. step \in Step /\ step.do = "delete_job" /\ step.of = b /\ Instead(a, <<step>>)
            BY <2>3 DEF Act, Step, Duties
        <3> HIDE DEF step
        <3>2. TodoType' /\ StepsFit' /\ NewStepsOf(a, {<<"delete_job", b>>})
            BY <3>1, InsteadOne DEF StepsInv
        <3> QED BY <2>3, <3>2 DEF NewStepsOf
    <2>4. ASSUME NEW status \in Finished, record[b] # "none", Instead(a, <<Finish(b, status)>>)
          PROVE  TodoType' /\ StepsFit' /\ NewStepsOf(a, new)
        <3> DEFINE step == Finish(b, status)
        <3>1. /\ step \in Step /\ step.do = "finish" /\ step.of = b /\ step.to \in Finished
              /\ Instead(a, <<step>>)
            BY <2>4 DEF Finish, Step, Duties
        <3> HIDE DEF step
        <3>2. TodoType' /\ StepsFit' /\ NewStepsOf(a, {<<"finish", b>>})
            BY <3>1, InsteadOne DEF StepsInv, Ending
        <3> QED BY <2>4, <3>2 DEF NewStepsOf
    <2> QED BY <2>1, <2>2, <2>3, <2>4
<1> HIDE DEF new
<1>3. RecordsFit'
    BY <1>1, <1>2, StepsKeep DEF StepsInv
<1> QED BY <1>2, <1>3 DEF StepsInv

\* The steps of a start: the end of the build the preview shows, if there is
\* one, and the reservation.
LEMMA StartSets ==
    ASSUME TodoType, StepsFit, NEW a \in Request, NEW b \in Build, NEW old,
           Instead(a, (IF old = None THEN <<>> ELSE EndSteps(old)) \o <<Act("reserve", b)>>),
           old # None => old \in Build
    PROVE  /\ TodoType' /\ StepsFit'
           /\ NewStepsOf(a, {<<"reserve", b>>} \cup
                 IF old = None THEN {} ELSE {<<"delete_job", old>>, <<"finish", old>>})
           /\ \A duty \in StartDuties : Has(a, duty, b)' => duty = "reserve"
           /\ \A d \in Build : ~Ends(a, d)'
           /\ \A c \in Agent \ {a} : \A d : Ends(c, d)' <=> Ends(c, d)
<1>1. a \in Agent /\ a # Worker
    BY PreviewAssumption DEF Agent
<1>2. CASE old = None
    <2> DEFINE step == Act("reserve", b)
    <2>1. step \in Step /\ step.do = "reserve" /\ step.of = b
        BY DEF Act, Step, Duties, StartDuties
    <2>2. Instead(a, <<step>>)
        BY <1>2
    <2> HIDE DEF step
    <2>3. /\ TodoType' /\ StepsFit' /\ NewStepsOf(a, {<<"reserve", b>>})
          /\ \A duty, d : Has(a, duty, d)' <=> duty = "reserve" /\ d = b
          /\ \A d : ~Ends(a, d)'
          /\ \A c \in Agent \ {a} : \A d : Ends(c, d)' <=> Ends(c, d)
        BY <1>1, <2>1, <2>2, InsteadOne DEF Ending
    <2> QED BY <1>2, <2>3 DEF NewStepsOf
<1>3. CASE old # None
    <2> DEFINE steps == EndSteps(old) \o <<Act("reserve", b)>>
               new == {<<"delete_job", old>>, <<"finish", old>>, <<"reserve", b>>}
    <2>1. /\ steps \in Seq(Step) /\ 1..Len(steps) = {1, 2, 3} /\ Len(steps) = 3
          /\ steps[1].do = "delete_job" /\ steps[1].of = old
          /\ steps[2].do = "finish" /\ steps[2].of = old /\ steps[2].to \in Finished
          /\ steps[3].do = "reserve" /\ steps[3].of = b
        <3>1. EndSteps(old) = <<Act("delete_job", old), Finish(old, "cancelled")>>
            BY DEF EndSteps
        <3>2. /\ Act("delete_job", old) \in Step /\ Finish(old, "cancelled") \in Step
              /\ Act("reserve", b) \in Step
            BY <1>3 DEF Act, Finish, Step, Duties, StartDuties, Finished
        <3> DEFINE first == EndSteps(old)
                   last == <<Act("reserve", b)>>
        <3>3. /\ first \in Seq(Step) /\ Len(first) = 2 /\ first[1] = Act("delete_job", old)
              /\ first[2] = Finish(old, "cancelled")
              /\ last \in Seq(Step) /\ Len(last) = 1 /\ last[1] = Act("reserve", b)
              /\ steps = first \o last
            BY <3>1, <3>2
        <3> HIDE DEF steps, first, last
        <3>4. /\ steps \in Seq(Step) /\ Len(steps) = Len(first) + Len(last)
              /\ \A i \in 1..Len(first) + Len(last) : steps[i] =
                    IF i <= Len(first) THEN first[i] ELSE last[i - Len(first)]
            BY <3>3, ConcatProperties
        <3>5. Len(steps) = 3 /\ 1..Len(steps) = {1, 2, 3}
            BY <3>3, <3>4
        <3>6. /\ steps[1] = Act("delete_job", old) /\ steps[2] = Finish(old, "cancelled")
              /\ steps[3] = Act("reserve", b)
            BY <3>3, <3>4, <3>5
        <3>7. /\ steps[1].do = "delete_job" /\ steps[1].of = old
              /\ steps[3].do = "reserve" /\ steps[3].of = b
            BY <3>6 DEF Act
        <3>8. steps[2].do = "finish" /\ steps[2].of = old /\ steps[2].to \in Finished
            BY <3>6 DEF Finish, Finished
        <3> QED BY <3>3, <3>4, <3>5, <3>7, <3>8
    <2>2. Instead(a, steps)
        BY <1>3
    <2> HIDE DEF steps
    <2>3. todo'[a] = steps
        BY <1>1, <2>1, <2>2, InsteadSets
    <2>4. \A i \in Steps(a)' : StepFits(a, i)'
        BY <1>1, <2>1, <2>3 DEF Steps, StepFits, Ending, Creating, StartDuties
    <2>5. /\ TodoType' /\ StepsFit'
          /\ \A duty, d : Has(a, duty, d)' <=>
                \E i \in 1..Len(steps) : steps[i].do = duty /\ steps[i].of = d
          /\ \A c \in Agent \ {a} : \A duty, d : Has(c, duty, d)' <=> Has(c, duty, d)
          /\ \A d : ~Ends(a, d)'
          /\ \A c \in Agent \ {a} : \A d : Ends(c, d)' <=> Ends(c, d)
        BY <1>1, <2>1, <2>2, <2>4, InsteadHas DEF Ending
    <2>6. \A duty, d : Has(a, duty, d)' <=> <<duty, d>> \in new
        BY <2>1, <2>5
    <2>7. NewStepsOf(a, new)
        BY <2>5, <2>6 DEF NewStepsOf
    <2>8. new = {<<"reserve", b>>} \cup {<<"delete_job", old>>, <<"finish", old>>}
        OBVIOUS
    <2>9. \A duty \in StartDuties : Has(a, duty, b)' => duty = "reserve"
        BY <2>6 DEF StartDuties
    <2> HIDE DEF new
    <2> QED BY <1>3, <2>5, <2>7, <2>8, <2>9
<1> QED BY <1>2, <1>3

\* The steps after a reservation.
LEMMA ReserveSets ==
    ASSUME TodoType, StepsFit, NEW a \in Agent, NEW b \in Build, Reserve(a, b)
    PROVE  /\ TodoType' /\ StepsFit' /\ a \in Request
           /\ Has(a, "reserve", b) /\ ~Has(a, "reserve", b)'
           /\ NewStepsOf(a, {<<"create_job", b>>, <<"create_suspended", b>>, <<"save", b>>})
           /\ Has(a, "create_job", b)' => HasRoom(b)
           /\ Has(a, "create_suspended", b)' => ~HasRoom(b)
           /\ \A d : ~Ends(a, d)'
           /\ \A c \in Agent \ {a} : \A d : Ends(c, d)' <=> Ends(c, d)
<1> DEFINE create == Act(IF HasRoom(b) THEN "create_job" ELSE "create_suspended", b)
           steps == <<create, Act("save", b)>>
           new == {<<"create_job", b>>, <<"create_suspended", b>>, <<"save", b>>}
<1>1. /\ todo[a] # <<>> /\ 1 \in Steps(a) /\ todo[a][1].do = "reserve"
      /\ todo[a][1].of = b /\ Has(a, "reserve", b)
    BY DoingFirst DEF Reserve
<1>2. Len(todo[a]) = 1 /\ a # Worker /\ a \in Request
    BY <1>1 DEF StepsFit, StepFits, StartDuties, Agent
<1>3. Then(a, steps)
    BY DEF Reserve
<1>4. /\ steps \in Seq(Step) /\ 1..Len(steps) = {1, 2} /\ Len(steps) = 2
      /\ steps[1].do = (IF HasRoom(b) THEN "create_job" ELSE "create_suspended")
      /\ steps[1].of = b /\ steps[2].do = "save" /\ steps[2].of = b
    BY DEF Act, Step, Duties, StartDuties
<1> HIDE DEF steps, create
<1>5. Instead(a, steps)
    <2>1. Tail(todo[a]) = <<>>
        <3>1. Tail(todo[a]) \in Seq(Step) /\ Len(Tail(todo[a])) = Len(todo[a]) - 1
            BY <1>1, HeadTailProperties DEF TodoType
        <3> DEFINE rest == Tail(todo[a])
        <3>2. rest \in Seq(Step) /\ Len(rest) = 0
            BY <1>2, <3>1
        <3> HIDE DEF rest
        <3>3. rest = <<>>
            BY <3>2, EmptySeq
        <3> QED BY <3>3 DEF rest
    <2>2. steps \o Tail(todo[a]) = steps
        BY <1>4, <2>1, ConcatEmptySeq
    <2> QED BY <1>3, <2>2 DEF Then, Instead
<1>6. todo'[a] = steps
    BY <1>4, <1>5, InsteadSets
<1>7. \A i \in Steps(a)' : StepFits(a, i)'
    BY <1>2, <1>4, <1>6 DEF Steps, StepFits, Ending, Creating, StartDuties
<1>8. /\ TodoType' /\ StepsFit'
      /\ \A duty, d : Has(a, duty, d)' <=>
            \E i \in 1..Len(steps) : steps[i].do = duty /\ steps[i].of = d
      /\ \A c \in Agent \ {a} : \A duty, d : Has(c, duty, d)' <=> Has(c, duty, d)
      /\ \A d : ~Ends(a, d)'
      /\ \A c \in Agent \ {a} : \A d : Ends(c, d)' <=> Ends(c, d)
    BY <1>4, <1>5, <1>7, InsteadHas DEF Ending
<1>9. /\ \A duty, d : Has(a, duty, d)' => <<duty, d>> \in new
      /\ Has(a, "create_job", b)' => HasRoom(b)
      /\ Has(a, "create_suspended", b)' => ~HasRoom(b)
      /\ ~Has(a, "reserve", b)'
    BY <1>4, <1>8
<1>10. NewStepsOf(a, new)
    BY <1>8, <1>9 DEF NewStepsOf
<1> HIDE DEF new
<1> QED BY <1>1, <1>2, <1>8, <1>9, <1>10 DEF new

\* A request begins, and finds no record and nobody who starts the build.
LEMMA StartFits ==
    ASSUME StepsInv, NEW a \in Request, NEW b \in Build, Start(a, b)
    PROVE  StepsInv'
<1> DEFINE old == preview[SessionOf[b]]
           new == {<<"reserve", b>>} \cup
                     IF old = None THEN {} ELSE {<<"delete_job", old>>, <<"finish", old>>}
<1>1. a \in Agent /\ SessionOf[b] \in Session
    BY DEF Agent, Session
<1>2. /\ record[b] = "none" /\ ~Started(b) /\ UNCHANGED <<record, preview>>
      /\ Instead(a, (IF old = None THEN <<>> ELSE EndSteps(old)) \o <<Act("reserve", b)>>)
    BY StartingMeans DEF Start, rows, StepsInv
<1>3. old # None => old \in Build /\ record[old] # "none"
    BY <1>1 DEF StepsInv, PreviewType, RecordsFit
<1> HIDE DEF old
<1>4. TodoType' /\ StepsFit' /\ NewStepsOf(a, new)
    BY <1>2, <1>3, StartSets DEF StepsInv
<1>5. /\ \A d \in Build : <<"reserve", d>> \in new => d = b
      /\ \A duty \in Duties \ {"reserve"}, d \in Build : <<duty, d>> \in new =>
            duty \notin StartDuties /\ record[d] # "none"
    BY <1>3 DEF StartDuties
<1> HIDE DEF new
<1>6. RecordsFit'
    BY <1>1, <1>2, <1>4, <1>5, StepsKeep DEF StepsInv
<1> QED BY <1>2, <1>4, <1>6 DEF StepsInv, PreviewType

\* The record appears: nobody had a step for the build but the one who made it.
LEMMA ReserveFits ==
    ASSUME StepsInv, RecordType, NEW a \in Agent, NEW b \in Build, Reserve(a, b)
    PROVE  /\ StepsInv' /\ RecordType' /\ record[b] = "none" /\ record'[b] = Reserved(b)
           /\ \A d \in Build \ {b} : record'[d] = record[d]
<1> DEFINE new == {<<"create_job", b>>, <<"create_suspended", b>>, <<"save", b>>}
<1>1. /\ TodoType' /\ StepsFit' /\ Has(a, "reserve", b) /\ ~Has(a, "reserve", b)'
      /\ NewStepsOf(a, new)
    BY ReserveSets DEF StepsInv
<1>2. \A duty, d : <<duty, d>> \in new => duty \in StartDuties \ {"reserve"} /\ d = b
    BY DEF StartDuties
<1> HIDE DEF new
<1>3. record' = [record EXCEPT ![b] = Reserved(b)] /\ preview' = preview
    BY DEF Reserve
<1>4. /\ RecordType' /\ record'[b] = Reserved(b) /\ record'[b] # "none"
      /\ \A d \in Build \ {b} : record'[d] = record[d]
    BY <1>3 DEF RecordType, Reserved, Unfinished, StepsInv
<1>5. record[b] = "none" /\ \A c \in Agent \ {a}, duty \in StartDuties : ~Has(c, duty, b)
    BY <1>1 DEF StepsInv, RecordsFit, StartDuties
<1>6. ASSUME NEW c \in Agent, NEW duty \in Duties, NEW d \in Build, Has(c, duty, d)', d # b
      PROVE  Has(c, duty, d)
    <2>1. <<duty, d>> \notin new
        BY <1>2, <1>6
    <2> QED BY <1>1, <1>6, <2>1 DEF NewStepsOf
<1>7. \A c \in Agent, d \in Build : Has(c, "reserve", d)' => d # b /\ Has(c, "reserve", d)
    <2>1. "reserve" \in Duties /\ "reserve" \in StartDuties
        BY DEF Duties, StartDuties
    <2>2. \A c \in Agent, d \in Build : Has(c, "reserve", d)' => Has(c, "reserve", d)
        BY <1>1, <1>2, <2>1 DEF NewStepsOf
    <2> QED BY <1>1, <1>5, <2>1, <2>2
<1>8. ASSUME NEW c \in Agent, NEW d \in Build
      PROVE  /\ Has(c, "reserve", d)' => record'[d] = "none"
             /\ \A duty \in Duties \ {"reserve"} : Has(c, duty, d)' => record'[d] # "none"
    BY <1>4, <1>6, <1>7 DEF StepsInv, RecordsFit
<1>9. ASSUME NEW c \in Agent, NEW e \in Agent, NEW d \in Build,
             NEW duty \in StartDuties, NEW other \in StartDuties,
             Has(c, duty, d)', Has(e, other, d)'
      PROVE  c = e
    <2>1. duty \in Duties /\ other \in Duties
        BY DEF Duties
    <2>2. CASE d = b
        BY <1>1, <1>5, <1>9, <2>1, <2>2 DEF NewStepsOf
    <2>3. CASE d # b
        <3>1. Has(c, duty, d) /\ Has(e, other, d)
            BY <1>6, <1>7, <1>9, <2>1, <2>3
        <3> QED BY <3>1 DEF StepsInv, RecordsFit
    <2> QED BY <2>2, <2>3
<1>10. ASSUME NEW s \in Session, (preview[s] # None)'
       PROVE  (record[preview[s]] # "none")'
    <2>1. PICK d \in Build : d = preview[s]
        BY <1>3, <1>10 DEF StepsInv, PreviewType
    <2>2. record[d] # "none"
        BY <1>3, <1>10, <2>1 DEF StepsInv, RecordsFit
    <2>3. record'[d] # "none" /\ preview'[s] = d
        BY <1>3, <1>4, <2>1, <2>2
    <2> QED BY <2>3
<1>11. RecordsFit'
    BY <1>8, <1>9, <1>10 DEF RecordsFit
<1> QED BY <1>1, <1>3, <1>4, <1>5, <1>11 DEF StepsInv, PreviewType

\* A start fails: what it cleans up has a record, what it saves too.
LEMMA StartFailsFits ==
    ASSUME StepsInv, NEW a \in Request, NEW b \in Build, StartFails(a, b)
    PROVE  StepsInv'
<1> DEFINE duty == Head(todo[a]).do
<1>1. a \in Agent
    BY DEF Agent
<1>2. PICK steps \in Undo(duty, b) :
          /\ Instead(a, steps)
          /\ preview' \in IF steps = <<Act("delete_job", b)>>
                             THEN {preview, [preview EXCEPT ![SessionOf[b]] = b]}
                             ELSE {preview}
    BY DEF StartFails
<1>3. duty \in StartDuties /\ Doing(a, duty, b) /\ record' = record
    BY <1>2 DEF StartFails, Doing, Undo, StartDuties, rows
<1> HIDE DEF duty
<1>4. Has(a, duty, b)
    BY <1>1, <1>3, DoingFirst DEF StepsInv
<1>5. record[b] # "none" \/ duty = "reserve"
    BY <1>1, <1>3, <1>4 DEF StepsInv, RecordsFit, Duties
<1>6. /\ record[b] # "none" \/ (steps = <<>> /\ preview' = preview)
      /\ PreviewType'
      /\ \A s \in Session :
            \/ preview'[s] = preview[s]
            \/ \E d \in Build : preview'[s] = d /\ record[d] # "none"
    <2>1. CASE duty = "reserve"
        <3>1. steps = <<>> /\ steps # <<Act("delete_job", b)>>
            BY <1>2, <2>1 DEF Undo
        <3> QED BY <1>2, <3>1 DEF StepsInv, PreviewType
    <2>2. CASE record[b] # "none"
        <3>1. SessionOf[b] \in Session
            BY DEF Session
        <3> QED BY <1>2, <2>2, <3>1 DEF StepsInv, PreviewType
    <2> QED BY <1>5, <2>1, <2>2
<1>7. \/ Instead(a, <<>>)
      \/ /\ record[b] # "none"
         /\ \/ Instead(a, EndSteps(b))
            \/ Instead(a, <<Act("delete_job", b)>>)
            \/ \E status \in Finished : Instead(a, <<Finish(b, status)>>)
    BY <1>2, <1>6 DEF Undo, Finished
<1> QED BY <1>1, <1>3, <1>6, <1>7, EndFits

\* Requests and the worker begin to end a build that has a record; a pod dies.
LEMMA EndsFitRecords ==
    ASSUME StepsInv, NEW a \in Agent,
           \/ \E b \in Build : Cancel(a, b)
           \/ \E s \in Session : Stop(a, s) \/ Watch(a, s)
           \/ a = Worker /\ \E b \in Build : Maintain(b)
           \/ Crash(a)
    PROVE  StepsInv'
<1>1. UNCHANGED <<record, preview>> /\ PreviewType'
    BY DEF Cancel, Stop, Watch, Maintain, Expire, Check, Crash, rows, StepsInv, PreviewType
<1>2. \A s \in Session : preview[s] # None => preview[s] \in Build /\ record[preview[s]] # "none"
    BY DEF StepsInv, PreviewType, RecordsFit
<1>3. ASSUME NEW b \in Build, Cancel(a, b) PROVE StepsInv'
    BY <1>1, <1>3, EndFits DEF Cancel, Unfinished
<1>4. ASSUME NEW s \in Session, Stop(a, s) PROVE StepsInv'
    BY <1>1, <1>2, <1>4, EndFits DEF Stop
<1>5. ASSUME NEW s \in Session, Watch(a, s) PROVE StepsInv'
    BY <1>1, <1>2, <1>5, EndFits DEF Watch, Verdict, Finished
<1>6. ASSUME NEW b \in Build, a = Worker, Expire(b) PROVE StepsInv'
    BY <1>1, <1>6, EndFits DEF Expire
<1>7. ASSUME NEW b \in Build, a = Worker, Check(b) PROVE StepsInv'
    BY <1>1, <1>7, EndFits DEF Check, Verdict, Finished
<1>8. CASE Crash(a)
    <2>1. Instead(a, <<>>)
        BY <1>8 DEF Crash
    <2>2. TodoType' /\ StepsFit' /\ NewStepsOf(a, {})
        BY <2>1, InsteadNothing DEF StepsInv
    <2>3. RecordsFit'
        BY <1>1, <2>2, StepsKeep DEF StepsInv
    <2> QED BY <1>1, <2>2, <2>3 DEF StepsInv
<1> QED BY <1>3, <1>4, <1>5, <1>6, <1>7, <1>8 DEF Maintain

\* The instance is saved, the Job created or deleted, or not.
LEMMA JobStepsFit ==
    ASSUME StepsInv, JobType, NEW a \in Agent, NEW b \in Build,
           Save(a, b) \/ CreateJob(a, b) \/ DeleteJob(a, b)
    PROVE  StepsInv' /\ JobType' /\ UNCHANGED <<record, line>>
<1>1. PICK duty \in Duties \ {"reserve"} : Doing(a, duty, b)
    BY DEF Save, CreateJob, Created, DeleteJob, Duties, StartDuties
<1>2. todo[a] # <<>> /\ record[b] # "none" /\ SessionOf[b] \in Session
    BY <1>1, DoingFirst DEF StepsInv, RecordsFit, Session
<1>3. Done(a) /\ UNCHANGED <<record, line>>
    BY DEF Save, CreateJob, DeleteJob, rows
<1>4. preview' = preview \/ preview' = [preview EXCEPT ![SessionOf[b]] = b]
    BY DEF Save, CreateJob, DeleteJob
<1>5. /\ PreviewType'
      /\ \A s \in Session :
            \/ preview'[s] = preview[s]
            \/ \E d \in Build : preview'[s] = d /\ record[d] # "none"
    BY <1>2, <1>4 DEF StepsInv, PreviewType
<1>6. JobType'
    BY DEF JobType, Save, CreateJob, Created, DeleteJob
<1> QED BY <1>2, <1>3, <1>5, <1>6, DoneFits

\* The Job is created and the record is to be ended.
LEMMA CreateLostFits ==
    ASSUME StepsInv, JobType, NEW a \in Request, NEW b \in Build, CreateLost(a, b)
    PROVE  StepsInv' /\ JobType' /\ UNCHANGED <<record, line>>
<1>1. a \in Agent
    BY DEF Agent
<1>2. PICK duty \in Creating : Doing(a, duty, b)
    BY DEF CreateLost, Created, Creating
<1>3. record[b] # "none"
    BY <1>1, <1>2, DoingFirst DEF StepsInv, RecordsFit, Creating, Duties, StartDuties
<1>4. /\ UNCHANGED <<record, line, preview>> /\ PreviewType'
      /\ \E status \in Finished : Instead(a, <<Finish(b, status)>>)
    BY DEF CreateLost, rows, Finished, StepsInv, PreviewType
<1>5. StepsInv'
    BY <1>1, <1>3, <1>4, EndFits
<1>6. JobType'
    BY DEF CreateLost, Created, JobType
<1> QED BY <1>4, <1>5, <1>6

\* finishBuild looks and writes.
LEMMA FinishFits ==
    ASSUME StepsInv, RecordType, NEW a \in Agent, NEW b \in Build,
           FinishLooks(a, b) \/ FinishWrites(a, b)
    PROVE  /\ StepsInv' /\ RecordType' /\ UNCHANGED <<line, job>>
           /\ record[b] # "none" /\ record'[b] \in Finished \cup {record[b]}
           /\ \A d \in Build \ {b} : record'[d] = record[d]
<1>1. PICK duty \in Ending : Doing(a, duty, b)
    BY DEF FinishLooks, FinishWrites, Ending
<1>2. /\ todo[a] # <<>> /\ 1 \in Steps(a) /\ todo[a][1] \in Step
      /\ todo[a][1].do = duty /\ todo[a][1].of = b /\ Has(a, duty, b)
    BY <1>1, DoingFirst DEF StepsInv
<1>3. record[b] # "none"
    BY <1>2 DEF StepsInv, RecordsFit, Ending, Duties, StartDuties
<1>4. Head(todo[a]) = todo[a][1] /\ todo[a][1].to \in Finished
    BY <1>2 DEF StepsInv, TodoType, StepsFit, StepFits
<1>5. CASE FinishLooks(a, b)
    <2>1. UNCHANGED <<record, line, job, preview>>
        BY <1>5 DEF FinishLooks, rows
    <2>2. CASE Done(a)
        BY <1>2, <1>3, <2>1, <2>2, DoneFits DEF StepsInv, PreviewType, RecordType
    <2>3. CASE Then(a, <<[Head(todo[a]) EXCEPT !.do = "write"]>>)
        <3> DEFINE step == [todo[a][1] EXCEPT !.do = "write"]
        <3>1. /\ step \in Step /\ step.do = "write" /\ step.of = b
              /\ step.to \in Finished /\ Then(a, <<step>>)
            BY <1>2, <1>4, <2>3 DEF Step, Duties
        <3>2. todo[a][1].do # "delete_job"
            BY <1>2 DEF Ending
        <3> HIDE DEF step
        <3>3. StepsInv'
            BY <1>2, <1>3, <2>1, <3>1, <3>2, ReplacedFits DEF Ending
        <3> QED BY <1>3, <2>1, <3>3 DEF RecordType
    <2> QED BY <1>5, <2>2, <2>3 DEF FinishLooks, Done
<1>6. CASE FinishWrites(a, b)
    <2>1. /\ record' = [record EXCEPT ![b] = todo[a][1].to]
          /\ UNCHANGED <<line, job, preview>> /\ Done(a)
        BY <1>4, <1>6 DEF FinishWrites
    <2>2. /\ RecordType' /\ record'[b] \in Finished
          /\ \A d \in Build \ {b} : record'[d] = record[d]
        BY <1>4, <2>1 DEF RecordType
    <2>3. \A d \in Build : record'[d] = "none" <=> record[d] = "none"
        BY <1>3, <2>2 DEF Finished
    <2>4. StepsInv'
        BY <1>2, <2>1, <2>3, DoneFits DEF StepsInv, PreviewType
    <2> QED BY <1>3, <2>1, <2>2, <2>4
<1> QED BY <1>5, <1>6

\* A queued build gets its place, and its Job is resumed, if it is there.
LEMMA DispatchFits ==
    ASSUME StepsInv, RecordType, NEW b \in Build, Dispatch(b)
    PROVE  /\ StepsInv' /\ RecordType' /\ UNCHANGED <<line, job>>
           /\ record[b] = "queued" /\ HasRoom(b) /\ record'[b] = "building"
           /\ \A d \in Build \ {b} : record'[d] = record[d]
<1> DEFINE step == Act("resume", b)
           new == {<<"resume", b>>}
<1>1. /\ record[b] = "queued" /\ HasRoom(b) /\ Worker \in Agent
      /\ record' = [record EXCEPT ![b] = "building"] /\ UNCHANGED <<line, job, preview>>
      /\ Instead(Worker, <<step>>)
    BY DEF Dispatch, Candidates, Agent
<1>2. step \in Step /\ step.do = "resume" /\ step.of = b
    BY DEF Act, Step, Duties
<1> HIDE DEF step
<1>3. /\ RecordType' /\ record'[b] = "building"
      /\ \A d \in Build \ {b} : record'[d] = record[d]
    BY <1>1 DEF RecordType, Unfinished
<1>4. TodoType' /\ StepsFit' /\ NewStepsOf(Worker, new)
    BY <1>1, <1>2, InsteadOne DEF StepsInv
<1>5. /\ \A d \in Build : record'[d] = "none" <=> record[d] = "none"
      /\ \A duty \in Duties, d \in Build : <<duty, d>> \in new =>
            duty \notin StartDuties /\ record[d] # "none"
      /\ \A d \in Build : <<"reserve", d>> \notin new
    BY <1>1, <1>3 DEF StartDuties
<1> HIDE DEF new
<1>6. RecordsFit'
    BY <1>1, <1>4, <1>5, StepsKeep DEF StepsInv
<1> QED BY <1>1, <1>3, <1>4, <1>6 DEF StepsInv, PreviewType

\* The Job is resumed, or the patch fails.
LEMMA ResumeFits ==
    ASSUME StepsInv, JobType, NEW b \in Build, Resume(b)
    PROVE  StepsInv' /\ JobType' /\ UNCHANGED <<record, line>>
<1>1. /\ Worker \in Agent /\ todo[Worker] # <<>> /\ todo[Worker][1].do = "resume"
      /\ Has(Worker, "resume", b)
    BY DoingFirst DEF Resume, Agent, StepsInv
<1>2. record[b] # "none"
    BY <1>1 DEF StepsInv, RecordsFit, Duties, StartDuties
<1>3. JobType' /\ UNCHANGED <<record, line, preview>>
    BY DEF Resume, rows, JobType
<1>4. CASE Done(Worker)
    BY <1>1, <1>3, <1>4, DoneFits DEF StepsInv, PreviewType
<1>5. CASE Then(Worker, <<Finish(b, "failed")>>)
    <2> DEFINE step == Finish(b, "failed")
    <2>1. /\ step \in Step /\ step.do = "finish" /\ step.of = b /\ step.to \in Finished
          /\ Then(Worker, <<step>>)
        BY <1>5 DEF Finish, Step, Duties, Finished
    <2> HIDE DEF step
    <2>2. StepsInv'
        BY <1>1, <1>2, <1>3, <2>1, ReplacedFits DEF Ending
    <2> QED BY <1>3, <2>2
<1> QED BY <1>3, <1>4, <1>5 DEF Resume, Done

\* Nothing happens to records, previews and what is to be done.
LEMMA StepsStay ==
    ASSUME StepsInv, UNCHANGED <<record, preview, todo>>
    PROVE  StepsInv'
BY DEF StepsInv, PreviewType, TodoType, StepsFit, StepFits, RecordsFit, Has, Steps

-------------------------------------------------------------------------------
(* The line, the events and the places *)

Rest == RecordType /\ JobType /\ LineType /\ EventType
PlacesStay == PlacesKept => PlacesKept'

\* A build that was not in the line is in it at the end.
LEMMA LineGrows ==
    ASSUME LineType, NEW b \in Build, record[b] = "none", record'[b] # "none",
           line' = Append(line, b), \A d \in Build \ {b} : record'[d] = record[d]
    PROVE  LineType'
<1>1. line \in Seq(Build) /\ Len(line) \in Nat /\ DOMAIN line = 1..Len(line)
    BY LenProperties DEF LineType
<1>2. /\ line' \in Seq(Build) /\ Len(line') = Len(line) + 1
      /\ \A i \in 1..Len(line) : line'[i] = line[i]
      /\ line'[Len(line) + 1] = b
    BY <1>1, AppendProperties
<1>3. DOMAIN line' = 1..Len(line')
    BY <1>2, LenProperties
<1>4. \A d : d \in ToSet(line) <=> \E i \in 1..Len(line) : line[i] = d
    BY <1>1 DEF ToSet
<1>5. \A d : d \in ToSet(line)' <=> \E i \in 1..Len(line') : line'[i] = d
    BY <1>3 DEF ToSet
<1>6. \A d : d \in ToSet(line)' <=> d \in ToSet(line) \/ d = b
    BY <1>1, <1>2, <1>4, <1>5
<1>7. b \notin ToSet(line)
    BY DEF LineType
<1>8. \A i, j \in 1..Len(line) : line[i] = line[j] => i = j
    BY <1>1 DEF LineType, IsInjective
<1>9. \A i, j \in 1..Len(line') : line'[i] = line'[j] => i = j
    BY <1>1, <1>2, <1>4, <1>7, <1>8
<1>10. IsInjective(line)'
    BY <1>3, <1>9 DEF IsInjective
<1>11. \A d : d \in ToSet(line)' <=> d \in {e \in Build : record[e] # "none"}'
    BY <1>6 DEF LineType
<1> QED BY <1>2, <1>10, <1>11 DEF LineType

\* The line stays while no build appears or vanishes.
LEMMA LineStays ==
    ASSUME LineType, line' = line,
           \A b \in Build : record'[b] # "none" <=> record[b] # "none"
    PROVE  LineType'
<1>1. {b \in Build : record[b] # "none"}' = {b \in Build : record[b] # "none"}
    OBVIOUS
<1> QED BY <1>1 DEF LineType

\* The builds that hold a place can be counted.
LEMMA BuildingFinite ==
    ASSUME NEW c
    PROVE  IsFiniteSet(Building(c)) /\ Cardinality(Building(c)) \in Nat
<1>1. Building(c) \in SUBSET Build /\ IsFiniteSet(Build)
    BY PreviewAssumption DEF Building
<1>2. IsFiniteSet(Building(c))
    BY <1>1, FS_Subset
<1> QED BY <1>2, FS_CardinalityType

\* No build gets a place.
LEMMA PlacesShrink ==
    ASSUME \A b \in Build : record'[b] = "building" => record[b] = "building"
    PROVE  PlacesStay
<1> SUFFICES ASSUME PlacesKept, NEW c \in Scope
             PROVE  Cardinality(Building(c)') <= Limit[c]
    BY DEF PlacesStay, PlacesKept
<1> DEFINE later == Building(c)'
<1>1. later \in SUBSET Building(c) /\ IsFiniteSet(Building(c))
    BY BuildingFinite DEF Building
<1> HIDE DEF later
<1>2. Cardinality(later) <= Cardinality(Building(c)) /\ IsFiniteSet(later)
    BY <1>1, FS_Subset
<1>3. Cardinality(later) \in Nat /\ Cardinality(Building(c)) \in Nat
    BY <1>2, BuildingFinite, FS_CardinalityType
<1>4. Limit[c] \in Nat /\ Cardinality(Building(c)) <= Limit[c]
    BY PreviewAssumption DEF PlacesKept
<1>5. Cardinality(later) <= Limit[c]
    BY <1>2, <1>3, <1>4
<1> QED BY <1>5 DEF later

\* One build gets a place, which all its scopes have.
LEMMA PlaceTaken ==
    ASSUME NEW b \in Build, record[b] # "building", record'[b] = "building", HasRoom(b),
           \A d \in Build \ {b} : record'[d] = record[d]
    PROVE  PlacesStay
<1> SUFFICES ASSUME PlacesKept, NEW c \in Scope
             PROVE  Cardinality(Building(c)') <= Limit[c]
    BY DEF PlacesStay, PlacesKept
<1>1. Limit[c] \in Nat /\ Cardinality(Building(c)) <= Limit[c]
    BY PreviewAssumption DEF PlacesKept
<1>2. IsFiniteSet(Building(c)) /\ Cardinality(Building(c)) \in Nat
    BY BuildingFinite
<1>3. CASE c \in ScopesOf[SessionOf[b]]
    <2>1. Building(c)' = Building(c) \cup {b}
        BY <1>3 DEF Building
    <2>2. Cardinality(Building(c) \cup {b}) = Cardinality(Building(c)) + 1
        <3>1. b \notin Building(c)
            BY DEF Building
        <3> QED BY <1>2, <3>1, FS_AddElement
    <2>3. Cardinality(Building(c)) < Limit[c]
        BY <1>3 DEF HasRoom
    <2>4. IsFiniteSet(Building(c) \cup {b})
        BY <1>2, FS_AddElement
    <2>5. Cardinality(Building(c) \cup {b}) \in Nat
        BY <2>4, FS_CardinalityType
    <2>6. Cardinality(Building(c) \cup {b}) <= Limit[c]
        BY <1>1, <1>2, <2>2, <2>3, <2>5
    <2> QED BY <2>1, <2>6
<1>4. CASE c \notin ScopesOf[SessionOf[b]]
    <2>1. Building(c)' = Building(c)
        BY <1>4 DEF Building
    <2> QED BY <1>1, <2>1
<1> QED BY <1>3, <1>4

\* The bound on events is kept.
LEMMA EventKeeps ==
    ASSUME EventType, events' = events \/ \E kind \in EventKinds : Event(kind)
    PROVE  EventType'
BY PreviewAssumption DEF EventType, Event, Can

\* Steps that touch neither rows nor Jobs.
LEMMA CalmRest ==
    ASSUME Rest, UNCHANGED <<record, line, job>>, EventType'
    PROVE  Rest' /\ PlacesStay
<1>1. RecordType' /\ JobType' /\ LineType'
    BY LineStays DEF Rest, RecordType, JobType
<1>2. PlacesStay
    BY PlacesShrink
<1> QED BY <1>1, <1>2 DEF Rest

-------------------------------------------------------------------------------
(* Every step keeps the records and the places *)

\* A deletion or a patch that fails is an event.
LEMMA LossIsEvent ==
    ASSUME NEW done \in Deleted, Lose(done)
    PROVE  events' = events \/ \E kind \in EventKinds : Event(kind)
BY DEF Deleted, Lose, Event, EventKinds

\* What requests and the worker begin, and crashes.
LEMMA BeginStep ==
    ASSUME StepsInv, Rest,
           \/ \E a \in Request :
                 \/ \E b \in Build : Start(a, b) \/ Cancel(a, b) \/ StartFails(a, b)
                 \/ \E s \in Session : Stop(a, s) \/ Watch(a, s)
           \/ \E b \in Build : Maintain(b)
           \/ \E a \in Agent : Crash(a)
    PROVE  StepsInv' /\ Rest' /\ PlacesStay
<1>1. UNCHANGED <<record, line, job>>
    BY DEF Start, Cancel, StartFails, Stop, Watch, Maintain, Expire, Check, Crash, rows
<1>2. events' = events \/ \E kind \in EventKinds : Event(kind)
    BY DEF Start, Cancel, StartFails, Stop, Watch, Maintain, Expire, Check, Crash, EventKinds
<1>3. Rest' /\ PlacesStay
    BY <1>1, <1>2, EventKeeps, CalmRest DEF Rest
<1>4. StepsInv'
    BY StartFits, StartFailsFits, EndsFitRecords DEF Agent
<1> QED BY <1>3, <1>4

\* What agents do next, and Jobs that end.
LEMMA DoStep ==
    ASSUME StepsInv, Rest,
           \/ \E a \in Agent, b \in Build : Work(a, b)
           \/ \E a \in Request, b \in Build : CreateLost(a, b)
           \/ \E b \in Build : Dispatch(b) \/ Resume(b) \/ JobEnds(b)
    PROVE  StepsInv' /\ Rest' /\ PlacesStay
<1> USE DEF Rest
<1>1. ASSUME StepsInv', JobType', UNCHANGED <<record, line>>,
             events' = events \/ \E kind \in EventKinds : Event(kind)
      PROVE  StepsInv' /\ Rest' /\ PlacesStay
    BY <1>1, LineStays, PlacesShrink, EventKeeps DEF RecordType
<1>2. ASSUME NEW a \in Agent, NEW b \in Build,
             Save(a, b) \/ CreateJob(a, b) \/ DeleteJob(a, b)
      PROVE  StepsInv' /\ Rest' /\ PlacesStay
    <2>1. events' = events \/ \E kind \in EventKinds : Event(kind)
        BY <1>2, LossIsEvent DEF Save, CreateJob, DeleteJob
    <2> QED BY <1>1, <1>2, <2>1, JobStepsFit
<1>3. ASSUME NEW a \in Agent, NEW b \in Build, FinishLooks(a, b) \/ FinishWrites(a, b)
      PROVE  StepsInv' /\ Rest' /\ PlacesStay
    <2>1. /\ StepsInv' /\ RecordType' /\ UNCHANGED <<line, job>>
          /\ record[b] # "none" /\ record'[b] \in Finished \cup {record[b]}
          /\ \A d \in Build \ {b} : record'[d] = record[d]
        BY <1>3, FinishFits
    <2>2. events' = events
        BY <1>3 DEF FinishLooks, FinishWrites
    <2>3. LineType' /\ PlacesStay
        BY <2>1, LineStays, PlacesShrink DEF Finished
    <2> QED BY <2>1, <2>2, <2>3, EventKeeps DEF JobType
<1>4. ASSUME NEW a \in Agent, NEW b \in Build, Reserve(a, b)
      PROVE  StepsInv' /\ Rest' /\ PlacesStay
    <2>1. /\ StepsInv' /\ RecordType' /\ record[b] = "none" /\ record'[b] = Reserved(b)
          /\ \A d \in Build \ {b} : record'[d] = record[d]
        BY <1>4, ReserveFits
    <2>2. job' = job /\ events' = events /\ line' = Append(line, b)
        BY <1>4 DEF Reserve
    <2>3. LineType'
        BY <2>1, <2>2, LineGrows DEF Reserved
    <2>4. PlacesStay
        BY <2>1, PlaceTaken, PlacesShrink DEF Reserved
    <2> QED BY <2>1, <2>2, <2>3, <2>4, EventKeeps DEF JobType
<1>5. ASSUME NEW b \in Build, Dispatch(b)
      PROVE  StepsInv' /\ Rest' /\ PlacesStay
    <2>1. /\ StepsInv' /\ RecordType' /\ UNCHANGED <<line, job>>
          /\ record[b] = "queued" /\ HasRoom(b) /\ record'[b] = "building"
          /\ \A d \in Build \ {b} : record'[d] = record[d]
        BY <1>5, DispatchFits
    <2>2. LineType' /\ PlacesStay /\ events' = events
        BY <1>5, <2>1, LineStays, PlaceTaken DEF Dispatch
    <2> QED BY <2>1, <2>2, EventKeeps DEF JobType
<1>6. ASSUME NEW b \in Build, Resume(b)
      PROVE  StepsInv' /\ Rest' /\ PlacesStay
    <2>1. events' = events \/ \E kind \in EventKinds : Event(kind)
        BY <1>6, LossIsEvent DEF Resume
    <2> QED BY <1>1, <1>6, <2>1, ResumeFits
<1>7. ASSUME NEW b \in Build, JobEnds(b)
      PROVE  StepsInv' /\ Rest' /\ PlacesStay
    <2>1. UNCHANGED <<record, line, preview, todo, events>> /\ JobType'
        BY <1>7 DEF JobEnds, rows, JobType
    <2>2. StepsInv'
        BY <2>1, StepsStay
    <2> QED BY <1>1, <2>1, <2>2
<1>8. ASSUME NEW a \in Request, NEW b \in Build, CreateLost(a, b)
      PROVE  StepsInv' /\ Rest' /\ PlacesStay
    <2>1. events' = events \/ \E kind \in EventKinds : Event(kind)
        BY <1>8 DEF CreateLost, EventKinds
    <2> QED BY <1>1, <1>8, <2>1, CreateLostFits
<1> QED BY <1>2, <1>3, <1>4, <1>5, <1>6, <1>7, <1>8 DEF Work

\* At first nothing is to be done, and no place is taken.
LEMMA InitRecordInv == Init => RecordInv /\ \A a \in Agent : Steps(a) = {}
<1> SUFFICES ASSUME Init PROVE RecordInv /\ \A a \in Agent : Steps(a) = {}
    OBVIOUS
<1>1. /\ PreviewType /\ TodoType /\ RecordType /\ JobType
      /\ EventType /\ HistoryType
    BY PreviewAssumption, EmptySeq
       DEF Init, PreviewType, TodoType, RecordType, JobType, EventType, HistoryType
<1>2. LineType
    <2>1. line = <<>> /\ line \in Seq(Build) /\ DOMAIN line = {}
        BY EmptySeq DEF Init
    <2>2. {b \in Build : record[b] # "none"} = {}
        BY DEF Init
    <2>3. ToSet(line) = {} /\ IsInjective(line)
        BY <2>1 DEF ToSet, IsInjective
    <2> QED BY <2>1, <2>2, <2>3 DEF LineType
<1>3. \A a \in Agent : Steps(a) = {}
    BY EmptySeq DEF Init, Steps
<1>4. StepsFit /\ RecordsFit
    BY <1>3 DEF Init, StepsFit, RecordsFit, Has
<1>5. PlacesKept
    <2> SUFFICES ASSUME NEW c \in Scope PROVE Cardinality(Building(c)) <= Limit[c]
        BY DEF PlacesKept
    <2>1. Building(c) = {}
        BY DEF Init, Building
    <2>2. Limit[c] \in Nat
        BY PreviewAssumption
    <2> QED BY <2>1, <2>2, FS_EmptySet
<1> QED BY <1>1, <1>2, <1>3, <1>4, <1>5, TypeParts DEF RecordInv

\* What has been recorded stays, and builds are recorded only.
LEMMA HistoryGrows ==
    ASSUME [Next]_vars
    PROVE  /\ astray \subseteq astray' /\ orphaned \subseteq orphaned'
           /\ HistoryType => HistoryType'
<1>1. ASSUME NEW a \in Request,
             \/ \E b \in Build :
                   Start(a, b) \/ Cancel(a, b) \/ StartFails(a, b) \/ CreateLost(a, b)
             \/ \E s \in Session : Stop(a, s) \/ Watch(a, s)
      PROVE  \/ UNCHANGED history
             \/ orphaned' = orphaned /\ \E b \in Build : astray' = astray \cup {b}
    BY <1>1 DEF Start, Cancel, StartFails, CreateLost, Stop, Watch, history
<1>2. ASSUME NEW a \in Agent, NEW b \in Build, Work(a, b)
      PROVE  UNCHANGED history \/ (orphaned' = orphaned /\ astray' = astray \cup {b})
    BY <1>2 DEF Work, Reserve, CreateJob, Save, DeleteJob, FinishLooks, FinishWrites, history
<1>3. ASSUME NEW b \in Build, Maintain(b) \/ Dispatch(b) \/ Resume(b) \/ JobEnds(b)
      PROVE  UNCHANGED history \/ (orphaned' = orphaned /\ astray' = astray \cup {b})
    BY <1>3 DEF Maintain, Expire, Check, Dispatch, Resume, JobEnds, history
<1>4. ASSUME NEW a \in Agent, Crash(a)
      PROVE  astray' = astray /\ \E left \in SUBSET Build : orphaned' = orphaned \cup left
    <2>1. LeftBehind \in SUBSET Build /\ {} \in SUBSET Build
        BY DEF LeftBehind
    <2>2. orphaned' = orphaned \cup LeftBehind \/ orphaned' = orphaned \cup {}
        BY <1>4 DEF Crash
    <2> QED BY <1>4, <2>1, <2>2 DEF Crash
<1>5. \/ UNCHANGED history
      \/ orphaned' = orphaned /\ \E b \in Build : astray' = astray \cup {b}
      \/ astray' = astray /\ \E left \in SUBSET Build : orphaned' = orphaned \cup left
    BY <1>1, <1>2, <1>3, <1>4 DEF Next, vars, history
<1> QED BY <1>5 DEF HistoryType, history

\* Every step, of whatever kind, keeps the records and the places.
LEMMA NextRecordInv == RecordInv /\ [Next]_vars => RecordInv'
<1> SUFFICES ASSUME RecordInv, [Next]_vars PROVE RecordInv'
    OBVIOUS
<1>1. StepsInv /\ Rest /\ PlacesKept /\ HistoryType
    BY TypeParts DEF RecordInv, StepsInv, Rest
<1>2. StepsInv' /\ Rest' /\ PlacesStay
    <2>1. CASE Next
        BY <1>1, <2>1, BeginStep, DoStep DEF Next
    <2>2. CASE UNCHANGED vars
        <3>1. UNCHANGED <<record, line, job, preview, todo, events>>
            BY <2>2 DEF vars
        <3>2. EventType'
            BY <1>1, <3>1 DEF Rest, EventType
        <3> QED BY <1>1, <3>1, <3>2, CalmRest, StepsStay
    <2> QED BY <2>1, <2>2
<1>3. TypeOK'
    <2>1. HistoryType'
        BY <1>1, HistoryGrows
    <2> QED BY <1>2, <2>1 DEF TypeOK, StepsInv, Rest, RecordType, LineType, JobType,
               PreviewType, TodoType, EventType, HistoryType
<1> QED BY <1>1, <1>2, <1>3 DEF RecordInv, StepsInv, PlacesStay

\* The records and what is left to do with them, under every event.
THEOREM RecordInvAlways == Spec => []RecordInv
BY InitRecordInv, NextRecordInv, PTL DEF Spec

\* Records, Jobs, previews and the line keep their types; the line has each
\* build that was ever reserved exactly once: whatever is cancelled,
\* fails, is lost or dies.
THEOREM BuildTypeOK == Spec => []TypeOK
<1>1. RecordInv => TypeOK
    BY DEF RecordInv
<1> QED BY <1>1, RecordInvAlways, PTL

\* The records that hold a place never exceed a limit: what reserveBuild and
\* dispatchQueued count is right whatever happens to the Jobs.
THEOREM PlacesKeptAlways == Spec => []PlacesKept
<1>1. RecordInv => PlacesKept
    BY DEF RecordInv
<1> QED BY <1>1, RecordInvAlways, PTL

\* A step changes one record at most, and gives a place where there is room.
LEMMA RecordMoves ==
    ASSUME RecordInv, [Next]_vars
    PROVE  \/ record' = record
           \/ \E b \in Build :
                 /\ \A d \in Build \ {b} : record'[d] = record[d]
                 /\ record'[b] = "building" => record[b] = "building" \/ HasRoom(b)
<1> DEFINE Moves == \E b \in Build :
                 /\ \A d \in Build \ {b} : record'[d] = record[d]
                 /\ record'[b] = "building" => record[b] = "building" \/ HasRoom(b)
<1>1. StepsInv /\ Rest
    BY TypeParts DEF RecordInv, StepsInv, Rest
<1>2. ASSUME NEW a \in Agent, NEW b \in Build, Reserve(a, b) PROVE Moves
    BY <1>1, <1>2, ReserveFits DEF Reserved, Rest
<1>3. ASSUME NEW a \in Agent, NEW b \in Build, FinishLooks(a, b) \/ FinishWrites(a, b)
      PROVE  Moves
    <2>1. /\ record'[b] \in Finished \cup {record[b]}
          /\ \A d \in Build \ {b} : record'[d] = record[d]
        BY <1>1, <1>3, FinishFits DEF Rest
    <2> QED BY <2>1 DEF Finished
<1>4. ASSUME NEW b \in Build, Dispatch(b) PROVE Moves
    BY <1>1, <1>4, DispatchFits DEF Rest
<1>5. ASSUME NEW a \in Agent, NEW b \in Build, Save(a, b) \/ CreateJob(a, b) \/ DeleteJob(a, b)
      PROVE  record' = record
    BY <1>5 DEF Save, CreateJob, DeleteJob, rows
<1>6. ASSUME NEW b \in Build, Resume(b) \/ JobEnds(b) \/ Maintain(b) PROVE record' = record
    BY <1>6 DEF Resume, JobEnds, Maintain, Expire, Check, rows
<1>7. ASSUME NEW a \in Request,
             \/ \E b \in Build :
                   Start(a, b) \/ Cancel(a, b) \/ StartFails(a, b) \/ CreateLost(a, b)
             \/ \E s \in Session : Stop(a, s) \/ Watch(a, s)
      PROVE  record' = record
    BY <1>7 DEF Start, Cancel, StartFails, CreateLost, Stop, Watch, rows
<1>8. ASSUME NEW a \in Agent, Crash(a) PROVE record' = record
    BY <1>8 DEF Crash, rows
<1>9. CASE UNCHANGED vars
    BY <1>9 DEF vars
<1> QED BY <1>2, <1>3, <1>4, <1>5, <1>6, <1>7, <1>8, <1>9 DEF Next, Work

\* The places of one user or team.
Places(c) == INSTANCE LimitedSection
    WITH Caller <- Build, Limit <- Limit[c], inside <- Building(c)

\* One build at a time gets a place, if there is one, or gives its place back:
\* requests on all API pods and the worker share one counter for a user or a
\* team, of which there is no trace but the rows.
THEOREM PlacesRefine ==
    ASSUME NEW c \in Scope
    PROVE  Spec => Places(c)!Spec
<1>1. Init => Places(c)!Init
    BY DEF Init, Places!Init, Building
<1>2. RecordInv /\ [Next]_vars => [Places(c)!Next]_(Building(c))
    <2> SUFFICES ASSUME RecordInv, [Next]_vars PROVE [Places(c)!Next]_(Building(c))
        OBVIOUS
    <2>1. CASE record' = record
        BY <2>1 DEF Building
    <2>2. ASSUME NEW b \in Build,
                 \A d \in Build \ {b} : record'[d] = record[d],
                 record'[b] = "building" => record[b] = "building" \/ HasRoom(b)
          PROVE  [Places(c)!Next]_(Building(c))
        <3>1. CASE Building(c)' = Building(c)
            BY <3>1
        <3>2. CASE b \in Building(c) /\ Building(c)' = Building(c) \ {b}
            BY <3>2 DEF Places!Next, Places!Leave
        <3>3. CASE b \notin Building(c) /\ b \in Building(c)'
            <4>1. HasRoom(b) /\ c \in ScopesOf[SessionOf[b]]
                BY <2>2, <3>3 DEF Building
            <4>2. Cardinality(Building(c)) < Limit[c]
                BY <4>1 DEF HasRoom
            <4>3. Places(c)!Cardinality(Building(c)) = Cardinality(Building(c))
                BY DEF Places!Cardinality, Cardinality
            <4>4. Building(c)' = Building(c) \cup {b}
                BY <2>2, <3>3 DEF Building
            <4>5. Places(c)!Enter(b)
                BY <3>3, <4>2, <4>3, <4>4 DEF Places!Enter
            <4> QED BY <4>5 DEF Places!Next
        <3>4. \A d \in Build \ {b} : d \in Building(c)' <=> d \in Building(c)
            BY <2>2 DEF Building
        <3>5. Building(c) \subseteq Build /\ Building(c)' \subseteq Build
            BY DEF Building
        <3>6. Building(c)' = Building(c) \/ (b \in Building(c) /\ Building(c)' = Building(c) \ {b})
                 \/ (b \notin Building(c) /\ b \in Building(c)')
            BY <3>4, <3>5
        <3> QED BY <3>1, <3>2, <3>3, <3>6
    <2> QED BY <2>1, <2>2, RecordMoves
<1> QED BY <1>1, <1>2, RecordInvAlways, PTL DEF Spec, Places!Spec

-------------------------------------------------------------------------------
(* Places come back *)

(***************************************************************************)
(* A Job is created once, for a record that is there, and suspended only   *)
(* for one that is queued.  A place that is given to a suspended Job, or   *)
(* to one that is yet to be created suspended, is minded by the worker: it *)
(* has still to resume the Job or to end the build, unless it died.        *)
(***************************************************************************)
Minding == {"resume", "finish", "write"}
Minds(b) == \E duty \in Minding : Has(Worker, duty, b)
ToSuspend(b) == \E a \in Agent : Has(a, "create_suspended", b)

JobsFit ==
    /\ \A b \in Build : record[b] = "none" => job[b] = "none"
    /\ \A a \in Agent, b \in Build : \A duty \in Creating :
          Has(a, duty, b) => job[b] = "none"
PlacesMinded ==
    \A b \in Build \ orphaned :
        record[b] = "building" /\ (job[b] = "suspended" \/ ToSuspend(b)) => Minds(b)

\* What a step may do for build b: its Job is created by the one who had to,
\* and nobody has to create it any more; the worker minds a place that it gives,
\* and until the build is ended or its Job is there and not suspended, or dies.
MindedMove(b) ==
    /\ \A a \in Agent : \A duty \in Creating : Has(a, duty, b)' =>
          \/ Has(a, duty, b) /\ (job'[b] = "none" \/ job[b] # "none")
          \/ /\ record[b] = "none" /\ job'[b] = job[b]
             /\ duty = "create_suspended" => record'[b] = "queued"
    /\ record'[b] = "none" => record[b] = "none" /\ (job[b] = "none" => job'[b] = "none")
    /\ job'[b] = "suspended" => job[b] = "suspended" \/ ToSuspend(b)
    /\ record'[b] = "building" => record[b] \in {"none", "building"} \/ Minds(b)'
    /\ Minds(b) /\ record'[b] = "building" /\ (job'[b] = "suspended" \/ ToSuspend(b)') =>
          Minds(b)' \/ (job[b] # "none" /\ job'[b] # "suspended") \/ b \in orphaned'

\* Steps that move so keep the Jobs and the places.
LEMMA MindedMoveKeeps ==
    ASSUME JobsFit, PlacesMinded, RecordsFit, orphaned \subseteq orphaned',
           \A b \in Build : MindedMove(b)
    PROVE  JobsFit' /\ PlacesMinded'
<1>1. ASSUME NEW b \in Build PROVE record'[b] = "none" => job'[b] = "none"
    BY DEF JobsFit, MindedMove
<1>2. ASSUME NEW a \in Agent, NEW b \in Build, NEW duty \in Creating, Has(a, duty, b)'
      PROVE  job'[b] = "none"
    BY <1>2 DEF JobsFit, MindedMove
<1>3. ASSUME NEW b \in Build, b \notin orphaned', record'[b] = "building",
             job'[b] = "suspended" \/ ToSuspend(b)'
      PROVE  Minds(b)'
    <2>1. "create_suspended" \in Creating
        BY DEF Creating
    <2>2. MindedMove(b)
        OBVIOUS
    <2>3. ToSuspend(b)' => ToSuspend(b)
        BY <1>3, <2>1, <2>2 DEF MindedMove, ToSuspend
    <2>4. job[b] = "suspended" \/ ToSuspend(b)
        BY <1>3, <2>2, <2>3 DEF MindedMove
    <2>5. record[b] # "none"
        BY <2>1, <2>4 DEF JobsFit, RecordsFit, ToSuspend, Duties, StartDuties
    <2>6. CASE record[b] = "building"
        <3>1. Minds(b)
            BY <1>3, <2>4, <2>6 DEF PlacesMinded
        <3>2. ASSUME job[b] # "none", job'[b] # "suspended" PROVE FALSE
            <4>1. ToSuspend(b)'
                BY <1>3, <3>2
            <4>2. ToSuspend(b)
                BY <2>3, <4>1
            <4> QED BY <2>1, <3>2, <4>2 DEF JobsFit, ToSuspend
        <3> QED BY <1>3, <2>2, <3>1, <3>2 DEF MindedMove
    <2> QED BY <1>3, <2>2, <2>5, <2>6 DEF MindedMove
<1> QED BY <1>1, <1>2, <1>3 DEF JobsFit, PlacesMinded

\* An agent that has done its first step has the others still to do ...
LEMMA ShrunkKeepsOthers ==
    ASSUME TodoType, NEW a \in Agent, Shrunk(a), NEW c \in Agent, NEW duty, NEW b,
           Has(c, duty, b), c # a \/ todo[a][1].do # duty \/ todo[a][1].of # b
    PROVE  Has(c, duty, b)'
<1>1. Len(todo[a]) \in Nat
    BY LenProperties DEF TodoType
<1>2. CASE c = a
    <2>1. PICK i \in Steps(a) : todo[a][i].do = duty /\ todo[a][i].of = b
        BY <1>2 DEF Has
    <2>2. i - 1 \in Steps(a)' /\ todo'[a][i - 1] = todo[a][i]
        BY <1>1, <1>2, <2>1 DEF Shrunk, Steps
    <2> QED BY <1>2, <2>1, <2>2 DEF Has
<1>3. CASE c # a
    BY <1>3 DEF Has, Steps, Shrunk
<1> QED BY <1>2, <1>3

\* ... and so has one that has another step in place of it, and that step.
LEMMA ReplacedKeepsOthers ==
    ASSUME TodoType, NEW a \in Agent, NEW step, Replaced(a, step)
    PROVE  /\ Has(a, step.do, step.of)'
           /\ \A c \in Agent : \A duty, b :
                 Has(c, duty, b) /\ (c # a \/ todo[a][1].do # duty \/ todo[a][1].of # b)
                     => Has(c, duty, b)'
<1>1. Len(todo[a]) \in Nat
    BY LenProperties DEF TodoType
<1>2. 1 \in Steps(a)' /\ todo'[a][1] = step
    BY <1>1 DEF Replaced, Steps
<1>3. ASSUME NEW c \in Agent, NEW duty, NEW b, Has(c, duty, b),
             c # a \/ todo[a][1].do # duty \/ todo[a][1].of # b
      PROVE  Has(c, duty, b)'
    <2>1. CASE c = a
        <3>1. PICK i \in Steps(a) : todo[a][i].do = duty /\ todo[a][i].of = b
            BY <1>3, <2>1 DEF Has
        <3>2. i \in Steps(a)' /\ todo'[a][i] = todo[a][i]
            BY <1>1, <1>3, <2>1, <3>1 DEF Replaced, Steps
        <3> QED BY <2>1, <3>1, <3>2 DEF Has
    <2>2. CASE c # a
        BY <1>3, <2>2 DEF Has, Steps, Replaced
    <2> QED BY <2>1, <2>2
<1> QED BY <1>2, <1>3 DEF Has

\* Who is about to create a Job has that to do first.
LEMMA ToCreateMeans ==
    ASSUME TodoType, StepsFit, NEW b \in Build
    PROVE  ToCreate(b) <=> \E a \in Agent : \E duty \in Creating : Has(a, duty, b)
<1>1. ASSUME ToCreate(b) PROVE \E a \in Agent : \E duty \in Creating : Has(a, duty, b)
    BY <1>1, DoingFirst DEF ToCreate, Creating
<1>2. ASSUME NEW a \in Agent, NEW duty \in Creating, Has(a, duty, b) PROVE ToCreate(b)
    <2>1. PICK i \in Steps(a) : todo[a][i].do = duty /\ todo[a][i].of = b
        BY <1>2 DEF Has
    <2>2. i = 1
        BY <2>1 DEF StepsFit, StepFits
    <2>3. todo[a] # <<>> /\ Head(todo[a]) = todo[a][1]
        BY <2>1, EmptySeq DEF Steps, TodoType
    <2> QED BY <2>1, <2>2, <2>3 DEF ToCreate, Doing, Creating
<1> QED BY <1>1, <1>2

\* A step that creates no Job and gives no place, and after which the worker
\* still minds what it minded.
LEMMA NothingToMind ==
    ASSUME NEW b \in Build, NEW a \in Agent, NEW new, NewStepsOf(a, new),
           \A duty \in Creating : <<duty, b>> \notin new,
           job'[b] = job[b] \/ job'[b] = "none"
              \/ (job[b] # "none" /\ job'[b] # "suspended"),
           record'[b] = "none" <=> record[b] = "none",
           record'[b] = "building" => record[b] = "building",
           Minds(b) /\ record'[b] = "building" =>
              Minds(b)' \/ (job[b] # "none" /\ job'[b] # "suspended")
    PROVE  MindedMove(b)
<1>1. ASSUME NEW c \in Agent, NEW duty \in Creating, Has(c, duty, b)'
      PROVE  Has(c, duty, b) /\ (job'[b] = "none" \/ job[b] # "none")
    BY <1>1 DEF NewStepsOf, Creating, Duties, StartDuties
<1>2. job'[b] = "suspended" => job[b] = "suspended"
    OBVIOUS
<1> QED BY <1>1, <1>2 DEF MindedMove

\* What a request takes up is nothing the worker minds; the worker takes up
\* something new when it has nothing to do.
LEMMA BeginMinded ==
    ASSUME StepsInv,
           \/ \E a \in Request :
                 \/ \E b \in Build : Start(a, b) \/ Cancel(a, b) \/ StartFails(a, b)
                 \/ \E s \in Session : Stop(a, s) \/ Watch(a, s)
           \/ \E a \in Agent : Crash(a)
           \/ \E b \in Build : Maintain(b),
           NEW d \in Build
    PROVE  MindedMove(d)
<1> USE DEF StepsInv
<1>1. Worker \in Agent /\ \A a \in Request : a \in Agent /\ a # Worker
    BY PreviewAssumption DEF Agent
<1>2. UNCHANGED <<record, job>>
    BY DEF Start, Cancel, StartFails, Stop, Watch, Crash, Maintain, Expire, Check, rows
<1>3. ASSUME NEW a \in Agent, NEW new, NewStepsOf(a, new), NEW steps \in Seq(Step),
             Instead(a, steps), a # Worker \/ todo[Worker] = <<>>,
             \A duty \in Creating : <<duty, d>> \notin new
      PROVE  MindedMove(d)
    <2>1. Minds(d) => Minds(d)'
        <3>1. CASE a # Worker
            <4>1. todo'[Worker] = todo[Worker]
                BY <1>1, <1>3, <3>1, InsteadSets
            <4> QED BY <4>1 DEF Minds, Has, Steps
        <3>2. CASE todo[Worker] = <<>>
            BY <3>2 DEF Minds, Has, Steps
        <3> QED BY <1>3, <3>1, <3>2
    <2> QED BY <1>2, <1>3, <2>1, NothingToMind
<1>4. ASSUME NEW a \in Agent, NEW b \in Build, a # Worker \/ todo[Worker] = <<>>,
             \/ Instead(a, <<>>) \/ Instead(a, EndSteps(b))
             \/ Instead(a, <<Act("delete_job", b)>>)
             \/ \E status \in Finished : Instead(a, <<Finish(b, status)>>)
      PROVE  MindedMove(d)
    <2> DEFINE new == {<<"delete_job", b>>, <<"finish", b>>}
    <2>1. \A duty \in Creating : <<duty, d>> \notin new
        BY DEF Creating
    <2>2. \A status \in Finished :
              Act("delete_job", b) \in Step /\ Finish(b, status) \in Step
        BY DEF Act, Finish, Step, Duties
    <2>3. CASE Instead(a, <<>>)
        <3>1. NewStepsOf(a, {})
            BY <2>3, InsteadNothing
        <3>2. NewStepsOf(a, new)
            BY <3>1 DEF NewStepsOf
        <3>3. <<>> \in Seq(Step)
            BY EmptySeq
        <3> HIDE DEF new
        <3> QED BY <1>3, <1>4, <2>1, <2>3, <3>2, <3>3
    <2>4. CASE Instead(a, EndSteps(b))
        <3>1. NewStepsOf(a, new)
            BY <2>4, InsteadEnds
        <3>2. EndSteps(b) \in Seq(Step)
            BY DEF EndSteps, Act, Finish, Step, Duties, Finished
        <3> HIDE DEF new
        <3> QED BY <1>3, <1>4, <2>1, <2>4, <3>1, <3>2
    <2>5. ASSUME NEW step \in Step, Instead(a, <<step>>), step.of = b,
                 \/ step.do = "delete_job"
                 \/ step.do = "finish" /\ step.to \in Finished
          PROVE  MindedMove(d)
        <3>1. NewStepsOf(a, {<<step.do, step.of>>})
            BY <2>5, InsteadOne DEF Ending
        <3>2. NewStepsOf(a, new)
            BY <2>5, <3>1 DEF NewStepsOf
        <3>3. <<step>> \in Seq(Step)
            OBVIOUS
        <3> HIDE DEF new
        <3> QED BY <1>3, <1>4, <2>1, <2>5, <3>2, <3>3
    <2>6. CASE Instead(a, <<Act("delete_job", b)>>)
        <3> DEFINE step == Act("delete_job", b)
        <3>1. step \in Step /\ step.of = b /\ step.do = "delete_job" /\ Instead(a, <<step>>)
            BY <2>6 DEF Act, Step, Duties
        <3> HIDE DEF step
        <3> QED BY <2>5, <3>1
    <2>7. ASSUME NEW status \in Finished, Instead(a, <<Finish(b, status)>>)
          PROVE  MindedMove(d)
        <3> DEFINE step == Finish(b, status)
        <3>1. /\ step \in Step /\ step.of = b /\ step.do = "finish" /\ step.to \in Finished
              /\ Instead(a, <<step>>)
            BY <2>7 DEF Finish, Step, Duties
        <3> HIDE DEF step
        <3> QED BY <2>5, <3>1
    <2> QED BY <1>4, <2>3, <2>4, <2>6, <2>7
<1>5. ASSUME NEW a \in Request, NEW b \in Build, Start(a, b) PROVE MindedMove(d)
    <2> DEFINE old == preview[SessionOf[b]]
               new == {<<"reserve", b>>} \cup
                         IF old = None THEN {} ELSE {<<"delete_job", old>>, <<"finish", old>>}
               steps == (IF old = None THEN <<>> ELSE EndSteps(old)) \o <<Act("reserve", b)>>
    <2>1. Instead(a, steps) /\ SessionOf[b] \in Session
        BY <1>5 DEF Start, Session
    <2>2. old # None => old \in Build
        BY <2>1 DEF PreviewType
    <2>3. steps \in Seq(Step)
        <3>1. old # None => EndSteps(old) \in Seq(Step)
            BY <2>2 DEF EndSteps, Act, Finish, Step, Duties, Finished
        <3>2. <<Act("reserve", b)>> \in Seq(Step)
            BY DEF Act, Step, Duties, StartDuties
        <3> DEFINE first == IF old = None THEN <<>> ELSE EndSteps(old)
                   last == <<Act("reserve", b)>>
        <3>3. first \in Seq(Step) /\ last \in Seq(Step)
            BY <3>1, <3>2, EmptySeq
        <3> HIDE DEF first, last
        <3>4. first \o last \in Seq(Step)
            BY <3>3, ConcatProperties
        <3> QED BY <3>4 DEF first, last
    <2>4. NewStepsOf(a, new)
        <3> HIDE DEF old
        <3> QED BY <2>1, <2>2, StartSets
    <2>5. \A duty \in Creating : <<duty, d>> \notin new
        BY DEF Creating
    <2> HIDE DEF steps, new
    <2> QED BY <1>1, <1>3, <2>1, <2>3, <2>4, <2>5
<1>6. ASSUME NEW a \in Request, NEW b \in Build, Cancel(a, b) PROVE MindedMove(d)
    BY <1>1, <1>4, <1>6 DEF Cancel
<1>7. ASSUME NEW a \in Request, NEW b \in Build, StartFails(a, b) PROVE MindedMove(d)
    BY <1>1, <1>4, <1>7 DEF StartFails, Undo, Finished
<1>8. ASSUME NEW a \in Request, NEW s \in Session, Stop(a, s) \/ Watch(a, s)
      PROVE  MindedMove(d)
    <2>1. preview[s] \in Build
        BY <1>8 DEF Stop, Watch, PreviewType
    <2> QED BY <1>1, <1>4, <1>8, <2>1 DEF Stop, Watch, Verdict, Finished
<1>9. ASSUME NEW a \in Agent, Crash(a) PROVE MindedMove(d)
    <2>1. Instead(a, <<>>)
        BY <1>9 DEF Crash
    <2>2. CASE a # Worker
        BY <1>4, <2>1, <2>2
    <2>3. CASE a = Worker
        <3>1. NewStepsOf(Worker, {})
            BY <1>1, <2>1, <2>3, InsteadNothing
        <3>2. ASSUME NEW c \in Agent, NEW duty \in Creating, Has(c, duty, d)'
              PROVE  Has(c, duty, d) /\ duty \in {"create_job", "create_suspended"}
            BY <3>1, <3>2 DEF NewStepsOf, Creating, Duties, StartDuties
        <3>3. ASSUME Minds(d), record'[d] = "building", job'[d] = "suspended" \/ ToSuspend(d)'
              PROVE  d \in orphaned'
            <4>1. Head(todo[Worker]).of = d
                <5>1. PICK i \in Steps(Worker) : todo[Worker][i].do \in Minding /\ todo[Worker][i].of = d
                    BY <3>3 DEF Minds, Has
                <5>2. todo[Worker] # <<>> /\ Head(todo[Worker]) = todo[Worker][1]
                    BY <1>1, <5>1, EmptySeq DEF Steps, TodoType
                <5>3. i = 1 \/ todo[Worker][1].of = d
                    BY <1>1, <5>1 DEF StepsFit, StepFits, Minding
                <5> QED BY <5>1, <5>2, <5>3
            <4>2. job[d] = "suspended" \/ ToCreate(d)
                <5>1. CASE ToSuspend(d)'
                    <6>1. PICK c \in Agent : Has(c, "create_suspended", d)'
                        BY <5>1 DEF ToSuspend
                    <6>2. Has(c, "create_suspended", d)
                        BY <3>2, <6>1 DEF Creating
                    <6> QED BY <6>2, ToCreateMeans DEF Creating
                <5> QED BY <1>2, <3>3, <5>1
            <4>3. d \in LeftBehind
                BY <1>2, <3>3, <4>1, <4>2 DEF LeftBehind
            <4> QED BY <1>9, <2>3, <4>3 DEF Crash
        <3> QED BY <1>2, <3>2, <3>3 DEF MindedMove
    <2> QED BY <2>2, <2>3
<1>10. ASSUME NEW b \in Build, Maintain(b) PROVE MindedMove(d)
    BY <1>1, <1>4, <1>10 DEF Maintain, Expire, Check, Verdict, Finished
<1> QED BY <1>5, <1>6, <1>7, <1>8, <1>9, <1>10

\* A reservation gives a place to a Job that is created running, or none.
LEMMA ReserveMinded ==
    ASSUME StepsInv, RecordType, NEW a \in Agent, NEW b \in Build, Reserve(a, b),
           NEW d \in Build
    PROVE  MindedMove(d)
<1> DEFINE new == {<<"create_job", b>>, <<"create_suspended", b>>, <<"save", b>>}
<1>1. /\ a \in Request /\ NewStepsOf(a, new)
      /\ Has(a, "create_suspended", b)' => ~HasRoom(b)
    BY ReserveSets DEF StepsInv
<1>2. /\ record[b] = "none" /\ record'[b] = Reserved(b)
      /\ \A e \in Build \ {b} : record'[e] = record[e]
    BY ReserveFits
<1>3. a # Worker /\ job' = job
    BY <1>1, PreviewAssumption DEF Reserve
<1>4. todo'[Worker] = todo[Worker]
    BY <1>3 DEF Reserve, Then, StepsInv, TodoType, Agent
<1>5. Minds(d) => Minds(d)'
    BY <1>4 DEF Minds, Has, Steps
<1>6. CASE d = b
    <2>1. ASSUME NEW c \in Agent, NEW duty \in Creating, Has(c, duty, b)'
          PROVE  duty = "create_suspended" => record'[b] = "queued"
        <3>1. CASE Has(c, duty, b)
            BY <1>2, <3>1 DEF StepsInv, RecordsFit, Creating, Duties, StartDuties
        <3>2. CASE c = a /\ duty = "create_suspended"
            BY <1>1, <1>2, <2>1, <3>2 DEF Reserved
        <3> QED BY <1>1, <2>1, <3>1, <3>2 DEF NewStepsOf, Creating, Duties, StartDuties
    <2>2. record'[b] # "none"
        BY <1>2 DEF Reserved
    <2> QED BY <1>2, <1>3, <1>5, <1>6, <2>1, <2>2 DEF MindedMove
<1>7. CASE d # b
    <2>1. \A duty \in Creating : <<duty, d>> \notin new
        BY <1>7
    <2> HIDE DEF new
    <2>2. record'[d] = record[d]
        BY <1>2, <1>7
    <2> QED BY <1>1, <1>3, <1>5, <2>1, <2>2, NothingToMind
<1> QED BY <1>6, <1>7

\* The first steps that are done: the Job is created or deleted, the instance saved.
LEMMA JobStepsMinded ==
    ASSUME StepsInv, JobType, JobsFit, NEW a \in Agent, NEW b \in Build,
           Save(a, b) \/ CreateJob(a, b) \/ DeleteJob(a, b), NEW d \in Build
    PROVE  MindedMove(d)
<1>1. PICK duty \in {"save", "create_job", "create_suspended", "delete_job"} :
          /\ Doing(a, duty, b)
          /\ \A e \in Build \ {b} : job'[e] = job[e]
          /\ duty = "save" => job' = job
          /\ duty = "create_job" => job'[b] = "running"
          /\ duty = "create_suspended" => job'[b] = "suspended"
          /\ duty = "delete_job" => job'[b] \in {job[b], "none"}
    BY DEF Save, CreateJob, Created, DeleteJob, JobType
<1>2. /\ todo[a] # <<>> /\ 1 \in Steps(a) /\ todo[a][1].do = duty /\ todo[a][1].of = b
      /\ Has(a, duty, b)
    BY <1>1, DoingFirst DEF StepsInv
<1>3. Done(a) /\ record' = record
    BY DEF Save, CreateJob, DeleteJob, rows
<1>4. Shrunk(a)
    BY <1>2, <1>3, DoneShrinks DEF StepsInv
<1>5. NewStepsOf(a, {})
    BY <1>4, ShrunkHas DEF StepsInv
<1>6. Worker \in Agent
    BY DEF Agent
<1>7. Minds(d) => Minds(d)'
    BY <1>2, <1>4, <1>6, ShrunkKeepsOthers DEF Minds, Minding, StepsInv
<1>8. CASE d = b /\ duty \in Creating
    <2>1. duty \in StartDuties \ {"reserve"} /\ duty \in Duties
        BY <1>8 DEF Creating, StartDuties, Duties
    <2>2. record[b] # "none" /\ job[b] = "none"
        BY <1>2, <1>8, <2>1 DEF StepsInv, RecordsFit, JobsFit
    <2>3. ASSUME NEW c \in Agent, NEW other \in Creating, Has(c, other, b)' PROVE FALSE
        <3>1. other \in Duties /\ other \in StartDuties
            BY DEF Creating, StartDuties, Duties
        <3>2. Has(c, other, b)
            BY <1>5, <2>3, <3>1 DEF NewStepsOf
        <3>3. c = a
            BY <1>2, <2>1, <3>1, <3>2 DEF StepsInv, RecordsFit
        <3>4. PICK i \in Steps(a)' : todo'[a][i].do = other
            BY <2>3, <3>3 DEF Has
        <3>5. i + 1 \in Steps(a) /\ todo[a][i + 1].do = other /\ i \in Nat \ {0}
            <4>1. Len(todo[a]) \in Nat
                BY LenProperties DEF StepsInv, TodoType
            <4> QED BY <1>4, <3>4, <4>1 DEF Shrunk, Steps
        <3>6. i + 1 = 1
            BY <3>5 DEF StepsInv, StepsFit, StepFits
        <3> QED BY <3>5, <3>6
    <2>4. "create_suspended" = duty => ToSuspend(b)
        BY <1>2 DEF ToSuspend
    <2>5. job'[b] = "suspended" => ToSuspend(b)
        BY <1>1, <1>8, <2>4 DEF Creating
    <2> QED BY <1>3, <1>7, <1>8, <2>2, <2>3, <2>5 DEF MindedMove
<1>9. CASE ~(d = b /\ duty \in Creating)
    <2>1. job'[d] = job[d] \/ job'[d] = "none"
        BY <1>1, <1>9 DEF Creating
    <2> QED BY <1>3, <1>5, <1>7, <2>1, NothingToMind
<1> QED BY <1>8, <1>9

\* A build is ended once the record says so; until then its end is minded.
LEMMA FinishMinded ==
    ASSUME StepsInv, RecordType, NEW a \in Agent, NEW b \in Build,
           FinishLooks(a, b) \/ FinishWrites(a, b), NEW d \in Build
    PROVE  MindedMove(d)
<1>1. /\ job' = job /\ record[b] # "none" /\ record'[b] \in Finished \cup {record[b]}
      /\ \A e \in Build \ {b} : record'[e] = record[e]
    BY FinishFits
<1>2. Worker \in Agent /\ record'[b] # "none"
    BY <1>1 DEF Agent, Finished
<1>3. PICK duty \in Ending : Doing(a, duty, b)
    BY DEF FinishLooks, FinishWrites, Ending
<1>4. /\ todo[a] # <<>> /\ 1 \in Steps(a) /\ todo[a][1] \in Step /\ Has(a, duty, b)
      /\ todo[a][1].do = duty /\ todo[a][1].of = b /\ todo[a][1].to \in Finished
      /\ Head(todo[a]) = todo[a][1]
    BY <1>3, DoingFirst DEF StepsInv, StepsFit, StepFits, TodoType
<1>5. CASE Done(a) /\ record'[b] \in Finished
    <2>1. Shrunk(a)
        BY <1>4, <1>5, DoneShrinks DEF StepsInv
    <2>2. NewStepsOf(a, {})
        BY <2>1, ShrunkHas DEF StepsInv
    <2>3. Minds(d) /\ record'[d] = "building" => Minds(d)'
        <3>1. record'[d] = "building" => d # b
            BY <1>5 DEF Finished
        <3> QED BY <1>2, <1>4, <2>1, <3>1, ShrunkKeepsOthers DEF Minds, StepsInv
    <2>4. record'[d] = "building" => record[d] = "building"
        BY <1>1, <1>5 DEF Finished
    <2> QED BY <1>1, <1>2, <2>2, <2>3, <2>4, NothingToMind
<1>6. CASE Then(a, <<[todo[a][1] EXCEPT !.do = "write"]>>) /\ record' = record
    <2> DEFINE step == [todo[a][1] EXCEPT !.do = "write"]
    <2>1. /\ step \in Step /\ step.do = "write" /\ step.of = b /\ step.to \in Finished
          /\ Then(a, <<step>>)
        BY <1>4, <1>6 DEF Step, Duties
    <2> HIDE DEF step
    <2>2. Replaced(a, step) /\ todo[a][1].do # "delete_job"
        BY <1>4, <2>1, ThenReplaces DEF StepsInv, Ending
    <2>3. NewStepsOf(a, {<<"write", b>>})
        BY <2>1, <2>2, ReplacedHas DEF StepsInv, Ending
    <2>4. Minds(d) => Minds(d)'
        <3>1. ASSUME NEW other \in Minding, Has(Worker, other, d) PROVE Minds(d)'
            <4>1. CASE Worker # a \/ duty # other \/ b # d
                BY <1>2, <1>4, <2>2, <3>1, <4>1, ReplacedKeepsOthers DEF Minds, StepsInv
            <4>2. CASE Worker = a /\ b = d
                <5>1. Has(a, "write", b)'
                    BY <2>1, <2>2, ReplacedKeepsOthers DEF StepsInv
                <5> QED BY <4>2, <5>1 DEF Minds, Minding
            <4> QED BY <4>1, <4>2
        <3> QED BY <3>1 DEF Minds
    <2>5. \A other \in Creating : <<other, d>> \notin {<<"write", b>>}
        BY DEF Creating
    <2> QED BY <1>1, <1>6, <2>3, <2>4, <2>5, NothingToMind
<1>7. CASE FinishLooks(a, b)
    <2>1. record' = record
        BY <1>7 DEF FinishLooks, rows
    <2>2. record[b] \in Finished \/ record[b] \in Unfinished
        BY <1>1 DEF RecordType
    <2>3. \/ Done(a) /\ record'[b] \in Finished
          \/ Then(a, <<[todo[a][1] EXCEPT !.do = "write"]>>)
        BY <1>4, <1>7, <2>1, <2>2 DEF FinishLooks, Done
    <2> QED BY <1>5, <1>6, <2>1, <2>3
<1>8. CASE FinishWrites(a, b)
    <2>1. Done(a) /\ record'[b] \in Finished
        BY <1>4, <1>8 DEF FinishWrites, RecordType
    <2> QED BY <1>5, <2>1
<1> QED BY <1>7, <1>8

\* The worker gives a place and minds it.
LEMMA DispatchMinded ==
    ASSUME StepsInv, RecordType, NEW b \in Build, Dispatch(b), NEW d \in Build
    PROVE  MindedMove(d)
<1> DEFINE step == Act("resume", b)
<1>1. /\ job' = job /\ record[b] = "queued" /\ record'[b] = "building"
      /\ \A e \in Build \ {b} : record'[e] = record[e]
    BY DispatchFits
<1>2. /\ todo[Worker] = <<>> /\ Worker \in Agent /\ step \in Step /\ step.do = "resume"
      /\ step.of = b /\ Instead(Worker, <<step>>)
    BY DEF Dispatch, Act, Step, Duties, Agent
<1> HIDE DEF step
<1>3. NewStepsOf(Worker, {<<"resume", b>>}) /\ Has(Worker, "resume", b)'
    BY <1>2, InsteadOne DEF StepsInv
<1>4. ~Minds(d)
    BY <1>2 DEF Minds, Has, Steps
<1>5. CASE d = b
    <2>1. Minds(b)'
        BY <1>3 DEF Minds, Minding
    <2>2. \A c \in Agent, duty \in Creating : Has(c, duty, b)' => Has(c, duty, b)
        BY <1>3 DEF NewStepsOf, Creating, Duties, StartDuties
    <2>3. \A c \in Agent, duty \in Creating : Has(c, duty, b)' =>
              Has(c, duty, b) /\ (job'[b] = "none" \/ job[b] # "none")
        BY <1>1, <2>2
    <2> QED BY <1>1, <1>5, <2>1, <2>3 DEF MindedMove
<1>6. CASE d # b
    <2>1. \A duty \in Creating : <<duty, d>> \notin {<<"resume", b>>}
        BY <1>6
    <2> QED BY <1>1, <1>2, <1>3, <1>4, <1>6, <2>1, NothingToMind
<1> QED BY <1>5, <1>6

\* The worker resumes a Job that is there, or minds the end of the build.
LEMMA ResumeMinded ==
    ASSUME StepsInv, JobType, NEW b \in Build, Resume(b), NEW d \in Build
    PROVE  MindedMove(d)
<1>1. /\ Worker \in Agent /\ todo[Worker] # <<>> /\ 1 \in Steps(Worker)
      /\ todo[Worker][1].do = "resume" /\ todo[Worker][1].of = b
    BY DoingFirst DEF Resume, Agent, StepsInv
<1>2. Len(todo[Worker]) = 1
    BY <1>1 DEF StepsInv, StepsFit, StepFits
<1>3. Minds(d) => d = b
    BY <1>1, <1>2 DEF Minds, Has, Steps
<1>4. /\ record' = record /\ \A e \in Build \ {b} : job'[e] = job[e]
      /\ job'[b] = job[b] \/ (job[b] # "none" /\ job'[b] # "suspended")
    BY DEF Resume, rows, JobType
<1>5. CASE Done(Worker) /\ job[b] # "none" /\ job'[b] # "suspended"
    <2>1. NewStepsOf(Worker, {})
        <3>1. Shrunk(Worker)
            BY <1>1, <1>5, DoneShrinks DEF StepsInv
        <3> QED BY <1>1, <3>1, ShrunkHas DEF StepsInv
    <2> QED BY <1>1, <1>3, <1>4, <1>5, <2>1, NothingToMind
<1>6. CASE Then(Worker, <<Finish(b, "failed")>>)
    <2> DEFINE step == Finish(b, "failed")
    <2>1. step \in Step /\ step.do = "finish" /\ step.of = b /\ step.to \in Finished
          /\ Then(Worker, <<step>>)
        BY <1>6 DEF Finish, Step, Duties, Finished
    <2> HIDE DEF step
    <2>2. Replaced(Worker, step)
        BY <1>1, <2>1, ThenReplaces DEF StepsInv
    <2>3. NewStepsOf(Worker, {<<"finish", b>>})
        BY <1>1, <2>1, <2>2, ReplacedHas DEF StepsInv, Ending
    <2>4. Minds(b)'
        BY <1>1, <2>1, <2>2, ReplacedKeepsOthers DEF StepsInv, Minds, Minding
    <2>5. \A duty \in Creating : <<duty, d>> \notin {<<"finish", b>>}
        BY DEF Creating
    <2>6. Minds(d) => Minds(d)'
        BY <1>3, <2>4
    <2>7. job'[d] = job[d] \/ (job[d] # "none" /\ job'[d] # "suspended")
        BY <1>4
    <2> QED BY <1>1, <1>4, <2>3, <2>5, <2>6, <2>7, NothingToMind
<1>7. \/ Then(Worker, <<Finish(b, "failed")>>)
      \/ Then(Worker, <<>>) /\ job[b] # "none" /\ job'[b] # "suspended"
    BY DEF Resume, JobType
<1> QED BY <1>5, <1>6, <1>7 DEF Done

\* The Job is created by the one who had to, who has to end the build then.
LEMMA CreateLostMinded ==
    ASSUME StepsInv, JobType, JobsFit, NEW a \in Request, NEW b \in Build, CreateLost(a, b),
           NEW d \in Build
    PROVE  MindedMove(d)
<1> DEFINE step == Finish(b, "failed")
<1>1. PICK duty \in Creating :
          /\ Doing(a, duty, b)
          /\ \A e \in Build \ {b} : job'[e] = job[e]
          /\ duty = "create_job" => job'[b] = "running"
          /\ duty = "create_suspended" => job'[b] = "suspended"
    BY DEF CreateLost, Created, Creating, JobType
<1>2. a \in Agent /\ a # Worker /\ record' = record
    BY PreviewAssumption DEF Agent, CreateLost, rows
<1>3. Has(a, duty, b) /\ duty \in StartDuties /\ duty \in Duties \ {"reserve"}
    BY <1>1, <1>2, DoingFirst DEF StepsInv, Creating, StartDuties, Duties
<1>4. step \in Step /\ step.do = "finish" /\ step.of = b /\ step.to \in Finished
      /\ Instead(a, <<step>>)
    BY DEF CreateLost, Finish, Step, Duties, Finished
<1> HIDE DEF step
<1>5. /\ NewStepsOf(a, {<<"finish", b>>})
      /\ \A other, e : Has(a, other, e)' <=> other = "finish" /\ e = b
    BY <1>2, <1>4, InsteadOne DEF StepsInv, Ending
<1>6. Minds(d) => Minds(d)'
    <2>1. <<step>> \in Seq(Step)
        BY <1>4
    <2>2. todo'[Worker] = todo[Worker]
        BY <1>2, <1>4, <2>1, InsteadSets DEF StepsInv, Agent
    <2> QED BY <2>2 DEF Minds, Has, Steps
<1>7. \A other \in Creating : <<other, d>> \notin {<<"finish", b>>}
    BY DEF Creating
<1>8. CASE d # b
    BY <1>1, <1>2, <1>5, <1>6, <1>7, <1>8, NothingToMind
<1>9. CASE d = b
    <2>1. record[b] # "none" /\ job[b] = "none"
        BY <1>2, <1>3 DEF StepsInv, RecordsFit, JobsFit
    <2>2. ASSUME NEW c \in Agent, NEW other \in Creating, Has(c, other, b)' PROVE FALSE
        <3>1. other \in StartDuties /\ other \in Duties /\ other # "finish"
            BY DEF Creating, StartDuties, Duties
        <3>2. c # a
            BY <1>5, <2>2, <3>1
        <3>3. Has(c, other, b)
            BY <1>5, <2>2, <3>1, <3>2 DEF NewStepsOf
        <3> QED BY <1>2, <1>3, <3>1, <3>2, <3>3 DEF StepsInv, RecordsFit
    <2>3. job'[b] = "suspended" => ToSuspend(b)
        BY <1>1, <1>2, <1>3 DEF Creating, ToSuspend
    <2> QED BY <1>2, <1>6, <1>9, <2>1, <2>2, <2>3 DEF MindedMove
<1> QED BY <1>8, <1>9

\* Every step minds the places, but those of a worker that dies.
LEMMA NextMinded ==
    ASSUME RecordInv, JobsFit, PlacesMinded, [Next]_vars
    PROVE  JobsFit' /\ PlacesMinded'
<1>1. StepsInv /\ RecordType /\ JobType /\ RecordsFit
    BY TypeParts DEF RecordInv, StepsInv
<1>2. CASE UNCHANGED vars
    <2>1. \A a, duty, b : Has(a, duty, b)' <=> Has(a, duty, b)
        BY <1>2 DEF vars, Has, Steps
    <2>2. record' = record /\ job' = job
        BY <1>2 DEF vars
    <2>3. orphaned' = orphaned
        BY <1>2 DEF vars
    <2> QED BY <2>1, <2>2, <2>3 DEF JobsFit, PlacesMinded, Minds, ToSuspend
<1>3. ASSUME Next, NEW d \in Build PROVE MindedMove(d)
    <2>1. ASSUME NEW b \in Build, JobEnds(b) PROVE MindedMove(d)
        <3>1. /\ UNCHANGED <<record, todo>>
              /\ job'[d] = job[d] \/ (job[d] # "none" /\ job'[d] # "suspended")
            BY <1>1, <2>1 DEF JobEnds, rows, JobType
        <3>2. Worker \in Agent /\ NewStepsOf(Worker, {}) /\ (Minds(d) => Minds(d)')
            BY <3>1 DEF Agent, NewStepsOf, Minds, Has, Steps
        <3> QED BY <3>1, <3>2, NothingToMind
    <2>2. ASSUME NEW a \in Agent, NEW b \in Build, Work(a, b) PROVE MindedMove(d)
        BY <1>1, <2>2, ReserveMinded, JobStepsMinded, FinishMinded DEF Work
    <2>3. ASSUME NEW b \in Build, Dispatch(b) \/ Resume(b) PROVE MindedMove(d)
        BY <1>1, <2>3, DispatchMinded, ResumeMinded
    <2>4. ASSUME NEW a \in Request, NEW b \in Build, CreateLost(a, b) PROVE MindedMove(d)
        BY <1>1, <2>4, CreateLostMinded
    <2> QED BY <1>1, <1>3, <2>1, <2>2, <2>3, <2>4, BeginMinded DEF Next
<1> QED BY <1>1, <1>2, <1>3, HistoryGrows, MindedMoveKeeps

\* At first nobody has anything to do.
LEMMA InitMinded == Init => JobsFit /\ PlacesMinded
<1> SUFFICES ASSUME Init PROVE JobsFit /\ PlacesMinded
    OBVIOUS
<1>1. \A a \in Agent : \A duty, b : ~Has(a, duty, b)
    BY InitRecordInv DEF Has
<1> QED BY <1>1 DEF Init, JobsFit, PlacesMinded

\* The Jobs fit the records and the places are minded, under every event.
LEMMA JobsFitAlways == Spec => [](JobsFit /\ PlacesMinded)
<1>1. JobsFit /\ PlacesMinded /\ RecordInv /\ [Next]_vars => (JobsFit /\ PlacesMinded)'
    BY NextMinded
<1> QED BY <1>1, InitMinded, RecordInvAlways, PTL DEF Spec

\* The safety half of BuildEnds: but for the places that the worker had given
\* when it died, a place is never left with a suspended Job.  The worker has
\* still to resume the Job or to end the build, whatever requests,
\* cancellations, stops, errors, lost calls and crashes come in between
\* (dispatchQueued).
THEOREM PlacesComeBack ==
    Spec => [](\A b \in Build \ orphaned :
        record[b] = "building" /\ job[b] = "suspended" => Minds(b))
<1>1. PlacesMinded => \A b \in Build \ orphaned :
          record[b] = "building" /\ job[b] = "suspended" => Minds(b)
    BY DEF PlacesMinded
<1> QED BY <1>1, JobsFitAlways, PTL

-------------------------------------------------------------------------------
(* The Jobs that run have places *)

(***************************************************************************)
(* A Job runs, or is about to be created running, only while its record    *)
(* holds a place.  Before the record of a build is ended its Job is dead:  *)
(* it does not run and never will; the worker may also end a build whose   *)
(* Job is suspended, or yet to be created so, as only the worker resumes   *)
(* Jobs.  That holds of every build but those that have gone astray.       *)
(***************************************************************************)
ToRun(b) == \E a \in Agent : Has(a, "create_job", b)
Dead(b) ==
    /\ job[b] \notin {"suspended", "running"}
    /\ \A a \in Agent, duty \in Creating : ~Has(a, duty, b)

BuildFits(b) ==
    /\ job[b] = "running" \/ ToRun(b) => record[b] = "building"
    /\ \A a \in Agent : Ends(a, b) =>
          Dead(b) \/ (a = Worker /\ job[b] # "running" /\ ~ToRun(b))
    /\ Has(Worker, "resume", b) => ~ToRun(b) /\ (record[b] = "building" \/ Dead(b))

BuildsFit == \A b \in Build \ astray : BuildFits(b)

\* A step that creates, deletes and resumes no Job of b and leaves its record,
\* and after which nobody new ends b but with its Job dead, or the worker.
LEMMA CalmFits ==
    ASSUME NEW b \in Build, BuildFits(b), NEW a \in Agent, NEW new, NewStepsOf(a, new),
           \A duty \in Creating \cup {"resume"} : <<duty, b>> \notin new,
           record'[b] = record[b],
           job'[b] = job[b] \/ (job[b] = "running" /\ job'[b] \in {"complete", "failed"}),
           \A c \in Agent : Ends(c, b)' => Ends(c, b) \/ Dead(b)'
    PROVE  BuildFits(b)'
<1>1. ASSUME NEW c \in Agent, NEW duty \in Creating \cup {"resume"}, Has(c, duty, b)'
      PROVE  Has(c, duty, b)
    BY <1>1 DEF NewStepsOf, Creating, Duties, StartDuties
<1>2. ToRun(b)' => ToRun(b)
    BY <1>1 DEF ToRun, Creating
<1>3. Dead(b) => Dead(b)'
    BY <1>1 DEF Dead
<1>4. Has(Worker, "resume", b)' => Has(Worker, "resume", b)
    BY <1>1 DEF Agent
<1>5. job'[b] = "running" => job[b] = "running"
    OBVIOUS
<1>6. \A c \in Agent : Ends(c, b)' =>
          Dead(b)' \/ (c = Worker /\ job'[b] # "running" /\ ~ToRun(b)')
    BY <1>2, <1>3, <1>5 DEF BuildFits
<1> QED BY <1>2, <1>3, <1>4, <1>5, <1>6 DEF BuildFits

\* An agent takes up the end of a build, of which the Job is deleted first or
\* dead, or nothing; the record and the Jobs of others stay.
LEMMA EndTaken ==
    ASSUME StepsInv, NEW a \in Agent, NEW b \in Build, NEW d \in Build, BuildFits(d),
           record'[d] = record[d], job'[d] = job[d],
           \/ Instead(a, <<>>) \/ Instead(a, EndSteps(b))
           \/ Instead(a, <<Act("delete_job", b)>>)
           \/ /\ d = b => Dead(b) \/ Dead(b)'
              /\ \E status \in Finished : Instead(a, <<Finish(b, status)>>)
    PROVE  BuildFits(d)'
<1> DEFINE new == {<<"delete_job", b>>, <<"finish", b>>}
<1>1. \A duty \in Creating \cup {"resume"} : <<duty, d>> \notin new
    BY DEF Creating
<1>2. CASE Instead(a, <<>>)
    <2>1. NewStepsOf(a, {}) /\ \A c \in Agent : Ends(c, d)' => Ends(c, d)
        BY <1>2, InsteadNothing DEF StepsInv
    <2>2. NewStepsOf(a, new)
        BY <2>1 DEF NewStepsOf
    <2> HIDE DEF new
    <2> QED BY <1>1, <2>1, <2>2, CalmFits
<1>3. CASE Instead(a, EndSteps(b))
    <2>1. NewStepsOf(a, new) /\ \A c \in Agent : Ends(c, d)' => Ends(c, d)
        BY <1>3, InsteadEnds DEF StepsInv
    <2> HIDE DEF new
    <2> QED BY <1>1, <2>1, CalmFits
<1>4. CASE Instead(a, <<Act("delete_job", b)>>)
    <2> DEFINE step == Act("delete_job", b)
    <2>1. step \in Step /\ step.of = b /\ step.do = "delete_job" /\ Instead(a, <<step>>)
        BY <1>4 DEF Act, Step, Duties
    <2> HIDE DEF step
    <2>2. /\ NewStepsOf(a, {<<"delete_job", b>>})
          /\ \A c \in Agent : Ends(c, d)' => Ends(c, d)
        BY <2>1, InsteadOne DEF StepsInv, Ending
    <2>3. NewStepsOf(a, new)
        BY <2>2 DEF NewStepsOf
    <2> HIDE DEF new
    <2> QED BY <1>1, <2>2, <2>3, CalmFits
<1>5. ASSUME NEW status \in Finished, Instead(a, <<Finish(b, status)>>),
             d = b => Dead(b) \/ Dead(b)'
      PROVE  BuildFits(d)'
    <2> DEFINE step == Finish(b, status)
    <2>1. /\ step \in Step /\ step.of = b /\ step.do = "finish" /\ step.to \in Finished
          /\ Instead(a, <<step>>)
        BY <1>5 DEF Finish, Step, Duties
    <2> HIDE DEF step
    <2>2. /\ NewStepsOf(a, {<<"finish", b>>})
          /\ \A c \in Agent : Ends(c, d)' => Ends(c, d) \/ d = b
        BY <2>1, InsteadOne DEF StepsInv, Ending
    <2>3. NewStepsOf(a, new)
        BY <2>2 DEF NewStepsOf
    <2>4. Dead(d) => Dead(d)'
        <3>1. ASSUME NEW c \in Agent, NEW duty \in Creating, Has(c, duty, d)'
              PROVE  Has(c, duty, d)
            BY <2>2, <3>1 DEF NewStepsOf, Creating, Duties, StartDuties
        <3> QED BY <3>1 DEF Dead
    <2> HIDE DEF new
    <2>5. \A c \in Agent : Ends(c, d)' => Ends(c, d) \/ Dead(d)'
        <3>1. CASE d = b
            BY <1>5, <2>4, <3>1
        <3>2. CASE d # b
            BY <2>2, <3>2
        <3> QED BY <3>1, <3>2
    <2> QED BY <1>1, <2>3, <2>5, CalmFits
<1> QED BY <1>2, <1>3, <1>4, <1>5

\* Who sees that a Job has ended, or that it is lost, finds it dead.
LEMMA SeenDead ==
    ASSUME StepsInv, JobsFit, NEW b \in Build,
           job[b] \in {"complete", "failed"} \/ JobLost(b)
    PROVE  Dead(b)
<1>1. CASE job[b] \in {"complete", "failed"}
    BY <1>1 DEF JobsFit, Dead
<1>2. CASE JobLost(b)
    <2>1. ~Started(b)
        BY <1>2, StartingMeans DEF JobLost, StepsInv
    <2>2. \A a \in Agent, duty \in Creating : ~Has(a, duty, b)
        BY <2>1 DEF Started, Creating, StartDuties
    <2> QED BY <1>2, <2>2 DEF JobLost, Dead
<1> QED BY <1>1, <1>2

\* A start that fails before the Job is there: nobody creates it any more.
LEMMA FailedIsDead ==
    ASSUME StepsInv, JobsFit, NEW a \in Agent, NEW b \in Build, NEW duty \in Creating,
           Doing(a, duty, b), job' = job, NEW status \in Finished,
           Instead(a, <<Finish(b, status)>>)
    PROVE  Dead(b)'
<1> DEFINE step == Finish(b, status)
<1>1. /\ step \in Step /\ step.of = b /\ step.do = "finish" /\ step.to \in Finished
      /\ Instead(a, <<step>>)
    BY DEF Finish, Step, Duties
<1> HIDE DEF step
<1>2. /\ NewStepsOf(a, {<<"finish", b>>})
      /\ \A other, e : Has(a, other, e)' <=> other = "finish" /\ e = b
    BY <1>1, InsteadOne DEF StepsInv, Ending
<1>3. Has(a, duty, b) /\ duty \in StartDuties
    BY DoingFirst DEF StepsInv, Creating, StartDuties
<1>4. job[b] = "none"
    BY <1>3 DEF JobsFit
<1>5. ASSUME NEW c \in Agent, NEW other \in Creating, Has(c, other, b)' PROVE FALSE
    <2>1. other \in StartDuties /\ other \in Duties /\ other # "finish"
        BY DEF Creating, StartDuties, Duties
    <2>2. c # a
        BY <1>2, <1>5, <2>1
    <2>3. Has(c, other, b)
        BY <1>2, <1>5, <2>1, <2>2 DEF NewStepsOf
    <2> QED BY <1>3, <2>1, <2>2, <2>3 DEF StepsInv, RecordsFit
<1> QED BY <1>4, <1>5 DEF Dead

\* What requests and the worker begin, and crashes.
LEMMA BeginBuilds ==
    ASSUME StepsInv, JobsFit,
           \/ \E a \in Request :
                 \/ \E b \in Build : Start(a, b) \/ Cancel(a, b) \/ StartFails(a, b)
                 \/ \E s \in Session : Stop(a, s) \/ Watch(a, s)
           \/ \E a \in Agent : Crash(a)
           \/ \E b \in Build : Maintain(b),
           NEW d \in Build, BuildFits(d)
    PROVE  BuildFits(d)'
<1> USE DEF StepsInv
<1>1. Worker \in Agent /\ \A a \in Request : a \in Agent
    BY DEF Agent
<1>2. UNCHANGED <<record, job>>
    BY DEF Start, Cancel, StartFails, Stop, Watch, Crash, Maintain, Expire, Check, rows
<1>3. ASSUME NEW a \in Request, NEW b \in Build, Start(a, b) PROVE BuildFits(d)'
    <2> DEFINE old == preview[SessionOf[b]]
               new == {<<"reserve", b>>} \cup
                         IF old = None THEN {} ELSE {<<"delete_job", old>>, <<"finish", old>>}
    <2>1. /\ SessionOf[b] \in Session
          /\ Instead(a, (IF old = None THEN <<>> ELSE EndSteps(old)) \o <<Act("reserve", b)>>)
        BY <1>3 DEF Start, Session
    <2>2. old # None => old \in Build
        BY <2>1 DEF PreviewType
    <2>3. NewStepsOf(a, new) /\ \A c \in Agent : Ends(c, d)' => Ends(c, d)
        <3> HIDE DEF old
        <3> QED BY <2>1, <2>2, StartSets
    <2>4. \A duty \in Creating \cup {"resume"} : <<duty, d>> \notin new
        BY DEF Creating
    <2> HIDE DEF new
    <2> QED BY <1>1, <1>2, <2>3, <2>4, CalmFits
<1>4. ASSUME NEW a \in Request, NEW b \in Build, Cancel(a, b) PROVE BuildFits(d)'
    BY <1>1, <1>2, <1>4, EndTaken DEF Cancel
<1>5. ASSUME NEW a \in Request, NEW b \in Build, StartFails(a, b) PROVE BuildFits(d)'
    <2>1. PICK steps \in Undo(Head(todo[a]).do, b) : Instead(a, steps)
        BY <1>5 DEF StartFails
    <2>2. CASE steps = <<Finish(b, "failed")>>
        <3>1. Head(todo[a]).do \in Creating
            BY <2>1, <2>2 DEF Undo, Creating, EndSteps, Act, Finish
        <3>2. Doing(a, Head(todo[a]).do, b)
            BY <1>5 DEF StartFails, Doing
        <3>3. "failed" \in Finished
            BY DEF Finished
        <3>4. Dead(b)'
            BY <1>1, <1>2, <2>1, <2>2, <3>1, <3>2, <3>3, FailedIsDead
        <3> QED BY <1>1, <1>2, <2>1, <2>2, <3>3, <3>4, EndTaken
    <2>3. CASE steps # <<Finish(b, "failed")>>
        BY <1>1, <1>2, <2>1, <2>3, EndTaken DEF Undo
    <2> QED BY <2>2, <2>3
<1>6. ASSUME NEW a \in Request, NEW s \in Session, Stop(a, s) PROVE BuildFits(d)'
    <2>1. preview[s] \in Build
        BY <1>6 DEF Stop, PreviewType
    <2> QED BY <1>1, <1>2, <1>6, <2>1, EndTaken DEF Stop
<1>7. ASSUME NEW a \in Request, NEW s \in Session, Watch(a, s) PROVE BuildFits(d)'
    <2>1. preview[s] \in Build
        BY <1>7 DEF Watch, PreviewType
    <2>2. Dead(preview[s])
        BY <1>7, <2>1, SeenDead DEF Watch
    <2>3. Verdict(preview[s]) \in Finished
        BY DEF Verdict, Finished
    <2> QED BY <1>1, <1>2, <1>7, <2>1, <2>2, <2>3, EndTaken DEF Watch
<1>8. ASSUME NEW a \in Agent, Crash(a) PROVE BuildFits(d)'
    BY <1>2, <1>8, EndTaken DEF Crash
<1>9. ASSUME NEW b \in Build, Expire(b) PROVE BuildFits(d)'
    BY <1>1, <1>2, <1>9, EndTaken DEF Expire
<1>10. ASSUME NEW b \in Build, Check(b) PROVE BuildFits(d)'
    <2>1. Dead(b)
        BY <1>10, SeenDead DEF Check
    <2>2. \E status \in Finished : Instead(Worker, <<Finish(b, status)>>)
        BY <1>10 DEF Check, Verdict, Finished
    <2> QED BY <1>1, <1>2, <2>1, <2>2, EndTaken
<1> QED BY <1>3, <1>4, <1>5, <1>6, <1>7, <1>8, <1>9, <1>10 DEF Maintain

\* The record is there: whoever is to create the Job running has a place.
LEMMA ReserveBuilds ==
    ASSUME StepsInv, RecordType, JobsFit, NEW a \in Agent, NEW b \in Build, Reserve(a, b),
           NEW d \in Build, BuildFits(d)
    PROVE  BuildFits(d)'
<1> DEFINE new == {<<"create_job", b>>, <<"create_suspended", b>>, <<"save", b>>}
<1>1. /\ NewStepsOf(a, new) /\ (Has(a, "create_job", b)' => HasRoom(b))
      /\ \A c \in Agent, e \in Build : Ends(c, e)' => Ends(c, e)
    BY ReserveSets DEF StepsInv
<1>2. /\ record[b] = "none" /\ record'[b] = Reserved(b)
      /\ \A e \in Build \ {b} : record'[e] = record[e]
    BY ReserveFits
<1>3. job' = job /\ Worker \in Agent
    BY DEF Reserve, Agent
<1>4. CASE d = b
    <2>1. ASSUME NEW c \in Agent, NEW duty \in Duties \ {"reserve"}, Has(c, duty, b) PROVE FALSE
        BY <1>2, <2>1 DEF StepsInv, RecordsFit
    <2>2. \A c \in Agent : ~Ends(c, b)'
        BY <1>1, <2>1 DEF Ends, Has, Ending, Duties, StartDuties
    <2>3. ~Has(Worker, "resume", b)'
        BY <1>1, <1>3, <2>1 DEF NewStepsOf, Duties, StartDuties
    <2>4. job'[b] # "running"
        BY <1>2, <1>3 DEF JobsFit
    <2>5. ToRun(b)' => record'[b] = "building"
        <3>1. ASSUME NEW c \in Agent, Has(c, "create_job", b)' PROVE HasRoom(b)
            BY <1>1, <2>1, <3>1 DEF NewStepsOf, Duties, StartDuties
        <3> QED BY <1>2, <3>1 DEF ToRun, Reserved
    <2> QED BY <1>4, <2>2, <2>3, <2>4, <2>5 DEF BuildFits
<1>5. CASE d # b
    <2>1. \A duty \in Creating \cup {"resume"} : <<duty, d>> \notin new
        BY <1>5
    <2> HIDE DEF new
    <2> QED BY <1>1, <1>2, <1>3, <1>5, <2>1, CalmFits
<1> QED BY <1>4, <1>5

\* The Job is created, by the only one who had to.
LEMMA CreateBuilds ==
    ASSUME StepsInv, JobType, JobsFit, NEW a \in Agent, NEW b \in Build, CreateJob(a, b),
           NEW d \in Build, BuildFits(d)
    PROVE  BuildFits(d)'
<1>1. PICK duty \in Creating :
          /\ Doing(a, duty, b)
          /\ \A e \in Build \ {b} : job'[e] = job[e]
          /\ duty = "create_job" => job'[b] = "running"
          /\ duty = "create_suspended" => job'[b] = "suspended"
    BY DEF CreateJob, Created, Creating, JobType
<1>2. /\ todo[a] # <<>> /\ todo[a][1].do = duty /\ Has(a, duty, b)
      /\ duty \in StartDuties /\ Done(a) /\ record' = record
    BY <1>1, DoingFirst DEF StepsInv, Creating, StartDuties, CreateJob, rows
<1>3. TodoType' /\ Shrunk(a)
    BY <1>2, DoneShrinks DEF StepsInv
<1>4. /\ NewStepsOf(a, {}) /\ StepsFit'
      /\ \A c \in Agent, e \in Build : Ends(c, e)' => Ends(c, e)
    BY <1>1, <1>2, <1>3, ShrunkHas DEF StepsInv, Creating
<1>5. ASSUME NEW c \in Agent, NEW other \in Creating, Has(c, other, b)' PROVE FALSE
    <2>1. other \in StartDuties /\ other \in Duties
        BY DEF Creating, StartDuties, Duties
    <2>2. c = a
        BY <1>2, <1>4, <1>5, <2>1 DEF NewStepsOf, StepsInv, RecordsFit
    <2>3. PICK i \in Steps(a)' : todo'[a][i].do = other
        BY <1>5, <2>2 DEF Has
    <2>4. i + 1 \in Steps(a) /\ todo'[a][i] = todo[a][i + 1] /\ i \in Nat \ {0}
        BY <1>3, <2>3, LenProperties DEF Shrunk, Steps, StepsInv, TodoType
    <2> QED BY <2>3, <2>4 DEF StepsInv, StepsFit, StepFits
<1>6. Worker \in Agent
    BY DEF Agent
<1>7. CASE d = b
    <2>1. ~ToRun(b)' /\ ~Dead(b)
        BY <1>2, <1>5 DEF ToRun, Creating, Dead
    <2>2. Has(Worker, "resume", b)' => Has(Worker, "resume", b)
        BY <1>4, <1>6 DEF NewStepsOf, Duties
    <2>3. job'[b] = "running" => ToRun(b)
        BY <1>1, <1>2 DEF ToRun, Creating
    <2>4. \A c \in Agent : Ends(c, b)' => c = Worker /\ ~ToRun(b)
        BY <1>4, <1>7, <2>1 DEF BuildFits
    <2> QED BY <1>2, <1>7, <2>1, <2>2, <2>3, <2>4 DEF BuildFits
<1>8. CASE d # b
    BY <1>1, <1>2, <1>4, <1>8, CalmFits
<1> QED BY <1>7, <1>8

\* The Job is deleted and nobody is to create it: the build is dead.
LEMMA DeleteBuilds ==
    ASSUME StepsInv, RecordType, JobType, NEW a \in Agent, NEW b \in Build, DeleteJob(a, b),
           NEW d \in Build, d \notin astray', d # b => BuildFits(d)
    PROVE  BuildFits(d)'
<1>1. /\ todo[a] # <<>> /\ Done(a) /\ record' = record
      /\ todo[a][1].do = "delete_job" /\ todo[a][1].of = b
    BY DoingFirst DEF StepsInv, DeleteJob, rows
<1>2. Shrunk(a)
    BY <1>1, DoneShrinks DEF StepsInv
<1>3. /\ NewStepsOf(a, {})
      /\ \A c \in Agent, e \in Build : Ends(c, e)' => Ends(c, e) \/ e = b
    BY <1>1, <1>2, ShrunkHas DEF StepsInv
<1>4. CASE d = b
    <2>1. job'[b] = "none" /\ ~ToCreate(b)
        BY <1>4 DEF DeleteJob, JobType
    <2>2. \A c \in Agent, duty \in Creating : ~Has(c, duty, b)
        BY <2>1, ToCreateMeans DEF StepsInv
    <2>3. \A c \in Agent, duty \in Creating : ~Has(c, duty, b)'
        BY <1>3, <2>2 DEF NewStepsOf, Creating, Duties, StartDuties
    <2>4. Dead(b)' /\ ~ToRun(b)'
        BY <2>1, <2>3 DEF Dead, ToRun, Creating
    <2> QED BY <1>4, <2>1, <2>4 DEF BuildFits
<1>5. CASE d # b
    <2>1. job'[d] = job[d]
        BY <1>5 DEF DeleteJob, JobType
    <2> QED BY <1>1, <1>3, <1>5, <2>1, CalmFits
<1> QED BY <1>4, <1>5

\* The instance is saved, or finishBuild looks.
LEMMA LookBuilds ==
    ASSUME StepsInv, NEW a \in Agent, NEW b \in Build, Save(a, b) \/ FinishLooks(a, b),
           NEW d \in Build, BuildFits(d)
    PROVE  BuildFits(d)'
<1>1. UNCHANGED <<record, job>>
    BY DEF Save, FinishLooks, rows
<1>2. PICK duty \in {"save", "finish"} : Doing(a, duty, b)
    BY DEF Save, FinishLooks
<1>3. /\ todo[a] # <<>> /\ 1 \in Steps(a) /\ todo[a][1] \in Step
      /\ todo[a][1].do = duty /\ todo[a][1].of = b
    BY <1>2, DoingFirst DEF StepsInv
<1>4. CASE Done(a)
    <2>1. Shrunk(a)
        BY <1>3, <1>4, DoneShrinks DEF StepsInv
    <2>2. NewStepsOf(a, {}) /\ \A c \in Agent : Ends(c, d)' => Ends(c, d)
        BY <1>3, <2>1, ShrunkHas DEF StepsInv
    <2> QED BY <1>1, <2>2, CalmFits
<1>5. CASE duty = "finish" /\ Then(a, <<[Head(todo[a]) EXCEPT !.do = "write"]>>)
    <2> DEFINE step == [todo[a][1] EXCEPT !.do = "write"]
    <2>1. Head(todo[a]) = todo[a][1] /\ todo[a][1].to \in Finished
        BY <1>3, <1>5 DEF StepsInv, TodoType, StepsFit, StepFits, Ending
    <2>2. /\ step \in Step /\ step.do = "write" /\ step.of = b /\ step.to \in Finished
          /\ Then(a, <<step>>)
        BY <1>3, <1>5, <2>1 DEF Step, Duties
    <2> HIDE DEF step
    <2>3. Replaced(a, step)
        BY <1>3, <2>2, ThenReplaces DEF StepsInv
    <2>4. NewStepsOf(a, {<<"write", b>>}) /\ \A c \in Agent : Ends(c, d)' => Ends(c, d) \/ (c = a /\ d = b)
        BY <1>3, <1>5, <2>2, <2>3, ReplacedHas DEF StepsInv, Ending
    <2>5. Ends(a, b)
        BY <1>3, <1>5 DEF Ends, Ending
    <2>6. \A other \in Creating \cup {"resume"} : <<other, d>> \notin {<<"write", b>>}
        BY DEF Creating
    <2> QED BY <1>1, <2>4, <2>5, <2>6, CalmFits
<1>6. CASE Save(a, b)
    BY <1>4, <1>6 DEF Save
<1>7. CASE FinishLooks(a, b)
    <2>1. duty = "finish"
        BY <1>2, <1>7 DEF FinishLooks, Doing
    <2> QED BY <1>4, <1>5, <1>7, <2>1 DEF FinishLooks, Done
<1> QED BY <1>6, <1>7

\* The record is ended, of a build whose Job does not run.
LEMMA WriteBuilds ==
    ASSUME StepsInv, RecordType, NEW a \in Agent, NEW b \in Build, FinishWrites(a, b),
           NEW d \in Build, BuildFits(d)
    PROVE  BuildFits(d)'
<1>1. /\ todo[a] # <<>> /\ 1 \in Steps(a) /\ Done(a)
      /\ todo[a][1].do = "write" /\ todo[a][1].of = b
    BY DoingFirst DEF StepsInv, FinishWrites
<1>2. /\ job' = job /\ record[b] # "none"
      /\ \A e \in Build \ {b} : record'[e] = record[e]
    BY FinishFits
<1>3. Shrunk(a)
    BY <1>1, DoneShrinks DEF StepsInv
<1>4. /\ NewStepsOf(a, {})
      /\ \A c \in Agent, e \in Build : Ends(c, e)' => Ends(c, e)
    BY <1>1, <1>3, ShrunkHas DEF StepsInv
<1>5. Worker \in Agent
    BY DEF Agent
<1>6. CASE d = b
    <2>1. Ends(a, b)
        BY <1>1 DEF Ends, Ending
    <2>2. Dead(b) \/ (a = Worker /\ job[b] # "running" /\ ~ToRun(b))
        BY <1>6, <2>1 DEF BuildFits
    <2>3. ASSUME NEW c \in Agent, NEW duty \in Creating \cup {"resume"}, Has(c, duty, b)'
          PROVE  Has(c, duty, b)
        BY <1>4, <2>3 DEF NewStepsOf, Creating, Duties, StartDuties
    <2>4. job'[b] # "running" /\ ~ToRun(b)' /\ (Dead(b) => Dead(b)') /\ (ToRun(b)' => ToRun(b))
        BY <1>2, <2>2, <2>3 DEF Dead, ToRun, Creating
    <2>5. Has(Worker, "resume", b)' => Dead(b)'
        <3>1. ASSUME Has(Worker, "resume", b), a = Worker PROVE FALSE
            BY <1>1, <3>1 DEF Has, StepsInv, StepsFit, StepFits, Steps
        <3> QED BY <1>5, <2>2, <2>3, <2>4, <3>1
    <2>6. \A c \in Agent : Ends(c, b)' => Dead(b)' \/ c = Worker
        BY <1>4, <1>6, <2>4 DEF BuildFits
    <2> QED BY <1>6, <2>4, <2>5, <2>6 DEF BuildFits
<1>7. CASE d # b
    BY <1>2, <1>4, <1>7, CalmFits
<1> QED BY <1>6, <1>7

\* A queued build gets its place; nobody is to create its Job running.
LEMMA DispatchBuilds ==
    ASSUME StepsInv, RecordType, NEW b \in Build, Dispatch(b), NEW d \in Build, BuildFits(d)
    PROVE  BuildFits(d)'
<1> DEFINE step == Act("resume", b)
<1>1. /\ job' = job /\ record[b] = "queued" /\ record'[b] = "building"
      /\ \A e \in Build \ {b} : record'[e] = record[e]
    BY DispatchFits
<1>2. /\ todo[Worker] = <<>> /\ Worker \in Agent /\ step \in Step /\ step.do = "resume"
      /\ step.of = b /\ Instead(Worker, <<step>>)
    BY DEF Dispatch, Act, Step, Duties, Agent
<1> HIDE DEF step
<1>3. /\ NewStepsOf(Worker, {<<"resume", b>>})
      /\ \A c \in Agent : Ends(c, d)' => Ends(c, d)
    BY <1>2, InsteadOne DEF StepsInv, Ending
<1>4. CASE d = b
    <2>1. ASSUME NEW c \in Agent, NEW duty \in Creating, Has(c, duty, b)'
          PROVE  Has(c, duty, b)
        BY <1>3, <2>1 DEF NewStepsOf, Creating, Duties, StartDuties
    <2>2. job[b] # "running" /\ ~ToRun(b)
        BY <1>1, <1>4 DEF BuildFits
    <2>3. ~ToRun(b)' /\ (Dead(b) => Dead(b)')
        BY <1>1, <2>1, <2>2 DEF ToRun, Dead, Creating
    <2>4. \A c \in Agent : Ends(c, b)' => Dead(b)' \/ c = Worker
        BY <1>3, <1>4, <2>3 DEF BuildFits
    <2> QED BY <1>1, <1>4, <2>2, <2>3, <2>4 DEF BuildFits
<1>5. CASE d # b
    <2>1. \A duty \in Creating \cup {"resume"} : <<duty, d>> \notin {<<"resume", b>>}
        BY <1>5
    <2> QED BY <1>1, <1>2, <1>3, <1>5, <2>1, CalmFits
<1> QED BY <1>4, <1>5

\* The Job is resumed, or is not there and the build is to be ended.
LEMMA ResumeBuilds ==
    ASSUME StepsInv, JobType, NEW b \in Build, Resume(b), NEW d \in Build, BuildFits(d),
           d \notin astray'
    PROVE  BuildFits(d)'
<1>1. /\ Worker \in Agent /\ todo[Worker] # <<>> /\ 1 \in Steps(Worker)
      /\ todo[Worker][1].do = "resume" /\ todo[Worker][1].of = b /\ Has(Worker, "resume", b)
      /\ Len(todo[Worker]) = 1
    BY DoingFirst DEF Resume, Agent, StepsInv, StepsFit, StepFits
<1>2. /\ record' = record /\ \A e \in Build \ {b} : job'[e] = job[e]
      /\ Done(Worker) \/ Then(Worker, <<Finish(b, "failed")>>)
    BY DEF Resume, rows, JobType, Done
<1>3. /\ NewStepsOf(Worker, {<<"finish", b>>})
      /\ \A c \in Agent, e \in Build : Ends(c, e)' => Ends(c, e) \/ (c = Worker /\ e = b)
    <2>1. CASE Done(Worker)
        <3>1. Shrunk(Worker)
            BY <1>1, <2>1, DoneShrinks DEF StepsInv
        <3>2. /\ NewStepsOf(Worker, {})
              /\ \A c \in Agent, e \in Build : Ends(c, e)' => Ends(c, e)
            BY <1>1, <3>1, ShrunkHas DEF StepsInv
        <3> QED BY <3>2 DEF NewStepsOf
    <2>2. CASE Then(Worker, <<Finish(b, "failed")>>)
        <3> DEFINE step == Finish(b, "failed")
        <3>1. step \in Step /\ step.do = "finish" /\ step.of = b /\ step.to \in Finished
              /\ Then(Worker, <<step>>)
            BY <2>2 DEF Finish, Step, Duties, Finished
        <3> HIDE DEF step
        <3>2. Replaced(Worker, step)
            BY <1>1, <3>1, ThenReplaces DEF StepsInv
        <3> QED BY <1>1, <3>1, <3>2, ReplacedHas DEF StepsInv, Ending
    <2> QED BY <1>2, <2>1, <2>2
<1>4. CASE d = b
    <2>1. /\ job'[b] = IF job[b] = "suspended" THEN "running" ELSE job[b]
          /\ job[b] # "none" => Done(Worker)
        BY <1>4 DEF Resume, JobType, Done
    <2>2. ASSUME NEW c \in Agent, NEW duty \in Creating, Has(c, duty, b)'
          PROVE  Has(c, duty, b)
        BY <1>3, <2>2 DEF NewStepsOf, Creating, Duties, StartDuties
    <2>3. ~ToRun(b) /\ (record[b] = "building" \/ Dead(b))
        BY <1>1, <1>4 DEF BuildFits
    <2>4. ~ToRun(b)' /\ (Dead(b) => Dead(b)')
        BY <2>1, <2>2, <2>3 DEF ToRun, Dead, Creating
    <2>5. job'[b] = "running" => record'[b] = "building"
        BY <1>2, <1>4, <2>1, <2>3 DEF BuildFits, Dead
    <2>6. ASSUME NEW c \in Agent, Ends(c, b)'
          PROVE  Dead(b)' \/ (c = Worker /\ job'[b] # "running")
        <3>1. CASE c = Worker
            <4>1. CASE Done(Worker)
                <5>1. Shrunk(Worker)
                    BY <1>1, <4>1, DoneShrinks DEF StepsInv
                <5> QED BY <1>1, <2>6, <3>1, <5>1 DEF Shrunk, Ends, Steps
            <4>2. CASE job[b] = "none"
                BY <2>1, <3>1, <4>2
            <4> QED BY <2>1, <4>1, <4>2
        <3>2. CASE c # Worker
            BY <1>3, <1>4, <2>4, <2>6, <3>2 DEF BuildFits
        <3> QED BY <3>1, <3>2
    <2>7. ~Has(Worker, "resume", b)'
        <3>1. CASE Done(Worker)
            <4>1. Shrunk(Worker)
                BY <1>1, <3>1, DoneShrinks DEF StepsInv
            <4> QED BY <1>1, <4>1 DEF Shrunk, Has, Steps
        <3>2. CASE Then(Worker, <<Finish(b, "failed")>>)
            <4> DEFINE step == Finish(b, "failed")
            <4>1. step \in Step /\ step.do = "finish" /\ Then(Worker, <<step>>)
                BY <3>2 DEF Finish, Step, Duties, Finished
            <4> HIDE DEF step
            <4>2. Replaced(Worker, step)
                BY <1>1, <4>1, ThenReplaces DEF StepsInv
            <4> QED BY <1>1, <4>1, <4>2 DEF Replaced, Has, Steps
        <3> QED BY <1>2, <3>1, <3>2
    <2> QED BY <1>4, <2>4, <2>5, <2>6, <2>7 DEF BuildFits
<1>5. CASE d # b
    <2>1. \A duty \in Creating \cup {"resume"} : <<duty, d>> \notin {<<"finish", b>>}
        BY DEF Creating
    <2> QED BY <1>1, <1>2, <1>3, <1>5, <2>1, CalmFits
<1> QED BY <1>4, <1>5

\* The other builds when a creation is answered with an error.
LEMMA CreateLostBuilds ==
    ASSUME StepsInv, JobType, NEW a \in Request, NEW b \in Build, CreateLost(a, b),
           NEW d \in Build, BuildFits(d), d \notin astray'
    PROVE  BuildFits(d)'
<1>1. d # b /\ a \in Agent /\ record' = record
    BY DEF CreateLost, Agent, rows
<1>2. job'[d] = job[d]
    BY <1>1 DEF CreateLost, Created, JobType
<1>3. \E status \in Finished : Instead(a, <<Finish(b, status)>>)
    BY DEF CreateLost, Finished
<1> QED BY <1>1, <1>2, <1>3, EndTaken

\* Every step keeps the Jobs within the places.
LEMMA NextBuilds ==
    ASSUME RecordInv, JobsFit, BuildsFit, [Next]_vars
    PROVE  BuildsFit'
<1>1. StepsInv /\ RecordType /\ JobType
    BY TypeParts DEF RecordInv, StepsInv
<1> SUFFICES ASSUME NEW d \in Build, d \notin astray' PROVE BuildFits(d)'
    BY DEF BuildsFit
<1>2. BuildFits(d)
    BY HistoryGrows DEF BuildsFit
<1>3. CASE UNCHANGED vars
    <2>1. record' = record /\ job' = job /\ todo' = todo
        BY <1>3 DEF vars
    <2>2. \A c \in Agent : Ends(c, d)' => Ends(c, d)
        BY <2>1 DEF Ends, Steps
    <2>3. Worker \in Agent /\ NewStepsOf(Worker, {})
        BY <2>1 DEF Agent, NewStepsOf, Has, Steps
    <2> QED BY <1>2, <2>1, <2>2, <2>3, CalmFits
<1>4. ASSUME NEW b \in Build, JobEnds(b) PROVE BuildFits(d)'
    <2>1. record' = record /\ todo' = todo
        BY <1>4 DEF JobEnds, rows
    <2>2. \A c \in Agent : Ends(c, d)' => Ends(c, d)
        BY <2>1 DEF Ends, Steps
    <2>3. Worker \in Agent /\ NewStepsOf(Worker, {})
        BY <2>1 DEF Agent, NewStepsOf, Has, Steps
    <2>4. job'[d] = job[d] \/ (job[d] = "running" /\ job'[d] \in {"complete", "failed"})
        BY <1>1, <1>4 DEF JobEnds, JobType
    <2> QED BY <1>2, <2>1, <2>2, <2>3, <2>4, CalmFits
<1>5. ASSUME NEW a \in Agent, NEW b \in Build, Work(a, b) PROVE BuildFits(d)'
    BY <1>1, <1>2, <1>5, ReserveBuilds, CreateBuilds, DeleteBuilds, LookBuilds, WriteBuilds
       DEF Work
<1>6. ASSUME NEW b \in Build, Dispatch(b) \/ Resume(b) PROVE BuildFits(d)'
    BY <1>1, <1>2, <1>6, DispatchBuilds, ResumeBuilds
<1>7. ASSUME NEW a \in Request, NEW b \in Build, CreateLost(a, b) PROVE BuildFits(d)'
    BY <1>1, <1>2, <1>7, CreateLostBuilds
<1>8. ASSUME \/ \E a \in Request :
                   \/ \E b \in Build : Start(a, b) \/ Cancel(a, b) \/ StartFails(a, b)
                   \/ \E s \in Session : Stop(a, s) \/ Watch(a, s)
             \/ \E a \in Agent : Crash(a)
             \/ \E b \in Build : Maintain(b)
      PROVE  BuildFits(d)'
    BY <1>1, <1>2, <1>8, BeginBuilds
<1> QED BY <1>3, <1>4, <1>5, <1>6, <1>7, <1>8 DEF Next

\* Whoever ends a build finds its Job dead, or is the worker, which alone
\* resumes Jobs; and a Job that runs has a place: under every kind of event,
\* for every build that has not gone astray (cancelRecord, stop, finishBuild,
\* dispatchQueued).
THEOREM BuildsFitAlways == Spec => []BuildsFit
<1>1. Init => BuildsFit
    <2> SUFFICES ASSUME Init PROVE BuildsFit
        OBVIOUS
    <2>1. \A a \in Agent : \A duty, b : ~Has(a, duty, b) /\ ~Ends(a, b)
        BY InitRecordInv DEF Has, Ends
    <2> QED BY <2>1 DEF Init, BuildsFit, BuildFits, ToRun, Agent
<1>2. BuildsFit /\ RecordInv /\ JobsFit /\ PlacesMinded /\ [Next]_vars => BuildsFit'
    BY NextBuilds
<1> QED BY <1>1, <1>2, RecordInvAlways, JobsFitAlways, PTL DEF Spec

\* The Jobs that run for a user or a team never exceed its limit, but for
\* those that have gone astray, however starts, stops, cancellations, the
\* worker, errors, lost calls and crashes interleave.
THEOREM NoOversellAlways == Spec => []NoOversell
<1>1. ASSUME BuildsFit, PlacesKept PROVE NoOversell
    <2> SUFFICES ASSUME NEW c \in Scope
                 PROVE  Cardinality({b \in Build \ astray : job[b] = "running"
                                       /\ c \in ScopesOf[SessionOf[b]]}) <= Limit[c]
        BY DEF NoOversell
    <2> DEFINE running == {b \in Build \ astray :
                              job[b] = "running" /\ c \in ScopesOf[SessionOf[b]]}
    <2>1. running \in SUBSET Building(c) /\ IsFiniteSet(Building(c))
        BY <1>1, BuildingFinite DEF BuildsFit, BuildFits, Building
    <2> HIDE DEF running
    <2>2. Cardinality(running) <= Cardinality(Building(c)) /\ IsFiniteSet(running)
        BY <2>1, FS_Subset
    <2>3. Cardinality(running) \in Nat /\ Cardinality(Building(c)) \in Nat
        BY <2>2, BuildingFinite, FS_CardinalityType
    <2>4. Limit[c] \in Nat /\ Cardinality(Building(c)) <= Limit[c]
        BY <1>1, PreviewAssumption DEF PlacesKept
    <2>5. Cardinality(running) <= Limit[c]
        BY <2>2, <2>3, <2>4
    <2> QED BY <2>5 DEF running
<1>2. BuildsFit /\ PlacesKept => NoOversell
    BY <1>1
<1> QED BY <1>2, BuildsFitAlways, PlacesKeptAlways, PTL
===============================================================================
