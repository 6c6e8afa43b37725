---------------------------- MODULE WorkRunProofs ----------------------------
(***************************************************************************)
(* Lemmas about the operations of the WorkRun aggregate: what type they    *)
(* return, that they only ever append to the history they are given, and   *)
(* that a run which tells its story, in the sense of the checks of a       *)
(* resumed checkpoint, goes on telling it.                                 *)
(***************************************************************************)
EXTENDS WorkflowRunner, SequenceTheorems, FiniteSetTheorems, TLAPS

\* approve() builds an aggregate with one event.
LEMMA ApproveType ==
  ASSUME NEW r \in Revisions, NEW a \in Approvers
  PROVE  approve(r, a) \in WorkRun
  BY DEF approve, WorkRun, WorkRunEvent, Event, Detail, WorkRunState, ACTIVE_STATES

\* transition_to() returns an aggregate whenever its arguments are in range.
LEMMA TransitionType ==
  ASSUME NEW run \in WorkRun, NEW s \in WorkRunState, NEW d \in Detail
  PROVE  transition_to(run, s, d) \in WorkRun
<1> DEFINE e == Event("entered", s, d)
<1>1. e \in WorkRunEvent
  BY DEF Event, WorkRunEvent
<1>2. Append(run.events, e) \in Seq(WorkRunEvent) \ {<<>>}
  BY <1>1 DEF WorkRun
<1>3. transition_to(run, s, d) = [run EXCEPT !.state = s, !.events = Append(run.events, e)]
  BY DEF transition_to, WorkRun
<1> QED
  BY <1>2, <1>3 DEF WorkRun

\* The fields of the aggregate that transition_to() returns.
LEMMA TransitionFields ==
  ASSUME NEW run \in WorkRun, NEW s, NEW d
  PROVE  /\ transition_to(run, s, d).state = s
         /\ transition_to(run, s, d).revision = run.revision
         /\ transition_to(run, s, d).artifacts = run.artifacts
         /\ transition_to(run, s, d).draft_pr_url = run.draft_pr_url
         /\ transition_to(run, s, d).events = Append(run.events, Event("entered", s, d))
  BY DEF transition_to, WorkRun

\* The sequence of audit events that attaching a bundle appends.
LEMMA AttachedEvents ==
  ASSUME NEW run \in WorkRun, NEW bundle \in Seq(ArtifactIds)
  PROVE  /\ [i \in 1..Len(bundle) |-> Event("artifact_attached", run.state, bundle[i])]
              \in Seq(WorkRunEvent)
         /\ Len([i \in 1..Len(bundle) |-> Event("artifact_attached", run.state, bundle[i])])
              = Len(bundle)
<1> DEFINE n == Len(bundle)
<1>1. n \in Nat
  OBVIOUS
<1>2. ASSUME NEW i \in 1..n
      PROVE  Event("artifact_attached", run.state, bundle[i]) \in WorkRunEvent
  <2>1. bundle[i] \in ArtifactIds
    BY <1>1
  <2> QED
    BY <2>1 DEF Event, WorkRunEvent, WorkRun, Detail
<1> QED
  BY <1>1, <1>2

\* The fields, and the type, of the aggregate with a bundle attached.
LEMMA AttachFields ==
  ASSUME NEW run \in WorkRun, NEW bundle \in Seq(ArtifactIds)
  PROVE  /\ attach_artifact(run, bundle).state = run.state
         /\ attach_artifact(run, bundle).revision = run.revision
         /\ attach_artifact(run, bundle).draft_pr_url = run.draft_pr_url
         /\ attach_artifact(run, bundle).artifacts = run.artifacts \o bundle
         /\ attach_artifact(run, bundle).events = run.events \o
              [i \in 1..Len(bundle) |-> Event("artifact_attached", run.state, bundle[i])]
         /\ attach_artifact(run, bundle) \in WorkRun
<1> DEFINE new == [i \in 1..Len(bundle) |-> Event("artifact_attached", run.state, bundle[i])]
<1>1. new \in Seq(WorkRunEvent)
  BY AttachedEvents
<1>2. attach_artifact(run, bundle) =
        [run EXCEPT !.events = run.events \o new, !.artifacts = run.artifacts \o bundle]
  BY DEF attach_artifact, WorkRun
<1> HIDE DEF new
<1>3. /\ run.events \in Seq(WorkRunEvent) \ {<<>>}
      /\ run.artifacts \in Seq(ArtifactIds)
  BY DEF WorkRun
<1>4. run.events \o new \in Seq(WorkRunEvent) \ {<<>>}
  BY <1>1, <1>3, ConcatProperties, ConcatEqualIffEmpty
<1>5. run.artifacts \o bundle \in Seq(ArtifactIds)
  BY <1>3
<1>6. /\ attach_artifact(run, bundle).state = run.state
      /\ attach_artifact(run, bundle).revision = run.revision
      /\ attach_artifact(run, bundle).draft_pr_url = run.draft_pr_url
      /\ attach_artifact(run, bundle).artifacts = run.artifacts \o bundle
      /\ attach_artifact(run, bundle).events = run.events \o new
  BY <1>2 DEF WorkRun
<1>7. attach_artifact(run, bundle) \in WorkRun
  BY <1>2, <1>4, <1>5 DEF WorkRun
<1> QED
  BY <1>6, <1>7 DEF new

\* The fields, and the type, of the aggregate with a Draft PR recorded.
LEMMA RecordFields ==
  ASSUME NEW run \in WorkRun, NEW url \in PullRequests
  PROVE  /\ record_draft_pr(run, url).state = run.state
         /\ record_draft_pr(run, url).revision = run.revision
         /\ record_draft_pr(run, url).draft_pr_url = url
         /\ record_draft_pr(run, url).artifacts = run.artifacts
         /\ record_draft_pr(run, url).events =
              Append(run.events, Event("draft_pr_recorded", run.state, url))
         /\ record_draft_pr(run, url) \in WorkRun
<1> DEFINE e == Event("draft_pr_recorded", run.state, url)
<1>1. e \in WorkRunEvent
  BY DEF Event, WorkRunEvent, WorkRun, Detail
<1>2. record_draft_pr(run, url) =
        [run EXCEPT !.events = Append(run.events, e), !.draft_pr_url = url]
  BY DEF record_draft_pr, WorkRun
<1> HIDE DEF e
<1>3. Append(run.events, e) \in Seq(WorkRunEvent) \ {<<>>}
  BY <1>1 DEF WorkRun
<1>4. /\ record_draft_pr(run, url).state = run.state
      /\ record_draft_pr(run, url).revision = run.revision
      /\ record_draft_pr(run, url).draft_pr_url = url
      /\ record_draft_pr(run, url).artifacts = run.artifacts
      /\ record_draft_pr(run, url).events = Append(run.events, e)
  BY <1>2 DEF WorkRun
<1>5. record_draft_pr(run, url) \in WorkRun
  BY <1>2, <1>3 DEF WorkRun
<1> QED
  BY <1>4, <1>5 DEF e

------------------------------------------------------------------------------
(* Histories only grow. *)

\* `updated` is the same run with a longer history and more evidence.
Grows(run, updated) ==
  /\ updated.revision = run.revision
  /\ IsPrefix(run.events, updated.events)
  /\ IsPrefix(run.artifacts, updated.artifacts)

\* A sequence is a prefix of any sequence that continues it.
LEMMA PrefixOfConcat ==
  ASSUME NEW S, NEW s \in Seq(S), NEW t \in Seq(S)
  PROVE  IsPrefix(s, s \o t)
<1>1. /\ s \o t \in Seq(S)
      /\ Len(s \o t) = Len(s) + Len(t)
      /\ \A i \in 1..Len(s) : (s \o t)[i] = s[i]
  BY ConcatProperties
<1>2. Len(s) \in Nat /\ Len(t) \in Nat
  OBVIOUS
<1>3. SubSeq(s \o t, 1, Len(s)) = SubSeq(s, 1, Len(s))
  BY <1>1, <1>2
<1> QED
  BY <1>1, <1>2, <1>3 DEF IsPrefix

\* What is a prefix, element by element.
LEMMA PrefixElements ==
  ASSUME NEW S, NEW s \in Seq(S), NEW t \in Seq(S)
  PROVE  IsPrefix(s, t) <=> /\ Len(s) <= Len(t)
                            /\ \A i \in 1..Len(s) : s[i] = t[i]
<1>1. CASE Len(s) > Len(t)
  BY <1>1 DEF IsPrefix
<1>2. CASE Len(s) <= Len(t)
  <2> DEFINE a == SubSeq(s, 1, Len(s))
             b == SubSeq(t, 1, Len(s))
  <2>1. /\ a \in Seq(S) /\ Len(a) = Len(s) /\ \A i \in 1..Len(s) : a[i] = s[i]
    OBVIOUS
  <2>2. /\ b \in Seq(S) /\ Len(b) = Len(s) /\ \A i \in 1..Len(s) : b[i] = t[i]
    BY <1>2
  <2> HIDE DEF a, b
  <2>3. a = b <=> \A i \in 1..Len(s) : a[i] = b[i]
    BY <2>1, <2>2, SeqEqual
  <2>4. IsPrefix(s, t) <=> a = b
    BY <1>2 DEF IsPrefix, a, b
  <2> QED
    BY <1>2, <2>1, <2>2, <2>3, <2>4
<1> QED
  BY <1>1, <1>2

\* Growing is transitive, so several operations before one save still grow.
LEMMA GrowsTransitive ==
  ASSUME NEW x \in WorkRun, NEW y \in WorkRun, NEW z \in WorkRun,
         Grows(x, y), Grows(y, z)
  PROVE  Grows(x, z)
<1>1. /\ x.events \in Seq(WorkRunEvent) /\ x.artifacts \in Seq(ArtifactIds)
      /\ y.events \in Seq(WorkRunEvent) /\ y.artifacts \in Seq(ArtifactIds)
      /\ z.events \in Seq(WorkRunEvent) /\ z.artifacts \in Seq(ArtifactIds)
  BY DEF WorkRun
<1>2. ASSUME NEW S, NEW p \in Seq(S), NEW q \in Seq(S), NEW r \in Seq(S),
             IsPrefix(p, q), IsPrefix(q, r)
      PROVE  IsPrefix(p, r)
  <2>1. /\ Len(p) <= Len(q) /\ \A i \in 1..Len(p) : p[i] = q[i]
        /\ Len(q) <= Len(r) /\ \A i \in 1..Len(q) : q[i] = r[i]
    BY <1>2, PrefixElements
  <2>2. Len(p) <= Len(r) /\ \A i \in 1..Len(p) : p[i] = r[i]
    BY <2>1
  <2> QED
    BY <2>2, PrefixElements
<1> QED
  BY <1>1, <1>2 DEF Grows

\* Each operation grows the run it is given.
LEMMA OperationsGrow ==
  ASSUME NEW run \in WorkRun
  PROVE  /\ \A s \in WorkRunState, d \in Detail : Grows(run, transition_to(run, s, d))
         /\ \A bundle \in Seq(ArtifactIds) : Grows(run, attach_artifact(run, bundle))
         /\ \A url \in PullRequests : Grows(run, record_draft_pr(run, url))
<1>1. run.events \in Seq(WorkRunEvent) /\ run.artifacts \in Seq(ArtifactIds)
  BY DEF WorkRun
<1>2. ASSUME NEW S, NEW q \in Seq(S)
      PROVE  IsPrefix(q, q) /\ \A x \in S : IsPrefix(q, Append(q, x))
  <2>1. IsPrefix(q, q)
    BY PrefixElements
  <2>2. ASSUME NEW x \in S PROVE IsPrefix(q, Append(q, x))
    <3>1. /\ Append(q, x) \in Seq(S)
          /\ Len(q) <= Len(Append(q, x))
          /\ \A i \in 1..Len(q) : q[i] = Append(q, x)[i]
      OBVIOUS
    <3> QED
      BY <3>1, PrefixElements
  <2> QED
    BY <2>1, <2>2
<1>3. ASSUME NEW s \in WorkRunState, NEW d \in Detail
      PROVE  Grows(run, transition_to(run, s, d))
  <2> DEFINE e == Event("entered", s, d)
  <2>1. e \in WorkRunEvent
    BY DEF Event, WorkRunEvent
  <2>2. /\ transition_to(run, s, d).revision = run.revision
        /\ transition_to(run, s, d).artifacts = run.artifacts
        /\ transition_to(run, s, d).events = Append(run.events, e)
    BY TransitionFields
  <2> HIDE DEF e
  <2>3. /\ IsPrefix(run.events, Append(run.events, e))
        /\ IsPrefix(run.artifacts, run.artifacts)
    BY <1>1, <1>2, <2>1
  <2> QED
    BY <2>2, <2>3 DEF Grows
<1>4. ASSUME NEW bundle \in Seq(ArtifactIds)
      PROVE  Grows(run, attach_artifact(run, bundle))
  <2> DEFINE new == [i \in 1..Len(bundle) |->
                       Event("artifact_attached", run.state, bundle[i])]
  <2>1. new \in Seq(WorkRunEvent)
    BY AttachedEvents
  <2>2. /\ attach_artifact(run, bundle).revision = run.revision
        /\ attach_artifact(run, bundle).artifacts = run.artifacts \o bundle
        /\ attach_artifact(run, bundle).events = run.events \o new
    BY AttachFields
  <2> HIDE DEF new
  <2>3. /\ IsPrefix(run.events, run.events \o new)
        /\ IsPrefix(run.artifacts, run.artifacts \o bundle)
    BY <1>1, <2>1, PrefixOfConcat
  <2> QED
    BY <2>2, <2>3 DEF Grows
<1>5. ASSUME NEW url \in PullRequests
      PROVE  Grows(run, record_draft_pr(run, url))
  <2> DEFINE e == Event("draft_pr_recorded", run.state, url)
  <2>1. e \in WorkRunEvent
    BY DEF Event, WorkRunEvent, WorkRun, Detail
  <2>2. /\ record_draft_pr(run, url).revision = run.revision
        /\ record_draft_pr(run, url).artifacts = run.artifacts
        /\ record_draft_pr(run, url).events = Append(run.events, e)
    BY RecordFields
  <2> HIDE DEF e
  <2>3. /\ IsPrefix(run.events, Append(run.events, e))
        /\ IsPrefix(run.artifacts, run.artifacts)
    BY <1>1, <1>2, <2>1
  <2> QED
    BY <2>2, <2>3 DEF Grows
<1> QED
  BY <1>3, <1>4, <1>5

------------------------------------------------------------------------------
(* Runs that tell their story: every state, artifact and Draft PR of the   *)
(* run has its event, and every event its place.                           *)

\* `e` may come after `p` in a history.
Follows(p, e) ==
  IF e.state = p.state
  THEN \/ e.name = "artifact_attached"
       \/ e.name = "draft_pr_recorded" /\ e.state = "publishing_draft_pr"
  ELSE <<p.state, e.state>> \in ALLOWED_TRANSITIONS /\ e.name = "entered"

\* The events lead from the approval to the state of the run.
Chained(run) ==
  /\ run.events[1].name = "approved" /\ run.events[1].state = "approved"
  /\ run.events[Len(run.events)].state = run.state
  /\ \A i \in 2..Len(run.events) : Follows(run.events[i - 1], run.events[i])

\* A Draft PR has exactly one event, of publication, and none has no event.
Announced(run) ==
  LET recorded == EventsNamed(run, "draft_pr_recorded")
  IN  IF run.draft_pr_url = None
      THEN recorded = {}
      ELSE \E i \in recorded :
             /\ recorded = {i}
             /\ run.events[i].state = "publishing_draft_pr"
             /\ run.events[i].detail = run.draft_pr_url

\* All that the constructor and a resume check of a run, at one event a time.
Story(run) ==
  /\ run \in WorkRun
  /\ Chained(run)
  /\ IsInjective(run.artifacts)
  /\ EvidenceMatchesEvents(run)
  /\ Announced(run)
  /\ run.state = "completed" => run.draft_pr_url # None

\* The events of a run, one by one.
LEMMA EventsOfRun ==
  ASSUME NEW run \in WorkRun
  PROVE  /\ run.events \in Seq(WorkRunEvent)
         /\ Len(run.events) \in Nat \ {0}
         /\ DOMAIN run.events = 1..Len(run.events)
         /\ \A i \in 1..Len(run.events) : run.events[i] \in WorkRunEvent
         /\ \A name : EventsNamed(run, name) \subseteq 1..Len(run.events)
         /\ \A name : IsFiniteSet(EventsNamed(run, name))
<1>1. run.events \in Seq(WorkRunEvent) /\ run.events # <<>>
  BY DEF WorkRun
<1>2. /\ Len(run.events) \in Nat \ {0}
      /\ DOMAIN run.events = 1..Len(run.events)
      /\ \A i \in 1..Len(run.events) : run.events[i] \in WorkRunEvent
  BY <1>1
<1>3. \A name : EventsNamed(run, name) \in SUBSET (1..Len(run.events))
  BY <1>2 DEF EventsNamed
<1>4. IsFiniteSet(1..Len(run.events))
  BY <1>2, FS_Interval
<1> QED
  BY <1>1, <1>2, <1>3, <1>4, FS_Subset

\* A run that tells its story is one that the constructor takes and that a
\* resume trusts.
LEMMA StoryIsTrusted ==
  ASSUME NEW run, Story(run)
  PROVE  IsValid(run) /\ IsTrusted(run)
<1>1. /\ run \in WorkRun /\ Chained(run) /\ Announced(run)
  BY DEF Story
<1>2. /\ Len(run.events) \in Nat \ {0} /\ run.events # <<>>
      /\ DOMAIN run.events = 1..Len(run.events)
  BY <1>1, EventsOfRun DEF WorkRun
<1>3. HistoryIsCanonical(run)
  BY <1>1 DEF Chained, Follows, HistoryIsCanonical
<1>4. \A i \in 1..(Len(run.events) - 1) :
        \/ run.events[i].state = run.events[i + 1].state
        \/ <<run.events[i].state, run.events[i + 1].state>> \in ALLOWED_TRANSITIONS
  <2> SUFFICES ASSUME NEW i \in 1..(Len(run.events) - 1)
               PROVE  \/ run.events[i].state = run.events[i + 1].state
                      \/ <<run.events[i].state, run.events[i + 1].state>> \in ALLOWED_TRANSITIONS
    OBVIOUS
  <2>1. i + 1 \in 2..Len(run.events) /\ (i + 1) - 1 = i
    BY <1>2
  <2>2. Follows(run.events[i], run.events[i + 1])
    BY <1>1, <2>1 DEF Chained
  <2> QED
    BY <2>2 DEF Follows
<1>5. DraftPrEvents(run) = EventsNamed(run, "draft_pr_recorded")
  BY DEF DraftPrEvents, EventsNamed
<1>6. IF run.draft_pr_url = None
      THEN DraftPrEvents(run) = {}
      ELSE \E i \in DOMAIN run.events :
             /\ DraftPrEvents(run) = {i}
             /\ run.events[i].state = "publishing_draft_pr"
             /\ run.events[i].detail = run.draft_pr_url
  BY <1>1, <1>2, <1>5, EventsOfRun DEF Announced
<1>7. DraftPrMatchesEvent(run)
  BY <1>1 DEF Announced, DraftPrMatchesEvent
<1>8. IsTrusted(run)
  BY <1>3, <1>7 DEF Story, IsTrusted
<1>9. IsValid(run)
  BY <1>1, <1>2, <1>4, <1>6 DEF Story, Chained, IsValid, Last
<1> QED
  BY <1>8, <1>9

\* The rank of an event among those of its name is a place in the evidence.
LEMMA RankInRange ==
  ASSUME NEW run \in WorkRun, NEW name, NEW i \in EventsNamed(run, name)
  PROVE  Cardinality({j \in EventsNamed(run, name) : j <= i}) \in
           1..Cardinality(EventsNamed(run, name))
<1> DEFINE named == EventsNamed(run, name)
           upto == {j \in named : j <= i}
<1>1. IsFiniteSet(named) /\ named \subseteq 1..Len(run.events)
  BY EventsOfRun
<1>2. i \in Nat
  BY <1>1
<1>3. upto \in SUBSET named /\ upto # {}
  BY <1>2
<1> HIDE DEF named, upto
<1>4. IsFiniteSet(upto) /\ Cardinality(upto) <= Cardinality(named)
  BY <1>1, <1>3, FS_Subset
<1>5. Cardinality(upto) \in Nat /\ Cardinality(named) \in Nat
  BY <1>1, <1>4, FS_CardinalityType
<1>6. Cardinality(upto) # 0
  BY <1>3, <1>4, FS_EmptySet
<1>7. Cardinality(upto) \in 1..Cardinality(named)
  BY <1>4, <1>5, <1>6
<1> QED
  BY <1>7 DEF named, upto

------------------------------------------------------------------------------
(* The operations of the aggregate keep the story. *)

\* One more event, which is none of evidence, changes no evidence.
LEMMA EvidenceKept ==
  ASSUME NEW run \in WorkRun, EvidenceMatchesEvents(run),
         NEW e \in WorkRunEvent, e.name # "artifact_attached",
         NEW new \in WorkRun, new.events = Append(run.events, e),
         new.artifacts = run.artifacts
  PROVE  EvidenceMatchesEvents(new)
<1> DEFINE n == Len(run.events)
<1>1. /\ n \in Nat /\ DOMAIN run.events = 1..n
      /\ DOMAIN new.events = 1..(n + 1)
      /\ \A i \in 1..n : new.events[i] = run.events[i]
      /\ new.events[n + 1] = e
  BY EventsOfRun
<1>2. EventsNamed(new, "artifact_attached") = EventsNamed(run, "artifact_attached")
  BY <1>1 DEF EventsNamed
<1>3. \A i \in EventsNamed(run, "artifact_attached") : new.events[i] = run.events[i]
  BY <1>1, EventsOfRun
<1> QED
  BY <1>2, <1>3 DEF EvidenceMatchesEvents

\* A permitted transition keeps the story, and completion needs the Draft PR.
LEMMA TransitionStory ==
  ASSUME NEW run, Story(run), NEW s \in WorkRunState, NEW d \in Detail,
         CanTransition(run, s), s = "completed" => run.draft_pr_url # None
  PROVE  Story(transition_to(run, s, d))
<1> DEFINE e == Event("entered", s, d)
           new == transition_to(run, s, d)
           n == Len(run.events)
<1>1. /\ run \in WorkRun /\ Chained(run) /\ IsInjective(run.artifacts)
      /\ EvidenceMatchesEvents(run) /\ Announced(run)
  BY DEF Story
<1>2. /\ new \in WorkRun /\ new.state = s /\ new.artifacts = run.artifacts
      /\ new.draft_pr_url = run.draft_pr_url /\ new.events = Append(run.events, e)
  BY <1>1, TransitionType, TransitionFields
<1>3. e \in WorkRunEvent /\ e.name = "entered" /\ e.state = s
  BY DEF Event, WorkRunEvent
<1>4. <<run.state, s>> \in ALLOWED_TRANSITIONS
  BY DEF CanTransition
<1>5. run.state # s
  BY <1>4 DEF ALLOWED_TRANSITIONS, ACTIVE_STATES
<1> HIDE DEF e, new
<1>6. /\ n \in Nat \ {0} /\ DOMAIN run.events = 1..n
      /\ DOMAIN new.events = 1..(n + 1) /\ Len(new.events) = n + 1
      /\ \A i \in 1..n : new.events[i] = run.events[i]
      /\ new.events[n + 1] = e
  BY <1>1, <1>2, EventsOfRun
<1>7. Chained(new)
  <2>1. ASSUME NEW i \in 2..(n + 1)
        PROVE  Follows(new.events[i - 1], new.events[i])
    <3>1. CASE i = n + 1
      <4>1. new.events[i - 1] = run.events[n] /\ new.events[i] = e
        BY <1>6, <3>1
      <4> QED
        BY <1>1, <1>3, <1>4, <1>5, <4>1 DEF Chained, Follows
    <3>2. CASE i # n + 1
      <4>1. i \in 2..n /\ i - 1 \in 1..n /\ i \in 1..n
        BY <1>6, <3>2
      <4> QED
        BY <1>1, <1>6, <4>1 DEF Chained
    <3> QED
      BY <3>1, <3>2
  <2>2. new.events[1] = run.events[1]
    BY <1>6
  <2> QED
    BY <1>1, <1>2, <1>3, <1>6, <2>1, <2>2 DEF Chained
<1>8. EvidenceMatchesEvents(new)
  BY <1>1, <1>2, <1>3, EvidenceKept
<1>9. EventsNamed(new, "draft_pr_recorded") = EventsNamed(run, "draft_pr_recorded")
  BY <1>3, <1>6 DEF EventsNamed
<1>10. Announced(new)
  BY <1>1, <1>2, <1>6, <1>9, EventsOfRun DEF Announced
<1>11. Story(new)
  BY <1>1, <1>2, <1>7, <1>8, <1>10 DEF Story
<1> QED
  BY <1>11 DEF new

\* So does the recording of a Draft PR.
LEMMA RecordStory ==
  ASSUME NEW run, Story(run), NEW url \in PullRequests, CanRecordDraftPr(run)
  PROVE  Story(record_draft_pr(run, url))
<1> DEFINE e == Event("draft_pr_recorded", run.state, url)
           new == record_draft_pr(run, url)
           n == Len(run.events)
<1>1. /\ run \in WorkRun /\ Chained(run) /\ IsInjective(run.artifacts)
      /\ EvidenceMatchesEvents(run) /\ Announced(run)
      /\ run.state = "publishing_draft_pr" /\ run.draft_pr_url = None
  BY DEF Story, CanRecordDraftPr
<1>2. /\ new \in WorkRun /\ new.state = run.state /\ new.artifacts = run.artifacts
      /\ new.draft_pr_url = url /\ new.events = Append(run.events, e)
  BY <1>1, RecordFields
<1>3. /\ e \in WorkRunEvent /\ e.name = "draft_pr_recorded" /\ e.state = run.state
      /\ e.detail = url
  BY <1>1 DEF Event, WorkRunEvent, WorkRun, Detail
<1>4. url # None
  BY NoneAssumption
<1> HIDE DEF e, new
<1>5. /\ n \in Nat \ {0} /\ DOMAIN run.events = 1..n
      /\ DOMAIN new.events = 1..(n + 1) /\ Len(new.events) = n + 1
      /\ \A i \in 1..n : new.events[i] = run.events[i]
      /\ new.events[n + 1] = e
  BY <1>1, <1>2, EventsOfRun
<1>6. Chained(new)
  <2>1. ASSUME NEW i \in 2..(n + 1)
        PROVE  Follows(new.events[i - 1], new.events[i])
    <3>1. CASE i = n + 1
      <4>1. new.events[i - 1] = run.events[n] /\ new.events[i] = e
        BY <1>5, <3>1
      <4> QED
        BY <1>1, <1>3, <4>1 DEF Chained, Follows
    <3>2. CASE i # n + 1
      <4>1. i \in 2..n /\ i - 1 \in 1..n /\ i \in 1..n
        BY <1>5, <3>2
      <4> QED
        BY <1>1, <1>5, <4>1 DEF Chained
    <3> QED
      BY <3>1, <3>2
  <2>2. new.events[1] = run.events[1]
    BY <1>5
  <2> QED
    BY <1>1, <1>2, <1>3, <1>5, <2>1, <2>2 DEF Chained
<1>7. EvidenceMatchesEvents(new)
  BY <1>1, <1>2, <1>3, EvidenceKept
<1>8. EventsNamed(run, "draft_pr_recorded") = {}
  BY <1>1 DEF Announced
<1>9. EventsNamed(new, "draft_pr_recorded") = {n + 1}
  BY <1>3, <1>5, <1>8, SMTT(30) DEF EventsNamed
<1>10. Announced(new)
  BY <1>1, <1>2, <1>3, <1>4, <1>5, <1>9 DEF Announced
<1>11. Story(new)
  BY <1>1, <1>2, <1>6, <1>7, <1>10 DEF Story
<1> QED
  BY <1>11 DEF new

\* A run with a bundle attached, element by element.
LEMMA AttachedElements ==
  ASSUME NEW run \in WorkRun, NEW bundle \in Seq(ArtifactIds)
  PROVE  LET new == attach_artifact(run, bundle)
             n == Len(run.events)
             m == Len(bundle)
             a == Len(run.artifacts)
         IN  /\ n \in Nat \ {0} /\ m \in Nat /\ a \in Nat
             /\ DOMAIN run.events = 1..n
             /\ DOMAIN new.events = 1..(n + m) /\ Len(new.events) = n + m
             /\ \A i \in 1..n : new.events[i] = run.events[i]
             /\ \A i \in (n + 1)..(n + m) :
                  /\ new.events[i].name = "artifact_attached"
                  /\ new.events[i].state = run.state
                  /\ new.events[i].detail = bundle[i - n]
             /\ DOMAIN run.artifacts = 1..a /\ DOMAIN bundle = 1..m
             /\ DOMAIN new.artifacts = 1..(a + m) /\ Len(new.artifacts) = a + m
             /\ \A i \in 1..a : new.artifacts[i] = run.artifacts[i]
             /\ \A i \in 1..m : new.artifacts[a + i] = bundle[i]
<1> DEFINE new == attach_artifact(run, bundle)
           n == Len(run.events)
           m == Len(bundle)
           a == Len(run.artifacts)
           added == [i \in 1..m |-> Event("artifact_attached", run.state, bundle[i])]
<1>1. /\ n \in Nat \ {0} /\ DOMAIN run.events = 1..n /\ run.events \in Seq(WorkRunEvent)
  BY EventsOfRun
<1>2. /\ run.artifacts \in Seq(ArtifactIds) /\ a \in Nat /\ m \in Nat
      /\ DOMAIN run.artifacts = 1..a /\ DOMAIN bundle = 1..m
  BY DEF WorkRun
<1>3. added \in Seq(WorkRunEvent) /\ Len(added) = m
  BY AttachedEvents
<1>4. new.events = run.events \o added /\ new.artifacts = run.artifacts \o bundle
  BY AttachFields
<1>5. \A i \in 1..m :
        /\ added[i].name = "artifact_attached"
        /\ added[i].state = run.state
        /\ added[i].detail = bundle[i]
  BY DEF Event
<1> HIDE DEF added, new
<1>6. /\ run.events \o added \in Seq(WorkRunEvent)
      /\ Len(run.events \o added) = n + m
      /\ \A i \in 1..(n + m) : (run.events \o added)[i] =
           IF i <= n THEN run.events[i] ELSE added[i - n]
  BY <1>1, <1>3, ConcatProperties, ZenonT(30)
<1>7. /\ run.artifacts \o bundle \in Seq(ArtifactIds)
      /\ Len(run.artifacts \o bundle) = a + m
      /\ \A i \in 1..(a + m) : (run.artifacts \o bundle)[i] =
           IF i <= a THEN run.artifacts[i] ELSE bundle[i - a]
  BY <1>2, ConcatProperties
<1>8. /\ DOMAIN new.events = 1..(n + m) /\ Len(new.events) = n + m
      /\ \A i \in 1..n : new.events[i] = run.events[i]
  BY <1>1, <1>2, <1>4, <1>6
<1>9. ASSUME NEW i \in (n + 1)..(n + m)
      PROVE  /\ new.events[i].name = "artifact_attached"
             /\ new.events[i].state = run.state
             /\ new.events[i].detail = bundle[i - n]
  <2>1. i - n \in 1..m /\ i \in 1..(n + m) /\ ~(i <= n)
    BY <1>1, <1>2
  <2> QED
    BY <1>4, <1>5, <1>6, <2>1
<1>10. /\ DOMAIN new.artifacts = 1..(a + m) /\ Len(new.artifacts) = a + m
       /\ \A i \in 1..a : new.artifacts[i] = run.artifacts[i]
  BY <1>2, <1>4, <1>7
<1>11. ASSUME NEW i \in 1..m
       PROVE  new.artifacts[a + i] = bundle[i]
  <2>1. a + i \in 1..(a + m) /\ ~(a + i <= a) /\ (a + i) - a = i
    BY <1>2
  <2> QED
    BY <1>4, <1>7, <2>1
<1>12. /\ n \in Nat \ {0} /\ m \in Nat /\ a \in Nat
       /\ DOMAIN run.events = 1..n
       /\ DOMAIN new.events = 1..(n + m) /\ Len(new.events) = n + m
       /\ \A i \in 1..n : new.events[i] = run.events[i]
       /\ \A i \in (n + 1)..(n + m) :
            /\ new.events[i].name = "artifact_attached"
            /\ new.events[i].state = run.state
            /\ new.events[i].detail = bundle[i - n]
       /\ DOMAIN run.artifacts = 1..a /\ DOMAIN bundle = 1..m
       /\ DOMAIN new.artifacts = 1..(a + m) /\ Len(new.artifacts) = a + m
       /\ \A i \in 1..a : new.artifacts[i] = run.artifacts[i]
       /\ \A i \in 1..m : new.artifacts[a + i] = bundle[i]
  BY <1>1, <1>2, <1>8, <1>9, <1>10, <1>11
<1> QED
  BY <1>12 DEF new

\* Attaching a bundle keeps evidence and events in step.
LEMMA EvidenceAttached ==
  ASSUME NEW run \in WorkRun, EvidenceMatchesEvents(run), NEW bundle \in Seq(ArtifactIds)
  PROVE  EvidenceMatchesEvents(attach_artifact(run, bundle))
<1> DEFINE new == attach_artifact(run, bundle)
           n == Len(run.events)
           m == Len(bundle)
           a == Len(run.artifacts)
           old == EventsNamed(run, "artifact_attached")
           all == EventsNamed(new, "artifact_attached")
<1>1. /\ n \in Nat \ {0} /\ m \in Nat /\ a \in Nat
      /\ DOMAIN run.events = 1..n /\ DOMAIN new.events = 1..(n + m)
      /\ \A i \in 1..n : new.events[i] = run.events[i]
      /\ \A i \in (n + 1)..(n + m) :
           new.events[i].name = "artifact_attached" /\ new.events[i].detail = bundle[i - n]
      /\ Len(new.artifacts) = a + m
      /\ \A i \in 1..a : new.artifacts[i] = run.artifacts[i]
      /\ \A i \in 1..m : new.artifacts[a + i] = bundle[i]
  BY AttachedElements
<1>3. /\ Cardinality(old) = a
      /\ \A i \in old : run.artifacts[Cardinality({j \in old : j <= i})] = run.events[i].detail
  BY DEF EvidenceMatchesEvents
<1>4. IsFiniteSet(old) /\ old \subseteq 1..n
  BY EventsOfRun
<1>5. \A i \in old : Cardinality({j \in old : j <= i}) \in 1..a
  BY <1>3, RankInRange
<1>6. all = old \cup ((n + 1)..(n + m))
  <2> HIDE DEF new, n, m, a
  <2>1. \A i \in 1..(n + m) : i \in 1..n \/ i \in (n + 1)..(n + m)
    BY <1>1
  <2>2. \A i : i \in 1..n \/ i \in (n + 1)..(n + m) => i \in 1..(n + m)
    BY <1>1
  <2>3. all = {i \in 1..(n + m) : new.events[i].name = "artifact_attached"}
    BY <1>1 DEF EventsNamed
  <2>4. old = {i \in 1..n : run.events[i].name = "artifact_attached"}
    BY <1>1 DEF EventsNamed
  <2> HIDE DEF old, all
  <2> QED
    BY <1>1, <2>1, <2>2, <2>3, <2>4
<1> HIDE DEF new, n, m, a, old, all
<1>7. ASSUME NEW p \in 0..m
      PROVE  Cardinality(old \cup ((n + 1)..(n + p))) = a + p
  <2>0. n + 1 \in Int /\ n + p \in Int /\ p \in Nat
    BY <1>1
  <2>1. IsFiniteSet((n + 1)..(n + p)) /\ Cardinality((n + 1)..(n + p)) = p
    <3>1. IsFiniteSet((n + 1)..(n + p)) /\ Cardinality((n + 1)..(n + p)) =
            IF n + 1 > n + p THEN 0 ELSE (n + p) - (n + 1) + 1
      BY <2>0, FS_Interval
    <3> QED
      BY <1>1, <2>0, <3>1
  <2>2. old \cap ((n + 1)..(n + p)) = {}
    BY <1>1, <1>4
  <2>3. Cardinality(old \cup ((n + 1)..(n + p))) =
          Cardinality(old) + Cardinality((n + 1)..(n + p)) - Cardinality(old \cap ((n + 1)..(n + p)))
    BY <1>4, <2>1, FS_Union
  <2>4. Cardinality(old \cap ((n + 1)..(n + p))) = 0
    BY <2>2, FS_EmptySet
  <2> QED
    BY <1>1, <1>3, <2>1, <2>3, <2>4
<1>8. Len(new.artifacts) = Cardinality(all)
  <2>1. m \in 0..m
    BY <1>1
  <2> QED
    BY <1>1, <1>6, <1>7, <2>1
<1>9. ASSUME NEW i \in all
      PROVE  new.artifacts[Cardinality({j \in all : j <= i})] = new.events[i].detail
  <2>1. CASE i \in old
    <3>1. {j \in all : j <= i} = {j \in old : j <= i}
      BY <1>1, <1>4, <1>6, <2>1
    <3>2. i \in 1..n
      BY <1>4, <2>1
    <3> QED
      BY <1>1, <1>3, <1>5, <2>1, <3>1, <3>2
  <2>2. CASE i \in (n + 1)..(n + m)
    <3> DEFINE p == i - n
    <3>1. p \in 1..m /\ p \in 0..m /\ i = n + p
      BY <1>1, <2>2
    <3>2. {j \in all : j <= i} = old \cup ((n + 1)..(n + p))
      <4>1. ASSUME NEW j \in old
            PROVE  j <= i
        BY <1>1, <1>4, <3>1
      <4>2. ASSUME NEW j \in (n + 1)..(n + m)
            PROVE  j <= i <=> j \in (n + 1)..(n + p)
        BY <1>1, <3>1
      <4>3. \A j \in (n + 1)..(n + p) : j \in (n + 1)..(n + m)
        BY <1>1, <3>1
      <4> QED
        BY <1>6, <4>1, <4>2, <4>3
    <3>3. Cardinality({j \in all : j <= i}) = a + p
      BY <1>7, <3>1, <3>2
    <3> HIDE DEF p
    <3>4. new.artifacts[a + p] = bundle[p]
      BY <1>1, <3>1
    <3>5. new.events[i].detail = bundle[p]
      BY <1>1, <2>2 DEF p
    <3> QED
      BY <3>3, <3>4, <3>5
  <2> QED
    BY <1>6, <2>1, <2>2
<1>10. EvidenceMatchesEvents(new)
  BY <1>8, <1>9 DEF EvidenceMatchesEvents, all
<1> QED
  BY <1>10 DEF new

\* Attaching a bundle whose artifacts are new, and differ, keeps the story.
LEMMA AttachStory ==
  ASSUME NEW run, Story(run), NEW bundle \in Seq(ArtifactIds), CanAttach(run, bundle)
  PROVE  Story(attach_artifact(run, bundle))
<1> DEFINE new == attach_artifact(run, bundle)
           n == Len(run.events)
           m == Len(bundle)
           a == Len(run.artifacts)
<1>1. /\ run \in WorkRun /\ Chained(run) /\ IsInjective(run.artifacts)
      /\ EvidenceMatchesEvents(run) /\ Announced(run)
  BY DEF Story
<1>2. /\ new \in WorkRun /\ new.state = run.state
      /\ new.draft_pr_url = run.draft_pr_url
  BY <1>1, AttachFields
<1>3. /\ n \in Nat \ {0} /\ m \in Nat /\ a \in Nat
      /\ DOMAIN run.events = 1..n /\ DOMAIN new.events = 1..(n + m)
      /\ Len(new.events) = n + m
      /\ \A i \in 1..n : new.events[i] = run.events[i]
      /\ \A i \in (n + 1)..(n + m) :
           new.events[i].name = "artifact_attached" /\ new.events[i].state = run.state
      /\ DOMAIN run.artifacts = 1..a /\ DOMAIN bundle = 1..m
      /\ DOMAIN new.artifacts = 1..(a + m)
      /\ \A i \in 1..a : new.artifacts[i] = run.artifacts[i]
      /\ \A i \in 1..m : new.artifacts[a + i] = bundle[i]
  BY <1>1, AttachedElements
<1>5. EvidenceMatchesEvents(new)
  BY <1>1, EvidenceAttached
<1> HIDE DEF new, n, m, a
<1>6. \A i \in n..(n + m) : new.events[i].state = run.state
  <2> SUFFICES ASSUME NEW i \in n..(n + m)
               PROVE  new.events[i].state = run.state
    OBVIOUS
  <2>1. CASE i = n
    <3>0. n \in 1..n
      BY <1>3
    <3>1. new.events[n] = run.events[n]
      BY <1>3, <3>0
    <3>2. run.events[n].state = run.state
      BY <1>1 DEF Chained, n
    <3> QED
      BY <2>1, <3>1, <3>2
  <2>2. CASE i # n
    <3>1. i \in (n + 1)..(n + m)
      BY <1>3, <2>2
    <3> QED
      BY <1>3, <3>1
  <2> QED
    BY <2>1, <2>2
<1>7. Chained(new)
  <2>1. ASSUME NEW i \in 2..(n + m)
        PROVE  Follows(new.events[i - 1], new.events[i])
    <3>1. CASE i > n
      <4>1. i \in (n + 1)..(n + m) /\ i \in n..(n + m) /\ i - 1 \in n..(n + m)
        BY <1>3, <3>1
      <4> QED
        BY <1>3, <1>6, <4>1 DEF Follows
    <3>2. CASE ~(i > n)
      <4>1. i \in 2..n /\ i - 1 \in 1..n /\ i \in 1..n
        BY <1>3, <3>2
      <4> QED
        BY <1>1, <1>3, <4>1 DEF Chained, n
    <3> QED
      BY <3>1, <3>2
  <2>2. new.events[1] = run.events[1] /\ n + m \in n..(n + m)
    BY <1>3
  <2> QED
    BY <1>1, <1>2, <1>3, <1>6, <2>1, <2>2 DEF Chained
<1>8. IsInjective(new.artifacts)
  <2>1. /\ \A i, j \in 1..a : run.artifacts[i] = run.artifacts[j] => i = j
        /\ \A i, j \in 1..m : bundle[i] = bundle[j] => i = j
        /\ \A i \in 1..a, j \in 1..m : run.artifacts[i] # bundle[j]
    <3>1. \A i, j \in 1..a : run.artifacts[i] = run.artifacts[j] => i = j
      BY <1>1, <1>3 DEF IsInjective
    <3>2. \A i, j \in 1..m : bundle[i] = bundle[j] => i = j
      BY <1>3 DEF CanAttach, IsInjective
    <3>3. ASSUME NEW i \in 1..a, NEW j \in 1..m
          PROVE  run.artifacts[i] # bundle[j]
      <4>1. run.artifacts[i] \in Range(run.artifacts) /\ bundle[j] \in Range(bundle)
        BY <1>3 DEF Range
      <4> QED
        BY <4>1 DEF CanAttach
    <3> QED
      BY <3>1, <3>2, <3>3
  <2>2. \A i \in 1..(a + m) : i \in 1..a \/ \E p \in 1..m : i = a + p
    <3> SUFFICES ASSUME NEW i \in 1..(a + m), i \notin 1..a
                 PROVE  \E p \in 1..m : i = a + p
      OBVIOUS
    <3>1. i - a \in 1..m /\ i = a + (i - a)
      BY <1>3
    <3> QED
      BY <3>1
  <2>4. /\ \A i \in 1..a : new.artifacts[i] = run.artifacts[i]
        /\ \A i \in 1..m : new.artifacts[a + i] = bundle[i]
    BY <1>3
  <2>3. ASSUME NEW i \in 1..(a + m), NEW j \in 1..(a + m),
               new.artifacts[i] = new.artifacts[j]
        PROVE  i = j
    <3>1. CASE i \in 1..a /\ j \in 1..a
      BY <2>1, <2>3, <2>4, <3>1
    <3>2. CASE \E p, q \in 1..m : i = a + p /\ j = a + q
      BY <2>1, <2>3, <2>4, <3>2
    <3>3. CASE i \in 1..a /\ \E q \in 1..m : j = a + q
      BY <2>1, <2>3, <2>4, <3>3
    <3>4. CASE j \in 1..a /\ \E q \in 1..m : i = a + q
      BY <2>1, <2>3, <2>4, <3>4
    <3> QED
      BY <2>2, <3>1, <3>2, <3>3, <3>4
  <2> QED
    BY <1>3, <2>3 DEF IsInjective
<1>9. EventsNamed(new, "draft_pr_recorded") = EventsNamed(run, "draft_pr_recorded")
  <2>1. \A i \in 1..(n + m) : i \in 1..n \/ i \in (n + 1)..(n + m)
    BY <1>3
  <2>2. \A i \in 1..n : i \in 1..(n + m)
    BY <1>3
  <2> QED
    BY <1>3, <2>1, <2>2 DEF EventsNamed
<1>10. Announced(new)
  BY <1>1, <1>2, <1>3, <1>9, EventsOfRun DEF Announced, n
<1>11. Story(new)
  BY <1>2, <1>5, <1>7, <1>8, <1>10 DEF Story
<1> QED
  BY <1>11 DEF new

\* A pristine run, with nothing but its approval, tells its story.
LEMMA PristineStory ==
  ASSUME NEW run \in WorkRun, IsPristine(run),
         run.events[1].name = "approved", run.events[1].state = "approved"
  PROVE  Story(run)
<1>1. /\ run.state = "approved" /\ Len(run.events) = 1
      /\ run.artifacts = <<>> /\ run.draft_pr_url = None
  BY DEF IsPristine
<1>2. DOMAIN run.events = {1}
  BY <1>1, EventsOfRun
<1>3. /\ EventsNamed(run, "artifact_attached") = {}
      /\ EventsNamed(run, "draft_pr_recorded") = {}
  BY <1>2 DEF EventsNamed
<1>4. EvidenceMatchesEvents(run)
  BY <1>1, <1>3, FS_EmptySet DEF EvidenceMatchesEvents
<1>5. IsInjective(run.artifacts)
  BY <1>1 DEF IsInjective
<1>6. Chained(run)
  BY <1>1 DEF Chained
<1>7. Announced(run)
  BY <1>1, <1>3 DEF Announced
<1> QED
  BY <1>1, <1>4, <1>5, <1>6, <1>7 DEF Story

------------------------------------------------------------------------------
(* Publications and the verifications they rest on. *)

\* Every entry into publication follows, with only evidence between, a history
\* that the verifier has passed.
Backed(run, histories) ==
  \A k \in DOMAIN run.events :
    run.events[k].name = "entered" /\ run.events[k].state = "publishing_draft_pr" =>
      \E n \in 1..(k - 1) :
        /\ SubSeq(run.events, 1, n) \in histories
        /\ \A j \in (n + 1)..(k - 1) : run.events[j].name = "artifact_attached"

\* A transition of a run to which nothing but evidence or a Draft PR was added
\* keeps publications backed, and its own if the verifier passed the run.
LEMMA TransitionBacked ==
  ASSUME NEW run \in WorkRun, NEW P, NEW Q, P \subseteq Q, Backed(run, P),
         NEW updated \in WorkRun, IsPrefix(run.events, updated.events),
         \A j \in (Len(run.events) + 1)..Len(updated.events) : updated.events[j].name # "entered",
         NEW s \in WorkRunState, NEW d \in Detail,
         s = "publishing_draft_pr" =>
           /\ run.events \in Q
           /\ \A j \in (Len(run.events) + 1)..Len(updated.events) :
                updated.events[j].name = "artifact_attached"
  PROVE  Backed(transition_to(updated, s, d), Q)
<1> DEFINE e == Event("entered", s, d)
           new == transition_to(updated, s, d)
           n == Len(run.events)
           m == Len(updated.events)
<1>1. /\ new.events = Append(updated.events, e)
      /\ e.name = "entered" /\ e.state = s /\ e \in WorkRunEvent
  BY TransitionFields DEF Event, WorkRunEvent
<1> HIDE DEF e, new
<1>2. /\ run.events \in Seq(WorkRunEvent) /\ n \in Nat \ {0} /\ DOMAIN run.events = 1..n
      /\ updated.events \in Seq(WorkRunEvent) /\ m \in Nat
      /\ DOMAIN updated.events = 1..m
  BY EventsOfRun
<1>3. n <= m /\ \A i \in 1..n : run.events[i] = updated.events[i]
  BY <1>2, PrefixElements
<1>4. /\ new.events \in Seq(WorkRunEvent) /\ Len(new.events) = m + 1
      /\ DOMAIN new.events = 1..(m + 1)
      /\ \A i \in 1..m : new.events[i] = updated.events[i]
      /\ new.events[m + 1] = e
  BY <1>1, <1>2
<1>5. \A i \in 1..n : new.events[i] = run.events[i]
  BY <1>2, <1>3, <1>4
<1>6. ASSUME NEW i \in 1..n
      PROVE  SubSeq(new.events, 1, i) = SubSeq(run.events, 1, i)
  <2>1. i \in Nat /\ i <= n /\ i <= m + 1
    BY <1>2, <1>3
  <2>2. /\ SubSeq(new.events, 1, i) \in Seq(WorkRunEvent)
        /\ Len(SubSeq(new.events, 1, i)) = i
        /\ \A j \in 1..i : SubSeq(new.events, 1, i)[j] = new.events[j]
    BY <1>4, <2>1
  <2>3. /\ SubSeq(run.events, 1, i) \in Seq(WorkRunEvent)
        /\ Len(SubSeq(run.events, 1, i)) = i
        /\ \A j \in 1..i : SubSeq(run.events, 1, i)[j] = run.events[j]
    BY <1>2, <2>1
  <2>4. \A j \in 1..i : new.events[j] = run.events[j]
    BY <1>5, <2>1
  <2> QED
    BY <2>2, <2>3, <2>4, SeqEqual
<1>7. SubSeq(new.events, 1, n) = run.events
  <2>1. n \in 1..n /\ SubSeq(run.events, 1, n) = run.events
    BY <1>2
  <2> QED
    BY <1>6, <2>1
<1>8. ASSUME NEW k \in 1..(m + 1),
             new.events[k].name = "entered", new.events[k].state = "publishing_draft_pr"
      PROVE  \E i \in 1..(k - 1) :
               /\ SubSeq(new.events, 1, i) \in Q
               /\ \A j \in (i + 1)..(k - 1) : new.events[j].name = "artifact_attached"
  <2>1. CASE k \in 1..n
    <3>1. run.events[k].name = "entered" /\ run.events[k].state = "publishing_draft_pr"
      BY <1>5, <1>8, <2>1
    <3>2. PICK i \in 1..(k - 1) :
            /\ SubSeq(run.events, 1, i) \in P
            /\ \A j \in (i + 1)..(k - 1) : run.events[j].name = "artifact_attached"
      BY <1>2, <2>1, <3>1 DEF Backed
    <3>3. i \in 1..n /\ \A j \in (i + 1)..(k - 1) : j \in 1..n
      BY <1>2, <2>1, <3>2
    <3> QED
      BY <1>5, <1>6, <3>2, <3>3
  <2>2. CASE k \in (n + 1)..m
    <3>1. new.events[k] = updated.events[k]
      BY <1>2, <1>4, <2>2
    <3> QED
      BY <1>8, <2>2, <3>1
  <2>3. CASE k = m + 1
    <3>1. s = "publishing_draft_pr"
      BY <1>1, <1>4, <1>8, <2>3
    <3>2. n \in 1..(k - 1) /\ k - 1 = m
      BY <1>2, <1>3, <2>3
    <3>3. \A j \in (n + 1)..m : new.events[j].name = "artifact_attached"
      <4>1. \A j \in (n + 1)..m : j \in 1..m
        BY <1>2
      <4> QED
        BY <1>4, <3>1, <4>1
    <3> QED
      BY <1>7, <3>1, <3>2, <3>3
  <2>4. k \in 1..n \/ k \in (n + 1)..m \/ k = m + 1
    <3> HIDE DEF n, m
    <3> QED
      BY <1>2
  <2> QED
    BY <2>1, <2>2, <2>3, <2>4
<1>9. Backed(new, Q)
  BY <1>4, <1>8 DEF Backed
<1> QED
  BY <1>9 DEF new

------------------------------------------------------------------------------
(* How a stage or a command continues a run. *)

\* `updated` is `run`, with the evidence of a stage or without.
Gathers(run, updated) ==
  \/ updated = run
  \/ \E bundle \in Seq(ArtifactIds) :
       CanAttach(run, bundle) /\ updated = attach_artifact(run, bundle)

\* `new` continues `run` by what one stage, or one command, does to it.
Continues(run, new, histories) ==
  \/ \E updated : \E s \in WorkRunState \ {"completed"}, d \in Detail :
       /\ Gathers(run, updated) /\ CanTransition(updated, s)
       /\ s = "publishing_draft_pr" => run.events \in histories
       /\ new = transition_to(updated, s, d)
  \/ \E url \in PullRequests :
       /\ CanRecordDraftPr(run)
       /\ CanTransition(record_draft_pr(run, url), "completed")
       /\ new = transition_to(record_draft_pr(run, url), "completed", None)

\* A run that tells its story and has not been published.
Opening(run) == Story(run) /\ Backed(run, {})

\* Pristine, and approved by its first event.
Approval(run) ==
  /\ run \in WorkRun /\ IsPristine(run)
  /\ run.events[1].name = "approved" /\ run.events[1].state = "approved"

\* A continuation of a run goes on with its story.
LEMMA ContinuedStory ==
  ASSUME NEW run, Story(run), NEW P, NEW Q, P \subseteq Q, Backed(run, P),
         NEW new, Continues(run, new, Q)
  PROVE  Story(new) /\ Backed(new, Q)
<1>1. run \in WorkRun /\ run.events \in Seq(WorkRunEvent) /\ Len(run.events) \in Nat
  BY EventsOfRun DEF Story
<1>2. ASSUME NEW updated, NEW s \in WorkRunState \ {"completed"}, NEW d \in Detail,
             Gathers(run, updated), CanTransition(updated, s),
             s = "publishing_draft_pr" => run.events \in Q
      PROVE  Story(transition_to(updated, s, d)) /\ Backed(transition_to(updated, s, d), Q)
  <2>1. CASE updated = run
    <3>1. /\ IsPrefix(run.events, updated.events)
          /\ \A j \in (Len(run.events) + 1)..Len(updated.events) : FALSE
      BY <1>1, <2>1, PrefixElements
    <3>2. Backed(transition_to(updated, s, d), Q)
      BY <1>1, <1>2, <2>1, <3>1, TransitionBacked
    <3> QED
      BY <1>2, <2>1, <3>2, TransitionStory
  <2>2. ASSUME NEW bundle \in Seq(ArtifactIds), CanAttach(run, bundle),
               updated = attach_artifact(run, bundle)
        PROVE  Story(transition_to(updated, s, d)) /\ Backed(transition_to(updated, s, d), Q)
    <3>1. Story(updated) /\ updated \in WorkRun
      BY <2>2, AttachStory DEF Story
    <3>2. IsPrefix(run.events, updated.events)
      BY <1>1, <2>2, OperationsGrow DEF Grows
    <3>3. \A j \in (Len(run.events) + 1)..Len(updated.events) :
            updated.events[j].name = "artifact_attached"
      BY <1>1, <2>2, AttachedElements
    <3>4. Backed(transition_to(updated, s, d), Q)
      BY <1>1, <1>2, <3>1, <3>2, <3>3, TransitionBacked
    <3> QED
      BY <1>2, <3>1, <3>4, TransitionStory
  <2> QED
    BY <1>2, <2>1, <2>2 DEF Gathers
<1>3. ASSUME NEW url \in PullRequests, CanRecordDraftPr(run),
             CanTransition(record_draft_pr(run, url), "completed")
      PROVE  /\ Story(transition_to(record_draft_pr(run, url), "completed", None))
             /\ Backed(transition_to(record_draft_pr(run, url), "completed", None), Q)
  <2> DEFINE updated == record_draft_pr(run, url)
             e == Event("draft_pr_recorded", run.state, url)
  <2>1. /\ Story(updated) /\ updated \in WorkRun /\ updated.draft_pr_url # None
        /\ updated.events = Append(run.events, e)
    BY <1>1, <1>3, RecordStory, RecordFields, NoneAssumption DEF Story
  <2>2. e.name = "draft_pr_recorded"
    BY DEF Event
  <2>3. IsPrefix(run.events, updated.events)
    BY <1>1, OperationsGrow DEF Grows
  <2>4. "completed" \in WorkRunState /\ None \in Detail
    BY DEF WorkRunState, TERMINAL_STATES, Detail
  <2>5. CanTransition(updated, "completed")
    BY <1>3
  <2> HIDE DEF updated, e
  <2>6. \A j \in (Len(run.events) + 1)..Len(updated.events) : updated.events[j].name # "entered"
    BY <1>1, <2>1, <2>2
  <2>7. Backed(transition_to(updated, "completed", None), Q)
    BY <1>1, <2>1, <2>3, <2>4, <2>6, TransitionBacked
  <2>8. Story(transition_to(updated, "completed", None))
    BY <2>1, <2>4, <2>5, TransitionStory
  <2> QED
    BY <2>7, <2>8 DEF updated
<1> QED
  BY <1>2, <1>3 DEF Continues

\* An approval opens the story, and so does one that is blocked at once.
LEMMA ApprovalOpens ==
  ASSUME NEW run, Approval(run)
  PROVE  Opening(run) /\ \A d \in Detail : Opening(transition_to(run, "blocked", d))
<1>1. Story(run)
  BY PristineStory DEF Approval
<1>2. DOMAIN run.events = {1} /\ run.events[1].name # "entered"
  BY EventsOfRun DEF Approval, IsPristine
<1>3. Backed(run, {})
  BY <1>2 DEF Backed
<1>4. ASSUME NEW d \in Detail
      PROVE  Continues(run, transition_to(run, "blocked", d), {})
  <2>1. CanTransition(run, "blocked") /\ "blocked" \in WorkRunState \ {"completed"}
    BY DEF Approval, IsPristine, CanTransition, ALLOWED_TRANSITIONS, ACTIVE_STATES,
           WorkRunState, TERMINAL_STATES
  <2> QED
    BY <2>1 DEF Continues, Gathers
<1> QED
  BY <1>1, <1>3, <1>4, ContinuedStory DEF Opening

=============================================================================
