------------------------------- MODULE WorkRun -------------------------------
(***************************************************************************)
(* The WorkRun aggregate (src/gearmeshing_ai/domain/work_run.py): an       *)
(* immutable record of one human-approved change.  Every operation returns *)
(* a new aggregate with one more audit event.                              *)
(*                                                                         *)
(* Data is abstracted to what the properties distinguish.  `revision`      *)
(* stands for the correlation of a run, that is for the specification      *)
(* revision and digest it pins.  An event keeps its name, its state and    *)
(* one `detail`: the approver of the approval event, the artifact of an    *)
(* artifact event, the pull request of a Draft PR event, the failure code  *)
(* of a transition that carries one.  The name entered_<state> of a        *)
(* transition event is "entered" here: the event carries the state.        *)
(***************************************************************************)
EXTENDS Naturals, SequencesExt

CONSTANTS
  Revisions,      \* specification revisions a correlation can pin
  Approvers,      \* actors who approve work
  ArtifactIds,    \* identities of evidence artifacts
  PullRequests,   \* Draft PR URLs that the domain accepts
  None            \* Python's None: no checkpoint, no Draft PR, no detail

------------------------------------------------------------------------------

TERMINAL_STATES == {"completed", "failed", "blocked", "cancelled"}

ACTIVE_STATES ==
  {"approved", "executing", "verifying", "remediating", "publishing_draft_pr"}

WorkRunState == ACTIVE_STATES \cup TERMINAL_STATES

\* The permitted transitions, as a relation.
ALLOWED_TRANSITIONS ==
  { <<"approved", "executing">>, <<"executing", "verifying">>,
    <<"verifying", "remediating">>, <<"verifying", "publishing_draft_pr">>,
    <<"remediating", "verifying">>, <<"publishing_draft_pr", "completed">> }
  \cup (ACTIVE_STATES \X {"blocked", "failed", "cancelled"})

------------------------------------------------------------------------------

FailureCode ==
  { "work_item_not_ready", "policy_denied", "operation_failed",
    "execution_blocked", "execution_failed", "execution_cancelled",
    "execution_timed_out", "execution_resource_exhausted",
    "remediation_limit_reached" }

Detail == {None} \cup Approvers \cup ArtifactIds \cup PullRequests \cup FailureCode

WorkRunEvent ==
  [ name: {"approved", "entered", "artifact_attached", "draft_pr_recorded"},
    state: WorkRunState,
    detail: Detail ]

\* The shape of an aggregate; IsValid below is what its constructor demands.
WorkRun ==
  [ revision: Revisions,
    state: WorkRunState,
    events: Seq(WorkRunEvent) \ {<<>>},
    artifacts: Seq(ArtifactIds),
    draft_pr_url: PullRequests \cup {None} ]

\* None is not a value of any other kind.
ASSUME NoneAssumption ==
  None \notin WorkRun \cup WorkRunState \cup Revisions \cup PullRequests

------------------------------------------------------------------------------

Event(name, state, detail) == [name |-> name, state |-> state, detail |-> detail]

approve(revision, approver) ==
  [ revision |-> revision,
    state |-> "approved",
    events |-> <<Event("approved", "approved", approver)>>,
    artifacts |-> <<>>,
    draft_pr_url |-> None ]

CanTransition(run, target) == <<run.state, target>> \in ALLOWED_TRANSITIONS

transition_to(run, target, detail) ==
  [run EXCEPT !.state = target,
              !.events = Append(@, Event("entered", target, detail))]

\* Mutant: nothing rejects an artifact id that the run already has.
CanAttachAgain(run, bundle) == bundle # <<>> => run.state \notin TERMINAL_STATES

\* Attaching evidence raises for a terminal run and for an artifact id that
\* the run already has, one attached earlier in the same bundle included.
CanAttach(run, bundle) ==
  /\ bundle # <<>> => run.state \notin TERMINAL_STATES
  /\ IsInjective(bundle)
  /\ Range(bundle) \cap Range(run.artifacts) = {}

\* Mutant: a new bundle replaces the evidence of the earlier stages.
attach_replacing(run, bundle) ==
  [run EXCEPT
     !.events = @ \o [i \in 1..Len(bundle) |->
                        Event("artifact_attached", run.state, bundle[i])],
     !.artifacts = bundle]

\* The artifacts of `bundle` attached one after the other.
attach_artifact(run, bundle) ==
  [run EXCEPT
     !.events = @ \o [i \in 1..Len(bundle) |->
                        Event("artifact_attached", run.state, bundle[i])],
     !.artifacts = @ \o bundle]

CanRecordDraftPr(run) == run.state = "publishing_draft_pr" /\ run.draft_pr_url = None

record_draft_pr(run, url) ==
  [run EXCEPT !.events = Append(@, Event("draft_pr_recorded", run.state, url)),
              !.draft_pr_url = url]

------------------------------------------------------------------------------

DraftPrEvents(run) ==
  {i \in DOMAIN run.events : run.events[i].name = "draft_pr_recorded"}

\* What the constructor checks of every aggregate, built or deserialized.
IsValid(run) ==
  /\ run.events # <<>>
  /\ run.events[1].state = "approved"
  /\ \A i \in 1..(Len(run.events) - 1) :
       \/ run.events[i].state = run.events[i + 1].state
       \/ <<run.events[i].state, run.events[i + 1].state>> \in ALLOWED_TRANSITIONS
  /\ Last(run.events).state = run.state
  /\ IsInjective(run.artifacts)
  /\ IF run.draft_pr_url = None
     THEN DraftPrEvents(run) = {}
     ELSE \E i \in DOMAIN run.events :
            /\ DraftPrEvents(run) = {i}
            /\ run.events[i].state = "publishing_draft_pr"
            /\ run.events[i].detail = run.draft_pr_url
  /\ run.state = "completed" => run.draft_pr_url # None

=============================================================================
