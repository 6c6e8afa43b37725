------------------------------ MODULE JiraIssue ------------------------------
(***************************************************************************)
(* How JiraWorkManagementProvider                                          *)
(* (src/gearmeshing_ai/adapters/jira_work_management.py) reads an issue:   *)
(* the payload is normalized into a WorkItem of the work-management port   *)
(* (src/gearmeshing_ai/application/ports/work_management.py) or refused,   *)
(* and the WorkItem is ready or has problems.                              *)
(*                                                                         *)
(* A description is the sequence of its blocks, which are headings or one  *)
(* line of text each.  Texts are told apart only where a rule does: one    *)
(* may be blank, and a label or heading counts in any case.                *)
(***************************************************************************)
EXTENDS Integers, Sequences, Functions

CONSTANTS
  None,
  IssueKey,       \* the issue that is asked for
  Repository      \* the repository of the provider's configuration

BLANK == ""

NonBlank(line) == line # BLANK

HasDuplicates(s) == \E m, n \in DOMAIN s : m # n /\ s[m] = s[n]

Casefold(text) ==
  CASE text = "Spec-Ready" -> "spec-ready"
    [] text = "Acceptance Criteria" -> "acceptance criteria"
    [] OTHER -> text

\* parse_adf: blocks without text do not count, as headings neither.
IsHeading(block) == block.heading /\ NonBlank(block.text)

\* The block is a line of a section with the name.  Sections with the same
\* name, wherever they are, are one.
IsInSection(blocks, i, name) ==
  /\ NonBlank(blocks[i].text) /\ ~blocks[i].heading
  /\ \E h \in 1..(i - 1) :
       /\ IsHeading(blocks[h]) /\ Casefold(blocks[h].text) = name
       /\ \A j \in (h + 1)..(i - 1) : ~IsHeading(blocks[j])

Section(blocks, name) ==
  LET IsLine(i) == IsInSection(blocks, i, name)
      places == SelectSeq([i \in DOMAIN blocks |-> i], IsLine)
  IN  [n \in DOMAIN places |-> blocks[places[n]].text]

\* Mutant: the declaration of the issue counts.
DeclaredRepository(payload) ==
  IF payload.repository = None THEN Repository ELSE payload.repository

\* _repository: the configured one, whatever the issue says; None is raised
\* when the issue says something else.
_repository(payload) ==
  IF payload.repository \in {None, Repository} THEN Repository ELSE None

WorkItemOf(payload) ==
  [ key |-> payload.key,
    labels |-> payload.labels,
    acceptance_criteria |-> Section(payload.description, "acceptance criteria"),
    repository |-> _repository(payload),
    description_present |->
      \E i \in DOMAIN payload.description : NonBlank(payload.description[i].text),
    issue_type |-> payload.issue_type ]

\* _normalize_work_item and the validation of WorkItem: what raises.
Normalizes(payload) ==
  /\ payload.key = IssueKey
  /\ _repository(payload) # None
  /\ ~HasDuplicates(payload.labels)
  /\ ~HasDuplicates(WorkItemOf(payload).acceptance_criteria)

\* _evaluate_readiness: the codes of the problems of a work item.
Problems(item) ==
  {code \in {"unsupported-issue-type", "spec-not-ready", "missing-description",
             "missing-acceptance-criteria", "missing-repository-context"} :
     CASE code = "unsupported-issue-type" -> item.issue_type \notin {"Story", "Task"}
       [] code = "spec-not-ready" ->
            "spec-ready" \notin {Casefold(label) : label \in Range(item.labels)}
       [] code = "missing-description" -> ~item.description_present
       [] code = "missing-acceptance-criteria" -> item.acceptance_criteria = <<>>
       [] code = "missing-repository-context" -> item.repository = None}

IsReady(item) == Problems(item) = {}

=============================================================================
