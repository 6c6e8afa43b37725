--------------------------- MODULE MCJiraComments ---------------------------
(***************************************************************************)
(* Small instances of the Jira provider for TLC.                           *)
(***************************************************************************)
EXTENDS JiraComments

Heading(text) == [heading |-> TRUE, text |-> text]
Line(text) == [heading |-> FALSE, text |-> text]

Description ==
  << Line("why"), Heading("Acceptance Criteria"), Line("works"), Line(BLANK),
     Heading("Notes"), Line("later") >>

\* An issue that is ready, and what may be wrong with it.
Ready ==
  [ key |-> IssueKey, issue_type |-> "Story", labels |-> <<"Spec-Ready">>,
    description |-> Description, repository |-> Repository ]

SomePayloads ==
  { Ready,
    [Ready EXCEPT !.repository = None],
    [Ready EXCEPT !.repository = "elsewhere"],
    [Ready EXCEPT !.key = "another"],
    [Ready EXCEPT !.labels = <<"draft">>, !.description = SubSeq(@, 4, 6)],
    [Ready EXCEPT !.description = @ \o SubSeq(@, 2, 3)] }

Progress == {[capability |-> "update_progress", text |-> {"half"}]}

\* A comment for another key is to a search what a person's comment is, and
\* turns are taken key by key.  So a behaviour is about one key.
KeysInUse ==
  {b.key : b \in late \cup (Range(made) \ {None})} \cup
  {binding[c].key : c \in {d \in Callers : pc[d] # "idle"}}

\* If its callers take no turns, they have the issue to themselves and bring it two
\* operations that differ: such a behaviour is about their own interleaving.
OneKey ==
  \/ Cardinality(KeysInUse) <= 1 /\ KeysInUse \subseteq Serialized
  \/ /\ Cardinality(KeysInUse) = 1 /\ KeysInUse \cap Serialized = {}
     /\ late = {} /\ None \notin Range(made)
     /\ \A c \in Callers : pc[c] # "idle" =>
          binding[c].operation.capability = "update_progress"

OneKeySpec ==
  /\ Init /\ [][Next /\ OneKey']_vars
  /\ \A c \in Callers : WF_vars(Step(c))

=============================================================================
