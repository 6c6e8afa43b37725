---------------------------- MODULE JiraComments ----------------------------
(***************************************************************************)
(* JiraWorkManagementProvider for one issue: callers that read the issue   *)
(* and publish readiness, progress, blockers, completion and artifacts as  *)
(* comments.  A comment carries an idempotency key and a digest of what it *)
(* says; a call pages through the comments for its own before it creates   *)
(* one.  Jira, the people who edit the issue and the network are external. *)
(*                                                                         *)
(* A step is what happens between two awaits: a request that Jira has      *)
(* answered, or its failure.  A POST may be given up on (timeout, crash of *)
(* the caller) before Jira takes it, and be taken later or never.          *)
(*                                                                         *)
(* Jira is taken to fill its pages and to count its comments correctly,    *)
(* or to answer without a count or without comments.                       *)
(***************************************************************************)
EXTENDS JiraIssue, Naturals, SequencesExt

CONSTANTS
  Callers,             \* tasks and processes that use a provider
  Keys,                \* idempotency keys
  Serialized,          \* the keys whose callers take turns
  Updates,             \* operations that are not about readiness
  Payloads,            \* what the issue may look like when it is read
  PAGE,                \* comments on a page, 100 in the code
  PAGES,               \* pages of one search, 10 in the code
  max_rate_limit_retries,
  MaxComments,         \* bound on the comments ever made
  MaxLate              \* bound on the POSTs given up on that are under way

ASSUME SerializedAssumption == Serialized \subseteq Keys
ASSUME PagesAssumption == PAGE \in Nat \ {0} /\ PAGES \in Nat \ {0}
ASSUME RetriesAssumption == max_rate_limit_retries \in Nat
ASSUME BoundsAssumption == MaxComments \in Nat /\ MaxLate \in Nat

VARIABLES
  comments,   \* the comments of the issue, oldest first: identifiers
  made,       \* what the comments ever made are bound to; None: a person's
  late,       \* bindings of the POSTs given up on that Jira may yet take
  upset,      \* history: keys whose search missed a comment, or whose POST
              \* was overtaken by events
  pc,         \* where each caller is
  item,       \* the work item whose readiness a caller publishes
  binding,    \* the operation binding a caller publishes
  start,      \* startAt of its search
  attempt,    \* attempt of its request
  reference,  \* the comment that Jira made for it
  receipt     \* history: the last receipt that was returned

jiraVars == <<comments, made, late, upset>>
callVars == <<pc, item, binding, start, attempt, reference>>
vars == <<jiraVars, callVars, receipt>>

------------------------------------------------------------------------------
(* What is published. *)

\* publish_readiness: the capability and the text that the digest is over.
ReadinessOperation(workItem) ==
  IF IsReady(workItem)
  THEN [capability |-> "update_progress", text |-> {}]
  ELSE [capability |-> "report_blocker", text |-> Problems(workItem)]

\* What get_work_item may return; it raises for what it cannot normalize.
WorkItems == {WorkItemOf(payload) : payload \in {p \in Payloads : Normalizes(p)}}

Operations == Updates \cup {ReadinessOperation(workItem) : workItem \in WorkItems}

Bindings == [key : Keys, operation : Operations]

------------------------------------------------------------------------------

Init ==
  /\ comments = <<>> /\ made = <<>>
  /\ late = {}
  /\ upset = {}
  /\ pc = [c \in Callers |-> "idle"]
  /\ item = [c \in Callers |-> None]
  /\ binding = [c \in Callers |-> None]
  /\ start = [c \in Callers |-> 0]
  /\ attempt = [c \in Callers |-> 0]
  /\ reference = [c \in Callers |-> None]
  /\ receipt = None

Goto(c, label) == pc' = [pc EXCEPT ![c] = label]

\* A call returns or raises, and what it knew is gone.
End(c) ==
  /\ Goto(c, "idle")
  /\ binding' = [binding EXCEPT ![c] = None]
  /\ start' = [start EXCEPT ![c] = 0]
  /\ attempt' = [attempt EXCEPT ![c] = 0]
  /\ reference' = [reference EXCEPT ![c] = None]
  /\ item' = [item EXCEPT ![c] = None]

\* _publish_comment up to its first request.  The callers of a serialized key
\* take turns, as the docstring asks of them.
Search(c, operation) ==
  /\ \E k \in Keys :
       /\ k \in Serialized =>
            \A d \in Callers : pc[d] # "idle" => binding[d].key # k
       /\ binding' = [binding EXCEPT ![c] = [key |-> k, operation |-> operation]]
  /\ Goto(c, "search")
  /\ UNCHANGED <<jiraVars, start, attempt, reference, receipt>>

\* get_work_item, evaluate_readiness of what it returns, and publish_readiness
\* of the result.  The issue may be edited right after it is read: what is
\* published is about some payload, not the present one.
PublishReadiness(c) ==
  /\ pc[c] = "idle"
  /\ \E workItem \in WorkItems :
       /\ item' = [item EXCEPT ![c] = workItem]
       /\ Search(c, ReadinessOperation(workItem))

\* update_progress, report_blocker, complete_work and attach_artifact.
Publish(c) ==
  /\ pc[c] = "idle"
  /\ \E operation \in Updates : Search(c, operation)
  /\ UNCHANGED item

------------------------------------------------------------------------------
(* One request: an answer to work with, or none. *)

Request == {"search", "create"}

\* Mutant: the retries are not counted up to their bound.
RateLimitedForever(c) ==
  /\ pc[c] \in Request
  /\ attempt' = [attempt EXCEPT ![c] = (@ + 1) % (max_rate_limit_retries + 1)]
  /\ UNCHANGED <<jiraVars, pc, item, binding, start, reference, receipt>>

\* Mutant: one retry too many.
RateLimitedOnceMore(c) ==
  /\ pc[c] \in Request
  /\ IF attempt[c] > max_rate_limit_retries
     THEN End(c)
     ELSE /\ attempt' = [attempt EXCEPT ![c] = @ + 1]
          /\ UNCHANGED <<pc, item, binding, start, reference>>
  /\ UNCHANGED <<jiraVars, receipt>>

\* HTTP 429: wait and repeat, a bounded number of times.
RateLimited(c) ==
  /\ pc[c] \in Request
  /\ IF attempt[c] = max_rate_limit_retries
     THEN End(c)
     ELSE /\ attempt' = [attempt EXCEPT ![c] = @ + 1]
          /\ UNCHANGED <<pc, item, binding, start, reference>>
  /\ UNCHANGED <<jiraVars, receipt>>

\* The request had no effect (another status, no connection), or Jira did it
\* and the answer is lost, too long or not understood.  An answer to a search
\* that only lacks its count or its comments is accepted: CutShort.
Fail(c) ==
  /\ pc[c] # "idle"
  /\ End(c)
  /\ UNCHANGED <<jiraVars, receipt>>

\* The caller stops waiting for a POST that Jira has not taken yet.
GiveUp(c) ==
  /\ pc[c] = "create" /\ binding[c] \notin late /\ Cardinality(late) < MaxLate
  /\ End(c)
  /\ late' = late \cup {binding[c]}
  /\ upset' = upset \cup {binding[c].key}
  /\ UNCHANGED <<comments, made, receipt>>

------------------------------------------------------------------------------
(* _find_comment: one page after the other, oldest comment first. *)

Page(c) ==
  SubSeq(comments, start[c] + 1,
         IF start[c] + PAGE < Len(comments) THEN start[c] + PAGE ELSE Len(comments))

\* A comment that is bound to a key.
IsFor(id, k) == made[id] # None /\ made[id].key = k

\* Mutant: only the key is compared, not what was done under it.
MatchesKey(c, id) == IsFor(id, binding[c].key)

\* _matches_idempotency_binding, which raises when a comment is for the key
\* and does not match.
Matches(c, id) == made[id] = binding[c]

ForKey(c, n) == IsFor(Page(c)[n], binding[c].key)

\* The comment of the page that ends the search, if there is one.
IsFirstForKey(c, n) == ForKey(c, n) /\ \A m \in 1..(n - 1) : ~ForKey(c, m)

NothingOnPage(c) == \A n \in DOMAIN Page(c) : ~ForKey(c, n)

Receipt(c, id) == [binding |-> binding[c], reference |-> id]

FindOwn(c) ==
  /\ pc[c] = "search"
  /\ \E n \in DOMAIN Page(c) :
       /\ IsFirstForKey(c, n) /\ Matches(c, Page(c)[n])
       /\ receipt' = Receipt(c, Page(c)[n])
  /\ End(c)
  /\ UNCHANGED jiraVars

FindConflict(c) ==
  /\ pc[c] = "search"
  /\ \E n \in DOMAIN Page(c) : IsFirstForKey(c, n) /\ ~Matches(c, Page(c)[n])
  /\ End(c)
  /\ UNCHANGED <<jiraVars, receipt>>

\* Mutant: startAt counts from one.
IsLastPageFromOne(c) == start[c] + 1 + Len(Page(c)) >= Len(comments)

\* By a count that Jira gives.
IsLastPage(c) == start[c] + Len(Page(c)) >= Len(comments)

\* The search returns None, and the POST is next.
GoCreate(c) ==
  /\ Goto(c, "create")
  /\ start' = [start EXCEPT ![c] = 0]
  /\ attempt' = [attempt EXCEPT ![c] = 0]
  /\ UNCHANGED <<comments, made, late, item, binding, reference, receipt>>

\* The whole history was read.
FindNothing(c) ==
  /\ pc[c] = "search"
  /\ NothingOnPage(c) /\ IsLastPage(c)
  /\ GoCreate(c)
  /\ UNCHANGED upset

\* What the search has not read yet has the comment that it looks for.
IsAhead(c) == \E n \in DOMAIN comments : n > start[c] /\ IsFor(comments[n], binding[c].key)

\* An answer without an integer `total`, after a page without a comment for the
\* key, or one without comments: the search ends as if it had read everything.
CutShort(c) ==
  /\ pc[c] = "search"
  /\ GoCreate(c)
  /\ upset' = IF IsAhead(c) THEN upset \cup {binding[c].key} ELSE upset

\* Jira fills its pages, so that start counts the pages that were read.
PagesLeft(c) == start[c] + PAGE < PAGE * PAGES

NextPage(c) ==
  /\ pc[c] = "search"
  /\ NothingOnPage(c) /\ ~IsLastPage(c) /\ PagesLeft(c)
  /\ start' = [start EXCEPT ![c] = @ + PAGE]
  /\ attempt' = [attempt EXCEPT ![c] = 0]
  /\ UNCHANGED <<jiraVars, pc, item, binding, reference, receipt>>

\* The history exceeds the scan limit.
ScanLimit(c) ==
  /\ pc[c] = "search"
  /\ NothingOnPage(c) /\ ~IsLastPage(c) /\ ~PagesLeft(c)
  /\ End(c)
  /\ UNCHANGED <<jiraVars, receipt>>

------------------------------------------------------------------------------
(* Jira takes a POST; the provider makes its receipt from the answer. *)

Add(what) ==
  /\ Len(made) < MaxComments
  /\ made' = Append(made, what)
  /\ comments' = Append(comments, Len(made) + 1)

Create(c) ==
  /\ pc[c] = "create"
  /\ Add(binding[c])
  /\ reference' = [reference EXCEPT ![c] = Len(made) + 1]
  /\ Goto(c, "created")
  /\ attempt' = [attempt EXCEPT ![c] = 0]
  /\ UNCHANGED <<late, upset, item, binding, start, receipt>>

Return(c) ==
  /\ pc[c] = "created"
  /\ receipt' = Receipt(c, reference[c])
  /\ End(c)
  /\ UNCHANGED jiraVars

CreateLate(b) ==
  /\ Add(b)
  /\ late' = late \ {b}
  /\ UNCHANGED <<upset, callVars, receipt>>

------------------------------------------------------------------------------
(* People comment on the issue and remove comments. *)

AddForeign ==
  /\ Add(None)
  /\ UNCHANGED <<late, upset, callVars, receipt>>

\* Removing a comment that a search has passed moves a later one into the
\* pages it has read.
RemoveComment(n) ==
  /\ comments' = RemoveAt(comments, n)
  /\ upset' = upset \cup
       {binding[c].key : c \in {d \in Callers : pc[d] = "search" /\ n <= start[d]}}
  /\ UNCHANGED <<made, late, callVars, receipt>>

------------------------------------------------------------------------------

Step(c) ==
  \/ RateLimited(c) \/ Fail(c) \/ GiveUp(c)
  \/ FindOwn(c) \/ FindConflict(c) \/ FindNothing(c) \/ CutShort(c)
  \/ NextPage(c) \/ ScanLimit(c)
  \/ Create(c) \/ Return(c)

Next ==
  \/ \E c \in Callers : PublishReadiness(c) \/ Publish(c) \/ Step(c)
  \/ \E b \in late : CreateLate(b)
  \/ AddForeign
  \/ \E n \in DOMAIN comments : RemoveComment(n)

Spec == Init /\ [][Next]_vars

\* Every request is answered or fails in time; nobody has to publish, and
\* what was given up on need never arrive.
FairSpec == Spec /\ \A c \in Callers : WF_vars(Step(c))

------------------------------------------------------------------------------

\* The types of the variables.
TypeOK ==
  /\ made \in Seq(Bindings \cup {None})
  /\ comments \in Seq(1..Len(made))
  /\ late \subseteq Bindings
  /\ upset \subseteq Keys
  /\ pc \in [Callers -> {"idle", "search", "create", "created"}]
  /\ item \in [Callers -> WorkItems \cup {None}]
  /\ binding \in [Callers -> Bindings \cup {None}]
  /\ start \in [Callers -> Nat]
  /\ attempt \in [Callers -> 0..max_rate_limit_retries]
  /\ reference \in [Callers -> 1..Len(made) \cup {None}]
  /\ receipt \in [binding : Bindings, reference : 1..Len(made)] \cup {None}

\* "Callers must serialize concurrent first writes that share an idempotency
\* key; ordinary retries are deduplicated here": such a key has one comment,
\* through failures, lost answers, conflicting payloads and people's comments,
\* unless a POST was given up on before Jira took it, a search lost its place
\* because somebody removed a comment it had passed, or an answer without a
\* count or without comments ended a search before the key's own comment.
OneCommentPerKey ==
  \A k \in Serialized \ upset :
    \A m, n \in DOMAIN comments :
      IsFor(comments[m], k) /\ IsFor(comments[n], k) => m = n

\* A receipt names a comment that was made for this key and this payload, also
\* for keys whose callers do not take turns.
ReceiptsAreTrue == receipt # None => made[receipt.reference] = receipt.binding

\* "An issue can never redirect execution to a repository the operator did not
\* configure", and what is ready can be worked on: it is the issue that was
\* asked for, with criteria that are told apart.
ReadyIsExecutable ==
  \A c \in Callers : item[c] # None =>
    /\ item[c].repository = Repository
    /\ IsReady(item[c]) =>
         /\ item[c].key = IssueKey
         /\ item[c].acceptance_criteria # <<>>
         /\ ~HasDuplicates(item[c].acceptance_criteria)

\* The most requests that a call at `label` can still send, and its return,
\* when its search begins at comment `from` and `tries` requests were refused.
StepsLeftAt(label, from, tries) ==
  LET perRequest == max_rate_limit_retries + 1
  IN  CASE label = "search" ->
             (PAGES - from \div PAGE) * perRequest + (perRequest - tries) + 1
        [] label = "create" -> perRequest - tries + 1
        [] label = "created" -> 1
        [] label = "idle" -> 0

StepsLeft(c) == StepsLeftAt(pc[c], start[c], attempt[c])

\* A publication sends no more than (PAGES + 1) * (max_rate_limit_retries + 1)
\* requests, whatever the others do to the comments it pages through: each of
\* its steps leaves it fewer, and nobody gives it more.
PublicationsProgress ==
  [][\A c \in Callers : pc[c] # "idle" =>
       \/ UNCHANGED <<pc[c], item[c], binding[c], start[c], attempt[c], reference[c]>>
       \/ StepsLeft(c)' \in 0..(StepsLeft(c) - 1)]_vars

\* Every publication returns a receipt or raises, whatever Jira answers.
EveryPublicationEnds ==
  \A c \in Callers : pc[c] # "idle" ~> pc[c] = "idle"

=============================================================================
