------------------------- MODULE JiraCommentsProofs -------------------------
(***************************************************************************)
(* Theorems about the Jira provider, for every set of callers, keys,       *)
(* operations and payloads, every page size, scan limit and retry bound.   *)
(*                                                                         *)
(* The inductive invariant says what a search may conclude from the pages  *)
(* it has passed, and that the callers of a serialized key take turns.     *)
(***************************************************************************)
EXTENDS JiraComments, SequenceTheorems, TLAPS

\* A caller that is not idle publishes something, and searches for it from the
\* first comment on; what Jira made for it is bound to that.
CallInv ==
  \A c \in Callers :
    /\ pc[c] # "idle" => binding[c] \in Bindings
    /\ pc[c] = "idle" => start[c] = 0
    /\ pc[c] = "created" =>
         reference[c] \in 1..Len(made) /\ made[reference[c]] = binding[c]

\* One call at a time for a serialized key.
TurnsInv ==
  \A c, d \in Callers :
    pc[c] # "idle" /\ pc[d] # "idle" /\ binding[c].key = binding[d].key
      /\ binding[c].key \in Serialized => c = d

\* A POST that was given up on has upset its key.
LateInv == \A b \in late : b.key \in upset

\* What a search has passed, and what it has ended without finding.
SearchInv ==
  \A c \in Callers : pc[c] # "idle" /\ binding[c].key \in Serialized \ upset =>
    /\ pc[c] = "search" =>
         \A n \in DOMAIN comments : n <= start[c] => ~IsFor(comments[n], binding[c].key)
    /\ pc[c] = "create" =>
         \A n \in DOMAIN comments : ~IsFor(comments[n], binding[c].key)

Inv ==
  /\ TypeOK /\ CallInv /\ TurnsInv /\ LateInv /\ SearchInv
  /\ OneCommentPerKey /\ ReceiptsAreTrue

\* An issue without comments.
LEMMA InvInit == Init => Inv
BY RetriesAssumption
DEF Init, Inv, TypeOK, CallInv, TurnsInv, LateInv, SearchInv, OneCommentPerKey,
    ReceiptsAreTrue

------------------------------------------------------------------------------

\* What is left after a removal, place by place.
LEMMA RemoveAtPlaces ==
  ASSUME NEW S, NEW s \in Seq(S), NEW i \in 1..Len(s)
  PROVE  /\ RemoveAt(s, i) \in Seq(S)
         /\ Len(RemoveAt(s, i)) = Len(s) - 1
         /\ \A n \in 1..(Len(s) - 1) :
              RemoveAt(s, i)[n] = IF n < i THEN s[n] ELSE s[n + 1]
<1> DEFINE left == SubSeq(s, 1, i - 1)
           right == SubSeq(s, i + 1, Len(s))
<1>0. Len(s) \in Nat /\ \A n \in 1..Len(s) : s[n] \in S
  BY ElementOfSeq, LenProperties
<1>1. RemoveAt(s, i) = left \o right
  BY DEF RemoveAt
<1>2. /\ left \in Seq(S) /\ Len(left) = i - 1
      /\ \A n \in 1..(i - 1) : left[n] = s[n]
  <2>1. i - 1 \in Int /\ \A n \in 1..(i - 1) : s[n] \in S
    BY <1>0
  <2> QED
    BY <1>0, <2>1, SubSeqProperties
<1>3. /\ right \in Seq(S) /\ Len(right) = Len(s) - i
      /\ \A n \in 1..(Len(s) - i) : right[n] = s[i + n]
  <2>1. i + 1 \in Int /\ Len(s) \in Int /\ \A n \in (i + 1)..Len(s) : s[n] \in S
    BY <1>0
  <2>2. /\ right \in Seq(S)
        /\ Len(right) = IF i + 1 <= Len(s) THEN Len(s) - (i + 1) + 1 ELSE 0
        /\ \A n \in 1..(Len(s) - (i + 1) + 1) : right[n] = s[i + 1 + n - 1]
    BY <2>1, SubSeqProperties
  <2> QED
    BY <1>0, <2>2
<1> HIDE DEF left, right
<1>4. /\ left \o right \in Seq(S)
      /\ Len(left \o right) = Len(left) + Len(right)
      /\ \A n \in 1..(Len(left) + Len(right)) :
           (left \o right)[n] = IF n <= Len(left) THEN left[n] ELSE right[n - Len(left)]
  BY <1>2, <1>3, ConcatProperties
<1> DEFINE both == left \o right
<1>5. ASSUME NEW n \in 1..(Len(s) - 1)
      PROVE  both[n] = IF n < i THEN s[n] ELSE s[n + 1]
  <2>1. CASE n < i
    <3>1. n \in 1..(i - 1) /\ n \in 1..(Len(left) + Len(right)) /\ n <= Len(left)
      BY <1>0, <1>2, <1>3, <2>1
    <3> QED
      BY <1>2, <1>4, <2>1, <3>1
  <2>2. CASE n >= i
    <3>1. n - (i - 1) \in 1..(Len(s) - i) /\ i + (n - (i - 1)) = n + 1
      BY <1>0, <2>2
    <3>2. (left \o right)[n] = right[n - (i - 1)]
      <4>1. n \in 1..(Len(left) + Len(right)) /\ ~(n <= Len(left))
        BY <1>0, <1>2, <1>3, <2>2
      <4> QED
        BY <1>2, <1>4, <4>1
    <3>3. ~(n < i) /\ right[n - (i - 1)] = s[n + 1]
      BY <1>0, <1>3, <2>2, <3>1
    <3> QED
      BY <3>2, <3>3
  <2>3. n < i \/ n >= i
    BY <1>0
  <2> HIDE DEF both
  <2> QED
    BY <2>1, <2>2, <2>3
<1>6. Len(left) + Len(right) = Len(s) - 1
  BY <1>0, <1>2, <1>3
<1> QED
  BY <1>1, <1>4, <1>5, <1>6

\* The page of a search is the part of the comments that starts after what it
\* has passed.
LEMMA PagePlaces ==
  ASSUME TypeOK, NEW c \in Callers
  PROVE  /\ Page(c) \in Seq(1..Len(made))
         /\ \A n \in DOMAIN Page(c) :
              start[c] + n \in DOMAIN comments /\ Page(c)[n] = comments[start[c] + n]
         /\ \A n \in DOMAIN comments :
              n > start[c] /\ n <= start[c] + PAGE =>
                n - start[c] \in DOMAIN Page(c) /\ Page(c)[n - start[c]] = comments[n]
         /\ Len(Page(c)) \in Nat /\ Len(Page(c)) <= PAGE
<1> DEFINE last == IF start[c] + PAGE < Len(comments) THEN start[c] + PAGE ELSE Len(comments)
           first == start[c] + 1
<1>1. /\ comments \in Seq(1..Len(made)) /\ start[c] \in Nat /\ PAGE \in Nat \ {0}
      /\ Len(comments) \in Nat /\ DOMAIN comments = 1..Len(comments)
  BY PagesAssumption, LenProperties DEF TypeOK
<1>2. last \in Int /\ first \in Int /\ last <= Len(comments) /\ first >= 1
  BY <1>1
<1>3. \A n \in first..last : comments[n] \in 1..Len(made)
  BY <1>1, <1>2, ElementOfSeq
<1>4. Page(c) = SubSeq(comments, first, last)
  BY DEF Page
<1>5. /\ Page(c) \in Seq(1..Len(made))
      /\ Len(Page(c)) = IF first <= last THEN last - first + 1 ELSE 0
      /\ \A n \in 1..(last - first + 1) : Page(c)[n] = comments[first + n - 1]
  <2> HIDE DEF first, last
  <2> QED
    BY <1>2, <1>3, <1>4, SubSeqProperties
<1>6. DOMAIN Page(c) = 1..Len(Page(c))
  BY <1>5, LenProperties
<1>7. /\ start[c] + PAGE < Len(comments) => Len(Page(c)) = PAGE
      /\ ~(start[c] + PAGE < Len(comments)) =>
           Len(Page(c)) = IF start[c] < Len(comments) THEN Len(comments) - start[c] ELSE 0
      /\ Len(Page(c)) \in Nat
      /\ \A n \in 1..Len(Page(c)) : Page(c)[n] = comments[start[c] + n]
  <2>1. CASE start[c] + PAGE < Len(comments)
    <3>1. last = start[c] + PAGE
      BY <2>1
    <3>2. Len(Page(c)) = PAGE
      BY <1>1, <1>5, <3>1
    <3>3. ASSUME NEW n \in 1..Len(Page(c)) PROVE Page(c)[n] = comments[start[c] + n]
      <4>1. n \in 1..(last - first + 1) /\ first + n - 1 = start[c] + n
        BY <1>1, <3>1, <3>2, SMTT(30)
      <4> QED
        BY <1>5, <4>1
    <3> QED
      BY <1>1, <2>1, <3>2, <3>3
  <2>2. CASE ~(start[c] + PAGE < Len(comments))
    <3>1. last = Len(comments)
      BY <2>2
    <3>2. Len(Page(c)) = IF start[c] < Len(comments) THEN Len(comments) - start[c] ELSE 0
      <4>1. Len(Page(c)) = IF first <= last THEN last - first + 1 ELSE 0
        BY <1>5
      <4>2. first <= last <=> start[c] < Len(comments)
        BY <1>1, <3>1
      <4>3. last - first + 1 = Len(comments) - start[c]
        BY <1>1, <3>1
      <4> QED
        BY <4>1, <4>2, <4>3
    <3>3. ASSUME NEW n \in 1..Len(Page(c)) PROVE Page(c)[n] = comments[start[c] + n]
      <4>1. n \in 1..(last - first + 1) /\ first + n - 1 = start[c] + n
        BY <1>1, <3>1, <3>2, SMTT(30)
      <4> QED
        BY <1>5, <4>1
    <3> QED
      BY <1>1, <2>2, <3>2, <3>3
  <2> QED
    BY <2>1, <2>2
<1> HIDE DEF first, last
<1>8. ASSUME NEW n \in DOMAIN Page(c)
      PROVE  start[c] + n \in DOMAIN comments /\ Page(c)[n] = comments[start[c] + n]
  <2>1. n \in 1..Len(Page(c))
    BY <1>6
  <2>2. Len(Page(c)) > 0 => start[c] + Len(Page(c)) <= Len(comments)
    BY <1>1, <1>7
  <2>3. start[c] + n \in 1..Len(comments)
    BY <1>1, <1>7, <2>1, <2>2, SMTT(30)
  <2> QED
    BY <1>1, <1>7, <2>1, <2>3
<1>9. ASSUME NEW n \in DOMAIN comments, n > start[c], n <= start[c] + PAGE
      PROVE  n - start[c] \in DOMAIN Page(c) /\ Page(c)[n - start[c]] = comments[n]
  <2>1. n - start[c] \in 1..Len(Page(c)) /\ start[c] + (n - start[c]) = n
    BY <1>1, <1>7, <1>9, SMTT(30)
  <2> QED
    BY <1>6, <1>7, <2>1
<1>10. Len(Page(c)) \in Nat /\ Len(Page(c)) <= PAGE
  BY <1>1, <1>7
<1> QED
  BY <1>5, <1>8, <1>9, <1>10

\* What Jira has taken comes last and changes nothing before it.
LEMMA AddPlaces ==
  ASSUME TypeOK, NEW what \in Bindings \cup {None}, Add(what)
  PROVE  /\ made' \in Seq(Bindings \cup {None}) /\ Len(made') = Len(made) + 1
         /\ Len(made) \in Nat
         /\ \A id \in 1..Len(made) : made'[id] = made[id]
         /\ made'[Len(made) + 1] = what
         /\ comments' \in Seq(1..Len(made'))
         /\ \A k : \A n \in DOMAIN comments' :
              IsFor(comments[n], k)' =>
                \/ n \in DOMAIN comments /\ IsFor(comments[n], k)
                \/ n = Len(comments) + 1 /\ what # None /\ what.key = k
<1>1. /\ Len(made) \in Nat /\ Len(comments) \in Nat
      /\ DOMAIN comments = 1..Len(comments)
      /\ \A n \in 1..Len(comments) : comments[n] \in 1..Len(made)
  BY LenProperties, ElementOfSeq DEF TypeOK
<1>2. /\ made' \in Seq(Bindings \cup {None}) /\ Len(made') = Len(made) + 1
      /\ \A id \in 1..Len(made) : made'[id] = made[id]
      /\ made'[Len(made) + 1] = what
  BY AppendProperties DEF TypeOK, Add
<1>3. comments \in Seq(1..(Len(made) + 1)) /\ Len(made) + 1 \in 1..(Len(made) + 1)
  BY <1>1 DEF TypeOK
<1>4. /\ comments' \in Seq(1..(Len(made) + 1)) /\ Len(comments') = Len(comments) + 1
      /\ \A n \in 1..Len(comments) : comments'[n] = comments[n]
      /\ comments'[Len(comments) + 1] = Len(made) + 1
  BY <1>3, AppendProperties DEF Add
<1>5. DOMAIN comments' = 1..(Len(comments) + 1)
  BY <1>4, LenProperties
<1>6. ASSUME NEW k, NEW n \in DOMAIN comments', IsFor(comments[n], k)'
      PROVE  \/ n \in DOMAIN comments /\ IsFor(comments[n], k)
             \/ n = Len(comments) + 1 /\ what # None /\ what.key = k
  <2>1. CASE n \in 1..Len(comments)
    BY <1>1, <1>2, <1>4, <1>6, <2>1 DEF IsFor
  <2>2. CASE n = Len(comments) + 1
    BY <1>2, <1>4, <1>6, <2>2 DEF IsFor
  <2> QED
    BY <1>1, <1>5, <2>1, <2>2
<1> QED
  BY <1>1, <1>2, <1>4, <1>6

\* A call that ends leaves the others as they are.
LEMMA EndInv ==
  ASSUME Inv, NEW c \in Callers, End(c), UNCHANGED <<comments, made>>,
         late' \subseteq Bindings, upset' \subseteq Keys, upset \subseteq upset', LateInv',
         receipt' \in [binding : Bindings, reference : 1..Len(made)] \cup {None},
         receipt' # None => made[receipt'.reference] = receipt'.binding
  PROVE  Inv'
<1> USE DEF Inv
<1>1. TypeOK'
  BY RetriesAssumption DEF TypeOK, End, Goto
<1>2. pc'[c] = "idle" /\ start'[c] = 0
  BY DEF End, Goto, TypeOK
<1>3. \A d \in Callers \ {c} :
        pc'[d] = pc[d] /\ binding'[d] = binding[d] /\ start'[d] = start[d]
          /\ reference'[d] = reference[d]
  BY DEF End, Goto, TypeOK
<1>4. CallInv'
  BY <1>2, <1>3 DEF CallInv
<1>5. TurnsInv'
  BY <1>2, <1>3 DEF TurnsInv
<1>6. SearchInv'
  BY <1>2, <1>3 DEF SearchInv, IsFor
<1>7. OneCommentPerKey' /\ ReceiptsAreTrue'
  BY DEF OneCommentPerKey, ReceiptsAreTrue, IsFor
<1> QED
  BY <1>1, <1>4, <1>5, <1>6, <1>7

\* A search starts before the first comment, and its key is nobody else's if
\* the callers take turns on it.
LEMMA SearchInvStart ==
  ASSUME Inv, NEW c \in Callers, NEW operation \in Operations, pc[c] = "idle",
         Search(c, operation), item' \in [Callers -> WorkItems \cup {None}]
  PROVE  Inv'
<1> USE DEF Inv
<1>1. PICK k \in Keys :
        /\ k \in Serialized =>
             \A d \in Callers : pc[d] # "idle" => binding[d].key # k
        /\ binding' = [binding EXCEPT ![c] = [key |-> k, operation |-> operation]]
  BY DEF Search
<1>2. [key |-> k, operation |-> operation] \in Bindings
  BY DEF Bindings
<1>3. UNCHANGED <<comments, made, late, upset, start, attempt, reference, receipt>>
  BY DEF Search, jiraVars
<1>4. TypeOK'
  BY <1>1, <1>2, <1>3 DEF TypeOK, Search, Goto
<1>5. /\ pc'[c] = "search" /\ binding'[c] = [key |-> k, operation |-> operation]
      /\ \A d \in Callers \ {c} : pc'[d] = pc[d] /\ binding'[d] = binding[d]
  BY <1>1 DEF Search, Goto, TypeOK
<1>6. CallInv'
  BY <1>2, <1>3, <1>5 DEF CallInv
<1>7. TurnsInv'
  BY <1>1, <1>5 DEF TurnsInv
<1>8. SearchInv'
  <2>1. start[c] = 0 /\ \A n \in DOMAIN comments : ~(n <= 0)
    BY LenProperties DEF CallInv, TypeOK
  <2>2. \A n \in DOMAIN comments : ~(n <= start[c])
    BY <2>1
  <2> QED
    BY <1>3, <1>5, <2>2 DEF SearchInv, IsFor
<1>9. LateInv' /\ OneCommentPerKey' /\ ReceiptsAreTrue'
  BY <1>3 DEF LateInv, OneCommentPerKey, ReceiptsAreTrue, IsFor
<1> QED
  BY <1>4, <1>6, <1>7, <1>8, <1>9

------------------------------------------------------------------------------
(* The steps. *)

\* A publication starts.
LEMMA StartSteps ==
  ASSUME Inv, NEW c \in Callers, PublishReadiness(c) \/ Publish(c)
  PROVE  Inv'
<1>1. CASE PublishReadiness(c)
  <2>1. PICK workItem \in WorkItems :
          /\ item' = [item EXCEPT ![c] = workItem]
          /\ Search(c, ReadinessOperation(workItem))
    BY <1>1 DEF PublishReadiness
  <2>2. ReadinessOperation(workItem) \in Operations
    BY DEF Operations
  <2>3. item' \in [Callers -> WorkItems \cup {None}]
    BY <2>1, <2>2 DEF Inv, TypeOK
  <2> QED
    BY <1>1, <2>1, <2>2, <2>3, SearchInvStart DEF PublishReadiness
<1>2. CASE Publish(c)
  <2>1. PICK operation \in Updates : Search(c, operation)
    BY <1>2 DEF Publish
  <2>2. operation \in Operations /\ item' \in [Callers -> WorkItems \cup {None}]
    BY <1>2 DEF Publish, Operations, Inv, TypeOK
  <2> QED
    BY <1>2, <2>1, <2>2, SearchInvStart DEF Publish
<1> QED
  BY <1>1, <1>2

\* A call ends, with or without a receipt.
LEMMA EndSteps ==
  ASSUME Inv, NEW c \in Callers,
         \/ Fail(c) \/ GiveUp(c) \/ FindOwn(c) \/ FindConflict(c) \/ ScanLimit(c)
         \/ Return(c)
  PROVE  Inv'
<1>1. /\ late \subseteq Bindings /\ upset \subseteq Keys
      /\ receipt \in [binding : Bindings, reference : 1..Len(made)] \cup {None}
      /\ receipt # None => made[receipt.reference] = receipt.binding
      /\ pc[c] # "idle" => binding[c] \in Bindings
  BY DEF Inv, TypeOK, ReceiptsAreTrue, CallInv
<1>2. UNCHANGED <<late, upset>> => LateInv'
  BY DEF Inv, LateInv
<1>3. CASE Fail(c) \/ FindConflict(c) \/ ScanLimit(c)
  BY <1>1, <1>2, <1>3, EndInv DEF Fail, FindConflict, ScanLimit, jiraVars
<1>4. CASE GiveUp(c)
  <2>1. /\ End(c) /\ UNCHANGED <<comments, made>> /\ receipt' = receipt
        /\ late' = late \cup {binding[c]} /\ upset' = upset \cup {binding[c].key}
        /\ binding[c] \in Bindings
    BY <1>1, <1>4 DEF GiveUp
  <2>2. binding[c].key \in Keys
    BY <2>1 DEF Bindings
  <2>3. LateInv'
    BY <2>1 DEF Inv, LateInv
  <2> QED
    BY <1>1, <2>1, <2>2, <2>3, EndInv
<1>5. ASSUME NEW id \in 1..Len(made), made[id] = binding[c], pc[c] # "idle", End(c),
             receipt' = Receipt(c, id), UNCHANGED jiraVars
      PROVE  Inv'
  <2>1. /\ Receipt(c, id) \in [binding : Bindings, reference : 1..Len(made)]
        /\ made[Receipt(c, id).reference] = Receipt(c, id).binding
    BY <1>1, <1>5 DEF Receipt
  <2> QED
    BY <1>1, <1>2, <1>5, <2>1, EndInv DEF jiraVars
<1>6. CASE FindOwn(c)
  <2>1. PICK n \in DOMAIN Page(c) :
          Matches(c, Page(c)[n]) /\ receipt' = Receipt(c, Page(c)[n])
    BY <1>6 DEF FindOwn
  <2>2. Page(c)[n] \in 1..Len(made)
    <3>1. Page(c) \in Seq(1..Len(made))
      BY PagePlaces DEF Inv
    <3> QED
      BY <3>1, ElementOfSeq, LenProperties
  <2> QED
    BY <1>5, <1>6, <2>1, <2>2 DEF FindOwn, Matches
<1>7. CASE Return(c)
  <2>1. reference[c] \in 1..Len(made) /\ made[reference[c]] = binding[c]
    BY <1>7 DEF Return, Inv, CallInv
  <2> QED
    BY <1>5, <1>7, <2>1 DEF Return
<1> QED
  BY <1>3, <1>4, <1>6, <1>7

\* HTTP 429: a bounded wait, or the end of the call.
LEMMA RateLimitedStep ==
  ASSUME Inv, NEW c \in Callers, RateLimited(c)
  PROVE  Inv'
<1>1. /\ late \subseteq Bindings /\ upset \subseteq Keys
      /\ receipt \in [binding : Bindings, reference : 1..Len(made)] \cup {None}
      /\ receipt # None => made[receipt.reference] = receipt.binding
      /\ UNCHANGED <<jiraVars, receipt>>
  BY DEF Inv, TypeOK, ReceiptsAreTrue, RateLimited
<1>2. CASE attempt[c] = max_rate_limit_retries
  <2>1. End(c) /\ LateInv'
    BY <1>1, <1>2 DEF RateLimited, Inv, LateInv, jiraVars
  <2> QED
    BY <1>1, <2>1, EndInv DEF jiraVars
<1>3. CASE attempt[c] # max_rate_limit_retries
  <2>1. /\ attempt' = [attempt EXCEPT ![c] = @ + 1]
        /\ UNCHANGED <<jiraVars, pc, item, binding, start, reference, receipt>>
    BY <1>3 DEF RateLimited
  <2>2. attempt' \in [Callers -> 0..max_rate_limit_retries]
    BY <1>3, <2>1, RetriesAssumption DEF Inv, TypeOK
  <2> QED
    BY <2>1, <2>2 DEF Inv, TypeOK, CallInv, TurnsInv, LateInv, SearchInv,
         OneCommentPerKey, ReceiptsAreTrue, IsFor, jiraVars
<1> QED
  BY <1>2, <1>3

\* What a page without a comment for the key adds to what the search knows.
LEMMA PassedPage ==
  ASSUME Inv, NEW c \in Callers, pc[c] = "search", NothingOnPage(c),
         binding[c].key \in Serialized \ upset
  PROVE  \A n \in DOMAIN comments :
           n <= start[c] + PAGE => ~IsFor(comments[n], binding[c].key)
<1> SUFFICES ASSUME NEW n \in DOMAIN comments, n <= start[c] + PAGE
             PROVE  ~IsFor(comments[n], binding[c].key)
  OBVIOUS
<1>1. n \in Nat /\ start[c] \in Nat
  BY LenProperties DEF Inv, TypeOK
<1>2. CASE n <= start[c]
  BY <1>2 DEF Inv, SearchInv
<1>3. CASE n > start[c]
  <2>1. n - start[c] \in DOMAIN Page(c) /\ Page(c)[n - start[c]] = comments[n]
    BY <1>3, PagePlaces DEF Inv
  <2> QED
    BY <2>1 DEF NothingOnPage, ForKey
<1> QED
  BY <1>1, <1>2, <1>3

\* The search goes on or ends without a comment for the key.
LEMMA SearchSteps ==
  ASSUME Inv, NEW c \in Callers, FindNothing(c) \/ NextPage(c)
  PROVE  Inv'
<1>1. /\ UNCHANGED <<jiraVars, item, binding, reference, receipt>>
      /\ pc[c] = "search" /\ NothingOnPage(c)
      /\ attempt' = [attempt EXCEPT ![c] = 0]
  BY DEF FindNothing, NextPage, GoCreate, jiraVars
<1>2. TypeOK'
  <2>1. attempt' \in [Callers -> 0..max_rate_limit_retries]
    BY <1>1, RetriesAssumption DEF Inv, TypeOK
  <2>2. /\ pc' \in [Callers -> {"idle", "search", "create", "created"}]
        /\ start' \in [Callers -> Nat]
    <3>1. \/ pc' = [pc EXCEPT ![c] = "create"] /\ start' = [start EXCEPT ![c] = 0]
          \/ pc' = pc /\ start' = [start EXCEPT ![c] = @ + PAGE]
      BY DEF FindNothing, NextPage, GoCreate, Goto
    <3>2. PAGE \in Nat
      BY PagesAssumption
    <3>3. /\ pc \in [Callers -> {"idle", "search", "create", "created"}]
          /\ start \in [Callers -> Nat]
      BY DEF Inv, TypeOK
    <3>4. /\ [start EXCEPT ![c] = @ + PAGE] \in [Callers -> Nat]
          /\ [start EXCEPT ![c] = 0] \in [Callers -> Nat]
      BY <3>2, <3>3
    <3>5. [pc EXCEPT ![c] = "create"] \in [Callers -> {"idle", "search", "create", "created"}]
      BY <3>3
    <3> QED
      BY <3>1, <3>3, <3>4, <3>5
  <2> QED
    BY <1>1, <2>1, <2>2 DEF Inv, TypeOK, jiraVars
<1>3. /\ \A d \in Callers \ {c} : pc'[d] = pc[d] /\ start'[d] = start[d]
      /\ \/ pc'[c] = "create" /\ IsLastPage(c)
         \/ pc'[c] = "search" /\ start'[c] = start[c] + PAGE
  BY DEF FindNothing, NextPage, GoCreate, Goto, Inv, TypeOK
<1>4. CallInv' /\ TurnsInv'
  BY <1>1, <1>3 DEF Inv, CallInv, TurnsInv, jiraVars
<1>5. SearchInv'
  <2> SUFFICES ASSUME NEW d \in Callers, pc'[d] # "idle",
                      binding[d].key \in Serialized \ upset,
                      NEW n \in DOMAIN comments
               PROVE  /\ pc'[d] = "search" /\ n <= start'[d] =>
                           ~IsFor(comments[n], binding[d].key)
                      /\ pc'[d] = "create" => ~IsFor(comments[n], binding[d].key)
    BY <1>1 DEF SearchInv, IsFor, jiraVars
  <2>1. CASE d # c
    BY <1>3, <2>1 DEF Inv, SearchInv
  <2>2. CASE d = c
    <3>1. n <= start[c] + PAGE => ~IsFor(comments[n], binding[c].key)
      BY <1>1, <2>2, PassedPage
    <3>2. IsLastPage(c) => n <= start[c] + PAGE
      <4>1. /\ Len(Page(c)) \in Nat /\ Len(Page(c)) <= PAGE /\ PAGE \in Nat
            /\ start[c] \in Nat /\ Len(comments) \in Nat /\ n \in 1..Len(comments)
        BY PagePlaces, PagesAssumption, LenProperties DEF Inv, TypeOK
      <4> QED
        BY <4>1 DEF IsLastPage
    <3> QED
      BY <1>3, <2>2, <3>1, <3>2
  <2> QED
    BY <2>1, <2>2
<1>6. LateInv' /\ OneCommentPerKey' /\ ReceiptsAreTrue'
  BY <1>1 DEF Inv, LateInv, OneCommentPerKey, ReceiptsAreTrue, IsFor, jiraVars
<1> QED
  BY <1>2, <1>4, <1>5, <1>6 DEF Inv

\* A search that is cut short has seen all the comments for its key, or has
\* upset it.
LEMMA CutShortStep ==
  ASSUME Inv, NEW c \in Callers, CutShort(c)
  PROVE  Inv'
<1>1. /\ UNCHANGED <<comments, made, late, item, binding, reference, receipt>>
      /\ pc[c] = "search" /\ start' = [start EXCEPT ![c] = 0] /\ pc' = [pc EXCEPT ![c] = "create"]
      /\ attempt' = [attempt EXCEPT ![c] = 0]
      /\ upset' = IF IsAhead(c) THEN upset \cup {binding[c].key} ELSE upset
  BY DEF CutShort, GoCreate, Goto
<1>2. /\ pc'[c] = "create"
      /\ \A d \in Callers \ {c} : pc'[d] = pc[d] /\ start'[d] = start[d]
      /\ binding[c].key \in Keys
  BY <1>1 DEF Inv, TypeOK, CallInv, Bindings
<1>3. /\ upset \subseteq upset' /\ upset' \subseteq Keys
      /\ binding[c].key \notin upset' => ~IsAhead(c)
  BY <1>1, <1>2 DEF Inv, TypeOK
<1>4. TypeOK'
  <2>1. attempt' \in [Callers -> 0..max_rate_limit_retries]
    BY <1>1, RetriesAssumption DEF Inv, TypeOK
  <2>2. pc' \in [Callers -> {"idle", "search", "create", "created"}]
    BY <1>1 DEF Inv, TypeOK
  <2> QED
    BY <1>1, <1>3, <2>1, <2>2 DEF Inv, TypeOK
<1>5. CallInv' /\ TurnsInv' /\ LateInv'
  BY <1>1, <1>2, <1>3 DEF Inv, CallInv, TurnsInv, LateInv
<1>6. SearchInv'
  <2> SUFFICES ASSUME NEW d \in Callers, pc'[d] # "idle",
                      binding[d].key \in Serialized \ upset',
                      NEW n \in DOMAIN comments
               PROVE  /\ pc'[d] = "search" /\ n <= start'[d] =>
                           ~IsFor(comments[n], binding[d].key)
                      /\ pc'[d] = "create" => ~IsFor(comments[n], binding[d].key)
    BY <1>1 DEF SearchInv, IsFor
  <2>1. CASE d # c
    BY <1>2, <1>3, <2>1 DEF Inv, SearchInv
  <2>2. CASE d = c
    <3>1. n <= start[c] => ~IsFor(comments[n], binding[c].key)
      BY <1>1, <1>3, <2>2 DEF Inv, SearchInv
    <3>2. n > start[c] => ~IsFor(comments[n], binding[c].key)
      BY <1>3, <2>2 DEF IsAhead
    <3>3. n <= start[c] \/ n > start[c]
      BY LenProperties DEF Inv, TypeOK
    <3> QED
      BY <1>2, <2>2, <3>1, <3>2, <3>3
  <2> QED
    BY <2>1, <2>2
<1>7. OneCommentPerKey' /\ ReceiptsAreTrue'
  BY <1>1, <1>3 DEF Inv, OneCommentPerKey, ReceiptsAreTrue, IsFor
<1> QED
  BY <1>4, <1>5, <1>6, <1>7 DEF Inv

\* What every way to add a comment keeps.
LEMMA AddKeeps ==
  ASSUME Inv, NEW what \in Bindings \cup {None}, Add(what), upset' = upset,
         what = None \/ what.key \in upset \/ what.key \notin Serialized
  PROVE  OneCommentPerKey'
<1> SUFFICES ASSUME NEW k \in Serialized \ upset,
                    NEW m \in DOMAIN comments', NEW n \in DOMAIN comments',
                    IsFor(comments[m], k)', IsFor(comments[n], k)'
             PROVE  m = n
  BY DEF OneCommentPerKey
<1>1. /\ m \in DOMAIN comments /\ IsFor(comments[m], k)
      /\ n \in DOMAIN comments /\ IsFor(comments[n], k)
  BY AddPlaces DEF Inv
<1> QED
  BY <1>1 DEF Inv, OneCommentPerKey

\* Jira takes the POST of a caller.
LEMMA CreateStep ==
  ASSUME Inv, NEW c \in Callers, Create(c)
  PROVE  Inv'
<1>1. /\ pc[c] = "create" /\ Add(binding[c]) /\ binding[c] \in Bindings
      /\ reference' = [reference EXCEPT ![c] = Len(made) + 1]
      /\ pc' = [pc EXCEPT ![c] = "created"]
      /\ attempt' = [attempt EXCEPT ![c] = 0]
      /\ UNCHANGED <<late, upset, item, binding, start, receipt>>
  BY DEF Create, Goto, Inv, CallInv
<1>2. /\ made' \in Seq(Bindings \cup {None}) /\ Len(made') = Len(made) + 1
      /\ Len(made) \in Nat
      /\ \A id \in 1..Len(made) : made'[id] = made[id]
      /\ made'[Len(made) + 1] = binding[c]
      /\ comments' \in Seq(1..Len(made'))
      /\ \A k : \A n \in DOMAIN comments' :
           IsFor(comments[n], k)' =>
             \/ n \in DOMAIN comments /\ IsFor(comments[n], k)
             \/ n = Len(comments) + 1 /\ binding[c].key = k
  BY <1>1, AddPlaces DEF Inv
<1>3. TypeOK'
  <2>1. reference' \in [Callers -> 1..Len(made') \cup {None}]
    BY <1>1, <1>2 DEF Inv, TypeOK
  <2>2. receipt' \in [binding : Bindings, reference : 1..Len(made')] \cup {None}
    BY <1>1, <1>2 DEF Inv, TypeOK
  <2>3. /\ pc' \in [Callers -> {"idle", "search", "create", "created"}]
        /\ attempt' \in [Callers -> 0..max_rate_limit_retries]
    BY <1>1, RetriesAssumption DEF Inv, TypeOK
  <2> QED
    BY <1>1, <1>2, <2>1, <2>2, <2>3 DEF Inv, TypeOK
<1>4. /\ pc'[c] = "created" /\ reference'[c] = Len(made) + 1
      /\ \A d \in Callers \ {c} : pc'[d] = pc[d] /\ reference'[d] = reference[d]
  BY <1>1 DEF Inv, TypeOK
<1>5. CallInv'
  BY <1>1, <1>2, <1>4 DEF Inv, CallInv
<1>6. TurnsInv' /\ LateInv'
  BY <1>1, <1>4 DEF Inv, TurnsInv, LateInv
<1>7. SearchInv'
  <2> SUFFICES ASSUME NEW d \in Callers, pc'[d] # "idle",
                      NEW k \in Serialized \ upset, k = binding[d].key,
                      NEW n \in DOMAIN comments', IsFor(comments[n], k)'
               PROVE  /\ pc'[d] = "search" => ~(n <= start[d])
                      /\ pc'[d] # "create"
    BY <1>1 DEF SearchInv, IsFor
  <2>1. CASE d = c
    BY <1>4, <2>1
  <2>2. CASE d # c
    <3>1. pc'[d] = pc[d] /\ binding[c].key # k
      BY <1>1, <1>4, <2>2 DEF Inv, TurnsInv
    <3>2. n \in DOMAIN comments /\ IsFor(comments[n], k)
      BY <1>2, <3>1
    <3> QED
      BY <3>1, <3>2 DEF Inv, SearchInv
  <2> QED
    BY <2>1, <2>2
<1>8. OneCommentPerKey'
  <2>1. CASE binding[c].key \in Serialized \ upset
    <3> SUFFICES ASSUME NEW k \in Serialized \ upset,
                        NEW m \in DOMAIN comments', NEW n \in DOMAIN comments',
                        IsFor(comments[m], k)', IsFor(comments[n], k)'
                 PROVE  m = n
      BY <1>1 DEF OneCommentPerKey
    <3>1. CASE k = binding[c].key
      <4>1. \A i \in DOMAIN comments : ~IsFor(comments[i], k)
        BY <1>1, <2>1, <3>1 DEF Inv, SearchInv
      <4> QED
        BY <1>2, <4>1
    <3>2. CASE k # binding[c].key
      <4>1. /\ m \in DOMAIN comments /\ IsFor(comments[m], k)
            /\ n \in DOMAIN comments /\ IsFor(comments[n], k)
        BY <1>2, <3>2
      <4> QED
        BY <4>1 DEF Inv, OneCommentPerKey
    <3> QED
      BY <3>1, <3>2
  <2>2. CASE binding[c].key \notin Serialized \ upset
    BY <1>1, <2>2, AddKeeps
  <2> QED
    BY <2>1, <2>2
<1>9. ReceiptsAreTrue'
  BY <1>1, <1>2 DEF Inv, TypeOK, ReceiptsAreTrue
<1> QED
  BY <1>3, <1>5, <1>6, <1>7, <1>8, <1>9 DEF Inv

\* A POST that was given up on is taken, or a person comments.
LEMMA OtherCommentSteps ==
  ASSUME Inv, NEW what \in Bindings \cup {None}, Add(what),
         what = None \/ what.key \in upset,
         late' \subseteq late, UNCHANGED <<upset, callVars, receipt>>
  PROVE  Inv'
<1>1. /\ made' \in Seq(Bindings \cup {None}) /\ Len(made') = Len(made) + 1
      /\ Len(made) \in Nat
      /\ \A id \in 1..Len(made) : made'[id] = made[id]
      /\ comments' \in Seq(1..Len(made'))
  BY AddPlaces DEF Inv
<1>2. TypeOK'
  <2>1. reference' \in [Callers -> 1..Len(made') \cup {None}]
    BY <1>1 DEF Inv, TypeOK, callVars
  <2>2. receipt' \in [binding : Bindings, reference : 1..Len(made')] \cup {None}
    BY <1>1 DEF Inv, TypeOK
  <2> QED
    BY <1>1, <2>1, <2>2 DEF Inv, TypeOK, callVars
<1>3. CallInv'
  BY <1>1 DEF Inv, CallInv, callVars
<1>4. TurnsInv' /\ LateInv'
  BY DEF Inv, TurnsInv, LateInv, callVars
<1>5. SearchInv'
  <2> SUFFICES ASSUME NEW d \in Callers, pc[d] # "idle",
                      NEW k \in Serialized \ upset, k = binding[d].key,
                      NEW n \in DOMAIN comments', IsFor(comments[n], k)'
               PROVE  /\ pc[d] = "search" => ~(n <= start[d])
                      /\ pc[d] # "create"
    BY DEF SearchInv, IsFor, callVars
  <2>1. n \in DOMAIN comments /\ IsFor(comments[n], k)
    BY AddPlaces DEF Inv
  <2> QED
    BY <2>1 DEF Inv, SearchInv
<1>6. OneCommentPerKey'
  BY AddKeeps
<1>7. ReceiptsAreTrue'
  BY <1>1 DEF Inv, TypeOK, ReceiptsAreTrue
<1> QED
  BY <1>2, <1>3, <1>4, <1>5, <1>6, <1>7 DEF Inv

\* A comment is removed: what a search has passed moves only if its key is upset.
LEMMA RemoveStep ==
  ASSUME Inv, NEW i \in DOMAIN comments, RemoveComment(i)
  PROVE  Inv'
<1>1. /\ Len(comments) \in Nat /\ DOMAIN comments = 1..Len(comments)
      /\ UNCHANGED <<made, late, callVars, receipt>> /\ upset \subseteq upset'
  BY LenProperties DEF Inv, TypeOK, RemoveComment
<1>2. /\ comments' \in Seq(1..Len(made))
      /\ DOMAIN comments' = 1..(Len(comments) - 1)
      /\ \A n \in DOMAIN comments' :
           /\ n < i => comments'[n] = comments[n]
           /\ n >= i => comments'[n] = comments[n + 1]
           /\ n \in DOMAIN comments /\ n + 1 \in DOMAIN comments
  <2>1. comments \in Seq(1..Len(made)) /\ i \in 1..Len(comments)
    BY <1>1 DEF Inv, TypeOK
  <2>2. /\ comments' \in Seq(1..Len(made)) /\ Len(comments') = Len(comments) - 1
        /\ \A n \in 1..(Len(comments) - 1) :
             comments'[n] = IF n < i THEN comments[n] ELSE comments[n + 1]
    BY <2>1, RemoveAtPlaces DEF RemoveComment
  <2>3. DOMAIN comments' = 1..(Len(comments) - 1)
    BY <2>2, LenProperties
  <2>4. ASSUME NEW n \in 1..(Len(comments) - 1)
        PROVE  n \in 1..Len(comments) /\ n + 1 \in 1..Len(comments) /\ (n >= i => ~(n < i))
    BY <1>1, <2>1
  <2>5. ASSUME NEW n \in 1..(Len(comments) - 1)
        PROVE  /\ n < i => comments'[n] = comments[n]
               /\ n >= i => comments'[n] = comments[n + 1]
    BY <2>2, <2>4, Zenon
  <2> QED
    BY <1>1, <2>2, <2>3, <2>4, <2>5, Zenon
<1>3. \A c \in Callers : pc[c] = "search" /\ i <= start[c] => binding[c].key \in upset'
  BY DEF RemoveComment
<1>4. upset' \subseteq Keys
  BY <1>1 DEF Inv, TypeOK, CallInv, RemoveComment, Bindings
<1>5. TypeOK'
  BY <1>1, <1>2, <1>4 DEF Inv, TypeOK, callVars
<1>6. CallInv' /\ TurnsInv' /\ LateInv' /\ ReceiptsAreTrue'
  BY <1>1 DEF Inv, CallInv, TurnsInv, LateInv, ReceiptsAreTrue, callVars
<1>7. SearchInv'
  <2> SUFFICES ASSUME NEW c \in Callers, pc[c] # "idle",
                      binding[c].key \in Serialized \ upset',
                      NEW n \in DOMAIN comments'
               PROVE  /\ pc[c] = "search" /\ n <= start[c] =>
                           ~IsFor(comments'[n], binding[c].key)
                      /\ pc[c] = "create" => ~IsFor(comments'[n], binding[c].key)
    BY <1>1 DEF SearchInv, IsFor, callVars
  <2>1. start[c] \in Nat /\ i \in Nat /\ n \in Nat
    <3>1. i \in 1..Len(comments) /\ n \in 1..(Len(comments) - 1)
      BY <1>1, <1>2, Zenon
    <3>2. start[c] \in Nat
      BY DEF Inv, TypeOK
    <3> QED
      BY <1>1, <3>1, <3>2
  <2>2. ASSUME pc[c] = "search", n <= start[c]
        PROVE  ~IsFor(comments'[n], binding[c].key)
    <3>1. ~(i <= start[c])
      BY <1>3, <2>2
    <3>2. n < i
      BY <2>1, <2>2, <3>1
    <3>3. comments'[n] = comments[n] /\ n \in DOMAIN comments
      BY <1>2, <3>2, Zenon
    <3>4. binding[c].key \notin upset
      BY <1>1
    <3> QED
      BY <2>2, <3>3, <3>4 DEF Inv, SearchInv
  <2>3. ASSUME pc[c] = "create" PROVE ~IsFor(comments'[n], binding[c].key)
    <3>1. \A m \in DOMAIN comments : ~IsFor(comments[m], binding[c].key)
      BY <1>1, <2>3 DEF Inv, SearchInv
    <3>2. n < i \/ n >= i
      BY <2>1
    <3> QED
      BY <1>2, <3>1, <3>2
  <2> QED
    BY <2>2, <2>3
<1>8. OneCommentPerKey'
  <2> SUFFICES ASSUME NEW k \in Serialized \ upset',
                      NEW m \in DOMAIN comments', NEW n \in DOMAIN comments',
                      IsFor(comments'[m], k), IsFor(comments'[n], k)
               PROVE  m = n
    BY <1>1 DEF OneCommentPerKey, IsFor
  <2>1. \A p, q \in DOMAIN comments :
          IsFor(comments[p], k) /\ IsFor(comments[q], k) => p = q
    BY <1>1 DEF Inv, OneCommentPerKey
  <2>2. m \in Nat /\ n \in Nat /\ i \in Nat
    BY <1>1, <1>2
  <2>3. CASE m < i /\ n < i
    BY <1>2, <2>1, <2>3
  <2>4. CASE m >= i /\ n >= i
    <3>1. m + 1 = n + 1
      BY <1>2, <2>1, <2>4
    <3> QED
      BY <2>2, <3>1
  <2>5. CASE m < i /\ n >= i
    <3>1. m = n + 1
      BY <1>2, <2>1, <2>5
    <3> QED
      BY <2>2, <2>5, <3>1
  <2>6. CASE m >= i /\ n < i
    <3>1. m + 1 = n
      BY <1>2, <2>1, <2>6
    <3> QED
      BY <2>2, <2>6, <3>1
  <2> QED
    BY <2>2, <2>3, <2>4, <2>5, <2>6
<1> QED
  BY <1>5, <1>6, <1>7, <1>8 DEF Inv

\* Every step keeps the invariant.
LEMMA InvStep == Inv /\ [Next]_vars => Inv'
<1> SUFFICES ASSUME Inv, [Next]_vars PROVE Inv'
  OBVIOUS
<1>1. ASSUME NEW c \in Callers, PublishReadiness(c) \/ Publish(c) PROVE Inv'
  BY <1>1, StartSteps
<1>2. ASSUME NEW c \in Callers, Step(c) PROVE Inv'
  BY <1>2, RateLimitedStep, EndSteps, SearchSteps, CutShortStep, CreateStep DEF Step
<1>3. ASSUME NEW b \in late, CreateLate(b) PROVE Inv'
  <2>1. b \in Bindings /\ b.key \in upset
    BY DEF Inv, TypeOK, LateInv
  <2> QED
    BY <1>3, <2>1, OtherCommentSteps DEF CreateLate
<1>4. CASE AddForeign
  BY <1>4, OtherCommentSteps DEF AddForeign
<1>5. ASSUME NEW n \in DOMAIN comments, RemoveComment(n) PROVE Inv'
  BY <1>5, RemoveStep
<1>6. CASE UNCHANGED vars
  BY <1>6 DEF Inv, TypeOK, CallInv, TurnsInv, LateInv, SearchInv, OneCommentPerKey,
     ReceiptsAreTrue, IsFor, vars, jiraVars, callVars
<1> QED
  BY <1>1, <1>2, <1>3, <1>4, <1>5, <1>6 DEF Next

\* The invariant of the provider.
LEMMA SpecInv == Spec => []Inv
BY InvInit, InvStep, PTL DEF Spec

------------------------------------------------------------------------------

\* The variables keep their types.
THEOREM JiraTypeCorrect == Spec => []TypeOK
<1>1. Inv => TypeOK
  BY DEF Inv
<1> QED
  BY <1>1, SpecInv, PTL

\* What is under a serialized key is published once: through failures, lost
\* answers, retries, conflicting payloads and other people's comments, until a
\* POST is given up on, or a search misses the key's comment because it was
\* moved or because an answer gave no count or no comments.
THEOREM JiraPublishesOnce == Spec => []OneCommentPerKey
<1>1. Inv => OneCommentPerKey
  BY DEF Inv
<1> QED
  BY <1>1, SpecInv, PTL

\* Whatever the callers do at once, a receipt is for what was published.
THEOREM JiraReceiptsAreTrue == Spec => []ReceiptsAreTrue
<1>1. Inv => ReceiptsAreTrue
  BY DEF Inv
<1> QED
  BY <1>1, SpecInv, PTL

\* A work item that an issue was normalized to is for the configured
\* repository, and a ready one can be executed.
THEOREM JiraReadyIsExecutable == Spec => []ReadyIsExecutable
<1>1. ASSUME NEW payload, Normalizes(payload)
      PROVE  LET work == WorkItemOf(payload) IN
               /\ work.repository = Repository
               /\ IsReady(work) =>
                    /\ work.key = IssueKey
                    /\ work.acceptance_criteria # <<>>
                    /\ ~HasDuplicates(work.acceptance_criteria)
  <2> DEFINE work == WorkItemOf(payload)
  <2>1. /\ work.key = IssueKey /\ work.repository = _repository(payload)
        /\ _repository(payload) # None /\ ~HasDuplicates(work.acceptance_criteria)
    BY <1>1 DEF Normalizes, WorkItemOf
  <2>2. work.repository = Repository
    BY <2>1 DEF _repository
  <2>3. IsReady(work) => work.acceptance_criteria # <<>>
    <3>1. work.acceptance_criteria = <<>> =>
            "missing-acceptance-criteria" \in Problems(work)
      BY DEF Problems
    <3> QED
      BY <3>1 DEF IsReady
  <2> QED
    BY <2>1, <2>2, <2>3
<1>2. TypeOK => ReadyIsExecutable
  <2> SUFFICES ASSUME TypeOK, NEW c \in Callers, item[c] # None
               PROVE  /\ item[c].repository = Repository
                      /\ IsReady(item[c]) =>
                           /\ item[c].key = IssueKey
                           /\ item[c].acceptance_criteria # <<>>
                           /\ ~HasDuplicates(item[c].acceptance_criteria)
    BY DEF ReadyIsExecutable
  <2>1. item[c] \in WorkItems
    BY DEF TypeOK
  <2>2. PICK payload \in Payloads : Normalizes(payload) /\ item[c] = WorkItemOf(payload)
    BY <2>1 DEF WorkItems
  <2> QED
    BY <1>1, <2>2
<1> QED
  BY <1>2, JiraTypeCorrect, PTL

------------------------------------------------------------------------------
(* Every step of a publication leaves it fewer. *)

\* The pages that a search which is at comment `from` has read before.
LEMMA PagesRead ==
  ASSUME NEW from \in Nat
  PROVE  /\ from \div PAGE \in Nat
         /\ (from + PAGE) \div PAGE = (from \div PAGE) + 1
         /\ from < PAGE * PAGES => from \div PAGE < PAGES
<1>1. PAGE \in Nat \ {0} /\ PAGES \in Nat
  BY PagesAssumption
<1>2. from \div PAGE \in Nat
  BY <1>1
<1>3. (from + PAGE) \div PAGE = (from \div PAGE) + 1
  BY <1>1
<1>4. from < PAGE * PAGES => from \div PAGE < PAGES
  BY <1>1
<1> QED
  BY <1>2, <1>3, <1>4

\* What is left at each label is a number, and no less than the return.
LEMMA StepsLeftValues ==
  ASSUME NEW from \in Nat, from < PAGE * PAGES, NEW tries \in 0..max_rate_limit_retries
  PROVE  LET perRequest == max_rate_limit_retries + 1
             pages == PAGES - from \div PAGE
         IN  /\ pages \in Nat \ {0} /\ pages * perRequest \in Nat
             /\ pages * perRequest >= perRequest
             /\ (pages - 1) * perRequest + perRequest = pages * perRequest
             /\ StepsLeftAt("search", from, tries) =
                  pages * perRequest + (perRequest - tries) + 1
             /\ StepsLeftAt("create", from, tries) = perRequest - tries + 1
             /\ StepsLeftAt("created", from, tries) = 1
             /\ StepsLeftAt("idle", from, tries) = 0
<1> DEFINE perRequest == max_rate_limit_retries + 1
           pages == PAGES - from \div PAGE
<1>1. perRequest \in Nat \ {0} /\ pages \in Nat \ {0}
  BY PagesRead, PagesAssumption, RetriesAssumption
<1>2. /\ StepsLeftAt("search", from, tries) =
           pages * perRequest + (perRequest - tries) + 1
      /\ StepsLeftAt("create", from, tries) = perRequest - tries + 1
      /\ StepsLeftAt("created", from, tries) = 1
      /\ StepsLeftAt("idle", from, tries) = 0
  BY DEF StepsLeftAt
<1> HIDE DEF perRequest, pages
<1>3. \A p \in Nat \ {0}, r \in Nat \ {0} :
        p * r \in Nat /\ p * r >= r /\ (p - 1) * r + r = p * r
  OBVIOUS
<1>4. /\ pages * perRequest \in Nat /\ pages * perRequest >= perRequest
      /\ (pages - 1) * perRequest + perRequest = pages * perRequest
  BY <1>1, <1>3
<1> QED
  BY <1>1, <1>2, <1>4 DEF perRequest, pages

\* A search never looks beyond its last page.
ScanInv == \A c \in Callers : start[c] < PAGE * PAGES

ScanTypes == TypeOK /\ ScanInv

\* It starts at the first.
LEMMA ScanInit == Init => ScanInv
<1>1. 0 < PAGE * PAGES
  <2>1. \A p \in Nat \ {0}, q \in Nat \ {0} : 0 < p * q
    OBVIOUS
  <2> QED
    BY <2>1, PagesAssumption
<1> QED
  BY <1>1 DEF Init, ScanInv

\* It goes on only while there are pages left.
LEMMA ScanStep == ScanTypes /\ [Next]_vars => ScanInv'
<1> SUFFICES ASSUME ScanTypes, [Next]_vars, NEW c \in Callers
             PROVE  start'[c] < PAGE * PAGES
  BY DEF ScanInv
<1> USE DEF ScanTypes
<1>1. start[c] < PAGE * PAGES /\ 0 < PAGE * PAGES
  <2>1. \A p \in Nat \ {0}, q \in Nat \ {0} : 0 < p * q
    OBVIOUS
  <2> QED
    BY <2>1, PagesAssumption DEF ScanInv
<1>2. ASSUME NEW d \in Callers, End(d) PROVE start'[c] < PAGE * PAGES
  BY <1>1, <1>2 DEF End, TypeOK
<1>3. ASSUME NEW d \in Callers, NextPage(d) PROVE start'[c] < PAGE * PAGES
  BY <1>1, <1>3 DEF NextPage, PagesLeft, TypeOK
<1>4. CASE start' = start
  BY <1>1, <1>4
<1>4a. ASSUME NEW d \in Callers, GoCreate(d) PROVE start'[c] < PAGE * PAGES
  BY <1>1, <1>4a DEF GoCreate, TypeOK
<1>5. ASSUME NEW d \in Callers, RateLimited(d) PROVE start'[c] < PAGE * PAGES
  BY <1>2, <1>4, <1>5 DEF RateLimited
<1>6. ASSUME NEW d \in Callers, Step(d) PROVE start'[c] < PAGE * PAGES
  BY <1>2, <1>3, <1>4, <1>4a, <1>5, <1>6
  DEF Step, Fail, GiveUp, FindOwn, FindConflict, FindNothing, CutShort, ScanLimit, Create,
      Return
<1>7. ASSUME NEW d \in Callers, PublishReadiness(d) \/ Publish(d)
      PROVE  start'[c] < PAGE * PAGES
  BY <1>4, <1>7 DEF PublishReadiness, Publish, Search
<1>8. ASSUME UNCHANGED callVars PROVE start'[c] < PAGE * PAGES
  BY <1>4, <1>8 DEF callVars
<1> QED
  BY <1>6, <1>7, <1>8 DEF Next, CreateLate, AddForeign, RemoveComment, vars

\* A step of a call leaves it fewer steps, and the other calls as many.
LEMMA StepLowers ==
  ASSUME ScanTypes, NEW c \in Callers, Step(c)
  PROVE  /\ StepsLeft(c)' \in 0..(StepsLeft(c) - 1)
         /\ \A d \in Callers \ {c} :
              UNCHANGED <<pc[d], item[d], binding[d], start[d], attempt[d], reference[d]>>
<1> USE DEF ScanTypes
<1> DEFINE perRequest == max_rate_limit_retries + 1
           pages == PAGES - start[c] \div PAGE
<1>1. /\ start[c] \in Nat /\ start[c] < PAGE * PAGES
      /\ attempt[c] \in 0..max_rate_limit_retries
      /\ pc[c] \in {"idle", "search", "create", "created"}
      /\ max_rate_limit_retries \in Nat /\ PAGE \in Nat /\ PAGES \in Nat
  BY RetriesAssumption, PagesAssumption DEF TypeOK, ScanInv
<1>2. /\ perRequest \in Nat \ {0} /\ pages \in Nat \ {0}
      /\ pages * perRequest \in Nat /\ pages * perRequest >= perRequest
      /\ (pages - 1) * perRequest + perRequest = pages * perRequest
      /\ pc[c] = "search" => StepsLeft(c) = pages * perRequest + (perRequest - attempt[c]) + 1
      /\ pc[c] = "create" => StepsLeft(c) = perRequest - attempt[c] + 1
      /\ pc[c] = "created" => StepsLeft(c) = 1
  <2>0. perRequest \in Nat \ {0}
    BY <1>1
  <2>1. /\ pages \in Nat \ {0}
        /\ pages * perRequest \in Nat /\ pages * perRequest >= perRequest
        /\ (pages - 1) * perRequest + perRequest = pages * perRequest
        /\ StepsLeftAt("search", start[c], attempt[c]) =
             pages * perRequest + (perRequest - attempt[c]) + 1
        /\ StepsLeftAt("create", start[c], attempt[c]) = perRequest - attempt[c] + 1
        /\ StepsLeftAt("created", start[c], attempt[c]) = 1
    BY <1>1, StepsLeftValues, Zenon
  <2> HIDE DEF perRequest, pages
  <2> QED
    BY <2>0, <2>1, Zenon DEF StepsLeft
<1>3. pc[c] # "idle"
  BY DEF Step, RateLimited, Fail, GiveUp, FindOwn, FindConflict, FindNothing, CutShort,
         NextPage, ScanLimit, Create, Return, Request
<1>4. StepsLeft(c) \in Nat \ {0}
  BY <1>1, <1>2, <1>3
<1>5. ASSUME NEW label, NEW from \in Nat, NEW tries \in 0..max_rate_limit_retries,
             from < PAGE * PAGES, pc'[c] = label, start'[c] = from, attempt'[c] = tries
      PROVE  /\ label = "idle" => StepsLeft(c)' = 0
             /\ label = "created" => StepsLeft(c)' = 1
             /\ label = "create" => StepsLeft(c)' = perRequest - tries + 1
             /\ label = "search" =>
                  StepsLeft(c)' = (PAGES - from \div PAGE) * perRequest + (perRequest - tries) + 1
  BY <1>5, StepsLeftValues DEF StepsLeft
<1> HIDE DEF perRequest, pages
<1>6. CASE End(c)
  <2>1. pc'[c] = "idle" /\ start'[c] = 0 /\ attempt'[c] = 0
    BY <1>6 DEF End, Goto, TypeOK
  <2>2. 0 < PAGE * PAGES
    BY <1>1
  <2>3. StepsLeft(c)' = 0
    BY <1>1, <1>5, <2>1, <2>2
  <2> QED
    BY <1>4, <1>6, <2>3 DEF End, Goto, TypeOK
<1>7. CASE RateLimited(c) /\ attempt[c] # max_rate_limit_retries
  <2>1. /\ pc[c] \in {"search", "create"} /\ pc' = pc /\ start' = start
        /\ attempt' = [attempt EXCEPT ![c] = @ + 1]
        /\ UNCHANGED <<item, binding, reference>>
    BY <1>7 DEF RateLimited, Request
  <2>2. attempt'[c] = attempt[c] + 1 /\ attempt'[c] \in 0..max_rate_limit_retries
    BY <1>1, <1>7, <2>1 DEF TypeOK
  <2>3. perRequest - attempt'[c] \in Nat /\ perRequest - attempt'[c] < perRequest - attempt[c]
    BY <1>1, <2>2 DEF perRequest
  <2>4. StepsLeft(c)' \in 0..(StepsLeft(c) - 1)
    <3>1. CASE pc[c] = "search"
      <4>1. StepsLeft(c)' = pages * perRequest + (perRequest - attempt'[c]) + 1
        BY <1>1, <1>5, <2>1, <2>2, <3>1 DEF pages
      <4> QED
        BY <1>1, <1>2, <2>2, <2>3, <3>1, <4>1
    <3>2. CASE pc[c] = "create"
      <4>1. StepsLeft(c)' = perRequest - attempt'[c] + 1
        BY <1>1, <1>5, <2>1, <2>2, <3>2
      <4> QED
        BY <1>1, <1>2, <2>2, <2>3, <3>2, <4>1
    <3> QED
      BY <2>1, <3>1, <3>2
  <2>5. \A d \in Callers \ {c} : attempt'[d] = attempt[d]
    BY <2>1 DEF TypeOK
  <2> QED
    BY <2>1, <2>4, <2>5
<1>8. CASE FindNothing(c) \/ CutShort(c)
  <2>1. /\ pc[c] = "search" /\ pc'[c] = "create" /\ start'[c] = 0 /\ attempt'[c] = 0
        /\ \A d \in Callers \ {c} :
             pc'[d] = pc[d] /\ start'[d] = start[d] /\ attempt'[d] = attempt[d]
        /\ UNCHANGED <<item, binding, reference>>
    BY <1>8 DEF FindNothing, CutShort, GoCreate, Goto, TypeOK
  <2>2. 0 < PAGE * PAGES /\ 0 \in 0..max_rate_limit_retries
    BY <1>1
  <2>3. StepsLeft(c)' = perRequest + 1
    BY <1>1, <1>2, <1>5, <2>1, <2>2
  <2>4. perRequest - attempt[c] >= 1
    BY <1>1 DEF perRequest
  <2> QED
    BY <1>1, <1>2, <2>1, <2>3, <2>4
<1>9. CASE NextPage(c)
  <2>1. /\ pc[c] = "search" /\ pc' = pc /\ start'[c] = start[c] + PAGE /\ attempt'[c] = 0
        /\ start[c] + PAGE < PAGE * PAGES
        /\ \A d \in Callers \ {c} : start'[d] = start[d] /\ attempt'[d] = attempt[d]
        /\ UNCHANGED <<item, binding, reference>>
    BY <1>9 DEF NextPage, PagesLeft, TypeOK
  <2>2. (start[c] + PAGE) \div PAGE = (start[c] \div PAGE) + 1 /\ start[c] \div PAGE \in Nat
    BY <1>1, PagesRead
  <2>3. PAGES - (start[c] + PAGE) \div PAGE = pages - 1
    BY <1>1, <2>2 DEF pages
  <2>4. StepsLeft(c)' = (pages - 1) * perRequest + perRequest + 1
    <3>1. start[c] + PAGE \in Nat /\ 0 \in 0..max_rate_limit_retries
      BY <1>1
    <3>2. StepsLeft(c)' = (pages - 1) * perRequest + (perRequest - 0) + 1
      BY <1>5, <2>1, <2>3, <3>1
    <3> QED
      BY <1>2, <3>2
  <2>5. perRequest - attempt[c] >= 1
    BY <1>1 DEF perRequest
  <2> QED
    BY <1>1, <1>2, <2>1, <2>4, <2>5
<1>10. CASE Create(c)
  <2>1. /\ pc[c] = "create" /\ pc'[c] = "created" /\ attempt'[c] = 0
        /\ UNCHANGED <<start, item, binding>>
        /\ \A d \in Callers \ {c} :
             pc'[d] = pc[d] /\ reference'[d] = reference[d] /\ attempt'[d] = attempt[d]
    BY <1>10 DEF Create, Goto, TypeOK
  <2>2. StepsLeft(c)' = 1
    BY <1>1, <1>5, <2>1
  <2>3. perRequest - attempt[c] >= 1
    BY <1>1 DEF perRequest
  <2> QED
    BY <1>1, <1>2, <2>1, <2>2, <2>3
<1>11. ASSUME RateLimited(c), attempt[c] = max_rate_limit_retries PROVE End(c)
  BY <1>11 DEF RateLimited
<1>12. Fail(c) \/ GiveUp(c) \/ FindOwn(c) \/ FindConflict(c) \/ ScanLimit(c) \/ Return(c)
         => End(c)
  BY DEF Fail, GiveUp, FindOwn, FindConflict, ScanLimit, Return
<1> QED
  BY <1>6, <1>7, <1>8, <1>9, <1>10, <1>11, <1>12 DEF Step

\* No publication sends more than (PAGES + 1) * (max_rate_limit_retries + 1)
\* requests, whatever people, Jira and the other callers do meanwhile: the two
\* loops of _find_comment and _request_once have no other end to wait for than
\* that of the request they await.
THEOREM PublicationsMakeProgress == Spec => PublicationsProgress
<1> DEFINE Progress ==
      \A c \in Callers : pc[c] # "idle" =>
        \/ UNCHANGED <<pc[c], item[c], binding[c], start[c], attempt[c], reference[c]>>
        \/ StepsLeft(c)' \in 0..(StepsLeft(c) - 1)
<1>1. ScanTypes /\ [Next]_vars => [Progress]_vars
  <2> SUFFICES ASSUME ScanTypes, [Next]_vars, NEW c \in Callers, pc[c] # "idle"
               PROVE  \/ UNCHANGED <<pc[c], item[c], binding[c], start[c], attempt[c], reference[c]>>
                      \/ StepsLeft(c)' \in 0..(StepsLeft(c) - 1)
    OBVIOUS
  <2>1. ASSUME NEW d \in Callers, Step(d)
        PROVE  \/ UNCHANGED <<pc[c], item[c], binding[c], start[c], attempt[c], reference[c]>>
               \/ StepsLeft(c)' \in 0..(StepsLeft(c) - 1)
    BY <2>1, StepLowers
  <2>2. ASSUME NEW d \in Callers, PublishReadiness(d) \/ Publish(d)
        PROVE  UNCHANGED <<pc[c], item[c], binding[c], start[c], attempt[c], reference[c]>>
    <3>1. d # c
      BY <2>2 DEF PublishReadiness, Publish
    <3>2. /\ UNCHANGED <<start, attempt, reference>> /\ pc'[c] = pc[c]
          /\ binding'[c] = binding[c]
      BY <2>2, <3>1 DEF PublishReadiness, Publish, Search, Goto, ScanTypes, TypeOK
    <3>3. item'[c] = item[c]
      BY <2>2, <3>1 DEF PublishReadiness, Publish, ScanTypes, TypeOK
    <3> QED
      BY <3>2, <3>3
  <2>3. CASE UNCHANGED callVars
    BY <2>3 DEF callVars
  <2> QED
    BY <2>1, <2>2, <2>3 DEF Next, CreateLate, AddForeign, RemoveComment, vars
<1>2. ScanInv /\ TypeOK => ScanTypes
  BY DEF ScanTypes
<1> QED
  BY <1>1, <1>2, ScanInit, ScanStep, JiraTypeCorrect, PTL DEF Spec, PublicationsProgress

=============================================================================
