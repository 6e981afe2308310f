---------------------------- MODULE CheckRotation ----------------------------
(***************************************************************************)
(* Whose turn it is: how the disappearance check shares its call budget    *)
(* over the listings that are out of search coverage                       *)
(* (check_listings_for_source in connectors/disappearance_check.py).       *)
(*                                                                         *)
(* Time is abstracted to the order of last_checked_at, so that the clock   *)
(* needs no bound and liveness can be checked; ListingLifecycle has the    *)
(* timestamps.  One worker runs passes and searches one after the other.   *)
(***************************************************************************)
EXTENDS Integers, FiniteSets

CONSTANTS
  Listings,     \* the rows of the source
  Budget,       \* get_item calls a pass may spend
  Poison,       \* listings whose get_item raises every time
  MaxErrors,    \* bound on get_item's transient errors
  Watched       \* the listing whose turns are counted

ASSUME RotationAssumption ==
  /\ IsFiniteSet(Listings) /\ Watched \in Listings /\ Poison \subseteq Listings
  /\ Budget \in Nat \ {0} /\ MaxErrors \in Nat

VARIABLES
  member,       \* "new" (not in the table), "out" of the rotation for now
                \* (a search sees it, or retired), "candidate", or "sold"
  pending,      \* listings awaiting a second strike
  rank,         \* dense rank of last_checked_at; 0 is NULL
  stage,        \* of the worker: "idle" or "items"
  todo,         \* what is left of the batch
  answers,      \* what get_item said in this pass
  errors,       \* transient errors so far
  overtaken     \* turns each other listing had since Watched's last one

vars == <<member, pending, rank, stage, todo, answers, errors, overtaken>>

TypeOK ==
  /\ member \in [Listings -> {"new", "out", "candidate", "sold"}]
  /\ pending \in SUBSET Listings
  /\ rank \in [Listings -> 0..Cardinality(Listings)]
  /\ stage \in {"idle", "items"}
  /\ todo \in SUBSET Listings
  /\ answers \in [Listings -> {"none", "alive", "ended"}]
  /\ errors \in 0..MaxErrors
  /\ overtaken \in [Listings -> 0..3]

NoAnswers == [l \in Listings |-> "none"]

Init ==
  /\ member = [l \in Listings |-> "new"]
  /\ pending = {}
  /\ rank = [l \in Listings |-> 0]
  /\ stage = "idle" /\ todo = {} /\ answers = NoAnswers
  /\ errors = 0
  /\ overtaken = [l \in Listings |-> 0]

Candidates == {l \in Listings : member[l] = "candidate"}
-----------------------------------------------------------------------------
(***************************************************************************)
(* What moves listings in and out of the rotation.                         *)
(***************************************************************************)

\* Searches run in the worker too, so never within a pass.  A hit clears the
\* strike and takes the listing out until it has gone unseen long enough; a
\* retired listing is out until a search brings it back, which clears as well.
Leave(l) ==
  /\ stage = "idle"
  /\ member[l] \in {"new", "candidate"}
  /\ member' = [member EXCEPT ![l] = "out"]
  /\ pending' = pending \ {l}
  /\ overtaken' = IF l = Watched THEN [m \in Listings |-> 0] ELSE overtaken
  /\ UNCHANGED <<rank, stage, todo, answers, errors>>

\* last_seen_at falls behind the proven-alive cutoff.
Lapse(l) ==
  /\ member[l] = "out"
  /\ member' = [member EXCEPT ![l] = "candidate"]
  /\ UNCHANGED <<pending, rank, stage, todo, answers, errors, overtaken>>
-----------------------------------------------------------------------------
(***************************************************************************)
(* A pass.                                                                 *)
(***************************************************************************)

\* Mutants of the order: last_checked_at left out of it, or descending.
PrecedesUnranked(a, b) == a \in pending /\ b \notin pending

PrecedesNewestFirst(a, b) ==
  \/ a \in pending /\ b \notin pending
  \/ (a \in pending <=> b \in pending) /\ rank[a] > rank[b]

\* Listings awaiting a second strike first, then by last_checked_at; ties
\* fall either way.
Precedes(a, b) ==
  \/ a \in pending /\ b \notin pending
  \/ (a \in pending <=> b \in pending) /\ rank[a] < rank[b]

\* resolve_budget may leave the pass any part of Budget.
BeginPass ==
  /\ stage = "idle"
  /\ Candidates # {}
  /\ \E n \in 1..Budget : \E B \in SUBSET Candidates :
       /\ Cardinality(B) = IF Cardinality(Candidates) < n
                           THEN Cardinality(Candidates) ELSE n
       /\ \A a \in B, b \in Candidates \ B : ~Precedes(b, a)
       /\ todo' = B
  /\ stage' = "items"
  /\ UNCHANGED <<member, pending, rank, answers, errors, overtaken>>

Upcoming == {l \in todo : \A m \in todo : ~Precedes(m, l)}

Ask(l) ==
  /\ stage = "items"
  /\ l \in Upcoming \ Poison
  /\ \E a \in {"alive", "ended"} : answers' = [answers EXCEPT ![l] = a]
  /\ todo' = todo \ {l}
  /\ UNCHANGED <<member, pending, rank, stage, errors, overtaken>>

QuotaRunsOut ==
  /\ stage = "items"
  /\ todo # {}
  /\ todo' = {}
  /\ UNCHANGED <<member, pending, rank, stage, answers, errors, overtaken>>

\* An exception of get_item other than exhausted quota loses the whole pass.
ItemFails ==
  /\ stage = "items"
  /\ \/ Upcoming \cap Poison # {} /\ UNCHANGED errors
     \/ todo # {} /\ errors < MaxErrors /\ errors' = errors + 1
  /\ stage' = "idle" /\ todo' = {} /\ answers' = NoAnswers
  /\ UNCHANGED <<member, pending, rank, overtaken>>

Asked == {l \in Listings : answers[l] # "none"}

\* last_checked_at := now for everything asked, as ranks without gaps.
Reranked ==
  LET older(l) == {rank[m] : m \in {x \in Listings \ Asked :
                                      rank[x] > 0 /\ rank[x] < rank[l]}}
      kept == {rank[m] : m \in {x \in Listings \ Asked : rank[x] > 0}}
  IN  [l \in Listings |->
         IF l \in Asked THEN Cardinality(kept) + 1
         ELSE IF rank[l] = 0 THEN 0 ELSE Cardinality(older(l)) + 1]

CommitPass ==
  LET ended == {l \in Listings : answers[l] = "ended"}
      alive == {l \in Listings : answers[l] = "alive"}
      sold  == ended \cap pending
  IN  /\ stage = "items"
      /\ todo = {}
      /\ member' = [l \in Listings |-> IF l \in sold THEN "sold" ELSE member[l]]
      /\ pending' = (pending \cup ended) \ (alive \cup sold)
      /\ rank' = Reranked
      /\ overtaken' = [l \in Listings |->
           IF Watched \in Asked \/ member[Watched] # "candidate" THEN 0
           ELSE IF l \in Asked /\ overtaken[l] < 3 THEN overtaken[l] + 1
           ELSE overtaken[l]]
      /\ stage' = "idle" /\ answers' = NoAnswers
      /\ UNCHANGED <<todo, errors>>

Next ==
  \/ \E l \in Listings : Leave(l) \/ Lapse(l) \/ Ask(l)
  \/ BeginPass \/ QuotaRunsOut \/ ItemFails \/ CommitPass

\* The scheduler keeps enqueueing passes and the worker keeps running them; a
\* daily window that reopens lets some pass ask something, again and again.
Fairness ==
  /\ WF_vars(BeginPass)
  /\ SF_vars(\E l \in Listings : Ask(l))
  /\ WF_vars(stage = "items" /\ (CommitPass \/ ItemFails \/ \E l \in Listings : Ask(l)))

Spec == Init /\ [][Next]_vars /\ Fairness
-----------------------------------------------------------------------------
(***************************************************************************)
(* Properties.                                                             *)
(***************************************************************************)

\* Fair turns: while Watched waits in the rotation no other listing is asked
\* about more than twice, once in its turn and once for its second strike.
\* Quota cuts, lost passes and listings leaving and returning do not add to it.
NobodyOvertakesTwice == \A l \in Listings : overtaken[l] <= 2

\* "which spreads a fixed budget fairly across however many candidates there
\* are ... each listing comes round": a listing that stays in the rotation is
\* asked about, in a pass that commits, again and again.
WatchedComesRound ==
  [](member[Watched] = "candidate" =>
       <>(member[Watched] # "candidate" \/ (todo = {} /\ Watched \in Asked)))

\* The same for a rotation nothing enters or leaves any more: "with N
\* candidates and a budget of B, each listing comes round".
SteadyRotationComesRound ==
  <>[](\A l \in Listings : member[l] = "candidate")
    => []<>(todo = {} /\ Watched \in Asked)

=============================================================================
