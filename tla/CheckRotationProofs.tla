-------------------------- MODULE CheckRotationProofs --------------------------
(***************************************************************************)
(* Fair turns in the rotation of the disappearance check, proved for any   *)
(* number of listings, any budget and whatever raises, runs out or moves   *)
(* in between.                                                             *)
(*                                                                         *)
(* Whoever had a turn since Watched's last one ranks behind it, so only a  *)
(* pending strike gets it another turn before Watched; that turn settles   *)
(* the strike, and there is no third.  What a pass may have asked before   *)
(* Watched follows from how its batch was chosen, which is remembered      *)
(* until it commits: ranks and strikes do not change while it runs.        *)
(***************************************************************************)
EXTENDS CheckRotation, FiniteSetTheorems, TLAPS

\* The ranks that stay, and those of them below a listing's.
Kept == {rank[m] : m \in {x \in Listings \ Asked : rank[x] > 0}}

Older(l) == {rank[m] : m \in {x \in Listings \ Asked :
                                rank[x] > 0 /\ rank[x] < rank[l]}}

\* Nobody has had a turn since Watched's last one.
Fresh == \A l \in Listings : overtaken[l] = 0

\* An idle worker holds no batch and no answers.
IdleInv == stage = "idle" => todo = {} /\ answers = NoAnswers

\* What is asked, or still to be asked after Watched, does not come after it.
BatchInv ==
  stage = "items" /\ Watched \notin Asked =>
    \/ Fresh
    \/ /\ \A l \in Asked : ~Precedes(Watched, l)
       /\ Watched \in todo \/ \A l \in todo : ~Precedes(Watched, l)

TurnInv ==
  /\ member[Watched] # "candidate" => Fresh
  /\ \A l \in Listings :
       /\ overtaken[l] >= 1 => rank[l] > rank[Watched]
       /\ overtaken[l] >= 2 => l \notin pending
       /\ overtaken[l] <= 2

RotationInv == TypeOK /\ IdleInv /\ BatchInv /\ TurnInv
-----------------------------------------------------------------------------
(***************************************************************************)
(* Ranks.                                                                  *)
(***************************************************************************)

\* The values of a function on a finite set are no more than the set has.
LEMMA ValuesAreFew ==
  ASSUME NEW D, IsFiniteSet(D), NEW f
  PROVE  /\ IsFiniteSet({f[x] : x \in D})
         /\ Cardinality({f[x] : x \in D}) \in Nat /\ Cardinality(D) \in Nat
         /\ Cardinality({f[x] : x \in D}) <= Cardinality(D)
<1> DEFINE image == {f[x] : x \in D}
           g == [x \in D |-> f[x]]
<1>1. g \in Surjection(D, image)
  BY DEF Surjection
<1>2. IsFiniteSet(image) /\ Cardinality(image) <= Cardinality(D)
  BY <1>1, FS_Surjection DEF ExistsSurjection
<1> QED BY <1>2, FS_CardinalityType

\* A set that has what another has and one more is larger.
LEMMA StrictlyMore ==
  ASSUME NEW T, IsFiniteSet(T), NEW x \in T, NEW S, S \subseteq T, x \notin S
  PROVE  /\ IsFiniteSet(S) /\ Cardinality(S) \in Nat /\ Cardinality(T) \in Nat
         /\ Cardinality(S) + 1 <= Cardinality(T)
<1>1. IsFiniteSet(T \ {x}) /\ Cardinality(T \ {x}) = Cardinality(T) - 1
  BY FS_RemoveElement
<1>2. S \subseteq T \ {x}
  OBVIOUS
<1> QED BY <1>1, <1>2, FS_Subset, FS_CardinalityType

LEMMA RanksFinite ==
  ASSUME TypeOK
  PROVE  /\ IsFiniteSet(Kept) /\ Cardinality(Kept) \in Nat
         /\ \A l \in Listings : IsFiniteSet(Older(l)) /\ Cardinality(Older(l)) \in Nat
         /\ \A l \in Listings : Cardinality(Older(l)) + 1 <= Cardinality(Listings)
         /\ \A l \in Asked : Cardinality(Kept) + 1 <= Cardinality(Listings)
<1>1. IsFiniteSet(Listings)
  BY RotationAssumption DEF RotationAssumption
<1>2. ASSUME NEW l \in Listings, NEW D \in SUBSET (Listings \ {l})
      PROVE  /\ IsFiniteSet({rank[m] : m \in D}) /\ Cardinality({rank[m] : m \in D}) \in Nat
             /\ Cardinality({rank[m] : m \in D}) + 1 <= Cardinality(Listings)
  <2>1. IsFiniteSet(D) /\ Cardinality(D) \in Nat /\ Cardinality(Listings) \in Nat
        /\ Cardinality(D) + 1 <= Cardinality(Listings)
    BY <1>1, StrictlyMore
  <2> QED BY <2>1, ValuesAreFew
<1>3. ASSUME NEW l \in Listings
      PROVE  /\ IsFiniteSet(Older(l)) /\ Cardinality(Older(l)) \in Nat
             /\ Cardinality(Older(l)) + 1 <= Cardinality(Listings)
  <2> DEFINE D == {x \in Listings \ Asked : rank[x] > 0 /\ rank[x] < rank[l]}
  <2>1. l \notin D
    BY DEF TypeOK
  <2>2. D \in SUBSET (Listings \ {l})
    BY <2>1
  <2> QED BY <1>2, <2>2 DEF Older
<1>4. IsFiniteSet(Kept) /\ Cardinality(Kept) \in Nat
  <2> DEFINE D == {x \in Listings \ Asked : rank[x] > 0}
  <2>1. IsFiniteSet(D)
    BY <1>1, FS_Subset
  <2> QED BY <2>1, ValuesAreFew DEF Kept
<1>5. ASSUME NEW l \in Asked PROVE Cardinality(Kept) + 1 <= Cardinality(Listings)
  <2> DEFINE D == {x \in Listings \ Asked : rank[x] > 0}
  <2>1. l \in Listings /\ D \in SUBSET (Listings \ {l})
    BY DEF Asked
  <2> QED BY <1>2, <2>1 DEF Kept
<1> QED BY <1>3, <1>4, <1>5

LEMMA RerankedIs ==
  Reranked = [l \in Listings |->
                IF l \in Asked THEN Cardinality(Kept) + 1
                ELSE IF rank[l] = 0 THEN 0 ELSE Cardinality(Older(l)) + 1]
BY DEF Reranked, Kept, Older

LEMMA RerankedType ==
  ASSUME TypeOK
  PROVE  Reranked \in [Listings -> 0..Cardinality(Listings)]
<1>1. Cardinality(Listings) \in Nat
  BY FS_CardinalityType, RotationAssumption DEF RotationAssumption
<1> QED BY <1>1, RanksFinite, RerankedIs

\* What was asked goes behind what was not; the rest keep their order.
LEMMA RerankedOrder ==
  ASSUME TypeOK, NEW w \in Listings \ Asked, NEW l \in Listings,
         l \in Asked \/ rank[l] > rank[w]
  PROVE  Reranked[l] > Reranked[w]
<1>0. rank[w] \in Nat /\ rank[l] \in Nat
  BY DEF TypeOK
<1>1. /\ Reranked[w] = IF rank[w] = 0 THEN 0 ELSE Cardinality(Older(w)) + 1
      /\ Reranked[l] = IF l \in Asked THEN Cardinality(Kept) + 1
                       ELSE IF rank[l] = 0 THEN 0 ELSE Cardinality(Older(l)) + 1
  BY RerankedIs
<1>2. CASE l \in Asked
  <2>1. CASE rank[w] = 0
    BY <1>1, <1>2, <2>1, RanksFinite
  <2>2. CASE rank[w] # 0
    <3>1. Older(w) \subseteq Kept /\ rank[w] \in Kept /\ rank[w] \notin Older(w)
      BY <1>0, <2>2 DEF Older, Kept
    <3>2. Cardinality(Older(w)) + 1 <= Cardinality(Kept)
      BY <3>1, RanksFinite, StrictlyMore
    <3> QED BY <1>1, <1>2, <2>2, <3>2, RanksFinite
  <2> QED BY <2>1, <2>2
<1>3. CASE l \notin Asked
  <2>0. rank[l] > rank[w]
    BY <1>3
  <2>1. CASE rank[w] = 0
    BY <1>0, <1>1, <1>3, <2>0, <2>1, RanksFinite
  <2>2. CASE rank[w] # 0
    <3>1. \A x \in Listings : rank[x] \in Nat
      BY DEF TypeOK
    <3>2. Older(w) \subseteq Older(l) /\ rank[w] \in Older(l) /\ rank[w] \notin Older(w)
      BY <1>0, <2>0, <2>2, <3>1 DEF Older
    <3>3. Cardinality(Older(w)) + 1 <= Cardinality(Older(l))
      BY <3>2, RanksFinite, StrictlyMore
    <3> QED BY <1>0, <1>1, <1>3, <2>0, <2>2, <3>3, RanksFinite
  <2> QED BY <2>1, <2>2
<1> QED BY <1>2, <1>3
-----------------------------------------------------------------------------
(***************************************************************************)
(* The steps.                                                              *)
(***************************************************************************)

LEMMA RotationStart == Init => RotationInv
<1> SUFFICES ASSUME Init PROVE RotationInv
  OBVIOUS
<1>0. Cardinality(Listings) \in Nat /\ MaxErrors \in Nat /\ Watched \in Listings
  BY FS_CardinalityType, RotationAssumption DEF RotationAssumption
<1>1. TypeOK
  BY <1>0 DEF Init, TypeOK, NoAnswers
<1>2. IdleInv /\ BatchInv
  BY DEF Init, IdleInv, BatchInv
<1>3. TurnInv
  BY <1>0 DEF Init, TurnInv, Fresh
<1> QED BY <1>1, <1>2, <1>3 DEF RotationInv

LEMMA TypeKept == TypeOK /\ [Next]_vars => TypeOK'
<1> SUFFICES ASSUME TypeOK, [Next]_vars PROVE TypeOK'
  OBVIOUS
<1>0. MaxErrors \in Nat
  BY RotationAssumption DEF RotationAssumption
<1>1. ASSUME NEW l \in Listings, Leave(l) PROVE TypeOK'
  <2>1. /\ member' \in [Listings -> {"new", "out", "candidate", "sold"}]
        /\ pending' \in SUBSET Listings
    BY <1>1 DEF Leave, TypeOK
  <2>2. overtaken' \in [Listings -> 0..3]
    BY <1>1 DEF Leave, TypeOK
  <2> QED BY <1>1, <2>1, <2>2 DEF Leave, TypeOK
<1>2. ASSUME NEW l \in Listings, Lapse(l) PROVE TypeOK'
  BY <1>2 DEF Lapse, TypeOK
<1>3. ASSUME NEW l \in Listings, Ask(l) PROVE TypeOK'
  <2>1. answers' \in [Listings -> {"none", "alive", "ended"}]
    BY <1>3 DEF Ask, TypeOK
  <2> QED BY <1>3, <2>1 DEF Ask, TypeOK
<1>4. ASSUME BeginPass PROVE TypeOK'
  BY <1>4 DEF BeginPass, Candidates, TypeOK
<1>5. ASSUME QuotaRunsOut PROVE TypeOK'
  BY <1>5 DEF QuotaRunsOut, TypeOK
<1>6. ASSUME ItemFails PROVE TypeOK'
  <2>1. errors' \in 0..MaxErrors
    BY <1>0, <1>6 DEF ItemFails, TypeOK
  <2> QED BY <1>6, <2>1 DEF ItemFails, NoAnswers, TypeOK
<1>7. ASSUME CommitPass PROVE TypeOK'
  <2>1. rank' \in [Listings -> 0..Cardinality(Listings)]
    BY <1>7, RerankedType DEF CommitPass
  <2>2. /\ member' \in [Listings -> {"new", "out", "candidate", "sold"}]
        /\ pending' \in SUBSET Listings
    BY <1>7 DEF CommitPass, TypeOK
  <2>3. overtaken' \in [Listings -> 0..3]
    <3>1. ASSUME NEW l \in Listings, overtaken[l] < 3 PROVE overtaken[l] + 1 \in 0..3
      BY <3>1 DEF TypeOK
    <3> QED BY <1>7, <3>1 DEF CommitPass, TypeOK
  <2> QED BY <1>7, <2>1, <2>2, <2>3 DEF CommitPass, NoAnswers, TypeOK
<1>8. CASE UNCHANGED vars
  BY <1>8 DEF TypeOK, vars
<1> QED BY <1>1, <1>2, <1>3, <1>4, <1>5, <1>6, <1>7, <1>8 DEF Next

\* A pass starts with nothing asked, and with Watched in its batch, behind all
\* of the batch, or out of the rotation.
LEMMA BeginsInOrder ==
  ASSUME RotationInv, BeginPass PROVE BatchInv'
<1>1. PICK B \in SUBSET Candidates :
        (\A a \in B, b \in Candidates \ B : ~Precedes(b, a)) /\ todo' = B
  BY DEF BeginPass
<1>2. Asked' = {}
  BY DEF RotationInv, IdleInv, BeginPass, Asked, NoAnswers
<1>3. Watched \in Listings /\ UNCHANGED <<member, pending, rank, overtaken>>
  BY RotationAssumption DEF RotationAssumption, BeginPass
<1>4. CASE Watched \notin Candidates
  <2>1. Fresh'
    BY <1>3, <1>4 DEF RotationInv, TurnInv, Candidates, Fresh
  <2> QED BY <2>1 DEF BatchInv
<1>5. CASE Watched \in Candidates
  <2>1. Watched \in todo' \/ \A l \in todo' : ~Precedes(Watched, l)'
    BY <1>1, <1>3, <1>5 DEF Precedes
  <2> QED BY <1>2, <2>1 DEF BatchInv
<1> QED BY <1>4, <1>5

\* What is asked next is not preceded by anything left in the batch.
LEMMA AsksInOrder ==
  ASSUME RotationInv, NEW l \in Listings, Ask(l) PROVE BatchInv'
<1> SUFFICES ASSUME Watched \notin Asked', ~Fresh' PROVE
      /\ \A m \in Asked' : ~Precedes(Watched, m)'
      /\ Watched \in todo' \/ \A m \in todo' : ~Precedes(Watched, m)'
  BY DEF BatchInv
<1>1. /\ stage = "items" /\ l \in todo /\ todo' = todo \ {l}
      /\ \A m \in todo : ~Precedes(m, l)
      /\ UNCHANGED <<pending, rank, overtaken>>
  BY DEF Ask, Upcoming
<1>2. Asked' = Asked \cup {l}
  BY DEF RotationInv, TypeOK, Ask, Asked
<1>3. /\ \A m \in Asked : ~Precedes(Watched, m)
      /\ Watched \in todo \/ \A m \in todo : ~Precedes(Watched, m)
  BY <1>1, <1>2 DEF RotationInv, BatchInv, Fresh
<1>4. \A m : Precedes(Watched, m)' <=> Precedes(Watched, m)
  BY <1>1 DEF Precedes
<1>5. l # Watched /\ ~Precedes(Watched, l)
  BY <1>1, <1>2, <1>3
<1> QED BY <1>1, <1>2, <1>3, <1>4, <1>5

\* Once overtaken, Watched yields only to a strike, which its turn settles.
LEMMA CommitsFairly ==
  ASSUME RotationInv, CommitPass PROVE TurnInv'
<1>0. Watched \in Listings /\ TypeOK /\ TypeOK'
  BY TypeKept, RotationAssumption DEF RotationAssumption, RotationInv, Next
<1> DEFINE reset == Watched \in Asked \/ member[Watched] # "candidate"
<1>1. \A l \in Listings :
        overtaken'[l] = IF reset THEN 0
                        ELSE IF l \in Asked /\ overtaken[l] < 3 THEN overtaken[l] + 1
                        ELSE overtaken[l]
  BY DEF CommitPass
<1>2. CASE reset
  <2>1. Fresh'
    BY <1>1, <1>2 DEF Fresh
  <2> QED BY <2>1 DEF TurnInv, Fresh
<1>3. CASE ~reset
  <2>1. Watched \notin Asked /\ member[Watched] = "candidate"
    BY <1>3
  <2>2. member'[Watched] = "candidate"
    BY <1>0, <2>1 DEF CommitPass, Asked
  <2>3. ASSUME NEW l \in Listings, overtaken'[l] >= 1
        PROVE  rank'[l] > rank'[Watched]
    <3>1. l \in Asked \/ overtaken[l] >= 1
      BY <1>0, <1>1, <1>3, <2>3 DEF TypeOK
    <3>2. l \in Asked \/ rank[l] > rank[Watched]
      BY <3>1 DEF RotationInv, TurnInv
    <3>3. Reranked[l] > Reranked[Watched]
      BY <1>0, <2>1, <3>2, RerankedOrder
    <3> QED BY <3>3 DEF CommitPass
  <2>4. ASSUME NEW l \in Asked, overtaken[l] >= 1
        PROVE  overtaken[l] = 1 /\ l \notin pending'
    <3>1. l \in Listings /\ stage = "items"
      BY DEF Asked, CommitPass
    <3>2. ~Precedes(Watched, l)
      <4>1. ~Fresh
        BY <1>0, <2>4, <3>1 DEF Fresh, TypeOK
      <4> QED BY <2>1, <3>1, <4>1 DEF RotationInv, BatchInv
    <3>3. rank[l] > rank[Watched]
      BY <2>4, <3>1 DEF RotationInv, TurnInv
    <3>4. l \in pending
      <4>1. rank[Watched] < rank[l]
        BY <1>0, <3>1, <3>3 DEF TypeOK
      <4> QED BY <3>2, <4>1 DEF Precedes
    <3>5. overtaken[l] = 1
      BY <1>0, <2>4, <3>1, <3>4 DEF RotationInv, TurnInv, TypeOK
    <3>6. answers[l] \in {"alive", "ended"}
      BY <1>0, <3>1 DEF Asked, TypeOK
    <3>7. l \notin pending'
      BY <3>1, <3>4, <3>6 DEF CommitPass
    <3> QED BY <3>5, <3>7
  <2>5. ASSUME NEW l \in Listings, overtaken'[l] >= 2
        PROVE  overtaken'[l] <= 2 /\ l \notin pending'
    <3>1. CASE l \in Asked
      <4>1. overtaken[l] >= 1
        BY <1>0, <1>1, <1>3, <2>5, <3>1 DEF TypeOK
      <4>2. overtaken[l] = 1 /\ l \notin pending'
        BY <2>4, <3>1, <4>1
      <4> QED BY <1>1, <1>3, <3>1, <4>2
    <3>2. CASE l \notin Asked
      <4>1. overtaken'[l] = overtaken[l]
        BY <1>1, <1>3, <3>2
      <4>2. overtaken[l] <= 2 /\ l \notin pending
        BY <2>5, <4>1 DEF RotationInv, TurnInv
      <4>3. l \notin pending'
        BY <3>2, <4>2 DEF CommitPass, Asked
      <4> QED BY <4>1, <4>2, <4>3
    <3> QED BY <3>1, <3>2
  <2>6. \A l \in Listings : overtaken'[l] \in Nat
    BY <1>0 DEF TypeOK
  <2>7. ASSUME NEW l \in Listings PROVE overtaken'[l] <= 2
    BY <2>5, <2>6
  <2> QED BY <2>2, <2>3, <2>5, <2>7 DEF TurnInv
<1> QED BY <1>2, <1>3

\* Nothing else moves a turn, a rank or a strike, but for searches that clear.
LEMMA TurnsKept ==
  ASSUME TurnInv, UNCHANGED <<rank, overtaken>>, pending' \subseteq pending,
         member'[Watched] # "candidate" => member[Watched] # "candidate"
  PROVE  TurnInv'
BY DEF TurnInv, Fresh

LEMMA RotationStep == RotationInv /\ [Next]_vars => RotationInv'
<1> SUFFICES ASSUME RotationInv, [Next]_vars PROVE RotationInv'
  OBVIOUS
<1>0. /\ TypeOK /\ TypeOK' /\ IdleInv /\ BatchInv /\ TurnInv
      /\ Watched \in Listings
  BY TypeKept, RotationAssumption DEF RotationAssumption, RotationInv
<1>1. ASSUME NEW l \in Listings, Leave(l) PROVE RotationInv'
  <2>1. IdleInv' /\ BatchInv'
    BY <1>0, <1>1 DEF Leave, IdleInv, BatchInv, NoAnswers
  <2>2. CASE l = Watched
    <3>1. Fresh'
      BY <1>1, <2>2 DEF Leave, Fresh
    <3>2. TurnInv'
      BY <3>1 DEF TurnInv, Fresh
    <3> QED BY <1>0, <2>1, <3>2 DEF RotationInv
  <2>3. CASE l # Watched
    <3>1. /\ UNCHANGED <<rank, overtaken>> /\ pending' \subseteq pending
          /\ member'[Watched] = member[Watched]
      BY <1>0, <1>1, <2>3 DEF Leave, TypeOK
    <3> QED BY <1>0, <2>1, <3>1, TurnsKept DEF RotationInv
  <2> QED BY <2>2, <2>3
<1>2. ASSUME NEW l \in Listings, Lapse(l) PROVE RotationInv'
  <2>1. /\ UNCHANGED <<rank, overtaken, pending, stage, todo, answers>>
        /\ member'[Watched] # "candidate" => member[Watched] # "candidate"
    BY <1>0, <1>2 DEF Lapse, TypeOK
  <2>2. IdleInv' /\ BatchInv'
    BY <1>0, <2>1 DEF IdleInv, BatchInv, NoAnswers, Asked, Precedes, Fresh
  <2> QED BY <1>0, <2>1, <2>2, TurnsKept DEF RotationInv
<1>3. ASSUME NEW l \in Listings, Ask(l) PROVE RotationInv'
  <2>1. IdleInv' /\ UNCHANGED <<rank, overtaken, pending, member>>
    BY <1>3 DEF Ask, IdleInv
  <2> QED BY <1>0, <1>3, <2>1, AsksInOrder, TurnsKept DEF RotationInv
<1>4. ASSUME BeginPass PROVE RotationInv'
  <2>1. IdleInv' /\ UNCHANGED <<rank, overtaken, pending, member>>
    BY <1>4 DEF BeginPass, IdleInv
  <2> QED BY <1>0, <1>4, <2>1, BeginsInOrder, TurnsKept DEF RotationInv
<1>5. ASSUME QuotaRunsOut PROVE RotationInv'
  <2>1. /\ UNCHANGED <<rank, overtaken, pending, member, answers, stage>>
        /\ todo' = {} /\ stage = "items"
    BY <1>5 DEF QuotaRunsOut
  <2>2. IdleInv' /\ BatchInv'
    BY <1>0, <2>1 DEF IdleInv, BatchInv, Asked, Precedes, Fresh
  <2> QED BY <1>0, <2>1, <2>2, TurnsKept DEF RotationInv
<1>6. ASSUME ItemFails PROVE RotationInv'
  <2>1. /\ UNCHANGED <<rank, overtaken, pending, member>>
        /\ IdleInv' /\ BatchInv'
    BY <1>6 DEF ItemFails, IdleInv, BatchInv, NoAnswers
  <2> QED BY <1>0, <2>1, TurnsKept DEF RotationInv
<1>7. ASSUME CommitPass PROVE RotationInv'
  <2>1. IdleInv' /\ BatchInv'
    BY <1>7 DEF CommitPass, IdleInv, BatchInv, NoAnswers
  <2> QED BY <1>0, <1>7, <2>1, CommitsFairly DEF RotationInv
<1>8. CASE UNCHANGED vars
  BY <1>0, <1>8 DEF vars, RotationInv, IdleInv, BatchInv, TurnInv, Fresh, Asked,
                    NoAnswers, Precedes
<1> QED BY <1>1, <1>2, <1>3, <1>4, <1>5, <1>6, <1>7, <1>8 DEF Next
-----------------------------------------------------------------------------

\* The order behind the turns holds in every reachable state.
THEOREM RotationCorrect == Spec => []RotationInv
<1> QED BY RotationStart, RotationStep, PTL DEF Spec

\* Ranks stay dense: no more of them than listings, however often they move.
THEOREM RotationTypeCorrect == Spec => []TypeOK
<1>1. RotationInv => TypeOK
  BY DEF RotationInv
<1> QED BY <1>1, RotationCorrect, PTL

\* check_listings_for_source: while a listing waits for its turn, no other
\* gets more than two.
THEOREM TurnsAreFair == Spec => []NobodyOvertakesTwice
<1>1. RotationInv => NobodyOvertakesTwice
  BY DEF RotationInv, TurnInv, NobodyOvertakesTwice
<1> QED BY <1>1, RotationCorrect, PTL
=============================================================================
