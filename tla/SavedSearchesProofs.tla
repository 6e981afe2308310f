-------------------------- MODULE SavedSearchesProofs --------------------------
(***************************************************************************)
(* How far concurrent requests can overrun the limits that the routes of   *)
(* the saved searches check, proved for every table, every number of       *)
(* concurrent requests and every setting of the budget; then what a search *)
(* that is switched off still costs, and which runs are reported.          *)
(*                                                                         *)
(* The argument is the same for both limits.  A request that has passed    *)
(* its check is pending until it writes.  Counting what is in the table    *)
(* together with what is pending, only passing a check adds to the sum,    *)
(* and whoever passes saw a table below the limit, with at most every      *)
(* thread pending.                                                         *)
(***************************************************************************)
EXTENDS SavedSearches, FiniteSetTheorems, TLAPS

\* Threads that passed the quota check and have not written yet.
Pending == {t \in Threads : requests[t].stage \in {"inserting", "enabling"}}

\* Searches with keyword k, and threads that found none and will add one.
Copies(k) == {i \in Ids : Exists(i) /\ table[i].keyword = k}

Adding(k) == {t \in Threads : /\ requests[t].stage \in {"counting", "inserting"}
                              /\ requests[t].id = None
                              /\ requests[t].keyword = k}

\* Which requests are about a row, and which about a search to be created.
ShapeOK ==
  \A t \in Threads :
    /\ requests[t].stage \in {"idle", "inserting"} => requests[t].id = None
    /\ requests[t].stage \in {"enabling", "disabling", "deleting"} => requests[t].id \in Ids

OvershootInv ==
  \A c \in Ceilings :
    Cardinality(Enabled) + Cardinality(Pending) <= c + Cardinality(Threads) - 1

CopiesInv ==
  \A k \in Keywords :
    Cardinality(Copies(k)) + Cardinality(Adding(k)) <= Cardinality(Threads)
-----------------------------------------------------------------------------
\* A subset of a finite set is finite and has at most as many members.
LEMMA SubsetSize ==
  ASSUME NEW S, IsFiniteSet(S), NEW R \in SUBSET S
  PROVE  /\ IsFiniteSet(R) /\ Cardinality(R) \in Nat
         /\ Cardinality(S) \in Nat /\ Cardinality(R) <= Cardinality(S)
BY FS_Subset, FS_CardinalityType

\* A set that gains at most one member grows by at most one.
LEMMA GrowsByOne ==
  ASSUME NEW S, IsFiniteSet(S), NEW x, NEW R \in SUBSET (S \cup {x})
  PROVE  Cardinality(R) <= Cardinality(S) + 1
<1>1. IsFiniteSet(S \cup {x}) /\ Cardinality(S \cup {x}) <= Cardinality(S) + 1
  <2>1. IsFiniteSet(S \cup {x})
         /\ (Cardinality(S \cup {x}) = Cardinality(S)
              \/ Cardinality(S \cup {x}) = Cardinality(S) + 1)
    BY FS_AddElement
  <2> QED BY <2>1, FS_CardinalityType
<1> QED BY <1>1, SubsetSize, FS_CardinalityType

\* A set that loses a member shrinks by at least one.
LEMMA ShrinksByOne ==
  ASSUME NEW S, IsFiniteSet(S), NEW x \in S, NEW R \in SUBSET (S \ {x})
  PROVE  Cardinality(R) <= Cardinality(S) - 1
<1>1. IsFiniteSet(S \ {x}) /\ Cardinality(S \ {x}) = Cardinality(S) - 1
  BY FS_RemoveElement
<1> QED BY <1>1, SubsetSize, FS_CardinalityType

\* The sets that are counted are finite, whatever the state.
LEMMA Sizes ==
  /\ IsFiniteSet(Enabled) /\ Cardinality(Enabled) \in Nat
  /\ Cardinality(Enabled) <= Cardinality(Ids)
  /\ IsFiniteSet(Pending) /\ Cardinality(Pending) \in Nat
  /\ Cardinality(Pending) <= Cardinality(Threads)
  /\ \A k \in Keywords :
       /\ IsFiniteSet(Copies(k)) /\ Cardinality(Copies(k)) \in Nat
       /\ IsFiniteSet(Adding(k)) /\ Cardinality(Adding(k)) \in Nat
       /\ Cardinality(Adding(k)) <= Cardinality(Threads)
  /\ Cardinality(Ids) \in Nat
  /\ Cardinality(Threads) \in Nat \ {0}
<1>1. Enabled \in SUBSET Ids /\ Pending \in SUBSET Threads
       /\ \A k \in Keywords : Copies(k) \in SUBSET Ids /\ Adding(k) \in SUBSET Threads
  BY DEF Enabled, Pending, Copies, Adding
<1>2. Cardinality(Threads) # 0
  BY FS_EmptySet, SearchesAssumption DEF SearchesAssumption
<1> QED BY <1>1, <1>2, SubsetSize, FS_CardinalityType, SearchesAssumption
         DEF SearchesAssumption
-----------------------------------------------------------------------------
\* Answering a request touches the answering thread alone.
LEMMA AnswerEffect ==
  ASSUME requests \in [Threads -> Request], NEW t \in Threads, Answer(t)
  PROVE  /\ requests' \in [Threads -> Request]
         /\ requests'[t] = Idle
         /\ \A u \in Threads \ {t} : requests'[u] = requests[u]
BY DEF Answer, Request, Idle, Stages

\* A write changes the row it is about, and only if that row still exists.
LEMMA WriteEffect ==
  ASSUME table \in [Ids -> Row], NEW t \in Threads, NEW stage,
         NEW row \in Row, Write(t, stage, row)
  PROVE  /\ table' \in [Ids -> Row]
         /\ \A i \in Ids : \/ table'[i] = table[i]
                           \/ i = requests[t].id /\ Exists(i) /\ table'[i] = row
<1> DEFINE id == requests[t].id
<1>1. CASE Exists(id)
  <2>1. table' = [table EXCEPT ![id] = row]
    BY <1>1 DEF Write
  <2>2. table' \in [Ids -> Row]
    BY <2>1
  <2>3. \A i \in Ids : \/ table'[i] = table[i]
                       \/ i = id /\ table'[i] = row
    BY <2>1
  <2> QED BY <1>1, <2>2, <2>3
<1>2. CASE ~Exists(id)
  <2>1. table' = table
    BY <1>2 DEF Write
  <2> QED BY <2>1
<1> QED BY <1>1, <1>2

\* Type correctness: every request and every run, in any interleaving, keeps
\* the table and the program's own memory well formed.
THEOREM SearchesTypeCorrect == Spec => []TypeOK
<1>1. Init => TypeOK
  BY DEF Init, TypeOK, States, Stages, Request, Idle, Row, NoRow, Run, NoRun
<1>2. TypeOK /\ [Next]_vars => TypeOK'
  <2> SUFFICES ASSUME TypeOK, [Next]_vars PROVE TypeOK'
    OBVIOUS
  <2>1. ASSUME NEW t \in Threads, Handle(t) PROVE TypeOK'
    <3> USE <2>1 DEF TypeOK
    <3>1. ASSUME NEW k \in Keywords, Post(t, k) PROVE TypeOK'
      BY <3>1 DEF Post, Request, Stages
    <3>2. ASSUME NEW i \in Ids, PatchEnable(t, i) PROVE TypeOK'
      BY <3>2 DEF PatchEnable, Request, Stages
    <3>3. ASSUME NEW i \in Ids, PatchDisable(t, i) PROVE TypeOK'
      BY <3>3 DEF PatchDisable, Request, Stages
    <3>4. ASSUME NEW i \in Ids, Delete(t, i) PROVE TypeOK'
      BY <3>4 DEF Delete, Request, Stages
    <3>5. CASE Count(t)
      BY <3>5, AnswerEffect DEF Count, Request, Stages
    <3>6. CASE Insert(t)
      <4>1. PICK i \in Ids :
               table' = [table EXCEPT ![i] = [state |-> "enabled",
                                              keyword |-> requests[t].keyword]]
        BY <3>6 DEF Insert
      <4>2. table' \in [Ids -> Row]
        BY <4>1 DEF Row, States, Request
      <4> QED BY <3>6, <4>2, AnswerEffect DEF Insert
    <3>7. CASE Enable(t)
      <4>1. wasted' = [wasted EXCEPT ![requests[t].id] = 0] /\ run' = run
        BY <3>7 DEF Enable, Write
      <4>2. wasted' \in [Ids -> 0..2]
        <5>1. 0 \in 0..2
          OBVIOUS
        <5> QED BY <4>1, <5>1
      <4>3. table' \in [Ids -> Row]
        <5>1. CASE requests[t].id \in Ids
          <6>1. [table[requests[t].id] EXCEPT !.state = "enabled"] \in Row
            BY <5>1 DEF Row, States
          <6> QED BY <3>7, <6>1, WriteEffect DEF Enable
        <5>2. CASE requests[t].id \notin Ids
          BY <3>7, <5>2 DEF Enable, Write
        <5> QED BY <5>1, <5>2
      <4>4. requests' \in [Threads -> Request]
        BY <3>7, AnswerEffect DEF Enable, Write
      <4> QED BY <4>1, <4>2, <4>3, <4>4
    <3>8. CASE Disable(t)
      <4>1. table' \in [Ids -> Row]
        <5>1. CASE requests[t].id \in Ids
          <6>1. [table[requests[t].id] EXCEPT !.state = "disabled"] \in Row
            BY <5>1 DEF Row, States
          <6> QED BY <3>8, <6>1, WriteEffect DEF Disable
        <5>2. CASE requests[t].id \notin Ids
          BY <3>8, <5>2 DEF Disable, Write
        <5> QED BY <5>1, <5>2
      <4> QED BY <3>8, <4>1, AnswerEffect DEF Disable, Write
    <3>9. CASE Remove(t)
      <4>1. table' \in [Ids -> Row]
        <5>1. NoRow("deleted") \in Row
          BY DEF NoRow, Row, States
        <5> QED BY <3>9, <5>1, WriteEffect DEF Remove
      <4> QED BY <3>9, <4>1, AnswerEffect DEF Remove, Write
    <3>10. CASE RequestFails(t)
      BY <3>10, AnswerEffect DEF RequestFails
    <3> QED BY <2>1, <3>1, <3>2, <3>3, <3>4, <3>5, <3>6, <3>7, <3>8, <3>9, <3>10
             DEF Handle
  <2>2. CASE RunStep
    <3> USE DEF TypeOK, Run, NoRun
    <3>1. CASE StartRun
      BY <3>1 DEF StartRun, Enabled
    <3>2. CASE QuotaRunsOut
      BY <3>2 DEF QuotaRunsOut
    <3>3. CASE FinishRun
      <4>1. SoundsAlarm(run.searchesRun, run.searchesFailed) \in BOOLEAN
        BY DEF SoundsAlarm
      <4> QED BY <3>3, <4>1 DEF FinishRun
    <3>4. CASE RunCrashes
      BY <3>4 DEF RunCrashes
    <3>5. ASSUME NEW i \in Ids, SearchLands(i) \/ SearchFails(i) PROVE TypeOK'
      <4>1. wasted' \in [Ids -> 0..2]
        BY <3>5 DEF SearchLands, SearchFails, Spend
      <4>2. run' \in Run
        <5>1. CASE SearchLands(i)
          <6>1. run' = [stage |-> run.stage, todo |-> run.todo \ {i},
                        searchesRun |-> run.searchesRun + 1,
                        searchesFailed |-> run.searchesFailed, alarm |-> run.alarm]
            BY <5>1 DEF SearchLands
          <6> QED BY <6>1
        <5>2. CASE SearchFails(i)
          <6>1. run' = [stage |-> run.stage, todo |-> run.todo \ {i},
                        searchesRun |-> run.searchesRun,
                        searchesFailed |-> run.searchesFailed + 1, alarm |-> run.alarm]
            BY <5>2 DEF SearchFails
          <6> QED BY <6>1
        <5> QED BY <3>5, <5>1, <5>2
      <4>3. UNCHANGED <<table, requests>>
        BY <3>5 DEF SearchLands, SearchFails
      <4> QED BY <4>1, <4>2, <4>3
    <3> QED BY <2>2, <3>1, <3>2, <3>3, <3>4, <3>5 DEF RunStep
  <2>3. CASE UNCHANGED vars
    BY <2>3 DEF TypeOK, vars
  <2> QED BY <2>1, <2>2, <2>3 DEF Next
<1> QED BY <1>1, <1>2, PTL DEF Spec
-----------------------------------------------------------------------------
\* What each request says of the row or the search it is about.
LEMMA ShapeInit == Init => ShapeOK
BY DEF Init, Idle, ShapeOK

LEMMA ShapeStep == TypeOK /\ ShapeOK /\ [Next]_vars => ShapeOK'
<1> SUFFICES ASSUME TypeOK, ShapeOK, [Next]_vars PROVE ShapeOK'
  OBVIOUS
<1> USE DEF ShapeOK
<1>0. requests \in [Threads -> Request]
  BY DEF TypeOK
<1>1. ASSUME NEW t \in Threads, Answer(t) PROVE ShapeOK'
  BY <1>0, <1>1, AnswerEffect DEF Idle
<1>2. ASSUME NEW t \in Threads, Handle(t), ~Answer(t) PROVE ShapeOK'
  <2>1. ASSUME NEW k \in Keywords, Post(t, k) PROVE ShapeOK'
    BY <1>0, <2>1 DEF Post, Request
  <2>2. ASSUME NEW i \in Ids,
               PatchEnable(t, i) \/ PatchDisable(t, i) \/ Delete(t, i)
        PROVE ShapeOK'
    BY <1>0, <2>2 DEF PatchEnable, PatchDisable, Delete, Request
  <2>3. CASE Count(t)
    BY <1>0, <1>2, <2>3 DEF Count, Request
  <2> QED BY <1>2, <2>1, <2>2, <2>3
           DEF Handle, Insert, Enable, Disable, Remove, Write, RequestFails
<1>3. CASE RunStep \/ UNCHANGED vars
  <2>1. UNCHANGED requests
    BY <1>3 DEF RunStep, StartRun, QuotaRunsOut, FinishRun, RunCrashes,
                SearchLands, SearchFails, vars
  <2> QED BY <2>1
<1> QED BY <1>1, <1>2, <1>3 DEF Next
-----------------------------------------------------------------------------
\* Nothing but an Insert or an Enable adds to the enabled searches, nothing but
\* passing the count adds to the pending requests.
LEMMA OvershootStep ==
  TypeOK /\ ShapeOK /\ OvershootInv /\ [Next]_vars => OvershootInv'
<1> SUFFICES ASSUME TypeOK, ShapeOK, OvershootInv, [Next]_vars,
                    NEW c \in Ceilings
             PROVE  Cardinality(Enabled') + Cardinality(Pending')
                      <= c + Cardinality(Threads) - 1
  BY DEF OvershootInv, Ceilings, Counts, Fits, ProjectedCalls
<1>0. /\ requests \in [Threads -> Request]
      /\ table \in [Ids -> Row]
  BY DEF TypeOK
<1>1. /\ Cardinality(Enabled) + Cardinality(Pending) <= c + Cardinality(Threads) - 1
      /\ c \in Nat
  BY Sizes DEF OvershootInv, Ceilings, Counts
<1>2. /\ IsFiniteSet(Enabled') /\ Cardinality(Enabled') \in Nat
      /\ IsFiniteSet(Pending') /\ Cardinality(Pending') \in Nat
      /\ Cardinality(Pending') <= Cardinality(Threads)
  <2>1. Enabled' \in SUBSET Ids /\ Pending' \in SUBSET Threads
    BY DEF Enabled, Pending
  <2> QED BY <2>1, SubsetSize, SearchesAssumption DEF SearchesAssumption
<1>3. ASSUME Enabled' \subseteq Enabled, Pending' \subseteq Pending
      PROVE  Cardinality(Enabled') + Cardinality(Pending')
               <= c + Cardinality(Threads) - 1
  <2>1. Cardinality(Enabled') <= Cardinality(Enabled)
        /\ Cardinality(Pending') <= Cardinality(Pending)
    BY <1>3, Sizes, SubsetSize
  <2> QED BY <2>1, <1>1, <1>2, Sizes
<1>4. ASSUME NEW i, Enabled' \subseteq Enabled \cup {i},
             NEW t \in Pending, Pending' \subseteq Pending \ {t}
      PROVE  Cardinality(Enabled') + Cardinality(Pending')
               <= c + Cardinality(Threads) - 1
  <2>1. Cardinality(Enabled') <= Cardinality(Enabled) + 1
    BY <1>4, Sizes, GrowsByOne
  <2>2. Cardinality(Pending') <= Cardinality(Pending) - 1
    BY <1>4, Sizes, ShrinksByOne
  <2> QED BY <2>1, <2>2, <1>1, <1>2, Sizes
<1>5. ASSUME NEW t \in Threads, Answer(t), Enabled' \subseteq Enabled
      PROVE  Cardinality(Enabled') + Cardinality(Pending')
               <= c + Cardinality(Threads) - 1
  <2>1. Pending' \subseteq Pending
    BY <1>0, <1>5, AnswerEffect DEF Pending, Idle
  <2> QED BY <1>3, <1>5, <2>1
<1>6. ASSUME NEW t \in Threads, t \in Pending, Answer(t),
             NEW i, Enabled' \subseteq Enabled \cup {i}
      PROVE  Cardinality(Enabled') + Cardinality(Pending')
               <= c + Cardinality(Threads) - 1
  <2>1. Pending' \subseteq Pending \ {t}
    BY <1>0, <1>6, AnswerEffect DEF Pending, Idle
  <2> QED BY <1>4, <1>6, <2>1
<1>7. ASSUME NEW t \in Threads, Handle(t)
      PROVE  Cardinality(Enabled') + Cardinality(Pending')
               <= c + Cardinality(Threads) - 1
  <2>1. ASSUME NEW k \in Keywords, Post(t, k)
        PROVE  Enabled' \subseteq Enabled /\ Pending' \subseteq Pending
    BY <1>0, <2>1 DEF Post, Enabled, Pending, Request
  <2>2. ASSUME NEW i \in Ids,
               PatchEnable(t, i) \/ PatchDisable(t, i) \/ Delete(t, i)
        PROVE  Enabled' \subseteq Enabled /\ Pending' \subseteq Pending
    BY <1>0, <2>2 DEF PatchEnable, PatchDisable, Delete, Enabled, Pending, Request
  <2>3. CASE Count(t)
    <3>1. Enabled' = Enabled
      BY <2>3 DEF Count, Enabled
    <3>2. CASE ~Fits(Cardinality(Enabled) + 1)
      BY <2>3, <3>1, <3>2, <1>5 DEF Count
    <3>3. CASE Fits(Cardinality(Enabled) + 1)
      <4>1. Cardinality(Enabled) + 1 \in Counts
        BY Sizes DEF Counts
      <4>2. Cardinality(Enabled) + 1 <= c
        BY <3>3, <4>1 DEF Ceilings
      <4> QED BY <3>1, <4>2, <1>1, <1>2, Sizes
    <3> QED BY <3>2, <3>3
  <2>4. CASE Insert(t)
    <3>1. PICK i \in Ids : Enabled' \subseteq Enabled \cup {i}
      BY <1>0, <2>4 DEF Insert, Enabled
    <3>2. t \in Pending /\ Answer(t)
      BY <2>4 DEF Insert, Pending
    <3> QED BY <1>6, <3>1, <3>2
  <2>5. CASE Enable(t)
    <3>1. Enabled' \subseteq Enabled \cup {requests[t].id}
      BY <1>0, <2>5 DEF Enable, Write, Enabled
    <3>2. t \in Pending /\ Answer(t)
      BY <2>5 DEF Enable, Write, Pending
    <3> QED BY <1>6, <3>1, <3>2
  <2>6. CASE Disable(t) \/ Remove(t) \/ RequestFails(t)
    <3>1. Enabled' \subseteq Enabled /\ Answer(t)
      BY <1>0, <2>6 DEF Disable, Remove, RequestFails, Write, NoRow, Row, Enabled
    <3> QED BY <1>5, <3>1
  <2> QED BY <1>3, <1>7, <2>1, <2>2, <2>3, <2>4, <2>5, <2>6 DEF Handle
<1>8. CASE RunStep \/ UNCHANGED vars
  <2>1. UNCHANGED <<table, requests>>
    BY <1>8 DEF RunStep, StartRun, QuotaRunsOut, FinishRun, RunCrashes,
                SearchLands, SearchFails, vars
  <2> QED BY <2>1, <1>3 DEF Enabled, Pending
<1> QED BY <1>7, <1>8 DEF Next

\* The enabled searches exceed what fits the daily allowance by at most the
\* number of other requests the API can be handling: every create or enable
\* checks the budget, but in a transaction apart from the write.
THEOREM OvershootIsBounded == Spec => []OvershootBounded
<1>1. Init => OvershootInv
  <2> SUFFICES ASSUME Init, NEW c \in Ceilings
               PROVE  Cardinality(Enabled) + Cardinality(Pending)
                        <= c + Cardinality(Threads) - 1
    BY DEF OvershootInv
  <2>1. Enabled = {} /\ Pending = {}
    BY DEF Init, Enabled, Pending, Idle, NoRow
  <2> QED BY <2>1, FS_EmptySet, Sizes DEF Ceilings, Counts
<1>2. OvershootInv => OvershootBounded
  <2> SUFFICES ASSUME OvershootInv, NEW c \in Ceilings
               PROVE  Cardinality(Enabled) <= c + Cardinality(Threads) - 1
    BY DEF OvershootBounded
  <2> QED BY Sizes DEF OvershootInv, Ceilings, Counts
<1> QED BY <1>1, <1>2, ShapeInit, ShapeStep, OvershootStep, SearchesTypeCorrect,
           PTL DEF Spec
-----------------------------------------------------------------------------
\* Only a POST that found no copy of a keyword sets out to add one.
LEMMA CopiesStep ==
  TypeOK /\ ShapeOK /\ CopiesInv /\ [Next]_vars => CopiesInv'
<1> SUFFICES ASSUME TypeOK, ShapeOK, CopiesInv, [Next]_vars, NEW k \in Keywords
             PROVE  Cardinality(Copies(k)') + Cardinality(Adding(k)')
                      <= Cardinality(Threads)
  BY DEF CopiesInv
<1> DEFINE Kept == Cardinality(Copies(k)') + Cardinality(Adding(k)')
                     <= Cardinality(Threads)
<1>0. /\ requests \in [Threads -> Request]
      /\ table \in [Ids -> Row]
  BY DEF TypeOK
<1>1. Cardinality(Copies(k)) + Cardinality(Adding(k)) <= Cardinality(Threads)
  BY DEF CopiesInv
<1>2. /\ IsFiniteSet(Copies(k)') /\ Cardinality(Copies(k)') \in Nat
      /\ IsFiniteSet(Adding(k)') /\ Cardinality(Adding(k)') \in Nat
      /\ Cardinality(Adding(k)') <= Cardinality(Threads)
  <2>1. Copies(k)' \in SUBSET Ids /\ Adding(k)' \in SUBSET Threads
    BY DEF Copies, Adding
  <2> QED BY <2>1, SubsetSize, SearchesAssumption DEF SearchesAssumption
<1>3. ASSUME Copies(k)' \subseteq Copies(k), Adding(k)' \subseteq Adding(k)
      PROVE  Kept
  <2>1. Cardinality(Copies(k)') <= Cardinality(Copies(k))
        /\ Cardinality(Adding(k)') <= Cardinality(Adding(k))
    BY <1>3, Sizes, SubsetSize
  <2> QED BY <2>1, <1>1, <1>2, Sizes
<1>4. ASSUME NEW t \in Threads, Answer(t), Copies(k)' \subseteq Copies(k)
      PROVE  Kept
  <2>1. Adding(k)' \subseteq Adding(k)
    BY <1>0, <1>4, AnswerEffect DEF Adding, Idle
  <2> QED BY <1>3, <1>4, <2>1
<1>5. ASSUME NEW t \in Threads, Handle(t)
      PROVE  Kept
  <2>1. ASSUME NEW h \in Keywords, Post(t, h) PROVE Kept
    <3>1. Copies(k)' = Copies(k)
      BY <2>1 DEF Post, Copies, Exists
    <3>2. CASE h # k
      <4>1. Adding(k)' \subseteq Adding(k)
        BY <1>0, <2>1, <3>2 DEF Post, Adding, Request
      <4> QED BY <1>3, <3>1, <4>1
    <3>3. CASE h = k
      <4>1. Copies(k) = {}
        BY <2>1, <3>3 DEF Post, Copies
      <4> QED BY <3>1, <4>1, <1>2, Sizes, FS_EmptySet
    <3> QED BY <3>2, <3>3
  <2>2. ASSUME NEW i \in Ids,
               PatchEnable(t, i) \/ PatchDisable(t, i) \/ Delete(t, i)
        PROVE  Kept
    <3>1. Copies(k)' = Copies(k)
      BY <2>2 DEF PatchEnable, PatchDisable, Delete, Copies, Exists
    <3>2. Adding(k)' \subseteq Adding(k)
      <4>1. None \notin Ids
        BY SearchesAssumption DEF SearchesAssumption
      <4> QED BY <1>0, <2>2, <4>1
              DEF PatchEnable, PatchDisable, Delete, Adding, Request
    <3> QED BY <1>3, <3>1, <3>2
  <2>3. CASE Count(t)
    <3>1. Copies(k)' = Copies(k)
      BY <2>3 DEF Count, Copies, Exists
    <3>2. Adding(k)' \subseteq Adding(k)
      <4>1. CASE Fits(Cardinality(Enabled) + 1)
        BY <1>0, <2>3, <4>1 DEF Count, Adding, Request
      <4>2. CASE ~Fits(Cardinality(Enabled) + 1)
        BY <1>0, <2>3, <4>2, AnswerEffect DEF Count, Adding, Idle
      <4> QED BY <4>1, <4>2
    <3> QED BY <1>3, <3>1, <3>2
  <2>4. CASE Insert(t)
    <3>0. requests[t].id = None /\ requests[t].stage = "inserting"
      BY <1>0, <2>4 DEF Insert, ShapeOK
    <3>1. PICK i \in Ids :
            /\ table[i].state = "unused"
            /\ table' = [table EXCEPT ![i] = [state |-> "enabled",
                                              keyword |-> requests[t].keyword]]
      BY <2>4 DEF Insert
    <3>2. CASE requests[t].keyword # k
      <4>1. Copies(k)' \subseteq Copies(k)
        BY <1>0, <3>1, <3>2 DEF Copies, Exists
      <4> QED BY <1>4, <2>4, <4>1 DEF Insert
    <3>3. CASE requests[t].keyword = k
      <4>1. Copies(k)' \subseteq Copies(k) \cup {i}
        BY <1>0, <3>1 DEF Copies, Exists
      <4>2. t \in Adding(k)
        BY <3>0, <3>3 DEF Adding
      <4>3. Adding(k)' \subseteq Adding(k) \ {t}
        BY <1>0, <2>4, AnswerEffect DEF Insert, Adding, Idle
      <4>4. Cardinality(Copies(k)') <= Cardinality(Copies(k)) + 1
        BY <4>1, Sizes, GrowsByOne
      <4>5. Cardinality(Adding(k)') <= Cardinality(Adding(k)) - 1
        BY <4>2, <4>3, Sizes, ShrinksByOne
      <4> QED BY <4>4, <4>5, <1>1, <1>2, Sizes
    <3> QED BY <3>2, <3>3
  <2>5. CASE Enable(t) \/ Disable(t) \/ Remove(t) \/ RequestFails(t)
    <3>1. Copies(k)' \subseteq Copies(k)
      BY <1>0, <2>5
         DEF Enable, Disable, Remove, RequestFails, Write, NoRow, Row, Copies, Exists
    <3>2. Answer(t)
      BY <2>5 DEF Enable, Disable, Remove, RequestFails, Write
    <3> QED BY <1>4, <3>1, <3>2
  <2> QED BY <1>5, <2>1, <2>2, <2>3, <2>4, <2>5 DEF Handle
<1>6. CASE RunStep \/ UNCHANGED vars
  <2>1. UNCHANGED <<table, requests>>
    BY <1>6 DEF RunStep, StartRun, QuotaRunsOut, FinishRun, RunCrashes,
                SearchLands, SearchFails, vars
  <2> QED BY <2>1, <1>3 DEF Copies, Adding, Exists
<1> QED BY <1>5, <1>6 DEF Next

\* A keyword is saved at most once per request the API can be handling: the
\* duplicate check races with the insert in the same way.
THEOREM CopiesAreBounded == Spec => []CopiesBounded
<1>1. Init => CopiesInv
  <2> SUFFICES ASSUME Init, NEW k \in Keywords
               PROVE  Cardinality(Copies(k)) + Cardinality(Adding(k))
                        <= Cardinality(Threads)
    BY DEF CopiesInv
  <2>1. Copies(k) = {} /\ Adding(k) = {}
    BY DEF Init, Copies, Adding, Exists, Idle, NoRow
  <2> QED BY <2>1, FS_EmptySet, Sizes
<1>2. CopiesInv => CopiesBounded
  <2> SUFFICES ASSUME CopiesInv, NEW k \in Keywords
               PROVE  Cardinality(Copies(k)) <= Cardinality(Threads)
    BY DEF CopiesBounded, Copies
  <2> QED BY Sizes DEF CopiesInv
<1> QED BY <1>1, <1>2, ShapeInit, ShapeStep, CopiesStep, SearchesTypeCorrect,
           PTL DEF Spec

\* With one request at a time the enabled searches always fit.
COROLLARY SingleWriterFits ==
  ASSUME Cardinality(Threads) = 1
  PROVE  Spec => [](\A c \in Ceilings : Cardinality(Enabled) <= c)
<1>1. OvershootBounded => \A c \in Ceilings : Cardinality(Enabled) <= c
  BY Sizes DEF OvershootBounded, Ceilings, Counts
<1> QED BY <1>1, OvershootIsBounded, PTL
-----------------------------------------------------------------------------
(***************************************************************************)
(* What a run costs and what it reports.                                   *)
(***************************************************************************)

\* A search that has cost a call since it was switched off is on no list any
\* more: the next run lists what is enabled then, and it was not.
OffInv ==
  \A i \in Ids :
    /\ wasted[i] # 0 => /\ wasted[i] = 1
                       /\ table[i].state \in {"disabled", "deleted"}
                       /\ i \notin run.todo
    /\ i \in run.todo => table[i].state # "unused"

\* A run that is over has nothing left to do, and one that reported sounded
\* the alarm by the numbers it still shows.
ReportInv ==
  /\ run.stage # "running" => run.todo = {}
  /\ run.stage = "reported" =>
       run.alarm = SoundsAlarm(run.searchesRun, run.searchesFailed)

\* The switches of a request move a row only between enabled, disabled and
\* deleted, and enabling forgets what the search had cost while it was off.
LEMMA OffKeptByRequests ==
  ASSUME TypeOK, ShapeOK, OffInv, NEW t \in Threads, Handle(t)
  PROVE  OffInv'
<1>0. /\ table \in [Ids -> Row]
      /\ requests \in [Threads -> Request]
      /\ wasted \in [Ids -> 0..2]
  BY DEF TypeOK
<1>1. run' = run
  BY DEF Handle, Post, PatchEnable, PatchDisable, Delete, Count, Insert,
         Enable, Disable, Remove, Write, RequestFails
<1>2. ASSUME UNCHANGED <<table, wasted>> PROVE OffInv'
  BY <1>1, <1>2 DEF OffInv
<1>3. CASE Insert(t)
  <2>1. PICK i \in Ids :
           /\ table[i].state = "unused"
           /\ table' = [table EXCEPT ![i] = [state |-> "enabled",
                                             keyword |-> requests[t].keyword]]
    BY <1>3 DEF Insert
  <2>2. wasted' = wasted /\ wasted[i] = 0
    BY <1>0, <1>3, <2>1 DEF Insert, OffInv
  <2> QED BY <1>0, <1>1, <2>1, <2>2 DEF OffInv
<1>4. CASE Enable(t)
  <2> DEFINE id == requests[t].id
             row == [table[id] EXCEPT !.state = "enabled"]
  <2>1. id \in Ids /\ Write(t, "enabling", row)
    BY <1>4 DEF Enable, Write, ShapeOK
  <2>2. row \in Row /\ row.state = "enabled"
    BY <1>0, <2>1 DEF Row, States
  <2> HIDE DEF row
  <2>3. \A i \in Ids : \/ table'[i] = table[i]
                       \/ i = id /\ table'[i].state = "enabled"
    BY <1>0, <2>1, <2>2, WriteEffect
  <2>4. wasted' = [wasted EXCEPT ![id] = 0]
    BY <1>4 DEF Enable
  <2> QED BY <1>0, <1>1, <2>1, <2>3, <2>4 DEF OffInv
<1>5. CASE Disable(t)
  <2> DEFINE id == requests[t].id
             row == [table[id] EXCEPT !.state = "disabled"]
  <2>1. id \in Ids /\ Write(t, "disabling", row)
    BY <1>5 DEF Disable, Write, ShapeOK
  <2>2. row \in Row /\ row.state = "disabled"
    BY <1>0, <2>1 DEF Row, States
  <2> HIDE DEF row
  <2>3. \A i \in Ids : \/ table'[i] = table[i]
                       \/ table'[i].state = "disabled"
    BY <1>0, <2>1, <2>2, WriteEffect
  <2>4. wasted' = wasted
    BY <1>5 DEF Disable
  <2> QED BY <1>0, <1>1, <2>3, <2>4 DEF OffInv
<1>6. CASE Remove(t)
  <2>1. Write(t, "deleting", NoRow("deleted"))
    BY <1>6 DEF Remove
  <2>2. NoRow("deleted") \in Row /\ NoRow("deleted").state = "deleted"
    BY DEF NoRow, Row, States
  <2>3. \A i \in Ids : \/ table'[i] = table[i]
                       \/ table'[i].state = "deleted"
    BY <1>0, <2>1, <2>2, WriteEffect
  <2>4. wasted' = wasted
    BY <1>6 DEF Remove
  <2> QED BY <1>0, <1>1, <2>3, <2>4 DEF OffInv
<1> QED
  BY <1>2, <1>3, <1>4, <1>5, <1>6
     DEF Handle, Post, PatchEnable, PatchDisable, Delete, Count, RequestFails

\* A run lists what is enabled and takes a search off the list with its call.
LEMMA OffKeptByRun ==
  ASSUME TypeOK, ReportInv, OffInv, RunStep
  PROVE  OffInv'
<1>0. wasted \in [Ids -> 0..2] /\ run \in Run /\ table' = table
  BY DEF TypeOK, RunStep, StartRun, QuotaRunsOut, FinishRun, RunCrashes,
         SearchLands, SearchFails
<1>1. CASE StartRun
  <2>1. wasted' = wasted /\ run'.todo = Enabled
    BY <1>1 DEF StartRun, NoRun
  <2> QED BY <1>0, <2>1 DEF OffInv, Enabled
<1>2. ASSUME run'.todo \subseteq run.todo, wasted' = wasted PROVE OffInv'
  BY <1>0, <1>2 DEF OffInv
<1>3. ASSUME NEW i \in Ids, SearchLands(i) \/ SearchFails(i) PROVE OffInv'
  <2>1. i \in run.todo /\ run'.todo = run.todo \ {i} /\ Spend(i)
    BY <1>0, <1>3 DEF SearchLands, SearchFails, Run
  <2>2. wasted[i] = 0 /\ table[i].state # "unused"
    BY <1>0, <2>1 DEF OffInv
  <2>3. CASE i \in Enabled
    BY <1>2, <2>1, <2>3 DEF Spend
  <2>4. CASE i \notin Enabled
    <3>1. wasted' = [wasted EXCEPT ![i] = 1]
      BY <1>0, <2>1, <2>2, <2>4 DEF Spend
    <3>2. table[i].state \in {"disabled", "deleted"}
      BY <2>2, <2>4 DEF TypeOK, Row, States, Enabled
    <3> QED BY <1>0, <2>1, <3>1, <3>2 DEF OffInv
  <2> QED BY <2>3, <2>4
<1>4. CASE QuotaRunsOut \/ FinishRun \/ RunCrashes
  <2>1. wasted' = wasted
    BY <1>4 DEF QuotaRunsOut, FinishRun, RunCrashes
  <2>2. CASE QuotaRunsOut
    BY <1>0, <1>2, <2>1, <2>2 DEF QuotaRunsOut, Run
  <2>3. CASE FinishRun
    BY <1>0, <1>2, <2>1, <2>3 DEF FinishRun, Run
  <2>4. CASE RunCrashes
    BY <1>0, <1>2, <2>1, <2>4 DEF RunCrashes, NoRun
  <2> QED BY <1>4, <2>2, <2>3, <2>4
<1> QED BY <1>1, <1>3, <1>4 DEF RunStep

\* What a run reports is decided when it finishes, and stands until the next.
LEMMA ReportStep ==
  TypeOK /\ ReportInv /\ [Next]_vars => ReportInv'
<1> SUFFICES ASSUME TypeOK, ReportInv, [Next]_vars PROVE ReportInv'
  OBVIOUS
<1>0. run \in Run
  BY DEF TypeOK
<1>1. CASE StartRun \/ RunCrashes
  <2>1. StartRun => run'.stage = "running"
    BY DEF StartRun, NoRun
  <2>2. RunCrashes => run'.stage = "idle" /\ run'.todo = {}
    BY DEF RunCrashes, NoRun
  <2> QED BY <1>1, <2>1, <2>2 DEF ReportInv
<1>2. CASE QuotaRunsOut
  BY <1>0, <1>2 DEF QuotaRunsOut, Run, ReportInv
<1>3. CASE FinishRun
  BY <1>0, <1>3 DEF FinishRun, Run, ReportInv
<1>4. ASSUME NEW i \in Ids, SearchLands(i) \/ SearchFails(i) PROVE ReportInv'
  <2>1. run.stage = "running"
    BY <1>4 DEF SearchLands, SearchFails, ReportInv
  <2>2. run'.stage = run.stage
    BY <1>0, <1>4 DEF SearchLands, SearchFails, Run
  <2> QED BY <2>1, <2>2 DEF ReportInv
<1>5. ASSUME NEW t \in Threads, Handle(t) PROVE ReportInv'
  <2>1. run' = run
    BY <1>5 DEF Handle, Post, PatchEnable, PatchDisable, Delete, Count, Insert,
                Enable, Disable, Remove, Write, RequestFails
  <2> QED BY <2>1 DEF ReportInv
<1>6. CASE UNCHANGED vars
  BY <1>6 DEF vars, ReportInv
<1> QED BY <1>1, <1>2, <1>3, <1>4, <1>5, <1>6 DEF Next, RunStep

LEMMA ReportCorrect == Spec => []ReportInv
<1>1. Init => ReportInv
  BY DEF Init, NoRun, ReportInv
<1> QED BY <1>1, ReportStep, SearchesTypeCorrect, PTL DEF Spec

\* A search that is switched off or deleted while a run has it on its list
\* costs that one call, however requests, runs, crashes and quota interleave.
THEOREM OffCostsLittle == Spec => []OffCostsOneCallAtMost
<1>1. Init => OffInv
  BY DEF Init, NoRun, NoRow, OffInv
<1>2. TypeOK /\ ShapeOK /\ ReportInv /\ OffInv /\ [Next]_vars => OffInv'
  <2> SUFFICES ASSUME TypeOK, ShapeOK, ReportInv, OffInv, [Next]_vars
               PROVE  OffInv'
    OBVIOUS
  <2>1. CASE UNCHANGED vars
    BY <2>1 DEF vars, OffInv
  <2> QED BY <2>1, OffKeptByRequests, OffKeptByRun DEF Next
<1>3. TypeOK /\ OffInv => OffCostsOneCallAtMost
  BY DEF TypeOK, OffInv, OffCostsOneCallAtMost
<1> QED BY <1>1, <1>2, <1>3, ShapeInit, ShapeStep, SearchesTypeCorrect,
           ReportCorrect, PTL DEF Spec

\* A run in which most searches failed and one succeeded reports it: half of
\* those that succeeded is never above the number that failed.
THEOREM MostFailuresAreHeard == Spec => []MostFailedIsHeard
<1>1. TypeOK /\ ReportInv => MostFailedIsHeard
  <2> SUFFICES ASSUME TypeOK, ReportInv, run.stage = "reported", Most,
                      run.searchesRun > 0
               PROVE  run.alarm
    BY DEF MostFailedIsHeard
  <2>1. run.searchesRun \in Nat /\ run.searchesFailed \in Nat
    BY DEF TypeOK, Run
  <2>2. run.searchesRun \div 2 <= run.searchesRun /\ run.searchesRun \div 2 \in Nat
    BY <2>1
  <2>3. SoundsAlarm(run.searchesRun, run.searchesFailed)
    BY <2>1, <2>2 DEF SoundsAlarm, Most
  <2> QED BY <2>3 DEF ReportInv
<1> QED BY <1>1, SearchesTypeCorrect, ReportCorrect, PTL

=============================================================================
