------------------------ MODULE ListingLifecycleProofs ------------------------
(***************************************************************************)
(* Proofs about ListingLifecycle, for every set of listings and slots and  *)
(* every value of the settings, and about the answers StrikeHistory        *)
(* remembers of it.                                                        *)
(***************************************************************************)
EXTENDS StrikeHistory, OverlapHistory, TLAPS

\* An UPDATE built from three well-formed rows leaves a well-formed row.
LEMMA MergeType ==
  ASSUME NEW a \in Row, NEW b \in Row, NEW c \in Row
  PROVE  Merge(a, b, c) \in Row
BY DEF Merge, Row

\* A copy that was not changed is not written.
LEMMA MergeNothing ==
  ASSUME NEW a \in Row, NEW b \in Row
  PROVE  Merge(a, a, b) = b
BY DEF Merge, Row

\* A verdict of the check leaves a well-formed row in memory.
LEMMA JudgeType ==
  ASSUME NEW r \in Row, NEW a \in Answers, NEW t \in Times
  PROVE  Judge(r, a, t) \in Row
BY DEF Judge, Row, Answers, Statuses

\* So does a search hit.
LEMMA RefreshedType ==
  ASSUME NEW r \in Row, NEW t \in Times
  PROVE  Refreshed(r, t) \in Row
BY DEF Refreshed, NewRow, Row, Statuses, Never

\* What a search hit writes: no strike survives it, a sale does.
LEMMA RefreshedFields ==
  ASSUME NEW r \in Row, NEW t \in Times
  PROVE  /\ Refreshed(r, t).lastSeen = t
         /\ Refreshed(r, t).missingSince = Never
         /\ Refreshed(r, t).status =
              IF r.status \in {"absent", "stale"} THEN "active" ELSE r.status
<1>1. CASE r.status = "absent"
  BY <1>1 DEF Refreshed, NewRow, Row
<1>2. CASE r.status # "absent"
  BY <1>2 DEF Refreshed, Row
<1>. QED
  BY <1>1, <1>2

LEMMA IdleType == Idle \in Job
<1>1. 0 \in Times
  BY SettingsAssumption DEF Times
<1>. QED
  BY <1>1 DEF Idle, Job, NoRow, Row, Stages, Answers, Statuses, Never

\* Every step keeps the types.
LEMMA TypeStep ==
  ASSUME TypeOK, [Next]_vars
  PROVE  TypeOK'
<1>. USE DEF TypeOK
<1>1. CASE Tick
  BY <1>1, SettingsAssumption DEF Tick, Times
<1>2. ASSUME NEW l \in Listings, PutUp(l) \/ TakeDown(l) PROVE TypeOK'
  BY <1>2 DEF PutUp, TakeDown
<1>3. ASSUME NEW s \in Slots, StartCheck(s) PROVE TypeOK'
  <2>1. [Idle EXCEPT !.stage = "retire", !.startedAt = now,
           !.chosen = {l \in Listings : Retirable(rows[l], now)}] \in Job
    BY IdleType DEF Job, Stages
  <2>. QED
    BY <1>3, <2>1 DEF StartCheck
<1>4. ASSUME NEW s \in Slots, RetireStale(s) PROVE TypeOK'
  <2>1. rows' \in [Listings -> Row]
    BY <1>4 DEF RetireStale, Row, Statuses
  <2>2. [jobs[s] EXCEPT !.stage = "budget", !.chosen = {}] \in Job
    BY DEF Job, Stages
  <2>. QED
    BY <1>4, <2>1, <2>2 DEF RetireStale
<1>5. ASSUME NEW s \in Slots, LoadCandidates(s) PROVE TypeOK'
  <2>1. CASE jobs' = [jobs EXCEPT ![s] = Idle]
    BY <2>1, <1>5, IdleType DEF LoadCandidates
  <2>2. ASSUME NEW B \in SUBSET Listings,
               jobs' = [jobs EXCEPT ![s].stage = "items", ![s].todo = B,
                          ![s].loaded = [l \in Listings |->
                             IF l \in B THEN rows[l] ELSE NoRow]]
        PROVE  TypeOK'
    <3>1. NoRow \in Row
      BY IdleType DEF Idle, Job, NoRow, Row, Statuses, Never, Times
    <3>2. [jobs[s] EXCEPT !.stage = "items", !.todo = B,
             !.loaded = [l \in Listings |->
                           IF l \in B THEN rows[l] ELSE NoRow]] \in Job
      BY <3>1 DEF Job, Stages
    <3>. QED
      BY <2>2, <3>2, <1>5 DEF LoadCandidates
  <2>. QED
    BY <1>5, <2>1, <2>2 DEF LoadCandidates
<1>6. ASSUME NEW s \in Slots, NEW l \in Listings, NEW a \in Answers,
             ItemAnswered(s, l, a)
      PROVE  TypeOK'
  <2>1. [jobs[s] EXCEPT !.todo = @ \ {l}, !.answers[l] = a] \in Job
    BY DEF Job
  <2>. QED
    BY <1>6, <2>1 DEF ItemAnswered
<1>7. ASSUME NEW s \in Slots, QuotaRunsOut(s) PROVE TypeOK'
  <2>1. [jobs[s] EXCEPT !.todo = {}] \in Job
    BY DEF Job
  <2>. QED
    BY <1>7, <2>1 DEF QuotaRunsOut
<1>8. ASSUME NEW s \in Slots, ItemFails(s) \/ FailSearch(s) \/ Crash(s)
      PROVE  TypeOK'
  BY <1>8, IdleType DEF ItemFails, FailSearch, Crash
<1>9. ASSUME NEW s \in Slots, CommitCheck(s) PROVE TypeOK'
  BY <1>9, IdleType, MergeType, JudgeType DEF CommitCheck, Job
<1>10. ASSUME NEW s \in Slots, StartSearch(s) PROVE TypeOK'
  <2>1. PICK hits \in SUBSET Listings :
          jobs' = [jobs EXCEPT ![s] =
            [Idle EXCEPT !.stage = "searched", !.startedAt = now, !.chosen = hits]]
    BY <1>10 DEF StartSearch
  <2>2. [Idle EXCEPT !.stage = "searched", !.startedAt = now,
                     !.chosen = hits] \in Job
    BY IdleType DEF Job, Stages
  <2>. QED
    BY <1>10, <2>1, <2>2 DEF StartSearch
<1>11. ASSUME NEW s \in Slots, LoadPage(s) PROVE TypeOK'
  BY <1>11, IdleType DEF LoadPage, Job, Stages, Idle
<1>12. ASSUME NEW s \in Slots, CommitSearch(s) PROVE TypeOK'
  BY <1>12, IdleType, MergeType, RefreshedType DEF CommitSearch, Job
<1>13. CASE UNCHANGED vars
  BY <1>13 DEF vars
<1>. QED
  BY <1>1, <1>2, <1>3, <1>4, <1>5, <1>6, <1>7, <1>8, <1>9, <1>10, <1>11,
     <1>12, <1>13 DEF Next, CheckStep, SearchStep

\* Every variable keeps its type: the clock stays within its bound, the table
\* holds well-formed rows and every slot a well-formed job.
THEOREM TypeCorrect == Spec => []TypeOK
<1>1. Init => TypeOK
  <2>1. 0 \in Times
    BY SettingsAssumption DEF Times
  <2>. QED
    BY <2>1, IdleType DEF Init, TypeOK, NoRow, Row, Statuses, Never
<1>2. TypeOK /\ [Next]_vars => TypeOK'
  BY TypeStep
<1>. QED
  BY <1>1, <1>2, PTL DEF Spec

-----------------------------------------------------------------------------
(***************************************************************************)
(* A sale is final even while a check and one search overlap.              *)
(***************************************************************************)

\* A slot whose job does not move keeps its part of the invariant when the
\* table does not move either.
LEMMA OverlapOthers ==
  ASSUME NEW r \in Slots, OverlapSafe(r), UNCHANGED <<rows, jobs[r]>>
  PROVE  OverlapSafe(r)'
BY DEF OverlapSafe, InHand

\* A slot that goes idle has nothing to be safe about.
LEMMA OverlapIdle ==
  ASSUME NEW s \in Slots, jobs'[s] = Idle
  PROVE  OverlapSafe(s)'
BY DEF OverlapSafe, Idle

\* A search that commits leaves an active row active and a sold one sold: the
\* only status it ever writes is over a stale copy, or over no row at all.
LEMMA SearchKeepsStatus ==
  ASSUME TypeOK, OverlapInv, NEW s \in Slots, CommitSearch(s),
         NEW l \in Listings, rows[l].status \in {"active", "likely_sold"}
  PROVE  rows'[l].status = rows[l].status
<1>1. CASE l \notin jobs[s].chosen
  BY <1>1 DEF CommitSearch, TypeOK
<1>2. CASE l \in jobs[s].chosen
  <2>1. jobs[s].loaded[l] \in Row /\ rows[l] \in Row
    BY DEF TypeOK, Job
  <2>2. jobs[s].loaded[l].status \notin {"absent", "stale"}
    BY <1>2 DEF CommitSearch, Collisions, OverlapInv, OverlapSafe
  <2>3. Refreshed(jobs[s].loaded[l], jobs[s].startedAt).status
          = jobs[s].loaded[l].status
    BY <2>1, <2>2 DEF Refreshed, Row
  <2>. QED
    BY <1>2, <2>1, <2>3 DEF CommitSearch, Merge, Row
<1>. QED
  BY <1>1, <1>2

\* One job at a time moves, and the table only at its commits.
LEMMA OverlapStep ==
  ASSUME OneChecker, OneIngester, TypeOK, OverlapInv, [Next]_vars
  PROVE  OverlapInv'
<1>. SUFFICES ASSUME NEW r \in Slots PROVE OverlapSafe(r)'
  BY DEF OverlapInv
<1>. USE DEF TypeOK
<1>0. OverlapSafe(r)
  BY DEF OverlapInv
<1>1. CASE UNCHANGED vars
  BY <1>0, <1>1, OverlapOthers DEF vars
<1>2. CASE Tick
  BY <1>0, <1>2, OverlapOthers DEF Tick
<1>3. ASSUME NEW l \in Listings, PutUp(l) \/ TakeDown(l) PROVE OverlapSafe(r)'
  BY <1>0, <1>3, OverlapOthers DEF PutUp, TakeDown
<1>4. ASSUME NEW s \in Slots, StartCheck(s) PROVE OverlapSafe(r)'
  <2>1. CASE r = s
    BY <2>1, <1>4 DEF StartCheck, OverlapSafe, InHand, Idle, Retirable
  <2>2. CASE r # s
    BY <2>2, <1>0, <1>4, OverlapOthers DEF StartCheck
  <2>. QED
    BY <2>1, <2>2
<1>5. ASSUME NEW s \in Slots, RetireStale(s) PROVE OverlapSafe(r)'
  <2>1. CASE r = s
    BY <2>1, <1>0, <1>5 DEF RetireStale, OverlapSafe, InHand, Job
  <2>2. CASE r # s
    <3>1. jobs'[r] = jobs[r] /\ jobs[r].stage \notin {"retire", "budget", "items"}
      BY <2>2, <1>0, <1>5 DEF RetireStale, OverlapSafe, OverlapInv, OneChecker
    <3>2. ASSUME NEW l \in Listings, rows[l].status = "stale"
          PROVE  rows'[l].status = "stale"
      BY <3>2, <1>5 DEF RetireStale, Row
    <3>. QED
      BY <3>1, <3>2, <1>0 DEF OverlapSafe, Job
  <2>. QED
    BY <2>1, <2>2
<1>6. ASSUME NEW s \in Slots, LoadCandidates(s) PROVE OverlapSafe(r)'
  <2>1. CASE r # s
    BY <2>1, <1>0, <1>6, OverlapOthers DEF LoadCandidates
  <2>2. CASE jobs' = [jobs EXCEPT ![s] = Idle]
    BY <2>1, <2>2, OverlapIdle
  <2>3. ASSUME r = s, NEW B \in SUBSET Listings,
               \A l \in B : Candidate(rows[l], jobs[s].startedAt),
               jobs' = [jobs EXCEPT ![s].stage = "items", ![s].todo = B,
                          ![s].loaded = [l \in Listings |->
                             IF l \in B THEN rows[l] ELSE NoRow]]
        PROVE  OverlapSafe(r)'
    <3>1. /\ jobs'[s].stage = "items" /\ jobs'[s].todo = B
          /\ jobs'[s].answers = jobs[s].answers
          /\ \A l \in B : jobs'[s].loaded[l] = rows[l]
      BY <2>3 DEF Job
    <3>2. \A l \in Listings : jobs[s].answers[l] = "none"
      BY <2>3, <1>0, <1>6 DEF LoadCandidates, OverlapSafe, InHand
    <3>3. InHand(s)' = B
      BY <3>1, <3>2 DEF InHand
    <3>4. s \in CheckSlots /\ UNCHANGED rows
      BY <2>3, <1>0, <1>6 DEF LoadCandidates, OverlapSafe
    <3>. QED
      BY <2>3, <3>1, <3>3, <3>4 DEF OverlapSafe, Candidate
  <2>. QED
    BY <2>1, <2>2, <2>3, <1>6 DEF LoadCandidates, IsBatch
<1>7. ASSUME NEW s \in Slots, NEW l \in Listings, NEW a \in Answers,
             ItemAnswered(s, l, a)
      PROVE  OverlapSafe(r)'
  <2>1. CASE r = s
    BY <2>1, <1>0, <1>7 DEF ItemAnswered, IsNext, OverlapSafe, InHand, Job
  <2>2. CASE r # s
    BY <2>2, <1>0, <1>7, OverlapOthers DEF ItemAnswered
  <2>. QED
    BY <2>1, <2>2
<1>8. ASSUME NEW s \in Slots, QuotaRunsOut(s) PROVE OverlapSafe(r)'
  <2>1. CASE r = s
    BY <2>1, <1>0, <1>8 DEF QuotaRunsOut, OverlapSafe, InHand, Job
  <2>2. CASE r # s
    BY <2>2, <1>0, <1>8, OverlapOthers DEF QuotaRunsOut
  <2>. QED
    BY <2>1, <2>2
<1>9. ASSUME NEW s \in Slots, ItemFails(s) \/ FailSearch(s) \/ Crash(s)
      PROVE  OverlapSafe(r)'
  BY <1>0, <1>9, OverlapIdle, OverlapOthers DEF ItemFails, FailSearch, Crash
<1>10. ASSUME NEW s \in Slots, CommitCheck(s) PROVE OverlapSafe(r)'
  <2>1. CASE r = s
    BY <2>1, <1>10, OverlapIdle DEF CommitCheck
  <2>2. CASE r # s
    <3>1. jobs'[r] = jobs[r] /\ jobs[r].stage \notin {"retire", "budget", "items"}
      BY <2>2, <1>0, <1>10 DEF CommitCheck, OverlapSafe, OverlapInv, OneChecker
    <3>2. ASSUME NEW l \in Listings, rows[l].status = "stale"
          PROVE  rows'[l].status = "stale"
      <4>1. jobs[s].answers[l] = "none"
        BY <3>2, <1>10 DEF CommitCheck, OverlapInv, OverlapSafe, InHand
      <4>. QED
        BY <4>1, <3>2, <1>10 DEF CommitCheck, Judge, Merge, Row
    <3>. QED
      BY <3>1, <3>2, <1>0 DEF OverlapSafe, Job
  <2>. QED
    BY <2>1, <2>2
<1>11. ASSUME NEW s \in Slots, StartSearch(s) PROVE OverlapSafe(r)'
  <2>1. CASE r = s
    BY <2>1, <1>11 DEF StartSearch, OverlapSafe, InHand, Idle
  <2>2. CASE r # s
    BY <2>2, <1>0, <1>11, OverlapOthers DEF StartSearch
  <2>. QED
    BY <2>1, <2>2
<1>12. ASSUME NEW s \in Slots, LoadPage(s) PROVE OverlapSafe(r)'
  <2>1. CASE r = s
    BY <2>1, <1>0, <1>12 DEF LoadPage, OverlapSafe, InHand, Job
  <2>2. CASE r # s
    BY <2>2, <1>0, <1>12, OverlapOthers DEF LoadPage
  <2>. QED
    BY <2>1, <2>2
<1>13. ASSUME NEW s \in Slots, CommitSearch(s) PROVE OverlapSafe(r)'
  <2>1. CASE r = s
    BY <2>1, <1>13, OverlapIdle DEF CommitSearch
  <2>2. CASE r # s
    <3>1. jobs'[r] = jobs[r] /\ jobs[r].stage \notin {"searched", "page"}
      BY <2>2, <1>0, <1>13 DEF CommitSearch, OverlapSafe, OverlapInv, OneIngester
    <3>2. ASSUME NEW l \in Listings, rows[l].status = "active"
          PROVE  rows'[l].status = "active"
      BY <3>2, <1>13, SearchKeepsStatus
    <3>. QED
      BY <3>1, <3>2, <1>0 DEF OverlapSafe, InHand, Job
  <2>. QED
    BY <2>1, <2>2
<1>. QED
  BY <1>1, <1>2, <1>3, <1>4, <1>5, <1>6, <1>7, <1>8, <1>9, <1>10, <1>11,
     <1>12, <1>13 DEF Next, CheckStep, SearchStep

LEMMA OverlapInitially == Init => OverlapInv
BY DEF Init, OverlapInv, OverlapSafe, Idle

\* With one disappearance check and one ingest at work, in one process or in
\* two that overlap at will, no step takes a listing out of likely_sold.
THEOREM SalesAreFinal ==
  ASSUME OneChecker, OneIngester
  PROVE  Spec => SoldIsFinal
<1>1. ASSUME TypeOK, OverlapInv, [Next]_vars, NEW l \in Listings,
             rows[l].status = "likely_sold"
      PROVE  rows'[l].status = "likely_sold"
  <2>. USE <1>1
  <2>1. ASSUME NEW s \in Slots, RetireStale(s)
        PROVE  rows'[l].status = "likely_sold"
    BY <2>1 DEF RetireStale, OverlapInv, OverlapSafe
  <2>2. ASSUME NEW s \in Slots, CommitCheck(s)
        PROVE  rows'[l].status = "likely_sold"
    <3>1. jobs[s].answers[l] = "none"
      BY <2>2 DEF CommitCheck, OverlapInv, OverlapSafe, InHand
    <3>. QED
      BY <2>2, <3>1 DEF CommitCheck, Judge, Merge, TypeOK, Row
  <2>3. ASSUME NEW s \in Slots, CommitSearch(s)
        PROVE  rows'[l].status = "likely_sold"
    BY <2>3, SearchKeepsStatus
  <2>4. CASE UNCHANGED rows
    BY <2>4
  <2>. QED
    BY <2>1, <2>2, <2>3, <2>4 DEF Next, CheckStep, SearchStep, vars, Tick,
       PutUp, TakeDown, StartCheck, LoadCandidates, ItemAnswered, QuotaRunsOut,
       ItemFails, StartSearch, LoadPage, FailSearch, Crash
<1>2. TypeOK /\ OverlapInv /\ [Next]_vars
        => [\A l \in Listings : rows[l].status = "likely_sold"
              => rows'[l].status = "likely_sold"]_vars
  BY <1>1
<1>3. TypeOK /\ OverlapInv /\ [Next]_vars => OverlapInv'
  BY OverlapStep
<1>. QED
  BY <1>2, <1>3, OverlapInitially, TypeCorrect, PTL DEF Spec, SoldIsFinal

-----------------------------------------------------------------------------
(***************************************************************************)
(* The clocks of a row, for the same overlap.  Only the check writes       *)
(* last_checked_at and only the search last_seen_at, so the job that       *)
(* writes a clock is no older than what it overwrites.                     *)
(***************************************************************************)

\* A row that was never inserted was never asked about.
Unasked(row) == row.status = "absent" => row.lastChecked = Never

ClockSafe(s) ==
  /\ jobs[s].stage # "idle" => jobs[s].startedAt <= now
  /\ jobs[s].stage \in {"retire", "budget", "items"} =>
       \A l \in Listings : rows[l].lastChecked <= jobs[s].startedAt
  /\ jobs[s].stage \in {"searched", "page"} =>
       \A l \in Listings : rows[l].lastSeen <= jobs[s].startedAt
  /\ jobs[s].stage = "page" =>
       \A l \in jobs[s].chosen : Unasked(jobs[s].loaded[l])

ClockInv == /\ \A s \in Slots : ClockSafe(s)
            /\ NoClockAhead
            /\ \A l \in Listings : Unasked(rows[l])

\* A check's commit moves no clock but last_checked_at, and that to its time.
LEMMA CheckClocks ==
  ASSUME TypeOK, OverlapInv, NEW s \in Slots, CommitCheck(s), NEW l \in Listings
  PROVE  /\ rows'[l].lastSeen = rows[l].lastSeen
         /\ \/ rows'[l] = rows[l]
            \/ /\ rows'[l].lastChecked \in {rows[l].lastChecked, jobs[s].startedAt}
               /\ rows'[l].status # "absent"
<1>. DEFINE was == jobs[s].loaded[l]
            a == jobs[s].answers[l]
            mine == Judge(was, a, jobs[s].startedAt)
<1>1. was \in Row /\ rows[l] \in Row /\ a \in Answers /\ jobs[s].startedAt \in Times
  BY DEF TypeOK, Job
<1>2. rows'[l] = Merge(was, mine, rows[l])
  BY DEF CommitCheck
<1>3. CASE a = "none"
  BY <1>1, <1>2, <1>3, MergeNothing DEF Judge
<1>4. CASE a # "none"
  <2>1. was.status = "active" /\ rows[l].status = "active"
    BY <1>4 DEF CommitCheck, OverlapInv, OverlapSafe, InHand
  <2>2. /\ mine.lastSeen = was.lastSeen
        /\ mine.lastChecked = jobs[s].startedAt
        /\ mine.status \in {"active", "likely_sold"}
    BY <1>1, <1>4, <2>1 DEF Judge, Row, Answers
  <2>3. /\ rows'[l].lastSeen = IF mine.lastSeen # was.lastSeen
                               THEN mine.lastSeen ELSE rows[l].lastSeen
        /\ rows'[l].lastChecked \in {mine.lastChecked, rows[l].lastChecked}
        /\ rows'[l].status \in {mine.status, rows[l].status}
    <3>. HIDE DEF was, mine
    <3>. QED
      BY <1>1, <1>2 DEF Merge, Row
  <2>. QED
    BY <2>1, <2>2, <2>3
<1>. QED
  BY <1>3, <1>4

\* A search's commit moves no clock but last_seen_at, and that to its time.
LEMMA SearchClocks ==
  ASSUME TypeOK, ClockInv, NEW s \in Slots, CommitSearch(s), NEW l \in Listings
  PROVE  /\ rows'[l].lastChecked = rows[l].lastChecked
         /\ rows'[l].lastSeen \in {rows[l].lastSeen, jobs[s].startedAt}
         /\ rows'[l].status = "absent" => rows[l].status = "absent"
<1>. DEFINE was == jobs[s].loaded[l]
            mine == Refreshed(was, jobs[s].startedAt)
<1>1. was \in Row /\ rows[l] \in Row /\ jobs[s].startedAt \in Times
  BY DEF TypeOK, Job
<1>2. CASE l \in jobs[s].chosen
  <2>1. rows'[l] = Merge(was, mine, rows[l])
    BY <1>2 DEF CommitSearch
  <2>2. Unasked(was)
    BY <1>2 DEF CommitSearch, ClockInv, ClockSafe
  <2>3. /\ mine.lastSeen = jobs[s].startedAt
        /\ mine.lastChecked = was.lastChecked
    BY <1>1, <2>2 DEF Refreshed, NewRow, Row, Unasked
  <2>4. mine.status # "absent"
    BY <1>1, RefreshedFields
  <2>5. /\ rows'[l].lastChecked = IF mine.lastChecked # was.lastChecked
                                  THEN mine.lastChecked ELSE rows[l].lastChecked
        /\ rows'[l].lastSeen \in {mine.lastSeen, rows[l].lastSeen}
        /\ rows'[l].status \in {mine.status, rows[l].status}
    <3>. HIDE DEF was, mine
    <3>. QED
      BY <1>1, <2>1 DEF Merge, Row
  <2>. QED
    BY <2>3, <2>4, <2>5
<1>3. CASE l \notin jobs[s].chosen
  BY <1>3 DEF CommitSearch
<1>. QED
  BY <1>2, <1>3

\* What a step does to the clocks of one row.
LEMMA ClockMoves ==
  ASSUME TypeOK, OverlapInv, ClockInv, [Next]_vars, NEW l \in Listings
  PROVE  /\ \/ rows'[l].lastSeen = rows[l].lastSeen
            \/ \E s \in Slots : CommitSearch(s) /\ rows'[l].lastSeen = jobs[s].startedAt
         /\ \/ rows'[l].lastChecked = rows[l].lastChecked
            \/ \E s \in Slots : CommitCheck(s) /\ rows'[l].lastChecked = jobs[s].startedAt
         /\ Unasked(rows'[l])
<1>0. Unasked(rows[l])
  BY DEF ClockInv
<1>1. ASSUME NEW s \in Slots, RetireStale(s)
      PROVE  /\ rows'[l].lastSeen = rows[l].lastSeen
             /\ rows'[l].lastChecked = rows[l].lastChecked
             /\ Unasked(rows'[l])
  BY <1>0, <1>1 DEF RetireStale, TypeOK, Row, Unasked
<1>2. ASSUME NEW s \in Slots, CommitCheck(s) PROVE Unasked(rows'[l])
  BY <1>0, <1>2, CheckClocks DEF Unasked
<1>3. ASSUME NEW s \in Slots, CommitSearch(s) PROVE Unasked(rows'[l])
  BY <1>0, <1>3, SearchClocks DEF Unasked
<1>4. CASE UNCHANGED rows
  BY <1>0, <1>4
<1>. QED
  BY <1>1, <1>2, <1>3, <1>4, CheckClocks, SearchClocks DEF Next, CheckStep,
     SearchStep, vars, Tick, PutUp, TakeDown, StartCheck, LoadCandidates,
     ItemAnswered, QuotaRunsOut, ItemFails, StartSearch, LoadPage, FailSearch, Crash

\* One row's clocks in one step: never back, never ahead of the wall clock.
LEMMA ClocksMoveOn ==
  ASSUME TypeOK, TypeOK', OverlapInv, ClockInv, [Next]_vars, NEW l \in Listings
  PROVE  /\ rows[l].lastSeen <= rows'[l].lastSeen
         /\ rows[l].lastChecked <= rows'[l].lastChecked
         /\ rows'[l].lastSeen <= now /\ rows'[l].lastChecked <= now
<1>1. /\ rows[l] \in Row /\ now \in Int
      /\ rows[l].lastSeen <= now /\ rows[l].lastChecked <= now
  BY DEF TypeOK, Times, ClockInv, NoClockAhead
<1>2. /\ rows[l].lastSeen \in Int /\ rows[l].lastChecked \in Int
  BY <1>1 DEF Row, Times, Never
<1>3. ASSUME NEW s \in Slots, CommitSearch(s)
      PROVE  rows[l].lastSeen <= jobs[s].startedAt /\ jobs[s].startedAt <= now
  BY <1>3 DEF CommitSearch, ClockInv, ClockSafe
<1>4. ASSUME NEW s \in Slots, CommitCheck(s)
      PROVE  rows[l].lastChecked <= jobs[s].startedAt /\ jobs[s].startedAt <= now
  BY <1>4 DEF CommitCheck, ClockInv, ClockSafe
<1>5. rows[l].lastSeen <= rows'[l].lastSeen /\ rows'[l].lastSeen <= now
  BY <1>1, <1>2, <1>3, ClockMoves
<1>6. rows[l].lastChecked <= rows'[l].lastChecked /\ rows'[l].lastChecked <= now
  BY <1>1, <1>2, <1>4, ClockMoves
<1>. QED
  BY <1>5, <1>6

\* Time does not run backwards.
LEMMA ClockStep ==
  ASSUME TypeOK, [Next]_vars
  PROVE  now \in Int /\ now' \in Int /\ now <= now'
<1>1. UNCHANGED now \/ now' = now + 1
  BY DEF Next, Tick, vars, PutUp, TakeDown, CheckStep, SearchStep,
     StartCheck, RetireStale, LoadCandidates, ItemAnswered, QuotaRunsOut,
     ItemFails, CommitCheck, StartSearch, LoadPage, CommitSearch,
     FailSearch, Crash
<1>. QED
  BY <1>1 DEF TypeOK, Times

\* A slot at rest has nothing to be safe about.
LEMMA ClockIdle ==
  ASSUME NEW r \in Slots, jobs'[r] = Idle
  PROVE  ClockSafe(r)'
BY DEF ClockSafe, Idle

\* A job that does not move: the other clock is not its concern, and its own is
\* moved by nobody else.
LEMMA ClockOthers ==
  ASSUME OneChecker, OneIngester, TypeOK, TypeOK', OverlapInv, ClockInv, [Next]_vars,
         NEW r \in Slots, UNCHANGED jobs[r]
  PROVE  ClockSafe(r)'
<1>1. now \in Int /\ now' \in Int /\ now <= now' /\ jobs[r].startedAt \in Int
  BY ClockStep DEF TypeOK, Job, Times
<1>2. ASSUME jobs[r].stage \in {"retire", "budget", "items"}, NEW l \in Listings
      PROVE  rows'[l].lastChecked = rows[l].lastChecked
  <2>1. ASSUME NEW s \in Slots, CommitCheck(s) PROVE FALSE
    <3>1. s = r
      BY <1>2, <2>1 DEF CommitCheck, OneChecker, OverlapInv, OverlapSafe
    <3>. QED
      BY <2>1, <3>1 DEF CommitCheck, Idle, TypeOK
  <2>. QED
    BY <2>1, ClockMoves
<1>3. ASSUME jobs[r].stage \in {"searched", "page"}, NEW l \in Listings
      PROVE  rows'[l].lastSeen = rows[l].lastSeen
  <2>1. ASSUME NEW s \in Slots, CommitSearch(s) PROVE FALSE
    <3>1. s = r
      BY <1>3, <2>1 DEF CommitSearch, OneIngester, OverlapInv, OverlapSafe
    <3>. QED
      BY <2>1, <3>1 DEF CommitSearch, Idle, TypeOK
  <2>. QED
    BY <2>1, ClockMoves
<1>. QED
  BY <1>1, <1>2, <1>3 DEF ClockInv, ClockSafe

\* A job that goes on within itself, the table untouched: it began no later, and
\* has the page it loaded.
LEMMA ClockGoesOn ==
  ASSUME ClockInv, NEW r \in Slots, UNCHANGED <<now, rows>>,
         jobs[r].stage # "idle", jobs'[r].startedAt = jobs[r].startedAt,
         \/ /\ jobs[r].stage \in {"retire", "budget", "items"}
            /\ jobs'[r].stage \in {"budget", "items"}
         \/ /\ jobs[r].stage = "searched" /\ jobs'[r].stage = "page"
            /\ \A l \in jobs'[r].chosen : Unasked(jobs'[r].loaded[l])
  PROVE  ClockSafe(r)'
BY DEF ClockInv, ClockSafe

LEMMA ClockInvStep ==
  ASSUME OneChecker, OneIngester, TypeOK, TypeOK', OverlapInv, ClockInv, [Next]_vars
  PROVE  ClockInv'
<1>1. NoClockAhead'
  <2>. SUFFICES ASSUME NEW l \in Listings
                PROVE  rows'[l].lastSeen <= now' /\ rows'[l].lastChecked <= now'
    BY DEF NoClockAhead
  <2>1. rows'[l] \in Row
    BY DEF TypeOK
  <2>2. rows'[l].lastSeen \in Int /\ rows'[l].lastChecked \in Int
    BY <2>1 DEF Row, Times, Never
  <2>. QED
    BY <2>2, ClocksMoveOn, ClockStep
<1>2. ASSUME NEW l \in Listings PROVE Unasked(rows'[l])
  BY ClockMoves
<1>3. ASSUME NEW r \in Slots PROVE ClockSafe(r)'
  <2>1. CASE UNCHANGED jobs[r]
    BY <2>1, ClockOthers
  <2>2. CASE jobs'[r] = Idle
    BY <2>2, ClockIdle
  <2>3. CASE StartCheck(r)
    BY <2>3 DEF StartCheck, ClockSafe, ClockInv, NoClockAhead, Idle, TypeOK, Times
  <2>4. CASE StartSearch(r)
    <3>1. PICK hits : jobs' = [jobs EXCEPT ![r] =
                [Idle EXCEPT !.stage = "searched", !.startedAt = now, !.chosen = hits]]
      BY <2>4 DEF StartSearch
    <3>2. jobs'[r].stage = "searched" /\ jobs'[r].startedAt = now
      BY <3>1 DEF Idle, TypeOK
    <3>3. now \in Int /\ UNCHANGED <<now, rows>>
      BY <2>4 DEF StartSearch, TypeOK, Times
    <3>. QED
      BY <3>2, <3>3 DEF ClockSafe, ClockInv, NoClockAhead
  <2>5. CASE RetireStale(r)
    <3>1. /\ jobs[r].stage = "retire" /\ jobs'[r].stage = "budget"
          /\ jobs'[r].startedAt = jobs[r].startedAt /\ UNCHANGED now
      BY <2>5 DEF RetireStale, TypeOK, Job
    <3>2. ASSUME NEW l \in Listings
          PROVE  rows'[l].lastChecked = rows[l].lastChecked
      BY <2>5 DEF RetireStale, TypeOK, Row
    <3>. QED
      BY <3>1, <3>2 DEF ClockSafe, ClockInv
  <2>6. CASE LoadCandidates(r) /\ jobs'[r] # Idle
    <3>1. PICK B : jobs' = [jobs EXCEPT
                       ![r].stage = "items", ![r].todo = B,
                       ![r].loaded = [l \in Listings |->
                                        IF l \in B THEN rows[l] ELSE NoRow]]
      BY <2>6 DEF LoadCandidates, TypeOK
    <3>2. jobs'[r].stage = "items" /\ jobs'[r].startedAt = jobs[r].startedAt
      BY <3>1 DEF TypeOK, Job
    <3>3. jobs[r].stage = "budget" /\ UNCHANGED <<now, rows>>
      BY <2>6 DEF LoadCandidates
    <3>. QED
      BY <3>2, <3>3, ClockGoesOn
  <2>7. ASSUME UNCHANGED <<now, rows>>, jobs[r].stage = "items",
               \/ jobs' = [jobs EXCEPT ![r].todo = {}]
               \/ \E l \in Listings, a \in Answers :
                    jobs' = [jobs EXCEPT ![r].todo = @ \ {l}, ![r].answers[l] = a]
        PROVE  ClockSafe(r)'
    <3>0. jobs[r] \in Job
      BY DEF TypeOK
    <3>1. jobs'[r].stage = "items" /\ jobs'[r].startedAt = jobs[r].startedAt
      <4>1. CASE jobs' = [jobs EXCEPT ![r].todo = {}]
        BY <2>7, <3>0, <4>1 DEF TypeOK, Job
      <4>2. ASSUME NEW l \in Listings, NEW a \in Answers,
                   jobs' = [jobs EXCEPT ![r].todo = @ \ {l}, ![r].answers[l] = a]
            PROVE  jobs'[r].stage = "items" /\ jobs'[r].startedAt = jobs[r].startedAt
        BY <2>7, <3>0, <4>2 DEF TypeOK, Job
      <4>. QED
        BY <2>7, <4>1, <4>2
    <3>. QED
      BY <2>7, <3>1, ClockGoesOn
  <2>8. CASE LoadPage(r)
    <3>1. /\ jobs[r].stage = "searched" /\ UNCHANGED <<now, rows>>
          /\ jobs' = [jobs EXCEPT
               ![r].stage = "page",
               ![r].loaded = [l \in Listings |->
                                IF l \in jobs[r].chosen THEN rows[l] ELSE NoRow]]
      BY <2>8 DEF LoadPage
    <3>4. /\ jobs'[r].stage = "page" /\ jobs'[r].startedAt = jobs[r].startedAt
          /\ jobs'[r].chosen = jobs[r].chosen
          /\ jobs'[r].loaded = [l \in Listings |->
                                  IF l \in jobs[r].chosen THEN rows[l] ELSE NoRow]
      <4>1. jobs'[r] = [jobs[r] EXCEPT !.stage = "page",
                          !.loaded = [l \in Listings |->
                                        IF l \in jobs[r].chosen THEN rows[l] ELSE NoRow]]
        BY <3>1 DEF TypeOK
      <4>2. jobs[r] \in Job
        BY DEF TypeOK
      <4>. QED
        BY <4>1, <4>2 DEF Job
    <3>2. jobs[r].chosen \subseteq Listings
      BY DEF TypeOK, Job
    <3>3. ASSUME NEW l \in jobs'[r].chosen PROVE Unasked(jobs'[r].loaded[l])
      BY <3>2, <3>3, <3>4 DEF ClockInv
    <3>. QED
      BY <3>1, <3>3, <3>4, ClockGoesOn
  <2>9. ASSUME NEW s \in Slots, s # r, CheckStep(s) \/ SearchStep(s) \/ Crash(s)
        PROVE  UNCHANGED jobs[r]
    BY <2>9 DEF CheckStep, SearchStep, StartCheck, RetireStale, LoadCandidates,
       ItemAnswered, QuotaRunsOut, ItemFails, CommitCheck, StartSearch, LoadPage,
       CommitSearch, FailSearch, Crash, TypeOK
  <2>10. ASSUME CommitCheck(r) \/ CommitSearch(r) \/ ItemFails(r) \/ FailSearch(r)
                \/ Crash(r)
         PROVE  ClockSafe(r)'
    BY <2>2, <2>10 DEF CommitCheck, CommitSearch, ItemFails, FailSearch, Crash, TypeOK
  <2>11. ASSUME QuotaRunsOut(r) \/ \E l \in Listings, a \in Answers : ItemAnswered(r, l, a)
         PROVE  ClockSafe(r)'
    BY <2>7, <2>11 DEF QuotaRunsOut, ItemAnswered
  <2>12. CASE UNCHANGED vars \/ Tick \/ \E l \in Listings : PutUp(l) \/ TakeDown(l)
    BY <2>1, <2>12 DEF vars, Tick, PutUp, TakeDown
  <2>13. ASSUME CheckStep(r) \/ SearchStep(r) \/ Crash(r) PROVE ClockSafe(r)'
    BY <2>2, <2>3, <2>4, <2>5, <2>6, <2>8, <2>10, <2>11, <2>13 DEF CheckStep, SearchStep
  <2>. QED
    BY <2>1, <2>9, <2>12, <2>13 DEF Next
<1>. QED
  BY <1>1, <1>2, <1>3 DEF ClockInv

LEMMA ClockInitially == Init => ClockInv
<1>1. 0 \in Times
  BY SettingsAssumption DEF Times
<1>. QED
  BY <1>1 DEF Init, ClockInv, ClockSafe, NoClockAhead, Unasked, Idle, NoRow, Never

\* With one disappearance check and one ingest at work, overlapping at will, a
\* row's last_seen_at and last_checked_at never go back.
THEOREM ClocksNeverGoBack ==
  ASSUME OneChecker, OneIngester
  PROVE  Spec => ClocksAdvance
<1>1. TypeOK /\ TypeOK' /\ OverlapInv /\ ClockInv /\ [Next]_vars
        => [\A l \in Listings : /\ rows[l].lastSeen <= rows'[l].lastSeen
                                /\ rows[l].lastChecked <= rows'[l].lastChecked]_vars
  BY ClocksMoveOn
<1>2. TypeOK /\ OverlapInv /\ [Next]_vars => OverlapInv'
  BY OverlapStep
<1>3. TypeOK /\ TypeOK' /\ OverlapInv /\ ClockInv /\ [Next]_vars => ClockInv'
  BY ClockInvStep
<1>. QED
  BY <1>1, <1>2, <1>3, OverlapInitially, ClockInitially, TypeCorrect,
     PTL DEF Spec, ClocksAdvance

-----------------------------------------------------------------------------
(***************************************************************************)
(* One worker, as deployed: the copies a job commits are current.          *)
(***************************************************************************)

\* Over a row nobody else touched, a commit writes what was in memory.
LEMMA MergeOwn ==
  ASSUME NEW a \in Row, NEW b \in Row
  PROVE  Merge(a, b, a) = b
BY DEF Merge, Row

\* The pass commits its verdicts on the rows as they are.
LEMMA CheckCommits ==
  ASSUME TypeOK, WorkerInv, NEW s \in Slots, CommitCheck(s), NEW l \in Listings
  PROVE  /\ rows'[l] = Judge(rows[l], jobs[s].answers[l], jobs[s].startedAt)
         /\ jobs[s].answers[l] # "none" => Candidate(rows[l], jobs[s].startedAt)
<1>. DEFINE was == jobs[s].loaded[l]
            a == jobs[s].answers[l]
            t == jobs[s].startedAt
<1>1. was \in Row /\ rows[l] \in Row /\ a \in Answers /\ t \in Times
  BY DEF TypeOK, Job
<1>2. rows'[l] = Merge(was, Judge(was, a, t), rows[l])
  BY DEF CommitCheck
<1>3. CASE a = "none"
  BY <1>1, <1>2, <1>3, MergeNothing DEF Judge
<1>4. CASE a # "none"
  <2>1. was = rows[l] /\ Candidate(rows[l], t)
    BY <1>4 DEF CommitCheck, WorkerInv, WorkerSafe, InHand
  <2>2. Judge(was, a, t) \in Row
    BY <1>1, JudgeType
  <2>. QED
    BY <2>1, <2>2, <1>1, <1>2, MergeOwn
<1>. QED
  BY <1>3, <1>4

\* The search commits its hits on the rows as they are.
LEMMA SearchCommits ==
  ASSUME TypeOK, WorkerInv, NEW s \in Slots, CommitSearch(s), NEW l \in Listings
  PROVE  rows'[l] = IF l \in jobs[s].chosen
                    THEN Refreshed(rows[l], jobs[s].startedAt) ELSE rows[l]
<1>. DEFINE was == jobs[s].loaded[l]
            t == jobs[s].startedAt
<1>1. was \in Row /\ rows[l] \in Row /\ t \in Times
  BY DEF TypeOK, Job
<1>2. CASE l \in jobs[s].chosen
  <2>1. was = rows[l]
    BY <1>2 DEF CommitSearch, WorkerInv, WorkerSafe
  <2>2. Refreshed(was, t) \in Row
    BY <1>1, RefreshedType
  <2>. QED
    BY <1>1, <1>2, <2>1, <2>2, MergeOwn DEF CommitSearch
<1>3. CASE l \notin jobs[s].chosen
  BY <1>3 DEF CommitSearch
<1>. QED
  BY <1>2, <1>3

\* What every step of a lone worker does to one row, whichever job it runs:
\* nothing, a retirement, a verdict or a sighting.
LEMMA RowMoves ==
  ASSUME TypeOK, WorkerInv, [Next]_vars, NEW l \in Listings
  PROVE  \/ rows'[l] = rows[l]
         \/ \E s \in Slots :
              LET t == jobs[s].startedAt
              IN  /\ jobs[s].stage # "idle"
                  /\ \/ /\ Retirable(rows[l], t)
                        /\ rows'[l] = [rows[l] EXCEPT !.status = "stale"]
                     \/ /\ Candidate(rows[l], t)
                        /\ \E a \in {"alive", "ended"} :
                             rows'[l] = Judge(rows[l], a, t)
                     \/ rows'[l] = Refreshed(rows[l], t)
<1>1. ASSUME NEW s \in Slots, RetireStale(s), rows'[l] # rows[l]
      PROVE  /\ jobs[s].stage # "idle"
             /\ Retirable(rows[l], jobs[s].startedAt)
             /\ rows'[l] = [rows[l] EXCEPT !.status = "stale"]
  BY <1>1 DEF RetireStale, WorkerInv, WorkerSafe
<1>2. ASSUME NEW s \in Slots, CommitCheck(s), rows'[l] # rows[l]
      PROVE  /\ jobs[s].stage # "idle"
             /\ Candidate(rows[l], jobs[s].startedAt)
             /\ \E a \in {"alive", "ended"} :
                  rows'[l] = Judge(rows[l], a, jobs[s].startedAt)
  <2>1. jobs[s].answers[l] \in Answers /\ jobs[s].stage # "idle"
    BY <1>2 DEF TypeOK, Job, CommitCheck
  <2>2. jobs[s].answers[l] # "none"
    BY <1>2, CheckCommits DEF Judge
  <2>. QED
    BY <1>2, <2>1, <2>2, CheckCommits DEF Answers
<1>3. ASSUME NEW s \in Slots, CommitSearch(s), rows'[l] # rows[l]
      PROVE  /\ jobs[s].stage # "idle"
             /\ rows'[l] = Refreshed(rows[l], jobs[s].startedAt)
  BY <1>3, SearchCommits DEF CommitSearch
<1>4. CASE UNCHANGED rows
  BY <1>4
<1>. QED
  BY <1>1, <1>2, <1>3, <1>4 DEF Next, CheckStep, SearchStep, vars, Tick,
     PutUp, TakeDown, StartCheck, LoadCandidates, ItemAnswered, QuotaRunsOut,
     ItemFails, StartSearch, LoadPage, FailSearch, Crash

\* A lone worker never commits a clock older than the one it overwrites, nor
\* one ahead of the wall clock.
LEMMA RowClocks ==
  ASSUME TypeOK, WorkerInv, AbsentIsNoRow, [Next]_vars, NEW l \in Listings
  PROVE  /\ rows[l].lastSeen <= rows'[l].lastSeen
         /\ rows[l].lastChecked <= rows'[l].lastChecked
         /\ rows[l].lastSeen <= now => rows'[l].lastSeen <= now
         /\ rows[l].lastChecked <= now => rows'[l].lastChecked <= now
<1>1. CASE rows'[l] = rows[l]
  BY <1>1 DEF TypeOK, Row, Times, Never
<1>2. ASSUME NEW s \in Slots, jobs[s].stage # "idle",
             \/ rows'[l] = [rows[l] EXCEPT !.status = "stale"]
             \/ \E a \in {"alive", "ended"} :
                  rows'[l] = Judge(rows[l], a, jobs[s].startedAt)
             \/ rows'[l] = Refreshed(rows[l], jobs[s].startedAt)
      PROVE  /\ rows[l].lastSeen <= rows'[l].lastSeen
             /\ rows[l].lastChecked <= rows'[l].lastChecked
             /\ rows[l].lastSeen <= now => rows'[l].lastSeen <= now
             /\ rows[l].lastChecked <= now => rows'[l].lastChecked <= now
  <2>. DEFINE t == jobs[s].startedAt
  <2>1. /\ t \in Times /\ t <= now /\ now \in Times /\ rows[l] \in Row
        /\ rows[l].lastSeen <= t /\ rows[l].lastChecked <= t
    BY <1>2 DEF TypeOK, Job, WorkerInv, WorkerSafe
  <2>2. CASE rows'[l] = [rows[l] EXCEPT !.status = "stale"]
    BY <2>1, <2>2 DEF Row, Times, Never
  <2>3. ASSUME NEW a \in {"alive", "ended"}, rows'[l] = Judge(rows[l], a, t)
        PROVE  /\ rows'[l].lastSeen = rows[l].lastSeen
               /\ rows'[l].lastChecked = t
    BY <2>1, <2>3 DEF Judge, Row
  <2>4. CASE rows'[l] = Refreshed(rows[l], t)
    <3>1. /\ rows'[l].lastSeen = t
          /\ rows'[l].lastChecked = rows[l].lastChecked
      BY <2>1, <2>4 DEF Refreshed, NewRow, Row, AbsentIsNoRow, NoRow
    <3>. QED
      BY <2>1, <3>1 DEF Row, Times, Never
  <2>. QED
    BY <1>2, <2>1, <2>2, <2>3, <2>4 DEF Row, Times, Never
<1>. QED
  BY <1>1, <1>2, RowMoves

\* The part of the invariant that is about the table.
TableInv == AbsentIsNoRow /\ NoClockAhead

LEMMA TableStep ==
  ASSUME TypeOK, WorkerInv, TableInv, [Next]_vars
  PROVE  TableInv'
<1>1. now \in Int /\ now' \in Int /\ now <= now'
  BY ClockStep
<1>2. ASSUME NEW l \in Listings
      PROVE  rows'[l].lastSeen <= now' /\ rows'[l].lastChecked <= now'
  <2>1. rows'[l].lastSeen <= now /\ rows'[l].lastChecked <= now
    BY RowClocks DEF TableInv, NoClockAhead
  <2>2. rows'[l] \in Row
    BY TypeStep DEF TypeOK
  <2>. QED
    BY <1>1, <2>1, <2>2 DEF Row, Times, Never
<1>3. ASSUME NEW l \in Listings, rows'[l] # rows[l]
      PROVE  rows'[l].status # "absent"
  <2>1. rows[l] \in Row
    BY DEF TypeOK
  <2>2. PICK t \in Times :
          \/ Retirable(rows[l], t) /\ rows'[l] = [rows[l] EXCEPT !.status = "stale"]
          \/ /\ Candidate(rows[l], t)
             /\ \E a \in {"alive", "ended"} : rows'[l] = Judge(rows[l], a, t)
          \/ rows'[l] = Refreshed(rows[l], t)
    BY <1>3, RowMoves DEF TypeOK, Job
  <2>3. CASE rows'[l] = [rows[l] EXCEPT !.status = "stale"]
    BY <2>1, <2>3 DEF Row
  <2>4. ASSUME NEW a \in {"alive", "ended"}, rows[l].status = "active",
               rows'[l] = Judge(rows[l], a, t)
        PROVE  rows'[l].status # "absent"
    BY <2>1, <2>4 DEF Judge, Row
  <2>5. CASE rows'[l] = Refreshed(rows[l], t)
    BY <2>1, <2>5 DEF Refreshed, NewRow, Row
  <2>. QED
    BY <2>2, <2>3, <2>4, <2>5 DEF Candidate
<1>. QED
  BY <1>2, <1>3 DEF TableInv, AbsentIsNoRow, NoClockAhead

\* The job of a lone worker stays in step with the table.
LEMMA WorkerStep ==
  ASSUME OneWorker, TypeOK, WorkerInv, TableInv, [Next]_vars
  PROVE  WorkerInv'
<1>. SUFFICES ASSUME NEW s \in Slots PROVE WorkerSafe(s)'
  BY DEF WorkerInv
<1>. USE DEF TypeOK
<1>0. /\ WorkerSafe(s)
      /\ \A r \in Slots : r = s
      /\ jobs[s] \in Job
  BY DEF WorkerInv, OneWorker
<1>1. CASE UNCHANGED <<rows, jobs>> /\ now <= now'
  <2>1. now' \in Times
    BY TypeStep
  <2>. QED
    BY <1>0, <1>1, <2>1 DEF WorkerSafe, InHand, Job, Times
<1>2. CASE jobs'[s] = Idle
  BY <1>2 DEF WorkerSafe, Idle
<1>3. CASE StartCheck(s)
  BY <1>0, <1>3 DEF StartCheck, WorkerSafe, InHand, Idle, TableInv,
     NoClockAhead, Times
<1>4. CASE RetireStale(s)
  <2>1. /\ jobs'[s].stage = "budget" /\ jobs'[s].startedAt = jobs[s].startedAt
        /\ InHand(s)' = InHand(s) /\ UNCHANGED now
    BY <1>0, <1>4 DEF RetireStale, Job, InHand
  <2>2. \A l \in Listings : /\ rows'[l].lastSeen = rows[l].lastSeen
                            /\ rows'[l].lastChecked = rows[l].lastChecked
    BY <1>4 DEF RetireStale, Row
  <2>. QED
    BY <1>0, <1>4, <2>1, <2>2 DEF RetireStale, WorkerSafe
<1>5. ASSUME NEW B \in SUBSET Listings, jobs[s].stage = "budget",
             \A l \in B : Candidate(rows[l], jobs[s].startedAt),
             jobs' = [jobs EXCEPT ![s].stage = "items", ![s].todo = B,
                        ![s].loaded = [l \in Listings |->
                           IF l \in B THEN rows[l] ELSE NoRow]],
             UNCHANGED <<now, rows>>
      PROVE  WorkerSafe(s)'
  <2>1. /\ jobs'[s].stage = "items" /\ jobs'[s].todo = B
        /\ jobs'[s].answers = jobs[s].answers
        /\ jobs'[s].startedAt = jobs[s].startedAt
        /\ \A l \in B : jobs'[s].loaded[l] = rows[l]
    BY <1>0, <1>5 DEF Job
  <2>2. \A l \in Listings : jobs[s].answers[l] = "none"
    BY <1>0, <1>5 DEF WorkerSafe, InHand
  <2>3. InHand(s)' = B
    BY <2>1, <2>2 DEF InHand
  <2>. QED
    BY <1>0, <1>5, <2>1, <2>3 DEF WorkerSafe
<1>6. ASSUME NEW l \in Listings, NEW a \in Answers, ItemAnswered(s, l, a)
      PROVE  WorkerSafe(s)'
  BY <1>0, <1>6 DEF ItemAnswered, IsNext, WorkerSafe, InHand, Job
<1>7. CASE QuotaRunsOut(s)
  BY <1>0, <1>7 DEF QuotaRunsOut, WorkerSafe, InHand, Job
<1>8. CASE StartSearch(s)
  BY <1>0, <1>8 DEF StartSearch, WorkerSafe, InHand, Idle, TableInv,
     NoClockAhead, Times
<1>9. CASE LoadPage(s)
  BY <1>0, <1>9 DEF LoadPage, WorkerSafe, InHand, Job
<1>10. CASE LoadCandidates(s)
  BY <1>0, <1>2, <1>5, <1>10 DEF LoadCandidates, IsBatch
<1>11. CASE ItemFails(s) \/ CommitCheck(s) \/ CommitSearch(s) \/ FailSearch(s)
            \/ Crash(s)
  BY <1>0, <1>2, <1>11 DEF ItemFails, CommitCheck, CommitSearch, FailSearch, Crash
<1>12. CASE Tick \/ UNCHANGED vars \/ \E l \in Listings : PutUp(l) \/ TakeDown(l)
  BY <1>1, <1>12 DEF Tick, PutUp, TakeDown, vars, Times
<1>. QED
  BY <1>0, <1>3, <1>4, <1>6, <1>7, <1>8, <1>9, <1>10, <1>11, <1>12
     DEF Next, CheckStep, SearchStep

LEMMA WorkerInitially == Init => WorkerInv /\ TableInv
<1>1. 0 \in Times
  BY SettingsAssumption DEF Times
<1>. QED
  BY <1>1 DEF Init, WorkerInv, WorkerSafe, TableInv, AbsentIsNoRow,
     NoClockAhead, Idle, NoRow, Never

THEOREM WorkerCorrect ==
  ASSUME OneWorker
  PROVE  Spec => [](WorkerInv /\ TableInv)
<1>1. TypeOK /\ WorkerInv /\ TableInv /\ [Next]_vars => WorkerInv' /\ TableInv'
  BY WorkerStep, TableStep
<1>. QED
  BY <1>1, WorkerInitially, TypeCorrect, PTL DEF Spec

-----------------------------------------------------------------------------
(***************************************************************************)
(* What the deployment promises about strikes, retirement and phases.      *)
(***************************************************************************)

\* The writes a job that started at t can commit on a row.
Retires(l, t) == /\ Retirable(rows[l], t)
                 /\ rows'[l] = [rows[l] EXCEPT !.status = "stale"]

Clears(l, t) == /\ Candidate(rows[l], t)
                /\ rows'[l] = [rows[l] EXCEPT !.lastChecked = t,
                                              !.missingSince = Never]

Strikes(l, t) == /\ Candidate(rows[l], t)
                 /\ rows[l].missingSince = Never
                 /\ rows'[l] = [rows[l] EXCEPT !.lastChecked = t,
                                               !.missingSince = t]

Sells(l, t) == /\ Candidate(rows[l], t)
               /\ rows[l].missingSince # Never
               /\ rows'[l] = [rows[l] EXCEPT !.lastChecked = t,
                                             !.status = "likely_sold"]

Sights(l, t) == rows'[l] = Refreshed(rows[l], t)

\* RowMoves by kind of write, with the start of the job bounded by the clock.
LEMMA RowWrites ==
  ASSUME TypeOK, WorkerInv, [Next]_vars, NEW l \in Listings, rows'[l] # rows[l]
  PROVE  \E t \in Times : /\ t <= now
                          /\ \/ Retires(l, t) \/ Clears(l, t) \/ Strikes(l, t)
                             \/ Sells(l, t) \/ Sights(l, t)
<1>1. PICK s \in Slots :
        LET t == jobs[s].startedAt
        IN  /\ jobs[s].stage # "idle"
            /\ \/ /\ Retirable(rows[l], t)
                  /\ rows'[l] = [rows[l] EXCEPT !.status = "stale"]
               \/ /\ Candidate(rows[l], t)
                  /\ \E a \in {"alive", "ended"} : rows'[l] = Judge(rows[l], a, t)
               \/ rows'[l] = Refreshed(rows[l], t)
  BY RowMoves
<1>2. jobs[s].startedAt \in Times /\ jobs[s].startedAt <= now
  BY <1>1 DEF TypeOK, Job, WorkerInv, WorkerSafe
<1>. QED
  BY <1>1, <1>2 DEF Judge, Retires, Clears, Strikes, Sells, Sights

\* One worker: a pending strike is never older than the last sighting, and
\* so a sale is only ever confirmed on a listing no search has seen since its
\* first strike.
THEOREM StrikesOutliveNoSighting ==
  ASSUME OneWorker
  PROVE  Spec => []StrikeOutlivesNoSighting
<1>1. Init => StrikeOutlivesNoSighting
  BY DEF Init, StrikeOutlivesNoSighting, NoRow
<1>2. ASSUME TypeOK, WorkerInv, StrikeOutlivesNoSighting, [Next]_vars
      PROVE  StrikeOutlivesNoSighting'
  <2>. SUFFICES ASSUME NEW l \in Listings, rows'[l].missingSince # Never
                PROVE  rows'[l].lastSeen < rows'[l].missingSince
    BY DEF StrikeOutlivesNoSighting
  <2>1. rows[l] \in Row
    BY <1>2 DEF TypeOK
  <2>2. CASE rows'[l] = rows[l]
    BY <1>2, <2>2 DEF StrikeOutlivesNoSighting
  <2>3. CASE rows'[l] # rows[l]
    <3>1. PICK t \in Times : \/ Retires(l, t) \/ Clears(l, t) \/ Strikes(l, t)
                             \/ Sells(l, t) \/ Sights(l, t)
      BY <1>2, <2>3, RowWrites
    <3>2. CASE Retires(l, t) \/ Sells(l, t)
      <4>1. /\ rows'[l].lastSeen = rows[l].lastSeen
            /\ rows'[l].missingSince = rows[l].missingSince
        BY <2>1, <3>2 DEF Retires, Sells, Row
      <4>. QED
        BY <1>2, <4>1 DEF StrikeOutlivesNoSighting
    <3>3. CASE Strikes(l, t)
      <4>1. /\ rows'[l].lastSeen = rows[l].lastSeen
            /\ rows'[l].missingSince = t
            /\ rows[l].lastSeen < t - ProvenAlive
        BY <2>1, <3>3 DEF Strikes, Candidate, Row
      <4>. QED
        BY <2>1, <4>1, SettingsAssumption DEF Row, Times
    <3>4. ~Clears(l, t)
      BY <2>1 DEF Clears, Row
    <3>5. ~Sights(l, t)
      BY <2>1, RefreshedFields DEF Sights
    <3>. QED
      BY <3>1, <3>2, <3>3, <3>4, <3>5
  <2>. QED
    BY <2>2, <2>3
<1>. QED
  BY <1>1, <1>2, WorkerCorrect, TypeCorrect, PTL DEF Spec

\* One worker implements the abstract contract: every step moves each listing
\* along an edge of ListingContract or not at all.
THEOREM LifecycleImplementsContract ==
  ASSUME OneWorker
  PROVE  Spec => KeepsContract
<1>1. Init => Contract!Init
  BY DEF Init, Contract!Init, PhaseOf, NoRow
<1>2. ASSUME TypeOK, WorkerInv, [Next]_vars PROVE Contract!Next
  <2>1. ASSUME NEW l \in Listings
        PROVE  \/ PhaseOf(rows'[l]) = PhaseOf(rows[l])
               \/ <<PhaseOf(rows[l]), PhaseOf(rows'[l])>> \in Contract!Moves
    <3>1. rows[l] \in Row
      BY <1>2 DEF TypeOK
    <3>2. CASE rows'[l] = rows[l]
      BY <3>2
    <3>3. CASE rows'[l] # rows[l]
      <4>1. PICK t \in Times : \/ Retires(l, t) \/ Clears(l, t) \/ Strikes(l, t)
                               \/ Sells(l, t) \/ Sights(l, t)
        BY <1>2, <3>3, RowWrites
      <4>2. CASE Retires(l, t)
        BY <3>1, <4>2 DEF Retires, Retirable, Row, PhaseOf, Contract!Moves
      <4>3. CASE Clears(l, t) \/ Strikes(l, t)
        BY <3>1, <4>3 DEF Clears, Strikes, Candidate, Row, PhaseOf,
           Contract!Moves, Times, Never
      <4>4. CASE Sells(l, t)
        BY <3>1, <4>4 DEF Sells, Candidate, Row, PhaseOf, Contract!Moves
      <4>5. CASE Sights(l, t)
        <5>1. rows[l].status \in Statuses
          BY <3>1 DEF Row
        <5>2. /\ rows'[l].missingSince = Never
              /\ rows'[l].status = IF rows[l].status \in {"absent", "stale"}
                                   THEN "active" ELSE rows[l].status
          BY <3>1, <4>5, RefreshedFields DEF Sights
        <5>. QED
          BY <5>1, <5>2 DEF Statuses, PhaseOf, Contract!Moves
      <4>. QED
        BY <4>1, <4>2, <4>3, <4>4, <4>5
    <3>. QED
      BY <3>2, <3>3
  <2>2. ASSUME NEW l \in Listings PROVE PhaseOf(rows'[l]) \in Contract!Phases
    BY <1>2, TypeStep DEF TypeOK, Row, PhaseOf, Contract!Phases, Statuses
  <2>. QED
    BY <2>1, <2>2 DEF Contract!Next
<1>. QED
  BY <1>1, <1>2, WorkerCorrect, TypeCorrect, PTL
     DEF Spec, KeepsContract, Contract!Spec

-----------------------------------------------------------------------------
(***************************************************************************)
(* Consecutive misses: what StrikeHistory remembers of the answers.        *)
(***************************************************************************)

\* Only a pass in its loop has answers, and none on what it has yet to ask.
JobShape(s) ==
  /\ jobs[s].stage # "items" => \A l \in Listings : jobs[s].answers[l] = "none"
  /\ jobs[s].stage \in {"budget", "items"} => jobs[s].chosen = {}
  /\ \A l \in jobs[s].todo : jobs[s].answers[l] = "none"

\* A strike stands for a miss, unless eBay has been heard since.
StrikeInv(l) ==
  rows[l].missingSince # Never /\ rows[l].status # "likely_sold" =>
    misses[l] >= 1 \/ lost[l] \/ \E s \in Slots : l \in KnownAlive(s)

\* An answer not committed yet is a miss, and on a struck row the second.
AnswerInv(s, l) ==
  jobs[s].stage = "items" /\ jobs[s].answers[l] = "ended" =>
    /\ misses[l] >= 1
    /\ rows[l].missingSince # Never => misses[l] >= 2 \/ lost[l]

HistoryInv ==
  /\ misses \in [Listings -> 0..2] /\ lost \in [Listings -> BOOLEAN]
  /\ \A s \in Slots : JobShape(s)
  /\ \A l \in Listings : StrikeInv(l)
  /\ \A s \in Slots, l \in Listings : AnswerInv(s, l)

LEMMA HistoryStart == HInit => HistoryInv
<1>. SUFFICES ASSUME HInit PROVE HistoryInv
  OBVIOUS
<1>1. /\ misses = [l \in Listings |-> 0] /\ lost = [l \in Listings |-> FALSE]
      /\ rows = [l \in Listings |-> NoRow] /\ jobs = [s \in Slots |-> Idle]
  BY DEF HInit, Init
<1>2. \A s \in Slots : JobShape(s)
  BY <1>1 DEF JobShape, Idle
<1>3. \A l \in Listings : StrikeInv(l)
  BY <1>1 DEF StrikeInv, NoRow
<1>4. \A s \in Slots, l \in Listings : AnswerInv(s, l)
  BY <1>1 DEF AnswerInv, Idle
<1>. QED
  BY <1>1, <1>2, <1>3, <1>4 DEF HistoryInv

LEMMA HistoryTypes ==
  ASSUME HistoryInv, HNext
  PROVE  misses' \in [Listings -> 0..2] /\ lost' \in [Listings -> BOOLEAN]
<1>1. ASSUME NEW l \in Listings PROVE misses'[l] \in 0..2
  BY DEF HNext, HistoryInv
<1>2. misses' = [l \in Listings |-> misses'[l]]
  BY DEF HNext
<1>3. lost' \in [Listings -> BOOLEAN]
  BY DEF HNext
<1>. QED
  BY <1>1, <1>2, <1>3

\* Where no job hears or sights anything, the misses stay.
LEMMA MissesStay ==
  ASSUME HNext, HistoryInv, Told("alive") = {}, Told("ended") = {}, Sighted = {}
  PROVE  \A l \in Listings : misses'[l] = misses[l]
BY DEF HNext

\* News is lost or superseded only where a job ends.
LEMMA LostStays ==
  ASSUME HNext, HistoryInv, TypeOK,
         \A s \in Slots : jobs'[s].stage # "idle" \/ jobs'[s] = jobs[s]
  PROVE  \A l \in Listings : lost'[l] = lost[l]
<1>1. ASSUME NEW s \in Slots
      PROVE  ~(\/ ItemFails(s) \/ FailSearch(s) \/ Crash(s)
               \/ CommitCheck(s) \/ CommitSearch(s))
  <2>. SUFFICES ASSUME \/ ItemFails(s) \/ FailSearch(s) \/ Crash(s)
                       \/ CommitCheck(s) \/ CommitSearch(s)
                PROVE  FALSE
    OBVIOUS
  <2>1. jobs[s].stage # "idle"
    BY DEF ItemFails, FailSearch, Crash, CommitCheck, CommitSearch
  <2>2. jobs' = [jobs EXCEPT ![s] = Idle]
    BY DEF ItemFails, FailSearch, Crash, CommitCheck, CommitSearch
  <2>3. jobs'[s].stage = "idle"
    BY <2>2 DEF TypeOK, Idle
  <2>. QED
    BY <2>1, <2>3
<1>2. RolledBack = {} /\ Committed = {}
  BY <1>1 DEF RolledBack, Committed
<1>3. lost \in [Listings -> BOOLEAN]
  BY DEF HistoryInv
<1>. QED
  BY <1>2, <1>3 DEF HNext

\* A job that ends hears nothing new.
LEMMA EndHearsNothing ==
  ASSUME HNext, HistoryInv, NEW s \in Slots, \A r \in Slots : r = s,
         jobs'[s] = Idle
  PROVE  \A l \in Listings : misses'[l] = misses[l]
<1>1. Told("alive") = {} /\ Told("ended") = {}
  BY DEF Told, Idle
<1>2. Sighted = {}
  BY DEF Sighted, Idle
<1>. QED
  BY <1>1, <1>2, MissesStay

\* With the job gone, only the strikes are left to account for.
LEMMA EndLeavesStrikes ==
  ASSUME HNext, HistoryInv, NEW s \in Slots, \A r \in Slots : r = s,
         jobs'[s] = Idle, \A l \in Listings : StrikeInv(l)'
  PROVE  HistoryInv'
<1>1. \A r \in Slots : JobShape(r)'
  BY DEF JobShape, Idle
<1>2. \A r \in Slots, l \in Listings : AnswerInv(r, l)'
  BY DEF AnswerInv, Idle
<1>. QED
  BY <1>1, <1>2, HistoryTypes DEF HistoryInv

\* A rollback turns what the job knew into lost news.
LEMMA RollbackStep ==
  ASSUME HNext, HistoryInv, NEW s \in Slots, \A r \in Slots : r = s,
         jobs'[s] = Idle, rows' = rows, ~CommitCheck(s), ~CommitSearch(s),
         KnownAlive(s) \subseteq RolledBack
  PROVE  HistoryInv'
<1>1. Committed = {}
  BY DEF Committed
<1>2. ASSUME NEW l \in Listings PROVE StrikeInv(l)'
  <2>1. misses'[l] = misses[l]
    BY EndHearsNothing
  <2>2. lost'[l] = (l \in RolledBack \/ (lost[l] /\ l \notin Committed))
    BY DEF HNext
  <2>3. lost[l] \/ l \in KnownAlive(s) => lost'[l]
    BY <1>1, <2>2
  <2>4. StrikeInv(l)
    BY DEF HistoryInv
  <2>5. CASE rows[l].missingSince # Never /\ rows[l].status # "likely_sold"
    <3>1. misses[l] >= 1 \/ lost[l] \/ l \in KnownAlive(s)
      BY <2>4, <2>5 DEF StrikeInv
    <3>. QED
      BY <2>1, <2>3, <3>1 DEF StrikeInv
  <2>6. CASE ~(rows[l].missingSince # Never /\ rows[l].status # "likely_sold")
    BY <2>6 DEF StrikeInv
  <2>. QED
    BY <2>5, <2>6
<1>. QED
  BY <1>2, EndLeavesStrikes

\* A verdict clears the strike of a live listing and touches nothing unasked.
LEMMA JudgeStrike ==
  ASSUME NEW r \in Row, NEW t
  PROVE  /\ Judge(r, "none", t) = r
         /\ Judge(r, "alive", t).missingSince = Never
         /\ Judge(r, "ended", t).status # r.status =>
              r.missingSince # Never
<1>1. Judge(r, "none", t) = r
  BY DEF Judge
<1>2. Judge(r, "alive", t).missingSince = Never
  BY DEF Judge, Row
<1>3. CASE r.missingSince = Never
  BY <1>1, <1>2, <1>3 DEF Judge, Row
<1>4. CASE r.missingSince # Never
  BY <1>1, <1>2, <1>4
<1>. QED
  BY <1>3, <1>4

LEMMA CheckCommitStep ==
  ASSUME TypeOK, WorkerInv, HistoryInv, HNext,
         NEW s \in Slots, \A r \in Slots : r = s, CommitCheck(s)
  PROVE  HistoryInv'
<1>1. jobs'[s] = Idle /\ jobs[s].stage = "items"
  BY DEF CommitCheck, TypeOK
<1>2. jobs[s].chosen = {}
  BY <1>1 DEF HistoryInv, JobShape
<1>3. ASSUME NEW l \in Listings PROVE StrikeInv(l)'
  <2>1. misses'[l] = misses[l]
    BY <1>1, EndHearsNothing
  <2>2. lost'[l] = (l \in RolledBack \/ (lost[l] /\ l \notin Committed))
    BY DEF HNext
  <2>3. jobs[s].answers[l] \in Answers /\ rows[l] \in Row
    BY DEF TypeOK, Job
  <2>0. rows'[l] = Judge(rows[l], jobs[s].answers[l], jobs[s].startedAt)
    BY CheckCommits
  <2>4. CASE jobs[s].answers[l] = "none"
    <3>1. rows'[l] = rows[l]
      BY <2>0, <2>3, <2>4, JudgeStrike
    <3>2. l \notin Committed
      BY <1>2, <2>4 DEF Committed
    <3>3. l \notin KnownAlive(s)
      BY <1>1, <2>4 DEF KnownAlive
    <3>4. StrikeInv(l)
      BY DEF HistoryInv
    <3>5. rows[l].missingSince # Never /\ rows[l].status # "likely_sold" =>
            misses[l] >= 1 \/ lost[l]
      BY <3>3, <3>4 DEF StrikeInv
    <3>. QED
      BY <2>1, <2>2, <3>1, <3>2, <3>5 DEF StrikeInv
  <2>5. CASE jobs[s].answers[l] = "alive"
    <3>1. rows'[l].missingSince = Never
      BY <2>0, <2>3, <2>5, JudgeStrike
    <3>. QED
      BY <3>1 DEF StrikeInv
  <2>6. CASE jobs[s].answers[l] = "ended"
    <3>1. misses[l] >= 1
      BY <1>1, <2>6 DEF HistoryInv, AnswerInv
    <3>. QED
      BY <2>1, <3>1 DEF StrikeInv
  <2>. QED
    BY <2>3, <2>4, <2>5, <2>6 DEF Answers
<1>. QED
  BY <1>1, <1>3, EndLeavesStrikes

LEMMA SearchCommitStep ==
  ASSUME TypeOK, WorkerInv, HistoryInv, HNext,
         NEW s \in Slots, \A r \in Slots : r = s, CommitSearch(s)
  PROVE  HistoryInv'
<1>1. jobs'[s] = Idle /\ jobs[s].stage = "page"
  BY DEF CommitSearch, TypeOK
<1>2. \A l \in Listings : jobs[s].answers[l] = "none"
  BY <1>1 DEF HistoryInv, JobShape
<1>3. ASSUME NEW l \in Listings PROVE StrikeInv(l)'
  <2>1. misses'[l] = misses[l]
    BY <1>1, EndHearsNothing
  <2>2. lost'[l] = (l \in RolledBack \/ (lost[l] /\ l \notin Committed))
    BY DEF HNext
  <2>3. rows[l] \in Row /\ jobs[s].startedAt \in Times
    BY DEF TypeOK, Job
  <2>4. CASE l \in jobs[s].chosen
    <3>1. rows'[l].missingSince = Never
      BY <2>3, <2>4, SearchCommits, RefreshedFields
    <3>. QED
      BY <3>1 DEF StrikeInv
  <2>5. CASE l \notin jobs[s].chosen
    <3>1. rows'[l] = rows[l]
      BY <2>5, SearchCommits
    <3>2. l \notin Committed
      BY <1>2, <2>5 DEF Committed
    <3>3. l \notin KnownAlive(s)
      BY <1>2, <2>5 DEF KnownAlive
    <3>4. StrikeInv(l)
      BY DEF HistoryInv
    <3>5. rows[l].missingSince # Never /\ rows[l].status # "likely_sold" =>
            misses[l] >= 1 \/ lost[l]
      BY <3>3, <3>4 DEF StrikeInv
    <3>. QED
      BY <2>1, <2>2, <3>1, <3>2, <3>5 DEF StrikeInv
  <2>. QED
    BY <2>4, <2>5
<1>. QED
  BY <1>1, <1>3, EndLeavesStrikes

\* A step that hears nothing, ends nothing and moves no strike keeps the
\* invariant where the job knows as much as before.
LEMMA QuietStep ==
  ASSUME HNext, HistoryInv, TypeOK, NEW s \in Slots, \A r \in Slots : r = s,
         jobs'[s].stage # "idle" \/ jobs'[s] = jobs[s],
         jobs'[s].answers = jobs[s].answers,
         ~(jobs'[s].stage = "searched" /\ jobs[s].stage = "idle"),
         JobShape(s)', KnownAlive(s) \subseteq KnownAlive(s)',
         jobs'[s].stage = "items" /\ jobs[s].stage # "items" =>
           \A l \in Listings : jobs'[s].answers[l] = "none",
         \A l \in Listings :
           /\ rows'[l].missingSince = rows[l].missingSince
           /\ rows'[l].status # "likely_sold" => rows[l].status # "likely_sold"
  PROVE  HistoryInv'
<1>1. Told("alive") = {} /\ Told("ended") = {} /\ Sighted = {}
  BY DEF Told, Sighted
<1>2. \A l \in Listings : misses'[l] = misses[l]
  BY <1>1, MissesStay
<1>3. \A l \in Listings : lost'[l] = lost[l]
  BY LostStays
<1>4. ASSUME NEW l \in Listings PROVE StrikeInv(l)'
  <2>1. StrikeInv(l)
    BY DEF HistoryInv
  <2>. QED
    BY <1>2, <1>3, <2>1 DEF StrikeInv
<1>5. ASSUME NEW l \in Listings PROVE AnswerInv(s, l)'
  <2>1. AnswerInv(s, l)
    BY DEF HistoryInv
  <2>. QED
    BY <1>2, <1>3, <2>1 DEF AnswerInv
<1>. QED
  BY <1>4, <1>5, HistoryTypes DEF HistoryInv

LEMMA AnswerStep ==
  ASSUME HNext, HistoryInv, TypeOK, WorkerInv, NEW s \in Slots,
         \A r \in Slots : r = s,
         NEW m \in Listings, NEW a \in {"alive", "ended"},
         jobs[s].stage = "items", m \in jobs[s].todo, rows' = rows,
         jobs' = [jobs EXCEPT ![s].todo = @ \ {m}, ![s].answers[m] = a]
  PROVE  HistoryInv'
<1>1. /\ jobs'[s].stage = "items" /\ jobs'[s].todo = jobs[s].todo \ {m}
      /\ jobs'[s].chosen = jobs[s].chosen
      /\ jobs'[s].answers = [jobs[s].answers EXCEPT ![m] = a]
  BY DEF TypeOK, Job
<1>2. /\ jobs'[s].answers[m] = a
      /\ \A l \in Listings \ {m} : jobs'[s].answers[l] = jobs[s].answers[l]
  BY <1>1 DEF TypeOK, Job
<1>3. JobShape(s) /\ jobs[s].chosen = {} /\ jobs[s].answers[m] = "none"
  BY DEF HistoryInv, JobShape
<1>4. JobShape(s)'
  <2>1. jobs'[s].todo \subseteq Listings
    BY <1>1 DEF TypeOK, Job
  <2>. QED
    BY <1>1, <1>2, <1>3, <2>1 DEF JobShape
<1>5. \A l \in Listings : lost'[l] = lost[l]
  BY <1>1, LostStays
<1>6. /\ Sighted = {} /\ Told(a) = {m}
      /\ \A b \in {"alive", "ended"} \ {a} : Told(b) = {}
  <2>1. Sighted = {}
    BY <1>1 DEF Sighted
  <2>2. ASSUME NEW b \in {"alive", "ended"}, NEW l \in Listings
        PROVE  l \in Told(b) <=> l = m /\ a = b
    <3>1. CASE l = m
      BY <1>2, <1>3, <3>1 DEF Told
    <3>2. CASE l # m
      <4>1. jobs'[s].answers[l] = jobs[s].answers[l]
        BY <1>2, <3>2
      <4>. QED
        BY <3>2, <4>1 DEF Told
    <3>. QED
      BY <3>1, <3>2
  <2>3. \A b \in {"alive", "ended"} : Told(b) \subseteq Listings
    BY DEF Told
  <2>. QED
    BY <2>1, <2>2, <2>3
<1>7. ASSUME NEW l \in Listings \ {m}
      PROVE  misses'[l] = misses[l]
  BY <1>6 DEF HNext
<1>8. misses'[m] = IF a = "alive" THEN 0
                   ELSE IF misses[m] < 2 THEN misses[m] + 1 ELSE 2
  <2>1. CASE a = "alive"
    BY <1>6, <2>1 DEF HNext
  <2>2. CASE a = "ended"
    BY <1>6, <2>2 DEF HNext
  <2>. QED
    BY <2>1, <2>2
<1>9. misses[m] \in 0..2
  BY DEF HistoryInv
<1>10. rows[m].status = "active"
  BY DEF WorkerInv, WorkerSafe, InHand, Candidate
<1>11. rows[m].missingSince # Never => misses[m] >= 1 \/ lost[m]
  <2>1. m \notin KnownAlive(s)
    BY <1>3 DEF KnownAlive
  <2>. QED
    BY <1>10, <2>1 DEF HistoryInv, StrikeInv
<1>12. ASSUME NEW l \in Listings PROVE StrikeInv(l)'
  <2>1. CASE l # m
    <3>1. l \in KnownAlive(s) => l \in KnownAlive(s)'
      BY <1>1, <1>2, <2>1 DEF KnownAlive
    <3>2. StrikeInv(l)
      BY DEF HistoryInv
    <3>. QED
      BY <1>5, <1>7, <2>1, <3>1, <3>2 DEF StrikeInv
  <2>2. CASE l = m /\ a = "alive"
    <3>1. l \in KnownAlive(s)'
      BY <1>2, <2>2 DEF KnownAlive
    <3>. QED
      BY <3>1 DEF StrikeInv
  <2>3. CASE l = m /\ a = "ended"
    <3>1. misses'[l] >= 1
      BY <1>8, <1>9, <2>3
    <3>. QED
      BY <3>1 DEF StrikeInv
  <2>. QED
    BY <2>1, <2>2, <2>3
<1>13. ASSUME NEW l \in Listings PROVE AnswerInv(s, l)'
  <2>1. CASE l # m
    <3>1. AnswerInv(s, l)
      BY DEF HistoryInv
    <3>. QED
      BY <1>2, <1>5, <1>7, <2>1, <3>1 DEF AnswerInv
  <2>2. CASE l = m /\ a = "alive"
    BY <1>2, <2>2 DEF AnswerInv
  <2>3. CASE l = m /\ a = "ended"
    <3>1. misses'[m] >= 1 /\ (misses[m] >= 1 => misses'[m] >= 2)
      BY <1>8, <1>9, <2>3
    <3>. QED
      BY <1>5, <1>11, <2>3, <3>1 DEF AnswerInv
  <2>. QED
    BY <2>1, <2>2, <2>3
<1>. QED
  BY <1>4, <1>12, <1>13, HistoryTypes DEF HistoryInv

LEMMA SightStep ==
  ASSUME HNext, HistoryInv, TypeOK, NEW s \in Slots, \A r \in Slots : r = s,
         StartSearch(s)
  PROVE  HistoryInv'
<1>1. PICK hits \in SUBSET Listings :
        jobs' = [jobs EXCEPT ![s] =
          [Idle EXCEPT !.stage = "searched", !.startedAt = now, !.chosen = hits]]
  BY DEF StartSearch
<1>2. /\ jobs'[s].stage = "searched" /\ jobs'[s].chosen = hits
      /\ jobs'[s].todo = {} /\ \A l \in Listings : jobs'[s].answers[l] = "none"
  BY <1>1 DEF TypeOK, Idle
<1>3. jobs[s].stage = "idle" /\ rows' = rows
  BY DEF StartSearch
<1>4. \A l \in Listings : jobs[s].answers[l] = "none"
  BY <1>3 DEF HistoryInv, JobShape
<1>5. Told("alive") = {} /\ Told("ended") = {} /\ Sighted = hits
  BY <1>2, <1>3 DEF Told, Sighted
<1>6. \A l \in Listings : lost'[l] = lost[l]
  BY <1>2, LostStays
<1>7. JobShape(s)'
  BY <1>2 DEF JobShape
<1>8. ASSUME NEW l \in Listings PROVE StrikeInv(l)'
  <2>1. CASE l \in hits
    <3>1. l \in KnownAlive(s)'
      BY <1>2, <2>1 DEF KnownAlive
    <3>. QED
      BY <3>1 DEF StrikeInv
  <2>2. CASE l \notin hits
    <3>1. misses'[l] = misses[l]
      BY <1>5, <2>2 DEF HNext
    <3>2. l \notin KnownAlive(s)
      BY <1>3, <1>4 DEF KnownAlive
    <3>3. StrikeInv(l)
      BY DEF HistoryInv
    <3>. QED
      BY <1>3, <1>6, <3>1, <3>2, <3>3 DEF StrikeInv
  <2>. QED
    BY <2>1, <2>2
<1>9. \A l \in Listings : AnswerInv(s, l)'
  BY <1>2 DEF AnswerInv
<1>. QED
  BY <1>7, <1>8, <1>9, HistoryTypes DEF HistoryInv


\* The history of a lone worker accounts for every strike and every answer.
LEMMA HistoryStep ==
  ASSUME OneWorker, TypeOK, WorkerInv, HistoryInv, [HNext]_hvars
  PROVE  HistoryInv'
<1>. USE DEF TypeOK
<1>1. CASE UNCHANGED hvars
  BY <1>1 DEF hvars, HistoryInv, JobShape, StrikeInv, AnswerInv, KnownAlive
<1>2. CASE HNext /\ UNCHANGED <<rows, jobs>>
  <2>1. Told("alive") = {} /\ Told("ended") = {} /\ Sighted = {}
    BY <1>2 DEF Told, Sighted
  <2>2. \A l \in Listings : misses'[l] = misses[l] /\ lost'[l] = lost[l]
    BY <1>2, <2>1, MissesStay, LostStays
  <2>. QED
    BY <1>2, <2>2, HistoryTypes
       DEF HistoryInv, JobShape, StrikeInv, AnswerInv, KnownAlive
<1>3. ASSUME HNext, NEW s \in Slots,
             CheckStep(s) \/ SearchStep(s) \/ Crash(s)
      PROVE  HistoryInv'
  <2>0. /\ \A r \in Slots : r = s
        /\ jobs[s] \in Job /\ WorkerSafe(s) /\ JobShape(s)
    BY DEF OneWorker, WorkerInv, HistoryInv
  <2>1. CASE StartCheck(s)
    <3>1. /\ jobs'[s].stage = "retire" /\ jobs'[s].todo = {}
          /\ \A l \in Listings : jobs'[s].answers[l] = "none"
          /\ rows' = rows /\ jobs[s].stage = "idle"
      BY <2>1 DEF StartCheck, Idle
    <3>2. jobs'[s].answers = jobs[s].answers
      <4>1. jobs'[s].answers = [l \in Listings |-> "none"]
        BY <2>1 DEF StartCheck, Idle
      <4>2. jobs[s].answers = [l \in Listings |-> "none"]
        BY <2>0, <3>1 DEF JobShape, Job
      <4>. QED
        BY <4>1, <4>2
    <3>3. KnownAlive(s) = {} /\ JobShape(s)'
      BY <2>0, <3>1 DEF KnownAlive, JobShape
    <3>. QED
      BY <1>3, <2>0, <3>1, <3>2, <3>3, QuietStep
  <2>2. CASE RetireStale(s)
    <3>1. /\ jobs'[s].stage = "budget" /\ jobs'[s].todo = jobs[s].todo
          /\ jobs'[s].answers = jobs[s].answers /\ jobs'[s].chosen = {}
          /\ jobs[s].stage = "retire"
      BY <2>0, <2>2 DEF RetireStale, Job
    <3>2. ASSUME NEW l \in Listings
          PROVE  /\ rows'[l].missingSince = rows[l].missingSince
                 /\ rows'[l].status # "likely_sold" =>
                      rows[l].status # "likely_sold"
      BY <2>0, <2>2, <3>1 DEF RetireStale, Row, WorkerSafe, Retirable
    <3>3. KnownAlive(s) = {} /\ JobShape(s)'
      BY <2>0, <3>1 DEF KnownAlive, JobShape
    <3>. QED
      BY <1>3, <2>0, <3>1, <3>2, <3>3, QuietStep
  <2>3. ASSUME NEW B \in SUBSET Listings, rows' = rows,
               jobs[s].stage = "budget",
               jobs' = [jobs EXCEPT ![s].stage = "items", ![s].todo = B,
                          ![s].loaded = [l \in Listings |->
                             IF l \in B THEN rows[l] ELSE NoRow]]
        PROVE  HistoryInv'
    <3>1. /\ jobs'[s].stage = "items" /\ jobs'[s].todo = B
          /\ jobs'[s].answers = jobs[s].answers
          /\ jobs'[s].chosen = jobs[s].chosen
      BY <2>0, <2>3 DEF Job
    <3>2. \A l \in Listings : jobs[s].answers[l] = "none"
      BY <2>0, <2>3 DEF JobShape
    <3>3. KnownAlive(s) = {} /\ JobShape(s)'
      BY <2>0, <2>3, <3>1, <3>2 DEF KnownAlive, JobShape
    <3>. QED
      BY <1>3, <2>0, <2>3, <3>1, <3>2, <3>3, QuietStep
  <2>4. CASE LoadCandidates(s) /\ jobs' = [jobs EXCEPT ![s] = Idle]
    <3>1. jobs'[s] = Idle /\ rows' = rows /\ jobs[s].stage = "budget"
      BY <2>4 DEF LoadCandidates
    <3>2. KnownAlive(s) = {}
      BY <2>0, <3>1 DEF KnownAlive, JobShape
    <3>3. ~CommitCheck(s) /\ ~CommitSearch(s)
      BY <3>1 DEF CommitCheck, CommitSearch
    <3>. QED
      BY <1>3, <2>0, <3>1, <3>2, <3>3, RollbackStep
  <2>5. CASE LoadCandidates(s)
    BY <2>3, <2>4, <2>5 DEF LoadCandidates
  <2>6. ASSUME NEW m \in Listings, NEW a \in Answers, ItemAnswered(s, m, a)
        PROVE  HistoryInv'
    <3>1. a \in {"alive", "ended"}
      BY <2>6 DEF ItemAnswered, AnswersFor
    <3>. QED
      BY <1>3, <2>0, <2>6, <3>1, AnswerStep DEF ItemAnswered, IsNext
  <2>7. CASE QuotaRunsOut(s)
    <3>1. /\ jobs'[s].stage = "items" /\ jobs'[s].todo = {}
          /\ jobs'[s].answers = jobs[s].answers
          /\ jobs'[s].chosen = jobs[s].chosen
          /\ rows' = rows /\ jobs[s].stage = "items"
      BY <2>0, <2>7 DEF QuotaRunsOut, Job
    <3>2. KnownAlive(s)' = KnownAlive(s) /\ JobShape(s)'
      BY <2>0, <3>1 DEF KnownAlive, JobShape
    <3>. QED
      BY <1>3, <2>0, <3>1, <3>2, QuietStep
  <2>8. CASE CommitCheck(s)
    BY <1>3, <2>0, <2>8, CheckCommitStep
  <2>9. CASE StartSearch(s)
    BY <1>3, <2>0, <2>9, SightStep
  <2>10. CASE LoadPage(s)
    <3>1. /\ jobs'[s].stage = "page" /\ jobs'[s].todo = jobs[s].todo
          /\ jobs'[s].answers = jobs[s].answers
          /\ jobs'[s].chosen = jobs[s].chosen
          /\ rows' = rows /\ jobs[s].stage = "searched"
      BY <2>0, <2>10 DEF LoadPage, Job
    <3>2. KnownAlive(s)' = KnownAlive(s) /\ JobShape(s)'
      BY <2>0, <3>1 DEF KnownAlive, JobShape
    <3>. QED
      BY <1>3, <2>0, <3>1, <3>2, QuietStep
  <2>11. CASE CommitSearch(s)
    BY <1>3, <2>0, <2>11, SearchCommitStep
  <2>12. CASE ItemFails(s) \/ FailSearch(s) \/ Crash(s)
    <3>1. jobs'[s] = Idle /\ rows' = rows
      BY <2>12 DEF ItemFails, FailSearch, Crash
    <3>2. KnownAlive(s) \subseteq RolledBack
      BY <2>12 DEF RolledBack
    <3>3. CASE CommitCheck(s) \/ CommitSearch(s)
      BY <1>3, <2>0, <3>3, CheckCommitStep, SearchCommitStep
    <3>4. CASE ~CommitCheck(s) /\ ~CommitSearch(s)
      BY <1>3, <2>0, <3>1, <3>2, <3>4, RollbackStep
    <3>. QED
      BY <3>3, <3>4
  <2>. QED
    BY <1>3, <2>1, <2>2, <2>5, <2>6, <2>7, <2>8, <2>9, <2>10, <2>11, <2>12
       DEF CheckStep, SearchStep
<1>. QED
  BY <1>1, <1>2, <1>3 DEF HNext, Next, Tick, PutUp, TakeDown

\* The history variables restrict nothing: they ride on a behaviour of Spec.
LEMMA HistoryRides ==
  /\ HInit => Init
  /\ [HNext]_hvars => [Next]_vars
BY DEF HInit, HNext, hvars, vars

\* With one worker, HistoryInv is an invariant.
THEOREM HistoryCorrect ==
  ASSUME OneWorker
  PROVE  HSpec => [](TypeOK /\ WorkerInv /\ TableInv /\ HistoryInv)
<1>1. Init => TypeOK
  <2>1. 0 \in Times
    BY SettingsAssumption DEF Times
  <2>. QED
    BY <2>1, IdleType DEF Init, TypeOK, NoRow, Row, Statuses, Never
<1>2. HInit => TypeOK /\ WorkerInv /\ TableInv /\ HistoryInv
  BY <1>1, HistoryRides, WorkerInitially, HistoryStart
<1>3. TypeOK /\ WorkerInv /\ TableInv /\ HistoryInv /\ [HNext]_hvars =>
        (TypeOK /\ WorkerInv /\ TableInv /\ HistoryInv)'
  BY HistoryRides, TypeStep, WorkerStep, TableStep, HistoryStep
<1>. QED
  BY <1>2, <1>3, PTL DEF HSpec

\* Only the commit of a pass records a sale, of a struck row that it was told
\* is gone.
LEMMA SaleIsConfirmed ==
  ASSUME OneWorker, TypeOK, WorkerInv, Next, NEW l \in Listings, RecordsSale(l)
  PROVE  \E s \in Slots : /\ jobs[s].stage = "items"
                          /\ jobs[s].answers[l] = "ended"
                          /\ rows[l].missingSince # Never
<1>. USE DEF TypeOK
<1>1. rows[l] \in Row /\ rows'[l] # rows[l]
  BY DEF RecordsSale
<1>2. PICK s \in Slots : RetireStale(s) \/ CommitCheck(s) \/ CommitSearch(s)
  BY <1>1 DEF Next, CheckStep, SearchStep, Tick, PutUp, TakeDown, StartCheck,
     LoadCandidates, ItemAnswered, QuotaRunsOut, ItemFails, StartSearch,
     LoadPage, FailSearch, Crash
<1>3. jobs[s].answers[l] \in Answers /\ jobs[s].startedAt \in Times
  BY DEF Job
<1>4. CASE RetireStale(s)
  BY <1>1, <1>4 DEF RetireStale, RecordsSale, Row
<1>5. CASE CommitSearch(s)
  <2>1. rows'[l] = Refreshed(rows[l], jobs[s].startedAt)
    BY <1>1, <1>5, SearchCommits
  <2>. QED
    BY <1>1, <1>3, <2>1, RefreshedFields DEF RecordsSale
<1>6. CASE CommitCheck(s)
  <2>1. rows'[l] = Judge(rows[l], jobs[s].answers[l], jobs[s].startedAt)
    BY <1>6, CheckCommits
  <2>2. jobs[s].answers[l] # "none"
    BY <1>1, <2>1, JudgeStrike
  <2>3. jobs[s].answers[l] # "alive"
    BY <1>1, <2>1 DEF RecordsSale, Judge, Row
  <2>. QED
    BY <1>1, <1>3, <1>6, <2>1, <2>2, <2>3, JudgeStrike
       DEF RecordsSale, Answers, CommitCheck
<1>. QED
  BY <1>2, <1>4, <1>5, <1>6

\* With one worker, a sale recorded after fewer than two misses in a row is
\* one whose listing a rolled-back job had learnt to be alive.
THEOREM MissesAreLostOnlyInRollbacks ==
  ASSUME OneWorker
  PROVE  HSpec => OneMissOnlyAfterLostNews
<1>1. ASSUME TypeOK, WorkerInv, HistoryInv, [HNext]_hvars
      PROVE  [\A l \in Listings :
                RecordsSale(l) => misses[l] >= 2 \/ lost[l]]_hvars
  <2>. SUFFICES ASSUME HNext, NEW l \in Listings, RecordsSale(l)
                PROVE  misses[l] >= 2 \/ lost[l]
    BY <1>1
  <2>1. PICK s \in Slots : /\ jobs[s].stage = "items"
                           /\ jobs[s].answers[l] = "ended"
                           /\ rows[l].missingSince # Never
    BY <1>1, SaleIsConfirmed DEF HNext
  <2>. QED
    BY <1>1, <2>1 DEF HistoryInv, AnswerInv
<1>. QED
  BY <1>1, HistoryCorrect, PTL DEF HSpec, OneMissOnlyAfterLostNews

\* Where nothing is rolled back, no news is ever lost.
NothingLost == \A l \in Listings : ~lost[l]

LEMMA NothingLostStep ==
  ASSUME Faults \subseteq {"blip", "quota"}, OneWorker, WorkerInv, HistoryInv,
         NothingLost, [HNext]_hvars
  PROVE  NothingLost'
<1>1. ASSUME NEW s \in Slots PROVE ~(ItemFails(s) \/ FailSearch(s) \/ Crash(s))
  <2>1. ~ItemFails(s) /\ ~Crash(s)
    BY DEF ItemFails, Crash
  <2>2. ASSUME FailSearch(s) PROVE FALSE
    <3>1. jobs[s].stage = "page" /\ Collisions(s) # {}
      BY <2>2 DEF FailSearch
    <3>2. PICK l \in jobs[s].chosen : /\ jobs[s].loaded[l].status = "absent"
                                      /\ rows[l].status # "absent"
      BY <3>1 DEF Collisions
    <3>. QED
      BY <3>1, <3>2 DEF WorkerInv, WorkerSafe
  <2>. QED
    BY <2>1, <2>2
<1>2. RolledBack = {}
  BY <1>1 DEF RolledBack
<1>3. CASE HNext
  BY <1>2, <1>3 DEF HNext, NothingLost
<1>4. CASE UNCHANGED hvars
  BY <1>4 DEF hvars, NothingLost
<1>. QED
  BY <1>3, <1>4

\* models.py, missing_since: "A second consecutive failure is what actually
\* marks it likely_sold".  One worker whose passes and searches are never
\* rolled back keeps to that, however often a live listing reads as ended and
\* wherever the quota cuts a pass short.
THEOREM SalesTakeTwoMisses ==
  ASSUME OneWorker, Faults \subseteq {"blip", "quota"}
  PROVE  HSpec => TwoConsecutiveMisses
<1>1. HInit => NothingLost
  BY DEF HInit, NothingLost
<1>2. WorkerInv /\ HistoryInv /\ NothingLost /\ [HNext]_hvars => NothingLost'
  BY NothingLostStep
<1>3. HSpec => []NothingLost
  BY <1>1, <1>2, HistoryCorrect, PTL DEF HSpec
<1>4. ASSUME NothingLost,
             [\A l \in Listings :
                RecordsSale(l) => misses[l] >= 2 \/ lost[l]]_hvars
      PROVE  [\A l \in Listings : RecordsSale(l) => misses[l] >= 2]_hvars
  BY <1>4 DEF NothingLost
<1>. QED
  BY <1>3, <1>4, MissesAreLostOnlyInRollbacks, PTL
     DEF OneMissOnlyAfterLostNews, TwoConsecutiveMisses

-----------------------------------------------------------------------------
(***************************************************************************)
(* What a miss is worth: without misreadings, every sale is a real one.    *)
(***************************************************************************)

\* A recorded sale is of a listing that is gone.
SalesAreReal ==
  \A l \in Listings : rows[l].status = "likely_sold" => market[l] = "ended"

\* What is known of a listing began with a sighting, and is about a listing
\* that is gone where the answer says so.
RealInv ==
  /\ SalesAreReal
  /\ \A l \in Listings : rows[l].status # "absent" => market[l] # "unlisted"
  /\ \A s \in Slots :
       /\ \A l \in jobs[s].chosen \cup jobs[s].todo : market[l] # "unlisted"
       /\ \A l \in Listings :
            jobs[s].answers[l] = "ended" => market[l] = "ended"

\* A commit of the check writes no status but likely_sold.
LEMMA CheckWrites ==
  ASSUME TypeOK, NEW s \in Slots, CommitCheck(s), NEW l \in Listings
  PROVE  \/ rows'[l].status = rows[l].status
         \/ rows'[l].status = "likely_sold" /\ jobs[s].answers[l] = "ended"
<1>. DEFINE was == jobs[s].loaded[l]
            mine == Judge(was, jobs[s].answers[l], jobs[s].startedAt)
<1>1. was \in Row /\ rows[l] \in Row /\ jobs[s].answers[l] \in Answers
      /\ jobs[s].startedAt \in Times
  BY DEF TypeOK, Job
<1>2. rows'[l] = Merge(was, mine, rows[l])
  BY DEF CommitCheck
<1>3. \/ mine.status = was.status
      \/ mine.status = "likely_sold" /\ jobs[s].answers[l] = "ended"
  BY <1>1 DEF Judge, Row, Answers
<1>4. rows'[l].status = IF mine.status # was.status THEN mine.status
                        ELSE rows[l].status
  <2>. HIDE DEF was, mine
  <2>. QED
    BY <1>1, <1>2 DEF Merge, Row
<1>. QED
  BY <1>3, <1>4

\* A commit of a search writes no status but active, and on its hits alone.
LEMMA SearchWrites ==
  ASSUME TypeOK, NEW s \in Slots, CommitSearch(s), NEW l \in Listings
  PROVE  \/ rows'[l].status = rows[l].status
         \/ rows'[l].status = "active" /\ l \in jobs[s].chosen
<1>. DEFINE was == jobs[s].loaded[l]
            mine == Refreshed(was, jobs[s].startedAt)
<1>1. was \in Row /\ rows[l] \in Row /\ jobs[s].startedAt \in Times
  BY DEF TypeOK, Job
<1>2. CASE l \in jobs[s].chosen
  <2>1. rows'[l] = Merge(was, mine, rows[l])
    BY <1>2 DEF CommitSearch
  <2>2. mine.status = was.status \/ mine.status = "active"
    BY <1>1, RefreshedFields
  <2>3. rows'[l].status = IF mine.status # was.status THEN mine.status
                          ELSE rows[l].status
    <3>. HIDE DEF was, mine
    <3>. QED
      BY <1>1, <2>1 DEF Merge, Row
  <2>. QED
    BY <1>2, <2>2, <2>3
<1>3. CASE l \notin jobs[s].chosen
  BY <1>3 DEF CommitSearch
<1>. QED
  BY <1>2, <1>3

LEMMA RealStep ==
  ASSUME "blip" \notin Faults, TypeOK, RealInv, [Next]_vars
  PROVE  RealInv'
<1>. USE DEF TypeOK
<1>1. CASE UNCHANGED <<market, rows, jobs>>
  BY <1>1 DEF RealInv, SalesAreReal
<1>2. ASSUME NEW m \in Listings, PutUp(m) \/ TakeDown(m) PROVE RealInv'
  <2>1. /\ rows' = rows /\ jobs' = jobs
        /\ \A l \in Listings : /\ market[l] # "unlisted" => market'[l] # "unlisted"
                               /\ market[l] = "ended" => market'[l] = "ended"
    BY <1>2 DEF PutUp, TakeDown
  <2>. QED
    BY <2>1 DEF RealInv, SalesAreReal, Job
<1>3. ASSUME NEW s \in Slots, jobs' = [jobs EXCEPT ![s] = Idle],
             UNCHANGED <<market, rows>>
      PROVE  RealInv'
  BY <1>3 DEF RealInv, SalesAreReal, Idle
<1>4. ASSUME NEW s \in Slots, StartCheck(s) PROVE RealInv'
  <2>1. /\ jobs'[s].chosen = {l \in Listings : Retirable(rows[l], now)}
        /\ jobs'[s].todo = {}
        /\ \A l \in Listings : jobs'[s].answers[l] = "none"
        /\ \A r \in Slots \ {s} : jobs'[r] = jobs[r]
        /\ UNCHANGED <<market, rows>>
    BY <1>4 DEF StartCheck, Idle
  <2>. QED
    BY <2>1 DEF RealInv, SalesAreReal, Retirable
<1>5. ASSUME NEW s \in Slots, RetireStale(s) PROVE RealInv'
  <2>1. /\ jobs'[s].chosen = {} /\ jobs'[s].todo = jobs[s].todo
        /\ jobs'[s].answers = jobs[s].answers
        /\ \A r \in Slots \ {s} : jobs'[r] = jobs[r]
        /\ UNCHANGED market
    BY <1>5 DEF RetireStale, Job
  <2>2. ASSUME NEW l \in Listings
        PROVE  rows'[l].status = rows[l].status \/
                 (rows'[l].status = "stale" /\ l \in jobs[s].chosen)
    BY <1>5 DEF RetireStale, Row
  <2>. QED
    BY <2>1, <2>2 DEF RealInv, SalesAreReal
<1>6. ASSUME NEW s \in Slots, NEW B \in SUBSET Listings,
             \A l \in B : Candidate(rows[l], jobs[s].startedAt),
             jobs' = [jobs EXCEPT ![s].stage = "items", ![s].todo = B,
                        ![s].loaded = [l \in Listings |->
                           IF l \in B THEN rows[l] ELSE NoRow]],
             UNCHANGED <<market, rows>>
      PROVE  RealInv'
  <2>1. /\ jobs'[s].chosen = jobs[s].chosen /\ jobs'[s].todo = B
        /\ jobs'[s].answers = jobs[s].answers
        /\ \A r \in Slots \ {s} : jobs'[r] = jobs[r]
    BY <1>6 DEF Job
  <2>. QED
    BY <1>6, <2>1 DEF RealInv, SalesAreReal, Candidate
<1>7. ASSUME NEW s \in Slots, LoadCandidates(s) PROVE RealInv'
  <2>1. UNCHANGED <<market, rows>>
    BY <1>7 DEF LoadCandidates
  <2>2. CASE jobs' = [jobs EXCEPT ![s] = Idle]
    BY <1>3, <2>1, <2>2
  <2>3. CASE jobs' # [jobs EXCEPT ![s] = Idle]
    <3>1. PICK B \in SUBSET {l \in Listings : Candidate(rows[l], jobs[s].startedAt)} :
            jobs' = [jobs EXCEPT ![s].stage = "items", ![s].todo = B,
                       ![s].loaded = [l \in Listings |->
                          IF l \in B THEN rows[l] ELSE NoRow]]
      BY <1>7, <2>3 DEF LoadCandidates
    <3>. QED
      BY <1>6, <2>1, <3>1
  <2>. QED
    BY <2>2, <2>3
<1>8. ASSUME NEW s \in Slots, NEW m \in Listings, NEW a \in Answers,
             ItemAnswered(s, m, a)
      PROVE  RealInv'
  <2>1. /\ jobs'[s].chosen = jobs[s].chosen
        /\ jobs'[s].todo = jobs[s].todo \ {m}
        /\ jobs'[s].answers = [jobs[s].answers EXCEPT ![m] = a]
        /\ \A r \in Slots \ {s} : jobs'[r] = jobs[r]
        /\ UNCHANGED <<market, rows>> /\ m \in jobs[s].todo
    BY <1>8 DEF ItemAnswered, IsNext, Job
  <2>2. market[m] # "live" => market[m] = "ended"
    BY <2>1 DEF RealInv
  <2>3. a = "ended" => market[m] = "ended"
    BY <1>8, <2>2 DEF ItemAnswered, AnswersFor
  <2>4. \A l \in Listings : jobs'[s].answers[l] = "ended" => market[l] = "ended"
    BY <2>1, <2>3 DEF RealInv, Job
  <2>5. \A l \in jobs'[s].chosen \cup jobs'[s].todo : market[l] # "unlisted"
    BY <2>1 DEF RealInv
  <2>6. ASSUME NEW r \in Slots
        PROVE  /\ \A l \in jobs'[r].chosen \cup jobs'[r].todo :
                    market'[l] # "unlisted"
               /\ \A l \in Listings :
                    jobs'[r].answers[l] = "ended" => market'[l] = "ended"
    <3>1. CASE r = s
      BY <2>1, <2>4, <2>5, <3>1
    <3>2. CASE r # s
      BY <2>1, <3>2 DEF RealInv
    <3>. QED
      BY <3>1, <3>2
  <2>7. SalesAreReal' /\ \A l \in Listings :
          rows'[l].status # "absent" => market'[l] # "unlisted"
    BY <2>1 DEF RealInv, SalesAreReal
  <2>. QED
    BY <2>6, <2>7 DEF RealInv
<1>9. ASSUME NEW s \in Slots, QuotaRunsOut(s) \/ LoadPage(s) PROVE RealInv'
  <2>1. /\ jobs'[s].chosen = jobs[s].chosen
        /\ jobs'[s].todo \subseteq jobs[s].todo
        /\ jobs'[s].answers = jobs[s].answers
        /\ \A r \in Slots \ {s} : jobs'[r] = jobs[r]
        /\ UNCHANGED <<market, rows>>
    BY <1>9 DEF QuotaRunsOut, LoadPage, Job
  <2>. QED
    BY <2>1 DEF RealInv, SalesAreReal
<1>10. ASSUME NEW s \in Slots, StartSearch(s) PROVE RealInv'
  <2>1. PICK hits \in SUBSET {l \in Listings : market[l] = "live"} :
          jobs' = [jobs EXCEPT ![s] =
            [Idle EXCEPT !.stage = "searched", !.startedAt = now, !.chosen = hits]]
    BY <1>10 DEF StartSearch
  <2>2. /\ jobs'[s].chosen = hits /\ jobs'[s].todo = {}
        /\ \A l \in Listings : jobs'[s].answers[l] = "none"
        /\ \A r \in Slots \ {s} : jobs'[r] = jobs[r]
        /\ UNCHANGED <<market, rows>>
    BY <1>10, <2>1 DEF StartSearch, Idle
  <2>. QED
    BY <2>2 DEF RealInv, SalesAreReal
<1>11. ASSUME NEW s \in Slots, CommitCheck(s) \/ CommitSearch(s)
       PROVE  RealInv'
  <2>1. /\ UNCHANGED market
        /\ \A r \in Slots : jobs'[r] = IF r = s THEN Idle ELSE jobs[r]
    BY <1>11 DEF CommitCheck, CommitSearch
  <2>2. ASSUME NEW l \in Listings
        PROVE  \/ rows'[l].status = rows[l].status
               \/ rows'[l].status = "likely_sold" /\ market[l] = "ended"
               \/ rows'[l].status = "active" /\ market[l] # "unlisted"
    <3>1. CASE CommitCheck(s)
      BY <3>1, CheckWrites DEF RealInv
    <3>2. CASE CommitSearch(s)
      BY <3>2, SearchWrites DEF RealInv
    <3>. QED
      BY <1>11, <3>1, <3>2
  <2>3. SalesAreReal' /\ \A l \in Listings :
          rows'[l].status # "absent" => market'[l] # "unlisted"
    BY <2>1, <2>2 DEF RealInv, SalesAreReal
  <2>. QED
    BY <2>1, <2>3 DEF RealInv, Idle
<1>. QED
  BY <1>1, <1>2, <1>3, <1>4, <1>5, <1>7, <1>8, <1>9, <1>10, <1>11
     DEF Next, vars, CheckStep, SearchStep, Tick, ItemFails, FailSearch, Crash

\* Where eBay never misreads a live listing as ended, no sale is recorded of a
\* listing that is still up: however many checks and searches overlap, on
\* copies however old, and whatever fails.
THEOREM SalesWithoutBlipsAreReal ==
  ASSUME "blip" \notin Faults
  PROVE  Spec => []SalesAreReal
<1>1. Init => RealInv
  BY DEF Init, RealInv, SalesAreReal, NoRow, Idle
<1>2. TypeOK /\ RealInv /\ [Next]_vars => RealInv'
  BY RealStep
<1>3. RealInv => SalesAreReal
  BY DEF RealInv
<1>. QED
  BY <1>1, <1>2, <1>3, TypeCorrect, PTL DEF Spec

-----------------------------------------------------------------------------
(***************************************************************************)
(* Jobs that overlap, in any number of processes: what a job holds of a    *)
(* listing is the row itself unless another job has committed the listing  *)
(* since.                                                                  *)
(***************************************************************************)
CopySafe(s) ==
  /\ jobs[s].stage # "idle" => jobs[s].startedAt <= now
  /\ jobs[s].stage \in {"retire", "budget"} => InHand(s) = {}
  /\ jobs[s].stage = "retire" =>
       \A l \in jobs[s].chosen \ behind[s] : Retirable(rows[l], jobs[s].startedAt)
  /\ jobs[s].stage = "items" =>
       \A l \in InHand(s) \ behind[s] : /\ jobs[s].loaded[l] = rows[l]
                                        /\ Candidate(rows[l], jobs[s].startedAt)
  /\ jobs[s].stage = "page" =>
       \A l \in jobs[s].chosen \ behind[s] : jobs[s].loaded[l] = rows[l]

CopyInv == \A s \in Slots : CopySafe(s)

RacesExplain == HiddenInSightIsRaced /\ StaleStrikeIsRaced

LEMMA CopyInitially == OInit => CopyInv /\ RacesExplain
BY DEF OInit, Init, CopyInv, CopySafe, Idle, NoRow, RacesExplain,
   HiddenInSightIsRaced, StaleStrikeIsRaced

\* A job that waits while another commits has its copies, but for the rows
\* that commit changed.
LEMMA CopyOthers ==
  ASSUME TypeOK, ONext, NEW r \in Slots, CopySafe(r), jobs'[r] = jobs[r],
         now \in Int, now' \in Int, now <= now'
  PROVE  CopySafe(r)'
<1>1. jobs[r].stage \in Reading =>
        behind'[r] = behind[r] \cup {l \in Listings : rows'[l] # rows[l]}
  BY DEF ONext
<1>2. jobs[r].startedAt \in Int
  BY DEF TypeOK, Job, Times
<1>3. jobs[r].chosen \subseteq Listings /\ InHand(r) \subseteq Listings
  BY DEF TypeOK, Job, InHand
<1>4. InHand(r)' = InHand(r)
  BY DEF InHand
<1>5. (jobs[r].stage # "idle" => jobs[r].startedAt <= now)'
  BY <1>2 DEF CopySafe
<1>6. (jobs[r].stage = "retire" =>
         \A l \in jobs[r].chosen \ behind[r] :
           Retirable(rows[l], jobs[r].startedAt))'
  BY <1>1, <1>3 DEF CopySafe, Reading, Retirable
<1>7. (jobs[r].stage = "items" =>
         \A l \in InHand(r) \ behind[r] :
           /\ jobs[r].loaded[l] = rows[l]
           /\ Candidate(rows[l], jobs[r].startedAt))'
  BY <1>1, <1>3, <1>4 DEF CopySafe, Reading, Candidate
<1>8. (jobs[r].stage = "page" =>
         \A l \in jobs[r].chosen \ behind[r] : jobs[r].loaded[l] = rows[l])'
  BY <1>1, <1>3 DEF CopySafe, Reading
<1>. QED
  BY <1>4, <1>5, <1>6, <1>7, <1>8 DEF CopySafe

\* A slot that goes idle holds nothing.
LEMMA CopyIdle ==
  ASSUME NEW s \in Slots, jobs'[s] = Idle
  PROVE  CopySafe(s)'
BY DEF CopySafe, Idle

\* A job's copies are fresh when it reads them and stay with it while it works.
LEMMA CopyStep ==
  ASSUME TypeOK, CopyInv, [ONext]_ovars
  PROVE  CopyInv'
<1>. SUFFICES ASSUME NEW r \in Slots PROVE CopySafe(r)'
  BY DEF CopyInv
<1>0. CopySafe(r) /\ now \in Int /\ r \in DOMAIN jobs
  BY DEF CopyInv, TypeOK, Times
<1>1. CASE UNCHANGED ovars
  BY <1>0, <1>1 DEF ovars, CopySafe, InHand, Retirable, Candidate
<1>. SUFFICES ASSUME ONext PROVE CopySafe(r)'
  BY <1>1
<1>2. now' \in Int /\ now <= now'
  BY ClockStep DEF ONext
<1>3. CASE jobs'[r] = jobs[r]
  BY <1>0, <1>2, <1>3, CopyOthers
<1>4. CASE jobs'[r] = Idle
  BY <1>4, CopyIdle
<1>5. CASE StartCheck(r)
  <2>. DEFINE C == {l \in Listings : Retirable(rows[l], now)}
  <2>1. jobs'[r] = [Idle EXCEPT !.stage = "retire", !.startedAt = now, !.chosen = C]
    BY <1>0, <1>5 DEF StartCheck
  <2>2. UNCHANGED <<rows, now>>
    BY <1>5 DEF StartCheck
  <2>3. /\ jobs'[r].stage = "retire" /\ jobs'[r].startedAt = now
        /\ jobs'[r].chosen = C
    <3>. HIDE DEF C
    <3>. QED
      BY <2>1 DEF Idle
  <2>4. InHand(r)' = {}
    <3>. HIDE DEF C
    <3>. QED
      BY <2>1 DEF Idle, InHand
  <2>5. \A l \in jobs'[r].chosen : Retirable(rows'[l], jobs'[r].startedAt)
    BY <2>2, <2>3
  <2>6. now \in Int
    BY <1>0
  <2>. QED
    BY <2>2, <2>3, <2>4, <2>5, <2>6 DEF CopySafe
<1>6. CASE RetireStale(r)
  <2>1. /\ jobs[r] \in Job /\ jobs[r].stage = "retire"
        /\ jobs'[r] = [jobs[r] EXCEPT !.stage = "budget", !.chosen = {}]
        /\ now' = now
    BY <1>0, <1>6 DEF RetireStale, TypeOK
  <2>2. /\ jobs'[r].stage = "budget" /\ jobs'[r].startedAt = jobs[r].startedAt
        /\ jobs'[r].todo = jobs[r].todo /\ jobs'[r].answers = jobs[r].answers
    BY <2>1 DEF Job
  <2>3. InHand(r)' = InHand(r)
    BY <2>2 DEF InHand
  <2>. QED
    BY <1>0, <2>1, <2>2, <2>3 DEF CopySafe
<1>7. CASE LoadCandidates(r)
  <2>. DEFINE C == {l \in Listings : Candidate(rows[l], jobs[r].startedAt)}
              Loads(B) == [jobs EXCEPT ![r].stage = "items", ![r].todo = B,
                             ![r].loaded = [l \in Listings |->
                                              IF l \in B THEN rows[l] ELSE NoRow]]
  <2>1. jobs' = [jobs EXCEPT ![r] = Idle] \/ \E B \in SUBSET C : jobs' = Loads(B)
    BY <1>7 DEF LoadCandidates
  <2>2. CASE jobs' = [jobs EXCEPT ![r] = Idle]
    BY <1>0, <1>4, <2>2
  <2>3. ASSUME NEW B \in SUBSET C, jobs' = Loads(B) PROVE CopySafe(r)'
    <3>1. /\ jobs[r] \in Job /\ jobs[r].stage = "budget"
          /\ jobs'[r] = [jobs[r] EXCEPT !.stage = "items", !.todo = B,
                           !.loaded = [l \in Listings |->
                                         IF l \in B THEN rows[l] ELSE NoRow]]
          /\ UNCHANGED <<rows, now>>
      BY <1>0, <1>7, <2>3 DEF LoadCandidates, TypeOK
    <3>2. /\ jobs'[r].stage = "items" /\ jobs'[r].startedAt = jobs[r].startedAt
          /\ jobs'[r].todo = B /\ jobs'[r].answers = jobs[r].answers
          /\ \A l \in B : jobs'[r].loaded[l] = rows[l]
      BY <3>1 DEF Job
    <3>3. \A l \in InHand(r)' : l \in B
      BY <1>0, <3>1, <3>2 DEF CopySafe, InHand
    <3>. QED
      BY <1>0, <3>1, <3>2, <3>3 DEF CopySafe, Candidate
  <2>. QED
    BY <2>1, <2>2, <2>3
<1>8. ASSUME NEW l \in Listings, NEW a \in Answers, ItemAnswered(r, l, a)
      PROVE  CopySafe(r)'
  <2>1. /\ jobs'[r].stage = "items" /\ jobs'[r].startedAt = jobs[r].startedAt
        /\ jobs'[r].loaded = jobs[r].loaded /\ jobs[r].stage = "items"
        /\ UNCHANGED <<rows, now>>
    BY <1>8 DEF ItemAnswered, TypeOK
  <2>2. InHand(r)' \subseteq InHand(r)
    BY <1>8 DEF ItemAnswered, InHand, IsNext, TypeOK, Job
  <2>3. behind'[r] = behind[r]
    BY <2>1 DEF ONext, Reading
  <2>. QED
    BY <1>0, <2>1, <2>2, <2>3 DEF CopySafe, Candidate
<1>9. CASE QuotaRunsOut(r)
  <2>1. /\ jobs'[r].stage = "items" /\ jobs'[r].startedAt = jobs[r].startedAt
        /\ jobs'[r].loaded = jobs[r].loaded /\ jobs[r].stage = "items"
        /\ UNCHANGED <<rows, now>>
    BY <1>9 DEF QuotaRunsOut, TypeOK
  <2>2. InHand(r)' \subseteq InHand(r)
    BY <1>9 DEF QuotaRunsOut, InHand, TypeOK, Job
  <2>3. behind'[r] = behind[r]
    BY <2>1 DEF ONext, Reading
  <2>. QED
    BY <1>0, <2>1, <2>2, <2>3 DEF CopySafe, Candidate
<1>10. CASE StartSearch(r)
  <2>1. PICK hits \in SUBSET {l \in Listings : market[l] = "live"} :
          jobs' = [jobs EXCEPT ![r] =
            [Idle EXCEPT !.stage = "searched", !.startedAt = now, !.chosen = hits]]
    BY <1>10 DEF StartSearch
  <2>2. jobs'[r].stage = "searched" /\ jobs'[r].startedAt = now /\ now' = now
    BY <1>0, <1>10, <2>1 DEF StartSearch, Idle
  <2>. QED
    BY <1>0, <2>2 DEF CopySafe
<1>11. CASE LoadPage(r)
  <2>1. /\ jobs[r] \in Job /\ jobs[r].stage = "searched"
        /\ jobs'[r] = [jobs[r] EXCEPT !.stage = "page",
                         !.loaded = [l \in Listings |->
                            IF l \in jobs[r].chosen THEN rows[l] ELSE NoRow]]
        /\ UNCHANGED <<rows, now>>
    BY <1>0, <1>11 DEF LoadPage, TypeOK
  <2>2. /\ jobs'[r].stage = "page" /\ jobs'[r].startedAt = jobs[r].startedAt
        /\ jobs'[r].chosen = jobs[r].chosen /\ jobs[r].chosen \subseteq Listings
        /\ \A l \in jobs[r].chosen : jobs'[r].loaded[l] = rows[l]
    BY <2>1 DEF Job
  <2>. QED
    BY <1>0, <2>1, <2>2 DEF CopySafe
<1>12. ASSUME NEW s \in Slots, s # r, CheckStep(s) \/ SearchStep(s) \/ Crash(s)
       PROVE  jobs'[r] = jobs[r]
  <2>1. CASE LoadCandidates(s)
    BY <1>0, <1>12, <2>1 DEF LoadCandidates
  <2>2. CASE \E l \in Listings, a \in Answers : ItemAnswered(s, l, a)
    BY <1>0, <1>12, <2>2 DEF ItemAnswered
  <2>3. CASE StartSearch(s)
    BY <1>0, <1>12, <2>3 DEF StartSearch
  <2>4. CASE StartCheck(s) \/ RetireStale(s) \/ QuotaRunsOut(s) \/ LoadPage(s)
    BY <1>0, <1>12, <2>4 DEF StartCheck, RetireStale, QuotaRunsOut, LoadPage
  <2>5. CASE ItemFails(s) \/ CommitCheck(s) \/ CommitSearch(s) \/ FailSearch(s) \/ Crash(s)
    BY <1>0, <1>12, <2>5
       DEF ItemFails, CommitCheck, CommitSearch, FailSearch, Crash
  <2>. QED
    BY <1>12, <2>1, <2>2, <2>3, <2>4, <2>5 DEF CheckStep, SearchStep
<1>13. CASE ItemFails(r) \/ CommitCheck(r) \/ CommitSearch(r) \/ FailSearch(r) \/ Crash(r)
  BY <1>0, <1>4, <1>13 DEF ItemFails, CommitCheck, CommitSearch, FailSearch, Crash
<1>14. CASE Tick \/ \E l \in Listings : PutUp(l) \/ TakeDown(l)
  BY <1>3, <1>14 DEF Tick, PutUp, TakeDown
<1>. QED
  BY <1>3, <1>5, <1>6, <1>7, <1>8, <1>9, <1>10, <1>11, <1>12, <1>13, <1>14
     DEF ONext, Next, CheckStep, SearchStep

\* A row that a commit leaves unmarked is not written from an old copy.
LEMMA UnmarkedIsCurrent ==
  ASSUME ONext, NEW s \in Slots, NEW l \in Holds(s), l \notin raced',
         RetireStale(s) \/ CommitCheck(s) \/ CommitSearch(s)
  PROVE  l \notin behind[s]
BY DEF ONext

\* A commit that is not behind keeps the row's news in order, and one that is
\* behind marks the row.
LEMMA RacesStep ==
  ASSUME TypeOK, CopyInv, RacesExplain, [ONext]_ovars
  PROVE  RacesExplain'
<1>1. CASE UNCHANGED ovars
  BY <1>1 DEF ovars, RacesExplain, HiddenInSightIsRaced, StaleStrikeIsRaced
<1>. SUFFICES ASSUME ONext PROVE RacesExplain'
  BY <1>1
<1>. SUFFICES ASSUME NEW l \in Listings, l \notin raced'
              PROVE  /\ rows'[l].status = "stale" =>
                          rows'[l].lastSeen < now' - UnseenAfter
                     /\ rows'[l].missingSince # Never =>
                          rows'[l].lastSeen < rows'[l].missingSince
  BY DEF RacesExplain, HiddenInSightIsRaced, StaleStrikeIsRaced
<1>2. /\ rows[l] \in Row /\ now \in Int /\ now' \in Int /\ now <= now'
      /\ UnseenAfter \in Int /\ ProvenAlive \in Nat
  <2>1. now' \in Int /\ now <= now'
    BY ClockStep DEF ONext
  <2>. QED
    BY <2>1, SettingsAssumption DEF TypeOK, Times
<1>3. ASSUME NEW s \in Slots, CommitSearch(s), l \in Holds(s)
      PROVE  rows'[l].status # "stale" /\ rows'[l].missingSince = Never
  <2>1. l \in jobs[s].chosen
    BY <1>3 DEF CommitSearch, Holds
  <2>2. l \notin behind[s]
    BY <1>3, UnmarkedIsCurrent
  <2>3. jobs[s].loaded[l] = rows[l] /\ jobs[s].startedAt \in Times
    BY <1>3, <2>1, <2>2 DEF CommitSearch, CopyInv, CopySafe, TypeOK, Job
  <2>4. rows'[l] = Refreshed(rows[l], jobs[s].startedAt)
    BY <1>2, <1>3, <2>1, <2>3, RefreshedType, MergeOwn DEF CommitSearch
  <2>. QED
    BY <1>2, <2>3, <2>4, RefreshedFields DEF Row, Statuses
<1>4. CASE \E s \in Slots : CommitSearch(s) /\ l \in Holds(s)
  BY <1>3, <1>4
<1>5. CASE ~\E s \in Slots : CommitSearch(s) /\ l \in Holds(s)
  <2>1. l \notin raced
    BY <1>5 DEF ONext
  <2>2. /\ rows[l].status = "stale" => rows[l].lastSeen < now - UnseenAfter
        /\ rows[l].missingSince # Never => rows[l].lastSeen < rows[l].missingSince
    BY <2>1 DEF RacesExplain, HiddenInSightIsRaced, StaleStrikeIsRaced
  <2>3. CASE rows'[l] = rows[l]
    BY <1>2, <2>2, <2>3 DEF Row, Times
  <2>4. ASSUME NEW s \in Slots, RetireStale(s), rows'[l] # rows[l]
        PROVE  /\ rows'[l].lastSeen < now' - UnseenAfter
               /\ rows'[l].missingSince # Never =>
                    rows'[l].lastSeen < rows'[l].missingSince
    <3>1. l \in jobs[s].chosen /\ rows'[l] = [rows[l] EXCEPT !.status = "stale"]
      BY <2>4 DEF RetireStale
    <3>2. l \notin behind[s]
      <4>1. l \in Holds(s)
        BY <2>4, <3>1 DEF Holds, RetireStale
      <4>. QED
        BY <2>4, <4>1, UnmarkedIsCurrent
    <3>3. /\ Retirable(rows[l], jobs[s].startedAt)
          /\ jobs[s].startedAt <= now /\ jobs[s].startedAt \in Int
      BY <2>4, <3>1, <3>2 DEF RetireStale, CopyInv, CopySafe, TypeOK, Job, Times
    <3>4. /\ rows'[l].lastSeen = rows[l].lastSeen
          /\ rows'[l].missingSince = rows[l].missingSince
      BY <1>2, <3>1 DEF Row
    <3>. QED
      BY <1>2, <2>2, <3>3, <3>4 DEF Retirable, Row, Times
  <2>5. ASSUME NEW s \in Slots, CommitCheck(s), rows'[l] # rows[l]
        PROVE  /\ rows'[l].status # "stale"
               /\ rows'[l].missingSince # Never =>
                    rows'[l].lastSeen < rows'[l].missingSince
    <3>. DEFINE t == jobs[s].startedAt
                a == jobs[s].answers[l]
                was == jobs[s].loaded[l]
    <3>1. /\ rows'[l] = Merge(was, Judge(was, a, t), rows[l])
          /\ was \in Row /\ a \in Answers /\ t \in Times
      BY <2>5 DEF CommitCheck, TypeOK, Job
    <3>2. a # "none"
      BY <1>2, <2>5, <3>1, MergeNothing DEF Judge
    <3>3. l \notin behind[s]
      <4>1. l \in Holds(s)
        BY <2>5, <3>2 DEF Holds, CommitCheck
      <4>. QED
        BY <2>5, <4>1, UnmarkedIsCurrent
    <3>4. was = rows[l] /\ Candidate(rows[l], t)
      BY <2>5, <3>2, <3>3 DEF CommitCheck, CopyInv, CopySafe, InHand
    <3>5. rows'[l] = Judge(rows[l], a, t)
      BY <1>2, <3>1, <3>4, JudgeType, MergeOwn
    <3>6. /\ rows[l].status = "active" /\ rows[l].lastSeen < t
      BY <1>2, <3>1, <3>4 DEF Candidate, Row, Times
    <3>. HIDE DEF t, a, was
    <3>7. CASE a = "alive"
      BY <1>2, <3>5, <3>6, <3>7 DEF Judge, Row
    <3>8. CASE a = "ended"
      BY <1>2, <2>2, <3>5, <3>6, <3>8 DEF Judge, Row
    <3>. QED
      BY <3>1, <3>2, <3>7, <3>8 DEF Answers
  <2>6. ASSUME NEW s \in Slots, CommitSearch(s) PROVE rows'[l] = rows[l]
    <3>1. l \notin jobs[s].chosen
      BY <1>5, <2>6 DEF CommitSearch, Holds
    <3>. QED
      BY <2>6, <3>1 DEF CommitSearch
  <2>7. CASE UNCHANGED rows
    BY <2>3, <2>7
  <2>. QED
    BY <2>3, <2>4, <2>5, <2>6, <2>7 DEF ONext, Next, CheckStep, SearchStep, Tick,
       PutUp, TakeDown, StartCheck, LoadCandidates, ItemAnswered, QuotaRunsOut,
       ItemFails, StartSearch, LoadPage, FailSearch, Crash
<1>. QED
  BY <1>4, <1>5

LEMMA OverlapRides == OSpec => Spec
<1>1. [ONext]_ovars => [Next]_vars
  BY DEF ONext, ovars, vars
<1>. QED
  BY <1>1, PTL DEF OSpec, OInit, Spec

\* However many checks and ingests overlap: a job's copy is its row unless the
\* row was committed by another job meanwhile, and what is out of order in a
\* row is on record as such a job's doing.
THEOREM OverlapCorrect == OSpec => [](CopyInv /\ RacesExplain)
BY CopyInitially, CopyStep, RacesStep, OverlapRides, TypeCorrect, PTL DEF OSpec

\* However many checks and ingests overlap: a retired row that a search has
\* seen lately was sighted beside its retirement.
THEOREM HidingInSightTakesARace == OSpec => []HiddenInSightIsRaced
BY OverlapCorrect, PTL DEF RacesExplain

\* However many checks and ingests overlap: a strike that is older than the
\* last sighting was written by, or under, a copy that was out of date.
THEOREM StaleStrikesTakeARace == OSpec => []StaleStrikeIsRaced
BY OverlapCorrect, PTL DEF RacesExplain

=============================================================================
