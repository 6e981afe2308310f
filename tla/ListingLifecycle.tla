--------------------------- MODULE ListingLifecycle ---------------------------
(***************************************************************************)
(* The life of an eBay listing row: saved searches insert and refresh it,  *)
(* the disappearance check strikes, confirms, clears or retires it.        *)
(*                                                                         *)
(* Both jobs are read-modify-write transactions that hold ORM copies of    *)
(* rows across network calls.  A job therefore keeps the rows it loaded,   *)
(* and its commit writes exactly the columns it changed (Merge), over      *)
(* whatever the database holds by then.  Slots is the set of processes     *)
(* that run these jobs: one in the documented deployment, more when an     *)
(* ingest is started by hand or a worker is left over.                     *)
(***************************************************************************)
EXTENDS Integers, FiniteSets

CONSTANTS
  Listings,      \* source_ids of the one polled comp source ("ebay")
  Slots,         \* processes that can run a job, each one job at a time
  CheckSlots,    \* the slots that run the disappearance check
  IngestSlots,   \* the slots that run saved searches
  Budget,        \* settings.disappearance_check_budget
  Reserve,       \* settings.quota_reserve
  Quotas,        \* what get_rate_limit may report as remaining
  ProvenAlive,   \* settings.proven_alive_seconds
  StaleAfter,    \* settings.stale_after_days
  UnseenAfter,   \* settings.unseen_after_days
  Faults,        \* which faults the environment shows
  MaxTime        \* bound on the clock

ASSUME SlotsAssumption ==
  CheckSlots \subseteq Slots /\ IngestSlots \subseteq Slots

ASSUME SettingsAssumption ==
  /\ Budget \in Nat /\ Reserve \in Nat /\ Quotas \subseteq Nat
  /\ ProvenAlive \in Nat /\ StaleAfter \in Nat /\ UnseenAfter \in Nat
  /\ MaxTime \in Nat

ASSUME FaultsAssumption == Faults \subseteq {"blip", "quota", "itemError", "searchError", "crash"}

VARIABLES
  now,           \* the clock
  market,        \* what is true on eBay: "unlisted", "live" or "ended"
  rows,          \* the listing table
  jobs           \* per slot, the job it runs and the job's own memory

vars == <<now, market, rows, jobs>>
-----------------------------------------------------------------------------
(***************************************************************************)
(* Rows.  NULL timestamps are Never, which precedes every time: that is    *)
(* the order NULLS FIRST gives last_checked_at.                            *)
(***************************************************************************)
Never == -1

Times == 0..MaxTime

Statuses == {"absent", "active", "stale", "likely_sold"}

Row == [status: Statuses, firstSeen: Times, lastSeen: Times,
        lastChecked: Times \cup {Never}, missingSince: Times \cup {Never}]

NoRow == [status |-> "absent", firstSeen |-> 0, lastSeen |-> 0,
          lastChecked |-> Never, missingSince |-> Never]

NewRow(t) == [status |-> "active", firstSeen |-> t, lastSeen |-> t,
              lastChecked |-> Never, missingSince |-> Never]

\* Mutant: the UPDATE writes every column of the copy.
MergeWholeRow(loaded, mine, db) == mine

\* An UPDATE names only the columns whose value in memory differs from the
\* one that was loaded; every other column keeps what the database holds.
Merge(loaded, mine, db) ==
  [f \in DOMAIN db |-> IF mine[f] # loaded[f] THEN mine[f] ELSE db[f]]

Answers == {"none", "alive", "ended"}

Stages == {"idle", "retire", "budget", "items", "searched", "page"}

\* chosen: rows selected for retirement, or hits of a search; todo: the
\* candidates a pass has not asked about yet.
Job == [stage: Stages, startedAt: Times, chosen: SUBSET Listings,
        todo: SUBSET Listings, answers: [Listings -> Answers],
        loaded: [Listings -> Row]]

Idle == [stage |-> "idle", startedAt |-> 0, chosen |-> {}, todo |-> {},
         answers |-> [l \in Listings |-> "none"],
         loaded |-> [l \in Listings |-> NoRow]]

TypeOK ==
  /\ now \in Times
  /\ market \in [Listings -> {"unlisted", "live", "ended"}]
  /\ rows \in [Listings -> Row]
  /\ jobs \in [Slots -> Job]

Init ==
  /\ now = 0
  /\ market = [l \in Listings |-> "unlisted"]
  /\ rows = [l \in Listings |-> NoRow]
  /\ jobs = [s \in Slots |-> Idle]
-----------------------------------------------------------------------------
(***************************************************************************)
(* The environment.                                                        *)
(***************************************************************************)
Tick ==
  /\ now < MaxTime
  /\ now' = now + 1
  /\ UNCHANGED <<market, rows, jobs>>

PutUp(l) ==
  /\ market[l] = "unlisted"
  /\ market' = [market EXCEPT ![l] = "live"]
  /\ UNCHANGED <<now, rows, jobs>>

TakeDown(l) ==
  /\ market[l] = "live"
  /\ market' = [market EXCEPT ![l] = "ended"]
  /\ UNCHANGED <<now, rows, jobs>>

\* What get_item and listing_has_ended conclude.  A live listing may read as
\* ended for once (a transient 404, a momentary OUT_OF_STOCK).
AnswersFor(l) ==
  IF market[l] = "live"
  THEN {"alive"} \cup {a \in {"ended"} : "blip" \in Faults}
  ELSE {"ended"}
-----------------------------------------------------------------------------
(***************************************************************************)
(* The disappearance check: connectors/disappearance_check.py.             *)
(***************************************************************************)

\* Mutant: retirement by age alone.
RetirableByAge(row, t) == row.status = "active" /\ row.firstSeen < t - StaleAfter

Retirable(row, t) ==
  /\ row.status = "active"
  /\ row.firstSeen < t - StaleAfter
  /\ row.lastSeen < t - UnseenAfter

\* A pass starts by selecting the rows to retire, in a transaction of its own.
StartCheck(s) ==
  /\ s \in CheckSlots
  /\ jobs[s].stage = "idle"
  /\ jobs' = [jobs EXCEPT ![s] =
       [Idle EXCEPT !.stage = "retire", !.startedAt = now,
                    !.chosen = {l \in Listings : Retirable(rows[l], now)}]]
  /\ UNCHANGED <<now, market, rows>>

\* The UPDATE touches the status column alone: a pending strike stays.
RetireStale(s) ==
  /\ jobs[s].stage = "retire"
  /\ rows' = [l \in Listings |-> IF l \in jobs[s].chosen
                                 THEN [rows[l] EXCEPT !.status = "stale"]
                                 ELSE rows[l]]
  /\ jobs' = [jobs EXCEPT ![s].stage = "budget", ![s].chosen = {}]
  /\ UNCHANGED <<now, market>>

ResolveBudget(remaining) ==
  LET spare == IF Budget < remaining - Reserve THEN Budget ELSE remaining - Reserve
  IN  IF spare < 0 THEN 0 ELSE spare

Candidate(row, t) ==
  /\ row.status = "active"
  /\ row.lastSeen < t - ProvenAlive

\* ORDER BY missing_since IS NULL, last_checked_at NULLS FIRST, last_seen_at.
Precedes(a, b) ==
  LET pendingA == a.missingSince # Never
      pendingB == b.missingSince # Never
  IN  \/ pendingA /\ ~pendingB
      \/ /\ pendingA = pendingB
         /\ \/ a.lastChecked < b.lastChecked
            \/ a.lastChecked = b.lastChecked /\ a.lastSeen < b.lastSeen

\* B is a result LIMIT n can return for the ordered query over C.
IsBatch(B, C, n) ==
  /\ B \subseteq C
  /\ Cardinality(B) = IF Cardinality(C) < n THEN Cardinality(C) ELSE n
  /\ \A a \in B, b \in C \ B : ~Precedes(rows[b], rows[a])

\* The live quota caps the pass; a client that reports none leaves it at Budget.
LoadCandidates(s) ==
  /\ jobs[s].stage = "budget"
  /\ \E n \in {ResolveBudget(r) : r \in Quotas} \cup {Budget} :
       LET t == jobs[s].startedAt
           C == {l \in Listings : Candidate(rows[l], t)}
       IN  IF n <= 0
           THEN jobs' = [jobs EXCEPT ![s] = Idle]
           ELSE \E B \in SUBSET C :
                  /\ IsBatch(B, C, n)
                  /\ jobs' = [jobs EXCEPT
                       ![s].stage = "items", ![s].todo = B,
                       ![s].loaded = [l \in Listings |->
                                        IF l \in B THEN rows[l] ELSE NoRow]]
  /\ UNCHANGED <<now, market, rows>>

\* The next candidate of the pass, in the order the query returned them.
IsNext(s, l) ==
  /\ l \in jobs[s].todo
  /\ \A m \in jobs[s].todo :
       ~Precedes(jobs[s].loaded[m], jobs[s].loaded[l])

ItemAnswered(s, l, a) ==
  /\ jobs[s].stage = "items"
  /\ IsNext(s, l)
  /\ a \in AnswersFor(l)
  /\ jobs' = [jobs EXCEPT ![s].todo = @ \ {l}, ![s].answers[l] = a]
  /\ UNCHANGED <<now, market, rows>>

\* QuotaExhaustedError breaks the loop; what was answered is still committed.
QuotaRunsOut(s) ==
  /\ "quota" \in Faults
  /\ jobs[s].stage = "items"
  /\ jobs[s].todo # {}
  /\ jobs' = [jobs EXCEPT ![s].todo = {}]
  /\ UNCHANGED <<now, market, rows>>

\* Any other exception of get_item leaves the session block: the whole pass
\* is rolled back, verdicts on other listings included.
ItemFails(s) ==
  /\ "itemError" \in Faults
  /\ jobs[s].stage = "items"
  /\ jobs[s].todo # {}
  /\ jobs' = [jobs EXCEPT ![s] = Idle]
  /\ UNCHANGED <<now, market, rows>>

\* Mutants of the loop body: a status outside the enumeration, the first
\* strike taken for a sale, an alive answer that leaves the strike standing.
JudgeUnknownStatus(row, a, t) ==
  CASE a = "none"  -> row
    [] a = "alive" -> [row EXCEPT !.lastChecked = t, !.missingSince = Never]
    [] a = "ended" -> [row EXCEPT !.lastChecked = t, !.status = "ended"]

JudgeOneStrike(row, a, t) ==
  CASE a = "none"  -> row
    [] a = "alive" -> [row EXCEPT !.lastChecked = t, !.missingSince = Never]
    [] a = "ended" -> [row EXCEPT !.lastChecked = t, !.missingSince = t,
                                  !.status = "likely_sold"]

JudgeNotClearing(row, a, t) ==
  CASE a = "none"  -> row
    [] a = "alive" -> [row EXCEPT !.lastChecked = t]
    [] a = "ended" /\ row.missingSince = Never ->
         [row EXCEPT !.lastChecked = t, !.missingSince = t]
    [] a = "ended" /\ row.missingSince # Never ->
         [row EXCEPT !.lastChecked = t, !.status = "likely_sold"]

\* The loop body's effect on the row in memory.
Judge(row, a, t) ==
  CASE a = "none"  -> row
    [] a = "alive" -> [row EXCEPT !.lastChecked = t, !.missingSince = Never]
    [] a = "ended" /\ row.missingSince = Never ->
         [row EXCEPT !.lastChecked = t, !.missingSince = t]
    [] a = "ended" /\ row.missingSince # Never ->
         [row EXCEPT !.lastChecked = t, !.status = "likely_sold"]

CommitCheck(s) ==
  /\ jobs[s].stage = "items"
  /\ jobs[s].todo = {}
  /\ rows' = [l \in Listings |->
       LET was == jobs[s].loaded[l]
       IN  Merge(was, Judge(was, jobs[s].answers[l], jobs[s].startedAt), rows[l])]
  /\ jobs' = [jobs EXCEPT ![s] = Idle]
  /\ UNCHANGED <<now, market>>
-----------------------------------------------------------------------------
(***************************************************************************)
(* One saved search: ingest_saved_search in connectors/ingest_ebay.py.     *)
(***************************************************************************)

\* A search returns some of what is live: the page is capped at 200 results.
StartSearch(s) ==
  /\ s \in IngestSlots
  /\ jobs[s].stage = "idle"
  /\ \E hits \in SUBSET {l \in Listings : market[l] = "live"} :
       /\ hits # {}
       /\ jobs' = [jobs EXCEPT ![s] =
            [Idle EXCEPT !.stage = "searched", !.startedAt = now, !.chosen = hits]]
  /\ UNCHANGED <<now, market, rows>>

\* One query for the whole page; images are hashed between it and the commit.
LoadPage(s) ==
  /\ jobs[s].stage = "searched"
  /\ jobs' = [jobs EXCEPT
       ![s].stage = "page",
       ![s].loaded = [l \in Listings |->
                        IF l \in jobs[s].chosen THEN rows[l] ELSE NoRow]]
  /\ UNCHANGED <<now, market, rows>>

\* Mutant of the update branch: the strike is kept.
RefreshedKeepingStrike(row, t) ==
  IF row.status = "absent"
  THEN NewRow(t)
  ELSE [row EXCEPT !.lastSeen = t, !.status = IF @ = "stale" THEN "active" ELSE @]

\* A hit proves the listing alive: a strike is cleared, a retired row comes
\* back, a likely_sold row stays sold.  An unknown one is inserted.
Refreshed(row, t) ==
  IF row.status = "absent"
  THEN NewRow(t)
  ELSE [row EXCEPT !.lastSeen = t, !.missingSince = Never,
                   !.status = IF @ = "stale" THEN "active" ELSE @]

\* The hits this job inserts that another job has inserted meanwhile.
Collisions(s) == {l \in jobs[s].chosen : /\ jobs[s].loaded[l].status = "absent"
                                         /\ rows[l].status # "absent"}

CommitSearch(s) ==
  /\ jobs[s].stage = "page"
  /\ Collisions(s) = {}
  /\ rows' = [l \in Listings |->
       IF l \in jobs[s].chosen
       THEN LET was == jobs[s].loaded[l]
            IN  Merge(was, Refreshed(was, jobs[s].startedAt), rows[l])
       ELSE rows[l]]
  /\ jobs' = [jobs EXCEPT ![s] = Idle]
  /\ UNCHANGED <<now, market>>

\* The unique (source, source_id) constraint refuses the flush, or anything
\* else raises: the search's transaction is gone and the run goes on.
FailSearch(s) ==
  /\ jobs[s].stage \in {"searched", "page"}
  /\ ~(jobs[s].stage = "page" /\ Collisions(s) # {}) => "searchError" \in Faults
  /\ jobs' = [jobs EXCEPT ![s] = Idle]
  /\ UNCHANGED <<now, market, rows>>
-----------------------------------------------------------------------------
\* The process dies: an open transaction is lost, a committed one is not.
Crash(s) ==
  /\ "crash" \in Faults
  /\ jobs[s].stage # "idle"
  /\ jobs' = [jobs EXCEPT ![s] = Idle]
  /\ UNCHANGED <<now, market, rows>>

CheckStep(s) ==
  \/ StartCheck(s) \/ RetireStale(s) \/ LoadCandidates(s)
  \/ \E l \in Listings, a \in Answers : ItemAnswered(s, l, a)
  \/ QuotaRunsOut(s) \/ ItemFails(s) \/ CommitCheck(s)

SearchStep(s) ==
  StartSearch(s) \/ LoadPage(s) \/ CommitSearch(s) \/ FailSearch(s)

Next ==
  \/ Tick
  \/ \E l \in Listings : PutUp(l) \/ TakeDown(l)
  \/ \E s \in Slots : CheckStep(s) \/ SearchStep(s) \/ Crash(s)

Spec == Init /\ [][Next]_vars
-----------------------------------------------------------------------------
(***************************************************************************)
(* Properties.                                                             *)
(***************************************************************************)

\* A recorded sale is for good, also where a check and an ingest overlap:
\* neither a search that loaded the row before the check sold it nor one that
\* comes later resurrects it (ingest_saved_search's update branch), and the
\* session of the search writes no column but those it changed.
SoldIsFinal ==
  [][\A l \in Listings :
       rows[l].status = "likely_sold" => rows'[l].status = "likely_sold"]_vars

\* One worker: a pending strike is never older news than a sighting.  While a
\* row carries a missing_since, no search has seen the listing since, so the
\* confirmation that relies on the strike is about an unseen listing.
StrikeOutlivesNoSighting ==
  \A l \in Listings :
    rows[l].missingSince # Never => rows[l].lastSeen < rows[l].missingSince

\* The clocks of a row never go back, also where a check and an ingest overlap:
\* the one that commits late writes neither clock of the other's copy.
\* last_seen_at orders proven-alive and retirement, last_checked_at the rotation.
ClocksAdvance ==
  [][\A l \in Listings :
       /\ rows[l].lastSeen <= rows'[l].lastSeen
       /\ rows[l].lastChecked <= rows'[l].lastChecked]_vars

-----------------------------------------------------------------------------
(***************************************************************************)
(* Strengthenings that the proofs use.                                     *)
(***************************************************************************)
OneChecker == \A r, s \in CheckSlots : r = s
OneIngester == \A r, s \in IngestSlots : r = s
OneWorker == \A r, s \in Slots : r = s

\* The rows a pass has set its eyes on.
InHand(s) == {l \in Listings : l \in jobs[s].todo \/ jobs[s].answers[l] # "none"}

\* One checker and one ingest, overlapping at will.  What the check holds as
\* active is active in the database, for only the check itself retires and
\* sells; what the search holds as stale is stale, for only the search itself
\* brings rows back.
OverlapSafe(s) ==
  /\ jobs[s].stage \in {"retire", "budget", "items"} => s \in CheckSlots
  /\ jobs[s].stage \in {"searched", "page"} => s \in IngestSlots
  /\ jobs[s].stage \in {"retire", "budget"} =>
       InHand(s) = {}
  /\ jobs[s].stage = "retire" =>
       \A l \in jobs[s].chosen : rows[l].status = "active"
  /\ jobs[s].stage = "items" =>
       \A l \in InHand(s) : /\ jobs[s].loaded[l].status = "active"
                            /\ rows[l].status = "active"
  /\ jobs[s].stage = "page" =>
       \A l \in jobs[s].chosen :
         jobs[s].loaded[l].status = "stale" => rows[l].status = "stale"

OverlapInv == \A s \in Slots : OverlapSafe(s)

\* One worker: the copy a job holds is the row itself, as old as the job.
WorkerSafe(s) ==
  jobs[s].stage # "idle" =>
    /\ jobs[s].startedAt <= now
    /\ \A l \in Listings : /\ rows[l].lastSeen <= jobs[s].startedAt
                           /\ rows[l].lastChecked <= jobs[s].startedAt
    /\ jobs[s].stage \in {"retire", "budget"} => InHand(s) = {}
    /\ jobs[s].stage = "retire" =>
         \A l \in jobs[s].chosen : Retirable(rows[l], jobs[s].startedAt)
    /\ jobs[s].stage = "items" =>
         \A l \in InHand(s) : /\ jobs[s].loaded[l] = rows[l]
                              /\ Candidate(rows[l], jobs[s].startedAt)
    /\ jobs[s].stage = "page" =>
         \A l \in jobs[s].chosen : jobs[s].loaded[l] = rows[l]

WorkerInv == \A s \in Slots : WorkerSafe(s)

\* A listing never inserted has no columns to speak of.
AbsentIsNoRow ==
  \A l \in Listings : rows[l].status = "absent" => rows[l] = NoRow

\* No clock of a row is ahead of the wall clock.
NoClockAhead ==
  \A l \in Listings : rows[l].lastSeen <= now /\ rows[l].lastChecked <= now
-----------------------------------------------------------------------------
\* The phase of a listing that the abstract contract talks about.
PhaseOf(row) ==
  CASE row.status = "absent" -> "unknown"
    [] row.status = "likely_sold" -> "sold"
    [] row.status = "active" /\ row.missingSince = Never -> "active"
    [] row.status = "active" /\ row.missingSince # Never -> "struck"
    [] row.status = "stale" /\ row.missingSince = Never -> "stale"
    [] row.status = "stale" /\ row.missingSince # Never -> "staleStruck"

Contract == INSTANCE ListingContract
              WITH phase <- [l \in Listings |-> PhaseOf(rows[l])]

\* A single worker keeps the contract: a sale is only ever confirmed from a
\* strike an earlier pass committed, and a retired row comes back clean.
KeepsContract == Contract!Spec

=============================================================================
