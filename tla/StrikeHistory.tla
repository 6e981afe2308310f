---------------------------- MODULE StrikeHistory ----------------------------
(***************************************************************************)
(* ListingLifecycle with two history variables.  misses: per listing, how  *)
(* many times in a row eBay has last said it is gone; an answer counts     *)
(* from the moment it is given, whether or not the pass that asked lives   *)
(* to commit it, and a search that returns the listing ends the row.       *)
(* lost: news that the listing is alive went down with a transaction, and  *)
(* nothing has been committed about the listing since.                     *)
(***************************************************************************)
EXTENDS ListingLifecycle, TLC

VARIABLES misses, lost

hvars == <<now, market, rows, jobs, misses, lost>>

HInit == /\ Init
         /\ misses = [l \in Listings |-> 0]
         /\ lost = [l \in Listings |-> FALSE]

\* The listings some job has just been told a about.
Told(a) == {l \in Listings : \E s \in Slots :
              jobs'[s].answers[l] = a /\ jobs[s].answers[l] = "none"}

Sighted == {l \in Listings : \E s \in Slots :
              /\ jobs'[s].stage = "searched" /\ jobs[s].stage = "idle"
              /\ l \in jobs'[s].chosen}

\* What a job has learnt and not committed yet.
KnownAlive(s) == {l \in Listings : \/ jobs[s].answers[l] = "alive"
                                   \/ /\ jobs[s].stage \in {"searched", "page"}
                                      /\ l \in jobs[s].chosen}

RolledBack == UNION {KnownAlive(s) : s \in
  {r \in Slots : ItemFails(r) \/ FailSearch(r) \/ Crash(r)}}

Committed == UNION {{l \in Listings : \/ jobs[s].answers[l] # "none"
                                      \/ l \in jobs[s].chosen} : s \in
  {r \in Slots : CommitCheck(r) \/ CommitSearch(r)}}

\* misses is counted up to 2, which is all the rule asks for.
HNext ==
  /\ Next
  /\ misses' = [l \in Listings |->
       CASE l \in Told("alive") \cup Sighted -> 0
         [] l \in Told("ended") -> IF misses[l] < 2 THEN misses[l] + 1 ELSE 2
         [] OTHER -> misses[l]]
  /\ lost' = [l \in Listings |->
       l \in RolledBack \/ (lost[l] /\ l \notin Committed)]

HSpec == HInit /\ [][HNext]_hvars

Symmetry == Permutations(Listings)

RecordsSale(l) ==
  rows[l].status # "likely_sold" /\ rows'[l].status = "likely_sold"

\* What models.py says of missing_since: "A second consecutive failure is
\* what actually marks it likely_sold".  Every step that records a sale comes
\* after two misses in a row.
TwoConsecutiveMisses ==
  [][\A l \in Listings : RecordsSale(l) => misses[l] >= 2]_hvars

\* How far the code keeps it: a sale recorded after fewer than two misses in
\* a row means that a job had learnt the listing alive and was rolled back
\* (get_item raised on a later item, a search failed, the worker died).
OneMissOnlyAfterLostNews ==
  [][\A l \in Listings : RecordsSale(l) => misses[l] >= 2 \/ lost[l]]_hvars

=============================================================================
