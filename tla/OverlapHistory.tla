---------------------------- MODULE OverlapHistory ----------------------------
(***************************************************************************)
(* ListingLifecycle with two history variables for jobs that overlap, when *)
(* an ingest is started by hand beside the worker.  behind: per slot, the  *)
(* listings another job has committed since this one read them.  raced:    *)
(* the listings whose row a job wrote from such a copy, until a search     *)
(* that is not behind writes the row again.                                *)
(***************************************************************************)
EXTENDS ListingLifecycle

VARIABLES behind, raced

ovars == <<now, market, rows, jobs, behind, raced>>

OInit == /\ Init
         /\ behind = [s \in Slots |-> {}]
         /\ raced = {}

\* The rows a job writes if it commits now.
Holds(s) == CASE jobs[s].stage \in {"retire", "page"} -> jobs[s].chosen
              [] jobs[s].stage = "items" ->
                   {l \in Listings : jobs[s].answers[l] # "none"}
              [] OTHER -> {}

\* A job's copies last as long as the stage in which it works with them.
Reading == {"retire", "items", "page"}

ONext ==
  /\ Next
  /\ behind' = [s \in Slots |->
       IF jobs'[s].stage = jobs[s].stage /\ jobs[s].stage \in Reading
       THEN behind[s] \cup {l \in Listings : rows'[l] # rows[l]}
       ELSE {}]
  /\ raced' =
       (raced \ UNION {Holds(s) \ behind[s] : s \in {r \in Slots : CommitSearch(r)}})
       \cup UNION {Holds(s) \cap behind[s] : s \in
                     {r \in Slots : RetireStale(r) \/ CommitCheck(r) \/ CommitSearch(r)}}

OSpec == OInit /\ [][ONext]_ovars

\* Retirement only hides what no search has seen for a while: a retired row
\* that was sighted within UnseenAfter was sighted beside the retirement, by a
\* search that committed between the selection of the rows and the UPDATE, or
\* one that had loaded the row before it (retire_stale_listings).
HiddenInSightIsRaced ==
  \A l \in Listings :
    rows[l].status = "stale" /\ l \notin raced =>
      rows[l].lastSeen < now - UnseenAfter

\* A strike is older news than a sighting only where the check judged a copy
\* that a search had refreshed by then, or a search refreshed one that a check
\* had struck by then.
StaleStrikeIsRaced ==
  \A l \in Listings :
    rows[l].missingSince # Never /\ l \notin raced =>
      rows[l].lastSeen < rows[l].missingSince

=============================================================================
