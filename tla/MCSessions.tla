------------------------------ MODULE MCSessions ------------------------------
(***************************************************************************)
(* Sessions side by side on one listing, for TLC, in the two halves its    *)
(* row is modelled in: what the sessions write into its columns, with the  *)
(* requests that watch it (Watchlist), and what a check and an ingest      *)
(* beside it do to its status and clocks (OverlapHistory).  No variable is *)
(* in both halves; a behaviour is in one or the other.                     *)
(***************************************************************************)
EXTENDS Watchlist, TLC

VARIABLES half,                                   \* "columns" or "clocks"
          now, market, rows, jobs, behind, raced  \* OverlapHistory's

\* The worker, and an ingest started by hand.  Three ticks let the listing be
\* struck, sold or retired; the fourth lets it be seen again after that.
Clocks == INSTANCE OverlapHistory WITH
            Listings <- {"listing"}, Slots <- {"worker", "ingest"},
            CheckSlots <- {"worker"}, IngestSlots <- {"ingest"},
            Budget <- 1, Reserve <- 1, Quotas <- {1, 2},
            ProvenAlive <- 0, StaleAfter <- 1, UnseenAfter <- 1,
            Faults <- {"blip", "quota", "itemError", "searchError", "crash"},
            MaxTime <- 4

clockVars == <<now, market, rows, jobs, behind, raced>>

SessionsInit ==
  /\ Init
  /\ Clocks!OInit
  /\ \/ half = "columns"
     \/ half = "clocks" /\ source = "ebay" /\ table = {}

SessionsNext ==
  \/ half = "columns" /\ Next /\ UNCHANGED <<half, clockVars>>
  \/ half = "clocks" /\ Clocks!ONext /\ UNCHANGED <<half, vars>>

SessionsSpec == SessionsInit /\ [][SessionsNext]_<<half, vars, clockVars>>

\* A recorded sale stays one, also where a search commits a copy it loaded
\* before the check sold the row (ListingLifecycle).
SoldIsFinal == Clocks!SoldIsFinal

\* Its clocks do not go back, also where one of the two commits late
\* (ListingLifecycle).
ClocksAdvance == Clocks!ClocksAdvance

\* A retired row was not sighted lately, but beside its retirement
\* (OverlapHistory).
HiddenInSightIsRaced == Clocks!HiddenInSightIsRaced

\* A strike is not older than a sighting, but where a check and a search wrote
\* from copies that were out of date (OverlapHistory).
StaleStrikeIsRaced == Clocks!StaleStrikeIsRaced

-----------------------------------------------------------------------------
(* The half with the columns.                                              *)
\* Revised titles, a price that moves, and shipping that is firm, guessed and
\* absent; one offer is filed elsewhere.
SomeOffers ==
  {[title |-> "unit", price |-> 1, filing |-> "a",
    options |-> {[cost |-> 5, kind |-> "FIXED"], [cost |-> 3, kind |-> "CALCULATED"]}],
   [title |-> "unit only", price |-> 2, filing |-> "a", options |-> {}],
   [title |-> "unit", price |-> 2, filing |-> "b",
    options |-> {[cost |-> 3, kind |-> "CALCULATED"]}]}

SomeCaptures ==
  {[title |-> "unit", price |-> 1, shipping |-> 5, aspects |-> "64GB"],
   [title |-> "unit only", price |-> 1, shipping |-> Null, aspects |-> "64GB"],
   [title |-> "unit", price |-> 2, shipping |-> Null, aspects |-> Null]}

SomeBodies ==
  {[aspects |-> "64GB", ended |-> FALSE], [aspects |-> Null, ended |-> TRUE]}

Symmetry == Permutations(Writers) \cup Permutations(Threads)

=============================================================================
