------------------------------ MODULE DealAlerts ------------------------------
(***************************************************************************)
(* The deal scan's cache and alerts (systems/deal_scan.py) and the feed    *)
(* that reads the cache (api/routes/deals.py).                             *)
(*                                                                         *)
(* Deals are the listings a scan found; which they are is Valuation's      *)
(* FindDeals.  Their numbers are their ranks, the best first, and stay: a  *)
(* simplification, since each scan computes the scores anew.  The cached   *)
(* deals and the time of their scan are both represented by the number of  *)
(* the scan.                                                               *)
(***************************************************************************)
EXTENDS Naturals, FiniteSets

CONSTANTS Listings,   \* their ranks as deals, the best first
          MaxAlerts,  \* discord_max_alerts
          MaxScans,   \* bound: scans
          MaxFaults,  \* bound: crashes, lost replies, outages of Redis
          NoScan      \* a key that is not there

ASSUME DealAlertsAssumption ==
  /\ Listings \subseteq Nat
  /\ MaxAlerts \in Nat \ {0}
  /\ MaxScans \in Nat /\ MaxFaults \in Nat
  /\ NoScan \notin Nat

VARIABLES deals,     \* DEALS_KEY
          scannedAt, \* SCAN_AT_KEY
          alerted,   \* ALERTED_KEY
          scan,      \* the scan that runs: stage, deals found, still to be marked
          scans,     \* scans started
          reader,    \* a GET of the feed: stage, what it read
          told,      \* history: how often a message named the listing
          faults     \* history: faults so far

alertVars == <<deals, scannedAt, alerted, scan, scans, reader, told, faults>>

NotScanning == [stage |-> "none", found |-> {}, fresh |-> {}]
NotReading == [stage |-> "none", time |-> NoScan, deals |-> NoScan]

AlertInit ==
  /\ deals = NoScan /\ scannedAt = NoScan
  /\ alerted = {}
  /\ scan = NotScanning
  /\ scans = 0
  /\ reader = NotReading
  /\ told = [l \in Listings |-> 0]
  /\ faults = 0

-----------------------------------------------------------------------------
(* The scan.                                                               *)

StartScan ==
  /\ scan = NotScanning
  /\ scans < MaxScans
  /\ scans' = scans + 1
  /\ \E found \in SUBSET Listings :
       scan' = [stage |-> "found", found |-> found, fresh |-> {}]
  /\ UNCHANGED <<deals, scannedAt, alerted, reader, told, faults>>

\* Mutant: a scan that found nothing leaves the cached deals alone.
SetDealsIfAny ==
  /\ scan.stage = "found"
  /\ deals' = IF scan.found = {} THEN deals ELSE scans
  /\ scan' = [scan EXCEPT !.stage = "cached"]
  /\ UNCHANGED <<scannedAt, alerted, scans, reader, told, faults>>

SetDeals ==
  /\ scan.stage = "found"
  /\ deals' = scans
  /\ scan' = [scan EXCEPT !.stage = "cached"]
  /\ UNCHANGED <<scannedAt, alerted, scans, reader, told, faults>>

SetTime ==
  /\ scan.stage = "cached"
  /\ scannedAt' = scans
  /\ scan' = [scan EXCEPT !.stage = "timed"]
  /\ UNCHANGED <<deals, alerted, scans, reader, told, faults>>

\* With nothing fresh there is nothing to post.
Sift ==
  /\ scan.stage = "timed"
  /\ LET fresh == scan.found \ alerted IN
     scan' = IF fresh = {} THEN NotScanning
             ELSE [scan EXCEPT !.stage = "sifted", !.fresh = fresh]
  /\ UNCHANGED <<deals, scannedAt, alerted, scans, reader, told, faults>>

\* The message names the fresh deals that come first in the scan's order, as many
\* as there is room for: its text is cut to 1900 characters.
IsNamed(named) ==
  /\ named # {}
  /\ Cardinality(named) <= MaxAlerts
  /\ \A l \in named, m \in scan.fresh : m < l => m \in named

Tell ==
  \E named \in SUBSET scan.fresh :
    /\ IsNamed(named)
    /\ told' = [l \in Listings |-> told[l] + (IF l \in named THEN 1 ELSE 0)]

\* Mutant: the scan marks the deals its limit left out and forgets the best.
PostMarkingTheRest ==
  /\ scan.stage = "sifted"
  /\ Tell
  /\ scan' = [scan EXCEPT !.stage = "posted", !.fresh = {l \in @ : \E m \in @ : m < l}]
  /\ UNCHANGED <<deals, scannedAt, alerted, scans, reader, faults>>

Post ==
  /\ scan.stage = "sifted"
  /\ Tell
  /\ scan' = [scan EXCEPT !.stage = "posted"]
  /\ UNCHANGED <<deals, scannedAt, alerted, scans, reader, faults>>

\* Mutant: an HTTP error does not keep the deals from being marked.
PostFailsMarking ==
  /\ scan.stage = "sifted"
  /\ scan' = [scan EXCEPT !.stage = "posted"]
  /\ UNCHANGED <<deals, scannedAt, alerted, scans, reader, told, faults>>

\* An HTTP error ends the scan with nothing marked.
PostFails ==
  /\ scan.stage = "sifted"
  /\ scan' = NotScanning
  /\ UNCHANGED <<deals, scannedAt, alerted, scans, reader, told, faults>>

\* The same error where the message was delivered and only the reply is lost.
ReplyIsLost ==
  /\ scan.stage = "sifted"
  /\ faults < MaxFaults
  /\ faults' = faults + 1
  /\ Tell
  /\ scan' = NotScanning
  /\ UNCHANGED <<deals, scannedAt, alerted, scans, reader>>

\* One by one, named or not.
Mark ==
  /\ scan.stage = "posted"
  /\ scan.fresh # {}
  /\ \E l \in scan.fresh :
       /\ \A m \in scan.fresh : l <= m
       /\ alerted' = alerted \cup {l}
       /\ scan' = [scan EXCEPT !.fresh = @ \ {l}]
  /\ UNCHANGED <<deals, scannedAt, scans, reader, told, faults>>

FinishScan ==
  /\ scan.stage = "posted"
  /\ scan.fresh = {}
  /\ scan' = NotScanning
  /\ UNCHANGED <<deals, scannedAt, alerted, scans, reader, told, faults>>

-----------------------------------------------------------------------------
(* Faults and the feed.                                                    *)

\* The worker dies, times out, or Redis does not answer it.
ScanDies ==
  /\ scan # NotScanning
  /\ faults < MaxFaults
  /\ faults' = faults + 1
  /\ scan' = NotScanning
  /\ UNCHANGED <<deals, scannedAt, alerted, scans, reader, told>>

RedisForgets ==
  /\ faults < MaxFaults
  /\ faults' = faults + 1
  /\ deals' = NoScan /\ scannedAt' = NoScan
  /\ alerted' = {}
  /\ UNCHANGED <<scan, scans, reader, told>>

\* Each key has a time to live of its own.
DealsExpire ==
  /\ deals # NoScan
  /\ deals' = NoScan
  /\ UNCHANGED <<scannedAt, alerted, scan, scans, reader, told, faults>>

TimeExpires ==
  /\ scannedAt # NoScan
  /\ scannedAt' = NoScan
  /\ UNCHANGED <<deals, alerted, scan, scans, reader, told, faults>>

ReadTime ==
  /\ reader.stage = "none"
  /\ reader' = [reader EXCEPT !.stage = "timed", !.time = scannedAt]
  /\ UNCHANGED <<deals, scannedAt, alerted, scan, scans, told, faults>>

ReadDeals ==
  /\ reader.stage = "timed"
  /\ reader' = [reader EXCEPT !.stage = "read", !.deals = deals]
  /\ UNCHANGED <<deals, scannedAt, alerted, scan, scans, told, faults>>

Respond ==
  /\ reader.stage = "read"
  /\ reader' = NotReading
  /\ UNCHANGED <<deals, scannedAt, alerted, scan, scans, told, faults>>

ScanStep ==
  \/ StartScan \/ SetDeals \/ SetTime \/ Sift
  \/ Post \/ PostFails \/ ReplyIsLost \/ Mark \/ FinishScan \/ ScanDies

OtherStep ==
  \/ RedisForgets \/ DealsExpire \/ TimeExpires
  \/ ReadTime \/ ReadDeals \/ Respond

-----------------------------------------------------------------------------
(* Properties.                                                             *)

ScanNumbers == (1..scans) \cup {NoScan}

\* Keys are of scans that began, and what a scan still has to mark it found.
AlertsTypeOK ==
  /\ deals \in ScanNumbers /\ scannedAt \in ScanNumbers
  /\ alerted \subseteq Listings
  /\ scan \in [stage : {"none", "found", "cached", "timed", "sifted", "posted"},
               found : SUBSET Listings, fresh : SUBSET Listings]
  /\ scan.fresh \subseteq scan.found
  /\ scans \in 0..MaxScans
  /\ scan.stage # "none" => scans > 0
  /\ reader \in [stage : {"none", "timed", "read"}, time : ScanNumbers, deals : ScanNumbers]
  /\ told \in [Listings -> Nat]
  /\ faults \in 0..MaxFaults

\* The feed never claims to be fresher than it is: the deals it shows are of
\* the scan it names or of a later one.  The two keys are written and read one
\* by one, and it takes both orders to see to that.
FeedIsNoOlderThanItSays ==
  reader.stage = "read" /\ reader.time # NoScan /\ reader.deals # NoScan =>
    reader.deals >= reader.time

\* A deal is announced again only for a reason: every repeat takes a fault of
\* its own, between the message and the mark or with the marks themselves.
RepeatsAreFaults == \A l \in Listings : told[l] <= 1 + faults

\* A deal that is marked as announced and was not had to give way to a better
\* one that was: notify_discord marks every fresh deal, those beyond
\* discord_max_alerts or cut from the text too, and they are not announced later.
\* Better is meant as of one scan: the ranks of the model do not change.
SilentOnlyForABetterOne ==
  \A l \in alerted : told[l] > 0 \/ \E m \in Listings : m < l /\ told[m] > 0

=============================================================================
