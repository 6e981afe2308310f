------------------------------ MODULE MainWorker ------------------------------
(***************************************************************************)
(* The worker of the main queue: one job at a time, which checks, ingests  *)
(* or scans for deals, while the API reads the feed.                       *)
(*                                                                         *)
(* The jobs that call eBay and the scans share nothing but the worker, so  *)
(* it is enough to see each while the other rests where it began.          *)
(***************************************************************************)
EXTENDS CallBudget, DealAlerts

vars == <<budgetVars, alertVars>>

Init == BudgetInit /\ AlertInit

\* Bound: no job has called eBay today; no scan has run.
BudgetRests == job = NoJob /\ remaining = Limit
AlertsRest == scan = NotScanning /\ scans = 0 /\ reader = NotReading /\ faults = 0

CallsEbay == AlertsRest /\ BudgetStep /\ UNCHANGED alertVars
Scans == BudgetRests /\ ScanStep /\ UNCHANGED budgetVars
Others == BudgetRests /\ OtherStep /\ UNCHANGED budgetVars

Next == CallsEbay \/ Scans \/ Others

Spec == Init /\ [][Next]_vars

-----------------------------------------------------------------------------

\* What eBay meters, the jobs, the keys and the scans are well formed.
TypeOK == BudgetTypeOK /\ AlertsTypeOK

=============================================================================
