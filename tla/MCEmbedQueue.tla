----------------------------- MODULE MCEmbedQueue -----------------------------
(***************************************************************************)
(* EmbedQueue for TLC: tables of one and of three tasks, and the symmetry  *)
(* of the runs without liveness.                                           *)
(***************************************************************************)
EXTENDS EmbedQueue, TLC

OneTask == <<"embed">>
ThreeTasks == <<"ingest", "embed", "deal_scan">>

EveryPoll == [t \in Tasks |-> 1]
IngestLessOften == [t \in Tasks |-> IF t = "ingest" THEN 2 ELSE 1]

TheirQueues ==
  [t \in Tasks |-> IF t = "embed" THEN "undercut-ml" ELSE "undercut"]

Symmetry == Permutations(Photos) \cup Permutations(Clients)

=============================================================================
