--------------------------- MODULE ListingContract ---------------------------
(***************************************************************************)
(* What the tracker promises about one listing, whatever the interleaving  *)
(* of searches, disappearance checks, faults and crashes: the phases a     *)
(* reader of the database can observe, and the moves between them.  One    *)
(* transaction may move many listings at once, each along its own edge.    *)
(*                                                                         *)
(* The phase is the status column together with the pending strike (a      *)
(* missing_since that is set): models.py ListingStatus and missing_since.  *)
(***************************************************************************)
CONSTANT Listings

VARIABLE phase

Phases == {"unknown", "active", "struck", "stale", "staleStruck", "sold"}

\* The promised moves.  "sold" has one way in, from a pending strike, and no
\* way out; a retired listing only ever comes back as a clean active one.
Moves == {<<"unknown", "active">>,
          <<"active", "struck">>, <<"struck", "active">>, <<"struck", "sold">>,
          <<"active", "stale">>, <<"struck", "staleStruck">>,
          <<"stale", "active">>, <<"staleStruck", "active">>}

Init == phase = [l \in Listings |-> "unknown"]

Next == /\ phase' \in [Listings -> Phases]
        /\ \A l \in Listings :
             phase'[l] = phase[l] \/ <<phase[l], phase'[l]>> \in Moves

Spec == Init /\ [][Next]_phase

=============================================================================
