---------------------------- MODULE MCSavedSearches ----------------------------
(***************************************************************************)
(* SavedSearches for TLC: nothing tells two ids, keywords or threads apart.*)
(***************************************************************************)
EXTENDS SavedSearches, TLC

Symmetry == Permutations(Ids) \cup Permutations(Keywords) \cup Permutations(Threads)

=============================================================================
