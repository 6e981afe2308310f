------------------------------ MODULE Valuation ------------------------------
(***************************************************************************)
(* Comparables, the value estimate and the deals found with it             *)
(* (ml/similar.py, ml/valuation.py), and what a photo or a catalogue id    *)
(* brings together (ml/match.py).                                          *)
(*                                                                         *)
(* Everything is a function of the table: rows by id.  A vector's distance *)
(* is only ever used to order the neighbours, and the ids stand for that   *)
(* order.  Money is an integer, confidences are integers over One.         *)
(***************************************************************************)
EXTENDS SaleScoring, SequencesExt

CONSTANTS SearchK,    \* COMP_SEARCH_K
          MinComps    \* min_comps_for_valuation

ASSUME ValuationAssumption == SearchK \in Nat \ {0} /\ MinComps \in Nat \ {0}

SpecColumns == {"completeness", "capacity", "generation", "formFactor"}

MinDealTenths == 2        \* deal_min_score 0.2
MinConfidenceTenths == 3  \* deal_min_confidence 0.3
MinPeers == 2

-----------------------------------------------------------------------------
(* Retrieval.                                                              *)

ComparableRow(r) ==
  /\ r.lotSize = Null
  /\ ~r.hasDefect
  /\ ~r.isAccessory
  /\ ~r.priceIsFrom

\* A spec the subject states keeps the rows that agree or say nothing.
Agrees(value, column) == value = Null \/ column \in {value, Null}

IsNeighbour(rows, l, c) ==
  /\ c # l
  /\ rows[c].embedded
  /\ ComparableRow(rows[c])
  /\ rows[l].category # Null => rows[c].category = rows[l].category
  /\ rows[l].modelKey # Null => rows[c].modelKey = rows[l].modelKey
  /\ \A column \in SpecColumns : Agrees(rows[l][column], rows[c][column])

\* The k nearest of those, sold or not.
FindSimilar(rows, l, k) ==
  LET all == {c \in DOMAIN rows : IsNeighbour(rows, l, c)} IN
  {c \in all : Cardinality({d \in all : d < c}) < k}

\* Only then are the sold ones kept, and of those the credible ones.
FindSoldComps(rows, l) ==
  IF ~rows[l].embedded THEN {}
  ELSE {c \in FindSimilar(rows, l, SearchK) :
          /\ rows[c].status = "likely_sold"
          /\ PassesGate(rows[c].saleConfidence)}

-----------------------------------------------------------------------------
(* The estimate.                                                           *)

\* Delivered cost where shipping is known, the item's price otherwise.
CompPrice(r) == IF r.shippingCost = Null THEN r.price ELSE r.price + r.shippingCost

Weight(r) == IF r.priceConfidence \in {Null, 0} THEN One ELSE r.priceConfidence

TotalWeight(rows, C) == MapThenSumSet(LAMBDA c : Weight(rows[c]), C)

Precedes(rows, c, d) ==
  \/ CompPrice(rows[c]) < CompPrice(rows[d])
  \/ CompPrice(rows[c]) = CompPrice(rows[d]) /\ c < d

\* The comps sorted by price: the i-th has i - 1 before it.
ByPrice(rows, C) ==
  [i \in 1..Cardinality(C) |->
     CHOOSE c \in C : Cardinality({d \in C : Precedes(rows, d, c)}) = i - 1]

\* Mutant: more than half has to be reached.
StrictWeightedMedian(rows, C) ==
  LET ordered == ByPrice(rows, C)
      running(i) == TotalWeight(rows, {ordered[j] : j \in 1..i})
      reaching == {i \in DOMAIN ordered : 2 * running(i) > TotalWeight(rows, C)}
  IN CompPrice(rows[ordered[Min(reaching)]])

\* The first of the ordered comps whose running weight reaches half.
WeightedMedian(rows, C) ==
  LET ordered == ByPrice(rows, C)
      running(i) == TotalWeight(rows, {ordered[j] : j \in 1..i})
      reaching == {i \in DOMAIN ordered : 2 * running(i) >= TotalWeight(rows, C)}
  IN CompPrice(rows[ordered[Min(reaching)]])

UpperMedian(s) == SortSeq(s, <)[Len(s) \div 2 + 1]

Prices(rows, C) == {CompPrice(rows[c]) : c \in C}

\* max/min above 2, or anything over a price of zero.
WideSpread(rows, C) ==
  LET low == Min(Prices(rows, C)) IN low <= 0 \/ Max(Prices(rows, C)) > 2 * low

Confidence(rows, C) ==
  LET comps == SetToSeq(C)
      scored == SelectSeq(comps, LAMBDA c : rows[c].saleConfidence # Null)
      sales == [i \in DOMAIN scored |-> rows[scored[i]].saleConfidence]
      weights == [i \in DOMAIN comps |-> Weight(rows[comps[i]])]
      few == Scaled(One, Len(comps) < 5, 5 + Len(comps), 10)
      wide == Scaled(few, WideSpread(rows, C), 3, 5)
      sold == IF sales = <<>> THEN wide ELSE (wide * UpperMedian(sales)) \div One
  IN Clamp((sold * UpperMedian(weights)) \div One)

HasEstimate(rows, l) == Cardinality(FindSoldComps(rows, l)) >= MinComps

Estimate(rows, l) == WeightedMedian(rows, FindSoldComps(rows, l))

IsDeal(rows, l) ==
  LET estimate == Estimate(rows, l) IN
  /\ HasEstimate(rows, l)
  /\ estimate > 0
  /\ 10 * (estimate - CompPrice(rows[l])) >= MinDealTenths * estimate
  /\ 10 * Confidence(rows, FindSoldComps(rows, l)) >= MinConfidenceTenths * One

-----------------------------------------------------------------------------
(* The scan.                                                               *)

SoldValues(rows, column) ==
  {rows[c][column] : c \in {c \in DOMAIN rows : rows[c].status = "likely_sold"}} \ {Null}

\* Mutant: both identities have to be known among the sold.
DoublyIdentifiedCandidates(rows) ==
  {l \in DOMAIN rows :
     /\ rows[l].status = "active" /\ rows[l].embedded
     /\ ComparableRow(rows[l]) /\ ~rows[l].isAuction
     /\ rows[l].modelKey \in SoldValues(rows, "modelKey")
     /\ rows[l].epid \in SoldValues(rows, "epid")}

\* With nothing identified among the sold, the restriction is dropped.
DealCandidates(rows) ==
  LET models == SoldValues(rows, "modelKey")
      epids == SoldValues(rows, "epid") IN
  {l \in DOMAIN rows :
     /\ rows[l].status = "active"
     /\ rows[l].embedded
     /\ ComparableRow(rows[l])
     /\ ~rows[l].isAuction
     /\ \/ models = {} /\ epids = {}
        \/ rows[l].modelKey \in models
        \/ rows[l].epid \in epids}

\* All of them: find_deals can stop the scan after scan_limit candidates, and
\* returns the limit best of what it finds, which is left out.
FindDeals(rows) == {l \in DealCandidates(rows) : IsDeal(rows, l)}

-----------------------------------------------------------------------------
(* Matching.                                                               *)

FindByImageHash(rows, l) ==
  {c \in DOMAIN rows \ {l} : rows[l].imageHash # Null
                             /\ rows[c].imageHash = rows[l].imageHash}

\* Mutant: the catalogue id is trusted, whatever is sold under it.
EverythingOfEpid(rows, epid, l) ==
  {c \in DOMAIN rows \ {l} : rows[c].epid = epid}

CompsForEpid(rows, epid, l) ==
  {c \in DOMAIN rows \ {l} :
     /\ rows[c].epid = epid
     /\ ComparableRow(rows[c])
     /\ Agrees(rows[l].completeness, rows[c].completeness)}

\* The photo first, whatever the rows with it are; vectors otherwise.
Identified(rows, l, k) ==
  LET exact == FindByImageHash(rows, l) IN
  CASE exact # {} -> exact
    [] exact = {} /\ rows[l].embedded -> FindSimilar(rows, l, k)
    [] OTHER -> {}

\* Two peers in the catalogue replace the candidates that led to them.
Peers(rows, l, top) ==
  IF rows[top].epid = Null THEN {} ELSE CompsForEpid(rows, rows[top].epid, l)

\* The order of the candidates that share a photo is the database's choice.
MatchedFrom(rows, l, k, top) ==
  IF Cardinality(Peers(rows, l, top)) >= MinPeers
  THEN Peers(rows, l, top) ELSE Identified(rows, l, k)

TopCandidates(rows, l, k) ==
  LET found == Identified(rows, l, k) IN
  IF FindByImageHash(rows, l) # {} \/ found = {} THEN found ELSE {Min(found)}

=============================================================================
