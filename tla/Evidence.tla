------------------------------- MODULE Evidence -------------------------------
(***************************************************************************)
(* From titles to comparables: a title is read once into the columns the   *)
(* filters use, and a table of listings turns, pass by pass, into the      *)
(* sales that value the rest.                                              *)
(*                                                                         *)
(* The two meet in the columns only, so a behaviour is about one of them:  *)
(* about one item that is read, or about a table whose rows come with      *)
(* their columns.                                                          *)
(***************************************************************************)
EXTENDS Extraction, Valuation

CONSTANTS MaxRows,    \* bound: the table's size; ids also order the neighbours
          Kinds,      \* the listings there may be: rows less their clocks
          Items,      \* titles with category, aspects and condition
          Leap,       \* days a tick takes
          MaxDay,     \* bound: the clock stops here
          None

ASSUME EvidenceAssumption ==
  /\ MaxRows \in Nat
  /\ Leap \in Nat \ {0}
  /\ MaxDay \in Nat
  /\ Null \notin Int /\ Null \notin {"bare", "bundle", "complete"}
  /\ \A i \in Items :
       /\ i.title.count \in Nat
       /\ \A k \in i.title.kits : k.size \in Nat
       /\ i.aspects \in Seq(Nat \cup {Null})
  /\ \A k \in Kinds :
       /\ {"price", "shippingCost"} \subseteq DOMAIN k
       /\ k.price \in Int
       /\ k.shippingCost \in Int \cup {Null}

VARIABLES rows,    \* the listing table
          day,     \* now
          twinned, \* history: sold while a young row with its photo was not
          item,    \* the item being read, None where the table is the subject
          variant  \* what was read, None before

vars == <<rows, day, twinned, item, variant>>

Listed(kind) ==
  LET clocks == [status |-> "active", firstSeen |-> day,
                 saleConfidence |-> Null, priceConfidence |-> Null]
  IN  [column \in DOMAIN clocks \cup DOMAIN kind |->
         IF column \in DOMAIN clocks THEN clocks[column] ELSE kind[column]]

Active == {l \in DOMAIN rows : rows[l].status = "active"}
Sold == {l \in DOMAIN rows : rows[l].status = "likely_sold"}

Init ==
  /\ rows = [l \in {} |-> None]
  /\ day = 0
  /\ twinned = {}
  /\ item \in Items \cup {None}
  /\ variant = None

-----------------------------------------------------------------------------

Read ==
  /\ item # None
  /\ variant = None
  /\ variant' = ExtractVariant(item.title, item.aspects, item.category, item.condition)
  /\ UNCHANGED <<rows, day, twinned, item>>

Insert(kind) ==
  /\ item = None
  /\ Cardinality(DOMAIN rows) < MaxRows
  /\ rows' = LET id == Cardinality(DOMAIN rows) + 1 IN
             [l \in DOMAIN rows \cup {id} |-> IF l = id THEN Listed(kind) ELSE rows[l]]
  /\ UNCHANGED <<day, twinned, item, variant>>

Scored(l) ==
  [rows[l] EXCEPT
     !.status = "likely_sold",
     !.saleConfidence = SaleConfidence(rows[l], Relists(rows, l, day) # {}),
     !.priceConfidence = PriceConfidence(rows[l])]

\* Said apart from Relists, for the history.
HasYoungTwin(l) ==
  \E other \in Active \ {l} :
    /\ rows[l].imageHash = rows[other].imageHash /\ rows[l].imageHash # Null
    /\ day <= rows[other].firstSeen + RelistGraceDays

\* One pass confirms S.  The relists of each are looked up in a session that
\* does not see what the pass has judged so far.
ConfirmSales(S) ==
  /\ item = None
  /\ S # {}
  /\ rows' = [l \in DOMAIN rows |-> IF l \in S THEN Scored(l) ELSE rows[l]]
  /\ twinned' = twinned \cup {l \in S : HasYoungTwin(l)}
  /\ UNCHANGED <<day, item, variant>>

Tick ==
  /\ item = None
  /\ day + Leap <= MaxDay
  /\ day' = day + Leap
  /\ UNCHANGED <<rows, twinned, item, variant>>

Next ==
  \/ Read
  \/ \E kind \in Kinds : Insert(kind)
  \/ \E S \in SUBSET Active : ConfirmSales(S)
  \/ Tick

Spec == Init /\ [][Next]_vars

-----------------------------------------------------------------------------
(* Properties of what is read.                                             *)

\* The table holds active and sold rows, only sold ones are scored, within
\* bounds, and a lot that is read has at least two of its kind.
TypeOK ==
  /\ DOMAIN rows \subseteq 1..MaxRows
  /\ \A l \in DOMAIN rows :
       /\ rows[l].status \in {"active", "likely_sold"}
       /\ rows[l].firstSeen \in 0..day
       /\ rows[l].status = "likely_sold" <=> rows[l].saleConfidence # Null
       /\ l \in Sold => rows[l].saleConfidence \in 1..One
       /\ l \in Sold => rows[l].priceConfidence \in 1..One
  /\ twinned \subseteq Sold
  /\ variant # None => variant.lotSize = Null \/ variant.lotSize >= MinLotSize

\* A kit of modules, with its total, the size of one module or both written
\* out, is one offer of its total, never a list of variants (ml/extract.py,
\* _kit_capacities against _is_multi_variant).
StatesOneKit(i) ==
  /\ \E k \in i.title.kits :
       /\ i.title.kits = {k}
       /\ k.modules \in MinLotSize..MaxKitModules
       /\ Plausible(k.modules * k.size)
       /\ i.title.sizes \subseteq {k.size, k.modules * k.size}
  /\ i.title.lists = {}
  /\ i.title.says \subseteq {"component"} /\ Says(i.title, "component")
  /\ ~Files(i.category, SingleCapacityTokens \cup MultiComponentTokens)

KitIsOneOffer ==
  variant # None /\ StatesOneKit(item) =>
    /\ ~variant.priceIsFrom
    /\ variant.capacity \in {k.modules * k.size : k \in item.title.kits}

\* "No GPU" on a machine is a configuration, and the machine stays a comp of
\* bare machines; on a component it is a part that is gone, and the listing is
\* no comp for anything.  Three rules read these words, each with a guard of
\* its own (the bare marker, the missing component, the missing product).
AbsenceOnly(i) ==
  /\ Says(i.title, "missing")
  /\ i.title.says \subseteq {"missing", "notProduct", "machineWord"}
  /\ i.title.strong = {} /\ i.title.count = 0
  /\ i.title.sizes = {} /\ i.title.lists = {}
  /\ i.condition # "forParts"
  /\ ~Files(i.category, AccessoryTokens \cup LotTokens)

MissingIsBareOrBroken ==
  variant # None /\ AbsenceOnly(item) =>
    /\ variant.completeness = "bare"
    /\ Says(item.title, "machineWord") => UsableAsComp(variant)
    /\ IsComponentCategory(item.category) /\ ~Says(item.title, "machineWord")
         => ~UsableAsComp(variant)

-----------------------------------------------------------------------------
(* Properties of the table.                                                *)

\* A listing whose photo was on another unsold listing of the last weeks when
\* it disappeared is evidence for no value, whatever else spoke for a sale:
\* bids and a quick disappearance do not make up for a relist.
RelistedIsNoComp ==
  \A l \in twinned :
    \A subject \in DOMAIN rows : l \notin FindSoldComps(rows, subject)

\* The exact price of that: a fixed-price listing that was gone quickly is
\* kept from the comps only while another listing with its photo is unsold, or
\* because such a one was judged in the same pass, where each still sees the
\* other for sale and neither sale counts.
QuickSaleIsLostOnlyToATwin ==
  [][\A l \in Active \cap Sold' :
       /\ ~rows[l].isAuction
       /\ rows[l].endGap = Null
       /\ QuickDisappearance(rows[l])
       /\ ~PassesGate(rows'[l].saleConfidence)
       => \E other \in Active \ {l} : rows[other].imageHash = rows[l].imageHash]_vars

\* The estimate is the price of a comp and splits the weight of the comps in
\* half: less than half is below it, at least half is at or below it
\* (weighted_median, behind estimate_value).
WeightWhere(C, Test(_)) == TotalWeight(rows, {c \in C : Test(CompPrice(rows[c]))})

EstimateSplitsTheWeight ==
  \A l \in DOMAIN rows : HasEstimate(rows, l) =>
    LET C == FindSoldComps(rows, l)
        value == Estimate(rows, l) IN
    /\ value \in Prices(rows, C)
    /\ 2 * WeightWhere(C, LAMBDA p : p < value) < TotalWeight(rows, C)
    /\ 2 * WeightWhere(C, LAMBDA p : p <= value) >= TotalWeight(rows, C)

\* Narrowing the scan to what shares an identity with something sold loses no
\* deal on a listing that has a model key (deal_candidates).  Of the narrowing
\* only: the limits of find_deals are not in FindDeals.
Scannable(l) ==
  l \in Active /\ ComparableRow(rows[l]) /\ ~rows[l].isAuction

KeyedDealsAreFound ==
  \A l \in DOMAIN rows :
    /\ Scannable(l)
    /\ rows[l].modelKey # Null
    /\ IsDeal(rows, l)
    => l \in FindDeals(rows)

\* A match shows lots, broken things and accessories only when they have the
\* very photo of the listing, and the catalogue knows no two usable ones.
UnusableOnlyBySharedPhoto ==
  \A l \in DOMAIN rows : \A top \in TopCandidates(rows, l, SearchK) :
    \A c \in MatchedFrom(rows, l, SearchK, top) :
      ~ComparableRow(rows[c]) =>
        /\ rows[c].imageHash = rows[l].imageHash
        /\ Cardinality(Peers(rows, l, top)) < MinPeers

=============================================================================
