---------------------------- MODULE EvidenceProofs ----------------------------
(***************************************************************************)
(* What is read from any title and what counts as a comparable in any      *)
(* table, proved for every set of listings and items, any size of the      *)
(* table and any pace of the clock.                                        *)
(*                                                                         *)
(* The scores are bounded factor by factor: whatever else speaks for a     *)
(* sale, the factor of a relist leaves it below the gate, and without one  *)
(* a quick sale stays above.                                               *)
(***************************************************************************)
EXTENDS Evidence, FiniteSetTheorems, WellFoundedInduction, TLAPS

-----------------------------------------------------------------------------
(***************************************************************************)
(* Scores.                                                                 *)
(***************************************************************************)

LEMMA Constants == One = 40000 /\ Gate = 12000 /\ (3 * One) \div 4 = 30000
BY DEF One, Gate

\* A factor is applied, rounding down, or not.
LEMMA ScaledIs ==
  ASSUME NEW x \in Nat, NEW fired, NEW num \in {1, 2, 3, 6, 9, 19},
         NEW den \in {2, 4, 5, 10, 20}
  PROVE  \E y \in Nat :
           /\ Scaled(x, fired, num, den) = y
           /\ y = x \/ (den * y <= num * x /\ num * x < den * y + den)
<1>1. (x * num) \div den \in Nat
  OBVIOUS
<1>2. /\ den * ((x * num) \div den) <= num * x
      /\ num * x < den * ((x * num) \div den) + den
  <2>1. ASSUME NEW n \in Nat
        PROVE  den * (n \div den) <= n /\ n < den * (n \div den) + den
    OBVIOUS
  <2>2. x * num \in Nat /\ x * num = num * x
    OBVIOUS
  <2> QED BY <2>1, <2>2
<1> QED BY <1>1, <1>2 DEF Scaled

\* The factors of a disappearance that follow the relist's.
AfterRelist(s, base) ==
  LET noBids == Scaled(base, NoBids(s), 1, 20)
      bids == Scaled(noBids, HadBids(s), 3, 2)
      end == Scaled(bids, EndedAtScheduledEnd(s), 2, 5)
      term == Scaled(end, NearTerm(s), 1, 2)
  IN  Scaled(term, QuickDisappearance(s), 6, 5)

LEMMA RelistComesFirst ==
  ASSUME NEW s, NEW relisted
  PROVE  SaleConfidence(s, relisted) =
           Clamp(AfterRelist(s, Scaled(30000, relisted, 3, 20)))
BY Constants DEF SaleConfidence, AfterRelist

\* They raise a score by at most 1.5 * 1.2, and never to nothing.
LEMMA FactorsAreBounded ==
  ASSUME NEW s, NEW base \in {4500, 30000}
  PROVE  /\ AfterRelist(s, base) \in Nat
         /\ 45 <= AfterRelist(s, base) /\ 10 * AfterRelist(s, base) <= 18 * base
<1> DEFINE noBids == Scaled(base, NoBids(s), 1, 20)
           bids == Scaled(noBids, HadBids(s), 3, 2)
           end == Scaled(bids, EndedAtScheduledEnd(s), 2, 5)
           term == Scaled(end, NearTerm(s), 1, 2)
           quick == Scaled(term, QuickDisappearance(s), 6, 5)
<1>0. quick = AfterRelist(s, base)
  BY DEF AfterRelist
<1>1. noBids \in Nat /\ 225 <= noBids /\ noBids <= base
  BY ScaledIs
<1> HIDE DEF noBids
<1>2. bids \in Nat /\ 225 <= bids /\ 2 * bids <= 3 * base
  BY <1>1, ScaledIs
<1> HIDE DEF bids
<1>3. end \in Nat /\ 90 <= end /\ 2 * end <= 3 * base
  BY <1>2, ScaledIs
<1> HIDE DEF end
<1>4. term \in Nat /\ 45 <= term /\ 2 * term <= 3 * base
  BY <1>3, ScaledIs
<1> HIDE DEF term
<1>5. quick \in Nat /\ 45 <= quick /\ 10 * quick <= 18 * base
  BY <1>4, ScaledIs
<1> HIDE DEF quick
<1> QED BY <1>0, <1>5

\* A score is a share of One, and with a relist it stays below the gate.
LEMMA SaleConfidenceBounds ==
  ASSUME NEW s, NEW relisted
  PROVE  /\ SaleConfidence(s, relisted) \in 1..One
         /\ relisted => SaleConfidence(s, relisted) < Gate
<1> DEFINE base == Scaled(30000, relisted, 3, 20)
           score == AfterRelist(s, base)
<1>1. base \in {4500, 30000} /\ (relisted => base = 4500)
  BY DEF Scaled
<1> HIDE DEF base
<1>2. score \in Nat /\ 45 <= score /\ 10 * score <= 18 * base
  BY <1>1, FactorsAreBounded
<1> HIDE DEF score
<1>3. SaleConfidence(s, relisted) = Clamp(score)
  BY RelistComesFirst DEF base, score
<1> QED BY <1>1, <1>2, <1>3, Constants DEF Clamp

\* A fixed price without a published end that was gone quickly, and of which
\* no relist is known, counts.
LEMMA QuickSaleCounts ==
  ASSUME NEW s, ~s.isAuction, s.endGap = Null, QuickDisappearance(s),
         NEW relisted, ~relisted
  PROVE  SaleConfidence(s, relisted) >= Gate
<1>1. ~NoBids(s) /\ ~HadBids(s) /\ ~EndedAtScheduledEnd(s) /\ ~NearTerm(s)
  BY DEF NoBids, HadBids, EndedAtScheduledEnd, EndIsPublished, QuickDisappearance
<1>2. AfterRelist(s, 30000) = 36000
  BY <1>1 DEF AfterRelist, Scaled
<1>3. Scaled(30000, relisted, 3, 20) = 30000
  BY DEF Scaled
<1> QED BY <1>2, <1>3, RelistComesFirst, Constants DEF Clamp

LEMMA PriceConfidenceBounds ==
  ASSUME NEW s PROVE PriceConfidence(s) \in 1..One
<1> DEFINE offer == Scaled(40000, s.acceptsBestOffer, 3, 4)
           auction == Scaled(offer, s.isAuction, 3, 5)
           free == Scaled(auction, s.shippingCost = Null, 9, 10)
           final == Scaled(free, s.shippingCost # Null /\ s.shippingEstimated, 19, 20)
<1>0. PriceConfidence(s) = Clamp(final)
  BY Constants DEF PriceConfidence
<1>1. offer \in Nat /\ 1000 <= offer /\ offer <= 40000
  BY ScaledIs
<1> HIDE DEF offer
<1>2. auction \in Nat /\ 599 <= auction /\ auction <= 40000
  BY <1>1, ScaledIs
<1> HIDE DEF auction
<1>3. free \in Nat /\ 538 <= free /\ free <= 40000
  BY <1>2, ScaledIs
<1> HIDE DEF free
<1>4. final \in Nat /\ 500 <= final /\ final <= 40000
  BY <1>3, ScaledIs
<1> HIDE DEF final
<1> QED BY <1>0, <1>4, Constants DEF Clamp
-----------------------------------------------------------------------------
(***************************************************************************)
(* The first that is stated, and what is read with it.                     *)
(***************************************************************************)

Less == {p \in Nat \X Nat : p[1] < p[2]}

LEMMA MinIsLeast ==
  ASSUME NEW S \in SUBSET Nat, S # {}
  PROVE  Min(S) \in S /\ \A x \in S : Min(S) <= x
<1>1. IsWellFoundedOn(Less, Nat)
  BY NatLessThanWellFounded DEF OpToRel, Less
<1>2. \A x, y \in Nat : x <= y \/ <<y, x>> \in Less
  BY DEF Less
<1> HIDE DEF Less
<1>3. \A R, U, T : IsWellFoundedOn(R, U) /\ T \subseteq U /\ T # {}
                     => \E x \in T : \A y \in T : ~ (<<y, x>> \in R)
  BY WFMin, Zenon
<1>4. \E x \in S : \A y \in S : ~ (<<y, x>> \in Less)
  BY <1>1, <1>3, Zenon
<1>5. \E x \in S : \A y \in S : x <= y
  BY <1>2, <1>4
<1> QED BY <1>5 DEF Min

\* The Null entries are passed over, in order.
LEMMA FirstStatedIs ==
  ASSUME NEW s, DOMAIN s \subseteq Nat
  PROVE  /\ (\A i \in DOMAIN s : s[i] = Null) => FirstStated(s) = Null
         /\ (\E i \in DOMAIN s : s[i] # Null) =>
              \E i \in DOMAIN s : /\ FirstStated(s) = s[i] /\ s[i] # Null
                                  /\ \A j \in DOMAIN s : s[j] # Null => i <= j
<1> DEFINE stated == {i \in DOMAIN s : s[i] # Null}
<1>1. FirstStated(s) = IF stated = {} THEN Null ELSE s[Min(stated)]
  BY DEF FirstStated
<1>2. CASE stated = {}
  BY <1>1, <1>2
<1>3. CASE stated # {}
  <2>1. Min(stated) \in stated /\ \A x \in stated : Min(stated) <= x
    BY <1>3, MinIsLeast
  <2> QED BY <1>1, <1>3, <2>1
<1> QED BY <1>2, <1>3

\* What comes first is what is taken.
LEMMA FirstCounts ==
  ASSUME NEW s, DOMAIN s \subseteq Nat, 1 \in DOMAIN s, 0 \notin DOMAIN s, s[1] # Null
  PROVE  FirstStated(s) = s[1]
BY FirstStatedIs

\* A lot is of at least two.
LEMMA LotsAreOfTwo ==
  ASSUME NEW t, NEW c, t.count \in Nat
  PROVE  LotSize(t, c) = Null \/ LotSize(t, c) >= MinLotSize
<1> DEFINE Lot(n) == n = Null \/ n >= MinLotSize
<1>1. ASSUME NEW a, NEW b, Lot(a), Lot(b) PROVE Lot(FirstStated(<<a, b>>))
  <2>1. \A i \in DOMAIN <<a, b>> : Lot(<<a, b>>[i])
    BY <1>1
  <2> QED BY <2>1, FirstStatedIs
<1>2. /\ Lot(When(t.count >= MinLotSize, t.count))
      /\ Lot(When(t.count = 0 /\ Says(t, "lot"), MinLotSize))
      /\ Lot(When(Files(c, LotTokens), MinLotSize))
  BY DEF When, MinLotSize
<1> HIDE DEF Lot
<1>3. Lot(LotSizeInTitle(t))
  BY <1>1, <1>2 DEF LotSizeInTitle
<1>4. Lot(LotSize(t, c))
  BY <1>1, <1>2, <1>3 DEF LotSize
<1> QED BY <1>4 DEF Lot

LEMMA TwoAtMost ==
  ASSUME NEW a, NEW b, NEW S \in SUBSET {a, b}
  PROVE  Cardinality(S) \in Nat /\ Cardinality(S) <= 2
<1>1. IsFiniteSet({a}) /\ Cardinality({a}) = 1
  BY FS_Singleton
<1>2. IsFiniteSet({a} \cup {b})
      /\ Cardinality({a} \cup {b}) = IF b \in {a} THEN 1 ELSE 2
  BY <1>1, FS_AddElement
<1>3. {a} \cup {b} = {a, b}
  OBVIOUS
<1> QED BY <1>2, <1>3, FS_Subset, FS_CardinalityType

LEMMA KitIsRead ==
  ASSUME NEW i \in Items, StatesOneKit(i)
  PROVE  /\ ~IsMultiVariant(i.title, i.category)
         /\ Capacity(i.title, i.aspects, i.category)
              \in {k.modules * k.size : k \in i.title.kits}
<1> DEFINE t == i.title
           c == i.category
<1>1. PICK k \in t.kits :
        /\ t.kits = {k}
        /\ k.modules \in MinLotSize..MaxKitModules
        /\ Plausible(k.modules * k.size)
        /\ t.sizes \subseteq {k.size, k.modules * k.size}
  BY DEF StatesOneKit
<1>2. /\ t.lists = {} /\ t.says = {"component"}
      /\ ~Files(c, SingleCapacityTokens) /\ ~Files(c, MultiComponentTokens)
  BY DEF StatesOneKit, Says, Files
<1>3. SharedUnitCapacities(t) = {}
  BY <1>2 DEF SharedUnitCapacities
<1>4. DistinctCapacities(t) \subseteq {k.size, k.modules * k.size}
  BY <1>1, <1>3 DEF DistinctCapacities, PlainCapacities
<1>5. ~IsMultiVariant(t, c)
  <2>1. Cardinality(DistinctCapacities(t)) \in Nat
        /\ Cardinality(DistinctCapacities(t)) <= 2
    BY <1>4, TwoAtMost
  <2> QED BY <1>2, <2>1 DEF IsMultiVariant, Says, MinVariantCapacities
<1> DEFINE total == k.modules * k.size
<1>6. k.size \in Nat /\ total \in Nat /\ k.size <= total
  <2>1. k.size \in Nat /\ k.modules \in 2..8
    BY <1>1, EvidenceAssumption DEF EvidenceAssumption, MinLotSize, MaxKitModules
  <2>2. k.modules \in {2, 3, 4, 5, 6, 7, 8}
    BY <2>1
  <2> QED BY <2>1, <2>2
<1>7. KitTotals(t, c) = {total}
  BY <1>1, <1>2 DEF KitTotals, Says
<1>8. CapacityGb(t, c) = total
  <2> DEFINE S == KitTotals(t, c) \cup PlainCapacities(t)
  <2>1. total \in S /\ S \subseteq {k.size, total}
    BY <1>1, <1>7 DEF PlainCapacities
  <2> HIDE DEF S, total
  <2>0. total >= k.size /\ total >= total
    BY <1>6
  <2>2. total \in S /\ \A y \in S : y \in Nat /\ total >= y
    BY <1>6, <2>0, <2>1
  <2>3. \A x \in S : (\A y \in S : x >= y) => x = total
    BY <2>2, <1>6
  <2>4. Max(S) = total
    BY <2>2, <2>3 DEF Max
  <2> QED BY <2>1, <2>4 DEF CapacityGb, LargestOf, S
<1>9. Capacity(t, i.aspects, c) = total
  <2> DEFINE s == <<total>> \o i.aspects
  <2>1. i.aspects \in Seq(Nat \cup {Null}) /\ Null \notin Nat
    BY EvidenceAssumption DEF EvidenceAssumption
  <2>2. s \in Seq(Nat \cup {Null}) /\ 1 \in DOMAIN s /\ s[1] = total
    BY <1>6, <2>1
  <2>3. DOMAIN s \subseteq Nat /\ 0 \notin DOMAIN s
    BY <2>2
  <2>4. FirstStated(s) = total
    BY <1>6, <2>1, <2>2, <2>3, FirstCounts
  <2> QED BY <1>8, <2>4 DEF Capacity
<1> QED BY <1>1, <1>5, <1>9

LEMMA AbsenceIsRead ==
  ASSUME NEW i \in Items, AbsenceOnly(i)
  PROVE  /\ Completeness(i.title) = "bare"
         /\ Says(i.title, "machineWord") =>
              /\ LotSize(i.title, i.category) = Null
              /\ ~HasDefect(i.title, i.category, i.condition)
              /\ ~IsAccessory(i.title, i.category)
              /\ ~IsMultiVariant(i.title, i.category)
         /\ IsComponentCategory(i.category) /\ ~Says(i.title, "machineWord")
              => HasDefect(i.title, i.category, i.condition)
<1> DEFINE t == i.title
           c == i.category
<1>1. /\ "missing" \in t.says /\ t.says \subseteq {"missing", "notProduct", "machineWord"}
      /\ t.strong = {} /\ t.count = 0 /\ t.sizes = {} /\ t.lists = {}
      /\ i.condition # "forParts" /\ ~Files(c, AccessoryTokens) /\ ~Files(c, LotTokens)
  BY DEF AbsenceOnly, Says, Files
<1>2. Null \notin {"bare", "bundle", "complete"}
  BY EvidenceAssumption DEF EvidenceAssumption
<1>3. Completeness(t) = "bare"
  <2> DEFINE s == <<When(Says(t, "bare") \/ Says(t, "missing"), "bare"),
                    When(Says(t, "bundle"), "bundle"),
                    When(Says(t, "includes") \/ t.accessories >= MinImpliedAccessories,
                         "complete")>>
  <2>1. s[1] = "bare" /\ DOMAIN s = 1..3
    BY <1>1 DEF When, Says
  <2> HIDE DEF s
  <2>2. FirstStated(s) = "bare"
    BY <1>2, <2>1, FirstCounts
  <2> QED BY <2>2 DEF s, Completeness
<1>4. LotSize(t, c) = Null
  <2>1. \A s : DOMAIN s = 1..2 /\ s[1] = Null /\ s[2] = Null => FirstStated(s) = Null
    BY FirstStatedIs
  <2>2. /\ When(t.count >= MinLotSize, t.count) = Null
        /\ When(t.count = 0 /\ Says(t, "lot"), MinLotSize) = Null
        /\ When(Files(c, LotTokens), MinLotSize) = Null
    BY <1>1 DEF When, MinLotSize, Says
  <2>3. LotSizeInTitle(t) = Null
    BY <2>1, <2>2 DEF LotSizeInTitle
  <2> QED BY <2>1, <2>2, <2>3 DEF LotSize
<1>5. Says(t, "machineWord") => ~HasDefect(t, c, i.condition) /\ ~IsAccessory(t, c)
  BY <1>1 DEF HasDefect, IsAccessory, Says
<1>6. ~IsMultiVariant(t, c)
  <2>1. DistinctCapacities(t) = {}
    BY <1>1 DEF DistinctCapacities, SharedUnitCapacities, PlainCapacities
  <2>2. Cardinality(DistinctCapacities(t)) = 0
    BY <2>1, FS_EmptySet
  <2> QED BY <1>1, <2>2 DEF IsMultiVariant, Says, MinVariantCapacities
<1>7. IsComponentCategory(c) /\ ~Says(t, "machineWord") => HasDefect(t, c, i.condition)
  BY <1>1 DEF HasDefect, Says
<1> QED BY <1>3, <1>4, <1>5, <1>6, <1>7
-----------------------------------------------------------------------------
(***************************************************************************)
(* The table and the reader.                                               *)
(***************************************************************************)

Stored == {"status", "firstSeen", "saleConfidence", "priceConfidence",
           "price", "shippingCost"}

\* A row has a price; an unsold one is not scored, and a sold one is, twice.
RowInv(l) ==
  /\ Stored \subseteq DOMAIN rows[l]
  /\ rows[l].price \in Int /\ rows[l].shippingCost \in Int \cup {Null}
  /\ rows[l].firstSeen \in Nat /\ rows[l].firstSeen <= day
  /\ \/ rows[l].status = "active" /\ rows[l].saleConfidence = Null
     \/ /\ rows[l].status = "likely_sold"
        /\ rows[l].saleConfidence \in 1..One
        /\ rows[l].priceConfidence \in 1..One

\* Ids are given in order.
TableInv ==
  /\ \E n \in 0..MaxRows : DOMAIN rows = 1..n
  /\ day \in Nat
  /\ \A l \in DOMAIN rows : RowInv(l)

\* What sold while a young row with its photo did not is below the gate.
TwinInv == \A l \in twinned : l \in Sold /\ rows[l].saleConfidence < Gate

\* What was read was read from the item.
ReadInv ==
  /\ item \in Items \cup {None}
  /\ variant # None =>
       /\ item \in Items
       /\ variant = ExtractVariant(item.title, item.aspects, item.category, item.condition)

EvidenceInv == TableInv /\ TwinInv /\ ReadInv

LEMMA TableFinite ==
  ASSUME TableInv
  PROVE  /\ IsFiniteSet(DOMAIN rows)
         /\ DOMAIN rows = 1..Cardinality(DOMAIN rows)
         /\ Cardinality(DOMAIN rows) \in 0..MaxRows
<1>1. PICK n \in 0..MaxRows : DOMAIN rows = 1..n
  BY DEF TableInv
<1>2. MaxRows \in Nat
  BY EvidenceAssumption DEF EvidenceAssumption
<1>3. IsFiniteSet(1..n) /\ Cardinality(1..n) = n
  BY <1>1, <1>2, FS_Interval
<1> QED BY <1>1, <1>3

LEMMA EvidenceStart == Init => EvidenceInv
<1> SUFFICES ASSUME Init PROVE EvidenceInv
  OBVIOUS
<1>1. DOMAIN rows = {} /\ 1..0 = {} /\ 0 \in 0..MaxRows
  BY EvidenceAssumption DEF EvidenceAssumption, Init
<1>2. TableInv
  BY <1>1 DEF Init, TableInv
<1> QED BY <1>2 DEF Init, EvidenceInv, TwinInv, ReadInv

LEMMA ReadKeeps ==
  ASSUME EvidenceInv, Read PROVE EvidenceInv'
<1>1. UNCHANGED <<rows, day, twinned, item>>
  BY DEF Read
<1>2. TableInv' /\ TwinInv'
  BY <1>1 DEF EvidenceInv, TableInv, RowInv, TwinInv, Sold
<1>3. ReadInv'
  BY <1>1 DEF EvidenceInv, ReadInv, Read
<1> QED BY <1>2, <1>3 DEF EvidenceInv

LEMMA InsertKeeps ==
  ASSUME EvidenceInv, NEW kind \in Kinds, Insert(kind) PROVE EvidenceInv'
<1>0. PICK id : id = Cardinality(DOMAIN rows) + 1
  OBVIOUS
<1>1. /\ DOMAIN rows = 1..(id - 1) /\ id \in 1..MaxRows /\ id \notin DOMAIN rows
      /\ MaxRows \in Nat
  BY <1>0, TableFinite, EvidenceAssumption DEF EvidenceAssumption, EvidenceInv, Insert
<1>2. /\ DOMAIN rows' = DOMAIN rows \cup {id}
      /\ rows'[id] = Listed(kind)
      /\ \A l \in DOMAIN rows : rows'[l] = rows[l]
      /\ UNCHANGED <<day, twinned, item, variant>>
  BY <1>0, <1>1 DEF Insert
<1>3. DOMAIN rows' = 1..id
  BY <1>1, <1>2
<1>4. RowInv(id)'
  <2>0. /\ {"price", "shippingCost"} \subseteq DOMAIN kind
        /\ kind.price \in Int /\ kind.shippingCost \in Int \cup {Null}
    BY EvidenceAssumption DEF EvidenceAssumption
  <2>1. /\ Stored \subseteq DOMAIN Listed(kind)
        /\ Listed(kind).status = "active" /\ Listed(kind).firstSeen = day
        /\ Listed(kind).saleConfidence = Null
        /\ Listed(kind).price = kind.price
        /\ Listed(kind).shippingCost = kind.shippingCost
    BY <2>0 DEF Listed, Stored
  <2>2. day \in Nat /\ day' = day /\ day <= day
    BY <1>2 DEF EvidenceInv, TableInv
  <2>3. /\ rows'[id].firstSeen = day /\ rows'[id].status = "active"
        /\ rows'[id].saleConfidence = Null
        /\ Stored \subseteq DOMAIN rows'[id]
        /\ rows'[id].price \in Int /\ rows'[id].shippingCost \in Int \cup {Null}
    BY <1>2, <2>0, <2>1
  <2> QED BY <2>2, <2>3 DEF RowInv
<1>5. \A l \in DOMAIN rows : RowInv(l)'
  BY <1>2 DEF RowInv, EvidenceInv, TableInv
<1>6. TableInv'
  <2>1. id \in 0..MaxRows
    BY <1>1
  <2>2. \A l \in DOMAIN rows' : RowInv(l)'
    BY <1>2, <1>4, <1>5
  <2> QED BY <1>2, <1>3, <2>1, <2>2 DEF EvidenceInv, TableInv
<1>7. TwinInv'
  BY <1>2 DEF EvidenceInv, TwinInv, Sold
<1> QED BY <1>2, <1>6, <1>7 DEF EvidenceInv, ReadInv

\* A young twin is a relist: no young row with the photo is left out.
LEMMA TwinsAreRelists ==
  ASSUME TableInv, NEW l \in DOMAIN rows, HasYoungTwin(l)
  PROVE  Relists(rows, l, day) # {}
<1>1. PICK other \in Active \ {l} :
        /\ rows[l].imageHash = rows[other].imageHash /\ rows[l].imageHash # Null
        /\ day <= rows[other].firstSeen + RelistGraceDays
  BY DEF HasYoungTwin
<1>2. rows[other].firstSeen >= day - RelistGraceDays
  BY <1>1 DEF TableInv, RowInv, Active, RelistGraceDays
<1>3. other \in Relists(rows, l, day)
  BY <1>1, <1>2 DEF Relists, IsRelistOf, Active
<1> QED BY <1>3

LEMMA ScoredIs ==
  ASSUME TableInv, NEW l \in DOMAIN rows
  PROVE  /\ DOMAIN Scored(l) = DOMAIN rows[l]
         /\ Scored(l).status = "likely_sold"
         /\ Scored(l).firstSeen = rows[l].firstSeen
         /\ Scored(l).price = rows[l].price
         /\ Scored(l).shippingCost = rows[l].shippingCost
         /\ Scored(l).saleConfidence =
              SaleConfidence(rows[l], Relists(rows, l, day) # {})
         /\ Scored(l).priceConfidence = PriceConfidence(rows[l])
BY DEF Scored, TableInv, RowInv, Stored

LEMMA ConfirmKeeps ==
  ASSUME EvidenceInv, NEW S \in SUBSET Active, ConfirmSales(S) PROVE EvidenceInv'
<1>1. /\ DOMAIN rows' = DOMAIN rows /\ S \subseteq DOMAIN rows
      /\ \A l \in S : rows'[l] = Scored(l)
      /\ \A l \in DOMAIN rows \ S : rows'[l] = rows[l]
      /\ twinned' = twinned \cup {l \in S : HasYoungTwin(l)}
      /\ UNCHANGED <<day, item, variant>>
  BY DEF ConfirmSales, Active
<1>2. ASSUME NEW l \in S
      PROVE  RowInv(l)' /\ (HasYoungTwin(l) => rows'[l].saleConfidence < Gate)
  <2>1. /\ rows'[l].saleConfidence = SaleConfidence(rows[l], Relists(rows, l, day) # {})
        /\ rows'[l].priceConfidence = PriceConfidence(rows[l])
        /\ rows'[l].status = "likely_sold" /\ rows'[l].firstSeen = rows[l].firstSeen
        /\ rows'[l].price = rows[l].price /\ rows'[l].shippingCost = rows[l].shippingCost
        /\ DOMAIN rows'[l] = DOMAIN rows[l]
    BY <1>1, ScoredIs DEF EvidenceInv
  <2>2. /\ rows'[l].saleConfidence \in 1..One
        /\ Relists(rows, l, day) # {} => rows'[l].saleConfidence < Gate
    BY <2>1, SaleConfidenceBounds
  <2>3. rows'[l].priceConfidence \in 1..One
    BY <2>1, PriceConfidenceBounds
  <2>4. RowInv(l)'
    BY <1>1, <2>1, <2>2, <2>3 DEF RowInv, EvidenceInv, TableInv
  <2> QED BY <1>1, <2>2, <2>4, TwinsAreRelists DEF EvidenceInv
<1>3. ASSUME NEW l \in DOMAIN rows \ S PROVE RowInv(l)'
  BY <1>1 DEF RowInv, EvidenceInv, TableInv
<1>4. TableInv'
  BY <1>1, <1>2, <1>3 DEF EvidenceInv, TableInv
<1>5. TwinInv'
  <2> SUFFICES ASSUME NEW l \in twinned'
               PROVE  l \in Sold' /\ rows'[l].saleConfidence < Gate
    BY DEF TwinInv
  <2>1. CASE l \in S
    <3>1. HasYoungTwin(l)
      BY <1>1, <2>1 DEF EvidenceInv, TwinInv, Sold, Active
    <3>2. rows'[l].status = "likely_sold"
      BY <1>1, <2>1, ScoredIs DEF EvidenceInv
    <3> QED BY <1>1, <1>2, <2>1, <3>1, <3>2 DEF Sold
  <2>2. CASE l \notin S
    BY <1>1, <2>2 DEF EvidenceInv, TwinInv, Sold
  <2> QED BY <2>1, <2>2
<1> QED BY <1>1, <1>4, <1>5 DEF EvidenceInv, ReadInv

LEMMA TickKeeps ==
  ASSUME EvidenceInv, Tick PROVE EvidenceInv'
<1>1. day' \in Nat /\ day <= day' /\ UNCHANGED <<rows, twinned, item, variant>>
  BY EvidenceAssumption DEF EvidenceAssumption, Tick, EvidenceInv, TableInv
<1>2. \A l \in DOMAIN rows : RowInv(l)'
  BY <1>1 DEF EvidenceInv, TableInv, RowInv
<1>3. TableInv'
  BY <1>1, <1>2 DEF EvidenceInv, TableInv
<1> QED BY <1>1, <1>3 DEF EvidenceInv, TwinInv, ReadInv, Sold

LEMMA EvidenceStep == EvidenceInv /\ [Next]_vars => EvidenceInv'
<1> SUFFICES ASSUME EvidenceInv, [Next]_vars PROVE EvidenceInv'
  OBVIOUS
<1>1. CASE UNCHANGED vars
  BY <1>1 DEF vars, EvidenceInv, TableInv, RowInv, TwinInv, ReadInv, Sold
<1> QED BY <1>1, ReadKeeps, InsertKeeps, ConfirmKeeps, TickKeeps DEF Next

\* The table is scored within bounds, and what was read is the item's.
THEOREM EvidenceCorrect == Spec => []EvidenceInv
<1> QED BY EvidenceStart, EvidenceStep, PTL DEF Spec

LEMMA EvidenceTypes == EvidenceInv => TypeOK
<1> SUFFICES ASSUME EvidenceInv PROVE TypeOK
  OBVIOUS
<1>0. /\ TableInv /\ TwinInv /\ ReadInv
      /\ Null \notin Int /\ MaxRows \in Nat
      /\ \A i \in Items : i.title.count \in Nat
  BY EvidenceAssumption DEF EvidenceAssumption, EvidenceInv
<1>1. DOMAIN rows \subseteq 1..MaxRows
  BY <1>0 DEF TableInv
<1>2. ASSUME NEW l \in DOMAIN rows
      PROVE  /\ rows[l].status \in {"active", "likely_sold"}
             /\ rows[l].firstSeen \in 0..day
             /\ rows[l].status = "likely_sold" <=> rows[l].saleConfidence # Null
             /\ l \in Sold => rows[l].saleConfidence \in 1..One
             /\ l \in Sold => rows[l].priceConfidence \in 1..One
  <2>1. RowInv(l) /\ day \in Nat
    BY <1>0 DEF TableInv
  <2>2. Null \notin 1..One
    BY <1>0
  <2>3. rows[l].firstSeen \in 0..day
    BY <2>1 DEF RowInv
  <2> QED BY <2>1, <2>2, <2>3 DEF RowInv, Sold
<1>3. twinned \subseteq Sold
  BY <1>0 DEF TwinInv
<1>4. variant # None => variant.lotSize = Null \/ variant.lotSize >= MinLotSize
  <2> SUFFICES ASSUME variant # None
               PROVE  variant.lotSize = Null \/ variant.lotSize >= MinLotSize
    OBVIOUS
  <2>1. item \in Items /\ variant.lotSize = LotSize(item.title, item.category)
    BY <1>0 DEF ReadInv, ExtractVariant
  <2> QED BY <1>0, <2>1, LotsAreOfTwo
<1> QED BY <1>1, <1>2, <1>3, <1>4 DEF TypeOK

\* Every score that is stored is positive and at most one, whatever a row says
\* of its bids, its end and its lifetime, and only sold rows have one.
THEOREM EvidenceTypeCorrect == Spec => []TypeOK
<1> QED BY EvidenceCorrect, EvidenceTypes, PTL

\* ml/extract.py: a kit of modules has one price for all of it, and its total
\* is its capacity, however the title writes the sizes.
THEOREM KitsAreOneOffer == Spec => []KitIsOneOffer
<1>1. EvidenceInv => KitIsOneOffer
  <2> SUFFICES ASSUME EvidenceInv, variant # None, StatesOneKit(item)
               PROVE  /\ ~variant.priceIsFrom
                      /\ variant.capacity \in {k.modules * k.size : k \in item.title.kits}
    BY DEF KitIsOneOffer
  <2>1. /\ item \in Items
        /\ variant = ExtractVariant(item.title, item.aspects, item.category, item.condition)
    BY DEF EvidenceInv, ReadInv
  <2>2. /\ variant.priceIsFrom = IsMultiVariant(item.title, item.category)
        /\ variant.capacity = Capacity(item.title, item.aspects, item.category)
    BY <2>1 DEF ExtractVariant
  <2> QED BY <2>1, <2>2, KitIsRead
<1> QED BY <1>1, EvidenceCorrect, PTL

\* ml/extract.py: "no GPU" leaves a machine a comp of bare machines and makes
\* a component no comp at all, on any title that says nothing else.
THEOREM MissingIsRead == Spec => []MissingIsBareOrBroken
<1>1. EvidenceInv => MissingIsBareOrBroken
  <2> SUFFICES ASSUME EvidenceInv, variant # None, AbsenceOnly(item)
               PROVE  /\ variant.completeness = "bare"
                      /\ Says(item.title, "machineWord") => UsableAsComp(variant)
                      /\ IsComponentCategory(item.category) /\ ~Says(item.title, "machineWord")
                           => ~UsableAsComp(variant)
    BY DEF MissingIsBareOrBroken
  <2>1. /\ item \in Items
        /\ variant = ExtractVariant(item.title, item.aspects, item.category, item.condition)
    BY DEF EvidenceInv, ReadInv
  <2>2. /\ variant.completeness = Completeness(item.title)
        /\ variant.lotSize = LotSize(item.title, item.category)
        /\ variant.hasDefect = HasDefect(item.title, item.category, item.condition)
        /\ variant.isAccessory = IsAccessory(item.title, item.category)
        /\ variant.priceIsFrom = IsMultiVariant(item.title, item.category)
    BY <2>1 DEF ExtractVariant
  <2> QED BY <2>1, <2>2, AbsenceIsRead DEF UsableAsComp
<1> QED BY <1>1, EvidenceCorrect, PTL

\* find_relist and the gate of ml/similar.py: what was relisted values nothing.
THEOREM RelistsValueNothing == Spec => []RelistedIsNoComp
<1>1. EvidenceInv => RelistedIsNoComp
  <2> SUFFICES ASSUME EvidenceInv, NEW l \in twinned, NEW subject \in DOMAIN rows
               PROVE  l \notin FindSoldComps(rows, subject)
    BY DEF RelistedIsNoComp
  <2>1. l \in DOMAIN rows /\ rows[l].status = "likely_sold" /\ rows[l].saleConfidence < Gate
    BY DEF EvidenceInv, TwinInv, Sold
  <2>2. rows[l].saleConfidence # Null /\ rows[l].saleConfidence \in Nat
    <3>1. RowInv(l) /\ Null \notin Int
      BY <2>1, EvidenceAssumption DEF EvidenceAssumption, EvidenceInv, TableInv
    <3>2. rows[l].saleConfidence \in 1..One
      BY <2>1, <3>1 DEF RowInv
    <3>3. \A x \in 1..One : x \in Nat
      BY Constants
    <3> QED BY <3>1, <3>2, <3>3
  <2>3. ~PassesGate(rows[l].saleConfidence)
    BY <2>1, <2>2, Constants DEF PassesGate
  <2> QED BY <2>3 DEF FindSoldComps
<1> QED BY <1>1, EvidenceCorrect, PTL

\* sale_confidence: a quick fixed-price sale falls short of the gate only next
\* to another unsold listing with its photo.
THEOREM QuickSalesCount == Spec => QuickSaleIsLostOnlyToATwin
<1> DEFINE Lost(l) == /\ ~rows[l].isAuction
                      /\ rows[l].endGap = Null
                      /\ QuickDisappearance(rows[l])
                      /\ ~PassesGate(rows'[l].saleConfidence)
           Twin(l) == \E other \in Active \ {l} : rows[other].imageHash = rows[l].imageHash
<1>1. EvidenceInv /\ [Next]_vars
        => [\A l \in Active \cap Sold' : Lost(l) => Twin(l)]_vars
  <2> SUFFICES ASSUME EvidenceInv, Next, NEW l \in Active \cap Sold', Lost(l)
               PROVE  Twin(l)
    OBVIOUS
  <2>1. l \in DOMAIN rows /\ rows[l].status = "active" /\ rows'[l].status = "likely_sold"
    BY DEF Active, Sold
  <2>2. ~Read /\ ~Tick
    BY <2>1 DEF Read, Tick
  <2>3. ASSUME NEW kind \in Kinds, Insert(kind) PROVE FALSE
    <3>1. PICK id : id = Cardinality(DOMAIN rows) + 1
      OBVIOUS
    <3>2. id \notin DOMAIN rows
      BY <3>1, TableFinite DEF EvidenceInv
    <3> QED BY <2>1, <2>3, <3>1, <3>2 DEF Insert
  <2>4. PICK S \in SUBSET Active : ConfirmSales(S)
    BY <2>2, <2>3 DEF Next
  <2>5. l \in S /\ rows'[l] = Scored(l)
    BY <2>1, <2>4 DEF ConfirmSales
  <2>6. rows'[l].saleConfidence = SaleConfidence(rows[l], Relists(rows, l, day) # {})
    BY <2>1, <2>5, ScoredIs DEF EvidenceInv
  <2>7. Relists(rows, l, day) # {}
    <3> SUFFICES ASSUME ~(Relists(rows, l, day) # {}) PROVE FALSE
      OBVIOUS
    <3>1. rows'[l].saleConfidence >= Gate
      BY <2>6, QuickSaleCounts
    <3> QED BY <3>1 DEF PassesGate
  <2>8. PICK other \in DOMAIN rows : IsRelistOf(rows, l, other, day)
    BY <2>7 DEF Relists
  <2>9. other \in Active \ {l} /\ rows[other].imageHash = rows[l].imageHash
    BY <2>8 DEF IsRelistOf, EvidenceInv, TableInv, RowInv, Active
  <2> QED BY <2>9
<1> QED BY <1>1, EvidenceCorrect, PTL DEF Spec, QuickSaleIsLostOnlyToATwin
-----------------------------------------------------------------------------
(***************************************************************************)
(* What the operators of the feed and of the match return, in any table.   *)
(***************************************************************************)

\* A value needs a comp, and comps of a keyed listing share its key.
LEMMA ValuedKeysAreSold ==
  ASSUME NEW l \in DOMAIN rows, HasEstimate(rows, l), rows[l].modelKey # Null
  PROVE  rows[l].embedded /\ rows[l].modelKey \in SoldValues(rows, "modelKey")
<1>1. FindSoldComps(rows, l) # {}
  BY FS_EmptySet, ValuationAssumption DEF HasEstimate, ValuationAssumption
<1>2. PICK c \in FindSoldComps(rows, l) : TRUE
  BY <1>1
<1>3. /\ rows[l].embedded /\ c \in DOMAIN rows
      /\ IsNeighbour(rows, l, c) /\ rows[c].status = "likely_sold"
  BY <1>2 DEF FindSoldComps, FindSimilar
<1> QED BY <1>3 DEF IsNeighbour, SoldValues

\* deal_candidates: the scan may skip whatever shares no identity with a sale
\* and still finds every deal on a listing with a model key.
THEOREM KeyedDealsSurviveTheScan == Spec => []KeyedDealsAreFound
<1>1. KeyedDealsAreFound
  <2> SUFFICES ASSUME NEW l \in DOMAIN rows, Scannable(l), rows[l].modelKey # Null,
                      IsDeal(rows, l)
               PROVE  l \in FindDeals(rows)
    BY DEF KeyedDealsAreFound
  <2>1. HasEstimate(rows, l)
    BY DEF IsDeal
  <2>2. rows[l].embedded /\ rows[l].modelKey \in SoldValues(rows, "modelKey")
    BY <2>1, ValuedKeysAreSold
  <2>3. l \in DealCandidates(rows)
    BY <2>2 DEF DealCandidates, Scannable, Active
  <2> QED BY <2>3 DEF FindDeals
<1> QED BY <1>1, PTL

\* match: what is no comp is shown for its photo alone.
THEOREM UnusableTakesThePhoto == Spec => []UnusableOnlyBySharedPhoto
<1>1. EvidenceInv => UnusableOnlyBySharedPhoto
  <2> SUFFICES ASSUME EvidenceInv, NEW l \in DOMAIN rows,
                      NEW top \in TopCandidates(rows, l, SearchK),
                      NEW c \in MatchedFrom(rows, l, SearchK, top),
                      ~ComparableRow(rows[c])
               PROVE  /\ rows[c].imageHash = rows[l].imageHash
                      /\ Cardinality(Peers(rows, l, top)) < MinPeers
    BY DEF UnusableOnlyBySharedPhoto
  <2>1. Cardinality(Peers(rows, l, top)) \in Nat
    <3>1. Peers(rows, l, top) \subseteq DOMAIN rows
      BY DEF Peers, CompsForEpid
    <3> QED BY <3>1, TableFinite, FS_Subset, FS_CardinalityType DEF EvidenceInv
  <2>2. c \notin Peers(rows, l, top)
    BY DEF Peers, CompsForEpid
  <2>3. /\ Cardinality(Peers(rows, l, top)) < MinPeers
        /\ c \in Identified(rows, l, SearchK)
    BY <2>1, <2>2 DEF MatchedFrom, MinPeers
  <2>4. c \notin FindSimilar(rows, l, SearchK)
    BY DEF FindSimilar, IsNeighbour
  <2>5. c \in FindByImageHash(rows, l)
    BY <2>3, <2>4 DEF Identified
  <2> QED BY <2>3, <2>5 DEF FindByImageHash
<1> QED BY <1>1, EvidenceCorrect, PTL

-----------------------------------------------------------------------------
(***************************************************************************)
(* Sums of weights.  The sum is a recursion over the subsets of a set, an  *)
(* element taken out at a time; that there is such a recursion, that it is *)
(* the same for the parts of a set, and that the order of the elements     *)
(* does not matter, all follow from a smallest counterexample.             *)
(***************************************************************************)

\* Of a family of subsets, one holds no other.
LEMMA SmallestOne ==
  ASSUME NEW C, IsFiniteSet(C), NEW Family \in SUBSET SUBSET C, Family # {}
  PROVE  \E s \in Family : \A t \in Family : t \subseteq s => t = s
<1> DEFINE Sizes == {Cardinality(s) : s \in Family}
<1>1. \A s \in Family : IsFiniteSet(s) /\ Cardinality(s) \in Nat
  BY FS_Subset, FS_CardinalityType
<1>2. Sizes \in SUBSET Nat /\ Sizes # {}
  BY <1>1
<1>3. PICK n \in Sizes : \A m \in Sizes : n <= m
  BY <1>2, MinIsLeast
<1>4. PICK s \in Family : Cardinality(s) = n
  BY <1>3
<1>5. ASSUME NEW t \in Family, t \subseteq s PROVE t = s
  <2>1. Cardinality(t) <= Cardinality(s)
    BY <1>1, <1>5, FS_Subset
  <2>2. Cardinality(s) <= Cardinality(t)
    BY <1>3, <1>4
  <2>3. Cardinality(t) = Cardinality(s)
    BY <1>1, <2>1, <2>2
  <2> QED BY <1>1, <1>5, <2>3, FS_Subset
<1> QED BY <1>5

OneOf(s) == CHOOSE x \in s : TRUE

\* f adds up the weights of the subsets of C, an element of each at a time.
AddsUp(f, tbl, C) ==
  f = [s \in SUBSET C |->
         IF s = {} THEN 0 ELSE Weight(tbl[OneOf(s)]) + f[s \ {OneOf(s)}]]

LEMMA TotalWeightAddsUp ==
  ASSUME NEW tbl, NEW C
  PROVE  TotalWeight(tbl, C) = (CHOOSE f : AddsUp(f, tbl, C))[C]
BY DEF TotalWeight, MapThenSumSet, MapThenFoldSet, AddsUp, OneOf

Weighed(tbl, C) == IsFiniteSet(C) /\ \A c \in C : Weight(tbl[c]) \in Nat

LEMMA OneOfIsIn == ASSUME NEW s, s # {} PROVE OneOf(s) \in s
BY DEF OneOf

\* There is such a function: one that is right up to some size is taken a
\* size further by its own equation.
LEMMA SomethingAddsUp ==
  ASSUME NEW tbl, NEW C, Weighed(tbl, C)
  PROVE  \E f \in [SUBSET C -> Nat] : AddsUp(f, tbl, C)
<1> DEFINE By(f, s) == IF s = {} THEN 0 ELSE Weight(tbl[OneOf(s)]) + f[s \ {OneOf(s)}]
           Right(f, n) == \A s \in SUBSET C : Cardinality(s) <= n => f[s] = By(f, s)
           Wrong == {n \in Nat : \A f \in [SUBSET C -> Nat] : ~Right(f, n)}
<1>1. \A s \in SUBSET C : IsFiniteSet(s) /\ Cardinality(s) \in Nat
  BY FS_Subset, FS_CardinalityType DEF Weighed
<1>2. \A f \in [SUBSET C -> Nat] : \A s \in SUBSET C : By(f, s) \in Nat
  <2> SUFFICES ASSUME NEW f \in [SUBSET C -> Nat], NEW s \in SUBSET C, s # {}
               PROVE  Weight(tbl[OneOf(s)]) + f[s \ {OneOf(s)}] \in Nat
    OBVIOUS
  <2>1. Weight(tbl[OneOf(s)]) \in Nat /\ s \ {OneOf(s)} \in SUBSET C
    BY OneOfIsIn DEF Weighed
  <2> QED BY <2>1
<1>3. Wrong = {}
  <2> SUFFICES ASSUME Wrong # {} PROVE FALSE
    OBVIOUS
  <2>1. PICK n \in Wrong : \A m \in Wrong : n <= m
    BY MinIsLeast
  <2>2. CASE n = 0
    <3> DEFINE f == [s \in SUBSET C |-> 0]
    <3>1. \A s \in SUBSET C : Cardinality(s) <= 0 => s = {}
      BY <1>1, FS_EmptySet
    <3>2. f \in [SUBSET C -> Nat] /\ Right(f, 0)
      BY <3>1
    <3> QED BY <2>1, <2>2, <3>2
  <2>3. CASE n # 0
    <3>1. n - 1 \in Nat /\ n - 1 \notin Wrong
      <4>1. n \in Nat /\ ~(n <= n - 1) /\ n - 1 \in Nat
        BY <2>3
      <4> HIDE DEF Wrong
      <4> QED BY <2>1, <4>1
    <3>2. PICK f \in [SUBSET C -> Nat] : Right(f, n - 1)
      BY <3>1
    <3> DEFINE g == [s \in SUBSET C |-> By(f, s)]
    <3>3. g \in [SUBSET C -> Nat]
      BY <1>2
    <3>4. ASSUME NEW s \in SUBSET C, Cardinality(s) <= n PROVE g[s] = By(g, s)
      <4>1. CASE s = {}
        BY <4>1
      <4>2. CASE s # {}
        <5> DEFINE t == s \ {OneOf(s)}
        <5>1. t \in SUBSET C /\ Cardinality(t) = Cardinality(s) - 1
          BY <1>1, <4>2, OneOfIsIn, FS_RemoveElement
        <5>2. Cardinality(t) <= n - 1
          BY <1>1, <3>4, <5>1
        <5>3. g[t] = f[t]
          BY <3>2, <5>1, <5>2
        <5> QED BY <4>2, <5>3
      <4> QED BY <4>1, <4>2
    <3>5. Right(g, n)
      BY <3>4
    <3> HIDE DEF g
    <3> QED BY <2>1, <3>3, <3>5
  <2> QED BY <2>2, <2>3
<1>4. Cardinality(C) \notin Wrong /\ Cardinality(C) \in Nat
  BY <1>1, <1>3
<1>5. PICK f \in [SUBSET C -> Nat] : Right(f, Cardinality(C))
  BY <1>4
<1>6. \A s \in SUBSET C : f[s] = By(f, s)
  <2>1. \A s \in SUBSET C : Cardinality(s) <= Cardinality(C)
    BY FS_Subset DEF Weighed
  <2> QED BY <1>5, <2>1
<1>7. f = [s \in SUBSET C |-> By(f, s)]
  BY <1>6
<1> QED BY <1>7 DEF AddsUp

\* And it is the same for the sets that are part of another.
LEMMA AllAddUpAlike ==
  ASSUME NEW tbl, NEW C, IsFiniteSet(C), NEW T \in SUBSET C,
         NEW f, AddsUp(f, tbl, C), NEW g, AddsUp(g, tbl, T)
  PROVE  f[T] = g[T]
<1> DEFINE Apart == {s \in SUBSET T : f[s] # g[s]}
<1>1. /\ \A s \in SUBSET C : f[s] = IF s = {} THEN 0
                                    ELSE Weight(tbl[OneOf(s)]) + f[s \ {OneOf(s)}]
      /\ \A s \in SUBSET T : g[s] = IF s = {} THEN 0
                                    ELSE Weight(tbl[OneOf(s)]) + g[s \ {OneOf(s)}]
  BY DEF AddsUp
<1>2. Apart = {}
  <2> SUFFICES ASSUME Apart # {} PROVE FALSE
    OBVIOUS
  <2>0. Apart \in SUBSET SUBSET T /\ IsFiniteSet(T)
    BY FS_Subset
  <2>1. PICK s \in Apart : \A t \in Apart : t \subseteq s => t = s
    <3> HIDE DEF Apart
    <3> QED BY <2>0, SmallestOne
  <2>2. s # {} /\ s \in SUBSET T /\ s \in SUBSET C
    BY <1>1, <2>1
  <2> DEFINE t == s \ {OneOf(s)}
  <2>3. t \in SUBSET T /\ t # s /\ t \subseteq s
    BY <2>2, OneOfIsIn
  <2>4. f[t] = g[t]
    BY <2>1, <2>3
  <2> QED BY <1>1, <2>1, <2>2, <2>4
<1> QED BY <1>2

\* The equations of the sum, for every part of what is weighed.
LEMMA TotalWeightStep ==
  ASSUME NEW tbl, NEW C, Weighed(tbl, C), NEW s \in SUBSET C
  PROVE  /\ TotalWeight(tbl, s) \in Nat
         /\ s = {} => TotalWeight(tbl, s) = 0
         /\ s # {} => TotalWeight(tbl, s)
                        = Weight(tbl[OneOf(s)]) + TotalWeight(tbl, s \ {OneOf(s)})
<1>1. PICK f \in [SUBSET C -> Nat] : AddsUp(f, tbl, C)
  BY SomethingAddsUp
<1>2. ASSUME NEW t \in SUBSET C PROVE TotalWeight(tbl, t) = f[t]
  <2>1. Weighed(tbl, t) /\ IsFiniteSet(C)
    BY FS_Subset DEF Weighed
  <2>2. \E g : AddsUp(g, tbl, t)
    BY <2>1, SomethingAddsUp
  <2>3. AddsUp((CHOOSE g : AddsUp(g, tbl, t)), tbl, t)
    BY <2>2
  <2> QED BY <1>1, <2>1, <2>3, AllAddUpAlike, TotalWeightAddsUp
<1>3. f[s] = IF s = {} THEN 0 ELSE Weight(tbl[OneOf(s)]) + f[s \ {OneOf(s)}]
  BY <1>1 DEF AddsUp
<1>4. s \ {OneOf(s)} \in SUBSET C
  OBVIOUS
<1> QED BY <1>1, <1>2, <1>3, <1>4

\* Which one is taken out first does not matter.
LEMMA TotalWeightWithout ==
  ASSUME NEW tbl, NEW C, Weighed(tbl, C), NEW c \in C
  PROVE  TotalWeight(tbl, C) = Weight(tbl[c]) + TotalWeight(tbl, C \ {c})
<1> DEFINE W(s) == TotalWeight(tbl, s)
           Without(s, x) == W(s) = Weight(tbl[x]) + W(s \ {x})
           Wrong == {s \in SUBSET C : \E x \in s : ~Without(s, x)}
<1>1. \A s \in SUBSET C : W(s) \in Nat /\ (s # {} => Without(s, OneOf(s)))
  BY TotalWeightStep
<1>2. IsFiniteSet(C) /\ \A x \in C : Weight(tbl[x]) \in Nat
  BY DEF Weighed
<1> HIDE DEF W
<1>3. Wrong = {}
  <2> SUFFICES ASSUME Wrong # {} PROVE FALSE
    OBVIOUS
  <2>0. Wrong \in SUBSET SUBSET C
    OBVIOUS
  <2>1. PICK s \in Wrong : \A t \in Wrong : t \subseteq s => t = s
    <3> HIDE DEF Wrong
    <3> QED BY <1>2, <2>0, SmallestOne
  <2>2. PICK x \in s : ~Without(s, x)
    BY <2>1
  <2> DEFINE y == OneOf(s)
  <2>3. y \in s /\ x # y /\ Without(s, y) /\ s \in SUBSET C
    BY <1>1, <2>2, OneOfIsIn
  <2> HIDE DEF y
  <2>4. Without(s \ {y}, x) /\ Without(s \ {x}, y)
    <3>1. s \ {y} \notin Wrong /\ s \ {x} \notin Wrong
      BY <2>1, <2>2, <2>3
    <3>2. x \in s \ {y} /\ y \in s \ {x} /\ s \ {y} \in SUBSET C /\ s \ {x} \in SUBSET C
      BY <2>2, <2>3
    <3> QED BY <3>1, <3>2
  <2>5. (s \ {y}) \ {x} = (s \ {x}) \ {y}
    OBVIOUS
  <2>6. W((s \ {y}) \ {x}) \in Nat /\ Weight(tbl[x]) \in Nat /\ Weight(tbl[y]) \in Nat
    BY <1>1, <1>2, <2>3
  <2>7. /\ W(s) = Weight(tbl[y]) + (Weight(tbl[x]) + W((s \ {y}) \ {x}))
        /\ W(s \ {x}) = Weight(tbl[y]) + W((s \ {y}) \ {x})
    BY <2>3, <2>4, <2>5
  <2>8. W(s) = Weight(tbl[x]) + W(s \ {x})
    BY <2>6, <2>7
  <2> QED BY <2>2, <2>8
<1> QED BY <1>3 DEF W

\* More comps weigh no less.
LEMMA TotalWeightGrows ==
  ASSUME NEW tbl, NEW C, Weighed(tbl, C), NEW A \in SUBSET C
  PROVE  TotalWeight(tbl, A) <= TotalWeight(tbl, C)
<1> DEFINE W(s) == TotalWeight(tbl, s)
           Lighter == {s \in SUBSET C : A \subseteq s /\ ~(W(A) <= W(s))}
<1>1. \A s \in SUBSET C : W(s) \in Nat /\ Weighed(tbl, s)
  BY TotalWeightStep, FS_Subset DEF Weighed
<1>2. \A s \in SUBSET C : \A x \in s : W(s) = Weight(tbl[x]) + W(s \ {x})
  BY <1>1, TotalWeightWithout
<1>3. IsFiniteSet(C) /\ \A x \in C : Weight(tbl[x]) \in Nat
  BY DEF Weighed
<1> HIDE DEF W
<1>4. Lighter = {}
  <2> SUFFICES ASSUME Lighter # {} PROVE FALSE
    OBVIOUS
  <2>0. Lighter \in SUBSET SUBSET C
    OBVIOUS
  <2>1. PICK s \in Lighter : \A t \in Lighter : t \subseteq s => t = s
    <3> HIDE DEF Lighter
    <3> QED BY <1>3, <2>0, SmallestOne
  <2>2. s \in SUBSET C /\ A \subseteq s /\ s # A
    BY <1>1, <2>1
  <2>3. PICK x \in s : x \notin A
    BY <2>2
  <2>4. W(A) <= W(s \ {x})
    BY <2>1, <2>2, <2>3
  <2>5. W(s) = Weight(tbl[x]) + W(s \ {x}) /\ ~(W(A) <= W(s))
    BY <1>2, <2>1, <2>2, <2>3
  <2>6. W(s \ {x}) \in Nat /\ W(A) \in Nat /\ Weight(tbl[x]) \in Nat
    BY <1>1, <1>3, <2>2, <2>3
  <2> QED BY <2>4, <2>5, <2>6
<1> QED BY <1>4 DEF W

\* One comp with a weight is enough.
LEMMA TotalWeightPositive ==
  ASSUME NEW tbl, NEW C, Weighed(tbl, C), C # {}, \A c \in C : Weight(tbl[c]) > 0
  PROVE  TotalWeight(tbl, C) > 0
<1>1. PICK c \in C : TRUE
  OBVIOUS
<1>2. TotalWeight(tbl, C) = Weight(tbl[c]) + TotalWeight(tbl, C \ {c})
  BY TotalWeightWithout
<1>3. TotalWeight(tbl, C \ {c}) \in Nat /\ Weight(tbl[c]) \in Nat
  BY TotalWeightStep DEF Weighed
<1> QED BY <1>2, <1>3

-----------------------------------------------------------------------------
(***************************************************************************)
(* The estimate.  A comp's rank is the number of comps before it; ranks    *)
(* are distinct, so every one of them is taken, and the comps are sorted.  *)
(***************************************************************************)

\* The comps have prices that compare, and ids that tell two of one price apart.
Priced(tbl, C) == C \subseteq Nat /\ \A c \in C : CompPrice(tbl[c]) \in Int

Rank(tbl, C, c) == Cardinality({d \in C : Precedes(tbl, d, c)})

\* The ranks are the numbers below the number of comps, each taken once.
LEMMA RanksAreNumbers ==
  ASSUME NEW tbl, NEW C, IsFiniteSet(C), Priced(tbl, C)
  PROVE  /\ \A c \in C : Rank(tbl, C, c) \in 0..(Cardinality(C) - 1)
         /\ \A c, d \in C : Precedes(tbl, c, d) <=> Rank(tbl, C, c) < Rank(tbl, C, d)
         /\ \A i \in 0..(Cardinality(C) - 1) : \E c \in C : Rank(tbl, C, c) = i
<1> DEFINE Ahead(c) == {d \in C : Precedes(tbl, d, c)}
           n == Cardinality(C)
           rank == [c \in C |-> Cardinality(Ahead(c))]
<1>1. n \in Nat
  BY FS_CardinalityType
<1>2. \A c \in C : IsFiniteSet(Ahead(c)) /\ Cardinality(Ahead(c)) \in Nat
  BY FS_Subset, FS_CardinalityType
<1>3. \A c, d \in C : c # d => (Precedes(tbl, c, d) <=> ~Precedes(tbl, d, c))
  BY DEF Priced, Precedes
<1>4. \A c \in C : ~Precedes(tbl, c, c)
  BY DEF Priced, Precedes
<1>5. \A c, d, e \in C : Precedes(tbl, c, d) /\ Precedes(tbl, d, e) => Precedes(tbl, c, e)
  BY DEF Priced, Precedes
<1>6. ASSUME NEW c \in C PROVE Cardinality(Ahead(c)) \in 0..(n - 1)
  <2>1. Ahead(c) \subseteq C \ {c}
    BY <1>4
  <2>2. IsFiniteSet(C \ {c}) /\ Cardinality(C \ {c}) = n - 1
    BY FS_RemoveElement
  <2>3. Cardinality(Ahead(c)) <= n - 1
    BY <2>1, <2>2, FS_Subset
  <2> QED BY <1>1, <1>2, <2>3
<1>7. ASSUME NEW c \in C, NEW d \in C, Precedes(tbl, c, d)
      PROVE  Cardinality(Ahead(c)) < Cardinality(Ahead(d))
  <2>1. Ahead(c) \subseteq Ahead(d) /\ c \in Ahead(d) /\ c \notin Ahead(c)
    BY <1>4, <1>5, <1>7
  <2>2. Ahead(c) \subseteq Ahead(d) \ {c}
    BY <2>1
  <2>3. IsFiniteSet(Ahead(d) \ {c}) /\ Cardinality(Ahead(d) \ {c}) = Cardinality(Ahead(d)) - 1
    BY <1>2, <2>1, FS_RemoveElement
  <2>4. Cardinality(Ahead(c)) <= Cardinality(Ahead(d)) - 1
    BY <2>2, <2>3, FS_Subset
  <2> QED BY <1>2, <2>4
<1>8. ASSUME NEW c \in C, NEW d \in C
      PROVE  Precedes(tbl, c, d) <=> rank[c] < rank[d]
  <2>1. rank[c] \in Nat /\ rank[d] \in Nat
    BY <1>2
  <2>2. CASE c = d
    BY <1>4, <2>1, <2>2
  <2>3. CASE c # d
    <3>1. Precedes(tbl, c, d) => rank[c] < rank[d]
      BY <1>7
    <3>2. Precedes(tbl, d, c) => rank[d] < rank[c]
      BY <1>7
    <3> QED BY <1>3, <2>1, <2>3, <3>1, <3>2
  <2> QED BY <2>2, <2>3
<1>9. rank \in [C -> 0..(n - 1)]
  BY <1>6
<1>10. \A c, d \in C : rank[c] = rank[d] => c = d
  <2> SUFFICES ASSUME NEW c \in C, NEW d \in C, c # d PROVE rank[c] # rank[d]
    OBVIOUS
  <2>1. rank[c] \in Nat /\ rank[d] \in Nat
    BY <1>2
  <2> QED BY <1>3, <1>8, <2>1
<1>11. \A i \in 0..(n - 1) : \E c \in C : rank[c] = i
  <2>1. IsFiniteSet(0..(n - 1)) /\ Cardinality(0..(n - 1)) = n
    BY <1>1, FS_Interval
  <2>2. rank \in Injection(C, 0..(n - 1))
    BY <1>9, <1>10 DEF Injection, IsInjective
  <2>3. rank \in Surjection(C, 0..(n - 1))
    BY <2>1, <2>2, FS_Injection
  <2> QED BY <2>3 DEF Surjection
<1> HIDE DEF rank
<1>12. \A c \in C : rank[c] = Rank(tbl, C, c)
  BY DEF rank, Rank
<1> QED BY <1>8, <1>9, <1>11, <1>12

\* So the first i of the sorted comps are those with fewer than i before them,
\* and the i-th splits the others by price.
LEMMA SortedByPrice ==
  ASSUME NEW tbl, NEW C, IsFiniteSet(C), Priced(tbl, C)
  PROVE  /\ DOMAIN ByPrice(tbl, C) = 1..Cardinality(C)
         /\ \A i \in 1..Cardinality(C) :
              ByPrice(tbl, C)[i] \in C /\ Rank(tbl, C, ByPrice(tbl, C)[i]) = i - 1
         /\ \A c \in C : \E i \in 1..Cardinality(C) :
              i = Rank(tbl, C, c) + 1 /\ ByPrice(tbl, C)[i] = c
<1> DEFINE n == Cardinality(C)
           ordered == ByPrice(tbl, C)
<1>1. n \in Nat
  BY FS_CardinalityType
<1>2. ASSUME NEW i \in 1..n PROVE ordered[i] \in C /\ Rank(tbl, C, ordered[i]) = i - 1
  <2>1. i - 1 \in 0..(n - 1)
    BY <1>1
  <2>2. \E c \in C : Rank(tbl, C, c) = i - 1
    BY <2>1, RanksAreNumbers
  <2>3. ordered[i] = CHOOSE c \in C : Rank(tbl, C, c) = i - 1
    BY DEF ByPrice, Rank
  <2> QED BY <2>2, <2>3
<1>3. ASSUME NEW c \in C
      PROVE  \E i \in 1..n : i = Rank(tbl, C, c) + 1 /\ ordered[i] = c
  <2> DEFINE i == Rank(tbl, C, c) + 1
  <2>1. Rank(tbl, C, c) \in 0..(n - 1)
    BY RanksAreNumbers
  <2>2. i \in 1..n /\ i - 1 = Rank(tbl, C, c)
    BY <1>1, <2>1
  <2>3. ordered[i] \in C /\ Rank(tbl, C, ordered[i]) = Rank(tbl, C, c)
    BY <1>2, <2>2
  <2>4. ~Precedes(tbl, c, ordered[i]) /\ ~Precedes(tbl, ordered[i], c)
    BY <2>1, <2>3, RanksAreNumbers
  <2>5. \A d \in C : c = d \/ Precedes(tbl, c, d) \/ Precedes(tbl, d, c)
    BY DEF Priced, Precedes
  <2>6. c = ordered[i]
    BY <2>3, <2>4, <2>5
  <2> QED BY <2>2, <2>6
<1>4. DOMAIN ordered = 1..n
  BY DEF ByPrice
<1> QED BY <1>2, <1>3, <1>4

Reaching(tbl, C) ==
  {i \in DOMAIN ByPrice(tbl, C) :
     2 * TotalWeight(tbl, {ByPrice(tbl, C)[j] : j \in 1..i}) >= TotalWeight(tbl, C)}

\* weighted_median: the price of a comp, with less than half of the weight
\* below it and at least half at or below it.
LEMMA WeightedMedianSplits ==
  ASSUME NEW tbl, NEW C, C # {}, Weighed(tbl, C), Priced(tbl, C),
         \A c \in C : Weight(tbl[c]) > 0
  PROVE  LET value == WeightedMedian(tbl, C) IN
         /\ value \in Prices(tbl, C)
         /\ 2 * TotalWeight(tbl, {c \in C : CompPrice(tbl[c]) < value}) < TotalWeight(tbl, C)
         /\ 2 * TotalWeight(tbl, {c \in C : CompPrice(tbl[c]) <= value}) >= TotalWeight(tbl, C)
<1> DEFINE n == Cardinality(C)
           ordered == ByPrice(tbl, C)
           First(i) == {ordered[j] : j \in 1..i}
           W(s) == TotalWeight(tbl, s)
           m == Min(Reaching(tbl, C))
           value == CompPrice(tbl[ordered[m]])
<1>1. IsFiniteSet(C) /\ n \in Nat /\ n # 0
  BY FS_CardinalityType, FS_EmptySet DEF Weighed
<1>2. /\ DOMAIN ordered = 1..n
      /\ \A i \in 1..n : ordered[i] \in C /\ Rank(tbl, C, ordered[i]) = i - 1
      /\ \A c \in C : \E i \in 1..n : i = Rank(tbl, C, c) + 1 /\ ordered[i] = c
  BY <1>1, SortedByPrice
<1>3. \A c, d \in C : Precedes(tbl, c, d) <=> Rank(tbl, C, c) < Rank(tbl, C, d)
  BY <1>1, RanksAreNumbers
<1>4. \A s \in SUBSET C : W(s) \in Nat /\ Weighed(tbl, s)
  BY TotalWeightStep, FS_Subset DEF Weighed
<1>5. \A A, B \in SUBSET C : A \subseteq B => W(A) <= W(B)
  BY <1>4, TotalWeightGrows
<1>6. W(C) > 0 /\ W({}) = 0
  BY TotalWeightPositive, TotalWeightStep
<1>7. WeightedMedian(tbl, C) = value
  BY DEF WeightedMedian, Reaching
<1>8. /\ Reaching(tbl, C) = {i \in 1..n : 2 * W(First(i)) >= W(C)}
      /\ \A i \in 1..n : First(i) \in SUBSET C
  BY <1>1, <1>2 DEF Reaching
<1> HIDE DEF W, ordered
<1>9. n \in Reaching(tbl, C)
  <2>1. First(n) = C
    BY <1>2
  <2>2. n \in 1..n /\ W(C) \in Nat
    BY <1>1, <1>4
  <2>3. 2 * W(First(n)) >= W(C)
    BY <2>1, <2>2
  <2> QED BY <1>8, <2>2, <2>3
<1>10. m \in Reaching(tbl, C) /\ \A i \in Reaching(tbl, C) : m <= i
  <2>1. Reaching(tbl, C) \in SUBSET Nat /\ Reaching(tbl, C) # {}
    BY <1>8, <1>9
  <2> QED BY <2>1, MinIsLeast
<1> HIDE DEF m
<1>11. /\ m \in 1..n /\ ordered[m] \in C /\ Rank(tbl, C, ordered[m]) = m - 1
       /\ 2 * W(First(m)) >= W(C)
  BY <1>2, <1>8, <1>10
<1>12. 2 * W(First(m - 1)) < W(C) /\ First(m - 1) \in SUBSET C
  <2>1. CASE m = 1
    <3>1. First(m - 1) = {}
      BY <2>1
    <3>2. 2 * W({}) < W(C) /\ {} \in SUBSET C
      BY <1>6, TotalWeightStep DEF W
    <3> HIDE DEF First
    <3> QED BY <3>1, <3>2
  <2>2. CASE m # 1
    <3>1. m - 1 \in 1..n /\ ~(m <= m - 1)
      BY <1>1, <1>11, <2>2
    <3>2. ~(2 * W(First(m - 1)) >= W(C)) /\ First(m - 1) \in SUBSET C
      BY <1>8, <1>10, <3>1
    <3>3. W(First(m - 1)) \in Nat /\ W(C) \in Nat
      BY <1>4, <3>2
    <3> QED BY <3>2, <3>3
  <2> QED BY <2>1, <2>2
<1>13. {c \in C : CompPrice(tbl[c]) < value} \subseteq First(m - 1)
  <2> SUFFICES ASSUME NEW c \in C, CompPrice(tbl[c]) < value
               PROVE  c \in First(m - 1)
    OBVIOUS
  <2>1. Rank(tbl, C, c) < m - 1
    BY <1>3, <1>11 DEF Precedes
  <2>2. PICK i \in 1..n : i = Rank(tbl, C, c) + 1 /\ ordered[i] = c
    BY <1>2
  <2>3. Rank(tbl, C, c) \in 0..(n - 1)
    BY <1>1, RanksAreNumbers
  <2>4. i \in 1..(m - 1)
    BY <1>1, <1>11, <2>1, <2>2, <2>3
  <2> QED BY <2>2, <2>4
<1>14. First(m) \subseteq {c \in C : CompPrice(tbl[c]) <= value}
  <2> SUFFICES ASSUME NEW i \in 1..m
               PROVE  ordered[i] \in C /\ CompPrice(tbl[ordered[i]]) <= value
    OBVIOUS
  <2>1. i \in 1..n /\ i - 1 <= m - 1
    BY <1>1, <1>11
  <2>2. ordered[i] \in C /\ Rank(tbl, C, ordered[i]) = i - 1
    BY <1>2, <2>1
  <2>3. ~(m - 1 < i - 1)
    BY <1>1, <1>11, <2>1
  <2>4. ~Precedes(tbl, ordered[m], ordered[i])
    BY <1>3, <1>11, <2>2, <2>3
  <2>5. CompPrice(tbl[ordered[i]]) \in Int /\ value \in Int
    BY <1>11, <2>2 DEF Priced
  <2> QED BY <2>2, <2>4, <2>5 DEF Precedes
<1>15. 2 * W({c \in C : CompPrice(tbl[c]) < value}) < W(C)
  <2> DEFINE below == {c \in C : CompPrice(tbl[c]) < value}
  <2>1. below \in SUBSET C
    OBVIOUS
  <2>2. W(below) <= W(First(m - 1))
    BY <1>5, <1>12, <1>13, <2>1
  <2>3. W(below) \in Nat /\ W(First(m - 1)) \in Nat /\ W(C) \in Nat
    BY <1>4, <1>12, <2>1
  <2> HIDE DEF below, First
  <2>4. 2 * W(below) < W(C)
    BY <1>12, <2>2, <2>3
  <2> QED BY <2>4 DEF below
<1>16. 2 * W({c \in C : CompPrice(tbl[c]) <= value}) >= W(C)
  <2> DEFINE within == {c \in C : CompPrice(tbl[c]) <= value}
  <2>1. within \in SUBSET C
    OBVIOUS
  <2>2. First(m) \in SUBSET C
    BY <1>8, <1>11
  <2>3. W(First(m)) <= W(within)
    BY <1>5, <1>14, <2>1, <2>2
  <2>4. W(within) \in Nat /\ W(First(m)) \in Nat /\ W(C) \in Nat
    BY <1>4, <2>1, <2>2
  <2> HIDE DEF within, First
  <2>5. 2 * W(within) >= W(C)
    BY <1>11, <2>3, <2>4
  <2> QED BY <2>5 DEF within
<1>17. value \in Prices(tbl, C)
  BY <1>11 DEF Prices
<1> QED BY <1>7, <1>15, <1>16, <1>17 DEF W, ordered

\* What the theorems below need to know of the comps of a listing.
LEMMA CompsAreWeighed ==
  ASSUME EvidenceInv, NEW l \in DOMAIN rows, HasEstimate(rows, l)
  PROVE  LET C == FindSoldComps(rows, l) IN
         /\ C # {} /\ Weighed(rows, C) /\ Priced(rows, C)
         /\ \A c \in C : Weight(rows[c]) > 0
<1> DEFINE C == FindSoldComps(rows, l)
<1>1. C \subseteq DOMAIN rows /\ \A c \in C : rows[c].status = "likely_sold"
  BY DEF FindSoldComps, FindSimilar
<1>2. IsFiniteSet(C) /\ C \subseteq Nat
  BY <1>1, TableFinite, FS_Subset DEF EvidenceInv
<1>3. C # {}
  BY FS_EmptySet, ValuationAssumption DEF HasEstimate, ValuationAssumption
<1>4. ASSUME NEW c \in C
      PROVE  CompPrice(rows[c]) \in Int /\ Weight(rows[c]) \in Nat /\ Weight(rows[c]) > 0
  <2>1. RowInv(c) /\ rows[c].status = "likely_sold" /\ Null \notin Int
    BY <1>1, EvidenceAssumption DEF EvidenceAssumption, EvidenceInv, TableInv
  <2>2. CompPrice(rows[c]) \in Int
    BY <2>1 DEF RowInv, CompPrice
  <2>3. rows[c].priceConfidence \in 1..One
    BY <2>1 DEF RowInv
  <2>4. \A x \in 1..One : x \in Nat /\ x > 0 /\ x # 0 /\ x # Null
    BY <2>1, Constants
  <2> QED BY <2>2, <2>3, <2>4 DEF Weight
<1> QED BY <1>2, <1>3, <1>4 DEF Weighed, Priced

\* weighted_median: whatever is listed and judged, the estimate is the price of
\* one of the comps, with half of their weight on either side.
THEOREM EstimateIsTheMedian == Spec => []EstimateSplitsTheWeight
<1>1. EvidenceInv => EstimateSplitsTheWeight
  <2> SUFFICES ASSUME EvidenceInv, NEW l \in DOMAIN rows, HasEstimate(rows, l)
               PROVE  LET C == FindSoldComps(rows, l)
                          value == Estimate(rows, l) IN
                      /\ value \in Prices(rows, C)
                      /\ 2 * TotalWeight(rows, {c \in C : CompPrice(rows[c]) < value})
                           < TotalWeight(rows, C)
                      /\ 2 * TotalWeight(rows, {c \in C : CompPrice(rows[c]) <= value})
                           >= TotalWeight(rows, C)
    BY DEF EstimateSplitsTheWeight, WeightWhere
  <2> DEFINE C == FindSoldComps(rows, l)
  <2>1. C # {} /\ Weighed(rows, C) /\ Priced(rows, C) /\ \A c \in C : Weight(rows[c]) > 0
    BY CompsAreWeighed
  <2> HIDE DEF C
  <2>2. /\ WeightedMedian(rows, C) \in Prices(rows, C)
        /\ 2 * TotalWeight(rows, {c \in C : CompPrice(rows[c]) < WeightedMedian(rows, C)})
             < TotalWeight(rows, C)
        /\ 2 * TotalWeight(rows, {c \in C : CompPrice(rows[c]) <= WeightedMedian(rows, C)})
             >= TotalWeight(rows, C)
    BY <2>1, WeightedMedianSplits
  <2>3. Estimate(rows, l) = WeightedMedian(rows, C)
    BY DEF Estimate, C
  <2> QED BY <2>2, <2>3 DEF C
<1> QED BY <1>1, EvidenceCorrect, PTL

\* A part and the rest weigh what the whole weighs.
LEMMA TotalWeightOfParts ==
  ASSUME NEW tbl, NEW C, Weighed(tbl, C), NEW A \in SUBSET C
  PROVE  TotalWeight(tbl, C) = TotalWeight(tbl, A) + TotalWeight(tbl, C \ A)
<1> DEFINE W(s) == TotalWeight(tbl, s)
           Wrong == {s \in SUBSET C : A \subseteq s /\ W(s) # W(A) + W(s \ A)}
<1>1. \A s \in SUBSET C : W(s) \in Nat /\ Weighed(tbl, s)
  BY TotalWeightStep, FS_Subset DEF Weighed
<1>2. \A s \in SUBSET C : \A x \in s : W(s) = Weight(tbl[x]) + W(s \ {x})
  BY <1>1, TotalWeightWithout
<1>3. IsFiniteSet(C) /\ W({}) = 0 /\ \A x \in C : Weight(tbl[x]) \in Nat
  BY TotalWeightStep DEF Weighed
<1> HIDE DEF W
<1>4. Wrong = {}
  <2> SUFFICES ASSUME Wrong # {} PROVE FALSE
    OBVIOUS
  <2>0. Wrong \in SUBSET SUBSET C
    OBVIOUS
  <2>1. PICK s \in Wrong : \A t \in Wrong : t \subseteq s => t = s
    <3> HIDE DEF Wrong
    <3> QED BY <1>3, <2>0, SmallestOne
  <2>2. s # A
    <3>1. A \ A = {} /\ W(A) \in Nat
      BY <1>1
    <3>2. W(A) = W(A) + W(A \ A)
      BY <1>3, <3>1
    <3> QED BY <2>1, <3>2
  <2>3. PICK x \in s : x \notin A /\ s \in SUBSET C /\ A \subseteq s
    BY <2>1, <2>2
  <2>4. W(s \ {x}) = W(A) + W((s \ {x}) \ A)
    BY <2>1, <2>3
  <2>5. W(s) = Weight(tbl[x]) + W(s \ {x})
    BY <1>2, <2>3
  <2>6. W(s \ A) = Weight(tbl[x]) + W((s \ {x}) \ A)
    <3>1. s \ A \in SUBSET C /\ x \in s \ A
      BY <2>3
    <3>2. (s \ A) \ {x} = (s \ {x}) \ A
      OBVIOUS
    <3> HIDE DEF Wrong
    <3> QED BY <1>2, <3>1, <3>2
  <2>7. W((s \ {x}) \ A) \in Nat /\ W(A) \in Nat /\ Weight(tbl[x]) \in Nat
    BY <1>1, <1>3, <2>3
  <2>8. W(s) = W(A) + W(s \ A)
    <3> HIDE DEF Wrong
    <3> QED BY <2>4, <2>5, <2>6, <2>7
  <2> QED BY <2>1, <2>8
<1> QED BY <1>4 DEF W

\* Comps that hold less than half of the weight do not take the estimate out
\* of the range of the other comps' prices ("outliers are present and a mean
\* would chase them", weighted_median).
OutliersDoNotDecide ==
  \A l \in DOMAIN rows : HasEstimate(rows, l) =>
    LET C == FindSoldComps(rows, l) IN
    \A A \in SUBSET C : 2 * TotalWeight(rows, A) < TotalWeight(rows, C) =>
      \E low, high \in C \ A : /\ CompPrice(rows[low]) <= Estimate(rows, l)
                               /\ Estimate(rows, l) <= CompPrice(rows[high])

\* A deal is a fifth cheaper than what more than half of its comps, by weight,
\* were sold for (find_deals).
DealsUndercutMostComps ==
  \A l \in DOMAIN rows : IsDeal(rows, l) =>
    LET C == FindSoldComps(rows, l)
        dearer == {c \in C : 10 * (CompPrice(rows[c]) - CompPrice(rows[l]))
                               >= MinDealTenths * CompPrice(rows[c])} IN
    2 * TotalWeight(rows, dearer) > TotalWeight(rows, C)

\* The same of any rows with prices and weights.
LEMMA OutliersAreHarmless ==
  ASSUME NEW tbl, NEW C, C # {}, Weighed(tbl, C), Priced(tbl, C),
         \A c \in C : Weight(tbl[c]) > 0,
         NEW A \in SUBSET C, 2 * TotalWeight(tbl, A) < TotalWeight(tbl, C)
  PROVE  \E low, high \in C \ A :
           /\ CompPrice(tbl[low]) <= WeightedMedian(tbl, C)
           /\ WeightedMedian(tbl, C) <= CompPrice(tbl[high])
<1> DEFINE W(s) == TotalWeight(tbl, s)
           value == WeightedMedian(tbl, C)
           below == {c \in C : CompPrice(tbl[c]) < value}
           within == {c \in C : CompPrice(tbl[c]) <= value}
<1>1. /\ value \in Prices(tbl, C)
      /\ 2 * W(below) < W(C)
      /\ 2 * W(within) >= W(C)
  BY WeightedMedianSplits
<1>2. value \in Int /\ \A c \in C : CompPrice(tbl[c]) \in Int
  BY <1>1 DEF Prices, Priced
<1>3. \A s \in SUBSET C : W(s) \in Nat /\ Weighed(tbl, s)
  BY TotalWeightStep, FS_Subset DEF Weighed
<1>4. \A s, t \in SUBSET C : s \subseteq t => W(s) <= W(t)
  BY <1>3, TotalWeightGrows
<1>5. W(C) = W(A) + W(C \ A)
  BY TotalWeightOfParts
<1>6. below \in SUBSET C /\ within \in SUBSET C /\ C \ A \in SUBSET C /\ C \in SUBSET C
  OBVIOUS
<1>7. W(below) \in Nat /\ W(within) \in Nat /\ W(C) \in Nat /\ W(A) \in Nat /\ W(C \ A) \in Nat
  BY <1>3, <1>6
<1> HIDE DEF W, value
<1>8. ~(within \subseteq A)
  <2> HIDE DEF within
  <2> SUFFICES ASSUME within \subseteq A PROVE FALSE
    OBVIOUS
  <2>1. W(within) <= W(A)
    BY <1>4, <1>6
  <2>2. 2 * W(A) < W(C)
    BY DEF W
  <2> QED BY <1>1, <1>7, <2>1, <2>2
<1>9. ~(C \ A \subseteq below)
  <2> HIDE DEF below
  <2> SUFFICES ASSUME C \ A \subseteq below PROVE FALSE
    OBVIOUS
  <2>1. W(C \ A) <= W(below)
    BY <1>4, <1>6
  <2>2. 2 * W(A) < W(C)
    BY DEF W
  <2> QED BY <1>1, <1>5, <1>7, <2>1, <2>2
<1>10. PICK low \in C \ A : CompPrice(tbl[low]) <= value
  BY <1>8
<1>11. PICK high \in C \ A : ~(CompPrice(tbl[high]) < value)
  BY <1>9
<1>12. value <= CompPrice(tbl[high])
  BY <1>2, <1>11
<1> QED BY <1>10, <1>12 DEF value

\* weighted_median: no minority of the comps, by weight, moves the estimate
\* beyond what the rest of them were sold for.
THEOREM OutliersStayOutliers == Spec => []OutliersDoNotDecide
<1>1. EvidenceInv => OutliersDoNotDecide
  BY CompsAreWeighed, OutliersAreHarmless DEF OutliersDoNotDecide, Estimate
<1> QED BY <1>1, EvidenceCorrect, PTL

\* find_deals: what is announced as a deal is a fifth cheaper than the sales
\* that hold most of the weight, not only than their median.
THEOREM DealsAreDeals == Spec => []DealsUndercutMostComps
<1>1. EvidenceInv => DealsUndercutMostComps
  <2> SUFFICES ASSUME EvidenceInv, NEW l \in DOMAIN rows, IsDeal(rows, l)
               PROVE  LET C == FindSoldComps(rows, l)
                          dearer == {c \in C : 10 * (CompPrice(rows[c]) - CompPrice(rows[l]))
                                                 >= MinDealTenths * CompPrice(rows[c])} IN
                      2 * TotalWeight(rows, dearer) > TotalWeight(rows, C)
    BY DEF DealsUndercutMostComps
  <2> DEFINE C == FindSoldComps(rows, l)
             W(s) == TotalWeight(rows, s)
             value == WeightedMedian(rows, C)
             below == {c \in C : CompPrice(rows[c]) < value}
             dearer == {c \in C : 10 * (CompPrice(rows[c]) - CompPrice(rows[l]))
                                    >= MinDealTenths * CompPrice(rows[c])}
  <2>1. HasEstimate(rows, l) /\ 10 * (value - CompPrice(rows[l])) >= 2 * value
    BY DEF IsDeal, Estimate, MinDealTenths
  <2>2. C # {} /\ Weighed(rows, C) /\ Priced(rows, C) /\ \A c \in C : Weight(rows[c]) > 0
    BY <2>1, CompsAreWeighed
  <2>3. CompPrice(rows[l]) \in Int
    <3>1. RowInv(l) /\ Null \notin Int
      BY EvidenceAssumption DEF EvidenceAssumption, EvidenceInv, TableInv
    <3> QED BY <3>1 DEF RowInv, CompPrice
  <2> HIDE DEF C
  <2>4. value \in Prices(rows, C) /\ 2 * W(below) < W(C)
    BY <2>2, WeightedMedianSplits
  <2>5. value \in Int /\ \A c \in C : CompPrice(rows[c]) \in Int
    BY <2>2, <2>4 DEF Prices, Priced
  <2> HIDE DEF value
  <2>6. C \ below \subseteq dearer
    <3> SUFFICES ASSUME NEW c \in C, ~(CompPrice(rows[c]) < value)
                 PROVE  10 * (CompPrice(rows[c]) - CompPrice(rows[l])) >= 2 * CompPrice(rows[c])
      BY DEF MinDealTenths
    <3>1. CompPrice(rows[c]) \in Int
      BY <2>5
    <3> QED BY <2>1, <2>3, <2>5, <3>1
  <2>7. W(C) = W(below) + W(C \ below)
    BY <2>2, TotalWeightOfParts
  <2>8. \A s \in SUBSET C : W(s) \in Nat /\ Weighed(rows, s)
    BY <2>2, TotalWeightStep, FS_Subset DEF Weighed
  <2>9. W(C \ below) <= W(dearer)
    BY <2>6, <2>8, TotalWeightGrows
  <2>10. W(below) \in Nat /\ W(C \ below) \in Nat /\ W(dearer) \in Nat /\ W(C) \in Nat
    BY <2>8
  <2> HIDE DEF W, below, dearer
  <2>11. 2 * W(dearer) > W(C)
    BY <2>4, <2>7, <2>9, <2>10
  <2> QED BY <2>11 DEF W, C, dearer
<1> QED BY <1>1, EvidenceCorrect, PTL

-----------------------------------------------------------------------------
(***************************************************************************)
(* The gate of the comps.                                                  *)
(***************************************************************************)

\* Nothing but a relist or an auction without a bid takes a score below the
\* gate, and each of them does, whatever else speaks for or against a sale.
LEMMA GateIs ==
  ASSUME NEW s, NEW relisted
  PROVE  SaleConfidence(s, relisted) >= Gate <=> ~relisted /\ ~NoBids(s)
<1> DEFINE base == Scaled(30000, relisted, 3, 20)
           noBids == Scaled(base, NoBids(s), 1, 20)
           bids == Scaled(noBids, HadBids(s), 3, 2)
           end == Scaled(bids, EndedAtScheduledEnd(s), 2, 5)
           term == Scaled(end, NearTerm(s), 1, 2)
           quick == Scaled(term, QuickDisappearance(s), 6, 5)
<1>1. /\ EndedAtScheduledEnd(s) => ~HadBids(s) /\ ~NearTerm(s)
      /\ NoBids(s) => ~HadBids(s) /\ ~EndedAtScheduledEnd(s)
  BY DEF EndedAtScheduledEnd, EndIsPublished, HadBids, NearTerm, NoBids
<1>2. SaleConfidence(s, relisted) = Clamp(quick)
  BY RelistComesFirst DEF AfterRelist
<1>3. CASE relisted
  <2>1. SaleConfidence(s, relisted) \in 1..One /\ SaleConfidence(s, relisted) < Gate
    BY <1>3, SaleConfidenceBounds
  <2>2. \A x \in 1..One : x < Gate => ~(x >= Gate)
    BY Constants
  <2> QED BY <1>3, <2>1, <2>2
<1>4. CASE ~relisted /\ NoBids(s)
  <2>1. noBids = 1500
    BY <1>4 DEF Scaled
  <2>2. end = 1500
    BY <1>1, <1>4, <2>1 DEF Scaled
  <2> HIDE DEF end
  <2>3. term \in {750, 1500}
    BY <2>2 DEF Scaled
  <2> HIDE DEF term
  <2>4. quick \in {750, 900, 1500, 1800}
    BY <2>3 DEF Scaled
  <2> HIDE DEF quick
  <2> QED BY <1>2, <1>4, <2>4, Constants DEF Clamp
<1>5. CASE ~relisted /\ ~NoBids(s)
  <2>1. noBids = 30000
    BY <1>5 DEF Scaled
  <2> HIDE DEF noBids
  <2>2. bids \in {30000, 45000} /\ (~HadBids(s) => bids = 30000)
    BY <2>1 DEF Scaled
  <2> HIDE DEF bids
  <2>3. end \in {12000, 30000, 45000} /\ (NearTerm(s) => end # 12000)
    BY <1>1, <2>2 DEF Scaled
  <2> HIDE DEF end
  <2>4. term \in {12000, 15000, 22500, 30000, 45000}
    BY <2>3 DEF Scaled
  <2> HIDE DEF term
  <2>5. quick \in {12000, 14400, 15000, 18000, 22500, 27000, 30000, 36000, 45000, 54000}
    BY <2>4 DEF Scaled
  <2> HIDE DEF quick
  <2> QED BY <1>2, <1>5, <2>5, Constants DEF Clamp
<1> QED BY <1>3, <1>4, <1>5

\* What a pass does to a row it sells.
LEMMA SoldIsScored ==
  ASSUME EvidenceInv, Next, NEW l \in Active \cap Sold'
  PROVE  /\ l \in DOMAIN rows
         /\ rows'[l].saleConfidence = SaleConfidence(rows[l], Relists(rows, l, day) # {})
<1>1. l \in DOMAIN rows /\ rows[l].status = "active" /\ rows'[l].status = "likely_sold"
  BY DEF Active, Sold
<1>2. ~Read /\ ~Tick
  BY <1>1 DEF Read, Tick
<1>3. ASSUME NEW kind \in Kinds, Insert(kind) PROVE FALSE
  <2>1. PICK id : id = Cardinality(DOMAIN rows) + 1
    OBVIOUS
  <2>2. id \notin DOMAIN rows
    BY <2>1, TableFinite DEF EvidenceInv
  <2> QED BY <1>1, <1>3, <2>1, <2>2 DEF Insert
<1>4. PICK S \in SUBSET Active : ConfirmSales(S)
  BY <1>2, <1>3 DEF Next
<1>5. l \in S /\ rows'[l] = Scored(l)
  BY <1>1, <1>4 DEF ConfirmSales
<1> QED BY <1>1, <1>5, ScoredIs DEF EvidenceInv

\* score_sale: of the listings that disappear exactly the relisted ones and the
\* auctions without a bid are no comps.  One that ran to its published end or
\* to a standard term stays one, at the gate or just above it.
OnlyRelistsAndBidlessAreKeptOut ==
  [][\A l \in Active \cap Sold' :
       PassesGate(rows'[l].saleConfidence)
         <=> Relists(rows, l, day) = {} /\ ~NoBids(rows[l])]_vars

\* score_sale: what keeps a sale out of the comps is being relisted or being an
\* auction without a bid, and nothing else.
THEOREM GateIsExact == Spec => OnlyRelistsAndBidlessAreKeptOut
<1>1. EvidenceInv /\ [Next]_vars
        => [\A l \in Active \cap Sold' :
              PassesGate(rows'[l].saleConfidence)
                <=> Relists(rows, l, day) = {} /\ ~NoBids(rows[l])]_vars
  <2> SUFFICES ASSUME EvidenceInv, Next, NEW l \in Active \cap Sold'
               PROVE  PassesGate(rows'[l].saleConfidence)
                        <=> Relists(rows, l, day) = {} /\ ~NoBids(rows[l])
    OBVIOUS
  <2> DEFINE score == SaleConfidence(rows[l], Relists(rows, l, day) # {})
  <2>1. rows'[l].saleConfidence = score
    BY SoldIsScored
  <2>2. score \in 1..One
    BY SaleConfidenceBounds
  <2>3. score >= Gate <=> Relists(rows, l, day) = {} /\ ~NoBids(rows[l])
    BY GateIs
  <2> HIDE DEF score
  <2>4. score # Null
    BY <2>2, EvidenceAssumption DEF EvidenceAssumption
  <2> QED BY <2>1, <2>3, <2>4 DEF PassesGate
<1> QED BY <1>1, EvidenceCorrect, PTL DEF Spec, OnlyRelistsAndBidlessAreKeptOut

-----------------------------------------------------------------------------
(***************************************************************************)
(* The nearest listings.                                                   *)
(***************************************************************************)

\* find_similar: no more than k, all of them nearer than any that is left out,
\* and none left out while there is room.
LEMMA FindSimilarIs ==
  ASSUME IsFiniteSet(DOMAIN rows), DOMAIN rows \subseteq Nat, NEW l, NEW k \in Nat
  PROVE  LET found == FindSimilar(rows, l, k)
             all == {c \in DOMAIN rows : IsNeighbour(rows, l, c)} IN
         /\ IsFiniteSet(found) /\ Cardinality(found) <= k
         /\ \A c \in found, d \in all \ found : c < d
         /\ Cardinality(all) <= k => found = all
<1> DEFINE all == {c \in DOMAIN rows : IsNeighbour(rows, l, c)}
           Nearer(c) == {d \in all : d < c}
           found == FindSimilar(rows, l, k)
           place == [c \in found |-> Cardinality(Nearer(c))]
<1>0. all \subseteq Nat /\ IsFiniteSet(all) /\ Cardinality(all) \in Nat
  BY FS_Subset, FS_CardinalityType
<1>1. found = {c \in all : Cardinality(Nearer(c)) < k}
  BY DEF FindSimilar
<1> HIDE DEF all, found
<1>2. \A c \in all : IsFiniteSet(Nearer(c)) /\ Cardinality(Nearer(c)) \in Nat
  BY <1>0, FS_Subset, FS_CardinalityType
<1>3. ASSUME NEW c \in all, NEW d \in all, c < d
      PROVE  Cardinality(Nearer(c)) < Cardinality(Nearer(d))
  <2>1. Nearer(c) \subseteq Nearer(d) \ {c} /\ c \in Nearer(d)
    <3>1. ASSUME NEW e \in all, e < c PROVE e < d /\ e # c
      <4>1. e \in Nat /\ c \in Nat /\ d \in Nat
        BY <1>0
      <4> QED BY <1>3, <3>1, <4>1
    <3> QED BY <1>3, <3>1
  <2>2. /\ IsFiniteSet(Nearer(d) \ {c})
        /\ Cardinality(Nearer(d) \ {c}) = Cardinality(Nearer(d)) - 1
    BY <1>2, <2>1, FS_RemoveElement
  <2>3. Cardinality(Nearer(c)) <= Cardinality(Nearer(d)) - 1
    BY <2>1, <2>2, FS_Subset
  <2>4. Cardinality(Nearer(c)) \in Nat /\ Cardinality(Nearer(d)) \in Nat
    BY <1>2
  <2> HIDE DEF Nearer
  <2> QED BY <2>3, <2>4
<1>4. IsFiniteSet(found) /\ found \subseteq all
  BY <1>0, <1>1, FS_Subset
<1>5. Cardinality(found) <= k
  <2>1. place \in [found -> 0..(k - 1)]
    <3> SUFFICES ASSUME NEW c \in found PROVE Cardinality(Nearer(c)) \in 0..(k - 1)
      OBVIOUS
    <3>1. Cardinality(Nearer(c)) \in Nat /\ Cardinality(Nearer(c)) < k
      BY <1>1, <1>2
    <3> HIDE DEF Nearer
    <3> QED BY <3>1
  <2>2. \A c, d \in found : place[c] = place[d] => c = d
    <3> SUFFICES ASSUME NEW c \in found, NEW d \in found, c # d PROVE place[c] # place[d]
      OBVIOUS
    <3>1. c \in all /\ d \in all /\ (c < d \/ d < c)
      BY <1>0, <1>4
    <3> QED BY <1>2, <1>3, <3>1
  <2>3. IsFiniteSet(0..(k - 1)) /\ Cardinality(0..(k - 1)) = k
    BY FS_Interval
  <2>4. place \in Injection(found, 0..(k - 1))
    BY <2>1, <2>2 DEF Injection, IsInjective
  <2> QED BY <2>3, <2>4, FS_Injection
<1>6. ASSUME NEW c \in found, NEW d \in all \ found PROVE c < d
  <2>1. Cardinality(Nearer(c)) < k /\ ~(Cardinality(Nearer(d)) < k) /\ c \in all
    BY <1>1
  <2>2. /\ Cardinality(Nearer(c)) \in Nat /\ Cardinality(Nearer(d)) \in Nat
        /\ d < c => Cardinality(Nearer(d)) < Cardinality(Nearer(c))
        /\ c \in Nat /\ d \in Nat
    BY <1>0, <1>2, <1>3, <2>1
  <2> HIDE DEF Nearer
  <2>3. c # d
    BY <2>1
  <2> QED BY <2>1, <2>2, <2>3
<1>7. ASSUME Cardinality(all) <= k PROVE found = all
  <2> SUFFICES ASSUME NEW c \in all PROVE Cardinality(Nearer(c)) < k
    BY <1>1
  <2>1. Nearer(c) \subseteq all \ {c}
    BY <1>0
  <2>2. IsFiniteSet(all \ {c}) /\ Cardinality(all \ {c}) = Cardinality(all) - 1
    BY <1>0, FS_RemoveElement
  <2>3. Cardinality(Nearer(c)) <= Cardinality(all) - 1
    BY <2>1, <2>2, FS_Subset
  <2> QED BY <1>0, <1>2, <1>7, <2>3
<1> QED BY <1>4, <1>5, <1>6, <1>7 DEF all, found
=============================================================================
