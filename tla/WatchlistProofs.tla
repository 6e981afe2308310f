---------------------------- MODULE WatchlistProofs ----------------------------
(***************************************************************************)
(* What sessions that load the listing's row, work on a copy and commit    *)
(* over each other can do to it, and what the watchlist keeps of it,       *)
(* proved for any number of sessions and requests and whatever is shown    *)
(* of the listing.                                                         *)
(*                                                                         *)
(* All commits are alike: columns of a changed copy replace those of the   *)
(* row where the copy differs from what was loaded.  Sound says what the   *)
(* code of all four kinds of session keeps to, in terms of that copy;      *)
(* that each keeps to it is one lemma, and what follows from it for the    *)
(* row is another.                                                         *)
(***************************************************************************)
EXTENDS Watchlist, FiniteSetTheorems, WellFoundedInduction, TLAPS

Costs == [price : Nat, shipping : Nat \cup {Null}]

Kinds == {"idle", "search", "check", "capture", "extract"}

Sessions == [kind : Kinds, loaded : Rows \cup {None},
             saw : Offers \cup Captures \cup Bodies \cup {None}]

Open == {p \in Writers : tx[p] # Idle}

\* The prices of the history.
Recorded == {obs[i].price : i \in DOMAIN obs}

\* A session knows of the listing what its source has of it.
Shows(p) ==
  /\ tx[p].kind = "idle" => tx[p] = Idle
  /\ tx[p].kind = "search" => source = "ebay" /\ tx[p].saw \in Offers
  /\ tx[p].kind = "capture" => source # "ebay" /\ tx[p].saw \in Captures
  /\ tx[p].kind = "check" => tx[p].loaded # None /\ tx[p].saw \in Bodies \cup {None}
  /\ tx[p].kind = "extract" => tx[p].loaded # None

\* What a session loaded, the row still knows.
Remembered(p) ==
  tx[p].loaded # None =>
    /\ table # {}
    /\ tx[p].loaded.shipping # Null => Row.shipping # Null
    /\ tx[p].loaded.aspects # Null => Row.aspects # Null
    /\ tx[p].loaded.estimated => tx[p].loaded.shipping # Null

TableInv ==
  /\ source \in Sources /\ lag \in BOOLEAN
  /\ table \in SUBSET Rows
  /\ \A r, s \in table : r = s
  /\ \A r \in table : r.estimated => r.shipping # Null

SessionInv ==
  /\ tx \in [Writers -> Sessions]
  /\ \A p \in Writers : Shows(p) /\ Remembered(p)
  /\ begun \in 0..MaxTx
  /\ Cardinality(Open) <= begun

HistoryInv ==
  /\ obs \in Seq(Costs)
  /\ table = {} <=> obs = <<>>
  /\ table # {} => Row.price \in Recorded
  /\ soldFor \in Recorded \cup {Null}

RowInv == TableInv /\ SessionInv /\ HistoryInv /\ VariantIsCurrent

Requests == [asks : {"nothing", "add", "annotate", "remove"}, id : Nat,
             price : Nat \cup {Null},
             item : [id : Nat, priceWhenAdded : Nat] \cup {None}]

\* Items and the requests to add one carry a price that was on record.
WatchInv ==
  /\ asked \in Nat
  /\ items \in SUBSET [id : 1..asked, priceWhenAdded : Recorded]
  /\ \A i, j \in items : i = j
  /\ req \in [Threads -> Requests]
  /\ \A t \in Threads :
       req[t].asks = "add" => req[t].id \in 1..asked /\ req[t].price \in Recorded

\* What a commit adds to the history: nothing where the cost of the copy stays,
\* and one entry that ends it at the new price otherwise; searches and checks
\* record what is stored, captures what they were shown.
Records(p, changed, observed) ==
  \/ observed = <<>> /\ Cost(changed) = Cost(tx[p].loaded)
  \/ \E cost \in Costs : /\ observed = <<cost>> /\ cost.price = changed.price
                         /\ source = "ebay" => cost = Cost(changed)

\* What the code makes of the copy it loaded.  The columns read from the text
\* are read again, or neither they nor the text they come from are touched.
Sound(p, changed, observed, lags) ==
  LET row == tx[p].loaded IN
  /\ changed \in Rows /\ observed \in Seq(Costs) /\ lags \in BOOLEAN
  /\ row.shipping # Null => changed.shipping # Null
  /\ row.aspects # Null => changed.aspects # Null
  /\ changed.estimated => changed.shipping # Null
  /\ \/ lags
     \/ changed.variant = Extracted(changed.title, changed.aspects, changed.filing)
     \/ ~lag /\ \A c \in TextColumns : changed[c] = row[c]
  /\ changed.price # row.price =>
       \E i \in DOMAIN observed : observed[i].price = changed.price
  /\ observed # <<>> => \/ Cost(row) # Cost(changed)
                        \/ tx[p].kind = "capture" /\ tx[p].saw.shipping = Null
  /\ Records(p, changed, observed)
-----------------------------------------------------------------------------
(***************************************************************************)
(* Numbers, rows and sequences.                                            *)
(***************************************************************************)

Less == {pair \in Nat \X Nat : pair[1] < pair[2]}

\* A set of numbers that is not empty has its smallest in it.
LEMMA MinOfNumbers ==
  ASSUME NEW S \in SUBSET Nat, S # {}
  PROVE  Min(S) \in S
<1>1. IsWellFoundedOn(Less, Nat)
  BY NatLessThanWellFounded DEF OpToRel, Less
<1>2. \A x, y \in Nat : x <= y \/ <<y, x>> \in Less
  BY DEF Less
<1> HIDE DEF Less
<1>3. \A R, U, T : IsWellFoundedOn(R, U) /\ T \subseteq U /\ T # {}
                     => \E x \in T : \A y \in T : ~ (<<y, x>> \in R)
  BY WFMin, Zenon
<1>4. \E x \in S : \A y \in S : ~ (<<y, x>> \in Less)
  BY <1>1, <1>3, Zenon
<1>5. \E x \in S : \A y \in S : x <= y
  BY <1>2, <1>4
<1> QED BY <1>5 DEF Min

\* A shipping cost that is a guess is one.
LEMMA ShippingKnown ==
  ASSUME NEW options, \A option \in options : option.cost \in Nat
  PROVE  /\ Shipping(options).cost \in Nat \cup {Null}
         /\ Shipping(options).estimated \in BOOLEAN
         /\ Shipping(options).estimated => Shipping(options).cost # Null
<1> DEFINE Of(kinds) == {o.cost : o \in {o \in options : o.kind \in kinds}}
<1>1. Of({"FIXED"}) \in SUBSET Nat /\ Of({"CALCULATED"}) \in SUBSET Nat
  OBVIOUS
<1>2. /\ Of({"FIXED"}) # {} => Min(Of({"FIXED"})) \in Nat
      /\ Of({"CALCULATED"}) # {} => Min(Of({"CALCULATED"})) \in Nat
  BY <1>1, MinOfNumbers
<1>3. Null \notin Nat
  BY ListingRowAssumption DEF ListingRowAssumption
<1> QED BY <1>2, <1>3 DEF Shipping

\* The one row of the table is what a query finds.
LEMMA RowFound ==
  ASSUME TableInv
  PROVE  /\ table # {} => table = {Row} /\ Row \in Rows /\ Row # None
         /\ table = {} => Row = None
<1>1. table # {} => Row \in table
  BY DEF Row
<1> QED BY <1>1, ListingRowAssumption DEF TableInv, Row, ListingRowAssumption

\* A commit column by column.
LEMMA MergeColumns ==
  ASSUME NEW changed \in Rows, NEW loaded \in Rows, NEW current \in Rows
  PROVE  /\ Merge(changed, loaded, current) \in Rows
         /\ \A c \in {"title", "aspects", "filing", "variant", "price", "shipping",
                      "estimated", "strike", "sold"} :
              Merge(changed, loaded, current)[c] =
                IF changed[c] # loaded[c] THEN changed[c] ELSE current[c]
BY DEF Merge, Rows

\* The history keeps what it has and gains what is added.
LEMMA HistoryGrows ==
  ASSUME NEW old \in Seq(Costs), NEW new \in Seq(Costs)
  PROVE  /\ old \o new \in Seq(Costs)
         /\ Len(old \o new) = Len(old) + Len(new)
         /\ \A i \in DOMAIN old : i \in DOMAIN (old \o new) /\ (old \o new)[i] = old[i]
         /\ \A i \in DOMAIN new : \E j \in DOMAIN (old \o new) : (old \o new)[j] = new[i]
<1>1. /\ DOMAIN old = 1..Len(old) /\ DOMAIN new = 1..Len(new)
      /\ Len(old) \in Nat /\ Len(new) \in Nat
  OBVIOUS
<1>2. /\ old \o new \in Seq(Costs) /\ Len(old \o new) = Len(old) + Len(new)
      /\ DOMAIN (old \o new) = 1..(Len(old) + Len(new))
  OBVIOUS
<1>3. \A i \in 1..Len(old) : (old \o new)[i] = old[i]
  OBVIOUS
<1>4. \A i \in 1..Len(new) : (old \o new)[Len(old) + i] = new[i]
  OBVIOUS
<1>5. ASSUME NEW i \in 1..Len(new)
      PROVE  \E j \in 1..(Len(old) + Len(new)) : (old \o new)[j] = new[i]
  <2>1. Len(old) + i \in 1..(Len(old) + Len(new))
    BY <1>1
  <2> QED BY <1>4, <2>1
<1>6. \A i \in 1..Len(old) : i \in 1..(Len(old) + Len(new))
  BY <1>1
<1> QED BY <1>1, <1>2, <1>3, <1>5, <1>6
-----------------------------------------------------------------------------
(***************************************************************************)
(* Sessions end.                                                           *)
(***************************************************************************)

LEMMA OpenCounted ==
  /\ IsFiniteSet(Open) /\ Cardinality(Open) \in Nat
  /\ \A p \in Open : /\ IsFiniteSet(Open \ {p})
                      /\ Cardinality(Open \ {p}) = Cardinality(Open) - 1
<1>1. IsFiniteSet(Open)
  BY FS_Subset, ListingRowAssumption DEF ListingRowAssumption, Open
<1> QED BY <1>1, FS_CardinalityType, FS_RemoveElement

\* A session that ends leaves the others as they are.
LEMMA SessionEnds ==
  ASSUME SessionInv, NEW p \in Writers, tx' = [tx EXCEPT ![p] = Idle], tx[p] # Idle
  PROVE  /\ tx' \in [Writers -> Sessions]
         /\ tx'[p] = Idle
         /\ \A q \in Writers \ {p} : tx'[q] = tx[q]
         /\ Cardinality(Open') = Cardinality(Open) - 1
         /\ Cardinality(Open) \in Nat \ {0}
<1>1. /\ tx' \in [Writers -> Sessions]
      /\ tx'[p] = Idle
      /\ \A q \in Writers \ {p} : tx'[q] = tx[q]
  BY DEF SessionInv, Idle, Sessions, Kinds
<1>2. p \in Open /\ Open' = Open \ {p}
  BY <1>1 DEF Open
<1>3. Cardinality(Open') \in Nat
  BY <1>2, OpenCounted, FS_CardinalityType
<1> QED BY <1>1, <1>2, <1>3, OpenCounted

\* What a commit leaves in the table.
LEMMA UpdateEffect ==
  ASSUME RowInv, NEW p \in Writers, NEW changed \in Rows, NEW observed, NEW lags,
         Update(p, changed, observed, lags)
  PROVE  /\ tx[p].loaded \in Rows /\ table # {} /\ Row \in Rows
         /\ table' = {Row'} /\ Row' \in Rows /\ Row' # None
         /\ \A c \in {"title", "aspects", "filing", "variant", "price", "shipping",
                      "estimated", "strike", "sold"} :
              Row'[c] = IF changed[c] # tx[p].loaded[c] THEN changed[c] ELSE Row[c]
<1>1. tx[p].loaded # None /\ table' = {Merge(changed, tx[p].loaded, Row)}
  BY DEF Update
<1>2. tx[p].loaded \in Rows /\ table # {}
  BY <1>1 DEF RowInv, SessionInv, Remembered, Sessions
<1>3. Row \in Rows
  BY <1>2, RowFound DEF RowInv
<1>4. Row' = Merge(changed, tx[p].loaded, Row)
  BY <1>1 DEF Row
<1>5. Row' \in Rows /\ Row' # None
  BY <1>2, <1>3, <1>4, MergeColumns, ListingRowAssumption DEF ListingRowAssumption
<1> QED BY <1>1, <1>2, <1>3, <1>4, <1>5, MergeColumns

\* Where the copy's columns were current, the row is what the code made of it.
LEMMA CurrentColumns ==
  ASSUME RowInv, NEW p \in Writers, NEW changed \in Rows, NEW observed, NEW lags,
         Update(p, changed, observed, lags),
         NEW columns \in SUBSET {"title", "aspects", "filing", "variant", "price", "shipping",
                                 "estimated", "strike", "sold"},
         ~IsStale(p, columns)
  PROVE  \A c \in columns : Row'[c] = changed[c] /\ Row[c] = tx[p].loaded[c]
<1>1. tx[p].loaded # None
  BY DEF Update
<1>2. \A c \in columns : tx[p].loaded[c] = Row[c]
  BY <1>1 DEF IsStale
<1> QED BY <1>2, UpdateEffect
-----------------------------------------------------------------------------
(***************************************************************************)
(* What follows from Sound.                                                *)
(***************************************************************************)

\* Known shipping and aspects survive any commit, of a stale copy as well: a
\* column is replaced only where the code changed it, and it blanks none.
LEMMA CommitForgetsNothing ==
  ASSUME RowInv, NEW p \in Writers, NEW changed, NEW observed, NEW lags,
         Sound(p, changed, observed, lags), Update(p, changed, observed, lags)
  PROVE  /\ Row.shipping # Null => Row'.shipping # Null
         /\ Row.aspects # Null => Row'.aspects # Null
         /\ Row'.estimated => Row'.shipping # Null
<1> DEFINE loaded == tx[p].loaded
<1>1. changed \in Rows
  BY DEF Sound
<1>2. /\ Row'.shipping = IF changed.shipping # loaded.shipping
                         THEN changed.shipping ELSE Row.shipping
      /\ Row'.aspects = IF changed.aspects # loaded.aspects
                        THEN changed.aspects ELSE Row.aspects
      /\ Row'.estimated = IF changed.estimated # loaded.estimated
                          THEN changed.estimated ELSE Row.estimated
  BY <1>1, UpdateEffect
<1>3. /\ loaded.shipping # Null => changed.shipping # Null
      /\ loaded.aspects # Null => changed.aspects # Null
      /\ changed.estimated => changed.shipping # Null
  BY DEF Sound
<1>4. loaded # None
  BY DEF Update
<1>5. loaded.shipping # Null => Row.shipping # Null
  BY <1>4 DEF RowInv, SessionInv, Remembered
<1>6. Row.estimated => Row.shipping # Null
  BY <1>1, UpdateEffect, RowFound DEF RowInv, TableInv
<1>7. /\ Row.shipping # Null => Row'.shipping # Null
      /\ Row.aspects # Null => Row'.aspects # Null
  BY <1>2, <1>3
<1>8. Row'.estimated => Row'.shipping # Null
  BY <1>2, <1>3, <1>5, <1>6
<1> QED BY <1>7, <1>8

LEMMA CommitKeepsTable ==
  ASSUME RowInv, NEW p \in Writers, NEW changed, NEW observed, NEW lags,
         Sound(p, changed, observed, lags), Update(p, changed, observed, lags)
  PROVE  TableInv'
<1>1. changed \in Rows /\ lags \in BOOLEAN
  BY DEF Sound
<1>2. table' = {Row'} /\ Row' \in Rows
  BY <1>1, UpdateEffect
<1>3. source' = source /\ lag' \in BOOLEAN
  BY <1>1 DEF Update, IsStale
<1>4. Row'.estimated => Row'.shipping # Null
  BY CommitForgetsNothing
<1> QED BY <1>2, <1>3, <1>4 DEF RowInv, TableInv

LEMMA CommitKeepsSessions ==
  ASSUME RowInv, NEW p \in Writers, NEW changed, NEW observed, NEW lags,
         Sound(p, changed, observed, lags), Update(p, changed, observed, lags)
  PROVE  SessionInv'
<1>1. tx' = [tx EXCEPT ![p] = Idle] /\ tx[p] # Idle /\ begun' = begun /\ source' = source
  BY DEF Update, Idle
<1>2. /\ tx' \in [Writers -> Sessions]
      /\ tx'[p] = Idle
      /\ \A q \in Writers \ {p} : tx'[q] = tx[q]
      /\ Cardinality(Open') = Cardinality(Open) - 1
      /\ Cardinality(Open) \in Nat \ {0}
  BY <1>1, SessionEnds DEF RowInv
<1>3. begun' \in 0..MaxTx /\ Cardinality(Open') <= begun'
  BY <1>1, <1>2, ListingRowAssumption DEF RowInv, SessionInv, ListingRowAssumption
<1>4. ASSUME NEW q \in Writers PROVE Shows(q)' /\ Remembered(q)'
  <2>1. CASE q = p
    BY <1>2, <2>1 DEF Shows, Remembered, Idle
  <2>2. CASE q # p
    <3>1. tx'[q] = tx[q] /\ Shows(q) /\ Remembered(q)
      BY <1>2, <2>2 DEF RowInv, SessionInv
    <3>2. Shows(q)'
      BY <1>1, <3>1 DEF Shows
    <3>3. table' # {}
      BY UpdateEffect DEF Sound
    <3>4. Remembered(q)'
      BY <3>1, <3>3, CommitForgetsNothing DEF Remembered
    <3> QED BY <3>2, <3>4
  <2> QED BY <2>1, <2>2
<1> QED BY <1>2, <1>3, <1>4 DEF SessionInv

\* A price the commit changes is in what the session observed.
LEMMA CommitKeepsHistory ==
  ASSUME RowInv, NEW p \in Writers, NEW changed, NEW observed, NEW lags,
         Sound(p, changed, observed, lags), Update(p, changed, observed, lags)
  PROVE  HistoryInv' /\ Recorded \subseteq Recorded'
<1>1. changed \in Rows /\ observed \in Seq(Costs)
  BY DEF Sound
<1>2. /\ table # {} /\ table' # {}
      /\ Row'.price = IF changed.price # tx[p].loaded.price THEN changed.price ELSE Row.price
  BY <1>1, UpdateEffect
<1>3. obs \in Seq(Costs) /\ obs # <<>> /\ Row.price \in Recorded
  BY <1>2 DEF RowInv, HistoryInv
<1>4. obs' = obs \o observed
  BY DEF Update
<1>5. obs' \in Seq(Costs) /\ obs' # <<>>
  <2>1. Len(obs) \in Nat /\ Len(obs) # 0 /\ Len(observed) \in Nat
    BY <1>1, <1>3
  <2>2. obs' \in Seq(Costs) /\ Len(obs') = Len(obs) + Len(observed)
    BY <1>1, <1>3, <1>4, HistoryGrows
  <2> QED BY <2>1, <2>2
<1>6. Recorded \subseteq Recorded'
  BY <1>1, <1>3, <1>4, HistoryGrows DEF Recorded
<1>7. Row'.price \in Recorded'
  <2>1. CASE changed.price = tx[p].loaded.price
    BY <1>2, <1>3, <1>6, <2>1
  <2>2. CASE changed.price # tx[p].loaded.price
    <3>1. PICK i \in DOMAIN observed : observed[i].price = changed.price
      BY <2>2 DEF Sound
    <3>2. \E j \in DOMAIN obs' : obs'[j] = observed[i]
      BY <1>1, <1>3, <1>4, HistoryGrows
    <3> QED BY <1>2, <2>2, <3>1, <3>2 DEF Recorded
  <2> QED BY <2>1, <2>2
<1>8. soldFor' \in Recorded' \cup {Null}
  BY <1>3, <1>6 DEF Update, RowInv, HistoryInv
<1> QED BY <1>2, <1>5, <1>6, <1>7, <1>8 DEF HistoryInv

\* Where no other session came between, the columns read from the text are
\* those of the text, or neither is touched; otherwise the row lags.
LEMMA CommitKeepsVariant ==
  ASSUME RowInv, NEW p \in Writers, NEW changed, NEW observed, NEW lags,
         Sound(p, changed, observed, lags), Update(p, changed, observed, lags)
  PROVE  VariantIsCurrent'
<1>1. changed \in Rows
  BY DEF Sound
<1>2. SUFFICES ASSUME Row' # None, Row'.variant # Null, ~lag'
               PROVE  Row'.variant = Extracted(Row'.title, Row'.aspects, Row'.filing)
  BY DEF VariantIsCurrent, Extracted
<1>3. ~lags /\ ~IsStale(p, TextColumns)
  BY <1>2 DEF Update
<1>4. \A c \in TextColumns : Row'[c] = changed[c] /\ Row[c] = tx[p].loaded[c]
  <2>1. TextColumns \in SUBSET {"title", "aspects", "filing", "variant", "price", "shipping",
                                "estimated", "strike", "sold"}
    BY DEF TextColumns
  <2> QED BY <1>1, <1>3, <2>1, CurrentColumns
<1>5. /\ Row'.title = changed.title /\ Row'.aspects = changed.aspects
      /\ Row'.filing = changed.filing /\ Row'.variant = changed.variant
      /\ Row.title = tx[p].loaded.title /\ Row.aspects = tx[p].loaded.aspects
      /\ Row.filing = tx[p].loaded.filing /\ Row.variant = tx[p].loaded.variant
  BY <1>4 DEF TextColumns
<1>6. CASE changed.variant = Extracted(changed.title, changed.aspects, changed.filing)
  BY <1>5, <1>6
<1>7. CASE ~lag /\ \A c \in TextColumns : changed[c] = tx[p].loaded[c]
  <2>1. /\ changed.title = Row.title /\ changed.aspects = Row.aspects
        /\ changed.filing = Row.filing /\ changed.variant = Row.variant
    BY <1>5, <1>7 DEF TextColumns
  <2>2. Row # None
    BY <1>1, UpdateEffect, RowFound DEF RowInv
  <2>3. Row.variant = Extracted(Row.title, Row.aspects, Row.filing)
    BY <1>2, <1>5, <1>7, <2>1, <2>2 DEF RowInv, VariantIsCurrent
  <2> QED BY <1>5, <2>1, <2>3
<1> QED BY <1>3, <1>6, <1>7 DEF Sound
-----------------------------------------------------------------------------
(***************************************************************************)
(* Each kind of session keeps to it.                                       *)
(***************************************************************************)

\* The copy a session commits is of a row that was well formed.
LEMMA LoadedRow ==
  ASSUME RowInv, NEW p \in Writers, tx[p].loaded # None
  PROVE  /\ tx[p].loaded \in Rows
         /\ tx[p].loaded.estimated => tx[p].loaded.shipping # Null
BY DEF RowInv, SessionInv, Sessions, Remembered

\* What is read from the texts of a row is a classification.
LEMMA ExtractedType ==
  ASSUME NEW title \in Titles, NEW aspects \in Aspects, NEW filing \in Filings
  PROVE  Extracted(title, aspects, filing)
           \in [title : Titles, aspects : Aspects, filing : Filings]
BY DEF Extracted

\* The comparison before the refresh sees every price that moves.
LEMMA SearchIsSound ==
  ASSUME RowInv, NEW p \in Writers, CommitSearch(p)
  PROVE  \E changed, observed, lags :
           Sound(p, changed, observed, lags) /\ Update(p, changed, observed, lags)
<1> DEFINE row == tx[p].loaded
           offer == tx[p].saw
           changed == Refreshed(row, offer)
           shipping == Shipping(offer.options)
<1>1. Update(p, changed, Move(row, offer), offer.filing # row.filing)
  BY DEF CommitSearch
<1>2. row \in Rows /\ (row.estimated => row.shipping # Null)
  BY <1>1, LoadedRow DEF Update
<1>3. offer \in Offers
  BY DEF CommitSearch, RowInv, SessionInv, Shows
<1>4. /\ offer.price \in Nat /\ offer.title \in Titles /\ offer.filing \in Filings
      /\ shipping.cost \in Nat \cup {Null} /\ shipping.estimated \in BOOLEAN
      /\ shipping.estimated => shipping.cost # Null
  <2>1. offer.title \in Titles /\ offer.filing \in Filings
    BY <1>3 DEF Titles, Filings
  <2>2. offer.price \in Nat /\ \A option \in offer.options : option.cost \in Nat
    BY <1>3, ListingRowAssumption DEF ListingRowAssumption
  <2> QED BY <2>1, <2>2, ShippingKnown
<1>5. Extracted(offer.title, row.aspects, offer.filing)
        \in [title : Titles, aspects : Aspects, filing : Filings]
  BY <1>2, <1>4, ExtractedType DEF Rows
<1> HIDE DEF shipping
<1>6. /\ changed \in Rows
      /\ changed.title = offer.title /\ changed.aspects = row.aspects
      /\ changed.filing = row.filing /\ changed.price = offer.price
      /\ changed.variant = Extracted(offer.title, row.aspects, offer.filing)
      /\ changed.shipping = IF shipping.cost = Null THEN row.shipping ELSE shipping.cost
      /\ changed.estimated = IF shipping.cost = Null THEN row.estimated ELSE shipping.estimated
  BY <1>2, <1>4, <1>5 DEF Rows, Refreshed, shipping
<1> HIDE DEF changed
<1>7. /\ Cost(changed) \in Costs /\ Cost(changed).price = changed.price
      /\ Cost(row) = Cost(changed) => changed.price = row.price
  BY <1>2, <1>6 DEF Cost, Costs, Rows
<1>8. Move(row, offer) = IF Cost(row) # Cost(changed) THEN <<Cost(changed)>> ELSE <<>>
  BY DEF Move, changed
<1>9. /\ Move(row, offer) \in Seq(Costs)
      /\ changed.price # row.price =>
           \E i \in DOMAIN Move(row, offer) : Move(row, offer)[i].price = changed.price
      /\ Move(row, offer) # <<>> => Cost(row) # Cost(changed)
      /\ Records(p, changed, Move(row, offer))
  <2>1. CASE Cost(row) # Cost(changed)
    <3>1. Move(row, offer) = <<Cost(changed)>>
      BY <1>8, <2>1
    <3> QED BY <1>7, <2>1, <3>1 DEF Records
  <2>2. CASE Cost(row) = Cost(changed)
    <3>1. Move(row, offer) = <<>>
      BY <1>8, <2>2
    <3> QED BY <1>7, <2>2, <3>1 DEF Records
  <2> QED BY <2>1, <2>2
<1>10. Sound(p, changed, Move(row, offer), offer.filing # row.filing)
  BY <1>2, <1>4, <1>6, <1>9 DEF Sound
<1> QED BY <1>1, <1>10 DEF changed

\* What a body teaches is added and read; a 404 teaches nothing.
LEMMA CheckIsSound ==
  ASSUME RowInv, NEW p \in Writers, CommitCheck(p)
  PROVE  \E changed, observed, lags :
           Sound(p, changed, observed, lags) /\ Update(p, changed, observed, lags)
<1> DEFINE row == tx[p].loaded
           body == tx[p].saw
           known == IF body = None THEN row ELSE Enriched(row, body)
           changed == Judged(known, body)
           lags == body = None /\ lag
<1>1. Update(p, changed, <<>>, lags)
  BY DEF CommitCheck
<1>2. row \in Rows /\ (row.estimated => row.shipping # Null)
  BY <1>1, LoadedRow DEF Update
<1>3. body \in Bodies \cup {None} /\ lag \in BOOLEAN
  BY DEF CommitCheck, RowInv, SessionInv, Shows, TableInv
<1>4. Ended(body) \in BOOLEAN
  BY <1>3, ListingRowAssumption DEF ListingRowAssumption, Ended
<1>5. /\ known \in Rows
      /\ known.shipping = row.shipping /\ known.estimated = row.estimated
      /\ known.price = row.price
      /\ row.aspects # Null => known.aspects # Null
      /\ \/ known.variant = Extracted(known.title, known.aspects, known.filing)
         \/ body = None /\ known = row
  <2>1. CASE body = None
    BY <1>2, <2>1
  <2>2. CASE body # None
    <3> DEFINE aspects == IF body.aspects = Null THEN row.aspects ELSE body.aspects
    <3>1. known = [row EXCEPT !.aspects = aspects,
                              !.variant = Extracted(row.title, aspects, row.filing)]
      BY <2>2 DEF Enriched
    <3>2. aspects \in Aspects /\ (row.aspects # Null => aspects # Null)
      BY <1>2, <1>3, <2>2 DEF Rows, Aspects
    <3> HIDE DEF aspects
    <3>3. Extracted(row.title, aspects, row.filing)
            \in [title : Titles, aspects : Aspects, filing : Filings]
      BY <1>2, <3>2, ExtractedType DEF Rows
    <3> QED BY <1>2, <3>1, <3>2, <3>3 DEF Rows
  <2> QED BY <2>1, <2>2
<1> HIDE DEF known
<1>6. /\ changed \in Rows
      /\ changed.shipping = known.shipping /\ changed.estimated = known.estimated
      /\ changed.price = known.price /\ changed.aspects = known.aspects
      /\ changed.title = known.title /\ changed.filing = known.filing
      /\ changed.variant = known.variant
  BY <1>2, <1>4, <1>5 DEF Judged, Rows
<1> HIDE DEF changed
<1>7. \/ lags
      \/ changed.variant = Extracted(changed.title, changed.aspects, changed.filing)
      \/ ~lag /\ \A c \in TextColumns : changed[c] = row[c]
  BY <1>3, <1>5, <1>6 DEF TextColumns
<1>8. Records(p, changed, <<>>)
  BY <1>5, <1>6 DEF Records, Cost
<1>9. Sound(p, changed, <<>>, lags)
  BY <1>2, <1>3, <1>5, <1>6, <1>7, <1>8 DEF Sound
<1> QED BY <1>1, <1>9

\* A capture is compared as it was captured, so no price moves unseen; where
\* it changes what the classification was read from, the row lags.
LEMMA CaptureIsSound ==
  ASSUME RowInv, NEW p \in Writers, CommitCapture(p)
  PROVE  \E changed, observed, lags :
           Sound(p, changed, observed, lags) /\ Update(p, changed, observed, lags)
<1> DEFINE row == tx[p].loaded
           capture == tx[p].saw
           changed == Recaptured(row, capture)
           lags == lag \/ <<changed.title, changed.aspects>> # <<row.title, row.aspects>>
<1>1. Update(p, changed, Sighting(row, capture), lags)
  BY DEF CommitCapture
<1>2. row \in Rows /\ (row.estimated => row.shipping # Null)
  BY <1>1, LoadedRow DEF Update
<1>3. capture \in Captures /\ lag \in BOOLEAN
  BY DEF CommitCapture, RowInv, SessionInv, Shows, TableInv
<1>4. /\ capture.price \in Nat /\ capture.shipping \in Nat \cup {Null}
      /\ capture.title \in Titles /\ capture.aspects \in Aspects
  BY <1>3, ListingRowAssumption DEF ListingRowAssumption, Titles, Aspects
<1>5. /\ changed \in Rows
      /\ changed.title = capture.title
      /\ changed.aspects = IF capture.aspects = Null THEN row.aspects ELSE capture.aspects
      /\ changed.price = capture.price
      /\ changed.shipping = IF capture.shipping = Null THEN row.shipping ELSE capture.shipping
      /\ changed.filing = row.filing /\ changed.variant = row.variant
      /\ changed.estimated = row.estimated
  BY <1>2, <1>4 DEF Rows, Recaptured
<1> HIDE DEF changed
<1>6. /\ Cost(capture) \in Costs /\ Cost(capture).price = changed.price
      /\ Cost(row) = Cost(capture) => changed.price = row.price /\ Cost(changed) = Cost(row)
      /\ capture.shipping # Null => Cost(changed) = Cost(capture)
  BY <1>4, <1>5 DEF Cost, Costs
<1>7. /\ Sighting(row, capture) \in Seq(Costs)
      /\ changed.price # row.price =>
           \E i \in DOMAIN Sighting(row, capture) :
             Sighting(row, capture)[i].price = changed.price
      /\ Sighting(row, capture) # <<>> => Cost(row) # Cost(capture)
      /\ Records(p, changed, Sighting(row, capture))
  <2>0. source # "ebay"
    BY DEF CommitCapture, RowInv, SessionInv, Shows
  <2>1. CASE Cost(row) # Cost(capture)
    <3>1. Sighting(row, capture) = <<Cost(capture)>>
      BY <2>1 DEF Sighting
    <3> QED BY <1>6, <2>0, <2>1, <3>1 DEF Records
  <2>2. CASE Cost(row) = Cost(capture)
    <3>1. Sighting(row, capture) = <<>>
      BY <2>2 DEF Sighting
    <3> QED BY <1>6, <2>2, <3>1 DEF Records
  <2> QED BY <2>1, <2>2
<1>8. \/ lags
      \/ ~lag /\ \A c \in TextColumns : changed[c] = row[c]
  <2>1. CASE changed.title = row.title /\ changed.aspects = row.aspects
    <3>1. \A c \in TextColumns : changed[c] = row[c]
      BY <1>5, <2>1 DEF TextColumns
    <3> QED BY <1>3, <3>1
  <2>2. CASE ~(changed.title = row.title /\ changed.aspects = row.aspects)
    BY <2>2
  <2> QED BY <2>1, <2>2
<1>9. tx[p].kind = "capture"
  BY DEF CommitCapture
<1>10. Sound(p, changed, Sighting(row, capture), lags)
  BY <1>2, <1>3, <1>4, <1>5, <1>6, <1>7, <1>8, <1>9 DEF Sound
<1> QED BY <1>1, <1>10

\* The extraction over the corpus touches the one column it computes.
LEMMA ExtractionIsSound ==
  ASSUME RowInv, NEW p \in Writers, CommitExtraction(p)
  PROVE  \E changed, observed, lags :
           Sound(p, changed, observed, lags) /\ Update(p, changed, observed, lags)
<1> DEFINE row == tx[p].loaded
           changed == [row EXCEPT !.variant = Extracted(row.title, row.aspects, row.filing)]
<1>1. Update(p, changed, <<>>, FALSE)
  BY DEF CommitExtraction
<1>2. row \in Rows /\ (row.estimated => row.shipping # Null)
  BY <1>1, LoadedRow DEF Update
<1>3. Extracted(row.title, row.aspects, row.filing)
        \in [title : Titles, aspects : Aspects, filing : Filings]
  BY <1>2, ExtractedType DEF Rows
<1>4. /\ changed \in Rows
      /\ changed.shipping = row.shipping /\ changed.estimated = row.estimated
      /\ changed.price = row.price /\ changed.aspects = row.aspects
      /\ changed.title = row.title /\ changed.filing = row.filing
      /\ changed.variant = Extracted(row.title, row.aspects, row.filing)
  BY <1>2, <1>3 DEF Rows
<1> HIDE DEF changed
<1>5. Records(p, changed, <<>>)
  BY <1>4 DEF Records, Cost
<1>6. Sound(p, changed, <<>>, FALSE)
  BY <1>2, <1>4, <1>5 DEF Sound
<1> QED BY <1>1, <1>6
-----------------------------------------------------------------------------
(***************************************************************************)
(* The invariant of the row.                                               *)
(***************************************************************************)
LEMMA RowInvInit == RowInit => RowInv
<1> SUFFICES ASSUME RowInit PROVE RowInv
  OBVIOUS
<1> DEFINE Old(struck) == [Unprocessed EXCEPT !.strike = struck]
<1>1. \A struck \in BOOLEAN :
         /\ Old(struck) \in Rows /\ ~Old(struck).estimated
         /\ Old(struck).variant = Null /\ Old(struck).price = 1
  BY DEF Unprocessed, Rows, Titles, Aspects, Filings
<1>2. Cost(Unprocessed) \in Costs /\ Cost(Unprocessed).price = 1
  BY DEF Cost, Costs, Unprocessed
<1> HIDE DEF Old
<1>3. \/ table = {} /\ obs = <<>>
      \/ \E struck \in BOOLEAN : table = {Old(struck)} /\ obs = <<Cost(Unprocessed)>>
  BY DEF RowInit, Old
<1>4. TableInv
  BY <1>1, <1>3 DEF RowInit, TableInv
<1>5. SessionInv
  <2>1. tx \in [Writers -> Sessions] /\ \A p \in Writers : tx[p] = Idle
    BY DEF RowInit, Idle, Sessions, Kinds
  <2>2. Open = {} /\ begun = 0
    BY <2>1 DEF RowInit, Open
  <2>3. \A p \in Writers : Shows(p) /\ Remembered(p)
    BY <2>1 DEF Shows, Remembered, Idle
  <2> QED BY <2>1, <2>2, <2>3, FS_EmptySet, ListingRowAssumption
          DEF SessionInv, ListingRowAssumption
<1>6. HistoryInv
  <2>1. soldFor = Null
    BY DEF RowInit
  <2>2. CASE table = {} /\ obs = <<>>
    BY <2>1, <2>2 DEF HistoryInv
  <2>3. ASSUME NEW struck \in BOOLEAN, table = {Old(struck)}, obs = <<Cost(Unprocessed)>>
        PROVE  HistoryInv
    <3>1. Row = Old(struck)
      BY <2>3 DEF Row
    <3>2. obs \in Seq(Costs) /\ obs # <<>> /\ 1 \in DOMAIN obs /\ obs[1].price = 1
      BY <1>2, <2>3
    <3>3. Row.price \in Recorded
      BY <1>1, <3>1, <3>2 DEF Recorded
    <3> QED BY <2>1, <2>3, <3>2, <3>3 DEF HistoryInv
  <2> QED BY <1>3, <2>2, <2>3
<1>7. VariantIsCurrent
  <2>1. CASE table = {}
    BY <2>1 DEF Row, VariantIsCurrent
  <2>2. ASSUME NEW struck \in BOOLEAN, table = {Old(struck)} PROVE VariantIsCurrent
    <3>1. Row = Old(struck)
      BY <2>2 DEF Row
    <3> QED BY <1>1, <3>1 DEF VariantIsCurrent
  <2> QED BY <1>3, <2>1, <2>2
<1> QED BY <1>4, <1>5, <1>6, <1>7 DEF RowInv

\* A session that begins loads the row as it is.
LEMMA BeginKeeps ==
  ASSUME RowInv, NEW p \in Writers, NEW kind \in Kinds \ {"idle"}, NEW saw,
         Begin(p, kind, saw),
         kind = "search" => source = "ebay" /\ saw \in Offers,
         kind = "capture" => source # "ebay" /\ saw \in Captures,
         kind = "check" => Row # None /\ saw \in Bodies \cup {None},
         kind = "extract" => Row # None /\ saw = None
  PROVE  RowInv'
<1> DEFINE session == [kind |-> kind, loaded |-> Row, saw |-> saw]
<1>1. /\ tx' = [tx EXCEPT ![p] = session] /\ tx[p] = Idle
      /\ begun < MaxTx /\ begun' = begun + 1
      /\ UNCHANGED <<source, table, obs, soldFor, lag>>
  BY DEF Begin
<1>2. Row \in Rows \cup {None}
  BY RowFound DEF RowInv
<1>3. session \in Sessions
  BY <1>2 DEF Sessions, Kinds
<1>4. /\ tx' \in [Writers -> Sessions] /\ tx'[p] = session
      /\ \A q \in Writers \ {p} : tx'[q] = tx[q]
  BY <1>1, <1>3 DEF RowInv, SessionInv
<1>5. TableInv' /\ HistoryInv' /\ VariantIsCurrent' /\ Row' = Row
  BY <1>1 DEF RowInv, TableInv, HistoryInv, VariantIsCurrent, Recorded, Row
<1>6. begun' \in 0..MaxTx /\ Cardinality(Open') <= begun'
  <2>1. Open' \subseteq Open \cup {p}
    BY <1>4 DEF Open
  <2>2. /\ IsFiniteSet(Open \cup {p})
        /\ \/ Cardinality(Open \cup {p}) = Cardinality(Open)
           \/ Cardinality(Open \cup {p}) = Cardinality(Open) + 1
    BY OpenCounted, FS_AddElement
  <2>3. Cardinality(Open') <= Cardinality(Open \cup {p})
        /\ Cardinality(Open') \in Nat
    BY <2>1, <2>2, FS_Subset, FS_CardinalityType
  <2>4. Cardinality(Open) <= begun /\ begun \in Nat /\ MaxTx \in Nat
    BY ListingRowAssumption DEF RowInv, SessionInv, ListingRowAssumption
  <2> QED BY <1>1, <2>2, <2>3, <2>4, OpenCounted
<1>7. ASSUME NEW q \in Writers PROVE Shows(q)' /\ Remembered(q)'
  <2>1. CASE q = p
    <3>1. Shows(p)'
      BY <1>1, <1>4 DEF Shows, Kinds
    <3>2. Remembered(p)'
      <4>1. Row # None => table # {} /\ Row \in table
        BY RowFound DEF RowInv
      <4>2. Row # None => (Row.estimated => Row.shipping # Null)
        BY <4>1 DEF RowInv, TableInv
      <4> QED BY <1>1, <1>4, <1>5, <4>1, <4>2 DEF Remembered
    <3> QED BY <2>1, <3>1, <3>2
  <2>2. CASE q # p
    BY <1>1, <1>4, <1>5, <2>2 DEF RowInv, SessionInv, Shows, Remembered
  <2> QED BY <2>1, <2>2
<1> QED BY <1>4, <1>5, <1>6, <1>7 DEF RowInv, SessionInv

\* An aborted session changes nothing and frees its place in the bound.
LEMMA AbortKeeps ==
  ASSUME RowInv, NEW p \in Writers, Abort(p)
  PROVE  RowInv'
<1>1. /\ tx' = [tx EXCEPT ![p] = Idle] /\ tx[p] # Idle /\ begun' = begun - 1
      /\ UNCHANGED <<source, table, obs, soldFor, lag>>
  BY DEF Abort
<1>2. /\ tx' \in [Writers -> Sessions]
      /\ tx'[p] = Idle
      /\ \A q \in Writers \ {p} : tx'[q] = tx[q]
      /\ Cardinality(Open') = Cardinality(Open) - 1
      /\ Cardinality(Open) \in Nat \ {0}
  BY <1>1, SessionEnds DEF RowInv
<1>3. TableInv' /\ HistoryInv' /\ VariantIsCurrent' /\ Row' = Row
  BY <1>1 DEF RowInv, TableInv, HistoryInv, VariantIsCurrent, Recorded, Row
<1>4. begun' \in 0..MaxTx /\ Cardinality(Open') <= begun'
  BY <1>1, <1>2, ListingRowAssumption DEF RowInv, SessionInv, ListingRowAssumption
<1>5. ASSUME NEW q \in Writers PROVE Shows(q)' /\ Remembered(q)'
  <2>1. CASE q = p
    BY <1>2, <2>1 DEF Shows, Remembered, Idle
  <2>2. CASE q # p
    BY <1>1, <1>2, <1>3, <2>2 DEF RowInv, SessionInv, Shows, Remembered
  <2> QED BY <2>1, <2>2
<1> QED BY <1>2, <1>3, <1>4, <1>5 DEF RowInv, SessionInv

\* A new row is classified as it is and has its first observation.
LEMMA NewRowKnown ==
  ASSUME RowInv, NEW p \in Writers, tx[p].kind \in {"search", "capture"}
  PROVE  LET row == NewRow(tx[p].saw) IN
         /\ row \in Rows
         /\ row.estimated => row.shipping # Null
         /\ row.variant = Extracted(row.title, row.aspects, row.filing)
<1> DEFINE saw == tx[p].saw
           shipping == IF source = "ebay" THEN Shipping(saw.options)
                       ELSE [cost |-> saw.shipping, estimated |-> FALSE]
           aspects == IF source = "ebay" THEN Null ELSE saw.aspects
           filing == IF source = "ebay" THEN saw.filing ELSE Null
<1>1. /\ saw.title \in Titles /\ aspects \in Aspects /\ filing \in Filings
      /\ saw.price \in Nat
      /\ shipping.cost \in Nat \cup {Null} /\ shipping.estimated \in BOOLEAN
      /\ shipping.estimated => shipping.cost # Null
  <2>1. Shows(p)
    BY DEF RowInv, SessionInv
  <2>2. CASE source = "ebay"
    <3>1. saw \in Offers
      BY <2>1, <2>2 DEF Shows
    <3>2. saw.price \in Nat /\ \A option \in saw.options : option.cost \in Nat
      BY <3>1, ListingRowAssumption DEF ListingRowAssumption
    <3>3. shipping = Shipping(saw.options)
      BY <2>2
    <3>4. saw.title \in Titles /\ filing \in Filings /\ aspects \in Aspects
      BY <2>2, <3>1 DEF Titles, Filings, Aspects
    <3> QED BY <3>2, <3>3, <3>4, ShippingKnown
  <2>3. CASE source # "ebay"
    <3>1. saw \in Captures
      BY <2>1, <2>3 DEF Shows
    <3>2. saw.price \in Nat /\ saw.shipping \in Nat \cup {Null}
      BY <3>1, ListingRowAssumption DEF ListingRowAssumption
    <3>3. saw.title \in Titles /\ aspects \in Aspects /\ filing \in Filings
      BY <2>3, <3>1 DEF Titles, Filings, Aspects
    <3>4. shipping.cost = saw.shipping /\ shipping.estimated = FALSE
      BY <2>3
    <3> HIDE DEF shipping
    <3> QED BY <3>2, <3>3, <3>4
  <2> QED BY <2>2, <2>3
<1>2. NewRow(saw) =
        [title |-> saw.title, aspects |-> aspects, filing |-> filing,
         variant |-> Extracted(saw.title, aspects, filing),
         price |-> saw.price, shipping |-> shipping.cost, estimated |-> shipping.estimated,
         strike |-> FALSE, sold |-> FALSE]
  BY DEF NewRow
<1> HIDE DEF shipping, aspects, filing
<1>3. Extracted(saw.title, aspects, filing)
        \in [title : Titles, aspects : Aspects, filing : Filings]
  BY <1>1, ExtractedType
<1> QED BY <1>1, <1>2, <1>3 DEF Rows

LEMMA InsertKeeps ==
  ASSUME RowInv, NEW p \in Writers, Insert(p)
  PROVE  RowInv'
<1> DEFINE row == NewRow(tx[p].saw)
<1>1. /\ table = {} /\ table' = {row}
      /\ obs' = Append(obs, Cost(row))
      /\ tx' = [tx EXCEPT ![p] = Idle] /\ tx[p] # Idle
      /\ UNCHANGED <<source, begun, soldFor, lag>>
  BY DEF Insert, Collides, Idle
<1>2. /\ row \in Rows /\ (row.estimated => row.shipping # Null)
      /\ row.variant = Extracted(row.title, row.aspects, row.filing)
  BY NewRowKnown DEF Insert
<1> HIDE DEF row
<1>3. Row' = row /\ Row' # None
  BY <1>1, <1>2, ListingRowAssumption DEF Row, ListingRowAssumption
<1>4. /\ tx' \in [Writers -> Sessions]
      /\ tx'[p] = Idle
      /\ \A q \in Writers \ {p} : tx'[q] = tx[q]
      /\ Cardinality(Open') = Cardinality(Open) - 1
      /\ Cardinality(Open) \in Nat \ {0}
  BY <1>1, SessionEnds DEF RowInv
<1>5. TableInv' /\ VariantIsCurrent'
  BY <1>1, <1>2, <1>3 DEF RowInv, TableInv, VariantIsCurrent
<1>6. HistoryInv'
  <2>1. obs = <<>>
    BY <1>1 DEF RowInv, HistoryInv
  <2>2. obs' = <<Cost(row)>>
    BY <1>1, <2>1
  <2>3. Cost(row) \in Costs /\ Cost(row).price = row.price
    BY <1>2 DEF Cost, Costs, Rows
  <2>4. obs' \in Seq(Costs) /\ obs' # <<>> /\ Row'.price \in Recorded'
    BY <1>3, <2>2, <2>3 DEF Recorded
  <2>5. Recorded = {} /\ soldFor' \in Recorded' \cup {Null}
    BY <1>1, <2>1 DEF RowInv, HistoryInv, Recorded
  <2> QED BY <1>1, <2>4, <2>5 DEF HistoryInv
<1>7. begun' \in 0..MaxTx /\ Cardinality(Open') <= begun'
  BY <1>1, <1>4, ListingRowAssumption DEF RowInv, SessionInv, ListingRowAssumption
<1>8. ASSUME NEW q \in Writers PROVE Shows(q)' /\ Remembered(q)'
  <2>1. CASE q = p
    BY <1>4, <2>1 DEF Shows, Remembered, Idle
  <2>2. CASE q # p
    BY <1>1, <1>4, <2>2 DEF RowInv, SessionInv, Shows, Remembered
  <2> QED BY <2>1, <2>2
<1> QED BY <1>4, <1>5, <1>6, <1>7, <1>8 DEF RowInv, SessionInv

\* A commit of any kind is an update that is sound.
LEMMA CommitIsSound ==
  ASSUME RowInv, NEW p \in Writers,
         CommitSearch(p) \/ CommitCheck(p) \/ CommitCapture(p) \/ CommitExtraction(p)
  PROVE  \E changed, observed, lags :
           Sound(p, changed, observed, lags) /\ Update(p, changed, observed, lags)
BY SearchIsSound, CheckIsSound, CaptureIsSound, ExtractionIsSound

\* A step of the row either begins, ends or commits a session, or inserts.
LEMMA RowSteps ==
  ASSUME RowInv, RowStep
  PROVE  \E p \in Writers :
           \/ RowInv' /\ UNCHANGED <<table, obs, soldFor>>
           \/ Insert(p)
           \/ \E changed, observed, lags :
                Sound(p, changed, observed, lags) /\ Update(p, changed, observed, lags)
<1>1. PICK p \in Writers :
        \/ StartSearch(p) \/ StartCheck(p) \/ StartCapture(p)
        \/ \E onlyNew \in BOOLEAN : StartExtraction(p, onlyNew)
        \/ Insert(p) \/ Abort(p)
        \/ CommitSearch(p) \/ CommitCheck(p) \/ CommitCapture(p) \/ CommitExtraction(p)
  BY DEF RowStep
<1>2. ASSUME NEW kind, NEW saw, Begin(p, kind, saw) PROVE UNCHANGED <<table, obs, soldFor>>
  BY <1>2 DEF Begin
<1>3. CASE StartSearch(p)
  <2>1. PICK offer \in Offers : source = "ebay" /\ Begin(p, "search", offer)
    BY <1>3 DEF StartSearch
  <2> QED BY <1>2, <2>1, BeginKeeps DEF Kinds
<1>4. CASE StartCheck(p)
  <2>1. PICK body \in Bodies \cup {None} : Row # None /\ Begin(p, "check", body)
    BY <1>4 DEF StartCheck
  <2> QED BY <1>2, <2>1, BeginKeeps DEF Kinds
<1>5. CASE StartCapture(p)
  <2>1. PICK capture \in Captures : source # "ebay" /\ Begin(p, "capture", capture)
    BY <1>5 DEF StartCapture
  <2> QED BY <1>2, <2>1, BeginKeeps DEF Kinds
<1>6. ASSUME NEW onlyNew \in BOOLEAN, StartExtraction(p, onlyNew)
      PROVE  RowInv' /\ UNCHANGED <<table, obs, soldFor>>
  <2>1. Row # None /\ Begin(p, "extract", None)
    BY <1>6 DEF StartExtraction
  <2> QED BY <1>2, <2>1, BeginKeeps DEF Kinds
<1>7. CASE Abort(p)
  BY <1>7, AbortKeeps DEF Abort
<1> QED BY <1>1, <1>3, <1>4, <1>5, <1>6, <1>7, CommitIsSound

LEMMA RowInvStep == RowInv /\ [RowStep]_rowVars => RowInv'
<1> SUFFICES ASSUME RowInv, [RowStep]_rowVars PROVE RowInv'
  OBVIOUS
<1>1. CASE RowStep
  <2>1. ASSUME NEW p \in Writers, NEW changed, NEW observed, NEW lags,
               Sound(p, changed, observed, lags), Update(p, changed, observed, lags)
        PROVE  RowInv'
    BY <2>1, CommitKeepsTable, CommitKeepsSessions, CommitKeepsHistory,
       CommitKeepsVariant DEF RowInv
  <2> QED BY <1>1, <2>1, RowSteps, InsertKeeps
<1>2. CASE UNCHANGED rowVars
  BY <1>2 DEF rowVars, RowInv, TableInv, SessionInv, HistoryInv, VariantIsCurrent,
              Shows, Remembered, Row, Recorded, Open
<1> QED BY <1>1, <1>2
-----------------------------------------------------------------------------
(***************************************************************************)
(* The invariant of the watchlist.                                         *)
(***************************************************************************)
LEMMA WatchInvInit == Init => WatchInv
BY DEF Init, WatchInit, WatchInv, NoRequest, Requests

\* Nothing that is on record is ever taken off it.
LEMMA RecordedGrows ==
  ASSUME RowInv, RowStep
  PROVE  Recorded \subseteq Recorded'
<1>1. CASE UNCHANGED obs
  BY <1>1 DEF Recorded
<1>2. ASSUME NEW p \in Writers, Insert(p) PROVE Recorded = {}
  <2>1. obs = <<>>
    BY <1>2 DEF Insert, Collides, RowInv, HistoryInv
  <2> QED BY <2>1 DEF Recorded
<1>3. ASSUME NEW p \in Writers, NEW changed, NEW observed, NEW lags,
             Sound(p, changed, observed, lags), Update(p, changed, observed, lags)
      PROVE  Recorded \subseteq Recorded'
  BY <1>3, CommitKeepsHistory
<1> QED BY <1>1, <1>2, <1>3, RowSteps

LEMMA WatchInvRowStep ==
  ASSUME RowInv, WatchInv, RowStep, UNCHANGED <<items, asked, req>>
  PROVE  WatchInv'
BY RecordedGrows DEF WatchInv

\* A request starts from nothing and holds what it read.
LEMMA AskKeeps ==
  ASSUME WatchInv, NEW t \in Threads, NEW asks \in {"add", "annotate", "remove"},
         NEW price \in Nat \cup {Null},
         NEW item \in [id : Nat, priceWhenAdded : Nat] \cup {None},
         Ask(t, asks, price, item), asks = "add" => price \in Recorded
  PROVE  WatchInv'
<1> DEFINE request == [asks |-> asks, id |-> asked + 1, price |-> price, item |-> item]
<1>1. /\ asked' = asked + 1 /\ req' = [req EXCEPT ![t] = request]
      /\ items' = items /\ Recorded' = Recorded
  BY DEF Ask, rowVars, Recorded
<1>2. asked' \in Nat /\ 1..asked \subseteq 1..asked' /\ asked + 1 \in 1..asked'
  BY <1>1 DEF WatchInv
<1>3. request \in Requests
  BY <1>2 DEF Requests, WatchInv
<1>4. req' \in [Threads -> Requests] /\ req'[t] = request
      /\ \A u \in Threads \ {t} : req'[u] = req[u]
  BY <1>1, <1>3 DEF WatchInv
<1>5. items' \in SUBSET [id : 1..asked', priceWhenAdded : Recorded']
  BY <1>1, <1>2 DEF WatchInv
<1>6. ASSUME NEW u \in Threads, req'[u].asks = "add"
      PROVE  req'[u].id \in 1..asked' /\ req'[u].price \in Recorded'
  <2>1. CASE u = t
    BY <1>1, <1>2, <1>4, <1>6, <2>1
  <2>2. CASE u # t
    BY <1>1, <1>2, <1>4, <1>6, <2>2 DEF WatchInv
  <2> QED BY <2>1, <2>2
<1> QED BY <1>1, <1>2, <1>4, <1>5, <1>6 DEF WatchInv

\* Whatever the request did to the items, it is over.
LEMMA AnswerKeeps ==
  ASSUME WatchInv, NEW t \in Threads, req' = [req EXCEPT ![t] = NoRequest],
         UNCHANGED <<rowVars, asked>>,
         items' \in SUBSET [id : 1..asked, priceWhenAdded : Recorded],
         \A i, j \in items' : i = j
  PROVE  WatchInv'
<1>1. Recorded' = Recorded
  BY DEF rowVars, Recorded
<1>2. NoRequest \in Requests /\ NoRequest.asks # "add"
  BY DEF NoRequest, Requests
<1>3. req' \in [Threads -> Requests] /\ req'[t] = NoRequest
      /\ \A u \in Threads \ {t} : req'[u] = req[u]
  BY <1>2 DEF WatchInv
<1> QED BY <1>1, <1>2, <1>3 DEF WatchInv

LEMMA WatchInvWatchStep ==
  ASSUME RowInv, WatchInv, WatchStep
  PROVE  WatchInv' /\ UNCHANGED rowVars
<1>1. PICK t \in Threads :
        \/ ReadForAdd(t) \/ ReadForChange(t)
        \/ Add(t) \/ Annotate(t) \/ Remove(t) \/ RequestFails(t)
  BY DEF WatchStep
<1>2. CASE ReadForAdd(t)
  <2>1. Row.price \in Recorded /\ Row.price \in Nat
    <3>1. table # {}
      BY <1>2, RowFound DEF ReadForAdd, RowInv
    <3> QED BY <3>1, RowFound DEF RowInv, HistoryInv, Rows
  <2>2. Ask(t, "add", Row.price, None)
    BY <1>2 DEF ReadForAdd
  <2> QED BY <2>1, <2>2, AskKeeps DEF Ask
<1>3. CASE ReadForChange(t)
  <2>1. PICK asks \in {"annotate", "remove"}, item \in items : Ask(t, asks, Null, item)
    BY <1>3 DEF ReadForChange
  <2>2. item \in [id : Nat, priceWhenAdded : Nat]
    <3>1. \A i \in DOMAIN obs : obs[i] \in Costs
      BY DEF RowInv, HistoryInv
    <3>2. Recorded \subseteq Nat
      BY <3>1 DEF Recorded, Costs
    <3>3. item \in [id : 1..asked, priceWhenAdded : Recorded] /\ 1..asked \subseteq Nat
      BY <2>1 DEF WatchInv
    <3> QED BY <3>2, <3>3
  <2> QED BY <2>1, <2>2, AskKeeps DEF Ask
<1>4. CASE Add(t)
  <2> DEFINE item == [id |-> req[t].id, priceWhenAdded |-> req[t].price]
  <2>1. items = {} /\ items' = {item}
    BY <1>4 DEF Add, TakesOne
  <2>2. item \in [id : 1..asked, priceWhenAdded : Recorded]
    BY <1>4 DEF Add, WatchInv
  <2> QED BY <1>4, <2>1, <2>2, AnswerKeeps DEF Add
<1>5. CASE Annotate(t) \/ Remove(t) \/ RequestFails(t)
  <2>1. items' \subseteq items /\ req' = [req EXCEPT ![t] = NoRequest]
        /\ UNCHANGED <<rowVars, asked>>
    BY <1>5 DEF Annotate, Remove, RequestFails
  <2> QED BY <2>1, AnswerKeeps DEF WatchInv
<1> QED BY <1>1, <1>2, <1>3, <1>4, <1>5

LEMMA StepsKeep == RowInv /\ WatchInv /\ [Next]_vars => RowInv' /\ WatchInv'
<1> SUFFICES ASSUME RowInv, WatchInv, [Next]_vars PROVE RowInv' /\ WatchInv'
  OBVIOUS
<1>1. CASE RowStep /\ UNCHANGED <<items, asked, req>>
  BY <1>1, RowInvStep, WatchInvRowStep
<1>2. CASE WatchStep
  BY <1>2, WatchInvWatchStep, RowInvStep
<1>3. CASE UNCHANGED vars
  <2>1. UNCHANGED rowVars /\ UNCHANGED <<items, asked, req>>
    BY <1>3 DEF vars
  <2>2. Recorded' = Recorded
    BY <2>1 DEF rowVars, Recorded
  <2> QED BY <2>1, <2>2, RowInvStep DEF WatchInv
<1> QED BY <1>1, <1>2, <1>3 DEF Next

\* However many sessions and requests overlap, the row, its history, the
\* sessions' copies and the watchlist stay as the two invariants have them.
THEOREM WatchlistCorrect == Spec => [](RowInv /\ WatchInv)
<1>1. Init => RowInv /\ WatchInv
  BY RowInvInit, WatchInvInit DEF Init
<1> QED BY <1>1, StepsKeep, PTL DEF Spec
-----------------------------------------------------------------------------
(***************************************************************************)
(* What follows.                                                           *)
(***************************************************************************)

\* One row of a listing and one item on the watchlist, whatever overlaps; a
\* guessed shipping cost is known, and a row has a history.
THEOREM WatchlistTypeCorrect == Spec => []TypeOK
<1>1. RowInv /\ WatchInv => TypeOK
  <2> SUFFICES ASSUME RowInv, WatchInv PROVE TypeOK
    OBVIOUS
  <2>1. Cardinality(table) <= 1
    <3>1. CASE table = {}
      BY <3>1, FS_EmptySet
    <3>2. CASE table # {}
      <4>1. PICK r : table = {r}
        BY <3>2, RowFound DEF RowInv
      <4> QED BY <4>1, FS_Singleton
    <3> QED BY <3>1, <3>2
  <2>2. Cardinality(items) <= 1
    <3>1. CASE items = {}
      BY <3>1, FS_EmptySet
    <3>2. CASE items # {}
      <4>1. PICK i \in items : items = {i}
        BY <3>2 DEF WatchInv
      <4> QED BY <4>1, FS_Singleton
    <3> QED BY <3>1, <3>2
  <2>3. \A p \in Writers : tx[p].kind \in {"idle", "search", "check", "capture", "extract"}
    BY DEF RowInv, SessionInv, Sessions, Kinds
  <2>4. /\ \A item \in items : item.id \in 1..asked
        /\ \A t \in Threads : req[t].asks \in {"nothing", "add", "annotate", "remove"}
    BY DEF WatchInv, Requests
  <2> QED BY <2>1, <2>2, <2>3, <2>4
          DEF TypeOK, RowInv, TableInv, HistoryInv, SessionInv
<1> QED BY <1>1, WatchlistCorrect, PTL

\* A classification is of the texts in the same row, unless a stale copy, a
\* category that is not stored or a re-capture is on record as the reason.
THEOREM VariantsAreCurrent == Spec => []VariantIsCurrent
<1>1. RowInv => VariantIsCurrent
  BY DEF RowInv
<1> QED BY <1>1, WatchlistCorrect, PTL

\* The price a sale was recorded for and the price an item was watched at are
\* in the price history.
THEOREM PricesStayOnRecord == Spec => []KeptPricesAreOnRecord
<1>1. RowInv /\ WatchInv => KeptPricesAreOnRecord
  BY DEF RowInv, HistoryInv, WatchInv, KeptPricesAreOnRecord, Recorded
<1> QED BY <1>1, WatchlistCorrect, PTL

\* Shipping and aspects that are known stay known: neither the code nor a copy
\* that is out of date blanks them.
THEOREM NothingIsForgotten == Spec => KnowledgeStays
<1>1. ASSUME RowInv, WatchInv, [Next]_vars
      PROVE  [Row # None =>
                /\ Row.shipping # Null => Row'.shipping # Null
                /\ Row.aspects # Null => Row'.aspects # Null]_rowVars
  <2> SUFFICES ASSUME ~UNCHANGED rowVars, Row # None
               PROVE  /\ Row.shipping # Null => Row'.shipping # Null
                      /\ Row.aspects # Null => Row'.aspects # Null
    OBVIOUS
  <2>1. RowStep
    BY <1>1, WatchInvWatchStep DEF Next, vars
  <2>2. table # {}
    BY <1>1, RowFound DEF RowInv
  <2>3. CASE UNCHANGED table
    BY <2>3 DEF Row
  <2>4. ASSUME NEW p \in Writers, Insert(p) PROVE FALSE
    BY <2>2, <2>4 DEF Insert, Collides
  <2>5. ASSUME NEW p \in Writers, NEW changed, NEW observed, NEW lags,
               Sound(p, changed, observed, lags), Update(p, changed, observed, lags)
        PROVE  /\ Row.shipping # Null => Row'.shipping # Null
               /\ Row.aspects # Null => Row'.aspects # Null
    BY <1>1, <2>5, CommitForgetsNothing
  <2> QED BY <1>1, <2>1, <2>3, <2>4, <2>5, RowSteps
<1> QED BY <1>1, WatchlistCorrect, PTL DEF Spec, KnowledgeStays

\* What the history gains is a move of the row, but for a capture without
\* shipping and for a session whose copy of the cost was out of date.
THEOREM HistoryHasNews == Spec => OnlyMovesAreRecorded
<1> DEFINE Moves == \E p \in Writers :
                      /\ tx[p] # Idle /\ tx'[p] = Idle
                      /\ \/ Cost(Row) # Cost(Row')
                         \/ tx[p].kind = "capture" /\ tx[p].saw.shipping = Null
                         \/ IsStale(p, CostColumns)
<1>1. ASSUME RowInv, WatchInv, [Next]_vars
      PROVE  [Len(obs') > Len(obs) /\ Row # None => Moves]_rowVars
  <2> SUFFICES ASSUME ~UNCHANGED rowVars, Len(obs') > Len(obs), Row # None
               PROVE  Moves
    OBVIOUS
  <2>1. RowStep
    BY <1>1, WatchInvWatchStep DEF Next, vars
  <2>2. table # {} /\ obs \in Seq(Costs) /\ Len(obs) \in Nat
    BY <1>1, RowFound DEF RowInv, HistoryInv
  <2>3. obs' # obs
    BY <2>2
  <2>4. ASSUME NEW p \in Writers, Insert(p) PROVE FALSE
    BY <2>2, <2>4 DEF Insert, Collides
  <2>5. ASSUME NEW p \in Writers, NEW changed, NEW observed, NEW lags,
               Sound(p, changed, observed, lags), Update(p, changed, observed, lags)
        PROVE  Moves
    <3> DEFINE capturedBare == tx[p].kind = "capture" /\ tx[p].saw.shipping = Null
    <3>1. observed \in Seq(Costs) /\ changed \in Rows
      BY <2>5 DEF Sound
    <3>2. obs' = obs \o observed
      BY <2>5 DEF Update
    <3>3. observed # <<>>
      BY <2>2, <2>3, <3>1, <3>2
    <3>4. Cost(tx[p].loaded) # Cost(changed) \/ capturedBare
      BY <2>5, <3>3 DEF Sound
    <3>5. tx[p] # Idle /\ tx'[p] = Idle
      BY <1>1, <2>5 DEF Update, Idle, RowInv, SessionInv
    <3>6. \/ Cost(Row) # Cost(Row')
          \/ capturedBare
          \/ IsStale(p, CostColumns)
      <4>1. CASE ~IsStale(p, CostColumns) /\ Cost(tx[p].loaded) # Cost(changed)
        <5>1. CostColumns \in SUBSET {"title", "aspects", "filing", "variant", "price",
                                      "shipping", "estimated", "strike", "sold"}
          BY DEF CostColumns
        <5>2. \A c \in CostColumns : Row'[c] = changed[c] /\ Row[c] = tx[p].loaded[c]
          BY <1>1, <2>5, <3>1, <4>1, <5>1, CurrentColumns
        <5>3. Cost(Row) = Cost(tx[p].loaded) /\ Cost(Row') = Cost(changed)
          BY <5>2 DEF CostColumns, Cost
        <5> QED BY <4>1, <5>3
      <4> QED BY <3>4, <4>1
    <3> QED BY <3>5, <3>6
  <2> QED BY <1>1, <2>1, <2>3, <2>4, <2>5, RowSteps
<1> QED BY <1>1, WatchlistCorrect, PTL DEF Spec, OnlyMovesAreRecorded
-----------------------------------------------------------------------------
(***************************************************************************)
(* Sessions in turn.                                                       *)
(***************************************************************************)

\* No two sessions are open at once.
SessionsInTurn == \A p, q \in Writers : tx[p] # Idle /\ tx[q] # Idle => p = q

\* The history ends at what is stored, or at its price where captures, which
\* record a shipping cost they were not shown, write it.
HistoryEndsAtTheRow ==
  table # {} => /\ obs[Len(obs)].price = Row.price
                /\ source = "ebay" => obs[Len(obs)] = Cost(Row)

\* What a session in turn loaded is what the row is when it commits.
CopyIsTheRow == \A p \in Writers : tx[p] # Idle => tx[p].loaded = Row

\* A commit of a current copy, or a first insert, leaves the history at the row.
LEMMA HistoryFollows ==
  ASSUME RowInv, CopyIsTheRow, HistoryEndsAtTheRow, NEW p \in Writers,
         \/ Insert(p)
         \/ \E changed, observed, lags :
              Sound(p, changed, observed, lags) /\ Update(p, changed, observed, lags)
  PROVE  HistoryEndsAtTheRow'
<1>1. CASE Insert(p)
  <2> DEFINE row == NewRow(tx[p].saw)
  <2>1. table = {} /\ table' = {row} /\ obs' = Append(obs, Cost(row))
    BY <1>1 DEF Insert, Collides
  <2>2. row \in Rows
    BY <1>1, NewRowKnown DEF Insert
  <2> HIDE DEF row
  <2>3. Row' = row /\ Cost(row).price = row.price
    BY <2>1 DEF Row, Cost
  <2>4. obs' = <<Cost(row)>>
    BY <2>1 DEF RowInv, HistoryInv
  <2> QED BY <2>3, <2>4 DEF HistoryEndsAtTheRow
<1>2. ASSUME NEW changed, NEW observed, NEW lags,
             Sound(p, changed, observed, lags), Update(p, changed, observed, lags)
      PROVE  HistoryEndsAtTheRow'
  <2>1. changed \in Rows /\ Records(p, changed, observed)
    BY <1>2 DEF Sound
  <2>2. /\ obs' = obs \o observed /\ source' = source
        /\ tx[p] # Idle /\ tx[p].loaded # None /\ tx[p].loaded = Row
    BY <1>2 DEF Update, CopyIsTheRow, Idle
  <2>3. table # {} /\ obs \in Seq(Costs) /\ obs # <<>>
    BY <1>2, <2>1, UpdateEffect DEF RowInv, HistoryInv
  <2>4. /\ Row'.price = changed.price /\ Cost(Row') = Cost(changed)
        /\ Cost(Row').price = Row'.price /\ Cost(Row).price = Row.price
    <3>1. CostColumns \in SUBSET {"title", "aspects", "filing", "variant", "price",
                                  "shipping", "estimated", "strike", "sold"}
      BY DEF CostColumns
    <3>2. ~IsStale(p, CostColumns)
      BY <2>2 DEF IsStale
    <3>3. \A c \in CostColumns : Row'[c] = changed[c]
      BY <1>2, <2>1, <3>1, <3>2, CurrentColumns
    <3> QED BY <3>3 DEF CostColumns, Cost
  <2>5. CASE observed = <<>> /\ Cost(changed) = Cost(Row)
    <3>1. obs' = obs
      BY <2>2, <2>3, <2>5
    <3> QED BY <2>2, <2>3, <2>4, <2>5, <3>1 DEF HistoryEndsAtTheRow
  <2>6. ASSUME NEW cost \in Costs, observed = <<cost>>, cost.price = changed.price,
               source = "ebay" => cost = Cost(changed)
        PROVE  HistoryEndsAtTheRow'
    <3>1. obs'[Len(obs')] = cost
      BY <2>2, <2>3, <2>6
    <3> QED BY <2>2, <2>4, <2>6, <3>1 DEF HistoryEndsAtTheRow
  <2> QED BY <2>1, <2>2, <2>5, <2>6 DEF Records
<1> QED BY <1>1, <1>2

\* One that begins loads the row; while it is open nobody else writes.
LEMMA CopiesFollow ==
  ASSUME RowInv, SessionsInTurn, CopyIsTheRow, RowStep
  PROVE  CopyIsTheRow'
<1>1. ASSUME NEW p \in Writers, NEW kind, NEW saw, Begin(p, kind, saw)
      PROVE  CopyIsTheRow'
  <2>1. Row' = Row
    BY <1>1 DEF Begin, Row
  <2>2. /\ tx'[p].loaded = Row
        /\ \A q \in Writers \ {p} : tx'[q] = tx[q]
    BY <1>1 DEF Begin, RowInv, SessionInv
  <2> QED BY <2>1, <2>2 DEF CopyIsTheRow
<1>2. ASSUME NEW p \in Writers, tx[p] # Idle, tx' = [tx EXCEPT ![p] = Idle]
      PROVE  CopyIsTheRow'
  <2>1. \A q \in Writers : tx'[q] = Idle
    BY <1>2 DEF SessionsInTurn, RowInv, SessionInv
  <2> QED BY <2>1 DEF CopyIsTheRow
<1>3. ASSUME NEW p \in Writers,
             \/ Insert(p) \/ Abort(p)
             \/ CommitSearch(p) \/ CommitCheck(p) \/ CommitCapture(p) \/ CommitExtraction(p)
      PROVE  tx[p] # Idle /\ tx' = [tx EXCEPT ![p] = Idle]
  BY <1>3 DEF Insert, Abort, CommitSearch, CommitCheck, CommitCapture, CommitExtraction,
              Update, Idle
<1> QED BY <1>1, <1>2, <1>3
        DEF RowStep, StartSearch, StartCheck, StartCapture, StartExtraction

\* PriceObservation, "written only when the price or shipping actually changes":
\* sessions in turn miss no change, so that the history ends at the row.  Two
\* that overlap may, each from a copy of its own (api/models.py).
THEOREM SessionsInTurnRecordEveryMove ==
  Spec /\ []SessionsInTurn => []HistoryEndsAtTheRow
<1> DEFINE Inv == RowInv /\ WatchInv
           Ends == CopyIsTheRow /\ HistoryEndsAtTheRow
<1>1. Init => Ends
  <2> SUFFICES ASSUME Init PROVE Ends
    OBVIOUS
  <2>1. /\ tx = [p \in Writers |-> Idle]
        /\ obs = IF table = {} THEN <<>> ELSE <<Cost(Unprocessed)>>
        /\ \/ table = {}
           \/ \E struck \in BOOLEAN : table = {[Unprocessed EXCEPT !.strike = struck]}
    BY DEF Init, RowInit
  <2>2. ASSUME table # {} PROVE obs = <<Cost(Row)>> /\ Cost(Row).price = Row.price
    <3>1. PICK struck \in BOOLEAN : table = {[Unprocessed EXCEPT !.strike = struck]}
      BY <2>1, <2>2
    <3>2. Row = [Unprocessed EXCEPT !.strike = struck]
      BY <3>1 DEF Row
    <3> QED BY <2>1, <2>2, <3>2 DEF Cost, Unprocessed
  <2> QED BY <2>1, <2>2 DEF CopyIsTheRow, HistoryEndsAtTheRow
<1>2. Inv /\ SessionsInTurn /\ Ends /\ [Next]_vars => Ends'
  <2> SUFFICES ASSUME Inv, SessionsInTurn, Ends, [Next]_vars PROVE Ends'
    OBVIOUS
  <2>1. CASE RowStep
    <3>1. CopyIsTheRow'
      BY <2>1, CopiesFollow
    <3>2. source' = source
      BY <2>1 DEF RowStep, StartSearch, StartCheck, StartCapture, StartExtraction, Begin,
                  Insert, Abort, CommitSearch, CommitCheck, CommitCapture,
                  CommitExtraction, Update
    <3>3. ASSUME UNCHANGED <<table, obs>> PROVE HistoryEndsAtTheRow'
      BY <3>2, <3>3 DEF HistoryEndsAtTheRow, Row
    <3> QED BY <2>1, <3>1, <3>3, RowSteps, HistoryFollows
  <2>2. CASE UNCHANGED rowVars
    BY <2>2 DEF rowVars, CopyIsTheRow, HistoryEndsAtTheRow, Row
  <2>3. CASE WatchStep
    BY <2>2, <2>3, WatchInvWatchStep
  <2> QED BY <2>1, <2>2, <2>3 DEF Next, vars
<1>3. Spec => []Inv
  BY WatchlistCorrect
<1> QED BY <1>1, <1>2, <1>3, PTL DEF Spec
=============================================================================
