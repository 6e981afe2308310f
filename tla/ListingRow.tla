------------------------------ MODULE ListingRow ------------------------------
(***************************************************************************)
(* One listing's row and its price history, as searches, checks, captures  *)
(* and the extraction over the corpus write them (connectors/ingest_ebay,  *)
(* disappearance_check, capture, ml/extract_listings).                     *)
(*                                                                         *)
(* Each of them loads the row in a session, works on the copy and commits  *)
(* what it changed; jobs of the worker, jobs started by hand and requests  *)
(* of the API do so side by side.  The extracted columns are represented   *)
(* by what they were extracted from; ListingLifecycle has the row's clocks *)
(* and Extraction the function.                                            *)
(***************************************************************************)
EXTENDS Columns, Naturals, Sequences

CONSTANTS Sources,    \* "ebay", and what captures come from
          Writers,    \* sessions that may be open at a time
          Offers,     \* the listing as a search shows it
          Captures,   \* the listing as the extension shows it
          Bodies,     \* the listing as getItem shows it
          MaxTx,      \* bound: transactions open or committed
          None

\* What the columns hold; the texts are those that are shown.
Titles == {"unit"} \cup {s.title : s \in Offers \cup Captures}
Aspects == {Null} \cup {s.aspects : s \in Captures \cup Bodies}
Filings == {"a", Null} \cup {o.filing : o \in Offers}

Rows == [title : Titles, aspects : Aspects, filing : Filings,
         variant : [title : Titles, aspects : Aspects, filing : Filings] \cup {Null},
         price : Nat, shipping : Nat \cup {Null}, estimated : BOOLEAN,
         strike : BOOLEAN, sold : BOOLEAN]

ASSUME ListingRowAssumption ==
  /\ "ebay" \in Sources
  /\ IsFiniteSet(Writers) /\ MaxTx \in Nat
  /\ Null \notin Nat /\ None \notin Rows
  /\ \A o \in Offers : o.price \in Nat /\ \A option \in o.options : option.cost \in Nat
  /\ \A c \in Captures : c.price \in Nat /\ c.shipping \in Nat \cup {Null}
  /\ \A b \in Bodies : b.ended \in BOOLEAN

VARIABLES source,  \* where the listing is from
          table,   \* the rows with the listing's source and id
          obs,     \* its price observations, oldest first
          tx,      \* by writer: kind, the row it loaded, what it was shown
          begun,   \* transactions open or committed
          soldFor, \* history: the price it had when it was judged sold
          lag      \* history: why the extracted columns may be out of date

rowVars == <<source, table, obs, tx, begun, soldFor, lag>>

-----------------------------------------------------------------------------

Idle == [kind |-> "idle", loaded |-> None, saw |-> None]

\* The row as a query finds it.
Row == IF table = {} THEN None ELSE CHOOSE r \in table : TRUE

\* The extracted columns: a function of these.
Extracted(title, aspects, filing) ==
  [title |-> title, aspects |-> aspects, filing |-> filing]

Cost(r) == [price |-> r.price, shipping |-> r.shipping]

\* A commit writes the columns that differ from what the session loaded.
Merge(changed, loaded, current) ==
  [c \in DOMAIN current |-> IF changed[c] # loaded[c] THEN changed[c] ELSE current[c]]

\* The cheapest firm option; a guess only where there is no firm one.
Shipping(options) ==
  LET costs(kinds) == {o.cost : o \in {o \in options : o.kind \in kinds}}
      firm == costs({"FIXED"})
      guessed == costs({"CALCULATED"})
  IN IF firm # {} THEN [cost |-> Min(firm), estimated |-> FALSE]
     ELSE IF guessed # {} THEN [cost |-> Min(guessed), estimated |-> TRUE]
     ELSE [cost |-> Null, estimated |-> FALSE]

\* A row from before the extraction was introduced, with a strike or without.
Unprocessed == [title |-> "unit", aspects |-> Null, filing |-> "a", variant |-> Null,
                price |-> 1, shipping |-> Null, estimated |-> FALSE,
                strike |-> FALSE, sold |-> FALSE]

RowInit ==
  /\ source \in Sources
  /\ \/ table = {}
     \/ /\ source = "ebay"
        /\ \E struck \in BOOLEAN : table = {[Unprocessed EXCEPT !.strike = struck]}
  /\ obs = IF table = {} THEN <<>> ELSE <<Cost(Unprocessed)>>
  /\ tx = [p \in Writers |-> Idle]
  /\ begun = 0
  /\ soldFor = Null
  /\ lag = FALSE

-----------------------------------------------------------------------------
(* Sessions.                                                               *)

Begin(p, kind, saw) ==
  /\ tx[p] = Idle
  /\ begun < MaxTx
  /\ begun' = begun + 1
  /\ tx' = [tx EXCEPT ![p] = [kind |-> kind, loaded |-> Row, saw |-> saw]]
  /\ UNCHANGED <<source, table, obs, soldFor, lag>>

StartSearch(p) == source = "ebay" /\ \E offer \in Offers : Begin(p, "search", offer)

\* Only listings that are not sold are checked.
StartCheck(p) ==
  /\ source = "ebay"
  /\ Row # None /\ ~Row.sold
  /\ \E body \in Bodies \cup {None} : Begin(p, "check", body)

StartCapture(p) ==
  source # "ebay" /\ \E capture \in Captures : Begin(p, "capture", capture)

\* Everything again, or what was never processed.
StartExtraction(p, onlyNew) ==
  /\ Row # None
  /\ onlyNew => Row.variant = Null
  /\ Begin(p, "extract", None)

\* The copy of some columns is not what is stored any more.
IsStale(p, columns) ==
  tx[p].loaded # None /\ \E c \in columns : tx[p].loaded[c] # Row[c]

TextColumns == {"title", "aspects", "filing", "variant"}
CostColumns == {"price", "shipping"}

-----------------------------------------------------------------------------
(* Inserts.                                                                *)

NewRow(saw) ==
  LET shipping == IF source = "ebay" THEN Shipping(saw.options)
                  ELSE [cost |-> saw.shipping, estimated |-> FALSE]
      aspects == IF source = "ebay" THEN Null ELSE saw.aspects
      filing == IF source = "ebay" THEN saw.filing ELSE Null
  IN [title |-> saw.title, aspects |-> aspects, filing |-> filing,
      variant |-> Extracted(saw.title, aspects, filing),
      price |-> saw.price, shipping |-> shipping.cost, estimated |-> shipping.estimated,
      strike |-> FALSE, sold |-> FALSE]

\* uq_listing_source_id: the session that finds the row there fails.
Collides(p) == tx[p].loaded = None /\ table # {}

Insert(p) ==
  /\ tx[p].kind \in {"search", "capture"}
  /\ tx[p].loaded = None
  /\ ~Collides(p)
  /\ table' = table \cup {NewRow(tx[p].saw)}
  /\ obs' = Append(obs, Cost(NewRow(tx[p].saw)))
  /\ tx' = [tx EXCEPT ![p] = Idle]
  /\ UNCHANGED <<source, begun, soldFor, lag>>

\* A collision, or anything else that ends a session without a commit; the
\* bound does not count it.
Abort(p) ==
  /\ tx[p] # Idle
  /\ tx' = [tx EXCEPT ![p] = Idle]
  /\ begun' = begun - 1
  /\ UNCHANGED <<source, table, obs, soldFor, lag>>

-----------------------------------------------------------------------------
(* Updates.                                                                *)

\* Commits changed; the extracted columns lag as the transaction says.
Update(p, changed, observed, lags) ==
  /\ tx[p].loaded # None
  /\ table' = {Merge(changed, tx[p].loaded, Row)}
  /\ obs' = obs \o observed
  /\ tx' = [tx EXCEPT ![p] = Idle]
  /\ soldFor' = IF changed.sold /\ ~tx[p].loaded.sold THEN Row.price ELSE soldFor
  /\ lag' = (lags \/ IsStale(p, TextColumns))
  /\ UNCHANGED <<source, begun>>

\* Mutant: an absent shipping cost is copied.
RefreshedBlanking(row, offer) ==
  [row EXCEPT !.title = offer.title,
              !.variant = Extracted(offer.title, row.aspects, offer.filing),
              !.price = offer.price,
              !.shipping = Shipping(offer.options).cost,
              !.estimated = Shipping(offer.options).estimated,
              !.strike = FALSE]

\* Everything a search shows, but an unknown shipping cost blanks nothing.
\* The category and condition are read and not stored.
Refreshed(row, offer) ==
  LET shipping == Shipping(offer.options) IN
  [row EXCEPT !.title = offer.title,
              !.variant = Extracted(offer.title, row.aspects, offer.filing),
              !.price = offer.price,
              !.shipping = IF shipping.cost = Null THEN @ ELSE shipping.cost,
              !.estimated = IF shipping.cost = Null THEN @ ELSE shipping.estimated,
              !.strike = FALSE]

\* Mutant: compares after the refresh.
MoveUnseen(row, offer) == <<>>

\* Mutant: compares what the search shows.
MoveAsShown(row, offer) ==
  LET shown == [price |-> offer.price, shipping |-> Shipping(offer.options).cost] IN
  IF Cost(row) # shown THEN <<Cost(Refreshed(row, offer))>> ELSE <<>>

\* What is stored before the refresh against what is stored after it.
Move(row, offer) ==
  LET changed == Refreshed(row, offer) IN
  IF Cost(row) # Cost(changed) THEN <<Cost(changed)>> ELSE <<>>

CommitSearch(p) ==
  /\ tx[p].kind = "search"
  /\ LET row == tx[p].loaded
         offer == tx[p].saw
     IN Update(p, Refreshed(row, offer), Move(row, offer), offer.filing # row.filing)

\* Mutant: what the body taught is not read into the extracted columns.
EnrichedOnly(row, body) ==
  [row EXCEPT !.aspects = IF body.aspects = Null THEN @ ELSE body.aspects]

\* Additive, and extracted again.
Enriched(row, body) ==
  LET aspects == IF body.aspects = Null THEN row.aspects ELSE body.aspects IN
  [row EXCEPT !.aspects = aspects,
              !.variant = Extracted(row.title, aspects, row.filing)]

Ended(body) == body = None \/ body.ended

\* Two strikes in a row are a sale; an answer that it is there clears one.
Judged(row, body) ==
  [row EXCEPT !.strike = Ended(body),
              !.sold = Ended(body) /\ row.strike]

\* Nothing is extracted from a 404.
CommitCheck(p) ==
  /\ tx[p].kind = "check"
  /\ LET row == tx[p].loaded
         body == tx[p].saw
     IN Update(p, Judged(IF body = None THEN row ELSE Enriched(row, body), body),
               <<>>, body = None /\ lag)

\* The title, aspects and price of a capture; nothing is extracted.
Recaptured(row, capture) ==
  [row EXCEPT !.title = capture.title,
              !.aspects = IF capture.aspects = Null THEN @ ELSE capture.aspects,
              !.price = capture.price,
              !.shipping = IF capture.shipping = Null THEN @ ELSE capture.shipping]

\* Compares what was captured, not what is stored of it.
Sighting(row, capture) ==
  IF Cost(row) # Cost(capture) THEN <<Cost(capture)>> ELSE <<>>

CommitCapture(p) ==
  /\ tx[p].kind = "capture"
  /\ tx[p].loaded # None
  /\ LET row == tx[p].loaded
         changed == Recaptured(row, tx[p].saw)
     IN Update(p, changed, Sighting(row, tx[p].saw),
               lag \/ <<changed.title, changed.aspects>> # <<row.title, row.aspects>>)

CommitExtraction(p) ==
  /\ tx[p].kind = "extract"
  /\ LET row == tx[p].loaded
     IN Update(p, [row EXCEPT !.variant = Extracted(row.title, row.aspects, row.filing)],
               <<>>, FALSE)

RowStep ==
  \E p \in Writers :
    \/ StartSearch(p) \/ StartCheck(p) \/ StartCapture(p)
    \/ \E onlyNew \in BOOLEAN : StartExtraction(p, onlyNew)
    \/ Insert(p) \/ Abort(p)
    \/ CommitSearch(p) \/ CommitCheck(p) \/ CommitCapture(p) \/ CommitExtraction(p)

-----------------------------------------------------------------------------
(* Properties.                                                             *)

\* A classification is that of the title, the aspects and the category in the
\* same row, whatever order searches, checks and extractions come in.  It lags
\* only where the last writer had a copy from before another's commit, saw a
\* category the row does not have, or was a re-capture, which extracts nothing
\* (connectors/capture.py).
VariantIsCurrent ==
  Row # None /\ Row.variant # Null /\ ~lag =>
    Row.variant = Extracted(Row.title, Row.aspects, Row.filing)

\* Nothing that was learned once is forgotten: no search without shipping
\* options, no body without aspects and no capture without either blanks them,
\* by itself or by overwriting what another session learned.
KnowledgeStays ==
  [][Row # None =>
       /\ Row.shipping # Null => Row'.shipping # Null
       /\ Row.aspects # Null => Row'.aspects # Null]_rowVars

\* The history has news only: an entry that repeats what is stored is from a
\* capture without shipping, which is compared to a cost that is known, or from
\* a session whose copy was out of date.
OnlyMovesAreRecorded ==
  [][Len(obs') > Len(obs) /\ Row # None =>
       \E p \in Writers :
         /\ tx[p] # Idle /\ tx'[p] = Idle
         /\ \/ Cost(Row) # Cost(Row')
            \/ tx[p].kind = "capture" /\ tx[p].saw.shipping = Null
            \/ IsStale(p, CostColumns)]_rowVars

=============================================================================
