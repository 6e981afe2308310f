------------------------------- MODULE Watchlist -------------------------------
(***************************************************************************)
(* The watchlist routes (api/routes/watchlist.py) over a row that others   *)
(* move: requests that add, annotate and remove the listing's item, each   *)
(* reading before it writes.                                               *)
(***************************************************************************)
EXTENDS ListingRow

CONSTANTS Threads,     \* the API's threads
          MaxRequests  \* bound: requests that found what they asked for

ASSUME WatchlistAssumption == MaxRequests \in Nat

VARIABLES items, \* the watchlist: items of the listing
          asked, \* requests that found what they asked for
          req    \* by thread: what is asked and what was read

vars == <<rowVars, items, asked, req>>

NoRequest == [asks |-> "nothing", id |-> 0, price |-> Null, item |-> None]

WatchInit ==
  /\ items = {}
  /\ asked = 0
  /\ req = [t \in Threads |-> NoRequest]

-----------------------------------------------------------------------------

Ask(t, asks, price, item) ==
  /\ req[t] = NoRequest
  /\ asked < MaxRequests
  /\ asked' = asked + 1
  /\ req' = [req EXCEPT ![t] =
               [asks |-> asks, id |-> asked + 1, price |-> price, item |-> item]]
  /\ UNCHANGED <<rowVars, items>>

\* The listing is read, and that it is not watched: 404 or 409 otherwise.
ReadForAdd(t) ==
  /\ Row # None
  /\ items = {}
  /\ Ask(t, "add", Row.price, None)

\* PATCH and DELETE find the item or answer 404.
ReadForChange(t) ==
  \E asks \in {"annotate", "remove"}, item \in items : Ask(t, asks, Null, item)

\* Mutant: the listing of an item is a plain foreign key.
TakesAnything == TRUE

\* listing_id is unique.
TakesOne == items = {}

Add(t) ==
  /\ req[t].asks = "add"
  /\ TakesOne
  /\ items' = items \cup {[id |-> req[t].id, priceWhenAdded |-> req[t].price]}
  /\ req' = [req EXCEPT ![t] = NoRequest]
  /\ UNCHANGED <<rowVars, asked>>

\* A note is no part of the item here, but writing one takes the item.
Annotate(t) ==
  /\ req[t].asks = "annotate"
  /\ req[t].item \in items
  /\ req' = [req EXCEPT ![t] = NoRequest]
  /\ UNCHANGED <<rowVars, items, asked>>

Remove(t) ==
  /\ req[t].asks = "remove"
  /\ req[t].item \in items
  /\ items' = items \ {req[t].item}
  /\ req' = [req EXCEPT ![t] = NoRequest]
  /\ UNCHANGED <<rowVars, asked>>

\* The constraint refuses the item, the item is gone, or the request dies.
RequestFails(t) ==
  /\ req[t] # NoRequest
  /\ req' = [req EXCEPT ![t] = NoRequest]
  /\ UNCHANGED <<rowVars, items, asked>>

WatchStep ==
  \E t \in Threads :
    \/ ReadForAdd(t)
    \/ ReadForChange(t)
    \/ Add(t) \/ Annotate(t) \/ Remove(t) \/ RequestFails(t)

Next ==
  \/ RowStep /\ UNCHANGED <<items, asked, req>>
  \/ WatchStep

Init == RowInit /\ WatchInit

Spec == Init /\ [][Next]_vars

-----------------------------------------------------------------------------
(* Properties.                                                             *)

\* However sessions and requests overlap, there is one row and one item of the
\* listing; a cost that is estimated is known, and a row has an observation from
\* its first day on.
TypeOK ==
  /\ table \subseteq Rows
  /\ Cardinality(table) <= 1 /\ Cardinality(items) <= 1
  /\ \A r \in table : r.estimated => r.shipping # Null
  /\ table = {} <=> obs = <<>>
  /\ begun \in 0..MaxTx
  /\ \A p \in Writers : tx[p].kind \in {"idle", "search", "check", "capture", "extract"}
  /\ \A item \in items : item.id \in 1..asked
  /\ \A t \in Threads : req[t].asks \in {"nothing", "add", "annotate", "remove"}

\* The price a watched item was added at and the price a sale was recorded for
\* are in the price history, although the row's price moves on, after a sale
\* as well (a search hit refreshes a sold row): no writer moves it silently.
KeptPricesAreOnRecord ==
  LET recorded == {obs[i].price : i \in DOMAIN obs} IN
  /\ soldFor \in recorded \cup {Null}
  /\ \A item \in items : item.priceWhenAdded \in recorded

=============================================================================
