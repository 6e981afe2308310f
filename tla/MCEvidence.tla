------------------------------ MODULE MCEvidence ------------------------------
(***************************************************************************)
(* Evidence for TLC: the titles, the listings and the mutants of the       *)
(* pure operators.                                                         *)
(***************************************************************************)
EXTENDS Evidence

\* A plain listing of one product with catalogue id; the kinds vary it.
Plain ==
  [price |-> 10, shippingCost |-> 0, shippingEstimated |-> FALSE,
   isAuction |-> FALSE, bids |-> Null, endGap |-> Null, lifetime |-> 5,
   acceptsBestOffer |-> FALSE, imageHash |-> "photo", epid |-> "e",
   lotSize |-> Null, hasDefect |-> FALSE, isAccessory |-> FALSE,
   priceIsFrom |-> FALSE, completeness |-> Null, capacity |-> Null,
   generation |-> Null, formFactor |-> Null, modelKey |-> "rtx-4080",
   category |-> "cards", embedded |-> TRUE]

\* The same product after a month, at an auction with bids, and as a lot; and
\* something unidentified with its capacity stated, dear and open to offers.
SomeKinds ==
  {Plain,
   [Plain EXCEPT !.price = 16, !.imageHash = "other", !.lifetime = 30],
   [Plain EXCEPT !.price = 20, !.isAuction = TRUE, !.bids = 3, !.shippingCost = Null,
                 !.epid = Null],
   [Plain EXCEPT !.price = 24, !.imageHash = Null, !.epid = Null, !.modelKey = Null,
                 !.capacity = 16, !.acceptsBestOffer = TRUE],
   [Plain EXCEPT !.price = 40, !.lotSize = 5]}

-----------------------------------------------------------------------------

Title(says, strong, sizes, lists, kits, gpu, count) ==
  [says |-> says, strong |-> strong, count |-> count, accessories |-> 0,
   sizes |-> sizes, lists |-> lists, kits |-> kits,
   names |-> [gpu |-> gpu, cpu |-> "i9-12900k", console |-> "switch", phone |-> Null],
   generation |-> Null, forms |-> <<Null, "laptop">>]

\* No rule reads more than two phrases and a guard.
FewPhrases ==
  {S \in {{}} \cup {{p, q, r} : p \in Phrases, q \in Phrases, r \in Phrases} :
     /\ "noCrack" \in S => "crack" \in S
     /\ Cardinality(S) = 3 => S \cap {"machineWord", "bundle", "noCrack", "joined"} # {}}

SomeCategories ==
  {{}, {"component"}, {"machine", "machineWord"}, {"component", "machine"},
   {"phone"}, {"console"}, {"accessory", "platform", "component"}, {"lots"}}

Item(t, c, condition) ==
  [title |-> t, category |-> c, condition |-> condition, aspects |-> <<Null, 64>>]

\* Every few phrases on every category, and every way of writing a kit.
SomeItems ==
  {Item(Title(says, strong, {}, {}, {}, gpu, 0), c, "used") :
     says \in FewPhrases, strong \in {{}, {"offered"}}, gpu \in {"rtx-4080", Null},
     c \in SomeCategories}
  \cup
  {Item(Title({"component"}, {}, sizes, {}, {[modules |-> m, size |-> 16]}, Null, count),
        c, condition) :
     m \in {1, 2, 4, 9}, sizes \in SUBSET {16, 32, 64}, c \in SomeCategories,
     condition \in {"used", "forParts"}, count \in {0, 1, 3}}
  \cup
  {Item(Title({}, {}, sizes, {[numbers |-> ns, unit |-> 1]}, {}, Null, 0), c, "used") :
     sizes \in {{}, {128}}, ns \in {{8, 16}, {8, 16, 32}, {5, 16}}, c \in SomeCategories}

=============================================================================
