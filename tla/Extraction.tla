------------------------------ MODULE Extraction ------------------------------
(***************************************************************************)
(* What a listing offers, as far as its title, category, condition and     *)
(* aspects admit (ml/extract.py).                                          *)
(*                                                                         *)
(* A title is what the regular expressions find in it: t.says holds the    *)
(* phrases that match, the other fields hold what is read out of them.  A  *)
(* category is the set of classes its name falls into, the empty set when  *)
(* there is none.  What is kept is how the findings are combined.          *)
(***************************************************************************)
EXTENDS Columns, FiniteSets, Sequences

-----------------------------------------------------------------------------
(* The vocabulary: one phrase per regular expression.                      *)

CompletenessPhrases == {"bare", "bundle", "includes"}
DefectPhrases == {"defect", "crack", "noCrack", "doa"}
AbsencePhrases == {"missing", "missingAfter"}
AccessoryPhrases == {"only", "packaging", "absent", "for", "noun"}
SubjectPhrases == {"notProduct", "subject", "following", "joined", "machineWord"}
VariantPhrases == {"variants", "colours"}
SpecPhrases == {"component", "cpuContext"}

Phrases ==
  UNION {CompletenessPhrases, DefectPhrases, AbsencePhrases, AccessoryPhrases,
         SubjectPhrases, VariantPhrases, SpecPhrases, {"lot"}}

\* A strong accessory noun is what is offered, or it comes with the product.
StrongNouns == {"offered", "included"}

ComponentTokens == {"component"}
LotTokens == {"lots"}
AccessoryTokens == {"accessory"}
MultiComponentTokens == {"machine"}
SingleCapacityTokens == {"phone", "console"}
ColourListTokens == {"phone", "mobile"}
PlatformTokens == {"platform"}

MinLotSize == 2
MaxKitModules == 8
MaxCapacity == 100000
\* Mutant: two capacities are a list of variants everywhere.
TwoVariantCapacities == 2

MinVariantCapacities == 3
MinImpliedAccessories == 2

-----------------------------------------------------------------------------

Says(t, p) == p \in t.says
Files(c, tokens) == c \cap tokens # {}

LargestOf(S) == IF S = {} THEN Null ELSE Max(S)

-----------------------------------------------------------------------------
(* Lots and completeness.                                                  *)

\* Mutant: a count of one is a lot.
LotOfOneInTitle(t) ==
  FirstStated(<<When(t.count >= 1, t.count), When(Says(t, "lot"), MinLotSize)>>)

\* A count of one is no lot, and then the bare word is not looked for.
LotSizeInTitle(t) ==
  FirstStated(<<When(t.count >= MinLotSize, t.count),
                When(t.count = 0 /\ Says(t, "lot"), MinLotSize)>>)

LotSize(t, c) ==
  FirstStated(<<LotSizeInTitle(t), When(Files(c, LotTokens), MinLotSize)>>)

Completeness(t) ==
  FirstStated(
    <<When(Says(t, "bare") \/ Says(t, "missing"), "bare"),
      When(Says(t, "bundle"), "bundle"),
      When(Says(t, "includes") \/ t.accessories >= MinImpliedAccessories, "complete")>>)

-----------------------------------------------------------------------------
(* Capacities.                                                             *)

PowerOfTwo(n) == \E e \in 2..17 : n = 2^e

Plausible(n) == n \in 1..MaxCapacity

\* "8/16/32GB": all of the list or none of it.
SharedUnitCapacities(t) ==
  UNION {{n * l.unit : n \in l.numbers} :
           l \in {l \in t.lists : \A n \in l.numbers :
                    PowerOfTwo(n) /\ Plausible(n * l.unit)}}

PlainCapacities(t) == {n \in t.sizes : Plausible(n)}

DistinctCapacities(t) == SharedUnitCapacities(t) \cup PlainCapacities(t)

\* "2x16GB": the totals, and only of things sold as modules.
KitTotals(t, c) ==
  IF Files(c, MultiComponentTokens) \/ ~Says(t, "component")
  THEN {}
  ELSE {k.modules * k.size : k \in {k \in t.kits :
          /\ k.modules \in MinLotSize..MaxKitModules
          /\ Plausible(k.modules * k.size)}}

CapacityGb(t, c) == LargestOf(KitTotals(t, c) \cup PlainCapacities(t))

\* The title first; then eBay's aspects, in the order of their names.
Capacity(t, aspects, c) == FirstStated(<<CapacityGb(t, c)>> \o aspects)

-----------------------------------------------------------------------------
(* Product identity: the graphics card before the processor, and a console *)
(* only where its name is not the platform of something else.              *)

CpuKey(t) == When(Says(t, "cpuContext"), t.names.cpu)

ConsoleKey(t, c) == When(~Files(c, PlatformTokens), t.names.console)

ModelKey(t, c) ==
  FirstStated(<<t.names.gpu, CpuKey(t), ConsoleKey(t, c), t.names.phone>>)

\* Most specific first; only things that have one.
FormFactor(t) == When(Says(t, "component"), FirstStated(t.forms))

-----------------------------------------------------------------------------
(* What makes a listing something other than one working product.          *)

IsComponentCategory(c) == Files(c, ComponentTokens)

\* Mutant: a machine filed among components lacks what it is sold without.
DefectByCategoryAlone(t, c, condition) ==
  \/ condition = "forParts"
  \/ \E p \in {"defect", "doa"} : Says(t, p)
  \/ IsComponentCategory(c) /\ \E p \in {"missing", "missingAfter"} : Says(t, p)
  \/ Says(t, "crack") /\ ~Says(t, "noCrack")

HasDefect(t, c, condition) ==
  \/ condition = "forParts"
  \/ Says(t, "defect")
  \/ IsComponentCategory(c) /\ Says(t, "missingAfter")
  \/ IsComponentCategory(c) /\ Says(t, "missing") /\ ~Says(t, "machineWord")
  \/ Says(t, "crack") /\ ~Says(t, "noCrack")
  \/ Says(t, "doa")

IsAccessory(t, c) ==
  \/ Files(c, AccessoryTokens)
  \/ Says(t, "notProduct") /\ ~Says(t, "machineWord") /\ "machineWord" \notin c
  \/ Says(t, "only")
  \/ Says(t, "packaging") /\ Says(t, "absent")
  \/ /\ ModelKey(t, c) # Null \/ Says(t, "for")
     /\ "offered" \in t.strong
  \/ Says(t, "for") /\ (Says(t, "noun") \/ Says(t, "subject"))
  \/ Says(t, "following") /\ ~Says(t, "bundle") /\ ~Says(t, "joined")

IsMultiVariant(t, c) ==
  LET n == Cardinality(DistinctCapacities(t)) IN
  \/ Says(t, "variants")
  \/ /\ ~Files(c, MultiComponentTokens)
     /\ \/ Files(c, ColourListTokens) /\ Says(t, "colours")
        \/ n >= MinVariantCapacities
        \/ n = 2 /\ Files(c, SingleCapacityTokens)

-----------------------------------------------------------------------------

ExtractVariant(t, aspects, c, condition) ==
  [lotSize |-> LotSize(t, c),
   completeness |-> Completeness(t),
   hasDefect |-> HasDefect(t, c, condition),
   isAccessory |-> IsAccessory(t, c),
   priceIsFrom |-> IsMultiVariant(t, c),
   capacity |-> Capacity(t, aspects, c),
   generation |-> t.generation,
   formFactor |-> FormFactor(t),
   modelKey |-> ModelKey(t, c)]

UsableAsComp(v) ==
  /\ v.lotSize = Null
  /\ ~v.hasDefect
  /\ ~v.isAccessory
  /\ ~v.priceIsFrom

=============================================================================
