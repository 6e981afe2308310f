----------------------------- MODULE SaleScoring -----------------------------
(***************************************************************************)
(* How far a disappeared listing is trusted as a sale, and its price as    *)
(* what was paid (connectors/sale_confidence.py).                          *)
(*                                                                         *)
(* Confidences are integers over One, and One makes every product of the   *)
(* multipliers exact.  Times are days, the published end hours from it.    *)
(***************************************************************************)
EXTENDS Columns

One == 40000
Gate == (3 * One) \div 10

RelistGraceDays == 21
QuickSaleDays == 7
ScheduledEndToleranceHours == 12
TypicalTermDays == 30
TermToleranceDays == 2

\* score times num/den when the signal fired.
Scaled(score, fired, num, den) == IF fired THEN (score * num) \div den ELSE score

Clamp(score) == IF score > One THEN One ELSE score

-----------------------------------------------------------------------------
(* A row s that disappeared: its bids, endGap (hours between then and the  *)
(* published end) and lifetime (days until then) may be Null, as may    *)
(* its shipping cost.                                                      *)

NoBids(s) == s.isAuction /\ s.bids # Null /\ s.bids = 0
HadBids(s) == s.isAuction /\ s.bids # Null /\ s.bids # 0

\* An auction always ends at its end, so only a fixed price tells.
EndIsPublished(s) == ~s.isAuction /\ s.endGap # Null
EndedAtScheduledEnd(s) == EndIsPublished(s) /\ s.endGap <= ScheduledEndToleranceHours

LooksLikeTermExpiry(days) ==
  LET offset == days % TypicalTermDays IN
  /\ days >= TypicalTermDays - TermToleranceDays
  /\ \/ offset <= TermToleranceDays
     \/ offset >= TypicalTermDays - TermToleranceDays

\* A guess from standard terms, only where eBay published no end.
NearTerm(s) ==
  /\ s.lifetime # Null
  /\ ~EndIsPublished(s)
  /\ LooksLikeTermExpiry(s.lifetime)

QuickDisappearance(s) ==
  /\ s.lifetime # Null
  /\ ~NearTerm(s)
  /\ s.lifetime <= QuickSaleDays

\* Mutant: a relist counts for less.
SaleConfidenceMild(s, relisted) ==
  LET base == Scaled((3 * One) \div 4, relisted, 3, 10)
      afterBids == Scaled(Scaled(base, NoBids(s), 1, 20), HadBids(s), 3, 2)
      afterEnd == Scaled(afterBids, EndedAtScheduledEnd(s), 2, 5)
      afterTerm == Scaled(afterEnd, NearTerm(s), 1, 2)
  IN Clamp(Scaled(afterTerm, QuickDisappearance(s), 6, 5))

SaleConfidence(s, relisted) ==
  LET base == (3 * One) \div 4
      afterRelist == Scaled(base, relisted, 3, 20)
      afterNoBids == Scaled(afterRelist, NoBids(s), 1, 20)
      afterBids == Scaled(afterNoBids, HadBids(s), 3, 2)
      afterEnd == Scaled(afterBids, EndedAtScheduledEnd(s), 2, 5)
      afterTerm == Scaled(afterEnd, NearTerm(s), 1, 2)
  IN Clamp(Scaled(afterTerm, QuickDisappearance(s), 6, 5))

PriceConfidence(s) ==
  LET afterOffer == Scaled(One, s.acceptsBestOffer, 3, 4)
      afterAuction == Scaled(afterOffer, s.isAuction, 3, 5)
      afterNull == Scaled(afterAuction, s.shippingCost = Null, 9, 10)
  IN Clamp(Scaled(afterNull, s.shippingCost # Null /\ s.shippingEstimated, 19, 20))

PassesGate(score) == score = Null \/ score >= Gate

-----------------------------------------------------------------------------
(* Relists: rows of the source as another session sees them, by id.        *)

\* Mutant: what sold with the photo counts as a relist, too.
IsPhotoOf(rows, l, other, now) ==
  /\ other # l
  /\ rows[l].imageHash # Null
  /\ rows[other].imageHash = rows[l].imageHash
  /\ rows[other].firstSeen >= now - RelistGraceDays

\* first_seen_at within the grace days before now.
IsRelistOf(rows, l, other, now) ==
  /\ other # l
  /\ rows[l].imageHash # Null
  /\ rows[other].imageHash = rows[l].imageHash
  /\ rows[other].status # "likely_sold"
  /\ rows[other].firstSeen >= now - RelistGraceDays

Relists(rows, l, now) == {other \in DOMAIN rows : IsRelistOf(rows, l, other, now)}

=============================================================================
