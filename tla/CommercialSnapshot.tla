-------------------------- MODULE CommercialSnapshot --------------------------
(***************************************************************************)
(* The money a completed order is frozen with (commercial-terms.ts): what  *)
(* SalesOrder calls the price of terms is here what the command says of    *)
(* the order and of its lines, by their number.  Accepted terms are kept   *)
(* as they were sent; what each line bears of the order's discount is      *)
(* computed again when a completion freezes them.                          *)
(***************************************************************************)
EXTENDS SalesOrder, OrderDiscount

OrderTerms == [discount : Amount, lines : [1..MaxLines -> LineTerms]]

\* What buildCommercialStateFromCommand does not throw for.
CanBear(price, numbers) ==
  Allocations(price.discount, [l \in numbers |-> price.lines[l]]) # Refused

ASSUME AcceptedTermsAssumption ==
  /\ Price \subseteq OrderTerms
  /\ \A price \in Price, numbers \in SUBSET (1..MaxLines) :
       <<price, numbers>> \in Acceptable <=> CanBear(price, numbers)

\* Of accepted terms: line by line its terms, its share of the discount and its net.
loadBuiltCommercialState(accepted) ==
  LET terms == [l \in DOMAIN accepted.lines |-> accepted.price.lines[l]]
      shares == Allocations(accepted.price.discount, terms)
  IN  [l \in DOMAIN shares |->
         [terms |-> terms[l], share |-> shares[l],
          net |-> computeLineNetMerchandiseSalesMinor(terms[l], shares[l])]]

-----------------------------------------------------------------------------
(* Properties *)

(***************************************************************************)
(* What is frozen with a completed order adds up for the lines it sold:    *)
(* its discount is dealt out to exactly them, fairly and to the last minor *)
(* unit, and their nets add up to the order's, although the shares are not *)
(* those computed when the terms were accepted, and lines came and went.   *)
(***************************************************************************)
SnapshotDiscountAddsUp ==
  \A o \in Order : order[o].status = "COMPLETED" =>
    LET discount == order[o].snapshot.price.discount
        frozen == loadBuiltCommercialState(order[o].snapshot)
        terms == [l \in DOMAIN frozen |-> frozen[l].terms]
        shares == [l \in DOMAIN frozen |-> frozen[l].share]
    IN  /\ DOMAIN frozen = DOMAIN order[o].lines
        /\ Fair(discount, [l \in DOMAIN terms |-> basisMinor(terms[l])], shares)
        /\ NetAddsUp(discount, terms, [l \in DOMAIN frozen |-> frozen[l].net])

=============================================================================
