---------------------------- MODULE OrderDiscount ----------------------------
(***************************************************************************)
(* The money of commercial terms: how an order's discount is dealt out to  *)
(* its lines (order-commercial.ts) and what each line then brings          *)
(* (buildCommercialStateFromCommand in commercial-terms.ts).  Amounts are  *)
(* integers of the currency's minor unit, and all of them are known.       *)
(***************************************************************************)
EXTENDS Integers, FiniteSets, FiniteSetsExt, Functions

CONSTANTS TermLine,      \* line numbers
          Amount,        \* amounts a command names
          Basis          \* what lines leave for the order's discount

ASSUME DiscountAssumption ==
  TermLine \subseteq Nat /\ Amount \subseteq Nat /\ Basis \subseteq Nat

\* What a command says of each line.
LineTerms == [gross : Amount, discount : Amount, eligible : BOOLEAN, funding : Amount]

Total(f) == SumFunction(f)

Refused == [l \in {} |-> 0]

-----------------------------------------------------------------------------
(* allocateOrderMerchantDiscount *)

\* Rounded up, so that the first lines get it all.
RoundedUp(discount, basis) ==
  LET share(l) == (discount * basis[l] + Total(basis) - 1) \div Total(basis)
      before(l) == Total([k \in {x \in DOMAIN basis : x < l} |-> share(k)])
  IN  IF discount = 0 THEN [l \in DOMAIN basis |-> 0]
      ELSE IF discount > Total(basis) THEN Refused
      ELSE [l \in DOMAIN basis |->
              IF before(l) >= discount THEN 0
              ELSE IF share(l) > discount - before(l) THEN discount - before(l) ELSE share(l)]

\* The residual goes to lines by remainder, largest first, then by line number; a
\* line that is full gets nothing of it.
allocateOrderMerchantDiscount(discount, basis) ==
  LET total == Total(basis)
      share == [l \in DOMAIN basis |-> (discount * basis[l]) \div total]
      remainder(l) == (discount * basis[l]) % total
      residual == discount - Total(share)
      open == {l \in DOMAIN basis : basis[l] > share[l]}
      before(k, l) == \/ remainder(k) > remainder(l)
                      \/ remainder(k) = remainder(l) /\ k < l
      bonus == {l \in open : Cardinality({k \in open : before(k, l)}) < residual}
  IN  IF discount = 0 THEN [l \in DOMAIN basis |-> 0]
      ELSE IF discount > total \/ Cardinality(open) < residual THEN Refused
      ELSE [l \in DOMAIN basis |-> IF l \in bonus THEN share[l] + 1 ELSE share[l]]

-----------------------------------------------------------------------------
(* buildCommercialStateFromCommand *)

basisMinor(t) == IF t.eligible THEN t.gross - t.discount ELSE 0

\* The discount each line bears.
Allocations(discount, terms) ==
  IF \E l \in DOMAIN terms : terms[l].discount > terms[l].gross THEN Refused
  ELSE allocateOrderMerchantDiscount(discount, [l \in DOMAIN terms |-> basisMinor(terms[l])])

computeLineNetMerchandiseSalesMinor(t, allocated) ==
  (t.gross - t.discount) - allocated + t.funding

-----------------------------------------------------------------------------
(* Properties *)

\* How far an allocation is from proportional, in squares of total-ths.
Distance(discount, basis, a) ==
  LET off(l) == a[l] * Total(basis) - discount * basis[l] IN
  Total([l \in DOMAIN basis |-> off(l) * off(l)])

Earlier(a, b) ==
  \E l \in DOMAIN a : a[l] > b[l] /\ \A k \in DOMAIN a : k < l => a[k] = b[k]

\* Reference definition: of all ways to deal out the discount within the bases, those
\* nearest to proportional, and of these the one that burdens earlier lines first.
Fair(discount, basis, a) ==
  LET ways == {b \in [DOMAIN basis -> 0..Max(Range(basis))] :
                 Total(b) = discount /\ \A l \in DOMAIN basis : b[l] <= basis[l]}
      d(b) == Distance(discount, basis, b)
  IN  a \in ways /\ \A b \in ways \ {a} : d(a) < d(b) \/ (d(a) = d(b) /\ Earlier(a, b))

\* The order's net is its gross without the discounts and with what others fund, and
\* no line is worth less than is funded of it.
NetAddsUp(discount, terms, nets) ==
  /\ Total(nets) = Total([l \in DOMAIN terms |-> terms[l].gross])
                     - Total([l \in DOMAIN terms |-> terms[l].discount]) - discount
                     + Total([l \in DOMAIN terms |-> terms[l].funding])
  /\ \A l \in DOMAIN terms : nets[l] >= terms[l].funding

(***************************************************************************)
(* "Deterministic largest-remainder allocation" (order-commercial.ts): an  *)
(* order discount that the eligible bases can bear is never refused for    *)
(* its rounding, adds up to the last minor unit, overburdens no line, is   *)
(* the fairest of all integer allocations, and leaves nets that add up to  *)
(* the order's.                                                            *)
(***************************************************************************)
DiscountIsDealtFairly ==
  /\ \A basis \in [TermLine -> Basis] :
       \A discount \in 0..(Total(basis) + 1) :
         LET a == allocateOrderMerchantDiscount(discount, basis) IN
         IF discount > Total(basis) THEN a = Refused ELSE Fair(discount, basis, a)
  /\ \A lines \in kSubset(2, TermLine) : \A terms \in [lines -> LineTerms] :
       \A discount \in Amount :
         LET a == Allocations(discount, terms) IN
         a # Refused =>
           NetAddsUp(discount, terms,
                     [l \in lines |-> computeLineNetMerchandiseSalesMinor(terms[l], a[l])])

=============================================================================
