----------------------------- MODULE CostStream -----------------------------
(***************************************************************************)
(* The moving weighted-average cost engine of packages/domain: what a      *)
(* stream of inventory movements of one (legal entity, warehouse, item,    *)
(* currency) is worth, and what the next issue from it costs.              *)
(*                                                                         *)
(* Quantities and amounts are integers counted in the smallest fraction    *)
(* the code keeps (12 sub-minor digits for a cost), so roundCostValue is   *)
(* rounding to an integer, ties to even.  A business position is the pair  *)
(* (business_date, business_order); recorded_at does not exist here, as it *)
(* does not in the code's ordering.                                        *)
(***************************************************************************)
EXTENDS Integers, FiniteSets, Functions

CONSTANT NoCost          \* the null of CostValue | null

ASSUME NoCostAssumption == NoCost \notin Int

-----------------------------------------------------------------------------
(* Certainty *)

Certainty == {"FINAL", "ESTIMATED_FROM_LAST_KNOWN", "ORDER_UNRESOLVED", "UNKNOWN"}

CERTAINTY_RANK ==
  [FINAL |-> 0, ESTIMATED_FROM_LAST_KNOWN |-> 1, ORDER_UNRESOLVED |-> 2, UNKNOWN |-> 3]

mergeCertainty(a, b) == IF CERTAINTY_RANK[a] >= CERTAINTY_RANK[b] THEN a ELSE b

-----------------------------------------------------------------------------
(* Stream state *)

StreamState == [quantity : Int, carryingValue : Int, carryingCertainty : Certainty]

emptyCostStream == [quantity |-> 0, carryingValue |-> 0, carryingCertainty |-> "FINAL"]

\* d.toDecimalPlaces(COST_FRACTION_DIGITS, ROUND_HALF_EVEN) of n / d, for d > 0.
roundCostValue(n, d) ==
  LET floor == n \div d
      twice == 2 * (n % d)
  IN  IF twice > d \/ (twice = d /\ floor % 2 = 1) THEN floor + 1 ELSE floor

deriveUnitCost(st) ==
  IF st.quantity <= 0 THEN NoCost ELSE roundCostValue(st.carryingValue, st.quantity)

applyPositiveInbound(st, m) ==
  [quantity          |-> st.quantity + m.quantity,
   carryingValue     |-> st.carryingValue + m.cost,
   carryingCertainty |-> mergeCertainty(st.carryingCertainty, m.certainty)]

\* The outbound that forgets ADR-0003's "zero quantity has zero carrying value".
OutboundKeepingResidual(st, m) ==
  [quantity          |-> st.quantity - m.quantity,
   carryingValue     |-> st.carryingValue - m.cost,
   carryingCertainty |-> mergeCertainty(st.carryingCertainty, m.certainty)]

applyCompensatingOutbound(st, m) ==
  LET newQty == st.quantity - m.quantity IN
  [quantity          |-> newQty,
   carryingValue     |-> IF newQty = 0 THEN 0 ELSE st.carryingValue - m.cost,
   carryingCertainty |-> IF newQty = 0 THEN "FINAL"
                         ELSE mergeCertainty(st.carryingCertainty, m.certainty)]

-----------------------------------------------------------------------------
(* Business chronology *)

PositionBefore(p, q) == p.date < q.date \/ (p.date = q.date /\ p.order < q.order)

effectClass(m) == IF m.reversal THEN 1 ELSE 0

\* The ordering that ignores the effect class of compensations.
ReplayedBeforeByPosition(a, b) == PositionBefore(a.pos, b.pos)

ReplayedBefore(a, b) ==
  \/ PositionBefore(a.pos, b.pos)
  \/ a.pos = b.pos /\ effectClass(a) < effectClass(b)

\* Two rows share date, order and effect class; sorting makes them adjacent.
orderUnresolved(S) ==
  \E a, b \in S : a # b /\ a.pos = b.pos /\ effectClass(a) = effectClass(b)

\* One iteration of the replay loop; lastKnown is what replayStreamBefore keeps
\* beside the state and rebuildInventoryBalance does without.
ReplayMovement(r, m) ==
  LET st   == IF m.direction = "IN" THEN applyPositiveInbound(r.state, m)
                                    ELSE applyCompensatingOutbound(r.state, m)
      unit == deriveUnitCost(st)
  IN  [state     |-> st,
       lastKnown |-> IF /\ unit # NoCost
                        /\ st.carryingCertainty \notin {"UNKNOWN", "ORDER_UNRESOLVED"}
                     THEN unit ELSE r.lastKnown]

\* Every result of replaying S in an order its chronology allows: rows that tie
\* come back from PostgreSQL in any order.
ReplayOrders(S) ==
  LET replay[T \in SUBSET S] ==
        IF T = {} THEN {[state |-> emptyCostStream, lastKnown |-> NoCost]}
        ELSE UNION { {ReplayMovement(r, m) : r \in replay[T \ {m}]} :
                     m \in {x \in T : \A o \in T : ~ReplayedBefore(x, o)} }
  IN  replay[S]

\* The flag of an unresolved order is merged in once, after the loop.
Replays(S) ==
  { [r EXCEPT !.state.carryingCertainty =
        IF orderUnresolved(S) THEN mergeCertainty(@, "ORDER_UNRESOLVED") ELSE @] :
    r \in ReplayOrders(S) }

\* What rebuildInventoryBalance may write for a stream whose movements are S.
RebuiltStates(S) == {r.state : r \in Replays(S)}

-----------------------------------------------------------------------------
(* Issue cost *)

\* A quote from all that is recorded by now, whatever its position.
AsRecorded(S, p) == S

StrictlyBefore(S, p) == {m \in S : PositionBefore(m.pos, p)}

replayStreamBefore(S, p) == Replays(StrictlyBefore(S, p))

issueCostQuoteFromStream(r) ==
  LET unit == deriveUnitCost(r.state)
      zeroIfNull(c) == IF c = NoCost THEN 0 ELSE c
  IN  IF r.state.carryingCertainty = "ORDER_UNRESOLVED"
        THEN [unitCost |-> zeroIfNull(unit), certainty |-> "ORDER_UNRESOLVED"]
      ELSE IF unit # NoCost
        THEN [unitCost |-> unit, certainty |-> r.state.carryingCertainty]
      ELSE IF r.lastKnown # NoCost
        THEN [unitCost |-> r.lastKnown, certainty |-> "ESTIMATED_FROM_LAST_KNOWN"]
      ELSE [unitCost |-> 0, certainty |-> "UNKNOWN"]

\* The quotes an issue at position p may be given.
IssueQuotes(S, p) == {issueCostQuoteFromStream(r) : r \in replayStreamBefore(S, p)}


-----------------------------------------------------------------------------
(* What a stream comes to, without a replay: the reference the engine is     *)
(* compared with.                                                            *)

\* What the engine reads of an inventory_movement row.
WellFormed(m) ==
  /\ m.direction \in {"IN", "OUT"} /\ m.quantity \in Nat /\ m.cost \in Int
  /\ m.certainty \in Certainty
  /\ m.pos \in [date : Int, order : Int] /\ m.reversal \in BOOLEAN

Signed(m, x) == IF m.direction = "IN" THEN x ELSE -x

NetQuantity(S) == SumFunction([m \in S |-> Signed(m, m.quantity)])

NetCost(S) == SumFunction([m \in S |-> Signed(m, m.cost)])

UpToMovement(S, m) == {o \in S : ~ReplayedBefore(m, o)}

Emptying(S) == {m \in S : m.direction = "OUT" /\ NetQuantity(UpToMovement(S, m)) = 0}

SinceLastEmptied(S) == {m \in S : \A e \in Emptying(S) : ReplayedBefore(e, m)}

WorstCertainty(S) ==
  CHOOSE c \in Certainty :
    /\ c \in {m.certainty : m \in S} \cup {"FINAL"}
    /\ \A m \in S : CERTAINTY_RANK[m.certainty] <= CERTAINTY_RANK[c]

NeverNegative(S) == \A m \in S : NetQuantity(UpToMovement(S, m)) >= 0

\* On hand is the signed sum of every movement, whatever its sign.  Rows that the
\* sort leaves in any order make the stream uncertain.  Without them the chronology
\* is a total order, and while it never takes the stock below zero, value and
\* certainty are those of what moved since an outbound last emptied the stream.
\* What a stream is worth that has been below zero is left open: ADR-0003 wants a
\* deficit settled apart, which the engine does not do.
Carries(st, S) ==
  /\ st.quantity = NetQuantity(S)
  /\ orderUnresolved(S) => st.carryingCertainty \in {"ORDER_UNRESOLVED", "UNKNOWN"}
  /\ ~orderUnresolved(S) /\ NeverNegative(S) =>
       /\ st.carryingValue = NetCost(SinceLastEmptied(S))
       /\ st.carryingCertainty = WorstCertainty(SinceLastEmptied(S))

=============================================================================
