--------------------------- MODULE StockEconomics ---------------------------
(***************************************************************************)
(* The life of ONE valuation stream: which movements the posting services  *)
(* may record in it, in any recording order, and what the cost engine of   *)
(* CostStream makes of them.  A step is one committed document; the        *)
(* transactions that commit it are the subject of ValuationStreams.        *)
(***************************************************************************)
EXTENDS CostStream

CONSTANTS Position,      \* business positions, records [date, order]
          Quantity,      \* movement quantities
          UnitPrice,     \* acquisition prices per unit
          MaxMovements   \* bound on the movements recorded

ASSUME EconomicsAssumption ==
  /\ Position \subseteq [date : Nat, order : Nat]
  /\ Quantity \subseteq Nat \ {0}
  /\ UnitPrice \subseteq Nat
  /\ MaxMovements \in Nat

VARIABLES movements,     \* inventory_movement rows of the stream
          compensated    \* pairs <<a reversed movement, its compensation>>

vars == <<movements, compensated>>

-----------------------------------------------------------------------------
(* A movement row; copy tells identical rows (their UUIDs) apart. *)

Movement ==
  [direction : {"IN", "OUT"}, quantity : Nat, cost : Int, certainty : Certainty,
   pos : Position, reversal : BOOLEAN, copy : Nat]

Row(dir, q, c, cert, p, rev) ==
  [direction |-> dir, quantity |-> q, cost |-> c, certainty |-> cert,
   pos |-> p, reversal |-> rev, copy |-> 0]

Twins(row) == {m \in movements : [m EXCEPT !.copy = 0] = row}

Inserted(row) == [row EXCEPT !.copy = Cardinality(Twins(row))]

Record(row) ==
  /\ Cardinality(movements) < MaxMovements
  /\ movements' = movements \cup {Inserted(row)}

TypeOK ==
  /\ movements \subseteq Movement
  /\ compensated \subseteq {m \in movements : ~m.reversal} \X {m \in movements : m.reversal}
  /\ \A m \in movements :
       /\ m.reversal => Cardinality({c \in compensated : c[2] = m}) = 1
       /\ Cardinality({c \in compensated : c[1] = m}) <= 1

Init == movements = {} /\ compensated = {}

\* A goods receipt line: acquired at the supplier's price.
ReceiveGoods(p, q, price) ==
  /\ Record(Row("IN", q, q * price, "FINAL", p, FALSE))
  /\ UNCHANGED compensated

\* The output of a production batch: the merged certainty of its inputs, and no
\* cost when none of them had one.
ReceiveProduction(p, q, price, cert) ==
  /\ Record(Row("IN", q, IF cert = "UNKNOWN" THEN 0 ELSE q * price, cert, p, FALSE))
  /\ UNCHANGED compensated

\* A sale or a production input: the whole quantity at the quoted unit cost.
Issue(p, q) ==
  /\ \E quote \in IssueQuotes(movements, p) :
        Record(Row("OUT", q, quote.unitCost * q, quote.certainty, p, FALSE))
  /\ UNCHANGED compensated

Compensation(m, p) ==
  Row(IF m.direction = "IN" THEN "OUT" ELSE "IN", m.quantity, m.cost, m.certainty, p, TRUE)

Compensate(m, p) ==
  /\ ~m.reversal /\ \A c \in compensated : c[1] # m
  /\ Record(Compensation(m, p))
  /\ compensated' = compensated \cup {<<m, Inserted(Compensation(m, p))>>}

\* Goods receipts and production batches are reversed at their own position.
ReverseInPlace(m) == Compensate(m, m.pos)

\* A sale is reversed at the position the reversal command names.
ReverseSale(m, p) == m.direction = "OUT" /\ Compensate(m, p)

Next ==
  \/ \E p \in Position, q \in Quantity :
        \/ \E price \in UnitPrice : ReceiveGoods(p, q, price)
        \/ \E price \in UnitPrice, cert \in {"ESTIMATED_FROM_LAST_KNOWN", "UNKNOWN"} :
              ReceiveProduction(p, q, price, cert)
        \/ Issue(p, q)
  \/ \E m \in movements : ReverseInPlace(m) \/ \E p \in Position : ReverseSale(m, p)

Spec == Init /\ [][Next]_vars

-----------------------------------------------------------------------------
(* Properties *)

(***************************************************************************)
(* What rebuildInventoryBalance leaves of a stream is what its movements   *)
(* come to: on hand, their signed sum in any order; where the sort decides *)
(* every order and stock was never negative, the value and the certainty   *)
(* of what moved since an outbound last emptied the stream, so that no     *)
(* residual survives an emptied stream (ADR-0003 invariant 7) and no later *)
(* stock upgrades an uncertain cost; where it does not, an uncertain one.  *)
(***************************************************************************)
CarryingIsWhatMovedSinceEmptied == \A st \in RebuiltStates(movements) : Carries(st, movements)

(***************************************************************************)
(* ADR-0003 invariant 16: unless the stream is flagged ORDER_UNRESOLVED,   *)
(* its movements have one replay, whatever order they were recorded in and *)
(* PostgreSQL returns them in.  (moving-average.ts,                        *)
(* orderMovementsForEconomicReplay.)                                       *)
(***************************************************************************)
ReplayIsDeterministic ==
  ~orderUnresolved(movements) => Cardinality(Replays(movements)) = 1

Within(a, b, d) == a - b <= d /\ b - a <= d

\* What the replay of everything before an issue, and then of the issue, makes of it.
TakesItsShare(m) ==
  LET earlier == {o \in movements : PositionBefore(o.pos, m.pos)} IN
  /\ m.direction = "OUT" /\ ~m.reversal /\ ~orderUnresolved(earlier)
  => \A before \in RebuiltStates(earlier), after \in RebuiltStates(earlier \cup {m}) :
       /\ m.quantity = before.quantity => after.carryingValue = 0
       /\ m.quantity < before.quantity =>
            Within(2 * after.carryingValue * before.quantity,
                   2 * before.carryingValue * after.quantity,
                   m.quantity * before.quantity)

(***************************************************************************)
(* ADR-0003 section 5, issueCost = outboundQuantity * currentAverage: an   *)
(* issue takes its share of what the engine makes the stream worth before  *)
(* its business position, whenever it is recorded and whatever was recorded *)
(* for later positions by then.  What it leaves there keeps the average,   *)
(* but for the rounding of the unit cost, half a smallest unit per unit    *)
(* issued, and is worth nothing when the issue took everything.  (The      *)
(* quote of postGoodsIssue and production, and the replay applying it.)    *)
(***************************************************************************)
IssuesTakeTheirShare == [][\A m \in movements' \ movements : TakesItsShare(m)]_vars

=============================================================================
