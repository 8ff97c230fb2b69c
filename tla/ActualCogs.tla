----------------------------- MODULE ActualCogs -----------------------------
(***************************************************************************)
(* Actual cost of goods sold (actual-cogs-service.ts): what reports read   *)
(* from the goods issues of SalesOrder and their reversals.  The service   *)
(* keeps no state: every definition is a function of the current one.      *)
(*                                                                         *)
(* The line grain has an effect per line of a goods issue, with its share  *)
(* of the movement's cost; the physical grain one per movement.  A query   *)
(* selects orders, physical items and dates; legal entity, outlet,         *)
(* channel and currency are one each, and the filters by sold item, order  *)
(* line and certainty are left out.                                        *)
(***************************************************************************)
EXTENDS SalesOrder

CONSTANT Query           \* [orders, items, dates], the sets a report asks for

-----------------------------------------------------------------------------
(* goods_issue_line *)

LineOrder(x, y) == x.line < y.line \/ (x.line = y.line /\ x.leaf < y.leaf)

LeavesOf(o, i) == {leaf \in order[o].plan : leaf.item = i}

IssueOf(o, i) == CHOOSE m \in MovementsOf("issue", o) : m.item = i

\* postGoodsIssueFromConsumptionPlan: in proportion, and what is left for the last.
LeafCost(o, leaf) ==
  LET m == IssueOf(o, leaf.item)
      leaves == LeavesOf(o, leaf.item)
      share(x) == (m.cost * x.quantity) \div m.quantity
      earlier == {x \in leaves : LineOrder(x, leaf)}
  IN  IF earlier # leaves \ {leaf} THEN share(leaf) ELSE m.cost - SumFunction([x \in earlier |-> share(x)])

-----------------------------------------------------------------------------
(* Effects *)

Effect(type, o, i, id, pos, cost, certainty) ==
  [type |-> type, order |-> o, item |-> i, id |-> id, pos |-> pos, cost |-> cost,
   certainty |-> certainty]

lineEffects ==
  (UNION { { Effect("SALE", o, l.item, <<l.line, l.leaf>>, goodsIssue[o].pos, LeafCost(o, l),
                    IssueOf(o, l.item).certainty) : l \in order[o].plan } : o \in DOMAIN goodsIssue })
  \cup
  (UNION { { Effect("REVERSAL", o, l.item, <<l.line, l.leaf>>, reversal[o].pos, -LeafCost(o, l),
                    IssueOf(o, l.item).certainty) : l \in order[o].plan } : o \in DOMAIN reversal })

\* Movement costs joined to the lines that share them.
EffectPerLine ==
  UNION { { Effect("SALE", o, l.item, <<l.line, l.leaf>>, goodsIssue[o].pos,
                   IssueOf(o, l.item).cost, IssueOf(o, l.item).certainty) :
            l \in order[o].plan } : o \in DOMAIN goodsIssue }

physicalEffects ==
  (UNION { { Effect("SALE", o, m.item, m.id, m.pos, m.cost, m.certainty) :
             m \in MovementsOf("issue", o) } : o \in DOMAIN goodsIssue })
  \cup
  (UNION { { Effect("REVERSAL", o, m.item, m.id, m.pos, -m.cost, m.certainty) :
             m \in MovementsOf("reversal", o) } : o \in DOMAIN reversal })

Selected(E, q) ==
  {e \in E : e.order \in q.orders /\ e.item \in q.items /\ e.pos.date \in q.dates}

\* Two goods issues at one position of a stream, among the effects given.
IsUnresolved(E, e) ==
  \E d \in E : d.item = e.item /\ d.pos = e.pos /\ d.order # e.order

applyUnresolvedChronology(E) ==
  {IF IsUnresolved(E, e) THEN [e EXCEPT !.certainty = "ORDER_UNRESOLVED"] ELSE e : e \in E}

listLineEffects(q) == applyUnresolvedChronology(Selected(lineEffects, q))

listPhysicalEffects(q) == applyUnresolvedChronology(Selected(physicalEffects, q))

-----------------------------------------------------------------------------
(* Aggregation *)

\* ORDER_UNRESOLVED outranks UNKNOWN in reports.
mergeReportingCertainty(C) ==
  CASE "ORDER_UNRESOLVED" \in C -> "ORDER_UNRESOLVED"
    [] "ORDER_UNRESOLVED" \notin C /\ "UNKNOWN" \in C -> "UNKNOWN"
    [] C \cap {"ORDER_UNRESOLVED", "UNKNOWN"} = {} /\ "ESTIMATED_FROM_LAST_KNOWN" \in C ->
         "ESTIMATED_FROM_LAST_KNOWN"
    [] OTHER -> "FINAL"

\* The total is withheld when a part of it is not known.
aggregateEffects(E) ==
  LET known == {e \in E : e.certainty \in {"FINAL", "ESTIMATED_FROM_LAST_KNOWN"}} IN
  [certainty |-> mergeReportingCertainty({e.certainty : e \in E}),
   knownSubtotal |-> CostOf(known),
   actualCogs |-> IF known = E THEN CostOf(E) ELSE NoCost]

-----------------------------------------------------------------------------
(* Properties *)

NetsToNothing(o) ==
  LET report == aggregateEffects({e \in lineEffects : e.order = o}) IN
  report.knownSubtotal = 0 /\ report.actualCogs \in {0, NoCost}

(***************************************************************************)
(* ADR-0026, "each unique inventory_movement_id counted once": a report at *)
(* the line grain and one at the physical grain agree on the amount, the   *)
(* known part and the certainty, for every selection, although one item is *)
(* consumed by several lines and reversals lie at positions of their own;  *)
(* and a completion with its reversal costs nothing.                       *)
(***************************************************************************)
CogsGrainsAgree ==
  /\ \A q \in Query : aggregateEffects(listLineEffects(q)) = aggregateEffects(listPhysicalEffects(q))
  /\ \A o \in DOMAIN reversal : NetsToNothing(o)

(***************************************************************************)
(* "Unrelated independent documents at the same business position cannot   *)
(* be ordered: report ORDER_UNRESOLVED (do not present as exact)"          *)
(* (actual-cogs-service.ts): of two goods issues at one position of a      *)
(* stream no report counts either into an exact amount.                    *)
(***************************************************************************)
TiesAreNeverExact ==
  \A q \in Query : LET E == listPhysicalEffects(q) IN
    (\E e \in E : IsUnresolved(physicalEffects, e)) => aggregateEffects(E).actualCogs = NoCost

=============================================================================
