---------------------------- MODULE MCSalesOrder ----------------------------
(* Bounded instance of ActualCogs and CommercialSnapshot: a dish of         *)
(* two items, sold on one or two lines of an order, and one receipt to be   *)
(* quoted from.                                                             *)
EXTENDS ActualCogs, CommercialSnapshot, TLC

Leaf(i, q) == [item |-> i, quantity |-> q]

MCItem == {1, 2}

MCMenu == [d \in Dish |-> <<Leaf(2, 1), Leaf(1, 1)>>]

Early == [date |-> 1, order |-> 1]
Later == [date |-> 2, order |-> 1]

\* A discount of two that the first line alone can bear, the second alone cannot, and
\* both share as one and one.
MCPrice ==
  {[discount |-> 2,
    lines |-> [l \in 1..MaxLines |->
      [gross |-> 2, discount |-> l - 1, eligible |-> TRUE, funding |-> l - 1]]]}

MCAcceptable == {p \in MCPrice \X SUBSET (1..MaxLines) : CanBear(p[1], p[2])}

MCSupply == {[pos |-> Early, lines |-> {[item |-> 1, quantity |-> 3, cost |-> 9],
                                        [item |-> 2, quantity |-> 1, cost |-> 4]}]}

MCPositions == {Early, Later}

\* Every sale after the receipt.
MCLaterOnly == {Later}

\* Everything, and everything of one order, of one item or of one day.
MCQuery ==
  LET ask(orders, items, dates) == [orders |-> orders, items |-> items, dates |-> dates] IN
  {ask(Order, MCItem, {1, 2})}
    \cup {ask({o}, MCItem, {1, 2}) : o \in Order}
    \cup {ask(Order, {i}, {1, 2}) : i \in MCItem}
    \cup {ask(Order, MCItem, {d}) : d \in {1, 2}}

\* Sessions are alike, and so are keys: for the run without liveness.
MCSymmetry == {p @@ q : p \in Permutations(Session), q \in Permutations(Key)}

MCMovement ==
  [item : MCItem, direction : {"IN", "OUT"}, quantity : 1..8, cost : 0..60,
   certainty : Certainty, pos : MCPositions, reversal : BOOLEAN,
   doc : ({"issue", "reversal"} \X Order) \cup ({"receipt"} \X (1..MaxCalls)),
   id : 1..3]

=============================================================================
