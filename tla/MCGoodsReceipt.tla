--------------------------- MODULE MCGoodsReceipt ---------------------------
(* Bounded instance of GoodsReceipt: two contents at two positions, one with *)
(* its two lines in the other order than their streams are locked in.       *)
EXTENDS GoodsReceipt

Line(i, q, c) == [item |-> i, quantity |-> q, cost |-> c]

MCItem == {1, 2}

MCContent ==
  { [pos |-> [date |-> 1, order |-> 2], lines |-> <<Line(2, 1, 3), Line(1, 1, 5)>>],
    [pos |-> [date |-> 1, order |-> 1], lines |-> <<Line(1, 2, 5)>>] }

MCLines == {Line(1, 1, 5), Line(1, 2, 5), Line(2, 1, 3)}

Uuid == ReceiptId \X {1, 2}

MCMovement ==
  [item : MCItem, direction : {"IN", "OUT"}, quantity : {l.quantity : l \in MCLines},
   cost : {l.cost : l \in MCLines}, certainty : {"FINAL"},
   pos : {c.pos : c \in MCContent}, reversal : BOOLEAN,
   doc : ReceiptId, line : Uuid, id : Uuid]

=============================================================================
