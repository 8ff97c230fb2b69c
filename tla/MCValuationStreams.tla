------------------------- MODULE MCValuationStreams -------------------------
(* Bounded instance of ValuationStreams: five rows over two streams, at      *)
(* business positions that replay in other orders than they can be recorded *)
(* in.                                                                      *)
EXTENDS ValuationStreams

In(i, q, c, o)  == [item |-> i, direction |-> "IN",  quantity |-> q, cost |-> c,
                    certainty |-> "FINAL", pos |-> [date |-> 1, order |-> o],
                    reversal |-> FALSE, copy |-> 0]
Out(i, q, c, o) == [In(i, q, c, o) EXCEPT !.direction = "OUT"]

MCItem == {1, 2}

MCMovement == {In(1, 2, 6, 1), Out(1, 2, 5, 2), In(1, 1, 4, 3), In(2, 1, 3, 1), Out(2, 1, 3, 2)}

=============================================================================
