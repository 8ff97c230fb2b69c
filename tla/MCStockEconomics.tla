-------------------------- MODULE MCStockEconomics --------------------------
(* Bounded instance of the domain package's arithmetic: StockEconomics, and  *)
(* OrderDiscount, whose functions TLC evaluates before the first state.      *)
EXTENDS StockEconomics, OrderDiscount

\* Two orders on one date and an earlier order number on a later date.
MCPosition == {[date |-> 1, order |-> 2], [date |-> 1, order |-> 3], [date |-> 2, order |-> 1]}

ASSUME DiscountArithmetic == DiscountIsDealtFairly

=============================================================================
