-------------------------- MODULE MCProductionBatch --------------------------
(* Bounded instance of ProductionBatch: two lines of the other order than    *)
(* the streams are locked in, one loss, and one receipt to be quoted from.  *)
EXTENDS ProductionBatch, TLC

MCItem == {1, 2, 3}

MCIngredient == <<2, 1>>

MCPlanned == [inputs |-> <<1, 2>>, output |-> 3, class |-> "NORMAL", reasoned |-> TRUE]

MCActual ==
  { MCPlanned,
    [inputs |-> <<1, 2>>, output |-> 0, class |-> "TOTAL_LOSS", reasoned |-> TRUE] }

Early == [date |-> 1, order |-> 1]
Later == [date |-> 1, order |-> 2]

Symmetry == Permutations(Session) \cup Permutations(Batch) \cup Permutations(Key)

MCPositions == {Later}

MCSupply == {[pos |-> Early, lines |-> {[item |-> 1, quantity |-> 3, cost |-> 9]}]}

MCMovement ==
  [item : MCItem, direction : {"IN", "OUT"}, quantity : 1..9, cost : 0..60,
   certainty : Certainty, pos : {Early, Later}, reversal : BOOLEAN,
   doc : ({"production", "reversal"} \X Batch) \cup ({"receipt"} \X (1..MaxSupplies)),
   id : 0..2]

=============================================================================
