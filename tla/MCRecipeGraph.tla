---------------------------- MODULE MCRecipeGraph ----------------------------
(* Bounded instance of RecipeGraph and SaleConsumption.                      *)
EXTENDS SaleConsumption, TLC

CONSTANT DraftUnit       \* the unit of every new draft

Symmetry == Permutations(Session) \cup Permutations(Preparation)

\* Bound: another unit is what an update gives a preparation, without new parts.
UnitsDriftLater ==
  \A s \in Session : LET c == call[s] IN
    c.command # NoCommand /\ c.command.unit # DraftUnit
      => c.op = "update" /\ c.id[1] \in Preparation /\ c.command.nested = {}

=============================================================================
