--------------------------- MODULE SaleConsumption ---------------------------
(***************************************************************************)
(* What a sale consumes (sale-consumption.ts, over the lookup that         *)
(* orders-service.ts builds): the explosion of a published recipe into     *)
(* physical leaves.  A VIRTUAL preparation is exploded in its turn, a      *)
(* STOCK_TRACKED one is a leaf, its finished item.                         *)
(*                                                                         *)
(* Quantities count the ways to a leaf: every component is one output of   *)
(* what it names, in its unit or in one converted to it.  A version's      *)
(* catalog components are one leaf, named by the version.  f holds the     *)
(* versions; "stock" the versions of preparations that are STOCK_TRACKED.  *)
(***************************************************************************)
EXTENDS RecipeGraph, Functions

CONSTANT Dimension       \* for each dimension (mass, volume, count) the set of its units

ASSUME DimensionAssumption == \A u \in Unit : \E d \in Dimension : u \in d

\* scaleFactor converts within a dimension and fails across two.
Convertible(a, b) == \E d \in Dimension : a \in d /\ b \in d

\* leaves: how often the item of each version is taken.
Failure(f, error) == [errors |-> {error}, leaves |-> [u \in DOMAIN f |-> 0]]

Leaf(f, v) == [errors |-> {}, leaves |-> [u \in DOMAIN f |-> IF u = v THEN 1 ELSE 0]]

\* x holds what each version explodes into below the versions "visiting": those
\* on the way down to it, not all that were met.
explodeComponent(f, x, e, visiting) ==
  IF e[1] \notin DOMAIN f THEN Failure(f, "PREPARATION_NOT_FOUND")
  ELSE IF ~Convertible(e[2], f[e[1]].unit) THEN Failure(f, "INCOMPATIBLE_UNIT")
  ELSE x[<<e[1], visiting>>]

\* The version's own leaf with those of its nested versions.
explodeComponents(f, x, v, visiting) ==
  LET part == [e \in f[v].nested |-> explodeComponent(f, x, e, visiting)]
  IN  [errors |-> UNION {part[e].errors : e \in f[v].nested},
       leaves |-> [u \in DOMAIN f |->
                     Leaf(f, v).leaves[u]
                       + SumFunction([e \in f[v].nested |-> part[e].leaves[u]])]]

explodePreparation(f, stock, x, v, visiting) ==
  IF v \in visiting THEN Failure(f, "COMPOSITION_CYCLE")
  ELSE IF v \notin Published(f) THEN Failure(f, "PREPARATION_NOT_PUBLISHED")
  ELSE IF v \in stock THEN Leaf(f, v)
  ELSE explodeComponents(f, x, v, visiting \cup {v})

Explosions(f, stock) ==
  LET x[p \in (DOMAIN f) \X (SUBSET DOMAIN f)] == explodePreparation(f, stock, x, p[1], p[2])
  IN  x

explodeRecipe(f, stock, v) ==
  IF v \notin Published(f) THEN Failure(f, "RECIPE_NOT_PUBLISHED")
  ELSE explodeComponents(f, Explosions(f, stock), v, {})

\* The profile of a sold item names a recipe: its latest published version is sold.
getPublishedRecipeForCatalogItem(f, r) ==
  {v \in Published(f) : v[1] = r /\ \A w \in Published(f) : w[1] = r => w[2] <= v[2]}

-----------------------------------------------------------------------------
(* Properties *)

\* A version is consumed as often as the versions it is nested in and that are
\* exploded, and what is sold once.
AddsUp(f, stock, root, leaves) ==
  LET reached == {v \in DOMAIN f : leaves[v] > 0}
      parents(v) == {w \in reached \ stock : v \in Nested(f, w)}
  IN  /\ reached = {root} \cup UNION {Nested(f, w) : w \in reached \ stock}
      /\ leaves[root] = 1
      /\ \A v \in reached \ {root} : leaves[v] = SumFunctionOnSet(leaves, parents(v))

\* Everything a version is made of is measured in the unit it has.
MeasuredInItsUnits(f, v) ==
  \A w \in Reachable(f, {v}) : \A e \in f[w].nested : e[2] = f[e[1]].unit

\* Whichever preparations are tracked in stock.
Sells(f, v) ==
  \A stock \in SUBSET {w \in Published(f) : w[1] \in Preparation} :
    LET plan == explodeRecipe(f, stock, v) IN plan.errors = {} /\ AddsUp(f, stock, v, plan.leaves)

(***************************************************************************)
(* A recipe that a sale finds published, and whose parts, all the way      *)
(* down, are measured in the units they have, explodes without an error:   *)
(* whatever was edited and published at the same time, whatever units have *)
(* drifted elsewhere, whichever preparations are tracked in stock, and     *)
(* along every way down, a part shared by two others included.  It takes   *)
(* "exactly one physical write-off path": never a finished item together   *)
(* with its parts.  (That publication does not keep the units themselves   *)
(* is NestedUnitsMatch.)                                                   *)
(***************************************************************************)
PublishedRecipesSell ==
  \A r \in Recipe : \A v \in getPublishedRecipeForCatalogItem(version, r) :
    MeasuredInItsUnits(version, v) => Sells(version, v)

=============================================================================
