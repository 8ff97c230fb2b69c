--------------------------- MODULE InventoryLedger --------------------------
(***************************************************************************)
(* What inventory promises its callers: a document's movements and the     *)
(* rebuilt balances of every stream they touch appear in one step.  There  *)
(* are no sessions, locks or open transactions at this level.              *)
(***************************************************************************)
EXTENDS CostStream

CONSTANTS Item,          \* the valuation streams (one item each)
          Movement       \* the inventory_movement rows that may ever exist

ASSUME MovementAssumption == \A m \in Movement : m.item \in Item /\ WellFormed(m)

VARIABLES movements,     \* the inventory_movement table
          balance        \* the inventory_balance table

ledgerVars == <<movements, balance>>

OfStream(S, i) == {m \in S : m.item = i}

StreamsOf(S) == {m.item : m \in S}

NoEffect == [i \in Item |-> [quantity |-> 0, cost |-> 0]]

\* What movements come to in each stream: what they bring in less what they take.
NetEffect(S) ==
  [i \in Item |->
     [quantity |-> NetQuantity(OfStream(S, i)), cost |-> NetCost(OfStream(S, i))]]

LedgerInit ==
  /\ movements = {}
  /\ balance = [i \in Item |-> emptyCostStream]

\* Movements are only ever added; every touched balance becomes the replay of
\* all the movements of its stream, and no other balance moves.
Post(M) ==
  /\ M # {} /\ M \subseteq Movement
  /\ movements' = movements \cup M
  /\ DOMAIN balance' = Item
  /\ \A i \in StreamsOf(M) : balance'[i] \in RebuiltStates(OfStream(movements', i))
  /\ \A i \in Item \ StreamsOf(M) : balance'[i] = balance[i]

LedgerNext == Post(movements' \ movements)

LedgerSpec == LedgerInit /\ [][LedgerNext]_ledgerVars

=============================================================================
