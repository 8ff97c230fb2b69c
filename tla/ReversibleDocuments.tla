------------------------- MODULE ReversibleDocuments -------------------------
(***************************************************************************)
(* What a posting service promises of its documents, whatever transactions *)
(* it needs: a document is posted once, in one step, with some net effect  *)
(* on every item's quantity and cost; it may then be reversed once, in one *)
(* step, after which its net effect is nothing; and nothing else it does   *)
(* touches the effect of any document.                                     *)
(***************************************************************************)
EXTENDS Integers

CONSTANTS Document, Item,
          MayCancelOut   \* a document may give an item back as much as it takes

VARIABLES status,        \* OPEN, POSTED or REVERSED
          effect         \* net [quantity, cost] per document and item

documentVars == <<status, effect>>

NoEffect == [i \in Item |-> [quantity |-> 0, cost |-> 0]]

Init ==
  /\ status = [d \in Document |-> "OPEN"]
  /\ effect = [d \in Document |-> NoEffect]

Post(d) ==
  /\ status[d] = "OPEN"
  /\ status' = [status EXCEPT ![d] = "POSTED"]
  /\ DOMAIN effect' = Document
  /\ MayCancelOut \/ effect'[d] # NoEffect
  /\ \A e \in Document \ {d} : effect'[e] = effect[e]

Reverse(d) ==
  /\ status[d] = "POSTED"
  /\ status' = [status EXCEPT ![d] = "REVERSED"]
  /\ effect' = [effect EXCEPT ![d] = NoEffect]

Next == \E d \in Document : Post(d) \/ Reverse(d)

Spec == Init /\ [][Next]_documentVars

=============================================================================
