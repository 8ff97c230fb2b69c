------------------------------ MODULE SalesOrder ------------------------------
(***************************************************************************)
(* Orders and the sale write-off: sales orders with their lines and        *)
(* commercial terms (orders-service.ts, commercial-terms.ts) and the goods *)
(* issues and reversals their completion posts (goods-issue-service.ts),   *)
(* by sessions interleaved statement by statement over the streams of      *)
(* ValuationStreams.                                                       *)
(*                                                                         *)
(* Open, addLine, updateLine, removeLine, setTerms and cancel are one      *)
(* transaction that locks the order row first and touches nothing else: a  *)
(* step each, taken while the row is free.  completeOrder and              *)
(* reverseCompletedOrder peek at the order and at the key's other users    *)
(* outside their transaction, lock the order, look again, and write.  What *)
(* a transaction has not committed is its session's call record with step  *)
(* "write" (the row is locked) or "writing" (rows are inserted).           *)
(***************************************************************************)
EXTENDS ValuationStreams, Sequences, Functions

CONSTANTS Order,         \* order ids
          Dish,          \* menu items sold
          Menu,          \* dish -> sequence of physical leaves [item, quantity]
          SaleQuantity,  \* quantities of a line
          Price,         \* commercial content of terms
          Acceptable,    \* pairs of a price and the line numbers that can bear it
          Key,           \* idempotency keys clients send
          SalePosition,  \* business positions commands name
          Supply,        \* receipts others post: [pos, lines], lines a set of [item, quantity, cost]
          NoKey, NoOrder, NoPosition, NoTerms,
          MaxLines,      \* bound on the line ids drawn per order
          MaxCalls       \* bound on completions, reversals and receipts called

ASSUME SalesAssumption ==
  /\ MaxLines \in Nat /\ MaxCalls \in Nat
  /\ SaleQuantity \subseteq Nat \ {0}
  /\ Menu \in [Dish -> Seq([item : Item, quantity : Nat \ {0}])]
  /\ \A dish \in Dish : Menu[dish] # <<>>
  /\ \A dish \in Dish : \A i, j \in DOMAIN Menu[dish] :
       i # j => Menu[dish][i].item # Menu[dish][j].item

VARIABLES order,         \* sales_order, sales_order_line, terms and snapshots
          goodsIssue,    \* goods_issue, by source order
          reversal,      \* the two reversal documents, by order
          call,          \* what each session is doing
          feed,          \* operational_fact_feed
          calls          \* how many calls have been made

salesVars == <<order, goodsIssue, reversal, call, feed, calls>>
vars == <<streamVars, salesVars>>

Idle(result) ==
  [op |-> "none", step |-> "done", result |-> result, n |-> 0,
   order |-> NoOrder, key |-> NoKey, pos |-> NoPosition]

NewOrder ==
  [status |-> "NONE", lines |-> [l \in {} |-> NoOrder], drawn |-> 0, terms |-> NoTerms,
   key |-> NoKey, pos |-> NoPosition, plan |-> {}, snapshot |-> NoTerms]

Init ==
  /\ StreamInit
  /\ order = [o \in Order |-> NewOrder]
  /\ goodsIssue = [o \in {} |-> NoOrder]
  /\ reversal = [o \in {} |-> NoOrder]
  /\ call = [s \in Session |-> Idle("none")]
  /\ feed = {}
  /\ calls = 0

With(f, x, v) == [y \in DOMAIN f \cup {x} |-> IF y = x THEN v ELSE f[y]]

-----------------------------------------------------------------------------
(* The open order *)

\* t holds the FOR UPDATE lock of o's row.
KeepsOrder(t, o) == call[t].order = o /\ call[t].step \in {"write", "writing"}

OrderFree(o) == \A s \in Session : ~KeepsOrder(s, o)

OpenOrder(o) ==
  /\ order[o].status = "NONE"
  /\ order' = [order EXCEPT ![o].status = "OPEN"]
  /\ feed' = feed \cup {[type |-> "OrderOpened", order |-> o]}

\* lockOrder without the status check.
Lockable(o) == order[o].status # "NONE" /\ OrderFree(o)

assertOpenMutable(o) == order[o].status = "OPEN" /\ OrderFree(o)

\* New lines, and the accepted terms deleted with the old ones.
SetLinesKeepingTerms(o, lines) == order' = [order EXCEPT ![o].lines = lines]

SetLines(o, lines) ==
  order' = [order EXCEPT ![o] = [@ EXCEPT !.lines = lines, !.terms = NoTerms]]

\* MAX(line_number) + 1, or 1.
IsNextNumber(lines, number) ==
  /\ \A l \in DOMAIN lines : l < number
  /\ number = 1 \/ number - 1 \in DOMAIN lines

\* The fact names the line; what the line sells is a payload no property reads.
AddLine(o, dish, q) ==
  LET id == order[o].drawn + 1 IN
  /\ assertOpenMutable(o)
  /\ id <= MaxLines
  /\ \E number \in 1..MaxLines :
       /\ IsNextNumber(order[o].lines, number)
       /\ order' = [order EXCEPT ![o] =
            [@ EXCEPT !.drawn = id, !.terms = NoTerms,
                      !.lines = With(order[o].lines, number,
                                     [id |-> id, dish |-> dish, quantity |-> q])]]
  /\ feed' = feed \cup {[type |-> "OrderItemAdded", order |-> o, line |-> id]}

UpdateLine(o, number, dish, q) ==
  /\ assertOpenMutable(o)
  /\ number \in DOMAIN order[o].lines
  /\ SetLines(o, [order[o].lines EXCEPT ![number].dish = dish, ![number].quantity = q])
  /\ UNCHANGED feed

RemoveLine(o, number) ==
  /\ assertOpenMutable(o)
  /\ number \in DOMAIN order[o].lines
  /\ SetLines(o, Restrict(order[o].lines, DOMAIN order[o].lines \ {number}))
  /\ UNCHANGED feed

\* Terms cover every line and are ones these lines can bear; the same key again is a duplicate or a conflict, any
\* other key is a reprice.
SetTerms(o, k, price) ==
  /\ assertOpenMutable(o)
  /\ DOMAIN order[o].lines # {}
  /\ <<price, DOMAIN order[o].lines>> \in Acceptable
  /\ order[o].terms # NoTerms => order[o].terms.key # k
  /\ order' = [order EXCEPT ![o].terms =
                 [key |-> k, price |-> price, lines |-> order[o].lines]]
  /\ UNCHANGED feed

\* Answering a second cancel changes nothing.
CancelOrder(o) ==
  /\ assertOpenMutable(o)
  /\ order' = [order EXCEPT ![o].status = "CANCELLED"]
  /\ feed' = feed \cup {[type |-> "OrderCancelled", order |-> o]}

Edit(o) ==
  /\ \/ OpenOrder(o)
     \/ \E dish \in Dish, q \in SaleQuantity :
          \/ AddLine(o, dish, q)
          \/ \E number \in DOMAIN order[o].lines : UpdateLine(o, number, dish, q)
     \/ \E number \in DOMAIN order[o].lines : RemoveLine(o, number)
     \/ \E k \in Key, price \in Price : SetTerms(o, k, price)
     \/ CancelOrder(o)
  /\ UNCHANGED <<streamVars, goodsIssue, reversal, call, calls>>

-----------------------------------------------------------------------------
(* Answers *)

Covers(terms, lines) ==
  /\ DOMAIN terms.lines = DOMAIN lines
  /\ \A l \in DOMAIN lines :
       terms.lines[l].id = lines[l].id /\ terms.lines[l].dish = lines[l].dish

\* (legal_entity_id, key) is unique among goods issues and completed orders, and
\* among reversals, on its own.
KeyHolders(op, k) ==
  IF op = "complete" THEN {o \in DOMAIN goodsIssue : goodsIssue[o].key = k}
                     ELSE {o \in DOMAIN reversal : reversal[o].key = k}

Writing(s) == call[s].step = "writing"

\* An insert of a key waits for a transaction that has written it.
KeepsKey(t, op, k) == Writing(t) /\ call[t].op = op /\ call[t].key = k

KeyFree(op, k) == \A s \in Session : ~KeepsKey(s, op, k)

\* s stands still until t ends.
WaitsFor(s, t) ==
  \/ call[s].step = "lock" /\ KeepsOrder(t, call[s].order)
  \/ call[s].step = "write" /\ KeepsKey(t, call[s].op, call[s].key)
  \/ WaitsForStream(s, t)

SameCompletion(c) == order[c.order].key = c.key /\ order[c.order].pos = c.pos

SameReversal(c) == reversal[c.order].key = c.key /\ reversal[c.order].pos = c.pos

PeekAnswer(c) ==
  LET status == order[c.order].status IN
  CASE c.op = "complete" /\ status = "COMPLETED" ->
         IF SameCompletion(c) THEN "duplicate" ELSE "conflict"
    [] c.op = "complete" /\ status = "CANCELLED" -> "immutable"
    [] c.op = "reverse" /\ status # "COMPLETED" -> "invalid"
    [] c.op = "reverse" /\ status = "COMPLETED" /\ c.order \in DOMAIN reversal ->
         IF SameReversal(c) THEN "duplicate"
         ELSE IF reversal[c.order].key = c.key THEN "conflict" ELSE "already"
    [] OTHER -> "go on"

\* The recheck that refuses whatever is COMPLETED by now.
LockAnswerRefusing(c) ==
  LET o == order[c.order] IN
  CASE c.op = "complete" /\ o.status # "OPEN" -> "immutable"
    [] c.op = "complete" /\ o.terms = NoTerms -> "no terms"
    [] c.op = "reverse" /\ o.status # "COMPLETED" -> "invalid"
    [] c.op = "reverse" /\ c.order \in DOMAIN reversal -> "already"
    [] KeyHolders(c.op, c.key) # {} -> "conflict"
    [] OTHER -> "go on"

\* A decision that relies on the status the peek saw.
LockAnswerUnchecked(c) ==
  LET o == order[c.order] IN
  CASE c.op = "complete" /\ (o.lines = NewOrder.lines \/ o.terms = NoTerms) -> "no terms"
    [] c.op = "reverse" /\ c.order \in DOMAIN reversal -> "already"
    [] KeyHolders(c.op, c.key) # {} -> "conflict"
    [] OTHER -> "go on"

\* Everything decided between BEGIN and the first insert that can wait.
LockAnswer(c) ==
  LET o == order[c.order]
      keyAnswer == IF KeyHolders(c.op, c.key) # {} THEN "conflict" ELSE "go on"
  IN
  IF c.op = "complete" THEN
    CASE o.status = "COMPLETED" -> IF SameCompletion(c) THEN "duplicate" ELSE "conflict"
      [] o.status \in {"NONE", "CANCELLED"} -> "immutable"
      [] o.status = "OPEN" ->
           IF o.lines = NewOrder.lines THEN "empty"
           ELSE IF o.terms = NoTerms THEN "no terms"
           ELSE IF ~Covers(o.terms, o.lines) THEN "stale" ELSE keyAnswer
  ELSE IF o.status # "COMPLETED" THEN "invalid"
  ELSE IF c.order \in DOMAIN reversal THEN IF SameReversal(c) THEN "duplicate" ELSE "already"
  ELSE keyAnswer

-----------------------------------------------------------------------------
(* What completion and its reversal write *)

\* The consumption plan: every physical leaf of every line.
Plan(lines) ==
  UNION { LET leaves == Menu[lines[l].dish] IN
          { [line |-> lines[l].id, leaf |-> i, item |-> leaves[i].item,
             quantity |-> leaves[i].quantity * lines[l].quantity] : i \in DOMAIN leaves } :
          l \in DOMAIN lines }

QuantityOf(plan, i) ==
  SumFunction([leaf \in {l \in plan : l.item = i} |-> leaf.quantity])

Row(dir, i, q, c, cert, pos, doc, n) ==
  [item |-> i, direction |-> dir, quantity |-> q, cost |-> c, certainty |-> cert,
   pos |-> pos, reversal |-> FALSE, doc |-> doc, id |-> n]

\* One OUT per leaf of the plan.
OneRowPerLeaf(c, plan, quote) ==
  { [Row("OUT", l.item, l.quantity, quote[l.item].unitCost * l.quantity,
         quote[l.item].certainty, c.pos, <<"issue", c.order>>, c.n)
     EXCEPT !.id = l.leaf] : l \in plan }

\* One OUT per item, at its quote.
IssueRows(c, plan, quote) ==
  { Row("OUT", i, QuantityOf(plan, i), quote[i].unitCost * QuantityOf(plan, i),
        quote[i].certainty, c.pos, <<"issue", c.order>>, c.n) : i \in StreamsOf(plan) }

\* The quotes postGoodsIssue reads item by item, before it locks any stream.
QuotesFor(s, plan, pos) ==
  LET of(i) == IssueQuotes(VisibleMovements(s, i), pos) IN
  { quote \in [StreamsOf(plan) -> UNION {of(i) : i \in StreamsOf(plan)}] :
    \A i \in StreamsOf(plan) : quote[i] \in of(i) }

MovementsOf(kind, o) == {m \in movements : m.doc = <<kind, o>>}

\* What gives back an OUT: an IN of the same quantity at the same historical cost.
Returned(c, m, pos) ==
  [Row("IN", m.item, m.quantity, m.cost, m.certainty, pos, <<"reversal", c.order>>, c.n)
   EXCEPT !.reversal = TRUE]

\* Compensations at the position of the sale, as before ADR-0027.
ReturnsAtSalePosition(s) ==
  { Returned(call[s], m, m.pos) : m \in MovementsOf("issue", call[s].order) }

\* Compensations at what the items cost when they come back.
ReturnsAtCurrentCost(s) ==
  LET worth(m) == CHOOSE quote \in IssueQuotes(VisibleMovements(s, m.item), call[s].pos) : TRUE IN
  { [Returned(call[s], m, call[s].pos) EXCEPT !.cost = worth(m).unitCost * m.quantity] :
    m \in MovementsOf("issue", call[s].order) }

\* Compensations at the position the command names.
ReturnRows(s) ==
  { Returned(call[s], m, call[s].pos) : m \in MovementsOf("issue", call[s].order) }

\* Consumption facts keyed by the movement in the place of the evidence line.
ConsumedPerItem(c, plan) ==
  { [type |-> "InventoryConsumed", order |-> c.order, key |-> c.key, line |-> 0,
     leaf |-> leaf.item, item |-> leaf.item, quantity |-> leaf.quantity, pos |-> c.pos] :
    leaf \in plan }

mirrorInventoryConsumed(c, plan) ==
  { [type |-> "InventoryConsumed", order |-> c.order, key |-> c.key, line |-> leaf.line,
     leaf |-> leaf.leaf, item |-> leaf.item, quantity |-> leaf.quantity, pos |-> c.pos] :
    leaf \in plan }

OrderFact(type, o, k, p) == [type |-> type, order |-> o, key |-> k, pos |-> p]

-----------------------------------------------------------------------------
(* Calls *)

BeginCall(s, op, step, o, k, p) ==
  /\ call[s].step = "done" /\ calls < MaxCalls
  /\ calls' = calls + 1
  /\ call' = [call EXCEPT ![s] = [op |-> op, step |-> step, result |-> "none",
                                  n |-> calls + 1, order |-> o, key |-> k, pos |-> p]]

GoTo(s, step) == call' = [call EXCEPT ![s].step = step]

Return(s, result) == call' = [call EXCEPT ![s] = Idle(result)]

Decide(s, answer, step) == IF answer = "go on" THEN GoTo(s, step) ELSE Return(s, answer)

StartCall(s) ==
  /\ \E op \in {"complete", "reverse"}, o \in Order, k \in Key, p \in SalePosition :
       order[o].status # "NONE" /\ BeginCall(s, op, "peek", o, k, p)
  /\ UNCHANGED <<streamVars, order, goodsIssue, reversal, feed>>

PeekOrder(s) ==
  /\ call[s].step = "peek"
  /\ Decide(s, PeekAnswer(call[s]), "key")
  /\ UNCHANGED <<streamVars, order, goodsIssue, reversal, feed, calls>>

CheckKey(s) ==
  /\ call[s].step = "key"
  /\ LET c == call[s]
         others == KeyHolders(c.op, c.key) \ {c.order}
     IN  Decide(s, IF others # {} THEN "conflict" ELSE "go on", "lock")
  /\ UNCHANGED <<streamVars, order, goodsIssue, reversal, feed, calls>>

\* BEGIN, lockOrder, and the second look.
LockOrder(s) ==
  /\ call[s].step = "lock"
  /\ OrderFree(call[s].order)
  /\ Decide(s, LockAnswer(call[s]), "write")
  /\ UNCHANGED <<streamVars, order, goodsIssue, reversal, feed, calls>>

\* The insert of the document with its key, the quotes and the movements.
WriteDocument(s) ==
  LET c == call[s]
      plan == Plan(order[c.order].lines)
  IN
  /\ c.step = "write"
  /\ KeyFree(c.op, c.key)
  /\ IF KeyHolders(c.op, c.key) # {}
       THEN Return(s, "error") /\ UNCHANGED streamVars
     ELSE /\ IF c.op = "complete"
               THEN \E quote \in QuotesFor(s, plan, c.pos) :
                      InsertMovements(s, IssueRows(c, plan, quote))
               ELSE InsertMovements(s, ReturnRows(s))
          /\ GoTo(s, "writing")
  /\ UNCHANGED <<order, goodsIssue, reversal, feed, calls>>

CompleteCommit(s) ==
  LET c == call[s]
      o == order[c.order]
  IN
  /\ c.op = "complete" /\ Writing(s)
  /\ CommitMovements(s)
  /\ order' = [order EXCEPT ![c.order] =
       [@ EXCEPT !.status = "COMPLETED", !.key = c.key, !.pos = c.pos,
                 !.plan = Plan(o.lines), !.snapshot = o.terms]]
  /\ goodsIssue' = With(goodsIssue, c.order,
                        [n |-> c.n, key |-> c.key, pos |-> c.pos, status |-> "POSTED"])
  /\ feed' = feed \cup {OrderFact("OrderCompleted", c.order, c.key, c.pos)}
                  \cup mirrorInventoryConsumed(c, Plan(o.lines))
  /\ Return(s, "completed")
  /\ UNCHANGED <<reversal, calls>>

ReverseCommit(s) ==
  LET c == call[s] IN
  /\ c.op = "reverse" /\ Writing(s)
  /\ CommitMovements(s)
  /\ goodsIssue' = [goodsIssue EXCEPT ![c.order].status = "REVERSED"]
  /\ reversal' = With(reversal, c.order, [n |-> c.n, key |-> c.key, pos |-> c.pos])
  /\ feed' = feed \cup {OrderFact("OrderCompletionReversed", c.order, c.key, c.pos)}
  /\ Return(s, "reversed")
  /\ UNCHANGED <<order, calls>>

\* Another document posts a receipt in the same streams.
StartSupply(s) ==
  \E r \in Supply :
    /\ BeginCall(s, "supply", "writing", NoOrder, NoKey, NoPosition)
    /\ InsertMovements(s, {Row("IN", l.item, l.quantity, l.cost, "FINAL", r.pos,
                               <<"receipt", calls + 1>>, calls + 1) : l \in r.lines})
    /\ UNCHANGED <<order, goodsIssue, reversal, feed>>

SupplyCommit(s) ==
  /\ call[s].op = "supply" /\ Writing(s)
  /\ CommitMovements(s)
  /\ Return(s, "received")
  /\ UNCHANGED <<order, goodsIssue, reversal, feed, calls>>

\* An exception between BEGIN and COMMIT (no recipe, no warehouse, a lost
\* connection): nothing stays.
Rollback(s) ==
  /\ \/ Writing(s) /\ RollbackMovements(s)
     \/ call[s].step = "write" /\ UNCHANGED streamVars
  /\ Return(s, "error")
  /\ UNCHANGED <<order, goodsIssue, reversal, feed, calls>>

StreamStatement(s) ==
  /\ \E i \in Item : lockValuationStream(s, i) \/ rebuildInventoryBalance(s, i)
  /\ UNCHANGED salesVars

CallStep(s) ==
  \/ PeekOrder(s) \/ CheckKey(s) \/ LockOrder(s) \/ WriteDocument(s)
  \/ StreamStatement(s)
  \/ CompleteCommit(s) \/ ReverseCommit(s) \/ SupplyCommit(s)

Next ==
  \/ \E o \in Order : Edit(o)
  \/ \E s \in Session : StartCall(s) \/ StartSupply(s) \/ CallStep(s) \/ Rollback(s)

Spec == Init /\ [][Next]_vars

\* As for goods receipts: PostgreSQL wakes those who wait for a row, a key or a
\* stream in turn.
FairSpec == Spec /\ \A s \in Session : SF_vars(CallStep(s))

-----------------------------------------------------------------------------
(* Properties *)

Line == [id : 1..MaxLines, dish : Dish, quantity : SaleQuantity]

Lines == UNION {[D -> Line] : D \in SUBSET (1..MaxLines)}

Terms ==
  {t \in [key : Key, price : Price, lines : Lines] : <<t.price, DOMAIN t.lines>> \in Acceptable}

OrderRecord ==
  [status : {"NONE", "OPEN", "COMPLETED", "CANCELLED"}, lines : Lines, drawn : 0..MaxLines,
   terms : Terms \cup {NoTerms}, key : Key \cup {NoKey}, pos : SalePosition \cup {NoPosition},
   plan : {{}} \cup {Plan(lines) : lines \in Lines}, snapshot : Terms \cup {NoTerms}]

CallRecord ==
  [op : {"none", "complete", "reverse", "supply"},
   step : {"done", "peek", "key", "lock", "write", "writing"},
   result : {"none", "completed", "reversed", "received", "duplicate", "conflict", "immutable",
             "invalid", "already", "empty", "no terms", "stale", "error"},
   n : 0..MaxCalls, order : Order \cup {NoOrder}, key : Key \cup {NoKey},
   pos : SalePosition \cup {NoPosition}]

\* A session inserts movements only while it writes, and holds its order then.
CallOK(s) ==
  /\ Writing(s) <=> InTransaction(s)
  /\ call[s].step = "done" <=> call[s].op = "none"
  /\ call[s].op \in {"complete", "reverse"} =>
       /\ call[s].order \in Order
       /\ call[s].step \in {"write", "writing"} =>
            order[call[s].order].status =
              (IF call[s].op = "complete" THEN "OPEN" ELSE "COMPLETED")

TypeOK ==
  /\ StreamTypeOK
  /\ order \in [Order -> OrderRecord]
  /\ DOMAIN goodsIssue = {o \in Order : order[o].status = "COMPLETED"}
  /\ DOMAIN reversal \subseteq DOMAIN goodsIssue
  /\ call \in [Session -> CallRecord]
  /\ calls \in 0..MaxCalls
  /\ \A s \in Session : CallOK(s)

SoldOnce(o) ==
  LET rows == MovementsOf("issue", o) IN
  IF order[o].status # "COMPLETED" THEN rows = {}
  ELSE /\ StreamsOf(rows) = StreamsOf(order[o].plan)
       /\ \A m \in rows : /\ m.quantity = QuantityOf(order[o].plan, m.item)
                          /\ m.pos = order[o].pos /\ m.direction = "OUT"
       /\ \A m, n \in rows : m.item = n.item => m = n

(***************************************************************************)
(* ADR-0025, "Inventory is written off exactly once as part of successful  *)
(* Order completion": a completed order owns one OUT per consumed item, of *)
(* the plan's whole quantity, at the order's position; an open or          *)
(* cancelled order owns none.  One row per item also keeps a sale from     *)
(* tying with itself (goods-issue-service.ts, the aggregation).            *)
(***************************************************************************)
SoldExactlyOnce == \A o \in Order : SoldOnce(o)

(***************************************************************************)
(* A completed order's frozen terms were accepted for exactly the lines it *)
(* was sold with, and its plan consumes those lines: "line mutation        *)
(* invalidates accepted commercial terms (must re-accept before            *)
(* CompleteOrder)".                                                        *)
(***************************************************************************)
SnapshotPricesWhatWasSold ==
  \A o \in Order : order[o].status = "COMPLETED" =>
    /\ order[o].lines # NewOrder.lines
    /\ order[o].snapshot.lines = order[o].lines
    /\ order[o].plan = Plan(order[o].lines)

CostOf(S) == SumFunction([m \in S |-> m.cost])

(***************************************************************************)
(* ADR-0027: a reversal returns, in every stream, the quantity and the     *)
(* historical cost the sale took, at the position the reversal names and   *)
(* not the sale's; and nothing is returned without a reversal document.    *)
(***************************************************************************)
ReversalRestoresIssue ==
  \A o \in Order :
    LET back == MovementsOf("reversal", o) IN
    IF o \notin DOMAIN reversal THEN back = {}
    ELSE /\ goodsIssue[o].status = "REVERSED"
         /\ \A m \in back : m.direction = "IN" /\ m.pos = reversal[o].pos
         /\ \A i \in Item :
              LET sold == OfStream(MovementsOf("issue", o), i) IN
              /\ QuantityOf(OfStream(back, i), i) = QuantityOf(sold, i)
              /\ CostOf(OfStream(back, i)) = CostOf(sold)

Supplied(i) == {m \in OfStream(movements, i) : m.doc[1] = "receipt"}

SoldAndKept == {o \in DOMAIN goodsIssue : goodsIssue[o].status = "POSTED"}

(***************************************************************************)
(* Stock, documents and balances are one account: what a committed balance *)
(* has on hand is what receipts brought in less what the plans of the      *)
(* completed orders consume, those reversed left out.  No row of a failed, *)
(* repeated or overtaken call counts, none is missing, and no rebuild      *)
(* (rebuild-balance.ts) lost one.                                          *)
(***************************************************************************)
StockIsSuppliedLessSold ==
  \A i \in Item :
    balance[i].quantity = QuantityOf(Supplied(i), i)
                          - SumFunction([o \in SoldAndKept |-> QuantityOf(order[o].plan, i)])

EffectOf(o) == NetEffect(MovementsOf("issue", o) \cup MovementsOf("reversal", o))

Documents ==
  INSTANCE ReversibleDocuments WITH
    Document <- Order,
    MayCancelOut <- FALSE,
    status <- [o \in Order |-> IF o \in DOMAIN goodsIssue THEN goodsIssue[o].status ELSE "OPEN"],
    effect <- [o \in Order |-> EffectOf(o)]

(***************************************************************************)
(* ADR-0025 and ADR-0027 together: whatever statements they are made of    *)
(* and whoever races them, a completion takes stock in one step, its       *)
(* reversal gives all of it back in one step, in quantity and at the       *)
(* historical cost, and no other call touches the stock an order moved.    *)
(***************************************************************************)
ImplementsDocuments == Documents!Spec

(***************************************************************************)
(* ADR-0025: the content of a completed or cancelled order is immutable,   *)
(* its own completion and reversal racing included, and a goods issue      *)
(* changes only from POSTED to REVERSED.                                   *)
(***************************************************************************)
ClosedOrdersAreFinal ==
  [][ /\ \A o \in Order : order[o].status \in {"COMPLETED", "CANCELLED"} => order'[o] = order[o]
      /\ \A o \in DOMAIN goodsIssue :
           goodsIssue'[o] \in {goodsIssue[o], [goodsIssue[o] EXCEPT !.status = "REVERSED"]} ]_vars

(***************************************************************************)
(* The feed mirrors the documents: one completion and one reversal fact    *)
(* per document, and consumption facts that add up, item by item, to the   *)
(* quantity the sale moved.                                                *)
(***************************************************************************)
FeedMirrorsSales ==
  LET of(type) == {f \in feed : f.type = type} IN
  /\ of("OrderCompleted") =
       {OrderFact("OrderCompleted", o, goodsIssue[o].key, goodsIssue[o].pos) :
        o \in DOMAIN goodsIssue}
  /\ of("OrderCompletionReversed") =
       {OrderFact("OrderCompletionReversed", o, reversal[o].key, reversal[o].pos) :
        o \in DOMAIN reversal}
  /\ \A o \in Order, i \in Item :
       QuantityOf({f \in of("InventoryConsumed") : f.order = o}, i) =
         QuantityOf(MovementsOf("issue", o), i)

Answers(s) == call[s].step # "done" /\ call'[s].step = "done"

Completed(c) == order[c.order].status = "COMPLETED" /\ SameCompletion(c)

Reversed(c) == c.order \in DOMAIN reversal /\ SameReversal(c)

(***************************************************************************)
(* ADR-0025, "Retry / concurrent CompleteOrder: idempotent", and ADR-0027  *)
(* for reversals: a call that repeats a committed one, key and position    *)
(* alike, is answered duplicate at whatever step it finds out, and no call *)
(* is answered so that is not.                                             *)
(***************************************************************************)
RetriesAreDuplicates ==
  [][ \A s \in Session : LET c == call[s] IN
        /\ c.op = "complete" /\ Answers(s) => (call'[s].result = "duplicate" <=> Completed(c))
        /\ c.op = "reverse" /\ Answers(s) => (call'[s].result = "duplicate" <=> Reversed(c)) ]_vars

(***************************************************************************)
(* However many completions, reversals and receipts overlap, none of them  *)
(* wait for each other's orders, keys and streams in a circle.             *)
(***************************************************************************)
NoCircleOfCalls ==
  \A S \in SUBSET Session :
    S # {} /\ IsFiniteSet(S) => \E s \in S : \A t \in S : ~WaitsFor(s, t)

(***************************************************************************)
(* Every completion, reversal and receipt ends, one way or the other:      *)
(* order rows, keys and streams are never waited for in a circle.          *)
(***************************************************************************)
EveryCallReturns == \A s \in Session : call[s].step # "done" ~> call[s].step = "done"

=============================================================================
