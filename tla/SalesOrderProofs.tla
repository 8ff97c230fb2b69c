-------------------------- MODULE SalesOrderProofs --------------------------
(***************************************************************************)
(* Proofs about sales orders, for every number of sessions, orders, lines, *)
(* keys, calls and every menu: that they are written off once, and then    *)
(* what their documents say, the snapshot, the reversal, the answers to    *)
(* retries and the feed; and what is computed of a sale, for every amount  *)
(* and every query: its cost in the reports of ActualCogs, and its money   *)
(* in the snapshot of CommercialSnapshot, allocated by OrderDiscount.      *)
(***************************************************************************)
EXTENDS ActualCogs, CommercialSnapshot, ValuationStreamsProofs

-----------------------------------------------------------------------------
(* The stream side: an edit touches no stream, a call is a step of the      *)
(* posting protocol or nothing to the streams.                              *)

LEMMA NextIsStreamStepOrStutter ==
  ASSUME [Next]_vars
  PROVE  UNCHANGED streamVars \/ \E s \in Session : StreamStep(s)
<1>1. CASE UNCHANGED vars
  BY <1>1 DEF vars
<1>2. ASSUME NEW o \in Order, Edit(o) PROVE UNCHANGED streamVars
  BY <1>2 DEF Edit
<1>3. ASSUME NEW s \in Session, StartCall(s) \/ PeekOrder(s) \/ CheckKey(s) \/ LockOrder(s)
      PROVE  UNCHANGED streamVars
  BY <1>3 DEF StartCall, PeekOrder, CheckKey, LockOrder
<1>4. ASSUME NEW s \in Session, NEW M, InsertMovements(s, M)
      PROVE  StreamStep(s)
  BY <1>4 DEF InsertMovements, StreamStep
<1>5. ASSUME NEW s \in Session, WriteDocument(s) \/ StartSupply(s)
      PROVE  UNCHANGED streamVars \/ StreamStep(s)
  BY <1>4, <1>5 DEF WriteDocument, StartSupply
<1>6. ASSUME NEW s \in Session,
             CompleteCommit(s) \/ ReverseCommit(s) \/ SupplyCommit(s) \/ StreamStatement(s)
      PROVE  StreamStep(s)
  BY <1>6 DEF CompleteCommit, ReverseCommit, SupplyCommit, StreamStatement, StreamStep
<1>7. ASSUME NEW s \in Session, Rollback(s)
      PROVE  UNCHANGED streamVars \/ StreamStep(s)
  BY <1>7 DEF Rollback, StreamStep
<1> QED BY <1>1, <1>2, <1>3, <1>5, <1>6, <1>7 DEF Next, CallStep

(* Whatever completions, reversals and receipts interleave, retry, fail or *)
(* roll back, committed balances are the replay of committed movements.    *)
THEOREM SalesKeepBalances == Spec => []BalanceIsReplay
<1>1. Init => StreamInv
  BY StreamInvInit DEF Init
<1>2. StreamInv /\ [Next]_vars => StreamInv'
  BY NextIsStreamStepOrStutter, StreamStepInv, StreamStutter
<1>3. StreamInv => BalanceIsReplay
  BY DEF StreamInv
<1> QED BY <1>1, <1>2, <1>3, PTL DEF Spec

LEMMA SalesRowsAreFinite == Spec => [](StreamInv /\ RowsAreFinite)
<1>1. Init => StreamInv /\ RowsAreFinite
  BY StreamInvInit, FiniteInit DEF Init
<1>2. StreamInv /\ RowsAreFinite /\ [Next]_vars => (StreamInv /\ RowsAreFinite)'
  <2>1. SUFFICES ASSUME StreamInv, RowsAreFinite, [Next]_vars PROVE (StreamInv /\ RowsAreFinite)'
    OBVIOUS
  <2>2. ASSUME NEW s \in Session, StreamStep(s) PROVE (StreamInv /\ RowsAreFinite)'
    BY <2>1, <2>2, StreamStepInv, FiniteStep DEF StreamInv
  <2>3. CASE UNCHANGED streamVars
    BY <2>1, <2>3, StreamStutter, FiniteStutter
  <2> QED BY <2>1, <2>2, <2>3, NextIsStreamStepOrStutter
<1> QED BY <1>1, <1>2, PTL DEF Spec

(* Stock is conserved by sales: after any completions, receipts, reversals, *)
(* cancellations and failures, a committed balance has on hand what came in *)
(* less what the committed sales took and plus what their reversals gave    *)
(* back (goods-issue-service.ts, rebuild-balance.ts).                       *)
THEOREM SalesConserveStock == Spec => []StockIsWhatMoved
<1>1. StreamInv /\ RowsAreFinite => StockIsWhatMoved
  BY ReplaysAreWhatMoved DEF StreamInv
<1> QED BY <1>1, SalesRowsAreFinite, PTL

-----------------------------------------------------------------------------
(* The inductive invariant.  A call that holds an order's row holds it     *)
(* alone, so the status it decided on under the lock is still there when   *)
(* it commits; the rows it inserted are the plan's, and carry its number.  *)

Active(s) == call[s].step # "done"

Holding(s) == call[s].op \in {"complete", "reverse"} /\ call[s].step \in {"write", "writing"}

WritingOK(s) ==
  Writing(s) =>
    /\ \A m \in inserted[s] : m.id = call[s].n
    /\ call[s].op = "complete" =>
         \E quote : inserted[s] = IssueRows(call[s], Plan(order[call[s].order].lines), quote)
    /\ call[s].op # "complete" => \A m \in inserted[s] : m.doc[1] # "issue"

CallsOK ==
  /\ \A s \in Session : WritingOK(s)
  /\ \A s, t \in Session : s # t /\ Holding(s) /\ Holding(t) => call[s].order # call[t].order

IdsOK ==
  /\ \A m \in movements : m.id \in 1..calls
  /\ \A s \in Session : Active(s) =>
       call[s].n \in 1..calls /\ \A m \in movements : m.id # call[s].n
  /\ \A s, t \in Session : s # t /\ Active(s) /\ Active(t) => call[s].n # call[t].n

SalesInv == TypeOK /\ SoldExactlyOnce /\ CallsOK /\ IdsOK

LEMMA EmptyLines ==
  ASSUME NEW f, DOMAIN f = {}, f = [l \in {} |-> NoOrder]
  PROVE  f \in Lines
<1>1. f \in [{} -> Line]
  OBVIOUS
<1> QED BY <1>1 DEF Lines

LEMMA LinesDomain ==
  ASSUME NEW D \in SUBSET (1..MaxLines), NEW f \in [D -> Line]
  PROVE  f \in Lines
BY DEF Lines

LEMMA SalesInvInit == Init => SalesInv
<1> SUFFICES ASSUME Init PROVE SalesInv
  OBVIOUS
<1>1. \A s \in Session : call[s] = Idle("none") /\ ~Active(s) /\ ~Writing(s) /\ ~InTransaction(s)
  BY DEF Init, StreamInit, Active, Writing, InTransaction, Idle
<1>2. Idle("none") \in CallRecord
  BY SalesAssumption DEF Idle, CallRecord
<1>3. NewOrder \in OrderRecord
  <2>1. [l \in {} |-> NoOrder] \in Lines
    BY EmptyLines
  <2> QED BY <2>1, SalesAssumption DEF NewOrder, OrderRecord
<1>4. StreamTypeOK
  BY StreamInvInit DEF Init, StreamInv
<1>5. TypeOK
  <2>1. \A s \in Session : CallOK(s)
    BY <1>1 DEF CallOK, Idle, Writing
  <2>2. order \in [Order -> OrderRecord] /\ call \in [Session -> CallRecord] /\ calls \in 0..MaxCalls
    BY <1>2, <1>3, SalesAssumption DEF Init
  <2>3. \A o \in Order : order[o].status = "NONE"
    BY DEF Init, NewOrder
  <2>4. DOMAIN goodsIssue = {} /\ DOMAIN reversal = {}
    BY DEF Init
  <2> QED BY <1>4, <2>1, <2>2, <2>3, <2>4 DEF TypeOK
<1>6. movements = {}
  BY DEF Init, StreamInit, LedgerInit
<1>7. SoldExactlyOnce
  BY <1>6 DEF SoldExactlyOnce, SoldOnce, MovementsOf, Init, NewOrder
<1>8. CallsOK /\ IdsOK
  BY <1>1, <1>6 DEF CallsOK, WritingOK, Holding, IdsOK, Idle
<1> QED BY <1>5, <1>7, <1>8 DEF SalesInv

-----------------------------------------------------------------------------
(* Edits *)

LEMMA WithLine ==
  ASSUME NEW lines \in Lines, NEW number \in 1..MaxLines, NEW rec \in Line
  PROVE  With(lines, number, rec) \in Lines
<1>1. PICK D \in SUBSET (1..MaxLines) : lines \in [D -> Line]
  BY DEF Lines
<1>2. With(lines, number, rec) \in [D \cup {number} -> Line]
  BY <1>1 DEF With
<1> QED BY <1>2, LinesDomain

LEMMA FewerLines ==
  ASSUME NEW lines \in Lines, NEW S
  PROVE  Restrict(lines, DOMAIN lines \ S) \in Lines
<1>1. PICK D \in SUBSET (1..MaxLines) : lines \in [D -> Line]
  BY DEF Lines
<1>2. Restrict(lines, DOMAIN lines \ S) \in [D \ S -> Line]
  BY <1>1 DEF Restrict
<1> QED BY <1>2, LinesDomain

LEMMA ChangedLine ==
  ASSUME NEW lines \in Lines, NEW number \in DOMAIN lines, NEW dish \in Dish,
         NEW q \in SaleQuantity
  PROVE  [lines EXCEPT ![number].dish = dish, ![number].quantity = q] \in Lines
<1>1. PICK D \in SUBSET (1..MaxLines) : lines \in [D -> Line]
  BY DEF Lines
<1>2. [lines EXCEPT ![number].dish = dish, ![number].quantity = q] \in [D -> Line]
  BY <1>1 DEF Line
<1> QED BY <1>2, LinesDomain

(* An edit replaces one order that is not closed and that nobody holds. *)
LEMMA EditEffect ==
  ASSUME TypeOK, NEW o \in Order, Edit(o)
  PROVE  \E rec \in OrderRecord :
           /\ order' = [order EXCEPT ![o] = rec]
           /\ order[o].status \in {"NONE", "OPEN"} /\ rec.status \in {"OPEN", "CANCELLED"}
           /\ \A s \in Session : Holding(s) => call[s].order # o
<1>1. order[o] \in OrderRecord /\ order \in [Order -> OrderRecord]
  BY DEF TypeOK
<1>2. ASSUME OrderFree(o)
      PROVE  \A s \in Session : Holding(s) => call[s].order # o
  BY <1>2 DEF OrderFree, KeepsOrder, Holding
<1>3. CASE OpenOrder(o)
  <2> DEFINE rec == [order[o] EXCEPT !.status = "OPEN"]
  <2>1. rec \in OrderRecord /\ rec.status = "OPEN" /\ order' = [order EXCEPT ![o] = rec]
    BY <1>1, <1>3 DEF OpenOrder, OrderRecord
  <2>2. \A s \in Session : Holding(s) => call[s].order # o
    BY <1>3 DEF OpenOrder, TypeOK, CallOK, Holding
  <2> QED BY <1>3, <2>1, <2>2 DEF OpenOrder
<1>4. ASSUME assertOpenMutable(o), NEW lines \in Lines, SetLines(o, lines)
      PROVE  /\ \E rec \in OrderRecord : order' = [order EXCEPT ![o] = rec] /\ rec.status = "OPEN"
             /\ order[o].status = "OPEN" /\ OrderFree(o)
  <2> DEFINE rec == [order[o] EXCEPT !.lines = lines, !.terms = NoTerms]
  <2>1. rec \in OrderRecord /\ rec.status = "OPEN"
    BY <1>1, <1>4 DEF assertOpenMutable, OrderRecord
  <2>2. order' = [order EXCEPT ![o] = rec]
    BY <1>4 DEF SetLines
  <2> QED BY <1>4, <2>1, <2>2 DEF assertOpenMutable
<1>5. order[o].lines \in Lines
  BY <1>1 DEF OrderRecord
<1>6. ASSUME NEW dish \in Dish, NEW q \in SaleQuantity, AddLine(o, dish, q)
      PROVE  /\ \E rec \in OrderRecord : order' = [order EXCEPT ![o] = rec] /\ rec.status = "OPEN"
             /\ order[o].status = "OPEN" /\ OrderFree(o)
  <2> DEFINE id == order[o].drawn + 1
             line == [id |-> id, dish |-> dish, quantity |-> q]
  <2>1. id \in 1..MaxLines
    BY <1>1, <1>6, SalesAssumption DEF AddLine, OrderRecord
  <2>2. PICK number \in 1..MaxLines :
          order' = [order EXCEPT ![o] =
            [@ EXCEPT !.drawn = id, !.terms = NoTerms, !.lines = With(order[o].lines, number, line)]]
    BY <1>6 DEF AddLine
  <2>3. With(order[o].lines, number, line) \in Lines
    BY <1>5, <2>1, WithLine DEF Line
  <2> DEFINE rec == [order[o] EXCEPT !.drawn = id, !.terms = NoTerms,
                                     !.lines = With(order[o].lines, number, line)]
  <2>4. ASSUME NEW L \in Lines, NEW n \in 1..MaxLines
        PROVE  /\ [order[o] EXCEPT !.drawn = n, !.terms = NoTerms, !.lines = L] \in OrderRecord
               /\ [order[o] EXCEPT !.drawn = n, !.terms = NoTerms, !.lines = L].status
                    = order[o].status
    <3>1. n \in 0..MaxLines
      BY SalesAssumption
    <3> QED BY <1>1, <3>1 DEF OrderRecord
  <2>5. rec \in OrderRecord /\ rec.status = order[o].status
    BY <2>1, <2>3, <2>4
  <2>6. order' = [order EXCEPT ![o] = rec]
    BY <1>1, <2>2
  <2> QED BY <1>6, <2>5, <2>6 DEF AddLine, assertOpenMutable
<1>7. ASSUME NEW k \in Key, NEW price \in Price, SetTerms(o, k, price)
      PROVE  /\ \E rec \in OrderRecord : order' = [order EXCEPT ![o] = rec] /\ rec.status = "OPEN"
             /\ order[o].status = "OPEN" /\ OrderFree(o)
  <2> DEFINE terms == [key |-> k, price |-> price, lines |-> order[o].lines]
             rec == [order[o] EXCEPT !.terms = terms]
  <2>1. terms \in Terms
    BY <1>5, <1>7 DEF Terms, SetTerms
  <2>2. rec \in OrderRecord /\ rec.status = order[o].status
    BY <1>1, <2>1 DEF OrderRecord
  <2>3. order' = [order EXCEPT ![o] = rec]
    BY <1>1, <1>7 DEF SetTerms
  <2> QED BY <1>7, <2>2, <2>3 DEF SetTerms, assertOpenMutable
<1>8. CASE CancelOrder(o)
  <2> DEFINE rec == [order[o] EXCEPT !.status = "CANCELLED"]
  <2>1. rec \in OrderRecord /\ rec.status = "CANCELLED" /\ order' = [order EXCEPT ![o] = rec]
    BY <1>1, <1>8 DEF CancelOrder, OrderRecord
  <2> QED BY <1>2, <1>8, <2>1 DEF CancelOrder, assertOpenMutable
<1>9. ASSUME NEW dish \in Dish, NEW q \in SaleQuantity, NEW number \in DOMAIN order[o].lines,
             UpdateLine(o, number, dish, q) \/ RemoveLine(o, number)
      PROVE  /\ \E rec \in OrderRecord : order' = [order EXCEPT ![o] = rec] /\ rec.status = "OPEN"
             /\ order[o].status = "OPEN" /\ OrderFree(o)
  BY <1>4, <1>5, <1>9, ChangedLine, FewerLines DEF UpdateLine, RemoveLine
<1>10. ASSUME NEW number \in DOMAIN order[o].lines, RemoveLine(o, number)
      PROVE  /\ \E rec \in OrderRecord : order' = [order EXCEPT ![o] = rec] /\ rec.status = "OPEN"
             /\ order[o].status = "OPEN" /\ OrderFree(o)
  BY <1>4, <1>5, <1>10, FewerLines DEF RemoveLine
<1> QED BY <1>2, <1>3, <1>6, <1>7, <1>8, <1>9, <1>10 DEF Edit
LEMMA EditStep ==
  ASSUME StreamInv, SalesInv, NEW o \in Order, Edit(o)
  PROVE  SalesInv'
<1> USE DEF SalesInv
<1>1. PICK rec \in OrderRecord :
        /\ order' = [order EXCEPT ![o] = rec]
        /\ order[o].status \in {"NONE", "OPEN"} /\ rec.status \in {"OPEN", "CANCELLED"}
        /\ \A s \in Session : Holding(s) => call[s].order # o
  BY EditEffect
<1>2. UNCHANGED <<movements, balance, streamLock, inserted, todo, rebuilt, goodsIssue,
                  reversal, call, calls>>
  BY DEF Edit, streamVars
<1>3. order \in [Order -> OrderRecord]
  BY DEF TypeOK
<1>4. /\ order' \in [Order -> OrderRecord]
      /\ order'[o] = rec
      /\ \A p \in Order \ {o} : order'[p] = order[p]
      /\ \A p \in Order : order'[p].status = "COMPLETED" <=> order[p].status = "COMPLETED"
  BY <1>1, <1>3
<1>5. TypeOK'
  <2>1. StreamTypeOK'
    BY <1>2 DEF TypeOK, StreamTypeOK, InTransaction
  <2>2. \A s \in Session : CallOK(s)'
    <3> SUFFICES ASSUME NEW s \in Session PROVE CallOK(s)'
      OBVIOUS
    <3>1. CallOK(s) /\ (Writing(s)' <=> Writing(s)) /\ (InTransaction(s)' <=> InTransaction(s))
      BY <1>2 DEF TypeOK, Writing, InTransaction
    <3>2. Holding(s) => call[s].order \in Order \ {o}
      BY <1>1, <3>1 DEF CallOK, Holding
    <3> QED BY <1>2, <1>4, <3>1, <3>2 DEF CallOK, Holding
  <2>3. DOMAIN goodsIssue' = {p \in Order : order'[p].status = "COMPLETED"}
    BY <1>2, <1>4 DEF TypeOK
  <2> QED BY <1>2, <1>4, <2>1, <2>2, <2>3 DEF TypeOK
<1>6. SoldExactlyOnce'
  <2> SUFFICES ASSUME NEW p \in Order PROVE SoldOnce(p)'
    BY DEF SoldExactlyOnce
  <2>1. MovementsOf("issue", p)' = MovementsOf("issue", p) /\ SoldOnce(p)
    BY <1>2 DEF MovementsOf, SoldExactlyOnce
  <2>2. CASE p = o
    <3>1. order[o].status # "COMPLETED" /\ order'[o].status # "COMPLETED"
      BY <1>1, <1>4
    <3> QED BY <2>1, <2>2, <3>1 DEF SoldOnce
  <2>3. CASE p # o
    <3>1. order'[p] = order[p]
      BY <1>4, <2>3
    <3> QED BY <2>1, <3>1 DEF SoldOnce
  <2> QED BY <2>2, <2>3
<1>7. CallsOK'
  <2>1. \A s \in Session : WritingOK(s)'
    <3> SUFFICES ASSUME NEW s \in Session, Writing(s)' PROVE WritingOK(s)'
      BY DEF WritingOK
    <3>1. WritingOK(s) /\ Writing(s)
      BY <1>2 DEF CallsOK, Writing
    <3>2. ASSUME call[s].op = "complete" PROVE order'[call[s].order] = order[call[s].order]
      <4>1. call[s].order \in Order /\ call[s].order # o
        BY <1>1, <3>1, <3>2 DEF TypeOK, CallOK, Holding, Writing
      <4> QED BY <1>4, <4>1
    <3>3. ASSUME call[s].op = "complete"
          PROVE \E quote : inserted'[s] =
                   IssueRows(call'[s], Plan(order'[call'[s].order].lines), quote)
      BY <1>2, <3>1, <3>2, <3>3 DEF WritingOK
    <3> QED BY <1>2, <3>1, <3>3 DEF WritingOK
  <2>2. \A s, t \in Session : s # t /\ Holding(s)' /\ Holding(t)' => call'[s].order # call'[t].order
    BY <1>2 DEF CallsOK, Holding
  <2> QED BY <2>1, <2>2 DEF CallsOK
<1>8. IdsOK'
  BY <1>2 DEF IdsOK, Active
<1> QED BY <1>5, <1>6, <1>7, <1>8

-----------------------------------------------------------------------------
(* Calls *)

(* What one session does to its own call and its uncommitted rows keeps the *)
(* invariant if it leaves its own call in order: under a row nobody else    *)
(* holds, with a number nobody else has.                                    *)
LEMMA OwnCallStep ==
  ASSUME SalesInv, StreamTypeOK', NEW s \in Session, NEW c \in CallRecord,
         call' = [call EXCEPT ![s] = c],
         UNCHANGED <<movements, order, goodsIssue, reversal>>,
         \A t \in Session \ {s} : inserted'[t] = inserted[t],
         calls' \in 0..MaxCalls, calls <= calls',
         CallOK(s)', WritingOK(s)',
         Holding(s)' => \A t \in Session \ {s} : Holding(t) => call[t].order # c.order,
         Active(s)' => /\ c.n \in 1..calls'
                       /\ \A m \in movements : m.id # c.n
                       /\ \A t \in Session \ {s} : Active(t) => call[t].n # c.n
  PROVE  SalesInv'
<1> USE DEF SalesInv
<1>1. call \in [Session -> CallRecord] /\ calls \in 0..MaxCalls
  BY DEF TypeOK
<1>2. /\ call' \in [Session -> CallRecord] /\ call'[s] = c
      /\ \A t \in Session \ {s} : call'[t] = call[t]
  BY <1>1
<1>3. ASSUME NEW t \in Session \ {s}
      PROVE  /\ Writing(t)' <=> Writing(t)
             /\ InTransaction(t)' <=> InTransaction(t)
             /\ Holding(t)' <=> Holding(t)
             /\ Active(t)' <=> Active(t)
             /\ CallOK(t)' /\ WritingOK(t)'
  <2>1. /\ Writing(t)' <=> Writing(t)
        /\ InTransaction(t)' <=> InTransaction(t)
        /\ Holding(t)' <=> Holding(t)
        /\ Active(t)' <=> Active(t)
    BY <1>2 DEF Writing, InTransaction, Holding, Active
  <2>2. CallOK(t)'
    BY <1>2, <2>1 DEF TypeOK, CallOK
  <2>3. WritingOK(t)'
    BY <1>2, <2>1 DEF CallsOK, WritingOK
  <2> QED BY <2>1, <2>2, <2>3
<1>4. TypeOK'
  BY <1>2, <1>3 DEF TypeOK
<1>5. SoldExactlyOnce'
  BY DEF SoldExactlyOnce, SoldOnce, MovementsOf
<1>6. CallsOK'
  <2>1. \A t \in Session : WritingOK(t)'
    BY <1>3
  <2>2. ASSUME NEW t \in Session, NEW u \in Session, t # u, Holding(t)', Holding(u)'
        PROVE  call'[t].order # call'[u].order
    BY <1>2, <1>3, <2>2 DEF CallsOK
  <2> QED BY <2>1, <2>2 DEF CallsOK
<1>7. IdsOK'
  <2>1. \A m \in movements' : m.id \in 1..calls'
    BY <1>1 DEF IdsOK
  <2>2. \A t \in Session : Active(t)' =>
          call'[t].n \in 1..calls' /\ \A m \in movements' : m.id # call'[t].n
    BY <1>1, <1>2, <1>3 DEF IdsOK
  <2>3. \A t, u \in Session : t # u /\ Active(t)' /\ Active(u)' => call'[t].n # call'[u].n
    BY <1>2, <1>3 DEF IdsOK
  <2> QED BY <2>1, <2>2, <2>3 DEF IdsOK
<1> QED BY <1>4, <1>5, <1>6, <1>7

CallResult ==
  {"completed", "reversed", "received", "duplicate", "conflict", "immutable", "invalid",
   "already", "empty", "no terms", "stale", "error"}

LEMMA IdleCall ==
  ASSUME NEW answer \in CallResult
  PROVE  /\ Idle(answer) \in CallRecord
         /\ Idle(answer).step = "done" /\ Idle(answer).op = "none"
<1>1. 0 \in 0..MaxCalls
  BY SalesAssumption
<1> QED BY <1>1 DEF Idle, CallRecord, CallResult

LEMMA ReturnStep ==
  ASSUME SalesInv, StreamTypeOK', NEW s \in Session,
         NEW answer \in CallResult,
         Return(s, answer), inserted'[s] = {},
         \A t \in Session \ {s} : inserted'[t] = inserted[t],
         UNCHANGED <<movements, order, goodsIssue, reversal, calls>>
  PROVE  SalesInv'
<1> DEFINE c == Idle(answer)
<1>1. c \in CallRecord /\ c.step = "done" /\ c.op = "none"
  BY IdleCall
<1>2. call' = [call EXCEPT ![s] = c] /\ call'[s] = c
  BY DEF Return, SalesInv, TypeOK
<1> HIDE DEF c
<1>3. ~Writing(s)' /\ ~InTransaction(s)' /\ ~Holding(s)' /\ ~Active(s)'
  BY <1>1, <1>2 DEF Writing, InTransaction, Holding, Active
<1>4. CallOK(s)' /\ WritingOK(s)'
  BY <1>1, <1>2, <1>3 DEF CallOK, WritingOK
<1>5. calls' \in 0..MaxCalls /\ calls <= calls'
  <2>1. calls \in 0..MaxCalls /\ calls' = calls
    BY DEF SalesInv, TypeOK
  <2> QED BY <2>1, SalesAssumption
<1> QED BY <1>1, <1>2, <1>3, <1>4, <1>5, OwnCallStep

LEMMA StartCallStep ==
  ASSUME SalesInv, StreamTypeOK', NEW s \in Session, StartCall(s)
  PROVE  SalesInv'
<1>1. PICK op \in {"complete", "reverse"}, o \in Order, k \in Key, p \in SalePosition :
        BeginCall(s, op, "peek", o, k, p)
  BY DEF StartCall
<1> DEFINE c == [op |-> op, step |-> "peek", result |-> "none", n |-> calls + 1,
                 order |-> o, key |-> k, pos |-> p]
<1>2. calls \in 0..MaxCalls /\ calls' = calls + 1 /\ calls < MaxCalls
  BY <1>1 DEF BeginCall, SalesInv, TypeOK
<1>3. c \in CallRecord
  <2>1. calls + 1 \in 0..MaxCalls
    BY <1>2, SalesAssumption
  <2> QED BY <2>1 DEF CallRecord
<1>4. call' = [call EXCEPT ![s] = c] /\ call'[s] = c
  BY <1>1 DEF BeginCall, SalesInv, TypeOK
<1>5. UNCHANGED <<movements, inserted, order, goodsIssue, reversal>>
  BY DEF StartCall, streamVars
<1>6. inserted[s] = {}
  BY <1>1 DEF BeginCall, SalesInv, TypeOK, CallOK, Writing, InTransaction
<1>7. ~Writing(s)' /\ ~InTransaction(s)' /\ ~Holding(s)'
  BY <1>4, <1>5, <1>6 DEF Writing, InTransaction, Holding
<1>8. CallOK(s)' /\ WritingOK(s)'
  BY <1>4, <1>7 DEF CallOK, WritingOK
<1>9. /\ c.n \in 1..calls'
      /\ \A m \in movements : m.id # c.n
      /\ \A t \in Session \ {s} : Active(t) => call[t].n # c.n
  BY <1>2 DEF SalesInv, IdsOK
<1>10. calls' \in 0..MaxCalls /\ calls <= calls'
  BY <1>2, SalesAssumption
<1> HIDE DEF c
<1> QED BY <1>3, <1>4, <1>5, <1>7, <1>8, <1>9, <1>10, OwnCallStep

LEMMA GoToStep ==
  ASSUME SalesInv, StreamTypeOK', NEW s \in Session, NEW step \in {"key", "lock", "write"},
         GoTo(s, step), call[s].step \in {"peek", "key", "lock"},
         UNCHANGED <<movements, inserted, order, goodsIssue, reversal, calls>>,
         step = "write" /\ call[s].op \in {"complete", "reverse"} =>
           /\ order[call[s].order].status =
                (IF call[s].op = "complete" THEN "OPEN" ELSE "COMPLETED")
           /\ \A t \in Session \ {s} : Holding(t) => call[t].order # call[s].order
  PROVE  SalesInv'
<1> DEFINE c == [call[s] EXCEPT !.step = step]
<1>1. call[s] \in CallRecord
  BY DEF SalesInv, TypeOK
<1>2. /\ c \in CallRecord /\ c.step = step /\ c.op = call[s].op
      /\ c.order = call[s].order /\ c.n = call[s].n
  BY <1>1 DEF CallRecord
<1>3. call' = [call EXCEPT ![s] = c] /\ call'[s] = c
  BY DEF GoTo, SalesInv, TypeOK
<1> HIDE DEF c
<1>4. ~Writing(s) /\ ~Writing(s)' /\ Active(s) /\ CallOK(s) /\ inserted' = inserted
  BY <1>2, <1>3 DEF Writing, Active, SalesInv, TypeOK
<1>5. CallOK(s)'
  BY <1>2, <1>3, <1>4 DEF CallOK, InTransaction
<1>6. WritingOK(s)'
  BY <1>4 DEF WritingOK
<1>7. Holding(s)' => \A t \in Session \ {s} : Holding(t) => call[t].order # c.order
  BY <1>2, <1>3 DEF Holding
<1>8. calls \in 0..MaxCalls /\ calls' = calls
  BY DEF SalesInv, TypeOK
<1>9. calls' \in 0..MaxCalls /\ calls <= calls'
  BY <1>8, SalesAssumption
<1>10. /\ c.n \in 1..calls'
       /\ \A m \in movements : m.id # c.n
       /\ \A t \in Session \ {s} : Active(t) => call[t].n # c.n
  BY <1>2, <1>4, <1>8 DEF SalesInv, IdsOK
<1> QED BY <1>2, <1>3, <1>4, <1>5, <1>6, <1>7, <1>9, <1>10, OwnCallStep

(* What the second look, under the row's lock, answers.                     *)
LEMMA LockAnswerIs ==
  ASSUME NEW c,
         c.op = "complete" =>
           order[c.order].status \in {"NONE", "OPEN", "COMPLETED", "CANCELLED"}
  PROVE  /\ LockAnswer(c) \in CallResult \cup {"go on"}
         /\ LockAnswer(c) = "go on" =>
              /\ KeyHolders(c.op, c.key) = {}
              /\ c.op = "complete" => /\ order[c.order].status = "OPEN"
                                      /\ order[c.order].lines # NewOrder.lines
                                      /\ order[c.order].terms # NoTerms
              /\ c.op # "complete" => /\ order[c.order].status = "COMPLETED"
                                      /\ c.order \notin DOMAIN reversal
         /\ c.op = "complete" => (LockAnswer(c) = "duplicate" <=> Completed(c))
         /\ c.op = "reverse" /\ order[c.order].status = "COMPLETED" =>
              (LockAnswer(c) = "duplicate" <=> Reversed(c))
<1> DEFINE o == order[c.order]
           keyAnswer == IF KeyHolders(c.op, c.key) # {} THEN "conflict" ELSE "go on"
<1>1. CASE c.op # "complete"
  BY <1>1 DEF LockAnswer, CallResult, Reversed
<1>2. CASE c.op = "complete" /\ o.status = "COMPLETED"
  <2>1. LockAnswer(c) = (IF SameCompletion(c) THEN "duplicate" ELSE "conflict")
    BY <1>2 DEF LockAnswer
  <2> QED BY <1>2, <2>1 DEF CallResult, Completed
<1>3. CASE c.op = "complete" /\ o.status \in {"NONE", "CANCELLED"}
  <2>1. LockAnswer(c) = "immutable"
    BY <1>3 DEF LockAnswer
  <2> QED BY <1>3, <2>1 DEF CallResult, Completed
<1>4. CASE c.op = "complete" /\ o.status = "OPEN"
  <2>1. LockAnswer(c) = (IF o.lines = NewOrder.lines THEN "empty"
                         ELSE IF o.terms = NoTerms THEN "no terms"
                         ELSE IF ~Covers(o.terms, o.lines) THEN "stale" ELSE keyAnswer)
    BY <1>4 DEF LockAnswer
  <2> QED BY <1>4, <2>1 DEF CallResult, Completed
<1> QED BY <1>1, <1>2, <1>3, <1>4

LEMMA DecideStep ==
  ASSUME SalesInv, StreamTypeOK', NEW s \in Session,
         PeekOrder(s) \/ CheckKey(s) \/ LockOrder(s)
  PROVE  SalesInv'
<1>1. UNCHANGED <<movements, inserted, order, goodsIssue, reversal, calls>>
  BY DEF PeekOrder, CheckKey, LockOrder, streamVars
<1>2. call[s].step \in {"peek", "key", "lock"} /\ inserted[s] = {}
  BY DEF PeekOrder, CheckKey, LockOrder, SalesInv, TypeOK, CallOK, Writing, InTransaction
<1>3. ASSUME NEW answer \in CallResult, Return(s, answer) PROVE SalesInv'
  BY <1>1, <1>2, <1>3, ReturnStep
<1>4. PeekAnswer(call[s]) \in CallResult \cup {"go on"}
  BY DEF PeekAnswer, CallResult
<1>5. /\ LockAnswer(call[s]) \in CallResult \cup {"go on"}
      /\ LockAnswer(call[s]) = "go on" =>
           /\ call[s].op = "complete" => order[call[s].order].status = "OPEN"
           /\ call[s].op # "complete" => order[call[s].order].status = "COMPLETED"
  <2>1. call[s].op = "complete" =>
          order[call[s].order].status \in {"NONE", "OPEN", "COMPLETED", "CANCELLED"}
    BY DEF SalesInv, TypeOK, CallOK, OrderRecord
  <2> QED BY <2>1, LockAnswerIs
<1>6. CASE PeekOrder(s)
  BY <1>1, <1>2, <1>3, <1>4, <1>6, GoToStep DEF PeekOrder, Decide
<1>7. CASE CheckKey(s)
  <2>1. "conflict" \in CallResult
    BY DEF CallResult
  <2> QED BY <1>1, <1>2, <1>3, <1>7, <2>1, GoToStep DEF CheckKey, Decide
<1>8. CASE LockOrder(s)
  <2>1. CASE LockAnswer(call[s]) # "go on"
    BY <1>3, <1>5, <1>8, <2>1 DEF LockOrder, Decide
  <2>2. CASE LockAnswer(call[s]) = "go on"
    <3>1. GoTo(s, "write") /\ OrderFree(call[s].order)
      BY <1>8, <2>2 DEF LockOrder, Decide
    <3>2. ASSUME call[s].op \in {"complete", "reverse"}
          PROVE  order[call[s].order].status =
                   (IF call[s].op = "complete" THEN "OPEN" ELSE "COMPLETED")
      BY <1>5, <2>2, <3>2
    <3>3. \A t \in Session \ {s} : Holding(t) => call[t].order # call[s].order
      BY <3>1 DEF OrderFree, KeepsOrder, Holding
    <3> QED BY <1>1, <1>2, <3>1, <3>2, <3>3, GoToStep
  <2> QED BY <2>1, <2>2
<1> QED BY <1>6, <1>7, <1>8

LEMMA InsertEffect ==
  ASSUME TypeOK, NEW s \in Session, NEW M, InsertMovements(s, M)
  PROVE  /\ inserted'[s] = M /\ M # {} /\ InTransaction(s)'
         /\ \A t \in Session \ {s} : inserted'[t] = inserted[t]
         /\ UNCHANGED movements
BY DEF InsertMovements, InTransaction, TypeOK, StreamTypeOK

LEMMA WriteStep ==
  ASSUME SalesInv, StreamTypeOK', NEW s \in Session, WriteDocument(s)
  PROVE  SalesInv'
<1>1. call[s].step = "write" /\ UNCHANGED <<order, goodsIssue, reversal, feed, calls>>
  BY DEF WriteDocument
<1>2. TypeOK /\ CallOK(s) /\ call[s] \in CallRecord /\ Active(s) /\ ~Writing(s)
  BY <1>1 DEF SalesInv, TypeOK, Active, Writing
<1>3. CASE Return(s, "error") /\ UNCHANGED streamVars
  <2>1. "error" \in CallResult
    BY DEF CallResult
  <2>2. inserted' = inserted /\ movements' = movements /\ inserted[s] = {}
    BY <1>2, <1>3 DEF streamVars, CallOK, InTransaction
  <2> QED BY <1>1, <1>3, <2>1, <2>2, ReturnStep
<1>4. ASSUME NEW M, InsertMovements(s, M), GoTo(s, "writing"),
             \A m \in M : m.id = call[s].n,
             call[s].op = "complete" =>
               \E quote : M = IssueRows(call[s], Plan(order[call[s].order].lines), quote),
             call[s].op # "complete" => \A m \in M : m.doc[1] # "issue"
      PROVE  SalesInv'
  <2> DEFINE c == [call[s] EXCEPT !.step = "writing"]
  <2>1. /\ c \in CallRecord /\ c.step = "writing" /\ c.op = call[s].op
        /\ c.order = call[s].order /\ c.n = call[s].n /\ c.pos = call[s].pos
    BY <1>2 DEF CallRecord
  <2>2. call' = [call EXCEPT ![s] = c] /\ call'[s] = c
    BY <1>4 DEF GoTo, SalesInv, TypeOK
  <2>3. /\ inserted'[s] = M /\ InTransaction(s)' /\ movements' = movements
        /\ \A t \in Session \ {s} : inserted'[t] = inserted[t]
    BY <1>2, <1>4, InsertEffect
  <2>4. \A lines, quote : IssueRows(c, Plan(lines), quote) = IssueRows(call[s], Plan(lines), quote)
    BY <2>1 DEF IssueRows
  <2> HIDE DEF c
  <2>5. CallOK(s)' /\ Active(s)'
    BY <1>1, <1>2, <2>1, <2>2, <2>3 DEF CallOK, Writing, Active
  <2>6. WritingOK(s)'
    <3>1. c.op = "complete" =>
            \E quote : M = IssueRows(c, Plan(order[c.order].lines), quote)
      BY <1>4, <2>1, <2>4
    <3>2. (\A m \in M : m.id = c.n) /\ (c.op # "complete" => \A m \in M : m.doc[1] # "issue")
      BY <1>4, <2>1
    <3> QED BY <1>1, <2>2, <2>3, <3>1, <3>2 DEF WritingOK
  <2>7. Holding(s)' => \A t \in Session \ {s} : Holding(t) => call[t].order # c.order
    BY <1>1, <2>1, <2>2 DEF Holding, SalesInv, CallsOK
  <2>8. calls \in 0..MaxCalls /\ calls' = calls
    BY <1>1 DEF SalesInv, TypeOK
  <2>9. calls' \in 0..MaxCalls /\ calls <= calls'
    BY <2>8, SalesAssumption
  <2>10. /\ c.n \in 1..calls'
         /\ \A m \in movements : m.id # c.n
         /\ \A t \in Session \ {s} : Active(t) => call[t].n # c.n
    BY <1>2, <2>1, <2>8 DEF SalesInv, IdsOK
  <2> QED BY <1>1, <2>1, <2>2, <2>3, <2>5, <2>6, <2>7, <2>9, <2>10, OwnCallStep
<1>5. \A quote : \A m \in IssueRows(call[s], Plan(order[call[s].order].lines), quote) :
        m.id = call[s].n
  BY DEF IssueRows, Row
<1>6. \A m \in ReturnRows(s) : m.id = call[s].n /\ m.doc[1] # "issue"
  <2>1. \A c, m, pos : /\ Returned(c, m, pos).id = c.n
                       /\ Returned(c, m, pos).doc = <<"reversal", c.order>>
    BY DEF Returned, Row
  <2> QED BY <2>1 DEF ReturnRows
<1>7. CASE \E quote : InsertMovements(s, IssueRows(call[s],
                                         Plan(order[call[s].order].lines), quote))
           /\ call[s].op = "complete" /\ GoTo(s, "writing")
  BY <1>4, <1>5, <1>7
<1>8. CASE InsertMovements(s, ReturnRows(s)) /\ call[s].op # "complete" /\ GoTo(s, "writing")
  BY <1>4, <1>6, <1>8
<1> QED BY <1>3, <1>7, <1>8 DEF WriteDocument

LEMMA SupplyStep ==
  ASSUME SalesInv, StreamTypeOK', NEW s \in Session, StartSupply(s)
  PROVE  SalesInv'
<1>1. PICK r \in Supply :
        /\ BeginCall(s, "supply", "writing", NoOrder, NoKey, NoPosition)
        /\ InsertMovements(s, {Row("IN", l.item, l.quantity, l.cost, "FINAL", r.pos,
                                   <<"receipt", calls + 1>>, calls + 1) : l \in r.lines})
        /\ UNCHANGED <<order, goodsIssue, reversal, feed>>
  BY DEF StartSupply
<1> DEFINE c == [op |-> "supply", step |-> "writing", result |-> "none", n |-> calls + 1,
                 order |-> NoOrder, key |-> NoKey, pos |-> NoPosition]
           M == {Row("IN", l.item, l.quantity, l.cost, "FINAL", r.pos,
                     <<"receipt", calls + 1>>, calls + 1) : l \in r.lines}
<1>2. calls \in 0..MaxCalls /\ calls' = calls + 1 /\ calls < MaxCalls
  BY <1>1 DEF BeginCall, SalesInv, TypeOK
<1>3. c \in CallRecord
  <2>1. calls + 1 \in 0..MaxCalls
    BY <1>2, SalesAssumption
  <2> QED BY <2>1 DEF CallRecord
<1>4. call' = [call EXCEPT ![s] = c] /\ call'[s] = c
  BY <1>1 DEF BeginCall, SalesInv, TypeOK
<1>5. \A m \in M : m.id = calls + 1 /\ m.doc[1] # "issue"
  BY DEF Row
<1>6. InsertMovements(s, M) /\ TypeOK
  BY <1>1 DEF SalesInv
<1>7. /\ c.step = "writing" /\ c.op = "supply" /\ c.n = calls + 1
  OBVIOUS
<1> HIDE DEF c, M
<1>8. /\ inserted'[s] = M /\ InTransaction(s)' /\ movements' = movements
      /\ \A t \in Session \ {s} : inserted'[t] = inserted[t]
  BY <1>6, InsertEffect
<1>9. CallOK(s)' /\ ~Holding(s)'
  BY <1>4, <1>7, <1>8 DEF CallOK, Writing, Holding
<1>10. WritingOK(s)'
  BY <1>4, <1>5, <1>7, <1>8 DEF WritingOK
<1>11. /\ c.n \in 1..calls'
       /\ \A m \in movements : m.id # c.n
       /\ \A t \in Session \ {s} : Active(t) => call[t].n # c.n
  BY <1>2, <1>7 DEF SalesInv, IdsOK
<1>12. calls' \in 0..MaxCalls /\ calls <= calls'
  BY <1>2, SalesAssumption
<1> QED BY <1>1, <1>3, <1>4, <1>8, <1>9, <1>10, <1>11, <1>12, OwnCallStep

LEMMA SalesSame ==
  ASSUME SalesInv, StreamTypeOK',
         UNCHANGED <<movements, inserted, order, goodsIssue, reversal, call, calls>>
  PROVE  SalesInv'
<1> USE DEF SalesInv
<1>1. TypeOK'
  BY DEF TypeOK, CallOK, Writing, InTransaction
<1>2. SoldExactlyOnce'
  BY DEF SoldExactlyOnce, SoldOnce, MovementsOf
<1>3. CallsOK'
  BY DEF CallsOK, WritingOK, Writing, Holding
<1>4. IdsOK'
  BY DEF IdsOK, Active
<1> QED BY <1>1, <1>2, <1>3, <1>4

LEMMA StatementStep ==
  ASSUME SalesInv, StreamTypeOK', NEW s \in Session, StreamStatement(s)
  PROVE  SalesInv'
<1>1. UNCHANGED <<movements, inserted, order, goodsIssue, reversal, call, calls>>
  BY DEF StreamStatement, lockValuationStream, rebuildInventoryBalance, salesVars
<1> QED BY <1>1, SalesSame

LEMMA EndEffect ==
  ASSUME TypeOK, NEW s \in Session, CommitMovements(s) \/ RollbackMovements(s)
  PROVE  /\ inserted'[s] = {} /\ ~InTransaction(s)'
         /\ \A t \in Session \ {s} : inserted'[t] = inserted[t]
         /\ CommitMovements(s) => movements' = movements \cup inserted[s]
         /\ RollbackMovements(s) => movements' = movements
BY DEF CommitMovements, RollbackMovements, EndTransaction, InTransaction, TypeOK, StreamTypeOK,
       ledgerVars

LEMMA RollbackCallStep ==
  ASSUME SalesInv, StreamTypeOK', NEW s \in Session, Rollback(s)
  PROVE  SalesInv'
<1>1. Return(s, "error") /\ UNCHANGED <<order, goodsIssue, reversal, feed, calls>>
  BY DEF Rollback
<1>2. "error" \in CallResult /\ TypeOK
  BY DEF CallResult, SalesInv
<1>3. CASE RollbackMovements(s)
  BY <1>1, <1>2, <1>3, EndEffect, ReturnStep
<1>4. CASE call[s].step = "write" /\ UNCHANGED streamVars
  <2>1. movements' = movements /\ inserted' = inserted /\ inserted[s] = {}
    BY <1>2, <1>4 DEF streamVars, TypeOK, CallOK, Writing, InTransaction
  <2> QED BY <1>1, <1>2, <2>1, ReturnStep
<1> QED BY <1>3, <1>4 DEF Rollback

-----------------------------------------------------------------------------
(* Commits *)

LEMMA CommitStepOf ==
  ASSUME SalesInv, StreamTypeOK', NEW s \in Session, NEW answer \in CallResult,
         Writing(s), CommitMovements(s), Return(s, answer), calls' = calls,
         order' \in [Order -> OrderRecord],
         \A o \in Order : order'[o] # order[o] => call[s].op = "complete" /\ o = call[s].order,
         DOMAIN goodsIssue' = {o \in Order : order'[o].status = "COMPLETED"},
         DOMAIN reversal' \subseteq DOMAIN goodsIssue',
         SoldExactlyOnce'
  PROVE  SalesInv'
<1> USE DEF SalesInv
<1> DEFINE c == Idle(answer)
<1>1. c \in CallRecord /\ c.step = "done" /\ c.op = "none"
  BY IdleCall
<1>2. call \in [Session -> CallRecord] /\ calls \in 0..MaxCalls
  BY DEF TypeOK
<1>3. /\ call' \in [Session -> CallRecord] /\ call'[s] = c
      /\ \A t \in Session \ {s} : call'[t] = call[t]
  BY <1>1, <1>2 DEF Return
<1> HIDE DEF c
<1>4. /\ inserted'[s] = {} /\ ~InTransaction(s)'
      /\ \A t \in Session \ {s} : inserted'[t] = inserted[t]
      /\ movements' = movements \cup inserted[s]
  BY EndEffect
<1>5. ~Writing(s)' /\ ~Holding(s)' /\ ~Active(s)' /\ CallOK(s)' /\ WritingOK(s)'
  BY <1>1, <1>3, <1>4 DEF Writing, Holding, Active, CallOK, WritingOK
<1>6. ASSUME NEW t \in Session \ {s}
      PROVE  /\ Writing(t)' <=> Writing(t)
             /\ InTransaction(t)' <=> InTransaction(t)
             /\ Holding(t)' <=> Holding(t)
             /\ Active(t)' <=> Active(t)
  BY <1>3, <1>4 DEF Writing, InTransaction, Holding, Active
<1>7. ASSUME NEW t \in Session \ {s}, Holding(t)
      PROVE  order'[call[t].order] = order[call[t].order]
  <2>1. call[t].order \in Order
    BY <1>7 DEF TypeOK, CallOK, Holding
  <2>2. call[s].op = "complete" => call[t].order # call[s].order
    BY <1>7 DEF CallsOK, Holding, Writing
  <2> QED BY <2>1, <2>2
<1>8. \A t \in Session \ {s} : CallOK(t)'
  <2> SUFFICES ASSUME NEW t \in Session \ {s} PROVE CallOK(t)'
    OBVIOUS
  <2>1. CallOK(t) /\ call'[t] = call[t]
    BY <1>3 DEF TypeOK
  <2>2. CASE Holding(t)
    BY <1>6, <1>7, <2>1, <2>2 DEF CallOK, Holding
  <2>3. CASE ~Holding(t)
    BY <1>6, <2>1, <2>3 DEF CallOK, Holding
  <2> QED BY <2>2, <2>3
<1>9. TypeOK'
  BY <1>2, <1>3, <1>5, <1>8 DEF TypeOK
<1>10. \A t \in Session \ {s} : WritingOK(t)'
  <2> SUFFICES ASSUME NEW t \in Session \ {s}, Writing(t) PROVE WritingOK(t)'
    BY <1>6 DEF WritingOK
  <2>1. WritingOK(t) /\ call'[t] = call[t] /\ inserted'[t] = inserted[t]
    BY <1>3, <1>4 DEF CallsOK
  <2>2. call[t].op = "complete" => order'[call[t].order] = order[call[t].order]
    BY <1>7 DEF Holding, Writing
  <2> QED BY <2>1, <2>2 DEF WritingOK
<1>11. CallsOK'
  <2>1. ASSUME NEW t \in Session, NEW u \in Session, t # u, Holding(t)', Holding(u)'
        PROVE  call'[t].order # call'[u].order
    BY <1>3, <1>5, <1>6, <2>1 DEF CallsOK
  <2> QED BY <1>5, <1>10, <2>1 DEF CallsOK
<1>12. IdsOK'
  <2>1. call[s].n \in 1..calls /\ Active(s) /\ \A m \in inserted[s] : m.id = call[s].n
    BY DEF IdsOK, Active, Writing, CallsOK, WritingOK
  <2>2. \A m \in movements' : m.id \in 1..calls'
    BY <1>4, <2>1 DEF IdsOK
  <2>3. \A t \in Session : Active(t)' =>
          call'[t].n \in 1..calls' /\ \A m \in movements' : m.id # call'[t].n
    <3> SUFFICES ASSUME NEW t \in Session \ {s}, Active(t)
                 PROVE  call'[t].n \in 1..calls' /\ \A m \in movements' : m.id # call'[t].n
      BY <1>5, <1>6
    <3>1. call'[t] = call[t] /\ call[t].n # call[s].n
      BY <1>3, <2>1 DEF IdsOK
    <3> QED BY <1>4, <2>1, <3>1 DEF IdsOK
  <2>4. \A t, u \in Session : t # u /\ Active(t)' /\ Active(u)' => call'[t].n # call'[u].n
    BY <1>3, <1>5, <1>6 DEF IdsOK
  <2> QED BY <2>2, <2>3, <2>4 DEF IdsOK
<1> QED BY <1>9, <1>11, <1>12

(* Supply and reversals commit rows of no issue. *)
LEMMA OtherRows ==
  ASSUME SalesInv, NEW s \in Session, Writing(s), CommitMovements(s),
         call[s].op # "complete", order' = order
  PROVE  SoldExactlyOnce'
<1> SUFFICES ASSUME NEW o \in Order PROVE SoldOnce(o)'
  BY DEF SoldExactlyOnce
<1>1. movements' = movements \cup inserted[s] /\ \A m \in inserted[s] : m.doc[1] # "issue"
  BY DEF CommitMovements, SalesInv, CallsOK, WritingOK
<1>2. \A m \in inserted[s] : m.doc # <<"issue", o>>
  BY <1>1
<1>3. MovementsOf("issue", o)' = MovementsOf("issue", o)
  BY <1>1, <1>2 DEF MovementsOf
<1> QED BY <1>3 DEF SalesInv, SoldExactlyOnce, SoldOnce

LEMMA SupplyCommitStep ==
  ASSUME SalesInv, StreamTypeOK', NEW s \in Session, SupplyCommit(s)
  PROVE  SalesInv'
<1>1. /\ call[s].op = "supply" /\ Writing(s) /\ CommitMovements(s) /\ Return(s, "received")
      /\ UNCHANGED <<order, goodsIssue, reversal, calls>>
  BY DEF SupplyCommit
<1>2. "received" \in CallResult /\ SoldExactlyOnce'
  BY <1>1, OtherRows DEF CallResult
<1>3. /\ order' \in [Order -> OrderRecord]
      /\ DOMAIN goodsIssue' = {o \in Order : order'[o].status = "COMPLETED"}
      /\ DOMAIN reversal' \subseteq DOMAIN goodsIssue'
  BY <1>1 DEF SalesInv, TypeOK
<1> QED BY <1>1, <1>2, <1>3, CommitStepOf

LEMMA WithDomain ==
  ASSUME NEW f, NEW x, NEW v
  PROVE  DOMAIN With(f, x, v) = DOMAIN f \cup {x}
BY DEF With

LEMMA ReverseCommitStep ==
  ASSUME SalesInv, StreamTypeOK', NEW s \in Session, ReverseCommit(s)
  PROVE  SalesInv'
<1>1. /\ call[s].op = "reverse" /\ Writing(s) /\ CommitMovements(s) /\ Return(s, "reversed")
      /\ UNCHANGED <<order, calls>>
      /\ DOMAIN goodsIssue' = DOMAIN goodsIssue
      /\ DOMAIN reversal' = DOMAIN reversal \cup {call[s].order}
  BY WithDomain DEF ReverseCommit
<1>2. "reversed" \in CallResult /\ SoldExactlyOnce'
  BY <1>1, OtherRows DEF CallResult
<1>3. call[s].order \in Order /\ order[call[s].order].status = "COMPLETED"
  BY <1>1 DEF SalesInv, TypeOK, CallOK, Writing
<1>4. /\ order' \in [Order -> OrderRecord]
      /\ DOMAIN goodsIssue' = {o \in Order : order'[o].status = "COMPLETED"}
      /\ DOMAIN reversal' \subseteq DOMAIN goodsIssue'
  BY <1>1, <1>3 DEF SalesInv, TypeOK
<1> QED BY <1>1, <1>2, <1>4, CommitStepOf

(* The rows of a completion are those of the lines its order still has. *)
LEMMA IssueIsPlan ==
  ASSUME NEW c, NEW plan, NEW quote
  PROVE  LET rows == IssueRows(c, plan, quote) IN
         /\ StreamsOf(rows) = StreamsOf(plan)
         /\ \A m \in rows : /\ m.quantity = QuantityOf(plan, m.item)
                            /\ m.pos = c.pos /\ m.direction = "OUT"
                            /\ m.doc = <<"issue", c.order>>
         /\ \A m, n \in rows : m.item = n.item => m = n
<1> DEFINE rows == IssueRows(c, plan, quote)
           row(i) == Row("OUT", i, QuantityOf(plan, i), quote[i].unitCost * QuantityOf(plan, i),
                         quote[i].certainty, c.pos, <<"issue", c.order>>, c.n)
<1>1. rows = {row(i) : i \in StreamsOf(plan)}
  BY DEF IssueRows
<1>2. \A i : /\ row(i).item = i /\ row(i).quantity = QuantityOf(plan, i)
             /\ row(i).pos = c.pos /\ row(i).direction = "OUT" /\ row(i).doc = <<"issue", c.order>>
  BY DEF Row
<1> HIDE DEF row, rows
<1>3. StreamsOf(rows) = StreamsOf(plan)
  <2>1. \A i \in StreamsOf(plan) : i \in {m.item : m \in rows}
    BY <1>1, <1>2
  <2>2. \A i \in {m.item : m \in rows} : i \in StreamsOf(plan)
    BY <1>1, <1>2
  <2>3. StreamsOf(rows) = {m.item : m \in rows}
    BY DEF StreamsOf
  <2> QED BY <2>1, <2>2, <2>3
<1>4. \A m \in rows : /\ m.quantity = QuantityOf(plan, m.item)
                      /\ m.pos = c.pos /\ m.direction = "OUT" /\ m.doc = <<"issue", c.order>>
                      /\ m = row(m.item)
  BY <1>1, <1>2
<1>5. \A m, n \in rows : m.item = n.item => m = n
  BY <1>4
<1> QED BY <1>3, <1>4, <1>5 DEF rows

LEMMA CompletedSold ==
  ASSUME SalesInv, NEW s \in Session, CompleteCommit(s)
  PROVE  SoldExactlyOnce'
<1> DEFINE c == call[s]
           plan == Plan(order[c.order].lines)
<1>1. /\ c.op = "complete" /\ Writing(s)
      /\ movements' = movements \cup inserted[s]
      /\ order' = [order EXCEPT ![c.order] =
           [@ EXCEPT !.status = "COMPLETED", !.key = c.key, !.pos = c.pos,
                     !.plan = plan, !.snapshot = order[c.order].terms]]
  BY DEF CompleteCommit, CommitMovements
<1>2. /\ c.order \in Order /\ order[c.order].status = "OPEN"
      /\ order \in [Order -> OrderRecord]
  BY <1>1 DEF SalesInv, TypeOK, CallOK, Writing
<1>3. PICK quote : inserted[s] = IssueRows(c, plan, quote)
  BY <1>1 DEF SalesInv, CallsOK, WritingOK
<1>4. /\ order'[c.order].status = "COMPLETED" /\ order'[c.order].plan = plan
      /\ order'[c.order].pos = c.pos
      /\ \A o \in Order \ {c.order} : order'[o] = order[o]
  BY <1>1, <1>2 DEF OrderRecord
<1> HIDE DEF plan, c
<1>5. PICK o \in Order : o = c.order
  BY <1>2
<1>6. SoldOnce(o)'
  <2>1. MovementsOf("issue", o) = {} /\ MovementsOf("issue", o)' = inserted[s]
    <3>1. MovementsOf("issue", o) = {}
      BY <1>2, <1>5 DEF SalesInv, SoldExactlyOnce, SoldOnce
    <3>2. \A m \in inserted[s] : m.doc = <<"issue", o>>
      BY <1>3, <1>5, IssueIsPlan
    <3> QED BY <1>1, <3>1, <3>2 DEF MovementsOf
  <2>2. /\ StreamsOf(inserted[s]) = StreamsOf(plan)
        /\ \A m \in inserted[s] : /\ m.quantity = QuantityOf(plan, m.item)
                                  /\ m.pos = c.pos /\ m.direction = "OUT"
        /\ \A m, n \in inserted[s] : m.item = n.item => m = n
    BY <1>3, IssueIsPlan
  <2>3. /\ order'[o].status = "COMPLETED" /\ order'[o].plan = plan /\ order'[o].pos = c.pos
    BY <1>4, <1>5
  <2> SUFFICES LET R == MovementsOf("issue", o)' IN
               /\ StreamsOf(R) = StreamsOf(order'[o].plan)
               /\ \A m \in R : /\ m.quantity = QuantityOf(order'[o].plan, m.item)
                               /\ m.pos = order'[o].pos /\ m.direction = "OUT"
               /\ \A m, n \in R : m.item = n.item => m = n
    BY <2>3 DEF SoldOnce
  <2> QED BY <2>1, <2>2, <2>3
<1>7. ASSUME NEW p \in Order \ {o} PROVE SoldOnce(p)'
  <2>1. \A m \in inserted[s] : m.doc # <<"issue", p>>
    BY <1>3, <1>5, IssueIsPlan
  <2>2. MovementsOf("issue", p)' = MovementsOf("issue", p)
    BY <1>1, <2>1 DEF MovementsOf
  <2>3. order'[p] = order[p] /\ SoldOnce(p)
    BY <1>4, <1>5 DEF SalesInv, SoldExactlyOnce
  <2> QED BY <2>2, <2>3 DEF SoldOnce
<1> QED BY <1>6, <1>7 DEF SoldExactlyOnce

LEMMA CompleteCommitStep ==
  ASSUME SalesInv, StreamTypeOK', NEW s \in Session, CompleteCommit(s)
  PROVE  SalesInv'
<1> DEFINE c == call[s]
           plan == Plan(order[c.order].lines)
           rec == [order[c.order] EXCEPT !.status = "COMPLETED", !.key = c.key, !.pos = c.pos,
                                         !.plan = plan, !.snapshot = order[c.order].terms]
<1>1. /\ c.op = "complete" /\ Writing(s) /\ CommitMovements(s) /\ Return(s, "completed")
      /\ calls' = calls /\ reversal' = reversal
      /\ order' = [order EXCEPT ![c.order] = rec]
      /\ DOMAIN goodsIssue' = DOMAIN goodsIssue \cup {c.order}
  BY WithDomain DEF CompleteCommit
<1>2. /\ c \in CallRecord /\ c.order \in Order /\ order[c.order] \in OrderRecord
      /\ order \in [Order -> OrderRecord]
  BY <1>1 DEF SalesInv, TypeOK, CallOK, Writing
<1>3. rec \in OrderRecord /\ rec.status = "COMPLETED"
  <2>1. c.key \in Key \cup {NoKey} /\ c.pos \in SalePosition \cup {NoPosition}
    BY <1>2 DEF CallRecord
  <2>2. plan \in {{}} \cup {Plan(lines) : lines \in Lines}
    BY <1>2 DEF OrderRecord
  <2>3. order[c.order].terms \in Terms \cup {NoTerms}
    BY <1>2 DEF OrderRecord
  <2> HIDE DEF c, plan
  <2> QED BY <1>2, <2>1, <2>2, <2>3 DEF OrderRecord
<1> HIDE DEF rec
<1>4. order' \in [Order -> OrderRecord]
  BY <1>1, <1>2, <1>3
<1>5. \A o \in Order : order'[o] # order[o] => c.op = "complete" /\ o = c.order
  BY <1>1, <1>2
<1>6. DOMAIN goodsIssue' = {o \in Order : order'[o].status = "COMPLETED"}
  BY <1>1, <1>2, <1>3 DEF SalesInv, TypeOK
<1>7. DOMAIN reversal' \subseteq DOMAIN goodsIssue'
  BY <1>1 DEF SalesInv, TypeOK
<1>8. "completed" \in CallResult /\ SoldExactlyOnce'
  BY CompletedSold DEF CallResult
<1> QED BY <1>1, <1>4, <1>5, <1>6, <1>7, <1>8, CommitStepOf

-----------------------------------------------------------------------------
(* Theorems *)

LEMMA SalesStepInv ==
  ASSUME StreamInv, SalesInv, StreamTypeOK', [Next]_vars
  PROVE  SalesInv'
<1>1. CASE UNCHANGED vars
  BY <1>1, SalesSame DEF vars, streamVars, salesVars
<1>2. ASSUME NEW o \in Order, Edit(o) PROVE SalesInv'
  BY <1>2, EditStep
<1>3. ASSUME NEW s \in Session, StartCall(s) PROVE SalesInv'
  BY <1>3, StartCallStep
<1>4. ASSUME NEW s \in Session, StartSupply(s) PROVE SalesInv'
  BY <1>4, SupplyStep
<1>5. ASSUME NEW s \in Session, PeekOrder(s) \/ CheckKey(s) \/ LockOrder(s) PROVE SalesInv'
  BY <1>5, DecideStep
<1>6. ASSUME NEW s \in Session, WriteDocument(s) PROVE SalesInv'
  BY <1>6, WriteStep
<1>7. ASSUME NEW s \in Session, StreamStatement(s) PROVE SalesInv'
  BY <1>7, StatementStep
<1>8. ASSUME NEW s \in Session, CompleteCommit(s) PROVE SalesInv'
  BY <1>8, CompleteCommitStep
<1>9. ASSUME NEW s \in Session, ReverseCommit(s) PROVE SalesInv'
  BY <1>9, ReverseCommitStep
<1>10. ASSUME NEW s \in Session, SupplyCommit(s) PROVE SalesInv'
  BY <1>10, SupplyCommitStep
<1>11. ASSUME NEW s \in Session, Rollback(s) PROVE SalesInv'
  BY <1>11, RollbackCallStep
<1> QED BY <1>1, <1>2, <1>3, <1>4, <1>5, <1>6, <1>7, <1>8, <1>9, <1>10, <1>11 DEF Next, CallStep

LEMMA SalesInductive == StreamInv /\ SalesInv /\ [Next]_vars => (StreamInv /\ SalesInv)'
<1> SUFFICES ASSUME StreamInv, SalesInv, [Next]_vars PROVE (StreamInv /\ SalesInv)'
  OBVIOUS
<1>1. StreamInv'
  BY NextIsStreamStepOrStutter, StreamStepInv, StreamStutter
<1>2. StreamTypeOK'
  BY <1>1 DEF StreamInv
<1> QED BY <1>1, <1>2, SalesStepInv

(* Orders, documents, calls and streams keep their types; there is a goods  *)
(* issue for exactly the completed orders, and a call that holds an order's *)
(* row still finds the status it decided on.                                *)
THEOREM SalesTypeCorrect == Spec => []TypeOK
<1>1. Init => StreamInv /\ SalesInv
  BY StreamInvInit, SalesInvInit DEF Init
<1>2. StreamInv /\ SalesInv => TypeOK
  BY DEF SalesInv
<1> QED BY <1>1, <1>2, SalesInductive, PTL DEF Spec

(* However many sessions complete, cancel, edit, reverse and fail at once,  *)
(* a completed order is written off once, an open or cancelled one never.   *)
THEOREM OrdersSoldOnce == Spec => []SoldExactlyOnce
<1>1. Init => StreamInv /\ SalesInv
  BY StreamInvInit, SalesInvInit DEF Init
<1>2. StreamInv /\ SalesInv => SoldExactlyOnce
  BY DEF SalesInv
<1> QED BY <1>1, <1>2, SalesInductive, PTL DEF Spec

(* The step that closed orders cannot take: no edit, completion or reversal *)
(* that is still on its way changes one, and no goods issue returns from    *)
(* REVERSED.                                                                *)
LEMMA ClosedStep ==
  ASSUME SalesInv, [Next]_vars
  PROVE  [ /\ \A o \in Order :
                order[o].status \in {"COMPLETED", "CANCELLED"} => order'[o] = order[o]
           /\ \A o \in DOMAIN goodsIssue :
                goodsIssue'[o] \in {goodsIssue[o],
                                    [goodsIssue[o] EXCEPT !.status = "REVERSED"]} ]_vars
<1> DEFINE Kept == \A o \in Order :
                     order[o].status \in {"COMPLETED", "CANCELLED"} => order'[o] = order[o]
           Issued == \A o \in DOMAIN goodsIssue :
                       goodsIssue'[o] \in {goodsIssue[o],
                                           [goodsIssue[o] EXCEPT !.status = "REVERSED"]}
<1>1. TypeOK /\ order \in [Order -> OrderRecord]
  BY DEF SalesInv, TypeOK
<1>2. ASSUME order' = order, goodsIssue' = goodsIssue PROVE Kept /\ Issued
  BY <1>2
<1>3. ASSUME NEW o \in Order, Edit(o) PROVE Kept /\ Issued
  <2>1. PICK rec \in OrderRecord : /\ order' = [order EXCEPT ![o] = rec]
                                   /\ order[o].status \in {"NONE", "OPEN"}
    BY <1>1, <1>3, EditEffect
  <2>2. Kept
    BY <1>1, <2>1
  <2> QED BY <1>3, <2>2 DEF Edit
<1>4. ASSUME NEW s \in Session, CompleteCommit(s) PROVE Kept /\ Issued
  <2>1. call[s].order \in Order /\ order[call[s].order].status = "OPEN"
    BY <1>1, <1>4 DEF TypeOK, CallOK, CompleteCommit, Writing
  <2>2. Kept
    BY <1>1, <1>4, <2>1 DEF CompleteCommit
  <2>3. call[s].order \notin DOMAIN goodsIssue
    BY <1>1, <2>1 DEF TypeOK
  <2>4. Issued
    BY <1>4, <2>3 DEF CompleteCommit, With
  <2> QED BY <2>2, <2>4
<1>5. ASSUME NEW s \in Session, ReverseCommit(s) PROVE Kept /\ Issued
  BY <1>5 DEF ReverseCommit
<1>6. ASSUME NEW s \in Session,
             \/ StartCall(s) \/ StartSupply(s) \/ PeekOrder(s) \/ CheckKey(s) \/ LockOrder(s)
             \/ WriteDocument(s) \/ StreamStatement(s) \/ SupplyCommit(s) \/ Rollback(s)
      PROVE  order' = order /\ goodsIssue' = goodsIssue
  BY <1>6 DEF StartCall, StartSupply, PeekOrder, CheckKey, LockOrder, WriteDocument,
              StreamStatement, SupplyCommit, Rollback, salesVars
<1>7. CASE UNCHANGED vars
  BY <1>7
<1> QED BY <1>2, <1>3, <1>4, <1>5, <1>6, <1>7 DEF Next, CallStep

(* No interleaving of edits, completions and reversals changes a completed  *)
(* or cancelled order.                                                      *)
THEOREM ClosedOrdersStay == Spec => ClosedOrdersAreFinal
<1>1. Init => StreamInv /\ SalesInv
  BY StreamInvInit, SalesInvInit DEF Init
<1>2. StreamInv /\ SalesInv /\ [Next]_vars =>
        [ /\ \A o \in Order :
               order[o].status \in {"COMPLETED", "CANCELLED"} => order'[o] = order[o]
          /\ \A o \in DOMAIN goodsIssue :
               goodsIssue'[o] \in {goodsIssue[o],
                                   [goodsIssue[o] EXCEPT !.status = "REVERSED"]} ]_vars
  BY ClosedStep
<1> QED BY <1>1, <1>2, SalesInductive, PTL DEF Spec, ClosedOrdersAreFinal

(* The rows a call has inserted carry its number, which is nobody else's.  *)
LEMMA SalesRowsAreFresh == SalesInv => RowsAreFresh
<1> SUFFICES ASSUME SalesInv PROVE RowsAreFresh
  OBVIOUS
<1>1. ASSUME NEW s \in Session, inserted[s] # {}
      PROVE  Active(s) /\ \A m \in inserted[s] : m.id = call[s].n
  <2>1. Writing(s) /\ WritingOK(s)
    BY <1>1 DEF SalesInv, TypeOK, CallOK, CallsOK, InTransaction
  <2> QED BY <2>1 DEF WritingOK, Active, Writing
<1>2. ASSUME NEW s \in Session PROVE inserted[s] \cap movements = {}
  BY <1>1 DEF SalesInv, IdsOK
<1>3. ASSUME NEW s \in Session, NEW t \in Session, s # t
      PROVE  inserted[s] \cap inserted[t] = {}
  BY <1>1, <1>3 DEF SalesInv, IdsOK
<1> QED BY <1>2, <1>3 DEF RowsAreFresh

(* Seen from inventory, completions, reversals and receipts are the        *)
(* one-step ledger.                                                        *)
THEOREM SalesImplementLedger == Spec => ImplementsLedger
<1>1. Init => StreamInv /\ SalesInv /\ LedgerInit
  BY StreamInvInit, SalesInvInit DEF Init, StreamInit
<1>2. StreamInv /\ SalesInv /\ [Next]_vars => [LedgerNext]_ledgerVars
  <2> SUFFICES ASSUME StreamInv, SalesInv, [Next]_vars
               PROVE  LedgerNext \/ UNCHANGED ledgerVars
    OBVIOUS
  <2>1. CASE UNCHANGED streamVars
    BY <2>1 DEF streamVars, ledgerVars
  <2>2. ASSUME NEW s \in Session, CommitMovements(s) PROVE LedgerNext
    BY <2>2, SalesRowsAreFresh, CommitPosts
  <2>3. ASSUME NEW s \in Session, StreamStep(s), ~CommitMovements(s)
        PROVE  UNCHANGED ledgerVars
    BY <2>3 DEF StreamStep, InsertMovements, RollbackMovements, lockValuationStream,
                rebuildInventoryBalance, ledgerVars
  <2> QED BY <2>1, <2>2, <2>3, NextIsStreamStepOrStutter
<1> QED BY <1>1, <1>2, SalesInductive, PTL DEF Spec, ImplementsLedger, LedgerSpec

-----------------------------------------------------------------------------
(* The documents of a sale: their inductive invariant, per order and per    *)
(* session, on top of SalesInv.                                             *)

Mirrored == {"OrderCompleted", "OrderCompletionReversed", "InventoryConsumed"}

FeedOf(o) == {f \in feed : f.order = o /\ f.type \in Mirrored}

\* What the feed says of o's sale and its reversal.
FactsOf(o) ==
  LET sale == [order |-> o, key |-> order[o].key, pos |-> order[o].pos] IN
  (IF order[o].status = "COMPLETED"
   THEN {OrderFact("OrderCompleted", o, order[o].key, order[o].pos)}
          \cup mirrorInventoryConsumed(sale, order[o].plan)
   ELSE {})
  \cup
  (IF o \in DOMAIN reversal
   THEN {OrderFact("OrderCompletionReversed", o, reversal[o].key, reversal[o].pos)} ELSE {})

ReturnsOf(o) ==
  { Returned([order |-> o, n |-> reversal[o].n], m, reversal[o].pos) :
    m \in MovementsOf("issue", o) }

\* Accepted terms are those of the lines the order has now.
OrderOK(o) ==
  /\ order[o].terms # NoTerms => order[o].terms.lines = order[o].lines
  /\ order[o].status = "COMPLETED" =>
       /\ order[o].lines # NewOrder.lines
       /\ order[o].snapshot # NoTerms
       /\ order[o].snapshot.lines = order[o].lines
       /\ order[o].plan = Plan(order[o].lines)
       /\ goodsIssue[o] =
            [n |-> goodsIssue[o].n, key |-> order[o].key, pos |-> order[o].pos,
             status |-> IF o \in DOMAIN reversal THEN "REVERSED" ELSE "POSTED"]
  /\ MovementsOf("reversal", o) = (IF o \in DOMAIN reversal THEN ReturnsOf(o) ELSE {})
  /\ FeedOf(o) = FactsOf(o)

\* What a call decided on under its order's lock, and the key it has inserted.
CallHolds(s) ==
  LET c == call[s] IN
  /\ Holding(s) /\ c.op = "complete" =>
       order[c.order].lines # NewOrder.lines /\ order[c.order].terms # NoTerms
  /\ Holding(s) /\ c.op = "reverse" => c.order \notin DOMAIN reversal
  /\ Writing(s) /\ c.op \in {"complete", "reverse"} => KeyHolders(c.op, c.key) = {}
  /\ Writing(s) /\ c.op = "reverse" => inserted[s] = ReturnRows(s)
  /\ c.op = "supply" =>
       Writing(s) /\ \A m \in inserted[s] : m.doc[1] = "receipt" /\ m.direction = "IN"

\* The unique indexes, the keys inserted and not yet committed included.
KeysApart ==
  /\ \A s, t \in Session :
       s # t /\ Writing(s) /\ Writing(t) /\ call[s].op \in {"complete", "reverse"}
         /\ call[t].op = call[s].op => call[t].key # call[s].key
  /\ \A o, p \in DOMAIN goodsIssue : goodsIssue[o].key = goodsIssue[p].key => o = p
  /\ \A o, p \in DOMAIN reversal : reversal[o].key = reversal[p].key => o = p

DocumentsInv ==
  /\ \A o \in Order : OrderOK(o)
  /\ \A s \in Session : CallHolds(s)
  /\ KeysApart
  /\ \A f \in feed : f.order \in Order


LEMMA DocumentsInvInit == Init => DocumentsInv
<1> SUFFICES ASSUME Init PROVE DocumentsInv
  OBVIOUS
<1>1. /\ movements = {} /\ feed = {} /\ DOMAIN reversal = {} /\ DOMAIN goodsIssue = {}
      /\ \A o \in Order : order[o] = NewOrder
      /\ \A s \in Session : call[s] = Idle("none")
  BY DEF Init, StreamInit, LedgerInit
<1>2. \A o \in Order : OrderOK(o)
  <2> SUFFICES ASSUME NEW o \in Order PROVE OrderOK(o)
    OBVIOUS
  <2>1. order[o].status = "NONE" /\ order[o].terms = NoTerms
    BY <1>1 DEF NewOrder
  <2>2. MovementsOf("reversal", o) = {} /\ FeedOf(o) = {} /\ FactsOf(o) = {}
    BY <1>1, <2>1 DEF MovementsOf, FeedOf, FactsOf
  <2> QED BY <1>1, <2>1, <2>2 DEF OrderOK
<1>3. \A s \in Session : CallHolds(s) /\ ~Writing(s)
  BY <1>1 DEF CallHolds, Holding, Writing, Idle
<1> QED BY <1>1, <1>2, <1>3 DEF DocumentsInv, KeysApart

-----------------------------------------------------------------------------
(* What a step leaves alone *)

(* An order keeps its account while its row, its documents, its movements   *)
(* and its facts stay.                                                      *)
LEMMA OrderKept ==
  ASSUME NEW o \in Order, OrderOK(o), order'[o] = order[o],
         order[o].status = "COMPLETED" => goodsIssue'[o] = goodsIssue[o],
         o \in DOMAIN reversal' <=> o \in DOMAIN reversal,
         o \in DOMAIN reversal => reversal'[o] = reversal[o],
         MovementsOf("issue", o)' = MovementsOf("issue", o),
         MovementsOf("reversal", o)' = MovementsOf("reversal", o),
         FeedOf(o)' = FeedOf(o)
  PROVE  OrderOK(o)'
<1>1. o \in DOMAIN reversal => ReturnsOf(o)' = ReturnsOf(o)
  BY DEF ReturnsOf
<1>2. FactsOf(o)' = FactsOf(o)
  BY DEF FactsOf
<1> QED BY <1>1, <1>2 DEF OrderOK

(* A call keeps what it holds while its order stays, and its key is free.   *)
LEMMA CallKept ==
  ASSUME NEW t \in Session, CallHolds(t), call'[t] = call[t], inserted'[t] = inserted[t],
         Holding(t) =>
           /\ order'[call[t].order] = order[call[t].order]
           /\ call[t].order \in DOMAIN reversal' => call[t].order \in DOMAIN reversal
           /\ \A m : m \in movements' /\ m.doc = <<"issue", call[t].order>> <=>
                     m \in movements /\ m.doc = <<"issue", call[t].order>>,
         Writing(t) /\ call[t].op \in {"complete", "reverse"} =>
           KeyHolders(call[t].op, call[t].key)' = {}
  PROVE  CallHolds(t)'
<1> DEFINE c == call[t]
<1>1. (Writing(t)' <=> Writing(t)) /\ (Holding(t)' <=> Holding(t))
  BY DEF Writing, Holding
<1>2. ASSUME Writing(t), c.op = "reverse" PROVE ReturnRows(t)' = ReturnRows(t)
  <2>1. MovementsOf("issue", c.order)' = MovementsOf("issue", c.order)
    BY <1>2 DEF MovementsOf, Holding, Writing
  <2> QED BY <2>1 DEF ReturnRows
<1> QED BY <1>1, <1>2 DEF CallHolds, Holding, Writing

(* What one session does to its own call and its uncommitted rows.          *)
LEMMA OwnStep ==
  ASSUME DocumentsInv, NEW s \in Session,
         UNCHANGED <<movements, order, goodsIssue, reversal, feed>>,
         \A t \in Session \ {s} : call'[t] = call[t] /\ inserted'[t] = inserted[t],
         CallHolds(s)',
         Writing(s)' /\ call'[s].op \in {"complete", "reverse"} =>
           \A t \in Session \ {s} :
             Writing(t) /\ call[t].op = call'[s].op => call[t].key # call'[s].key
  PROVE  DocumentsInv'
<1> USE DEF DocumentsInv
<1>1. ASSUME NEW o \in Order PROVE OrderOK(o)'
  <2>1. /\ MovementsOf("issue", o)' = MovementsOf("issue", o)
        /\ MovementsOf("reversal", o)' = MovementsOf("reversal", o)
        /\ FeedOf(o)' = FeedOf(o)
    BY DEF MovementsOf, FeedOf
  <2> QED BY <2>1, OrderKept
<1>2. ASSUME NEW t \in Session, t # s PROVE CallHolds(t)'
  <2>1. call'[t] = call[t] /\ inserted'[t] = inserted[t]
    BY <1>2
  <2>2. KeyHolders(call[t].op, call[t].key)' = KeyHolders(call[t].op, call[t].key)
    BY <2>1 DEF KeyHolders
  <2>3. Writing(t) /\ call[t].op \in {"complete", "reverse"} =>
           KeyHolders(call[t].op, call[t].key)' = {}
    BY <2>2 DEF CallHolds
  <2> QED BY <2>1, <2>3, CallKept
<1>3. KeysApart'
  <2>1. \A t \in Session \ {s} : Writing(t)' <=> Writing(t)
    BY DEF Writing
  <2> QED BY <2>1 DEF KeysApart
<1> QED BY <1>1, <1>2, <1>3


-----------------------------------------------------------------------------
(* Calls *)

(* A session that holds nothing has nothing to keep.                        *)
LEMMA FreeStep ==
  ASSUME DocumentsInv, NEW s \in Session,
         UNCHANGED <<movements, order, goodsIssue, reversal, feed>>,
         \A t \in Session \ {s} : call'[t] = call[t] /\ inserted'[t] = inserted[t],
         call'[s].step \notin {"write", "writing"}, call'[s].op # "supply"
  PROVE  DocumentsInv'
<1>1. ~Writing(s)' /\ ~Holding(s)' /\ CallHolds(s)'
  BY DEF Writing, Holding, CallHolds
<1> QED BY <1>1, OwnStep

LEMMA CallEnds ==
  ASSUME TypeOK, NEW s \in Session, NEW answer, Return(s, answer)
  PROVE  /\ call'[s].step = "done" /\ call'[s].op = "none" /\ call'[s].result = answer
         /\ \A t \in Session \ {s} : call'[t] = call[t]
BY DEF TypeOK, Return, Idle

LEMMA Gone ==
  ASSUME TypeOK, NEW s \in Session, NEW step, GoTo(s, step)
  PROVE  /\ call'[s] = [call[s] EXCEPT !.step = step]
         /\ call'[s].step = step /\ call'[s].op = call[s].op /\ call'[s].key = call[s].key
         /\ call'[s].order = call[s].order /\ call'[s].pos = call[s].pos
         /\ call'[s].n = call[s].n
         /\ \A t \in Session \ {s} : call'[t] = call[t]
<1>1. call \in [Session -> CallRecord] /\ call[s] \in CallRecord
  BY DEF TypeOK
<1>2. /\ call'[s] = [call[s] EXCEPT !.step = step]
      /\ \A t \in Session \ {s} : call'[t] = call[t]
  BY <1>1 DEF GoTo
<1> QED BY <1>1, <1>2 DEF CallRecord

LEMMA DecideKeeps ==
  ASSUME DocumentsInv, TypeOK, NEW s \in Session,
         PeekOrder(s) \/ CheckKey(s) \/ LockOrder(s)
  PROVE  DocumentsInv'
<1>1. UNCHANGED <<movements, inserted, order, goodsIssue, reversal, feed>>
  BY DEF PeekOrder, CheckKey, LockOrder, streamVars
<1>2. ASSUME NEW answer, Return(s, answer) PROVE DocumentsInv'
  BY <1>1, <1>2, CallEnds, FreeStep
<1>0. ~Writing(s) /\ call[s].op # "supply"
  <2>1. ~Writing(s)
    BY DEF PeekOrder, CheckKey, LockOrder, Writing
  <2> QED BY <2>1 DEF DocumentsInv, CallHolds
<1>3. ASSUME NEW step \in {"key", "lock"}, GoTo(s, step) PROVE DocumentsInv'
  BY <1>0, <1>1, <1>3, Gone, FreeStep
<1>4. CASE PeekOrder(s) \/ CheckKey(s)
  BY <1>2, <1>3, <1>4 DEF PeekOrder, CheckKey, Decide
<1>5. CASE LockOrder(s)
  <2>1. CASE LockAnswer(call[s]) # "go on"
    BY <1>2, <1>5, <2>1 DEF LockOrder, Decide
  <2>2. CASE LockAnswer(call[s]) = "go on"
    <3>1. GoTo(s, "write")
      BY <1>5, <2>2 DEF LockOrder, Decide
    <3>2. call[s].op = "complete" =>
            order[call[s].order].status \in {"NONE", "OPEN", "COMPLETED", "CANCELLED"}
      BY DEF TypeOK, CallOK, OrderRecord
    <3>3. /\ call[s].op = "complete" => /\ order[call[s].order].lines # NewOrder.lines
                                       /\ order[call[s].order].terms # NoTerms
          /\ call[s].op # "complete" => call[s].order \notin DOMAIN reversal
      BY <2>2, <3>2, LockAnswerIs
    <3>5. /\ call'[s].step = "write" /\ call'[s].op = call[s].op
          /\ call'[s].order = call[s].order
      BY <3>1, Gone
    <3>6. PICK o : o = call[s].order
      OBVIOUS
    <3>7. /\ call[s].op = "complete" => /\ order'[o].lines # NewOrder.lines
                                        /\ order'[o].terms # NoTerms
          /\ call[s].op # "complete" => o \notin DOMAIN reversal'
      BY <1>1, <3>3, <3>6
    <3>8. ~Writing(s)'
      BY <3>5 DEF Writing
    <3>4. ~Writing(s)' /\ CallHolds(s)'
      BY <1>0, <3>5, <3>6, <3>7, <3>8 DEF CallHolds
    <3> QED BY <1>1, <3>1, <3>4, Gone, OwnStep
  <2> QED BY <2>1, <2>2
<1> QED BY <1>4, <1>5

LEMMA WriteKeeps ==
  ASSUME DocumentsInv, TypeOK, NEW s \in Session, WriteDocument(s)
  PROVE  DocumentsInv'
<1>1. call[s].step = "write" /\ UNCHANGED <<order, goodsIssue, reversal, feed>>
  BY DEF WriteDocument
<1>2. ASSUME Return(s, "error"), UNCHANGED streamVars PROVE DocumentsInv'
  BY <1>1, <1>2, CallEnds, FreeStep DEF streamVars
<1>3. ASSUME GoTo(s, "writing"), KeyFree(call[s].op, call[s].key),
             KeyHolders(call[s].op, call[s].key) = {},
             NEW M, InsertMovements(s, M),
             call[s].op # "complete" => M = ReturnRows(s)
      PROVE  DocumentsInv'
  <2>1. /\ inserted'[s] = M /\ movements' = movements
        /\ \A t \in Session \ {s} : inserted'[t] = inserted[t]
    BY <1>3, InsertEffect
  <2>2. /\ call'[s].step = "writing" /\ call'[s].op = call[s].op /\ call'[s].key = call[s].key
        /\ call'[s].order = call[s].order /\ call'[s].pos = call[s].pos
        /\ call'[s].n = call[s].n
        /\ \A t \in Session \ {s} : call'[t] = call[t]
    BY <1>3, Gone
  <2>3. call[s].op # "supply" /\ call[s].op \in {"none", "complete", "reverse", "supply"}
    <3>1. call[s].op # "supply"
      BY <1>1 DEF DocumentsInv, CallHolds, Writing
    <3> QED BY <3>1 DEF TypeOK, CallRecord
  <2>4. KeyHolders(call[s].op, call[s].key)' = {}
    BY <1>1, <1>3, <2>2 DEF KeyHolders
  <2>5. ReturnRows(s)' = ReturnRows(s)
    BY <2>1, <2>2 DEF ReturnRows, Returned, MovementsOf
  <2>6. CallHolds(s)
    BY DEF DocumentsInv
  <2>7. CallHolds(s)'
    <3>1. Holding(s)' <=> Holding(s)
      BY <1>1, <2>2 DEF Holding
    <3> QED BY <1>1, <1>3, <2>1, <2>2, <2>3, <2>4, <2>5, <2>6, <3>1
            DEF CallHolds
  <2>8. \A t \in Session \ {s} :
          Writing(t) /\ call[t].op = call'[s].op => call[t].key # call'[s].key
    BY <1>3, <2>2 DEF KeyFree, KeepsKey
  <2> QED BY <1>1, <2>1, <2>2, <2>7, <2>8, OwnStep
<1> QED BY <1>2, <1>3 DEF WriteDocument

LEMMA StartKeeps ==
  ASSUME DocumentsInv, TypeOK, NEW s \in Session, StartCall(s)
  PROVE  DocumentsInv'
<1>1. UNCHANGED <<movements, inserted, order, goodsIssue, reversal, feed>>
  BY DEF StartCall, streamVars
<1>2. PICK op \in {"complete", "reverse"}, o \in Order, k \in Key, p \in SalePosition :
        BeginCall(s, op, "peek", o, k, p)
  BY DEF StartCall
<1>3. /\ call'[s].step = "peek" /\ call'[s].op = op
      /\ \A t \in Session \ {s} : call'[t] = call[t]
  BY <1>2 DEF BeginCall, TypeOK
<1> QED BY <1>1, <1>3, FreeStep

LEMMA SupplyKeeps ==
  ASSUME DocumentsInv, TypeOK, NEW s \in Session, StartSupply(s)
  PROVE  DocumentsInv'
<1>1. PICK r \in Supply :
        /\ BeginCall(s, "supply", "writing", NoOrder, NoKey, NoPosition)
        /\ InsertMovements(s, {Row("IN", l.item, l.quantity, l.cost, "FINAL", r.pos,
                                   <<"receipt", calls + 1>>, calls + 1) : l \in r.lines})
        /\ UNCHANGED <<order, goodsIssue, reversal, feed>>
  BY DEF StartSupply
<1>2. PICK M : /\ InsertMovements(s, M)
               /\ \A m \in M : m.doc[1] = "receipt" /\ m.direction = "IN"
  BY <1>1 DEF Row
<1>3. /\ inserted'[s] = M /\ movements' = movements
      /\ \A t \in Session \ {s} : inserted'[t] = inserted[t]
  BY <1>2, InsertEffect
<1>4. /\ call'[s].step = "writing" /\ call'[s].op = "supply"
      /\ \A t \in Session \ {s} : call'[t] = call[t]
  BY <1>1 DEF BeginCall, TypeOK
<1>5. CallHolds(s)'
  BY <1>2, <1>3, <1>4 DEF CallHolds, Holding, Writing
<1> QED BY <1>1, <1>3, <1>4, <1>5, OwnStep

LEMMA RollbackKeeps ==
  ASSUME DocumentsInv, TypeOK, NEW s \in Session, Rollback(s)
  PROVE  DocumentsInv'
<1>1. Return(s, "error") /\ UNCHANGED <<order, goodsIssue, reversal, feed>>
  BY DEF Rollback
<1>2. /\ movements' = movements
      /\ \A t \in Session \ {s} : inserted'[t] = inserted[t]
  BY EndEffect DEF Rollback, streamVars
<1> QED BY <1>1, <1>2, CallEnds, FreeStep

LEMMA DocumentsSame ==
  ASSUME DocumentsInv,
         UNCHANGED <<movements, inserted, order, goodsIssue, reversal, feed, call>>
  PROVE  DocumentsInv'
<1>1. ASSUME NEW o \in Order PROVE OrderOK(o)'
  <2>1. /\ MovementsOf("issue", o)' = MovementsOf("issue", o)
        /\ MovementsOf("reversal", o)' = MovementsOf("reversal", o)
        /\ FeedOf(o)' = FeedOf(o)
    BY DEF MovementsOf, FeedOf
  <2> QED BY <2>1, OrderKept DEF DocumentsInv
<1>2. ASSUME NEW s \in Session PROVE CallHolds(s)'
  BY DEF DocumentsInv, CallHolds, Writing, Holding, KeyHolders, ReturnRows, MovementsOf
<1>3. KeysApart'
  BY DEF DocumentsInv, KeysApart, Writing
<1> QED BY <1>1, <1>2, <1>3 DEF DocumentsInv

LEMMA StatementKeeps ==
  ASSUME DocumentsInv, NEW s \in Session, StreamStatement(s)
  PROVE  DocumentsInv'
<1>1. UNCHANGED <<movements, inserted, order, goodsIssue, reversal, feed, call>>
  BY DEF StreamStatement, lockValuationStream, rebuildInventoryBalance, salesVars
<1> QED BY <1>1, DocumentsSame

-----------------------------------------------------------------------------
(* Edits *)

(* Whatever an edit does to an order, the terms it leaves are those of the  *)
(* lines it leaves, and its facts are not the feed's account of a sale.     *)
LEMMA EditDocuments ==
  ASSUME TypeOK, NEW o \in Order, OrderOK(o), Edit(o)
  PROVE  /\ order'[o].terms # NoTerms => order'[o].terms.lines = order'[o].lines
         /\ feed \subseteq feed'
         /\ \A f \in feed' \ feed : f.order = o /\ f.type \notin Mirrored
<1> DEFINE TermsKept == order'[o].terms # NoTerms => order'[o].terms.lines = order'[o].lines
           Told == /\ feed \subseteq feed'
                   /\ \A f \in feed' \ feed : f.order = o /\ f.type \notin Mirrored
<1>1. PICK rec : rec = order[o]
  OBVIOUS
<1>2. /\ rec \in OrderRecord /\ order \in [Order -> OrderRecord]
      /\ rec.terms # NoTerms => rec.terms.lines = rec.lines
  BY <1>1 DEF TypeOK, OrderOK
<1>3. ASSUME feed' = feed PROVE Told
  BY <1>3
<1>4. ASSUME NEW f, feed' = feed \cup {f}, f.order = o, f.type \notin Mirrored PROVE Told
  BY <1>4
<1>5. CASE OpenOrder(o)
  <2>1. TermsKept
    BY <1>1, <1>2, <1>5 DEF OpenOrder, OrderRecord
  <2> QED BY <1>4, <1>5, <2>1 DEF OpenOrder, Mirrored
<1>6. CASE CancelOrder(o)
  <2>1. TermsKept
    BY <1>1, <1>2, <1>6 DEF CancelOrder, OrderRecord
  <2> QED BY <1>4, <1>6, <2>1 DEF CancelOrder, Mirrored
<1>7. ASSUME NEW lines, SetLines(o, lines) PROVE TermsKept
  BY <1>1, <1>2, <1>7 DEF SetLines, OrderRecord
<1>8. ASSUME NEW number,
             RemoveLine(o, number) \/ \E dish, q : UpdateLine(o, number, dish, q)
      PROVE  TermsKept /\ Told
  BY <1>3, <1>7, <1>8 DEF RemoveLine, UpdateLine
<1>9. ASSUME NEW k, NEW price, SetTerms(o, k, price) PROVE TermsKept /\ Told
  <2>1. TermsKept
    BY <1>1, <1>2, <1>9 DEF SetTerms, OrderRecord
  <2> QED BY <1>3, <1>9, <2>1 DEF SetTerms
<1>10. ASSUME NEW dish, NEW q, AddLine(o, dish, q) PROVE TermsKept /\ Told
  <2>1. PICK id, lines : order' = [order EXCEPT ![o] =
                           [@ EXCEPT !.drawn = id, !.terms = NoTerms, !.lines = lines]]
    BY <1>10 DEF AddLine
  <2>2. TermsKept
    BY <1>1, <1>2, <2>1 DEF OrderRecord
  <2>3. Told
    BY <1>4, <1>10 DEF AddLine, Mirrored
  <2> QED BY <2>2, <2>3
<1> HIDE DEF TermsKept, Told
<1>11. \/ OpenOrder(o) \/ CancelOrder(o)
       \/ \E k, price : SetTerms(o, k, price)
       \/ \E dish, q : AddLine(o, dish, q)
       \/ \E number : RemoveLine(o, number) \/ \E dish, q : UpdateLine(o, number, dish, q)
  BY Zenon DEF Edit
<1>12. CASE \E k, price : SetTerms(o, k, price)
  BY <1>9, <1>12 DEF TermsKept, Told
<1>13. CASE \E dish, q : AddLine(o, dish, q)
  BY <1>10, <1>13 DEF TermsKept, Told
<1>14. CASE \E number : RemoveLine(o, number) \/ \E dish, q : UpdateLine(o, number, dish, q)
  BY <1>8, <1>14 DEF TermsKept, Told
<1> QED BY <1>5, <1>6, <1>11, <1>12, <1>13, <1>14

LEMMA EditKeeps ==
  ASSUME DocumentsInv, TypeOK, NEW o \in Order, Edit(o)
  PROVE  DocumentsInv'
<1>1. UNCHANGED <<movements, inserted, goodsIssue, reversal, call>>
  BY DEF Edit, streamVars
<1>2. /\ order[o].status \in {"NONE", "OPEN"} /\ order'[o].status \in {"OPEN", "CANCELLED"}
      /\ \A p \in Order \ {o} : order'[p] = order[p]
      /\ \A s \in Session : Holding(s) => call[s].order # o
  <2>1. PICK rec \in OrderRecord :
           /\ order' = [order EXCEPT ![o] = rec]
           /\ order[o].status \in {"NONE", "OPEN"} /\ rec.status \in {"OPEN", "CANCELLED"}
           /\ \A s \in Session : Holding(s) => call[s].order # o
    BY EditEffect
  <2> QED BY <2>1 DEF TypeOK
<1>3. /\ order'[o].terms # NoTerms => order'[o].terms.lines = order'[o].lines
      /\ feed \subseteq feed'
      /\ \A f \in feed' \ feed : f.order = o /\ f.type \notin Mirrored
  BY EditDocuments DEF DocumentsInv
<1>4. \A p \in Order : /\ FeedOf(p)' = FeedOf(p)
                       /\ MovementsOf("issue", p)' = MovementsOf("issue", p)
                       /\ MovementsOf("reversal", p)' = MovementsOf("reversal", p)
  <2> SUFFICES ASSUME NEW p \in Order PROVE FeedOf(p)' = FeedOf(p)
    BY <1>1 DEF MovementsOf
  <2>1. FeedOf(p)' \subseteq FeedOf(p) /\ FeedOf(p) \subseteq FeedOf(p)'
    BY <1>3 DEF FeedOf
  <2> QED BY <2>1
<1>5. ASSUME NEW p \in Order PROVE OrderOK(p)'
  <2>1. CASE p # o
    <3>1. order'[p] = order[p] /\ OrderOK(p)
      BY <1>2, <2>1 DEF DocumentsInv
    <3> QED BY <1>1, <1>4, <3>1, OrderKept
  <2>2. CASE p = o
    <3>1. /\ OrderOK(o) /\ FeedOf(o)' = FeedOf(o)
          /\ MovementsOf("reversal", o)' = MovementsOf("reversal", o)
      BY <1>4 DEF DocumentsInv
    <3>2. o \notin DOMAIN reversal
      BY <1>2 DEF TypeOK
    <3>3. FactsOf(o) = {} /\ FactsOf(o)' = {}
      BY <1>1, <1>2, <3>2 DEF FactsOf
    <3> QED BY <1>1, <1>2, <1>3, <2>2, <3>1, <3>2, <3>3 DEF OrderOK
  <2> QED BY <2>1, <2>2
<1>6. ASSUME NEW s \in Session PROVE CallHolds(s)'
  <2>1. Holding(s) => order'[call[s].order] = order[call[s].order]
    <3> SUFFICES ASSUME Holding(s) PROVE order'[call[s].order] = order[call[s].order]
      OBVIOUS
    <3>1. call[s].order \in Order \ {o}
      BY <1>2 DEF Holding, TypeOK, CallOK
    <3> QED BY <1>2, <3>1
  <2>2. KeyHolders(call[s].op, call[s].key)' = KeyHolders(call[s].op, call[s].key)
    BY <1>1 DEF KeyHolders
  <2>3. CallHolds(s)
    BY DEF DocumentsInv
  <2>4. Writing(s) /\ call[s].op \in {"complete", "reverse"} =>
           KeyHolders(call[s].op, call[s].key)' = {}
    BY <2>2, <2>3 DEF CallHolds
  <2> QED BY <1>1, <2>1, <2>3, <2>4, CallKept
<1>7. KeysApart'
  BY <1>1 DEF DocumentsInv, KeysApart, Writing
<1>8. \A f \in feed' : f.order \in Order
  BY <1>3 DEF DocumentsInv
<1> QED BY <1>5, <1>6, <1>7, <1>8 DEF DocumentsInv

-----------------------------------------------------------------------------
(* Commits *)

(* An order keeps its account when the rows and the facts committed are not *)
(* its own.                                                                 *)
LEMMA OrderUntouched ==
  ASSUME NEW o \in Order, OrderOK(o), NEW M, movements' = movements \cup M,
         \A m \in M : m.doc # <<"issue", o>> /\ m.doc # <<"reversal", o>>,
         order'[o] = order[o],
         order[o].status = "COMPLETED" => goodsIssue'[o] = goodsIssue[o],
         o \in DOMAIN reversal' <=> o \in DOMAIN reversal,
         o \in DOMAIN reversal => reversal'[o] = reversal[o],
         feed \subseteq feed', \A f \in feed' \ feed : f.order # o
  PROVE  OrderOK(o)'
<1>1. /\ MovementsOf("issue", o)' = MovementsOf("issue", o)
      /\ MovementsOf("reversal", o)' = MovementsOf("reversal", o)
  BY DEF MovementsOf
<1>2. FeedOf(o)' = FeedOf(o)
  <2>1. FeedOf(o)' \subseteq FeedOf(o) /\ FeedOf(o) \subseteq FeedOf(o)'
    BY DEF FeedOf
  <2> QED BY <2>1
<1> QED BY <1>1, <1>2, OrderKept

(* What a commit does to the calls: its own is over, the others hold on.    *)
LEMMA CommitCalls ==
  ASSUME DocumentsInv, SalesInv, NEW s \in Session, Writing(s), CommitMovements(s),
         NEW answer, Return(s, answer),
         \A o \in Order : o # call[s].order =>
           /\ order'[o] = order[o]
           /\ o \in DOMAIN reversal' => o \in DOMAIN reversal,
         call[s].op = "supply" => order' = order /\ reversal' = reversal,
         \A m \in inserted[s] : \A o \in Order :
           m.doc = <<"issue", o>> => call[s].op # "supply" /\ o = call[s].order,
         \A t \in Session \ {s} : Writing(t) /\ call[t].op \in {"complete", "reverse"} =>
           KeyHolders(call[t].op, call[t].key)' = {}
  PROVE  /\ \A t \in Session : CallHolds(t)'
         /\ ~Writing(s)'
         /\ \A t \in Session \ {s} : call'[t] = call[t] /\ (Writing(t)' <=> Writing(t))
<1> USE DEF SalesInv
<1>1. /\ inserted'[s] = {} /\ movements' = movements \cup inserted[s]
      /\ \A t \in Session \ {s} : inserted'[t] = inserted[t]
  BY EndEffect
<1>2. /\ call'[s].step = "done" /\ call'[s].op = "none"
      /\ \A t \in Session \ {s} : call'[t] = call[t]
  BY CallEnds
<1>3. ~Writing(s)' /\ CallHolds(s)'
  BY <1>2 DEF Writing, Holding, CallHolds
<1>4. ASSUME NEW t \in Session, t # s PROVE CallHolds(t)'
  <2>1. /\ CallHolds(t) /\ call'[t] = call[t] /\ inserted'[t] = inserted[t]
        /\ (Writing(t) /\ call[t].op \in {"complete", "reverse"} =>
              KeyHolders(call[t].op, call[t].key)' = {})
    BY <1>1, <1>2, <1>4 DEF DocumentsInv
  <2>2. ASSUME Holding(t)
        PROVE  /\ order'[call[t].order] = order[call[t].order]
               /\ call[t].order \in DOMAIN reversal' => call[t].order \in DOMAIN reversal
               /\ \A m : m \in movements' /\ m.doc = <<"issue", call[t].order>> <=>
                         m \in movements /\ m.doc = <<"issue", call[t].order>>
    <3>1. PICK o \in Order : o = call[t].order
      BY <2>2 DEF Holding, TypeOK, CallOK
    <3>2. call[s].op # "supply" => o # call[s].order
      <4>1. call[s].op \in {"supply", "complete", "reverse"}
        BY DEF TypeOK, CallRecord, CallOK, Writing
      <4> QED BY <1>4, <2>2, <3>1, <4>1 DEF CallsOK, Holding, Writing
    <3>3. \A m \in inserted[s] : m.doc # <<"issue", o>>
      BY <3>2
    <3>4. order'[o] = order[o] /\ (o \in DOMAIN reversal' => o \in DOMAIN reversal)
      BY <3>2
    <3> QED BY <1>1, <3>1, <3>3, <3>4
  <2> QED BY <2>1, <2>2, CallKept
<1> QED BY <1>2, <1>3, <1>4 DEF Writing

LEMMA SupplyCommitKeeps ==
  ASSUME DocumentsInv, SalesInv, NEW s \in Session, SupplyCommit(s)
  PROVE  DocumentsInv'
<1>1. /\ call[s].op = "supply" /\ Writing(s) /\ CommitMovements(s) /\ Return(s, "received")
      /\ UNCHANGED <<order, goodsIssue, reversal, feed>>
      /\ movements' = movements \cup inserted[s]
  BY DEF SupplyCommit, CommitMovements
<1>2. \A m \in inserted[s] : m.doc[1] = "receipt"
  BY <1>1 DEF DocumentsInv, CallHolds
<1>3. \A m \in inserted[s] : \A o : m.doc # <<"issue", o>> /\ m.doc # <<"reversal", o>>
  BY <1>2
<1>4. ASSUME NEW o \in Order PROVE OrderOK(o)'
  BY <1>1, <1>3, OrderUntouched DEF DocumentsInv
<1>5. \A t \in Session \ {s} : Writing(t) /\ call[t].op \in {"complete", "reverse"} =>
        KeyHolders(call[t].op, call[t].key)' = {}
  <2> SUFFICES ASSUME NEW t \in Session \ {s}, Writing(t), call[t].op \in {"complete", "reverse"}
               PROVE  KeyHolders(call[t].op, call[t].key)' = {}
    OBVIOUS
  <2>1. KeyHolders(call[t].op, call[t].key) = {}
    BY DEF DocumentsInv, CallHolds
  <2>2. call'[t] = call[t]
    BY <1>1, CallEnds DEF SalesInv
  <2> QED BY <1>1, <2>1, <2>2 DEF KeyHolders
<1>6. /\ \A t \in Session : CallHolds(t)'
      /\ ~Writing(s)'
      /\ \A t \in Session \ {s} : call'[t] = call[t] /\ (Writing(t)' <=> Writing(t))
  BY <1>1, <1>3, <1>5, CommitCalls
<1>7. KeysApart'
  BY <1>1, <1>6 DEF DocumentsInv, KeysApart
<1> QED BY <1>1, <1>4, <1>6, <1>7 DEF DocumentsInv

(* A completion's document, its lines' terms, its rows and its facts are    *)
(* those of its order.                                                      *)
LEMMA CompleteAccount ==
  ASSUME DocumentsInv, SalesInv, NEW s \in Session, CompleteCommit(s),
         NEW o \in Order, o = call[s].order
  PROVE  OrderOK(o)'
<1> USE DEF SalesInv
<1>1. PICK c : c = call[s]
  OBVIOUS
<1>2. PICK rec : rec = order[o]
  OBVIOUS
<1>3. /\ c.op = "complete" /\ Writing(s) /\ c.order = o
      /\ movements' = movements \cup inserted[s] /\ reversal' = reversal
      /\ goodsIssue' = With(goodsIssue, o,
                            [n |-> c.n, key |-> c.key, pos |-> c.pos, status |-> "POSTED"])
      /\ feed' = feed \cup {OrderFact("OrderCompleted", o, c.key, c.pos)}
                      \cup mirrorInventoryConsumed(c, Plan(rec.lines))
  BY <1>1, <1>2 DEF CompleteCommit, CommitMovements
<1>4. order' = [order EXCEPT ![o] =
        [rec EXCEPT !.status = "COMPLETED", !.key = c.key, !.pos = c.pos,
                    !.plan = Plan(rec.lines), !.snapshot = rec.terms]]
  BY <1>1, <1>2 DEF CompleteCommit
<1>5. /\ rec.status = "OPEN" /\ rec \in OrderRecord /\ order \in [Order -> OrderRecord]
      /\ o \notin DOMAIN reversal
  BY <1>1, <1>2, <1>3 DEF TypeOK, CallOK, Writing
<1>6. /\ rec.lines # NewOrder.lines /\ rec.terms # NoTerms /\ rec.terms.lines = rec.lines
      /\ OrderOK(o)
  <2>1. rec.lines # NewOrder.lines /\ rec.terms # NoTerms
    BY <1>1, <1>2, <1>3 DEF DocumentsInv, CallHolds, Holding, Writing
  <2> QED BY <1>2, <2>1 DEF DocumentsInv, OrderOK
<1>7. /\ order'[o].status = "COMPLETED" /\ order'[o].key = c.key /\ order'[o].pos = c.pos
      /\ order'[o].plan = Plan(rec.lines) /\ order'[o].snapshot = rec.terms
      /\ order'[o].lines = rec.lines /\ order'[o].terms = rec.terms
  BY <1>4, <1>5 DEF OrderRecord
<1>8. goodsIssue'[o] = [n |-> c.n, key |-> c.key, pos |-> c.pos, status |-> "POSTED"]
  BY <1>3 DEF With
<1>9. MovementsOf("reversal", o)' = {}
  <2>1. MovementsOf("reversal", o) = {}
    BY <1>5, <1>6 DEF OrderOK
  <2>2. \A m \in inserted[s] : m.doc # <<"reversal", o>>
    <3>1. PICK quote : inserted[s] = IssueRows(c, Plan(order[c.order].lines), quote)
      BY <1>1, <1>3 DEF CallsOK, WritingOK
    <3>2. \A m \in inserted[s] : m.doc = <<"issue", c.order>>
      BY <3>1, IssueIsPlan
    <3> QED BY <3>2
  <2> QED BY <1>3, <2>1, <2>2 DEF MovementsOf
<1>10. FeedOf(o)' = FactsOf(o)'
  <2>1. FeedOf(o) = {}
    BY <1>2, <1>5, <1>6 DEF OrderOK, FactsOf
  <2>2. PICK N : N = {OrderFact("OrderCompleted", o, c.key, c.pos)}
                       \cup mirrorInventoryConsumed(c, Plan(rec.lines))
    OBVIOUS
  <2>3. \A f \in N : f.order = o /\ f.type \in Mirrored
    BY <1>3, <2>2 DEF OrderFact, mirrorInventoryConsumed, Mirrored
  <2>4. FeedOf(o)' = N
    <3>1. feed' = feed \cup N
      BY <1>3, <2>2
    <3> QED BY <2>1, <2>3, <3>1 DEF FeedOf
  <2>5. mirrorInventoryConsumed([order |-> o, key |-> c.key, pos |-> c.pos], Plan(rec.lines))
          = mirrorInventoryConsumed(c, Plan(rec.lines))
    BY <1>3 DEF mirrorInventoryConsumed
  <2>6. o \notin DOMAIN reversal'
    BY <1>3, <1>5
  <2>7. FactsOf(o)' = N
    BY <1>7, <2>2, <2>5, <2>6 DEF FactsOf
  <2> QED BY <2>4, <2>7
<1>11. o \notin DOMAIN reversal'
  BY <1>3, <1>5
<1> QED BY <1>6, <1>7, <1>8, <1>9, <1>10, <1>11 DEF OrderOK

LEMMA CompleteCommitKeeps ==
  ASSUME DocumentsInv, SalesInv, NEW s \in Session, CompleteCommit(s)
  PROVE  DocumentsInv'
<1> USE DEF SalesInv
<1>1. PICK c : c = call[s]
  OBVIOUS
<1>2. /\ c.op = "complete" /\ Writing(s) /\ CommitMovements(s) /\ Return(s, "completed")
      /\ movements' = movements \cup inserted[s] /\ reversal' = reversal
      /\ goodsIssue' = With(goodsIssue, c.order,
                            [n |-> c.n, key |-> c.key, pos |-> c.pos, status |-> "POSTED"])
      /\ feed' = feed \cup {OrderFact("OrderCompleted", c.order, c.key, c.pos)}
                      \cup mirrorInventoryConsumed(c, Plan(order[c.order].lines))
  BY <1>1 DEF CompleteCommit, CommitMovements
<1>3. /\ c.order \in Order /\ order[c.order].status = "OPEN"
      /\ \A o \in Order \ {c.order} : order'[o] = order[o]
  BY <1>1, <1>2 DEF TypeOK, CallOK, Writing, CompleteCommit
<1>4. \A m \in inserted[s] : m.doc = <<"issue", c.order>>
  <2>1. PICK quote : inserted[s] = IssueRows(c, Plan(order[c.order].lines), quote)
    BY <1>1, <1>2 DEF CallsOK, WritingOK
  <2> QED BY <2>1, IssueIsPlan
<1>5. \A f \in feed' \ feed : f.order = c.order
  BY <1>2 DEF OrderFact, mirrorInventoryConsumed
<1>6. ASSUME NEW o \in Order PROVE OrderOK(o)'
  <2>1. CASE o = c.order
    BY <1>1, <2>1, CompleteAccount
  <2>2. CASE o # c.order
    <3>1. OrderOK(o) /\ order'[o] = order[o]
      BY <1>3, <2>2 DEF DocumentsInv
    <3>2. order[o].status = "COMPLETED" => goodsIssue'[o] = goodsIssue[o]
      BY <1>2, <2>2 DEF With, TypeOK
    <3>3. \A m \in inserted[s] : m.doc # <<"issue", o>> /\ m.doc # <<"reversal", o>>
      BY <1>4, <2>2
    <3>4. feed \subseteq feed' /\ \A f \in feed' \ feed : f.order # o
      BY <1>2, <1>5, <2>2
    <3> QED BY <1>2, <3>1, <3>2, <3>3, <3>4, OrderUntouched
  <2> QED BY <2>1, <2>2
<1>7. \A op, k : op \in {"complete", "reverse"} /\ KeyHolders(op, k) = {}
                 /\ (op = "complete" => k # c.key) => KeyHolders(op, k)' = {}
  BY <1>2 DEF KeyHolders, With
<1>8. \A t \in Session \ {s} : Writing(t) /\ call[t].op \in {"complete", "reverse"} =>
        KeyHolders(call[t].op, call[t].key)' = {}
  <2> SUFFICES ASSUME NEW t \in Session \ {s}, Writing(t), call[t].op \in {"complete", "reverse"}
               PROVE  KeyHolders(call[t].op, call[t].key)' = {}
    OBVIOUS
  <2>1. KeyHolders(call[t].op, call[t].key) = {}
    BY DEF DocumentsInv, CallHolds
  <2>2. call'[t] = call[t]
    BY <1>2, CallEnds
  <2>3. call[t].op = "complete" => call[t].key # c.key
    BY <1>1, <1>2 DEF DocumentsInv, KeysApart
  <2> QED BY <1>7, <2>1, <2>2, <2>3
<1>9. /\ \A t \in Session : CallHolds(t)'
      /\ ~Writing(s)'
      /\ \A t \in Session \ {s} : call'[t] = call[t] /\ (Writing(t)' <=> Writing(t))
  BY <1>1, <1>2, <1>3, <1>4, <1>8, CommitCalls
<1>10. KeysApart'
  <2>1. \A o \in DOMAIN goodsIssue : goodsIssue[o].key # c.key
    <3>1. KeyHolders("complete", c.key) = {}
      BY <1>1, <1>2 DEF DocumentsInv, CallHolds
    <3> QED BY <3>1 DEF KeyHolders
  <2>2. \A o, p \in DOMAIN goodsIssue' : goodsIssue'[o].key = goodsIssue'[p].key => o = p
    BY <1>2, <2>1 DEF With, DocumentsInv, KeysApart
  <2> QED BY <1>2, <1>9, <2>2 DEF DocumentsInv, KeysApart
<1>11. \A f \in feed' : f.order \in Order
  BY <1>3, <1>5 DEF DocumentsInv
<1> QED BY <1>6, <1>9, <1>10, <1>11 DEF DocumentsInv

(* A reversal's document, its rows and its fact answer to its order's sale. *)
LEMMA ReverseAccount ==
  ASSUME DocumentsInv, SalesInv, NEW s \in Session, ReverseCommit(s),
         NEW o \in Order, o = call[s].order
  PROVE  OrderOK(o)'
<1> USE DEF SalesInv
<1>1. PICK c : c = call[s]
  OBVIOUS
<1>2. /\ c.op = "reverse" /\ Writing(s) /\ c.order = o
      /\ movements' = movements \cup inserted[s] /\ order' = order
      /\ goodsIssue' = [goodsIssue EXCEPT ![o].status = "REVERSED"]
      /\ reversal' = With(reversal, o, [n |-> c.n, key |-> c.key, pos |-> c.pos])
      /\ feed' = feed \cup {OrderFact("OrderCompletionReversed", o, c.key, c.pos)}
  BY <1>1 DEF ReverseCommit, CommitMovements
<1>3. /\ order[o].status = "COMPLETED" /\ o \in DOMAIN goodsIssue /\ OrderOK(o)
  BY <1>1, <1>2 DEF TypeOK, CallOK, Writing, DocumentsInv
<1>4. o \notin DOMAIN reversal
  BY <1>1, <1>2 DEF DocumentsInv, CallHolds, Holding, Writing
<1>5. inserted[s] = {Returned(c, m, c.pos) : m \in MovementsOf("issue", o)}
  BY <1>1, <1>2 DEF DocumentsInv, CallHolds, ReturnRows
<1>6. /\ o \in DOMAIN reversal'
      /\ reversal'[o] = [n |-> c.n, key |-> c.key, pos |-> c.pos]
  BY <1>2 DEF With
<1>7. goodsIssue'[o] = [n |-> goodsIssue'[o].n, key |-> order[o].key, pos |-> order[o].pos,
                       status |-> "REVERSED"]
  <2>1. PICK n : goodsIssue[o] = [n |-> n, key |-> order[o].key, pos |-> order[o].pos,
                                  status |-> "POSTED"]
    BY <1>3, <1>4 DEF OrderOK
  <2>2. goodsIssue'[o] = [goodsIssue[o] EXCEPT !.status = "REVERSED"]
    BY <1>2, <1>3
  <2> QED BY <2>1, <2>2
<1>8. MovementsOf("reversal", o)' = ReturnsOf(o)'
  <2>1. \A m \in inserted[s] : m.doc = <<"reversal", o>>
    BY <1>2, <1>5 DEF Returned, Row
  <2>2. MovementsOf("issue", o)' = MovementsOf("issue", o)
    BY <1>2, <2>1 DEF MovementsOf
  <2>3. MovementsOf("reversal", o) = {}
    BY <1>3, <1>4 DEF OrderOK
  <2>4. MovementsOf("reversal", o)' = inserted[s]
    BY <1>2, <2>1, <2>3 DEF MovementsOf
  <2>5. \A m : Returned([order |-> o, n |-> c.n], m, c.pos) = Returned(c, m, c.pos)
    BY <1>2 DEF Returned
  <2>6. ReturnsOf(o)' = {Returned([order |-> o, n |-> c.n], m, c.pos) :
                           m \in MovementsOf("issue", o)}
    BY <1>6, <2>2 DEF ReturnsOf
  <2> QED BY <1>5, <2>4, <2>5, <2>6
<1>9. FeedOf(o)' = FactsOf(o)'
  <2>1. PICK f : f = OrderFact("OrderCompletionReversed", o, c.key, c.pos)
    OBVIOUS
  <2>2. f.order = o /\ f.type \in Mirrored
    BY <2>1 DEF OrderFact, Mirrored
  <2>3. FeedOf(o)' = FeedOf(o) \cup {f}
    BY <1>2, <2>1, <2>2 DEF FeedOf
  <2>4. FactsOf(o)' = FactsOf(o) \cup {f}
    BY <1>2, <1>4, <1>6, <2>1 DEF FactsOf
  <2> QED BY <1>3, <2>3, <2>4 DEF OrderOK
<1> QED BY <1>2, <1>3, <1>6, <1>7, <1>8, <1>9 DEF OrderOK

LEMMA ReverseCommitKeeps ==
  ASSUME DocumentsInv, SalesInv, NEW s \in Session, ReverseCommit(s)
  PROVE  DocumentsInv'
<1> USE DEF SalesInv
<1>1. PICK c : c = call[s]
  OBVIOUS
<1>2. /\ c.op = "reverse" /\ Writing(s) /\ CommitMovements(s) /\ Return(s, "reversed")
      /\ movements' = movements \cup inserted[s] /\ order' = order
      /\ goodsIssue' = [goodsIssue EXCEPT ![c.order].status = "REVERSED"]
      /\ reversal' = With(reversal, c.order, [n |-> c.n, key |-> c.key, pos |-> c.pos])
      /\ feed' = feed \cup {OrderFact("OrderCompletionReversed", c.order, c.key, c.pos)}
  BY <1>1 DEF ReverseCommit, CommitMovements
<1>3. /\ c.order \in Order
  BY <1>1, <1>2 DEF TypeOK, CallOK, Writing
<1>4. \A m \in inserted[s] : m.doc = <<"reversal", c.order>>
  <2>1. inserted[s] = {Returned(c, m, c.pos) : m \in MovementsOf("issue", c.order)}
    BY <1>1, <1>2 DEF DocumentsInv, CallHolds, ReturnRows
  <2> QED BY <2>1 DEF Returned, Row
<1>5. \A f \in feed' \ feed : f.order = c.order
  BY <1>2 DEF OrderFact
<1>6. ASSUME NEW o \in Order PROVE OrderOK(o)'
  <2>1. CASE o = c.order
    BY <1>1, <2>1, ReverseAccount
  <2>2. CASE o # c.order
    <3>1. OrderOK(o) /\ order'[o] = order[o]
      BY <1>2 DEF DocumentsInv
    <3>2. /\ order[o].status = "COMPLETED" => goodsIssue'[o] = goodsIssue[o]
          /\ o \in DOMAIN reversal' <=> o \in DOMAIN reversal
          /\ o \in DOMAIN reversal => reversal'[o] = reversal[o]
      BY <1>2, <2>2 DEF With, TypeOK
    <3>3. \A m \in inserted[s] : m.doc # <<"issue", o>> /\ m.doc # <<"reversal", o>>
      BY <1>4, <2>2
    <3>4. feed \subseteq feed' /\ \A f \in feed' \ feed : f.order # o
      BY <1>2, <1>5, <2>2
    <3> QED BY <1>2, <3>1, <3>2, <3>3, <3>4, OrderUntouched
  <2> QED BY <2>1, <2>2
<1>7. \A o \in DOMAIN goodsIssue : goodsIssue'[o].key = goodsIssue[o].key
  BY <1>2
<1>8. \A op, k : op \in {"complete", "reverse"} /\ KeyHolders(op, k) = {}
                 /\ (op = "reverse" => k # c.key) => KeyHolders(op, k)' = {}
  <2>1. DOMAIN goodsIssue' = DOMAIN goodsIssue
    BY <1>2
  <2> QED BY <1>2, <1>7, <2>1 DEF KeyHolders, With
<1>9. \A t \in Session \ {s} : Writing(t) /\ call[t].op \in {"complete", "reverse"} =>
        KeyHolders(call[t].op, call[t].key)' = {}
  <2> SUFFICES ASSUME NEW t \in Session \ {s}, Writing(t), call[t].op \in {"complete", "reverse"}
               PROVE  KeyHolders(call[t].op, call[t].key)' = {}
    OBVIOUS
  <2>1. KeyHolders(call[t].op, call[t].key) = {}
    BY DEF DocumentsInv, CallHolds
  <2>2. call'[t] = call[t]
    BY <1>2, CallEnds
  <2>3. call[t].op = "reverse" => call[t].key # c.key
    BY <1>1, <1>2 DEF DocumentsInv, KeysApart
  <2> QED BY <1>8, <2>1, <2>2, <2>3
<1>10. /\ \A t \in Session : CallHolds(t)'
       /\ ~Writing(s)'
       /\ \A t \in Session \ {s} : call'[t] = call[t] /\ (Writing(t)' <=> Writing(t))
  <2>1. \A o : (o # call[s].order /\ o \in DOMAIN reversal') => o \in DOMAIN reversal
    BY <1>1, <1>2 DEF With
  <2>2. \A m \in inserted[s] : \A o : m.doc # <<"issue", o>>
    BY <1>4
  <2> QED BY <1>1, <1>2, <1>9, <2>1, <2>2, CommitCalls
<1>11. KeysApart'
  <2>1. \A o \in DOMAIN reversal : reversal[o].key # c.key
    <3>1. KeyHolders("reverse", c.key) = {}
      BY <1>1, <1>2 DEF DocumentsInv, CallHolds
    <3> QED BY <3>1 DEF KeyHolders
  <2>2. \A o, p \in DOMAIN reversal' : reversal'[o].key = reversal'[p].key => o = p
    BY <1>2, <2>1 DEF With, DocumentsInv, KeysApart
  <2>3. DOMAIN goodsIssue' = DOMAIN goodsIssue
    BY <1>2
  <2>4. \A o, p \in DOMAIN goodsIssue' : goodsIssue'[o].key = goodsIssue'[p].key => o = p
    BY <1>7, <2>3 DEF DocumentsInv, KeysApart
  <2> QED BY <1>10, <2>2, <2>4 DEF DocumentsInv, KeysApart
<1>12. \A f \in feed' : f.order \in Order
  BY <1>3, <1>5 DEF DocumentsInv
<1> QED BY <1>6, <1>10, <1>11, <1>12 DEF DocumentsInv

-----------------------------------------------------------------------------
(* Theorems *)

LEMMA DocumentsStep ==
  ASSUME DocumentsInv, SalesInv, [Next]_vars
  PROVE  DocumentsInv'
<1> USE DEF SalesInv
<1>1. CASE UNCHANGED vars
  BY <1>1, DocumentsSame DEF vars, streamVars, salesVars
<1>2. ASSUME NEW o \in Order, Edit(o) PROVE DocumentsInv'
  BY <1>2, EditKeeps
<1>3. ASSUME NEW s \in Session,
             StartCall(s) \/ StartSupply(s) \/ StreamStatement(s) \/ Rollback(s)
      PROVE  DocumentsInv'
  BY <1>3, StartKeeps, SupplyKeeps, StatementKeeps, RollbackKeeps
<1>4. ASSUME NEW s \in Session, PeekOrder(s) \/ CheckKey(s) \/ LockOrder(s) \/ WriteDocument(s)
      PROVE  DocumentsInv'
  BY <1>4, DecideKeeps, WriteKeeps
<1>5. ASSUME NEW s \in Session, CompleteCommit(s) \/ ReverseCommit(s) \/ SupplyCommit(s)
      PROVE  DocumentsInv'
  BY <1>5, CompleteCommitKeeps, ReverseCommitKeeps, SupplyCommitKeeps
<1> QED BY <1>1, <1>2, <1>3, <1>4, <1>5 DEF Next, CallStep

LEMMA DocumentsInductive ==
  StreamInv /\ SalesInv /\ DocumentsInv /\ [Next]_vars => (StreamInv /\ SalesInv /\ DocumentsInv)'
BY SalesInductive, DocumentsStep

LEMMA DocumentsStart == Init => StreamInv /\ SalesInv /\ DocumentsInv
BY StreamInvInit, SalesInvInit, DocumentsInvInit DEF Init

(* Whatever edits, completions and reversals interleave, an order is        *)
(* completed with lines, with terms accepted for exactly those lines, and   *)
(* with the plan of those lines.                                            *)
THEOREM SnapshotsPriceSales == Spec => []SnapshotPricesWhatWasSold
<1>1. StreamInv /\ SalesInv /\ DocumentsInv => SnapshotPricesWhatWasSold
  BY DEF DocumentsInv, OrderOK, SnapshotPricesWhatWasSold
<1> QED BY <1>1, DocumentsStart, DocumentsInductive, PTL DEF Spec

\* A call's answer says whether the call repeats a committed one.
AnswerIsTrue(s) ==
  LET c == call[s] IN
  /\ c.op = "complete" /\ Answers(s) => (call'[s].result = "duplicate" <=> Completed(c))
  /\ c.op = "reverse" /\ Answers(s) => (call'[s].result = "duplicate" <=> Reversed(c))

LEMMA QuietStep ==
  ASSUME NEW s, call'[s] = call[s] \/ call[s].step = "done" \/ call'[s].step # "done"
  PROVE  AnswerIsTrue(s)
BY DEF AnswerIsTrue, Answers

(* A call that holds its order repeats nothing, so nothing it answers from  *)
(* then on is a duplicate.                                                  *)
LEMMA HeldIsNew ==
  ASSUME DocumentsInv, TypeOK, NEW s \in Session, Holding(s)
  PROVE  /\ call[s].op = "complete" => ~Completed(call[s])
         /\ call[s].op = "reverse" => ~Reversed(call[s])
<1>1. call[s].op = "complete" => order[call[s].order].status = "OPEN"
  BY DEF TypeOK, CallOK, Holding
<1>2. call[s].op = "reverse" => call[s].order \notin DOMAIN reversal
  BY DEF DocumentsInv, CallHolds
<1> QED BY <1>1, <1>2 DEF Completed, Reversed

LEMMA DecisionIsTrue ==
  ASSUME DocumentsInv, TypeOK, NEW s \in Session,
         PeekOrder(s) \/ CheckKey(s) \/ LockOrder(s)
  PROVE  AnswerIsTrue(s)
<1>1. PICK c : c = call[s]
  OBVIOUS
<1>2. c.op \in {"complete", "reverse"} =>
        c.order \in Order /\ order[c.order].status \in {"NONE", "OPEN", "COMPLETED", "CANCELLED"}
  BY <1>1 DEF TypeOK, CallOK, OrderRecord
<1>3. Reversed(c) /\ c.op = "reverse" => order[c.order].status = "COMPLETED"
  BY <1>2 DEF Reversed, TypeOK
<1>4. ASSUME NEW answer, NEW step \in {"key", "lock", "write"}, Decide(s, answer, step),
             c.op = "complete" /\ answer # "go on" => (answer = "duplicate" <=> Completed(c)),
             c.op = "reverse" /\ answer # "go on" => (answer = "duplicate" <=> Reversed(c))
      PROVE  AnswerIsTrue(s)
  <2>1. CASE answer = "go on"
    <3>1. call'[s].step = step
      BY <1>4, <2>1, Gone DEF Decide
    <3> QED BY <3>1, QuietStep
  <2>2. CASE answer # "go on"
    <3>1. call'[s].result = answer
      BY <1>4, <2>2, CallEnds DEF Decide
    <3> QED BY <1>1, <1>4, <2>2, <3>1 DEF AnswerIsTrue
  <2> QED BY <2>1, <2>2
<1>5. CASE PeekOrder(s)
  <2>1. /\ c.op = "complete" /\ PeekAnswer(c) # "go on" =>
             (PeekAnswer(c) = "duplicate" <=> Completed(c))
        /\ c.op = "reverse" /\ PeekAnswer(c) # "go on" =>
             (PeekAnswer(c) = "duplicate" <=> Reversed(c))
    <3>1. CASE c.op = "complete"
      BY <3>1 DEF PeekAnswer, Completed
    <3>2. CASE c.op = "reverse"
      BY <1>3, <3>2 DEF PeekAnswer, Reversed
    <3> QED BY <3>1, <3>2
  <2>2. Decide(s, PeekAnswer(c), "key")
    BY <1>1, <1>5 DEF PeekOrder
  <2> QED BY <1>4, <2>1, <2>2
<1>6. CASE CheckKey(s)
  <2> DEFINE others == KeyHolders(c.op, c.key) \ {c.order}
  <2>1. Decide(s, IF others # {} THEN "conflict" ELSE "go on", "lock")
    BY <1>1, <1>6 DEF CheckKey
  <2>2. c.op = "complete" /\ others # {} => ~Completed(c)
    <3> SUFFICES ASSUME c.op = "complete", NEW o \in others, Completed(c) PROVE FALSE
      OBVIOUS
    <3>1. /\ o \in DOMAIN goodsIssue /\ goodsIssue[o].key = c.key /\ o # c.order
      BY DEF KeyHolders
    <3> HIDE DEF others
    <3>2. /\ c.order \in Order /\ order[c.order].status = "COMPLETED"
          /\ order[c.order].key = c.key
      BY <1>2 DEF Completed, SameCompletion
    <3>3. c.order \in DOMAIN goodsIssue
      BY <3>2 DEF TypeOK
    <3>4. goodsIssue[c.order].key = c.key
      <4>1. OrderOK(c.order)
        BY <3>2 DEF DocumentsInv
      <4>2. goodsIssue[c.order].key = order[c.order].key
        BY <3>2, <4>1 DEF OrderOK
      <4> QED BY <3>2, <4>2
    <3> QED BY <3>1, <3>3, <3>4 DEF DocumentsInv, KeysApart
  <2>3. c.op = "reverse" /\ others # {} => ~Reversed(c)
    BY DEF KeyHolders, Reversed, SameReversal, DocumentsInv, KeysApart
  <2> HIDE DEF others
  <2> QED BY <1>4, <2>1, <2>2, <2>3
<1>7. CASE LockOrder(s)
  <2>1. Decide(s, LockAnswer(c), "write")
    BY <1>1, <1>7 DEF LockOrder
  <2>2. c.op = "complete" => (LockAnswer(c) = "duplicate" <=> Completed(c))
    BY <1>2, LockAnswerIs
  <2>3. c.op = "reverse" => (LockAnswer(c) = "duplicate" <=> Reversed(c))
    <3>1. CASE order[c.order].status = "COMPLETED"
      BY <1>2, <3>1, LockAnswerIs
    <3>2. CASE order[c.order].status # "COMPLETED"
      BY <1>3, <3>2 DEF LockAnswer
    <3> QED BY <3>1, <3>2
  <2> QED BY <1>4, <2>1, <2>2, <2>3
<1> QED BY <1>5, <1>6, <1>7

(* The answer of every call of every step says what is so.                  *)
LEMMA AnswersStep ==
  ASSUME DocumentsInv, SalesInv, [Next]_vars, NEW t \in Session
  PROVE  AnswerIsTrue(t)
<1> USE DEF SalesInv
<1>1. CASE UNCHANGED vars
  BY <1>1, QuietStep DEF vars, salesVars
<1>2. ASSUME NEW o \in Order, Edit(o) PROVE AnswerIsTrue(t)
  BY <1>2, QuietStep DEF Edit
<1>3. ASSUME NEW s \in Session, Holding(s) \/ call[s].op = "supply",
             NEW answer, answer # "duplicate", Return(s, answer)
      PROVE  AnswerIsTrue(t)
  <2>1. /\ call'[s].result = answer
        /\ t # s => call'[t] = call[t]
    BY <1>3, CallEnds
  <2>2. CASE t # s
    BY <2>1, <2>2, QuietStep
  <2>3. CASE t = s
    BY <1>3, <2>1, <2>3, HeldIsNew DEF AnswerIsTrue
  <2> QED BY <2>2, <2>3
<1>4. ASSUME NEW s \in Session, PeekOrder(s) \/ CheckKey(s) \/ LockOrder(s)
      PROVE  AnswerIsTrue(t)
  <2>1. CASE t = s
    BY <1>4, <2>1, DecisionIsTrue
  <2>2. CASE t # s
    <3>1. ASSUME NEW answer, NEW step, Decide(s, answer, step) PROVE call'[t] = call[t]
      BY <2>2, <3>1, CallEnds, Gone DEF Decide
    <3>2. call'[t] = call[t]
      BY <1>4, <3>1 DEF PeekOrder, CheckKey, LockOrder
    <3> QED BY <3>2, QuietStep
  <2> QED BY <2>1, <2>2
<1>5. ASSUME NEW s \in Session, StartCall(s) \/ StartSupply(s) PROVE AnswerIsTrue(t)
  <2>1. call[s].step = "done" /\ (t # s => call'[t] = call[t])
    BY <1>5 DEF StartCall, StartSupply, BeginCall, TypeOK
  <2> QED BY <2>1, QuietStep
<1>6. \A s \in Session : Writing(s) \/ call[s].step = "write" =>
        Holding(s) \/ call[s].op = "supply"
  BY DEF TypeOK, CallRecord, CallOK, Holding, Writing
<1>7. ASSUME NEW s \in Session, WriteDocument(s) PROVE AnswerIsTrue(t)
  <2>1. CASE Return(s, "error")
    BY <1>3, <1>6, <1>7, <2>1 DEF WriteDocument
  <2>2. CASE GoTo(s, "writing")
    <3>1. call'[s].step = "writing" /\ (t # s => call'[t] = call[t])
      BY <2>2, Gone
    <3> QED BY <3>1, QuietStep
  <2> QED BY <1>7, <2>1, <2>2 DEF WriteDocument
<1>8. ASSUME NEW s \in Session, StreamStatement(s) PROVE AnswerIsTrue(t)
  BY <1>8, QuietStep DEF StreamStatement, salesVars
<1>9. ASSUME NEW s \in Session,
             CompleteCommit(s) \/ ReverseCommit(s) \/ SupplyCommit(s)
      PROVE  AnswerIsTrue(t)
  BY <1>3, <1>6, <1>9 DEF CompleteCommit, ReverseCommit, SupplyCommit
<1>10. ASSUME NEW s \in Session, Rollback(s) PROVE AnswerIsTrue(t)
  <2>1. Writing(s) \/ call[s].step = "write"
    BY <1>10 DEF Rollback
  <2> QED BY <1>3, <1>6, <1>10, <2>1 DEF Rollback
<1> QED BY <1>1, <1>2, <1>4, <1>5, <1>7, <1>8, <1>9, <1>10 DEF Next, CallStep

(* A completion or reversal that repeats a committed one is told so at      *)
(* whatever step it finds out, and no other call is.                        *)
THEOREM SalesRetries == Spec => RetriesAreDuplicates
<1>1. StreamInv /\ SalesInv /\ DocumentsInv /\ [Next]_vars =>
        [ \A s \in Session : LET c == call[s] IN
            /\ c.op = "complete" /\ Answers(s) => (call'[s].result = "duplicate" <=> Completed(c))
            /\ c.op = "reverse" /\ Answers(s) => (call'[s].result = "duplicate" <=> Reversed(c)) ]_vars
  <2> SUFFICES ASSUME DocumentsInv, SalesInv, [Next]_vars, NEW s \in Session
               PROVE  LET c == call[s] IN
                 /\ c.op = "complete" /\ Answers(s) =>
                      (call'[s].result = "duplicate" <=> Completed(c))
                 /\ c.op = "reverse" /\ Answers(s) =>
                      (call'[s].result = "duplicate" <=> Reversed(c))
    OBVIOUS
  <2>1. AnswerIsTrue(s)
    BY AnswersStep
  <2> QED BY <2>1 DEF AnswerIsTrue
<1> QED BY <1>1, DocumentsStart, DocumentsInductive, PTL DEF Spec, RetriesAreDuplicates

-----------------------------------------------------------------------------
(* What a document moves in a stream: one row or none *)

LEMMA SumOfOne ==
  ASSUME NEW f, NEW x
  PROVE  SumFunctionOnSet(f, {x}) = f[x] + 0
<1>1. IsFiniteSet({x}) /\ {x} # {} /\ Pick({x}) = x
  BY FS_Singleton, PickOne
<1>2. {x} \ {x} = {}
  OBVIOUS
<1> QED BY <1>1, <1>2, SumPick, SumEmpty

LEMMA QuantityOfOne ==
  ASSUME NEW i
  PROVE  /\ QuantityOf({}, i) = 0
         /\ \A x : x.item = i => QuantityOf({x}, i) = x.quantity + 0
<1>1. QuantityOf({}, i) = 0
  <2>1. PICK f : f = [leaf \in {} |-> leaf.quantity]
    OBVIOUS
  <2>2. SumFunction(f) = 0
    BY <2>1, SumOfFunction, SumEmpty
  <2>3. {l \in {} : l.item = i} = {}
    OBVIOUS
  <2> QED BY <2>1, <2>2, <2>3 DEF QuantityOf
<1>2. ASSUME NEW x, x.item = i PROVE QuantityOf({x}, i) = x.quantity + 0
  <2>1. PICK f : f = [leaf \in {x} |-> leaf.quantity]
    OBVIOUS
  <2>2. SumFunction(f) = x.quantity + 0
    BY <2>1, SumOfFunction, SumOfOne
  <2>3. {l \in {x} : l.item = i} = {x}
    BY <1>2
  <2> QED BY <2>1, <2>2, <2>3 DEF QuantityOf
<1> QED BY <1>1, <1>2

LEMMA CostOfOne ==
  /\ CostOf({}) = 0
  /\ \A x : CostOf({x}) = x.cost + 0
<1>1. CostOf({}) = 0
  <2>1. PICK f : f = [m \in {} |-> m.cost]
    OBVIOUS
  <2> QED BY <2>1, SumOfFunction, SumEmpty DEF CostOf
<1>2. ASSUME NEW x PROVE CostOf({x}) = x.cost + 0
  <2>1. PICK f : f = [m \in {x} |-> m.cost]
    OBVIOUS
  <2> QED BY <2>1, SumOfFunction, SumOfOne DEF CostOf
<1> QED BY <1>1, <1>2

\* A sale has at most one row in a stream.
LEMMA OneRowPerStream ==
  ASSUME SoldExactlyOnce, NEW o \in Order, NEW i
  PROVE  \/ OfStream(MovementsOf("issue", o), i) = {}
         \/ \E m : OfStream(MovementsOf("issue", o), i) = {m} /\ m.item = i
<1>1. \A m, n \in MovementsOf("issue", o) : m.item = n.item => m = n
  BY DEF SoldExactlyOnce, SoldOnce
<1>2. ASSUME NEW m \in OfStream(MovementsOf("issue", o), i)
      PROVE  OfStream(MovementsOf("issue", o), i) = {m} /\ m.item = i
  BY <1>1, <1>2 DEF OfStream
<1> QED BY <1>2

(* A reversal gives back, stream by stream, what its sale took.             *)
LEMMA ReturnsBalance ==
  ASSUME DocumentsInv, SalesInv, NEW o \in DOMAIN reversal, NEW i
  PROVE  LET back == OfStream(MovementsOf("reversal", o), i)
             sold == OfStream(MovementsOf("issue", o), i)
         IN  QuantityOf(back, i) = QuantityOf(sold, i) /\ CostOf(back) = CostOf(sold)
<1>1. o \in Order
  BY DEF SalesInv, TypeOK
<1> DEFINE given(m) == Returned([order |-> o, n |-> reversal[o].n], m, reversal[o].pos)
           back == OfStream(MovementsOf("reversal", o), i)
           sold == OfStream(MovementsOf("issue", o), i)
<1>2. MovementsOf("reversal", o) = {given(m) : m \in MovementsOf("issue", o)}
  BY <1>1 DEF DocumentsInv, OrderOK, ReturnsOf
<1>3. \A m : /\ given(m).item = m.item /\ given(m).quantity = m.quantity
             /\ given(m).cost = m.cost
  BY DEF Returned, Row
<1> HIDE DEF given
<1>4. back = {given(m) : m \in sold}
  <2>1. \A b : b \in back <=> b \in {given(m) : m \in sold}
    BY <1>2, <1>3 DEF OfStream
  <2> QED BY <2>1
<1>5. CASE sold = {}
  BY <1>4, <1>5
<1>6. ASSUME NEW m, sold = {m}, m.item = i
      PROVE  QuantityOf(back, i) = QuantityOf(sold, i) /\ CostOf(back) = CostOf(sold)
  <2>1. back = {given(m)}
    BY <1>4, <1>6
  <2> HIDE DEF back, sold
  <2>2. /\ QuantityOf({given(m)}, i) = m.quantity + 0 /\ QuantityOf({m}, i) = m.quantity + 0
        /\ CostOf({given(m)}) = m.cost + 0 /\ CostOf({m}) = m.cost + 0
    BY <1>3, <1>6, QuantityOfOne, CostOfOne
  <2> QED BY <1>6, <2>1, <2>2
<1>7. sold = {} \/ \E m : sold = {m} /\ m.item = i
  BY <1>1, OneRowPerStream DEF SalesInv
<1> QED BY <1>5, <1>6, <1>7

(* Nothing is returned without a reversal document, and a reversal returns  *)
(* what its sale took, stream by stream, at the position it names.          *)
THEOREM ReversalsRestoreSales == Spec => []ReversalRestoresIssue
<1>1. StreamInv /\ SalesInv /\ DocumentsInv => ReversalRestoresIssue
  <2> SUFFICES ASSUME SalesInv, DocumentsInv, NEW o \in Order
               PROVE  LET back == MovementsOf("reversal", o) IN
                      IF o \notin DOMAIN reversal THEN back = {}
                      ELSE /\ goodsIssue[o].status = "REVERSED"
                           /\ \A m \in back : m.direction = "IN" /\ m.pos = reversal[o].pos
                           /\ \A i \in Item :
                                LET sold == OfStream(MovementsOf("issue", o), i) IN
                                /\ QuantityOf(OfStream(back, i), i) = QuantityOf(sold, i)
                                /\ CostOf(OfStream(back, i)) = CostOf(sold)
    BY DEF ReversalRestoresIssue
  <2>1. OrderOK(o)
    BY DEF DocumentsInv
  <2>2. CASE o \notin DOMAIN reversal
    BY <2>1, <2>2 DEF OrderOK
  <2>3. CASE o \in DOMAIN reversal
    <3>1. order[o].status = "COMPLETED"
      BY <2>3 DEF SalesInv, TypeOK
    <3>2. goodsIssue[o].status = "REVERSED" /\ MovementsOf("reversal", o) = ReturnsOf(o)
      BY <2>1, <2>3, <3>1 DEF OrderOK
    <3>3. \A m \in ReturnsOf(o) : m.direction = "IN" /\ m.pos = reversal[o].pos
      BY DEF ReturnsOf, Returned, Row
    <3> QED BY <2>3, <3>2, <3>3, ReturnsBalance
  <2> QED BY <2>2, <2>3
<1> QED BY <1>1, DocumentsStart, DocumentsInductive, PTL DEF Spec

-----------------------------------------------------------------------------
(* The feed *)

LEMMA PlanIsFinite ==
  ASSUME NEW lines \in Lines
  PROVE  /\ IsFiniteSet(Plan(lines))
         /\ \A l \in Plan(lines) :
              /\ l = [line |-> l.line, leaf |-> l.leaf, item |-> l.item, quantity |-> l.quantity]
              /\ l.quantity \in Int /\ l.quantity > 0
<1>1. PICK D \in SUBSET (1..MaxLines) : lines \in [D -> Line]
  BY DEF Lines
<1> DEFINE leaf(n, i) == [line |-> lines[n].id, leaf |-> i, item |-> Menu[lines[n].dish][i].item,
                          quantity |-> Menu[lines[n].dish][i].quantity * lines[n].quantity]
           of(n) == {leaf(n, i) : i \in DOMAIN Menu[lines[n].dish]}
<1>2. Plan(lines) = UNION {of(n) : n \in D}
  BY <1>1 DEF Plan
<1>3. \A n \in D : /\ lines[n].dish \in Dish /\ lines[n].quantity \in Nat \ {0}
                   /\ Menu[lines[n].dish] \in Seq([item : Item, quantity : Nat \ {0}])
  BY <1>1, SalesAssumption DEF Line
<1>4. ASSUME NEW n \in D PROVE IsFiniteSet(of(n))
  <2>1. PICK seq \in Seq([item : Item, quantity : Nat \ {0}]) : seq = Menu[lines[n].dish]
    BY <1>3
  <2>2. IsFiniteSet(DOMAIN seq)
    BY FS_Interval
  <2>3. PICK h : h = [i \in DOMAIN seq |-> leaf(n, i)]
    OBVIOUS
  <2>4. IsFiniteSet({h[i] : i \in DOMAIN seq})
    BY <2>2, ImageIsFinite
  <2> HIDE DEF leaf
  <2>5. of(n) = {h[i] : i \in DOMAIN seq}
    BY <2>1, <2>3
  <2> QED BY <2>4, <2>5
<1>5. ASSUME NEW n \in D, NEW i \in DOMAIN Menu[lines[n].dish]
      PROVE  leaf(n, i).quantity \in Int /\ leaf(n, i).quantity > 0
  <2>1. PICK seq \in Seq([item : Item, quantity : Nat \ {0}]) : seq = Menu[lines[n].dish]
    BY <1>3
  <2>2. seq[i].quantity \in Nat \ {0}
    <3>1. PICK S : S = [item : Item, quantity : Nat \ {0}]
      OBVIOUS
    <3> HIDE DEF leaf, of
    <3>2. seq \in Seq(S) /\ i \in DOMAIN seq
      BY <2>1, <3>1
    <3>3. seq[i] \in S
      BY <3>2
    <3> QED BY <3>1, <3>3
  <2>3. \A a, b \in Nat \ {0} : a * b \in Int /\ a * b > 0
    OBVIOUS
  <2>4. /\ seq[i].quantity * lines[n].quantity \in Int
        /\ seq[i].quantity * lines[n].quantity > 0
    BY <1>3, <2>2, <2>3
  <2> QED BY <2>1, <2>4
<1>6. \A n, i : leaf(n, i) = [line |-> leaf(n, i).line, leaf |-> leaf(n, i).leaf,
                              item |-> leaf(n, i).item, quantity |-> leaf(n, i).quantity]
  OBVIOUS
<1> HIDE DEF leaf
<1>7. \A l \in Plan(lines) : \E n \in D : \E i \in DOMAIN Menu[lines[n].dish] : l = leaf(n, i)
  BY <1>2
<1>8. IsFiniteSet({of(n) : n \in D})
  <2>1. IsFiniteSet(D)
    <3>1. IsFiniteSet(1..MaxLines)
      BY FS_Interval, SalesAssumption
    <3> QED BY <3>1, FS_Subset
  <2>2. PICK h : h = [n \in D |-> of(n)]
    OBVIOUS
  <2>3. IsFiniteSet({h[n] : n \in D})
    BY <2>1, ImageIsFinite
  <2> HIDE DEF of
  <2>4. {h[n] : n \in D} = {of(n) : n \in D}
    BY <2>2
  <2> QED BY <2>3, <2>4
<1>9. IsFiniteSet(Plan(lines))
  <2> HIDE DEF of
  <2>1. \A T \in {of(n) : n \in D} : IsFiniteSet(T)
    BY <1>4
  <2> QED BY <1>2, <1>8, <2>1, FS_UNION
<1> QED BY <1>5, <1>6, <1>7, <1>9

LEMMA QuantityOfPlan ==
  ASSUME NEW lines \in Lines, NEW i
  PROVE  /\ QuantityOf(Plan(lines), i) \in Int
         /\ i \notin StreamsOf(Plan(lines)) => QuantityOf(Plan(lines), i) = 0
         /\ i \in StreamsOf(Plan(lines)) => QuantityOf(Plan(lines), i) > 0
<1> DEFINE of == {l \in Plan(lines) : l.item = i}
<1>1. PICK f : f = [l \in of |-> l.quantity]
  OBVIOUS
<1>2. QuantityOf(Plan(lines), i) = SumFunctionOnSet(f, of)
  BY <1>1, SumOfFunction DEF QuantityOf
<1>3. IsFiniteSet(of) /\ \A l \in of : f[l] \in Int /\ f[l] > 0
  BY <1>1, PlanIsFinite, FS_Subset
<1>4. i \notin StreamsOf(Plan(lines)) <=> of = {}
  BY DEF StreamsOf
<1> HIDE DEF of
<1> QED BY <1>2, <1>3, <1>4, SumInt, SumEmpty, SumPositive

(* The consumption facts of a sale add up to what its plan consumes.        *)
LEMMA FactsAddUp ==
  ASSUME NEW lines \in Lines, NEW c, NEW i
  PROVE  QuantityOf(mirrorInventoryConsumed(c, Plan(lines)), i) = QuantityOf(Plan(lines), i)
<1> DEFINE of == {l \in Plan(lines) : l.item = i}
           fact(l) == [type |-> "InventoryConsumed", order |-> c.order, key |-> c.key,
                       line |-> l.line, leaf |-> l.leaf, item |-> l.item,
                       quantity |-> l.quantity, pos |-> c.pos]
           told == {l \in mirrorInventoryConsumed(c, Plan(lines)) : l.item = i}
<1>1. PICK f : f = [l \in of |-> l.quantity]
  OBVIOUS
<1>2. PICK g : g = [l \in told |-> l.quantity]
  OBVIOUS
<1>3. PICK h : h = [l \in of |-> fact(l)]
  OBVIOUS
<1>4. mirrorInventoryConsumed(c, Plan(lines)) = {fact(l) : l \in Plan(lines)}
  BY DEF mirrorInventoryConsumed
<1>5. \A l : /\ fact(l).item = l.item /\ fact(l).quantity = l.quantity
             /\ fact(l).line = l.line /\ fact(l).leaf = l.leaf
  OBVIOUS
<1> HIDE DEF fact
<1>6. told = {h[l] : l \in of}
  <2>1. \A x : x \in told <=> x \in {h[l] : l \in of}
    BY <1>3, <1>4, <1>5
  <2> QED BY <2>1
<1>7. IsFiniteSet(of) /\ \A l \in of : f[l] \in Int /\ g[h[l]] = f[l]
  <2>1. IsFiniteSet(of) /\ \A l \in of : f[l] \in Int
    BY <1>1, PlanIsFinite, FS_Subset
  <2>2. \A l \in of : h[l] \in told /\ h[l].quantity = l.quantity
    BY <1>3, <1>5, <1>6
  <2> QED BY <1>1, <1>2, <2>1, <2>2
<1>8. ASSUME NEW x \in of, NEW y \in of, h[x] = h[y] PROVE x = y
  <2>1. /\ x.line = y.line /\ x.leaf = y.leaf /\ x.item = y.item /\ x.quantity = y.quantity
    BY <1>3, <1>5, <1>8
  <2>2. /\ x = [line |-> x.line, leaf |-> x.leaf, item |-> x.item, quantity |-> x.quantity]
        /\ y = [line |-> y.line, leaf |-> y.leaf, item |-> y.item, quantity |-> y.quantity]
    BY PlanIsFinite
  <2> QED BY <2>1, <2>2
<1>9. /\ QuantityOf(mirrorInventoryConsumed(c, Plan(lines)), i) = SumFunctionOnSet(g, told)
      /\ QuantityOf(Plan(lines), i) = SumFunctionOnSet(f, of)
  BY <1>1, <1>2, SumOfFunction DEF QuantityOf
<1> HIDE DEF of, told
<1> QED BY <1>6, <1>7, <1>8, <1>9, SumImage

\* The rows of a sale name what its plan consumes in every stream.
LEMMA RowsMatchPlan ==
  ASSUME DocumentsInv, SalesInv, NEW o \in Order, order[o].status = "COMPLETED", NEW i
  PROVE  /\ QuantityOf(MovementsOf("issue", o), i) = QuantityOf(order[o].plan, i)
         /\ QuantityOf(order[o].plan, i) \in Int
<1>1. PICK lines \in Lines : order[o].plan = Plan(lines)
  <2>1. order[o].plan = Plan(order[o].lines) /\ order[o].lines \in Lines
    BY DEF DocumentsInv, OrderOK, SalesInv, TypeOK, OrderRecord
  <2> QED BY <2>1
<1>2. PICK q \in Int : q = QuantityOf(Plan(lines), i)
  BY QuantityOfPlan
<1>3. PICK rows : rows = OfStream(MovementsOf("issue", o), i)
  OBVIOUS
<1>4. QuantityOf(MovementsOf("issue", o), i) = QuantityOf(rows, i)
  <2>1. {l \in rows : l.item = i} = {l \in MovementsOf("issue", o) : l.item = i}
    BY <1>3 DEF OfStream
  <2> QED BY <2>1 DEF QuantityOf
<1>5. /\ StreamsOf(MovementsOf("issue", o)) = StreamsOf(Plan(lines))
      /\ \A m \in MovementsOf("issue", o) : m.quantity = QuantityOf(Plan(lines), m.item)
  BY <1>1 DEF SalesInv, SoldExactlyOnce, SoldOnce
<1>6. CASE rows = {}
  <2>1. i \notin StreamsOf(MovementsOf("issue", o))
    BY <1>3, <1>6 DEF OfStream, StreamsOf
  <2>2. q = 0
    BY <1>2, <1>5, <2>1, QuantityOfPlan
  <2>3. QuantityOf(rows, i) = 0
    BY <1>6, QuantityOfOne
  <2> QED BY <1>1, <1>2, <1>4, <2>2, <2>3
<1>7. ASSUME NEW m, rows = {m}, m.item = i PROVE QuantityOf(rows, i) = q
  <2>1. m.quantity = q
    BY <1>2, <1>3, <1>5, <1>7 DEF OfStream
  <2>2. QuantityOf(rows, i) = q + 0
    BY <1>7, <2>1, QuantityOfOne
  <2> QED BY <2>2
<1>8. rows = {} \/ \E m : rows = {m} /\ m.item = i
  BY <1>3, OneRowPerStream DEF SalesInv
<1> QED BY <1>1, <1>2, <1>4, <1>6, <1>7, <1>8

\* The facts and the rows of a sale name the same quantity in every stream.
LEMMA FactsMatchRows ==
  ASSUME DocumentsInv, SalesInv, NEW o \in Order, NEW i
  PROVE  QuantityOf({f \in feed : f.type = "InventoryConsumed" /\ f.order = o}, i) =
           QuantityOf(MovementsOf("issue", o), i)
<1> USE DEF SalesInv
<1>1. PICK told : told = {f \in feed : f.type = "InventoryConsumed" /\ f.order = o}
  OBVIOUS
<1>2. PICK sale : sale = [order |-> o, key |-> order[o].key, pos |-> order[o].pos]
  OBVIOUS
<1>3. told = (IF order[o].status = "COMPLETED"
                THEN mirrorInventoryConsumed(sale, order[o].plan) ELSE {})
  <2>1. told = {f \in FactsOf(o) : f.type = "InventoryConsumed"}
    <3>1. told = {f \in FeedOf(o) : f.type = "InventoryConsumed"}
      BY <1>1 DEF FeedOf, Mirrored
    <3> QED BY <3>1 DEF DocumentsInv, OrderOK
  <2>2. \A f \in mirrorInventoryConsumed(sale, order[o].plan) : f.type = "InventoryConsumed"
    BY DEF mirrorInventoryConsumed
  <2>3. \A type, k, p : OrderFact(type, o, k, p).type = type
    BY DEF OrderFact
  <2> QED BY <1>2, <2>1, <2>2, <2>3 DEF FactsOf
<1>4. CASE order[o].status # "COMPLETED"
  <2>1. MovementsOf("issue", o) = {} /\ told = {}
    BY <1>3, <1>4 DEF SoldExactlyOnce, SoldOnce
  <2> QED BY <1>1, <2>1
<1>5. CASE order[o].status = "COMPLETED"
  <2>1. PICK lines \in Lines : order[o].plan = Plan(lines)
    <3>1. order[o].plan = Plan(order[o].lines) /\ order[o].lines \in Lines
      BY <1>5 DEF DocumentsInv, OrderOK, TypeOK, OrderRecord
    <3> QED BY <3>1
  <2>2. QuantityOf(told, i) = QuantityOf(order[o].plan, i)
    BY <1>3, <1>5, <2>1, FactsAddUp
  <2> QED BY <1>1, <1>5, <2>2, RowsMatchPlan
<1> QED BY <1>4, <1>5

LEMMA DocumentFacts ==
  ASSUME DocumentsInv, SalesInv
  PROVE  /\ {f \in feed : f.type = "OrderCompleted"} =
              {OrderFact("OrderCompleted", o, goodsIssue[o].key, goodsIssue[o].pos) :
               o \in DOMAIN goodsIssue}
         /\ {f \in feed : f.type = "OrderCompletionReversed"} =
              {OrderFact("OrderCompletionReversed", o, reversal[o].key, reversal[o].pos) :
               o \in DOMAIN reversal}
<1> USE DEF SalesInv
<1>1. \A type, o, k, p : /\ OrderFact(type, o, k, p).type = type
                         /\ OrderFact(type, o, k, p).order = o
  BY DEF OrderFact
<1>2. \A c, plan : \A f \in mirrorInventoryConsumed(c, plan) : f.type = "InventoryConsumed"
  BY DEF mirrorInventoryConsumed
<1>3. ASSUME NEW f \in feed, f.type \in Mirrored
      PROVE  f.order \in Order /\ f \in FactsOf(f.order)
  <2>1. f.order \in Order
    BY DEF DocumentsInv
  <2>2. f \in FeedOf(f.order)
    BY <1>3 DEF FeedOf
  <2>3. FeedOf(f.order) = FactsOf(f.order)
    BY <2>1 DEF DocumentsInv, OrderOK
  <2> QED BY <2>1, <2>2, <2>3
<1>4. \A o \in Order : FactsOf(o) \subseteq feed
  <2>1. \A o \in Order : FeedOf(o) \subseteq feed
    BY DEF FeedOf
  <2> QED BY <2>1 DEF DocumentsInv, OrderOK
<1>5. /\ \A o \in DOMAIN goodsIssue :
           /\ o \in Order /\ order[o].status = "COMPLETED"
           /\ goodsIssue[o].key = order[o].key /\ goodsIssue[o].pos = order[o].pos
      /\ \A o \in Order : order[o].status = "COMPLETED" => o \in DOMAIN goodsIssue
      /\ DOMAIN reversal \subseteq Order
  <2>1. /\ DOMAIN goodsIssue = {o \in Order : order[o].status = "COMPLETED"}
        /\ DOMAIN reversal \subseteq DOMAIN goodsIssue
    BY DEF TypeOK
  <2>2. ASSUME NEW o \in Order, order[o].status = "COMPLETED"
        PROVE  goodsIssue[o].key = order[o].key /\ goodsIssue[o].pos = order[o].pos
    <3>1. OrderOK(o)
      BY DEF DocumentsInv
    <3>2. PICK n, status : goodsIssue[o] = [n |-> n, key |-> order[o].key, pos |-> order[o].pos,
                                            status |-> status]
      BY <2>2, <3>1 DEF OrderOK
    <3> QED BY <3>2
  <2> QED BY <2>1, <2>2
<1>6. ASSUME NEW f \in feed, f.type = "OrderCompleted"
      PROVE  /\ f.order \in DOMAIN goodsIssue
             /\ f = OrderFact("OrderCompleted", f.order, goodsIssue[f.order].key,
                              goodsIssue[f.order].pos)
  <2>1. f.order \in Order /\ f \in FactsOf(f.order)
    BY <1>3, <1>6 DEF Mirrored
  <2>2. PICK o \in Order : o = f.order
    BY <2>1
  <2>3. /\ order[o].status = "COMPLETED"
        /\ f = OrderFact("OrderCompleted", o, order[o].key, order[o].pos)
    BY <1>1, <1>2, <1>6, <2>1, <2>2 DEF FactsOf
  <2> QED BY <1>5, <2>2, <2>3
<1>7. ASSUME NEW f \in feed, f.type = "OrderCompletionReversed"
      PROVE  /\ f.order \in DOMAIN reversal
             /\ f = OrderFact("OrderCompletionReversed", f.order, reversal[f.order].key,
                              reversal[f.order].pos)
  <2>1. f.order \in Order /\ f \in FactsOf(f.order)
    BY <1>3, <1>7 DEF Mirrored
  <2>2. PICK o \in Order : o = f.order
    BY <2>1
  <2>3. /\ o \in DOMAIN reversal
        /\ f = OrderFact("OrderCompletionReversed", o, reversal[o].key, reversal[o].pos)
    BY <1>1, <1>2, <1>7, <2>1, <2>2 DEF FactsOf
  <2> QED BY <2>2, <2>3
<1>8. ASSUME NEW o \in DOMAIN goodsIssue
      PROVE  OrderFact("OrderCompleted", o, goodsIssue[o].key, goodsIssue[o].pos) \in feed
  <2>1. OrderFact("OrderCompleted", o, order[o].key, order[o].pos) \in FactsOf(o)
    BY <1>5 DEF FactsOf
  <2> QED BY <1>4, <1>5, <2>1
<1>9. ASSUME NEW o \in DOMAIN reversal
      PROVE  OrderFact("OrderCompletionReversed", o, reversal[o].key, reversal[o].pos) \in feed
  <2>1. OrderFact("OrderCompletionReversed", o, reversal[o].key, reversal[o].pos) \in FactsOf(o)
    BY DEF FactsOf
  <2> QED BY <1>4, <1>5, <2>1
<1>10. {f \in feed : f.type = "OrderCompleted"} =
              {OrderFact("OrderCompleted", o, goodsIssue[o].key, goodsIssue[o].pos) :
               o \in DOMAIN goodsIssue}
  BY <1>1, <1>6, <1>8
<1>11. {f \in feed : f.type = "OrderCompletionReversed"} =
              {OrderFact("OrderCompletionReversed", o, reversal[o].key, reversal[o].pos) :
               o \in DOMAIN reversal}
  BY <1>1, <1>7, <1>9
<1> QED BY <1>10, <1>11

(* One completion and one reversal fact per document, and the consumption   *)
(* facts of an order add up, in every stream, to what its sale moved.       *)
THEOREM FeedTellsSales == Spec => []FeedMirrorsSales
<1>1. StreamInv /\ SalesInv /\ DocumentsInv => FeedMirrorsSales
  <2> SUFFICES ASSUME SalesInv, DocumentsInv PROVE FeedMirrorsSales
    OBVIOUS
  <2>1. \A o \in Order, i \in Item :
          QuantityOf({f \in {g \in feed : g.type = "InventoryConsumed"} : f.order = o}, i) =
            QuantityOf(MovementsOf("issue", o), i)
    <3> SUFFICES ASSUME NEW o \in Order, NEW i \in Item
                 PROVE  QuantityOf({f \in {g \in feed : g.type = "InventoryConsumed"} :
                                      f.order = o}, i) =
                          QuantityOf(MovementsOf("issue", o), i)
      OBVIOUS
    <3>1. {f \in {g \in feed : g.type = "InventoryConsumed"} : f.order = o} =
            {f \in feed : f.type = "InventoryConsumed" /\ f.order = o}
      OBVIOUS
    <3> QED BY <3>1, FactsMatchRows
  <2> QED BY <2>1, DocumentFacts DEF FeedMirrorsSales
<1> QED BY <1>1, DocumentsStart, DocumentsInductive, PTL DEF Spec


-----------------------------------------------------------------------------
(* The abstract documents *)

(* The rows of a sale are finitely many, there is one, and each takes       *)
(* something.                                                               *)
LEMMA SoldRows ==
  ASSUME NEW lines \in Lines, lines # NewOrder.lines, NEW rows \in SUBSET Movement,
         StreamsOf(rows) = StreamsOf(Plan(lines)),
         \A m \in rows : m.quantity = QuantityOf(Plan(lines), m.item),
         \A m, n \in rows : m.item = n.item => m = n
  PROVE  /\ IsFiniteSet(rows) /\ rows # {}
         /\ \A m \in rows : m.item \in Item /\ m.quantity \in Nat \ {0} /\ m.cost \in Int
<1>1. PICK streams : streams = StreamsOf(Plan(lines))
  OBVIOUS
<1>2. IsFiniteSet(streams)
  <2>1. PICK h : h = [l \in Plan(lines) |-> l.item]
    OBVIOUS
  <2>2. streams = {h[l] : l \in Plan(lines)}
    BY <1>1, <2>1 DEF StreamsOf
  <2> QED BY <2>2, PlanIsFinite, ImageIsFinite
<1>3. IsFiniteSet(rows)
  <2>1. PICK h : h = [i \in streams |-> CHOOSE m \in rows : m.item = i]
    OBVIOUS
  <2>2. ASSUME NEW m \in rows PROVE m.item \in streams /\ h[m.item] = m
    BY <1>1, <2>1 DEF StreamsOf
  <2>3. ASSUME NEW i \in streams PROVE h[i] \in rows
    BY <1>1, <2>1 DEF StreamsOf
  <2>4. rows = {h[i] : i \in streams}
    BY <2>2, <2>3
  <2> QED BY <1>2, <2>4, ImageIsFinite
<1>4. rows # {}
  <2>1. PICK D \in SUBSET (1..MaxLines) : lines \in [D -> Line]
    BY DEF Lines
  <2>2. PICK n \in D : TRUE
    BY <2>1 DEF NewOrder
  <2>3. PICK seq : seq = Menu[lines[n].dish] /\ 1 \in DOMAIN seq
    <3>1. PICK L : L = [item : Item, quantity : Nat \ {0}]
      OBVIOUS
    <3>2. lines[n].dish \in Dish
      BY <2>1, <2>2 DEF Line
    <3>3. Menu[lines[n].dish] \in Seq(L) /\ Menu[lines[n].dish] # <<>>
      BY <3>1, <3>2, SalesAssumption
    <3>4. \A x \in Seq(L) : x # <<>> => 1 \in DOMAIN x
      OBVIOUS
    <3> QED BY <3>3, <3>4
  <2>4. PICK leaf : leaf = [line |-> lines[n].id, leaf |-> 1, item |-> seq[1].item,
                            quantity |-> seq[1].quantity * lines[n].quantity]
    OBVIOUS
  <2>5. leaf \in Plan(lines)
    <3>1. leaf \in {[line |-> lines[n].id, leaf |-> i, item |-> seq[i].item,
                     quantity |-> seq[i].quantity * lines[n].quantity] : i \in DOMAIN seq}
      BY <2>3, <2>4
    <3>2. n \in DOMAIN lines
      BY <2>1, <2>2
    <3> QED BY <2>3, <3>1, <3>2 DEF Plan
  <2>6. leaf.item \in streams
    BY <1>1, <2>5 DEF StreamsOf
  <2> QED BY <1>1, <2>6 DEF StreamsOf
<1>5. ASSUME NEW m \in rows
      PROVE  m.item \in Item /\ m.quantity \in Nat \ {0} /\ m.cost \in Int
  <2>1. m.item \in streams
    BY <1>1 DEF StreamsOf
  <2>2. m.quantity \in Int /\ m.quantity > 0
    BY <1>1, <2>1, QuantityOfPlan
  <2> QED BY <2>2, MovementAssumption DEF WellFormed
<1> QED BY <1>3, <1>4, <1>5

LEMMA OthersKeepEffect ==
  ASSUME NEW o, MovementsOf("issue", o)' = MovementsOf("issue", o),
         MovementsOf("reversal", o)' = MovementsOf("reversal", o)
  PROVE  EffectOf(o)' = EffectOf(o)
BY DEF EffectOf

LEMMA CompletedEffect ==
  ASSUME DocumentsInv, SalesInv, NEW s \in Session, CompleteCommit(s), NEW o, o = call[s].order
  PROVE  /\ EffectOf(o)' # NoEffect
         /\ \A p \in Order \ {o} : EffectOf(p)' = EffectOf(p)
<1> USE DEF SalesInv
<1>1. PICK c, rows : c = call[s] /\ rows = inserted[s] /\ c.order = o
  OBVIOUS
<1>2. PICK lines : lines = order[o].lines
  OBVIOUS
<1>3. c.op = "complete" /\ Writing(s) /\ movements' = movements \cup rows
  BY <1>1 DEF CompleteCommit, CommitMovements
<1>4. /\ o \in Order /\ order[o].status = "OPEN"
      /\ lines \in Lines /\ lines # NewOrder.lines
  BY <1>1, <1>2, <1>3 DEF TypeOK, CallOK, OrderRecord, DocumentsInv, CallHolds, Holding, Writing
<1>5. PICK quote : rows = IssueRows(c, Plan(lines), quote)
  BY <1>1, <1>2, <1>3 DEF CallsOK, WritingOK
<1>6. /\ StreamsOf(rows) = StreamsOf(Plan(lines))
      /\ \A m \in rows : /\ m.quantity = QuantityOf(Plan(lines), m.item)
                         /\ m.direction = "OUT" /\ m.doc = <<"issue", o>>
      /\ \A m, n \in rows : m.item = n.item => m = n
  BY <1>1, <1>5, IssueIsPlan
<1>7. rows \in SUBSET Movement
  BY <1>1 DEF TypeOK, StreamTypeOK
<1>8. /\ IsFiniteSet(rows) /\ rows # {}
      /\ \A m \in rows : m.item \in Item /\ m.quantity \in Nat \ {0}
  BY <1>4, <1>6, <1>7, SoldRows
<1>9. MovementsOf("issue", o)' = rows /\ MovementsOf("reversal", o)' = {}
  <2>1. MovementsOf("issue", o) = {}
    BY <1>4 DEF SoldExactlyOnce, SoldOnce
  <2>2. MovementsOf("reversal", o) = {}
    BY <1>4 DEF TypeOK, DocumentsInv, OrderOK
  <2> QED BY <1>3, <1>6, <2>1, <2>2 DEF MovementsOf
<1>10. EffectOf(o)' = NetEffect(rows)
  BY <1>9 DEF EffectOf
<1>11. NetEffect(rows) # NoEffect
  <2>1. PICK m \in rows : TRUE
    BY <1>8
  <2> QED BY <1>6, <1>8, <2>1, OneWayIsSomething
<1>12. ASSUME NEW p \in Order \ {o} PROVE EffectOf(p)' = EffectOf(p)
  <2>1. \A m \in rows : m.doc # <<"issue", p>> /\ m.doc # <<"reversal", p>>
    BY <1>6
  <2> QED BY <1>3, <2>1, OthersKeepEffect DEF MovementsOf
<1> QED BY <1>10, <1>11, <1>12

LEMMA ReversedEffect ==
  ASSUME DocumentsInv, SalesInv, NEW s \in Session, ReverseCommit(s), NEW o, o = call[s].order
  PROVE  /\ EffectOf(o)' = NoEffect
         /\ \A p \in Order \ {o} : EffectOf(p)' = EffectOf(p)
<1> USE DEF SalesInv
<1>1. PICK c, back : c = call[s] /\ c.order = o /\ back = inserted[s]
  OBVIOUS
<1>2. PICK rows : rows = MovementsOf("issue", o)
  OBVIOUS
<1>3. c.op = "reverse" /\ Writing(s) /\ movements' = movements \cup back
  BY <1>1 DEF ReverseCommit, CommitMovements
<1>4. /\ o \in Order /\ order[o].status = "COMPLETED" /\ o \notin DOMAIN reversal
      /\ back = {Returned(c, m, c.pos) : m \in rows}
  BY <1>1, <1>2, <1>3 DEF TypeOK, CallOK, DocumentsInv, CallHolds, ReturnRows, Holding, Writing
<1>5. PICK lines \in Lines : /\ lines = order[o].lines /\ lines # NewOrder.lines
                             /\ order[o].plan = Plan(lines)
  BY <1>4 DEF DocumentsInv, OrderOK, TypeOK, OrderRecord
<1>6. /\ StreamsOf(rows) = StreamsOf(Plan(lines))
      /\ \A m \in rows : m.quantity = QuantityOf(Plan(lines), m.item) /\ m.direction = "OUT"
      /\ \A m, n \in rows : m.item = n.item => m = n
  BY <1>2, <1>4, <1>5 DEF SoldExactlyOnce, SoldOnce
<1>7. rows \in SUBSET Movement
  BY <1>2 DEF TypeOK, StreamTypeOK, MovementsOf
<1>8. /\ IsFiniteSet(rows)
      /\ \A m \in rows : m.item \in Item /\ m.quantity \in Nat \ {0} /\ m.cost \in Int
  BY <1>5, <1>6, <1>7, SoldRows
<1>9. PICK h : h = [m \in rows |-> Returned(c, m, c.pos)]
  OBVIOUS
<1>10. ASSUME NEW m \in rows
       PROVE  /\ h[m].item = m.item /\ h[m].quantity = m.quantity /\ h[m].cost = m.cost
              /\ h[m].direction = "IN" /\ h[m].doc = <<"reversal", o>>
  BY <1>1, <1>9 DEF Returned, Row
<1>11. back = {h[m] : m \in rows}
  BY <1>4, <1>9
<1>12. NetEffect(rows \cup back) = NoEffect
  <2>1. \A m \in rows : /\ m.quantity \in Int /\ m.cost \in Int
                        /\ h[m].item = m.item
                        /\ h[m].quantity = m.quantity /\ h[m].cost = m.cost
                        /\ h[m].direction = "IN" <=> m.direction # "IN"
    BY <1>6, <1>8, <1>10
  <2>2. \A m, n \in rows : h[m] # n /\ (h[m] = h[n] => m = n)
    BY <1>6, <1>10
  <2> QED BY <1>8, <1>11, <2>1, <2>2, OppositesCancel
<1>13. MovementsOf("issue", o)' = rows /\ MovementsOf("reversal", o)' = back
  <2>1. MovementsOf("reversal", o) = {}
    BY <1>4 DEF DocumentsInv, OrderOK
  <2>2. \A m \in back : m.doc = <<"reversal", o>>
    BY <1>10, <1>11
  <2> QED BY <1>2, <1>3, <2>1, <2>2 DEF MovementsOf
<1>14. EffectOf(o)' = NoEffect
  BY <1>12, <1>13 DEF EffectOf
<1>15. ASSUME NEW p \in Order \ {o} PROVE EffectOf(p)' = EffectOf(p)
  <2>1. \A m \in back : m.doc # <<"issue", p>> /\ m.doc # <<"reversal", p>>
    BY <1>10, <1>11
  <2> QED BY <1>3, <2>1, OthersKeepEffect DEF MovementsOf
<1> QED BY <1>14, <1>15

\* What the abstract documents see of an order.
DocumentStatus ==
  [o \in Order |-> IF o \in DOMAIN goodsIssue THEN goodsIssue[o].status ELSE "OPEN"]

DocumentEffect == [o \in Order |-> EffectOf(o)]

(* A commit is the abstract step of its own document.                       *)
LEMMA CompleteImplements ==
  ASSUME DocumentsInv, SalesInv, NEW s \in Session, CompleteCommit(s)
  PROVE  \E o \in Order : Documents!Post(o)
<1>1. PICK o : o = call[s].order
  OBVIOUS
<1>2. /\ o \in Order /\ o \notin DOMAIN goodsIssue
      /\ DOMAIN goodsIssue' = DOMAIN goodsIssue \cup {o}
      /\ goodsIssue'[o].status = "POSTED"
      /\ \A p \in DOMAIN goodsIssue : goodsIssue'[p] = goodsIssue[p]
  <2>1. o \in Order /\ order[o].status = "OPEN"
    BY <1>1 DEF CompleteCommit, SalesInv, TypeOK, CallOK, Writing
  <2> QED BY <1>1, <2>1 DEF CompleteCommit, With, SalesInv, TypeOK
<1>3. /\ EffectOf(o)' # NoEffect
      /\ \A p \in Order \ {o} : EffectOf(p)' = EffectOf(p)
  BY <1>1, CompletedEffect
<1>4. DocumentStatus' = [DocumentStatus EXCEPT ![o] = "POSTED"] /\ DocumentStatus[o] = "OPEN"
  BY <1>2 DEF DocumentStatus
<1>5. /\ DOMAIN DocumentEffect' = Order /\ DocumentEffect'[o] # NoEffect
      /\ \A p \in Order \ {o} : DocumentEffect'[p] = DocumentEffect[p]
  BY <1>2, <1>3 DEF DocumentEffect
<1>6. Documents!Post(o)
  BY <1>4, <1>5 DEF Documents!Post, Documents!NoEffect, NoEffect, DocumentStatus, DocumentEffect
<1> QED BY <1>2, <1>6

LEMMA ReverseImplements ==
  ASSUME DocumentsInv, SalesInv, NEW s \in Session, ReverseCommit(s)
  PROVE  \E o \in Order : Documents!Reverse(o)
<1>1. PICK o : o = call[s].order
  OBVIOUS
<1>2. /\ o \in Order /\ order[o].status = "COMPLETED" /\ o \notin DOMAIN reversal
      /\ o \in DOMAIN goodsIssue
      /\ goodsIssue' = [goodsIssue EXCEPT ![o].status = "REVERSED"]
  BY <1>1 DEF ReverseCommit, SalesInv, TypeOK, CallOK, DocumentsInv, CallHolds, Holding, Writing
<1>3. goodsIssue[o].status = "POSTED" /\ goodsIssue'[o].status = "REVERSED"
  <2>1. PICK n : goodsIssue[o] = [n |-> n, key |-> order[o].key, pos |-> order[o].pos,
                                  status |-> "POSTED"]
    BY <1>2 DEF DocumentsInv, OrderOK
  <2>2. goodsIssue'[o] = [goodsIssue[o] EXCEPT !.status = "REVERSED"]
    BY <1>2
  <2> QED BY <2>1, <2>2
<1>4. /\ EffectOf(o)' = NoEffect
      /\ \A p \in Order \ {o} : EffectOf(p)' = EffectOf(p)
  BY <1>1, ReversedEffect
<1>5. DocumentStatus' = [DocumentStatus EXCEPT ![o] = "REVERSED"] /\ DocumentStatus[o] = "POSTED"
  BY <1>2, <1>3 DEF DocumentStatus
<1>6. DocumentEffect' = [DocumentEffect EXCEPT ![o] = NoEffect]
  BY <1>2, <1>4 DEF DocumentEffect
<1>7. Documents!Reverse(o)
  BY <1>5, <1>6 DEF Documents!Reverse, Documents!NoEffect, NoEffect, DocumentStatus,
                    DocumentEffect
<1> QED BY <1>2, <1>7

(* Every other step of sales is none of the documents.                      *)
LEMMA DocumentsStutter ==
  ASSUME DocumentsInv, SalesInv, [Next]_vars,
         \A s \in Session : ~CompleteCommit(s) /\ ~ReverseCommit(s)
  PROVE  DocumentStatus' = DocumentStatus /\ DocumentEffect' = DocumentEffect
<1>1. goodsIssue' = goodsIssue
  <2>1. ASSUME NEW s \in Session, CallStep(s) PROVE goodsIssue' = goodsIssue
    BY <2>1 DEF CallStep, PeekOrder, CheckKey, LockOrder, WriteDocument, StreamStatement,
                SupplyCommit, salesVars
  <2>2. ASSUME NEW s \in Session, StartCall(s) \/ StartSupply(s) \/ Rollback(s)
        PROVE  goodsIssue' = goodsIssue
    BY <2>2 DEF StartCall, StartSupply, Rollback
  <2>3. ASSUME NEW o \in Order, Edit(o) PROVE goodsIssue' = goodsIssue
    BY <2>3 DEF Edit
  <2>4. CASE UNCHANGED vars
    BY <2>4 DEF vars, salesVars
  <2> QED BY <2>1, <2>2, <2>3, <2>4 DEF Next
<1>2. ASSUME NEW o \in Order PROVE EffectOf(o)' = EffectOf(o)
  <2>1. CASE movements' = movements
    BY <2>1, OthersKeepEffect DEF MovementsOf
  <2>2. ASSUME NEW s \in Session, SupplyCommit(s)
        PROVE  /\ MovementsOf("issue", o)' = MovementsOf("issue", o)
               /\ MovementsOf("reversal", o)' = MovementsOf("reversal", o)
    <3>1. movements' = movements \cup inserted[s]
      BY <2>2 DEF SupplyCommit, CommitMovements
    <3>2. \A m \in inserted[s] : m.doc[1] = "receipt"
      BY <2>2 DEF SupplyCommit, DocumentsInv, CallHolds
    <3>3. \A m \in inserted[s] : m.doc # <<"issue", o>> /\ m.doc # <<"reversal", o>>
      BY <3>2
    <3> QED BY <3>1, <3>3 DEF MovementsOf
  <2>3. ASSUME NEW s \in Session, CallStep(s), ~SupplyCommit(s) PROVE movements' = movements
    BY <2>3 DEF CallStep, PeekOrder, CheckKey, LockOrder, WriteDocument, StreamStatement,
                InsertMovements, lockValuationStream, rebuildInventoryBalance, streamVars,
                ledgerVars
  <2>4. ASSUME NEW s \in Session, StartCall(s) \/ StartSupply(s) \/ Rollback(s)
        PROVE  movements' = movements
    BY <2>4 DEF StartCall, StartSupply, Rollback, RollbackMovements, InsertMovements,
                streamVars, ledgerVars
  <2>5. ASSUME NEW p \in Order, Edit(p) PROVE movements' = movements
    BY <2>5 DEF Edit, streamVars, ledgerVars
  <2>6. CASE UNCHANGED vars
    BY <2>6, <2>1 DEF vars, streamVars, ledgerVars
  <2> QED BY <2>1, <2>2, <2>3, <2>4, <2>5, <2>6, OthersKeepEffect DEF Next
<1> QED BY <1>1, <1>2 DEF DocumentStatus, DocumentEffect

(* Completions and reversals, whatever statements they are made of and      *)
(* whatever edits, receipts and failures come between, are one step each of *)
(* a document that is posted once and reversed once, after which its        *)
(* movements add up to nothing in quantity and in cost.                     *)
THEOREM SalesImplementDocuments == Spec => ImplementsDocuments
<1>1. Init => Documents!Init
  <2> SUFFICES ASSUME Init PROVE Documents!Init
    OBVIOUS
  <2>1. movements = {} /\ DOMAIN goodsIssue = {}
    BY DEF Init, StreamInit, LedgerInit
  <2>2. \A o \in Order : EffectOf(o) = NoEffect
    BY <2>1, NoRowsNoEffect DEF EffectOf, MovementsOf
  <2> QED BY <2>1, <2>2 DEF Documents!Init, Documents!NoEffect, NoEffect
<1>2. StreamInv /\ SalesInv /\ DocumentsInv /\ [Next]_vars
        => [Documents!Next]_(Documents!documentVars)
  <2> SUFFICES ASSUME SalesInv, DocumentsInv, [Next]_vars
               PROVE  \/ \E o \in Order : Documents!Post(o) \/ Documents!Reverse(o)
                      \/ DocumentStatus' = DocumentStatus /\ DocumentEffect' = DocumentEffect
    BY DEF Documents!Next, Documents!documentVars, DocumentStatus, DocumentEffect
  <2> QED BY CompleteImplements, ReverseImplements, DocumentsStutter
<1> QED BY <1>1, <1>2, DocumentsStart, DocumentsInductive, PTL
        DEF Spec, ImplementsDocuments, Documents!Spec

-----------------------------------------------------------------------------
(* Who waits for whom: for a row or a key only before anything is written,  *)
(* and in the end for somebody who writes.                                  *)

LEMMA CallsMakeNoCircle ==
  ASSUME StreamInv, LocksAreSorted, TypeOK
  PROVE  NoCircleOfCalls
<1> SUFFICES ASSUME NEW S \in SUBSET Session, S # {}, IsFiniteSet(S),
                    \A s \in S : \E t \in S : WaitsFor(s, t)
             PROVE  FALSE
  BY DEF NoCircleOfCalls
<1>1. \A s \in Session : Writing(s) <=> InTransaction(s)
  BY DEF TypeOK, CallOK
<1>2. PICK w \in S : InTransaction(w)
  <2>1. PICK u \in S : TRUE
    OBVIOUS
  <2>2. PICK t \in S : WaitsFor(u, t)
    OBVIOUS
  <2>3. PICK v \in S : WaitsFor(t, v)
    OBVIOUS
  <2>4. CASE WaitsForStream(u, t) \/ WaitsForStream(t, v)
    BY <2>4, WritersWaitForWriters
  <2>5. CASE ~(WaitsForStream(u, t) \/ WaitsForStream(t, v))
    BY <1>1, <2>2, <2>3, <2>5 DEF WaitsFor, KeepsOrder, KeepsKey, Writing
  <2> QED BY <2>4, <2>5
<1>3. PICK s \in S : InTransaction(s) /\ \A t \in S : ~WaitsForStream(s, t)
  BY <1>2, SomeWriterGoesOn
<1>4. \A t \in S : ~WaitsFor(s, t)
  BY <1>1, <1>3 DEF WaitsFor, Writing
<1> QED BY <1>4

(* Completions, reversals and receipts never wait for each other in a       *)
(* circle, however many overlap and whatever orders, keys and streams they  *)
(* share.                                                                   *)
THEOREM SalesDoNotDeadlock == Spec => []NoCircleOfCalls
<1>1. Init => StreamInv /\ SalesInv /\ LocksAreSorted
  BY StreamInvInit, SalesInvInit, SortedInit DEF Init
<1>2. StreamInv /\ LocksAreSorted /\ [Next]_vars => LocksAreSorted'
  BY NextIsStreamStepOrStutter, SortedStep, SortedStutter DEF StreamInv
<1>3. StreamInv /\ SalesInv /\ LocksAreSorted => NoCircleOfCalls
  BY CallsMakeNoCircle DEF SalesInv
<1> QED BY <1>1, <1>2, <1>3, SalesInductive, PTL DEF Spec

-----------------------------------------------------------------------------
(* Reports: the ids of lines, which tell the leaves of a plan apart *)

\* Line numbers keep their ids apart, so every leaf of a plan has its own.
LinesApart(o) ==
  \A l, k \in DOMAIN order[o].lines :
    /\ order[o].lines[l].id <= order[o].drawn
    /\ order[o].lines[l].id = order[o].lines[k].id => l = k

LinesInv == \A o \in Order : LinesApart(o)

LEMMA LinesStep == TypeOK /\ LinesInv /\ [Next]_vars => LinesInv'
<1> SUFFICES ASSUME TypeOK, LinesInv, [Next]_vars, NEW o \in Order PROVE LinesApart(o)'
  BY DEF LinesInv
<1> DEFINE lines == order[o].lines
<1>1. LinesApart(o) /\ order \in [Order -> OrderRecord] /\ order[o] \in OrderRecord
  BY DEF LinesInv, TypeOK
<1>2. /\ lines \in Lines /\ order[o].drawn \in Nat
      /\ \A l \in DOMAIN lines : lines[l].id \in Nat
  <2>1. lines \in Lines /\ order[o].drawn \in Nat
    BY <1>1, SalesAssumption DEF OrderRecord
  <2>2. PICK D \in SUBSET (1..MaxLines) : lines \in [D -> Line]
    BY <2>1 DEF Lines
  <2>3. \A l \in DOMAIN lines : lines[l] \in Line
    BY <2>2
  <2>4. \A r \in Line : r.id \in Nat
    BY SalesAssumption DEF Line
  <2> QED BY <2>1, <2>3, <2>4
<1>3. ASSUME order'[o].lines = lines, order'[o].drawn = order[o].drawn PROVE LinesApart(o)'
  BY <1>1, <1>3 DEF LinesApart
<1>4. CASE order'[o] = order[o]
  BY <1>3, <1>4
<1>5. ASSUME NEW p \in Order, Edit(p) PROVE LinesApart(o)'
  <2>1. CASE p # o
    <3>1. \E rec \in OrderRecord : order' = [order EXCEPT ![p] = rec]
      BY <1>5, EditEffect
    <3> QED BY <1>1, <1>4, <2>1, <3>1
  <2>2. CASE p = o
    <3>1. CASE OpenOrder(o) \/ CancelOrder(o) \/ \E k \in Key, price \in Price : SetTerms(o, k, price)
      <4>1. CASE OpenOrder(o)
        <5>1. order'[o].lines = lines /\ order'[o].drawn = order[o].drawn
          BY <1>1, <4>1 DEF OpenOrder, OrderRecord
        <5> QED BY <1>3, <5>1
      <4>2. CASE CancelOrder(o)
        <5>1. order'[o].lines = lines /\ order'[o].drawn = order[o].drawn
          BY <1>1, <4>2 DEF CancelOrder, OrderRecord
        <5> QED BY <1>3, <5>1
      <4>3. ASSUME NEW k \in Key, NEW price \in Price, SetTerms(o, k, price) PROVE LinesApart(o)'
        <5>1. order'[o].lines = lines /\ order'[o].drawn = order[o].drawn
          BY <1>1, <4>3 DEF SetTerms, OrderRecord
        <5> QED BY <1>3, <5>1
      <4> QED BY <3>1, <4>1, <4>2, <4>3
    <3>2. ASSUME NEW dish \in Dish, NEW q \in SaleQuantity, AddLine(o, dish, q) PROVE LinesApart(o)'
      <4> DEFINE id == order[o].drawn + 1
      <4>1. PICK number \in 1..MaxLines :
              /\ IsNextNumber(lines, number)
              /\ order' = [order EXCEPT ![o] =
                   [@ EXCEPT !.drawn = id, !.terms = NoTerms,
                             !.lines = With(lines, number, [id |-> id, dish |-> dish, quantity |-> q])]]
        BY <3>2 DEF AddLine
      <4>2. /\ order'[o].drawn = id
            /\ order'[o].lines = With(lines, number, [id |-> id, dish |-> dish, quantity |-> q])
        BY <1>1, <4>1 DEF OrderRecord
      <4>3. /\ DOMAIN order'[o].lines = DOMAIN lines \cup {number}
            /\ order'[o].lines[number].id = id
            /\ \A l \in DOMAIN lines \ {number} : order'[o].lines[l] = lines[l]
        BY <4>2 DEF With
      <4>4. \A l \in DOMAIN lines : lines[l].id <= order[o].drawn
        BY <1>1 DEF LinesApart
      <4>5. \A l, k \in DOMAIN lines : lines[l].id = lines[k].id => l = k
        BY <1>1 DEF LinesApart
      <4> HIDE DEF lines
      <4> QED BY <1>2, <4>2, <4>3, <4>4, <4>5 DEF LinesApart
    <3>3. ASSUME NEW dish \in Dish, NEW q \in SaleQuantity, NEW number \in DOMAIN lines,
                 UpdateLine(o, number, dish, q)
          PROVE  LinesApart(o)'
      <4>1. /\ order'[o].lines = [lines EXCEPT ![number].dish = dish, ![number].quantity = q]
            /\ order'[o].drawn = order[o].drawn
        BY <1>1, <3>3 DEF UpdateLine, SetLines, OrderRecord
      <4>2. PICK D \in SUBSET (1..MaxLines) : lines \in [D -> Line]
        BY <1>2 DEF Lines
      <4>3. DOMAIN order'[o].lines = DOMAIN lines
            /\ \A l \in DOMAIN lines : order'[o].lines[l].id = lines[l].id
        BY <4>1, <4>2 DEF Line
      <4> QED BY <1>1, <4>1, <4>3 DEF LinesApart
    <3>4. ASSUME NEW number \in DOMAIN lines, RemoveLine(o, number) PROVE LinesApart(o)'
      <4>1. /\ order'[o].lines = Restrict(lines, DOMAIN lines \ {number})
            /\ order'[o].drawn = order[o].drawn
        BY <1>1, <3>4 DEF RemoveLine, SetLines, OrderRecord
      <4>2. DOMAIN order'[o].lines = DOMAIN lines \ {number}
            /\ \A l \in DOMAIN lines \ {number} : order'[o].lines[l] = lines[l]
        BY <4>1 DEF Restrict
      <4> QED BY <1>1, <4>1, <4>2 DEF LinesApart
    <3> QED BY <1>5, <2>2, <3>1, <3>2, <3>3, <3>4 DEF Edit
  <2> QED BY <2>1, <2>2
<1>6. ASSUME NEW s \in Session, CallStep(s) PROVE LinesApart(o)'
  <2>1. CASE CompleteCommit(s)
    <3>1. order' = [order EXCEPT ![call[s].order] =
                      [@ EXCEPT !.status = "COMPLETED", !.key = call[s].key, !.pos = call[s].pos,
                                !.plan = Plan(order[call[s].order].lines),
                                !.snapshot = order[call[s].order].terms]]
      BY <2>1 DEF CompleteCommit
    <3>2. order'[o].lines = lines /\ order'[o].drawn = order[o].drawn
      BY <1>1, <3>1 DEF OrderRecord
    <3> QED BY <1>3, <3>2
  <2>2. CASE UNCHANGED order
    BY <1>3, <2>2
  <2> QED BY <1>6, <2>1, <2>2 DEF CallStep, PeekOrder, CheckKey, LockOrder, WriteDocument,
            StreamStatement, ReverseCommit, SupplyCommit, salesVars
<1>7. ASSUME NEW s \in Session, StartCall(s) \/ StartSupply(s) \/ Rollback(s) PROVE LinesApart(o)'
  BY <1>4, <1>7 DEF StartCall, StartSupply, Rollback
<1> QED BY <1>4, <1>5, <1>6, <1>7 DEF Next, vars, salesVars

-----------------------------------------------------------------------------
(* Two grains of one account *)

LEMMA CostIs ==
  ASSUME NEW T, NEW f, f = [m \in T |-> m.cost], NEW S, S \subseteq T, IsFiniteSet(S)
  PROVE  CostOf(S) = SumFunctionOnSet(f, S)
<1>1. PICK g : g = [m \in S |-> m.cost]
  OBVIOUS
<1>2. CostOf(S) = SumFunctionOnSet(g, S)
  BY <1>1, SumOfFunction DEF CostOf
<1>3. \A m \in S : g[m] = f[m]
  BY <1>1
<1> QED BY <1>2, <1>3, SumSame

LEMMA CostJoins ==
  ASSUME NEW S, NEW T, IsFiniteSet(S), IsFiniteSet(T), S \cap T = {}, \A m \in S \cup T : m.cost \in Int
  PROVE  CostOf(S \cup T) = CostOf(S) + CostOf(T) /\ CostOf(S) \in Int /\ CostOf(T) \in Int
<1>1. PICK f : f = [m \in S \cup T |-> m.cost]
  OBVIOUS
<1>2. IsFiniteSet(S \cup T) /\ \A m \in S \cup T : f[m] \in Int
  BY <1>1, FS_Union
<1>3. CostOf(S \cup T) = SumFunctionOnSet(f, S \cup T)
  BY <1>1, <1>2, CostIs
<1>4. CostOf(S) = SumFunctionOnSet(f, S)
  BY <1>1, <1>2, CostIs
<1>5. CostOf(T) = SumFunctionOnSet(f, T)
  BY <1>1, <1>2, CostIs
<1>6. SumFunctionOnSet(f, S) \in Int /\ SumFunctionOnSet(f, T) \in Int
  BY <1>2, SumInt
<1>7. SumFunctionOnSet(f, S \cup T) = SumFunctionOnSet(f, S) + SumFunctionOnSet(f, T)
  BY <1>2, SumUnion
<1> QED BY <1>3, <1>4, <1>5, <1>6, <1>7

\* An effect per line and the effect of the movement they share.
Shared(e, d) == e.type = d.type /\ e.order = d.order /\ e.item = d.item

SharesOf(L, d) == {e \in L : Shared(e, d)}

IsEffect(e) == e = Effect(e.type, e.order, e.item, e.id, e.pos, e.cost, e.certainty)

\* L tells line by line what P tells movement by movement.
SameAccount(L, P) ==
  /\ IsFiniteSet(L) /\ IsFiniteSet(P) /\ \A e \in L \cup P : IsEffect(e)
  /\ \A e \in L \cup P : e.cost \in Int
  /\ \A e \in L : \E d \in P : Shared(e, d)
  /\ \A d \in P : \E e \in L : Shared(e, d)
  /\ \A e \in L, d \in P : Shared(e, d) => e.pos = d.pos /\ e.certainty = d.certainty
  /\ \A c, d \in P : Shared(c, d) => c = d
  /\ \A d \in P : CostOf(SharesOf(L, d)) = d.cost

LEMMA SameCost ==
  ASSUME NEW L, NEW P, SameAccount(L, P)
  PROVE  CostOf(L) = CostOf(P)
<1> DEFINE told(Q) == {e \in L : \E d \in Q : Shared(e, d)}
           C == {Q \in SUBSET P : CostOf(told(Q)) # CostOf(Q)}
<1>1. ASSUME C # {} PROVE FALSE
  <2>1. PICK Q \in C : \A R \in C : R \subseteq Q => R = Q
    <3>1. C \in SUBSET (SUBSET P) /\ IsFiniteSet(P)
      BY DEF SameAccount
    <3> HIDE DEF C
    <3> QED BY <1>1, <3>1, SmallestSubset
  <2>2. Q \in SUBSET P /\ CostOf(told(Q)) # CostOf(Q)
    OBVIOUS
  <2>3. CASE Q = {}
    <3>1. told(Q) = {}
      BY <2>3
    <3> QED BY <2>2, <2>3, <3>1
  <2>4. CASE Q # {}
    <3>1. PICK d \in Q : TRUE
      BY <2>4
    <3> DEFINE R == Q \ {d}
    <3>2. CostOf(told(R)) = CostOf(R)
      <4>1. R \subseteq Q /\ R # Q /\ R \in SUBSET P
        BY <2>2, <3>1
      <4>2. R \notin C
        BY <2>1, <4>1
      <4> QED BY <4>1, <4>2
    <3>3. /\ told(Q) = told(R) \cup SharesOf(L, d) /\ told(R) \cap SharesOf(L, d) = {}
          /\ told(R) \subseteq L /\ SharesOf(L, d) \subseteq L /\ Q = R \cup {d}
      <4>1. \A e \in L, c \in R : Shared(e, d) => ~Shared(e, c)
        BY <2>2, <3>1 DEF SameAccount, Shared
      <4> QED BY <3>1, <4>1 DEF SharesOf
    <3>4. /\ IsFiniteSet(told(R)) /\ IsFiniteSet(SharesOf(L, d)) /\ IsFiniteSet(R) /\ IsFiniteSet({d})
          /\ R \cap {d} = {}
      <4>1. IsFiniteSet(L) /\ IsFiniteSet(P) /\ R \subseteq P
        BY <2>2 DEF SameAccount
      <4>2. told(R) \subseteq L /\ SharesOf(L, d) \subseteq L
        BY <3>3
      <4> HIDE DEF told
      <4> QED BY <4>1, <4>2, FS_Subset, FS_Singleton
    <3>5. /\ \A e \in told(R) \cup SharesOf(L, d) : e.cost \in Int
          /\ \A e \in R \cup {d} : e.cost \in Int
      BY <2>2, <3>3 DEF SameAccount
    <3> HIDE DEF told, R, C
    <3>6. CostOf(told(Q)) = CostOf(told(R)) + CostOf(SharesOf(L, d))
      BY <3>3, <3>4, <3>5, CostJoins
    <3>7. CostOf(Q) = CostOf(R) + CostOf({d})
      BY <3>3, <3>4, <3>5, CostJoins
    <3>8. CostOf(SharesOf(L, d)) = d.cost /\ CostOf({d}) = d.cost + 0 /\ d.cost \in Int
      BY <2>2, CostOfOne DEF SameAccount
    <3> QED BY <2>2, <3>2, <3>6, <3>7, <3>8
  <2> QED BY <2>3, <2>4
<1>2. CostOf(told(P)) = CostOf(P)
  BY <1>1
<1>3. told(P) = L
  BY DEF SameAccount
<1> QED BY <1>2, <1>3

\* What is selected of both accounts alike.
LEMMA SamePart ==
  ASSUME NEW L, NEW P, SameAccount(L, P), NEW K, NEW Q, K \subseteq L, Q \subseteq P,
         \A e \in L, d \in P : Shared(e, d) => (e \in K <=> d \in Q)
  PROVE  SameAccount(K, Q)
<1>1. IsFiniteSet(K) /\ IsFiniteSet(Q)
  BY FS_Subset DEF SameAccount
<1>2. \A d \in Q : SharesOf(K, d) = SharesOf(L, d)
  BY DEF SharesOf
<1> QED BY <1>1, <1>2 DEF SameAccount

LEMMA CostOfImage ==
  ASSUME NEW S, IsFiniteSet(S), NEW h, NEW T, T = {h[e] : e \in S},
         \A e \in S : e.cost \in Int /\ h[e].cost = e.cost,
         \A c, e \in S : h[c] = h[e] => c = e
  PROVE  CostOf(T) = CostOf(S)
<1>1. PICK f : f = [m \in S |-> m.cost]
  OBVIOUS
<1>2. PICK g : g = [m \in T |-> m.cost]
  OBVIOUS
<1>3. CostOf(S) = SumFunctionOnSet(f, S)
  BY <1>1, CostIs
<1>4. CostOf(T) = SumFunctionOnSet(g, T)
  BY <1>2, SumOfFunction DEF CostOf
<1>5. \A e \in S : f[e] \in Int /\ g[h[e]] = f[e]
  BY <1>1, <1>2
<1>6. SumFunctionOnSet(g, {h[e] : e \in S}) = SumFunctionOnSet(f, S)
  BY <1>5, SumImage
<1> QED BY <1>3, <1>4, <1>6

LEMMA ElevatedFields ==
  ASSUME NEW E, NEW e, IsEffect(e), NEW x,
         x = IF IsUnresolved(E, e) THEN [e EXCEPT !.certainty = "ORDER_UNRESOLVED"] ELSE e
  PROVE  /\ x.type = e.type /\ x.order = e.order /\ x.item = e.item /\ x.id = e.id
         /\ x.pos = e.pos /\ x.cost = e.cost /\ IsEffect(x)
         /\ x.certainty = IF IsUnresolved(E, e) THEN "ORDER_UNRESOLVED" ELSE e.certainty
BY DEF IsEffect, Effect

LEMMA SameTies ==
  ASSUME NEW L, NEW P, SameAccount(L, P), NEW e \in L, NEW d \in P, Shared(e, d)
  PROVE  IsUnresolved(L, e) <=> IsUnresolved(P, d)
<1>1. e.item = d.item /\ e.pos = d.pos /\ e.order = d.order
  BY DEF SameAccount, Shared
<1>2. ASSUME IsUnresolved(L, e) PROVE IsUnresolved(P, d)
  <2>1. PICK x \in L : x.item = e.item /\ x.pos = e.pos /\ x.order # e.order
    BY <1>2 DEF IsUnresolved
  <2>2. PICK y \in P : Shared(x, y)
    BY DEF SameAccount
  <2>3. y.item = x.item /\ y.pos = x.pos /\ y.order = x.order
    BY <2>2 DEF SameAccount, Shared
  <2> QED BY <1>1, <2>1, <2>3 DEF IsUnresolved
<1>3. ASSUME IsUnresolved(P, d) PROVE IsUnresolved(L, e)
  <2>1. PICK y \in P : y.item = d.item /\ y.pos = d.pos /\ y.order # d.order
    BY <1>3 DEF IsUnresolved
  <2>2. PICK x \in L : Shared(x, y)
    BY DEF SameAccount
  <2>3. y.item = x.item /\ y.pos = x.pos /\ y.order = x.order
    BY <2>2 DEF SameAccount, Shared
  <2> QED BY <1>1, <2>1, <2>3 DEF IsUnresolved
<1> QED BY <1>2, <1>3

\* Ties are found alike in both accounts.
LEMMA SameElevated ==
  ASSUME NEW L, NEW P, SameAccount(L, P)
  PROVE  SameAccount(applyUnresolvedChronology(L), applyUnresolvedChronology(P))
<1> DEFINE M == applyUnresolvedChronology(L)
           Q == applyUnresolvedChronology(P)
<1>1. PICK h : h = [e \in L |-> IF IsUnresolved(L, e) THEN [e EXCEPT !.certainty = "ORDER_UNRESOLVED"] ELSE e]
  OBVIOUS
<1>2. PICK k : k = [e \in P |-> IF IsUnresolved(P, e) THEN [e EXCEPT !.certainty = "ORDER_UNRESOLVED"] ELSE e]
  OBVIOUS
<1>3. M = {h[e] : e \in L} /\ Q = {k[e] : e \in P}
  BY <1>1, <1>2 DEF applyUnresolvedChronology
<1>4. \A e \in L : /\ h[e].type = e.type /\ h[e].order = e.order /\ h[e].item = e.item /\ h[e].id = e.id
                   /\ h[e].pos = e.pos /\ h[e].cost = e.cost /\ IsEffect(h[e])
                   /\ h[e].certainty = IF IsUnresolved(L, e) THEN "ORDER_UNRESOLVED" ELSE e.certainty
  <2> TAKE e \in L
  <2>1. IsEffect(e)
    BY DEF SameAccount
  <2>2. h[e] = IF IsUnresolved(L, e) THEN [e EXCEPT !.certainty = "ORDER_UNRESOLVED"] ELSE e
    BY <1>1
  <2> QED BY <2>1, <2>2, ElevatedFields
<1>5. \A d \in P : /\ k[d].type = d.type /\ k[d].order = d.order /\ k[d].item = d.item /\ k[d].id = d.id
                   /\ k[d].pos = d.pos /\ k[d].cost = d.cost /\ IsEffect(k[d])
                   /\ k[d].certainty = IF IsUnresolved(P, d) THEN "ORDER_UNRESOLVED" ELSE d.certainty
  <2> TAKE d \in P
  <2>1. IsEffect(d)
    BY DEF SameAccount
  <2>2. k[d] = IF IsUnresolved(P, d) THEN [d EXCEPT !.certainty = "ORDER_UNRESOLVED"] ELSE d
    BY <1>2
  <2> QED BY <2>1, <2>2, ElevatedFields
<1> HIDE DEF M, Q
<1>6. IsFiniteSet(M) /\ IsFiniteSet(Q)
  BY <1>3, ImageIsFinite DEF SameAccount
<1>7. \A e \in M \cup Q : IsEffect(e) /\ e.cost \in Int
  BY <1>3, <1>4, <1>5 DEF SameAccount
<1>8. \A e \in L, d \in P : Shared(h[e], k[d]) <=> Shared(e, d)
  BY <1>4, <1>5 DEF Shared
<1>9. \A c, d \in P : Shared(k[c], k[d]) <=> Shared(c, d)
  BY <1>5 DEF Shared
<1>10. /\ \A e \in M : \E d \in Q : Shared(e, d)
       /\ \A d \in Q : \E e \in M : Shared(e, d)
       /\ \A c, d \in Q : Shared(c, d) => c = d
  BY <1>3, <1>8, <1>9 DEF SameAccount
<1>11. ASSUME NEW e \in L, NEW d \in P, Shared(e, d)
       PROVE  h[e].pos = k[d].pos /\ h[e].certainty = k[d].certainty
  <2>1. e.pos = d.pos /\ e.certainty = d.certainty
    BY <1>11 DEF SameAccount
  <2>2. IsUnresolved(L, e) <=> IsUnresolved(P, d)
    BY <1>11, SameTies
  <2> QED BY <1>4, <1>5, <2>1, <2>2
<1>12. \A e \in M, d \in Q : Shared(e, d) => e.pos = d.pos /\ e.certainty = d.certainty
  BY <1>3, <1>8, <1>11
<1>13. ASSUME NEW d \in P PROVE CostOf(SharesOf(M, k[d])) = k[d].cost
  <2> DEFINE S == SharesOf(L, d)
  <2>1. SharesOf(M, k[d]) = {h[e] : e \in S}
    BY <1>3, <1>8 DEF SharesOf
  <2>2. S \subseteq L /\ IsFiniteSet(S)
    BY FS_Subset DEF SharesOf, SameAccount
  <2>3. \A c, e \in S : h[c] = h[e] => c = e
    <3> SUFFICES ASSUME NEW c \in S, NEW e \in S, h[c] = h[e] PROVE c = e
      OBVIOUS
    <3>1. c \in L /\ e \in L /\ Shared(c, d) /\ Shared(e, d)
      BY DEF SharesOf
    <3>2. IsEffect(c) /\ IsEffect(e) /\ c.certainty = e.certainty /\ c.pos = e.pos
      BY <3>1 DEF SameAccount
    <3>3. c.type = e.type /\ c.order = e.order /\ c.item = e.item /\ c.id = e.id /\ c.cost = e.cost
      BY <1>4, <3>1
    <3> QED BY <3>2, <3>3 DEF IsEffect
  <2>4. \A e \in S : e.cost \in Int /\ h[e].cost = e.cost
    BY <1>4, <2>2 DEF SameAccount
  <2>5. CostOf(S) = d.cost
    BY DEF SameAccount
  <2> HIDE DEF S
  <2>6. CostOf(SharesOf(M, k[d])) = CostOf(S)
    BY <2>1, <2>2, <2>3, <2>4, CostOfImage
  <2> QED BY <1>5, <2>5, <2>6
<1>14. \A d \in Q : CostOf(SharesOf(M, d)) = d.cost
  BY <1>3, <1>13
<1>15. SameAccount(M, Q)
  BY <1>6, <1>7, <1>10, <1>12, <1>14 DEF SameAccount
<1> QED BY <1>15 DEF M, Q

\* Two accounts that are the same add up to the same report.
LEMMA SameReport ==
  ASSUME NEW L, NEW P, SameAccount(L, P)
  PROVE  aggregateEffects(L) = aggregateEffects(P)
<1> DEFINE good(E) == {e \in E : e.certainty \in {"FINAL", "ESTIMATED_FROM_LAST_KNOWN"}}
<1>1. SameAccount(good(L), good(P))
  <2>1. \A e \in L, d \in P : Shared(e, d) => (e \in good(L) <=> d \in good(P))
    BY DEF SameAccount
  <2> QED BY <2>1, SamePart
<1>2. CostOf(good(L)) = CostOf(good(P)) /\ CostOf(L) = CostOf(P)
  BY <1>1, SameCost
<1>3. {e.certainty : e \in L} = {e.certainty : e \in P}
  BY DEF SameAccount
<1>4. good(L) = L <=> good(P) = P
  BY DEF SameAccount
<1> HIDE DEF good
<1>5. \A E : aggregateEffects(E) =
        [certainty |-> mergeReportingCertainty({e.certainty : e \in E}),
         knownSubtotal |-> CostOf(good(E)),
         actualCogs |-> IF good(E) = E THEN CostOf(E) ELSE NoCost]
  BY DEF aggregateEffects, good
<1> QED BY <1>2, <1>3, <1>4, <1>5

-----------------------------------------------------------------------------
(* The cost of a movement, dealt out to its lines *)

LEMMA LastLeaf ==
  ASSUME NEW S, IsFiniteSet(S), S # {},
         \A x \in S : x.line \in Nat /\ x.leaf \in Nat,
         \A x, y \in S : x.line = y.line /\ x.leaf = y.leaf => x = y
  PROVE  \E z \in S : /\ \A x \in S \ {z} : LineOrder(x, z) /\ ~LineOrder(z, x)
                      /\ ~LineOrder(z, z)
<1> DEFINE last(T, z) == \A x \in T \ {z} : LineOrder(x, z)
           C == {T \in SUBSET S : T # {} /\ \A z \in T : ~last(T, z)}
<1>1. \A x, y, z \in S : LineOrder(x, y) /\ LineOrder(y, z) => LineOrder(x, z)
  BY DEF LineOrder
<1>2. \A x, y \in S : x = y \/ LineOrder(x, y) \/ LineOrder(y, x)
  BY DEF LineOrder
<1>3. ASSUME C # {} PROVE FALSE
  <2>1. PICK T \in C : \A U \in C : U \subseteq T => U = T
    <3>1. C \in SUBSET (SUBSET S)
      OBVIOUS
    <3> HIDE DEF C
    <3> QED BY <1>3, <3>1, SmallestSubset
  <2>2. T \in SUBSET S /\ T # {} /\ \A z \in T : ~last(T, z)
    OBVIOUS
  <2>3. PICK y \in T : TRUE
    BY <2>2
  <2>4. T \ {y} \notin C /\ T \ {y} \in SUBSET S
    <3> HIDE DEF C
    <3>1. T \ {y} \subseteq T /\ T \ {y} # T /\ T \ {y} \in SUBSET S
      BY <2>2, <2>3
    <3> QED BY <2>1, <3>1
  <2>5. CASE T \ {y} = {}
    <3>1. last(T, y)
      BY <2>5
    <3> QED BY <2>2, <2>3, <3>1
  <2>6. CASE T \ {y} # {}
    <3>1. PICK z \in T \ {y} : last(T \ {y}, z)
      BY <2>4, <2>6
    <3>2. CASE LineOrder(y, z)
      <4>1. last(T, z)
        BY <3>1, <3>2
      <4> QED BY <2>2, <3>1, <4>1
    <3>3. CASE LineOrder(z, y)
      <4>1. last(T, y)
        BY <1>1, <2>2, <2>3, <3>1, <3>3
      <4> QED BY <2>2, <2>3, <4>1
    <3> QED BY <1>2, <2>2, <2>3, <3>1, <3>2, <3>3
  <2> QED BY <2>5, <2>6
<1>4. PICK z \in S : last(S, z)
  BY <1>3
<1>5. \A x \in S \ {z} : ~LineOrder(z, x)
  BY <1>4 DEF LineOrder
<1>6. ~LineOrder(z, z)
  BY DEF LineOrder
<1> QED BY <1>4, <1>5, <1>6

\* postGoodsIssueFromConsumptionPlan: the last line takes what the others leave.
LEMMA SharesAddUp ==
  ASSUME NEW o, NEW i, IsFiniteSet(LeavesOf(o, i)), LeavesOf(o, i) # {},
         \A x \in LeavesOf(o, i) : x.line \in Nat /\ x.leaf \in Nat /\ x.quantity \in Nat,
         \A x, y \in LeavesOf(o, i) : x.line = y.line /\ x.leaf = y.leaf => x = y,
         IssueOf(o, i).cost \in Int, IssueOf(o, i).quantity \in Nat, IssueOf(o, i).quantity > 0,
         NEW f, \A l \in LeavesOf(o, i) : f[l] = LeafCost(o, l)
  PROVE  /\ SumFunctionOnSet(f, LeavesOf(o, i)) = IssueOf(o, i).cost
         /\ \A l \in LeavesOf(o, i) : LeafCost(o, l) \in Int
<1> DEFINE leaves == LeavesOf(o, i)
           m == IssueOf(o, i)
           share(x) == (m.cost * x.quantity) \div m.quantity
           earlier(l) == {x \in leaves : LineOrder(x, l)}
<1>1. \A l \in leaves : LeafCost(o, l) =
        IF earlier(l) # leaves \ {l} THEN share(l)
        ELSE m.cost - SumFunction([x \in earlier(l) |-> share(x)])
  BY DEF LeafCost, LeavesOf
<1>2. PICK z \in leaves : /\ \A x \in leaves \ {z} : LineOrder(x, z) /\ ~LineOrder(z, x)
                          /\ ~LineOrder(z, z)
  BY LastLeaf
<1>3. \A x \in leaves : share(x) \in Int
  <2> TAKE x \in leaves
  <2>1. m.cost * x.quantity \in Int /\ m.quantity \in Nat /\ m.quantity > 0
    OBVIOUS
  <2> HIDE DEF m
  <2> QED BY <2>1
<1> HIDE DEF share
<1>4. earlier(z) = leaves \ {z} /\ \A l \in leaves \ {z} : earlier(l) # leaves \ {l}
  BY <1>2
<1>5. PICK g : g = [x \in leaves \ {z} |-> share(x)]
  OBVIOUS
<1>6. LeafCost(o, z) = m.cost - SumFunction(g)
  BY <1>1, <1>4, <1>5
<1> HIDE DEF earlier
<1>7. \A l \in leaves \ {z} : LeafCost(o, l) = share(l) /\ LeafCost(o, l) \in Int
  <2> TAKE l \in leaves \ {z}
  <2>1. LeafCost(o, l) = share(l)
    BY <1>1, <1>4
  <2> QED BY <1>3, <2>1
<1> HIDE DEF leaves, m
<1>8. IsFiniteSet(leaves) /\ IsFiniteSet(leaves \ {z}) /\ m.cost \in Int
  BY FS_Subset DEF leaves, m
<1>9. SumFunction(g) = SumFunctionOnSet(g, leaves \ {z}) /\ SumFunctionOnSet(g, leaves \ {z}) \in Int
  BY <1>3, <1>5, <1>8, SumOfFunction, SumInt
<1>10. \A l \in leaves : LeafCost(o, l) \in Int /\ f[l] = LeafCost(o, l)
  BY <1>6, <1>7, <1>8, <1>9 DEF leaves
<1>11. SumFunctionOnSet(f, leaves) = f[z] + SumFunctionOnSet(f, leaves \ {z})
  BY <1>8, <1>10, SumElement
<1>12. \A l \in leaves \ {z} : f[l] = g[l]
  BY <1>5, <1>7, <1>10
<1>13. SumFunctionOnSet(f, leaves \ {z}) = SumFunctionOnSet(g, leaves \ {z})
  BY <1>8, <1>12, SumSame
<1>14. f[z] = m.cost - SumFunctionOnSet(g, leaves \ {z})
  BY <1>6, <1>9, <1>10
<1>15. SumFunctionOnSet(f, leaves) = m.cost
  BY <1>8, <1>9, <1>11, <1>13, <1>14
<1> QED BY <1>10, <1>15 DEF leaves, m

\* One document at both grains: a and b give the effects of its lines and of its
\* movements, f the costs of the lines.
Grains(plan, rows, a, b, f, type, o) ==
  /\ IsFiniteSet(plan) /\ StreamsOf(rows) = StreamsOf(plan)
  /\ \A l \in plan : /\ IsEffect(a[l]) /\ a[l].type = type /\ a[l].order = o
                     /\ a[l].item = l.item /\ a[l].cost \in Int
  /\ \A m \in rows : /\ IsEffect(b[m]) /\ b[m].type = type /\ b[m].order = o
                     /\ b[m].item = m.item /\ b[m].cost \in Int
  /\ \A k, l \in plan : a[k] = a[l] => k = l
  /\ \A m, n \in rows : m.item = n.item => m = n
  /\ \A l \in plan, m \in rows :
       l.item = m.item => a[l].pos = b[m].pos /\ a[l].certainty = b[m].certainty
  /\ \A l \in plan : f[l] = a[l].cost
  /\ \A m \in rows : SumFunctionOnSet(f, {l \in plan : l.item = m.item}) = b[m].cost

LEMMA OneDocument ==
  ASSUME NEW plan, NEW rows, NEW a, NEW b, NEW f, NEW type, NEW o,
         Grains(plan, rows, a, b, f, type, o)
  PROVE  SameAccount({a[l] : l \in plan}, {b[m] : m \in rows})
<1> DEFINE L == {a[l] : l \in plan}
           P == {b[m] : m \in rows}
<1> USE DEF Grains
<1>1. IsFiniteSet(L)
  BY ImageIsFinite
<1>2. IsFiniteSet(rows)
  <2>1. PICK h : h = [l \in plan |-> CHOOSE m \in rows : m.item = l.item]
    OBVIOUS
  <2>2. \A m \in rows : \E l \in plan : l.item = m.item
    BY DEF StreamsOf
  <2>3. \A m \in rows : \E l \in plan : h[l] = m
    BY <2>1, <2>2
  <2>4. \A l \in plan : h[l] \in rows
    <3>1. \A l \in plan : \E m \in rows : m.item = l.item
      BY DEF StreamsOf
    <3> QED BY <2>1, <3>1
  <2>5. rows = {h[l] : l \in plan}
    BY <2>3, <2>4
  <2> QED BY <2>5, ImageIsFinite
<1>3. IsFiniteSet(P)
  BY <1>2, ImageIsFinite
<1>4. \A e \in L \cup P : IsEffect(e) /\ e.cost \in Int
  OBVIOUS
<1>5. \A l \in plan, m \in rows : Shared(a[l], b[m]) <=> l.item = m.item
  BY DEF Shared
<1>6. /\ \A l \in plan : \E m \in rows : l.item = m.item
      /\ \A m \in rows : \E l \in plan : l.item = m.item
  BY DEF StreamsOf
<1>7. /\ \A e \in L : \E d \in P : Shared(e, d)
      /\ \A d \in P : \E e \in L : Shared(e, d)
  BY <1>5, <1>6
<1>8. \A e \in L, d \in P : Shared(e, d) => e.pos = d.pos /\ e.certainty = d.certainty
  BY <1>5
<1>9. \A c, d \in P : Shared(c, d) => c = d
  BY DEF Shared
<1>10. ASSUME NEW m \in rows PROVE CostOf(SharesOf(L, b[m])) = b[m].cost
  <2> DEFINE S == {l \in plan : l.item = m.item}
             T == SharesOf(L, b[m])
  <2>1. T = {a[l] : l \in S}
    BY <1>5 DEF SharesOf
  <2>2. IsFiniteSet(S) /\ S \subseteq plan
    BY FS_Subset
  <2>3. PICK g : g = [e \in T |-> e.cost]
    OBVIOUS
  <2>4. CostOf(T) = SumFunctionOnSet(g, T)
    BY <2>3, SumOfFunction DEF CostOf
  <2>5. SumFunctionOnSet(f, S) = b[m].cost
    OBVIOUS
  <2> HIDE DEF S, T
  <2>6. \A l \in S : f[l] \in Int /\ g[a[l]] = f[l]
    BY <2>1, <2>2, <2>3
  <2>7. SumFunctionOnSet(g, {a[l] : l \in S}) = SumFunctionOnSet(f, S)
    BY <2>2, <2>6, SumImage
  <2> QED BY <2>1, <2>4, <2>5, <2>7 DEF T
<1>11. \A d \in P : CostOf(SharesOf(L, d)) = d.cost
  BY <1>10
<1> QED BY <1>1, <1>3, <1>4, <1>7, <1>8, <1>9, <1>11 DEF SameAccount

\* Accounts of several documents that share nothing.
Apart(D, A, B) ==
  /\ IsFiniteSet(D) /\ \A x \in D : SameAccount(A[x], B[x])
  /\ \A x, y \in D : \A e \in A[x] \cup B[x], d \in A[y] \cup B[y] : Shared(e, d) => x = y

LEMMA AllDocuments ==
  ASSUME NEW D, NEW A, NEW B, Apart(D, A, B)
  PROVE  SameAccount(UNION {A[x] : x \in D}, UNION {B[x] : x \in D})
<1> DEFINE L == UNION {A[x] : x \in D}
           P == UNION {B[x] : x \in D}
<1> USE DEF Apart
<1>1. IsFiniteSet(L) /\ IsFiniteSet(P)
  <2>1. IsFiniteSet({A[x] : x \in D}) /\ IsFiniteSet({B[x] : x \in D})
    BY ImageIsFinite
  <2>2. \A x \in D : IsFiniteSet(A[x]) /\ IsFiniteSet(B[x])
    BY DEF SameAccount
  <2> QED BY <2>1, <2>2, FS_UNION
<1>2. /\ \A e : e \in L <=> \E x \in D : e \in A[x]
      /\ \A d : d \in P <=> \E x \in D : d \in B[x]
  OBVIOUS
<1>3. \A e \in L \cup P : IsEffect(e) /\ e.cost \in Int
  BY <1>2 DEF SameAccount
<1>4. /\ \A e \in L : \E d \in P : Shared(e, d)
      /\ \A d \in P : \E e \in L : Shared(e, d)
  BY <1>2 DEF SameAccount
<1>5. \A e \in L, d \in P : Shared(e, d) => \E x \in D : e \in A[x] /\ d \in B[x]
  BY <1>2
<1>6. \A e \in L, d \in P : Shared(e, d) => e.pos = d.pos /\ e.certainty = d.certainty
  BY <1>5 DEF SameAccount
<1>7. \A c, d \in P : Shared(c, d) => c = d
  BY <1>2 DEF SameAccount
<1>8. ASSUME NEW d \in P PROVE CostOf(SharesOf(L, d)) = d.cost
  <2>1. PICK x \in D : d \in B[x]
    BY <1>2
  <2>2. SharesOf(L, d) = SharesOf(A[x], d)
    BY <1>2, <2>1 DEF SharesOf
  <2>3. SameAccount(A[x], B[x])
    OBVIOUS
  <2> QED BY <2>1, <2>2, <2>3 DEF SameAccount
<1> QED BY <1>1, <1>3, <1>4, <1>6, <1>7, <1>8 DEF SameAccount

-----------------------------------------------------------------------------
(* The goods issues of the orders *)

LEMMA PlanLeaves ==
  ASSUME TypeOK, LinesInv, NEW o \in Order
  PROVE  LET plan == Plan(order[o].lines) IN
         /\ \A x \in plan : x.line \in Nat /\ x.leaf \in Nat /\ x.quantity \in Nat /\ x.quantity > 0
         /\ \A x, y \in plan : x.line = y.line /\ x.leaf = y.leaf => x = y
<1> DEFINE lines == order[o].lines
           leaf(l, i) == [line |-> lines[l].id, leaf |-> i, item |-> Menu[lines[l].dish][i].item,
                          quantity |-> Menu[lines[l].dish][i].quantity * lines[l].quantity]
<1>0. lines \in Lines
  <2>1. order[o] \in OrderRecord
    BY DEF TypeOK
  <2> QED BY <2>1 DEF OrderRecord
<1>1. PICK D \in SUBSET (1..MaxLines) : lines \in [D -> Line]
  BY <1>0 DEF Lines
<1>2. \A l \in D : /\ lines[l].id \in 1..MaxLines /\ lines[l].dish \in Dish
                   /\ lines[l].quantity \in SaleQuantity
  BY <1>1 DEF Line
<1>3. ASSUME NEW x \in Plan(lines)
      PROVE  \E l \in D : \E i \in DOMAIN Menu[lines[l].dish] : x = leaf(l, i)
  BY <1>1 DEF Plan
<1>4. ASSUME NEW l \in D, NEW i \in DOMAIN Menu[lines[l].dish]
      PROVE  i \in Nat /\ Menu[lines[l].dish][i].quantity \in Nat /\ Menu[lines[l].dish][i].quantity > 0
  <2>1. PICK R : R = [item : Item, quantity : Nat \ {0}]
    OBVIOUS
  <2>2. \A dish \in Dish : Menu[dish] \in Seq(R)
    BY <2>1, SalesAssumption
  <2>3. PICK seq \in Seq(R) : seq = Menu[lines[l].dish]
    BY <1>2, <2>2
  <2> HIDE DEF leaf, lines
  <2>4. i \in DOMAIN seq
    BY <2>3
  <2>5. i \in Nat /\ seq[i] \in R
    BY <2>4
  <2>6. seq[i].quantity \in Nat \ {0}
    BY <2>1, <2>5
  <2>7. seq[i].quantity > 0
    BY <2>6
  <2> QED BY <2>3, <2>5, <2>6, <2>7
<1>5. ASSUME NEW l \in D
      PROVE  lines[l].id \in Nat /\ lines[l].quantity \in Nat /\ lines[l].quantity > 0
  <2>1. \A q \in SaleQuantity : q \in Nat /\ q > 0
    BY SalesAssumption
  <2>2. 1..MaxLines \subseteq Nat
    BY SalesAssumption
  <2> HIDE DEF leaf, lines
  <2> QED BY <1>2, <2>1, <2>2
<1>6. \A l, k \in D : lines[l].id = lines[k].id => l = k
  BY <1>1 DEF LinesInv, LinesApart
<1>7. ASSUME NEW x \in Plan(lines)
      PROVE  x.line \in Nat /\ x.leaf \in Nat /\ x.quantity \in Nat /\ x.quantity > 0
  <2>1. PICK l \in D : \E i \in DOMAIN Menu[lines[l].dish] : x = leaf(l, i)
    BY <1>3
  <2>2. PICK i \in DOMAIN Menu[lines[l].dish] : x = leaf(l, i)
    BY <2>1
  <2>3. PICK a : a = Menu[lines[l].dish][i].quantity
    OBVIOUS
  <2>4. PICK b : b = lines[l].quantity
    OBVIOUS
  <2>5. x.line = lines[l].id /\ x.leaf = i /\ x.quantity = a * b
    BY <2>2, <2>3, <2>4
  <2>6. a \in Nat /\ a > 0 /\ b \in Nat /\ b > 0 /\ i \in Nat /\ lines[l].id \in Nat
    BY <1>4, <1>5, <2>3, <2>4
  <2>7. a * b \in Nat /\ a * b > 0
    BY <2>6
  <2> QED BY <2>5, <2>6, <2>7
<1>8. ASSUME NEW x \in Plan(lines), NEW y \in Plan(lines), x.line = y.line, x.leaf = y.leaf
      PROVE  x = y
  <2>1. PICK l \in D : \E i \in DOMAIN Menu[lines[l].dish] : x = leaf(l, i)
    BY <1>3
  <2>2. PICK i \in DOMAIN Menu[lines[l].dish] : x = leaf(l, i)
    BY <2>1
  <2>3. PICK k \in D : \E j \in DOMAIN Menu[lines[k].dish] : y = leaf(k, j)
    BY <1>3
  <2>4. PICK j \in DOMAIN Menu[lines[k].dish] : y = leaf(k, j)
    BY <2>3
  <2>5. lines[l].id = lines[k].id /\ i = j
    BY <1>8, <2>2, <2>4
  <2>6. l = k
    BY <1>6, <2>5
  <2> QED BY <2>2, <2>4, <2>5, <2>6
<1> QED BY <1>7, <1>8

\* What goods issues and their reversals look like, as far as reports read them.
LEMMA SoldOrder ==
  ASSUME SalesInv, DocumentsInv, LinesInv, NEW o \in DOMAIN goodsIssue
  PROVE  LET plan == order[o].plan
             rows == MovementsOf("issue", o)
         IN
         /\ IsFiniteSet(plan) /\ StreamsOf(rows) = StreamsOf(plan)
         /\ \A x \in plan : x.line \in Nat /\ x.leaf \in Nat /\ x.quantity \in Nat
         /\ \A x, y \in plan : x.line = y.line /\ x.leaf = y.leaf => x = y
         /\ \A m, n \in rows : m.item = n.item => m = n
         /\ \A m \in rows : /\ IssueOf(o, m.item) = m /\ m.pos = goodsIssue[o].pos
                            /\ m.cost \in Int /\ m.quantity \in Nat /\ m.quantity > 0
<1>1. o \in Order /\ order[o].status = "COMPLETED" /\ order[o].lines \in Lines
  BY DEF SalesInv, TypeOK, OrderRecord
<1>2. order[o].plan = Plan(order[o].lines) /\ goodsIssue[o].pos = order[o].pos
  <2>1. OrderOK(o)
    BY <1>1 DEF DocumentsInv
  <2> QED BY <1>1, <2>1 DEF OrderOK
<1>3. /\ IsFiniteSet(order[o].plan)
      /\ \A x \in order[o].plan : /\ x.line \in Nat /\ x.leaf \in Nat
                                  /\ x.quantity \in Nat /\ x.quantity > 0
      /\ \A x, y \in order[o].plan : x.line = y.line /\ x.leaf = y.leaf => x = y
  <2>1. IsFiniteSet(order[o].plan)
    BY <1>1, <1>2, PlanIsFinite
  <2> QED BY <1>1, <1>2, <2>1, PlanLeaves DEF SalesInv
<1>4. SoldOnce(o)
  BY <1>1 DEF SalesInv, SoldExactlyOnce
<1>5. /\ StreamsOf(MovementsOf("issue", o)) = StreamsOf(order[o].plan)
      /\ \A m \in MovementsOf("issue", o) : /\ m.quantity = QuantityOf(order[o].plan, m.item)
                                            /\ m.pos = order[o].pos
      /\ \A m, n \in MovementsOf("issue", o) : m.item = n.item => m = n
  BY <1>1, <1>4 DEF SoldOnce
<1>6. ASSUME NEW m \in MovementsOf("issue", o)
      PROVE  /\ IssueOf(o, m.item) = m /\ m.pos = goodsIssue[o].pos
             /\ m.cost \in Int /\ m.quantity \in Nat /\ m.quantity > 0
  <2>1. m \in Movement /\ m.cost \in Int
    BY MovementAssumption DEF WellFormed, MovementsOf, SalesInv, TypeOK, StreamTypeOK
  <2>2. IssueOf(o, m.item) = m
    BY <1>5 DEF IssueOf
  <2> DEFINE of == {l \in order[o].plan : l.item = m.item}
  <2>3. PICK f : f = [l \in of |-> l.quantity]
    OBVIOUS
  <2>4. QuantityOf(order[o].plan, m.item) = SumFunctionOnSet(f, of)
    BY <2>3, SumOfFunction DEF QuantityOf
  <2>5. IsFiniteSet(of) /\ of # {}
    <3>1. m.item \in StreamsOf(order[o].plan)
      BY <1>5 DEF StreamsOf
    <3> QED BY <1>3, <3>1, FS_Subset DEF StreamsOf
  <2>6. \A l \in of : f[l] \in Int /\ f[l] > 0
    BY <1>3, <2>3
  <2> HIDE DEF of
  <2>7. SumFunctionOnSet(f, of) \in Int /\ SumFunctionOnSet(f, of) > 0
    BY <2>5, <2>6, SumPositive
  <2>8. m.quantity \in Nat /\ m.quantity > 0
    BY <1>5, <2>4, <2>7
  <2> QED BY <1>2, <1>5, <2>1, <2>2, <2>8
<1> QED BY <1>3, <1>5, <1>6

\* The two grains of o's goods issue, and of its reversal.
SaleLines(o) ==
  { Effect("SALE", o, l.item, <<l.line, l.leaf>>, goodsIssue[o].pos, LeafCost(o, l),
           IssueOf(o, l.item).certainty) : l \in order[o].plan }

SaleMoves(o) ==
  { Effect("SALE", o, m.item, m.id, m.pos, m.cost, m.certainty) : m \in MovementsOf("issue", o) }

BackLines(o) ==
  { Effect("REVERSAL", o, l.item, <<l.line, l.leaf>>, reversal[o].pos, -LeafCost(o, l),
           IssueOf(o, l.item).certainty) : l \in order[o].plan }

BackMoves(o) ==
  { Effect("REVERSAL", o, m.item, m.id, m.pos, -m.cost, m.certainty) :
    m \in MovementsOf("reversal", o) }

OfDocument(E, type, o) == \A e \in E : IsEffect(e) /\ e.type = type /\ e.order = o

LEMMA EffectIs ==
  ASSUME NEW type, NEW o, NEW i, NEW id, NEW pos, NEW cost, NEW certainty, NEW e,
         e = Effect(type, o, i, id, pos, cost, certainty)
  PROVE  /\ IsEffect(e) /\ e.type = type /\ e.order = o /\ e.item = i /\ e.id = id /\ e.pos = pos
         /\ e.cost = cost /\ e.certainty = certainty
BY DEF IsEffect, Effect

\* Every line of a goods issue has its share, and the shares of a movement add up to it.
LEMMA IssueShares ==
  ASSUME SalesInv, DocumentsInv, LinesInv, NEW o \in DOMAIN goodsIssue,
         NEW f, \A l \in order[o].plan : f[l] = LeafCost(o, l)
  PROVE  /\ \A l \in order[o].plan : LeafCost(o, l) \in Int
         /\ \A m \in MovementsOf("issue", o) :
              SumFunctionOnSet(f, {l \in order[o].plan : l.item = m.item}) = m.cost
<1> DEFINE plan == order[o].plan
           rows == MovementsOf("issue", o)
<1>1. /\ IsFiniteSet(plan) /\ StreamsOf(rows) = StreamsOf(plan)
      /\ \A x \in plan : x.line \in Nat /\ x.leaf \in Nat /\ x.quantity \in Nat
      /\ \A x, y \in plan : x.line = y.line /\ x.leaf = y.leaf => x = y
      /\ \A m \in rows : /\ IssueOf(o, m.item) = m
                         /\ m.cost \in Int /\ m.quantity \in Nat /\ m.quantity > 0
  BY SoldOrder
<1>2. ASSUME NEW m \in rows
      PROVE  /\ SumFunctionOnSet(f, LeavesOf(o, m.item)) = m.cost
             /\ \A l \in LeavesOf(o, m.item) : LeafCost(o, l) \in Int
  <2>1. PICK i : i = m.item
    OBVIOUS
  <2>2. LeavesOf(o, i) \subseteq plan /\ IsFiniteSet(LeavesOf(o, i))
    BY <1>1, FS_Subset DEF LeavesOf
  <2>3. LeavesOf(o, i) # {}
    BY <1>1, <2>1 DEF StreamsOf, LeavesOf
  <2>4. IssueOf(o, i) = m
    BY <1>1, <2>1
  <2> HIDE DEF plan, rows
  <2>5. \A l \in LeavesOf(o, i) : f[l] = LeafCost(o, l)
    BY <2>2 DEF plan
  <2>6. /\ SumFunctionOnSet(f, LeavesOf(o, i)) = IssueOf(o, i).cost
        /\ \A l \in LeavesOf(o, i) : LeafCost(o, l) \in Int
    BY <1>1, <2>2, <2>3, <2>4, <2>5, SharesAddUp
  <2> QED BY <2>1, <2>4, <2>6
<1>3. ASSUME NEW l \in plan PROVE LeafCost(o, l) \in Int
  <2>1. PICK m \in rows : m.item = l.item
    BY <1>1 DEF StreamsOf
  <2> QED BY <1>2, <2>1 DEF LeavesOf
<1>4. \A m \in rows : LeavesOf(o, m.item) = {l \in plan : l.item = m.item}
  BY DEF LeavesOf
<1> QED BY <1>2, <1>3, <1>4

LEMMA SaleAccount ==
  ASSUME SalesInv, DocumentsInv, LinesInv, NEW o \in DOMAIN goodsIssue
  PROVE  /\ SameAccount(SaleLines(o), SaleMoves(o))
         /\ OfDocument(SaleLines(o) \cup SaleMoves(o), "SALE", o)
<1>1. PICK plan : plan = order[o].plan
  OBVIOUS
<1>2. PICK rows : rows = MovementsOf("issue", o)
  OBVIOUS
<1>3. /\ IsFiniteSet(plan) /\ StreamsOf(rows) = StreamsOf(plan)
      /\ \A x, y \in plan : x.line = y.line /\ x.leaf = y.leaf => x = y
      /\ \A m, n \in rows : m.item = n.item => m = n
      /\ \A m \in rows : IssueOf(o, m.item) = m /\ m.pos = goodsIssue[o].pos /\ m.cost \in Int
  BY <1>1, <1>2, SoldOrder
<1>4. PICK f : f = [l \in plan |-> LeafCost(o, l)]
  OBVIOUS
<1>5. /\ \A l \in plan : f[l] \in Int /\ f[l] = LeafCost(o, l)
      /\ \A m \in rows : SumFunctionOnSet(f, {l \in plan : l.item = m.item}) = m.cost
  BY <1>1, <1>2, <1>4, IssueShares
<1>6. PICK a : a = [l \in plan |-> Effect("SALE", o, l.item, <<l.line, l.leaf>>, goodsIssue[o].pos,
                                         LeafCost(o, l), IssueOf(o, l.item).certainty)]
  OBVIOUS
<1>7. PICK b : b = [m \in rows |-> Effect("SALE", o, m.item, m.id, m.pos, m.cost, m.certainty)]
  OBVIOUS
<1>8. \A l \in plan : /\ IsEffect(a[l]) /\ a[l].type = "SALE" /\ a[l].order = o
                      /\ a[l].item = l.item /\ a[l].id = <<l.line, l.leaf>>
                      /\ a[l].pos = goodsIssue[o].pos /\ a[l].cost = f[l]
                      /\ a[l].certainty = IssueOf(o, l.item).certainty
  <2> TAKE l \in plan
  <2>1. a[l] = Effect("SALE", o, l.item, <<l.line, l.leaf>>, goodsIssue[o].pos,
                      LeafCost(o, l), IssueOf(o, l.item).certainty)
    BY <1>6
  <2>2. f[l] = LeafCost(o, l)
    BY <1>5
  <2> QED BY <2>1, <2>2, EffectIs
<1>9. \A m \in rows : /\ IsEffect(b[m]) /\ b[m].type = "SALE" /\ b[m].order = o
                      /\ b[m].item = m.item /\ b[m].pos = m.pos /\ b[m].cost = m.cost
                      /\ b[m].certainty = m.certainty
  BY <1>7, EffectIs
<1>10. SaleLines(o) = {a[l] : l \in plan} /\ SaleMoves(o) = {b[m] : m \in rows}
  BY <1>1, <1>2, <1>6, <1>7 DEF SaleLines, SaleMoves
<1>11. \A k, l \in plan : a[k] = a[l] => k = l
  BY <1>3, <1>8
<1>12. \A l \in plan, m \in rows :
         l.item = m.item => a[l].pos = b[m].pos /\ a[l].certainty = b[m].certainty
  BY <1>3, <1>8, <1>9
<1>13. SameAccount(SaleLines(o), SaleMoves(o))
  <2>1. \A l \in plan : /\ IsEffect(a[l]) /\ a[l].type = "SALE" /\ a[l].order = o
                        /\ a[l].item = l.item /\ a[l].cost \in Int
    BY <1>5, <1>8
  <2>2. \A m \in rows : /\ IsEffect(b[m]) /\ b[m].type = "SALE" /\ b[m].order = o
                        /\ b[m].item = m.item /\ b[m].cost \in Int
    BY <1>3, <1>9
  <2>3. \A l \in plan : f[l] = a[l].cost
    BY <1>8
  <2>4. \A m \in rows : SumFunctionOnSet(f, {l \in plan : l.item = m.item}) = b[m].cost
    BY <1>5, <1>9
  <2>5. IsFiniteSet(plan) /\ StreamsOf(rows) = StreamsOf(plan)
        /\ \A m, n \in rows : m.item = n.item => m = n
    BY <1>3
  <2>6. Grains(plan, rows, a, b, f, "SALE", o)
    BY <1>11, <1>12, <2>1, <2>2, <2>3, <2>4, <2>5 DEF Grains
  <2> QED BY <1>10, <2>6, OneDocument
<1> QED BY <1>8, <1>9, <1>10, <1>13 DEF OfDocument

LEMMA BackAccount ==
  ASSUME SalesInv, DocumentsInv, LinesInv, NEW o \in DOMAIN reversal
  PROVE  /\ SameAccount(BackLines(o), BackMoves(o))
         /\ OfDocument(BackLines(o) \cup BackMoves(o), "REVERSAL", o)
<1>1. PICK plan : plan = order[o].plan
  OBVIOUS
<1>2. PICK rows : rows = MovementsOf("issue", o)
  OBVIOUS
<1>0. o \in DOMAIN goodsIssue /\ o \in Order
  BY DEF SalesInv, TypeOK
<1>3. /\ IsFiniteSet(plan) /\ StreamsOf(rows) = StreamsOf(plan)
      /\ \A x, y \in plan : x.line = y.line /\ x.leaf = y.leaf => x = y
      /\ \A m, n \in rows : m.item = n.item => m = n
      /\ \A m \in rows : IssueOf(o, m.item) = m /\ m.cost \in Int
  BY <1>0, <1>1, <1>2, SoldOrder
<1>4. PICK f : f = [l \in plan |-> LeafCost(o, l)]
  OBVIOUS
<1>5. /\ \A l \in plan : f[l] \in Int /\ f[l] = LeafCost(o, l)
      /\ \A m \in rows : SumFunctionOnSet(f, {l \in plan : l.item = m.item}) = m.cost
  BY <1>0, <1>1, <1>2, <1>4, IssueShares
<1>14. PICK g : g = [l \in plan |-> -LeafCost(o, l)]
  OBVIOUS
<1>15. \A m \in rows : SumFunctionOnSet(g, {l \in plan : l.item = m.item}) = -m.cost
  <2> TAKE m \in rows
  <2>1. PICK S : S = {l \in plan : l.item = m.item}
    OBVIOUS
  <2>2. IsFiniteSet(S) /\ \A l \in S : f[l] \in Int /\ g[l] = -f[l]
    BY <1>3, <1>5, <1>14, <2>1, FS_Subset
  <2>3. SumFunctionOnSet(g, S) = -SumFunctionOnSet(f, S)
    BY <2>2, SumOpposite
  <2> QED BY <1>5, <2>1, <2>3
<1>6. PICK a : a = [l \in plan |-> Effect("REVERSAL", o, l.item, <<l.line, l.leaf>>, reversal[o].pos,
                                         -LeafCost(o, l), IssueOf(o, l.item).certainty)]
  OBVIOUS
<1>7. PICK b : b = [m \in rows |-> Effect("REVERSAL", o, m.item, reversal[o].n, reversal[o].pos,
                                         -m.cost, m.certainty)]
  OBVIOUS
<1>8. \A l \in plan : /\ IsEffect(a[l]) /\ a[l].type = "REVERSAL" /\ a[l].order = o
                      /\ a[l].item = l.item /\ a[l].id = <<l.line, l.leaf>>
                      /\ a[l].pos = reversal[o].pos /\ a[l].cost = g[l] /\ a[l].cost \in Int
                      /\ a[l].certainty = IssueOf(o, l.item).certainty
  <2> TAKE l \in plan
  <2>1. a[l] = Effect("REVERSAL", o, l.item, <<l.line, l.leaf>>, reversal[o].pos,
                      -LeafCost(o, l), IssueOf(o, l.item).certainty)
    BY <1>6
  <2>2. g[l] = -LeafCost(o, l) /\ -LeafCost(o, l) \in Int
    BY <1>5, <1>14
  <2> QED BY <2>1, <2>2, EffectIs
<1>9. \A m \in rows : /\ IsEffect(b[m]) /\ b[m].type = "REVERSAL" /\ b[m].order = o
                      /\ b[m].item = m.item /\ b[m].pos = reversal[o].pos /\ b[m].cost = -m.cost
                      /\ b[m].cost \in Int /\ b[m].certainty = m.certainty
  BY <1>3, <1>7, EffectIs
<1>10. BackLines(o) = {a[l] : l \in plan}
  BY <1>1, <1>6 DEF BackLines
<1>16. BackMoves(o) = {b[m] : m \in rows}
  <2>1. MovementsOf("reversal", o) = ReturnsOf(o)
    BY <1>0 DEF DocumentsInv, OrderOK
  <2>2. PICK back : back = [m \in rows |-> Returned([order |-> o, n |-> reversal[o].n], m, reversal[o].pos)]
    OBVIOUS
  <2>3. MovementsOf("reversal", o) = {back[m] : m \in rows}
    BY <1>2, <2>1, <2>2 DEF ReturnsOf
  <2>4. \A m \in rows : /\ back[m].item = m.item /\ back[m].cost = m.cost /\ back[m].id = reversal[o].n
                        /\ back[m].pos = reversal[o].pos /\ back[m].certainty = m.certainty
    BY <2>2 DEF Returned, Row
  <2>5. \A m \in rows :
          b[m] = Effect("REVERSAL", o, back[m].item, back[m].id, back[m].pos, -back[m].cost,
                        back[m].certainty)
    BY <1>7, <2>4
  <2> QED BY <2>3, <2>5 DEF BackMoves
<1>11. \A k, l \in plan : a[k] = a[l] => k = l
  BY <1>3, <1>8
<1>12. \A l \in plan, m \in rows :
         l.item = m.item => a[l].pos = b[m].pos /\ a[l].certainty = b[m].certainty
  BY <1>3, <1>8, <1>9
<1>17. \A m \in rows : SumFunctionOnSet(g, {l \in plan : l.item = m.item}) = b[m].cost
  BY <1>9, <1>15
<1>13. SameAccount(BackLines(o), BackMoves(o))
  <2>1. \A l \in plan : /\ IsEffect(a[l]) /\ a[l].type = "REVERSAL" /\ a[l].order = o
                        /\ a[l].item = l.item /\ a[l].cost \in Int
    BY <1>8
  <2>2. \A m \in rows : /\ IsEffect(b[m]) /\ b[m].type = "REVERSAL" /\ b[m].order = o
                        /\ b[m].item = m.item /\ b[m].cost \in Int
    BY <1>9
  <2>3. \A l \in plan : g[l] = a[l].cost
    BY <1>8
  <2>4. \A m \in rows : SumFunctionOnSet(g, {l \in plan : l.item = m.item}) = b[m].cost
    BY <1>17
  <2>5. IsFiniteSet(plan) /\ StreamsOf(rows) = StreamsOf(plan)
        /\ \A m, n \in rows : m.item = n.item => m = n
    BY <1>3
  <2>6. Grains(plan, rows, a, b, g, "REVERSAL", o)
    BY <1>11, <1>12, <2>1, <2>2, <2>3, <2>4, <2>5 DEF Grains
  <2> QED BY <1>10, <1>16, <2>6, OneDocument
<1> QED BY <1>8, <1>9, <1>10, <1>13, <1>16 DEF OfDocument

\* All documents at once.
LEMMA EffectsAgree ==
  ASSUME SalesInv, DocumentsInv, LinesInv, IsFiniteSet(DOMAIN goodsIssue)
  PROVE  /\ SameAccount(lineEffects, physicalEffects)
         /\ \A o \in DOMAIN reversal :
              {e \in lineEffects : e.order = o} = SaleLines(o) \cup BackLines(o)
<1>1. DOMAIN reversal \subseteq DOMAIN goodsIssue /\ IsFiniteSet(DOMAIN reversal)
  <2>1. DOMAIN reversal \subseteq DOMAIN goodsIssue
    BY DEF SalesInv, TypeOK
  <2> QED BY <2>1, FS_Subset
<1>2. PICK SL : SL = [o \in DOMAIN goodsIssue |-> SaleLines(o)]
  OBVIOUS
<1>3. PICK SM : SM = [o \in DOMAIN goodsIssue |-> SaleMoves(o)]
  OBVIOUS
<1>4. PICK BL : BL = [o \in DOMAIN reversal |-> BackLines(o)]
  OBVIOUS
<1>5. PICK BM : BM = [o \in DOMAIN reversal |-> BackMoves(o)]
  OBVIOUS
<1>6. PICK L : L = [type \in {"SALE", "REVERSAL"} |->
                      IF type = "SALE" THEN UNION {SL[o] : o \in DOMAIN goodsIssue}
                      ELSE UNION {BL[o] : o \in DOMAIN reversal}]
  OBVIOUS
<1>7. PICK P : P = [type \in {"SALE", "REVERSAL"} |->
                      IF type = "SALE" THEN UNION {SM[o] : o \in DOMAIN goodsIssue}
                      ELSE UNION {BM[o] : o \in DOMAIN reversal}]
  OBVIOUS
<1>8. \A o \in DOMAIN goodsIssue : /\ SameAccount(SL[o], SM[o])
                                   /\ OfDocument(SL[o] \cup SM[o], "SALE", o)
  BY <1>2, <1>3, SaleAccount
<1>9. \A o \in DOMAIN reversal : /\ SameAccount(BL[o], BM[o])
                                 /\ OfDocument(BL[o] \cup BM[o], "REVERSAL", o)
  BY <1>4, <1>5, BackAccount
<1>10. SameAccount(L["SALE"], P["SALE"]) /\ \A e \in L["SALE"] \cup P["SALE"] : e.type = "SALE"
  <2>1. \A x, y \in DOMAIN goodsIssue :
          \A e \in SL[x] \cup SM[x], d \in SL[y] \cup SM[y] : Shared(e, d) => x = y
    BY <1>8 DEF OfDocument, Shared
  <2>2. \A x \in DOMAIN goodsIssue : SameAccount(SL[x], SM[x])
    BY <1>8
  <2>3. L["SALE"] = UNION {SL[o] : o \in DOMAIN goodsIssue}
        /\ P["SALE"] = UNION {SM[o] : o \in DOMAIN goodsIssue}
    BY <1>6, <1>7
  <2>4. SameAccount(L["SALE"], P["SALE"])
    <3>1. Apart(DOMAIN goodsIssue, SL, SM)
      BY <2>1, <2>2 DEF Apart
    <3> QED BY <2>3, <3>1, AllDocuments
  <2> QED BY <1>8, <2>3, <2>4 DEF OfDocument
<1>11. SameAccount(L["REVERSAL"], P["REVERSAL"])
       /\ \A e \in L["REVERSAL"] \cup P["REVERSAL"] : e.type = "REVERSAL"
  <2>1. \A x, y \in DOMAIN reversal :
          \A e \in BL[x] \cup BM[x], d \in BL[y] \cup BM[y] : Shared(e, d) => x = y
    BY <1>9 DEF OfDocument, Shared
  <2>2. \A x \in DOMAIN reversal : SameAccount(BL[x], BM[x])
    BY <1>9
  <2>3. L["REVERSAL"] = UNION {BL[o] : o \in DOMAIN reversal}
        /\ P["REVERSAL"] = UNION {BM[o] : o \in DOMAIN reversal}
    BY <1>6, <1>7
  <2>4. SameAccount(L["REVERSAL"], P["REVERSAL"])
    <3>1. Apart(DOMAIN reversal, BL, BM)
      BY <1>1, <2>1, <2>2 DEF Apart
    <3> QED BY <2>3, <3>1, AllDocuments
  <2> QED BY <1>9, <2>3, <2>4 DEF OfDocument
<1>12. lineEffects = UNION {L[type] : type \in {"SALE", "REVERSAL"}}
  <2>1. lineEffects = (UNION {SaleLines(o) : o \in DOMAIN goodsIssue})
                        \cup (UNION {BackLines(o) : o \in DOMAIN reversal})
    BY DEF lineEffects, SaleLines, BackLines
  <2>2. L["SALE"] = UNION {SaleLines(o) : o \in DOMAIN goodsIssue}
    BY <1>2, <1>6
  <2>3. L["REVERSAL"] = UNION {BackLines(o) : o \in DOMAIN reversal}
    BY <1>4, <1>6
  <2>4. UNION {L[type] : type \in {"SALE", "REVERSAL"}} = L["SALE"] \cup L["REVERSAL"]
    OBVIOUS
  <2> QED BY <2>1, <2>2, <2>3, <2>4
<1>13. physicalEffects = UNION {P[type] : type \in {"SALE", "REVERSAL"}}
  <2>1. physicalEffects = (UNION {SaleMoves(o) : o \in DOMAIN goodsIssue})
                        \cup (UNION {BackMoves(o) : o \in DOMAIN reversal})
    BY DEF physicalEffects, SaleMoves, BackMoves
  <2>2. P["SALE"] = UNION {SaleMoves(o) : o \in DOMAIN goodsIssue}
    BY <1>3, <1>7
  <2>3. P["REVERSAL"] = UNION {BackMoves(o) : o \in DOMAIN reversal}
    BY <1>5, <1>7
  <2>4. UNION {P[type] : type \in {"SALE", "REVERSAL"}} = P["SALE"] \cup P["REVERSAL"]
    OBVIOUS
  <2> QED BY <2>1, <2>2, <2>3, <2>4
<1>14. SameAccount(lineEffects, physicalEffects)
  <2>1. IsFiniteSet({"SALE", "REVERSAL"})
    <3>1. IsFiniteSet({"SALE"}) /\ IsFiniteSet({"REVERSAL"})
      BY FS_Singleton
    <3>2. {"SALE", "REVERSAL"} = {"SALE"} \cup {"REVERSAL"}
      OBVIOUS
    <3> QED BY <3>1, <3>2, FS_Union
  <2>2. \A x \in {"SALE", "REVERSAL"} : SameAccount(L[x], P[x])
    BY <1>10, <1>11
  <2>3. \A x, y \in {"SALE", "REVERSAL"} :
          \A e \in L[x] \cup P[x], d \in L[y] \cup P[y] : Shared(e, d) => x = y
    BY <1>10, <1>11 DEF Shared
  <2>4. Apart({"SALE", "REVERSAL"}, L, P)
    BY <2>1, <2>2, <2>3 DEF Apart
  <2> QED BY <1>12, <1>13, <2>4, AllDocuments
<1>15. ASSUME NEW o \in DOMAIN reversal
       PROVE  {e \in lineEffects : e.order = o} = SaleLines(o) \cup BackLines(o)
  <2>1. \A e : e \in lineEffects <=> \/ \E x \in DOMAIN goodsIssue : e \in SL[x]
                                    \/ \E x \in DOMAIN reversal : e \in BL[x]
    BY <1>6, <1>12
  <2>2. /\ \A x \in DOMAIN goodsIssue : \A e \in SL[x] : e.order = x
        /\ \A x \in DOMAIN reversal : \A e \in BL[x] : e.order = x
    BY <1>8, <1>9 DEF OfDocument
  <2>3. SL[o] = SaleLines(o) /\ BL[o] = BackLines(o) /\ o \in DOMAIN goodsIssue
    BY <1>1, <1>2, <1>4
  <2> QED BY <2>1, <2>2, <2>3
<1> QED BY <1>14, <1>15

\* A completion and its reversal, effect for effect.
LEMMA ReversalCancels ==
  ASSUME SalesInv, DocumentsInv, LinesInv, IsFiniteSet(DOMAIN goodsIssue), NEW o \in DOMAIN reversal
  PROVE  NetsToNothing(o)
<1> DEFINE good(X) == {e \in X : e.certainty \in {"FINAL", "ESTIMATED_FROM_LAST_KNOWN"}}
<1>1. PICK E : E = {e \in lineEffects : e.order = o}
  OBVIOUS
<1>2. E = SaleLines(o) \cup BackLines(o)
  BY <1>1, EffectsAgree
<1>3. /\ IsFiniteSet(SaleLines(o)) /\ \A e \in SaleLines(o) : e.cost \in Int /\ IsEffect(e)
      /\ \A e \in SaleLines(o) : e.type = "SALE" /\ e.order = o
      /\ \A e \in BackLines(o) : e.type = "REVERSAL"
  <2>1. o \in DOMAIN goodsIssue
    BY DEF SalesInv, TypeOK
  <2> QED BY <2>1, SaleAccount, BackAccount DEF SameAccount, OfDocument
<1>4. PICK h : h = [e \in SaleLines(o) |->
                      Effect("REVERSAL", o, e.item, e.id, reversal[o].pos, -e.cost, e.certainty)]
  OBVIOUS
<1>5. \A e \in SaleLines(o) :
        /\ h[e].type = "REVERSAL" /\ h[e].item = e.item /\ h[e].id = e.id
        /\ h[e].cost = -e.cost /\ h[e].certainty = e.certainty
  <2> TAKE e \in SaleLines(o)
  <2>1. h[e] = Effect("REVERSAL", o, e.item, e.id, reversal[o].pos, -e.cost, e.certainty)
    BY <1>4
  <2> QED BY <2>1, EffectIs
<1>6. BackLines(o) = {h[e] : e \in SaleLines(o)}
  <2>1. PICK a : a = [l \in order[o].plan |->
          Effect("SALE", o, l.item, <<l.line, l.leaf>>, goodsIssue[o].pos, LeafCost(o, l),
                 IssueOf(o, l.item).certainty)]
    OBVIOUS
  <2>2. SaleLines(o) = {a[l] : l \in order[o].plan}
    BY <2>1 DEF SaleLines
  <2>3. ASSUME NEW l \in order[o].plan
        PROVE  h[a[l]] = Effect("REVERSAL", o, l.item, <<l.line, l.leaf>>, reversal[o].pos,
                                -LeafCost(o, l), IssueOf(o, l.item).certainty)
    <3>1. a[l] \in SaleLines(o)
      BY <2>2
    <3>2. /\ a[l].item = l.item /\ a[l].id = <<l.line, l.leaf>> /\ a[l].cost = LeafCost(o, l)
          /\ a[l].certainty = IssueOf(o, l.item).certainty
      BY <2>1 DEF Effect
    <3>3. h[a[l]] = Effect("REVERSAL", o, a[l].item, a[l].id, reversal[o].pos, -a[l].cost,
                           a[l].certainty)
      BY <1>4, <3>1
    <3> QED BY <3>2, <3>3
  <2>4. {h[e] : e \in SaleLines(o)} = {h[a[l]] : l \in order[o].plan}
    BY <2>2
  <2> QED BY <2>3, <2>4 DEF BackLines
<1>7. \A c, e \in SaleLines(o) : h[c] = h[e] => c = e
  <2> SUFFICES ASSUME NEW c \in SaleLines(o), NEW e \in SaleLines(o), h[c] = h[e] PROVE c = e
    OBVIOUS
  <2>1. /\ c.item = e.item /\ c.id = e.id /\ -c.cost = -e.cost /\ c.certainty = e.certainty
        /\ c.type = e.type /\ c.order = e.order
    BY <1>3, <1>5
  <2>2. c.cost = e.cost
    BY <1>3, <2>1
  <2>3. c.pos = e.pos
    BY DEF SaleLines, Effect
  <2> QED BY <1>3, <2>1, <2>2, <2>3 DEF IsEffect
<1>8. PICK K : K = good(SaleLines(o))
  OBVIOUS
<1>9. good(E) = K \cup {h[e] : e \in K}
  BY <1>2, <1>5, <1>6, <1>8
<1>10. PICK f : f = [m \in good(E) |-> m.cost]
  OBVIOUS
<1>11. CostOf(good(E)) = SumFunctionOnSet(f, good(E))
  BY <1>10, SumOfFunction DEF CostOf
<1>12. SumFunctionOnSet(f, K \cup {h[e] : e \in K}) = 0
  <2>1. IsFiniteSet(K) /\ K \subseteq SaleLines(o)
    BY <1>3, <1>8, FS_Subset
  <2>2. \A e \in K : e \in good(E) /\ h[e] \in good(E)
    BY <1>9
  <2>3. \A e \in K : f[e] = e.cost /\ f[h[e]] = h[e].cost
    BY <1>10, <2>2
  <2>4. \A e \in K : f[e] \in Int /\ f[h[e]] = -f[e] /\ h[e] \notin K
    BY <1>3, <1>5, <2>1, <2>3
  <2>5. \A c, e \in K : h[c] = h[e] => c = e
    BY <1>7, <2>1
  <2> QED BY <2>1, <2>4, <2>5, SumCancels
<1>13. CostOf(good(E)) = 0
  BY <1>9, <1>11, <1>12
<1> HIDE DEF good
<1>14. aggregateEffects(E) =
        [certainty |-> mergeReportingCertainty({e.certainty : e \in E}),
         knownSubtotal |-> CostOf(good(E)),
         actualCogs |-> IF good(E) = E THEN CostOf(E) ELSE NoCost]
  BY DEF aggregateEffects, good
<1>15. aggregateEffects(E).knownSubtotal = 0 /\ aggregateEffects(E).actualCogs \in {0, NoCost}
  BY <1>13, <1>14
<1> QED BY <1>1, <1>15 DEF NetsToNothing

-----------------------------------------------------------------------------
(* The theorem about reports *)

LEMMA IssuesStayFinite ==
  ASSUME IsFiniteSet(DOMAIN goodsIssue), [Next]_vars
  PROVE  IsFiniteSet(DOMAIN goodsIssue')
<1>1. ASSUME NEW s \in Session, CompleteCommit(s) PROVE IsFiniteSet(DOMAIN goodsIssue')
  <2>1. DOMAIN goodsIssue' = DOMAIN goodsIssue \cup {call[s].order}
    BY <1>1 DEF CompleteCommit, With
  <2> QED BY <2>1, FS_AddElement
<1>2. ASSUME NEW s \in Session, ReverseCommit(s) PROVE IsFiniteSet(DOMAIN goodsIssue')
  BY <1>2 DEF ReverseCommit
<1>3. CASE UNCHANGED goodsIssue
  BY <1>3
<1> QED BY <1>1, <1>2, <1>3 DEF Next, CallStep, Edit, StartCall, StartSupply, Rollback, PeekOrder,
        CheckKey, LockOrder, WriteDocument, StreamStatement, SupplyCommit, salesVars, vars

LEMMA ReportsAgree ==
  ASSUME SalesInv, DocumentsInv, LinesInv, IsFiniteSet(DOMAIN goodsIssue)
  PROVE  CogsGrainsAgree
<1>1. ASSUME NEW q \in Query
      PROVE  aggregateEffects(listLineEffects(q)) = aggregateEffects(listPhysicalEffects(q))
  <2>1. SameAccount(lineEffects, physicalEffects)
    BY EffectsAgree
  <2>2. PICK K : K = Selected(lineEffects, q)
    OBVIOUS
  <2>3. PICK Q : Q = Selected(physicalEffects, q)
    OBVIOUS
  <2>4. /\ K \subseteq lineEffects /\ Q \subseteq physicalEffects
        /\ \A e \in lineEffects, d \in physicalEffects : Shared(e, d) => (e \in K <=> d \in Q)
    BY <2>1, <2>2, <2>3 DEF Selected, SameAccount, Shared
  <2>5. SameAccount(K, Q)
    BY <2>1, <2>4, SamePart
  <2>6. SameAccount(listLineEffects(q), listPhysicalEffects(q))
    BY <2>2, <2>3, <2>5, SameElevated DEF listLineEffects, listPhysicalEffects
  <2> QED BY <2>6, SameReport
<1>2. \A o \in DOMAIN reversal : NetsToNothing(o)
  BY ReversalCancels
<1> QED BY <1>1, <1>2 DEF CogsGrainsAgree

(***************************************************************************)
(* Reports at the line grain and at the physical grain agree on every      *)
(* selection, and a reversed completion costs nothing, whatever the orders *)
(* and the interleaving that completed and reversed them                   *)
(* (actual-cogs-service.ts).                                               *)
(***************************************************************************)
THEOREM ReportsCountMovementsOnce == Spec => []CogsGrainsAgree
<1>1. Init => LinesInv /\ IsFiniteSet(DOMAIN goodsIssue)
  <2> SUFFICES ASSUME Init PROVE LinesInv /\ IsFiniteSet(DOMAIN goodsIssue)
    OBVIOUS
  <2>1. DOMAIN goodsIssue = {} /\ \A o \in Order : DOMAIN order[o].lines = {}
    BY DEF Init, NewOrder
  <2> QED BY <2>1, FS_EmptySet DEF LinesInv, LinesApart
<1>2. SalesInv => TypeOK
  BY DEF SalesInv
<1>3. SalesInv /\ DocumentsInv /\ LinesInv /\ IsFiniteSet(DOMAIN goodsIssue) => CogsGrainsAgree
  BY ReportsAgree
<1>4. TypeOK /\ LinesInv /\ [Next]_vars => LinesInv'
  BY LinesStep
<1>5. IsFiniteSet(DOMAIN goodsIssue) /\ [Next]_vars => IsFiniteSet(DOMAIN goodsIssue)'
  BY IssuesStayFinite
<1> QED
  BY <1>1, <1>2, <1>3, <1>4, <1>5, DocumentsStart, DocumentsInductive, PTL DEF Spec

LEMMA EffectsAreOfOrders ==
  ASSUME TypeOK
  PROVE  \A e \in physicalEffects : IsEffect(e) /\ e.order \in Order
<1>1. \A o \in DOMAIN goodsIssue : o \in Order
  BY DEF TypeOK
<1>2. \A o \in DOMAIN reversal : o \in Order
  BY <1>1 DEF TypeOK
<1>3. \A type, o, i, id, pos, cost, certainty :
        LET e == Effect(type, o, i, id, pos, cost, certainty) IN IsEffect(e) /\ e.order = o
  BY DEF IsEffect, Effect
<1>4. ASSUME NEW e \in physicalEffects
      PROVE  \E o \in Order : \E type, i, id, pos, cost, certainty :
               e = Effect(type, o, i, id, pos, cost, certainty)
  <2>1. \/ \E o \in DOMAIN goodsIssue : \E m \in MovementsOf("issue", o) :
             e = Effect("SALE", o, m.item, m.id, m.pos, m.cost, m.certainty)
        \/ \E o \in DOMAIN reversal : \E m \in MovementsOf("reversal", o) :
             e = Effect("REVERSAL", o, m.item, m.id, m.pos, -m.cost, m.certainty)
    BY DEF physicalEffects
  <2> QED BY <1>1, <1>2, <2>1
<1> QED BY <1>3, <1>4

\* A tie of one effect with another is within what a query of all orders selects.
LEMMA TiesAreSelected ==
  ASSUME TypeOK, NEW q, Order \subseteq q.orders, NEW e \in listPhysicalEffects(q),
         IsUnresolved(physicalEffects, e)
  PROVE  e.certainty = "ORDER_UNRESOLVED"
<1>1. PICK S : S = Selected(physicalEffects, q)
  OBVIOUS
<1>2. S \subseteq physicalEffects
  BY <1>1 DEF Selected
<1>3. PICK f \in S : e = IF IsUnresolved(S, f)
                           THEN [f EXCEPT !.certainty = "ORDER_UNRESOLVED"] ELSE f
  BY <1>1 DEF listPhysicalEffects, applyUnresolvedChronology
<1>4. IsEffect(f)
  BY <1>2, EffectsAreOfOrders
<1>5. /\ e.order = f.order /\ e.item = f.item /\ e.pos = f.pos
      /\ e.certainty = IF IsUnresolved(S, f) THEN "ORDER_UNRESOLVED" ELSE f.certainty
  BY <1>3, <1>4, ElevatedFields
<1>6. PICK d \in physicalEffects : d.item = e.item /\ d.pos = e.pos /\ d.order # e.order
  BY DEF IsUnresolved
<1>7. f.item \in q.items /\ f.pos.date \in q.dates
  BY <1>1 DEF Selected
<1>8. d \in S
  <2>1. d.order \in q.orders
    BY EffectsAreOfOrders
  <2> QED BY <1>1, <1>5, <1>6, <1>7, <2>1 DEF Selected
<1>9. IsUnresolved(S, f)
  BY <1>5, <1>6, <1>8 DEF IsUnresolved
<1> QED BY <1>5, <1>9

(***************************************************************************)
(* Reports that select by item and date only never present a tie as exact: *)
(* of two goods issues at one position of a stream, a report that counts   *)
(* either withholds the total, as the comment in actual-cogs-service.ts    *)
(* has it.  The filter by order is the only one that can hide a tie.       *)
(***************************************************************************)
THEOREM WholeReportsShowTies ==
  (\A q \in Query : Order \subseteq q.orders) /\ Spec => []TiesAreNeverExact
<1> SUFFICES ASSUME \A q \in Query : Order \subseteq q.orders PROVE Spec => []TiesAreNeverExact
  OBVIOUS
<1>1. SalesInv => TiesAreNeverExact
  <2> SUFFICES ASSUME NEW q \in Query, Order \subseteq q.orders, TypeOK,
                      NEW e \in listPhysicalEffects(q), IsUnresolved(physicalEffects, e)
               PROVE  aggregateEffects(listPhysicalEffects(q)).actualCogs = NoCost
    BY DEF TiesAreNeverExact, SalesInv
  <2>1. e.certainty = "ORDER_UNRESOLVED"
    BY TiesAreSelected
  <2>2. e \notin {x \in listPhysicalEffects(q) :
                    x.certainty \in {"FINAL", "ESTIMATED_FROM_LAST_KNOWN"}}
    BY <2>1
  <2>3. {x \in listPhysicalEffects(q) : x.certainty \in {"FINAL", "ESTIMATED_FROM_LAST_KNOWN"}}
          # listPhysicalEffects(q)
    BY <2>2
  <2> QED BY <2>3 DEF aggregateEffects
<1> QED BY <1>1, DocumentsStart, DocumentsInductive, PTL DEF Spec

-----------------------------------------------------------------------------
(* The discount of an order: sums of squares, integer division, and the way  *)
(* the residual is dealt out.                                                *)

LEMMA Floors ==
  ASSUME NEW T \in Nat, T > 0, NEW D \in Nat, D <= T, NEW b \in Nat
  PROVE  /\ (D * b) \div T \in Nat /\ (D * b) % T \in Nat /\ (D * b) % T < T
         /\ D * b = T * ((D * b) \div T) + ((D * b) % T)
         /\ (D * b) \div T <= b
         /\ (D * b) \div T = b => (D * b) % T = 0
<1>1. PICK n : n = D * b
  OBVIOUS
<1>2. n \in Nat /\ n <= T * b
  BY <1>1
<1>3. /\ n \div T \in Nat /\ n % T \in Nat /\ n % T < T
      /\ n = T * (n \div T) + (n % T)
  BY <1>2
<1>4. PICK s \in Nat : s = n \div T
  BY <1>3
<1>5. PICK r \in Nat : r = n % T
  BY <1>3
<1>6. n = T * s + r /\ r < T
  BY <1>3, <1>4, <1>5
<1>7. s <= b
  <2>1. s > b => T * s >= T * (b + 1)
    OBVIOUS
  <2>2. T * (b + 1) = T * b + T
    OBVIOUS
  <2> QED BY <1>2, <1>6, <2>1, <2>2
<1>8. s = b => r = 0
  BY <1>2, <1>6
<1> QED BY <1>1, <1>3, <1>4, <1>5, <1>7, <1>8

-----------------------------------------------------------------------------
(* What every line bears by rounding down, and what that leaves.            *)

Quotas(S, b, T, D, s, r) ==
  /\ IsFiniteSet(S) /\ S \subseteq Nat
  /\ b \in [S -> Nat] /\ s \in [S -> Nat] /\ r \in [S -> Nat]
  /\ T = SumFunctionOnSet(b, S) /\ D \in Nat /\ D <= T /\ T \in Nat /\ T > 0
  /\ \A l \in S : /\ D * b[l] = T * s[l] + r[l] /\ r[l] < T
                  /\ s[l] <= b[l] /\ (s[l] = b[l] => r[l] = 0)

Open(S, b, s) == {l \in S : b[l] > s[l]}
Residual(S, D, s) == D - SumFunctionOnSet(s, S)

(* The remainders add up to the residual times the total, and each is less   *)
(* than the total: enough lines are open, and no residual is refused.        *)
LEMMA ResidualFits ==
  ASSUME NEW S, NEW b, NEW T, NEW D, NEW s, NEW r, Quotas(S, b, T, D, s, r)
  PROVE  /\ Residual(S, D, s) \in Nat
         /\ Residual(S, D, s) <= Cardinality(Open(S, b, s))
         /\ Residual(S, D, s) = 0 => \A l \in S : r[l] = 0
<1> DEFINE h == [l \in S |-> D * b[l]]
           O == Open(S, b, s)
           o == [l \in S |-> IF l \in O THEN 1 ELSE 0]
           q == [l \in S |-> T * o[l]]
<1>0. /\ T \in Int /\ D \in Int /\ T > 0 /\ IsFiniteSet(S) /\ T = SumFunctionOnSet(b, S)
      /\ \A l \in S : b[l] \in Int /\ s[l] \in Int /\ r[l] \in Int /\ r[l] >= 0 /\ r[l] < T
  BY DEF Quotas
<1>1. SumFunctionOnSet(h, S) = D * T
  <2>1. \A l \in S : b[l] \in Int /\ h[l] = D * b[l]
    BY <1>0
  <2> HIDE DEF h
  <2>2. SumFunctionOnSet(h, S) = D * SumFunctionOnSet(b, S)
    BY <1>0, <2>1, SumTimes
  <2> QED BY <1>0, <2>2
<1>2. SumFunctionOnSet(h, S) = SumFunctionOnSet(r, S) + T * SumFunctionOnSet(s, S)
  <2>1. \A l \in S : r[l] \in Int /\ s[l] \in Int /\ h[l] = r[l] + T * s[l]
    BY <1>0 DEF Quotas
  <2> HIDE DEF h
  <2> QED BY <1>0, <2>1, SumLinear
<1>3. PICK A \in Int : A = SumFunctionOnSet(s, S)
  BY <1>0, SumInt
<1>4. SumFunctionOnSet(r, S) \in Int /\ SumFunctionOnSet(r, S) >= 0
      /\ \A l \in S : r[l] <= SumFunctionOnSet(r, S)
  <2>1. \A l \in S : r[l] \in Int /\ r[l] >= 0
    BY <1>0
  <2> QED BY <1>0, <2>1, SumNatural
<1>5. PICK B \in Int : B = SumFunctionOnSet(r, S)
  BY <1>4
<1>6. B = T * (D - A)
  <2>1. D * T = B + T * A
    BY <1>1, <1>2, <1>3, <1>5
  <2>2. T * (D - A) = D * T - T * A
    BY <1>0
  <2>3. T * A \in Int /\ D * T \in Int
    BY <1>0
  <2> QED BY <2>1, <2>2, <2>3
<1>7. D - A >= 0
  <2>1. D - A < 0 => T * (D - A) < 0
    BY <1>0
  <2> QED BY <1>4, <1>5, <1>6, <2>1, <1>0
<1>8. PICK C \in Nat : C = Cardinality(O)
  <2>1. IsFiniteSet(O)
    BY <1>0, FS_Subset DEF Open
  <2> QED BY <2>1, FS_CardinalityType
<1>9. SumFunctionOnSet(q, S) = T * C
  <2>1. \A l \in S : o[l] \in Int /\ q[l] = T * o[l]
    BY <1>0
  <2>5. \A l \in S : o[l] = IF l \in O THEN 1 ELSE 0
    OBVIOUS
  <2>2. O \subseteq S
    BY DEF Open
  <2> HIDE DEF o, q, O
  <2>3. SumFunctionOnSet(o, S) = Cardinality(O)
    BY <1>0, <2>5, <2>2, SumCounts
  <2>4. SumFunctionOnSet(q, S) = T * SumFunctionOnSet(o, S)
    BY <1>0, <2>1, SumTimes
  <2> QED BY <1>8, <2>3, <2>4
<1>10. B <= T * C
  <2>1. ASSUME NEW l \in S PROVE q[l] \in Int /\ r[l] <= q[l]
    <3>1. CASE l \in O
      <4>1. q[l] = T
        BY <3>1, <1>0
      <4> QED BY <4>1, <1>0
    <3>2. CASE l \notin O
      <4>1. q[l] = 0
        BY <3>2, <1>0
      <4>2. ~(b[l] > s[l])
        BY <3>2 DEF Open
      <4>3. s[l] <= b[l] /\ (s[l] = b[l] => r[l] = 0)
        BY DEF Quotas
      <4>4. r[l] = 0
        BY <4>2, <4>3, <1>0
      <4> QED BY <4>1, <4>4
    <3> QED BY <3>1, <3>2
  <2> HIDE DEF q
  <2>2. SumFunctionOnSet(r, S) <= SumFunctionOnSet(q, S)
    BY <1>0, <2>1, SumAtMost
  <2> QED BY <2>2, <1>5, <1>9
<1>11. D - A <= C
  <2>1. D - A > C => T * (D - A) > T * C
    BY <1>0
  <2>2. T * C \in Int /\ T * (D - A) \in Int
    BY <1>0
  <2>3. T * (D - A) <= T * C
    BY <1>6, <1>10
  <2> HIDE DEF O
  <2> QED BY <2>1, <2>2, <2>3, <1>0
<1>12. D - A = 0 => \A l \in S : r[l] = 0
  <2>1. D - A = 0 => B = 0
    BY <1>6, <1>0
  <2>2. \A l \in S : r[l] <= B /\ r[l] \in Int /\ r[l] >= 0
    BY <1>0, <1>4, <1>5
  <2> QED BY <2>1, <2>2
<1> QED BY <1>0, <1>3, <1>7, <1>8, <1>11, <1>12 DEF Residual

(* The lines that get a unit more: the first of the open ones by remainder, *)
(* then by number, as many as the residual counts.                          *)

Before(r, k, l) == r[k] > r[l] \/ (r[k] = r[l] /\ k < l)
Bonus(S, b, D, s, r) ==
  {l \in Open(S, b, s) :
     Cardinality({k \in Open(S, b, s) : Before(r, k, l)}) < Residual(S, D, s)}

Favoured(S, b, D, s, r, X) ==
  /\ X \subseteq Open(S, b, s) /\ Cardinality(X) = Residual(S, D, s)
  /\ \A l \in X, k \in Open(S, b, s) \ X : Before(r, l, k)

(* The code's choice is made by a strict total order of the open lines.      *)
LEMMA BonusIsFavoured ==
  ASSUME NEW S, NEW b, NEW T, NEW D, NEW s, NEW r, Quotas(S, b, T, D, s, r)
  PROVE  Favoured(S, b, D, s, r, Bonus(S, b, D, s, r))
<1> DEFINE O == Open(S, b, s)
           R == {p \in O \X O : Before(r, p[1], p[2])}
           X == Bonus(S, b, D, s, r)
<1>1. /\ O \subseteq S /\ IsFiniteSet(O) /\ O \subseteq Nat
      /\ \A l \in O : r[l] \in Nat
  BY FS_Subset DEF Open, Quotas
<1>2. \A k, l \in O : <<k, l>> \in R <=> Before(r, k, l)
  OBVIOUS
<1>3. Orders(R, O)
  <2>1. \A x \in O : <<x, x>> \notin R
    BY <1>1, <1>2 DEF Before
  <2>2. \A x, y, z \in O : <<x, y>> \in R /\ <<y, z>> \in R => <<x, z>> \in R
    <3> SUFFICES ASSUME NEW x \in O, NEW y \in O, NEW z \in O, Before(r, x, y), Before(r, y, z)
                 PROVE  Before(r, x, z)
      BY <1>2
    <3>1. x \in Nat /\ y \in Nat /\ z \in Nat /\ r[x] \in Nat /\ r[y] \in Nat /\ r[z] \in Nat
      BY <1>1
    <3> QED BY <3>1 DEF Before
  <2>3. \A x, y \in O : x = y \/ <<x, y>> \in R \/ <<y, x>> \in R
    <3> SUFFICES ASSUME NEW x \in O, NEW y \in O
                 PROVE  x = y \/ Before(r, x, y) \/ Before(r, y, x)
      BY <1>2
    <3>1. x \in Nat /\ y \in Nat /\ r[x] \in Nat /\ r[y] \in Nat
      BY <1>1
    <3> QED BY <3>1 DEF Before
  <2> QED BY <2>1, <2>2, <2>3 DEF Orders
<1>4. PICK n \in Nat : n = Residual(S, D, s) /\ n <= Cardinality(O)
  BY ResidualFits
<1> DEFINE ahead(l) == {k \in O : <<k, l>> \in R}
<1>5. X = {l \in O : Cardinality(ahead(l)) < n}
  <2>1. \A l \in O : {k \in O : Before(r, k, l)} = ahead(l)
    BY <1>2
  <2>2. \A l \in O : Cardinality({k \in O : Before(r, k, l)}) = Cardinality(ahead(l))
    BY <2>1
  <2> QED BY <2>2, <1>4 DEF Bonus
<1>6. Cardinality(X) = n
  <2> HIDE DEF O, R, X
  <2>1. Cardinality({l \in O : Cardinality({k \in O : <<k, l>> \in R}) < n}) = n
    BY <1>1, <1>3, <1>4, FirstOnes
  <2> QED BY <2>1, <1>5
<1>7. ASSUME NEW l \in X, NEW k \in O \ X PROVE Before(r, l, k)
  <2>1. l \in O /\ k \in O /\ k # l
    BY <1>5
  <2>2. SUFFICES ASSUME <<l, k>> \notin R PROVE FALSE
    BY <1>2, <2>1
  <2>3. <<k, l>> \in R
    BY <1>3, <2>1, <2>2 DEF Orders
  <2>4. ahead(k) \subseteq ahead(l)
    BY <1>3, <2>1, <2>3 DEF Orders
  <2>5. IsFiniteSet(ahead(l)) /\ IsFiniteSet(ahead(k))
    BY <1>1, FS_Subset
  <2>6. Cardinality(ahead(k)) <= Cardinality(ahead(l))
    BY <2>4, <2>5, FS_Subset
  <2>7. Cardinality(ahead(k)) \in Nat /\ Cardinality(ahead(l)) \in Nat
    BY <2>5, FS_CardinalityType
  <2>8. Cardinality(ahead(l)) < n /\ ~(Cardinality(ahead(k)) < n)
    BY <1>5
  <2> HIDE DEF ahead
  <2> QED BY <1>4, <2>6, <2>7, <2>8
<1>8. X \subseteq O
  BY DEF Bonus
<1> QED BY <1>4, <1>6, <1>7, <1>8 DEF Favoured

(* What every line bears. *)
Shares(S, s, X) == [l \in S |-> IF l \in X THEN s[l] + 1 ELSE s[l]]

LEMMA DiscountAddsUp ==
  ASSUME NEW S, NEW b, NEW T, NEW D, NEW s, NEW r, NEW X, Quotas(S, b, T, D, s, r),
         Favoured(S, b, D, s, r, X)
  PROVE  /\ SumFunctionOnSet(Shares(S, s, X), S) = D
         /\ \A l \in S : Shares(S, s, X)[l] \in Nat /\ Shares(S, s, X)[l] <= b[l]
<1> DEFINE a == Shares(S, s, X)
           o == [l \in S |-> IF l \in X THEN 1 ELSE 0]
<1>1. /\ IsFiniteSet(S) /\ D \in Int /\ X \subseteq S
      /\ \A l \in S : s[l] \in Nat /\ b[l] \in Nat /\ s[l] <= b[l]
      /\ \A l \in X : s[l] < b[l]
  BY DEF Quotas, Favoured, Open
<1>2. \A l \in S : a[l] = s[l] + 1 * o[l] /\ s[l] \in Int /\ o[l] \in Int
  BY <1>1 DEF Shares
<1>3. \A l \in S : o[l] = IF l \in X THEN 1 ELSE 0
  OBVIOUS
<1>4. \A l \in S : a[l] \in Nat /\ a[l] <= b[l]
  BY <1>1 DEF Shares
<1> HIDE DEF a, o
<1>5. SumFunctionOnSet(o, S) = Cardinality(X)
  BY <1>1, <1>3, SumCounts
<1>6. SumFunctionOnSet(a, S) = SumFunctionOnSet(s, S) + 1 * SumFunctionOnSet(o, S)
  BY <1>1, <1>2, SumLinear
<1>7. SumFunctionOnSet(s, S) \in Int
  BY <1>1, <1>2, SumInt
<1>8. Cardinality(X) = D - SumFunctionOnSet(s, S)
  BY DEF Favoured, Residual
<1>9. SumFunctionOnSet(a, S) = D
  BY <1>1, <1>5, <1>6, <1>7, <1>8
<1> QED BY <1>4, <1>9 DEF a

(* A remainder that parts the lines that get a unit more from the others.   *)
LEMMA Threshold ==
  ASSUME NEW S, NEW b, NEW T, NEW D, NEW s, NEW r, NEW X, Quotas(S, b, T, D, s, r),
         Favoured(S, b, D, s, r, X)
  PROVE  \E t \in Nat : /\ t < T
                        /\ \A l \in X : r[l] >= t
                        /\ \A l \in S \ X : r[l] <= t
<1>1. /\ IsFiniteSet(S) /\ X \subseteq S /\ T \in Nat /\ T > 0
      /\ \A l \in S : r[l] \in Nat /\ r[l] < T /\ (l \notin Open(S, b, s) => r[l] = 0)
  BY DEF Quotas, Favoured, Open
<1>2. CASE X = {}
  <2>1. Cardinality(X) = 0
    BY <1>2, FS_EmptySet
  <2>2. \A l \in S : r[l] = 0
    BY <2>1, ResidualFits DEF Favoured
  <2> QED BY <1>1, <1>2, <2>2
<1>3. CASE X # {}
  <2>1. IsFiniteSet(X) /\ \A l \in X : r[l] \in Int
    BY <1>1, FS_Subset
  <2>2. PICK x \in X : \A y \in X : r[x] <= r[y]
    BY <1>3, <2>1, SmallestValue
  <2>3. \A l \in S \ X : r[l] <= r[x]
    <3> SUFFICES ASSUME NEW l \in S \ X PROVE r[l] <= r[x]
      OBVIOUS
    <3>1. r[l] \in Nat /\ r[x] \in Nat
      BY <1>1
    <3>2. CASE l \in Open(S, b, s)
      <4>1. Before(r, x, l)
        BY <3>2 DEF Favoured
      <4> QED BY <3>1, <4>1 DEF Before
    <3>3. CASE l \notin Open(S, b, s)
      BY <1>1, <3>1, <3>3
    <3> QED BY <3>2, <3>3
  <2> QED BY <1>1, <2>2, <2>3
<1> QED BY <1>2, <1>3

-----------------------------------------------------------------------------
(* Another way to deal out the discount gives a line x more than rounded    *)
(* down.  The squares of how far lines are off change by multiples of these, *)
(* up to what cancels because the discount is the same.                      *)

Cost0(T, x, r, t) == T * (x * (x - 1)) + 2 * (x * (t - r))
Cost1(T, x, r, t) == T * (x * (x - 1)) + 2 * ((x - 1) * (t - r))

(* t parts the remainders of the lines that bear a unit more from the others: *)
(* nothing is gained by moving a unit.                                        *)
LEMMA Cost0IsNatural ==
  ASSUME NEW T \in Nat, NEW x \in Int, NEW r \in Nat, NEW t \in Nat, t < T, r <= t
  PROVE  /\ Cost0(T, x, r, t) \in Nat
         /\ Cost0(T, x, r, t) = 0 => x = 0 \/ (x = 1 /\ r = t)
<1>1. PICK d \in Nat : d = t - r /\ d < T
  OBVIOUS
<1>2. Cost0(T, x, r, t) = T * (x * (x - 1)) + 2 * (x * d)
  BY <1>1 DEF Cost0
<1>3. CASE x = 0
  BY <1>2, <1>3
<1>4. CASE x = 1
  BY <1>1, <1>2, <1>4
<1>5. CASE x >= 2
  <2>1. PICK y \in Nat : y = x * (x - 1) /\ y > 0
    BY <1>5
  <2>2. T * y > 0 /\ T * y \in Nat
    BY <2>1, <1>1
  <2>3. x * d >= 0 /\ x * d \in Nat
    BY <1>5
  <2> QED BY <1>2, <2>1, <2>2, <2>3
<1>6. CASE x < 0
  <2>1. PICK y \in Nat : y = -x /\ y > 0
    BY <1>6
  <2>2. T * (x * (x - 1)) + 2 * (x * d) = y * ((y + 1) * T - 2 * d)
    BY <2>1
  <2>3. (y + 1) * T >= 2 * T
    BY <2>1
  <2>4. (y + 1) * T - 2 * d > 0 /\ (y + 1) * T - 2 * d \in Int
    BY <1>1, <2>3
  <2>5. PICK z \in Nat : z = (y + 1) * T - 2 * d /\ z > 0
    BY <2>4
  <2>6. y * z > 0 /\ y * z \in Nat
    BY <2>1, <2>5
  <2> QED BY <1>2, <2>2, <2>5, <2>6
<1> QED BY <1>3, <1>4, <1>5, <1>6

LEMMA Cost1IsNatural ==
  ASSUME NEW T \in Nat, NEW x \in Int, NEW r \in Nat, NEW t \in Nat, r < T, t <= r
  PROVE  /\ Cost1(T, x, r, t) \in Nat
         /\ Cost1(T, x, r, t) = 0 => x = 1 \/ (x = 0 /\ r = t)
<1>1. PICK d \in Nat : d = r - t /\ d < T
  OBVIOUS
<1>2. Cost1(T, x, r, t) = T * (x * (x - 1)) - 2 * ((x - 1) * d)
  BY <1>1 DEF Cost1
<1>3. CASE x = 1
  BY <1>2, <1>3
<1>4. CASE x = 0
  BY <1>1, <1>2, <1>4
<1>5. CASE x >= 2
  <2>1. PICK y \in Nat : y = x - 1 /\ y > 0
    BY <1>5
  <2>2. T * (x * (x - 1)) - 2 * ((x - 1) * d) = y * ((y + 1) * T - 2 * d)
    BY <2>1
  <2>3. (y + 1) * T >= 2 * T
    BY <2>1
  <2>4. (y + 1) * T - 2 * d > 0 /\ (y + 1) * T - 2 * d \in Int
    BY <1>1, <2>3
  <2>5. PICK z \in Nat : z = (y + 1) * T - 2 * d /\ z > 0
    BY <2>4
  <2>6. y * z > 0 /\ y * z \in Nat
    BY <2>1, <2>5
  <2> QED BY <1>2, <2>2, <2>5, <2>6
<1>6. CASE x < 0
  <2>1. PICK y \in Nat : y = -x /\ y > 0
    BY <1>6
  <2>2. T * (x * (x - 1)) - 2 * ((x - 1) * d) = T * (y * (y + 1)) + 2 * ((y + 1) * d)
    BY <2>1
  <2>3. PICK z \in Nat : z = y * (y + 1) /\ z > 0
    BY <2>1
  <2>4. T * z > 0 /\ T * z \in Nat
    BY <2>3, <1>1
  <2>5. (y + 1) * d >= 0 /\ (y + 1) * d \in Nat
    BY <2>1
  <2> QED BY <1>2, <2>2, <2>3, <2>4, <2>5
<1> QED BY <1>3, <1>4, <1>5, <1>6

\* How far c is from proportional at each line, as in Distance.
OffSquared(S, b, T, D, c) == [l \in S |-> (c[l] * T - D * b[l]) * (c[l] * T - D * b[l])]

(* One line: what c costs there over the shares, and when that is nothing.  *)
LEMMA OneLine ==
  ASSUME NEW S, NEW b, NEW T, NEW D, NEW s, NEW r, NEW X, Quotas(S, b, T, D, s, r),
         Favoured(S, b, D, s, r, X), NEW t \in Nat, t < T,
         \A l \in X : r[l] >= t, \A l \in S \ X : r[l] <= t,
         NEW l \in S, NEW c, c[l] \in Int
  PROVE  \E w \in Nat :
           /\ OffSquared(S, b, T, D, c)[l]
                = (OffSquared(S, b, T, D, Shares(S, s, X))[l] + T * w)
                    + (T * T - 2 * (T * t)) * (c[l] - Shares(S, s, X)[l])
           /\ w = 0 => \/ c[l] = Shares(S, s, X)[l]
                       \/ l \in X /\ c[l] = s[l] /\ r[l] = t
                       \/ l \notin X /\ c[l] = s[l] + 1 /\ r[l] = t
<1>1. /\ T \in Nat /\ D \in Nat /\ b[l] \in Nat /\ s[l] \in Nat /\ r[l] \in Nat /\ r[l] < T
      /\ D * b[l] = T * s[l] + r[l]
  BY DEF Quotas
<1> DEFINE a == Shares(S, s, X)
           x == c[l] - s[l]
<1>2. \A v \in Int : v * T - D * b[l] = T * (v - s[l]) - r[l]
  <2> SUFFICES ASSUME NEW v \in Int PROVE v * T - D * b[l] = T * (v - s[l]) - r[l]
    OBVIOUS
  <2>1. PICK e \in Int : e = D * b[l] /\ e = T * s[l] + r[l]
    BY <1>1
  <2>2. v * T - e = T * (v - s[l]) - r[l]
    BY <1>1, <2>1
  <2> QED BY <2>1, <2>2
<1>3. x \in Int /\ T \in Int /\ r[l] \in Int /\ t \in Int
  BY <1>1
<1>4. OffSquared(S, b, T, D, c)[l] = (T * x - r[l]) * (T * x - r[l])
  <2>1. c[l] * T - D * b[l] = T * x - r[l]
    BY <1>2
  <2> QED BY <2>1 DEF OffSquared
<1>5. CASE l \in X
  <2>1. a[l] = s[l] + 1
    BY <1>5 DEF Shares
  <2>2. OffSquared(S, b, T, D, a)[l] = (T - r[l]) * (T - r[l])
    <3>1. a[l] * T - D * b[l] = T * (a[l] - s[l]) - r[l]
      BY <1>1, <1>2, <2>1
    <3>2. T * (a[l] - s[l]) - r[l] = T - r[l]
      BY <1>1, <2>1
    <3> QED BY <3>1, <3>2 DEF OffSquared
  <2>3. r[l] >= t
    BY <1>5
  <2>4. PICK w : w = Cost1(T, x, r[l], t)
    OBVIOUS
  <2>5. w \in Nat /\ (w = 0 => x = 1 \/ (x = 0 /\ r[l] = t))
    BY <1>1, <1>3, <2>3, <2>4, Cost1IsNatural
  <2>6. (T * x - r[l]) * (T * x - r[l])
          = ((T - r[l]) * (T - r[l]) + T * w) + (T * T - 2 * (T * t)) * (x - 1)
    <3>1. PICK q \in Int : q = r[l]
      BY <1>3
    <3>2. PICK z \in Int : z = x
      BY <1>3
    <3>3. w = Cost1(T, z, q, t)
      BY <2>4, <3>1, <3>2
    <3>4. (T * z - q) * (T * z - q) = ((T - q) * (T - q) + T * w) + (T * T - 2 * (T * t)) * (z - 1)
      BY <1>3, <3>3 DEF Cost1
    <3> HIDE DEF x
    <3> QED BY <3>1, <3>2, <3>4
  <2>7. x - 1 = c[l] - a[l]
    BY <1>1, <2>1
  <2>8. x = 1 => c[l] = a[l]
    BY <1>1, <2>1
  <2>9. x = 0 => c[l] = s[l]
    <3>1. s[l] \in Int /\ c[l] \in Int
      BY <1>1
    <3> QED BY <3>1
  <2> HIDE DEF x, a
  <2>10. OffSquared(S, b, T, D, c)[l]
           = (OffSquared(S, b, T, D, a)[l] + T * w) + (T * T - 2 * (T * t)) * (c[l] - a[l])
    BY <1>4, <2>2, <2>6, <2>7
  <2> QED BY <1>5, <2>5, <2>8, <2>9, <2>10 DEF a
<1>6. CASE l \notin X
  <2>1. a[l] = s[l]
    BY <1>6 DEF Shares
  <2>2. OffSquared(S, b, T, D, a)[l] = r[l] * r[l]
    <3>1. a[l] * T - D * b[l] = T * (a[l] - s[l]) - r[l]
      BY <1>1, <1>2, <2>1
    <3>2. T * (a[l] - s[l]) - r[l] = -r[l]
      BY <1>1, <2>1
    <3>3. (-r[l]) * (-r[l]) = r[l] * r[l]
      BY <1>1
    <3> QED BY <3>1, <3>2, <3>3 DEF OffSquared
  <2>3. r[l] <= t
    BY <1>6
  <2>4. PICK w : w = Cost0(T, x, r[l], t)
    OBVIOUS
  <2>5. w \in Nat /\ (w = 0 => x = 0 \/ (x = 1 /\ r[l] = t))
    BY <1>1, <1>3, <2>3, <2>4, Cost0IsNatural
  <2>6. (T * x - r[l]) * (T * x - r[l])
          = (r[l] * r[l] + T * w) + (T * T - 2 * (T * t)) * x
    <3>1. PICK q \in Int : q = r[l]
      BY <1>3
    <3>2. PICK z \in Int : z = x
      BY <1>3
    <3>3. w = Cost0(T, z, q, t)
      BY <2>4, <3>1, <3>2
    <3>4. (T * z - q) * (T * z - q) = (q * q + T * w) + (T * T - 2 * (T * t)) * z
      BY <1>3, <3>3 DEF Cost0
    <3> HIDE DEF x
    <3> QED BY <3>1, <3>2, <3>4
  <2>7. x = c[l] - a[l]
    BY <1>1, <2>1
  <2>8. x = 0 => c[l] = a[l]
    BY <1>1, <2>1
  <2>9. x = 1 => c[l] = s[l] + 1
    BY <1>1
  <2> HIDE DEF x, a
  <2>10. OffSquared(S, b, T, D, c)[l]
           = (OffSquared(S, b, T, D, a)[l] + T * w) + (T * T - 2 * (T * t)) * (c[l] - a[l])
    BY <1>4, <2>2, <2>6, <2>7
  <2> QED BY <1>6, <2>5, <2>8, <2>9, <2>10 DEF a
<1> QED BY <1>5, <1>6

Off(S, b, T, D, c) == SumFunctionOnSet(OffSquared(S, b, T, D, c), S)

(* What is off by no more than the shares differs from them in lines of one  *)
(* remainder only, which it favours otherwise.                               *)
Alike(S, s, r, X, c) ==
  \E t : \A l \in S : \/ c[l] = Shares(S, s, X)[l]
                      \/ l \in X /\ c[l] = s[l] /\ r[l] = t
                      \/ l \notin X /\ c[l] = s[l] + 1 /\ r[l] = t

(* Of all ways to deal out the discount, the shares are off by least; and   *)
(* what is off by as little differs only in lines of one remainder.         *)
LEMMA SharesAreNearest ==
  ASSUME NEW S, NEW b, NEW T, NEW D, NEW s, NEW r, NEW X, Quotas(S, b, T, D, s, r),
         Favoured(S, b, D, s, r, X), NEW c \in [S -> Int], SumFunctionOnSet(c, S) = D
  PROVE  /\ Off(S, b, T, D, Shares(S, s, X)) \in Int /\ Off(S, b, T, D, c) \in Int
         /\ Off(S, b, T, D, Shares(S, s, X)) <= Off(S, b, T, D, c)
         /\ Off(S, b, T, D, Shares(S, s, X)) = Off(S, b, T, D, c) => Alike(S, s, r, X, c)
<1>9. PICK t \in Nat : t < T /\ (\A l \in X : r[l] >= t) /\ \A l \in S \ X : r[l] <= t
  BY Threshold
<1> DEFINE a == Shares(S, s, X)
           offA == OffSquared(S, b, T, D, a)
           offC == OffSquared(S, b, T, D, c)
           same(l) == \/ c[l] = a[l]
                      \/ l \in X /\ c[l] = s[l] /\ r[l] = t
                      \/ l \notin X /\ c[l] = s[l] + 1 /\ r[l] = t
           moved == [l \in S |-> c[l] - a[l]]
<1>0. PICK K \in Int : K = T * T - 2 * (T * t)
  BY DEF Quotas
<1>1. /\ IsFiniteSet(S) /\ T \in Nat /\ T > 0 /\ D \in Int
      /\ \A l \in S : b[l] \in Nat
  BY DEF Quotas
<1>2. SumFunctionOnSet(a, S) = D /\ \A l \in S : a[l] \in Int
  BY DiscountAddsUp
<1>3. SumFunctionOnSet(moved, S) = 0
  <2>1. \A l \in S : moved[l] = c[l] + (-1) * a[l] /\ c[l] \in Int /\ a[l] \in Int
    BY <1>2
  <2> HIDE DEF a, moved
  <2>2. SumFunctionOnSet(moved, S) = SumFunctionOnSet(c, S) + (-1) * SumFunctionOnSet(a, S)
    BY <1>1, <2>1, SumLinear
  <2> QED BY <1>1, <1>2, <2>2
<1>4. \A l \in S : \E w \in Nat :
        offC[l] = (offA[l] + T * w) + K * (c[l] - a[l]) /\ (w = 0 => same(l))
  <2>1. \A l \in S : c[l] \in Int
    OBVIOUS
  <2> QED BY <1>0, <1>9, <2>1, OneLine
<1>5. \A l \in S : offA[l] \in Int /\ offC[l] \in Int /\ moved[l] \in Int
  <2> SUFFICES ASSUME NEW l \in S PROVE offA[l] \in Int /\ offC[l] \in Int /\ moved[l] \in Int
    OBVIOUS
  <2>1. PICK e \in Int : e = a[l] * T - D * b[l]
    BY <1>1, <1>2
  <2>2. PICK f \in Int : f = c[l] * T - D * b[l]
    BY <1>1
  <2>3. offA[l] = e * e /\ offC[l] = f * f
    BY <2>1, <2>2 DEF OffSquared
  <2>4. moved[l] \in Int
    BY <1>2
  <2> QED BY <2>3, <2>4
<1> DEFINE cost == [l \in S |-> offC[l] + (-K) * moved[l]]
<1>6. \A l \in S : /\ cost[l] \in Int /\ offA[l] <= cost[l]
                   /\ offA[l] = cost[l] => same(l)
  <2> SUFFICES ASSUME NEW l \in S
               PROVE  cost[l] \in Int /\ offA[l] <= cost[l] /\ (offA[l] = cost[l] => same(l))
    OBVIOUS
  <2>1. PICK w \in Nat : offC[l] = (offA[l] + T * w) + K * (c[l] - a[l]) /\ (w = 0 => same(l))
    BY <1>4
  <2>2. PICK m \in Int : m = c[l] - a[l] /\ m = moved[l]
    BY <1>2
  <2>3. cost[l] = offC[l] + (-K) * m
    BY <2>2
  <2>4. offA[l] \in Int /\ offC[l] \in Int /\ offC[l] = (offA[l] + T * w) + K * m
    BY <1>5, <2>1, <2>2
  <2>5. PICK n \in Int : n = K * m
    BY <2>2
  <2>6. (-K) * m = -n
    BY <2>2, <2>5
  <2>7. PICK v \in Nat : v = T * w /\ (w # 0 => v > 0)
    BY <1>1
  <2> HIDE DEF cost, offA, offC, same
  <2>8. cost[l] = offA[l] + v
    BY <2>3, <2>4, <2>5, <2>6, <2>7
  <2> QED BY <2>1, <2>4, <2>7, <2>8
<1>7. SumFunctionOnSet(cost, S) = SumFunctionOnSet(offC, S)
  <2>1. \A l \in S : cost[l] = offC[l] + (-K) * moved[l] /\ offC[l] \in Int /\ moved[l] \in Int
    BY <1>5
  <2>2. SumFunctionOnSet(offC, S) \in Int
    BY <1>1, <1>5, SumInt
  <2> HIDE DEF cost, offC, moved
  <2>3. SumFunctionOnSet(cost, S)
          = SumFunctionOnSet(offC, S) + (-K) * SumFunctionOnSet(moved, S)
    BY <1>1, <2>1, SumLinear
  <2> QED BY <1>3, <2>2, <2>3
<1>8. /\ SumFunctionOnSet(offA, S) <= SumFunctionOnSet(cost, S)
      /\ SumFunctionOnSet(offA, S) = SumFunctionOnSet(cost, S) => \A l \in S : offA[l] = cost[l]
  <2>1. \A l \in S : offA[l] \in Int /\ cost[l] \in Int /\ offA[l] <= cost[l]
    BY <1>5, <1>6
  <2> HIDE DEF cost, offA
  <2> QED BY <1>1, <2>1, SumAtMost
<1>10. SumFunctionOnSet(offA, S) \in Int /\ SumFunctionOnSet(offC, S) \in Int
  <2>1. \A l \in S : offA[l] \in Int /\ offC[l] \in Int
    BY <1>5
  <2> HIDE DEF offA, offC
  <2> QED BY <1>1, <2>1, SumInt
<1>11. (\A l \in S : same(l)) => Alike(S, s, r, X, c)
  BY DEF Alike
<1> QED BY <1>6, <1>7, <1>8, <1>10, <1>11 DEF Off

(* Ties burden earlier lines first. *)
LEMMA SharesAreFirst ==
  ASSUME NEW S, NEW b, NEW T, NEW D, NEW s, NEW r, NEW X, Quotas(S, b, T, D, s, r),
         Favoured(S, b, D, s, r, X), NEW c \in [S -> Int], \A l \in S : c[l] <= b[l],
         SumFunctionOnSet(c, S) = D, c # Shares(S, s, X), Alike(S, s, r, X, c)
  PROVE  Earlier(Shares(S, s, X), c)
<1>0. PICK t : \A l \in S : \/ c[l] = Shares(S, s, X)[l]
                            \/ l \in X /\ c[l] = s[l] /\ r[l] = t
                            \/ l \notin X /\ c[l] = s[l] + 1 /\ r[l] = t
  BY DEF Alike
<1> DEFINE a == Shares(S, s, X)
           M == {l \in S : a[l] # c[l]}
<1>1. /\ IsFiniteSet(S) /\ S \subseteq Nat /\ DOMAIN a = S /\ X \subseteq S
      /\ \A l \in S : a[l] \in Int /\ s[l] \in Nat /\ b[l] \in Nat /\ r[l] \in Nat /\ c[l] \in Int
      /\ \A l \in X : a[l] = s[l] + 1
      /\ \A l \in S \ X : a[l] = s[l]
  BY DEF Quotas, Favoured, Open, Shares
<1>2. IsFiniteSet(M) /\ M \subseteq Nat
  BY <1>1, FS_Subset
<1>3. M # {}
  BY <1>1 DEF Shares
<1> DEFINE number == [l \in M |-> l]
<1>4. PICK m \in M : \A k \in M : m <= k
  <2>1. \A l \in M : number[l] \in Int
    BY <1>2
  <2>2. \E m \in M : \A k \in M : number[m] <= number[k]
    <3> HIDE DEF number, M
    <3> QED BY <1>2, <1>3, <2>1, SmallestValue
  <2> QED BY <2>2
<1>5. \A k \in S : k < m => a[k] = c[k]
  BY <1>1, <1>2, <1>4
<1>6. a[m] > c[m]
  <2>1. SUFFICES ASSUME ~(a[m] > c[m]) PROVE FALSE
    OBVIOUS
  <2>2. m \in S \ X /\ c[m] = s[m] + 1 /\ r[m] = t
    BY <1>0, <1>1, <2>1
  <2>3. m \in Open(S, b, s)
    BY <1>1, <2>2 DEF Open
  <2>4. \E j \in S : a[j] > c[j]
    <3>1. SUFFICES ASSUME \A j \in S : a[j] <= c[j] PROVE FALSE
      BY <1>1
    <3>2. SumFunctionOnSet(a, S) = SumFunctionOnSet(c, S)
      BY DiscountAddsUp
    <3>3. \A j \in S : a[j] \in Int /\ c[j] \in Int /\ a[j] <= c[j]
      BY <1>1, <3>1
    <3> HIDE DEF a
    <3>5. IsFiniteSet(S)
      BY <1>1
    <3>4. /\ SumFunctionOnSet(a, S) <= SumFunctionOnSet(c, S)
          /\ SumFunctionOnSet(a, S) = SumFunctionOnSet(c, S) => \A j \in S : a[j] = c[j]
      BY <3>3, <3>5, SumAtMost
    <3> QED BY <1>4, <3>2, <3>4
  <2>5. PICK j \in S : a[j] > c[j]
    BY <2>4
  <2>6. j \in X /\ r[j] = t
    BY <1>0, <1>1, <2>5
  <2>7. Before(r, j, m)
    BY <2>2, <2>3, <2>6 DEF Favoured
  <2>8. j < m
    BY <1>1, <2>2, <2>6, <2>7 DEF Before
  <2> QED BY <1>1, <1>5, <2>5, <2>8
<1> QED BY <1>1, <1>5, <1>6 DEF Earlier

-----------------------------------------------------------------------------
(* allocateOrderMerchantDiscount *)

LEMMA LargestBasis ==
  ASSUME NEW S, IsFiniteSet(S), S # {}, NEW b \in [S -> Nat]
  PROVE  Max(Range(b)) \in Nat /\ \A l \in S : b[l] <= Max(Range(b))
<1> DEFINE below == [l \in S |-> -b[l]]
<1>1. \A l \in S : below[l] = -b[l] /\ below[l] \in Int
  OBVIOUS
<1> HIDE DEF below
<1>2. PICK m \in S : \A l \in S : below[m] <= below[l]
  BY <1>1, SmallestValue
<1>3. \A l \in S : b[l] <= b[m] /\ b[l] \in Nat
  BY <1>1, <1>2
<1>4. b[m] \in Range(b) /\ \A y \in Range(b) : b[m] >= y /\ y \in Nat
  BY <1>3 DEF Range
<1>5. Max(Range(b)) \in Range(b) /\ \A y \in Range(b) : Max(Range(b)) >= y
  BY <1>4 DEF Max
<1>6. \A l \in S : b[l] \in Range(b)
  BY DEF Range
<1> QED BY <1>4, <1>5, <1>6

LEMMA DistanceIs ==
  ASSUME NEW S, NEW b \in [S -> Nat], NEW T, T = SumFunctionOnSet(b, S), NEW D, NEW c
  PROVE  Distance(D, b, c) = Off(S, b, T, D, c)
<1>1. DOMAIN b = S /\ Total(b) = T
  BY SumOfFunction DEF Total
<1>2. Distance(D, b, c) = Total(OffSquared(S, b, T, D, c))
  BY <1>1 DEF Distance, OffSquared
<1>3. DOMAIN OffSquared(S, b, T, D, c) = S
  BY DEF OffSquared
<1>4. SumFunction(OffSquared(S, b, T, D, c)) = SumFunctionOnSet(OffSquared(S, b, T, D, c), S)
  BY <1>3, SumOfFunction
<1> QED BY <1>2, <1>4 DEF Total, Off

Floor(S, b, T, D) == [l \in S |-> (D * b[l]) \div T]
Remainder(S, b, T, D) == [l \in S |-> (D * b[l]) % T]

LEMMA FloorsAreQuotas ==
  ASSUME NEW S, IsFiniteSet(S), S \subseteq Nat, NEW b \in [S -> Nat], NEW T, T > 0,
         T = SumFunctionOnSet(b, S), T \in Nat, NEW D \in Nat, D <= T
  PROVE  Quotas(S, b, T, D, Floor(S, b, T, D), Remainder(S, b, T, D))
<1> DEFINE s == Floor(S, b, T, D)
           r == Remainder(S, b, T, D)
<1>1. ASSUME NEW l \in S
      PROVE  /\ s[l] \in Nat /\ r[l] \in Nat /\ r[l] < T
             /\ D * b[l] = T * s[l] + r[l]
             /\ s[l] <= b[l] /\ (s[l] = b[l] => r[l] = 0)
  <2>1. PICK e \in Nat : e = b[l]
    OBVIOUS
  <2>2. s[l] = (D * e) \div T /\ r[l] = (D * e) % T
    BY <2>1 DEF Floor, Remainder
  <2> HIDE DEF s, r
  <2>3. /\ (D * e) \div T \in Nat /\ (D * e) % T \in Nat /\ (D * e) % T < T
        /\ D * e = T * ((D * e) \div T) + ((D * e) % T)
        /\ (D * e) \div T <= e
        /\ (D * e) \div T = e => (D * e) % T = 0
    BY Floors
  <2> QED BY <2>1, <2>2, <2>3
<1>2. s \in [S -> Nat] /\ r \in [S -> Nat]
  BY <1>1 DEF Floor, Remainder
<1> HIDE DEF s, r
<1>3. Quotas(S, b, T, D, s, r)
  BY <1>1, <1>2 DEF Quotas
<1> QED BY <1>3 DEF s, r

(* What the code computes, when it refuses nothing. *)
LEMMA AllocationIs ==
  ASSUME NEW S, IsFiniteSet(S), S \subseteq Nat, NEW b \in [S -> Nat], NEW T, T > 0,
         T = SumFunctionOnSet(b, S), T \in Nat, NEW D \in Nat, D <= T, D > 0
  PROVE  LET s == Floor(S, b, T, D) r == Remainder(S, b, T, D) IN
         allocateOrderMerchantDiscount(D, b) = Shares(S, s, Bonus(S, b, D, s, r))
<1> DEFINE s == Floor(S, b, T, D)
           r == Remainder(S, b, T, D)
<1>1. DOMAIN b = S /\ Total(b) = T
  BY SumOfFunction DEF Total
<1>2. s = [l \in DOMAIN b |-> (D * b[l]) \div Total(b)]
  BY <1>1 DEF Floor
<1>3. \A l \in S : r[l] = (D * b[l]) % Total(b)
  BY <1>1 DEF Remainder
<1>4. DOMAIN s = S
  BY DEF Floor
<1> HIDE DEF s, r
<1>5. Total(s) = SumFunctionOnSet(s, S)
  BY <1>4, SumOfFunction DEF Total
<1>6. Residual(S, D, s) = D - Total(s)
  BY <1>5 DEF Residual
<1>7. Open(S, b, s) = {l \in DOMAIN b : b[l] > s[l]}
  BY <1>1 DEF Open
<1>8. Quotas(S, b, T, D, s, r)
  BY FloorsAreQuotas DEF s, r
<1>9. ~(Cardinality(Open(S, b, s)) < Residual(S, D, s))
  <2>1. IsFiniteSet(Open(S, b, s))
    BY FS_Subset DEF Open
  <2>2. Cardinality(Open(S, b, s)) \in Nat
    BY <2>1, FS_CardinalityType
  <2>3. Residual(S, D, s) \in Nat /\ Residual(S, D, s) <= Cardinality(Open(S, b, s))
    BY <1>8, ResidualFits
  <2> QED BY <2>2, <2>3
<1>10. ~(D = 0) /\ ~(D > Total(b))
  BY <1>1
<1> DEFINE remainder(l) == (D * b[l]) % Total(b)
           before(k, l) == \/ remainder(k) > remainder(l)
                           \/ remainder(k) = remainder(l) /\ k < l
           open == {l \in DOMAIN b : b[l] > s[l]}
           bonus == {l \in open : Cardinality({k \in open : before(k, l)}) < D - Total(s)}
<1>11. \A k, l \in S : before(k, l) <=> Before(r, k, l)
  BY <1>3 DEF Before
<1>12. bonus = Bonus(S, b, D, s, r)
  <2>1. open = Open(S, b, s) /\ open \subseteq S
    BY <1>7 DEF Open
  <2>2. \A l \in open : {k \in open : before(k, l)} = {k \in open : Before(r, k, l)}
    BY <1>11, <2>1
  <2> HIDE DEF before, open
  <2>3. bonus = {l \in open : Cardinality({k \in open : Before(r, k, l)}) < D - Total(s)}
    BY <2>2
  <2> QED BY <1>6, <2>1, <2>3 DEF Bonus
<1>13. allocateOrderMerchantDiscount(D, b)
         = [l \in DOMAIN b |-> IF l \in bonus THEN s[l] + 1 ELSE s[l]]
  BY <1>2, <1>6, <1>7, <1>9, <1>10 DEF allocateOrderMerchantDiscount
<1> HIDE DEF bonus
<1>14. allocateOrderMerchantDiscount(D, b) = Shares(S, s, Bonus(S, b, D, s, r))
  BY <1>1, <1>12, <1>13 DEF Shares
<1> QED BY <1>14 DEF s, r

Fairer(D, b, a, c) ==
  Distance(D, b, a) < Distance(D, b, c) \/ (Distance(D, b, a) = Distance(D, b, c) /\ Earlier(a, c))

LEMMA SharesAreFairer ==
  ASSUME NEW S, NEW b, NEW T, NEW D, NEW s, NEW r, NEW X, Quotas(S, b, T, D, s, r),
         Favoured(S, b, D, s, r, X), NEW c \in [S -> Int], \A l \in S : c[l] <= b[l],
         SumFunctionOnSet(c, S) = D, c # Shares(S, s, X)
  PROVE  Fairer(D, b, Shares(S, s, X), c)
<1>1. PICK a : a = Shares(S, s, X)
  OBVIOUS
<1>2. /\ Off(S, b, T, D, a) \in Int /\ Off(S, b, T, D, c) \in Int
      /\ Off(S, b, T, D, a) <= Off(S, b, T, D, c)
      /\ Off(S, b, T, D, a) = Off(S, b, T, D, c) => Alike(S, s, r, X, c)
  BY <1>1, SharesAreNearest
<1>3. Alike(S, s, r, X, c) => Earlier(a, c)
  BY <1>1, SharesAreFirst
<1>4. b \in [S -> Nat] /\ T = SumFunctionOnSet(b, S)
  BY DEF Quotas
<1>5. Distance(D, b, a) = Off(S, b, T, D, a) /\ Distance(D, b, c) = Off(S, b, T, D, c)
  BY <1>4, DistanceIs
<1> QED BY <1>1, <1>2, <1>3, <1>5 DEF Fairer

\* Within the bases, the whole discount, and fairer than any other way.
Dealt(S, D, b, a) ==
  /\ a \in [S -> Nat] /\ SumFunctionOnSet(a, S) = D /\ \A l \in S : a[l] <= b[l]
  /\ \A c \in [S -> Nat] :
       (\A l \in S : c[l] <= b[l]) /\ SumFunctionOnSet(c, S) = D /\ c # a => Fairer(D, b, a, c)

LEMMA NothingIsDealt ==
  ASSUME NEW S, IsFiniteSet(S), NEW b \in [S -> Nat]
  PROVE  Dealt(S, 0, b, allocateOrderMerchantDiscount(0, b))
<1>1. PICK a : a = allocateOrderMerchantDiscount(0, b)
  OBVIOUS
<1>2. a = [l \in S |-> 0]
  BY <1>1 DEF allocateOrderMerchantDiscount
<1>3. SumFunctionOnSet(a, S) = 0
  BY <1>2, SumOfNothing
<1>4. ASSUME NEW c \in [S -> Nat], SumFunctionOnSet(c, S) = 0 PROVE c = a
  <2>1. \A l \in S : c[l] \in Int /\ c[l] >= 0
    OBVIOUS
  <2>2. \A l \in S : c[l] <= SumFunctionOnSet(c, S)
    BY <2>1, SumNatural
  <2>3. \A l \in S : c[l] = 0
    BY <1>4, <2>1, <2>2
  <2> QED BY <1>2, <2>3
<1> QED BY <1>1, <1>2, <1>3, <1>4 DEF Dealt

LEMMA SomethingIsDealt ==
  ASSUME NEW S, IsFiniteSet(S), S \subseteq Nat, NEW b \in [S -> Nat], NEW D \in Nat,
         D <= SumFunctionOnSet(b, S), D > 0
  PROVE  Dealt(S, D, b, allocateOrderMerchantDiscount(D, b))
<1>1. PICK T : T = SumFunctionOnSet(b, S)
  OBVIOUS
<1>2. T \in Nat /\ T > 0 /\ D <= T
  <2>1. \A l \in S : b[l] \in Int
    OBVIOUS
  <2>2. T \in Int
    BY <1>1, <2>1, SumInt
  <2> QED BY <1>1, <2>2
<1>3. PICK s : s = Floor(S, b, T, D)
  OBVIOUS
<1>4. PICK r : r = Remainder(S, b, T, D)
  OBVIOUS
<1>5. PICK X : X = Bonus(S, b, D, s, r)
  OBVIOUS
<1>6. Quotas(S, b, T, D, s, r)
  BY <1>1, <1>2, <1>3, <1>4, FloorsAreQuotas
<1>7. Favoured(S, b, D, s, r, X)
  BY <1>5, <1>6, BonusIsFavoured
<1>8. allocateOrderMerchantDiscount(D, b) = Shares(S, s, X)
  BY <1>1, <1>2, <1>3, <1>4, <1>5, AllocationIs
<1>9. /\ SumFunctionOnSet(Shares(S, s, X), S) = D
      /\ \A l \in S : Shares(S, s, X)[l] \in Nat /\ Shares(S, s, X)[l] <= b[l]
  BY <1>6, <1>7, DiscountAddsUp
<1>10. Shares(S, s, X) \in [S -> Nat]
  BY <1>9 DEF Shares
<1>11. ASSUME NEW c \in [S -> Nat], \A l \in S : c[l] <= b[l], SumFunctionOnSet(c, S) = D,
              c # Shares(S, s, X)
       PROVE  Fairer(D, b, Shares(S, s, X), c)
  <2>1. c \in [S -> Int]
    OBVIOUS
  <2> QED BY <1>6, <1>7, <1>11, <2>1, SharesAreFairer
<1> QED BY <1>8, <1>9, <1>10, <1>11 DEF Dealt

LEMMA DealtIsFair ==
  ASSUME NEW S, IsFiniteSet(S), NEW b \in [S -> Nat], NEW D, NEW a, Dealt(S, D, b, a)
  PROVE  Fair(D, b, a)
<1>1. PICK top : top = Max(Range(b))
  OBVIOUS
<1>2. S # {} => top \in Nat /\ \A l \in S : b[l] <= top
  BY <1>1, LargestBasis
<1>3. PICK ways : ways = {c \in [S -> 0..top] : Total(c) = D /\ \A l \in S : c[l] <= b[l]}
  OBVIOUS
<1>4. \A c : DOMAIN c = S => Total(c) = SumFunctionOnSet(c, S)
  BY SumOfFunction DEF Total
<1>5. \A c \in ways : /\ c \in [S -> Nat] /\ (\A l \in S : c[l] <= b[l])
                      /\ SumFunctionOnSet(c, S) = D
  <2> SUFFICES ASSUME NEW c \in ways
               PROVE  /\ c \in [S -> Nat] /\ (\A l \in S : c[l] <= b[l])
                      /\ SumFunctionOnSet(c, S) = D
    OBVIOUS
  <2>1. c \in [S -> 0..top] /\ Total(c) = D /\ \A l \in S : c[l] <= b[l]
    BY <1>3
  <2>2. SumFunctionOnSet(c, S) = D
    BY <1>4, <2>1
  <2>3. c \in [S -> Nat]
    BY <1>2, <2>1
  <2> QED BY <2>1, <2>2, <2>3
<1>6. a \in ways
  <2>1. a \in [S -> Nat] /\ (\A l \in S : a[l] <= b[l]) /\ SumFunctionOnSet(a, S) = D
    BY DEF Dealt
  <2>2. Total(a) = D
    BY <1>4, <2>1
  <2>3. a \in [S -> 0..top]
    BY <1>2, <2>1
  <2> QED BY <1>3, <2>1, <2>2, <2>3
<1>7. \A c \in ways \ {a} : Fairer(D, b, a, c)
  BY <1>5 DEF Dealt
<1>8. ways = {c \in [DOMAIN b -> 0..Max(Range(b))] :
                Total(c) = D /\ \A l \in DOMAIN b : c[l] <= b[l]}
  BY <1>1, <1>3
<1> QED BY <1>6, <1>7, <1>8 DEF Fair, Fairer

(* A discount that the bases can bear is dealt out fairly, any other refused. *)
LEMMA DiscountsAreDealt ==
  ASSUME NEW S, IsFiniteSet(S), S \subseteq Nat, NEW b \in [S -> Nat], NEW D \in Nat
  PROVE  IF D > SumFunctionOnSet(b, S) THEN allocateOrderMerchantDiscount(D, b) = Refused
         ELSE /\ Dealt(S, D, b, allocateOrderMerchantDiscount(D, b))
              /\ Fair(D, b, allocateOrderMerchantDiscount(D, b))
<1>1. Total(b) = SumFunctionOnSet(b, S)
  BY SumOfFunction DEF Total
<1>2. \A l \in S : b[l] \in Int /\ b[l] >= 0
  OBVIOUS
<1>3. SumFunctionOnSet(b, S) \in Int /\ SumFunctionOnSet(b, S) >= 0
  BY <1>2, SumNatural
<1>4. CASE D > SumFunctionOnSet(b, S)
  <2>1. D # 0 /\ D > Total(b)
    BY <1>1, <1>3, <1>4
  <2>2. allocateOrderMerchantDiscount(D, b) = Refused
    BY <2>1 DEF allocateOrderMerchantDiscount
  <2> QED BY <1>4, <2>2
<1>5. CASE ~(D > SumFunctionOnSet(b, S))
  <2>1. D <= SumFunctionOnSet(b, S)
    BY <1>3, <1>5
  <2>2. Dealt(S, D, b, allocateOrderMerchantDiscount(D, b))
    <3>1. CASE D = 0
      BY <3>1, NothingIsDealt
    <3>2. CASE D > 0
      BY <2>1, <3>2, SomethingIsDealt
    <3> QED BY <3>1, <3>2
  <2>3. Fair(D, b, allocateOrderMerchantDiscount(D, b))
    BY <2>2, DealtIsFair
  <2> QED BY <1>5, <2>2, <2>3
<1> QED BY <1>4, <1>5

-----------------------------------------------------------------------------
(* What the lines of an order bring *)

Gross(terms) == [l \in DOMAIN terms |-> terms[l].gross]
LineDiscount(terms) == [l \in DOMAIN terms |-> terms[l].discount]
Funding(terms) == [l \in DOMAIN terms |-> terms[l].funding]
NetOf(terms, a) == [l \in DOMAIN terms |-> computeLineNetMerchandiseSalesMinor(terms[l], a[l])]
BasisOf(terms) == [l \in DOMAIN terms |-> basisMinor(terms[l])]

LEMMA TermsAreAmounts ==
  ASSUME NEW t \in LineTerms
  PROVE  /\ t.gross \in Nat /\ t.discount \in Nat /\ t.funding \in Nat /\ t.eligible \in BOOLEAN
         /\ t.discount <= t.gross =>
              basisMinor(t) \in Nat /\ basisMinor(t) <= t.gross - t.discount
<1>1. t.gross \in Nat /\ t.discount \in Nat /\ t.funding \in Nat /\ t.eligible \in BOOLEAN
  BY DiscountAssumption DEF LineTerms
<1> QED BY <1>1 DEF basisMinor

LEMMA AllocationsAreDealt ==
  ASSUME NEW S, IsFiniteSet(S), S \subseteq Nat, NEW terms \in [S -> LineTerms], NEW D \in Nat,
         Allocations(D, terms) # Refused
  PROVE  /\ \A l \in S : terms[l].discount <= terms[l].gross
         /\ Dealt(S, D, BasisOf(terms), Allocations(D, terms))
         /\ Fair(D, BasisOf(terms), Allocations(D, terms))
<1>1. \A l \in S : /\ terms[l].gross \in Nat /\ terms[l].discount \in Nat
                   /\ terms[l].discount <= terms[l].gross => basisMinor(terms[l]) \in Nat
  BY TermsAreAmounts
<1>2. \A l \in S : terms[l].discount <= terms[l].gross
  <2>1. ~ \E l \in DOMAIN terms : terms[l].discount > terms[l].gross
    BY DEF Allocations
  <2> QED BY <1>1, <2>1
<1>3. Allocations(D, terms) = allocateOrderMerchantDiscount(D, BasisOf(terms))
  <2>1. ~ \E l \in DOMAIN terms : terms[l].discount > terms[l].gross
    BY <1>1, <1>2
  <2> QED BY <2>1 DEF Allocations, BasisOf
<1>4. BasisOf(terms) \in [S -> Nat]
  BY <1>1, <1>2 DEF BasisOf
<1>5. PICK b \in [S -> Nat] : b = BasisOf(terms)
  BY <1>4
<1>6. IF D > SumFunctionOnSet(b, S) THEN allocateOrderMerchantDiscount(D, b) = Refused
      ELSE /\ Dealt(S, D, b, allocateOrderMerchantDiscount(D, b))
           /\ Fair(D, b, allocateOrderMerchantDiscount(D, b))
  BY DiscountsAreDealt
<1> QED BY <1>2, <1>3, <1>5, <1>6

LEMMA NetsAddUp ==
  ASSUME NEW S, IsFiniteSet(S), NEW terms \in [S -> LineTerms], NEW D \in Nat,
         NEW a, Dealt(S, D, BasisOf(terms), a),
         \A l \in S : terms[l].discount <= terms[l].gross
  PROVE  NetAddsUp(D, terms, NetOf(terms, a))
<1>1. PICK g : g = Gross(terms)
  OBVIOUS
<1>2. PICK d : d = LineDiscount(terms)
  OBVIOUS
<1>3. PICK f : f = Funding(terms)
  OBVIOUS
<1>4. PICK n : n = NetOf(terms, a)
  OBVIOUS
<1>5. DOMAIN terms = S /\ DOMAIN g = S /\ DOMAIN d = S /\ DOMAIN f = S /\ DOMAIN n = S
  BY <1>1, <1>2, <1>3, <1>4 DEF Gross, LineDiscount, Funding, NetOf
<1>6. ASSUME NEW l \in S
      PROVE  /\ g[l] \in Nat /\ d[l] \in Nat /\ f[l] \in Nat /\ a[l] \in Nat
             /\ a[l] <= g[l] - d[l] /\ f[l] = terms[l].funding
             /\ n[l] = (g[l] - d[l]) - a[l] + f[l]
  <2>1. terms[l] \in LineTerms
    OBVIOUS
  <2>2. g[l] = terms[l].gross /\ d[l] = terms[l].discount /\ f[l] = terms[l].funding
    BY <1>1, <1>2, <1>3, <1>5 DEF Gross, LineDiscount, Funding
  <2>3. /\ terms[l].gross \in Nat /\ terms[l].discount \in Nat /\ terms[l].funding \in Nat
        /\ basisMinor(terms[l]) \in Nat /\ basisMinor(terms[l]) <= terms[l].gross - terms[l].discount
    BY <2>1, TermsAreAmounts
  <2>4. a[l] \in Nat /\ a[l] <= basisMinor(terms[l])
    BY <1>5 DEF Dealt, BasisOf
  <2>5. n[l] = (terms[l].gross - terms[l].discount) - a[l] + terms[l].funding
    BY <1>4, <1>5 DEF NetOf, computeLineNetMerchandiseSalesMinor
  <2> QED BY <2>2, <2>3, <2>4, <2>5
<1>7. /\ SumFunctionOnSet(g, S) \in Int /\ SumFunctionOnSet(d, S) \in Int
      /\ SumFunctionOnSet(f, S) \in Int /\ SumFunctionOnSet(a, S) = D
  <2>1. \A l \in S : g[l] \in Int /\ d[l] \in Int /\ f[l] \in Int
    BY <1>6
  <2>2. SumFunctionOnSet(g, S) \in Int
    BY <2>1, SumInt
  <2>3. SumFunctionOnSet(d, S) \in Int
    BY <2>1, SumInt
  <2>4. SumFunctionOnSet(f, S) \in Int
    BY <2>1, SumInt
  <2> QED BY <2>2, <2>3, <2>4 DEF Dealt
<1>8. PICK u : u = [l \in S |-> g[l] - d[l]]
  OBVIOUS
<1>9. PICK v : v = [l \in S |-> u[l] - a[l]]
  OBVIOUS
<1>10. SumFunctionOnSet(u, S) = SumFunctionOnSet(g, S) - SumFunctionOnSet(d, S)
  <2>1. \A l \in S : g[l] \in Int /\ d[l] \in Int /\ u[l] = g[l] - d[l]
    BY <1>6, <1>8
  <2> QED BY <2>1, SumMinus
<1>11. SumFunctionOnSet(v, S) = SumFunctionOnSet(u, S) - SumFunctionOnSet(a, S)
  <2>1. \A l \in S : u[l] \in Int /\ a[l] \in Int /\ v[l] = u[l] - a[l]
    BY <1>6, <1>8, <1>9
  <2> QED BY <2>1, SumMinus
<1>12. SumFunctionOnSet(n, S) = SumFunctionOnSet(v, S) + SumFunctionOnSet(f, S)
  <2>1. \A l \in S : v[l] \in Int /\ f[l] \in Int /\ n[l] = v[l] + f[l]
    BY <1>6, <1>8, <1>9
  <2> QED BY <2>1, SumPlus
<1>13. SumFunctionOnSet(n, S)
         = SumFunctionOnSet(g, S) - SumFunctionOnSet(d, S) - D + SumFunctionOnSet(f, S)
  <2>1. D \in Int
    OBVIOUS
  <2> QED BY <1>7, <1>10, <1>11, <1>12, <2>1
<1>14. /\ Total(g) = SumFunctionOnSet(g, S) /\ Total(d) = SumFunctionOnSet(d, S)
       /\ Total(f) = SumFunctionOnSet(f, S) /\ Total(n) = SumFunctionOnSet(n, S)
  BY <1>5, SumOfFunction DEF Total
<1>15. Total(n) = Total(g) - Total(d) - D + Total(f)
  BY <1>13, <1>14
<1>16. \A l \in DOMAIN terms : n[l] >= terms[l].funding
  BY <1>5, <1>6
<1>17. NetAddsUp(D, terms, n)
  BY <1>1, <1>2, <1>3, <1>15, <1>16 DEF NetAddsUp, Gross, LineDiscount, Funding
<1> QED BY <1>4, <1>17

-----------------------------------------------------------------------------
(* The theorems about money *)

(* Whatever the amounts and however many lines, a discount the bases can    *)
(* bear is dealt out to the last minor unit, within the bases, and nearer   *)
(* to proportional than in any other way; any other is refused.             *)
THEOREM DiscountsAreFair == IsFiniteSet(TermLine) => DiscountIsDealtFairly
<1> SUFFICES ASSUME IsFiniteSet(TermLine) PROVE DiscountIsDealtFairly
  OBVIOUS
<1>1. ASSUME NEW basis \in [TermLine -> Basis], NEW discount \in 0..(Total(basis) + 1)
      PROVE  LET a == allocateOrderMerchantDiscount(discount, basis) IN
             IF discount > Total(basis) THEN a = Refused ELSE Fair(discount, basis, a)
  <2>1. basis \in [TermLine -> Nat] /\ TermLine \subseteq Nat
    BY DiscountAssumption
  <2>2. Total(basis) = SumFunctionOnSet(basis, TermLine)
    BY SumOfFunction DEF Total
  <2>3. discount \in Nat
    OBVIOUS
  <2> QED BY <2>1, <2>2, <2>3, DiscountsAreDealt
<1>2. ASSUME NEW lines \in kSubset(2, TermLine), NEW terms \in [lines -> LineTerms],
             NEW discount \in Amount, Allocations(discount, terms) # Refused
      PROVE  NetAddsUp(discount, terms, NetOf(terms, Allocations(discount, terms)))
  <2>1. lines \subseteq TermLine
    BY DEF kSubset
  <2>2. IsFiniteSet(lines) /\ lines \subseteq Nat /\ discount \in Nat
    BY <2>1, FS_Subset, DiscountAssumption
  <2>3. /\ \A l \in lines : terms[l].discount <= terms[l].gross
        /\ Dealt(lines, discount, BasisOf(terms), Allocations(discount, terms))
    BY <1>2, <2>2, AllocationsAreDealt
  <2> QED BY <2>2, <2>3, NetsAddUp
<1>3. \A lines \in kSubset(2, TermLine) : \A terms \in [lines -> LineTerms] :
        \A a : NetOf(terms, a)
                 = [l \in lines |-> computeLineNetMerchandiseSalesMinor(terms[l], a[l])]
  BY DEF NetOf
<1> QED BY <1>1, <1>2, <1>3 DEF DiscountIsDealtFairly

(* What a completion freezes is dealt out to the lines it sold, and adds up. *)
LEMMA FrozenAddsUp ==
  ASSUME NEW accepted \in Terms
  PROVE  LET discount == accepted.price.discount
             frozen == loadBuiltCommercialState(accepted)
             terms == [l \in DOMAIN frozen |-> frozen[l].terms]
             shares == [l \in DOMAIN frozen |-> frozen[l].share]
         IN  /\ DOMAIN frozen = DOMAIN accepted.lines
             /\ Fair(discount, [l \in DOMAIN terms |-> basisMinor(terms[l])], shares)
             /\ NetAddsUp(discount, terms, [l \in DOMAIN frozen |-> frozen[l].net])
<1>1. PICK S : S = DOMAIN accepted.lines
  OBVIOUS
<1>2. PICK price \in Price : price = accepted.price
  BY DEF Terms
<1>3. PICK terms : terms = [l \in S |-> price.lines[l]]
  OBVIOUS
<1>4. PICK d : d = price.discount
  OBVIOUS
<1>5. PICK a : a = Allocations(d, terms)
  OBVIOUS
<1>6. S \in SUBSET (1..MaxLines)
  <2>1. PICK N \in SUBSET (1..MaxLines) : accepted.lines \in [N -> Line]
    BY DEF Terms, Lines
  <2> QED BY <1>1, <2>1
<1>7. IsFiniteSet(S) /\ S \subseteq Nat
  <2>1. IsFiniteSet(1..MaxLines)
    BY SalesAssumption, FS_Interval
  <2>2. 1..MaxLines \subseteq Nat
    BY SalesAssumption
  <2> QED BY <1>6, <2>1, <2>2, FS_Subset
<1>8. terms \in [S -> LineTerms] /\ d \in Nat
  <2>1. price \in OrderTerms
    BY AcceptedTermsAssumption
  <2>2. price.discount \in Amount /\ price.lines \in [1..MaxLines -> LineTerms]
    BY <2>1 DEF OrderTerms
  <2>3. \A l \in S : terms[l] \in LineTerms
    BY <1>3, <1>6, <2>2
  <2> QED BY <1>3, <1>4, <2>2, <2>3, DiscountAssumption
<1>9. a # Refused
  <2>1. <<price, S>> \in Acceptable
    BY <1>1, <1>2 DEF Terms
  <2>2. Allocations(price.discount, [l \in S |-> price.lines[l]]) # Refused
    BY <1>6, <2>1, AcceptedTermsAssumption DEF CanBear
  <2> QED BY <1>3, <1>4, <1>5, <2>2
<1>10. /\ \A l \in S : terms[l].discount <= terms[l].gross
       /\ Dealt(S, d, BasisOf(terms), a) /\ Fair(d, BasisOf(terms), a)
  BY <1>5, <1>7, <1>8, <1>9, AllocationsAreDealt
<1>11. NetAddsUp(d, terms, NetOf(terms, a))
  BY <1>7, <1>8, <1>10, NetsAddUp
<1>12. DOMAIN a = S /\ DOMAIN terms = S /\ a = [l \in S |-> a[l]]
  BY <1>8, <1>10 DEF Dealt
<1>13. PICK frozen : frozen = loadBuiltCommercialState(accepted)
  OBVIOUS
<1>14. frozen = [l \in S |->
         [terms |-> terms[l], share |-> a[l],
          net |-> computeLineNetMerchandiseSalesMinor(terms[l], a[l])]]
  BY <1>1, <1>2, <1>3, <1>4, <1>5, <1>12, <1>13 DEF loadBuiltCommercialState
<1>15. DOMAIN frozen = S
  BY <1>14
<1>16. [l \in DOMAIN frozen |-> frozen[l].terms] = terms
  BY <1>3, <1>14, <1>15
<1>17. [l \in DOMAIN frozen |-> frozen[l].share] = a
  BY <1>12, <1>14, <1>15
<1>18. [l \in DOMAIN frozen |-> frozen[l].net] = NetOf(terms, a)
  BY <1>12, <1>14, <1>15 DEF NetOf
<1> QED BY <1>1, <1>2, <1>4, <1>10, <1>11, <1>13, <1>15, <1>16, <1>17, <1>18 DEF BasisOf

(* Every snapshot adds up for the lines that were sold, because the terms   *)
(* it freezes were accepted for lines that can bear them, and these are the *)
(* lines the order still has.                                               *)
THEOREM SnapshotsAddUp == Spec => []SnapshotDiscountAddsUp
<1>1. SalesInv /\ DocumentsInv => SnapshotDiscountAddsUp
  <2> SUFFICES ASSUME SalesInv, DocumentsInv, NEW o \in Order, order[o].status = "COMPLETED"
               PROVE  LET discount == order[o].snapshot.price.discount
                          frozen == loadBuiltCommercialState(order[o].snapshot)
                          terms == [l \in DOMAIN frozen |-> frozen[l].terms]
                          shares == [l \in DOMAIN frozen |-> frozen[l].share]
                      IN  /\ DOMAIN frozen = DOMAIN order[o].lines
                          /\ Fair(discount, [l \in DOMAIN terms |-> basisMinor(terms[l])], shares)
                          /\ NetAddsUp(discount, terms, [l \in DOMAIN frozen |-> frozen[l].net])
    BY DEF SnapshotDiscountAddsUp
  <2>1. PICK accepted : accepted = order[o].snapshot
    OBVIOUS
  <2>2. accepted # NoTerms /\ accepted.lines = order[o].lines
    BY <2>1 DEF DocumentsInv, OrderOK
  <2>3. accepted \in Terms
    BY <2>1, <2>2 DEF SalesInv, TypeOK, OrderRecord
  <2> QED BY <2>1, <2>2, <2>3, FrozenAddsUp
<1> QED BY <1>1, DocumentsStart, DocumentsInductive, PTL DEF Spec

-----------------------------------------------------------------------------
(* What is on hand: every row is a receipt's, a sale's or a reversal's *)

KnownRow(m) ==
  \/ m.doc[1] = "receipt" /\ m.direction = "IN"
  \/ \E o \in Order : m.doc = <<"issue", o>> \/ m.doc = <<"reversal", o>>

RowsAreKnown == \A m \in movements : KnownRow(m)

LEMMA RowsStayKnown ==
  ASSUME SalesInv, DocumentsInv, RowsAreKnown, [Next]_vars
  PROVE  RowsAreKnown'
<1>1. ASSUME NEW s \in Session, CompleteCommit(s) PROVE RowsAreKnown'
  <2>1. movements' = movements \cup inserted[s] /\ Writing(s) /\ call[s].op = "complete"
    BY <1>1 DEF CompleteCommit, CommitMovements
  <2>2. call[s].order \in Order
    BY <2>1 DEF SalesInv, TypeOK, CallOK
  <2>3. \A m \in inserted[s] : m.doc = <<"issue", call[s].order>>
    BY <2>1 DEF SalesInv, CallsOK, WritingOK, IssueRows, Row
  <2> QED BY <2>1, <2>2, <2>3 DEF RowsAreKnown, KnownRow
<1>2. ASSUME NEW s \in Session, ReverseCommit(s) PROVE RowsAreKnown'
  <2>1. movements' = movements \cup inserted[s] /\ Writing(s) /\ call[s].op = "reverse"
    BY <1>2 DEF ReverseCommit, CommitMovements
  <2>2. call[s].order \in Order
    BY <2>1 DEF SalesInv, TypeOK, CallOK
  <2>3. \A m \in inserted[s] : m.doc = <<"reversal", call[s].order>>
    <3>1. inserted[s] = ReturnRows(s)
      BY <2>1 DEF DocumentsInv, CallHolds
    <3>2. \A m : Returned(call[s], m, call[s].pos).doc = <<"reversal", call[s].order>>
      BY DEF Returned, Row
    <3> QED BY <3>1, <3>2 DEF ReturnRows
  <2> QED BY <2>1, <2>2, <2>3 DEF RowsAreKnown, KnownRow
<1>3. ASSUME NEW s \in Session, SupplyCommit(s) PROVE RowsAreKnown'
  <2>1. movements' = movements \cup inserted[s] /\ call[s].op = "supply"
    BY <1>3 DEF SupplyCommit, CommitMovements
  <2> QED BY <2>1 DEF RowsAreKnown, KnownRow, DocumentsInv, CallHolds
<1>4. ASSUME NEW s \in Session, WriteDocument(s) \/ StartSupply(s) PROVE movements' = movements
  BY <1>4, InsertEffect DEF WriteDocument, StartSupply, streamVars, SalesInv
<1>5. ASSUME NEW s \in Session, Rollback(s) PROVE movements' = movements
  BY <1>5, EndEffect DEF Rollback, streamVars, SalesInv
<1>6. CASE movements' = movements
  BY <1>6 DEF RowsAreKnown, KnownRow
<1>7. ASSUME NEW s \in Session, StreamStatement(s) PROVE movements' = movements
  BY <1>7 DEF StreamStatement, lockValuationStream, rebuildInventoryBalance
<1>8. ASSUME NEW s \in Session, StartCall(s) \/ PeekOrder(s) \/ CheckKey(s) \/ LockOrder(s)
      PROVE  movements' = movements
  BY <1>8 DEF StartCall, PeekOrder, CheckKey, LockOrder, streamVars
<1>9. ASSUME NEW o \in Order, Edit(o) PROVE movements' = movements
  BY <1>9 DEF Edit, streamVars
<1>10. CASE UNCHANGED vars
  BY <1>6, <1>10 DEF vars, streamVars
<1> QED BY <1>1, <1>2, <1>3, <1>4, <1>5, <1>6, <1>7, <1>8, <1>9, <1>10 DEF Next, CallStep

\* The quantities of the rows of one item, as a sum over the rows.
LEMMA QuantityIsSum ==
  ASSUME NEW S, IsFiniteSet(S), NEW i, NEW f, \A m \in S : m.item = i /\ f[m] = m.quantity
  PROVE  QuantityOf(S, i) = SumFunctionOnSet(f, S)
<1>1. PICK h : h = [m \in S |-> m.quantity]
  OBVIOUS
<1>2. {l \in S : l.item = i} = S
  OBVIOUS
<1>3. QuantityOf(S, i) = SumFunctionOnSet(h, S)
  BY <1>1, <1>2, SumOfFunction DEF QuantityOf
<1>4. \A m \in S : h[m] = f[m]
  BY <1>1
<1> QED BY <1>3, <1>4, SumSame

(* What one order's documents add to a stream: nothing once it is reversed, *)
(* and its plan taken off before.                                           *)
LEMMA OrderTakes ==
  ASSUME SalesInv, DocumentsInv, RowsAreFinite, NEW o \in DOMAIN goodsIssue, NEW i,
         NEW f, \A m \in OfStream(movements, i) : f[m] = Signed(m, m.quantity)
  PROVE  LET sold == OfStream(MovementsOf("issue", o), i)
             back == OfStream(MovementsOf("reversal", o), i)
         IN  SumFunctionOnSet(f, sold \cup back) =
               (IF o \in DOMAIN reversal THEN 0 ELSE -QuantityOf(order[o].plan, i))
<1> DEFINE sold == OfStream(MovementsOf("issue", o), i)
           back == OfStream(MovementsOf("reversal", o), i)
<1>1. o \in Order /\ order[o].status = "COMPLETED"
  BY DEF SalesInv, TypeOK
<1>2. /\ sold \subseteq movements /\ back \subseteq movements /\ sold \cap back = {}
      /\ sold \subseteq OfStream(movements, i) /\ back \subseteq OfStream(movements, i)
      /\ \A m \in sold \cup back : m.item = i
  BY DEF OfStream, MovementsOf
<1>3. IsFiniteSet(sold) /\ IsFiniteSet(back)
  BY <1>2, FS_Subset DEF RowsAreFinite
<1>4. \A m \in sold \cup back : m.quantity \in Int
  BY <1>2, MovementAssumption DEF SalesInv, TypeOK, StreamTypeOK, WellFormed
<1>5. \A m \in sold : m.direction = "OUT"
  BY <1>1 DEF SalesInv, SoldExactlyOnce, SoldOnce, OfStream
<1>6. o \notin DOMAIN reversal => back = {}
  BY <1>1 DEF DocumentsInv, OrderOK, OfStream
<1>7. \A m \in back : m.direction = "IN"
  <2>1. MovementsOf("reversal", o) \subseteq ReturnsOf(o)
    BY <1>1 DEF DocumentsInv, OrderOK
  <2>2. \A m \in ReturnsOf(o) : m.direction = "IN"
    BY DEF ReturnsOf, Returned, Row
  <2> QED BY <2>1, <2>2 DEF OfStream
<1>8. PICK q \in Int : q = QuantityOf(order[o].plan, i)
  BY <1>1, RowsMatchPlan
<1>9. QuantityOf(sold, i) = q
  <2>1. {l \in sold : l.item = i} = {l \in MovementsOf("issue", o) : l.item = i}
    BY DEF OfStream
  <2>2. QuantityOf(sold, i) = QuantityOf(MovementsOf("issue", o), i)
    BY <2>1 DEF QuantityOf
  <2> QED BY <1>1, <1>8, <2>2, RowsMatchPlan
<1>10. o \in DOMAIN reversal => QuantityOf(back, i) = q
  BY <1>9, ReturnsBalance
<1> HIDE DEF sold, back
<1>11. \A m \in sold \cup back : f[m] = Signed(m, m.quantity) /\ f[m] \in Int
  BY <1>2, <1>4 DEF Signed
<1>12. SumFunctionOnSet(f, sold) = -q
  <2>1. PICK h : h = [m \in sold |-> m.quantity]
    OBVIOUS
  <2>2. \A m \in sold : h[m] \in Int /\ f[m] = -h[m] /\ m.item = i /\ h[m] = m.quantity
    BY <1>2, <1>4, <1>5, <1>11, <2>1 DEF Signed
  <2>3. SumFunctionOnSet(h, sold) = q
    BY <1>3, <1>9, <2>2, QuantityIsSum
  <2>4. SumFunctionOnSet(f, sold) = -SumFunctionOnSet(h, sold)
    BY <1>3, <2>2, SumOpposite
  <2> QED BY <2>3, <2>4
<1>13. SumFunctionOnSet(f, back) = (IF o \in DOMAIN reversal THEN q ELSE 0)
  <2>1. \A m \in back : m.item = i /\ f[m] = m.quantity
    BY <1>2, <1>7, <1>11 DEF Signed
  <2>2. SumFunctionOnSet(f, back) = QuantityOf(back, i)
    BY <1>3, <2>1, QuantityIsSum
  <2> QED BY <1>6, <1>10, <2>2, SumEmpty
<1>14. SumFunctionOnSet(f, sold \cup back)
         = SumFunctionOnSet(f, sold) + SumFunctionOnSet(f, back)
  BY <1>2, <1>3, <1>11, SumUnion
<1>15. SumFunctionOnSet(f, sold \cup back) = (IF o \in DOMAIN reversal THEN 0 ELSE -q)
  BY <1>12, <1>13, <1>14
<1> QED BY <1>8, <1>15 DEF sold, back

LEMMA SalesAddUp ==
  ASSUME SalesInv, DocumentsInv, RowsAreFinite, RowsAreKnown, IsFiniteSet(DOMAIN goodsIssue),
         StockIsWhatMoved, NEW i \in Item
  PROVE  balance[i].quantity =
           QuantityOf(Supplied(i), i)
           - SumFunction([o \in SoldAndKept |-> QuantityOf(order[o].plan, i)])
<1> DEFINE R == OfStream(movements, i)
           S == Supplied(i)
           K == DOMAIN goodsIssue
<1>1. PICK f : f = [m \in R |-> Signed(m, m.quantity)]
  OBVIOUS
<1>2. /\ R \subseteq movements /\ S \subseteq R /\ IsFiniteSet(R) /\ IsFiniteSet(S)
      /\ \A m \in R : /\ KnownRow(m) /\ m.item = i /\ m.quantity \in Int
                      /\ f[m] = Signed(m, m.quantity) /\ f[m] \in Int
  <2>1. R \subseteq movements /\ S \subseteq R
    BY DEF OfStream, Supplied
  <2>2. IsFiniteSet(R) /\ IsFiniteSet(S)
    BY <2>1, FS_Subset DEF RowsAreFinite
  <2>3. \A m \in R : KnownRow(m) /\ m.item = i /\ m.quantity \in Int
    BY <2>1, MovementAssumption
       DEF RowsAreKnown, OfStream, SalesInv, TypeOK, StreamTypeOK, WellFormed
  <2> QED BY <1>1, <2>1, <2>2, <2>3 DEF Signed
<1>3. balance[i].quantity = SumFunctionOnSet(f, R)
  <2>1. balance[i].quantity = NetQuantity(R)
    BY DEF StockIsWhatMoved, Carries
  <2> QED BY <1>1, <2>1, SumOfFunction DEF NetQuantity
<1>4. PICK D : D = R \ S
  OBVIOUS
<1>5. IsFiniteSet(D) /\ D \subseteq R /\ S \cap D = {} /\ S \cup D = R
  BY <1>2, <1>4, FS_Subset
<1>6. SumFunctionOnSet(f, R) = SumFunctionOnSet(f, S) + SumFunctionOnSet(f, D)
  <2> HIDE DEF R, S
  <2>1. \A m \in S \cup D : f[m] \in Int
    BY <1>2, <1>5
  <2>2. SumFunctionOnSet(f, S \cup D) = SumFunctionOnSet(f, S) + SumFunctionOnSet(f, D)
    BY <1>2, <1>5, <2>1, SumUnion
  <2> QED BY <1>5, <2>2
<1>7. SumFunctionOnSet(f, S) = QuantityOf(S, i)
  <2>1. \A m \in S : m.doc[1] = "receipt"
    BY DEF Supplied
  <2>2. \A m \in S : m.direction = "IN"
    BY <1>2, <2>1 DEF KnownRow
  <2>3. \A m \in S : m.item = i /\ f[m] = m.quantity
    BY <1>2, <2>2 DEF Signed
  <2> HIDE DEF S
  <2> QED BY <1>2, <2>3, QuantityIsSum
<1>8. \A m \in D : \E o \in Order : m.doc = <<"issue", o>> \/ m.doc = <<"reversal", o>>
  BY <1>2, <1>4 DEF KnownRow, Supplied
<1>9. \A m \in D : m.doc[2] \in K
  <2> SUFFICES ASSUME NEW m \in D, NEW o \in Order,
                      m.doc = <<"issue", o>> \/ m.doc = <<"reversal", o>>
               PROVE  o \in K
    BY <1>8
  <2>1. m \in MovementsOf("issue", o) \/ m \in MovementsOf("reversal", o)
    BY <1>2, <1>5 DEF MovementsOf
  <2>2. m \in MovementsOf("issue", o) => order[o].status = "COMPLETED"
    BY DEF SalesInv, SoldExactlyOnce, SoldOnce
  <2>3. m \in MovementsOf("reversal", o) => o \in DOMAIN reversal
    BY DEF DocumentsInv, OrderOK
  <2> QED BY <2>1, <2>2, <2>3 DEF SalesInv, TypeOK
<1>10. PICK of : of = [m \in D |-> m.doc[2]]
  OBVIOUS
<1>11. PICK part : part = [o \in K |-> {m \in D : m.doc[2] = o}]
  OBVIOUS
<1>12. PICK g : g = [o \in K |-> SumFunctionOnSet(f, part[o])]
  OBVIOUS
<1>13. SumFunctionOnSet(f, D) = SumFunctionOnSet(g, K)
  <2>1. \A m \in D : f[m] \in Int /\ of[m] \in K
    BY <1>2, <1>5, <1>9, <1>10
  <2>2. \A o \in K : part[o] \subseteq D /\ \A m \in D : m \in part[o] <=> of[m] = o
    BY <1>10, <1>11
  <2>3. \A o \in K : g[o] = SumFunctionOnSet(f, part[o])
    BY <1>12
  <2> HIDE DEF K
  <2> QED BY <1>5, <2>1, <2>2, <2>3, SumOfParts DEF K
<1>14. ASSUME NEW o \in K
       PROVE  g[o] = IF o \in DOMAIN reversal THEN 0 ELSE -QuantityOf(order[o].plan, i)
  <2>1. o \in Order
    BY DEF SalesInv, TypeOK
  <2>2. part[o] = OfStream(MovementsOf("issue", o), i) \cup OfStream(MovementsOf("reversal", o), i)
    <3>1. ASSUME NEW m \in part[o]
          PROVE  m \in OfStream(MovementsOf("issue", o), i)
                         \cup OfStream(MovementsOf("reversal", o), i)
      <4>1. m \in D /\ m.doc[2] = o /\ m \in movements /\ m.item = i
        BY <1>2, <1>5, <1>11, <3>1
      <4>2. m.doc = <<"issue", o>> \/ m.doc = <<"reversal", o>>
        BY <1>8, <4>1
      <4> QED BY <4>1, <4>2 DEF OfStream, MovementsOf
    <3>2. ASSUME NEW m, m \in OfStream(MovementsOf("issue", o), i)
                                \/ m \in OfStream(MovementsOf("reversal", o), i)
          PROVE  m \in part[o]
      <4>1. /\ m \in movements /\ m.item = i
            /\ m.doc = <<"issue", o>> \/ m.doc = <<"reversal", o>>
        BY <3>2 DEF OfStream, MovementsOf
      <4>2. m \in R /\ m.doc[1] # "receipt" /\ m.doc[2] = o
        BY <4>1 DEF OfStream
      <4> QED BY <1>4, <1>11, <4>2 DEF Supplied
    <3> QED BY <3>1, <3>2
  <2>3. \A m \in OfStream(movements, i) : f[m] = Signed(m, m.quantity)
    BY <1>1
  <2> QED BY <1>12, <2>2, <2>3, OrderTakes
<1>15. \A o \in K : /\ o \in Order /\ QuantityOf(order[o].plan, i) \in Int
                    /\ o \in SoldAndKept <=> o \notin DOMAIN reversal
  <2> SUFFICES ASSUME NEW o \in K
               PROVE  /\ o \in Order /\ QuantityOf(order[o].plan, i) \in Int
                      /\ o \in SoldAndKept <=> o \notin DOMAIN reversal
    OBVIOUS
  <2>1. o \in Order /\ order[o].status = "COMPLETED"
    BY DEF SalesInv, TypeOK
  <2>2. goodsIssue[o].status = IF o \in DOMAIN reversal THEN "REVERSED" ELSE "POSTED"
    <3>1. OrderOK(o)
      BY <2>1 DEF DocumentsInv
    <3> QED BY <2>1, <3>1 DEF OrderOK
  <2> QED BY <2>1, <2>2, RowsMatchPlan DEF SoldAndKept
<1>16. PICK h : h = [o \in SoldAndKept |-> QuantityOf(order[o].plan, i)]
  OBVIOUS
<1>17. PICK k : k = [o \in SoldAndKept |-> -h[o]]
  OBVIOUS
<1>18. SumFunctionOnSet(g, K) = SumFunctionOnSet(k, SoldAndKept)
  <2>1. SoldAndKept \subseteq K
    BY DEF SoldAndKept
  <2>2. \A o \in SoldAndKept : k[o] \in Int /\ g[o] = k[o]
    BY <1>14, <1>15, <1>16, <1>17, <2>1
  <2>3. \A o \in K \ SoldAndKept : g[o] = 0
    BY <1>14, <1>15
  <2> HIDE DEF K
  <2> QED BY <2>1, <2>2, <2>3, SumWithin DEF K
<1>19. SumFunctionOnSet(k, SoldAndKept) = -SumFunctionOnSet(h, SoldAndKept)
  <2>1. IsFiniteSet(SoldAndKept) /\ SoldAndKept \subseteq K
    BY FS_Subset DEF SoldAndKept
  <2>2. \A o \in SoldAndKept : h[o] \in Int /\ k[o] = -h[o]
    BY <1>15, <1>16, <1>17, <2>1
  <2> QED BY <2>1, <2>2, SumOpposite
<1>20. SumFunctionOnSet(h, SoldAndKept) \in Int /\ QuantityOf(S, i) \in Int
  <2>1. IsFiniteSet(SoldAndKept) /\ SoldAndKept \subseteq K
    BY FS_Subset DEF SoldAndKept
  <2>2. \A o \in SoldAndKept : h[o] \in Int
    BY <1>15, <1>16, <2>1
  <2>3. SumFunctionOnSet(f, S) \in Int
    <3> HIDE DEF S, R
    <3> QED BY <1>2, SumInt
  <2> QED BY <1>7, <2>1, <2>2, <2>3, SumInt
<1>21. SumFunction(h) = SumFunctionOnSet(h, SoldAndKept)
  BY <1>16, SumOfFunction
<1> HIDE DEF R, S, K
<1>22. balance[i].quantity = QuantityOf(S, i) - SumFunction(h)
  BY <1>3, <1>6, <1>7, <1>13, <1>18, <1>19, <1>20, <1>21
<1> QED BY <1>16, <1>22 DEF S

(***************************************************************************)
(* Stock, documents and balances are one account: whatever completions,    *)
(* reversals, receipts, retries and failures interleave, what a committed  *)
(* balance has on hand is what receipts brought in less what the plans of  *)
(* the completed orders that were not reversed consume                     *)
(* (goods-issue-service.ts, rebuild-balance.ts).                           *)
(***************************************************************************)
THEOREM SalesAccountForStock == Spec => []StockIsSuppliedLessSold
<1> DEFINE Finite == IsFiniteSet(DOMAIN goodsIssue)
<1>1. Init => RowsAreKnown /\ Finite
  <2> SUFFICES ASSUME Init PROVE RowsAreKnown /\ Finite
    OBVIOUS
  <2>1. DOMAIN goodsIssue = {} /\ movements = {}
    BY DEF Init, StreamInit, LedgerInit
  <2> QED BY <2>1, FS_EmptySet DEF RowsAreKnown
<1>2. Finite /\ [Next]_vars => Finite'
  BY IssuesStayFinite
<1>3. SalesInv /\ DocumentsInv /\ RowsAreKnown /\ [Next]_vars => RowsAreKnown'
  BY RowsStayKnown
<1>4. SalesInv /\ DocumentsInv /\ RowsAreFinite /\ RowsAreKnown /\ Finite /\ StockIsWhatMoved
        => StockIsSuppliedLessSold
  BY SalesAddUp DEF StockIsSuppliedLessSold
<1> HIDE DEF Finite
<1> QED
  BY <1>1, <1>2, <1>3, <1>4, DocumentsStart, DocumentsInductive, SalesRowsAreFinite,
     SalesConserveStock, PTL DEF Spec

=============================================================================
