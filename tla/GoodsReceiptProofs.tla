------------------------- MODULE GoodsReceiptProofs -------------------------
(***************************************************************************)
(* Proofs about goods receipts, for every number of sessions, keys, calls  *)
(* and every content of documents.                                         *)
(***************************************************************************)
EXTENDS GoodsReceipt, ValuationStreamsProofs

-----------------------------------------------------------------------------
(* The stream side: a call of the service is, for the streams, a step of   *)
(* the posting protocol or nothing.                                        *)

LEMMA NextIsStreamStepOrStutter ==
  ASSUME [Next]_vars
  PROVE  UNCHANGED streamVars \/ \E s \in Session : StreamStep(s)
<1>1. CASE UNCHANGED vars
  BY <1>1 DEF vars
<1>2. ASSUME NEW s \in Session,
             CreateDraft(s) \/ StartPost(s) \/ StartReverse(s) \/ StartUpdate(s)
      PROVE  UNCHANGED streamVars
  BY <1>2 DEF CreateDraft, StartPost, StartReverse, StartUpdate
<1>3. ASSUME NEW s \in Session, \/ ReadLines(s) \/ UpdateWrite(s) \/ RefuseUpdate(s)
                                \/ LockReceipt(s) \/ MarkReversed(s)
      PROVE  UNCHANGED streamVars
  BY <1>3 DEF ReadLines, UpdateWrite, RefuseUpdate, LockReceipt, MarkReversed
<1>4. ASSUME NEW s \in Session, NEW M, InsertMovements(s, M)
      PROVE  StreamStep(s)
  BY <1>4 DEF InsertMovements, StreamStep
<1>5. ASSUME NEW s \in Session, PostWrite(s) \/ ReverseWrite(s)
      PROVE  UNCHANGED streamVars \/ StreamStep(s)
  BY <1>4, <1>5 DEF PostWrite, ReverseWrite, WriteWithKey
<1>7. ASSUME NEW s \in Session,
             PostCommit(s) \/ ReverseCommit(s) \/ StreamStatement(s) \/ Rollback(s)
      PROVE  UNCHANGED streamVars \/ StreamStep(s)
  BY <1>7 DEF PostCommit, ReverseCommit, StreamStatement, Rollback, StreamStep
<1> QED BY <1>1, <1>2, <1>3, <1>5, <1>7 DEF Next, CallStep

(* Whatever goods receipt calls interleave, retry, fail or roll back, the  *)
(* committed balances are the replay of the committed movements.           *)
THEOREM ReceiptsKeepBalances == Spec => []BalanceIsReplay
<1>1. Init => StreamInv
  BY StreamInvInit DEF Init
<1>2. StreamInv /\ [Next]_vars => StreamInv'
  BY NextIsStreamStepOrStutter, StreamStepInv, StreamStutter
<1>3. StreamInv => BalanceIsReplay
  BY DEF StreamInv
<1> QED BY <1>1, <1>2, <1>3, PTL DEF Spec

(* Stock is conserved by the goods receipt service: however its calls       *)
(* interleave, retry, fail, roll back or reverse, a committed balance has   *)
(* on hand what the committed receipts brought in less what their           *)
(* reversals took (goods-receipt-service.ts, rebuild-balance.ts).           *)
THEOREM ReceiptsConserveStock == Spec => []StockIsWhatMoved
<1>1. Init => StreamInv /\ RowsAreFinite
  BY StreamInvInit, FiniteInit DEF Init
<1>2. StreamInv /\ RowsAreFinite /\ [Next]_vars => (StreamInv /\ RowsAreFinite)'
  <2>1. SUFFICES ASSUME StreamInv, RowsAreFinite, [Next]_vars PROVE (StreamInv /\ RowsAreFinite)'
    OBVIOUS
  <2>2. ASSUME NEW s \in Session, StreamStep(s) PROVE (StreamInv /\ RowsAreFinite)'
    BY <2>1, <2>2, StreamStepInv, FiniteStep DEF StreamInv
  <2>3. CASE UNCHANGED streamVars
    BY <2>1, <2>3, StreamStutter, FiniteStutter
  <2> QED BY <2>1, <2>2, <2>3, NextIsStreamStepOrStutter
<1>3. StreamInv /\ RowsAreFinite => StockIsWhatMoved
  BY ReplaysAreWhatMoved DEF StreamInv
<1> QED BY <1>1, <1>2, <1>3, PTL DEF Spec

-----------------------------------------------------------------------------
(* What a call's bookkeeping does to the call records *)

LEMMA BeginEffect ==
  ASSUME TypeOK, NEW s \in Session, NEW op, NEW d, NEW k, NEW step, NEW result,
         BeginCall(s, op, d, k, step, result)
  PROVE  /\ calls' = calls + 1 /\ calls' \in 1..MaxCalls /\ calls \in Nat
         /\ call[s].step = "done"
         /\ call'[s] =
              [op |-> op, step |-> step, result |-> result, n |-> calls + 1, doc |-> d, key |-> k,
               seen |-> IF d \in DOMAIN receipt THEN receipt[d] ELSE NoSnapshot, locked |-> FALSE]
         /\ \A t \in Session \ {s} : call'[t] = call[t]
         /\ DOMAIN call' = Session
         /\ call' = [t \in Session |-> call'[t]]
<1>1. calls \in 0..MaxCalls /\ calls < MaxCalls /\ calls' = calls + 1
  BY DEF TypeOK, BeginCall
<1>2. call \in [Session -> CallRecord]
  BY DEF TypeOK
<1>3. calls \in Nat /\ calls' \in 1..MaxCalls
  BY <1>1, CallsAssumption
<1> QED BY <1>1, <1>2, <1>3 DEF BeginCall

LEMMA ReturnEffect ==
  ASSUME call \in [Session -> CallRecord], NEW s \in Session,
         NEW result \in {"created", "duplicate", "conflict", "immutable", "invalid",
                         "updated", "error"},
         Return(s, result)
  PROVE  /\ call' \in [Session -> CallRecord]
         /\ call'[s].step = "done" /\ call'[s].n = call[s].n
         /\ \A t \in Session \ {s} : call'[t] = call[t]
<1> DEFINE rec == [call[s] EXCEPT !.step = "done", !.result = result,
                                  !.seen = NoSnapshot, !.locked = FALSE]
<1>1. call[s] \in CallRecord
  OBVIOUS
<1>2. rec \in CallRecord /\ rec.step = "done" /\ rec.n = call[s].n
  BY <1>1 DEF CallRecord
<1>3. call' = [call EXCEPT ![s] = rec]
  BY DEF Return
<1> QED BY <1>2, <1>3

-----------------------------------------------------------------------------
(* The rows of a document *)

LEMMA RowsAreOwned ==
  ASSUME NEW snap, NEW d, NEW n
  PROVE  /\ \A m \in PostingRows(d, snap, n) : m.doc = d
         /\ \A m \in ReversalRows(snap, n) : m.doc = n
BY DEF PostingRows, ReversalRows, Row

LEMMA RowsOfContent ==
  ASSUME NEW a, NEW b, NEW d, NEW n, a.pos = b.pos, a.lines = b.lines
  PROVE  /\ a.gen = b.gen => PostingRows(d, a, n) = PostingRows(d, b, n)
         /\ ReversalRows(a, n) = ReversalRows(b, n)
BY DEF PostingRows, ReversalRows

-----------------------------------------------------------------------------
(* The inductive invariant behind PostedExactlyOnce.  A call owns the id of *)
(* the document it may create; an open transaction has inserted exactly     *)
(* the rows of its snapshot; whoever holds a document's row holds it alone  *)
(* and the committed status is the one it locked.                           *)

PostedOnce(d) ==
  LET doc == receipt[d] IN
  IF doc.status = "DRAFT" THEN MovementsOf(d) = {}
  ELSE IF doc.reverses # NoReceipt THEN MovementsOf(d) = ReversalRows(doc, d)
  ELSE \E gen, n \in ReceiptId :
         MovementsOf(d) =
           PostingRows(d, [pos |-> doc.fp.pos, lines |-> doc.fp.lines, gen |-> gen], n)

DocumentsOK ==
  /\ \A d \in DOMAIN receipt : PostedOnce(d)
  /\ \A d \in DOMAIN receipt : receipt[d].status = "DRAFT" => receipt[d].reverses = NoReceipt
  /\ \A m \in movements : m.doc \in DOMAIN receipt

IdsAreFresh ==
  /\ \A s \in Session : Active(s) => call[s].n \notin DOMAIN receipt
  /\ \A s, t \in Session : s # t /\ Active(s) /\ Active(t) => call[s].n # call[t].n

WritingOK(s) ==
  Writing(s) =>
    \/ /\ call[s].op = "post" /\ call[s].locked
       /\ receipt[call[s].doc].status = "DRAFT"
       /\ inserted[s] = PostingRows(call[s].doc, call[s].seen, call[s].n)
    \/ /\ call[s].op = "reverse"
       /\ call[s].locked => receipt[call[s].doc].status = "POSTED"
       /\ inserted[s] = ReversalRows(call[s].seen, call[s].n)

KeyOK(s) ==
  call[s].step = "key" =>
    \/ /\ call[s].op = "post" /\ call[s].locked
       /\ receipt[call[s].doc].status = "DRAFT"
    \/ /\ call[s].op = "reverse"
       /\ call[s].locked => receipt[call[s].doc].status = "POSTED"

Holding(s) == call[s].step \in {"key", "writing"} /\ call[s].locked

CallsOK ==
  /\ \A s \in Session : WritingOK(s) /\ KeyOK(s)
  /\ \A s, t \in Session : s # t /\ Holding(s) /\ Holding(t) => call[s].doc # call[t].doc
  /\ \A s \in Session :
       call[s].step = "updating" => receipt[call[s].doc].reverses = NoReceipt

ReceiptInv == TypeOK /\ DocumentsOK /\ IdsAreFresh /\ CallsOK

LEMMA ReceiptInvInit == Init => ReceiptInv
<1> SUFFICES ASSUME Init PROVE ReceiptInv
  OBVIOUS
<1>1. \A s \in Session : call[s] = NoCall /\ ~Active(s) /\ ~Writing(s) /\ ~InTransaction(s)
  BY DEF Init, StreamInit, Active, Writing, InTransaction, NoCall
<1>2. NoCall \in CallRecord
  BY CallsAssumption DEF NoCall, CallRecord
<1>3. StreamTypeOK
  BY StreamInvInit DEF Init, StreamInv
<1>4. call \in [Session -> CallRecord]
  BY <1>2 DEF Init
<1>5. \A s \in Session : CallOK(s)
  BY <1>1 DEF CallOK, Init, NoCall
<1>6. TypeOK
  BY <1>3, <1>4, <1>5, CallsAssumption DEF TypeOK, Init
<1>7. DocumentsOK
  BY DEF DocumentsOK, Init, StreamInit, LedgerInit
<1>8. IdsAreFresh
  BY <1>1 DEF IdsAreFresh
<1>9. CallsOK
  BY <1>1 DEF CallsOK, WritingOK, KeyOK, Holding, NoCall
<1> QED BY <1>6, <1>7, <1>8, <1>9 DEF ReceiptInv

-----------------------------------------------------------------------------
(* Steps that touch one call record only: peeks, checks and refusals.      *)
LEMMA CallOnly ==
  ASSUME ReceiptInv, NEW s \in Session, UNCHANGED <<streamVars, receipt>>,
         calls' \in 0..MaxCalls, calls <= calls',
         call' \in [Session -> CallRecord],
         \A t \in Session \ {s} : call'[t] = call[t],
         ~Writing(s), call'[s].step # "writing", call'[s].n <= calls',
         call'[s].step # "done" =>
           /\ call'[s].n \in 1..calls'
           /\ call'[s].doc \in DOMAIN receipt
           /\ call'[s].seen \in ReceiptRecord
           /\ call'[s].key \in DocKey \/ call'[s].step = "updating"
           /\ \/ call'[s].n = calls + 1
              \/ Active(s) /\ call'[s].n = call[s].n,
         call'[s].step = "updating" => receipt[call'[s].doc].reverses = NoReceipt,
         call'[s].step = "key" => KeyOK(s)' /\ (call'[s].locked => RowFree(call'[s].doc))
  PROVE  ReceiptInv'
<1> USE DEF ReceiptInv
<1>0. /\ calls \in Nat /\ calls' \in Nat /\ MaxCalls \in Nat
      /\ \A t \in Session : call[t].n \in Nat /\ call'[t].n \in Nat
      /\ DOMAIN receipt \subseteq 1..calls
  BY CallsAssumption DEF TypeOK, CallRecord
<1>1. UNCHANGED <<movements, balance, streamLock, inserted, todo, rebuilt, receipt>>
  BY DEF streamVars
<1>2. StreamTypeOK'
  BY <1>1 DEF TypeOK, StreamTypeOK, InTransaction
<1>3. ASSUME NEW t \in Session PROVE CallOK(t)'
  <2>1. CASE t = s
    BY <1>0, <1>1, <2>1 DEF TypeOK, CallOK, Active, Writing, InTransaction
  <2>2. CASE t # s
    <3>1. CallOK(t) /\ call'[t] = call[t]
      BY <2>2 DEF TypeOK
    <3> QED BY <1>0, <1>1, <3>1 DEF CallOK, Active, Writing, InTransaction
  <2> QED BY <2>1, <2>2
<1>4. TypeOK'
  BY <1>0, <1>1, <1>2, <1>3 DEF TypeOK
<1>5. DocumentsOK'
  BY <1>1 DEF DocumentsOK, PostedOnce, MovementsOf
<1>6. IdsAreFresh'
  <2>1. ASSUME NEW t \in Session, Active(t)' PROVE call'[t].n \notin DOMAIN receipt
    BY <1>0, <2>1 DEF IdsAreFresh, Active
  <2>2. ASSUME NEW t \in Session, NEW u \in Session, t # u, Active(t)', Active(u)'
        PROVE  call'[t].n # call'[u].n
    <3>1. \A v \in Session \ {s} : call'[v].n <= calls /\ (Active(v)' <=> Active(v))
      BY DEF TypeOK, CallOK, Active
    <3> QED BY <1>0, <2>2, <3>1 DEF IdsAreFresh, Active
  <2> QED BY <1>1, <2>1, <2>2 DEF IdsAreFresh
<1>7. CallsOK'
  <2>1. ASSUME NEW t \in Session PROVE WritingOK(t)' /\ KeyOK(t)'
    BY <1>1 DEF CallsOK, WritingOK, KeyOK, Writing
  <2>2. ASSUME NEW t \in Session, NEW u \in Session, t # u, Holding(t)', Holding(u)'
        PROVE  call'[t].doc # call'[u].doc
    <3>1. CASE t # s /\ u # s
      BY <2>2, <3>1 DEF CallsOK, Holding
    <3>2. CASE t = s \/ u = s
      BY <2>2, <3>2 DEF RowFree, KeepsRow, Holding
    <3> QED BY <3>1, <3>2
  <2>3. ASSUME NEW t \in Session, call'[t].step = "updating"
        PROVE  receipt'[call'[t].doc].reverses = NoReceipt
    BY <1>1, <2>3 DEF CallsOK
  <2> QED BY <2>1, <2>2, <2>3 DEF CallsOK
<1> QED BY <1>4, <1>5, <1>6, <1>7

(* The first query of a call: it knows the document exists.                *)
LEMMA StartStep ==
  ASSUME ReceiptInv, NEW s \in Session,
         StartPost(s) \/ StartReverse(s) \/ StartUpdate(s)
  PROVE  ReceiptInv'
<1> USE DEF ReceiptInv
<1>1. PICK d \in DOMAIN receipt, k \in DocKey \cup {NoKey},
           op \in {"post", "reverse", "update"}, step \in {"done", "lines", "updating"},
           result \in {"none", "immutable"} :
        /\ BeginCall(s, op, d, k, step, result)
        /\ k \in DocKey \/ step # "lines"
        /\ step = "updating" => receipt[d].status = "DRAFT"
        /\ UNCHANGED <<streamVars, receipt>>
  <2>1. \A k \in Key : PostKey(k) \in DocKey /\ ReverseKey(k) \in DocKey
    BY DEF PostKey, ReverseKey, DocKey
  <2>2. CASE StartPost(s)
    BY <2>1, <2>2 DEF StartPost
  <2>3. CASE StartReverse(s)
    BY <2>1, <2>3 DEF StartReverse
  <2>4. CASE StartUpdate(s)
    BY <2>4 DEF StartUpdate
  <2> QED BY <2>2, <2>3, <2>4
<1>2. d \in ReceiptId /\ receipt[d] \in ReceiptRecord
  BY CallsAssumption DEF TypeOK, ReceiptId
<1>3. /\ calls' = calls + 1 /\ calls' \in 1..MaxCalls /\ calls \in Nat
      /\ call[s].step = "done"
      /\ call'[s].step = step /\ call'[s].n = calls + 1
      /\ call'[s].doc = d /\ call'[s].key = k /\ call'[s].seen = receipt[d]
      /\ call'[s] \in CallRecord
      /\ \A t \in Session \ {s} : call'[t] = call[t]
      /\ call' \in [Session -> CallRecord]
  <2> DEFINE rec == [op |-> op, step |-> step, result |-> result, n |-> calls + 1,
                     doc |-> d, key |-> k, seen |-> receipt[d], locked |-> FALSE]
  <2>1. /\ calls' = calls + 1 /\ calls' \in 1..MaxCalls /\ calls \in Nat
        /\ call[s].step = "done" /\ call'[s] = rec
        /\ \A t \in Session \ {s} : call'[t] = call[t]
        /\ call' = [t \in Session |-> call'[t]]
    BY <1>1, BeginEffect
  <2>2. rec \in CallRecord
    BY <1>1, <1>2, <2>1, CallsAssumption DEF CallRecord
  <2>3. \A t \in Session : call'[t] \in CallRecord
    BY <2>1, <2>2 DEF TypeOK
  <2>4. call' \in [Session -> CallRecord]
    BY <2>1, <2>3
  <2> QED BY <2>1, <2>2, <2>4
<1>4. step = "updating" => receipt[d].reverses = NoReceipt
  BY <1>1 DEF DocumentsOK
<1>5. ~Writing(s) /\ call'[s].step # "writing"
  BY <1>3 DEF Writing
<1>6. /\ calls' \in 0..MaxCalls /\ calls <= calls'
      /\ call'[s].n <= calls' /\ call'[s].n \in 1..calls'
  BY <1>3, CallsAssumption
<1>7. k \in DocKey \/ step = "updating" \/ step = "done"
  BY <1>1
<1> QED BY <1>1, <1>2, <1>3, <1>4, <1>5, <1>6, <1>7, CallOnly

(* The second query keeps the snapshot a record of the document's type.    *)
LEMMA ReadLinesStep ==
  ASSUME ReceiptInv, NEW s \in Session, ReadLines(s)
  PROVE  ReceiptInv'
<1> USE DEF ReceiptInv
<1> DEFINE d == call[s].doc
           doc == [call[s].seen EXCEPT !.lines = receipt[d].lines, !.gen = receipt[d].gen]
<1>1. /\ call \in [Session -> CallRecord] /\ call[s] \in CallRecord
      /\ call[s].step = "lines" /\ ~Writing(s) /\ Active(s)
  BY DEF TypeOK, ReadLines, Writing, Active
<1>2. /\ call[s].n \in 1..calls /\ d \in DOMAIN receipt /\ call[s].key \in DocKey
      /\ call[s].seen \in ReceiptRecord /\ receipt[d] \in ReceiptRecord
  BY <1>1 DEF TypeOK, CallOK
<1>3. doc \in ReceiptRecord
  BY <1>2 DEF ReceiptRecord
<1>4. UNCHANGED <<streamVars, receipt, calls>> /\ calls \in 0..MaxCalls
  BY DEF ReadLines, TypeOK
<1>5. CASE call' = [call EXCEPT ![s].step = "checked", ![s].seen = doc]
  <2> DEFINE rec == [call[s] EXCEPT !.step = "checked", !.seen = doc]
  <2>1. rec \in CallRecord /\ rec.step = "checked" /\ rec.seen = doc /\ rec.n = call[s].n
        /\ rec.doc = d /\ rec.key = call[s].key
    BY <1>1, <1>3 DEF CallRecord
  <2>2. call' = [call EXCEPT ![s] = rec]
    BY <1>1, <1>5 DEF CallRecord
  <2>3. call' \in [Session -> CallRecord] /\ call'[s] = rec
        /\ \A t \in Session \ {s} : call'[t] = call[t]
    BY <1>1, <2>1, <2>2
  <2> HIDE DEF doc, rec
  <2> QED BY <1>1, <1>2, <1>3, <1>4, <2>1, <2>3, CallOnly, CallsAssumption
<1>6. CASE \E ans \in {"duplicate", "conflict", "immutable", "invalid"} : Return(s, ans)
  BY <1>1, <1>2, <1>4, <1>6, ReturnEffect, CallOnly, CallsAssumption
<1>7. \A k : PostAnswer(d, k, doc) \in {"open", "duplicate", "conflict", "immutable", "invalid"}
  BY DEF PostAnswer
<1>8. ReverseAnswer(d, doc) \in {"open", "duplicate", "conflict", "immutable", "invalid"}
  BY DEF ReverseAnswer
<1> HIDE DEF doc, d
<1>9. \/ call' = [call EXCEPT ![s].step = "checked", ![s].seen = doc]
      \/ \E ans \in {"duplicate", "conflict", "immutable", "invalid"} : Return(s, ans)
  BY <1>7, <1>8 DEF ReadLines, doc, d
<1> QED BY <1>5, <1>6, <1>9

(* A new draft: it owns no movement, since none belongs to an unknown id.  *)
LEMMA CreateStep ==
  ASSUME ReceiptInv, NEW s \in Session, CreateDraft(s)
  PROVE  ReceiptInv'
<1> USE DEF ReceiptInv
<1>1. PICK content \in Content :
        /\ BeginCall(s, "create", NoReceipt, NoKey, "done", "created")
        /\ receipt' = [d \in DOMAIN receipt \cup {calls + 1} |->
                         IF d = calls + 1 THEN Draft(content, calls + 1) ELSE receipt[d]]
        /\ UNCHANGED <<streamVars, feed>>
  BY DEF CreateDraft
<1>0. PICK new \in Nat : new = calls + 1
  BY CallsAssumption DEF TypeOK
<1> DEFINE rec == [op |-> "create", step |-> "done", result |-> "created", n |-> new,
                   doc |-> NoReceipt, key |-> NoKey, seen |-> NoSnapshot, locked |-> FALSE]
<1>2. UNCHANGED <<movements, balance, streamLock, inserted, todo, rebuilt>>
  BY <1>1 DEF streamVars
<1>3. /\ calls' = new /\ calls' \in 1..MaxCalls /\ calls \in Nat
      /\ call[s].step = "done" /\ call'[s] = rec
      /\ \A t \in Session \ {s} : call'[t] = call[t]
      /\ call' = [t \in Session |-> call'[t]]
  <2>1. NoReceipt \notin DOMAIN receipt
    BY NullAssumption, CallsAssumption DEF TypeOK
  <2> QED BY <1>0, <1>1, <2>1, BeginEffect
<1>4. /\ new \notin DOMAIN receipt
      /\ DOMAIN receipt' = DOMAIN receipt \cup {new}
      /\ receipt'[new] = Draft(content, new)
      /\ \A d \in DOMAIN receipt : receipt'[d] = receipt[d]
  BY <1>0, <1>1, <1>3 DEF TypeOK
<1>5. Draft(content, new) \in ReceiptRecord
  BY <1>0, <1>3 DEF Draft, ReceiptRecord, Positions, LineLists, ReceiptId
<1>6. TypeOK'
  <2>1. StreamTypeOK'
    BY <1>2 DEF TypeOK, StreamTypeOK, InTransaction
  <2>2. rec \in CallRecord
    BY <1>3, CallsAssumption DEF CallRecord
  <2>3. call' \in [Session -> CallRecord]
    BY <1>3, <2>2 DEF TypeOK
  <2>4. DOMAIN receipt' \subseteq 1..calls' /\ \A d \in DOMAIN receipt' : receipt'[d] \in ReceiptRecord
    BY <1>0, <1>3, <1>4, <1>5 DEF TypeOK
  <2>5. ASSUME NEW t \in Session PROVE CallOK(t)'
    <3>1. CallOK(t) /\ call[t].n \in Nat
      BY CallsAssumption DEF TypeOK, CallRecord
    <3>2. CASE t = s
      BY <1>2, <1>3, <3>1, <3>2 DEF CallOK, Active, Writing, InTransaction
    <3>3. CASE t # s
      <4>1. call'[t] = call[t]
        BY <1>3, <3>3
      <4>2. calls <= calls' /\ calls' \in Nat /\ DOMAIN receipt \subseteq DOMAIN receipt'
        BY <1>0, <1>3, <1>4
      <4>3. call[t].n <= calls' /\ (call[t].n \in 1..calls => call[t].n \in 1..calls')
        BY <1>3, <3>1, <4>2 DEF CallOK
      <4>4. Active(t)' <=> Active(t)
        BY <4>1 DEF Active
      <4>5. (Writing(t)' <=> Writing(t)) /\ (InTransaction(t)' <=> InTransaction(t))
        BY <1>2, <4>1 DEF Writing, InTransaction
      <4> QED BY <3>1, <4>1, <4>2, <4>3, <4>4, <4>5 DEF CallOK
    <3> QED BY <3>2, <3>3
  <2> QED BY <1>3, <2>1, <2>3, <2>4, <2>5 DEF TypeOK
<1>7. DocumentsOK'
  <2>1. PostedOnce(new)'
    <3>1. MovementsOf(new) = {}
      BY <1>4 DEF DocumentsOK, MovementsOf
    <3>2. MovementsOf(new)' = {}
      BY <1>2, <1>3, <3>1 DEF MovementsOf
    <3>3. receipt'[new].status = "DRAFT"
      BY <1>4 DEF Draft
    <3> QED BY <1>3, <3>2, <3>3 DEF PostedOnce, MovementsOf
  <2>2. ASSUME NEW d \in DOMAIN receipt PROVE PostedOnce(d)'
    BY <1>2, <1>4 DEF DocumentsOK, PostedOnce, MovementsOf
  <2>3. Draft(content, new).reverses = NoReceipt
    BY DEF Draft
  <2> QED BY <1>2, <1>4, <2>1, <2>2, <2>3 DEF DocumentsOK
<1>8. IdsAreFresh'
  <2>1. \A t \in Session : Active(t)' => t # s /\ Active(t) /\ call'[t] = call[t] /\ call[t].n # new
    BY <1>0, <1>3 DEF Active, TypeOK, CallOK
  <2> QED BY <1>4, <2>1 DEF IdsAreFresh
<1>9. CallsOK'
  <2>1. \A t \in Session : Active(t)' => t # s /\ Active(t) /\ call'[t] = call[t]
                                        /\ call[t].doc \in DOMAIN receipt
    BY <1>3 DEF Active, TypeOK, CallOK
  <2>2. ASSUME NEW t \in Session PROVE WritingOK(t)' /\ KeyOK(t)'
    BY <1>2, <1>4, <2>1 DEF CallsOK, WritingOK, KeyOK, Writing, Active
  <2>3. ASSUME NEW t \in Session, NEW u \in Session, t # u, Holding(t)', Holding(u)'
        PROVE  call'[t].doc # call'[u].doc
    BY <2>1, <2>3 DEF CallsOK, Holding, Active
  <2>4. ASSUME NEW t \in Session, call'[t].step = "updating"
        PROVE  receipt'[call'[t].doc].reverses = NoReceipt
    BY <1>4, <2>1, <2>4 DEF CallsOK, Active
  <2> QED BY <2>2, <2>3, <2>4 DEF CallsOK
<1> QED BY <1>6, <1>7, <1>8, <1>9

(* Opening a transaction: it holds the document's row if it matched it.    *)
LEMMA LockRowStep ==
  ASSUME ReceiptInv, NEW s \in Session, NEW locked \in BOOLEAN,
         UNCHANGED <<streamVars, receipt, calls>>, call[s].step = "checked",
         call' = [call EXCEPT ![s].step = "key", ![s].locked = locked],
         locked => RowFree(call[s].doc),
         \/ call[s].op = "post" /\ locked /\ receipt[call[s].doc].status = "DRAFT"
         \/ call[s].op = "reverse" /\ (locked => receipt[call[s].doc].status = "POSTED")
  PROVE  ReceiptInv'
<1> USE DEF ReceiptInv
<1> DEFINE rec == [call[s] EXCEPT !.step = "key", !.locked = locked]
<1>1. call \in [Session -> CallRecord] /\ call[s] \in CallRecord /\ Active(s) /\ ~Writing(s)
  BY DEF TypeOK, Active, Writing
<1>2. /\ rec \in CallRecord /\ rec.step = "key" /\ rec.locked = locked
      /\ rec.n = call[s].n /\ rec.doc = call[s].doc /\ rec.seen = call[s].seen
      /\ rec.key = call[s].key /\ rec.op = call[s].op
  BY <1>1 DEF CallRecord
<1>3. call' = [call EXCEPT ![s] = rec]
  BY <1>1 DEF CallRecord
<1> HIDE DEF rec
<1>4. /\ call' \in [Session -> CallRecord] /\ call'[s] = rec
      /\ \A t \in Session \ {s} : call'[t] = call[t]
  BY <1>1, <1>2, <1>3
<1>5. /\ call[s].n \in 1..calls /\ call[s].doc \in DOMAIN receipt /\ call[s].key \in DocKey
      /\ call[s].seen \in ReceiptRecord /\ calls \in 0..MaxCalls /\ calls \in Nat
  BY <1>1, CallsAssumption DEF TypeOK, CallOK
<1>6. KeyOK(s)'
  BY <1>2, <1>4 DEF KeyOK
<1>7. /\ call'[s].step = "key" /\ call'[s].n = call[s].n /\ call'[s].doc = call[s].doc
      /\ call'[s].seen = call[s].seen /\ call'[s].key = call[s].key
      /\ call'[s].locked = locked
  BY <1>2, <1>4
<1>8. calls' = calls /\ calls <= calls' /\ call[s].n <= calls'
  BY <1>5
<1>9. call'[s].locked => RowFree(call'[s].doc)
  BY <1>7
<1>10. UNCHANGED <<streamVars, receipt>>
  OBVIOUS
<1> QED BY <1>1, <1>4, <1>5, <1>6, <1>7, <1>8, <1>9, <1>10, CallOnly

(* With its key the transaction inserts the rows of its snapshot.          *)
LEMMA OpenStep ==
  ASSUME ReceiptInv, StreamTypeOK', NEW s \in Session, NEW M,
         InsertMovements(s, M), UNCHANGED <<receipt, calls>>,
         call[s].step = "key",
         call' = [call EXCEPT ![s].step = "writing"],
         \/ call[s].op = "post" /\ M = PostingRows(call[s].doc, call[s].seen, call[s].n)
         \/ call[s].op = "reverse" /\ M = ReversalRows(call[s].seen, call[s].n)
  PROVE  ReceiptInv'
<1> USE DEF ReceiptInv
<1> DEFINE rec == [call[s] EXCEPT !.step = "writing"]
<1>1. call \in [Session -> CallRecord] /\ call[s] \in CallRecord /\ Active(s)
  BY DEF TypeOK, Active
<1>2. /\ rec \in CallRecord /\ rec.step = "writing" /\ rec.locked = call[s].locked
      /\ rec.n = call[s].n /\ rec.doc = call[s].doc /\ rec.seen = call[s].seen
      /\ rec.key = call[s].key /\ rec.op = call[s].op
  BY <1>1 DEF CallRecord
<1>3. call' = [call EXCEPT ![s] = rec]
  BY <1>1 DEF CallRecord
<1> HIDE DEF rec
<1>4. /\ call' \in [Session -> CallRecord] /\ call'[s] = rec
      /\ \A t \in Session \ {s} : call'[t] = call[t]
  BY <1>1, <1>2, <1>3
<1>5. /\ inserted'[s] = M /\ M # {}
      /\ \A t \in Session \ {s} : inserted'[t] = inserted[t]
      /\ UNCHANGED <<movements, balance>>
  BY DEF InsertMovements, TypeOK, StreamTypeOK
<1>6. \A t \in Session : Active(t)' <=> Active(t)
  BY <1>1, <1>2, <1>4 DEF Active
<1>7. TypeOK'
  <2>1. CallOK(s)'
    BY <1>1, <1>2, <1>4, <1>5 DEF TypeOK, CallOK, Active, Writing, InTransaction
  <2>2. \A t \in Session \ {s} : CallOK(t)'
    BY <1>4, <1>5 DEF TypeOK, CallOK, Active, Writing, InTransaction
  <2> QED BY <1>4, <2>1, <2>2 DEF TypeOK
<1>8. DocumentsOK'
  BY <1>5 DEF DocumentsOK, PostedOnce, MovementsOf
<1>9. IdsAreFresh'
  BY <1>2, <1>4, <1>6 DEF IdsAreFresh
<1>10. CallsOK'
  <2>1. WritingOK(s)' /\ KeyOK(s)'
    BY <1>2, <1>4, <1>5 DEF CallsOK, WritingOK, KeyOK
  <2>2. \A t \in Session \ {s} : WritingOK(t)' /\ KeyOK(t)'
    BY <1>4, <1>5 DEF CallsOK, WritingOK, KeyOK, Writing
  <2>3. \A t \in Session : (Holding(t)' <=> Holding(t)) /\ call'[t].doc = call[t].doc
    BY <1>2, <1>4 DEF Holding
  <2>4. ASSUME NEW t \in Session, call'[t].step = "updating"
        PROVE  receipt'[call'[t].doc].reverses = NoReceipt
    BY <1>2, <1>4, <2>4 DEF CallsOK
  <2> QED BY <2>1, <2>2, <2>3, <2>4 DEF CallsOK
<1> QED BY <1>7, <1>8, <1>9, <1>10

(* A refusal gives the call record back and nothing else.                  *)
LEMMA RefuseStep ==
  ASSUME ReceiptInv, NEW s \in Session, call[s].step # "writing",
         UNCHANGED <<streamVars, receipt, calls>>,
         Return(s, "immutable") \/ Return(s, "error")
  PROVE  ReceiptInv'
<1> USE DEF ReceiptInv
<1>1. /\ call \in [Session -> CallRecord] /\ ~Writing(s)
      /\ calls \in 0..MaxCalls /\ calls \in Nat /\ call[s].n <= calls
  BY CallsAssumption DEF TypeOK, CallOK, Writing
<1>2. /\ call' \in [Session -> CallRecord]
      /\ call'[s].step = "done" /\ call'[s].n = call[s].n
      /\ \A t \in Session \ {s} : call'[t] = call[t]
  BY <1>1, ReturnEffect
<1> QED BY <1>1, <1>2, CallOnly

LEMMA LockReceiptStep ==
  ASSUME ReceiptInv, NEW s \in Session, LockReceipt(s)
  PROVE  ReceiptInv'
<1>1. CASE Return(s, "immutable")
  BY <1>1, RefuseStep DEF LockReceipt
<1>2. CASE /\ receipt[call[s].doc].status = "DRAFT"
           /\ call' = [call EXCEPT ![s].step = "key", ![s].locked = TRUE]
  <2>1. PICK locked \in BOOLEAN : locked = TRUE
    OBVIOUS
  <2>2. /\ call' = [call EXCEPT ![s].step = "key", ![s].locked = locked]
        /\ call[s].step = "checked" /\ call[s].op = "post" /\ RowFree(call[s].doc)
        /\ UNCHANGED <<streamVars, receipt, calls>>
    BY <1>2, <2>1 DEF LockReceipt
  <2> QED BY <1>2, <2>1, <2>2, LockRowStep
<1> QED BY <1>1, <1>2 DEF LockReceipt

LEMMA MarkReversedStep ==
  ASSUME ReceiptInv, NEW s \in Session, MarkReversed(s)
  PROVE  ReceiptInv'
<1>1. PICK locked \in BOOLEAN : locked = (receipt[call[s].doc].status = "POSTED")
  OBVIOUS
<1>2. /\ call' = [call EXCEPT ![s].step = "key", ![s].locked = locked]
      /\ locked => RowFree(call[s].doc)
      /\ call[s].step = "checked" /\ call[s].op = "reverse"
      /\ UNCHANGED <<streamVars, receipt, calls>>
  BY <1>1 DEF MarkReversed
<1> QED BY <1>1, <1>2, LockRowStep

LEMMA WriteStep ==
  ASSUME ReceiptInv, StreamTypeOK', NEW s \in Session, PostWrite(s) \/ ReverseWrite(s)
  PROVE  ReceiptInv'
<1>1. PICK M : /\ WriteWithKey(s, M)
               /\ \/ call[s].op = "post" /\ M = PostingRows(call[s].doc, call[s].seen, call[s].n)
                  \/ call[s].op = "reverse" /\ M = ReversalRows(call[s].seen, call[s].n)
  BY DEF PostWrite, ReverseWrite
<1>2. CASE UNCHANGED streamVars /\ Return(s, "error")
  BY <1>1, <1>2, RefuseStep DEF WriteWithKey
<1>3. CASE InsertMovements(s, M) /\ call' = [call EXCEPT ![s].step = "writing"]
  BY <1>1, <1>3, OpenStep DEF WriteWithKey
<1> QED BY <1>1, <1>2, <1>3 DEF WriteWithKey

(* Locks and rebuilds touch neither documents nor rows.                    *)
LEMMA StatementStep ==
  ASSUME ReceiptInv, StreamTypeOK', NEW s \in Session, StreamStatement(s)
  PROVE  ReceiptInv'
<1>1. UNCHANGED <<receipt, call, feed, calls, movements, inserted>>
  BY DEF StreamStatement, receiptVars, lockValuationStream, rebuildInventoryBalance
<1>2. TypeOK'
  BY <1>1 DEF ReceiptInv, TypeOK, CallOK, Active, Writing, InTransaction
<1>3. DocumentsOK'
  BY <1>1 DEF ReceiptInv, DocumentsOK, PostedOnce, MovementsOf
<1>4. IdsAreFresh' /\ CallsOK'
  BY <1>1 DEF ReceiptInv, IdsAreFresh, CallsOK, WritingOK, KeyOK, Holding, Active, Writing
<1> QED BY <1>2, <1>3, <1>4 DEF ReceiptInv

(* The end of a transaction, as far as the call records go.                *)
LEMMA EndEffect ==
  ASSUME ReceiptInv, NEW s \in Session, Writing(s), EndTransaction(s),
         NEW result \in {"created", "error"}, Return(s, result), UNCHANGED calls,
         DOMAIN receipt \subseteq DOMAIN receipt'
  PROVE  /\ call' \in [Session -> CallRecord]
         /\ call'[s].step = "done" /\ call'[s].n = call[s].n
         /\ inserted'[s] = {}
         /\ \A t \in Session \ {s} : call'[t] = call[t] /\ inserted'[t] = inserted[t]
         /\ \A t \in Session : CallOK(t)'
<1> USE DEF ReceiptInv
<1>1. /\ call' \in [Session -> CallRecord]
      /\ call'[s].step = "done" /\ call'[s].n = call[s].n
      /\ \A t \in Session \ {s} : call'[t] = call[t]
  BY ReturnEffect DEF TypeOK
<1>2. inserted'[s] = {} /\ \A t \in Session \ {s} : inserted'[t] = inserted[t]
  BY DEF EndTransaction, TypeOK, StreamTypeOK
<1>3. CallOK(s)'
  BY <1>1, <1>2 DEF TypeOK, CallOK, Active, Writing, InTransaction
<1>4. \A t \in Session \ {s} : CallOK(t)'
  BY <1>1, <1>2 DEF TypeOK, CallOK, Active, Writing, InTransaction
<1> QED BY <1>1, <1>2, <1>3, <1>4

LEMMA RollbackCallStep ==
  ASSUME ReceiptInv, StreamTypeOK', NEW s \in Session, Rollback(s)
  PROVE  ReceiptInv'
<1>1. CASE call[s].step = "key" /\ UNCHANGED streamVars
  BY <1>1, RefuseStep DEF Rollback
<1>2. CASE Writing(s) /\ RollbackMovements(s)
  <2> USE DEF ReceiptInv
  <2>1. /\ Writing(s) /\ EndTransaction(s) /\ Return(s, "error")
        /\ UNCHANGED <<receipt, calls, movements>>
    BY <1>2 DEF Rollback, RollbackMovements, ledgerVars
  <2>2. /\ call' \in [Session -> CallRecord]
        /\ call'[s].step = "done"
        /\ \A t \in Session \ {s} : call'[t] = call[t] /\ inserted'[t] = inserted[t]
        /\ \A t \in Session : CallOK(t)'
    BY <2>1, EndEffect
  <2>3. TypeOK'
    BY <2>1, <2>2 DEF TypeOK
  <2>4. DocumentsOK'
    BY <2>1 DEF DocumentsOK, PostedOnce, MovementsOf
  <2>5. IdsAreFresh'
    BY <2>1, <2>2 DEF IdsAreFresh, Active
  <2>6. CallsOK'
    BY <2>1, <2>2 DEF CallsOK, WritingOK, KeyOK, Holding, Writing
  <2> QED BY <2>3, <2>4, <2>5, <2>6
<1> QED BY <1>1, <1>2 DEF Rollback

(* updateDraft may change what a document shows, but neither its status nor *)
(* the fingerprint it was posted with, and never a reverse document.        *)
LEMMA UpdateStep ==
  ASSUME ReceiptInv, NEW s \in Session, UpdateWrite(s)
  PROVE  ReceiptInv'
<1> USE DEF ReceiptInv
<1> DEFINE d == call[s].doc
<1>1. /\ call \in [Session -> CallRecord] /\ call[s] \in CallRecord
      /\ call[s].step = "updating" /\ ~Writing(s) /\ Active(s)
  BY DEF TypeOK, UpdateWrite, Writing, Active
<1>2. /\ d \in DOMAIN receipt /\ receipt[d] \in ReceiptRecord /\ call[s].n \in 1..calls
      /\ receipt[d].reverses = NoReceipt
  BY <1>1 DEF TypeOK, CallOK, CallsOK
<1>3. PICK new \in ReceiptRecord :
        /\ receipt' = [receipt EXCEPT ![d] = new]
        /\ new.status = receipt[d].status /\ new.fp = receipt[d].fp
        /\ new.reverses = receipt[d].reverses
  <2>1. PICK content \in Content, withLines \in BOOLEAN :
          receipt' = [receipt EXCEPT ![d] = Updated(receipt[d], content, withLines, call[s].n)]
    BY DEF UpdateWrite
  <2> DEFINE upd == Updated(receipt[d], content, withLines, call[s].n)
  <2>2. content.pos \in Positions /\ content.lines \in LineLists /\ call[s].n \in ReceiptId
    BY <1>2, CallsAssumption DEF Positions, LineLists, ReceiptId, TypeOK
  <2>3. /\ upd \in ReceiptRecord /\ upd.status = receipt[d].status /\ upd.fp = receipt[d].fp
        /\ upd.reverses = receipt[d].reverses
    BY <1>2, <2>2 DEF ReceiptRecord, Updated
  <2> QED BY <2>1, <2>3
<1>4. /\ DOMAIN receipt' = DOMAIN receipt /\ receipt'[d] = new
      /\ \A e \in DOMAIN receipt \ {d} : receipt'[e] = receipt[e]
  BY <1>2, <1>3
<1>5. /\ call' \in [Session -> CallRecord]
      /\ call'[s].step = "done" /\ call'[s].n = call[s].n
      /\ \A t \in Session \ {s} : call'[t] = call[t]
  BY <1>1, ReturnEffect DEF UpdateWrite
<1>6. UNCHANGED <<movements, balance, streamLock, inserted, todo, rebuilt, calls>>
  BY DEF UpdateWrite, streamVars
<1> HIDE DEF d
<1>7. \A e \in DOMAIN receipt :
        /\ receipt'[e] \in ReceiptRecord /\ receipt'[e].status = receipt[e].status
        /\ receipt'[e].reverses = receipt[e].reverses /\ receipt'[e].fp = receipt[e].fp
        /\ e # d => receipt'[e] = receipt[e]
  BY <1>3, <1>4 DEF TypeOK
<1>8. TypeOK'
  <2>1. StreamTypeOK'
    BY <1>6 DEF TypeOK, StreamTypeOK, InTransaction
  <2>2. CallOK(s)'
    BY <1>1, <1>5, <1>6 DEF TypeOK, CallOK, Active, Writing, InTransaction
  <2>3. \A t \in Session \ {s} : CallOK(t)'
    BY <1>4, <1>5, <1>6 DEF TypeOK, CallOK, Active, Writing, InTransaction
  <2> QED BY <1>4, <1>5, <1>6, <1>7, <2>1, <2>2, <2>3 DEF TypeOK
<1>9. DocumentsOK'
  <2>1. ASSUME NEW e \in DOMAIN receipt PROVE PostedOnce(e)'
    <3>1. PostedOnce(e)
      BY DEF DocumentsOK
    <3>2. MovementsOf(e)' = MovementsOf(e)
      BY <1>6 DEF MovementsOf
    <3>3. CASE e # d
      BY <1>7, <3>1, <3>2, <3>3 DEF PostedOnce
    <3>4. CASE receipt[e].reverses = NoReceipt
      BY <1>7, <3>1, <3>2, <3>4 DEF PostedOnce
    <3> QED BY <1>2, <3>3, <3>4 DEF d
  <2> QED BY <1>4, <1>6, <1>7, <2>1 DEF DocumentsOK
<1>10. IdsAreFresh'
  BY <1>4, <1>5 DEF IdsAreFresh, Active
<1>11. CallsOK'
  <2>1. \A t \in Session \ {s} : Active(t) => call[t].doc \in DOMAIN receipt
    BY DEF TypeOK, CallOK
  <2> QED BY <1>5, <1>6, <1>7, <2>1 DEF CallsOK, WritingOK, KeyOK, Holding, Writing, Active
<1> QED BY <1>8, <1>9, <1>10, <1>11

(* The commit of a post gives the document the rows its transaction has    *)
(* inserted, which are those of the fingerprint it stores.                 *)
LEMMA PostCommitStep ==
  ASSUME ReceiptInv, StreamTypeOK', NEW s \in Session, PostCommit(s)
  PROVE  ReceiptInv'
<1> USE DEF ReceiptInv
<1>1. PICK d, seen, n, key : d = call[s].doc /\ seen = call[s].seen /\ n = call[s].n /\ key = call[s].key
  OBVIOUS
<1>2. /\ Writing(s) /\ Active(s) /\ call[s].op = "post" /\ call[s].locked
      /\ receipt[d].status = "DRAFT" /\ inserted[s] = PostingRows(d, seen, n)
  BY <1>1 DEF PostCommit, CallsOK, WritingOK, Writing, Active
<1>3. /\ d \in DOMAIN receipt /\ receipt[d] \in ReceiptRecord /\ seen \in ReceiptRecord
      /\ n \in ReceiptId /\ d \in ReceiptId /\ key \in DocKey
      /\ receipt[d].reverses = NoReceipt
  <2>1. call[s].step # "updating"
    BY <1>2 DEF Writing
  <2> QED BY <1>1, <1>2, <2>1, CallsAssumption DEF TypeOK, CallOK, DocumentsOK, ReceiptId
<1>4. PICK new \in ReceiptRecord :
        /\ receipt' = [receipt EXCEPT ![d] = new]
        /\ new.status = "POSTED" /\ new.reverses = NoReceipt
        /\ new.fp.pos = seen.pos /\ new.fp.lines = seen.lines
  <2> DEFINE rec == [receipt[d] EXCEPT !.status = "POSTED", !.key = key,
                                       !.fp = fingerprintFromDraft(d, seen)]
  <2>1. fingerprintFromDraft(d, seen) \in Fingerprint
    BY <1>3 DEF fingerprintFromDraft, Fingerprint, ReceiptRecord
  <2>2. rec \in ReceiptRecord /\ rec.status = "POSTED" /\ rec.reverses = NoReceipt
    BY <1>3, <2>1 DEF ReceiptRecord
  <2>3. rec.fp = fingerprintFromDraft(d, seen)
    BY <1>3 DEF ReceiptRecord
  <2>4. receipt' = [receipt EXCEPT ![d] = rec]
    BY <1>1 DEF PostCommit
  <2>5. rec.fp.pos = seen.pos /\ rec.fp.lines = seen.lines
    BY <2>3 DEF fingerprintFromDraft
  <2> HIDE DEF rec
  <2> QED BY <2>2, <2>4, <2>5
<1>5. /\ DOMAIN receipt' = DOMAIN receipt /\ receipt'[d] = new
      /\ \A e \in DOMAIN receipt \ {d} : receipt'[e] = receipt[e]
  BY <1>3, <1>4
<1>6. /\ EndTransaction(s) /\ Return(s, "created") /\ UNCHANGED calls
      /\ movements' = movements \cup inserted[s]
  BY DEF PostCommit, CommitMovements
<1>7. /\ call' \in [Session -> CallRecord]
      /\ call'[s].step = "done"
      /\ \A t \in Session \ {s} : call'[t] = call[t] /\ inserted'[t] = inserted[t]
      /\ \A t \in Session : CallOK(t)'
  BY <1>2, <1>5, <1>6, EndEffect
<1>8. TypeOK'
  BY <1>4, <1>5, <1>6, <1>7 DEF TypeOK
<1>9. \A m \in inserted[s] : m.doc = d
  BY <1>2, RowsAreOwned
<1>10. DocumentsOK'
  <2>1. PostedOnce(d)'
    <3>1. MovementsOf(d) = {}
      BY <1>2, <1>3 DEF DocumentsOK, PostedOnce
    <3>2. MovementsOf(d)' = PostingRows(d, seen, n)
      BY <1>2, <1>6, <1>9, <3>1 DEF MovementsOf
    <3>3. PICK b : b = [pos |-> new.fp.pos, lines |-> new.fp.lines, gen |-> seen.gen]
      OBVIOUS
    <3>4. PostingRows(d, seen, n) = PostingRows(d, b, n)
      BY <1>4, <3>3, RowsOfContent
    <3>5. seen.gen \in ReceiptId
      BY <1>3 DEF ReceiptRecord
    <3> QED BY <1>3, <1>4, <1>5, <3>2, <3>3, <3>4, <3>5 DEF PostedOnce
  <2>2. ASSUME NEW e \in DOMAIN receipt, e # d PROVE PostedOnce(e)'
    <3>1. MovementsOf(e)' = MovementsOf(e)
      BY <1>6, <1>9, <2>2 DEF MovementsOf
    <3> QED BY <1>5, <2>2, <3>1 DEF DocumentsOK, PostedOnce
  <2>3. \A m \in movements' : m.doc \in DOMAIN receipt'
    BY <1>3, <1>5, <1>6, <1>9 DEF DocumentsOK
  <2> QED BY <1>4, <1>5, <2>1, <2>2, <2>3 DEF DocumentsOK
<1>11. IdsAreFresh'
  BY <1>5, <1>7 DEF IdsAreFresh, Active
<1>12. CallsOK'
  <2>1. ASSUME NEW t \in Session PROVE WritingOK(t)' /\ KeyOK(t)'
    <3>1. CASE t = s
      BY <1>7, <3>1 DEF WritingOK, KeyOK, Writing
    <3>2. CASE t # s /\ call[t].step \in {"key", "writing"}
      <4>1. call[t].doc \in DOMAIN receipt /\ WritingOK(t) /\ KeyOK(t)
        BY <3>2 DEF TypeOK, CallOK, CallsOK, Active
      <4>2. call[t].locked => call[t].doc # d
        BY <1>1, <1>2, <3>2 DEF CallsOK, Holding, Writing
      <4> QED BY <1>5, <1>7, <3>2, <4>1, <4>2 DEF WritingOK, KeyOK, Writing
    <3>3. CASE t # s /\ call[t].step \notin {"key", "writing"}
      BY <1>7, <3>3 DEF WritingOK, KeyOK, Writing
    <3> QED BY <3>1, <3>2, <3>3
  <2>2. ASSUME NEW t \in Session, NEW u \in Session, t # u, Holding(t)', Holding(u)'
        PROVE  call'[t].doc # call'[u].doc
    BY <1>7, <2>2 DEF CallsOK, Holding
  <2>3. ASSUME NEW t \in Session, call'[t].step = "updating"
        PROVE  receipt'[call'[t].doc].reverses = NoReceipt
    <3>1. t # s /\ call'[t] = call[t]
      BY <1>7, <2>3
    <3>2. call[t].doc \in DOMAIN receipt /\ receipt[call[t].doc].reverses = NoReceipt
      BY <2>3, <3>1 DEF TypeOK, CallOK, CallsOK, Active
    <3> QED BY <1>4, <1>5, <3>1, <3>2
  <2> QED BY <2>1, <2>2, <2>3 DEF CallsOK
<1> QED BY <1>8, <1>10, <1>11, <1>12

(* The commit of a reverse adds a document whose id nobody else uses, with *)
(* the rows of its own lines, and closes the receipt if it held its row.   *)
LEMMA ReverseCommitStep ==
  ASSUME ReceiptInv, StreamTypeOK', NEW s \in Session, ReverseCommit(s)
  PROVE  ReceiptInv'
<1> USE DEF ReceiptInv
<1>1. PICK c, d, seen, n : c = call[s] /\ d = c.doc /\ seen = c.seen /\ n = c.n
  OBVIOUS
<1>2. /\ Writing(s) /\ Active(s) /\ c.op = "reverse"
      /\ c.locked => receipt[d].status = "POSTED"
      /\ inserted[s] = ReversalRows(seen, n)
  BY <1>1 DEF ReverseCommit, CallsOK, WritingOK, Writing, Active
<1>3. /\ d \in DOMAIN receipt /\ receipt[d] \in ReceiptRecord /\ seen \in ReceiptRecord
      /\ n \in 1..calls /\ n \in ReceiptId /\ d \in ReceiptId /\ c.key \in DocKey
      /\ n \notin DOMAIN receipt /\ n # d
  <2>1. c.step # "updating"
    BY <1>1, <1>2 DEF Writing
  <2> QED BY <1>1, <1>2, <2>1, CallsAssumption DEF TypeOK, CallOK, IdsAreFresh, ReceiptId
<1>4. PICK new \in ReceiptRecord :
        /\ new = ReverseDocument(c)
        /\ new.status = "POSTED" /\ new.reverses = d /\ d # NoReceipt
        /\ new.pos = seen.pos /\ new.lines = seen.lines
  <2>1. [reverseOf |-> d] \in Fingerprint
    BY <1>3 DEF Fingerprint
  <2>2. d # NoReceipt
    BY <1>3, NullAssumption DEF ReceiptId
  <2>3. ReverseDocument(c) \in ReceiptRecord
    BY <1>1, <1>3, <2>1 DEF ReverseDocument, ReceiptRecord
  <2> QED BY <1>1, <2>2, <2>3 DEF ReverseDocument
<1>5. PICK upd : /\ upd = IF c.locked THEN [receipt[d] EXCEPT !.status = "REVERSED"] ELSE receipt[d]
                 /\ upd \in ReceiptRecord /\ upd.reverses = receipt[d].reverses
                 /\ upd.fp = receipt[d].fp /\ upd.pos = receipt[d].pos
                 /\ upd.lines = receipt[d].lines
                 /\ (upd.status = "DRAFT") <=> (receipt[d].status = "DRAFT")
  <2>1. CASE c.locked
    <3> DEFINE rec == [receipt[d] EXCEPT !.status = "REVERSED"]
    <3>1. /\ rec \in ReceiptRecord /\ rec.reverses = receipt[d].reverses
          /\ rec.fp = receipt[d].fp /\ rec.pos = receipt[d].pos
          /\ rec.lines = receipt[d].lines /\ rec.status = "REVERSED"
      BY <1>3 DEF ReceiptRecord
    <3>2. receipt[d].status = "POSTED"
      BY <1>2, <2>1
    <3> HIDE DEF rec
    <3> QED BY <2>1, <3>1, <3>2 DEF rec
  <2>2. CASE ~c.locked
    BY <1>3, <2>2
  <2> QED BY <2>1, <2>2
<1>6. /\ DOMAIN receipt' = DOMAIN receipt \cup {n}
      /\ receipt'[n] = new /\ receipt'[d] = upd
      /\ \A e \in DOMAIN receipt \ {d} : receipt'[e] = receipt[e]
      /\ ~c.locked => receipt'[d] = receipt[d]
  BY <1>1, <1>3, <1>4, <1>5 DEF ReverseCommit
<1>7. /\ EndTransaction(s) /\ Return(s, "created") /\ UNCHANGED calls
      /\ movements' = movements \cup inserted[s]
  BY DEF ReverseCommit, CommitMovements
<1>8. /\ call' \in [Session -> CallRecord]
      /\ call'[s].step = "done"
      /\ \A t \in Session \ {s} : call'[t] = call[t] /\ inserted'[t] = inserted[t]
      /\ \A t \in Session : CallOK(t)'
  BY <1>2, <1>6, <1>7, EndEffect
<1>9. TypeOK'
  BY <1>3, <1>4, <1>5, <1>6, <1>7, <1>8 DEF TypeOK
<1>10. \A m \in inserted[s] : m.doc = n
  BY <1>2, RowsAreOwned
<1>11. \A e \in DOMAIN receipt : MovementsOf(e)' = MovementsOf(e)
  BY <1>3, <1>7, <1>10 DEF MovementsOf
<1>12. DocumentsOK'
  <2>1. PostedOnce(n)'
    <3>1. MovementsOf(n)' = ReversalRows(seen, n)
      BY <1>2, <1>3, <1>7, <1>10 DEF MovementsOf, DocumentsOK
    <3>2. ReversalRows(seen, n) = ReversalRows(new, n)
      BY <1>4, RowsOfContent
    <3> QED BY <1>4, <1>6, <3>1, <3>2 DEF PostedOnce
  <2>2. ASSUME NEW e \in DOMAIN receipt PROVE PostedOnce(e)'
    <3>1. PostedOnce(e) /\ MovementsOf(e)' = MovementsOf(e)
      BY <1>11 DEF DocumentsOK
    <3>2. CASE e # d
      BY <1>6, <3>1, <3>2 DEF PostedOnce
    <3>3. CASE e = d
      <4>1. ReversalRows(upd, e) = ReversalRows(receipt[e], e)
        BY <1>5, <3>3 DEF ReversalRows
      <4>2. /\ receipt'[e] = upd /\ upd.reverses = receipt[e].reverses /\ upd.fp = receipt[e].fp
            /\ (upd.status = "DRAFT") <=> (receipt[e].status = "DRAFT")
        BY <1>5, <1>6, <3>3
      <4> QED BY <3>1, <4>1, <4>2 DEF PostedOnce
    <3> QED BY <3>2, <3>3
  <2>3. \A m \in movements' : m.doc \in DOMAIN receipt'
    BY <1>6, <1>7, <1>10 DEF DocumentsOK
  <2>4. \A e \in DOMAIN receipt' : receipt'[e].status = "DRAFT" => receipt'[e].reverses = NoReceipt
    <3>1. receipt[d].status = "DRAFT" => receipt[d].reverses = NoReceipt
      BY <1>3 DEF DocumentsOK
    <3>2. upd.status = "DRAFT" => upd.reverses = NoReceipt
      BY <1>5, <3>1
    <3>3. new.status # "DRAFT"
      BY <1>4
    <3> QED BY <1>6, <3>2, <3>3 DEF DocumentsOK
  <2> QED BY <1>6, <2>1, <2>2, <2>3, <2>4 DEF DocumentsOK
<1>13. IdsAreFresh'
  BY <1>1, <1>2, <1>6, <1>8 DEF IdsAreFresh, Active
<1>14. CallsOK'
  <2>1. ASSUME NEW t \in Session PROVE WritingOK(t)' /\ KeyOK(t)'
    <3>1. CASE t = s
      BY <1>8, <3>1 DEF WritingOK, KeyOK, Writing
    <3>2. CASE t # s /\ call[t].step \in {"key", "writing"}
      <4>1. call[t].doc \in DOMAIN receipt /\ WritingOK(t) /\ KeyOK(t)
        BY <3>2 DEF TypeOK, CallOK, CallsOK, Active
      <4>2. call[t].locked /\ c.locked => call[t].doc # d
        BY <1>1, <1>2, <3>2 DEF CallsOK, Holding, Writing
      <4> QED BY <1>6, <1>8, <3>2, <4>1, <4>2 DEF WritingOK, KeyOK, Writing
    <3>3. CASE t # s /\ call[t].step \notin {"key", "writing"}
      BY <1>8, <3>3 DEF WritingOK, KeyOK, Writing
    <3> QED BY <3>1, <3>2, <3>3
  <2>2. ASSUME NEW t \in Session, NEW u \in Session, t # u, Holding(t)', Holding(u)'
        PROVE  call'[t].doc # call'[u].doc
    BY <1>8, <2>2 DEF CallsOK, Holding
  <2>3. ASSUME NEW t \in Session, call'[t].step = "updating"
        PROVE  receipt'[call'[t].doc].reverses = NoReceipt
    <3>1. t # s /\ call'[t] = call[t]
      BY <1>8, <2>3
    <3>2. call[t].doc \in DOMAIN receipt /\ receipt[call[t].doc].reverses = NoReceipt
      BY <2>3, <3>1 DEF TypeOK, CallOK, CallsOK, Active
    <3> QED BY <1>5, <1>6, <3>1, <3>2
  <2> QED BY <2>1, <2>2, <2>3 DEF CallsOK
<1> QED BY <1>9, <1>12, <1>13, <1>14

LEMMA ReceiptStutter ==
  ASSUME ReceiptInv, UNCHANGED vars PROVE ReceiptInv'
<1>1. UNCHANGED <<movements, balance, streamLock, inserted, todo, rebuilt, receipt, call, feed, calls>>
  BY DEF vars, streamVars, receiptVars
<1>2. TypeOK'
  BY <1>1 DEF ReceiptInv, TypeOK, StreamTypeOK, CallOK, Active, Writing, InTransaction
<1>3. DocumentsOK'
  BY <1>1 DEF ReceiptInv, DocumentsOK, PostedOnce, MovementsOf
<1>4. IdsAreFresh' /\ CallsOK'
  BY <1>1 DEF ReceiptInv, IdsAreFresh, CallsOK, WritingOK, KeyOK, Holding, Active, Writing
<1> QED BY <1>2, <1>3, <1>4 DEF ReceiptInv

LEMMA ReceiptStepInv ==
  ASSUME ReceiptInv, StreamTypeOK', [Next]_vars
  PROVE  ReceiptInv'
<1>1. CASE UNCHANGED vars
  BY <1>1, ReceiptStutter
<1>2. ASSUME NEW s \in Session, CreateDraft(s) PROVE ReceiptInv'
  BY <1>2, CreateStep
<1>3. ASSUME NEW s \in Session, StartPost(s) \/ StartReverse(s) \/ StartUpdate(s)
      PROVE ReceiptInv'
  BY <1>3, StartStep
<1>4. ASSUME NEW s \in Session, ReadLines(s) PROVE ReceiptInv'
  BY <1>4, ReadLinesStep
<1>5. ASSUME NEW s \in Session, LockReceipt(s) \/ MarkReversed(s) PROVE ReceiptInv'
  BY <1>5, LockReceiptStep, MarkReversedStep
<1>6. ASSUME NEW s \in Session, PostCommit(s) PROVE ReceiptInv'
  BY <1>6, PostCommitStep
<1>7. ASSUME NEW s \in Session, PostWrite(s) \/ ReverseWrite(s) PROVE ReceiptInv'
  BY <1>7, WriteStep
<1>8. ASSUME NEW s \in Session, ReverseCommit(s) PROVE ReceiptInv'
  BY <1>8, ReverseCommitStep
<1>9. ASSUME NEW s \in Session, UpdateWrite(s) PROVE ReceiptInv'
  BY <1>9, UpdateStep
<1>10. ASSUME NEW s \in Session, StreamStatement(s) PROVE ReceiptInv'
  BY <1>10, StatementStep
<1>11. ASSUME NEW s \in Session, Rollback(s) PROVE ReceiptInv'
  BY <1>11, RollbackCallStep
<1>12. ASSUME NEW s \in Session, RefuseUpdate(s) PROVE ReceiptInv'
  BY <1>12, RefuseStep DEF RefuseUpdate
<1> QED BY <1>1, <1>2, <1>3, <1>4, <1>5, <1>6, <1>7, <1>8, <1>9, <1>10, <1>11, <1>12
     DEF Next, CallStep

LEMMA ReceiptsInductive == StreamInv /\ ReceiptInv /\ [Next]_vars => (StreamInv /\ ReceiptInv)'
<1> SUFFICES ASSUME StreamInv, ReceiptInv, [Next]_vars PROVE (StreamInv /\ ReceiptInv)'
  OBVIOUS
<1>1. StreamInv'
  BY NextIsStreamStepOrStutter, StreamStepInv, StreamStutter
<1>2. StreamTypeOK'
  BY <1>1 DEF StreamInv
<1> QED BY <1>1, <1>2, ReceiptStepInv

(* Documents, calls and streams keep their types, calls stay paired with   *)
(* their transactions, and every call in progress has a document.          *)
THEOREM ReceiptsTypeCorrect == Spec => []TypeOK
<1>1. Init => StreamInv /\ ReceiptInv
  BY StreamInvInit, ReceiptInvInit DEF Init
<1>2. StreamInv /\ ReceiptInv => TypeOK
  BY DEF ReceiptInv
<1> QED BY <1>1, <1>2, ReceiptsInductive, PTL DEF Spec

(* However many sessions post, reverse, update and fail at once, under     *)
(* whatever keys, a receipt's stock is moved exactly once.                 *)
THEOREM ReceiptsPostedOnce == Spec => []PostedExactlyOnce
<1>1. Init => StreamInv /\ ReceiptInv
  BY StreamInvInit, ReceiptInvInit DEF Init
<1>2. StreamInv /\ ReceiptInv => PostedExactlyOnce
  BY DEF ReceiptInv, DocumentsOK, PostedOnce, PostedExactlyOnce
<1> QED BY <1>1, <1>2, ReceiptsInductive, PTL DEF Spec

-----------------------------------------------------------------------------
(* Rows a call has inserted are its own: they carry the number of the call *)
(* and belong to a document that has none, or that is not there yet.       *)
LEMMA CallRowsAreFresh == ReceiptInv => RowsAreFresh
<1> SUFFICES ASSUME ReceiptInv PROVE RowsAreFresh
  OBVIOUS
<1> USE DEF ReceiptInv
<1>1. ASSUME NEW s \in Session, inserted[s] # {}
      PROVE  /\ WritingOK(s) /\ Writing(s) /\ Active(s) /\ call[s].doc \in DOMAIN receipt
             /\ \A m \in inserted[s] : m.id[1] = call[s].n
  <2>1. WritingOK(s) /\ Writing(s) /\ Active(s) /\ call[s].doc \in DOMAIN receipt
    BY <1>1 DEF TypeOK, CallOK, CallsOK, Active, Writing, InTransaction
  <2>2. \A snap, d, n : /\ \A m \in PostingRows(d, snap, n) : m.id[1] = n
                        /\ \A m \in ReversalRows(snap, n) : m.id[1] = n
    BY DEF PostingRows, ReversalRows, Row
  <2> QED BY <2>1, <2>2 DEF WritingOK
<1>2. ASSUME NEW s \in Session PROVE inserted[s] \cap movements = {}
  <2> SUFFICES ASSUME inserted[s] # {} PROVE inserted[s] \cap movements = {}
    OBVIOUS
  <2>1. CASE /\ receipt[call[s].doc].status = "DRAFT"
             /\ inserted[s] = PostingRows(call[s].doc, call[s].seen, call[s].n)
    <3>1. MovementsOf(call[s].doc) = {}
      BY <1>1, <2>1 DEF DocumentsOK, PostedOnce
    <3>2. \A m \in inserted[s] : m.doc = call[s].doc
      BY <2>1, RowsAreOwned
    <3> QED BY <3>1, <3>2 DEF MovementsOf
  <2>2. CASE inserted[s] = ReversalRows(call[s].seen, call[s].n)
    <3>1. call[s].n \notin DOMAIN receipt
      BY <1>1 DEF IdsAreFresh
    <3>2. \A m \in inserted[s] : m.doc = call[s].n
      BY <2>2 DEF ReversalRows, Row
    <3> QED BY <3>1, <3>2 DEF DocumentsOK
  <2> QED BY <1>1, <2>1, <2>2 DEF WritingOK
<1>3. ASSUME NEW s \in Session, NEW t \in Session, s # t
      PROVE  inserted[s] \cap inserted[t] = {}
  BY <1>1, <1>3 DEF IdsAreFresh
<1> QED BY <1>2, <1>3 DEF RowsAreFresh

(* Seen from inventory, goods receipts are the one-step ledger: what the   *)
(* interleaved calls do to movements and balances, one Post at a time does.*)
THEOREM ReceiptsImplementLedger == Spec => ImplementsLedger
<1>1. Init => StreamInv /\ ReceiptInv /\ LedgerInit
  BY StreamInvInit, ReceiptInvInit DEF Init, StreamInit
<1>2. StreamInv /\ ReceiptInv /\ [Next]_vars => [LedgerNext]_ledgerVars
  <2> SUFFICES ASSUME StreamInv, ReceiptInv, [Next]_vars
               PROVE  LedgerNext \/ UNCHANGED ledgerVars
    OBVIOUS
  <2>1. CASE UNCHANGED streamVars
    BY <2>1 DEF streamVars, ledgerVars
  <2>2. ASSUME NEW s \in Session, CommitMovements(s) PROVE LedgerNext
    BY <2>2, CallRowsAreFresh, CommitPosts
  <2>3. ASSUME NEW s \in Session, StreamStep(s), ~CommitMovements(s)
        PROVE  UNCHANGED ledgerVars
    BY <2>3 DEF StreamStep, InsertMovements, RollbackMovements, lockValuationStream,
                rebuildInventoryBalance, ledgerVars
  <2> QED BY <2>1, <2>2, <2>3, NextIsStreamStepOrStutter
<1> QED BY <1>1, <1>2, ReceiptsInductive, PTL DEF Spec, ImplementsLedger, LedgerSpec

-----------------------------------------------------------------------------
(* What goods receipts tell the rest of the system: the facts they publish   *)
(* and the answers of their calls.  The inductive invariant behind it, on    *)
(* top of ReceiptInv: a key is on a document from its posting on, no two     *)
(* open transactions have inserted one key nor one that is committed, and a  *)
(* snapshot of a posted document shows the key it still has.                 *)

KeyOnPosting ==
  \A d \in DOMAIN receipt :
    IF receipt[d].status = "DRAFT" THEN receipt[d].key = NoKey ELSE MovementsOf(d) # {}

\* A posted receipt shown to call s is posted for good, under that key.
SnapshotStands(s) ==
  LET c == call[s] IN
  Active(s) /\ c.seen.status = "POSTED" =>
    receipt[c.doc].status # "DRAFT" /\ receipt[c.doc].key = c.seen.key

AnswerStands(s) ==
  LET c == call[s] IN
  c.op = "post" /\ c.step = "done" =>
    /\ c.result \in {"created", "duplicate"} =>
         /\ c.doc \in DOMAIN receipt /\ receipt[c.doc].status # "DRAFT"
         /\ receipt[c.doc].key = c.key
    /\ c.result = "conflict" => KeyHolders(c.key) # {} /\ c.key \in DocKey

KeyReserved(s) ==
  Writing(s) =>
    /\ KeyHolders(call[s].key) = {}
    /\ \A t \in Session \ {s} : Writing(t) => call[t].key # call[s].key

CallTold(s) == SnapshotStands(s) /\ AnswerStands(s) /\ KeyReserved(s)

PostingsInv ==
  /\ FeedMirrorsReceipts
  /\ KeyOnPosting
  /\ \A s \in Session : CallTold(s)

LEMMA PostingsInvInit == Init => PostingsInv
<1> SUFFICES ASSUME Init PROVE PostingsInv
  OBVIOUS
<1>1. movements = {} /\ feed = {} /\ DOMAIN receipt = {} /\ \A s \in Session : call[s] = NoCall
  BY DEF Init, StreamInit, LedgerInit
<1>2. \A s \in Session : ~Writing(s) /\ ~Active(s) /\ call[s].op = "none"
  BY <1>1 DEF Writing, Active, NoCall
<1>3. FeedMirrorsReceipts /\ KeyOnPosting
  BY <1>1 DEF FeedMirrorsReceipts, Received, KeyOnPosting
<1>4. \A s \in Session : CallTold(s)
  BY <1>2 DEF CallTold, SnapshotStands, AnswerStands, KeyReserved
<1> QED BY <1>3, <1>4 DEF PostingsInv

(* Steps that leave movements, facts, statuses and keys as they are, and at *)
(* most add drafts.                                                         *)
LEMMA QuietStep ==
  ASSUME ReceiptInv, PostingsInv, NEW s \in Session, UNCHANGED <<movements, feed>>,
         DOMAIN receipt \subseteq DOMAIN receipt',
         \A d \in DOMAIN receipt :
           receipt'[d].status = receipt[d].status /\ receipt'[d].key = receipt[d].key,
         \A d \in DOMAIN receipt' \ DOMAIN receipt :
           receipt'[d].status = "DRAFT" /\ receipt'[d].key = NoKey,
         \A t \in Session \ {s} : call'[t] = call[t],
         CallTold(s)'
  PROVE  PostingsInv'
<1> USE DEF PostingsInv
<1>1. \A m \in movements : m.doc \in DOMAIN receipt
  BY DEF ReceiptInv, DocumentsOK
<1>2. FeedMirrorsReceipts'
  <2>1. Received' = Received /\ \A m \in Received : receipt'[m.doc].key = receipt[m.doc].key
    BY <1>1 DEF Received
  <2> QED BY <2>1 DEF FeedMirrorsReceipts
<1>3. KeyOnPosting'
  BY DEF KeyOnPosting, MovementsOf
<1>4. \A k \in DocKey : KeyHolders(k)' = KeyHolders(k)
  BY NullAssumption DEF KeyHolders, DocKey
<1>5. ASSUME NEW t \in Session, t # s PROVE CallTold(t)'
  <2>1. /\ call'[t] = call[t] /\ CallTold(t) /\ CallTold(s)'
        /\ Writing(t)' <=> Writing(t)
        /\ Active(t)' <=> Active(t)
    BY <1>5 DEF Writing, Active
  <2>2. Active(t) => call[t].doc \in DOMAIN receipt
    BY DEF ReceiptInv, TypeOK, CallOK
  <2>3. Writing(t) => call[t].key \in DocKey
    BY DEF ReceiptInv, TypeOK, CallOK, Active, Writing
  <2>4. SnapshotStands(t)'
    BY <2>1, <2>2 DEF CallTold, SnapshotStands
  <2>5. AnswerStands(t)'
    BY <1>4, <2>1 DEF CallTold, AnswerStands
  <2>6. KeyReserved(t)'
    <3>1. ASSUME NEW u \in Session, u # t, Writing(u)', Writing(t)
          PROVE  call'[u].key # call'[t].key
      <4>1. CASE u = s
        BY <1>5, <2>1, <3>1, <4>1 DEF CallTold, KeyReserved
      <4>2. CASE u # s
        BY <2>1, <3>1, <4>2 DEF CallTold, KeyReserved, Writing
      <4> QED BY <4>1, <4>2
    <3> QED BY <1>4, <2>1, <2>3, <3>1 DEF CallTold, KeyReserved
  <2> QED BY <2>4, <2>5, <2>6 DEF CallTold
<1> QED BY <1>2, <1>3, <1>5

LEMMA ReturnRecord ==
  ASSUME TypeOK, NEW s \in Session, NEW result, Return(s, result)
  PROVE  /\ call'[s].step = "done" /\ call'[s].result = result
         /\ call'[s].op = call[s].op /\ call'[s].doc = call[s].doc /\ call'[s].key = call[s].key
         /\ \A t \in Session \ {s} : call'[t] = call[t]
<1>1. call \in [Session -> CallRecord] /\ call[s] \in CallRecord
  BY DEF TypeOK
<1> DEFINE rec == [call[s] EXCEPT !.step = "done", !.result = result,
                                  !.seen = NoSnapshot, !.locked = FALSE]
<1>2. call'[s] = rec /\ \A t \in Session \ {s} : call'[t] = call[t]
  BY <1>1 DEF Return
<1>3. /\ rec.step = "done" /\ rec.result = result
      /\ rec.op = call[s].op /\ rec.doc = call[s].doc /\ rec.key = call[s].key
  BY <1>1 DEF CallRecord
<1> QED BY <1>2, <1>3

(* A call that ends without a posting and without an answer about a key.    *)
LEMMA EndsQuietly ==
  ASSUME ReceiptInv, PostingsInv, NEW s \in Session, UNCHANGED <<movements, feed>>,
         DOMAIN receipt' = DOMAIN receipt,
         \A d \in DOMAIN receipt :
           receipt'[d].status = receipt[d].status /\ receipt'[d].key = receipt[d].key,
         NEW result, Return(s, result),
         result \in {"error", "immutable", "invalid", "updated"}
  PROVE  PostingsInv'
<1>1. /\ call'[s].step = "done" /\ call'[s].result = result
      /\ \A t \in Session \ {s} : call'[t] = call[t]
  BY ReturnRecord DEF ReceiptInv
<1>2. CallTold(s)'
  BY <1>1 DEF CallTold, SnapshotStands, AnswerStands, KeyReserved, Active, Writing
<1> QED BY <1>1, <1>2, QuietStep

LEMMA StartTells ==
  ASSUME ReceiptInv, PostingsInv, NEW s \in Session,
         StartPost(s) \/ StartReverse(s) \/ StartUpdate(s)
  PROVE  PostingsInv'
<1>1. PICK d \in DOMAIN receipt, k \in DocKey \cup {NoKey}, op \in {"post", "reverse", "update"},
           step \in {"done", "lines", "updating"}, result \in {"none", "immutable"} :
        /\ BeginCall(s, op, d, k, step, result)
        /\ step = "done" => op = "update"
        /\ UNCHANGED <<streamVars, receipt, feed>>
  <2>1. \A k \in Key : PostKey(k) \in DocKey /\ ReverseKey(k) \in DocKey
    BY DEF PostKey, ReverseKey, DocKey
  <2>2. CASE StartPost(s)
    BY <2>1, <2>2 DEF StartPost
  <2>3. CASE StartReverse(s)
    BY <2>1, <2>3 DEF StartReverse
  <2>4. CASE StartUpdate(s)
    BY <2>4 DEF StartUpdate
  <2> QED BY <2>2, <2>3, <2>4
<1>2. /\ call'[s].op = op /\ call'[s].step = step /\ call'[s].doc = d
      /\ call'[s].seen = receipt[d]
      /\ \A t \in Session \ {s} : call'[t] = call[t]
  <2> DEFINE rec == [op |-> op, step |-> step, result |-> result, n |-> calls + 1,
                     doc |-> d, key |-> k, seen |-> receipt[d], locked |-> FALSE]
  <2>1. call'[s] = rec /\ \A t \in Session \ {s} : call'[t] = call[t]
    BY <1>1, BeginEffect DEF ReceiptInv
  <2> QED BY <2>1
<1>3. UNCHANGED <<movements, receipt, feed>>
  BY <1>1 DEF streamVars
<1>4. CallTold(s)'
  <2>1. SnapshotStands(s)'
    BY <1>2, <1>3 DEF SnapshotStands
  <2>2. AnswerStands(s)'
    BY <1>1, <1>2 DEF AnswerStands
  <2>3. KeyReserved(s)'
    BY <1>2 DEF KeyReserved, Writing
  <2> QED BY <2>1, <2>2, <2>3 DEF CallTold
<1> QED BY <1>2, <1>3, <1>4, QuietStep

LEMMA CreateTells ==
  ASSUME ReceiptInv, PostingsInv, NEW s \in Session, CreateDraft(s)
  PROVE  PostingsInv'
<1>1. PICK content \in Content :
        /\ BeginCall(s, "create", NoReceipt, NoKey, "done", "created")
        /\ receipt' = [d \in DOMAIN receipt \cup {calls + 1} |->
                         IF d = calls + 1 THEN Draft(content, calls + 1) ELSE receipt[d]]
        /\ UNCHANGED <<streamVars, feed>>
  BY DEF CreateDraft
<1>2. calls + 1 \notin DOMAIN receipt
  BY CallsAssumption DEF ReceiptInv, TypeOK
<1>3. /\ DOMAIN receipt \subseteq DOMAIN receipt'
      /\ \A d \in DOMAIN receipt : receipt'[d] = receipt[d]
      /\ \A d \in DOMAIN receipt' \ DOMAIN receipt :
           receipt'[d].status = "DRAFT" /\ receipt'[d].key = NoKey
  BY <1>1, <1>2 DEF Draft
<1>4. /\ call'[s].op = "create" /\ call'[s].step = "done"
      /\ \A t \in Session \ {s} : call'[t] = call[t]
  <2> DEFINE seen == IF NoReceipt \in DOMAIN receipt THEN receipt[NoReceipt] ELSE NoSnapshot
             rec == [op |-> "create", step |-> "done", result |-> "created", n |-> calls + 1,
                     doc |-> NoReceipt, key |-> NoKey, seen |-> seen, locked |-> FALSE]
  <2>1. call'[s] = rec /\ \A t \in Session \ {s} : call'[t] = call[t]
    BY <1>1, BeginEffect DEF ReceiptInv
  <2> QED BY <2>1
<1>5. CallTold(s)'
  BY <1>4 DEF CallTold, SnapshotStands, AnswerStands, KeyReserved, Active, Writing
<1>6. UNCHANGED <<movements, feed>>
  BY <1>1 DEF streamVars
<1> QED BY <1>3, <1>4, <1>5, <1>6, QuietStep

(* What post and reverse decide on their snapshot is what the committed     *)
(* document answers.                                                        *)
LEMMA ReadLinesTells ==
  ASSUME ReceiptInv, PostingsInv, NEW s \in Session, ReadLines(s)
  PROVE  PostingsInv'
<1> DEFINE d == call[s].doc
           doc == [call[s].seen EXCEPT !.lines = receipt[d].lines, !.gen = receipt[d].gen]
           ans == IF call[s].op = "post" THEN PostAnswer(d, call[s].key, doc)
                                         ELSE ReverseAnswer(d, doc)
<1>1. /\ call \in [Session -> CallRecord] /\ call[s] \in CallRecord
      /\ call[s].step = "lines" /\ Active(s) /\ call[s].key \in DocKey
      /\ d \in DOMAIN receipt /\ call[s].seen \in ReceiptRecord
  BY DEF ReadLines, Active, ReceiptInv, TypeOK, CallOK
<1>2. doc.status = call[s].seen.status /\ doc.key = call[s].seen.key
  BY <1>1 DEF ReceiptRecord
<1>3. doc.status = "POSTED" => receipt[d].status # "DRAFT" /\ receipt[d].key = doc.key
  BY <1>1, <1>2 DEF PostingsInv, CallTold, SnapshotStands
<1>4. UNCHANGED <<movements, receipt, feed>>
  BY DEF ReadLines, streamVars
<1>5. CASE call' = [call EXCEPT ![s].step = "checked", ![s].seen = doc]
  <2> DEFINE rec == [call[s] EXCEPT !.step = "checked", !.seen = doc]
  <2>1. rec.step = "checked" /\ rec.seen = doc /\ rec.doc = d
    BY <1>1 DEF CallRecord
  <2>2. call'[s] = rec /\ \A t \in Session \ {s} : call'[t] = call[t]
    BY <1>1, <1>5
  <2>3. CallTold(s)'
    <3> HIDE DEF doc, rec
    <3> QED BY <1>3, <1>4, <2>1, <2>2
        DEF CallTold, SnapshotStands, AnswerStands, KeyReserved, Writing, Active
  <2> QED BY <1>4, <2>2, <2>3, QuietStep
<1>6. CASE Return(s, ans)
  <2>1. /\ call'[s].step = "done" /\ call'[s].result = ans
        /\ call'[s].op = call[s].op /\ call'[s].doc = d /\ call'[s].key = call[s].key
        /\ \A t \in Session \ {s} : call'[t] = call[t]
    BY <1>6, ReturnRecord DEF ReceiptInv
  <2>2. ASSUME call[s].op = "post", ans \in {"created", "duplicate"}
        PROVE  receipt[d].status # "DRAFT" /\ receipt[d].key = call[s].key
    BY <1>3, <2>2 DEF PostAnswer
  <2>3. ASSUME call[s].op = "post", ans = "conflict"
        PROVE  KeyHolders(call[s].key) # {}
    BY <1>1, <1>3, <2>3 DEF PostAnswer, KeyHolders
  <2>4. CallTold(s)'
    <3> HIDE DEF ans
    <3>1. SnapshotStands(s)' /\ KeyReserved(s)'
      BY <2>1 DEF SnapshotStands, KeyReserved, Writing, Active
    <3>2. AnswerStands(s)'
      BY <1>1, <1>4, <2>1, <2>2, <2>3 DEF AnswerStands, KeyHolders
    <3> QED BY <3>1, <3>2 DEF CallTold
  <2> QED BY <1>4, <2>1, <2>4, QuietStep
<1> QED BY <1>5, <1>6 DEF ReadLines

-----------------------------------------------------------------------------
(* Transactions *)

(* Taking the document's row tells nobody anything.                         *)
LEMMA LockTells ==
  ASSUME ReceiptInv, PostingsInv, NEW s \in Session, LockReceipt(s) \/ MarkReversed(s)
  PROVE  PostingsInv'
<1>1. UNCHANGED <<movements, receipt, feed>> /\ call[s].step = "checked"
  BY DEF LockReceipt, MarkReversed, streamVars
<1>2. CASE Return(s, "immutable")
  BY <1>1, <1>2, EndsQuietly
<1>3. ASSUME NEW locked \in BOOLEAN,
             call' = [call EXCEPT ![s].step = "key", ![s].locked = locked]
      PROVE  PostingsInv'
  <2> DEFINE rec == [call[s] EXCEPT !.step = "key", !.locked = locked]
  <2>1. call \in [Session -> CallRecord] /\ call[s] \in CallRecord /\ Active(s)
    BY <1>1 DEF ReceiptInv, TypeOK, Active
  <2>2. rec.step = "key" /\ rec.seen = call[s].seen /\ rec.doc = call[s].doc
    BY <2>1 DEF CallRecord
  <2>3. call'[s] = rec /\ \A t \in Session \ {s} : call'[t] = call[t]
    BY <1>3, <2>1
  <2> HIDE DEF rec
  <2>4. SnapshotStands(s)'
    BY <1>1, <2>1, <2>2, <2>3 DEF PostingsInv, CallTold, SnapshotStands, Active
  <2>5. AnswerStands(s)' /\ KeyReserved(s)'
    BY <2>2, <2>3 DEF AnswerStands, KeyReserved, Writing
  <2> QED BY <1>1, <2>3, <2>4, <2>5, QuietStep DEF CallTold
<1>4. CASE call' = [call EXCEPT ![s].step = "key", ![s].locked = TRUE]
  BY <1>3, <1>4
<1>5. CASE MarkReversed(s)
  <2>1. PICK locked \in BOOLEAN : locked = (receipt[call[s].doc].status = "POSTED")
    OBVIOUS
  <2>2. call' = [call EXCEPT ![s].step = "key", ![s].locked = locked]
    BY <1>5, <2>1 DEF MarkReversed
  <2> QED BY <1>3, <2>2
<1> QED BY <1>2, <1>4, <1>5 DEF LockReceipt

(* The unique index: a key is inserted when no one has it, committed or not. *)
LEMMA OpenTells ==
  ASSUME ReceiptInv, PostingsInv, NEW s \in Session, UNCHANGED <<movements, receipt, feed>>,
         call[s].step = "key", KeyFree(call[s].key), KeyHolders(call[s].key) = {},
         call' = [call EXCEPT ![s].step = "writing"]
  PROVE  PostingsInv'
<1> DEFINE rec == [call[s] EXCEPT !.step = "writing"]
<1>1. call \in [Session -> CallRecord] /\ call[s] \in CallRecord /\ Active(s)
  BY DEF ReceiptInv, TypeOK, Active
<1>2. /\ rec.step = "writing" /\ rec.seen = call[s].seen /\ rec.doc = call[s].doc
      /\ rec.key = call[s].key
  BY <1>1 DEF CallRecord
<1>3. call'[s] = rec /\ \A t \in Session \ {s} : call'[t] = call[t]
  BY <1>1
<1> HIDE DEF rec
<1>4. SnapshotStands(s)'
  BY <1>1, <1>2, <1>3 DEF PostingsInv, CallTold, SnapshotStands, Active
<1>5. AnswerStands(s)'
  BY <1>2, <1>3 DEF AnswerStands
<1>6. KeyReserved(s)'
  BY <1>2, <1>3 DEF KeyReserved, KeyFree, KeepsKey, KeyHolders, Writing
<1> QED BY <1>3, <1>4, <1>5, <1>6, QuietStep DEF CallTold

LEMMA WriteTells ==
  ASSUME ReceiptInv, PostingsInv, NEW s \in Session, PostWrite(s) \/ ReverseWrite(s)
  PROVE  PostingsInv'
<1>1. PICK M : WriteWithKey(s, M)
  BY DEF PostWrite, ReverseWrite
<1>2. UNCHANGED <<movements, receipt, feed>>
  BY <1>1 DEF WriteWithKey, InsertMovements, streamVars
<1>3. CASE Return(s, "error")
  BY <1>2, <1>3, EndsQuietly
<1>4. CASE /\ KeyHolders(call[s].key) = {}
           /\ call' = [call EXCEPT ![s].step = "writing"]
  BY <1>1, <1>2, <1>4, OpenTells DEF WriteWithKey
<1> QED BY <1>1, <1>3, <1>4 DEF WriteWithKey

LEMMA RollbackTells ==
  ASSUME ReceiptInv, PostingsInv, NEW s \in Session, Rollback(s) \/ RefuseUpdate(s)
  PROVE  PostingsInv'
<1>1. UNCHANGED <<movements, receipt, feed>> /\ Return(s, "error")
  BY DEF Rollback, RollbackMovements, RefuseUpdate, ledgerVars, streamVars
<1> QED BY <1>1, EndsQuietly

LEMMA UpdateTells ==
  ASSUME ReceiptInv, PostingsInv, NEW s \in Session, UpdateWrite(s)
  PROVE  PostingsInv'
<1> DEFINE d == call[s].doc
<1>1. d \in DOMAIN receipt /\ receipt[d] \in ReceiptRecord
  BY DEF ReceiptInv, TypeOK, CallOK, UpdateWrite, Active
<1>2. PICK content \in Content, withLines \in BOOLEAN :
        receipt' = [receipt EXCEPT ![d] = Updated(receipt[d], content, withLines, call[s].n)]
  BY DEF UpdateWrite
<1> DEFINE upd == Updated(receipt[d], content, withLines, call[s].n)
<1>3. upd.status = receipt[d].status /\ upd.key = receipt[d].key
  BY <1>1 DEF ReceiptRecord, Updated
<1>4. /\ DOMAIN receipt' = DOMAIN receipt
      /\ \A e \in DOMAIN receipt :
           receipt'[e].status = receipt[e].status /\ receipt'[e].key = receipt[e].key
  <2> HIDE DEF upd
  <2> QED BY <1>1, <1>2, <1>3 DEF upd
<1>5. UNCHANGED <<movements, feed>> /\ Return(s, "updated")
  BY DEF UpdateWrite, streamVars
<1> QED BY <1>4, <1>5, EndsQuietly

LEMMA StatementTells ==
  ASSUME ReceiptInv, PostingsInv, NEW s \in Session, StreamStatement(s)
  PROVE  PostingsInv'
<1>1. UNCHANGED <<receipt, call, feed, movements>>
  BY DEF StreamStatement, receiptVars, lockValuationStream, rebuildInventoryBalance
<1>2. CallTold(s)'
  BY <1>1 DEF PostingsInv, CallTold, SnapshotStands, AnswerStands, KeyReserved, KeyHolders,
              Active, Writing
<1> QED BY <1>1, <1>2, QuietStep

-----------------------------------------------------------------------------
(* A commit that puts a fresh key on a document: what every other call has   *)
(* been told still holds.                                                    *)
LEMMA OthersTold ==
  ASSUME ReceiptInv, PostingsInv, NEW s \in Session, Writing(s), NEW d,
         d \in DOMAIN receipt => receipt[d].status = "DRAFT",
         DOMAIN receipt' = DOMAIN receipt \cup {d},
         receipt'[d].key = call[s].key,
         \A e \in DOMAIN receipt \ {d} :
           /\ receipt'[e].key = receipt[e].key
           /\ receipt[e].status # "DRAFT" => receipt'[e].status # "DRAFT",
         call'[s].step = "done", NEW t \in Session \ {s}, call'[t] = call[t],
         \A u \in Session \ {s} : call'[u] = call[u]
  PROVE  CallTold(t)'
<1> USE DEF PostingsInv
<1>1. /\ CallTold(t) /\ (Writing(t)' <=> Writing(t)) /\ (Active(t)' <=> Active(t))
      /\ Active(t) => call[t].doc \in DOMAIN receipt
      /\ Writing(s)' <=> FALSE
  BY DEF Writing, Active, ReceiptInv, TypeOK, CallOK
<1>2. d \in DOMAIN receipt => receipt[d].key = NoKey
  BY DEF KeyOnPosting
<1>3. SnapshotStands(t)'
  BY <1>1 DEF CallTold, SnapshotStands
<1>4. AnswerStands(t)'
  <2>1. \A k \in DocKey : KeyHolders(k) \subseteq KeyHolders(k)'
    BY <1>2, NullAssumption DEF KeyHolders, DocKey
  <2> QED BY <1>1, <2>1 DEF CallTold, AnswerStands
<1>5. KeyReserved(t)'
  <2>1. ASSUME Writing(t) PROVE KeyHolders(call[t].key)' = {}
    <3>1. call[t].key # call[s].key /\ KeyHolders(call[t].key) = {}
      BY <1>1, <2>1 DEF CallTold, KeyReserved
    <3> QED BY <3>1 DEF KeyHolders
  <2> QED BY <1>1, <2>1 DEF CallTold, KeyReserved, Writing, KeyHolders
<1> QED BY <1>3, <1>4, <1>5 DEF CallTold

(* The facts a post publishes are those of the rows it commits; no earlier  *)
(* fact has its key, so none is left out.                                   *)
LEMMA PostCommitTells ==
  ASSUME ReceiptInv, PostingsInv, NEW s \in Session, PostCommit(s)
  PROVE  PostingsInv'
<1> USE DEF PostingsInv
<1>1. PICK d, seen, n, key : d = call[s].doc /\ seen = call[s].seen /\ n = call[s].n /\ key = call[s].key
  OBVIOUS
<1>2. /\ Writing(s) /\ Active(s) /\ receipt[d].status = "DRAFT"
      /\ inserted[s] = PostingRows(d, seen, n) /\ inserted[s] # {}
  BY <1>1 DEF PostCommit, ReceiptInv, CallsOK, WritingOK, Writing, Active,
              CommitMovements, InTransaction
<1>3. /\ d \in DOMAIN receipt /\ receipt[d] \in ReceiptRecord /\ key \in DocKey
      /\ MovementsOf(d) = {} /\ KeyHolders(key) = {}
  <2>1. call[s].step # "updating"
    BY <1>2 DEF Writing
  <2>2. MovementsOf(d) = {}
    BY <1>1, <1>2 DEF ReceiptInv, TypeOK, CallOK, DocumentsOK, PostedOnce
  <2>3. KeyHolders(key) = {}
    BY <1>1, <1>2 DEF CallTold, KeyReserved
  <2> QED BY <1>1, <1>2, <2>1, <2>2, <2>3 DEF ReceiptInv, TypeOK, CallOK
<1>4. PICK new : /\ receipt' = [receipt EXCEPT ![d] = new]
                 /\ new.status = "POSTED" /\ new.key = key
  <2> DEFINE rec == [receipt[d] EXCEPT !.status = "POSTED", !.key = key,
                                       !.fp = fingerprintFromDraft(d, seen)]
  <2>1. rec.status = "POSTED" /\ rec.key = key
    BY <1>3 DEF ReceiptRecord
  <2>2. receipt' = [receipt EXCEPT ![d] = rec]
    BY <1>1 DEF PostCommit
  <2> HIDE DEF rec
  <2> QED BY <2>1, <2>2
<1>5. /\ DOMAIN receipt' = DOMAIN receipt /\ receipt'[d] = new
      /\ \A e \in DOMAIN receipt \ {d} : receipt'[e] = receipt[e]
  BY <1>3, <1>4
<1>6. Return(s, "created") /\ movements' = movements \cup PostingRows(d, seen, n)
  BY <1>2 DEF PostCommit, CommitMovements
<1>7. /\ call'[s].step = "done" /\ call'[s].result = "created"
      /\ call'[s].op = call[s].op /\ call'[s].doc = d /\ call'[s].key = key
      /\ \A t \in Session \ {s} : call'[t] = call[t]
  BY <1>1, <1>6, ReturnRecord DEF ReceiptInv
<1>8. \A m \in Received : m.doc \in DOMAIN receipt /\ m.doc # d
  BY <1>3 DEF Received, MovementsOf, ReceiptInv, DocumentsOK
<1>9. feed' = feed \cup mirrorGoodsReceivedFacts(s)
  <2>1. \A g \in feed : g.key # key
    BY <1>3, <1>8 DEF FeedMirrorsReceipts, KeyHolders
  <2>2. \A f \in mirrorGoodsReceivedFacts(s) : f.key = key
    BY <1>1 DEF mirrorGoodsReceivedFacts
  <2> QED BY <2>1, <2>2 DEF PostCommit
<1> DEFINE fact(m) == [key |-> receipt'[m.doc].key, doc |-> m.doc, pos |-> m.pos,
                       line |-> m.line, item |-> m.item, quantity |-> m.quantity]
<1>10. feed = {fact(m) : m \in Received}
  BY <1>5, <1>8 DEF FeedMirrorsReceipts
<1>11. mirrorGoodsReceivedFacts(s) = {fact(m) : m \in PostingRows(d, seen, n)}
  <2> DEFINE told(i) == [key |-> key, doc |-> d, pos |-> seen.pos, line |-> <<seen.gen, i>>,
                         item |-> seen.lines[i].item, quantity |-> seen.lines[i].quantity]
             row(i) == Row("IN", d, seen.pos, seen.lines[i], <<seen.gen, i>>, <<n, i>>)
  <2>1. mirrorGoodsReceivedFacts(s) = {told(i) : i \in DOMAIN seen.lines}
    BY <1>1 DEF mirrorGoodsReceivedFacts
  <2>2. PostingRows(d, seen, n) = {row(i) : i \in DOMAIN seen.lines}
    BY DEF PostingRows
  <2>3. \A i : fact(row(i)) = told(i)
    <3>1. receipt'[d].key = key
      BY <1>4, <1>5
    <3> QED BY <3>1 DEF Row
  <2> HIDE DEF told, row, fact
  <2> QED BY <2>1, <2>2, <2>3
<1>12. Received' = Received \cup PostingRows(d, seen, n)
  BY <1>6 DEF Received, PostingRows, Row
<1>13. FeedMirrorsReceipts'
  BY <1>9, <1>10, <1>11, <1>12 DEF FeedMirrorsReceipts
<1>14. KeyOnPosting'
  <2>1. MovementsOf(d)' # {}
    BY <1>2, <1>6, RowsAreOwned DEF MovementsOf
  <2>2. \A e \in DOMAIN receipt : MovementsOf(e) \subseteq MovementsOf(e)'
    BY <1>6 DEF MovementsOf
  <2>3. d \in DOMAIN receipt' => MovementsOf(d)' # {}
    BY <2>1
  <2> QED BY <1>4, <1>5, <2>1, <2>2 DEF KeyOnPosting, MovementsOf
<1>15. CallTold(s)'
  <2>1. AnswerStands(s)'
    BY <1>3, <1>4, <1>5, <1>7 DEF AnswerStands
  <2> QED BY <1>7, <2>1 DEF CallTold, SnapshotStands, KeyReserved, Active, Writing
<1>16. \A t \in Session \ {s} : CallTold(t)'
  <2>1. DOMAIN receipt' = DOMAIN receipt \cup {d}
    BY <1>3, <1>5
  <2> QED BY <1>1, <1>2, <1>4, <1>5, <1>7, <2>1, OthersTold
<1> QED BY <1>13, <1>14, <1>15, <1>16

(* A reversal issues stock and leaves the feed of receipts alone.           *)
LEMMA ReverseCommitTells ==
  ASSUME ReceiptInv, PostingsInv, NEW s \in Session, ReverseCommit(s)
  PROVE  PostingsInv'
<1> USE DEF PostingsInv
<1>1. PICK c, n : c = call[s] /\ n = c.n
  OBVIOUS
<1>2. /\ Writing(s) /\ Active(s) /\ n \notin DOMAIN receipt
      /\ inserted[s] = ReversalRows(c.seen, n) /\ inserted[s] # {}
      /\ c.locked => receipt[c.doc].status = "POSTED"
      /\ c.op = "reverse"
  BY <1>1 DEF ReverseCommit, ReceiptInv, CallsOK, WritingOK, IdsAreFresh, Writing, Active,
              CommitMovements, InTransaction
<1>3. /\ c.doc \in DOMAIN receipt /\ receipt[c.doc] \in ReceiptRecord
  BY <1>1, <1>2 DEF ReceiptInv, TypeOK, CallOK
<1>4. /\ DOMAIN receipt' = DOMAIN receipt \cup {n}
      /\ receipt'[n].status = "POSTED" /\ receipt'[n].key = c.key
      /\ \A e \in DOMAIN receipt :
           /\ receipt'[e].key = receipt[e].key
           /\ receipt'[e].status = "DRAFT" <=> receipt[e].status = "DRAFT"
  <2>1. receipt' = [d \in DOMAIN receipt \cup {n} |->
                   IF d = n THEN ReverseDocument(c)
                   ELSE IF d = c.doc /\ c.locked THEN [receipt[d] EXCEPT !.status = "REVERSED"]
                   ELSE receipt[d]]
    BY <1>1 DEF ReverseCommit
  <2>2. ReverseDocument(c).status = "POSTED" /\ ReverseDocument(c).key = c.key
    BY DEF ReverseDocument
  <2> DEFINE upd == [receipt[c.doc] EXCEPT !.status = "REVERSED"]
  <2>3. upd.key = receipt[c.doc].key /\ upd.status = "REVERSED"
    BY <1>3 DEF ReceiptRecord
  <2> HIDE DEF upd
  <2> QED BY <1>2, <1>3, <2>1, <2>2, <2>3 DEF upd
<1>5. Return(s, "created") /\ movements' = movements \cup ReversalRows(c.seen, n)
      /\ UNCHANGED feed
  BY <1>2 DEF ReverseCommit, CommitMovements
<1>6. /\ call'[s].step = "done" /\ call'[s].op = c.op
      /\ \A t \in Session \ {s} : call'[t] = call[t]
  BY <1>1, <1>5, ReturnRecord DEF ReceiptInv
<1>7. FeedMirrorsReceipts'
  <2>1. Received' = Received
    BY <1>5 DEF Received, ReversalRows, Row
  <2>2. \A m \in Received : receipt'[m.doc].key = receipt[m.doc].key
    BY <1>4 DEF Received, ReceiptInv, DocumentsOK
  <2> QED BY <1>5, <2>1, <2>2 DEF FeedMirrorsReceipts
<1>8. KeyOnPosting'
  <2>1. \E m \in movements' : m.doc = n
    BY <1>2, <1>5, RowsAreOwned
  <2>2. \A e \in DOMAIN receipt : MovementsOf(e) \subseteq MovementsOf(e)'
    BY <1>5 DEF MovementsOf
  <2> QED BY <1>2, <1>4, <2>1, <2>2 DEF KeyOnPosting, MovementsOf
<1>9. CallTold(s)'
  BY <1>2, <1>6 DEF CallTold, AnswerStands, SnapshotStands, KeyReserved, Active, Writing
<1>10. \A t \in Session \ {s} : CallTold(t)'
  BY <1>1, <1>2, <1>4, <1>6, OthersTold
<1> QED BY <1>7, <1>8, <1>9, <1>10

LEMMA PostingsInductive == ReceiptInv /\ PostingsInv /\ [Next]_vars => PostingsInv'
<1> SUFFICES ASSUME ReceiptInv, PostingsInv, [Next]_vars PROVE PostingsInv'
  OBVIOUS
<1>1. CASE UNCHANGED vars
  <2>1. UNCHANGED <<movements, receipt, call, feed>>
    BY <1>1 DEF vars, streamVars, receiptVars
  <2> QED BY <2>1 DEF PostingsInv, FeedMirrorsReceipts, Received, KeyOnPosting, MovementsOf,
          CallTold, SnapshotStands, AnswerStands, KeyReserved, KeyHolders, Active, Writing
<1>2. ASSUME NEW s \in Session, CreateDraft(s) PROVE PostingsInv'
  BY <1>2, CreateTells
<1>3. ASSUME NEW s \in Session, StartPost(s) \/ StartReverse(s) \/ StartUpdate(s)
      PROVE  PostingsInv'
  BY <1>3, StartTells
<1>4. ASSUME NEW s \in Session, CallStep(s) PROVE PostingsInv'
  BY <1>4, ReadLinesTells, LockTells, WriteTells, PostCommitTells, ReverseCommitTells, UpdateTells,
     StatementTells DEF CallStep
<1>5. ASSUME NEW s \in Session, RefuseUpdate(s) \/ Rollback(s) PROVE PostingsInv'
  BY <1>5, RollbackTells
<1> QED BY <1>1, <1>2, <1>3, <1>4, <1>5 DEF Next

(* One GoodsReceived fact per received line and none without its movement,  *)
(* whatever calls raced, failed or were repeated.                           *)
THEOREM FeedTellsReceipts == Spec => []FeedMirrorsReceipts
<1>1. Init => StreamInv /\ ReceiptInv /\ PostingsInv
  BY StreamInvInit, ReceiptInvInit, PostingsInvInit DEF Init
<1>2. PostingsInv => FeedMirrorsReceipts
  BY DEF PostingsInv
<1> QED BY <1>1, <1>2, ReceiptsInductive, PostingsInductive, PTL DEF Spec

(* An answer that names a posting stays true: a receipt reported posted has *)
(* the key and the movements, a key reported taken has its document.        *)
THEOREM PostAnswersHold == Spec => []PostAnswersAreTrue
<1>1. Init => StreamInv /\ ReceiptInv /\ PostingsInv
  BY StreamInvInit, ReceiptInvInit, PostingsInvInit DEF Init
<1>2. PostingsInv => PostAnswersAreTrue
  BY DEF PostingsInv, CallTold, AnswerStands, KeyOnPosting, PostAnswersAreTrue
<1> QED BY <1>1, <1>2, ReceiptsInductive, PostingsInductive, PTL DEF Spec

-----------------------------------------------------------------------------
(* One call at a time.  Interleaved calls break the properties below, as the *)
(* runs StalePosting and DoubleReversal show; sessions whose calls do not    *)
(* overlap, however many they are, keep them.                                *)

OneCallAtATime == \A s, t \in Session : Active(s) /\ Active(t) => s = t

\* A posted receipt shows what was posted; a reverse document shows its original.
Faithful(d) ==
  LET doc == receipt[d] IN
  doc.status # "DRAFT" =>
    IF doc.reverses = NoReceipt
    THEN /\ doc.fp = fingerprintFromDraft(d, doc)
         /\ \E n \in ReceiptId : MovementsOf(d) = PostingRows(d, doc, n)
    ELSE /\ doc.reverses \in DOMAIN receipt /\ doc.key[1] = "reverse"
         /\ LET original == receipt[doc.reverses] IN
            original.status = "REVERSED" /\ original.pos = doc.pos /\ original.lines = doc.lines

KeysUnique ==
  \A d, e \in DOMAIN receipt :
    receipt[d].status # "DRAFT" /\ receipt[e].status # "DRAFT" /\ receipt[d].key = receipt[e].key
      => d = e

\* What a call in progress has seen and decided is still so.
Undisturbed(s) ==
  LET c == call[s] IN
  Active(s) =>
    /\ c.seen = receipt[c.doc]
    /\ c.step = "updating" => c.op = "update" /\ receipt[c.doc].status = "DRAFT"
    /\ c.op = "post" => c.key[1] = "post"
    /\ c.op = "reverse" => c.key[1] = "reverse"
    /\ c.step \in {"checked", "key", "writing"} /\ c.op = "post" =>
         receipt[c.doc].status = "DRAFT"
    /\ c.step \in {"checked", "key", "writing"} /\ c.op = "reverse" =>
         receipt[c.doc].status = "POSTED" /\ (c.step # "checked" => c.locked)

\* Why a post was refused is still so.
RefusalStands(s) ==
  LET c == call[s] IN
  c.op = "post" /\ c.step = "done" =>
    /\ c.doc \in DOMAIN receipt
    /\ c.result \in {"created", "duplicate", "conflict", "immutable", "invalid", "error"}
    /\ c.result = "immutable" =>
         receipt[c.doc].status # "DRAFT" /\ receipt[c.doc].key # c.key
    /\ c.result = "invalid" => receipt[c.doc].status = "REVERSED"
    /\ c.result = "conflict" =>
         \E e \in DOMAIN receipt \ {c.doc} : receipt[e].status # "DRAFT" /\ receipt[e].key = c.key

SerialInv ==
  /\ \A d \in DOMAIN receipt : Faithful(d)
  /\ KeysUnique
  /\ ReversedAtMostOnce
  /\ \A s \in Session : Undisturbed(s) /\ RefusalStands(s)

LEMMA SerialInvInit == Init => SerialInv
<1> SUFFICES ASSUME Init PROVE SerialInv
  OBVIOUS
<1>1. DOMAIN receipt = {} /\ \A s \in Session : call[s] = NoCall
  BY DEF Init
<1>2. \A s \in Session : ~Active(s) /\ call[s].op = "none"
  BY <1>1 DEF Active, NoCall
<1>3. \A s \in Session : Undisturbed(s) /\ RefusalStands(s)
  BY <1>2 DEF Undisturbed, RefusalStands
<1> QED BY <1>1, <1>3 DEF SerialInv, KeysUnique, ReversedAtMostOnce

(* Steps that change drafts at most, and none that another call looks at.   *)
LEMMA SerialQuiet ==
  ASSUME ReceiptInv, SerialInv, NEW s \in Session, UNCHANGED movements,
         DOMAIN receipt \subseteq DOMAIN receipt',
         \A d \in DOMAIN receipt :
           IF receipt[d].status = "DRAFT"
           THEN receipt'[d].status = "DRAFT" /\ receipt'[d].reverses = NoReceipt
           ELSE receipt'[d] = receipt[d],
         \A d \in DOMAIN receipt' \ DOMAIN receipt :
           receipt'[d].status = "DRAFT" /\ receipt'[d].reverses = NoReceipt,
         \A t \in Session \ {s} :
           call'[t] = call[t] /\ (Active(t) => receipt'[call[t].doc] = receipt[call[t].doc]),
         Undisturbed(s)', RefusalStands(s)'
  PROVE  SerialInv'
<1> USE DEF SerialInv
<1>1. \A d \in DOMAIN receipt' : receipt'[d].status # "DRAFT" =>
        d \in DOMAIN receipt /\ receipt'[d] = receipt[d]
  OBVIOUS
<1>2. ASSUME NEW d \in DOMAIN receipt' PROVE Faithful(d)'
  <2> SUFFICES ASSUME receipt'[d].status # "DRAFT" PROVE Faithful(d)'
    BY DEF Faithful
  <2>1. /\ d \in DOMAIN receipt /\ receipt'[d] = receipt[d] /\ Faithful(d)
        /\ MovementsOf(d)' = MovementsOf(d)
    BY <1>1 DEF MovementsOf
  <2> QED BY <2>1 DEF Faithful
<1>3. KeysUnique'
  BY <1>1 DEF KeysUnique
<1>4. ReversedAtMostOnce'
  <2>1. \A d \in DOMAIN receipt' : receipt'[d].reverses # NoReceipt =>
          d \in DOMAIN receipt /\ receipt'[d] = receipt[d]
    OBVIOUS
  <2> QED BY <2>1 DEF ReversedAtMostOnce
<1>5. ASSUME NEW t \in Session \ {s} PROVE Undisturbed(t)' /\ RefusalStands(t)'
  <2>1. /\ call'[t] = call[t] /\ Undisturbed(t) /\ RefusalStands(t)
        /\ (Active(t)' <=> Active(t)) /\ (Writing(t)' <=> Writing(t))
    BY <1>5 DEF Active, Writing
  <2>2. Undisturbed(t)'
    BY <2>1 DEF Undisturbed
  <2>3. RefusalStands(t)'
    BY <2>1 DEF RefusalStands
  <2> QED BY <2>2, <2>3
<1> QED BY <1>2, <1>3, <1>4, <1>5

(* A step that leaves the documents alone.                                  *)
LEMMA SerialSameReceipts ==
  ASSUME ReceiptInv, SerialInv, NEW s \in Session, UNCHANGED <<movements, receipt>>,
         \A t \in Session \ {s} : call'[t] = call[t],
         Undisturbed(s)', RefusalStands(s)'
  PROVE  SerialInv'
<1>1. \A d \in DOMAIN receipt : receipt[d].status = "DRAFT" => receipt[d].reverses = NoReceipt
  BY DEF ReceiptInv, DocumentsOK
<1> QED BY <1>1, SerialQuiet

LEMMA SerialEnds ==
  ASSUME ReceiptInv, SerialInv, NEW s \in Session, UNCHANGED <<movements, receipt>>,
         NEW result, Return(s, result),
         call[s].op = "post" =>
           /\ call[s].doc \in DOMAIN receipt
           /\ \/ result = "error"
              \/ result = "duplicate"
              \/ result = "immutable" /\ receipt[call[s].doc].status # "DRAFT"
                   /\ receipt[call[s].doc].key # call[s].key
              \/ result = "invalid" /\ receipt[call[s].doc].status = "REVERSED"
              \/ result = "conflict" /\ \E e \in DOMAIN receipt \ {call[s].doc} :
                   receipt[e].status # "DRAFT" /\ receipt[e].key = call[s].key
  PROVE  SerialInv'
<1>1. /\ call'[s].step = "done" /\ call'[s].result = result
      /\ call'[s].op = call[s].op /\ call'[s].doc = call[s].doc /\ call'[s].key = call[s].key
      /\ \A t \in Session \ {s} : call'[t] = call[t]
  BY ReturnRecord DEF ReceiptInv
<1>2. Undisturbed(s)'
  BY <1>1 DEF Undisturbed, Active
<1>3. RefusalStands(s)'
  BY <1>1 DEF RefusalStands
<1> QED BY <1>1, <1>2, <1>3, SerialSameReceipts

LEMMA SerialCreate ==
  ASSUME ReceiptInv, SerialInv, NEW s \in Session, CreateDraft(s)
  PROVE  SerialInv'
<1>1. PICK content \in Content :
        /\ BeginCall(s, "create", NoReceipt, NoKey, "done", "created")
        /\ receipt' = [d \in DOMAIN receipt \cup {calls + 1} |->
                         IF d = calls + 1 THEN Draft(content, calls + 1) ELSE receipt[d]]
        /\ UNCHANGED <<streamVars, feed>>
  BY DEF CreateDraft
<1>2. calls + 1 \notin DOMAIN receipt
  BY CallsAssumption DEF ReceiptInv, TypeOK
<1>3. /\ DOMAIN receipt \subseteq DOMAIN receipt'
      /\ \A d \in DOMAIN receipt : receipt'[d] = receipt[d]
      /\ \A d \in DOMAIN receipt' \ DOMAIN receipt :
           receipt'[d].status = "DRAFT" /\ receipt'[d].reverses = NoReceipt
  BY <1>1, <1>2 DEF Draft
<1>4. /\ call'[s].op = "create" /\ call'[s].step = "done"
      /\ \A t \in Session \ {s} : call'[t] = call[t]
  <2> DEFINE seen == IF NoReceipt \in DOMAIN receipt THEN receipt[NoReceipt] ELSE NoSnapshot
             rec == [op |-> "create", step |-> "done", result |-> "created", n |-> calls + 1,
                     doc |-> NoReceipt, key |-> NoKey, seen |-> seen, locked |-> FALSE]
  <2>1. call'[s] = rec /\ \A t \in Session \ {s} : call'[t] = call[t]
    BY <1>1, BeginEffect DEF ReceiptInv
  <2> QED BY <2>1
<1>5. Undisturbed(s)' /\ RefusalStands(s)'
  BY <1>4 DEF Undisturbed, RefusalStands, Active
<1>6. UNCHANGED movements
  BY <1>1 DEF streamVars
<1>7. \A t \in Session : Active(t) => call[t].doc \in DOMAIN receipt
  BY DEF ReceiptInv, TypeOK, CallOK
<1>8. \A d \in DOMAIN receipt : receipt[d].status = "DRAFT" => receipt[d].reverses = NoReceipt
  BY DEF ReceiptInv, DocumentsOK
<1> QED BY <1>3, <1>4, <1>5, <1>6, <1>7, <1>8, SerialQuiet

LEMMA SerialStart ==
  ASSUME ReceiptInv, SerialInv, NEW s \in Session,
         StartPost(s) \/ StartReverse(s) \/ StartUpdate(s)
  PROVE  SerialInv'
<1>1. PICK d \in DOMAIN receipt, k \in DocKey \cup {NoKey}, op \in {"post", "reverse", "update"},
           step \in {"done", "lines", "updating"}, result \in {"none", "immutable"} :
        /\ BeginCall(s, op, d, k, step, result)
        /\ step = "done" => op = "update"
        /\ step = "updating" => op = "update" /\ receipt[d].status = "DRAFT"
        /\ op = "post" => k[1] = "post"
        /\ op = "reverse" => k[1] = "reverse"
        /\ UNCHANGED <<streamVars, receipt, feed>>
  <2>1. \A k \in Key : /\ PostKey(k) \in DocKey /\ ReverseKey(k) \in DocKey
                       /\ PostKey(k)[1] = "post" /\ ReverseKey(k)[1] = "reverse"
    BY DEF PostKey, ReverseKey, DocKey
  <2>2. CASE StartPost(s)
    BY <2>1, <2>2 DEF StartPost
  <2>3. CASE StartReverse(s)
    BY <2>1, <2>3 DEF StartReverse
  <2>4. CASE StartUpdate(s)
    BY <2>4 DEF StartUpdate
  <2> QED BY <2>2, <2>3, <2>4
<1>2. /\ call'[s].op = op /\ call'[s].step = step /\ call'[s].doc = d /\ call'[s].key = k
      /\ call'[s].seen = receipt[d]
      /\ \A t \in Session \ {s} : call'[t] = call[t]
  <2> DEFINE rec == [op |-> op, step |-> step, result |-> result, n |-> calls + 1,
                     doc |-> d, key |-> k, seen |-> receipt[d], locked |-> FALSE]
  <2>1. call'[s] = rec /\ \A t \in Session \ {s} : call'[t] = call[t]
    BY <1>1, BeginEffect DEF ReceiptInv
  <2> QED BY <2>1
<1>3. UNCHANGED <<movements, receipt>>
  BY <1>1 DEF streamVars
<1>4. Undisturbed(s)'
  BY <1>1, <1>2, <1>3 DEF Undisturbed
<1>5. RefusalStands(s)'
  BY <1>1, <1>2 DEF RefusalStands
<1> QED BY <1>2, <1>3, <1>4, <1>5, SerialSameReceipts

(* Undisturbed, the two queries of get() return the committed document, and *)
(* a posting with the key and other semantics is that of another document.  *)
LEMMA SerialReadLines ==
  ASSUME ReceiptInv, PostingsInv, SerialInv, NEW s \in Session, ReadLines(s)
  PROVE  SerialInv'
<1> DEFINE d == call[s].doc
           doc == [call[s].seen EXCEPT !.lines = receipt[d].lines, !.gen = receipt[d].gen]
           ans == IF call[s].op = "post" THEN PostAnswer(d, call[s].key, doc)
                                         ELSE ReverseAnswer(d, doc)
<1>1. /\ call \in [Session -> CallRecord] /\ call[s] \in CallRecord
      /\ call[s].step = "lines" /\ Active(s) /\ call[s].key \in DocKey
      /\ d \in DOMAIN receipt /\ receipt[d] \in ReceiptRecord
  BY DEF ReadLines, Active, ReceiptInv, TypeOK, CallOK
<1>2. /\ call[s].seen = receipt[d]
      /\ call[s].op = "post" => call[s].key[1] = "post"
      /\ call[s].op = "reverse" => call[s].key[1] = "reverse"
  BY <1>1 DEF SerialInv, Undisturbed
<1>3. doc = receipt[d]
  BY <1>1, <1>2 DEF ReceiptRecord
<1> HIDE DEF doc
<1>4. UNCHANGED <<movements, receipt>>
  BY DEF ReadLines, streamVars
<1>5. CASE ans = "open" /\ call' = [call EXCEPT ![s].step = "checked", ![s].seen = doc]
  <2> DEFINE rec == [call[s] EXCEPT !.step = "checked", !.seen = doc]
  <2>1. /\ rec.step = "checked" /\ rec.seen = doc /\ rec.doc = d /\ rec.op = call[s].op
        /\ rec.key = call[s].key
    BY <1>1 DEF CallRecord
  <2>2. call'[s] = rec /\ \A t \in Session \ {s} : call'[t] = call[t]
    BY <1>1, <1>5
  <2>3. call[s].op = "post" => receipt[d].status = "DRAFT"
    BY <1>3, <1>5 DEF PostAnswer
  <2>4. call[s].op = "reverse" => receipt[d].status = "POSTED"
    BY <1>3, <1>5 DEF ReverseAnswer
  <2> HIDE DEF rec
  <2>5. Undisturbed(s)'
    BY <1>2, <1>3, <1>4, <2>1, <2>2, <2>3, <2>4 DEF Undisturbed, Writing
  <2>6. RefusalStands(s)'
    BY <2>1, <2>2 DEF RefusalStands
  <2> QED BY <1>4, <2>2, <2>5, <2>6, SerialSameReceipts
<1>6. CASE ans # "open" /\ Return(s, ans)
  <2>1. ASSUME call[s].op = "post", ans = "conflict"
        PROVE  \E e \in DOMAIN receipt \ {d} :
                 receipt[e].status # "DRAFT" /\ receipt[e].key = call[s].key
    <3>1. CASE receipt[d].status = "POSTED" /\ receipt[d].key = call[s].key
      <4>1. Faithful(d) /\ receipt[d].key[1] # "reverse"
        BY <1>1, <1>2, <2>1, <3>1 DEF SerialInv
      <4>2. receipt[d].fp = fingerprintFromDraft(d, receipt[d])
        BY <3>1, <4>1 DEF Faithful
      <4> QED BY <1>3, <2>1, <3>1, <4>2 DEF PostAnswer
    <3>2. CASE KeyHolders(call[s].key) \ {d} # {}
      <4>1. PICK e \in DOMAIN receipt \ {d} : receipt[e].key = call[s].key
        BY <3>2 DEF KeyHolders
      <4>2. receipt[e].status # "DRAFT"
        BY <1>1, <4>1, NullAssumption DEF PostingsInv, KeyOnPosting, DocKey
      <4> QED BY <4>1, <4>2
    <3> QED BY <1>3, <2>1, <3>1, <3>2 DEF PostAnswer
  <2>2. ASSUME call[s].op = "post", ans = "immutable"
        PROVE  receipt[d].status # "DRAFT" /\ receipt[d].key # call[s].key
    BY <1>3, <2>2 DEF PostAnswer
  <2>3. ASSUME call[s].op = "post", ans = "invalid" PROVE receipt[d].status = "REVERSED"
    BY <1>1, <1>3, <2>3 DEF PostAnswer, ReceiptRecord
  <2>4. call[s].op = "post" => ans \in {"duplicate", "conflict", "immutable", "invalid"}
    BY <1>6 DEF PostAnswer
  <2> HIDE DEF ans
  <2> QED BY <1>1, <1>4, <1>6, <2>1, <2>2, <2>3, <2>4, SerialEnds
<1> QED BY <1>5, <1>6 DEF ReadLines, doc

(* A call that moves on to its key or its rows, with the row in hand.       *)
LEMMA SerialMovesOn ==
  ASSUME ReceiptInv, SerialInv, NEW s \in Session, UNCHANGED <<movements, receipt>>,
         NEW rec, call'[s] = rec, \A t \in Session \ {s} : call'[t] = call[t],
         call[s].step \in {"checked", "key"}, rec.step \in {"key", "writing"},
         rec.op = call[s].op, rec.doc = call[s].doc, rec.key = call[s].key,
         rec.seen = call[s].seen, call[s].op = "reverse" => rec.locked
  PROVE  SerialInv'
<1>1. Undisturbed(s) /\ Active(s)
  BY DEF SerialInv, Active
<1>2. Undisturbed(s)'
  BY <1>1 DEF Undisturbed
<1>3. RefusalStands(s)'
  BY DEF RefusalStands
<1> QED BY <1>2, <1>3, SerialSameReceipts

(* What was decided outside the transaction is still true inside it.        *)
LEMMA SerialLock ==
  ASSUME ReceiptInv, SerialInv, NEW s \in Session, LockReceipt(s) \/ MarkReversed(s)
  PROVE  SerialInv'
<1> DEFINE c == call[s]
           matched == receipt[c.doc].status = "POSTED"
<1>1. /\ UNCHANGED <<movements, receipt>> /\ c.step = "checked" /\ Active(s)
      /\ call \in [Session -> CallRecord] /\ c \in CallRecord
  BY DEF LockReceipt, MarkReversed, streamVars, Active, ReceiptInv, TypeOK
<1>2. /\ c.op = "post" => receipt[c.doc].status = "DRAFT"
      /\ c.op = "reverse" => matched
  BY <1>1 DEF SerialInv, Undisturbed
<1>3. call' = [call EXCEPT ![s].step = "key", ![s].locked = TRUE]
  <2>1. CASE LockReceipt(s)
    BY <1>2, <2>1 DEF LockReceipt
  <2>2. CASE MarkReversed(s)
    <3>1. matched = TRUE /\ call' = [call EXCEPT ![s].step = "key", ![s].locked = matched]
      BY <1>2, <2>2 DEF MarkReversed
    <3> HIDE DEF matched
    <3> QED BY <3>1
  <2> QED BY <2>1, <2>2
<1> DEFINE rec == [c EXCEPT !.step = "key", !.locked = TRUE]
<1>4. /\ rec.step = "key" /\ rec.locked = TRUE /\ rec.seen = c.seen /\ rec.doc = c.doc
      /\ rec.op = c.op /\ rec.key = c.key
  BY <1>1 DEF CallRecord
<1>5. call'[s] = rec /\ \A t \in Session \ {s} : call'[t] = call[t]
  BY <1>1, <1>3
<1> HIDE DEF rec
<1> QED BY <1>1, <1>4, <1>5, SerialMovesOn

LEMMA SerialWrite ==
  ASSUME ReceiptInv, SerialInv, NEW s \in Session, PostWrite(s) \/ ReverseWrite(s)
  PROVE  SerialInv'
<1> DEFINE c == call[s]
<1>1. /\ UNCHANGED <<movements, receipt>> /\ c.step = "key" /\ Active(s)
      /\ call \in [Session -> CallRecord] /\ c \in CallRecord
      /\ c.doc \in DOMAIN receipt
      /\ Return(s, "error") \/ call' = [call EXCEPT ![s].step = "writing"]
  BY DEF PostWrite, ReverseWrite, WriteWithKey, InsertMovements, streamVars, Active,
         ReceiptInv, TypeOK, CallOK
<1>2. CASE Return(s, "error")
  BY <1>1, <1>2, SerialEnds
<1>3. CASE call' = [call EXCEPT ![s].step = "writing"]
  <2> DEFINE rec == [c EXCEPT !.step = "writing"]
  <2>1. /\ rec.step = "writing" /\ rec.locked = c.locked /\ rec.seen = c.seen
        /\ rec.doc = c.doc /\ rec.op = c.op /\ rec.key = c.key
    BY <1>1 DEF CallRecord
  <2>2. call'[s] = rec /\ \A t \in Session \ {s} : call'[t] = call[t]
    BY <1>1, <1>3
  <2>3. c.op = "reverse" => c.locked
    BY <1>1 DEF SerialInv, Undisturbed
  <2> HIDE DEF rec
  <2> QED BY <1>1, <2>1, <2>2, <2>3, SerialMovesOn
<1> QED BY <1>1, <1>2, <1>3

LEMMA SerialRollback ==
  ASSUME ReceiptInv, SerialInv, NEW s \in Session, Rollback(s) \/ RefuseUpdate(s)
  PROVE  SerialInv'
<1>1. /\ UNCHANGED <<movements, receipt>> /\ Return(s, "error")
      /\ call[s].doc \in DOMAIN receipt
  BY DEF Rollback, RollbackMovements, RefuseUpdate, ledgerVars, streamVars, Writing, Active,
         ReceiptInv, TypeOK, CallOK
<1> QED BY <1>1, SerialEnds

LEMMA SerialStatement ==
  ASSUME ReceiptInv, SerialInv, NEW s \in Session, StreamStatement(s)
  PROVE  SerialInv'
<1>1. UNCHANGED <<receipt, call, movements>>
  BY DEF StreamStatement, receiptVars, lockValuationStream, rebuildInventoryBalance
<1>2. Undisturbed(s)' /\ RefusalStands(s)'
  BY <1>1 DEF SerialInv, Undisturbed, RefusalStands, Active, Writing
<1> QED BY <1>1, <1>2, SerialSameReceipts

(* updateDraft meets the draft it looked at, so it changes nothing posted.  *)
LEMMA SerialUpdate ==
  ASSUME ReceiptInv, SerialInv, OneCallAtATime, NEW s \in Session, UpdateWrite(s)
  PROVE  /\ SerialInv'
         /\ \A d \in DOMAIN receipt : receipt[d].status # "DRAFT" => receipt'[d] = receipt[d]
<1> DEFINE d == call[s].doc
<1>1. /\ d \in DOMAIN receipt /\ receipt[d] \in ReceiptRecord
      /\ call[s].step = "updating" /\ Active(s)
  BY DEF ReceiptInv, TypeOK, CallOK, UpdateWrite, Active
<1>2. receipt[d].status = "DRAFT" /\ receipt[d].reverses = NoReceipt /\ call[s].op = "update"
  BY <1>1 DEF SerialInv, Undisturbed, ReceiptInv, DocumentsOK
<1>3. PICK content \in Content, withLines \in BOOLEAN :
        receipt' = [receipt EXCEPT ![d] = Updated(receipt[d], content, withLines, call[s].n)]
  BY DEF UpdateWrite
<1> DEFINE upd == Updated(receipt[d], content, withLines, call[s].n)
<1>4. upd.status = "DRAFT" /\ upd.reverses = NoReceipt
  BY <1>1, <1>2 DEF ReceiptRecord, Updated
<1>5. /\ DOMAIN receipt' = DOMAIN receipt
      /\ receipt'[d] = upd
      /\ \A e \in DOMAIN receipt \ {d} : receipt'[e] = receipt[e]
  BY <1>1, <1>3
<1> HIDE DEF upd
<1>6. UNCHANGED movements /\ Return(s, "updated")
  BY DEF UpdateWrite, streamVars
<1>7. /\ call'[s].step = "done" /\ call'[s].op = "update"
      /\ \A t \in Session \ {s} : call'[t] = call[t]
  BY <1>2, <1>6, ReturnRecord DEF ReceiptInv
<1>8. \A t \in Session \ {s} : ~Active(t)
  BY <1>1 DEF OneCallAtATime
<1>9. Undisturbed(s)' /\ RefusalStands(s)'
  BY <1>7 DEF Undisturbed, RefusalStands, Active
<1>10. \A e \in DOMAIN receipt :
         IF receipt[e].status = "DRAFT"
         THEN receipt'[e].status = "DRAFT" /\ receipt'[e].reverses = NoReceipt
         ELSE receipt'[e] = receipt[e]
  BY <1>2, <1>4, <1>5 DEF ReceiptInv, DocumentsOK
<1>11. SerialInv'
  BY <1>5, <1>6, <1>7, <1>8, <1>9, <1>10, SerialQuiet
<1> QED BY <1>10, <1>11

(* The commit of a post: the document shows what was seen, and the rows of  *)
(* it are the ones inserted.                                                *)
LEMMA SerialPostCommit ==
  ASSUME ReceiptInv, PostingsInv, SerialInv, OneCallAtATime, NEW s \in Session, PostCommit(s)
  PROVE  /\ SerialInv'
         /\ \A d \in DOMAIN receipt : receipt[d].status # "DRAFT" => receipt'[d] = receipt[d]
<1> USE DEF SerialInv
<1>1. PICK d, seen, n, key : d = call[s].doc /\ seen = call[s].seen /\ n = call[s].n /\ key = call[s].key
  OBVIOUS
<1>2. /\ Writing(s) /\ Active(s) /\ call[s].op = "post" /\ receipt[d].status = "DRAFT"
      /\ inserted[s] = PostingRows(d, seen, n) /\ seen = receipt[d] /\ key[1] = "post"
  <2>1. Writing(s) /\ Active(s) /\ call[s].op = "post"
    BY DEF PostCommit, Writing, Active
  <2> QED BY <1>1, <2>1 DEF ReceiptInv, CallsOK, WritingOK, Undisturbed
<1>3. /\ d \in DOMAIN receipt /\ receipt[d] \in ReceiptRecord /\ n \in ReceiptId
      /\ receipt[d].reverses = NoReceipt /\ MovementsOf(d) = {} /\ KeyHolders(key) = {}
  <2>1. KeyHolders(key) = {}
    BY <1>1, <1>2 DEF PostingsInv, CallTold, KeyReserved
  <2>2. d \in DOMAIN receipt /\ n \in 1..calls
    BY <1>1, <1>2 DEF ReceiptInv, TypeOK, CallOK
  <2>3. MovementsOf(d) = {} /\ receipt[d].reverses = NoReceipt
    BY <1>2, <2>2 DEF ReceiptInv, DocumentsOK, PostedOnce
  <2> QED BY <2>1, <2>2, <2>3, CallsAssumption DEF ReceiptInv, TypeOK, ReceiptId
<1>4. PICK new : /\ receipt' = [receipt EXCEPT ![d] = new]
                 /\ new.status = "POSTED" /\ new.key = key /\ new.reverses = NoReceipt
                 /\ new.fp = fingerprintFromDraft(d, seen)
                 /\ new.pos = seen.pos /\ new.lines = seen.lines /\ new.gen = seen.gen
  <2> DEFINE rec == [receipt[d] EXCEPT !.status = "POSTED", !.key = key,
                                       !.fp = fingerprintFromDraft(d, seen)]
  <2>1. /\ rec.status = "POSTED" /\ rec.key = key /\ rec.reverses = NoReceipt
        /\ rec.fp = fingerprintFromDraft(d, seen)
        /\ rec.pos = seen.pos /\ rec.lines = seen.lines /\ rec.gen = seen.gen
    BY <1>2, <1>3 DEF ReceiptRecord
  <2>2. receipt' = [receipt EXCEPT ![d] = rec]
    BY <1>1 DEF PostCommit
  <2> HIDE DEF rec
  <2> QED BY <2>1, <2>2
<1>5. /\ DOMAIN receipt' = DOMAIN receipt /\ receipt'[d] = new
      /\ \A e \in DOMAIN receipt \ {d} : receipt'[e] = receipt[e]
  BY <1>3, <1>4
<1>6. Return(s, "created") /\ movements' = movements \cup PostingRows(d, seen, n)
  BY <1>2 DEF PostCommit, CommitMovements
<1>7. /\ call'[s].step = "done" /\ call'[s].result = "created" /\ call'[s].doc = d
      /\ \A t \in Session \ {s} : call'[t] = call[t]
  BY <1>1, <1>6, ReturnRecord DEF ReceiptInv
<1>8. Faithful(d)'
  <2>1. MovementsOf(d)' = PostingRows(d, seen, n)
    BY <1>3, <1>6, RowsAreOwned DEF MovementsOf
  <2>2. PostingRows(d, seen, n) = PostingRows(d, new, n)
    BY <1>4, RowsOfContent
  <2>3. new.fp = fingerprintFromDraft(d, new)
    BY <1>4 DEF fingerprintFromDraft
  <2> QED BY <1>3, <1>4, <1>5, <2>1, <2>2, <2>3 DEF Faithful
<1>9. ASSUME NEW e \in DOMAIN receipt \ {d} PROVE Faithful(e)'
  <2>1. receipt'[e] = receipt[e] /\ MovementsOf(e)' = MovementsOf(e) /\ Faithful(e)
    BY <1>5, <1>6, RowsAreOwned DEF MovementsOf
  <2>2. receipt[e].status # "DRAFT" /\ receipt[e].reverses # NoReceipt =>
          receipt[e].reverses # d /\ receipt[e].reverses \in DOMAIN receipt
    BY <1>2, <2>1 DEF Faithful
  <2> QED BY <1>5, <2>1, <2>2 DEF Faithful
<1>10. KeysUnique'
  <2>1. \A e \in DOMAIN receipt : receipt[e].key # key
    BY <1>3 DEF KeyHolders
  <2> QED BY <1>4, <1>5, <2>1 DEF KeysUnique
<1>11. ReversedAtMostOnce'
  BY <1>3, <1>4, <1>5 DEF ReversedAtMostOnce
<1>12. Undisturbed(s)' /\ RefusalStands(s)'
  BY <1>3, <1>5, <1>7 DEF Undisturbed, RefusalStands, Active
<1>13. ASSUME NEW t \in Session \ {s} PROVE Undisturbed(t)' /\ RefusalStands(t)'
  <2>1. ~Active(t) /\ call'[t] = call[t] /\ RefusalStands(t)
    BY <1>2, <1>7 DEF OneCallAtATime
  <2>2. Undisturbed(t)'
    BY <2>1 DEF Undisturbed, Active
  <2>3. RefusalStands(t)'
    BY <1>2, <1>5, <2>1 DEF RefusalStands
  <2> QED BY <2>2, <2>3
<1> QED BY <1>2, <1>5, <1>8, <1>9, <1>10, <1>11, <1>12, <1>13

(* The commit of a reverse: nobody has reversed the receipt it found posted. *)
LEMMA SerialReverseCommit ==
  ASSUME ReceiptInv, PostingsInv, SerialInv, OneCallAtATime, NEW s \in Session, ReverseCommit(s)
  PROVE  /\ SerialInv'
         /\ \A d \in DOMAIN receipt :
              receipt'[d].lines = receipt[d].lines /\ receipt'[d].pos = receipt[d].pos
<1> USE DEF SerialInv
<1>1. PICK d, n, key : d = call[s].doc /\ n = call[s].n /\ key = call[s].key
  OBVIOUS
<1>2. /\ Writing(s) /\ Active(s) /\ call[s].op = "reverse" /\ call[s].locked
      /\ receipt[d].status = "POSTED" /\ call[s].seen = receipt[d] /\ key[1] = "reverse"
      /\ inserted[s] = ReversalRows(receipt[d], n)
  <2>1. Writing(s) /\ Active(s) /\ call[s].op = "reverse" /\ call[s].step = "writing"
    BY DEF ReverseCommit, Writing, Active
  <2>2. Undisturbed(s) /\ WritingOK(s)
    BY DEF ReceiptInv, CallsOK
  <2> QED BY <1>1, <2>1, <2>2 DEF WritingOK, Undisturbed
<1>3. /\ d \in DOMAIN receipt /\ receipt[d] \in ReceiptRecord /\ n \in ReceiptId
      /\ n \notin DOMAIN receipt /\ d # NoReceipt /\ KeyHolders(key) = {}
  <2>1. KeyHolders(key) = {}
    BY <1>1, <1>2 DEF PostingsInv, CallTold, KeyReserved
  <2>2. d \in DOMAIN receipt /\ n \in 1..calls /\ n \notin DOMAIN receipt /\ d \in 1..calls
    BY <1>1, <1>2 DEF ReceiptInv, TypeOK, CallOK, IdsAreFresh
  <2>3. d # NoReceipt
    BY <2>2, NullAssumption
  <2> QED BY <2>1, <2>2, <2>3, CallsAssumption DEF ReceiptInv, TypeOK, ReceiptId
<1>4. PICK new, upd :
        /\ DOMAIN receipt' = DOMAIN receipt \cup {n}
        /\ receipt'[n] = new /\ receipt'[d] = upd
        /\ \A e \in DOMAIN receipt \ {d} : receipt'[e] = receipt[e]
        /\ new.status = "POSTED" /\ new.key = key /\ new.reverses = d
        /\ new.pos = receipt[d].pos /\ new.lines = receipt[d].lines
        /\ upd.status = "REVERSED" /\ upd.key = receipt[d].key
        /\ upd.reverses = receipt[d].reverses /\ upd.fp = receipt[d].fp
        /\ upd.pos = receipt[d].pos /\ upd.lines = receipt[d].lines /\ upd.gen = receipt[d].gen
  <2> DEFINE rec == [receipt[d] EXCEPT !.status = "REVERSED"]
             rev == ReverseDocument(call[s])
  <2>1. receipt' = [e \in DOMAIN receipt \cup {n} |->
                      IF e = n THEN rev ELSE IF e = d THEN rec ELSE receipt[e]]
    BY <1>1, <1>2 DEF ReverseCommit
  <2>2. /\ rec.status = "REVERSED" /\ rec.key = receipt[d].key
        /\ rec.reverses = receipt[d].reverses /\ rec.fp = receipt[d].fp
        /\ rec.pos = receipt[d].pos /\ rec.lines = receipt[d].lines /\ rec.gen = receipt[d].gen
    BY <1>3 DEF ReceiptRecord
  <2>3. /\ rev.status = "POSTED" /\ rev.key = key /\ rev.reverses = d
        /\ rev.pos = receipt[d].pos /\ rev.lines = receipt[d].lines
    BY <1>1, <1>2 DEF ReverseDocument
  <2> HIDE DEF rec, rev
  <2> QED BY <1>3, <2>1, <2>2, <2>3
<1>5. Return(s, "created") /\ movements' = movements \cup ReversalRows(receipt[d], n)
  BY <1>2 DEF ReverseCommit, CommitMovements
<1>6. /\ call'[s].step = "done" /\ call'[s].op = "reverse"
      /\ \A t \in Session \ {s} : call'[t] = call[t]
  BY <1>2, <1>5, ReturnRecord DEF ReceiptInv
<1>7. \A e \in DOMAIN receipt : MovementsOf(e)' = MovementsOf(e)
  BY <1>3, <1>5, RowsAreOwned DEF MovementsOf
<1>8. \A e \in DOMAIN receipt : receipt[e].reverses # d
  <2>1. \A e \in DOMAIN receipt : receipt[e].status = "DRAFT" => receipt[e].reverses = NoReceipt
    BY DEF ReceiptInv, DocumentsOK
  <2> QED BY <1>2, <1>3, <2>1 DEF Faithful
<1>9. Faithful(n)'
  BY <1>2, <1>3, <1>4 DEF Faithful
<1>10. ASSUME NEW e \in DOMAIN receipt PROVE Faithful(e)'
  <2>1. Faithful(e) /\ MovementsOf(e)' = MovementsOf(e) /\ receipt[e].reverses # d
    BY <1>7, <1>8
  <2>2. receipt[e].reverses \in DOMAIN receipt =>
          receipt'[receipt[e].reverses] = receipt[receipt[e].reverses]
    BY <1>4, <2>1
  <2>3. CASE e # d
    BY <1>4, <2>1, <2>2, <2>3 DEF Faithful
  <2>4. CASE e = d
    <3>1. fingerprintFromDraft(d, upd) = fingerprintFromDraft(d, receipt[d])
      BY <1>4 DEF fingerprintFromDraft
    <3>2. \A m : PostingRows(d, upd, m) = PostingRows(d, receipt[d], m)
      BY <1>4, RowsOfContent
    <3> QED BY <1>2, <1>4, <2>1, <2>2, <2>4, <3>1, <3>2 DEF Faithful
  <2> QED BY <2>3, <2>4
<1>11. KeysUnique'
  <2>1. \A e \in DOMAIN receipt : receipt[e].key # key
    BY <1>3 DEF KeyHolders
  <2> QED BY <1>2, <1>3, <1>4, <2>1 DEF KeysUnique
<1>12. ReversedAtMostOnce'
  <2>1. \A e \in DOMAIN receipt : receipt'[e].reverses = receipt[e].reverses
    BY <1>3, <1>4
  <2> QED BY <1>3, <1>4, <1>8, <2>1 DEF ReversedAtMostOnce
<1>13. Undisturbed(s)' /\ RefusalStands(s)'
  BY <1>6 DEF Undisturbed, RefusalStands, Active
<1>14. ASSUME NEW t \in Session \ {s} PROVE Undisturbed(t)' /\ RefusalStands(t)'
  <2>1. ~Active(t) /\ call'[t] = call[t] /\ RefusalStands(t)
    BY <1>2, <1>6 DEF OneCallAtATime
  <2>2. Undisturbed(t)'
    BY <2>1 DEF Undisturbed, Active
  <2>3. \A e \in DOMAIN receipt :
          /\ receipt'[e].key = receipt[e].key
          /\ receipt[e].status # "DRAFT" => receipt'[e].status # "DRAFT"
          /\ receipt[e].status = "REVERSED" => receipt'[e].status = "REVERSED"
    BY <1>3, <1>4
  <2>4. RefusalStands(t)'
    BY <1>4, <2>1, <2>3 DEF RefusalStands
  <2> QED BY <2>2, <2>4
<1>15. \A e \in DOMAIN receipt :
         receipt'[e].lines = receipt[e].lines /\ receipt'[e].pos = receipt[e].pos
  BY <1>3, <1>4
<1> QED BY <1>4, <1>9, <1>10, <1>11, <1>12, <1>13, <1>14, <1>15

-----------------------------------------------------------------------------
LEMMA LinesOfContent ==
  ASSUME NEW lines \in LineLists
  PROVE  /\ DOMAIN lines = 1..Len(lines) /\ IsFiniteSet(DOMAIN lines) /\ 1 \in DOMAIN lines
         /\ \A k \in DOMAIN lines :
              lines[k].item \in Item /\ lines[k].quantity \in Nat \ {0} /\ lines[k].cost \in Int
<1>1. PICK L : /\ L = [item : Item, quantity : Nat \ {0}, cost : Int]
               /\ lines \in Seq(L) /\ lines # <<>>
  BY ContentAssumption DEF LineLists
<1>2. DOMAIN lines = 1..Len(lines) /\ Len(lines) \in Nat /\ Len(lines) # 0
  BY <1>1
<1>3. ASSUME NEW k \in 1..Len(lines) PROVE lines[k] \in L
  <2>1. \A x \in Seq(L) : \A j \in 1..Len(x) : x[j] \in L
    OBVIOUS
  <2> QED BY <1>1, <1>3, <2>1
<1>4. IsFiniteSet(1..Len(lines))
  BY <1>2, FS_Interval
<1> QED BY <1>1, <1>2, <1>3, <1>4

(* The rows of a posting and their opposites add up to nothing in any stream. *)
LEMMA OppositeRowsCancel ==
  ASSUME NEW posted, posted.lines \in LineLists, NEW reversed, reversed.pos = posted.pos,
         reversed.lines = posted.lines, NEW d, NEW n, NEW r
  PROVE  NetEffect(ReversalRows(reversed, r) \cup PostingRows(d, posted, n)) = NoEffect
<1>1. PICK lines \in LineLists : lines = posted.lines
  OBVIOUS
<1> DEFINE in(k) == Row("IN", d, posted.pos, lines[k], <<posted.gen, k>>, <<n, k>>)
           out(k) == Row("OUT", r, posted.pos, lines[k], <<r, k>>, <<r, k>>)
<1>2. PICK A : A = {in(k) : k \in DOMAIN lines}
  OBVIOUS
<1>3. PICK h : h = [m \in A |-> out(m.id[2])]
  OBVIOUS
<1>4. \A k : /\ in(k).id[2] = k /\ in(k).direction = "IN"
             /\ in(k).item = lines[k].item /\ in(k).quantity = lines[k].quantity
             /\ in(k).cost = lines[k].cost
  BY DEF Row
<1>5. \A k : /\ out(k).id[2] = k /\ out(k).direction = "OUT"
             /\ out(k).item = lines[k].item /\ out(k).quantity = lines[k].quantity
             /\ out(k).cost = lines[k].cost
  BY DEF Row
<1>6. PostingRows(d, posted, n) = A
  BY <1>1, <1>2 DEF PostingRows
<1>7. ReversalRows(reversed, r) = {out(k) : k \in DOMAIN lines}
  BY <1>1 DEF ReversalRows
<1> HIDE DEF in, out
<1>8. \A k \in DOMAIN lines : in(k) \in A /\ h[in(k)] = out(k)
  BY <1>2, <1>3, <1>4
<1>9. IsFiniteSet(A)
  <2>1. PICK g : g = [k \in DOMAIN lines |-> in(k)]
    OBVIOUS
  <2>2. A = {g[k] : k \in DOMAIN lines}
    BY <1>2, <2>1
  <2> QED BY <2>2, LinesOfContent, ImageIsFinite
<1>10. \A m \in A : /\ m.quantity \in Int /\ m.cost \in Int
                    /\ h[m].item = m.item
                    /\ h[m].quantity = m.quantity /\ h[m].cost = m.cost
                    /\ h[m].direction = "IN" <=> m.direction # "IN"
  <2> SUFFICES ASSUME NEW k \in DOMAIN lines, NEW m, m = in(k)
               PROVE  /\ m.quantity \in Int /\ m.cost \in Int
                      /\ h[m].item = m.item
                      /\ h[m].quantity = m.quantity /\ h[m].cost = m.cost
                      /\ h[m].direction = "IN" <=> m.direction # "IN"
    BY <1>2
  <2>1. lines[k].quantity \in Int /\ lines[k].cost \in Int
    BY LinesOfContent
  <2>2. h[m] = out(k)
    BY <1>8
  <2> QED BY <1>4, <1>5, <2>1, <2>2
<1>11. \A x, y \in A : h[x] # y /\ (h[x] = h[y] => x = y)
  BY <1>2, <1>4, <1>5, <1>8
<1>12. ReversalRows(reversed, r) \cup PostingRows(d, posted, n) = A \cup {h[m] : m \in A}
  BY <1>2, <1>6, <1>7, <1>8
<1> QED BY <1>9, <1>10, <1>11, <1>12, OppositesCancel

-----------------------------------------------------------------------------
(* The theorems about calls that do not overlap *)

PostedKept ==
  \A d \in DOMAIN receipt : receipt[d].status # "DRAFT" =>
    receipt'[d].lines = receipt[d].lines /\ receipt'[d].pos = receipt[d].pos

LEMMA SerialStep ==
  ASSUME ReceiptInv, PostingsInv, SerialInv, OneCallAtATime, [Next]_vars
  PROVE  SerialInv' /\ PostedKept
<1>1. CASE UNCHANGED vars
  <2>1. UNCHANGED <<movements, receipt, call>>
    BY <1>1 DEF vars, streamVars, receiptVars
  <2>2. \A d : MovementsOf(d)' = MovementsOf(d)
    BY <2>1 DEF MovementsOf
  <2> QED BY <2>1, <2>2 DEF SerialInv, Faithful, KeysUnique, ReversedAtMostOnce, Undisturbed,
          RefusalStands, Active, Writing, PostedKept
<1>2. ASSUME UNCHANGED receipt PROVE PostedKept
  BY <1>2 DEF PostedKept
<1>3. ASSUME NEW s \in Session, CreateDraft(s) PROVE SerialInv' /\ PostedKept
  <2>1. calls + 1 \notin DOMAIN receipt
    BY CallsAssumption DEF ReceiptInv, TypeOK
  <2>2. PostedKept
    BY <1>3, <2>1 DEF CreateDraft, PostedKept
  <2> QED BY <1>3, <2>2, SerialCreate
<1>4. ASSUME NEW s \in Session, StartPost(s) \/ StartReverse(s) \/ StartUpdate(s)
      PROVE  SerialInv' /\ PostedKept
  <2>1. UNCHANGED receipt
    BY <1>4 DEF StartPost, StartReverse, StartUpdate
  <2> QED BY <1>2, <1>4, <2>1, SerialStart
<1>5. ASSUME NEW s \in Session,
             \/ ReadLines(s) \/ LockReceipt(s) \/ MarkReversed(s) \/ PostWrite(s)
             \/ ReverseWrite(s) \/ StreamStatement(s) \/ Rollback(s) \/ RefuseUpdate(s)
      PROVE  SerialInv' /\ PostedKept
  <2>1. UNCHANGED receipt
    BY <1>5 DEF ReadLines, LockReceipt, MarkReversed, PostWrite, ReverseWrite, WriteWithKey,
                StreamStatement, Rollback, RefuseUpdate, receiptVars
  <2> QED BY <1>2, <1>5, <2>1, SerialReadLines, SerialLock, SerialWrite, SerialStatement,
             SerialRollback
<1>6. ASSUME NEW s \in Session, PostCommit(s) \/ UpdateWrite(s)
      PROVE  SerialInv' /\ PostedKept
  BY <1>6, SerialPostCommit, SerialUpdate DEF PostedKept
<1>7. ASSUME NEW s \in Session, ReverseCommit(s) PROVE SerialInv' /\ PostedKept
  BY <1>7, SerialReverseCommit DEF PostedKept
<1> QED BY <1>1, <1>3, <1>4, <1>5, <1>6, <1>7 DEF Next, CallStep

SerialReceiptsInv == StreamInv /\ ReceiptInv /\ PostingsInv /\ SerialInv

LEMMA SerialReceipts ==
  Spec /\ []OneCallAtATime => [](SerialReceiptsInv /\ OneCallAtATime)
<1>1. Init => SerialReceiptsInv
  BY StreamInvInit, ReceiptInvInit, PostingsInvInit, SerialInvInit DEF Init, SerialReceiptsInv
<1>2. SerialReceiptsInv /\ OneCallAtATime /\ [Next]_vars => SerialReceiptsInv'
  BY ReceiptsInductive, PostingsInductive, SerialStep DEF SerialReceiptsInv
<1> QED BY <1>1, <1>2, PTL DEF Spec

(* While calls do not overlap, a posted receipt shows the lines and the     *)
(* position its movements were made of.                                     *)
THEOREM SerialPostingsMatch == Spec /\ []OneCallAtATime => []PostingMatchesDocument
<1>1. SerialReceiptsInv => PostingMatchesDocument
  BY DEF SerialReceiptsInv, SerialInv, Faithful, PostingMatchesDocument
<1> QED BY <1>1, SerialReceipts, PTL

(* While calls do not overlap, nothing rewrites a posted receipt.           *)
THEOREM SerialPostedImmutable == Spec /\ []OneCallAtATime => PostedIsImmutable
<1>1. SerialReceiptsInv /\ OneCallAtATime /\ [Next]_vars => [PostedKept]_vars
  BY SerialStep DEF SerialReceiptsInv
<1>2. Spec /\ []OneCallAtATime => [][PostedKept]_vars
  BY <1>1, SerialReceipts, PTL DEF Spec
<1> QED BY <1>2 DEF PostedIsImmutable, PostedKept

(* While calls do not overlap, no receipt is reversed twice.                *)
THEOREM SerialReversedOnce == Spec /\ []OneCallAtATime => []ReversedAtMostOnce
<1>1. SerialReceiptsInv => ReversedAtMostOnce
  BY DEF SerialReceiptsInv, SerialInv
<1> QED BY <1>1, SerialReceipts, PTL

(* While calls do not overlap, a post repeated with the key its receipt was *)
(* posted with is answered duplicate, or fails without an answer.           *)
THEOREM SerialRetries == Spec /\ []OneCallAtATime => []PostRetryIsDuplicate
<1>1. SerialReceiptsInv => PostRetryIsDuplicate
  <2> SUFFICES ASSUME SerialInv, NEW s \in Session, call[s].op = "post", call[s].step = "done",
                      receipt[call[s].doc].key = call[s].key,
                      receipt[call[s].doc].status = "POSTED"
               PROVE  call[s].result \in {"created", "duplicate", "error"}
    BY DEF SerialReceiptsInv, PostRetryIsDuplicate
  <2>1. RefusalStands(s) /\ KeysUnique
    BY DEF SerialInv
  <2> QED BY <2>1 DEF RefusalStands, KeysUnique
<1> QED BY <1>1, SerialReceipts, PTL

-----------------------------------------------------------------------------
(* The abstract documents.  While calls do not overlap, the effect of a     *)
(* receipt and its reversals is told by what the receipt shows: a draft has *)
(* none, a posting some, and a receipt that a document reverses none again. *)

Reversals == DOMAIN receipt \ Originals

DocumentStatus ==
  [d \in ReceiptId |-> IF d \in Originals /\ receipt[d].status # "DRAFT"
                       THEN receipt[d].status ELSE "OPEN"]

DocumentEffect == [d \in ReceiptId |-> IF d \in Originals THEN EffectOf(d) ELSE NoEffect]

EffectsStand ==
  /\ \A d \in Originals : receipt[d].status = "DRAFT" => EffectOf(d) = NoEffect
  /\ \A d \in Originals : receipt[d].status = "POSTED" => EffectOf(d) # NoEffect
  /\ \A r \in Reversals :
       receipt[r].reverses \in Originals => EffectOf(receipt[r].reverses) = NoEffect

LEMMA OnlyReversedAreNamed ==
  ASSUME ReceiptInv, SerialInv, NEW r \in Reversals
  PROVE  /\ receipt[r].reverses \in DOMAIN receipt
         /\ receipt[receipt[r].reverses].status = "REVERSED"
<1>1. r \in DOMAIN receipt /\ receipt[r].reverses # NoReceipt
  BY DEF Reversals, Originals
<1>2. receipt[r].status # "DRAFT"
  BY <1>1 DEF ReceiptInv, DocumentsOK
<1> QED BY <1>1, <1>2 DEF SerialInv, Faithful

(* The rows about a receipt are its own and those of the documents that     *)
(* reverse it.                                                              *)
LEMMA RowsAboutReceipt ==
  ASSUME ReceiptInv, NEW d \in Originals
  PROVE  /\ (\A r \in Reversals : receipt[r].reverses # d) => RowsAbout(d) = MovementsOf(d)
         /\ \A r \in Reversals :
              ReversedAtMostOnce /\ receipt[r].reverses = d
                => RowsAbout(d) = MovementsOf(r) \cup MovementsOf(d)
<1>1. \A m \in movements : m.doc \in DOMAIN receipt
  BY DEF ReceiptInv, DocumentsOK
<1>2. d \in DOMAIN receipt /\ d # NoReceipt /\ receipt[d].reverses # d
  <2>1. d \in DOMAIN receipt /\ receipt[d].reverses = NoReceipt
    BY DEF Originals
  <2>2. d \in Nat
    BY <2>1, CallsAssumption DEF ReceiptInv, TypeOK
  <2> QED BY <2>1, <2>2, NullAssumption
<1>3. \A m \in movements : receipt[m.doc].reverses = d => m.doc \in Reversals
  BY <1>1, <1>2 DEF Reversals, Originals
<1>4. (\A r \in Reversals : receipt[r].reverses # d) => RowsAbout(d) = MovementsOf(d)
  BY <1>3 DEF RowsAbout, MovementsOf
<1>5. ASSUME ReversedAtMostOnce, NEW r \in Reversals, receipt[r].reverses = d
      PROVE  RowsAbout(d) = MovementsOf(r) \cup MovementsOf(d)
  <2>1. \A m \in movements : receipt[m.doc].reverses = d <=> m.doc = r
    BY <1>1, <1>2, <1>5 DEF ReversedAtMostOnce, Reversals
  <2> QED BY <2>1 DEF RowsAbout, MovementsOf
<1> QED BY <1>4, <1>5

(* What the rows of a posting add up to is not nothing: they all come in.   *)
LEMMA PostingIsSomething ==
  ASSUME NEW posted, posted.lines \in LineLists, NEW d, NEW n
  PROVE  NetEffect(PostingRows(d, posted, n)) # NoEffect
<1>1. PICK lines \in LineLists : lines = posted.lines
  OBVIOUS
<1> DEFINE in(k) == Row("IN", d, posted.pos, lines[k], <<posted.gen, k>>, <<n, k>>)
<1>2. PICK rows : rows = {in(k) : k \in DOMAIN lines}
  OBVIOUS
<1>3. \A k : /\ in(k).direction = "IN"
             /\ in(k).item = lines[k].item /\ in(k).quantity = lines[k].quantity
  BY DEF Row
<1>4. PostingRows(d, posted, n) = rows
  BY <1>1, <1>2 DEF PostingRows
<1> HIDE DEF in
<1>5. IsFiniteSet(rows)
  <2>1. PICK g : g = [k \in DOMAIN lines |-> in(k)]
    OBVIOUS
  <2>2. rows = {g[k] : k \in DOMAIN lines}
    BY <1>2, <2>1
  <2> QED BY <2>2, LinesOfContent, ImageIsFinite
<1>6. \A m \in rows : m.item \in Item /\ m.direction = "IN" /\ m.quantity \in Nat \ {0}
  BY <1>2, <1>3, LinesOfContent
<1>7. in(1) \in rows
  BY <1>2, LinesOfContent
<1> QED BY <1>4, <1>5, <1>6, <1>7, OneWayIsSomething

LEMMA SerialEffects == ReceiptInv /\ SerialInv => EffectsStand
<1> SUFFICES ASSUME ReceiptInv, SerialInv PROVE EffectsStand
  OBVIOUS
<1>1. ASSUME NEW d \in Originals, receipt[d].status # "REVERSED"
      PROVE  RowsAbout(d) = MovementsOf(d)
  BY <1>1, OnlyReversedAreNamed, RowsAboutReceipt
<1>2. ASSUME NEW d \in Originals, receipt[d].status = "DRAFT" PROVE EffectOf(d) = NoEffect
  <2>1. MovementsOf(d) = {}
    BY <1>2 DEF ReceiptInv, DocumentsOK, PostedOnce, Originals
  <2> QED BY <1>1, <1>2, <2>1, NoRowsNoEffect DEF EffectOf
<1>3. ASSUME NEW d \in Originals, receipt[d].status = "POSTED" PROVE EffectOf(d) # NoEffect
  <2>1. PICK n : MovementsOf(d) = PostingRows(d, receipt[d], n)
    BY <1>3 DEF SerialInv, Faithful, Originals
  <2>2. receipt[d].lines \in LineLists
    BY DEF ReceiptInv, TypeOK, ReceiptRecord, Originals
  <2> QED BY <1>1, <1>3, <2>1, <2>2, PostingIsSomething DEF EffectOf
<1>4. ASSUME NEW r \in Reversals, receipt[r].reverses \in Originals
      PROVE  EffectOf(receipt[r].reverses) = NoEffect
  <2>1. PICK d : d = receipt[r].reverses
    OBVIOUS
  <2>2. /\ r \in DOMAIN receipt /\ d # NoReceipt /\ receipt[r].status # "DRAFT"
        /\ d \in DOMAIN receipt /\ receipt[d].reverses = NoReceipt
    BY <1>4, <2>1 DEF Reversals, Originals, ReceiptInv, DocumentsOK
  <2>3. /\ receipt[d].status = "REVERSED" /\ receipt[d].pos = receipt[r].pos
        /\ receipt[d].lines = receipt[r].lines
    BY <2>1, <2>2 DEF SerialInv, Faithful
  <2>4. MovementsOf(r) = ReversalRows(receipt[r], r)
    BY <2>1, <2>2 DEF ReceiptInv, DocumentsOK, PostedOnce
  <2>5. PICK n : MovementsOf(d) = PostingRows(d, receipt[d], n)
    BY <2>2, <2>3 DEF SerialInv, Faithful
  <2>6. receipt[d].lines \in LineLists
    BY <2>2 DEF ReceiptInv, TypeOK, ReceiptRecord
  <2>7. NetEffect(MovementsOf(r) \cup MovementsOf(d)) = NoEffect
    BY <2>3, <2>4, <2>5, <2>6, OppositeRowsCancel
  <2>8. RowsAbout(d) = MovementsOf(r) \cup MovementsOf(d)
    BY <1>4, <2>1, RowsAboutReceipt DEF SerialInv
  <2> QED BY <2>1, <2>7, <2>8 DEF EffectOf
<1> QED BY <1>2, <1>3, <1>4 DEF EffectsStand

(* A receipt keeps its effect in a step whose new rows are about others.    *)
LEMMA OthersKeepEffect ==
  ASSUME ReceiptInv, NEW rows, movements' = movements \cup rows, NEW d,
         \A e \in DOMAIN receipt : receipt'[e].reverses = receipt[e].reverses,
         \A m \in rows : m.doc # d /\ receipt'[m.doc].reverses # d
  PROVE  EffectOf(d)' = EffectOf(d)
<1>1. \A m \in movements : receipt'[m.doc].reverses = receipt[m.doc].reverses
  BY DEF ReceiptInv, DocumentsOK
<1>2. RowsAbout(d)' = RowsAbout(d)
  BY <1>1 DEF RowsAbout
<1> QED BY <1>2 DEF EffectOf

(* Whatever leaves the movements alone, and of every document the status    *)
(* and what it reverses, is none of the abstract documents.                 *)
LEMMA QuietStutters ==
  ASSUME ReceiptInv, movements' = movements, DOMAIN receipt' = DOMAIN receipt,
         \A e \in DOMAIN receipt : /\ receipt'[e].status = receipt[e].status
                                   /\ receipt'[e].reverses = receipt[e].reverses
  PROVE  DocumentStatus' = DocumentStatus /\ DocumentEffect' = DocumentEffect
<1>1. Originals' = Originals /\ Originals \subseteq DOMAIN receipt
  BY DEF Originals
<1>2. \A d : EffectOf(d)' = EffectOf(d)
  <2> SUFFICES ASSUME NEW d PROVE EffectOf(d)' = EffectOf(d)
    OBVIOUS
  <2> DEFINE rows == {}
  <2>1. movements' = movements \cup rows
    OBVIOUS
  <2>2. \A m \in rows : m.doc # d /\ receipt'[m.doc].reverses # d
    OBVIOUS
  <2>3. \A e \in DOMAIN receipt : receipt'[e].reverses = receipt[e].reverses
    OBVIOUS
  <2> HIDE DEF rows
  <2> QED BY <2>1, <2>2, <2>3, OthersKeepEffect
<1> QED BY <1>1, <1>2 DEF DocumentStatus, DocumentEffect

LEMMA CreateStutters ==
  ASSUME ReceiptInv, EffectsStand', NEW s \in Session, CreateDraft(s)
  PROVE  DocumentStatus' = DocumentStatus /\ DocumentEffect' = DocumentEffect
<1>1. PICK n, new : /\ n = calls + 1
                    /\ receipt' = [d \in DOMAIN receipt \cup {n} |->
                                     IF d = n THEN new ELSE receipt[d]]
                    /\ new.status = "DRAFT" /\ new.reverses = NoReceipt
                    /\ movements' = movements
  BY DEF CreateDraft, Draft, streamVars, ledgerVars
<1>2. n \notin DOMAIN receipt
  BY <1>1, CallsAssumption DEF ReceiptInv, TypeOK
<1>3. /\ DOMAIN receipt' = DOMAIN receipt \cup {n} /\ receipt'[n] = new
      /\ \A e \in DOMAIN receipt : receipt'[e] = receipt[e]
  BY <1>1, <1>2
<1>4. Originals' = Originals \cup {n} /\ n \notin Originals
  BY <1>1, <1>2, <1>3 DEF Originals
<1>5. ASSUME NEW d PROVE EffectOf(d)' = EffectOf(d)
  <2> DEFINE rows == {}
  <2>1. movements' = movements \cup rows
    BY <1>1
  <2>2. \A m \in rows : m.doc # d /\ receipt'[m.doc].reverses # d
    OBVIOUS
  <2>3. \A e \in DOMAIN receipt : receipt'[e].reverses = receipt[e].reverses
    BY <1>3
  <2> HIDE DEF rows
  <2> QED BY <2>1, <2>2, <2>3, OthersKeepEffect
<1>6. EffectOf(n)' = NoEffect
  BY <1>1, <1>3, <1>4 DEF EffectsStand
<1>7. \A d \in Originals : d \in DOMAIN receipt /\ d # n
  BY <1>2 DEF Originals
<1> QED BY <1>1, <1>3, <1>4, <1>5, <1>6, <1>7 DEF DocumentStatus, DocumentEffect

LEMMA PostImplements ==
  ASSUME ReceiptInv, EffectsStand', NEW s \in Session, PostCommit(s)
  PROVE  \E d \in ReceiptId : Documents!Post(d)
<1>1. PICK d, new : /\ d = call[s].doc /\ receipt' = [receipt EXCEPT ![d] = new]
                    /\ new = [receipt[d] EXCEPT !.status = "POSTED", !.key = call[s].key,
                                !.fp = fingerprintFromDraft(d, call[s].seen)]
  BY DEF PostCommit
<1>2. /\ d \in DOMAIN receipt /\ receipt[d] \in ReceiptRecord /\ receipt[d].status = "DRAFT"
      /\ inserted[s] = PostingRows(d, call[s].seen, call[s].n)
  <2>1. Writing(s) /\ Active(s) /\ call[s].op = "post" /\ WritingOK(s) /\ CallOK(s)
    BY DEF PostCommit, Writing, Active, ReceiptInv, TypeOK, CallsOK
  <2> QED BY <1>1, <2>1 DEF ReceiptInv, TypeOK, CallOK, WritingOK
<1>3. d \in ReceiptId /\ d # NoReceipt /\ receipt[d].reverses = NoReceipt
  <2>1. d \in ReceiptId /\ d \in Nat
    BY <1>2, CallsAssumption DEF ReceiptInv, TypeOK, ReceiptId
  <2> QED BY <1>2, <2>1, NullAssumption DEF ReceiptInv, DocumentsOK
<1>4. new.status = "POSTED" /\ new.reverses = NoReceipt
  BY <1>1, <1>2, <1>3 DEF ReceiptRecord
<1> HIDE <1>1
<1>5. /\ DOMAIN receipt' = DOMAIN receipt /\ receipt'[d] = new
      /\ \A e \in DOMAIN receipt \ {d} : receipt'[e] = receipt[e]
  BY <1>1, <1>2
<1>6. movements' = movements \cup inserted[s] /\ \A m \in inserted[s] : m.doc = d
  BY <1>2, RowsAreOwned DEF PostCommit, CommitMovements
<1>7. Originals' = Originals /\ d \in Originals /\ Originals \subseteq DOMAIN receipt
  BY <1>2, <1>3, <1>4, <1>5 DEF Originals
<1>8. ASSUME NEW e \in Originals \ {d} PROVE EffectOf(e)' = EffectOf(e)
  <2>1. e # NoReceipt
    BY <1>7, CallsAssumption, NullAssumption DEF ReceiptInv, TypeOK
  <2>2. \A m \in inserted[s] : m.doc # e /\ receipt'[m.doc].reverses # e
    BY <1>4, <1>5, <1>6, <2>1
  <2>3. \A f \in DOMAIN receipt : receipt'[f].reverses = receipt[f].reverses
    BY <1>3, <1>4, <1>5
  <2> QED BY <1>6, <2>2, <2>3, OthersKeepEffect
<1>9. EffectOf(d)' # NoEffect
  BY <1>4, <1>5, <1>7 DEF EffectsStand
<1>10. DocumentStatus' = [DocumentStatus EXCEPT ![d] = "POSTED"] /\ DocumentStatus[d] = "OPEN"
  BY <1>2, <1>3, <1>4, <1>5, <1>7 DEF DocumentStatus
<1>11. /\ DOMAIN DocumentEffect' = ReceiptId /\ DocumentEffect'[d] # NoEffect
       /\ \A e \in ReceiptId \ {d} : DocumentEffect'[e] = DocumentEffect[e]
  BY <1>3, <1>7, <1>8, <1>9 DEF DocumentEffect
<1>12. Documents!Post(d)
  BY <1>10, <1>11 DEF Documents!Post, Documents!NoEffect, NoEffect, DocumentStatus, DocumentEffect
<1> QED BY <1>3, <1>12

(* The reverse of a receipt is a step of it; the reverse of a reverse       *)
(* document is none of any receipt.                                         *)
LEMMA ReverseImplements ==
  ASSUME ReceiptInv, SerialInv, EffectsStand', NEW s \in Session, ReverseCommit(s)
  PROVE  \/ \E d \in ReceiptId : Documents!Reverse(d)
         \/ DocumentStatus' = DocumentStatus /\ DocumentEffect' = DocumentEffect
<1>1. PICK d, n, upd, new :
        /\ d = call[s].doc /\ n = call[s].n
        /\ upd = [receipt[d] EXCEPT !.status = "REVERSED"] /\ new = ReverseDocument(call[s])
        /\ receipt' = [e \in DOMAIN receipt \cup {n} |->
                         IF e = n THEN new
                         ELSE IF e = d /\ call[s].locked THEN upd ELSE receipt[e]]
  <2> DEFINE rec == [receipt[call[s].doc] EXCEPT !.status = "REVERSED"]
             rev == ReverseDocument(call[s])
  <2>1. receipt' = [e \in DOMAIN receipt \cup {call[s].n} |->
                      IF e = call[s].n THEN rev
                      ELSE IF e = call[s].doc /\ call[s].locked THEN rec ELSE receipt[e]]
    <3>1. \A e : e = call[s].doc => [receipt[e] EXCEPT !.status = "REVERSED"] = rec
      OBVIOUS
    <3> HIDE DEF rec, rev
    <3> QED BY <3>1 DEF ReverseCommit, rev
  <2> QED BY <2>1
<1>2. /\ d \in DOMAIN receipt /\ n \in 1..calls /\ n \notin DOMAIN receipt
      /\ receipt[d] \in ReceiptRecord /\ receipt[d].status = "POSTED" /\ call[s].locked
      /\ inserted[s] = ReversalRows(call[s].seen, n)
  <2>1. Active(s) /\ Writing(s) /\ call[s].op = "reverse" /\ call[s].step = "writing"
    BY DEF ReverseCommit, Active, Writing
  <2>2. Undisturbed(s) /\ WritingOK(s)
    BY DEF SerialInv, ReceiptInv, CallsOK
  <2> QED BY <1>1, <2>1, <2>2
          DEF ReceiptInv, TypeOK, CallOK, IdsAreFresh, WritingOK, Undisturbed
<1>3. /\ d \in ReceiptId /\ n \in ReceiptId /\ d # NoReceipt /\ n # d
      /\ \A e \in DOMAIN receipt : e # n
  <2>1. d \in 1..calls
    BY <1>2 DEF ReceiptInv, TypeOK
  <2> QED BY <1>2, <2>1, CallsAssumption, NullAssumption DEF ReceiptInv, TypeOK, ReceiptId
<1>4. /\ upd.status = "REVERSED" /\ upd.reverses = receipt[d].reverses /\ new.reverses = d
  BY <1>1, <1>2 DEF ReceiptRecord, ReverseDocument
<1>5. /\ DOMAIN receipt' = DOMAIN receipt \cup {n} /\ receipt'[n] = new /\ receipt'[d] = upd
      /\ \A e \in DOMAIN receipt \ {d} : receipt'[e] = receipt[e]
  BY <1>1, <1>2, <1>3
<1> HIDE <1>1
<1>6. movements' = movements \cup inserted[s] /\ \A m \in inserted[s] : m.doc = n
  <2>1. \A m \in inserted[s] : m.doc = n
    BY <1>2 DEF ReversalRows, Row
  <2> QED BY <2>1 DEF ReverseCommit, CommitMovements
<1>7. /\ Originals' = Originals /\ Originals \subseteq DOMAIN receipt
      /\ n \in Reversals'
  BY <1>2, <1>3, <1>4, <1>5 DEF Originals, Reversals
<1>8. ASSUME NEW e \in Originals \ {d} PROVE EffectOf(e)' = EffectOf(e)
  <2>1. \A m \in inserted[s] : m.doc # e /\ receipt'[m.doc].reverses # e
    BY <1>3, <1>4, <1>5, <1>6, <1>7
  <2>2. \A f \in DOMAIN receipt : receipt'[f].reverses = receipt[f].reverses
    BY <1>4, <1>5
  <2> QED BY <1>6, <2>1, <2>2, OthersKeepEffect
<1>9. CASE d \in Originals
  <2>1. EffectOf(d)' = NoEffect
    BY <1>4, <1>5, <1>7, <1>9 DEF EffectsStand
  <2>2. /\ DocumentStatus' = [DocumentStatus EXCEPT ![d] = "REVERSED"]
        /\ DocumentStatus[d] = "POSTED"
    BY <1>2, <1>3, <1>4, <1>5, <1>7, <1>9 DEF DocumentStatus
  <2>3. DocumentEffect' = [DocumentEffect EXCEPT ![d] = NoEffect]
    BY <1>3, <1>7, <1>8, <1>9, <2>1 DEF DocumentEffect
  <2>4. Documents!Reverse(d)
    BY <2>2, <2>3 DEF Documents!Reverse, Documents!NoEffect, NoEffect, DocumentStatus,
                      DocumentEffect
  <2> QED BY <1>3, <2>4
<1>10. CASE d \notin Originals
  BY <1>5, <1>7, <1>8, <1>10 DEF DocumentStatus, DocumentEffect
<1> QED BY <1>9, <1>10

LEMMA OtherStepsStutter ==
  ASSUME ReceiptInv, [Next]_vars,
         \A s \in Session : ~CreateDraft(s) /\ ~PostCommit(s) /\ ~ReverseCommit(s)
  PROVE  DocumentStatus' = DocumentStatus /\ DocumentEffect' = DocumentEffect
<1>1. CASE movements' = movements /\ receipt' = receipt
  BY <1>1, QuietStutters
<1>2. ASSUME NEW s \in Session, UpdateWrite(s)
      PROVE  DocumentStatus' = DocumentStatus /\ DocumentEffect' = DocumentEffect
  <2>1. PICK d, new : /\ d = call[s].doc /\ receipt' = [receipt EXCEPT ![d] = new]
                      /\ \E content \in Content, withLines \in BOOLEAN :
                           new = Updated(receipt[d], content, withLines, call[s].n)
    BY <1>2 DEF UpdateWrite
  <2>2. d \in DOMAIN receipt /\ receipt[d] \in ReceiptRecord
    BY <1>2, <2>1 DEF UpdateWrite, ReceiptInv, TypeOK, CallOK, Active
  <2>3. new.status = receipt[d].status /\ new.reverses = receipt[d].reverses
    BY <2>1, <2>2 DEF Updated, ReceiptRecord
  <2>4. movements' = movements
    BY <1>2 DEF UpdateWrite, streamVars, ledgerVars
  <2>5. /\ DOMAIN receipt' = DOMAIN receipt /\ receipt'[d] = new
        /\ \A e \in DOMAIN receipt \ {d} : receipt'[e] = receipt[e]
    BY <2>1, <2>2
  <2>6. \A e \in DOMAIN receipt : /\ receipt'[e].status = receipt[e].status
                                  /\ receipt'[e].reverses = receipt[e].reverses
    BY <2>3, <2>5
  <2> QED BY <2>4, <2>5, <2>6, QuietStutters
<1>3. ASSUME NEW s \in Session,
             \/ StartPost(s) \/ StartReverse(s) \/ StartUpdate(s) \/ ReadLines(s)
             \/ LockReceipt(s) \/ MarkReversed(s) \/ PostWrite(s) \/ ReverseWrite(s)
             \/ StreamStatement(s) \/ RefuseUpdate(s) \/ Rollback(s)
      PROVE  movements' = movements /\ receipt' = receipt
  BY <1>3 DEF StartPost, StartReverse, StartUpdate, ReadLines, LockReceipt, MarkReversed,
              PostWrite, ReverseWrite, WriteWithKey, StreamStatement, RefuseUpdate, Rollback, InsertMovements, RollbackMovements,
              lockValuationStream, rebuildInventoryBalance, receiptVars, streamVars, ledgerVars
<1>4. CASE UNCHANGED vars
  BY <1>1, <1>4 DEF vars, streamVars, ledgerVars, receiptVars
<1> QED BY <1>1, <1>2, <1>3, <1>4 DEF Next, CallStep

(* While calls do not overlap, posting a receipt and reversing it are one   *)
(* step each of a document that is posted once and reversed once, after     *)
(* which nothing is left of it in quantity or in cost, and no other step    *)
(* touches what it moved.                                                   *)
THEOREM SerialReceiptsImplementDocuments == Spec /\ []OneCallAtATime => ImplementsDocuments
<1>1. Init => Documents!Init
  <2> SUFFICES ASSUME Init PROVE Documents!Init
    OBVIOUS
  <2>1. Originals = {}
    BY DEF Init, Originals
  <2> QED BY <2>1 DEF Documents!Init, Documents!NoEffect, NoEffect
<1>2. SerialReceiptsInv => EffectsStand
  BY SerialEffects DEF SerialReceiptsInv
<1>3. /\ SerialReceiptsInv /\ OneCallAtATime /\ [Next]_vars /\ EffectsStand'
      => [Documents!Next]_(Documents!documentVars)
  <2> SUFFICES ASSUME ReceiptInv, SerialInv, [Next]_vars, EffectsStand'
               PROVE  \/ \E d \in ReceiptId : Documents!Post(d) \/ Documents!Reverse(d)
                      \/ DocumentStatus' = DocumentStatus /\ DocumentEffect' = DocumentEffect
    BY DEF SerialReceiptsInv, Documents!Next, Documents!documentVars, DocumentStatus,
           DocumentEffect
  <2> QED BY CreateStutters, PostImplements, ReverseImplements, OtherStepsStutter
<1> QED BY <1>1, <1>2, <1>3, SerialReceipts, PTL
        DEF Spec, ImplementsDocuments, Documents!Spec

-----------------------------------------------------------------------------
(* Who waits for whom: a call waits for a row with nothing in hand, then for *)
(* its key with the row in hand, then for its streams with both.  So a row   *)
(* is kept by somebody who waits for a key or writes, a key by somebody who  *)
(* writes, and writers wait for writers only.                                *)

LEMMA CallsMakeNoCircle ==
  ASSUME StreamInv, LocksAreSorted, TypeOK
  PROVE  NoCircleOfCalls
<1> SUFFICES ASSUME NEW S \in SUBSET Session, S # {}, IsFiniteSet(S),
                    \A s \in S : \E t \in S : WaitsFor(s, t)
             PROVE  FALSE
  BY DEF NoCircleOfCalls
<1>1. \A s \in Session : Writing(s) <=> InTransaction(s)
  BY DEF TypeOK, CallOK
<1>2. PICK w \in S : InTransaction(w)
  <2>1. PICK u \in S, t \in S : WaitsFor(u, t)
    OBVIOUS
  <2>2. CASE WaitsForStream(u, t)
    BY <2>2, WritersWaitForWriters
  <2>3. CASE Writing(t)
    BY <1>1, <2>3
  <2>4. CASE call[t].step = "key"
    <3>1. PICK v \in S : WaitsFor(t, v)
      OBVIOUS
    <3>2. CASE WaitsForStream(t, v)
      BY <3>2, WritersWaitForWriters
    <3>3. CASE KeepsKey(v, call[t].key)
      BY <1>1, <3>3 DEF KeepsKey
    <3> QED BY <2>4, <3>1, <3>2, <3>3 DEF WaitsFor
  <2> QED BY <2>1, <2>2, <2>3, <2>4 DEF WaitsFor, KeepsRow, KeepsKey, Writing
<1>3. PICK s \in S : InTransaction(s) /\ \A t \in S : ~WaitsForStream(s, t)
  BY <1>2, SomeWriterGoesOn
<1>4. \A t \in S : ~WaitsFor(s, t)
  BY <1>1, <1>3 DEF WaitsFor, Writing
<1> QED BY <1>4

(* Calls on goods receipts never wait for each other in a circle, however   *)
(* many overlap and whatever receipts, keys and streams they share.         *)
THEOREM ReceiptsDoNotDeadlock == Spec => []NoCircleOfCalls
<1>1. Init => StreamInv /\ ReceiptInv /\ LocksAreSorted
  BY StreamInvInit, ReceiptInvInit, SortedInit DEF Init
<1>2. StreamInv /\ LocksAreSorted /\ [Next]_vars => LocksAreSorted'
  BY NextIsStreamStepOrStutter, SortedStep, SortedStutter DEF StreamInv
<1>3. StreamInv /\ ReceiptInv /\ LocksAreSorted => NoCircleOfCalls
  BY CallsMakeNoCircle DEF ReceiptInv
<1> QED BY <1>1, <1>2, <1>3, ReceiptsInductive, PTL DEF Spec

=============================================================================
