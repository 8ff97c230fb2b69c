------------------------ MODULE ProductionBatchProofs ------------------------
(***************************************************************************)
(* Proofs about production batches, for every number of sessions, batches, *)
(* keys and calls, every list of ingredients and every recorded actuals.   *)
(***************************************************************************)
EXTENDS ProductionBatch, ValuationStreamsProofs

-----------------------------------------------------------------------------
(* The inductive invariant, per session and per batch.  A call that holds  *)
(* a batch's row holds it alone, so what it decided on under the lock is   *)
(* still there when it commits.                                            *)

Holding(s) ==
  call[s].op \in {"post", "reverse"} /\ call[s].step \in {"quote", "write", "writing"}

Stages ==
  [none    |-> {"done"},
   supply  |-> {"writing"},
   post    |-> {"peek", "key", "lock", "quote", "writing"},
   reverse |-> {"peek", "key", "lock", "write", "writing"}]

CallRecord(c) ==
  /\ c = [op |-> c.op, step |-> c.step, result |-> c.result, n |-> c.n, batch |-> c.batch,
          key |-> c.key, content |-> c.content, line |-> c.line, rows |-> c.rows]
  /\ c.op \in {"none", "supply", "post", "reverse"} /\ c.step \in Stages[c.op]
  /\ c.key \in Key \cup {NoKey} /\ c.content \in Content
  /\ c.line \in 0..Len(Ingredient)
  /\ c.op \in {"post", "reverse"} => c.key \in Key /\ c.batch \in Batch
  /\ c.op = "post" => c.content \in ProductionPosition
  /\ c.op = "reverse" => c.content \in Reason

\* The OUTs of the first lines of b, as recorded, whatever each was quoted.
InputsOf(b, rows, lines, pos) ==
  /\ \A m \in rows :
       /\ m.id \in lines
       /\ m = Row("OUT", Ingredient[m.id], batch[b].actual.inputs[m.id], m.cost, m.certainty,
                  pos, <<"production", b>>, m.id)
  /\ \A m, n \in rows : m.id = n.id => m = n
  /\ \A l \in lines : \E m \in rows : m.id = l

Quoted(c) ==
  c.op = "post" =>
    /\ c.step \in {"peek", "key", "lock"} => c.line = 0
    /\ InputsOf(c.batch, c.rows, 1..c.line, c.content)

Written(s) ==
  LET c == call[s] IN
  Writing(s) =>
    /\ c.op = "post" =>
         c.line = Len(Ingredient) /\ inserted[s] = c.rows \cup OutputRows(c)
    /\ c.op = "reverse" =>
         inserted[s] = CompensationRows(c.batch) /\ KeyHolders("reverse", c.key) = {}
    /\ c.op = "supply" =>
         \A m \in inserted[s] : /\ m.doc[1] = "receipt" /\ m.doc[2] \in 1..supplies
                                 /\ m.direction = "IN"

Decided(s) ==
  LET c == call[s] IN
  Holding(s) =>
    /\ batch[c.batch].status = "FINALIZED"
    /\ batch[c.batch].posting = (IF c.op = "post" THEN "UNPOSTED" ELSE "POSTED")

SessionOK(s) ==
  /\ CallRecord(call[s]) /\ Quoted(call[s])
  /\ Writing(s) <=> InTransaction(s)
  /\ Decided(s) /\ Written(s)

\* What the feed says of b, from its row, its reversal and its movements.
FactsOf(b) ==
  LET rows == MovementsOf("production", b)
      post == [batch |-> b, key |-> batch[b].key, content |-> batch[b].pos, rows |-> Outs(rows)]
  IN
  (IF batch[b].posting = "UNPOSTED" THEN {}
   ELSE mirrorInventoryConsumed(post, rows) \cup {mirrorProduction(post)})
  \cup
  (IF batch[b].posting = "REVERSED"
   THEN {mirrorProductionPostingReversed([batch |-> b, key |-> reversal[b].key])} ELSE {})

FeedOf(b) == {f \in feed : f.batch = b}

BatchOK(b) ==
  /\ batch[b].status # "NONE" => batch[b].actual \in ActualRecord
  /\ batch[b].posting = "UNPOSTED" <=> batch[b].key = NoKey
  /\ b \in DOMAIN reversal <=> batch[b].posting = "REVERSED"
  /\ b \in DOMAIN reversal => reversal[b].key \in Key /\ reversal[b].content \in Reason
  /\ Produced(b)
  /\ \A m \in MovementsOf("production", b) : ~m.reversal
  /\ MovementsOf("reversal", b) =
       (IF batch[b].posting = "REVERSED" THEN CompensationRows(b) ELSE {})
  /\ FeedOf(b) = FactsOf(b)

\* One session per batch row, and per reversal key that is being inserted.
SessionsApart ==
  \A s, t \in Session : s # t =>
    /\ Holding(s) /\ Holding(t) => call[s].batch # call[t].batch
    /\ Writing(s) /\ Writing(t) /\ call[s].op = "reverse" /\ call[t].op = "reverse" =>
         call[s].key # call[t].key

\* The unique indexes.
KeysUnique ==
  /\ \A b, d \in Batch : batch[b].key = batch[d].key /\ batch[b].key # NoKey => b = d
  /\ \A b, d \in DOMAIN reversal : reversal[b].key = reversal[d].key => b = d

Tables ==
  /\ DOMAIN call = Session /\ batch \in [Batch -> BatchRecord] /\ DOMAIN reversal \subseteq Batch
  /\ calls \in 0..MaxCalls /\ supplies \in 0..MaxSupplies
  /\ \A m \in movements : m.doc[1] = "receipt" => m.doc[2] \in 1..supplies

ProductionInv ==
  /\ Tables
  /\ \A s \in Session : SessionOK(s)
  /\ \A b \in Batch : BatchOK(b)
  /\ SessionsApart /\ KeysUnique /\ RowsAreFresh

LEMMA StageOf ==
  ASSUME NEW c, CallRecord(c)
  PROVE  /\ c.op = "none" => c.step = "done"
         /\ c.op = "supply" => c.step = "writing"
         /\ c.op = "post" => c.step \in {"peek", "key", "lock", "quote", "writing"}
         /\ c.op = "reverse" => c.step \in {"peek", "key", "lock", "write", "writing"}
         /\ c.op \in {"none", "supply", "post", "reverse"}
BY DEF CallRecord, Stages

LEMMA InvGivesType == ProductionInv /\ StreamTypeOK => TypeOK
<1> SUFFICES ASSUME ProductionInv, StreamTypeOK PROVE TypeOK
  OBVIOUS
<1>1. batch \in [Batch -> BatchRecord]
  BY DEF ProductionInv, Tables
<1>2. DOMAIN reversal = {b \in Batch : batch[b].posting = "REVERSED"}
  BY DEF ProductionInv, BatchOK, Tables
<1>3. \A b \in DOMAIN reversal : reversal[b].key \in Key /\ reversal[b].content \in Reason
  BY DEF ProductionInv, BatchOK, Tables
<1>4. ASSUME NEW s \in Session
      PROVE  call[s].key \in Key \cup {NoKey} /\ call[s].content \in Content /\ CallOK(s)
  <2>1. SessionOK(s) /\ CallRecord(call[s])
    BY DEF ProductionInv, SessionOK
  <2> QED BY <2>1, StageOf DEF SessionOK, CallRecord, CallOK, HoldsBatch, Decided, Holding
<1> QED BY <1>1, <1>2, <1>3, <1>4 DEF TypeOK, ProductionInv, Tables

LEMMA InitialFacts ==
  ASSUME NEW b, batch[b].posting = "UNPOSTED"
  PROVE  FactsOf(b) = {}
BY DEF FactsOf

LEMMA ProductionInvInit == Init => ProductionInv
<1> SUFFICES ASSUME Init PROVE ProductionInv
  OBVIOUS
<1> USE DEF Init
<1>1. /\ movements = {} /\ \A s \in Session : inserted[s] = {} /\ call[s] = Idle("none")
      /\ \A b \in Batch : batch[b] = NewBatch
  BY DEF StreamInit, LedgerInit
<1>2. Tables
  <2>1. NewBatch \in BatchRecord
    BY DEF NewBatch, BatchRecord
  <2> QED BY <1>1, <2>1, ProductionAssumption DEF Tables
<1>3. ASSUME NEW s \in Session PROVE SessionOK(s)
  <2> DEFINE c == Idle("none")
  <2>1. /\ c.op = "none" /\ c.step = "done" /\ c.line = 0 /\ c.key = NoKey
        /\ c.content = NoContent
    BY DEF Idle, Call
  <2>2. c = [op |-> c.op, step |-> c.step, result |-> c.result, n |-> c.n, batch |-> c.batch,
          key |-> c.key, content |-> c.content, line |-> c.line, rows |-> c.rows]
    BY DEF Idle, Call
  <2>3. Len(Ingredient) \in Nat
    BY ProductionAssumption
  <2> HIDE DEF c
  <2>4. CallRecord(c)
    BY <2>1, <2>2, <2>3 DEF CallRecord, Stages, Content
  <2>5. call[s] = c
    BY <1>1 DEF c
  <2>6. Quoted(call[s]) /\ ~Writing(s) /\ ~Holding(s) /\ ~InTransaction(s)
    BY <1>1, <2>1, <2>5 DEF Quoted, Writing, Holding, InTransaction
  <2> QED BY <2>4, <2>5, <2>6 DEF SessionOK, Decided, Written
<1>4. ASSUME NEW b \in Batch PROVE BatchOK(b)
  <2>1. /\ batch[b].status = "NONE" /\ batch[b].posting = "UNPOSTED"
        /\ batch[b].key = NoKey
    BY <1>1 DEF NewBatch
  <2>2. MovementsOf("production", b) = {} /\ MovementsOf("reversal", b) = {}
    BY <1>1 DEF MovementsOf
  <2>3. FeedOf(b) = {}
    BY DEF FeedOf
  <2> QED BY <2>1, <2>2, <2>3, InitialFacts DEF BatchOK, Produced
<1>5. SessionsApart
  BY <1>1 DEF SessionsApart, Holding, Writing, Idle, Call
<1>6. KeysUnique
  BY <1>1 DEF KeysUnique, NewBatch
<1>7. RowsAreFresh
  BY <1>1 DEF RowsAreFresh
<1> QED BY <1>2, <1>3, <1>4, <1>5, <1>6, <1>7 DEF ProductionInv

-----------------------------------------------------------------------------
(* What a step leaves alone *)

LEMMA NextIsStreamStepOrStutter ==
  ASSUME [Next]_vars
  PROVE  UNCHANGED streamVars \/ \E s \in Session : StreamStep(s)
<1>1. CASE UNCHANGED vars
  BY <1>1 DEF vars
<1>2. ASSUME NEW b \in Batch, Edit(b) PROVE UNCHANGED streamVars
  BY <1>2 DEF Edit
<1>3. ASSUME NEW s \in Session,
             StartCall(s) \/ PeekBatch(s) \/ CheckKey(s) \/ LockBatch(s) \/ QuoteLine(s)
      PROVE  UNCHANGED streamVars
  BY <1>3 DEF StartCall, PeekBatch, CheckKey, LockBatch, QuoteLine
<1>4. ASSUME NEW s \in Session, NEW M, InsertMovements(s, M)
      PROVE  StreamStep(s)
  BY <1>4 DEF InsertMovements, StreamStep
<1>5. ASSUME NEW s \in Session, WriteProduction(s) \/ WriteReversal(s) \/ StartSupply(s)
      PROVE  UNCHANGED streamVars \/ StreamStep(s)
  BY <1>4, <1>5 DEF WriteProduction, WriteReversal, StartSupply
<1>6. ASSUME NEW s \in Session,
             PostCommit(s) \/ ReverseCommit(s) \/ SupplyCommit(s) \/ StreamStatement(s)
      PROVE  StreamStep(s)
  BY <1>6 DEF PostCommit, ReverseCommit, SupplyCommit, StreamStatement, StreamStep
<1>7. ASSUME NEW s \in Session, Rollback(s) \/ RefuseKey(s)
      PROVE  UNCHANGED streamVars \/ StreamStep(s)
  BY <1>7 DEF Rollback, RefuseKey, StreamStep
<1> QED BY <1>1, <1>2, <1>3, <1>5, <1>6, <1>7 DEF Next, CallStep

(* A session keeps what it knows while its call and its rows stay, and the  *)
(* batch it holds stays.                                                    *)
LEMMA SessionKept ==
  ASSUME NEW t \in Session, SessionOK(t), call'[t] = call[t], inserted'[t] = inserted[t],
         supplies \in Nat, supplies' \in Nat, supplies <= supplies',
         Holding(t) =>
           /\ batch'[call[t].batch] = batch[call[t].batch]
           /\ MovementsOf("production", call[t].batch)' = MovementsOf("production", call[t].batch),
         Writing(t) /\ call[t].op = "reverse" => KeyHolders("reverse", call[t].key)' = {}
  PROVE  SessionOK(t)'
<1> DEFINE c == call[t]
<1>1. CallRecord(c) /\ Quoted(c) /\ (Writing(t) <=> InTransaction(t)) /\ Decided(t) /\ Written(t)
  BY DEF SessionOK
<1>2. /\ Writing(t)' <=> Writing(t)
      /\ InTransaction(t)' <=> InTransaction(t)
      /\ Holding(t)' <=> Holding(t)
  BY DEF Writing, InTransaction, Holding
<1>3. Quoted(call[t])'
  <2>1. CASE c.op # "post"
    BY <2>1 DEF Quoted
  <2>2. CASE c.op = "post" /\ c.step \in {"peek", "key", "lock"}
    <3>1. c.line = 0 /\ c.rows = {}
      BY <1>1, <2>2 DEF Quoted, InputsOf
    <3> QED BY <2>2, <3>1 DEF Quoted, InputsOf
  <2>3. CASE c.op = "post" /\ c.step \in {"quote", "writing"}
    <3>1. batch'[c.batch] = batch[c.batch]
      BY <2>3 DEF Holding
    <3>2. InputsOf(c.batch, c.rows, 1..c.line, c.content)
      BY <1>1, <2>3 DEF Quoted
    <3>3. InputsOf(c.batch, c.rows, 1..c.line, c.content)'
      BY <3>1, <3>2 DEF InputsOf
    <3> QED BY <2>3, <3>3 DEF Quoted
  <2> QED BY <1>1, <2>1, <2>2, <2>3, StageOf
<1>4. Decided(t)'
  BY <1>1, <1>2 DEF Decided
<1>5. Written(t)'
  <2> SUFFICES ASSUME Writing(t) PROVE Written(t)'
    BY <1>2 DEF Written
  <2>1. CASE c.op = "post"
    <3>1. batch'[c.batch] = batch[c.batch]
      BY <2>1 DEF Holding, Writing
    <3>2. OutputRows(c)' = OutputRows(c)
      BY <3>1 DEF OutputRows
    <3> QED BY <1>1, <2>1, <3>2 DEF Written
  <2>2. CASE c.op = "reverse"
    <3>1. CompensationRows(c.batch)' = CompensationRows(c.batch)
      BY <2>2 DEF Holding, Writing, CompensationRows, Compensation
    <3> QED BY <1>1, <2>2, <3>1 DEF Written
  <2>3. CASE c.op = "supply"
    BY <1>1, <2>3 DEF Written
  <2> QED BY <1>1, <2>1, <2>2, <2>3, StageOf DEF Written, Writing
<1> QED BY <1>1, <1>2, <1>3, <1>4, <1>5 DEF SessionOK

(* A batch keeps its account while its rows, its reversal and its facts do. *)
LEMMA BatchKept ==
  ASSUME NEW b \in Batch, BatchOK(b), batch'[b] = batch[b],
         b \in DOMAIN reversal' <=> b \in DOMAIN reversal,
         b \in DOMAIN reversal => reversal'[b] = reversal[b],
         MovementsOf("production", b)' = MovementsOf("production", b),
         MovementsOf("reversal", b)' = MovementsOf("reversal", b),
         FeedOf(b)' = FeedOf(b)
  PROVE  BatchOK(b)'
<1>1. Produced(b)'
  BY DEF BatchOK, Produced, Posting
<1>2. CompensationRows(b)' = CompensationRows(b)
  BY DEF CompensationRows, Compensation
<1>3. FactsOf(b)' = FactsOf(b)
  <2> DEFINE rows == MovementsOf("production", b)
             post == [batch |-> b, key |-> batch[b].key, content |-> batch[b].pos,
                      rows |-> Outs(rows)]
  <2>1. post' = post /\ rows' = rows
    OBVIOUS
  <2>2. mirrorProduction(post)' = mirrorProduction(post)
    BY <2>1 DEF mirrorProduction
  <2>3. batch[b].posting = "REVERSED" => b \in DOMAIN reversal
    BY DEF BatchOK
  <2>4. ASSUME batch[b].posting = "REVERSED"
        PROVE  mirrorProductionPostingReversed([batch |-> b, key |-> reversal[b].key])'
                 = mirrorProductionPostingReversed([batch |-> b, key |-> reversal[b].key])
    BY <2>3, <2>4 DEF mirrorProductionPostingReversed
  <2>5. mirrorInventoryConsumed(post, rows)' = mirrorInventoryConsumed(post, rows)
    BY <2>1
  <2> QED BY <2>2, <2>4, <2>5 DEF FactsOf
<1> QED BY <1>1, <1>2, <1>3 DEF BatchOK

(* What one session does to its own call and its uncommitted rows keeps the *)
(* invariant if it leaves its own call in order: under a row and with a key *)
(* nobody else holds, and with rows nobody has.                             *)
LEMMA OwnCallStep ==
  ASSUME ProductionInv, NEW s \in Session, NEW c, call' = [call EXCEPT ![s] = c],
         UNCHANGED <<movements, batch, reversal, feed>>,
         \A t \in Session \ {s} : inserted'[t] = inserted[t],
         calls' \in 0..MaxCalls, supplies' \in 0..MaxSupplies, supplies <= supplies',
         SessionOK(s)',
         Holding(s)' => \A t \in Session \ {s} : Holding(t) => call[t].batch # c.batch,
         Writing(s)' /\ c.op = "reverse" =>
           \A t \in Session \ {s} : Writing(t) /\ call[t].op = "reverse" => call[t].key # c.key,
         inserted'[s] \cap movements = {},
         \A t \in Session \ {s} : inserted'[s] \cap inserted[t] = {}
  PROVE  ProductionInv'
<1> USE DEF ProductionInv
<1>1. /\ call'[s] = c /\ DOMAIN call' = Session
      /\ \A t \in Session \ {s} : call'[t] = call[t]
  BY DEF Tables
<1>2. supplies \in Nat /\ supplies' \in Nat /\ MaxSupplies \in Nat
  BY ProductionAssumption DEF Tables
<1>3. Tables'
  <2>1. \A m \in movements : m.doc[1] = "receipt" => m.doc[2] \in 1..supplies'
    BY <1>2 DEF Tables
  <2> QED BY <1>1, <2>1 DEF Tables
<1>4. ASSUME NEW t \in Session, t # s PROVE SessionOK(t)'
  <2>1. MovementsOf("production", call[t].batch)' = MovementsOf("production", call[t].batch)
    BY <1>1, <1>4 DEF MovementsOf
  <2>2. Writing(t) /\ call[t].op = "reverse" => KeyHolders("reverse", call[t].key)' = {}
    BY <1>1, <1>4 DEF SessionOK, Written, KeyHolders
  <2> QED BY <1>1, <1>2, <1>4, <2>1, <2>2, SessionKept
<1>5. ASSUME NEW b \in Batch PROVE BatchOK(b)'
  <2>1. /\ MovementsOf("production", b)' = MovementsOf("production", b)
        /\ MovementsOf("reversal", b)' = MovementsOf("reversal", b)
        /\ FeedOf(b)' = FeedOf(b)
    BY DEF MovementsOf, FeedOf
  <2> QED BY <2>1, BatchKept
<1>6. \A t \in Session \ {s} : (Holding(t)' <=> Holding(t)) /\ (Writing(t)' <=> Writing(t))
  BY <1>1 DEF Holding, Writing
<1>7. SessionsApart'
  BY <1>1, <1>6 DEF SessionsApart
<1>8. KeysUnique'
  BY DEF KeysUnique
<1>9. RowsAreFresh'
  BY DEF RowsAreFresh
<1> QED BY <1>3, <1>4, <1>5, <1>7, <1>8, <1>9

(* A session that has returned, and whose transaction has ended, is in order. *)
LEMMA IdleOK ==
  ASSUME NEW s \in Session, NEW result, call'[s] = Idle(result), inserted'[s] = {}
  PROVE  SessionOK(s)' /\ ~Holding(s)' /\ ~Writing(s)'
<1> DEFINE c == Idle(result)
<1>1. /\ c.op = "none" /\ c.step = "done" /\ c.line = 0 /\ c.key = NoKey
      /\ c.content = NoContent
  BY DEF Idle, Call
<1>2. c = [op |-> c.op, step |-> c.step, result |-> c.result, n |-> c.n, batch |-> c.batch,
        key |-> c.key, content |-> c.content, line |-> c.line, rows |-> c.rows]
  BY DEF Idle, Call
<1>3. Len(Ingredient) \in Nat
  BY ProductionAssumption
<1> HIDE DEF c
<1>4. CallRecord(c)
  BY <1>1, <1>2, <1>3 DEF CallRecord, Stages, Content
<1>5. call'[s] = c
  BY DEF c
<1>6. Quoted(c)' /\ ~Writing(s)' /\ ~Holding(s)' /\ ~InTransaction(s)'
  BY <1>1, <1>5 DEF Quoted, Writing, Holding, InTransaction
<1> QED BY <1>4, <1>5, <1>6 DEF SessionOK, Decided, Written

(* A call that is answered while its session has written nothing. *)
LEMMA ReturnStep ==
  ASSUME ProductionInv, NEW s \in Session, NEW answer, Return(s, answer), ~InTransaction(s),
         UNCHANGED <<streamVars, batch, reversal, feed, calls, supplies>>
  PROVE  ProductionInv'
<1> DEFINE c == Idle(Outcome(answer))
<1>1. call' = [call EXCEPT ![s] = c] /\ call'[s] = c
  BY DEF Return, ProductionInv, Tables
<1>2. UNCHANGED <<movements, inserted>> /\ inserted[s] = {}
  BY DEF streamVars, InTransaction
<1>3. SessionOK(s)' /\ ~Holding(s)' /\ ~Writing(s)'
  BY <1>1, <1>2, IdleOK
<1>4. calls' \in 0..MaxCalls /\ supplies' \in 0..MaxSupplies /\ supplies <= supplies'
  BY DEF ProductionInv, Tables
<1> QED BY <1>1, <1>2, <1>3, <1>4, OwnCallStep

-----------------------------------------------------------------------------
(* Calls that read *)

LEMMA CountersKept ==
  ASSUME Tables, UNCHANGED <<calls, supplies>>
  PROVE  calls' \in 0..MaxCalls /\ supplies' \in 0..MaxSupplies /\ supplies <= supplies'
BY ProductionAssumption DEF Tables

LEMMA StartCallStep ==
  ASSUME ProductionInv, NEW s \in Session, StartCall(s)
  PROVE  ProductionInv'
<1>0. PICK op \in {"post", "reverse"}, b \in Batch, k \in Key :
        \E content \in (IF op = "post" THEN ProductionPosition ELSE Reason) :
          call' = [call EXCEPT ![s] = Call(op, "peek", "none", calls + 1, b, k, content)]
  BY DEF StartCall
<1>1. PICK content \in (IF op = "post" THEN ProductionPosition ELSE Reason) :
        call' = [call EXCEPT ![s] = Call(op, "peek", "none", calls + 1, b, k, content)]
  BY <1>0
<1>1a. PICK c : c = Call(op, "peek", "none", calls + 1, b, k, content)
  OBVIOUS
<1>2. call' = [call EXCEPT ![s] = c] /\ call'[s] = c
  BY <1>1, <1>1a DEF ProductionInv, Tables
<1>3. /\ c.op = op /\ c.step = "peek" /\ c.batch = b /\ c.key = k /\ c.content = content
      /\ c.line = 0 /\ c.rows = {}
      /\ c = [op |-> c.op, step |-> c.step, result |-> c.result, n |-> c.n, batch |-> c.batch,
              key |-> c.key, content |-> c.content, line |-> c.line, rows |-> c.rows]
  BY <1>1a DEF Call
<1>4. CallRecord(c)
  <2>1. Len(Ingredient) \in Nat
    BY ProductionAssumption
  <2> QED BY <1>3, <2>1 DEF CallRecord, Stages, Content
<1>5. UNCHANGED <<movements, inserted, batch, reversal, feed, supplies>>
  BY DEF StartCall, streamVars
<1>6. ~InTransaction(s) /\ inserted[s] = {}
  BY DEF ProductionInv, SessionOK, StartCall, Writing, InTransaction
<1>7. ~Writing(s)' /\ ~Holding(s)' /\ ~InTransaction(s)'
  BY <1>2, <1>3, <1>5, <1>6 DEF Writing, Holding, InTransaction
<1>8. Quoted(c)'
  BY <1>3 DEF Quoted, InputsOf
<1>9. SessionOK(s)'
  BY <1>2, <1>4, <1>7, <1>8 DEF SessionOK, Decided, Written
<1>10. calls' \in 0..MaxCalls /\ supplies' \in 0..MaxSupplies /\ supplies <= supplies'
  BY <1>5, ProductionAssumption DEF StartCall, ProductionInv, Tables
<1> QED BY <1>2, <1>5, <1>6, <1>7, <1>9, <1>10, OwnCallStep

(* A call that looks and goes on, with nothing written and no row held.     *)
LEMMA LookStep ==
  ASSUME ProductionInv, NEW s \in Session, NEW step, GoTo(s, step),
         call[s].step \in {"peek", "key", "lock"}, step \in Stages[call[s].op],
         step # "writing",
         step \in {"quote", "write"} =>
           /\ BatchFree(call[s].batch) /\ LockAnswer(call[s]) = "go on",
         UNCHANGED <<streamVars, batch, reversal, feed, calls, supplies>>
  PROVE  ProductionInv'
<1>0. PICK d : d = [call[s] EXCEPT !.step = step]
  OBVIOUS
<1>1. SessionOK(s) /\ CallRecord(call[s]) /\ Quoted(call[s])
  BY DEF ProductionInv, SessionOK
<1>2. call' = [call EXCEPT ![s] = d] /\ call'[s] = d
  BY <1>0 DEF GoTo, ProductionInv, Tables
<1>3. /\ CallRecord(d) /\ d.step = step
      /\ d.op = call[s].op /\ d.batch = call[s].batch /\ d.key = call[s].key
      /\ d.content = call[s].content /\ d.line = call[s].line /\ d.rows = call[s].rows
  BY <1>0, <1>1 DEF CallRecord
<1>4. UNCHANGED <<movements, inserted>>
  BY DEF streamVars
<1>5. ~InTransaction(s) /\ inserted[s] = {}
  BY <1>1 DEF SessionOK, Writing, InTransaction
<1>6. ~Writing(s)' /\ ~InTransaction(s)'
  BY <1>2, <1>3, <1>4, <1>5 DEF Writing, InTransaction
<1>7. call[s].op \in {"post", "reverse"} /\ d.batch \in Batch
  BY <1>1, <1>3, StageOf DEF CallRecord
<1>8. Quoted(d)'
  BY <1>1, <1>3, StageOf DEF Quoted, InputsOf
<1>9. Holding(s)' => step \in {"quote", "write"}
  BY <1>2, <1>3, <1>6 DEF Holding, Writing
<1>10. ASSUME Holding(s)' PROVE Decided(s)'
  <2>1. LockAnswer(call[s]) = "go on"
    BY <1>9, <1>10
  <2>2. CASE call[s].op = "post"
    <3>1. batch[d.batch] \in BatchRecord
      BY <1>7 DEF ProductionInv, Tables
    <3>2. batch[d.batch].status = "FINALIZED" /\ batch[d.batch].posting = "UNPOSTED"
      BY <1>3, <2>1, <2>2, <3>1 DEF LockAnswer, BatchAnswer, BatchRecord
    <3> QED BY <1>2, <1>3, <2>2, <3>2 DEF Decided
  <2>3. CASE call[s].op = "reverse"
    <3>1. batch[d.batch].posting = "POSTED"
      BY <1>3, <2>1, <2>3 DEF LockAnswer, BatchAnswer, PriorReversalAnswer
    <3>2. batch[d.batch].status = "FINALIZED"
      BY <1>7, <3>1 DEF ProductionInv, BatchOK, Produced
    <3> QED BY <1>2, <1>3, <2>3, <3>1, <3>2 DEF Decided
  <2> QED BY <1>7, <2>2, <2>3
<1>11. SessionOK(s)'
  BY <1>2, <1>3, <1>6, <1>8, <1>10 DEF SessionOK, Decided, Written
<1>12. Holding(s)' => \A t \in Session \ {s} : Holding(t) => call[t].batch # d.batch
  BY <1>3, <1>9 DEF BatchFree, HoldsBatch, Holding
<1>13. calls' \in 0..MaxCalls /\ supplies' \in 0..MaxSupplies /\ supplies <= supplies'
  BY CountersKept DEF ProductionInv
<1> QED BY <1>2, <1>4, <1>5, <1>6, <1>11, <1>12, <1>13, OwnCallStep

LEMMA DecideStep ==
  ASSUME ProductionInv, NEW s \in Session, PeekBatch(s) \/ CheckKey(s) \/ LockBatch(s)
  PROVE  ProductionInv'
<1>1. CallRecord(call[s]) /\ SessionOK(s)
  BY DEF ProductionInv, SessionOK
<1>2. call[s].step \in {"peek", "key", "lock"} /\ ~InTransaction(s)
  BY <1>1 DEF PeekBatch, CheckKey, LockBatch, SessionOK, Writing
<1>3. call[s].op \in {"post", "reverse"}
  BY <1>1, <1>2, StageOf
<1>4. UNCHANGED <<streamVars, batch, reversal, feed, calls, supplies>>
  BY DEF PeekBatch, CheckKey, LockBatch
<1>5. ASSUME NEW answer, Return(s, answer) PROVE ProductionInv'
  BY <1>2, <1>4, <1>5, ReturnStep
<1>6. CASE PeekBatch(s)
  <2>1. "key" \in Stages[call[s].op]
    BY <1>3 DEF Stages
  <2>2. GoTo(s, "key") => ProductionInv'
    BY <1>2, <1>4, <2>1, LookStep
  <2> QED BY <1>5, <1>6, <2>2 DEF PeekBatch, Decide
<1>7. CASE CheckKey(s)
  <2>1. "lock" \in Stages[call[s].op]
    BY <1>3 DEF Stages
  <2>2. GoTo(s, "lock") => ProductionInv'
    BY <1>2, <1>4, <2>1, LookStep
  <2> QED BY <1>5, <1>7, <2>2 DEF CheckKey, Decide
<1>8. CASE LockBatch(s)
  <2> DEFINE step == IF call[s].op = "post" THEN "quote" ELSE "write"
  <2>1. step \in Stages[call[s].op] /\ step # "writing"
    BY <1>3 DEF Stages
  <2>2. CASE LockAnswer(call[s]) = "go on"
    <3>1. GoTo(s, step) /\ BatchFree(call[s].batch)
      BY <1>8, <2>2 DEF LockBatch, Decide
    <3> HIDE DEF step
    <3> QED BY <1>2, <1>4, <2>1, <2>2, <3>1, LookStep
  <2>3. CASE LockAnswer(call[s]) # "go on"
    <3>1. Return(s, LockAnswer(call[s]))
      BY <1>8, <2>3 DEF LockBatch, Decide
    <3> QED BY <1>5, <3>1
  <2> QED BY <2>2, <2>3
<1> QED BY <1>6, <1>7, <1>8

LEMMA QuoteStep ==
  ASSUME ProductionInv, NEW s \in Session, QuoteLine(s)
  PROVE  ProductionInv'
<1> DEFINE l == call[s].line + 1
<1>1. /\ call[s].step = "quote" /\ l \in InputLine
      /\ UNCHANGED <<streamVars, batch, reversal, feed, calls, supplies>>
  BY DEF QuoteLine
<1>2. PICK quote \in IssueQuotes(VisibleMovements(s, Ingredient[l]), call[s].content) :
        call' = [call EXCEPT ![s] = [call[s] EXCEPT !.line = l,
                                       !.rows = @ \cup {InputRow(call[s], l, quote)}]]
  BY DEF QuoteLine
<1>3. PICK c : c = [call[s] EXCEPT !.line = l, !.rows = @ \cup {InputRow(call[s], l, quote)}]
  OBVIOUS
<1>4. call' = [call EXCEPT ![s] = c] /\ call'[s] = c
  BY <1>2, <1>3 DEF ProductionInv, Tables
<1>5. SessionOK(s) /\ CallRecord(call[s]) /\ call[s].op = "post" /\ Quoted(call[s])
  BY <1>1, StageOf DEF ProductionInv, SessionOK
<1>6. /\ c.op = "post" /\ c.step = "quote" /\ c.batch = call[s].batch /\ c.key = call[s].key
      /\ c.content = call[s].content /\ c.line = l
      /\ c.rows = call[s].rows \cup {InputRow(call[s], l, quote)}
      /\ CallRecord(c)
  <2>1. l \in 0..Len(Ingredient)
    BY <1>1, ProductionAssumption DEF InputLine
  <2> QED BY <1>1, <1>3, <1>5, <2>1 DEF CallRecord
<1>7. UNCHANGED <<movements, inserted>> /\ inserted[s] = {} /\ ~InTransaction(s)
  BY <1>1, <1>5 DEF streamVars, SessionOK, Writing, InTransaction
<1>8. /\ ~Writing(s)' /\ ~InTransaction(s)' /\ Holding(s) /\ Holding(s)'
  BY <1>1, <1>4, <1>5, <1>6, <1>7 DEF Writing, InTransaction, Holding
<1>9. InputsOf(c.batch, c.rows, 1..c.line, c.content)
  <2> DEFINE old == call[s].rows
             b == call[s].batch
  <2>1. InputsOf(b, old, 1..call[s].line, c.content)
    BY <1>5, <1>6 DEF Quoted
  <2>2. PICK r, cost : /\ r = InputRow(call[s], l, quote)
                       /\ cost = quote.unitCost * batch[b].actual.inputs[l]
    OBVIOUS
  <2>2a. r = Row("OUT", Ingredient[l], batch[b].actual.inputs[l], cost, quote.certainty,
                 c.content, <<"production", b>>, l)
    BY <1>6, <2>2 DEF InputRow
  <2>3. r.id = l /\ r = Row("OUT", Ingredient[l], batch[b].actual.inputs[l], r.cost, r.certainty,
                            c.content, <<"production", b>>, l)
    BY <2>2a DEF Row
  <2>4. call[s].line \in Nat /\ l \in 1..l /\ 1..l = (1..call[s].line) \cup {l}
        /\ l \notin 1..call[s].line
    BY <1>5, ProductionAssumption DEF CallRecord
  <2> HIDE DEF l
  <2>5. InputsOf(b, old \cup {r}, 1..l, c.content)
    <3>1. \A m \in old \cup {r} :
            /\ m.id \in 1..l
            /\ m = Row("OUT", Ingredient[m.id], batch[b].actual.inputs[m.id], m.cost, m.certainty,
                       c.content, <<"production", b>>, m.id)
      BY <2>1, <2>3, <2>4 DEF InputsOf
    <3>2. \A m, n \in old \cup {r} : m.id = n.id => m = n
      BY <2>1, <2>3, <2>4 DEF InputsOf
    <3>3. \A k \in 1..l : \E m \in old \cup {r} : m.id = k
      BY <2>1, <2>3, <2>4 DEF InputsOf
    <3> QED BY <3>1, <3>2, <3>3 DEF InputsOf
  <2>6. c.rows = old \cup {r} /\ c.line = l /\ c.batch = b
    BY <1>6, <2>2
  <2> QED BY <2>5, <2>6
<1>10. Quoted(c)'
  BY <1>1, <1>6, <1>9 DEF Quoted, InputsOf
<1>11. Decided(s)'
  BY <1>1, <1>4, <1>5, <1>6, <1>8 DEF SessionOK, Decided
<1>12. SessionOK(s)'
  BY <1>4, <1>6, <1>8, <1>10, <1>11 DEF SessionOK, Written
<1>13. \A t \in Session \ {s} : Holding(t) => call[t].batch # c.batch
  BY <1>6, <1>8 DEF ProductionInv, SessionsApart
<1>14. calls' \in 0..MaxCalls /\ supplies' \in 0..MaxSupplies /\ supplies <= supplies'
  BY <1>1, CountersKept DEF ProductionInv
<1> QED BY <1>1, <1>4, <1>7, <1>8, <1>12, <1>13, <1>14, OwnCallStep

(* Whose document the rows of an open transaction belong to. *)
LEMMA RowDocs ==
  ASSUME movements \subseteq Movement, NEW t \in Session, SessionOK(t), NEW m \in inserted[t]
  PROVE  /\ Writing(t)
         /\ \/ /\ call[t].op = "post" /\ m.doc = <<"production", call[t].batch>> /\ Holding(t)
            \/ /\ call[t].op = "reverse" /\ m.doc = <<"reversal", call[t].batch>> /\ Holding(t)
            \/ call[t].op = "supply" /\ m.doc[1] = "receipt" /\ m.doc[2] \in 1..supplies
<1>1. CallRecord(call[t]) /\ Writing(t) /\ Written(t) /\ Quoted(call[t])
  BY DEF SessionOK, InTransaction
<1>2. call[t].op \in {"post", "reverse", "supply"}
  BY <1>1, StageOf DEF Writing
<1>3. CASE call[t].op = "post"
  <2>1. m \in call[t].rows \cup OutputRows(call[t])
    BY <1>1, <1>3 DEF Written
  <2>2. \A r \in call[t].rows : r.doc = <<"production", call[t].batch>>
    BY <1>1, <1>3 DEF Quoted, InputsOf, Row
  <2>3. \A r \in OutputRows(call[t]) : r.doc = <<"production", call[t].batch>>
    BY DEF OutputRows, Row
  <2> QED BY <1>1, <1>3, <2>1, <2>2, <2>3 DEF Holding, Writing
<1>4. CASE call[t].op = "reverse"
  <2>1. m \in CompensationRows(call[t].batch)
    BY <1>1, <1>4 DEF Written
  <2>2. PICK r \in movements : m = Compensation(call[t].batch, r)
    BY <2>1 DEF CompensationRows, MovementsOf
  <2>3. r \in MovementRow
    BY ProductionAssumption
  <2>4. m.doc = <<"reversal", call[t].batch>>
    BY <2>2, <2>3 DEF Compensation, MovementRow
  <2> QED BY <1>1, <1>4, <2>4 DEF Holding, Writing
<1>5. CASE call[t].op = "supply"
  BY <1>1, <1>5 DEF Written
<1> QED BY <1>1, <1>2, <1>3, <1>4, <1>5

-----------------------------------------------------------------------------
(* Calls that write *)

LEMMA InsertEffect ==
  ASSUME StreamTypeOK, NEW s \in Session, NEW M, InsertMovements(s, M)
  PROVE  /\ inserted'[s] = M /\ M # {} /\ M \subseteq Movement /\ movements' = movements
         /\ \A t \in Session \ {s} : inserted'[t] = inserted[t]
BY DEF InsertMovements, StreamTypeOK

(* A session that inserts rows of a document that nobody else writes, and   *)
(* that the table does not have yet.                                        *)
LEMMA WritingStep ==
  ASSUME ProductionInv, StreamTypeOK, NEW s \in Session, NEW M, InsertMovements(s, M),
         NEW step, step = "writing", GoTo(s, step), Holding(s),
         UNCHANGED <<batch, reversal, feed, calls, supplies>>,
         call[s].op = "post" => /\ M = call[s].rows \cup OutputRows(call[s])
                                /\ call[s].line = Len(Ingredient),
         call[s].op = "reverse" => /\ M = CompensationRows(call[s].batch)
                                   /\ KeyFree(call[s].key)
                                   /\ KeyHolders("reverse", call[s].key) = {}
  PROVE  ProductionInv'
<1>0. PICK c : c = [call[s] EXCEPT !.step = step]
  OBVIOUS
<1>1. SessionOK(s) /\ CallRecord(call[s]) /\ Quoted(call[s]) /\ Decided(s)
  BY DEF ProductionInv, SessionOK
<1>2. call' = [call EXCEPT ![s] = c] /\ call'[s] = c
  BY <1>0 DEF GoTo, ProductionInv, Tables
<1>3. call[s].op \in {"post", "reverse"} /\ call[s].batch \in Batch
  BY <1>1 DEF Holding, CallRecord
<1>4. "writing" \in Stages[call[s].op]
  BY <1>3 DEF Stages
<1>5. /\ CallRecord(c) /\ c.step = "writing"
      /\ c.op = call[s].op /\ c.batch = call[s].batch /\ c.key = call[s].key
      /\ c.content = call[s].content /\ c.line = call[s].line /\ c.rows = call[s].rows
  BY <1>0, <1>1, <1>4 DEF CallRecord
<1>6. /\ inserted'[s] = M /\ M # {} /\ M \subseteq Movement /\ movements' = movements
      /\ \A t \in Session \ {s} : inserted'[t] = inserted[t]
  BY InsertEffect
<1>7. Writing(s)' /\ InTransaction(s)' /\ Holding(s)'
  BY <1>2, <1>3, <1>5, <1>6 DEF Writing, InTransaction, Holding
<1>8. Quoted(c)'
  BY <1>1, <1>3, <1>5, StageOf DEF Quoted, InputsOf, Holding
<1>9. Decided(s)'
  BY <1>1, <1>2, <1>5 DEF Decided
<1>10. Written(s)'
  <2>1. CASE call[s].op = "post"
    <3>1. OutputRows(c)' = OutputRows(call[s])
      BY <1>5 DEF OutputRows
    <3> QED BY <1>2, <1>5, <1>6, <2>1, <3>1 DEF Written
  <2>2. CASE call[s].op = "reverse"
    <3>1. CompensationRows(c.batch)' = CompensationRows(call[s].batch)
      BY <1>5, <1>6 DEF CompensationRows, Compensation, MovementsOf
    <3>2. KeyHolders("reverse", c.key)' = KeyHolders("reverse", call[s].key)
      BY <1>5 DEF KeyHolders
    <3> QED BY <1>2, <1>5, <1>6, <2>2, <3>1, <3>2 DEF Written
  <2> QED BY <1>3, <2>1, <2>2
<1>11. SessionOK(s)'
  BY <1>2, <1>5, <1>7, <1>8, <1>9, <1>10 DEF SessionOK
<1>12. \A t \in Session \ {s} : Holding(t) => call[t].batch # c.batch
  BY <1>5 DEF ProductionInv, SessionsApart
<1>13. c.op = "reverse" =>
         \A t \in Session \ {s} : Writing(t) /\ call[t].op = "reverse" => call[t].key # c.key
  BY <1>5 DEF KeyFree, KeepsKey
<1>14. \/ c.op = "post" /\ \A m \in M : m.doc = <<"production", c.batch>>
       \/ c.op = "reverse" /\ \A m \in M : m.doc = <<"reversal", c.batch>>
  <2>1. ASSUME NEW m \in M
        PROVE  \/ c.op = "post" /\ m.doc = <<"production", c.batch>>
               \/ c.op = "reverse" /\ m.doc = <<"reversal", c.batch>>
    <3>1. CASE c.op = "post"
      <4>1. \A r \in call[s].rows : r.doc = <<"production", c.batch>>
        BY <1>1, <1>5, <3>1 DEF Quoted, InputsOf, Row
      <4>2. \A r \in OutputRows(call[s]) : r.doc = <<"production", c.batch>>
        BY <1>5 DEF OutputRows, Row
      <4> QED BY <1>5, <3>1, <4>1, <4>2
    <3>2. CASE c.op = "reverse"
      <4>1. PICK r \in movements : m = Compensation(call[s].batch, r)
        BY <1>5, <3>2 DEF CompensationRows, MovementsOf
      <4>2. r \in MovementRow
        BY ProductionAssumption DEF StreamTypeOK
      <4> QED BY <1>5, <3>2, <4>1, <4>2 DEF Compensation, MovementRow
    <3> QED BY <1>3, <1>5, <3>1, <3>2
  <2> QED BY <1>3, <1>5, <2>1
<1>15. M \cap movements = {}
  <2>1. BatchOK(c.batch)
    BY <1>3, <1>5 DEF ProductionInv
  <2>2. CASE c.op = "post"
    <3>1. MovementsOf("production", c.batch) = {}
      BY <1>1, <1>5, <2>1, <2>2 DEF BatchOK, Produced, Decided
    <3> QED BY <1>14, <2>2, <3>1 DEF MovementsOf
  <2>3. CASE c.op = "reverse"
    <3>1. MovementsOf("reversal", c.batch) = {}
      BY <1>1, <1>5, <2>1, <2>3 DEF BatchOK, Decided
    <3> QED BY <1>14, <2>3, <3>1 DEF MovementsOf
  <2> QED BY <1>3, <1>5, <2>2, <2>3
<1>16. ASSUME NEW t \in Session, t # s PROVE M \cap inserted[t] = {}
  <2> SUFFICES ASSUME NEW m \in M, m \in inserted[t] PROVE FALSE
    OBVIOUS
  <2>1. SessionOK(t) /\ movements \subseteq Movement
    BY DEF ProductionInv, StreamTypeOK
  <2>2. \/ Holding(t) /\ m.doc \in {<<"production", call[t].batch>>, <<"reversal", call[t].batch>>}
        \/ m.doc[1] = "receipt"
    BY <2>1, RowDocs
  <2>3. m.doc \in {<<"production", c.batch>>, <<"reversal", c.batch>>}
    BY <1>14
  <2> QED BY <1>12, <1>16, <2>2, <2>3
<1>17. calls' \in 0..MaxCalls /\ supplies' \in 0..MaxSupplies /\ supplies <= supplies'
  BY CountersKept DEF ProductionInv
<1> QED BY <1>2, <1>6, <1>11, <1>12, <1>13, <1>15, <1>16, <1>17, OwnCallStep

LEMMA WriteStep ==
  ASSUME ProductionInv, StreamTypeOK, NEW s \in Session, WriteProduction(s) \/ WriteReversal(s)
  PROVE  ProductionInv'
<1>1. SessionOK(s) /\ CallRecord(call[s])
  BY DEF ProductionInv, SessionOK
<1>2. CASE WriteProduction(s)
  <2>1. call[s].op = "post" /\ Holding(s)
    BY <1>1, <1>2, StageOf DEF WriteProduction, Holding
  <2> QED BY <1>2, <2>1, WritingStep DEF WriteProduction
<1>3. CASE WriteReversal(s)
  <2>1. call[s].op = "reverse" /\ Holding(s) /\ ~InTransaction(s)
    BY <1>1, <1>3, StageOf DEF WriteReversal, Holding, SessionOK, Writing
  <2>2. CASE KeyHolders("reverse", call[s].key) # {}
    <3>1. Return(s, "error") /\ UNCHANGED <<streamVars, batch, reversal, feed, calls, supplies>>
      BY <1>3, <2>2 DEF WriteReversal
    <3> QED BY <2>1, <3>1, ReturnStep
  <2>3. CASE KeyHolders("reverse", call[s].key) = {}
    <3>1. /\ InsertMovements(s, CompensationRows(call[s].batch)) /\ GoTo(s, "writing")
          /\ KeyFree(call[s].key) /\ UNCHANGED <<batch, reversal, feed, calls, supplies>>
      BY <1>3, <2>3 DEF WriteReversal
    <3> QED BY <2>1, <2>3, <3>1, WritingStep
  <2> QED BY <2>2, <2>3
<1> QED BY <1>2, <1>3

(* Locks, rebuilds and stuttering change nothing the invariant speaks of. *)
LEMMA SameTables ==
  ASSUME ProductionInv, UNCHANGED <<movements, inserted>>, UNCHANGED productionVars
  PROVE  ProductionInv'
<1> USE DEF ProductionInv
<1>1. UNCHANGED <<batch, reversal, call, feed, calls, supplies>>
  BY DEF productionVars
<1>2. Tables' /\ supplies \in Nat
  BY <1>1, ProductionAssumption DEF Tables
<1>3. ASSUME NEW t \in Session PROVE SessionOK(t)'
  <2>1. MovementsOf("production", call[t].batch)' = MovementsOf("production", call[t].batch)
    BY <1>1 DEF MovementsOf
  <2>2. Writing(t) /\ call[t].op = "reverse" => KeyHolders("reverse", call[t].key)' = {}
    BY <1>1 DEF SessionOK, Written, KeyHolders
  <2> QED BY <1>1, <1>2, <2>1, <2>2, SessionKept
<1>4. ASSUME NEW b \in Batch PROVE BatchOK(b)'
  <2>1. /\ MovementsOf("production", b)' = MovementsOf("production", b)
        /\ MovementsOf("reversal", b)' = MovementsOf("reversal", b)
        /\ FeedOf(b)' = FeedOf(b)
    BY <1>1 DEF MovementsOf, FeedOf
  <2> QED BY <1>1, <2>1, BatchKept
<1>5. SessionsApart' /\ KeysUnique' /\ RowsAreFresh'
  BY <1>1 DEF SessionsApart, KeysUnique, RowsAreFresh, Holding, Writing
<1> QED BY <1>2, <1>3, <1>4, <1>5

LEMMA StatementStep ==
  ASSUME ProductionInv, NEW s \in Session, StreamStatement(s)
  PROVE  ProductionInv'
<1>1. UNCHANGED <<movements, inserted>> /\ UNCHANGED productionVars
  BY DEF StreamStatement, lockValuationStream, rebuildInventoryBalance
<1> QED BY <1>1, SameTables

LEMMA SupplyStep ==
  ASSUME ProductionInv, StreamTypeOK, NEW s \in Session, StartSupply(s)
  PROVE  ProductionInv'
<1>1. PICK r \in Supply :
        InsertMovements(s, {Row("IN", l.item, l.quantity, l.cost, "FINAL", r.pos,
                                <<"receipt", supplies + 1>>, 0) : l \in r.lines})
  BY DEF StartSupply
<1>2. PICK M : M = {Row("IN", l.item, l.quantity, l.cost, "FINAL", r.pos,
                        <<"receipt", supplies + 1>>, 0) : l \in r.lines}
  OBVIOUS
<1>3. \A m \in M : m.doc = <<"receipt", supplies + 1>> /\ m.direction = "IN"
  BY <1>2 DEF Row
<1>4. PICK c : c = Call("supply", "writing", "none", 0, NoBatch, NoKey, NoContent)
  OBVIOUS
<1>5. call' = [call EXCEPT ![s] = c] /\ call'[s] = c
  BY <1>4 DEF StartSupply, ProductionInv, Tables
<1>6. /\ c.op = "supply" /\ c.step = "writing" /\ c.key = NoKey /\ c.content = NoContent
      /\ c.line = 0
      /\ c = [op |-> c.op, step |-> c.step, result |-> c.result, n |-> c.n, batch |-> c.batch,
              key |-> c.key, content |-> c.content, line |-> c.line, rows |-> c.rows]
  BY <1>4 DEF Call
<1>7. /\ inserted'[s] = M /\ M # {} /\ movements' = movements
      /\ \A t \in Session \ {s} : inserted'[t] = inserted[t]
  BY <1>1, <1>2, InsertEffect
<1>8. /\ UNCHANGED <<batch, reversal, feed, calls>>
      /\ supplies' = supplies + 1 /\ supplies \in Nat /\ supplies' \in 0..MaxSupplies
      /\ calls' \in 0..MaxCalls
  BY ProductionAssumption DEF StartSupply, ProductionInv, Tables
<1>9. CallRecord(c)
  <2>1. Len(Ingredient) \in Nat
    BY ProductionAssumption
  <2> QED BY <1>6, <2>1 DEF CallRecord, Stages, Content
<1>10. Writing(s)' /\ InTransaction(s)' /\ ~Holding(s)' /\ Quoted(c)'
  BY <1>5, <1>6, <1>7 DEF Writing, InTransaction, Holding, Quoted
<1>11. SessionOK(s)'
  <2>1. \A m \in M : /\ m.doc[1] = "receipt" /\ m.doc[2] \in 1..supplies'
                      /\ m.direction = "IN"
    BY <1>3, <1>8
  <2> QED BY <1>5, <1>6, <1>7, <1>9, <1>10, <2>1 DEF SessionOK, Decided, Written
<1>12. M \cap movements = {}
  <2>1. supplies + 1 \notin 1..supplies
    BY <1>8
  <2> QED BY <1>3, <2>1 DEF ProductionInv, Tables
<1>13. ASSUME NEW t \in Session, t # s PROVE M \cap inserted[t] = {}
  <2> SUFFICES ASSUME NEW m \in M, m \in inserted[t] PROVE FALSE
    OBVIOUS
  <2>1. SessionOK(t) /\ movements \subseteq Movement
    BY DEF ProductionInv, StreamTypeOK
  <2>2. \/ m.doc \in {<<"production", call[t].batch>>, <<"reversal", call[t].batch>>}
        \/ m.doc[2] \in 1..supplies
    BY <2>1, RowDocs
  <2>3. m.doc = <<"receipt", supplies + 1>>
    BY <1>3
  <2> QED BY <1>8, <2>2, <2>3
<1>14. supplies <= supplies'
  BY <1>8
<1> QED BY <1>5, <1>6, <1>7, <1>8, <1>10, <1>11, <1>12, <1>13, <1>14, OwnCallStep

LEMMA EndEffect ==
  ASSUME StreamTypeOK, NEW s \in Session, EndTransaction(s)
  PROVE  inserted'[s] = {} /\ \A t \in Session \ {s} : inserted'[t] = inserted[t]
BY DEF EndTransaction, StreamTypeOK

(* An error gives up what the session had written. *)
LEMMA GiveUpStep ==
  ASSUME ProductionInv, StreamTypeOK, NEW s \in Session, RefuseKey(s) \/ Rollback(s)
  PROVE  ProductionInv'
<1>1. Return(s, "error") /\ UNCHANGED <<batch, reversal, feed, calls, supplies>>
  BY DEF RefuseKey, Rollback
<1>2. CASE RollbackMovements(s)
  <2>1. /\ inserted'[s] = {} /\ \A t \in Session \ {s} : inserted'[t] = inserted[t]
        /\ movements' = movements
    BY <1>2, EndEffect DEF RollbackMovements, ledgerVars
  <2>2. PICK c : c = Idle(Outcome("error"))
    OBVIOUS
  <2>3. call' = [call EXCEPT ![s] = c] /\ call'[s] = c
    BY <1>1, <2>2 DEF Return, ProductionInv, Tables
  <2>4. SessionOK(s)' /\ ~Holding(s)' /\ ~Writing(s)'
    BY <2>1, <2>2, <2>3, IdleOK
  <2>5. calls' \in 0..MaxCalls /\ supplies' \in 0..MaxSupplies /\ supplies <= supplies'
    BY <1>1, CountersKept DEF ProductionInv
  <2> QED BY <1>1, <2>1, <2>3, <2>4, <2>5, OwnCallStep
<1>3. CASE UNCHANGED streamVars /\ call[s].step \in {"quote", "write"}
  <2>1. ~InTransaction(s)
    BY <1>3 DEF ProductionInv, SessionOK, Writing
  <2> QED BY <1>1, <1>3, <2>1, ReturnStep
<1> QED BY <1>2, <1>3 DEF RefuseKey, Rollback

-----------------------------------------------------------------------------
(* Commits *)

\* The batches that are not the document of s.
Others(s) == {d \in Batch : call[s].op # "supply" => d # call[s].batch}

LEMMA CommitEffect ==
  ASSUME ProductionInv, StreamTypeOK, NEW s \in Session, CommitMovements(s)
  PROVE  /\ movements' = movements \cup inserted[s] /\ Writing(s)
         /\ inserted'[s] = {} /\ \A t \in Session \ {s} : inserted'[t] = inserted[t]
         /\ \A d \in Others(s) :
              /\ MovementsOf("production", d)' = MovementsOf("production", d)
              /\ MovementsOf("reversal", d)' = MovementsOf("reversal", d)
<1>1. /\ movements' = movements \cup inserted[s]
      /\ inserted'[s] = {} /\ \A t \in Session \ {s} : inserted'[t] = inserted[t]
  BY EndEffect DEF CommitMovements
<1>2. SessionOK(s) /\ movements \subseteq Movement
  BY DEF ProductionInv, StreamTypeOK
<1>3. Writing(s)
  BY <1>2 DEF SessionOK, CommitMovements
<1>4. ASSUME NEW d \in Others(s), NEW m \in inserted[s]
      PROVE  m.doc # <<"production", d>> /\ m.doc # <<"reversal", d>>
  BY <1>2, <1>4, RowDocs DEF Others
<1> QED BY <1>1, <1>3, <1>4 DEF MovementsOf

(* A commit keeps the invariant if it leaves its own batch in order and the *)
(* others alone.                                                            *)
LEMMA CommitStepOf ==
  ASSUME ProductionInv, StreamTypeOK, NEW s \in Session, CommitMovements(s), Return(s, "created"),
         UNCHANGED <<calls, supplies>>,
         batch' \in [Batch -> BatchRecord], DOMAIN reversal' \subseteq Batch, KeysUnique',
         \A d \in Others(s) : /\ batch'[d] = batch[d]
                              /\ d \in DOMAIN reversal' <=> d \in DOMAIN reversal
                              /\ d \in DOMAIN reversal => reversal'[d] = reversal[d]
                              /\ FeedOf(d)' = FeedOf(d),
         \A d \in Batch \ Others(s) : BatchOK(d)',
         \A t \in Session \ {s} : Writing(t) /\ call[t].op = "reverse" =>
           KeyHolders("reverse", call[t].key)' = {}
  PROVE  ProductionInv'
<1> USE DEF ProductionInv
<1>1. /\ movements' = movements \cup inserted[s] /\ Writing(s)
      /\ inserted'[s] = {} /\ \A t \in Session \ {s} : inserted'[t] = inserted[t]
      /\ \A d \in Others(s) :
           /\ MovementsOf("production", d)' = MovementsOf("production", d)
           /\ MovementsOf("reversal", d)' = MovementsOf("reversal", d)
  BY CommitEffect
<1>2. PICK c : c = Idle(Outcome("created"))
  OBVIOUS
<1>3. /\ call'[s] = c /\ DOMAIN call' = Session
      /\ \A t \in Session \ {s} : call'[t] = call[t]
  BY <1>2 DEF Return, Tables
<1>4. SessionOK(s)' /\ ~Holding(s)' /\ ~Writing(s)'
  BY <1>1, <1>2, <1>3, IdleOK
<1>5. SessionOK(s) /\ CallRecord(call[s]) /\ supplies \in Nat
  BY ProductionAssumption DEF SessionOK, Tables
<1>6. call[s].op # "supply" => Holding(s)
  BY <1>1, <1>5, StageOf DEF Holding, Writing
<1>7. Tables'
  <2>1. ASSUME NEW m \in inserted[s], m.doc[1] = "receipt" PROVE m.doc[2] \in 1..supplies
    <3>1. movements \subseteq Movement
      BY DEF StreamTypeOK
    <3> QED BY <1>5, <2>1, <3>1, RowDocs
  <2> QED BY <1>1, <1>3, <2>1 DEF Tables
<1>8. ASSUME NEW t \in Session, t # s PROVE SessionOK(t)'
  <2>1. SessionOK(t) /\ CallRecord(call[t])
    BY DEF SessionOK
  <2>2. ASSUME Holding(t) PROVE call[t].batch \in Others(s)
    <3>1. call[t].batch \in Batch
      BY <2>1, <2>2 DEF Holding, CallRecord
    <3>2. Holding(s) => call[s].batch # call[t].batch
      BY <1>8, <2>2 DEF SessionsApart
    <3> QED BY <1>6, <3>1, <3>2 DEF Others
  <2>3. Holding(t) =>
           /\ batch'[call[t].batch] = batch[call[t].batch]
           /\ MovementsOf("production", call[t].batch)' = MovementsOf("production", call[t].batch)
    <3> SUFFICES ASSUME Holding(t)
                 PROVE  /\ batch'[call[t].batch] = batch[call[t].batch]
                        /\ MovementsOf("production", call[t].batch)'
                             = MovementsOf("production", call[t].batch)
      OBVIOUS
    <3>1. PICK d \in Others(s) : d = call[t].batch
      BY <2>2
    <3>2. d = call'[t].batch
      BY <1>3, <1>8, <3>1
    <3>3. MovementsOf("production", d)' = MovementsOf("production", d) /\ batch'[d] = batch[d]
      BY <1>1
    <3> QED BY <3>1, <3>2, <3>3
  <2>4. call'[t] = call[t] /\ inserted'[t] = inserted[t] /\ supplies' = supplies
    BY <1>1, <1>3, <1>8
  <2>5. Writing(t) /\ call[t].op = "reverse" => KeyHolders("reverse", call[t].key)' = {}
    BY <1>8
  <2> QED BY <1>5, <2>1, <2>3, <2>4, <2>5, SessionKept
<1>9. ASSUME NEW d \in Batch PROVE BatchOK(d)'
  <2>1. CASE d \in Others(s)
    BY <1>1, <2>1, BatchKept
  <2> QED BY <2>1
<1>10. \A t \in Session \ {s} : (Holding(t)' <=> Holding(t)) /\ (Writing(t)' <=> Writing(t))
  BY <1>3 DEF Holding, Writing
<1>11. SessionsApart'
  BY <1>3, <1>4, <1>10 DEF SessionsApart
<1>12. RowsAreFresh'
  BY <1>1 DEF RowsAreFresh
<1> QED BY <1>4, <1>7, <1>8, <1>9, <1>11, <1>12

LEMMA SupplyCommitStep ==
  ASSUME ProductionInv, StreamTypeOK, NEW s \in Session, SupplyCommit(s)
  PROVE  ProductionInv'
<1>1. /\ call[s].op = "supply" /\ CommitMovements(s) /\ Return(s, "created")
      /\ UNCHANGED <<batch, reversal, feed, calls, supplies>>
  BY DEF SupplyCommit
<1>2. Batch \ Others(s) = {}
  BY <1>1 DEF Others
<1>3. \A t \in Session \ {s} : Writing(t) /\ call[t].op = "reverse" =>
        KeyHolders("reverse", call[t].key)' = {}
  <2> SUFFICES ASSUME NEW t \in Session \ {s}, Writing(t), call[t].op = "reverse"
               PROVE  KeyHolders("reverse", call[t].key)' = {}
    OBVIOUS
  <2>1. call'[t] = call[t]
    BY <1>1 DEF Return, ProductionInv, Tables
  <2>2. KeyHolders("reverse", call[t].key) = {}
    BY DEF ProductionInv, SessionOK, Written
  <2> QED BY <1>1, <2>1, <2>2 DEF KeyHolders
<1>4. KeysUnique' /\ batch' \in [Batch -> BatchRecord] /\ DOMAIN reversal' \subseteq Batch
  BY <1>1 DEF ProductionInv, KeysUnique, Tables
<1>5. \A d \in Others(s) : /\ batch'[d] = batch[d]
                           /\ d \in DOMAIN reversal' <=> d \in DOMAIN reversal
                           /\ d \in DOMAIN reversal => reversal'[d] = reversal[d]
                           /\ FeedOf(d)' = FeedOf(d)
  BY <1>1 DEF FeedOf
<1> QED BY <1>1, <1>2, <1>3, <1>4, <1>5, CommitStepOf

(* The rows a post has inserted are those of one posting of its batch.      *)
LEMMA PostedRows ==
  ASSUME ProductionInv, NEW s \in Session, Writing(s), call[s].op = "post"
  PROVE  /\ Posting(call[s].batch, inserted[s], call[s].content)
         /\ Outs(inserted[s]) = call[s].rows
         /\ \A m \in inserted[s] : ~m.reversal /\ m.doc = <<"production", call[s].batch>>
<1> DEFINE c == call[s]
           b == c.batch
           a == batch[b].actual
           out == OutputRows(c)
           rows == inserted[s]
<1>1. InputsOf(b, c.rows, InputLine, c.content) /\ rows = c.rows \cup out
  BY DEF ProductionInv, SessionOK, Quoted, Written, InputLine
<1>2. \A m \in c.rows : /\ m.pos = c.content /\ m.id \in InputLine /\ m.direction = "OUT"
                        /\ m.item = Ingredient[m.id] /\ m.quantity = a.inputs[m.id]
                        /\ ~m.reversal /\ m.doc = <<"production", b>>
  BY <1>1 DEF InputsOf, Row
<1>3. \A m \in out : /\ m.pos = c.content /\ m.id = 0 /\ m.direction = "IN"
                     /\ m.item = Output /\ m.quantity = a.output
                     /\ m.cost = CostOf(c.rows) /\ m.certainty = MergedCertainty(c.rows)
                     /\ ~m.reversal /\ m.doc = <<"production", b>>
  BY DEF OutputRows, Row
<1>4. \A m, n \in out : m = n
  BY DEF OutputRows
<1>5. (\E m \in out : TRUE) <=> a.class # "TOTAL_LOSS"
  BY DEF OutputRows
<1>6. 0 \notin InputLine
  BY DEF InputLine
<1> HIDE DEF out
<1>7. Outs(rows) = c.rows
  BY <1>1, <1>2, <1>3 DEF Outs
<1>8. \A l \in InputLine :
        \E m \in rows : m.id = l /\ m.direction = "OUT"
                        /\ m.item = Ingredient[l] /\ m.quantity = a.inputs[l]
  BY <1>1, <1>2 DEF InputsOf
<1>9. \A m \in rows : m.id = 0 =>
       /\ m.direction = "IN" /\ m.item = Output /\ m.quantity = a.output
       /\ m.cost = CostOf(Outs(rows)) /\ m.certainty = MergedCertainty(Outs(rows))
  BY <1>1, <1>2, <1>3, <1>6, <1>7
<1>10. (\E m \in rows : m.id = 0) <=> a.class # "TOTAL_LOSS"
  BY <1>1, <1>2, <1>3, <1>5, <1>6
<1>11. \A m \in rows : m.pos = c.content /\ m.id \in InputLine \cup {0}
  BY <1>1, <1>2, <1>3
<1>12. \A m, n \in rows : m.id = n.id => m = n
  BY <1>1, <1>2, <1>3, <1>4, <1>6 DEF InputsOf
<1>13. Posting(b, rows, c.content)
  BY <1>8, <1>9, <1>10, <1>11, <1>12 DEF Posting
<1> QED BY <1>1, <1>2, <1>3, <1>7, <1>13

LEMMA PostCommitStep ==
  ASSUME ProductionInv, StreamTypeOK, NEW s \in Session, PostCommit(s)
  PROVE  ProductionInv'
<1>0. PICK c, b : c = call[s] /\ b = c.batch
  OBVIOUS
<1>1. /\ c.op = "post" /\ Writing(s) /\ ~KeyTaken(c) /\ CommitMovements(s) /\ Return(s, "created")
      /\ UNCHANGED <<reversal, calls, supplies>>
      /\ batch' = [batch EXCEPT ![b] = [@ EXCEPT !.posting = "POSTED", !.key = c.key,
                                                 !.pos = c.content]]
      /\ feed' = feed \cup mirrorInventoryConsumed(c, c.rows) \cup {mirrorProduction(c)}
  BY <1>0 DEF PostCommit
<1>2. /\ CallRecord(c) /\ b \in Batch /\ c.key \in Key /\ c.content \in ProductionPosition
      /\ batch[b].status = "FINALIZED" /\ batch[b].posting = "UNPOSTED"
  BY <1>0, <1>1 DEF ProductionInv, SessionOK, CallRecord, Decided, Holding, Writing
<1>3. batch \in [Batch -> BatchRecord] /\ BatchOK(b)
  BY <1>2 DEF ProductionInv, Tables
<1>4. PICK rec : rec = [batch[b] EXCEPT !.posting = "POSTED", !.key = c.key, !.pos = c.content]
  OBVIOUS
<1>5. /\ rec \in BatchRecord /\ rec.status = "FINALIZED" /\ rec.posting = "POSTED"
      /\ rec.key = c.key /\ rec.pos = c.content /\ rec.actual = batch[b].actual
  BY <1>2, <1>3, <1>4 DEF BatchRecord
<1>6. /\ batch' \in [Batch -> BatchRecord] /\ batch'[b] = rec
      /\ \A d \in Batch \ {b} : batch'[d] = batch[d]
  BY <1>1, <1>2, <1>3, <1>4, <1>5
<1>7. Others(s) = Batch \ {b}
  BY <1>0, <1>1 DEF Others
<1>8. /\ \A f \in mirrorInventoryConsumed(c, c.rows) : f.batch = b
      /\ mirrorProduction(c).batch = b
  BY <1>0 DEF mirrorInventoryConsumed, mirrorProduction
<1>9. ASSUME NEW d \in Others(s)
      PROVE  /\ batch'[d] = batch[d]
             /\ d \in DOMAIN reversal' <=> d \in DOMAIN reversal
             /\ d \in DOMAIN reversal => reversal'[d] = reversal[d]
             /\ FeedOf(d)' = FeedOf(d)
  BY <1>1, <1>6, <1>7, <1>8 DEF FeedOf
<1>10. KeysUnique'
  <2>1. \A d \in Batch : batch[d].key # c.key
    BY <1>1 DEF KeyTaken, KeyHolders
  <2> QED BY <1>1, <1>5, <1>6, <2>1 DEF ProductionInv, KeysUnique
<1>11. \A t \in Session \ {s} : Writing(t) /\ call[t].op = "reverse" =>
        KeyHolders("reverse", call[t].key)' = {}
  <2> SUFFICES ASSUME NEW t \in Session \ {s}, Writing(t), call[t].op = "reverse"
               PROVE  KeyHolders("reverse", call[t].key)' = {}
    OBVIOUS
  <2>1. call'[t] = call[t]
    BY <1>1 DEF Return, ProductionInv, Tables
  <2>2. KeyHolders("reverse", call[t].key) = {}
    BY DEF ProductionInv, SessionOK, Written
  <2> QED BY <1>1, <2>1, <2>2 DEF KeyHolders
<1>12. PICK rows : rows = inserted[s]
  OBVIOUS
<1>13. /\ Posting(b, rows, c.content) /\ Outs(rows) = c.rows
       /\ \A m \in rows : ~m.reversal /\ m.doc = <<"production", b>>
  BY <1>0, <1>1, <1>12, PostedRows
<1>14. MovementsOf("production", b) = {} /\ MovementsOf("reversal", b) = {} /\ FeedOf(b) = {}
  BY <1>2, <1>3, InitialFacts DEF BatchOK, Produced
<1>15. MovementsOf("production", b)' = rows /\ MovementsOf("reversal", b)' = {}
  <2>1. movements' = movements \cup rows
    BY <1>1, <1>12 DEF CommitMovements
  <2> QED BY <1>13, <1>14, <2>1 DEF MovementsOf
<1>16. BatchOK(b)'
  <2>1. Produced(b)'
    <3>1. Posting(b, rows, c.content)'
      BY <1>5, <1>6, <1>13 DEF Posting
    <3> QED BY <1>5, <1>6, <1>15, <3>1 DEF Produced
  <2>2. FeedOf(b)' = mirrorInventoryConsumed(c, c.rows) \cup {mirrorProduction(c)}
    BY <1>1, <1>8, <1>14 DEF FeedOf
  <2>3. FactsOf(b)' = mirrorInventoryConsumed(c, c.rows) \cup {mirrorProduction(c)}
    <3> DEFINE post == [batch |-> b, key |-> c.key, content |-> c.content, rows |-> c.rows]
    <3>1. Outs(c.rows) = c.rows
      BY <1>13 DEF Outs
    <3>2. mirrorInventoryConsumed(post, rows) = mirrorInventoryConsumed(c, c.rows)
      BY <1>0, <1>13, <3>1 DEF mirrorInventoryConsumed
    <3>3. mirrorProduction(post)' = mirrorProduction(c)
      BY <1>0, <1>5, <1>6 DEF mirrorProduction
    <3>4. FactsOf(b)' = mirrorInventoryConsumed(post, rows) \cup {mirrorProduction(post)'}
      BY <1>5, <1>6, <1>13, <1>15 DEF FactsOf, mirrorProduction
    <3> QED BY <3>2, <3>3, <3>4
  <2>4. batch'[b].key # NoKey /\ batch'[b].posting = "POSTED" /\ b \notin DOMAIN reversal'
    BY <1>1, <1>2, <1>3, <1>5, <1>6, ProductionAssumption DEF BatchOK
  <2>5. batch'[b].actual \in ActualRecord
    BY <1>2, <1>3, <1>5, <1>6 DEF BatchOK
  <2> QED BY <1>13, <1>15, <2>1, <2>2, <2>3, <2>4, <2>5 DEF BatchOK
<1>17. DOMAIN reversal' \subseteq Batch
  BY <1>1 DEF ProductionInv, Tables
<1> QED BY <1>1, <1>6, <1>7, <1>9, <1>10, <1>11, <1>16, <1>17, CommitStepOf

LEMMA ReverseCommitStep ==
  ASSUME ProductionInv, StreamTypeOK, NEW s \in Session, ReverseCommit(s)
  PROVE  ProductionInv'
<1>0. PICK c, b : c = call[s] /\ b = c.batch
  OBVIOUS
<1>1. /\ c.op = "reverse" /\ Writing(s) /\ CommitMovements(s) /\ Return(s, "created")
      /\ UNCHANGED <<calls, supplies>>
      /\ batch' = [batch EXCEPT ![b].posting = "REVERSED"]
      /\ reversal' = [d \in DOMAIN reversal \cup {b} |->
                        IF d = b THEN [n |-> c.n, key |-> c.key, content |-> c.content]
                                 ELSE reversal[d]]
      /\ feed' = feed \cup {mirrorProductionPostingReversed(c)}
  BY <1>0 DEF ReverseCommit
<1>2. /\ CallRecord(c) /\ b \in Batch /\ c.key \in Key /\ c.content \in Reason
      /\ batch[b].status = "FINALIZED" /\ batch[b].posting = "POSTED"
      /\ inserted[s] = CompensationRows(b) /\ KeyHolders("reverse", c.key) = {}
  BY <1>0, <1>1 DEF ProductionInv, SessionOK, CallRecord, Decided, Holding, Writing, Written
<1>3. batch \in [Batch -> BatchRecord] /\ BatchOK(b) /\ DOMAIN reversal \subseteq Batch
  BY <1>2 DEF ProductionInv, Tables
<1>4. PICK rec : rec = [batch[b] EXCEPT !.posting = "REVERSED"]
  OBVIOUS
<1>5. /\ rec \in BatchRecord /\ rec.status = "FINALIZED" /\ rec.posting = "REVERSED"
      /\ rec.key = batch[b].key /\ rec.pos = batch[b].pos /\ rec.actual = batch[b].actual
  BY <1>2, <1>3, <1>4 DEF BatchRecord
<1>6. /\ batch' \in [Batch -> BatchRecord] /\ batch'[b] = rec
      /\ \A d \in Batch \ {b} : batch'[d] = batch[d]
  BY <1>1, <1>2, <1>3, <1>4, <1>5
<1>7. Others(s) = Batch \ {b}
  BY <1>0, <1>1 DEF Others
<1>8. mirrorProductionPostingReversed(c).batch = b
  BY <1>0 DEF mirrorProductionPostingReversed
<1>9. /\ DOMAIN reversal' = DOMAIN reversal \cup {b} /\ b \notin DOMAIN reversal
      /\ reversal'[b].key = c.key /\ reversal'[b].content = c.content
      /\ \A d \in DOMAIN reversal : reversal'[d] = reversal[d]
  BY <1>1, <1>2, <1>3 DEF BatchOK
<1>10. ASSUME NEW d \in Others(s)
       PROVE  /\ batch'[d] = batch[d]
              /\ d \in DOMAIN reversal' <=> d \in DOMAIN reversal
              /\ d \in DOMAIN reversal => reversal'[d] = reversal[d]
              /\ FeedOf(d)' = FeedOf(d)
  BY <1>1, <1>6, <1>7, <1>8, <1>9 DEF FeedOf
<1>11. \A d \in DOMAIN reversal : reversal[d].key # c.key
  BY <1>2 DEF KeyHolders
<1>12. KeysUnique'
  <2>1. \A d \in Batch : batch'[d].key = batch[d].key
    BY <1>5, <1>6
  <2> QED BY <1>9, <1>11, <2>1 DEF ProductionInv, KeysUnique
<1>13. \A t \in Session \ {s} : Writing(t) /\ call[t].op = "reverse" =>
         KeyHolders("reverse", call[t].key)' = {}
  <2> SUFFICES ASSUME NEW t \in Session \ {s}, Writing(t), call[t].op = "reverse"
               PROVE  KeyHolders("reverse", call[t].key)' = {}
    OBVIOUS
  <2>1. call'[t] = call[t]
    BY <1>1 DEF Return, ProductionInv, Tables
  <2>2. KeyHolders("reverse", call[t].key) = {}
    BY DEF ProductionInv, SessionOK, Written
  <2>3. call[t].key # c.key
    BY <1>0, <1>1 DEF ProductionInv, SessionsApart
  <2> QED BY <1>9, <2>1, <2>2, <2>3 DEF KeyHolders
<1>14. \A m \in CompensationRows(b) : m.doc = <<"reversal", b>>
  <2>1. \A m \in movements : m \in MovementRow
    BY ProductionAssumption DEF StreamTypeOK
  <2> QED BY <2>1 DEF CompensationRows, MovementsOf, Compensation, MovementRow
<1>15. /\ MovementsOf("production", b)' = MovementsOf("production", b)
       /\ MovementsOf("reversal", b)' = CompensationRows(b)
  <2>1. MovementsOf("reversal", b) = {}
    BY <1>2, <1>3 DEF BatchOK
  <2>2. movements' = movements \cup CompensationRows(b)
    BY <1>1, <1>2 DEF CommitMovements
  <2> HIDE DEF CompensationRows
  <2> QED BY <1>14, <2>1, <2>2 DEF MovementsOf
<1>16. BatchOK(b)'
  <2> DEFINE rows == MovementsOf("production", b)
             post == [batch |-> b, key |-> batch[b].key, content |-> batch[b].pos,
                      rows |-> Outs(rows)]
  <2>1. Produced(b)'
    BY <1>2, <1>3, <1>5, <1>6, <1>15 DEF BatchOK, Produced, Posting
  <2>2. FeedOf(b)' = FeedOf(b) \cup {mirrorProductionPostingReversed(c)}
    BY <1>1, <1>8 DEF FeedOf
  <2>3. FeedOf(b) = mirrorInventoryConsumed(post, rows) \cup {mirrorProduction(post)}
    BY <1>2, <1>3 DEF BatchOK, FactsOf
  <2>4. FactsOf(b)' = (mirrorInventoryConsumed(post, rows) \cup {mirrorProduction(post)})
                      \cup {mirrorProductionPostingReversed(c)}
    <3>1. post' = post /\ rows' = rows
      BY <1>5, <1>6, <1>15
    <3>2. mirrorProduction(post)' = mirrorProduction(post)
      BY <1>5, <1>6, <3>1 DEF mirrorProduction
    <3>3. mirrorProductionPostingReversed([batch |-> b, key |-> reversal[b].key])'
            = mirrorProductionPostingReversed(c)
      BY <1>0, <1>5, <1>6, <1>9 DEF mirrorProductionPostingReversed
    <3>4. mirrorInventoryConsumed(post, rows)' = mirrorInventoryConsumed(post, rows)
      BY <3>1
    <3> QED BY <1>5, <1>6, <3>2, <3>3, <3>4 DEF FactsOf
  <2>5. CompensationRows(b)' = CompensationRows(b)
    BY <1>15 DEF CompensationRows, Compensation
  <2>6. batch'[b].key # NoKey /\ batch'[b].actual \in ActualRecord
        /\ \A m \in MovementsOf("production", b)' : ~m.reversal
    BY <1>2, <1>3, <1>5, <1>6, <1>15 DEF BatchOK
  <2> QED BY <1>2, <1>5, <1>6, <1>9, <1>15, <2>1, <2>2, <2>3, <2>4, <2>5, <2>6 DEF BatchOK
<1>17. DOMAIN reversal' \subseteq Batch
  BY <1>2, <1>3, <1>9
<1> QED BY <1>1, <1>6, <1>7, <1>10, <1>12, <1>13, <1>16, <1>17, CommitStepOf

-----------------------------------------------------------------------------
(* The draft *)

LEMMA ActualsAreRecords == Actual \subseteq ActualRecord
<1> SUFFICES ASSUME NEW a \in Actual PROVE a \in ActualRecord
  OBVIOUS
<1>1. a \in Recorded
  BY ProductionAssumption
<1>2. a.inputs \in [InputLine -> Range(a.inputs)]
  BY <1>1 DEF Recorded, Range
<1>3. Range(a.inputs) \subseteq UNION {Range(x.inputs) : x \in Actual}
  OBVIOUS
<1>4. a.inputs \in [InputLine -> UNION {Range(x.inputs) : x \in Actual}]
  BY <1>2, <1>3
<1> QED BY <1>1, <1>4 DEF Recorded, ActualRecord

LEMMA OverridesAreRecords ==
  ASSUME NEW old \in ActualRecord, NEW a \in Actual, NEW x \in Overrides(old, a)
  PROVE  x \in ActualRecord
<1>1. a \in ActualRecord
  BY ActualsAreRecords
<1>2. PICK given \in SUBSET {"output", "class", "reasoned"}, lines \in SUBSET InputLine :
        x = [inputs   |-> InputActuals(old.inputs, a.inputs, lines),
             output   |-> IF "output" \in given THEN a.output ELSE old.output,
             class    |-> IF "class" \in given THEN a.class ELSE old.class,
             reasoned |-> IF "reasoned" \in given THEN a.reasoned ELSE old.reasoned]
  BY DEF Overrides
<1>3. InputActuals(old.inputs, a.inputs, lines) \in
        [InputLine -> UNION {Range(y.inputs) : y \in Actual}]
  BY <1>1 DEF InputActuals, ActualRecord
<1> QED BY <1>1, <1>2, <1>3 DEF ActualRecord

(* Commands change a batch that is not finalized and that nobody holds, and *)
(* only what they record.                                                   *)
LEMMA EditEffect ==
  ASSUME ProductionInv, NEW b \in Batch, Edit(b)
  PROVE  /\ \E rec \in BatchRecord :
              /\ batch' = [batch EXCEPT ![b] = rec]
              /\ rec.actual \in ActualRecord /\ rec.status \in {"DRAFT", "FINALIZED"}
              /\ rec.posting = batch[b].posting /\ rec.key = batch[b].key
         /\ batch[b].status # "FINALIZED"
<1>1. batch \in [Batch -> BatchRecord] /\ batch[b] \in BatchRecord /\ BatchOK(b)
  BY DEF ProductionInv, Tables
<1> DEFINE Edited ==
      /\ \E rec \in BatchRecord :
           /\ batch' = [batch EXCEPT ![b] = rec]
           /\ rec.actual \in ActualRecord /\ rec.status \in {"DRAFT", "FINALIZED"}
           /\ rec.posting = batch[b].posting /\ rec.key = batch[b].key
      /\ batch[b].status # "FINALIZED"
<1>2. ASSUME NEW a \in Actual, CreateDraft(b, a) PROVE Edited
  <2>1. PICK x \in Overrides(Planned, a) :
          batch' = [batch EXCEPT ![b] = [@ EXCEPT !.status = "DRAFT", !.actual = x]]
    BY <1>2 DEF CreateDraft
  <2>2. x \in ActualRecord
    BY ActualsAreRecords, OverridesAreRecords, ProductionAssumption
  <2>3. PICK rec : rec = [batch[b] EXCEPT !.status = "DRAFT", !.actual = x]
    OBVIOUS
  <2>4. rec \in BatchRecord /\ rec.actual = x /\ rec.status = "DRAFT"
        /\ rec.posting = batch[b].posting /\ rec.key = batch[b].key
    BY <1>1, <2>2, <2>3 DEF BatchRecord
  <2>5. batch' = [batch EXCEPT ![b] = rec]
    BY <1>1, <2>1, <2>3
  <2> QED BY <1>2, <2>2, <2>4, <2>5 DEF CreateDraft
<1>3. ASSUME NEW a \in Actual, UpdateDraft(b, a) PROVE Edited
  <2>1. PICK x \in Overrides(batch[b].actual, a) : batch' = [batch EXCEPT ![b].actual = x]
    BY <1>3 DEF UpdateDraft
  <2>2. x \in ActualRecord
    BY <1>1, <1>3, OverridesAreRecords DEF UpdateDraft, BatchOK
  <2>3. PICK rec : rec = [batch[b] EXCEPT !.actual = x]
    OBVIOUS
  <2>4. rec \in BatchRecord /\ rec.actual = x /\ rec.status = "DRAFT"
        /\ rec.posting = batch[b].posting /\ rec.key = batch[b].key
    BY <1>1, <1>3, <2>2, <2>3 DEF BatchRecord, UpdateDraft
  <2>5. batch' = [batch EXCEPT ![b] = rec]
    BY <1>1, <2>1, <2>3
  <2> QED BY <1>3, <2>2, <2>4, <2>5 DEF UpdateDraft
<1>4. ASSUME NEW k \in Key, Finalize(b, k) PROVE Edited
  <2>1. batch' = [batch EXCEPT ![b] = [@ EXCEPT !.status = "FINALIZED", !.finalizeKey = k]]
    BY <1>4 DEF Finalize
  <2>2. batch[b].actual \in ActualRecord
    BY <1>1, <1>4 DEF BatchOK, Finalize
  <2>3. PICK rec : rec = [batch[b] EXCEPT !.status = "FINALIZED", !.finalizeKey = k]
    OBVIOUS
  <2>4. rec \in BatchRecord /\ rec.actual = batch[b].actual /\ rec.status = "FINALIZED"
        /\ rec.posting = batch[b].posting /\ rec.key = batch[b].key
    BY <1>1, <2>2, <2>3 DEF BatchRecord
  <2>5. batch' = [batch EXCEPT ![b] = rec]
    BY <1>1, <2>1, <2>3
  <2> QED BY <1>4, <2>2, <2>4, <2>5 DEF Finalize
<1> HIDE DEF Edited
<1>5. Edited
  BY <1>2, <1>3, <1>4 DEF Edit
<1> QED BY <1>5 DEF Edited

LEMMA EditStep ==
  ASSUME ProductionInv, NEW b \in Batch, Edit(b)
  PROVE  ProductionInv'
<1> USE DEF ProductionInv
<1>1. PICK rec \in BatchRecord :
        /\ batch' = [batch EXCEPT ![b] = rec]
        /\ rec.actual \in ActualRecord /\ rec.status \in {"DRAFT", "FINALIZED"}
        /\ rec.posting = batch[b].posting /\ rec.key = batch[b].key
  BY EditEffect
<1>2. UNCHANGED <<movements, inserted, reversal, call, feed, calls, supplies>>
  BY DEF Edit, streamVars
<1>3. batch \in [Batch -> BatchRecord] /\ BatchOK(b) /\ batch[b].status # "FINALIZED"
  BY EditEffect DEF Tables
<1>4. /\ batch' \in [Batch -> BatchRecord] /\ batch'[b] = rec
      /\ \A d \in Batch \ {b} : batch'[d] = batch[d]
  BY <1>1, <1>3
<1>5. Tables' /\ supplies \in Nat
  BY <1>2, <1>4, ProductionAssumption DEF Tables
<1>6. ASSUME NEW t \in Session PROVE SessionOK(t)'
  <2>1. Holding(t) => batch'[call[t].batch] = batch[call[t].batch]
    <3>1. SessionOK(t)
      OBVIOUS
    <3>2. Holding(t) => call[t].batch \in Batch \ {b}
      BY <1>3, <3>1 DEF SessionOK, Decided, CallRecord, Holding
    <3> QED BY <1>4, <3>2
  <2>2. MovementsOf("production", call[t].batch)' = MovementsOf("production", call[t].batch)
    BY <1>2 DEF MovementsOf
  <2>3. Writing(t) /\ call[t].op = "reverse" => KeyHolders("reverse", call[t].key)' = {}
    BY <1>2 DEF SessionOK, Written, KeyHolders
  <2> QED BY <1>2, <1>5, <2>1, <2>2, <2>3, SessionKept
<1>7. ASSUME NEW d \in Batch PROVE BatchOK(d)'
  <2>1. /\ MovementsOf("production", d)' = MovementsOf("production", d)
        /\ MovementsOf("reversal", d)' = MovementsOf("reversal", d)
        /\ FeedOf(d)' = FeedOf(d)
    BY <1>2 DEF MovementsOf, FeedOf
  <2>2. CASE d # b
    BY <1>2, <1>4, <2>1, <2>2, BatchKept
  <2>3. CASE d = b
    <3>1. batch[b].posting = "UNPOSTED"
      BY <1>3 DEF BatchOK, Produced
    <3>2. FactsOf(b)' = {} /\ FactsOf(b) = {}
      BY <1>1, <1>4, <3>1 DEF FactsOf
    <3>3. /\ batch'[b].posting = "UNPOSTED" /\ batch'[b].key = NoKey
          /\ b \notin DOMAIN reversal'
          /\ MovementsOf("production", b)' = {} /\ MovementsOf("reversal", b)' = {}
          /\ FeedOf(b)' = {}
      BY <1>1, <1>2, <1>3, <1>4, <2>1, <2>3, <3>1, <3>2 DEF BatchOK, Produced
    <3> QED BY <1>1, <1>4, <2>3, <3>2, <3>3 DEF BatchOK, Produced
  <2> QED BY <2>2, <2>3
<1>8. KeysUnique'
  <2>1. \A d \in Batch : batch'[d].key = batch[d].key
    BY <1>1, <1>4
  <2> QED BY <1>2, <2>1 DEF KeysUnique
<1>9. SessionsApart' /\ RowsAreFresh'
  BY <1>2 DEF SessionsApart, RowsAreFresh, Holding, Writing
<1> QED BY <1>5, <1>6, <1>7, <1>8, <1>9


-----------------------------------------------------------------------------
(* Theorems *)

LEMMA ProductionStepInv ==
  ASSUME StreamInv, ProductionInv, [Next]_vars
  PROVE  ProductionInv'
<1>1. StreamTypeOK
  BY DEF StreamInv
<1>2. CASE UNCHANGED vars
  BY <1>2, SameTables DEF vars, streamVars
<1>3. ASSUME NEW b \in Batch, Edit(b) PROVE ProductionInv'
  BY <1>3, EditStep
<1>4. ASSUME NEW s \in Session, StartCall(s) PROVE ProductionInv'
  BY <1>4, StartCallStep
<1>5. ASSUME NEW s \in Session, StartSupply(s) PROVE ProductionInv'
  BY <1>1, <1>5, SupplyStep
<1>6. ASSUME NEW s \in Session, PeekBatch(s) \/ CheckKey(s) \/ LockBatch(s)
      PROVE  ProductionInv'
  BY <1>6, DecideStep
<1>7. ASSUME NEW s \in Session, QuoteLine(s) PROVE ProductionInv'
  BY <1>7, QuoteStep
<1>8. ASSUME NEW s \in Session, WriteProduction(s) \/ WriteReversal(s) PROVE ProductionInv'
  BY <1>1, <1>8, WriteStep
<1>9. ASSUME NEW s \in Session, StreamStatement(s) PROVE ProductionInv'
  BY <1>9, StatementStep
<1>10. ASSUME NEW s \in Session, PostCommit(s) PROVE ProductionInv'
  BY <1>1, <1>10, PostCommitStep
<1>11. ASSUME NEW s \in Session, ReverseCommit(s) PROVE ProductionInv'
  BY <1>1, <1>11, ReverseCommitStep
<1>12. ASSUME NEW s \in Session, SupplyCommit(s) PROVE ProductionInv'
  BY <1>1, <1>12, SupplyCommitStep
<1>13. ASSUME NEW s \in Session, RefuseKey(s) \/ Rollback(s) PROVE ProductionInv'
  BY <1>1, <1>13, GiveUpStep
<1> QED BY <1>2, <1>3, <1>4, <1>5, <1>6, <1>7, <1>8, <1>9, <1>10, <1>11, <1>12, <1>13
        DEF Next, CallStep

LEMMA ProductionInductive ==
  StreamInv /\ ProductionInv /\ [Next]_vars => (StreamInv /\ ProductionInv)'
<1> SUFFICES ASSUME StreamInv, ProductionInv, [Next]_vars
             PROVE  (StreamInv /\ ProductionInv)'
  OBVIOUS
<1>1. StreamInv'
  BY NextIsStreamStepOrStutter, StreamStepInv, StreamStutter
<1> QED BY <1>1, ProductionStepInv

LEMMA ProductionStarts == Init => StreamInv /\ ProductionInv
BY StreamInvInit, ProductionInvInit DEF Init

(* Whatever posts, reversals and receipts interleave, and whatever becomes  *)
(* of their transactions, every committed balance is the replay of the      *)
(* committed movements of its stream.                                       *)
THEOREM ProductionKeepsBalances == Spec => []BalanceIsReplay
<1>1. StreamInv /\ ProductionInv => BalanceIsReplay
  BY DEF StreamInv
<1> QED BY <1>1, ProductionStarts, ProductionInductive, PTL DEF Spec

LEMMA ProductionRowsAreFinite == Spec => [](StreamInv /\ RowsAreFinite)
<1>1. Init => StreamInv /\ RowsAreFinite
  BY StreamInvInit, FiniteInit DEF Init
<1>2. StreamInv /\ RowsAreFinite /\ [Next]_vars => (StreamInv /\ RowsAreFinite)'
  <2>1. SUFFICES ASSUME StreamInv, RowsAreFinite, [Next]_vars PROVE (StreamInv /\ RowsAreFinite)'
    OBVIOUS
  <2>2. ASSUME NEW s \in Session, StreamStep(s) PROVE (StreamInv /\ RowsAreFinite)'
    BY <2>1, <2>2, StreamStepInv, FiniteStep DEF StreamInv
  <2>3. CASE UNCHANGED streamVars
    BY <2>1, <2>3, StreamStutter, FiniteStutter
  <2> QED BY <2>1, <2>2, <2>3, NextIsStreamStepOrStutter
<1> QED BY <1>1, <1>2, PTL DEF Spec

(* Stock is conserved by production: a batch takes its inputs and brings in *)
(* its output, a reversal undoes both, and whatever interleaves, fails or   *)
(* rolls back, a committed balance has on hand what the committed rows      *)
(* brought in less what they took (production-posting-service.ts).          *)
THEOREM ProductionConservesStock == Spec => []StockIsWhatMoved
<1>1. StreamInv /\ RowsAreFinite => StockIsWhatMoved
  BY ReplaysAreWhatMoved DEF StreamInv
<1> QED BY <1>1, ProductionRowsAreFinite, PTL

(* Batches, reversals, calls and streams keep their types; there is a       *)
(* reversal for exactly the reversed batches, and a call that holds a batch *)
(* still finds it as it was when it decided.                                *)
THEOREM ProductionTypeCorrect == Spec => []TypeOK
<1>1. StreamInv /\ ProductionInv => TypeOK
  BY InvGivesType DEF StreamInv
<1> QED BY <1>1, ProductionStarts, ProductionInductive, PTL DEF Spec

(* A batch owns no movement before it is posted; from then on it owns one   *)
(* OUT per input line and, unless all was lost, one IN at exactly their     *)
(* cost, however many sessions post, reverse and quote at once.             *)
THEOREM BatchesProducedOnce == Spec => []ProducedOnce
<1>1. StreamInv /\ ProductionInv => ProducedOnce
  BY DEF ProductionInv, BatchOK, ProducedOnce
<1> QED BY <1>1, ProductionStarts, ProductionInductive, PTL DEF Spec

(* Seen from inventory, postings, reversals and receipts are the one-step   *)
(* ledger.                                                                  *)
THEOREM ProductionImplementsLedger == Spec => ImplementsLedger
<1>1. Init => LedgerInit
  BY DEF Init, StreamInit
<1>2. StreamInv /\ ProductionInv /\ [Next]_vars => [LedgerNext]_ledgerVars
  <2> SUFFICES ASSUME StreamInv, ProductionInv, [Next]_vars
               PROVE  LedgerNext \/ UNCHANGED ledgerVars
    OBVIOUS
  <2>1. CASE UNCHANGED streamVars
    BY <2>1 DEF streamVars, ledgerVars
  <2>2. ASSUME NEW s \in Session, CommitMovements(s) PROVE LedgerNext
    BY <2>2, CommitPosts DEF ProductionInv
  <2>3. ASSUME NEW s \in Session, StreamStep(s), ~CommitMovements(s)
        PROVE  UNCHANGED ledgerVars
    BY <2>3 DEF StreamStep, InsertMovements, RollbackMovements, lockValuationStream,
                rebuildInventoryBalance, ledgerVars
  <2> QED BY <2>1, <2>2, <2>3, NextIsStreamStepOrStutter
<1> QED BY <1>1, <1>2, ProductionStarts, ProductionInductive, PTL
        DEF Spec, ImplementsLedger, LedgerSpec


(* Only a command, a posting and a reversal change a batch's row.           *)
LEMMA BatchRowChanges ==
  ASSUME [Next]_vars
  PROVE  \/ batch' = batch /\ reversal' = reversal
         \/ \E b \in Batch : Edit(b)
         \/ \E s \in Session : PostCommit(s) \/ ReverseCommit(s)
<1>1. CASE UNCHANGED vars
  BY <1>1 DEF vars, productionVars
<1>2. ASSUME NEW s \in Session,
             \/ StartCall(s) \/ StartSupply(s) \/ PeekBatch(s) \/ CheckKey(s) \/ LockBatch(s)
             \/ QuoteLine(s) \/ WriteProduction(s) \/ WriteReversal(s) \/ StreamStatement(s)
             \/ RefuseKey(s) \/ SupplyCommit(s) \/ Rollback(s)
      PROVE  batch' = batch /\ reversal' = reversal
  BY <1>2 DEF StartCall, StartSupply, PeekBatch, CheckKey, LockBatch, QuoteLine,
              WriteProduction, WriteReversal, StreamStatement, productionVars, RefuseKey,
              SupplyCommit, Rollback
<1> QED BY <1>1, <1>2 DEF Next, CallStep

LEMMA PostRow ==
  ASSUME ProductionInv, NEW s \in Session, PostCommit(s), NEW b \in Batch
  PROVE  /\ batch'[b].status = batch[b].status /\ batch'[b].actual = batch[b].actual
         /\ batch'[b].finalizeKey = batch[b].finalizeKey
         /\ b # call[s].batch => batch'[b] = batch[b]
         /\ b = call[s].batch =>
              /\ batch[b].posting = "UNPOSTED" /\ batch'[b].posting = "POSTED"
              /\ batch'[b].key = call[s].key /\ batch'[b].pos = call[s].content
<1>1. batch \in [Batch -> BatchRecord] /\ SessionOK(s)
  BY DEF ProductionInv, Tables
<1>2. PICK c : c = call[s]
  OBVIOUS
<1>3. c.batch \in Batch /\ batch[c.batch].posting = "UNPOSTED"
  BY <1>1, <1>2 DEF SessionOK, CallRecord, Decided, Holding, PostCommit, Writing
<1>4. PICK rec : rec = [batch[c.batch] EXCEPT !.posting = "POSTED", !.key = c.key,
                                              !.pos = c.content]
  OBVIOUS
<1>5. /\ rec.status = batch[c.batch].status /\ rec.actual = batch[c.batch].actual
      /\ rec.finalizeKey = batch[c.batch].finalizeKey /\ rec.posting = "POSTED"
      /\ rec.key = c.key /\ rec.pos = c.content
  BY <1>1, <1>3, <1>4 DEF BatchRecord
<1>6. batch' = [batch EXCEPT ![c.batch] = rec]
  BY <1>2, <1>4 DEF PostCommit
<1> QED BY <1>1, <1>2, <1>3, <1>5, <1>6

LEMMA ReversedRow ==
  ASSUME ProductionInv, NEW s \in Session, ReverseCommit(s), NEW b \in Batch
  PROVE  /\ batch'[b].status = batch[b].status /\ batch'[b].actual = batch[b].actual
         /\ batch'[b].finalizeKey = batch[b].finalizeKey
         /\ batch'[b].key = batch[b].key /\ batch'[b].pos = batch[b].pos
         /\ b # call[s].batch => batch'[b] = batch[b]
         /\ b = call[s].batch =>
              batch[b].posting = "POSTED" /\ batch'[b].posting = "REVERSED"
<1>1. batch \in [Batch -> BatchRecord] /\ SessionOK(s)
  BY DEF ProductionInv, Tables
<1>2. PICK c : c = call[s]
  OBVIOUS
<1>3. c.batch \in Batch /\ batch[c.batch].posting = "POSTED"
  BY <1>1, <1>2 DEF SessionOK, CallRecord, Decided, Holding, ReverseCommit, Writing
<1>4. PICK rec : rec = [batch[c.batch] EXCEPT !.posting = "REVERSED"]
  OBVIOUS
<1>5. /\ rec.status = batch[c.batch].status /\ rec.actual = batch[c.batch].actual
      /\ rec.finalizeKey = batch[c.batch].finalizeKey /\ rec.posting = "REVERSED"
      /\ rec.key = batch[c.batch].key /\ rec.pos = batch[c.batch].pos
  BY <1>1, <1>3, <1>4 DEF BatchRecord
<1>6. batch' = [batch EXCEPT ![c.batch] = rec]
  BY <1>1, <1>2, <1>3, <1>4 DEF ReverseCommit
<1> QED BY <1>1, <1>2, <1>3, <1>5, <1>6

LEMMA FinalizedStep ==
  ASSUME ProductionInv, [Next]_vars, NEW b \in Batch, batch[b].status = "FINALIZED"
  PROVE  LET old == batch[b] IN
         /\ batch'[b].status = "FINALIZED" /\ batch'[b].actual = old.actual
         /\ batch'[b].finalizeKey = old.finalizeKey
         /\ <<old.posting, batch'[b].posting>> \in
              {<<"UNPOSTED", "POSTED">>, <<"POSTED", "REVERSED">>} \cup
              {<<p, p>> : p \in {"UNPOSTED", "POSTED", "REVERSED"}}
         /\ old.posting # "UNPOSTED" => batch'[b].key = old.key /\ batch'[b].pos = old.pos
<1>1. batch[b].posting \in {"UNPOSTED", "POSTED", "REVERSED"}
  BY DEF ProductionInv, Tables, BatchRecord
<1>2. CASE batch'[b] = batch[b]
  BY <1>1, <1>2
<1>3. ASSUME NEW d \in Batch, Edit(d) PROVE batch'[b] = batch[b]
  <2>1. PICK rec : batch' = [batch EXCEPT ![d] = rec] /\ batch[d].status # "FINALIZED"
    BY <1>3, EditEffect
  <2> QED BY <2>1 DEF ProductionInv, Tables
<1>4. ASSUME NEW s \in Session, PostCommit(s), batch'[b] # batch[b]
      PROVE  /\ batch[b].posting = "UNPOSTED" /\ batch'[b].posting = "POSTED"
             /\ batch'[b].status = "FINALIZED" /\ batch'[b].actual = batch[b].actual
             /\ batch'[b].finalizeKey = batch[b].finalizeKey
  BY <1>4, PostRow
<1>5. ASSUME NEW s \in Session, ReverseCommit(s), batch'[b] # batch[b]
      PROVE  /\ batch[b].posting = "POSTED" /\ batch'[b].posting = "REVERSED"
             /\ batch'[b].status = "FINALIZED" /\ batch'[b].actual = batch[b].actual
             /\ batch'[b].finalizeKey = batch[b].finalizeKey
             /\ batch'[b].key = batch[b].key /\ batch'[b].pos = batch[b].pos
  BY <1>5, ReversedRow
<1> QED BY <1>2, <1>3, <1>4, <1>5, BatchRowChanges

(* A finalized batch is never changed, and its posting only goes from       *)
(* UNPOSTED to POSTED to REVERSED, whatever commands and calls race.        *)
THEOREM FinalizedStays == Spec => FinalizedIsImmutable
<1>1. StreamInv /\ ProductionInv /\ [Next]_vars =>
        [ \A b \in Batch : LET old == batch[b] IN
            batch[b].status = "FINALIZED" =>
              /\ batch'[b].status = "FINALIZED" /\ batch'[b].actual = old.actual
              /\ batch'[b].finalizeKey = old.finalizeKey
              /\ <<old.posting, batch'[b].posting>> \in
                   {<<"UNPOSTED", "POSTED">>, <<"POSTED", "REVERSED">>} \cup
                   {<<p, p>> : p \in {"UNPOSTED", "POSTED", "REVERSED"}}
              /\ old.posting # "UNPOSTED" =>
                   batch'[b].key = old.key /\ batch'[b].pos = old.pos ]_vars
  BY FinalizedStep
<1> QED BY <1>1, ProductionStarts, ProductionInductive, PTL DEF Spec, FinalizedIsImmutable


(* A call is answered by a step of its own.                                 *)
LEMMA OthersKeepCall ==
  ASSUME ProductionInv, [Next]_vars, NEW s \in Session, call'[s] # call[s]
  PROVE  StartCall(s) \/ StartSupply(s) \/ CallStep(s) \/ Rollback(s)
<1>1. DOMAIN call = Session
  BY DEF ProductionInv, Tables
<1>2. ASSUME NEW t \in Session, t # s, NEW c, call' = [call EXCEPT ![t] = c] PROVE FALSE
  BY <1>1, <1>2
<1>3. ASSUME NEW t \in Session, t # s, NEW step, GoTo(t, step) PROVE FALSE
  BY <1>2, <1>3 DEF GoTo
<1>4. ASSUME NEW t \in Session, t # s, NEW answer, Return(t, answer) PROVE FALSE
  BY <1>2, <1>4 DEF Return
<1>5. ASSUME NEW t \in Session, t # s, StartCall(t) \/ StartSupply(t) PROVE FALSE
  BY <1>2, <1>5 DEF StartCall, StartSupply
<1>6. ASSUME NEW t \in Session, t # s, PeekBatch(t) \/ CheckKey(t) \/ LockBatch(t) PROVE FALSE
  BY <1>3, <1>4, <1>6 DEF PeekBatch, CheckKey, LockBatch, Decide
<1>7. ASSUME NEW t \in Session, t # s, QuoteLine(t) PROVE FALSE
  BY <1>2, <1>7 DEF QuoteLine
<1>8. ASSUME NEW t \in Session, t # s, WriteProduction(t) \/ WriteReversal(t) PROVE FALSE
  BY <1>3, <1>4, <1>8 DEF WriteProduction, WriteReversal
<1>9. ASSUME NEW t \in Session, t # s, StreamStatement(t) PROVE FALSE
  BY <1>9 DEF StreamStatement, productionVars
<1>10. ASSUME NEW t \in Session, t # s,
              PostCommit(t) \/ ReverseCommit(t) \/ RefuseKey(t) \/ SupplyCommit(t) \/ Rollback(t)
       PROVE  FALSE
  BY <1>4, <1>10 DEF PostCommit, ReverseCommit, RefuseKey, SupplyCommit, Rollback
<1>11. ASSUME NEW b \in Batch PROVE ~Edit(b)
  BY DEF Edit
<1>12. CASE UNCHANGED vars
  BY <1>12 DEF vars, productionVars
<1> QED BY <1>5, <1>6, <1>7, <1>8, <1>9, <1>10, <1>11, <1>12 DEF Next, CallStep

LEMMA ReturnedAnswer ==
  ASSUME DOMAIN call = Session, NEW s \in Session, NEW answer, Return(s, answer)
  PROVE  /\ call'[s].step = "done"
         /\ call'[s].result = "duplicate" <=> answer = "duplicate"
<1>1. call'[s] = Idle(Outcome(answer))
  BY DEF Return
<1> QED BY <1>1 DEF Idle, Call, Outcome

LEMMA DecidedAnswer ==
  ASSUME DOMAIN call = Session, NEW s \in Session, NEW answer, NEW step, step # "done",
         CallRecord(call[s]), Decide(s, answer, step), call'[s].step = "done"
  PROVE  call'[s].result = "duplicate" <=> answer = "duplicate"
<1>1. CASE answer = "go on"
  <2>1. call'[s] = [call[s] EXCEPT !.step = step]
    BY <1>1 DEF Decide, GoTo
  <2>2. call'[s].step = step
    BY <2>1 DEF CallRecord
  <2> QED BY <2>2
<1>2. CASE answer # "go on"
  BY <1>2, ReturnedAnswer DEF Decide
<1> QED BY <1>1, <1>2

LEMMA BatchAnswerIsTrue ==
  ASSUME NEW c, CallRecord(c), c.op \in {"post", "reverse"}, BatchOK(c.batch),
         NEW ifReversed, ifReversed # "duplicate", batch[c.batch] \in BatchRecord
  PROVE  BatchAnswer(c, ifReversed) = "duplicate" <=>
           (IF c.op = "post" THEN Posted(c) ELSE Reversed(c))
<1>1. batch[c.batch].posting \in {"UNPOSTED", "POSTED", "REVERSED"}
  BY DEF BatchRecord
<1>2. CASE c.op = "post"
  <2>1. batch[c.batch].posting = "POSTED" => batch[c.batch].status = "FINALIZED"
    BY DEF BatchOK, Produced
  <2>2. CASE batch[c.batch].status # "FINALIZED"
    BY <1>2, <2>1, <2>2 DEF BatchAnswer, Posted
  <2>3. CASE batch[c.batch].status = "FINALIZED" /\ batch[c.batch].posting = "UNPOSTED"
    BY <1>2, <2>3 DEF BatchAnswer, Posted
  <2>4. CASE batch[c.batch].status = "FINALIZED" /\ batch[c.batch].posting = "POSTED"
    BY <1>2, <2>4 DEF BatchAnswer, Posted
  <2>5. CASE batch[c.batch].status = "FINALIZED" /\ batch[c.batch].posting = "REVERSED"
    BY <1>2, <2>5 DEF BatchAnswer, Posted
  <2> QED BY <1>1, <2>2, <2>3, <2>4, <2>5
<1>3. CASE c.op = "reverse"
  BY <1>3 DEF BatchAnswer, Reversed, PriorReversalAnswer
<1> QED BY <1>2, <1>3

(* A call that repeats what is committed finds its own key, and nobody      *)
(* else's, so that it gets past the look for another holder of the key.     *)
LEMMA AnswerIsTrue ==
  ASSUME ProductionInv, [Next]_vars, NEW s \in Session, Answers(s),
         call[s].op \in {"post", "reverse"}
  PROVE  call'[s].result = "duplicate" <=>
           (IF call[s].op = "post" THEN Posted(call[s]) ELSE Reversed(call[s]))
<1> DEFINE true == IF call[s].op = "post" THEN Posted(call[s]) ELSE Reversed(call[s])
<1>1. /\ DOMAIN call = Session /\ batch \in [Batch -> BatchRecord]
      /\ SessionOK(s) /\ CallRecord(call[s])
      /\ call[s].batch \in Batch /\ BatchOK(call[s].batch) /\ call[s].key \in Key
  BY DEF ProductionInv, Tables, SessionOK, CallRecord
<1>2. ASSUME Holding(s) PROVE ~true
  <2>1. batch[call[s].batch].posting = (IF call[s].op = "post" THEN "UNPOSTED" ELSE "POSTED")
    BY <1>1, <1>2 DEF SessionOK, Decided
  <2> QED BY <1>1, <2>1 DEF Posted, Reversed, BatchOK
<1>3. ASSUME NEW answer, Return(s, answer), answer # "duplicate", Holding(s)
      PROVE  call'[s].result = "duplicate" <=> true
  BY <1>1, <1>2, <1>3, ReturnedAnswer
<1>4. call'[s] # call[s] /\ call[s].step # "done" /\ call'[s].step = "done"
  BY DEF Answers
<1>5. CASE PeekBatch(s)
  <2>1. Decide(s, BatchAnswer(call[s], "already"), "key")
    BY <1>5 DEF PeekBatch, PeekAnswer
  <2> QED BY <1>1, <1>4, <2>1, DecidedAnswer, BatchAnswerIsTrue
<1>6. CASE LockBatch(s)
  <2>1. PICK step \in {"quote", "write"} : Decide(s, BatchAnswer(call[s], "invalid"), step)
    BY <1>6 DEF LockBatch, LockAnswer
  <2> QED BY <1>1, <1>4, <2>1, DecidedAnswer, BatchAnswerIsTrue
<1>7. CASE CheckKey(s)
  <2> DEFINE others == KeyHolders(call[s].op, call[s].key) \ {call[s].batch}
  <2>1. PICK answer : /\ answer = (IF others # {} THEN "conflict" ELSE "go on")
                      /\ Decide(s, answer, "lock")
    BY <1>7 DEF CheckKey
  <2>2. call'[s].result # "duplicate"
    <3>1. answer # "duplicate"
      BY <2>1
    <3> HIDE DEF others
    <3>2. Decide(s, answer, "lock")
      BY <2>1
    <3> QED BY <1>1, <1>4, <3>1, <3>2, DecidedAnswer
  <2>3. answer # "go on"
    <3>1. ASSUME GoTo(s, "lock") PROVE call'[s].step = "lock"
      <4>1. call'[s] = [call[s] EXCEPT !.step = "lock"]
        BY <1>1, <3>1 DEF GoTo
      <4> QED BY <1>1, <4>1 DEF CallRecord
    <3> QED BY <1>4, <2>1, <3>1 DEF Decide
  <2>4. PICK d \in KeyHolders(call[s].op, call[s].key) : d # call[s].batch
    BY <2>1, <2>3
  <2> HIDE DEF others
  <2>5. ~true
    BY <1>1, <2>4, ProductionAssumption
       DEF KeyHolders, Posted, Reversed, SamePost, SameReversal, ProductionInv, KeysUnique
  <2> QED BY <2>2, <2>5
<1>8. CASE WriteReversal(s)
  <2>1. ASSUME GoTo(s, "writing") PROVE call'[s].step = "writing"
    <3>1. call'[s] = [call[s] EXCEPT !.step = "writing"]
      BY <1>1, <2>1 DEF GoTo
    <3> QED BY <1>1, <3>1 DEF CallRecord
  <2>2. Return(s, "error") /\ Holding(s)
    BY <1>4, <1>8, <2>1 DEF WriteReversal, Holding
  <2> QED BY <1>3, <2>2
<1>9. CASE WriteProduction(s)
  <2>1. call'[s] = [call[s] EXCEPT !.step = "writing"]
    BY <1>1, <1>9 DEF WriteProduction, GoTo
  <2> QED BY <1>1, <1>4, <2>1 DEF CallRecord
<1>10. CASE QuoteLine(s)
  <2>1. PICK l, rows : call'[s] = [call[s] EXCEPT !.line = l, !.rows = rows]
    BY <1>1, <1>10 DEF QuoteLine
  <2>2. call'[s].step = call[s].step
    BY <1>1, <2>1 DEF CallRecord
  <2> QED BY <1>4, <2>2
<1>11. CASE StreamStatement(s)
  BY <1>4, <1>11 DEF StreamStatement, productionVars
<1>12. CASE PostCommit(s) \/ ReverseCommit(s) \/ RefuseKey(s)
  BY <1>3, <1>12 DEF PostCommit, ReverseCommit, RefuseKey, Writing, Holding
<1>13. CASE SupplyCommit(s)
  BY <1>13 DEF SupplyCommit
<1>14. CASE Rollback(s)
  BY <1>3, <1>14 DEF Rollback, Writing, Holding
<1>15. ~StartCall(s) /\ ~StartSupply(s)
  BY <1>4 DEF StartCall, StartSupply
<1> QED BY <1>4, <1>5, <1>6, <1>7, <1>8, <1>9, <1>10, <1>11, <1>12, <1>13, <1>14, <1>15,
           OthersKeepCall DEF CallStep

(* A repeated post or reversal is answered duplicate exactly when what it   *)
(* asks for is committed, key and content alike, at whatever step it finds  *)
(* out.                                                                     *)
THEOREM ProductionRetries == Spec => RetriesAreDuplicates
<1>1. StreamInv /\ ProductionInv /\ [Next]_vars =>
        [ \A s \in Session : LET c == call[s] IN
            /\ c.op = "post" /\ Answers(s) => (call'[s].result = "duplicate" <=> Posted(c))
            /\ c.op = "reverse" /\ Answers(s) =>
                 (call'[s].result = "duplicate" <=> Reversed(c)) ]_vars
  BY AnswerIsTrue
<1> QED BY <1>1, ProductionStarts, ProductionInductive, PTL DEF Spec, RetriesAreDuplicates


-----------------------------------------------------------------------------
(* The feed *)

(* Copies of rows, one for one, move as much as the rows.                   *)
LEMMA QuantityOfCopies ==
  ASSUME NEW S, IsFiniteSet(S), NEW h,
         \A x \in S : x.quantity \in Int /\ h[x].quantity = x.quantity,
         \A x, y \in S : h[x] = h[y] => x = y
  PROVE  QuantityOf({h[x] : x \in S}) = QuantityOf(S)
<1> DEFINE T == {h[x] : x \in S}
<1>1. PICK f : f = [m \in S |-> m.quantity]
  OBVIOUS
<1>2. PICK g : g = [m \in T |-> m.quantity]
  OBVIOUS
<1>3. \A x \in S : f[x] \in Int /\ g[h[x]] = f[x]
  BY <1>1, <1>2
<1>4. SumFunctionOnSet(g, T) = SumFunctionOnSet(f, S)
  BY <1>3, SumImage
<1>5. QuantityOf(S) = SumFunctionOnSet(f, S)
  BY <1>1, SumOfFunction DEF QuantityOf
<1>6. QuantityOf(T) = SumFunctionOnSet(g, T)
  <2> HIDE DEF T
  <2> QED BY <1>2, SumOfFunction DEF QuantityOf
<1> QED BY <1>4, <1>5, <1>6

(* The movements of a posting are as many as its lines, and one.            *)
LEMMA PostingIsFinite ==
  ASSUME NEW b, NEW rows, NEW pos, Posting(b, rows, pos)
  PROVE  IsFiniteSet(rows)
<1>1. PICK f : f = [m \in rows |-> m.id]
  OBVIOUS
<1>2. PICK T : T = 0..Len(Ingredient)
  OBVIOUS
<1>3. Len(Ingredient) \in Nat
  BY ProductionAssumption
<1>4. \A m \in rows : m.id \in T
  BY <1>2, <1>3 DEF Posting, InputLine
<1>5. f \in [rows -> T]
  BY <1>1, <1>4
<1>6. \A x, y \in rows : f[x] = f[y] => x = y
  BY <1>1 DEF Posting
<1>7. f \in Injection(rows, T)
  BY <1>1, <1>5, <1>6 DEF Injection, IsInjective
<1>8. IsFiniteSet(T)
  BY <1>2, <1>3, FS_Interval
<1> QED BY <1>7, <1>8, FS_Injection

LEMMA MovementsAreRows ==
  ASSUME StreamTypeOK, NEW m \in movements
  PROVE  m \in MovementRow
BY ProductionAssumption DEF StreamTypeOK

LEMMA FactTypes ==
  ASSUME NEW b, NEW rows, NEW c
  PROVE  /\ \A f \in mirrorInventoryConsumed(c, rows) : f.type = "InventoryConsumed"
         /\ mirrorProduction(c).type \in {"PreparationProduced", "ProductionTotalLoss"}
         /\ mirrorProductionPostingReversed(c).type = "ProductionPostingReversed"
<1>1. \A f \in mirrorInventoryConsumed(c, rows) : f.type = "InventoryConsumed"
  BY DEF mirrorInventoryConsumed
<1> QED BY <1>1 DEF mirrorProduction, mirrorProductionPostingReversed

LEMMA BatchMirrored ==
  ASSUME ProductionInv, StreamTypeOK, NEW b \in Batch
  PROVE  LET rows == MovementsOf("production", b)
             of(type) == {f \in feed : f.type = type /\ f.batch = b}
             made == of("PreparationProduced") \cup of("ProductionTotalLoss")
         IN
         /\ \A i \in Item : QuantityOf({f \in of("InventoryConsumed") : f.item = i}) =
                              QuantityOf({m \in Outs(rows) : m.item = i})
         /\ IF rows = {} THEN made = {}
            ELSE \E f \in made : /\ made = {f}
                                 /\ f.cost = CostOf(Outs(rows)) /\ f.pos = batch[b].pos
                                 /\ f.type = "ProductionTotalLoss" <=> rows = Outs(rows)
         /\ Cardinality(of("ProductionPostingReversed")) =
              (IF batch[b].posting = "REVERSED" THEN 1 ELSE 0)
<1> DEFINE of(type) == {f \in feed : f.type = type /\ f.batch = b}
           made == of("PreparationProduced") \cup of("ProductionTotalLoss")
<1>1. PICK rows : rows = MovementsOf("production", b)
  OBVIOUS
<1>2. PICK post : post = [batch |-> b, key |-> batch[b].key, content |-> batch[b].pos,
                          rows |-> Outs(rows)]
  OBVIOUS
<1>3. PICK consumed : consumed = mirrorInventoryConsumed(post, rows)
  OBVIOUS
<1>4. PICK product : product = mirrorProduction(post)
  OBVIOUS
<1>5. PICK back : back = mirrorProductionPostingReversed([batch |-> b, key |-> reversal[b].key])
  OBVIOUS
<1>6. FeedOf(b) = (IF batch[b].posting = "UNPOSTED" THEN {} ELSE consumed \cup {product})
                  \cup (IF batch[b].posting = "REVERSED" THEN {back} ELSE {})
  BY <1>1, <1>2, <1>3, <1>4, <1>5 DEF ProductionInv, BatchOK, FactsOf
<1>7. \A type : of(type) = {f \in FeedOf(b) : f.type = type}
  BY DEF FeedOf
<1>8. /\ \A f \in consumed : f.type = "InventoryConsumed"
      /\ product.type \in {"PreparationProduced", "ProductionTotalLoss"}
      /\ back.type = "ProductionPostingReversed"
  BY <1>3, <1>4, <1>5, FactTypes
<1>9. /\ Produced(b) /\ batch[b].posting \in {"UNPOSTED", "POSTED", "REVERSED"}
  BY DEF ProductionInv, BatchOK, Tables, BatchRecord
<1>10. Cardinality(of("ProductionPostingReversed")) =
         (IF batch[b].posting = "REVERSED" THEN 1 ELSE 0)
  <2>1. of("ProductionPostingReversed")
          = (IF batch[b].posting = "REVERSED" THEN {back} ELSE {})
    BY <1>6, <1>7, <1>8, <1>9
  <2> QED BY <2>1, FS_EmptySet, FS_Singleton
<1>11. CASE batch[b].posting = "UNPOSTED"
  <2>1. rows = {} /\ FeedOf(b) = {}
    BY <1>1, <1>6, <1>9, <1>11 DEF Produced
  <2>2. \A type : of(type) = {}
    BY <1>7, <2>1
  <2>3. ASSUME NEW i \in Item
        PROVE  {f \in of("InventoryConsumed") : f.item = i} = {m \in Outs(rows) : m.item = i}
    BY <2>1, <2>2 DEF Outs
  <2> QED BY <1>1, <1>10, <2>1, <2>2, <2>3
<1>12. CASE batch[b].posting # "UNPOSTED"
  <2>1. Posting(b, rows, batch[b].pos)
    BY <1>1, <1>9, <1>12 DEF Produced
  <2>2. of("InventoryConsumed") = consumed /\ made = {product}
    <3>1. of("InventoryConsumed") = consumed
      BY <1>6, <1>7, <1>8, <1>12
    <3>2. made = {f \in FeedOf(b) : f.type \in {"PreparationProduced", "ProductionTotalLoss"}}
      BY <1>7
    <3> QED BY <1>6, <1>8, <1>12, <3>1, <3>2
  <2>3. ASSUME NEW i \in Item
        PROVE  QuantityOf({f \in consumed : f.item = i}) =
                 QuantityOf({m \in Outs(rows) : m.item = i})
    <3>1. PICK S : S = {m \in Outs(rows) : m.item = i}
      OBVIOUS
    <3>2. PICK h : h = [m \in S |->
            [type |-> "InventoryConsumed", batch |-> b, key |-> batch[b].key, line |-> m.id,
             item |-> m.item, quantity |-> m.quantity, pos |-> m.pos]]
      OBVIOUS
    <3>3. IsFiniteSet(S)
      <4>1. S \subseteq rows
        BY <3>1 DEF Outs
      <4> QED BY <2>1, <4>1, PostingIsFinite, FS_Subset
    <3>4. \A x \in S : /\ x \in MovementRow /\ x.quantity \in Int
                       /\ h[x].quantity = x.quantity /\ h[x].line = x.id
      BY <1>1, <3>1, <3>2, MovementsAreRows DEF Outs, MovementsOf, MovementRow
    <3>5. \A x, y \in S : h[x] = h[y] => x = y
      BY <2>1, <3>1, <3>4 DEF Posting, Outs
    <3>6. {f \in consumed : f.item = i} = {h[x] : x \in S}
      BY <1>2, <1>3, <3>1, <3>2 DEF mirrorInventoryConsumed
    <3> QED BY <3>1, <3>3, <3>4, <3>5, <3>6, QuantityOfCopies
  <2>4. rows # {}
    <3>1. 1 \in InputLine
      BY ProductionAssumption DEF InputLine
    <3> QED BY <2>1, <3>1 DEF Posting
  <2>5. product.cost = CostOf(Outs(rows)) /\ product.pos = batch[b].pos
    BY <1>2, <1>4 DEF mirrorProduction
  <2>6. product.type = "ProductionTotalLoss" <=> rows = Outs(rows)
    <3>1. product.type = "ProductionTotalLoss" <=> batch[b].actual.class = "TOTAL_LOSS"
      BY <1>2, <1>4 DEF mirrorProduction
    <3>2. ASSUME NEW m \in rows PROVE m.id = 0 <=> m \notin Outs(rows)
      <4>1. m.id = 0 => m.direction = "IN"
        BY <2>1 DEF Posting
      <4>2. m.id \in InputLine => m.direction = "OUT"
        BY <2>1 DEF Posting
      <4>3. m.id \in InputLine \cup {0}
        BY <2>1 DEF Posting
      <4>4. 0 \notin InputLine
        BY DEF InputLine
      <4> QED BY <4>1, <4>2, <4>3, <4>4 DEF Outs
    <3>3. Outs(rows) \subseteq rows
      BY DEF Outs
    <3> QED BY <2>1, <3>1, <3>2, <3>3 DEF Posting
  <2>7. \A i \in Item : QuantityOf({f \in of("InventoryConsumed") : f.item = i}) =
                          QuantityOf({m \in Outs(rows) : m.item = i})
    BY <2>2, <2>3
  <2>8. \E f \in made : /\ made = {f}
                        /\ f.cost = CostOf(Outs(rows)) /\ f.pos = batch[b].pos
                        /\ f.type = "ProductionTotalLoss" <=> rows = Outs(rows)
    BY <2>2, <2>5, <2>6
  <2> HIDE DEF of, made
  <2>9. /\ \A i \in Item : QuantityOf({f \in of("InventoryConsumed") : f.item = i}) =
                              QuantityOf({m \in Outs(rows) : m.item = i})
        /\ IF rows = {} THEN made = {}
           ELSE \E f \in made : /\ made = {f}
                                /\ f.cost = CostOf(Outs(rows)) /\ f.pos = batch[b].pos
                                /\ f.type = "ProductionTotalLoss" <=> rows = Outs(rows)
        /\ Cardinality(of("ProductionPostingReversed")) =
             (IF batch[b].posting = "REVERSED" THEN 1 ELSE 0)
    BY <1>10, <2>4, <2>7, <2>8
  <2> QED BY <1>1, <2>9 DEF of, made
<1> QED BY <1>11, <1>12

(* The feed tells what a batch did to stock: per item as much as its OUTs   *)
(* took, once what came of it, at their cost, and once its reversal.        *)
THEOREM FeedTellsProduction == Spec => []FeedMirrorsProduction
<1>1. StreamInv /\ ProductionInv => FeedMirrorsProduction
  BY BatchMirrored DEF FeedMirrorsProduction, StreamInv
<1> QED BY <1>1, ProductionStarts, ProductionInductive, PTL DEF Spec


-----------------------------------------------------------------------------
(* The abstract documents *)

(* Rows and their compensations move nothing.                               *)
LEMMA CompensatedIsNothing ==
  ASSUME NEW b, NEW rows \in SUBSET MovementRow, IsFiniteSet(rows),
         \A m, n \in rows : m.id = n.id => m = n, \A m \in rows : ~m.reversal
  PROVE  NetEffect(rows \cup {Compensation(b, m) : m \in rows}) = NoEffect
<1>1. PICK h : h = [m \in rows |-> Compensation(b, m)]
  OBVIOUS
<1>2. ASSUME NEW m \in rows
      PROVE  /\ h[m].item = m.item /\ h[m].id = m.id /\ h[m].reversal
             /\ h[m].quantity = m.quantity /\ h[m].cost = m.cost
             /\ h[m].direction # m.direction /\ h[m].direction \in {"IN", "OUT"}
             /\ m.direction \in {"IN", "OUT"} /\ m.quantity \in Int /\ m.cost \in Int
  <2>1. PICK dir : dir = (IF m.direction = "IN" THEN "OUT" ELSE "IN")
    OBVIOUS
  <2>2. h[m] = [m EXCEPT !.direction = dir, !.reversal = TRUE, !.doc = <<"reversal", b>>]
    BY <1>1, <2>1 DEF Compensation
  <2>3. m \in MovementRow
    OBVIOUS
  <2>4. /\ m.direction \in {"IN", "OUT"} /\ m.quantity \in Nat \ {0} /\ m.cost \in Int
    BY <2>3 DEF MovementRow
  <2>5. /\ h[m].item = m.item /\ h[m].id = m.id /\ h[m].reversal = TRUE
        /\ h[m].quantity = m.quantity /\ h[m].cost = m.cost /\ h[m].direction = dir
    BY <2>2, <2>3 DEF MovementRow
  <2> QED BY <2>1, <2>4, <2>5
<1>3. \A m, n \in rows : h[m] # n /\ (h[m] = h[n] => m = n)
  BY <1>2
<1>4. NetEffect(rows \cup {h[m] : m \in rows}) = NoEffect
  BY <1>2, <1>3, OppositesCancel
<1> QED BY <1>1, <1>4

LEMMA OthersKeepEffect ==
  ASSUME NEW b, MovementsOf("production", b)' = MovementsOf("production", b),
         MovementsOf("reversal", b)' = MovementsOf("reversal", b)
  PROVE  EffectOf(b)' = EffectOf(b)
BY DEF EffectOf

LEMMA PostedEffect ==
  ASSUME ProductionInv, StreamTypeOK, NEW s \in Session, PostCommit(s),
         NEW b, b = call[s].batch
  PROVE  Output \in Range(Ingredient) \/ EffectOf(b)' # NoEffect
<1>1. PICK rows : rows = inserted[s]
  OBVIOUS
<1>2. call[s].op = "post" /\ Writing(s) /\ CommitMovements(s)
  BY DEF PostCommit
<1>3. /\ Posting(b, rows, call[s].content)
      /\ \A m \in rows : m.doc = <<"production", b>>
  BY <1>1, <1>2, PostedRows
<1>4. /\ b \in Batch /\ batch[b].posting = "UNPOSTED" /\ BatchOK(b)
      /\ call[s].batch \in Batch
  BY <1>1, <1>2 DEF ProductionInv, SessionOK, CallRecord, Decided, Holding, Writing
<1>5. MovementsOf("production", b) = {} /\ MovementsOf("reversal", b) = {}
  BY <1>4 DEF BatchOK, Produced
<1>6. movements' = movements \cup rows
  BY <1>1, <1>2 DEF CommitMovements
<1>7. MovementsOf("production", b)' = rows /\ MovementsOf("reversal", b)' = {}
  BY <1>3, <1>5, <1>6 DEF MovementsOf
<1>8. rows \in SUBSET MovementRow
  BY <1>1, ProductionAssumption DEF StreamTypeOK
<1>9. IsFiniteSet(rows)
  BY <1>3, PostingIsFinite
<1>10. 1 \in InputLine /\ Ingredient[1] \in Item /\ Ingredient[1] \in Range(Ingredient)
  BY ProductionAssumption DEF InputLine, Range
<1>11. PICK m \in rows : m.item = Ingredient[1]
  BY <1>3, <1>10 DEF Posting
<1>12. ASSUME Output \notin Range(Ingredient), NEW n \in rows, n.item = m.item
       PROVE  n.direction = "OUT"
  <2>1. n.id \in InputLine
    BY <1>3, <1>10, <1>11, <1>12 DEF Posting
  <2> QED BY <1>3, <2>1 DEF Posting
<1>13. Output \notin Range(Ingredient) => NetEffect(rows) # NoEffect
  <2>1. \A n \in rows : n.quantity \in Nat \ {0}
    BY <1>8 DEF MovementRow
  <2> QED BY <1>9, <1>10, <1>11, <1>12, <2>1, OneWayIsSomething
<1>14. EffectOf(b)' = NetEffect(rows)
  BY <1>7 DEF EffectOf
<1> QED BY <1>13, <1>14

LEMMA ReversedEffect ==
  ASSUME ProductionInv, StreamTypeOK, NEW s \in Session, ReverseCommit(s),
         NEW b, b = call[s].batch
  PROVE  EffectOf(b)' = NoEffect
<1>1. PICK rows, back : rows = MovementsOf("production", b) /\ back = CompensationRows(b)
  OBVIOUS
<1>2. call[s].op = "reverse" /\ Writing(s) /\ CommitMovements(s)
  BY DEF ReverseCommit
<1>3. /\ b \in Batch /\ batch[b].posting = "POSTED" /\ BatchOK(b)
      /\ inserted[s] = back
  BY <1>1, <1>2 DEF ProductionInv, SessionOK, CallRecord, Decided, Written, Holding, Writing
<1>4. /\ Posting(b, rows, batch[b].pos) /\ MovementsOf("reversal", b) = {}
      /\ \A m \in rows : ~m.reversal
  BY <1>1, <1>3 DEF BatchOK, Produced
<1>5. rows \in SUBSET MovementRow
  BY <1>1, ProductionAssumption DEF StreamTypeOK, MovementsOf
<1>6. back = {Compensation(b, m) : m \in rows}
  BY <1>1 DEF CompensationRows
<1>7. \A m \in back : m.doc = <<"reversal", b>>
  BY <1>5, <1>6 DEF Compensation, MovementRow
<1>8. movements' = movements \cup back
  BY <1>2, <1>3 DEF CommitMovements
<1>9. MovementsOf("production", b)' = rows /\ MovementsOf("reversal", b)' = back
  BY <1>1, <1>4, <1>7, <1>8 DEF MovementsOf
<1>10. NetEffect(rows \cup back) = NoEffect
  <2>1. IsFiniteSet(rows)
    BY <1>4, PostingIsFinite
  <2>2. \A m, n \in rows : m.id = n.id => m = n
    BY <1>4 DEF Posting
  <2> QED BY <1>4, <1>5, <1>6, <2>1, <2>2, CompensatedIsNothing
<1> QED BY <1>9, <1>10 DEF EffectOf

\* What the abstract documents see of a batch.
DocumentStatus == [b \in Batch |-> IF batch[b].posting = "UNPOSTED" THEN "OPEN"
                                   ELSE batch[b].posting]

DocumentEffect == [b \in Batch |-> EffectOf(b)]

(* A commit is the abstract step of its own document.                       *)
LEMMA PostImplements ==
  ASSUME ProductionInv, StreamTypeOK, NEW s \in Session, PostCommit(s)
  PROVE  \E b \in Batch : Documents!Post(b)
<1>1. PICK b : b = call[s].batch
  OBVIOUS
<1>2. call[s].op = "post" /\ CommitMovements(s)
  BY DEF PostCommit
<1>3. b \in Batch /\ batch[b].posting = "UNPOSTED" /\ batch'[b].posting = "POSTED"
  <2>1. b \in Batch
    BY <1>1, <1>2 DEF ProductionInv, SessionOK, CallRecord
  <2> QED BY <1>1, <2>1, PostRow
<1>4. ASSUME NEW d \in Batch \ {b} PROVE batch'[d] = batch[d] /\ EffectOf(d)' = EffectOf(d)
  <2>1. d \in Others(s)
    BY <1>1 DEF Others
  <2> QED BY <1>1, <1>2, <2>1, PostRow, CommitEffect, OthersKeepEffect
<1>5. Output \in Range(Ingredient) \/ EffectOf(b)' # NoEffect
  BY <1>1, PostedEffect
<1>6. DocumentStatus' = [DocumentStatus EXCEPT ![b] = "POSTED"]
  BY <1>3, <1>4 DEF DocumentStatus
<1>7. /\ DOMAIN DocumentEffect' = Batch
      /\ Output \in Range(Ingredient) \/ DocumentEffect'[b] # NoEffect
      /\ \A d \in Batch \ {b} : DocumentEffect'[d] = DocumentEffect[d]
  BY <1>3, <1>4, <1>5 DEF DocumentEffect
<1>8. DocumentStatus[b] = "OPEN"
  BY <1>3 DEF DocumentStatus
<1>9. Documents!Post(b)
  BY <1>6, <1>7, <1>8 DEF Documents!Post, Documents!NoEffect, NoEffect, DocumentStatus,
                          DocumentEffect
<1> QED BY <1>3, <1>9

LEMMA ReverseImplements ==
  ASSUME ProductionInv, StreamTypeOK, NEW s \in Session, ReverseCommit(s)
  PROVE  \E b \in Batch : Documents!Reverse(b)
<1>1. PICK b : b = call[s].batch
  OBVIOUS
<1>2. call[s].op = "reverse" /\ CommitMovements(s)
  BY DEF ReverseCommit
<1>3. b \in Batch /\ batch[b].posting = "POSTED" /\ batch'[b].posting = "REVERSED"
  <2>1. b \in Batch
    BY <1>1, <1>2 DEF ProductionInv, SessionOK, CallRecord
  <2> QED BY <1>1, <2>1, ReversedRow
<1>4. ASSUME NEW d \in Batch \ {b} PROVE batch'[d] = batch[d] /\ EffectOf(d)' = EffectOf(d)
  <2>1. d \in Others(s)
    BY <1>1 DEF Others
  <2> QED BY <1>1, <1>2, <2>1, ReversedRow, CommitEffect, OthersKeepEffect
<1>5. EffectOf(b)' = NoEffect
  BY <1>1, ReversedEffect
<1>6. DocumentStatus' = [DocumentStatus EXCEPT ![b] = "REVERSED"]
  BY <1>3, <1>4 DEF DocumentStatus
<1>7. DocumentEffect' = [DocumentEffect EXCEPT ![b] = NoEffect]
  BY <1>3, <1>4, <1>5 DEF DocumentEffect
<1>8. DocumentStatus[b] = "POSTED"
  BY <1>3 DEF DocumentStatus
<1>9. Documents!Reverse(b)
  BY <1>6, <1>7, <1>8 DEF Documents!Reverse, Documents!NoEffect, NoEffect, DocumentStatus,
                          DocumentEffect
<1> QED BY <1>3, <1>9

(* Every other step of production is none of the documents.                 *)
LEMMA DocumentsStutter ==
  ASSUME ProductionInv, StreamTypeOK, [Next]_vars,
         \A s \in Session : ~PostCommit(s) /\ ~ReverseCommit(s)
  PROVE  DocumentStatus' = DocumentStatus /\ DocumentEffect' = DocumentEffect
<1>1. \A b \in Batch : batch'[b].posting = batch[b].posting
  <2>1. ASSUME NEW d \in Batch, Edit(d), NEW b \in Batch
        PROVE  batch'[b].posting = batch[b].posting
    <3>1. PICK rec : batch' = [batch EXCEPT ![d] = rec] /\ rec.posting = batch[d].posting
      BY <2>1, EditEffect
    <3> QED BY <3>1 DEF ProductionInv, Tables
  <2> QED BY <2>1, BatchRowChanges
<1>2. ASSUME NEW b \in Batch PROVE EffectOf(b)' = EffectOf(b)
  <2>1. CASE movements' = movements
    BY <2>1, OthersKeepEffect DEF MovementsOf
  <2>2. ASSUME NEW s \in Session, SupplyCommit(s)
        PROVE  /\ MovementsOf("production", b)' = MovementsOf("production", b)
               /\ MovementsOf("reversal", b)' = MovementsOf("reversal", b)
    <3>1. b \in Others(s) /\ CommitMovements(s)
      BY <2>2 DEF Others, SupplyCommit
    <3> QED BY <3>1, CommitEffect
  <2>3. ASSUME NEW s \in Session, CallStep(s), ~SupplyCommit(s) PROVE movements' = movements
    BY <2>3 DEF CallStep, PeekBatch, CheckKey, LockBatch, QuoteLine, WriteProduction,
                WriteReversal, StreamStatement, RefuseKey, RollbackMovements, InsertMovements,
                lockValuationStream, rebuildInventoryBalance, streamVars, ledgerVars
  <2>4. ASSUME NEW s \in Session, StartCall(s) \/ StartSupply(s) \/ Rollback(s)
        PROVE  movements' = movements
    BY <2>4 DEF StartCall, StartSupply, Rollback, RollbackMovements, InsertMovements,
                streamVars, ledgerVars
  <2>5. ASSUME NEW d \in Batch, Edit(d) PROVE movements' = movements
    BY <2>5 DEF Edit, streamVars
  <2>6. CASE UNCHANGED vars
    BY <2>6, <2>1 DEF vars, streamVars
  <2> QED BY <2>1, <2>2, <2>3, <2>4, <2>5, <2>6, OthersKeepEffect DEF Next
<1> QED BY <1>1, <1>2 DEF DocumentStatus, DocumentEffect

(* Posts and reversals, whatever statements they are made of, are one step  *)
(* each of a document that is posted once and reversed once, and after the  *)
(* reversal its movements add up to nothing in quantity and in cost.        *)
THEOREM ProductionImplementsDocuments == Spec => ImplementsDocuments
<1>1. Init => Documents!Init
  <2> SUFFICES ASSUME Init PROVE Documents!Init
    OBVIOUS
  <2>1. movements = {} /\ \A b \in Batch : batch[b].posting = "UNPOSTED"
    BY DEF Init, StreamInit, LedgerInit, NewBatch
  <2>2. \A b \in Batch : EffectOf(b) = NoEffect
    BY <2>1, NoRowsNoEffect DEF EffectOf, MovementsOf
  <2> QED BY <2>1, <2>2 DEF Documents!Init, Documents!NoEffect, NoEffect
<1>2. StreamInv /\ ProductionInv /\ [Next]_vars => [Documents!Next]_(Documents!documentVars)
  <2> SUFFICES ASSUME StreamInv, ProductionInv, [Next]_vars
               PROVE  \/ \E b \in Batch : Documents!Post(b) \/ Documents!Reverse(b)
                      \/ DocumentStatus' = DocumentStatus /\ DocumentEffect' = DocumentEffect
    BY DEF Documents!Next, Documents!documentVars, DocumentStatus, DocumentEffect
  <2>1. StreamTypeOK
    BY DEF StreamInv
  <2> QED BY <2>1, PostImplements, ReverseImplements, DocumentsStutter
<1> QED BY <1>1, <1>2, ProductionStarts, ProductionInductive, PTL
        DEF Spec, ImplementsDocuments, Documents!Spec

-----------------------------------------------------------------------------
(* Who waits for whom: for a row or a key only before anything is written,  *)
(* and in the end for somebody who writes.                                  *)

LEMMA CallsMakeNoCircle ==
  ASSUME StreamInv, LocksAreSorted, TypeOK
  PROVE  NoCircleOfCalls
<1> SUFFICES ASSUME NEW S \in SUBSET Session, S # {}, IsFiniteSet(S),
                    \A s \in S : \E t \in S : WaitsFor(s, t)
             PROVE  FALSE
  BY DEF NoCircleOfCalls
<1>1. \A s \in Session : Writing(s) <=> InTransaction(s)
  BY DEF TypeOK, CallOK
<1>2. PICK w \in S : InTransaction(w)
  <2>1. PICK u \in S : TRUE
    OBVIOUS
  <2>2. PICK t \in S : WaitsFor(u, t)
    OBVIOUS
  <2>3. PICK v \in S : WaitsFor(t, v)
    OBVIOUS
  <2>4. CASE WaitsForStream(u, t) \/ WaitsForStream(t, v)
    BY <2>4, WritersWaitForWriters
  <2>5. CASE ~(WaitsForStream(u, t) \/ WaitsForStream(t, v))
    BY <1>1, <2>2, <2>3, <2>5 DEF WaitsFor, HoldsBatch, KeepsKey, Writing
  <2> QED BY <2>4, <2>5
<1>3. PICK s \in S : InTransaction(s) /\ \A t \in S : ~WaitsForStream(s, t)
  BY <1>2, SomeWriterGoesOn
<1>4. \A t \in S : ~WaitsFor(s, t)
  BY <1>1, <1>3 DEF WaitsFor, Writing
<1> QED BY <1>4

(* Posts, reversals and receipts never wait for each other in a circle,     *)
(* however many overlap and whatever batches, keys and streams they share.  *)
THEOREM ProductionDoesNotDeadlock == Spec => []NoCircleOfCalls
<1>1. Init => StreamInv /\ ProductionInv /\ LocksAreSorted
  BY StreamInvInit, ProductionInvInit, SortedInit DEF Init
<1>2. StreamInv /\ LocksAreSorted /\ [Next]_vars => LocksAreSorted'
  BY NextIsStreamStepOrStutter, SortedStep, SortedStutter DEF StreamInv
<1>3. StreamInv /\ ProductionInv /\ LocksAreSorted => NoCircleOfCalls
  BY CallsMakeNoCircle, InvGivesType DEF StreamInv
<1> QED BY <1>1, <1>2, <1>3, ProductionInductive, PTL DEF Spec

-----------------------------------------------------------------------------
(* What is on hand: every row is a receipt's, a batch's or its reversal's   *)

KnownRow(m) ==
  \/ m.doc[1] = "receipt" /\ m.direction = "IN"
  \/ \E b \in Batch : m.doc = <<"production", b>> \/ m.doc = <<"reversal", b>>

RowsAreKnown == \A m \in movements : KnownRow(m)

LEMMA RowsStayKnown ==
  ASSUME ProductionInv, StreamTypeOK, RowsAreKnown, [Next]_vars
  PROVE  RowsAreKnown'
<1>1. ASSUME NEW s \in Session, CommitMovements(s) PROVE RowsAreKnown'
  <2>1. movements' = movements \cup inserted[s]
    BY <1>1 DEF CommitMovements
  <2>2. SessionOK(s) /\ movements \subseteq Movement
    BY DEF ProductionInv, StreamTypeOK
  <2>3. ASSUME NEW m \in inserted[s] PROVE KnownRow(m)
    <3>1. /\ Writing(s)
          /\ \/ call[s].op = "post" /\ m.doc = <<"production", call[s].batch>>
             \/ call[s].op = "reverse" /\ m.doc = <<"reversal", call[s].batch>>
             \/ call[s].op = "supply" /\ m.doc[1] = "receipt"
      BY <2>2, <2>3, RowDocs
    <3>2. call[s].op \in {"post", "reverse"} => call[s].batch \in Batch
      BY <2>2 DEF SessionOK, CallRecord
    <3>3. call[s].op = "supply" => m.direction = "IN"
      BY <2>2, <2>3, <3>1 DEF SessionOK, Written
    <3> QED BY <3>1, <3>2, <3>3 DEF KnownRow
  <2> QED BY <2>1, <2>3 DEF RowsAreKnown, KnownRow
<1>2. CASE movements' = movements
  BY <1>2 DEF RowsAreKnown, KnownRow
<1>3. ASSUME NEW s \in Session, StreamStep(s), ~CommitMovements(s) PROVE movements' = movements
  BY <1>3 DEF StreamStep, InsertMovements, RollbackMovements, lockValuationStream,
              rebuildInventoryBalance, ledgerVars
<1>4. CASE UNCHANGED streamVars
  BY <1>2, <1>4 DEF streamVars
<1> QED BY <1>1, <1>2, <1>3, <1>4, NextIsStreamStepOrStutter

\* assertDeviationRules ran on whatever is recorded: a lost batch puts out nothing.
LossesAreEmpty ==
  \A b \in Batch : batch[b].status # "NONE" /\ batch[b].actual.class = "TOTAL_LOSS" =>
                     batch[b].actual.output = 0

LEMMA LossesStayEmpty ==
  ASSUME ProductionInv, LossesAreEmpty, [Next]_vars
  PROVE  LossesAreEmpty'
<1>1. batch \in [Batch -> BatchRecord]
  BY DEF ProductionInv, Tables
<1>2. ASSUME NEW b \in Batch, Edit(b) PROVE LossesAreEmpty'
  <2>1. ASSUME NEW x, assertDeviationRules(x), batch'[b].actual = x,
               \A d \in Batch \ {b} : batch'[d] = batch[d]
        PROVE  LossesAreEmpty'
    BY <2>1 DEF LossesAreEmpty, assertDeviationRules
  <2>2. ASSUME NEW a \in Actual, CreateDraft(b, a) PROVE LossesAreEmpty'
    <3>1. PICK x \in Overrides(Planned, a) :
            /\ assertDeviationRules(x)
            /\ batch' = [batch EXCEPT ![b] = [@ EXCEPT !.status = "DRAFT", !.actual = x]]
      BY <2>2 DEF CreateDraft
    <3>2. batch'[b].actual = x /\ \A d \in Batch \ {b} : batch'[d] = batch[d]
      BY <1>1, <3>1 DEF BatchRecord
    <3> QED BY <2>1, <3>1, <3>2
  <2>3. ASSUME NEW a \in Actual, UpdateDraft(b, a) PROVE LossesAreEmpty'
    <3>1. PICK x \in Overrides(batch[b].actual, a) :
            assertDeviationRules(x) /\ batch' = [batch EXCEPT ![b].actual = x]
      BY <2>3 DEF UpdateDraft
    <3>2. batch'[b].actual = x /\ \A d \in Batch \ {b} : batch'[d] = batch[d]
      BY <1>1, <3>1 DEF BatchRecord
    <3> QED BY <2>1, <3>1, <3>2
  <2>4. ASSUME NEW k \in Key, Finalize(b, k) PROVE LossesAreEmpty'
    <3>1. /\ assertDeviationRules(batch[b].actual)
          /\ batch' = [batch EXCEPT ![b] = [@ EXCEPT !.status = "FINALIZED", !.finalizeKey = k]]
      BY <2>4 DEF Finalize
    <3>2. batch'[b].actual = batch[b].actual /\ \A d \in Batch \ {b} : batch'[d] = batch[d]
      BY <1>1, <3>1 DEF BatchRecord
    <3> QED BY <2>1, <3>1, <3>2
  <2> QED BY <1>2, <2>2, <2>3, <2>4 DEF Edit
<1>3. CASE \A d \in Batch : batch'[d].status = batch[d].status /\ batch'[d].actual = batch[d].actual
  BY <1>3 DEF LossesAreEmpty
<1>4. ASSUME NEW s \in Session, PostCommit(s) \/ ReverseCommit(s)
      PROVE  \A d \in Batch : batch'[d].status = batch[d].status
                              /\ batch'[d].actual = batch[d].actual
  BY <1>4, PostRow, ReversedRow
<1> QED BY <1>2, <1>3, <1>4, BatchRowChanges

(* The committed rows of a posted batch add up, per item, to what it        *)
(* recorded.                                                                *)
LEMMA PostingYields ==
  ASSUME NEW b, NEW rows \in SUBSET MovementRow, NEW pos, Posting(b, rows, pos),
         batch[b].actual.class = "TOTAL_LOSS" => batch[b].actual.output = 0,
         NEW i, NEW f, \A m \in OfStream(rows, i) : f[m] = Signed(m, m.quantity)
  PROVE  SumFunctionOnSet(f, OfStream(rows, i)) = Yield(b, i) /\ Yield(b, i) \in Int
<1>1. PICK a : a = batch[b].actual
  OBVIOUS
<1>2. PICK L : L = {k \in InputLine : Ingredient[k] = i}
  OBVIOUS
<1>3. PICK S : S = OfStream(rows, i)
  OBVIOUS
<1>4. /\ IsFiniteSet(S) /\ S \subseteq rows
      /\ \A m \in S : m.item = i /\ m.quantity \in Int /\ f[m] = Signed(m, m.quantity) /\ f[m] \in Int
  <2>1. S \subseteq rows /\ IsFiniteSet(S)
    BY <1>3, PostingIsFinite, FS_Subset DEF OfStream
  <2>2. \A m \in S : m.item = i /\ m.quantity \in Int /\ f[m] = Signed(m, m.quantity)
    BY <1>3, <2>1 DEF OfStream, MovementRow
  <2> QED BY <2>1, <2>2 DEF Signed
<1>5. IsFiniteSet(L) /\ 0 \notin L /\ L \subseteq InputLine
  <2>1. Len(Ingredient) \in Nat
    BY ProductionAssumption
  <2>2. IsFiniteSet(InputLine) /\ 0 \notin InputLine
    BY <2>1, FS_Interval DEF InputLine
  <2> QED BY <1>2, <2>2, FS_Subset
<1>6. PICK h : h = [l \in L |-> CHOOSE m \in rows : m.id = l]
  OBVIOUS
<1>7. ASSUME NEW l \in L
      PROVE  /\ h[l] \in S /\ h[l].id = l /\ h[l].direction = "OUT"
             /\ h[l].quantity = a.inputs[l] /\ \A m \in rows : m.id = l => m = h[l]
  <2>1. PICK m \in rows : /\ m.id = l /\ m.direction = "OUT"
                          /\ m.item = i /\ m.quantity = a.inputs[l]
    BY <1>1, <1>2, <1>5 DEF Posting
  <2>2. h[l] \in rows /\ h[l].id = l
    BY <1>6, <2>1
  <2>3. \A n \in rows : n.id = l => n = h[l]
    BY <2>2 DEF Posting
  <2> QED BY <1>3, <2>1, <2>2, <2>3 DEF OfStream
<1>8. PICK I, O : I = {m \in S : m.id = 0} /\ O = {h[l] : l \in L}
  OBVIOUS
<1>9. S = I \cup O /\ I \cap O = {}
  <2>1. ASSUME NEW m \in S, m.id # 0 PROVE m \in O
    <3>1. m \in rows /\ m.id \in InputLine /\ m.item = i
      BY <1>4, <2>1 DEF Posting
    <3>2. PICK n \in rows : n.id = m.id /\ n.item = Ingredient[m.id]
      BY <3>1 DEF Posting
    <3>3. n = m
      BY <3>1, <3>2 DEF Posting
    <3>4. m.id \in L
      BY <1>2, <3>1, <3>2, <3>3
    <3> QED BY <1>7, <1>8, <3>1, <3>4
  <2>2. \A m \in O : m \in S /\ m.id # 0
    BY <1>5, <1>7, <1>8
  <2> QED BY <1>8, <2>1, <2>2
<1>10. IsFiniteSet(I) /\ IsFiniteSet(O)
  BY <1>4, <1>9, FS_Subset
<1>11. PICK q : q = [l \in L |-> a.inputs[l]]
  OBVIOUS
<1>12. PICK n : n = [l \in L |-> -q[l]]
  OBVIOUS
<1>13. \A l \in L : q[l] \in Int /\ n[l] = -q[l] /\ n[l] \in Int /\ f[h[l]] = n[l]
  BY <1>4, <1>7, <1>11, <1>12 DEF Signed
<1>14. SumFunctionOnSet(f, O) = -SumFunctionOnSet(q, L) /\ SumFunctionOnSet(q, L) \in Int
  <2>1. \A l, k \in L : h[l] = h[k] => l = k
    BY <1>7
  <2>2. SumFunctionOnSet(f, {h[l] : l \in L}) = SumFunctionOnSet(n, L)
    BY <1>5, <1>13, <2>1, SumImage
  <2>3. SumFunctionOnSet(n, L) = -SumFunctionOnSet(q, L)
    BY <1>5, <1>13, SumOpposite
  <2>4. SumFunctionOnSet(q, L) \in Int
    BY <1>5, <1>13, SumInt
  <2> QED BY <1>8, <2>2, <2>3, <2>4
<1>15. PICK out : out = (IF i = Output THEN a.output ELSE 0)
  OBVIOUS
<1>16. SumFunctionOnSet(f, I) = out /\ out \in Int
  <2>1. \A m \in I : m.direction = "IN" /\ m.item = Output /\ m.quantity = a.output
    BY <1>1, <1>4, <1>8 DEF Posting
  <2>2. CASE I # {}
    <3>1. PICK m \in I : TRUE
      BY <2>2
    <3>2. I = {m}
      BY <1>4, <1>8, <3>1 DEF Posting
    <3>3. f[m] = a.output /\ i = Output /\ f[m] \in Int
      BY <1>4, <1>8, <2>1, <3>1 DEF Signed
    <3> QED BY <1>15, <3>2, <3>3, SumSingleton
  <2>3. CASE I = {} /\ i # Output
    BY <1>15, <2>3, SumEmpty
  <2>4. CASE I = {} /\ i = Output
    <3>1. ASSUME NEW m \in rows, m.id = 0 PROVE FALSE
      <4>1. m.item = i
        BY <2>4, <3>1 DEF Posting
      <4> QED BY <1>3, <1>8, <2>4, <3>1, <4>1 DEF OfStream
    <3>2. a.class = "TOTAL_LOSS"
      BY <1>1, <3>1 DEF Posting
    <3> QED BY <1>1, <1>15, <2>4, <3>2, SumEmpty
  <2> QED BY <2>2, <2>3, <2>4
<1>17. SumFunctionOnSet(f, S) = SumFunctionOnSet(f, I) + SumFunctionOnSet(f, O)
  BY <1>4, <1>9, <1>10, SumUnion
<1>18. SumFunction(q) = SumFunctionOnSet(q, L)
  BY <1>11, SumOfFunction
<1>19. Yield(b, i) = out - SumFunction(q)
  BY <1>1, <1>2, <1>11, <1>15 DEF Yield
<1> QED BY <1>3, <1>14, <1>16, <1>17, <1>18, <1>19

(* What one batch adds to a stream: what it recorded, and nothing once it   *)
(* is reversed.                                                             *)
LEMMA BatchYields ==
  ASSUME ProductionInv, StreamTypeOK, LossesAreEmpty,
         NEW b \in Batch, batch[b].posting # "UNPOSTED", NEW i \in Item,
         NEW f, \A m \in OfStream(movements, i) : f[m] = Signed(m, m.quantity)
  PROVE  LET made == OfStream(MovementsOf("production", b), i)
             back == OfStream(MovementsOf("reversal", b), i)
         IN  /\ SumFunctionOnSet(f, made \cup back) =
                  (IF batch[b].posting = "POSTED" THEN Yield(b, i) ELSE 0)
             /\ Yield(b, i) \in Int
<1>1. PICK rows : rows = MovementsOf("production", b)
  OBVIOUS
<1>2. PICK back : back = MovementsOf("reversal", b)
  OBVIOUS
<1>3. /\ BatchOK(b) /\ Posting(b, rows, batch[b].pos) /\ batch[b].status = "FINALIZED"
      /\ batch[b].posting \in {"POSTED", "REVERSED"}
  BY <1>1 DEF ProductionInv, BatchOK, Produced, Tables, BatchRecord
<1>4. rows \in SUBSET MovementRow /\ rows \subseteq movements /\ back \subseteq movements
  BY <1>1, <1>2, MovementsAreRows DEF MovementsOf
<1>5. \A m \in OfStream(rows, i) \cup OfStream(back, i) :
        f[m] = Signed(m, m.quantity)
  BY <1>4 DEF OfStream
<1>6. SumFunctionOnSet(f, OfStream(rows, i)) = Yield(b, i) /\ Yield(b, i) \in Int
  BY <1>3, <1>4, <1>5, PostingYields DEF LossesAreEmpty
<1>7. CASE batch[b].posting = "POSTED"
  <2>1. OfStream(back, i) = {}
    BY <1>2, <1>3, <1>7 DEF BatchOK, OfStream
  <2>2. OfStream(rows, i) \cup OfStream(back, i) = OfStream(rows, i)
    BY <2>1
  <2> QED BY <1>1, <1>2, <1>6, <1>7, <2>2
<1>8. CASE batch[b].posting = "REVERSED"
  <2>1. back = {Compensation(b, m) : m \in rows}
    BY <1>1, <1>2, <1>3, <1>8 DEF BatchOK, CompensationRows
  <2>2. /\ IsFiniteSet(rows) /\ \A m, n \in rows : m.id = n.id => m = n
        /\ \A m \in rows : ~m.reversal
    <3>1. IsFiniteSet(rows)
      BY <1>3, PostingIsFinite
    <3>2. \A m, n \in rows : m.id = n.id => m = n
      BY <1>3 DEF Posting
    <3>3. \A m \in rows : ~m.reversal
      BY <1>1, <1>3 DEF BatchOK
    <3> QED BY <3>1, <3>2, <3>3
  <2>3. NetEffect(rows \cup back) = NoEffect
    BY <1>4, <2>1, <2>2, CompensatedIsNothing
  <2>4. PICK T : T = OfStream(rows \cup back, i)
    OBVIOUS
  <2>5. NetQuantity(T) = 0
    <3>1. NetEffect(rows \cup back)[i].quantity = NetQuantity(T)
      BY <2>4 DEF NetEffect
    <3> QED BY <2>3, <3>1 DEF NoEffect
  <2>6. PICK g : g = [m \in T |-> Signed(m, m.quantity)]
    OBVIOUS
  <2>7. T = OfStream(rows, i) \cup OfStream(back, i)
    BY <2>4 DEF OfStream
  <2>8. IsFiniteSet(T)
    <3>1. IsFiniteSet(back)
      <4>1. PICK h : h = [m \in rows |-> Compensation(b, m)]
        OBVIOUS
      <4>2. IsFiniteSet({h[m] : m \in rows})
        BY <2>2, ImageIsFinite
      <4>3. back = {h[m] : m \in rows}
        BY <2>1, <4>1
      <4> QED BY <4>2, <4>3
    <3>2. IsFiniteSet(rows \cup back)
      BY <2>2, <3>1, FS_Union
    <3>3. T \subseteq rows \cup back
      BY <2>4 DEF OfStream
    <3> QED BY <3>2, <3>3, FS_Subset
  <2>9. \A m \in T : g[m] = f[m]
    BY <1>5, <2>6, <2>7
  <2>10. SumFunctionOnSet(f, T) = SumFunctionOnSet(g, T)
    BY <2>8, <2>9, SumSame
  <2>11. SumFunctionOnSet(g, T) = 0
    BY <2>5, <2>6, SumOfFunction DEF NetQuantity
  <2> QED BY <1>1, <1>2, <1>6, <1>8, <2>7, <2>10, <2>11
<1> QED BY <1>3, <1>7, <1>8

(* A posted batch owns a row, so there are no more of them than rows.       *)
LEMMA PostedAreFinite ==
  ASSUME ProductionInv, RowsAreFinite
  PROVE  IsFiniteSet({b \in Batch : batch[b].posting # "UNPOSTED"})
<1>1. PICK T : T = {m.doc[2] : m \in movements}
  OBVIOUS
<1>2. IsFiniteSet(T)
  <2>1. PICK h : h = [m \in movements |-> m.doc[2]]
    OBVIOUS
  <2>2. IsFiniteSet({h[m] : m \in movements})
    BY ImageIsFinite DEF RowsAreFinite
  <2>3. T = {h[m] : m \in movements}
    BY <1>1, <2>1
  <2> QED BY <2>2, <2>3
<1>3. ASSUME NEW b \in Batch, batch[b].posting # "UNPOSTED" PROVE b \in T
  <2>1. Posting(b, MovementsOf("production", b), batch[b].pos)
    BY <1>3 DEF ProductionInv, BatchOK, Produced
  <2>2. 1 \in InputLine
    BY ProductionAssumption DEF InputLine
  <2>3. PICK m \in MovementsOf("production", b) : m.id = 1
    BY <2>1, <2>2 DEF Posting
  <2>4. m \in movements /\ m.doc = <<"production", b>>
    BY <2>3 DEF MovementsOf
  <2> QED BY <1>1, <2>4
<1> QED BY <1>2, <1>3, FS_Subset

LEMMA ProductionAddsUp ==
  ASSUME ProductionInv, StreamTypeOK, RowsAreFinite, RowsAreKnown, LossesAreEmpty,
         StockIsWhatMoved, NEW i \in Item
  PROVE  balance[i].quantity = QuantityOf(Supplied(i))
                               + SumFunction([b \in PostedBatches |-> Yield(b, i)])
<1> DEFINE R == OfStream(movements, i)
           S == Supplied(i)
           K == {b \in Batch : batch[b].posting # "UNPOSTED"}
<1>1. PICK f : f = [m \in R |-> Signed(m, m.quantity)]
  OBVIOUS
<1>2. /\ R \subseteq movements /\ S \subseteq R /\ IsFiniteSet(R) /\ IsFiniteSet(S)
      /\ \A m \in R : /\ KnownRow(m) /\ m.item = i /\ m.quantity \in Int
                      /\ f[m] = Signed(m, m.quantity) /\ f[m] \in Int
  <2>1. R \subseteq movements /\ S \subseteq R
    BY DEF OfStream, Supplied
  <2>2. IsFiniteSet(R) /\ IsFiniteSet(S)
    BY <2>1, FS_Subset DEF RowsAreFinite
  <2>3. \A m \in R : KnownRow(m) /\ m.item = i /\ m.quantity \in Int
    BY <2>1, MovementsAreRows DEF RowsAreKnown, OfStream, MovementRow
  <2> QED BY <1>1, <2>1, <2>2, <2>3 DEF Signed
<1>3. balance[i].quantity = SumFunctionOnSet(f, R)
  <2>1. balance[i].quantity = NetQuantity(R)
    BY DEF StockIsWhatMoved, Carries
  <2> QED BY <1>1, <2>1, SumOfFunction DEF NetQuantity
<1>4. PICK D : D = R \ S
  OBVIOUS
<1>5. IsFiniteSet(D) /\ D \subseteq R /\ S \cap D = {} /\ S \cup D = R
  BY <1>2, <1>4, FS_Subset
<1>6. SumFunctionOnSet(f, R) = SumFunctionOnSet(f, S) + SumFunctionOnSet(f, D)
  <2> HIDE DEF R, S
  <2>1. \A m \in S \cup D : f[m] \in Int
    BY <1>2, <1>5
  <2>2. SumFunctionOnSet(f, S \cup D) = SumFunctionOnSet(f, S) + SumFunctionOnSet(f, D)
    BY <1>2, <1>5, <2>1, SumUnion
  <2> QED BY <1>5, <2>2
<1>7. SumFunctionOnSet(f, S) = QuantityOf(S) /\ QuantityOf(S) \in Int
  <2>1. \A m \in S : m.doc[1] = "receipt"
    BY DEF Supplied
  <2>2. \A m \in S : m.direction = "IN"
    BY <1>2, <2>1 DEF KnownRow
  <2>3. PICK g : g = [m \in S |-> m.quantity]
    OBVIOUS
  <2>4. \A m \in S : f[m] = g[m] /\ f[m] \in Int
    BY <1>2, <2>2, <2>3 DEF Signed
  <2> HIDE DEF S, R
  <2>5. QuantityOf(S) = SumFunctionOnSet(g, S)
    BY <2>3, SumOfFunction DEF QuantityOf
  <2> QED BY <1>2, <2>4, <2>5, SumSame, SumInt
<1>8. \A m \in D : \E b \in Batch : m.doc = <<"production", b>> \/ m.doc = <<"reversal", b>>
  BY <1>2, <1>4 DEF KnownRow, Supplied
<1>9. \A m \in D : m.doc[2] \in K
  <2> SUFFICES ASSUME NEW m \in D, NEW b \in Batch,
                      m.doc = <<"production", b>> \/ m.doc = <<"reversal", b>>
               PROVE  b \in K
    BY <1>8
  <2>1. m \in MovementsOf("production", b) \/ m \in MovementsOf("reversal", b)
    BY <1>2, <1>5 DEF MovementsOf
  <2> QED BY <2>1 DEF ProductionInv, BatchOK, Produced
<1>10. PICK of : of = [m \in D |-> m.doc[2]]
  OBVIOUS
<1>11. PICK part : part = [b \in K |-> {m \in D : m.doc[2] = b}]
  OBVIOUS
<1>12. PICK g : g = [b \in K |-> SumFunctionOnSet(f, part[b])]
  OBVIOUS
<1>13. IsFiniteSet(K)
  BY PostedAreFinite
<1>14. SumFunctionOnSet(f, D) = SumFunctionOnSet(g, K)
  <2>1. \A m \in D : f[m] \in Int /\ of[m] \in K
    BY <1>2, <1>5, <1>9, <1>10
  <2>2. \A b \in K : part[b] \subseteq D /\ \A m \in D : m \in part[b] <=> of[m] = b
    BY <1>10, <1>11
  <2>3. \A b \in K : g[b] = SumFunctionOnSet(f, part[b])
    BY <1>12
  <2> HIDE DEF K
  <2> QED BY <1>5, <1>13, <2>1, <2>2, <2>3, SumOfParts
<1>15. ASSUME NEW b \in K
       PROVE  /\ g[b] = IF batch[b].posting = "POSTED" THEN Yield(b, i) ELSE 0
              /\ Yield(b, i) \in Int
  <2>1. part[b] = OfStream(MovementsOf("production", b), i)
                    \cup OfStream(MovementsOf("reversal", b), i)
    <3>1. ASSUME NEW m \in part[b]
          PROVE  m \in OfStream(MovementsOf("production", b), i)
                         \cup OfStream(MovementsOf("reversal", b), i)
      <4>1. m \in D /\ m.doc[2] = b /\ m \in movements /\ m.item = i
        BY <1>2, <1>5, <1>11, <3>1
      <4>2. m.doc = <<"production", b>> \/ m.doc = <<"reversal", b>>
        BY <1>8, <4>1
      <4> QED BY <4>1, <4>2 DEF OfStream, MovementsOf
    <3>2. ASSUME NEW m, m \in OfStream(MovementsOf("production", b), i)
                                \/ m \in OfStream(MovementsOf("reversal", b), i)
          PROVE  m \in part[b]
      <4>1. /\ m \in movements /\ m.item = i
            /\ m.doc = <<"production", b>> \/ m.doc = <<"reversal", b>>
        BY <3>2 DEF OfStream, MovementsOf
      <4>2. m \in R /\ m.doc[1] # "receipt" /\ m.doc[2] = b
        BY <4>1 DEF OfStream
      <4> QED BY <1>4, <1>11, <4>2 DEF Supplied
    <3> QED BY <3>1, <3>2
  <2>2. \A m \in OfStream(movements, i) : f[m] = Signed(m, m.quantity)
    BY <1>1
  <2> QED BY <1>12, <2>1, <2>2, BatchYields
<1>16. PICK h : h = [b \in PostedBatches |-> Yield(b, i)]
  OBVIOUS
<1>17. PostedBatches \subseteq K /\ \A b \in K : b \in PostedBatches <=> batch[b].posting = "POSTED"
  BY DEF PostedBatches
<1>18. SumFunctionOnSet(g, K) = SumFunctionOnSet(h, PostedBatches)
  <2>1. \A b \in PostedBatches : h[b] \in Int /\ g[b] = h[b]
    BY <1>15, <1>16, <1>17
  <2>2. \A b \in K \ PostedBatches : g[b] = 0
    BY <1>15, <1>17
  <2> HIDE DEF K
  <2> QED BY <1>13, <1>17, <2>1, <2>2, SumWithin
<1>19. SumFunction(h) = SumFunctionOnSet(h, PostedBatches)
  BY <1>16, SumOfFunction
<1> HIDE DEF R, S, K
<1>20. balance[i].quantity = QuantityOf(S) + SumFunction(h)
  BY <1>3, <1>6, <1>7, <1>14, <1>18, <1>19
<1> QED BY <1>16, <1>20 DEF S

(***************************************************************************)
(* Stock, batches and balances are one account: whatever posts, reversals, *)
(* receipts and failures interleave, what a committed balance has on hand  *)
(* is what receipts brought in, and what the posted batches recorded as    *)
(* output less what they recorded as input                                 *)
(* (production-posting-service.ts, rebuild-balance.ts).                    *)
(***************************************************************************)
THEOREM ProductionAccountsForStock == Spec => []StockIsSuppliedAndProduced
<1>1. Init => RowsAreKnown /\ LossesAreEmpty
  BY DEF Init, StreamInit, LedgerInit, RowsAreKnown, LossesAreEmpty, NewBatch
<1>2. StreamInv /\ ProductionInv /\ RowsAreKnown /\ [Next]_vars => RowsAreKnown'
  BY RowsStayKnown DEF StreamInv
<1>3. ProductionInv /\ LossesAreEmpty /\ [Next]_vars => LossesAreEmpty'
  BY LossesStayEmpty
<1>4. StreamInv /\ ProductionInv /\ RowsAreFinite /\ RowsAreKnown /\ LossesAreEmpty
        /\ StockIsWhatMoved => StockIsSuppliedAndProduced
  BY ProductionAddsUp DEF StockIsSuppliedAndProduced, StreamInv
<1> QED BY <1>1, <1>2, <1>3, <1>4, ProductionStarts, ProductionInductive,
           ProductionRowsAreFinite, ProductionConservesStock, PTL DEF Spec

=============================================================================
