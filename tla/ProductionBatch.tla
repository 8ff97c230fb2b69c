--------------------------- MODULE ProductionBatch ---------------------------
(***************************************************************************)
(* Production batches (production-batch-service.ts) and the posting of     *)
(* what they consumed and produced (production-posting-service.ts), by     *)
(* sessions interleaved statement by statement over the streams of         *)
(* ValuationStreams.                                                       *)
(*                                                                         *)
(* createDraft, updateDraft and finalize are one transaction each, which   *)
(* locks the batch row and touches nothing else: a step each, taken while  *)
(* the row is free.  (finalize peeks first, and whatever its peek refuses  *)
(* its transaction refuses too.)  post and reverse peek outside their      *)
(* transaction, lock the batch, look again, and write.  post quotes its    *)
(* input lines one statement at a time, and other transactions commit in   *)
(* between; the rows of a session are seen by nobody else before its       *)
(* commit, and not by its own later quotes either, which read strictly     *)
(* earlier positions: they are kept in its call record until the last one  *)
(* is there.                                                               *)
(***************************************************************************)
EXTENDS ValuationStreams, Sequences, Functions

CONSTANTS Batch,         \* production batch ids
          Ingredient,    \* line -> physical item, a nested stock-tracked preparation
                         \* standing for its output item
          Output,        \* the item the preparation is kept in stock as
          Planned,       \* what the preparation expects: [inputs, output, class, reasoned]
          Actual,        \* what may be recorded in its place
          ProductionPosition, Reason, Key,
          Supply,        \* receipts others post: [pos, lines]
          NoKey, NoBatch, NoContent, NoActual,
          MaxCalls,      \* bound on posts and reverses called
          MaxSupplies    \* bound on receipts posted meanwhile

InputLine == 1..Len(Ingredient)

\* assertPositiveQuantity on every recorded input and on every quantity moved.
Recorded ==
  [inputs : [InputLine -> Nat \ {0}], output : Nat, class : STRING, reasoned : BOOLEAN]

MovementRow ==
  [item : Item, direction : {"IN", "OUT"}, quantity : Nat \ {0}, cost : Int,
   certainty : Certainty, pos : [date : Nat, order : Nat], reversal : BOOLEAN,
   doc : STRING \X (Batch \cup Nat), id : Nat]

ASSUME ProductionAssumption ==
  /\ MaxCalls \in Nat /\ MaxSupplies \in Nat
  /\ Ingredient \in Seq(Item) /\ Ingredient # <<>>
  /\ Output \in Item
  /\ Planned \in Actual /\ Actual \subseteq Recorded
  /\ Movement \subseteq MovementRow
  /\ NoKey \notin Key

VARIABLES batch,         \* production_batch and production_batch_input
          reversal,      \* production_batch_reversal, by batch
          call,          \* what each session is doing
          feed,          \* operational_fact_feed
          calls,         \* posts and reverses called so far
          supplies       \* receipts posted so far

productionVars == <<batch, reversal, call, feed, calls, supplies>>
vars == <<streamVars, productionVars>>

Call(op, step, result, n, b, k, content) ==
  [op |-> op, step |-> step, result |-> result, n |-> n, batch |-> b, key |-> k,
   content |-> content, line |-> 0, rows |-> {}]

Idle(result) == Call("none", "done", result, 0, NoBatch, NoKey, NoContent)

NewBatch ==
  [status |-> "NONE", posting |-> "UNPOSTED", actual |-> NoActual, finalizeKey |-> NoKey,
   key |-> NoKey, pos |-> NoContent]

Init ==
  /\ StreamInit
  /\ batch = [b \in Batch |-> NewBatch]
  /\ reversal = [b \in {} |-> NoBatch]
  /\ call = [s \in Session |-> Idle("none")]
  /\ feed = {}
  /\ calls = 0
  /\ supplies = 0

-----------------------------------------------------------------------------
(* The draft *)

\* Nobody holds the FOR UPDATE lock of b's row.
HoldsBatch(c, b) == c.batch = b /\ c.step \in {"quote", "write", "writing"}

BatchFree(b) == \A s \in Session : ~HoldsBatch(call[s], b)

assertDeviationRules(a) ==
  /\ a.class \in {"ACCIDENT", "TOTAL_LOSS"} => a.reasoned
  /\ IF a.class = "TOTAL_LOSS" THEN a.output = 0 ELSE a.output > 0

\* Actual quantities of the lines a command names; the others stay.
InputActuals(old, new, lines) == [l \in InputLine |-> IF l \in lines THEN new[l] ELSE old[l]]

\* Whatever a command leaves out is taken from old.
Overrides(old, a) ==
  { [inputs   |-> InputActuals(old.inputs, a.inputs, lines),
     output   |-> IF "output" \in given THEN a.output ELSE old.output,
     class    |-> IF "class" \in given THEN a.class ELSE old.class,
     reasoned |-> IF "reasoned" \in given THEN a.reasoned ELSE old.reasoned] :
    given \in SUBSET {"output", "class", "reasoned"}, lines \in SUBSET InputLine }

\* The expected values and planned lines of a published preparation, pinned.
CreateDraft(b, a) ==
  /\ batch[b].status = "NONE"
  /\ \E actual \in Overrides(Planned, a) :
       /\ assertDeviationRules(actual)
       /\ batch' = [batch EXCEPT ![b] = [@ EXCEPT !.status = "DRAFT", !.actual = actual]]

\* Overwriting without the status check.
UpdateAnything(b, a) ==
  /\ batch[b].status # "NONE" /\ BatchFree(b)
  /\ assertDeviationRules(a)
  /\ batch' = [batch EXCEPT ![b].actual = a]

UpdateDraft(b, a) ==
  /\ batch[b].status = "DRAFT" /\ BatchFree(b)
  /\ \E actual \in Overrides(batch[b].actual, a) :
       /\ assertDeviationRules(actual)
       /\ batch' = [batch EXCEPT ![b].actual = actual]

\* UNIQUE (tenant_id, finalize_idempotency_key); the same key on this batch is
\* answered with the batch as it is.
Finalize(b, k) ==
  /\ batch[b].status = "DRAFT" /\ BatchFree(b)
  /\ \A other \in Batch : batch[other].finalizeKey # k
  /\ assertDeviationRules(batch[b].actual)
  /\ batch' = [batch EXCEPT ![b] = [@ EXCEPT !.status = "FINALIZED", !.finalizeKey = k]]

Edit(b) ==
  /\ \/ \E a \in Actual : CreateDraft(b, a) \/ UpdateDraft(b, a)
     \/ \E k \in Key : Finalize(b, k)
  /\ UNCHANGED <<streamVars, reversal, call, feed, calls, supplies>>

-----------------------------------------------------------------------------
(* Answers *)

Writing(s) == call[s].step = "writing"

\* (legal_entity_id, key) is unique among batches and among reversals, on its own.
KeyHolders(op, k) ==
  IF op = "post" THEN {b \in Batch : batch[b].key = k}
                 ELSE {b \in DOMAIN reversal : reversal[b].key = k}

\* An insert of a reversal's key waits for a transaction that has written it.
KeepsKey(t, k) == Writing(t) /\ call[t].op = "reverse" /\ call[t].key = k

KeyFree(k) == \A s \in Session : ~KeepsKey(s, k)

\* s stands still until t ends.
WaitsFor(s, t) ==
  \/ call[s].step = "lock" /\ HoldsBatch(call[t], call[s].batch)
  \/ call[s].step = "write" /\ KeepsKey(t, call[s].key)
  \/ WaitsForStream(s, t)

\* productionPostFingerprint covers the position and the finalized actuals, and
\* those no longer change.
SamePost(c) == batch[c.batch].key = c.key /\ batch[c.batch].pos = c.content

\* productionReverseFingerprint covers the reason.
SameReversal(c) ==
  reversal[c.batch].key = c.key /\ reversal[c.batch].content = c.content

PriorReversalAnswer(c) ==
  IF SameReversal(c) THEN "duplicate"
  ELSE IF reversal[c.batch].key = c.key THEN "conflict" ELSE "already"

\* What the row and the reversal of its batch answer a call with; a post of a
\* reversed batch is told so by different errors before and under the lock.
BatchAnswer(c, ifReversed) ==
  LET b == batch[c.batch] IN
  IF c.op = "post" THEN
    CASE b.status # "FINALIZED" -> "not finalized"
      [] b.status = "FINALIZED" /\ b.posting = "UNPOSTED" -> "go on"
      [] b.status = "FINALIZED" /\ b.posting = "POSTED" ->
           IF SamePost(c) THEN "duplicate" ELSE "conflict"
      [] b.status = "FINALIZED" /\ b.posting = "REVERSED" -> ifReversed
  ELSE IF c.batch \in DOMAIN reversal THEN PriorReversalAnswer(c)
  ELSE IF b.posting = "POSTED" THEN "go on" ELSE "invalid"

PeekAnswer(c) == BatchAnswer(c, "already")

\* A lock after which nothing is asked again.
LockAnswerTrusting(c) == "go on"

\* A recheck by status only, which takes the winner of a race for another document.
LockAnswerByStatus(c) ==
  LET b == batch[c.batch] IN
  CASE c.op = "post" /\ b.posting # "UNPOSTED" -> "invalid"
    [] c.op = "reverse" /\ b.posting # "POSTED" -> "invalid"
    [] OTHER -> "go on"

LockAnswer(c) == BatchAnswer(c, "invalid")

-----------------------------------------------------------------------------
(* What posting and reversal write *)

Row(dir, i, q, c, cert, pos, doc, n) ==
  [item |-> i, direction |-> dir, quantity |-> q, cost |-> c, certainty |-> cert,
   pos |-> pos, reversal |-> FALSE, doc |-> doc, id |-> n]

CostOf(S) == SumFunction([m \in S |-> m.cost])

QuantityOf(S) == SumFunction([m \in S |-> m.quantity])

Outs(S) == {m \in S : m.direction = "OUT"}

\* One OUT per input line: lines of one item are not added up.
InputRow(c, l, quote) ==
  LET q == batch[c.batch].actual.inputs[l] IN
  Row("OUT", Ingredient[l], q, quote.unitCost * q, quote.certainty, c.content,
      <<"production", c.batch>>, l)

\* mergeCertainty over the lines, starting from FINAL.
MergedCertainty(S) ==
  CHOOSE x \in {m.certainty : m \in S} \cup {"FINAL"} :
    \A y \in {m.certainty : m \in S} \cup {"FINAL"} : mergeCertainty(x, y) = x

\* An output that takes over the cost of the first input line only.
OutputAtFirstInputCost(c) ==
  { Row("IN", Output, batch[c.batch].actual.output, m.cost, m.certainty, c.content,
        <<"production", c.batch>>, 0) : m \in {x \in c.rows : x.id = 1} }

\* One IN that takes over the cost of the inputs, or none for a total loss.
OutputRows(c) ==
  LET a == batch[c.batch].actual IN
  IF a.class = "TOTAL_LOSS" THEN {}
  ELSE { Row("IN", Output, a.output, CostOf(c.rows), MergedCertainty(c.rows), c.content,
             <<"production", c.batch>>, 0) }

MovementsOf(kind, b) == {m \in movements : m.doc = <<kind, b>>}

\* Each movement of the posting, the other way round, at its own position.
Compensation(b, m) ==
  [m EXCEPT !.direction = IF m.direction = "IN" THEN "OUT" ELSE "IN",
            !.reversal = TRUE, !.doc = <<"reversal", b>>]

\* Giving back the inputs and leaving the output in stock.
InputsReturned(b) == {Compensation(b, m) : m \in Outs(MovementsOf("production", b))}

CompensationRows(b) == {Compensation(b, m) : m \in MovementsOf("production", b)}

mirrorInventoryConsumed(c, S) ==
  { [type |-> "InventoryConsumed", batch |-> c.batch, key |-> c.key, line |-> m.id,
     item |-> m.item, quantity |-> m.quantity, pos |-> m.pos] : m \in Outs(S) }

\* A total loss mirrored as if something had come of it.
ProducedEvenIfLost(c) ==
  [type |-> "PreparationProduced", batch |-> c.batch, key |-> c.key,
   quantity |-> batch[c.batch].actual.output, cost |-> CostOf(c.rows),
   certainty |-> MergedCertainty(c.rows), pos |-> c.content]

\* PreparationProduced or ProductionTotalLoss.
mirrorProduction(c) ==
  LET a == batch[c.batch].actual IN
  [type |-> IF a.class = "TOTAL_LOSS" THEN "ProductionTotalLoss" ELSE "PreparationProduced",
   batch |-> c.batch, key |-> c.key, quantity |-> a.output, cost |-> CostOf(c.rows),
   certainty |-> MergedCertainty(c.rows), pos |-> c.content]

mirrorProductionPostingReversed(c) ==
  [type |-> "ProductionPostingReversed", batch |-> c.batch, key |-> c.key,
   pos |-> batch[c.batch].pos]

-----------------------------------------------------------------------------
(* Calls *)

StartCall(s) ==
  /\ call[s].step = "done" /\ calls < MaxCalls
  /\ calls' = calls + 1
  /\ \E op \in {"post", "reverse"}, b \in Batch, k \in Key :
       \E content \in (IF op = "post" THEN ProductionPosition ELSE Reason) :
         /\ batch[b].status # "NONE"
         /\ call' = [call EXCEPT ![s] = Call(op, "peek", "none", calls + 1, b, k, content)]
  /\ UNCHANGED <<streamVars, batch, reversal, feed, supplies>>

GoTo(s, step) == call' = [call EXCEPT ![s].step = step]

\* What a caller does next depends on whether it succeeded, had already succeeded,
\* or is refused, by whichever error.
Outcome(answer) == IF answer \in {"created", "duplicate"} THEN answer ELSE "refused"

Return(s, answer) == call' = [call EXCEPT ![s] = Idle(Outcome(answer))]

Decide(s, answer, step) == IF answer = "go on" THEN GoTo(s, step) ELSE Return(s, answer)

PeekBatch(s) ==
  /\ call[s].step = "peek"
  /\ Decide(s, PeekAnswer(call[s]), "key")
  /\ UNCHANGED <<streamVars, batch, reversal, feed, calls, supplies>>

CheckKey(s) ==
  /\ call[s].step = "key"
  /\ LET c == call[s]
         others == KeyHolders(c.op, c.key) \ {c.batch}
     IN  Decide(s, IF others # {} THEN "conflict" ELSE "go on", "lock")
  /\ UNCHANGED <<streamVars, batch, reversal, feed, calls, supplies>>

\* BEGIN, lockBatch, and the second look.
LockBatch(s) ==
  /\ call[s].step = "lock"
  /\ BatchFree(call[s].batch)
  /\ Decide(s, LockAnswer(call[s]), IF call[s].op = "post" THEN "quote" ELSE "write")
  /\ UNCHANGED <<streamVars, batch, reversal, feed, calls, supplies>>

\* The quote and the OUT of the next input line.
QuoteLine(s) ==
  LET c == call[s]
      l == c.line + 1
  IN
  /\ c.step = "quote"
  /\ l \in InputLine
  /\ \E quote \in IssueQuotes(VisibleMovements(s, Ingredient[l]), c.content) :
       call' = [call EXCEPT ![s] = [c EXCEPT !.line = l, !.rows = @ \cup {InputRow(c, l, quote)}]]
  /\ UNCHANGED <<streamVars, batch, reversal, feed, calls, supplies>>

WriteProduction(s) ==
  /\ call[s].step = "quote" /\ call[s].line = Len(Ingredient)
  /\ InsertMovements(s, call[s].rows \cup OutputRows(call[s]))
  /\ GoTo(s, "writing")
  /\ UNCHANGED <<batch, reversal, feed, calls, supplies>>

\* The insert of the reversal with its key, and the compensations.
WriteReversal(s) ==
  LET c == call[s] IN
  /\ c.step = "write"
  /\ KeyFree(c.key)
  /\ IF KeyHolders("reverse", c.key) # {}
       THEN Return(s, "error") /\ UNCHANGED streamVars
       ELSE InsertMovements(s, CompensationRows(c.batch)) /\ GoTo(s, "writing")
  /\ UNCHANGED <<batch, reversal, feed, calls, supplies>>

\* The UPDATE that writes the key comes last, and nothing checked the key since
\* the transaction began: another batch may have taken it.
KeyTaken(c) == KeyHolders("post", c.key) # {}

PostCommit(s) ==
  LET c == call[s] IN
  /\ c.op = "post" /\ Writing(s)
  /\ ~KeyTaken(c)
  /\ CommitMovements(s)
  /\ batch' = [batch EXCEPT ![c.batch] =
                 [@ EXCEPT !.posting = "POSTED", !.key = c.key, !.pos = c.content]]
  /\ feed' = feed \cup mirrorInventoryConsumed(c, c.rows) \cup {mirrorProduction(c)}
  /\ Return(s, "created")
  /\ UNCHANGED <<reversal, calls, supplies>>

ReverseCommit(s) ==
  LET c == call[s] IN
  /\ c.op = "reverse" /\ Writing(s)
  /\ CommitMovements(s)
  /\ batch' = [batch EXCEPT ![c.batch].posting = "REVERSED"]
  /\ reversal' = [b \in DOMAIN reversal \cup {c.batch} |->
                    IF b = c.batch THEN [n |-> c.n, key |-> c.key, content |-> c.content]
                                   ELSE reversal[b]]
  /\ feed' = feed \cup {mirrorProductionPostingReversed(c)}
  /\ Return(s, "created")
  /\ UNCHANGED <<calls, supplies>>

\* The unique index refuses the UPDATE, and the transaction with it.
RefuseKey(s) ==
  /\ call[s].op = "post" /\ Writing(s)
  /\ todo[s] = {} /\ KeyTaken(call[s])
  /\ RollbackMovements(s)
  /\ Return(s, "error")
  /\ UNCHANGED <<batch, reversal, feed, calls, supplies>>

\* Another document posts a receipt in the same streams.
StartSupply(s) ==
  /\ call[s].step = "done" /\ supplies < MaxSupplies
  /\ supplies' = supplies + 1
  /\ \E r \in Supply :
       InsertMovements(s, {Row("IN", l.item, l.quantity, l.cost, "FINAL", r.pos,
                               <<"receipt", supplies + 1>>, 0) : l \in r.lines})
  /\ call' = [call EXCEPT ![s] = Call("supply", "writing", "none", 0, NoBatch, NoKey, NoContent)]
  /\ UNCHANGED <<batch, reversal, feed, calls>>

SupplyCommit(s) ==
  /\ call[s].op = "supply" /\ Writing(s)
  /\ CommitMovements(s)
  /\ Return(s, "created")
  /\ UNCHANGED <<batch, reversal, feed, calls, supplies>>

\* An exception between BEGIN and COMMIT: nothing stays.
Rollback(s) ==
  /\ \/ Writing(s) /\ RollbackMovements(s)
     \/ call[s].step \in {"quote", "write"} /\ UNCHANGED streamVars
  /\ Return(s, "error")
  /\ UNCHANGED <<batch, reversal, feed, calls, supplies>>

StreamStatement(s) ==
  /\ \E i \in Item : lockValuationStream(s, i) \/ rebuildInventoryBalance(s, i)
  /\ UNCHANGED productionVars

CallStep(s) ==
  \/ PeekBatch(s) \/ CheckKey(s) \/ LockBatch(s)
  \/ QuoteLine(s) \/ WriteProduction(s) \/ WriteReversal(s)
  \/ StreamStatement(s)
  \/ PostCommit(s) \/ ReverseCommit(s) \/ RefuseKey(s) \/ SupplyCommit(s)

Next ==
  \/ \E b \in Batch : Edit(b)
  \/ \E s \in Session : StartCall(s) \/ StartSupply(s) \/ CallStep(s) \/ Rollback(s)

Spec == Init /\ [][Next]_vars

-----------------------------------------------------------------------------
(* Properties *)

ActualRecord ==
  [inputs : [InputLine -> UNION {Range(a.inputs) : a \in Actual}],
   output : {a.output : a \in Actual}, class : {a.class : a \in Actual}, reasoned : BOOLEAN]

BatchRecord ==
  [status : {"NONE", "DRAFT", "FINALIZED"}, posting : {"UNPOSTED", "POSTED", "REVERSED"},
   actual : ActualRecord \cup {NoActual},
   finalizeKey : Key \cup {NoKey}, key : Key \cup {NoKey},
   pos : ProductionPosition \cup {NoContent}]

Content == ProductionPosition \cup Reason \cup {NoContent}

\* A session inserts movements only while it writes; a call that holds its batch
\* finds it as it was when it decided.
CallOK(s) ==
  LET c == call[s] IN
  /\ Writing(s) <=> InTransaction(s)
  /\ c.step = "done" <=> c.op = "none"
  /\ c.line \in 0..Len(Ingredient)
  /\ c.op \in {"post", "reverse"} =>
       /\ c.batch \in Batch
       /\ HoldsBatch(c, c.batch) =>
            /\ batch[c.batch].status = "FINALIZED"
            /\ batch[c.batch].posting = (IF c.op = "post" THEN "UNPOSTED" ELSE "POSTED")

TypeOK ==
  /\ StreamTypeOK
  /\ batch \in [Batch -> BatchRecord]
  /\ DOMAIN reversal = {b \in Batch : batch[b].posting = "REVERSED"}
  /\ \A b \in DOMAIN reversal : reversal[b].key \in Key /\ reversal[b].content \in Reason
  /\ \A s \in Session :
       /\ call[s].key \in Key \cup {NoKey} /\ call[s].content \in Content
       /\ CallOK(s)
  /\ calls \in 0..MaxCalls /\ supplies \in 0..MaxSupplies

\* The movements of a posting of batch b at position pos, whatever the quotes.
Posting(b, rows, pos) ==
  LET a == batch[b].actual IN
  /\ \A m \in rows : m.pos = pos /\ m.id \in InputLine \cup {0}
  /\ \A m, n \in rows : m.id = n.id => m = n
  /\ \A l \in InputLine :
       \E m \in rows : /\ m.id = l /\ m.direction = "OUT"
                       /\ m.item = Ingredient[l] /\ m.quantity = a.inputs[l]
  /\ \A m \in rows : m.id = 0 =>
       /\ m.direction = "IN" /\ m.item = Output /\ m.quantity = a.output
       /\ m.cost = CostOf(Outs(rows)) /\ m.certainty = MergedCertainty(Outs(rows))
  /\ (\E m \in rows : m.id = 0) <=> a.class # "TOTAL_LOSS"

Produced(b) ==
  LET rows == MovementsOf("production", b) IN
  IF batch[b].posting = "UNPOSTED" THEN rows = {}
  ELSE batch[b].status = "FINALIZED" /\ Posting(b, rows, batch[b].pos)

(***************************************************************************)
(* "One economic result": an unposted batch owns no movement; a posted or  *)
(* reversed one owns one OUT per input line as finalized and, unless it    *)
(* was a total loss, one IN that takes over exactly the cost and the worst *)
(* certainty of those OUTs, although each was quoted by a statement of its *)
(* own with others committing in between.                                  *)
(***************************************************************************)
ProducedOnce == \A b \in Batch : Produced(b)

Supplied(i) == {m \in OfStream(movements, i) : m.doc[1] = "receipt"}

PostedBatches == {b \in Batch : batch[b].posting = "POSTED"}

\* What was recorded of b, as a change of the stock of i.
Yield(b, i) ==
  LET a == batch[b].actual IN
  (IF i = Output THEN a.output ELSE 0)
  - SumFunction([l \in {k \in InputLine : Ingredient[k] = i} |-> a.inputs[l]])

(***************************************************************************)
(* Stock, batches and balances are one account: what a committed balance   *)
(* has on hand is what receipts brought in, and what the posted batches    *)
(* recorded as output less what they recorded as input, those reversed     *)
(* left out ("One economic result"; a total loss puts out nothing).        *)
(***************************************************************************)
StockIsSuppliedAndProduced ==
  \A i \in Item :
    balance[i].quantity = QuantityOf(Supplied(i))
                          + SumFunction([b \in PostedBatches |-> Yield(b, i)])

EffectOf(b) == NetEffect(MovementsOf("production", b) \cup MovementsOf("reversal", b))

Documents ==
  INSTANCE ReversibleDocuments WITH
    Document <- Batch,
    MayCancelOut <- Output \in Range(Ingredient),
    status <- [b \in Batch |-> IF batch[b].posting = "UNPOSTED" THEN "OPEN"
                               ELSE batch[b].posting],
    effect <- [b \in Batch |-> EffectOf(b)]

(***************************************************************************)
(* ADR-0010, "Correction = reversal / compensating movements": posts,      *)
(* reversals and their races look, from outside, like documents that are   *)
(* posted once and reversed once, with nothing left of them in quantity or *)
(* in cost.                                                                *)
(***************************************************************************)
ImplementsDocuments == Documents!Spec

(***************************************************************************)
(* "D1.2A FINALIZED = immutable production fact": after finalize the       *)
(* recorded actuals never change, whatever draft updates, finalizes and    *)
(* postings were under way, and the posting only moves from UNPOSTED to    *)
(* POSTED to REVERSED, keeping its key and position.                       *)
(***************************************************************************)
FinalizedIsImmutable ==
  [][ \A b \in Batch : LET old == batch[b] IN
        batch[b].status = "FINALIZED" =>
          /\ batch'[b].status = "FINALIZED" /\ batch'[b].actual = old.actual
          /\ batch'[b].finalizeKey = old.finalizeKey
          /\ <<old.posting, batch'[b].posting>> \in
               {<<"UNPOSTED", "POSTED">>, <<"POSTED", "REVERSED">>} \cup
               {<<p, p>> : p \in {"UNPOSTED", "POSTED", "REVERSED"}}
          /\ old.posting # "UNPOSTED" => batch'[b].key = old.key /\ batch'[b].pos = old.pos ]_vars

(***************************************************************************)
(* However many posts, reversals and receipts overlap, none of them wait   *)
(* for each other's batches, keys and streams in a circle, although a post *)
(* reads the streams of its inputs in the order of its lines.              *)
(***************************************************************************)
NoCircleOfCalls ==
  \A S \in SUBSET Session :
    S # {} /\ IsFiniteSet(S) => \E s \in S : \A t \in S : ~WaitsFor(s, t)

Posted(c) == batch[c.batch].posting = "POSTED" /\ SamePost(c)

Reversed(c) == c.batch \in DOMAIN reversal /\ SameReversal(c)

Answers(s) == call[s].step # "done" /\ call'[s].step = "done"

(***************************************************************************)
(* "duplicate exact post idempotent" and "concurrent double post one       *)
(* economic result": a call that repeats what is committed, key and        *)
(* content alike, is answered duplicate at whatever step it finds out, and *)
(* no other call is.                                                       *)
(***************************************************************************)
RetriesAreDuplicates ==
  [][ \A s \in Session : LET c == call[s] IN
        /\ c.op = "post" /\ Answers(s) => (call'[s].result = "duplicate" <=> Posted(c))
        /\ c.op = "reverse" /\ Answers(s) => (call'[s].result = "duplicate" <=> Reversed(c)) ]_vars

(***************************************************************************)
(* The feed tells what happened to stock: per batch the consumption facts  *)
(* add up, item by item, to the movements, a posting is mirrored as either *)
(* produced or lost with the cost the stock gained or lost, and a reversal *)
(* once.                                                                   *)
(***************************************************************************)
FeedMirrorsProduction ==
  \A b \in Batch :
    LET rows == MovementsOf("production", b)
        of(type) == {f \in feed : f.type = type /\ f.batch = b}
        made == of("PreparationProduced") \cup of("ProductionTotalLoss")
    IN
    /\ \A i \in Item : QuantityOf({f \in of("InventoryConsumed") : f.item = i}) =
                         QuantityOf({m \in Outs(rows) : m.item = i})
    /\ IF rows = {} THEN made = {}
       ELSE \E f \in made : /\ made = {f}
                            /\ f.cost = CostOf(Outs(rows)) /\ f.pos = batch[b].pos
                            /\ f.type = "ProductionTotalLoss" <=> rows = Outs(rows)
    /\ Cardinality(of("ProductionPostingReversed")) =
         (IF batch[b].posting = "REVERSED" THEN 1 ELSE 0)

=============================================================================
