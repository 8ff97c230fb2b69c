---------------------------- MODULE GoodsReceipt ----------------------------
(***************************************************************************)
(* Procurement: the goods receipt documents of one legal entity and the    *)
(* calls createDraft, updateDraft, post and reverse of                     *)
(* goods-receipt-service.ts, run by sessions that interleave statement by  *)
(* statement over the valuation streams of ValuationStreams.               *)
(*                                                                         *)
(* A call first peeks at the committed document in two queries (the header *)
(* and then the lines), decides on that snapshot, and only then opens the  *)
(* transaction that writes: it takes the document's row, waits for its     *)
(* unique key with that row in hand (step "key"), and writes. Its          *)
(* uncommitted document changes are its call record with step "writing".   *)
(* Every UUID a call draws (a document, line or movement id) is the number *)
(* of the call, with the index of the line.                                *)
(***************************************************************************)
EXTENDS ValuationStreams, Sequences, Functions

CONSTANTS Key,           \* idempotency keys clients send
          Content,       \* records [pos, lines] of drafts, lines a non-empty sequence
          NoKey, NoReceipt, NoSnapshot, NoFingerprint,
          MaxCalls       \* bound on the calls made

ASSUME CallsAssumption == MaxCalls \in Nat
ASSUME ContentAssumption ==
  \A c \in Content :
    /\ c.lines \in Seq([item : Item, quantity : Nat \ {0}, cost : Int])
    /\ c.lines # <<>>
ASSUME NullAssumption ==
  /\ NoKey \notin {"post", "reverse"} \X Key
  /\ NoReceipt \notin Nat

VARIABLES receipt,       \* goods_receipt and goods_receipt_line, by id
          call,          \* what each session is doing, or its last answer
          feed,          \* operational_fact_feed: GoodsReceived facts
          calls          \* how many calls have been made

receiptVars == <<receipt, call, feed, calls>>
vars == <<streamVars, receiptVars>>

ReceiptId == 1..MaxCalls

NoCall == [op |-> "none", step |-> "done", result |-> "none", n |-> 0,
           doc |-> NoReceipt, key |-> NoKey, seen |-> NoSnapshot, locked |-> FALSE]

Init ==
  /\ StreamInit
  /\ receipt = [d \in {} |-> NoReceipt]
  /\ call = [s \in Session |-> NoCall]
  /\ feed = {}
  /\ calls = 0

-----------------------------------------------------------------------------
(* What a document writes *)

Row(dir, d, pos, l, line, id) ==
  [item |-> l.item, direction |-> dir, quantity |-> l.quantity, cost |-> l.cost,
   certainty |-> "FINAL", pos |-> pos, reversal |-> dir = "OUT",
   doc |-> d, line |-> line, id |-> id]

\* post: the movements of a snapshot's lines, drawn by call n.
PostingRows(d, snap, n) ==
  { Row("IN", d, snap.pos, snap.lines[i], <<snap.gen, i>>, <<n, i>>) : i \in DOMAIN snap.lines }

\* reverse: the opposite rows at the original position, owned by document n.
ReversalRows(snap, n) ==
  { Row("OUT", n, snap.pos, snap.lines[i], <<n, i>>, <<n, i>>) : i \in DOMAIN snap.lines }

\* A fingerprint of the whole header, its status included.
FingerprintWithStatus(d, snap) ==
  [doc |-> d, pos |-> snap.pos, lines |-> snap.lines, status |-> snap.status]

\* fingerprintFromDraft: everything of business significance and no generated id
\* but the document's.
fingerprintFromDraft(d, snap) == [doc |-> d, pos |-> snap.pos, lines |-> snap.lines]

\* Facts taken from the document as it is when the transaction commits.
FactsOfCurrentLines(s) ==
  LET d == call[s].doc IN
  { [key |-> call[s].key, doc |-> d, pos |-> receipt[d].pos,
     line |-> <<receipt[d].gen, i>>, item |-> receipt[d].lines[i].item,
     quantity |-> receipt[d].lines[i].quantity] : i \in DOMAIN receipt[d].lines }

\* One GoodsReceived fact per line of the snapshot, keyed by key and line id.
mirrorGoodsReceivedFacts(s) ==
  LET snap == call[s].seen IN
  { [key |-> call[s].key, doc |-> call[s].doc, pos |-> snap.pos,
     line |-> <<snap.gen, i>>, item |-> snap.lines[i].item,
     quantity |-> snap.lines[i].quantity] : i \in DOMAIN snap.lines }

-----------------------------------------------------------------------------
(* Locks and unique keys *)

Writing(s) == call[s].step = "writing"

\* A SELECT status without FOR UPDATE.
AnyRow(d) == TRUE

\* t holds the goods_receipt row of d, from its FOR UPDATE or UPDATE to its end.
KeepsRow(t, d) == call[t].step \in {"key", "writing"} /\ call[t].locked /\ call[t].doc = d

RowFree(d) == \A s \in Session : ~KeepsRow(s, d)

KeyHolders(k) == {d \in DOMAIN receipt : receipt[d].key = k}

\* UNIQUE (legal_entity_id, post_idempotency_key): an insert waits for a
\* transaction that has written the key and not ended.
KeepsKey(t, k) == Writing(t) /\ call[t].key = k

KeyFree(k) == \A s \in Session : ~KeepsKey(s, k)

\* s stands still until t ends.
WaitsFor(s, t) ==
  \/ call[s].step \in {"checked", "updating"} /\ KeepsRow(t, call[s].doc)
  \/ call[s].step = "key" /\ KeepsKey(t, call[s].key)
  \/ WaitsForStream(s, t)

ReverseKey(k) == <<"reverse", k>>
PostKey(k) == <<"post", k>>

PostedReversals(d) ==
  {r \in DOMAIN receipt : receipt[r].reverses = d /\ receipt[r].status = "POSTED"}

-----------------------------------------------------------------------------
(* Calls *)

BeginCall(s, op, d, k, step, result) ==
  /\ call[s].step = "done"
  /\ calls < MaxCalls
  /\ calls' = calls + 1
  /\ call' = [call EXCEPT ![s] =
       [op |-> op, step |-> step, result |-> result, n |-> calls + 1, doc |-> d, key |-> k,
        seen |-> IF d \in DOMAIN receipt THEN receipt[d] ELSE NoSnapshot,
        locked |-> FALSE]]

Return(s, result) ==
  call' = [call EXCEPT ![s] =
             [@ EXCEPT !.step = "done", !.result = result, !.seen = NoSnapshot, !.locked = FALSE]]

Draft(content, n) ==
  [status |-> "DRAFT", pos |-> content.pos, lines |-> content.lines, gen |-> n,
   key |-> NoKey, fp |-> NoFingerprint, reverses |-> NoReceipt]

CreateDraft(s) ==
  \E content \in Content :
    /\ BeginCall(s, "create", NoReceipt, NoKey, "done", "created")
    /\ receipt' = [d \in DOMAIN receipt \cup {calls + 1} |->
                     IF d = calls + 1 THEN Draft(content, calls + 1) ELSE receipt[d]]
    /\ UNCHANGED <<streamVars, feed>>

\* The first query of get(): the header as committed now.
StartPost(s) ==
  \E d \in DOMAIN receipt, k \in Key :
    /\ BeginCall(s, "post", d, PostKey(k), "lines", "none")
    /\ UNCHANGED <<streamVars, receipt, feed>>

\* A post that takes any earlier posting with the key for its own retry.
PostAnswerByKeyOnly(d, k, doc) ==
  IF doc.status = "POSTED"
    THEN IF doc.key = k THEN "duplicate" ELSE "immutable"
  ELSE IF doc.status # "DRAFT" THEN "invalid"
  ELSE IF KeyHolders(k) # {} THEN "duplicate"
  ELSE "open"

\* The decision post takes before it opens its transaction.
PostAnswer(d, k, doc) ==
  IF doc.status = "POSTED"
    THEN IF doc.key # k THEN "immutable"
         ELSE IF doc.fp = fingerprintFromDraft(d, doc) THEN "duplicate" ELSE "conflict"
  ELSE IF doc.status # "DRAFT" THEN "invalid"
  ELSE IF KeyHolders(k) \ {d} # {} THEN "conflict"
  ELSE "open"

\* A reverse that refuses drafts only.
ReverseAnswerToDrafts(d, doc) == IF doc.status = "DRAFT" THEN "invalid" ELSE "open"

ReverseAnswer(d, doc) ==
  IF doc.status # "POSTED" THEN "invalid"
  ELSE IF PostedReversals(d) # {} THEN "duplicate"
  ELSE "open"

\* The second query of get(), the local checks and the conflict query: the lines
\* may be younger than the header they are put together with.
ReadLines(s) ==
  /\ call[s].step = "lines"
  /\ LET d   == call[s].doc
         doc == [call[s].seen EXCEPT !.lines = receipt[d].lines, !.gen = receipt[d].gen]
         ans == IF call[s].op = "post" THEN PostAnswer(d, call[s].key, doc)
                                       ELSE ReverseAnswer(d, doc)
     IN  IF ans = "open"
           THEN call' = [call EXCEPT ![s].step = "checked", ![s].seen = doc]
           ELSE Return(s, ans)
  /\ UNCHANGED <<streamVars, receipt, feed, calls>>

\* BEGIN, FOR UPDATE and the status check of post.
LockReceipt(s) ==
  LET c == call[s] IN
  /\ c.op = "post" /\ c.step = "checked"
  /\ RowFree(c.doc)
  /\ IF receipt[c.doc].status = "DRAFT"
       THEN call' = [call EXCEPT ![s].step = "key", ![s].locked = TRUE]
       ELSE Return(s, "immutable")
  /\ UNCHANGED <<streamVars, receipt, feed, calls>>

\* The statement that writes the key waits for whoever has written it and not
\* ended, while the call keeps the row it has; the movement inserts follow.
WriteWithKey(s, rows) ==
  /\ call[s].step = "key"
  /\ KeyFree(call[s].key)
  /\ IF KeyHolders(call[s].key) # {}
       THEN Return(s, "error") /\ UNCHANGED streamVars
       ELSE InsertMovements(s, rows) /\ call' = [call EXCEPT ![s].step = "writing"]
  /\ UNCHANGED <<receipt, feed, calls>>

\* The UPDATE and the movements of post, all from the snapshot.
PostWrite(s) ==
  LET c == call[s] IN
  c.op = "post" /\ WriteWithKey(s, PostingRows(c.doc, c.seen, c.n))

PostCommit(s) ==
  LET c == call[s] IN
  /\ c.op = "post" /\ Writing(s)
  /\ CommitMovements(s)
  /\ receipt' = [receipt EXCEPT ![c.doc] =
       [@ EXCEPT !.status = "POSTED", !.key = c.key, !.fp = fingerprintFromDraft(c.doc, c.seen)]]
  /\ feed' = feed \cup {f \in mirrorGoodsReceivedFacts(s) :
                          \A g \in feed : g.key # f.key \/ g.line # f.line}
  /\ Return(s, "created")
  /\ UNCHANGED calls

StartReverse(s) ==
  \E d \in DOMAIN receipt, k \in Key :
    /\ BeginCall(s, "reverse", d, ReverseKey(k), "lines", "none")
    /\ UNCHANGED <<streamVars, receipt, feed>>

\* BEGIN and UPDATE ... WHERE status = 'POSTED', whose row count nobody looks at.
MarkReversed(s) ==
  LET c == call[s]
      matched == receipt[c.doc].status = "POSTED"
  IN
  /\ c.op = "reverse" /\ c.step = "checked"
  /\ matched => RowFree(c.doc)
  /\ call' = [call EXCEPT ![s].step = "key", ![s].locked = matched]
  /\ UNCHANGED <<streamVars, receipt, feed, calls>>

\* The insert of the reverse document with its key, its lines and its movements.
ReverseWrite(s) ==
  LET c == call[s] IN
  c.op = "reverse" /\ WriteWithKey(s, ReversalRows(c.seen, c.n))

ReverseDocument(c) ==
  [status |-> "POSTED", pos |-> c.seen.pos, lines |-> c.seen.lines, gen |-> c.n,
   key |-> c.key, fp |-> [reverseOf |-> c.doc], reverses |-> c.doc]

ReverseCommit(s) ==
  LET c == call[s] IN
  /\ c.op = "reverse" /\ Writing(s)
  /\ CommitMovements(s)
  /\ receipt' = [d \in DOMAIN receipt \cup {c.n} |->
                   IF d = c.n THEN ReverseDocument(c)
                   ELSE IF d = c.doc /\ c.locked THEN [receipt[d] EXCEPT !.status = "REVERSED"]
                   ELSE receipt[d]]
  /\ Return(s, "created")
  /\ UNCHANGED <<feed, calls>>

\* An updateDraft that leaves the status to the WHERE clause of its UPDATE.
StartUpdateUnchecked(s) ==
  \E d \in DOMAIN receipt :
    /\ BeginCall(s, "update", d, NoKey, "updating", "none")
    /\ UNCHANGED <<streamVars, receipt, feed>>

\* updateDraft reads the status once, outside its transaction.
StartUpdate(s) ==
  \E d \in DOMAIN receipt :
    /\ IF receipt[d].status = "DRAFT"
         THEN BeginCall(s, "update", d, NoKey, "updating", "none")
         ELSE BeginCall(s, "update", d, NoKey, "done", "immutable")
    /\ UNCHANGED <<streamVars, receipt, feed>>

\* The header only WHERE status = 'DRAFT', the lines regardless.
Updated(doc, content, withLines, n) ==
  [doc EXCEPT !.pos = IF doc.status = "DRAFT" THEN content.pos ELSE @,
              !.lines = IF withLines THEN content.lines ELSE @,
              !.gen = IF withLines THEN n ELSE @]

\* Its transaction.
UpdateWrite(s) ==
  LET d == call[s].doc IN
  /\ call[s].step = "updating"
  /\ receipt[d].status = "DRAFT" => RowFree(d)
  /\ \E content \in Content, withLines \in BOOLEAN :
       receipt' = [receipt EXCEPT ![d] = Updated(receipt[d], content, withLines, call[s].n)]
  /\ Return(s, "updated")
  /\ UNCHANGED <<streamVars, feed, calls>>

\* validateLine throws between its statements (an item no longer stocked, a
\* supplier item of someone else): ROLLBACK.
RefuseUpdate(s) ==
  /\ call[s].step = "updating"
  /\ Return(s, "error")
  /\ UNCHANGED <<streamVars, receipt, feed, calls>>

\* A ROLLBACK after which the connection is not given back.
RollbackInCall(s) ==
  /\ Writing(s)
  /\ RollbackMovements(s)
  /\ UNCHANGED receiptVars

\* Any exception between BEGIN and COMMIT, or a lost connection.
Rollback(s) ==
  /\ \/ Writing(s) /\ RollbackMovements(s)
     \/ call[s].step = "key" /\ UNCHANGED streamVars
  /\ Return(s, "error")
  /\ UNCHANGED <<receipt, feed, calls>>

\* The statements between the inserts and the commit.
StreamStatement(s) ==
  /\ \E i \in Item : lockValuationStream(s, i) \/ rebuildInventoryBalance(s, i)
  /\ UNCHANGED receiptVars

CallStep(s) ==
  \/ ReadLines(s)
  \/ LockReceipt(s) \/ PostWrite(s) \/ PostCommit(s)
  \/ MarkReversed(s) \/ ReverseWrite(s) \/ ReverseCommit(s)
  \/ UpdateWrite(s)
  \/ StreamStatement(s)

Next ==
  \E s \in Session :
    \/ CreateDraft(s) \/ StartPost(s) \/ StartReverse(s) \/ StartUpdate(s)
    \/ CallStep(s)
    \/ RefuseUpdate(s) \/ Rollback(s)

Spec == Init /\ [][Next]_vars

\* A session runs its own next statement; one that waits for a row, a key or a
\* stream is woken in turn when it is released.  No call has to be made and no
\* transaction has to fail.
FairSpec == Spec /\ \A s \in Session : SF_vars(CallStep(s))

-----------------------------------------------------------------------------
(* Properties *)

DocKey == {"post", "reverse"} \X Key

Positions == {c.pos : c \in Content}
LineLists == {c.lines : c \in Content}

Fingerprint ==
  [doc : ReceiptId, pos : Positions, lines : LineLists] \cup [reverseOf : ReceiptId]

ReceiptRecord ==
  [status : {"DRAFT", "POSTED", "REVERSED"}, pos : Positions, lines : LineLists,
   gen : ReceiptId, key : DocKey \cup {NoKey}, fp : Fingerprint \cup {NoFingerprint},
   reverses : ReceiptId \cup {NoReceipt}]

CallRecord ==
  [op : {"none", "create", "post", "reverse", "update"},
   step : {"done", "lines", "checked", "updating", "key", "writing"},
   result : {"none", "created", "duplicate", "conflict", "immutable", "invalid", "updated", "error"},
   n : 0..MaxCalls, doc : ReceiptId \cup {NoReceipt}, key : DocKey \cup {NoKey},
   seen : ReceiptRecord \cup {NoSnapshot}, locked : BOOLEAN]

Active(s) == call[s].step # "done"

CallOK(s) ==
  /\ call[s].n <= calls
  /\ Active(s) => /\ call[s].n \in 1..calls
                  /\ call[s].doc \in DOMAIN receipt
                  /\ call[s].seen \in ReceiptRecord
                  /\ call[s].key \in DocKey \/ call[s].step = "updating"
  /\ Writing(s) <=> InTransaction(s)

TypeOK ==
  /\ StreamTypeOK
  /\ calls \in 0..MaxCalls
  /\ DOMAIN receipt \subseteq 1..calls
  /\ \A d \in DOMAIN receipt : receipt[d] \in ReceiptRecord
  /\ call \in [Session -> CallRecord]
  /\ \A s \in Session : CallOK(s)

MovementsOf(d) == {m \in movements : m.doc = d}

Received == {m \in movements : m.direction = "IN"}

(***************************************************************************)
(* Stock moves exactly once per posting, and commits with the document:    *)
(* whatever calls raced, a draft owns no movement, a posted receipt owns   *)
(* the rows of the content its fingerprint was taken of, drawn by one call,*)
(* and a reverse document the opposite of its own lines.                   *)
(***************************************************************************)
PostedExactlyOnce ==
  \A d \in DOMAIN receipt :
    LET doc == receipt[d] IN
    IF doc.status = "DRAFT" THEN MovementsOf(d) = {}
    ELSE IF doc.reverses # NoReceipt THEN MovementsOf(d) = ReversalRows(doc, d)
    ELSE \E gen, n \in ReceiptId :
           MovementsOf(d) =
             PostingRows(d, [pos |-> doc.fp.pos, lines |-> doc.fp.lines, gen |-> gen], n)

(***************************************************************************)
(* The feed mirrors the ledger (mirrorGoodsReceivedFacts): one             *)
(* GoodsReceived fact per received line, under the receipt's posting key,  *)
(* of the quantity and position that moved, and no fact without movement.  *)
(***************************************************************************)
FeedMirrorsReceipts ==
  feed = { [key |-> receipt[m.doc].key, doc |-> m.doc, pos |-> m.pos, line |-> m.line,
            item |-> m.item, quantity |-> m.quantity] : m \in Received }

(***************************************************************************)
(* post never answers that a receipt was posted with a key unless it was,  *)
(* nor that the key is in conflict unless a committed posting holds it.    *)
(***************************************************************************)
PostAnswersAreTrue ==
  \A s \in Session : LET c == call[s] IN
    c.op = "post" /\ c.step = "done" =>
      /\ c.result \in {"created", "duplicate"} =>
           receipt[c.doc].key = c.key /\ MovementsOf(c.doc) # {}
      /\ c.result = "conflict" => KeyHolders(c.key) # {}

(***************************************************************************)
(* However many calls overlap, none of them wait for each other's receipt  *)
(* rows, keys and streams in a circle, though a call keeps the row it has  *)
(* while it waits for its key, and both while it waits for its streams.    *)
(***************************************************************************)
NoCircleOfCalls ==
  \A S \in SUBSET Session :
    S # {} /\ IsFiniteSet(S) => \E s \in S : \A t \in S : ~WaitsFor(s, t)

(***************************************************************************)
(* Every call ends: sessions that wait for a document row, an idempotency  *)
(* key or a stream never wait for each other in a circle.                  *)
(***************************************************************************)
EveryCallReturns == \A s \in Session : call[s].step # "done" ~> call[s].step = "done"

(***************************************************************************)
(* ADR-0010, "document state + movements (+ feed publication) commit       *)
(* together or not at all": the lines and the position a posted receipt    *)
(* shows are the ones its movements were made of.                          *)
(***************************************************************************)
PostingMatchesDocument ==
  \A d \in DOMAIN receipt : LET doc == receipt[d] IN
    doc.status # "DRAFT" /\ doc.reverses = NoReceipt
      => \E n \in ReceiptId : MovementsOf(d) = PostingRows(d, doc, n)

(***************************************************************************)
(* ADR-0010, "no silent field mutation of business-significant content"    *)
(* once a receipt is posted.                                               *)
(***************************************************************************)
PostedIsImmutable ==
  [][ \A d \in DOMAIN receipt : receipt[d].status # "DRAFT" =>
        receipt'[d].lines = receipt[d].lines /\ receipt'[d].pos = receipt[d].pos ]_vars

(***************************************************************************)
(* "Only POSTED receipts can be reversed": a reversed receipt is not       *)
(* reversed again, by whatever number of callers and keys.                 *)
(***************************************************************************)
ReversedAtMostOnce ==
  \A r, q \in DOMAIN receipt :
    r # q /\ receipt[r].reverses # NoReceipt => receipt[r].reverses # receipt[q].reverses

Originals == {d \in DOMAIN receipt : receipt[d].reverses = NoReceipt}

\* The movements of a receipt and of the reverse documents that name it.
RowsAbout(d) == {m \in movements : d \in {m.doc, receipt[m.doc].reverses}}

EffectOf(d) == NetEffect(RowsAbout(d))

Documents ==
  INSTANCE ReversibleDocuments WITH
    Document <- ReceiptId,
    MayCancelOut <- FALSE,
    status <- [d \in ReceiptId |-> IF d \in Originals /\ receipt[d].status # "DRAFT"
                                   THEN receipt[d].status ELSE "OPEN"],
    effect <- [d \in ReceiptId |-> IF d \in Originals THEN EffectOf(d) ELSE NoEffect]

(***************************************************************************)
(* ADR-0010, "Correction = reversal / compensating movements": a receipt   *)
(* is posted in one step and reversed in one step to nothing, in quantity  *)
(* and in cost, and no draft, update, post or reverse of another document  *)
(* touches what it moved.                                                  *)
(***************************************************************************)
ImplementsDocuments == Documents!Spec

(***************************************************************************)
(* "Same idempotency key + same semantics -> duplicate": a post repeated   *)
(* with the key the receipt was posted with is answered duplicate.         *)
(***************************************************************************)
PostRetryIsDuplicate ==
  \A s \in Session : LET c == call[s] IN
    /\ c.op = "post" /\ c.step = "done" /\ receipt[c.doc].key = c.key
    /\ receipt[c.doc].status = "POSTED"
    => c.result \in {"created", "duplicate", "error"}

=============================================================================
