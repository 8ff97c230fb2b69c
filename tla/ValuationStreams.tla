-------------------------- MODULE ValuationStreams --------------------------
(***************************************************************************)
(* How every posting service writes stock: inside one PostgreSQL READ      *)
(* COMMITTED transaction it inserts its movement rows, then, stream by     *)
(* stream in sorted order, locks the inventory_balance row and rebuilds it *)
(* from all the movements it can see, and commits.                         *)
(*                                                                         *)
(* What a transaction has written and not committed is kept apart from the *)
(* tables: inserted and rebuilt are seen by their own session only.  The   *)
(* row lock of a balance is held from lockValuationStream to the end of    *)
(* the transaction.                                                        *)
(***************************************************************************)
EXTENDS InventoryLedger, FiniteSetsExt

CONSTANTS Session,       \* database sessions (one service call each)
          NoSession      \* the owner of a free lock

ASSUME SessionAssumption == NoSession \notin Session
\* Streams are sorted by item id, a UUID: a number that sorts as its text does.
ASSUME ItemAssumption == Item \subseteq Nat

VARIABLES streamLock,    \* who holds the FOR UPDATE lock of a balance row
          inserted,      \* movement rows a session has inserted, uncommitted
          todo,          \* streams a session has touched and not rebuilt yet
          rebuilt        \* balance rows a session has written, uncommitted

txVars == <<streamLock, inserted, todo, rebuilt>>
streamVars == <<movements, balance, streamLock, inserted, todo, rebuilt>>

NoRows == [i \in {} |-> emptyCostStream]

StreamInit ==
  /\ LedgerInit
  /\ streamLock = [i \in Item |-> NoSession]
  /\ inserted = [s \in Session |-> {}]
  /\ todo = [s \in Session |-> {}]
  /\ rebuilt = [s \in Session |-> NoRows]

InTransaction(s) == inserted[s] # {}

-----------------------------------------------------------------------------
(* The statements of a posting transaction *)

InsertMovements(s, M) ==
  /\ ~InTransaction(s)
  /\ M # {} /\ IsFiniteSet(M) /\ M \subseteq Movement
  /\ inserted' = [inserted EXCEPT ![s] = M]
  /\ todo' = [todo EXCEPT ![s] = StreamsOf(M)]
  /\ UNCHANGED <<movements, balance, streamLock, rebuilt>>

\* Locking in the order the lines name the items.
UnsortedStreams(s) == todo[s]

\* The loops run over [...new Set(items)].sort().
NextStreams(s) == {Min(todo[s])}

\* An upsert of the balance row without the FOR UPDATE.
LockWithoutWaiting(s, i) ==
  /\ todo[s] # {} /\ i \in NextStreams(s)
  /\ \A j \in todo[s] : streamLock[j] # s
  /\ streamLock' = [streamLock EXCEPT ![i] = s]
  /\ UNCHANGED <<movements, balance, inserted, todo, rebuilt>>

\* INSERT ... ON CONFLICT DO NOTHING waits for a concurrent insert of the row and
\* SELECT ... FOR UPDATE for its lock; either way the session waits its turn.
lockValuationStream(s, i) ==
  /\ todo[s] # {} /\ i \in NextStreams(s)
  /\ \A j \in todo[s] : streamLock[j] # s
  /\ streamLock[i] = NoSession
  /\ streamLock' = [streamLock EXCEPT ![i] = s]
  /\ UNCHANGED <<movements, balance, inserted, todo, rebuilt>>

\* A rebuild that replays only what this transaction inserted.
OwnMovements(s, i) == OfStream(inserted[s], i)

\* READ COMMITTED: a statement sees what is committed when it starts and what
\* its own transaction wrote.
VisibleMovements(s, i) == OfStream(movements \cup inserted[s], i)

\* s stands still until t, which holds the stream s has to rebuild next, ends.
WaitsForStream(s, t) ==
  /\ \A i \in todo[s] : streamLock[i] # s
  /\ todo[s] # {} /\ \E i \in NextStreams(s) : streamLock[i] = t

rebuildInventoryBalance(s, i) ==
  /\ i \in todo[s] /\ streamLock[i] = s
  /\ \E st \in RebuiltStates(VisibleMovements(s, i)) :
       rebuilt' = [rebuilt EXCEPT ![s] =
                     [j \in DOMAIN rebuilt[s] \cup {i} |->
                        IF j = i THEN st ELSE rebuilt[s][j]]]
  /\ todo' = [todo EXCEPT ![s] = @ \ {i}]
  /\ UNCHANGED <<movements, balance, streamLock, inserted>>

EndTransaction(s) ==
  /\ streamLock' = [i \in Item |-> IF streamLock[i] = s THEN NoSession ELSE streamLock[i]]
  /\ inserted' = [inserted EXCEPT ![s] = {}]
  /\ todo' = [todo EXCEPT ![s] = {}]
  /\ rebuilt' = [rebuilt EXCEPT ![s] = NoRows]

CommitMovements(s) ==
  /\ InTransaction(s) /\ todo[s] = {}
  /\ movements' = movements \cup inserted[s]
  /\ balance' = [i \in Item |-> IF i \in DOMAIN rebuilt[s] THEN rebuilt[s][i] ELSE balance[i]]
  /\ EndTransaction(s)

\* An exception, a lost connection or a server restart: nothing was written.
RollbackMovements(s) ==
  /\ InTransaction(s)
  /\ EndTransaction(s)
  /\ UNCHANGED ledgerVars

StreamStep(s) ==
  \/ \E M \in SUBSET Movement : InsertMovements(s, M)
  \/ \E i \in Item : lockValuationStream(s, i) \/ rebuildInventoryBalance(s, i)
  \/ CommitMovements(s)
  \/ RollbackMovements(s)

-----------------------------------------------------------------------------
(* The posting protocol on its own, under any callers that insert fresh rows *)

AnyInserted == UNION {inserted[s] : s \in Session}

Begin(s) ==
  \E M \in SUBSET (Movement \ (movements \cup AnyInserted)) : InsertMovements(s, M)

SessionStep(s) ==
  \/ \E i \in Item : lockValuationStream(s, i) \/ rebuildInventoryBalance(s, i)
  \/ CommitMovements(s)

StreamNext == \E s \in Session : Begin(s) \/ SessionStep(s) \/ RollbackMovements(s)

StreamSpec == StreamInit /\ [][StreamNext]_streamVars

\* PostgreSQL wakes the waiters of a row lock in turn, so a waiting lock request
\* is served if the lock is released again and again: strong fairness for locks,
\* weak fairness for a session's own next statement.  Nothing makes a caller
\* begin, and nothing makes it fail.
StreamFairness ==
  \A s \in Session :
    /\ \A i \in Item : SF_streamVars(lockValuationStream(s, i))
    /\ \A i \in Item : WF_streamVars(rebuildInventoryBalance(s, i))
    /\ WF_streamVars(CommitMovements(s))

FairStreamSpec == StreamSpec /\ StreamFairness

-----------------------------------------------------------------------------
(* Properties *)

StreamTypeOK ==
  /\ movements \subseteq Movement
  /\ DOMAIN balance = Item
  /\ streamLock \in [Item -> Session \cup {NoSession}]
  /\ inserted \in [Session -> SUBSET Movement]
  /\ todo \in [Session -> SUBSET Item]
  /\ DOMAIN rebuilt = Session
  /\ \A s \in Session : DOMAIN rebuilt[s] \subseteq Item
  /\ \A i \in Item : streamLock[i] # NoSession => InTransaction(streamLock[i])

(***************************************************************************)
(* Every committed balance is the chronological replay of exactly the      *)
(* committed movements of its stream, whatever transactions interleaved,   *)
(* waited or rolled back: rebuild-balance.ts reads the movements only      *)
(* after it holds the balance row.                                         *)
(***************************************************************************)
BalanceIsReplay ==
  \A i \in Item : balance[i] \in RebuiltStates(OfStream(movements, i))

(***************************************************************************)
(* The inductive part: a balance a session has rebuilt and not committed   *)
(* is current, because the session holds the stream's lock and nobody      *)
(* commits movements of a stream without it; and no stream a session has   *)
(* touched is left out of todo and rebuilt.                                *)
(***************************************************************************)
RebuiltIsCurrent ==
  \A s \in Session : \A i \in DOMAIN rebuilt[s] :
    /\ streamLock[i] = s
    /\ rebuilt[s][i] \in RebuiltStates(VisibleMovements(s, i))

TouchedIsTracked ==
  \A s \in Session : StreamsOf(inserted[s]) = todo[s] \cup DOMAIN rebuilt[s]

StreamInv == StreamTypeOK /\ BalanceIsReplay /\ RebuiltIsCurrent /\ TouchedIsTracked

(***************************************************************************)
(* So stock is conserved: what a committed balance has on hand is what the *)
(* committed movements brought in less what they took, exactly and however *)
(* they were recorded.  Two rows the sort leaves in any order make it an   *)
(* uncertain one; without such rows, and where stock was never negative,   *)
(* it is worth what moved since an outbound last emptied the stream.       *)
(***************************************************************************)
StockIsWhatMoved == \A i \in Item : Carries(balance[i], OfStream(movements, i))

\* The inductive part: postings have finitely many rows.
RowsAreFinite == IsFiniteSet(movements) /\ \A s \in Session : IsFiniteSet(inserted[s])

(***************************************************************************)
(* The interleaved transactions implement the one-step ledger.             *)
(***************************************************************************)
ImplementsLedger == LedgerSpec

(***************************************************************************)
(* However many postings are open, of whatever services, they never wait   *)
(* for each other in a circle: each locks its balance rows in one order,   *)
(* and keeps them, so somebody can always go on and end.                   *)
(***************************************************************************)
NoCircleOfPostings ==
  \A S \in SUBSET Session :
    S # {} /\ IsFiniteSet(S) => \E s \in S : \A t \in S : ~WaitsForStream(s, t)

\* The inductive part: what a session holds comes before what it still has to lock.
LocksAreSorted ==
  \A s \in Session, i \in Item : streamLock[i] = s => \A j \in todo[s] : i <= j

(***************************************************************************)
(* No posting transaction waits for ever: the sorted lock order leaves no  *)
(* cycle of sessions waiting for each other's balance rows.                *)
(***************************************************************************)
EveryPostingEnds == \A s \in Session : InTransaction(s) ~> ~InTransaction(s)

=============================================================================
