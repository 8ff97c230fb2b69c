----------------------- MODULE ValuationStreamsProofs -----------------------
(***************************************************************************)
(* Proofs about the posting protocol, for every set of sessions, streams   *)
(* and movements.  The replay of the cost engine stays opaque: only its    *)
(* value on no movements is needed, the rest is about who reads what under *)
(* which lock.                                                             *)
(***************************************************************************)
EXTENDS ValuationStreams, CostStreamProofs

-----------------------------------------------------------------------------
(* A stream without movements is worth nothing: the empty replay is the    *)
(* empty stream lockValuationStream inserts.                               *)
LEMMA EmptyReplay == emptyCostStream \in RebuiltStates({})
<1> DEFINE base == {[state |-> emptyCostStream, lastKnown |-> NoCost]}
           step(g, T) ==
             UNION { {ReplayMovement(r, m) : r \in g[T \ {m}]} :
                     m \in {x \in T : \A o \in T : ~ReplayedBefore(x, o)} }
           body(g) == [T \in SUBSET {} |-> IF T = {} THEN base ELSE step(g, T)]
           replay == CHOOSE g : g = body(g)
<1>1. \A g : body(g) = [T \in {{}} |-> base]
  OBVIOUS
<1>2. replay = body(replay)
  <2>1. \E g : g = body(g)
    BY <1>1
  <2> QED BY <2>1
<1>3. replay[{}] = base
  BY <1>1, <1>2
<1>4. ReplayOrders({}) = base
  BY <1>3, Zenon DEF ReplayOrders
<1>5. ~orderUnresolved({})
  BY DEF orderUnresolved
<1>6. Replays({}) = {[state |-> emptyCostStream, lastKnown |-> NoCost]}
  BY <1>4, <1>5 DEF Replays, emptyCostStream
<1> QED BY <1>6 DEF RebuiltStates

-----------------------------------------------------------------------------
(* The inductive invariant *)

(* Init: empty tables, free locks, idle sessions.                          *)
LEMMA StreamInvInit == StreamInit => StreamInv
<1> SUFFICES ASSUME StreamInit PROVE StreamInv
  OBVIOUS
<1>1. StreamTypeOK
  BY SessionAssumption DEF StreamInit, LedgerInit, StreamTypeOK, NoRows
<1>2. BalanceIsReplay
  <2>1. \A i \in Item : OfStream(movements, i) = {}
    BY DEF StreamInit, LedgerInit, OfStream
  <2> QED BY <2>1, EmptyReplay DEF StreamInit, LedgerInit, BalanceIsReplay
<1>3. RebuiltIsCurrent
  BY DEF StreamInit, RebuiltIsCurrent, NoRows
<1>4. TouchedIsTracked
  BY DEF StreamInit, TouchedIsTracked, StreamsOf, NoRows
<1> QED BY <1>1, <1>2, <1>3, <1>4 DEF StreamInv

(* Inserting movement rows: nobody else sees them, all their streams are   *)
(* still to be rebuilt.                                                    *)
LEMMA InsertStep ==
  ASSUME StreamInv, NEW s \in Session, NEW M \in SUBSET Movement, InsertMovements(s, M)
  PROVE  StreamInv'
<1> USE DEF InsertMovements, StreamInv
<1>1. StreamsOf(M) \subseteq Item
  BY MovementAssumption DEF StreamsOf
<1>2. StreamTypeOK'
  <2>1. \A j \in Item : streamLock'[j] # NoSession => inserted'[streamLock'[j]] # {}
    BY DEF StreamTypeOK, InTransaction
  <2> QED BY <1>1, <2>1 DEF StreamTypeOK, InTransaction
<1>3. BalanceIsReplay'
  BY DEF BalanceIsReplay
<1>4. DOMAIN rebuilt[s] = {}
  BY DEF TouchedIsTracked, InTransaction, StreamsOf, StreamTypeOK
<1>5. RebuiltIsCurrent'
  BY <1>4 DEF RebuiltIsCurrent, VisibleMovements, StreamTypeOK
<1>6. TouchedIsTracked'
  BY <1>4 DEF TouchedIsTracked, StreamTypeOK
<1> QED BY <1>2, <1>3, <1>5, <1>6

(* Taking a free lock does not disturb anyone who holds another one.       *)
LEMMA LockStep ==
  ASSUME StreamInv, NEW s \in Session, NEW i \in Item, lockValuationStream(s, i)
  PROVE  StreamInv'
<1> USE DEF lockValuationStream, StreamInv
<1>1. StreamTypeOK'
  <2>1. inserted[s] # {}
    BY DEF TouchedIsTracked, StreamsOf
  <2>2. \A j \in Item : streamLock'[j] # NoSession => inserted'[streamLock'[j]] # {}
    BY <2>1 DEF StreamTypeOK, InTransaction
  <2> QED BY <2>2 DEF StreamTypeOK, InTransaction
<1>2. BalanceIsReplay'
  BY DEF BalanceIsReplay
<1>3. RebuiltIsCurrent'
  <2> SUFFICES ASSUME NEW t \in Session, NEW j \in DOMAIN rebuilt[t]
               PROVE  /\ streamLock'[j] = t
                      /\ rebuilt[t][j] \in RebuiltStates(VisibleMovements(t, j))
    BY DEF RebuiltIsCurrent, VisibleMovements
  <2>1. streamLock[j] = t /\ rebuilt[t][j] \in RebuiltStates(VisibleMovements(t, j))
    BY DEF RebuiltIsCurrent
  <2>2. i # j
    BY <2>1, SessionAssumption
  <2> QED BY <2>1, <2>2 DEF StreamTypeOK
<1>4. TouchedIsTracked'
  BY DEF TouchedIsTracked
<1> QED BY <1>1, <1>2, <1>3, <1>4

(* A rebuild under the lock reads everything that is visible.              *)
LEMMA RebuildStep ==
  ASSUME StreamInv, NEW s \in Session, NEW i \in Item, rebuildInventoryBalance(s, i)
  PROVE  StreamInv'
<1> USE DEF rebuildInventoryBalance, StreamInv
<1>1. PICK st \in RebuiltStates(VisibleMovements(s, i)) :
        rebuilt' = [rebuilt EXCEPT ![s] =
                      [j \in DOMAIN rebuilt[s] \cup {i} |->
                         IF j = i THEN st ELSE rebuilt[s][j]]]
  OBVIOUS
<1>2. /\ rebuilt'[s] = [j \in DOMAIN rebuilt[s] \cup {i} |->
                          IF j = i THEN st ELSE rebuilt[s][j]]
      /\ \A t \in Session \ {s} : rebuilt'[t] = rebuilt[t]
      /\ DOMAIN rebuilt' = Session
  BY <1>1 DEF StreamTypeOK
<1>3. StreamTypeOK'
  BY <1>2 DEF StreamTypeOK, InTransaction
<1>4. BalanceIsReplay'
  BY DEF BalanceIsReplay
<1>5. RebuiltIsCurrent'
  <2> SUFFICES ASSUME NEW t \in Session, NEW j \in DOMAIN rebuilt'[t]
               PROVE  /\ streamLock[j] = t
                      /\ rebuilt'[t][j] \in RebuiltStates(VisibleMovements(t, j))
    BY DEF RebuiltIsCurrent, VisibleMovements
  <2>1. CASE t = s /\ j = i
    BY <1>2, <2>1
  <2>2. CASE t # s \/ j # i
    BY <1>2, <2>2 DEF RebuiltIsCurrent
  <2> QED BY <2>1, <2>2
<1>6. TouchedIsTracked'
  <2> SUFFICES ASSUME NEW t \in Session
               PROVE  StreamsOf(inserted[t]) = todo'[t] \cup DOMAIN rebuilt'[t]
    BY DEF TouchedIsTracked
  <2>1. CASE t = s
    BY <1>2, <2>1 DEF TouchedIsTracked, StreamTypeOK
  <2>2. CASE t # s
    BY <1>2, <2>2 DEF TouchedIsTracked, StreamTypeOK
  <2> QED BY <2>1, <2>2
<1> QED BY <1>3, <1>4, <1>5, <1>6

(* Ending a transaction leaves every other session's rows and locks as     *)
(* they were.                                                              *)
LEMMA EndStep ==
  ASSUME StreamInv, NEW s \in Session, EndTransaction(s)
  PROVE  /\ streamLock' \in [Item -> Session \cup {NoSession}]
         /\ inserted' \in [Session -> SUBSET Movement]
         /\ todo' \in [Session -> SUBSET Item]
         /\ DOMAIN rebuilt' = Session
         /\ \A t \in Session : DOMAIN rebuilt'[t] \subseteq Item
         /\ \A j \in Item : streamLock'[j] # NoSession => inserted'[streamLock'[j]] # {}
         /\ TouchedIsTracked'
         /\ rebuilt'[s] = NoRows
         /\ \A t \in Session \ {s} :
              /\ inserted'[t] = inserted[t]
              /\ rebuilt'[t] = rebuilt[t]
              /\ \A j \in Item : streamLock[j] = t => streamLock'[j] = t
<1> USE DEF EndTransaction, StreamInv, StreamTypeOK
<1>1. streamLock' \in [Item -> Session \cup {NoSession}]
  OBVIOUS
<1>2. inserted' \in [Session -> SUBSET Movement] /\ todo' \in [Session -> SUBSET Item]
  OBVIOUS
<1>3. /\ rebuilt'[s] = NoRows
      /\ \A t \in Session \ {s} : rebuilt'[t] = rebuilt[t]
      /\ DOMAIN rebuilt' = Session
  OBVIOUS
<1>4. \A t \in Session : DOMAIN rebuilt'[t] \subseteq Item
  BY <1>3 DEF NoRows
<1>5. TouchedIsTracked'
  BY <1>3 DEF TouchedIsTracked, StreamsOf, NoRows
<1>6. \A j \in Item : streamLock'[j] # NoSession => inserted'[streamLock'[j]] # {}
  <2> SUFFICES ASSUME NEW j \in Item, streamLock'[j] # NoSession
               PROVE  inserted'[streamLock'[j]] # {}
    OBVIOUS
  <2>1. streamLock'[j] = streamLock[j] /\ streamLock[j] # s /\ streamLock[j] \in Session
    OBVIOUS
  <2>2. inserted[streamLock[j]] # {}
    BY <2>1 DEF InTransaction
  <2> QED BY <2>1, <2>2
<1> QED BY <1>1, <1>2, <1>3, <1>4, <1>5, <1>6

(* Committing publishes the rows with the balances rebuilt from them; the  *)
(* streams other sessions have rebuilt are locked by them, so no committed *)
(* row belongs to one of those.                                            *)
LEMMA CommitStep ==
  ASSUME StreamInv, NEW s \in Session, CommitMovements(s)
  PROVE  StreamInv'
<1> USE DEF CommitMovements, StreamInv
<1>1. EndTransaction(s)
  OBVIOUS
<1>2. StreamsOf(inserted[s]) = DOMAIN rebuilt[s]
  BY DEF TouchedIsTracked
<1>3. \A i \in DOMAIN rebuilt[s] : OfStream(movements', i) = VisibleMovements(s, i)
  BY DEF OfStream, VisibleMovements
<1>4. \A i \in Item \ DOMAIN rebuilt[s] : OfStream(movements', i) = OfStream(movements, i)
  BY <1>2 DEF OfStream, StreamsOf
<1>5. StreamTypeOK'
  BY <1>1, EndStep DEF StreamTypeOK, InTransaction
<1>6. BalanceIsReplay'
  <2> SUFFICES ASSUME NEW i \in Item
               PROVE  balance'[i] \in RebuiltStates(OfStream(movements', i))
    BY DEF BalanceIsReplay
  <2>1. CASE i \in DOMAIN rebuilt[s]
    BY <1>3, <2>1 DEF RebuiltIsCurrent
  <2>2. CASE i \notin DOMAIN rebuilt[s]
    BY <1>4, <2>2 DEF BalanceIsReplay
  <2> QED BY <2>1, <2>2
<1>7. RebuiltIsCurrent'
  <2> SUFFICES ASSUME NEW t \in Session, NEW j \in DOMAIN rebuilt'[t]
               PROVE  /\ streamLock'[j] = t
                      /\ rebuilt'[t][j] \in RebuiltStates(VisibleMovements(t, j)')
    BY DEF RebuiltIsCurrent
  <2>1. t # s
    BY <1>1, EndStep DEF NoRows
  <2>2. rebuilt'[t] = rebuilt[t] /\ inserted'[t] = inserted[t]
    BY <1>1, <2>1, EndStep
  <2>3. j \in Item /\ streamLock[j] = t /\ rebuilt[t][j] \in RebuiltStates(VisibleMovements(t, j))
    BY <2>2 DEF RebuiltIsCurrent, StreamTypeOK
  <2>4. streamLock'[j] = t
    BY <1>1, <2>1, <2>3, EndStep
  <2>5. j \notin DOMAIN rebuilt[s]
    BY <2>1, <2>3 DEF RebuiltIsCurrent
  <2>6. VisibleMovements(t, j)' = VisibleMovements(t, j)
    BY <1>2, <2>2, <2>5 DEF VisibleMovements, OfStream, StreamsOf
  <2> QED BY <2>2, <2>3, <2>4, <2>6
<1>8. TouchedIsTracked'
  BY <1>1, EndStep
<1> QED BY <1>5, <1>6, <1>7, <1>8

(* A rollback writes nothing.                                              *)
LEMMA RollbackStep ==
  ASSUME StreamInv, NEW s \in Session, RollbackMovements(s)
  PROVE  StreamInv'
<1> USE DEF RollbackMovements, StreamInv, ledgerVars
<1>1. EndTransaction(s)
  OBVIOUS
<1>2. StreamTypeOK'
  BY <1>1, EndStep DEF StreamTypeOK, InTransaction
<1>3. BalanceIsReplay'
  BY DEF BalanceIsReplay
<1>4. RebuiltIsCurrent'
  <2> SUFFICES ASSUME NEW t \in Session, NEW j \in DOMAIN rebuilt'[t]
               PROVE  /\ streamLock'[j] = t
                      /\ rebuilt'[t][j] \in RebuiltStates(VisibleMovements(t, j)')
    BY DEF RebuiltIsCurrent
  <2>1. t # s
    BY <1>1, EndStep DEF NoRows
  <2>2. rebuilt'[t] = rebuilt[t] /\ inserted'[t] = inserted[t]
    BY <1>1, <2>1, EndStep
  <2>3. j \in Item /\ streamLock[j] = t /\ rebuilt[t][j] \in RebuiltStates(VisibleMovements(t, j))
    BY <2>2 DEF RebuiltIsCurrent, StreamTypeOK
  <2>4. streamLock'[j] = t
    BY <1>1, <2>1, <2>3, EndStep
  <2> QED BY <2>2, <2>3, <2>4 DEF VisibleMovements
<1>5. TouchedIsTracked'
  BY <1>1, EndStep
<1> QED BY <1>2, <1>3, <1>4, <1>5

(* Any step of any posting service preserves the invariant.                *)
LEMMA StreamStepInv ==
  ASSUME StreamInv, NEW s \in Session, StreamStep(s)
  PROVE  StreamInv'
BY InsertStep, LockStep, RebuildStep, CommitStep, RollbackStep DEF StreamStep

LEMMA StreamStutter ==
  ASSUME StreamInv, UNCHANGED streamVars
  PROVE  StreamInv'
BY DEF StreamInv, StreamTypeOK, BalanceIsReplay, RebuiltIsCurrent, TouchedIsTracked,
       VisibleMovements, InTransaction, streamVars

LEMMA NextIsStreamStep == StreamNext => \E s \in Session : StreamStep(s)
BY DEF StreamNext, Begin, SessionStep, StreamStep

(* The posting protocol keeps every committed balance equal to the replay  *)
(* of the committed movements of its stream.                               *)
THEOREM StreamsCorrect == StreamSpec => [](StreamTypeOK /\ BalanceIsReplay)
<1>1. StreamInit => StreamInv
  BY StreamInvInit
<1>2. StreamInv /\ [StreamNext]_streamVars => StreamInv'
  BY StreamStepInv, StreamStutter, NextIsStreamStep
<1>3. StreamInv => StreamTypeOK /\ BalanceIsReplay
  BY DEF StreamInv
<1> QED BY <1>1, <1>2, <1>3, PTL DEF StreamSpec

-----------------------------------------------------------------------------
(* What balances come to: they are replays, and replays carry what moved.   *)

LEMMA FiniteStep ==
  ASSUME StreamTypeOK, RowsAreFinite, NEW s \in Session, StreamStep(s)
  PROVE  RowsAreFinite'
<1>1. ASSUME NEW M \in SUBSET Movement, InsertMovements(s, M) PROVE RowsAreFinite'
  BY <1>1 DEF InsertMovements, RowsAreFinite, StreamTypeOK
<1>2. ASSUME NEW i \in Item, lockValuationStream(s, i) \/ rebuildInventoryBalance(s, i)
      PROVE  RowsAreFinite'
  BY <1>2 DEF lockValuationStream, rebuildInventoryBalance, RowsAreFinite
<1>3. ASSUME EndTransaction(s) PROVE \A t \in Session : IsFiniteSet(inserted'[t])
  <2>1. \A t \in Session : inserted'[t] = {} \/ inserted'[t] = inserted[t]
    BY <1>3 DEF EndTransaction, StreamTypeOK
  <2> QED BY <2>1, FS_EmptySet DEF RowsAreFinite
<1>4. ASSUME CommitMovements(s) PROVE RowsAreFinite'
  <2>1. movements' = movements \cup inserted[s] /\ EndTransaction(s)
    BY <1>4 DEF CommitMovements
  <2>2. IsFiniteSet(movements')
    BY <2>1, FS_Union DEF RowsAreFinite
  <2> QED BY <1>3, <2>1, <2>2 DEF RowsAreFinite
<1>5. ASSUME RollbackMovements(s) PROVE RowsAreFinite'
  BY <1>3, <1>5 DEF RollbackMovements, ledgerVars, RowsAreFinite
<1> QED BY <1>1, <1>2, <1>4, <1>5 DEF StreamStep

LEMMA FiniteStutter ==
  ASSUME RowsAreFinite, UNCHANGED streamVars
  PROVE  RowsAreFinite'
BY DEF streamVars, RowsAreFinite

LEMMA FiniteInit == StreamInit => RowsAreFinite
BY FS_EmptySet DEF StreamInit, LedgerInit, RowsAreFinite

LEMMA ReplaysAreWhatMoved ==
  ASSUME StreamTypeOK, BalanceIsReplay, RowsAreFinite
  PROVE  StockIsWhatMoved
<1>1. SUFFICES ASSUME NEW i \in Item PROVE Carries(balance[i], OfStream(movements, i))
  BY DEF StockIsWhatMoved
<1>2. OfStream(movements, i) \subseteq movements
  BY DEF OfStream
<1>3. Rows(OfStream(movements, i)) /\ IsFiniteSet(OfStream(movements, i))
  BY <1>2, FS_Subset, MovementAssumption DEF StreamTypeOK, RowsAreFinite, Rows
<1>4. balance[i] \in RebuiltStates(OfStream(movements, i))
  BY DEF BalanceIsReplay
<1> QED BY <1>3, <1>4, RebuiltCarries

\* Stock is conserved: a committed balance has on hand what the committed movements
\* of its stream come to, and where nothing ties and stock was never negative, is
\* worth what the chronology says (rebuild-balance.ts under lockValuationStream).
THEOREM StockFollowsMovements == StreamSpec => []StockIsWhatMoved
<1>1. StreamInit => StreamInv /\ RowsAreFinite
  BY StreamInvInit, FiniteInit
<1>2. StreamInv /\ RowsAreFinite /\ [StreamNext]_streamVars => (StreamInv /\ RowsAreFinite)'
  <2>1. SUFFICES ASSUME StreamInv, RowsAreFinite, [StreamNext]_streamVars
                 PROVE  (StreamInv /\ RowsAreFinite)'
    OBVIOUS
  <2>2. ASSUME NEW s \in Session, StreamStep(s) PROVE (StreamInv /\ RowsAreFinite)'
    BY <2>1, <2>2, StreamStepInv, FiniteStep DEF StreamInv
  <2>3. CASE UNCHANGED streamVars
    BY <2>1, <2>3, StreamStutter, FiniteStutter
  <2> QED BY <2>1, <2>2, <2>3, NextIsStreamStep
<1>3. StreamInv /\ RowsAreFinite => StockIsWhatMoved
  BY ReplaysAreWhatMoved DEF StreamInv
<1> QED BY <1>1, <1>2, <1>3, PTL DEF StreamSpec

-----------------------------------------------------------------------------
(* Nobody waits in a circle *)

LEMMA NextIsFirst ==
  ASSUME NEW T \in SUBSET Item, T # {}
  PROVE  Min(T) \in T /\ \A j \in T : Min(T) <= j
<1>1. T \subseteq Nat
  BY ItemAssumption
<1>2. PICK k \in T : TRUE
  OBVIOUS
<1> DEFINE U == T \cap (0..k)
           id == [j \in U |-> j]
<1>3. IsFiniteSet(U) /\ k \in U
  <2>1. IsFiniteSet(0..k) /\ k \in 0..k
    BY <1>1, <1>2, FS_Interval
  <2> QED BY <1>2, <2>1, FS_Subset
<1>4. PICK i \in U : \A j \in U : id[i] <= id[j]
  <2>1. \A j \in U : id[j] \in Int
    BY <1>1
  <2> HIDE DEF U, id
  <2> QED BY <1>3, <2>1, SmallestValue
<1>5. \A j \in T : i <= j
  BY <1>1, <1>3, <1>4
<1> QED BY <1>5 DEF Min

(* Sorted locking, step by step: a session takes the first of the streams   *)
(* it has not rebuilt, and has no other new streams while it holds any.     *)
LEMMA SortedStep ==
  ASSUME StreamTypeOK, LocksAreSorted, NEW s \in Session, StreamStep(s)
  PROVE  LocksAreSorted'
<1>1. ASSUME NEW M \in SUBSET Movement, InsertMovements(s, M) PROVE LocksAreSorted'
  <2>1. \A i \in Item : streamLock[i] # s
    BY <1>1, SessionAssumption DEF InsertMovements, StreamTypeOK
  <2>2. \A t \in Session \ {s} : todo'[t] = todo[t]
    BY <1>1 DEF InsertMovements, StreamTypeOK
  <2> QED BY <1>1, <2>1, <2>2 DEF InsertMovements, LocksAreSorted
<1>2. ASSUME NEW i \in Item, lockValuationStream(s, i) PROVE LocksAreSorted'
  <2>1. \A j \in todo[s] : i <= j
    BY <1>2, NextIsFirst DEF lockValuationStream, NextStreams, StreamTypeOK
  <2>2. \A j \in Item : streamLock'[j] = IF j = i THEN s ELSE streamLock[j]
    BY <1>2 DEF lockValuationStream, StreamTypeOK
  <2> QED BY <1>2, <2>1, <2>2 DEF lockValuationStream, LocksAreSorted
<1>3. ASSUME NEW i \in Item, rebuildInventoryBalance(s, i) PROVE LocksAreSorted'
  <2>1. \A t \in Session : todo'[t] \subseteq todo[t]
    BY <1>3 DEF rebuildInventoryBalance, StreamTypeOK
  <2> QED BY <1>3, <2>1 DEF rebuildInventoryBalance, LocksAreSorted
<1>4. ASSUME EndTransaction(s) PROVE LocksAreSorted'
  <2>1. \A t \in Session : todo'[t] \subseteq todo[t]
    BY <1>4 DEF EndTransaction, StreamTypeOK
  <2>2. \A t \in Session, i \in Item : streamLock'[i] = t => streamLock[i] = t
    BY <1>4, SessionAssumption DEF EndTransaction
  <2> QED BY <2>1, <2>2 DEF LocksAreSorted
<1> QED BY <1>1, <1>2, <1>3, <1>4 DEF StreamStep, CommitMovements, RollbackMovements

LEMMA SortedStutter ==
  ASSUME LocksAreSorted, UNCHANGED streamVars
  PROVE  LocksAreSorted'
BY DEF LocksAreSorted, streamVars

LEMMA SortedInit == StreamInit => LocksAreSorted
BY DEF StreamInit, LocksAreSorted

(* Of sessions that all wait, one waits for the greatest stream; whoever    *)
(* holds that one has none but greater ones left.                           *)
LEMMA SortedLocksMakeNoCircle ==
  ASSUME StreamTypeOK, LocksAreSorted
  PROVE  NoCircleOfPostings
<1> SUFFICES ASSUME NEW S \in SUBSET Session, S # {}, IsFiniteSet(S),
                    \A s \in S : \E t \in S : WaitsForStream(s, t)
             PROVE  FALSE
  BY DEF NoCircleOfPostings
<1> DEFINE next(s) == Min(todo[s])
           lowness == [s \in S |-> 0 - next(s)]
<1>1. \A s \in S : /\ next(s) \in todo[s] /\ next(s) \in Item /\ next(s) \in Nat
                   /\ \A i \in todo[s] : streamLock[i] # s
  BY NextIsFirst, ItemAssumption DEF WaitsForStream, StreamTypeOK
<1>2. \A s \in S : \E t \in S : streamLock[next(s)] = t
  BY DEF WaitsForStream, NextStreams
<1> HIDE DEF next
<1>3. \A s \in S : lowness[s] \in Int
  BY <1>1
<1>4. PICK s \in S : \A t \in S : lowness[s] <= lowness[t]
  <2> HIDE DEF lowness
  <2> QED BY <1>3, SmallestValue
<1>5. \A t \in S : next(t) <= next(s)
  BY <1>1, <1>4
<1>6. PICK t \in S : streamLock[next(s)] = t
  BY <1>2
<1>7. next(s) <= next(t)
  BY <1>1, <1>6 DEF LocksAreSorted
<1>8. next(t) = next(s)
  BY <1>1, <1>5, <1>7
<1> QED BY <1>1, <1>6, <1>8

(* Who waits for a stream, and whom it waits for, are writing stock; so     *)
(* calls that wait for each other would leave a circle of those that write. *)
LEMMA WritersWaitForWriters ==
  ASSUME StreamInv, NEW s \in Session, NEW t \in Session, WaitsForStream(s, t)
  PROVE  InTransaction(s) /\ InTransaction(t)
<1>1. StreamsOf(inserted[s]) # {}
  BY DEF StreamInv, TouchedIsTracked, WaitsForStream
<1>2. InTransaction(s)
  BY <1>1 DEF StreamsOf, InTransaction
<1>3. PICK i \in NextStreams(s) : streamLock[i] = t
  BY DEF WaitsForStream
<1>4. i \in Item
  BY <1>3, NextIsFirst DEF NextStreams, StreamInv, StreamTypeOK, WaitsForStream
<1> QED BY <1>2, <1>3, <1>4, SessionAssumption DEF StreamInv, StreamTypeOK

LEMMA SomeWriterGoesOn ==
  ASSUME StreamInv, LocksAreSorted, NEW S \in SUBSET Session, IsFiniteSet(S),
         NEW w \in S, InTransaction(w)
  PROVE  \E s \in S : InTransaction(s) /\ \A t \in S : ~WaitsForStream(s, t)
<1> DEFINE W == {s \in S : InTransaction(s)}
<1>1. W \in SUBSET Session /\ W # {}
  OBVIOUS
<1>2. IsFiniteSet(W)
  BY FS_Subset
<1>3. PICK s \in W : \A t \in W : ~WaitsForStream(s, t)
  <2>1. NoCircleOfPostings
    BY SortedLocksMakeNoCircle DEF StreamInv
  <2> HIDE DEF W
  <2> QED BY <1>1, <1>2, <2>1 DEF NoCircleOfPostings
<1>4. \A t \in S : WaitsForStream(s, t) => t \in W
  BY WritersWaitForWriters
<1> QED BY <1>3, <1>4

(* For any number of sessions and streams, posting transactions never wait  *)
(* for each other in a circle: one of those that wait is waited for by them *)
(* and waits for none of them.                                              *)
THEOREM StreamsDoNotDeadlock == StreamSpec => []NoCircleOfPostings
<1>1. StreamInit => StreamInv /\ LocksAreSorted
  BY StreamInvInit, SortedInit
<1>2. StreamInv /\ LocksAreSorted /\ [StreamNext]_streamVars => (StreamInv /\ LocksAreSorted)'
  BY StreamStepInv, StreamStutter, SortedStep, SortedStutter, NextIsStreamStep DEF StreamInv
<1>3. StreamInv /\ LocksAreSorted => NoCircleOfPostings
  BY SortedLocksMakeNoCircle DEF StreamInv
<1> QED BY <1>1, <1>2, <1>3, PTL DEF StreamSpec

-----------------------------------------------------------------------------
(* The protocol implements the one-step ledger *)

(* Row identities are UUIDs: what a session inserts is new to the table    *)
(* and to the other sessions.                                              *)
RowsAreFresh ==
  /\ \A s \in Session : inserted[s] \cap movements = {}
  /\ \A s, t \in Session : s # t => inserted[s] \cap inserted[t] = {}

LEMMA FreshStep ==
  ASSUME StreamTypeOK, RowsAreFresh, [StreamNext]_streamVars
  PROVE  RowsAreFresh'
<1>1. CASE UNCHANGED streamVars
  BY <1>1 DEF RowsAreFresh, streamVars
<1>2. ASSUME NEW s \in Session, Begin(s) PROVE RowsAreFresh'
  <2>1. PICK M \in SUBSET (Movement \ (movements \cup AnyInserted)) : InsertMovements(s, M)
    BY <1>2 DEF Begin
  <2>2. inserted'[s] = M /\ \A t \in Session \ {s} : inserted'[t] = inserted[t]
    BY <2>1 DEF InsertMovements, StreamTypeOK
  <2>3. M \cap movements = {} /\ \A t \in Session : M \cap inserted[t] = {}
    BY DEF AnyInserted
  <2> QED BY <2>1, <2>2, <2>3 DEF RowsAreFresh, InsertMovements
<1>3. ASSUME NEW s \in Session, NEW i \in Item,
             lockValuationStream(s, i) \/ rebuildInventoryBalance(s, i)
      PROVE RowsAreFresh'
  BY <1>3 DEF RowsAreFresh, lockValuationStream, rebuildInventoryBalance
<1>4. ASSUME NEW s \in Session, EndTransaction(s), movements' \subseteq movements \cup inserted[s]
      PROVE RowsAreFresh'
  BY <1>4 DEF RowsAreFresh, EndTransaction, StreamTypeOK
<1>5. ASSUME NEW s \in Session, CommitMovements(s) \/ RollbackMovements(s)
      PROVE RowsAreFresh'
  BY <1>4, <1>5 DEF CommitMovements, RollbackMovements, ledgerVars
<1> QED BY <1>1, <1>2, <1>3, <1>5 DEF StreamNext, SessionStep

(* A commit is a Post of the rows it publishes.                            *)
LEMMA CommitPosts ==
  ASSUME StreamInv, RowsAreFresh, NEW s \in Session, CommitMovements(s)
  PROVE  LedgerNext
<1> USE DEF CommitMovements, StreamInv
<1>1. movements' \ movements = inserted[s]
  BY DEF RowsAreFresh
<1>2. StreamsOf(inserted[s]) = DOMAIN rebuilt[s]
  BY DEF TouchedIsTracked
<1>3. inserted[s] # {} /\ inserted[s] \subseteq Movement
  BY DEF InTransaction, StreamTypeOK
<1>4. \A i \in DOMAIN rebuilt[s] :
        i \in Item /\ balance'[i] \in RebuiltStates(OfStream(movements', i))
  <2>1. \A i \in DOMAIN rebuilt[s] : OfStream(movements', i) = VisibleMovements(s, i)
    BY DEF OfStream, VisibleMovements
  <2> QED BY <2>1 DEF RebuiltIsCurrent, StreamTypeOK
<1>5. \A i \in Item \ DOMAIN rebuilt[s] : balance'[i] = balance[i]
  OBVIOUS
<1>6. DOMAIN balance' = Item
  OBVIOUS
<1> QED BY <1>1, <1>2, <1>3, <1>4, <1>5, <1>6 DEF LedgerNext, Post

(* Every behaviour of the posting protocol is, for its callers, a sequence *)
(* of one-step postings.                                                   *)
THEOREM StreamsImplementLedger == StreamSpec => ImplementsLedger
<1>1. StreamInit => LedgerInit
  BY DEF StreamInit
<1>2. StreamInit => StreamInv /\ RowsAreFresh
  BY StreamInvInit DEF StreamInit, RowsAreFresh
<1>3. StreamInv /\ RowsAreFresh /\ [StreamNext]_streamVars => (StreamInv /\ RowsAreFresh)'
  BY StreamStepInv, StreamStutter, NextIsStreamStep, FreshStep DEF StreamInv
<1>4. StreamInv /\ RowsAreFresh /\ [StreamNext]_streamVars => [LedgerNext]_ledgerVars
  <2> SUFFICES ASSUME StreamInv, RowsAreFresh, [StreamNext]_streamVars
               PROVE  LedgerNext \/ UNCHANGED ledgerVars
    OBVIOUS
  <2>1. CASE UNCHANGED streamVars
    BY <2>1 DEF streamVars, ledgerVars
  <2>2. CASE \E s \in Session : CommitMovements(s)
    BY <2>2, CommitPosts
  <2>3. CASE \E s \in Session : Begin(s) \/ RollbackMovements(s)
                               \/ \E i \in Item : lockValuationStream(s, i)
                                                \/ rebuildInventoryBalance(s, i)
    BY <2>3 DEF Begin, InsertMovements, RollbackMovements, lockValuationStream,
                rebuildInventoryBalance, ledgerVars
  <2> QED BY <2>1, <2>2, <2>3 DEF StreamNext, SessionStep
<1> QED BY <1>1, <1>2, <1>3, <1>4, PTL DEF StreamSpec, ImplementsLedger, LedgerSpec

-----------------------------------------------------------------------------
(* What the movements of a document come to *)

LEMMA NoRowsNoEffect == NetEffect({}) = NoEffect
<1>1. ASSUME NEW f, DOMAIN f = {} PROVE SumFunction(f) = 0
  BY <1>1, SumOfFunction, SumEmpty
<1>2. \A i : OfStream({}, i) = {}
  BY DEF OfStream
<1>3. ASSUME NEW i \in Item PROVE NetEffect({})[i] = NoEffect[i]
  <2>1. /\ SumFunction([m \in OfStream({}, i) |-> Signed(m, m.quantity)]) = 0
        /\ SumFunction([m \in OfStream({}, i) |-> Signed(m, m.cost)]) = 0
    BY <1>1, <1>2
  <2> QED BY <2>1 DEF NetEffect, NetQuantity, NetCost, NoEffect
<1> QED BY <1>3 DEF NetEffect, NoEffect

(* Rows and what gives each of them back come to nothing in every stream.   *)
LEMMA OppositesCancel ==
  ASSUME NEW rows, IsFiniteSet(rows), NEW h,
         \A m \in rows : /\ m.quantity \in Int /\ m.cost \in Int
                         /\ h[m].item = m.item
                         /\ h[m].quantity = m.quantity /\ h[m].cost = m.cost
                         /\ h[m].direction = "IN" <=> m.direction # "IN",
         \A m, n \in rows : h[m] # n /\ (h[m] = h[n] => m = n)
  PROVE  NetEffect(rows \cup {h[m] : m \in rows}) = NoEffect
<1>1. PICK all : all = rows \cup {h[m] : m \in rows}
  OBVIOUS
<1>2. ASSUME NEW i \in Item
      PROVE  NetEffect(all)[i] = NoEffect[i]
  <2>1. PICK S : S = OfStream(rows, i)
    OBVIOUS
  <2>2. PICK T : T = S \cup {h[m] : m \in S}
    OBVIOUS
  <2>3. OfStream(all, i) = T
    BY <1>1, <2>1, <2>2 DEF OfStream
  <2>4. S \subseteq rows /\ IsFiniteSet(S)
    BY <2>1, FS_Subset DEF OfStream
  <2>5. PICK q : q = [m \in T |-> Signed(m, m.quantity)]
    OBVIOUS
  <2>6. PICK c : c = [m \in T |-> Signed(m, m.cost)]
    OBVIOUS
  <2>7. \A m \in S : h[m] \in T /\ m \in T
    BY <2>2
  <2>8. ASSUME NEW m \in S
        PROVE  /\ q[m] \in Int /\ q[h[m]] = -q[m]
               /\ c[m] \in Int /\ c[h[m]] = -c[m]
               /\ h[m] \notin S
    BY <2>4, <2>5, <2>6, <2>7 DEF Signed
  <2>9. \A m, n \in S : h[m] = h[n] => m = n
    BY <2>4
  <2>10. SumFunctionOnSet(q, T) = 0 /\ SumFunctionOnSet(c, T) = 0
    BY <2>2, <2>4, <2>8, <2>9, SumCancels
  <2>11. SumFunction(q) = 0 /\ SumFunction(c) = 0
    BY <2>5, <2>6, <2>10, SumOfFunction
  <2> QED BY <2>3, <2>5, <2>6, <2>11 DEF NetEffect, NetQuantity, NetCost, NoEffect
<1> QED BY <1>1, <1>2 DEF NetEffect, NoEffect
(* Rows that all go one way in some stream come to something there.         *)
LEMMA OneWayIsSomething ==
  ASSUME NEW rows, IsFiniteSet(rows), NEW m \in rows, m.item \in Item,
         \A n \in rows : n.item = m.item =>
           n.quantity \in Nat \ {0} /\ (n.direction = "IN" <=> m.direction = "IN")
  PROVE  NetEffect(rows) # NoEffect
<1>1. PICK S : S = OfStream(rows, m.item)
  OBVIOUS
<1>2. S \subseteq rows /\ IsFiniteSet(S) /\ m \in S
  BY <1>1, FS_Subset DEF OfStream
<1>3. PICK f : f = [n \in S |-> n.quantity]
  OBVIOUS
<1>4. PICK q : q = [n \in S |-> Signed(n, n.quantity)]
  OBVIOUS
<1>5. \A n \in S : n.quantity \in Int /\ n.quantity > 0 /\ (n.direction = "IN" <=> m.direction = "IN")
  BY <1>1 DEF OfStream
<1>6. SumFunctionOnSet(f, S) \in Int /\ SumFunctionOnSet(f, S) > 0
  <2>1. \A n \in S : f[n] \in Int /\ f[n] > 0
    BY <1>3, <1>5
  <2> QED BY <1>2, <2>1, SumPositive
<1>7. SumFunctionOnSet(q, S) # 0
  <2>1. CASE m.direction = "IN"
    <3>1. q = f
      BY <1>3, <1>4, <1>5, <2>1 DEF Signed
    <3> QED BY <1>6, <3>1
  <2>2. CASE m.direction # "IN"
    <3>1. \A n \in S : f[n] \in Int /\ q[n] = -f[n]
      BY <1>3, <1>4, <1>5, <2>2 DEF Signed
    <3>2. SumFunctionOnSet(q, S) = -SumFunctionOnSet(f, S)
      BY <1>2, <3>1, SumOpposite
    <3> QED BY <1>6, <3>2
  <2> QED BY <2>1, <2>2
<1>8. NetEffect(rows)[m.item].quantity = SumFunction(q)
  BY <1>1, <1>4 DEF NetEffect, NetQuantity
<1>9. NoEffect[m.item].quantity = 0
  BY DEF NoEffect
<1> QED BY <1>4, <1>7, <1>8, <1>9, SumOfFunction
=============================================================================
