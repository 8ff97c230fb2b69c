------------------------ MODULE StockEconomicsProofs ------------------------
(***************************************************************************)
(* Proofs about the life of one stream, for every number of movements,     *)
(* position, quantity and price: which movements it may hold, and what the *)
(* cost engine makes of them.                                              *)
(***************************************************************************)
EXTENDS StockEconomics, CostStreamProofs

LEMMA MovementsAreRows ==
  ASSUME NEW S, S \subseteq Movement
  PROVE  Rows(S)
BY EconomicsAssumption DEF Rows, WellFormed, Movement

-----------------------------------------------------------------------------
(* The movements a stream may hold.  A copy number is below the count of the *)
(* rows that are equal otherwise, so a recorded row is a new one: that, and  *)
(* the finiteness of the stream, is what makes TypeOK inductive.             *)

RowOf(m) == [m EXCEPT !.copy = 0]

CopiesCounted == \A m \in movements : m.copy < Cardinality(Twins(RowOf(m)))

StreamInv == TypeOK /\ IsFiniteSet(movements) /\ CopiesCounted

LEMMA InsertedIsNew ==
  ASSUME StreamInv, NEW row \in Movement, row.copy = 0, Record(row)
  PROVE  /\ Inserted(row) \in Movement /\ Inserted(row) \notin movements
         /\ Inserted(row).reversal = row.reversal
         /\ movements' = movements \cup {Inserted(row)}
         /\ movements' \subseteq Movement /\ IsFiniteSet(movements')
         /\ CopiesCounted'
<1>1. /\ movements \subseteq Movement /\ IsFiniteSet(movements)
      /\ movements' = movements \cup {Inserted(row)}
  BY DEF StreamInv, TypeOK, Record
<1>2. ASSUME NEW k PROVE IsFiniteSet(Twins(k)) /\ Cardinality(Twins(k)) \in Nat
  <2>1. IsFiniteSet(Twins(k))
    BY <1>1, FS_Subset DEF Twins
  <2> QED BY <2>1, FS_CardinalityType
<1>3. Inserted(row) \in Movement /\ Inserted(row).reversal = row.reversal
      /\ Inserted(row).copy = Cardinality(Twins(row)) /\ RowOf(Inserted(row)) = row
  BY <1>2 DEF Inserted, Movement, RowOf
<1>4. Inserted(row) \notin movements
  <2>1. SUFFICES ASSUME Inserted(row) \in movements PROVE FALSE
    OBVIOUS
  <2>2. Inserted(row).copy < Cardinality(Twins(RowOf(Inserted(row))))
    BY <2>1 DEF StreamInv, CopiesCounted
  <2> QED BY <1>2, <1>3, <2>2
<1>5. movements' \subseteq Movement /\ IsFiniteSet(movements')
  <2>1. IsFiniteSet(movements')
    BY <1>1, FS_AddElement
  <2> QED BY <1>1, <1>3, <2>1
<1>6. ASSUME NEW m \in movements' PROVE m.copy < Cardinality(Twins(RowOf(m))')
  <2>1. Twins(row)' = Twins(row) \cup {Inserted(row)} /\ Inserted(row) \notin Twins(row)
    BY <1>1, <1>3, <1>4 DEF Twins, RowOf
  <2>2. Cardinality(Twins(row)') = Cardinality(Twins(row)) + 1
    BY <1>2, <2>1, FS_AddElement
  <2>3. CASE RowOf(m) = row
    <3>1. CASE m = Inserted(row)
      BY <1>2, <1>3, <2>2, <2>3, <3>1
    <3>2. CASE m \in movements
      <4>1. m.copy < Cardinality(Twins(row)) /\ m.copy \in Nat
        BY <1>1, <2>3, <3>2 DEF StreamInv, CopiesCounted, Movement
      <4> QED BY <1>2, <2>2, <2>3, <4>1
    <3> QED BY <1>1, <3>1, <3>2
  <2>4. CASE RowOf(m) # row
    <3>1. m \in movements
      BY <1>1, <1>3, <2>4
    <3>2. Twins(RowOf(m))' = Twins(RowOf(m))
      BY <1>1, <1>3, <2>4 DEF Twins, RowOf
    <3> QED BY <3>1, <3>2 DEF StreamInv, CopiesCounted
  <2> QED BY <2>3, <2>4
<1>7. CopiesCounted'
  BY <1>6 DEF CopiesCounted
<1> QED BY <1>1, <1>3, <1>4, <1>5, <1>7

CompensatesOnce ==
  \A m \in movements :
    /\ m.reversal => Cardinality({c \in compensated : c[2] = m}) = 1
    /\ Cardinality({c \in compensated : c[1] = m}) <= 1

\* A movement of a forward document: nothing is compensated by it.
LEMMA ForwardKeepsInv ==
  ASSUME StreamInv, NEW row \in Movement, row.copy = 0, ~row.reversal,
         Record(row), UNCHANGED compensated
  PROVE  StreamInv'
<1> DEFINE new == Inserted(row)
<1>1. /\ new \in Movement /\ new \notin movements /\ ~new.reversal
      /\ movements' = movements \cup {new} /\ movements' \subseteq Movement
      /\ IsFiniteSet(movements') /\ CopiesCounted'
  BY InsertedIsNew
<1> HIDE DEF new
<1>2. compensated \subseteq {m \in movements : ~m.reversal} \X {m \in movements : m.reversal}
  BY DEF StreamInv, TypeOK
<1>3. compensated' \subseteq {m \in movements' : ~m.reversal} \X {m \in movements' : m.reversal}
  <2>1. \A c \in compensated : /\ c = <<c[1], c[2]>> /\ c[1] \in movements /\ ~c[1].reversal
                               /\ c[2] \in movements /\ c[2].reversal
    BY <1>2
  <2>2. \A c \in compensated : c \in {m \in movements' : ~m.reversal} \X {m \in movements' : m.reversal}
    BY <1>1, <2>1
  <2> QED BY <2>2
<1>4. CompensatesOnce'
  <2>1. SUFFICES ASSUME NEW m \in movements'
                 PROVE  /\ m.reversal => Cardinality({c \in compensated : c[2] = m}) = 1
                        /\ Cardinality({c \in compensated : c[1] = m}) <= 1
    BY DEF CompensatesOnce
  <2>2. CASE m \in movements
    BY <2>2 DEF StreamInv, TypeOK
  <2>3. CASE m = new
    <3>1. {c \in compensated : c[1] = m} = {}
      BY <1>1, <1>2, <2>3
    <3>2. Cardinality({c \in compensated : c[1] = m}) = 0
      BY <3>1, FS_EmptySet
    <3> QED BY <1>1, <2>3, <3>2
  <2> QED BY <1>1, <2>2, <2>3
<1>5. TypeOK'
  BY <1>1, <1>3, <1>4 DEF TypeOK, CompensatesOnce
<1> QED BY <1>1, <1>5 DEF StreamInv

LEMMA ReversalKeepsInv ==
  ASSUME StreamInv, NEW m \in movements, NEW p \in Position, Compensate(m, p)
  PROVE  StreamInv'
<1> DEFINE row == Compensation(m, p)
           new == Inserted(row)
<1>1. row \in Movement /\ row.copy = 0 /\ row.reversal /\ ~m.reversal /\ Record(row)
  BY DEF StreamInv, TypeOK, Compensate, Compensation, Row, Movement
<1> HIDE DEF row
<1>2. /\ new \in Movement /\ new \notin movements /\ new.reversal
      /\ movements' = movements \cup {new} /\ movements' \subseteq Movement
      /\ IsFiniteSet(movements') /\ CopiesCounted'
  BY <1>1, InsertedIsNew
<1>3. compensated' = compensated \cup {<<m, new>>} /\ \A c \in compensated : c[1] # m
  BY DEF Compensate, row
<1> HIDE DEF new
<1>4. \A c \in compensated : /\ c = <<c[1], c[2]>> /\ c[1] \in movements /\ ~c[1].reversal
                             /\ c[2] \in movements /\ c[2].reversal
  BY DEF StreamInv, TypeOK
<1>5. compensated' \subseteq {o \in movements' : ~o.reversal} \X {o \in movements' : o.reversal}
  <2>1. \A c \in compensated : c \in {o \in movements' : ~o.reversal} \X {o \in movements' : o.reversal}
    BY <1>2, <1>4
  <2>2. <<m, new>> \in {o \in movements' : ~o.reversal} \X {o \in movements' : o.reversal}
    BY <1>1, <1>2
  <2> QED BY <1>3, <2>1, <2>2
<1>6. ASSUME NEW o \in movements', o.reversal
      PROVE  Cardinality({c \in compensated' : c[2] = o}) = 1
  <2>1. CASE o = new
    <3>1. {c \in compensated' : c[2] = o} = {<<m, new>>}
      BY <1>2, <1>3, <1>4, <2>1
    <3> QED BY <3>1, FS_Singleton
  <2>2. CASE o # new
    <3>1. o \in movements /\ {c \in compensated' : c[2] = o} = {c \in compensated : c[2] = o}
      BY <1>2, <1>3, <2>2
    <3> QED BY <1>6, <3>1 DEF StreamInv, TypeOK
  <2> QED BY <2>1, <2>2
<1>7. ASSUME NEW o \in movements' PROVE Cardinality({c \in compensated' : c[1] = o}) <= 1
  <2>1. CASE o = m
    <3>1. {c \in compensated' : c[1] = o} = {<<m, new>>}
      BY <1>3, <2>1
    <3>2. Cardinality({c \in compensated' : c[1] = o}) = 1
      BY <3>1, FS_Singleton
    <3> QED BY <3>2
  <2>2. CASE o = new
    <3>1. {c \in compensated' : c[1] = o} = {}
      BY <1>2, <1>3, <1>4, <2>2
    <3> QED BY <3>1, FS_EmptySet
  <2>3. CASE o # m /\ o # new
    <3>1. o \in movements /\ {c \in compensated' : c[1] = o} = {c \in compensated : c[1] = o}
      BY <1>2, <1>3, <2>3
    <3> QED BY <3>1 DEF StreamInv, TypeOK
  <2> QED BY <2>1, <2>2, <2>3
<1>8. TypeOK'
  BY <1>2, <1>5, <1>6, <1>7 DEF TypeOK
<1> QED BY <1>2, <1>8 DEF StreamInv

LEMMA StreamInvInit == Init => StreamInv
<1> SUFFICES ASSUME Init PROVE StreamInv
  OBVIOUS
<1>1. movements = {} /\ compensated = {} /\ IsFiniteSet({})
  BY FS_EmptySet DEF Init
<1>2. TypeOK
  BY <1>1 DEF TypeOK
<1> QED BY <1>1, <1>2 DEF StreamInv, CopiesCounted

LEMMA StreamInvStep == StreamInv /\ [Next]_vars => StreamInv'
<1> SUFFICES ASSUME StreamInv, [Next]_vars PROVE StreamInv'
  OBVIOUS
<1>1. ASSUME NEW p \in Position, NEW q \in Quantity, NEW price \in UnitPrice, ReceiveGoods(p, q, price)
      PROVE  StreamInv'
  <2> DEFINE row == Row("IN", q, q * price, "FINAL", p, FALSE)
  <2>1. row \in Movement /\ row.copy = 0 /\ ~row.reversal
    BY EconomicsAssumption DEF Row, Movement, Certainty
  <2>2. Record(row) /\ UNCHANGED compensated
    BY <1>1 DEF ReceiveGoods
  <2> HIDE DEF row
  <2> QED BY <2>1, <2>2, ForwardKeepsInv
<1>2. ASSUME NEW p \in Position, NEW q \in Quantity, NEW price \in UnitPrice,
             NEW cert \in {"ESTIMATED_FROM_LAST_KNOWN", "UNKNOWN"}, ReceiveProduction(p, q, price, cert)
      PROVE  StreamInv'
  <2> DEFINE row == Row("IN", q, IF cert = "UNKNOWN" THEN 0 ELSE q * price, cert, p, FALSE)
  <2>1. row \in Movement /\ row.copy = 0 /\ ~row.reversal
    BY EconomicsAssumption DEF Row, Movement, Certainty
  <2>2. Record(row) /\ UNCHANGED compensated
    BY <1>2 DEF ReceiveProduction
  <2> HIDE DEF row
  <2> QED BY <2>1, <2>2, ForwardKeepsInv
<1>3. ASSUME NEW p \in Position, NEW q \in Quantity, Issue(p, q) PROVE StreamInv'
  <2>1. PICK quote \in IssueQuotes(movements, p) :
          Record(Row("OUT", q, quote.unitCost * q, quote.certainty, p, FALSE))
    BY <1>3 DEF Issue
  <2> DEFINE row == Row("OUT", q, quote.unitCost * q, quote.certainty, p, FALSE)
  <2>2. quote.unitCost \in Int /\ quote.certainty \in Certainty
    BY MovementsAreRows, QuoteType DEF StreamInv, TypeOK
  <2>3. row \in Movement /\ row.copy = 0 /\ ~row.reversal
    BY <2>2, EconomicsAssumption DEF Row, Movement
  <2>4. Record(row) /\ UNCHANGED compensated
    BY <1>3, <2>1 DEF Issue
  <2> HIDE DEF row
  <2> QED BY <2>3, <2>4, ForwardKeepsInv
<1>4. ASSUME NEW m \in movements, ReverseInPlace(m) PROVE StreamInv'
  <2>1. m.pos \in Position
    BY DEF StreamInv, TypeOK, Movement
  <2> QED BY <1>4, <2>1, ReversalKeepsInv DEF ReverseInPlace
<1>5. ASSUME NEW m \in movements, NEW p \in Position, ReverseSale(m, p) PROVE StreamInv'
  BY <1>5, ReversalKeepsInv DEF ReverseSale
<1>6. CASE UNCHANGED vars
  BY <1>6 DEF vars, StreamInv, TypeOK, CopiesCounted, Twins
<1> QED BY <1>1, <1>2, <1>3, <1>4, <1>5, <1>6 DEF Next

\* Every row of the stream is a well-formed movement, a compensation compensates
\* exactly one forward movement, and no movement is compensated twice.
THEOREM StockTypes == Spec => []TypeOK
<1>1. StreamInv => TypeOK
  BY DEF StreamInv
<1> QED BY <1>1, StreamInvInit, StreamInvStep, PTL DEF Spec

\* ADR-0003 invariant 16: a stream that is not flagged ORDER_UNRESOLVED has one
\* replay, whatever order its movements were recorded in or are returned in
\* (orderMovementsForEconomicReplay).
THEOREM ReplayIsUnique == Spec => []ReplayIsDeterministic
<1>1. StreamInv => ReplayIsDeterministic
  <2>1. SUFFICES ASSUME StreamInv, ~orderUnresolved(movements)
                 PROVE  Cardinality(Replays(movements)) = 1
    BY DEF ReplayIsDeterministic
  <2>2. Rows(movements) /\ IsFiniteSet(movements)
    BY <2>1, MovementsAreRows DEF StreamInv, TypeOK
  <2>3. PICK r \in ReplayResult : ReplayOrders(movements) = {r}
    BY <2>1, <2>2, OneReplay
  <2>4. Replays(movements) = {r}
    BY <2>1, <2>2, <2>3, ResolvedReplays
  <2> QED BY <2>4, FS_Singleton
<1> QED BY <1>1, StreamInvInit, StreamInvStep, PTL DEF Spec

-----------------------------------------------------------------------------
(* An issue and the average it leaves.  The unit cost is the average rounded, *)
(* so q of Q units are off by at most q halves of a smallest unit.            *)

LEMMA ShareIsClose ==
  ASSUME NEW V \in Int, NEW Q \in Nat, Q > 0, NEW q \in Nat, q <= Q,
         NEW u, u = roundCostValue(V, Q)
  PROVE  Within(2 * (V - u * q) * Q, 2 * V * (Q - q), q * Q)
<1> DEFINE off == 2 * V - 2 * (u * Q)
<1>1. u \in Int /\ u * Q \in Int
  BY RoundingType
<1>2. off \in Int /\ off <= Q /\ -off <= Q
  BY <1>1, RoundingIsClose
<1>3. 2 * (V - u * q) * Q - 2 * V * (Q - q) = q * off
  <2> HIDE DEF off
  <2>1. 2 * (V - u * q) * Q - 2 * V * (Q - q) = q * (2 * V - 2 * (u * Q))
    BY <1>1
  <2> QED BY <2>1 DEF off
<1> HIDE DEF off
<1>4. q * off <= q * Q /\ -(q * off) <= q * Q /\ q * off \in Int /\ q * Q \in Int
  <2>1. q * (Q - off) >= 0 /\ q * (Q + off) >= 0
    BY <1>2
  <2>2. q * (Q - off) = q * Q - q * off /\ q * (Q + off) = q * Q + q * off
    BY <1>2
  <2>3. q * off \in Int /\ q * Q \in Int
    BY <1>2
  <2> QED BY <2>1, <2>2, <2>3
<1> DEFINE a == 2 * (V - u * q) * Q
           b == 2 * V * (Q - q)
<1>5. a \in Int /\ b \in Int /\ a - b = q * off
  BY <1>1, <1>3
<1> HIDE DEF a, b
<1>6. Within(a, b, q * Q)
  BY <1>4, <1>5 DEF Within
<1> QED BY <1>6 DEF a, b

(* The one movement that follows all others is replayed last. *)
LEMMA LastIsReplayedOn ==
  ASSUME NEW S, Rows(S), IsFiniteSet(S), ~orderUnresolved(S), NEW m, WellFormed(m),
         \A o \in S : PositionBefore(o.pos, m.pos),
         NEW r \in ReplayResult, ReplayOrders(S) = {r}
  PROVE  RebuiltStates(S \cup {m}) = {ReplayMovement(r, m).state}
<1> DEFINE T == S \cup {m}
<1>1. \A o \in S : /\ o.pos.date \in Int /\ o.pos.order \in Int
                   /\ o.pos # m.pos /\ o # m /\ ReplayedBefore(o, m) /\ ~ReplayedBefore(m, o)
  <2>1. m.pos.date \in Int /\ m.pos.order \in Int
    BY DEF WellFormed
  <2>2. \A o \in S : o.pos.date \in Int /\ o.pos.order \in Int
    BY DEF Rows, WellFormed
  <2> QED BY <2>1, <2>2 DEF ReplayedBefore, PositionBefore
<1>2. Rows(T) /\ IsFiniteSet(T) /\ T # {}
  BY FS_AddElement DEF Rows
<1>3. ~orderUnresolved(T)
  BY <1>1 DEF orderUnresolved
<1>4. T \ {m} = S
  BY <1>1
<1> HIDE DEF T
<1>5. LastIn(T) = {m}
  <2>1. PICK x \in T : /\ LastIn(T) = {x}
                       /\ \A o \in T \ {x} : ReplayedBefore(o, x) /\ ~ReplayedBefore(x, o)
    BY <1>2, <1>3, OneIsLast
  <2>2. x = m
    BY <1>1, <1>4, <2>1 DEF T
  <2> QED BY <2>1, <2>2
<1>6. \A y : y \in ReplayOrders(T) <=>
        \E x \in LastIn(T) : \E p \in ReplayOrders(T \ {x}) : y = ReplayMovement(p, x)
  BY <1>2, ReplayLoop
<1>7. \A y : y \in ReplayOrders(T) <=> y = ReplayMovement(r, m)
  BY <1>4, <1>5, <1>6
<1>8. Replays(T) = {ReplayMovement(r, m)}
  BY <1>2, <1>3, <1>7, ResolvedReplays
<1> QED BY <1>8 DEF RebuiltStates, T

LEMMA RecordedIssue ==
  ASSUME StreamInv, Next, NEW m \in movements' \ movements, m.direction = "OUT", ~m.reversal
  PROVE  /\ m \in Movement
         /\ \E quote \in IssueQuotes(movements, m.pos) : m.cost = quote.unitCost * m.quantity
<1>1. ASSUME NEW row, Record(row) PROVE m = Inserted(row) /\ Inserted(row).copy = m.copy
  BY <1>1 DEF Record
<1>2. ASSUME NEW o \in movements, NEW p \in Position, Compensate(o, p) PROVE FALSE
  <2>1. m = Inserted(Compensation(o, p))
    BY <1>1, <1>2 DEF Compensate
  <2> QED BY <2>1 DEF Inserted, Compensation, Row
<1>3. ASSUME NEW p \in Position, NEW q \in Quantity, Issue(p, q)
      PROVE  \E quote \in IssueQuotes(movements, m.pos) : m.cost = quote.unitCost * m.quantity
  <2>1. PICK quote \in IssueQuotes(movements, p) :
          Record(Row("OUT", q, quote.unitCost * q, quote.certainty, p, FALSE))
    BY <1>3 DEF Issue
  <2>2. m = Inserted(Row("OUT", q, quote.unitCost * q, quote.certainty, p, FALSE))
    BY <1>1, <2>1
  <2>3. m.pos = p /\ m.quantity = q /\ m.cost = quote.unitCost * q
    BY <2>2 DEF Inserted, Row
  <2> QED BY <2>3
<1>4. ASSUME NEW row, Record(row), row = Row("IN", row.quantity, row.cost, row.certainty, row.pos, FALSE)
      PROVE  FALSE
  <2>1. m = Inserted(row)
    BY <1>1, <1>4
  <2> QED BY <1>4, <2>1 DEF Inserted, Row
<1>5. \E quote \in IssueQuotes(movements, m.pos) : m.cost = quote.unitCost * m.quantity
  <2>1. \A o \in movements : o.pos \in Position
    BY DEF StreamInv, TypeOK, Movement
  <2>2. ASSUME NEW p \in Position, NEW q \in Quantity, NEW price \in UnitPrice, ReceiveGoods(p, q, price)
        PROVE  FALSE
    BY <1>4, <2>2 DEF ReceiveGoods, Row
  <2>3. ASSUME NEW p \in Position, NEW q \in Quantity, NEW price \in UnitPrice,
               NEW cert \in {"ESTIMATED_FROM_LAST_KNOWN", "UNKNOWN"}, ReceiveProduction(p, q, price, cert)
        PROVE  FALSE
    BY <1>4, <2>3 DEF ReceiveProduction, Row
  <2> QED BY <1>2, <1>3, <2>1, <2>2, <2>3 DEF Next, ReverseInPlace, ReverseSale
<1>6. m \in Movement
  <2>1. movements' \subseteq Movement
    BY StreamInvStep DEF StreamInv, TypeOK
  <2> QED BY <2>1
<1> QED BY <1>5, <1>6

LEMMA IssueTakesItsShare ==
  ASSUME StreamInv, Next, NEW m \in movements' \ movements,
         m.direction = "OUT", ~m.reversal,
         NEW S, S = {o \in movements : PositionBefore(o.pos, m.pos)}, ~orderUnresolved(S),
         NEW before \in RebuiltStates(S), NEW after \in RebuiltStates(S \cup {m})
  PROVE  /\ m.quantity = before.quantity => after.carryingValue = 0
         /\ m.quantity < before.quantity =>
              Within(2 * after.carryingValue * before.quantity,
                     2 * before.carryingValue * after.quantity,
                     m.quantity * before.quantity)
<1>1. Rows(S) /\ IsFiniteSet(S) /\ S = StrictlyBefore(movements, m.pos)
  <2>1. Rows(movements) /\ IsFiniteSet(movements) /\ S \subseteq movements
    BY MovementsAreRows DEF StreamInv, TypeOK
  <2> QED BY <2>1, RowsWithin, FS_Subset DEF StrictlyBefore
<1>2. PICK r \in ReplayResult : ReplayOrders(S) = {r}
  BY <1>1, OneReplay
<1>3. Replays(S) = {r} /\ before = r.state
  BY <1>1, <1>2, ResolvedReplays DEF RebuiltStates
<1>4. m \in Movement /\ WellFormed(m)
  <2>1. m \in Movement
    BY RecordedIssue
  <2> QED BY <2>1, MovementsAreRows DEF Rows
<1>5. after = applyCompensatingOutbound(before, m)
  <2>1. after = ReplayMovement(r, m).state
    BY <1>1, <1>2, <1>4, LastIsReplayedOn
  <2> QED BY <1>3, <2>1 DEF ReplayMovement
<1>6. m.cost = issueCostQuoteFromStream(r).unitCost * m.quantity
  <2>1. IssueQuotes(movements, m.pos) = {issueCostQuoteFromStream(r)}
    BY <1>1, <1>3 DEF IssueQuotes, replayStreamBefore
  <2> QED BY <2>1, RecordedIssue
<1>7. /\ before.quantity \in Int /\ before.carryingValue \in Int
      /\ before.carryingCertainty \in Certainty /\ m.quantity \in Nat
  BY <1>2, <1>3, <1>4 DEF ReplayResult, StreamState, WellFormed
<1>8. CASE m.quantity = before.quantity
  BY <1>5, <1>7, <1>8 DEF applyCompensatingOutbound
<1>9. CASE m.quantity < before.quantity
  <2> DEFINE V == before.carryingValue
             Q == before.quantity
             q == m.quantity
             u == roundCostValue(V, Q)
  <2>1. Q \in Nat /\ Q > 0 /\ q \in Nat /\ q <= Q /\ V \in Int /\ u \in Int
    BY <1>7, <1>9, RoundingType
  <2>2. issueCostQuoteFromStream(r).unitCost = u
    <3>1. deriveUnitCost(r.state) = u /\ u # NoCost
      BY <1>3, <2>1, NoCostAssumption DEF deriveUnitCost
    <3> QED BY <3>1 DEF issueCostQuoteFromStream
  <2>3. after.quantity = Q - q /\ after.carryingValue = V - u * q
    <3>1. Q - q # 0
      BY <1>9, <2>1
    <3> QED BY <1>5, <1>6, <2>2, <3>1 DEF applyCompensatingOutbound
  <2> HIDE DEF V, Q, q, u
  <2>4. Within(2 * (V - u * q) * Q, 2 * V * (Q - q), q * Q)
    BY <2>1, ShareIsClose DEF u
  <2>5. Within(2 * after.carryingValue * Q, 2 * V * after.quantity, q * Q)
    BY <2>3, <2>4
  <2> QED BY <1>7, <1>9, <2>5 DEF V, Q, q
<1> QED BY <1>7, <1>8, <1>9

\* ADR-0003 section 5: an issue takes its share of what the stream was worth at
\* its own position, so the average stays but for the rounding of the unit cost,
\* and nothing is left when it takes everything (postGoodsIssue's quote and the
\* replay that applies it).
THEOREM IssuesTakeShares == Spec => IssuesTakeTheirShare
<1>1. StreamInv /\ [Next]_vars => [\A m \in movements' \ movements : TakesItsShare(m)]_vars
  <2>1. SUFFICES ASSUME StreamInv, Next, NEW m \in movements' \ movements PROVE TakesItsShare(m)
    OBVIOUS
  <2> QED BY <2>1, IssueTakesItsShare DEF TakesItsShare
<1> QED BY <1>1, StreamInvInit, StreamInvStep, PTL DEF Spec, IssuesTakeTheirShare

\* What rebuildInventoryBalance writes: the signed sum of the movements on hand;
\* without ties, and while stock was never negative, the value and the worst
\* certainty of what moved since an outbound last emptied the stream; with ties,
\* an uncertain one.
THEOREM CarryingFollowsMovements == Spec => []CarryingIsWhatMovedSinceEmptied
<1>1. StreamInv => CarryingIsWhatMovedSinceEmptied
  BY MovementsAreRows, RebuiltCarries DEF StreamInv, TypeOK, CarryingIsWhatMovedSinceEmptied
<1> QED BY <1>1, StreamInvInit, StreamInvStep, PTL DEF Spec

=============================================================================
