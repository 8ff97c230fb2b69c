--------------------------- MODULE CostStreamProofs ---------------------------
(***************************************************************************)
(* Proofs about the moving-average cost engine: what the replay of a       *)
(* finite set of movements computes, and that their chronology leaves it   *)
(* no choice unless it is flagged.                                         *)
(***************************************************************************)
EXTENDS CostStream, FiniteSums

\* Rows of inventory_movement, as far as the engine reads them.
Rows(S) == \A m \in S : WellFormed(m)

LEMMA RowsWithin ==
  ASSUME NEW S, Rows(S), NEW T, T \subseteq S
  PROVE  Rows(T)
BY DEF Rows

-----------------------------------------------------------------------------
(* Chronology: positions, then effect classes, order the movements strictly; *)
(* the flag ORDER_UNRESOLVED is exactly what makes the order partial.        *)

LEMMA ChronologyIsStrict ==
  ASSUME NEW S, Rows(S), NEW a \in S, NEW b \in S, NEW c \in S
  PROVE  /\ ~ReplayedBefore(a, a)
         /\ ReplayedBefore(a, b) /\ ReplayedBefore(b, c) => ReplayedBefore(a, c)
<1>1. \A m \in S : m.pos.date \in Int /\ m.pos.order \in Int /\ effectClass(m) \in 0..1
  BY DEF Rows, WellFormed, effectClass
<1>2. /\ a.pos.date \in Int /\ b.pos.date \in Int /\ c.pos.date \in Int
      /\ a.pos.order \in Int /\ b.pos.order \in Int /\ c.pos.order \in Int
  BY <1>1
<1>3. effectClass(a) \in Int /\ effectClass(b) \in Int /\ effectClass(c) \in Int
  BY <1>1
<1>4. ~ReplayedBefore(a, a)
  BY <1>2, <1>3 DEF ReplayedBefore, PositionBefore
<1>5. ASSUME ReplayedBefore(a, b), ReplayedBefore(b, c) PROVE ReplayedBefore(a, c)
  BY <1>2, <1>3, <1>5 DEF ReplayedBefore, PositionBefore
<1> QED BY <1>4, <1>5

LEMMA ResolvedIsTotal ==
  ASSUME NEW S, Rows(S), ~orderUnresolved(S), NEW a \in S, NEW b \in S, a # b
  PROVE  ReplayedBefore(a, b) \/ ReplayedBefore(b, a)
<1>1. \A m \in S : m.pos \in [date : Int, order : Int] /\ effectClass(m) \in 0..1
  BY DEF Rows, WellFormed, effectClass
<1>2. CASE a.pos = b.pos
  <2>1. effectClass(a) # effectClass(b)
    BY <1>2 DEF orderUnresolved
  <2>2. effectClass(a) \in 0..1 /\ effectClass(b) \in 0..1
    BY <1>1
  <2> QED BY <1>2, <2>1, <2>2 DEF ReplayedBefore
<1>3. CASE a.pos # b.pos
  <2>1. a.pos.date # b.pos.date \/ a.pos.order # b.pos.order
    BY <1>1, <1>3
  <2>2. /\ a.pos.date \in Int /\ b.pos.date \in Int
        /\ a.pos.order \in Int /\ b.pos.order \in Int
    BY <1>1
  <2> QED BY <2>1, <2>2 DEF ReplayedBefore, PositionBefore
<1> QED BY <1>2, <1>3

\* The movements none of T is replayed after.
LastIn(T) == {x \in T : \A o \in T : ~ReplayedBefore(x, o)}

LEMMA SomethingIsLast ==
  ASSUME NEW S, Rows(S), IsFiniteSet(S), S # {}
  PROVE  LastIn(S) # {}
<1> DEFINE C == {T \in SUBSET S : T # {} /\ LastIn(T) = {}}
<1>1. SUFFICES ASSUME C # {} PROVE FALSE
  OBVIOUS
<1>2. PICK T \in C : \A U \in C : U \subseteq T => U = T
  <2>1. C \in SUBSET (SUBSET S)
    OBVIOUS
  <2> HIDE DEF C
  <2> QED BY <1>1, <2>1, SmallestSubset
<1>3. T \in SUBSET S /\ T # {} /\ LastIn(T) = {}
  OBVIOUS
<1>4. PICK y \in T : TRUE
  BY <1>3
<1>5. T \ {y} \notin C /\ T \ {y} \in SUBSET S
  BY <1>2, <1>3, <1>4
<1>6. CASE T \ {y} = {}
  <2>1. T = {y} /\ ~ReplayedBefore(y, y)
    BY <1>3, <1>4, <1>6, RowsWithin, ChronologyIsStrict
  <2>2. y \in LastIn(T)
    BY <2>1 DEF LastIn
  <2> QED BY <1>3, <2>2
<1>7. CASE LastIn(T \ {y}) # {}
  <2>1. PICK x \in T \ {y} : \A o \in T \ {y} : ~ReplayedBefore(x, o)
    BY <1>7 DEF LastIn
  <2>2. CASE ~ReplayedBefore(x, y)
    <3>1. x \in LastIn(T)
      BY <2>1, <2>2 DEF LastIn
    <3> QED BY <1>3, <3>1
  <2>3. CASE ReplayedBefore(x, y)
    <3>1. \A o \in T : ~ReplayedBefore(y, o)
      BY <1>3, <1>4, <2>1, <2>3, RowsWithin, ChronologyIsStrict
    <3>2. y \in LastIn(T)
      BY <1>4, <3>1 DEF LastIn
    <3> QED BY <1>3, <3>2
  <2> QED BY <2>2, <2>3
<1> QED BY <1>5, <1>6, <1>7

LEMMA OneIsLast ==
  ASSUME NEW S, Rows(S), IsFiniteSet(S), S # {}, ~orderUnresolved(S)
  PROVE  \E x \in S : /\ LastIn(S) = {x}
                      /\ \A o \in S \ {x} : ReplayedBefore(o, x) /\ ~ReplayedBefore(x, o)
<1>1. PICK x \in LastIn(S) : TRUE
  BY SomethingIsLast
<1>2. x \in S /\ \A o \in S : ~ReplayedBefore(x, o)
  BY <1>1 DEF LastIn
<1>3. \A o \in S \ {x} : ReplayedBefore(o, x)
  BY <1>2, ResolvedIsTotal
<1>4. LastIn(S) = {x}
  BY <1>2, <1>3 DEF LastIn
<1> QED BY <1>2, <1>3, <1>4

-----------------------------------------------------------------------------
(* The replay loop, one movement at a time *)

Start == [state |-> emptyCostStream, lastKnown |-> NoCost]

\* What replaying T may end in, where g[U] is what replaying a smaller U may end in.
After(g, T) ==
  IF T = {} THEN {Start}
  ELSE UNION { {ReplayMovement(r, m) : r \in g[T \ {m}]} : m \in LastIn(T) }

ReplaysUp(g, S) == g = [T \in SUBSET S |-> After(g, T)]

\* y is the result of one more iteration, m last, of a replay g keeps for the others.
Reached(g, T, y) == \E m \in LastIn(T) : \E r \in g[T \ {m}] : y = ReplayMovement(r, m)

LEMMA AfterMembers ==
  ASSUME NEW g, NEW T, T # {}
  PROVE  \A y : y \in After(g, T) <=> Reached(g, T, y)
<1> DEFINE step(m) == {ReplayMovement(r, m) : r \in g[T \ {m}]}
<1>1. After(g, T) = UNION {step(m) : m \in LastIn(T)}
  BY DEF After
<1>2. \A m, y : y \in step(m) <=> \E r \in g[T \ {m}] : y = ReplayMovement(r, m)
  OBVIOUS
<1> HIDE DEF step
<1>3. TAKE y
<1>4. y \in After(g, T) <=> \E m \in LastIn(T) : y \in step(m)
  BY <1>1
<1>5. (\E m \in LastIn(T) : y \in step(m)) <=> Reached(g, T, y)
  BY <1>2 DEF Reached
<1> QED BY <1>4, <1>5

LEMMA AfterSame ==
  ASSUME NEW g, NEW h, NEW T, \A m \in T : g[T \ {m}] = h[T \ {m}]
  PROVE  After(g, T) = After(h, T)
<1>1. \A m \in LastIn(T) : g[T \ {m}] = h[T \ {m}]
  BY DEF LastIn
<1>2. CASE T # {}
  <2>1. \A y : y \in After(g, T) <=> Reached(g, T, y)
    BY <1>2, AfterMembers
  <2>2. \A y : y \in After(h, T) <=> Reached(h, T, y)
    BY <1>2, AfterMembers
  <2>3. \A y : Reached(g, T, y) <=> Reached(h, T, y)
    BY <1>1 DEF Reached
  <2> QED BY <2>1, <2>2, <2>3
<1>3. CASE T = {}
  BY <1>3 DEF After
<1> QED BY <1>2, <1>3

LEMMA ReplaysAgree ==
  ASSUME NEW T, NEW U, NEW g, NEW h, ReplaysUp(g, T), ReplaysUp(h, U),
         NEW S, S \subseteq T, S \subseteq U, IsFiniteSet(S)
  PROVE  g[S] = h[S]
<1> DEFINE C == {s \in SUBSET S : g[s] # h[s]}
<1>1. SUFFICES ASSUME C # {} PROVE FALSE
  OBVIOUS
<1>2. PICK s \in C : \A u \in C : u \subseteq s => u = s
  <2>1. C \in SUBSET (SUBSET S)
    OBVIOUS
  <2> HIDE DEF C
  <2> QED BY <1>1, <2>1, SmallestSubset
<1>3. s \in SUBSET S /\ s \in SUBSET T /\ s \in SUBSET U /\ g[s] # h[s]
  OBVIOUS
<1>4. g[s] = After(g, s) /\ h[s] = After(h, s)
  <2>1. \A t \in SUBSET T : g[t] = After(g, t)
    BY DEF ReplaysUp
  <2>2. \A t \in SUBSET U : h[t] = After(h, t)
    BY DEF ReplaysUp
  <2> QED BY <1>3, <2>1, <2>2
<1>5. \A m \in s : g[s \ {m}] = h[s \ {m}]
  BY <1>2, <1>3
<1> QED BY <1>3, <1>4, <1>5, AfterSame

LEMMA ReplaysExist ==
  ASSUME NEW S, IsFiniteSet(S)
  PROVE  \E g : ReplaysUp(g, S)
<1> DEFINE C == {s \in SUBSET S : ~\E g : ReplaysUp(g, s)}
<1>1. SUFFICES ASSUME C # {} PROVE FALSE
  OBVIOUS
<1>2. PICK T \in C : \A u \in C : u \subseteq T => u = T
  <2>1. C \in SUBSET (SUBSET S)
    OBVIOUS
  <2> HIDE DEF C
  <2> QED BY <1>1, <2>1, SmallestSubset
<1>3. T \in SUBSET S /\ IsFiniteSet(T) /\ ~\E g : ReplaysUp(g, T)
  BY FS_Subset
<1> DEFINE table(u) == CHOOSE g : ReplaysUp(g, u)
<1>4. PICK own : own = [u \in SUBSET T |-> table(u)[u]]
  OBVIOUS
<1>5. PICK g : g = [s \in SUBSET T |-> After(own, s)]
  OBVIOUS
<1>6. \A u \in SUBSET T : u # T => ReplaysUp(table(u), u)
  BY <1>2, <1>3
<1> HIDE DEF table, C
<1>7. ASSUME NEW u \in SUBSET T, u # T PROVE own[u] = After(own, u)
  <2>1. ReplaysUp(table(u), u)
    BY <1>6, <1>7
  <2>2. own[u] = After(table(u), u)
    BY <1>4, <2>1 DEF ReplaysUp
  <2>3. ASSUME NEW m \in u PROVE table(u)[u \ {m}] = own[u \ {m}]
    <3> DEFINE v == u \ {m}
    <3>1. v \in SUBSET T /\ v # T /\ v \subseteq u /\ v \subseteq v /\ IsFiniteSet(v)
      BY <1>3, <2>3, FS_Subset
    <3>2. ReplaysUp(table(v), v)
      BY <1>6, <3>1
    <3> HIDE DEF v
    <3>3. table(u)[v] = table(v)[v]
      BY <2>1, <3>1, <3>2, ReplaysAgree
    <3>4. own[v] = table(v)[v]
      BY <1>4, <3>1
    <3> QED BY <3>3, <3>4 DEF v
  <2> QED BY <2>2, <2>3, AfterSame
<1>8. \A u \in SUBSET T : u # T => g[u] = own[u]
  BY <1>5, <1>7
<1>9. ASSUME NEW s \in SUBSET T PROVE After(own, s) = After(g, s)
  <2>1. \A m \in s : own[s \ {m}] = g[s \ {m}]
    BY <1>8
  <2> QED BY <2>1, AfterSame
<1>10. g = [s \in SUBSET T |-> After(g, s)]
  BY <1>5, <1>9
<1> QED BY <1>3, <1>10 DEF ReplaysUp

LEMMA ReplayOrdersIsTable ==
  ASSUME NEW S, IsFiniteSet(S), NEW T, S \in SUBSET T, NEW g, ReplaysUp(g, T)
  PROVE  ReplayOrders(S) = g[S]
<1> DEFINE h == CHOOSE h : ReplaysUp(h, S)
<1>1. ReplaysUp(h, S)
  BY ReplaysExist
<1>2. ReplayOrders(S) = h[S]
  BY DEF ReplayOrders, ReplaysUp, After, Start, LastIn
<1> HIDE DEF h
<1> QED BY <1>1, <1>2, ReplaysAgree

(* What the loop does: it starts empty, and ends with one of the movements  *)
(* that nothing is replayed after.                                          *)
LEMMA ReplayLoop ==
  ASSUME NEW S, IsFiniteSet(S)
  PROVE  /\ ReplayOrders({}) = {Start}
         /\ S # {} => \A y : y \in ReplayOrders(S) <=>
              \E m \in LastIn(S) : \E r \in ReplayOrders(S \ {m}) : y = ReplayMovement(r, m)
<1>1. PICK g : ReplaysUp(g, S)
  BY ReplaysExist
<1>2. \A T \in SUBSET S : g[T] = After(g, T) /\ ReplayOrders(T) = g[T]
  <2>1. \A T \in SUBSET S : IsFiniteSet(T)
    BY FS_Subset
  <2>2. \A T \in SUBSET S : g[T] = After(g, T)
    BY <1>1 DEF ReplaysUp
  <2> QED BY <1>1, <2>1, <2>2, ReplayOrdersIsTable
<1>3. ReplayOrders({}) = {Start}
  BY <1>2 DEF After
<1>4. ASSUME S # {}
      PROVE  \A y : y \in ReplayOrders(S) <=>
               \E m \in LastIn(S) : \E r \in ReplayOrders(S \ {m}) : y = ReplayMovement(r, m)
  <2>1. \A m \in LastIn(S) : ReplayOrders(S \ {m}) = g[S \ {m}]
    BY <1>2
  <2>2. \A y : y \in After(g, S) <=> Reached(g, S, y)
    BY <1>4, AfterMembers
  <2>3. \A y : y \in ReplayOrders(S) <=> Reached(g, S, y)
    BY <1>2, <2>2
  <2> QED BY <2>1, <2>3 DEF Reached
<1> QED BY <1>3, <1>4

-----------------------------------------------------------------------------
(* What a replay may end in: without ties, one result. *)

ReplayResult == [state : StreamState, lastKnown : Int \cup {NoCost}]

LEMMA RoundingType ==
  ASSUME NEW n \in Int, NEW d \in Nat, d > 0
  PROVE  roundCostValue(n, d) \in Int
<1>1. n \div d \in Int
  OBVIOUS
<1> QED BY <1>1 DEF roundCostValue

LEMMA RoundingIsClose ==
  ASSUME NEW n \in Int, NEW d \in Nat, d > 0
  PROVE  /\ 2 * n - 2 * (roundCostValue(n, d) * d) <= d
         /\ 2 * (roundCostValue(n, d) * d) - 2 * n <= d
<1> DEFINE k == n \div d
           rest == n % d
<1>1. k \in Int /\ rest \in 0 .. (d - 1) /\ n = k * d + rest
  OBVIOUS
<1>2. roundCostValue(n, d) = IF 2 * rest > d \/ (2 * rest = d /\ k % 2 = 1) THEN k + 1 ELSE k
  BY DEF roundCostValue
<1> HIDE DEF k, rest
<1>3. (k + 1) * d = k * d + d /\ k * d \in Int
  BY <1>1
<1>4. CASE roundCostValue(n, d) = k /\ 2 * rest <= d
  <2> DEFINE kd == k * d
  <2>1. kd \in Int /\ n = kd + rest /\ roundCostValue(n, d) * d = kd
    BY <1>1, <1>3, <1>4
  <2> HIDE DEF kd
  <2> QED BY <1>1, <1>4, <2>1
<1>5. CASE roundCostValue(n, d) = k + 1 /\ 2 * rest >= d
  <2> DEFINE kd == k * d
  <2>1. kd \in Int /\ n = kd + rest /\ roundCostValue(n, d) * d = kd + d
    BY <1>1, <1>3, <1>5
  <2> HIDE DEF kd
  <2> QED BY <1>1, <1>5, <2>1
<1> QED BY <1>1, <1>2, <1>4, <1>5

LEMMA MergeType ==
  ASSUME NEW a \in Certainty, NEW b \in Certainty
  PROVE  mergeCertainty(a, b) \in Certainty
BY DEF mergeCertainty

LEMMA UnitCostType ==
  ASSUME NEW st \in StreamState
  PROVE  deriveUnitCost(st) \in Int \cup {NoCost}
<1>1. CASE st.quantity <= 0
  BY <1>1 DEF deriveUnitCost
<1>2. CASE ~(st.quantity <= 0)
  <2>1. st.quantity \in Nat /\ st.quantity > 0 /\ st.carryingValue \in Int
    BY <1>2 DEF StreamState
  <2> QED BY <1>2, <2>1, RoundingType DEF deriveUnitCost
<1> QED BY <1>1, <1>2

LEMMA IterationType ==
  ASSUME NEW r \in ReplayResult, NEW m, WellFormed(m)
  PROVE  ReplayMovement(r, m) \in ReplayResult
<1> DEFINE st == IF m.direction = "IN" THEN applyPositiveInbound(r.state, m)
                                       ELSE applyCompensatingOutbound(r.state, m)
<1>1. /\ r.state.quantity \in Int /\ r.state.carryingValue \in Int
      /\ r.state.carryingCertainty \in Certainty /\ r.lastKnown \in Int \cup {NoCost}
      /\ m.quantity \in Int /\ m.cost \in Int /\ m.certainty \in Certainty
  BY DEF ReplayResult, StreamState, WellFormed
<1>2. mergeCertainty(r.state.carryingCertainty, m.certainty) \in Certainty
  BY <1>1, MergeType
<1>3. applyPositiveInbound(r.state, m) \in StreamState
  BY <1>1, <1>2 DEF applyPositiveInbound, StreamState
<1>4. applyCompensatingOutbound(r.state, m) \in StreamState
  BY <1>1, <1>2 DEF applyCompensatingOutbound, StreamState, Certainty
<1>5. st \in StreamState
  BY <1>3, <1>4
<1>6. deriveUnitCost(st) \in Int \cup {NoCost}
  BY <1>5, UnitCostType
<1>7. ReplayMovement(r, m) =
        [state |-> st, lastKnown |->
           IF /\ deriveUnitCost(st) # NoCost
              /\ st.carryingCertainty \notin {"UNKNOWN", "ORDER_UNRESOLVED"}
           THEN deriveUnitCost(st) ELSE r.lastKnown]
  BY DEF ReplayMovement
<1> HIDE DEF st
<1> QED BY <1>1, <1>5, <1>6, <1>7 DEF ReplayResult

LEMMA ReplayTypes ==
  ASSUME NEW S, Rows(S), IsFiniteSet(S)
  PROVE  ReplayOrders(S) \subseteq ReplayResult
<1> DEFINE C == {T \in SUBSET S : ~(ReplayOrders(T) \subseteq ReplayResult)}
<1>1. SUFFICES ASSUME C # {} PROVE FALSE
  OBVIOUS
<1>2. PICK T \in C : \A U \in C : U \subseteq T => U = T
  <2>1. C \in SUBSET (SUBSET S)
    OBVIOUS
  <2> HIDE DEF C
  <2> QED BY <1>1, <2>1, SmallestSubset
<1>3. T \in SUBSET S /\ IsFiniteSet(T) /\ ~(ReplayOrders(T) \subseteq ReplayResult)
  BY FS_Subset
<1>4. \A m \in T : ReplayOrders(T \ {m}) \subseteq ReplayResult
  BY <1>2, <1>3
<1> HIDE DEF C
<1>5. CASE T = {}
  <2>1. Start \in ReplayResult
    BY DEF Start, ReplayResult, StreamState, emptyCostStream, Certainty
  <2> QED BY <1>3, <1>5, <2>1, ReplayLoop
<1>6. CASE T # {}
  <2>1. \A y : y \in ReplayOrders(T) <=>
          \E m \in LastIn(T) : \E r \in ReplayOrders(T \ {m}) : y = ReplayMovement(r, m)
    BY <1>3, <1>6, ReplayLoop
  <2>2. ASSUME NEW y \in ReplayOrders(T) PROVE y \in ReplayResult
    <3>1. PICK m \in LastIn(T) : \E r \in ReplayOrders(T \ {m}) : y = ReplayMovement(r, m)
      BY <2>1
    <3>2. m \in T /\ WellFormed(m)
      BY <1>3 DEF LastIn, Rows
    <3> QED BY <1>4, <3>1, <3>2, IterationType
  <2> QED BY <1>3, <2>2
<1> QED BY <1>5, <1>6

LEMMA OneReplay ==
  ASSUME NEW S, Rows(S), IsFiniteSet(S), ~orderUnresolved(S)
  PROVE  \E r \in ReplayResult : ReplayOrders(S) = {r}
<1> DEFINE C == {T \in SUBSET S : ~\E r : ReplayOrders(T) = {r}}
<1>1. SUFFICES ASSUME C # {} PROVE FALSE
  BY ReplayTypes
<1>2. PICK T \in C : \A U \in C : U \subseteq T => U = T
  <2>1. C \in SUBSET (SUBSET S)
    OBVIOUS
  <2> HIDE DEF C
  <2> QED BY <1>1, <2>1, SmallestSubset
<1>3. T \in SUBSET S /\ IsFiniteSet(T) /\ ~\E r : ReplayOrders(T) = {r}
  BY FS_Subset
<1>4. ASSUME NEW m \in T PROVE \E r : ReplayOrders(T \ {m}) = {r}
  <2>1. T \ {m} \subseteq T /\ T \ {m} # T /\ T \ {m} \in SUBSET S
    BY <1>3
  <2>2. T \ {m} \notin C
    BY <1>2, <2>1
  <2> QED BY <2>1, <2>2
<1> HIDE DEF C
<1>5. T # {}
  BY <1>3, ReplayLoop
<1>6. PICK x \in T : LastIn(T) = {x}
  <2>1. Rows(T) /\ ~orderUnresolved(T)
    BY <1>3, RowsWithin DEF orderUnresolved
  <2> QED BY <1>3, <1>5, <2>1, OneIsLast
<1>7. PICK r : ReplayOrders(T \ {x}) = {r}
  BY <1>4
<1>8. \A y : y \in ReplayOrders(T) <=>
        \E m \in LastIn(T) : \E q \in ReplayOrders(T \ {m}) : y = ReplayMovement(q, m)
  BY <1>3, <1>5, ReplayLoop
<1>9. \A y : y \in ReplayOrders(T) <=> y = ReplayMovement(r, x)
  BY <1>6, <1>7, <1>8
<1>10. ReplayOrders(T) = {ReplayMovement(r, x)}
  BY <1>9
<1> QED BY <1>3, <1>10

LEMMA ResolvedReplays ==
  ASSUME NEW S, Rows(S), IsFiniteSet(S), ~orderUnresolved(S)
  PROVE  Replays(S) = ReplayOrders(S)
<1>1. PICK r \in ReplayResult : ReplayOrders(S) = {r}
  BY OneReplay
<1>2. [r EXCEPT !.state.carryingCertainty = r.state.carryingCertainty] = r
  BY DEF ReplayResult, StreamState
<1>3. Replays(S) = {[q EXCEPT !.state.carryingCertainty = q.state.carryingCertainty] : q \in ReplayOrders(S)}
  BY DEF Replays
<1> QED BY <1>1, <1>2, <1>3

LEMMA ReplaysType ==
  ASSUME NEW S, Rows(S), IsFiniteSet(S), NEW r \in Replays(S)
  PROVE  r \in ReplayResult
<1>1. PICK q \in ReplayOrders(S) :
        r = [q EXCEPT !.state.carryingCertainty =
               IF orderUnresolved(S) THEN mergeCertainty(q.state.carryingCertainty, "ORDER_UNRESOLVED")
               ELSE q.state.carryingCertainty]
  BY DEF Replays
<1>2. q \in ReplayResult
  BY ReplayTypes
<1>3. mergeCertainty(q.state.carryingCertainty, "ORDER_UNRESOLVED") \in Certainty
  BY <1>2, MergeType DEF ReplayResult, StreamState, Certainty
<1> QED BY <1>1, <1>2, <1>3 DEF ReplayResult, StreamState

LEMMA QuoteType ==
  ASSUME NEW S, Rows(S), IsFiniteSet(S), NEW p, NEW quote \in IssueQuotes(S, p)
  PROVE  quote.unitCost \in Int /\ quote.certainty \in Certainty
<1>1. Rows(StrictlyBefore(S, p)) /\ IsFiniteSet(StrictlyBefore(S, p))
  BY FS_Subset DEF StrictlyBefore, Rows
<1>2. PICK r \in Replays(StrictlyBefore(S, p)) : quote = issueCostQuoteFromStream(r)
  BY DEF IssueQuotes, replayStreamBefore
<1>3. r \in ReplayResult
  BY <1>1, ReplaysType
<1>4. /\ r.state \in StreamState /\ r.lastKnown \in Int \cup {NoCost}
      /\ r.state.carryingCertainty \in Certainty
  BY <1>3 DEF ReplayResult, StreamState
<1>5. deriveUnitCost(r.state) \in Int \cup {NoCost}
  BY <1>4, UnitCostType
<1> QED BY <1>2, <1>4, <1>5 DEF issueCostQuoteFromStream, Certainty

-----------------------------------------------------------------------------
(* What a replay carries *)

LEMMA SignedType ==
  ASSUME NEW m, NEW x \in Int
  PROVE  Signed(m, x) \in Int
BY DEF Signed

LEMMA NetQuantityAdds ==
  ASSUME NEW T, Rows(T), IsFiniteSet(T), NEW x \in T
  PROVE  NetQuantity(T) = NetQuantity(T \ {x}) + Signed(x, x.quantity) /\ NetQuantity(T \ {x}) \in Int
<1> DEFINE U == T \ {x}
<1>1. PICK f : f = [m \in T |-> Signed(m, m.quantity)]
  OBVIOUS
<1>2. PICK g : g = [m \in U |-> Signed(m, m.quantity)]
  OBVIOUS
<1>3. \A m \in T : m.quantity \in Int /\ Signed(m, m.quantity) \in Int
  BY SignedType DEF Rows, WellFormed
<1>4. IsFiniteSet(U) /\ \A m \in U : f[m] = g[m] /\ g[m] \in Int
  BY <1>1, <1>2, <1>3, FS_Subset
<1>5. \A m \in T : f[m] \in Int
  BY <1>1, <1>3
<1>6. NetQuantity(T) = SumFunctionOnSet(f, T)
  BY <1>1, SumOfFunction DEF NetQuantity
<1>7. NetQuantity(U) = SumFunctionOnSet(g, U)
  BY <1>2, SumOfFunction DEF NetQuantity
<1>8. SumFunctionOnSet(f, U) = SumFunctionOnSet(g, U) /\ SumFunctionOnSet(g, U) \in Int
  BY <1>4, SumSame, SumInt
<1>9. SumFunctionOnSet(f, T) = f[x] + SumFunctionOnSet(f, U)
  BY <1>5, SumElement
<1>10. f[x] = Signed(x, x.quantity) /\ f[x] \in Int
  BY <1>1, <1>5
<1> QED BY <1>6, <1>7, <1>8, <1>9, <1>10

LEMMA NetCostAdds ==
  ASSUME NEW T, Rows(T), IsFiniteSet(T), NEW x \in T
  PROVE  NetCost(T) = NetCost(T \ {x}) + Signed(x, x.cost) /\ NetCost(T \ {x}) \in Int
<1> DEFINE U == T \ {x}
<1>1. PICK f : f = [m \in T |-> Signed(m, m.cost)]
  OBVIOUS
<1>2. PICK g : g = [m \in U |-> Signed(m, m.cost)]
  OBVIOUS
<1>3. \A m \in T : m.cost \in Int /\ Signed(m, m.cost) \in Int
  BY SignedType DEF Rows, WellFormed
<1>4. IsFiniteSet(U) /\ \A m \in U : f[m] = g[m] /\ g[m] \in Int
  BY <1>1, <1>2, <1>3, FS_Subset
<1>5. \A m \in T : f[m] \in Int
  BY <1>1, <1>3
<1>6. NetCost(T) = SumFunctionOnSet(f, T)
  BY <1>1, SumOfFunction DEF NetCost
<1>7. NetCost(U) = SumFunctionOnSet(g, U)
  BY <1>2, SumOfFunction DEF NetCost
<1>8. SumFunctionOnSet(f, U) = SumFunctionOnSet(g, U) /\ SumFunctionOnSet(g, U) \in Int
  BY <1>4, SumSame, SumInt
<1>9. SumFunctionOnSet(f, T) = f[x] + SumFunctionOnSet(f, U)
  BY <1>5, SumElement
<1>10. f[x] = Signed(x, x.cost) /\ f[x] \in Int
  BY <1>1, <1>5
<1> QED BY <1>6, <1>7, <1>8, <1>9, <1>10

LEMMA NothingMoved == NetQuantity({}) = 0 /\ NetCost({}) = 0
<1>1. PICK f : f = [m \in {} |-> Signed(m, m.quantity)]
  OBVIOUS
<1>2. PICK g : g = [m \in {} |-> Signed(m, m.cost)]
  OBVIOUS
<1>3. NetQuantity({}) = SumFunctionOnSet(f, {})
  BY <1>1, SumOfFunction DEF NetQuantity
<1>4. NetCost({}) = SumFunctionOnSet(g, {})
  BY <1>2, SumOfFunction DEF NetCost
<1> QED BY <1>3, <1>4, SumEmpty

(* The worst certainty is the merge of all of them. *)

IsWorst(S, c) ==
  /\ c \in {m.certainty : m \in S} \cup {"FINAL"}
  /\ \A m \in S : CERTAINTY_RANK[m.certainty] <= CERTAINTY_RANK[c]

LEMMA Ranks ==
  /\ CERTAINTY_RANK["FINAL"] = 0 /\ CERTAINTY_RANK["ESTIMATED_FROM_LAST_KNOWN"] = 1
  /\ CERTAINTY_RANK["ORDER_UNRESOLVED"] = 2 /\ CERTAINTY_RANK["UNKNOWN"] = 3
BY DEF CERTAINTY_RANK

LEMMA RankOrder ==
  ASSUME NEW a \in Certainty, NEW b \in Certainty
  PROVE  /\ CERTAINTY_RANK[a] \in Nat
         /\ CERTAINTY_RANK[a] = CERTAINTY_RANK[b] => a = b
BY Ranks DEF Certainty

LEMMA WorstIsUnique ==
  ASSUME NEW S, Rows(S), NEW c \in Certainty, NEW d \in Certainty,
         IsWorst(S, c), IsWorst(S, d)
  PROVE  c = d
<1>1. \A m \in S : m.certainty \in Certainty
  BY DEF Rows, WellFormed
<1>2. /\ CERTAINTY_RANK[c] \in Nat /\ CERTAINTY_RANK[d] \in Nat
      /\ CERTAINTY_RANK[c] = CERTAINTY_RANK[d] => c = d
  BY RankOrder
<1>3. CERTAINTY_RANK[c] <= CERTAINTY_RANK[d]
  BY <1>2, Ranks DEF IsWorst
<1>4. CERTAINTY_RANK[d] <= CERTAINTY_RANK[c]
  BY <1>2, Ranks DEF IsWorst
<1> QED BY <1>2, <1>3, <1>4

LEMMA WorstIs ==
  ASSUME NEW S, Rows(S), NEW c \in Certainty, IsWorst(S, c)
  PROVE  WorstCertainty(S) = c
<1>1. WorstCertainty(S) = CHOOSE w \in Certainty : IsWorst(S, w)
  BY DEF WorstCertainty, IsWorst
<1>2. WorstCertainty(S) \in Certainty /\ IsWorst(S, WorstCertainty(S))
  BY <1>1
<1> QED BY <1>2, WorstIsUnique

LEMMA WorstMerges ==
  ASSUME NEW S, Rows(S), NEW c \in Certainty, IsWorst(S, c), NEW x, WellFormed(x)
  PROVE  IsWorst(S \cup {x}, mergeCertainty(c, x.certainty))
<1>1. \A m \in S \cup {x} : m.certainty \in Certainty
  BY DEF Rows, WellFormed
<1>2. \A m \in S \cup {x} : CERTAINTY_RANK[m.certainty] \in Nat
  BY <1>1, RankOrder
<1>3. CERTAINTY_RANK[c] \in Nat
  BY RankOrder
<1>4. CASE CERTAINTY_RANK[c] >= CERTAINTY_RANK[x.certainty]
  BY <1>2, <1>3, <1>4 DEF IsWorst, mergeCertainty
<1>5. CASE ~(CERTAINTY_RANK[c] >= CERTAINTY_RANK[x.certainty])
  <2>1. mergeCertainty(c, x.certainty) = x.certainty
    BY <1>5 DEF mergeCertainty
  <2>2. \A m \in S \cup {x} : CERTAINTY_RANK[m.certainty] <= CERTAINTY_RANK[x.certainty]
    BY <1>2, <1>3, <1>5 DEF IsWorst
  <2> QED BY <2>1, <2>2 DEF IsWorst
<1> QED BY <1>4, <1>5

(* The last movement x of T, replayed after all the others, leaves what the *)
(* reference says of them as it was.                                        *)

LEMMA LastMovementEmpties ==
  ASSUME NEW T, Rows(T), NEW x \in T,
         \A o \in T \ {x} : ReplayedBefore(o, x) /\ ~ReplayedBefore(x, o)
  PROVE  /\ \A m \in T \ {x} : m \in Emptying(T) <=> m \in Emptying(T \ {x})
         /\ x \in Emptying(T) <=> x.direction = "OUT" /\ NetQuantity(T) = 0
<1>1. \A m \in T \ {x} : UpToMovement(T, m) = UpToMovement(T \ {x}, m)
  BY DEF UpToMovement
<1>2. UpToMovement(T, x) = T
  BY ChronologyIsStrict DEF UpToMovement
<1>3. ASSUME NEW m \in T \ {x} PROVE m \in Emptying(T) <=> m \in Emptying(T \ {x})
  <2>1. NetQuantity(UpToMovement(T, m)) = NetQuantity(UpToMovement(T \ {x}, m))
    BY <1>1
  <2> QED BY <2>1 DEF Emptying
<1>4. NetQuantity(UpToMovement(T, x)) = NetQuantity(T)
  BY <1>2
<1>5. x \in Emptying(T) <=> x.direction = "OUT" /\ NetQuantity(T) = 0
  BY <1>4 DEF Emptying
<1> QED BY <1>3, <1>5

LEMMA LastMovementSince ==
  ASSUME NEW T, Rows(T), NEW x \in T,
         \A o \in T \ {x} : ReplayedBefore(o, x) /\ ~ReplayedBefore(x, o)
  PROVE  /\ x \in Emptying(T) => SinceLastEmptied(T) = {}
         /\ x \notin Emptying(T) => /\ x \in SinceLastEmptied(T)
                                      /\ SinceLastEmptied(T) \ {x} = SinceLastEmptied(T \ {x})
<1>1. \A m \in T : ~ReplayedBefore(x, m)
  BY ChronologyIsStrict
<1>2. x \in Emptying(T) => SinceLastEmptied(T) = {}
  BY <1>1 DEF SinceLastEmptied
<1>3. ASSUME x \notin Emptying(T)
      PROVE  x \in SinceLastEmptied(T) /\ SinceLastEmptied(T) \ {x} = SinceLastEmptied(T \ {x})
  <2>1. Emptying(T) \subseteq T \ {x} /\ Emptying(T \ {x}) \subseteq T \ {x}
    BY <1>3 DEF Emptying
  <2>2. \A m \in T \ {x} : m \in Emptying(T) <=> m \in Emptying(T \ {x})
    BY LastMovementEmpties
  <2>3. Emptying(T) = Emptying(T \ {x})
    BY <2>1, <2>2
  <2> QED BY <2>1, <2>3 DEF SinceLastEmptied
<1> QED BY <1>2, <1>3

LEMMA IterationCarries ==
  ASSUME NEW T, Rows(T), IsFiniteSet(T), NEW x \in T,
         \A o \in T \ {x} : ReplayedBefore(o, x) /\ ~ReplayedBefore(x, o),
         NEW r \in ReplayResult,
         r.state.quantity = NetQuantity(T \ {x}),
         r.state.carryingValue = NetCost(SinceLastEmptied(T \ {x})),
         IsWorst(SinceLastEmptied(T \ {x}), r.state.carryingCertainty),
         NEW q, q = ReplayMovement(r, x)
  PROVE  /\ q.state.quantity = NetQuantity(T)
         /\ q.state.carryingValue = NetCost(SinceLastEmptied(T))
         /\ IsWorst(SinceLastEmptied(T), q.state.carryingCertainty)
<1> DEFINE U == T \ {x}
           before == r.state
<1>1. /\ x.direction \in {"IN", "OUT"} /\ x.quantity \in Int /\ x.cost \in Int /\ x.certainty \in Certainty
      /\ WellFormed(x)
  BY DEF Rows, WellFormed
<1>2. before.quantity \in Int /\ before.carryingValue \in Int /\ before.carryingCertainty \in Certainty
  BY DEF ReplayResult, StreamState
<1>3. q.state = IF x.direction = "IN" THEN applyPositiveInbound(before, x)
                                      ELSE applyCompensatingOutbound(before, x)
  BY DEF ReplayMovement
<1>4. NetQuantity(T) = before.quantity + Signed(x, x.quantity)
  BY NetQuantityAdds
<1>5. x \in Emptying(T) <=> x.direction = "OUT" /\ NetQuantity(T) = 0
  BY LastMovementEmpties
<1>6. CASE x \in Emptying(T)
  <2>1. SinceLastEmptied(T) = {}
    BY <1>6, LastMovementSince
  <2>2. q.state = applyCompensatingOutbound(before, x) /\ before.quantity - x.quantity = 0
        /\ NetQuantity(T) = 0
    BY <1>1, <1>2, <1>3, <1>4, <1>5, <1>6 DEF Signed
  <2>3. q.state.quantity = 0 /\ q.state.carryingValue = 0 /\ q.state.carryingCertainty = "FINAL"
    BY <2>2 DEF applyCompensatingOutbound
  <2>4. NetCost(SinceLastEmptied(T)) = 0
    BY <2>1, NothingMoved
  <2>5. IsWorst(SinceLastEmptied(T), "FINAL")
    BY <2>1 DEF IsWorst
  <2> QED BY <2>2, <2>3, <2>4, <2>5
<1>7. CASE x \notin Emptying(T)
  <2> DEFINE S == SinceLastEmptied(T)
             V == SinceLastEmptied(T \ {x})
  <2>1. x \in S /\ S \ {x} = V
    BY <1>7, LastMovementSince
  <2>2. S \subseteq T /\ Rows(S) /\ IsFiniteSet(S) /\ Rows(V) /\ S = V \cup {x}
    <3>1. S \subseteq T /\ V \subseteq T
      BY DEF SinceLastEmptied
    <3> HIDE DEF S, V
    <3>2. IsFiniteSet(S)
      BY <3>1, FS_Subset
    <3>3. Rows(S) /\ Rows(V)
      BY <3>1, RowsWithin
    <3> QED BY <2>1, <3>1, <3>2, <3>3
  <2>3. NetCost(S) = before.carryingValue + Signed(x, x.cost)
    <3> HIDE DEF S, V
    <3>1. NetCost(S) = NetCost(S \ {x}) + Signed(x, x.cost)
      BY <2>1, <2>2, NetCostAdds
    <3>2. NetCost(S \ {x}) = NetCost(V)
      BY <2>1
    <3>3. NetCost(V) = before.carryingValue
      BY DEF V
    <3> QED BY <3>1, <3>2, <3>3
  <2>4. IsWorst(S, mergeCertainty(before.carryingCertainty, x.certainty))
    <3>1. IsWorst(V, before.carryingCertainty)
      OBVIOUS
    <3> HIDE DEF S, V, before
    <3>2. IsWorst(V \cup {x}, mergeCertainty(before.carryingCertainty, x.certainty))
      BY <1>1, <1>2, <2>2, <3>1, WorstMerges
    <3> QED BY <2>2, <3>2
  <2>5. /\ q.state.quantity = before.quantity + Signed(x, x.quantity)
        /\ q.state.carryingValue = before.carryingValue + Signed(x, x.cost)
        /\ q.state.carryingCertainty = mergeCertainty(before.carryingCertainty, x.certainty)
    <3>1. CASE x.direction = "IN"
      BY <1>2, <1>3, <3>1 DEF applyPositiveInbound, Signed
    <3>2. CASE x.direction = "OUT"
      <4>1. before.quantity - x.quantity # 0
        BY <1>1, <1>2, <1>4, <1>5, <1>7, <3>2 DEF Signed
      <4> QED BY <1>1, <1>2, <1>3, <3>2, <4>1 DEF applyCompensatingOutbound, Signed
    <3> QED BY <1>1, <3>1, <3>2
  <2> QED BY <1>4, <2>3, <2>4, <2>5
<1> QED BY <1>6, <1>7

LEMMA ReplayCarries ==
  ASSUME NEW S, Rows(S), IsFiniteSet(S), ~orderUnresolved(S), NEW r \in ReplayOrders(S)
  PROVE  Carries(r.state, S)
<1> DEFINE Kept(T, q) == /\ q.state.quantity = NetQuantity(T)
                         /\ q.state.carryingValue = NetCost(SinceLastEmptied(T))
                         /\ IsWorst(SinceLastEmptied(T), q.state.carryingCertainty)
           C == {T \in SUBSET S : \E q \in ReplayOrders(T) : ~Kept(T, q)}
<1>1. ASSUME C # {} PROVE FALSE
  <2>1. PICK T \in C : \A U \in C : U \subseteq T => U = T
    <3>1. C \in SUBSET (SUBSET S)
      OBVIOUS
    <3> HIDE DEF C
    <3> QED BY <1>1, <3>1, SmallestSubset
  <2>2. /\ T \in SUBSET S /\ IsFiniteSet(T) /\ Rows(T) /\ ~orderUnresolved(T)
        /\ \E q \in ReplayOrders(T) : ~Kept(T, q)
    BY FS_Subset, RowsWithin DEF orderUnresolved
  <2>3. PICK q \in ReplayOrders(T) : ~Kept(T, q)
    BY <2>2
  <2>4. ASSUME NEW m \in T, NEW p \in ReplayOrders(T \ {m}) PROVE Kept(T \ {m}, p)
    <3> HIDE DEF Kept
    <3>1. T \ {m} \subseteq T /\ T \ {m} # T /\ T \ {m} \in SUBSET S
      BY <2>2
    <3>2. T \ {m} \notin C
      BY <2>1, <3>1
    <3> QED BY <3>1, <3>2
  <2>5. CASE T = {}
    <3>1. q = Start
      BY <2>2, <2>3, <2>5, ReplayLoop
    <3>2. Emptying(T) = {} /\ SinceLastEmptied(T) = {}
      BY <2>5 DEF Emptying, SinceLastEmptied
    <3>3. q.state.quantity = 0 /\ q.state.carryingValue = 0 /\ q.state.carryingCertainty = "FINAL"
      BY <3>1 DEF Start, emptyCostStream
    <3>4. NetQuantity(T) = 0 /\ NetCost(SinceLastEmptied(T)) = 0
      BY <2>5, <3>2, NothingMoved
    <3>5. IsWorst(SinceLastEmptied(T), "FINAL")
      BY <3>2 DEF IsWorst
    <3> QED BY <2>3, <3>3, <3>4, <3>5
  <2>6. CASE T # {}
    <3>1. PICK x \in T : /\ LastIn(T) = {x}
                         /\ \A o \in T \ {x} : ReplayedBefore(o, x) /\ ~ReplayedBefore(x, o)
      BY <2>2, <2>6, OneIsLast
    <3>2. \A y : y \in ReplayOrders(T) <=>
            \E m \in LastIn(T) : \E p \in ReplayOrders(T \ {m}) : y = ReplayMovement(p, m)
      BY <2>2, <2>6, ReplayLoop
    <3>3. PICK p \in ReplayOrders(T \ {x}) : q = ReplayMovement(p, x)
      BY <2>3, <3>1, <3>2
    <3>4. p \in ReplayResult
      <4>1. Rows(T \ {x}) /\ IsFiniteSet(T \ {x})
        BY <2>2, FS_Subset, RowsWithin
      <4> QED BY <4>1, ReplayTypes
    <3>5. Kept(T \ {x}, p)
      BY <2>4
    <3>6. Kept(T, q)
      BY <2>2, <3>1, <3>3, <3>4, <3>5, IterationCarries
    <3> QED BY <2>3, <3>6
  <2> QED BY <2>5, <2>6
<1>2. Kept(S, r)
  BY <1>1
<1>3. Rows(SinceLastEmptied(S))
  BY RowsWithin DEF SinceLastEmptied
<1>4. r.state.carryingCertainty \in Certainty
  BY ReplayTypes DEF ReplayResult, StreamState
<1>5. WorstCertainty(SinceLastEmptied(S)) = r.state.carryingCertainty
  BY <1>2, <1>3, <1>4, WorstIs
<1> QED BY <1>2, <1>5 DEF Carries

(* On hand does not depend on the order of the replay at all. *)
LEMMA ReplayCounts ==
  ASSUME NEW S, Rows(S), IsFiniteSet(S), NEW r \in ReplayOrders(S)
  PROVE  r.state.quantity = NetQuantity(S)
<1> DEFINE C == {T \in SUBSET S : \E q \in ReplayOrders(T) : q.state.quantity # NetQuantity(T)}
<1>1. SUFFICES ASSUME C # {} PROVE FALSE
  OBVIOUS
<1>2. PICK T \in C : \A U \in C : U \subseteq T => U = T
  <2>1. C \in SUBSET (SUBSET S)
    OBVIOUS
  <2> HIDE DEF C
  <2> QED BY <1>1, <2>1, SmallestSubset
<1>3. /\ T \in SUBSET S /\ IsFiniteSet(T) /\ Rows(T)
      /\ \E q \in ReplayOrders(T) : q.state.quantity # NetQuantity(T)
  BY FS_Subset, RowsWithin
<1>4. PICK q \in ReplayOrders(T) : q.state.quantity # NetQuantity(T)
  BY <1>3
<1>5. ASSUME NEW m \in T, NEW p \in ReplayOrders(T \ {m})
      PROVE  p.state.quantity = NetQuantity(T \ {m})
  <2>1. T \ {m} \subseteq T /\ T \ {m} # T /\ T \ {m} \in SUBSET S
    BY <1>3
  <2>2. T \ {m} \notin C
    BY <1>2, <2>1
  <2> QED BY <2>1, <2>2
<1> HIDE DEF C
<1>6. CASE T = {}
  <2>1. q = Start
    BY <1>3, <1>4, <1>6, ReplayLoop
  <2> QED BY <1>4, <1>6, <2>1, NothingMoved DEF Start, emptyCostStream
<1>7. CASE T # {}
  <2>1. \A y : y \in ReplayOrders(T) <=>
          \E m \in LastIn(T) : \E p \in ReplayOrders(T \ {m}) : y = ReplayMovement(p, m)
    BY <1>3, <1>7, ReplayLoop
  <2>2. PICK m \in LastIn(T) : \E p \in ReplayOrders(T \ {m}) : q = ReplayMovement(p, m)
    BY <1>4, <2>1
  <2>3. m \in T /\ WellFormed(m)
    BY <1>3 DEF LastIn, Rows
  <2>4. PICK p \in ReplayOrders(T \ {m}) : q = ReplayMovement(p, m)
    BY <2>2
  <2>5. NetQuantity(T) = p.state.quantity + Signed(m, m.quantity) /\ p.state.quantity \in Int
    BY <1>3, <1>5, <2>3, NetQuantityAdds
  <2>6. q.state.quantity = IF m.direction = "IN" THEN p.state.quantity + m.quantity
                                                 ELSE p.state.quantity - m.quantity
    BY <2>4 DEF ReplayMovement, applyPositiveInbound, applyCompensatingOutbound
  <2>7. m.quantity \in Int
    BY <2>3 DEF WellFormed
  <2> QED BY <1>4, <2>5, <2>6, <2>7 DEF Signed
<1> QED BY <1>6, <1>7

(* What rebuildInventoryBalance writes. *)
LEMMA RebuiltCarries ==
  ASSUME NEW S, Rows(S), IsFiniteSet(S), NEW st \in RebuiltStates(S)
  PROVE  Carries(st, S)
<1>1. CASE ~orderUnresolved(S)
  <2>1. PICK r \in ReplayOrders(S) : st = r.state
    BY <1>1, ResolvedReplays DEF RebuiltStates
  <2> QED BY <1>1, <2>1, ReplayCarries
<1>2. CASE orderUnresolved(S)
  <2>1. PICK r \in Replays(S) : st = r.state
    BY DEF RebuiltStates
  <2>2. PICK q \in ReplayOrders(S) :
          r = [q EXCEPT !.state.carryingCertainty =
                 mergeCertainty(q.state.carryingCertainty, "ORDER_UNRESOLVED")]
    BY <1>2, <2>1 DEF Replays
  <2>3. q \in ReplayResult
    BY ReplayTypes
  <2>4. st.quantity = q.state.quantity
    BY <2>1, <2>2, <2>3 DEF ReplayResult, StreamState
  <2>5. /\ st.carryingCertainty = mergeCertainty(q.state.carryingCertainty, "ORDER_UNRESOLVED")
        /\ q.state.carryingCertainty \in Certainty
    BY <2>1, <2>2, <2>3 DEF ReplayResult, StreamState
  <2>6. st.carryingCertainty \in {"ORDER_UNRESOLVED", "UNKNOWN"}
    BY <2>5, Ranks DEF mergeCertainty, Certainty
  <2> QED BY <1>2, <2>4, <2>6, ReplayCounts DEF Carries
<1> QED BY <1>1, <1>2

=============================================================================
