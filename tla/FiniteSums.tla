----------------------------- MODULE FiniteSums -----------------------------
(***************************************************************************)
(* Sums over finite sets, as the models add up quantities and costs: what  *)
(* SumFunctionOnSet of the community module Functions does to an empty     *)
(* set, an element, a union and an image, to sums and to comparisons of    *)
(* its terms.  The fold behind it picks the elements in an order of its    *)
(* own, so each fact is shown for a smallest set that could fail it, which *)
(* takes the place of an induction.                                        *)
(***************************************************************************)
EXTENDS FiniteSetTheorems, TLAPS

Pick(s) == CHOOSE x \in s : TRUE

\* g holds the sums of f over all the subsets of T.
SumsUp(g, f, T) ==
  g = [s \in SUBSET T |-> IF s = {} THEN 0 ELSE f[Pick(s)] + g[s \ {Pick(s)}]]

(* The principle in place of induction: a family of subsets of a finite set *)
(* has a smallest member.                                                   *)
LEMMA SmallestSubset ==
  ASSUME NEW S, IsFiniteSet(S), NEW C \in SUBSET (SUBSET S), C # {}
  PROVE  \E T \in C : \A U \in C : U \subseteq T => U = T
<1>1. IsWellFoundedOn(StrictSubsetOrdering(S), SUBSET S)
  BY FS_FiniteSubsetsOfFinite, FS_StrictSubsetOrderingWellFounded
<1>2. PICK T \in C : \A U \in C : <<U, T>> \notin StrictSubsetOrdering(S)
  BY <1>1, WFMin
<1>3. ASSUME NEW U \in C, U \subseteq T, U # T PROVE FALSE
  <2>1. <<U, T>> \in StrictSubsetOrdering(S)
    BY <1>3 DEF StrictSubsetOrdering
  <2> QED BY <1>2, <2>1
<1> QED BY <1>3

LEMMA PickOne ==
  ASSUME NEW S, S # {}
  PROVE  Pick(S) \in S
BY DEF Pick

(* However large the sets two tables of sums were built for, they agree on  *)
(* the subsets both have.                                                   *)
LEMMA SumsAgree ==
  ASSUME NEW f, NEW T, NEW U, NEW g, NEW h, SumsUp(g, f, T), SumsUp(h, f, U),
         NEW S, S \subseteq T, S \subseteq U, IsFiniteSet(S)
  PROVE  g[S] = h[S]
<1> DEFINE C == {s \in SUBSET S : g[s] # h[s]}
<1>1. SUFFICES ASSUME C # {} PROVE FALSE
  OBVIOUS
<1>2. PICK s \in C : \A u \in C : u \subseteq s => u = s
  <2>1. C \in SUBSET (SUBSET S)
    OBVIOUS
  <2> HIDE DEF C
  <2> QED BY <1>1, <2>1, SmallestSubset
<1>3. s \in SUBSET T /\ s \in SUBSET U /\ g[s] # h[s]
  OBVIOUS
<1> DEFINE r == s \ {Pick(s)}
<1>4. /\ g[s] = IF s = {} THEN 0 ELSE f[Pick(s)] + g[r]
      /\ h[s] = IF s = {} THEN 0 ELSE f[Pick(s)] + h[r]
  BY <1>3 DEF SumsUp
<1>5. s # {}
  BY <1>3, <1>4
<1>6. r \in SUBSET S /\ r \subseteq s /\ r # s
  BY <1>5, PickOne
<1>7. g[r] = h[r]
  BY <1>2, <1>6
<1> QED BY <1>3, <1>4, <1>7

(* There is such a table for every finite set.                             *)
LEMMA SumsExist ==
  ASSUME NEW f, NEW S, IsFiniteSet(S)
  PROVE  \E g : SumsUp(g, f, S)
<1> DEFINE C == {s \in SUBSET S : ~\E g : SumsUp(g, f, s)}
<1>1. SUFFICES ASSUME C # {} PROVE FALSE
  OBVIOUS
<1>2. PICK T \in C : \A u \in C : u \subseteq T => u = T
  <2>1. C \in SUBSET (SUBSET S)
    OBVIOUS
  <2> HIDE DEF C
  <2> QED BY <1>1, <2>1, SmallestSubset
<1>3. T \in SUBSET S /\ IsFiniteSet(T)
  BY FS_Subset
<1> DEFINE table(u) == CHOOSE g : SumsUp(g, f, u)
           g == [s \in SUBSET T |->
                   IF s = {} THEN 0
                   ELSE f[Pick(s)] + table(s \ {Pick(s)})[s \ {Pick(s)}]]
<1>4. \A u \in SUBSET T : u # T => SumsUp(table(u), f, u)
  BY <1>2, <1>3
<1>5. ASSUME NEW s \in SUBSET T, s # {}
      PROVE  g[s \ {Pick(s)}] = table(s \ {Pick(s)})[s \ {Pick(s)}]
  <2> DEFINE u == s \ {Pick(s)}
             v == u \ {Pick(u)}
  <2>1. u \in SUBSET T /\ u # T
    BY <1>5, PickOne
  <2>2. SumsUp(table(u), f, u)
    BY <1>4, <2>1
  <2>3. CASE u = {}
    BY <2>1, <2>2, <2>3 DEF SumsUp
  <2>4. CASE u # {}
    <3>1. v \in SUBSET T /\ v # T /\ v \in SUBSET u /\ v \in SUBSET v
      BY <2>1, <2>4, PickOne
    <3>2. SumsUp(table(v), f, v) /\ IsFiniteSet(v)
      BY <1>3, <1>4, <3>1, FS_Subset
    <3>3. table(v)[v] = table(u)[v]
      <4>1. v \subseteq v /\ v \subseteq u
        BY <3>1
      <4> HIDE DEF u, v, table
      <4> QED BY <2>2, <3>2, <4>1, SumsAgree
    <3>4. table(u)[u] = f[Pick(u)] + table(u)[v]
      BY <2>2, <2>4 DEF SumsUp
    <3>5. g[u] = f[Pick(u)] + table(v)[v]
      BY <2>1, <2>4
    <3> QED BY <3>3, <3>4, <3>5
  <2> QED BY <2>3, <2>4
<1> HIDE DEF table
<1>6. g = [s \in SUBSET T |-> IF s = {} THEN 0 ELSE f[Pick(s)] + g[s \ {Pick(s)}]]
  BY <1>5
<1> HIDE DEF g
<1>7. SumsUp(g, f, T)
  BY <1>6 DEF SumsUp
<1> QED BY <1>7

LEMMA SumIsTable ==
  ASSUME NEW f, NEW S, IsFiniteSet(S), NEW T, S \in SUBSET T, NEW g, SumsUp(g, f, T)
  PROVE  SumFunctionOnSet(f, S) = g[S]
<1> DEFINE h == CHOOSE h : SumsUp(h, f, S)
<1>1. SumsUp(h, f, S)
  BY SumsExist
<1>2. SumFunctionOnSet(f, S) = h[S]
  BY DEF SumFunctionOnSet, FoldFunctionOnSet, MapThenFoldSet, SumsUp, Pick
<1> HIDE DEF h
<1> QED BY <1>1, <1>2, SumsAgree

-----------------------------------------------------------------------------
(* What the models use *)

LEMMA SumOfFunction ==
  ASSUME NEW S, NEW f, DOMAIN f = S
  PROVE  SumFunction(f) = SumFunctionOnSet(f, S)
BY DEF SumFunction

LEMMA SumEmpty ==
  ASSUME NEW f
  PROVE  SumFunctionOnSet(f, {}) = 0
<1>1. PICK g : SumsUp(g, f, {})
  BY SumsExist, FS_EmptySet
<1>2. g[{}] = 0
  BY <1>1 DEF SumsUp
<1> QED BY <1>1, <1>2, SumIsTable, FS_EmptySet

LEMMA SumPick ==
  ASSUME NEW f, NEW S, IsFiniteSet(S), S # {}
  PROVE  SumFunctionOnSet(f, S) = f[Pick(S)] + SumFunctionOnSet(f, S \ {Pick(S)})
<1>1. PICK g : SumsUp(g, f, S)
  BY SumsExist
<1>2. g[S] = f[Pick(S)] + g[S \ {Pick(S)}]
  BY <1>1 DEF SumsUp
<1>3. SumFunctionOnSet(f, S) = g[S]
  BY <1>1, SumIsTable
<1>4. SumFunctionOnSet(f, S \ {Pick(S)}) = g[S \ {Pick(S)}]
  <2>1. S \ {Pick(S)} \in SUBSET S /\ IsFiniteSet(S \ {Pick(S)})
    BY FS_RemoveElement
  <2> QED BY <1>1, <2>1, SumIsTable
<1> QED BY <1>2, <1>3, <1>4

(* Integers add up to an integer. *)
LEMMA SumInt ==
  ASSUME NEW f, NEW S, IsFiniteSet(S), \A x \in S : f[x] \in Int
  PROVE  SumFunctionOnSet(f, S) \in Int
<1> DEFINE C == {s \in SUBSET S : SumFunctionOnSet(f, s) \notin Int}
<1>1. SUFFICES ASSUME C # {} PROVE FALSE
  OBVIOUS
<1>2. PICK s \in C : \A u \in C : u \subseteq s => u = s
  <2>1. C \in SUBSET (SUBSET S)
    OBVIOUS
  <2> HIDE DEF C
  <2> QED BY <1>1, <2>1, SmallestSubset
<1>3. s # {} /\ IsFiniteSet(s) /\ s \subseteq S
  <2>1. s \in SUBSET S /\ SumFunctionOnSet(f, s) \notin Int
    OBVIOUS
  <2>2. s # {}
    BY <2>1, SumEmpty
  <2> QED BY <2>1, <2>2, FS_Subset
<1>4. s \ {Pick(s)} \notin C /\ s \ {Pick(s)} \subseteq S
  BY <1>2, <1>3, PickOne
<1>5. SumFunctionOnSet(f, s \ {Pick(s)}) \in Int
  BY <1>4
<1>6. f[Pick(s)] \in Int
  BY <1>3, PickOne
<1> QED BY <1>3, <1>5, <1>6, SumPick

(* Any element may be taken out first. *)
LEMMA SumElement ==
  ASSUME NEW f, NEW S, IsFiniteSet(S), \A x \in S : f[x] \in Int, NEW e \in S
  PROVE  SumFunctionOnSet(f, S) = f[e] + SumFunctionOnSet(f, S \ {e})
<1> DEFINE sum(u) == SumFunctionOnSet(f, u)
           C == {u \in SUBSET S : \E x \in u : sum(u) # f[x] + sum(u \ {x})}
<1>1. SUFFICES ASSUME C # {} PROVE FALSE
  OBVIOUS
<1>2. PICK s \in C : \A u \in C : u \subseteq s => u = s
  <2>1. C \in SUBSET (SUBSET S)
    OBVIOUS
  <2> HIDE DEF C
  <2> QED BY <1>1, <2>1, SmallestSubset
<1>3. PICK x \in s : sum(s) # f[x] + sum(s \ {x})
  OBVIOUS
<1>4. \A u \in SUBSET S : IsFiniteSet(u) /\ sum(u) \in Int
  BY FS_Subset, SumInt
<1> DEFINE y == Pick(s)
<1>5. s \in SUBSET S /\ y \in s
  BY PickOne
<1>6. sum(s) = f[y] + sum(s \ {y})
  BY <1>4, <1>5, SumPick
<1>7. ASSUME NEW a \in s, NEW b \in s, a # b
      PROVE  sum(s \ {a}) = f[b] + sum((s \ {a}) \ {b})
  <2>1. s \ {a} \notin C /\ s \ {a} \in SUBSET S /\ b \in s \ {a}
    BY <1>2, <1>5, <1>7
  <2> QED BY <2>1
<1> HIDE DEF sum, C, y
<1>8. y # x
  BY <1>3, <1>6
<1>9. sum(s \ {y}) = f[x] + sum((s \ {y}) \ {x}) /\ sum(s \ {x}) = f[y] + sum((s \ {x}) \ {y})
  BY <1>5, <1>7, <1>8
<1>10. (s \ {y}) \ {x} = (s \ {x}) \ {y} /\ (s \ {x}) \ {y} \in SUBSET S
  BY <1>5
<1>11. f[x] \in Int /\ f[y] \in Int /\ sum((s \ {x}) \ {y}) \in Int
  BY <1>4, <1>5, <1>10
<1> DEFINE rest == sum((s \ {x}) \ {y})
<1>12. /\ sum(s) = f[y] + (f[x] + rest) /\ sum(s \ {x}) = f[y] + rest
       /\ f[x] \in Int /\ f[y] \in Int /\ rest \in Int
  BY <1>6, <1>9, <1>10, <1>11
<1>13. sum(s) = f[x] + sum(s \ {x})
  BY <1>12
<1> QED BY <1>3, <1>13

LEMMA SumSingleton ==
  ASSUME NEW f, NEW x, f[x] \in Int
  PROVE  SumFunctionOnSet(f, {x}) = f[x]
<1>1. SumFunctionOnSet(f, {x}) = f[x] + SumFunctionOnSet(f, {x} \ {x})
  BY FS_Singleton, SumElement
<1>2. {x} \ {x} = {}
  OBVIOUS
<1> QED BY <1>1, <1>2, SumEmpty

(* Only the values on the set count. *)
LEMMA SumSame ==
  ASSUME NEW f, NEW g, NEW S, IsFiniteSet(S), \A x \in S : f[x] = g[x]
  PROVE  SumFunctionOnSet(f, S) = SumFunctionOnSet(g, S)
<1> DEFINE C == {u \in SUBSET S : SumFunctionOnSet(f, u) # SumFunctionOnSet(g, u)}
<1>1. SUFFICES ASSUME C # {} PROVE FALSE
  OBVIOUS
<1>2. PICK s \in C : \A u \in C : u \subseteq s => u = s
  <2>1. C \in SUBSET (SUBSET S)
    OBVIOUS
  <2> HIDE DEF C
  <2> QED BY <1>1, <2>1, SmallestSubset
<1>3. s \in SUBSET S /\ s # {} /\ IsFiniteSet(s) /\ Pick(s) \in s
  BY SumEmpty, FS_Subset, PickOne
<1>4. s \ {Pick(s)} \in SUBSET S /\ s \ {Pick(s)} \notin C
  BY <1>2, <1>3
<1>5. f[Pick(s)] = g[Pick(s)]
       /\ SumFunctionOnSet(f, s \ {Pick(s)}) = SumFunctionOnSet(g, s \ {Pick(s)})
  BY <1>3, <1>4
<1>6. SumFunctionOnSet(f, s) = SumFunctionOnSet(g, s)
  BY <1>3, <1>5, SumPick
<1> QED BY <1>6

LEMMA SumUnion ==
  ASSUME NEW f, NEW S, NEW T, IsFiniteSet(S), IsFiniteSet(T), S \cap T = {},
         \A x \in S \cup T : f[x] \in Int
  PROVE  SumFunctionOnSet(f, S \cup T) = SumFunctionOnSet(f, S) + SumFunctionOnSet(f, T)
<1> DEFINE sum(u) == SumFunctionOnSet(f, u)
           C == {u \in SUBSET S : sum(u \cup T) # sum(u) + sum(T)}
<1>1. SUFFICES ASSUME C # {} PROVE FALSE
  OBVIOUS
<1>2. PICK s \in C : \A u \in C : u \subseteq s => u = s
  <2>1. C \in SUBSET (SUBSET S)
    OBVIOUS
  <2> HIDE DEF C
  <2> QED BY <1>1, <2>1, SmallestSubset
<1>3. /\ sum(T) \in Int /\ sum({}) = 0
      /\ \A u \in SUBSET S : IsFiniteSet(u) /\ IsFiniteSet(u \cup T) /\ sum(u) \in Int
  BY FS_Subset, FS_Union, SumInt, SumEmpty
<1>4. s \in SUBSET S /\ sum(s \cup T) # sum(s) + sum(T)
  OBVIOUS
<1>5. s # {}
  <2>1. {} \cup T = T
    OBVIOUS
  <2> HIDE DEF sum
  <2> QED BY <1>3, <1>4, <2>1
<1>6. PICK x \in s : TRUE
  BY <1>5
<1> DEFINE r == s \ {x}
<1>7. r \in SUBSET S /\ r \notin C
  BY <1>2, <1>4, <1>6
<1>8. sum(r \cup T) = sum(r) + sum(T)
  BY <1>7
<1>9. sum(s) = f[x] + sum(r)
  BY <1>3, <1>4, <1>6, SumElement
<1>10. sum(s \cup T) = f[x] + sum(r \cup T)
  <2>1. (s \cup T) \ {x} = r \cup T /\ x \in s \cup T
    BY <1>4, <1>6
  <2>2. IsFiniteSet(s \cup T) /\ \A e \in s \cup T : f[e] \in Int
    BY <1>3, <1>4
  <2>3. sum(s \cup T) = f[x] + sum((s \cup T) \ {x})
    BY <2>1, <2>2, SumElement
  <2> QED BY <2>1, <2>3
<1>11. f[x] \in Int /\ sum(r) \in Int
  BY <1>3, <1>4, <1>6, <1>7
<1> HIDE DEF sum, r
<1> QED BY <1>3, <1>4, <1>8, <1>9, <1>10, <1>11

(* A sum may be taken over the images of the elements, if no two coincide.  *)
LEMMA SumImage ==
  ASSUME NEW f, NEW g, NEW h, NEW S, IsFiniteSet(S),
         \A x \in S : f[x] \in Int /\ g[h[x]] = f[x],
         \A x, y \in S : h[x] = h[y] => x = y
  PROVE  SumFunctionOnSet(g, {h[x] : x \in S}) = SumFunctionOnSet(f, S)
<1> DEFINE image(u) == {h[x] : x \in u}
           C == {u \in SUBSET S : ~ /\ IsFiniteSet(image(u))
                                    /\ SumFunctionOnSet(g, image(u)) = SumFunctionOnSet(f, u)}
<1>1. SUFFICES ASSUME C # {} PROVE FALSE
  OBVIOUS
<1>2. PICK s \in C : \A u \in C : u \subseteq s => u = s
  <2>1. C \in SUBSET (SUBSET S)
    OBVIOUS
  <2> HIDE DEF C
  <2> QED BY <1>1, <2>1, SmallestSubset
<1>3. s # {}
  <2>1. image({}) = {}
    OBVIOUS
  <2>2. {} \notin C
    BY <2>1, SumEmpty, FS_EmptySet
  <2> QED BY <2>2
<1>4. PICK x \in s : TRUE
  BY <1>3
<1> DEFINE r == s \ {x}
<1>5. s \in SUBSET S /\ IsFiniteSet(s) /\ IsFiniteSet(r)
  BY FS_Subset
<1>6. IsFiniteSet(image(r)) /\ SumFunctionOnSet(g, image(r)) = SumFunctionOnSet(f, r)
  BY <1>2, <1>4, <1>5
<1>7. image(s) = image(r) \cup {h[x]} /\ h[x] \notin image(r)
  BY <1>4, <1>5
<1>8. IsFiniteSet(image(s))
  <2> HIDE DEF image, r
  <2> QED BY <1>6, <1>7, FS_AddElement
<1>9. SumFunctionOnSet(g, image(s)) = g[h[x]] + SumFunctionOnSet(g, image(r))
  <2>1. \A e \in image(s) : g[e] \in Int
    BY <1>5
  <2>2. h[x] \in image(s) /\ image(s) \ {h[x]} = image(r)
    BY <1>7
  <2> HIDE DEF image, r
  <2> QED BY <1>8, <2>1, <2>2, SumElement
<1>10. SumFunctionOnSet(f, s) = f[x] + SumFunctionOnSet(f, r)
  BY <1>4, <1>5, SumElement
<1>11. g[h[x]] = f[x]
  BY <1>4, <1>5
<1>12. SumFunctionOnSet(g, image(s)) = SumFunctionOnSet(f, s)
  BY <1>6, <1>9, <1>10, <1>11
<1> QED BY <1>8, <1>12

LEMMA SumOpposite ==
  ASSUME NEW f, NEW g, NEW S, IsFiniteSet(S), \A x \in S : f[x] \in Int /\ g[x] = -f[x]
  PROVE  SumFunctionOnSet(g, S) = -SumFunctionOnSet(f, S)
<1> DEFINE C == {u \in SUBSET S : SumFunctionOnSet(g, u) # -SumFunctionOnSet(f, u)}
<1>1. SUFFICES ASSUME C # {} PROVE FALSE
  OBVIOUS
<1>2. PICK s \in C : \A u \in C : u \subseteq s => u = s
  <2>1. C \in SUBSET (SUBSET S)
    OBVIOUS
  <2> HIDE DEF C
  <2> QED BY <1>1, <2>1, SmallestSubset
<1>3. s \in SUBSET S /\ s # {} /\ IsFiniteSet(s) /\ Pick(s) \in s
  <2>1. s \in SUBSET S /\ SumFunctionOnSet(g, s) # -SumFunctionOnSet(f, s)
    OBVIOUS
  <2>2. SumFunctionOnSet(g, {}) = 0 /\ SumFunctionOnSet(f, {}) = 0
    BY SumEmpty
  <2>3. s # {}
    BY <2>1, <2>2
  <2> QED BY <2>1, <2>3, FS_Subset, PickOne
<1> DEFINE r == s \ {Pick(s)}
<1>4. r \in SUBSET S /\ r \notin C
  BY <1>2, <1>3
<1>5. SumFunctionOnSet(g, r) = -SumFunctionOnSet(f, r)
  BY <1>4
<1>6. /\ SumFunctionOnSet(f, s) = f[Pick(s)] + SumFunctionOnSet(f, r)
      /\ SumFunctionOnSet(g, s) = g[Pick(s)] + SumFunctionOnSet(g, r)
  BY <1>3, SumPick
<1>7. f[Pick(s)] \in Int /\ g[Pick(s)] = -f[Pick(s)] /\ SumFunctionOnSet(f, r) \in Int
  BY <1>3, <1>4, SumInt, FS_Subset
<1> HIDE DEF r
<1>8. SumFunctionOnSet(g, s) = -SumFunctionOnSet(f, s)
  BY <1>5, <1>6, <1>7
<1> QED BY <1>8

LEMMA SumPositive ==
  ASSUME NEW f, NEW S, IsFiniteSet(S), \A x \in S : f[x] \in Int /\ f[x] > 0
  PROVE  /\ SumFunctionOnSet(f, S) \in Int /\ SumFunctionOnSet(f, S) >= 0
         /\ S # {} => SumFunctionOnSet(f, S) > 0
<1> DEFINE sum(u) == SumFunctionOnSet(f, u)
           C == {u \in SUBSET S : ~(sum(u) >= 0 /\ (u # {} => sum(u) > 0))}
<1>0. SumFunctionOnSet(f, S) \in Int
  BY SumInt
<1>1. SUFFICES ASSUME C # {} PROVE FALSE
  BY <1>0
<1>2. PICK s \in C : \A u \in C : u \subseteq s => u = s
  <2>1. C \in SUBSET (SUBSET S)
    OBVIOUS
  <2> HIDE DEF C
  <2> QED BY <1>1, <2>1, SmallestSubset
<1>3. s \in SUBSET S /\ ~(sum(s) >= 0 /\ (s # {} => sum(s) > 0))
  OBVIOUS
<1>4. s # {} /\ IsFiniteSet(s) /\ Pick(s) \in s
  <2>1. sum({}) = 0
    BY SumEmpty
  <2>2. s # {}
    BY <1>3, <2>1
  <2> QED BY <1>3, <2>2, FS_Subset, PickOne
<1> DEFINE r == s \ {Pick(s)}
<1>5. r \in SUBSET S /\ r \notin C
  BY <1>2, <1>3, <1>4
<1>6. sum(r) >= 0 /\ sum(r) \in Int
  BY <1>5, SumInt, FS_Subset
<1>7. sum(s) = f[Pick(s)] + sum(r)
  BY <1>4, SumPick
<1>8. f[Pick(s)] \in Int /\ f[Pick(s)] > 0
  BY <1>3, <1>4
<1> HIDE DEF r, sum
<1> QED BY <1>3, <1>6, <1>7, <1>8

LEMMA ImageIsFinite ==
  ASSUME NEW h, NEW S, IsFiniteSet(S)
  PROVE  IsFiniteSet({h[x] : x \in S})
<1> DEFINE T == {h[x] : x \in S}
<1>1. PICK k : k = [x \in S |-> h[x]]
  OBVIOUS
<1>2. k \in Surjection(S, T)
  BY <1>1 DEF Surjection
<1> HIDE DEF T
<1>3. IsFiniteSet(T)
  BY <1>2, FS_Surjection
<1> QED BY <1>3 DEF T

(* What is given and taken back, element for element, adds up to nothing.   *)
LEMMA SumCancels ==
  ASSUME NEW f, NEW h, NEW S, IsFiniteSet(S),
         \A x \in S : f[x] \in Int /\ f[h[x]] = -f[x] /\ h[x] \notin S,
         \A x, y \in S : h[x] = h[y] => x = y
  PROVE  SumFunctionOnSet(f, S \cup {h[x] : x \in S}) = 0
<1>1. PICK T : T = {h[x] : x \in S}
  OBVIOUS
<1>2. PICK g : g = [x \in S |-> -f[x]]
  OBVIOUS
<1>3. \A x \in S : g[x] \in Int /\ f[h[x]] = g[x] /\ g[x] = -f[x]
  BY <1>2
<1>4. SumFunctionOnSet(f, T) = SumFunctionOnSet(g, S)
  BY <1>1, <1>3, SumImage
<1>5. SumFunctionOnSet(g, S) = -SumFunctionOnSet(f, S) /\ SumFunctionOnSet(f, S) \in Int
  BY <1>3, SumOpposite, SumInt
<1>6. SumFunctionOnSet(f, S \cup T) = SumFunctionOnSet(f, S) + SumFunctionOnSet(f, T)
  <2>1. IsFiniteSet(T) /\ S \cap T = {}
    BY <1>1, ImageIsFinite
  <2>2. \A x \in S \cup T : f[x] \in Int
    BY <1>1, <1>3
  <2> QED BY <2>1, <2>2, SumUnion
<1> QED BY <1>1, <1>4, <1>5, <1>6

(* A sum of sums, and of multiples. *)
LEMMA SumLinear ==
  ASSUME NEW f, NEW g, NEW h, NEW c \in Int, NEW S, IsFiniteSet(S),
         \A x \in S : f[x] \in Int /\ g[x] \in Int /\ h[x] = f[x] + c * g[x]
  PROVE  SumFunctionOnSet(h, S) = SumFunctionOnSet(f, S) + c * SumFunctionOnSet(g, S)
<1> DEFINE C == {u \in SUBSET S :
                   SumFunctionOnSet(h, u) # SumFunctionOnSet(f, u) + c * SumFunctionOnSet(g, u)}
<1>1. SUFFICES ASSUME C # {} PROVE FALSE
  OBVIOUS
<1>2. PICK s \in C : \A u \in C : u \subseteq s => u = s
  <2>1. C \in SUBSET (SUBSET S)
    OBVIOUS
  <2> HIDE DEF C
  <2> QED BY <1>1, <2>1, SmallestSubset
<1>3. s \in SUBSET S /\ s # {} /\ IsFiniteSet(s) /\ Pick(s) \in s
  <2>1. s \in SUBSET S /\ SumFunctionOnSet(h, s) # SumFunctionOnSet(f, s) + c * SumFunctionOnSet(g, s)
    OBVIOUS
  <2>2. SumFunctionOnSet(h, {}) = 0 /\ SumFunctionOnSet(g, {}) = 0 /\ SumFunctionOnSet(f, {}) = 0
    BY SumEmpty
  <2>3. s # {}
    <3> SUFFICES ASSUME s = {} PROVE FALSE
      OBVIOUS
    <3>1. SumFunctionOnSet(h, s) = 0 /\ SumFunctionOnSet(g, s) = 0 /\ SumFunctionOnSet(f, s) = 0
      BY <2>2
    <3>2. 0 + c * 0 = 0
      OBVIOUS
    <3> QED BY <2>1, <3>1, <3>2
  <2> QED BY <2>1, <2>3, FS_Subset, PickOne
<1> DEFINE r == s \ {Pick(s)}
<1>4. r \in SUBSET S /\ r \notin C
  BY <1>2, <1>3
<1>5. SumFunctionOnSet(h, r) = SumFunctionOnSet(f, r) + c * SumFunctionOnSet(g, r)
  BY <1>4
<1>6. /\ SumFunctionOnSet(f, s) = f[Pick(s)] + SumFunctionOnSet(f, r)
      /\ SumFunctionOnSet(g, s) = g[Pick(s)] + SumFunctionOnSet(g, r)
      /\ SumFunctionOnSet(h, s) = h[Pick(s)] + SumFunctionOnSet(h, r)
  BY <1>3, SumPick
<1>7. /\ f[Pick(s)] \in Int /\ g[Pick(s)] \in Int /\ h[Pick(s)] = f[Pick(s)] + c * g[Pick(s)]
      /\ SumFunctionOnSet(f, r) \in Int /\ SumFunctionOnSet(g, r) \in Int
  BY <1>3, <1>4, SumInt, FS_Subset
<1> HIDE DEF r
<1>8. \A a, b \in Int : c * (a + b) = c * a + c * b /\ c * a \in Int
  OBVIOUS
<1>9. SumFunctionOnSet(h, s) = SumFunctionOnSet(f, s) + c * SumFunctionOnSet(g, s)
  BY <1>5, <1>6, <1>7, <1>8
<1> QED BY <1>9

LEMMA SumMinus ==
  ASSUME NEW f, NEW g, NEW h, NEW S, IsFiniteSet(S),
         \A x \in S : f[x] \in Int /\ g[x] \in Int /\ h[x] = f[x] - g[x]
  PROVE  SumFunctionOnSet(h, S) = SumFunctionOnSet(f, S) - SumFunctionOnSet(g, S)
<1>1. \A x \in S : f[x] \in Int /\ g[x] \in Int /\ h[x] = f[x] + (-1) * g[x]
  OBVIOUS
<1>2. SumFunctionOnSet(h, S) = SumFunctionOnSet(f, S) + (-1) * SumFunctionOnSet(g, S)
  BY <1>1, SumLinear
<1>3. SumFunctionOnSet(f, S) \in Int /\ SumFunctionOnSet(g, S) \in Int
  BY SumInt
<1> QED BY <1>2, <1>3

LEMMA SumPlus ==
  ASSUME NEW f, NEW g, NEW h, NEW S, IsFiniteSet(S),
         \A x \in S : f[x] \in Int /\ g[x] \in Int /\ h[x] = f[x] + g[x]
  PROVE  SumFunctionOnSet(h, S) = SumFunctionOnSet(f, S) + SumFunctionOnSet(g, S)
<1>1. \A x \in S : f[x] \in Int /\ g[x] \in Int /\ h[x] = f[x] + 1 * g[x]
  OBVIOUS
<1>2. SumFunctionOnSet(h, S) = SumFunctionOnSet(f, S) + 1 * SumFunctionOnSet(g, S)
  BY <1>1, SumLinear
<1>3. SumFunctionOnSet(f, S) \in Int /\ SumFunctionOnSet(g, S) \in Int
  BY SumInt
<1> QED BY <1>2, <1>3

(* What is nowhere negative adds up to no less than any part of it. *)
LEMMA SumNatural ==
  ASSUME NEW f, NEW S, IsFiniteSet(S), \A x \in S : f[x] \in Int /\ f[x] >= 0
  PROVE  /\ SumFunctionOnSet(f, S) \in Int /\ SumFunctionOnSet(f, S) >= 0
         /\ \A x \in S : f[x] <= SumFunctionOnSet(f, S)
<1> DEFINE sum(u) == SumFunctionOnSet(f, u)
           C == {u \in SUBSET S : ~(sum(u) >= 0)}
<1>0. SumFunctionOnSet(f, S) \in Int
  BY SumInt
<1>1. ASSUME C # {} PROVE FALSE
  <2>1. PICK s \in C : \A u \in C : u \subseteq s => u = s
    <3>1. C \in SUBSET (SUBSET S)
      OBVIOUS
    <3> HIDE DEF C
    <3> QED BY <1>1, <3>1, SmallestSubset
  <2>2. s \in SUBSET S /\ ~(sum(s) >= 0)
    OBVIOUS
  <2>3. s # {} /\ IsFiniteSet(s) /\ Pick(s) \in s
    <3>1. sum({}) = 0
      BY SumEmpty
    <3>2. s # {}
      BY <2>2, <3>1
    <3> QED BY <2>2, <3>2, FS_Subset, PickOne
  <2> DEFINE r == s \ {Pick(s)}
  <2>4. r \in SUBSET S /\ r \notin C
    BY <2>1, <2>2, <2>3
  <2>5. sum(r) >= 0 /\ sum(r) \in Int
    BY <2>4, SumInt, FS_Subset
  <2>6. sum(s) = f[Pick(s)] + sum(r)
    BY <2>3, SumPick
  <2>7. f[Pick(s)] \in Int /\ f[Pick(s)] >= 0
    BY <2>2, <2>3
  <2> HIDE DEF r, sum, C
  <2> QED BY <2>2, <2>5, <2>6, <2>7
<1>2. \A u \in SUBSET S : sum(u) >= 0
  BY <1>1
<1>3. ASSUME NEW x \in S PROVE f[x] <= sum(S)
  <2>1. sum(S) = f[x] + sum(S \ {x})
    BY SumElement
  <2>2. sum(S \ {x}) \in Int
    BY SumInt, FS_Subset
  <2>3. sum(S \ {x}) >= 0
    BY <1>2
  <2> HIDE DEF sum
  <2> QED BY <2>1, <2>2, <2>3
<1> QED BY <1>0, <1>2, <1>3

(* Of two sums compared element by element; equal sums have equal elements. *)
LEMMA SumAtMost ==
  ASSUME NEW f, NEW g, NEW S, IsFiniteSet(S),
         \A x \in S : f[x] \in Int /\ g[x] \in Int /\ f[x] <= g[x]
  PROVE  /\ SumFunctionOnSet(f, S) <= SumFunctionOnSet(g, S)
         /\ SumFunctionOnSet(f, S) = SumFunctionOnSet(g, S) => \A x \in S : f[x] = g[x]
<1>1. PICK h : h = [x \in S |-> g[x] + (-1) * f[x]]
  OBVIOUS
<1>2. \A x \in S : h[x] \in Int /\ h[x] >= 0 /\ h[x] = g[x] + (-1) * f[x]
  BY <1>1
<1>3. SumFunctionOnSet(h, S) = SumFunctionOnSet(g, S) + (-1) * SumFunctionOnSet(f, S)
  BY <1>2, SumLinear
<1>4. /\ SumFunctionOnSet(h, S) \in Int /\ SumFunctionOnSet(h, S) >= 0
      /\ \A x \in S : h[x] <= SumFunctionOnSet(h, S)
  BY <1>2, SumNatural
<1>5. SumFunctionOnSet(f, S) \in Int /\ SumFunctionOnSet(g, S) \in Int
  BY SumInt
<1>6. ASSUME SumFunctionOnSet(f, S) = SumFunctionOnSet(g, S), NEW x \in S PROVE f[x] = g[x]
  <2>1. SumFunctionOnSet(h, S) = 0
    BY <1>3, <1>5, <1>6
  <2>2. h[x] <= 0 /\ h[x] >= 0 /\ h[x] \in Int /\ h[x] = g[x] + (-1) * f[x]
    BY <1>2, <1>4, <2>1
  <2> QED BY <2>2
<1> QED BY <1>3, <1>4, <1>5, <1>6

(* Counting as a sum.                                                       *)
LEMMA SumOfOnes ==
  ASSUME NEW f, NEW S, IsFiniteSet(S), \A x \in S : f[x] = 1
  PROVE  SumFunctionOnSet(f, S) = Cardinality(S)
<1> DEFINE C == {u \in SUBSET S : SumFunctionOnSet(f, u) # Cardinality(u)}
<1>1. SUFFICES ASSUME C # {} PROVE FALSE
  OBVIOUS
<1>2. PICK s \in C : \A u \in C : u \subseteq s => u = s
  <2>1. C \in SUBSET (SUBSET S)
    OBVIOUS
  <2> HIDE DEF C
  <2> QED BY <1>1, <2>1, SmallestSubset
<1>3. s \in SUBSET S /\ s # {} /\ IsFiniteSet(s) /\ Pick(s) \in s
  <2>1. s \in SUBSET S /\ SumFunctionOnSet(f, s) # Cardinality(s)
    OBVIOUS
  <2>2. s # {}
    BY <2>1, SumEmpty, FS_EmptySet
  <2> QED BY <2>1, <2>2, FS_Subset, PickOne
<1> DEFINE r == s \ {Pick(s)}
<1>4. r \in SUBSET S /\ r \notin C
  BY <1>2, <1>3
<1>5. SumFunctionOnSet(f, r) = Cardinality(r)
  BY <1>4
<1>6. SumFunctionOnSet(f, s) = 1 + SumFunctionOnSet(f, r)
  BY <1>3, SumPick
<1>7. Cardinality(r) = Cardinality(s) - 1 /\ Cardinality(s) \in Nat
  BY <1>3, FS_RemoveElement, FS_CardinalityType
<1> HIDE DEF r
<1>8. SumFunctionOnSet(f, s) = Cardinality(s)
  BY <1>5, <1>6, <1>7
<1> QED BY <1>8

(* Of zeros, of a characteristic function, of multiples. *)
LEMMA SumOfNothing ==
  ASSUME NEW f, NEW S, IsFiniteSet(S), \A x \in S : f[x] = 0
  PROVE  SumFunctionOnSet(f, S) = 0
<1>1. SumFunctionOnSet(f, S) = SumFunctionOnSet(f, S) + 1 * SumFunctionOnSet(f, S)
  BY SumLinear
<1>2. SumFunctionOnSet(f, S) \in Int
  BY SumInt
<1> QED BY <1>1, <1>2

LEMMA SumCounts ==
  ASSUME NEW f, NEW S, IsFiniteSet(S), NEW X, X \subseteq S,
         \A x \in S : f[x] = IF x \in X THEN 1 ELSE 0
  PROVE  SumFunctionOnSet(f, S) = Cardinality(X)
<1>1. IsFiniteSet(X) /\ IsFiniteSet(S \ X)
  BY FS_Subset
<1>2. SumFunctionOnSet(f, X) = Cardinality(X)
  BY <1>1, SumOfOnes
<1>3. SumFunctionOnSet(f, S \ X) = 0
  BY <1>1, SumOfNothing
<1>4. X \cap (S \ X) = {} /\ X \cup (S \ X) = S /\ \A x \in S : f[x] \in Int
  OBVIOUS
<1>5. SumFunctionOnSet(f, X \cup (S \ X)) = SumFunctionOnSet(f, X) + SumFunctionOnSet(f, S \ X)
  BY <1>1, <1>4, SumUnion
<1>6. Cardinality(X) \in Nat
  BY <1>1, FS_CardinalityType
<1>7. SumFunctionOnSet(f, X \cup (S \ X)) = SumFunctionOnSet(f, S)
  BY <1>4, Zenon
<1> QED BY <1>2, <1>3, <1>5, <1>6, <1>7

LEMMA SumTimes ==
  ASSUME NEW f, NEW g, NEW c \in Int, NEW S, IsFiniteSet(S),
         \A x \in S : f[x] \in Int /\ g[x] = c * f[x]
  PROVE  SumFunctionOnSet(g, S) = c * SumFunctionOnSet(f, S)
<1> DEFINE z == [x \in S |-> 0]
<1>1. \A x \in S : z[x] \in Int /\ z[x] = 0 /\ g[x] = z[x] + c * f[x]
  OBVIOUS
<1>2. SumFunctionOnSet(z, S) = 0
  BY <1>1, SumOfNothing
<1> HIDE DEF z
<1>3. SumFunctionOnSet(g, S) = SumFunctionOnSet(z, S) + c * SumFunctionOnSet(f, S)
  BY <1>1, SumLinear
<1>4. SumFunctionOnSet(f, S) \in Int
  BY SumInt
<1> QED BY <1>2, <1>3, <1>4

(* A table a of numbers, its columns b, and the sums r of its rows and c of  *)
(* its columns.                                                             *)
Table(a, b, r, c, S, T) ==
  /\ \A x \in S, y \in T : a[x][y] \in Int /\ b[y][x] = a[x][y]
  /\ \A x \in S : r[x] = SumFunctionOnSet(a[x], T)
  /\ \A y \in T : c[y] = SumFunctionOnSet(b[y], S)

(* A table of numbers adds up to the same by rows and by columns.           *)
LEMMA SumSwap ==
  ASSUME NEW a, NEW b, NEW r, NEW c, NEW S, NEW T, IsFiniteSet(S), IsFiniteSet(T),
         Table(a, b, r, c, S, T)
  PROVE  SumFunctionOnSet(r, S) = SumFunctionOnSet(c, T)
<1> USE DEF Table
<1> DEFINE column(u) == [y \in T |-> SumFunctionOnSet(b[y], u)]
           C == {u \in SUBSET S : SumFunctionOnSet(r, u) # SumFunctionOnSet(column(u), T)}
<1>1. \A x \in S : r[x] \in Int
  BY SumInt
<1>2. \A u \in SUBSET S : /\ IsFiniteSet(u)
                          /\ \A y \in T : column(u)[y] = SumFunctionOnSet(b[y], u)
                          /\ \A y \in T : SumFunctionOnSet(b[y], u) \in Int
  <2>1. \A u \in SUBSET S : IsFiniteSet(u)
    BY FS_Subset
  <2> QED BY <2>1, SumInt
<1>3. C = {}
  <2> SUFFICES ASSUME C # {} PROVE FALSE
    OBVIOUS
  <2>1. PICK u \in C : \A v \in C : v \subseteq u => v = u
    <3>1. C \in SUBSET (SUBSET S)
      OBVIOUS
    <3> HIDE DEF C
    <3> QED BY <3>1, SmallestSubset
  <2>2. u \in SUBSET S /\ SumFunctionOnSet(r, u) # SumFunctionOnSet(column(u), T)
    OBVIOUS
  <2> HIDE DEF column
  <2>3. CASE u = {}
    <3>1. \A y \in T : column(u)[y] = 0
      BY <1>2, <2>3, SumEmpty
    <3>2. SumFunctionOnSet(column(u), T) = 0
      BY <3>1, SumOfNothing
    <3> QED BY <2>2, <2>3, <3>2, SumEmpty
  <2>4. CASE u # {}
    <3> DEFINE w == u \ {Pick(u)}
    <3>1. Pick(u) \in u /\ Pick(u) \in S /\ w \in SUBSET S /\ w \subseteq u /\ w # u
      BY <2>2, <2>4, PickOne
    <3>2. w \notin C
      BY <2>1, <3>1
    <3>3. SumFunctionOnSet(r, w) = SumFunctionOnSet(column(w), T)
      BY <3>1, <3>2
    <3>4. SumFunctionOnSet(r, u) = r[Pick(u)] + SumFunctionOnSet(r, w)
      BY <1>2, <2>2, <2>4, SumPick
    <3>5. ASSUME NEW y \in T
          PROVE  /\ a[Pick(u)][y] \in Int /\ column(w)[y] \in Int
                 /\ column(u)[y] = a[Pick(u)][y] + column(w)[y]
      <4>1. SumFunctionOnSet(b[y], u) = b[y][Pick(u)] + SumFunctionOnSet(b[y], w)
        BY <1>2, <2>2, <2>4, SumPick
      <4> QED BY <1>2, <2>2, <3>1, <4>1
    <3>6. SumFunctionOnSet(column(u), T)
            = SumFunctionOnSet(a[Pick(u)], T) + SumFunctionOnSet(column(w), T)
      <4> DEFINE f == a[Pick(u)]
                 g == column(w)
                 h == column(u)
      <4>1. \A y \in T : f[y] \in Int /\ g[y] \in Int /\ h[y] = f[y] + g[y]
        BY <3>5
      <4> HIDE DEF f, g, h
      <4>2. SumFunctionOnSet(h, T) = SumFunctionOnSet(f, T) + SumFunctionOnSet(g, T)
        BY <4>1, SumPlus
      <4> QED BY <4>2 DEF f, g, h
    <3> QED BY <2>2, <3>1, <3>3, <3>4, <3>6
  <2> QED BY <2>3, <2>4
<1>4. SumFunctionOnSet(r, S) = SumFunctionOnSet(column(S), T)
  BY <1>3
<1> HIDE DEF column
<1>5. \A y \in T : column(S)[y] = c[y]
  BY <1>2
<1> QED BY <1>4, <1>5, SumSame

(* What is nothing outside a part adds up to the part.                      *)
LEMMA SumWithin ==
  ASSUME NEW f, NEW g, NEW S, IsFiniteSet(S), NEW T, T \subseteq S,
         \A x \in T : f[x] \in Int /\ g[x] = f[x],
         \A x \in S \ T : g[x] = 0
  PROVE  SumFunctionOnSet(g, S) = SumFunctionOnSet(f, T)
<1>1. IsFiniteSet(T) /\ IsFiniteSet(S \ T)
  BY FS_Subset
<1>2. SumFunctionOnSet(g, T) = SumFunctionOnSet(f, T)
  BY <1>1, SumSame
<1>3. SumFunctionOnSet(g, S \ T) = 0
  BY <1>1, SumOfNothing
<1>4. T \cap (S \ T) = {} /\ T \cup (S \ T) = S /\ \A x \in S : g[x] \in Int
  OBVIOUS
<1>5. SumFunctionOnSet(g, T \cup (S \ T)) = SumFunctionOnSet(g, T) + SumFunctionOnSet(g, S \ T)
  BY <1>1, <1>4, SumUnion
<1>6. SumFunctionOnSet(g, T \cup (S \ T)) = SumFunctionOnSet(g, S)
  BY <1>4, Zenon
<1>7. SumFunctionOnSet(f, T) \in Int
  BY <1>1, SumInt
<1> QED BY <1>2, <1>3, <1>5, <1>6, <1>7

(* A sum is the sum of its parts' sums, the parts told apart by a function. *)
LEMMA SumOfParts ==
  ASSUME NEW f, NEW S, IsFiniteSet(S), NEW K, IsFiniteSet(K), NEW of, NEW part, NEW g,
         \A x \in S : f[x] \in Int /\ of[x] \in K,
         \A k \in K : part[k] \subseteq S /\ \A x \in S : x \in part[k] <=> of[x] = k,
         \A k \in K : g[k] = SumFunctionOnSet(f, part[k])
  PROVE  SumFunctionOnSet(f, S) = SumFunctionOnSet(g, K)
<1>1. PICK a : a = [x \in S |-> [k \in K |-> IF of[x] = k THEN f[x] ELSE 0]]
  OBVIOUS
<1>2. PICK b : b = [k \in K |-> [x \in S |-> IF of[x] = k THEN f[x] ELSE 0]]
  OBVIOUS
<1>3. \A x \in S, k \in K : a[x][k] \in Int /\ b[k][x] = a[x][k]
  BY <1>1, <1>2
<1>4. ASSUME NEW x \in S PROVE f[x] = SumFunctionOnSet(a[x], K)
  <2>1. PICK row : row = a[x]
    OBVIOUS
  <2>2. row[of[x]] = f[x] /\ \A k \in K \ {of[x]} : row[k] = 0
    BY <1>1, <2>1
  <2>3. IsFiniteSet(K \ {of[x]}) /\ \A k \in K : row[k] \in Int
    BY <1>3, <2>1, FS_Subset
  <2>4. SumFunctionOnSet(row, K) = row[of[x]] + SumFunctionOnSet(row, K \ {of[x]})
    BY <2>3, SumElement
  <2>5. SumFunctionOnSet(row, K \ {of[x]}) = 0
    BY <2>2, <2>3, SumOfNothing
  <2> QED BY <2>1, <2>2, <2>4, <2>5
<1>5. ASSUME NEW k \in K PROVE g[k] = SumFunctionOnSet(b[k], S)
  <2>1. PICK column : column = b[k]
    OBVIOUS
  <2>2. PICK T : T = part[k] /\ T \subseteq S
    OBVIOUS
  <2>3. /\ \A x \in T : f[x] \in Int /\ column[x] = f[x]
        /\ \A x \in S \ T : column[x] = 0
    BY <1>2, <2>1, <2>2
  <2>4. SumFunctionOnSet(column, S) = SumFunctionOnSet(f, T)
    BY <2>2, <2>3, SumWithin
  <2> QED BY <2>1, <2>2, <2>4
<1>6. \A x \in S : f[x] = SumFunctionOnSet(a[x], K)
  BY <1>4
<1>7. \A k \in K : g[k] = SumFunctionOnSet(b[k], S)
  BY <1>5
<1>8. Table(a, b, f, g, S, K)
  BY <1>3, <1>6, <1>7 DEF Table
<1> QED BY <1>8, SumSwap

-----------------------------------------------------------------------------
(* The last of a finite set in a strict total order, given by its pairs.    *)
Orders(R, S) ==
  /\ \A x \in S : <<x, x>> \notin R
  /\ \A x, y, z \in S : <<x, y>> \in R /\ <<y, z>> \in R => <<x, z>> \in R
  /\ \A x, y \in S : x = y \/ <<x, y>> \in R \/ <<y, x>> \in R

LEMMA LastElement ==
  ASSUME NEW S, IsFiniteSet(S), S # {}, NEW R, Orders(R, S)
  PROVE  \E z \in S : \A x \in S \ {z} : <<x, z>> \in R /\ <<z, x>> \notin R
<1> DEFINE last(T, z) == \A x \in T \ {z} : <<x, z>> \in R
           C == {T \in SUBSET S : T # {} /\ \A z \in T : ~last(T, z)}
<1>1. ASSUME C # {} PROVE FALSE
  <2>1. PICK T \in C : \A U \in C : U \subseteq T => U = T
    <3>1. C \in SUBSET (SUBSET S)
      OBVIOUS
    <3> HIDE DEF C
    <3> QED BY <1>1, <3>1, SmallestSubset
  <2>2. T \in SUBSET S /\ T # {} /\ \A z \in T : ~last(T, z)
    OBVIOUS
  <2>3. PICK y \in T : TRUE
    BY <2>2
  <2>4. T \ {y} \notin C /\ T \ {y} \in SUBSET S
    <3> HIDE DEF C
    <3>1. T \ {y} \subseteq T /\ T \ {y} # T /\ T \ {y} \in SUBSET S
      BY <2>2, <2>3
    <3> QED BY <2>1, <3>1
  <2>5. CASE T \ {y} = {}
    <3>1. last(T, y)
      BY <2>5
    <3> QED BY <2>2, <2>3, <3>1
  <2>6. CASE T \ {y} # {}
    <3>1. PICK z \in T \ {y} : last(T \ {y}, z)
      BY <2>4, <2>6
    <3>2. CASE <<y, z>> \in R
      <4>1. last(T, z)
        BY <3>1, <3>2
      <4> QED BY <2>2, <3>1, <4>1
    <3>3. CASE <<z, y>> \in R
      <4>1. \A x \in T \ {y, z} : <<x, z>> \in R
        BY <3>1
      <4>2. \A x \in T \ {y, z} : <<x, y>> \in R
        BY <2>2, <2>3, <3>1, <3>3, <4>1 DEF Orders
      <4>3. last(T, y)
        BY <3>1, <3>3, <4>2
      <4> QED BY <2>2, <2>3, <4>3
    <3> QED BY <2>2, <2>3, <3>1, <3>2, <3>3 DEF Orders
  <2> QED BY <2>5, <2>6
<1>2. PICK z \in S : last(S, z)
  BY <1>1
<1>3. \A x \in S \ {z} : <<z, x>> \notin R
  BY <1>2 DEF Orders
<1> QED BY <1>2, <1>3

(* As many elements have fewer than n before them.                          *)
LEMMA FirstOnes ==
  ASSUME NEW S, IsFiniteSet(S), NEW R, Orders(R, S), NEW n \in Nat, n <= Cardinality(S)
  PROVE  Cardinality({x \in S : Cardinality({y \in S : <<y, x>> \in R}) < n}) = n
<1> DEFINE before(T, x) == {y \in T : <<y, x>> \in R}
           first(T, i) == {x \in T : Cardinality(before(T, x)) < i}
           C == {T \in SUBSET S : \E i \in Nat : i <= Cardinality(T) /\ Cardinality(first(T, i)) # i}
<1>1. ASSUME C # {} PROVE FALSE
  <2>1. PICK T \in C : \A U \in C : U \subseteq T => U = T
    <3>1. C \in SUBSET (SUBSET S)
      OBVIOUS
    <3> HIDE DEF C
    <3> QED BY <1>1, <3>1, SmallestSubset
  <2>2. T \in SUBSET S /\ \E i \in Nat : i <= Cardinality(T) /\ Cardinality(first(T, i)) # i
    OBVIOUS
  <2>3. PICK i \in Nat : i <= Cardinality(T) /\ Cardinality(first(T, i)) # i
    BY <2>2
  <2>4. IsFiniteSet(T) /\ Cardinality(T) \in Nat
    BY <2>2, FS_Subset, FS_CardinalityType
  <2>5. T # {}
    <3> SUFFICES ASSUME T = {} PROVE FALSE
      OBVIOUS
    <3>1. first(T, i) = {} /\ Cardinality(T) = 0
      BY FS_EmptySet
    <3>2. Cardinality(first(T, i)) = 0 /\ i = 0
      BY <2>3, <3>1, FS_EmptySet
    <3> QED BY <2>3, <3>2
  <2>6. Orders(R, T)
    BY <2>2 DEF Orders
  <2>7. PICK z \in T : \A x \in T \ {z} : <<x, z>> \in R /\ <<z, x>> \notin R
    BY <2>4, <2>5, <2>6, LastElement
  <2> DEFINE U == T \ {z}
  <2>8. U \in SUBSET S /\ U \notin C /\ IsFiniteSet(U) /\ Cardinality(U) = Cardinality(T) - 1
    <3>1. U \in SUBSET S /\ U # T /\ U \subseteq T
      BY <2>2
    <3>2. U \notin C
      <4> HIDE DEF C
      <4> QED BY <2>1, <3>1
    <3>3. IsFiniteSet(U) /\ Cardinality(U) = Cardinality(T) - 1
      BY <2>4, FS_RemoveElement
    <3> QED BY <3>1, <3>2, <3>3
  <2>9. before(T, z) = U
    BY <2>6, <2>7 DEF Orders
  <2>10. \A x \in U : before(T, x) = before(U, x)
    BY <2>7
  <2>11. \A x \in T : Cardinality(before(T, x)) < Cardinality(T)
    <3> SUFFICES ASSUME NEW x \in T PROVE Cardinality(before(T, x)) < Cardinality(T)
      OBVIOUS
    <3>1. before(T, x) \subseteq T \ {x}
      BY <2>6 DEF Orders
    <3>2. IsFiniteSet(T \ {x}) /\ Cardinality(T \ {x}) = Cardinality(T) - 1
      BY <2>4, FS_RemoveElement
    <3> HIDE DEF before
    <3>3. /\ Cardinality(before(T, x)) <= Cardinality(T \ {x})
          /\ Cardinality(before(T, x)) \in Nat
      BY <3>1, <3>2, FS_Subset, FS_CardinalityType
    <3> QED BY <2>4, <3>2, <3>3
  <2>12. CASE i = Cardinality(T)
    <3>1. first(T, i) = T
      BY <2>11, <2>12
    <3> QED BY <2>3, <2>12, <3>1
  <2>13. CASE i < Cardinality(T)
    <3>1. i <= Cardinality(U)
      BY <2>4, <2>8, <2>13
    <3>2. Cardinality(first(U, i)) = i
      BY <2>8, <3>1
    <3>3. z \notin first(T, i)
      <4>1. Cardinality(before(T, z)) = Cardinality(U) /\ Cardinality(U) \in Nat
        BY <2>4, <2>8, <2>9, FS_CardinalityType
      <4>2. ~(Cardinality(before(T, z)) < i)
        <5> HIDE DEF before, U
        <5> QED BY <3>1, <4>1
      <4> QED BY <4>2
    <3>4. first(T, i) = first(U, i)
      BY <2>10, <3>3
    <3> QED BY <2>3, <3>2, <3>4
  <2> QED BY <2>3, <2>4, <2>12, <2>13
<1>2. Cardinality(first(S, n)) = n
  BY <1>1
<1> QED BY <1>2

(* A smallest value. *)
LEMMA SmallestValue ==
  ASSUME NEW S, IsFiniteSet(S), S # {}, NEW f, \A x \in S : f[x] \in Int
  PROVE  \E x \in S : \A y \in S : f[x] <= f[y]
<1> DEFINE least(T, z) == \A y \in T : f[z] <= f[y]
           C == {T \in SUBSET S : T # {} /\ \A z \in T : ~least(T, z)}
<1>1. ASSUME C # {} PROVE FALSE
  <2>1. PICK T \in C : \A U \in C : U \subseteq T => U = T
    <3>1. C \in SUBSET (SUBSET S)
      OBVIOUS
    <3> HIDE DEF C
    <3> QED BY <1>1, <3>1, SmallestSubset
  <2>2. T \in SUBSET S /\ T # {} /\ \A z \in T : ~least(T, z)
    OBVIOUS
  <2>3. PICK y \in T : TRUE
    BY <2>2
  <2>4. T \ {y} \notin C /\ T \ {y} \in SUBSET S
    <3> HIDE DEF C
    <3>1. T \ {y} \subseteq T /\ T \ {y} # T /\ T \ {y} \in SUBSET S
      BY <2>2, <2>3
    <3> QED BY <2>1, <3>1
  <2>5. CASE T \ {y} = {}
    <3>1. least(T, y)
      BY <2>2, <2>3, <2>5
    <3> QED BY <2>2, <2>3, <3>1
  <2>6. CASE T \ {y} # {}
    <3>1. PICK z \in T \ {y} : least(T \ {y}, z)
      BY <2>4, <2>6
    <3>2. f[y] \in Int /\ \A x \in T : f[x] \in Int
      BY <2>2, <2>3
    <3>3. CASE f[z] <= f[y]
      <4>1. least(T, z)
        BY <3>1, <3>3
      <4> QED BY <2>2, <3>1, <4>1
    <3>4. CASE f[y] <= f[z]
      <4>1. \A x \in T \ {y} : f[z] <= f[x]
        BY <3>1
      <4>2. least(T, y)
        BY <2>3, <3>1, <3>2, <3>4, <4>1
      <4> QED BY <2>2, <2>3, <4>2
    <3> QED BY <3>1, <3>2, <3>3, <3>4
  <2> QED BY <2>5, <2>6
<1> QED BY <1>1

=============================================================================
