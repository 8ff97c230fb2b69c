-------------------------- MODULE RecipeGraphProofs --------------------------
(***************************************************************************)
(* Proofs about RecipeGraph and SaleConsumption, for any preparations,     *)
(* recipes, sessions and units.  The graph is handled as a value f: what   *)
(* each kind of commit does to it, then that every commit is one of those  *)
(* kinds because of what the calls hold and have checked; then how         *)
(* commands wait for each other, what a recipe explodes into, and what     *)
(* keeps the units of published versions together.                         *)
(***************************************************************************)
EXTENDS SaleConsumption, FiniteSums

(* The graph *)

Parts(f) == DOMAIN f \cap (Preparation \X Nat)

PutIn(f, v, rec) == [w \in (DOMAIN f) \cup {v} |-> IF w = v THEN rec ELSE f[w]]

PartsOf(rec) == {e[1] : e \in rec.nested}

Edges(f) == {e \in (DOMAIN f) \X (DOMAIN f) : e[2] \in Nested(f, e[1])}

Typed(f) ==
  /\ DOMAIN f \subseteq VersionId
  /\ f \in [DOMAIN f -> VersionRecord(Parts(f))]

Line(f) == \A v \in DOMAIN f : \A n \in 1..(v[2] - 1) : <<v[1], n>> \in Published(f)

Closed(f) == \A v \in Published(f) : Nested(f, v) \subseteq Published(f)

GraphOK(f) ==
  /\ Typed(f) /\ Line(f) /\ Closed(f)
  /\ assertPreparationGraphAcyclic(f)
  /\ Acyclic(Edges(f), DOMAIN f)

(* What a version nests exists and is a preparation's.                     *)
LEMMA NestedIsPart ==
  ASSUME NEW f, Typed(f), NEW v \in DOMAIN f
  PROVE  /\ Nested(f, v) \subseteq DOMAIN f
         /\ \A w \in Nested(f, v) : w[1] \in Preparation
BY DEF Typed, Nested, VersionRecord, Parts

(* A draft is the latest version of its specification.                     *)
LEMMA DraftIsLatest ==
  ASSUME NEW f, Typed(f), Line(f), NEW v \in DOMAIN f, f[v].status # "PUBLISHED"
  PROVE  IsLatest(f, v)
<1> SUFFICES ASSUME NEW w \in DOMAIN f, w[1] = v[1], ~(w[2] <= v[2]) PROVE FALSE
  BY DEF IsLatest
<1>1. v \in VersionId /\ w \in VersionId
  BY DEF Typed
<1>2. v = <<v[1], v[2]>> /\ v[2] \in Nat \ {0} /\ w[2] \in Nat
  BY <1>1, RecipeAssumption DEF VersionId
<1>3. v[2] \in 1..(w[2] - 1)
  BY <1>2
<1>4. <<w[1], v[2]>> \in Published(f)
  BY <1>3 DEF Line
<1> QED BY <1>2, <1>4 DEF Published

(***************************************************************************)
(* If published versions are acyclic among themselves and the latest ones  *)
(* are acyclic by specification, all are: from a published version only    *)
(* published ones are reached, and drafts are the latest of theirs.        *)
(***************************************************************************)
LEMMA AcyclicByLatest ==
  ASSUME NEW f, Typed(f), Line(f), Closed(f), assertPreparationGraphAcyclic(f),
         Acyclic(Edges(f), Published(f))
  PROVE  Acyclic(Edges(f), DOMAIN f)
<1> SUFFICES ASSUME NEW S \in SUBSET DOMAIN f, S # {}
             PROVE  \E x \in S : \A y \in S : <<x, y>> \notin Edges(f)
  BY DEF Acyclic
<1>1. CASE S \cap Published(f) # {}
  <2>1. PICK x \in S \cap Published(f) : \A y \in S \cap Published(f) : <<x, y>> \notin Edges(f)
    BY <1>1 DEF Acyclic
  <2>2. ASSUME NEW y \in S, <<x, y>> \in Edges(f) PROVE FALSE
    <3>1. y \in Nested(f, x)
      BY <2>2 DEF Edges
    <3> QED BY <2>1, <2>2, <3>1 DEF Closed
  <2> QED BY <2>1, <2>2
<1>2. CASE S \cap Published(f) = {}
  <2> DEFINE T == {v[1] : v \in S} \cap Preparation
  <2>1. ASSUME NEW x \in S, NEW y \in S, <<x, y>> \in Edges(f)
        PROVE  y[1] \in T /\ (x[1] \in Preparation => <<x[1], y[1]>> \in SpecificationEdges(f))
    <3>1. y \in Nested(f, x)
      BY <2>1 DEF Edges
    <3>2. y[1] \in Preparation
      BY <3>1, NestedIsPart
    <3>3. IsLatest(f, x)
      BY <1>2, DraftIsLatest DEF Published
    <3> QED BY <3>1, <3>2, <3>3 DEF SpecificationEdges
  <2>2. CASE T = {}
    BY <2>1, <2>2
  <2>3. CASE T # {}
    <3>1. PICK p \in T : \A q \in T : <<p, q>> \notin SpecificationEdges(f)
      <4> HIDE DEF T
      <4>1. T \in SUBSET Preparation
        BY DEF T
      <4> QED BY <2>3, <4>1 DEF assertPreparationGraphAcyclic, Acyclic
    <3>2. PICK x \in S : x[1] = p
      OBVIOUS
    <3> QED BY <2>1, <3>1, <3>2
  <2> QED BY <2>2, <2>3
<1> QED BY <1>1, <1>2

Written(f, g, v, rec) ==
  /\ Typed(g) /\ DOMAIN g = (DOMAIN f) \cup {v} /\ g[v] = rec
  /\ \A w \in (DOMAIN f) \ {v} : g[w] = f[w]

(* Writing a version keeps the types.                                      *)
LEMMA PutTyped ==
  ASSUME NEW f, Typed(f), NEW v \in VersionId, NEW rec \in VersionRecord(Parts(f))
  PROVE  Written(f, PutIn(f, v, rec), v, rec)
<1> DEFINE g == PutIn(f, v, rec)
<1>1. /\ DOMAIN g = (DOMAIN f) \cup {v} /\ g[v] = rec
      /\ \A w \in (DOMAIN f) \ {v} : g[w] = f[w]
  BY DEF PutIn
<1>2. Parts(f) \subseteq Parts(g)
  BY <1>1 DEF Parts
<1>3. VersionRecord(Parts(f)) \subseteq VersionRecord(Parts(g))
  BY <1>2 DEF VersionRecord
<1>4. g \in [(DOMAIN f) \cup {v} -> VersionRecord(Parts(g))]
  <2>1. \A w \in (DOMAIN f) \cup {v} : g[w] \in VersionRecord(Parts(g))
    BY <1>1, <1>3 DEF Typed
  <2>2. g = [w \in (DOMAIN f) \cup {v} |-> g[w]]
    BY DEF PutIn
  <2> HIDE DEF g
  <2> QED BY <2>1, <2>2
<1> QED BY <1>1, <1>4 DEF Typed, Written

(* Writing a draft, new or in place of a draft, that passed the search.    *)
LEMMA DraftWritten ==
  ASSUME NEW f, GraphOK(f), NEW v \in VersionId, NEW rec \in VersionRecord(Parts(f)),
         rec.status = "DRAFT", v \in DOMAIN f => f[v].status = "DRAFT",
         v \notin DOMAIN f => v[2] = 1,
         assertPreparationGraphAcyclic(PutIn(f, v, rec))
  PROVE  GraphOK(PutIn(f, v, rec))
<1> DEFINE g == PutIn(f, v, rec)
<1>0. Typed(f)
  BY DEF GraphOK
<1>1. /\ Typed(g) /\ DOMAIN g = (DOMAIN f) \cup {v} /\ g[v] = rec
      /\ \A w \in (DOMAIN f) \ {v} : g[w] = f[w]
  <2>1. Written(f, g, v, rec)
    BY <1>0, PutTyped
  <2> HIDE DEF g
  <2> QED BY <2>1 DEF Written
<1> HIDE DEF g
<1>2. Published(g) = Published(f)
  BY <1>1 DEF Published
<1>3. Line(g)
  <2> SUFFICES ASSUME NEW w \in DOMAIN g, NEW n \in 1..(w[2] - 1)
               PROVE  <<w[1], n>> \in Published(g)
    BY DEF Line
  <2>1. CASE w \in DOMAIN f
    BY <1>2, <2>1 DEF Line, GraphOK
  <2>2. CASE w \notin DOMAIN f
    BY <1>1, <2>2
  <2> QED BY <2>1, <2>2
<1>4. Closed(g)
  BY <1>1, <1>2 DEF Closed, GraphOK, Nested, Published
<1>5. Acyclic(Edges(g), Published(g))
  <2> SUFFICES ASSUME NEW S \in SUBSET Published(f), S # {}
               PROVE  \E x \in S : \A y \in S : <<x, y>> \notin Edges(g)
    BY <1>2 DEF Acyclic
  <2>1. S \in SUBSET DOMAIN f
    BY DEF Published
  <2>2. PICK x \in S : \A y \in S : <<x, y>> \notin Edges(f)
    BY <2>1 DEF GraphOK, Acyclic
  <2>3. ASSUME NEW y \in S PROVE <<x, y>> \notin Edges(g)
    BY <1>1, <2>1, <2>2 DEF Edges, Nested, Published
  <2> QED BY <2>3
<1>6. assertPreparationGraphAcyclic(g)
  BY DEF g
<1>7. GraphOK(g)
  BY <1>1, <1>3, <1>4, <1>5, <1>6, AcyclicByLatest DEF GraphOK
<1> QED BY <1>7 DEF g

(* Scaling or publishing a draft, with the components it has.              *)
LEMMA PartsKept ==
  ASSUME NEW f, GraphOK(f), NEW v \in DOMAIN f, NEW rec \in VersionRecord(Parts(f)),
         f[v].status = "DRAFT", rec.nested = f[v].nested,
         rec.status = "DRAFT" \/ PartsOf(rec) \subseteq Published(f)
  PROVE  GraphOK(PutIn(f, v, rec))
<1> DEFINE g == PutIn(f, v, rec)
<1>0. Typed(f) /\ v \in VersionId /\ (DOMAIN f) \cup {v} = DOMAIN f
  BY DEF GraphOK, Typed
<1>1. /\ Typed(g) /\ DOMAIN g = DOMAIN f /\ g[v] = rec
      /\ \A w \in (DOMAIN f) \ {v} : g[w] = f[w]
  <2>1. Written(f, g, v, rec)
    BY <1>0, PutTyped
  <2> HIDE DEF g
  <2> QED BY <1>0, <2>1 DEF Written
<1> HIDE DEF g
<1>2. \A w \in DOMAIN f : Nested(g, w) = Nested(f, w)
  BY <1>1 DEF Nested
<1>3. Edges(g) = Edges(f) /\ SpecificationEdges(g) = SpecificationEdges(f)
  <2>1. Edges(g) = Edges(f)
    BY <1>1, <1>2 DEF Edges
  <2>2. \A w \in DOMAIN f : IsLatest(g, w) <=> IsLatest(f, w)
    BY <1>1 DEF IsLatest
  <2>3. SpecificationEdges(g) = SpecificationEdges(f)
    BY <1>1, <1>2, <2>2 DEF SpecificationEdges
  <2> QED BY <2>1, <2>3
<1>4. /\ Published(f) \subseteq Published(g)
      /\ \A w \in Published(g) : w \in Published(f) \/ (w = v /\ rec.status # "DRAFT")
  BY <1>1 DEF Published
<1>5. Line(g)
  BY <1>1, <1>4 DEF Line, GraphOK
<1>6. Closed(g)
  <2> SUFFICES ASSUME NEW w \in Published(g) PROVE Nested(f, w) \subseteq Published(f)
    BY <1>1, <1>2, <1>4 DEF Closed, Published
  <2>1. CASE w \in Published(f)
    BY <2>1 DEF Closed, GraphOK
  <2>2. CASE w = v /\ rec.status # "DRAFT"
    BY <2>2 DEF PartsOf, Nested
  <2> QED BY <1>4, <2>1, <2>2
<1>7. GraphOK(g)
  BY <1>1, <1>3, <1>5, <1>6 DEF GraphOK, assertPreparationGraphAcyclic
<1> QED BY <1>7 DEF g

(* Copying the latest version, published, into a next one.                 *)
LEMMA NextWritten ==
  ASSUME NEW f, GraphOK(f), NEW u \in Published(f), <<u[1], u[2] + 1>> \in VersionId,
         <<u[1], u[2] + 1>> \notin DOMAIN f,
         NEW rec \in VersionRecord(Parts(f)), rec.status = "DRAFT", rec.nested = f[u].nested
  PROVE  GraphOK(PutIn(f, <<u[1], u[2] + 1>>, rec))
<1> DEFINE v == <<u[1], u[2] + 1>>
           g == PutIn(f, v, rec)
<1>0. Typed(f) /\ u \in DOMAIN f /\ u \in VersionId /\ v \in VersionId /\ v \notin DOMAIN f
  BY DEF GraphOK, Typed, Published
<1>1. /\ Typed(g) /\ DOMAIN g = (DOMAIN f) \cup {v} /\ g[v] = rec
      /\ \A w \in (DOMAIN f) \ {v} : g[w] = f[w]
  <2> HIDE DEF v
  <2>1. Written(f, g, v, rec)
    BY <1>0, PutTyped
  <2> HIDE DEF g
  <2> QED BY <2>1 DEF Written
<1>2. /\ v[1] = u[1] /\ v[2] = u[2] + 1 /\ u[2] \in Nat \ {0}
      /\ \A w \in VersionId : w = <<w[1], w[2]>> /\ w[2] \in Nat \ {0}
  BY <1>0, RecipeAssumption DEF VersionId
<1> HIDE DEF g, v
<1>3. Published(g) = Published(f)
  BY <1>0, <1>1 DEF Published
<1>4. Line(g)
  <2> SUFFICES ASSUME NEW w \in DOMAIN g, NEW n \in 1..(w[2] - 1)
               PROVE  <<w[1], n>> \in Published(f)
    BY <1>3 DEF Line
  <2>1. CASE w \in DOMAIN f
    BY <2>1 DEF Line, GraphOK
  <2>2. CASE w = v
    <3>1. n = u[2] \/ n \in 1..(u[2] - 1)
      BY <1>2, <2>2
    <3>2. CASE n = u[2]
      BY <1>0, <1>2, <2>2, <3>2
    <3>3. CASE n \in 1..(u[2] - 1)
      BY <1>0, <1>2, <2>2, <3>3 DEF Line, GraphOK
    <3> QED BY <3>1, <3>2, <3>3
  <2> QED BY <1>1, <2>1, <2>2
<1>5. Closed(g)
  BY <1>0, <1>1, <1>3 DEF Closed, GraphOK, Nested, Published
(* The copied version was the latest: a later one would have published the *)
(* number in between, which nobody has.                                    *)
<1>6. \A w \in DOMAIN f : w[1] = v[1] => w[2] <= u[2]
  <2> SUFFICES ASSUME NEW w \in DOMAIN f, w[1] = v[1], ~(w[2] <= u[2]) PROVE FALSE
    OBVIOUS
  <2>1. w \in VersionId /\ w[2] \in Nat /\ w = <<w[1], w[2]>>
    BY <1>0, <1>2 DEF Typed
  <2>2. CASE w[2] = u[2] + 1
    BY <1>0, <1>2, <2>1, <2>2 DEF v
  <2>3. CASE u[2] + 1 \in 1..(w[2] - 1)
    <3>1. <<w[1], u[2] + 1>> \in Published(f)
      BY <2>3 DEF Line, GraphOK
    <3> QED BY <1>0, <3>1 DEF v, Published
  <2> QED BY <1>2, <2>1, <2>2, <2>3
<1>7. SpecificationEdges(g) \subseteq SpecificationEdges(f)
  <2> SUFFICES ASSUME NEW e \in SpecificationEdges(g) PROVE e \in SpecificationEdges(f)
    OBVIOUS
  <2>1. PICK x \in DOMAIN g : /\ x[1] = e[1] /\ IsLatest(g, x)
                              /\ \E w \in Nested(g, x) : w[1] = e[2]
    BY DEF SpecificationEdges
  <2>2. e \in Preparation \X Preparation
    BY DEF SpecificationEdges
  <2>3. CASE x = v
    <3>1. IsLatest(f, u) /\ Nested(g, x) = Nested(f, u)
      BY <1>0, <1>1, <1>2, <1>6, <2>3 DEF IsLatest, Nested
    <3> QED BY <1>0, <1>2, <2>1, <2>2, <2>3, <3>1 DEF SpecificationEdges
  <2>4. CASE x \in DOMAIN f
    <3>1. IsLatest(f, x) /\ Nested(g, x) = Nested(f, x)
      BY <1>0, <1>1, <2>1, <2>4 DEF IsLatest, Nested
    <3> QED BY <2>1, <2>2, <2>4, <3>1 DEF SpecificationEdges
  <2> QED BY <1>1, <2>1, <2>3, <2>4
<1>8. assertPreparationGraphAcyclic(g)
  <2>1. assertPreparationGraphAcyclic(f)
    BY DEF GraphOK
  <2> QED BY <1>7, <2>1 DEF assertPreparationGraphAcyclic, Acyclic
<1>9. Acyclic(Edges(g), Published(g))
  <2> SUFFICES ASSUME NEW S \in SUBSET Published(f), S # {}
               PROVE  \E x \in S : \A y \in S : <<x, y>> \notin Edges(g)
    BY <1>3 DEF Acyclic
  <2>1. S \in SUBSET DOMAIN f
    BY DEF Published
  <2>2. PICK x \in S : \A y \in S : <<x, y>> \notin Edges(f)
    BY <2>1 DEF GraphOK, Acyclic
  <2>3. ASSUME NEW y \in S PROVE <<x, y>> \notin Edges(g)
    BY <1>0, <1>1, <2>1, <2>2 DEF Edges, Nested
  <2> QED BY <2>3
<1>10. GraphOK(g)
  BY <1>1, <1>4, <1>5, <1>8, <1>9, AcyclicByLatest DEF GraphOK
<1> QED BY <1>10 DEF g, v

-----------------------------------------------------------------------------
(* The calls *)

Locked(c) == c.step \in {"graph", "write", "commit"}

Writer(c) == c.step \in {"write", "commit"}

Commands(f) ==
  [nested : {N \in SUBSET DOMAIN f : Cardinality(N) <= MaxNested /\ N \subseteq Preparation \X Nat},
   unit : Unit, amount : Amount]

(* What a call is about to commit, by what it checked.                     *)
RowOK(f, c) ==
  \E v \in VersionId, rec \in VersionRecord(Parts(f)) :
    /\ c.row = <<v, rec>>
    /\ \/ /\ c.op \in {"create", "update"} /\ v = c.id
          /\ rec.status = "DRAFT" /\ assertPreparationGraphAcyclic(PutIn(f, v, rec))
       \/ /\ c.op \in {"scale", "publish"} /\ v = c.id /\ rec.nested = f[v].nested
          /\ rec.status = "DRAFT" \/ PartsOf(rec) \subseteq Published(f)
       \/ /\ c.op = "next" /\ v = <<c.id[1], c.id[2] + 1>> /\ v \notin DOMAIN f
          /\ rec.status = "DRAFT" /\ rec.nested = f[c.id].nested

CallOK(f, c) ==
  /\ c.step # "done" => c.op # "none" /\ c.id \in VersionId
  /\ c.step = "row" => c.op # "create"
  /\ c.op = "create" => c.id \notin DOMAIN f /\ c.id[2] = 1 /\ Locked(c)
  /\ c.op \in {"create", "update"} => c.command \in Commands(f)
  /\ c.op \in {"update", "scale", "publish", "next"} => c.id \in DOMAIN f
  /\ c.op = "next" => <<c.id[1], c.id[2] + 1>> \in VersionId
  /\ Locked(c) /\ c.op # "create" =>
       f[c.id].status = (IF c.op = "next" THEN "PUBLISHED" ELSE "DRAFT")
  /\ c.step = "commit" => RowOK(f, c)

CallsOK(f, k) ==
  /\ k \in [Session -> CallRecord]
  /\ \A s \in Session : CallOK(f, k[s])
  /\ \A s, t \in Session : s # t =>
       /\ ~(Writer(k[s]) /\ Writer(k[t]))
       /\ Locked(k[s]) /\ Locked(k[t]) => k[s].id # k[t].id

RecipeInv == GraphOK(version) /\ CallsOK(version, call) /\ calls \in 0..MaxCalls

LEMMA IdleOK == \A f : CallOK(f, Idle) /\ Idle \in CallRecord /\ ~Locked(Idle) /\ ~Writer(Idle)
BY DEF CallOK, Idle, CallRecord, Locked, Writer

(* A session's call goes on, and the others do not notice.                 *)
LEMMA OwnCallStep ==
  ASSUME NEW f, NEW k, CallsOK(f, k), NEW s \in Session,
         NEW c \in CallRecord, CallOK(f, c),
         \A t \in Session \ {s} : /\ ~(Writer(c) /\ Writer(k[t]))
                                  /\ Locked(c) /\ Locked(k[t]) => c.id # k[t].id
  PROVE  CallsOK(f, [k EXCEPT ![s] = c])
<1> DEFINE l == [k EXCEPT ![s] = c]
<1>1. /\ l \in [Session -> CallRecord] /\ l[s] = c
      /\ \A t \in Session \ {s} : l[t] = k[t]
  BY DEF CallsOK
<1> HIDE DEF l
<1>2. \A t \in Session : CallOK(f, l[t])
  BY <1>1 DEF CallsOK
<1>3. \A t, u \in Session : t # u =>
        /\ ~(Writer(l[t]) /\ Writer(l[u]))
        /\ Locked(l[t]) /\ Locked(l[u]) => l[t].id # l[u].id
  BY <1>1 DEF CallsOK
<1> QED BY <1>1, <1>2, <1>3 DEF CallsOK, l

LEMMA ReturnStep ==
  ASSUME RecipeInv, NEW s \in Session, Return(s), UNCHANGED <<version, calls>>
  PROVE  RecipeInv'
<1>1. CallsOK(version, [call EXCEPT ![s] = Idle])
  BY IdleOK, OwnCallStep DEF RecipeInv
<1>2. version' = version /\ calls' = calls /\ call' = [call EXCEPT ![s] = Idle]
  BY DEF Return
<1> QED BY <1>1, <1>2 DEF RecipeInv

(* The commit of a row changes the graph as the lemmas above allow, and    *)
(* nothing that another call holds.                                        *)
LEMMA CommitStep ==
  ASSUME RecipeInv, NEW s \in Session, Commit(s)
  PROVE  /\ RecipeInv'
         /\ \A v \in Published(version) : v \in DOMAIN version' /\ version'[v] = version[v]
<1> DEFINE f == version
           c == call[s]
<1>1. c.step = "commit" /\ GraphOK(f) /\ CallsOK(f, call) /\ CallOK(f, c)
  BY DEF Commit, RecipeInv, CallsOK
<1>2. PICK v \in VersionId, rec \in VersionRecord(Parts(f)) :
        /\ c.row = <<v, rec>>
        /\ \/ /\ c.op \in {"create", "update"} /\ v = c.id
              /\ rec.status = "DRAFT" /\ assertPreparationGraphAcyclic(PutIn(f, v, rec))
           \/ /\ c.op \in {"scale", "publish"} /\ v = c.id /\ rec.nested = f[v].nested
              /\ rec.status = "DRAFT" \/ PartsOf(rec) \subseteq Published(f)
           \/ /\ c.op = "next" /\ v = <<c.id[1], c.id[2] + 1>> /\ v \notin DOMAIN f
              /\ rec.status = "DRAFT" /\ rec.nested = f[c.id].nested
  BY <1>1 DEF CallOK, RowOK
<1> DEFINE g == PutIn(f, v, rec)
<1>3. version' = g /\ call' = [call EXCEPT ![s] = Idle] /\ calls' = calls
  BY <1>2 DEF Commit, Put, PutIn, Return
<1>4. /\ c.op # "none" /\ c.id \in VersionId
      /\ c.op = "create" => c.id \notin DOMAIN f /\ c.id[2] = 1
      /\ c.op \in {"update", "scale", "publish"} => c.id \in DOMAIN f /\ f[c.id].status = "DRAFT"
      /\ c.op = "next" => c.id \in Published(f)
  BY <1>1 DEF CallOK, Locked, Published
<1>5. GraphOK(g)
  <2> HIDE DEF c, f, g
  <2>1. CASE c.op \in {"create", "update"}
    BY <1>1, <1>2, <1>4, <2>1, DraftWritten DEF g
  <2>2. CASE c.op \in {"scale", "publish"}
    BY <1>1, <1>2, <1>4, <2>2, PartsKept DEF g
  <2>3. CASE c.op = "next"
    BY <1>1, <1>2, <1>4, <2>3, NextWritten DEF g
  <2> QED BY <1>2, <2>1, <2>2, <2>3
<1>6. /\ DOMAIN g = (DOMAIN f) \cup {v}
      /\ \A w \in (DOMAIN f) \ {v} : g[w] = f[w]
  BY DEF PutIn
<1>7. v \in DOMAIN f => v = c.id /\ f[v].status = "DRAFT"
  BY <1>2, <1>4
<1>8. ASSUME NEW t \in Session, t # s PROVE CallOK(g, call[t])
  <2> DEFINE d == call[t]
  <2>1. /\ CallOK(f, d) /\ ~Writer(d)
        /\ Locked(d) => d.id # c.id
    BY <1>1, <1>8 DEF CallsOK, Writer, Locked
  <2>2. Commands(f) \subseteq Commands(g)
    BY <1>6 DEF Commands
  <2>3. d.op = "create" => d.id \notin DOMAIN g
    <3>1. CASE c.op = "next"
      <4>1. v[2] # 1
        BY <1>2, <1>4, <3>1, RecipeAssumption DEF VersionId
      <4> QED BY <1>6, <2>1, <4>1 DEF CallOK
    <3>2. CASE c.op # "next"
      BY <1>2, <1>6, <2>1, <3>2 DEF CallOK
    <3> QED BY <3>1, <3>2
  <2>4. Locked(d) /\ d.op # "create" => d.id \in DOMAIN f /\ g[d.id] = f[d.id]
    <3> SUFFICES ASSUME Locked(d), d.op # "create" PROVE d.id \in DOMAIN f /\ g[d.id] = f[d.id]
      OBVIOUS
    <3>1. d.op \in {"update", "scale", "publish", "next"}
      <4>1. d \in CallRecord
        BY <1>1 DEF CallsOK
      <4> QED BY <2>1, <4>1 DEF CallOK, Locked, CallRecord
    <3>2. d.id \in DOMAIN f /\ d.id # c.id
      BY <2>1, <3>1 DEF CallOK
    <3> QED BY <1>6, <1>7, <3>2
  <2>5. d.op \in {"update", "scale", "publish", "next"} => d.id \in DOMAIN g
    BY <1>6, <2>1 DEF CallOK
  <2>6. d.op \in {"create", "update"} => d.command \in Commands(g)
    BY <2>1, <2>2 DEF CallOK
  <2>7. d.step # "commit"
    BY <2>1 DEF Writer
  <2> HIDE DEF g, f, d
  <2>8. CallOK(g, d)
    BY <2>1, <2>3, <2>4, <2>5, <2>6, <2>7 DEF CallOK
  <2> QED BY <2>8 DEF d
<1>9. CallsOK(g, [call EXCEPT ![s] = Idle])
  <2> DEFINE l == [call EXCEPT ![s] = Idle]
  <2>1. /\ l \in [Session -> CallRecord] /\ l[s] = Idle
        /\ \A t \in Session \ {s} : l[t] = call[t]
    BY <1>1, IdleOK DEF CallsOK
  <2> HIDE DEF l, g
  <2>2. \A t \in Session : CallOK(g, l[t])
    BY <1>8, <2>1, IdleOK
  <2>3. \A t, u \in Session : t # u =>
          /\ ~(Writer(l[t]) /\ Writer(l[u]))
          /\ Locked(l[t]) /\ Locked(l[u]) => l[t].id # l[u].id
    BY <1>1, <2>1, IdleOK DEF CallsOK
  <2> QED BY <2>1, <2>2, <2>3 DEF CallsOK, l
<1>10. \A w \in Published(f) : w \in DOMAIN g /\ g[w] = f[w]
  BY <1>6, <1>7 DEF Published
<1> HIDE DEF g
<1> QED BY <1>3, <1>5, <1>9, <1>10 DEF RecipeInv

(* Any other step of a session leaves the graph alone.                     *)
LEMMA CallMoves ==
  ASSUME RecipeInv, NEW s \in Session, NEW c \in CallRecord, CallOK(version, c),
         call' = [call EXCEPT ![s] = c], version' = version, calls' \in 0..MaxCalls,
         \A t \in Session \ {s} : /\ ~(Writer(c) /\ Writer(call[t]))
                                  /\ Locked(c) /\ Locked(call[t]) => c.id # call[t].id
  PROVE  RecipeInv'
<1>1. CallsOK(version, [call EXCEPT ![s] = c])
  BY OwnCallStep DEF RecipeInv
<1> QED BY <1>1 DEF RecipeInv

LEMMA InvFacts ==
  ASSUME RecipeInv, NEW s \in Session
  PROVE  /\ call[s] \in CallRecord /\ CallOK(version, call[s]) /\ Typed(version)
         /\ call \in [Session -> CallRecord]
BY DEF RecipeInv, CallsOK, GraphOK

-----------------------------------------------------------------------------
(* Commands begin *)

LEMMA BeginStep ==
  ASSUME RecipeInv, NEW s \in Session, NEW op \in {"create", "update", "scale", "publish", "next"},
         NEW v \in VersionId, NEW command, NEW step \in {"row", "graph"},
         command \in Commands(version) \/ (command = NoCommand /\ op \notin {"create", "update"}),
         IF op = "create"
           THEN /\ step = "graph" /\ v \notin DOMAIN version /\ v[2] = 1
                /\ \A t \in Session : call[t].id # v
           ELSE step = "row" /\ v \in DOMAIN version,
         op = "next" => <<v[1], v[2] + 1>> \in VersionId,
         Begin(s, op, step, v, command)
  PROVE  RecipeInv'
<1> DEFINE c == [op |-> op, step |-> step, id |-> v, command |-> command, row |-> <<>>]
<1>1. call' = [call EXCEPT ![s] = c]
  BY DEF Begin
<1>2. version' = version /\ calls' \in 0..MaxCalls
  BY RecipeAssumption DEF Begin, RecipeInv
<1>3. command \in [nested : SUBSET VersionId, unit : Unit, amount : Amount] \cup {NoCommand}
  BY DEF Commands, RecipeInv, GraphOK, Typed
<1>4. c \in CallRecord
  BY <1>3 DEF CallRecord
<1>5. CallOK(version, c) /\ ~Writer(c)
  BY DEF CallOK, Locked, Writer
<1>6. \A t \in Session \ {s} : Locked(c) /\ Locked(call[t]) => c.id # call[t].id
  BY DEF Locked
<1> HIDE DEF c
<1> QED BY <1>1, <1>2, <1>4, <1>5, <1>6, CallMoves

LEMMA StartStep ==
  ASSUME RecipeInv, NEW s \in Session,
         \/ StartCreate(s) \/ StartUpdate(s) \/ StartScale(s) \/ StartPublish(s) \/ StartNext(s)
  PROVE  RecipeInv'
<1>1. DOMAIN version \subseteq VersionId /\ Command = Commands(version)
  BY DEF RecipeInv, GraphOK, Typed, Command, Commands
<1>2. CASE StartCreate(s)
  <2>1. PICK p \in Specification, command \in Command :
          /\ \A v \in DOMAIN version : v[1] # p
          /\ \A t \in Session : call[t].id # <<p, 1>>
          /\ Begin(s, "create", "graph", <<p, 1>>, command)
    BY <1>2 DEF StartCreate
  <2> DEFINE v == <<p, 1>>
  <2>2. v \in VersionId /\ v[1] = p /\ v[2] = 1
    BY RecipeAssumption DEF VersionId
  <2>3. v \notin DOMAIN version
    BY <2>1, <2>2
  <2> HIDE DEF v
  <2> QED BY <1>1, <2>1, <2>2, <2>3, BeginStep DEF v
<1>3. CASE StartUpdate(s)
  BY <1>1, <1>3, BeginStep DEF StartUpdate
<1>4. CASE StartScale(s)
  BY <1>1, <1>4, BeginStep DEF StartScale
<1>5. CASE StartPublish(s)
  BY <1>1, <1>5, BeginStep DEF StartPublish
<1>6. CASE StartNext(s)
  <2>1. PICK v \in DOMAIN version : v[2] < MaxVersions /\ Begin(s, "next", "row", v, NoCommand)
    BY <1>6 DEF StartNext
  <2>2. v \in VersionId /\ <<v[1], v[2] + 1>> \in VersionId
    BY <1>1, <2>1, RecipeAssumption DEF VersionId
  <2> QED BY <2>1, <2>2, BeginStep
<1> QED BY <1>2, <1>3, <1>4, <1>5, <1>6

-----------------------------------------------------------------------------
(* Locks *)

LEMMA GoToIs ==
  ASSUME NEW s \in Session, NEW step, call \in [Session -> CallRecord], GoTo(s, step)
  PROVE  call' = [call EXCEPT ![s] = [op |-> call[s].op, step |-> step, id |-> call[s].id,
                                      command |-> call[s].command, row |-> call[s].row]]
<1> DEFINE b == call[s]
           c == [op |-> b.op, step |-> step, id |-> b.id, command |-> b.command, row |-> b.row]
<1>1. call' = [call EXCEPT ![s] = [b EXCEPT !.step = step]]
  BY DEF GoTo
<1>2. [b EXCEPT !.step = step] = c
  BY DEF CallRecord
<1> HIDE DEF c
<1>3. call' = [call EXCEPT ![s] = c]
  BY <1>1, <1>2
<1> QED BY <1>3 DEF c

LEMMA LockRowStep ==
  ASSUME RecipeInv, NEW s \in Session, LockRow(s)
  PROVE  RecipeInv'
<1> DEFINE b == call[s]
           c == [op |-> b.op, step |-> "graph", id |-> b.id, command |-> b.command, row |-> b.row]
<1>1. /\ b \in CallRecord /\ CallOK(version, b) /\ b.step = "row"
      /\ version' = version /\ calls' = calls /\ calls' \in 0..MaxCalls
  BY InvFacts DEF LockRow, RecipeInv
<1>2. CASE ~RightStatus(call[s])
  BY <1>1, <1>2, ReturnStep DEF LockRow
<1>3. CASE RightStatus(call[s])
  <2>1. call' = [call EXCEPT ![s] = c]
    BY <1>3, GoToIs, InvFacts DEF LockRow
  <2>2. b.op \in {"update", "scale", "publish", "next"} /\ b.id \in DOMAIN version
    BY <1>1 DEF CallOK, CallRecord
  <2>3. c \in CallRecord
    BY <1>1 DEF CallRecord
  <2>4. CallOK(version, c) /\ ~Writer(c)
    BY <1>1, <1>3, <2>2 DEF CallOK, RightStatus, Locked, Writer
  <2>5. \A t \in Session \ {s} : Locked(call[t]) => c.id # call[t].id
    BY <2>2 DEF LockRow, RowFree, KeepsRow, Holds, Locked
  <2> HIDE DEF c
  <2> QED BY <1>1, <2>1, <2>3, <2>4, <2>5, CallMoves
<1> QED BY <1>2, <1>3

LEMMA LockGraphStep ==
  ASSUME RecipeInv, NEW s \in Session, LockGraph(s)
  PROVE  RecipeInv'
<1> DEFINE b == call[s]
           c == [op |-> b.op, step |-> "write", id |-> b.id, command |-> b.command, row |-> b.row]
<1>1. /\ b \in CallRecord /\ CallOK(version, b) /\ b.step = "graph"
      /\ version' = version /\ calls' = calls /\ calls' \in 0..MaxCalls
  BY InvFacts DEF LockGraph, RecipeInv
<1>2. call' = [call EXCEPT ![s] = c]
  BY GoToIs, InvFacts DEF LockGraph
<1>3. c \in CallRecord
  BY <1>1 DEF CallRecord
<1>4. CallOK(version, c)
  BY <1>1 DEF CallOK, Locked
<1>5. \A t \in Session \ {s} : ~Writer(call[t]) /\ (Locked(call[t]) => c.id # call[t].id)
  BY <1>1 DEF LockGraph, lockTenantRecipeGraph, WaitsForGraph, Writer, Locked, RecipeInv, CallsOK
<1> HIDE DEF c
<1> QED BY <1>1, <1>2, <1>3, <1>4, <1>5, CallMoves

-----------------------------------------------------------------------------
(* Writes *)

(* What is written passed the checks that the commit relies on.            *)
LEMMA WriteStep ==
  ASSUME RecipeInv, NEW s \in Session, call[s].step = "write", NEW ok \in BOOLEAN,
         NEW v \in VersionId, NEW rec \in VersionRecord(Parts(version)),
         ok => RowOK(version, [call[s] EXCEPT !.row = <<v, rec>>]),
         WriteIf(ok, s, v, rec)
  PROVE  RecipeInv'
<1> DEFINE b == call[s]
           c == [op |-> b.op, step |-> "commit", id |-> b.id, command |-> b.command,
                 row |-> <<v, rec>>]
<1>1. /\ b \in CallRecord /\ CallOK(version, b) /\ call \in [Session -> CallRecord]
      /\ version' = version /\ calls' = calls /\ calls' \in 0..MaxCalls
  BY InvFacts DEF WriteIf, RecipeInv
<1>2. CASE ~ok
  BY <1>1, <1>2, ReturnStep DEF WriteIf
<1>3. CASE ok
  <2>1. call' = [call EXCEPT ![s] = c]
    BY <1>1, <1>3 DEF WriteIf, CallRecord
  <2>2. c \in CallRecord
    <3>1. VersionRecord(Parts(version)) \subseteq VersionRecord(VersionId)
      BY DEF VersionRecord, Parts, RecipeInv, GraphOK, Typed
    <3> QED BY <1>1, <3>1 DEF CallRecord
  <2>3. RowOK(version, c)
    BY <1>1, <1>3 DEF RowOK, CallRecord
  <2>4. CallOK(version, c)
    BY <1>1, <2>3 DEF CallOK, Locked
  <2>5. \A t \in Session \ {s} : ~Writer(call[t]) /\ (Locked(call[t]) => c.id # call[t].id)
    BY <1>1 DEF Writer, Locked, RecipeInv, CallsOK
  <2> HIDE DEF c
  <2> QED BY <1>1, <2>1, <2>2, <2>4, <2>5, CallMoves
<1> QED BY <1>2, <1>3

(* Components of a command make a record of versions that exist.           *)
LEMMA DraftTyped ==
  ASSUME Typed(version), NEW command \in Commands(version)
  PROVE  Draft(command) \in VersionRecord(Parts(version))
<1>1. command.nested \subseteq Parts(version) /\ command.unit \in Unit /\ command.amount \in 1..MaxAmount
  BY RecipeAssumption DEF Commands, Parts
<1>2. \A v \in Parts(version) : version[v].unit \in Unit
  BY DEF Parts, Typed, VersionRecord
<1>3. Components(command.nested) \in SUBSET (Parts(version) \X Unit)
  BY <1>1, <1>2 DEF Components
<1> QED BY <1>1, <1>3 DEF Draft, VersionRecord

LEMMA PutIsPutIn == \A v, rec : Put(v, rec) = PutIn(version, v, rec)
BY DEF Put, PutIn

LEMMA WriterFacts ==
  ASSUME RecipeInv, NEW s \in Session, NEW op, HasLocks(s, op)
  PROVE  /\ call[s] \in CallRecord /\ CallOK(version, call[s]) /\ Typed(version)
         /\ call[s].step = "write" /\ call[s].op = op /\ call[s].id \in VersionId
BY InvFacts DEF HasLocks, CallOK

LEMMA CreateDraftStep ==
  ASSUME RecipeInv, NEW s \in Session, CreateDraft(s)
  PROVE  RecipeInv'
<1> DEFINE v == call[s].id
           rec == Draft(call[s].command)
           ok == assertPreparationGraphAcyclic(Put(v, rec))
<1>1. /\ call[s] \in CallRecord /\ CallOK(version, call[s]) /\ Typed(version)
      /\ call[s].step = "write" /\ call[s].op = "create" /\ v \in VersionId
  BY WriterFacts DEF CreateDraft
<1>2. WriteIf(ok, s, v, rec) /\ ok \in BOOLEAN
  BY DEF CreateDraft, assertPreparationGraphAcyclic, Acyclic
<1>3. rec \in VersionRecord(Parts(version)) /\ rec.status = "DRAFT"
  BY <1>1, DraftTyped DEF CallOK, Draft
<1>4. ok => RowOK(version, [call[s] EXCEPT !.row = <<v, rec>>])
  <2>1. PutIn(version, v, rec) = Put(v, rec)
    BY PutIsPutIn
  <2> HIDE DEF rec
  <2> QED BY <1>1, <1>3, <2>1 DEF RowOK, CallRecord
<1> HIDE DEF ok, rec
<1> QED BY <1>1, <1>2, <1>3, <1>4, WriteStep

LEMMA UpdateDraftStep ==
  ASSUME RecipeInv, NEW s \in Session, UpdateDraft(s)
  PROVE  RecipeInv'
<1> DEFINE v == call[s].id
           new == Draft(call[s].command)
<1>1. /\ call[s] \in CallRecord /\ CallOK(version, call[s]) /\ Typed(version)
      /\ call[s].step = "write" /\ call[s].op = "update" /\ v \in VersionId
  BY WriterFacts DEF UpdateDraft
<1>2. PICK rec \in Overrides(version[v], new) :
        WriteIf(assertPreparationGraphAcyclic(Put(v, rec)), s, v, rec)
  BY DEF UpdateDraft
<1> DEFINE ok == assertPreparationGraphAcyclic(Put(v, rec))
<1>3. new \in VersionRecord(Parts(version)) /\ version[v] \in VersionRecord(Parts(version))
  BY <1>1, DraftTyped DEF CallOK, Typed
<1>4. rec \in VersionRecord(Parts(version)) /\ rec.status = "DRAFT"
  <2> HIDE DEF new
  <2> QED BY <1>2, <1>3 DEF Overrides, VersionRecord
<1>5. ok => RowOK(version, [call[s] EXCEPT !.row = <<v, rec>>])
  <2>1. PutIn(version, v, rec) = Put(v, rec)
    BY PutIsPutIn
  <2> QED BY <1>1, <1>4, <2>1 DEF RowOK, CallRecord
<1>6. ok \in BOOLEAN
  BY DEF assertPreparationGraphAcyclic, Acyclic
<1> HIDE DEF ok
<1> QED BY <1>1, <1>2, <1>4, <1>5, <1>6, WriteStep DEF ok

LEMMA ScaleRecipeStep ==
  ASSUME RecipeInv, NEW s \in Session, ScaleRecipe(s)
  PROVE  RecipeInv'
<1> DEFINE v == call[s].id
           ok == MeasuresMatch(version[v].nested) /\ assertPreparationGraphAcyclic(version)
<1>1. /\ call[s] \in CallRecord /\ CallOK(version, call[s]) /\ Typed(version)
      /\ call[s].step = "write" /\ call[s].op = "scale" /\ v \in VersionId
  BY WriterFacts DEF ScaleRecipe
<1>2. PICK amount \in 1..MaxAmount : WriteIf(ok, s, v, [version[v] EXCEPT !.amount = amount])
  BY DEF ScaleRecipe
<1> DEFINE rec == [version[v] EXCEPT !.amount = amount]
<1>3. version[v] \in VersionRecord(Parts(version)) /\ version[v].status = "DRAFT"
  BY <1>1 DEF CallOK, Typed, Locked
<1>4. rec \in VersionRecord(Parts(version)) /\ rec.status = "DRAFT" /\ rec.nested = version[v].nested
  BY <1>3 DEF VersionRecord
<1>5. RowOK(version, [call[s] EXCEPT !.row = <<v, rec>>])
  <2> HIDE DEF rec
  <2> QED BY <1>1, <1>4 DEF RowOK, CallRecord
<1>6. ok \in BOOLEAN
  OBVIOUS
<1> HIDE DEF ok, rec
<1> QED BY <1>1, <1>2, <1>4, <1>5, <1>6, WriteStep DEF rec

(* What is nested directly is reachable.                                   *)
LEMMA PublishStep ==
  ASSUME RecipeInv, NEW s \in Session, Publish(s)
  PROVE  RecipeInv'
<1> DEFINE v == call[s].id
           rec == [version[v] EXCEPT !.status = "PUBLISHED"]
           ok == ReachablePublished(version, v) /\ assertPreparationGraphAcyclic(version)
<1>1. /\ call[s] \in CallRecord /\ CallOK(version, call[s]) /\ Typed(version)
      /\ call[s].step = "write" /\ call[s].op = "publish" /\ v \in VersionId
  BY WriterFacts DEF Publish
<1>2. WriteIf(ok, s, v, rec) /\ ok \in BOOLEAN
  BY DEF Publish
<1>3. v \in DOMAIN version /\ version[v] \in VersionRecord(Parts(version))
  BY <1>1 DEF CallOK, Typed
<1>4. rec \in VersionRecord(Parts(version)) /\ rec.nested = version[v].nested
  BY <1>3 DEF VersionRecord
<1>5. ok => PartsOf(rec) \subseteq Published(version)
  <2>1. Nested(version, v) \subseteq DOMAIN version
    BY <1>1, <1>3, NestedIsPart
  <2>2. Nested(version, v) \subseteq Reachable(version, Nested(version, v))
    BY <2>1 DEF Reachable
  <2>3. PartsOf(rec) = Nested(version, v)
    BY <1>4 DEF PartsOf, Nested
  <2> QED BY <2>2, <2>3 DEF ReachablePublished
<1>6. ok => RowOK(version, [call[s] EXCEPT !.row = <<v, rec>>])
  <2> HIDE DEF rec, ok
  <2> QED BY <1>1, <1>4, <1>5 DEF RowOK, CallRecord
<1> HIDE DEF ok, rec
<1> QED BY <1>1, <1>2, <1>4, <1>6, WriteStep

LEMMA CreateNextStep ==
  ASSUME RecipeInv, NEW s \in Session, CreateNext(s)
  PROVE  RecipeInv'
<1> DEFINE u == call[s].id
           v == <<u[1], u[2] + 1>>
           rec == [version[u] EXCEPT !.status = "DRAFT"]
           ok == v \notin DOMAIN version
<1>1. /\ call[s] \in CallRecord /\ CallOK(version, call[s]) /\ Typed(version)
      /\ call[s].step = "write" /\ call[s].op = "next" /\ u \in VersionId
  BY WriterFacts DEF CreateNext
<1>2. WriteIf(ok, s, v, rec) /\ ok \in BOOLEAN
  BY DEF CreateNext
<1>3. u \in DOMAIN version /\ version[u] \in VersionRecord(Parts(version)) /\ v \in VersionId
  BY <1>1 DEF CallOK, Typed
<1>4. rec \in VersionRecord(Parts(version)) /\ rec.status = "DRAFT" /\ rec.nested = version[u].nested
  BY <1>3 DEF VersionRecord
<1>5. ok => RowOK(version, [call[s] EXCEPT !.row = <<v, rec>>])
  <2> HIDE DEF rec
  <2> QED BY <1>1, <1>3, <1>4 DEF RowOK, CallRecord
<1> HIDE DEF ok, rec, v
<1> QED BY <1>1, <1>2, <1>3, <1>4, <1>5, WriteStep

-----------------------------------------------------------------------------
(* The invariant *)

LEMMA InitOK == Init => RecipeInv
<1> SUFFICES ASSUME Init PROVE RecipeInv
  OBVIOUS
<1>1. DOMAIN version = {}
  BY DEF Init
<1>2. Typed(version)
  BY <1>1 DEF Init, Typed
<1>3. Line(version) /\ Closed(version) /\ Acyclic(Edges(version), DOMAIN version)
  BY <1>1 DEF Line, Closed, Published, Acyclic
<1>4. assertPreparationGraphAcyclic(version)
  BY <1>1 DEF assertPreparationGraphAcyclic, SpecificationEdges, Acyclic
<1>5. CallsOK(version, call)
  BY IdleOK DEF CallsOK, Init
<1>6. calls \in 0..MaxCalls
  BY RecipeAssumption DEF Init
<1> QED BY <1>2, <1>3, <1>4, <1>5, <1>6 DEF RecipeInv, GraphOK

PublishedStay == \A v \in Published(version) : v \in DOMAIN version' /\ version'[v] = version[v]

LEMMA Inductive == RecipeInv /\ [Next]_vars => RecipeInv' /\ PublishedStay
<1> SUFFICES ASSUME RecipeInv, [Next]_vars PROVE RecipeInv' /\ PublishedStay
  OBVIOUS
<1>1. ASSUME version' = version PROVE PublishedStay
  BY <1>1 DEF PublishedStay, Published
<1>2. CASE UNCHANGED vars
  BY <1>1, <1>2 DEF vars, RecipeInv
<1>3. ASSUME NEW s \in Session,
             \/ StartCreate(s) \/ StartUpdate(s) \/ StartScale(s) \/ StartPublish(s) \/ StartNext(s)
      PROVE  RecipeInv' /\ PublishedStay
  <2>1. version' = version
    BY <1>3 DEF StartCreate, StartUpdate, StartScale, StartPublish, StartNext, Begin
  <2> QED BY <1>1, <1>3, <2>1, StartStep
<1>4. ASSUME NEW s \in Session, LockRow(s) \/ LockGraph(s)
      PROVE  RecipeInv' /\ PublishedStay
  BY <1>1, <1>4, LockRowStep, LockGraphStep DEF LockRow, LockGraph
<1>5. ASSUME NEW s \in Session,
             \/ CreateDraft(s) \/ UpdateDraft(s) \/ ScaleRecipe(s) \/ Publish(s) \/ CreateNext(s)
      PROVE  RecipeInv' /\ PublishedStay
  <2>1. version' = version
    BY <1>5 DEF CreateDraft, UpdateDraft, ScaleRecipe, Publish, CreateNext, WriteIf
  <2> QED BY <1>1, <1>5, <2>1, CreateDraftStep, UpdateDraftStep, ScaleRecipeStep, PublishStep,
             CreateNextStep
<1>6. ASSUME NEW s \in Session, Commit(s) PROVE RecipeInv' /\ PublishedStay
  BY <1>6, CommitStep DEF PublishedStay
<1>7. ASSUME NEW s \in Session, DeadlockAbort(s) \/ Rollback(s)
      PROVE  RecipeInv' /\ PublishedStay
  BY <1>1, <1>7, ReturnStep DEF DeadlockAbort, Rollback
<1> QED BY <1>2, <1>3, <1>4, <1>5, <1>6, <1>7 DEF Next, CallStep

LEMMA InvImplies == RecipeInv => TypeOK /\ CompositionAcyclic /\ PublishedIsClosed /\ OneDraft
<1> SUFFICES ASSUME RecipeInv PROVE TypeOK /\ CompositionAcyclic /\ PublishedIsClosed /\ OneDraft
  OBVIOUS
<1>1. TypeOK
  <2>1. ASSUME NEW s \in Session
        PROVE  LET c == call[s] IN
               /\ c.op \in {"create", "update"} => c.command \in Command
               /\ c.op \in {"update", "scale", "publish", "next"} => c.id \in DOMAIN version
               /\ c.op = "create" => c.id \notin DOMAIN version
               /\ c.step \in {"graph", "write", "commit"} /\ c.op # "create" => RightStatus(c)
    <3>1. CallOK(version, call[s]) /\ Command = Commands(version)
      BY DEF RecipeInv, CallsOK, Command, Commands
    <3> QED BY <3>1 DEF CallOK, Locked, RightStatus
  <2>2. call \in [Session -> CallRecord] /\ calls \in 0..MaxCalls
    BY DEF RecipeInv, CallsOK
  <2>3. /\ DOMAIN version \subseteq VersionId
        /\ version \in [DOMAIN version -> VersionRecord(DOMAIN version \cap (Preparation \X Nat))]
    BY DEF RecipeInv, GraphOK, Typed, Parts
  <2> QED BY <2>1, <2>2, <2>3 DEF TypeOK
<1>2. CompositionAcyclic /\ PublishedIsClosed
  BY DEF RecipeInv, GraphOK, Edges, CompositionEdges, CompositionAcyclic, PublishedIsClosed, Closed
<1>3. OneDraft
  BY DEF RecipeInv, GraphOK, Line, OneDraft
<1> QED BY <1>1, <1>2, <1>3

(* Every behaviour of the commands keeps the invariant.                    *)
LEMMA AlwaysInv == Spec => []RecipeInv
<1>1. RecipeInv /\ [Next]_vars => RecipeInv'
  BY Inductive
<1> QED BY <1>1, InitOK, PTL DEF Spec

(* The versions and the calls always have their types, and a command that  *)
(* holds a row still finds the status it looked at.                        *)
THEOREM RecipeTypeOK == Spec => []TypeOK
BY AlwaysInv, InvImplies, PTL

(* Whatever is edited at the same time, no version becomes part of itself. *)
THEOREM RecipesStayAcyclic == Spec => []CompositionAcyclic
BY AlwaysInv, InvImplies, PTL

(* Everything a published version is made of is published.                 *)
THEOREM PublishedStaysClosed == Spec => []PublishedIsClosed
BY AlwaysInv, InvImplies, PTL

(* A specification has at most one draft, its latest version.              *)
THEOREM OneDraftAtATime == Spec => []OneDraft
BY AlwaysInv, InvImplies, PTL

(* No command changes what is published.                                   *)
THEOREM PublishedStays == Spec => PublishedIsImmutable
<1>1. RecipeInv /\ [Next]_vars =>
        [\A v \in Published(version) : v \in DOMAIN version' /\ version'[v] = version[v]]_vars
  BY Inductive DEF PublishedStay
<1> QED BY <1>1, AlwaysInv, PTL DEF Spec, PublishedIsImmutable


-----------------------------------------------------------------------------
(* Waiting *)

(* A circle of waiting goes through the holder of the tenant lock, which   *)
(* is one, waits for rows only, and only for those who wait for it.        *)
LEMMA CircleOfTwo == RecipeInv => DeadlocksAreOfTwo
<1> SUFFICES ASSUME RecipeInv, NEW S \in SUBSET Session, S # {},
                    \A s \in S : \E t \in S : WaitsFor(s, t)
             PROVE  \E s, t \in S : t \in Blockers(s) /\ WaitsForGraph(t, s)
  BY DEF DeadlocksAreOfTwo
<1>1. \A s \in S, t \in Session : call[s].step = "graph" /\ WaitsFor(s, t) => Writer(call[t])
  BY DEF WaitsFor, WaitsForGraph, Blockers, Writer
<1>2. PICK h \in S : Writer(call[h])
  <2>1. PICK s \in S, t \in S : WaitsFor(s, t)
    OBVIOUS
  <2>2. CASE call[s].step = "row" /\ KeepsRow(t, call[s].id)
    <3>1. Locked(call[t])
      BY <2>2 DEF KeepsRow, Holds, Locked
    <3>2. CASE call[t].step = "graph"
      BY <1>1, <3>2
    <3> QED BY <3>1, <3>2 DEF Locked, Writer
  <2>3. CASE WaitsForGraph(s, t)
    BY <2>3 DEF WaitsForGraph, Writer
  <2>4. CASE t \in Blockers(s)
    BY <2>4 DEF Blockers, Writer
  <2> QED BY <2>1, <2>2, <2>3, <2>4 DEF WaitsFor
<1>3. PICK t \in S : WaitsFor(h, t)
  OBVIOUS
<1>4. t \in Blockers(h)
  BY <1>2, <1>3 DEF WaitsFor, WaitsForGraph, Writer
<1>5. t # h /\ Locked(call[t]) /\ call[h].step = "write"
  BY <1>4 DEF Blockers, Holds, Locked
<1>6. call[t].step = "graph"
  BY <1>2, <1>5 DEF RecipeInv, CallsOK, Locked, Writer
<1>7. WaitsForGraph(t, h)
  BY <1>5, <1>6 DEF WaitsForGraph
<1> QED BY <1>4, <1>7

(* However many commands run, all that can make them stand still is two of *)
(* them that PostgreSQL sees waiting for each other.                       *)
THEOREM RecipeDeadlocksAreOfTwo == Spec => []DeadlocksAreOfTwo
BY AlwaysInv, CircleOfTwo, PTL


-----------------------------------------------------------------------------
(* What is below a version *)

Below(f, v) == Reachable(f, {v})

LEMMA BelowFacts ==
  ASSUME NEW f, Typed(f), NEW v \in DOMAIN f
  PROVE  /\ v \in Below(f, v) /\ Below(f, v) \subseteq DOMAIN f
         /\ \A w \in Below(f, v) : Nested(f, w) \subseteq Below(f, v) /\ Below(f, w) \subseteq Below(f, v)
<1> DEFINE closed(Q) == \A w \in Q : Nested(f, w) \subseteq Q
<1>1. \A w : Below(f, w) = {u \in DOMAIN f : \A Q \in SUBSET DOMAIN f : w \in Q /\ closed(Q) => u \in Q}
  BY DEF Below, Reachable
<1>2. v \in Below(f, v) /\ Below(f, v) \subseteq DOMAIN f
  BY <1>1
<1>3. \A w \in Below(f, v) : Nested(f, w) \subseteq Below(f, v)
  BY <1>1, NestedIsPart
<1>4. closed(Below(f, v))
  BY <1>3
<1>5. \A w \in Below(f, v) : Below(f, w) \subseteq Below(f, v)
  BY <1>1, <1>2, <1>4
<1> QED BY <1>2, <1>3, <1>5

(* What nests something is not below it, or the two were a cycle.          *)
LEMMA NotBelowItsParts ==
  ASSUME NEW f, Typed(f), Acyclic(Edges(f), DOMAIN f),
         NEW v \in DOMAIN f, NEW w \in Nested(f, v), v \in Below(f, w)
  PROVE  FALSE
<1> DEFINE S == {u \in DOMAIN f : v \in Below(f, u)}
<1>1. w \in DOMAIN f
  BY NestedIsPart
<1>2. v \in S
  BY BelowFacts
<1>3. PICK x \in S : \A y \in S : <<x, y>> \notin Edges(f)
  <2>1. S \in SUBSET DOMAIN f /\ S # {}
    BY <1>2
  <2> HIDE DEF S
  <2> QED BY <2>1 DEF Acyclic
<1>4. x \in DOMAIN f /\ v \in Below(f, x)
  OBVIOUS
<1>5. \A y \in Nested(f, x) : y \in DOMAIN f /\ v \notin Below(f, y)
  BY <1>3, <1>4, NestedIsPart DEF Edges
<1>6. x # v
  BY <1>5
<1> DEFINE Q == {x} \cup {u \in DOMAIN f : v \notin Below(f, u)}
<1>7. \A u \in Q : Nested(f, u) \subseteq Q
  <2>1. ASSUME NEW u \in DOMAIN f, v \notin Below(f, u), NEW y \in Nested(f, u) PROVE y \in Q
    <3>1. y \in Below(f, u) /\ y \in DOMAIN f
      BY <2>1, BelowFacts, NestedIsPart
    <3>2. Below(f, y) \subseteq Below(f, u)
      BY <2>1, <3>1, BelowFacts
    <3> QED BY <2>1, <3>1, <3>2
  <2> QED BY <1>5, <2>1
<1>8. v \notin Q
  BY <1>2, <1>6
<1>9. Q \in SUBSET DOMAIN f /\ {x} \subseteq Q
  BY <1>4
<1> HIDE DEF Q
<1> QED BY <1>4, <1>7, <1>8, <1>9 DEF Below, Reachable


-----------------------------------------------------------------------------
(* The explosion, as a table over versions and what is being visited *)

(* An entry depends on the entries of the nested versions only.            *)
LEMMA EntryDependsOnParts ==
  ASSUME NEW f, NEW stock, NEW x, NEW y, NEW v, NEW U,
         v \notin U => \A w \in Nested(f, v) : x[<<w, U \cup {v}>>] = y[<<w, U \cup {v}>>]
  PROVE  explodePreparation(f, stock, x, v, U) = explodePreparation(f, stock, y, v, U)
<1>1. CASE v \in U
  BY <1>1 DEF explodePreparation
<1>2. CASE v \notin U
  <2> DEFINE V == U \cup {v}
             px == [e \in f[v].nested |-> explodeComponent(f, x, e, V)]
             py == [e \in f[v].nested |-> explodeComponent(f, y, e, V)]
  <2>1. \A e \in f[v].nested : x[<<e[1], V>>] = y[<<e[1], V>>]
    BY <1>2 DEF Nested
  <2>2. \A e \in f[v].nested : explodeComponent(f, x, e, V) = explodeComponent(f, y, e, V)
    BY <2>1 DEF explodeComponent
  <2>3. px = py
    BY <2>2
  <2>4. explodeComponents(f, x, v, V) = explodeComponents(f, y, v, V)
    BY <2>3 DEF explodeComponents
  <2> QED BY <2>4 DEF explodePreparation
<1> QED BY <1>1, <1>2

\* g holds the explosions below every set that includes W.
Holding(g, f, stock, W) ==
  g = [p \in (DOMAIN f) \X {U \in SUBSET DOMAIN f : W \subseteq U} |->
         explodePreparation(f, stock, g, p[1], p[2])]

LEMMA HoldingEntry ==
  ASSUME NEW f, NEW stock, NEW W, NEW g, Holding(g, f, stock, W),
         NEW v \in DOMAIN f, NEW U \in SUBSET DOMAIN f, W \subseteq U
  PROVE  g[<<v, U>>] = explodePreparation(f, stock, g, v, U)
<1> DEFINE N == (DOMAIN f) \X {X \in SUBSET DOMAIN f : W \subseteq X}
           h == [p \in N |-> explodePreparation(f, stock, g, p[1], p[2])]
           q == <<v, U>>
<1>1. q \in N /\ q[1] = v /\ q[2] = U
  OBVIOUS
<1>2. g = h
  BY DEF Holding
<1> HIDE DEF q, N
<1>3. h[q] = explodePreparation(f, stock, g, q[1], q[2])
  BY <1>1
<1> HIDE DEF h
<1>4. g[q] = explodePreparation(f, stock, g, v, U)
  BY <1>1, <1>2, <1>3
<1> QED BY <1>4 DEF q

LEMMA TablesAgree ==
  ASSUME NEW f, Typed(f), IsFiniteSet(DOMAIN f), NEW stock, NEW g, NEW h, NEW W, NEW X,
         Holding(g, f, stock, W), Holding(h, f, stock, X)
  PROVE  \A U \in SUBSET DOMAIN f : W \cup X \subseteq U =>
           \A v \in DOMAIN f : g[<<v, U>>] = h[<<v, U>>]
<1> DEFINE agree(U) == \A v \in DOMAIN f : g[<<v, U>>] = h[<<v, U>>]
           C == {R \in SUBSET DOMAIN f : W \cup X \subseteq (DOMAIN f) \ R /\ ~agree((DOMAIN f) \ R)}
<1>1. C = {}
  <2> SUFFICES ASSUME C # {} PROVE FALSE
    OBVIOUS
  <2>1. PICK R \in C : \A Q \in C : Q \subseteq R => Q = R
    <3>1. C \in SUBSET (SUBSET DOMAIN f)
      OBVIOUS
    <3> HIDE DEF C
    <3> QED BY <3>1, SmallestSubset
  <2> DEFINE U == (DOMAIN f) \ R
  <2>2. R \in SUBSET DOMAIN f /\ U \in SUBSET DOMAIN f /\ W \cup X \subseteq U /\ ~agree(U)
    OBVIOUS
  <2>3. PICK v \in DOMAIN f : g[<<v, U>>] # h[<<v, U>>]
    BY <2>2
  <2>4. /\ g[<<v, U>>] = explodePreparation(f, stock, g, v, U)
        /\ h[<<v, U>>] = explodePreparation(f, stock, h, v, U)
    <3>1. U \in SUBSET DOMAIN f /\ W \subseteq U /\ X \subseteq U
      BY <2>2
    <3> HIDE DEF U
    <3>2. g[<<v, U>>] = explodePreparation(f, stock, g, v, U)
      BY <3>1, HoldingEntry
    <3>3. h[<<v, U>>] = explodePreparation(f, stock, h, v, U)
      BY <3>1, HoldingEntry
    <3> QED BY <3>2, <3>3
  <2>5. ASSUME v \notin U, NEW w \in Nested(f, v)
        PROVE  g[<<w, U \cup {v}>>] = h[<<w, U \cup {v}>>]
    <3> DEFINE Q == R \ {v}
    <3>1. Q \in SUBSET DOMAIN f /\ Q \subseteq R /\ Q # R
      BY <2>5
    <3>2. Q \notin C
      BY <2>1, <3>1
    <3>3. (DOMAIN f) \ Q = U \cup {v} /\ W \cup X \subseteq (DOMAIN f) \ Q
      BY <2>2
    <3>4. agree((DOMAIN f) \ Q)
      BY <3>1, <3>2, <3>3
    <3> HIDE DEF Q, U
    <3> QED BY <3>3, <3>4, NestedIsPart
  <2> HIDE DEF U
  <2>6. explodePreparation(f, stock, g, v, U) = explodePreparation(f, stock, h, v, U)
    BY <2>5, EntryDependsOnParts
  <2> QED BY <2>3, <2>4, <2>6
<1>2. ASSUME NEW U \in SUBSET DOMAIN f, W \cup X \subseteq U
      PROVE  agree(U)
  <2> DEFINE R == (DOMAIN f) \ U
  <2>1. (DOMAIN f) \ R = U /\ R \in SUBSET DOMAIN f
    OBVIOUS
  <2>2. R \notin C
    BY <1>1
  <2> HIDE DEF R, agree
  <2> QED BY <1>2, <2>1, <2>2
<1> QED BY <1>2


LEMMA TablesExist ==
  ASSUME NEW f, Typed(f), IsFiniteSet(DOMAIN f), NEW stock
  PROVE  \E g : Holding(g, f, stock, {})
<1> DEFINE D == DOMAIN f
           C == {R \in SUBSET D : ~ \E g : Holding(g, f, stock, D \ R)}
<1>1. C = {}
  <2> SUFFICES ASSUME C # {} PROVE FALSE
    OBVIOUS
  <2>1. PICK R \in C : \A Q \in C : Q \subseteq R => Q = R
    <3>1. C \in SUBSET (SUBSET D)
      OBVIOUS
    <3> HIDE DEF C
    <3> QED BY <3>1, SmallestSubset
  <2> DEFINE W == D \ R
             N == D \X {U \in SUBSET D : W \subseteq U}
             G == [a \in R |-> CHOOSE g : Holding(g, f, stock, W \cup {a})]
             k == [p \in N |-> G[Pick(p[2] \ W)][p]]
             h == [p \in N |-> IF p[2] = W THEN explodePreparation(f, stock, k, p[1], W) ELSE k[p]]
  <2>2. R \in SUBSET D /\ W \in SUBSET D /\ ~ \E g : Holding(g, f, stock, W)
    OBVIOUS
  <2>3. \A a \in R : Holding(G[a], f, stock, W \cup {a})
    <3> TAKE a \in R
    <3> DEFINE Q == R \ {a}
    <3>1. Q \in SUBSET D /\ Q \subseteq R /\ Q # R
      OBVIOUS
    <3>2. Q \notin C
      BY <2>1, <3>1
    <3>3. D \ Q = W \cup {a}
      BY <2>2
    <3>4. \E g : Holding(g, f, stock, D \ Q)
      BY <3>1, <3>2
    <3> HIDE DEF Q, W
    <3> QED BY <3>3, <3>4
  <2>4. \A v \in D, U \in SUBSET D : W \subseteq U =>
          /\ <<v, U>> \in N
          /\ h[<<v, U>>] = IF U = W THEN explodePreparation(f, stock, k, v, W)
                                    ELSE k[<<v, U>>]
          /\ k[<<v, U>>] = G[Pick(U \ W)][<<v, U>>]
    <3> SUFFICES ASSUME NEW v \in D, NEW U \in SUBSET D, W \subseteq U
                 PROVE  /\ <<v, U>> \in N
                        /\ h[<<v, U>>] = IF U = W THEN explodePreparation(f, stock, k, v, W)
                                                  ELSE k[<<v, U>>]
                        /\ k[<<v, U>>] = G[Pick(U \ W)][<<v, U>>]
      OBVIOUS
    <3> DEFINE q == <<v, U>>
    <3>1. q \in N /\ q[1] = v /\ q[2] = U
      OBVIOUS
    <3> HIDE DEF N, q, W
    <3>2. k[q] = G[Pick(q[2] \ W)][q]
      BY <3>1
    <3> HIDE DEF k
    <3>3. h[q] = IF q[2] = W THEN explodePreparation(f, stock, k, q[1], W) ELSE k[q]
      BY <3>1
    <3> HIDE DEF G, h
    <3>4. h[q] = IF U = W THEN explodePreparation(f, stock, k, v, W) ELSE k[q]
      BY <3>1, <3>3
    <3>5. k[q] = G[Pick(U \ W)][q]
      BY <3>1, <3>2
    <3> QED BY <3>1, <3>4, <3>5 DEF q
  <2>5. \A U \in SUBSET D : W \subseteq U /\ U # W => Pick(U \ W) \in R /\ Pick(U \ W) \in U
    BY PickOne
  <2> HIDE DEF W, N, G, k, h, D
  <2>6. ASSUME NEW v \in D, NEW U \in SUBSET D, W \subseteq U
        PROVE  h[<<v, U>>] = explodePreparation(f, stock, h, v, U)
    <3>1. \A w \in Nested(f, v) : w \in D
      BY NestedIsPart DEF D
    <3>2. v \notin U => U \cup {v} \in SUBSET D /\ W \subseteq U \cup {v} /\ U \cup {v} # W
      BY <2>6
    <3>3. CASE U = W
      <4>1. v \notin U => \A w \in Nested(f, v) : k[<<w, U \cup {v}>>] = h[<<w, U \cup {v}>>]
        BY <2>4, <3>1, <3>2
      <4>2. explodePreparation(f, stock, k, v, U) = explodePreparation(f, stock, h, v, U)
        BY <4>1, EntryDependsOnParts
      <4> QED BY <2>4, <3>3, <4>2
    <3>4. CASE U # W
      <4> DEFINE a == Pick(U \ W)
                 V == U \cup {v}
                 b == Pick(V \ W)
      <4>1. a \in R /\ a \in U
        BY <2>5, <2>6, <3>4
      <4>2. h[<<v, U>>] = G[a][<<v, U>>]
        BY <2>4, <2>6, <3>4
      <4>3. W \cup {a} \subseteq U
        BY <2>6, <4>1
      <4>4. Holding(G[a], f, stock, W \cup {a})
        BY <2>3, <4>1
      <4> HIDE DEF a
      <4>5. G[a][<<v, U>>] = explodePreparation(f, stock, G[a], v, U)
        BY <4>3, <4>4, HoldingEntry DEF D
      <4>6. ASSUME v \notin U, NEW w \in Nested(f, v)
            PROVE  G[a][<<w, V>>] = h[<<w, V>>]
        <5>1. V \in SUBSET D /\ W \subseteq V /\ V # W /\ w \in D
          BY <3>1, <3>2, <4>6
        <5>2. b \in R /\ b \in V
          BY <2>5, <5>1
        <5>3. h[<<w, V>>] = G[b][<<w, V>>]
          BY <2>4, <5>1
        <5>4. Holding(G[b], f, stock, W \cup {b})
          BY <2>3, <5>2
        <5>5. (W \cup {a}) \cup (W \cup {b}) \subseteq V
          BY <4>1, <5>1, <5>2
        <5> HIDE DEF b, V
        <5>6. G[a][<<w, V>>] = G[b][<<w, V>>]
          BY <4>4, <5>1, <5>4, <5>5, TablesAgree DEF D
        <5> QED BY <5>3, <5>6
      <4>7. explodePreparation(f, stock, G[a], v, U) = explodePreparation(f, stock, h, v, U)
        BY <4>6, EntryDependsOnParts
      <4> QED BY <4>2, <4>5, <4>7
    <3> QED BY <3>3, <3>4
  <2>7. \A p \in N : h[p] = explodePreparation(f, stock, h, p[1], p[2])
    <3> TAKE p \in N
    <3>1. p = <<p[1], p[2]>> /\ p[1] \in D /\ p[2] \in SUBSET D /\ W \subseteq p[2]
      BY DEF N
    <3> QED BY <2>6, <3>1
  <2>8. h = [p \in N |-> h[p]]
    BY DEF h
  <2>9. h = [p \in N |-> explodePreparation(f, stock, h, p[1], p[2])]
    BY <2>7, <2>8
  <2>10. Holding(h, f, stock, W)
    BY <2>9 DEF Holding, N, D
  <2> QED BY <2>2, <2>10
<1>2. {} \in SUBSET D /\ D \in SUBSET D /\ D \ D = {}
  OBVIOUS
<1> QED BY <1>1, <1>2

(* The recursion of the code is well founded: every call ends.             *)
LEMMA ExplosionEntry ==
  ASSUME NEW f, Typed(f), IsFiniteSet(DOMAIN f), NEW stock,
         NEW v \in DOMAIN f, NEW U \in SUBSET DOMAIN f
  PROVE  Explosions(f, stock)[<<v, U>>]
           = explodePreparation(f, stock, Explosions(f, stock), v, U)
<1> DEFINE N == (DOMAIN f) \X (SUBSET DOMAIN f)
           table(g) == g = [p \in N |-> explodePreparation(f, stock, g, p[1], p[2])]
<1>1. \A g : Holding(g, f, stock, {}) <=> table(g)
  <2>1. {X \in SUBSET DOMAIN f : {} \subseteq X} = SUBSET DOMAIN f
    OBVIOUS
  <2> QED BY <2>1 DEF Holding
<1>2. \E g : table(g)
  BY <1>1, TablesExist
<1>3. Explosions(f, stock) = CHOOSE g : table(g)
  BY DEF Explosions
<1>4. table(Explosions(f, stock))
  BY <1>2, <1>3
<1> HIDE DEF table
<1>5. Holding(Explosions(f, stock), f, stock, {})
  BY <1>1, <1>4
<1> QED BY <1>5, HoldingEntry


-----------------------------------------------------------------------------
(* What a published version explodes into *)

Matches(f, nested) == \A e \in nested : e[2] = f[e[1]].unit

Sellable(f) ==
  Typed(f) /\ Closed(f) /\ Acyclic(Edges(f), DOMAIN f) /\ IsFiniteSet(DOMAIN f)

Parents(f, stock, u) == {w \in (DOMAIN f) \ stock : u \in Nested(f, w)}

Plan(f, stock, v, L) ==
  /\ L \in [DOMAIN f -> Nat]
  /\ L[v] = 1
  /\ \A u \in DOMAIN f : L[u] > 0 => u \in Below(f, v)
  /\ \A u \in (DOMAIN f) \ {v} : L[u] = SumFunctionOnSet(L, Parents(f, stock, u))

LeavesOf(f, stock, v) == Explosions(f, stock)[<<v, {}>>].leaves

(* v explodes in the same way wherever it is met, and without an error.    *)
Stands(f, stock, v) ==
  /\ \A U \in SUBSET DOMAIN f : U \cap Below(f, v) = {} =>
       Explosions(f, stock)[<<v, U>>] = [errors |-> {}, leaves |-> LeavesOf(f, stock, v)]
  /\ Plan(f, stock, v, LeavesOf(f, stock, v))

Total(f, stock, v) ==
  [u \in DOMAIN f |-> (IF u = v THEN 1 ELSE 0)
                        + SumFunction([e \in f[v].nested |-> LeavesOf(f, stock, e[1])[u]])]

(* The components of a version are finitely many, one for what it nests.   *)
LEMMA ComponentsOf ==
  ASSUME NEW f, Sellable(f), NEW v \in Published(f), Matches(f, f[v].nested)
  PROVE  /\ v \in DOMAIN f /\ IsFiniteSet(f[v].nested)
         /\ \A e \in f[v].nested : /\ e[1] \in DOMAIN f /\ e[1] \in Nested(f, v)
                                   /\ e = <<e[1], f[e[1]].unit>> /\ e[1] \in Published(f)
         /\ \A w \in Nested(f, v) : <<w, f[w].unit>> \in f[v].nested
<1>1. v \in DOMAIN f /\ f[v] \in VersionRecord(Parts(f))
  BY DEF Published, Sellable, Typed
<1>2. \A e \in f[v].nested : /\ e[1] \in DOMAIN f /\ e[1] \in Nested(f, v)
                             /\ e = <<e[1], f[e[1]].unit>> /\ e[1] \in Published(f)
  <2>1. TAKE e \in f[v].nested
  <2>2. e \in Parts(f) \X Unit
    BY <1>1 DEF VersionRecord
  <2>3. e[1] \in Nested(f, v)
    BY DEF Nested
  <2> QED BY <2>2, <2>3 DEF Sellable, Matches, Parts, Closed
<1>3. \A w \in Nested(f, v) : <<w, f[w].unit>> \in f[v].nested
  BY <1>2 DEF Nested
<1>4. IsFiniteSet(f[v].nested)
  <2> DEFINE h == [w \in DOMAIN f |-> <<w, f[w].unit>>]
             image == {h[w] : w \in DOMAIN f}
  <2>1. IsFiniteSet(DOMAIN f)
    BY DEF Sellable
  <2> HIDE DEF h
  <2>2. IsFiniteSet(image)
    BY <2>1, ImageIsFinite
  <2>3. \A e \in f[v].nested : e = h[e[1]]
    BY <1>2 DEF h
  <2>4. f[v].nested \subseteq image
    BY <1>2, <2>3
  <2> HIDE DEF image
  <2> QED BY <2>2, <2>4, FS_Subset
<1> QED BY <1>1, <1>2, <1>3, <1>4

LEMMA ComponentsExplode ==
  ASSUME NEW f, Sellable(f), NEW stock, NEW v \in Published(f), Matches(f, f[v].nested),
         \A w \in Nested(f, v) : Stands(f, stock, w),
         NEW V \in SUBSET DOMAIN f, \A w \in Nested(f, v) : V \cap Below(f, w) = {}
  PROVE  explodeComponents(f, Explosions(f, stock), v, V)
           = [errors |-> {}, leaves |-> Total(f, stock, v)]
<1> DEFINE x == Explosions(f, stock)
           part == [e \in f[v].nested |-> explodeComponent(f, x, e, V)]
           stands(e) == [errors |-> {}, leaves |-> LeavesOf(f, stock, e[1])]
<1>1. \A e \in f[v].nested : explodeComponent(f, x, e, V) = x[<<e[1], V>>]
  <2> TAKE e \in f[v].nested
  <2>1. e[1] \in DOMAIN f /\ e[2] = f[e[1]].unit /\ f[e[1]].unit \in Unit
    BY ComponentsOf DEF Matches, Sellable, Typed, VersionRecord
  <2>2. Convertible(e[2], f[e[1]].unit)
    BY <2>1, DimensionAssumption DEF Convertible
  <2> QED BY <2>1, <2>2 DEF explodeComponent
<1>2. \A e \in f[v].nested : x[<<e[1], V>>] = stands(e)
  BY ComponentsOf DEF Stands
<1>3. part = [e \in f[v].nested |-> stands(e)]
  BY <1>1, <1>2
<1>4. UNION {part[e].errors : e \in f[v].nested} = {}
  <2>1. \A e \in f[v].nested : part[e].errors = {}
    BY <1>3
  <2> HIDE DEF part
  <2> QED BY <2>1
<1>5. \A u : [e \in f[v].nested |-> part[e].leaves[u]]
               = [e \in f[v].nested |-> LeavesOf(f, stock, e[1])[u]]
  BY <1>3
<1>6. \A u \in DOMAIN f : Leaf(f, v).leaves[u] = IF u = v THEN 1 ELSE 0
  BY DEF Leaf
<1>7. [u \in DOMAIN f |-> Leaf(f, v).leaves[u]
                            + SumFunction([e \in f[v].nested |-> part[e].leaves[u]])]
        = Total(f, stock, v)
  BY <1>5, <1>6 DEF Total
<1> QED BY <1>4, <1>7 DEF explodeComponents


(* The plans of the nested versions make up one of the version.            *)
LEMMA PlanOfComponents ==
  ASSUME NEW f, Sellable(f), NEW stock, NEW v \in Published(f), v \notin stock,
         Matches(f, f[v].nested),
         \A w \in Nested(f, v) : Plan(f, stock, w, LeavesOf(f, stock, w))
  PROVE  Plan(f, stock, v, Total(f, stock, v))
<1> DEFINE S == f[v].nested
           l(e) == LeavesOf(f, stock, e[1])
           c(u) == [e \in S |-> l(e)[u]]
           T == Total(f, stock, v)
<1>1. /\ IsFiniteSet(S) /\ v \in DOMAIN f /\ IsFiniteSet(DOMAIN f)
      /\ Typed(f) /\ Acyclic(Edges(f), DOMAIN f)
  BY ComponentsOf DEF Sellable
<1>2. \A e \in S : e[1] \in DOMAIN f /\ e[1] \in Nested(f, v) /\ Plan(f, stock, e[1], l(e))
  BY ComponentsOf
<1>3. \A e \in S, u \in DOMAIN f : c(u)[e] = l(e)[u] /\ l(e)[u] \in Nat
  BY <1>2 DEF Plan
<1>4. \A u \in DOMAIN f : T[u] = (IF u = v THEN 1 ELSE 0) + SumFunctionOnSet(c(u), S)
  <2>1. \A u : SumFunction(c(u)) = SumFunctionOnSet(c(u), S)
    BY SumOfFunction
  <2> QED BY <2>1 DEF Total
<1>5. DOMAIN T = DOMAIN f /\ T = [u \in DOMAIN f |-> T[u]]
  BY DEF Total
<1> HIDE DEF c, T, l
<1>6. \A u \in DOMAIN f : SumFunctionOnSet(c(u), S) \in Nat
  <2> TAKE u \in DOMAIN f
  <2>1. \A e \in S : c(u)[e] \in Int /\ c(u)[e] >= 0
    BY <1>3
  <2> HIDE DEF S
  <2>2. SumFunctionOnSet(c(u), S) \in Int /\ SumFunctionOnSet(c(u), S) >= 0
    BY <1>1, <2>1, SumNatural
  <2> QED BY <2>2
<1>7. T \in [DOMAIN f -> Nat]
  BY <1>4, <1>5, <1>6
<1>8. T[v] = 1
  <2>1. \A e \in S : c(v)[e] = 0
    <3> TAKE e \in S
    <3>1. v \notin Below(f, e[1])
      BY <1>1, <1>2, NotBelowItsParts
    <3> QED BY <1>1, <1>2, <1>3, <3>1 DEF Plan
  <2> HIDE DEF S
  <2>2. SumFunctionOnSet(c(v), S) = 0
    BY <1>1, <2>1, SumOfNothing
  <2> QED BY <1>1, <1>4, <2>2
<1>9. ASSUME NEW u \in DOMAIN f, T[u] > 0
      PROVE  u \in Below(f, v)
  <2>1. CASE u = v
    BY <2>1, <1>1, BelowFacts
  <2>2. CASE u # v
    <3>1. SumFunctionOnSet(c(u), S) # 0
      BY <1>4, <1>6, <1>9, <2>2
    <3>2. \E e \in S : c(u)[e] # 0
      <4> HIDE DEF S
      <4> QED BY <1>1, <3>1, SumOfNothing
    <3>3. PICK e \in S : l(e)[u] > 0
      BY <1>3, <3>2
    <3>4. u \in Below(f, e[1])
      BY <1>2, <3>3 DEF Plan
    <3>5. e[1] \in Below(f, v)
      BY <1>1, <1>2, BelowFacts
    <3> QED BY <1>1, <3>4, <3>5, BelowFacts
  <2> QED BY <2>1, <2>2
<1>10. ASSUME NEW u \in (DOMAIN f) \ {v}
       PROVE  T[u] = SumFunctionOnSet(T, Parents(f, stock, u))
  <2> DEFINE P == Parents(f, stock, u)
             d == [e \in S |-> IF e[1] = u THEN 1 ELSE 0]
             r == [e \in S |-> SumFunctionOnSet(l(e), P)]
             k == [p \in P |-> IF p = v THEN 1 ELSE 0]
             q == [p \in P |-> SumFunctionOnSet(c(p), S)]
             a == [e \in S |-> l(e)]
             b == [p \in P |-> c(p)]
             own == IF u \in Nested(f, v) THEN 1 ELSE 0
  <2>1. P \subseteq DOMAIN f /\ IsFiniteSet(P) /\ (v \in P <=> u \in Nested(f, v))
    BY <1>1, FS_Subset DEF Parents
  <2>2. \A p \in P : u \in Nested(f, p)
    BY DEF Parents
  <2>3. /\ \A e \in S : d[e] = (IF e[1] = u THEN 1 ELSE 0) /\ r[e] = SumFunctionOnSet(l(e), P)
        /\ \A p \in P : k[p] = (IF p = v THEN 1 ELSE 0) /\ q[p] = SumFunctionOnSet(c(p), S)
        /\ \A e \in S : a[e] = l(e)
        /\ \A p \in P : b[p] = c(p)
    OBVIOUS
  <2> HIDE DEF P, S, d, r, k, q, a, b
  <2>4. \A e \in S : r[e] \in Int
    <3> TAKE e \in S
    <3>1. \A p \in P : l(e)[p] \in Int
      BY <1>3, <2>1
    <3> QED BY <2>1, <2>3, <3>1, SumInt
  <2>5. \A e \in S : c(u)[e] = d[e] + r[e]
    <3> TAKE e \in S
    <3>1. CASE e[1] # u
      <4>1. l(e)[u] = SumFunctionOnSet(l(e), P)
        BY <1>2, <3>1 DEF Plan, P
      <4> QED BY <1>3, <2>3, <2>4, <3>1, <4>1
    <3>2. CASE e[1] = u
      <4>1. \A p \in P : l(e)[p] = 0
        <5> TAKE p \in P
        <5>1. p \notin Below(f, u)
          BY <1>1, <2>1, <2>2, NotBelowItsParts
        <5> QED BY <1>2, <1>3, <2>1, <3>2, <5>1 DEF Plan
      <4>2. SumFunctionOnSet(l(e), P) = 0
        BY <2>1, <4>1, SumOfNothing
      <4>3. l(e)[u] = 1
        BY <1>2, <3>2 DEF Plan
      <4> QED BY <1>3, <2>3, <3>2, <4>2, <4>3
    <3> QED BY <3>1, <3>2
  <2>6. SumFunctionOnSet(c(u), S) = SumFunctionOnSet(d, S) + SumFunctionOnSet(r, S)
    <3>1. \A e \in S : d[e] \in Int /\ r[e] \in Int /\ c(u)[e] = d[e] + r[e]
      BY <2>3, <2>4, <2>5
    <3> QED BY <1>1, <3>1, SumPlus
  <2>7. SumFunctionOnSet(d, S) = own
    <3> DEFINE X == {e \in S : e[1] = u}
    <3>1. SumFunctionOnSet(d, S) = Cardinality(X)
      <4>1. X \subseteq S /\ \A e \in S : d[e] = IF e \in X THEN 1 ELSE 0
        BY <2>3
      <4> HIDE DEF X
      <4> QED BY <1>1, <4>1, SumCounts
    <3>2. CASE u \in Nested(f, v)
      <4>1. X = {<<u, f[u].unit>>}
        BY <3>2, ComponentsOf DEF S
      <4> QED BY <3>1, <3>2, <4>1, FS_Singleton
    <3>3. CASE u \notin Nested(f, v)
      <4>1. X = {}
        BY <1>2, <3>3
      <4> QED BY <3>1, <3>3, <4>1, FS_EmptySet
    <3> QED BY <3>2, <3>3
  <2>8. SumFunctionOnSet(r, S) = SumFunctionOnSet(q, P)
    <3>1. \A e \in S, p \in P : a[e][p] \in Int /\ b[p][e] = a[e][p]
      BY <1>3, <2>1, <2>3
    <3>2. /\ \A e \in S : r[e] = SumFunctionOnSet(a[e], P)
          /\ \A p \in P : q[p] = SumFunctionOnSet(b[p], S)
      BY <2>3
    <3>3. Table(a, b, r, q, S, P)
      BY <3>1, <3>2 DEF Table
    <3> QED BY <1>1, <2>1, <3>3, SumSwap
  <2>9. SumFunctionOnSet(T, P) = SumFunctionOnSet(k, P) + SumFunctionOnSet(q, P)
    <3>1. \A p \in P : k[p] \in Int /\ q[p] \in Int /\ T[p] = k[p] + q[p]
      BY <1>4, <1>6, <2>1, <2>3
    <3> QED BY <2>1, <3>1, SumPlus
  <2>10. SumFunctionOnSet(k, P) = own
    <3> DEFINE X == {p \in P : p = v}
    <3>1. SumFunctionOnSet(k, P) = Cardinality(X)
      <4>1. X \subseteq P /\ \A p \in P : k[p] = IF p \in X THEN 1 ELSE 0
        BY <2>3
      <4> HIDE DEF X
      <4> QED BY <2>1, <4>1, SumCounts
    <3>2. X = IF v \in P THEN {v} ELSE {}
      OBVIOUS
    <3> QED BY <2>1, <3>1, <3>2, FS_Singleton, FS_EmptySet
  <2>11. T[u] = SumFunctionOnSet(c(u), S)
    BY <1>4, <1>6
  <2> QED BY <2>6, <2>7, <2>8, <2>9, <2>10, <2>11 DEF P
<1> QED BY <1>7, <1>8, <1>9, <1>10 DEF Plan, T


LEMMA PartsAreMeasured ==
  ASSUME NEW f, Typed(f), NEW v \in DOMAIN f, MeasuredInItsUnits(f, v)
  PROVE  /\ Matches(f, f[v].nested)
         /\ \A w \in Nested(f, v) : MeasuredInItsUnits(f, w)
<1>1. \A w \in Below(f, v) : Matches(f, f[w].nested)
  BY DEF MeasuredInItsUnits, Below, Matches
<1>2. v \in Below(f, v) /\ \A w \in Nested(f, v) : Below(f, w) \subseteq Below(f, v)
  BY BelowFacts
<1>3. \A w \in Nested(f, v) : MeasuredInItsUnits(f, w)
  <2> TAKE w \in Nested(f, v)
  <2>1. \A u \in Below(f, w) : Matches(f, f[u].nested)
    BY <1>1, <1>2
  <2> QED BY <2>1 DEF MeasuredInItsUnits, Below, Matches
<1> QED BY <1>1, <1>2, <1>3

(* A tracked preparation is its own leaf, any other what its parts are:    *)
(* upwards from what nests nothing, every published version stands whose   *)
(* parts are measured in their units.                                      *)
LEMMA PublishedStand ==
  ASSUME NEW f, Sellable(f), NEW stock, stock \subseteq Published(f)
  PROVE  \A v \in Published(f) : MeasuredInItsUnits(f, v) => Stands(f, stock, v)
<1> DEFINE x == Explosions(f, stock)
           C == {v \in Published(f) : MeasuredInItsUnits(f, v) /\ ~Stands(f, stock, v)}
<1> SUFFICES ASSUME C # {} PROVE FALSE
  OBVIOUS
<1>1. /\ Typed(f) /\ Closed(f) /\ Acyclic(Edges(f), DOMAIN f) /\ IsFiniteSet(DOMAIN f)
      /\ Published(f) \subseteq DOMAIN f
  BY DEF Sellable, Published
<1>2. PICK v \in C : \A w \in C : <<v, w>> \notin Edges(f)
  <2>1. C \in SUBSET DOMAIN f
    BY <1>1
  <2> HIDE DEF C
  <2> QED BY <1>1, <2>1 DEF Acyclic
<1>3. /\ v \in Published(f) /\ v \in DOMAIN f /\ ~Stands(f, stock, v)
      /\ Matches(f, f[v].nested) /\ \A w \in Nested(f, v) : MeasuredInItsUnits(f, w)
  BY <1>1, PartsAreMeasured
<1>4. \A w \in Nested(f, v) : w \in Published(f) /\ w \in DOMAIN f /\ Stands(f, stock, w)
  <2> TAKE w \in Nested(f, v)
  <2>1. w \in Published(f) /\ w \in DOMAIN f
    BY <1>1, <1>3 DEF Closed
  <2>2. <<v, w>> \in Edges(f)
    BY <1>3, <2>1 DEF Edges
  <2>3. w \notin C
    BY <1>2, <2>2
  <2> QED BY <1>3, <2>1, <2>3
<1> HIDE DEF C
<1>5. v \in Below(f, v)
  BY <1>1, <1>3, BelowFacts
<1>6. \A U \in SUBSET DOMAIN f : U \cap Below(f, v) = {} =>
        x[<<v, U>>] = IF v \in stock THEN Leaf(f, v) ELSE explodeComponents(f, x, v, U \cup {v})
  <2> TAKE U \in SUBSET DOMAIN f
  <2>1. x[<<v, U>>] = explodePreparation(f, stock, x, v, U)
    BY <1>1, <1>3, ExplosionEntry
  <2>2. U \cap Below(f, v) = {} => v \notin U
    BY <1>5
  <2> HIDE DEF x
  <2> QED BY <1>3, <2>1, <2>2 DEF explodePreparation
<1> HIDE DEF x
<1>7. \A E \in {Leaf(f, v), [errors |-> {}, leaves |-> Total(f, stock, v)]} :
        /\ \A U \in SUBSET DOMAIN f : U \cap Below(f, v) = {} => x[<<v, U>>] = E
        /\ Plan(f, stock, v, E.leaves)
        => Stands(f, stock, v)
  <2> TAKE E \in {Leaf(f, v), [errors |-> {}, leaves |-> Total(f, stock, v)]}
  <2> HAVE /\ \A U \in SUBSET DOMAIN f : U \cap Below(f, v) = {} => x[<<v, U>>] = E
           /\ Plan(f, stock, v, E.leaves)
  <2>1. x[<<v, {}>>] = E
    OBVIOUS
  <2>2. LeavesOf(f, stock, v) = E.leaves
    BY <2>1 DEF LeavesOf, x
  <2>3. E = [errors |-> {}, leaves |-> E.leaves]
    BY DEF Leaf
  <2> QED BY <2>2, <2>3 DEF Stands, x
<1>8. CASE v \in stock
  <2>1. \A U \in SUBSET DOMAIN f : U \cap Below(f, v) = {} => x[<<v, U>>] = Leaf(f, v)
    BY <1>6, <1>8
  <2> DEFINE L == Leaf(f, v).leaves
  <2>2. L = [u \in DOMAIN f |-> IF u = v THEN 1 ELSE 0]
    BY DEF Leaf
  <2>3. L \in [DOMAIN f -> Nat] /\ L[v] = 1
    BY <1>3, <2>2
  <2>4. \A u \in DOMAIN f : L[u] > 0 => u \in Below(f, v)
    BY <1>5, <2>2
  <2>5. \A u \in (DOMAIN f) \ {v} : L[u] = SumFunctionOnSet(L, Parents(f, stock, u))
    <3> TAKE u \in (DOMAIN f) \ {v}
    <3>1. IsFiniteSet(Parents(f, stock, u))
      BY <1>1, FS_Subset DEF Parents
    <3>2. \A p \in Parents(f, stock, u) : L[p] = 0
      BY <1>8, <2>2 DEF Parents
    <3>3. L[u] = 0
      BY <2>2
    <3> HIDE DEF L
    <3>4. SumFunctionOnSet(L, Parents(f, stock, u)) = 0
      BY <3>1, <3>2, SumOfNothing
    <3> QED BY <3>3, <3>4
  <2> HIDE DEF L
  <2>6. Plan(f, stock, v, L)
    BY <2>3, <2>4, <2>5 DEF Plan
  <2>7. Stands(f, stock, v)
    BY <1>7, <2>1, <2>6 DEF L
  <2> QED BY <1>3, <2>7
<1>9. CASE v \notin stock
  <2>1. ASSUME NEW U \in SUBSET DOMAIN f, U \cap Below(f, v) = {}
        PROVE  x[<<v, U>>] = [errors |-> {}, leaves |-> Total(f, stock, v)]
    <3>1. U \cup {v} \in SUBSET DOMAIN f
      BY <1>3
    <3>2. \A w \in Nested(f, v) : (U \cup {v}) \cap Below(f, w) = {}
      <4> TAKE w \in Nested(f, v)
      <4>1. w \in Below(f, v)
        BY <1>1, <1>3, <1>5, BelowFacts
      <4>2. Below(f, w) \subseteq Below(f, v)
        BY <1>1, <1>3, <4>1, BelowFacts
      <4>3. v \notin Below(f, w)
        BY <1>1, <1>3, NotBelowItsParts
      <4> QED BY <2>1, <4>2, <4>3
    <3>3. explodeComponents(f, x, v, U \cup {v}) = [errors |-> {}, leaves |-> Total(f, stock, v)]
      BY <1>3, <1>4, <3>1, <3>2, ComponentsExplode DEF x
    <3> QED BY <1>6, <1>9, <2>1, <3>3
  <2>2. Plan(f, stock, v, Total(f, stock, v))
    BY <1>3, <1>4, <1>9, PlanOfComponents DEF Stands
  <2>3. Stands(f, stock, v)
    BY <1>7, <2>1, <2>2
  <2> QED BY <1>3, <2>3
<1> QED BY <1>8, <1>9


LEMMA PlanAddsUp ==
  ASSUME NEW f, Typed(f), IsFiniteSet(DOMAIN f), NEW stock, NEW root \in DOMAIN f,
         NEW L, Plan(f, stock, root, L)
  PROVE  AddsUp(f, stock, root, L)
<1> DEFINE reached == {v \in DOMAIN f : L[v] > 0}
           parents(v) == {w \in reached \ stock : v \in Nested(f, w)}
<1>1. \A u \in DOMAIN f : L[u] \in Nat
  BY DEF Plan
<1>2. ASSUME NEW u \in (DOMAIN f) \ {root}
      PROVE  /\ L[u] = SumFunctionOnSet(L, parents(u))
             /\ L[u] > 0 => parents(u) # {}
             /\ \A w \in parents(u) : L[w] <= L[u]
  <2> DEFINE P == Parents(f, stock, u)
             R == P \ parents(u)
  <2>1. parents(u) \cup R = P /\ parents(u) \cap R = {} /\ P \subseteq DOMAIN f
    BY DEF Parents
  <2>2. \A w \in R : L[w] = 0
    BY <1>1 DEF Parents
  <2>3. L[u] = SumFunctionOnSet(L, P)
    BY DEF Plan
  <2>4. IsFiniteSet(P)
    BY <2>1, FS_Subset
  <2> HIDE DEF P
  <2>5. IsFiniteSet(parents(u)) /\ IsFiniteSet(R)
    BY <2>1, <2>4, FS_Subset
  <2> HIDE DEF R, parents
  <2>6. SumFunctionOnSet(L, R) = 0
    BY <2>2, <2>5, SumOfNothing
  <2>7. \A w \in parents(u) : L[w] \in Int /\ L[w] >= 0
    BY <1>1, <2>1
  <2>8. \A w \in parents(u) \cup R : L[w] \in Int
    BY <1>1, <2>1
  <2>9. SumFunctionOnSet(L, P)
          = SumFunctionOnSet(L, parents(u)) + SumFunctionOnSet(L, R)
    BY <2>1, <2>5, <2>8, SumUnion
  <2>10. /\ SumFunctionOnSet(L, parents(u)) \in Int
         /\ \A w \in parents(u) : L[w] <= SumFunctionOnSet(L, parents(u))
    BY <2>5, <2>7, SumNatural
  <2>11. L[u] = SumFunctionOnSet(L, parents(u))
    BY <2>3, <2>6, <2>9, <2>10
  <2>12. parents(u) = {} => L[u] = 0
    BY <2>11, SumEmpty
  <2> QED BY <2>10, <2>11, <2>12
<1>3. L[root] = 1
  BY DEF Plan
<1>4. reached = {root} \cup UNION {Nested(f, w) : w \in reached \ stock}
  <2>1. \A u \in reached \ {root} : \E w \in reached \ stock : u \in Nested(f, w)
    BY <1>2
  <2>2. \A w \in reached \ stock : \A u \in Nested(f, w) : u \in reached
    <3> TAKE w \in reached \ stock
    <3> TAKE u \in Nested(f, w)
    <3>1. u \in DOMAIN f /\ w \in DOMAIN f /\ L[w] > 0
      BY NestedIsPart
    <3>2. CASE u = root
      BY <1>3, <3>1, <3>2
    <3>3. CASE u # root
      <4>1. w \in parents(u)
        OBVIOUS
      <4>2. L[w] <= L[u]
        BY <1>2, <3>1, <3>3, <4>1
      <4> QED BY <1>1, <3>1, <4>2
    <3> QED BY <3>2, <3>3
  <2>3. root \in reached
    BY <1>3
  <2> QED BY <2>1, <2>2, <2>3
<1>5. \A v \in reached \ {root} : L[v] = SumFunctionOnSet(L, parents(v))
  BY <1>2
<1> QED BY <1>3, <1>4, <1>5 DEF AddsUp

(* Only finitely many versions have been written.                          *)
FinitelyMany == IsFiniteSet(DOMAIN version)

LEMMA VersionsAreFinite == Spec => []FinitelyMany
<1>1. Init => FinitelyMany
  BY FS_EmptySet DEF Init, FinitelyMany
<1>2. FinitelyMany /\ [Next]_vars => FinitelyMany'
  <2> SUFFICES ASSUME FinitelyMany, [Next]_vars PROVE FinitelyMany'
    OBVIOUS
  <2>1. CASE UNCHANGED vars
    BY <2>1 DEF FinitelyMany, vars
  <2>2. CASE Next
    <3>1. \/ version' = version
          \/ \E s \in Session : version' = Put(call[s].row[1], call[s].row[2])
      BY <2>2 DEF Next, StartCreate, StartUpdate, StartScale, StartPublish, StartNext, Begin,
                  CallStep, LockRow, LockGraph, CreateDraft, UpdateDraft, ScaleRecipe, Publish,
                  CreateNext, WriteIf, Commit, DeadlockAbort, Rollback
    <3>2. \A v, rec : DOMAIN Put(v, rec) = (DOMAIN version) \cup {v}
      BY DEF Put
    <3>3. \A v : IsFiniteSet((DOMAIN version) \cup {v})
      BY FS_AddElement DEF FinitelyMany
    <3>4. CASE version' = version
      BY <3>4 DEF FinitelyMany
    <3>5. CASE \E s \in Session : version' = Put(call[s].row[1], call[s].row[2])
      <4>1. PICK s \in Session : version' = Put(call[s].row[1], call[s].row[2])
        BY <3>5
      <4> DEFINE v == call[s].row[1]
                 g == Put(v, call[s].row[2])
      <4>2. version' = g /\ DOMAIN g = (DOMAIN version) \cup {v}
        BY <3>2, <4>1
      <4>3. IsFiniteSet((DOMAIN version) \cup {v})
        BY <3>3
      <4> HIDE DEF v, g
      <4> QED BY <4>2, <4>3 DEF FinitelyMany
    <3> QED BY <3>1, <3>4, <3>5
  <2> QED BY <2>1, <2>2
<1> QED BY <1>1, <1>2, PTL DEF Spec

LEMMA SellableSells ==
  ASSUME NEW f, Sellable(f), NEW v \in Published(f), v \notin Preparation \X Nat,
         MeasuredInItsUnits(f, v)
  PROVE  Sells(f, v)
<1> SUFFICES ASSUME NEW stock \in SUBSET {w \in Published(f) : w[1] \in Preparation}
             PROVE  LET plan == explodeRecipe(f, stock, v) IN
                    plan.errors = {} /\ AddsUp(f, stock, v, plan.leaves)
  BY DEF Sells
<1>1. /\ v \in DOMAIN f /\ v \notin stock /\ stock \subseteq Published(f)
      /\ Typed(f) /\ IsFiniteSet(DOMAIN f)
  <2>1. \A w \in DOMAIN f : w \in VersionId
    BY DEF Sellable, Typed
  <2>2. \A w \in VersionId : w[1] \in Preparation => w \in Preparation \X Nat
    BY RecipeAssumption DEF VersionId
  <2>3. v \in DOMAIN f
    BY DEF Published
  <2> QED BY <2>1, <2>2, <2>3 DEF Sellable
<1>2. Matches(f, f[v].nested) /\ \A w \in Nested(f, v) : MeasuredInItsUnits(f, w)
  BY <1>1, PartsAreMeasured
<1>3. \A w \in Nested(f, v) : Stands(f, stock, w)
  BY <1>1, <1>2, PublishedStand DEF Sellable, Closed
<1>4. explodeRecipe(f, stock, v) = [errors |-> {}, leaves |-> Total(f, stock, v)]
  <2>1. {} \in SUBSET DOMAIN f /\ \A w \in Nested(f, v) : {} \cap Below(f, w) = {}
    OBVIOUS
  <2>2. explodeComponents(f, Explosions(f, stock), v, {})
          = [errors |-> {}, leaves |-> Total(f, stock, v)]
    BY <1>2, <1>3, <2>1, ComponentsExplode
  <2> QED BY <2>2 DEF explodeRecipe
<1>5. Plan(f, stock, v, Total(f, stock, v))
  BY <1>1, <1>2, <1>3, PlanOfComponents DEF Stands
<1>6. AddsUp(f, stock, v, Total(f, stock, v))
  BY <1>1, <1>5, PlanAddsUp
<1> QED BY <1>4, <1>6

LEMMA RecipesFoundAreSellable ==
  ASSUME RecipeInv, FinitelyMany, NEW r \in Recipe,
         NEW v \in getPublishedRecipeForCatalogItem(version, r)
  PROVE  /\ Sellable(version) /\ v \in Published(version) /\ v \notin Preparation \X Nat
         /\ MeasuredInItsUnits(version, v) => Sells(version, v)
<1>1. Sellable(version)
  BY DEF RecipeInv, GraphOK, FinitelyMany, Sellable
<1>2. v \in Published(version) /\ v \notin Preparation \X Nat
  BY RecipeAssumption DEF getPublishedRecipeForCatalogItem
<1> QED BY <1>1, <1>2, SellableSells

(* Whatever was edited or published at the same time, what a sale finds    *)
(* published, and measured in its units all the way down, explodes without *)
(* an error and takes everything as often as it is contained, by one path  *)
(* (explodeRecipe).                                                        *)
THEOREM MatchingRecipesSell == Spec => []PublishedRecipesSell
<1>1. RecipeInv /\ FinitelyMany => PublishedRecipesSell
  BY RecipesFoundAreSellable DEF PublishedRecipesSell
<1> QED BY <1>1, AlwaysInv, VersionsAreFinite, PTL


-----------------------------------------------------------------------------
(* Units *)

(* What the code does not insist on: nobody changes the unit of a version  *)
(* that another one contains.                                              *)
UnitsInUseStay ==
  [][\A v \in DOMAIN version : \A w \in Nested(version, v) :
       version'[w].unit = version[w].unit]_vars

UnitInv ==
  /\ \A v \in DOMAIN version : Matches(version, version[v].nested)
  /\ \A s \in Session : call[s].step = "commit" => Matches(version, call[s].row[2].nested)

(* Written components are validated, taken over from the version itself,   *)
(* or from the one before it.                                              *)
LEMMA WriteMatches ==
  ASSUME RecipeInv, UnitInv, NEW s \in Session,
         CreateDraft(s) \/ UpdateDraft(s) \/ ScaleRecipe(s) \/ Publish(s) \/ CreateNext(s)
  PROVE  UnitInv'
<1> DEFINE old == call[s].id
<1>1. call \in [Session -> CallRecord] /\ CallOK(version, call[s]) /\ Typed(version)
  BY InvFacts
<1>2. ASSUME NEW ok, NEW v, NEW rec, WriteIf(ok, s, v, rec), Matches(version, rec.nested)
      PROVE  UnitInv'
  <2>1. version' = version
    BY <1>2 DEF WriteIf
  <2>2. \A t \in Session \ {s} : call'[t] = call[t]
    BY <1>1, <1>2 DEF WriteIf, Return
  <2>3. call'[s].step = "commit" => call'[s].row[2] = rec
    <3>1. CASE ok
      <4> DEFINE b == call[s]
                 c == [b EXCEPT !.step = "commit", !.row = <<v, rec>>]
      <4>1. call' = [call EXCEPT ![s] = c]
        BY <1>2, <3>1 DEF WriteIf
      <4>2. b \in CallRecord
        BY <1>1
      <4>3. c.row = <<v, rec>>
        BY <4>2 DEF CallRecord
      <4> HIDE DEF c
      <4> QED BY <1>1, <4>1, <4>3
    <3>2. CASE ~ok
      BY <1>1, <1>2, <3>2 DEF WriteIf, Return, Idle
    <3> QED BY <3>1, <3>2
  <2> QED BY <1>2, <2>1, <2>2, <2>3 DEF UnitInv, Matches
<1>3. \A nested : Matches(version, Components(nested))
  BY DEF Matches, Components
<1>4. call[s].op # "create" /\ call[s].step = "write" =>
        old \in DOMAIN version /\ Matches(version, version[old].nested)
  <2>1. call[s].op \in {"none", "create", "update", "scale", "publish", "next"}
    BY <1>1 DEF CallRecord
  <2> QED BY <1>1, <2>1 DEF CallOK, UnitInv
<1>5. CASE CreateDraft(s)
  <2>1. Matches(version, Draft(call[s].command).nested)
    BY <1>3 DEF Draft
  <2> QED BY <1>2, <1>5, <2>1 DEF CreateDraft
<1>6. CASE UpdateDraft(s)
  <2>1. PICK rec \in Overrides(version[old], Draft(call[s].command)) :
          WriteIf(assertPreparationGraphAcyclic(Put(old, rec)), s, old, rec)
    BY <1>6 DEF UpdateDraft
  <2>2. rec.nested \in {version[old].nested, Draft(call[s].command).nested}
    BY DEF Overrides
  <2>3. Matches(version, Draft(call[s].command).nested)
    BY <1>3 DEF Draft
  <2>4. Matches(version, rec.nested)
    BY <1>4, <1>6, <2>2, <2>3 DEF UpdateDraft, HasLocks
  <2> QED BY <1>2, <2>1, <2>4
<1> DEFINE kept(rec) == rec.nested = version[old].nested
<1>7. call[s].op # "create" /\ call[s].step = "write" =>
        \A x : /\ kept([version[old] EXCEPT !.amount = x])
               /\ kept([version[old] EXCEPT !.status = x])
  <2>1. call[s].op # "create" /\ call[s].step = "write" =>
          version[old] \in VersionRecord(Parts(version))
    BY <1>1, <1>4 DEF Typed
  <2> QED BY <2>1 DEF VersionRecord
<1> QED BY <1>2, <1>4, <1>5, <1>6, <1>7 DEF ScaleRecipe, Publish, CreateNext, HasLocks


LEMMA CommitMatches ==
  ASSUME RecipeInv, RecipeInv', UnitInv, NEW s \in Session, Commit(s),
         \A v \in DOMAIN version : \A w \in Nested(version, v) :
           version'[w].unit = version[w].unit
  PROVE  UnitInv'
<1>1. call \in [Session -> CallRecord] /\ CallOK(version, call[s]) /\ call[s].step = "commit"
  BY InvFacts DEF Commit
<1>2. PICK v \in VersionId, rec \in VersionRecord(Parts(version)) : call[s].row = <<v, rec>>
  BY <1>1 DEF CallOK, RowOK
<1>3. /\ version' = PutIn(version, v, rec)
      /\ call' = [call EXCEPT ![s] = Idle]
  BY <1>2, PutIsPutIn DEF Commit, Return
<1>4. Matches(version, rec.nested)
  BY <1>1, <1>2 DEF UnitInv
<1>5. /\ DOMAIN version' = (DOMAIN version) \cup {v} /\ version'[v] = rec
      /\ \A w \in (DOMAIN version) \ {v} : version'[w] = version[w]
  BY <1>3 DEF PutIn
<1>6. ASSUME NEW u \in DOMAIN version' PROVE Matches(version', version'[u].nested)
  <2>1. CASE u # v
    <3>1. /\ u \in DOMAIN version /\ version'[u] = version[u]
          /\ Matches(version, version[u].nested)
      BY <1>5, <2>1 DEF UnitInv
    <3>2. \A e \in version[u].nested : e[1] \in Nested(version, u)
      BY DEF Nested
    <3> QED BY <3>1, <3>2 DEF Matches
  <2>2. CASE u = v
    <3>1. \A e \in rec.nested : e[1] \in DOMAIN version
      BY DEF VersionRecord, Parts
    <3>2. \A e \in rec.nested : e[1] # v
      <4> SUFFICES ASSUME NEW e \in rec.nested, e[1] = v PROVE FALSE
        OBVIOUS
      <4> DEFINE g == version'
      <4>1. Acyclic(Edges(g), DOMAIN g)
        BY DEF RecipeInv, GraphOK, Edges, Nested, Acyclic
      <4>2. v \in DOMAIN g /\ g[v] = rec
        BY <1>5
      <4> HIDE DEF g
      <4>3. <<v, v>> \in Edges(g)
        BY <4>2 DEF Edges, Nested
      <4>4. {v} \in SUBSET DOMAIN g
        BY <4>2
      <4> QED BY <4>1, <4>3, <4>4 DEF Acyclic
    <3> QED BY <1>4, <1>5, <2>2, <3>1, <3>2 DEF Matches
  <2> QED BY <2>1, <2>2
<1>7. \A t \in Session : call'[t].step # "commit"
  <2>1. \A t \in Session \ {s} : call'[t] = call[t] /\ call[t].step # "commit"
    BY <1>1, <1>3 DEF RecipeInv, CallsOK, Writer
  <2>2. call'[s].step = "done"
    BY <1>1, <1>3 DEF Idle
  <2> QED BY <2>1, <2>2
<1> QED BY <1>6, <1>7 DEF UnitInv

(* Were the unit of a contained version kept, as no command checks it is,  *)
(* published units would match: there is no other way for them to part.    *)
THEOREM UnitsKeptMatch == Spec /\ UnitsInUseStay => []NestedUnitsMatch
<1> DEFINE kept == \A v \in DOMAIN version : \A w \in Nested(version, v) :
                     version'[w].unit = version[w].unit
<1>1. Init => UnitInv
  BY DEF Init, UnitInv, Idle
<1>2. RecipeInv /\ RecipeInv' /\ UnitInv /\ [Next]_vars /\ [kept]_vars => UnitInv'
  <2> SUFFICES ASSUME RecipeInv, RecipeInv', UnitInv, [Next]_vars, [kept]_vars PROVE UnitInv'
    OBVIOUS
  <2>1. CASE UNCHANGED vars
    BY <2>1 DEF vars, UnitInv, Matches
  <2>2. CASE Next /\ kept
    <3>1. PICK s \in Session :
            \/ StartCreate(s) \/ StartUpdate(s) \/ StartScale(s) \/ StartPublish(s) \/ StartNext(s)
            \/ CallStep(s) \/ Rollback(s)
      BY <2>2 DEF Next
    <3>2. call \in [Session -> CallRecord]
      BY InvFacts
    <3>3. CASE Commit(s)
      BY <2>2, <3>3, CommitMatches
    <3>4. CASE CreateDraft(s) \/ UpdateDraft(s) \/ ScaleRecipe(s) \/ Publish(s) \/ CreateNext(s)
      BY <3>4, WriteMatches
    <3>5. CASE \/ StartCreate(s) \/ StartUpdate(s) \/ StartScale(s) \/ StartPublish(s)
               \/ StartNext(s) \/ LockRow(s) \/ LockGraph(s) \/ DeadlockAbort(s) \/ Rollback(s)
      <4>1. version' = version
        BY <3>5 DEF StartCreate, StartUpdate, StartScale, StartPublish, StartNext, Begin, LockRow,
                    LockGraph, DeadlockAbort, Rollback
      <4> DEFINE calm == /\ \A t \in Session \ {s} : call'[t] = call[t]
                         /\ call'[s].step # "commit"
      <4>2. \A op, step, v, command : Begin(s, op, step, v, command) /\ step # "commit" => calm
        BY <3>2 DEF Begin
      <4>3. GoTo(s, "graph") \/ GoTo(s, "write") => calm
        BY <3>2, GoToIs
      <4>4. Return(s) => calm
        BY <3>2 DEF Return, Idle
      <4> HIDE DEF calm
      <4>5. StartCreate(s) => calm
        BY <4>2 DEF StartCreate
      <4>6. StartUpdate(s) \/ StartScale(s) \/ StartPublish(s) \/ StartNext(s) => calm
        BY <4>2 DEF StartUpdate, StartScale, StartPublish, StartNext
      <4>7. LockRow(s) \/ LockGraph(s) \/ DeadlockAbort(s) \/ Rollback(s) => calm
        BY <4>3, <4>4 DEF LockRow, LockGraph, DeadlockAbort, Rollback
      <4>8. calm
        BY <3>5, <4>5, <4>6, <4>7
      <4> QED BY <4>1, <4>8 DEF UnitInv, Matches, calm
    <3> QED BY <3>1, <3>3, <3>4, <3>5 DEF CallStep
  <2> QED BY <2>1, <2>2 DEF vars
<1>3. UnitInv => NestedUnitsMatch
  BY DEF UnitInv, NestedUnitsMatch, MeasuresMatch, Matches, Published
<1> QED BY <1>1, <1>2, <1>3, AlwaysInv, PTL DEF Spec, UnitsInUseStay


EveryRecipeSells ==
  \A r \in Recipe : \A v \in getPublishedRecipeForCatalogItem(version, r) : Sells(version, v)

(* So a sale of a published recipe could only ever fail for its units.     *)
THEOREM UnitsKeptSell == Spec /\ UnitsInUseStay => []EveryRecipeSells
<1>1. RecipeInv /\ FinitelyMany /\ NestedUnitsMatch => EveryRecipeSells
  <2> SUFFICES ASSUME RecipeInv, FinitelyMany, NestedUnitsMatch, NEW r \in Recipe,
                      NEW v \in getPublishedRecipeForCatalogItem(version, r)
               PROVE  Sells(version, v)
    BY DEF EveryRecipeSells
  <2>1. v \in Published(version) /\ Sellable(version)
    BY RecipesFoundAreSellable
  <2>2. Below(version, v) \subseteq Published(version)
    <3>1. {v} \subseteq Published(version) /\ Published(version) \subseteq DOMAIN version
      BY <2>1 DEF Published
    <3>2. \A w \in Published(version) : Nested(version, w) \subseteq Published(version)
      BY <2>1 DEF Sellable, Closed
    <3> QED BY <3>1, <3>2 DEF Below, Reachable
  <2>3. MeasuredInItsUnits(version, v)
    BY <2>2 DEF MeasuredInItsUnits, NestedUnitsMatch, MeasuresMatch, Below
  <2> QED BY <2>3, RecipesFoundAreSellable
<1> QED BY <1>1, UnitsKeptMatch, AlwaysInv, VersionsAreFinite, PTL

=============================================================================
