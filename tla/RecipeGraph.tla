----------------------------- MODULE RecipeGraph -----------------------------
(***************************************************************************)
(* Recipes and preparations (recipes-service.ts): specifications with      *)
(* numbered versions, DRAFT or PUBLISHED, whose components nest versions   *)
(* of preparations.  Nothing nests a recipe.                               *)
(*                                                                         *)
(* Every command is one transaction: it locks the version row it is about  *)
(* (FOR UPDATE; a new draft has none), looks at its status, takes the      *)
(* tenant's advisory lock, and only then validates, writes and asks        *)
(* whether the graph is still acyclic, all in one step here, and commits   *)
(* in another.  A row inserted for a nested version share-locks that       *)
(* version (its foreign key), which waits for a command that has locked it *)
(* and waits for the tenant lock: a cycle that PostgreSQL breaks by        *)
(* failing one of the two.                                                 *)
(*                                                                         *)
(* One tenant.  Catalog components, of which a draft without nested        *)
(* versions has at least one, the materialization mode and the yield are   *)
(* left out; "amount" stands for the batch size or normative output with   *)
(* the quantities that go with it.                                         *)
(***************************************************************************)
EXTENDS Integers, FiniteSets

CONSTANTS Preparation, Recipe,   \* specification ids
          Session, Unit,
          Amount,                \* batch sizes that commands name
          MaxAmount,             \* bound on scaled batch sizes
          MaxNested,             \* bound on nested versions per command
          MaxVersions,           \* bound on versions per specification
          MaxCalls,              \* bound on commands
          NoVersion, NoCommand

ASSUME RecipeAssumption ==
  /\ MaxAmount \in Nat /\ Amount \subseteq 1..MaxAmount /\ MaxNested \in Nat
  /\ MaxVersions \in Nat \ {0} /\ MaxCalls \in Nat
  /\ Preparation \cap Recipe = {}

VARIABLES version,       \* recipe_version and preparation_version with their components
          call,          \* what each session is doing
          calls          \* commands sent so far

vars == <<version, call, calls>>

Specification == Preparation \cup Recipe

VersionId == Specification \X (1..MaxVersions)

\* nested: the versions of preparations it contains, with the unit each is measured in.
VersionRecord(ids) ==
  [status : {"DRAFT", "PUBLISHED"}, unit : Unit, amount : 1..MaxAmount,
   nested : SUBSET (ids \X Unit)]

\* row: the version written and not committed yet, as <<id, record>>.
Idle == [op |-> "none", step |-> "done", id |-> NoVersion, command |-> NoCommand, row |-> <<>>]

Init ==
  /\ version = [v \in {} |-> NoVersion]
  /\ call = [s \in Session |-> Idle]
  /\ calls = 0

-----------------------------------------------------------------------------
(* The graph *)

Nested(f, v) == {e[1] : e \in f[v].nested}

IsLatest(f, v) == \A w \in DOMAIN f : w[1] = v[1] => w[2] <= v[2]

Published(f) == {v \in DOMAIN f : f[v].status = "PUBLISHED"}

\* Following edges from anywhere, one cannot stay in S for ever.
Acyclic(E, N) ==
  \A S \in SUBSET N : S # {} => \E x \in S : \A y \in S : <<x, y>> \notin E

\* A search through published versions only, which a draft can then close into a cycle.
PublishedEdges(f) ==
  {e \in Preparation \X Preparation :
     \E v \in Published(f) : v[1] = e[1] /\ \E w \in Nested(f, v) : w[1] = e[2]}

\* assertPreparationGraphAcyclic: from the latest version of each preparation to
\* the specifications of what it nests.
SpecificationEdges(f) ==
  {e \in Preparation \X Preparation :
     \E v \in DOMAIN f : /\ v[1] = e[1] /\ IsLatest(f, v)
                         /\ \E w \in Nested(f, v) : w[1] = e[2]}

assertPreparationGraphAcyclic(f) == Acyclic(SpecificationEdges(f), Preparation)

\* assertReachablePreparationsPublished: what every set holds that holds the roots
\* and all that its members nest.
Reachable(f, roots) ==
  {v \in DOMAIN f : \A Q \in SUBSET DOMAIN f :
     (roots \subseteq Q /\ \A w \in Q : Nested(f, w) \subseteq Q) => v \in Q}

\* Publishing whatever the parts are.
AnyParts(f, v) == TRUE

ReachablePublished(f, v) == Reachable(f, Nested(f, v)) \subseteq Published(f)

-----------------------------------------------------------------------------
(* Locks *)

\* The FOR UPDATE lock of a version row, held from its first statement on.
Holds(s, v) ==
  call[s].id = v /\ call[s].step \in {"graph", "write", "commit"} /\ v \in DOMAIN version

\* The versions whose rows the inserted components refer to.
Referenced(s) ==
  LET c == call[s] IN
  CASE c.op \in {"create", "update"} -> c.command.nested
    [] c.op \in {"scale", "next"} -> Nested(version, c.id)
    [] OTHER -> {}

Blockers(s) ==
  IF call[s].step # "write" THEN {}
  ELSE {t \in Session \ {s} : \E v \in Referenced(s) : Holds(t, v)}

\* Locked FOR UPDATE by the command about it, or share-locked by a new component.
KeepsRow(t, v) == Holds(t, v) \/ (call[t].step = "commit" /\ v \in Referenced(t))

RowFree(v) == \A t \in Session : ~KeepsRow(t, v)

\* A flag that is up as soon as a command has its row.
WaitsForAnybody(s, t) ==
  t # s /\ call[s].step = "graph" /\ call[t].step \in {"graph", "write", "commit"}

\* The tenant's advisory lock is held to the end of the transaction.
WaitsForGraph(s, t) == call[s].step = "graph" /\ call[t].step \in {"write", "commit"}

lockTenantRecipeGraph(s) == \A t \in Session : ~WaitsForGraph(s, t)

\* s stands still until t commits or fails.
WaitsFor(s, t) ==
  \/ call[s].step = "row" /\ KeepsRow(t, call[s].id)
  \/ WaitsForGraph(s, t)
  \/ t \in Blockers(s)

-----------------------------------------------------------------------------
(* Commands *)

Command ==
  [nested : {N \in SUBSET DOMAIN version : Cardinality(N) <= MaxNested /\ N \subseteq Preparation \X Nat},
   unit : Unit, amount : Amount]

Begin(s, op, step, v, command) ==
  /\ call[s].step = "done" /\ calls < MaxCalls
  /\ calls' = calls + 1
  /\ call' = [call EXCEPT ![s] = [op |-> op, step |-> step, id |-> v, command |-> command,
                                  row |-> <<>>]]
  /\ UNCHANGED version

\* randomUUID: nobody else has or is about to use the specification.
StartCreate(s) ==
  \E p \in Specification, command \in Command :
    /\ \A v \in DOMAIN version : v[1] # p
    /\ \A t \in Session : call[t].id # <<p, 1>>
    /\ Begin(s, "create", "graph", <<p, 1>>, command)

StartUpdate(s) ==
  \E v \in DOMAIN version, command \in Command : Begin(s, "update", "row", v, command)

StartScale(s) ==
  \E v \in DOMAIN version : v[1] \in Recipe /\ Begin(s, "scale", "row", v, NoCommand)

StartPublish(s) == \E v \in DOMAIN version : Begin(s, "publish", "row", v, NoCommand)

\* ORDER BY version_number DESC LIMIT 1 picks the row before the lock is waited for.
StartNext(s) ==
  \E v \in DOMAIN version :
    IsLatest(version, v) /\ v[2] < MaxVersions /\ Begin(s, "next", "row", v, NoCommand)

GoTo(s, step) == call' = [call EXCEPT ![s].step = step]

Return(s) == call' = [call EXCEPT ![s] = Idle]

\* A status that is looked up but not insisted on.
AnyStatus(c) == TRUE

\* What the locked row has to be.
RightStatus(c) == version[c.id].status = (IF c.op = "next" THEN "PUBLISHED" ELSE "DRAFT")

LockRow(s) ==
  /\ call[s].step = "row" /\ RowFree(call[s].id)
  /\ IF RightStatus(call[s]) THEN GoTo(s, "graph") ELSE Return(s)
  /\ UNCHANGED <<version, calls>>

LockGraph(s) ==
  /\ call[s].step = "graph" /\ lockTenantRecipeGraph(s)
  /\ GoTo(s, "write")
  /\ UNCHANGED <<version, calls>>

\* validateComponents: a nested version is measured in its output unit.
Components(N) == {<<v, version[v].unit>> : v \in N}

MeasuresMatch(nested) == \A e \in nested : e[2] = version[e[1]].unit

Put(v, rec) == [w \in DOMAIN version \cup {v} |-> IF w = v THEN rec ELSE version[w]]

HasLocks(s, op) == call[s].step = "write" /\ call[s].op = op /\ Blockers(s) = {}

\* rec is written if the command passes its checks, or the command fails.
WriteIf(ok, s, v, rec) ==
  /\ IF ok THEN call' = [call EXCEPT ![s] = [@ EXCEPT !.step = "commit", !.row = <<v, rec>>]]
           ELSE Return(s)
  /\ UNCHANGED <<version, calls>>

Draft(command) ==
  [status |-> "DRAFT", unit |-> command.unit, amount |-> command.amount,
   nested |-> Components(command.nested)]

CreateDraft(s) ==
  LET v == call[s].id
      rec == Draft(call[s].command)
  IN  /\ HasLocks(s, "create")
      /\ WriteIf(assertPreparationGraphAcyclic(Put(v, rec)), s, v, rec)

\* Whatever a command leaves out stays; components left out are not validated again.
Overrides(old, new) ==
  { [status |-> "DRAFT", unit |-> unit, amount |-> amount, nested |-> nested] :
    unit \in {old.unit, new.unit}, amount \in {old.amount, new.amount},
    nested \in {old.nested, new.nested} }

UpdateDraft(s) ==
  LET v == call[s].id IN
  /\ HasLocks(s, "update")
  /\ \E rec \in Overrides(version[v], Draft(call[s].command)) :
       WriteIf(assertPreparationGraphAcyclic(Put(v, rec)), s, v, rec)

ScaleRecipe(s) ==
  LET v == call[s].id IN
  /\ HasLocks(s, "scale")
  /\ \E amount \in 1..MaxAmount :
       WriteIf(MeasuresMatch(version[v].nested) /\ assertPreparationGraphAcyclic(version),
               s, v, [version[v] EXCEPT !.amount = amount])

Publish(s) ==
  LET v == call[s].id IN
  /\ HasLocks(s, "publish")
  /\ WriteIf(ReachablePublished(version, v) /\ assertPreparationGraphAcyclic(version),
             s, v, [version[v] EXCEPT !.status = "PUBLISHED"])

\* UNIQUE (specification, version_number) refuses the second of two, and nothing
\* asks about cycles.
CreateNext(s) ==
  LET v == call[s].id
      next == <<v[1], v[2] + 1>>
  IN  /\ HasLocks(s, "next")
      /\ WriteIf(next \notin DOMAIN version, s, next, [version[v] EXCEPT !.status = "DRAFT"])

Commit(s) ==
  /\ call[s].step = "commit"
  /\ version' = Put(call[s].row[1], call[s].row[2])
  /\ Return(s)
  /\ UNCHANGED calls

\* A failure in the middle of a transaction.
Rollback(s) ==
  /\ call[s].step # "done"
  /\ Return(s)
  /\ UNCHANGED <<version, calls>>

\* PostgreSQL's answer to the cycle: either party fails.
DeadlockAbort(s) ==
  /\ \E t \in Session : /\ Blockers(t) # {}
                        /\ s = t \/ s \in Blockers(t)
  /\ Return(s)
  /\ UNCHANGED <<version, calls>>

CallStep(s) ==
  \/ LockRow(s) \/ LockGraph(s)
  \/ CreateDraft(s) \/ UpdateDraft(s) \/ ScaleRecipe(s) \/ Publish(s) \/ CreateNext(s)
  \/ Commit(s)
  \/ DeadlockAbort(s)

Next ==
  \E s \in Session :
    \/ StartCreate(s) \/ StartUpdate(s) \/ StartScale(s) \/ StartPublish(s) \/ StartNext(s)
    \/ CallStep(s) \/ Rollback(s)

Spec == Init /\ [][Next]_vars

-----------------------------------------------------------------------------
(* Properties *)

CallRecord ==
  [op : {"none", "create", "update", "scale", "publish", "next"},
   step : {"done", "row", "graph", "write", "commit"},
   id : VersionId \cup {NoVersion},
   command : [nested : SUBSET VersionId, unit : Unit, amount : Amount] \cup {NoCommand},
   row : (VersionId \X VersionRecord(VersionId)) \cup {<<>>}]

\* The status a command looked at is still there when it writes.
TypeOK ==
  /\ DOMAIN version \subseteq VersionId
  /\ version \in [DOMAIN version -> VersionRecord(DOMAIN version \cap (Preparation \X Nat))]
  /\ calls \in 0..MaxCalls
  /\ call \in [Session -> CallRecord]
  /\ \A s \in Session : LET c == call[s] IN
       /\ c.op \in {"create", "update"} => c.command \in Command
       /\ c.op \in {"update", "scale", "publish", "next"} => c.id \in DOMAIN version
       /\ c.op = "create" => c.id \notin DOMAIN version
       /\ c.step \in {"graph", "write", "commit"} /\ c.op # "create" => RightStatus(c)

CompositionEdges == {e \in (DOMAIN version) \X (DOMAIN version) : e[2] \in Nested(version, e[1])}

(***************************************************************************)
(* "Nested preparation graph with cycle rejection": no version is, through *)
(* any nesting, part of itself, although two drafts that are each acyclic  *)
(* may be edited at once, only latest versions are searched for cycles,    *)
(* and createNext searches for none.                                       *)
(***************************************************************************)
CompositionAcyclic == Acyclic(CompositionEdges, DOMAIN version)

(***************************************************************************)
(* What is published consists of published versions only, so what a sale   *)
(* explodes is fixed all the way down.                                     *)
(***************************************************************************)
PublishedIsClosed ==
  \A v \in Published(version) : Nested(version, v) \subseteq Published(version)

(***************************************************************************)
(* At most one draft per specification, and it is the latest version, with *)
(* numbers that leave no gap: createNext looks for the latest before it    *)
(* waits for it.                                                           *)
(***************************************************************************)
OneDraft ==
  \A v \in DOMAIN version : \A n \in 1..(v[2] - 1) :
    <<v[1], n>> \in Published(version)

(***************************************************************************)
(* "Published version immutability": no update, scaling or publication     *)
(* that was under way changes a published version, its amounts or its      *)
(* components.                                                             *)
(***************************************************************************)
PublishedIsImmutable ==
  [][\A v \in Published(version) : v \in DOMAIN version' /\ version'[v] = version[v]]_vars

(***************************************************************************)
(* Row locks are taken before the tenant lock and share locks after it, so *)
(* commands can wait for each other in a circle.  However many do, two of  *)
(* them wait for each other: one has the tenant lock and waits for a row,  *)
(* the other has the row and waits for the tenant lock.  PostgreSQL sees   *)
(* these two and fails one of them; there is no other way for all commands *)
(* to stand still.                                                         *)
(***************************************************************************)
DeadlocksAreOfTwo ==
  \A S \in SUBSET Session :
    (S # {} /\ \A s \in S : \E t \in S : WaitsFor(s, t))
      => \E s, t \in S : t \in Blockers(s) /\ WaitsForGraph(t, s)

(***************************************************************************)
(* "Component units must match catalog base unit or nested preparation     *)
(* output unit", for what is published.                                    *)
(***************************************************************************)
NestedUnitsMatch == \A v \in Published(version) : MeasuresMatch(version[v].nested)

=============================================================================
