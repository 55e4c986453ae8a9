----------------------- MODULE FileLocationCheck_proofs -----------------------
(***************************************************************************)
(* Theorems about FileLocationCheck, for every number of requests, items   *)
(* and systems, with their proofs.                                         *)
(***************************************************************************)
EXTENDS FileLocationCheck, FiniteSetTheorems, TLAPS

-----------------------------------------------------------------------------
(* What the helpers return.                                                *)

LEMMA BlankRowType == BlankRow \in Row
BY DEF BlankRow, Row, Places

LEMMA NoRunType == NoRun \in RunState
BY BlankRowType DEF NoRun, RunState

LEMMA FixedType ==
    ASSUME NEW i, NEW v \in Row, NEW found \in BOOLEAN
    PROVE  Fixed(i, v, found) \in Row
BY ConstantsAssumption DEF Fixed, Row, Places

LEMMA BackfilledType ==
    ASSUME NEW v \in Row
    PROVE  Backfilled(v) \in Row
BY DEF Backfilled, Row, Places

LEMMA UpdatedType ==
    ASSUME NEW current \in Row, NEW seen \in Row, NEW new \in Row
    PROVE  Updated(current, seen, new) \in Row
BY DEF Updated, Row

LEMMA LocatedType ==
    ASSUME NEW i, NEW v \in Row, NEW cache
    PROVE  Located(i, v, cache) \in Row
<1>1. CASE v.sys = Public
  BY <1>1 DEF Located, Row, Places
<1>2. CASE v.sys = NoSystem
  BY <1>2, ConstantsAssumption DEF Located
<1>3. CASE v.sys # Public /\ v.sys # NoSystem
  BY <1>3 DEF Located, Row, Places
<1>. QED  BY <1>1, <1>2, <1>3

LEMMA PutDownType ==
    ASSUME NEW state \in RunState
    PROVE  PutDown(state) \in RunState
BY BlankRowType DEF PutDown, RunState

LEMMA LiveCount ==
    ASSUME live \subseteq Items
    PROVE  Cardinality(live) \in Nat
BY ConstantsAssumption, FS_Subset, FS_CardinalityType

LEMMA CachedType ==
    ASSUME NEW state \in RunState,
           NEW tree \in [Unbuilt(state) -> SUBSET Items]
    PROVE  Cached(state, tree) \in RunState
<1>. DEFINE trees == [s \in Systems |-> IF s \in Unbuilt(state) THEN tree[s] ELSE state.tree[s]]
            built == state.built \cup Unbuilt(state)
<1>1. trees \in [Systems -> SUBSET Items] /\ built \in SUBSET Systems
  BY DEF RunState, Unbuilt
<1>2. Cached(state, tree) = [state EXCEPT !.tree = trees, !.built = built]
  BY DEF Cached
<1>. QED
  BY <1>1, <1>2 DEF RunState

LEMMA CountedType ==
    ASSUME NEW state \in RunState
    PROVE  Counted(state) \in RunState
<1>1. state.bad + 1 \in Nat
  BY DEF RunState
<1>. QED
  BY <1>1 DEF Counted, RunState

-----------------------------------------------------------------------------
(* Type correctness.                                                       *)

LEMMA InitType == Init => TypeOK
<1>. SUFFICES ASSUME Init PROVE TypeOK
  OBVIOUS
<1>1. check \in CheckRow
  BY DEF Init, NoCheck, CheckRow
<1>2. item \in [Items -> Row]
  BY ConstantsAssumption DEF Init, FreshRow
<1>3. run \in [Requests -> RunState]
  BY NoRunType DEF Init
<1>. QED
  BY <1>1, <1>2, <1>3 DEF Init, TypeOK, Status, Stages

LEMMA HandlerType ==
    ASSUME TypeOK, NEW r \in Requests, Guard(r) \/ HandlerStep(r) \/ HandlerDies(r)
    PROVE  TypeOK'
<1>. USE DEF TypeOK, rows, Goto
<1>1. CASE Guard(r)
  BY <1>1 DEF Guard, Stages, Opening, Stopped
<1>2. CASE ReadCheck(r)
  BY <1>2 DEF ReadCheck, HasRunningCheck, Stages, Opening
<1>3. CASE StartCheck(r)
  <2>0. NoCheck \in CheckRow
    BY DEF CheckRow, NoCheck
  <2>1. /\ [check EXCEPT !.running = TRUE, !.task = r] \in CheckRow
        /\ [check EXCEPT !.task = r] \in CheckRow
        /\ [NoCheck EXCEPT !.exists = TRUE, !.running = TRUE, !.task = r] \in CheckRow
    BY <2>0 DEF CheckRow
  <2>. QED
    BY <1>3, <2>1 DEF StartCheck, Status, Stages
<1>4. CASE StartRejected(r)
  BY <1>4 DEF StartRejected, Stages, Stopped
<1>5. CASE Enqueue(r)
  BY <1>5 DEF Enqueue, Stages
<1>6. CASE EnqueueFails(r)
  <2>1. [check EXCEPT !.running = FALSE] \in CheckRow
    BY DEF CheckRow
  <2>. QED
    BY <1>6, <2>1 DEF EnqueueFails, CheckRow, Status, Stages, Stopped
<1>7. CASE HandlerDies(r)
  BY <1>7 DEF HandlerDies, Stages, Stopped
<1>. QED
  BY <1>1, <1>2, <1>3, <1>4, <1>5, <1>6, <1>7 DEF HandlerStep

(* A worker step changes at most one run, one item and one Task: it is     *)
(* enough to type the new value.                                           *)
LEMMA WorkerType ==
    ASSUME TypeOK, NEW r \in Requests,
           WorkerStep(r) \/ TokenRefreshed(r) \/ RefreshRolledBack(r) \/ WorkerDies(r)
    PROVE  TypeOK'
<1>. USE DEF TypeOK, rows, Goto
<1>. run[r] \in RunState
  OBVIOUS
<1>0. ASSUME NEW stage \in Stages, StopWith(r, stage)
      PROVE  pc' \in [Requests -> Stages] /\ run' \in [Requests -> RunState]
  BY <1>0, NoRunType DEF StopWith
<1>1. CASE Begin(r)
  <2>1. CASE ~project
    BY <1>1, <2>1 DEF Begin, Stages, Stopped
  <2>2. CASE project
    <3>1. Cardinality(live) \in Nat
      BY LiveCount
    <3>2. [NoRun EXCEPT !.todo = live, !.total = Cardinality(live)] \in RunState
      BY <3>1, NoRunType DEF RunState
    <3>. QED
      BY <1>1, <2>2, <3>1, <3>2 DEF Begin, CheckRow, Stages, Working
  <2>. QED  BY <2>1, <2>2
<1>2. CASE Announce(r)
  BY <1>2 DEF Announce, Status, Stages, Working
<1>3. CASE BuildTrees(r)
  <2>1. PICK index \in Listing :
          run' = [run EXCEPT ![r].tree[ProjectSystem] = index, ![r].built = {ProjectSystem}]
    BY <1>3 DEF BuildTrees
  <2>2. [run[r] EXCEPT !.tree[ProjectSystem] = index, !.built = {ProjectSystem}] \in RunState
    BY ConstantsAssumption DEF Listing, RunState
  <2>. QED
    BY <1>3, <2>1, <2>2 DEF BuildTrees, Stages, Working
<1>4. CASE RunFails(r)
  BY <1>4, <1>0 DEF RunFails, CheckRow, Status, Stages, Stopped
<1>5. ASSUME NEW i \in Items, TakeItem(r, i) PROVE TypeOK'
  <2>1. CASE i \in live
    <3>1. [run[r] EXCEPT !.todo = @ \ {i}, !.at = i, !.seen = item[i], !.work = item[i]]
             \in RunState
      BY DEF RunState
    <3>. QED
      BY <1>5, <2>1, <3>1 DEF TakeItem, Stages, Working
  <2>2. CASE i \notin live
    BY <1>5, <2>2, <1>0 DEF TakeItem, Stages, Stopped
  <2>. QED  BY <2>1, <2>2
<1>6. CASE FixItem(r)
  <2>1. PICK found \in BOOLEAN :
          run' = [run EXCEPT ![r].work = Backfilled(Fixed(run[r].at, @, found))]
    BY <1>6 DEF FixItem
  <2>2. Backfilled(Fixed(run[r].at, run[r].work, found)) \in Row
    BY FixedType, BackfilledType DEF RunState
  <2>3. [run[r] EXCEPT !.work = Backfilled(Fixed(run[r].at, run[r].work, found))] \in RunState
    BY <2>2 DEF RunState
  <2>. QED
    BY <1>6, <2>1, <2>3 DEF FixItem, Stages, Working
<1>7. CASE CommitItem(r)
  <2>1. CASE run[r].at \in live
    <3>1. PICK tree \in [Unbuilt(run[r]) -> Listing] :
             /\ Save(r, Located(Cached(run[r], tree).at, Cached(run[r], tree).work,
                                Cached(run[r], tree).tree))
             /\ run' = [run EXCEPT ![r] = PutDown(Cached(run[r], tree))]
      BY <1>7, <2>1 DEF CommitItem
    <3>. DEFINE state == Cached(run[r], tree)
                new   == Located(state.at, state.work, state.tree)
    <3>2. tree \in [Unbuilt(run[r]) -> SUBSET Items]
      BY DEF Listing
    <3>3. state \in RunState
      BY <3>2, CachedType
    <3>4. new \in Row
      <4>1. state.work \in Row
        BY <3>3 DEF RunState
      <4>. QED  BY <4>1, LocatedType
    <3>5. Updated(item[run[r].at], run[r].seen, new) \in Row
      <4>1. run[r].seen \in Row /\ item[run[r].at] \in Row
        BY <2>1 DEF RunState
      <4>. QED  BY <3>4, <4>1, UpdatedType
    <3>6. item' \in [Items -> Row]
      BY <3>1, <3>5 DEF Save
    <3>7. PutDown(state) \in RunState
      BY <3>3, PutDownType
    <3>. QED
      BY <1>7, <2>1, <3>1, <3>6, <3>7 DEF CommitItem, Stages, Working
  <2>2. CASE run[r].at \notin live
    BY <1>7, <2>2, <1>0 DEF CommitItem, Stages, Stopped
  <2>. QED  BY <2>1, <2>2
<1>8. CASE ItemFails(r)
  <2>1. PutDown(Counted(run[r])) \in RunState
    BY CountedType, PutDownType
  <2>. QED
    BY <1>8, <2>1 DEF ItemFails, Stages, Working
<1>9. CASE Finish(r)
  <2>1. run[r].total \in Nat /\ run[r].bad \in Nat
    BY DEF RunState
  <2>2. run[r].total - run[r].bad \in Int
    BY <2>1
  <2>3. check' \in CheckRow
    BY <1>9, <2>1, <2>2 DEF Finish, CheckRow
  <2>. QED
    BY <1>9, <2>3 DEF Finish, Stages, Working
<1>10. CASE Report(r)
  BY <1>10, <1>0 DEF Report, Status, Stages, Stopped
<1>11. CASE ProjectVanished(r)
  BY <1>11, <1>0 DEF ProjectVanished, Stages, Stopped
<1>12. CASE WorkerDies(r)
  BY <1>12, <1>0 DEF WorkerDies, Stages, Stopped
<1>13. CASE TokenRefreshed(r)
  <2>0. run[r].at \in Items /\ run[r].seen \in Row /\ run[r].work \in Row
    BY <1>13 DEF TokenRefreshed, RunState
  <2>. DEFINE new == Updated(item[run[r].at], run[r].seen, run[r].work)
  <2>4. new \in Row
    BY <2>0, UpdatedType
  <2>5. item' = [item EXCEPT ![run[r].at] = new]
    BY <1>13 DEF TokenRefreshed, Save
  <2>1. item' \in [Items -> Row]
    BY <2>4, <2>5
  <2>2. [run[r] EXCEPT !.seen = item'[run[r].at], !.work = item'[run[r].at]] \in RunState
    BY <1>13, <2>1 DEF TokenRefreshed, RunState
  <2>. QED
    BY <1>13, <2>1, <2>2 DEF TokenRefreshed
<1>14. CASE RefreshRolledBack(r)
  <2>. DEFINE v == item[run[r].at]
  <2>1. PICK flag \in {v.flag, "no"} :
          run' = [run EXCEPT ![r].seen = v, ![r].work = [v EXCEPT !.flag = flag]]
    BY <1>14 DEF RefreshRolledBack
  <2>2. v \in Row /\ [v EXCEPT !.flag = flag] \in Row
    BY <1>14 DEF RefreshRolledBack, Row
  <2>3. [run[r] EXCEPT !.seen = v, !.work = [v EXCEPT !.flag = flag]] \in RunState
    BY <2>2 DEF RunState
  <2>. QED
    BY <1>14, <2>1, <2>3 DEF RefreshRolledBack
<1>. QED
  BY <1>1, <1>2, <1>3, <1>4, <1>5, <1>6, <1>7, <1>8, <1>9, <1>10, <1>11, <1>12,
     <1>13, <1>14 DEF WorkerStep

LEMMA OutsideType ==
    ASSUME TypeOK, Outside
    PROVE  TypeOK'
<1>1. ASSUME NEW i \in Items, PublishFile(i) \/ DeleteItem(i) PROVE TypeOK'
  BY <1>1 DEF PublishFile, DeleteItem, TypeOK
<1>2. CASE DeleteProject
  <2>1. check' \in CheckRow
    BY <1>2 DEF DeleteProject, NoCheck, CheckRow
  <2>. QED
    BY <1>2, <2>1 DEF DeleteProject, TypeOK, Status
<1>. QED
  BY <1>1, <1>2 DEF Outside

LEMMA NextType == TypeOK /\ [Next]_vars => TypeOK'
<1>. SUFFICES ASSUME TypeOK, [Next]_vars PROVE TypeOK'
  OBVIOUS
<1>1. CASE UNCHANGED vars
  BY <1>1 DEF vars, TypeOK
<1>. QED
  BY <1>1, HandlerType, WorkerType, OutsideType DEF Next, Crash

(* Every reachable state is well typed, for any number of overlapping      *)
(* refreshes, crashes and deletions.                                       *)
THEOREM TypeCorrect == Spec => []TypeOK
BY InitType, NextType, PTL DEF Spec

-----------------------------------------------------------------------------
(***************************************************************************)
(* An open check is explained.  The invariant needs one more fact: the     *)
(* check row goes with the project.                                        *)
(***************************************************************************)
RowsCascade == ~project => ~check.exists

LEMMA ExplainedStep ==
    ASSUME TypeOK, RowsCascade, OpenCheckIsExplained, [Next]_vars
    PROVE  RowsCascade' /\ OpenCheckIsExplained'
<1>. USE DEF RowsCascade, HasRunningCheck, rows, Goto
<1>. DEFINE Explaining == InProgress \cup {"wedged", "crashed"}
<1>0. ASSUME NEW r \in Requests, NEW stage \in Explaining, Goto(r, stage),
             RowsCascade'
      PROVE  RowsCascade' /\ OpenCheckIsExplained'
  BY <1>0 DEF OpenCheckIsExplained, TypeOK
<1>1. ASSUME NEW r \in Requests, pc[r] \notin Explaining, NEW stage, Goto(r, stage),
             UNCHANGED <<project, check>>
      PROVE  RowsCascade' /\ OpenCheckIsExplained'
  BY <1>1 DEF OpenCheckIsExplained, TypeOK
<1>2. ASSUME ~HasRunningCheck', RowsCascade'
      PROVE  RowsCascade' /\ OpenCheckIsExplained'
  BY <1>2 DEF OpenCheckIsExplained
<1>3. ASSUME UNCHANGED <<project, check, pc>>
      PROVE  RowsCascade' /\ OpenCheckIsExplained'
  BY <1>3 DEF OpenCheckIsExplained
<1>. USE DEF InProgress, Working, Opening
<1>4. ASSUME NEW r \in Requests, Guard(r) \/ HandlerStep(r) \/ HandlerDies(r)
      PROVE  RowsCascade' /\ OpenCheckIsExplained'
  <2>1. CASE Guard(r)
    BY <1>1, <2>1 DEF Guard
  <2>2. CASE ReadCheck(r)
    BY <1>1, <2>2 DEF ReadCheck
  <2>3. CASE StartCheck(r)
    BY <1>0, <2>3 DEF StartCheck
  <2>4. CASE StartRejected(r)
    BY <1>1, <2>4 DEF StartRejected
  <2>5. CASE Enqueue(r)
    BY <1>0, <2>5 DEF Enqueue
  <2>6. CASE EnqueueFails(r)
    BY <1>2, <2>6 DEF EnqueueFails, TypeOK, CheckRow
  <2>7. CASE HandlerDies(r)
    BY <1>0, <1>1, <2>7 DEF HandlerDies
  <2>. QED
    BY <1>4, <2>1, <2>2, <2>3, <2>4, <2>5, <2>6, <2>7 DEF HandlerStep
<1>5. ASSUME NEW r \in Requests,
             WorkerStep(r) \/ TokenRefreshed(r) \/ RefreshRolledBack(r) \/ WorkerDies(r)
      PROVE  RowsCascade' /\ OpenCheckIsExplained'
  <2>. USE DEF StopWith
  <2>1. CASE Begin(r)
    BY <1>0, <1>2, <2>1 DEF Begin, TypeOK, CheckRow
  <2>2. CASE Announce(r)
    BY <1>0, <2>2 DEF Announce
  <2>3. CASE BuildTrees(r)
    BY <1>0, <2>3 DEF BuildTrees
  <2>4. CASE RunFails(r)
    BY <1>2, <2>4 DEF RunFails, TypeOK, CheckRow
  <2>5. ASSUME NEW i \in Items, TakeItem(r, i)
        PROVE  RowsCascade' /\ OpenCheckIsExplained'
    BY <1>0, <2>5 DEF TakeItem
  <2>6. CASE FixItem(r)
    BY <1>0, <2>6 DEF FixItem
  <2>7. CASE CommitItem(r)
    BY <1>0, <2>7 DEF CommitItem
  <2>8. CASE ItemFails(r)
    BY <1>0, <2>8 DEF ItemFails
  <2>9. CASE Finish(r)
    BY <1>2, <2>9 DEF Finish, TypeOK, CheckRow
  <2>10. CASE Report(r)
    BY <1>1, <2>10 DEF Report
  <2>11. CASE ProjectVanished(r)
    BY <1>0, <2>11 DEF ProjectVanished
  <2>12. CASE WorkerDies(r)
    BY <1>0, <2>12 DEF WorkerDies
  <2>13. CASE TokenRefreshed(r) \/ RefreshRolledBack(r)
    BY <1>3, <2>13 DEF TokenRefreshed, RefreshRolledBack
  <2>. QED
    BY <1>5, <2>1, <2>2, <2>3, <2>4, <2>5, <2>6, <2>7, <2>8, <2>9, <2>10, <2>11,
       <2>12, <2>13 DEF WorkerStep
<1>6. CASE Outside
  <2>1. ASSUME NEW i \in Items, PublishFile(i) \/ DeleteItem(i)
        PROVE  RowsCascade' /\ OpenCheckIsExplained'
    BY <1>3, <2>1 DEF PublishFile, DeleteItem
  <2>2. CASE DeleteProject
    BY <1>2, <2>2 DEF DeleteProject, NoCheck
  <2>. QED
    BY <1>6, <2>1, <2>2 DEF Outside
<1>7. CASE UNCHANGED vars
  BY <1>3, <1>7 DEF vars
<1>. QED
  BY <1>4, <1>5, <1>6, <1>7 DEF Next, Crash

(* A check is never left open by the normal course of events: somebody is  *)
(* still working on it, or a process died or a run wedged.                 *)
THEOREM OpenChecksExplained == Spec => []OpenCheckIsExplained
<1>1. Init => RowsCascade /\ OpenCheckIsExplained
  BY DEF Init, RowsCascade, OpenCheckIsExplained, HasRunningCheck, NoCheck
<1>2. TypeOK /\ RowsCascade /\ OpenCheckIsExplained /\ [Next]_vars
        => RowsCascade' /\ OpenCheckIsExplained'
  BY ExplainedStep
<1>. QED
  BY <1>1, <1>2, TypeCorrect, PTL DEF Spec

-----------------------------------------------------------------------------
(***************************************************************************)
(* Public means published.  A worker holds rows and tree listings read     *)
(* earlier, and saves column by column over a row others may have changed. *)
(* The invariant says of every copy of a row what it says of the row, and  *)
(* that all copies agree on whether the file was public from the start.    *)
(***************************************************************************)
Truthful(v, isPublished, bornPublic) ==
    /\ v.sys = Public /\ v.orig # Public => isPublished
    /\ v.orig = Public <=> bornPublic

TruthfulFor(i, v) == Truthful(v, i \in published, item[i].orig = Public)

Holding(q) == pc[q] \in {"item", "fixed"}

RunTruthful(q) ==
    /\ \A s \in Systems : run[q].tree[s] \subseteq published
    /\ Holding(q) => /\ run[q].at \in Items
                     /\ TruthfulFor(run[q].at, run[q].seen)
                     /\ TruthfulFor(run[q].at, run[q].work)

TruthInv == /\ \A i \in Items : TruthfulFor(i, item[i])
            /\ \A q \in Requests : RunTruthful(q)

LEMMA UpdatedTruthful ==
    ASSUME NEW current \in Row, NEW seen \in Row, NEW new \in Row,
           NEW p \in BOOLEAN, NEW b \in BOOLEAN,
           Truthful(current, p, b), Truthful(seen, p, b), Truthful(new, p, b)
    PROVE  Truthful(Updated(current, seen, new), p, b)
BY DEF Truthful, Updated, Row

LEMMA FixTruthful ==
    ASSUME NEW i, NEW v \in Row, NEW found \in BOOLEAN,
           NEW p \in BOOLEAN, NEW b \in BOOLEAN, Truthful(v, p, b)
    PROVE  Truthful(Backfilled(Fixed(i, v, found)), p, b)
<1>. DEFINE w == Fixed(i, v, found)
<1>1. w \in Row /\ w.sys = v.sys /\ (v.orig # NoSystem => w.orig = v.orig)
      /\ (v.orig = NoSystem => w.orig \in {NoSystem, ProjectSystem})
  BY FixedType DEF Fixed, Row
<1>2. Truthful(w, p, b)
  BY <1>1, ConstantsAssumption DEF Truthful
<1>3. Backfilled(w).orig = w.orig
      /\ Backfilled(w).sys = IF w.sys = NoSystem THEN w.orig ELSE w.sys
  BY <1>1 DEF Backfilled, Row
<1>. QED
  BY <1>2, <1>3 DEF Truthful

LEMMA LocatedFields ==
    ASSUME NEW i, NEW v \in Row, NEW cache
    PROVE  LET w == Located(i, v, cache)
           IN /\ w.orig = v.orig
              /\ w.sys = v.sys \/ (w.sys = Public /\ v.sys \in Systems /\ i \in cache[v.sys])
<1>1. CASE v.sys = Public
  BY <1>1 DEF Located, Row, Places
<1>2. CASE v.sys = NoSystem
  BY <1>2, ConstantsAssumption DEF Located
<1>3. CASE v.sys # Public /\ v.sys # NoSystem
  BY <1>3 DEF Located, Row, Places
<1>. QED  BY <1>1, <1>2, <1>3

(* It is enough to look at the run that moved and the item it saved.       *)
LEMMA TruthFrame ==
    ASSUME TypeOK, TruthInv, NEW r \in Requests,
           published \subseteq published',
           \A i \in Items : item'[i].orig = Public <=> item[i].orig = Public,
           \A i \in Items : TruthfulFor(i, item[i])',
           \A q \in Requests \ {r} : run'[q] = run[q] /\ pc'[q] = pc[q],
           RunTruthful(r)'
    PROVE  TruthInv'
<1>1. ASSUME NEW q \in Requests \ {r} PROVE RunTruthful(q)'
  BY <1>1 DEF TruthInv, RunTruthful, Holding, TruthfulFor, Truthful
<1>. QED
  BY <1>1 DEF TruthInv

(* Steps that leave the item rows alone.                                   *)
LEMMA TruthUnsaved ==
    ASSUME TypeOK, TruthInv, NEW r \in Requests, item' = item, published' = published,
           \A q \in Requests \ {r} : run'[q] = run[q] /\ pc'[q] = pc[q],
           RunTruthful(r)'
    PROVE  TruthInv'
<1>1. \A i \in Items : TruthfulFor(i, item[i])'
  BY DEF TruthInv, TruthfulFor
<1>. QED
  BY <1>1, TruthFrame

LEMMA SaveTruthful ==
    ASSUME TypeOK, TruthInv, NEW r \in Requests, Holding(r), published' = published,
           NEW new \in Row, TruthfulFor(run[r].at, new), Save(r, new)
    PROVE  /\ \A i \in Items : item'[i].orig = Public <=> item[i].orig = Public
           /\ \A i \in Items : TruthfulFor(i, item[i])'
<1>. DEFINE at == run[r].at
            merged == Updated(item[at], run[r].seen, new)
<1>1. at \in Items /\ run[r].seen \in Row /\ item[at] \in Row
  BY DEF TruthInv, RunTruthful, TypeOK, RunState
<1>2. Truthful(merged, at \in published, item[at].orig = Public)
  <2>. DEFINE p == at \in published
              b == item[at].orig = Public
  <2>1. Truthful(item[at], p, b) /\ Truthful(run[r].seen, p, b) /\ Truthful(new, p, b)
    BY <1>1 DEF TruthInv, RunTruthful, TruthfulFor
  <2>2. p \in BOOLEAN /\ b \in BOOLEAN
    OBVIOUS
  <2>. HIDE DEF p, b
  <2>3. Truthful(merged, p, b)
    BY <1>1, <2>1, <2>2, UpdatedTruthful
  <2>. QED  BY <2>3 DEF p, b
<1>3. item' = [item EXCEPT ![at] = merged]
  BY DEF Save
<1>. QED
  BY <1>1, <1>2, <1>3 DEF TypeOK, TruthInv, TruthfulFor, Truthful

LEMMA TruthStep ==
    ASSUME TypeOK, TypeOK', TruthInv, [Next]_vars
    PROVE  TruthInv'
<1>. USE DEF rows, Goto
<1>0. ASSUME NEW r \in Requests, NEW stage, StopWith(r, stage), ~(stage \in {"item", "fixed"}),
             item' = item, published' = published
      PROVE  TruthInv'
  <2>1. RunTruthful(r)'
    BY <1>0 DEF StopWith, TypeOK, RunTruthful, Holding, NoRun
  <2>. QED
    BY <1>0, <2>1, TruthUnsaved DEF StopWith, TypeOK
<1>1. ASSUME NEW r \in Requests, NEW stage, Goto(r, stage), ~(stage \in {"item", "fixed"}),
             UNCHANGED <<item, published, run>>
      PROVE  TruthInv'
  <2>1. RunTruthful(r)'
    BY <1>1 DEF TypeOK, TruthInv, RunTruthful, Holding
  <2>. QED
    BY <1>1, <2>1, TruthUnsaved DEF TypeOK
<1>2. ASSUME NEW r \in Requests, Guard(r) \/ HandlerStep(r) \/ HandlerDies(r)
      PROVE  TruthInv'
  BY <1>1, <1>2 DEF Guard, HandlerStep, ReadCheck, StartCheck, StartRejected, Enqueue,
                    EnqueueFails, HandlerDies
<1>3. ASSUME NEW r \in Requests,
             WorkerStep(r) \/ TokenRefreshed(r) \/ RefreshRolledBack(r) \/ WorkerDies(r)
      PROVE  TruthInv'
  <2>. run[r] \in RunState /\ RunTruthful(r)
    BY DEF TypeOK, TruthInv
  <2>1. CASE Begin(r)
    <3>1. CASE project
      <4>1. RunTruthful(r)'
        <5>1. run'[r].tree = NoRun.tree /\ pc'[r] = "announce"
          <6>1. run'[r] = [NoRun EXCEPT !.todo = live, !.total = Cardinality(live)]
            BY <2>1, <3>1 DEF Begin, TypeOK
          <6>2. pc'[r] = "announce"
            BY <2>1, <3>1 DEF Begin, TypeOK
          <6>. QED
            BY <6>1, <6>2, NoRunType DEF RunState
        <5>. QED
          BY <5>1 DEF RunTruthful, Holding, NoRun
      <4>. QED
        BY <2>1, <3>1, <4>1, TruthUnsaved DEF Begin, TypeOK
    <3>2. CASE ~project
      BY <1>1, <2>1, <3>2 DEF Begin
    <3>. QED  BY <3>1, <3>2
  <2>2. CASE Announce(r)
    BY <1>1, <2>2 DEF Announce
  <2>3. CASE BuildTrees(r)
    <3>1. PICK index \in Listing :
            run' = [run EXCEPT ![r].tree[ProjectSystem] = index, ![r].built = {ProjectSystem}]
      BY <2>3 DEF BuildTrees
    <3>2. RunTruthful(r)'
      BY <2>3, <3>1 DEF BuildTrees, TypeOK, RunState, RunTruthful, Holding, Listing
    <3>. QED
      BY <2>3, <3>1, <3>2, TruthUnsaved DEF BuildTrees, TypeOK
  <2>4. CASE RunFails(r)
    BY <1>0, <2>4 DEF RunFails
  <2>5. ASSUME NEW i \in Items, TakeItem(r, i) PROVE TruthInv'
    <3>1. CASE i \in live
      <4>1. RunTruthful(r)'
        BY <2>5, <3>1 DEF TakeItem, TypeOK, RunState, TruthInv, RunTruthful, TruthfulFor
      <4>. QED
        BY <2>5, <3>1, <4>1, TruthUnsaved DEF TakeItem, TypeOK
    <3>2. CASE i \notin live
      BY <1>0, <2>5, <3>2 DEF TakeItem
    <3>. QED  BY <3>1, <3>2
  <2>6. CASE FixItem(r)
    <3>1. PICK found \in BOOLEAN :
            run' = [run EXCEPT ![r].work = Backfilled(Fixed(run[r].at, @, found))]
      BY <2>6 DEF FixItem
    <3>. DEFINE w == Backfilled(Fixed(run[r].at, run[r].work, found))
    <3>2. Holding(r) /\ run[r].work \in Row
      BY <2>6 DEF FixItem, Holding, RunState
    <3>3. TruthfulFor(run[r].at, w)
      <4>. DEFINE p == run[r].at \in published
                  b == item[run[r].at].orig = Public
      <4>1. Truthful(run[r].work, p, b)
        BY <3>2 DEF RunTruthful, TruthfulFor
      <4>2. p \in BOOLEAN /\ b \in BOOLEAN
        OBVIOUS
      <4>. HIDE DEF p, b
      <4>3. Truthful(w, p, b)
        BY <3>2, <4>1, <4>2, FixTruthful
      <4>. QED  BY <4>3 DEF p, b, TruthfulFor
    <3>4. run'[r] = [run[r] EXCEPT !.work = w]
      BY <3>1 DEF TypeOK
    <3>5. RunTruthful(r)'
      BY <2>6, <3>2, <3>3, <3>4 DEF FixItem, RunState, RunTruthful, TruthfulFor
    <3>. QED
      BY <2>6, <3>1, <3>5, TruthUnsaved DEF FixItem, TypeOK
  <2>7. CASE CommitItem(r)
    <3>0. Holding(r)
      BY <2>7 DEF CommitItem, Holding
    <3>1. CASE run[r].at \in live
      <4>1. PICK tree \in [Unbuilt(run[r]) -> Listing] :
               /\ Save(r, Located(Cached(run[r], tree).at, Cached(run[r], tree).work,
                                  Cached(run[r], tree).tree))
               /\ run' = [run EXCEPT ![r] = PutDown(Cached(run[r], tree))]
        BY <2>7, <3>1 DEF CommitItem
      <4>. DEFINE state == Cached(run[r], tree)
                  new   == Located(state.at, state.work, state.tree)
      <4>2. tree \in [Unbuilt(run[r]) -> SUBSET Items]
        BY DEF Listing, TypeOK
      <4>3. state \in RunState /\ state.at = run[r].at /\ state.work = run[r].work
        BY <4>2, CachedType DEF Cached, RunState
      <4>4. \A sy \in Systems : state.tree[sy] \subseteq published
        BY DEF Cached, RunState, RunTruthful, Listing
      <4>5. state.work \in Row
        BY <4>3 DEF RunState
      <4>6. new \in Row /\ new.orig = state.work.orig
            /\ (new.sys = state.work.sys \/ (new.sys = Public /\ state.at \in published))
        BY <4>4, <4>5, LocatedType, LocatedFields
      <4>7. TruthfulFor(run[r].at, new)
        BY <3>0, <4>3, <4>6 DEF RunTruthful, TruthfulFor, Truthful
      <4>8. /\ \A i \in Items : item'[i].orig = Public <=> item[i].orig = Public
            /\ \A i \in Items : TruthfulFor(i, item[i])'
        BY <2>7, <3>0, <4>1, <4>6, <4>7, SaveTruthful DEF CommitItem
      <4>9. run'[r] = PutDown(state) /\ pc'[r] = "items"
        BY <2>7, <3>1, <4>1 DEF CommitItem, TypeOK
      <4>10. RunTruthful(r)'
        BY <2>7, <4>3, <4>4, <4>9 DEF CommitItem, PutDown, RunState, RunTruthful, Holding
      <4>11. published \subseteq published'
        BY <2>7 DEF CommitItem
      <4>12. \A q \in Requests \ {r} : run'[q] = run[q] /\ pc'[q] = pc[q]
        BY <2>7, <3>1, <4>1 DEF CommitItem, TypeOK
      <4>. QED
        BY <4>8, <4>10, <4>11, <4>12, TruthFrame
    <3>2. CASE run[r].at \notin live
      BY <1>0, <2>7, <3>2 DEF CommitItem
    <3>. QED  BY <3>1, <3>2
  <2>8. CASE ItemFails(r)
    <3>1. run'[r] = PutDown(Counted(run[r])) /\ pc'[r] = "items"
      BY <2>8 DEF ItemFails, TypeOK
    <3>2. RunTruthful(r)'
      BY <2>8, <3>1 DEF ItemFails, PutDown, Counted, RunState, RunTruthful, Holding
    <3>. QED
      BY <2>8, <3>2, TruthUnsaved DEF ItemFails, TypeOK
  <2>9. CASE Finish(r)
    BY <1>1, <2>9 DEF Finish
  <2>10. CASE Report(r)
    BY <1>0, <2>10 DEF Report
  <2>11. CASE ProjectVanished(r)
    BY <1>0, <2>11 DEF ProjectVanished
  <2>12. CASE WorkerDies(r)
    BY <1>0, <2>12 DEF WorkerDies
  <2>13. CASE TokenRefreshed(r)
    <3>1. Holding(r) /\ run[r].at \in Items /\ run[r].work \in Row
      BY <2>13 DEF TokenRefreshed, Holding, RunState, TypeOK
    <3>2. /\ \A i \in Items : item'[i].orig = Public <=> item[i].orig = Public
          /\ \A i \in Items : TruthfulFor(i, item[i])'
      BY <2>13, <3>1, SaveTruthful DEF TokenRefreshed, RunTruthful
    <3>3. RunTruthful(r)'
      BY <2>13, <3>1, <3>2 DEF TokenRefreshed, TypeOK, RunState, RunTruthful, Holding, TruthfulFor
    <3>. QED
      BY <2>13, <3>2, <3>3, TruthFrame DEF TokenRefreshed, TypeOK
  <2>14. CASE RefreshRolledBack(r)
    <3>. DEFINE v == item[run[r].at]
    <3>1. PICK flag \in {v.flag, "no"} :
            run' = [run EXCEPT ![r].seen = v, ![r].work = [v EXCEPT !.flag = flag]]
      BY <2>14 DEF RefreshRolledBack
    <3>2. run[r].at \in Items /\ v \in Row
      BY <2>14 DEF RefreshRolledBack, TypeOK
    <3>3. TruthfulFor(run[r].at, v) /\ TruthfulFor(run[r].at, [v EXCEPT !.flag = flag])
      BY <3>2 DEF TruthInv, TruthfulFor, Truthful, Row
    <3>4. run'[r] = [run[r] EXCEPT !.seen = v, !.work = [v EXCEPT !.flag = flag]]
      BY <3>1 DEF TypeOK
    <3>5. RunTruthful(r)'
      BY <2>14, <3>2, <3>3, <3>4 DEF RefreshRolledBack, RunState, RunTruthful, TruthfulFor
    <3>. QED
      BY <2>14, <3>1, <3>5, TruthUnsaved DEF RefreshRolledBack, TypeOK
  <2>. QED
    BY <1>3, <2>1, <2>2, <2>3, <2>4, <2>5, <2>6, <2>7, <2>8, <2>9, <2>10, <2>11,
       <2>12, <2>13, <2>14 DEF WorkerStep
<1>4. CASE Outside
  BY <1>4 DEF Outside, PublishFile, DeleteItem, DeleteProject, TruthInv, RunTruthful,
              Holding, TruthfulFor, Truthful
<1>5. CASE UNCHANGED vars
  BY <1>5 DEF vars, TruthInv, RunTruthful, Holding, TruthfulFor
<1>. QED
  BY <1>2, <1>3, <1>4, <1>5 DEF Next, Crash

(* Whatever overlaps, fails, dies or is deleted, an item is recorded on a  *)
(* public system only if it came from one or has been published.           *)
THEOREM PublicIsPublished == Spec => []PublicMeansPublished
<1>1. Init => TruthInv
  BY ConstantsAssumption DEF Init, TruthInv, RunTruthful, Holding, TruthfulFor, Truthful,
                             NoRun, FreshRow, Row
<1>2. TypeOK /\ TypeOK' /\ TruthInv /\ [Next]_vars => TruthInv'
  BY TruthStep
<1>3. TruthInv => PublicMeansPublished
  BY DEF TruthInv, TruthfulFor, Truthful, PublicMeansPublished
<1>. QED
  BY <1>1, <1>2, <1>3, TypeCorrect, PTL DEF Spec

-----------------------------------------------------------------------------
(***************************************************************************)
(* Refreshes take turns, when the project's POSTs are handled one at a     *)
(* time.  The open check row acts as a lock: it names the one refresh in   *)
(* progress, and nobody is between guard and commit while there is one.    *)
(* The lock is lost with the project, but then nothing can start.          *)
(***************************************************************************)
Entering(q) == pc[q] \in Opening \cup {"publishing"}

TurnInv ==
    /\ \A q \in Active : project => check.exists /\ check.running /\ check.task = q
    /\ \A q, s \in Active : q = s
    /\ \A q \in Requests : pc[q] \in Opening /\ project => Active = {} /\ ~HasRunningCheck
    /\ \A q, s \in Requests : Entering(q) /\ Entering(s) => q = s
    /\ \A q \in Requests : pc[q] = "updating" /\ project => check.exists
    /\ \A q \in Requests : pc[q] = "retaking" => ~project

(* The ways a step can move one request between the groups of stages.      *)
LEMMA MoveWithin ==
    ASSUME TypeOK, NEW r \in Requests, NEW stage, Goto(r, stage),
           pc[r] \in InProgress <=> stage \in InProgress,
           pc[r] \in Over <=> stage \in Over
    PROVE  Active' = Active /\ Ended' = Ended
BY DEF Active, Ended, Goto, TypeOK

LEMMA TurnWithin ==
    ASSUME TypeOK, TurnInv, NEW r \in Requests, NEW stage, Goto(r, stage),
           Active' = Active, project' = project,
           check'.exists = check.exists, check'.running = check.running,
           check'.task = check.task,
           stage \in Opening => pc[r] \in Opening,
           stage = "updating" => check.exists,
           stage = "retaking" => ~project,
           stage \in Opening \cup {"publishing"} => Entering(r)
    PROVE  TurnInv'
BY DEF TurnInv, Entering, HasRunningCheck, Goto, TypeOK

LEMMA MoveOut ==
    ASSUME TypeOK, TurnInv, NEW r \in Requests, NEW stage \in Over, Goto(r, stage),
           pc[r] \in InProgress, project' = project
    PROVE  TurnInv' /\ Cycle!End(r)
<1>1. r \in Active /\ Active = {r}
  BY DEF TurnInv, Active
<1>2. Active' = {}
  BY <1>1 DEF Active, Goto, TypeOK, InProgress, Over, Working
<1>3. Ended' = Ended \cup {r}
  BY DEF Ended, Goto, TypeOK, InProgress, Over, Working
<1>4. TurnInv'
  BY <1>1, <1>2 DEF TurnInv, Entering, Goto, TypeOK, Opening, Over
<1>. QED
  BY <1>1, <1>2, <1>3, <1>4 DEF Cycle!End

LEMMA MoveIn ==
    ASSUME TypeOK, TurnInv, NEW r \in Requests, StartCheck(r)
    PROVE  TurnInv' /\ Cycle!Start(r)
<1>. USE DEF Goto
<1>0. project /\ pc[r] \in Opening /\ pc' = [pc EXCEPT ![r] = "publishing"] /\ project' = project
  BY DEF StartCheck, rows, Opening
<1>1. Active = {}
  BY <1>0 DEF TurnInv
<1>2. Active' = {r}
  BY <1>0, <1>1 DEF Active, TypeOK, InProgress
<1>3. Ended' = Ended /\ r \notin Ended
  BY <1>0 DEF Ended, TypeOK, Over, Opening
<1>4. check'.exists /\ check'.running /\ check'.task = r
  <2>1. CASE pc[r] = "updating"
    <3>1. check.exists
      BY <1>0, <2>1 DEF TurnInv
    <3>. QED  BY <2>1, <3>1 DEF StartCheck, TypeOK, CheckRow
  <2>2. CASE pc[r] = "creating"
    <3>1. check' = [NoCheck EXCEPT !.exists = TRUE, !.running = TRUE, !.task = r]
      BY <2>2 DEF StartCheck
    <3>. QED  BY <3>1 DEF NoCheck
  <2>. QED  BY <1>0, <2>1, <2>2 DEF StartCheck, TurnInv
<1>5. \A q \in Requests : Entering(q) => q = r
  BY <1>0 DEF TurnInv, Entering
<1>6. TurnInv'
  BY <1>0, <1>2, <1>4, <1>5 DEF TurnInv, Entering, TypeOK, Opening
<1>. QED
  BY <1>1, <1>2, <1>3, <1>6 DEF Cycle!Start

(* Nobody new enters unless the row says that no refresh is in progress.   *)
LEMMA MoveToGuarded ==
    ASSUME TypeOK, TurnInv, Serial, NEW r \in Requests, Guard(r)
    PROVE  TurnInv' /\ Active' = Active /\ Ended' = Ended
<1>. DEFINE stage == IF HasRunningCheck THEN "refused" ELSE "guarded"
<1>1. pc[r] = "new" /\ project /\ Goto(r, stage) /\ project' = project /\ check' = check
  BY DEF Guard, rows
<1>2. \A q \in Requests : ~Entering(q)
  BY DEF Guard, Entering
<1>3. Active' = Active /\ Ended' = Ended
  BY <1>1, MoveWithin DEF InProgress, Over, Working
<1>4. stage = "guarded" => Active = {} /\ ~HasRunningCheck
  BY <1>1 DEF TurnInv, HasRunningCheck
<1>5. TurnInv'
  BY <1>1, <1>2, <1>3, <1>4 DEF TurnInv, Entering, HasRunningCheck, Goto, TypeOK, Opening
<1>. QED
  BY <1>3, <1>5

LEMMA TurnStep ==
    ASSUME TypeOK, TurnInv, Serial, [Next]_vars
    PROVE  TurnInv' /\ [Cycle!Next]_(Cycle!cycle)
<1>. DEFINE Goal == TurnInv' /\ [Cycle!Next]_(Cycle!cycle)
<1>. USE DEF rows
<1>0. ASSUME Active' = Active, Ended' = Ended, TurnInv' PROVE Goal
  BY <1>0 DEF Cycle!cycle
<1>1. ASSUME NEW r \in Requests, NEW stage, Goto(r, stage), pc[r] \in Stages,
             pc[r] \in InProgress <=> stage \in InProgress,
             pc[r] \in Over <=> stage \in Over,
             project' = project, check'.exists = check.exists,
             check'.running = check.running, check'.task = check.task,
             stage \in Opening => pc[r] \in Opening,
             stage = "updating" => check.exists,
             stage = "retaking" => ~project,
             stage \in Opening \cup {"publishing"} => Entering(r)
      PROVE  Goal
  <2>1. Active' = Active /\ Ended' = Ended
    BY <1>1, MoveWithin
  <2>2. TurnInv'
    BY <1>1, <2>1, TurnWithin
  <2>. QED  BY <1>0, <2>1, <2>2
<1>2. ASSUME NEW r \in Requests, NEW stage \in Over, Goto(r, stage),
             pc[r] \in InProgress, project' = project
      PROVE  Goal
  <2>1. TurnInv' /\ Cycle!End(r)
    BY <1>2, MoveOut
  <2>. QED  BY <2>1 DEF Cycle!Next
<1>3. ASSUME UNCHANGED <<project, check, pc>>
      PROVE  Goal
  <2>1. Active' = Active /\ Ended' = Ended
    BY <1>3 DEF Active, Ended
  <2>2. TurnInv'
    BY <1>3, <2>1 DEF TurnInv, Entering, HasRunningCheck
  <2>. QED  BY <1>0, <2>1, <2>2
<1>4. ASSUME NEW r \in Requests, Guard(r) \/ HandlerStep(r) \/ HandlerDies(r)
      PROVE  Goal
  <2>. pc[r] \in Stages
    BY DEF TypeOK
  <2>. USE DEF InProgress, Over, Working, Opening, Entering
  <2>1. CASE Guard(r)
    BY <1>0, <2>1, MoveToGuarded
  <2>2. CASE ReadCheck(r)
    <3>1. PICK stage \in {"creating", "updating", "retaking"} :
            /\ Goto(r, stage)
            /\ stage = "updating" => check.exists
            /\ stage = "retaking" => HasRunningCheck
      BY <2>2 DEF ReadCheck
    <3>2. pc[r] = "guarded" /\ UNCHANGED <<project, check>>
      BY <2>2 DEF ReadCheck
    <3>3. HasRunningCheck => ~project
      BY <3>2 DEF TurnInv
    <3>. QED
      BY <1>1, <3>1, <3>2, <3>3 DEF TypeOK
  <2>3. CASE StartCheck(r)
    <3>1. TurnInv' /\ Cycle!Start(r)
      BY <2>3, MoveIn
    <3>. QED  BY <3>1 DEF Cycle!Next
  <2>4. CASE StartRejected(r)
    BY <1>1, <2>4 DEF StartRejected
  <2>5. CASE Enqueue(r)
    BY <1>1, <2>5 DEF Enqueue
  <2>6. CASE EnqueueFails(r)
    BY <1>2, <2>6 DEF EnqueueFails
  <2>7. CASE HandlerDies(r)
    BY <1>1, <1>2, <2>7 DEF HandlerDies
  <2>. QED
    BY <1>4, <2>1, <2>2, <2>3, <2>4, <2>5, <2>6, <2>7 DEF HandlerStep
<1>5. ASSUME NEW r \in Requests,
             WorkerStep(r) \/ TokenRefreshed(r) \/ RefreshRolledBack(r) \/ WorkerDies(r)
      PROVE  Goal
  <2>. pc[r] \in Stages /\ check \in CheckRow
    BY DEF TypeOK
  <2>. USE DEF InProgress, Over, Working, Opening, Entering, StopWith
  <2>1. CASE Begin(r)
    <3>1. CASE project
      <4>1. /\ check'.exists = check.exists
            /\ check'.running = check.running
            /\ check'.task = check.task
        BY <2>1, <3>1 DEF Begin, CheckRow
      <4>. QED
        BY <1>1, <2>1, <3>1, <4>1 DEF Begin
    <3>2. CASE ~project
      BY <1>2, <2>1, <3>2 DEF Begin
    <3>. QED  BY <3>1, <3>2
  <2>2. CASE Announce(r)
    BY <1>1, <2>2 DEF Announce
  <2>3. CASE BuildTrees(r)
    BY <1>1, <2>3 DEF BuildTrees
  <2>4. CASE RunFails(r)
    BY <1>2, <2>4 DEF RunFails
  <2>5. ASSUME NEW i \in Items, TakeItem(r, i) PROVE Goal
    BY <1>1, <1>2, <2>5 DEF TakeItem
  <2>6. CASE FixItem(r)
    BY <1>1, <2>6 DEF FixItem
  <2>7. CASE CommitItem(r)
    BY <1>1, <1>2, <2>7 DEF CommitItem
  <2>8. CASE ItemFails(r)
    BY <1>1, <2>8 DEF ItemFails
  <2>9. CASE Finish(r)
    BY <1>2, <2>9 DEF Finish
  <2>10. CASE Report(r)
    BY <1>1, <2>10 DEF Report
  <2>11. CASE ProjectVanished(r)
    <3>1. CASE pc[r] = "report"
      BY <1>1, <2>11, <3>1 DEF ProjectVanished
    <3>2. CASE pc[r] # "report"
      BY <1>2, <2>11, <3>2 DEF ProjectVanished
    <3>. QED  BY <3>1, <3>2
  <2>12. CASE WorkerDies(r)
    <3>1. CASE pc[r] = "report"
      BY <1>1, <2>12, <3>1 DEF WorkerDies
    <3>2. CASE pc[r] # "report"
      BY <1>2, <2>12, <3>2 DEF WorkerDies
    <3>. QED  BY <3>1, <3>2
  <2>13. CASE TokenRefreshed(r) \/ RefreshRolledBack(r)
    BY <1>3, <2>13 DEF TokenRefreshed, RefreshRolledBack
  <2>. QED
    BY <1>5, <2>1, <2>2, <2>3, <2>4, <2>5, <2>6, <2>7, <2>8, <2>9, <2>10, <2>11,
       <2>12, <2>13 DEF WorkerStep
<1>6. CASE Outside
  <2>1. ASSUME NEW i \in Items, PublishFile(i) \/ DeleteItem(i) PROVE Goal
    BY <1>3, <2>1 DEF PublishFile, DeleteItem
  <2>2. CASE DeleteProject
    <3>1. Active' = Active /\ Ended' = Ended /\ pc' = pc /\ ~project'
      BY <2>2 DEF DeleteProject, Active, Ended
    <3>2. TurnInv'
      BY <3>1 DEF TurnInv, Entering
    <3>. QED  BY <1>0, <3>1, <3>2
  <2>. QED  BY <1>6, <2>1, <2>2 DEF Outside
<1>7. CASE UNCHANGED vars
  BY <1>3, <1>7 DEF vars
<1>. QED
  BY <1>4, <1>5, <1>6, <1>7 DEF Next, Crash

LEMMA TurnInit == Init => TurnInv /\ Cycle!Init
<1>. SUFFICES ASSUME Init PROVE TurnInv /\ Cycle!Init
  OBVIOUS
<1>1. Active = {} /\ Ended = {}
  BY DEF Init, Active, Ended, InProgress, Working, Over
<1>. QED
  BY <1>1 DEF Init, TurnInv, Entering, Opening, Cycle!Init

(* With its POSTs handled one at a time, the refreshes of a project take   *)
(* turns: the module implements RefreshCycle.                              *)
THEOREM TurnsTaken == ASSUME Serial PROVE Spec => RefreshesTakeTurns
<1>1. Init => TurnInv /\ Cycle!Init
  BY TurnInit
<1>2. TypeOK /\ TurnInv /\ [Next]_vars => TurnInv' /\ [Cycle!Next]_(Cycle!cycle)
  BY TurnStep
<1>. QED
  BY <1>1, <1>2, TypeCorrect, PTL DEF Spec, RefreshesTakeTurns, Cycle!Spec

-----------------------------------------------------------------------------
(***************************************************************************)
(* One writer.  When refreshes take turns nobody else saves an item while  *)
(* a worker holds it: the row as loaded is the row as it is, and a save    *)
(* writes exactly the worker's copy.  Sound then says of every row and of  *)
(* every copy that its columns agree with each other.                      *)
(***************************************************************************)
Sound(v) ==
    /\ v.orig # NoSystem => v.named
    /\ v.sys # NoSystem => v.path # "none"
    /\ v.flag = "yes" => v.sys = Public
    /\ v.sys \in Systems => v.orig # Public
    /\ v.flag = "no" => v.sys # Public /\ v.orig # Public
    /\ v.path = "published" <=> v.sys = Public /\ v.orig # Public

(* work is a later version of seen: it keeps a known location, and fills   *)
(* a missing one with the original location.                               *)
Grown(seen, work) ==
    /\ work.sys = seen.sys \/ (seen.sys = NoSystem /\ work.sys = work.orig)
    /\ work.orig = Public <=> seen.orig = Public
    /\ seen.sys = Public => work.path = seen.path

SoleWriter(q) ==
    Holding(q) => /\ run[q].at \in Items
                  /\ run[q].seen = item[run[q].at]
                  /\ Sound(run[q].work)
                  /\ Grown(run[q].seen, run[q].work)

SoleInv == /\ \A i \in Items : Sound(item[i])
           /\ \A q \in Requests : SoleWriter(q)

LEMMA FixSound ==
    ASSUME NEW i, NEW v \in Row, NEW w \in Row, NEW found \in BOOLEAN, Sound(v), Grown(w, v)
    PROVE  LET new == Backfilled(Fixed(i, v, found)) IN Sound(new) /\ Grown(w, new)
<1>. DEFINE f == Fixed(i, v, found)
<1>1. /\ f \in Row /\ f.sys = v.sys /\ f.path = v.path /\ f.flag = v.flag
      /\ f.orig = v.orig \/ (v.orig = NoSystem /\ f.orig = ProjectSystem)
      /\ f.orig # NoSystem => f.named
  BY FixedType DEF Fixed, Row, Sound
<1>2. /\ Backfilled(f).orig = f.orig
      /\ Backfilled(f).named = f.named
      /\ Backfilled(f).flag = f.flag
      /\ Backfilled(f).sys = IF f.sys = NoSystem THEN f.orig ELSE f.sys
      /\ Backfilled(f).path = IF f.path = "none" /\ f.named THEN "original" ELSE f.path
  BY <1>1 DEF Backfilled, Row
<1>. QED
  BY <1>1, <1>2, ConstantsAssumption DEF Sound, Grown

LEMMA LocatedSound ==
    ASSUME NEW i, NEW v \in Row, NEW w \in Row, NEW cache, Sound(v), Grown(w, v)
    PROVE  LET new == Located(i, v, cache)
           IN /\ Sound(new)
              /\ w.sys = Public => new.sys = Public /\ new.path = w.path
<1>1. CASE v.sys = Public
  <2>1. Located(i, v, cache) = [v EXCEPT !.flag = "yes"]
    BY <1>1, ConstantsAssumption DEF Located
  <2>. QED  BY <1>1, <2>1 DEF Sound, Grown, Row
<1>2. CASE v.sys = NoSystem
  <2>1. Located(i, v, cache) = v
    BY <1>2, ConstantsAssumption DEF Located
  <2>. QED  BY <1>2, <2>1, ConstantsAssumption DEF Grown
<1>3. CASE v.sys # Public /\ v.sys # NoSystem
  <2>1. Located(i, v, cache) \in {[v EXCEPT !.flag = "no"],
           [v EXCEPT !.sys = Public, !.path = "published", !.flag = "yes"]}
    BY <1>3 DEF Located
  <2>2. v.sys \in Systems /\ w.sys # Public
    BY <1>3, ConstantsAssumption DEF Row, Places, Grown
  <2>3. Sound([v EXCEPT !.flag = "no"])
    BY <1>3, <2>2 DEF Sound, Row
  <2>4. Sound([v EXCEPT !.sys = Public, !.path = "published", !.flag = "yes"])
    BY <2>2, ConstantsAssumption DEF Sound, Row
  <2>. QED  BY <2>1, <2>2, <2>3, <2>4
<1>. QED  BY <1>1, <1>2, <1>3

LEMMA UpdatedInPlace ==
    ASSUME NEW v \in Row, NEW new \in Row
    PROVE  Updated(v, v, new) = new
BY DEF Updated, Row

(* A save by the worker that holds the item.                               *)
LEMMA SaveAlone ==
    ASSUME TypeOK, SoleInv, NEW r \in Requests, Holding(r), NEW new \in Row, Save(r, new)
    PROVE  item' = [item EXCEPT ![run[r].at] = new]
<1>1. run[r].at \in Items /\ run[r].seen = item[run[r].at] /\ item[run[r].at] \in Row
  BY DEF SoleInv, SoleWriter, TypeOK
<1>. QED
  BY <1>1, UpdatedInPlace DEF Save

Kept == \A i \in Items : item[i].sys = Public =>
            item'[i].sys = Public /\ item'[i].path = item[i].path

(* A step of r that saves nothing.                                         *)
LEMMA SoleUnsaved ==
    ASSUME TypeOK, SoleInv, NEW r \in Requests, item' = item,
           \A q \in Requests \ {r} : run'[q] = run[q] /\ pc'[q] = pc[q],
           SoleWriter(r)'
    PROVE  SoleInv' /\ Kept
BY DEF SoleInv, SoleWriter, Holding, Kept

LEMMA HolderAlone ==
    ASSUME TurnInv, NEW r \in Requests, Holding(r), NEW q \in Requests \ {r}
    PROVE  ~Holding(q)
BY DEF TurnInv, Active, InProgress, Working, Holding

(* A step of r that saves the item it holds.                               *)
LEMMA SoleSaved ==
    ASSUME TypeOK, TurnInv, SoleInv, NEW r \in Requests, Holding(r),
           NEW new \in Row, Save(r, new), Sound(new),
           run[r].seen.sys = Public => new.sys = Public /\ new.path = run[r].seen.path,
           \A q \in Requests \ {r} : run'[q] = run[q] /\ pc'[q] = pc[q],
           SoleWriter(r)'
    PROVE  SoleInv' /\ Kept
<1>1. item' = [item EXCEPT ![run[r].at] = new]
  BY SaveAlone
<1>2. run[r].at \in Items /\ run[r].seen = item[run[r].at]
  BY DEF SoleInv, SoleWriter
<1>3. \A i \in Items : item'[i] = IF i = run[r].at THEN new ELSE item[i]
  BY <1>1 DEF TypeOK
<1>4. \A i \in Items : Sound(item[i])
  BY DEF SoleInv
<1>5. \A i \in Items : Sound(item'[i])
  BY <1>3, <1>4
<1>6. \A q \in Requests \ {r} : ~Holding(q)'
  BY HolderAlone DEF Holding
<1>7. SoleInv'
  BY <1>5, <1>6 DEF SoleInv, SoleWriter
<1>8. Kept
  BY <1>2, <1>3 DEF Kept
<1>. QED
  BY <1>7, <1>8

LEMMA SoleWorker ==
    ASSUME TypeOK, TypeOK', TurnInv, SoleInv, NEW r \in Requests,
           WorkerStep(r) \/ TokenRefreshed(r) \/ RefreshRolledBack(r) \/ WorkerDies(r)
    PROVE  SoleInv' /\ Kept
<1>. DEFINE Goal == SoleInv' /\ Kept
<1>. USE DEF rows, Goto
<1>0. ASSUME item' = item, ~Holding(r)',
             \A q \in Requests \ {r} : run'[q] = run[q] /\ pc'[q] = pc[q]
      PROVE  Goal
  <2>1. SoleWriter(r)'
    BY <1>0 DEF SoleWriter
  <2>. QED  BY <1>0, <2>1, SoleUnsaved
<1>1. ASSUME NEW stage, stage \notin {"item", "fixed"}, StopWith(r, stage), item' = item
      PROVE  Goal
  BY <1>0, <1>1 DEF StopWith, Holding, TypeOK
<1>2. CASE Begin(r)
  BY <1>0, <1>2 DEF Begin, Holding, TypeOK
<1>3. CASE Announce(r)
  BY <1>0, <1>3 DEF Announce, Holding, TypeOK
<1>4. CASE BuildTrees(r)
  BY <1>0, <1>4 DEF BuildTrees, Holding, TypeOK
<1>5. CASE RunFails(r)
  BY <1>1, <1>5 DEF RunFails
<1>6. ASSUME NEW i \in Items, TakeItem(r, i) PROVE Goal
  <2>1. CASE i \in live
    <3>1. run'[r] = [run[r] EXCEPT !.todo = @ \ {i}, !.at = i, !.seen = item[i],
                                   !.work = item[i]]
      BY <1>6, <2>1 DEF TakeItem, TypeOK
    <3>2. run'[r].at = i /\ run'[r].seen = item[i] /\ run'[r].work = item[i]
      BY <3>1 DEF TypeOK, RunState
    <3>3. SoleWriter(r)'
      BY <1>6, <2>1, <3>2 DEF TakeItem, SoleInv, SoleWriter, Grown
    <3>. QED
      BY <1>6, <2>1, <3>3, SoleUnsaved DEF TakeItem, TypeOK
  <2>2. CASE i \notin live
    BY <1>1, <1>6, <2>2 DEF TakeItem
  <2>. QED  BY <2>1, <2>2
<1>7. CASE FixItem(r)
  <2>1. PICK found \in BOOLEAN :
          run' = [run EXCEPT ![r].work = Backfilled(Fixed(run[r].at, @, found))]
    BY <1>7 DEF FixItem
  <2>. DEFINE w == Backfilled(Fixed(run[r].at, run[r].work, found))
  <2>2. /\ Holding(r)
        /\ run[r].work \in Row /\ run[r].seen \in Row
    BY <1>7 DEF FixItem, Holding, TypeOK, RunState
  <2>3. Sound(w) /\ Grown(run[r].seen, w)
    <3>1. Sound(run[r].work) /\ Grown(run[r].seen, run[r].work)
      BY <2>2 DEF SoleInv, SoleWriter
    <3>. QED  BY <2>2, <3>1, FixSound
  <2>4. run'[r] = [run[r] EXCEPT !.work = w]
    BY <2>1 DEF TypeOK
  <2>. HIDE DEF w
  <2>5. run'[r].at = run[r].at /\ run'[r].seen = run[r].seen /\ run'[r].work = w
    BY <2>4 DEF TypeOK, RunState
  <2>6. SoleWriter(r)'
    BY <1>7, <2>2, <2>3, <2>5 DEF FixItem, SoleInv, SoleWriter
  <2>. QED
    BY <1>7, <2>1, <2>6, SoleUnsaved DEF FixItem, TypeOK
<1>8. CASE CommitItem(r)
  <2>1. CASE run[r].at \in live
    <3>1. PICK tree \in [Unbuilt(run[r]) -> Listing] :
             /\ Save(r, Located(Cached(run[r], tree).at, Cached(run[r], tree).work,
                                Cached(run[r], tree).tree))
             /\ run' = [run EXCEPT ![r] = PutDown(Cached(run[r], tree))]
      BY <1>8, <2>1 DEF CommitItem
    <3>. DEFINE state == Cached(run[r], tree)
                new   == Located(state.at, state.work, state.tree)
    <3>2. Holding(r) /\ pc'[r] = "items" /\ state.work = run[r].work
      <4>1. Holding(r) /\ pc'[r] = "items"
        BY <1>8, <2>1 DEF CommitItem, Holding, TypeOK
      <4>2. run[r] \in RunState
        BY DEF TypeOK
      <4>. QED  BY <4>1, <4>2 DEF Cached, RunState
    <3>3. state.work \in Row /\ run[r].seen \in Row
      BY <3>2 DEF TypeOK, RunState
    <3>4. Sound(state.work) /\ Grown(run[r].seen, state.work)
      BY <3>2 DEF SoleInv, SoleWriter
    <3>5. /\ Sound(new)
          /\ run[r].seen.sys = Public => new.sys = Public /\ new.path = run[r].seen.path
      BY <3>3, <3>4, LocatedSound
    <3>6. new \in Row
      BY <3>3, LocatedType
    <3>7. SoleWriter(r)'
      BY <3>2 DEF SoleWriter, Holding
    <3>8. \A q \in Requests \ {r} : run'[q] = run[q] /\ pc'[q] = pc[q]
      BY <1>8, <2>1, <3>1 DEF CommitItem, TypeOK
    <3>. QED
      BY <3>1, <3>2, <3>5, <3>6, <3>7, <3>8, SoleSaved
  <2>2. CASE run[r].at \notin live
    BY <1>1, <1>8, <2>2 DEF CommitItem
  <2>. QED  BY <2>1, <2>2
<1>9. CASE ItemFails(r)
  BY <1>0, <1>9 DEF ItemFails, Holding, TypeOK
<1>10. CASE Finish(r)
  BY <1>0, <1>10 DEF Finish, Holding, TypeOK
<1>11. CASE Report(r)
  BY <1>1, <1>11 DEF Report
<1>12. CASE ProjectVanished(r)
  BY <1>1, <1>12 DEF ProjectVanished
<1>13. CASE WorkerDies(r)
  BY <1>1, <1>13 DEF WorkerDies
<1>14. CASE TokenRefreshed(r)
  <2>1. Holding(r) /\ Save(r, run[r].work) /\ pc' = pc
    BY <1>14 DEF TokenRefreshed, Holding
  <2>2. /\ run[r].at \in Items /\ run[r].work \in Row
        /\ Sound(run[r].work) /\ Grown(run[r].seen, run[r].work)
    BY <2>1 DEF SoleInv, SoleWriter, TypeOK, RunState
  <2>3. item'[run[r].at] = run[r].work
    BY <2>1, <2>2, SaveAlone DEF TypeOK
  <2>4. run'[r] = [run[r] EXCEPT !.seen = run[r].work, !.work = run[r].work]
    BY <1>14, <2>3 DEF TokenRefreshed, TypeOK
  <2>5. /\ run'[r].at = run[r].at
        /\ run'[r].seen = run[r].work /\ run'[r].work = run[r].work
    BY <2>4 DEF TypeOK, RunState
  <2>6. SoleWriter(r)'
    BY <2>2, <2>3, <2>5 DEF SoleWriter, Grown
  <2>7. \A q \in Requests \ {r} : run'[q] = run[q] /\ pc'[q] = pc[q]
    BY <1>14 DEF TokenRefreshed, TypeOK
  <2>8. run[r].seen.sys = Public
          => run[r].work.sys = Public /\ run[r].work.path = run[r].seen.path
    BY <2>2, ConstantsAssumption DEF Grown
  <2>. QED
    BY <2>1, <2>2, <2>6, <2>7, <2>8, SoleSaved
<1>15. CASE RefreshRolledBack(r)
  <2>. DEFINE v == item[run[r].at]
              building == pc[r] = "fixed" /\ Unbuilt(run[r]) # {}
  <2>1. PICK flag \in {v.flag} \cup (IF building /\ v.sys = NoSystem THEN {"no"} ELSE {}) :
          run' = [run EXCEPT ![r].seen = v, ![r].work = [v EXCEPT !.flag = flag]]
    BY <1>15 DEF RefreshRolledBack
  <2>2. Holding(r) /\ run[r].at \in Items /\ v \in Row /\ Sound(v)
    BY <1>15 DEF RefreshRolledBack, Holding, SoleInv, SoleWriter, TypeOK
  <2>3. /\ run[r].seen = v /\ Grown(run[r].seen, run[r].work)
    BY <2>2 DEF SoleInv, SoleWriter
  <2>4. building /\ v.sys = NoSystem => v.orig # Public
    BY <2>3, ConstantsAssumption DEF Unbuilt, Grown
  <2>5. Sound([v EXCEPT !.flag = flag])
    BY <2>1, <2>2, <2>4, ConstantsAssumption DEF Sound, Row
  <2>6. run'[r] = [run[r] EXCEPT !.seen = v, !.work = [v EXCEPT !.flag = flag]]
    BY <2>1 DEF TypeOK
  <2>7. /\ run'[r].at = run[r].at
        /\ run'[r].seen = v /\ run'[r].work = [v EXCEPT !.flag = flag]
    BY <2>6 DEF TypeOK, RunState
  <2>8. Grown(v, [v EXCEPT !.flag = flag])
    BY <2>2 DEF Grown, Row
  <2>9. item' = item
    BY <1>15 DEF RefreshRolledBack
  <2>10. SoleWriter(r)'
    BY <2>2, <2>5, <2>7, <2>8, <2>9 DEF SoleWriter
  <2>. QED
    BY <1>15, <2>1, <2>9, <2>10, SoleUnsaved DEF RefreshRolledBack, TypeOK
<1>. QED
  BY <1>2, <1>3, <1>4, <1>5, <1>6, <1>7, <1>8, <1>9, <1>10, <1>11, <1>12, <1>13,
     <1>14, <1>15 DEF WorkerStep

LEMMA SoleStep ==
    ASSUME TypeOK, TypeOK', TurnInv, SoleInv, [Next]_vars
    PROVE  SoleInv' /\ Kept
<1>. USE DEF rows
<1>1. ASSUME NEW r \in Requests, Guard(r) \/ HandlerStep(r) \/ HandlerDies(r)
      PROVE  SoleInv' /\ Kept
  <2>1. PICK stage : Goto(r, stage) /\ stage \notin {"item", "fixed"}
    BY <1>1 DEF HandlerStep, Guard, ReadCheck, StartCheck, StartRejected, Enqueue,
                EnqueueFails, HandlerDies
  <2>2. item' = item /\ run' = run
    BY <1>1 DEF HandlerStep, Guard, ReadCheck, StartCheck, StartRejected, Enqueue,
                EnqueueFails, HandlerDies
  <2>3. SoleWriter(r)'
    BY <2>1 DEF SoleWriter, Holding, Goto, TypeOK
  <2>. QED
    BY <2>1, <2>2, <2>3, SoleUnsaved DEF Goto, TypeOK
<1>2. CASE Outside
  BY <1>2 DEF Outside, PublishFile, DeleteItem, DeleteProject, SoleInv, SoleWriter,
              Holding, Kept
<1>3. CASE UNCHANGED vars
  BY <1>3 DEF vars, SoleInv, SoleWriter, Holding, Kept
<1>. QED
  BY <1>1, <1>2, <1>3, SoleWorker DEF Next, Crash

LEMMA SoleInit == Init => SoleInv
<1>. SUFFICES ASSUME Init PROVE SoleInv
  OBVIOUS
<1>1. ASSUME NEW v \in FreshRow PROVE Sound(v)
  BY <1>1, ConstantsAssumption DEF FreshRow, Row, Places, Sound
<1>2. \A i \in Items : item[i] \in FreshRow
  BY ConstantsAssumption DEF Init
<1>. QED
  BY <1>1, <1>2 DEF Init, SoleInv, SoleWriter, Holding

LEMMA SoleCorrect == ASSUME Serial PROVE Spec => [](TypeOK /\ TurnInv /\ SoleInv)
<1>1. Init => TurnInv /\ SoleInv
  BY TurnInit, SoleInit
<1>2. TypeOK /\ TypeOK' /\ TurnInv /\ SoleInv /\ [Next]_vars => TurnInv' /\ SoleInv'
  BY TurnStep, SoleStep
<1>. QED
  BY <1>1, <1>2, TypeCorrect, PTL DEF Spec

(* When refreshes take turns, the public flag and the recorded system of   *)
(* an item never contradict each other in a committed row.                 *)
THEOREM FlagsMatch == ASSUME Serial PROVE Spec => []FlagMatchesSystem
<1>1. SoleInv /\ TypeOK => FlagMatchesSystem
  BY DEF SoleInv, Sound, FlagMatchesSystem, TypeOK, Row
<1>. QED
  BY <1>1, SoleCorrect, PTL

(* When refreshes take turns, an item is at a published path exactly when  *)
(* it is on a public system that it did not come from: no commit, early    *)
(* ones of a token refresh included, writes half a move.                   *)
THEOREM MovesStayWhole == ASSUME Serial PROVE Spec => []MovesAreWhole
<1>1. SoleInv => MovesAreWhole
  BY DEF SoleInv, Sound, MovesAreWhole
<1>. QED
  BY <1>1, SoleCorrect, PTL

(* When refreshes take turns, no refresh withdraws a recorded publication. *)
THEOREM PublicationKept == ASSUME Serial PROVE Spec => PublicSticks
<1>1. TypeOK /\ TypeOK' /\ TurnInv /\ SoleInv /\ [Next]_vars => [Kept]_vars
  BY SoleStep
<1>. QED
  BY <1>1, SoleCorrect, PTL DEF Spec, PublicSticks, Kept

-----------------------------------------------------------------------------
(***************************************************************************)
(* The counts.  The total a worker counted when it began is the one in the *)
(* check row for as long as it runs: nobody else begins meanwhile, and a   *)
(* row that names this refresh is not closed before the refresh stops.     *)
(***************************************************************************)
Checking(q) == pc[q] \in Working \ {"report"}

CountInv == /\ \A q \in Requests : Checking(q) /\ project => check.total = run[q].total
            /\ CountsAddUp

(* A step that leaves the row alone, and brings nobody to the end.         *)
LEMMA CountKept ==
    ASSUME TypeOK, CountInv, NEW r \in Requests, NEW stage, Goto(r, stage),
           check' = check, project' = project,
           stage \in Working \ {"report"} => Checking(r) /\ run'[r].total = run[r].total,
           \A q \in Requests : q # r => run'[q] = run[q],
           stage \in {"report", "done"} => pc[r] \in {"report", "done"}
    PROVE  CountInv'
BY DEF CountInv, CountsAddUp, Checking, Goto, TypeOK

(* A refresh in progress that ends the check without a result.             *)
LEMMA CountClosed ==
    ASSUME TypeOK, TurnInv, CountInv, NEW r \in Active, NEW stage, Goto(r, stage),
           project, project' = project, check' = [check EXCEPT !.running = FALSE],
           \A q \in Requests : q # r => run'[q] = run[q],
           stage \notin Working, stage # "done"
    PROVE  CountInv'
<1>1. r \in Requests /\ check.task = r
  BY DEF TurnInv, Active
<1>2. check'.task = r /\ check'.total = check.total
  BY <1>1 DEF TypeOK, CheckRow
<1>3. pc' = [pc EXCEPT ![r] = stage]
  BY DEF Goto
<1>. QED
  BY <1>1, <1>2, <1>3 DEF CountInv, CountsAddUp, Checking, TypeOK, Working

LEMMA CountWorker ==
    ASSUME TypeOK, TurnInv, CountInv, NEW r \in Requests,
           WorkerStep(r) \/ TokenRefreshed(r) \/ RefreshRolledBack(r) \/ WorkerDies(r)
    PROVE  CountInv'
<1>. USE DEF rows
<1>0. /\ check \in CheckRow /\ run[r] \in RunState /\ pc[r] \in Stages
      /\ run \in [Requests -> RunState] /\ pc \in [Requests -> Stages]
  BY DEF TypeOK
<1>a. ASSUME NEW stage \in Stopped, StopWith(r, stage), check' = check, project' = project,
             stage = "done" => pc[r] = "report"
      PROVE  CountInv'
  BY <1>0, <1>a, CountKept DEF StopWith, Stopped, Working
<1>1. CASE Begin(r) /\ ~project
  BY <1>0, <1>1, CountKept DEF Begin, Working
<1>2. CASE Begin(r) /\ project
  <2>1. /\ pc[r] = "queued" /\ pc' = [pc EXCEPT ![r] = "announce"] /\ project' = project
        /\ run' = [run EXCEPT ![r] = [NoRun EXCEPT !.todo = live, !.total = Cardinality(live)]]
        /\ check' = [check EXCEPT !.total = Cardinality(live)]
    BY <1>2 DEF Begin, Goto
  <2>2. Active = {r} /\ check.task = r
    BY <1>2, <2>1 DEF Active, TurnInv, InProgress
  <2>3. check'.task = r /\ check'.total = Cardinality(live)
    BY <1>0, <2>1, <2>2 DEF CheckRow
  <2>4. run'[r].total = Cardinality(live)
    BY <1>0, <2>1 DEF NoRun
  <2>5. \A q \in Requests : q # r => ~Checking(q)
    BY <2>2 DEF Active, Checking, InProgress
  <2>. QED
    BY <1>0, <2>1, <2>3, <2>4, <2>5 DEF CountInv, CountsAddUp, Checking
<1>3. CASE Announce(r)
  BY <1>0, <1>3, CountKept DEF Announce, Checking, Working
<1>4. CASE BuildTrees(r)
  <2>1. /\ Goto(r, "items") /\ pc[r] = "trees" /\ UNCHANGED <<check, project>>
        /\ \A q \in Requests : q # r => run'[q] = run[q]
        /\ run'[r].total = run[r].total
    BY <1>0, <1>4 DEF BuildTrees, RunState
  <2>. QED  BY <2>1, CountKept DEF Checking, Working
<1>5. CASE RunFails(r)
  BY <1>0, <1>5, CountClosed DEF RunFails, StopWith, Active, InProgress, Working
<1>6. ASSUME NEW i \in Items, TakeItem(r, i)
      PROVE  CountInv'
  <2>1. CASE i \in live
    <3>1. /\ Goto(r, "item") /\ pc[r] = "items" /\ UNCHANGED <<check, project>>
          /\ \A q \in Requests : q # r => run'[q] = run[q]
          /\ run'[r].total = run[r].total
      BY <1>0, <1>6, <2>1 DEF TakeItem, RunState
    <3>. QED  BY <3>1, CountKept DEF Checking, Working
  <2>2. CASE i \notin live
    BY <1>6, <1>a, <2>2 DEF TakeItem, Stopped
  <2>. QED  BY <2>1, <2>2
<1>7. CASE FixItem(r)
  <2>1. /\ Goto(r, "fixed") /\ pc[r] = "item" /\ UNCHANGED <<check, project>>
        /\ \A q \in Requests : q # r => run'[q] = run[q]
        /\ run'[r].total = run[r].total
    BY <1>0, <1>7 DEF FixItem, RunState
  <2>. QED  BY <2>1, CountKept DEF Checking, Working
<1>8. CASE CommitItem(r)
  <2>1. CASE run[r].at \in live
    <3>1. PICK tree : run' = [run EXCEPT ![r] = PutDown(Cached(run[r], tree))]
      BY <1>8, <2>1 DEF CommitItem
    <3>2. run'[r].total = run[r].total
      BY <1>0, <3>1 DEF PutDown, Cached, RunState
    <3>3. /\ Goto(r, "items") /\ pc[r] = "fixed" /\ UNCHANGED <<check, project>>
          /\ \A q \in Requests : q # r => run'[q] = run[q]
      BY <1>0, <1>8, <2>1, <3>1 DEF CommitItem
    <3>. QED  BY <3>2, <3>3, CountKept DEF Checking, Working
  <2>2. CASE run[r].at \notin live
    BY <1>8, <1>a, <2>2 DEF CommitItem, Stopped
  <2>. QED  BY <2>1, <2>2
<1>9. CASE ItemFails(r)
  <2>1. /\ Goto(r, "items") /\ pc[r] \in {"item", "fixed"} /\ UNCHANGED <<check, project>>
        /\ \A q \in Requests : q # r => run'[q] = run[q]
        /\ run'[r].total = run[r].total
    BY <1>0, <1>9 DEF ItemFails, PutDown, Counted, RunState
  <2>. QED  BY <2>1, CountKept DEF Checking, Working
<1>10. CASE Finish(r)
  <2>1. /\ pc[r] = "items" /\ project /\ pc' = [pc EXCEPT ![r] = "report"] /\ run' = run
        /\ check' = [check EXCEPT !.running = FALSE, !.checked = run[r].total - run[r].bad,
                                  !.failed = run[r].bad]
    BY <1>10 DEF Finish, Goto
  <2>2. r \in Active
    BY <2>1 DEF Active, InProgress, Working
  <2>3. check.task = r /\ check.total = run[r].total
    BY <2>1, <2>2 DEF CountInv, TurnInv, Checking, Working
  <2>4. /\ check'.task = r /\ check'.total = run[r].total
        /\ check'.checked = run[r].total - run[r].bad /\ check'.failed = run[r].bad
    BY <1>0, <2>1, <2>3 DEF CheckRow
  <2>5. check'.checked + check'.failed = check'.total
    BY <1>0, <2>4 DEF RunState
  <2>6. \A q \in Requests : q # r => ~Checking(q)
    BY <2>2 DEF Active, TurnInv, Checking, InProgress
  <2>. QED
    BY <1>0, <2>1, <2>4, <2>5, <2>6 DEF CountInv, CountsAddUp, Checking
<1>11. CASE Report(r)
  BY <1>11, <1>a DEF Report, Stopped
<1>12. CASE ProjectVanished(r)
  BY <1>12, <1>a DEF ProjectVanished, Stopped
<1>13. CASE WorkerDies(r)
  BY <1>13, <1>a DEF WorkerDies, Stopped
<1>14. CASE TokenRefreshed(r) \/ RefreshRolledBack(r)
  <2>1. PICK seen, work : run' = [run EXCEPT ![r] = [@ EXCEPT !.seen = seen, !.work = work]]
    <3>1. CASE TokenRefreshed(r)
      BY <3>1 DEF TokenRefreshed
    <3>2. CASE RefreshRolledBack(r)
      <4>. DEFINE v == item[run[r].at]
      <4>1. PICK flag : run' = [run EXCEPT ![r].seen = v, ![r].work = [v EXCEPT !.flag = flag]]
        BY <3>2 DEF RefreshRolledBack
      <4>. QED  BY <1>0, <4>1
    <3>. QED  BY <1>14, <3>1, <3>2
  <2>2. \A q \in Requests : run'[q].total = run[q].total
    BY <1>0, <2>1 DEF RunState
  <2>3. UNCHANGED <<check, project, pc>>
    BY <1>14 DEF TokenRefreshed, RefreshRolledBack
  <2>. QED  BY <2>2, <2>3 DEF CountInv, CountsAddUp, Checking
<1>. QED
  BY <1>1, <1>2, <1>3, <1>4, <1>5, <1>6, <1>7, <1>8, <1>9, <1>10, <1>11, <1>12, <1>13,
     <1>14 DEF WorkerStep

LEMMA CountStep ==
    ASSUME TypeOK, TurnInv, CountInv, [Next]_vars
    PROVE  CountInv'
<1>. USE DEF rows
<1>1. ASSUME NEW r \in Requests, Guard(r) \/ HandlerStep(r) \/ HandlerDies(r)
      PROVE  CountInv'
  <2>. USE DEF Opening, Working, Goto
  <2>1. CASE StartCheck(r)
    <3>1. /\ pc[r] \in Opening /\ pc' = [pc EXCEPT ![r] = "publishing"] /\ run' = run /\ project
      BY <2>1 DEF StartCheck
    <3>2. TurnInv' /\ r \in Active' /\ project'
      BY <2>1, <3>1, MoveIn DEF StartCheck, Active, InProgress, TypeOK
    <3>3. check'.task = r
      BY <3>2 DEF TurnInv
    <3>4. \A q \in Requests : ~Checking(q)
      BY <3>1 DEF TurnInv, Active, InProgress, Checking
    <3>. QED
      BY <3>1, <3>3, <3>4 DEF CountInv, CountsAddUp, Checking, TypeOK
  <2>2. CASE EnqueueFails(r) /\ project
    BY <2>2, CountClosed DEF EnqueueFails, Active, InProgress
  <2>3. CASE \/ Guard(r) \/ ReadCheck(r) \/ StartRejected(r) \/ Enqueue(r) \/ HandlerDies(r)
             \/ EnqueueFails(r) /\ ~project
    <3>1. PICK stage : Goto(r, stage) /\ stage \notin Working \cup {"done"}
      BY <2>3 DEF Guard, ReadCheck, StartRejected, Enqueue, EnqueueFails, HandlerDies
    <3>2. UNCHANGED <<check, project, run>>
      BY <2>3 DEF Guard, ReadCheck, StartRejected, Enqueue, EnqueueFails, HandlerDies
    <3>. QED  BY <3>1, <3>2, CountKept
  <2>. QED  BY <1>1, <2>1, <2>2, <2>3 DEF HandlerStep
<1>2. CASE Outside
  BY <1>2, ConstantsAssumption
     DEF Outside, PublishFile, DeleteItem, DeleteProject, CountInv, CountsAddUp,
              Checking, NoCheck, TypeOK
<1>3. CASE UNCHANGED vars
  BY <1>3 DEF vars, CountInv, CountsAddUp, Checking
<1>. QED
  BY <1>1, <1>2, <1>3, CountWorker DEF Next, Crash

(* When refreshes take turns, the counts of a finished refresh add up to   *)
(* the number of items it set out with, deletions meanwhile included.      *)
THEOREM CountsAlwaysAddUp == ASSUME Serial PROVE Spec => []CountsAddUp
<1>1. Init => CountInv
  BY DEF Init, CountInv, CountsAddUp, Checking, Working
<1>2. TypeOK /\ TurnInv /\ CountInv /\ [Next]_vars => CountInv'
  BY CountStep
<1>3. CountInv => CountsAddUp
  BY DEF CountInv
<1>. QED
  BY <1>1, <1>2, <1>3, SoleCorrect, PTL DEF Spec
=============================================================================
