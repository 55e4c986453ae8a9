--------------------------- MODULE TileLayers_proofs ---------------------------
(***************************************************************************)
(* Theorems about TileLayers, for any processes, styles and bounds, with   *)
(* their proofs.                                                           *)
(***************************************************************************)
EXTENDS TileLayers, FiniteSetTheorems, WellFoundedInduction, TLAPS

-----------------------------------------------------------------------------
(***************************************************************************)
(* The invariant.                                                          *)
(***************************************************************************)
ProcState == [stage : Stages, target : Makers \cup {None}, todo : SUBSET Makers,
              seen : Layer, change : Layer, names : SUBSET {"z", "style"}]

(* Each maker takes one position, at most one above those before.          *)
Before == {"off", "publish", "refused", "queued", "fetch", "convert", "made"}

Placers == {m \in Makers : proc[m].stage \notin Before}

Height == MaxAsked + Cardinality(Placers)

HeightInv ==
    /\ \A m \in Makers : layers[m].z <= Height
    /\ \A p \in Procs : proc[p].seen.z <= Height /\ proc[p].change.z <= MaxAsked

(* An import that has inserted its layer, or never will.                   *)
Past == {"report", "done", "lost"}

(* The layer and the COG of one import.                                    *)
Filed(i) ==
   /\ layers[i].there => i \in cogs /\ proc[i].stage \in Past
   /\ i \in cogs /\ project =>
         \/ layers[i].there
         \/ proc[i].stage \in {"made", "insert", "lost"}
         \/ \E d \in Deleters : proc[d].stage \in {"cleanup", "lost"} /\ proc[d].target = i
   /\ project /\ proc[i].stage \in {"made", "insert"} => i \in cogs
   /\ proc[i].stage = "insert" => proc[i].seen.there
   /\ \A d \in Deleters :
         proc[d].stage = "cleanup" /\ proc[d].target = i
         => ~layers[i].there /\ proc[i].stage \in Past

FilesInv ==
    /\ \A i \in Importers : Filed(i)
    /\ ~project => \A m \in Makers : ~layers[m].there

(* Whoever has read the rows, and has not been overtaken, knows them.      *)
Knows(p) ==
    /\ p \in Makers /\ proc[p].stage \in {"read", "insert"} /\ proc[p].names = {} =>
          \A l \in There : proc[p].seen.z > layers[l].z
    /\ p \in Updaters /\ proc[p].stage = "read" /\ project =>
          proc[p].seen = layers[proc[p].target]

ReadInv == \A p \in Procs \ overtaken : Knows(p)

IInv == TypeOK /\ HeightInv /\ FilesInv /\ ReadInv

-----------------------------------------------------------------------------
(***************************************************************************)
(* The highest position.                                                   *)
(***************************************************************************)
(* Every set of naturals has a least element.                              *)
LEMMA Least ==
    ASSUME NEW S, S \subseteq Nat, S # {}
    PROVE  \E x \in S : \A y \in S : x <= y
<1> DEFINE Below == OpToRel(<, Nat)
<1>1. IsWellFoundedOn(Below, Nat)
  BY NatLessThanWellFounded
<1>2. \A x, y \in Nat : x < y => <<x, y>> \in Below
  BY DEF OpToRel
<1> HIDE DEF Below
<1>3. PICK x \in S : \A y \in S : ~ (<<y, x>> \in Below)
  BY <1>1, WFMin
<1>4. ASSUME NEW y \in S PROVE x <= y
  <2>1. x \in Nat /\ y \in Nat /\ ~(y < x)
    BY <1>2, <1>3
  <2>. QED  BY <2>1
<1>. QED  BY <1>4

(* So every bounded one has a greatest, which is what Max chooses.         *)
LEMMA Greatest ==
    ASSUME NEW S, NEW n \in Nat, S \subseteq 0 .. n, S # {}
    PROVE  Max(S) \in S /\ \A y \in S : y <= Max(S)
<1> DEFINE Down == {n - s : s \in S}
<1>1. Down \subseteq Nat /\ Down # {}
  <2>1. \A s \in S : n - s \in Nat
    OBVIOUS
  <2>2. PICK s \in S : n - s \in Down
    OBVIOUS
  <2>. QED  BY <2>1, <2>2
<1>2. \E x \in Down : \A y \in Down : x <= y
  <2> HIDE DEF Down
  <2>. QED  BY <1>1, Least
<1>3. PICK s \in S : \A y \in S : n - s <= n - y
  BY <1>2
<1>4. \E z \in S : \A y \in S : z >= y
  <2>1. \A y \in S : s >= y
    BY <1>3
  <2>. QED  BY <2>1
<1>5. Max(S) \in S /\ \A y \in S : Max(S) >= y
  BY <1>4 DEF Max
<1>. QED  BY <1>5

LEMMA Bounds ==
    ASSUME TypeOK
    PROVE  /\ IsFiniteSet(Makers) /\ IsFiniteSet(Placers)
           /\ Cardinality(Makers) \in Nat /\ Cardinality(Placers) \in Nat
           /\ Cardinality(Placers) <= Cardinality(Makers)
           /\ MaxAsked \in Nat /\ Height \in Nat
           /\ Height <= MaxAsked + Cardinality(Makers)
           /\ NoLayer \in Layer
<1>1. IsFiniteSet(Makers) /\ IsFiniteSet(Placers) /\ Cardinality(Placers) <= Cardinality(Makers)
  BY ConstantsAssumption, FS_Subset DEF Procs, Placers
<1>2. Cardinality(Makers) \in Nat /\ Cardinality(Placers) \in Nat /\ MaxAsked \in Nat
  BY <1>1, FS_CardinalityType, ConstantsAssumption
<1>. QED  BY <1>1, <1>2, ConstantsAssumption DEF Height, NoLayer, Layer, Z

(* A new layer's place is above all the others, and not too high.          *)
LEMMA TopIsAbove ==
    ASSUME TypeOK, HeightInv
    PROVE  /\ Top \in Nat /\ Top <= 1 + Height
           /\ \A l \in There : Top > layers[l].z
<1> DEFINE S == {layers[m].z : m \in There}
<1>1. S \subseteq 0 .. Height
  BY Bounds DEF TypeOK, HeightInv, There, Layer, Z
<1>2. CASE There = {}
  BY <1>2, Bounds DEF Top
<1>3. CASE There # {}
  <2>1. S # {}
    BY <1>3
  <2>2. Max(S) \in S /\ \A y \in S : y <= Max(S)
    <3> HIDE DEF S
    <3>. QED  BY <1>1, <2>1, Greatest, Bounds
  <2>3. Top = 1 + Max(S)
    BY <1>3 DEF Top
  <2>4. Max(S) \in 0 .. Height
    BY <1>1, <2>2
  <2>5. ASSUME NEW l \in There
        PROVE  Top > layers[l].z
    <3>1. layers[l].z \in S /\ layers[l].z \in 0 .. Height
      BY <1>1
    <3>2. layers[l].z <= Max(S)
      BY <2>2, <3>1
    <3> HIDE DEF S
    <3>. QED  BY <2>3, <2>4, <3>1, <3>2, Bounds
  <2> HIDE DEF S
  <2>. QED  BY <2>3, <2>4, <2>5, Bounds
<1>. QED  BY <1>2, <1>3

-----------------------------------------------------------------------------
(***************************************************************************)
(* One process goes on.                                                    *)
(***************************************************************************)
Moves(p, state) ==
    /\ state \in ProcState
    /\ proc' = [proc EXCEPT ![p] = state]
    /\ p \in Makers /\ state.stage \in Before => proc[p].stage \in Before

LEMMA ProcChanges ==
    ASSUME TypeOK, NEW p \in Procs, NEW state, Moves(p, state)
    PROVE  /\ proc' \in [Procs -> ProcState]
           /\ proc'[p] = state
           /\ \A q \in Procs \ {p} : proc'[q] = proc[q]
BY DEF TypeOK, Moves, ProcState

(* Positions grow with the number of those that have taken one.            *)
LEMMA HeightGrows ==
    ASSUME TypeOK, NEW p \in Procs, NEW state, Moves(p, state)
    PROVE  /\ Height' \in Nat /\ Height <= Height'
           /\ p \in Makers /\ proc[p].stage \in Before /\ state.stage \notin Before
              => Height' = Height + 1
<1>1. Placers' = IF p \in Makers /\ state.stage \notin Before THEN Placers \cup {p} ELSE Placers
  BY ProcChanges DEF Placers, Moves, Procs
<1>2. /\ IsFiniteSet(Placers \cup {p})
      /\ Cardinality(Placers \cup {p}) =
            IF p \in Placers THEN Cardinality(Placers) ELSE Cardinality(Placers) + 1
  BY Bounds, FS_AddElement
<1>3. p \in Placers <=> p \in Makers /\ proc[p].stage \notin Before
  BY DEF Placers
<1>. QED  BY <1>1, <1>2, <1>3, Bounds DEF Height

LEMMA Heights ==
    ASSUME TypeOK, HeightInv, NEW p \in Procs, NEW state, Moves(p, state),
           state.seen.z <= Height', state.change.z <= MaxAsked,
           \A m \in Makers : layers'[m].z <= Height' \/ layers'[m] = layers[m]
    PROVE  HeightInv'
<1>1. \A q \in Procs : proc[q].seen.z \in Nat
  BY Bounds DEF TypeOK, Layer, Z
<1>2. \A m \in Makers : layers[m].z \in Nat
  BY Bounds DEF TypeOK, Layer, Z
<1>3. \A m \in Makers : layers'[m].z <= Height'
  BY <1>2, HeightGrows, Bounds DEF HeightInv
<1>4. \A q \in Procs : proc'[q].seen.z <= Height' /\ proc'[q].change.z <= MaxAsked
  BY <1>1, ProcChanges, HeightGrows, Bounds DEF HeightInv
<1>. QED  BY <1>3, <1>4 DEF HeightInv

(* Only one import's layer and COG, x, are touched.                        *)
LEMMA Files ==
    ASSUME TypeOK, FilesInv, NEW p \in Procs, NEW state, Moves(p, state), project' = project,
           NEW x,
           \A i \in Importers \ {x} :
               (layers'[i].there <=> layers[i].there) /\ (i \in cogs' <=> i \in cogs),
           p \in Importers => p = x,
           p \in Deleters => /\ proc[p].stage \in {"cleanup", "lost"} => proc[p].target = x
                             /\ state.stage \in {"cleanup", "lost"} => state.target = x,
           x \in Importers /\ Filed(x) => Filed(x)',
           \A m \in Makers : layers'[m].there => layers[m].there \/ project
    PROVE  FilesInv'
<1>1. ASSUME NEW i \in Importers \ {x}
      PROVE  Filed(i)'
  <2>1. i \in Procs /\ p # i /\ proc'[i] = proc[i]
    BY ProcChanges DEF Procs, Makers
  <2>2. \A d \in Deleters :
           (proc'[d].stage \in {"cleanup", "lost"} /\ proc'[d].target = i)
           => proc'[d] = proc[d]
    BY <1>1, ProcChanges DEF Procs
  <2>3. \A d \in Deleters :
           (proc[d].stage \in {"cleanup", "lost"} /\ proc[d].target = i)
           => proc'[d] = proc[d]
    BY <1>1, ProcChanges DEF Procs
  <2>4. Filed(i)
    BY DEF FilesInv
  <2>. QED  BY <2>1, <2>2, <2>3, <2>4 DEF Filed
<1>. QED  BY <1>1 DEF FilesInv

(* The others know what they read, or are noted as overtaken.              *)
LEMMA Reads ==
    ASSUME TypeOK, ReadInv, NEW p \in Procs, NEW state, Moves(p, state), project' = project,
           \/ layers' = layers /\ overtaken \ {p} \subseteq overtaken'
           \/ Overtakes(p),
           p \notin overtaken' => Knows(p)'
    PROVE  ReadInv'
<1> SUFFICES ASSUME NEW q \in Procs \ overtaken', q # p
             PROVE  Knows(q)'
  BY DEF ReadInv
<1>1. proc'[q] = proc[q]
  BY ProcChanges
<1>2. CASE layers' = layers /\ overtaken \ {p} \subseteq overtaken'
  BY <1>1, <1>2 DEF ReadInv, Knows, There
<1>3. CASE Overtakes(p)
  <2>1. ~Outdated(q) /\ q \notin overtaken => Knows(q)'
    <3>1. CASE proc[q].stage \notin {"read", "insert"}
      BY <1>1, <3>1 DEF Knows
    <3>2. CASE q \in Makers
      BY <1>1, <3>2, ConstantsAssumption DEF ReadInv, Knows, Outdated, There
    <3>3. CASE q \notin Makers /\ proc[q].stage \in {"read", "insert"}
      BY <1>1, <3>3 DEF ReadInv, Knows, Outdated
    <3>. QED  BY <3>1, <3>2, <3>3
  <2>. QED  BY <1>3, <2>1 DEF Overtakes
<1>. QED  BY <1>2, <1>3

TaskStatus == {"none", "QUEUED", "RUNNING", "COMPLETED", "FAILED", "error"}

(* The state Goes leaves a process in.                                     *)
To(p, stage) == IF stage = "done" THEN [Off EXCEPT !.stage = "done"]
                ELSE [proc[p] EXCEPT !.stage = stage]

LEMMA OffIsState ==
    ASSUME TypeOK, NEW stage \in Stages
    PROVE  /\ [Off EXCEPT !.stage = stage] \in ProcState
           /\ [Off EXCEPT !.stage = stage].stage = stage
           /\ [Off EXCEPT !.stage = stage].seen.z = 0
           /\ [Off EXCEPT !.stage = stage].change.z = 0
           /\ [Off EXCEPT !.stage = stage].names = {}
           /\ [Off EXCEPT !.stage = stage].target = None
BY Bounds DEF Off, ProcState, NoLayer

LEMMA GoesMoves ==
    ASSUME TypeOK, HeightInv, NEW p \in Procs, NEW stage \in Stages, Goes(p, stage),
           p \in Makers /\ stage \in Before => proc[p].stage \in Before
    PROVE  /\ Moves(p, To(p, stage))
           /\ To(p, stage).stage = stage
           /\ To(p, stage).seen.z <= Height' /\ To(p, stage).change.z <= MaxAsked
           /\ stage # "done" => To(p, stage) = [proc[p] EXCEPT !.stage = stage]
           /\ stage # "done" => To(p, stage).target = proc[p].target
<1>1. /\ proc[p] \in ProcState /\ proc[p].seen.z \in Nat
      /\ proc[p].seen.z <= Height /\ proc[p].change.z <= MaxAsked
  BY Bounds DEF TypeOK, ProcState, HeightInv, Layer, Z
<1>2. To(p, stage) \in ProcState /\ To(p, stage).stage = stage
  <2>1. CASE stage = "done"
    BY <2>1, OffIsState DEF To
  <2>2. CASE stage # "done"
    BY <1>1, <2>2 DEF To, ProcState
  <2>. QED  BY <2>1, <2>2
<1>3. Moves(p, To(p, stage))
  BY <1>2 DEF Moves, Goes, To
<1>4. Height' \in Nat /\ Height <= Height'
  BY <1>3, HeightGrows
<1>5. To(p, stage).seen.z <= Height' /\ To(p, stage).change.z <= MaxAsked
  <2>1. CASE stage = "done"
    <3>1. To(p, stage) = [Off EXCEPT !.stage = stage]
      BY <2>1 DEF To
    <3>2. To(p, stage).seen.z = 0 /\ To(p, stage).change.z = 0
      BY <3>1, OffIsState
    <3>. QED  BY <1>4, <3>2, Bounds
  <2>2. CASE stage # "done"
    BY <1>1, <1>4, <2>2, Bounds DEF To, ProcState
  <2>. QED  BY <2>1, <2>2
<1>6. stage # "done" => /\ To(p, stage) = [proc[p] EXCEPT !.stage = stage]
                        /\ To(p, stage).target = proc[p].target
  BY <1>1 DEF To, ProcState
<1>. QED  BY <1>2, <1>3, <1>5, <1>6

LEMMA TypeMoves ==
    ASSUME TypeOK, NEW p \in Procs, NEW state, Moves(p, state), project' = project,
           layers' \in [Makers -> Layer], cogs' \subseteq Importers,
           tasks' \in [Importers -> TaskStatus], overtaken' \subseteq Procs, losses' \in Nat
    PROVE  TypeOK'
BY ProcChanges DEF TypeOK, ProcState, TaskStatus

-----------------------------------------------------------------------------
(***************************************************************************)
(* Imports.                                                                *)
(***************************************************************************)
LEMMA ImporterMoves ==
    ASSUME IInv, NEW i \in Importers, NEW state, Moves(i, state), UNCHANGED <<project, layers>>,
           overtaken \ {i} \subseteq overtaken', overtaken' \subseteq Procs,
           losses' \in Nat, tasks' \in [Importers -> TaskStatus], cogs' \subseteq Importers,
           \A j \in Importers \ {i} : j \in cogs' <=> j \in cogs,
           proc[i].stage \in Past => state.stage \in Past /\ (i \in cogs => i \in cogs'),
           project /\ i \in cogs' =>
              \/ i \in cogs /\ proc[i].stage \notin {"made", "insert", "lost"}
              \/ state.stage \in {"made", "insert", "lost"},
           project /\ state.stage \in {"made", "insert"} => i \in cogs',
           state.stage = "insert" => state.seen.there,
           state.seen.z <= Height' /\ state.change.z <= MaxAsked,
           i \notin overtaken' /\ state.stage \in {"read", "insert"} =>
              \A l \in There : state.seen.z > layers[l].z
    PROVE  IInv'
<1>1. i \in Procs /\ i \notin Updaters /\ i \notin Deleters
  BY ConstantsAssumption DEF Procs, Makers
<1>2. /\ proc'[i] = state
      /\ \A q \in Procs \ {i} : proc'[q] = proc[q]
  BY <1>1, ProcChanges DEF IInv
<1>3. TypeOK'
  BY <1>1, TypeMoves DEF IInv, TypeOK
<1>4. HeightInv'
  BY <1>1, Heights DEF IInv
<1>5. Filed(i) => Filed(i)'
  <2>1. \A d \in Deleters : proc'[d] = proc[d]
    BY <1>1, <1>2 DEF Procs
  <2>. QED  BY <1>2, <2>1 DEF Filed
<1>6. FilesInv'
  BY <1>1, <1>5, Files DEF IInv
<1>7. i \notin overtaken' => Knows(i)'
  BY <1>1, <1>2 DEF Knows, There
<1>8. ReadInv'
  BY <1>1, <1>7, Reads DEF IInv
<1>. QED  BY <1>3, <1>4, <1>6, <1>8 DEF IInv

(* A step that only takes the import to another stage, with its Task and   *)
(* its COG.                                                                *)
LEMMA ImporterGoes ==
    ASSUME IInv, NEW i \in Importers, NEW stage \in Stages \ {"read", "insert"}, Goes(i, stage),
           UNCHANGED <<project, layers, overtaken, losses>>,
           tasks' \in [Importers -> TaskStatus],
           cogs' \in {cogs, cogs \cup {i}, cogs \ {i}},
           stage \in Before => proc[i].stage \in Before,
           proc[i].stage \in Past => stage \in Past /\ cogs' = cogs,
           project /\ i \in cogs' =>
              \/ i \in cogs /\ proc[i].stage \notin {"made", "insert", "lost"}
              \/ stage \in {"made", "lost"},
           stage = "made" => i \in cogs'
    PROVE  IInv'
<1>1. i \in Procs
  BY DEF Procs, Makers
<1>2. /\ Moves(i, To(i, stage)) /\ To(i, stage).stage = stage
      /\ To(i, stage).seen.z <= Height' /\ To(i, stage).change.z <= MaxAsked
  BY <1>1, GoesMoves DEF IInv
<1>3. cogs' \subseteq Importers /\ overtaken' \subseteq Procs /\ losses' \in Nat
  BY DEF IInv, TypeOK
<1>4. \A j \in Importers \ {i} : j \in cogs' <=> j \in cogs
  OBVIOUS
<1>5. UNCHANGED <<project, layers>> /\ overtaken \ {i} \subseteq overtaken'
  OBVIOUS
<1>. QED
  BY <1>2, <1>3, <1>4, <1>5, ImporterMoves

(* There is room above the layers for whoever has not placed one.          *)
LEMMA RoomAbove ==
    ASSUME IInv, NEW m \in Makers, proc[m].stage \in Before
    PROVE  Placed(Top) \in Layer
<1>1. Placers \cup {m} \subseteq Makers /\ m \notin Placers
  BY DEF Placers
<1>2. /\ Cardinality(Placers \cup {m}) = Cardinality(Placers) + 1
      /\ Cardinality(Placers \cup {m}) <= Cardinality(Makers)
  BY <1>1, Bounds, FS_AddElement, FS_Subset DEF IInv
<1>3. Top \in Z
  BY <1>2, TopIsAbove, Bounds DEF IInv, Z, Height
<1>. QED  BY <1>3, ConstantsAssumption DEF Placed, Layer

LEMMA PlaceStep ==
    ASSUME IInv, NEW i \in Importers, PlaceOnTop(i)
    PROVE  IInv'
<1> DEFINE state == [proc[i] EXCEPT !.stage = "insert", !.seen = Placed(Top)]
<1>1. /\ i \in Makers /\ i \in Procs /\ proc[i] \in ProcState /\ Placed(Top) \in Layer
      /\ proc[i].change.z <= MaxAsked
  BY RoomAbove DEF PlaceOnTop, At, Before, Procs, Makers, IInv, TypeOK, ProcState, HeightInv
<1>2. /\ proc[i].stage = "made" /\ proc' = [proc EXCEPT ![i] = state]
      /\ UNCHANGED <<project, layers, cogs, tasks, overtaken, losses>>
  BY DEF PlaceOnTop, At
<1>3. /\ state \in ProcState /\ state.stage = "insert" /\ state.seen = Placed(Top)
      /\ state.change = proc[i].change
  BY <1>1 DEF ProcState, Stages
<1> HIDE DEF state
<1>4. Moves(i, state)
  BY <1>2, <1>3 DEF Moves, Before
<1>5. Height' = Height + 1
  BY <1>1, <1>2, <1>3, <1>4, HeightGrows DEF IInv, Before
<1>6. state.seen.z <= Height' /\ \A l \in There : state.seen.z > layers[l].z
  BY <1>3, <1>5, TopIsAbove, Bounds DEF IInv, Placed
<1>7. project => i \in cogs
  BY <1>2 DEF IInv, FilesInv, Filed
<1>. QED
  BY <1>1, <1>2, <1>3, <1>4, <1>6, <1>7, ImporterMoves
  DEF IInv, TypeOK, Past, TaskStatus, Placed

(* The layer comes above all that the import read, unless it was overtaken.*)
LEMMA InsertStep ==
    ASSUME IInv, NEW i \in Importers, InsertLayer(i)
    PROVE  IInv'
<1>1. /\ proc[i].stage = "insert" /\ project /\ layers' = [layers EXCEPT ![i] = proc[i].seen]
      /\ Overtakes(i) /\ Goes(i, "report") /\ UNCHANGED <<project, cogs, tasks, losses>>
  BY DEF InsertLayer, At
<1>2. i \in Procs /\ i \in Makers /\ i \notin Updaters /\ i \notin Deleters
  BY ConstantsAssumption DEF Procs, Makers
<1>3. /\ Moves(i, To(i, "report")) /\ To(i, "report").stage = "report"
      /\ To(i, "report").seen.z <= Height' /\ To(i, "report").change.z <= MaxAsked
  BY <1>1, <1>2, GoesMoves DEF IInv, Stages, Before
<1>4. /\ proc'[i] = To(i, "report") /\ \A q \in Procs \ {i} : proc'[q] = proc[q]
  BY <1>2, <1>3, ProcChanges DEF IInv
<1>5. proc[i].seen \in Layer /\ proc[i].seen.z <= Height /\ proc[i].seen.z \in Nat
  BY <1>2, Bounds DEF IInv, TypeOK, HeightInv, Layer, Z
<1>6. layers' \in [Makers -> Layer] /\ overtaken' \subseteq Procs
  BY <1>1, <1>2, <1>5 DEF IInv, TypeOK, Overtakes
<1>7. TypeOK'
  BY <1>1, <1>2, <1>3, <1>6, TypeMoves DEF IInv, TypeOK, TaskStatus
<1>8. HeightInv'
  <2>1. \A m \in Makers : layers'[m].z <= Height' \/ layers'[m] = layers[m]
    BY <1>1, <1>2, <1>3, <1>5, HeightGrows, Bounds DEF IInv, TypeOK
  <2>. QED  BY <1>2, <1>3, <2>1, Heights DEF IInv
<1>9. FilesInv'
  <2>1. i \in cogs
    BY <1>1 DEF IInv, FilesInv, Filed
  <2>2. \A d \in Deleters : proc'[d] = proc[d] /\ (proc[d].target = i => proc[d].stage # "cleanup")
    BY <1>1, <1>2, <1>4 DEF Procs, IInv, FilesInv, Filed, Past
  <2>3. layers'[i].there
    BY <1>1, <1>2 DEF IInv, TypeOK, FilesInv, Filed
  <2>4. Filed(i)'
    BY <1>1, <1>3, <1>4, <2>1, <2>2, <2>3 DEF Filed, Past
  <2>5. \A m \in Makers \ {i} : layers'[m] = layers[m]
    BY <1>1 DEF IInv, TypeOK
  <2>. QED  BY <1>1, <1>2, <1>3, <2>4, <2>5, Files DEF IInv, Makers
<1>10. ReadInv'
  <2>1. Knows(i)'
    BY <1>2, <1>3, <1>4 DEF Knows
  <2>. QED  BY <1>1, <1>2, <1>3, <2>1, Reads DEF IInv
<1>. QED  BY <1>7, <1>8, <1>9, <1>10 DEF IInv

LEMMA ImportStepKeeps ==
    ASSUME IInv, NEW i \in Importers, ImportStep(i)
    PROVE  IInv'
<1>t. /\ tasks \in [Importers -> TaskStatus] /\ cogs \subseteq Importers
      /\ \A status \in TaskStatus : SetTask(i, status) => tasks' \in [Importers -> TaskStatus]
  BY DEF IInv, TypeOK, TaskStatus, SetTask
<1>1. CASE Publish(i)
  <2>1. PICK stage \in {"queued", "refused"} : Goes(i, stage)
    BY <1>1 DEF Publish
  <2>. QED  BY <1>1, <1>t, <2>1, ImporterGoes DEF Publish, At, Stages, Before, Past
<1>2. CASE MarkRefused(i)
  BY <1>2, <1>t, ImporterGoes DEF MarkRefused, At, Stages, Before, Past, TaskStatus
<1>3. CASE Start(i)
  BY <1>3, <1>t, ImporterGoes DEF Start, Progress, At, Stages, Before, Past, TaskStatus
<1>4. CASE Fetch(i)
  BY <1>4, <1>t, ImporterGoes DEF Fetch, Progress, At, Stages, Before, Past, TaskStatus
<1>5. CASE Cogify(i)
  BY <1>5, <1>t, ImporterGoes DEF Cogify, At, Stages, Before, Past
<1>6. CASE PlaceOnTop(i)
  BY <1>6, PlaceStep
<1>7. CASE InsertLayer(i)
  BY <1>7, InsertStep
<1>8. CASE Complete(i)
  BY <1>8, <1>t, ImporterGoes DEF Complete, At, Stages, Before, Past, TaskStatus
<1>9. CASE Fail(i)
  <2>1. /\ proc[i].stage \in {"fetch", "convert", "made"} /\ Goes(i, "done")
        /\ cogs' = cogs \ {i} /\ tasks' \in [Importers -> TaskStatus]
        /\ UNCHANGED <<project, layers, overtaken, losses>>
    BY <1>9, <1>t DEF Fail, TaskStatus
  <2>. QED  BY <2>1, ImporterGoes DEF Stages, Before, Past
<1>10. CASE ProjectVanished(i)
  <2>1. /\ proc[i].stage \in Stages /\ ~project /\ Goes(i, "lost")
        /\ UNCHANGED <<project, layers, cogs, tasks, overtaken, losses>>
    BY <1>10 DEF ProjectVanished, Stages
  <2>. QED  BY <1>t, <2>1, ImporterGoes DEF Stages, Before, Past
<1>. QED
  BY <1>1, <1>2, <1>3, <1>4, <1>5, <1>6, <1>7, <1>8, <1>9, <1>10 DEF ImportStep

(* A request that touches no COG dies or goes on; a made Task is of a      *)
(* file at its start.                                                      *)
LEMMA DiesStep ==
    ASSUME IInv, NEW p \in Procs, Dies(p)
    PROVE  IInv'
<1>1. /\ Goes(p, "lost") /\ losses' = losses + 1 /\ overtaken' = overtaken \ {p}
      /\ UNCHANGED <<project, layers, cogs, tasks>>
      /\ proc[p].stage \notin {"done", "lost"}
  BY DEF Dies
<1>2. /\ Moves(p, To(p, "lost")) /\ To(p, "lost").stage = "lost"
      /\ To(p, "lost").seen.z <= Height' /\ To(p, "lost").change.z <= MaxAsked
      /\ To(p, "lost").target = proc[p].target
  BY <1>1, GoesMoves DEF IInv, Stages, Before
<1>3. losses' \in Nat /\ overtaken' \subseteq Procs /\ tasks' \in [Importers -> TaskStatus]
      /\ cogs' \subseteq Importers
  BY <1>1 DEF IInv, TypeOK, TaskStatus
<1>4. CASE p \in Importers
  BY <1>1, <1>2, <1>3, <1>4, ImporterMoves DEF Past
<1>5. CASE p \notin Importers
  <2>1. /\ proc'[p] = To(p, "lost")
        /\ \A q \in Procs \ {p} : proc'[q] = proc[q]
    BY <1>2, ProcChanges DEF IInv
  <2>2. TypeOK'
    BY <1>1, <1>2, <1>3, TypeMoves DEF IInv, TypeOK
  <2>3. HeightInv'
    BY <1>1, <1>2, Heights DEF IInv
  <2>4. FilesInv'
    <3>1. ASSUME NEW i \in Importers, Filed(i)
          PROVE  Filed(i)'
      <4>1. proc'[i] = proc[i] /\ i \in Procs
        BY <1>5, <2>1 DEF Procs, Makers
      <4>2. \A d \in Deleters :
               /\ proc'[d].stage = "cleanup" => proc'[d] = proc[d]
               /\ proc[d].stage \in {"cleanup", "lost"} =>
                     proc'[d].stage \in {"cleanup", "lost"} /\ proc'[d].target = proc[d].target
        BY <1>2, <2>1 DEF Procs
      <4>. QED  BY <1>1, <3>1, <4>1, <4>2 DEF Filed
    <3>. QED  BY <1>1, <3>1 DEF IInv, FilesInv
  <2>5. ReadInv'
    <3>1. Knows(p)'
      BY <1>2, <2>1 DEF Knows
    <3>. QED  BY <1>1, <1>2, <3>1, Reads DEF IInv
  <2>. QED  BY <2>2, <2>3, <2>4, <2>5 DEF IInv
<1>. QED  BY <1>4, <1>5

-----------------------------------------------------------------------------
(***************************************************************************)
(* Layers by URL, and changes.                                             *)
(***************************************************************************)
LEMMA RequestMoves ==
    ASSUME IInv, NEW p \in Adders \cup Updaters, NEW state, Moves(p, state),
           UNCHANGED <<project, cogs, tasks, losses>>,
           layers' \in [Makers -> Layer],
           \A i \in Importers : layers'[i].there <=> layers[i].there,
           \A m \in Makers : layers'[m].there => layers[m].there \/ project,
           state.seen.z <= Height' /\ state.change.z <= MaxAsked,
           \A m \in Makers : layers'[m].z <= Height' \/ layers'[m] = layers[m],
           \/ layers' = layers /\ overtaken' = overtaken
           \/ Overtakes(p),
           p \in Adders /\ state.stage \in {"read", "insert"} /\ state.names = {} =>
              layers' = layers /\ \A l \in There : state.seen.z > layers[l].z,
           p \in Updaters /\ state.stage = "read" => 
              state.seen = layers[state.target] /\ layers' = layers
    PROVE  IInv'
<1>1. /\ p \in Procs /\ p \notin Importers /\ p \notin Deleters
      /\ p \in Adders <=> p \in Makers /\ p \notin Updaters
      /\ p \in Updaters <=> p \notin Makers
  BY ConstantsAssumption DEF Procs, Makers
<1>2. proc'[p] = state
  BY <1>1, ProcChanges DEF IInv
<1>3. overtaken' \subseteq Procs
  BY DEF IInv, TypeOK, Overtakes
<1>4. TypeOK'
  BY <1>1, <1>3, TypeMoves DEF IInv, TypeOK, TaskStatus
<1>5. HeightInv'
  BY <1>1, Heights DEF IInv
<1>6. FilesInv'
  BY <1>1, Files DEF IInv
<1>7. p \notin overtaken' => Knows(p)'
  BY <1>1, <1>2 DEF Knows, There
<1>8. ReadInv'
  BY <1>1, <1>7, Reads DEF IInv
<1>. QED  BY <1>4, <1>5, <1>6, <1>8 DEF IInv

LEMMA AdderStep ==
    ASSUME IInv, NEW a \in Adders, ReadTop(a) \/ AddLayer(a)
    PROVE  IInv'
<1>t. /\ a \in Makers /\ a \in Procs /\ a \notin Importers /\ a \notin Updaters
      /\ proc[a] \in ProcState /\ proc[a].change.z <= MaxAsked
      /\ layers \in [Makers -> Layer]
  BY ConstantsAssumption DEF Procs, Makers, IInv, TypeOK, ProcState, HeightInv
<1>1. CASE ReadTop(a)
  <2>1. PICK z \in {Top} \cup 1 .. MaxAsked :
          proc' = [proc EXCEPT ![a].stage = "read", ![a].seen = Placed(z),
                               ![a].names = IF z = Top THEN {} ELSE {"z"}]
    BY <1>1 DEF ReadTop
  <2> DEFINE state == [proc[a] EXCEPT !.stage = "read", !.seen = Placed(z),
                                      !.names = IF z = Top THEN {} ELSE {"z"}]
  <2>2. /\ proc[a].stage = "off" /\ proc' = [proc EXCEPT ![a] = state]
        /\ UNCHANGED <<project, layers, cogs, tasks, overtaken, losses>>
    BY <1>1, <1>t, <2>1 DEF ReadTop, At
  <2>3. Placed(z) \in Layer /\ Placed(z).z = z
    <3>1. CASE z = Top
      BY <1>t, <2>2, <3>1, RoomAbove DEF Before, Placed
    <3>2. CASE z \in 1 .. MaxAsked
      BY <3>2, Bounds, ConstantsAssumption DEF IInv, Placed, Layer, Z
    <3>. QED  BY <3>1, <3>2
  <2>4. /\ state \in ProcState /\ state.stage = "read" /\ state.seen = Placed(z)
        /\ state.change = proc[a].change /\ (state.names = {} => z = Top)
    BY <1>t, <2>3 DEF ProcState, Stages
  <2> HIDE DEF state
  <2>5. Moves(a, state)
    BY <2>2, <2>4 DEF Moves, Before
  <2>6. Height' = Height + 1
    BY <1>t, <2>2, <2>4, <2>5, HeightGrows DEF IInv, Before
  <2>7. state.seen.z <= Height'
    <3>1. z <= Height + 1
      <4>1. CASE z = Top
        BY <4>1, TopIsAbove, Bounds DEF IInv
      <4>2. CASE z \in 1 .. MaxAsked
        BY <4>2, Bounds DEF IInv, Height
      <4>. QED  BY <4>1, <4>2
    <3>. QED  BY <2>3, <2>4, <2>6, <3>1
  <2>8. state.names = {} => \A l \in There : state.seen.z > layers[l].z
    BY <2>3, <2>4, TopIsAbove DEF IInv
  <2>. QED
    BY <1>t, <2>2, <2>4, <2>5, <2>7, <2>8, RequestMoves
<1>2. CASE AddLayer(a)
  <2>1. /\ proc[a].stage = "read" /\ Overtakes(a) /\ Goes(a, "done")
        /\ layers' = IF project THEN [layers EXCEPT ![a] = proc[a].seen] ELSE layers
        /\ UNCHANGED <<project, cogs, tasks, losses>>
    BY <1>2 DEF AddLayer, At
  <2>2. /\ Moves(a, To(a, "done")) /\ To(a, "done").stage = "done"
        /\ To(a, "done").seen.z <= Height' /\ To(a, "done").change.z <= MaxAsked
    BY <1>t, <2>1, GoesMoves DEF IInv, Stages, Before
  <2>3. proc[a].seen \in Layer /\ proc[a].seen.z <= Height'
    BY <1>t, <2>2, HeightGrows, Bounds DEF IInv, HeightInv, ProcState, Layer, Z
  <2>4. /\ layers' \in [Makers -> Layer]
        /\ \A m \in Makers \ {a} : layers'[m] = layers[m]
        /\ layers'[a] = IF project THEN proc[a].seen ELSE layers[a]
    BY <1>t, <2>1, <2>3
  <2>. QED
    BY <1>t, <2>1, <2>2, <2>3, <2>4, RequestMoves DEF Makers
<1>. QED  BY <1>1, <1>2

LEMMA UpdaterStep ==
    ASSUME IInv, NEW u \in Updaters,
           AskUpdate(u) \/ WriteLayer(u) \/ \E l \in Makers : ReadLayer(u, l)
    PROVE  IInv'
<1>t. /\ u \in Procs /\ u \notin Makers /\ u \notin Adders
      /\ proc[u] \in ProcState /\ proc[u].change.z <= MaxAsked /\ proc[u].seen.z <= Height
      /\ proc[u].change.z \in Nat /\ proc[u].seen.z \in Nat
      /\ layers \in [Makers -> Layer]
      /\ \A m \in Makers : layers[m].z <= Height
  <2>1. u \in Procs /\ u \notin Makers /\ u \notin Adders
    BY ConstantsAssumption DEF Procs, Makers
  <2>2. proc[u] \in ProcState /\ layers \in [Makers -> Layer]
    BY <2>1 DEF IInv, TypeOK, ProcState
  <2>3. proc[u].change.z \in Nat /\ proc[u].seen.z \in Nat
    BY <2>2, Bounds DEF IInv, ProcState, Layer, Z
  <2>. QED  BY <2>1, <2>2, <2>3 DEF IInv, HeightInv
<1>1. CASE AskUpdate(u)
  <2>1. PICK todo \in SUBSET There \ {{}},
             change \in [there : {TRUE}, z : 0 .. MaxAsked, style : Styles],
             names \in SUBSET {"z", "style"} :
          proc' = [proc EXCEPT ![u] = [Off EXCEPT !.stage = "queued", !.todo = todo,
                                                  !.change = change, !.names = names]]
    BY <1>1 DEF AskUpdate
  <2> DEFINE old == [Off EXCEPT !.stage = "queued"]
             state == [Off EXCEPT !.stage = "queued", !.todo = todo,
                                  !.change = change, !.names = names]
  <2>2. change \in Layer /\ change.z <= MaxAsked /\ todo \subseteq Makers
    <3>1. 0 .. MaxAsked \subseteq Z /\ \A z \in 0 .. MaxAsked : z <= MaxAsked
      BY Bounds DEF IInv, Z
    <3>. QED  BY <3>1 DEF Layer, There
  <2>3. /\ old \in ProcState /\ old.seen.z = 0
        /\ state = [old EXCEPT !.todo = todo, !.change = change, !.names = names]
    BY OffIsState DEF IInv, Stages, Off
  <2> HIDE DEF old
  <2>4. state \in ProcState /\ state.stage = "queued" /\ state.seen.z = 0 /\ state.change = change
    BY <2>2, <2>3 DEF ProcState, Off, NoLayer
  <2> HIDE DEF state
  <2>5. Moves(u, state)
    BY <1>t, <2>1, <2>4 DEF Moves, state
  <2>6. 0 <= Height'
    BY <1>t, <2>5, HeightGrows DEF IInv
  <2>. QED
    BY <1>1, <1>t, <2>2, <2>4, <2>5, <2>6, RequestMoves DEF AskUpdate
<1>2. ASSUME NEW stage \in {"queued", "done"}, Goes(u, stage),
             UNCHANGED <<project, cogs, tasks, losses>>,
             layers' \in [Makers -> Layer],
             \A m \in Makers : /\ layers'[m].there <=> layers[m].there
                               /\ layers'[m].z <= Height \/ layers'[m] = layers[m],
             \/ layers' = layers /\ overtaken' = overtaken
             \/ Overtakes(u)
      PROVE  IInv'
  <2>1. /\ Moves(u, To(u, stage)) /\ To(u, stage).stage = stage
        /\ To(u, stage).seen.z <= Height' /\ To(u, stage).change.z <= MaxAsked
    BY <1>t, <1>2, GoesMoves DEF IInv, Stages, Before
  <2>2. \A m \in Makers : layers'[m].z <= Height' \/ layers'[m] = layers[m]
    BY <1>2, <1>t, <2>1, HeightGrows, Bounds DEF IInv, Layer, Z
  <2>. QED
    BY <1>2, <1>t, <2>1, <2>2, RequestMoves DEF Makers
<1>3. ASSUME NEW l \in Makers, ReadLayer(u, l)
      PROVE  IInv'
  <2>1. CASE layers[l].there
    <3> DEFINE state == [proc[u] EXCEPT !.stage = "read", !.target = l,
                                        !.todo = proc[u].todo \ {l}, !.seen = layers[l]]
    <3>1. /\ proc' = [proc EXCEPT ![u] = state]
          /\ UNCHANGED <<project, layers, cogs, tasks, overtaken, losses>>
      BY <1>3, <1>t, <2>1 DEF ReadLayer
    <3>2. /\ state \in ProcState /\ state.stage = "read" /\ state.seen = layers[l]
          /\ state.target = l /\ state.change = proc[u].change
      BY <1>t DEF ProcState, Stages
    <3> HIDE DEF state
    <3>3. Moves(u, state)
      BY <1>t, <3>1, <3>2 DEF Moves
    <3>4. state.seen.z <= Height'
      BY <1>t, <3>2, <3>3, HeightGrows, Bounds DEF IInv, Layer, Z
    <3>. QED
      BY <1>t, <3>1, <3>2, <3>3, <3>4, RequestMoves
  <2>2. CASE ~layers[l].there
    BY <1>2, <1>3, <1>t, <2>2 DEF ReadLayer
  <2>. QED  BY <2>1, <2>2
<1>4. CASE WriteLayer(u)
  <2> DEFINE l == proc[u].target
             changed == Merged(u) # proc[u].seen
             stale == changed /\ ~layers[l].there
             stage == IF ~stale /\ proc[u].todo # {} THEN "queued" ELSE "done"
  <2>1. /\ layers' = IF changed /\ ~stale THEN [layers EXCEPT ![l] = Merged(u)] ELSE layers
        /\ Overtakes(u) /\ Goes(u, stage) /\ UNCHANGED <<project, cogs, tasks, losses>>
    BY <1>4 DEF WriteLayer
  <2>2. Merged(u) \in Layer /\ Merged(u).z <= Height /\ Merged(u).there
    BY <1>t, Bounds DEF IInv, Merged, ProcState, Layer, Height
  <2>3. /\ layers' \in [Makers -> Layer]
        /\ \A m \in Makers : /\ layers'[m].there <=> layers[m].there
                             /\ layers'[m].z <= Height \/ layers'[m] = layers[m]
    BY <1>t, <2>1, <2>2
  <2>. QED  BY <1>2, <2>1, <2>3
<1>. QED  BY <1>1, <1>3, <1>4

(* Of a deleted layer, the row goes first: until its file has gone, or for *)
(* ever when the request was lost, the request accounts for the file.      *)
LEMMA DeleterStep ==
    ASSUME IInv, NEW d \in Deleters, DeleteFile(d) \/ \E l \in Makers : DeleteLayer(d, l)
    PROVE  IInv'
<1>t. /\ d \in Procs /\ d \notin Makers /\ d \notin Importers /\ d \notin Updaters
      /\ proc[d] \in ProcState /\ proc[d].change.z <= MaxAsked /\ proc[d].seen.z <= Height
      /\ proc[d].seen.z \in Nat
      /\ layers \in [Makers -> Layer]
  <2>1. d \in Procs /\ d \notin Makers /\ d \notin Importers /\ d \notin Updaters
    BY ConstantsAssumption DEF Procs, Makers
  <2>2. proc[d] \in ProcState /\ layers \in [Makers -> Layer]
    BY <2>1 DEF IInv, TypeOK, ProcState
  <2>3. proc[d].seen.z \in Nat
    BY <2>2, Bounds DEF IInv, ProcState, Layer, Z
  <2>. QED  BY <2>1, <2>2, <2>3 DEF IInv, HeightInv
<1>1. CASE DeleteFile(d)
  <2>0. PICK x : x = proc[d].target
    OBVIOUS
  <2>1. /\ proc[d].stage = "cleanup" /\ cogs' = cogs \ {x} /\ Goes(d, "done")
        /\ UNCHANGED <<project, layers, tasks, overtaken, losses>>
    BY <1>1, <2>0 DEF DeleteFile, At
  <2>2. /\ Moves(d, To(d, "done")) /\ To(d, "done").stage = "done"
        /\ To(d, "done").seen.z <= Height' /\ To(d, "done").change.z <= MaxAsked
    BY <1>t, <2>1, GoesMoves DEF IInv, Stages, Before
  <2>3. /\ proc'[d] = To(d, "done") /\ \A q \in Procs \ {d} : proc'[q] = proc[q]
    BY <1>t, <2>2, ProcChanges DEF IInv
  <2>4. TypeOK'
    BY <1>t, <2>1, <2>2, TypeMoves DEF IInv, TypeOK, TaskStatus
  <2>5. HeightInv'
    BY <1>t, <2>1, <2>2, Heights DEF IInv
  <2>6. FilesInv'
    <3>1. ASSUME x \in Importers, Filed(x)
          PROVE  Filed(x)'
      <4>1. proc'[x] = proc[x] /\ x \in Procs
        BY <1>t, <2>3, <3>1 DEF Procs, Makers
      <4>2. ~layers[x].there /\ proc[x].stage \in Past
        BY <2>0, <2>1, <3>1 DEF Filed
      <4>3. x \notin cogs' /\ proc'[x].stage \notin {"made", "insert"}
        BY <2>1, <4>1, <4>2 DEF Past
      <4>. QED  BY <2>1, <4>1, <4>2, <4>3 DEF Filed
    <3>2. \A i \in Importers \ {x} : i \in cogs' <=> i \in cogs
      BY <2>1
    <3>. QED  BY <1>t, <2>0, <2>1, <2>2, <3>1, <3>2, Files DEF IInv
  <2>7. ReadInv'
    <3>1. Knows(d)'
      BY <1>t DEF Knows
    <3>. QED  BY <1>t, <2>1, <2>2, <3>1, Reads DEF IInv
  <2>. QED  BY <2>4, <2>5, <2>6, <2>7 DEF IInv
<1>2. ASSUME NEW l \in Makers, DeleteLayer(d, l)
      PROVE  IInv'
  <2> DEFINE stage == IF l \in Importers THEN "cleanup" ELSE "done"
             state == [proc[d] EXCEPT !.stage = stage, !.target = l]
  <2>1. /\ proc[d].stage = "off" /\ layers[l].there
        /\ layers' = [layers EXCEPT ![l] = NoLayer] /\ Overtakes(d)
        /\ proc' = [proc EXCEPT ![d].stage = stage, ![d].target = l]
        /\ UNCHANGED <<project, cogs, tasks, losses>>
    BY <1>2 DEF DeleteLayer, At
  <2>2. /\ state \in ProcState /\ state.target = l /\ state.stage = stage
        /\ state.change = proc[d].change /\ state.seen = proc[d].seen
    BY <1>t DEF ProcState, Stages
  <2> HIDE DEF state
  <2>3. Moves(d, state)
    <3>1. proc' = [proc EXCEPT ![d] = state]
      BY <1>t, <2>1 DEF state
    <3>. QED  BY <1>t, <2>2, <3>1 DEF Moves
  <2>4. /\ proc'[d] = state /\ \A q \in Procs \ {d} : proc'[q] = proc[q]
    BY <1>t, <2>3, ProcChanges DEF IInv
  <2>5. /\ layers' \in [Makers -> Layer] /\ overtaken' \subseteq Procs
        /\ layers'[l] = NoLayer /\ \A m \in Makers \ {l} : layers'[m] = layers[m]
    BY <1>t, <2>1, Bounds DEF IInv, TypeOK, Overtakes
  <2>6. TypeOK'
    BY <1>t, <2>1, <2>3, <2>5, TypeMoves DEF IInv, TypeOK, TaskStatus
  <2>7. HeightInv'
    <3>1. Height' \in Nat /\ Height <= Height'
      BY <1>t, <2>3, HeightGrows DEF IInv
    <3>2. state.seen.z <= Height' /\ state.change.z <= MaxAsked
      BY <1>t, <2>2, <3>1, Bounds DEF IInv
    <3>3. \A m \in Makers : layers'[m].z <= Height' \/ layers'[m] = layers[m]
      BY <2>5, <3>1 DEF NoLayer
    <3>. QED  BY <1>t, <2>3, <3>2, <3>3, Heights DEF IInv
  <2>8. FilesInv'
    <3>1. ASSUME l \in Importers, Filed(l)
          PROVE  Filed(l)'
      <4>1. proc'[l] = proc[l] /\ l \in Procs
        BY <1>t, <2>4, <3>1 DEF Procs, Makers
      <4>2. ~layers'[l].there /\ proc[l].stage \in Past
        BY <2>1, <2>5, <3>1 DEF Filed, NoLayer
      <4>3. proc'[d].stage = "cleanup" /\ proc'[d].target = l
        BY <2>2, <2>4, <3>1
      <4>. QED  BY <4>1, <4>2, <4>3 DEF Filed, Past
    <3>2. \A m \in Makers : layers'[m].there => layers[m].there
      BY <2>1, <2>5
    <3>. QED  BY <1>t, <2>1, <2>2, <2>3, <2>5, <3>1, <3>2, Files DEF IInv, Makers
  <2>9. ReadInv'
    <3>1. Knows(d)'
      BY <1>t DEF Knows
    <3>. QED  BY <1>t, <2>1, <2>3, <3>1, Reads DEF IInv
  <2>. QED  BY <2>6, <2>7, <2>8, <2>9 DEF IInv
<1>. QED  BY <1>1, <1>2

-----------------------------------------------------------------------------
(***************************************************************************)
(* Steps that belong to no one process.                                    *)
(***************************************************************************)
LEMMA MakeTasksStep ==
    ASSUME IInv, NEW files \in SUBSET Importers, MakeTasks(files)
    PROVE  IInv'
<1> DEFINE state == [Off EXCEPT !.stage = "publish"]
<1>1. /\ \A i \in files : proc[i].stage = "off"
      /\ proc' = [p \in Procs |-> IF p \in files THEN state ELSE proc[p]]
      /\ tasks' = [i \in Importers |-> IF i \in files THEN "QUEUED" ELSE tasks[i]]
      /\ UNCHANGED <<project, layers, cogs, overtaken, losses>>
  BY DEF MakeTasks, At
<1>2. /\ state \in ProcState /\ state.stage = "publish" /\ state.seen.z = 0 /\ state.change.z = 0
  BY OffIsState DEF IInv, Stages
<1> HIDE DEF state
<1>3. TypeOK'
  BY <1>1, <1>2 DEF IInv, TypeOK, ProcState
<1>4. Placers' = Placers
  BY <1>1, <1>2 DEF Placers, Before, Procs
<1>5. HeightInv'
  BY <1>1, <1>2, <1>4, Bounds DEF IInv, HeightInv, Height
<1>6. \A d \in Deleters : proc'[d] = proc[d]
  BY <1>1, ConstantsAssumption DEF Procs, Makers
<1>u. UNCHANGED <<project, layers, cogs>>
  BY <1>1
<1>7. ASSUME NEW i \in Importers
      PROVE  Filed(i)'
  <2>1. CASE i \in files
    <3>1. proc[i].stage = "off" /\ proc'[i].stage = "publish"
      BY <1>1, <1>2, <2>1 DEF Procs, Makers
    <3>. QED  BY <1>u, <1>6, <3>1 DEF IInv, FilesInv, Filed, Past
  <2>2. CASE i \notin files
    <3>1. proc'[i] = proc[i]
      BY <1>1, <2>2 DEF Procs, Makers
    <3>. QED  BY <1>u, <1>6, <3>1 DEF IInv, FilesInv, Filed, Past
  <2>. QED  BY <2>1, <2>2
<1>8. FilesInv'
  BY <1>1, <1>7 DEF IInv, FilesInv
<1>9. ReadInv'
  BY <1>1, <1>2 DEF IInv, ReadInv, Knows, There
<1>. QED  BY <1>3, <1>5, <1>8, <1>9 DEF IInv

LEMMA DeleteProjectStep ==
    ASSUME IInv, DeleteProject
    PROVE  IInv'
<1>1. /\ project' = FALSE /\ layers' = [m \in Makers |-> NoLayer]
      /\ tasks' = [i \in Importers |-> "none"] /\ UNCHANGED <<cogs, proc, overtaken, losses>>
  BY DEF DeleteProject
<1>2. TypeOK'
  BY <1>1, Bounds DEF IInv, TypeOK
<1>3. HeightInv'
  <2>1. Height' = Height /\ Height \in Nat
    BY <1>1, Bounds DEF IInv, Height, Placers
  <2>2. \A m \in Makers : layers'[m].z = 0
    BY <1>1 DEF NoLayer
  <2>. QED  BY <1>1, <2>1, <2>2 DEF IInv, HeightInv
<1>4. \A m \in Makers : ~layers'[m].there
  BY <1>1 DEF NoLayer
<1>5. FilesInv'
  BY <1>1, <1>4 DEF IInv, FilesInv, Filed, Makers
<1>6. ReadInv'
  BY <1>1, <1>4 DEF IInv, ReadInv, Knows, There
<1>. QED  BY <1>2, <1>3, <1>5, <1>6 DEF IInv

LEMMA RemoveAssetsStep ==
    ASSUME IInv, RemoveAssets
    PROVE  IInv'
<1>1. ~project /\ cogs' = {} /\ UNCHANGED <<project, layers, tasks, proc, overtaken, losses>>
  BY DEF RemoveAssets
<1>2. TypeOK' /\ HeightInv' /\ ReadInv'
  BY <1>1 DEF IInv, TypeOK, HeightInv, Height, Placers, ReadInv, Knows, There
<1>3. FilesInv'
  BY <1>1 DEF IInv, FilesInv, Filed, Makers
<1>. QED  BY <1>2, <1>3 DEF IInv

LEMMA NextStep == IInv /\ [Next]_vars => IInv'
<1> SUFFICES ASSUME IInv, [Next]_vars PROVE IInv'
  OBVIOUS
<1>1. CASE UNCHANGED vars
  BY <1>1 DEF vars, IInv, TypeOK, HeightInv, Height, Placers, FilesInv, Filed, ReadInv, Knows, There
<1>. QED
  BY <1>1, AdderStep, UpdaterStep, DeleterStep, MakeTasksStep, ImportStepKeeps, DiesStep,
     DeleteProjectStep, RemoveAssetsStep DEF Next

LEMMA AtFirst == Init => IInv
<1> SUFFICES ASSUME Init PROVE IInv
  OBVIOUS
<1>1. /\ IsFiniteSet(Makers) /\ Cardinality(Makers) \in Nat /\ MaxAsked \in Nat
  BY ConstantsAssumption, FS_Subset, FS_CardinalityType DEF Procs
<1>2. NoLayer \in Layer /\ Off \in ProcState /\ Off.stage = "off"
      /\ Off.seen.z = 0 /\ Off.change.z = 0
  BY <1>1, ConstantsAssumption DEF NoLayer, Layer, Z, Off, ProcState, Stages
<1>3. TypeOK
  BY <1>2 DEF Init, TypeOK, ProcState
<1>4. HeightInv
  BY <1>2, <1>3, Bounds DEF Init, HeightInv, NoLayer
<1>5. \A p \in Procs : proc[p].stage = "off"
  BY <1>2 DEF Init
<1>6. FilesInv
  BY <1>5 DEF Init, FilesInv, Filed, NoLayer, Procs, Makers
<1>7. ReadInv
  BY <1>5 DEF Init, ReadInv, Knows
<1>. QED  BY <1>3, <1>4, <1>6, <1>7 DEF IInv

LEMMA Invariance == Spec => []IInv
BY AtFirst, NextStep, PTL DEF Spec

-----------------------------------------------------------------------------
(***************************************************************************)
(* The Tasks of the imports.                                               *)
(***************************************************************************)
(* One import's Task; rows go with the project, and a COG is not there     *)
(* before its turn.                                                        *)
Settled(i) ==
    /\ Pending(i) => proc[i].stage \notin {"off", "done"}
    /\ tasks[i] \in {"COMPLETED", "FAILED", "error"} => proc[i].stage = "done"
    /\ tasks[i] \in {"FAILED", "error"} => ~layers[i].there /\ i \notin cogs
    /\ i \in cogs => proc[i].stage \in {"made", "insert"} \cup Past
    /\ ~project => tasks[i] = "none"

TaskInv == \A i \in Importers : Settled(i)

(* Others only take away layers and COGs.                                  *)
LEMMA OthersSettle ==
    ASSUME NEW i \in Importers, Settled(i), proc'[i] = proc[i], tasks'[i] = tasks[i],
           project' = project,
           layers'[i].there => layers[i].there, i \in cogs' => i \in cogs
    PROVE  Settled(i)'
BY DEF Settled, Pending

(* An import's own step is its Task's only one.                            *)
LEMMA OwnStepSettles ==
    ASSUME IInv, NEW i \in Importers, Settled(i), ImportStep(i)
    PROVE  Settled(i)'
<1>t. /\ i \in Procs /\ i \in Makers /\ proc[i] \in ProcState /\ proc \in [Procs -> ProcState]
      /\ tasks \in [Importers -> TaskStatus] /\ layers \in [Makers -> Layer]
  BY DEF IInv, TypeOK, ProcState, Procs, Makers, TaskStatus
<1>g. ASSUME NEW stage, Goes(i, stage)
      PROVE  proc'[i].stage = stage
  BY <1>t, <1>g DEF Goes, Off, ProcState
<1>s. ASSUME NEW status, SetTask(i, status)
      PROVE  tasks'[i] = IF project THEN status ELSE tasks[i]
  BY <1>t, <1>s DEF SetTask
<1>f. layers[i].there => i \in cogs /\ proc[i].stage \in Past
  BY DEF IInv, FilesInv, Filed
<1>1. CASE Publish(i)
  <2>1. proc[i].stage = "publish" /\ proc'[i].stage \in {"queued", "refused"}
    BY <1>1, <1>g DEF Publish, At
  <2>. QED  BY <1>1, <2>1 DEF Publish, Settled, Pending, Past
<1>2. CASE MarkRefused(i)
  <2>1. /\ proc[i].stage = "refused" /\ proc'[i].stage = "done"
        /\ tasks'[i] = (IF project THEN "error" ELSE tasks[i])
        /\ UNCHANGED <<project, layers, cogs>>
    BY <1>2, <1>g, <1>s DEF MarkRefused, At
  <2>2. i \notin cogs /\ ~layers[i].there
    BY <1>f, <2>1 DEF Settled, Past
  <2>. QED  BY <2>1, <2>2 DEF Settled, Pending
<1>3. ASSUME NEW from \in {"queued", "fetch"}, NEW to \in {"fetch", "convert"},
             Progress(i, from, to)
      PROVE  Settled(i)'
  <2>1. /\ proc[i].stage = from /\ proc'[i].stage = to /\ project
        /\ tasks'[i] = "RUNNING" /\ UNCHANGED <<project, layers, cogs>>
    BY <1>3, <1>g, <1>s DEF Progress, At
  <2>. QED  BY <2>1 DEF Settled, Pending, Past
<1>4. CASE Cogify(i)
  <2>1. /\ proc[i].stage = "convert" /\ proc'[i].stage = "made"
        /\ UNCHANGED <<project, layers, tasks>>
    BY <1>4, <1>g DEF Cogify, At
  <2>. QED  BY <2>1 DEF Settled, Pending
<1>5. CASE PlaceOnTop(i)
  <2>1. /\ proc[i].stage = "made" /\ proc'[i].stage = "insert"
        /\ UNCHANGED <<project, layers, cogs, tasks>>
    BY <1>5, <1>t DEF PlaceOnTop, At, ProcState
  <2>. QED  BY <2>1 DEF Settled, Pending
<1>6. CASE InsertLayer(i)
  <2>1. /\ proc[i].stage = "insert" /\ proc'[i].stage = "report"
        /\ UNCHANGED <<project, cogs, tasks>>
    BY <1>6, <1>g DEF InsertLayer, At
  <2>. QED  BY <2>1 DEF Settled, Pending, Past
<1>7. CASE Complete(i)
  <2>1. /\ proc[i].stage = "report" /\ proc'[i].stage = "done" /\ project
        /\ tasks'[i] = "COMPLETED" /\ UNCHANGED <<project, layers, cogs>>
    BY <1>7, <1>g, <1>s DEF Complete, At
  <2>. QED  BY <2>1 DEF Settled, Pending, Past
<1>8. CASE Fail(i)
  <2>1. /\ proc[i].stage \in {"fetch", "convert", "made"} /\ proc'[i].stage = "done" /\ project
        /\ tasks'[i] = "FAILED" /\ cogs' = cogs \ {i} /\ UNCHANGED <<project, layers>>
    BY <1>8, <1>g, <1>s DEF Fail
  <2>. QED  BY <1>f, <2>1 DEF Settled, Pending, Past
<1>9. CASE ProjectVanished(i)
  <2>1. /\ proc[i].stage # "done" /\ proc'[i].stage = "lost"
        /\ UNCHANGED <<project, layers, cogs, tasks>>
    BY <1>9, <1>g DEF ProjectVanished
  <2>. QED  BY <2>1 DEF Settled, Pending, Past
<1>. QED
  BY <1>1, <1>2, <1>3, <1>4, <1>5, <1>6, <1>7, <1>8, <1>9 DEF ImportStep, Start, Fetch

(* One process goes on: any other, and what it leaves of the import.       *)
LEMMA GoesElsewhere ==
    ASSUME TypeOK, NEW p \in Procs, NEW stage, Goes(p, stage), NEW q \in Procs \ {p}
    PROVE  proc'[q] = proc[q]
BY DEF TypeOK, Goes

LEMMA OtherImports ==
    ASSUME IInv, NEW i \in Importers, Settled(i), NEW j \in Importers \ {i}, ImportStep(j)
    PROVE  Settled(i)'
<1>t. /\ i \in Procs /\ j \in Procs /\ i \in Makers /\ TypeOK
      /\ proc \in [Procs -> ProcState]
      /\ tasks \in [Importers -> TaskStatus] /\ layers \in [Makers -> Layer]
  BY DEF IInv, TypeOK, ProcState, Procs, Makers, TaskStatus
<1>1. \A stage : Goes(j, stage) => proc'[i] = proc[i]
  BY <1>t, GoesElsewhere
<1>2. proc'[i] = proc[i]
  BY <1>t, <1>1 DEF ImportStep, Publish, MarkRefused, Start, Fetch, Progress, Cogify, PlaceOnTop,
                    InsertLayer, Complete, Fail, ProjectVanished
<1>3. project' = project
  BY DEF ImportStep, Publish, MarkRefused, Start, Fetch, Progress, Cogify, PlaceOnTop,
         InsertLayer, Complete, Fail, ProjectVanished
<1>4. tasks'[i] = tasks[i]
  BY <1>t DEF ImportStep, Publish, MarkRefused, Start, Fetch, Progress, Cogify, PlaceOnTop,
              InsertLayer, Complete, Fail, ProjectVanished, SetTask
<1>5. layers'[i] = layers[i]
  BY <1>t DEF ImportStep, Publish, MarkRefused, Start, Fetch, Progress, Cogify, PlaceOnTop,
              InsertLayer, Complete, Fail, ProjectVanished
<1>6. i \in cogs' => i \in cogs
  BY DEF ImportStep, Publish, MarkRefused, Start, Fetch, Progress, Cogify, PlaceOnTop,
         InsertLayer, Complete, Fail, ProjectVanished
<1>. QED  BY <1>2, <1>3, <1>4, <1>5, <1>6, OthersSettle

LEMMA TaskStep == IInv /\ TaskInv /\ [Next]_vars => TaskInv'
<1> SUFFICES ASSUME IInv, TaskInv, [Next]_vars, NEW i \in Importers
             PROVE  Settled(i)'
  BY DEF TaskInv
<1>t. /\ i \in Procs /\ i \in Makers /\ i \notin Adders \cup Updaters \cup Deleters
      /\ TypeOK /\ Settled(i)
      /\ proc \in [Procs -> ProcState] /\ layers \in [Makers -> Layer]
  BY ConstantsAssumption DEF IInv, TypeOK, ProcState, Procs, Makers, TaskInv
<1>e. ASSUME NEW p \in Procs \ {i}, NEW stage, Goes(p, stage)
      PROVE  proc'[i] = proc[i]
  BY <1>t, <1>e, GoesElsewhere
<1>1. ASSUME NEW a \in Adders, ReadTop(a) \/ AddLayer(a)
      PROVE  Settled(i)'
  <2>1. a \in Procs \ {i} /\ a \in Makers \ {i}
    BY <1>t DEF Procs, Makers
  <2>2. proc'[i] = proc[i]
    BY <1>1, <1>e, <1>t, <2>1 DEF ReadTop, AddLayer
  <2>3. layers'[i] = layers[i] /\ UNCHANGED <<project, cogs, tasks>>
    BY <1>1, <1>t, <2>1 DEF ReadTop, AddLayer
  <2>. QED  BY <1>t, <2>2, <2>3, OthersSettle
<1>2. ASSUME NEW u \in Updaters,
             AskUpdate(u) \/ WriteLayer(u) \/ \E l \in Makers : ReadLayer(u, l)
      PROVE  Settled(i)'
  <2>1. u \in Procs \ {i}
    BY <1>t DEF Procs
  <2>2. proc'[i] = proc[i]
    BY <1>2, <1>e, <1>t, <2>1 DEF AskUpdate, WriteLayer, ReadLayer
  <2>3. layers'[i].there => layers[i].there
    BY <1>2, <1>t DEF AskUpdate, WriteLayer, ReadLayer
  <2>4. UNCHANGED <<project, cogs, tasks>>
    BY <1>2 DEF AskUpdate, WriteLayer, ReadLayer
  <2>. QED  BY <1>t, <2>2, <2>3, <2>4, OthersSettle
<1>3. ASSUME NEW d \in Deleters, DeleteFile(d) \/ \E l \in Makers : DeleteLayer(d, l)
      PROVE  Settled(i)'
  <2>1. d \in Procs \ {i}
    BY <1>t DEF Procs
  <2>2. proc'[i] = proc[i]
    BY <1>3, <1>e, <1>t, <2>1 DEF DeleteFile, DeleteLayer
  <2>3. layers'[i].there => layers[i].there
    BY <1>3, <1>t DEF DeleteFile, DeleteLayer, NoLayer
  <2>4. UNCHANGED <<project, tasks>> /\ (i \in cogs' => i \in cogs)
    BY <1>3 DEF DeleteFile, DeleteLayer
  <2>. QED  BY <1>t, <2>2, <2>3, <2>4, OthersSettle
<1>4. ASSUME NEW files \in SUBSET Importers, MakeTasks(files)
      PROVE  Settled(i)'
  <2>1. UNCHANGED <<project, layers, cogs>> /\ project
    BY <1>4 DEF MakeTasks
  <2>2. CASE i \in files
    <3>1. proc[i].stage = "off" /\ proc'[i].stage = "publish" /\ tasks'[i] = "QUEUED"
      BY <1>4, <1>t, <2>2 DEF MakeTasks, At, Off
    <3>2. i \notin cogs
      BY <1>t, <3>1 DEF Settled, Past
    <3>. QED  BY <2>1, <3>1, <3>2 DEF Settled, Pending
  <2>3. CASE i \notin files
    <3>1. proc'[i] = proc[i] /\ tasks'[i] = tasks[i]
      BY <1>4, <1>t, <2>3 DEF MakeTasks
    <3>. QED  BY <1>t, <2>1, <3>1, OthersSettle
  <2>. QED  BY <2>2, <2>3
<1>5. ASSUME NEW p \in Procs, Dies(p)
      PROVE  Settled(i)'
  <2>1. UNCHANGED <<project, layers, cogs, tasks>> /\ proc[p].stage \notin {"off", "done"}
    BY <1>5 DEF Dies
  <2>2. CASE p = i
    <3>1. proc'[i].stage = "lost"
      BY <1>5, <1>t, <2>2 DEF Dies, Goes, ProcState
    <3>. QED  BY <1>t, <2>1, <2>2, <3>1 DEF Settled, Pending, Past
  <2>3. CASE p # i
    <3>1. proc'[i] = proc[i]
      BY <1>5, <1>e, <2>3 DEF Dies
    <3>. QED  BY <1>t, <2>1, <3>1, OthersSettle
  <2>. QED  BY <2>2, <2>3
<1>6. CASE DeleteProject
  <2>1. tasks'[i] = "none" /\ proc' = proc /\ cogs' = cogs
    BY <1>6 DEF DeleteProject
  <2>. QED  BY <1>t, <2>1 DEF Settled, Pending
<1>7. CASE RemoveAssets
  BY <1>7, <1>t, OthersSettle DEF RemoveAssets
<1>8. CASE UNCHANGED vars
  BY <1>8, <1>t, OthersSettle DEF vars
<1>. QED
  BY <1>1, <1>2, <1>3, <1>4, <1>5, <1>6, <1>7, <1>8, <1>t, OwnStepSettles, OtherImports DEF Next

LEMMA TasksTellState == Spec => []TaskInv
<1>1. Init => TaskInv
  BY DEF Init, TaskInv, Settled, Pending, NoLayer, Makers
<1>. QED  BY <1>1, TaskStep, Invariance, PTL DEF Spec

-----------------------------------------------------------------------------
(* The variables keep their types; in particular no layer is placed higher *)
(* than the requests' own positions and one for each layer ever made       *)
(* (services/tile_server.py, tasks/raster.py).                             *)
THEOREM TypeCorrect == Spec => []TypeOK
<1>1. IInv => TypeOK
  BY DEF IInv
<1>. QED  BY <1>1, Invariance, PTL

(* A layer of TiTiler has its COG, and a COG its layer, an import that     *)
(* will make one, or a deletion on its way; failed downloads and           *)
(* conversions, refused messages and deleted projects leave none without,  *)
(* only lost processes do.  A Task that is QUEUED or RUNNING is that of an *)
(* import on its way or lost, one that has failed left neither layer nor   *)
(* COG, and a finished one stays as it is (services/tile_server.py,        *)
(* deleteTileServer; tasks/raster.py, import_tile_servers_from_tapis).     *)
THEOREM FilesAlwaysMatch == Spec => []FilesMatchLayers
<1>1. IInv /\ TaskInv => FilesMatchLayers
  <2> SUFFICES ASSUME IInv, TaskInv PROVE FilesMatchLayers
    OBVIOUS
  <2>1. LayerHasFile /\ FileHasLayer
    BY DEF IInv, TypeOK, FilesInv, Filed, LayerHasFile, FileHasLayer
  <2>2. TaskTellsState
    BY DEF TaskInv, Settled, TaskTellsState, At
  <2>. QED  BY <2>1, <2>2 DEF FilesMatchLayers
<1>. QED  BY <1>1, Invariance, TasksTellState, PTL

(* The position that a POST or an import works out from the rows is above  *)
(* every row when it is inserted, as long as nobody else has changed a row *)
(* in between (services/tile_server.py, addTileServer, and the imports).   *)
THEOREM LayersComeOnTop == Spec => NewLayerOnTop
<1>1. ASSUME IInv, [Next]_vars, NEW m \in Makers, ~layers[m].there, layers'[m].there,
             m \notin overtaken, proc[m].names = {}, NEW l \in There
      PROVE  layers'[m].z > layers[l].z
  <2>t. layers \in [Makers -> Layer] /\ m \in Procs
    BY <1>1 DEF IInv, TypeOK, Procs
  <2>1. proc[m].stage \in {"read", "insert"} => proc[m].seen.z > layers[l].z
    BY <1>1, <2>t DEF IInv, ReadInv, Knows
  <2>2. ASSUME NEW a \in Adders, AddLayer(a)
        PROVE  a = m /\ proc[m].stage = "read" /\ layers'[m] = proc[m].seen
    BY <1>1, <2>t, <2>2 DEF AddLayer, At
  <2>3. ASSUME NEW i \in Importers, InsertLayer(i)
        PROVE  i = m /\ proc[m].stage = "insert" /\ layers'[m] = proc[m].seen
    BY <1>1, <2>t, <2>3 DEF InsertLayer, At
  <2>4. ASSUME NEW u \in Updaters, WriteLayer(u)
        PROVE  FALSE
    BY <1>1, <2>t, <2>4 DEF WriteLayer
  <2>5. ASSUME NEW d \in Deleters, NEW k \in Makers, DeleteLayer(d, k)
        PROVE  FALSE
    BY <1>1, <2>t, <2>5 DEF DeleteLayer, NoLayer
  <2>6. ~DeleteProject
    BY <1>1 DEF DeleteProject, NoLayer
  <2>7. ~UNCHANGED layers
    BY <1>1
  <2>8. ASSUME NEW i \in Importers, ImportStep(i)
        PROVE  InsertLayer(i)
    BY <2>7, <2>8 DEF ImportStep, Publish, MarkRefused, Start, Fetch, Progress, Cogify, PlaceOnTop,
                      Complete, Fail, ProjectVanished
  <2>9. \/ \E a \in Adders : AddLayer(a)
        \/ \E i \in Importers : InsertLayer(i)
    BY <1>1, <2>4, <2>5, <2>6, <2>7, <2>8 DEF Next, vars, ReadTop, AskUpdate, ReadLayer, DeleteFile,
                                             MakeTasks, Dies, RemoveAssets
  <2>. QED  BY <2>1, <2>2, <2>3, <2>9
<1>2. IInv /\ [Next]_vars =>
         \A m \in Makers : ~layers[m].there /\ layers'[m].there
           /\ m \notin overtaken /\ proc[m].names = {} =>
               \A l \in There : layers'[m].z > layers[l].z
  BY <1>1
<1>. QED  BY <1>2, Invariance, PTL DEF Spec, NewLayerOnTop

(* An update writes the row it has read with the options it was given; if  *)
(* nobody has written that row in between, the other options keep their    *)
(* values (services/tile_server.py, updateTileServer).                     *)
THEOREM UpdatesMerge == Spec => UpdateMerges
<1>1. ASSUME IInv, [Next]_vars, NEW u \in Updaters, NEW l \in There,
             At(u, "read"), proc'[u].stage # "read", proc[u].target = l, u \notin overtaken,
             layers'[l] # layers[l], layers'[l].there
      PROVE  /\ "z" \notin proc[u].names => layers'[l].z = layers[l].z
             /\ "style" \notin proc[u].names => layers'[l].style = layers[l].style
  <2>t. /\ layers \in [Makers -> Layer] /\ proc \in [Procs -> ProcState]
        /\ u \in Procs /\ u \notin Makers /\ u \notin Deleters /\ l \in Makers
    BY <1>1, ConstantsAssumption DEF IInv, TypeOK, ProcState, Procs, There
  <2>1. project /\ proc[u].seen = layers[l]
    BY <1>1, <2>t DEF IInv, FilesInv, ReadInv, Knows, At, There
  <2>2. layers' # layers /\ proc' # proc
    BY <1>1 DEF At
  <2>3. ASSUME NEW p \in Procs \ {u}, NEW stage, Goes(p, stage)
        PROVE  FALSE
    BY <1>1, <2>t, <2>3 DEF Goes, At
  <2>4. WriteLayer(u)
    <3>1. ASSUME NEW a \in Adders, AddLayer(a)
          PROVE  FALSE
      BY <2>t, <2>3, <3>1 DEF AddLayer, Procs, Makers
    <3>2. ASSUME NEW i \in Importers, InsertLayer(i)
          PROVE  FALSE
      BY <2>t, <2>3, <3>2 DEF InsertLayer, Procs, Makers
    <3>3. ASSUME NEW w \in Updaters \ {u}, WriteLayer(w)
          PROVE  FALSE
      BY <2>t, <2>3, <3>3 DEF WriteLayer, Procs
    <3>4. ASSUME NEW d \in Deleters, NEW k \in Makers, DeleteLayer(d, k)
          PROVE  FALSE
      BY <1>1, <2>t, <3>4 DEF DeleteLayer, At
    <3>5. ~DeleteProject
      BY <2>2 DEF DeleteProject
    <3>6. ASSUME NEW i \in Importers, ImportStep(i)
          PROVE  InsertLayer(i)
      BY <2>2, <3>6 DEF ImportStep, Publish, MarkRefused, Start, Fetch, Progress, Cogify,
                        PlaceOnTop, Complete, Fail, ProjectVanished
    <3>. QED
      BY <1>1, <2>2, <3>1, <3>2, <3>3, <3>4, <3>5, <3>6
      DEF Next, vars, ReadTop, AskUpdate, ReadLayer, DeleteFile, MakeTasks, Dies, RemoveAssets
  <2>5. layers'[l] = Merged(u)
    BY <1>1, <2>t, <2>4 DEF WriteLayer
  <2>. QED  BY <2>1, <2>5 DEF Merged
<1>2. IInv /\ [Next]_vars =>
         \A u \in Updaters, l \in There :
           At(u, "read") /\ proc'[u].stage # "read" /\ proc[u].target = l
           /\ u \notin overtaken /\ layers'[l] # layers[l] /\ layers'[l].there =>
               /\ "z" \notin proc[u].names => layers'[l].z = layers[l].z
               /\ "style" \notin proc[u].names => layers'[l].style = layers[l].style
  BY <1>1
<1>. QED  BY <1>2, Invariance, PTL DEF Spec, UpdateMerges
=============================================================================
