--------------------------- MODULE MapAssets_proofs ---------------------------
(***************************************************************************)
(* Theorems about MapAssets, for any items and deletions and any number of *)
(* failures, with their proofs.                                            *)
(***************************************************************************)
EXTENDS MapAssets, TLAPS

-----------------------------------------------------------------------------
(***************************************************************************)
(* The invariant.  Whether a file has its row when a deletion is over      *)
(* depends on what the deletion had seen when it began, and that on how    *)
(* far each addition was.                                                  *)
(***************************************************************************)
(* The rows go with the project.                                           *)
ProjectInv ==
    IF removal.stage \in {"no", "rows"} THEN project
    ELSE ~project /\ things = {} /\ assets = {}

(* Files are written before the row is, once, and wait for it.             *)
StageInv ==
    /\ \A i \in assets : add[i].stage = "done"
    /\ \A i \in files : add[i].stage \in {"commit", "done", "failed"} /\ add[i].kind # "plain"
    /\ \A i \in Items : project /\ add[i].stage = "commit" /\ add[i].kind # "plain" => i \in files

(* A deletion only has in hand what belongs to its feature.                *)
SeenInv ==
    \A d \in Deleters :
        /\ del[d].stage = "idle" => del[d].seen = {}
        /\ \A i \in del[d].seen : host[i] = del[d].of /\ add[i].stage = "done"

(* The files that it has not seen are those of items crossed.              *)
Stored(i) == i \in assets \/ add[i].stage = "commit"

DeletionInv ==
    \A d \in Deleters : \A i \in files \ crossed :
        Stored(i) /\ host[i] = del[d].of =>
            /\ del[d].stage \in {"list", "remove"} => i \in del[d].seen
            /\ del[d].stage # "commit"

RemovalInv ==
    /\ removal.stage = "listed" => files \subseteq crossed \cup removal.seen
    /\ removal.stage = "done" => files \subseteq crossed

IInv ==
    /\ FilesMatchRows
    /\ ProjectInv /\ StageInv /\ SeenInv /\ DeletionInv /\ RemovalInv

-----------------------------------------------------------------------------
(***************************************************************************)
(* Additions.                                                              *)
(***************************************************************************)
AddState == [stage : {"idle", "fetch", "write", "commit", "done", "failed"}, kind : Kinds]

(* One addition goes on; at most its files are written, or its row.        *)
Advances(i, state) ==
    /\ state \in AddState
    /\ add' = [add EXCEPT ![i] = state]
    /\ add[i].stage \in {"idle", "fetch", "write", "commit"}
    /\ state.stage # "idle"
    /\ project' = project /\ del' = del /\ removal' = removal
    /\ failures' \in 0 .. MaxFailures
    /\ things' \subseteq Items /\ (project \/ things' = things)
    /\ add[i].stage # "idle" => host' = host /\ state.kind = add[i].kind
    /\ add[i].stage = "idle" => \E h \in Items : host' = [host EXCEPT ![i] = h]
    /\ \/ files' = files
       \/ /\ add[i].stage = "write" /\ files' = files \cup {i}
          /\ state.kind # "plain" /\ state.stage \in {"commit", "failed"}
    /\ crossed' \in {crossed, crossed \cup {i}}
    /\ files' # files /\ (~project \/ Deleting(host[i])) => i \in crossed'
    /\ add[i].stage = "commit" => state.stage \in {"done", "failed"}
    /\ state.stage = "commit" /\ state.kind # "plain" => i \in files'
    /\ assets' = IF state.stage = "done" /\ state.kind # "plain" THEN assets \cup {i} ELSE assets
    /\ state.stage = "done" => project /\ add[i].stage = "commit"

LEMMA Advance ==
    ASSUME IInv, NEW i \in Items, NEW state, Advances(i, state)
    PROVE  IInv'
<1>. USE DEF Advances
<1>1. /\ TypeOK
      /\ add' \in [Items -> AddState]
      /\ \A j \in Items : add'[j] = IF j = i THEN state ELSE add[j]
      /\ host' \in [Items -> Items]
      /\ \A j \in Items : j # i => host'[j] = host[j]
      /\ add[i].stage # "idle" => host' = host
  BY DEF IInv, FilesMatchRows, RemovedStaysGone, RemovalInv, TypeOK, AddState
<1>2. /\ i \notin assets
      /\ i \in files => add[i].stage = "commit" /\ i \in files' /\ state.kind # "plain"
      /\ \A d \in Deleters : i \notin del[d].seen
  BY <1>1 DEF IInv, StageInv, SeenInv
<1>3. TypeOK'
  BY <1>1 DEF TypeOK, AddState
<1>4. ProjectInv'
  BY DEF IInv, ProjectInv
<1>5. StageInv'
  BY <1>1, <1>2 DEF IInv, StageInv, TypeOK
<1>6. SeenInv'
  BY <1>1, <1>2 DEF IInv, SeenInv, TypeOK
<1>7. DeletionInv'
  BY <1>1, <1>2 DEF IInv, DeletionInv, Stored, TypeOK, Deleting
<1>8. RemovalInv'
  BY <1>1, <1>2 DEF IInv, RemovalInv, ProjectInv, TypeOK
<1>9. FilesBehindRows'
  BY <1>1, <1>2 DEF IInv, FilesMatchRows, RemovedStaysGone, RemovalInv, FilesBehindRows,
                    TypeOK, StageInv
<1>10. StraysExplained'
  BY <1>1, <1>2 DEF IInv, FilesMatchRows, RemovedStaysGone, RemovalInv, StraysExplained,
                    TypeOK, StageInv
<1>. QED
  BY <1>3, <1>4, <1>5, <1>6, <1>7, <1>8, <1>9, <1>10
  DEF IInv, FilesMatchRows, RemovedStaysGone, RemovalInv

LEMMA AdderStep ==
    ASSUME IInv, NEW i \in Items, Ask(i) \/ Adding(i) \/ AdderDies(i)
    PROVE  IInv'
<1>f. /\ TypeOK /\ StageInv /\ add[i] \in AddState /\ failures \in 0 .. MaxFailures
      /\ assets \subseteq Items /\ things \subseteq Items
  BY DEF IInv, FilesMatchRows, RemovedStaysGone, RemovalInv, TypeOK, AddState
<1>g. ASSUME NEW stage, Adds(i, stage), stage \in {"write", "commit", "done", "failed"}
      PROVE  /\ [add[i] EXCEPT !.stage = stage] \in AddState
             /\ add' = [add EXCEPT ![i] = [add[i] EXCEPT !.stage = stage]]
             /\ [add[i] EXCEPT !.stage = stage].stage = stage
             /\ [add[i] EXCEPT !.stage = stage].kind = add[i].kind
  BY <1>f, <1>g DEF Adds, AddState
<1>F. Fails => failures' \in 0 .. MaxFailures
  BY <1>f, ConstantsAssumption DEF Fails
<1>1. CASE Ask(i)
  <2>1. PICK k \in Kinds : add' = [add EXCEPT ![i] = [stage |-> "fetch", kind |-> k]]
    BY <1>1 DEF Ask, Kinds
  <2>2. \E h \in Items : host' = [host EXCEPT ![i] = h]
    BY <1>1, <1>f DEF Ask, TypeOK
  <2>3. Advances(i, [stage |-> "fetch", kind |-> k])
    BY <1>1, <1>f, <2>1, <2>2 DEF Ask, Advances, AddState
  <2>. QED  BY <2>3, Advance
<1>2. CASE Fetch(i)
  <2>1. PICK stage \in {"write", "commit", "failed"} :
           /\ Adds(i, stage)
           /\ stage = "commit" => add[i].kind = "plain"
    BY <1>2 DEF Fetch
  <2>2. Advances(i, [add[i] EXCEPT !.stage = stage])
    BY <1>2, <1>f, <1>g, <1>F, <2>1 DEF Fetch, Advances, rows
  <2>. QED  BY <2>2, Advance
<1>3. ASSUME NEW kind \in Kinds \ {"plain"}, NEW leftover \in {{}, {i}}, Writes(i, kind, leftover)
      PROVE  IInv'
  <2>1. PICK stage \in {"commit", "failed"} :
           /\ Adds(i, stage)
           /\ stage = "commit" => files' = files \cup {i}
           /\ files' \in {files, files \cup {i}}
    BY <1>3 DEF Writes
  <2>2. Advances(i, [add[i] EXCEPT !.stage = stage])
    BY <1>3, <1>f, <1>g, <1>F, <2>1 DEF Writes, Advances, rows
  <2>. QED  BY <2>2, Advance
<1>4. ASSUME NEW new, Stores(i, new), new = (IF add[i].kind = "plain" THEN {} ELSE {i})
      PROVE  IInv'
  <2>1. PICK stage \in {"done", "failed"} :
           /\ Adds(i, stage)
           /\ assets' = IF stage = "done" THEN assets \cup new ELSE assets
           /\ things' = IF stage = "done" THEN things \cup {host[i]} ELSE things
           /\ stage = "done" => project
    BY <1>4 DEF Stores
  <2>2. things' \subseteq Items
    BY <1>f, <2>1 DEF TypeOK
  <2>3. Advances(i, [add[i] EXCEPT !.stage = stage])
    BY <1>4, <1>f, <1>g, <1>F, <2>1, <2>2 DEF Stores, Advances
  <2>. QED  BY <2>3, Advance
<1>5. CASE AdderDies(i)
  <2>1. /\ add[i].stage \in {"fetch", "write", "commit"} /\ Fails /\ Adds(i, "failed")
        /\ UNCHANGED <<project, things, assets, host, files, del, removal, crossed>>
    BY <1>5 DEF AdderDies, rows
  <2>2. PICK stage \in {"failed"} : Adds(i, stage)
    BY <2>1
  <2>3. Advances(i, [add[i] EXCEPT !.stage = stage])
    BY <1>f, <1>g, <1>F, <2>1, <2>2 DEF Advances
  <2>. QED  BY <2>3, Advance
<1>. QED
  BY <1>1, <1>2, <1>3, <1>4, <1>5
  DEF Adding, Write, WriteImage, WriteBundle, WriteAttachment, WriteOverlay, Kinds,
      CommitPlain, CommitItem

-----------------------------------------------------------------------------
(***************************************************************************)
(* Deletions of a feature or an overlay.                                   *)
(***************************************************************************)
DelState == [stage : {"idle", "list", "remove", "commit", "done", "failed"},
             of : Items \cup {Nothing}, seen : SUBSET Items]

(* One deletion goes on: first it takes stock, and then it only loses      *)
(* files and rows of its feature.                                          *)
Proceeds(d, state) ==
    /\ state \in DelState
    /\ del' = [del EXCEPT ![d] = state]
    /\ state.stage # "idle" /\ (state.stage = "list" => del[d].stage = "idle")
    /\ add' = add /\ project' = project /\ host' = host /\ removal' = removal
    /\ failures' \in 0 .. MaxFailures
    /\ crossed \subseteq crossed' /\ crossed' \subseteq Items
    /\ del[d].stage # "idle" => state.of = del[d].of /\ state.seen \subseteq del[d].seen
    /\ del[d].stage = "idle" =>
          /\ state.stage = "list" /\ state.seen = AssetsOf(state.of) /\ project
          /\ \A i \in Items : host[i] = state.of /\ add[i].stage = "commit" => i \in crossed'
    /\ files' \subseteq files /\ files \ files' \subseteq del[d].seen
    /\ state.stage = "remove" => /\ del[d].stage = "list" /\ state.seen = del[d].seen \cap files
                                 /\ files' = files
    /\ state.stage = "commit" => del[d].stage = "remove" /\ files' = files \ del[d].seen
    /\ things' \subseteq things
    /\ \/ assets' = assets
       \/ del[d].stage = "commit" /\ assets' = assets \ AssetsOf(state.of)

LEMMA Proceed ==
    ASSUME IInv, NEW d \in Deleters, NEW state, Proceeds(d, state)
    PROVE  IInv'
<1>. USE DEF Proceeds
<1>1. /\ TypeOK
      /\ del' \in [Deleters -> DelState]
      /\ \A e \in Deleters : del'[e] = IF e = d THEN state ELSE del[e]
      /\ assets' \subseteq assets
  BY DEF IInv, FilesMatchRows, RemovedStaysGone, RemovalInv, TypeOK, DelState
<1>2. \A i \in files \ files' : add[i].stage = "done" /\ host[i] = del[d].of /\ del[d].stage # "idle"
  BY <1>1 DEF IInv, SeenInv
<1>3. TypeOK'
  BY <1>1 DEF TypeOK, DelState
<1>4. ProjectInv'
  BY <1>1 DEF IInv, ProjectInv
<1>5. StageInv'
  BY <1>1, <1>2 DEF IInv, StageInv, TypeOK
<1>6. SeenInv'
  BY <1>1 DEF IInv, SeenInv, StageInv, AssetsOf
<1>7. DeletionInv'
  <2>1. SUFFICES ASSUME NEW e \in Deleters, NEW i \in files' \ crossed',
                        Stored(i)', host[i] = del'[e].of
                 PROVE  /\ del'[e].stage \in {"list", "remove"} => i \in del'[e].seen
                        /\ del'[e].stage # "commit"
    BY DEF DeletionInv
  <2>2. i \in Items /\ i \in files \ crossed /\ Stored(i)
    BY <1>1, <2>1 DEF Stored, TypeOK
  <2>3. CASE e # d
    BY <1>1, <2>1, <2>2, <2>3 DEF IInv, DeletionInv
  <2>4. CASE e = d /\ del[d].stage = "idle"
    BY <1>1, <2>1, <2>2, <2>4 DEF Stored, AssetsOf, DelState
  <2>5. CASE e = d /\ del[d].stage # "idle"
    BY <1>1, <2>1, <2>2, <2>5 DEF IInv, DeletionInv, DelState
  <2>. QED  BY <2>3, <2>4, <2>5
<1>8. RemovalInv'
  BY <1>1 DEF IInv, RemovalInv
<1>9. FilesBehindRows'
  BY <1>1, <1>2 DEF IInv, FilesMatchRows, RemovedStaysGone, RemovalInv, FilesBehindRows
<1>10. StraysExplained'
  <2>1. SUFFICES ASSUME NEW i \in files' \ (assets' \cup crossed')
                 PROVE  \/ add[i].stage \in {"commit", "failed"}
                        \/ removal.stage \in {"queued", "listed", "lost"}
    BY DEF StraysExplained
  <2>2. CASE i \in assets
    BY <1>1, <2>1, <2>2 DEF IInv, DeletionInv, Stored, AssetsOf
  <2>3. CASE i \notin assets
    BY <2>1, <2>3 DEF IInv, FilesMatchRows, RemovedStaysGone, RemovalInv, StraysExplained
  <2>. QED  BY <2>2, <2>3
<1>. QED
  BY <1>3, <1>4, <1>5, <1>6, <1>7, <1>8, <1>9, <1>10
  DEF IInv, FilesMatchRows, RemovedStaysGone, RemovalInv

LEMMA DeleterStep ==
    ASSUME IInv, NEW d \in Deleters,
           (\E h \in Items : Load(d, h)) \/ Deletion(d) \/ DeleterDies(d)
    PROVE  IInv'
<1>f. /\ TypeOK /\ del[d] \in DelState /\ failures \in 0 .. MaxFailures /\ ProjectInv
      /\ crossed \subseteq Items
  BY DEF IInv, FilesMatchRows, RemovedStaysGone, RemovalInv, TypeOK, DelState
<1>F. Fails => failures' \in 0 .. MaxFailures
  BY <1>f, ConstantsAssumption DEF Fails
<1>g. ASSUME NEW stage, NEW seen, Deletes(d, stage, seen),
             stage \in {"remove", "commit", "done", "failed"}, seen \subseteq Items
      PROVE  LET state == [del[d] EXCEPT !.stage = stage, !.seen = seen]
             IN  /\ state \in DelState /\ del' = [del EXCEPT ![d] = state]
                 /\ state.stage = stage /\ state.seen = seen /\ state.of = del[d].of
  BY <1>f, <1>g DEF Deletes, DelState
<1>1. ASSUME NEW h \in Items, Load(d, h)
      PROVE  IInv'
  <2> DEFINE state == [stage |-> "list", of |-> h, seen |-> AssetsOf(h)]
  <2>1. AssetsOf(h) \subseteq Items
    BY <1>f DEF AssetsOf, TypeOK
  <2>2. state \in DelState /\ state.of = h /\ state.seen = AssetsOf(h) /\ state.stage = "list"
    BY <2>1 DEF DelState
  <2>3. del[d].stage = "idle" /\ h \in things /\ del' = [del EXCEPT ![d] = state]
        /\ crossed' = crossed \cup {i \in Items : host[i] = h /\ add[i].stage = "commit"}
        /\ UNCHANGED <<project, things, assets, host, files, add, removal, failures>>
    BY <1>1 DEF Load, rows
  <2> HIDE DEF state
  <2>4. Proceeds(d, state)
    BY <1>f, <2>2, <2>3 DEF Proceeds, ProjectInv
  <2>. QED  BY <2>4, Proceed
<1>2. CASE ListFiles(d)
  <2> DEFINE state == [del[d] EXCEPT !.stage = "remove", !.seen = del[d].seen \cap files]
  <2>1. del[d].stage = "list" /\ Deletes(d, "remove", del[d].seen \cap files)
        /\ UNCHANGED <<project, things, assets, host, files, add, removal, crossed, failures>>
    BY <1>2 DEF ListFiles, rows
  <2>2. /\ state \in DelState /\ del' = [del EXCEPT ![d] = state]
        /\ state.stage = "remove" /\ state.seen = del[d].seen \cap files
        /\ state.of = del[d].of
    <3>1. del[d].seen \cap files \subseteq Items
      BY <1>f DEF DelState
    <3>. QED  BY <1>g, <2>1, <3>1
  <2> HIDE DEF state
  <2>3. Proceeds(d, state)
    BY <1>f, <2>1, <2>2 DEF Proceeds
  <2>. QED  BY <2>3, Proceed
<1>3. ASSUME NEW stage \in {"commit", "done", "failed"}, Deletes(d, stage, {}),
             del[d].stage # "idle",
             UNCHANGED <<project, host, add, removal, crossed>>,
             failures' \in 0 .. MaxFailures,
             files' \subseteq files, files \ files' \subseteq del[d].seen,
             stage = "commit" => del[d].stage = "remove" /\ files' = files \ del[d].seen,
             things' \subseteq things,
             \/ assets' = assets
             \/ del[d].stage = "commit" /\ assets' = assets \ AssetsOf(del[d].of)
      PROVE  IInv'
  <2> DEFINE state == [del[d] EXCEPT !.stage = stage, !.seen = {}]
  <2>1. /\ state \in DelState /\ del' = [del EXCEPT ![d] = state]
        /\ state.stage = stage /\ state.seen = {} /\ state.of = del[d].of
    BY <1>3, <1>g
  <2> HIDE DEF state
  <2>2. Proceeds(d, state)
    BY <1>3, <1>f, <2>1 DEF Proceeds
  <2>. QED  BY <2>2, Proceed
<1>4. CASE RemoveFiles(d)
  <2>1. PICK stage \in {"commit", "failed"} :
           /\ Deletes(d, stage, {})
           /\ files' \subseteq files /\ files \ files' \subseteq del[d].seen
           /\ stage = "commit" => files' = files \ del[d].seen
    BY <1>4 DEF RemoveFiles
  <2>2. /\ del[d].stage = "remove"
        /\ UNCHANGED <<project, things, assets, host, add, removal, crossed, failures>>
    BY <1>4 DEF RemoveFiles, rows
  <2>. QED  BY <1>f, <1>3, <2>1, <2>2
<1>5. CASE CommitDeletion(d)
  <2>1. /\ del[d].stage = "commit" /\ UNCHANGED <<project, host, files, add, removal, crossed>>
    BY <1>5 DEF CommitDeletion
  <2>2. PICK stage \in {"done", "failed"} :
           /\ Deletes(d, stage, {})
           /\ things' \subseteq things
           /\ assets' = assets \/ assets' = assets \ AssetsOf(del[d].of)
           /\ failures' \in 0 .. MaxFailures
    BY <1>5, <1>f, <1>F DEF CommitDeletion
  <2>. QED  BY <1>3, <2>1, <2>2
<1>6. CASE DeleterDies(d)
  <2>1. /\ del[d].stage # "idle" /\ Deletes(d, "failed", {}) /\ failures' \in 0 .. MaxFailures
        /\ UNCHANGED <<project, things, assets, host, files, add, removal, crossed>>
    BY <1>6, <1>F DEF DeleterDies, rows
  <2>. QED  BY <1>3, <2>1
<1>. QED
  BY <1>1, <1>2, <1>4, <1>5, <1>6 DEF Deletion

-----------------------------------------------------------------------------
(***************************************************************************)
(* The deletion of the project.                                            *)
(***************************************************************************)
LEMMA RemovalStep ==
    ASSUME IInv,
           \/ AskDeletion /\ UNCHANGED <<add, del, failures>>
           \/ Removal
           \/ RemoverDies
    PROVE  IInv'
<1>f. /\ TypeOK /\ failures \in 0 .. MaxFailures
  BY DEF IInv, FilesMatchRows, RemovedStaysGone, RemovalInv, TypeOK
<1>F. Fails => failures' \in 0 .. MaxFailures
  BY <1>f, ConstantsAssumption DEF Fails
<1>1. CASE AskDeletion /\ UNCHANGED <<add, del, failures>>
  <2>1. removal.stage = "no" /\ removal' = [stage |-> "rows", seen |-> {}]
        /\ UNCHANGED <<project, things, assets, host, files, crossed, add, del, failures>>
    BY <1>1 DEF AskDeletion, Removes, rows
  <2>. QED
    BY <2>1 DEF IInv, FilesMatchRows, RemovedStaysGone, RemovalInv, TypeOK, FilesBehindRows,
                StraysExplained, ProjectInv, StageInv, SeenInv, DeletionInv, Stored
<1>2. CASE DropProject
  <2>1. PICK stage \in {"queued", "lost"} : removal' = [stage |-> stage, seen |-> {}]
    BY <1>2 DEF DropProject, Removes
  <2>2. /\ project' = FALSE /\ things' = {} /\ assets' = {} /\ failures' \in 0 .. MaxFailures
        /\ crossed' = crossed \cup {i \in Items : add[i].stage = "commit"}
        /\ UNCHANGED <<host, files, add, del>>
    BY <1>2, <1>f, <1>F DEF DropProject
  <2>3. TypeOK'
    BY <1>f, <2>1, <2>2 DEF TypeOK
  <2>4. DeletionInv' /\ SeenInv'
    BY <2>2, <1>f DEF DeletionInv, Stored, IInv, SeenInv, TypeOK
  <2>. QED
    BY <2>1, <2>2, <2>3, <2>4 DEF IInv, FilesMatchRows, RemovedStaysGone, RemovalInv,
                                  FilesBehindRows, StraysExplained, ProjectInv, StageInv
<1>3. CASE ListProject
  <2>1. removal.stage = "queued" /\ removal' = [stage |-> "listed", seen |-> files]
        /\ UNCHANGED <<project, things, assets, host, files, add, del, crossed, failures>>
    BY <1>3 DEF ListProject, Removes, rows
  <2>. QED
    BY <2>1 DEF IInv, FilesMatchRows, RemovedStaysGone, RemovalInv, TypeOK, FilesBehindRows,
                StraysExplained, ProjectInv, StageInv, SeenInv, DeletionInv, Stored
<1>4. CASE RemoveTree
  <2>1. PICK stage \in {"done", "lost"} :
           /\ removal' = [stage |-> stage, seen |-> {}]
           /\ files' \subseteq files
           /\ stage = "done" => files' = files \ removal.seen
    BY <1>4 DEF RemoveTree, Removes, Tree
  <2>2. removal.stage = "listed"
        /\ UNCHANGED <<project, things, assets, host, add, del, crossed, failures>>
    BY <1>4 DEF RemoveTree, rows
  <2>3. ~project /\ assets = {}
    BY <2>2 DEF IInv, ProjectInv
  <2>4. TypeOK'
    BY <1>f, <2>1, <2>2 DEF TypeOK
  <2>5. DeletionInv' /\ SeenInv'
    BY <2>1, <2>2 DEF DeletionInv, Stored, IInv, SeenInv
  <2>6. StraysExplained' /\ RemovalInv'
    BY <2>1, <2>2 DEF StraysExplained, RemovalInv, IInv
  <2>. QED
    BY <2>1, <2>2, <2>3, <2>4, <2>5, <2>6
    DEF IInv, FilesMatchRows, RemovedStaysGone, RemovalInv, FilesBehindRows, ProjectInv,
        StageInv
<1>5. CASE RemoverDies
  <2>1. removal.stage \in {"queued", "listed"} /\ removal' = [stage |-> "lost", seen |-> {}]
        /\ failures' \in 0 .. MaxFailures
        /\ UNCHANGED <<project, things, assets, host, files, add, del, crossed>>
    BY <1>5, <1>F DEF RemoverDies, Removes, rows
  <2>. QED
    BY <2>1 DEF IInv, FilesMatchRows, RemovedStaysGone, RemovalInv, TypeOK, FilesBehindRows,
                StraysExplained, ProjectInv, StageInv, SeenInv, DeletionInv, Stored
<1>. QED
  BY <1>1, <1>2, <1>3, <1>4, <1>5 DEF Removal

-----------------------------------------------------------------------------
(***************************************************************************)
(* The theorems.                                                           *)
(***************************************************************************)
LEMMA Step ==
    ASSUME IInv, [Next]_vars
    PROVE  IInv'
<1>1. CASE UNCHANGED vars
  BY <1>1 DEF vars, rows, IInv, FilesMatchRows, RemovedStaysGone, RemovalInv, TypeOK,
              FilesBehindRows, StraysExplained, ProjectInv, StageInv, SeenInv, DeletionInv,
              Stored
<1>. QED
  BY <1>1, AdderStep, DeleterStep, RemovalStep DEF Next

LEMMA Start == Init => IInv
<1>1. SUFFICES ASSUME Init PROVE IInv
  OBVIOUS
<1>2. TypeOK
  BY <1>1, ConstantsAssumption DEF Init, TypeOK, Kinds
<1>. QED
  BY <1>1, <1>2, ConstantsAssumption
  DEF Init, IInv, FilesMatchRows, RemovedStaysGone, RemovalInv, FilesBehindRows,
      StraysExplained, ProjectInv, StageInv, SeenInv, DeletionInv, Stored

(* Rows of assets and overlays have their files until somebody begins to   *)
(* delete what they belong to, and files without a row are an addition's   *)
(* that is not over or failed, or were crossed by a deletion, or wait for  *)
(* the removal of the project (services/features.py, utils/assets.py).     *)
THEOREM FilesAndRowsCorrespond == Spec => []FilesMatchRows
<1>1. IInv /\ [Next]_vars => IInv'
  BY Step
<1>2. IInv => FilesMatchRows
  BY DEF IInv
<1>. QED  BY Start, <1>1, <1>2, PTL DEF Spec
=============================================================================
