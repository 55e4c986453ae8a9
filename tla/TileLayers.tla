------------------------------ MODULE TileLayers ------------------------------
(***************************************************************************)
(* The tile layers of one project, the COG files behind the internal ones, *)
(* and the Tasks of the raster imports that make them.  Layers are named   *)
(* by the process that made them, a POST of a layer or an import; a COG    *)
(* and a Task by their import.  Each process is a request, continued for   *)
(* an import by the worker that takes its message.                         *)
(***************************************************************************)
EXTENDS Integers, FiniteSets, FiniteSetsExt

CONSTANTS Adders,      \* POSTs of a layer
          Importers,   \* raster files to import, a Task each
          Updaters,    \* PUTs of one or more layers
          Deleters,    \* DELETEs of a layer
          Styles,      \* values of the other display options
          Plain,       \* the style of a new layer
          None,        \* no layer
          MaxAsked,    \* bound on the positions that requests name
          MaxLosses    \* bound on dead processes and database failures

Makers == Adders \cup Importers
Procs  == Makers \cup Updaters \cup Deleters

(* Positions of layers.  A new one goes one above all the others.          *)
Z == 0 .. MaxAsked + Cardinality(Makers)

ASSUME ConstantsAssumption ==
    /\ IsFiniteSet(Procs)
    /\ Adders \cap Importers = {} /\ Updaters \cap Deleters = {}
    /\ Makers \cap (Updaters \cup Deleters) = {}
    /\ None \notin Makers
    /\ Plain \in Styles
    /\ MaxAsked \in Nat /\ MaxLosses \in Nat

VARIABLES
    project,    \* whether the project's row is there
    layers,     \* the row of each layer
    cogs,       \* imports whose COG is on disk
    tasks,      \* the status of each import's Task
    proc,       \* local state of each process
    overtaken,  \* who read rows that another process has changed since
    losses      \* processes that died and database failures so far

vars == <<project, layers, cogs, tasks, proc, overtaken, losses>>
-----------------------------------------------------------------------------
NoLayer == [there |-> FALSE, z |-> 0, style |-> Plain]
Layer   == [there : BOOLEAN, z : Z, style : Styles]

Stages == {"off", "read", "publish", "refused", "queued", "fetch", "convert", "made",
           "insert", "report", "cleanup", "done", "lost"}

(* target: the layer being changed; todo: the layers still to change; seen *)
(* the row as read; change: the options that the request names.            *)
Off == [stage |-> "off", target |-> None, todo |-> {}, seen |-> NoLayer,
        change |-> NoLayer, names |-> {}]

TypeOK ==
    /\ project \in BOOLEAN
    /\ layers \in [Makers -> Layer]
    /\ cogs \subseteq Importers
    /\ tasks \in [Importers -> {"none", "QUEUED", "RUNNING", "COMPLETED", "FAILED", "error"}]
    /\ proc \in [Procs -> [stage : Stages, target : Makers \cup {None},
                           todo : SUBSET Makers, seen : Layer, change : Layer,
                           names : SUBSET {"z", "style"}]]
    /\ overtaken \subseteq Procs
    /\ losses \in Nat

Init ==
    /\ project = TRUE
    /\ layers = [m \in Makers |-> NoLayer]
    /\ cogs = {}
    /\ tasks = [i \in Importers |-> "none"]
    /\ proc = [p \in Procs |-> Off]
    /\ overtaken = {}
    /\ losses = 0
-----------------------------------------------------------------------------
At(p, stage) == proc[p].stage = stage

Goes(p, stage) ==
    proc' = [proc EXCEPT ![p] = IF stage = "done" THEN [Off EXCEPT !.stage = "done"]
                                                  ELSE [@ EXCEPT !.stage = stage]]

There == {m \in Makers : layers[m].there}

(* Mutant: level with the highest layer.                                   *)
Highest == IF There = {} THEN 0 ELSE Max({layers[m].z : m \in There})

Top == IF There = {} THEN 0 ELSE 1 + Max({layers[m].z : m \in There})

(* Who has read rows and not yet committed what it made of them: a new     *)
(* layer's position depends on all layers, an update on its own.           *)
Outdated(p) ==
    /\ proc[p].stage \in {"read", "insert"}
    /\ IF p \in Makers THEN layers' # layers
                       ELSE layers'[proc[p].target] # layers[proc[p].target]

Overtakes(p) == overtaken' = (overtaken \ {p}) \cup {q \in Procs \ {p} : Outdated(q)}
-----------------------------------------------------------------------------
(***************************************************************************)
(* Layers by URL, and changes.                                             *)
(***************************************************************************)
Placed(z) == [there |-> TRUE, z |-> z, style |-> Plain]

(* A position other than 0 in the request is kept.                         *)
ReadTop(a) ==
    /\ At(a, "off") /\ project
    /\ \E z \in {Top} \cup 1 .. MaxAsked :
         /\ proc' = [proc EXCEPT ![a].stage = "read", ![a].seen = Placed(z),
                                 ![a].names = IF z = Top THEN {} ELSE {"z"}]
    /\ UNCHANGED <<project, layers, cogs, tasks, overtaken, losses>>

AddLayer(a) ==
    /\ At(a, "read")
    /\ layers' = IF project THEN [layers EXCEPT ![a] = proc[a].seen] ELSE layers
    /\ Overtakes(a)
    /\ Goes(a, "done")
    /\ UNCHANGED <<project, cogs, tasks, losses>>

AskUpdate(u) ==
    /\ At(u, "off") /\ project
    /\ \E todo \in SUBSET There \ {{}}, change \in [there : {TRUE}, z : 0 .. MaxAsked, style : Styles],
          names \in SUBSET {"z", "style"} :
         /\ names # {}
         /\ change.z # 0 => "z" \in names
         /\ change.style # Plain => "style" \in names
         /\ proc' = [proc EXCEPT ![u] = [Off EXCEPT !.stage = "queued", !.todo = todo,
                                                    !.change = change, !.names = names]]
    /\ UNCHANGED <<project, layers, cogs, tasks, overtaken, losses>>

(* The next layer of the list; an unknown one ends the request in the      *)
(* middle of it.                                                           *)
ReadLayer(u, l) ==
    /\ At(u, "queued")
    /\ l \in proc[u].todo
    /\ IF layers[l].there
         THEN proc' = [proc EXCEPT ![u].stage = "read", ![u].target = l,
                                   ![u].todo = @ \ {l}, ![u].seen = layers[l]]
         ELSE Goes(u, "done")
    /\ UNCHANGED <<project, layers, cogs, tasks, overtaken, losses>>

(* Mutant: the options of the request replace all others.                  *)
Replaced(u) == proc[u].change

(* The options as read, with those of the request.                         *)
Merged(u) == [there |-> TRUE,
              z     |-> IF "z" \in proc[u].names THEN proc[u].change.z ELSE proc[u].seen.z,
              style |-> IF "style" \in proc[u].names THEN proc[u].change.style
                                                     ELSE proc[u].seen.style]

(* A row that the request leaves as it was read is not written; one that   *)
(* is gone ends the request.                                               *)
WriteLayer(u) ==
    LET l == proc[u].target
        changed == Merged(u) # proc[u].seen
        stale == changed /\ ~layers[l].there IN
    /\ At(u, "read")
    /\ layers' = IF changed /\ ~stale THEN [layers EXCEPT ![l] = Merged(u)] ELSE layers
    /\ Overtakes(u)
    /\ Goes(u, IF ~stale /\ proc[u].todo # {} THEN "queued" ELSE "done")
    /\ UNCHANGED <<project, cogs, tasks, losses>>

(* Mutant: the file goes first.                                            *)
DeleteFileFirst(d, l) ==
    /\ At(d, "off")
    /\ layers[l].there
    /\ cogs' = cogs \ {l}
    /\ proc' = [proc EXCEPT ![d].stage = "done", ![d].target = l]
    /\ UNCHANGED <<project, layers, tasks, overtaken, losses>>

(* The row goes first, and then the file.                                  *)
DeleteLayer(d, l) ==
    /\ At(d, "off")
    /\ layers[l].there
    /\ layers' = [layers EXCEPT ![l] = NoLayer]
    /\ Overtakes(d)
    /\ proc' = [proc EXCEPT ![d].stage = IF l \in Importers THEN "cleanup" ELSE "done",
                            ![d].target = l]
    /\ UNCHANGED <<project, cogs, tasks, losses>>

DeleteFile(d) ==
    /\ At(d, "cleanup")
    /\ cogs' = cogs \ {proc[d].target}
    /\ Goes(d, "done")
    /\ UNCHANGED <<project, layers, tasks, overtaken, losses>>
-----------------------------------------------------------------------------
(***************************************************************************)
(* Raster imports: the request, then import_tile_servers_from_tapis.       *)
(***************************************************************************)
(* The Tasks of a request are committed together, and then published one   *)
(* by one.                                                                 *)
MakeTasks(files) ==
    /\ files # {} /\ project
    /\ \A i \in files : At(i, "off")
    /\ tasks' = [i \in Importers |-> IF i \in files THEN "QUEUED" ELSE tasks[i]]
    /\ proc' = [p \in Procs |-> IF p \in files THEN [Off EXCEPT !.stage = "publish"]
                                               ELSE proc[p]]
    /\ UNCHANGED <<project, layers, cogs, overtaken, losses>>

Publish(i) ==
    /\ At(i, "publish")
    /\ \E stage \in {"queued", "refused"} : Goes(i, stage)
    /\ UNCHANGED <<project, layers, cogs, tasks, overtaken, losses>>

(* The status of a Task whose row is still there.                          *)
SetTask(i, status) == tasks' = [tasks EXCEPT ![i] = IF project THEN status ELSE @]

(* A bulk UPDATE writes a status that TaskStatus does not have.            *)
MarkRefused(i) ==
    /\ At(i, "refused")
    /\ SetTask(i, "error")
    /\ Goes(i, "done")
    /\ UNCHANGED <<project, layers, cogs, overtaken, losses>>

(* Each progress message makes the Task RUNNING.                           *)
Progress(i, from, to) ==
    /\ At(i, from) /\ project
    /\ SetTask(i, "RUNNING")
    /\ Goes(i, to)
    /\ UNCHANGED <<project, layers, cogs, overtaken, losses>>

Start(i) == i \in Importers /\ Progress(i, "queued", "fetch")

Fetch(i) == Progress(i, "fetch", "convert")

Cogify(i) ==
    /\ At(i, "convert")
    /\ cogs' = cogs \cup {i}
    /\ Goes(i, "made")
    /\ UNCHANGED <<project, layers, tasks, overtaken, losses>>

PlaceOnTop(i) ==
    /\ At(i, "made")
    /\ proc' = [proc EXCEPT ![i].stage = "insert", ![i].seen = Placed(Top)]
    /\ UNCHANGED <<project, layers, cogs, tasks, overtaken, losses>>

InsertLayer(i) ==
    /\ At(i, "insert") /\ project
    /\ layers' = [layers EXCEPT ![i] = proc[i].seen]
    /\ Overtakes(i)
    /\ Goes(i, "report")
    /\ UNCHANGED <<project, cogs, tasks, losses>>

(* Mutant: a status that is not one of the Task's.                         *)
CompleteAsSuccess(i) ==
    /\ At(i, "report") /\ project
    /\ SetTask(i, "success")
    /\ Goes(i, "done")
    /\ UNCHANGED <<project, layers, cogs, overtaken, losses>>

Complete(i) ==
    /\ At(i, "report") /\ project
    /\ SetTask(i, "COMPLETED")
    /\ Goes(i, "done")
    /\ UNCHANGED <<project, layers, cogs, overtaken, losses>>

(* Mutant: the handler cleans up and leaves the Task to Celery.            *)
FailSilently(i) ==
    /\ proc[i].stage \in {"fetch", "convert", "made"}
    /\ project
    /\ cogs' = cogs \ {i}
    /\ Goes(i, "done")
    /\ UNCHANGED <<project, layers, tasks, overtaken, losses>>

(* The download or the conversion fails, or its result cannot be read.     *)
Fail(i) ==
    /\ proc[i].stage \in {"fetch", "convert", "made"}
    /\ project
    /\ SetTask(i, "FAILED")
    /\ cogs' = cogs \ {i}
    /\ Goes(i, "done")
    /\ UNCHANGED <<project, layers, overtaken, losses>>

(* Without the project there is no Task to report on, and no row can be    *)
(* inserted: the handler itself raises before it cleans up.                *)
ProjectVanished(i) ==
    /\ proc[i].stage \in {"queued", "fetch", "convert", "made", "insert", "report"}
    /\ ~project
    /\ Goes(i, "lost")
    /\ UNCHANGED <<project, layers, cogs, tasks, overtaken, losses>>
-----------------------------------------------------------------------------
(* Rows go with the project; its directory, by a task, some time later.    *)
DeleteProject ==
    /\ project
    /\ project' = FALSE
    /\ layers' = [m \in Makers |-> NoLayer]
    /\ tasks' = [i \in Importers |-> "none"]
    /\ UNCHANGED <<cogs, proc, overtaken, losses>>

RemoveAssets ==
    /\ ~project
    /\ cogs # {}
    /\ cogs' = {}
    /\ UNCHANGED <<project, layers, tasks, proc, overtaken, losses>>

(* A killed process, or a failed commit: the session it leaves behind makes *)
(* the handler of the failure raise before it reports or cleans up.        *)
Dies(p) ==
    /\ losses < MaxLosses
    /\ proc[p].stage \notin {"off", "done", "lost"}
    /\ losses' = losses + 1
    /\ Goes(p, "lost")
    /\ overtaken' = overtaken \ {p}
    /\ UNCHANGED <<project, layers, cogs, tasks>>
-----------------------------------------------------------------------------
ImportStep(i) ==
    \/ Publish(i) \/ MarkRefused(i) \/ Start(i) \/ Fetch(i) \/ Cogify(i)
    \/ PlaceOnTop(i) \/ InsertLayer(i) \/ Complete(i) \/ Fail(i)
    \/ ProjectVanished(i)

Next ==
    \/ \E a \in Adders : ReadTop(a) \/ AddLayer(a)
    \/ \E u \in Updaters : AskUpdate(u) \/ WriteLayer(u)
                           \/ \E l \in Makers : ReadLayer(u, l)
    \/ \E d \in Deleters : DeleteFile(d) \/ \E l \in Makers : DeleteLayer(d, l)
    \/ \E files \in SUBSET Importers : MakeTasks(files)
    \/ \E i \in Importers : ImportStep(i)
    \/ \E p \in Procs : Dies(p)
    \/ DeleteProject \/ RemoveAssets

Spec == Init /\ [][Next]_vars

(* Handlers and workers that are not killed go on.                         *)
FairSpec == Spec /\ \A i \in Importers : WF_vars(ImportStep(i))
-----------------------------------------------------------------------------
(***************************************************************************)
(* Properties                                                              *)
(***************************************************************************)
(* A layer that TiTiler is to serve has its file.                          *)
LayerHasFile == \A i \in Importers : layers[i].there => i \in cogs

(* While the project is there, a COG belongs to a layer, to an import that *)
(* is going to make one or to delete it again, or to a deletion that is on *)
(* its way; no failure of the download or the conversion leaves one, only  *)
(* a lost process does.                                                    *)
FileHasLayer ==
    \A i \in cogs : project =>
        \/ layers[i].there
        \/ proc[i].stage \in {"made", "insert", "lost"}
        \/ \E d \in Deleters : proc[d].stage \in {"cleanup", "lost"} /\ proc[d].target = i

Pending(i) == tasks[i] \in {"QUEUED", "RUNNING"}

(* A Task that is not finished is that of an import under way, or lost; a  *)
(* finished one is not touched again, and one that failed left nothing.    *)
TaskTellsState ==
    \A i \in Importers :
        /\ Pending(i) => proc[i].stage \notin {"off", "done"}
        /\ tasks[i] \in {"COMPLETED", "FAILED", "error"} => At(i, "done")
        /\ tasks[i] \in {"FAILED", "error"} => ~layers[i].there /\ i \notin cogs

(* Rows, COGs and Tasks of internal layers correspond, whoever else is on  *)
(* its way (services/tile_server.py, deleteTileServer; tasks/raster.py).   *)
FilesMatchLayers == LayerHasFile /\ FileHasLayer /\ TaskTellsState

(* A layer whose maker was not overtaken by another change ends up above   *)
(* all the others.                                                         *)
NewLayerOnTop ==
    [][\A m \in Makers : ~layers[m].there /\ layers'[m].there
           /\ m \notin overtaken /\ proc[m].names = {} =>
               \A l \in There : layers'[m].z > layers[l].z]_vars

(* An update that was not overtaken changes what it names, and nothing     *)
(* else.                                                                   *)
UpdateMerges ==
    [][\A u \in Updaters, l \in There :
           At(u, "read") /\ proc'[u].stage # "read" /\ proc[u].target = l
           /\ u \notin overtaken /\ layers'[l] # layers[l] /\ layers'[l].there =>
               /\ "z" \notin proc[u].names => layers'[l].z = layers[l].z
               /\ "style" \notin proc[u].names => layers'[l].style = layers[l].style]_vars

(* The Task of an import does not stay QUEUED or RUNNING, unless its       *)
(* worker or handler was lost.                                             *)
TasksSettle == \A i \in Importers : Pending(i) ~> ~Pending(i) \/ At(i, "lost")

(* Claims the code does not keep.                                          *)

(* "For nested objects (tileOptions, uiOptions), provided values are       *)
(* merged with existing data rather than replacing them entirely."         *)
NothingOverwritten ==
    [][\A u \in Updaters, l \in There :
           At(u, "read") /\ proc[u].target = l /\ layers'[l] # layers[l] /\ layers'[l].there
           /\ proc'[u].stage # "read" /\ "style" \notin proc[u].names =>
               layers'[l].style = layers[l].style]_vars
=============================================================================
