------------------------- MODULE PointCloudProcessing -------------------------
(***************************************************************************)
(* One point cloud of a project: its row, the Task that says whether it is *)
(* being processed, the directory of original files, and the potree trees  *)
(* made from them.  A request passes the guards of its route, its handler  *)
(* runs, and a Celery worker does the rest; each request is one process    *)
(* here, and the Task it may create carries its name.                      *)
(***************************************************************************)
EXTENDS Integers, FiniteSets

CONSTANTS Requests,     \* requests to import, to update or to delete
          Files,        \* point cloud files on Tapis
          Name,         \* [Files -> names]: the base name of a file
          Params,       \* values of conversion_parameters
          Default,      \* the value the point cloud was created with
          None,         \* no request, no file
          Torn,         \* what a write that failed half-way leaves
          MaxCrashes    \* bound on processes that die

ASSUME ConstantsAssumption ==
    /\ IsFiniteSet(Requests)
    /\ None \notin Requests \cup Files
    /\ Torn \notin Files \cup {None}
    /\ Default \in Params
    /\ Name \in [Files -> {Name[f] : f \in Files}]
    /\ MaxCrashes \in Nat

VARIABLES
    cloud,       \* the row of the point cloud
    tasks,       \* status of the Task each request created, if any
    features,    \* feature rows, named by the request that created them
    directory,   \* whether the point cloud's own directory is there
    originals,   \* the original files in it, by name
    processed,   \* the converter's output directory, one for the cloud
    published,   \* the tree at the asset path of each feature
    run,         \* local state of each request
    overlapped,  \* whether two requests were ever in flight together
    crashes      \* processes that died so far

vars == <<cloud, tasks, features, directory, originals, processed, published,
          run, overlapped, crashes>>

disk == <<directory, originals, processed, published>>
-----------------------------------------------------------------------------
Names == {Name[f] : f \in Files}

NoTree == [state |-> "none", of |-> {}, params |-> Default]

Tree == [state : {"none", "partial", "whole"}, of : SUBSET (Files \cup {Torn}),
         params : Params]

Contents == {originals[n] : n \in Names} \ {None}

NoRun == [kind |-> "none", stage |-> "new", files |-> {}, file |-> None, fetched |-> {},
          info |-> {}, of |-> {}, params |-> Default, feature |-> None]

HandlerStages == {"guarded", "saved", "tasked", "wiped"}
WorkerStages  == {"queued", "fetch", "file", "listed", "convert", "loaded",
                  "converter", "result", "move"}

RunState == [kind : {"none", "import", "update", "delete"},
             stage : {"new", "done", "lost"} \cup HandlerStages \cup WorkerStages,
             files : SUBSET Files, file : Files \cup {None}, fetched : SUBSET Files,
             info : SUBSET Files, of : SUBSET (Files \cup {Torn}),
             params : Params, feature : Requests \cup {None}]

InFlight(r) == run[r].stage \in HandlerStages \cup WorkerStages

TypeOK ==
    /\ cloud \in [exists : BOOLEAN, task : Requests \cup {None}, info : SUBSET Files,
                  params : Params, feature : Requests \cup {None}]
    /\ tasks \in [Requests -> {"none", "RUNNING", "COMPLETED", "FAILED"}]
    /\ features \subseteq Requests
    /\ directory \in BOOLEAN
    /\ originals \in [Names -> Files \cup {None, Torn}]
    /\ processed \in Tree
    /\ published \in [Requests -> Tree]
    /\ run \in [Requests -> RunState]
    /\ overlapped \in BOOLEAN
    /\ crashes \in Nat

(* A point cloud as PointCloudService.create leaves it.                    *)
Init ==
    /\ cloud = [exists |-> TRUE, task |-> None, info |-> {}, params |-> Default,
                feature |-> None]
    /\ tasks = [r \in Requests |-> "none"]
    /\ features = {}
    /\ directory = TRUE
    /\ originals = [n \in Names |-> None]
    /\ processed = NoTree
    /\ published = [r \in Requests |-> NoTree]
    /\ run = [r \in Requests |-> NoRun]
    /\ overlapped = FALSE
    /\ crashes = 0
-----------------------------------------------------------------------------
(***************************************************************************)
(* The requests.  The guards read the rows in a statement of their own,    *)
(* before the handler runs.                                                *)
(***************************************************************************)
Processing == cloud.exists /\ cloud.task # None /\ tasks[cloud.task] = "RUNNING"

Admit(r, request) ==
    /\ run[r].stage = "new"
    /\ cloud.exists
    /\ ~Processing
    /\ run' = [run EXCEPT ![r] = request]
    /\ overlapped' = (overlapped \/ \E s \in Requests : InFlight(s))
    /\ UNCHANGED <<cloud, tasks, features, disk, crashes>>

AskImport(r) ==
    \E files \in SUBSET Files \ {{}} :
        Admit(r, [NoRun EXCEPT !.kind = "import", !.stage = "guarded", !.files = files])

AskUpdate(r) ==
    \E params \in Params :
        Admit(r, [NoRun EXCEPT !.kind = "update", !.stage = "guarded", !.params = params])

AskDelete(r) == Admit(r, [NoRun EXCEPT !.kind = "delete", !.stage = "guarded"])

(* r goes on at another stage, and nothing else of its state changes.      *)
Goes(r, stage) == run' = [run EXCEPT ![r].stage = stage]

At(r, kind, stage) == run[r].kind = kind /\ run[r].stage = stage

(* No Task exists until a worker takes the message.                        *)
SendImport(r) ==
    /\ At(r, "import", "guarded")
    /\ \E stage \in {"queued", "done"} : Goes(r, stage)
    /\ UNCHANGED <<cloud, tasks, features, disk, overlapped, crashes>>

(* Mutant: new parameters are saved, and nothing is converted again.       *)
SaveOnly(r) ==
    /\ At(r, "update", "guarded")
    /\ cloud.exists
    /\ cloud' = [cloud EXCEPT !.params = run[r].params]
    /\ Goes(r, "done")
    /\ UNCHANGED <<tasks, features, disk, overlapped, crashes>>

(* Only a change of the parameters starts a conversion, in a later commit. *)
SaveUpdate(r) ==
    /\ At(r, "update", "guarded")
    /\ cloud.exists
    /\ cloud' = [cloud EXCEPT !.params = run[r].params]
    /\ Goes(r, IF run[r].params # cloud.params THEN "saved" ELSE "done")
    /\ UNCHANGED <<tasks, features, disk, overlapped, crashes>>

NewTask(r) ==
    /\ cloud.exists
    /\ cloud' = [cloud EXCEPT !.task = r]
    /\ tasks' = [tasks EXCEPT ![r] = "RUNNING"]

StartProcessing(r) ==
    /\ At(r, "update", "saved")
    /\ NewTask(r)
    /\ Goes(r, "tasked")
    /\ UNCHANGED <<features, disk, overlapped, crashes>>

(* The broker takes the message, or refuses it and the Task stays RUNNING. *)
SendConversion(r) ==
    /\ At(r, "update", "tasked")
    /\ \E stage \in {"queued", "lost"} : Goes(r, stage)
    /\ UNCHANGED <<cloud, tasks, features, disk, overlapped, crashes>>

(* Its directory goes with all it holds, then the row.                     *)
WipeFiles(r) ==
    /\ At(r, "delete", "guarded")
    /\ cloud.exists
    /\ directory' = FALSE
    /\ originals' = [n \in Names |-> None]
    /\ processed' = NoTree
    /\ Goes(r, "wiped")
    /\ UNCHANGED <<cloud, tasks, features, published, overlapped, crashes>>

RowGone == cloud' = [cloud EXCEPT !.exists = FALSE, !.task = None, !.feature = None]

DeleteRow(r) ==
    /\ At(r, "delete", "wiped")
    /\ RowGone
    /\ Goes(r, "done")
    /\ UNCHANGED <<tasks, features, disk, overlapped, crashes>>

(* Any handler whose point cloud was deleted after its guards: an error.   *)
HandlerFindsNothing(r) ==
    /\ run[r].stage \in {"guarded", "saved"}
    /\ run[r].kind # "import"
    /\ ~cloud.exists
    /\ Goes(r, "done")
    /\ UNCHANGED <<cloud, tasks, features, disk, overlapped, crashes>>
-----------------------------------------------------------------------------
(***************************************************************************)
(* import_point_clouds_from_tapis, up to the conversion.                   *)
(***************************************************************************)
BeginImport(r) ==
    /\ At(r, "import", "queued")
    /\ NewTask(r)
    /\ Goes(r, "fetch")
    /\ UNCHANGED <<features, disk, overlapped, crashes>>

(* The commit of the progress message expires the row; the file's path     *)
(* loads it again, files_info included.                                    *)
FetchFile(r, f) ==
    /\ run[r].stage = "fetch"
    /\ f \in run[r].files \ run[r].fetched
    /\ cloud.exists
    /\ run' = [run EXCEPT ![r].stage = "file", ![r].file = f, ![r].info = cloud.info]
    /\ UNCHANGED <<cloud, tasks, features, disk, overlapped, crashes>>

(* Saved under its base name, over what was there, and found to be sound.  *)
KeepFile(r) ==
    /\ run[r].stage = "file"
    /\ directory
    /\ LET f == run[r].file
           fetched == run[r].fetched \cup {f} IN
       /\ originals' = [originals EXCEPT ![Name[f]] = f]
       /\ run' = [run EXCEPT ![r].fetched = fetched,
                             ![r].stage = IF fetched = run[r].files THEN "listed" ELSE "fetch"]
    /\ UNCHANGED <<cloud, tasks, features, directory, processed, published,
                   overlapped, crashes>>

(* Mutant: a status that the guard does not know.                          *)
FailAsError(task) == tasks' = [tasks EXCEPT ![task] = "ERROR"]

Fail(task) == tasks' = [tasks EXCEPT ![task] = "FAILED"]

(* What is there, and which files are to be removed, when one fails: it    *)
(* was not written, or in part (and nobody knows of it), or is written but *)
(* has no coordinate system.                                               *)
AtFailure(r) ==
    LET f == run[r].file
        with(content) == [originals EXCEPT ![Name[f]] = content] IN
    {[there |-> originals, new |-> run[r].fetched]} \cup
    IF directory THEN {[there |-> with(Torn), new |-> run[r].fetched],
                       [there |-> with(f), new |-> run[r].fetched \cup {f}]}
                 ELSE {}

Without(there, names) == [n \in Names |-> IF n \in names THEN None ELSE there[n]]

(* os.remove finds each file once.                                         *)
Removable(s) == /\ \A f \in s.new : s.there[Name[f]] # None
                /\ \A f, g \in s.new : Name[f] = Name[g] => f = g

(* Mutant: the files are removed, the Task is left as it was.              *)
GiveUpSilently(r) ==
    /\ run[r].stage = "file"
    /\ \E s \in AtFailure(r) :
         originals' = Without(s.there, {Name[f] : f \in s.new})
    /\ Goes(r, "done")
    /\ UNCHANGED <<cloud, tasks, features, directory, processed, published,
                   overlapped, crashes>>

(* All files of this import are removed from disk and the Task fails.      *)
GiveUp(r) ==
    /\ run[r].stage = "file"
    /\ cloud.exists
    /\ \E s \in AtFailure(r) :
         /\ Removable(s)
         /\ originals' = Without(s.there, {Name[f] : f \in s.new})
    /\ Fail(cloud.task)
    /\ Goes(r, "done")
    /\ UNCHANGED <<cloud, features, directory, processed, published, overlapped, crashes>>

(* Two files of one name are removed twice, or files that are gone: the    *)
(* removal raises, outside of any handler, and the Task stays RUNNING.     *)
CleanupRaises(r) ==
    /\ run[r].stage = "file"
    /\ \E s \in AtFailure(r) :
         /\ ~Removable(s)
         /\ \E removed \in SUBSET {Name[f] : f \in s.new} :
              originals' = Without(s.there, removed)
    /\ Goes(r, "lost")
    /\ UNCHANGED <<cloud, tasks, features, directory, processed, published,
                   overlapped, crashes>>

Listed(r, info) ==
    /\ run[r].stage = "listed"
    /\ cloud.exists
    /\ cloud' = [cloud EXCEPT !.info = info]
    /\ tasks' = [tasks EXCEPT ![cloud.task] = "RUNNING"]
    /\ Goes(r, "convert")
    /\ UNCHANGED <<features, disk, overlapped, crashes>>

(* Mutant: the new files replace the list.                                 *)
ListOnlyNew(r) == Listed(r, run[r].files)

(* files_info as loaded with the last file, and the new ones; then the     *)
(* status of whichever Task the row has now.                               *)
ListFiles(r) == Listed(r, run[r].info \cup run[r].files)

(* The row is gone: a commit, or an attribute of None, raises uncaught.    *)
ImportFindsNothing(r) ==
    /\ run[r].kind = "import"
    /\ run[r].stage \in {"queued", "fetch", "file", "listed"}
    /\ ~cloud.exists
    /\ Goes(r, "lost")
    /\ UNCHANGED <<cloud, tasks, features, disk, overlapped, crashes>>
-----------------------------------------------------------------------------
(***************************************************************************)
(* convert_to_potree: a task of its own after an update, a call at the end *)
(* of an import.                                                           *)
(***************************************************************************)
LoadParameters(r) ==
    /\ At(r, "update", "queued") \/ run[r].stage = "convert"
    /\ cloud.exists
    /\ run' = [run EXCEPT ![r].stage = "loaded", ![r].params = cloud.params]
    /\ UNCHANGED <<cloud, tasks, features, disk, overlapped, crashes>>

(* PotreeConverter reads the directory and overwrites its output.          *)
StartConverter(r) ==
    /\ run[r].stage = "loaded"
    /\ directory
    /\ Contents # {}
    /\ run' = [run EXCEPT ![r].stage = "converter", ![r].of = Contents]
    /\ processed' = [state |-> "partial", of |-> Contents, params |-> run[r].params]
    /\ UNCHANGED <<cloud, tasks, features, directory, originals, published,
                   overlapped, crashes>>

FinishConverter(r) ==
    /\ run[r].stage = "converter"
    /\ directory
    /\ processed' = [state |-> "whole", of |-> run[r].of, params |-> run[r].params]
    /\ Goes(r, "result")
    /\ UNCHANGED <<cloud, tasks, features, directory, originals, published,
                   overlapped, crashes>>

(* The feature is made the first time; the Task is COMPLETED before the    *)
(* tree is where the feature's asset says it is.                           *)
CommitResult(r) ==
    /\ run[r].stage = "result"
    /\ cloud.exists
    /\ processed.state # "none"
    /\ LET feature == IF cloud.feature = None THEN r ELSE cloud.feature IN
       /\ features' = features \cup {feature}
       /\ cloud' = [cloud EXCEPT !.feature = feature]
       /\ run' = [run EXCEPT ![r].stage = "move", ![r].feature = feature]
    /\ tasks' = [tasks EXCEPT ![cloud.task] = "COMPLETED"]
    /\ UNCHANGED <<disk, overlapped, crashes>>

MoveTree(r) ==
    /\ run[r].stage = "move"
    /\ processed.state # "none"
    /\ published' = [published EXCEPT ![run[r].feature] = processed]
    /\ processed' = NoTree
    /\ Goes(r, "done")
    /\ UNCHANGED <<cloud, tasks, features, directory, originals, overlapped, crashes>>

(* Mutant: the base class of the task has no on_failure.                   *)
ReportUnhandled(r) ==
    IF run[r].kind = "update" THEN Goes(r, "done") /\ UNCHANGED tasks
    ELSE IF cloud.exists THEN Fail(cloud.task) /\ Goes(r, "done")
    ELSE Goes(r, "lost") /\ UNCHANGED tasks

(* on_failure marks the request's own Task; the handler of an import marks *)
(* the Task the row has now, and raises when the row is gone.              *)
ReportFailure(r) ==
    IF run[r].kind = "update" THEN Fail(r) /\ Goes(r, "done")
    ELSE IF cloud.exists THEN Fail(cloud.task) /\ Goes(r, "done")
    ELSE Goes(r, "lost") /\ UNCHANGED tasks

Converting == {"convert", "loaded", "converter", "result"}

ConversionFails(r) ==
    /\ run[r].stage \in Converting \/ At(r, "update", "queued")
    /\ run[r].stage \in {"convert", "queued"} => ~cloud.exists
    /\ ReportFailure(r)
    /\ UNCHANGED <<cloud, features, disk, overlapped, crashes>>

(* The old tree is removed first.                                          *)
MoveFails(r) ==
    /\ run[r].stage = "move"
    /\ published' = [published EXCEPT ![run[r].feature] = NoTree]
    /\ ReportFailure(r)
    /\ UNCHANGED <<cloud, features, directory, originals, processed, overlapped, crashes>>
-----------------------------------------------------------------------------
(***************************************************************************)
(* What else happens.                                                      *)
(***************************************************************************)
(* Its asset goes with it; the point cloud forgets it.                     *)
DeleteFeature(f) ==
    /\ f \in features
    /\ features' = features \ {f}
    /\ published' = [published EXCEPT ![f] = NoTree]
    /\ cloud' = [cloud EXCEPT !.feature = IF @ = f THEN None ELSE @]
    /\ UNCHANGED <<tasks, directory, originals, processed, run, overlapped, crashes>>

(* A process dies; its message is not delivered again.                     *)
Dies(r) ==
    /\ crashes < MaxCrashes
    /\ InFlight(r)
    /\ crashes' = crashes + 1
    /\ Goes(r, "lost")
    /\ UNCHANGED <<cloud, tasks, features, disk, overlapped>>
-----------------------------------------------------------------------------
Handler(r) ==
    \/ SendImport(r) \/ SaveUpdate(r) \/ StartProcessing(r) \/ SendConversion(r)
    \/ WipeFiles(r) \/ DeleteRow(r) \/ HandlerFindsNothing(r)

Import(r) ==
    \/ BeginImport(r) \/ \E f \in Files : FetchFile(r, f)
    \/ KeepFile(r) \/ GiveUp(r) \/ CleanupRaises(r) \/ ListFiles(r)
    \/ ImportFindsNothing(r)

Convert(r) ==
    \/ LoadParameters(r) \/ StartConverter(r) \/ FinishConverter(r)
    \/ CommitResult(r) \/ MoveTree(r) \/ ConversionFails(r) \/ MoveFails(r)

Ask(r) == AskImport(r) \/ AskUpdate(r) \/ AskDelete(r)

Step(r) == Handler(r) \/ Import(r) \/ Convert(r)

Next == \E r \in Requests : Ask(r) \/ Step(r) \/ DeleteFeature(r) \/ Dies(r)

Spec == Init /\ [][Next]_vars

(* Handlers and workers that are not killed go on.                         *)
FairSpec == Spec /\ \A r \in Requests : WF_vars(Step(r))
-----------------------------------------------------------------------------
(***************************************************************************)
(* Properties                                                              *)
(***************************************************************************)
(* The steps between a Task's creation and its last status.                *)
Behind(r) ==
    \/ run[r].stage \in WorkerStages \ {"queued"}
    \/ run[r].kind = "update" /\ run[r].stage \in {"tasked", "queued"}

AnyLost == \E r \in Requests : run[r].stage = "lost"

(* A point cloud that its guard keeps everyone from touching has somebody  *)
(* who will finish with it, whatever imports, updates and deletions were   *)
(* admitted together and whichever Task each of them reports on.           *)
BlockedIsExplained ==
    Processing => AnyLost \/ \E r \in Requests : Behind(r)

(* Once requests that did not overlap are done, a COMPLETED point cloud    *)
(* shows the tree made of the files that are there, with the parameters    *)
(* that the row has.                                                       *)
CompletedIsPublished ==
    /\ ~overlapped /\ ~AnyLost
    /\ \A r \in Requests : ~InFlight(r)
    /\ cloud.exists /\ cloud.feature # None
    /\ tasks[cloud.task] = "COMPLETED"
    => published[cloud.feature] =
           [state |-> "whole", of |-> Contents, params |-> cloud.params]

(* Imports that do not overlap never lose a file from files_info.          *)
ListGrows ==
    [][cloud'.exists /\ ~overlapped' => cloud.info \subseteq cloud'.info]_vars

(* A point cloud does not stay blocked, unless a process that worked on it *)
(* was lost.                                                               *)
ProcessingEnds == Processing ~> ~Processing \/ AnyLost

(* Claims the code does not keep.                                          *)

(* "Middleware to ensure point cloud is not currently being processed."    *)
OneAtATime == \A r, s \in Requests : Behind(r) /\ Behind(s) => r = s
=============================================================================
