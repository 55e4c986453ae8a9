------------------------------- MODULE MapAssets -------------------------------
(***************************************************************************)
(* The files that features and overlays of one map project keep in its     *)
(* asset directory, and the rows they belong to.  A request or an import   *)
(* task writes the files of a new item and commits its row afterwards; a   *)
(* deletion removes the files it finds and then the row; deleting the      *)
(* project drops all rows and leaves the directory to a Celery task.       *)
(***************************************************************************)
EXTENDS Integers, FiniteSets

CONSTANTS Items,        \* what is added: each by a request or task of its own
          Deleters,     \* requests to delete a feature or an overlay
          Nothing,      \* no item
          Early,        \* items whose feature is there at the start
          MaxFailures   \* bound on errors and dead processes

ASSUME ConstantsAssumption ==
    /\ IsFiniteSet(Items) /\ Early \subseteq Items
    /\ Nothing \notin Items
    /\ MaxFailures \in Nat

VARIABLES
    project,    \* whether the project's row is there
    things,     \* rows of features and overlays, by the item that made them
    assets,     \* rows with a path: of an asset or of an overlay
    host,       \* the feature or overlay each item belongs to
    files,      \* items with files in the project's directory
    add,        \* how far the addition of each item is, and its kind
    del,        \* local state of each deletion
    removal,    \* remove_project_assets: its stage, and the files it lists
    crossed,    \* items written while their host or project was being deleted
    failures

rows == <<project, things, assets, host>>
vars == <<project, things, assets, host, files, add, del, removal, crossed, failures>>
-----------------------------------------------------------------------------
(* plain: a feature without files (GPX, GeoJSON, shapefile); image: a      *)
(* feature made of a photo; bundle: a RApp questionnaire or a feature with *)
(* an embedded image; attach: an asset for a feature that is there.        *)
Kinds == {"plain", "image", "bundle", "attach", "overlay"}

TypeOK ==
    /\ project \in BOOLEAN
    /\ things \subseteq Items /\ assets \subseteq Items /\ files \subseteq Items
    /\ host \in [Items -> Items]
    /\ add \in [Items -> [stage : {"idle", "fetch", "write", "commit", "done", "failed"},
                          kind : Kinds]]
    /\ del \in [Deleters -> [stage : {"idle", "list", "remove", "commit", "done", "failed"},
                             of : Items \cup {Nothing}, seen : SUBSET Items]]
    /\ removal \in [stage : {"no", "rows", "queued", "listed", "done", "lost"}, seen : SUBSET Items]
    /\ crossed \subseteq Items
    /\ failures \in 0 .. MaxFailures

Init ==
    /\ project = TRUE
    /\ things = Early /\ assets = Early /\ files = Early
    /\ host = [i \in Items |-> i]
    /\ add = [i \in Items |-> [stage |-> IF i \in Early THEN "done" ELSE "idle", kind |-> "image"]]
    /\ del = [d \in Deleters |-> [stage |-> "idle", of |-> Nothing, seen |-> {}]]
    /\ removal = [stage |-> "no", seen |-> {}]
    /\ crossed = {} /\ failures = 0

Adds(i, stage) == add' = [add EXCEPT ![i].stage = stage]

Fails == failures < MaxFailures /\ failures' = failures + 1

Deleting(h) == \E d \in Deleters : del[d].of = h /\ del[d].stage \notin {"idle", "failed"}
-----------------------------------------------------------------------------
(***************************************************************************)
(* Adding an item: a guard, then perhaps a download, the files, the row.   *)
(***************************************************************************)
Ask(i) ==
    /\ add[i].stage = "idle"
    /\ project
    /\ \/ \E k \in Kinds \ {"attach"} :
            /\ add' = [add EXCEPT ![i] = [stage |-> "fetch", kind |-> k]]
            /\ UNCHANGED host
       \/ \E h \in things \ {i} :
            /\ add[h].kind # "overlay"
            /\ add' = [add EXCEPT ![i] = [stage |-> "fetch", kind |-> "attach"]]
            /\ host' = [host EXCEPT ![i] = h]
    /\ UNCHANGED <<project, things, assets, files, del, removal, crossed, failures>>

(* TapisUtils.getFile, or the body of the request.                         *)
Fetch(i) ==
    /\ add[i].stage = "fetch"
    /\ \/ /\ Adds(i, IF add[i].kind = "plain" THEN "commit" ELSE "write")
          /\ UNCHANGED failures
       \/ Fails /\ Adds(i, "failed")
    /\ UNCHANGED <<rows, files, del, removal, crossed>>

(* make_project_asset_dir makes the directory anew if it is gone.          *)
Writes(i, kind, leftover) ==
    /\ add[i].stage = "write" /\ add[i].kind = kind
    /\ \/ /\ files' = files \cup {i}
          /\ Adds(i, "commit")
          /\ UNCHANGED failures
       \/ /\ Fails
          /\ files' = files \cup leftover
          /\ Adds(i, "failed")
    /\ crossed' = IF ~project \/ Deleting(host[i]) THEN crossed \cup {i} ELSE crossed
    /\ UNCHANGED <<rows, del, removal>>

(* fromImage alone removes what it has saved when a save fails.            *)
WriteImage(i) == Writes(i, "image", {})
WriteBundle(i) == Writes(i, "bundle", {i})
WriteAttachment(i) == Writes(i, "attach", {i})
WriteOverlay(i) == Writes(i, "overlay", {i})

Write(i) == WriteImage(i) \/ WriteBundle(i) \/ WriteAttachment(i) \/ WriteOverlay(i)

(* The insert fails if the project, or the feature, is gone; the files     *)
(* stay where they are.                                                    *)
Stores(i, newAssets) ==
    /\ add[i].stage = "commit"
    /\ \/ /\ project /\ (host[i] = i \/ host[i] \in things)
          /\ things' = things \cup {host[i]}
          /\ assets' = assets \cup newAssets
          /\ Adds(i, "done")
          /\ UNCHANGED failures
       \/ /\ ~project \/ host[i] \notin things \cup {i}
          /\ Adds(i, "failed")
          /\ UNCHANGED <<things, assets, failures>>
       \/ Fails /\ Adds(i, "failed") /\ UNCHANGED <<things, assets>>
    /\ UNCHANGED <<project, host, files, del, removal, crossed>>

CommitPlain(i) == add[i].kind = "plain" /\ Stores(i, {})
CommitItem(i) == add[i].kind # "plain" /\ Stores(i, {i})

(* The process dies: a request's, or a worker's.                           *)
AdderDies(i) ==
    /\ add[i].stage \in {"fetch", "write", "commit"}
    /\ Fails
    /\ Adds(i, "failed")
    /\ UNCHANGED <<rows, files, del, removal, crossed>>
-----------------------------------------------------------------------------
(***************************************************************************)
(* FeaturesService.delete and deleteOverlay.                               *)
(***************************************************************************)
Deletes(d, stage, seen) == del' = [del EXCEPT ![d].stage = stage, ![d].seen = seen]

AssetsOf(h) == {i \in assets : host[i] = h}

Load(d, h) ==
    /\ del[d].stage = "idle"
    /\ h \in things
    /\ del' = [del EXCEPT ![d] = [stage |-> "list", of |-> h, seen |-> AssetsOf(h)]]
    /\ crossed' = crossed \cup {i \in Items : host[i] = h /\ add[i].stage = "commit"}
    /\ UNCHANGED <<rows, files, add, removal, failures>>

(* delete_assets: glob, then os.remove of what was found.                  *)
ListFiles(d) ==
    /\ del[d].stage = "list"
    /\ Deletes(d, "remove", del[d].seen \cap files)
    /\ UNCHANGED <<rows, files, add, removal, crossed, failures>>

(* A file that somebody else has removed since raises.                     *)
RemoveFiles(d) ==
    /\ del[d].stage = "remove"
    /\ IF del[d].seen \subseteq files
         THEN files' = files \ del[d].seen /\ Deletes(d, "commit", {})
         ELSE /\ \E part \in SUBSET (del[d].seen \cap files) : files' = files \ part
              /\ Deletes(d, "failed", {})
    /\ UNCHANGED <<rows, add, removal, crossed, failures>>

(* The cascade takes assets the deletion has not seen along.               *)
CommitDeletion(d) ==
    /\ del[d].stage = "commit"
    /\ \/ /\ things' = things \ {del[d].of}
          /\ assets' = assets \ AssetsOf(del[d].of)
          /\ Deletes(d, "done", {})
          /\ UNCHANGED failures
       \/ Fails /\ Deletes(d, "failed", {}) /\ UNCHANGED <<things, assets>>
    /\ UNCHANGED <<project, host, files, add, removal, crossed>>

DeleterDies(d) ==
    /\ del[d].stage \in {"list", "remove", "commit"}
    /\ Fails
    /\ Deletes(d, "failed", {})
    /\ UNCHANGED <<rows, files, add, removal, crossed>>
-----------------------------------------------------------------------------
(***************************************************************************)
(* ProjectsService.delete, and remove_project_assets in a worker.          *)
(***************************************************************************)
Removes(stage, seen) == removal' = [stage |-> stage, seen |-> seen]

(* Mutant: the directory goes first.                                       *)
AssetsFirst ==
    /\ removal.stage = "no"
    /\ Removes("rows", {})
    /\ files' = {}
    /\ UNCHANGED <<rows, crossed>>

AskDeletion ==
    /\ removal.stage = "no"
    /\ Removes("rows", {})
    /\ UNCHANGED <<rows, files, crossed>>

DropProject ==
    /\ removal.stage = "rows"
    /\ project' = FALSE
    /\ things' = {} /\ assets' = {}
    /\ crossed' = crossed \cup {i \in Items : add[i].stage = "commit"}
    /\ \/ Removes("queued", {}) /\ UNCHANGED failures
       \/ Fails /\ Removes("lost", {})
    /\ UNCHANGED <<host, files, add, del>>

ListProject ==
    /\ removal.stage = "queued"
    /\ Removes("listed", files)
    /\ UNCHANGED <<rows, files, add, del, crossed, failures>>

(* Mutant: directories within it stay.                                     *)
PlainFiles == {i \in removal.seen : add[i].kind # "bundle"}

Tree == removal.seen

(* shutil.rmtree gives up on a file that has vanished: FileNotFoundError   *)
(* passes for success.                                                     *)
RemoveTree ==
    /\ removal.stage = "listed"
    /\ IF removal.seen \subseteq files
         THEN files' = files \ Tree /\ Removes("done", {})
         ELSE /\ \E part \in SUBSET (removal.seen \cap files) : files' = files \ part
              /\ Removes("lost", {})
    /\ UNCHANGED <<rows, add, del, crossed, failures>>

RemoverDies ==
    /\ removal.stage \in {"queued", "listed"}
    /\ Fails
    /\ Removes("lost", {})
    /\ UNCHANGED <<rows, files, add, del, crossed>>
-----------------------------------------------------------------------------
Adding(i) == Fetch(i) \/ Write(i) \/ CommitPlain(i) \/ CommitItem(i)

Deletion(d) == ListFiles(d) \/ RemoveFiles(d) \/ CommitDeletion(d)

Removal == DropProject \/ ListProject \/ RemoveTree

Next ==
    \/ \E i \in Items : Ask(i) \/ Adding(i) \/ AdderDies(i)
    \/ \E d \in Deleters : (\E h \in Items : Load(d, h)) \/ Deletion(d) \/ DeleterDies(d)
    \/ AskDeletion /\ UNCHANGED <<add, del, failures>>
    \/ Removal
    \/ RemoverDies

Spec == Init /\ [][Next]_vars

FairSpec ==
    /\ Spec
    /\ \A i \in Items : WF_vars(Adding(i))
    /\ \A d \in Deleters : WF_vars(Deletion(d))
    /\ WF_vars(Removal)
-----------------------------------------------------------------------------
(* A row's files are there, as long as nobody has begun to delete what it  *)
(* belongs to: a row comes after its files and goes after them             *)
(* (services/features.py).                                                 *)
FilesBehindRows ==
    \A i \in assets \ files : \E d \in Deleters : del[d].of = host[i] /\ del[d].stage # "idle"

(* Files without a row belong to an addition that is not over or failed,   *)
(* or were written while their feature or project was being deleted, or    *)
(* the deletion itself is not over or failed.                              *)
StraysExplained ==
    \A i \in files \ (assets \cup crossed) :
        \/ add[i].stage \in {"commit", "failed"}
        \/ removal.stage \in {"queued", "listed", "lost"}

(* Once the directory of a deleted project is removed, only what is being  *)
(* written meanwhile comes back (utils/assets.py).                         *)
RemovedStaysGone == removal.stage = "done" => files \subseteq crossed

(* Rows and files correspond at every step of additions and deletions      *)
(* (services/features.py, utils/assets.py).                                *)
FilesMatchRows == TypeOK /\ FilesBehindRows /\ StraysExplained /\ RemovedStaysGone

(* Once a project is deleted its files go, except for those that were      *)
(* being written meanwhile and those of a removal that got lost.           *)
ProjectFilesGo ==
    ~project ~> \/ removal.stage = "lost"
                \/ files \subseteq crossed \cup {i \in Items : add[i].stage # "done"}
=============================================================================
