-------------------------- MODULE FileLocationCheck --------------------------
(***************************************************************************)
(* The public-status refresh of one Hazmapper project: the HTTP handler    *)
(* that starts it, the broker that carries it, the Celery workers that run *)
(* it, and the rows they share (the project's FileLocationCheck row, one   *)
(* Task row per refresh, one row per feature asset or internal tile        *)
(* server).  HTTP handlers and workers are separate processes; every       *)
(* action below is one database transaction or one local step of one of    *)
(* them.                                                                    *)
(***************************************************************************)
EXTENDS Integers, FiniteSets

CONSTANTS Requests,          \* POSTs to /file-location-status/; each names its Task
          Items,             \* feature assets and internal tile servers
          Tiles,             \* the items that are tile servers
          Systems,           \* private (DesignSafe project) Tapis systems
          ProjectSystem,     \* project.system_id
          Public,            \* a member of PUBLIC_SYSTEMS
          NoSystem,          \* a NULL system column
          NoRequest,         \* a NULL task_id
          NoItem,            \* a worker between two items
          StartRows,         \* the item rows a behaviour may start from
          Serial,            \* TRUE: the project's POSTs are handled one at a time
          MayDeleteProject,  \* whether the project may be deleted
          MaxCrashes,        \* bound on processes that die
          MaxDeletes         \* bound on items deleted by users

Places == Systems \cup {Public, NoSystem}

(* The FileLocationTrackingMixin columns this task reads and writes, plus  *)
(* whether original_path is known (it is not for legacy point clouds).     *)
Row == [orig  : Places,
        named : BOOLEAN,
        sys   : Places,
        path  : {"none", "original", "published"},
        flag  : {"unset", "yes", "no"}]

(* Rows as the import code leaves them: current_system is either unset or  *)
(* a copy of original_system, no check has set is_on_public_system yet.    *)
FreshRow == {v \in Row : /\ v.flag = "unset"
                         /\ v.sys \in {NoSystem, v.orig}
                         /\ v.path = IF v.sys = NoSystem THEN "none" ELSE "original"
                         /\ v.named \/ v.orig = NoSystem}

ASSUME ConstantsAssumption ==
    /\ IsFiniteSet(Items)
    /\ Tiles \subseteq Items
    /\ ProjectSystem \in Systems
    /\ Public \notin Systems /\ NoSystem \notin Systems /\ Public # NoSystem
    /\ NoRequest \notin Requests
    /\ NoItem \notin Items
    /\ StartRows \subseteq FreshRow
    /\ Serial \in BOOLEAN /\ MayDeleteProject \in BOOLEAN
    /\ MaxCrashes \in Nat /\ MaxDeletes \in Nat

VARIABLES
    project,    \* the project row exists
    check,      \* the project's FileLocationCheck row
    task,       \* status of the Task row of each request
    item,       \* tracking columns of each item
    live,       \* items whose row exists
    published,  \* items whose file is in the published tree
    pc,         \* progress of each request: handler, message, then worker
    run,        \* local variables of the worker of each request
    crashes     \* processes that died so far

vars == <<project, check, task, item, live, published, pc, run, crashes>>

-----------------------------------------------------------------------------
NoCheck == [exists |-> FALSE, running |-> FALSE, task |-> NoRequest,
            total |-> 0, checked |-> 0, failed |-> 0]

CheckRow == [exists : BOOLEAN, running : BOOLEAN, task : Requests \cup {NoRequest},
             total : Nat, checked : Int, failed : Nat]

Status == {"none", "QUEUED", "RUNNING", "COMPLETED", "FAILED"}

BlankRow == [orig |-> NoSystem, named |-> TRUE, sys |-> NoSystem,
             path |-> "none", flag |-> "unset"]

(* todo: items not yet taken; bad: len(failed_items); tree and built: the  *)
(* published_file_tree_cache; at, seen, work: the item in hand, as loaded  *)
(* and as changed so far.                                                   *)
NoRun == [todo |-> {}, total |-> 0, bad |-> 0, tree |-> [s \in Systems |-> {}],
          built |-> {}, at |-> NoItem, seen |-> BlankRow, work |-> BlankRow]

RunState == [todo : SUBSET Items, total : Nat, bad : Nat,
             tree : [Systems -> SUBSET Items], built : SUBSET Systems,
             at : Items \cup {NoItem}, seen : Row, work : Row]

Opening == {"guarded", "creating", "updating", "retaking"}  \* before its commit
Working == {"announce", "trees", "items", "item", "fixed", "report"}
Stopped == {"refused", "aborted", "rejected", "unqueued", "missing",
            "done", "failed", "wedged", "crashed"}
Stages  == {"new", "publishing", "queued"} \cup Opening \cup Working \cup Stopped

(* A refresh is in progress from the commit of start_check to the commit   *)
(* that sets completed_at; after that the worker only reports.             *)
InProgress == {"publishing", "queued"} \cup (Working \ {"report"})
Over       == {"unqueued", "missing", "report", "done", "failed", "wedged", "crashed"}

HasRunningCheck == check.exists /\ check.running

TypeOK ==
    /\ project \in BOOLEAN
    /\ check \in CheckRow
    /\ task \in [Requests -> Status]
    /\ item \in [Items -> Row]
    /\ live \subseteq Items
    /\ published \subseteq Items
    /\ pc \in [Requests -> Stages]
    /\ run \in [Requests -> RunState]
    /\ crashes \in Nat

Init ==
    /\ project = TRUE
    /\ check = NoCheck
    /\ task = [r \in Requests |-> "none"]
    /\ item \in [Items -> StartRows]
    /\ live = Items
    /\ published = {}
    /\ pc = [r \in Requests |-> "new"]
    /\ run = [r \in Requests |-> NoRun]
    /\ crashes = 0
-----------------------------------------------------------------------------
(***************************************************************************)
(* The HTTP handler start_public_status_refresh.  Its guard, the read in   *)
(* start_check and the commit are three steps: nothing locks the row.      *)
(***************************************************************************)
rows == <<item, live, published, crashes>>

Goto(r, stage) == pc' = [pc EXCEPT ![r] = stage]

(* Mutant: the route forgets to ask has_running_check.                     *)
GuardUnchecked(r) ==
    /\ pc[r] = "new"
    /\ project
    /\ Serial => \A q \in Requests : pc[q] \notin Opening \cup {"publishing"}
    /\ Goto(r, "guarded")
    /\ UNCHANGED <<rows, project, check, task, run>>

Guard(r) ==
    /\ pc[r] = "new"
    /\ project
    /\ Serial => \A q \in Requests : pc[q] \notin Opening \cup {"publishing"}
    /\ Goto(r, IF HasRunningCheck THEN "refused" ELSE "guarded")
    /\ UNCHANGED <<rows, project, check, task, run>>

ReadCheck(r) ==
    /\ pc[r] = "guarded"
    /\ \/ ~check.exists  /\ Goto(r, "creating")
       \/ HasRunningCheck /\ Goto(r, "retaking")
       \/ check.exists /\ ~check.running /\ Goto(r, "updating")
    /\ UNCHANGED <<rows, project, check, task, run>>

(* completed_at = None is written only if the row was read with a value: a *)
(* handler that read an open check ("retaking") writes its Task alone.     *)

StartCheck(r) ==
    /\ project
    /\ \/ /\ pc[r] = "updating"
          /\ check' = [check EXCEPT !.running = TRUE, !.task = r]
       \/ /\ pc[r] = "retaking"
          /\ check' = [check EXCEPT !.task = r]
       \/ /\ pc[r] = "creating"
          /\ ~check.exists
          /\ check' = [NoCheck EXCEPT !.exists = TRUE, !.running = TRUE, !.task = r]
    /\ task' = [task EXCEPT ![r] = "QUEUED"]
    /\ Goto(r, "publishing")
    /\ UNCHANGED <<rows, project, run>>

(* The flush or the commit raises: a second check row for the project      *)
(* breaks the unique constraint, and without a project the Task's foreign  *)
(* key fails.  The transaction, its Task row included, is rolled back.     *)
StartRejected(r) ==
    /\ \/ pc[r] \in {"creating", "updating", "retaking"} /\ ~project
       \/ pc[r] = "creating" /\ check.exists
    /\ Goto(r, "rejected")
    /\ UNCHANGED <<rows, project, check, task, run>>

Enqueue(r) ==
    /\ pc[r] = "publishing"
    /\ Goto(r, "queued")
    /\ UNCHANGED <<rows, project, check, task, run>>

(* Mutant: the failure path of the route leaves completed_at unset.        *)
EnqueueFailsOpen(r) ==
    /\ pc[r] = "publishing"
    /\ task' = IF project THEN [task EXCEPT ![r] = "FAILED"] ELSE task
    /\ Goto(r, "unqueued")
    /\ UNCHANGED <<rows, project, check, run>>

(* The handler's objects do not expire at its commit: the Task it marks is *)
(* its own, whatever the row says by now.                                  *)
EnqueueFails(r) ==
    /\ pc[r] = "publishing"
    /\ IF project
       THEN /\ task' = [task EXCEPT ![r] = "FAILED"]
            /\ check' = [check EXCEPT !.running = FALSE]
       ELSE UNCHANGED <<task, check>>
    /\ Goto(r, "unqueued")
    /\ UNCHANGED <<rows, project, run>>

HandlerDies(r) ==
    /\ crashes < MaxCrashes
    /\ \/ pc[r] \in Opening /\ Goto(r, "aborted")
       \/ pc[r] = "publishing" /\ Goto(r, "crashed")
    /\ crashes' = crashes + 1
    /\ UNCHANGED <<item, live, published, project, check, task, run>>

-----------------------------------------------------------------------------
(***************************************************************************)
(* The Celery task check_and_update_file_locations.  The message is        *)
(* acknowledged when the worker takes it, so a worker that dies takes the  *)
(* refresh with it.  Objects expire at every commit and are loaded again   *)
(* when next used: the Task a worker updates is the one the check row      *)
(* points to at that moment.                                                *)
(***************************************************************************)
StopWith(r, stage) ==
    /\ Goto(r, stage)
    /\ run' = [run EXCEPT ![r] = NoRun]

Begin(r) ==
    /\ pc[r] = "queued"
    /\ \/ /\ ~project
          /\ Goto(r, "missing")
          /\ UNCHANGED <<check, run>>
       \/ /\ project
          /\ run' = [run EXCEPT ![r] = [NoRun EXCEPT !.todo = live,
                                                     !.total = Cardinality(live)]]
          /\ check' = [check EXCEPT !.total = Cardinality(live)]
          /\ Goto(r, "announce")
    /\ UNCHANGED <<rows, project, task>>

Announce(r) ==
    /\ pc[r] = "announce"
    /\ project
    /\ task' = [task EXCEPT ![check.task] = "RUNNING"]
    /\ Goto(r, "trees")
    /\ UNCHANGED <<rows, project, check, run>>

(* Mutant: the index is built from the project's private files.            *)
ListingPrivate == SUBSET Items

(* The listing swallows TapisListingError directory by directory: any part *)
(* of the published tree may be absent from the index.                     *)
Listing == SUBSET published

(* Deciding whether the project's own files must be listed loads each      *)
(* asset until one without an original_path is met.                        *)
AssetsLoad(r) ==
    \/ run[r].todo \ Tiles \subseteq live
    \/ \E i \in (run[r].todo \ Tiles) \cap live : ~item[i].named

BuildTrees(r) ==
    /\ pc[r] = "trees"
    /\ project
    /\ AssetsLoad(r)
    /\ \E index \in Listing :
         run' = [run EXCEPT ![r].tree[ProjectSystem] = index,
                            ![r].built = {ProjectSystem}]
    /\ Goto(r, "items")
    /\ UNCHANGED <<rows, project, check, task>>

(* Mutant: the outer handler fails the Task but forgets the check.         *)
RunFailsOpen(r) ==
    /\ pc[r] = "trees"
    /\ project
    /\ task' = [task EXCEPT ![check.task] = "FAILED"]
    /\ StopWith(r, "failed")
    /\ UNCHANGED <<rows, project, check>>

(* A request to DesignSafe raises, or an asset is gone: the outer handler  *)
(* closes the check and fails the Task in one commit.                      *)
RunFails(r) ==
    /\ pc[r] = "trees"
    /\ project
    /\ check' = [check EXCEPT !.running = FALSE]
    /\ task' = [task EXCEPT ![check.task] = "FAILED"]
    /\ StopWith(r, "failed")
    /\ UNCHANGED <<rows, project>>

(* Feature assets are processed before tile servers.  An item whose row is *)
(* gone raises, the per-item handler raises again when it names the item,  *)
(* and the outer handler's commit raises on the item's pending timestamp:  *)
(* the task ends with the check and its Task as they were.                 *)
TakeItem(r, i) ==
    /\ pc[r] = "items"
    /\ project
    /\ i \in run[r].todo
    /\ i \in Tiles => run[r].todo \subseteq Tiles
    /\ IF i \in live
       THEN /\ run' = [run EXCEPT ![r].todo = @ \ {i}, ![r].at = i,
                                  ![r].seen = item[i], ![r].work = item[i]]
            /\ Goto(r, "item")
       ELSE StopWith(r, "wedged")
    /\ UNCHANGED <<rows, project, check, task>>

(* fix_and_backfill_feature_asset (assets only; found is what the listing  *)
(* of the project's system answers) and backfill_current_location.         *)
Fixed(i, v, found) ==
    IF found /\ v.orig = NoSystem /\ i \notin Tiles
    THEN [v EXCEPT !.orig = ProjectSystem, !.named = TRUE]
    ELSE v

(* Mutant: the backfill resets a location that is already known.           *)
BackfilledAlways(v) ==
    [v EXCEPT !.sys  = v.orig,
              !.path = IF v.named THEN "original" ELSE @]

Backfilled(v) ==
    [v EXCEPT !.sys  = IF @ = NoSystem THEN v.orig ELSE @,
              !.path = IF @ = "none" /\ v.named THEN "original" ELSE @]

FixItem(r) ==
    /\ pc[r] = "item"
    /\ \E found \in BOOLEAN :
         run' = [run EXCEPT ![r].work = Backfilled(Fixed(run[r].at, @, found))]
    /\ Goto(r, "fixed")
    /\ UNCHANGED <<rows, project, check, task>>

(* An UPDATE names only the columns whose value changed since the load.    *)
Updated(current, seen, new) ==
    [orig  |-> IF new.orig  # seen.orig  THEN new.orig  ELSE current.orig,
     named |-> IF new.named # seen.named THEN new.named ELSE current.named,
     sys   |-> IF new.sys   # seen.sys   THEN new.sys   ELSE current.sys,
     path  |-> IF new.path  # seen.path  THEN new.path  ELSE current.path,
     flag  |-> IF new.flag  # seen.flag  THEN new.flag  ELSE current.flag]

Save(r, new) ==
    item' = [item EXCEPT ![run[r].at] = Updated(@, run[r].seen, new)]

(* A Tapis call made for the item finds the user's token about to expire:  *)
(* refresh_access_token commits the worker's session, pending columns      *)
(* included, and the item is loaded again.                                 *)
TokenRefreshed(r) ==
    /\ pc[r] \in {"item", "fixed"}
    /\ run[r].at \in live
    /\ Save(r, run[r].work)
    /\ run' = [run EXCEPT ![r].seen = item'[run[r].at], ![r].work = item'[run[r].at]]
    /\ UNCHANGED <<live, published, crashes, project, check, task, pc>>

(* The worker's cache once the trees it lacked for the item are built.     *)
Unbuilt(state) == {state.work.sys} \cap (Systems \ state.built)

Cached(state, tree) ==
    [state EXCEPT !.tree = [s \in Systems |-> IF s \in Unbuilt(state) THEN tree[s] ELSE @[s]],
                  !.built = @ \cup Unbuilt(state)]

(* The refresh fails and rolls the session back while the old token still  *)
(* serves: pending columns are lost and the item is loaded again.  When it *)
(* happens while the tree of the item's system is being built, the lookup  *)
(* that follows is made for the reloaded, possibly NULL, current_system.   *)
RefreshRolledBack(r) ==
    /\ pc[r] \in {"item", "fixed"}
    /\ run[r].at \in live
    /\ LET v == item[run[r].at]
           building == pc[r] = "fixed" /\ Unbuilt(run[r]) # {}
       IN \E flag \in {v.flag} \cup (IF building /\ v.sys = NoSystem THEN {"no"} ELSE {}) :
            run' = [run EXCEPT ![r].seen = v, ![r].work = [v EXCEPT !.flag = flag]]
    /\ UNCHANGED <<rows, project, check, task, pc>>

(* Mutants: any path counts as found in the tree; a file found there is    *)
(* moved without setting its flag, or without its path.                    *)
LocatedByPath(i, v, cache) ==
    CASE v.sys = Public   -> [v EXCEPT !.flag = "yes"]
      [] v.sys = NoSystem -> v
      [] OTHER -> IF v.path # "none"
                  THEN [v EXCEPT !.sys = Public, !.path = "published", !.flag = "yes"]
                  ELSE [v EXCEPT !.flag = "no"]

LocatedUnflagged(i, v, cache) ==
    CASE v.sys = Public   -> v
      [] v.sys = NoSystem -> v
      [] OTHER -> IF i \in cache[v.sys] /\ v.path # "none"
                  THEN [v EXCEPT !.sys = Public, !.path = "published"]
                  ELSE [v EXCEPT !.flag = "no"]

LocatedPathKept(i, v, cache) ==
    CASE v.sys = Public   -> [v EXCEPT !.flag = "yes"]
      [] v.sys = NoSystem -> v
      [] OTHER -> IF i \in cache[v.sys] /\ v.path # "none"
                  THEN [v EXCEPT !.sys = Public, !.flag = "yes"]
                  ELSE [v EXCEPT !.flag = "no"]

(* check_and_update_public_system, given the cached published trees.       *)
Located(i, v, cache) ==
    CASE v.sys = Public   -> [v EXCEPT !.flag = "yes"]
      [] v.sys = NoSystem -> v
      [] OTHER -> IF i \in cache[v.sys] /\ v.path # "none"
                  THEN [v EXCEPT !.sys = Public, !.path = "published", !.flag = "yes"]
                  ELSE [v EXCEPT !.flag = "no"]

PutDown(state) == [state EXCEPT !.at = NoItem, !.seen = BlankRow, !.work = BlankRow]

CommitItem(r) ==
    /\ pc[r] = "fixed"
    /\ project
    /\ IF run[r].at \in live
       THEN /\ \E tree \in [Unbuilt(run[r]) -> Listing] :
                 LET state == Cached(run[r], tree)
                 IN /\ Save(r, Located(state.at, state.work, state.tree))
                    /\ run' = [run EXCEPT ![r] = PutDown(state)]
            /\ Goto(r, "items")
       ELSE UNCHANGED item /\ StopWith(r, "wedged")
    /\ UNCHANGED <<live, published, crashes, project, check, task>>

(* A remote call made for the item raises: rollback, count it, go on.      *)
Counted(state) == [state EXCEPT !.bad = @ + 1]

ItemFails(r) ==
    /\ pc[r] \in {"item", "fixed"}
    /\ project
    /\ run' = [run EXCEPT ![r] = PutDown(Counted(@))]
    /\ Goto(r, "items")
    /\ UNCHANGED <<rows, project, check, task>>

(* Mutant: failed items are counted as checked, too.                       *)
FinishOvercounted(r) ==
    /\ pc[r] = "items"
    /\ project
    /\ run[r].todo = {}
    /\ check' = [check EXCEPT !.running = FALSE,
                              !.checked = run[r].total,
                              !.failed = run[r].bad]
    /\ Goto(r, "report")
    /\ UNCHANGED <<rows, project, task, run>>

Finish(r) ==
    /\ pc[r] = "items"
    /\ project
    /\ run[r].todo = {}
    /\ check' = [check EXCEPT !.running = FALSE,
                              !.checked = run[r].total - run[r].bad,
                              !.failed = run[r].bad]
    /\ Goto(r, "report")
    /\ UNCHANGED <<rows, project, task, run>>

Report(r) ==
    /\ pc[r] = "report"
    /\ project
    /\ task' = [task EXCEPT ![check.task] = "COMPLETED"]
    /\ StopWith(r, "done")
    /\ UNCHANGED <<rows, project, check>>

(* The project and all its rows are gone: the next access raises, and so   *)
(* does the outer handler's commit.                                        *)
ProjectVanished(r) ==
    /\ pc[r] \in Working
    /\ ~project
    /\ StopWith(r, "wedged")
    /\ UNCHANGED <<rows, project, check, task>>

WorkerDies(r) ==
    /\ crashes < MaxCrashes
    /\ pc[r] \in Working
    /\ StopWith(r, "crashed")
    /\ crashes' = crashes + 1
    /\ UNCHANGED <<item, live, published, project, check, task>>

-----------------------------------------------------------------------------
(* What goes on meanwhile: DesignSafe publishes files, users delete        *)
(* features, tile servers or the whole project (rows cascade).             *)
PublishFile(i) ==
    /\ i \notin published
    /\ published' = published \cup {i}
    /\ UNCHANGED <<project, check, task, item, live, pc, run, crashes>>

DeleteItem(i) ==
    /\ i \in live
    /\ Cardinality(Items \ live) < MaxDeletes
    /\ live' = live \ {i}
    /\ UNCHANGED <<project, check, task, item, published, pc, run, crashes>>

DeleteProject ==
    /\ MayDeleteProject
    /\ project
    /\ project' = FALSE
    /\ check' = NoCheck
    /\ task' = [r \in Requests |-> "none"]
    /\ live' = {}
    /\ UNCHANGED <<item, published, pc, run, crashes>>

-----------------------------------------------------------------------------
HandlerStep(r) ==
    \/ ReadCheck(r)
    \/ StartCheck(r)
    \/ StartRejected(r)
    \/ Enqueue(r)
    \/ EnqueueFails(r)

WorkerStep(r) ==
    \/ Begin(r)
    \/ Announce(r)
    \/ BuildTrees(r)
    \/ RunFails(r)
    \/ \E i \in Items : TakeItem(r, i)
    \/ FixItem(r)
    \/ CommitItem(r)
    \/ ItemFails(r)
    \/ Finish(r)
    \/ Report(r)
    \/ ProjectVanished(r)

Crash(r) == HandlerDies(r) \/ WorkerDies(r)

Outside == \/ \E i \in Items : PublishFile(i) \/ DeleteItem(i)
           \/ DeleteProject

Next ==
    \/ \E r \in Requests : Guard(r) \/ HandlerStep(r) \/ WorkerStep(r)
                           \/ TokenRefreshed(r) \/ RefreshRolledBack(r)
                           \/ Crash(r)
    \/ Outside

Spec == Init /\ [][Next]_vars

(* A handler thread and a worker process keep running until they are done  *)
(* or die; an idle worker takes the next message.                          *)
Progress == \A r \in Requests : WF_vars(HandlerStep(r)) /\ WF_vars(WorkerStep(r))

FairSpec == Spec /\ Progress
-----------------------------------------------------------------------------
(***************************************************************************)
(* Properties                                                              *)
(***************************************************************************)

(* An item recorded on a public system that did not come from one has      *)
(* really been published: overlapping workers, partial listings, early     *)
(* commits and rollbacks never make the task claim more than it saw.       *)
PublicMeansPublished ==
    \A i \in Items : item[i].sys = Public /\ item[i].orig # Public => i \in published

(* is_on_public_system, once computed, says whether current_system is a    *)
(* public one: the model's column comment, in every committed state.       *)
FlagMatchesSystem ==
    \A i \in Items : item[i].flag # "unset" =>
                        (item[i].flag = "yes" <=> item[i].sys = Public)

(* current_system and current_path change places together: an item is at a *)
(* published path exactly when it is on a public system without having     *)
(* come from one, in every committed row.  Columns are written one by one, *)
(* only those a worker changed, and a token refresh may commit or drop     *)
(* them half-way (check_and_update_public_system, backfill_current_location). *)
MovesAreWhole ==
    \A i \in Items : item[i].path = "published"
                        <=> item[i].sys = Public /\ item[i].orig # Public

(* When the refresh the check row points to has written its result, the    *)
(* two counts add up to total_files, whatever ran or was deleted before.   *)
CountsAddUp ==
    \A r \in Requests :
        check.task = r /\ ~check.running /\ pc[r] \in {"report", "done"}
            => check.checked + check.failed = check.total

(* A check that stays open has somebody working on it, unless a process    *)
(* died or a row vanished under a worker (the run wedged).                 *)
OpenCheckIsExplained ==
    HasRunningCheck => \E r \in Requests : pc[r] \in InProgress \cup {"wedged", "crashed"}

(* Once an item is recorded on a public system no later check moves it     *)
(* back to a private one or changes its path.                              *)
PublicSticks ==
    [][\A i \in Items : item[i].sys = Public =>
          item'[i].sys = Public /\ item'[i].path = item[i].path]_vars

Active == {r \in Requests : pc[r] \in InProgress}
Ended  == {r \in Requests : pc[r] \in Over}

Cycle == INSTANCE RefreshCycle WITH Refreshes <- Requests, active <- Active, ended <- Ended

(* When the project's POSTs are handled one at a time, its refreshes take  *)
(* turns: the guard on the check row implements RefreshCycle, across       *)
(* failed publications, failed and wedged runs, crashes and deletions.     *)
RefreshesTakeTurns == Cycle!Spec

(* An open check is closed in the end, whatever fails remotely and however *)
(* refreshes overlap, unless a process died or a row vanished under a      *)
(* worker.                                                                 *)
CheckCloses ==
    HasRunningCheck ~> \/ ~HasRunningCheck
                       \/ \E r \in Requests : pc[r] \in {"wedged", "crashed"}

(* Claims the code does not keep.                                          *)

(* has_running_check: "Check if there's currently a running refresh for    *)
(* this project": an open check has a handler, message or worker behind it.*)
RunningCheckIsRunning == HasRunningCheck => Active # {}

(* "A public status refresh is already in progress for this project": the  *)
(* guard of the route keeps a second refresh from starting.                *)
OneRefreshAtATime == \A r, q \in Active : r = q

(* "Successfully checked all N files": a Task marked COMPLETED belongs to  *)
(* a refresh whose items have been checked.                                *)
CompletedTaskIsOver == \A r \in Requests : task[r] = "COMPLETED" => pc[r] \in Over
=============================================================================
