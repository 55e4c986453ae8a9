----------------------------- MODULE ImportWatch -----------------------------
(***************************************************************************)
(* Importing the content of watched directories: the hourly pass           *)
(* refresh_projects_watch_content over all watching projects, and the      *)
(* single import_from_tapis that creating such a project enqueues.  Both   *)
(* run import_files_recursively_from_path in a worker process of their     *)
(* own; nothing keeps two of them from running at once.  Every action is   *)
(* one commit or one local step of one of them.                            *)
(***************************************************************************)
EXTENDS Integers, FiniteSets

CONSTANTS Workers,        \* worker processes that may run a pass
          Projects,       \* projects that are created with watch_content
          Files,          \* supported files in the watched directories
          Owner,          \* [Files -> Projects]: whose directory a file is in
          Rapp,           \* files of a RApp folder, located by their metadata
          Collections,    \* files that hold several features
          Poison,         \* files with features or metadata the database rejects
          NoProject,      \* a worker between two projects
          NoFile,         \* a worker between two files
          Overlap,        \* FALSE: a pass starts only when none is running
          MayDelete,      \* whether users delete features and projects
          MaxCrashes,     \* bound on workers that die
          MaxStranded     \* bound on placeholders that a rejection strands

ASSUME ConstantsAssumption ==
    /\ IsFiniteSet(Workers)
    /\ Owner \in [Files -> Projects]
    /\ Rapp \subseteq Files
    /\ Collections \subseteq Files \ Rapp
    /\ Poison \subseteq Files
    /\ NoProject \notin Projects
    /\ NoFile \notin Files
    /\ Overlap \in BOOLEAN /\ MayDelete \in BOOLEAN
    /\ MaxCrashes \in Nat /\ MaxStranded \in Nat

VARIABLES
    projects,      \* watching projects whose row exists
    enqueued,      \* projects whose creation import waits in the broker
    created,       \* projects that were created so far
    copies,        \* per file: how often its features are on the map
    placeholders,  \* per file: RApp features that have no asset (yet)
    marks,         \* per file: its ImportedFile rows, by outcome
    stranded,      \* per file: placeholders left by a rejected asset commit
    pass,          \* local state of each worker
    crashes        \* workers that died so far

vars == <<projects, enqueued, created, copies, placeholders, marks, stranded,
          pass, crashes>>

map == <<copies, placeholders, marks, stranded>>
-----------------------------------------------------------------------------
(* What became of a file: imported, failed to convert, failed to download. *)
Outcome == {"ok", "bad", "unfetched"}

Marked(f) == \E o \in Outcome : marks[f][o] > 0

FilesOf(p) == {f \in Files : Owner[f] = p}

(* hourly: the periodic pass, not a single import; queue: projects not yet *)
(* visited; expired: the session has committed or rolled back since it     *)
(* loaded the projects; unsaved: features of a failed file are still in    *)
(* the session.                                                             *)
Idle == [stage |-> "idle", hourly |-> FALSE, queue |-> {}, project |-> NoProject,
         todo |-> {}, file |-> NoFile, outcome |-> "ok", unsaved |-> FALSE,
         expired |-> FALSE]

Stages == {"idle", "projects", "listing", "files", "file", "asset", "mark"}

PassState == [stage : Stages, hourly : BOOLEAN, queue : SUBSET Projects,
              project : Projects \cup {NoProject}, todo : SUBSET Files,
              file : Files \cup {NoFile}, outcome : Outcome,
              unsaved : BOOLEAN, expired : BOOLEAN]

TypeOK ==
    /\ projects \subseteq Projects
    /\ enqueued \subseteq Projects
    /\ created \subseteq Projects
    /\ copies \in [Files -> Nat]
    /\ placeholders \in [Files -> Nat]
    /\ marks \in [Files -> [Outcome -> Nat]]
    /\ stranded \in [Files -> Nat]
    /\ pass \in [Workers -> PassState]
    /\ crashes \in Nat

Init ==
    /\ projects = {}
    /\ enqueued = {}
    /\ created = {}
    /\ copies = [f \in Files |-> 0]
    /\ placeholders = [f \in Files |-> 0]
    /\ marks = [f \in Files |-> [o \in Outcome |-> 0]]
    /\ stranded = [f \in Files |-> 0]
    /\ pass = [w \in Workers |-> Idle]
    /\ crashes = 0
-----------------------------------------------------------------------------
(***************************************************************************)
(* Starting, and going from project to project.                            *)
(***************************************************************************)
Turn(w) == ~Overlap => \A v \in Workers : pass[v].stage = "idle"

StartHourly(w) ==
    /\ pass[w].stage = "idle" /\ Turn(w)
    /\ pass' = [pass EXCEPT ![w] = [Idle EXCEPT !.stage = "projects",
                                                !.hourly = TRUE, !.queue = projects]]
    /\ UNCHANGED <<projects, enqueued, created, map, crashes>>

StartSingle(w, p) ==
    /\ pass[w].stage = "idle" /\ Turn(w)
    /\ p \in enqueued
    /\ enqueued' = enqueued \ {p}
    /\ pass' = [pass EXCEPT ![w] = [Idle EXCEPT !.stage = "listing", !.project = p]]
    /\ UNCHANGED <<projects, created, map, crashes>>

Local == <<projects, enqueued, created, map, crashes>>

Visit(w, p) ==
    /\ pass[w].stage = "projects"
    /\ p \in pass[w].queue
    /\ p \in projects
    /\ pass' = [pass EXCEPT ![w].stage = "listing", ![w].project = p,
                            ![w].queue = @ \ {p}]
    /\ UNCHANGED Local

(* No user of the project has a usable token.  So it looks, too, for a     *)
(* project deleted since, while the session still holds its row.           *)
PassOver(w, p) ==
    /\ pass[w].stage = "projects"
    /\ p \in pass[w].queue
    /\ p \in projects \/ ~pass[w].expired
    /\ pass' = [pass EXCEPT ![w].queue = @ \ {p}]
    /\ UNCHANGED Local

(* The task ends: nothing is left to visit, or an exception is not caught. *)
Ends(w) ==
    /\ pass' = [pass EXCEPT ![w] = Idle]
    /\ UNCHANGED Local

EndPass(w) ==
    /\ pass[w].stage = "projects"
    /\ pass[w].queue = {}
    /\ Ends(w)

(* Loading an expired project that is gone raises in the loop's try, and   *)
(* again when its handler names the project: the pass is over.             *)
ProjectVanished(w, p) ==
    /\ pass[w].stage = "projects"
    /\ p \in pass[w].queue \ projects
    /\ pass[w].expired
    /\ Ends(w)

(* The directories that can be listed give todo; a token refreshed for the *)
(* listing commits the session.                                             *)
Listed(w, found) ==
    /\ pass[w].stage = "listing"
    /\ \E expired \in {pass[w].expired, TRUE} :
         pass' = [pass EXCEPT ![w].stage = "files", ![w].todo = found,
                              ![w].expired = expired]
    /\ UNCHANGED Local

ListedInFull(w, p) == pass[w].project = p /\ Listed(w, FilesOf(p))

List(w) == \E found \in SUBSET FilesOf(pass[w].project) : Listed(w, found)

(* A directory's listing raises something else than TapisListingError (an  *)
(* expired token): the hourly pass rolls back and goes on with the next    *)
(* project, if it can still name this one; a single import ends.           *)
ProjectFails(w) ==
    /\ pass[w].stage \in {"listing", "files"}
    /\ IF pass[w].hourly /\ (pass[w].project \in projects \/ ~pass[w].expired)
       THEN /\ pass' = [pass EXCEPT ![w].stage = "projects", ![w].project = NoProject,
                                    ![w].todo = {}, ![w].expired = TRUE]
            /\ UNCHANGED Local
       ELSE Ends(w)

ProjectDone(w) ==
    /\ pass[w].stage = "files"
    /\ pass[w].todo = {}
    /\ IF pass[w].hourly
       THEN /\ pass' = [pass EXCEPT ![w].stage = "projects", ![w].project = NoProject]
            /\ UNCHANGED Local
       ELSE Ends(w)

-----------------------------------------------------------------------------
(***************************************************************************)
(* One file.  Whether it is marked is read first; its features, and then   *)
(* its mark, are committed later.                                          *)
(***************************************************************************)
InHand(w) == pass[w].file

(* Everything pending is committed and every loaded object expires.        *)
Committed(w, stage, outcome) ==
    pass' = [pass EXCEPT ![w].stage = stage, ![w].outcome = outcome,
                         ![w].unsaved = FALSE, ![w].expired = TRUE]

(* Mutant: only successful imports are remembered.                         *)
CheckSuccess(w, f) ==
    /\ pass[w].stage = "files"
    /\ f \in pass[w].todo
    /\ pass' = [pass EXCEPT ![w].todo  = @ \ {f},
                            ![w].stage = IF marks[f]["ok"] > 0 THEN "files" ELSE "file",
                            ![w].file  = IF marks[f]["ok"] > 0 THEN NoFile ELSE f]
    /\ UNCHANGED Local

Check(w, f) ==
    /\ pass[w].stage = "files"
    /\ f \in pass[w].todo
    /\ pass' = [pass EXCEPT ![w].todo  = @ \ {f},
                            ![w].stage = IF Marked(f) THEN "files" ELSE "file",
                            ![w].file  = IF Marked(f) THEN NoFile ELSE f]
    /\ UNCHANGED Local

(* A RApp file without metadata, or without a location in it.              *)
SkipFile(w) ==
    /\ pass[w].stage = "file"
    /\ InHand(w) \in Rapp
    /\ pass' = [pass EXCEPT ![w].stage = "files", ![w].file = NoFile]
    /\ UNCHANGED Local

(* Mutant: a file that could not be downloaded is left for the next pass.  *)
FetchRetried(w) ==
    /\ pass[w].stage = "file"
    /\ pass' = [pass EXCEPT ![w].stage = "files", ![w].file = NoFile]
    /\ UNCHANGED Local

(* The handler tells fetch errors by "e is not TapisFileGetError", which   *)
(* holds for every instance: no failure is retryable.                      *)
FetchFails(w) ==
    /\ pass[w].stage = "file"
    /\ pass' = [pass EXCEPT ![w].stage = "mark", ![w].outcome = "unfetched"]
    /\ UNCHANGED Local

(* The file cannot be read or converted.  Features of a collection added   *)
(* before the one that raised stay in the session.                         *)
ConvertFails(w) ==
    /\ pass[w].stage = "file"
    /\ InHand(w) \notin Rapp
    /\ \E some \in IF InHand(w) \in Collections THEN BOOLEAN ELSE {FALSE} :
         pass' = [pass EXCEPT ![w].stage = "mark", ![w].outcome = "bad",
                              ![w].unsaved = some]
    /\ UNCHANGED Local

SaveFeatures(w) ==
    /\ pass[w].stage = "file"
    /\ InHand(w) \notin Rapp \cup Poison
    /\ pass[w].project \in projects
    /\ copies' = [copies EXCEPT ![InHand(w)] = @ + 1]
    /\ Committed(w, "mark", "ok")
    /\ UNCHANGED <<projects, enqueued, created, placeholders, marks, stranded, crashes>>

(* RApp: a feature at the location of the metadata, then its asset.        *)
PlaceFeature(w) ==
    /\ pass[w].stage = "file"
    /\ InHand(w) \in Rapp
    /\ pass[w].project \in projects
    /\ placeholders' = [placeholders EXCEPT ![InHand(w)] = @ + 1]
    /\ Committed(w, "asset", "ok")
    /\ UNCHANGED <<projects, enqueued, created, copies, marks, stranded, crashes>>

(* A file's metadata is read anew in each pass: what was rejected once may *)
(* have been corrected.                                                    *)
AttachAsset(w) ==
    /\ pass[w].stage = "asset"
    /\ pass[w].project \in projects
    /\ placeholders' = [placeholders EXCEPT ![InHand(w)] = @ - 1]
    /\ copies' = [copies EXCEPT ![InHand(w)] = @ + 1]
    /\ Committed(w, "mark", "ok")
    /\ UNCHANGED <<projects, enqueued, created, marks, stranded, crashes>>

(* Mutant: the placeholder stays.                                          *)
AssetFailsKept(w) ==
    /\ pass[w].stage = "asset"
    /\ pass[w].project \in projects
    /\ Committed(w, "mark", "bad")
    /\ UNCHANGED <<projects, enqueued, created, map, crashes>>

(* Without its asset the placeholder is deleted again.                     *)
AssetFails(w) ==
    /\ pass[w].stage = "asset"
    /\ pass[w].project \in projects
    /\ placeholders' = [placeholders EXCEPT ![InHand(w)] = @ - 1]
    /\ Committed(w, "mark", "bad")
    /\ UNCHANGED <<projects, enqueued, created, copies, marks, stranded, crashes>>

(* Mutant: the mark is built but never added to the session.               *)
MarkLost(w) ==
    /\ pass[w].stage = "mark"
    /\ pass[w].project \in projects
    /\ pass[w].unsaved => InHand(w) \notin Poison
    /\ copies' = IF pass[w].unsaved THEN [copies EXCEPT ![InHand(w)] = @ + 1] ELSE copies
    /\ pass' = [pass EXCEPT ![w].stage = "files", ![w].file = NoFile, ![w].outcome = "ok",
                            ![w].unsaved = FALSE, ![w].expired = TRUE]
    /\ UNCHANGED <<projects, enqueued, created, placeholders, marks, stranded, crashes>>

(* The mark's commit saves what a failed conversion left in the session.   *)
Mark(w) ==
    /\ pass[w].stage = "mark"
    /\ pass[w].project \in projects
    /\ pass[w].unsaved => InHand(w) \notin Poison
    /\ marks' = [marks EXCEPT ![InHand(w)][pass[w].outcome] = @ + 1]
    /\ copies' = IF pass[w].unsaved THEN [copies EXCEPT ![InHand(w)] = @ + 1] ELSE copies
    /\ pass' = [pass EXCEPT ![w].stage = "files", ![w].file = NoFile, ![w].outcome = "ok",
                            ![w].unsaved = FALSE, ![w].expired = TRUE]
    /\ UNCHANGED <<projects, enqueued, created, placeholders, stranded, crashes>>

(* The database rejects the flush, for a feature it cannot store or a      *)
(* project that is gone.  The session is unusable until it is rolled back, *)
(* so the handlers' own reads of user.jwt and project.id raise in turn and *)
(* the whole task ends.  (A RApp file's first flush holds no metadata yet.) *)
FlushFails(w) ==
    /\ \/ pass[w].stage \in {"file", "asset", "mark"} /\ pass[w].project \notin projects
       \/ pass[w].stage = "file" /\ InHand(w) \in Poison \ Rapp
       \/ pass[w].stage = "mark" /\ pass[w].unsaved /\ InHand(w) \in Poison
    /\ Ends(w)

(* The asset's commit is the first to flush the metadata of a RApp file.   *)
(* When the database rejects it, the removal of the placeholder finds the  *)
(* session unusable as well: the task ends with the placeholder on the map *)
(* and no mark.                                                            *)
MetadataRejected(w) ==
    /\ pass[w].stage = "asset"
    /\ InHand(w) \in Poison
    /\ pass[w].project \in projects
    /\ stranded[InHand(w)] < MaxStranded
    /\ stranded' = [stranded EXCEPT ![InHand(w)] = @ + 1]
    /\ pass' = [pass EXCEPT ![w] = Idle]
    /\ UNCHANGED <<projects, enqueued, created, copies, placeholders, marks, crashes>>

-----------------------------------------------------------------------------
(***************************************************************************)
(* What goes on meanwhile.                                                 *)
(***************************************************************************)
(* The project is committed before the broker takes, or refuses, its       *)
(* import.                                                                 *)
CreateProject(p) ==
    /\ p \notin created
    /\ created' = created \cup {p}
    /\ projects' = projects \cup {p}
    /\ enqueued' \in {enqueued, enqueued \cup {p}}
    /\ UNCHANGED <<map, pass, crashes>>

DeleteFeature(f) ==
    /\ MayDelete
    /\ copies[f] > 0
    /\ copies' = [copies EXCEPT ![f] = @ - 1]
    /\ UNCHANGED <<projects, enqueued, created, placeholders, marks, stranded, pass, crashes>>

(* Features and marks go with their project.                               *)
DeleteProject(p) ==
    /\ MayDelete
    /\ p \in projects
    /\ projects' = projects \ {p}
    /\ copies' = [f \in Files |-> IF Owner[f] = p THEN 0 ELSE copies[f]]
    /\ placeholders' = [f \in Files |-> IF Owner[f] = p THEN 0 ELSE placeholders[f]]
    /\ marks' = [f \in Files |-> IF Owner[f] = p THEN [o \in Outcome |-> 0] ELSE marks[f]]
    /\ stranded' = [f \in Files |-> IF Owner[f] = p THEN 0 ELSE stranded[f]]
    /\ UNCHANGED <<enqueued, created, pass, crashes>>

WorkerDies(w) ==
    /\ crashes < MaxCrashes
    /\ pass[w].stage # "idle"
    /\ crashes' = crashes + 1
    /\ pass' = [pass EXCEPT ![w] = Idle]
    /\ UNCHANGED <<projects, enqueued, created, map>>
-----------------------------------------------------------------------------
FileStep(w) ==
    \/ SkipFile(w)    \/ FetchFails(w)  \/ ConvertFails(w) \/ SaveFeatures(w)
    \/ PlaceFeature(w) \/ AttachAsset(w) \/ AssetFails(w)
    \/ Mark(w)        \/ FlushFails(w)  \/ MetadataRejected(w)

PassStep(w) ==
    \/ \E p \in Projects : Visit(w, p) \/ PassOver(w, p) \/ ProjectVanished(w, p)
    \/ List(w)
    \/ \E f \in Files : Check(w, f)
    \/ FileStep(w)
    \/ ProjectFails(w)
    \/ ProjectDone(w)
    \/ EndPass(w)

Starts(w) == StartHourly(w) \/ \E p \in Projects : StartSingle(w, p)

Outside == \/ \E p \in Projects : CreateProject(p) \/ DeleteProject(p)
           \/ \E f \in Files : DeleteFeature(f)

Next == \/ \E w \in Workers : Starts(w) \/ PassStep(w) \/ WorkerDies(w)
        \/ Outside

Spec == Init /\ [][Next]_vars

(* Beat schedules a pass every hour, workers keep running, and again and   *)
(* again a project has a user with a token, its directory can be listed in *)
(* full and the listing reaches each of its files.                         *)
Recurring ==
    \A w \in Workers :
        /\ WF_vars(PassStep(w))
        /\ WF_vars(StartHourly(w))
        /\ \A p \in Projects : SF_vars(Visit(w, p)) /\ SF_vars(ListedInFull(w, p))
        /\ \A f \in Files : SF_vars(Check(w, f))

FairSpec == Spec /\ Recurring
-----------------------------------------------------------------------------
(***************************************************************************)
(* Properties                                                              *)
(***************************************************************************)
IsPlacing(state, f) == state.file = f /\ state.stage = "asset"

IsOwed(state, f) ==
    /\ state.file = f
    /\ state.stage = "asset" \/ (state.stage = "mark" /\ state.outcome = "ok")

Placing(f) == {w \in Workers : IsPlacing(pass[w], f)}
Owed(f)    == {w \in Workers : IsOwed(pass[w], f)}

(* Rows no pass will attend to again: a worker died over them, or the      *)
(* database rejected the metadata they were to get.                        *)
Excused(f) == crashes + IF f \in Rapp \cap Poison THEN stranded[f] ELSE 0

(* Every feature made from a file, with or without its asset, is accounted *)
(* for: by a mark, by a worker that is about to write one, by a worker     *)
(* that died in between, or by a commit in which the database rejected the *)
(* file's metadata.  No other error path leaves an unexplained one         *)
(* (import_files_recursively_from_path).                                   *)
FeaturesAccounted ==
    \A f \in Files :
        copies[f] + placeholders[f] <=
            marks[f]["ok"] + marks[f]["bad"] + Cardinality(Owed(f)) + Excused(f)

(* RApp features without their asset belong to a pass that is just about   *)
(* to attach it, to a worker that died doing so, or to one whose commit of *)
(* their metadata the database rejected.                                   *)
PlaceholdersExplained ==
    \A f \in Files : placeholders[f] <= Cardinality(Placing(f)) + Excused(f)

InFile == {"file", "asset", "mark"}

(* A pass lets go of a file only when the file is marked, whatever the     *)
(* download, the conversion and the commits did; else the file is skipped  *)
(* for want of a location before any of it is on the map, its project is   *)
(* gone, the worker died, or the database rejects what the file holds      *)
(* (import_files_recursively_from_path).                                   *)
LetsGoMarked ==
    [][\A w \in Workers : pass[w].stage \in InFile /\ pass'[w].stage \notin InFile =>
           \/ \E o \in Outcome : marks'[InHand(w)][o] > 0
           \/ pass[w].stage = "file" /\ InHand(w) \in Rapp
           \/ Owner[InHand(w)] \notin projects
           \/ InHand(w) \in Poison
           \/ crashes' # crashes]_vars

Settled == {f \in Files : Marked(f)}

Catalog == INSTANCE MapCatalog WITH settled <- Settled

(* When passes do not overlap and no worker dies, importing implements     *)
(* MapCatalog: each file is put on the map at most once and, once marked,  *)
(* never again, whatever fails and whatever users delete.  A placeholder   *)
(* is no copy of its file yet.                                             *)
ImportsOnce == Catalog!Spec

(* Every file of a watching project is settled in the end, if passes come  *)
(* to it again and again (Recurring), as they cannot when each one ends at *)
(* a rejected file before it; except for RApp files, skipped as long as    *)
(* they have no location, and for files the database cannot store.         *)
FilesSettled ==
    \A f \in Files \ (Rapp \cup Poison) :
        Owner[f] \in projects ~> Marked(f) \/ Owner[f] \notin projects

(* Claims the code does not keep.                                          *)

(* "remove newly-created placeholder feature if we fail to create an asset" *)
PlaceholderRemoved ==
    \A f \in Files : placeholders[f] <= Cardinality(Placing(f)) + crashes

(* "If file has already been imported (i.e. during a previous call), we    *)
(* don't re-import it."                                                    *)
NoReimport == \A f \in Files : marks[f]["ok"] <= 1

(* A failed import leaves no features behind.                              *)
FailureLeavesNothing ==
    \A f \in Files : marks[f]["bad"] > 0 /\ marks[f]["ok"] = 0 => copies[f] = 0

(* A failure while importing for one project does not keep the pass from   *)
(* going on with the others.                                               *)
PassGoesOn ==
    [][\A w \in Workers : pass[w].stage # "idle" /\ pass'[w].stage = "idle"
                            => pass[w].queue = {} \/ crashes' # crashes]_vars
=============================================================================
