---------------------------- MODULE ProjectCatalog ----------------------------
(***************************************************************************)
(* Making and deleting map projects: the rows in the database, and the     *)
(* two traces a map leaves outside, a .hazmapper file in the user's        *)
(* directory and an entry in the list hazmapperMaps of its DesignSafe      *)
(* project, which is read, changed and written back by HTTP calls.         *)
(***************************************************************************)
EXTENDS Integers, FiniteSets

CONSTANTS Maps,         \* the map projects that may come to be
          Spots,        \* directory and name: where a .hazmapper file goes
          DirOf,        \* the directory of a spot
          Asks,         \* what may be asked of the maps: spot, watch_content
          Designsafe,   \* directories that belong to the DesignSafe project
          Nobody,       \* no map
          MaxFailures   \* bound on failed remote calls and dead processes

ASSUME ConstantsAssumption ==
    /\ IsFiniteSet(Maps) /\ Nobody \notin Maps
    /\ DirOf \in [Spots -> {DirOf[s] : s \in Spots}]
    /\ Asks \subseteq [Maps -> [spot : Spots, watch : BOOLEAN]]
    /\ MaxFailures \in Nat

Requests == {"create", "delete"} \X Maps

VARIABLES
    rows,       \* the maps with a row in projects
    wanted,     \* what is asked of each map
    marker,     \* which map the .hazmapper file of a spot names
    listed,     \* hazmapperMaps: the maps the DesignSafe project lists
    at,         \* how far each request is
    copy,       \* hazmapperMaps as each request read it
    unseen,     \* for each map: those not stored yet when it was checked
    strayed,    \* maps whose entry others, or failures, made wrong
    mislaid,    \* maps whose file others, or failures, made wrong
    failures

database == <<rows, wanted, unseen>>
outside == <<marker, listed, strayed, mislaid>>
vars == <<rows, wanted, marker, listed, at, copy, unseen, strayed, mislaid, failures>>
-----------------------------------------------------------------------------
Stages == {"idle", "checked", "stored", "layers", "maps", "patch", "members",
           "enqueue", "rows", "done", "failed", "died"}

TypeOK ==
    /\ rows \subseteq Maps
    /\ wanted \in Asks
    /\ marker \in [Spots -> Maps \cup {Nobody}]
    /\ listed \subseteq Maps
    /\ at \in [Requests -> Stages]
    /\ copy \in [Requests -> SUBSET Maps]
    /\ unseen \in [Maps -> SUBSET Maps]
    /\ strayed \subseteq Maps /\ mislaid \subseteq Maps
    /\ failures \in 0 .. MaxFailures

Init ==
    /\ rows = {} /\ listed = {} 
    /\ wanted \in Asks
    /\ marker = [s \in Spots |-> Nobody]
    /\ at = [r \in Requests |-> "idle"]
    /\ copy = [r \in Requests |-> {}]
    /\ unseen = [m \in Maps |-> {}]
    /\ strayed = {} /\ mislaid = {}
    /\ failures = 0

Spot(m) == wanted[m].spot

OnDesignsafe(m) == DirOf[Spot(m)] \in Designsafe

Goes(r, stage) == at' = [at EXCEPT ![r] = stage]

Fails == failures < MaxFailures /\ failures' = failures + 1

Open(r) == at[r] \notin {"idle", "done", "failed", "died"}
-----------------------------------------------------------------------------
(***************************************************************************)
(* ProjectsService.create.  The guard reads the other maps, and the row is *)
(* added by a later statement.                                             *)
(***************************************************************************)
Watching(m) == {n \in rows : wanted[n].watch /\ DirOf[Spot(n)] = DirOf[Spot(m)]}

(* Mutant: nobody asks for the other maps.                                 *)
FreeUnchecked(m) == TRUE

Free(m) == wanted[m].watch => Watching(m) = {}

Check(m) ==
    /\ at[<<"create", m>>] = "idle"
    /\ IF Free(m)
         THEN /\ Goes(<<"create", m>>, "checked")
              /\ unseen' = [unseen EXCEPT ![m] = {n \in Maps : at[<<"create", n>>] = "checked"}]
         ELSE /\ Goes(<<"create", m>>, "failed")
              /\ UNCHANGED unseen
    /\ UNCHANGED <<rows, wanted, outside, copy, failures>>

(* The row, and the creator as its first member, who may delete the map    *)
(* from then on.                                                           *)
Store(m) ==
    /\ at[<<"create", m>>] = "checked"
    /\ rows' = rows \cup {m}
    /\ Goes(<<"create", m>>, "stored")
    /\ UNCHANGED <<wanted, unseen, outside, copy, failures>>

(* create_file: the file of this name is overwritten, whosever it is.  An  *)
(* error is only logged, and may come after the file was written.          *)
PutMarker(m) ==
    /\ at[<<"create", m>>] = "stored"
    /\ Goes(<<"create", m>>, "layers")
    /\ \/ /\ marker' = [marker EXCEPT ![Spot(m)] = m]
          /\ mislaid' = mislaid \cup ({marker[Spot(m)]} \ {Nobody})
                                \cup (IF at[<<"delete", m>>] \in {"idle", "stored"} THEN {} ELSE {m})
          /\ UNCHANGED failures
       \/ /\ Fails
          /\ mislaid' = mislaid \cup ({m, marker[Spot(m)]} \ {Nobody})
          /\ \/ marker' = [marker EXCEPT ![Spot(m)] = m]
             \/ UNCHANGED marker
    /\ UNCHANGED <<database, copy, listed, strayed>>

(* The default layers and designsafe_project_id: rows of the map.  If it   *)
(* is gone they are rejected, and the handler raises too, as the broken    *)
(* session lets it read no attribute for its log line: creation ends.      *)
AddLayers(m) ==
    /\ at[<<"create", m>>] = "layers"
    /\ \/ /\ m \in rows
          /\ Goes(<<"create", m>>, IF OnDesignsafe(m) THEN "maps" ELSE "members")
       \/ m \notin rows /\ Goes(<<"create", m>>, "failed")
    /\ UNCHANGED <<database, outside, copy, failures>>

(* The users of the DesignSafe project become members (ProjectMembers).    *)
(* Other directories have no users to ask for, and no row to write.        *)
SetMembers(m) ==
    /\ at[<<"create", m>>] = "members"
    /\ \/ /\ m \in rows \/ ~OnDesignsafe(m)
          /\ Goes(<<"create", m>>, IF wanted[m].watch THEN "enqueue" ELSE "done")
          /\ UNCHANGED failures
       \/ /\ OnDesignsafe(m) /\ m \notin rows
          /\ Goes(<<"create", m>>, "failed")
          /\ UNCHANGED failures
       \/ OnDesignsafe(m) /\ Fails /\ Goes(<<"create", m>>, "failed")
    /\ UNCHANGED <<database, outside, copy>>
-----------------------------------------------------------------------------
(***************************************************************************)
(* update_designsafe_project_hazmapper_metadata: two HTTP calls, for a map *)
(* that is made and for one that is deleted.  Errors are only logged.      *)
(***************************************************************************)
After(r) == IF r[1] = "create" THEN "members" ELSE "rows"

ReadMaps(r) ==
    /\ at[r] = "maps"
    /\ \/ /\ copy' = [copy EXCEPT ![r] = listed]
          /\ Goes(r, "patch")
          /\ UNCHANGED <<failures, strayed>>
       \/ /\ Fails
          /\ strayed' = strayed \cup {r[2]}
          /\ Goes(r, After(r))
          /\ UNCHANGED copy
    /\ UNCHANGED <<database, marker, listed, mislaid>>

(* Mutant: the new list holds this map only.                               *)
OwnEntry(r) == IF r[1] = "create" THEN {r[2]} ELSE {}

NewMaps(r) == (copy[r] \ {r[2]}) \cup (IF r[1] = "create" THEN {r[2]} ELSE {})

(* An entry that changed since it was read is changed back.  A map deleted *)
(* in the meantime is listed for good.                                     *)
Upset(r) ==
    {m \in Maps \ {r[2]} : (m \in listed) # (m \in copy[r])}
    \cup (IF r[1] = "create" /\ at[<<"delete", r[2]>>] # "idle" THEN {r[2]} ELSE {})

WriteMaps(r) ==
    /\ at[r] = "patch"
    /\ Goes(r, After(r))
    /\ copy' = [copy EXCEPT ![r] = {}]
    /\ \/ /\ listed' = NewMaps(r)
          /\ strayed' = strayed \cup Upset(r)
          /\ UNCHANGED failures
       \/ /\ Fails
          /\ strayed' = strayed \cup {r[2]} \cup Upset(r)
          /\ \/ listed' = NewMaps(r)
             \/ UNCHANGED listed
    /\ UNCHANGED <<database, marker, mislaid>>
-----------------------------------------------------------------------------
(***************************************************************************)
(* ProjectsService.delete, by who may: the traces first, then the rows,    *)
(* then a message to remove the assets.                                    *)
(***************************************************************************)
AskDelete(m) ==
    /\ at[<<"delete", m>>] = "idle"
    /\ m \in rows
    /\ Goes(<<"delete", m>>, "stored")
    /\ UNCHANGED <<database, outside, copy, failures>>

AfterMarker(m) == IF OnDesignsafe(m) THEN "maps" ELSE "rows"

(* Mutant: an error ends the request.                                      *)
Raised(m) == Goes(<<"delete", m>>, "failed")

Logged(m) == Goes(<<"delete", m>>, AfterMarker(m))

DropMarker(m) ==
    /\ at[<<"delete", m>>] = "stored"
    /\ \/ /\ Goes(<<"delete", m>>, AfterMarker(m))
          /\ marker' = [marker EXCEPT ![Spot(m)] = Nobody]
          /\ mislaid' = mislaid \cup ({marker[Spot(m)]} \ {Nobody, m})
          /\ UNCHANGED failures
       \/ /\ Fails
          /\ Logged(m)
          /\ mislaid' = mislaid \cup ({m, marker[Spot(m)]} \ {Nobody})
          /\ \/ marker' = [marker EXCEPT ![Spot(m)] = Nobody]
             \/ UNCHANGED marker
    /\ UNCHANGED <<database, listed, strayed, copy>>

DropRows(m) ==
    /\ at[<<"delete", m>>] = "rows"
    /\ rows' = rows \ {m}
    /\ Goes(<<"delete", m>>, "enqueue")
    /\ UNCHANGED <<wanted, unseen, outside, copy, failures>>

(* apply_async of the first import, or of remove_project_assets.           *)
Enqueue(r) ==
    /\ at[r] = "enqueue"
    /\ \/ Goes(r, "done") /\ UNCHANGED failures
       \/ Fails /\ Goes(r, "failed")
    /\ UNCHANGED <<database, outside, copy>>

(* The process dies in the middle of a request.                            *)
Dies(r) ==
    /\ Open(r)
    /\ Fails
    /\ Goes(r, "died")
    /\ strayed' = strayed \cup {r[2]}
    /\ mislaid' = mislaid \cup {r[2]}
    /\ copy' = [copy EXCEPT ![r] = {}]
    /\ UNCHANGED <<database, marker, listed>>
-----------------------------------------------------------------------------
Step(r) ==
    \/ ReadMaps(r) \/ WriteMaps(r) \/ Enqueue(r)
    \/ r[1] = "create" /\ (Store(r[2]) \/ PutMarker(r[2]) \/ AddLayers(r[2]) \/ SetMembers(r[2]))
    \/ r[1] = "delete" /\ (DropMarker(r[2]) \/ DropRows(r[2]))

Next ==
    \/ \E m \in Maps : Check(m) \/ AskDelete(m)
    \/ \E r \in Requests : Step(r) \/ Dies(r)

Spec == Init /\ [][Next]_vars

FairSpec == Spec /\ \A r \in Requests : WF_vars(Step(r))
-----------------------------------------------------------------------------
AtRest(m) == ~Open(<<"create", m>>) /\ ~Open(<<"delete", m>>)

(* Two maps watch the content of one directory only if one was checked     *)
(* before the other's row was added (services/projects.py, create).        *)
WatchersAreAlone ==
    \A m, n \in rows :
        /\ m # n
        /\ wanted[m].watch /\ wanted[n].watch
        /\ DirOf[Spot(m)] = DirOf[Spot(n)]
        => m \in unseen[n] \/ n \in unseen[m]

(* Once the requests on a map are over, the DesignSafe project lists it    *)
(* just when it is there, unless a call failed, its creation was overtaken *)
(* by its deletion, or another request wrote a list read too early         *)
(* (custom/designsafe/project.py).                                         *)
ListIsTrue ==
    \A m \in Maps \ strayed :
        AtRest(m) => (m \in listed <=> m \in rows /\ OnDesignsafe(m))

(* Likewise its .hazmapper file names it just when it is there, unless a   *)
(* call failed or another map was made or deleted under the same name.     *)
MarkersAreTrue ==
    \A m \in Maps \ mislaid : AtRest(m) => (marker[Spot(m)] = m <=> m \in rows)

(* A map whose deletion has come past its rows is gone for good, though    *)
(* its creation may still be on its way; one whose creation has ended well *)
(* is there until then.                                                    *)
DeletedIsGone ==
    \A m \in Maps :
        /\ at[<<"delete", m>>] \in {"enqueue", "done", "failed"} => m \notin rows
        /\ at[<<"create", m>>] = "done"
           /\ at[<<"delete", m>>] \notin {"enqueue", "done", "failed", "died"} => m \in rows

(* The three places that know of a map agree: the database, the            *)
(* DesignSafe project and the directory.                                   *)
CatalogConsistent == TypeOK /\ ListIsTrue /\ MarkersAreTrue /\ DeletedIsGone

(* A map that is asked to be deleted goes, whatever DesignSafe and Tapis   *)
(* answer to the calls made first, unless the process dies.                *)
DeletionEnds ==
    \A m \in Maps : at[<<"delete", m>>] = "stored"
                        ~> m \notin rows \/ at[<<"delete", m>>] = "died"
=============================================================================
