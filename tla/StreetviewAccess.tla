--------------------------- MODULE StreetviewAccess ---------------------------
(***************************************************************************)
(* A user's access to Mapillary: the row with the token, which requests    *)
(* look up, nullify once expired, replace and delete, with the uploads it  *)
(* owns; and the conversions of an uploaded sequence to a feature of a map *)
(* project by Celery tasks.                                                *)
(***************************************************************************)
EXTENDS Integers, FiniteSets

CONSTANTS Visits,       \* requests about the access, each made once
          Conversions,  \* requests to convert the sequence, each made once
          Old,          \* the row at the start, which owns the sequence
          Nothing,      \* no row, no conversion
          MaxUpsets     \* bound on deletions by users, processes that die
                        \* and messages that the broker refuses

ASSUME ConstantsAssumption ==
    /\ IsFiniteSet(Visits) /\ Old \notin Visits
    /\ Nothing \notin Visits \cup Conversions \cup {Old}
    /\ MaxUpsets \in Nat

Rows == Visits \cup {Old}

VARIABLES
    rows,       \* streetview: rows of the user for the service mapillary
    token,      \* the token of each row
    visit,      \* local state of each visit
    late,       \* visits that looked while another one was on its way
    sequence,   \* the uploaded sequence: whether it is there, its task
    conv,       \* local state of each conversion
    task,       \* the status of each conversion's Task
    onmap,      \* conversions whose feature is on the map
    project,    \* whether the map project is there
    upsets

access == <<rows, token, visit, late>>
converting == <<conv, task, onmap, project>>
vars == <<access, sequence, converting, upsets>>
-----------------------------------------------------------------------------
(* live: expires some day; pasted: given without a date, never expires.    *)
(* bare: the row had no token when it was read, or has been nullified.     *)
Tokens == {"none", "live", "expired", "pasted"}

Kinds == {"read", "login", "create", "update", "logout", "delete"}

TypeOK ==
    /\ rows \subseteq Rows
    /\ token \in [Rows -> Tokens]
    /\ visit \in [Visits -> [stage : {"idle", "nullify", "act", "drop", "insert", "done", "failed"},
                             kind : Kinds, row : Rows \cup {Nothing},
                            bare : BOOLEAN, stale : BOOLEAN]]
    /\ late \subseteq Visits
    /\ sequence \in [there : BOOLEAN, task : Conversions \cup {Nothing}]
    /\ conv \in [Conversions -> [stage : {"idle", "stored", "queued", "calls",
                                          "failing", "done", "failed", "lost"},
                                 reports : Conversions \cup {Nothing}]]
    /\ task \in [Conversions -> {"none", "RUNNING", "COMPLETED", "FAILED"}]
    /\ onmap \subseteq Conversions
    /\ project \in BOOLEAN
    /\ upsets \in 0 .. MaxUpsets

(* A visit that holds nothing it has read.                                 *)
At(stage) == [stage |-> stage, kind |-> "read", row |-> Nothing, bare |-> FALSE, stale |-> FALSE]

Init ==
    /\ rows = {Old}
    /\ token = [r \in Rows |-> IF r = Old THEN "live" ELSE "none"]
    /\ visit = [v \in Visits |-> At("idle")]
    /\ late = {}
    /\ sequence = [there |-> TRUE, task |-> Nothing]
    /\ conv = [c \in Conversions |-> [stage |-> "idle", reports |-> Nothing]]
    /\ task = [c \in Conversions |-> "none"]
    /\ onmap = {}
    /\ project = TRUE
    /\ upsets = 0

Pending == {v \in Visits : visit[v].stage \in {"nullify", "act", "drop", "insert"}}

Upset == upsets < MaxUpsets /\ upsets' = upsets + 1

(* A visit takes a step; whoever else has read the row written is stale.   *)
Goes(v, stage, written) ==
    visit' = [w \in Visits |->
                IF w = v THEN IF stage \in {"done", "failed"} THEN At(stage)
                              ELSE [visit[v] EXCEPT !.stage = stage]
                ELSE [visit[w] EXCEPT !.stale = @ \/ (w \in Pending /\ visit[w].row \in written)]]
-----------------------------------------------------------------------------
(* Mutant: a token is nullified whatever its date.                         *)
LookUndated(v, kind) ==
    /\ visit[v].stage = "idle"
    /\ \/ /\ rows = {}
          /\ visit' = [visit EXCEPT ![v] = [At("act") EXCEPT !.kind = kind]]
       \/ \E r \in rows :
            visit' = [visit EXCEPT ![v] =
                        [stage |-> IF token[r] # "none" THEN "nullify" ELSE "act",
                         kind |-> kind, row |-> r, bare |-> token[r] \in {"none", "expired"},
                         stale |-> FALSE]]
    /\ late' = IF Pending = {} THEN late ELSE late \cup {v}
    /\ UNCHANGED <<rows, token, sequence, converting, upsets>>

(***************************************************************************)
(* getByService: the first row the database returns; an expired token is   *)
(* nullified in a commit of its own.  Every kind of visit begins with it.  *)
(***************************************************************************)
Look(v, kind) ==
    /\ visit[v].stage = "idle"
    /\ \/ /\ rows = {}
          /\ visit' = [visit EXCEPT ![v] = [At("act") EXCEPT !.kind = kind]]
       \/ \E r \in rows :
            visit' = [visit EXCEPT ![v] =
                        [stage |-> IF token[r] = "expired" THEN "nullify" ELSE "act",
                         kind |-> kind, row |-> r, bare |-> token[r] \in {"none", "expired"},
                         stale |-> FALSE]]
    /\ late' = IF Pending = {} THEN late ELSE late \cup {v}
    /\ UNCHANGED <<rows, token, sequence, converting, upsets>>

(* The UPDATE is blind: it takes away what was stored since the look.      *)
Nullify(v) ==
    /\ visit[v].stage = "nullify"
    /\ visit[v].row \in rows
    /\ token' = [token EXCEPT ![visit[v].row] = "none"]
    /\ Goes(v, "act", {visit[v].row})
    /\ UNCHANGED <<rows, late, sequence, converting, upsets>>

Read(v) ==
    /\ visit[v].stage = "act" /\ visit[v].kind = "read"
    /\ Goes(v, "done", {})
    /\ UNCHANGED <<rows, token, late, sequence, converting, upsets>>

(* The row that was read is written, and still there.                      *)
Writes(v, new) ==
    /\ visit[v].row \in rows
    /\ token' = [token EXCEPT ![visit[v].row] = new]
    /\ Goes(v, "done", {visit[v].row})
    /\ UNCHANGED <<rows, late, sequence, converting, upsets>>

(* A row of the visit's own.                                               *)
Inserts(v, new) ==
    /\ rows' = rows \cup {v}
    /\ token' = [token EXCEPT ![v] = new]
    /\ Goes(v, "done", {})
    /\ UNCHANGED <<late, sequence, converting, upsets>>

(* mapillary_callback, once Mapillary has given a token.                   *)
StoreLogin(v) ==
    /\ visit[v].stage = "act" /\ visit[v].kind = "login"
    /\ \/ Writes(v, "live")
       \/ visit[v].row = Nothing /\ Inserts(v, "live")

(* A token pasted over one with a date inherits the date.                  *)
Update(v) ==
    /\ visit[v].stage = "act" /\ visit[v].kind = "update"
    /\ visit[v].row # Nothing
    /\ Writes(v, IF token[visit[v].row] = "none" THEN "pasted" ELSE token[visit[v].row])

(* A row read without a token is not written: nothing changes in it.       *)
Logout(v) ==
    /\ visit[v].stage = "act" /\ visit[v].kind = "logout"
    /\ \/ ~visit[v].bare /\ Writes(v, "none")
       \/ /\ visit[v].bare \/ visit[v].row = Nothing
          /\ Goes(v, "done", {})
          /\ UNCHANGED <<rows, token, late, sequence, converting, upsets>>

(* Mutant: create trusts in there being no row.                            *)
ReplaceUnlooked(v) ==
    /\ visit[v].stage = "act" /\ visit[v].kind = "create"
    /\ Goes(v, "insert", {})
    /\ UNCHANGED <<rows, token, late, sequence, converting, upsets>>

(* create: deleteByService looks again for the row to delete.              *)
Replace(v) ==
    /\ visit[v].stage = "act" /\ visit[v].kind = "create"
    /\ IF visit[v].row = Nothing
         THEN Goes(v, "insert", {})
         ELSE \/ /\ rows = {}
                 /\ Goes(v, "failed", {})
              \/ \E r \in rows :
                    visit' = [visit EXCEPT ![v].stage = "drop", ![v].row = r]
    /\ UNCHANGED <<rows, token, late, sequence, converting, upsets>>

(* Deleting the row deletes its instances and their sequences.             *)
Drop(v) ==
    /\ \/ visit[v].stage = "drop"
       \/ visit[v].stage = "act" /\ visit[v].kind = "delete" /\ visit[v].row # Nothing
    /\ rows' = rows \ {visit[v].row}
    /\ token' = [token EXCEPT ![visit[v].row] = "none"]
    /\ sequence' = [sequence EXCEPT !.there = @ /\ visit[v].row # Old]
    /\ Goes(v, IF visit[v].stage = "drop" THEN "insert" ELSE "done", {visit[v].row})
    /\ UNCHANGED <<late, converting, upsets>>

Create(v) ==
    /\ visit[v].stage = "insert"
    /\ \E new \in {"none", "pasted"} : Inserts(v, new)

(* The row that was read is gone, or there was none to work on: the        *)
(* request ends with an error.                                             *)
VisitFails(v) ==
    /\ \/ visit[v].stage = "nullify" /\ visit[v].row \notin rows
       \/ /\ visit[v].stage = "act" /\ visit[v].kind \in {"login", "update", "logout"}
          /\ visit[v].row \notin rows \cup {Nothing}
          /\ ~(visit[v].kind = "logout" /\ visit[v].bare)
       \/ visit[v].stage = "act" /\ visit[v].kind \in {"update", "delete"} /\ visit[v].row = Nothing
    /\ Goes(v, "failed", {})
    /\ UNCHANGED <<rows, token, late, sequence, converting, upsets>>

TokenExpires(r) ==
    /\ r \in rows /\ token[r] = "live"
    /\ token' = [token EXCEPT ![r] = "expired"]
    /\ UNCHANGED <<rows, visit, late, sequence, converting, upsets>>

Visiting(v) ==
    \/ \E kind \in Kinds : Look(v, kind)
    \/ Nullify(v) \/ Read(v) \/ StoreLogin(v) \/ Update(v) \/ Logout(v)
    \/ Replace(v) \/ Drop(v) \/ Create(v) \/ VisitFails(v)
-----------------------------------------------------------------------------
(***************************************************************************)
(* process_streetview_sequences in a request, and                          *)
(* convert_streetview_sequence_to_feature in a worker.                     *)
(***************************************************************************)
Converts(c, stage) ==
    conv' = [conv EXCEPT ![c].stage = stage,
                         ![c].reports = IF stage \in {"failed", "lost"} THEN Nothing ELSE @]

(* The sequence's Task is replaced, whatever it is doing.                  *)
StoreTask(c) ==
    /\ conv[c].stage = "idle"
    /\ project /\ sequence.there
    /\ sequence' = [sequence EXCEPT !.task = c]
    /\ task' = [task EXCEPT ![c] = "RUNNING"]
    /\ Converts(c, "stored")
    /\ UNCHANGED <<access, onmap, project, upsets>>

(* The broker may refuse: the Task stays as it was committed.              *)
Publish(c) ==
    /\ conv[c].stage = "stored"
    /\ \/ Converts(c, "queued") /\ UNCHANGED upsets
       \/ Upset /\ Converts(c, "lost")
    /\ UNCHANGED <<access, sequence, task, onmap, project>>

(* The Task to report on is the sequence's at this moment.                 *)
LoadSequence(c) ==
    /\ conv[c].stage = "queued"
    /\ conv' = [conv EXCEPT ![c].stage = IF sequence.there THEN "calls" ELSE "failing",
                            ![c].reports = IF sequence.there THEN sequence.task ELSE Nothing]
    /\ UNCHANGED <<access, sequence, task, onmap, project, upsets>>

MapillaryFails(c) ==
    /\ conv[c].stage = "calls"
    /\ Converts(c, "failing")
    /\ UNCHANGED <<access, sequence, task, onmap, project, upsets>>

(* Feature, asset and status in one commit, which needs the project and    *)
(* the sequence.                                                           *)
CommitFeature(c) ==
    /\ conv[c].stage = "calls"
    /\ IF project /\ sequence.there
         THEN /\ onmap' = onmap \cup {c}
              /\ task' = [task EXCEPT ![conv[c].reports] = "COMPLETED"]
              /\ Converts(c, "done")
         ELSE /\ Converts(c, "failing")
              /\ UNCHANGED <<onmap, task>>
    /\ UNCHANGED <<access, sequence, project, upsets>>

(* Mutant: the failed Task is the one the sequence has.                    *)
FailReported(c) ==
    /\ conv[c].stage = "failing"
    /\ task' = IF conv[c].reports = Nothing THEN task
               ELSE [task EXCEPT ![conv[c].reports] = "FAILED"]
    /\ Converts(c, "failed")
    /\ UNCHANGED <<access, sequence, onmap, project, upsets>>

(* on_failure finds the Task by the id of the Celery task.                 *)
OnFailure(c) ==
    /\ conv[c].stage = "failing"
    /\ task' = [task EXCEPT ![c] = "FAILED"]
    /\ Converts(c, "failed")
    /\ UNCHANGED <<access, sequence, onmap, project, upsets>>

ConverterDies(c) ==
    /\ conv[c].stage \in {"stored", "calls", "failing"}
    /\ Upset
    /\ Converts(c, "lost")
    /\ UNCHANGED <<access, sequence, task, onmap, project>>

Converting(c) ==
    \/ Publish(c) \/ LoadSequence(c) \/ MapillaryFails(c)
    \/ CommitFeature(c) \/ OnFailure(c)

(* A user deletes the sequence, or the instance it belongs to.             *)
DeleteSequence ==
    /\ sequence.there /\ Upset
    /\ sequence' = [sequence EXCEPT !.there = FALSE]
    /\ UNCHANGED <<access, converting>>

DeleteFeature(c) ==
    /\ c \in onmap /\ Upset
    /\ onmap' = onmap \ {c}
    /\ UNCHANGED <<access, sequence, conv, task, project>>

DeleteProject ==
    /\ project /\ Upset
    /\ project' = FALSE
    /\ onmap' = {}
    /\ UNCHANGED <<access, sequence, conv, task>>
-----------------------------------------------------------------------------
Next ==
    \/ \E v \in Visits : Visiting(v)
    \/ \E r \in Rows : TokenExpires(r)
    \/ \E c \in Conversions : StoreTask(c) \/ Converting(c) \/ ConverterDies(c) \/ DeleteFeature(c)
    \/ DeleteSequence \/ DeleteProject

Spec == Init /\ [][Next]_vars

(* Handlers and workers that are not killed go on.                         *)
FairSpec == Spec /\ \A c \in Conversions : WF_vars(Converting(c))
-----------------------------------------------------------------------------
(***************************************************************************)
(* Properties                                                              *)
(***************************************************************************)

(* A user has one row, and only visits that overlapped another one add to  *)
(* it: nothing but the look before the insert keeps a second row out       *)
(* (services/streetview.py, create; mapillary_callback).                   *)
AccessIsSingle == Cardinality(rows) <= 1 + Cardinality(late)

(* A Task is RUNNING while its conversion is on its way, for ever if that  *)
(* was lost or reported on another Task, COMPLETED if some conversion that *)
(* reports on it has finished, FAILED if its own has failed; a feature on  *)
(* the map is that of a finished conversion, whose Task tells the end      *)
(* (tasks/streetview.py, convert_streetview_sequence_to_feature).          *)
TaskTellsConversion ==
    \A c \in Conversions :
        /\ task[c] = "RUNNING" =>
              \/ conv[c].stage \notin {"idle", "failed", "done"}
              \/ conv[c].stage = "done" /\ conv[c].reports # c
        /\ task[c] = "COMPLETED" =>
              \E d \in Conversions : conv[d].stage = "done" /\ conv[d].reports = c
        /\ task[c] = "FAILED" => conv[c].stage = "failed"
        /\ c \in onmap =>
              project /\ conv[c].stage = "done" /\ task[conv[c].reports] \in {"COMPLETED", "FAILED"}

StreetviewConsistent == TypeOK /\ AccessIsSingle /\ TaskTellsConversion

(* Whoever only asks for the row takes no token away but an expired one,   *)
(* unless the row was written after it was read (nullify_expired_tokens).  *)
ReadersSpareTokens ==
    [][\A v \in Visits : \A r \in Rows :
           visit'[v].stage # visit[v].stage /\ visit[v].kind = "read" /\ ~visit[v].stale
           /\ r \in rows /\ token[r] # "none" => token'[r] # "none" \/ token[r] = "expired"]_vars

(* A conversion's Task does not stay RUNNING, unless its message or its    *)
(* worker was lost or another Task had taken its place before it began.    *)
ConversionsSettle ==
    \A c \in Conversions :
        task[c] = "RUNNING" ~> \/ task[c] # "RUNNING" \/ conv[c].stage = "lost"
                               \/ conv[c].stage = "done" /\ conv[c].reports # c

(* Claims the code does not keep.                                          *)

(* "Finished streetview sequence processing task": a Task marked COMPLETED *)
(* belongs to a conversion that has run.                                   *)
CompletedHasRun ==
    \A c \in Conversions : task[c] = "COMPLETED" => conv[c].stage \notin {"stored", "queued"}
=============================================================================
