------------------------------ MODULE MapCatalog ------------------------------
(***************************************************************************)
(* What importing watched content promises, told without passes, rows or   *)
(* commits: a file is put on the map at most once, and once the catalogue  *)
(* has settled on a file nothing of it is put there again, whatever users  *)
(* delete meanwhile.                                                        *)
(***************************************************************************)
EXTENDS Integers

CONSTANTS Files,      \* the files of all watched directories
          Projects,   \* the map projects
          Owner       \* the project whose directory holds a file

VARIABLES copies,     \* how often each file's content is on the map
          settled     \* files that will not be tried again

catalog == <<copies, settled>>

Init == copies = [f \in Files |-> 0] /\ settled = {}

Show(f) ==
    /\ f \notin settled
    /\ copies[f] = 0
    /\ copies' = [copies EXCEPT ![f] = 1]
    /\ UNCHANGED settled

(* Settling may put part of a file on the map (an import that failed half  *)
(* way), but only if nothing of it is there.                               *)
Settle(f) ==
    /\ f \notin settled
    /\ settled' = settled \cup {f}
    /\ \/ UNCHANGED copies
       \/ copies[f] = 0 /\ copies' = [copies EXCEPT ![f] = 1]

Hide(f) ==
    /\ copies[f] > 0
    /\ copies' = [copies EXCEPT ![f] = @ - 1]
    /\ UNCHANGED settled

(* The project is deleted with all it has.                                 *)
Forget(p) ==
    /\ copies' = [f \in Files |-> IF Owner[f] = p THEN 0 ELSE copies[f]]
    /\ settled' = {f \in settled : Owner[f] # p}

Next == \/ \E f \in Files : Show(f) \/ Settle(f) \/ Hide(f)
        \/ \E p \in Projects : Forget(p)

Spec == Init /\ [][Next]_catalog
=============================================================================
