---------------------------- MODULE MCImportWatch ----------------------------
(* Small instances of ImportWatch.                                         *)
EXTENDS ImportWatch, TLC

CONSTANTS p1, p2, plain, many, photo

TwoFiles   == {many, photo}
ThreeFiles == {plain, many, photo}
PlainFiles == {plain, many}

(* One project's directory, or one file of a second project.               *)
OwnTwo == [f \in TwoFiles |-> p1]
OwnAll == [f \in ThreeFiles |-> IF f = plain THEN p2 ELSE p1]
OwnBoth == [f \in PlainFiles |-> IF f = plain THEN p2 ELSE p1]

(* Workers are interchangeable.                                            *)
WorkerSymmetry == Permutations(Workers)
=============================================================================
