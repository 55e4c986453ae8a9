------------------------- MODULE MCFileLocationCheck -------------------------
(* Small instances of FileLocationCheck.                                   *)
EXTENDS FileLocationCheck, TLC

CONSTANTS a1, t1, home   \* a feature asset, a tile server, a private system

MCItems   == {a1, t1}
MCTiles   == {t1}
OneItem   == {a1}
NoTiles   == {}
MCSystems == {home}

fresh == [orig |-> home, named |-> TRUE, sys |-> NoSystem, path |-> "none", flag |-> "unset"]

(* Imported features (current location unset), rasters and point clouds    *)
(* (current location copied), files imported from a public system.         *)
ImportedRows ==
    {fresh,
     [fresh EXCEPT !.sys = home, !.path = "original"],
     [fresh EXCEPT !.orig = Public]}

(* Legacy rows: no original_system, and point clouds with no path either.  *)
LegacyRows ==
    {[fresh EXCEPT !.orig = NoSystem],
     [fresh EXCEPT !.orig = NoSystem, !.named = FALSE]}

AllRows == ImportedRows \cup LegacyRows
OneRow  == {fresh}

(* POSTs are interchangeable; used where only safety is checked.           *)
RequestSymmetry == Permutations(Requests)
=============================================================================
