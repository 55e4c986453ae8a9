--------------------------- MODULE MCProjectCatalog ---------------------------
(* Small instances of ProjectCatalog: two maps that watch one directory of *)
(* a DesignSafe project, or one of them is elsewhere.                      *)
EXTENDS ProjectCatalog

CONSTANTS home, away, dir, den

TwoSpots == {home, away}

TwoDirs == [s \in TwoSpots |-> IF s = home THEN dir ELSE den]

CONSTANTS m1, m2

Asked == {[m \in Maps |-> [spot |-> home, watch |-> TRUE]],
          [m \in Maps |-> IF m = m1 THEN [spot |-> home, watch |-> TRUE]
                                    ELSE [spot |-> away, watch |-> FALSE]]}
=============================================================================
