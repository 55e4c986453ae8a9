----------------------------- MODULE MCTileLayers -----------------------------
(* Small instances of TileLayers.                                          *)
EXTENDS TileLayers
=============================================================================
