----------------------------- MODULE MCMapAssets -----------------------------
(* Small instances of MapAssets.                                           *)
EXTENDS MapAssets
=============================================================================
