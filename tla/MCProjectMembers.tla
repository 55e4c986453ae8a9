--------------------------- MODULE MCProjectMembers ---------------------------
(* Small instances of ProjectMembers.                                      *)
EXTENDS ProjectMembers
=============================================================================
