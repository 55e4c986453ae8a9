------------------------- MODULE MCStreetviewAccess -------------------------
(* A small instance of StreetviewAccess.                                   *)
EXTENDS StreetviewAccess
=============================================================================
