------------------------ MODULE MCPointCloudProcessing ------------------------
(* Small instances of PointCloudProcessing.                                *)
EXTENDS PointCloudProcessing

CONSTANTS f1, f2, p1, p2, las

(* Files of different directories may share their base name.               *)
SameName == [f \in Files |-> las]
OwnName == [f \in Files |-> f]
=============================================================================
