--------------------------- MODULE MCStaticTrack ----------------------------
(* TLC instance of StaticTrack: a buffer of two frames, with one loop over *)
(* each of them, one of two turns and one without end.                     *)
EXTENDS StaticTrack

MCLoops == {[start |-> 0, end |-> 1, count |-> 2],
            [start |-> 1, end |-> 2, count |-> -1], NoLoop}
=============================================================================
