-------------------------- MODULE MCUpdateTracking --------------------------
(* Small instances of UpdateTracking: a screen of one row of pixels. *)
EXTENDS UpdateTracking, FiniteSetsExt

Row == 0 .. 1
Span(region) == IF region = {} THEN {} ELSE Min(region) .. Max(region)

WholeRow == {Row}
WholeOrPart == {Row, {0}}
Pieces == {{0}, {1}, Row}
Either == {-1, 1}
Either0 == -1 .. 1
=============================================================================
