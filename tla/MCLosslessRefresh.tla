------------------------- MODULE MCLosslessRefresh -------------------------
(* Small instances of LosslessRefresh: a screen of one row of pixels. *)
EXTENDS LosslessRefresh, FiniteSetsExt, TLC

Row(n) == 0 .. n - 1
Row2 == Row(2)
Span(region) == IF region = {} THEN {} ELSE Min(region) .. Max(region)
One == {1}
UpTo1 == 0 .. 1
WholeOrFirst2 == {Row2, {0}}
Pieces2 == {{0}, {1}, Row2}
Permuted == Permutations(Values)
UntilExcused == ~excused
=============================================================================
