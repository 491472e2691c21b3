---------------------------- MODULE MCInterframe ----------------------------
(* Small instances of Interframe: a screen of one row of pixels. *)
EXTENDS Interframe, FiniteSetsExt

Row(n) == 0 .. n - 1
Row3 == Row(3)
Span(region) == IF region = {} THEN {} ELSE Min(region) .. Max(region)
Single(region) == {{p} : p \in region}
Whole3 == {Row3}
Requests3 == {Row3, {0}}
Screens3 == {Row3, Row(1)}
Ends3 == {{0}, {2}}
Two == {2}
Zero2 == {0, 2}
UntilExcused == ~excused
=============================================================================
