------------------------- MODULE MCCongestionWindow -------------------------
(* The real windows, in units of 1 KB. *)
EXTENDS CongestionWindow

Word22 == 2 ^ 22
=============================================================================
