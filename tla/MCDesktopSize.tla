---------------------------- MODULE MCDesktopSize ----------------------------
(* One viewer and up to two outputs: what other viewers do to the layout, X  *)
(* clients do as well.                                                       *)
EXTENDS DesktopSize

G(x, w) == [x |-> x, w |-> w]

TwoScreens == { << G(0, 1) >>, << G(0, 1), G(1, 2) >> }

OneRandomID == << 3 >>

SomeExtension == { {"eds"}, {"ds"} }

\* What an X client sets the outputs to.
Narrow == { Off, G(0, 1) }

=============================================================================
