--------------------------- MODULE MCFlowControl ---------------------------
(* Small instances of FlowControl, with a window of a few bytes: the        *)
(* configurations give every constant its value.                            *)
EXTENDS FlowControl
=============================================================================
