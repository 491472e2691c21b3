-------------------------- MODULE SimultaneousCopy --------------------------
(***************************************************************************)
(* What the copy part of an update promises: every pixel of the region     *)
(* takes, at once, the contents of the pixel (dx, dy) away from it.        *)
(***************************************************************************)
EXTENDS Integers

CONSTANT Screens  \* the contents a viewer's framebuffer may have

VARIABLES
  dest,     \* the pixels of the region
  shift,    \* the displacement <<dx, dy>>
  fb,       \* the viewer's framebuffer
  finished

vars == <<dest, shift, fb, finished>>

Copied(contents) ==
  [p \in DOMAIN contents |->
     IF p \in dest THEN contents[<<p[1] - shift[1], p[2] - shift[2]>>]
                   ELSE contents[p]]

Init == fb \in Screens /\ finished = FALSE

CopyAll ==
  /\ ~finished
  /\ finished' = TRUE
  /\ fb' = Copied(fb)
  /\ UNCHANGED <<dest, shift>>

Next == CopyAll

Spec == Init /\ [][Next]_vars
=============================================================================
