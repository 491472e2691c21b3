----------------------------- MODULE MCClipboard -----------------------------
(* A small instance of Clipboard: two applications that may each have two   *)
(* requests to answer, two texts, one viewer.                               *)
EXTENDS Clipboard, TLC

SameTextsAndApps ==
  {texts @@ apps : texts \in Permutations(Texts), apps \in Permutations(Apps)}
=============================================================================
