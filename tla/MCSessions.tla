----------------------------- MODULE MCSessions -----------------------------
(* A small instance of SharedInput, and so of Sessions: three viewers, four *)
(* ways to configure the server, one one-time password, one button.         *)
EXTENDS SharedInput, TLC

Server(never, always, dont, types) ==
  [neverShared |-> never, alwaysShared |-> always, dontDisconnect |-> dont,
   types |-> types]

FourServers ==
  {Server(FALSE, FALSE, TRUE, {"vnc", "otp"}),
   Server(TRUE, FALSE, TRUE, {"otp"}),
   Server(TRUE, FALSE, FALSE, {"otp"}),
   Server(FALSE, FALSE, FALSE, {"none"})}

SameViewers == Permutations(Viewers)
=============================================================================
