----------------------------- MODULE MCCommands -----------------------------
(* Two traps, a client that verifies, one that repairs, one that does neither. *)
EXTENDS Commands, TLC

CONSTANTS service, shell, c1, c2, c3

MCRequests == (c1 :> {Verify}) @@ (c2 :> {Rearm}) @@ (c3 :> {Garbage, NoObject, Shutdown})

MCCasts == {{c1, c2}, {c1, Nature}, {c2, Nature}, {c3}, {Cli}}

MCManagerOf == [t \in Threads |-> IF t = Cli THEN shell ELSE service]
=============================================================================
