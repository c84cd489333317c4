---------------------------- MODULE MCMinifilter ----------------------------
(* A thread of the service and one that opens files; three keys, an alias   *)
(* of the middle one (the other case, or the other slash), and a path that  *)
(* is too long.                                                             *)
EXTENDS Minifilter

CONSTANTS evil, EVIL, worm, zeus, long

MCPaths == {evil, EVIL, worm, zeus, long}
MCNorm == [p \in MCPaths |-> CASE p = worm -> 1
                               [] p \in {evil, EVIL} -> 2
                               [] p = zeus -> 3
                               [] p = long -> 0]
=============================================================================
