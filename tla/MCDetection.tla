---------------------------- MODULE MCDetection ----------------------------
(* Two processes that share a pid, a file, and an address in both lists. *)
EXTENDS Detection, TLC
CONSTANTS p1, p2, x1, f1, feed

MCPid == (p1 :> x1) @@ (p2 :> x1)
MCFileKinds == (f1 :> <<"vt_unknown_suspicious_pe", "yara_match">>)
MCProcessKinds == {<<"rule_match_high", "rule_match_high">>,
                   <<"dll_unsigned", "dll_abnormal_host">>}
=============================================================================
