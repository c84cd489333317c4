------------------------------ MODULE Scoring ------------------------------
(***************************************************************************)
(* sentinel/engine/scoring.py: the weights, the scores of the subjects and *)
(* the decision to respond, as operators on the table of scores.  A table  *)
(* is a function whose domain is the subjects it holds.                    *)
(*                                                                         *)
(* Left out: dll_components, which nothing reads, the weight a signal can  *)
(* carry itself, which is the table's wherever a detector sets it, and the *)
(* keys with a start time, which only tests make.                          *)
(***************************************************************************)
EXTENDS Integers, FiniteSets, Functions

CONSTANTS Threshold,    \* threshold
          SignalTtl,    \* ttl_seconds of decay
          MaxAge,       \* max_age_seconds of evict_stale
          MaxSubjects   \* max_subjects

ASSUME ScoringAssumption ==
  /\ Threshold \in Nat \ {0} /\ MaxSubjects \in Nat \ {0}
  /\ SignalTtl \in Nat /\ MaxAge \in Nat
  /\ SignalTtl <= MaxAge

WEIGHTS ==
  [rule_match_high |-> 40, rule_match_medium |-> 20, rule_match_low |-> 10,
   dll_cross_process |-> 25, dll_reflective |-> 45, dll_unsigned |-> 10,
   dll_abnormal_host |-> 15, cpu_sustained |-> 30, stratum_network |-> 30,
   entropy_spike |-> 30, mass_modification |-> 30, canary_tripped |-> 85,
   failed_login_burst |-> 25, yara_match |-> 85, vt_positive |-> 50,
   vt_unknown_suspicious_pe |-> 15, pe_masquerade |-> 85, pe_double_extension |-> 85,
   suspicious_parent_child |-> 20, memory_unbacked_exec |-> 45, memory_shellcode |-> 80,
   memory_hollowing |-> 85, c2_beaconing |-> 40, c2_threat_intel |-> 85,
   sandbox_malicious |-> 85, sandbox_suspicious |-> 35, sandbox_unpacked_yara |-> 90,
   sandbox_injection_chain |-> 75, sandbox_rwx_unpack |-> 50, sandbox_evasion_detected |-> 35]

SignalKinds == DOMAIN WEIGHTS
DllKinds == {"dll_cross_process", "dll_reflective", "dll_unsigned", "dll_abnormal_host"}

Weight(sig) == WEIGHTS[sig.kind]

\* The signals of a subject are a bag: a signal |-> how often it came.  The code
\* keeps them in a list, whose order nothing reads.
NoSignals == [sig \in {} |-> 0]
Sum(signals) == SumFunction([sig \in DOMAIN signals |-> signals[sig] * Weight(sig)])

Without(scores, subjects) == [s \in DOMAIN scores \ subjects |-> scores[s]]

NoScore == [signals |-> NoSignals, total |-> 0, last |-> 0]
Score(scores, s) == IF s \in DOMAIN scores THEN scores[s] ELSE NoScore

OneMore(signals, sig) ==
  [x \in DOMAIN signals \cup {sig} |->
     (IF x \in DOMAIN signals THEN signals[x] ELSE 0) + (IF x = sig THEN 1 ELSE 0)]

PlusNeverUpdated(score, sig) ==     \* mutant: last_updated is not set
  [signals |-> OneMore(score.signals, sig),
   total   |-> score.total + Weight(sig),
   last    |-> score.last]

\* SubjectScore.add.
Plus(score, sig) ==
  [signals |-> OneMore(score.signals, sig),
   total   |-> score.total + Weight(sig),
   last    |-> sig.time]

Add(scores, sig) ==
  [s \in DOMAIN scores \cup {sig.subject} |->
     IF s = sig.subject THEN Plus(Score(scores, s), sig) ELSE scores[s]]

Oldest(scores) ==
  {s \in DOMAIN scores : \A t \in DOMAIN scores : scores[s].last <= scores[t].last}

Full(scores, sig) ==
  /\ Cardinality(DOMAIN scores) >= MaxSubjects
  /\ sig.subject \notin DOMAIN scores

\* add_signal: the tables it can leave.  A full table loses the subject that was
\* updated the longest ago.
AddSignal(scores, sig) ==
  IF Full(scores, sig)
    THEN {Add(Without(scores, {s}), sig) : s \in Oldest(scores)}
    ELSE {Add(scores, sig)}

\* Weak DLL signals alone are never enough.
Corroborates(sig) == sig.kind \notin DllKinds \/ sig.kind = "dll_reflective"

ShouldRespond(scores, s) ==
  /\ s \in DOMAIN scores
  /\ scores[s].total >= Threshold
  /\ \E sig \in DOMAIN scores[s].signals : Corroborates(sig)

Active(signals, now) ==
  [sig \in {x \in DOMAIN signals : x.time >= now - SignalTtl} |-> signals[sig]]

PrunedKeepsTotal(score, now) ==     \* mutant: the total is not computed again
  LET active == Active(score.signals, now) IN
    IF DOMAIN active = DOMAIN score.signals THEN score
    ELSE [score EXCEPT !.signals = active, !.last = now]

Pruned(score, now) ==
  LET active == Active(score.signals, now) IN
    IF DOMAIN active = DOMAIN score.signals THEN score
    ELSE [signals |-> active, total |-> Sum(active), last |-> now]

Decay(scores, now) ==
  LET pruned == [s \in DOMAIN scores |-> Pruned(scores[s], now)]
      dead == {s \in DOMAIN pruned : DOMAIN pruned[s].signals = {} \/ pruned[s].total <= 0}
  IN  Without(pruned, dead)

EvictStale(scores, now) ==
  Without(scores, {s \in DOMAIN scores : scores[s].last < now - MaxAge})
=============================================================================
