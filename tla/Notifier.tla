------------------------------ MODULE Notifier ------------------------------
(***************************************************************************)
(* The notifications, sentinel/response/notifier.py.  An alert that        *)
(* repeats within the cooldown is counted and not shown; the next one that *)
(* is let through carries the count.  The decision is made under the lock, *)
(* the sending is not, and neither channel is sure to work: a toast, then  *)
(* a balloon.                                                              *)
(*                                                                         *)
(* A key stands for the title, the process and the beginning of the body   *)
(* of an alert; the cooldown of a key is what is left of it, in ticks.     *)
(* The wording is left out.                                                *)
(***************************************************************************)
EXTENDS Integers, FiniteSets, Functions

CONSTANTS Keys, Senders, NoKey, Cooldown,
          MaxRaised         \* bound: how often an alert is raised

ASSUME NotifierAssumption ==
  /\ Cooldown \in Nat \ {0} /\ MaxRaised \in Nat /\ NoKey \notin Keys
  /\ IsFiniteSet(Senders)

VARIABLES toast,            \* _toast_available
          cooling,          \* of _recent_alerts: what is left of the cooldown
          suppressed,       \* _suppressed_counts
          sender,           \* the threads that send
          raised, shown, lost   \* history: alerts, by key

notifierVars == <<toast, cooling, suppressed, sender, raised, shown, lost>>

Silent == [at |-> "out", key |-> NoKey, count |-> 0]

NotifierInit ==
  /\ toast \in BOOLEAN
  /\ cooling = [k \in Keys |-> 0] /\ suppressed = [k \in Keys |-> 0]
  /\ sender = [s \in Senders |-> Silent]
  /\ raised = [k \in Keys |-> 0] /\ shown = raised /\ lost = raised

Add(f, k, n) == [f EXCEPT ![k] = @ + n]
Sending(s, at, k, n) == sender' = [sender EXCEPT ![s] = [at |-> at, key |-> k, count |-> n]]
FirstChannel == IF toast THEN "toast" ELSE "balloon"

SuppressForgets(s, k) ==        \* mutant: the count starts over
  /\ sender[s].at = "out" /\ raised[k] < MaxRaised /\ cooling[k] > 0
  /\ raised' = Add(raised, k, 1)
  /\ suppressed' = [suppressed EXCEPT ![k] = 1]
  /\ UNCHANGED <<toast, cooling, sender, shown, lost>>

\* _send, under the lock, for an alert.
Suppress(s, k) ==
  /\ sender[s].at = "out" /\ raised[k] < MaxRaised /\ cooling[k] > 0
  /\ raised' = Add(raised, k, 1)
  /\ suppressed' = Add(suppressed, k, 1)
  /\ UNCHANGED <<toast, cooling, sender, shown, lost>>

LetThrough(s, k) ==
  /\ sender[s].at = "out" /\ raised[k] < MaxRaised /\ cooling[k] = 0
  /\ raised' = Add(raised, k, 1)
  /\ suppressed' = [suppressed EXCEPT ![k] = 0]
  /\ cooling' = [cooling EXCEPT ![k] = Cooldown]
  /\ Sending(s, FirstChannel, k, 1 + suppressed[k])
  /\ UNCHANGED <<toast, shown, lost>>

\* notify_info and notify_resolved are never held back.
Inform(s) ==
  /\ sender[s].at = "out"
  /\ Sending(s, FirstChannel, NoKey, 0)
  /\ UNCHANGED <<toast, cooling, suppressed, raised, shown, lost>>

Delivered(s) ==
  /\ sender[s].at \in {"toast", "balloon"}
  /\ shown' = [k \in Keys |-> shown[k] + IF k = sender[s].key THEN sender[s].count ELSE 0]
  /\ Sending(s, "out", NoKey, 0)
  /\ UNCHANGED <<toast, cooling, suppressed, raised, lost>>

ToastFails(s) ==
  /\ sender[s].at = "toast"
  /\ Sending(s, "balloon", sender[s].key, sender[s].count)
  /\ UNCHANGED <<toast, cooling, suppressed, raised, shown, lost>>

\* Nobody has seen it, and the cooldown runs.
BalloonFails(s) ==
  /\ sender[s].at = "balloon"
  /\ lost' = [k \in Keys |-> lost[k] + IF k = sender[s].key THEN sender[s].count ELSE 0]
  /\ Sending(s, "out", NoKey, 0)
  /\ UNCHANGED <<toast, cooling, suppressed, raised, shown>>

NotifierTick ==
  /\ \E k \in Keys : cooling[k] > 0
  /\ cooling' = [k \in Keys |-> IF cooling[k] > 0 THEN cooling[k] - 1 ELSE 0]
  /\ UNCHANGED <<toast, suppressed, sender, raised, shown, lost>>

NotifierNext ==
  \/ \E s \in Senders :
       \/ \E k \in Keys : Suppress(s, k) \/ LetThrough(s, k)
       \/ Inform(s) \/ Delivered(s) \/ ToastFails(s) \/ BalloonFails(s)
  \/ NotifierTick

NotifierSpec == NotifierInit /\ [][NotifierNext]_notifierVars

-----------------------------------------------------------------------------
(* Properties.                                                             *)

NotifierOK ==
  /\ toast \in BOOLEAN /\ cooling \in [Keys -> 0..Cooldown]
  /\ suppressed \in [Keys -> 0..MaxRaised]
  /\ \A s \in Senders : sender[s].at \in {"out", "toast", "balloon"}

\* Of the alerts with this key, those that are being sent.
OnTheWay(k) ==
  SumFunctionOnSet([s \in Senders |-> IF sender[s].key = k THEN sender[s].count ELSE 0],
                   Senders)

\* No alert is forgotten: each that was raised has been shown, by itself or in the
\* count of a later one, or was lost by both channels, or is still counted or on its
\* way, whatever threads raise it at once.
Accounted ==
  \A k \in Keys : raised[k] = shown[k] + lost[k] + suppressed[k] + OnTheWay(k)
=============================================================================
