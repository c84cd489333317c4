------------------------------ MODULE Scanner ------------------------------
(***************************************************************************)
(* The on-demand scanner, sentinel/engine/scanner.py: one OnDemandScanner, *)
(* the threads that run execute_scan on it, and cancel, pause and resume   *)
(* from other threads.  The events of the scanner are shared by all scans, *)
(* and a scan may be begun while another is paused.                        *)
(*                                                                         *)
(* A file is a record of what the engines see in it; scan_file is a        *)
(* function of that record, and of whether the quarantine store takes the  *)
(* file.  Who starts a scan and is told of its end is in the modules that  *)
(* extend this one: Tell(s, e) is their part of a step.                    *)
(***************************************************************************)
EXTENDS Naturals, FiniteSets

CONSTANTS Scans,           \* bound: the threads by number, each of which runs one scan
          Files, Look,     \* Look[f] is what the engines see in a file
          NoFile

ASSUME ScannerAssumption == NoFile \notin Files /\ Scans \subseteq Nat

VARIABLES status,          \* _status
          cancelEvent, unpaused,
          readOnly, auto,  \* read_only_mode, auto_quarantine
          vault,           \* the files in the quarantine store
          scan

scannerVars == <<status, cancelEvent, unpaused, readOnly, auto, vault, scan>>
events == <<cancelEvent, unpaused>>
modes == <<readOnly, auto>>

\* Of the threats of a scan, `found` keeps whether there are any.
\* `told` is history: it was running when it was cancelled, and none was begun since.
NoScan == [at |-> "unborn", quick |-> FALSE, workers |-> 1, todo |-> {}, busy |-> {},
           found |-> FALSE, final |-> "completed", told |-> FALSE]

ScannerInit ==
  /\ status = "idle" /\ cancelEvent = FALSE /\ unpaused = TRUE
  /\ vault = {}
  /\ scan = [s \in Scans |-> NoScan]

Set(s, r) == scan' = [scan EXCEPT ![s] = r]
Ended(s) == Set(s, [NoScan EXCEPT !.at = "ended"])
Running(s) == scan[s].at \in {"memory", "files"}

-----------------------------------------------------------------------------
(* scan_file: the engines in their order; the first that finds something   *)
(* names the threat.                                                       *)

DoubleExtension(l) == l.double /\ l.execExt
IsPe(l) == (l.execExt \/ l.mz) /\ l.features
Spared(l) == l.system \/ l.self

StructuralThreat(l) ==
  ~l.signed /\ ~Spared(l) /\ (l.packer \/ l.entropy)

\* A signature that cannot be looked at counts as trusted.
ModelThreat(l) ==
  ~Spared(l) /\ ~(l.signed /\ l.trust \in {"trusted", "raises"}) /\ l.ml

SandboxThreat(l) ==
  (l.execExt \/ l.mz \/ l.elf) /\ ~l.self /\ l.sandbox

Threat(l) ==
  IF l.yara THEN "yara_scanner"
  ELSE IF l.vt THEN "virustotal"
  ELSE IF DoubleExtension(l) \/ (IsPe(l) /\ l.doc) THEN "pe_classifier"
  ELSE IF IsPe(l) /\ StructuralThreat(l) THEN "pe_classifier"
  ELSE IF IsPe(l) /\ ModelThreat(l) THEN "ember2024_ml"
  ELSE IF SandboxThreat(l) THEN "dynamic_sandbox"
  ELSE "none"

MayQuarantine == ~readOnly /\ auto

\* _collect_files: a target that is a file itself is taken as it is.
Collected(quick) ==
  {f \in Files : Look[f].target \/ (~Look[f].ignored /\ (quick => Look[f].execExt))}

-----------------------------------------------------------------------------
(* execute_scan, in thread s.                                              *)

\* Only a scan that runs is in the way; one that is paused is resumed by the new one
\* and loses a cancel.
Enter(s) ==
  /\ scan[s].at = "enter" /\ status # "scanning"
  /\ status' = "scanning" /\ cancelEvent' = FALSE /\ unpaused' = TRUE
  /\ scan' = [t \in Scans |->
                IF t = s THEN [scan[s] EXCEPT !.at = IF scan[s].quick THEN "memory" ELSE "files",
                                              !.todo = Collected(scan[s].quick)]
                ELSE [scan[t] EXCEPT !.told = FALSE]]
  /\ UNCHANGED <<modes, vault>>

\* "Scan is already in progress"
Refused(s) ==
  /\ scan[s].at = "enter" /\ status = "scanning"
  /\ Ended(s)
  /\ UNCHANGED <<status, events, modes, vault>>

\* The memory scan may end early, by an error of its own or of a callback.
ScanMemory(s, found) ==
  /\ scan[s].at = "memory"
  /\ Set(s, [scan[s] EXCEPT !.at = "files", !.found = found])
  /\ UNCHANGED <<status, events, modes, vault>>

TakeAnyway(s) ==                \* mutant: the cancel is not looked at
  /\ scan[s].at = "files" /\ Cardinality(scan[s].busy) < scan[s].workers
  /\ unpaused
  /\ \E f \in scan[s].todo :
       Set(s, [scan[s] EXCEPT !.todo = @ \ {f}, !.busy = @ \cup {f}])
  /\ UNCHANGED <<status, events, modes, vault>>

Take(s) ==
  /\ scan[s].at = "files" /\ Cardinality(scan[s].busy) < scan[s].workers
  /\ unpaused /\ ~cancelEvent
  /\ \E f \in scan[s].todo :
       Set(s, [scan[s] EXCEPT !.todo = @ \ {f}, !.busy = @ \cup {f}])
  /\ UNCHANGED <<status, events, modes, vault>>

\* The loop ends for good; the walk over the folders and a worker look without waiting for
\* a resume, and each lets go what it was about to yield or to scan.
SeeCancel(s) ==
  /\ scan[s].at = "files" /\ scan[s].todo # {} /\ cancelEvent
  /\ \/ /\ unpaused \/ scan[s].workers > 1
        /\ Set(s, [scan[s] EXCEPT !.todo = {}, !.final = "cancelled"])
     \/ \E left \in (SUBSET scan[s].todo) \ {scan[s].todo} :
          Set(s, [scan[s] EXCEPT !.todo = left])
  /\ UNCHANGED <<status, events, modes, vault>>

\* Nothing is found, or the file is gone, cannot be read, or an engine raises.
CleanFile(s, f) ==
  /\ f \in scan[s].busy
  /\ Set(s, [scan[s] EXCEPT !.busy = @ \ {f}])
  /\ UNCHANGED <<status, events, modes, vault>>

\* The store may refuse the file, or fail.
BadFile(s, f, isolated) ==
  /\ f \in scan[s].busy /\ Threat(Look[f]) # "none"
  /\ isolated => MayQuarantine
  /\ vault' = IF isolated THEN vault \cup {f} ELSE vault
  /\ Set(s, [scan[s] EXCEPT !.busy = @ \ {f}, !.found = TRUE])
  /\ UNCHANGED <<status, events, modes>>

\* A progress callback of the memory scan, or the walk over the folders, raises.
ScanError(s) ==
  /\ Running(s) /\ scan[s].busy = {}
  /\ Set(s, [scan[s] EXCEPT !.at = "publish",
                            !.final = IF cancelEvent THEN "cancelled" ELSE "error"])
  /\ UNCHANGED <<status, events, modes, vault>>

Close(s) ==
  /\ scan[s].at = "files" /\ scan[s].todo = {} /\ scan[s].busy = {}
  /\ Set(s, [scan[s] EXCEPT !.at = "publish",
                            !.final = IF cancelEvent THEN "cancelled" ELSE @])
  /\ UNCHANGED <<status, events, modes, vault>>

Publish(s) ==
  /\ scan[s].at = "publish"
  /\ status' = scan[s].final
  /\ Ended(s)
  /\ UNCHANGED <<events, modes, vault>>

-----------------------------------------------------------------------------
(* _start_async and the control of the scan.                               *)

Launch(s, quick, workers) ==
  /\ scan[s].at = "unborn" /\ \A t \in Scans : t < s => scan[t].at # "unborn"
  /\ scan' = [scan EXCEPT ![s] = [NoScan EXCEPT !.at = "enter", !.quick = quick,
                                                !.workers = workers]]

Cancel ==
  /\ cancelEvent' = TRUE /\ unpaused' = TRUE
  /\ scan' = [s \in Scans |-> [scan[s] EXCEPT !.told = @ \/ Running(s)]]
  /\ UNCHANGED <<status, modes, vault>>

Pause ==
  /\ status = "scanning"
  /\ status' = "paused" /\ unpaused' = FALSE
  /\ UNCHANGED <<cancelEvent, modes, vault, scan>>

Resume ==
  /\ status = "paused"
  /\ status' = "scanning" /\ unpaused' = TRUE
  /\ UNCHANGED <<cancelEvent, modes, vault, scan>>

-----------------------------------------------------------------------------
(* Properties.                                                             *)

Statuses == {"idle", "scanning", "paused", "completed", "cancelled", "error"}

ScannerOK ==
  /\ status \in Statuses /\ {cancelEvent, unpaused, readOnly, auto} \subseteq BOOLEAN
  /\ vault \subseteq Files
  /\ \A s \in Scans :
       /\ scan[s].at \in {"unborn", "enter", "memory", "files", "publish", "ended"}
       /\ scan[s].todo \subseteq Files /\ Cardinality(scan[s].busy) <= scan[s].workers
       /\ scan[s].found \in BOOLEAN

\* A scan that was cancelled while it ran begins no further file, and ends as
\* cancelled, whatever is paused and resumed, for as long as no other scan begins.
CancelStops ==
  [][\A s \in Scans :
       scan[s].told /\ (scan'[s].told \/ scan'[s].at = "ended") =>
         /\ scan'[s].busy \subseteq scan[s].busy
         /\ scan'[s].at = "ended" => status' = "cancelled"]_scannerVars

\* What the code does not keep: a scan that begins while one that was cancelled has not
\* ended clears the event, and that one goes on (execute_scan:558 against cancel:184,
\* "Signal the running scan to stop").
CancelIsKept ==
  [][\A s \in Scans : scan[s].told => scan'[s].told \/ scan'[s].at = "ended"]_scannerVars
=============================================================================
