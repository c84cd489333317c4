----------------------------- MODULE Dashboard -----------------------------
(***************************************************************************)
(* The scan page of the dashboard, sentinel/ui/dashboard.py, and its       *)
(* scanner; and, in other behaviours, a program that uses the scanner      *)
(* without a dashboard.                                                    *)
(*                                                                         *)
(* Tk runs one handler at a time.  A message box or a file dialog that is  *)
(* open keeps the user from the buttons, but the main loop goes on: timers *)
(* and what the scan's thread has posted with after(0) are handled         *)
(* meanwhile, so a handler with a dialog is two steps.                     *)
(***************************************************************************)
EXTENDS Scanner, Sequences

CONSTANTS Users,           \* who uses the scanner: "dashboard", "library"
          ScanWorkers      \* the numbers of workers that a program asks for

ASSUME DashboardAssumption == ScanWorkers \subseteq Nat \ {0}

VARIABLES user,
          active,          \* _scan_active, and the state of the buttons
          safe,            \* the box of the Safe Mode
          dialog,          \* the dialog that is open, with the file it is about
          timers,          \* after(): "target" from the Explorer, "quick"
          posted,          \* after(0): what the scan has posted
          rows,            \* the table of threats: "untouched", "quarantined"
          label            \* how the last scan ended, as the page says

uiVars == <<active, safe, dialog, timers, posted, rows, label>>
vars == <<scannerVars, user, uiVars>>

NoDialog == [about |-> "none", file |-> NoFile]
Open(about, f) == dialog' = [about |-> about, file |-> f]
Closed(about) == dialog.about = about /\ dialog' = NoDialog

DashboardInit ==
  /\ ScannerInit /\ user \in Users
  /\ readOnly = TRUE /\ auto = FALSE
  /\ active = FALSE /\ safe = TRUE /\ dialog = NoDialog
  /\ timers \in SUBSET {"target"}
  /\ posted = <<>> /\ rows = [f \in Files |-> "none"] /\ label = "none"

Ui == user = "dashboard"
Free == Ui /\ dialog = NoDialog

-----------------------------------------------------------------------------
(* The thread of a scan posts to the main loop.                            *)

Post(e) == posted' = IF Ui THEN Append(posted, e) ELSE posted

Note(kind, f, what) == [kind |-> kind, file |-> f, what |-> what]

ScanStep(s) ==
  \/ /\ Enter(s) \/ Refused(s) \/ Take(s) \/ SeeCancel(s) \/ ScanError(s) \/ Close(s)
     /\ UNCHANGED <<user, uiVars>>
  \/ \E found \in BOOLEAN :
       /\ ScanMemory(s, found)
       /\ UNCHANGED <<user, uiVars>>
  \/ \E f \in Files : CleanFile(s, f) /\ UNCHANGED <<user, uiVars>>
  \/ \E f \in Files, isolated \in BOOLEAN :
       /\ BadFile(s, f, isolated)
       /\ Post(Note("threat", f, IF isolated THEN "quarantined" ELSE "untouched"))
       /\ UNCHANGED <<user, active, safe, dialog, timers, rows, label>>
  \/ /\ Publish(s)
     /\ Post(Note("complete", NoFile,
                  IF scan[s].final # "cancelled" /\ scan[s].found THEN "threats"
                  ELSE scan[s].final))
     /\ UNCHANGED <<user, active, safe, dialog, timers, rows, label>>

-----------------------------------------------------------------------------
(* The main loop.                                                          *)

\* _set_scanning_ui_state(True): the modes of the scanner follow the box.
Start(s, quick) ==
  /\ Launch(s, quick, 1)
  /\ active' = TRUE
  /\ readOnly' = safe /\ auto' = ~safe
  /\ UNCHANGED <<status, events, vault, user, safe, posted, label>>

Cleared == rows' = [f \in Files |-> "none"]

\* A target of the Explorer is scanned whether or not a scan is active.
TargetTimer(s) ==
  /\ Ui /\ "target" \in timers /\ timers' = timers \ {"target"}
  /\ Start(s, FALSE)
  /\ UNCHANGED <<dialog, rows>>

OnStartQuickScan(s) ==
  /\ ~active
  /\ Start(s, TRUE) /\ Cleared

ClickQuick(s) ==
  /\ Free /\ OnStartQuickScan(s)
  /\ UNCHANGED <<dialog, timers>>

ClickOverviewQuick ==
  /\ Free /\ timers' = timers \cup {"quick"}
  /\ UNCHANGED <<scannerVars, user, active, safe, dialog, posted, rows, label>>

QuickTimer ==
  /\ Ui /\ "quick" \in timers /\ timers' = timers \ {"quick"}
  /\ IF active THEN UNCHANGED <<scannerVars, user, active, safe, posted, rows, label>>
     ELSE \E s \in Scans : OnStartQuickScan(s)
  /\ UNCHANGED dialog

\* The full scan is confirmed; the folder of a custom scan is chosen.
ClickFullOrCustom ==
  /\ Free /\ ~active
  /\ \E about \in {"full", "custom"} : Open(about, NoFile)
  /\ UNCHANGED <<scannerVars, user, active, safe, timers, posted, rows, label>>

AnswerFull(s) ==
  /\ Closed("full") /\ Start(s, FALSE) /\ Cleared
  /\ UNCHANGED timers

AnswerCustom(s) ==
  /\ Closed("custom") /\ Start(s, FALSE)
  /\ UNCHANGED <<timers, rows>>

AnswerNo ==
  /\ Closed("full") \/ Closed("custom") \/ Closed("manual")
  /\ UNCHANGED <<scannerVars, user, active, safe, timers, posted, rows, label>>

ClickCancel ==
  /\ Free /\ active /\ Cancel
  /\ UNCHANGED <<user, uiVars>>

\* _on_toggle_safe_mode: the box has changed before the question is asked.
TickSafe ==
  /\ Free /\ ~active /\ ~safe
  /\ safe' = TRUE /\ readOnly' = TRUE /\ auto' = FALSE
  /\ UNCHANGED <<status, events, vault, scan, user, active, dialog, timers, posted, rows, label>>

UntickSafe ==
  /\ Free /\ ~active /\ safe
  /\ safe' = FALSE /\ Open("safe", NoFile)
  /\ UNCHANGED <<scannerVars, user, active, timers, posted, rows, label>>

ConfirmUnsafe ==
  /\ Closed("safe")
  /\ readOnly' = FALSE /\ auto' = TRUE
  /\ UNCHANGED <<status, events, vault, scan, user, active, safe, timers, posted, rows, label>>

KeepSafe ==
  /\ Closed("safe")
  /\ safe' = TRUE
  /\ UNCHANGED <<scannerVars, user, active, timers, posted, rows, label>>

\* _on_quarantine_scan_selected
ClickQuarantine(f) ==
  /\ Free /\ rows[f] = "untouched" /\ f \notin vault
  /\ Open("manual", f)
  /\ UNCHANGED <<scannerVars, user, active, safe, timers, posted, rows, label>>

AnswerQuarantine ==
  /\ Closed("manual")
  /\ vault' = vault \cup {dialog.file}
  /\ rows' = [rows EXCEPT ![dialog.file] = "quarantined"]
  /\ UNCHANGED <<status, events, modes, scan, user, active, safe, timers, posted, label>>

HandleThreat ==
  /\ posted # <<>> /\ Head(posted).kind = "threat"
  /\ posted' = Tail(posted)
  /\ rows' = [rows EXCEPT ![Head(posted).file] = Head(posted).what]
  /\ UNCHANGED <<scannerVars, user, active, safe, dialog, timers, label>>

HandleErrorForgets ==           \* mutant: an error leaves the buttons as they are
  /\ posted # <<>> /\ Head(posted).kind = "complete"
  /\ posted' = Tail(posted)
  /\ active' = (active /\ Head(posted).what = "error")
  /\ label' = Head(posted).what
  /\ UNCHANGED <<scannerVars, user, safe, dialog, timers, rows>>

\* What the page says of the threats depends on the mode alone.
HandleComplete ==
  /\ posted # <<>> /\ Head(posted).kind = "complete"
  /\ posted' = Tail(posted)
  /\ active' = FALSE
  /\ label' = IF Head(posted).what # "threats" THEN Head(posted).what
              ELSE IF auto THEN "isolated" ELSE "detected"
  /\ UNCHANGED <<scannerVars, user, safe, dialog, timers, rows>>

-----------------------------------------------------------------------------
(* A program without a dashboard.                                          *)

Library ==
  /\ user = "library"
  /\ \/ Pause \/ Resume \/ Cancel
     \/ \E s \in Scans, quick \in BOOLEAN, workers \in ScanWorkers :
          /\ Launch(s, quick, workers)
          /\ UNCHANGED <<status, events, modes, vault>>
  /\ UNCHANGED <<user, uiVars>>

Next ==
  \/ \E s \in Scans : ScanStep(s) \/ TargetTimer(s) \/ ClickQuick(s)
                      \/ AnswerFull(s) \/ AnswerCustom(s)
  \/ QuickTimer \/ ClickOverviewQuick \/ ClickFullOrCustom \/ AnswerNo \/ ClickCancel
  \/ TickSafe \/ UntickSafe \/ ConfirmUnsafe \/ KeepSafe
  \/ \E f \in Files : ClickQuarantine(f)
  \/ AnswerQuarantine \/ HandleThreat \/ HandleComplete
  \/ Library

\* The thread of a scan and the main loop are scheduled; nothing is assumed of the user.
Fairness ==
  /\ \A s \in Scans : WF_vars(Ui /\ ScanStep(s))
  /\ WF_vars(HandleThreat \/ HandleComplete)

Spec == DashboardInit /\ [][Next]_vars /\ Fairness

-----------------------------------------------------------------------------
(* Properties.                                                             *)

UiOK ==
  /\ ScannerOK
  /\ active \in BOOLEAN /\ safe \in BOOLEAN
  /\ timers \subseteq {"target", "quick"}
  /\ rows \in [Files -> {"none", "untouched", "quarantined"}]
  /\ label \in Statuses \cup {"none", "isolated", "detected"}

\* The buttons come back after every scan that was started, also one that the scanner
\* refuses because another is running.
ButtonsComeBack == active ~> ~active

\* dashboard.py:810 and 793-806, "[Active: Files are 100% untouched]": while the box is
\* ticked and no question is open, the scanner quarantines nothing by itself.
SafeModeIsSafe == safe /\ dialog = NoDialog => ~MayQuarantine
=============================================================================
