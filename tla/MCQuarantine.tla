---------------------------- MODULE MCQuarantine ----------------------------
(* Three processes: the service; the dashboard, with a scan and its tab of   *)
(* the vault; the tray.  An ordinary file and one of Microsoft.  Behaviours  *)
(* are calm, or have faults: the database may fail and files change.  Those  *)
(* with faults have the service and the users, and the ordinary file.        *)
EXTENDS Quarantine, TLC

CONSTANTS tray

VARIABLE calm

MCProcesses == {{Service}, Scanners \cup (Users \ {tray}), {tray}}
MCIdSymmetry == Permutations(Ids)

Calm == INSTANCE Quarantine WITH DbFails <- FALSE, Writes <- FALSE

Small ==
  /\ \A m \in Scanners : At(m, "idle")
  /\ \A p \in Paths : disk[p] \notin Microsoft

MCInit == Init /\ calm \in BOOLEAN /\ (calm \/ Small)

MCNext ==
  /\ \/ calm /\ Calm!Next
     \/ ~calm /\ Next /\ Small'
  /\ UNCHANGED calm

MCSpec == MCInit /\ [][MCNext]_<<vars, calm>>

\* While the database works and no other program writes, NothingLost: no kill and no
\* file operation of add, restore or delete that fails loses a content.
CalmLosesNothing == calm => NothingLost
=============================================================================
