----------------------------- MODULE Quarantine -----------------------------
(***************************************************************************)
(* The quarantine vault, sentinel/response/quarantine_store.py, shared by  *)
(* three processes: the service, whose responses move a file and then      *)
(* block its path in the driver (consumer.py, responder.py, bridge.py),    *)
(* the dashboard, whose scans move files too, and the dashboard and the    *)
(* tray, where the user restores and deletes.                              *)
(*                                                                         *)
(* Each file operation of add, restore and delete is an action: the        *)
(* processes share the disk, and can be killed, between any two.  Every    *)
(* file operation can fail.  A file is what it holds: its SHA-256 and its  *)
(* bytes are one value.  The driver denies a user-mode open of a blocked   *)
(* path that asks for any right of FILE_GENERIC_EXECUTE, SYNCHRONIZE and   *)
(* FILE_READ_ATTRIBUTES among them: reads, writes and deletions all do.    *)
(*                                                                         *)
(* restore calls remove_block only of a store with a bridge.  The only     *)
(* such store is the one inside the service, where nothing restores: here  *)
(* a restore never unblocks.  Left out: _strip_execute and the permissions *)
(* of the restored file, which no other step reads, the bridge's own       *)
(* tables, which no production code reads, and the audit event and the     *)
(* notification at the end of a response.                                  *)
(***************************************************************************)
EXTENDS Integers, FiniteSets

CONSTANTS Service,    \* the DetectionConsumer thread
          Scanners,   \* threads of the dashboard that quarantine what a scan found
          Users,      \* the interfaces where a user restores and deletes
          Processes,  \* the sets of the threads above that die together
          Paths,
          Contents,   \* the contents of files
          Microsoft,  \* those with a valid Microsoft signature
          Ids,        \* the ids uuid4 draws
          Torn,       \* the content of a file that was written in part
          None,       \* no file, no row
          DbFails,    \* whether quarantine.db may refuse a statement
          Writes      \* whether other programs may replace a file

Movers  == {Service} \cup Scanners
Threads == Movers \cup Users
Files   == Contents \cup {Torn}

ASSUME ThreadsAssumption ==
  /\ Movers \cap Users = {}
  /\ \A threads \in Processes : threads \subseteq Threads
ASSUME ContentsAssumption ==
  /\ Torn \notin Contents
  /\ Microsoft \subseteq Contents
ASSUME SwitchesAssumption == DbFails \in BOOLEAN /\ Writes \in BOOLEAN

VARIABLES disk,      \* the file at each path
          vault,     \* the copy of each id, in data/quarantine
          rows,      \* the table of quarantine.db
          mover,     \* where each mover is in its response and in add
          user,      \* where each user is in restore or delete
          blocked,   \* the driver's blocklist
          taken,     \* history: contents the program removed or overwrote
          confirmed, \* history: ids whose deletion a user confirmed
          discarded, \* history: contents removed by those deletions
          putBack    \* history: ids whose copy restore wrote back whole

history == <<taken, confirmed, discarded, putBack>>
vars == <<disk, vault, rows, mover, user, blocked, history>>

RowSwapped(p, sha) ==      \* mutant: the parameters of INSERT in another order
  [path |-> sha, sha |-> p, decision |-> "pending"]

Row(p, sha) == [path |-> p, sha |-> sha, decision |-> "pending"]
Rows == [path : Paths, sha : Files \cup {None}, decision : {"pending", "restored", "deleted"}]

ASSUME NoneAssumption == None \notin Files \cup Paths \cup Ids \cup Rows

MoverStart   == [pc |-> "idle", path |-> None, id |-> None, sha |-> None]
UserStart    == [pc |-> "idle", id |-> None]
At(m, pc)    == mover[m].pc = pc
Doing(u, pc) == user[u].pc = pc
Path(m)      == mover[m].path
Id(m)        == mover[m].id

Init ==
  /\ disk \in [Paths -> Contents \cup {None}]
  /\ vault = [i \in Ids |-> None]
  /\ rows = [i \in Ids |-> None]
  /\ mover = [m \in Movers |-> MoverStart]
  /\ user = [u \in Users |-> UserStart]
  /\ blocked = {}
  /\ taken = {} /\ confirmed = {} /\ discarded = {} /\ putBack = {}

-----------------------------------------------------------------------------
(* Responses, up to add.                                                   *)

Accessible(p) == p \notin blocked

\* _sha256_of: None, the empty string, for a file that cannot be opened.
Sha(p) == IF Accessible(p) THEN disk[p] ELSE None

IsRestored(sha) ==
  /\ sha # None
  /\ \E i \in Ids : rows[i] # None /\ rows[i].sha = sha /\ rows[i].decision = "restored"

Respond(m, p) == mover' = [mover EXCEPT ![m] = [MoverStart EXCEPT !.pc = "add", !.path = p]]

\* _execute_response on a file.  When is_restored raises the response goes on.
FileSubject(p) ==
  /\ At(Service, "idle")
  /\ disk[p] # None
  /\ IsRestored(Sha(p)) => DbFails
  /\ Respond(Service, p)
  /\ UNCHANGED <<disk, vault, rows, user, blocked, history>>

\* _execute_response on a process that quarantine_process has suspended; p is
\* its image, which may be gone.  What the user restored is not asked for.
ProcessSubject(p) ==
  /\ At(Service, "idle")
  /\ Respond(Service, p)
  /\ UNCHANGED <<disk, vault, rows, user, blocked, history>>

\* OnDemandScanner with automatic quarantine, or the button of the scan tab.
ScanResult(m, p) ==
  /\ m \in Scanners /\ At(m, "idle")
  /\ Respond(m, p)
  /\ UNCHANGED <<disk, vault, rows, user, blocked, history>>

-----------------------------------------------------------------------------
(* QuarantineStore.add.                                                    *)

\* What follows add, whatever it returned: the service goes on to add_block.
Step(m, pc) == mover' = [mover EXCEPT ![m].pc = pc]
End(m)      == mover' = [mover EXCEPT ![m] = MoverStart]
AddRaises(m) == End(m)
AddReturns(m) ==
  IF m = Service
    THEN mover' = [mover EXCEPT ![m] = [MoverStart EXCEPT !.pc = "block", !.path = Path(m)]]
    ELSE End(m)

Fresh(i) ==
  /\ rows[i] = None /\ vault[i] = None
  /\ \A m \in Movers : Id(m) # i

NotAFile(m) ==
  /\ At(m, "add") /\ disk[Path(m)] = None
  /\ AddReturns(m)
  /\ UNCHANGED <<disk, vault, rows, user, blocked, history>>

\* entry_id and _sha256_of.
Hash(m, i) ==
  /\ At(m, "add") /\ disk[Path(m)] # None
  /\ Fresh(i)
  /\ mover' = [mover EXCEPT ![m].pc = "copy", ![m].id = i, ![m].sha = Sha(Path(m))]
  /\ UNCHANGED <<disk, vault, rows, user, blocked, history>>

\* shutil.copy2.
Copy(m) ==
  /\ At(m, "copy") /\ disk[Path(m)] # None /\ Accessible(Path(m))
  /\ vault' = [vault EXCEPT ![Id(m)] = disk[Path(m)]]
  /\ Step(m, "unlink")
  /\ UNCHANGED <<disk, rows, user, blocked, history>>

\* The handler of OSError: the copy is removed, or its removal raises.
RollBack(m, left) ==
  \/ /\ vault' = [vault EXCEPT ![Id(m)] = None]
     /\ AddReturns(m)
  \/ /\ vault' = [vault EXCEPT ![Id(m)] = left]
     /\ AddRaises(m)

CopyFailsUnseen(m) ==      \* mutant: the handler of OSError does not return
  /\ At(m, "copy")
  /\ Step(m, "unlink")
  /\ UNCHANGED <<disk, vault, rows, user, blocked, history>>

CopyFails(m) ==
  /\ At(m, "copy")
  /\ RollBack(m, IF disk[Path(m)] = None THEN None ELSE Torn)
  /\ UNCHANGED <<disk, rows, user, blocked, history>>

\* src.unlink(missing_ok=True).
Unlink(m) ==
  /\ At(m, "unlink") /\ Accessible(Path(m))
  /\ taken' = taken \cup ({disk[Path(m)]} \ {Torn, None})
  /\ disk' = [disk EXCEPT ![Path(m)] = None]
  /\ Step(m, "insert")
  /\ UNCHANGED <<vault, rows, user, blocked, confirmed, discarded, putBack>>

UnlinkFailsUnseen(m) ==    \* mutant: the copy is removed, and the row inserted
  /\ At(m, "unlink")
  /\ vault' = [vault EXCEPT ![Id(m)] = None]
  /\ Step(m, "insert")
  /\ UNCHANGED <<disk, rows, user, blocked, history>>

\* The image of a running process, on Windows, cannot be unlinked.
UnlinkFails(m) ==
  /\ At(m, "unlink")
  /\ disk[Path(m)] # None \/ ~Accessible(Path(m))
  /\ RollBack(m, vault[Id(m)])
  /\ UNCHANGED <<disk, rows, user, blocked, history>>

\* INSERT and commit.
Insert(m) ==
  /\ At(m, "insert")
  /\ rows' = [rows EXCEPT ![Id(m)] = Row(Path(m), mover[m].sha)]
  /\ AddReturns(m)
  /\ UNCHANGED <<disk, vault, user, blocked, history>>

\* sqlite3.Error: the copy, the only one by now, is removed; on Windows this
\* can raise, since the copy was made read-only.
InsertFails(m) ==
  /\ DbFails
  /\ At(m, "insert")
  /\ RollBack(m, vault[Id(m)])
  /\ UNCHANGED <<disk, rows, user, blocked, history>>

-----------------------------------------------------------------------------
(* KernelBridge.add_block, after add.                                      *)

\* verify_pe_signature of the file at the path: after add there is none, as a
\* rule, and a file that is missing is not signed.
Refuse ==
  /\ At(Service, "block") /\ Sha(Path(Service)) \in Microsoft
  /\ End(Service)
  /\ UNCHANGED <<disk, vault, rows, user, blocked, history>>

Verify ==
  /\ At(Service, "block") /\ Sha(Path(Service)) \notin Microsoft
  /\ Step(Service, "send")
  /\ UNCHANGED <<disk, vault, rows, user, blocked, history>>

Send ==
  /\ At(Service, "send")
  /\ blocked' = blocked \cup {Path(Service)}
  /\ End(Service)
  /\ UNCHANGED <<disk, vault, rows, user, history>>

\* The bridge is not connected, or the driver has no memory.
NotSent ==
  /\ At(Service, "send")
  /\ End(Service)
  /\ UNCHANGED <<disk, vault, rows, user, blocked, history>>

-----------------------------------------------------------------------------
(* QuarantineStore.restore and delete.                                     *)

Advance(u, pc) == user' = [user EXCEPT ![u].pc = pc]
Begin(u, pc, i) == user' = [user EXCEPT ![u] = [pc |-> pc, id |-> i]]
Leave(u)       == user' = [user EXCEPT ![u] = UserStart]
Chosen(u) == user[u].id
Decide(i, decision) == rows' = [rows EXCEPT ![i].decision = decision]

\* The user picked the record from a list that may be old by now.
Restore(u, i) ==
  /\ Doing(u, "idle")
  /\ rows[i] # None /\ rows[i].decision # "deleted"
  /\ vault[i] # None
  /\ Begin(u, "copy back", i)
  /\ UNCHANGED <<disk, vault, rows, mover, blocked, history>>

Target(u) == rows[Chosen(u)].path

\* restore writes `file` over what is at the original path.
Overwrite(u, file) ==
  /\ disk' = [disk EXCEPT ![Target(u)] = file]
  /\ taken' = taken \cup ({disk[Target(u)]} \ {Torn, None})

\* shutil.copyfile; the copy in the vault stays.
CopyBack(u) ==
  /\ Doing(u, "copy back") /\ vault[Chosen(u)] # None /\ Accessible(Target(u))
  /\ Overwrite(u, vault[Chosen(u)])
  /\ putBack' = putBack \cup {Chosen(u)}
  /\ Advance(u, "decide restored")
  /\ UNCHANGED <<vault, rows, mover, blocked, confirmed, discarded>>

CopyBackFailsUnseen(u) ==  \* mutant: the handler of OSError does not return
  /\ Doing(u, "copy back")
  /\ Advance(u, "decide restored")
  /\ UNCHANGED <<disk, vault, rows, mover, blocked, history>>

\* The copy is gone, the target cannot be opened, or the copy breaks off.
CopyBackFails(u) ==
  /\ Doing(u, "copy back")
  /\ \/ UNCHANGED <<disk, taken>>
     \/ vault[Chosen(u)] # None /\ Accessible(Target(u)) /\ Overwrite(u, Torn)
  /\ Leave(u)
  /\ UNCHANGED <<vault, rows, mover, blocked, confirmed, discarded, putBack>>

Delete(u, i) ==
  /\ Doing(u, "idle")
  /\ rows[i] # None
  /\ confirmed' = confirmed \cup {i}
  /\ Begin(u, "remove", i)
  /\ UNCHANGED <<disk, vault, rows, mover, blocked, taken, discarded, putBack>>

\* unlink of the copy, when there is one.
Remove(u) ==
  /\ Doing(u, "remove")
  /\ discarded' = discarded \cup ({vault[Chosen(u)]} \ {Torn, None})
  /\ vault' = [vault EXCEPT ![Chosen(u)] = None]
  /\ Advance(u, "decide deleted")
  /\ UNCHANGED <<disk, rows, mover, blocked, taken, confirmed, putBack>>

RemoveFails(u) ==
  /\ Doing(u, "remove") /\ vault[Chosen(u)] # None
  /\ Leave(u)
  /\ UNCHANGED <<disk, vault, rows, mover, blocked, history>>

\* _decide.
Decided(u) ==
  /\ \/ Doing(u, "decide restored") /\ Decide(Chosen(u), "restored")
     \/ Doing(u, "decide deleted")  /\ Decide(Chosen(u), "deleted")
  /\ Leave(u)
  /\ UNCHANGED <<disk, vault, mover, blocked, history>>

\* sqlite3.Error leaves restore or delete.
NotDecided(u) ==
  /\ DbFails
  /\ user[u].pc \in {"decide restored", "decide deleted"}
  /\ Leave(u)
  /\ UNCHANGED <<disk, vault, rows, mover, blocked, history>>

-----------------------------------------------------------------------------
(* The environment.                                                        *)

\* A process is killed.  A copy it was making stays, in part or whole: the
\* state CopyFails, RollBack or CopyBackFails leaves.
Kill(threads) ==
  /\ mover' = [m \in Movers |-> IF m \in threads THEN MoverStart ELSE mover[m]]
  /\ user' = [u \in Users |-> IF u \in threads THEN UserStart ELSE user[u]]
  /\ UNCHANGED <<disk, vault, rows, blocked, history>>

\* The driver is unloaded, or the machine restarted: its list is empty.
DriverUnload ==
  /\ blocked' = {}
  /\ UNCHANGED <<disk, vault, rows, mover, user, history>>

Write(p, c) ==
  /\ Writes /\ Accessible(p)
  /\ disk' = [disk EXCEPT ![p] = c]
  /\ UNCHANGED <<vault, rows, mover, user, blocked, history>>

-----------------------------------------------------------------------------
Add(m) ==
  \/ NotAFile(m) \/ \E i \in Ids : Hash(m, i)
  \/ Copy(m) \/ CopyFails(m)
  \/ Unlink(m) \/ UnlinkFails(m)
  \/ Insert(m) \/ InsertFails(m)

AddBlock == Refuse \/ Verify \/ Send \/ NotSent

UserStep(u) ==
  \/ \E i \in Ids : Restore(u, i) \/ Delete(u, i)
  \/ CopyBack(u) \/ CopyBackFails(u)
  \/ Remove(u) \/ RemoveFails(u)
  \/ Decided(u) \/ NotDecided(u)

Environment ==
  \/ \E threads \in Processes : Kill(threads)
  \/ DriverUnload
  \/ \E p \in Paths, c \in Contents : Write(p, c)

Next ==
  \/ \E p \in Paths : FileSubject(p) \/ ProcessSubject(p)
  \/ \E m \in Movers, p \in Paths : ScanResult(m, p)
  \/ \E m \in Movers : Add(m)
  \/ AddBlock
  \/ \E u \in Users : UserStep(u)
  \/ Environment

Spec == Init /\ [][Next]_vars

-----------------------------------------------------------------------------
(* Properties.                                                             *)

MoverPcs == {"idle", "add", "copy", "unlink", "insert", "block", "send"}
UserPcs  == {"idle", "copy back", "decide restored", "remove", "decide deleted"}

TypeOK ==
  /\ disk \in [Paths -> Files \cup {None}]
  /\ vault \in [Ids -> Files \cup {None}]
  /\ rows \in [Ids -> Rows \cup {None}]
  /\ mover \in [Movers -> [pc : MoverPcs, path : Paths \cup {None},
                           id : Ids \cup {None}, sha : Files \cup {None}]]
  /\ user \in [Users -> [pc : UserPcs, id : Ids \cup {None}]]
  /\ blocked \subseteq Paths
  /\ taken \subseteq Contents /\ discarded \subseteq Contents
  /\ confirmed \subseteq Ids /\ putBack \subseteq Ids

InVault(c) == \E i \in Ids : vault[i] = c

\* "Nothing is auto-deleted": every content the program has taken from a path,
\* by quarantining the file or by restoring over it, is in the vault unless a
\* user confirmed the deletion of a copy of it, whichever file operations fail
\* and wherever a process is killed.
NothingLost == \A c \in taken : InVault(c) \/ c \in discarded

\* A row can be trusted: it has its copy until a user confirms the deletion,
\* and a row that says deleted has no copy left.
VaultMatchesRows ==
  \A i \in Ids : rows[i] # None =>
    /\ vault[i] = None => i \in confirmed
    /\ rows[i].decision = "deleted" => vault[i] = None

\* A row says restored only when its copy was written back whole: is_restored
\* never exempts content that no user got back.
RestoredWasPutBack ==
  \A i \in Ids : rows[i] # None /\ rows[i].decision = "restored" => i \in putBack

\* add_block protects Microsoft binaries: the path of one is not blocked.
MicrosoftNotBlocked ==
  \A i \in Ids : rows[i] # None /\ rows[i].sha \in Microsoft => rows[i].path \notin blocked

\* "Unblock kernel driver first so destination is accessible": a restore comes to
\* its copy with the original path unblocked.
RestoreUnblocks ==
  [][\A u \in Users, i \in Ids : Restore(u, i) => Accessible(rows[i].path)']_vars
=============================================================================
