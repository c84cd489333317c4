-------------------------- MODULE QuarantineProofs --------------------------
(***************************************************************************)
(* Proofs about Quarantine, for every number of scans and interfaces, and  *)
(* every set of paths, contents and ids.                                   *)
(*                                                                         *)
(* Inv holds whatever fails.  SafeInv needs a database that accepts its    *)
(* statements and files that only the program writes: the two runs that    *)
(* drop one of these find NothingLost violated.                            *)
(***************************************************************************)
EXTENDS Quarantine, TLAPS

MoverRecords == [pc : MoverPcs, path : Paths \cup {None},
                 id : Ids \cup {None}, sha : Files \cup {None}]
UserRecords  == [pc : UserPcs, id : Ids \cup {None}]

\* An id belongs to the one mover that drew it, from Hash to the end of add.
Owns(m) == mover[m].pc \in {"copy", "unlink", "insert"}

MoverInv ==
  \A m \in Movers :
    /\ At(m, "idle") \/ Path(m) \in Paths
    /\ Id(m) # None => Owns(m)
    /\ Owns(m) => Id(m) \in Ids /\ rows[Id(m)] = None
    /\ At(m, "copy") => vault[Id(m)] = None
    /\ At(m, "unlink") \/ At(m, "insert") => vault[Id(m)] # None

Distinct == \A m, n \in Movers : Owns(m) /\ Owns(n) /\ Id(m) = Id(n) => m = n

UserInv ==
  \A u \in Users :
    /\ Doing(u, "idle") \/ (Chosen(u) \in Ids /\ rows[Chosen(u)] # None)
    /\ Doing(u, "decide restored") => Chosen(u) \in putBack
    /\ Doing(u, "remove") \/ Doing(u, "decide deleted") => Chosen(u) \in confirmed
    /\ Doing(u, "decide deleted") => vault[Chosen(u)] = None

Inv == TypeOK /\ MoverInv /\ Distinct /\ UserInv /\ VaultMatchesRows /\ RestoredWasPutBack

\* A copy can still be rolled back while its mover has not unlinked the file.
Held(i) == \E m \in Movers : Id(m) = i /\ (At(m, "copy") \/ At(m, "unlink"))
Saved == {c \in Contents : c \in discarded \/ \E i \in Ids : vault[i] = c /\ ~Held(i)}
Harmless == Saved \cup {Torn, None}

\* Before the file is unlinked: it is the copy, or neither of them is the only
\* one of its content.
CopiedInv ==
  \A m \in Movers : At(m, "unlink") =>
    disk[Path(m)] = vault[Id(m)] \/ {disk[Path(m)], vault[Id(m)]} \subseteq Harmless

\* Once a file has been quarantined, what is at its path was put there by a
\* restore.
RestoredInv == \A i \in Ids : rows[i] # None => disk[rows[i].path] \in Harmless
InsertInv   == \A m \in Movers : At(m, "insert") => disk[Path(m)] \in Harmless

TakenInv == taken \subseteq Saved

SafeInv == CopiedInv /\ RestoredInv /\ InsertInv /\ TakenInv

-----------------------------------------------------------------------------
(* Types.                                                                  *)

LEMMA TypeInit == Init => TypeOK
BY NoneAssumption DEF Init, TypeOK, MoverStart, UserStart, MoverPcs, UserPcs, Files

LEMMA StartTyped == MoverStart \in MoverRecords /\ UserStart \in UserRecords
BY DEF MoverStart, UserStart, MoverRecords, UserRecords, MoverPcs, UserPcs

LEMMA StartAtTyped ==
  ASSUME NEW pc \in MoverPcs, NEW p \in Paths
  PROVE  [MoverStart EXCEPT !.pc = pc, !.path = p] \in MoverRecords
BY DEF MoverStart, MoverRecords

LEMMA ReturnsTyped ==
  ASSUME TypeOK, MoverInv, NEW m \in Movers, ~At(m, "idle"), AddReturns(m) \/ AddRaises(m)
  PROVE  mover' \in [Movers -> MoverRecords]
<1>1. mover \in [Movers -> MoverRecords] /\ Path(m) \in Paths /\ "block" \in MoverPcs
  BY DEF TypeOK, MoverRecords, MoverInv, MoverPcs
<1>2. CASE End(m)
  BY <1>1, <1>2, StartTyped DEF End
<1>3. CASE mover' = [mover EXCEPT ![m] = [MoverStart EXCEPT !.pc = "block", !.path = Path(m)]]
  <2> DEFINE new == [MoverStart EXCEPT !.pc = "block", !.path = Path(m)]
  <2>1. new \in MoverRecords
    BY <1>1, StartAtTyped
  <2> HIDE DEF new
  <2>2. mover' = [mover EXCEPT ![m] = new]
    BY <1>3 DEF new
  <2>3. QED  BY <1>1, <2>1, <2>2
<1>4. QED
  BY <1>2, <1>3 DEF AddReturns, AddRaises

LEMMA TypeStep ==
  ASSUME Inv, [Next]_vars
  PROVE  TypeOK'
<1>a. \A p \in Paths : [MoverStart EXCEPT !.pc = "add", !.path = p] \in MoverRecords
  <2>1. "add" \in MoverPcs
    BY DEF MoverPcs
  <2>2. QED  BY <2>1, StartAtTyped
<1>b. user \in [Users -> UserRecords] => \A u \in Users :
        [user EXCEPT ![u] = UserStart] \in [Users -> UserRecords]
  BY StartTyped
<1> USE StartTyped DEF Movers, history, TypeOK, MoverRecords, UserRecords, MoverPcs, UserPcs
<1>0. TypeOK /\ MoverInv /\ UserInv
  BY DEF Inv
<1>1. ASSUME NEW p \in Paths, FileSubject(p) \/ ProcessSubject(p) PROVE TypeOK'
  <2> DEFINE rec == [MoverStart EXCEPT !.pc = "add", !.path = p]
  <2>0. mover' = [mover EXCEPT ![Service] = rec]
    BY <1>1 DEF FileSubject, ProcessSubject, Respond
  <2>1. rec \in MoverRecords
    BY <1>a, Zenon
  <2> HIDE DEF rec
  <2>2. Service \in Movers /\ UNCHANGED <<disk, vault, rows, user, blocked, history>>
    BY <1>1 DEF FileSubject, ProcessSubject
  <2>3. QED  BY <1>0, <2>0, <2>1, <2>2
<1>2. ASSUME NEW m \in Movers, NEW p \in Paths, ScanResult(m, p) PROVE TypeOK'
  BY <1>0, <1>2 DEF ScanResult, Respond, MoverStart
<1>3. ASSUME NEW m \in Movers, NotAFile(m) PROVE TypeOK'
  <2>1. mover' \in [Movers -> MoverRecords]
    BY <1>0, <1>3, ReturnsTyped DEF NotAFile, RollBack, At
  <2>2. QED  BY <1>0, <1>3, <2>1 DEF NotAFile, RollBack
<1>4. ASSUME NEW m \in Movers, NEW i \in Ids, Hash(m, i) PROVE TypeOK'
  BY <1>0, <1>4 DEF Hash, Sha, At, Path, MoverInv
<1>5. ASSUME NEW m \in Movers, Copy(m) PROVE TypeOK'
  BY <1>0, <1>5 DEF Copy, Step, At, Path, Id, MoverInv
<1>6. ASSUME NEW m \in Movers, CopyFails(m) PROVE TypeOK'
  <2>1. mover' \in [Movers -> MoverRecords]
    BY <1>0, <1>6, ReturnsTyped DEF CopyFails, RollBack, At
  <2>2. QED  BY <1>0, <1>6, <2>1 DEF CopyFails, RollBack, Files, Id
<1>7. ASSUME NEW m \in Movers, Unlink(m) PROVE TypeOK'
  BY <1>0, <1>7 DEF Unlink, Step, At, Path, Files, MoverInv
<1>8. ASSUME NEW m \in Movers, UnlinkFails(m) PROVE TypeOK'
  <2>1. mover' \in [Movers -> MoverRecords]
    BY <1>0, <1>8, ReturnsTyped DEF UnlinkFails, RollBack, At
  <2>2. Id(m) \in Ids /\ vault[Id(m)] \in Files \cup {None}
    BY <1>0, <1>8 DEF UnlinkFails, MoverInv, Owns, At
  <2>3. vault' \in [Ids -> Files \cup {None}]
    <3>1. PICK left \in Files \cup {None} : vault' = [vault EXCEPT ![Id(m)] = left]
      BY <1>8, <2>2 DEF UnlinkFails, RollBack
    <3>2. QED  BY <1>0, <2>2, <3>1
  <2>4. UNCHANGED <<disk, rows, user, blocked, history>>
    BY <1>8 DEF UnlinkFails
  <2>5. QED  BY <1>0, <2>1, <2>3, <2>4
<1>9. ASSUME NEW m \in Movers, Insert(m) PROVE TypeOK'
  <2>1. mover' \in [Movers -> MoverRecords]
    BY <1>0, <1>9, ReturnsTyped DEF Insert, RollBack, At
  <2>2. QED  BY <1>0, <1>9, <2>1 DEF Insert, RollBack, Row, Rows, MoverInv, Owns, At, Path, Id
<1>10. ASSUME NEW m \in Movers, InsertFails(m) PROVE TypeOK'
  <2>1. mover' \in [Movers -> MoverRecords]
    BY <1>0, <1>10, ReturnsTyped DEF InsertFails, RollBack, At
  <2>2. Id(m) \in Ids /\ vault' \in [Ids -> Files \cup {None}]
    BY <1>0, <1>10 DEF InsertFails, RollBack, Id, MoverInv, Owns, At
  <2>3. QED  BY <1>0, <1>10, <2>1, <2>2 DEF InsertFails
<1>11. ASSUME AddBlock PROVE TypeOK'
  <2>1. mover' \in [Movers -> MoverRecords]
    <3>1. CASE Verify
      BY <1>0, <3>1 DEF Verify, Step
    <3>2. CASE End(Service)
      BY <1>0, <3>2 DEF End
    <3>3. QED
      BY <1>11, <3>1, <3>2 DEF AddBlock, Refuse, Send, NotSent
  <2>2. Path(Service) \in Paths
    BY <1>0, <1>11 DEF AddBlock, Refuse, Verify, Send, NotSent, At, MoverInv
  <2>3. QED  BY <1>0, <1>11, <2>1, <2>2 DEF AddBlock, Refuse, Verify, Send, NotSent
<1>12. ASSUME NEW u \in Users, NEW i \in Ids, Restore(u, i) PROVE TypeOK'
  BY <1>0, <1>12 DEF Restore, Begin
<1>13. ASSUME NEW u \in Users, CopyBack(u) PROVE TypeOK'
  BY <1>0, <1>13 DEF CopyBack, Advance, Overwrite, Target, Chosen, Doing, Files, Rows, UserInv
<1>14. ASSUME NEW u \in Users, CopyBackFails(u) PROVE TypeOK'
  BY <1>0, <1>14 DEF CopyBackFails, Leave, Overwrite, Target, Chosen, Doing, Files, Rows, UserInv
<1>15. ASSUME NEW u \in Users, NEW i \in Ids, Delete(u, i) PROVE TypeOK'
  BY <1>0, <1>15 DEF Delete, Begin
<1>16. ASSUME NEW u \in Users, Remove(u) PROVE TypeOK'
  BY <1>0, <1>16 DEF Remove, Advance, Chosen, Doing, Files, UserInv
<1>17. ASSUME NEW u \in Users, RemoveFails(u) \/ NotDecided(u) PROVE TypeOK'
  <2>1. user' = [user EXCEPT ![u] = UserStart]
    BY <1>17 DEF RemoveFails, NotDecided, Leave
  <2>2. user' \in [Users -> UserRecords]
    BY <1>0, <1>b, <2>1
  <2>3. UNCHANGED <<disk, vault, rows, mover, blocked, history>>
    BY <1>17 DEF RemoveFails, NotDecided
  <2>4. QED  BY <1>0, <2>2, <2>3
<1>18. ASSUME NEW u \in Users, Decided(u) PROVE TypeOK'
  <2>1. Chosen(u) \in Ids /\ rows[Chosen(u)] \in Rows
    BY <1>0, <1>18 DEF Decided, Doing, UserInv
  <2>2. PICK d \in {"restored", "deleted"} : Decide(Chosen(u), d)
    BY <1>18 DEF Decided
  <2>3. rows' \in [Ids -> Rows \cup {None}]
    BY <1>0, <2>1, <2>2 DEF Decide, Rows
  <2>4. QED  BY <1>0, <1>18, <2>3 DEF Decided, Leave
<1>19. ASSUME NEW threads \in Processes, Kill(threads) PROVE TypeOK'
  BY <1>0, <1>19 DEF Kill
<1>20. ASSUME DriverUnload PROVE TypeOK'
  BY <1>0, <1>20 DEF DriverUnload
<1>21. ASSUME NEW p \in Paths, NEW c \in Contents, Write(p, c) PROVE TypeOK'
  BY <1>0, <1>21 DEF Write, Files
<1>22. ASSUME UNCHANGED vars PROVE TypeOK'
  BY <1>0, <1>22 DEF vars
<1>23. QED
  BY <1>1, <1>2, <1>3, <1>4, <1>5, <1>6, <1>7, <1>8, <1>9, <1>10, <1>11, <1>12, <1>13, <1>14, <1>15, <1>16, <1>17, <1>18, <1>19, <1>20, <1>21, <1>22 DEF Next, Add, UserStep, Environment

-----------------------------------------------------------------------------
(* The threads' locals agree with the vault and the table.                 *)

LEMMA ReturnsEffect ==
  ASSUME TypeOK, MoverInv, NEW m \in Movers, ~At(m, "idle"), AddReturns(m) \/ AddRaises(m)
  PROVE  /\ \A n \in Movers \ {m} : mover'[n] = mover[n]
         /\ mover'[m].id = None
         /\ mover'[m].pc \notin {"copy", "unlink", "insert"}
         /\ mover'[m].pc = "idle" \/ mover'[m].path \in Paths
<1>1. Path(m) \in Paths /\ mover = [n \in Movers |-> mover[n]]
  BY DEF TypeOK, MoverInv
<1>2. CASE End(m)
  BY <1>1, <1>2 DEF End, MoverStart
<1>3. CASE mover' = [mover EXCEPT ![m] = [MoverStart EXCEPT !.pc = "block", !.path = Path(m)]]
  BY <1>1, <1>3 DEF MoverStart
<1>4. QED
  BY <1>2, <1>3 DEF AddReturns, AddRaises

LEMMA MoverStep ==
  ASSUME Inv, [Next]_vars
  PROVE  MoverInv' /\ Distinct'
<1> USE NoneAssumption DEF Movers, Owns, At, Path, Id, Chosen, Doing
<1>0. /\ TypeOK /\ MoverInv /\ Distinct /\ UserInv
      /\ mover \in [Movers -> MoverRecords] /\ vault = [i \in Ids |-> vault[i]]
      /\ rows = [i \in Ids |-> rows[i]]
  BY DEF Inv, TypeOK, MoverRecords
<1> USE <1>0 DEF MoverInv, Distinct
<1>1. ASSUME NEW p \in Paths, FileSubject(p) \/ ProcessSubject(p) PROVE MoverInv' /\ Distinct'
  <2>1. /\ Service \in Movers /\ UNCHANGED <<vault, rows>>
        /\ mover' = [mover EXCEPT ![Service] = [MoverStart EXCEPT !.pc = "add", !.path = p]]
    BY <1>1 DEF FileSubject, ProcessSubject, Respond
  <2>2. /\ mover'[Service].pc = "add" /\ mover'[Service].path = p /\ mover'[Service].id = None
        /\ \A n \in Movers \ {Service} : mover'[n] = mover[n]
    BY <2>1 DEF MoverStart
  <2>3. QED  BY <2>1, <2>2
<1>2. ASSUME NEW m \in Movers, NEW p \in Paths, ScanResult(m, p) PROVE MoverInv' /\ Distinct'
  BY <1>2 DEF ScanResult, Respond, MoverStart, MoverRecords
<1>3. ASSUME NEW m \in Movers, NotAFile(m) PROVE MoverInv' /\ Distinct'
  <2>1. ~At(m, "idle") /\ (AddReturns(m) \/ AddRaises(m))
    BY <1>3 DEF NotAFile
  <2>2. /\ \A n \in Movers \ {m} : mover'[n] = mover[n]
        /\ mover'[m].id = None
        /\ mover'[m].pc \notin {"copy", "unlink", "insert"}
        /\ mover'[m].pc = "idle" \/ mover'[m].path \in Paths
    BY <2>1, ReturnsEffect
  <2>3. QED  BY <1>3, <2>2 DEF NotAFile, TypeOK
<1>4. ASSUME NEW m \in Movers, NEW i \in Ids, Hash(m, i) PROVE MoverInv' /\ Distinct'
  BY <1>4 DEF Hash, Fresh, MoverRecords
<1>5. ASSUME NEW m \in Movers, Copy(m) PROVE MoverInv' /\ Distinct'
  BY <1>5 DEF Copy, Step, MoverRecords
<1>6. ASSUME NEW m \in Movers, CopyFails(m) PROVE MoverInv' /\ Distinct'
  <2>1. ~At(m, "idle") /\ (AddReturns(m) \/ AddRaises(m))
    BY <1>6 DEF CopyFails, RollBack
  <2>2. /\ \A n \in Movers \ {m} : mover'[n] = mover[n]
        /\ mover'[m].id = None
        /\ mover'[m].pc \notin {"copy", "unlink", "insert"}
        /\ mover'[m].pc = "idle" \/ mover'[m].path \in Paths
    BY <2>1, ReturnsEffect
  <2>3. QED  BY <1>6, <2>2 DEF CopyFails, RollBack, TypeOK
<1>7. ASSUME NEW m \in Movers, Unlink(m) PROVE MoverInv' /\ Distinct'
  BY <1>7 DEF Unlink, Step, MoverRecords
<1>8. ASSUME NEW m \in Movers, UnlinkFails(m) PROVE MoverInv' /\ Distinct'
  <2>1. ~At(m, "idle") /\ (AddReturns(m) \/ AddRaises(m))
    BY <1>8 DEF UnlinkFails, RollBack
  <2>2. /\ \A n \in Movers \ {m} : mover'[n] = mover[n]
        /\ mover'[m].id = None
        /\ mover'[m].pc \notin {"copy", "unlink", "insert"}
        /\ mover'[m].pc = "idle" \/ mover'[m].path \in Paths
    BY <2>1, ReturnsEffect
  <2>3. /\ Id(m) \in Ids /\ UNCHANGED rows
        /\ \A i \in Ids \ {Id(m)} : vault'[i] = vault[i]
    BY <1>8 DEF UnlinkFails, RollBack
  <2>4. QED  BY <1>8, <2>2, <2>3 DEF UnlinkFails
<1>9. ASSUME NEW m \in Movers, Insert(m) PROVE MoverInv' /\ Distinct'
  <2>1. ~At(m, "idle") /\ (AddReturns(m) \/ AddRaises(m))
    BY <1>9 DEF Insert
  <2>2. /\ \A n \in Movers \ {m} : mover'[n] = mover[n]
        /\ mover'[m].id = None
        /\ mover'[m].pc \notin {"copy", "unlink", "insert"}
        /\ mover'[m].pc = "idle" \/ mover'[m].path \in Paths
    BY <2>1, ReturnsEffect
  <2>3. /\ Id(m) \in Ids /\ UNCHANGED vault
        /\ \A i \in Ids \ {Id(m)} : rows'[i] = rows[i]
    BY <1>9 DEF Insert
  <2>4. QED  BY <1>9, <2>2, <2>3 DEF Insert
<1>10. ASSUME NEW m \in Movers, InsertFails(m) PROVE MoverInv' /\ Distinct'
  <2>1. ~At(m, "idle") /\ (AddReturns(m) \/ AddRaises(m))
    BY <1>10 DEF InsertFails, RollBack
  <2>2. /\ \A n \in Movers \ {m} : mover'[n] = mover[n]
        /\ mover'[m].id = None
        /\ mover'[m].pc \notin {"copy", "unlink", "insert"}
        /\ mover'[m].pc = "idle" \/ mover'[m].path \in Paths
    BY <2>1, ReturnsEffect
  <2>3. QED  BY <1>10, <2>2 DEF InsertFails, RollBack, TypeOK
<1>11. ASSUME AddBlock PROVE MoverInv' /\ Distinct'
  BY <1>11 DEF AddBlock, Refuse, Verify, Send, NotSent, Step, End, MoverStart, MoverRecords
<1>12. ASSUME NEW u \in Users, NEW i \in Ids, Restore(u, i) PROVE MoverInv' /\ Distinct'
  BY <1>12 DEF Restore, MoverRecords
<1>13. ASSUME NEW u \in Users, CopyBack(u) PROVE MoverInv' /\ Distinct'
  BY <1>13 DEF CopyBack, MoverRecords
<1>14. ASSUME NEW u \in Users, CopyBackFails(u) PROVE MoverInv' /\ Distinct'
  BY <1>14 DEF CopyBackFails, MoverRecords
<1>15. ASSUME NEW u \in Users, NEW i \in Ids, Delete(u, i) PROVE MoverInv' /\ Distinct'
  BY <1>15 DEF Delete, MoverRecords
<1>16. ASSUME NEW u \in Users, Remove(u) PROVE MoverInv' /\ Distinct'
  BY <1>16 DEF Remove, MoverRecords, UserInv
<1>17. ASSUME NEW u \in Users, RemoveFails(u) \/ NotDecided(u) PROVE MoverInv' /\ Distinct'
  BY <1>17 DEF RemoveFails, NotDecided, MoverRecords
<1>18. ASSUME NEW u \in Users, Decided(u) PROVE MoverInv' /\ Distinct'
  <2>1. Chosen(u) \in Ids /\ rows[Chosen(u)] # None
    BY <1>18 DEF Decided, UserInv
  <2>2. \A i \in Ids \ {Chosen(u)} : rows'[i] = rows[i]
    BY <1>18 DEF Decided, Decide
  <2>3. UNCHANGED <<mover, vault>>
    BY <1>18 DEF Decided
  <2>4. QED  BY <2>1, <2>2, <2>3
<1>19. ASSUME NEW threads \in Processes, Kill(threads) PROVE MoverInv' /\ Distinct'
  BY <1>19 DEF Kill, MoverStart, MoverRecords
<1>20. ASSUME DriverUnload PROVE MoverInv' /\ Distinct'
  BY <1>20 DEF DriverUnload, MoverRecords
<1>21. ASSUME NEW p \in Paths, NEW c \in Contents, Write(p, c) PROVE MoverInv' /\ Distinct'
  BY <1>21 DEF Write, MoverRecords
<1>22. ASSUME UNCHANGED vars PROVE MoverInv' /\ Distinct'
  BY <1>22 DEF vars, MoverRecords
<1>23. QED
  BY <1>1, <1>2, <1>3, <1>4, <1>5, <1>6, <1>7, <1>8, <1>9, <1>10, <1>11, <1>12, <1>13, <1>14, <1>15, <1>16, <1>17, <1>18, <1>19, <1>20, <1>21, <1>22 DEF Next, Add, UserStep, Environment

LEMMA UserStepInv ==
  ASSUME Inv, [Next]_vars
  PROVE  UserInv' /\ VaultMatchesRows' /\ RestoredWasPutBack'
<1> USE NoneAssumption DEF Movers, Owns, At, Path, Id, Chosen, Doing
<1>0. /\ TypeOK /\ MoverInv /\ Distinct /\ UserInv /\ VaultMatchesRows /\ RestoredWasPutBack
      /\ user \in [Users -> UserRecords] /\ vault = [i \in Ids |-> vault[i]]
      /\ rows = [i \in Ids |-> rows[i]]
  BY DEF Inv, TypeOK, UserRecords
<1> USE <1>0 DEF UserInv, VaultMatchesRows, RestoredWasPutBack
<1>1. ASSUME NEW p \in Paths, FileSubject(p) \/ ProcessSubject(p)
      PROVE  UserInv' /\ VaultMatchesRows' /\ RestoredWasPutBack'
  BY <1>1 DEF FileSubject, ProcessSubject, history
<1>2. ASSUME NEW m \in Movers, NEW p \in Paths, ScanResult(m, p)
      PROVE  UserInv' /\ VaultMatchesRows' /\ RestoredWasPutBack'
  BY <1>2 DEF ScanResult, history
<1>3. ASSUME NEW m \in Movers, NotAFile(m)
      PROVE  UserInv' /\ VaultMatchesRows' /\ RestoredWasPutBack'
  BY <1>3 DEF NotAFile, history
<1>4. ASSUME NEW m \in Movers, NEW i \in Ids, Hash(m, i)
      PROVE  UserInv' /\ VaultMatchesRows' /\ RestoredWasPutBack'
  BY <1>4 DEF Hash, history
<1>5. ASSUME NEW m \in Movers, Copy(m)
      PROVE  UserInv' /\ VaultMatchesRows' /\ RestoredWasPutBack'
  BY <1>5 DEF Copy, MoverInv, history
<1>6. ASSUME NEW m \in Movers, CopyFails(m)
      PROVE  UserInv' /\ VaultMatchesRows' /\ RestoredWasPutBack'
  BY <1>6 DEF CopyFails, RollBack, MoverInv, history
<1>7. ASSUME NEW m \in Movers, Unlink(m)
      PROVE  UserInv' /\ VaultMatchesRows' /\ RestoredWasPutBack'
  BY <1>7 DEF Unlink
<1>8. ASSUME NEW m \in Movers, UnlinkFails(m)
      PROVE  UserInv' /\ VaultMatchesRows' /\ RestoredWasPutBack'
  BY <1>8 DEF UnlinkFails, RollBack, MoverInv, history
<1>9. ASSUME NEW m \in Movers, Insert(m)
      PROVE  UserInv' /\ VaultMatchesRows' /\ RestoredWasPutBack'
  <2> DEFINE row == Row(Path(m), mover[m].sha)
  <2>0. Path(m) \in Paths /\ mover[m].sha \in Files \cup {None}
    BY <1>9 DEF Insert, MoverInv, TypeOK
  <2>1. row \in Rows /\ row # None /\ row.decision = "pending"
    <3>1. row \in Rows /\ row.decision = "pending"
      BY <2>0 DEF Row, Rows
    <3>2. QED  BY <3>1
  <2>2. /\ Id(m) \in Ids /\ vault[Id(m)] # None /\ rows[Id(m)] = None
        /\ rows'[Id(m)] = row /\ \A i \in Ids \ {Id(m)} : rows'[i] = rows[i]
    BY <1>9 DEF Insert, MoverInv
  <2>3. UNCHANGED <<vault, user, confirmed, discarded, putBack>>
    BY <1>9 DEF Insert, history
  <2> HIDE DEF row
  <2>4. QED  BY <2>1, <2>2, <2>3
<1>10. ASSUME NEW m \in Movers, InsertFails(m)
      PROVE  UserInv' /\ VaultMatchesRows' /\ RestoredWasPutBack'
  BY <1>10 DEF InsertFails, RollBack, MoverInv, history
<1>11. ASSUME AddBlock
      PROVE  UserInv' /\ VaultMatchesRows' /\ RestoredWasPutBack'
  BY <1>11 DEF AddBlock, Refuse, Verify, Send, NotSent, history
<1>12. ASSUME NEW u \in Users, NEW i \in Ids, Restore(u, i)
      PROVE  UserInv' /\ VaultMatchesRows' /\ RestoredWasPutBack'
  BY <1>12 DEF Restore, Begin, history
<1>13. ASSUME NEW u \in Users, CopyBack(u)
      PROVE  UserInv' /\ VaultMatchesRows' /\ RestoredWasPutBack'
  BY <1>13 DEF CopyBack, Advance, UserRecords
<1>14. ASSUME NEW u \in Users, CopyBackFails(u)
      PROVE  UserInv' /\ VaultMatchesRows' /\ RestoredWasPutBack'
  BY <1>14 DEF CopyBackFails, Leave, UserStart
<1>15. ASSUME NEW u \in Users, NEW i \in Ids, Delete(u, i)
      PROVE  UserInv' /\ VaultMatchesRows' /\ RestoredWasPutBack'
  BY <1>15 DEF Delete, Begin
<1>16. ASSUME NEW u \in Users, Remove(u)
      PROVE  UserInv' /\ VaultMatchesRows' /\ RestoredWasPutBack'
  <2>1. user' = [user EXCEPT ![u].pc = "decide deleted"] /\ user[u].pc = "remove"
    BY <1>16 DEF Remove, Advance
  <2>2. /\ vault' = [vault EXCEPT ![user[u].id] = None]
        /\ UNCHANGED <<rows, confirmed, putBack>>
    BY <1>16 DEF Remove
  <2>3. user[u].id \in Ids /\ user[u].id \in confirmed /\ rows[user[u].id] # None
    BY <2>1
  <2>4. \A i \in Ids : vault'[i] = IF i = user[u].id THEN None ELSE vault[i]
    BY <2>2, <2>3
  <2>5. \A w \in Users : /\ user'[w].id = user[w].id
                         /\ user'[w].pc = IF w = u THEN "decide deleted" ELSE user[w].pc
    BY <2>1 DEF UserRecords
  <2>6. UserInv'
    <3> SUFFICES ASSUME NEW w \in Users
                 PROVE  /\ Doing(w, "idle")' \/ (Chosen(w)' \in Ids /\ rows'[Chosen(w)'] # None)
                        /\ Doing(w, "decide restored")' => Chosen(w)' \in putBack'
                        /\ Doing(w, "remove")' \/ Doing(w, "decide deleted")' => Chosen(w)' \in confirmed'
                        /\ Doing(w, "decide deleted")' => vault'[Chosen(w)'] = None
      OBVIOUS
    <3>1. CASE w = u
      <4>1. user'[w].pc = "decide deleted" /\ user'[w].id = user[u].id
        BY <2>5, <3>1
      <4>2. rows'[user'[w].id] # None /\ vault'[user'[w].id] = None /\ confirmed' = confirmed
        BY <2>2, <2>3, <2>4, <4>1
      <4>3. QED  BY <2>3, <4>1, <4>2
    <3>2. CASE w # u
      BY <2>2, <2>4, <2>5, <3>2
    <3>3. QED  BY <3>1, <3>2
  <2>7. VaultMatchesRows' /\ RestoredWasPutBack'
    BY <2>2, <2>3, <2>4
  <2>8. QED  BY <2>6, <2>7
<1>17. ASSUME NEW u \in Users, RemoveFails(u) \/ NotDecided(u)
      PROVE  UserInv' /\ VaultMatchesRows' /\ RestoredWasPutBack'
  <2>1. UNCHANGED <<vault, rows, confirmed, discarded, putBack>> /\ Leave(u)
    BY <1>17 DEF RemoveFails, NotDecided, history
  <2>2. /\ user'[u].pc = "idle"
        /\ \A v \in Users \ {u} : user'[v] = user[v]
    BY <2>1 DEF Leave, UserStart
  <2>3. QED  BY <2>1, <2>2
<1>18. ASSUME NEW u \in Users, Decided(u)
      PROVE  UserInv' /\ VaultMatchesRows' /\ RestoredWasPutBack'
  <2> DEFINE i == Chosen(u)
  <2>1. PICK d \in {"restored", "deleted"} :
          /\ Decide(i, d)
          /\ d = "restored" => Doing(u, "decide restored")
          /\ d = "deleted" => Doing(u, "decide deleted")
    BY <1>18 DEF Decided
  <2>2. i \in Ids /\ rows[i] \in Rows
    BY <1>18 DEF Decided, TypeOK
  <2>3. /\ rows'[i] \in Rows /\ rows'[i].decision = d
        /\ \A j \in Ids \ {i} : rows'[j] = rows[j]
    BY <2>1, <2>2 DEF Decide, Rows
  <2>4. rows'[i] # None
    BY <2>3
  <2>5. UNCHANGED <<vault, confirmed, discarded, putBack>> /\ Leave(u)
    BY <1>18 DEF Decided, history
  <2>6. /\ user'[u].pc = "idle"
        /\ \A v \in Users \ {u} : user'[v] = user[v]
    BY <2>5 DEF Leave, UserStart
  <2> HIDE DEF i
  <2>7. UserInv'
    BY <2>3, <2>4, <2>5, <2>6
  <2>8. (vault[i] = None => i \in confirmed) /\ (d = "deleted" => vault[i] = None)
    BY <2>1, <2>2 DEF i
  <2>9. VaultMatchesRows'
    BY <2>3, <2>5, <2>8
  <2>10. d = "restored" => i \in putBack
    BY <2>1 DEF i
  <2>11. RestoredWasPutBack'
    BY <2>3, <2>5, <2>10
  <2>12. QED  BY <2>7, <2>9, <2>11
<1>19. ASSUME NEW threads \in Processes, Kill(threads)
      PROVE  UserInv' /\ VaultMatchesRows' /\ RestoredWasPutBack'
  BY <1>19 DEF Kill, UserStart, history
<1>20. ASSUME DriverUnload
      PROVE  UserInv' /\ VaultMatchesRows' /\ RestoredWasPutBack'
  BY <1>20 DEF DriverUnload, history
<1>21. ASSUME NEW p \in Paths, NEW c \in Contents, Write(p, c)
      PROVE  UserInv' /\ VaultMatchesRows' /\ RestoredWasPutBack'
  BY <1>21 DEF Write, history
<1>22. ASSUME UNCHANGED vars
      PROVE  UserInv' /\ VaultMatchesRows' /\ RestoredWasPutBack'
  BY <1>22 DEF vars, history
<1>23. QED
  BY <1>1, <1>2, <1>3, <1>4, <1>5, <1>6, <1>7, <1>8, <1>9, <1>10, <1>11, <1>12, <1>13, <1>14, <1>15, <1>16, <1>17, <1>18, <1>19, <1>20, <1>21, <1>22 DEF Next, Add, UserStep, Environment

-----------------------------------------------------------------------------
(* Whatever fails.                                                         *)

LEMMA InvInit == Init => Inv
<1> SUFFICES ASSUME Init PROVE Inv
  OBVIOUS
<1>1. TypeOK
  BY TypeInit
<1>2. MoverInv /\ Distinct
  BY NoneAssumption DEF Init, MoverInv, Distinct, Owns, At, Path, Id, MoverStart
<1>3. UserInv
  BY DEF Init, UserInv, Doing, UserStart
<1>4. VaultMatchesRows /\ RestoredWasPutBack
  BY DEF Init, VaultMatchesRows, RestoredWasPutBack
<1>5. QED
  BY <1>1, <1>2, <1>3, <1>4 DEF Inv

LEMMA InvStep == Inv /\ [Next]_vars => Inv'
<1> SUFFICES ASSUME Inv, [Next]_vars PROVE Inv'
  OBVIOUS
<1>1. QED
  BY TypeStep, MoverStep, UserStepInv DEF Inv

\* What holds of ids, copies and rows in every state, whatever fails.
THEOREM Invariance == Spec => []Inv
BY InvInit, InvStep, PTL DEF Spec

\* Type correctness of the vault, for every number of threads.
THEOREM TypeCorrect == Spec => []TypeOK
<1>1. Inv => TypeOK
  BY DEF Inv
<1>2. QED
  BY Invariance, <1>1, PTL

\* A row has its copy until a user confirms the deletion, whichever operations
\* fail and wherever the processes are killed.
THEOREM RowsTrusted == Spec => []VaultMatchesRows
<1>1. Inv => VaultMatchesRows
  BY DEF Inv
<1>2. QED
  BY Invariance, <1>1, PTL

\* A row says restored only when its copy was written back whole.
THEOREM RestoredTrusted == Spec => []RestoredWasPutBack
<1>1. Inv => RestoredWasPutBack
  BY DEF Inv
<1>2. QED
  BY Invariance, <1>1, PTL

-----------------------------------------------------------------------------
(* When no statement fails and no other program writes.                    *)

NoFaults == ~DbFails /\ ~Writes

LEMMA SafeInit == Init => SafeInv
BY DEF Init, SafeInv, CopiedInv, RestoredInv, InsertInv, TakenInv, At, MoverStart

LEMMA SavedSame ==
  ASSUME UNCHANGED <<mover, vault, discarded>>
  PROVE  Saved' = Saved
BY DEF Saved, Held, Id, At

\* What has a copy that nothing rolls back keeps one, or a user has it deleted.
LEMMA SavedGrows ==
  ASSUME NoFaults, Inv, [Next]_vars
  PROVE  Saved \subseteq Saved'
<1> USE NoneAssumption, ContentsAssumption DEF Movers, At, Path, Id, Chosen, Doing, history, Saved, Held
<1>0. /\ TypeOK /\ MoverInv /\ Distinct /\ UserInv
      /\ mover \in [Movers -> MoverRecords] /\ vault = [i \in Ids |-> vault[i]]
      /\ \A i \in Ids : vault[i] \in Files \cup {None}
  BY DEF Inv, TypeOK, MoverRecords
<1> USE <1>0
<1>1. ASSUME NEW p \in Paths, FileSubject(p) \/ ProcessSubject(p) PROVE Saved \subseteq Saved'
  <2>1. /\ Service \in Movers /\ UNCHANGED <<vault, discarded>>
        /\ mover' = [mover EXCEPT ![Service] = [MoverStart EXCEPT !.pc = "add", !.path = p]]
    BY <1>1 DEF FileSubject, ProcessSubject, Respond
  <2>2. /\ mover'[Service].pc = "add"
        /\ \A n \in Movers \ {Service} : mover'[n] = mover[n]
    BY <2>1 DEF MoverStart
  <2>3. QED  BY <2>1, <2>2
<1>2. ASSUME NEW m \in Movers, NEW p \in Paths, ScanResult(m, p) PROVE Saved \subseteq Saved'
  BY <1>2 DEF ScanResult, Respond, MoverStart, MoverRecords
<1>3. ASSUME NEW m \in Movers, NotAFile(m) PROVE Saved \subseteq Saved'
  <2>1. ~At(m, "idle") /\ (AddReturns(m) \/ AddRaises(m))
    BY <1>3 DEF NotAFile
  <2>2. /\ \A n \in Movers \ {m} : mover'[n] = mover[n]
        /\ mover'[m].pc \notin {"copy", "unlink", "insert"}
    BY <2>1, ReturnsEffect
  <2>3. UNCHANGED discarded /\ \A i \in Ids : vault'[i] = vault[i] \/ Held(i)
    BY <1>3 DEF NotAFile
  <2>4. QED  BY <2>2, <2>3
<1>4. ASSUME NEW m \in Movers, NEW i \in Ids, Hash(m, i) PROVE Saved \subseteq Saved'
  BY <1>4 DEF Hash, Fresh, Files, MoverRecords
<1>5. ASSUME NEW m \in Movers, Copy(m) PROVE Saved \subseteq Saved'
  BY <1>5 DEF Copy, Step, MoverRecords
<1>6. ASSUME NEW m \in Movers, CopyFails(m) PROVE Saved \subseteq Saved'
  <2>1. ~At(m, "idle") /\ (AddReturns(m) \/ AddRaises(m))
    BY <1>6 DEF CopyFails, RollBack
  <2>2. /\ \A n \in Movers \ {m} : mover'[n] = mover[n]
        /\ mover'[m].pc \notin {"copy", "unlink", "insert"}
    BY <2>1, ReturnsEffect
  <2>3. UNCHANGED discarded /\ \A i \in Ids : vault'[i] = vault[i] \/ Held(i)
    BY <1>6 DEF CopyFails, RollBack
  <2>4. QED  BY <2>2, <2>3
<1>7. ASSUME NEW m \in Movers, Unlink(m) PROVE Saved \subseteq Saved'
  BY <1>7 DEF Unlink, Step, MoverRecords
<1>8. ASSUME NEW m \in Movers, UnlinkFails(m) PROVE Saved \subseteq Saved'
  <2>1. ~At(m, "idle") /\ (AddReturns(m) \/ AddRaises(m))
    BY <1>8 DEF UnlinkFails, RollBack
  <2>2. /\ \A n \in Movers \ {m} : mover'[n] = mover[n]
        /\ mover'[m].pc \notin {"copy", "unlink", "insert"}
    BY <2>1, ReturnsEffect
  <2>3. UNCHANGED discarded /\ \A i \in Ids : vault'[i] = vault[i] \/ Held(i)
    BY <1>8 DEF UnlinkFails, RollBack
  <2>4. QED  BY <2>2, <2>3
<1>9. ASSUME NEW m \in Movers, Insert(m) PROVE Saved \subseteq Saved'
  <2>1. ~At(m, "idle") /\ (AddReturns(m) \/ AddRaises(m))
    BY <1>9 DEF Insert
  <2>2. /\ \A n \in Movers \ {m} : mover'[n] = mover[n]
        /\ mover'[m].pc \notin {"copy", "unlink", "insert"}
    BY <2>1, ReturnsEffect
  <2>3. UNCHANGED discarded /\ \A i \in Ids : vault'[i] = vault[i] \/ Held(i)
    BY <1>9 DEF Insert
  <2>4. QED  BY <2>2, <2>3
<1>10. ASSUME NEW m \in Movers, InsertFails(m) PROVE Saved \subseteq Saved'
  BY <1>10 DEF InsertFails, NoFaults, MoverRecords
<1>11. ASSUME AddBlock PROVE Saved \subseteq Saved'
  BY <1>11 DEF AddBlock, Refuse, Verify, Send, NotSent, Step, End, MoverStart, MoverRecords
<1>12. ASSUME NEW u \in Users, NEW i \in Ids, Restore(u, i) PROVE Saved \subseteq Saved'
  BY <1>12, SavedSame DEF Restore
<1>13. ASSUME NEW u \in Users, CopyBack(u) PROVE Saved \subseteq Saved'
  BY <1>13, SavedSame DEF CopyBack
<1>14. ASSUME NEW u \in Users, CopyBackFails(u) PROVE Saved \subseteq Saved'
  BY <1>14, SavedSame DEF CopyBackFails
<1>15. ASSUME NEW u \in Users, NEW i \in Ids, Delete(u, i) PROVE Saved \subseteq Saved'
  BY <1>15, SavedSame DEF Delete
<1>16. ASSUME NEW u \in Users, Remove(u) PROVE Saved \subseteq Saved'
  <2>1. PICK i \in Ids :
          /\ vault' = [vault EXCEPT ![i] = None]
          /\ discarded' = discarded \cup ({vault[i]} \ {Torn, None})
    BY <1>16 DEF Remove, UserInv
  <2>2. UNCHANGED mover
    BY <1>16 DEF Remove
  <2>3. SUFFICES ASSUME NEW c \in Saved PROVE c \in Saved'
    OBVIOUS
  <2>4. CASE c \in discarded \/ c = vault[i]
    <3>1. c \in Contents /\ c # Torn /\ c # None
      BY DEF Files
    <3>2. c \in discarded'
      BY <2>1, <2>4, <3>1
    <3>3. QED  BY <3>1, <3>2
  <2>5. CASE c \notin discarded /\ c # vault[i]
    <3>1. PICK j \in Ids : vault[j] = c /\ ~Held(j)
      BY <2>5
    <3>2. vault'[j] = c /\ ~Held(j)'
      BY <2>1, <2>2, <2>5, <3>1
    <3>3. QED  BY <3>2
  <2>6. QED  BY <2>4, <2>5
<1>17. ASSUME NEW u \in Users, RemoveFails(u) \/ NotDecided(u) PROVE Saved \subseteq Saved'
  BY <1>17, SavedSame DEF RemoveFails, NotDecided
<1>18. ASSUME NEW u \in Users, Decided(u) PROVE Saved \subseteq Saved'
  BY <1>18, SavedSame DEF Decided
<1>19. ASSUME NEW threads \in Processes, Kill(threads) PROVE Saved \subseteq Saved'
  <2>1. UNCHANGED <<vault, discarded>>
    BY <1>19 DEF Kill
  <2>2. \A m \in Movers : mover'[m] = mover[m] \/ mover'[m].pc = "idle"
    BY <1>19 DEF Kill, MoverStart
  <2>3. QED  BY <2>1, <2>2
<1>20. ASSUME DriverUnload PROVE Saved \subseteq Saved'
  BY <1>20, SavedSame DEF DriverUnload
<1>21. ASSUME NEW p \in Paths, NEW c \in Contents, Write(p, c) PROVE Saved \subseteq Saved'
  BY <1>21 DEF Write, NoFaults, MoverRecords
<1>22. ASSUME UNCHANGED vars PROVE Saved \subseteq Saved'
  BY <1>22, SavedSame DEF vars
<1>23. QED
  BY <1>1, <1>2, <1>3, <1>4, <1>5, <1>6, <1>7, <1>8, <1>9, <1>10, <1>11, <1>12, <1>13, <1>14, <1>15, <1>16, <1>17, <1>18, <1>19, <1>20, <1>21, <1>22 DEF Next, Add, UserStep, Environment

\* A write to one path, of something harmless over something harmless.
LEMMA HarmlessWrite ==
  ASSUME Inv, SafeInv, Saved \subseteq Saved', NEW u \in Users, Chosen(u) \in Ids,
         rows[Chosen(u)] # None, NEW f, f \in Harmless, Overwrite(u, f),
         UNCHANGED <<mover, vault, rows>>
  PROVE  SafeInv'
<1> DEFINE p == rows[Chosen(u)].path
<1>1. disk[p] \in Harmless /\ taken' = taken \cup ({disk[p]} \ {Torn, None})
  BY DEF SafeInv, RestoredInv, Overwrite, Target
<1>2. \A q \in Paths : disk'[q] = disk[q] \/ (q = p /\ disk'[q] = f)
  BY DEF Overwrite, Target, Inv, TypeOK
<1>3. Harmless \subseteq Harmless'
  BY DEF Harmless
<1>4. TakenInv'
  BY <1>1 DEF SafeInv, TakenInv, Harmless
<1>5. \A i \in Ids : rows[i] # None => rows[i].path \in Paths
  BY DEF Inv, TypeOK, Rows
<1>6. RestoredInv'
  BY <1>2, <1>3, <1>5 DEF SafeInv, RestoredInv
<1>7. \A m \in Movers : At(m, "unlink") \/ At(m, "insert") => Path(m) \in Paths
  BY DEF Inv, MoverInv, At
<1>8. InsertInv'
  BY <1>2, <1>3, <1>7 DEF SafeInv, InsertInv, At, Path
<1>9. CopiedInv'
  BY <1>1, <1>2, <1>3, <1>7 DEF SafeInv, CopiedInv, At, Path, Id
<1>10. QED
  BY <1>4, <1>6, <1>8, <1>9 DEF SafeInv

LEMMA SafeStep ==
  ASSUME NoFaults, Inv, SafeInv, [Next]_vars
  PROVE  SafeInv'
<1> USE DEF Movers, At, Path, Id, Chosen, Doing, history
<1>0. /\ TypeOK /\ MoverInv /\ Distinct /\ UserInv
      /\ CopiedInv /\ RestoredInv /\ InsertInv /\ TakenInv
      /\ mover \in [Movers -> MoverRecords] /\ vault = [i \in Ids |-> vault[i]]
      /\ disk = [p \in Paths |-> disk[p]] /\ rows = [i \in Ids |-> rows[i]]
  BY DEF Inv, SafeInv, TypeOK, MoverRecords
<1>a. Saved \subseteq Saved' /\ Harmless \subseteq Harmless'
  BY SavedGrows DEF Harmless
<1>b. ASSUME UNCHANGED <<disk, vault, rows, taken>>,
             \A n \in Movers : \/ mover'[n] = mover[n]
                                \/ mover'[n].pc \notin {"unlink", "insert"}
      PROVE  SafeInv'
  BY <1>0, <1>a, <1>b DEF SafeInv, CopiedInv, RestoredInv, InsertInv, TakenInv
<1>1. ASSUME NEW p \in Paths, FileSubject(p) \/ ProcessSubject(p) PROVE SafeInv'
  <2>1. /\ Service \in Movers /\ UNCHANGED <<disk, vault, rows, taken>>
        /\ mover' = [mover EXCEPT ![Service] = [MoverStart EXCEPT !.pc = "add", !.path = p]]
    BY <1>1 DEF FileSubject, ProcessSubject, Respond
  <2>2. /\ mover'[Service].pc = "add"
        /\ \A n \in Movers \ {Service} : mover'[n] = mover[n]
    BY <1>0, <2>1 DEF MoverStart
  <2>3. QED  BY <1>b, <2>1, <2>2
<1>2. ASSUME NEW m \in Movers, NEW p \in Paths, ScanResult(m, p) PROVE SafeInv'
  BY <1>0, <1>b, <1>2 DEF ScanResult, Respond, MoverStart
<1>3. ASSUME NEW m \in Movers, NotAFile(m) PROVE SafeInv'
  <2>1. ~At(m, "idle") /\ (AddReturns(m) \/ AddRaises(m))
    BY <1>3 DEF NotAFile
  <2>2. /\ \A n \in Movers \ {m} : mover'[n] = mover[n]
        /\ mover'[m].pc \notin {"copy", "unlink", "insert"}
    BY <1>0, <2>1, ReturnsEffect
  <2>3. QED  BY <1>3, <1>b, <2>2 DEF NotAFile
<1>4. ASSUME NEW m \in Movers, NEW i \in Ids, Hash(m, i) PROVE SafeInv'
  BY <1>0, <1>b, <1>4 DEF Hash, MoverRecords
<1>5. ASSUME NEW m \in Movers, Copy(m) PROVE SafeInv'
  <2>1. /\ UNCHANGED <<disk, rows, taken>> /\ Id(m) \in Ids
        /\ vault'[Id(m)] = disk[Path(m)] /\ \A i \in Ids \ {Id(m)} : vault'[i] = vault[i]
        /\ mover'[m].pc = "unlink" /\ mover'[m].id = Id(m) /\ mover'[m].path = Path(m)
        /\ \A n \in Movers \ {m} : mover'[n] = mover[n]
    BY <1>0, <1>5 DEF Copy, Step, MoverInv, Owns, MoverRecords
  <2>2. \A n \in Movers \ {m} : At(n, "unlink") => Id(n) \in Ids \ {Id(m)}
    BY <1>0, <1>5 DEF Copy, MoverInv, Distinct, Owns
  <2>3. QED
    BY <1>0, <1>a, <2>1, <2>2 DEF SafeInv, CopiedInv, RestoredInv, InsertInv, TakenInv
<1>6. ASSUME NEW m \in Movers, CopyFails(m) PROVE SafeInv'
  <2>1. ~At(m, "idle") /\ (AddReturns(m) \/ AddRaises(m))
    BY <1>6 DEF CopyFails, RollBack
  <2>2. /\ \A n \in Movers \ {m} : mover'[n] = mover[n]
        /\ mover'[m].pc \notin {"copy", "unlink", "insert"}
    BY <1>0, <2>1, ReturnsEffect
  <2>3. /\ UNCHANGED <<disk, rows, taken>>
        /\ \A i \in Ids \ {Id(m)} : vault'[i] = vault[i]
    BY <1>0, <1>6 DEF CopyFails, RollBack
  <2>4. \A n \in Movers \ {m} : At(n, "unlink") => Id(n) \in Ids \ {Id(m)}
    BY <1>0, <1>6 DEF CopyFails, MoverInv, Distinct, Owns
  <2>5. QED
    BY <1>0, <1>a, <2>2, <2>3, <2>4 DEF SafeInv, CopiedInv, RestoredInv, InsertInv, TakenInv
<1>7. ASSUME NEW m \in Movers, Unlink(m) PROVE SafeInv'
  <2> DEFINE p == Path(m)
             d == disk[p]
  <2>1. /\ p \in Paths /\ Id(m) \in Ids /\ UNCHANGED <<vault, rows>>
        /\ taken' = taken \cup ({d} \ {Torn, None})
        /\ disk'[p] = None /\ \A q \in Paths \ {p} : disk'[q] = disk[q]
        /\ mover'[m].pc = "insert" /\ mover'[m].path = p /\ mover'[m].id = Id(m)
        /\ \A n \in Movers \ {m} : mover'[n] = mover[n]
    BY <1>0, <1>7 DEF Unlink, Step, MoverInv, Owns, MoverRecords
  <2>2. vault[Id(m)] \in Harmless'
    <3>1. vault[Id(m)] \in Files \cup {None}
      BY <1>0, <2>1 DEF TypeOK
    <3>2. ASSUME NEW n \in Movers, mover'[n].id = Id(m)
          PROVE  mover'[n].pc \notin {"copy", "unlink"}
      BY <1>0, <1>7, <2>1, <3>2 DEF Unlink, Distinct, Owns
    <3>3. QED  BY <2>1, <3>1, <3>2 DEF Harmless, Saved, Held, Files
  <2>3. d \in Harmless'
    BY <1>0, <1>7, <1>a, <2>2 DEF Unlink, CopiedInv
  <2>4. TakenInv'
    BY <1>0, <1>a, <2>1, <2>3 DEF TakenInv, Harmless
  <2>5. \A q \in Paths : disk'[q] = disk[q] \/ disk'[q] \in Harmless'
    BY <2>1 DEF Harmless
  <2>6. \A i \in Ids : rows[i] # None => rows[i].path \in Paths
    BY <1>0 DEF TypeOK, Rows
  <2>7. RestoredInv'
    BY <1>0, <1>a, <2>1, <2>5, <2>6 DEF RestoredInv
  <2>8. \A n \in Movers : At(n, "unlink") \/ At(n, "insert") => Path(n) \in Paths
    BY <1>0 DEF MoverInv
  <2>9. InsertInv'
    BY <1>0, <1>a, <2>1, <2>5, <2>8 DEF InsertInv, Harmless
  <2>10. ASSUME NEW n \in Movers, At(n, "unlink")'
         PROVE  \/ disk'[Path(n)'] = vault'[Id(n)']
                \/ {disk'[Path(n)'], vault'[Id(n)']} \subseteq Harmless'
    <3>1. n # m /\ mover'[n] = mover[n] /\ Path(n) \in Paths
      BY <2>1, <2>8, <2>10
    <3>2. CASE Path(n) = p
      <4>1. disk'[p] \in Harmless'
        BY <2>1 DEF Harmless
      <4>2. vault[Id(n)] \in Harmless'
        BY <1>0, <1>a, <2>3, <2>10, <3>1, <3>2 DEF CopiedInv
      <4>3. QED  BY <2>1, <3>1, <3>2, <4>1, <4>2
    <3>3. CASE Path(n) # p
      BY <1>0, <1>a, <2>1, <2>10, <3>1, <3>3 DEF CopiedInv
    <3>4. QED  BY <3>2, <3>3
  <2>11. CopiedInv'
    BY <2>10 DEF CopiedInv
  <2>12. QED  BY <2>4, <2>7, <2>9, <2>11 DEF SafeInv
<1>8. ASSUME NEW m \in Movers, UnlinkFails(m) PROVE SafeInv'
  <2>1. ~At(m, "idle") /\ (AddReturns(m) \/ AddRaises(m))
    BY <1>8 DEF UnlinkFails, RollBack
  <2>2. /\ \A n \in Movers \ {m} : mover'[n] = mover[n]
        /\ mover'[m].pc \notin {"copy", "unlink", "insert"}
    BY <1>0, <2>1, ReturnsEffect
  <2>3. /\ UNCHANGED <<disk, rows, taken>>
        /\ \A i \in Ids \ {Id(m)} : vault'[i] = vault[i]
    BY <1>0, <1>8 DEF UnlinkFails, RollBack
  <2>4. \A n \in Movers \ {m} : At(n, "unlink") => Id(n) \in Ids \ {Id(m)}
    BY <1>0, <1>8 DEF UnlinkFails, MoverInv, Distinct, Owns
  <2>5. QED
    BY <1>0, <1>a, <2>2, <2>3, <2>4 DEF SafeInv, CopiedInv, RestoredInv, InsertInv, TakenInv
<1>9. ASSUME NEW m \in Movers, Insert(m) PROVE SafeInv'
  <2>1. ~At(m, "idle") /\ (AddReturns(m) \/ AddRaises(m))
    BY <1>9 DEF Insert
  <2>2. /\ \A n \in Movers \ {m} : mover'[n] = mover[n]
        /\ mover'[m].pc \notin {"copy", "unlink", "insert"}
    BY <1>0, <2>1, ReturnsEffect
  <2>3. /\ UNCHANGED <<disk, vault, taken>>
        /\ \A i \in Ids \ {Id(m)} : rows'[i] = rows[i]
        /\ rows'[Id(m)].path = Path(m) /\ At(m, "insert")
    BY <1>0, <1>9 DEF Insert, Row, MoverInv, Owns
  <2>4. QED
    BY <1>0, <1>a, <2>2, <2>3 DEF SafeInv, CopiedInv, RestoredInv, InsertInv, TakenInv
<1>10. ASSUME NEW m \in Movers, InsertFails(m) PROVE SafeInv'
  BY <1>10 DEF InsertFails, NoFaults
<1>11. ASSUME AddBlock PROVE SafeInv'
  BY <1>0, <1>b, <1>11 DEF AddBlock, Refuse, Verify, Send, NotSent, Step, End, MoverStart, MoverRecords
<1>12. ASSUME NEW u \in Users, NEW i \in Ids, Restore(u, i) PROVE SafeInv'
  BY <1>0, <1>b, <1>12 DEF Restore
<1>13. ASSUME NEW u \in Users, CopyBack(u) PROVE SafeInv'
  <2>1. Chosen(u) \in Ids /\ rows[Chosen(u)] # None /\ UNCHANGED <<mover, vault, rows>>
    BY <1>0, <1>13 DEF CopyBack, UserInv
  <2>2. vault[Chosen(u)] \in Harmless
    <3>1. vault[Chosen(u)] \in Files \cup {None} /\ ~Held(Chosen(u))
      BY <1>0, <2>1 DEF TypeOK, Held, MoverInv, Owns
    <3>2. QED  BY <2>1, <3>1 DEF Harmless, Saved, Files
  <2>3. Overwrite(u, vault[Chosen(u)])
    BY <1>13 DEF CopyBack
  <2>4. QED  BY <1>a, <2>1, <2>2, <2>3, HarmlessWrite
<1>14. ASSUME NEW u \in Users, CopyBackFails(u) PROVE SafeInv'
  <2>1. Chosen(u) \in Ids /\ rows[Chosen(u)] # None /\ UNCHANGED <<mover, vault, rows>>
    BY <1>0, <1>14 DEF CopyBackFails, UserInv
  <2>2. CASE UNCHANGED <<disk, taken>>
    BY <1>0, <1>b, <2>1, <2>2
  <2>3. CASE Overwrite(u, Torn)
    <3>1. Torn \in Harmless
      BY DEF Harmless
    <3>2. QED  BY <1>a, <2>1, <2>3, <3>1, HarmlessWrite
  <2>4. QED  BY <1>14, <2>2, <2>3 DEF CopyBackFails
<1>15. ASSUME NEW u \in Users, NEW i \in Ids, Delete(u, i) PROVE SafeInv'
  BY <1>0, <1>b, <1>15 DEF Delete
<1>16. ASSUME NEW u \in Users, Remove(u) PROVE SafeInv'
  <2>1. /\ Chosen(u) \in Ids /\ rows[Chosen(u)] # None
        /\ UNCHANGED <<disk, rows, mover, taken>>
        /\ \A i \in Ids \ {Chosen(u)} : vault'[i] = vault[i]
    BY <1>0, <1>16 DEF Remove, UserInv
  <2>2. \A n \in Movers : At(n, "unlink") => Id(n) \in Ids \ {Chosen(u)}
    BY <1>0, <2>1 DEF MoverInv, Owns
  <2>3. QED
    BY <1>0, <1>a, <2>1, <2>2 DEF SafeInv, CopiedInv, RestoredInv, InsertInv, TakenInv
<1>17. ASSUME NEW u \in Users, RemoveFails(u) \/ NotDecided(u) PROVE SafeInv'
  BY <1>0, <1>b, <1>17 DEF RemoveFails, NotDecided
<1>18. ASSUME NEW u \in Users, Decided(u) PROVE SafeInv'
  <2>1. /\ Chosen(u) \in Ids /\ rows[Chosen(u)] # None
        /\ UNCHANGED <<disk, vault, mover, taken>>
    BY <1>0, <1>18 DEF Decided, UserInv
  <2>2. \A i \in Ids : rows'[i] # None => rows[i] # None /\ rows'[i].path = rows[i].path
    <3>1. rows[Chosen(u)] \in Rows
      BY <1>0, <2>1 DEF TypeOK
    <3>2. PICK d \in {"restored", "deleted"} : Decide(Chosen(u), d)
      BY <1>18 DEF Decided
    <3>3. rows'[Chosen(u)].path = rows[Chosen(u)].path
      BY <1>0, <2>1, <3>1, <3>2 DEF Decide, Rows
    <3>4. \A i \in Ids \ {Chosen(u)} : rows'[i] = rows[i]
      BY <1>0, <3>2 DEF Decide
    <3>5. QED  BY <2>1, <3>3, <3>4
  <2>3. QED
    BY <1>0, <1>a, <2>1, <2>2 DEF SafeInv, CopiedInv, RestoredInv, InsertInv, TakenInv
<1>19. ASSUME NEW threads \in Processes, Kill(threads) PROVE SafeInv'
  <2>1. UNCHANGED <<disk, vault, rows, taken>>
    BY <1>19 DEF Kill
  <2>2. \A m \in Movers : mover'[m] = mover[m] \/ mover'[m].pc = "idle"
    BY <1>19 DEF Kill, MoverStart
  <2>3. QED  BY <1>b, <2>1, <2>2
<1>20. ASSUME DriverUnload PROVE SafeInv'
  BY <1>0, <1>b, <1>20 DEF DriverUnload
<1>21. ASSUME NEW p \in Paths, NEW c \in Contents, Write(p, c) PROVE SafeInv'
  BY <1>21 DEF Write, NoFaults
<1>22. ASSUME UNCHANGED vars PROVE SafeInv'
  BY <1>0, <1>b, <1>22 DEF vars
<1>23. QED
  BY <1>1, <1>2, <1>3, <1>4, <1>5, <1>6, <1>7, <1>8, <1>9, <1>10, <1>11, <1>12, <1>13, <1>14, <1>15, <1>16, <1>17, <1>18, <1>19, <1>20, <1>21, <1>22 DEF Next, Add, UserStep, Environment

\* "Nothing is auto-deleted": as long as the database accepts what it is asked
\* to write and only the program writes the files it moves, no failure of a file
\* operation, no interleaving of the processes and no crash loses a content.
THEOREM NothingIsLost ==
  ASSUME NoFaults
  PROVE  Spec => []NothingLost
<1>1. Init => SafeInv
  BY SafeInit
<1>2. Inv /\ SafeInv /\ [Next]_vars => SafeInv'
  BY SafeStep
<1>3. SafeInv => NothingLost
  BY DEF SafeInv, TakenInv, NothingLost, Saved, InVault
<1>4. QED
  BY Invariance, <1>1, <1>2, <1>3, PTL DEF Spec
=============================================================================
