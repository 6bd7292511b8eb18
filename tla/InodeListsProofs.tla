-------------------------- MODULE InodeListsProofs --------------------------
(* For every set of inodes, of sizes and of faults: an inode that was to   *)
(* be fixed and is still wrong is on the list of its disk.                 *)
EXTENDS InodeLists, FiniteSetTheorems, TLAPS

-----------------------------------------------------------------------------
(* The inductive invariant.                                                *)

\* The entries that will be on the list once MovieCutter is idle again.
Tmp    == IF tmp = None THEN {} ELSE tmp
Merged == Tmp \cup {e \in OnList : e.nr \notin Listed(Tmp)}
Live   == IF pc = "write" THEN want ELSE IF pc = "merge" THEN Merged ELSE OnList
Good   == pc = "write" \/ Readable(list)

Carries(E, n, s) == \E e \in E : e.nr = n /\ e.size = s
Unique(E)        == \A d, e \in E : d.nr = e.nr => d = e

\* Wrong; and right on the disk, but wrong in a copy of the kernel nobody has
\* touched.
Bad(i)     == i # None /\ ~(i.disk /\ i.mem)
MemOnly(i) == i # None /\ i.disk /\ ~i.mem /\ ~i.dirty

\* While the list can be read, every owed inode is carried, no number twice;
\* an entry whose inode is wrong in the kernel alone was fixed since the boot;
\* and the temp list knows no file with another size.
Kept ==
    /\ \A n \in owed : Bad(file[n]) => Carries(Live, n, file[n].size)
    /\ Unique(Live) /\ Unique(OnList)
    /\ \A e \in Live : MemOnly(file[e.nr]) => e.fixed <= up
    /\ \A t \in Tmp, e \in Live : t.nr = e.nr => t.size = e.size

\* The temp list is from this boot, and the kernel alone is wrong only about an
\* inode that was to be fixed.
Own ==
    /\ \A t \in Tmp : t.fixed <= up
    /\ Unique(Tmp)
    /\ \A n \in Nrs : MemOnly(file[n]) => n \in owed
    /\ pc = "write" => list = [nr |-> -1, entries |-> {}]

IInv == TypeOK /\ (Good => Kept) /\ Own
-----------------------------------------------------------------------------
(* The file system.                                                        *)

LEMMA WrittenIs ==
  ASSUME NEW i \in Inodes
  PROVE  /\ Written(i) \in Inodes /\ Written(i) # None
         /\ Written(i).size = i.size /\ Written(i).mem = i.mem /\ Written(i).dirty = FALSE
         /\ Written(i).disk = IF i.dirty THEN i.mem ELSE i.disk
<1>1. CASE i.dirty
  BY <1>1, NoneAssumption DEF Written, Inodes
<1>2. CASE ~i.dirty
  BY <1>2, NoneAssumption DEF Written, Inodes
<1> QED BY <1>1, <1>2

\* What syncing, fixing inodes that are wrong on the disk and forgetting some
\* copies may change: no size, no count to the worse.
LEMMA SyncFix ==
  ASSUME TypeOK, NEW R \in SUBSET WrongOnDisk, NEW K \in SUBSET Nrs, file' = FixedIn(R, K)
  PROVE  /\ file' \in [Nrs -> {None} \cup Inodes]
         /\ \A n \in Nrs :
              /\ file'[n] # None <=> file[n] # None
              /\ file[n] # None => file'[n].size = file[n].size
              /\ Bad(file'[n]) => Bad(file[n])
              /\ MemOnly(file'[n]) => n \in R \/ MemOnly(file[n])
              /\ Bad(file'[n]) /\ n \notin WrongOnDisk => MemOnly(file[n])
              /\ n \in WrongOnDisk => Bad(file[n])
<1> SUFFICES ASSUME NEW n \in Nrs
             PROVE  /\ file'[n] \in {None} \cup Inodes
                    /\ file'[n] # None <=> file[n] # None
                    /\ file[n] # None => file'[n].size = file[n].size
                    /\ Bad(file'[n]) => Bad(file[n])
                    /\ MemOnly(file'[n]) => n \in R \/ MemOnly(file[n])
                    /\ Bad(file'[n]) /\ n \notin WrongOnDisk => MemOnly(file[n])
                    /\ n \in WrongOnDisk => Bad(file[n])
  BY DEF FixedIn
<1>1. CASE file[n] = None
  <2>1. Synced[n] = None
    BY <1>1 DEF Synced
  <2>2. file'[n] = None /\ n \notin WrongOnDisk
    BY <2>1 DEF FixedIn, WrongOnDisk
  <2> QED BY <1>1, <2>2 DEF Bad, MemOnly
<1>2. CASE file[n] # None
  <2> DEFINE i == file[n]
             w == Written(i)
             disk == n \in R \/ w.disk
  <2>1. i \in Inodes
    BY <1>2 DEF TypeOK
  <2>2. Synced[n] = w
    BY <1>2 DEF Synced
  <2>3. /\ w \in Inodes /\ w # None
        /\ w.size = i.size /\ w.mem = i.mem /\ w.dirty = FALSE
        /\ w.disk = IF i.dirty THEN i.mem ELSE i.disk
    BY <2>1, WrittenIs
  <2>4. n \in WrongOnDisk <=> ~w.disk
    BY <2>2, <2>3 DEF WrongOnDisk
  <2>5. file'[n] = [w EXCEPT !.disk = disk, !.mem = IF n \in K THEN @ ELSE disk]
    BY <2>2, <2>3 DEF FixedIn
  <2> HIDE DEF w
  <2>6. /\ file'[n] \in Inodes /\ file'[n].size = w.size /\ file'[n].dirty = FALSE
        /\ file'[n].disk = disk
        /\ file'[n].mem = IF n \in K THEN w.mem ELSE disk
    BY <2>3, <2>5 DEF Inodes
  <2>7. file'[n] # None
    BY <2>6, NoneAssumption
  <2>8. i.disk \in BOOLEAN /\ i.mem \in BOOLEAN /\ i.dirty \in BOOLEAN
    BY <2>1 DEF Inodes
  <2> HIDE DEF i
  <2>9. /\ Bad(file[n]) <=> ~(i.disk /\ i.mem)
        /\ Bad(file'[n]) <=> ~(file'[n].disk /\ file'[n].mem)
        /\ MemOnly(file[n]) <=> i.disk /\ ~i.mem /\ ~i.dirty
        /\ MemOnly(file'[n]) <=> file'[n].disk /\ ~file'[n].mem
    BY <1>2, <2>6, <2>7 DEF Bad, MemOnly, i
  <2>10. n \in R => ~w.disk
    BY <2>4
  <2>11. n \in WrongOnDisk => Bad(file[n])
    BY <2>4, <2>9, <2>3, <2>8
  <2>12. Bad(file'[n]) => Bad(file[n])
    BY <2>9, <2>6, <2>3, <2>8, <2>10
  <2>13. MemOnly(file'[n]) => n \in R \/ MemOnly(file[n])
    BY <2>9, <2>6, <2>3, <2>8
  <2>14. Bad(file'[n]) /\ n \notin WrongOnDisk => MemOnly(file[n])
    BY <2>9, <2>6, <2>3, <2>4, <2>8
  <2> QED BY <1>2, <2>3, <2>6, <2>7, <2>11, <2>12, <2>13, <2>14 DEF i
<1> QED BY <1>1, <1>2, SMTT(30)

\* A temp list names the inodes it is made of, each once, with its size.
LEMMA LogIs ==
  ASSUME TypeOK, NEW F \in SUBSET WrongOnDisk, NEW at \in 0..MaxUp
  PROVE  /\ Log(F, at) \in SUBSET Entries /\ Log(F, at) # None
         /\ \A t \in Log(F, at) : t.nr \in F /\ t.size = file[t.nr].size /\ t.fixed = at
         /\ \A n \in F : \E t \in Log(F, at) : t.nr = n /\ t.size = file[n].size
         /\ Listed(Log(F, at)) = F
<1> DEFINE entry(n) == [nr |-> n, size |-> file[n].size, fixed |-> at]
<1>1. ASSUME NEW n \in F PROVE file[n] \in Inodes
  BY <1>1, WrittenIs DEF WrongOnDisk, Synced, TypeOK
<1>2. ASSUME NEW n \in F PROVE entry(n) \in Entries
  <2>1. n \in Nrs /\ file[n].size \in Sizes
    BY <1>1 DEF Inodes, WrongOnDisk
  <2> QED BY <2>1 DEF Entries
<1>3. Log(F, at) = {entry(n) : n \in F}
  BY DEF Log
<1>4. Log(F, at) \in SUBSET Entries
  BY <1>2, <1>3
<1>5. Log(F, at) # None
  BY <1>4, NoneAssumption
<1>6. \A t \in Log(F, at) : t.nr \in F /\ t.size = file[t.nr].size /\ t.fixed = at
  BY <1>3
<1>7. \A n \in F : \E t \in Log(F, at) : t.nr = n /\ t.size = file[n].size
  <2> TAKE n \in F
  <2>1. entry(n) \in Log(F, at)
    BY <1>3
  <2>2. entry(n).nr = n /\ entry(n).size = file[n].size
    OBVIOUS
  <2> QED BY <2>1, <2>2
<1> HIDE DEF entry
<1>8. Listed(Log(F, at)) = F
  BY <1>6, <1>7 DEF Listed
<1> QED BY <1>4, <1>5, <1>6, <1>7, <1>8

\* What a fix is tried on is wrong on the disk, whatever it succeeds on.
LEMMA RepairedIs == ASSUME NEW F, NEW R \in Repaired(F) PROVE R \subseteq F
BY DEF Repaired

-----------------------------------------------------------------------------
(* Types.                                                                  *)

LEMMA LeaveTyped ==
  ASSUME TypeOK, NEW next \in {"idle", "fsck"}, Leave(next)
  PROVE  pc' \in {"idle", "fsck"} /\ nrs' \subseteq Nrs
BY DEF Leave, TypeOK

LEMMA AfterJobTyped == ASSUME NEW e PROVE AfterJob(e) \in {"idle", "fsck"}
BY DEF AfterJob

LEMMA TypeStep == TypeOK /\ [Next]_vars => TypeOK'
<1> SUFFICES ASSUME TypeOK, [Next]_vars PROVE TypeOK'
  OBVIOUS
<1>1. ASSUME NEW n \in Nrs, WriteBack(n) PROVE TypeOK'
  <2>1. file[n] \in Inodes /\ file' = [file EXCEPT ![n] = [file[n] EXCEPT !.disk = file[n].mem, !.dirty = FALSE]]
    BY <1>1 DEF WriteBack, TypeOK
  <2>2. [file[n] EXCEPT !.disk = file[n].mem, !.dirty = FALSE] \in Inodes
    BY <2>1 DEF Inodes
  <2>3. file' \in [Nrs -> {None} \cup Inodes]
    BY <2>1, <2>2 DEF TypeOK
  <2> QED BY <1>1, <2>3 DEF WriteBack, TypeOK
<1>2. ASSUME NEW n \in Nrs, Delete(n) PROVE TypeOK'
  BY <1>2 DEF Delete, TypeOK
<1>3. ASSUME NEW n \in Nrs, Record(n) PROVE TypeOK'
  <2>1. \A s \in Sizes : [size |-> s, disk |-> TRUE, mem |-> TRUE, dirty |-> FALSE] \in Inodes
    BY DEF Inodes
  <2> QED BY <1>3, <2>1 DEF Record, TypeOK
<1>4. ASSUME NEW n \in Nrs, NEW N \in SUBSET (Nrs \ {n}), CutFiles(n, N) PROVE TypeOK'
  <2>1. PICK size \in [N \cup {n} -> Sizes], right \in [N \cup {n} -> BOOLEAN] :
          file' = [m \in Nrs |-> IF m \in N \cup {n}
                                  THEN [size |-> size[m], mem |-> right[m], dirty |-> TRUE,
                                        disk |-> m \in N \/ file[m].disk]
                                  ELSE file[m]]
    BY <1>4 DEF CutFiles
  <2>2. ASSUME NEW m \in N \cup {n}
        PROVE  [size |-> size[m], mem |-> right[m], dirty |-> TRUE,
                disk |-> m \in N \/ file[m].disk] \in Inodes
    <3>1. m \notin N => file[m] \in Inodes
      BY <1>4 DEF CutFiles, TypeOK
    <3>2. (m \in N \/ file[m].disk) \in BOOLEAN
      BY <3>1 DEF Inodes
    <3> QED BY <3>2 DEF Inodes
  <2>3. file' \in [Nrs -> {None} \cup Inodes]
    BY <2>1, <2>2 DEF TypeOK
  <2> QED BY <1>4, <2>3 DEF CutFiles, TypeOK
<1>5. CASE Tick
  BY <1>5, InodesAssumption DEF Tick, TypeOK
<1>6. CASE SwitchOff
  <2>1. ASSUME NEW n \in Nrs, file[n] # None
        PROVE  [file[n] EXCEPT !.mem = file[n].disk, !.dirty = FALSE] \in Inodes
    BY <2>1 DEF TypeOK, Inodes
  <2>2. file' \in [Nrs -> {None} \cup Inodes]
    BY <1>6, <2>1 DEF SwitchOff
  <2>3. owed' \subseteq owed /\ up' = 0
    BY <1>6, Zenon DEF SwitchOff
  <2>4. owed' \subseteq Nrs /\ up' \in 0..MaxUp
    BY <2>3, InodesAssumption DEF TypeOK
  <2> QED BY <1>6, <2>2, <2>4 DEF SwitchOff, TypeOK
<1>7. CASE IcheckFails
  BY <1>7, AfterJobTyped, LeaveTyped DEF IcheckFails, TypeOK
<1>8. CASE IcheckOnly
  BY <1>8, AfterJobTyped, LeaveTyped DEF IcheckOnly, TypeOK
<1>9. CASE IcheckAndFix
  <2> DEFINE F == nrs \cap WrongOnDisk
  <2>1. PICK R \in Repaired(F), K \in SUBSET Nrs : file' = FixedIn(R, K)
    BY <1>9 DEF IcheckAndFix
  <2>2. file' \in [Nrs -> {None} \cup Inodes]
    BY <2>1, RepairedIs, SyncFix
  <2>3. tmp' = None \/ tmp' \subseteq Entries
    BY <1>9, LogIs DEF IcheckAndFix, TypeOK
  <2>4. resume' \in {"idle", "fsck"}
    BY <1>9, AfterJobTyped DEF IcheckAndFix
  <2> QED BY <1>9, <2>2, <2>3, <2>4 DEF IcheckAndFix, TypeOK
<1>10. CASE CheckAll
  BY <1>10 DEF CheckAll, TypeOK
<1>11. CASE Fsck
  <2> DEFINE F == nrs \cap WrongOnDisk
  <2>1. PICK R \in SUBSET WrongOnDisk, K \in SUBSET Nrs, at \in 0..MaxUp :
          file' = FixedIn(R, K) /\ tmp' = Log(F, at)
    <3>1. CASE \E R \in Repaired(F), K \in SUBSET Nrs : file' = FixedIn(R, K) /\ tmp' = Log(F, up)
      BY <3>1, RepairedIs DEF TypeOK
    <3>2. CASE file' = FixedIn({}, Nrs) /\ tmp' = Log(F, 0)
      BY <3>2, InodesAssumption
    <3> QED BY <1>11, <3>1, <3>2 DEF Fsck
  <2>2. file' \in [Nrs -> {None} \cup Inodes] /\ tmp' \subseteq Entries
    BY <2>1, SyncFix, LogIs
  <2> QED BY <1>11, <2>2 DEF Fsck, TypeOK
<1>12. CASE FsckFails
  BY <1>12 DEF FsckFails, TypeOK
<1>13. CASE Merge
  BY <1>13, LeaveTyped DEF Merge, BeginWrite, OnList, TypeOK
<1>14. CASE EndWrite
  BY <1>14, LeaveTyped DEF EndWrite, TypeOK
<1>15. CASE FixInodeList
  <2> DEFINE kept == {e \in list.entries : ~Gone(e) /\ ~Settled(e)}
             F    == Listed(kept) \cap WrongOnDisk
  <2>1. PICK R \in Repaired(F), K \in SUBSET Nrs : file' = FixedIn(R, K)
    BY <1>15 DEF FixInodeList
  <2>2. file' \in [Nrs -> {None} \cup Inodes]
    BY <2>1, RepairedIs, SyncFix
  <2>3. {[e EXCEPT !.fixed = up] : e \in kept} \subseteq Entries
    BY <1>15 DEF FixInodeList, TypeOK, Entries
  <2>4. owed' \subseteq Nrs
    BY <1>15 DEF FixInodeList, TypeOK, WrongOnDisk
  <2> QED BY <1>15, <2>2, <2>3, <2>4 DEF FixInodeList, BeginWrite, TypeOK
<1>16. CASE FixInodeListFails
  BY <1>16 DEF FixInodeListFails, BeginWrite, TypeOK
<1>17. CASE UNCHANGED vars
  BY <1>17 DEF vars, TypeOK
<1> QED BY <1>1, <1>2, <1>3, <1>4, <1>5, <1>6, <1>7, <1>8, <1>9, <1>10, <1>11, <1>12, <1>13,
           <1>14, <1>15, <1>16, <1>17 DEF Next

-----------------------------------------------------------------------------
(* The steps that change the file system or the lists, not both.           *)

LEMMA ListsTyped ==
  ASSUME TypeOK
  PROVE  Tmp \subseteq Entries /\ OnList \subseteq Entries /\ Live \subseteq Entries
         /\ \A e \in Entries : e.nr \in Nrs
BY DEF TypeOK, Tmp, OnList, Live, Merged, Entries

\* The lists move on: what is carried stays carried.
LEMMA ListsMove ==
  ASSUME IInv, UNCHANGED <<file, up, owed>>,
         Good' => Good /\ Live' = Live /\ Unique(OnList'),
         tmp' \in {tmp, None},
         pc' = "write" => list' = [nr |-> -1, entries |-> {}]
  PROVE  (Good => Kept)' /\ Own'
<1>1. Tmp' \subseteq Tmp
  BY DEF Tmp
<1>2. Own'
  BY <1>1 DEF IInv, Own, Unique, MemOnly
<1>3. ASSUME Good' PROVE Kept'
  <2>1. Kept /\ Live' = Live /\ Unique(OnList')
    BY <1>3 DEF IInv
  <2>2. /\ \A n \in owed : Bad(file'[n]) => Carries(Live', n, file'[n].size)
        /\ \A e \in Live' : MemOnly(file'[e.nr]) => e.fixed <= up'
    BY <2>1 DEF Kept
  <2>3. \A t \in Tmp', e \in Live' : t.nr = e.nr => t.size = e.size
    BY <2>1, <1>1 DEF Kept
  <2> QED BY <2>1, <2>2, <2>3 DEF Kept
<1> QED BY <1>2, <1>3

\* Files change: nothing owed that is wrong has another size, and no inode
\* becomes wrong in the kernel alone.
LEMMA FilesMove ==
  ASSUME IInv, UNCHANGED <<list, tmp, want>>,
         pc' # pc => pc = "idle" /\ pc' = "icheck",
         up \in Int, up' \in Int, up <= up',
         owed' \subseteq owed,
         \A n \in owed' : Bad(file'[n]) => Bad(file[n]) /\ file'[n].size = file[n].size,
         \A n \in Nrs : MemOnly(file'[n]) => MemOnly(file[n]) /\ (n \in owed => n \in owed')
  PROVE  (Good => Kept)' /\ Own'
<1>1. Tmp' = Tmp /\ OnList' = OnList /\ Live' = Live /\ (Good' <=> Good)
  BY DEF Tmp, OnList, Live, Merged, Good, Readable
<1>2. /\ Tmp \subseteq Entries /\ Live \subseteq Entries
      /\ \A e \in Entries : e.nr \in Nrs /\ e.fixed \in Int
  BY ListsTyped, InodesAssumption DEF IInv, Entries
<1>3. Own'
  <2>1. \A t \in Tmp : t.fixed <= up'
    BY <1>2 DEF IInv, Own
  <2>2. pc' = "write" => list' = [nr |-> -1, entries |-> {}]
    BY DEF IInv, Own
  <2>3. \A n \in Nrs : MemOnly(file'[n]) => n \in owed'
    BY DEF IInv, Own
  <2> QED BY <1>1, <2>1, <2>2, <2>3 DEF IInv, Own, Unique
<1>4. ASSUME Good' PROVE Kept'
  <2>1. Kept
    BY <1>1, <1>4 DEF IInv
  <2>2. \A n \in owed' : Bad(file'[n]) => Carries(Live', n, file'[n].size)
    BY <1>1, <2>1 DEF Kept, Carries
  <2>3. \A e \in Live : MemOnly(file'[e.nr]) => e.fixed <= up'
    BY <1>2, <2>1 DEF Kept
  <2> QED BY <1>1, <2>1, <2>2, <2>3 DEF Kept, Unique
<1> QED BY <1>3, <1>4

LEMMA FilesSteps ==
  ASSUME IInv, TypeOK', NEW n \in Nrs,
         \/ WriteBack(n) \/ Delete(n) \/ Record(n) \/ Tick
         \/ \E N \in SUBSET (Nrs \ {n}) : CutFiles(n, N)
  PROVE  (Good => Kept)' /\ Own'
<1>1. /\ up \in Int /\ up' \in Int /\ file \in [Nrs -> {None} \cup Inodes] /\ owed \subseteq Nrs
  BY InodesAssumption DEF IInv, TypeOK
<1>2. CASE WriteBack(n)
  <2>1. /\ file' = [file EXCEPT ![n] = [file[n] EXCEPT !.disk = file[n].mem, !.dirty = FALSE]]
        /\ file[n] \in Inodes /\ file[n] # None
    BY <1>1, <1>2 DEF WriteBack
  <2>2. /\ file'[n].disk = file[n].mem /\ file'[n].mem = file[n].mem /\ file'[n].size = file[n].size
        /\ \A m \in Nrs : m # n => file'[m] = file[m]
    BY <1>1, <2>1 DEF Inodes
  <2>3. /\ Bad(file'[n]) => Bad(file[n]) /\ file'[n].size = file[n].size
        /\ ~MemOnly(file'[n])
    BY <2>1, <2>2 DEF Bad, MemOnly
  <2>4. \A m \in Nrs : m # n => (Bad(file'[m]) <=> Bad(file[m])) /\ (MemOnly(file'[m]) <=> MemOnly(file[m]))
    BY <2>2 DEF Bad, MemOnly
  <2>5. \A m \in owed : Bad(file'[m]) => Bad(file[m]) /\ file'[m].size = file[m].size
    BY <1>1, <2>2, <2>3, <2>4
  <2>6. \A m \in Nrs : MemOnly(file'[m]) => MemOnly(file[m])
    BY <2>3, <2>4
  <2>7. UNCHANGED <<up, list, tmp, want, pc, owed>>
    BY <1>2 DEF WriteBack
  <2> QED BY <1>1, <2>5, <2>6, <2>7, FilesMove
<1>3. CASE Delete(n)
  <2>1. /\ owed' = owed \ {n} /\ ~MemOnly(file'[n])
        /\ \A m \in Nrs : m # n => file'[m] = file[m]
    BY <1>1, <1>3 DEF Delete, MemOnly
  <2>2. \A m \in Nrs : m # n => (Bad(file'[m]) <=> Bad(file[m])) /\ (MemOnly(file'[m]) <=> MemOnly(file[m]))
    BY <2>1 DEF Bad, MemOnly
  <2>3. UNCHANGED <<list, tmp, want>> /\ up' = up /\ pc' = pc
    BY <1>3 DEF Delete
  <2>4. owed' \subseteq owed /\ up <= up'
    BY <1>1, <2>1, <2>3
  <2>5. \A m \in owed' : Bad(file'[m]) => Bad(file[m]) /\ file'[m].size = file[m].size
    BY <1>1, <2>1
  <2>6. \A m \in Nrs : MemOnly(file'[m]) => MemOnly(file[m]) /\ (m \in owed => m \in owed')
    BY <2>1, <2>2
  <2> QED BY <1>1, <2>3, <2>4, <2>5, <2>6, FilesMove
<1>4. CASE Record(n)
  <2>1. /\ owed' = owed \ {n} /\ ~MemOnly(file'[n])
        /\ \A m \in Nrs : m # n => file'[m] = file[m]
    BY <1>1, <1>4 DEF Record, MemOnly
  <2>2. \A m \in Nrs : m # n => (Bad(file'[m]) <=> Bad(file[m])) /\ (MemOnly(file'[m]) <=> MemOnly(file[m]))
    BY <2>1 DEF Bad, MemOnly
  <2>3. UNCHANGED <<up, list, tmp, want, pc>>
    BY <1>4 DEF Record
  <2> QED BY <1>1, <2>1, <2>2, <2>3, FilesMove
<1>5. CASE Tick
  <2>1. UNCHANGED <<file, list, tmp, want, pc, owed>> /\ up <= up'
    BY <1>1, <1>5 DEF Tick
  <2>2. \A m : (Bad(file'[m]) <=> Bad(file[m])) /\ (MemOnly(file'[m]) <=> MemOnly(file[m]))
    BY <2>1 DEF Bad, MemOnly
  <2> QED BY <1>1, <2>1, <2>2, FilesMove
<1>6. ASSUME NEW N \in SUBSET (Nrs \ {n}), CutFiles(n, N) PROVE (Good => Kept)' /\ Own'
  <2>1. /\ owed' = owed \ (N \cup {n})
        /\ \A m \in N \cup {n} : file'[m].dirty
        /\ \A m \in Nrs \ (N \cup {n}) : file'[m] = file[m]
    BY <1>6 DEF CutFiles
  <2>2. \A m \in N \cup {n} : ~MemOnly(file'[m])
    BY <2>1 DEF MemOnly
  <2>3. \A m \in Nrs \ (N \cup {n}) : (Bad(file'[m]) <=> Bad(file[m])) /\ (MemOnly(file'[m]) <=> MemOnly(file[m]))
    BY <2>1 DEF Bad, MemOnly
  <2>4. UNCHANGED <<up, list, tmp, want>> /\ pc = "idle" /\ pc' = "icheck"
    BY <1>6 DEF CutFiles
  <2> QED BY <1>1, <2>1, <2>2, <2>3, <2>4, FilesMove
<1> QED BY <1>2, <1>3, <1>4, <1>5, <1>6

\* A file that is being written has no entry and cannot be read.
LEMMA BegunUnreadable ==
  ASSUME NEW l, l = [nr |-> -1, entries |-> {}]
  PROVE  ~Readable(l) /\ l # None
BY NoneAssumption, FS_EmptySet DEF Readable

\* A list that was written in part has a header that does not fit.
LEMMA PartUnreadable ==
  ASSUME NEW E \in SUBSET Entries, NEW P \in SUBSET E, NEW l,
         l = [nr |-> Cardinality(E), entries |-> P], Readable(l)
  PROVE  P = E
<1>1. l # None
  BY NoneAssumption
<1>2. Cardinality(E) = Cardinality(P)
  BY <1>1 DEF Readable
<1> QED BY <1>2, EntriesAssumption, FS_Subset

LEMMA ListsSteps ==
  ASSUME IInv, TypeOK',
         \/ IcheckFails \/ IcheckOnly \/ CheckAll \/ FsckFails
         \/ Merge \/ EndWrite \/ FixInodeListFails
  PROVE  (Good => Kept)' /\ Own'
<1>1. Good => Kept
  BY DEF IInv
<1>2. CASE IcheckFails
  <2>1. /\ UNCHANGED <<file, up, owed, list>> /\ tmp' \in {tmp, None}
        /\ pc = "icheck" /\ pc' \in {"idle", "fsck"}
    BY <1>2, AfterJobTyped DEF IcheckFails, Leave
  <2>2. Good' => Good /\ Live' = Live /\ Unique(OnList')
    BY <1>1, <2>1 DEF Good, Live, Kept, Readable, OnList
  <2> QED BY <2>1, <2>2, ListsMove
<1>3. CASE IcheckOnly
  <2>1. /\ UNCHANGED <<file, up, owed, list, tmp>>
        /\ pc = "icheck" /\ pc' \in {"idle", "fsck"}
    BY <1>3, AfterJobTyped DEF IcheckOnly, Leave
  <2>2. Good' => Good /\ Live' = Live /\ Unique(OnList')
    BY <1>1, <2>1 DEF Good, Live, Kept, Readable, OnList
  <2> QED BY <2>1, <2>2, ListsMove
<1>4. CASE CheckAll
  <2>1. UNCHANGED <<file, up, owed, list, tmp>> /\ pc = "idle" /\ pc' = "fsck"
    BY <1>4 DEF CheckAll
  <2>2. Good' => Good /\ Live' = Live /\ Unique(OnList')
    BY <1>1, <2>1 DEF Good, Live, Kept, Readable, OnList
  <2> QED BY <2>1, <2>2, ListsMove
\* What was left of an earlier temp list is merged: it agrees with the list.
<1>5. CASE FsckFails
  <2>1. /\ UNCHANGED <<file, up, owed, list, tmp>> /\ pc = "fsck" /\ pc' = "merge"
        /\ OnList' = OnList /\ Tmp' = Tmp /\ (Good' <=> Good)
    BY <1>5 DEF FsckFails, OnList, Tmp, Good, Readable
  <2>2. Live = OnList /\ Live' = Tmp \cup {e \in OnList : e.nr \notin Listed(Tmp)}
    BY <2>1 DEF Live, Merged, Listed
  <2>3. Own'
    BY <2>1 DEF IInv, Own, Unique
  <2>4. ASSUME Good' PROVE Kept'
    <3>1. Kept
      BY <2>1, <2>4 DEF IInv
    <3>2. ASSUME NEW n \in owed', Bad(file'[n]) PROVE Carries(Live', n, file'[n].size)
      <4>1. PICK e \in OnList : e.nr = n /\ e.size = file[n].size
        BY <2>1, <2>2, <3>1, <3>2 DEF Kept, Carries
      <4>2. CASE n \in Listed(Tmp)
        <5>1. PICK t \in Tmp : t.nr = n
          BY <4>2 DEF Listed
        <5>2. t.size = e.size
          BY <2>2, <3>1, <4>1, <5>1 DEF Kept
        <5> QED BY <2>1, <2>2, <4>1, <5>1, <5>2 DEF Carries
      <4>3. CASE n \notin Listed(Tmp)
        <5>1. e \in Live'
          BY <2>2, <4>1, <4>3
        <5> QED BY <2>1, <4>1, <5>1 DEF Carries
      <4> QED BY <4>2, <4>3
    <3>3. \A t \in Tmp : t.nr \in Listed(Tmp)
      BY DEF Listed
    <3>4. Unique(Tmp) /\ Unique(OnList)
      BY <3>1 DEF IInv, Own, Kept
    <3>5. Unique(Live') /\ Unique(OnList')
      BY <2>1, <2>2, <3>3, <3>4 DEF Unique
    <3>6. \A e \in Live' : MemOnly(file'[e.nr]) => e.fixed <= up'
      BY <2>1, <2>2, <3>1 DEF IInv, Own, Kept
    <3>7. \A t \in Tmp', e \in Live' : t.nr = e.nr => t.size = e.size
      BY <2>1, <2>2, <3>3, <3>4 DEF Unique
    <3> QED BY <3>2, <3>5, <3>6, <3>7 DEF Kept
  <2> QED BY <2>3, <2>4
<1>6. CASE Merge
  <2>1. UNCHANGED <<file, up, owed, tmp>> /\ pc = "merge" /\ Live = Merged
    BY <1>6 DEF Merge, Live
  <2>2. CASE tmp \notin {None, {}} /\ Readable(list)
    <3>1. /\ list' = [nr |-> -1, entries |-> {}] /\ pc' = "write"
          /\ want' = tmp \cup {e \in OnList : e.nr \notin Listed(tmp)}
      BY <1>6, <2>2 DEF Merge, BeginWrite
    <3>2. Live' = Live /\ Good
      BY <2>1, <2>2, <3>1 DEF Live, Merged, Tmp, Good
    <3>3. OnList' = {}
      BY <3>1 DEF OnList
    <3>4. Good' => Good /\ Live' = Live /\ Unique(OnList')
      BY <3>2, <3>3 DEF Unique
    <3> QED BY <2>1, <3>1, <3>4, ListsMove
  <2>3. CASE ~(tmp \notin {None, {}} /\ Readable(list))
    <3>1. list' = list /\ pc' \in {"idle", "fsck"}
      BY <1>6, <2>3 DEF Merge, Leave, IInv, TypeOK
    <3>2. Good' => Readable(list) /\ tmp \in {None, {}}
      BY <2>3, <3>1 DEF Good
    <3>3. tmp \in {None, {}} => Live = OnList
      BY <2>1 DEF Merged, Tmp, Listed
    <3>4. Good' => Good /\ Live' = Live /\ Unique(OnList')
      BY <1>1, <3>1, <3>2, <3>3 DEF Good, Live, Kept, OnList
    <3> QED BY <2>1, <3>1, <3>4, ListsMove
  <2> QED BY <2>2, <2>3
<1>7. CASE EndWrite
  <2>1. /\ UNCHANGED <<file, up, owed, tmp>> /\ pc = "write" /\ pc' \in {"idle", "fsck"}
        /\ want \in SUBSET Entries
    BY <1>7 DEF EndWrite, Leave, IInv, TypeOK
  <2>2. PICK part \in SUBSET want : list' = [nr |-> Cardinality(want), entries |-> part]
    BY <1>7 DEF EndWrite
  <2>3. Good' => OnList' = want
    <3>1. list' # None
      BY <2>1, <2>2, NoneAssumption
    <3>2. Good' => Readable(list')
      BY <2>1 DEF Good, Readable
    <3>3. Good' => part = want
      BY <2>1, <2>2, <3>2, PartUnreadable
    <3> QED BY <2>2, <3>1, <3>3 DEF OnList
  <2>4. Good /\ Live = want /\ Live' = OnList'
    BY <2>1 DEF Good, Live
  <2>5. Good' => Good /\ Live' = Live /\ Unique(OnList')
    BY <1>1, <2>3, <2>4 DEF Kept
  <2> QED BY <2>1, <2>5, ListsMove
<1>8. CASE FixInodeListFails
  <2>1. /\ UNCHANGED <<file, up, owed, tmp>> /\ pc = "idle" /\ list # None /\ Readable(list)
        /\ list' = [nr |-> -1, entries |-> {}] /\ pc' = "write" /\ want' = list.entries
    BY <1>8 DEF FixInodeListFails, BeginWrite
  <2>2. Good /\ Live = list.entries /\ Live' = want' /\ OnList' = {}
    BY <2>1 DEF Good, Live, OnList
  <2>3. Good' => Good /\ Live' = Live /\ Unique(OnList')
    BY <2>1, <2>2 DEF Unique
  <2> QED BY <2>1, <2>3, ListsMove
<1> QED BY <1>2, <1>3, <1>4, <1>5, <1>6, <1>7, <1>8

\* The receiver goes off: what was being checked or written is forgotten, and
\* the kernel's copies with it.
LEMMA SwitchOffStep == ASSUME IInv, SwitchOff PROVE (Good => Kept)' /\ Own'
<1>1. /\ list' = list /\ Tmp' = {} /\ OnList' = OnList /\ Live' = OnList /\ pc' = "idle"
      /\ owed \subseteq Nrs /\ owed' \subseteq owed
      /\ file \in [Nrs -> {None} \cup Inodes]
  <2>1. list' = list /\ tmp' = None /\ pc' = "idle"
    BY DEF SwitchOff
  <2>2. owed' \subseteq owed
    BY Zenon DEF SwitchOff
  <2> QED BY <2>1, <2>2 DEF Tmp, OnList, Live, IInv, TypeOK
<1>2. ASSUME NEW n \in Nrs
      PROVE  /\ ~MemOnly(file'[n])
             /\ Bad(file'[n]) => Bad(file[n]) /\ file'[n].size = file[n].size
  <2>1. CASE file[n] = None
    <3>1. file'[n] = None
      BY <2>1 DEF SwitchOff
    <3> QED BY <3>1 DEF MemOnly, Bad
  <2>2. CASE file[n] # None
    <3>1. file[n] \in Inodes
      BY <1>1, <2>2
    <3>2. file'[n] = [file[n] EXCEPT !.mem = file[n].disk, !.dirty = FALSE]
      BY <2>2 DEF SwitchOff
    <3>3. /\ file'[n].disk = file[n].disk /\ file'[n].mem = file[n].disk
          /\ file'[n].size = file[n].size
      BY <3>1, <3>2 DEF Inodes
    <3> QED BY <2>2, <3>3 DEF MemOnly, Bad
  <2> QED BY <2>1, <2>2
<1>3. Own'
  BY <1>1, <1>2 DEF Own, Unique
<1>4. ASSUME Good' PROVE Kept'
  <2>1. Readable(list) /\ pc # "write"
    <3>1. Readable(list)
      BY <1>1, <1>4 DEF Good, Readable
    <3> QED BY <3>1, BegunUnreadable DEF IInv, Own
  <2>2. Kept
    BY <2>1 DEF IInv, Good
  <2>3. ASSUME NEW n \in owed', Bad(file'[n]) PROVE Carries(Live', n, file'[n].size)
    <3>1. n \in owed /\ Bad(file[n]) /\ file'[n].size = file[n].size
      BY <1>1, <1>2, <2>3
    <3>2. CASE pc = "idle"
      <4>1. Live = OnList
        BY <3>2 DEF Live
      <4> QED BY <1>1, <2>2, <3>1, <4>1 DEF Kept
    <3>3. CASE pc # "idle"
      <4>1. OnListNow(n)
        BY <2>3, <3>3 DEF SwitchOff
      <4> QED BY <1>1, <3>1, <4>1 DEF OnListNow, Carries
    <3> QED BY <3>2, <3>3
  <2>4. \A e \in Live' : ~MemOnly(file'[e.nr])
    BY <1>1, <1>2, ListsTyped DEF IInv
  <2>5. Unique(Live') /\ Unique(OnList')
    BY <1>1, <2>2 DEF Kept
  <2> QED BY <1>1, <2>3, <2>4, <2>5 DEF Kept
<1> QED BY <1>3, <1>4

-----------------------------------------------------------------------------
(* The steps that fix inodes.                                              *)

\* A check lists every wrong inode it looks at, fixed or not; one that is only
\* wrong in the kernel it does not see, but that one was listed before.
LEMMA CheckSteps ==
  ASSUME IInv, TypeOK', NEW R, NEW K \in SUBSET Nrs, NEW at \in 0..MaxUp, at <= up,
         R \subseteq nrs \cap WrongOnDisk, file' = FixedIn(R, K),
         UNCHANGED <<up, list>>, Tmp' = Log(nrs \cap WrongOnDisk, at),
         owed' = owed \cup {n \in nrs : Wrong(n)},
         pc \in {"icheck", "fsck"}, pc' = "merge"
  PROVE  (Good => Kept)' /\ Own'
<1> DEFINE F == nrs \cap WrongOnDisk
<1>1. /\ OnList' = OnList /\ Live = OnList /\ (Good' <=> Good)
      /\ Live' = Tmp' \cup {e \in OnList : e.nr \notin Listed(Tmp')}
      /\ OnList \subseteq Entries /\ \A e \in Entries : e.nr \in Nrs
      /\ owed \subseteq Nrs /\ nrs \subseteq Nrs
  <2>1. OnList \subseteq Entries /\ \A e \in Entries : e.nr \in Nrs
    BY ListsTyped DEF IInv
  <2>2. owed \subseteq Nrs /\ nrs \subseteq Nrs
    BY DEF IInv, TypeOK
  <2> QED BY <2>1, <2>2 DEF OnList, Live, Merged, Good, Readable, Listed
<1>2. \A n \in Nrs :
        /\ file'[n] # None <=> file[n] # None
        /\ file[n] # None => file'[n].size = file[n].size
        /\ Bad(file'[n]) => Bad(file[n])
        /\ MemOnly(file'[n]) => n \in R \/ MemOnly(file[n])
        /\ Bad(file'[n]) /\ n \notin WrongOnDisk => MemOnly(file[n])
        /\ n \in WrongOnDisk => Bad(file[n])
  BY SyncFix DEF IInv
<1>3. /\ \A t \in Tmp' : t.nr \in F /\ t.size = file[t.nr].size /\ t.fixed = at
      /\ \A n \in F : \E t \in Tmp' : t.nr = n /\ t.size = file[n].size
      /\ Listed(Tmp') = F /\ Tmp' \in SUBSET Entries
  BY LogIs DEF IInv
<1>4. Unique(Tmp')
  <2> SUFFICES ASSUME NEW d \in Tmp', NEW e \in Tmp', d.nr = e.nr PROVE d = e
    BY DEF Unique
  <2>1. d.size = file[d.nr].size /\ e.size = file[e.nr].size /\ d.fixed = at /\ e.fixed = at
    BY <1>3
  <2>2. d \in Entries /\ e \in Entries
    BY <1>3
  <2>3. \A t \in Entries : t = [nr |-> t.nr, size |-> t.size, fixed |-> t.fixed]
    BY DEF Entries
  <2>4. /\ d = [nr |-> d.nr, size |-> d.size, fixed |-> d.fixed]
        /\ e = [nr |-> e.nr, size |-> e.size, fixed |-> e.fixed]
    BY <2>2, <2>3
  <2> QED BY <2>1, <2>4
<1>5. \A n : n \in owed' <=> n \in owed \/ (n \in nrs /\ Bad(file[n]))
  BY DEF Wrong, Bad
<1>6. \A n \in Nrs : MemOnly(file[n]) => n \in owed
  BY DEF IInv, Own
<1> HIDE DEF F
<1>7. Own'
  <2>1. \A t \in Tmp' : t.fixed <= up'
    BY <1>3
  <2>2. \A n \in Nrs : MemOnly(file'[n]) => n \in owed'
    BY <1>2, <1>5, <1>6
  <2> QED BY <1>4, <2>1, <2>2 DEF Own
<1>8. ASSUME Good' PROVE Kept'
  <2>1. Kept
    BY <1>1, <1>8 DEF IInv
  <2>2. ASSUME NEW n \in owed', Bad(file'[n]) PROVE Carries(Live', n, file'[n].size)
    <3>1. n \in Nrs /\ file[n] # None /\ file'[n].size = file[n].size /\ Bad(file[n])
      BY <1>1, <1>2, <1>5, <2>2 DEF Bad
    <3>2. CASE n \in F
      <4>1. PICK t \in Tmp' : t.nr = n /\ t.size = file[n].size
        BY <1>3, <3>2
      <4>2. t \in Live'
        BY <1>1
      <4> QED BY <3>1, <4>1, <4>2 DEF Carries
    <3>3. CASE n \notin F
      <4>1. n \in owed
        BY <1>2, <1>5, <1>6, <2>2, <3>1, <3>3 DEF F
      <4>2. PICK e \in OnList : e.nr = n /\ e.size = file[n].size
        BY <1>1, <2>1, <3>1, <4>1 DEF Kept, Carries
      <4> QED BY <1>1, <1>3, <3>1, <3>3, <4>2 DEF Carries
    <3> QED BY <3>2, <3>3
  <2>3. Unique(Live') /\ Unique(OnList')
    <3>1. Unique(OnList)
      BY <2>1 DEF Kept
    <3>2. ASSUME NEW d \in Live', NEW e \in Live', d.nr = e.nr PROVE d = e
      <4>1. CASE d \in Tmp' /\ e \in Tmp'
        BY <1>4, <3>2, <4>1 DEF Unique
      <4>2. CASE d \in OnList /\ e \in OnList
        BY <3>1, <3>2, <4>2 DEF Unique
      <4>3. d.nr \in F => d \in Tmp' /\ e \in Tmp'
        BY <1>1, <1>3, <3>2
      <4>4. d.nr \notin F => d \in OnList /\ e \in OnList
        BY <1>1, <1>3, <3>2
      <4> QED BY <4>1, <4>2, <4>3, <4>4
    <3>3. Unique(Live')
      BY <3>2 DEF Unique
    <3> QED BY <1>1, <3>1, <3>3
  <2>4. \A e \in Live' : MemOnly(file'[e.nr]) => e.fixed <= up'
    <3>1. \A e \in OnList : e.nr \notin F /\ MemOnly(file'[e.nr]) => e.fixed <= up
      BY <1>1, <1>2, <2>1 DEF Kept, F
    <3> QED BY <1>1, <1>3, <3>1
  <2>5. \A t \in Tmp', e \in Live' : t.nr = e.nr => t.size = e.size
    <3> SUFFICES ASSUME NEW t \in Tmp', NEW e \in Live', t.nr = e.nr PROVE t.size = e.size
      OBVIOUS
    <3>1. t \in Live'
      BY <1>1
    <3> QED BY <2>3, <3>1 DEF Unique
  <2> QED BY <2>2, <2>3, <2>4, <2>5 DEF Kept
<1> QED BY <1>7, <1>8

\* A pass keeps the entry of every inode that is still wrong: an entry goes when
\* the file is another one, or the inode is right and was so before the restart.
LEMMA FixListStep == ASSUME IInv, TypeOK', FixInodeList PROVE (Good => Kept)' /\ Own'
<1> DEFINE kept == {e \in list.entries : ~Gone(e) /\ ~Settled(e)}
           F    == Listed(kept) \cap WrongOnDisk
           new  == {[e EXCEPT !.fixed = up] : e \in kept}
<1>1. /\ UNCHANGED <<up, tmp, nrs>> /\ owed' = owed \cup F
      /\ pc = "idle" /\ list # None /\ Readable(list)
  BY DEF FixInodeList
<1>2. PICK R \in Repaired(F), K \in SUBSET Nrs : file' = FixedIn(R, K)
  BY DEF FixInodeList
<1>3. /\ Kept /\ Live = list.entries /\ OnList = list.entries /\ Tmp' = Tmp
      /\ list.entries \subseteq Entries /\ \A e \in Entries : e.nr \in Nrs /\ e.fixed \in Int
      /\ up \in Int /\ owed \subseteq Nrs /\ F \subseteq Nrs
  <2>1. Good /\ Live = list.entries /\ OnList = list.entries /\ Tmp' = Tmp
    BY <1>1 DEF Good, Live, OnList, Tmp
  <2>2. /\ list.entries \subseteq Entries /\ \A e \in Entries : e.nr \in Nrs /\ e.fixed \in Int
        /\ up \in Int /\ owed \subseteq Nrs /\ F \subseteq Nrs
    BY <1>1, InodesAssumption DEF IInv, TypeOK, Entries, WrongOnDisk
  <2> QED BY <2>1, <2>2 DEF IInv
<1>4. \A n \in Nrs :
        /\ file'[n] # None <=> file[n] # None
        /\ file[n] # None => file'[n].size = file[n].size
        /\ Bad(file'[n]) => Bad(file[n])
        /\ MemOnly(file'[n]) => n \in R \/ MemOnly(file[n])
        /\ Bad(file'[n]) /\ n \notin WrongOnDisk => MemOnly(file[n])
  <2>1. R \in SUBSET WrongOnDisk
    BY <1>2, RepairedIs
  <2> QED BY <1>2, <2>1, SyncFix DEF IInv
<1>5. R \subseteq F /\ \A n \in F : n \in Listed(kept) /\ n \in WrongOnDisk
  BY <1>2, RepairedIs
<1>6. \A e \in kept : /\ e \in list.entries /\ file[e.nr] # None /\ e.size = file[e.nr].size
                      /\ e \in Entries
  BY <1>3 DEF Gone
\* Every inode that is still wrong has its entry kept.
<1>7. ASSUME NEW n \in owed', Bad(file'[n]) PROVE Carries(kept, n, file'[n].size)
  <2>1. n \in Nrs /\ file[n] # None /\ file'[n].size = file[n].size /\ Bad(file[n])
    BY <1>1, <1>3, <1>4, <1>7 DEF Bad
  <2>2. CASE n \in F
    <3>1. PICK e \in kept : e.nr = n
      BY <1>5, <2>2 DEF Listed
    <3> QED BY <1>6, <2>1, <3>1 DEF Carries
  <2>3. CASE n \notin F
    <3>1. PICK e \in list.entries : e.nr = n /\ e.size = file[n].size
      BY <1>1, <1>3, <2>1, <2>3 DEF Kept, Carries
    <3>2. ~Gone(e)
      BY <2>1, <3>1 DEF Gone
    <3>3. ~Settled(e)
      <4>1. n \notin WrongOnDisk => e.fixed <= up
        BY <1>3, <1>4, <1>7, <2>1, <3>1 DEF Kept
      <4> QED BY <1>3, <3>1, <4>1 DEF Settled
    <3> QED BY <2>1, <3>1, <3>2, <3>3 DEF Carries
  <2> QED BY <2>2, <2>3
<1>8. \A n \in Nrs : MemOnly(file'[n]) => n \in owed'
  BY <1>1, <1>4, <1>5 DEF IInv, Own
<1>9. \A t \in Tmp : t.fixed <= up
  BY DEF IInv, Own
<1>10. Unique(Tmp)
  BY DEF IInv, Own
<1> HIDE DEF F, kept
<1>11. CASE kept = {}
  <2>1. list' = None /\ pc' = "idle"
    BY <1>1, <1>11 DEF FixInodeList, kept
  <2>2. Live' = {} /\ OnList' = {}
    BY <2>1 DEF Live, OnList
  <2>3. \A n \in owed' : ~Bad(file'[n])
    BY <1>7, <1>11 DEF Carries
  <2>4. Own'
    BY <1>1, <1>3, <1>8, <1>9, <1>10, <2>1 DEF Own
  <2>5. Kept'
    BY <2>2, <2>3 DEF Kept, Unique
  <2> QED BY <2>4, <2>5
<1>12. CASE kept # {}
  <2>1. list' = [nr |-> -1, entries |-> {}] /\ pc' = "write" /\ want' = new
    BY <1>12 DEF FixInodeList, BeginWrite, kept
  <2>2. Live' = new /\ OnList' = {}
    BY <2>1 DEF Live, OnList
  <2>3. \A e \in kept : LET w == [e EXCEPT !.fixed = up]
                       IN  w \in new /\ w.nr = e.nr /\ w.size = e.size /\ w.fixed = up
    BY <1>6 DEF Entries
  <2>4. \A w \in new : \E e \in kept : w = [e EXCEPT !.fixed = up]
                                    /\ w.nr = e.nr /\ w.size = e.size /\ w.fixed = up
    BY <1>6 DEF Entries
  <2> HIDE DEF new
  <2>5. Own'
    BY <1>1, <1>3, <1>8, <1>9, <1>10, <2>1 DEF Own
  <2>6. ASSUME NEW n \in owed', Bad(file'[n]) PROVE Carries(Live', n, file'[n].size)
    <3>1. PICK e \in kept : e.nr = n /\ e.size = file'[n].size
      BY <1>7, <2>6 DEF Carries
    <3>2. PICK w \in new : w.nr = e.nr /\ w.size = e.size
      BY <2>3
    <3> QED BY <2>2, <3>1, <3>2 DEF Carries
  <2>7. Unique(Live')
    <3> SUFFICES ASSUME NEW d \in new, NEW w \in new, d.nr = w.nr PROVE d = w
      BY <2>2 DEF Unique
    <3>1. PICK d1 \in kept : d = [d1 EXCEPT !.fixed = up] /\ d.nr = d1.nr
      BY <2>4
    <3>2. PICK w1 \in kept : w = [w1 EXCEPT !.fixed = up] /\ w.nr = w1.nr
      BY <2>4
    <3>3. d1 = w1
      BY <1>3, <1>6, <3>1, <3>2 DEF Kept, Unique
    <3> QED BY <3>1, <3>2, <3>3
  <2>8. Unique(OnList')
    BY <2>2 DEF Unique
  <2>9. \A e \in Live' : MemOnly(file'[e.nr]) => e.fixed <= up'
    BY <1>1, <1>3, <2>2, <2>4
  <2>10. \A t \in Tmp', e \in Live' : t.nr = e.nr => t.size = e.size
    BY <1>3, <1>6, <2>2, <2>4 DEF Kept
  <2> QED BY <2>5, <2>6, <2>7, <2>8, <2>9, <2>10 DEF Kept
<1> QED BY <1>11, <1>12

-----------------------------------------------------------------------------
(* The invariant.                                                          *)

LEMMA InvInit == Init => IInv
<1> SUFFICES ASSUME Init PROVE IInv
  OBVIOUS
<1>1. TypeOK
  <2>1. [size : Sizes, disk : {TRUE}, mem : {TRUE}, dirty : {FALSE}] \subseteq Inodes
    BY DEF Inodes
  <2>2. file \in [Nrs -> {None} \cup Inodes]
    BY <2>1 DEF Init
  <2> QED BY <2>2, InodesAssumption DEF Init, TypeOK
<1>2. Tmp = {} /\ Live = {} /\ OnList = {} /\ owed = {} /\ pc = "idle"
  BY DEF Init, Tmp, Live, OnList
<1>3. \A n \in Nrs : ~MemOnly(file[n])
  BY DEF Init, MemOnly
<1> QED BY <1>1, <1>2, <1>3 DEF IInv, Kept, Own, Unique

LEMMA InvStep == IInv /\ [Next]_vars => IInv'
<1> SUFFICES ASSUME IInv, [Next]_vars PROVE IInv'
  OBVIOUS
<1>1. TypeOK /\ TypeOK'
  BY TypeStep DEF IInv
<1> SUFFICES (Good => Kept)' /\ Own'
  BY <1>1 DEF IInv
<1>2. ASSUME NEW n \in Nrs, WriteBack(n) \/ Delete(n) \/ Record(n) PROVE (Good => Kept)' /\ Own'
  BY <1>1, <1>2, FilesSteps
<1>3. ASSUME NEW n \in Nrs, NEW N \in SUBSET (Nrs \ {n}), CutFiles(n, N)
      PROVE  (Good => Kept)' /\ Own'
  BY <1>1, <1>3, FilesSteps
<1>4. CASE Tick
  <2>1. /\ UNCHANGED <<file, list, tmp, want>> /\ pc' = pc /\ owed' = owed
        /\ up \in Int /\ up' \in Int /\ up <= up'
    BY <1>1, <1>4, InodesAssumption DEF Tick, TypeOK
  <2> QED BY <2>1, FilesMove
<1>5. CASE SwitchOff
  BY <1>5, SwitchOffStep
<1>6. CASE \/ IcheckFails \/ IcheckOnly \/ CheckAll \/ FsckFails
           \/ Merge \/ EndWrite \/ FixInodeListFails
  BY <1>1, <1>6, ListsSteps
<1>7. CASE IcheckAndFix
  <2> DEFINE F == nrs \cap WrongOnDisk
  <2>1. PICK R \in Repaired(F), K \in SUBSET Nrs : file' = FixedIn(R, K)
    BY <1>7 DEF IcheckAndFix
  <2>2. /\ UNCHANGED <<up, list>> /\ pc = "icheck" /\ pc' = "merge"
        /\ owed' = owed \cup {n \in nrs : Wrong(n)}
        /\ up \in 0..MaxUp /\ up <= up
    BY <1>1, <1>7, InodesAssumption DEF IcheckAndFix, TypeOK
  <2>3. Tmp' = Log(F, up)
    <3>1. Log(F, up) # None
      BY <1>1, <2>2, LogIs
    <3>2. F = {} => Log(F, up) = {}
      BY DEF Log
    <3>3. tmp' = IF F = {} THEN None ELSE Log(F, up)
      BY <1>7 DEF IcheckAndFix
    <3> HIDE DEF F
    <3> QED BY <3>1, <3>2, <3>3 DEF Tmp
  <2>4. R \subseteq F
    BY <2>1, RepairedIs
  <2> QED BY <1>1, <2>1, <2>2, <2>3, <2>4, CheckSteps
<1>8. CASE Fsck
  <2> DEFINE F == nrs \cap WrongOnDisk
  <2>1. /\ UNCHANGED <<up, list>> /\ pc = "fsck" /\ pc' = "merge"
        /\ owed' = owed \cup {n \in nrs : Wrong(n)}
        /\ up \in 0..MaxUp /\ up <= up /\ 0 \in 0..MaxUp /\ 0 <= up
    BY <1>1, <1>8, InodesAssumption DEF Fsck, TypeOK
  <2>2. PICK R \in SUBSET F, K \in SUBSET Nrs, at \in 0..MaxUp :
          at <= up /\ file' = FixedIn(R, K) /\ tmp' = Log(F, at)
    <3>1. CASE \E R \in Repaired(F), K \in SUBSET Nrs : file' = FixedIn(R, K) /\ tmp' = Log(F, up)
      BY <2>1, <3>1, RepairedIs
    <3>2. CASE file' = FixedIn({}, Nrs) /\ tmp' = Log(F, 0)
      BY <2>1, <3>2
    <3> QED BY <1>8, <3>1, <3>2 DEF Fsck
  <2>3. Tmp' = Log(F, at)
    <3>1. Log(F, at) # None
      BY <1>1, LogIs
    <3> QED BY <2>2, <3>1 DEF Tmp
  <2> QED BY <1>1, <2>1, <2>2, <2>3, CheckSteps
<1>9. CASE FixInodeList
  BY <1>1, <1>9, FixListStep
<1>10. CASE UNCHANGED vars
  <2>1. /\ UNCHANGED <<file, list, tmp, want>> /\ pc' = pc /\ owed' = owed
        /\ up \in Int /\ up' \in Int /\ up <= up'
    BY <1>1, <1>10, InodesAssumption DEF vars, TypeOK
  <2> QED BY <2>1, FilesMove
<1> QED BY <1>2, <1>3, <1>4, <1>5, <1>6, <1>7, <1>8, <1>9, <1>10 DEF Next

LEMMA InvWatched == IInv => Watched
<1> SUFFICES ASSUME IInv, pc = "idle", Readable(list)
             PROVE  /\ \A n \in owed : Wrong(n) => OnListNow(n)
                    /\ \A d, e \in OnList : d.nr = e.nr => d = e
  BY DEF IInv, Watched
<1>1. Kept /\ Live = OnList
  BY DEF IInv, Good, Live
<1> QED BY <1>1 DEF Kept, Unique, Carries, OnListNow, Wrong, Bad

\* For every set of inode numbers, sizes and faults: an inode that a check or a
\* pass over the list (HDD_CheckInodes, HDD_CheckFileSystem, HDD_FixInodeList)
\* set out to fix and that is still wrong, on the disk or in the kernel's copy,
\* is on the list of its disk with the size it has, while the list can be read.
THEOREM WatchedAlways == Spec => []Watched
<1> QED BY InvInit, InvStep, InvWatched, PTL DEF Spec
=============================================================================
