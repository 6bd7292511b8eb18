----------------------------- MODULE InodeLists -----------------------------
(***************************************************************************)
(* A cut can leave a wrong block count in the inodes of its files.  The    *)
(* checks after a job (HddToolsLib.c, jfs_icheck, the fixing part of       *)
(* jfs_fsck) put the count right on the disk, but the file system is       *)
(* mounted: the kernel may hold the wrong count and write it back later.   *)
(* So every such inode goes on a list, FixInodes.lst, in the root of its   *)
(* disk, which is gone through at each start, end of a playback and exit,  *)
(* until the inode was found right after a restart.  The module follows    *)
(* the inodes and the lists of one disk, with InodeMonitoring on.          *)
(***************************************************************************)
EXTENDS Integers, FiniteSets

CONSTANTS
    Nrs,     \* inode numbers, used again when a file was deleted
    Sizes,   \* sizes of files, numbers
    MaxUp,   \* the bound of the up-time of the receiver
    Faults,  \* what may go wrong: some of "fork", "open", "fix", "write"
    None     \* no file, no list

ASSUME InodesAssumption ==
    /\ Sizes \subseteq Nat
    /\ MaxUp \in Nat \ {0}
    /\ Faults \subseteq {"fork", "open", "fix", "write"}

VARIABLES
    file,    \* inode -> None or its size, and whether the count is right on
             \* the disk and in the kernel's copy, and whether that was written
    up,      \* seconds since the boot (time() - btime)
    check,   \* DoiCheckTest: "ro" or "rw", at the end of a job
    after,   \* CheckFSAfterCut: "auto", "always" or "never"
    list,    \* FixInodes.lst: None or the number of entries its header gives,
             \* and the entries it has
    tmp,     \* /tmp/FixInodes.tmp: None or the entries
    pc,      \* what MovieCutter is doing
    nrs,     \* the inodes of the job that is checked
    want,    \* the entries being written to the list
    resume,  \* what comes after that
    owed     \* history: inodes that a check was to fix since they last changed

vars == <<file, up, check, after, list, tmp, pc, nrs, want, resume, owed>>

Inodes  == [size : Sizes, disk : BOOLEAN, mem : BOOLEAN, dirty : BOOLEAN]
Entries == [nr : Nrs, size : Sizes, fixed : 0..MaxUp]

\* An entry is made of integers of fixed width; None is no inode, no set of
\* entries and no content of a list file.
ASSUME EntriesAssumption == IsFiniteSet(Entries)
ASSUME NoneAssumption ==
    /\ \A i \in Inodes : i # None
    /\ \A E \in SUBSET Entries : E # None
    /\ None # [nr |-> -1, entries |-> {}]
    /\ \A E \in SUBSET Entries : \A P \in SUBSET E : [nr |-> Cardinality(E), entries |-> P] # None

Listed(entries) == {e.nr : e \in entries}
Wrong(n)        == file[n] # None /\ ~(file[n].disk /\ file[n].mem)

\* The header check of ReadListFileAlloc: a file that is not there reads as an
\* empty list, one whose size does not fit its header cannot be read.
Readable(f) == f = None \/ f.nr = Cardinality(f.entries)
OnList      == IF list = None THEN {} ELSE list.entries

OnListNow(n) == file[n] # None /\ \E e \in OnList : e.nr = n /\ e.size = file[n].size

Init ==
    /\ file \in [Nrs -> {None} \cup [size : Sizes, disk : {TRUE}, mem : {TRUE}, dirty : {FALSE}]]
    /\ up = 0
    /\ check \in {"ro", "rw"} /\ after \in {"auto", "always", "never"}
    /\ list = None /\ tmp = None
    /\ pc = "idle" /\ nrs = {}
    /\ want = {} /\ resume = "idle" /\ owed = {}

-----------------------------------------------------------------------------
(***************************************************************************)
(* The file system.  drop_caches writes what is dirty and forgets inodes   *)
(* that nobody uses; an inode that is in use stays, and can be written     *)
(* again whenever it is touched.                                           *)
(***************************************************************************)
Written(i) == IF i.dirty THEN [i EXCEPT !.disk = i.mem, !.dirty = FALSE] ELSE i
Synced     == [n \in Nrs |-> IF file[n] = None THEN None ELSE Written(file[n])]

\* fix_inode on the inodes of F of a synced system, then drop_caches with the
\* inodes of K in use.
FixedIn(F, K) ==
    [n \in Nrs |-> IF Synced[n] = None THEN None
                   ELSE LET disk == n \in F \/ Synced[n].disk
                        IN  [Synced[n] EXCEPT !.disk = disk,
                                              !.mem = IF n \in K THEN @ ELSE disk]]

WrongOnDisk == {n \in Nrs : Synced[n] # None /\ ~Synced[n].disk}

\* The kernel touches the inode and writes it.
WriteBack(n) ==
    /\ file[n] # None
    /\ file' = [file EXCEPT ![n].disk = file[n].mem, ![n].dirty = FALSE]
    /\ UNCHANGED <<up, check, after, list, tmp, pc, nrs, want, resume, owed>>

Delete(n) ==
    /\ pc = "idle" /\ file[n] # None
    /\ file' = [file EXCEPT ![n] = None] /\ owed' = owed \ {n}
    /\ UNCHANGED <<up, check, after, list, tmp, pc, nrs, want, resume>>

Record(n) ==
    /\ pc = "idle" /\ file[n] = None
    /\ \E s \in Sizes : file' = [file EXCEPT ![n] = [size |-> s, disk |-> TRUE, mem |-> TRUE, dirty |-> FALSE]]
    /\ owed' = owed \ {n}
    /\ UNCHANGED <<up, check, after, list, tmp, pc, nrs, want, resume>>

Tick ==
    /\ up < MaxUp /\ up' = up + 1
    /\ UNCHANGED <<file, check, after, list, tmp, pc, nrs, want, resume, owed>>

\* The receiver is switched off and on, or restarts, in the middle of whatever
\* it does.  Of a fix that was not yet listed nobody can know.
SwitchOff ==
    /\ up' = 0 /\ tmp' = None /\ pc' = "idle" /\ want' = {} /\ nrs' = {}
    /\ file' = [n \in Nrs |-> IF file[n] = None THEN None
                              ELSE [file[n] EXCEPT !.mem = file[n].disk, !.dirty = FALSE]]
    /\ owed' = IF pc = "idle" THEN owed ELSE {n \in owed : OnListNow(n)}
    /\ resume' = "idle" /\ UNCHANGED <<check, after, list>>

-----------------------------------------------------------------------------
(***************************************************************************)
(* A job.  MovieCutterProcess shortens a recording, with or without a new  *)
(* file beside it, and then has these inodes checked.                      *)
(***************************************************************************)
CutFiles(n, N) ==
    /\ pc = "idle" /\ file[n] # None /\ \A m \in N : file[m] = None
    /\ \E size \in [N \cup {n} -> Sizes], right \in [N \cup {n} -> BOOLEAN] :
        /\ size[n] < file[n].size
        /\ file' = [m \in Nrs |-> IF m \in N \cup {n}
                                  THEN [size |-> size[m], mem |-> right[m], dirty |-> TRUE,
                                        disk |-> m \in N \/ file[m].disk]
                                  ELSE file[m]]
    /\ owed' = owed \ (N \cup {n})
    /\ nrs' = N \cup {n} /\ pc' = "icheck"
    /\ UNCHANGED <<up, check, after, list, tmp, want, resume>>

\* The inodes a fix is tried on and succeeds.
Repaired(F) == IF "fix" \in Faults THEN SUBSET F ELSE {F}
Log(F, at)  == {[nr |-> n, size |-> file[n].size, fixed |-> at] : n \in F}
AfterJob(e) == IF after = "always" \/ (after = "auto" /\ e) THEN "fsck" ELSE "idle"
Leave(next) == pc' = next /\ nrs' = IF next = "idle" THEN {} ELSE nrs

\* HDD_CheckInodes (HDD_CheckInode is the same for one file): jfs_icheck looks
\* at the inodes; with "rw" it fixes the wrong ones and logs them to a temp list.
IcheckFails ==
    /\ pc = "icheck" /\ "fork" \in Faults
    /\ tmp' = IF check = "rw" THEN None ELSE tmp
    /\ Leave(AfterJob(TRUE))
    /\ UNCHANGED <<file, up, check, after, list, want, resume, owed>>

IcheckOnly ==
    /\ pc = "icheck" /\ check = "ro"
    /\ Leave(AfterJob(\E n \in nrs : ~file[n].disk))
    /\ UNCHANGED <<file, up, check, after, list, tmp, want, resume, owed>>

IcheckAndFix ==
    /\ pc = "icheck" /\ check = "rw"
    /\ LET F == nrs \cap WrongOnDisk IN
        /\ \E R \in Repaired(F), K \in SUBSET Nrs : file' = FixedIn(R, K)
        /\ tmp' = IF F = {} THEN None ELSE Log(F, up)
        /\ resume' = AfterJob(F # {})
    /\ owed' = owed \cup {n \in nrs : Wrong(n)}
    /\ pc' = "merge"
    /\ UNCHANGED <<up, check, after, list, nrs, want>>

\* Check file system in the menu, or at the exit.
CheckAll ==
    /\ pc = "idle" /\ pc' = "fsck" /\ nrs' = Nrs
    /\ UNCHANGED <<file, up, check, after, list, tmp, want, resume, owed>>

\* HDD_CheckFileSystem: jfs_fsck fixes and lists the wrong inodes, then the
\* temp list is added to that of the disk - the one jfs_fsck wrote, or what an
\* earlier check left there if it could not be started.  What the fixing part
\* could not open the device for is listed as never fixed.
Fsck ==
    /\ pc = "fsck"
    /\ LET F == nrs \cap WrongOnDisk IN
        \/ \E R \in Repaired(F), K \in SUBSET Nrs : file' = FixedIn(R, K) /\ tmp' = Log(F, up)
        \/ "open" \in Faults /\ file' = FixedIn({}, Nrs) /\ tmp' = Log(F, 0)
    /\ owed' = owed \cup {n \in nrs : Wrong(n)}
    /\ pc' = "merge" /\ resume' = "idle"
    /\ UNCHANGED <<up, check, after, list, nrs, want>>

FsckFails ==
    /\ pc = "fsck" /\ "fork" \in Faults
    /\ pc' = "merge" /\ resume' = "idle"
    /\ UNCHANGED <<file, up, check, after, list, tmp, nrs, want, owed>>

-----------------------------------------------------------------------------
(***************************************************************************)
(* The list.  WriteListFile empties the file and fills it; the entries on  *)
(* it have different inode numbers, and no code minds their order.         *)
(***************************************************************************)
BeginWrite(entries, next) ==
    /\ list' = [nr |-> -1, entries |-> {}]
    /\ want' = entries /\ resume' = next /\ pc' = "write"

EndWrite ==
    /\ pc = "write"
    /\ \/ list' = [nr |-> Cardinality(want), entries |-> want]
       \/ /\ "write" \in Faults
          /\ \E part \in SUBSET want : list' = [nr |-> Cardinality(want), entries |-> part]
    /\ Leave(resume) /\ want' = {} /\ resume' = "idle"
    /\ UNCHANGED <<file, up, check, after, tmp, owed>>

\* AddTempListToDevice: an entry of the temp list takes the place of the one
\* with the same number, or is appended; without entries, or if the list of the
\* disk cannot be read, nothing is written.
Merge ==
    /\ pc = "merge"
    /\ IF tmp \notin {None, {}} /\ Readable(list)
       THEN BeginWrite(tmp \cup {e \in OnList : e.nr \notin Listed(tmp)}, resume) /\ UNCHANGED nrs
       ELSE Leave(resume) /\ resume' = "idle" /\ UNCHANGED <<list, want>>
    /\ UNCHANGED <<file, up, check, after, tmp, owed>>

\* CheckInodeList with DeleteOldEntries: an entry goes if the file is gone or
\* has another size, and if the inode is right and was fixed before a restart -
\* told by an up-time below that of the last fix.
Gone(e)     == file[e.nr] = None \/ file[e.nr].size # e.size
\* A bug for the check of Watched: the restart is not waited for.
RightNow(e) == e.nr \notin WrongOnDisk
Settled(e)  == e.nr \notin WrongOnDisk /\ up < e.fixed

\* HDD_FixInodeList: at the start, when a playback has ended, at the exit.
FixInodeList ==
    /\ pc = "idle" /\ list # None /\ Readable(list)
    /\ LET kept == {e \in list.entries : ~Gone(e) /\ ~Settled(e)}
           F    == Listed(kept) \cap WrongOnDisk
       IN  /\ \E R \in Repaired(F), K \in SUBSET Nrs : file' = FixedIn(R, K)
           /\ owed' = owed \cup F
           /\ IF kept = {} THEN list' = None /\ UNCHANGED <<pc, want, resume>>
              ELSE BeginWrite({[e EXCEPT !.fixed = up] : e \in kept}, "idle")
    /\ UNCHANGED <<up, check, after, tmp, nrs>>

\* The device cannot be opened: the list is written as it was read.
FixInodeListFails ==
    /\ pc = "idle" /\ list # None /\ Readable(list) /\ "open" \in Faults
    /\ BeginWrite(list.entries, "idle")
    /\ UNCHANGED <<file, up, check, after, tmp, nrs, owed>>

-----------------------------------------------------------------------------
Next ==
    \/ \E n \in Nrs : WriteBack(n) \/ Delete(n) \/ Record(n)
    \/ \E n \in Nrs : \E N \in SUBSET (Nrs \ {n}) : CutFiles(n, N)
    \/ Tick \/ SwitchOff
    \/ IcheckFails \/ IcheckOnly \/ IcheckAndFix
    \/ CheckAll \/ Fsck \/ FsckFails
    \/ Merge \/ EndWrite \/ FixInodeList \/ FixInodeListFails

Spec == Init /\ [][Next]_vars

-----------------------------------------------------------------------------
TypeOK ==
    /\ file \in [Nrs -> {None} \cup Inodes]
    /\ up \in 0..MaxUp
    /\ check \in {"ro", "rw"} /\ after \in {"auto", "always", "never"}
    /\ list = None \/ list.entries \subseteq Entries
    /\ tmp = None \/ tmp \subseteq Entries
    /\ pc \in {"idle", "icheck", "merge", "write", "fsck"}
    /\ nrs \subseteq Nrs
    /\ want \subseteq Entries /\ resume \in {"idle", "fsck"}
    /\ owed \subseteq Nrs

\* An inode that a check or a pass over the list set out to fix, and that is
\* still wrong on the disk or in the kernel's copy - which can bring the error
\* back - is on the list of its disk, with the size the file has, as long as
\* the list can be read: whatever cuts, deleted files with numbers used again,
\* restarts, failed fixes and checks that could not be started came between.
\* No number is on the list twice.
Watched ==
    /\ TypeOK
    /\ pc = "idle" /\ Readable(list) =>
        /\ \A n \in owed : Wrong(n) => OnListNow(n)
        /\ \A d, e \in OnList : d.nr = e.nr => d = e
=============================================================================
