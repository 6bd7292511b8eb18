# MovieCutter in TLA+

MovieCutter is a TAP (a plug-in) for Topfield TMS receivers.  While a recording is
played it lets the user set segment markers and bookmarks with the remote control,
select segments and cut them out of the recording.  Everything runs in the receiver's
single event loop: the firmware calls `TAP_EventHandler` with keys and idle events.
The firmware cuts, but only near the positions it is asked for, and knows nothing of
markers, so MovieCutter measures what was cut and corrects its lists and files.

This directory holds TLA+ modules that model the program, the TLC configurations that
check them and the TLAPS proofs about them.  Line numbers are those of
`src/source/MovieCutter.c` unless another file is named.

## 1. Inventory

| part | state | operations | what is hard | what makes it correct |
|---|---|---|---|---|
| Segment editing (1302-2058, 3055-3470) | `SegmentMarker[]`, `NrSegmentMarker`, `ActiveSegment`, caption buffers | add, move, delete, clear, select, caption, import | indices kept over edits, block 0, full list, pointers shared with the undo ring | ends fixed, list sorted, indices in range, one owner per buffer |
| Bookmarks (3476-3719) | `Bookmarks[]`, `NrBookmarks`, the firmware's info cache | add, move, delete, clear, export | the cache can fail after the list in memory changed | sorted |
| Undo ring (3724-3857) | `UndoStack[]`, `UndoLastItem` | add event, undo, reset | the ring wraps, events outlive what they are about, block 0 means "none" | undo restores the previous lists |
| Navigation (1808-1866, 4780, 6371-6650) | `JumpRequested*`, `JumpPerformedTime` | delayed jumps, direct jumps | a jump is pending while the list changes | the index stays inside the list |
| Cut process (6660-7480; `MovieCutterLib.c` 107-560) | the recording, `_temp`, the ` (Cut-n)` files, `SegmentMarker[]`, the .cut files | save, delete, split | inexact cuts, swapping names, every call can fail, switch-off in between | nothing lost, what was asked is done, markers follow the content |
| Session (793-1300, 2530-2760) | `State`, `LastTotalBlocks`, `DoNotReenter` | acceptance of a playback, OSD on and off, stop event, exit | dialogs that run the handler inside itself, recordings told apart by length only | a list never meets another recording, the exit runs once |
| RecStrip driver (2192-2560) | `RecStrip_active`, `RecStrip_Pid`, `RecStrip_Return` | start, poll, abort, finish | a child process, nested idle events, stop during a dialog, two renames | ends, renames only after success |
| Cut-list persistence (3864-4500) | .cut file, the upper end of the firmware's bookmark area, .inf | load, save, encode, decode | three formats, wrong sizes, area shared with the bookmarks | what is saved is loaded again; what is loaded is a proper list |
| Time stamps (7643-7785; `MovieCutterLib.c` 1901-1999) | `TimeStamps[]`, `LastTimeStamp` | load, look up, repair | a cursor that moves both ways, gaps | equals a search from the start |
| Companion files (`MovieCutterLib.c` 816-1900) | .nav, .inf, .srt | patch after a cut | offsets, records at the cut points, fixed-size bookmark area | each record in one part, times without gap |
| Inode checks (`HddToolsLib.c`, `jfsutils/icheck/jfs_icheck.c`) | FixInodes.lst of each disk, a temp list, the kernel's copies of the inodes | check, fix, merge, pass over the list | a list rewritten in place, reused inode numbers, a fix the kernel undoes | what a fix is not sure to last for stays listed |
| Receiver interface (`CWTapApiLib.c`, `ALTEFBLibWrapper.c`) | none of its own | wrappers | renames without a result | - |
| Drawing, texts, INI | regions, settings | - | - | - |
| Other TAPs (RecStripper, HDDSpindown, StandbySwitch, HDDIntegrity, jfs_fsck set-up) | a queue, settings | - | - | - |
| jfsutils, but for the inode list | vendored | called as programs | - | - |

How the parts interact: every key ends in one function of the editing part, which adds
an event to the undo ring and reads the time stamps.  The idle event follows the
playback (`SetCurrentSegment`) and carries out delayed jumps.  "Save", "Delete" and
"Split" of the action menu save the list, stop the playback and run the cut process
within the same call of the handler; behind each segment it restarts the playback,
reads its length and shifts the list.  The list reaches the disk in the .cut file and
in the bookmark area, and comes back from there when a playback starts.

`PROJECT.json` lists every part with its status and, under "hazards", what in this
code a test would hardly reach, with the line and the properties about it.

## 2. Plan

| | module | state |
|---|---|---|
| 1 | SegmentMarkers, SegmentHistory: editing, bookmarks, undo, navigation | done; every safety property of the runs proved, MarkersSorted under a condition on imports (section 6) |
| 2 | CutProcess as a refinement of Recording | done; the refinement, SyncBytesRestored and NothingLost proved |
| 3 | Session: state machine, dialogs, re-entry, RecStrip, stop event | done; every safety property proved, liveness with TLC |
| 4 | CutPersist: .cut file and bookmark area | done; BookmarksKept, OwnList, ProperList, ListComesBack and the round trip of the coding proved |
| 5 | NavTimes: loading, cursor, repair, division at a cut | done; OriginalKept, LookupRight, TypeOK, GapsClosed and BookmarksDivided proved |
| 6 | InodeLists: the lists of HddToolsLib with restarts between opening and closing | done; Watched proved |

Left: PatchSrtFiles and FindCutPointOffset2, the two older formats of the .cut file, the
RecStripper TAP; proofs of DoneAsAsked and MarkersFollow (which need, beyond what is proved
of the drift for NothingLost, the same for the segments that stay); and joining modules that now meet in constants only:
CutPersist's ProperList is the assumption LoadAssumption of SegmentMarkers, what CutProcess
saves is a Replace in CutPersist.

## 3. The modules

### SegmentMarkers, SegmentHistory, MCSegmentMarkers

`SegmentMarkers` is the editing core.  `markers[i + 1]` is `SegmentMarker[i]`; a marker
has its block, its selection and its caption buffer.  `Percent` and `Timems` follow from
the block and are left out.  `undo` is the ring, `heap` the caption buffers that are
allocated, so that a double or missing `TAP_MemFree` can be seen.

| code | action or operator |
|---|---|
| `AddSegmentMarker`, `MoveSegmentMarker`, `DeleteSegmentMarker`, `DeleteAllSegmentMarkers`, `SelectSegmentMarker` | `MayAdd`/`InsertIndex`/`AddSegmentMarker`, `TooSmallToMove`/..., operators of the same names |
| the keys of `ST_ActiveOSD` that edit a list | `AddMarkerKey`, `DeleteMarkerKey`, `MoveMarkerKey`, `SelectKey`, `CaptionKey`, `ToggleBookmarkMode`, the bookmark keys |
| `AddBookmark`, `MoveBookmark`, `DeleteBookmark`, `DeleteAllBookmarks`, `ExportSegmentsToBookmarks`, `ImportBookmarksToSegments` | `WithBookmark`, `MovedBookmark`, ..., `MenuExport`, `MenuImport` with `ImportStep` and `ImportEnd` |
| `UndoAddEvent`, `UndoLastAction`, `UndoResetStack` | `UndoAddEvent`, `UndoKey`, `UndoResetStack` |
| `SetCurrentSegment`, `JumpRequested*`, the idle event | `Idle`, `RequestSegment`, `RequestBlock`, `ExecuteJump`, `CancelJump`, `JumpToSegment`, `JumpElsewhere` |
| `ST_ActionMenu`, `ST_ActionSubMenu` | `OpenMenu` to `MenuImport`, `LeaveSubMenu` |
| start and end of a playback, OSD off and on | `StartPlayback`, `PlaybackEnds`, `Deactivate`, `Reactivate` |

A handler is one step, as the event loop is not interrupted; only the loop of
`ImportBookmarksToSegments` makes one step per bookmark, with nothing in between.
Constants stand for what comes from outside: the positions of the playback, the block
the time stamps name (`NavBlock`: any function that answers with a block not behind the
asked one, or with none), the lists a saved file or the firmware can hand over.  The
info cache of the firmware fails at will (`infOk`).

`SegmentHistory` adds the variable `past`: the lists before and after the action behind
each undo event.  It restricts no step.  `MCSegmentMarkers` holds the small instances.

### CutProcess, Recording, MCCutProcess

A file is the set of the blocks of the original recording it holds.  Since a cut never
reorders, a position in a file is the number of blocks before it.  So the model can ask
what a test can hardly ask: where each block ended up.  Positions are whole blocks;
`Radius` is `CUTPOINTSEARCHRADIUS` in blocks, `DWord` stands for 2^32.

| code | action or operator |
|---|---|
| `MovieCutterSaveSegments`, `MovieCutterDeleteSegments` | `SaveOrDelete` |
| `MovieCutterSplitMovie` | `Split` |
| `MovieCutterProcess`: loop, names, special end, restart, adjustment, final save | `Skip`, `Choose`, `SpecialEnd`, `Swap`, `SwapBack`, `Restart`, `Adjust`, `Save` |
| `MovieCutter` (library): patch, cut, positions, truncate, companion names | `Patch`, `Cut`, `CutFails`, `Truncate`, `TruncateFails`, `Tidy` |
| `GetNextFreeCutName` | `CutName` |
| `CutFileSave`, `CutFileSave2` | `CutFileSave`, `SavePart` |
| power off, a new playback | `SwitchOff`, `Load` |

The firmware's cut is external: it takes any range whose ends are within `Radius` of the
requested ones (a start at 0 is hit).  `Faults` names what may fail: the cut
(`firmware`), finding the real cut points (`positions`), `RecTruncate`, `HDD_Rename2`
(which reports nothing), reading the size, the report of the restarted playback,
and the power (`off`).  A selection of all segments cuts all but the first, since the
loop stops when one is left.

`Recording` is what the program promises: a piece is taken out in one go, only deleting
throws a piece away, saving loses at most a short tail.  In the refinement a `_temp`
file counts as the recording from the moment it exists, and what is left under the old
name as the piece that was cut off; swapping names is then a stutter.

`NameOverwritten` is about line 385 of `MovieCutterLib.c`, where the call of
`GetFileNameFromRec` for the .srt name stores its result in `SourceFileName`, which is
the caller's `PlaybackName`.  {TRUE} is that call as written.  With it every job is
reported as failed and the adjustment of the markers is never reached (run `srtname`),
so the runs about the rest take {FALSE}, the argument order of the neighbouring calls;
the run `faults` takes both.

### Session, MCSession

The state machine of `TAP_EventHandler`, `TMSCommander_handler`, `Cleanup` and the driver
of RecStrip.  The handler calls the firmware while a dialog is open (`TAP_SystemProc`),
and the firmware calls the handler again; the guard `DoNotReenter` lets idle and stop
events pass while RecStrip runs.  So `stack` holds the activations with the place each
has come to, innermost last.  There is one message box, and only the last button pressed
is known, as in the code.

| code | action or operator |
|---|---|
| entry, re-entry guard, unwinding | `Deliver`, `Return`, `Exit` |
| message boxes | `Ask`, `Answer` |
| `ST_WaitForPlayback`, `ST_UnacceptedFile`, `ST_InactiveModePlaying` | `StillWaiting`, `Attach`, `Repaired`, `Refused`, `Declined`, `Accept`, `LetGo`, `Show`, `Activate` |
| `ST_ActiveOSD`, `ST_ActionMenu`, `ST_ActionSubMenu`, seen as one bit of unsaved edits | `Edit`, `Hide`, `OpenMenu`, `ClearAsk`, `Clear`, `StartRecStrip`, `CheckFS`, `PlaybackEnded` |
| `ST_Exit`, `ST_ExitNoSave` | `ExitMC` |
| the driver (2192-2460) | `NoStrip`, `Fork`, `Wait`, `ForkFailed`, `Finished` |
| `AbortRecStrip`, EVT_STOP (2500-2550) | `AbortAsk`, `Abort`, `StopAsk`, `KillLoop`, `StopNow` |
| the child process; the user's player | `ChildDone`, `ChildFails`, `ChildDies`; `StartPlay`, `EndPlay` |

Assumed: another playback starts only while OSD and dialogs are hidden; a playback ends
only when the firmware has control; the model ends at `TAP_Exit`; `HDD_Rename2` replaces
its target or fails; several questions about the acceptance are one.  A recording has
three lengths (whole, stripped, broken off), different for different recordings.  Cut
jobs, keyboard dialogs and renaming a file stay inside one call of the handler and are
left out, as is the name of the result when files are appended.

### CutPersist, MCCutPersist, CutPersistProofs

A list goes to the .cut file and into the upper end of the firmware's bookmark area, whose
lower end holds the user's bookmarks; with the recording closed the area is in the .inf
file.  An area is modelled dword by dword: count of bookmarks, slots, and from the end
downwards id, number of markers, their blocks and the selections as bits.

| code | action or operator |
|---|---|
| `CutEncodeToBM`, `CutDecodeFromBM` | operators of the same names |
| `CutFileLoad` with `CutImportFromTimeStamp`, the default list and the fitting of the end | `CutFileLoad`, `Import`, `Default`, `Normalised`, in the step `Accept` |
| `ReadBookmarks`, `SaveBookmarks`, `CutSaveToBM` | `ReadBookmarks`, `CutSaveToBM` |
| `CutFileSave`, `CutFileDelete` | `CutFileSave` (the file is now empty), `Saved` |
| the ways out of the editor | `Hide`, `ExitMC`, `PlaybackEnds`, `Restart`, `SwitchOff` |
| edits; a bookmark set by the firmware | `Edit`, `EditBookmarks`, `FirmwareBookmark` |
| another recording under the name; a receiver that puts the id elsewhere | `Replace`, `OtherReceiver` |

The property ProperList includes TypeOK: a list that was loaded starts at 0, ends at the
last block and fits the array, also from a file that was cut off by a power failure.

### NavTimes, MCNavTimes, NavTimesProofs

A .nav file is a sequence of pictures with position, type and time.

| code | action or operator |
|---|---|
| `NavLoad` | `NavLoad`, `Load` |
| `NavGetBlockTimeStamp` | `Forward`, `Backward`, `Found`, `FoundTime` in the action of the same name |
| `PatchOldNavFile`, call by call | `RenameToBak`, `OpenNavs`, `CopyRecord` (one record), `CloseNavs`, `DeleteNav`, `RestoreNav`; `Ask` (1133) |
| `PatchNavFiles` | `Inside`, `Outside` (one record), `Divide`, in `PatchNavFiles` |
| `PatchInfFiles` | `PlayTime`, `Those`, `SourceMarks`, `Within`, in the action of the same name |
| a cut by `MovieCutter`; power off | `CutBegins`; `SwitchOff` |

Assumed: positions grow within each .nav and the bookmarks that come in are in order, as the
firmware writes them.  BookmarksDivided says what PatchInfFiles makes of them: no list gets
longer than `MaxBookmarks` (48) unless it came in longer, which the array allows (177); then
the one at the cut is added without a look at the limit (`MovieCutterLib.c` 1444) and
SourceMarks can have one more.
Lost are those within `Margin` (100 blocks) of a cut point, or of the beginning of the
recording however far the cut is, which its comment does not say (section 5).  StillFits
(the play time still fits the .nav after a cut, so that it is not reported as broken) is
stated for times without a gap of half of `Discrepancy` or more.

### InodeLists, MCInodeLists, InodeListsProofs

A cut can leave a wrong number of blocks in an inode.  `jfs_icheck` and `jfs_fsck` put it
right on the disk while the disk is mounted, so the kernel may hold the wrong inode and
write it again.  `file[n]` has both sides: right on the disk, right in the kernel's copy,
and whether that copy is still to be written.  The list of the disk holds number, size and
the up-time of the last fix; an up-time below it means that the receiver was restarted
since, which is what `CheckInodeList` waits for.

| code | action or operator |
|---|---|
| the inodes of a job (7060, 7149), `DoiCheckTest`, `CheckFSAfterCut` | `CutFiles`, `AfterJob` |
| `HDD_CheckInodes`, `jfs_icheck` | `IcheckOnly` (ro), `IcheckAndFix` (rw), `IcheckFails` |
| `HDD_CheckFileSystem` and the end of `jfs_fsck` | `CheckAll`, `Fsck`, `FsckFails` |
| `drop_caches`, `fix_inode` | `Synced`, `FixedIn` |
| `ReadListFileAlloc`, `WriteListFile` | `Readable`, `BeginWrite`, `EndWrite` |
| `AddTempListToDevice` | `Merge` |
| `HDD_FixInodeList`, `CheckInodeListFile`, `CheckInodeList` | `FixInodeList`, `Gone`, `Settled`, `FixInodeListFails` |
| the kernel, the firmware, the power | `WriteBack`, `Delete`, `Record`, `Tick`, `SwitchOff` |

An entry is a number, a size and a time; how an inode's blocks are counted, and file names,
are left out.  A list file that cannot even be opened for writing is left out.

### ListLemmas and the modules with proofs (`...Proofs`)

See section 6.

## 4. The runs

Passing:

| run | bounds | shows |
|---|---|---|
| `nav` | 5 blocks, margin 1, 2 interior markers, ring of 1, no captions | type, fixed ends, indices in range, end not selected, the nearest-marker search, the distance kept by a move, with every pending jump |
| `edits` | 4 blocks, 2 interior markers, 2 interchangeable captions or 2 bookmarks, ring of 2 | list sorted, each caption buffer with one owner, both lists stay in order with imports and exports (OrderKept), Recall takes every action on a marker or a bookmark back exactly, bookmarks at block 0 included |
| `sound` | 18 blocks, radius 1, up to 3 segments, no faults, cut number 2 taken | the job does what was asked, in order (DoneAsAsked with TypeOK, CutsInOrder), the markers follow, also at a split (MarkersFollow with SplitKeepsMarkers), patched bytes come back, success is reported |
| `faults` | 12 blocks, every fault, switch-off at every step | nothing is lost, the refinement of `Recording`, every job ends |
| `twice` | 12 blocks, two jobs, failing cuts, unknown positions, switch-off | a saved list that claims the recording's size fits it |
| `life` | 2 recordings, 3 activations inside one another, 1 RecStrip, failing fork, strip and renames | a list meets only its recording, no way out forgets edits, the repeat mode comes back, also at the end of MovieCutter, a whole recording is left (RecordingsKept with TypeOK, BackupKept), MovieCutter does not end before RecStrip and kills it only when told; a stop ends, the end of RecStrip is noticed |
| `persist` | 2 recordings, 3 contents, 4 markers, area of 13 dwords, up to 1 bookmark, 1 replacement, each CutFileMode | what is loaded is a proper list, bookmarks are the user's, a list has markers only where the user once left one in its recording, comes back unchanged, and is imported by time into changed content |
| `times` | 21 pictures in groups of 7, five kinds of .nav, two cuts, failing rename, open, close and .inf, switch-off | the cursor equals a search, the original .nav is not lost, a repair closes the gaps and nothing else, both parts of a cut can be played and found by time (CutNavsPlayable with MarkersKeepTimes), their times still fit, bookmarks are shared out |
| `inodes` | 2 inodes, sizes 1 and 2, up-time 0 and 1, each setting, failing fork, open, fix and write, restarts | Watched: an inode whose fix the kernel can undo is on the list until a restart |

Why the bounds are enough.  The editing code treats all interior markers alike and looks
at direct neighbours only; two interior markers give a first, a last, a neighbour on
either side and the full list.  The ring wraps with two events after three edits.  The
cut process looks at one segment, the markers before it and those behind it; three
segments have all of them, and 18 blocks with `Limit` = 9 have recordings on both sides
of the condition of the special end.  One name of the cut files is taken, so numbers are
skipped.  In `life` a dialog can be interrupted by an idle event, and that one's own dialog
by a stop event; deeper nesting repeats these.  In `persist` the area of 13 dwords
is the smallest the sizes of the lists allow (AreaAssumption, as in the receiver: 48
bookmarks, 101 markers and their dwords fit 177); selections leave the first of the four
dwords only with more than 32 markers, which RoundTrip (section 6) covers.  In `times` the .nav files have a gap between two I-frames, one behind the last
I-frame, times that start again, and two I-frames in a block; 21 pictures have pictures
without their reference at either seam.  Fewer bookmarks come in than `MaxBookmarks` = 4,
as many and more, with one in the first `Margin` = 2 blocks, and one cut has as many as fit
in front of it and another behind.  In `inodes` one inode is the other file that
merges and reused numbers need; up-times are compared only, so 0 and 1 give below, equal
and above.

Constraints: `edits` follows states without a pending jump (OneKind): either edits of
markers, at blocks 1 and 3, without bookmarks, with at most one selected segment and with
caption buffers only while none is selected; or edits of bookmarks, at blocks 0, 2 and 3,
without selections, captions and marker events in the ring and, but for a running import,
with the first segment active, which matters to markers only.  A list of bookmarks comes in
empty or with two; imports and exports happen when there is nothing to undo.  `nav` has
pending jumps and all selections.  A bookmark import while marker events are in the ring is
left out of `edits` because it breaks the order, as section 5 says.
`SegmentMarkers_order`, which lies beside the runs, has both, without events of bookmarks
in the ring, and finds that nothing else breaks it (OrderKept, 149003 states).  The lists
of the user in the cut process have segments of at least `Spacing` blocks, the splits a distance of
`SplitGap` to every marker, and `Lag` = 0 keeps `ActiveSegment` on the segment of the
position; section 5 says what happens otherwise.  `inodes` takes the two inodes as
interchangeable.  Deadlock is not checked for the cut process, which stops when its jobs
are done, and for `life` and `persist`, where MovieCutter ends or the receiver is off.

Runs that find a violation, each a disagreement between code and comment:

| run | property | what happens |
|---|---|---|
| `srtname` | `FailsOnlyOnFaults` | see `NameOverwritten` above |
| `confirm` | `DoneWhenConfirmed` | the end of RecStrip closes the question that is open and answers it with yes |
| `foreign` | `MediaOwnList` | for a media file ReadBookmarks is skipped (1212), and where CutFileLoad is to "look in the inf" (4242) it finds the area, and so the segments, of the recording played before |

## 5. Seen while modelling

Each of these configurations lies beside the runs and TLC finds the property violated:

- `SegmentMarkers_small`, AddLeavesNoSmallSegment: the distance check of a new marker
  leaves out the last interior marker (3184).
- `SegmentMarkers_undozero`, UndoRestoresEveryMarker: a marker set at block 0 is not taken
  back, its event reads as a caption event (3784; history.txt:307).
- `SegmentMarkers_unsorted`, MarkersSorted: events that survive a bookmark import move a
  marker out of order (3793).
- `CutProcess_leftover`, NothingLost: the job after a switch-off deletes the `_temp` file
  that holds the recording's front (7138).
- `CutProcess_stalelist`, SavedListFits: a playback that does not restart in time leaves a
  list of before the cut saved with the size of after it (7431).
- `CutPersist_ended`, EndedListComesBack: when a playback ends with the OSD shown,
  CutFileSave is called but not CutSaveToBM (1311), unlike on every other way out.  With
  CutFileMode 2 the edits are lost, with 0 a list that was cleared comes back from the
  bookmark area (README.md:114).
- `Session_repeat`, OwnModeAtExit: when MovieCutter ends during a playback it was never
  attached to, it restores the `OldRepeatMode` of an earlier one (2597).  RepeatGivenBack
  allows no more than that.
- `NavTimes_front`, FrontCopied: PatchInfFiles drops every bookmark in the first 100 blocks
  (`MovieCutterLib.c` 1434) however far the cut is, although 1425 says "Copy all bookmarks
  which are < CutPointA or >= CutPointB".
- `NavTimes_write`, GapsClosed: PatchOldNavFile and PatchNavFiles set their result anew for
  every record (7752, `MovieCutterLib.c` 1645), so only the last write decides whether an
  incomplete file replaces the original, although 7770 says "On error rename the bak file
  back to original".

With other constants:

- `Lag` = 1: right after a jump, or with the menu open, `ActiveSegment` may lag behind the
  position; a split then cuts at a marker next to the new one (6695, 4780).  DoneAsAsked
  fails.
- `SplitGap` = 1: a split closer than eleven blocks to another marker puts that marker
  into the other part with a block number that wraps (7290).  MarkersFollow fails.
- `Faults` = {"positions"} with `sound`: bytes patched before the cut stay patched when
  the cut points are not found (`MovieCutterLib.c` 333).  SyncBytesRestored fails.

Read in the code, without a run:

- Editing: the pending jump keeps its index when Green inserts a marker in front of its
  segment and then goes to the segment before the chosen one (1608).
- Session: a stop event is lost when RecStrip ends during a question about acceptance
  (2195); a second one runs the exit block inside the first; TMSCommander's
  stop leaves RecStrip running; recordings of equal length share a list (1257 knows);
  playing a recording while it is stripped saves its list with the wrong size; stripping
  twice replaces the backup of the original.
- Persistence: a power failure while a .cut file is written leaves a beginning that is
  accepted although the count in it is larger; `Bookmarks[]` is not set at the start; a
  marker from the bookmark area gets the time of the I-frame before it.
- Time stamps: more I-frames than every fourth picture overflow NavLoad's estimate and are
  dropped; a .nav.bak left behind by a failure prevents later repairs; when the rename at a
  cut fails the .nav is deleted; FirstCutTime stays unset when no record lies in the cut;
  FirstSourceTime 0 also means "none yet"; PatchInfFiles clears the whole bookmark area with
  the id of the list in it.
- Inode lists: a list that was cut off is noticed by its header and from then on neither
  replaced nor removed (`AddTempListToDevice() E1d01`), so its disk is not watched any more
  although history.txt:288 promises "automatische Überwachung"; a temp list of an earlier
  check is merged when jfs_fsck cannot be started; the check of the whole disk can be killed
  between fixing and listing; only for the internal disk the list is gone through at the
  start (923 says so).

## 6. What is proved

All for every value of the constants that satisfies the assumptions of the module and those
named here.

`ListLemmas` states what inserting in, removing from and replacing in a list do to its
length, its entries and its two ends; all edits go through them.  It also says how to reason
about data of any length: Induction is induction over a range of numbers, with the set of
numbers a statement holds for in place of the statement (a least one outside the set would
follow one inside), and FoldExists and FoldPath turn `FoldLeft` over a list into a walk, a
function of the number of entries read so far, that makes one step for each entry.  So what
Import, NavLoad, Divide and the choice of bookmarks compute is proved for every list.

`SegmentMarkersProofs`: TypeCorrect, EndsStayFixed and IndicesStayInRange from
SpecImpliesIndInv.  None of the three is inductive alone.  Undo hands blocks from the ring
to the list, so the ring must hold blocks of the recording (EventsInRange); undo may delete
or move any marker it finds, so the type of the list and the ends are needed to know that it
is an interior one; the loop of the import adds markers while its counter runs, and no key
may come in between (ImportWhileActive).  `IndInv` is the conjunction of the five.  The proof
has one lemma per group of actions and under it one step per conjunct the action can
disturb.  The assumptions: `NRSEGMENTMARKER` is greater than two, the time stamps never name
a block behind the asked one, and the lists handed over start at 0, end at the last block and
fit the array.  The last is what CutFileLoad establishes, proved as ListIsProper.

The second half goes on from IndInv.  CaptionsHaveOneOwner: a buffer is allocated, and one
marker or one event of the ring points to it, as long as all buffers are accounted for
(Owned: what the list and the ring point to is in the heap, and they share nothing).  The ring
is a sequence whose oldest slot is overwritten, so that the lemmas say which buffers
UndoAddEvent frees and which it takes over, and each handler is one step that hands a buffer
on.  EndStaysUnselected (EndPlain) is proved with it, as deleting the last but one marker and
moving the selection are the two ways it could break.  SearchFindsNearest: a list that is
strictly sorted has distances that fall and then rise, so leaving the loop at the first
increase is right.  MoveKeepsMargin is an action property that follows from the order of the
three tests in MoveSegmentMarker.

OrderIsKept says how far the order of the two lists goes: every step but the Recall of a
move (UndoneMove) keeps both in order, if CutFileLoad and the firmware hand over lists in
order (LoadedInOrder; for CutFileLoad that is part of ListIsProper).  It is a property of
steps, as the lists can get out of order by that one step (section 5).  InsertAscending,
RemoveAscending and ReplaceAscending are the three ways a list changes; InsertIndexIsPlace,
BookmarkIndexIsPlace and MovedIndexIsPlace show that the searches and the two loops of
MoveBookmark find a place with nothing greater in front and nothing smaller behind.

ListStaysSorted says it of the states, Recall of moves included.  The invariant SortInv looks
through the ring (RingExplained): each event was made in a list that held at least the blocks
the list has had since, but for those that the event itself and later ones have changed
(Explains).  Recall takes the events back in reverse, so a marker that is moved back finds no
block between its two places that was not there when it was moved.  Two conditions:
LoadedInOrder, and ImportsResetUndo, that the ring is empty when bookmarks are imported into a
list without interior markers (with interior markers DeleteAllSegmentMarkers resets it
itself).  `SegmentMarkers_unsorted` shows that the second is needed; MediaListStaysSorted has
no such condition, as a file without .inf has no bookmarks to import.

RecallRestoresMarkers and RecallRestoresBookmarks are about HSpec, Spec with the history of
SegmentHistory.  HistoryInv says of each event in the ring whose lists are recorded that it is
the one the action made of them (Made).  Recall finds a marker by its block, hence the
condition in the property that no two markers share one; a deleted bookmark fits in again
because the array had room for it then (BookmarksFit).

`CutProcessProofs` starts with positions: a position of a file is that of exactly one
block, and a range holds as many blocks as it is long (PositionIsTaken, PartSize).

- Invariance: `CInv` says that the recording, the temporary file and the cut files are
  disjoint sets of blocks of the recording (Files), that the loop takes segments that exist
  and a name that is free (Loop, Work), and the types.  The markers are integers in it: with
  bad lists they can lie anywhere, which harms no file.
- ImplementsTheCut: every step maps to a step of Recording or to a stutter, one lemma for
  each.  Cut and Truncate are its two cuts, Tidy throws a piece away, Swap and SwapBack are
  stutters even if each of their two renames fails by itself.  The invariant Temporary says
  where a `_temp` file can be.  NoLeftover is needed: a job that finds the `_temp` of a job
  that was switched off deletes the front of the recording with it, which
  `CutProcess_leftover` shows, so either there is one job or SpecialEndMode = 0.
- SyncBytesComeBack: the recording is patched only on the way to a failure (Unpatched).
  It is assumed that the cut points are found, and that no earlier job has left the bytes
  patched; section 5 says what happens otherwise.

`NothingLostProofs` goes on from CInv.

- SavingLosesOnlyTails: the part of NothingLost about jobs that keep.  Only Truncate loses
  blocks then (OnlyTruncationLoses).  `SInv` counts: each tail that is gone belongs to a
  segment that is done, and those done and those open are no more than were asked for
  (TailBudget); and if the last segment is not among them then the loop has passed the last
  segment or will skip it (InnerOnly).  ListsInOrder, that the user's lists are sorted and
  end with the recording, is needed for the last: in a list with two markers at one block
  another segment may end with the recording.
- NothingIsLost: the whole of NothingLost.  When segments are deleted a cut may end `Radius`
  blocks off, the markers are then shifted by the length that was cut, or, where the real
  positions were not found, by the one that was asked for, and the next cut starts from
  there.  `Deleting` says why this does not add up to more than one reach (`Radius`, or twice
  that without positions) for each segment.  The loop goes backwards, so in front of some
  block, the seam, the recording and the list are still those of the start (Untouched,
  Ahead), and what comes behind the seam cannot lie farther from the segments that were
  asked for than the cuts so far went wrong (Seam).  CutMovesSeam and TruncationMovesSeam
  show it for the two cuts, the lemmas CutWork to AdjustWork that the list knows of the new
  seam before the next segment is chosen.  ListsSpaced, that two markers are `2 * Radius` or
  more apart (22 blocks; a new marker has to keep three seconds to its neighbours, with the
  exceptions of section 5), is used where markers in front of the seam must not be taken for
  markers behind it.  It may be more than is needed: TLC finds no violation with markers as
  close as one block (`Spacing` = 1, `Radius` = 1, 9 blocks, up to 3 inner markers, positions
  not found).
- NoJobFails: FailsOnlyOnFaults, which says more than that no call fails.  Where the cuts hit
  only near the points asked for, a job could still ask for an empty range, leave an empty
  recording, or lose the segment that comes next from the list.  The invariant Feasible keeps
  some g with markers g blocks apart: in front of the segment at work they are as they were
  (InFront), and behind it the recording holds `Radius` blocks for each cut that is still to
  come (Room).  One lemma for each step shows that this survives (CutFeasible for the cut,
  AdjustFeasible for the shifted list).  What it assumes is what must not go wrong
  (NothingWrong), and `sound` is an instance of it: the markers are farther apart than all cuts
  of a job are inexact (ListsApart); a split is more than `Radius` blocks from every marker;
  `Lag` = 0, as otherwise the split may cut at the marker next to the new one (6695); and
  `NameOverwritten` is FALSE, as otherwise `srtname` shows that it fails.

`SessionProofs`: every safety property of Session, for any number of recordings, any depth of
activations inside one another and any number of starts of RecStrip.  What is hard is that
a waiting activation goes on in a state that others have changed.  So IInv says for each place
an activation waits at in which states it can find MovieCutter (DialogOK), that above a
waiting activation there are only those the re-entry guard lets through (StackOK), which
activation knows of a child process that has ended (StripOK), that the one message box and
the one last button belong to the question that is waited for (QuestionOK), and that nothing
comes in between once MovieCutter is to end (ExitOK).  RepeatIsGivenBack needs that what is
remembered is never the mode MovieCutter forced itself, so that the restore at the end, too,
gives back a mode of the user's (ModeOK).  KilledOnlyOnRequest follows from
QuestionOK as an action property.  ListIsOfThePlayed assumes LengthsTell: no two recordings
have the same length; section 5 says why.  NoneAssumption: None is none of the questions and
forms it stands beside.

`CutPersistProofs`: RoundTrip, decoding what was encoded gives blocks and selections back
for either place of the id; it rests on the slots below the number of bookmarks being
disjoint from those of the list.  BookmarksStay, by the invariant BookmarkInv: besides BookmarksKept it
says that every area in a file or in memory has the shape of one (Areas, Shapes), and that
while the OSD is shown MovieCutter's copy has the bookmarks of the firmware's cache
(CopyFits).

ListIsOwn is about a history variable, `marked`, that collects for each recording the blocks
where the user left markers on any way out of the editor.  MarkedInv says that of every
recording the .cut file, the file that is being written, what the .inf file decodes to and
what the firmware's cache of the recording decodes to have inner markers at those blocks only,
for either place of the id; while the OSD is shown nothing is said of the list, as the user
may have set any.  It has to hold through the bookmarks written into the same area, through
lists of another version and through a beginning of a file that a power failure left
(PartFrom).  The theorem needs no assumption on Media, as it speaks of recordings only; what
happens to media files is the run `foreign`.

ListIsProper: ProperInv says that what every area decodes to and what is in every .cut file
fits the array and is in order but for its ends (AreasSound, FilesSound), and that a list
shown is proper (ListSound).  The user's lists are proper by assumption, which is what
EndsStayFixed and ListStaysSorted prove of the editor.  What is not obvious is the import of a
list of another version of the recording: ImportWalk follows the loop of
CutImportFromTimeStamp marker by marker, and Importing says that those taken over are in order
and not behind the time stamp the loop has come to (ImportMarkerIs), as the time stamps climb.
The ends are then fitted on.

ListIsRemembered, for Media = {}: what was left on a way out that promises it is in the .cut
file, or in the area the next CutFileLoad looks at (LeftInv, Remembered).  SaveRemembers says
that each way out establishes it, DecodeStable that it is still there when the user has
changed the bookmarks beside it, SaveKeepsOthers that saving for one recording leaves the
files of the others, LeftFrame that other steps do not touch it.

`NavTimesProofs`: OriginalNavKept, by the invariant Where, which says for each place of
PatchOldNavFile in which of the two files the original is.

StampsStayOrdered (TypeOK) and LookupIsRight rest on FilesInv: in each of the files, and in
what is copied and what is still to be copied, the positions of the pictures do not go back.
DivideRises shows for both parts of a cut that pictures keep their order when those behind
the cut move forward (PlaceRises, InsideIs and OutsideIs go through PatchNavFiles), CopyKeepsFiles
for a repair, and StampsRise that NavLoad then gives stamps in the order of their blocks.
CursorInv adds the cursor and the last answer.  Assumed is that the files recordings come with
are in the order of their positions (FilesAssumption).

GapsAreClosed: Closing says of the copy (ClosedSoFar) that the pictures copied and those to
come are the file, that the last one copied has its time less the shift so far, modulo DWord,
and that the steps between those copied are as promised.  ShiftedStep
is the arithmetic: two times that were shifted differ as they did before, or by Step where the
second was shifted by a gap more.  Assumed is that no write fails ("write" not in Faults), and
`NavTimes_write` shows what happens otherwise.

BookmarksAreDivided: the bookmarks in front of the cut, the new one and those behind it, moved
forward, climb one behind the other since the margin is not zero (AllMarksAre, by ClimbsOn and
MovedClimbs), and each comes from one of the list or is the one at the cut (Comes); as the
first and the last are two selections of one list without a common entry, they are not longer
than it (ThoseDisjoint), so that with one free place nothing is cut off.  SourceMarksAre has
the two ways the list is limited to `MaxBookmarks`, PartMarksAre what goes to the part.  Lists
longer than the limit are not left out.

`InodeListsProofs`: WatchedAlways, for every finite set of inode numbers, sizes and times,
from the assumptions that there are finitely many entries and that None is none of the
values it stands beside.  Watched speaks of an idle MovieCutter; the invariant IInv follows
what will be on the list then (Live: the entries being written, the list merged with the
temp list, or the list), and adds what makes a step safe: an entry whose inode is wrong in
the kernel alone was fixed since the boot (so an up-time below that of the fix cannot make
CheckInodeList drop it), the temp list is from this boot and knows no file with another size
than the list does (so merging an old one, when jfs_fsck did not start, loses nothing), and
a list being written has no entry and cannot be read.  SyncFix says what drop_caches and
fix_inode may change; CheckSteps and FixListStep use it for the two checks and for the pass
over the list, ListsMove and FilesMove take the steps that change one side only.

Only model-checked:

- BookmarksSorted as an invariant: OrderIsKept proves the steps of it.
- DoneAsAsked, MarkersFollow, SavedListFits: they compare the segments and markers that stay
  with those of the start, after several inexact cuts.  The invariant of NothingIsLost
  follows what is in front of the seam and bounds what is gone; of what is behind it these
  properties need every marker and every cut file.
- ImportedByTime: it takes two markers of the saved list to be at different times, which a
  list that was itself imported need not have; an invariant would have to follow through
  several versions of a recording which of its markers share a time stamp.
- CutNavsPlayable and StillFits, which relate every picture of the files behind a cut to one
  in front of it: DivideRises proves of PatchNavFiles only that positions keep their order.
  CutNavsPlayable is stated with `SelectSeq`, whose definition the provers cannot expand.
- AddLeavesNoSmallSegment and the other properties of section 5, which do not hold.
- All liveness, which is out of the prover's reach under fairness: Terminates, Stops, Noticed.

## 7. Fairness

CutProcess: WF_vars(Step).  A job is sequential code within one call of the event handler, it
waits for nothing but the firmware's calls, which return, and a bounded time for the
playback.  Neither the user's actions nor the switch-off are in Step.

Session: the handler runs on (WF of Handler) and a killed process dies (WF of ChildDies).  A
dialog that is open again and again is answered some time, and idle events come again and
again as the firmware sends them in its main loop and in TAP_SystemProc (SF of Answer and of
Deliver("idle"), as a nested event can disable either for a while).  Nothing is assumed of
RecStrip ending by itself, of the user, or of playbacks.

## 8. Not modelled, and why

- PatchSrtFiles and FindCutPointOffset2, which work on text and on the stream; the older
  binary formats of the .cut file.
- In CutProcess: captions, undo ring and bookmarks; a job resets the ring before it starts.
- In InodeLists: counting blocks, InodeMonitoring off, a killed check, the list of suspect
  disks for the exit.
- Drawing, texts, settings files: no property is about them.
- The other TAPs are separate programs with little state.  jfsutils and its copy for the
  receiver are vendored and most of the repository's lines; of them only the list that
  MovieCutter's author added is modelled.
