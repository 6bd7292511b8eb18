--------------------------- MODULE SegmentMarkers ---------------------------
(***************************************************************************)
(* The editing core of MovieCutter: the list of segment markers, the list  *)
(* of bookmarks, the undo ring and the pending jump, as the key handlers   *)
(* of ST_ActiveOSD and ST_ActionMenu and the idle handler change them.     *)
(*                                                                         *)
(* Indices of markers and bookmarks count from 0 as in the source: the     *)
(* marker i is markers[i + 1].  A handler is one step, except the loop of  *)
(* ImportBookmarksToSegments, which makes one step per bookmark with no    *)
(* other step in between.                                                  *)
(***************************************************************************)
EXTENDS Integers, Sequences, SequencesExt

CONSTANTS
  TotalBlock,        \* PlayInfo.totalBlock
  Margin,            \* 3 * BlocksOneSecond
  NRSEGMENTMARKER,   \* length of the array SegmentMarker
  MaxBookmarks,      \* the 48 of AddBookmark and ExportSegmentsToBookmarks
  NRUNDOEVENTS,      \* slots of the undo ring
  NavBlock,          \* LastTimeStamp->BlockNr after NavGetBlockTimeStamp(b)
  IFrameLead,        \* CUTPOINTSEARCHRADIUS/9024 + 1
  MediaFileMode,     \* TRUE for a file without .inf (no bookmarks)
  Captions,          \* the addresses TAP_MemAlloc can return
  NoCaption,         \* the NULL pointer
  Positions,         \* values of PlayInfo.currentBlock
  JumpWidths,        \* BlockJumpWidth of the fast navigation
  BlockNrLast10Seconds,
  FlickerBlocks,     \* the 100 blocks SetCurrentSegment tolerates
  LoadableMarkers,   \* the block lists CutFileLoad can leave
  LoadableBookmarks  \* the bookmark lists the firmware can hold

Blocks  == 0 .. TotalBlock
NoBlock == -1                      \* (dword) -1
NoJump  == -1                      \* 0xFFFF
Slots   == 0 .. NRUNDOEVENTS - 1

ASSUME BlocksAssumption ==
  /\ TotalBlock \in Nat \ {0}
  /\ Margin \in Nat
  /\ IFrameLead \in Nat
  /\ FlickerBlocks \in Nat
  /\ Positions \subseteq Blocks
  /\ JumpWidths \subseteq Nat
  /\ BlockNrLast10Seconds \in Blocks
ASSUME NavAssumption ==
  /\ NavBlock \in [Blocks -> Blocks \cup {NoBlock}]
  /\ \A b \in Blocks : NavBlock[b] <= b
ASSUME SizesAssumption ==
  /\ NRSEGMENTMARKER \in Nat /\ NRSEGMENTMARKER > 2
  /\ MaxBookmarks \in Nat \ {0}
  /\ NRUNDOEVENTS \in Nat \ {0}
ASSUME ModeAssumption == MediaFileMode \in BOOLEAN
ASSUME CaptionAssumption == NoCaption \notin Captions
ASSUME LoadAssumption ==
  /\ \A l \in LoadableMarkers :
       /\ l \in Seq(Blocks)
       /\ 2 <= Len(l) /\ Len(l) <= NRSEGMENTMARKER
       /\ l[1] = 0 /\ l[Len(l)] = TotalBlock
  /\ \A l \in LoadableBookmarks : l \in Seq(Blocks) /\ Len(l) <= MaxBookmarks
  /\ <<>> \in LoadableBookmarks
  /\ MediaFileMode => LoadableBookmarks = {<<>>}

VARIABLES
  state,         \* State
  markers,       \* SegmentMarker[0 .. NrSegmentMarker-1]
  active,        \* ActiveSegment
  bookmarks,     \* Bookmarks[0 .. NrBookmarks-1]
  bookmarkMode,  \* BookmarkMode
  jumpSeg,       \* JumpRequestedSegment
  jumpBlock,     \* JumpRequestedBlock
  jumpTimer,     \* JumpRequestedTime # 0
  jumpDone,      \* JumpPerformedTime # 0
  undo,          \* UndoStack
  undoLast,      \* UndoLastItem
  heap,          \* the caption buffers that are allocated
  import         \* next bookmark of a running import, NoJump when none runs

jumpVars == <<jumpSeg, jumpBlock, jumpTimer, jumpDone>>
undoVars == <<undo, undoLast>>
vars == <<state, markers, active, bookmarks, bookmarkMode, jumpVars,
          undoVars, heap, import>>

Marker == [block : Blocks, sel : BOOLEAN, cap : Captions \cup {NoCaption}]
Event  == [seg : BOOLEAN, prev : Blocks \cup {NoBlock},
           new : Blocks \cup {NoBlock}, sel : BOOLEAN,
           cap : Captions \cup {NoCaption}]
Blank  == [seg |-> FALSE, prev |-> 0, new |-> 0, sel |-> FALSE, cap |-> NoCaption]

-----------------------------------------------------------------------------
(* Reading the lists.                                                      *)

Nr(ms) == Len(ms)                              \* NrSegmentMarker
BlockAt(ms, i) == ms[i + 1].block              \* SegmentMarker[i].Block
Interior(ms) == 1 .. Nr(ms) - 2                \* markers between the two ends

FindSegmentWithBlock(ms, b) ==
  LET behind == {i \in 0 .. Nr(ms) - 2 : BlockAt(ms, i + 1) > b}
  IN  IF Nr(ms) > 2 /\ behind # {} THEN Min(behind) ELSE 0

Distance(a, b) == IF a < b THEN b - a ELSE a - b

\* Mutant: the distance is not taken absolute.
NearestSigned(ms, b) ==
  LET D(i) == BlockAt(ms, i) - b
      nearer == {k \in Interior(ms) : \A j \in 2 .. k : D(j) < D(j - 1)}
  IN  IF nearer = {} THEN -1 ELSE Max(nearer)

\* The loop leaves at the first marker that is not nearer than its predecessor.
FindNearestSegmentMarker(ms, b) ==
  LET D(i) == Distance(BlockAt(ms, i), b)
      nearer == {k \in Interior(ms) : \A j \in 2 .. k : D(j) < D(j - 1)}
  IN  IF nearer = {} THEN -1 ELSE Max(nearer)

FindNearestBookmark(bm, b) ==
  LET D(i) == Distance(bm[i + 1], b)
      best == {i \in 0 .. Len(bm) - 1 : \A j \in 0 .. Len(bm) - 1 : D(i) <= D(j)}
  IN  IF best = {} THEN -1 ELSE Min(best)

\* MoveToIFrame: the cut position in front of the I-frame the nav names.
IFrame(b) ==
  IF NavBlock[b] = NoBlock THEN b
  ELSE IF NavBlock[b] > IFrameLead THEN NavBlock[b] - IFrameLead ELSE 0

currentVisibleBlock(pos) == IF jumpBlock # NoBlock THEN jumpBlock ELSE pos

-----------------------------------------------------------------------------
(* The undo ring.                                                          *)

UndoAddEvent(e) ==
  LET slot == (undoLast + 1) % NRUNDOEVENTS
  IN  /\ undoLast' = slot
      /\ undo' = [undo EXCEPT ![slot] = e]

\* The caption that UndoAddEvent frees because its slot is overwritten.
Overwritten == {undo[(undoLast + 1) % NRUNDOEVENTS].cap} \ {NoCaption}

UndoResetStack == undo' = [k \in Slots |-> Blank] /\ undoLast' = 0

UndoCaptions == {undo[k].cap : k \in Slots} \ {NoCaption}
MarkerCaptions(ms) == {ms[k].cap : k \in DOMAIN ms} \ {NoCaption}

\* Mutant: previous and new block swapped.
SegmentEventSwapped(prev, new, sel, cap) ==
  [seg |-> TRUE, prev |-> new, new |-> prev, sel |-> sel, cap |-> cap]
SegmentEvent(prev, new, sel, cap) ==
  [seg |-> TRUE, prev |-> prev, new |-> new, sel |-> sel, cap |-> cap]
\* Mutant: a bookmark at block 0 is not told apart from no bookmark.
EncodedAsIs(b) == b
\* Bookmark events write block 0 as (dword) -1: 0 means "no block".
Encoded(b) == IF b = 0 THEN NoBlock ELSE b
Decoded(b) == IF b = NoBlock THEN 0 ELSE b
BookmarkEvent(prev, new) ==
  [seg |-> FALSE, prev |-> prev, new |-> new, sel |-> FALSE, cap |-> NoCaption]

-----------------------------------------------------------------------------
(* The operations on the marker list.                                      *)

\* Mutant: the search goes on behind the first marker that is not smaller.
InsertIndexAtEnd(ms, b) == Max({i \in 1 .. Nr(ms) - 1 : BlockAt(ms, i) >= b})
InsertIndex(ms, b) == Min({i \in 1 .. Nr(ms) - 1 : BlockAt(ms, i) >= b})

TooSmallToAdd(ms, i, b) ==
  \/ i > 1 /\ b <= BlockAt(ms, i - 1) + Margin
  \/ i < Nr(ms) - 2 /\ b + Margin >= BlockAt(ms, i)

\* Mutant: the full list is noticed one marker too late.
MayAddOneMore(ms, b, reject) ==
  /\ Nr(ms) <= NRSEGMENTMARKER
  /\ LET i == InsertIndex(ms, b)
     IN  BlockAt(ms, i) # b /\ ~(reject /\ TooSmallToAdd(ms, i, b))
\* The early returns of AddSegmentMarker.
MayAdd(ms, b, reject) ==
  /\ Nr(ms) < NRSEGMENTMARKER
  /\ LET i == InsertIndex(ms, b)
     IN  BlockAt(ms, i) # b /\ ~(reject /\ TooSmallToAdd(ms, i, b))

AddSegmentMarker(b, sel, cap) ==
  LET i == InsertIndex(markers, b)
  IN  /\ markers' = InsertAt(markers, i + 1, [block |-> b, sel |-> sel, cap |-> cap])
      /\ active' = IF active + 1 >= i THEN active + 1 ELSE active

\* Mutant: the last interior marker is not compared with.
TooSmallToMoveShort(ms, i, b) ==
  \/ i > 1 /\ b <= BlockAt(ms, i - 1) + Margin
  \/ i < Nr(ms) - 3 /\ b + Margin >= BlockAt(ms, i + 1)
TooSmallToMove(ms, i, b) ==
  \/ i > 1 /\ b <= BlockAt(ms, i - 1) + Margin
  \/ i < Nr(ms) - 2 /\ b + Margin >= BlockAt(ms, i + 1)

MayMove(ms, i, b, reject) ==
  /\ i \in Interior(ms)
  /\ BlockAt(ms, i) # b
  /\ ~(reject /\ TooSmallToMove(ms, i, b))

MoveSegmentMarker(i, b) == markers' = [markers EXCEPT ![i + 1].block = b]

\* Mutant: ActiveSegment is not adjusted.
DeleteSegmentMarkerOnly(i) ==
  LET rest == RemoveAt(markers, i + 1)
  IN  /\ markers' = [rest EXCEPT ![Len(rest)].sel = FALSE]
      /\ active' = active
      /\ jumpSeg' = NoJump

DeleteSegmentMarker(i) ==
  LET rest == RemoveAt(markers, i + 1)
      a    == IF active >= i THEN active - 1 ELSE active
  IN  /\ markers' = [rest EXCEPT ![Len(rest)].sel = FALSE]
      /\ active' = IF a >= Len(rest) - 1 THEN Len(rest) - 2 ELSE a
      /\ jumpSeg' = NoJump

\* Mutant: the first marker keeps the pointer to its freed caption.
EndsOfKeepingCaption(ms) ==
  << [ms[1] EXCEPT !.sel = FALSE],
     [block |-> ms[Len(ms)].block, sel |-> ms[Len(ms)].sel, cap |-> NoCaption] >>

\* The list DeleteAllSegmentMarkers leaves: both ends, without caption.
EndsOf(ms) ==
  << [block |-> ms[1].block, sel |-> FALSE, cap |-> NoCaption],
     [block |-> ms[Len(ms)].block, sel |-> ms[Len(ms)].sel,
      cap |-> IF Len(ms) > 2 THEN NoCaption ELSE ms[Len(ms)].cap] >>

DeleteAllSegmentMarkers ==
  /\ IF Nr(markers) > 2
     THEN /\ markers' = EndsOf(markers)
          /\ UndoResetStack
          /\ heap' = heap \ (UndoCaptions \cup MarkerCaptions(markers))
     ELSE /\ markers' = [markers EXCEPT ![1].sel = FALSE]
          /\ UNCHANGED <<undoVars, heap>>
  /\ active' = 0
  /\ jumpSeg' = NoJump

MarkerList(blocks) ==
  [k \in 1 .. Len(blocks) |->
     [block |-> blocks[k], sel |-> FALSE, cap |-> NoCaption]]

-----------------------------------------------------------------------------
(* The operations on the bookmark list.  SaveBookmarks fails when the      *)
(* firmware's info cache is not reachable (infOk = FALSE); ReadBookmarks,  *)
(* called next, then fails as well and leaves NrBookmarks = 0.             *)

\* Mutant: a new bookmark is appended.
BookmarkIndexAtEnd(bm, b) == Len(bm)
BookmarkIndex(bm, b) ==
  IF bm = <<>> \/ b > bm[Len(bm)] THEN Len(bm)
  ELSE Min({i \in 0 .. Len(bm) - 1 : bm[i + 1] >= b})

MayAddBookmark(bm, b, reject) ==
  /\ Len(bm) < MaxBookmarks
  /\ LET i == BookmarkIndex(bm, b)
     IN  /\ i < Len(bm) => bm[i + 1] # b
         /\ ~(reject /\ \/ i > 0 /\ b <= bm[i] + Margin
                        \/ i < Len(bm) /\ b + Margin >= bm[i + 1])

WithBookmark(bm, b) == InsertAt(bm, BookmarkIndex(bm, b) + 1, b)

MayMoveBookmark(bm, i, b, reject) ==
  /\ bm[i + 1] # b
  /\ ~(reject /\ \/ i > 0 /\ b <= bm[i] + Margin
                 \/ i < Len(bm) - 1 /\ b + Margin >= bm[i + 2])

\* The two loops that shift the moved bookmark i to its place.
MovedIndex(bm, i, b) ==
  LET left  == Min({j \in 0 .. i : \A k \in j .. i - 1 : bm[k + 1] > b})
      right == Max({j \in i .. Len(bm) - 1 : \A k \in i + 1 .. j : bm[k + 1] < b})
  IN  IF left < i THEN left ELSE right
MovedBookmark(bm, i, b) == InsertAt(RemoveAt(bm, i + 1), MovedIndex(bm, i, b) + 1, b)

Stored(bm, infOk) == IF infOk THEN bm ELSE <<>>

-----------------------------------------------------------------------------
(* Start and end of a playback.                                            *)

NoPendingJump ==
  /\ jumpSeg' = NoJump /\ jumpBlock' = NoBlock
  /\ jumpTimer' = FALSE /\ jumpDone' = FALSE

Init ==
  /\ state = "WaitForPlayback"
  /\ markers = <<>> /\ active = 0
  /\ bookmarks = <<>> /\ bookmarkMode = FALSE
  /\ jumpSeg = NoJump /\ jumpBlock = NoBlock
  /\ jumpTimer = FALSE /\ jumpDone = FALSE
  /\ undo = [k \in Slots |-> Blank] /\ undoLast = 0
  /\ heap = {}
  /\ import = NoJump

\* ST_WaitForPlayback accepts a recording: CutFileLoad, else the default list.
StartPlayback ==
  /\ state = "WaitForPlayback"
  /\ \E l \in LoadableMarkers \cup {<<0, TotalBlock>>} : markers' = MarkerList(l)
  /\ heap' = heap \ MarkerCaptions(markers)
  /\ bookmarks' \in LoadableBookmarks
  /\ bookmarkMode' = FALSE
  /\ active' = 0
  /\ jumpSeg' = NoJump /\ jumpBlock' = NoBlock
  /\ state' = "ActiveOSD"
  /\ UNCHANGED <<jumpTimer, jumpDone, undoVars, import>>

\* The playback ended or changed: Cleanup.  The markers stay until the next start.
PlaybackEnds ==
  /\ state \in {"ActiveOSD", "InactiveModePlaying"} /\ import = NoJump
  /\ NoPendingJump
  /\ UndoResetStack
  /\ heap' = heap \ UndoCaptions
  /\ bookmarks' = <<>>
  /\ state' = "WaitForPlayback"
  /\ UNCHANGED <<markers, active, bookmarkMode, import>>

Editing == state = "ActiveOSD" /\ import = NoJump

\* Exit in the no-OSD mode, Stop, Info, PlayList and the like.
Deactivate ==
  /\ Editing
  /\ jumpSeg' = NoJump /\ jumpBlock' = NoBlock
  /\ state' = "InactiveModePlaying"
  /\ UNCHANGED <<markers, active, bookmarks, bookmarkMode, jumpTimer, jumpDone,
                 undoVars, heap, import>>

Reactivate ==
  /\ state = "InactiveModePlaying"
  /\ jumpSeg' = NoJump /\ jumpBlock' = NoBlock
  /\ bookmarks' \in LoadableBookmarks \cup {bookmarks}
  /\ state' = "ActiveOSD"
  /\ UNCHANGED <<markers, active, bookmarkMode, jumpTimer, jumpDone,
                 undoVars, heap, import>>

-----------------------------------------------------------------------------
(* Navigation.                                                             *)

\* SetCurrentSegment, with the jump variables as the caller has just left them.
SetCurrentSegment(ms, act, jb, timer, done, js) ==
  \E elapsed \in BOOLEAN, b \in Positions, d \in 0 .. FlickerBlocks :
    LET pending == jb # NoBlock /\ ~timer
        settled == ~done \/ elapsed
    IN  /\ active' = IF pending THEN FindSegmentWithBlock(ms, jb)
                     ELSE IF ~settled THEN act
                     ELSE FindSegmentWithBlock(ms, b + d)
        /\ jumpDone' = (done /\ ~settled)
        /\ jumpBlock' = IF settled /\ ~timer THEN NoBlock ELSE jb
        /\ jumpSeg' = IF settled /\ ~timer THEN NoJump ELSE js
        /\ jumpTimer' = timer

\* Up and Down: Playback_SetJumpNavigate(TRUE, FALSE, back).
RequestSegment(back) ==
  LET from == IF jumpSeg = NoJump THEN active ELSE jumpSeg
      last == Nr(markers) - 2
  IN  /\ Editing /\ Nr(markers) > 2
      /\ jumpBlock' = NoBlock
      /\ jumpSeg' = IF back THEN (IF from > 0 THEN from - 1 ELSE last)
                    ELSE (IF from < last THEN from + 1 ELSE 0)
      /\ jumpTimer' = TRUE
      /\ UNCHANGED <<state, markers, active, bookmarks, bookmarkMode, jumpDone,
                     undoVars, heap, import>>

\* Fast navigation: Playback_SetJumpNavigate(FALSE, TRUE, back).
RequestBlock(back) ==
  \E pos \in Positions, w \in JumpWidths :
    LET from == currentVisibleBlock(pos)
        to   == IF back THEN (IF from >= w THEN from - w ELSE 0)
                ELSE IF from + w <= BlockNrLast10Seconds THEN from + w
                ELSE IF pos < BlockNrLast10Seconds THEN BlockNrLast10Seconds
                ELSE NoBlock
    IN  /\ Editing
        /\ jumpSeg' = NoJump
        /\ jumpBlock' = to
        /\ jumpTimer' = (jumpTimer \/ to # NoBlock)
        /\ UNCHANGED <<state, markers, active, bookmarks, bookmarkMode, jumpDone,
                       undoVars, heap, import>>

\* Exit while a jump is pending: the jump is cancelled.
CancelJump ==
  /\ Editing /\ (jumpSeg # NoJump \/ jumpBlock # NoBlock)
  /\ SetCurrentSegment(markers, active, NoBlock, FALSE, jumpDone, NoJump)
  /\ UNCHANGED <<state, markers, bookmarks, bookmarkMode, undoVars, heap, import>>

\* The idle handler one second after the last request: the jump is made.
ExecuteJump ==
  /\ Editing /\ jumpTimer
  /\ \/ /\ jumpSeg # NoJump
        /\ SetCurrentSegment(markers, jumpSeg, NoBlock, FALSE, TRUE, NoJump)
     \/ /\ jumpSeg = NoJump /\ jumpBlock # NoBlock
        /\ SetCurrentSegment(markers, active, jumpBlock, FALSE, TRUE, NoJump)
     \/ /\ jumpSeg = NoJump /\ jumpBlock = NoBlock
        /\ SetCurrentSegment(markers, active, NoBlock, FALSE, jumpDone, NoJump)
  /\ UNCHANGED <<state, markers, bookmarks, bookmarkMode, undoVars, heap, import>>

\* The idle handler otherwise.
Idle ==
  /\ Editing
  /\ SetCurrentSegment(markers, active, jumpBlock, jumpTimer, jumpDone, jumpSeg)
  /\ UNCHANGED <<state, markers, bookmarks, bookmarkMode, undoVars, heap, import>>

\* Playback_JumpNextSegment and Playback_JumpPrevSegment: without delay.
JumpToSegment ==
  /\ Editing /\ ~bookmarkMode
  /\ active' \in {active,
                  IF active > 0 THEN active - 1 ELSE Nr(markers) - 2}
                 \cup (IF Nr(markers) > 2
                       THEN {IF active < Nr(markers) - 2 THEN active + 1 ELSE 0}
                       ELSE {})
  /\ jumpSeg' = NoJump /\ jumpBlock' = NoBlock /\ jumpDone' = TRUE
  /\ UNCHANGED <<state, markers, bookmarks, bookmarkMode, jumpTimer, undoVars,
                 heap, import>>

\* Playback_JumpForward/Backward (minutes) and the jumps between bookmarks.
JumpElsewhere ==
  /\ Editing
  /\ jumpSeg' = NoJump /\ jumpBlock' = NoBlock
  /\ UNCHANGED <<state, markers, active, bookmarks, bookmarkMode, jumpTimer,
                 jumpDone, undoVars, heap, import>>

-----------------------------------------------------------------------------
(* The coloured keys in segment mode.                                      *)

\* Green: AddSegmentMarker(&newBlock, TRUE, TRUE).
AddMarkerKey ==
  \E pos \in Positions :
    LET b == IFrame(currentVisibleBlock(pos))
    IN  /\ Editing /\ ~bookmarkMode
        /\ MayAdd(markers, b, TRUE)
        /\ AddSegmentMarker(b, FALSE, NoCaption)
        /\ UndoAddEvent(SegmentEvent(0, b, FALSE, NoCaption))
        /\ heap' = heap \ Overwritten
        /\ jumpDone' = TRUE
        /\ UNCHANGED <<state, bookmarks, bookmarkMode, jumpSeg, jumpBlock,
                       jumpTimer, import>>

\* Red: the marker nearest to the position; its caption goes to the undo ring.
DeleteMarkerKey ==
  \E pos \in Positions :
    LET i == FindNearestSegmentMarker(markers, currentVisibleBlock(pos))
    IN  /\ Editing /\ ~bookmarkMode /\ jumpSeg = NoJump
        /\ i > 0
        /\ DeleteSegmentMarker(i)
        /\ UndoAddEvent(SegmentEvent(BlockAt(markers, i), 0, markers[i + 1].sel,
                                     markers[i + 1].cap))
        /\ heap' = heap \ Overwritten
        /\ UNCHANGED <<state, bookmarks, bookmarkMode, jumpBlock, jumpTimer,
                       jumpDone, import>>

\* Yellow: the nearest marker moves to the position.
MoveMarkerKey ==
  \E pos \in Positions :
    LET at == currentVisibleBlock(pos)
        i  == FindNearestSegmentMarker(markers, at)
        b  == IFrame(at)
    IN  /\ Editing /\ ~bookmarkMode
        /\ i > 0 /\ MayMove(markers, i, b, TRUE)
        /\ MoveSegmentMarker(i, b)
        /\ UndoAddEvent(SegmentEvent(BlockAt(markers, i), b, FALSE, NoCaption))
        /\ heap' = heap \ Overwritten
        /\ active' = IF active + 1 = i THEN active + 1 ELSE active
        /\ jumpDone' = TRUE
        /\ UNCHANGED <<state, bookmarks, bookmarkMode, jumpSeg, jumpBlock,
                       jumpTimer, import>>

\* Blue: SelectSegmentMarker.
SelectKey ==
  LET seg == IF jumpSeg # NoJump THEN jumpSeg
             ELSE IF jumpBlock # NoBlock THEN FindSegmentWithBlock(markers, jumpBlock)
             ELSE active
  IN  /\ Editing
      /\ markers' = [markers EXCEPT ![seg + 1].sel = ~@]
      /\ UNCHANGED <<state, active, bookmarks, bookmarkMode, jumpVars, undoVars,
                     heap, import>>

\* Teletext: ChangeSegmentText.  A cancelled dialog leaves its buffer allocated.
CaptionKey ==
  LET asked == IF jumpSeg # NoJump THEN jumpSeg ELSE active
      seg   == IF asked >= Nr(markers) - 1 THEN Nr(markers) - 2 ELSE asked
      m     == markers[seg + 1]
  IN  /\ Editing
      /\ \E new \in Captions \ heap :
           \/ /\ heap' = heap \cup {new}                       \* cancelled
              /\ UNCHANGED <<markers, undoVars>>
           \/ \E text \in BOOLEAN :                            \* saved
                /\ UndoAddEvent(SegmentEvent(m.block, m.block, m.sel, m.cap))
                /\ markers' = [markers EXCEPT ![seg + 1].cap =
                                 IF text THEN new ELSE NoCaption]
                /\ heap' = (heap \cup (IF text THEN {new} ELSE {})) \ Overwritten
      /\ UNCHANGED <<state, active, bookmarks, bookmarkMode, jumpVars, import>>

-----------------------------------------------------------------------------
(* The coloured keys in bookmark mode.                                     *)

AddBookmarkKey ==
  \E pos \in Positions, infOk \in BOOLEAN :
    LET b == currentVisibleBlock(pos)
    IN  /\ Editing /\ bookmarkMode
        /\ MayAddBookmark(bookmarks, b, TRUE)
        /\ bookmarks' = Stored(WithBookmark(bookmarks, b), infOk)
        /\ IF infOk THEN UndoAddEvent(BookmarkEvent(0, Encoded(b))) ELSE UNCHANGED undoVars
        /\ heap' = IF infOk THEN heap \ Overwritten ELSE heap
        /\ UNCHANGED <<state, markers, active, bookmarkMode, jumpVars, import>>

DeleteBookmarkKey ==
  \E pos \in Positions, infOk \in BOOLEAN :
    LET i == FindNearestBookmark(bookmarks, currentVisibleBlock(pos))
    IN  /\ Editing /\ bookmarkMode
        /\ i >= 0
        /\ bookmarks' = Stored(RemoveAt(bookmarks, i + 1), infOk)
        /\ IF infOk THEN UndoAddEvent(BookmarkEvent(Encoded(bookmarks[i + 1]), 0))
           ELSE UNCHANGED undoVars
        /\ heap' = IF infOk THEN heap \ Overwritten ELSE heap
        /\ UNCHANGED <<state, markers, active, bookmarkMode, jumpVars, import>>

MoveBookmarkKey ==
  \E pos \in Positions, infOk \in BOOLEAN :
    LET b == currentVisibleBlock(pos)
        i == FindNearestBookmark(bookmarks, b)
    IN  /\ Editing /\ bookmarkMode
        /\ i >= 0 /\ MayMoveBookmark(bookmarks, i, b, TRUE)
        /\ bookmarks' = Stored(MovedBookmark(bookmarks, i, b), infOk)
        /\ IF infOk
           THEN UndoAddEvent(BookmarkEvent(Encoded(bookmarks[i + 1]), Encoded(b)))
           ELSE UNCHANGED undoVars
        /\ heap' = IF infOk THEN heap \ Overwritten ELSE heap
        /\ UNCHANGED <<state, markers, active, bookmarkMode, jumpVars, import>>

ToggleBookmarkMode ==
  /\ state \in {"ActiveOSD", "ActionMenu"} /\ import = NoJump
  /\ ~MediaFileMode
  /\ bookmarkMode' = ~bookmarkMode
  /\ UNCHANGED <<state, markers, active, bookmarks, jumpVars, undoVars, heap, import>>

-----------------------------------------------------------------------------
(* Recall: UndoLastAction.                                                 *)

\* Mutant: the ring is not closed at its first slot.
PoppedWithoutWrap ==
  /\ undo' = [undo EXCEPT ![undoLast] = Blank]
  /\ undoLast' = undoLast - 1

Popped ==
  /\ undo' = [undo EXCEPT ![undoLast] = Blank]
  /\ undoLast' = IF undoLast > 0 THEN undoLast - 1 ELSE NRUNDOEVENTS - 1

UndoDeletedMarker(e) ==
  /\ IF MayAdd(markers, e.prev, FALSE)
     THEN AddSegmentMarker(e.prev, e.sel, e.cap)
     ELSE UNCHANGED <<markers, active>>
  /\ UNCHANGED <<bookmarks, jumpSeg, heap>>

\* The loop that looks for the marker the event is about.
EventMarker(ms, e) ==
  LET at == {i \in 0 .. Nr(ms) - 2 : BlockAt(ms, i) = e.new}
  IN  IF at = {} THEN -1 ELSE Min(at)

UndoAtMarker(e, i) ==
  \/ /\ e.new = e.prev                                         \* caption
     /\ heap' = heap \ {markers[i + 1].cap}
     /\ markers' = [markers EXCEPT ![i + 1].cap = e.cap]
     /\ UNCHANGED <<active, bookmarks, jumpSeg>>
  \/ /\ e.new # e.prev /\ e.prev # 0                           \* move
     /\ IF MayMove(markers, i, e.prev, FALSE) THEN MoveSegmentMarker(i, e.prev)
        ELSE UNCHANGED markers
     /\ UNCHANGED <<active, bookmarks, jumpSeg, heap>>
  \/ /\ e.new # e.prev /\ e.prev = 0                           \* add
     /\ IF i \in Interior(markers)
        THEN DeleteSegmentMarker(i) /\ heap' = heap \ {markers[i + 1].cap}
        ELSE UNCHANGED <<markers, active, jumpSeg, heap>>
     /\ UNCHANGED bookmarks

UndoBookmark(e) ==
  \E infOk \in BOOLEAN :
    LET at == {i \in 0 .. Len(bookmarks) - 1 : bookmarks[i + 1] = Decoded(e.new)}
        i  == Min(at)
    IN  /\ bookmarks' =
             IF e.new = 0
             THEN IF MayAddBookmark(bookmarks, Decoded(e.prev), FALSE)
                  THEN Stored(WithBookmark(bookmarks, Decoded(e.prev)), infOk)
                  ELSE bookmarks
             ELSE IF at = {} THEN bookmarks
             ELSE IF e.prev = 0 THEN Stored(RemoveAt(bookmarks, i + 1), infOk)
             ELSE IF MayMoveBookmark(bookmarks, i, Decoded(e.prev), FALSE)
                  THEN Stored(MovedBookmark(bookmarks, i, Decoded(e.prev)), infOk)
                  ELSE bookmarks
        /\ UNCHANGED <<markers, active, jumpSeg, heap>>

UndoKey ==
  LET e == undo[undoLast]
      i == EventMarker(markers, e)
  IN  /\ Editing
      /\ e.seg \/ e.prev # 0 \/ e.new # 0
      /\ IF ~e.seg THEN UndoBookmark(e)
         ELSE IF e.new = 0 /\ e.prev # 0 THEN UndoDeletedMarker(e)
         ELSE IF i >= 0 THEN UndoAtMarker(e, i)
         ELSE UNCHANGED <<markers, active, bookmarks, jumpSeg, heap>>
      /\ Popped
      /\ UNCHANGED <<state, bookmarkMode, jumpBlock, jumpTimer, jumpDone, import>>

-----------------------------------------------------------------------------
(* The action menu, as far as it changes the lists.  "Save", "Delete" and  *)
(* "Split" start the cutting process, which the module CutProcess models.  *)

OpenMenu ==
  /\ Editing /\ jumpSeg = NoJump
  /\ state' = "ActionMenu"
  /\ UNCHANGED <<markers, active, bookmarks, bookmarkMode, jumpVars, undoVars,
                 heap, import>>

CloseMenu ==
  /\ state = "ActionMenu"
  /\ state' = "ActiveOSD"
  /\ UNCHANGED <<markers, active, bookmarks, bookmarkMode, jumpVars, undoVars,
                 heap, import>>

\* "Select even/odd segments" and "unselect all"; the menu stays open.
MenuSelect ==
  /\ state = "ActionMenu" /\ Nr(markers) > 2
  /\ \E S \in {{}, {k \in 1 .. Nr(markers) - 1 : k % 2 = 0},
                   {k \in 1 .. Nr(markers) - 1 : k % 2 = 1}} :
       markers' = [k \in DOMAIN markers |->
                     IF k < Nr(markers) THEN [markers[k] EXCEPT !.sel = (k \in S)]
                     ELSE markers[k]]
  /\ UNCHANGED <<state, active, bookmarks, bookmarkMode, jumpVars, undoVars,
                 heap, import>>

\* "Copy segments...": selects the active segment if none is selected.
MenuCopySegments ==
  /\ state = "ActionMenu" /\ ~bookmarkMode
  /\ markers' = IF \E k \in 1 .. Nr(markers) - 1 : markers[k].sel THEN markers
                ELSE [markers EXCEPT ![active + 1].sel = TRUE]
  /\ state' = "ActionSubMenu"
  /\ UNCHANGED <<active, bookmarks, bookmarkMode, jumpVars, undoVars, heap, import>>

\* The sub menu is left: back to the menu, or RecStrip is started.
LeaveSubMenu ==
  /\ state = "ActionSubMenu"
  /\ state' \in {"ActionMenu", "ActiveOSD"}
  /\ UNCHANGED <<markers, active, bookmarks, bookmarkMode, jumpVars, undoVars,
                 heap, import>>

\* "Clear all" in segment mode.
MenuClearMarkers ==
  /\ state = "ActionMenu" /\ ~bookmarkMode /\ Nr(markers) > 2
  /\ DeleteAllSegmentMarkers
  /\ state' = "ActiveOSD"
  /\ UNCHANGED <<bookmarks, bookmarkMode, jumpBlock, jumpTimer, jumpDone, import>>

\* "Clear all" in bookmark mode: DeleteAllBookmarks does not read back.
MenuClearBookmarks ==
  /\ state = "ActionMenu" /\ bookmarkMode /\ bookmarks # <<>>
  /\ UndoResetStack
  /\ heap' = heap \ UndoCaptions
  /\ bookmarks' = <<>>
  /\ state' = "ActiveOSD"
  /\ UNCHANGED <<markers, active, bookmarkMode, jumpVars, import>>

\* "Export to bookmarks": resets the undo ring only if a bookmark is deleted.
MenuExport ==
  /\ state = "ActionMenu" /\ bookmarkMode /\ Nr(markers) > 2 /\ ~MediaFileMode
  /\ IF bookmarks # <<>>
     THEN UndoResetStack /\ heap' = heap \ UndoCaptions
     ELSE UNCHANGED <<undoVars, heap>>
  /\ \E infOk \in BOOLEAN :
       LET n == IF Nr(markers) - 2 < MaxBookmarks THEN Nr(markers) - 2 ELSE MaxBookmarks
       IN  bookmarks' = Stored([k \in 1 .. n |-> BlockAt(markers, k)], infOk)
  /\ state' = "ActiveOSD"
  /\ UNCHANGED <<markers, active, bookmarkMode, jumpVars, import>>

\* "Import bookmarks", up to its loop.
MenuImport ==
  /\ state = "ActionMenu" /\ ~bookmarkMode /\ bookmarks # <<>>
  /\ DeleteAllSegmentMarkers
  /\ import' = 0
  /\ state' = "ActiveOSD"
  /\ UNCHANGED <<bookmarks, bookmarkMode, jumpBlock, jumpTimer, jumpDone>>

ImportLimit ==
  IF Len(bookmarks) < NRSEGMENTMARKER - 2 THEN Len(bookmarks) ELSE NRSEGMENTMARKER - 2

ImportStep ==
  LET asked == bookmarks[import + 1]
      b     == IFrame(asked)
  IN  /\ import # NoJump /\ import < ImportLimit
      /\ IF /\ asked > BlockAt(markers, 0) + Margin
            /\ asked + Margin < BlockAt(markers, Nr(markers) - 1)
            /\ MayAdd(markers, b, FALSE)
         THEN AddSegmentMarker(b, FALSE, NoCaption)
         ELSE UNCHANGED <<markers, active>>
      /\ import' = import + 1
      /\ UNCHANGED <<state, bookmarks, bookmarkMode, jumpVars, undoVars, heap>>

ImportEnd ==
  /\ import # NoJump /\ import >= ImportLimit
  /\ SetCurrentSegment(markers, active, jumpBlock, jumpTimer, jumpDone, jumpSeg)
  /\ import' = NoJump
  /\ UNCHANGED <<state, markers, bookmarks, bookmarkMode, undoVars, heap>>

-----------------------------------------------------------------------------
EditKey == AddMarkerKey \/ DeleteMarkerKey \/ MoveMarkerKey \/ CaptionKey
BookmarkKey == AddBookmarkKey \/ DeleteBookmarkKey \/ MoveBookmarkKey
Navigation ==
  \/ \E back \in BOOLEAN : RequestSegment(back) \/ RequestBlock(back)
  \/ CancelJump \/ ExecuteJump \/ Idle \/ JumpToSegment \/ JumpElsewhere
Menu ==
  \/ OpenMenu \/ CloseMenu \/ MenuSelect \/ MenuCopySegments \/ LeaveSubMenu
  \/ MenuClearMarkers \/ MenuClearBookmarks
  \/ MenuExport \/ MenuImport \/ ImportStep \/ ImportEnd
Session == StartPlayback \/ PlaybackEnds \/ Deactivate \/ Reactivate

Next ==
  \/ EditKey \/ BookmarkKey \/ UndoKey \/ SelectKey \/ ToggleBookmarkMode
  \/ Navigation \/ Menu \/ Session

Spec == Init /\ [][Next]_vars

-----------------------------------------------------------------------------
(* Properties.                                                             *)

\* Every variable has its type; the ring holds events or blank slots.
TypeOK ==
  /\ state \in {"WaitForPlayback", "ActiveOSD", "ActionMenu", "ActionSubMenu",
               "InactiveModePlaying"}
  /\ markers \in Seq(Marker)
  /\ active \in Nat
  /\ bookmarks \in Seq(Blocks)
  /\ bookmarkMode \in BOOLEAN
  /\ jumpSeg \in Nat \cup {NoJump}
  /\ jumpBlock \in Blocks \cup {NoBlock}
  /\ jumpTimer \in BOOLEAN /\ jumpDone \in BOOLEAN
  /\ undo \in [Slots -> Event] /\ undoLast \in Slots
  /\ heap \subseteq Captions
  /\ import \in Nat \cup {NoJump}

Loaded == state # "WaitForPlayback"

\* While a recording is loaded the list keeps both end markers in place and
\* never outgrows the array of NRSEGMENTMARKER entries (AddSegmentMarker,
\* MoveSegmentMarker, DeleteSegmentMarker: only interior markers may change).
EndsFixed ==
  Loaded => /\ 2 <= Len(markers) /\ Len(markers) <= NRSEGMENTMARKER
            /\ markers[1].block = 0
            /\ markers[Len(markers)].block = TotalBlock

\* The indices the idle handler and the keys use without a check of their own
\* name a segment: SegmentMarker[JumpRequestedSegment], SegmentMarker[ActiveSegment].
IndicesInRange ==
  Loaded => /\ active < Len(markers) - 1
            /\ jumpSeg < Len(markers) - 1

\* The strengthening that makes the three above inductive: an undo event about a
\* marker names blocks of the recording, and the import loop runs within one step
\* of ST_ActionMenu, which is why no key sees its loop counter.
EventsInRange ==
  \A k \in Slots : undo[k].seg => undo[k].prev \in Blocks /\ undo[k].new \in Blocks
ImportWhileActive == import # NoJump => state = "ActiveOSD"
IndInv == TypeOK /\ EndsFixed /\ IndicesInRange /\ EventsInRange /\ ImportWhileActive

\* Every caption buffer a marker or an undo event points to is allocated and
\* has one owner, so no TAP_MemFree frees twice and none leaves a dangling pointer.
CaptionsOwnedOnce ==
  /\ UndoCaptions \cup MarkerCaptions(markers) \subseteq heap
  /\ UndoCaptions \cap MarkerCaptions(markers) = {}
  /\ \A j, k \in DOMAIN markers :
       markers[j].cap = markers[k].cap => j = k \/ markers[j].cap = NoCaption
  /\ \A j, k \in Slots :
       undo[j].cap = undo[k].cap => j = k \/ undo[j].cap = NoCaption

\* The end marker is no segment and is never selected (DeleteSegmentMarker and
\* SelectSegmentMarker take care of it; CutEncodeToBM saves its bit).
EndNotSelected == markers # <<>> => ~markers[Len(markers)].sel

Sorted(ms) == \A j, k \in DOMAIN ms : j < k => ms[j].block <= ms[k].block

\* "Find the point where to insert the new marker so that the list stays
\* sorted" (AddSegmentMarker): the list is sorted in every state.
MarkersSorted == Sorted(markers)

\* AddBookmark and MoveBookmark keep the bookmarks in order.
BookmarksSorted == \A j, k \in DOMAIN bookmarks : j < k => bookmarks[j] <= bookmarks[k]

\* The nearest-marker search, which leaves its loop early, does find a nearest
\* marker as long as the list is strictly sorted.
StrictlySorted(ms) == \A j, k \in DOMAIN ms : j < k => ms[j].block < ms[k].block
NearestIsNearest ==
  StrictlySorted(markers) =>
    \A b \in Blocks :
      LET i == FindNearestSegmentMarker(markers, b)
      IN  /\ i = -1 <=> Interior(markers) = {}
          /\ \A j \in Interior(markers) :
               Distance(BlockAt(markers, i), b) <= Distance(BlockAt(markers, j), b)

\* "Erlaube kein Segment mit weniger als 3 Sekunden": a marker that the Green
\* key sets is more than Margin away from every other marker but the two ends.
AddLeavesNoSmallSegment ==
  [][AddMarkerKey =>
       \E i \in 1 .. Len(markers) - 1 :
         /\ markers' = InsertAt(markers, i + 1, markers'[i + 1])
         /\ \A j \in 1 .. Len(markers) - 1 :
              j # i => Distance(BlockAt(markers', i), BlockAt(markers', j)) > Margin]_vars

\* The same for the Yellow key: the moved marker keeps the distance.
MoveLeavesNoSmallSegment ==
  [][MoveMarkerKey =>
       \E i \in 1 .. Len(markers) - 2 :
         /\ markers'[i + 1] # markers[i + 1]
         /\ \A j \in {i - 1, i + 1} \cap (1 .. Len(markers) - 2) :
              Distance(BlockAt(markers', i), BlockAt(markers', j)) > Margin]_vars

\* Recall of a move: MoveSegmentMarker(i, PrevBlock, FALSE) does not look at the
\* neighbours.  It is the only step that puts a list out of order; an export then
\* passes the disorder on to the bookmarks.
UndoneMove ==
  LET e == undo[undoLast]
  IN  UndoKey /\ e.seg /\ e.prev # 0 /\ e.new # 0 /\ e.new # e.prev
OrderKept ==
  [][MarkersSorted /\ BookmarksSorted /\ ~UndoneMove
       => MarkersSorted' /\ BookmarksSorted']_vars
=============================================================================
