-------------------------- MODULE MCSegmentMarkers --------------------------
(* Small instances of SegmentMarkers and SegmentHistory for TLC. *)
EXTENDS SegmentHistory, FiniteSets, TLC

\* Caption buffers are interchangeable.
Symmetry == Permutations(Captions)

\* The nav: one I-frame record at each of these blocks.
CONSTANT NavBlocks
MCNavBlock ==
  [b \in 0 .. TotalBlock |->
     LET before == {n \in NavBlocks : n <= b}
     IN  IF before = {} THEN -1 ELSE Max(before)]

\* What CutFileLoad and the firmware can hand over.
NoMarkers    == {}
OneMarker    == {<<0, 2, TotalBlock>>}
NoBookmarks  == {<<>>}
TwoBookmarks == {<<>>, <<2, 3>>}

\* SegmentMarkers without the history variable.
PlainInit == Init /\ past = Empty
PlainSpec == PlainInit /\ [][Next /\ UNCHANGED past]_allVars

\* Bounds that keep a run on one question.
NothingPending == jumpSeg = NoJump /\ jumpBlock = NoBlock /\ ~jumpTimer
Selected == {k \in DOMAIN markers : markers[k].sel}
EditsOnly == NothingPending /\ Selected = {}
SelectingEdits ==
  NothingPending /\ Cardinality(Selected) <= 1 /\ (Selected = {} \/ heap = {})
MarkerEditsOnly == EditsOnly /\ \A k \in Slots : undo[k].seg \/ undo[k] = Blank
BookmarkEditsOnly ==
  /\ EditsOnly /\ \A k \in Slots : ~undo[k].seg
  /\ active = 0 \/ import # NoJump     \* ActiveSegment matters to markers only
\* Edits of markers at blocks 1 and 3, or of bookmarks at 0, 2 and 3; the lists are
\* imported and exported when there is nothing to undo.
OneKind ==
  \/ /\ SelectingEdits /\ ~bookmarkMode /\ bookmarks = <<>>
     /\ \A k \in Slots : undo[k].seg \/ undo[k] = Blank
     /\ \A k \in 2 .. Len(markers) : markers[k].block \notin {0, 2}
  \/ /\ BookmarkEditsOnly /\ heap = {} /\ 1 \notin ToSet(bookmarks)
     /\ \/ Len(markers) = 2
        \/ RingIsBlank /\ \A k \in DOMAIN markers : markers[k].block # 1
=============================================================================
