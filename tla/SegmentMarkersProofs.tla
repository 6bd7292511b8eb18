------------------------ MODULE SegmentMarkersProofs ------------------------
(***************************************************************************)
(* Theorems about SegmentMarkers, for every recording, every size of the   *)
(* arrays and every nav: the state has its type, the two end markers stay, *)
(* and the indices that are used without a check name a segment; who owns  *)
(* the caption buffers, the selection of the end marker, the search of the *)
(* nearest marker, the distance a moved marker keeps, which steps keep the *)
(* lists in order and why the marker list is in order all the time; and,   *)
(* with the history of SegmentHistory, what Recall gives back.             *)
(***************************************************************************)
EXTENDS SegmentHistory, ListLemmas

\* What every operation on the marker list needs and keeps.
Framed(ms) ==
  /\ ms \in Seq(Marker)
  /\ 2 <= Len(ms) /\ Len(ms) <= NRSEGMENTMARKER
  /\ ms[1].block = 0
  /\ ms[Len(ms)].block = TotalBlock

LEMMA SizesAreNaturals ==
  /\ TotalBlock \in Nat /\ Margin \in Nat /\ IFrameLead \in Nat /\ FlickerBlocks \in Nat
  /\ NRSEGMENTMARKER \in Nat /\ MaxBookmarks \in Nat /\ NRUNDOEVENTS \in Nat \ {0}
BY BlocksAssumption, SizesAssumption

-----------------------------------------------------------------------------
(* The searches.                                                           *)

\* InsertIndex finds a place in front of the end marker.
LEMMA InsertIndexInRange ==
  ASSUME NEW ms, Framed(ms), NEW b \in Blocks
  PROVE  /\ InsertIndex(ms, b) \in 1 .. Len(ms) - 1
         /\ BlockAt(ms, InsertIndex(ms, b)) >= b
<1> DEFINE I == {i \in 1 .. Nr(ms) - 1 : BlockAt(ms, i) >= b}
<1>1. Len(ms) \in Nat /\ Len(ms) - 1 \in I
  BY SizesAreNaturals DEF Framed, Nr, BlockAt, Blocks
<1>2. I \subseteq Nat /\ I # {}
  BY <1>1 DEF Nr
<1>3. Min(I) \in I
  BY <1>2, MinIsLeast
<1> QED
  BY <1>3 DEF InsertIndex, Nr

\* FindSegmentWithBlock names a segment, whatever block it is asked for.
LEMMA FoundSegmentInRange ==
  ASSUME NEW ms, Framed(ms), NEW b \in Nat
  PROVE  FindSegmentWithBlock(ms, b) \in 0 .. Len(ms) - 2
<1> DEFINE I == {i \in 0 .. Nr(ms) - 2 : BlockAt(ms, i + 1) > b}
<1>1. Len(ms) \in Nat /\ Len(ms) - 2 \in Nat
  BY DEF Framed
<1>2. I # {} => Min(I) \in I
  BY <1>1, MinIsLeast DEF Nr
<1> QED
  BY <1>1, <1>2 DEF FindSegmentWithBlock, Nr

\* FindNearestSegmentMarker names an interior marker or none.
LEMMA NearestMarkerInRange ==
  ASSUME NEW ms, Framed(ms), NEW b
  PROVE  FindNearestSegmentMarker(ms, b) \in Interior(ms) \cup {-1}
<1> DEFINE D(i) == Distance(BlockAt(ms, i), b)
           I == {k \in Interior(ms) : \A j \in 2 .. k : D(j) < D(j - 1)}
<1>1. Len(ms) - 2 \in Nat /\ I \subseteq 0 .. Len(ms) - 2
  BY DEF Framed, Interior, Nr
<1>2. FindNearestSegmentMarker(ms, b) = IF I = {} THEN -1 ELSE Max(I)
  BY DEF FindNearestSegmentMarker
<1>3. I # {} => Max(I) \in I
  <2> HIDE DEF I
  <2> QED
    BY <1>1, MaxIsGreatest
<1>4. I \subseteq Interior(ms)
  OBVIOUS
<1> HIDE DEF I
<1> QED
  BY <1>2, <1>3, <1>4

\* The marker an undo event is about has an index below the end marker.
LEMMA EventMarkerInRange ==
  ASSUME NEW ms, Framed(ms), NEW e
  PROVE  EventMarker(ms, e) \in (0 .. Len(ms) - 2) \cup {-1}
<1> DEFINE I == {i \in 0 .. Nr(ms) - 2 : BlockAt(ms, i) = e.new}
<1>1. I \subseteq Nat /\ I \subseteq 0 .. Len(ms) - 2
  BY DEF Framed, Nr
<1>2. EventMarker(ms, e) = IF I = {} THEN -1 ELSE Min(I)
  BY DEF EventMarker
<1> HIDE DEF I
<1>3. I # {} => Min(I) \in I
  BY <1>1, MinIsLeast
<1> QED
  BY <1>1, <1>2, <1>3

\* The cut position in front of an I-frame is a block of the recording.
LEMMA IFrameInRange ==
  ASSUME NEW b \in Blocks
  PROVE  IFrame(b) \in Blocks
<1>1. NavBlock[b] \in Blocks \cup {NoBlock}
  BY NavAssumption
<1> QED
  BY <1>1, SizesAreNaturals DEF IFrame, Blocks, NoBlock

-----------------------------------------------------------------------------
(* The operations on the marker list keep its frame.                       *)

LEMMA InsertKeepsFrame ==
  ASSUME NEW ms, Framed(ms), Len(ms) < NRSEGMENTMARKER,
         NEW i \in 1 .. Len(ms) - 1, NEW m \in Marker
  PROVE  /\ Framed(InsertAt(ms, i + 1, m))
         /\ Len(InsertAt(ms, i + 1, m)) = Len(ms) + 1
<1> DEFINE new == InsertAt(ms, i + 1, m)
<1>1. /\ ms \in Seq(Marker) /\ Len(ms) \in Nat /\ i + 1 \in 1 .. Len(ms) + 1
      /\ NRSEGMENTMARKER \in Nat
  BY SizesAreNaturals DEF Framed
<1>2. /\ new \in Seq(Marker) /\ Len(new) = Len(ms) + 1
      /\ \A k \in 1 .. Len(ms) + 1 :
           new[k] = IF k < i + 1 THEN ms[k] ELSE IF k = i + 1 THEN m ELSE ms[k - 1]
  BY <1>1, InsertAtProperties, SMTT(30)
<1> HIDE DEF new
<1>3. new[1] = ms[1] /\ new[Len(ms) + 1] = ms[Len(ms)]
  BY <1>1, <1>2
<1>4. Framed(new)
  BY <1>1, <1>2, <1>3 DEF Framed
<1> QED
  BY <1>2, <1>4 DEF new

LEMMA RemoveKeepsFrame ==
  ASSUME NEW ms, Framed(ms), NEW i \in Interior(ms)
  PROVE  LET rest == RemoveAt(ms, i + 1)
             new  == [rest EXCEPT ![Len(rest)].sel = FALSE]
         IN  Framed(new) /\ Len(new) = Len(ms) - 1 /\ Len(rest) = Len(ms) - 1
<1> DEFINE rest == RemoveAt(ms, i + 1)
           new  == [rest EXCEPT ![Len(rest)].sel = FALSE]
<1>1. /\ ms \in Seq(Marker) /\ Len(ms) \in Nat /\ i + 1 \in 1 .. Len(ms)
      /\ i + 1 > 1 /\ i + 1 < Len(ms) /\ NRSEGMENTMARKER \in Nat
  BY SizesAreNaturals DEF Framed, Interior, Nr
<1>2. /\ rest \in Seq(Marker) /\ Len(rest) = Len(ms) - 1
      /\ \A k \in 1 .. Len(ms) - 1 : rest[k] = IF k < i + 1 THEN ms[k] ELSE ms[k + 1]
  BY <1>1, RemoveAtProperties
<1> HIDE DEF rest
<1>3. rest[1] = ms[1] /\ rest[Len(rest)] = ms[Len(ms)]
  BY <1>1, <1>2
<1>4. rest[Len(rest)] \in Marker
  BY <1>1, <1>2
<1>5. [rest[Len(rest)] EXCEPT !.sel = FALSE] \in Marker
  BY <1>4 DEF Marker
<1>6. /\ new \in Seq(Marker) /\ Len(new) = Len(rest)
      /\ \A j \in 1 .. Len(rest) :
           new[j] = IF j = Len(rest) THEN [rest[Len(rest)] EXCEPT !.sel = FALSE] ELSE rest[j]
  <2>1. Len(rest) \in 1 .. Len(rest)
    BY <1>1, <1>2
  <2> QED
    BY <1>2, <1>5, <2>1, ExceptSeq
<1>7. /\ new[1].block = rest[1].block
      /\ new[Len(rest)].block = rest[Len(rest)].block
  <2>1. 1 \in 1 .. Len(rest) /\ Len(rest) \in 1 .. Len(rest)
    BY <1>1, <1>2
  <2>2. [rest[Len(rest)] EXCEPT !.sel = FALSE].block = rest[Len(rest)].block
    BY <1>4 DEF Marker
  <2> QED
    BY <1>6, <2>1, <2>2
<1>8. Framed(new)
  <2> HIDE DEF new
  <2> QED
    BY <1>1, <1>2, <1>3, <1>6, <1>7, SMTT(30) DEF Framed
<1> QED
  BY <1>2, <1>6, <1>8 DEF rest

\* A change of one entry that leaves the blocks of the two ends alone.
LEMMA ReplaceKeepsFrame ==
  ASSUME NEW ms, Framed(ms), NEW k \in 1 .. Len(ms), NEW m \in Marker,
         m.block = ms[k].block \/ (k > 1 /\ k < Len(ms))
  PROVE  Framed([ms EXCEPT ![k] = m]) /\ Len([ms EXCEPT ![k] = m]) = Len(ms)
<1> DEFINE new == [ms EXCEPT ![k] = m]
<1>1. ms \in Seq(Marker) /\ Len(ms) \in Nat /\ 1 \in 1 .. Len(ms) /\ Len(ms) \in 1 .. Len(ms)
  BY DEF Framed
<1>2. /\ new \in Seq(Marker) /\ Len(new) = Len(ms)
      /\ \A j \in 1 .. Len(ms) : new[j] = IF j = k THEN m ELSE ms[j]
  BY <1>1, ExceptSeq
<1> HIDE DEF new
<1>3. new[1].block = ms[1].block /\ new[Len(ms)].block = ms[Len(ms)].block
  BY <1>1, <1>2
<1> QED
  BY <1>2, <1>3 DEF Framed, new

\* "Clear all" and the first step of an import leave the two end markers.
LEMMA EndsAreFramed ==
  ASSUME NEW ms, Framed(ms)
  PROVE  Framed(EndsOf(ms)) /\ Len(EndsOf(ms)) = 2
<1> DEFINE first == [block |-> ms[1].block, sel |-> FALSE, cap |-> NoCaption]
           last  == [block |-> ms[Len(ms)].block, sel |-> ms[Len(ms)].sel,
                     cap |-> IF Len(ms) > 2 THEN NoCaption ELSE ms[Len(ms)].cap]
<1>1. ms[1] \in Marker /\ ms[Len(ms)] \in Marker
  BY DEF Framed
<1>2. first \in Marker /\ first.block = 0
  BY <1>1 DEF Framed, Marker
<1>3. last \in Marker /\ last.block = TotalBlock
  BY <1>1 DEF Framed, Marker
<1>4. EndsOf(ms) = <<first, last>>
  BY DEF EndsOf
<1> HIDE DEF first, last
<1>5. <<first, last>> \in Seq(Marker) /\ Len(<<first, last>>) = 2
      /\ <<first, last>>[1] = first /\ <<first, last>>[2] = last
  BY <1>2, <1>3
<1> QED
  BY <1>2, <1>3, <1>4, <1>5, SizesAssumption DEF Framed

\* The list a cut file or the default leaves.
LEMMA LoadedListIsFramed ==
  ASSUME NEW l \in LoadableMarkers \cup {<<0, TotalBlock>>}
  PROVE  Framed(MarkerList(l))
<1>1. /\ l \in Seq(Blocks) /\ 2 <= Len(l) /\ Len(l) <= NRSEGMENTMARKER
      /\ l[1] = 0 /\ l[Len(l)] = TotalBlock
  <2>1. CASE l \in LoadableMarkers
    BY <2>1, LoadAssumption
  <2>2. CASE l = <<0, TotalBlock>>
    <3>1. 0 \in Blocks /\ TotalBlock \in Blocks
      BY SizesAreNaturals DEF Blocks
    <3> QED
      BY <2>2, <3>1, SizesAssumption
  <2> QED
    BY <2>1, <2>2
<1> DEFINE entry(k) == [block |-> l[k], sel |-> FALSE, cap |-> NoCaption]
           new == [k \in 1 .. Len(l) |-> entry(k)]
<1>2. \A k \in 1 .. Len(l) : entry(k) \in Marker
  BY <1>1 DEF Marker
<1>3. new \in Seq(Marker) /\ Len(new) = Len(l)
  BY <1>1, <1>2
<1>4. new[1].block = 0 /\ new[Len(l)].block = TotalBlock
  BY <1>1
<1> HIDE DEF new
<1>5. Framed(new)
  BY <1>1, <1>3, <1>4 DEF Framed
<1> QED
  BY <1>5 DEF MarkerList, new

\* "Select even/odd" and "unselect all" change selections only.
LEMMA SelectionKeepsFrame ==
  ASSUME NEW ms, Framed(ms), NEW S
  PROVE  LET new == [k \in DOMAIN ms |->
                       IF k < Nr(ms) THEN [ms[k] EXCEPT !.sel = (k \in S)] ELSE ms[k]]
         IN  Framed(new) /\ Len(new) = Len(ms)
<1> DEFINE entry(k) == IF k < Nr(ms) THEN [ms[k] EXCEPT !.sel = (k \in S)] ELSE ms[k]
           new == [k \in DOMAIN ms |-> entry(k)]
<1>1. DOMAIN ms = 1 .. Len(ms) /\ Len(ms) \in Nat /\ \A k \in 1 .. Len(ms) : ms[k] \in Marker
  BY DEF Framed
<1>2. ASSUME NEW k \in 1 .. Len(ms)
      PROVE  entry(k) \in Marker /\ entry(k).block = ms[k].block
  <2>1. ms[k] \in Marker /\ (k \in S) \in BOOLEAN
    BY <1>1
  <2>2. \A v \in BOOLEAN : /\ [ms[k] EXCEPT !.sel = v] \in Marker
                           /\ [ms[k] EXCEPT !.sel = v].block = ms[k].block
    BY <2>1 DEF Marker
  <2>3. CASE k < Nr(ms)
    BY <2>1, <2>2, <2>3, Zenon
  <2>4. CASE ~(k < Nr(ms))
    BY <2>1, <2>4, Zenon
  <2> QED
    BY <2>3, <2>4, Zenon
<1>3. new \in Seq(Marker) /\ Len(new) = Len(ms) /\ \A k \in 1 .. Len(ms) : new[k] = entry(k)
  BY <1>1, <1>2
<1> HIDE DEF new, entry
<1>4. new[1].block = 0 /\ new[Len(ms)].block = TotalBlock
  BY <1>1, <1>2, <1>3 DEF Framed
<1>5. Framed(new)
  BY <1>3, <1>4 DEF Framed
<1> QED
  BY <1>3, <1>5 DEF new, entry

-----------------------------------------------------------------------------
(* The bookmark list and the undo ring keep their types.                   *)

LEMMA BookmarkIndexInRange ==
  ASSUME NEW bm \in Seq(Blocks), NEW b \in Blocks
  PROVE  BookmarkIndex(bm, b) \in 0 .. Len(bm)
<1>1. CASE bm = <<>> \/ b > bm[Len(bm)]
  BY <1>1 DEF BookmarkIndex
<1>2. CASE ~(bm = <<>> \/ b > bm[Len(bm)])
  <2> DEFINE I == {i \in 0 .. Len(bm) - 1 : bm[i + 1] >= b}
  <2>1. Len(bm) \in Nat \ {0} /\ bm[Len(bm)] \in Nat /\ b \in Nat
    BY <1>2, BlocksAssumption DEF Blocks
  <2>2. I \subseteq 0 .. Len(bm) /\ I \subseteq Nat
    OBVIOUS
  <2>3. Len(bm) - 1 \in I
    BY <1>2, <2>1
  <2>4. BookmarkIndex(bm, b) = Min(I)
    BY <1>2 DEF BookmarkIndex
  <2> HIDE DEF I
  <2>5. Min(I) \in I
    BY <2>2, <2>3, MinIsLeast
  <2> QED
    BY <2>2, <2>4, <2>5
<1> QED
  BY <1>1, <1>2

LEMMA MovedIndexInRange ==
  ASSUME NEW bm \in Seq(Blocks), NEW i \in 0 .. Len(bm) - 1, NEW b \in Blocks
  PROVE  MovedIndex(bm, i, b) \in 0 .. Len(bm) - 1
<1> DEFINE L == {j \in 0 .. i : \A k \in j .. i - 1 : bm[k + 1] > b}
           R == {j \in i .. Len(bm) - 1 : \A k \in i + 1 .. j : bm[k + 1] < b}
<1>1. i \in L /\ i \in R
  OBVIOUS
<1>2. L \subseteq 0 .. i /\ L \subseteq Nat /\ R \subseteq 0 .. Len(bm) - 1
  OBVIOUS
<1>3. MovedIndex(bm, i, b) = IF Min(L) < i THEN Min(L) ELSE Max(R)
  BY DEF MovedIndex
<1>4. Len(bm) - 1 \in Nat
  OBVIOUS
<1> HIDE DEF L, R
<1>5. Min(L) \in L
  BY <1>1, <1>2, MinIsLeast
<1>6. Max(R) \in R
  BY <1>1, <1>2, <1>4, MaxIsGreatest
<1>7. Min(L) \in 0 .. Len(bm) - 1 /\ Max(R) \in 0 .. Len(bm) - 1
  <2>1. Min(L) \in 0 .. i
    BY <1>2, <1>5
  <2>2. Max(R) \in 0 .. Len(bm) - 1
    BY <1>2, <1>6
  <2> QED
    BY <2>1, <2>2
<1> QED
  BY <1>3, <1>7

LEMMA BookmarksStayTyped ==
  ASSUME NEW bm \in Seq(Blocks), NEW b \in Blocks
  PROVE  /\ WithBookmark(bm, b) \in Seq(Blocks)
         /\ \A i \in 0 .. Len(bm) - 1 :
              /\ RemoveAt(bm, i + 1) \in Seq(Blocks)
              /\ MovedBookmark(bm, i, b) \in Seq(Blocks)
<1>1. WithBookmark(bm, b) \in Seq(Blocks)
  <2>1. BookmarkIndex(bm, b) + 1 \in 1 .. Len(bm) + 1
    BY BookmarkIndexInRange
  <2> QED
    BY <2>1, InsertAtProperties DEF WithBookmark
<1>2. ASSUME NEW i \in 0 .. Len(bm) - 1
      PROVE  /\ RemoveAt(bm, i + 1) \in Seq(Blocks)
             /\ MovedBookmark(bm, i, b) \in Seq(Blocks)
  <2> DEFINE rest == RemoveAt(bm, i + 1)
  <2>1. i + 1 \in 1 .. Len(bm)
    OBVIOUS
  <2>2. rest \in Seq(Blocks) /\ Len(rest) = Len(bm) - 1
    BY <2>1, RemoveAtProperties
  <2>3. MovedIndex(bm, i, b) + 1 \in 1 .. Len(rest) + 1
    BY <2>2, MovedIndexInRange
  <2>4. MovedBookmark(bm, i, b) = InsertAt(rest, MovedIndex(bm, i, b) + 1, b)
    BY DEF MovedBookmark
  <2> HIDE DEF rest
  <2>5. MovedBookmark(bm, i, b) \in Seq(Blocks)
    BY <2>2, <2>3, <2>4, InsertAtProperties
  <2> QED
    BY <2>2, <2>5 DEF rest
<1> QED
  BY <1>1, <1>2

RingTyped == /\ undo \in [Slots -> Event] /\ undoLast \in Slots
             /\ EventsInRange

LEMMA AddedEventIsTyped ==
  ASSUME NEW e \in Event, e.seg => e.prev \in Blocks /\ e.new \in Blocks,
         RingTyped, UndoAddEvent(e)
  PROVE  RingTyped'
<1>1. (undoLast + 1) % NRUNDOEVENTS \in Slots
  BY SizesAreNaturals DEF RingTyped, Slots
<1> QED
  BY <1>1 DEF RingTyped, UndoAddEvent, EventsInRange

LEMMA BlankIsTyped == Blank \in Event
BY SizesAreNaturals DEF Blank, Event, Blocks

LEMMA ResetRingIsTyped ==
  ASSUME UndoResetStack
  PROVE  RingTyped'
<1>1. 0 \in Slots /\ ~Blank.seg
  BY SizesAreNaturals DEF Slots, Blank
<1> QED
  BY <1>1, BlankIsTyped DEF RingTyped, UndoResetStack, EventsInRange

LEMMA PoppedRingIsTyped ==
  ASSUME RingTyped, Popped
  PROVE  RingTyped'
<1>1. undoLast' \in Slots
  BY SizesAreNaturals DEF RingTyped, Popped, Slots
<1>2. undo' \in [Slots -> Event]
  BY BlankIsTyped DEF RingTyped, Popped
<1>3. EventsInRange'
  BY DEF RingTyped, Popped, EventsInRange, Blank
<1> QED
  BY <1>1, <1>2, <1>3 DEF RingTyped

-----------------------------------------------------------------------------
(* The inductive invariant in two halves: the list with the indices into   *)
(* it, which only a loaded recording has, and everything else.             *)

Positioned ==
  /\ Framed(markers)
  /\ active \in 0 .. Len(markers) - 2
  /\ jumpSeg \in (0 .. Len(markers) - 2) \cup {NoJump}

States == {"WaitForPlayback", "ActiveOSD", "ActionMenu", "ActionSubMenu",
           "InactiveModePlaying"}
JumpTyped == /\ jumpBlock \in Blocks \cup {NoBlock}
             /\ jumpTimer \in BOOLEAN /\ jumpDone \in BOOLEAN
RestTyped ==
  /\ state \in States
  /\ bookmarks \in Seq(Blocks) /\ bookmarkMode \in BOOLEAN
  /\ JumpTyped /\ RingTyped
  /\ heap \subseteq Captions
  /\ import \in Nat \cup {NoJump} /\ ImportWhileActive

LEMMA SplitIndInv ==
  ASSUME IndInv
  PROVE  RestTyped /\ (Loaded => Positioned)
<1>1. RestTyped
  BY DEF IndInv, TypeOK, RestTyped, States, JumpTyped, RingTyped
<1>2. ASSUME Loaded PROVE Positioned
  BY <1>2 DEF IndInv, TypeOK, EndsFixed, IndicesInRange, Positioned, Framed, NoJump
<1> QED
  BY <1>1, <1>2

LEMMA JoinIndInv ==
  ASSUME RestTyped', Positioned'
  PROVE  IndInv'
<1>1. TypeOK'
  BY DEF TypeOK, RestTyped, States, JumpTyped, RingTyped, Positioned, Framed, NoJump
<1>2. EndsFixed'
  BY DEF EndsFixed, Positioned, Framed
<1>3. IndicesInRange'
  BY DEF IndicesInRange, Positioned, Framed, NoJump
<1> QED
  BY <1>1, <1>2, <1>3 DEF IndInv, RestTyped, RingTyped

LEMMA EditingIsPositioned ==
  ASSUME IndInv, state # "WaitForPlayback"
  PROVE  RestTyped /\ Positioned
BY SplitIndInv DEF Loaded

\* The position the keys work with is a block of the recording.
LEMMA VisibleBlockInRange ==
  ASSUME RestTyped, NEW pos \in Positions
  PROVE  currentVisibleBlock(pos) \in Blocks
BY BlocksAssumption DEF RestTyped, JumpTyped, currentVisibleBlock

\* Unchanged halves.
LEMMA PositionUnchanged ==
  ASSUME Positioned, UNCHANGED <<markers, active, jumpSeg>>
  PROVE  Positioned'
BY DEF Positioned, Framed

LEMMA RingUnchanged ==
  ASSUME RingTyped, UNCHANGED undoVars
  PROVE  RingTyped'
BY DEF RingTyped, undoVars, EventsInRange

LEMMA JumpUnchanged ==
  ASSUME JumpTyped, UNCHANGED <<jumpBlock, jumpTimer, jumpDone>>
  PROVE  JumpTyped'
BY DEF JumpTyped

\* SetCurrentSegment leaves an index of the list it was given.
LEMMA SetCurrentSegmentKeeps ==
  ASSUME NEW ms, Framed(ms), NEW act \in 0 .. Len(ms) - 2,
         NEW jb \in Blocks \cup {NoBlock}, NEW timer \in BOOLEAN, NEW done \in BOOLEAN,
         NEW js \in (0 .. Len(ms) - 2) \cup {NoJump},
         SetCurrentSegment(ms, act, jb, timer, done, js)
  PROVE  /\ active' \in 0 .. Len(ms) - 2
         /\ jumpSeg' \in (0 .. Len(ms) - 2) \cup {NoJump}
         /\ JumpTyped'
<1> DEFINE pending == jb # NoBlock /\ ~timer
<1>1. PICK elapsed \in BOOLEAN, b \in Positions, d \in 0 .. FlickerBlocks :
        LET settled == ~done \/ elapsed
        IN  /\ active' = IF pending THEN FindSegmentWithBlock(ms, jb)
                         ELSE IF ~settled THEN act
                         ELSE FindSegmentWithBlock(ms, b + d)
            /\ jumpDone' = (done /\ ~settled)
            /\ jumpBlock' = IF settled /\ ~timer THEN NoBlock ELSE jb
            /\ jumpSeg' = IF settled /\ ~timer THEN NoJump ELSE js
            /\ jumpTimer' = timer
  BY Zenon DEF SetCurrentSegment
<1> DEFINE settled == ~done \/ elapsed
<1>2. b + d \in Nat
  BY BlocksAssumption DEF Blocks
<1>3. FindSegmentWithBlock(ms, b + d) \in 0 .. Len(ms) - 2
  BY <1>2, FoundSegmentInRange
<1>4. ASSUME pending PROVE FindSegmentWithBlock(ms, jb) \in 0 .. Len(ms) - 2
  <2>1. jb \in Nat
    BY <1>4, SizesAreNaturals DEF Blocks
  <2> QED
    BY <2>1, FoundSegmentInRange
<1>5. active' \in 0 .. Len(ms) - 2
  BY <1>1, <1>3, <1>4, Zenon
<1>6. jumpSeg' \in (0 .. Len(ms) - 2) \cup {NoJump}
  BY <1>1, Zenon
<1>7. jumpBlock' \in Blocks \cup {NoBlock}
  BY <1>1, Zenon
<1>8. jumpTimer' \in BOOLEAN /\ jumpDone' \in BOOLEAN
  BY <1>1
<1> QED
  BY <1>5, <1>6, <1>7, <1>8 DEF JumpTyped

LEMMA NoPendingJumpIsTyped ==
  ASSUME jumpBlock' = NoBlock, jumpTimer' \in BOOLEAN, jumpDone' \in BOOLEAN
  PROVE  JumpTyped'
BY DEF JumpTyped

-----------------------------------------------------------------------------
(* One lemma per action, or per group of actions that change the same.     *)

LEMMA InitEstablishes == Init => IndInv
<1> SUFFICES ASSUME Init PROVE IndInv
  OBVIOUS
<1>1. 0 \in Slots
  BY SizesAreNaturals DEF Slots
<1>2. TypeOK
  BY <1>1, BlankIsTyped DEF Init, TypeOK, NoBlock, NoJump
<1>3. EventsInRange
  BY DEF Init, EventsInRange, Blank
<1> QED
  BY <1>2, <1>3 DEF Init, IndInv, EndsFixed, IndicesInRange, ImportWhileActive, Loaded

LEMMA StartPlaybackKeeps == IndInv /\ StartPlayback => IndInv'
<1> SUFFICES ASSUME IndInv, StartPlayback PROVE IndInv'
  OBVIOUS
<1>1. RestTyped
  BY SplitIndInv
<1>2. Framed(markers)'
  <2>1. PICK l \in LoadableMarkers \cup {<<0, TotalBlock>>} : markers' = MarkerList(l)
    BY DEF StartPlayback
  <2> QED
    BY <2>1, LoadedListIsFramed DEF Framed
<1>3. Positioned'
  BY <1>2 DEF StartPlayback, Positioned, Framed
<1>4. bookmarks' \in Seq(Blocks)
  BY LoadAssumption DEF StartPlayback
<1>5. RingTyped'
  BY <1>1, RingUnchanged DEF StartPlayback, RestTyped
<1>6. JumpTyped'
  BY <1>1 DEF StartPlayback, RestTyped, JumpTyped
<1>7. RestTyped'
  BY <1>1, <1>4, <1>5, <1>6 DEF StartPlayback, RestTyped, States, ImportWhileActive
<1> QED
  BY <1>3, <1>7, JoinIndInv

LEMMA PlaybackEndsKeeps == IndInv /\ PlaybackEnds => IndInv'
<1> SUFFICES ASSUME IndInv, PlaybackEnds PROVE IndInv'
  OBVIOUS
<1>1. RingTyped'
  BY ResetRingIsTyped DEF PlaybackEnds
<1>2. markers \in Seq(Marker) /\ active \in Nat /\ heap \subseteq Captions
      /\ bookmarkMode \in BOOLEAN /\ import \in Nat \cup {NoJump}
  BY DEF IndInv, TypeOK
<1>3. JumpTyped'
  BY DEF PlaybackEnds, NoPendingJump, JumpTyped
<1>4. TypeOK'
  BY <1>1, <1>2, <1>3 DEF TypeOK, PlaybackEnds, NoPendingJump, RingTyped, JumpTyped
<1> QED
  BY <1>1, <1>4 DEF IndInv, EndsFixed, IndicesInRange, ImportWhileActive, Loaded,
     PlaybackEnds, RingTyped

LEMMA DeactivateReactivateKeep == IndInv /\ (Deactivate \/ Reactivate) => IndInv'
<1> SUFFICES ASSUME IndInv, Deactivate \/ Reactivate PROVE IndInv'
  OBVIOUS
<1>1. RestTyped /\ Positioned
  BY EditingIsPositioned DEF Deactivate, Reactivate, Editing
<1>2. Positioned'
  BY <1>1 DEF Deactivate, Reactivate, Positioned, Framed
<1>3. bookmarks' \in Seq(Blocks)
  BY <1>1, LoadAssumption DEF Deactivate, Reactivate, RestTyped
<1>4. RingTyped'
  BY <1>1, RingUnchanged DEF Deactivate, Reactivate, RestTyped
<1>5. JumpTyped'
  BY <1>1 DEF Deactivate, Reactivate, RestTyped, JumpTyped
<1>6. RestTyped'
  BY <1>1, <1>3, <1>4, <1>5 DEF Deactivate, Reactivate, Editing, RestTyped, States,
     ImportWhileActive
<1> QED
  BY <1>2, <1>6, JoinIndInv

\* What an action has to show that keeps the state and the import loop as they are.
LEMMA RestFollows ==
  ASSUME RestTyped, bookmarks' \in Seq(Blocks), JumpTyped', RingTyped',
         heap' \subseteq Captions, UNCHANGED <<state, bookmarkMode, import>>
  PROVE  RestTyped'
BY DEF RestTyped, ImportWhileActive

LEMMA OnlyJumpsChange ==
  ASSUME RestTyped, JumpTyped',
         UNCHANGED <<state, bookmarks, bookmarkMode, undoVars, heap, import>>
  PROVE  RestTyped'
<1>1. RingTyped'
  BY RingUnchanged DEF RestTyped
<1> QED
  BY <1>1, RestFollows DEF RestTyped

LEMMA RequestSegmentKeeps ==
  ASSUME NEW back \in BOOLEAN
  PROVE  IndInv /\ RequestSegment(back) => IndInv'
<1> SUFFICES ASSUME IndInv, RequestSegment(back) PROVE IndInv'
  OBVIOUS
<1>1. RestTyped /\ Positioned
  BY EditingIsPositioned DEF RequestSegment, Editing
<1>2. Len(markers) \in Nat /\ Len(markers) > 2
  BY <1>1 DEF RequestSegment, Nr, Positioned, Framed
<1>3. jumpSeg' \in 0 .. Len(markers) - 2
  <2> DEFINE from == IF jumpSeg = NoJump THEN active ELSE jumpSeg
  <2>1. from \in 0 .. Len(markers) - 2
    BY <1>1 DEF Positioned
  <2>2. jumpSeg' = IF back THEN (IF from > 0 THEN from - 1 ELSE Len(markers) - 2)
                   ELSE (IF from < Len(markers) - 2 THEN from + 1 ELSE 0)
    BY DEF RequestSegment, Nr
  <2> HIDE DEF from
  <2> QED
    BY <1>2, <2>1, <2>2
<1>4. Positioned'
  BY <1>1, <1>3 DEF RequestSegment, Positioned, Framed
<1>5. JumpTyped'
  BY <1>1 DEF RequestSegment, RestTyped, JumpTyped
<1>6. RestTyped'
  BY <1>1, <1>5, OnlyJumpsChange DEF RequestSegment
<1> QED
  BY <1>4, <1>6, JoinIndInv

LEMMA RequestBlockKeeps ==
  ASSUME NEW back \in BOOLEAN
  PROVE  IndInv /\ RequestBlock(back) => IndInv'
<1> SUFFICES ASSUME IndInv, RequestBlock(back) PROVE IndInv'
  OBVIOUS
<1>1. RestTyped /\ Positioned
  BY EditingIsPositioned DEF RequestBlock, Editing
<1>2. Positioned'
  BY <1>1 DEF RequestBlock, Positioned, Framed
<1>3. jumpBlock' \in Blocks \cup {NoBlock}
  <2>1. PICK pos \in Positions, w \in JumpWidths :
          LET from == currentVisibleBlock(pos)
          IN  jumpBlock' =
                IF back THEN (IF from >= w THEN from - w ELSE 0)
                ELSE IF from + w <= BlockNrLast10Seconds THEN from + w
                ELSE IF pos < BlockNrLast10Seconds THEN BlockNrLast10Seconds
                ELSE NoBlock
    BY Zenon DEF RequestBlock
  <2>2. currentVisibleBlock(pos) \in Blocks
    BY <1>1, VisibleBlockInRange
  <2>3. w \in Nat /\ BlockNrLast10Seconds \in Blocks /\ TotalBlock \in Nat
    BY BlocksAssumption
  <2> QED
    BY <2>1, <2>2, <2>3 DEF Blocks
<1>4. jumpTimer' \in BOOLEAN /\ jumpDone' \in BOOLEAN
  BY <1>1, Zenon DEF RequestBlock, RestTyped, JumpTyped
<1>5. RestTyped'
  BY <1>1, <1>3, <1>4, OnlyJumpsChange DEF RequestBlock, JumpTyped
<1> QED
  BY <1>2, <1>5, JoinIndInv

\* The steps that end in SetCurrentSegment.
LEMMA SettlingKeeps ==
  IndInv /\ (CancelJump \/ ExecuteJump \/ Idle) => IndInv'
<1> SUFFICES ASSUME IndInv, CancelJump \/ ExecuteJump \/ Idle PROVE IndInv'
  OBVIOUS
<1>1. RestTyped /\ Positioned
  BY EditingIsPositioned DEF CancelJump, ExecuteJump, Idle, Editing
<1>2. /\ UNCHANGED <<state, markers, bookmarks, bookmarkMode, undoVars, heap, import>>
      /\ \E act \in 0 .. Len(markers) - 2, jb \in Blocks \cup {NoBlock},
            timer \in BOOLEAN, done \in BOOLEAN,
            js \in (0 .. Len(markers) - 2) \cup {NoJump} :
           SetCurrentSegment(markers, act, jb, timer, done, js)
  <2>0. /\ active \in 0 .. Len(markers) - 2 /\ jumpBlock \in Blocks \cup {NoBlock}
        /\ jumpTimer \in BOOLEAN /\ jumpDone \in BOOLEAN
        /\ jumpSeg \in (0 .. Len(markers) - 2) \cup {NoJump}
        /\ NoBlock \in Blocks \cup {NoBlock}
        /\ NoJump \in (0 .. Len(markers) - 2) \cup {NoJump}
    BY <1>1 DEF Positioned, RestTyped, JumpTyped
  <2>1. CASE CancelJump
    BY <2>0, <2>1, Zenon DEF CancelJump
  <2>2. CASE Idle
    BY <2>0, <2>2, Zenon DEF Idle
  <2>3. CASE ExecuteJump
    <3>1. jumpSeg # NoJump => jumpSeg \in 0 .. Len(markers) - 2
      BY <2>0
    <3> QED
      BY <2>0, <2>3, <3>1, Zenon DEF ExecuteJump
  <2> QED
    BY <2>1, <2>2, <2>3
<1>3. /\ active' \in 0 .. Len(markers) - 2
      /\ jumpSeg' \in (0 .. Len(markers) - 2) \cup {NoJump}
      /\ JumpTyped'
  BY <1>1, <1>2, SetCurrentSegmentKeeps DEF Positioned
<1>4. Positioned'
  BY <1>1, <1>2, <1>3 DEF Positioned, Framed
<1>5. RestTyped'
  BY <1>1, <1>2, <1>3, OnlyJumpsChange
<1> QED
  BY <1>4, <1>5, JoinIndInv

LEMMA DirectJumpsKeep ==
  IndInv /\ (JumpToSegment \/ JumpElsewhere) => IndInv'
<1> SUFFICES ASSUME IndInv, JumpToSegment \/ JumpElsewhere PROVE IndInv'
  OBVIOUS
<1>1. RestTyped /\ Positioned
  BY EditingIsPositioned DEF JumpToSegment, JumpElsewhere, Editing
<1>2. /\ UNCHANGED <<state, markers, bookmarks, bookmarkMode, undoVars, heap, import>>
      /\ jumpSeg' = NoJump /\ jumpBlock' = NoBlock
  BY DEF JumpToSegment, JumpElsewhere
<1>3. JumpTyped'
  <2>1. jumpTimer' = jumpTimer /\ jumpDone' \in {TRUE, jumpDone}
    BY DEF JumpToSegment, JumpElsewhere
  <2> QED
    BY <1>1, <1>2, <2>1 DEF RestTyped, JumpTyped
<1>4. active' \in 0 .. Len(markers) - 2
  <2>1. active \in 0 .. Len(markers) - 2 /\ Len(markers) - 2 \in Nat /\ Nr(markers) = Len(markers)
    BY <1>1 DEF Positioned, Framed, Nr
  <2>2. CASE JumpToSegment
    <3>1. active' \in {active, active - 1, Len(markers) - 2, active + 1, 0}
      BY <2>1, <2>2 DEF JumpToSegment
    <3>2. active' = active - 1 => active > 0
      BY <2>1, <2>2 DEF JumpToSegment
    <3>3. active' = active + 1 => active < Len(markers) - 2 \/ active' = Len(markers) - 2
      BY <2>1, <2>2 DEF JumpToSegment
    <3> QED
      BY <2>1, <3>1, <3>2, <3>3
  <2>3. CASE JumpElsewhere
    BY <2>1, <2>3 DEF JumpElsewhere
  <2> QED
    BY <2>2, <2>3
<1>5. Positioned'
  BY <1>1, <1>2, <1>4 DEF Positioned, Framed
<1>6. RestTyped'
  BY <1>1, <1>2, <1>3, OnlyJumpsChange
<1> QED
  BY <1>5, <1>6, JoinIndInv

\* The event an edit of the marker list writes.
LEMMA SegmentEventIsTyped ==
  ASSUME NEW prev \in Blocks, NEW new \in Blocks, NEW sel \in BOOLEAN,
         NEW cap \in Captions \cup {NoCaption}
  PROVE  LET e == SegmentEvent(prev, new, sel, cap)
         IN  e \in Event /\ (e.seg => e.prev \in Blocks /\ e.new \in Blocks)
BY DEF SegmentEvent, Event

\* The markers of a list are markers.
LEMMA MarkerAt ==
  ASSUME NEW ms, Framed(ms), NEW i \in 0 .. Len(ms) - 1
  PROVE  /\ ms[i + 1] \in Marker /\ BlockAt(ms, i) \in Blocks
         /\ ms[i + 1].sel \in BOOLEAN /\ ms[i + 1].cap \in Captions \cup {NoCaption}
<1>1. ms[i + 1] \in Marker
  BY DEF Framed
<1> QED
  BY <1>1 DEF Marker, BlockAt

\* AddSegmentMarker with its early returns passed.
LEMMA AddSegmentMarkerKeeps ==
  ASSUME Framed(markers), active \in 0 .. Len(markers) - 2,
         NEW b \in Blocks, NEW sel \in BOOLEAN, NEW cap \in Captions \cup {NoCaption},
         NEW reject, MayAdd(markers, b, reject), AddSegmentMarker(b, sel, cap)
  PROVE  /\ Framed(markers)' /\ Len(markers') = Len(markers) + 1
         /\ active' \in 0 .. Len(markers') - 2
<1> DEFINE i == InsertIndex(markers, b)
           m == [block |-> b, sel |-> sel, cap |-> cap]
<1>1. i \in 1 .. Len(markers) - 1
  BY InsertIndexInRange
<1>2. Len(markers) < NRSEGMENTMARKER /\ m \in Marker /\ Len(markers) \in Nat
  BY DEF MayAdd, Nr, Marker, Framed
<1>3. markers' = InsertAt(markers, i + 1, m)
  BY DEF AddSegmentMarker
<1>4. active' \in {active, active + 1}
  BY DEF AddSegmentMarker
<1> HIDE DEF i, m
<1>5. Framed(markers') /\ Len(markers') = Len(markers) + 1
  BY <1>1, <1>2, <1>3, InsertKeepsFrame
<1> QED
  BY <1>2, <1>4, <1>5 DEF Framed

LEMMA AddMarkerKeyKeeps == IndInv /\ AddMarkerKey => IndInv'
<1> SUFFICES ASSUME IndInv, AddMarkerKey PROVE IndInv'
  OBVIOUS
<1>1. RestTyped /\ Positioned
  BY EditingIsPositioned DEF AddMarkerKey, Editing
<1>2. PICK pos \in Positions :
        LET b == IFrame(currentVisibleBlock(pos))
        IN  /\ MayAdd(markers, b, TRUE)
            /\ AddSegmentMarker(b, FALSE, NoCaption)
            /\ UndoAddEvent(SegmentEvent(0, b, FALSE, NoCaption))
  BY Zenon DEF AddMarkerKey
<1> DEFINE b == IFrame(currentVisibleBlock(pos))
<1>3. b \in Blocks /\ 0 \in Blocks
  BY <1>1, VisibleBlockInRange, IFrameInRange, SizesAreNaturals DEF Blocks
<1> HIDE DEF b
<1>4. /\ MayAdd(markers, b, TRUE) /\ AddSegmentMarker(b, FALSE, NoCaption)
      /\ UndoAddEvent(SegmentEvent(0, b, FALSE, NoCaption))
  BY <1>2 DEF b
<1>5. /\ Framed(markers)' /\ Len(markers') = Len(markers) + 1
      /\ active' \in 0 .. Len(markers') - 2
  BY <1>1, <1>3, <1>4, AddSegmentMarkerKeeps DEF Positioned
<1>6. Positioned'
  BY <1>1, <1>5 DEF Positioned, Framed, AddMarkerKey
<1>7. RingTyped'
  BY <1>1, <1>3, <1>4, SegmentEventIsTyped, AddedEventIsTyped DEF RestTyped
<1>8. JumpTyped'
  BY <1>1 DEF AddMarkerKey, RestTyped, JumpTyped
<1>9. RestTyped'
  BY <1>1, <1>7, <1>8, RestFollows DEF AddMarkerKey, RestTyped
<1> QED
  BY <1>6, <1>9, JoinIndInv

\* DeleteSegmentMarker keeps a valid index and drops the requested one.
LEMMA DeleteSegmentMarkerKeeps ==
  ASSUME Framed(markers), active \in 0 .. Len(markers) - 2,
         NEW i \in Interior(markers), DeleteSegmentMarker(i)
  PROVE  Positioned'
<1> DEFINE rest == RemoveAt(markers, i + 1)
           a    == IF active >= i THEN active - 1 ELSE active
<1>1. /\ Framed(markers)' /\ Len(markers') = Len(markers) - 1
      /\ Len(rest) = Len(markers) - 1
  BY RemoveKeepsFrame DEF DeleteSegmentMarker, Framed
<1>2. active' = IF a >= Len(rest) - 1 THEN Len(rest) - 2 ELSE a
  BY DEF DeleteSegmentMarker
<1>3. i \in 1 .. Len(markers) - 2 /\ Len(markers) \in Nat /\ 2 <= Len(markers')
  BY <1>1 DEF Interior, Nr, Framed
<1>4. active' \in 0 .. Len(markers') - 2
  BY <1>1, <1>2, <1>3
<1> QED
  BY <1>1, <1>4 DEF Positioned, DeleteSegmentMarker

LEMMA DeleteMarkerKeyKeeps == IndInv /\ DeleteMarkerKey => IndInv'
<1> SUFFICES ASSUME IndInv, DeleteMarkerKey PROVE IndInv'
  OBVIOUS
<1>1. RestTyped /\ Positioned
  BY EditingIsPositioned DEF DeleteMarkerKey, Editing
<1>2. PICK pos \in Positions :
        LET i == FindNearestSegmentMarker(markers, currentVisibleBlock(pos))
        IN  /\ i > 0 /\ DeleteSegmentMarker(i)
            /\ UndoAddEvent(SegmentEvent(BlockAt(markers, i), 0, markers[i + 1].sel,
                                         markers[i + 1].cap))
  BY Zenon DEF DeleteMarkerKey
<1> DEFINE i == FindNearestSegmentMarker(markers, currentVisibleBlock(pos))
<1>3. i \in Interior(markers) \cup {-1}
  BY <1>1, NearestMarkerInRange DEF Positioned
<1> HIDE DEF i
<1>4. /\ i > 0 /\ DeleteSegmentMarker(i)
      /\ UndoAddEvent(SegmentEvent(BlockAt(markers, i), 0, markers[i + 1].sel,
                                   markers[i + 1].cap))
  BY <1>2 DEF i
<1>5. i \in Interior(markers) /\ i \in 0 .. Len(markers) - 1
  BY <1>1, <1>3, <1>4 DEF Interior, Nr, Positioned, Framed
<1>6. Positioned'
  BY <1>1, <1>4, <1>5, DeleteSegmentMarkerKeeps DEF Positioned
<1>7. RingTyped'
  <2>1. /\ BlockAt(markers, i) \in Blocks /\ 0 \in Blocks
        /\ markers[i + 1].sel \in BOOLEAN
        /\ markers[i + 1].cap \in Captions \cup {NoCaption}
    BY <1>1, <1>5, MarkerAt, SizesAreNaturals DEF Positioned, Blocks
  <2> QED
    BY <1>1, <1>4, <2>1, SegmentEventIsTyped, AddedEventIsTyped DEF RestTyped
<1>8. JumpTyped'
  BY <1>1, JumpUnchanged DEF DeleteMarkerKey, RestTyped
<1>9. RestTyped'
  BY <1>1, <1>7, <1>8, RestFollows DEF DeleteMarkerKey, RestTyped
<1> QED
  BY <1>6, <1>9, JoinIndInv

\* MoveSegmentMarker changes the block of an interior marker.
LEMMA MoveSegmentMarkerKeeps ==
  ASSUME Framed(markers), NEW i \in Interior(markers), NEW b \in Blocks,
         MoveSegmentMarker(i, b)
  PROVE  Framed(markers)' /\ Len(markers') = Len(markers)
<1> DEFINE m == [markers[i + 1] EXCEPT !.block = b]
<1>1. /\ i + 1 \in 1 .. Len(markers) /\ i + 1 > 1 /\ i + 1 < Len(markers)
      /\ i \in 0 .. Len(markers) - 1
  BY DEF Interior, Nr, Framed
<1>2. m \in Marker
  BY <1>1, MarkerAt DEF Marker
<1>3. markers' = [markers EXCEPT ![i + 1] = m]
  BY DEF MoveSegmentMarker
<1> HIDE DEF m
<1> QED
  BY <1>1, <1>2, <1>3, ReplaceKeepsFrame DEF Framed

LEMMA MoveMarkerKeyKeeps == IndInv /\ MoveMarkerKey => IndInv'
<1> SUFFICES ASSUME IndInv, MoveMarkerKey PROVE IndInv'
  OBVIOUS
<1>1. RestTyped /\ Positioned
  BY EditingIsPositioned DEF MoveMarkerKey, Editing
<1>2. PICK pos \in Positions :
        LET at == currentVisibleBlock(pos)
            i  == FindNearestSegmentMarker(markers, at)
            b  == IFrame(at)
        IN  /\ i > 0 /\ MayMove(markers, i, b, TRUE) /\ MoveSegmentMarker(i, b)
            /\ UndoAddEvent(SegmentEvent(BlockAt(markers, i), b, FALSE, NoCaption))
            /\ active' = IF active + 1 = i THEN active + 1 ELSE active
  BY Zenon DEF MoveMarkerKey
<1> DEFINE i == FindNearestSegmentMarker(markers, currentVisibleBlock(pos))
           b == IFrame(currentVisibleBlock(pos))
<1>3. b \in Blocks
  BY <1>1, VisibleBlockInRange, IFrameInRange
<1> HIDE DEF i, b
<1>4. /\ i > 0 /\ MayMove(markers, i, b, TRUE) /\ MoveSegmentMarker(i, b)
      /\ UndoAddEvent(SegmentEvent(BlockAt(markers, i), b, FALSE, NoCaption))
      /\ active' = IF active + 1 = i THEN active + 1 ELSE active
  BY <1>2 DEF i, b
<1>5. i \in Interior(markers) /\ i \in 1 .. Len(markers) - 2
  BY <1>1, <1>4 DEF MayMove, Interior, Nr
<1>6. Framed(markers)' /\ Len(markers') = Len(markers)
  BY <1>1, <1>3, <1>4, <1>5, MoveSegmentMarkerKeeps DEF Positioned
<1>7. active' \in 0 .. Len(markers) - 2
  BY <1>1, <1>4, <1>5 DEF Positioned, Framed
<1>8. Positioned'
  BY <1>1, <1>6, <1>7 DEF Positioned, MoveMarkerKey
<1>9. RingTyped'
  <2>1. BlockAt(markers, i) \in Blocks
    <3>1. i \in 0 .. Len(markers) - 1
      BY <1>1, <1>5 DEF Positioned, Framed
    <3> QED
      BY <1>1, <3>1, MarkerAt DEF Positioned
  <2> QED
    BY <1>1, <1>3, <1>4, <2>1, SegmentEventIsTyped, AddedEventIsTyped DEF RestTyped
<1>10. JumpTyped'
  BY <1>1 DEF MoveMarkerKey, RestTyped, JumpTyped
<1>11. RestTyped'
  BY <1>1, <1>9, <1>10, RestFollows DEF MoveMarkerKey, RestTyped
<1> QED
  BY <1>8, <1>11, JoinIndInv

LEMMA SelectKeyKeeps == IndInv /\ SelectKey => IndInv'
<1> SUFFICES ASSUME IndInv, SelectKey PROVE IndInv'
  OBVIOUS
<1>1. RestTyped /\ Positioned
  BY EditingIsPositioned DEF SelectKey, Editing
<1> DEFINE seg == IF jumpSeg # NoJump THEN jumpSeg
                  ELSE IF jumpBlock # NoBlock THEN FindSegmentWithBlock(markers, jumpBlock)
                  ELSE active
           m == [markers[seg + 1] EXCEPT !.sel = ~@]
<1>2. seg \in 0 .. Len(markers) - 2
  <2>1. jumpBlock # NoBlock => FindSegmentWithBlock(markers, jumpBlock) \in 0 .. Len(markers) - 2
    <3> SUFFICES ASSUME jumpBlock # NoBlock
                 PROVE  FindSegmentWithBlock(markers, jumpBlock) \in 0 .. Len(markers) - 2
      OBVIOUS
    <3>1. jumpBlock \in Nat
      BY <1>1, SizesAreNaturals DEF RestTyped, JumpTyped, Blocks
    <3> QED
      BY <1>1, <3>1, FoundSegmentInRange DEF Positioned
  <2> QED
    BY <1>1, <2>1 DEF Positioned
<1>3. markers' = [markers EXCEPT ![seg + 1] = m]
  BY DEF SelectKey
<1> HIDE DEF seg
<1>4. seg \in 0 .. Len(markers) - 1 /\ seg + 1 \in 1 .. Len(markers)
  BY <1>1, <1>2 DEF Positioned, Framed
<1>5. m \in Marker /\ m.block = markers[seg + 1].block
  BY <1>1, <1>4, MarkerAt DEF Positioned, Marker
<1> HIDE DEF m
<1>6. Framed(markers') /\ Len(markers') = Len(markers)
  BY <1>1, <1>3, <1>4, <1>5, ReplaceKeepsFrame DEF Positioned
<1>7. Positioned'
  BY <1>1, <1>6 DEF Positioned, Framed, SelectKey, jumpVars
<1>8. RestTyped'
  BY <1>1, OnlyJumpsChange, JumpUnchanged DEF SelectKey, jumpVars, RestTyped
<1> QED
  BY <1>7, <1>8, JoinIndInv

LEMMA CaptionKeyKeeps == IndInv /\ CaptionKey => IndInv'
<1> SUFFICES ASSUME IndInv, CaptionKey PROVE IndInv'
  OBVIOUS
<1>1. RestTyped /\ Positioned
  BY EditingIsPositioned DEF CaptionKey, Editing
<1> DEFINE asked == IF jumpSeg # NoJump THEN jumpSeg ELSE active
           seg   == IF asked >= Nr(markers) - 1 THEN Nr(markers) - 2 ELSE asked
           m     == markers[seg + 1]
<1>2. seg \in 0 .. Len(markers) - 1 /\ seg + 1 \in 1 .. Len(markers)
  BY <1>1 DEF Positioned, Framed, Nr
<1>3. PICK new \in Captions \ heap :
        \/ heap' = heap \cup {new} /\ UNCHANGED <<markers, undoVars>>
        \/ \E text \in BOOLEAN :
             /\ UndoAddEvent(SegmentEvent(m.block, m.block, m.sel, m.cap))
             /\ markers' = [markers EXCEPT ![seg + 1].cap = IF text THEN new ELSE NoCaption]
             /\ heap' = (heap \cup (IF text THEN {new} ELSE {})) \ Overwritten
  BY Zenon DEF CaptionKey
<1> HIDE DEF seg
<1>4. m \in Marker /\ m.block \in Blocks /\ m.sel \in BOOLEAN
      /\ m.cap \in Captions \cup {NoCaption}
  BY <1>1, <1>2, MarkerAt DEF Positioned, BlockAt
<1>5. heap' \subseteq Captions
  BY <1>1, <1>3 DEF RestTyped
<1>6. Framed(markers)' /\ Len(markers') = Len(markers) /\ RingTyped'
  <2>1. CASE heap' = heap \cup {new} /\ UNCHANGED <<markers, undoVars>>
    BY <1>1, <2>1, RingUnchanged DEF Positioned, RestTyped, Framed
  <2>2. CASE \E text \in BOOLEAN :
               /\ UndoAddEvent(SegmentEvent(m.block, m.block, m.sel, m.cap))
               /\ markers' = [markers EXCEPT ![seg + 1].cap = IF text THEN new ELSE NoCaption]
    <3>1. PICK text \in BOOLEAN :
            markers' = [markers EXCEPT ![seg + 1].cap = IF text THEN new ELSE NoCaption]
      BY <2>2
    <3> DEFINE n == [m EXCEPT !.cap = IF text THEN new ELSE NoCaption]
    <3>2. n \in Marker /\ n.block = m.block
      BY <1>3, <1>4 DEF Marker
    <3>3. markers' = [markers EXCEPT ![seg + 1] = n]
      BY <3>1
    <3> HIDE DEF n
    <3>4. Framed(markers') /\ Len(markers') = Len(markers)
      BY <1>1, <1>2, <3>2, <3>3, ReplaceKeepsFrame DEF Positioned
    <3>5. RingTyped'
      BY <1>1, <1>4, <2>2, SegmentEventIsTyped, AddedEventIsTyped DEF RestTyped
    <3> QED
      BY <3>4, <3>5 DEF Framed
  <2> QED
    BY <1>3, <2>1, <2>2
<1>7. Positioned'
  BY <1>1, <1>6 DEF Positioned, Framed, CaptionKey, jumpVars
<1>8. RestTyped'
  BY <1>1, <1>5, <1>6, RestFollows, JumpUnchanged DEF CaptionKey, RestTyped, jumpVars
<1> QED
  BY <1>7, <1>8, JoinIndInv

-----------------------------------------------------------------------------
(* Bookmark mode.                                                          *)

LEMMA NearestBookmarkInRange ==
  ASSUME NEW bm \in Seq(Blocks), NEW b
  PROVE  FindNearestBookmark(bm, b) \in (0 .. Len(bm) - 1) \cup {-1}
<1> DEFINE D(i) == Distance(bm[i + 1], b)
           I == {i \in 0 .. Len(bm) - 1 : \A j \in 0 .. Len(bm) - 1 : D(i) <= D(j)}
<1>1. I \subseteq Nat /\ I \subseteq 0 .. Len(bm) - 1
  OBVIOUS
<1>2. FindNearestBookmark(bm, b) = IF I = {} THEN -1 ELSE Min(I)
  BY DEF FindNearestBookmark
<1> HIDE DEF I
<1>3. I # {} => Min(I) \in I
  BY <1>1, MinIsLeast
<1> QED
  BY <1>1, <1>2, <1>3

LEMMA BookmarkEventIsTyped ==
  ASSUME NEW prev \in Blocks \cup {NoBlock}, NEW new \in Blocks \cup {NoBlock}
  PROVE  BookmarkEvent(prev, new) \in Event /\ ~BookmarkEvent(prev, new).seg
BY DEF BookmarkEvent, Event

LEMMA CodedBlocks ==
  /\ 0 \in Blocks
  /\ \A b \in Blocks : Encoded(b) \in Blocks \cup {NoBlock}
  /\ \A b \in Blocks \cup {NoBlock} : Decoded(b) \in Blocks
BY SizesAreNaturals DEF Encoded, Decoded, Blocks, NoBlock

\* The three coloured keys: the list is the old one, the changed one or empty.
LEMMA BookmarkKeysKeep == IndInv /\ BookmarkKey => IndInv'
<1> SUFFICES ASSUME IndInv, BookmarkKey PROVE IndInv'
  OBVIOUS
<1>1. RestTyped /\ Positioned
  BY EditingIsPositioned
     DEF BookmarkKey, AddBookmarkKey, DeleteBookmarkKey, MoveBookmarkKey, Editing
<1>2. /\ UNCHANGED <<state, markers, active, bookmarkMode, jumpVars, import>>
      /\ \E bm \in Seq(Blocks), e \in Event, infOk \in BOOLEAN :
           /\ ~e.seg
           /\ bookmarks' = Stored(bm, infOk)
           /\ IF infOk THEN UndoAddEvent(e) ELSE UNCHANGED undoVars
           /\ heap' = IF infOk THEN heap \ Overwritten ELSE heap
  <2>0. bookmarks \in Seq(Blocks) /\ \A pos \in Positions : currentVisibleBlock(pos) \in Blocks
    BY <1>1, VisibleBlockInRange DEF RestTyped
  <2>1. CASE AddBookmarkKey
    <3>1. PICK pos \in Positions, infOk \in BOOLEAN :
            LET b == currentVisibleBlock(pos)
            IN  /\ bookmarks' = Stored(WithBookmark(bookmarks, b), infOk)
                /\ IF infOk THEN UndoAddEvent(BookmarkEvent(0, Encoded(b))) ELSE UNCHANGED undoVars
                /\ heap' = IF infOk THEN heap \ Overwritten ELSE heap
      BY <2>1, Zenon DEF AddBookmarkKey
    <3> DEFINE b == currentVisibleBlock(pos)
    <3>2. /\ WithBookmark(bookmarks, b) \in Seq(Blocks)
          /\ BookmarkEvent(0, Encoded(b)) \in Event /\ ~BookmarkEvent(0, Encoded(b)).seg
      <4>1. b \in Blocks
        BY <2>0
      <4> HIDE DEF b
      <4>2. Encoded(b) \in Blocks \cup {NoBlock} /\ 0 \in Blocks \cup {NoBlock}
        BY <4>1, CodedBlocks
      <4> QED
        BY <2>0, <4>1, <4>2, BookmarksStayTyped, BookmarkEventIsTyped
    <3>3. UNCHANGED <<state, markers, active, bookmarkMode, jumpVars, import>>
      BY <2>1 DEF AddBookmarkKey
    <3> QED
      BY <3>1, <3>2, <3>3, Zenon
  <2>2. CASE DeleteBookmarkKey
    <3>1. PICK pos \in Positions, infOk \in BOOLEAN :
            LET i == FindNearestBookmark(bookmarks, currentVisibleBlock(pos))
            IN  /\ i >= 0
                /\ bookmarks' = Stored(RemoveAt(bookmarks, i + 1), infOk)
                /\ IF infOk THEN UndoAddEvent(BookmarkEvent(Encoded(bookmarks[i + 1]), 0))
                   ELSE UNCHANGED undoVars
                /\ heap' = IF infOk THEN heap \ Overwritten ELSE heap
      BY <2>2, Zenon DEF DeleteBookmarkKey
    <3> DEFINE i == FindNearestBookmark(bookmarks, currentVisibleBlock(pos))
    <3>2. i \in 0 .. Len(bookmarks) - 1
      BY <2>0, <3>1, NearestBookmarkInRange
    <3>3. /\ RemoveAt(bookmarks, i + 1) \in Seq(Blocks)
          /\ BookmarkEvent(Encoded(bookmarks[i + 1]), 0) \in Event
          /\ ~BookmarkEvent(Encoded(bookmarks[i + 1]), 0).seg
      <4> HIDE DEF i
      <4>1. bookmarks[i + 1] \in Blocks
        BY <2>0, <3>2
      <4>2. Encoded(bookmarks[i + 1]) \in Blocks \cup {NoBlock} /\ 0 \in Blocks \cup {NoBlock}
        BY <4>1, CodedBlocks
      <4> QED
        BY <2>0, <3>2, <4>1, <4>2, BookmarksStayTyped, BookmarkEventIsTyped
    <3>4. UNCHANGED <<state, markers, active, bookmarkMode, jumpVars, import>>
      BY <2>2 DEF DeleteBookmarkKey
    <3> QED
      BY <3>1, <3>3, <3>4, Zenon
  <2>3. CASE MoveBookmarkKey
    <3>1. PICK pos \in Positions, infOk \in BOOLEAN :
            LET b == currentVisibleBlock(pos)
                i == FindNearestBookmark(bookmarks, b)
            IN  /\ i >= 0
                /\ bookmarks' = Stored(MovedBookmark(bookmarks, i, b), infOk)
                /\ IF infOk
                   THEN UndoAddEvent(BookmarkEvent(Encoded(bookmarks[i + 1]), Encoded(b)))
                   ELSE UNCHANGED undoVars
                /\ heap' = IF infOk THEN heap \ Overwritten ELSE heap
      BY <2>3, Zenon DEF MoveBookmarkKey
    <3> DEFINE b == currentVisibleBlock(pos)
               i == FindNearestBookmark(bookmarks, b)
               e == BookmarkEvent(Encoded(bookmarks[i + 1]), Encoded(b))
    <3>2. b \in Blocks /\ i \in 0 .. Len(bookmarks) - 1
      BY <2>0, <3>1, NearestBookmarkInRange
    <3>3. MovedBookmark(bookmarks, i, b) \in Seq(Blocks) /\ e \in Event /\ ~e.seg
      <4> HIDE DEF b, i
      <4>1. bookmarks[i + 1] \in Blocks
        BY <2>0, <3>2
      <4>2. Encoded(bookmarks[i + 1]) \in Blocks \cup {NoBlock} /\ Encoded(b) \in Blocks \cup {NoBlock}
        BY <3>2, <4>1, CodedBlocks
      <4> QED
        BY <2>0, <3>2, <4>2, BookmarksStayTyped, BookmarkEventIsTyped
    <3>4. UNCHANGED <<state, markers, active, bookmarkMode, jumpVars, import>>
      BY <2>3 DEF MoveBookmarkKey
    <3> QED
      BY <3>1, <3>3, <3>4, Zenon
  <2> QED
    BY <2>1, <2>2, <2>3 DEF BookmarkKey
<1>3. Positioned'
  BY <1>1, <1>2, PositionUnchanged DEF jumpVars
<1>4. PICK bm \in Seq(Blocks), e \in Event, infOk \in BOOLEAN :
           /\ ~e.seg
           /\ bookmarks' = Stored(bm, infOk)
           /\ IF infOk THEN UndoAddEvent(e) ELSE UNCHANGED undoVars
           /\ heap' = IF infOk THEN heap \ Overwritten ELSE heap
  BY <1>2
<1>5. bookmarks' \in Seq(Blocks) /\ heap' \subseteq Captions
  BY <1>1, <1>4 DEF Stored, RestTyped
<1>6. RingTyped'
  BY <1>1, <1>4, AddedEventIsTyped, RingUnchanged DEF RestTyped
<1>7. JumpTyped'
  BY <1>1, <1>2, JumpUnchanged DEF RestTyped, jumpVars
<1>8. RestTyped'
  BY <1>1, <1>2, <1>5, <1>6, <1>7, RestFollows
<1> QED
  BY <1>3, <1>8, JoinIndInv

LEMMA ToggleBookmarkModeKeeps == IndInv /\ ToggleBookmarkMode => IndInv'
<1> SUFFICES ASSUME IndInv, ToggleBookmarkMode PROVE IndInv'
  OBVIOUS
<1>1. RestTyped /\ Positioned
  BY EditingIsPositioned DEF ToggleBookmarkMode
<1>2. Positioned'
  BY <1>1, PositionUnchanged DEF ToggleBookmarkMode, jumpVars
<1>3. RingTyped' /\ JumpTyped'
  BY <1>1, RingUnchanged, JumpUnchanged DEF ToggleBookmarkMode, jumpVars, RestTyped
<1>4. bookmarkMode' \in BOOLEAN
  BY Zenon DEF ToggleBookmarkMode
<1>5. RestTyped'
  BY <1>1, <1>3, <1>4 DEF ToggleBookmarkMode, RestTyped, ImportWhileActive
<1> QED
  BY <1>2, <1>5, JoinIndInv

-----------------------------------------------------------------------------
(* Recall.                                                                 *)

\* What every branch of UndoLastAction shows about the lists.
ListsTyped == /\ Positioned' /\ bookmarks' \in Seq(Blocks) /\ heap' \subseteq heap

LEMMA UndoDeletedMarkerKeeps ==
  ASSUME Positioned, RestTyped, NEW e \in Event, e.prev \in Blocks, UndoDeletedMarker(e)
  PROVE  ListsTyped
<1>1. bookmarks' \in Seq(Blocks) /\ heap' \subseteq heap /\ jumpSeg' = jumpSeg
  BY DEF RestTyped, UndoDeletedMarker
<1>2. CASE MayAdd(markers, e.prev, FALSE)
  <2>1. e.sel \in BOOLEAN /\ e.cap \in Captions \cup {NoCaption}
    BY DEF Event
  <2>2. AddSegmentMarker(e.prev, e.sel, e.cap)
    BY <1>2 DEF UndoDeletedMarker
  <2>3. /\ Framed(markers)' /\ Len(markers') = Len(markers) + 1
        /\ active' \in 0 .. Len(markers') - 2
    BY <1>2, <2>1, <2>2, AddSegmentMarkerKeeps DEF Positioned
  <2> QED
    BY <1>1, <2>3 DEF ListsTyped, Positioned, Framed
<1>3. CASE ~MayAdd(markers, e.prev, FALSE)
  BY <1>1, <1>3, PositionUnchanged DEF UndoDeletedMarker, ListsTyped
<1> QED
  BY <1>2, <1>3

LEMMA UndoAtMarkerKeeps ==
  ASSUME Positioned, RestTyped, NEW e \in Event, e.prev \in Blocks,
         NEW i \in 0 .. Len(markers) - 2, UndoAtMarker(e, i)
  PROVE  ListsTyped
<1>1. bookmarks' \in Seq(Blocks)
  BY DEF RestTyped, UndoAtMarker
<1>2. CASE /\ heap' = heap \ {markers[i + 1].cap}
           /\ markers' = [markers EXCEPT ![i + 1].cap = e.cap]
           /\ UNCHANGED <<active, bookmarks, jumpSeg>>
  <2> DEFINE m == [markers[i + 1] EXCEPT !.cap = e.cap]
  <2>1. i \in 0 .. Len(markers) - 1 /\ i + 1 \in 1 .. Len(markers)
    BY DEF Positioned, Framed
  <2>2. m \in Marker /\ m.block = markers[i + 1].block
    BY <2>1, MarkerAt DEF Positioned, Marker, Event
  <2>3. markers' = [markers EXCEPT ![i + 1] = m]
    BY <1>2
  <2> HIDE DEF m
  <2>4. Framed(markers') /\ Len(markers') = Len(markers)
    BY <2>1, <2>2, <2>3, ReplaceKeepsFrame DEF Positioned
  <2> QED
    BY <1>1, <1>2, <2>4 DEF ListsTyped, Positioned, Framed
<1>3. CASE /\ IF MayMove(markers, i, e.prev, FALSE) THEN MoveSegmentMarker(i, e.prev)
              ELSE UNCHANGED markers
           /\ UNCHANGED <<active, bookmarks, jumpSeg, heap>>
  <2>1. CASE MayMove(markers, i, e.prev, FALSE)
    <3>1. i \in Interior(markers)
      BY <2>1 DEF MayMove
    <3>2. Framed(markers)' /\ Len(markers') = Len(markers)
      BY <1>3, <2>1, <3>1, MoveSegmentMarkerKeeps DEF Positioned
    <3> QED
      BY <1>1, <1>3, <3>2 DEF ListsTyped, Positioned
  <2>2. CASE ~MayMove(markers, i, e.prev, FALSE)
    BY <1>1, <1>3, <2>2, PositionUnchanged DEF ListsTyped
  <2> QED
    BY <2>1, <2>2
<1>4. CASE IF i \in Interior(markers)
           THEN DeleteSegmentMarker(i) /\ heap' = heap \ {markers[i + 1].cap}
           ELSE UNCHANGED <<markers, active, jumpSeg, heap>>
  <2>1. CASE i \in Interior(markers)
    BY <1>1, <1>4, <2>1, DeleteSegmentMarkerKeeps DEF ListsTyped, Positioned
  <2>2. CASE i \notin Interior(markers)
    BY <1>1, <1>4, <2>2, PositionUnchanged DEF ListsTyped
  <2> QED
    BY <2>1, <2>2
<1> QED
  BY <1>2, <1>3, <1>4 DEF UndoAtMarker

LEMMA UndoBookmarkKeeps ==
  ASSUME Positioned, RestTyped, NEW e \in Event, UndoBookmark(e)
  PROVE  ListsTyped
<1> DEFINE p  == Decoded(e.prev)
           at == {i \in 0 .. Len(bookmarks) - 1 : bookmarks[i + 1] = Decoded(e.new)}
           i  == Min(at)
<1>1. bookmarks \in Seq(Blocks) /\ p \in Blocks
  BY CodedBlocks DEF RestTyped, Event
<1>2. at # {} => i \in 0 .. Len(bookmarks) - 1
  <2>1. at \subseteq Nat /\ at \subseteq 0 .. Len(bookmarks) - 1
    OBVIOUS
  <2> HIDE DEF at
  <2>2. at # {} => Min(at) \in at
    BY <2>1, MinIsLeast
  <2> QED
    BY <2>1, <2>2
<1>3. PICK infOk \in BOOLEAN :
        bookmarks' =
             IF e.new = 0
             THEN IF MayAddBookmark(bookmarks, p, FALSE)
                  THEN Stored(WithBookmark(bookmarks, p), infOk)
                  ELSE bookmarks
             ELSE IF at = {} THEN bookmarks
             ELSE IF e.prev = 0 THEN Stored(RemoveAt(bookmarks, i + 1), infOk)
             ELSE IF MayMoveBookmark(bookmarks, i, p, FALSE)
                  THEN Stored(MovedBookmark(bookmarks, i, p), infOk)
                  ELSE bookmarks
  BY Zenon DEF UndoBookmark
<1> HIDE DEF p, at, i
<1>4. /\ WithBookmark(bookmarks, p) \in Seq(Blocks)
      /\ at # {} => /\ RemoveAt(bookmarks, i + 1) \in Seq(Blocks)
                    /\ MovedBookmark(bookmarks, i, p) \in Seq(Blocks)
  BY <1>1, <1>2, BookmarksStayTyped
<1>5. \A l \in Seq(Blocks) : Stored(l, infOk) \in Seq(Blocks)
  BY DEF Stored
<1>6. bookmarks' \in Seq(Blocks)
  BY <1>1, <1>3, <1>4, <1>5, Zenon
<1>7. UNCHANGED <<markers, active, jumpSeg, heap>>
  BY DEF UndoBookmark
<1> QED
  BY <1>6, <1>7, PositionUnchanged DEF ListsTyped

LEMMA UndoKeyKeeps == IndInv /\ UndoKey => IndInv'
<1> SUFFICES ASSUME IndInv, UndoKey PROVE IndInv'
  OBVIOUS
<1>1. RestTyped /\ Positioned
  BY EditingIsPositioned DEF UndoKey, Editing
<1> DEFINE e == undo[undoLast]
           i == EventMarker(markers, e)
<1>2. /\ e \in Event /\ e.seg => e.prev \in Blocks
      /\ i \in (0 .. Len(markers) - 2) \cup {-1}
  BY <1>1, EventMarkerInRange DEF RestTyped, RingTyped, EventsInRange, Positioned
<1>3. /\ IF ~e.seg THEN UndoBookmark(e)
         ELSE IF e.new = 0 /\ e.prev # 0 THEN UndoDeletedMarker(e)
         ELSE IF i >= 0 THEN UndoAtMarker(e, i)
         ELSE UNCHANGED <<markers, active, bookmarks, jumpSeg, heap>>
      /\ Popped
      /\ UNCHANGED <<state, bookmarkMode, jumpBlock, jumpTimer, jumpDone, import>>
  BY Zenon DEF UndoKey
<1> HIDE DEF e, i
<1>4. e \in Event
  BY <1>1 DEF RestTyped, RingTyped, e
<1>5. ListsTyped
  <2>1. CASE ~e.seg
    BY <1>1, <1>3, <1>4, <2>1, UndoBookmarkKeeps
  <2>2. CASE e.seg /\ UndoDeletedMarker(e)
    BY <1>1, <1>2, <1>4, <2>2, UndoDeletedMarkerKeeps
  <2>3. CASE e.seg /\ i >= 0 /\ UndoAtMarker(e, i)
    <3>1. i \in 0 .. Len(markers) - 2
      BY <1>2, <2>3
    <3> QED
      BY <1>1, <1>2, <1>4, <2>3, <3>1, UndoAtMarkerKeeps
  <2>4. CASE UNCHANGED <<markers, active, bookmarks, jumpSeg, heap>>
    BY <1>1, <2>4, PositionUnchanged DEF ListsTyped, RestTyped
  <2> QED
    BY <1>3, <2>1, <2>2, <2>3, <2>4
<1>6. RingTyped' /\ JumpTyped'
  BY <1>1, <1>3, PoppedRingIsTyped, JumpUnchanged DEF RestTyped
<1>7. RestTyped'
  BY <1>1, <1>3, <1>5, <1>6, RestFollows DEF ListsTyped, RestTyped
<1> QED
  BY <1>5, <1>7, JoinIndInv DEF ListsTyped

-----------------------------------------------------------------------------
(* The menu.                                                               *)

\* What an action of the menu has to show; it may leave the menu.
LEMMA MenuRestFollows ==
  ASSUME RestTyped, state' \in States, import' = import, import = NoJump,
         bookmarks' \in Seq(Blocks), RingTyped', heap' \subseteq Captions,
         UNCHANGED <<bookmarkMode, jumpBlock, jumpTimer, jumpDone>>
  PROVE  RestTyped'
<1>1. JumpTyped'
  BY JumpUnchanged DEF RestTyped
<1> QED
  BY <1>1 DEF RestTyped, ImportWhileActive

\* The actions that change neither the marker list nor an index.
LEMMA MenuStepsKeep ==
  IndInv /\ (OpenMenu \/ CloseMenu \/ LeaveSubMenu \/ MenuClearBookmarks \/ MenuExport)
    => IndInv'
<1> SUFFICES ASSUME IndInv,
                    OpenMenu \/ CloseMenu \/ LeaveSubMenu \/ MenuClearBookmarks \/ MenuExport
             PROVE  IndInv'
  OBVIOUS
<1>1. RestTyped /\ Positioned
  BY EditingIsPositioned
     DEF OpenMenu, Editing, CloseMenu, LeaveSubMenu, MenuClearBookmarks, MenuExport
<1>2. import = NoJump
  BY <1>1 DEF OpenMenu, Editing, CloseMenu, LeaveSubMenu, MenuClearBookmarks, MenuExport,
     RestTyped, ImportWhileActive
<1>3. /\ UNCHANGED <<markers, active, bookmarkMode, jumpVars, import>>
      /\ state' \in States
      /\ UNCHANGED undoVars \/ UndoResetStack
      /\ heap' \subseteq heap
  BY DEF OpenMenu, CloseMenu, LeaveSubMenu, MenuClearBookmarks, MenuExport, States
<1>4. bookmarks' \in Seq(Blocks)
  <2>1. CASE MenuExport
    <3>1. PICK infOk \in BOOLEAN :
            LET n == IF Nr(markers) - 2 < MaxBookmarks THEN Nr(markers) - 2 ELSE MaxBookmarks
            IN  bookmarks' = Stored([k \in 1 .. n |-> BlockAt(markers, k)], infOk)
      BY <2>1, Zenon DEF MenuExport
    <3> DEFINE n == IF Nr(markers) - 2 < MaxBookmarks THEN Nr(markers) - 2 ELSE MaxBookmarks
    <3>2. n \in Nat /\ n <= Len(markers) - 2
      BY <1>1, SizesAreNaturals DEF Nr, Positioned, Framed
    <3>3. \A k \in 1 .. n : BlockAt(markers, k) \in Blocks
      <4> HIDE DEF n
      <4>1. \A k \in 1 .. n : k \in 0 .. Len(markers) - 1
        BY <1>1, <3>2 DEF Positioned, Framed
      <4> QED
        BY <1>1, <4>1, MarkerAt DEF Positioned
    <3> HIDE DEF n
    <3>4. [k \in 1 .. n |-> BlockAt(markers, k)] \in Seq(Blocks)
      BY <3>2, <3>3
    <3> QED
      BY <3>1, <3>4 DEF Stored, n
  <2>2. CASE MenuClearBookmarks
    BY <2>2 DEF MenuClearBookmarks
  <2>3. CASE OpenMenu \/ CloseMenu \/ LeaveSubMenu
    BY <1>1, <2>3 DEF OpenMenu, CloseMenu, LeaveSubMenu, RestTyped
  <2> QED
    BY <2>1, <2>2, <2>3
<1>5. RingTyped'
  BY <1>1, <1>3, RingUnchanged, ResetRingIsTyped DEF RestTyped
<1>6. Positioned'
  BY <1>1, <1>3, PositionUnchanged DEF jumpVars
<1>7. RestTyped'
  BY <1>1, <1>2, <1>3, <1>4, <1>5, MenuRestFollows DEF jumpVars, RestTyped
<1> QED
  BY <1>6, <1>7, JoinIndInv

LEMMA MenuSelectKeeps == IndInv /\ MenuSelect => IndInv'
<1> SUFFICES ASSUME IndInv, MenuSelect PROVE IndInv'
  OBVIOUS
<1>1. RestTyped /\ Positioned /\ import = NoJump
  <2>1. RestTyped /\ Positioned
    BY EditingIsPositioned DEF MenuSelect
  <2> QED
    BY <2>1 DEF MenuSelect, RestTyped, ImportWhileActive
<1>2. PICK S : markers' = [k \in DOMAIN markers |->
                             IF k < Nr(markers) THEN [markers[k] EXCEPT !.sel = (k \in S)]
                             ELSE markers[k]]
  BY Zenon DEF MenuSelect
<1>3. Framed(markers)' /\ Len(markers') = Len(markers)
  BY <1>1, <1>2, SelectionKeepsFrame DEF Positioned, Framed
<1>4. Positioned'
  BY <1>1, <1>3 DEF Positioned, MenuSelect, jumpVars
<1>5. RingTyped'
  BY <1>1, RingUnchanged DEF MenuSelect, RestTyped
<1>6. RestTyped'
  BY <1>1, <1>5, MenuRestFollows DEF MenuSelect, RestTyped, jumpVars
<1> QED
  BY <1>4, <1>6, JoinIndInv

LEMMA MenuCopySegmentsKeeps == IndInv /\ MenuCopySegments => IndInv'
<1> SUFFICES ASSUME IndInv, MenuCopySegments PROVE IndInv'
  OBVIOUS
<1>1. RestTyped /\ Positioned /\ import = NoJump
  <2>1. RestTyped /\ Positioned
    BY EditingIsPositioned DEF MenuCopySegments
  <2> QED
    BY <2>1 DEF MenuCopySegments, RestTyped, ImportWhileActive
<1> DEFINE m == [markers[active + 1] EXCEPT !.sel = TRUE]
<1>2. active \in 0 .. Len(markers) - 1 /\ active + 1 \in 1 .. Len(markers)
  BY <1>1 DEF Positioned, Framed
<1>3. m \in Marker /\ m.block = markers[active + 1].block
  BY <1>1, <1>2, MarkerAt DEF Positioned, Marker
<1>4. markers' = markers \/ markers' = [markers EXCEPT ![active + 1] = m]
  BY DEF MenuCopySegments
<1> HIDE DEF m
<1>5. Framed(markers') /\ Len(markers') = Len(markers)
  BY <1>1, <1>2, <1>3, <1>4, ReplaceKeepsFrame DEF Positioned
<1>6. Positioned'
  BY <1>1, <1>5 DEF Positioned, Framed, MenuCopySegments, jumpVars
<1>7. RingTyped'
  BY <1>1, RingUnchanged DEF MenuCopySegments, RestTyped
<1>8. RestTyped'
  BY <1>1, <1>7, MenuRestFollows DEF MenuCopySegments, RestTyped, jumpVars, States
<1> QED
  BY <1>6, <1>8, JoinIndInv

\* DeleteAllSegmentMarkers, which the menu calls twice.
LEMMA DeleteAllKeeps ==
  ASSUME Positioned, RestTyped, DeleteAllSegmentMarkers
  PROVE  Positioned' /\ RingTyped' /\ heap' \subseteq Captions
<1>1. active' = 0 /\ jumpSeg' = NoJump
  BY DEF DeleteAllSegmentMarkers
<1>2. CASE Nr(markers) > 2
  <2>1. markers' = EndsOf(markers) /\ UndoResetStack /\ heap' \subseteq heap
    BY <1>2 DEF DeleteAllSegmentMarkers
  <2>2. Framed(markers')
    BY <2>1, EndsAreFramed DEF Positioned
  <2> QED
    BY <1>1, <2>1, <2>2, ResetRingIsTyped DEF Positioned, Framed, RestTyped
<1>3. CASE ~(Nr(markers) > 2)
  <2> DEFINE m == [markers[1] EXCEPT !.sel = FALSE]
  <2>1. markers' = [markers EXCEPT ![1] = m] /\ UNCHANGED <<undoVars, heap>>
    BY <1>3 DEF DeleteAllSegmentMarkers
  <2>2. 1 \in 1 .. Len(markers) /\ m \in Marker /\ m.block = markers[1].block
    <3>1. 1 \in 1 .. Len(markers) /\ markers[1] \in Marker
      BY DEF Positioned, Framed
    <3> QED
      BY <3>1 DEF Marker
  <2> HIDE DEF m
  <2>3. Framed(markers')
    BY <2>1, <2>2, ReplaceKeepsFrame DEF Positioned
  <2> QED
    BY <1>1, <2>1, <2>3, RingUnchanged DEF Positioned, Framed, RestTyped
<1> QED
  BY <1>2, <1>3

LEMMA MenuClearMarkersKeeps == IndInv /\ MenuClearMarkers => IndInv'
<1> SUFFICES ASSUME IndInv, MenuClearMarkers PROVE IndInv'
  OBVIOUS
<1>1. RestTyped /\ Positioned /\ import = NoJump
  <2>1. RestTyped /\ Positioned
    BY EditingIsPositioned DEF MenuClearMarkers
  <2> QED
    BY <2>1 DEF MenuClearMarkers, RestTyped, ImportWhileActive
<1>2. Positioned' /\ RingTyped' /\ heap' \subseteq Captions
  BY <1>1, DeleteAllKeeps DEF MenuClearMarkers
<1>3. RestTyped'
  BY <1>1, <1>2, MenuRestFollows DEF MenuClearMarkers, RestTyped, States
<1> QED
  BY <1>2, <1>3, JoinIndInv

LEMMA MenuImportKeeps == IndInv /\ MenuImport => IndInv'
<1> SUFFICES ASSUME IndInv, MenuImport PROVE IndInv'
  OBVIOUS
<1>1. RestTyped /\ Positioned
  BY EditingIsPositioned DEF MenuImport
<1>2. Positioned' /\ RingTyped' /\ heap' \subseteq Captions
  BY <1>1, DeleteAllKeeps DEF MenuImport
<1>3. JumpTyped'
  BY <1>1, JumpUnchanged DEF MenuImport, RestTyped
<1>4. RestTyped'
  BY <1>1, <1>2, <1>3 DEF MenuImport, RestTyped, States, ImportWhileActive
<1> QED
  BY <1>2, <1>4, JoinIndInv

LEMMA ImportStepKeeps == IndInv /\ ImportStep => IndInv'
<1> SUFFICES ASSUME IndInv, ImportStep PROVE IndInv'
  OBVIOUS
<1>1. RestTyped
  BY SplitIndInv
<1>2. state = "ActiveOSD" /\ Positioned /\ import \in Nat
  <2>1. state = "ActiveOSD"
    BY <1>1 DEF ImportStep, RestTyped, ImportWhileActive
  <2> QED
    BY <1>1, <2>1, SplitIndInv DEF Loaded, RestTyped, ImportStep
<1> DEFINE asked == bookmarks[import + 1]
           b     == IFrame(asked)
<1>3. b \in Blocks
  <2>1. bookmarks \in Seq(Blocks) /\ import < Len(bookmarks)
    BY <1>1, <1>2, SizesAreNaturals DEF ImportStep, ImportLimit, RestTyped
  <2>2. asked \in Blocks
    BY <1>2, <2>1
  <2> HIDE DEF asked
  <2> QED
    BY <2>2, IFrameInRange
<1>4. \/ MayAdd(markers, b, FALSE) /\ AddSegmentMarker(b, FALSE, NoCaption)
      \/ UNCHANGED <<markers, active>>
  BY Zenon DEF ImportStep
<1> HIDE DEF b
<1>5. /\ Framed(markers)' /\ Len(markers') >= Len(markers)
      /\ active' \in 0 .. Len(markers') - 2
  <2>1. CASE UNCHANGED <<markers, active>>
    BY <1>2, <2>1 DEF Positioned, Framed
  <2>2. CASE MayAdd(markers, b, FALSE) /\ AddSegmentMarker(b, FALSE, NoCaption)
    <3>1. Framed(markers) /\ active \in 0 .. Len(markers) - 2 /\ Len(markers) \in Nat
      BY <1>2 DEF Positioned, Framed
    <3>2. FALSE \in BOOLEAN /\ NoCaption \in Captions \cup {NoCaption}
      OBVIOUS
    <3>3. /\ Framed(markers)' /\ Len(markers') = Len(markers) + 1
          /\ active' \in 0 .. Len(markers') - 2
      BY <1>3, <2>2, <3>1, <3>2, AddSegmentMarkerKeeps
    <3> QED
      BY <3>1, <3>3
  <2> QED
    BY <1>4, <2>1, <2>2
<1>6. Positioned'
  BY <1>2, <1>5 DEF Positioned, Framed, ImportStep, jumpVars
<1>7. RingTyped' /\ JumpTyped'
  BY <1>1, RingUnchanged, JumpUnchanged DEF ImportStep, RestTyped, jumpVars
<1>8. RestTyped'
  BY <1>1, <1>2, <1>7 DEF ImportStep, RestTyped, ImportWhileActive
<1> QED
  BY <1>6, <1>8, JoinIndInv

LEMMA ImportEndKeeps == IndInv /\ ImportEnd => IndInv'
<1> SUFFICES ASSUME IndInv, ImportEnd PROVE IndInv'
  OBVIOUS
<1>1. RestTyped
  BY SplitIndInv
<1>2. Positioned
  BY <1>1, SplitIndInv DEF Loaded, RestTyped, ImportEnd, ImportWhileActive
<1>3. /\ active' \in 0 .. Len(markers) - 2
      /\ jumpSeg' \in (0 .. Len(markers) - 2) \cup {NoJump}
      /\ JumpTyped'
  BY <1>1, <1>2, SetCurrentSegmentKeeps DEF ImportEnd, Positioned, RestTyped, JumpTyped
<1>4. Positioned'
  BY <1>2, <1>3 DEF Positioned, Framed, ImportEnd
<1>5. RingTyped'
  BY <1>1, RingUnchanged DEF ImportEnd, RestTyped
<1>6. RestTyped'
  BY <1>1, <1>3, <1>5 DEF ImportEnd, RestTyped, ImportWhileActive
<1> QED
  BY <1>4, <1>6, JoinIndInv

-----------------------------------------------------------------------------
(* The theorems.                                                           *)

LEMMA StepKeepsIndInv == IndInv /\ [Next]_vars => IndInv'
<1> SUFFICES ASSUME IndInv, [Next]_vars PROVE IndInv'
  OBVIOUS
<1>1. CASE EditKey
  BY <1>1, AddMarkerKeyKeeps, DeleteMarkerKeyKeeps, MoveMarkerKeyKeeps, CaptionKeyKeeps DEF EditKey
<1>2. CASE BookmarkKey \/ UndoKey \/ SelectKey \/ ToggleBookmarkMode
  BY <1>2, BookmarkKeysKeep, UndoKeyKeeps, SelectKeyKeeps, ToggleBookmarkModeKeeps
<1>3. CASE Navigation
  BY <1>3, RequestSegmentKeeps, RequestBlockKeeps, SettlingKeeps, DirectJumpsKeep DEF Navigation
<1>4. CASE Menu
  BY <1>4, MenuStepsKeep, MenuSelectKeeps, MenuCopySegmentsKeeps, MenuClearMarkersKeeps,
     MenuImportKeeps, ImportStepKeeps, ImportEndKeeps DEF Menu
<1>5. CASE Session
  BY <1>5, StartPlaybackKeeps, PlaybackEndsKeeps, DeactivateReactivateKeep DEF Session
<1>6. CASE UNCHANGED vars
  BY <1>6 DEF vars, jumpVars, undoVars, IndInv, TypeOK, EndsFixed, IndicesInRange,
     EventsInRange, ImportWhileActive, Loaded
<1> QED
  BY <1>1, <1>2, <1>3, <1>4, <1>5, <1>6 DEF Next

\* Every reachable state satisfies the inductive invariant.
THEOREM SpecImpliesIndInv == Spec => []IndInv
<1>1. Init => IndInv
  BY InitEstablishes
<1>2. IndInv /\ [Next]_vars => IndInv'
  BY StepKeepsIndInv
<1> QED
  BY <1>1, <1>2, PTL DEF Spec

\* The lists, the indices, the ring and the pending jump keep their types
\* through every key, undo, menu entry and end of playback.
THEOREM TypeCorrect == Spec => []TypeOK
<1>1. IndInv => TypeOK
  BY DEF IndInv
<1> QED
  BY <1>1, SpecImpliesIndInv, PTL

\* As long as a recording is loaded no key, undo or import removes, moves or
\* duplicates an end marker or writes behind the array of markers.
THEOREM EndsStayFixed == Spec => []EndsFixed
<1>1. IndInv => EndsFixed
  BY DEF IndInv
<1> QED
  BY <1>1, SpecImpliesIndInv, PTL

\* ActiveSegment and JumpRequestedSegment always name a segment of the list,
\* so the reads that do not check them stay inside it.
THEOREM IndicesStayInRange == Spec => []IndicesInRange
<1>1. IndInv => IndicesInRange
  BY DEF IndInv
<1> QED
  BY <1>1, SpecImpliesIndInv, PTL

-----------------------------------------------------------------------------
(* Captions of a list of markers.                                          *)

\* The end marker is not selected and no two markers share a caption.
EndPlain(ms)  == ~ms[Len(ms)].sel
OneEach(ms)   == \A j, k \in DOMAIN ms :
                   ms[j].cap = ms[k].cap => j = k \/ ms[j].cap = NoCaption
Tidy(ms)      == EndPlain(ms) /\ OneEach(ms)
Real(cap)     == {cap} \ {NoCaption}

LEMMA InsertCaptions ==
  ASSUME NEW ms, Framed(ms), Tidy(ms), NEW i \in 1 .. Len(ms) - 1, NEW m \in Marker,
         m.cap \notin MarkerCaptions(ms)
  PROVE  /\ Tidy(InsertAt(ms, i + 1, m))
         /\ MarkerCaptions(InsertAt(ms, i + 1, m)) = MarkerCaptions(ms) \cup Real(m.cap)
<1> DEFINE n  == Len(ms)
           ns == InsertAt(ms, i + 1, m)
<1>1. /\ ms \in Seq(Marker) /\ n \in Nat /\ 2 <= n /\ i + 1 \in 1 .. n + 1 /\ i \in 1 .. n - 1
  BY DEF Framed
<1>2. /\ ns \in Seq(Marker) /\ Len(ns) = n + 1
      /\ \A k \in 1 .. n + 1 :
           ns[k] = IF k < i + 1 THEN ms[k] ELSE IF k = i + 1 THEN m ELSE ms[k - 1]
  <2>1. ns \in Seq(Marker) /\ Len(ns) = n + 1
    BY <1>1, InsertAtProperties
  <2>2. \A k \in 1 .. n + 1 : ns[k] = Inserted(ms, i + 1, m, k)
    <3>1. ms \in Seq(Marker) /\ i + 1 \in 1 .. Len(ms) + 1
      BY <1>1
    <3> QED
      BY <3>1, InsertedElements, Zenon
  <2>3. \A k \in 1 .. n + 1 :
          ns[k] = IF k < i + 1 THEN ms[k] ELSE IF k = i + 1 THEN m ELSE ms[k - 1]
    BY <2>2, Zenon DEF Inserted
  <2> QED
    BY <2>1, <2>3
<1> HIDE DEF ns
<1>3. DOMAIN ms = 1 .. n /\ DOMAIN ns = 1 .. n + 1
  BY <1>1, <1>2
<1> DEFINE old(k) == IF k < i + 1 THEN k ELSE k - 1
<1>4. \A k \in 1 .. n + 1 : k # i + 1 => old(k) \in 1 .. n /\ ns[k] = ms[old(k)]
  BY <1>1, <1>2
<1>5. ns[i + 1] = m /\ i + 1 \in 1 .. n + 1
  BY <1>1, <1>2
<1>6. \A k \in 1 .. n : \E j \in 1 .. n + 1 : j # i + 1 /\ ns[j] = ms[k]
  <2> TAKE k \in 1 .. n
  <2>1. CASE k < i + 1
    BY <1>1, <1>2, <2>1
  <2>2. CASE k >= i + 1
    <3>1. k + 1 \in 1 .. n + 1 /\ k + 1 # i + 1 /\ ~(k + 1 < i + 1) /\ (k + 1) - 1 = k
      BY <1>1, <2>2
    <3>2. ns[k + 1] = ms[k]
      BY <1>2, <3>1
    <3> QED
      BY <3>1, <3>2
  <2> QED
    BY <1>1, <2>1, <2>2
<1>7. EndPlain(ns)
  <2>1. n + 1 \in 1 .. n + 1 /\ n + 1 # i + 1 /\ ~(n + 1 < i + 1) /\ (n + 1) - 1 = n
    BY <1>1
  <2>2. ns[n + 1] = ms[n]
    BY <1>2, <2>1
  <2> QED
    BY <1>2, <2>2 DEF Tidy, EndPlain
<1>8. \A k \in 1 .. n : ms[k].cap # m.cap \/ m.cap = NoCaption
  BY <1>3 DEF MarkerCaptions
<1>9. \A j, k \in 1 .. n + 1 : j # i + 1 /\ k # i + 1 /\ old(j) = old(k) => j = k
  BY <1>1
<1> HIDE DEF old
<1>10. OneEach(ns)
  <2> SUFFICES ASSUME NEW j \in 1 .. n + 1, NEW k \in 1 .. n + 1, ns[j].cap = ns[k].cap,
                      j # k
               PROVE  ns[j].cap = NoCaption
    BY <1>3 DEF OneEach
  <2>1. CASE j # i + 1 /\ k # i + 1
    BY <1>3, <1>4, <1>9, <2>1 DEF Tidy, OneEach
  <2>2. CASE j = i + 1 \/ k = i + 1
    BY <1>4, <1>5, <1>8, <2>2
  <2> QED
    BY <2>1, <2>2
<1>11. MarkerCaptions(ns) = MarkerCaptions(ms) \cup Real(m.cap)
  <2>1. ASSUME NEW c \in MarkerCaptions(ns) PROVE c \in MarkerCaptions(ms) \cup Real(m.cap)
    <3>1. PICK k \in 1 .. n + 1 : c = ns[k].cap /\ c # NoCaption
      BY <1>3 DEF MarkerCaptions
    <3> QED
      BY <1>3, <1>4, <1>5, <3>1 DEF MarkerCaptions, Real
  <2>2. ASSUME NEW c \in MarkerCaptions(ms) PROVE c \in MarkerCaptions(ns)
    <3>1. PICK k \in 1 .. n : c = ms[k].cap /\ c # NoCaption
      BY <1>3 DEF MarkerCaptions
    <3>2. PICK j \in 1 .. n + 1 : ns[j] = ms[k]
      BY <1>6
    <3> QED
      BY <1>3, <3>1, <3>2 DEF MarkerCaptions
  <2>3. Real(m.cap) \subseteq MarkerCaptions(ns)
    BY <1>3, <1>5 DEF MarkerCaptions, Real
  <2> QED
    BY <2>1, <2>2, <2>3
<1>12. Tidy(ns)
  BY <1>7, <1>10 DEF Tidy
<1> QED
  BY <1>11, <1>12 DEF ns

\* A list whose markers have the captions they had.
LEMMA SameCaptions ==
  ASSUME NEW ms \in Seq(Marker), OneEach(ms), NEW ns \in Seq(Marker), Len(ns) = Len(ms),
         \A k \in 1 .. Len(ms) : ns[k].cap = ms[k].cap
  PROVE  OneEach(ns) /\ MarkerCaptions(ns) = MarkerCaptions(ms)
<1>1. DOMAIN ms = 1 .. Len(ms) /\ DOMAIN ns = 1 .. Len(ms)
  OBVIOUS
<1>2. OneEach(ns)
  BY <1>1 DEF OneEach
<1>3. {ns[k].cap : k \in 1 .. Len(ms)} = {ms[k].cap : k \in 1 .. Len(ms)}
  OBVIOUS
<1> QED
  BY <1>1, <1>2, <1>3 DEF MarkerCaptions

\* DeleteSegmentMarker takes one caption off the list.
LEMMA RemoveCaptions ==
  ASSUME NEW ms, Framed(ms), Tidy(ms), NEW i \in Interior(ms), NEW ns,
         ns = [RemoveAt(ms, i + 1) EXCEPT ![Len(RemoveAt(ms, i + 1))].sel = FALSE]
  PROVE  Tidy(ns) /\ MarkerCaptions(ns) = MarkerCaptions(ms) \ {ms[i + 1].cap}
<1> DEFINE n == Len(ms)
           rest == RemoveAt(ms, i + 1)
<1>1. /\ ms \in Seq(Marker) /\ n \in Nat /\ 2 <= n /\ i \in 1 .. n - 2 /\ i + 1 \in 1 .. n
  BY DEF Framed, Interior, Nr
<1>2. /\ rest \in Seq(Marker) /\ Len(rest) = n - 1
      /\ \A k \in 1 .. n - 1 : rest[k] = IF k < i + 1 THEN ms[k] ELSE ms[k + 1]
  BY <1>1, RemoveAtProperties
<1> HIDE DEF rest
<1>3. rest[n - 1] \in Marker /\ n - 1 \in 1 .. n - 1
  BY <1>1, <1>2
<1>4. /\ ns \in Seq(Marker) /\ Len(ns) = n - 1
      /\ \A k \in 1 .. n - 1 : ns[k].cap = rest[k].cap
      /\ ~ns[n - 1].sel
  <2>1. ns = [rest EXCEPT ![n - 1] = [rest[n - 1] EXCEPT !.sel = FALSE]]
    BY <1>2 DEF rest
  <2> DEFINE e == [rest[n - 1] EXCEPT !.sel = FALSE]
  <2>2. e \in Marker /\ e.cap = rest[n - 1].cap /\ ~e.sel
    BY <1>3 DEF Marker
  <2> HIDE DEF e
  <2>3. ns = [rest EXCEPT ![n - 1] = e]
    BY <2>1 DEF e
  <2>4. ns \in Seq(Marker) /\ Len(ns) = n - 1
    <3>1. n - 1 \in 1 .. Len(rest)
      BY <1>2, <1>3
    <3>2. [rest EXCEPT ![n - 1] = e] \in Seq(Marker)
      BY <1>2, <2>2, <3>1
    <3>3. Len([rest EXCEPT ![n - 1] = e]) = Len(rest)
      BY <1>2, <2>2, <3>1
    <3> QED
      BY <1>2, <2>3, <3>2, <3>3
  <2>5. DOMAIN rest = 1 .. n - 1
    BY <1>1, <1>2
  <2>6. ns[n - 1] = e /\ \A k \in 1 .. n - 1 : k # n - 1 => ns[k] = rest[k]
    BY <1>3, <2>3, <2>5
  <2> QED
    BY <2>2, <2>4, <2>6
<1> DEFINE old(k) == IF k < i + 1 THEN k ELSE k + 1
<1>5. \A k \in 1 .. n - 1 : old(k) \in 1 .. n /\ old(k) # i + 1 /\ ns[k].cap = ms[old(k)].cap
  BY <1>1, <1>2, <1>4
<1>6. \A j, k \in 1 .. n - 1 : old(j) = old(k) => j = k
  BY <1>1
<1>7. \A k \in 1 .. n : k # i + 1 => \E j \in 1 .. n - 1 : old(j) = k
  <2> TAKE k \in 1 .. n
  <2> HAVE k # i + 1
  <2>1. CASE k < i + 1
    BY <1>1, <2>1
  <2>2. CASE k > i + 1
    <3>1. k - 1 \in 1 .. n - 1 /\ ~(k - 1 < i + 1) /\ (k - 1) + 1 = k
      BY <1>1, <2>2
    <3> QED
      BY <3>1
  <2> QED
    BY <1>1, <2>1, <2>2
<1>8. DOMAIN ms = 1 .. n /\ DOMAIN ns = 1 .. n - 1
  BY <1>1, <1>4
<1> HIDE DEF old
<1>9. OneEach(ns)
  BY <1>5, <1>6, <1>8 DEF Tidy, OneEach
<1>10. MarkerCaptions(ns) = MarkerCaptions(ms) \ {ms[i + 1].cap}
  <2>1. ASSUME NEW c \in MarkerCaptions(ns) PROVE c \in MarkerCaptions(ms) \ {ms[i + 1].cap}
    <3>1. PICK k \in 1 .. n - 1 : c = ns[k].cap /\ c # NoCaption
      BY <1>8 DEF MarkerCaptions
    <3>2. old(k) \in 1 .. n /\ old(k) # i + 1 /\ c = ms[old(k)].cap
      BY <1>5, <3>1
    <3>3. c # ms[i + 1].cap
      BY <1>1, <1>8, <3>1, <3>2 DEF Tidy, OneEach
    <3> QED
      BY <1>8, <3>1, <3>2, <3>3 DEF MarkerCaptions
  <2>2. ASSUME NEW c \in MarkerCaptions(ms) \ {ms[i + 1].cap} PROVE c \in MarkerCaptions(ns)
    <3>1. PICK k \in 1 .. n : c = ms[k].cap /\ c # NoCaption /\ k # i + 1
      BY <1>8 DEF MarkerCaptions
    <3>2. PICK j \in 1 .. n - 1 : old(j) = k
      BY <1>7, <3>1
    <3> QED
      BY <1>5, <1>8, <3>1, <3>2 DEF MarkerCaptions
  <2> QED
    BY <2>1, <2>2
<1> QED
  BY <1>4, <1>9, <1>10 DEF Tidy, EndPlain

\* One marker gets another caption.
LEMMA ReplaceCaption ==
  ASSUME NEW ms, Framed(ms), Tidy(ms), NEW i \in 1 .. Len(ms) - 1,
         NEW e \in Marker, e.cap \notin MarkerCaptions(ms)
  PROVE  /\ Tidy([ms EXCEPT ![i] = e])
         /\ MarkerCaptions([ms EXCEPT ![i] = e]) =
              (MarkerCaptions(ms) \ {ms[i].cap}) \cup Real(e.cap)
<1> DEFINE n == Len(ms)
           c == e.cap
           ns == [ms EXCEPT ![i] = e]
<1>1. /\ ms \in Seq(Marker) /\ n \in Nat /\ 2 <= n /\ i \in 1 .. n /\ i < n /\ n \in 1 .. n
  BY DEF Framed
<1>2. e \in Marker /\ e.cap = c
  OBVIOUS
<1>3. ns = [ms EXCEPT ![i] = e]
  OBVIOUS
<1> HIDE DEF c, ns
<1>4. /\ DOMAIN ms = 1 .. n /\ DOMAIN ns = 1 .. n /\ Len(ns) = n
      /\ ns[i] = e /\ \A k \in 1 .. n : k # i => ns[k] = ms[k]
  BY <1>1, <1>2, <1>3
<1>5. EndPlain(ns)
  BY <1>1, <1>4 DEF Tidy, EndPlain
<1>6. \A k \in 1 .. n : ms[k].cap # c \/ c = NoCaption
  BY <1>2, <1>4 DEF MarkerCaptions
<1>7. OneEach(ns)
  <2> SUFFICES ASSUME NEW j \in 1 .. n, NEW k \in 1 .. n, ns[j].cap = ns[k].cap, j # k
               PROVE  ns[j].cap = NoCaption
    BY <1>4 DEF OneEach
  <2>1. CASE j # i /\ k # i
    BY <1>4, <2>1 DEF Tidy, OneEach
  <2>2. CASE j = i \/ k = i
    BY <1>2, <1>4, <1>6, <2>2
  <2> QED
    BY <2>1, <2>2
<1>8. MarkerCaptions(ns) = (MarkerCaptions(ms) \ {ms[i].cap}) \cup Real(c)
  <2>1. ASSUME NEW d \in MarkerCaptions(ns)
        PROVE  d \in (MarkerCaptions(ms) \ {ms[i].cap}) \cup Real(c)
    <3>1. PICK k \in 1 .. n : d = ns[k].cap /\ d # NoCaption
      BY <1>4 DEF MarkerCaptions
    <3>2. CASE k = i
      BY <1>2, <1>4, <3>1, <3>2 DEF Real
    <3>3. CASE k # i
      BY <1>1, <1>4, <3>1, <3>3 DEF MarkerCaptions, Tidy, OneEach
    <3> QED
      BY <3>2, <3>3
  <2>2. ASSUME NEW d \in MarkerCaptions(ms) \ {ms[i].cap} PROVE d \in MarkerCaptions(ns)
    <3>1. PICK k \in 1 .. n : d = ms[k].cap /\ d # NoCaption /\ k # i
      BY <1>4 DEF MarkerCaptions
    <3> QED
      BY <1>4, <3>1 DEF MarkerCaptions
  <2>3. Real(c) \subseteq MarkerCaptions(ns)
    BY <1>1, <1>2, <1>4 DEF MarkerCaptions, Real
  <2> QED
    BY <2>1, <2>2, <2>3
<1> QED
  BY <1>2, <1>3, <1>5, <1>7, <1>8 DEF Tidy

\* Only the two ends are left, or there are no others.
LEMMA EndsCaptions ==
  ASSUME NEW ms, Framed(ms), Tidy(ms), Len(ms) > 2
  PROVE  Tidy(EndsOf(ms)) /\ MarkerCaptions(EndsOf(ms)) = {}
<1> DEFINE a == [block |-> ms[1].block, sel |-> FALSE, cap |-> NoCaption]
           z == [block |-> ms[Len(ms)].block, sel |-> ms[Len(ms)].sel, cap |-> NoCaption]
           ns == <<a, z>>
<1>1. ns = EndsOf(ms)
  BY DEF EndsOf
<1>2. ns[1].cap = NoCaption /\ ns[2].cap = NoCaption /\ ~ns[2].sel /\ Len(ns) = 2
  BY DEF Tidy, EndPlain
<1>3. DOMAIN ns = 1 .. 2
  OBVIOUS
<1> HIDE DEF ns
<1>4. Tidy(ns) /\ MarkerCaptions(ns) = {}
  BY <1>2, <1>3 DEF Tidy, EndPlain, OneEach, MarkerCaptions
<1> QED
  BY <1>1, <1>4

LEMMA LoadedCaptions ==
  ASSUME NEW l \in LoadableMarkers \cup {<<0, TotalBlock>>}
  PROVE  Tidy(MarkerList(l)) /\ MarkerCaptions(MarkerList(l)) = {}
<1> DEFINE ns == MarkerList(l)
<1>1. l \in Seq(Blocks) /\ Len(l) \in Nat /\ 2 <= Len(l)
  <2>1. CASE l \in LoadableMarkers
    BY <2>1, LoadAssumption
  <2>2. CASE l = <<0, TotalBlock>>
    <3>1. 0 \in Blocks /\ TotalBlock \in Blocks
      BY SizesAreNaturals DEF Blocks
    <3> QED
      BY <2>2, <3>1
  <2> QED
    BY <2>1, <2>2
<1>2. /\ DOMAIN ns = 1 .. Len(l) /\ Len(ns) = Len(l)
      /\ \A k \in 1 .. Len(l) : ns[k].cap = NoCaption /\ ~ns[k].sel
  BY <1>1 DEF MarkerList
<1> HIDE DEF ns
<1>3. Tidy(ns) /\ MarkerCaptions(ns) = {}
  BY <1>1, <1>2 DEF Tidy, EndPlain, OneEach, MarkerCaptions
<1> QED
  BY <1>3 DEF ns

-----------------------------------------------------------------------------
(* Captions of the undo ring.                                              *)

RingCaptions(ring) == {ring[k].cap : k \in Slots} \ {NoCaption}
OneEachSlot(ring)  == \A j, k \in Slots :
                        ring[j].cap = ring[k].cap => j = k \/ ring[j].cap = NoCaption

\* An event is put into a slot: UndoAddEvent, and UndoLastAction with a blank one.
LEMMA SlotCaptions ==
  ASSUME NEW ring \in [Slots -> Event], OneEachSlot(ring), NEW slot \in Slots,
         NEW e, e.cap \notin RingCaptions(ring)
  PROVE  LET new == [ring EXCEPT ![slot] = e]
         IN  /\ OneEachSlot(new)
             /\ RingCaptions(new) = (RingCaptions(ring) \ {ring[slot].cap}) \cup Real(e.cap)
<1> DEFINE new == [ring EXCEPT ![slot] = e]
<1>1. new[slot] = e /\ \A k \in Slots : k # slot => new[k] = ring[k]
  OBVIOUS
<1> HIDE DEF new
<1>2. \A k \in Slots : ring[k].cap # e.cap \/ e.cap = NoCaption
  BY DEF RingCaptions
<1>3. OneEachSlot(new)
  BY <1>1, <1>2 DEF OneEachSlot
<1>4. ASSUME NEW c \in RingCaptions(new)
      PROVE  c \in (RingCaptions(ring) \ {ring[slot].cap}) \cup Real(e.cap)
  <2>1. PICK k \in Slots : c = new[k].cap /\ c # NoCaption
    BY DEF RingCaptions
  <2> QED
    BY <1>1, <2>1 DEF RingCaptions, Real, OneEachSlot
<1>5. ASSUME NEW c \in RingCaptions(ring) \ {ring[slot].cap}
      PROVE  c \in RingCaptions(new)
  <2>1. PICK k \in Slots : c = ring[k].cap /\ c # NoCaption /\ k # slot
    BY DEF RingCaptions
  <2> QED
    BY <1>1, <2>1 DEF RingCaptions
<1>6. Real(e.cap) \subseteq RingCaptions(new)
  BY <1>1 DEF RingCaptions, Real
<1>7. RingCaptions(new) = (RingCaptions(ring) \ {ring[slot].cap}) \cup Real(e.cap)
  BY <1>4, <1>5, <1>6
<1> QED
  BY <1>3, <1>7 DEF new

LEMMA BlankRing ==
  LET new == [k \in Slots |-> Blank] IN OneEachSlot(new) /\ RingCaptions(new) = {}
BY DEF OneEachSlot, RingCaptions, Blank

-----------------------------------------------------------------------------
(* The inductive invariant.                                                *)

\* No caption buffer has two owners, and every owner's buffer is allocated.
Owned(ms, ring, h) ==
  /\ MarkerCaptions(ms) \cup RingCaptions(ring) \subseteq h
  /\ MarkerCaptions(ms) \cap RingCaptions(ring) = {}
  /\ OneEach(ms) /\ OneEachSlot(ring)
CaptionInv == (markers # <<>> => EndPlain(markers)) /\ Owned(markers, undo, heap)

LEMMA JoinCaptions ==
  ASSUME EndPlain(markers'), Owned(markers', undo', heap')
  PROVE  CaptionInv'
BY DEF CaptionInv, Owned, EndPlain, OneEach, OneEachSlot, MarkerCaptions, RingCaptions

LEMMA CaptionInvImplies ==
  CaptionInv => CaptionsOwnedOnce /\ EndNotSelected
BY DEF CaptionInv, CaptionsOwnedOnce, EndNotSelected, Owned, OneEach, OneEachSlot,
       RingCaptions, UndoCaptions, EndPlain

\* UndoAddEvent with an event whose caption no slot holds.
LEMMA AddedEvent ==
  ASSUME RingTyped, OneEachSlot(undo), NEW e, e.cap \notin RingCaptions(undo),
         UndoAddEvent(e)
  PROVE  /\ OneEachSlot(undo') /\ Overwritten \subseteq RingCaptions(undo)
         /\ RingCaptions(undo') = (RingCaptions(undo) \ Overwritten) \cup Real(e.cap)
<1> DEFINE slot == (undoLast + 1) % NRUNDOEVENTS
<1>1. slot \in Slots /\ undo \in [Slots -> Event]
  BY SizesAreNaturals DEF RingTyped, Slots
<1>2. undo' = [undo EXCEPT ![slot] = e]
  BY DEF UndoAddEvent
<1>3. Overwritten = {undo[slot].cap} \ {NoCaption}
  BY DEF Overwritten
<1>4. Overwritten \subseteq RingCaptions(undo)
  BY <1>1, <1>3 DEF RingCaptions
<1>5. NoCaption \notin RingCaptions(undo)
  BY DEF RingCaptions
<1> HIDE DEF slot
<1>6. /\ OneEachSlot(undo')
      /\ RingCaptions(undo') = (RingCaptions(undo) \ {undo[slot].cap}) \cup Real(e.cap)
  BY <1>1, <1>2, SlotCaptions
<1> QED
  BY <1>3, <1>4, <1>5, <1>6

\* UndoLastAction takes the newest event off the ring.
LEMMA PoppedEvent ==
  ASSUME RingTyped, OneEachSlot(undo), Popped
  PROVE  /\ OneEachSlot(undo') /\ undo[undoLast].cap \in RingCaptions(undo) \cup {NoCaption}
         /\ RingCaptions(undo') = RingCaptions(undo) \ {undo[undoLast].cap}
<1>1. undoLast \in Slots /\ undo \in [Slots -> Event] /\ Blank \in Event
  BY BlankIsTyped DEF RingTyped
<1>2. undo' = [undo EXCEPT ![undoLast] = Blank]
  BY DEF Popped
<1>3. Blank.cap = NoCaption /\ NoCaption \notin RingCaptions(undo) /\ Real(NoCaption) = {}
  BY DEF Blank, RingCaptions, Real
<1>4. /\ OneEachSlot(undo')
      /\ RingCaptions(undo') = (RingCaptions(undo) \ {undo[undoLast].cap}) \cup Real(Blank.cap)
  BY <1>1, <1>2, <1>3, SlotCaptions
<1> QED
  BY <1>1, <1>3, <1>4 DEF RingCaptions

-----------------------------------------------------------------------------
(* The actions on the marker list.                                         *)

\* What the invariant says of a list with its two end markers.
LEMMA EditingIsTidy ==
  ASSUME Positioned, CaptionInv
  PROVE  /\ Tidy(markers) /\ OneEachSlot(undo)
         /\ MarkerCaptions(markers) \cup RingCaptions(undo) \subseteq heap
         /\ MarkerCaptions(markers) \cap RingCaptions(undo) = {}
BY DEF Positioned, Framed, CaptionInv, Tidy, Owned

\* AddSegmentMarker with a caption that no marker has.
LEMMA AddedCaptions ==
  ASSUME Framed(markers), Tidy(markers), NEW b \in Blocks, NEW sel \in BOOLEAN,
         NEW cap \in Captions \cup {NoCaption}, cap \notin MarkerCaptions(markers),
         AddSegmentMarker(b, sel, cap)
  PROVE  Tidy(markers') /\ MarkerCaptions(markers') = MarkerCaptions(markers) \cup Real(cap)
<1> DEFINE i == InsertIndex(markers, b)
           m == [block |-> b, sel |-> sel, cap |-> cap]
<1>1. i \in 1 .. Len(markers) - 1
  BY InsertIndexInRange
<1>2. m \in Marker /\ m.cap = cap
  BY DEF Marker
<1>3. markers' = InsertAt(markers, i + 1, m)
  BY DEF AddSegmentMarker
<1> HIDE DEF i, m
<1>4. /\ Tidy(InsertAt(markers, i + 1, m))
      /\ MarkerCaptions(InsertAt(markers, i + 1, m)) = MarkerCaptions(markers) \cup Real(m.cap)
  BY <1>1, <1>2, InsertCaptions
<1> QED
  BY <1>2, <1>3, <1>4

\* A step that leaves the captions of the list and of the ring alone.
LEMMA CaptionsUntouched ==
  ASSUME Positioned, CaptionInv, markers' \in Seq(Marker), Len(markers') = Len(markers),
         \A k \in 1 .. Len(markers) : markers'[k].cap = markers[k].cap,
         ~markers'[Len(markers)].sel, undo' = undo, heap \subseteq heap'
  PROVE  CaptionInv'
<1>1. markers \in Seq(Marker)
  BY DEF Positioned, Framed
<1>2. /\ Tidy(markers) /\ OneEachSlot(undo)
      /\ MarkerCaptions(markers) \cup RingCaptions(undo) \subseteq heap
      /\ MarkerCaptions(markers) \cap RingCaptions(undo) = {}
  BY EditingIsTidy
<1>3. OneEach(markers') /\ MarkerCaptions(markers') = MarkerCaptions(markers)
  BY <1>1, <1>2, SameCaptions DEF Tidy
<1>4. EndPlain(markers')
  BY DEF EndPlain
<1>5. Owned(markers', undo', heap')
  BY <1>2, <1>3 DEF Owned
<1> QED
  BY <1>4, <1>5, JoinCaptions

\* A step that touches neither the list nor the ring.
LEMMA ListAndRingUntouched ==
  ASSUME CaptionInv, markers' = markers, undo' = undo, heap \subseteq heap'
  PROVE  CaptionInv'
BY DEF CaptionInv, Owned, EndPlain, OneEach, OneEachSlot, MarkerCaptions, RingCaptions

\* A step that puts an event without caption into the ring.
LEMMA PlainEventAdded ==
  ASSUME Positioned, RestTyped, CaptionInv, NEW e, e.cap = NoCaption, UndoAddEvent(e),
         heap' = heap \ Overwritten,
         Tidy(markers'), MarkerCaptions(markers') = MarkerCaptions(markers)
  PROVE  CaptionInv'
<1>1. NoCaption \notin RingCaptions(undo) /\ Real(NoCaption) = {}
  BY DEF RingCaptions, Real
<1>2. /\ Tidy(markers) /\ OneEachSlot(undo)
      /\ MarkerCaptions(markers) \cup RingCaptions(undo) \subseteq heap
      /\ MarkerCaptions(markers) \cap RingCaptions(undo) = {}
  BY EditingIsTidy
<1>3. /\ OneEachSlot(undo') /\ Overwritten \subseteq RingCaptions(undo)
      /\ RingCaptions(undo') = RingCaptions(undo) \ Overwritten
  BY <1>1, <1>2, AddedEvent DEF RestTyped
<1>4. Owned(markers', undo', heap')
  BY <1>2, <1>3 DEF Owned, Tidy
<1> QED
  BY <1>4, JoinCaptions DEF Tidy

LEMMA AddMarkerKeyOwns == IndInv /\ CaptionInv /\ AddMarkerKey => CaptionInv'
<1> SUFFICES ASSUME IndInv, CaptionInv, AddMarkerKey PROVE CaptionInv'
  OBVIOUS
<1>1. RestTyped /\ Positioned
  BY EditingIsPositioned DEF AddMarkerKey, Editing
<1>2. PICK pos \in Positions :
        LET b == IFrame(currentVisibleBlock(pos))
        IN  /\ AddSegmentMarker(b, FALSE, NoCaption)
            /\ UndoAddEvent(SegmentEvent(0, b, FALSE, NoCaption))
  BY Zenon DEF AddMarkerKey
<1> DEFINE b == IFrame(currentVisibleBlock(pos))
           e == SegmentEvent(0, b, FALSE, NoCaption)
<1>3. b \in Blocks
  BY <1>1, VisibleBlockInRange, IFrameInRange
<1>4. AddSegmentMarker(b, FALSE, NoCaption) /\ UndoAddEvent(e) /\ e.cap = NoCaption
  BY <1>2 DEF SegmentEvent
<1> HIDE DEF b, e
<1>5. NoCaption \notin MarkerCaptions(markers) /\ Real(NoCaption) = {} /\ Tidy(markers)
  BY <1>1, EditingIsTidy DEF MarkerCaptions, Real
<1>6. Tidy(markers') /\ MarkerCaptions(markers') = MarkerCaptions(markers)
  BY <1>1, <1>3, <1>4, <1>5, AddedCaptions DEF Positioned
<1>7. heap' = heap \ Overwritten
  BY DEF AddMarkerKey
<1> QED
  BY <1>1, <1>4, <1>6, <1>7, PlainEventAdded

LEMMA DeleteMarkerKeyOwns == IndInv /\ CaptionInv /\ DeleteMarkerKey => CaptionInv'
<1> SUFFICES ASSUME IndInv, CaptionInv, DeleteMarkerKey PROVE CaptionInv'
  OBVIOUS
<1>1. RestTyped /\ Positioned
  BY EditingIsPositioned DEF DeleteMarkerKey, Editing
<1>2. PICK pos \in Positions :
        LET i == FindNearestSegmentMarker(markers, currentVisibleBlock(pos))
        IN  /\ i > 0 /\ DeleteSegmentMarker(i)
            /\ UndoAddEvent(SegmentEvent(BlockAt(markers, i), 0, markers[i + 1].sel,
                                         markers[i + 1].cap))
  BY Zenon DEF DeleteMarkerKey
<1> DEFINE i == FindNearestSegmentMarker(markers, currentVisibleBlock(pos))
           e == SegmentEvent(BlockAt(markers, i), 0, markers[i + 1].sel, markers[i + 1].cap)
<1>3. i \in Interior(markers) \cup {-1}
  BY <1>1, NearestMarkerInRange DEF Positioned
<1>4. i > 0 /\ DeleteSegmentMarker(i) /\ UndoAddEvent(e)
  BY <1>2
<1> HIDE DEF i
<1>5. i \in Interior(markers) /\ i \in 0 .. Len(markers) - 1
  BY <1>1, <1>3, <1>4 DEF Interior, Nr, Positioned, Framed
<1>6. /\ BlockAt(markers, i) \in Blocks /\ 0 \in Blocks
      /\ markers[i + 1].sel \in BOOLEAN
      /\ markers[i + 1].cap \in Captions \cup {NoCaption}
  BY <1>1, <1>5, MarkerAt, SizesAreNaturals DEF Positioned, Blocks
<1>7. e \in Event /\ e.cap = markers[i + 1].cap
  BY <1>6 DEF SegmentEvent, Event
<1> HIDE DEF e
<1>8. /\ Tidy(markers) /\ OneEachSlot(undo)
      /\ MarkerCaptions(markers) \cup RingCaptions(undo) \subseteq heap
      /\ MarkerCaptions(markers) \cap RingCaptions(undo) = {}
  BY <1>1, EditingIsTidy
<1>9. Real(e.cap) \subseteq MarkerCaptions(markers) /\ NoCaption \notin RingCaptions(undo)
  BY <1>1, <1>5, <1>7 DEF Real, MarkerCaptions, RingCaptions, Positioned, Framed
<1>10. e.cap \notin RingCaptions(undo)
  BY <1>8, <1>9 DEF Real
<1>11. Tidy(markers') /\ MarkerCaptions(markers') = MarkerCaptions(markers) \ {e.cap}
  <2>1. markers' = [RemoveAt(markers, i + 1) EXCEPT ![Len(RemoveAt(markers, i + 1))].sel = FALSE]
    BY <1>4 DEF DeleteSegmentMarker
  <2> QED
    BY <1>1, <1>5, <1>7, <1>8, <2>1, RemoveCaptions DEF Positioned
<1>12. /\ OneEachSlot(undo') /\ Overwritten \subseteq RingCaptions(undo)
       /\ RingCaptions(undo') = (RingCaptions(undo) \ Overwritten) \cup Real(e.cap)
  BY <1>1, <1>4, <1>7, <1>8, <1>10, AddedEvent DEF RestTyped
<1>13. heap' = heap \ Overwritten
  BY DEF DeleteMarkerKey
<1>14. Owned(markers', undo', heap')
  BY <1>8, <1>9, <1>11, <1>12, <1>13 DEF Owned, Tidy, Real
<1> QED
  BY <1>11, <1>14, JoinCaptions DEF Tidy

\* MoveSegmentMarker keeps every caption in its place.
LEMMA MovedCaptions ==
  ASSUME Framed(markers), Tidy(markers), NEW i \in Interior(markers), NEW b \in Blocks,
         MoveSegmentMarker(i, b)
  PROVE  Tidy(markers') /\ MarkerCaptions(markers') = MarkerCaptions(markers)
<1> DEFINE m == [markers[i + 1] EXCEPT !.block = b]
           n == Len(markers)
<1>1. /\ markers \in Seq(Marker) /\ n \in Nat /\ DOMAIN markers = 1 .. n
      /\ i + 1 \in 1 .. n /\ i + 1 # n /\ n \in 1 .. n
  BY DEF Interior, Nr, Framed
<1>2. markers[i + 1] \in Marker
  BY <1>1
<1>3. m \in Marker /\ m.cap = markers[i + 1].cap
  BY <1>2 DEF Marker
<1>4. markers' = [markers EXCEPT ![i + 1] = m]
  BY DEF MoveSegmentMarker
<1> HIDE DEF m
<1>5. markers' \in Seq(Marker) /\ Len(markers') = n
  BY <1>1, <1>3, <1>4
<1>6. \A k \in 1 .. n : markers'[k].cap = markers[k].cap
  BY <1>1, <1>3, <1>4
<1>7. markers'[n] = markers[n]
  BY <1>1, <1>4
<1>8. OneEach(markers') /\ MarkerCaptions(markers') = MarkerCaptions(markers)
  BY <1>1, <1>5, <1>6, SameCaptions DEF Tidy
<1> QED
  BY <1>5, <1>7, <1>8 DEF Tidy, EndPlain

LEMMA MoveMarkerKeyOwns == IndInv /\ CaptionInv /\ MoveMarkerKey => CaptionInv'
<1> SUFFICES ASSUME IndInv, CaptionInv, MoveMarkerKey PROVE CaptionInv'
  OBVIOUS
<1>1. RestTyped /\ Positioned
  BY EditingIsPositioned DEF MoveMarkerKey, Editing
<1>2. PICK pos \in Positions :
        LET at == currentVisibleBlock(pos)
            i  == FindNearestSegmentMarker(markers, at)
            b  == IFrame(at)
        IN  /\ MayMove(markers, i, b, TRUE) /\ MoveSegmentMarker(i, b)
            /\ UndoAddEvent(SegmentEvent(BlockAt(markers, i), b, FALSE, NoCaption))
  BY Zenon DEF MoveMarkerKey
<1> DEFINE i == FindNearestSegmentMarker(markers, currentVisibleBlock(pos))
           b == IFrame(currentVisibleBlock(pos))
           e == SegmentEvent(BlockAt(markers, i), b, FALSE, NoCaption)
<1>3. b \in Blocks
  BY <1>1, VisibleBlockInRange, IFrameInRange
<1>4. /\ i \in Interior(markers) /\ MoveSegmentMarker(i, b)
      /\ UndoAddEvent(e) /\ e.cap = NoCaption
  BY <1>2 DEF SegmentEvent, MayMove
<1> HIDE DEF i, b, e
<1>5. Tidy(markers)
  BY <1>1, EditingIsTidy
<1>6. Tidy(markers') /\ MarkerCaptions(markers') = MarkerCaptions(markers)
  BY <1>1, <1>3, <1>4, <1>5, MovedCaptions DEF Positioned
<1>7. heap' = heap \ Overwritten
  BY DEF MoveMarkerKey
<1> QED
  BY <1>1, <1>4, <1>6, <1>7, PlainEventAdded

\* A segment's selection changes, the end marker's does not.
LEMMA SelectedCaptions ==
  ASSUME Positioned, CaptionInv, NEW i \in 0 .. Len(markers) - 2, NEW v \in BOOLEAN,
         markers' = [markers EXCEPT ![i + 1].sel = v], undo' = undo, heap' = heap
  PROVE  CaptionInv'
<1> DEFINE m == [markers[i + 1] EXCEPT !.sel = v]
           n == Len(markers)
<1>1. /\ markers \in Seq(Marker) /\ n \in Nat /\ DOMAIN markers = 1 .. n
      /\ i + 1 \in 1 .. n /\ i + 1 # n /\ n \in 1 .. n
  BY DEF Positioned, Framed
<1>2. markers[i + 1] \in Marker
  BY <1>1
<1>3. m \in Marker /\ m.cap = markers[i + 1].cap
  BY <1>2 DEF Marker
<1>4. markers' = [markers EXCEPT ![i + 1] = m]
  OBVIOUS
<1> HIDE DEF m
<1>5. markers' \in Seq(Marker) /\ Len(markers') = n
  BY <1>1, <1>3, <1>4
<1>6. \A k \in 1 .. n : markers'[k].cap = markers[k].cap
  BY <1>1, <1>3, <1>4
<1>7. markers'[n] = markers[n]
  BY <1>1, <1>4
<1>8. ~markers'[n].sel
  BY <1>7, EditingIsTidy DEF Tidy, EndPlain
<1> QED
  BY <1>5, <1>6, <1>8, CaptionsUntouched

LEMMA SelectKeyOwns == IndInv /\ CaptionInv /\ SelectKey => CaptionInv'
<1> SUFFICES ASSUME IndInv, CaptionInv, SelectKey PROVE CaptionInv'
  OBVIOUS
<1>1. RestTyped /\ Positioned
  BY EditingIsPositioned DEF SelectKey, Editing
<1> DEFINE seg == IF jumpSeg # NoJump THEN jumpSeg
                  ELSE IF jumpBlock # NoBlock THEN FindSegmentWithBlock(markers, jumpBlock)
                  ELSE active
           v == ~markers[seg + 1].sel
<1>2. seg \in 0 .. Len(markers) - 2
  <2>1. ASSUME jumpBlock # NoBlock
        PROVE  FindSegmentWithBlock(markers, jumpBlock) \in 0 .. Len(markers) - 2
    <3>1. jumpBlock \in Nat
      BY <1>1, <2>1, SizesAreNaturals DEF RestTyped, JumpTyped, Blocks
    <3> QED
      BY <1>1, <3>1, FoundSegmentInRange DEF Positioned
  <2> QED
    BY <1>1, <2>1 DEF Positioned
<1>3. markers' = [markers EXCEPT ![seg + 1].sel = v]
  BY DEF SelectKey
<1>4. undo' = undo /\ heap' = heap
  BY DEF SelectKey, undoVars
<1>5. v \in BOOLEAN
  OBVIOUS
<1> HIDE DEF seg, v
<1> QED
  BY <1>1, <1>2, <1>3, <1>4, <1>5, SelectedCaptions

\* ChangeSegmentText: the old caption goes to the ring, the new one is fresh.
LEMMA CaptionKeyOwns == IndInv /\ CaptionInv /\ CaptionKey => CaptionInv'
<1> SUFFICES ASSUME IndInv, CaptionInv, CaptionKey PROVE CaptionInv'
  OBVIOUS
<1>1. RestTyped /\ Positioned
  BY EditingIsPositioned DEF CaptionKey, Editing
<1> DEFINE asked == IF jumpSeg # NoJump THEN jumpSeg ELSE active
           seg   == IF asked >= Nr(markers) - 1 THEN Nr(markers) - 2 ELSE asked
           m     == markers[seg + 1]
           e     == SegmentEvent(m.block, m.block, m.sel, m.cap)
<1>2. seg + 1 \in 1 .. Len(markers) - 1 /\ seg \in 0 .. Len(markers) - 1
  BY <1>1 DEF Positioned, Framed, Nr
<1>3. PICK new \in Captions \ heap :
        \/ heap' = heap \cup {new} /\ UNCHANGED <<markers, undoVars>>
        \/ \E text \in BOOLEAN :
             /\ UndoAddEvent(e)
             /\ markers' = [markers EXCEPT ![seg + 1].cap = IF text THEN new ELSE NoCaption]
             /\ heap' = (heap \cup (IF text THEN {new} ELSE {})) \ Overwritten
  BY Zenon DEF CaptionKey
<1>4. e.cap = m.cap
  BY DEF SegmentEvent
<1> HIDE DEF seg, e
<1>5. /\ Tidy(markers) /\ OneEachSlot(undo)
      /\ MarkerCaptions(markers) \cup RingCaptions(undo) \subseteq heap
      /\ MarkerCaptions(markers) \cap RingCaptions(undo) = {}
  BY <1>1, EditingIsTidy
<1>6. CASE heap' = heap \cup {new} /\ UNCHANGED <<markers, undoVars>>
  BY <1>6, ListAndRingUntouched DEF undoVars
<1>7. CASE \E text \in BOOLEAN :
             /\ UndoAddEvent(e)
             /\ markers' = [markers EXCEPT ![seg + 1].cap = IF text THEN new ELSE NoCaption]
             /\ heap' = (heap \cup (IF text THEN {new} ELSE {})) \ Overwritten
  <2>1. PICK text \in BOOLEAN :
          /\ UndoAddEvent(e)
          /\ markers' = [markers EXCEPT ![seg + 1].cap = IF text THEN new ELSE NoCaption]
          /\ heap' = (heap \cup (IF text THEN {new} ELSE {})) \ Overwritten
    BY <1>7
  <2> DEFINE c == IF text THEN new ELSE NoCaption
  <2>2. /\ c \in Captions \cup {NoCaption} /\ c \notin MarkerCaptions(markers)
        /\ c \notin RingCaptions(undo) /\ Real(c) = IF text THEN {new} ELSE {}
    BY <1>5, CaptionAssumption DEF MarkerCaptions, RingCaptions, Real
  <2>3. Real(m.cap) \subseteq MarkerCaptions(markers) /\ NoCaption \notin RingCaptions(undo)
    BY <1>1, <1>2 DEF Real, MarkerCaptions, RingCaptions, Positioned, Framed
  <2>4. m.cap \notin RingCaptions(undo)
    BY <1>5, <2>3 DEF Real
  <2>5. markers' = [markers EXCEPT ![seg + 1].cap = c] /\ UndoAddEvent(e)
        /\ heap' = (heap \cup Real(c)) \ Overwritten
    BY <2>1, <2>2
  <2> HIDE DEF c, m
  <2>6. /\ Tidy(markers')
        /\ MarkerCaptions(markers') = (MarkerCaptions(markers) \ {m.cap}) \cup Real(c)
    <3>1. Framed(markers) /\ seg + 1 \in 1 .. Len(markers) - 1
      BY <1>1, <1>2 DEF Positioned
    <3>2. m.cap = markers[seg + 1].cap
      BY DEF m
    <3> DEFINE k == seg + 1
    <3> HIDE DEF k
    <3>3. /\ k \in 1 .. Len(markers) - 1 /\ markers' = [markers EXCEPT ![k].cap = c]
          /\ m.cap = markers[k].cap
      BY <2>5, <3>1, <3>2 DEF k
    <3> DEFINE r == [markers[k] EXCEPT !.cap = c]
    <3>4. markers[k] \in Marker
      BY <3>1, <3>3 DEF Framed
    <3>5. r \in Marker /\ r.cap = c
      BY <2>2, <3>4 DEF Marker
    <3>6. markers' = [markers EXCEPT ![k] = r]
      BY <3>3
    <3> HIDE DEF r
    <3>7. r.cap \notin MarkerCaptions(markers)
      BY <2>2, <3>5
    <3>8. Framed(markers) /\ Tidy(markers) /\ k \in 1 .. Len(markers) - 1
      BY <1>5, <3>1, <3>3
    <3>9. /\ Tidy(markers')
          /\ MarkerCaptions(markers') =
               (MarkerCaptions(markers) \ {markers[k].cap}) \cup Real(r.cap)
      BY <3>5, <3>6, <3>7, <3>8, ReplaceCaption
    <3> QED
      BY <3>3, <3>5, <3>9
  <2>7. /\ OneEachSlot(undo') /\ Overwritten \subseteq RingCaptions(undo)
        /\ RingCaptions(undo') = (RingCaptions(undo) \ Overwritten) \cup Real(m.cap)
    BY <1>1, <1>4, <1>5, <2>4, <2>5, AddedEvent DEF RestTyped
  <2>8. Owned(markers', undo', heap')
    <3> DEFINE M == MarkerCaptions(markers)
               U == RingCaptions(undo)
               M2 == MarkerCaptions(markers')
               U2 == RingCaptions(undo')
               old == Real(m.cap)
               added == Real(c)
    <3>1. M \cup U \subseteq heap /\ M \cap U = {}
      BY <1>5 DEF Owned
    <3>2. added \cap (M \cup U) = {} /\ NoCaption \notin added
      BY <2>2 DEF Real
    <3>3. M2 = (M \ {m.cap}) \cup added
      BY <2>6
    <3>4. old \subseteq M /\ old \subseteq {m.cap}
      BY <2>3 DEF Real
    <3>5. U2 = (U \ Overwritten) \cup old /\ Overwritten \subseteq U
      BY <2>7
    <3>6. heap' = (heap \cup added) \ Overwritten
      BY <2>5
    <3> HIDE DEF M, U, M2, U2, old, added
    <3>7. M2 \cup U2 \subseteq heap'
      BY <3>1, <3>2, <3>3, <3>4, <3>5, <3>6
    <3>8. M2 \cap U2 = {}
      BY <3>1, <3>2, <3>3, <3>4, <3>5
    <3> QED
      BY <2>6, <2>7, <3>7, <3>8 DEF Owned, Tidy, M2, U2
  <2> QED
    BY <2>6, <2>8, JoinCaptions DEF Tidy
<1> QED
  BY <1>3, <1>6, <1>7

-----------------------------------------------------------------------------
(* The other actions.                                                      *)

LEMMA BookmarkKeysOwn == IndInv /\ CaptionInv /\ BookmarkKey => CaptionInv'
<1> SUFFICES ASSUME IndInv, CaptionInv, BookmarkKey PROVE CaptionInv'
  OBVIOUS
<1>1. RestTyped /\ Positioned
  BY EditingIsPositioned
     DEF BookmarkKey, AddBookmarkKey, DeleteBookmarkKey, MoveBookmarkKey, Editing
<1>2. /\ markers' = markers
      /\ \E p, q, infOk :
           /\ infOk \in BOOLEAN
           /\ IF infOk THEN UndoAddEvent(BookmarkEvent(p, q)) ELSE UNCHANGED undoVars
           /\ heap' = IF infOk THEN heap \ Overwritten ELSE heap
  BY Zenon DEF BookmarkKey, AddBookmarkKey, DeleteBookmarkKey, MoveBookmarkKey
<1>3. PICK p, q, infOk :
        /\ infOk \in BOOLEAN
        /\ IF infOk THEN UndoAddEvent(BookmarkEvent(p, q)) ELSE UNCHANGED undoVars
        /\ heap' = IF infOk THEN heap \ Overwritten ELSE heap
  BY <1>2
<1>4. CASE infOk
  <2>1. /\ UndoAddEvent(BookmarkEvent(p, q)) /\ BookmarkEvent(p, q).cap = NoCaption
        /\ heap' = heap \ Overwritten
    BY <1>3, <1>4 DEF BookmarkEvent
  <2>2. Tidy(markers') /\ MarkerCaptions(markers') = MarkerCaptions(markers)
    BY <1>1, <1>2, EditingIsTidy
  <2> QED
    BY <1>1, <2>1, <2>2, PlainEventAdded
<1>5. CASE ~infOk
  BY <1>2, <1>3, <1>5, ListAndRingUntouched DEF undoVars
<1> QED
  BY <1>3, <1>4, <1>5

\* What every branch of UndoLastAction shows: the list, and the ring without the
\* event that is taken off, own their buffers.
BranchOwns(ms, h, cap) ==
  /\ Tidy(ms)
  /\ MarkerCaptions(ms) \cup (RingCaptions(undo) \ {cap}) \subseteq h
  /\ MarkerCaptions(ms) \cap (RingCaptions(undo) \ {cap}) = {}

LEMMA UndoDeletedMarkerOwns ==
  ASSUME Positioned, RestTyped, CaptionInv, NEW e \in Event, e.prev \in Blocks,
         e.cap \in RingCaptions(undo) \cup {NoCaption}, UndoDeletedMarker(e)
  PROVE  BranchOwns(markers', heap', e.cap)
<1>1. /\ Tidy(markers) /\ OneEachSlot(undo)
      /\ MarkerCaptions(markers) \cup RingCaptions(undo) \subseteq heap
      /\ MarkerCaptions(markers) \cap RingCaptions(undo) = {}
  BY EditingIsTidy
<1>2. heap' = heap
  BY DEF UndoDeletedMarker
<1>3. CASE MayAdd(markers, e.prev, FALSE)
  <2>1. e.sel \in BOOLEAN /\ e.cap \in Captions \cup {NoCaption}
    BY DEF Event
  <2>2. AddSegmentMarker(e.prev, e.sel, e.cap)
    BY <1>3 DEF UndoDeletedMarker
  <2>3. e.cap \notin MarkerCaptions(markers) /\ Real(e.cap) \subseteq RingCaptions(undo)
    BY <1>1 DEF MarkerCaptions, Real
  <2>4. Tidy(markers') /\ MarkerCaptions(markers') = MarkerCaptions(markers) \cup Real(e.cap)
    BY <1>1, <2>1, <2>2, <2>3, AddedCaptions DEF Positioned
  <2> QED
    BY <1>1, <1>2, <2>3, <2>4 DEF BranchOwns, Real
<1>4. CASE ~MayAdd(markers, e.prev, FALSE)
  <2>1. markers' = markers
    BY <1>4 DEF UndoDeletedMarker
  <2> QED
    BY <1>1, <1>2, <2>1 DEF BranchOwns
<1> QED
  BY <1>3, <1>4

LEMMA UndoAtMarkerOwns ==
  ASSUME Positioned, RestTyped, CaptionInv, NEW e \in Event, e.prev \in Blocks,
         e.cap \in RingCaptions(undo) \cup {NoCaption},
         NEW i \in 0 .. Len(markers) - 2, UndoAtMarker(e, i)
  PROVE  BranchOwns(markers', heap', e.cap)
<1>1. /\ Tidy(markers) /\ OneEachSlot(undo)
      /\ MarkerCaptions(markers) \cup RingCaptions(undo) \subseteq heap
      /\ MarkerCaptions(markers) \cap RingCaptions(undo) = {}
  BY EditingIsTidy
<1>2. CASE /\ heap' = heap \ {markers[i + 1].cap}
           /\ markers' = [markers EXCEPT ![i + 1].cap = e.cap]
  <2> DEFINE k == i + 1
             cap == e.cap
  <2>1. /\ k \in 1 .. Len(markers) - 1 /\ Framed(markers)
        /\ cap \in Captions \cup {NoCaption} /\ cap \notin MarkerCaptions(markers)
        /\ markers' = [markers EXCEPT ![k].cap = cap]
    BY <1>1, <1>2 DEF Positioned, Framed, Event, MarkerCaptions
  <2>2. heap' = heap \ {markers[k].cap}
    BY <1>2
  <2>3. markers[k].cap \in MarkerCaptions(markers) \cup {NoCaption}
    BY <2>1 DEF MarkerCaptions, Framed
  <2>4. NoCaption \notin RingCaptions(undo) /\ Real(cap) \subseteq RingCaptions(undo)
    BY DEF RingCaptions, Real
  <2> HIDE DEF k
  <2>5. /\ Tidy(markers')
        /\ MarkerCaptions(markers') = (MarkerCaptions(markers) \ {markers[k].cap}) \cup Real(cap)
    <3> DEFINE r == [markers[k] EXCEPT !.cap = cap]
    <3>1. markers[k] \in Marker
      BY <2>1 DEF Framed
    <3>2. cap \in Captions \cup {NoCaption} /\ cap \notin MarkerCaptions(markers)
      BY <2>1
    <3> HIDE DEF cap
    <3>3. r \in Marker /\ r.cap = cap
      BY <3>1, <3>2 DEF Marker
    <3>4. markers' = [markers EXCEPT ![k] = r]
      BY <2>1
    <3> HIDE DEF r
    <3>5. r.cap \notin MarkerCaptions(markers)
      BY <3>2, <3>3
    <3>6. k \in 1 .. Len(markers) - 1 /\ Framed(markers)
      BY <2>1
    <3>7. /\ Tidy(markers')
          /\ MarkerCaptions(markers') =
               (MarkerCaptions(markers) \ {markers[k].cap}) \cup Real(r.cap)
      BY <1>1, <3>3, <3>4, <3>5, <3>6, ReplaceCaption, ZenonT(30)
    <3> QED
      BY <3>3, <3>7
  <2> QED
    BY <1>1, <2>2, <2>3, <2>4, <2>5 DEF BranchOwns, Real
<1>3. CASE /\ IF MayMove(markers, i, e.prev, FALSE) THEN MoveSegmentMarker(i, e.prev)
              ELSE UNCHANGED markers
           /\ heap' = heap
  <2>1. Tidy(markers') /\ MarkerCaptions(markers') = MarkerCaptions(markers)
    <3>1. CASE MayMove(markers, i, e.prev, FALSE)
      <4>1. i \in Interior(markers) /\ MoveSegmentMarker(i, e.prev)
        BY <1>3, <3>1 DEF MayMove
      <4> QED
        BY <1>1, <4>1, MovedCaptions DEF Positioned
    <3>2. CASE ~MayMove(markers, i, e.prev, FALSE)
      BY <1>1, <1>3, <3>2
    <3> QED
      BY <3>1, <3>2
  <2> QED
    BY <1>1, <1>3, <2>1 DEF BranchOwns
<1>4. CASE IF i \in Interior(markers)
           THEN DeleteSegmentMarker(i) /\ heap' = heap \ {markers[i + 1].cap}
           ELSE UNCHANGED <<markers, heap>>
  <2>1. CASE i \in Interior(markers)
    <3>1. markers' = [RemoveAt(markers, i + 1)
                        EXCEPT ![Len(RemoveAt(markers, i + 1))].sel = FALSE]
      BY <1>4, <2>1 DEF DeleteSegmentMarker
    <3>2. /\ Tidy(markers')
          /\ MarkerCaptions(markers') = MarkerCaptions(markers) \ {markers[i + 1].cap}
      BY <1>1, <2>1, <3>1, RemoveCaptions DEF Positioned
    <3>3. markers[i + 1].cap \in MarkerCaptions(markers) \cup {NoCaption}
      BY <2>1 DEF MarkerCaptions, Positioned, Framed, Interior, Nr
    <3>4. NoCaption \notin RingCaptions(undo) /\ heap' = heap \ {markers[i + 1].cap}
      BY <1>4, <2>1 DEF RingCaptions
    <3> QED
      BY <1>1, <3>2, <3>3, <3>4 DEF BranchOwns
  <2>2. CASE i \notin Interior(markers)
    <3>1. markers' = markers /\ heap' = heap
      BY <1>4, <2>2
    <3> QED
      BY <1>1, <3>1 DEF BranchOwns
  <2> QED
    BY <2>1, <2>2
<1> QED
  BY <1>2, <1>3, <1>4 DEF UndoAtMarker

LEMMA UndoKeyOwns == IndInv /\ CaptionInv /\ UndoKey => CaptionInv'
<1> SUFFICES ASSUME IndInv, CaptionInv, UndoKey PROVE CaptionInv'
  OBVIOUS
<1>1. RestTyped /\ Positioned
  BY EditingIsPositioned DEF UndoKey, Editing
<1> DEFINE e == undo[undoLast]
           i == EventMarker(markers, e)
<1>2. /\ e \in Event /\ e.seg => e.prev \in Blocks
      /\ i \in (0 .. Len(markers) - 2) \cup {-1}
  BY <1>1, EventMarkerInRange DEF RestTyped, RingTyped, EventsInRange, Positioned
<1>3. /\ IF ~e.seg THEN UndoBookmark(e)
         ELSE IF e.new = 0 /\ e.prev # 0 THEN UndoDeletedMarker(e)
         ELSE IF i >= 0 THEN UndoAtMarker(e, i)
         ELSE UNCHANGED <<markers, active, bookmarks, jumpSeg, heap>>
      /\ Popped
  BY Zenon DEF UndoKey
<1>4. /\ Tidy(markers) /\ OneEachSlot(undo)
      /\ MarkerCaptions(markers) \cup RingCaptions(undo) \subseteq heap
      /\ MarkerCaptions(markers) \cap RingCaptions(undo) = {}
  BY <1>1, EditingIsTidy
<1>5. /\ OneEachSlot(undo') /\ e.cap \in RingCaptions(undo) \cup {NoCaption}
      /\ RingCaptions(undo') = RingCaptions(undo) \ {e.cap}
  BY <1>1, <1>3, <1>4, PoppedEvent DEF RestTyped
<1>6. e \in Event
  BY <1>1 DEF RestTyped, RingTyped
<1> HIDE DEF e, i
<1>7. BranchOwns(markers', heap', e.cap)
  <2>1. CASE e.seg /\ UndoDeletedMarker(e)
    BY <1>1, <1>2, <1>5, <1>6, <2>1, UndoDeletedMarkerOwns
  <2>2. CASE e.seg /\ i >= 0 /\ UndoAtMarker(e, i)
    <3>1. i \in 0 .. Len(markers) - 2
      BY <1>2, <2>2
    <3> QED
      BY <1>1, <1>2, <1>5, <1>6, <2>2, <3>1, UndoAtMarkerOwns
  <2>3. CASE markers' = markers /\ heap' = heap
    BY <1>4, <2>3 DEF BranchOwns
  <2>4. UndoBookmark(e) => markers' = markers /\ heap' = heap
    BY DEF UndoBookmark
  <2> QED
    BY <1>3, <2>1, <2>2, <2>3, <2>4
<1>8. Owned(markers', undo', heap')
  BY <1>5, <1>7 DEF BranchOwns, Owned, Tidy
<1> QED
  BY <1>7, <1>8, JoinCaptions DEF BranchOwns, Tidy

\* "Select even/odd" and "unselect all" leave the captions and the end marker.
LEMMA MenuSelectOwns == IndInv /\ CaptionInv /\ MenuSelect => CaptionInv'
<1> SUFFICES ASSUME IndInv, CaptionInv, MenuSelect PROVE CaptionInv'
  OBVIOUS
<1>1. RestTyped /\ Positioned
  BY EditingIsPositioned DEF MenuSelect
<1>2. PICK S : markers' = [k \in DOMAIN markers |->
                             IF k < Nr(markers) THEN [markers[k] EXCEPT !.sel = (k \in S)]
                             ELSE markers[k]]
  BY Zenon DEF MenuSelect
<1> DEFINE n == Len(markers)
<1>3. /\ markers \in Seq(Marker) /\ n \in Nat /\ DOMAIN markers = 1 .. n /\ n \in 1 .. n
  BY <1>1 DEF Positioned, Framed
<1>4. markers' \in Seq(Marker) /\ Len(markers') = n
  BY <1>1, <1>2, SelectionKeepsFrame DEF Positioned, Framed
<1>5. \A k \in 1 .. n : markers'[k].cap = markers[k].cap
  <2> TAKE k \in 1 .. n
  <2>1. markers[k] \in Marker
    BY <1>3
  <2>2. [markers[k] EXCEPT !.sel = (k \in S)].cap = markers[k].cap
    BY <2>1 DEF Marker
  <2>3. \/ markers'[k] = [markers[k] EXCEPT !.sel = (k \in S)]
        \/ markers'[k] = markers[k]
    BY <1>2, <1>3
  <2> QED
    BY <2>2, <2>3, Zenon
<1>6. markers'[n] = markers[n]
  BY <1>2, <1>3 DEF Nr
<1>7. ~markers'[n].sel
  BY <1>1, <1>6, EditingIsTidy DEF Tidy, EndPlain
<1>8. undo' = undo /\ heap' = heap
  BY DEF MenuSelect, undoVars
<1> QED
  BY <1>1, <1>4, <1>5, <1>7, <1>8, CaptionsUntouched

LEMMA MenuCopySegmentsOwns == IndInv /\ CaptionInv /\ MenuCopySegments => CaptionInv'
<1> SUFFICES ASSUME IndInv, CaptionInv, MenuCopySegments PROVE CaptionInv'
  OBVIOUS
<1>1. RestTyped /\ Positioned
  BY EditingIsPositioned DEF MenuCopySegments
<1>2. undo' = undo /\ heap' = heap
  BY DEF MenuCopySegments, undoVars
<1>3. markers' = markers \/ markers' = [markers EXCEPT ![active + 1].sel = TRUE]
  BY DEF MenuCopySegments
<1>4. active \in 0 .. Len(markers) - 2
  BY <1>1 DEF Positioned
<1>5. CASE markers' = markers
  BY <1>2, <1>5, ListAndRingUntouched
<1>6. CASE markers' = [markers EXCEPT ![active + 1].sel = TRUE]
  BY <1>1, <1>2, <1>4, <1>6, SelectedCaptions
<1> QED
  BY <1>3, <1>5, <1>6

\* UndoResetStack with the freeing of what the ring held.
LEMMA ResetOwns ==
  ASSUME UndoResetStack
  PROVE  OneEachSlot(undo') /\ RingCaptions(undo') = {}
BY BlankRing DEF UndoResetStack

LEMMA DeleteAllOwns ==
  ASSUME Positioned, CaptionInv, DeleteAllSegmentMarkers
  PROVE  CaptionInv'
<1>1. Tidy(markers) /\ Framed(markers)
  BY EditingIsTidy DEF Positioned
<1>2. CASE Nr(markers) > 2
  <2>1. markers' = EndsOf(markers) /\ UndoResetStack
    BY <1>2 DEF DeleteAllSegmentMarkers
  <2>2. Tidy(markers') /\ MarkerCaptions(markers') = {}
    BY <1>1, <1>2, <2>1, EndsCaptions DEF Nr
  <2>3. OneEachSlot(undo') /\ RingCaptions(undo') = {}
    BY <2>1, ResetOwns
  <2> QED
    BY <2>2, <2>3, JoinCaptions DEF Tidy, Owned
<1>3. CASE ~(Nr(markers) > 2)
  <2>1. markers' = [markers EXCEPT ![1].sel = FALSE] /\ undo' = undo /\ heap' = heap
    BY <1>3 DEF DeleteAllSegmentMarkers, undoVars
  <2> DEFINE i == 0
  <2>2. i \in 0 .. Len(markers) - 2 /\ markers' = [markers EXCEPT ![i + 1].sel = FALSE]
    BY <1>1, <2>1 DEF Framed
  <2> HIDE DEF i
  <2> QED
    BY <2>1, <2>2, SelectedCaptions
<1> QED
  BY <1>2, <1>3

\* The steps that at most empty the ring.
LEMMA RingEmptied ==
  ASSUME CaptionInv, markers' = markers,
         \/ UndoResetStack /\ heap' = heap \ UndoCaptions
         \/ undo' = undo /\ heap' = heap
  PROVE  CaptionInv'
<1>1. CASE UndoResetStack /\ heap' = heap \ UndoCaptions
  <2>1. OneEachSlot(undo') /\ RingCaptions(undo') = {} /\ UndoCaptions = RingCaptions(undo)
    BY <1>1, ResetOwns DEF UndoCaptions, RingCaptions
  <2>2. Owned(markers', undo', heap') /\ (markers' # <<>> => EndPlain(markers'))
    BY <1>1, <2>1 DEF CaptionInv, Owned
  <2> QED
    BY <2>2 DEF CaptionInv, Owned, EndPlain, OneEach, OneEachSlot, MarkerCaptions, RingCaptions
<1>2. CASE undo' = undo /\ heap' = heap
  BY <1>2, ListAndRingUntouched
<1> QED
  BY <1>1, <1>2

LEMMA StartPlaybackOwns == CaptionInv /\ StartPlayback => CaptionInv'
<1> SUFFICES ASSUME CaptionInv, StartPlayback PROVE CaptionInv'
  OBVIOUS
<1>1. PICK l \in LoadableMarkers \cup {<<0, TotalBlock>>} : markers' = MarkerList(l)
  BY DEF StartPlayback
<1>2. Tidy(markers') /\ MarkerCaptions(markers') = {}
  BY <1>1, LoadedCaptions
<1>3. undo' = undo /\ heap' = heap \ MarkerCaptions(markers)
  BY DEF StartPlayback, undoVars
<1>4. Owned(markers', undo', heap')
  BY <1>2, <1>3 DEF CaptionInv, Owned, Tidy
<1> QED
  BY <1>2, <1>4, JoinCaptions DEF Tidy

LEMMA ImportStepOwns == IndInv /\ CaptionInv /\ ImportStep => CaptionInv'
<1> SUFFICES ASSUME IndInv, CaptionInv, ImportStep PROVE CaptionInv'
  OBVIOUS
<1>1. RestTyped /\ Positioned
  <2>1. RestTyped
    BY SplitIndInv
  <2>2. state = "ActiveOSD"
    BY <2>1 DEF ImportStep, RestTyped, ImportWhileActive
  <2> QED
    BY <2>2, EditingIsPositioned
<1> DEFINE b == IFrame(bookmarks[import + 1])
<1>2. b \in Blocks
  <2>1. import \in 0 .. Len(bookmarks) - 1
    BY <1>1, SizesAreNaturals DEF ImportStep, ImportLimit, RestTyped
  <2>2. bookmarks[import + 1] \in Blocks
    BY <1>1, <2>1 DEF RestTyped
  <2> QED
    BY <2>2, IFrameInRange
<1>3. undo' = undo /\ heap' = heap
  BY DEF ImportStep, undoVars
<1>4. AddSegmentMarker(b, FALSE, NoCaption) \/ markers' = markers
  BY DEF ImportStep
<1> HIDE DEF b
<1>5. CASE AddSegmentMarker(b, FALSE, NoCaption)
  <2>1. NoCaption \notin MarkerCaptions(markers) /\ Real(NoCaption) = {} /\ Tidy(markers)
    BY <1>1, EditingIsTidy DEF MarkerCaptions, Real
  <2>2. Tidy(markers') /\ MarkerCaptions(markers') = MarkerCaptions(markers)
    BY <1>1, <1>2, <1>5, <2>1, AddedCaptions DEF Positioned
  <2>3. Owned(markers', undo', heap')
    BY <1>3, <2>2 DEF CaptionInv, Owned, Tidy
  <2> QED
    BY <2>2, <2>3, JoinCaptions DEF Tidy
<1>6. CASE markers' = markers
  BY <1>3, <1>6, ListAndRingUntouched
<1> QED
  BY <1>4, <1>5, <1>6

LEMMA NavigationOwns == CaptionInv /\ Navigation => CaptionInv'
<1> SUFFICES ASSUME CaptionInv, Navigation PROVE CaptionInv'
  OBVIOUS
<1>1. markers' = markers /\ undo' = undo /\ heap' = heap
  BY DEF Navigation, RequestSegment, RequestBlock, CancelJump, ExecuteJump, Idle,
     JumpToSegment, JumpElsewhere, undoVars
<1> QED
  BY <1>1, ListAndRingUntouched

LEMMA StepsOwn == IndInv /\ CaptionInv /\ [Next]_vars => CaptionInv'
<1> SUFFICES ASSUME IndInv, CaptionInv, [Next]_vars PROVE CaptionInv'
  OBVIOUS
<1>1. CASE EditKey
  BY <1>1, AddMarkerKeyOwns, DeleteMarkerKeyOwns, MoveMarkerKeyOwns, CaptionKeyOwns
     DEF EditKey
<1>2. CASE BookmarkKey
  BY <1>2, BookmarkKeysOwn
<1>3. CASE UndoKey
  BY <1>3, UndoKeyOwns
<1>4. CASE SelectKey
  BY <1>4, SelectKeyOwns
<1>5. CASE ToggleBookmarkMode
  BY <1>5, ListAndRingUntouched DEF ToggleBookmarkMode, undoVars
<1>6. CASE Navigation
  BY <1>6, NavigationOwns
<1>7. CASE Menu
  <2>1. CASE OpenMenu \/ CloseMenu \/ LeaveSubMenu \/ ImportEnd
    BY <2>1, ListAndRingUntouched DEF OpenMenu, CloseMenu, LeaveSubMenu, ImportEnd, undoVars
  <2>2. CASE MenuSelect \/ MenuCopySegments
    BY <2>2, MenuSelectOwns, MenuCopySegmentsOwns
  <2>3. CASE MenuClearMarkers \/ MenuImport
    <3>1. Positioned
      BY <2>3, EditingIsPositioned DEF MenuClearMarkers, MenuImport
    <3>2. DeleteAllSegmentMarkers
      BY <2>3 DEF MenuClearMarkers, MenuImport
    <3> QED
      BY <3>1, <3>2, DeleteAllOwns
  <2>4. CASE MenuClearBookmarks \/ MenuExport
    BY <2>4, RingEmptied DEF MenuClearBookmarks, MenuExport, undoVars
  <2>5. CASE ImportStep
    BY <2>5, ImportStepOwns
  <2> QED
    BY <1>7, <2>1, <2>2, <2>3, <2>4, <2>5 DEF Menu
<1>8. CASE Session
  <2>1. CASE StartPlayback
    BY <2>1, StartPlaybackOwns
  <2>2. CASE PlaybackEnds
    BY <2>2, RingEmptied DEF PlaybackEnds
  <2>3. CASE Deactivate \/ Reactivate
    BY <2>3, ListAndRingUntouched DEF Deactivate, Reactivate, undoVars
  <2> QED
    BY <1>8, <2>1, <2>2, <2>3 DEF Session
<1>9. CASE UNCHANGED vars
  BY <1>9, ListAndRingUntouched DEF vars, undoVars
<1> QED
  BY <1>1, <1>2, <1>3, <1>4, <1>5, <1>6, <1>7, <1>8, <1>9 DEF Next

LEMMA InitOwns == Init => CaptionInv
<1> SUFFICES ASSUME Init PROVE CaptionInv
  OBVIOUS
<1>1. markers = <<>> /\ undo = [k \in Slots |-> Blank]
  BY DEF Init
<1>2. OneEach(markers) /\ MarkerCaptions(markers) = {}
  BY <1>1 DEF OneEach, MarkerCaptions
<1> QED
  BY <1>1, <1>2, BlankRing DEF CaptionInv, Owned

-----------------------------------------------------------------------------
(* The search of the nearest marker and the distance of a moved one.       *)

LEMMA DistanceIs ==
  ASSUME NEW a \in Nat, NEW b \in Nat
  PROVE  Distance(a, b) \in Nat /\ (a <= b => Distance(a, b) = b - a)
                                /\ (b <= a => Distance(a, b) = a - b)
BY DEF Distance

\* The loop that leaves at the first marker which is not nearer than its
\* predecessor finds a nearest one in a strictly sorted list.
LEMMA NearestOfSorted ==
  ASSUME NEW ms \in Seq(Marker), StrictlySorted(ms), NEW b \in Blocks
  PROVE  LET i == FindNearestSegmentMarker(ms, b)
         IN  /\ i = -1 <=> Interior(ms) = {}
             /\ \A j \in Interior(ms) :
                  Distance(BlockAt(ms, i), b) <= Distance(BlockAt(ms, j), b)
<1> DEFINE D(k) == Distance(BlockAt(ms, k), b)
           N == {k \in Interior(ms) : \A j \in 2 .. k : D(j) < D(j - 1)}
           i == FindNearestSegmentMarker(ms, b)
           n == Len(ms)
<1>1. n \in Nat /\ DOMAIN ms = 1 .. n /\ Interior(ms) = 1 .. n - 2
  BY DEF Interior, Nr
<1>2. i = IF N = {} THEN -1 ELSE Max(N)
  BY DEF FindNearestSegmentMarker
<1>3. b \in Nat /\ \A k \in 0 .. n - 1 : BlockAt(ms, k) \in Nat
  <2>1. \A k \in 0 .. n - 1 : k + 1 \in 1 .. n /\ ms[k + 1] \in Marker
    BY <1>1
  <2> QED
    BY <2>1, SizesAreNaturals DEF BlockAt, Marker, Blocks
<1>4. \A j, k \in 0 .. n - 1 : j < k => BlockAt(ms, j) < BlockAt(ms, k)
  <2> TAKE j, k \in 0 .. n - 1
  <2> HAVE j < k
  <2>1. j + 1 \in 1 .. n /\ k + 1 \in 1 .. n /\ j + 1 < k + 1
    BY <1>1
  <2> QED
    BY <1>1, <2>1 DEF StrictlySorted, BlockAt
<1>5. CASE Interior(ms) = {}
  BY <1>2, <1>5
<1>6. CASE Interior(ms) # {}
  <2>1. 1 \in N
    BY <1>1, <1>6
  <2>2. N \subseteq 0 .. n /\ N # {}
    BY <1>1, <2>1
  <2>3. i \in N /\ \A k \in N : k <= i
    <3> HIDE DEF N
    <3> QED
      BY <1>1, <1>2, <2>2, MaxIsGreatest
  <2> HIDE DEF i
  <2>4. i \in 1 .. n - 2 /\ \A k \in 2 .. i : D(k) < D(k - 1)
    BY <1>1, <2>3
  <2>5. ASSUME NEW j \in 1 .. n - 2, j < i PROVE D(i) <= D(j)
    <3>1. i \in 2 .. i /\ i - 1 \in 0 .. n - 1 /\ j \in 0 .. n - 1 /\ i \in 0 .. n - 1
      BY <1>1, <2>4, <2>5
    <3>2. D(i) < D(i - 1)
      BY <2>4, <3>1
    <3>3. BlockAt(ms, i - 1) < BlockAt(ms, i)
      BY <1>1, <1>4, <2>4, <3>1
    <3>4. BlockAt(ms, j) <= BlockAt(ms, i - 1)
      <4>1. CASE j = i - 1
        BY <1>3, <3>1, <4>1
      <4>2. CASE j # i - 1
        <5>1. j < i - 1
          BY <2>4, <2>5, <4>2
        <5>2. BlockAt(ms, j) < BlockAt(ms, i - 1)
          BY <1>4, <3>1, <5>1
        <5> QED
          BY <1>3, <3>1, <5>2
      <4> QED
        BY <4>1, <4>2
    <3> DEFINE x == BlockAt(ms, j)
               y == BlockAt(ms, i - 1)
               z == BlockAt(ms, i)
    <3>5. x \in Nat /\ y \in Nat /\ z \in Nat /\ b \in Nat /\ x <= y /\ y < z
          /\ Distance(z, b) < Distance(y, b)
      BY <1>3, <3>1, <3>2, <3>3, <3>4
    <3>6. Distance(z, b) <= Distance(x, b)
      <4> HIDE DEF x, y, z
      <4> QED
        BY <3>5 DEF Distance
    <3> QED
      BY <3>6
  <2>6. ASSUME NEW j \in 1 .. n - 2, i < j PROVE D(i) <= D(j)
    <3>1. /\ i + 1 \in 1 .. n - 2 /\ i + 1 \in 0 .. n - 1 /\ j \in 0 .. n - 1
          /\ i \in 0 .. n - 1
      BY <1>1, <2>4, <2>6
    <3>2. ~(D(i + 1) < D(i))
      <4>1. i + 1 \notin N
        BY <2>3, <2>4
      <4>2. PICK k \in 2 .. i + 1 : ~(D(k) < D(k - 1))
        BY <1>1, <3>1, <4>1
      <4>3. k = i + 1
        BY <2>4, <4>2
      <4>4. (i + 1) - 1 = i
        BY <2>4
      <4> QED
        BY <4>2, <4>3, <4>4
    <3>3. BlockAt(ms, i) < BlockAt(ms, i + 1)
      BY <1>4, <2>4, <3>1
    <3>4. BlockAt(ms, i + 1) <= BlockAt(ms, j)
      <4>1. CASE j = i + 1
        BY <1>3, <3>1, <4>1
      <4>2. CASE j # i + 1
        <5>1. i + 1 < j
          BY <2>4, <2>6, <4>2
        <5>2. BlockAt(ms, i + 1) < BlockAt(ms, j)
          BY <1>4, <3>1, <5>1
        <5> QED
          BY <1>3, <3>1, <5>2
      <4> QED
        BY <4>1, <4>2
    <3> DEFINE x == BlockAt(ms, j)
               y == BlockAt(ms, i + 1)
               z == BlockAt(ms, i)
    <3>5. x \in Nat /\ y \in Nat /\ z \in Nat /\ b \in Nat /\ y <= x /\ z < y
          /\ ~(Distance(y, b) < Distance(z, b))
      BY <1>3, <3>1, <3>2, <3>3, <3>4
    <3>6. Distance(z, b) <= Distance(x, b)
      <4> HIDE DEF x, y, z
      <4> QED
        BY <3>5 DEF Distance
    <3> QED
      BY <3>6
  <2>7. D(i) <= D(i)
    <3>1. BlockAt(ms, i) \in Nat
      BY <1>1, <1>3, <2>4
    <3> QED
      BY <1>3, <3>1 DEF Distance
  <2>8. \A j \in Interior(ms) : D(i) <= D(j)
    <3> TAKE j \in Interior(ms)
    <3>1. j \in 1 .. n - 2
      BY <1>1
    <3>2. j < i \/ i < j \/ j = i
      BY <1>1, <2>4, <3>1
    <3> QED
      BY <2>5, <2>6, <2>7, <3>1, <3>2
  <2>9. i # -1
    BY <1>1, <2>4
  <2> QED
    BY <1>6, <2>8, <2>9 DEF i
<1> QED
  BY <1>5, <1>6

LEMMA MovedKeepsDistance ==
  IndInv /\ MoveMarkerKey =>
    \E i \in 1 .. Len(markers) - 2 :
      /\ markers'[i + 1] # markers[i + 1]
      /\ \A j \in {i - 1, i + 1} \cap (1 .. Len(markers) - 2) :
           Distance(BlockAt(markers', i), BlockAt(markers', j)) > Margin
<1> SUFFICES ASSUME IndInv, MoveMarkerKey
             PROVE  \E i \in 1 .. Len(markers) - 2 :
                      /\ markers'[i + 1] # markers[i + 1]
                      /\ \A j \in {i - 1, i + 1} \cap (1 .. Len(markers) - 2) :
                           Distance(BlockAt(markers', i), BlockAt(markers', j)) > Margin
  OBVIOUS
<1>1. RestTyped /\ Positioned
  BY EditingIsPositioned DEF MoveMarkerKey, Editing
<1>2. PICK pos \in Positions :
        LET at == currentVisibleBlock(pos)
            i  == FindNearestSegmentMarker(markers, at)
            b  == IFrame(at)
        IN  /\ MayMove(markers, i, b, TRUE) /\ MoveSegmentMarker(i, b)
  BY Zenon DEF MoveMarkerKey
<1> DEFINE i == FindNearestSegmentMarker(markers, currentVisibleBlock(pos))
           b == IFrame(currentVisibleBlock(pos))
           n == Len(markers)
<1>3. b \in Blocks
  BY <1>1, VisibleBlockInRange, IFrameInRange
<1>4. MayMove(markers, i, b, TRUE) /\ MoveSegmentMarker(i, b)
  BY <1>2
<1> HIDE DEF i, b
<1>5. n \in Nat /\ i \in 1 .. n - 2 /\ DOMAIN markers = 1 .. n
      /\ i + 1 \in 1 .. n
  BY <1>1, <1>4 DEF MayMove, Interior, Nr, Positioned, Framed
<1>6. /\ BlockAt(markers, i) # b
      /\ i > 1 => ~(b <= BlockAt(markers, i - 1) + Margin)
      /\ i < n - 2 => ~(b + Margin >= BlockAt(markers, i + 1))
  BY <1>4 DEF MayMove, TooSmallToMove, Nr
<1> DEFINE m == [markers[i + 1] EXCEPT !.block = b]
<1>7. markers[i + 1] \in Marker
  BY <1>1, <1>5 DEF Positioned, Framed
<1>8. m.block = b
  BY <1>7 DEF Marker
<1>9. markers' = [markers EXCEPT ![i + 1] = m]
  BY <1>4 DEF MoveSegmentMarker
<1> HIDE DEF m
<1>10. markers'[i + 1] = m /\ \A k \in 1 .. n : k # i + 1 => markers'[k] = markers[k]
  BY <1>5, <1>9
<1>11. BlockAt(markers', i) = b /\ markers'[i + 1] # markers[i + 1]
  BY <1>6, <1>8, <1>10 DEF BlockAt
<1>12. ASSUME NEW j \in {i - 1, i + 1} \cap (1 .. n - 2)
       PROVE  Distance(BlockAt(markers', i), BlockAt(markers', j)) > Margin
  <2>1. j \in 0 .. n - 1 /\ j + 1 \in 1 .. n /\ j + 1 # i + 1
    BY <1>5
  <2>2. BlockAt(markers', j) = BlockAt(markers, j)
    BY <1>10, <2>1 DEF BlockAt
  <2>3. BlockAt(markers, j) \in Nat /\ b \in Nat /\ Margin \in Nat
    BY <1>1, <1>3, <2>1, MarkerAt, SizesAreNaturals DEF Positioned, Blocks
  <2>4. CASE j = i - 1
    <3>1. i > 1
      BY <1>5, <2>4
    <3>2. b > BlockAt(markers, j) + Margin
      BY <1>6, <2>3, <2>4, <3>1
    <3> QED
      BY <1>11, <2>2, <2>3, <3>2 DEF Distance
  <2>5. CASE j = i + 1
    <3>1. i < n - 2
      BY <1>5, <2>5
    <3>2. b + Margin < BlockAt(markers, j)
      BY <1>6, <2>3, <2>5, <3>1
    <3> QED
      BY <1>11, <2>2, <2>3, <3>2 DEF Distance
  <2> QED
    BY <2>4, <2>5
<1> QED
  BY <1>5, <1>11, <1>12

-----------------------------------------------------------------------------
(* The order of the two lists.                                             *)

\* The lists a playback starts with are in order: the firmware's bookmarks, and the
\* markers CutFileLoad leaves (ProperList of CutPersist).
LoadedInOrder ==
  /\ \A l \in LoadableMarkers : \A j, k \in 1 .. Len(l) : j < k => l[j] <= l[k]
  /\ \A l \in LoadableBookmarks : \A j, k \in 1 .. Len(l) : j < k => l[j] <= l[k]

Ascending(f, n) == \A j, k \in 1 .. n : j < k => f[j] <= f[k]

\* Inserting b behind all that is smaller and in front of all that is greater.
LEMMA InsertAscending ==
  ASSUME NEW n \in Nat, NEW f, \A k \in 1 .. n : f[k] \in Int, Ascending(f, n),
         NEW p \in 0 .. n, NEW b \in Int,
         \A k \in 1 .. p : f[k] <= b, \A k \in p + 1 .. n : b <= f[k],
         NEW g,
         \A k \in 1 .. n + 1 : g[k] = IF k < p + 1 THEN f[k] ELSE IF k = p + 1 THEN b ELSE f[k - 1]
  PROVE  Ascending(g, n + 1)
<1> SUFFICES ASSUME NEW j \in 1 .. n + 1, NEW k \in 1 .. n + 1, j < k
             PROVE  g[j] <= g[k]
  BY DEF Ascending
<1>1. CASE k < p + 1
  <2>1. g[j] = f[j] /\ g[k] = f[k] /\ j \in 1 .. n /\ k \in 1 .. n
    BY <1>1
  <2> QED
    BY <2>1 DEF Ascending
<1>2. CASE k = p + 1
  <2>1. g[j] = f[j] /\ g[k] = b /\ j \in 1 .. p
    BY <1>2
  <2> QED
    BY <2>1
<1>3. CASE k > p + 1
  <2>1. g[k] = f[k - 1] /\ k - 1 \in p + 1 .. n /\ k - 1 \in 1 .. n
    BY <1>3
  <2>2. CASE j < p + 1
    <3>1. g[j] = f[j] /\ j \in 1 .. n /\ j < k - 1
      BY <1>3, <2>2
    <3> QED
      BY <2>1, <3>1 DEF Ascending
  <2>3. CASE j = p + 1
    <3>1. g[j] = b
      BY <2>3
    <3> QED
      BY <2>1, <3>1
  <2>4. CASE j > p + 1
    <3>1. g[j] = f[j - 1] /\ j - 1 \in 1 .. n /\ j - 1 < k - 1
      BY <2>4
    <3> QED
      BY <2>1, <3>1 DEF Ascending
  <2> QED
    BY <2>2, <2>3, <2>4
<1> QED
  BY <1>1, <1>2, <1>3

LEMMA RemoveAscending ==
  ASSUME NEW n \in Nat, NEW f, Ascending(f, n), NEW p \in 1 .. n, NEW g,
         \A k \in 1 .. n - 1 : g[k] = IF k < p THEN f[k] ELSE f[k + 1]
  PROVE  Ascending(g, n - 1)
<1> SUFFICES ASSUME NEW j \in 1 .. n - 1, NEW k \in 1 .. n - 1, j < k
             PROVE  g[j] <= g[k]
  BY DEF Ascending
<1> DEFINE old(i) == IF i < p THEN i ELSE i + 1
<1>1. g[j] = f[old(j)] /\ g[k] = f[old(k)]
  OBVIOUS
<1>2. old(j) \in 1 .. n /\ old(k) \in 1 .. n /\ old(j) < old(k)
  OBVIOUS
<1> HIDE DEF old
<1> QED
  BY <1>1, <1>2 DEF Ascending

\* One element changes to a value between its two neighbours.
LEMMA ReplaceAscending ==
  ASSUME NEW n \in Nat, NEW f, \A k \in 1 .. n : f[k] \in Int, Ascending(f, n),
         NEW p \in 2 .. n - 1, NEW g, g[p] \in Int, f[p - 1] <= g[p], g[p] <= f[p + 1],
         \A k \in 1 .. n : k # p => g[k] = f[k]
  PROVE  Ascending(g, n)
<1> SUFFICES ASSUME NEW j \in 1 .. n, NEW k \in 1 .. n, j < k
             PROVE  g[j] <= g[k]
  BY DEF Ascending
<1>1. CASE j # p /\ k # p
  BY <1>1 DEF Ascending
<1>2. CASE j = p
  <2>1. g[k] = f[k] /\ p + 1 \in 1 .. n /\ p + 1 <= k
    BY <1>2
  <2>2. f[p + 1] <= f[k]
    BY <2>1 DEF Ascending
  <2> QED
    BY <1>2, <2>1, <2>2
<1>3. CASE k = p
  <2>1. g[j] = f[j] /\ p - 1 \in 1 .. n /\ j <= p - 1
    BY <1>3
  <2>2. f[j] <= f[p - 1]
    BY <2>1 DEF Ascending
  <2> QED
    BY <1>3, <2>1, <2>2
<1> QED
  BY <1>1, <1>2, <1>3

BlocksIn(ms) == [k \in 1 .. Len(ms) |-> ms[k].block]

LEMMA SortedIsAscending ==
  ASSUME NEW ms \in Seq(Marker)
  PROVE  /\ Sorted(ms) <=> Ascending(BlocksIn(ms), Len(ms))
         /\ \A k \in 1 .. Len(ms) : BlocksIn(ms)[k] \in Nat /\ BlocksIn(ms)[k] = ms[k].block
<1>1. DOMAIN ms = 1 .. Len(ms) /\ \A k \in 1 .. Len(ms) : ms[k] \in Marker
  OBVIOUS
<1>2. \A k \in 1 .. Len(ms) : ms[k].block \in Nat
  BY <1>1 DEF Marker, Blocks
<1> QED
  BY <1>1, <1>2 DEF Sorted, Ascending, BlocksIn

\* A step that leaves the block of every marker.
LEMMA SameBlocks ==
  ASSUME Sorted(markers), DOMAIN markers' = DOMAIN markers,
         \A k \in DOMAIN markers : markers'[k].block = markers[k].block
  PROVE  Sorted(markers')
BY DEF Sorted

\* AddSegmentMarker puts the marker in front of the first that is not smaller.
LEMMA InsertIndexIsPlace ==
  ASSUME NEW ms, Framed(ms), Sorted(ms), NEW b \in Blocks
  PROVE  LET i == InsertIndex(ms, b)
         IN  /\ i \in 1 .. Len(ms) - 1
             /\ \A k \in 1 .. i : ms[k].block <= b
             /\ \A k \in i + 1 .. Len(ms) : b <= ms[k].block
<1> DEFINE I == {i \in 1 .. Nr(ms) - 1 : BlockAt(ms, i) >= b}
           i == InsertIndex(ms, b)
           n == Len(ms)
<1>1. /\ ms \in Seq(Marker) /\ n \in Nat /\ 2 <= n /\ ms[1].block = 0 /\ b \in Nat
      /\ DOMAIN ms = 1 .. n
  BY SizesAreNaturals DEF Framed, Blocks
<1>2. i \in 1 .. n - 1 /\ BlockAt(ms, i) >= b
  BY InsertIndexInRange
<1>3. \A x \in I : i <= x
  <2>1. I \subseteq Nat /\ i \in I /\ i = Min(I)
    BY <1>1, <1>2 DEF InsertIndex, Nr
  <2> HIDE DEF I, i
  <2> QED
    BY <2>1, MinIsLeast
<1>4. \A k \in 1 .. n : ms[k].block \in Nat
  BY <1>1, SortedIsAscending
<1>5. ASSUME NEW k \in 1 .. i PROVE ms[k].block <= b
  <2>1. CASE k = 1
    BY <1>1, <2>1
  <2>2. CASE k > 1
    <3>1. k - 1 \in 1 .. n - 1 /\ k - 1 < i /\ k \in 1 .. n
      BY <1>1, <1>2, <2>2
    <3>2. k - 1 \notin I
      BY <1>2, <1>3, <3>1
    <3>3. ~(BlockAt(ms, k - 1) >= b) /\ BlockAt(ms, k - 1) = ms[k].block
      BY <1>1, <3>1, <3>2 DEF Nr, BlockAt
    <3> QED
      BY <1>1, <1>4, <3>1, <3>3
  <2> QED
    BY <1>2, <2>1, <2>2
<1>6. ASSUME NEW k \in i + 1 .. n PROVE b <= ms[k].block
  <2>1. i + 1 \in 1 .. n /\ k \in 1 .. n /\ i + 1 <= k
    BY <1>1, <1>2
  <2>2. b <= ms[i + 1].block
    BY <1>1, <1>2, <1>4, <2>1 DEF BlockAt
  <2>3. ms[i + 1].block <= ms[k].block
    BY <1>1, <1>4, <2>1 DEF Sorted
  <2> QED
    BY <1>1, <1>4, <2>1, <2>2, <2>3
<1> QED
  BY <1>2, <1>5, <1>6

LEMMA AddedStaysSorted ==
  ASSUME Framed(markers), Sorted(markers), NEW b \in Blocks, NEW sel \in BOOLEAN,
         NEW cap \in Captions \cup {NoCaption}, AddSegmentMarker(b, sel, cap)
  PROVE  Sorted(markers')
<1> DEFINE i == InsertIndex(markers, b)
           m == [block |-> b, sel |-> sel, cap |-> cap]
           n == Len(markers)
           f == BlocksIn(markers)
           g == BlocksIn(markers')
<1>1. /\ i \in 1 .. n - 1 /\ \A k \in 1 .. i : markers[k].block <= b
      /\ \A k \in i + 1 .. n : b <= markers[k].block
  BY InsertIndexIsPlace
<1>2. m \in Marker /\ m.block = b /\ markers \in Seq(Marker) /\ n \in Nat /\ b \in Int
  BY SizesAreNaturals DEF Marker, Framed, Blocks
<1>3. markers' = InsertAt(markers, i + 1, m)
  BY DEF AddSegmentMarker
<1> HIDE DEF i, m
<1>4. i + 1 \in 1 .. n + 1 /\ i \in 0 .. n
  BY <1>1, <1>2
<1>5. markers' \in Seq(Marker) /\ Len(markers') = n + 1
  BY <1>2, <1>3, <1>4, InsertAtProperties
<1>6. ASSUME NEW k \in 1 .. n + 1
      PROVE  markers'[k] = IF k < i + 1 THEN markers[k] ELSE IF k = i + 1 THEN m ELSE markers[k - 1]
  BY <1>2, <1>3, <1>4, InsertAtProperties, SMTT(30)
<1>7. /\ Ascending(f, n) /\ \A k \in 1 .. n : f[k] \in Int /\ f[k] = markers[k].block
      /\ \A k \in 1 .. n + 1 : g[k] = markers'[k].block
      /\ Sorted(markers') <=> Ascending(g, n + 1)
  BY <1>2, <1>5, SortedIsAscending
<1> HIDE DEF n, f, g
<1>8. \A k \in 1 .. n + 1 :
        g[k] = IF k < i + 1 THEN f[k] ELSE IF k = i + 1 THEN b ELSE f[k - 1]
  <2> TAKE k \in 1 .. n + 1
  <2>1. g[k] = markers'[k].block
    BY <1>7
  <2>2. CASE k < i + 1
    BY <1>1, <1>2, <1>6, <1>7, <2>1, <2>2
  <2>3. CASE k = i + 1
    BY <1>2, <1>6, <2>1, <2>3
  <2>4. CASE k > i + 1
    <3>1. markers'[k] = markers[k - 1] /\ k - 1 \in 1 .. n
      BY <1>1, <1>2, <1>6, <2>4
    <3> QED
      BY <1>1, <1>2, <1>7, <2>1, <2>4, <3>1
  <2> QED
    BY <1>1, <1>2, <2>2, <2>3, <2>4
<1>9. (\A k \in 1 .. i : f[k] <= b) /\ \A k \in i + 1 .. n : b <= f[k]
  <2>1. \A k \in 1 .. i : k \in 1 .. n
    BY <1>2, <1>4
  <2>2. \A k \in i + 1 .. n : k \in 1 .. n
    BY <1>2, <1>4
  <2> QED
    BY <1>1, <1>7, <2>1, <2>2
<1>10. Ascending(g, n + 1)
  BY <1>2, <1>4, <1>7, <1>8, <1>9, InsertAscending
<1> QED
  BY <1>7, <1>10

LEMMA DeletedStaysSorted ==
  ASSUME Framed(markers), Sorted(markers), NEW i \in Interior(markers), DeleteSegmentMarker(i)
  PROVE  Sorted(markers')
<1> DEFINE n    == Len(markers)
           rest == RemoveAt(markers, i + 1)
           f    == BlocksIn(markers)
           g    == BlocksIn(rest)
<1>1. /\ markers \in Seq(Marker) /\ n \in Nat /\ i + 1 \in 1 .. n /\ 3 <= n
  BY DEF Framed, Interior, Nr
<1>2. rest \in Seq(Marker) /\ Len(rest) = n - 1
  BY <1>1, RemoveAtProperties
<1>3. ASSUME NEW k \in 1 .. n - 1
      PROVE  rest[k] = IF k < i + 1 THEN markers[k] ELSE markers[k + 1]
  BY <1>1, RemoveAtProperties
<1>4. markers' = [rest EXCEPT ![Len(rest)].sel = FALSE]
  BY DEF DeleteSegmentMarker
<1> HIDE DEF rest
<1>5. DOMAIN markers' = DOMAIN rest /\ \A k \in DOMAIN rest : markers'[k].block = rest[k].block
  <2> DEFINE m == [rest[Len(rest)] EXCEPT !.sel = FALSE]
  <2>1. Len(rest) \in DOMAIN rest /\ rest[Len(rest)] \in Marker
    BY <1>1, <1>2
  <2>2. m.block = rest[Len(rest)].block
    BY <2>1 DEF Marker
  <2>3. markers' = [rest EXCEPT ![Len(rest)] = m]
    BY <1>4
  <2> HIDE DEF m
  <2> QED
    BY <2>1, <2>2, <2>3
<1>6. /\ Ascending(f, n) /\ \A k \in 1 .. n : f[k] = markers[k].block
      /\ \A k \in 1 .. n - 1 : g[k] = rest[k].block
      /\ Sorted(rest) <=> Ascending(g, n - 1)
  BY <1>1, <1>2, SortedIsAscending
<1> HIDE DEF n, f, g
<1>7. \A k \in 1 .. n - 1 : g[k] = IF k < i + 1 THEN f[k] ELSE f[k + 1]
  <2> TAKE k \in 1 .. n - 1
  <2>1. k \in 1 .. n /\ k + 1 \in 1 .. n
    BY <1>1
  <2> QED
    BY <1>3, <1>6, <2>1
<1>8. Sorted(rest)
  BY <1>1, <1>6, <1>7, RemoveAscending
<1> QED
  BY <1>5, <1>8 DEF Sorted

\* MoveSegmentMarker with RejectSmallSegments moves within the two neighbours.
LEMMA MovedStaysSorted ==
  ASSUME Framed(markers), Sorted(markers), NEW i, NEW b \in Blocks,
         MayMove(markers, i, b, TRUE), MoveSegmentMarker(i, b)
  PROVE  Sorted(markers')
<1> DEFINE n == Len(markers)
           f == BlocksIn(markers)
           g == BlocksIn(markers')
           m == [markers[i + 1] EXCEPT !.block = b]
<1>1. /\ markers \in Seq(Marker) /\ n \in Nat /\ i \in 1 .. n - 2
      /\ markers[1].block = 0 /\ markers[n].block = TotalBlock /\ DOMAIN markers = 1 .. n
  BY DEF Framed, MayMove, Interior, Nr
<1>2. /\ i > 1 => ~(b <= BlockAt(markers, i - 1) + Margin)
      /\ i < n - 2 => ~(b + Margin >= BlockAt(markers, i + 1))
  BY DEF MayMove, TooSmallToMove, Nr
<1>3. /\ i + 1 \in 1 .. n /\ markers[i + 1] \in Marker /\ i + 1 \in 2 .. n - 1
      /\ (i + 1) - 1 = i /\ i \in 1 .. n /\ (i + 1) + 1 = i + 2 /\ i + 2 \in 1 .. n
  BY <1>1
<1>4. m \in Marker /\ m.block = b
  BY <1>3 DEF Marker
<1>5. markers' = [markers EXCEPT ![i + 1] = m]
  BY DEF MoveSegmentMarker
<1> HIDE DEF m
<1>6. /\ markers' \in Seq(Marker) /\ Len(markers') = n /\ markers'[i + 1] = m
      /\ \A k \in 1 .. n : k # i + 1 => markers'[k] = markers[k]
  BY <1>1, <1>3, <1>4, <1>5
<1>7. /\ Ascending(f, n) /\ \A k \in 1 .. n : f[k] \in Nat /\ f[k] = markers[k].block
      /\ \A k \in 1 .. n : g[k] = markers'[k].block
      /\ Sorted(markers') <=> Ascending(g, n)
  BY <1>1, <1>6, SortedIsAscending
<1> HIDE DEF n, f, g
<1>8. b \in Nat /\ b <= TotalBlock /\ Margin \in Nat /\ TotalBlock \in Nat
  BY SizesAreNaturals DEF Blocks
<1>9. f[i] <= b
  <2>1. CASE i = 1
    BY <1>1, <1>3, <1>7, <1>8, <2>1
  <2>2. CASE i > 1
    <3>1. BlockAt(markers, i - 1) = f[i]
      BY <1>1, <1>3, <1>7 DEF BlockAt
    <3> QED
      BY <1>2, <1>3, <1>7, <1>8, <2>2, <3>1
  <2> QED
    BY <1>1, <2>1, <2>2
<1>10. b <= f[i + 2]
  <2>1. CASE i = n - 2
    <3>1. i + 2 = n
      BY <1>1, <2>1
    <3> QED
      BY <1>1, <1>3, <1>7, <1>8, <3>1
  <2>2. CASE i < n - 2
    <3>1. BlockAt(markers, i + 1) = f[i + 2]
      BY <1>1, <1>3, <1>7 DEF BlockAt
    <3> QED
      BY <1>2, <1>3, <1>7, <1>8, <2>2, <3>1
  <2> QED
    BY <1>1, <2>1, <2>2
<1>11. g[i + 1] = b /\ \A k \in 1 .. n : k # i + 1 => g[k] = f[k]
  BY <1>3, <1>4, <1>6, <1>7
<1>12. Ascending(g, n)
  <2> DEFINE p == i + 1
  <2>1. p \in 2 .. n - 1 /\ f[p - 1] <= g[p] /\ g[p] <= f[p + 1] /\ g[p] \in Int
    BY <1>3, <1>8, <1>9, <1>10, <1>11
  <2>2. \A k \in 1 .. n : k # p => g[k] = f[k]
    BY <1>11
  <2>3. \A k \in 1 .. n : f[k] \in Int
    BY <1>7
  <2> HIDE DEF p
  <2> QED
    BY <1>1, <1>7, <2>1, <2>2, <2>3, ReplaceAscending
<1> QED
  BY <1>7, <1>12

\* A step that changes the selection or the caption of one marker.
LEMMA MarkedStaysSorted ==
  ASSUME Framed(markers), Sorted(markers), NEW x, NEW v,
         \/ markers' = [markers EXCEPT ![x].sel = v]
         \/ markers' = [markers EXCEPT ![x].cap = v]
  PROVE  Sorted(markers')
<1>1. DOMAIN markers' = DOMAIN markers
  OBVIOUS
<1>2. ASSUME NEW k \in DOMAIN markers PROVE markers'[k].block = markers[k].block
  <2>1. markers[k] \in Marker
    BY DEF Framed
  <2>2. /\ [markers[k] EXCEPT !.sel = v].block = markers[k].block
        /\ [markers[k] EXCEPT !.cap = v].block = markers[k].block
    BY <2>1 DEF Marker
  <2>3. \/ markers'[k] = markers[k] \/ markers'[k] = [markers[k] EXCEPT !.sel = v]
        \/ markers'[k] = [markers[k] EXCEPT !.cap = v]
    BY <1>2
  <2> QED
    BY <2>2, <2>3, Zenon
<1> QED
  BY <1>1, <1>2, SameBlocks

LEMMA EndsStaySorted ==
  ASSUME Framed(markers), Sorted(markers), DeleteAllSegmentMarkers
  PROVE  Sorted(markers')
<1>1. CASE Nr(markers) > 2
  <2>1. markers' = EndsOf(markers)
    BY <1>1 DEF DeleteAllSegmentMarkers
  <2>2. /\ DOMAIN EndsOf(markers) = {1, 2}
        /\ EndsOf(markers)[1].block = 0 /\ EndsOf(markers)[2].block = TotalBlock
    BY DEF EndsOf, Framed
  <2> QED
    BY <2>1, <2>2, SizesAreNaturals DEF Sorted
<1>2. CASE ~(Nr(markers) > 2)
  BY <1>2, MarkedStaysSorted DEF DeleteAllSegmentMarkers
<1> QED
  BY <1>1, <1>2

LEMMA EditKeysSort ==
  ASSUME IndInv, Sorted(markers), EditKey
  PROVE  Sorted(markers')
<1>1. RestTyped /\ Framed(markers)
  <2>1. state # "WaitForPlayback"
    BY DEF EditKey, AddMarkerKey, DeleteMarkerKey, MoveMarkerKey, CaptionKey, Editing
  <2> QED
    BY <2>1, EditingIsPositioned DEF Positioned
<1>2. CASE AddMarkerKey
  <2>1. PICK pos \in Positions : AddSegmentMarker(IFrame(currentVisibleBlock(pos)), FALSE, NoCaption)
    BY <1>2, Zenon DEF AddMarkerKey
  <2>2. IFrame(currentVisibleBlock(pos)) \in Blocks
    BY <1>1, VisibleBlockInRange, IFrameInRange
  <2> QED
    BY <1>1, <2>1, <2>2, AddedStaysSorted
<1>3. CASE DeleteMarkerKey
  <2>1. PICK pos \in Positions :
          LET i == FindNearestSegmentMarker(markers, currentVisibleBlock(pos))
          IN  i > 0 /\ DeleteSegmentMarker(i)
    BY <1>3, Zenon DEF DeleteMarkerKey
  <2> DEFINE i == FindNearestSegmentMarker(markers, currentVisibleBlock(pos))
  <2>2. i > 0 /\ DeleteSegmentMarker(i) /\ i \in Interior(markers) \cup {-1}
    BY <1>1, <2>1, NearestMarkerInRange
  <2> HIDE DEF i
  <2>3. i \in Interior(markers)
    BY <2>2
  <2> QED
    BY <1>1, <2>2, <2>3, DeletedStaysSorted
<1>4. CASE MoveMarkerKey
  <2>1. PICK pos \in Positions :
          LET at == currentVisibleBlock(pos)
              i  == FindNearestSegmentMarker(markers, at)
              b  == IFrame(at)
          IN  MayMove(markers, i, b, TRUE) /\ MoveSegmentMarker(i, b)
    BY <1>4, Zenon DEF MoveMarkerKey
  <2>2. IFrame(currentVisibleBlock(pos)) \in Blocks
    BY <1>1, VisibleBlockInRange, IFrameInRange
  <2> QED
    BY <1>1, <2>1, <2>2, MovedStaysSorted
<1>5. CASE CaptionKey
  <2>1. \/ markers' = markers
        \/ \E x, v : markers' = [markers EXCEPT ![x].cap = v]
    BY <1>5, Zenon DEF CaptionKey
  <2> QED
    BY <1>1, <2>1, MarkedStaysSorted
<1> QED
  BY <1>2, <1>3, <1>4, <1>5 DEF EditKey

\* Recall of everything but a move.
LEMMA UndoSorts ==
  ASSUME IndInv, Sorted(markers), UndoKey, ~UndoneMove
  PROVE  Sorted(markers')
<1>1. RestTyped /\ Framed(markers)
  BY EditingIsPositioned DEF UndoKey, Editing, Positioned
<1> DEFINE e == undo[undoLast]
           i == EventMarker(markers, e)
<1>2. /\ IF ~e.seg THEN UndoBookmark(e)
         ELSE IF e.new = 0 /\ e.prev # 0 THEN UndoDeletedMarker(e)
         ELSE IF i >= 0 THEN UndoAtMarker(e, i)
         ELSE UNCHANGED <<markers, active, bookmarks, jumpSeg, heap>>
      /\ ~(e.seg /\ e.prev # 0 /\ e.new # 0 /\ e.new # e.prev)
  BY Zenon DEF UndoKey, UndoneMove
<1>3. e \in Event /\ (e.seg => e.prev \in Blocks)
  BY <1>1 DEF RestTyped, RingTyped, EventsInRange
<1> HIDE DEF e, i
<1>4. CASE markers' = markers
  BY <1>4
<1>5. CASE e.seg /\ UndoDeletedMarker(e)
  <2>1. e.sel \in BOOLEAN /\ e.cap \in Captions \cup {NoCaption}
    BY <1>3 DEF Event
  <2>2. AddSegmentMarker(e.prev, e.sel, e.cap) \/ markers' = markers
    BY <1>5 DEF UndoDeletedMarker
  <2> QED
    BY <1>1, <1>3, <1>4, <1>5, <2>1, <2>2, AddedStaysSorted
<1>6. CASE e.seg /\ UndoAtMarker(e, i) /\ ~(e.new = 0 /\ e.prev # 0)
  <2>1. ~(e.new # e.prev /\ e.prev # 0)
    BY <1>2, <1>6
  <2>2. \/ markers' = [markers EXCEPT ![i + 1].cap = e.cap]
        \/ i \in Interior(markers) /\ DeleteSegmentMarker(i)
        \/ markers' = markers
    BY <1>6, <2>1 DEF UndoAtMarker
  <2> QED
    BY <1>1, <1>4, <2>2, MarkedStaysSorted, DeletedStaysSorted
<1>7. CASE ~e.seg /\ UndoBookmark(e)
  BY <1>7, <1>4 DEF UndoBookmark
<1> QED
  BY <1>2, <1>4, <1>5, <1>6, <1>7

LEMMA SelectionsSort ==
  ASSUME IndInv, Sorted(markers), SelectKey \/ MenuSelect \/ MenuCopySegments
  PROVE  Sorted(markers')
<1>1. Framed(markers)
  <2>1. state # "WaitForPlayback"
    BY DEF SelectKey, MenuSelect, MenuCopySegments, Editing
  <2> QED
    BY <2>1, EditingIsPositioned DEF Positioned
<1>2. CASE SelectKey
  <2>1. \E x, v : markers' = [markers EXCEPT ![x].sel = v]
    BY <1>2, Zenon DEF SelectKey
  <2> QED
    BY <1>1, <2>1, MarkedStaysSorted
<1>3. CASE MenuCopySegments
  <2>1. markers' = markers \/ markers' = [markers EXCEPT ![active + 1].sel = TRUE]
    BY <1>3 DEF MenuCopySegments
  <2> QED
    BY <1>1, <2>1, MarkedStaysSorted
<1>4. CASE MenuSelect
  <2>1. PICK S : markers' = [k \in DOMAIN markers |->
                               IF k < Nr(markers) THEN [markers[k] EXCEPT !.sel = (k \in S)]
                               ELSE markers[k]]
    BY <1>4, Zenon DEF MenuSelect
  <2>2. ASSUME NEW k \in DOMAIN markers PROVE markers'[k].block = markers[k].block
    <3>1. markers[k] \in Marker
      BY <1>1, <2>2 DEF Framed
    <3>2. [markers[k] EXCEPT !.sel = (k \in S)].block = markers[k].block
      BY <3>1 DEF Marker
    <3>3. \/ markers'[k] = [markers[k] EXCEPT !.sel = (k \in S)]
          \/ markers'[k] = markers[k]
      BY <2>1, <2>2
    <3> QED
      BY <3>2, <3>3, Zenon
  <2>3. DOMAIN markers' = DOMAIN markers
    BY <2>1
  <2> QED
    BY <2>2, <2>3, SameBlocks
<1> QED
  BY <1>2, <1>3, <1>4

LEMMA ImportSorts ==
  ASSUME IndInv, Sorted(markers), ImportStep
  PROVE  Sorted(markers')
<1>1. RestTyped
  BY SplitIndInv
<1>2. Framed(markers)
  <2>1. state = "ActiveOSD"
    BY <1>1 DEF ImportStep, RestTyped, ImportWhileActive
  <2> QED
    BY <2>1, EditingIsPositioned DEF Positioned
<1> DEFINE b == IFrame(bookmarks[import + 1])
<1>3. b \in Blocks
  <2>1. import \in 0 .. Len(bookmarks) - 1
    BY <1>1, SizesAreNaturals DEF ImportStep, ImportLimit, RestTyped
  <2>2. bookmarks[import + 1] \in Blocks
    BY <1>1, <2>1 DEF RestTyped
  <2> QED
    BY <2>2, IFrameInRange
<1>4. AddSegmentMarker(b, FALSE, NoCaption) \/ markers' = markers
  BY DEF ImportStep
<1> HIDE DEF b
<1> QED
  BY <1>2, <1>3, <1>4, AddedStaysSorted

LEMMA StartSorts ==
  ASSUME LoadedInOrder, StartPlayback
  PROVE  Sorted(markers')
<1>1. PICK l \in LoadableMarkers \cup {<<0, TotalBlock>>} : markers' = MarkerList(l)
  BY DEF StartPlayback
<1>2. Len(l) \in Nat /\ \A j, k \in 1 .. Len(l) : j < k => l[j] <= l[k]
  <2>1. CASE l \in LoadableMarkers
    BY <2>1, LoadAssumption DEF LoadedInOrder
  <2>2. CASE l = <<0, TotalBlock>>
    BY <2>2, SizesAreNaturals
  <2> QED
    BY <2>1, <2>2
<1>3. DOMAIN markers' = 1 .. Len(l) /\ \A k \in 1 .. Len(l) : markers'[k].block = l[k]
  BY <1>1, <1>2 DEF MarkerList
<1> QED
  BY <1>2, <1>3 DEF Sorted

LEMMA StepKeepsMarkersSorted ==
  ASSUME LoadedInOrder, IndInv, Sorted(markers), [Next]_vars, ~UndoneMove
  PROVE  Sorted(markers')
<1>1. CASE markers' = markers
  BY <1>1
<1>2. CASE BookmarkKey \/ ToggleBookmarkMode \/ Navigation
  <2>1. markers' = markers
    BY <1>2 DEF BookmarkKey, AddBookmarkKey, DeleteBookmarkKey, MoveBookmarkKey,
       ToggleBookmarkMode, Navigation, RequestSegment, RequestBlock, CancelJump, ExecuteJump,
       Idle, JumpToSegment, JumpElsewhere
  <2> QED
    BY <1>1, <2>1
<1>3. CASE Menu
  <2>1. CASE \/ OpenMenu \/ CloseMenu \/ LeaveSubMenu \/ ImportEnd
             \/ MenuClearBookmarks \/ MenuExport
    BY <1>1, <2>1 DEF OpenMenu, CloseMenu, LeaveSubMenu, ImportEnd, MenuClearBookmarks, MenuExport
  <2>2. CASE MenuClearMarkers \/ MenuImport
    <3>1. Framed(markers) /\ DeleteAllSegmentMarkers
      BY <2>2, EditingIsPositioned DEF MenuClearMarkers, MenuImport, Positioned
    <3> QED
      BY <3>1, EndsStaySorted
  <2> QED
    BY <1>3, <2>1, <2>2, SelectionsSort, ImportSorts DEF Menu
<1>4. CASE Session
  BY <1>1, <1>4, StartSorts DEF Session, PlaybackEnds, Deactivate, Reactivate
<1>5. CASE UNCHANGED vars
  BY <1>1, <1>5 DEF vars
<1> QED
  BY <1>2, <1>3, <1>4, <1>5, EditKeysSort, UndoSorts, SelectionsSort DEF Next


Ordered(bm) == Ascending(bm, Len(bm))

LEMMA BlocksAreNaturals ==
  ASSUME NEW bm \in Seq(Blocks)
  PROVE  Len(bm) \in Nat /\ \A k \in 1 .. Len(bm) : bm[k] \in Nat
<1>1. Len(bm) \in Nat /\ \A k \in 1 .. Len(bm) : bm[k] \in Blocks
  OBVIOUS
<1> QED
  BY <1>1 DEF Blocks

LEMMA BookmarkIndexIsPlace ==
  ASSUME NEW bm \in Seq(Blocks), Ordered(bm), NEW b \in Blocks
  PROVE  LET p == BookmarkIndex(bm, b)
         IN  /\ p \in 0 .. Len(bm)
             /\ \A k \in 1 .. p : bm[k] <= b
             /\ \A k \in p + 1 .. Len(bm) : b <= bm[k]
<1> DEFINE n == Len(bm)
           p == BookmarkIndex(bm, b)
<1>1. n \in Nat /\ b \in Nat /\ \A k \in 1 .. n : bm[k] \in Nat
  BY BlocksAreNaturals DEF Blocks
<1>2. CASE bm = <<>> \/ b > bm[n]
  <2>1. p = n
    BY <1>2 DEF BookmarkIndex
  <2>2. ASSUME NEW k \in 1 .. n PROVE bm[k] <= b
    <3>1. n \in 1 .. n /\ b > bm[n] /\ bm[k] <= bm[n]
      BY <1>1, <1>2 DEF Ordered, Ascending
    <3> QED
      BY <1>1, <3>1
  <2> QED
    BY <1>1, <2>1, <2>2
<1>3. CASE ~(bm = <<>> \/ b > bm[n])
  <2> DEFINE I == {i \in 0 .. n - 1 : bm[i + 1] >= b}
  <2>1. I \subseteq Nat /\ n - 1 \in I
    BY <1>1, <1>3
  <2>2. p = Min(I)
    BY <1>3 DEF BookmarkIndex
  <2>3. p \in I /\ \A x \in I : p <= x
    <3> HIDE DEF I, p
    <3> QED
      BY <2>1, <2>2, MinIsLeast
  <2> HIDE DEF p
  <2>4. p \in 0 .. n - 1 /\ p + 1 \in 1 .. n /\ bm[p + 1] >= b
    BY <1>1, <2>3
  <2>5. ASSUME NEW k \in 1 .. p PROVE bm[k] <= b
    <3>1. k - 1 \in 0 .. n - 1 /\ (k - 1) + 1 = k /\ k - 1 < p /\ k \in 1 .. n
      BY <1>1, <2>4
    <3>2. k - 1 \notin I
      <4> HIDE DEF I
      <4> QED
        BY <2>3, <2>4, <3>1
    <3> QED
      BY <1>1, <3>1, <3>2
  <2>6. ASSUME NEW k \in p + 1 .. n PROVE b <= bm[k]
    <3>1. k \in 1 .. n /\ bm[p + 1] <= bm[k]
      BY <1>1, <2>4 DEF Ordered, Ascending
    <3> QED
      BY <1>1, <2>4, <3>1
  <2> QED
    BY <1>1, <2>4, <2>5, <2>6 DEF p
<1> QED
  BY <1>2, <1>3

LEMMA InsertKeepsOrdered ==
  ASSUME NEW bm \in Seq(Blocks), Ordered(bm), NEW b \in Blocks, NEW p \in 0 .. Len(bm),
         \A k \in 1 .. p : bm[k] <= b, \A k \in p + 1 .. Len(bm) : b <= bm[k]
  PROVE  Ordered(InsertAt(bm, p + 1, b))
<1> DEFINE n == Len(bm)
           g == InsertAt(bm, p + 1, b)
<1>1. n \in Nat /\ b \in Int /\ (\A k \in 1 .. n : bm[k] \in Int) /\ p + 1 \in 1 .. n + 1
  BY BlocksAreNaturals DEF Blocks
<1>2. Len(g) = n + 1
  BY <1>1, InsertAtProperties
<1>3. \A k \in 1 .. n + 1 :
        g[k] = IF k < p + 1 THEN bm[k] ELSE IF k = p + 1 THEN b ELSE bm[k - 1]
  <2> DEFINE i == p + 1
  <2>1. i \in 1 .. Len(bm) + 1 /\ bm \in Seq(Blocks) /\ b \in Blocks
    BY <1>1
  <2> HIDE DEF i
  <2>2. \A k \in 1 .. Len(bm) + 1 :
          InsertAt(bm, i, b)[k] = IF k < i THEN bm[k] ELSE IF k = i THEN b ELSE bm[k - 1]
    BY <2>1, InsertAtProperties
  <2> QED
    BY <2>2 DEF i
<1>4. Ascending(bm, n)
  BY DEF Ordered
<1> HIDE DEF n, g
<1>5. Ascending(g, n + 1)
  BY <1>1, <1>3, <1>4, InsertAscending DEF n
<1> QED
  BY <1>2, <1>5 DEF g, Ordered

LEMMA RemoveKeepsOrdered ==
  ASSUME NEW bm \in Seq(Blocks), Ordered(bm), NEW x \in 1 .. Len(bm)
  PROVE  Ordered(RemoveAt(bm, x))
<1> DEFINE n == Len(bm)
           g == RemoveAt(bm, x)
<1>1. n \in Nat /\ Len(g) = n - 1
  BY RemoveAtProperties
<1>2. \A k \in 1 .. n - 1 : g[k] = IF k < x THEN bm[k] ELSE bm[k + 1]
  BY RemoveAtProperties
<1>3. Ascending(bm, n) /\ x \in 1 .. n
  BY DEF Ordered
<1> HIDE DEF n, g
<1>4. Ascending(g, n - 1)
  BY <1>1, <1>2, <1>3, RemoveAscending
<1> QED
  BY <1>1, <1>4 DEF g, Ordered

\* The loops of MoveBookmark shift the bookmark past all that are greater, or past
\* all that are smaller.
LEMMA MovedIndexIsPlace ==
  ASSUME NEW bm \in Seq(Blocks), Ordered(bm), NEW i \in 0 .. Len(bm) - 1, NEW b \in Blocks,
         NEW rest, \A k \in 1 .. Len(bm) - 1 : rest[k] = IF k < i + 1 THEN bm[k] ELSE bm[k + 1]
  PROVE  LET p == MovedIndex(bm, i, b)
         IN  /\ p \in 0 .. Len(bm) - 1
             /\ \A k \in 1 .. p : rest[k] <= b
             /\ \A k \in p + 1 .. Len(bm) - 1 : b <= rest[k]
<1> DEFINE n == Len(bm)
           L == {j \in 0 .. i : \A k \in j .. i - 1 : bm[k + 1] > b}
           R == {j \in i .. n - 1 : \A k \in i + 1 .. j : bm[k + 1] < b}
           p == MovedIndex(bm, i, b)
<1>1. /\ n \in Nat /\ b \in Nat /\ (\A k \in 1 .. n : bm[k] \in Nat) /\ i \in 0 .. n - 1
      /\ \A j, k \in 1 .. n : j <= k => bm[j] <= bm[k]
  <2>1. n \in Nat /\ b \in Nat /\ (\A k \in 1 .. n : bm[k] \in Nat)
    BY BlocksAreNaturals DEF Blocks
  <2> QED
    BY <2>1 DEF Ordered, Ascending
<1>2. p \in 0 .. n - 1
  BY MovedIndexInRange
<1>3. p = IF Min(L) < i THEN Min(L) ELSE Max(R)
  BY DEF MovedIndex
<1>4. L \subseteq Nat /\ i \in L /\ R \subseteq 0 .. n - 1 /\ i \in R /\ n - 1 \in Nat
  BY <1>1
<1>5. Min(L) \in L /\ \A x \in L : Min(L) <= x
  <2> HIDE DEF L, R, p
  <2> QED
    BY <1>4, MinIsLeast
<1>6. Max(R) \in R /\ \A x \in R : x <= Max(R)
  <2> HIDE DEF L, R, p
  <2> QED
    BY <1>4, MaxIsGreatest
<1> HIDE DEF p
\* A bookmark of smaller number that is greater: the place in front of the first such.
<1>7. CASE Min(L) < i
  <2>1. p \in L /\ p < i /\ (\A x \in L : p <= x) /\ p \in 0 .. i - 1 /\ i \in 1 .. n
    <3> HIDE DEF L, R
    <3> QED
      BY <1>1, <1>2, <1>3, <1>5, <1>7
  <2>2. \A k \in p .. i - 1 : bm[k + 1] > b
    BY <2>1
  <2>3. p >= 1 => bm[p] <= b
    <3> SUFFICES ASSUME p >= 1 PROVE bm[p] <= b
      OBVIOUS
    <3>1. p - 1 \in 0 .. i /\ p - 1 \notin L
      <4> HIDE DEF L
      <4> QED
        BY <1>1, <2>1
    <3>2. PICK k \in p - 1 .. i - 1 : ~(bm[k + 1] > b)
      BY <3>1
    <3>3. k = p - 1 /\ k + 1 = p /\ p \in 1 .. n
      BY <1>1, <2>1, <2>2, <3>1, <3>2
    <3> QED
      BY <1>1, <3>2, <3>3
  <2> HIDE DEF L, R
  <2>4. ASSUME NEW k \in 1 .. p PROVE rest[k] <= b
    <3>1. k \in 1 .. n /\ p \in 1 .. n /\ k <= p /\ k < i + 1 /\ k \in 1 .. n - 1 /\ p >= 1
      BY <1>1, <2>1
    <3>2. rest[k] = bm[k] /\ bm[k] <= bm[p]
      BY <1>1, <3>1
    <3> QED
      BY <1>1, <2>3, <3>1, <3>2
  <2>5. ASSUME NEW k \in p + 1 .. n - 1 PROVE b <= rest[k]
    <3>0. k \in 1 .. n - 1 /\ k \in 1 .. n /\ k + 1 \in 1 .. n
      BY <1>1, <2>1
    <3>1. CASE k <= i
      <4>1. rest[k] = bm[k] /\ k - 1 \in p .. i - 1 /\ (k - 1) + 1 = k
        BY <1>1, <2>1, <3>0, <3>1
      <4>2. bm[k] > b
        BY <2>2, <4>1
      <4> QED
        BY <1>1, <3>0, <4>1, <4>2
    <3>2. CASE k > i
      <4>1. rest[k] = bm[k + 1] /\ bm[i] <= bm[k + 1]
        BY <1>1, <2>1, <3>0, <3>2
      <4>2. i - 1 \in p .. i - 1 /\ (i - 1) + 1 = i
        BY <1>1, <2>1
      <4>3. bm[i] > b
        BY <2>2, <4>2
      <4> QED
        BY <1>1, <2>1, <3>0, <4>1, <4>3
    <3> QED
      BY <1>1, <3>0, <3>1, <3>2
  <2> QED
    BY <1>2, <2>4, <2>5 DEF p
\* Otherwise: the place behind those of greater number that are smaller.
<1>8. CASE ~(Min(L) < i)
  <2>1. p \in R /\ (\A x \in R : x <= p) /\ p \in i .. n - 1
    <3>1. p \in R /\ \A x \in R : x <= p
      <4> HIDE DEF L, R
      <4> QED
        BY <1>3, <1>6, <1>8
    <3> QED
      BY <3>1
  <2>2. \A k \in i + 1 .. p : bm[k + 1] < b
    BY <2>1
  <2>3. i >= 1 => bm[i] <= b
    <3> SUFFICES ASSUME i >= 1 PROVE bm[i] <= b
      OBVIOUS
    <3>1. i - 1 \in 0 .. i /\ i - 1 \notin L
      <4>1. Min(L) \in Nat
        BY <1>4, <1>5
      <4> HIDE DEF L
      <4> QED
        BY <1>1, <1>5, <1>8, <4>1
    <3>2. PICK k \in i - 1 .. i - 1 : ~(bm[k + 1] > b)
      BY <3>1
    <3>3. k + 1 = i /\ i \in 1 .. n
      BY <1>1, <3>1
    <3> QED
      BY <1>1, <3>2, <3>3
  <2>4. p + 1 <= n - 1 => b <= bm[p + 2]
    <3> SUFFICES ASSUME p + 1 <= n - 1 PROVE b <= bm[p + 2]
      OBVIOUS
    <3>1. p + 1 \in i .. n - 1 /\ p + 1 \notin R
      <4> HIDE DEF R
      <4> QED
        BY <1>1, <2>1
    <3>2. PICK k \in i + 1 .. p + 1 : ~(bm[k + 1] < b)
      BY <3>1
    <3>3. k = p + 1 /\ k + 1 = p + 2 /\ p + 2 \in 1 .. n
      BY <1>1, <2>1, <2>2, <3>1, <3>2
    <3> QED
      BY <1>1, <3>2, <3>3
  <2> HIDE DEF L, R
  <2>5. ASSUME NEW k \in 1 .. p PROVE rest[k] <= b
    <3>0. k \in 1 .. n - 1 /\ k \in 1 .. n /\ k + 1 \in 1 .. n
      BY <1>1, <2>1
    <3>1. CASE k <= i
      <4>1. rest[k] = bm[k] /\ i \in 1 .. n /\ i >= 1
        BY <1>1, <3>0, <3>1
      <4>2. bm[k] <= bm[i]
        BY <1>1, <3>0, <3>1, <4>1
      <4> QED
        BY <1>1, <2>3, <3>0, <4>1, <4>2
    <3>2. CASE k > i
      <4>1. rest[k] = bm[k + 1] /\ k \in i + 1 .. p
        BY <1>1, <2>1, <3>0, <3>2
      <4>2. bm[k + 1] < b
        BY <2>2, <4>1
      <4> QED
        BY <1>1, <3>0, <4>1, <4>2
    <3> QED
      BY <1>1, <3>0, <3>1, <3>2
  <2>6. ASSUME NEW k \in p + 1 .. n - 1 PROVE b <= rest[k]
    <3>1. /\ k \in 1 .. n - 1 /\ k + 1 \in 1 .. n /\ p + 2 \in 1 .. n /\ p + 2 <= k + 1
          /\ ~(k < i + 1) /\ p + 1 <= n - 1
      BY <1>1, <2>1
    <3>2. rest[k] = bm[k + 1] /\ bm[p + 2] <= bm[k + 1]
      BY <1>1, <3>1
    <3> QED
      BY <1>1, <2>4, <3>1, <3>2
  <2> QED
    BY <1>2, <2>5, <2>6 DEF p
<1> QED
  BY <1>7, <1>8

\* AddBookmark, DeleteBookmark and MoveBookmark keep the list in order, in place or not.
LEMMA BookmarksStayOrdered ==
  ASSUME NEW bm \in Seq(Blocks), Ordered(bm), NEW b \in Blocks
  PROVE  /\ Ordered(WithBookmark(bm, b))
         /\ \A i \in 0 .. Len(bm) - 1 :
              Ordered(RemoveAt(bm, i + 1)) /\ Ordered(MovedBookmark(bm, i, b))
<1>1. Ordered(WithBookmark(bm, b))
  <2> DEFINE p == BookmarkIndex(bm, b)
  <2>1. /\ p \in 0 .. Len(bm) /\ \A k \in 1 .. p : bm[k] <= b
        /\ \A k \in p + 1 .. Len(bm) : b <= bm[k]
    BY BookmarkIndexIsPlace
  <2>2. WithBookmark(bm, b) = InsertAt(bm, p + 1, b)
    BY DEF WithBookmark
  <2> HIDE DEF p
  <2> QED
    BY <2>1, <2>2, InsertKeepsOrdered
<1>2. ASSUME NEW i \in 0 .. Len(bm) - 1
      PROVE  Ordered(RemoveAt(bm, i + 1)) /\ Ordered(MovedBookmark(bm, i, b))
  <2> DEFINE rest == RemoveAt(bm, i + 1)
             p    == MovedIndex(bm, i, b)
  <2>1. i + 1 \in 1 .. Len(bm) /\ Len(bm) \in Nat
    OBVIOUS
  <2>2. rest \in Seq(Blocks) /\ Len(rest) = Len(bm) - 1
    BY <2>1, RemoveAtProperties
  <2>3. \A k \in 1 .. Len(bm) - 1 : rest[k] = IF k < i + 1 THEN bm[k] ELSE bm[k + 1]
    BY <2>1, RemoveAtProperties
  <2>4. Ordered(rest)
    BY <2>1, RemoveKeepsOrdered
  <2>5. MovedBookmark(bm, i, b) = InsertAt(rest, p + 1, b)
    BY DEF MovedBookmark
  <2> HIDE DEF rest
  <2>6. /\ p \in 0 .. Len(bm) - 1 /\ \A k \in 1 .. p : rest[k] <= b
        /\ \A k \in p + 1 .. Len(bm) - 1 : b <= rest[k]
    BY <2>3, MovedIndexIsPlace
  <2> HIDE DEF p
  <2>7. Ordered(MovedBookmark(bm, i, b))
    BY <2>2, <2>4, <2>5, <2>6, InsertKeepsOrdered
  <2> QED
    BY <2>4, <2>7 DEF rest
<1> QED
  BY <1>1, <1>2


LEMMA OrderedIsSorted ==
  ASSUME bookmarks \in Seq(Blocks)
  PROVE  BookmarksSorted <=> Ordered(bookmarks)
BY DEF BookmarksSorted, Ordered, Ascending

LEMMA StoredIsOrdered ==
  ASSUME NEW bm, Ordered(bm), NEW infOk
  PROVE  Ordered(Stored(bm, infOk))
<1>1. Ordered(<<>>)
  BY DEF Ordered, Ascending
<1> QED
  BY <1>1 DEF Stored

LEMMA BookmarkKeysOrder ==
  ASSUME IndInv, Ordered(bookmarks), BookmarkKey
  PROVE  Ordered(bookmarks')
<1>1. RestTyped
  BY SplitIndInv
<1>2. /\ bookmarks \in Seq(Blocks)
      /\ \A pos \in Positions : currentVisibleBlock(pos) \in Blocks
  BY <1>1, VisibleBlockInRange DEF RestTyped
<1>3. CASE AddBookmarkKey
  <2>1. PICK pos \in Positions, infOk \in BOOLEAN :
          bookmarks' = Stored(WithBookmark(bookmarks, currentVisibleBlock(pos)), infOk)
    BY <1>3, Zenon DEF AddBookmarkKey
  <2>2. Ordered(WithBookmark(bookmarks, currentVisibleBlock(pos)))
    BY <1>2, BookmarksStayOrdered
  <2> QED
    BY <2>1, <2>2, StoredIsOrdered
<1>4. CASE DeleteBookmarkKey
  <2>1. PICK pos \in Positions, infOk \in BOOLEAN :
          LET i == FindNearestBookmark(bookmarks, currentVisibleBlock(pos))
          IN  i >= 0 /\ bookmarks' = Stored(RemoveAt(bookmarks, i + 1), infOk)
    BY <1>4, Zenon DEF DeleteBookmarkKey
  <2> DEFINE i == FindNearestBookmark(bookmarks, currentVisibleBlock(pos))
  <2>2. i \in 0 .. Len(bookmarks) - 1 /\ currentVisibleBlock(pos) \in Blocks
    BY <1>2, <2>1, NearestBookmarkInRange
  <2>3. bookmarks' = Stored(RemoveAt(bookmarks, i + 1), infOk)
    BY <2>1
  <2> HIDE DEF i
  <2>4. Ordered(RemoveAt(bookmarks, i + 1))
    BY <1>2, <2>2, BookmarksStayOrdered
  <2> QED
    BY <2>3, <2>4, StoredIsOrdered
<1>5. CASE MoveBookmarkKey
  <2>1. PICK pos \in Positions, infOk \in BOOLEAN :
          LET b == currentVisibleBlock(pos)
              i == FindNearestBookmark(bookmarks, b)
          IN  i >= 0 /\ bookmarks' = Stored(MovedBookmark(bookmarks, i, b), infOk)
    BY <1>5, Zenon DEF MoveBookmarkKey
  <2> DEFINE b == currentVisibleBlock(pos)
             i == FindNearestBookmark(bookmarks, b)
  <2>2. i \in 0 .. Len(bookmarks) - 1 /\ b \in Blocks
    BY <1>2, <2>1, NearestBookmarkInRange
  <2>3. bookmarks' = Stored(MovedBookmark(bookmarks, i, b), infOk)
    BY <2>1
  <2> HIDE DEF i, b
  <2>4. Ordered(MovedBookmark(bookmarks, i, b))
    BY <1>2, <2>2, BookmarksStayOrdered
  <2> QED
    BY <2>3, <2>4, StoredIsOrdered
<1> QED
  BY <1>3, <1>4, <1>5 DEF BookmarkKey

LEMMA UndoBookmarkOrders ==
  ASSUME RestTyped, Ordered(bookmarks), NEW e \in Event, UndoBookmark(e)
  PROVE  Ordered(bookmarks')
<1> DEFINE p  == Decoded(e.prev)
           at == {i \in 0 .. Len(bookmarks) - 1 : bookmarks[i + 1] = Decoded(e.new)}
           i  == Min(at)
<1>1. bookmarks \in Seq(Blocks) /\ p \in Blocks
  BY CodedBlocks DEF RestTyped, Event
<1>2. at # {} => i \in 0 .. Len(bookmarks) - 1
  <2>1. at \subseteq Nat /\ at \subseteq 0 .. Len(bookmarks) - 1
    OBVIOUS
  <2> HIDE DEF at
  <2>2. at # {} => Min(at) \in at
    BY <2>1, MinIsLeast
  <2> QED
    BY <2>1, <2>2
<1>3. PICK infOk \in BOOLEAN :
        \/ bookmarks' = bookmarks
        \/ bookmarks' = Stored(WithBookmark(bookmarks, p), infOk)
        \/ at # {} /\ bookmarks' = Stored(RemoveAt(bookmarks, i + 1), infOk)
        \/ at # {} /\ bookmarks' = Stored(MovedBookmark(bookmarks, i, p), infOk)
  BY Zenon DEF UndoBookmark
<1> HIDE DEF p, at, i
<1>4. /\ Ordered(WithBookmark(bookmarks, p))
      /\ at # {} => /\ Ordered(RemoveAt(bookmarks, i + 1))
                    /\ Ordered(MovedBookmark(bookmarks, i, p))
  BY <1>1, <1>2, BookmarksStayOrdered
<1> QED
  BY <1>3, <1>4, StoredIsOrdered

\* An export takes the order of the markers over.
LEMMA ExportOrders ==
  ASSUME IndInv, Sorted(markers), MenuExport
  PROVE  Ordered(bookmarks')
<1>1. Framed(markers)
  BY EditingIsPositioned DEF MenuExport, Positioned
<1> DEFINE n  == IF Nr(markers) - 2 < MaxBookmarks THEN Nr(markers) - 2 ELSE MaxBookmarks
           bm == [k \in 1 .. n |-> BlockAt(markers, k)]
<1>2. PICK infOk \in BOOLEAN : bookmarks' = Stored(bm, infOk)
  BY Zenon DEF MenuExport
<1>3. n \in Nat /\ n <= Len(markers) - 2 /\ Len(markers) \in Nat /\ DOMAIN markers = 1 .. Len(markers)
  BY <1>1, SizesAreNaturals DEF Framed, Nr
<1> HIDE DEF n
<1>4. Len(bm) = n /\ \A k \in 1 .. n : bm[k] = markers[k + 1].block /\ k + 1 \in DOMAIN markers
  BY <1>3 DEF BlockAt
<1> HIDE DEF bm
<1>5. Ordered(bm)
  <2> SUFFICES ASSUME NEW j \in 1 .. n, NEW k \in 1 .. n, j < k PROVE bm[j] <= bm[k]
    BY <1>4 DEF Ordered, Ascending
  <2>1. j + 1 < k + 1
    BY <1>3
  <2> QED
    BY <1>4, <2>1 DEF Sorted
<1> QED
  BY <1>2, <1>5, StoredIsOrdered

LEMMA LoadedBookmarksOrdered ==
  ASSUME LoadedInOrder, NEW bm \in LoadableBookmarks
  PROVE  Ordered(bm)
BY DEF LoadedInOrder, Ordered, Ascending

LEMMA StepKeepsBookmarksOrdered ==
  ASSUME LoadedInOrder, IndInv, Sorted(markers), Ordered(bookmarks), [Next]_vars
  PROVE  Ordered(bookmarks')
<1>1. CASE bookmarks' = bookmarks
  BY <1>1
<1>2. CASE bookmarks' = <<>>
  BY <1>2 DEF Ordered, Ascending
<1>3. CASE EditKey \/ SelectKey \/ ToggleBookmarkMode
  BY <1>1, <1>3 DEF EditKey, AddMarkerKey, DeleteMarkerKey, MoveMarkerKey, CaptionKey,
     SelectKey, ToggleBookmarkMode
<1>4. CASE UndoKey
  <2> DEFINE e == undo[undoLast]
  <2>1. RestTyped /\ e \in Event
    BY SplitIndInv DEF RestTyped, RingTyped
  <2>2. (~e.seg /\ UndoBookmark(e)) \/ bookmarks' = bookmarks
    BY <1>4, Zenon DEF UndoKey, UndoDeletedMarker, UndoAtMarker
  <2> HIDE DEF e
  <2> QED
    BY <1>1, <2>1, <2>2, UndoBookmarkOrders
<1>5. CASE Navigation
  BY <1>1, <1>5 DEF Navigation, RequestSegment, RequestBlock, CancelJump, ExecuteJump,
     Idle, JumpToSegment, JumpElsewhere
<1>6. CASE Menu
  BY <1>1, <1>2, <1>6, ExportOrders DEF Menu, OpenMenu, CloseMenu, MenuSelect,
     MenuCopySegments, LeaveSubMenu, MenuClearMarkers, MenuClearBookmarks, MenuImport,
     ImportStep, ImportEnd
<1>7. CASE Session
  BY <1>1, <1>2, <1>7, LoadedBookmarksOrdered DEF Session, StartPlayback, PlaybackEnds,
     Deactivate, Reactivate
<1>8. CASE UNCHANGED vars
  BY <1>1, <1>8 DEF vars
<1> QED
  BY <1>3, <1>4, <1>5, <1>6, <1>7, <1>8, BookmarkKeysOrder DEF Next

-----------------------------------------------------------------------------
(* The theorems.                                                           *)

\* Both parts of the invariant in every state.
LEMMA SpecImpliesCaptionInv == Spec => []CaptionInv
<1>1. Spec => []IndInv
  BY SpecImpliesIndInv
<1> QED
  BY <1>1, InitOwns, StepsOwn, PTL DEF Spec

\* Every caption buffer that a marker or an undo event points to is allocated and
\* has one owner: AddSegmentMarker, ChangeSegmentText, DeleteSegmentMarker, the undo
\* ring and UndoLastAction hand the buffers on, so that no TAP_MemFree frees a
\* buffer twice or leaves a pointer to a freed one.
THEOREM CaptionsHaveOneOwner == Spec => []CaptionsOwnedOnce
<1>1. CaptionInv => CaptionsOwnedOnce
  BY CaptionInvImplies
<1> QED
  BY <1>1, SpecImpliesCaptionInv, PTL

\* The end marker is never selected, whichever of the keys, the menu entries and
\* the undo of them change the list.
THEOREM EndStaysUnselected == Spec => []EndNotSelected
<1>1. CaptionInv => EndNotSelected
  BY CaptionInvImplies
<1> QED
  BY <1>1, SpecImpliesCaptionInv, PTL

\* As long as the list is strictly sorted, the marker that the Red and the Yellow
\* key work on is a nearest one, although FindNearestSegmentMarker leaves its loop
\* at the first marker that is farther away than its predecessor.
THEOREM SearchFindsNearest == Spec => []NearestIsNearest
<1>1. IndInv => NearestIsNearest
  BY NearestOfSorted DEF IndInv, TypeOK, NearestIsNearest
<1> QED
  BY <1>1, SpecImpliesIndInv, PTL

\* MoveSegmentMarker with RejectSmallSegments: the moved marker is more than Margin
\* away from the markers beside it, the two ends excepted.
THEOREM MoveKeepsMargin == Spec => MoveLeavesNoSmallSegment
<1>1. IndInv => (MoveMarkerKey =>
        \E i \in 1 .. Len(markers) - 2 :
          /\ markers'[i + 1] # markers[i + 1]
          /\ \A j \in {i - 1, i + 1} \cap (1 .. Len(markers) - 2) :
               Distance(BlockAt(markers', i), BlockAt(markers', j)) > Margin)
  BY MovedKeepsDistance
<1> QED
  BY <1>1, SpecImpliesIndInv, PTL DEF MoveLeavesNoSmallSegment

\* No key, menu entry or start of a playback puts the markers or the bookmarks out of
\* order, and no Recall of anything but a move does, if the lists that CutFileLoad and
\* the firmware hand over are in order.  MoveBookmark shifts its entry over the
\* neighbours it passes, MoveSegmentMarker relies on the test of the distance that
\* UndoLastAction leaves out.
THEOREM OrderIsKept == ASSUME LoadedInOrder PROVE Spec => OrderKept
<1>1. IndInv /\ IndInv' /\ [Next]_vars =>
        [MarkersSorted /\ BookmarksSorted /\ ~UndoneMove
           => MarkersSorted' /\ BookmarksSorted']_vars
  <2> SUFFICES ASSUME IndInv, IndInv', [Next]_vars, MarkersSorted, BookmarksSorted, ~UndoneMove
               PROVE  MarkersSorted' /\ BookmarksSorted'
    OBVIOUS
  <2>1. bookmarks \in Seq(Blocks) /\ bookmarks' \in Seq(Blocks)
    BY DEF IndInv, TypeOK
  <2>2. Ordered(bookmarks)
    BY <2>1, OrderedIsSorted
  <2>3. Sorted(markers) /\ MarkersSorted' = Sorted(markers')
    BY DEF MarkersSorted, Sorted
  <2>4. Ordered(bookmarks')
    BY <2>2, <2>3, StepKeepsBookmarksOrdered
  <2>5. BookmarksSorted'
    BY <2>1, <2>4 DEF BookmarksSorted, Ordered, Ascending
  <2> QED
    BY <2>3, <2>5, StepKeepsMarkersSorted
<1> QED
  BY <1>1, SpecImpliesIndInv, PTL DEF Spec, OrderKept

-----------------------------------------------------------------------------
(* Why the list stays sorted although UndoLastAction moves a marker back   *)
(* without a look at its neighbours.  An event that is still in the ring   *)
(* was made in a list that held at least the blocks of the present list,   *)
(* but for what later events and the event itself have changed.            *)

\* The blocks between the two ends, and those that two markers share.  Block 0 is
\* left out: an event about it is taken for an event of another kind.
Held(ms) == {ms[k].block : k \in 2 .. Len(ms) - 1} \ {0}
HeldTwice(ms) ==
  {b \in Held(ms) : \E j, k \in 2 .. Len(ms) - 1 :
                      j # k /\ ms[j].block = b /\ ms[k].block = b}
Stock == [all : SUBSET Blocks, twice : SUBSET Blocks]
StockOf(ms) == [all |-> Held(ms), twice |-> HeldTwice(ms)]
Within(A, B) == A.all \subseteq B.all /\ A.twice \subseteq B.twice

\* Event e was made in a list with no more than the stock B, and what the list has
\* had since, up to the next event, is within A: what Recall needs of the two.
Explains(e, B, A) ==
  /\ A.twice \subseteq B.twice
  /\ ~e.seg \/ e.new = e.prev => A.all \subseteq B.all
  /\ e.seg /\ e.new = 0 /\ e.prev # 0 => A.all \cup {e.prev} \subseteq B.all
  /\ e.seg /\ e.new # 0 /\ e.prev = 0 => A.all \ {e.new} \subseteq B.all /\ e.new \notin A.twice
  /\ e.seg /\ e.new # 0 /\ e.prev # 0 /\ e.new # e.prev =>
       /\ A.all \ {e.new} \subseteq B.all
       /\ e.new \notin A.twice
       /\ e.new \in A.all => e.prev \in B.all
       /\ e.prev \in A.all => e.prev \in B.twice
       /\ \A z \in A.all \ {e.new} : (z < e.new => z <= e.prev) /\ (z > e.new => z >= e.prev)

Following(p) == (p + 1) % NRUNDOEVENTS
\* R is the stock in front of each event, now that of the present list.
Explained(ring, last, R, now) ==
  \A p \in Slots : Explains(ring[p], R[p], IF p = last THEN now ELSE R[Following(p)])

RingExplained == \E R \in [Slots -> Stock] : Explained(undo, undoLast, R, StockOf(markers))
SortInv ==
  /\ Sorted(markers)
  /\ state = "WaitForPlayback" \/ import # NoJump => undo = [k \in Slots |-> Blank]
  /\ RingExplained

LEMMA HeldIs ==
  ASSUME NEW ms, NEW x
  PROVE  /\ x \in Held(ms) <=> x # 0 /\ \E k \in 2 .. Len(ms) - 1 : ms[k].block = x
         /\ x \in HeldTwice(ms) <=>
              x # 0 /\ \E j, k \in 2 .. Len(ms) - 1 :
                         j # k /\ ms[j].block = x /\ ms[k].block = x
<1>1. x \in Held(ms) <=> x # 0 /\ \E k \in 2 .. Len(ms) - 1 : ms[k].block = x
  BY DEF Held
<1>2. x \in HeldTwice(ms) =>
        x # 0 /\ \E j, k \in 2 .. Len(ms) - 1 : j # k /\ ms[j].block = x /\ ms[k].block = x
  BY <1>1 DEF HeldTwice
<1>3. x # 0 /\ (\E j, k \in 2 .. Len(ms) - 1 : j # k /\ ms[j].block = x /\ ms[k].block = x)
        => x \in HeldTwice(ms)
  BY <1>1 DEF HeldTwice
<1> QED
  BY <1>1, <1>2, <1>3

\* A list with the same blocks.
LEMMA SameStock ==
  ASSUME NEW ms, NEW ns, Len(ms) \in Nat, Len(ns) = Len(ms),
         \A k \in 1 .. Len(ms) : ns[k].block = ms[k].block
  PROVE  StockOf(ns) = StockOf(ms)
<1> DEFINE n == Len(ms)
<1>1. \A k \in 2 .. n - 1 : ns[k].block = ms[k].block
  OBVIOUS
<1>2. \A x : /\ x \in Held(ms) <=> x # 0 /\ \E k \in 2 .. n - 1 : ms[k].block = x
             /\ x \in HeldTwice(ms) <=>
                  x # 0 /\ \E j, k \in 2 .. n - 1 : j # k /\ ms[j].block = x /\ ms[k].block = x
  BY HeldIs
<1>3. \A x : /\ x \in Held(ns) <=> x # 0 /\ \E k \in 2 .. n - 1 : ns[k].block = x
             /\ x \in HeldTwice(ns) <=>
                  x # 0 /\ \E j, k \in 2 .. n - 1 : j # k /\ ns[j].block = x /\ ns[k].block = x
  BY HeldIs
<1> HIDE DEF n
<1>4. ASSUME NEW x PROVE x \in Held(ns) <=> x \in Held(ms)
  <2>1. (\E k \in 2 .. n - 1 : ns[k].block = x) <=> \E k \in 2 .. n - 1 : ms[k].block = x
    BY <1>1
  <2> QED
    BY <1>2, <1>3, <2>1
<1>5. ASSUME NEW x PROVE x \in HeldTwice(ns) <=> x \in HeldTwice(ms)
  <2>1. (\E j, k \in 2 .. n - 1 : j # k /\ ns[j].block = x /\ ns[k].block = x)
          <=> \E j, k \in 2 .. n - 1 : j # k /\ ms[j].block = x /\ ms[k].block = x
    BY <1>1
  <2> QED
    BY <1>2, <1>3, <2>1
<1>6. Held(ns) = Held(ms) /\ HeldTwice(ns) = HeldTwice(ms)
  BY <1>4, <1>5
<1> QED
  BY <1>6 DEF StockOf

LEMMA StockIsTyped ==
  ASSUME NEW ms \in Seq(Marker)
  PROVE  /\ StockOf(ms) \in Stock
         /\ StockOf(ms).all = Held(ms) /\ StockOf(ms).twice = HeldTwice(ms)
<1>1. \A k \in 2 .. Len(ms) - 1 : ms[k] \in Marker
  OBVIOUS
<1>2. \A k \in 2 .. Len(ms) - 1 : ms[k].block \in Blocks
  BY <1>1 DEF Marker
<1>3. Held(ms) \subseteq Blocks
  BY <1>2 DEF Held
<1>4. HeldTwice(ms) \subseteq Blocks
  BY <1>3 DEF HeldTwice
<1> QED
  BY <1>3, <1>4 DEF StockOf, Stock

\* Block b is put in at place p.
PutIn(ms, ns, p, b) ==
  /\ Len(ms) \in Nat /\ p \in 2 .. Len(ms) /\ Len(ns) = Len(ms) + 1
  /\ \A k \in 1 .. Len(ms) + 1 :
       ns[k].block = IF k < p THEN ms[k].block
                     ELSE IF k = p THEN b ELSE ms[k - 1].block

LEMMA StockWithBlock ==
  ASSUME NEW ms, NEW ns, NEW p, NEW b, PutIn(ms, ns, p, b)
  PROVE  /\ Held(ns) = (Held(ms) \cup {b}) \ {0}
         /\ HeldTwice(ms) \subseteq HeldTwice(ns)
         /\ b \notin Held(ms) => HeldTwice(ns) \subseteq HeldTwice(ms) /\ b \notin HeldTwice(ns)
         /\ b \in Held(ms) => b \in HeldTwice(ns)
<1> DEFINE n == Len(ms)
           up(k) == IF k < p THEN k ELSE k + 1
           down(k) == IF k < p THEN k ELSE k - 1
<1>1. n \in Nat /\ p \in 2 .. n /\ Len(ns) = n + 1 /\ ns[p].block = b
  BY DEF PutIn
<1>2. ASSUME NEW k \in 2 .. n - 1
      PROVE  /\ up(k) \in 2 .. n /\ up(k) # p /\ ns[up(k)].block = ms[k].block
             /\ down(up(k)) = k
  <2>1. up(k) \in 2 .. n /\ up(k) # p /\ up(k) \in 1 .. n + 1 /\ down(up(k)) = k
    BY <1>1
  <2>2. CASE k < p
    BY <2>1, <2>2 DEF PutIn
  <2>3. CASE ~(k < p)
    <3>1. ~(k + 1 < p) /\ k + 1 # p /\ k + 1 - 1 = k /\ up(k) = k + 1
      BY <1>1, <2>3
    <3> QED
      BY <2>1, <3>1 DEF PutIn
  <2> QED
    BY <2>1, <2>2, <2>3
<1>3. ASSUME NEW k \in 2 .. n, k # p
      PROVE  down(k) \in 2 .. n - 1 /\ ms[down(k)].block = ns[k].block /\ up(down(k)) = k
  <2>1. down(k) \in 2 .. n - 1 /\ k \in 1 .. n + 1 /\ up(down(k)) = k
    BY <1>1, <1>3
  <2>2. ms[down(k)].block = ns[k].block
    BY <1>3, <2>1 DEF PutIn
  <2> QED
    BY <2>1, <2>2
<1>4. Len(ns) - 1 = n
  BY <1>1
<1> HIDE DEF up, down, n
<1>5. \A x : /\ x \in Held(ms) <=> x # 0 /\ \E k \in 2 .. n - 1 : ms[k].block = x
             /\ x \in HeldTwice(ms) <=>
                  x # 0 /\ \E j, k \in 2 .. n - 1 : j # k /\ ms[j].block = x /\ ms[k].block = x
  BY HeldIs DEF n
<1>6. \A x : /\ x \in Held(ns) <=> x # 0 /\ \E k \in 2 .. n : ns[k].block = x
             /\ x \in HeldTwice(ns) <=>
                  x # 0 /\ \E j, k \in 2 .. n : j # k /\ ns[j].block = x /\ ns[k].block = x
  BY <1>4, HeldIs
<1>7. Held(ns) = (Held(ms) \cup {b}) \ {0}
  <2>1. ASSUME NEW x \in Held(ns) PROVE x \in (Held(ms) \cup {b}) \ {0}
    <3>1. PICK k \in 2 .. n : ns[k].block = x /\ x # 0
      BY <1>6, <2>1
    <3>2. CASE k = p
      BY <1>1, <3>1, <3>2
    <3>3. CASE k # p
      BY <1>3, <1>5, <3>1, <3>3
    <3> QED
      BY <3>2, <3>3
  <2>2. ASSUME NEW x \in Held(ms) PROVE x \in Held(ns)
    <3>1. PICK k \in 2 .. n - 1 : ms[k].block = x /\ x # 0
      BY <1>5, <2>2
    <3> QED
      BY <1>2, <1>6, <3>1
  <2>3. b # 0 => b \in Held(ns)
    BY <1>1, <1>6
  <2>4. 0 \notin Held(ns)
    BY <1>6
  <2> QED
    BY <2>1, <2>2, <2>3, <2>4
<1>8. ASSUME NEW x \in HeldTwice(ms) PROVE x \in HeldTwice(ns)
  <2>1. PICK j \in 2 .. n - 1, k \in 2 .. n - 1 :
          j # k /\ ms[j].block = x /\ ms[k].block = x /\ x # 0
    BY <1>5, <1>8
  <2>2. /\ up(j) \in 2 .. n /\ up(k) \in 2 .. n /\ ns[up(j)].block = x /\ ns[up(k)].block = x
        /\ up(j) # up(k)
    BY <1>2, <2>1
  <2> QED
    BY <1>6, <2>1, <2>2
<1>9. ASSUME b \notin Held(ms), NEW x \in HeldTwice(ns) PROVE x \in HeldTwice(ms) /\ x # b
  <2>1. PICK j \in 2 .. n, k \in 2 .. n : j # k /\ ns[j].block = x /\ ns[k].block = x /\ x # 0
    BY <1>6, <1>9
  <2>2. \A i \in 2 .. n : i # p => ns[i].block # b \/ b = 0
    BY <1>3, <1>5, <1>9
  <2>3. x # b
    <3>1. j # p \/ k # p
      BY <2>1
    <3> QED
      BY <2>1, <2>2, <3>1
  <2>4. j # p /\ k # p
    BY <1>1, <2>1, <2>3
  <2>5. /\ down(j) \in 2 .. n - 1 /\ down(k) \in 2 .. n - 1
        /\ ms[down(j)].block = x /\ ms[down(k)].block = x /\ down(j) # down(k)
    BY <1>3, <2>1, <2>4
  <2> QED
    BY <1>5, <2>1, <2>3, <2>5
<1>10. ASSUME b \in Held(ms) PROVE b \in HeldTwice(ns)
  <2>1. PICK k \in 2 .. n - 1 : ms[k].block = b /\ b # 0
    BY <1>5, <1>10
  <2>2. up(k) \in 2 .. n /\ up(k) # p /\ ns[up(k)].block = b /\ p \in 2 .. n /\ ns[p].block = b
    BY <1>1, <1>2, <2>1
  <2> QED
    BY <1>6, <2>1, <2>2
<1> QED
  BY <1>7, <1>8, <1>9, <1>10

\* The block at place p is replaced by b.
Replaced(ms, ns, p, b) ==
  /\ Len(ms) \in Nat /\ p \in 2 .. Len(ms) - 1 /\ Len(ns) = Len(ms)
  /\ ns[p].block = b
  /\ \A k \in 1 .. Len(ms) : k # p => ns[k].block = ms[k].block

LEMMA StockReplaced ==
  ASSUME NEW ms, NEW ns, NEW p, NEW b, NEW x, Replaced(ms, ns, p, b), x = ms[p].block
  PROVE  /\ \A z \in Held(ns) : z # b =>
              /\ z \in Held(ms)
              /\ z = x => z \in HeldTwice(ms)
              /\ \E k \in 2 .. Len(ms) - 1 : k # p /\ ms[k].block = z
         /\ \A y \in HeldTwice(ns) :
              \/ y # b /\ y \in HeldTwice(ms)
              \/ /\ y = b /\ y \in Held(ms)
                 /\ \E k \in 2 .. Len(ms) - 1 : k # p /\ ms[k].block = b
         /\ x # 0 => x \in Held(ms)
<1> DEFINE n == Len(ms)
<1>1. n \in Nat /\ p \in 2 .. n - 1 /\ Len(ns) = n /\ ns[p].block = b
  BY DEF Replaced
<1>2. \A k \in 2 .. n - 1 : k # p => ns[k].block = ms[k].block
  BY DEF Replaced
<1>3. \A z : /\ z \in Held(ms) <=> z # 0 /\ \E k \in 2 .. n - 1 : ms[k].block = z
             /\ z \in HeldTwice(ms) <=>
                  z # 0 /\ \E j, k \in 2 .. n - 1 : j # k /\ ms[j].block = z /\ ms[k].block = z
  BY HeldIs
<1>4. \A z : /\ z \in Held(ns) <=> z # 0 /\ \E k \in 2 .. n - 1 : ns[k].block = z
             /\ z \in HeldTwice(ns) <=>
                  z # 0 /\ \E j, k \in 2 .. n - 1 : j # k /\ ns[j].block = z /\ ns[k].block = z
  BY <1>1, HeldIs
<1> HIDE DEF n
<1>5. ASSUME NEW z \in Held(ns), z # b
      PROVE  /\ z \in Held(ms) /\ (z = x => z \in HeldTwice(ms))
             /\ \E k \in 2 .. n - 1 : k # p /\ ms[k].block = z
  <2>1. PICK k \in 2 .. n - 1 : ns[k].block = z /\ z # 0
    BY <1>4
  <2>2. k # p /\ ms[k].block = z
    BY <1>1, <1>2, <1>5, <2>1
  <2> QED
    BY <1>1, <1>3, <2>1, <2>2
<1>6. ASSUME NEW y \in HeldTwice(ns)
      PROVE  \/ y # b /\ y \in HeldTwice(ms)
             \/ /\ y = b /\ y \in Held(ms)
                /\ \E k \in 2 .. n - 1 : k # p /\ ms[k].block = b
  <2>1. PICK j \in 2 .. n - 1, k \in 2 .. n - 1 :
          j # k /\ ns[j].block = y /\ ns[k].block = y /\ y # 0
    BY <1>4
  <2>2. CASE y # b
    <3>1. j # p /\ k # p
      BY <1>1, <2>1, <2>2
    <3> QED
      BY <1>2, <1>3, <2>1, <2>2, <3>1
  <2>3. CASE y = b
    <3>1. PICK i \in {j, k} : i # p
      BY <2>1
    <3>2. i \in 2 .. n - 1 /\ ms[i].block = b
      BY <1>2, <2>1, <2>3, <3>1
    <3> QED
      BY <1>3, <2>1, <2>3, <3>1, <3>2
  <2> QED
    BY <2>2, <2>3
<1>7. x # 0 => x \in Held(ms)
  BY <1>1, <1>3
<1> QED
  BY <1>5, <1>6, <1>7 DEF n

\* Both lists in order: no other block lies between the old one and the new one.
LEMMA NoneBetween ==
  ASSUME NEW ms \in Seq(Marker), NEW ns \in Seq(Marker), NEW p, NEW b \in Nat, NEW x,
         Replaced(ms, ns, p, b), x = ms[p].block, Sorted(ms), Sorted(ns)
  PROVE  \A z \in Held(ns) \ {b} : (z < b => z <= x) /\ (z > b => z >= x)
<1> DEFINE n == Len(ms)
<1>1. /\ n \in Nat /\ p \in 2 .. n - 1 /\ Len(ns) = n /\ ns[p].block = b
      /\ DOMAIN ms = 1 .. n /\ DOMAIN ns = 1 .. n
  BY DEF Replaced
<1>2. (\A k \in 1 .. n : ms[k].block \in Nat) /\ \A k \in 1 .. n : ns[k].block \in Nat
  BY <1>1, SortedIsAscending
<1>3. SUFFICES ASSUME NEW z \in Held(ns), z # b
               PROVE  (z < b => z <= x) /\ (z > b => z >= x)
  OBVIOUS
<1>4. PICK k \in 2 .. Len(ms) - 1 : k # p /\ ms[k].block = z
  BY <1>3, StockReplaced
<1>5. k \in 1 .. n /\ p \in 1 .. n /\ ns[k].block = z
  BY <1>1, <1>4 DEF Replaced
<1>6. z \in Nat /\ x \in Nat
  BY <1>2, <1>4, <1>5
<1>7. CASE k < p
  <2>1. z <= x /\ z <= b
    BY <1>1, <1>4, <1>5, <1>7 DEF Sorted
  <2> QED
    BY <1>6, <2>1
<1>8. CASE k > p
  <2>1. x <= z /\ b <= z
    BY <1>1, <1>4, <1>5, <1>8 DEF Sorted
  <2> QED
    BY <1>6, <2>1
<1> QED
  BY <1>1, <1>4, <1>5, <1>7, <1>8

-----------------------------------------------------------------------------
(* The ring.                                                               *)

LEMMA FollowingSlot ==
  /\ \A p \in Slots : Following(p) = IF p = NRUNDOEVENTS - 1 THEN 0 ELSE p + 1
  /\ \A p \in Slots : Following(p) \in Slots
  /\ \A p, q \in Slots : Following(p) = Following(q) => p = q
<1>1. NRUNDOEVENTS \in Nat \ {0}
  BY SizesAreNaturals
<1>2. ASSUME NEW p \in Slots
      PROVE  Following(p) = IF p = NRUNDOEVENTS - 1 THEN 0 ELSE p + 1
  <2>1. CASE p = NRUNDOEVENTS - 1
    <3>1. p + 1 = NRUNDOEVENTS /\ NRUNDOEVENTS % NRUNDOEVENTS = 0
      BY <1>1, <2>1
    <3>2. Following(p) = NRUNDOEVENTS % NRUNDOEVENTS
      BY <3>1, Zenon DEF Following
    <3> QED
      BY <2>1, <3>1, <3>2
  <2>2. CASE p # NRUNDOEVENTS - 1
    <3>1. p + 1 \in 0 .. NRUNDOEVENTS - 1
      BY <1>1, <2>2 DEF Slots
    <3>2. (p + 1) % NRUNDOEVENTS = p + 1
      BY <1>1, <3>1
    <3> QED
      BY <2>2, <3>2 DEF Following
  <2> QED
    BY <2>1, <2>2
<1>3. ASSUME NEW p \in Slots PROVE Following(p) \in Slots
  BY <1>1, <1>2 DEF Slots
<1>4. ASSUME NEW p \in Slots, NEW q \in Slots, Following(p) = Following(q) PROVE p = q
  <2>1. p \in Nat /\ q \in Nat /\ NRUNDOEVENTS - 1 \in Nat
    BY <1>1 DEF Slots
  <2>2. CASE p = NRUNDOEVENTS - 1
    <3>1. Following(p) = 0 /\ (q # NRUNDOEVENTS - 1 => Following(q) = q + 1)
      BY <1>2, <2>2
    <3> QED
      BY <1>4, <2>1, <2>2, <3>1
  <2>3. CASE p # NRUNDOEVENTS - 1
    <3>1. Following(p) = p + 1 /\ (q = NRUNDOEVENTS - 1 => Following(q) = 0)
          /\ (q # NRUNDOEVENTS - 1 => Following(q) = q + 1)
      BY <1>2, <2>3
    <3> QED
      BY <1>4, <2>1, <3>1
  <2> QED
    BY <2>2, <2>3
<1> QED
  BY <1>2, <1>3, <1>4

\* A smaller stock is explained as well.
LEMMA ExplainsLess ==
  ASSUME NEW e, NEW B \in Stock, NEW A \in Stock, NEW C \in Stock,
         Explains(e, B, A), Within(C, A)
  PROVE  Explains(e, B, C)
BY DEF Explains, Within, Stock

LEMMA BlankExplains ==
  ASSUME NEW A \in Stock
  PROVE  Explains(Blank, [all |-> Blocks, twice |-> Blocks], A)
BY DEF Explains, Blank, Stock

LEMMA BlankRingExplained ==
  ASSUME NEW now \in Stock, NEW last
  PROVE  \E R \in [Slots -> Stock] : Explained([k \in Slots |-> Blank], last, R, now)
<1> DEFINE every == [all |-> Blocks, twice |-> Blocks]
           R == [k \in Slots |-> every]
<1>1. every \in Stock
  BY DEF Stock
<1>2. \A A \in Stock : Explains(Blank, every, A)
  BY BlankExplains
<1> HIDE DEF every
<1>3. R \in [Slots -> Stock]
  BY <1>1
<1>4. \A p \in Slots : (IF p = last THEN now ELSE R[Following(p)]) \in Stock
  BY <1>1, FollowingSlot
<1>5. Explained([k \in Slots |-> Blank], last, R, now)
  BY <1>2, <1>4 DEF Explained
<1> QED
  BY <1>3, <1>5

\* A new event: in front of it there was the list it was made in.
LEMMA AddedIsExplained ==
  ASSUME NEW ring \in [Slots -> Event], NEW last \in Slots, NEW R \in [Slots -> Stock],
         NEW was \in Stock, NEW now \in Stock, Explained(ring, last, R, was),
         NEW e, Explains(e, was, now)
  PROVE  \E Q \in [Slots -> Stock] :
           Explained([ring EXCEPT ![Following(last)] = e], Following(last), Q, now)
<1> DEFINE s == Following(last)
           Q == [R EXCEPT ![s] = was]
           more == [ring EXCEPT ![s] = e]
<1>1. s \in Slots /\ Q \in [Slots -> Stock]
  BY FollowingSlot
<1>2. ASSUME NEW p \in Slots
      PROVE  Explains(more[p], Q[p], IF p = s THEN now ELSE Q[Following(p)])
  <2>1. CASE p = s
    BY <1>1, <2>1
  <2>2. CASE p # s /\ p = last
    <3>1. Explains(ring[last], R[last], was)
      BY <2>2 DEF Explained
    <3>2. more[p] = ring[last] /\ Q[p] = R[last] /\ Q[Following(p)] = was
      BY <1>1, <2>2
    <3> QED
      BY <2>2, <3>1, <3>2
  <2>3. CASE p # s /\ p # last
    <3>1. Explains(ring[p], R[p], R[Following(p)])
      BY <2>3 DEF Explained
    <3>2. Following(p) # s /\ Following(p) \in Slots
      BY <2>3, FollowingSlot
    <3>3. more[p] = ring[p] /\ Q[p] = R[p] /\ Q[Following(p)] = R[Following(p)]
      BY <1>1, <2>3, <3>2
    <3> QED
      BY <2>3, <3>1, <3>3
  <2> QED
    BY <2>1, <2>2, <2>3
<1>3. Explained(more, s, Q, now)
  BY <1>2 DEF Explained
<1> QED
  BY <1>1, <1>3

\* An event taken back: the list is again within the stock in front of it.
LEMMA PoppedIsExplained ==
  ASSUME NEW ring \in [Slots -> Event], NEW last \in Slots, NEW R \in [Slots -> Stock],
         NEW was \in Stock, NEW now \in Stock, Explained(ring, last, R, was),
         Within(now, R[last]),
         NEW before, before = IF last > 0 THEN last - 1 ELSE NRUNDOEVENTS - 1
  PROVE  \E Q \in [Slots -> Stock] : Explained([ring EXCEPT ![last] = Blank], before, Q, now)
<1> DEFINE every == [all |-> Blocks, twice |-> Blocks]
           Q == [R EXCEPT ![last] = every]
           less == [ring EXCEPT ![last] = Blank]
<1>1. every \in Stock
  BY DEF Stock
<1>2. \A A \in Stock : Explains(Blank, every, A)
  BY BlankExplains
<1> HIDE DEF every
<1>3. Q \in [Slots -> Stock]
  BY <1>1
<1>4. before \in Slots /\ Following(before) = last
  <2>1. NRUNDOEVENTS \in Nat \ {0}
    BY SizesAreNaturals
  <2>2. before \in Slots /\ last = IF before = NRUNDOEVENTS - 1 THEN 0 ELSE before + 1
    BY <2>1 DEF Slots
  <2> QED
    BY <2>2, FollowingSlot
<1>5. ASSUME NEW p \in Slots
      PROVE  Explains(less[p], Q[p], IF p = before THEN now ELSE Q[Following(p)])
  <2>1. CASE p = last
    <3>1. (IF p = before THEN now ELSE Q[Following(p)]) \in Stock
      BY <1>3, FollowingSlot
    <3>2. less[p] = Blank /\ Q[p] = every
      BY <2>1
    <3> HIDE DEF less, Q
    <3> QED
      BY <1>2, <3>1, <3>2
  <2>2. CASE p # last /\ p = before
    <3>1. Explains(ring[p], R[p], R[last])
      BY <1>4, <2>2 DEF Explained
    <3>2. less[p] = ring[p] /\ Q[p] = R[p] /\ R[p] \in Stock /\ R[last] \in Stock
      BY <2>2
    <3> HIDE DEF less, Q
    <3> QED
      BY <2>2, <3>1, <3>2, ExplainsLess
  <2>3. CASE p # last /\ p # before
    <3>1. Explains(ring[p], R[p], R[Following(p)])
      BY <2>3 DEF Explained
    <3>2. Following(p) # last /\ Following(p) \in Slots
      BY <1>4, <2>3, FollowingSlot
    <3>3. less[p] = ring[p] /\ Q[p] = R[p] /\ Q[Following(p)] = R[Following(p)]
      BY <2>3, <3>2
    <3> HIDE DEF less, Q
    <3> QED
      BY <2>3, <3>1, <3>3
  <2> QED
    BY <2>1, <2>2, <2>3
<1>6. Explained(less, before, Q, now)
  BY <1>5 DEF Explained
<1> QED
  BY <1>3, <1>6

-----------------------------------------------------------------------------
(* What the keys put into the ring explains the list they leave, and Recall *)
(* finds the stock in front of the event again.                            *)

LEMMA StocksOf ==
  ASSUME NEW ms \in Seq(Marker), NEW ns \in Seq(Marker)
  PROVE  /\ StockOf(ms) \in Stock /\ StockOf(ns) \in Stock
         /\ StockOf(ms).all = Held(ms) /\ StockOf(ms).twice = HeldTwice(ms)
         /\ StockOf(ns).all = Held(ns) /\ StockOf(ns).twice = HeldTwice(ns)
         /\ 0 \notin Held(ms) /\ 0 \notin HeldTwice(ms)
         /\ 0 \notin Held(ns) /\ 0 \notin HeldTwice(ns)
         /\ HeldTwice(ms) \subseteq Held(ms) /\ HeldTwice(ns) \subseteq Held(ns)
<1>1. 0 \notin Held(ms) /\ 0 \notin Held(ns)
  BY DEF Held
<1>2. HeldTwice(ms) \subseteq Held(ms) /\ HeldTwice(ns) \subseteq Held(ns)
  BY DEF HeldTwice
<1> QED
  BY <1>1, <1>2, StockIsTyped

LEMMA AddExplains ==
  ASSUME NEW ms \in Seq(Marker), NEW ns \in Seq(Marker), NEW p, NEW b \in Blocks,
         PutIn(ms, ns, p, b), b \notin Held(ms), NEW sel, NEW cap
  PROVE  Explains(SegmentEvent(0, b, sel, cap), StockOf(ms), StockOf(ns))
<1> DEFINE e == SegmentEvent(0, b, sel, cap)
           A == StockOf(ns)
           B == StockOf(ms)
<1>1. e.seg /\ e.prev = 0 /\ e.new = b
  BY DEF SegmentEvent
<1>2. /\ A.all = Held(ns) /\ A.twice = HeldTwice(ns) /\ B.all = Held(ms)
      /\ B.twice = HeldTwice(ms) /\ 0 \notin Held(ms)
  BY StocksOf
<1>3. /\ Held(ns) = (Held(ms) \cup {b}) \ {0}
      /\ HeldTwice(ns) \subseteq HeldTwice(ms) /\ b \notin HeldTwice(ns)
  BY StockWithBlock
<1> HIDE DEF e, A, B
<1>4. A.twice \subseteq B.twice /\ A.all \ {b} \subseteq B.all /\ b \notin A.twice
  BY <1>2, <1>3
<1>5. b = 0 => A.all \subseteq B.all
  BY <1>2, <1>3
<1>6. Explains(e, B, A)
  BY <1>1, <1>4, <1>5 DEF Explains
<1> QED
  BY <1>6 DEF e, A, B

LEMMA DeleteExplains ==
  ASSUME NEW ms \in Seq(Marker), NEW ns \in Seq(Marker), NEW p, NEW x \in Blocks,
         PutIn(ns, ms, p, x), NEW sel, NEW cap
  PROVE  Explains(SegmentEvent(x, 0, sel, cap), StockOf(ms), StockOf(ns))
<1> DEFINE e == SegmentEvent(x, 0, sel, cap)
           A == StockOf(ns)
           B == StockOf(ms)
<1>1. e.seg /\ e.prev = x /\ e.new = 0
  BY DEF SegmentEvent
<1>2. /\ A.all = Held(ns) /\ A.twice = HeldTwice(ns) /\ B.all = Held(ms)
      /\ B.twice = HeldTwice(ms) /\ 0 \notin Held(ns)
  BY StocksOf
<1>3. Held(ms) = (Held(ns) \cup {x}) \ {0} /\ HeldTwice(ns) \subseteq HeldTwice(ms)
  BY StockWithBlock
<1> HIDE DEF e, A, B
<1>4. A.twice \subseteq B.twice /\ A.all \subseteq B.all /\ (x # 0 => x \in B.all)
  BY <1>2, <1>3
<1>5. Explains(e, B, A)
  BY <1>1, <1>4 DEF Explains
<1> QED
  BY <1>5 DEF e, A, B

LEMMA MoveExplains ==
  ASSUME NEW ms \in Seq(Marker), NEW ns \in Seq(Marker), NEW p, NEW b \in Blocks,
         NEW x \in Blocks, Replaced(ms, ns, p, b), x = ms[p].block, x # b,
         Sorted(ms), Sorted(ns), NEW sel, NEW cap,
         \A k \in 2 .. Len(ms) - 1 : k # p => ms[k].block # b
  PROVE  Explains(SegmentEvent(x, b, sel, cap), StockOf(ms), StockOf(ns))
<1> DEFINE e == SegmentEvent(x, b, sel, cap)
           A == StockOf(ns)
           B == StockOf(ms)
<1>1. e.seg /\ e.prev = x /\ e.new = b
  BY DEF SegmentEvent
<1>2. /\ A.all = Held(ns) /\ A.twice = HeldTwice(ns) /\ B.all = Held(ms)
      /\ B.twice = HeldTwice(ms) /\ 0 \notin Held(ns)
  BY StocksOf
<1>3. \A z \in Held(ns) : z # b => z \in Held(ms) /\ (z = x => z \in HeldTwice(ms))
  BY StockReplaced
<1>4. \A y \in HeldTwice(ns) : y # b /\ y \in HeldTwice(ms)
  BY StockReplaced
<1>5. x # 0 => x \in Held(ms)
  BY StockReplaced
<1>6. \A z \in Held(ns) \ {b} : (z < b => z <= x) /\ (z > b => z >= x)
  BY SizesAreNaturals, NoneBetween DEF Blocks
<1> HIDE DEF e, A, B
<1>7. A.twice \subseteq B.twice /\ b \notin A.twice /\ A.all \ {b} \subseteq B.all
  BY <1>2, <1>3, <1>4
<1>8. b = 0 => A.all \subseteq B.all
  BY <1>2, <1>7
<1>9. (x # 0 => x \in B.all) /\ (x \in A.all => x \in B.twice)
  BY <1>2, <1>3, <1>5
<1>10. \A z \in A.all \ {b} : (z < b => z <= x) /\ (z > b => z >= x)
  BY <1>2, <1>6
<1>11. Explains(e, B, A)
  BY <1>1, <1>7, <1>8, <1>9, <1>10 DEF Explains
<1> QED
  BY <1>11 DEF e, A, B

LEMMA SameExplains ==
  ASSUME NEW A \in Stock, NEW e, ~e.seg \/ e.new = e.prev
  PROVE  Explains(e, A, A)
BY DEF Explains

LEMMA UndoneDeleteWithin ==
  ASSUME NEW ms \in Seq(Marker), NEW ns \in Seq(Marker), NEW p, NEW e, NEW B \in Stock,
         Explains(e, B, StockOf(ms)), e.seg, e.new = 0, e.prev # 0,
         PutIn(ms, ns, p, e.prev), e.prev \notin Held(ms)
  PROVE  Within(StockOf(ns), B)
<1>1. /\ StockOf(ns).all = Held(ns) /\ StockOf(ns).twice = HeldTwice(ns)
      /\ StockOf(ms).all = Held(ms) /\ StockOf(ms).twice = HeldTwice(ms)
  BY StocksOf
<1>2. Held(ns) = (Held(ms) \cup {e.prev}) \ {0} /\ HeldTwice(ns) \subseteq HeldTwice(ms)
  BY StockWithBlock
<1>3. Held(ms) \cup {e.prev} \subseteq B.all /\ HeldTwice(ms) \subseteq B.twice
  BY <1>1 DEF Explains
<1> QED
  BY <1>1, <1>2, <1>3 DEF Within

LEMMA UndoneAddWithin ==
  ASSUME NEW ms \in Seq(Marker), NEW ns \in Seq(Marker), NEW p, NEW e, NEW B \in Stock,
         Explains(e, B, StockOf(ms)), e.seg, e.new # 0, e.prev = 0, PutIn(ns, ms, p, e.new)
  PROVE  Within(StockOf(ns), B)
<1>1. /\ StockOf(ns).all = Held(ns) /\ StockOf(ns).twice = HeldTwice(ns)
      /\ StockOf(ms).all = Held(ms) /\ StockOf(ms).twice = HeldTwice(ms) /\ 0 \notin Held(ns)
  BY StocksOf
<1>2. /\ Held(ms) = (Held(ns) \cup {e.new}) \ {0} /\ HeldTwice(ns) \subseteq HeldTwice(ms)
      /\ e.new \in Held(ns) => e.new \in HeldTwice(ms)
  BY StockWithBlock
<1>3. /\ Held(ms) \ {e.new} \subseteq B.all /\ HeldTwice(ms) \subseteq B.twice
      /\ e.new \notin HeldTwice(ms)
  BY <1>1 DEF Explains
<1>4. Held(ns) \subseteq Held(ms) \ {e.new}
  BY <1>1, <1>2, <1>3
<1> QED
  BY <1>1, <1>2, <1>3, <1>4 DEF Within

LEMMA UndoneMoveWithin ==
  ASSUME NEW ms \in Seq(Marker), NEW ns \in Seq(Marker), NEW p, NEW e, NEW B \in Stock,
         Explains(e, B, StockOf(ms)), e.seg, e.new # 0, e.prev # 0, e.new # e.prev,
         Replaced(ms, ns, p, e.prev), ms[p].block = e.new
  PROVE  Within(StockOf(ns), B)
<1>1. /\ StockOf(ns).all = Held(ns) /\ StockOf(ns).twice = HeldTwice(ns)
      /\ StockOf(ms).all = Held(ms) /\ StockOf(ms).twice = HeldTwice(ms)
  BY StocksOf
<1>2. /\ \A z \in Held(ns) : z # e.prev =>
           z \in Held(ms) /\ (z = e.new => z \in HeldTwice(ms))
      /\ \A y \in HeldTwice(ns) :
           \/ y # e.prev /\ y \in HeldTwice(ms)
           \/ y = e.prev /\ y \in Held(ms)
      /\ e.new \in Held(ms)
  BY StockReplaced
<1>3. /\ Held(ms) \ {e.new} \subseteq B.all /\ HeldTwice(ms) \subseteq B.twice
      /\ e.new \notin HeldTwice(ms)
      /\ e.new \in Held(ms) => e.prev \in B.all
      /\ e.prev \in Held(ms) => e.prev \in B.twice
  BY <1>1 DEF Explains
<1>4. Held(ns) \subseteq B.all
  BY <1>2, <1>3
<1>5. HeldTwice(ns) \subseteq B.twice
  BY <1>2, <1>3
<1> QED
  BY <1>1, <1>4, <1>5 DEF Within

\* The event is about a marker that is not in the list any more.
LEMMA UndoneNothingWithin ==
  ASSUME NEW ms \in Seq(Marker), NEW e, NEW B \in Stock, Explains(e, B, StockOf(ms)),
         \/ ~e.seg \/ e.new = e.prev
         \/ e.seg /\ e.new = 0 /\ e.prev # 0
         \/ e.seg /\ e.new # 0 /\ e.new \notin Held(ms)
  PROVE  Within(StockOf(ms), B)
<1>1. StockOf(ms).all = Held(ms) /\ StockOf(ms).twice = HeldTwice(ms)
  BY StocksOf
<1>2. HeldTwice(ms) \subseteq B.twice
  BY <1>1 DEF Explains
<1>3. CASE ~e.seg \/ e.new = e.prev
  BY <1>1, <1>2, <1>3 DEF Explains, Within
<1>4. CASE e.seg /\ e.new = 0 /\ e.prev # 0
  BY <1>1, <1>2, <1>4 DEF Explains, Within
<1>5. CASE e.seg /\ e.new # 0 /\ e.new # e.prev /\ e.new \notin Held(ms)
  <2>1. Held(ms) \ {e.new} \subseteq B.all
    BY <1>1, <1>5 DEF Explains
  <2> QED
    BY <1>1, <1>2, <1>5, <2>1 DEF Within
<1> QED
  BY <1>3, <1>4, <1>5

-----------------------------------------------------------------------------
(* The operations on the list as changes of its blocks.                    *)

LEMMA AddPutsIn ==
  ASSUME Framed(markers), NEW b \in Blocks, NEW sel \in BOOLEAN,
         NEW cap \in Captions \cup {NoCaption}, AddSegmentMarker(b, sel, cap)
  PROVE  /\ markers' \in Seq(Marker)
         /\ PutIn(markers, markers', InsertIndex(markers, b) + 1, b)
<1> DEFINE p == InsertIndex(markers, b) + 1
           m == [block |-> b, sel |-> sel, cap |-> cap]
           n == Len(markers)
<1>1. m \in Marker /\ m.block = b /\ markers \in Seq(Marker) /\ n \in Nat
  BY DEF Marker, Framed
<1>2. markers' = InsertAt(markers, p, m)
  BY DEF AddSegmentMarker
<1>3. p \in 2 .. n /\ p \in 1 .. n + 1
  <2>1. InsertIndex(markers, b) \in 1 .. n - 1
    BY InsertIndexInRange
  <2> QED
    BY <1>1, <2>1
<1> HIDE DEF p, m
<1>4. markers' \in Seq(Marker) /\ Len(markers') = n + 1
  BY <1>1, <1>2, <1>3, InsertAtProperties
<1>5. ASSUME NEW k \in 1 .. n + 1
      PROVE  markers'[k] = IF k < p THEN markers[k] ELSE IF k = p THEN m ELSE markers[k - 1]
  <2>1. \A j \in 1 .. n + 1 :
          InsertAt(markers, p, m)[j] =
            IF j < p THEN markers[j] ELSE IF j = p THEN m ELSE markers[j - 1]
    BY <1>1, <1>3, InsertAtProperties
  <2> QED
    BY <1>2, <2>1
<1> HIDE DEF n
<1>6. \A k \in 1 .. n + 1 :
        markers'[k].block = IF k < p THEN markers[k].block
                            ELSE IF k = p THEN b ELSE markers[k - 1].block
  <2> TAKE k \in 1 .. n + 1
  <2>1. CASE k < p
    BY <1>5, <2>1
  <2>2. CASE k = p
    BY <1>1, <1>5, <2>2
  <2>3. CASE ~(k < p) /\ k # p
    BY <1>5, <2>3
  <2> QED
    BY <2>1, <2>2, <2>3
<1>7. PutIn(markers, markers', p, b)
  BY <1>1, <1>3, <1>4, <1>6 DEF PutIn, n
<1> QED
  BY <1>4, <1>7 DEF p

LEMMA DeleteTakesOut ==
  ASSUME Framed(markers), NEW i \in Interior(markers), DeleteSegmentMarker(i)
  PROVE  /\ markers' \in Seq(Marker) /\ BlockAt(markers, i) \in Blocks
         /\ PutIn(markers', markers, i + 1, BlockAt(markers, i))
<1> DEFINE n    == Len(markers)
           p    == i + 1
           rest == RemoveAt(markers, p)
           x    == BlockAt(markers, i)
<1>1. markers \in Seq(Marker) /\ n \in Nat /\ 3 <= n /\ p \in 1 .. n /\ p \in 2 .. n - 1
  BY DEF Framed, Interior, Nr
<1>2. markers[p] \in Marker /\ x = markers[p].block
  BY <1>1 DEF BlockAt
<1>3. x \in Blocks
  BY <1>2 DEF Marker
<1>4. markers' = [rest EXCEPT ![Len(rest)].sel = FALSE]
  BY DEF DeleteSegmentMarker
<1> HIDE DEF p
<1>5. /\ rest \in Seq(Marker) /\ Len(rest) = n - 1
      /\ \A k \in 1 .. n - 1 : rest[k] = IF k < p THEN markers[k] ELSE markers[k + 1]
  BY <1>1, RemoveAtProperties
<1> HIDE DEF n, rest, x
<1>6. /\ markers' \in Seq(Marker) /\ Len(markers') = n - 1
      /\ \A k \in 1 .. n - 1 : markers'[k].block = rest[k].block
  <2> DEFINE m == [rest[Len(rest)] EXCEPT !.sel = FALSE]
  <2>1. Len(rest) \in DOMAIN rest /\ rest[Len(rest)] \in Marker
    BY <1>1, <1>5
  <2>2. m \in Marker /\ m.block = rest[Len(rest)].block
    BY <2>1 DEF Marker
  <2>3. markers' = [rest EXCEPT ![Len(rest)] = m]
    BY <1>4
  <2> HIDE DEF m
  <2> QED
    BY <1>5, <2>1, <2>2, <2>3
<1>7. ASSUME NEW k \in 1 .. n - 1 + 1
      PROVE  markers[k].block = IF k < p THEN markers'[k].block
                                ELSE IF k = p THEN x ELSE markers'[k - 1].block
  <2>1. CASE k < p
    <3>1. k \in 1 .. n - 1
      BY <1>1, <2>1
    <3> QED
      BY <1>5, <1>6, <2>1, <3>1
  <2>2. CASE k = p
    BY <1>1, <1>2, <2>2
  <2>3. CASE k > p
    <3>1. k - 1 \in 1 .. n - 1 /\ ~(k - 1 < p) /\ k - 1 + 1 = k /\ ~(k < p) /\ k # p
      BY <1>1, <2>3
    <3>2. markers'[k - 1].block = rest[k - 1].block /\ rest[k - 1] = markers[k - 1 + 1]
      BY <1>5, <1>6, <3>1
    <3> QED
      BY <3>1, <3>2
  <2> QED
    BY <1>1, <2>1, <2>2, <2>3
<1>8. /\ Len(markers') = n - 1 /\ Len(markers') \in Nat /\ p \in 2 .. Len(markers')
      /\ Len(markers) = Len(markers') + 1
  BY <1>1, <1>6 DEF n
<1>9. PutIn(markers', markers, p, x)
  BY <1>7, <1>8 DEF PutIn
<1> QED
  BY <1>3, <1>6, <1>9 DEF p, x

LEMMA MoveReplaces ==
  ASSUME Framed(markers), NEW i \in Interior(markers), NEW b \in Blocks,
         MoveSegmentMarker(i, b)
  PROVE  /\ markers' \in Seq(Marker) /\ BlockAt(markers, i) \in Blocks
         /\ BlockAt(markers, i) = markers[i + 1].block
         /\ Replaced(markers, markers', i + 1, b)
<1> DEFINE n == Len(markers)
           p == i + 1
           m == [markers[p] EXCEPT !.block = b]
<1>1. markers \in Seq(Marker) /\ n \in Nat /\ p \in 1 .. n /\ p \in 2 .. n - 1
  BY DEF Framed, Interior, Nr
<1>2. markers[p] \in Marker
  BY <1>1
<1>3. m \in Marker /\ m.block = b /\ markers[p].block \in Blocks
  BY <1>2 DEF Marker
<1>4. markers' = [markers EXCEPT ![p] = m]
  BY DEF MoveSegmentMarker
<1> HIDE DEF m, p
<1>5. markers' \in Seq(Marker) /\ Len(markers') = n /\ markers'[p].block = b
  BY <1>1, <1>3, <1>4
<1>6. \A k \in 1 .. n : k # p => markers'[k].block = markers[k].block
  BY <1>1, <1>4
<1>7. Replaced(markers, markers', p, b)
  BY <1>1, <1>5, <1>6 DEF Replaced
<1> QED
  BY <1>3, <1>5, <1>7 DEF p, BlockAt

\* AddSegmentMarker turns a block down that a marker has already.
LEMMA AddedBlockIsNew ==
  ASSUME NEW ms, Framed(ms), Sorted(ms), NEW b \in Blocks, NEW reject, MayAdd(ms, b, reject)
  PROVE  b \notin Held(ms)
<1> DEFINE i == InsertIndex(ms, b)
           I == {j \in 1 .. Nr(ms) - 1 : BlockAt(ms, j) >= b}
           n == Len(ms)
<1>1. /\ i \in 1 .. n - 1 /\ BlockAt(ms, i) # b /\ BlockAt(ms, i) >= b
      /\ \A k \in i + 1 .. n : b <= ms[k].block
  BY InsertIndexInRange, InsertIndexIsPlace DEF MayAdd
<1>2. /\ ms \in Seq(Marker) /\ n \in Nat /\ DOMAIN ms = 1 .. n /\ b \in Nat
      /\ \A k \in 1 .. n : ms[k].block \in Nat
  BY SortedIsAscending, SizesAreNaturals, SMTT(30) DEF Framed, Blocks
<1>3. \A x \in I : i <= x
  <2>1. I \subseteq Nat /\ i \in I /\ i = Min(I)
    BY <1>1 DEF InsertIndex, Nr
  <2> HIDE DEF I, i
  <2> QED
    BY <2>1, MinIsLeast
<1>4. SUFFICES ASSUME b \in Held(ms) PROVE FALSE
  OBVIOUS
<1>5. PICK k \in 2 .. n - 1 : ms[k].block = b
  BY <1>4, HeldIs
<1>6. k - 1 \in I
  <2>1. k - 1 \in 1 .. n - 1 /\ BlockAt(ms, k - 1) = b
    BY <1>2, <1>5 DEF BlockAt
  <2> QED
    BY <1>2, <2>1 DEF Nr
<1>7. i <= k - 1
  BY <1>3, <1>6
<1> HIDE DEF I, i
<1>8. i + 1 \in 1 .. n /\ k \in 1 .. n /\ i + 1 <= k
  BY <1>1, <1>2, <1>5, <1>7
<1>9. ms[i + 1].block <= b
  <2>1. CASE i + 1 = k
    BY <1>2, <1>5, <2>1
  <2>2. CASE i + 1 < k
    BY <1>2, <1>5, <1>8, <2>2 DEF Sorted
  <2> QED
    BY <1>1, <1>2, <1>5, <1>8, <2>1, <2>2
<1>10. ms[i + 1].block >= b /\ ms[i + 1].block # b
  BY <1>1 DEF BlockAt
<1> QED
  BY <1>2, <1>8, <1>9, <1>10

\* The Yellow key moves a marker to a block that no other has.
LEMMA MovedBlockIsNew ==
  ASSUME Framed(markers), Sorted(markers), NEW i, NEW b \in Blocks,
         MayMove(markers, i, b, TRUE)
  PROVE  \A k \in 2 .. Len(markers) - 1 : k # i + 1 => markers[k].block # b
<1> DEFINE n == Len(markers)
<1>1. /\ markers \in Seq(Marker) /\ n \in Nat /\ i \in 1 .. n - 2
      /\ DOMAIN markers = 1 .. n /\ b \in Nat /\ Margin \in Nat
      /\ \A k \in 1 .. n : markers[k].block \in Nat
  <2>1. markers \in Seq(Marker) /\ n \in Nat /\ DOMAIN markers = 1 .. n
    BY DEF Framed
  <2>2. i \in 1 .. n - 2
    BY DEF MayMove, Interior, Nr
  <2>3. b \in Nat /\ Margin \in Nat
    BY SizesAreNaturals DEF Blocks
  <2> QED
    BY <2>1, <2>2, <2>3, SortedIsAscending
<1>2. /\ i > 1 => ~(b <= BlockAt(markers, i - 1) + Margin)
      /\ i < n - 2 => ~(b + Margin >= BlockAt(markers, i + 1))
  BY DEF MayMove, TooSmallToMove, Nr
<1> SUFFICES ASSUME NEW k \in 2 .. n - 1, k # i + 1 PROVE markers[k].block # b
  OBVIOUS
<1>3. CASE k < i + 1
  <2>1. i > 1 /\ i \in 1 .. n /\ k \in 1 .. n /\ k <= i /\ i - 1 + 1 = i
    BY <1>1, <1>3
  <2>2. markers[k].block <= markers[i].block
    BY <1>1, <2>1, SMTT(30) DEF Sorted
  <2>3. ~(b <= markers[i].block + Margin)
    BY <1>2, <2>1 DEF BlockAt
  <2> QED
    BY <1>1, <2>1, <2>2, <2>3
<1>4. CASE k > i + 1
  <2>1. i < n - 2 /\ i + 2 \in 1 .. n /\ k \in 1 .. n /\ i + 2 <= k /\ i + 1 + 1 = i + 2
    BY <1>1, <1>4
  <2>2. markers[i + 2].block <= markers[k].block
    BY <1>1, <2>1, SMTT(30) DEF Sorted
  <2>3. ~(b + Margin >= markers[i + 2].block)
    BY <1>2, <2>1 DEF BlockAt
  <2> QED
    BY <1>1, <2>1, <2>2, <2>3
<1> QED
  BY <1>1, <1>3, <1>4

-----------------------------------------------------------------------------
(* The invariant.                                                          *)

LEMMA EventRecorded ==
  ASSUME IndInv, RingExplained, NEW e, UndoAddEvent(e), markers' \in Seq(Marker),
         Explains(e, StockOf(markers), StockOf(markers'))
  PROVE  RingExplained'
<1>1. undo \in [Slots -> Event] /\ undoLast \in Slots /\ markers \in Seq(Marker)
  BY DEF IndInv, TypeOK
<1>2. PICK R \in [Slots -> Stock] : Explained(undo, undoLast, R, StockOf(markers))
  BY DEF RingExplained
<1>3. undoLast' = Following(undoLast) /\ undo' = [undo EXCEPT ![Following(undoLast)] = e]
  BY DEF UndoAddEvent, Following
<1>4. StockOf(markers) \in Stock /\ StockOf(markers') \in Stock
  BY <1>1, StockIsTyped
<1>5. \E Q \in [Slots -> Stock] :
        Explained([undo EXCEPT ![Following(undoLast)] = e], Following(undoLast), Q,
                  StockOf(markers'))
  BY <1>1, <1>2, <1>4, AddedIsExplained
<1> QED
  BY <1>3, <1>5, Zenon DEF RingExplained

LEMMA RingLeft ==
  ASSUME RingExplained, UNCHANGED undoVars, StockOf(markers') = StockOf(markers)
  PROVE  RingExplained'
BY Zenon DEF RingExplained, undoVars

LEMMA RingBlanked ==
  ASSUME undo' = [k \in Slots |-> Blank], markers' \in Seq(Marker)
  PROVE  RingExplained'
<1>1. StockOf(markers') \in Stock
  BY StockIsTyped
<1>2. \E R \in [Slots -> Stock] :
        Explained([k \in Slots |-> Blank], undoLast', R, StockOf(markers'))
  BY <1>1, BlankRingExplained
<1> QED
  BY <1>2, Zenon DEF RingExplained

LEMMA SameBlocksSameStock ==
  ASSUME markers \in Seq(Marker), markers' \in Seq(Marker), DOMAIN markers' = DOMAIN markers,
         \A k \in DOMAIN markers : markers'[k].block = markers[k].block
  PROVE  StockOf(markers') = StockOf(markers)
<1>1. Len(markers') = Len(markers) /\ Len(markers) \in Nat
  OBVIOUS
<1>2. \A k \in 1 .. Len(markers) : markers'[k].block = markers[k].block
  OBVIOUS
<1> QED
  BY <1>1, <1>2, SameStock

LEMMA MarkedKeepsBlocks ==
  ASSUME markers \in Seq(Marker), NEW x, NEW v,
         \/ markers' = [markers EXCEPT ![x].sel = v]
         \/ markers' = [markers EXCEPT ![x].cap = v]
  PROVE  /\ DOMAIN markers' = DOMAIN markers
         /\ \A k \in DOMAIN markers : markers'[k].block = markers[k].block
<1>1. DOMAIN markers' = DOMAIN markers
  OBVIOUS
<1>2. ASSUME NEW k \in DOMAIN markers PROVE markers'[k].block = markers[k].block
  <2>1. markers[k] \in Marker
    OBVIOUS
  <2>2. /\ [markers[k] EXCEPT !.sel = v].block = markers[k].block
        /\ [markers[k] EXCEPT !.cap = v].block = markers[k].block
    BY <2>1 DEF Marker
  <2>3. \/ markers'[k] = markers[k] \/ markers'[k] = [markers[k] EXCEPT !.sel = v]
        \/ markers'[k] = [markers[k] EXCEPT !.cap = v]
    BY <1>2
  <2> QED
    BY <2>2, <2>3, Zenon
<1> QED
  BY <1>1, <1>2

LEMMA EditKeysExplain ==
  ASSUME IndInv, IndInv', Sorted(markers), Sorted(markers'), RingExplained, EditKey
  PROVE  RingExplained'
<1>1. RestTyped /\ Framed(markers) /\ markers \in Seq(Marker) /\ markers' \in Seq(Marker)
  <2>1. state # "WaitForPlayback"
    BY DEF EditKey, AddMarkerKey, DeleteMarkerKey, MoveMarkerKey, CaptionKey, Editing
  <2> QED
    BY <2>1, EditingIsPositioned DEF Positioned, IndInv, TypeOK
<1>2. CASE AddMarkerKey
  <2>1. PICK pos \in Positions :
          LET b == IFrame(currentVisibleBlock(pos))
          IN  /\ MayAdd(markers, b, TRUE) /\ AddSegmentMarker(b, FALSE, NoCaption)
              /\ UndoAddEvent(SegmentEvent(0, b, FALSE, NoCaption))
    BY <1>2, Zenon DEF AddMarkerKey
  <2> DEFINE b == IFrame(currentVisibleBlock(pos))
             e == SegmentEvent(0, b, FALSE, NoCaption)
  <2>2. b \in Blocks
    BY <1>1, VisibleBlockInRange, IFrameInRange
  <2>3. MayAdd(markers, b, TRUE) /\ AddSegmentMarker(b, FALSE, NoCaption) /\ UndoAddEvent(e)
    BY <2>1
  <2> HIDE DEF b
  <2>4. /\ b \notin Held(markers)
        /\ PutIn(markers, markers', InsertIndex(markers, b) + 1, b)
    BY <1>1, <2>2, <2>3, AddedBlockIsNew, AddPutsIn
  <2>5. Explains(e, StockOf(markers), StockOf(markers'))
    BY <1>1, <2>2, <2>4, AddExplains
  <2> QED
    BY <1>1, <2>3, <2>5, EventRecorded
<1>3. CASE DeleteMarkerKey
  <2>1. PICK pos \in Positions :
          LET i == FindNearestSegmentMarker(markers, currentVisibleBlock(pos))
          IN  /\ i > 0 /\ DeleteSegmentMarker(i)
              /\ UndoAddEvent(SegmentEvent(BlockAt(markers, i), 0, markers[i + 1].sel,
                                           markers[i + 1].cap))
    BY <1>3, Zenon DEF DeleteMarkerKey
  <2> DEFINE i == FindNearestSegmentMarker(markers, currentVisibleBlock(pos))
             e == SegmentEvent(BlockAt(markers, i), 0, markers[i + 1].sel, markers[i + 1].cap)
  <2>2. i \in Interior(markers) \cup {-1}
    BY <1>1, NearestMarkerInRange
  <2>3. i > 0 /\ DeleteSegmentMarker(i) /\ UndoAddEvent(e)
    BY <2>1
  <2> HIDE DEF i
  <2>4. i \in Interior(markers)
    BY <2>2, <2>3
  <2>5. BlockAt(markers, i) \in Blocks /\ PutIn(markers', markers, i + 1, BlockAt(markers, i))
    BY <1>1, <2>3, <2>4, DeleteTakesOut
  <2>6. Explains(e, StockOf(markers), StockOf(markers'))
    BY <1>1, <2>5, DeleteExplains
  <2> QED
    BY <1>1, <2>3, <2>6, EventRecorded
<1>4. CASE MoveMarkerKey
  <2>1. PICK pos \in Positions :
          LET at == currentVisibleBlock(pos)
              i  == FindNearestSegmentMarker(markers, at)
              b  == IFrame(at)
          IN  /\ MayMove(markers, i, b, TRUE) /\ MoveSegmentMarker(i, b)
              /\ UndoAddEvent(SegmentEvent(BlockAt(markers, i), b, FALSE, NoCaption))
    BY <1>4, Zenon DEF MoveMarkerKey
  <2> DEFINE i == FindNearestSegmentMarker(markers, currentVisibleBlock(pos))
             b == IFrame(currentVisibleBlock(pos))
             e == SegmentEvent(BlockAt(markers, i), b, FALSE, NoCaption)
  <2>2. b \in Blocks
    BY <1>1, VisibleBlockInRange, IFrameInRange
  <2>3. MayMove(markers, i, b, TRUE) /\ MoveSegmentMarker(i, b) /\ UndoAddEvent(e)
    BY <2>1
  <2> HIDE DEF i, b
  <2>4. i \in Interior(markers) /\ BlockAt(markers, i) # b
    BY <2>3 DEF MayMove
  <2>5. /\ BlockAt(markers, i) \in Blocks /\ BlockAt(markers, i) = markers[i + 1].block
        /\ Replaced(markers, markers', i + 1, b)
    BY <1>1, <2>2, <2>3, <2>4, MoveReplaces
  <2>6. \A k \in 2 .. Len(markers) - 1 : k # i + 1 => markers[k].block # b
    BY <1>1, <2>2, <2>3, MovedBlockIsNew
  <2>7. Explains(e, StockOf(markers), StockOf(markers'))
    BY <1>1, <2>2, <2>4, <2>5, <2>6, MoveExplains
  <2> QED
    BY <1>1, <2>3, <2>7, EventRecorded
<1>5. CASE CaptionKey
  <2> DEFINE asked == IF jumpSeg # NoJump THEN jumpSeg ELSE active
             seg   == IF asked >= Nr(markers) - 1 THEN Nr(markers) - 2 ELSE asked
             m     == markers[seg + 1]
             e     == SegmentEvent(m.block, m.block, m.sel, m.cap)
  <2>1. PICK new \in Captions \ heap :
          \/ UNCHANGED <<markers, undoVars>>
          \/ \E text \in BOOLEAN :
               /\ UndoAddEvent(e)
               /\ markers' = [markers EXCEPT ![seg + 1].cap = IF text THEN new ELSE NoCaption]
    BY <1>5, Zenon DEF CaptionKey
  <2>2. e.new = e.prev
    BY DEF SegmentEvent
  <2>3. StockOf(markers) \in Stock
    BY <1>1, StockIsTyped
  <2> HIDE DEF e
  <2>4. CASE UNCHANGED <<markers, undoVars>>
    BY <2>4, RingLeft
  <2>5. CASE \E text \in BOOLEAN :
               /\ UndoAddEvent(e)
               /\ markers' = [markers EXCEPT ![seg + 1].cap = IF text THEN new ELSE NoCaption]
    <3>1. UndoAddEvent(e) /\ \E x, v : markers' = [markers EXCEPT ![x].cap = v]
      BY <2>5, Zenon
    <3>2. StockOf(markers') = StockOf(markers)
      BY <1>1, <3>1, MarkedKeepsBlocks, SameBlocksSameStock
    <3>3. Explains(e, StockOf(markers), StockOf(markers'))
      BY <2>2, <2>3, <3>2, SameExplains
    <3> QED
      BY <1>1, <3>1, <3>3, EventRecorded
  <2> QED
    BY <2>1, <2>4, <2>5
<1> QED
  BY <1>2, <1>3, <1>4, <1>5 DEF EditKey

LEMMA BookmarkKeysExplain ==
  ASSUME IndInv, RingExplained, BookmarkKey
  PROVE  RingExplained'
<1>1. markers' = markers /\ markers \in Seq(Marker)
  BY DEF BookmarkKey, AddBookmarkKey, DeleteBookmarkKey, MoveBookmarkKey, IndInv, TypeOK
<1>2. UNCHANGED undoVars \/ \E prev, new : UndoAddEvent(BookmarkEvent(prev, new))
  BY Zenon DEF BookmarkKey, AddBookmarkKey, DeleteBookmarkKey, MoveBookmarkKey
<1>3. CASE UNCHANGED undoVars
  BY <1>1, <1>3, RingLeft
<1>4. ASSUME NEW prev, NEW new, UndoAddEvent(BookmarkEvent(prev, new))
      PROVE  RingExplained'
  <2> DEFINE e == BookmarkEvent(prev, new)
  <2>1. ~e.seg
    BY DEF BookmarkEvent
  <2> HIDE DEF e
  <2>2. Explains(e, StockOf(markers), StockOf(markers'))
    BY <1>1, <2>1, StockIsTyped, SameExplains
  <2> QED
    BY <1>1, <1>4, <2>2, EventRecorded DEF e
<1> QED
  BY <1>2, <1>3, <1>4

-----------------------------------------------------------------------------
(* Recall.                                                                 *)

\* The search of UndoLastAction returns the first marker of the block, if any.
LEMMA EventMarkerFinds ==
  ASSUME NEW ms, Framed(ms), NEW e, NEW i, i = EventMarker(ms, e)
  PROVE  /\ i \in (0 .. Len(ms) - 2) \cup {-1}
         /\ i # -1 => BlockAt(ms, i) = e.new
         /\ \A j \in 0 .. Len(ms) - 2 : BlockAt(ms, j) = e.new => i # -1 /\ i <= j
<1> DEFINE I == {k \in 0 .. Nr(ms) - 2 : BlockAt(ms, k) = e.new}
<1>1. /\ I \subseteq Nat
      /\ \A k : k \in I <=> k \in 0 .. Len(ms) - 2 /\ BlockAt(ms, k) = e.new
  BY DEF Framed, Nr
<1>2. i = IF I = {} THEN -1 ELSE Min(I)
  BY DEF EventMarker
<1> HIDE DEF I
<1>3. CASE I = {}
  BY <1>1, <1>2, <1>3
<1>4. CASE I # {}
  <2>1. i = Min(I) /\ Min(I) \in I /\ \A x \in I : Min(I) <= x
    BY <1>1, <1>2, <1>4, MinIsLeast
  <2>2. i \in I /\ i # -1
    BY <1>1, <2>1
  <2> QED
    BY <1>1, <2>1, <2>2
<1> QED
  BY <1>3, <1>4

\* Moved back, the marker comes to lie between its neighbours: no block of the list is
\* on the way, and the first of several markers at one block is not moved forward.
LEMMA UndoneMoveSorts ==
  ASSUME Framed(markers), Sorted(markers), NEW e, NEW i, i = EventMarker(markers, e),
         i \in Interior(markers), NEW B \in Stock, Explains(e, B, StockOf(markers)),
         e.seg, e.new # 0, e.prev # 0, e.new # e.prev, e.prev \in Blocks,
         MoveSegmentMarker(i, e.prev)
  PROVE  Sorted(markers')
<1> DEFINE n == Len(markers)
           p == i + 1
           b == e.prev
           f == BlocksIn(markers)
           g == BlocksIn(markers')
<1>1. /\ markers \in Seq(Marker) /\ n \in Nat /\ i \in 1 .. n - 2
      /\ markers[1].block = 0 /\ markers[n].block = TotalBlock
  BY DEF Framed, Interior, Nr
<1>2. /\ markers' \in Seq(Marker) /\ Len(markers') = n /\ markers'[p].block = b
      /\ \A k \in 1 .. n : k # p => markers'[k].block = markers[k].block
  BY MoveReplaces DEF Replaced
<1>3. /\ p \in 2 .. n - 1 /\ p - 1 = i /\ p - 1 \in 1 .. n /\ p + 1 \in 1 .. n /\ p \in 1 .. n
      /\ i \in 0 .. n - 2
  BY <1>1
<1>4. /\ BlockAt(markers, i) = e.new
      /\ \A j \in 0 .. n - 2 : BlockAt(markers, j) = e.new => i <= j
  BY <1>3, EventMarkerFinds
<1>5. markers[p].block = e.new /\ (i - 1 >= 0 => markers[i].block # e.new)
  <2>1. i - 1 \in 0 .. n - 2 /\ ~(i <= i - 1) /\ i - 1 + 1 = i
    BY <1>1
  <2>2. BlockAt(markers, i - 1) # e.new /\ BlockAt(markers, i - 1) = markers[i].block
    BY <1>4, <2>1 DEF BlockAt
  <2> QED
    BY <1>4, <2>2 DEF BlockAt
<1>6. /\ Ascending(f, n) /\ \A k \in 1 .. n : f[k] \in Nat /\ f[k] = markers[k].block
      /\ \A k \in 1 .. n : g[k] = markers'[k].block
      /\ Sorted(markers') <=> Ascending(g, n)
  BY <1>1, <1>2, SortedIsAscending
<1>7. /\ e.new \notin HeldTwice(markers)
      /\ \A z \in Held(markers) \ {e.new} :
           (z < e.new => z <= b) /\ (z > e.new => z >= b)
  <2>1. StockOf(markers).all = Held(markers) /\ StockOf(markers).twice = HeldTwice(markers)
    BY <1>1, StockIsTyped
  <2> QED
    BY <2>1 DEF Explains
<1>8. b \in Nat /\ b <= TotalBlock /\ TotalBlock \in Nat
  BY SizesAreNaturals DEF Blocks
<1> HIDE DEF n, p, f, g, b
<1>9. f[p - 1] <= f[p] /\ f[p] <= f[p + 1] /\ f[p] = e.new /\ f[p] \in Nat
  BY <1>1, <1>3, <1>5, <1>6 DEF Ascending
<1>10. f[p - 1] <= b
  <2>1. CASE f[p - 1] = 0
    BY <1>8, <2>1
  <2>2. CASE f[p - 1] # 0
    <3>1. p - 1 \in 2 .. n - 1
      BY <1>1, <1>3, <1>6, <2>2
    <3>2. f[p - 1] \in Held(markers)
      BY <1>3, <1>6, <2>2, <3>1, HeldIs DEF n
    <3>3. f[p - 1] # e.new /\ f[p - 1] \in Nat
      BY <1>1, <1>3, <1>5, <1>6
    <3> QED
      BY <1>7, <1>9, <3>2, <3>3
  <2> QED
    BY <2>1, <2>2
<1>11. b <= f[p + 1]
  <2>1. CASE p + 1 = n
    BY <1>1, <1>3, <1>6, <1>8, <2>1
  <2>2. CASE p + 1 # n
    <3>1. p + 1 \in 2 .. n - 1 /\ p + 1 # p
      BY <1>1, <1>3, <2>2
    <3>2. f[p + 1] \in Nat /\ f[p + 1] = markers[p + 1].block
      BY <1>3, <1>6
    <3>3. f[p + 1] # e.new
      <4>1. SUFFICES ASSUME f[p + 1] = e.new PROVE FALSE
        OBVIOUS
      <4>2. e.new \in HeldTwice(markers)
        BY <1>3, <1>5, <3>1, <3>2, <4>1, HeldIs DEF n
      <4> QED
        BY <1>7, <4>2
    <3>4. f[p + 1] # 0
      BY <1>9, <3>2
    <3>5. f[p + 1] \in Held(markers)
      BY <3>1, <3>2, <3>4, HeldIs DEF n
    <3> QED
      BY <1>7, <1>9, <3>2, <3>3, <3>5
  <2> QED
    BY <2>1, <2>2
<1>12. g[p] = b /\ \A k \in 1 .. n : k # p => g[k] = f[k]
  BY <1>2, <1>3, <1>6
<1>13. Ascending(g, n)
  <2>1. \A k \in 1 .. n : f[k] \in Int
    BY <1>6
  <2>2. f[p - 1] <= g[p] /\ g[p] <= f[p + 1] /\ g[p] \in Int
    BY <1>8, <1>10, <1>11, <1>12
  <2>3. n \in Nat /\ p \in 2 .. n - 1 /\ Ascending(f, n)
    BY <1>1, <1>3, <1>6
  <2>4. \A k \in 1 .. n : k # p => g[k] = f[k]
    BY <1>12
  <2> QED
    BY <2>1, <2>2, <2>3, <2>4, ReplaceAscending
<1> QED
  BY <1>6, <1>13

LEMMA UndoKeyFinds ==
  ASSUME IndInv, IndInv', Sorted(markers), RingExplained, UndoKey
  PROVE  Sorted(markers') /\ RingExplained'
<1> DEFINE e == undo[undoLast]
           i == EventMarker(markers, e)
<1>1. /\ RestTyped /\ Framed(markers)
      /\ markers \in Seq(Marker) /\ markers' \in Seq(Marker)
      /\ undo \in [Slots -> Event] /\ undoLast \in Slots
  BY EditingIsPositioned DEF UndoKey, Editing, Positioned, IndInv, TypeOK
<1>2. PICK R \in [Slots -> Stock] : Explained(undo, undoLast, R, StockOf(markers))
  BY DEF RingExplained
<1> DEFINE B == R[undoLast]
<1>3. B \in Stock /\ Explains(e, B, StockOf(markers))
  BY <1>1, <1>2 DEF Explained
<1>4. /\ IF ~e.seg THEN UndoBookmark(e)
         ELSE IF e.new = 0 /\ e.prev # 0 THEN UndoDeletedMarker(e)
         ELSE IF i >= 0 THEN UndoAtMarker(e, i)
         ELSE UNCHANGED <<markers, active, bookmarks, jumpSeg, heap>>
      /\ Popped
  BY Zenon DEF UndoKey
<1>5. /\ e.seg \in BOOLEAN /\ e.sel \in BOOLEAN /\ e.cap \in Captions \cup {NoCaption}
      /\ e.seg => e.prev \in Blocks /\ e.new \in Blocks
  <2>1. e \in Event
    BY <1>1
  <2> QED
    BY <1>1, <2>1 DEF RestTyped, RingTyped, EventsInRange, Event
<1>6. /\ i \in (0 .. Len(markers) - 2) \cup {-1}
      /\ i # -1 => BlockAt(markers, i) = e.new
      /\ \A j \in 0 .. Len(markers) - 2 : BlockAt(markers, j) = e.new => i # -1 /\ i <= j
  BY <1>1, EventMarkerFinds
<1>7. i = EventMarker(markers, e)
  OBVIOUS
<1> HIDE DEF e, i, B
<1>8. Len(markers) \in Nat /\ 2 <= Len(markers) /\ markers[1].block = 0
  BY <1>1 DEF Framed
<1>9. SUFFICES Sorted(markers') /\ Within(StockOf(markers'), B)
  <2>1. ASSUME Within(StockOf(markers'), B) PROVE RingExplained'
    <3> DEFINE before == IF undoLast > 0 THEN undoLast - 1 ELSE NRUNDOEVENTS - 1
    <3>1. undo' = [undo EXCEPT ![undoLast] = Blank] /\ undoLast' = before
      BY <1>4 DEF Popped
    <3>2. StockOf(markers) \in Stock /\ StockOf(markers') \in Stock
      BY <1>1, StockIsTyped
    <3>3. \E Q \in [Slots -> Stock] :
            Explained([undo EXCEPT ![undoLast] = Blank], before, Q, StockOf(markers'))
      BY <1>1, <1>2, <2>1, <3>2, PoppedIsExplained DEF B
    <3> HIDE DEF before
    <3> QED
      BY <3>1, <3>3, Zenon DEF RingExplained
  <2> QED
    BY <2>1
<1>10. CASE ~e.seg
  <2>1. markers' = markers
    BY <1>4, <1>10 DEF UndoBookmark
  <2>2. Within(StockOf(markers), B)
    BY <1>1, <1>3, <1>10, UndoneNothingWithin
  <2> QED
    BY <2>1, <2>2
<1>11. CASE e.seg /\ e.new = 0 /\ e.prev # 0
  <2>1. UndoDeletedMarker(e)
    BY <1>4, <1>11
  <2>2. CASE MayAdd(markers, e.prev, FALSE)
    <3>1. AddSegmentMarker(e.prev, e.sel, e.cap)
      BY <2>1, <2>2 DEF UndoDeletedMarker
    <3>2. e.prev \notin Held(markers)
      BY <1>1, <1>5, <1>11, <2>2, AddedBlockIsNew
    <3>3. PutIn(markers, markers', InsertIndex(markers, e.prev) + 1, e.prev)
      BY <1>1, <1>5, <1>11, <3>1, AddPutsIn
    <3>4. Within(StockOf(markers'), B)
      BY <1>1, <1>3, <1>11, <3>2, <3>3, UndoneDeleteWithin
    <3>5. Sorted(markers')
      BY <1>1, <1>5, <1>11, <3>1, AddedStaysSorted
    <3> QED
      BY <3>4, <3>5
  <2>3. CASE ~MayAdd(markers, e.prev, FALSE)
    <3>1. markers' = markers
      BY <2>1, <2>3 DEF UndoDeletedMarker
    <3>2. Within(StockOf(markers), B)
      BY <1>1, <1>3, <1>11, UndoneNothingWithin
    <3> QED
      BY <3>1, <3>2
  <2> QED
    BY <2>2, <2>3
<1>12. CASE e.seg /\ ~(e.new = 0 /\ e.prev # 0) /\ i = -1
  <2>1. markers' = markers
    BY <1>4, <1>12
  <2>2. e.new # 0 => e.new \notin Held(markers)
    <3>1. SUFFICES ASSUME e.new \in Held(markers) PROVE FALSE
      OBVIOUS
    <3>2. PICK k \in 2 .. Len(markers) - 1 : markers[k].block = e.new
      BY <3>1, HeldIs
    <3>3. k - 1 \in 0 .. Len(markers) - 2 /\ BlockAt(markers, k - 1) = e.new
      BY <1>8, <3>2 DEF BlockAt
    <3> QED
      BY <1>6, <1>12, <3>3
  <2>3. Within(StockOf(markers), B)
    BY <1>1, <1>3, <1>12, <2>2, UndoneNothingWithin
  <2> QED
    BY <2>1, <2>3
<1>13. CASE e.seg /\ ~(e.new = 0 /\ e.prev # 0) /\ i # -1 /\ e.new = e.prev
  <2>1. UndoAtMarker(e, i)
    BY <1>4, <1>6, <1>13
  <2>2. markers' = [markers EXCEPT ![i + 1].cap = e.cap]
    BY <1>13, <2>1 DEF UndoAtMarker
  <2>3. StockOf(markers') = StockOf(markers)
    BY <1>1, <2>2, MarkedKeepsBlocks, SameBlocksSameStock
  <2>4. Within(StockOf(markers), B)
    BY <1>1, <1>3, <1>13, UndoneNothingWithin
  <2>5. Sorted(markers')
    BY <1>1, <2>2, MarkedStaysSorted
  <2> QED
    BY <2>3, <2>4, <2>5
<1>14. CASE e.seg /\ ~(e.new = 0 /\ e.prev # 0) /\ i # -1 /\ e.new # e.prev
  <2>1. UndoAtMarker(e, i) /\ e.new # 0
    BY <1>4, <1>6, <1>14
  <2>2. i \in Interior(markers) /\ BlockAt(markers, i) = e.new
    <3>1. i # 0
      BY <1>6, <1>8, <1>14, <2>1 DEF BlockAt
    <3> QED
      BY <1>6, <1>8, <1>14, <3>1 DEF Interior, Nr
  <2>3. CASE e.prev # 0
    <3>1. MoveSegmentMarker(i, e.prev)
      BY <1>14, <2>1, <2>2, <2>3 DEF UndoAtMarker, MayMove
    <3>2. Replaced(markers, markers', i + 1, e.prev) /\ markers[i + 1].block = e.new
      BY <1>1, <1>5, <1>14, <2>2, <3>1, MoveReplaces DEF BlockAt
    <3>3. Within(StockOf(markers'), B)
      BY <1>1, <1>3, <1>14, <2>1, <2>3, <3>2, UndoneMoveWithin
    <3>4. Sorted(markers')
      BY <1>1, <1>3, <1>5, <1>7, <1>14, <2>1, <2>2, <2>3, <3>1, UndoneMoveSorts
    <3> QED
      BY <3>3, <3>4
  <2>4. CASE e.prev = 0
    <3>1. DeleteSegmentMarker(i)
      BY <1>14, <2>1, <2>2, <2>4 DEF UndoAtMarker
    <3>2. PutIn(markers', markers, i + 1, e.new)
      BY <1>1, <2>2, <3>1, DeleteTakesOut
    <3>3. Within(StockOf(markers'), B)
      BY <1>1, <1>3, <1>14, <2>1, <2>4, <3>2, UndoneAddWithin
    <3>4. Sorted(markers')
      BY <1>1, <2>2, <3>1, DeletedStaysSorted
    <3> QED
      BY <3>3, <3>4
  <2> QED
    BY <2>3, <2>4
<1> QED
  BY <1>5, <1>10, <1>11, <1>12, <1>13, <1>14

-----------------------------------------------------------------------------
(* Every step.                                                             *)

LEMMA SelectionsKeepStock ==
  ASSUME IndInv, IndInv', SelectKey \/ MenuSelect \/ MenuCopySegments
  PROVE  StockOf(markers') = StockOf(markers)
<1>1. markers \in Seq(Marker) /\ markers' \in Seq(Marker)
  BY DEF IndInv, TypeOK
<1>2. CASE markers' = markers
  BY <1>2
<1>3. CASE \E x, v : markers' = [markers EXCEPT ![x].sel = v]
  BY <1>1, <1>3, MarkedKeepsBlocks, SameBlocksSameStock
<1>4. CASE MenuSelect
  <2>1. PICK S : markers' = [k \in DOMAIN markers |->
                               IF k < Nr(markers) THEN [markers[k] EXCEPT !.sel = (k \in S)]
                               ELSE markers[k]]
    BY <1>4, Zenon DEF MenuSelect
  <2>2. ASSUME NEW k \in DOMAIN markers PROVE markers'[k].block = markers[k].block
    <3>1. markers[k] \in Marker
      BY <1>1, <2>2
    <3>2. [markers[k] EXCEPT !.sel = (k \in S)].block = markers[k].block
      BY <3>1 DEF Marker
    <3>3. \/ markers'[k] = [markers[k] EXCEPT !.sel = (k \in S)]
          \/ markers'[k] = markers[k]
      BY <2>1, <2>2
    <3> QED
      BY <3>2, <3>3, Zenon
  <2>3. DOMAIN markers' = DOMAIN markers
    BY <2>1
  <2> QED
    BY <1>1, <2>2, <2>3, SameBlocksSameStock
<1>5. SelectKey \/ MenuCopySegments =>
        markers' = markers \/ \E x, v : markers' = [markers EXCEPT ![x].sel = v]
  BY Zenon DEF SelectKey, MenuCopySegments
<1> QED
  BY <1>2, <1>3, <1>4, <1>5

\* Only the end of a playback and an import end in a state that needs a blank ring.
LEMMA RingStaysBlank ==
  ASSUME IndInv, state = "WaitForPlayback" \/ import # NoJump => undo = [k \in Slots |-> Blank],
         [Next]_vars, MenuImport => Nr(markers) > 2 \/ undo = [k \in Slots |-> Blank],
         state' = "WaitForPlayback" \/ import' # NoJump
  PROVE  undo' = [k \in Slots |-> Blank]
<1>1. UndoResetStack => undo' = [k \in Slots |-> Blank]
  BY DEF UndoResetStack
<1>2. import # NoJump => state = "ActiveOSD"
  BY DEF IndInv, ImportWhileActive
<1>3. CASE EditKey \/ BookmarkKey \/ UndoKey \/ SelectKey
  BY <1>3 DEF EditKey, AddMarkerKey, DeleteMarkerKey, MoveMarkerKey, CaptionKey, BookmarkKey,
     AddBookmarkKey, DeleteBookmarkKey, MoveBookmarkKey, UndoKey, SelectKey, Editing
<1>4. CASE ToggleBookmarkMode \/ Navigation
  BY <1>4 DEF ToggleBookmarkMode, Navigation, RequestSegment, RequestBlock, CancelJump,
     ExecuteJump, Idle, JumpToSegment, JumpElsewhere, Editing
<1>5. CASE Menu
  <2>1. CASE OpenMenu \/ CloseMenu \/ MenuSelect \/ MenuCopySegments \/ LeaveSubMenu
             \/ ImportEnd \/ MenuClearMarkers \/ MenuClearBookmarks \/ MenuExport
    BY <1>1, <1>2, <2>1 DEF OpenMenu, CloseMenu, MenuSelect, MenuCopySegments, LeaveSubMenu,
       ImportEnd, MenuClearMarkers, MenuClearBookmarks, MenuExport, Editing
  <2>2. CASE MenuImport
    BY <1>1, <2>2 DEF MenuImport, DeleteAllSegmentMarkers, undoVars
  <2>3. CASE ImportStep
    BY <2>3 DEF ImportStep, undoVars
  <2> QED
    BY <1>5, <2>1, <2>2, <2>3 DEF Menu
<1>6. CASE Session
  BY <1>1, <1>2, <1>6 DEF Session, StartPlayback, PlaybackEnds, Deactivate, Reactivate, undoVars
<1>7. CASE UNCHANGED vars
  BY <1>7 DEF vars, undoVars
<1> QED
  BY <1>3, <1>4, <1>5, <1>6, <1>7 DEF Next

LEMMA StepKeepsRingExplained ==
  ASSUME IndInv, IndInv', SortInv, Sorted(markers'), [Next]_vars, ~UndoKey,
         MenuImport => Nr(markers) > 2 \/ undo = [k \in Slots |-> Blank]
  PROVE  RingExplained'
<1>1. markers \in Seq(Marker) /\ markers' \in Seq(Marker)
  BY DEF IndInv, TypeOK
<1>2. RingExplained /\ Sorted(markers)
  BY DEF SortInv
<1>3. CASE UNCHANGED undoVars /\ markers' = markers
  BY <1>2, <1>3, RingLeft
<1>4. CASE undo' = [k \in Slots |-> Blank]
  BY <1>1, <1>4, RingBlanked
<1>5. UndoResetStack => undo' = [k \in Slots |-> Blank]
  BY DEF UndoResetStack
<1>6. CASE EditKey \/ BookmarkKey
  BY <1>2, <1>6, EditKeysExplain, BookmarkKeysExplain
<1>7. CASE SelectKey \/ MenuSelect \/ MenuCopySegments
  BY <1>2, <1>7, SelectionsKeepStock, RingLeft DEF SelectKey, MenuSelect, MenuCopySegments
<1>8. CASE ToggleBookmarkMode \/ Navigation
  BY <1>3, <1>8 DEF ToggleBookmarkMode, Navigation, RequestSegment, RequestBlock, CancelJump,
     ExecuteJump, Idle, JumpToSegment, JumpElsewhere
<1>9. CASE Menu
  <2>1. CASE OpenMenu \/ CloseMenu \/ LeaveSubMenu \/ ImportEnd \/ MenuClearBookmarks \/ MenuExport
    BY <1>3, <1>4, <1>5, <2>1 DEF OpenMenu, CloseMenu, LeaveSubMenu, ImportEnd,
       MenuClearBookmarks, MenuExport
  <2>2. CASE MenuClearMarkers \/ MenuImport
    BY <1>4, <1>5, <2>2 DEF MenuClearMarkers, MenuImport, DeleteAllSegmentMarkers, undoVars
  <2>3. CASE ImportStep
    BY <1>4, <2>3 DEF ImportStep, undoVars, SortInv
  <2> QED
    BY <1>7, <1>9, <2>1, <2>2, <2>3 DEF Menu
<1>10. CASE Session
  BY <1>3, <1>4, <1>5, <1>10 DEF Session, StartPlayback, PlaybackEnds, Deactivate, Reactivate,
     undoVars, SortInv
<1>11. CASE UNCHANGED vars
  BY <1>3, <1>11 DEF vars
<1> QED
  BY <1>6, <1>7, <1>8, <1>9, <1>10, <1>11 DEF Next

LEMMA StepKeepsSortInv ==
  ASSUME LoadedInOrder, IndInv, IndInv', SortInv, [Next]_vars,
         [MenuImport => Nr(markers) > 2 \/ undo = [k \in Slots |-> Blank]]_vars
  PROVE  SortInv'
<1>1. CASE UNCHANGED vars
  BY <1>1 DEF SortInv, RingExplained, vars, undoVars
<1>2. CASE MenuImport => Nr(markers) > 2 \/ undo = [k \in Slots |-> Blank]
  <2>1. Sorted(markers) /\ RingExplained
    BY DEF SortInv
  <2>2. state' = "WaitForPlayback" \/ import' # NoJump => undo' = [k \in Slots |-> Blank]
    BY <1>2, RingStaysBlank DEF SortInv
  <2>3. CASE UndoKey
    BY <2>1, <2>2, <2>3, UndoKeyFinds DEF SortInv
  <2>4. CASE ~UndoKey
    <3>1. Sorted(markers')
      BY <2>1, <2>4, StepKeepsMarkersSorted DEF UndoneMove
    <3>2. RingExplained'
      BY <1>2, <2>4, <3>1, StepKeepsRingExplained
    <3> QED
      BY <2>2, <3>1, <3>2 DEF SortInv
  <2> QED
    BY <2>3, <2>4
<1> QED
  BY <1>1, <1>2

LEMMA InitIsExplained == Init => SortInv
<1> SUFFICES ASSUME Init PROVE SortInv
  OBVIOUS
<1>1. markers = <<>> /\ undo = [k \in Slots |-> Blank]
  BY DEF Init
<1>2. markers \in Seq(Marker) /\ Sorted(markers)
  BY <1>1 DEF Sorted
<1>3. StockOf(markers) \in Stock
  BY <1>2, StockIsTyped
<1>4. RingExplained
  BY <1>1, <1>3, BlankRingExplained DEF RingExplained
<1> QED
  BY <1>1, <1>2, <1>4 DEF SortInv

\* A bookmark import into a list that has no markers leaves the undo ring as it is:
\* DeleteAllSegmentMarkers resets it only if there is a marker to delete.
ImportsResetUndo ==
  [][MenuImport => Nr(markers) > 2 \/ undo = [k \in Slots |-> Blank]]_vars

\* "Find the point where to insert the new marker so that the list stays sorted"
\* (AddSegmentMarker): the list is in order in every state, Recall of moves included,
\* although MoveSegmentMarker does not compare with the neighbours then.  The ring
\* takes its events back in reverse, and each of them finds a list that holds no block
\* it did not hold before.  The list must be in order when it is loaded, and a bookmark
\* import must not leave older events in the ring.
THEOREM ListStaysSorted ==
  ASSUME LoadedInOrder PROVE Spec /\ ImportsResetUndo => []MarkersSorted
<1>1. IndInv /\ IndInv' /\ SortInv /\ [Next]_vars
      /\ [MenuImport => Nr(markers) > 2 \/ undo = [k \in Slots |-> Blank]]_vars => SortInv'
  BY StepKeepsSortInv
<1>2. SortInv => MarkersSorted
  BY DEF SortInv, MarkersSorted
<1> QED
  BY <1>1, <1>2, InitIsExplained, SpecImpliesIndInv, PTL DEF Spec, ImportsResetUndo

\* Without .inf there are no bookmarks.
BookmarksOff ==
  /\ bookmarks = <<>> /\ ~bookmarkMode
  /\ \A p \in Slots : undo[p].seg \/ (undo[p].prev = 0 /\ undo[p].new = 0)

LEMMA StepKeepsBookmarksOff ==
  ASSUME MediaFileMode, IndInv, BookmarksOff, [Next]_vars
  PROVE  BookmarksOff'
<1>1. undo \in [Slots -> Event] /\ undoLast \in Slots /\ LoadableBookmarks = {<<>>}
  BY LoadAssumption DEF IndInv, TypeOK
<1>2. CASE bookmarks' = bookmarks /\ bookmarkMode' = bookmarkMode /\ UNCHANGED undoVars
  BY <1>2 DEF BookmarksOff, undoVars
<1>3. ASSUME NEW e, e.seg, UndoAddEvent(e), UNCHANGED <<bookmarks, bookmarkMode>>
      PROVE  BookmarksOff'
  <2>1. undo' = [undo EXCEPT ![(undoLast + 1) % NRUNDOEVENTS] = e]
    BY <1>3 DEF UndoAddEvent
  <2>2. \A p \in Slots : undo'[p] = undo[p] \/ undo'[p] = e
    BY <1>1, <2>1
  <2>3. \A p \in Slots : undo'[p].seg \/ (undo'[p].prev = 0 /\ undo'[p].new = 0)
    BY <1>3, <2>2 DEF BookmarksOff
  <2> QED
    BY <1>3, <2>3 DEF BookmarksOff
<1>4. ASSUME undo' = [k \in Slots |-> Blank], UNCHANGED bookmarkMode,
             bookmarks' = bookmarks \/ bookmarks' = <<>>
      PROVE  BookmarksOff'
  BY <1>4 DEF BookmarksOff, Blank
<1>5. CASE EditKey
  <2>1. \/ UNCHANGED undoVars
        \/ \E prev, new, sel, cap : UndoAddEvent(SegmentEvent(prev, new, sel, cap))
    BY <1>5, Zenon DEF EditKey, AddMarkerKey, DeleteMarkerKey, MoveMarkerKey, CaptionKey
  <2>2. UNCHANGED <<bookmarks, bookmarkMode>>
    BY <1>5 DEF EditKey, AddMarkerKey, DeleteMarkerKey, MoveMarkerKey, CaptionKey
  <2>3. \A prev, new, sel, cap : SegmentEvent(prev, new, sel, cap).seg
    BY DEF SegmentEvent
  <2> QED
    BY <1>2, <1>3, <2>1, <2>2, <2>3
<1>6. ~BookmarkKey /\ ~ToggleBookmarkMode
  BY DEF BookmarksOff, BookmarkKey, AddBookmarkKey, DeleteBookmarkKey, MoveBookmarkKey,
     ToggleBookmarkMode
<1>7. CASE UndoKey
  <2>1. undo[undoLast].seg
    BY <1>1, <1>7 DEF UndoKey, BookmarksOff
  <2>2. UNCHANGED <<bookmarks, bookmarkMode>>
    BY <1>7, <2>1, Zenon DEF UndoKey, UndoDeletedMarker, UndoAtMarker
  <2>3. undo' = [undo EXCEPT ![undoLast] = Blank]
    BY <1>7 DEF UndoKey, Popped
  <2>4. \A p \in Slots : undo'[p] = undo[p] \/ undo'[p] = Blank
    BY <1>1, <2>3
  <2> QED
    BY <2>2, <2>4 DEF BookmarksOff, Blank
<1>8. CASE SelectKey \/ Navigation
  BY <1>2, <1>8 DEF SelectKey, Navigation, RequestSegment, RequestBlock, CancelJump,
     ExecuteJump, Idle, JumpToSegment, JumpElsewhere
<1>9. CASE Menu
  <2>1. CASE MenuClearMarkers
    BY <1>4, <2>1 DEF MenuClearMarkers, DeleteAllSegmentMarkers, UndoResetStack
  <2>2. ~MenuClearBookmarks /\ ~MenuExport /\ ~MenuImport
    BY DEF MenuClearBookmarks, MenuExport, MenuImport, BookmarksOff
  <2> QED
    BY <1>2, <1>9, <2>1, <2>2 DEF Menu, OpenMenu, CloseMenu, MenuSelect, MenuCopySegments,
       LeaveSubMenu, ImportStep, ImportEnd
<1>10. CASE Session
  <2>1. CASE PlaybackEnds
    BY <1>4, <2>1 DEF PlaybackEnds, UndoResetStack
  <2>2. CASE StartPlayback \/ Deactivate \/ Reactivate
    BY <1>1, <2>2 DEF StartPlayback, Deactivate, Reactivate, BookmarksOff, undoVars
  <2> QED
    BY <1>10, <2>1, <2>2 DEF Session
<1>11. CASE UNCHANGED vars
  BY <1>2, <1>11 DEF vars
<1> QED
  BY <1>5, <1>6, <1>7, <1>8, <1>9, <1>10, <1>11 DEF Next

\* For a file without .inf, which has no bookmarks that ActionMenu could import, this
\* holds without a condition on the steps.
THEOREM MediaListStaysSorted ==
  ASSUME LoadedInOrder, MediaFileMode PROVE Spec => []MarkersSorted
<1>1. Init => BookmarksOff
  BY DEF Init, BookmarksOff, Blank
<1>2. IndInv /\ BookmarksOff /\ [Next]_vars => BookmarksOff'
  BY StepKeepsBookmarksOff
<1>3. BookmarksOff => [MenuImport => Nr(markers) > 2 \/ undo = [k \in Slots |-> Blank]]_vars
  BY DEF BookmarksOff, MenuImport
<1>4. Spec => ImportsResetUndo
  BY <1>1, <1>2, <1>3, SpecImpliesIndInv, PTL DEF Spec, ImportsResetUndo
<1> QED
  BY <1>4, ListStaysSorted, PTL

-----------------------------------------------------------------------------
(* What the action of an event did to the lists.                           *)

AddedMarker(e, ms, ns) ==
  \E b \in Blocks :
    /\ Len(ms) < NRSEGMENTMARKER
    /\ e = SegmentEvent(0, b, FALSE, NoCaption)
    /\ ns = InsertAt(ms, InsertIndex(ms, b) + 1,
                     [block |-> b, sel |-> FALSE, cap |-> NoCaption])
DeletedMarker(e, ms, ns) ==
  \E i \in Interior(ms) :
    /\ e = SegmentEvent(BlockAt(ms, i), 0, ms[i + 1].sel, ms[i + 1].cap)
    /\ ns = [RemoveAt(ms, i + 1) EXCEPT ![Len(RemoveAt(ms, i + 1))].sel = FALSE]
MovedMarker(e, ms, ns) ==
  \E i \in Interior(ms), b \in Blocks :
    /\ b # BlockAt(ms, i)
    /\ e = SegmentEvent(BlockAt(ms, i), b, FALSE, NoCaption)
    /\ ns = [ms EXCEPT ![i + 1].block = b]
CaptionedMarker(e, ms, ns) ==
  \E i \in 0 .. Len(ms) - 2, cap \in Captions \cup {NoCaption} :
    /\ e = SegmentEvent(BlockAt(ms, i), BlockAt(ms, i), ms[i + 1].sel, ms[i + 1].cap)
    /\ ns = [ms EXCEPT ![i + 1].cap = cap]

AddedBookmark(e, bm, nb) ==
  \E b \in Blocks, p \in 0 .. Len(bm) :
    /\ e = BookmarkEvent(0, Encoded(b))
    /\ nb = InsertAt(bm, p + 1, b)
DeletedBookmark(e, bm, nb) ==
  \E i \in 0 .. Len(bm) - 1 :
    /\ e = BookmarkEvent(Encoded(bm[i + 1]), 0)
    /\ nb = RemoveAt(bm, i + 1)
MovedBookmarkBy(e, bm, nb) ==
  \E i \in 0 .. Len(bm) - 1, p \in 0 .. Len(bm) - 1, b \in Blocks :
    /\ b # bm[i + 1]
    /\ e = BookmarkEvent(Encoded(bm[i + 1]), Encoded(b))
    /\ nb = InsertAt(RemoveAt(bm, i + 1), p + 1, b)

MarkerChange(e, was, now) ==
  /\ Framed(was[1]) /\ EndPlain(was[1]) /\ now[2] = was[2] /\ e.seg
  /\ \/ AddedMarker(e, was[1], now[1]) \/ DeletedMarker(e, was[1], now[1])
     \/ MovedMarker(e, was[1], now[1]) \/ CaptionedMarker(e, was[1], now[1])
BookmarkChange(e, was, now) ==
  /\ was[2] \in Seq(Blocks) /\ Len(was[2]) <= MaxBookmarks /\ now[1] = was[1] /\ ~e.seg
  /\ \/ AddedBookmark(e, was[2], now[2]) \/ DeletedBookmark(e, was[2], now[2])
     \/ MovedBookmarkBy(e, was[2], now[2])
Made(e, was, now) ==
  /\ was = <<was[1], was[2]>>
  /\ MarkerChange(e, was, now) \/ BookmarkChange(e, was, now)

-----------------------------------------------------------------------------
(* Recall of an event about a marker.                                      *)

\* In a strictly sorted list only one marker has the block of the event.
LEMMA EventMarkerIs ==
  ASSUME NEW ms, Framed(ms), StrictlySorted(ms), NEW i \in 0 .. Len(ms) - 2,
         NEW e, e.new = BlockAt(ms, i)
  PROVE  EventMarker(ms, e) = i
<1> DEFINE at == {j \in 0 .. Nr(ms) - 2 : BlockAt(ms, j) = e.new}
<1>1. ms \in Seq(Marker) /\ Len(ms) \in Nat /\ DOMAIN ms = 1 .. Len(ms)
  BY DEF Framed
<1>2. \A k \in 1 .. Len(ms) : ms[k].block \in Nat
  BY <1>1, SortedIsAscending
<1>3. i \in at
  BY DEF Nr
<1>4. ASSUME NEW j \in at PROVE j = i
  <2>1. j \in 0 .. Len(ms) - 2 /\ ms[j + 1].block = ms[i + 1].block
    BY DEF Nr, BlockAt
  <2>2. j + 1 \in 1 .. Len(ms) /\ i + 1 \in 1 .. Len(ms)
    BY <1>1, <2>1
  <2>3. /\ j + 1 < i + 1 => ms[j + 1].block < ms[i + 1].block
        /\ i + 1 < j + 1 => ms[i + 1].block < ms[j + 1].block
    BY <1>1, <2>2 DEF StrictlySorted
  <2>4. ms[i + 1].block \in Nat
    BY <1>2, <2>2
  <2> QED
    BY <1>1, <2>1, <2>3, <2>4
<1>5. at \subseteq Nat /\ EventMarker(ms, e) = Min(at)
  BY <1>3 DEF EventMarker, Nr
<1> HIDE DEF at
<1> QED
  BY <1>3, <1>4, <1>5, MinIsLeast

\* The place for a block that is greater than all in front of place i.
LEMMA InsertIndexIs ==
  ASSUME NEW ms, Framed(ms), NEW b \in Blocks, NEW i \in 1 .. Len(ms) - 1,
         \A k \in 1 .. i : ms[k].block < b, ms[i + 1].block >= b
  PROVE  InsertIndex(ms, b) = i
<1> DEFINE I == {j \in 1 .. Nr(ms) - 1 : BlockAt(ms, j) >= b}
<1>1. ms \in Seq(Marker) /\ Len(ms) \in Nat
  BY DEF Framed
<1>2. b \in Nat /\ \A k \in 1 .. Len(ms) : ms[k].block \in Nat
  BY <1>1, SortedIsAscending DEF Blocks
<1>3. i \in I
  BY DEF Nr, BlockAt
<1>4. ASSUME NEW j \in I PROVE i <= j
  <2>1. j \in 1 .. Len(ms) - 1 /\ ms[j + 1].block >= b
    BY DEF Nr, BlockAt
  <2>2. j + 1 \in 1 .. Len(ms) /\ ~(ms[j + 1].block < b)
    BY <1>1, <1>2, <2>1
  <2>3. j + 1 \notin 1 .. i
    BY <2>2
  <2> QED
    BY <1>1, <2>1, <2>3
<1>5. I \subseteq Nat /\ InsertIndex(ms, b) = Min(I)
  BY DEF InsertIndex, Nr
<1> HIDE DEF I
<1>6. Min(I) \in I /\ Min(I) <= i
  BY <1>3, <1>5, MinIsLeast
<1>7. i <= Min(I) /\ Min(I) \in Nat
  BY <1>4, <1>5, <1>6
<1> QED
  BY <1>5, <1>6, <1>7

\* Deleting the marker that was added.
LEMMA AddUndone ==
  ASSUME Positioned, NEW ms, Framed(ms), EndPlain(ms), StrictlySorted(markers),
         NEW e, AddedMarker(e, ms, markers), e = undo[undoLast], UndoKey
  PROVE  markers' = ms /\ bookmarks' = bookmarks
<1>1. PICK b \in Blocks :
        /\ Len(ms) < NRSEGMENTMARKER
        /\ e = SegmentEvent(0, b, FALSE, NoCaption)
        /\ markers = InsertAt(ms, InsertIndex(ms, b) + 1,
                              [block |-> b, sel |-> FALSE, cap |-> NoCaption])
  BY DEF AddedMarker
<1> DEFINE i == InsertIndex(ms, b)
           m == [block |-> b, sel |-> FALSE, cap |-> NoCaption]
<1>2. i \in 1 .. Len(ms) - 1 /\ ms \in Seq(Marker) /\ Len(ms) \in Nat /\ 2 <= Len(ms)
  BY InsertIndexInRange DEF Framed
<1>3. m \in Marker /\ i + 1 \in 1 .. Len(ms) + 1
  BY <1>2 DEF Marker
<1>4. Framed(markers) /\ Len(markers) = Len(ms) + 1
  BY <1>1, <1>2, <1>3, InsertKeepsFrame
<1>5. markers[i + 1] = m
  <2> DEFINE p == i + 1
  <2>1. p \in 1 .. Len(ms) + 1 /\ markers = InsertAt(ms, p, m) /\ ms \in Seq(Marker) /\ m \in Marker
    BY <1>1, <1>2, <1>3
  <2> HIDE DEF p, m
  <2>2. InsertAt(ms, p, m)[p] = m
    BY <2>1, InsertedElement
  <2> QED
    BY <2>1, <2>2 DEF p
<1>6. RemoveAt(markers, i + 1) = ms
  BY <1>1, <1>2, <1>3, RemoveInserted
<1>7. e.seg /\ e.prev = 0 /\ e.new = b /\ BlockAt(markers, i) = b
  BY <1>1, <1>5 DEF SegmentEvent, BlockAt
<1> HIDE DEF i, m
<1>8. b # 0
  <2>1. 1 \in DOMAIN markers /\ i + 1 \in DOMAIN markers /\ 1 < i + 1
    BY <1>2, <1>4 DEF Framed
  <2>2. markers[1].block < markers[i + 1].block
    BY <2>1 DEF StrictlySorted
  <2>3. markers[1].block = 0 /\ markers[i + 1].block = b
    BY <1>4, <1>7 DEF Framed, BlockAt
  <2> QED
    BY <2>2, <2>3
<1>9. i \in 0 .. Len(markers) - 2 /\ i \in Interior(markers)
  BY <1>2, <1>4 DEF Interior, Nr
<1>10. EventMarker(markers, e) = i
  BY <1>4, <1>7, <1>9, EventMarkerIs
<1>11. UndoAtMarker(e, i)
  <2>1. /\ IF ~e.seg THEN UndoBookmark(e)
           ELSE IF e.new = 0 /\ e.prev # 0 THEN UndoDeletedMarker(e)
           ELSE IF EventMarker(markers, e) >= 0 THEN UndoAtMarker(e, EventMarker(markers, e))
           ELSE UNCHANGED <<markers, active, bookmarks, jumpSeg, heap>>
    BY Zenon DEF UndoKey
  <2>2. i >= 0
    BY <1>9
  <2> QED
    BY <1>7, <1>8, <1>10, <2>1, <2>2
<1>12. DeleteSegmentMarker(i) /\ bookmarks' = bookmarks
  BY <1>7, <1>8, <1>9, <1>11 DEF UndoAtMarker
<1>13. markers' = [ms EXCEPT ![Len(ms)].sel = FALSE]
  BY <1>6, <1>12 DEF DeleteSegmentMarker
<1>14. [ms EXCEPT ![Len(ms)].sel = FALSE] = ms
  <2>1. Len(ms) \in 1 .. Len(ms) /\ ms[Len(ms)] \in Marker /\ ~ms[Len(ms)].sel
    BY <1>2 DEF EndPlain
  <2>2. [ms[Len(ms)] EXCEPT !.sel = FALSE] = ms[Len(ms)]
    BY <2>1 DEF Marker
  <2>3. DOMAIN ms = 1 .. Len(ms)
    BY <1>2
  <2> QED
    BY <1>2, <2>1, <2>2, <2>3
<1> QED
  BY <1>12, <1>13, <1>14

\* The end marker that a deletion leaves was not selected before.
LEMMA PlainEnd ==
  ASSUME NEW ms \in Seq(Marker), 1 <= Len(ms), EndPlain(ms)
  PROVE  [ms EXCEPT ![Len(ms)].sel = FALSE] = ms
<1>1. Len(ms) \in 1 .. Len(ms) /\ ms[Len(ms)] \in Marker /\ ~ms[Len(ms)].sel
  BY DEF EndPlain
<1>2. [ms[Len(ms)] EXCEPT !.sel = FALSE] = ms[Len(ms)]
  BY <1>1 DEF Marker
<1>3. DOMAIN ms = 1 .. Len(ms)
  OBVIOUS
<1> QED
  BY <1>1, <1>2, <1>3

\* Setting the deleted marker again.
LEMMA DeleteUndone ==
  ASSUME NEW ms, Framed(ms), EndPlain(ms), StrictlySorted(ms),
         NEW e, DeletedMarker(e, ms, markers), e = undo[undoLast], UndoKey
  PROVE  markers' = ms /\ bookmarks' = bookmarks
<1>1. PICK i \in Interior(ms) :
        /\ e = SegmentEvent(BlockAt(ms, i), 0, ms[i + 1].sel, ms[i + 1].cap)
        /\ markers = [RemoveAt(ms, i + 1) EXCEPT ![Len(RemoveAt(ms, i + 1))].sel = FALSE]
  BY DEF DeletedMarker
<1> DEFINE n == Len(ms)
           m == ms[i + 1]
           rest == RemoveAt(ms, i + 1)
           b == m.block
<1>2. /\ i \in 1 .. n - 2 /\ ms \in Seq(Marker) /\ n \in Nat /\ 2 <= n
      /\ i + 1 \in 1 .. n /\ i + 2 \in 1 .. n /\ DOMAIN ms = 1 .. n
      /\ n <= NRSEGMENTMARKER /\ NRSEGMENTMARKER \in Nat
  BY SizesAreNaturals DEF Framed, Interior, Nr
<1>3. m \in Marker /\ b \in Blocks
  <2>1. m \in Marker
    BY <1>2, SMTT(30)
  <2> QED
    BY <2>1 DEF Marker
<1>4. rest \in Seq(Marker) /\ Len(rest) = n - 1
  BY <1>2, RemoveAtProperties
<1>5. \A k \in 1 .. n - 1 : rest[k] = IF k < i + 1 THEN ms[k] ELSE ms[k + 1]
  BY <1>2, RemoveAtProperties
<1>6. Framed([rest EXCEPT ![Len(rest)].sel = FALSE])
  BY RemoveKeepsFrame
<1>7. InsertAt(rest, i + 1, m) = ms
  BY <1>2, InsertRemoved
<1> HIDE DEF rest
<1>8. EndPlain(rest)
  <2>1. n - 1 \in 1 .. n - 1 /\ ~(n - 1 < i + 1) /\ n - 1 + 1 = n
    BY <1>2
  <2>2. rest[n - 1] = ms[n]
    BY <1>5, <2>1
  <2> QED
    BY <1>4, <2>2 DEF EndPlain
<1>9. markers = rest /\ Framed(rest)
  <2>1. 1 <= Len(rest)
    BY <1>2, <1>4
  <2>2. [rest EXCEPT ![Len(rest)].sel = FALSE] = rest
    BY <1>4, <1>8, <2>1, PlainEnd
  <2> QED
    BY <1>1, <1>6, <2>2 DEF rest
<1>10. e.seg /\ e.prev = b /\ e.new = 0 /\ e.sel = m.sel /\ e.cap = m.cap
  BY <1>1 DEF SegmentEvent, BlockAt
<1>11. \A k \in 1 .. n : ms[k].block \in Nat
  BY <1>2, SortedIsAscending
<1>12. (\A k \in 1 .. i : ms[k].block < b) /\ b < ms[i + 2].block
  <2>1. ASSUME NEW k \in 1 .. i PROVE ms[k].block < b
    <3>1. k \in 1 .. n /\ k < i + 1
      BY <1>2
    <3> QED
      BY <1>2, <3>1 DEF StrictlySorted
  <2>2. i + 1 < i + 2
    BY <1>2
  <2>3. b < ms[i + 2].block
    BY <1>2, <2>2 DEF StrictlySorted
  <2> QED
    BY <2>1, <2>3
<1> HIDE DEF m, b, n
<1>13. b # 0
  <2>1. 1 \in 1 .. i /\ ms[1].block = 0
    BY <1>2 DEF Framed
  <2>2. 0 < b
    BY <1>12, <2>1
  <2> QED
    BY <2>2
<1>14. i \in 1 .. Len(rest) - 1
  BY <1>2, <1>4
<1>15. (\A k \in 1 .. i : rest[k].block < b) /\ rest[i + 1].block = ms[i + 2].block
  <2>1. ASSUME NEW k \in 1 .. i PROVE rest[k].block < b
    <3>1. k \in 1 .. n - 1 /\ k < i + 1
      BY <1>2
    <3>2. rest[k] = ms[k]
      BY <1>5, <3>1
    <3> QED
      BY <1>12, <3>2
  <2>2. i + 1 \in 1 .. n - 1 /\ ~(i + 1 < i + 1) /\ i + 1 + 1 = i + 2
    BY <1>2
  <2>3. rest[i + 1] = ms[i + 2]
    BY <1>5, <2>2
  <2> QED
    BY <2>1, <2>3
<1>16. InsertIndex(rest, b) = i /\ BlockAt(rest, i) # b
  <2>1. b \in Nat /\ ms[i + 2].block \in Nat
    BY <1>2, <1>3, <1>11 DEF Blocks
  <2>2. rest[i + 1].block >= b /\ rest[i + 1].block # b
    BY <1>12, <1>15, <2>1
  <2>3. InsertIndex(rest, b) = i
    BY <1>3, <1>9, <1>14, <1>15, <2>2, InsertIndexIs
  <2> QED
    BY <2>2, <2>3 DEF BlockAt
<1>17. MayAdd(markers, e.prev, FALSE)
  BY <1>2, <1>4, <1>9, <1>10, <1>16 DEF MayAdd, Nr
<1>18. UndoDeletedMarker(e)
  <2>1. IF ~e.seg THEN UndoBookmark(e)
        ELSE IF e.new = 0 /\ e.prev # 0 THEN UndoDeletedMarker(e)
        ELSE IF EventMarker(markers, e) >= 0 THEN UndoAtMarker(e, EventMarker(markers, e))
        ELSE UNCHANGED <<markers, active, bookmarks, jumpSeg, heap>>
    BY Zenon DEF UndoKey
  <2> QED
    BY <1>10, <1>13, <2>1
<1>19. AddSegmentMarker(b, m.sel, m.cap) /\ bookmarks' = bookmarks
  BY <1>10, <1>17, <1>18 DEF UndoDeletedMarker
<1>20. [block |-> b, sel |-> m.sel, cap |-> m.cap] = m
  BY <1>3 DEF b, Marker
<1>21. markers' = InsertAt(rest, i + 1, m)
  BY <1>9, <1>16, <1>19, <1>20 DEF AddSegmentMarker
<1> QED
  BY <1>7, <1>19, <1>21

\* Moving the marker back, and giving it its caption back.
LEMMA MoveUndone ==
  ASSUME NEW ms, Framed(ms), StrictlySorted(ms), StrictlySorted(markers),
         NEW e, MovedMarker(e, ms, markers), e = undo[undoLast], UndoKey
  PROVE  markers' = ms /\ bookmarks' = bookmarks
<1>1. PICK i \in Interior(ms), b \in Blocks :
        /\ b # BlockAt(ms, i)
        /\ e = SegmentEvent(BlockAt(ms, i), b, FALSE, NoCaption)
        /\ markers = [ms EXCEPT ![i + 1].block = b]
  BY DEF MovedMarker
<1> DEFINE n == Len(ms)
           m == [ms[i + 1] EXCEPT !.block = b]
<1>2. /\ i \in 1 .. n - 2 /\ ms \in Seq(Marker) /\ n \in Nat /\ 2 <= n
      /\ i + 1 \in 1 .. n /\ 1 < i + 1 /\ i + 1 < n /\ DOMAIN ms = 1 .. n
  BY DEF Framed, Interior, Nr
<1>3. ms[i + 1] \in Marker /\ m \in Marker /\ m.block = b
  <2>1. ms[i + 1] \in Marker
    BY <1>2
  <2> QED
    BY <2>1 DEF Marker
<1>4. markers = [ms EXCEPT ![i + 1] = m]
  BY <1>1
<1> HIDE DEF m
<1>5. Framed(markers) /\ Len(markers) = n
  BY <1>2, <1>3, <1>4, ReplaceKeepsFrame
<1>6. markers[i + 1] = m /\ DOMAIN markers = 1 .. n /\ markers[1] = ms[1]
  BY <1>2, <1>4
<1>7. e.seg /\ e.prev = ms[i + 1].block /\ e.new = b /\ BlockAt(markers, i) = b
  BY <1>1, <1>3, <1>6 DEF SegmentEvent, BlockAt
<1>8. b # 0 /\ e.prev # 0
  <2>1. ms[1].block = 0 /\ 1 \in 1 .. n
    BY <1>2 DEF Framed
  <2>2. 0 < ms[i + 1].block
    BY <1>2, <2>1 DEF StrictlySorted
  <2>3. 0 < markers[i + 1].block
    BY <1>2, <1>6, <2>1 DEF StrictlySorted
  <2> QED
    BY <1>3, <1>6, <1>7, <2>2, <2>3
<1>9. i \in 0 .. Len(markers) - 2 /\ i \in Interior(markers) /\ i >= 0
  BY <1>2, <1>5 DEF Interior, Nr
<1>10. EventMarker(markers, e) = i
  BY <1>5, <1>7, <1>9, EventMarkerIs
<1>11. UndoAtMarker(e, i)
  <2>1. IF ~e.seg THEN UndoBookmark(e)
        ELSE IF e.new = 0 /\ e.prev # 0 THEN UndoDeletedMarker(e)
        ELSE IF EventMarker(markers, e) >= 0 THEN UndoAtMarker(e, EventMarker(markers, e))
        ELSE UNCHANGED <<markers, active, bookmarks, jumpSeg, heap>>
    BY Zenon DEF UndoKey
  <2> QED
    BY <1>7, <1>8, <1>9, <1>10, <2>1
<1>12. e.new # e.prev
  BY <1>1, <1>7 DEF BlockAt
<1>13. MayMove(markers, i, e.prev, FALSE)
  BY <1>7, <1>9, <1>12 DEF MayMove
<1>14. MoveSegmentMarker(i, e.prev) /\ bookmarks' = bookmarks
  BY <1>8, <1>11, <1>12, <1>13 DEF UndoAtMarker
<1>15. markers' = [markers EXCEPT ![i + 1].block = ms[i + 1].block]
  BY <1>7, <1>14 DEF MoveSegmentMarker
<1>16. [m EXCEPT !.block = ms[i + 1].block] = ms[i + 1]
  BY <1>3 DEF m, Marker
<1>17. markers' = [markers EXCEPT ![i + 1] = ms[i + 1]]
  BY <1>2, <1>6, <1>15, <1>16
<1> QED
  BY <1>2, <1>4, <1>14, <1>17

LEMMA CaptionUndone ==
  ASSUME NEW ms, Framed(ms), StrictlySorted(markers),
         NEW e, CaptionedMarker(e, ms, markers), e = undo[undoLast], UndoKey
  PROVE  markers' = ms /\ bookmarks' = bookmarks
<1>1. PICK i \in 0 .. Len(ms) - 2, cap \in Captions \cup {NoCaption} :
        /\ e = SegmentEvent(BlockAt(ms, i), BlockAt(ms, i), ms[i + 1].sel, ms[i + 1].cap)
        /\ markers = [ms EXCEPT ![i + 1].cap = cap]
  BY DEF CaptionedMarker
<1> DEFINE n == Len(ms)
           m == [ms[i + 1] EXCEPT !.cap = cap]
<1>2. /\ ms \in Seq(Marker) /\ n \in Nat /\ 2 <= n /\ i \in 0 .. n - 2
      /\ i + 1 \in 1 .. n /\ DOMAIN ms = 1 .. n
  BY DEF Framed
<1>3. ms[i + 1] \in Marker /\ m \in Marker /\ m.block = ms[i + 1].block
  <2>1. ms[i + 1] \in Marker
    BY <1>2
  <2> QED
    BY <2>1 DEF Marker
<1>4. markers = [ms EXCEPT ![i + 1] = m]
  BY <1>1
<1> HIDE DEF m
<1>5. Framed(markers) /\ Len(markers) = n
  BY <1>2, <1>3, <1>4, ReplaceKeepsFrame
<1>6. markers[i + 1] = m /\ DOMAIN markers = 1 .. n
  BY <1>2, <1>4
<1>7. /\ e.seg /\ e.prev = e.new /\ e.cap = ms[i + 1].cap
      /\ e.new = BlockAt(markers, i)
  BY <1>1, <1>3, <1>6 DEF SegmentEvent, BlockAt
<1>8. i \in 0 .. Len(markers) - 2 /\ i >= 0
  BY <1>2, <1>5
<1>9. EventMarker(markers, e) = i
  BY <1>5, <1>7, <1>8, EventMarkerIs
<1>10. UndoAtMarker(e, i)
  <2>1. IF ~e.seg THEN UndoBookmark(e)
        ELSE IF e.new = 0 /\ e.prev # 0 THEN UndoDeletedMarker(e)
        ELSE IF EventMarker(markers, e) >= 0 THEN UndoAtMarker(e, EventMarker(markers, e))
        ELSE UNCHANGED <<markers, active, bookmarks, jumpSeg, heap>>
    BY Zenon DEF UndoKey
  <2> QED
    BY <1>7, <1>8, <1>9, <2>1
<1>11. markers' = [markers EXCEPT ![i + 1].cap = ms[i + 1].cap] /\ bookmarks' = bookmarks
  BY <1>7, <1>10 DEF UndoAtMarker
<1>12. [m EXCEPT !.cap = ms[i + 1].cap] = ms[i + 1]
  BY <1>3 DEF m, Marker
<1>13. markers' = [markers EXCEPT ![i + 1] = ms[i + 1]]
  BY <1>2, <1>6, <1>11, <1>12
<1> QED
  BY <1>2, <1>4, <1>11, <1>13

-----------------------------------------------------------------------------
(* Recall of an event about a bookmark.                                    *)

LEMMA BookmarkOf ==
  ASSUME NEW bm \in Seq(Blocks), StrictBookmarks(bm), NEW p \in 0 .. Len(bm) - 1
  PROVE  LET at == {i \in 0 .. Len(bm) - 1 : bm[i + 1] = bm[p + 1]}
         IN  at # {} /\ Min(at) = p
<1> DEFINE at == {i \in 0 .. Len(bm) - 1 : bm[i + 1] = bm[p + 1]}
<1>1. Len(bm) \in Nat /\ (\A k \in 1 .. Len(bm) : bm[k] \in Nat) /\ DOMAIN bm = 1 .. Len(bm)
  BY BlocksAreNaturals
<1>2. p \in at /\ at \subseteq Nat
  OBVIOUS
<1>3. ASSUME NEW j \in at PROVE j = p
  <2>1. j + 1 \in 1 .. Len(bm) /\ p + 1 \in 1 .. Len(bm) /\ bm[j + 1] = bm[p + 1]
        /\ bm[p + 1] \in Nat
    BY <1>1
  <2>2. /\ j + 1 < p + 1 => bm[j + 1] < bm[p + 1]
        /\ p + 1 < j + 1 => bm[p + 1] < bm[j + 1]
    BY <1>1, <2>1 DEF StrictBookmarks
  <2> QED
    BY <1>1, <2>1, <2>2
<1> HIDE DEF at
<1>4. Min(at) \in at
  BY <1>2, MinIsLeast
<1>5. at # {} /\ Min(at) = p
  BY <1>2, <1>3, <1>4
<1> QED
  BY <1>5 DEF at

\* What Recall of a bookmark event computes.
LEMMA BookmarkRecalled ==
  ASSUME NEW e, ~e.seg, e = undo[undoLast], UndoKey
  PROVE  /\ markers' = markers
         /\ \E infOk \in BOOLEAN :
              LET at == {i \in 0 .. Len(bookmarks) - 1 : bookmarks[i + 1] = Decoded(e.new)}
                  i  == Min(at)
                  p  == Decoded(e.prev)
              IN  bookmarks' =
                    IF e.new = 0
                    THEN IF MayAddBookmark(bookmarks, p, FALSE)
                         THEN Stored(WithBookmark(bookmarks, p), infOk)
                         ELSE bookmarks
                    ELSE IF at = {} THEN bookmarks
                    ELSE IF e.prev = 0 THEN Stored(RemoveAt(bookmarks, i + 1), infOk)
                    ELSE IF MayMoveBookmark(bookmarks, i, p, FALSE)
                         THEN Stored(MovedBookmark(bookmarks, i, p), infOk)
                         ELSE bookmarks
<1>1. IF ~e.seg THEN UndoBookmark(e)
      ELSE IF e.new = 0 /\ e.prev # 0 THEN UndoDeletedMarker(e)
      ELSE IF EventMarker(markers, e) >= 0 THEN UndoAtMarker(e, EventMarker(markers, e))
      ELSE UNCHANGED <<markers, active, bookmarks, jumpSeg, heap>>
  BY Zenon DEF UndoKey
<1>2. UndoBookmark(e)
  BY <1>1
<1> QED
  BY <1>2, Zenon DEF UndoBookmark

LEMMA EncodedBlock ==
  ASSUME NEW b \in Blocks
  PROVE  Encoded(b) # 0 /\ Decoded(Encoded(b)) = b
BY SizesAreNaturals DEF Encoded, Decoded, NoBlock, Blocks

\* Both orders of a list without repetitions.
LEMMA StrictIsOrdered ==
  ASSUME NEW bm \in Seq(Blocks), StrictBookmarks(bm)
  PROVE  Ordered(bm) /\ \A j, k \in 1 .. Len(bm) : j < k => bm[j] < bm[k]
<1>1. (\A k \in 1 .. Len(bm) : bm[k] \in Nat) /\ DOMAIN bm = 1 .. Len(bm)
  BY BlocksAreNaturals
<1>2. \A j, k \in 1 .. Len(bm) : j < k => bm[j] < bm[k]
  BY <1>1 DEF StrictBookmarks
<1> QED
  BY <1>1, <1>2 DEF Ordered, Ascending

\* The place of an element among the others of a strictly ordered list.
LEMMA PlaceOfRemoved ==
  ASSUME NEW bm \in Seq(Blocks), StrictBookmarks(bm), NEW i \in 0 .. Len(bm) - 1,
         NEW rest \in Seq(Blocks), rest = RemoveAt(bm, i + 1), NEW p \in 0 .. Len(rest),
         \A k \in 1 .. p : rest[k] <= bm[i + 1],
         \A k \in p + 1 .. Len(rest) : bm[i + 1] <= rest[k]
  PROVE  p = i
<1> DEFINE n == Len(bm)
<1>1. /\ n \in Nat /\ i \in 0 .. n - 1 /\ i + 1 \in 1 .. n
      /\ \A k \in 1 .. n : bm[k] \in Nat
  BY BlocksAreNaturals
<1>2. \A j, k \in 1 .. n : j < k => bm[j] < bm[k]
  BY StrictIsOrdered
<1>3. Len(rest) = n - 1
  BY <1>1, RemoveAtProperties
<1>4. \A k \in 1 .. n - 1 : rest[k] = IF k < i + 1 THEN bm[k] ELSE bm[k + 1]
  BY <1>1, RemoveAtProperties
<1> HIDE DEF n
<1>5. ~(p < i)
  <2> SUFFICES ASSUME p < i PROVE FALSE
    OBVIOUS
  <2>1. i \in 1 .. n - 1 /\ i < i + 1 /\ i \in 1 .. n /\ i \in p + 1 .. Len(rest)
    BY <1>1, <1>3
  <2>2. rest[i] = bm[i] /\ bm[i + 1] <= rest[i] /\ bm[i] < bm[i + 1]
    BY <1>1, <1>2, <1>4, <2>1
  <2> QED
    BY <1>1, <2>1, <2>2
<1>6. ~(i < p)
  <2> SUFFICES ASSUME i < p PROVE FALSE
    OBVIOUS
  <2>1. /\ i + 1 \in 1 .. n - 1 /\ ~(i + 1 < i + 1) /\ i + 1 + 1 \in 1 .. n /\ i + 1 \in 1 .. p
        /\ i + 1 < i + 1 + 1
    BY <1>1, <1>3
  <2>2. rest[i + 1] = bm[i + 1 + 1] /\ rest[i + 1] <= bm[i + 1] /\ bm[i + 1] < bm[i + 1 + 1]
    BY <1>1, <1>2, <1>4, <2>1
  <2> QED
    BY <1>1, <2>1, <2>2
<1> QED
  BY <1>1, <1>3, <1>5, <1>6

LEMMA AddBookmarkUndone ==
  ASSUME NEW bm \in Seq(Blocks), StrictBookmarks(bookmarks), NEW e,
         AddedBookmark(e, bm, bookmarks), e = undo[undoLast], UndoKey
  PROVE  markers' = markers /\ (bookmarks' = bm \/ bookmarks' = <<>>)
<1>1. PICK b \in Blocks, p \in 0 .. Len(bm) :
        e = BookmarkEvent(0, Encoded(b)) /\ bookmarks = InsertAt(bm, p + 1, b)
  BY DEF AddedBookmark
<1>2. p + 1 \in 1 .. Len(bm) + 1 /\ Len(bm) \in Nat
  BY LenProperties
<1>3. /\ bookmarks \in Seq(Blocks) /\ Len(bookmarks) = Len(bm) + 1
      /\ RemoveAt(bookmarks, p + 1) = bm /\ bookmarks[p + 1] = b
  <2> DEFINE q == p + 1
  <2>1. q \in 1 .. Len(bm) + 1 /\ bookmarks = InsertAt(bm, q, b)
    BY <1>1, <1>2
  <2> HIDE DEF q
  <2>2. /\ bookmarks \in Seq(Blocks) /\ Len(bookmarks) = Len(bm) + 1
        /\ RemoveAt(bookmarks, q) = bm /\ bookmarks[q] = b
    BY <2>1, InsertAtProperties, RemoveInserted, InsertedElement
  <2> QED
    BY <2>2 DEF q
<1>4. ~e.seg /\ e.prev = 0 /\ e.new = Encoded(b) /\ e.new # 0 /\ Decoded(e.new) = b
  BY <1>1, EncodedBlock DEF BookmarkEvent
<1> DEFINE at == {i \in 0 .. Len(bookmarks) - 1 : bookmarks[i + 1] = b}
<1>5. at # {} /\ Min(at) = p
  <2>1. p \in 0 .. Len(bookmarks) - 1
    BY <1>2, <1>3
  <2> QED
    BY <1>3, <2>1, BookmarkOf
<1>6. markers' = markers
  BY <1>4, BookmarkRecalled
<1>7. PICK infOk \in BOOLEAN : bookmarks' = Stored(RemoveAt(bookmarks, p + 1), infOk)
  BY <1>4, <1>5, BookmarkRecalled
<1> QED
  BY <1>3, <1>6, <1>7 DEF Stored

LEMMA DeleteBookmarkUndone ==
  ASSUME NEW bm \in Seq(Blocks), Len(bm) <= MaxBookmarks, StrictBookmarks(bm), NEW e,
         DeletedBookmark(e, bm, bookmarks), e = undo[undoLast], UndoKey,
         StrictBookmarks(bookmarks)
  PROVE  markers' = markers /\ (bookmarks' = bm \/ bookmarks' = <<>>)
<1>1. PICK i \in 0 .. Len(bm) - 1 :
        e = BookmarkEvent(Encoded(bm[i + 1]), 0) /\ bookmarks = RemoveAt(bm, i + 1)
  BY DEF DeletedBookmark
<1> DEFINE b == bm[i + 1]
           q == BookmarkIndex(bookmarks, b)
<1>2. i + 1 \in 1 .. Len(bm) /\ Len(bm) \in Nat /\ b \in Blocks /\ b \in Nat
  BY BlocksAreNaturals
<1>3. bookmarks \in Seq(Blocks) /\ Len(bookmarks) = Len(bm) - 1
  BY <1>1, <1>2, RemoveAtProperties
<1>4. InsertAt(bookmarks, i + 1, b) = bm
  BY <1>1, <1>2, InsertRemoved
<1>5. ~e.seg /\ e.new = 0 /\ Decoded(e.prev) = b
  BY <1>1, <1>2, EncodedBlock DEF BookmarkEvent
<1>6. q = i
  <2>1. /\ q \in 0 .. Len(bookmarks) /\ \A k \in 1 .. q : bookmarks[k] <= b
        /\ \A k \in q + 1 .. Len(bookmarks) : b <= bookmarks[k]
    BY <1>2, <1>3, StrictIsOrdered, BookmarkIndexIsPlace
  <2> HIDE DEF q
  <2> QED
    BY <1>1, <1>3, <2>1, PlaceOfRemoved
<1>7. i < Len(bookmarks) => bookmarks[i + 1] # b
  <2> SUFFICES ASSUME i < Len(bookmarks) PROVE bookmarks[i + 1] # b
    OBVIOUS
  <2>1. /\ i + 1 \in 1 .. Len(bm) - 1 /\ ~(i + 1 < i + 1) /\ i + 1 + 1 \in 1 .. Len(bm)
        /\ i + 1 < i + 1 + 1
    BY <1>2, <1>3
  <2>2. \A k \in 1 .. Len(bm) - 1 : bookmarks[k] = IF k < i + 1 THEN bm[k] ELSE bm[k + 1]
    BY <1>1, <1>2, RemoveAtProperties
  <2>3. bookmarks[i + 1] = bm[i + 1 + 1]
    BY <2>1, <2>2
  <2>4. bm[i + 1] < bm[i + 1 + 1]
    BY <1>2, <2>1, StrictIsOrdered
  <2> QED
    BY <1>2, <2>3, <2>4
<1>8. MayAddBookmark(bookmarks, b, FALSE)
  BY <1>2, <1>3, <1>6, <1>7, SizesAreNaturals DEF MayAddBookmark
<1>9. WithBookmark(bookmarks, b) = bm
  BY <1>4, <1>6 DEF WithBookmark
<1> HIDE DEF b, q
<1>10. markers' = markers
  BY <1>5, BookmarkRecalled
<1>11. PICK infOk \in BOOLEAN : bookmarks' = Stored(WithBookmark(bookmarks, b), infOk)
  BY <1>5, <1>8, BookmarkRecalled
<1> QED
  BY <1>9, <1>10, <1>11 DEF Stored

LEMMA MoveBookmarkUndone ==
  ASSUME NEW bm \in Seq(Blocks), StrictBookmarks(bm), NEW e,
         MovedBookmarkBy(e, bm, bookmarks), e = undo[undoLast], UndoKey,
         StrictBookmarks(bookmarks)
  PROVE  markers' = markers /\ (bookmarks' = bm \/ bookmarks' = <<>>)
<1>1. PICK i \in 0 .. Len(bm) - 1, p \in 0 .. Len(bm) - 1, b \in Blocks :
        /\ b # bm[i + 1]
        /\ e = BookmarkEvent(Encoded(bm[i + 1]), Encoded(b))
        /\ bookmarks = InsertAt(RemoveAt(bm, i + 1), p + 1, b)
  BY DEF MovedBookmarkBy
<1> DEFINE old  == bm[i + 1]
           rest == RemoveAt(bm, i + 1)
           n    == Len(bm)
           q    == MovedIndex(bookmarks, p, old)
<1>2. i + 1 \in 1 .. n /\ n \in Nat /\ old \in Blocks
  BY BlocksAreNaturals
<1>3. rest \in Seq(Blocks) /\ Len(rest) = n - 1 /\ InsertAt(rest, i + 1, old) = bm
  BY <1>2, RemoveAtProperties, InsertRemoved
<1>4. bookmarks = InsertAt(rest, p + 1, b)
  BY <1>1
<1>5. rest = RemoveAt(bm, i + 1)
  OBVIOUS
<1> HIDE DEF rest, n
<1>6. p + 1 \in 1 .. Len(rest) + 1 /\ p \in 0 .. n - 1
  BY <1>2, <1>3 DEF n
<1>7. /\ bookmarks \in Seq(Blocks) /\ Len(bookmarks) = n
      /\ RemoveAt(bookmarks, p + 1) = rest /\ bookmarks[p + 1] = b
  <2> DEFINE r == p + 1
  <2>1. r \in 1 .. Len(rest) + 1 /\ bookmarks = InsertAt(rest, r, b)
    BY <1>4, <1>6
  <2> HIDE DEF r
  <2>2. /\ bookmarks \in Seq(Blocks) /\ Len(bookmarks) = Len(rest) + 1
        /\ RemoveAt(bookmarks, r) = rest /\ bookmarks[r] = b
    BY <1>3, <2>1, InsertAtProperties, RemoveInserted, InsertedElement
  <2> QED
    BY <1>2, <1>3, <2>2 DEF r
<1>8. /\ ~e.seg /\ e.prev # 0 /\ e.new # 0
      /\ Decoded(e.prev) = old /\ Decoded(e.new) = b
  BY <1>1, <1>2, EncodedBlock DEF BookmarkEvent
<1> DEFINE at == {k \in 0 .. Len(bookmarks) - 1 : bookmarks[k + 1] = b}
<1>9. at # {} /\ Min(at) = p
  BY <1>6, <1>7, BookmarkOf
<1>10. q = i
  <2>1. p + 1 \in 1 .. n /\ p \in 0 .. Len(bookmarks) - 1
    BY <1>2, <1>6, <1>7
  <2>2. \A k \in 1 .. n - 1 : rest[k] = IF k < p + 1 THEN bookmarks[k] ELSE bookmarks[k + 1]
    BY <1>7, <2>1, RemoveAtProperties
  <2>3. /\ q \in 0 .. n - 1 /\ \A k \in 1 .. q : rest[k] <= old
        /\ \A k \in q + 1 .. n - 1 : old <= rest[k]
    BY <1>2, <1>7, <2>1, <2>2, StrictIsOrdered, MovedIndexIsPlace
  <2>4. i \in 0 .. Len(bm) - 1 /\ old = bm[i + 1]
    OBVIOUS
  <2> HIDE DEF q, old
  <2>5. /\ q \in 0 .. Len(rest) /\ \A k \in 1 .. q : rest[k] <= bm[i + 1]
        /\ \A k \in q + 1 .. Len(rest) : bm[i + 1] <= rest[k]
    BY <1>3, <2>3, <2>4
  <2> QED
    BY <1>3, <1>5, <2>4, <2>5, PlaceOfRemoved
<1>11. MayMoveBookmark(bookmarks, p, old, FALSE)
  BY <1>1, <1>7 DEF MayMoveBookmark
<1>12. MovedBookmark(bookmarks, p, old) = bm
  BY <1>3, <1>7, <1>10 DEF MovedBookmark
<1> HIDE DEF old, q
<1>13. markers' = markers
  BY <1>8, BookmarkRecalled
<1>14. PICK infOk \in BOOLEAN : bookmarks' = Stored(MovedBookmark(bookmarks, p, old), infOk)
  BY <1>8, <1>9, <1>11, BookmarkRecalled
<1> QED
  BY <1>12, <1>13, <1>14 DEF Stored

-----------------------------------------------------------------------------
(* The bookmarks fit into the array of the info cache, so that one that    *)
(* was deleted finds its place again.                                      *)

BookmarksFit == Len(bookmarks) <= MaxBookmarks

LEMMA ChangedLengths ==
  ASSUME NEW bm \in Seq(Blocks), NEW b \in Blocks
  PROVE  /\ Len(WithBookmark(bm, b)) = Len(bm) + 1
         /\ \A i \in 0 .. Len(bm) - 1 :
              /\ Len(RemoveAt(bm, i + 1)) = Len(bm) - 1
              /\ Len(MovedBookmark(bm, i, b)) = Len(bm)
<1>1. Len(WithBookmark(bm, b)) = Len(bm) + 1
  <2>1. BookmarkIndex(bm, b) + 1 \in 1 .. Len(bm) + 1
    BY BookmarkIndexInRange
  <2> QED
    BY <2>1, InsertAtProperties DEF WithBookmark
<1>2. ASSUME NEW i \in 0 .. Len(bm) - 1
      PROVE  Len(RemoveAt(bm, i + 1)) = Len(bm) - 1 /\ Len(MovedBookmark(bm, i, b)) = Len(bm)
  <2> DEFINE rest == RemoveAt(bm, i + 1)
             p == MovedIndex(bm, i, b)
  <2>1. i + 1 \in 1 .. Len(bm) /\ Len(bm) \in Nat
    OBVIOUS
  <2>2. rest \in Seq(Blocks) /\ Len(rest) = Len(bm) - 1
    BY <2>1, RemoveAtProperties
  <2>3. p \in 0 .. Len(bm) - 1
    BY MovedIndexInRange
  <2>4. MovedBookmark(bm, i, b) = InsertAt(rest, p + 1, b)
    BY DEF MovedBookmark
  <2> HIDE DEF rest, p
  <2>5. p + 1 \in 1 .. Len(rest) + 1
    BY <2>1, <2>2, <2>3
  <2>6. Len(InsertAt(rest, p + 1, b)) = Len(rest) + 1
    BY <2>2, <2>5, InsertAtProperties
  <2>7. Len(rest) + 1 = Len(bm)
    BY <2>1, <2>2
  <2> QED
    BY <2>2, <2>4, <2>6, <2>7 DEF rest
<1> QED
  BY <1>1, <1>2

LEMMA StoredFits ==
  ASSUME NEW bm, Len(bm) <= MaxBookmarks, NEW infOk
  PROVE  Len(Stored(bm, infOk)) <= MaxBookmarks
BY SizesAreNaturals DEF Stored

LEMMA BookmarkKeysFit ==
  ASSUME IndInv, BookmarksFit, BookmarkKey
  PROVE  BookmarksFit'
<1>1. RestTyped
  BY SplitIndInv
<1>2. /\ bookmarks \in Seq(Blocks) /\ Len(bookmarks) \in Nat /\ MaxBookmarks \in Nat
      /\ \A pos \in Positions : currentVisibleBlock(pos) \in Blocks
  BY <1>1, VisibleBlockInRange, SizesAreNaturals DEF RestTyped
<1>3. CASE AddBookmarkKey
  <2>1. PICK pos \in Positions, infOk \in BOOLEAN :
          /\ MayAddBookmark(bookmarks, currentVisibleBlock(pos), TRUE)
          /\ bookmarks' = Stored(WithBookmark(bookmarks, currentVisibleBlock(pos)), infOk)
    BY <1>3, Zenon DEF AddBookmarkKey
  <2>2. Len(bookmarks) < MaxBookmarks
    BY <2>1 DEF MayAddBookmark
  <2>3. Len(WithBookmark(bookmarks, currentVisibleBlock(pos))) = Len(bookmarks) + 1
    BY <1>2, ChangedLengths
  <2>4. Len(WithBookmark(bookmarks, currentVisibleBlock(pos))) <= MaxBookmarks
    BY <1>2, <2>2, <2>3
  <2> QED
    BY <2>1, <2>4, StoredFits DEF BookmarksFit
<1>4. CASE DeleteBookmarkKey
  <2>1. PICK pos \in Positions, infOk \in BOOLEAN :
          LET i == FindNearestBookmark(bookmarks, currentVisibleBlock(pos))
          IN  i >= 0 /\ bookmarks' = Stored(RemoveAt(bookmarks, i + 1), infOk)
    BY <1>4, Zenon DEF DeleteBookmarkKey
  <2> DEFINE i == FindNearestBookmark(bookmarks, currentVisibleBlock(pos))
  <2>2. i \in 0 .. Len(bookmarks) - 1 /\ currentVisibleBlock(pos) \in Blocks
    BY <1>2, <2>1, NearestBookmarkInRange
  <2>3. bookmarks' = Stored(RemoveAt(bookmarks, i + 1), infOk)
    BY <2>1
  <2> HIDE DEF i
  <2>4. Len(RemoveAt(bookmarks, i + 1)) = Len(bookmarks) - 1
    BY <1>2, <2>2, ChangedLengths
  <2>5. Len(RemoveAt(bookmarks, i + 1)) <= MaxBookmarks
    BY <1>2, <2>4 DEF BookmarksFit
  <2> QED
    BY <2>3, <2>5, StoredFits DEF BookmarksFit
<1>5. CASE MoveBookmarkKey
  <2>1. PICK pos \in Positions, infOk \in BOOLEAN :
          LET b == currentVisibleBlock(pos)
              i == FindNearestBookmark(bookmarks, b)
          IN  i >= 0 /\ bookmarks' = Stored(MovedBookmark(bookmarks, i, b), infOk)
    BY <1>5, Zenon DEF MoveBookmarkKey
  <2> DEFINE b == currentVisibleBlock(pos)
             i == FindNearestBookmark(bookmarks, b)
  <2>2. i \in 0 .. Len(bookmarks) - 1 /\ b \in Blocks
    BY <1>2, <2>1, NearestBookmarkInRange
  <2>3. bookmarks' = Stored(MovedBookmark(bookmarks, i, b), infOk)
    BY <2>1
  <2> HIDE DEF i, b
  <2>4. Len(MovedBookmark(bookmarks, i, b)) <= MaxBookmarks
    BY <1>2, <2>2, ChangedLengths DEF BookmarksFit
  <2> QED
    BY <2>3, <2>4, StoredFits DEF BookmarksFit
<1> QED
  BY <1>3, <1>4, <1>5 DEF BookmarkKey

LEMMA UndoBookmarkFits ==
  ASSUME RestTyped, BookmarksFit, NEW e \in Event, UndoBookmark(e)
  PROVE  BookmarksFit'
<1> DEFINE p  == Decoded(e.prev)
           at == {i \in 0 .. Len(bookmarks) - 1 : bookmarks[i + 1] = Decoded(e.new)}
           i  == Min(at)
<1>1. /\ bookmarks \in Seq(Blocks) /\ p \in Blocks /\ Len(bookmarks) \in Nat
      /\ MaxBookmarks \in Nat
  BY CodedBlocks, SizesAreNaturals DEF RestTyped, Event
<1>2. at # {} => i \in 0 .. Len(bookmarks) - 1
  <2>1. at \subseteq Nat /\ at \subseteq 0 .. Len(bookmarks) - 1
    OBVIOUS
  <2> HIDE DEF at
  <2>2. at # {} => Min(at) \in at
    BY <2>1, MinIsLeast
  <2> QED
    BY <2>1, <2>2
<1>3. PICK infOk \in BOOLEAN :
        \/ bookmarks' = bookmarks
        \/ /\ MayAddBookmark(bookmarks, p, FALSE)
           /\ bookmarks' = Stored(WithBookmark(bookmarks, p), infOk)
        \/ at # {} /\ bookmarks' = Stored(RemoveAt(bookmarks, i + 1), infOk)
        \/ at # {} /\ bookmarks' = Stored(MovedBookmark(bookmarks, i, p), infOk)
  BY Zenon DEF UndoBookmark
<1> HIDE DEF p, at, i
<1>4. CASE /\ MayAddBookmark(bookmarks, p, FALSE)
           /\ bookmarks' = Stored(WithBookmark(bookmarks, p), infOk)
  <2>1. Len(bookmarks) < MaxBookmarks
    BY <1>4 DEF MayAddBookmark
  <2>2. Len(WithBookmark(bookmarks, p)) <= MaxBookmarks
    BY <1>1, <2>1, ChangedLengths
  <2> QED
    BY <1>4, <2>2, StoredFits DEF BookmarksFit
<1>5. CASE at # {} /\ \/ bookmarks' = Stored(RemoveAt(bookmarks, i + 1), infOk)
                      \/ bookmarks' = Stored(MovedBookmark(bookmarks, i, p), infOk)
  <2>1. /\ Len(RemoveAt(bookmarks, i + 1)) <= MaxBookmarks
        /\ Len(MovedBookmark(bookmarks, i, p)) <= MaxBookmarks
    <3>1. /\ Len(RemoveAt(bookmarks, i + 1)) = Len(bookmarks) - 1
          /\ Len(MovedBookmark(bookmarks, i, p)) = Len(bookmarks)
      BY <1>1, <1>2, <1>5, ChangedLengths
    <3> QED
      BY <1>1, <3>1 DEF BookmarksFit
  <2> QED
    BY <1>5, <2>1, StoredFits DEF BookmarksFit
<1> QED
  BY <1>3, <1>4, <1>5 DEF BookmarksFit

LEMMA StepKeepsBookmarksFit ==
  ASSUME IndInv, BookmarksFit, [Next]_vars
  PROVE  BookmarksFit'
<1>1. CASE bookmarks' = bookmarks
  BY <1>1 DEF BookmarksFit
<1>2. CASE bookmarks' = <<>>
  BY <1>2, SizesAreNaturals DEF BookmarksFit
<1>3. CASE EditKey \/ SelectKey \/ ToggleBookmarkMode
  BY <1>1, <1>3 DEF EditKey, AddMarkerKey, DeleteMarkerKey, MoveMarkerKey, CaptionKey,
     SelectKey, ToggleBookmarkMode
<1>4. CASE UndoKey
  <2> DEFINE e == undo[undoLast]
  <2>1. RestTyped /\ e \in Event
    BY SplitIndInv DEF RestTyped, RingTyped
  <2>2. (~e.seg /\ UndoBookmark(e)) \/ bookmarks' = bookmarks
    BY <1>4, Zenon DEF UndoKey, UndoDeletedMarker, UndoAtMarker
  <2> HIDE DEF e
  <2> QED
    BY <1>1, <2>1, <2>2, UndoBookmarkFits
<1>5. CASE Navigation
  BY <1>1, <1>5 DEF Navigation, RequestSegment, RequestBlock, CancelJump, ExecuteJump,
     Idle, JumpToSegment, JumpElsewhere
<1>6. CASE MenuExport
  <2> DEFINE n  == IF Nr(markers) - 2 < MaxBookmarks THEN Nr(markers) - 2 ELSE MaxBookmarks
             bm == [k \in 1 .. n |-> BlockAt(markers, k)]
  <2>1. PICK infOk \in BOOLEAN : bookmarks' = Stored(bm, infOk)
    BY <1>6, Zenon DEF MenuExport
  <2>2. n \in Nat /\ n <= MaxBookmarks
    <3>1. Framed(markers)
      BY <1>6, EditingIsPositioned DEF MenuExport, Positioned
    <3> QED
      BY <3>1, SizesAreNaturals DEF Framed, Nr
  <2>3. Len(bm) <= MaxBookmarks
    BY <2>2
  <2> QED
    BY <2>1, <2>3, StoredFits DEF BookmarksFit
<1>7. CASE Menu
  BY <1>1, <1>2, <1>6, <1>7 DEF Menu, OpenMenu, CloseMenu, MenuSelect,
     MenuCopySegments, LeaveSubMenu, MenuClearMarkers, MenuClearBookmarks, MenuImport,
     ImportStep, ImportEnd
<1>8. CASE bookmarks' \in LoadableBookmarks
  BY <1>8, LoadAssumption DEF BookmarksFit
<1>9. CASE Session
  BY <1>1, <1>2, <1>8, <1>9 DEF Session, StartPlayback, PlaybackEnds, Deactivate, Reactivate
<1>10. CASE UNCHANGED vars
  BY <1>1, <1>10 DEF vars
<1> QED
  BY <1>3, <1>4, <1>5, <1>7, <1>9, <1>10, BookmarkKeysFit DEF Next

\* No key, undo, export or reload leaves more bookmarks than the array takes.
LEMMA BookmarksAlwaysFit == Spec => []BookmarksFit
<1>1. Init => BookmarksFit
  BY SizesAreNaturals DEF Init, BookmarksFit
<1>2. IndInv /\ BookmarksFit /\ [Next]_vars => BookmarksFit'
  BY StepKeepsBookmarksFit
<1> QED
  BY <1>1, <1>2, SpecImpliesIndInv, PTL DEF Spec

-----------------------------------------------------------------------------
(* Every action that fills a slot of the ring is told by the event in it.  *)

LEMMA MarkerKeyMakes ==
  ASSUME IndInv, CaptionInv, EditKey
  PROVE  UNCHANGED undoVars \/ \E e : UndoAddEvent(e) /\ Made(e, Lists, Lists')
<1>1. RestTyped /\ Positioned /\ bookmarks' = bookmarks
  <2>1. state # "WaitForPlayback"
    BY DEF EditKey, AddMarkerKey, DeleteMarkerKey, MoveMarkerKey, CaptionKey, Editing
  <2> QED
    BY <2>1, EditingIsPositioned
       DEF EditKey, AddMarkerKey, DeleteMarkerKey, MoveMarkerKey, CaptionKey
<1>2. Framed(markers) /\ EndPlain(markers)
  BY <1>1, EditingIsTidy DEF Positioned, Tidy
<1>3. ASSUME NEW e, e.seg,
             \/ AddedMarker(e, markers, markers') \/ DeletedMarker(e, markers, markers')
             \/ MovedMarker(e, markers, markers') \/ CaptionedMarker(e, markers, markers')
      PROVE  Made(e, Lists, Lists')
  BY <1>1, <1>2, <1>3 DEF Made, MarkerChange, Lists
<1>4. CASE AddMarkerKey
  <2>1. PICK pos \in Positions :
          LET b == IFrame(currentVisibleBlock(pos))
          IN  /\ MayAdd(markers, b, TRUE)
              /\ AddSegmentMarker(b, FALSE, NoCaption)
              /\ UndoAddEvent(SegmentEvent(0, b, FALSE, NoCaption))
    BY <1>4, Zenon DEF AddMarkerKey
  <2> DEFINE b == IFrame(currentVisibleBlock(pos))
             e == SegmentEvent(0, b, FALSE, NoCaption)
  <2>2. b \in Blocks
    BY <1>1, VisibleBlockInRange, IFrameInRange
  <2> HIDE DEF b
  <2>3. Len(markers) < NRSEGMENTMARKER
    BY <2>1 DEF MayAdd, Nr, b
  <2>4. markers' = InsertAt(markers, InsertIndex(markers, b) + 1,
                            [block |-> b, sel |-> FALSE, cap |-> NoCaption])
    BY <2>1 DEF AddSegmentMarker, b
  <2>5. AddedMarker(e, markers, markers') /\ e.seg
    BY <2>2, <2>3, <2>4 DEF AddedMarker, SegmentEvent
  <2>6. UndoAddEvent(e)
    BY <2>1 DEF b
  <2> QED
    BY <1>3, <2>5, <2>6
<1>5. CASE DeleteMarkerKey
  <2>1. PICK pos \in Positions :
          LET i == FindNearestSegmentMarker(markers, currentVisibleBlock(pos))
          IN  /\ i > 0 /\ DeleteSegmentMarker(i)
              /\ UndoAddEvent(SegmentEvent(BlockAt(markers, i), 0, markers[i + 1].sel,
                                           markers[i + 1].cap))
    BY <1>5, Zenon DEF DeleteMarkerKey
  <2> DEFINE i == FindNearestSegmentMarker(markers, currentVisibleBlock(pos))
             e == SegmentEvent(BlockAt(markers, i), 0, markers[i + 1].sel, markers[i + 1].cap)
  <2>2. i \in Interior(markers) \cup {-1}
    BY <1>2, NearestMarkerInRange
  <2>3. i > 0 /\ DeleteSegmentMarker(i) /\ UndoAddEvent(e)
    BY <2>1
  <2> HIDE DEF i
  <2>4. i \in Interior(markers)
    BY <2>2, <2>3
  <2>5. markers' = [RemoveAt(markers, i + 1)
                      EXCEPT ![Len(RemoveAt(markers, i + 1))].sel = FALSE]
    BY <2>3 DEF DeleteSegmentMarker
  <2>6. DeletedMarker(e, markers, markers') /\ e.seg
    BY <2>4, <2>5 DEF DeletedMarker, SegmentEvent
  <2> QED
    BY <1>3, <2>3, <2>6
<1>6. CASE MoveMarkerKey
  <2>1. PICK pos \in Positions :
          LET at == currentVisibleBlock(pos)
              i  == FindNearestSegmentMarker(markers, at)
              b  == IFrame(at)
          IN  /\ MayMove(markers, i, b, TRUE) /\ MoveSegmentMarker(i, b)
              /\ UndoAddEvent(SegmentEvent(BlockAt(markers, i), b, FALSE, NoCaption))
    BY <1>6, Zenon DEF MoveMarkerKey
  <2> DEFINE i == FindNearestSegmentMarker(markers, currentVisibleBlock(pos))
             b == IFrame(currentVisibleBlock(pos))
             e == SegmentEvent(BlockAt(markers, i), b, FALSE, NoCaption)
  <2>2. b \in Blocks
    BY <1>1, VisibleBlockInRange, IFrameInRange
  <2>3. MayMove(markers, i, b, TRUE) /\ MoveSegmentMarker(i, b) /\ UndoAddEvent(e)
    BY <2>1
  <2> HIDE DEF i, b
  <2>4. MovedMarker(e, markers, markers') /\ e.seg
    BY <2>2, <2>3 DEF MovedMarker, MayMove, MoveSegmentMarker, SegmentEvent
  <2> QED
    BY <1>3, <2>3, <2>4
<1>7. CASE CaptionKey
  <2> DEFINE asked == IF jumpSeg # NoJump THEN jumpSeg ELSE active
             seg   == IF asked >= Nr(markers) - 1 THEN Nr(markers) - 2 ELSE asked
             m     == markers[seg + 1]
             e     == SegmentEvent(m.block, m.block, m.sel, m.cap)
  <2>1. seg \in 0 .. Len(markers) - 2
    BY <1>1 DEF Positioned, Framed, Nr
  <2>2. PICK new \in Captions \ heap :
          \/ UNCHANGED <<markers, undoVars>>
          \/ \E text \in BOOLEAN :
               /\ UndoAddEvent(e)
               /\ markers' = [markers EXCEPT ![seg + 1].cap = IF text THEN new ELSE NoCaption]
    BY <1>7, Zenon DEF CaptionKey
  <2> HIDE DEF seg
  <2>3. ASSUME NEW cap \in Captions \cup {NoCaption},
               markers' = [markers EXCEPT ![seg + 1].cap = cap]
        PROVE  CaptionedMarker(e, markers, markers') /\ e.seg
    BY <2>1, <2>3 DEF CaptionedMarker, SegmentEvent, BlockAt
  <2>4. CASE \E text \in BOOLEAN :
               /\ UndoAddEvent(e)
               /\ markers' = [markers EXCEPT ![seg + 1].cap = IF text THEN new ELSE NoCaption]
    <3>1. PICK text \in BOOLEAN :
            markers' = [markers EXCEPT ![seg + 1].cap = IF text THEN new ELSE NoCaption]
      BY <2>4
    <3>2. (IF text THEN new ELSE NoCaption) \in Captions \cup {NoCaption}
      OBVIOUS
    <3>3. CaptionedMarker(e, markers, markers') /\ e.seg
      BY <2>3, <3>1, <3>2
    <3> QED
      BY <1>3, <2>4, <3>3
  <2> QED
    BY <2>2, <2>4
<1> QED
  BY <1>4, <1>5, <1>6, <1>7 DEF EditKey

LEMMA BookmarkKeyMakes ==
  ASSUME IndInv, BookmarksFit, BookmarkKey
  PROVE  UNCHANGED undoVars \/ \E e : UndoAddEvent(e) /\ Made(e, Lists, Lists')
<1>1. RestTyped /\ markers' = markers
  BY SplitIndInv DEF BookmarkKey, AddBookmarkKey, DeleteBookmarkKey, MoveBookmarkKey
<1>2. /\ bookmarks \in Seq(Blocks) /\ Len(bookmarks) \in Nat
      /\ \A pos \in Positions : currentVisibleBlock(pos) \in Blocks
  BY <1>1, VisibleBlockInRange DEF RestTyped
<1>3. ASSUME NEW e, ~e.seg,
             \/ AddedBookmark(e, bookmarks, bookmarks')
             \/ DeletedBookmark(e, bookmarks, bookmarks')
             \/ MovedBookmarkBy(e, bookmarks, bookmarks')
      PROVE  Made(e, Lists, Lists')
  BY <1>1, <1>2, <1>3 DEF Made, BookmarkChange, Lists, BookmarksFit
<1>4. CASE AddBookmarkKey
  <2>1. PICK pos \in Positions, infOk \in BOOLEAN :
          LET b == currentVisibleBlock(pos)
          IN  /\ bookmarks' = Stored(WithBookmark(bookmarks, b), infOk)
              /\ IF infOk THEN UndoAddEvent(BookmarkEvent(0, Encoded(b))) ELSE UNCHANGED undoVars
    BY <1>4, Zenon DEF AddBookmarkKey
  <2> DEFINE b == currentVisibleBlock(pos)
             e == BookmarkEvent(0, Encoded(b))
  <2>2. b \in Blocks
    BY <1>2
  <2> HIDE DEF b
  <2>3. CASE infOk
    <3>1. bookmarks' = InsertAt(bookmarks, BookmarkIndex(bookmarks, b) + 1, b)
      BY <2>1, <2>3 DEF Stored, WithBookmark, b
    <3>2. BookmarkIndex(bookmarks, b) \in 0 .. Len(bookmarks)
      BY <1>2, <2>2, BookmarkIndexInRange
    <3>3. AddedBookmark(e, bookmarks, bookmarks') /\ ~e.seg
      BY <2>2, <3>1, <3>2 DEF AddedBookmark, BookmarkEvent
    <3>4. UndoAddEvent(e)
      BY <2>1, <2>3 DEF b
    <3> QED
      BY <1>3, <3>3, <3>4
  <2> QED
    BY <2>1, <2>3
<1>5. CASE DeleteBookmarkKey
  <2>1. PICK pos \in Positions, infOk \in BOOLEAN :
          LET i == FindNearestBookmark(bookmarks, currentVisibleBlock(pos))
          IN  /\ i >= 0
              /\ bookmarks' = Stored(RemoveAt(bookmarks, i + 1), infOk)
              /\ IF infOk THEN UndoAddEvent(BookmarkEvent(Encoded(bookmarks[i + 1]), 0))
                 ELSE UNCHANGED undoVars
    BY <1>5, Zenon DEF DeleteBookmarkKey
  <2> DEFINE i == FindNearestBookmark(bookmarks, currentVisibleBlock(pos))
             e == BookmarkEvent(Encoded(bookmarks[i + 1]), 0)
  <2>2. i \in 0 .. Len(bookmarks) - 1
    BY <1>2, <2>1, NearestBookmarkInRange
  <2>3. /\ bookmarks' = Stored(RemoveAt(bookmarks, i + 1), infOk)
        /\ IF infOk THEN UndoAddEvent(e) ELSE UNCHANGED undoVars
    BY <2>1
  <2> HIDE DEF i
  <2>4. CASE infOk
    <3>1. DeletedBookmark(e, bookmarks, bookmarks') /\ ~e.seg
      BY <2>2, <2>3, <2>4 DEF DeletedBookmark, BookmarkEvent, Stored
    <3> QED
      BY <1>3, <2>3, <2>4, <3>1
  <2> QED
    BY <2>3, <2>4
<1>6. CASE MoveBookmarkKey
  <2>1. PICK pos \in Positions, infOk \in BOOLEAN :
          LET b == currentVisibleBlock(pos)
              i == FindNearestBookmark(bookmarks, b)
          IN  /\ i >= 0 /\ MayMoveBookmark(bookmarks, i, b, TRUE)
              /\ bookmarks' = Stored(MovedBookmark(bookmarks, i, b), infOk)
              /\ IF infOk
                 THEN UndoAddEvent(BookmarkEvent(Encoded(bookmarks[i + 1]), Encoded(b)))
                 ELSE UNCHANGED undoVars
    BY <1>6, Zenon DEF MoveBookmarkKey
  <2> DEFINE b == currentVisibleBlock(pos)
             i == FindNearestBookmark(bookmarks, b)
             p == MovedIndex(bookmarks, i, b)
             e == BookmarkEvent(Encoded(bookmarks[i + 1]), Encoded(b))
  <2>2. b \in Blocks /\ i \in 0 .. Len(bookmarks) - 1
    BY <1>2, <2>1, NearestBookmarkInRange
  <2>3. /\ MayMoveBookmark(bookmarks, i, b, TRUE)
        /\ bookmarks' = Stored(MovedBookmark(bookmarks, i, b), infOk)
        /\ IF infOk THEN UndoAddEvent(e) ELSE UNCHANGED undoVars
    BY <2>1
  <2> HIDE DEF i, b
  <2>4. p \in 0 .. Len(bookmarks) - 1
    BY <1>2, <2>2, MovedIndexInRange
  <2>5. MovedBookmark(bookmarks, i, b) = InsertAt(RemoveAt(bookmarks, i + 1), p + 1, b)
    BY DEF MovedBookmark
  <2> HIDE DEF p
  <2>6. CASE infOk
    <3>1. b # bookmarks[i + 1]
      BY <2>3 DEF MayMoveBookmark
    <3>2. bookmarks' = InsertAt(RemoveAt(bookmarks, i + 1), p + 1, b)
      BY <2>3, <2>5, <2>6 DEF Stored
    <3>3. MovedBookmarkBy(e, bookmarks, bookmarks') /\ ~e.seg
      BY <2>2, <2>4, <3>1, <3>2 DEF MovedBookmarkBy, BookmarkEvent
    <3> QED
      BY <1>3, <2>3, <2>6, <3>3
  <2> QED
    BY <2>3, <2>6
<1> QED
  BY <1>4, <1>5, <1>6 DEF BookmarkKey

LEMMA EveryEventIsMade ==
  ASSUME IndInv, CaptionInv, BookmarksFit, [Next]_vars, ~UndoKey
  PROVE  \/ UNCHANGED undoVars
         \/ RingIsBlank'
         \/ \E e : UndoAddEvent(e) /\ Made(e, Lists, Lists')
<1>1. UndoResetStack => RingIsBlank'
  BY DEF UndoResetStack, RingIsBlank
<1>2. CASE EditKey \/ BookmarkKey
  BY <1>2, MarkerKeyMakes, BookmarkKeyMakes
<1>3. CASE SelectKey \/ ToggleBookmarkMode \/ Navigation
  BY <1>3 DEF SelectKey, ToggleBookmarkMode, Navigation, RequestSegment, RequestBlock,
     CancelJump, ExecuteJump, Idle, JumpToSegment, JumpElsewhere
<1>4. CASE Menu
  BY <1>1, <1>4 DEF Menu, OpenMenu, CloseMenu, MenuSelect, MenuCopySegments, LeaveSubMenu,
     MenuClearMarkers, MenuClearBookmarks, MenuExport, MenuImport, ImportStep, ImportEnd,
     DeleteAllSegmentMarkers
<1>5. CASE Session
  BY <1>1, <1>5 DEF Session, StartPlayback, PlaybackEnds, Deactivate, Reactivate
<1>6. CASE UNCHANGED vars
  BY <1>6 DEF vars
<1> QED
  BY <1>2, <1>3, <1>4, <1>5, <1>6 DEF Next

-----------------------------------------------------------------------------
(* The history is right, and what Recall does with it.                     *)

HistoryInv ==
  /\ past = [k \in Slots |-> past[k]]
  /\ \A k \in Slots : past[k] # None => Made(undo[k], past[k].before, past[k].after)

LEMMA HistoryKept ==
  ASSUME IndInv, CaptionInv, BookmarksFit, HistoryInv, [HNext]_allVars
  PROVE  HistoryInv'
<1>1. undo \in [Slots -> Event] /\ undoLast \in Slots
  BY DEF IndInv, TypeOK
<1>2. CASE UNCHANGED allVars
  BY <1>2 DEF allVars, vars, undoVars, HistoryInv
<1>3. CASE HNext /\ RingIsBlank'
  <2>1. past' = [k \in Slots |-> None]
    BY <1>3 DEF HNext, Observe, Empty
  <2> QED
    BY <2>1 DEF HistoryInv
<1>4. CASE HNext /\ ~RingIsBlank' /\ UndoKey
  <2>1. past' = [past EXCEPT ![undoLast] = None]
    BY <1>4 DEF HNext, Observe
  <2>2. undo' = [undo EXCEPT ![undoLast] = Blank]
    BY <1>4 DEF UndoKey, Popped
  <2>3. past'[undoLast] = None
    BY <1>1, <2>1 DEF HistoryInv
  <2>4. \A k \in Slots : k # undoLast => past'[k] = past[k] /\ undo'[k] = undo[k]
    BY <1>1, <2>1, <2>2 DEF HistoryInv
  <2>5. past' = [k \in Slots |-> past'[k]]
    BY <2>1 DEF HistoryInv
  <2> QED
    BY <2>3, <2>4, <2>5 DEF HistoryInv
<1>5. CASE HNext /\ ~RingIsBlank' /\ ~UndoKey
  <2>1. past' = IF undoVars' # undoVars
                THEN [past EXCEPT ![undoLast'] = [before |-> Lists, after |-> Lists']]
                ELSE past
    BY <1>5 DEF HNext, Observe
  <2>2. CASE UNCHANGED undoVars
    BY <2>1, <2>2 DEF HistoryInv, undoVars
  <2>3. CASE undoVars' # undoVars
    <3>1. [Next]_vars
      BY <1>5 DEF HNext
    <3>2. PICK e : UndoAddEvent(e) /\ Made(e, Lists, Lists')
      BY <1>5, <2>3, <3>1, EveryEventIsMade
    <3> DEFINE h == [before |-> Lists, after |-> Lists']
    <3>3. past' = [past EXCEPT ![undoLast'] = h]
      BY <2>1, <2>3
    <3>4. undo' = [undo EXCEPT ![undoLast'] = e] /\ undoLast' \in Slots
      BY <1>1, <3>2, SizesAreNaturals DEF UndoAddEvent, Slots
    <3>5. h.before = Lists /\ h.after = Lists'
      OBVIOUS
    <3> HIDE DEF h
    <3>6. past'[undoLast'] = h /\ undo'[undoLast'] = e
      BY <1>1, <3>3, <3>4 DEF HistoryInv
    <3>7. \A k \in Slots : k # undoLast' => past'[k] = past[k] /\ undo'[k] = undo[k]
      BY <1>1, <3>3, <3>4 DEF HistoryInv
    <3>8. past' = [k \in Slots |-> past'[k]]
      BY <3>3 DEF HistoryInv
    <3>9. Made(undo'[undoLast'], past'[undoLast'].before, past'[undoLast'].after)
      BY <3>2, <3>5, <3>6
    <3> QED
      BY <3>7, <3>8, <3>9 DEF HistoryInv
  <2> QED
    BY <2>2, <2>3
<1> QED
  BY <1>2, <1>3, <1>4, <1>5

LEMMA MarkersRestored ==
  ASSUME IndInv, HistoryInv, UndoKey, Current, undo[undoLast].seg,
         StrictlySorted(markers), StrictlySorted(past[undoLast].before[1])
  PROVE  Lists' = past[undoLast].before
<1> DEFINE e   == undo[undoLast]
           was == past[undoLast].before
           ms  == was[1]
<1>1. Positioned /\ undoLast \in Slots
  BY EditingIsPositioned DEF UndoKey, Editing, IndInv, TypeOK
<1>2. Made(e, was, Lists)
  BY <1>1 DEF HistoryInv, Current
<1>3. /\ was = <<was[1], was[2]>> /\ Framed(ms) /\ EndPlain(ms) /\ bookmarks = was[2]
      /\ \/ AddedMarker(e, ms, markers) \/ DeletedMarker(e, ms, markers)
         \/ MovedMarker(e, ms, markers) \/ CaptionedMarker(e, ms, markers)
  BY <1>2 DEF Made, MarkerChange, BookmarkChange, Lists
<1>4. e = undo[undoLast] /\ StrictlySorted(ms)
  OBVIOUS
<1> HIDE DEF e, was
<1>5. markers' = ms /\ bookmarks' = bookmarks
  BY <1>1, <1>3, <1>4, AddUndone, DeleteUndone, MoveUndone, CaptionUndone
<1>6. Lists' = <<was[1], was[2]>>
  BY <1>3, <1>5 DEF Lists
<1> QED
  BY <1>3, <1>6 DEF was

LEMMA BookmarksRestored ==
  ASSUME IndInv, HistoryInv, UndoKey, Current, ~undo[undoLast].seg,
         StrictBookmarks(bookmarks), StrictBookmarks(past[undoLast].before[2])
  PROVE  Lists' = past[undoLast].before \/ bookmarks' = <<>>
<1> DEFINE e   == undo[undoLast]
           was == past[undoLast].before
           bm  == was[2]
<1>1. undoLast \in Slots
  BY DEF IndInv, TypeOK
<1>2. Made(e, was, Lists)
  BY <1>1 DEF HistoryInv, Current
<1>3. /\ was = <<was[1], was[2]>> /\ bm \in Seq(Blocks) /\ Len(bm) <= MaxBookmarks
      /\ markers = was[1] /\ ~e.seg
      /\ \/ AddedBookmark(e, bm, bookmarks) \/ DeletedBookmark(e, bm, bookmarks)
         \/ MovedBookmarkBy(e, bm, bookmarks)
  BY <1>2 DEF Made, MarkerChange, BookmarkChange, Lists
<1>4. e = undo[undoLast] /\ StrictBookmarks(bm)
  OBVIOUS
<1> HIDE DEF e, was
<1>5. markers' = markers /\ (bookmarks' = bm \/ bookmarks' = <<>>)
  BY <1>3, <1>4, AddBookmarkUndone, DeleteBookmarkUndone, MoveBookmarkUndone
<1>6. bookmarks' = bm => Lists' = <<was[1], was[2]>>
  BY <1>3, <1>5 DEF Lists
<1> QED
  BY <1>3, <1>5, <1>6 DEF was

LEMMA HistoryIsRight == HSpec => [](IndInv /\ HistoryInv)
<1>1. HInit => Init /\ HistoryInv
  BY DEF HInit, HistoryInv, Empty
<1>2. [HNext]_allVars => [Next]_vars
  BY DEF HNext, allVars
<1>3. HSpec => Spec
  BY <1>1, <1>2, PTL DEF HSpec, Spec
<1>4. IndInv /\ CaptionInv /\ BookmarksFit /\ HistoryInv /\ [HNext]_allVars => HistoryInv'
  BY HistoryKept
<1> QED
  BY <1>1, <1>3, <1>4, SpecImpliesIndInv, SpecImpliesCaptionInv, BookmarksAlwaysFit, PTL DEF HSpec

\* Recall takes the last action on a marker back completely: set, deleted, moved or
\* given a caption, it is where and what it was, with selection and caption, and the
\* bookmarks are untouched.  UndoLastAction finds the marker by its block, so no two
\* markers may share one, before the action or after it.
THEOREM RecallRestoresMarkers == HSpec => UndoRestoresMarkers
<1>1. IndInv /\ HistoryInv =>
        (/\ UndoKey /\ Current /\ undo[undoLast].seg
         /\ StrictlySorted(markers) /\ StrictlySorted(past[undoLast].before[1])
         => Lists' = past[undoLast].before)
  BY MarkersRestored
<1> QED
  BY <1>1, HistoryIsRight, PTL DEF UndoRestoresMarkers

\* The same for a bookmark that was set, deleted or moved, block 0 included, which the
\* event writes as (dword) -1; unless SaveBookmarks finds no info cache, which empties
\* the list.  That the deleted one fits in again needs the bound of the array.
THEOREM RecallRestoresBookmarks == HSpec => UndoRestoresBookmarks
<1>1. IndInv /\ HistoryInv =>
        (UndoKey /\ Current /\ ~undo[undoLast].seg /\ StrictBookmarks(bookmarks)
           /\ StrictBookmarks(past[undoLast].before[2])
         => Lists' = past[undoLast].before \/ bookmarks' = <<>>)
  BY BookmarksRestored
<1> QED
  BY <1>1, HistoryIsRight, PTL DEF UndoRestoresBookmarks
=============================================================================
