-------------------------- MODULE CutPersistProofs --------------------------
(* For every recording, list and size of the bookmark area: the user's     *)
(* bookmarks survive what MovieCutter does with the area, whatever a list  *)
(* is loaded from the editing core gets a proper one, a list that was left *)
(* comes back, and no marker of another recording comes with it.           *)
EXTENDS CutPersist, ListLemmas

-----------------------------------------------------------------------------
(* The area.                                                               *)

\* An area, whatever its slots hold.
Shaped(a) == /\ a = [nr |-> a.nr, slot |-> a.slot] /\ a.nr \in 0 .. NRBOOKMARKS
             /\ a.slot = [i \in Slots |-> a.slot[i]]

LEMMA BlankShaped == Shaped(Blank) /\ UserPart(Blank) = <<>>
<1>1. Blank.nr = 0 /\ 0 \in 0 .. NRBOOKMARKS
  BY AreaAssumption DEF Blank
<1>2. UserPart(Blank) = <<>>
  BY <1>1 DEF UserPart
<1> QED
  BY <1>1, <1>2 DEF Shaped, Blank

LEMMA OverwriteShaped ==
  ASSUME NEW a, NEW s, NEW n \in 0 .. NRBOOKMARKS
  PROVE  /\ Shaped(Overwrite(a, s, n))
         /\ UserPart(Overwrite(a, s, n)) = [i \in 1 .. n |-> s[i - 1].num]
<1> DEFINE b == Overwrite(a, s, n)
<1>1. /\ b.nr = n
      /\ b.slot = [i \in Slots |-> IF i < n THEN s[i] ELSE a.slot[i]]
      /\ b = [nr |-> b.nr, slot |-> b.slot]
  BY DEF Overwrite
<1>2. \A i \in 1 .. n : i - 1 \in Slots /\ i - 1 < n
  BY AreaAssumption DEF Slots
<1>3. \A i \in 1 .. n : b.slot[i - 1] = s[i - 1]
  BY <1>1, <1>2
<1>4. UserPart(b) = [i \in 1 .. n |-> s[i - 1].num]
  BY <1>1, <1>3 DEF UserPart
<1>5. Shaped(b)
  BY <1>1 DEF Shaped
<1> QED
  BY <1>4, <1>5

LEMMA BookmarkedIs ==
  ASSUME NEW a, NEW v \in Versions, NEW s \in UserBookmarks[v]
  PROVE  /\ s \in Seq(Nat) /\ Len(s) \in 0 .. NRBOOKMARKS
         /\ Shaped(Bookmarked(a, s)) /\ UserPart(Bookmarked(a, s)) = s
<1> DEFINE t == [i \in Slots |-> IF i < Len(s) THEN Num(s[i + 1]) ELSE Num(0)]
<1>1. s \in Seq(Nat) /\ Len(s) <= MaxBookmarks
  BY UserAssumption
<1>2. Len(s) \in 0 .. NRBOOKMARKS
  BY <1>1, AreaAssumption DEF Words
<1>3. /\ Shaped(Bookmarked(a, s))
      /\ UserPart(Bookmarked(a, s)) = [i \in 1 .. Len(s) |-> t[i - 1].num]
  BY <1>2, OverwriteShaped DEF Bookmarked
<1>4. \A i \in 1 .. Len(s) : t[i - 1].num = s[i]
  <2> TAKE i \in 1 .. Len(s)
  <2>1. i - 1 \in Slots /\ i - 1 < Len(s) /\ (i - 1) + 1 = i
    BY <1>2, AreaAssumption DEF Slots
  <2>2. t[i - 1] = Num(s[i])
    BY <2>1
  <2> QED
    BY <2>2 DEF Num
<1>5. s = [i \in 1 .. Len(s) |-> s[i]]
  BY <1>1
<1>6. [i \in 1 .. Len(s) |-> t[i - 1].num] = s
  BY <1>4, <1>5
<1> QED
  BY <1>1, <1>2, <1>3, <1>6

\* CutEncodeToBM keeps what the bookmarks occupy.
LEMMA EncodeKeepsBookmarks ==
  ASSUME NEW l, NEW a, NEW end, Shaped(a)
  PROVE  /\ Shaped(CutEncodeToBM(l, a, end))
         /\ UserPart(CutEncodeToBM(l, a, end)) = UserPart(a)
<1> DEFINE s == [i \in Slots |->
                   IF i < a.nr THEN a.slot[i]
                   ELSE IF Encodable(l, a, end) THEN Behind(l, end, i) ELSE Num(0)]
           b == [nr |-> a.nr, slot |-> s]
<1>1. CutEncodeToBM(l, a, end) = b
  <2>1. a = [nr |-> a.nr, slot |-> a.slot]
    BY DEF Shaped
  <2>2. [[nr |-> a.nr, slot |-> a.slot] EXCEPT !.slot = s] = b
    OBVIOUS
  <2>3. CutEncodeToBM(l, a, end) = [a EXCEPT !.slot = s]
    BY DEF CutEncodeToBM
  <2> HIDE DEF s, b
  <2> QED
    BY <2>1, <2>2, <2>3
<1>2. a.nr \in 0 .. NRBOOKMARKS
  BY DEF Shaped
<1>3. \A i \in 1 .. a.nr : i - 1 \in Slots /\ i - 1 < a.nr
  BY <1>2, AreaAssumption DEF Slots
<1>4. \A i \in 1 .. a.nr : s[i - 1] = a.slot[i - 1]
  BY <1>3
<1>5. b.nr = a.nr /\ b.slot = s /\ s = [i \in Slots |-> s[i]]
  OBVIOUS
<1> HIDE DEF s, b
<1>6. UserPart(b) = UserPart(a)
  BY <1>4, <1>5 DEF UserPart
<1>7. Shaped(b)
  BY <1>2, <1>5 DEF Shaped, b
<1> QED
  BY <1>1, <1>6, <1>7

-----------------------------------------------------------------------------
(* A list that was put into the area is found in it again.                 *)

LEMMA Division == \A i \in Nat : i = 32 * (i \div 32) + (i % 32)
BY SMTT(30)

LEMMA WordDivision ==
  \A i \in 0 .. 127 :
    /\ i \div WordBits \in 0 .. Words - 1 /\ i % WordBits \in 0 .. WordBits - 1
    /\ (i \div WordBits) * WordBits + (i % WordBits) = i
<1> TAKE i \in 0 .. 127
<1>1. i \div 32 \in 0 .. 3
  OBVIOUS
<1>2. i % 32 \in 0 .. 31
  OBVIOUS
<1>3. (i \div 32) * 32 + (i % 32) = i
  <2>1. i = 32 * (i \div 32) + (i % 32)
    BY Division
  <2>2. \A q \in 0 .. 3 : q * 32 = 32 * q
    OBVIOUS
  <2> QED
    BY <1>1, <1>2, <2>1, <2>2
<1> QED
  BY <1>1, <1>2, <1>3 DEF Words, WordBits

\* The sizes.
LEMMA Sizes ==
  /\ NRBOOKMARKS \in Nat /\ NRSEGMENTMARKER \in Nat /\ NRSEGMENTMARKER + 7 <= NRBOOKMARKS
  /\ NRSEGMENTMARKER <= Words * WordBits /\ Words * WordBits = 128
  /\ TAPID \in Nat /\ TAPID > NRSEGMENTMARKER
<1>1. /\ NRBOOKMARKS \in Nat /\ NRSEGMENTMARKER \in Nat /\ TAPID \in Nat
      /\ TAPID > NRSEGMENTMARKER /\ NRSEGMENTMARKER <= Words * WordBits
  BY AreaAssumption
<1>2. MaxBookmarks \in Nat /\ MaxBookmarks + NRSEGMENTMARKER + Words + 3 <= NRBOOKMARKS
  BY AreaAssumption
<1> QED
  BY <1>1, <1>2 DEF Words, WordBits

\* The slots of a list that fits: its numbers, its selections, its length and the mark.
LEMMA EncodedSlots ==
  ASSUME NEW a, Shaped(a), NEW l \in Seq(Marker), Len(l) <= NRSEGMENTMARKER,
         NEW end \in {NRBOOKMARKS - 1, NRBOOKMARKS - 2}, Encodable(l, a, end),
         NEW b, b = CutEncodeToBM(l, a, end),
         NEW start, start = end - Len(l) - (Words + 1)
  PROVE  /\ \A i \in 1 .. Len(l) : b.slot[start + i - 1] = Num(l[i].block)
         /\ \A w \in 0 .. Words - 1 :
              b.slot[end - (Words + 1) + w] = [num |-> 0, bits |-> Selection(l, w)]
         /\ b.slot[end - 1] = Num(Len(l)) /\ b.slot[end] = Num(TAPID)
         /\ start >= 0 /\ start \in Int
<1> USE DEF Words
<1>1. /\ Len(l) \in Nat /\ a.nr \in Nat /\ end \in Int
      /\ start \in Int /\ start >= a.nr /\ end <= NRBOOKMARKS - 1
  <2>1. Len(l) \in Nat
    OBVIOUS
  <2>2. end \in Int /\ end <= NRBOOKMARKS - 1
    BY Sizes
  <2>3. a.nr \in Nat
    BY Sizes DEF Shaped
  <2>4. start >= a.nr
    BY DEF Encodable, HasRoom
  <2> QED
    BY <2>1, <2>2, <2>3, <2>4
<1>2. \A i \in start .. end : b.slot[i] = Behind(l, end, i)
  <2> DEFINE s == [i \in Slots |->
                     IF i < a.nr THEN a.slot[i]
                     ELSE IF Encodable(l, a, end) THEN Behind(l, end, i) ELSE Num(0)]
  <2>1. b.slot = s
    <3>1. a = [nr |-> a.nr, slot |-> a.slot]
      BY DEF Shaped
    <3>2. b = [a EXCEPT !.slot = s]
      BY DEF CutEncodeToBM
    <3> HIDE DEF s
    <3> QED
      BY <3>1, <3>2
  <2> TAKE i \in start .. end
  <2>2. i \in Slots /\ ~(i < a.nr)
    BY <1>1, Sizes DEF Slots
  <2>3. s[i] = Behind(l, end, i)
    BY <2>2
  <2> HIDE DEF s
  <2> QED
    BY <2>1, <2>3
<1>3. \A i \in 1 .. Len(l) : b.slot[start + i - 1] = Num(l[i].block)
  <2> TAKE i \in 1 .. Len(l)
  <2>1. /\ start + i - 1 \in start .. end
        /\ start + i - 1 \in start .. start + Len(l) - 1
        /\ start + i - 1 \notin end - (Words + 1) .. end - 2
        /\ start + i - 1 # end - 1 /\ start + i - 1 # end
        /\ (start + i - 1) - start + 1 = i
    BY <1>1
  <2>2. Behind(l, end, start + i - 1) = Num(l[i].block)
    BY <2>1 DEF Behind
  <2> QED
    BY <1>2, <2>1, <2>2
<1>4. \A w \in 0 .. Words - 1 :
        b.slot[end - (Words + 1) + w] = [num |-> 0, bits |-> Selection(l, w)]
  <2> TAKE w \in 0 .. Words - 1
  <2> DEFINE i == end - (Words + 1) + w
  <2>1. /\ i \in start .. end /\ i \notin start .. start + Len(l) - 1
        /\ i \in end - (Words + 1) .. end - 2 /\ i # end - 1 /\ i # end
        /\ i - (end - (Words + 1)) = w
    BY <1>1
  <2> HIDE DEF i
  <2>2. Behind(l, end, i) = [num |-> 0, bits |-> Selection(l, w)]
    BY <2>1 DEF Behind
  <2> QED
    BY <1>2, <2>1, <2>2 DEF i
<1>5. b.slot[end - 1] = Num(Len(l))
  <2>1. /\ end - 1 \in start .. end /\ end - 1 \notin start .. start + Len(l) - 1
        /\ end - 1 \notin end - (Words + 1) .. end - 2 /\ end - 1 # end
    BY <1>1
  <2>2. Behind(l, end, end - 1) = Num(Len(l))
    BY <2>1 DEF Behind
  <2> QED
    BY <1>2, <2>1, <2>2
<1>6. b.slot[end] = Num(TAPID)
  <2>1. /\ end \in start .. end /\ end \notin start .. start + Len(l) - 1
        /\ end \notin end - (Words + 1) .. end - 2 /\ end # end - 1
    BY <1>1
  <2>2. Behind(l, end, end) = Num(TAPID)
    BY <2>1 DEF Behind
  <2> QED
    BY <1>2, <2>1, <2>2
<1> QED
  BY <1>1, <1>3, <1>4, <1>5, <1>6

\* What CutEncodeToBM has put behind the bookmarks for a receiver of either type,
\* CutDecodeFromBM finds on either type, with all positions and selections.
THEOREM RoundTrip ==
  ASSUME NEW a, Shaped(a), NEW l \in Seq(Marker), Len(l) <= NRSEGMENTMARKER,
         NEW end \in {NRBOOKMARKS - 1, NRBOOKMARKS - 2}, Encodable(l, a, end),
         NEW v, NEW b, b = CutEncodeToBM(l, a, end)
  PROVE  /\ Encoded(b) /\ CodedNr(b) = Len(l)
         /\ DOMAIN CutDecodeFromBM(b, v) = 1 .. Len(l)
         /\ \A i \in 1 .. Len(l) :
              /\ CutDecodeFromBM(b, v)[i].block = l[i].block
              /\ CutDecodeFromBM(b, v)[i].selected = l[i].selected
<1> DEFINE start == end - Len(l) - (Words + 1)
<1>1. /\ \A i \in 1 .. Len(l) : b.slot[start + i - 1] = Num(l[i].block)
      /\ \A w \in 0 .. Words - 1 :
           b.slot[end - (Words + 1) + w] = [num |-> 0, bits |-> Selection(l, w)]
      /\ b.slot[end - 1] = Num(Len(l)) /\ b.slot[end] = Num(TAPID)
  BY EncodedSlots
<1>2. HasId(b, end) /\ Len(l) \in Nat /\ NRBOOKMARKS \in Nat /\ NRSEGMENTMARKER \in Nat
  BY <1>1, AreaAssumption DEF HasId, Num
<1>3. EndOf(b) = end
  <2>1. CASE end = NRBOOKMARKS - 2
    BY <1>2, <2>1 DEF EndOf
  <2>2. CASE end = NRBOOKMARKS - 1
    <3>1. b.slot[NRBOOKMARKS - 2].num = Len(l)
      <4>1. NRBOOKMARKS - 2 = end - 1
        BY <1>2, <2>2
      <4> QED
        BY <1>1, <4>1 DEF Num
    <3>2. Len(l) # TAPID
      BY <1>2, AreaAssumption
    <3> QED
      BY <2>2, <3>1, <3>2 DEF EndOf, HasId
  <2> QED
    BY <2>1, <2>2
<1>4. Encoded(b)
  BY <1>2 DEF Encoded
<1>5. CodedNr(b) = Len(l)
  <2>1. b.slot[EndOf(b) - 1].num = Len(l)
    BY <1>1, <1>3 DEF Num
  <2> QED
    BY <1>2, <2>1 DEF CodedNr
<1> DEFINE d == CutDecodeFromBM(b, v)
<1>6. /\ DOMAIN d = 1 .. Len(l)
      /\ \A i \in 1 .. Len(l) :
           /\ d[i].block = b.slot[start + i - 1].num
           /\ d[i].selected = ((i - 1) % WordBits
                \in b.slot[end - (Words + 1) + ((i - 1) \div WordBits)].bits)
  <2> HIDE DEF start
  <2>1. start = EndOf(b) - CodedNr(b) - (Words + 1)
    BY <1>3, <1>5 DEF start
  <2> QED
    BY <1>3, <1>5, <2>1 DEF CutDecodeFromBM
<1> HIDE DEF d, start
<1>7. ASSUME NEW i \in 1 .. Len(l)
      PROVE  d[i].block = l[i].block /\ d[i].selected = l[i].selected
  <2>1. d[i].block = l[i].block
    <3>1. d[i].block = b.slot[start + i - 1].num
      BY <1>6
    <3>2. b.slot[start + i - 1] = Num(l[i].block)
      BY <1>1
    <3> QED
      BY <3>1, <3>2 DEF Num
  <2> DEFINE w == (i - 1) \div WordBits
             k == (i - 1) % WordBits
  <2>2. /\ i - 1 \in Nat /\ i - 1 < Words * WordBits /\ i - 1 < Len(l)
    BY <1>2, Sizes
  <2>9. i - 1 \in 0 .. 127
    BY <2>2, Sizes
  <2>3. w \in 0 .. Words - 1 /\ k \in 0 .. WordBits - 1 /\ w * WordBits + k = i - 1
    <3> DEFINE j == i - 1
    <3> HIDE DEF j
    <3>1. j \in 0 .. 127
      BY <2>9 DEF j
    <3>2. /\ j \div WordBits \in 0 .. Words - 1 /\ j % WordBits \in 0 .. WordBits - 1
          /\ (j \div WordBits) * WordBits + (j % WordBits) = j
      BY <3>1, WordDivision
    <3> QED
      BY <3>2 DEF j, w, k
  <2> HIDE DEF w, k
  <2>4. d[i].selected = (k \in Selection(l, w))
    <3>2. b.slot[end - (Words + 1) + w] = [num |-> 0, bits |-> Selection(l, w)]
      BY <1>1, <2>3
    <3>1. b.slot[end - (Words + 1) + w].bits = Selection(l, w)
      BY <3>2
    <3> QED
      BY <1>6, <3>1 DEF w, k
  <2>5. w * WordBits + k + 1 = i
    BY <2>3 DEF WordBits, Words
  <2>6. k \in Selection(l, w) <=> l[i].selected
    BY <2>2, <2>3, <2>5 DEF Selection
  <2>7. l[i].selected \in BOOLEAN /\ d[i].selected \in BOOLEAN
    <3>1. l[i] \in Marker
      OBVIOUS
    <3> QED
      BY <2>4, <3>1 DEF Marker
  <2> QED
    BY <2>1, <2>4, <2>6, <2>7
<1> QED
  BY <1>4, <1>5, <1>6, <1>7 DEF d

-----------------------------------------------------------------------------
(* The bookmarks.                                                          *)

\* What BookmarksKept needs to be inductive: while the OSD is shown, MovieCutter's copy
\* of the bookmarks is the firmware's.
Areas == /\ Shaped(bm) /\ Shaped(cache) /\ \A r \in Recs : Shaped(inf[r])
Shapes == /\ inf = [r \in Recs |-> inf[r]] /\ own = [r \in Recs |-> own[r]]
          /\ version \in [Recs -> Versions] /\ play \in Recs \cup {None}
CopyFits == osd = "shown" =>
              /\ play # None
              /\ play \notin Media => UserPart(bm) = UserPart(cache)
BookmarkInv == Areas /\ Shapes /\ CopyFits /\ BookmarksKept

LEMMA NrReset == ASSUME NEW a, Shaped(a) PROVE Shaped([a EXCEPT !.nr = 0])
<1>1. a = [nr |-> a.nr, slot |-> a.slot] /\ a.slot = [i \in Slots |-> a.slot[i]]
  BY DEF Shaped
<1> DEFINE b == [nr |-> 0, slot |-> a.slot]
<1>2. [a EXCEPT !.nr = 0] = b
  BY <1>1
<1>3. b.nr = 0 /\ b.slot = a.slot /\ b = [nr |-> b.nr, slot |-> b.slot]
  OBVIOUS
<1> HIDE DEF b
<1>4. 0 \in 0 .. NRBOOKMARKS
  BY Sizes
<1> QED
  BY <1>1, <1>2, <1>3, <1>4 DEF Shaped

LEMMA BookmarkInit == Init => BookmarkInv
<1> SUFFICES ASSUME Init PROVE BookmarkInv
  OBVIOUS
<1>1. Areas
  BY BlankShaped DEF Init, Areas
<1>2. Shapes
  BY AreaAssumption DEF Init, Shapes
<1>3. CopyFits
  BY DEF Init, CopyFits
<1>4. BookmarksKept
  BY BlankShaped DEF Init, BookmarksKept
<1> QED
  BY <1>1, <1>2, <1>3, <1>4 DEF BookmarkInv

LEMMA BookmarkNext == BookmarkInv /\ [Next]_vars => BookmarkInv'
<1> SUFFICES ASSUME BookmarkInv, [Next]_vars PROVE BookmarkInv'
  OBVIOUS
<1> USE DEF BookmarkInv
<1> USE NoneAssumption
<1>1. ASSUME NEW r \in Recs, StartPlayback(r) PROVE BookmarkInv'
  BY <1>1 DEF StartPlayback, Areas, Shapes, CopyFits, BookmarksKept, outside, files, memory
<1>2. CASE Accept
  <2>1. Areas'
    BY <1>2, NrReset DEF Accept, ReadBookmarks, Areas, files, player
  <2>2. CopyFits'
    BY <1>2 DEF Accept, ReadBookmarks, CopyFits, player
  <2>3. Shapes' /\ BookmarksKept'
    BY <1>2 DEF Accept, Shapes, BookmarksKept, outside, files, player
  <2> QED
    BY <2>1, <2>2, <2>3
<1>3. CASE Edit
  BY <1>3 DEF Edit, Areas, Shapes, CopyFits, BookmarksKept, outside, files, player
<1>4. CASE EditBookmarks
  <2>1. PICK s \in UserBookmarks[version[play]] :
          /\ bm' = Bookmarked(bm, s) /\ cache' = Overwrite(cache, bm'.slot, Len(s))
          /\ own' = [own EXCEPT ![play] = s]
    BY <1>4 DEF EditBookmarks
  <2>2. /\ play \in Recs \ Media /\ version[play] \in Versions /\ osd' = osd
        /\ version' = version /\ inf' = inf /\ play' = play
    BY <1>4 DEF EditBookmarks, Shapes, outside, files
  <2>3. Shaped(bm') /\ UserPart(bm') = s /\ Len(s) \in 0 .. NRBOOKMARKS /\ s \in Seq(Nat)
    BY <2>1, <2>2, BookmarkedIs
  <2>4. bm'.nr = Len(s)
    BY <2>1 DEF Bookmarked, Overwrite
  <2>5. /\ Shaped(cache')
        /\ UserPart(cache') = [i \in 1 .. Len(s) |-> bm'.slot[i - 1].num]
    BY <2>1, <2>3, OverwriteShaped
  <2>6. UserPart(cache') = s
    BY <2>3, <2>4, <2>5 DEF UserPart
  <2>7. own'[play] = s /\ \A r \in Recs \ {play} : own'[r] = own[r]
    BY <2>1, <2>2 DEF Shapes
  <2>8. own' = [r \in Recs |-> own'[r]]
    BY <2>1, <2>2 DEF Shapes
  <2>9. Areas' /\ CopyFits'
    BY <2>2, <2>3, <2>5, <2>6 DEF Areas, CopyFits
  <2>10. Shapes' /\ BookmarksKept'
    BY <2>2, <2>6, <2>7, <2>8 DEF Shapes, BookmarksKept
  <2> QED
    BY <2>9, <2>10
<1>5. CASE FirmwareBookmark
  <2>1. PICK s \in UserBookmarks[version[play]] :
          cache' = Bookmarked(cache, s) /\ own' = [own EXCEPT ![play] = s]
    BY <1>5 DEF FirmwareBookmark
  <2>2. /\ play \in Recs \ Media /\ version[play] \in Versions /\ osd' = osd /\ osd # "shown"
        /\ version' = version /\ inf' = inf /\ play' = play /\ bm' = bm
    BY <1>5 DEF FirmwareBookmark, Shapes, outside, files, memory
  <2>3. Shaped(cache') /\ UserPart(cache') = s
    BY <2>1, <2>2, BookmarkedIs
  <2>4. own'[play] = s /\ \A r \in Recs \ {play} : own'[r] = own[r]
    BY <2>1, <2>2 DEF Shapes
  <2>5. own' = [r \in Recs |-> own'[r]]
    BY <2>1, <2>2 DEF Shapes
  <2>6. Areas' /\ CopyFits'
    BY <2>2, <2>3 DEF Areas, CopyFits
  <2>7. Shapes' /\ BookmarksKept'
    BY <2>2, <2>3, <2>4, <2>5 DEF Shapes, BookmarksKept
  <2> QED
    BY <2>6, <2>7
<1>6. CASE Hide
  <2>1. /\ osd = "shown" /\ play \in Recs /\ osd' = "hidden"
        /\ version' = version /\ inf' = inf /\ play' = play /\ own' = own
    BY <1>6 DEF Hide, Shapes, outside
  <2>2. /\ Shaped(bm') /\ Shaped(cache')
        /\ play \notin Media => UserPart(cache') = UserPart(cache)
    <3>1. \/ cache' = cache /\ bm' = bm
          \/ play \notin Media /\ bm' = CutEncodeToBM(list, bm, End)
             /\ (cache' = cache \/ cache' = bm')
      BY <1>6 DEF Hide, CutSaveToBM
    <3>2. /\ Shaped(CutEncodeToBM(list, bm, End))
          /\ UserPart(CutEncodeToBM(list, bm, End)) = UserPart(bm)
      BY EncodeKeepsBookmarks DEF Areas
    <3>3. play \notin Media => UserPart(bm) = UserPart(cache)
      BY <2>1 DEF CopyFits
    <3> QED
      BY <3>1, <3>2, <3>3 DEF Areas
  <2> QED
    BY <2>1, <2>2 DEF Areas, Shapes, CopyFits, BookmarksKept
<1>7. CASE Show
  <2>1. Areas'
    BY <1>7, NrReset DEF Show, ReadBookmarks, Areas, files, player
  <2>2. CopyFits'
    BY <1>7 DEF Show, ReadBookmarks, CopyFits, player
  <2>3. Shapes' /\ BookmarksKept'
    BY <1>7 DEF Show, Shapes, BookmarksKept, outside, files, player
  <2> QED
    BY <2>1, <2>2, <2>3
<1>8. CASE ExitMC
  <2>1. /\ play \in Recs /\ osd' = "off" /\ Shaped(bm')
        /\ version' = version /\ inf' = inf /\ play' = play /\ own' = own
    BY <1>8, BlankShaped DEF ExitMC, Forget, Shapes, outside
  <2>2. Shaped(cache') /\ UserPart(cache') = UserPart(cache)
    BY <1>8, EncodeKeepsBookmarks DEF ExitMC, Areas
  <2> QED
    BY <2>1, <2>2 DEF Areas, Shapes, CopyFits, BookmarksKept
<1>9. CASE Restart
  BY <1>9, BlankShaped
  DEF Restart, Forget, Areas, Shapes, CopyFits, BookmarksKept, outside, files, player
<1>10. CASE Saved
  BY <1>10 DEF Saved, Areas, Shapes, CopyFits, BookmarksKept, outside, player, memory
<1>11. CASE PlaybackEnds
  <2>1. /\ play \in Recs /\ osd' = "off" /\ play' = None /\ Shaped(bm') /\ Shaped(cache')
        /\ version' = version /\ own' = own /\ inf' = [inf EXCEPT ![play] = cache]
    BY <1>11, BlankShaped, NrReset DEF PlaybackEnds, Shapes, Areas, outside
  <2>2. /\ inf'[play] = cache /\ \A r \in Recs \ {play} : inf'[r] = inf[r]
        /\ inf' = [r \in Recs |-> inf'[r]]
    BY <2>1 DEF Shapes
  <2>3. Areas'
    BY <2>1, <2>2 DEF Areas
  <2>4. Shapes' /\ CopyFits'
    BY <2>1, <2>2 DEF Shapes, CopyFits
  <2>5. BookmarksKept'
    BY <2>1, <2>2 DEF BookmarksKept
  <2> QED
    BY <2>3, <2>4, <2>5
<1>12. CASE SwitchOff
  <2>1. /\ osd' = "off" /\ play' = None /\ Shaped(bm') /\ Shaped(cache')
        /\ version' = version /\ inf' = inf
        /\ own' = IF play = None THEN own ELSE [own EXCEPT ![play] = UserPart(inf[play])]
    BY <1>12, BlankShaped DEF SwitchOff, Forget, outside
  <2>2. /\ own' = [r \in Recs |-> own'[r]]
        /\ \A r \in Recs : own'[r] = IF r = play THEN UserPart(inf[r]) ELSE own[r]
    BY <2>1 DEF Shapes
  <2>3. Areas' /\ Shapes' /\ CopyFits'
    BY <2>1, <2>2 DEF Areas, Shapes, CopyFits
  <2>4. BookmarksKept'
    BY <2>1, <2>2 DEF BookmarksKept
  <2> QED
    BY <2>3, <2>4
<1>13. ASSUME NEW r \in Recs, Replace(r) PROVE BookmarkInv'
  <2>1. version' \in [Recs -> Versions]
    <3>1. PICK v \in Contents[r] : version' = [version EXCEPT ![r] = v]
      BY <1>13 DEF Replace
    <3>2. v \in Versions
      <4>1. Contents \in [Recs -> SUBSET Versions]
        BY AreaAssumption
      <4> QED
        BY <3>1, <4>1
    <3> QED
      BY <3>1, <3>2 DEF Shapes
  <2> QED
    BY <1>13, <2>1
    DEF Replace, Change, Areas, Shapes, CopyFits, BookmarksKept, files, player, memory
<1>14. CASE OtherReceiver
  BY <1>14
  DEF OtherReceiver, Change, Areas, Shapes, CopyFits, BookmarksKept, files, player, memory
<1>15. CASE UNCHANGED vars
  BY <1>15
  DEF vars, Areas, Shapes, CopyFits, BookmarksKept, outside, files, player, memory
<1> QED
  BY <1>1, <1>2, <1>3, <1>4, <1>5, <1>6, <1>7, <1>8, <1>9, <1>10, <1>11, <1>12, <1>13,
     <1>14, <1>15 DEF Next

\* Whatever is saved into the bookmark area, loaded from it and lost with the power, the
\* bookmarks in it are those the user has made (CutSaveToBM, SaveBookmarks, ReadBookmarks).
THEOREM BookmarksStay == Spec => []BookmarksKept
<1>1. Init => BookmarkInv
  BY BookmarkInit
<1>2. BookmarkInv /\ [Next]_vars => BookmarkInv'
  BY BookmarkNext
<1>3. BookmarkInv => BookmarksKept
  BY DEF BookmarkInv
<1> QED
  BY <1>1, <1>2, <1>3, PTL DEF Spec

-----------------------------------------------------------------------------
(* What CutFileLoad makes of a list.                                       *)

\* The loop that drops the markers behind the end of the recording, step by step.
LEMMA InsideWalk ==
  ASSUME NEW v, NEW l \in Seq(Marker), 2 <= Len(l)
  PROVE  \E h \in [0 .. Len(l) - 2 -> Seq(Marker)] :
           /\ h[0] = <<>> /\ h[Len(l) - 2] = Inside(l, v)
           /\ \A k \in 1 .. Len(l) - 2 :
                h[k] = IF l[k + 1].block < Total[v] THEN Append(h[k - 1], l[k + 1]) ELSE h[k - 1]
<1> DEFINE n == SubSeq(l, 2, Len(l) - 1)
           R == Seq(Marker)
           step(kept, m) == IF m.block < Total[v] THEN Append(kept, m) ELSE kept
           Fold(it) == it = [s \in SUBSET DOMAIN n |->
                               IF s = {} THEN <<>> ELSE step(it[s \ {Max(s)}], n[Max(s)])]
           it == CHOOSE x : Fold(x)
           f == [p \in R \X Marker |-> step(p[1], p[2])]
<1>1. Inside(l, v) = it[DOMAIN n]
  BY DEF Inside, FoldLeft, MapThenFoldSet
<1>2. /\ n \in Seq(Marker) /\ Len(n) = Len(l) - 2 /\ DOMAIN n = 1 .. Len(l) - 2
      /\ \A k \in 1 .. Len(l) - 2 : n[k] = l[k + 1] /\ l[k + 1] \in Marker
  BY MiddleElements
<1>3. \A a \in R, m \in Marker : step(a, m) \in R /\ f[<<a, m>>] = step(a, m)
  OBVIOUS
<1>4. f \in [R \X Marker -> R] /\ <<>> \in R
  BY <1>3
<1> HIDE DEF n, f, step, R
<1>5. PICK g \in [SUBSET DOMAIN n -> R] : Folding(g, f, <<>>, n)
  BY <1>2, <1>4, FoldExists DEF R
<1>6. \A s \in SUBSET DOMAIN n : s # {} => Max(s) \in s /\ n[Max(s)] \in Marker
                                          /\ s \ {Max(s)} \in SUBSET DOMAIN n
  <2> TAKE s \in SUBSET DOMAIN n
  <2>1. s \in SUBSET (1 .. Len(n)) /\ Len(n) \in Nat
    BY <1>2
  <2>2. CASE Len(n) = 0
    BY <2>1, <2>2
  <2>3. CASE Len(n) # 0
    <3>1. s # {} => Max(s) \in s
      BY <2>1, <2>3, GreatestOfSubset
    <3> QED BY <1>2, <3>1
  <2> QED BY <2>2, <2>3
<1>7. Fold(g)
  <2>1. \A s \in SUBSET DOMAIN n :
          g[s] = IF s = {} THEN <<>> ELSE step(g[s \ {Max(s)}], n[Max(s)])
    BY <1>3, <1>5, <1>6 DEF Folding
  <2> QED BY <2>1
<1>8. Fold(it)
  <2> HIDE DEF Fold
  <2> QED BY <1>7
<1>9. FoldingIn(it, R, f, <<>>, n)
  <2>1. \A s \in SUBSET DOMAIN n :
          it[s] = IF s = {} THEN <<>> ELSE step(it[s \ {Max(s)}], n[Max(s)])
    <3> HIDE DEF it
    <3> QED BY <1>8
  <2> HIDE DEF it
  <2> QED BY <1>3, <1>6, <2>1 DEF FoldingIn
<1> HIDE DEF it
<1>10. PICK h : Walk(h, it, R, f, <<>>, n)
  BY <1>2, <1>4, <1>9, FoldPath, Zenon
<1>11. ASSUME NEW k \in 1 .. Len(l) - 2
       PROVE  h[k] = IF l[k + 1].block < Total[v] THEN Append(h[k - 1], l[k + 1]) ELSE h[k - 1]
  <2>0. k - 1 \in 0 .. Len(n) /\ k \in 1 .. Len(n)
    BY <1>2
  <2>1. h[k - 1] \in R /\ n[k] = l[k + 1] /\ n[k] \in Marker
    BY <1>2, <1>10, <2>0 DEF Walk
  <2>2. h[k] = step(h[k - 1], n[k])
    BY <1>3, <1>10, <2>0, <2>1 DEF Walk
  <2> QED BY <2>1, <2>2 DEF step
<1> QED
  BY <1>1, <1>2, <1>10, <1>11 DEF R, Walk

\* Lists in order between their ends, those that can be in a file, and the lists the
\* editing core can work with.
Middling(l) == \A i, j \in 2 .. Len(l) - 1 : i < j => l[i].block <= l[j].block
Storable(l) == l \in Seq(Marker) /\ Len(l) <= NRSEGMENTMARKER /\ Middling(l)
Proper(l, v) ==
  /\ l \in Seq(Marker) /\ 2 <= Len(l) /\ Len(l) <= NRSEGMENTMARKER
  /\ l[1].block = 0 /\ l[Len(l)].block = Total[v] /\ ~l[Len(l)].selected
  /\ \A i \in 2 .. Len(l) - 1 : l[i].block < Total[v]
  /\ \A i, j \in DOMAIN l : i < j => l[i].block <= l[j].block

LEMMA MarkerFields == \A m \in Marker : /\ m.block \in Nat /\ m.time \in Nat
                                        /\ m.selected \in BOOLEAN /\ m.caption \in BOOLEAN
BY DEF Marker

\* The markers that are kept are in the recording and in order; all are, if all fit.
LEMMA InsideFacts ==
  ASSUME NEW v \in Versions, NEW l \in Seq(Marker), 2 <= Len(l), NEW s, s = Inside(l, v)
  PROVE  /\ s \in Seq(Marker) /\ Len(s) <= Len(l) - 2
         /\ \A i \in 1 .. Len(s) : s[i].block < Total[v]
         /\ Middling(l) => \A i, j \in 1 .. Len(s) : i < j => s[i].block <= s[j].block
         /\ (\A i \in 2 .. Len(l) - 1 : l[i].block < Total[v])
              => Len(s) = Len(l) - 2 /\ \A i \in 1 .. Len(l) - 2 : s[i] = l[i + 1]
<1> DEFINE N == Len(l) - 2
           t == Total[v]
           Fit == \A i \in 2 .. Len(l) - 1 : l[i].block < t
<1>0. PICK h \in [0 .. N -> Seq(Marker)] :
           /\ h[0] = <<>> /\ h[N] = s
           /\ \A k \in 1 .. N :
                h[k] = IF l[k + 1].block < t THEN Append(h[k - 1], l[k + 1]) ELSE h[k - 1]
  BY InsideWalk
<1>1. /\ N \in Nat /\ t \in Nat /\ \A k \in 1 .. N : l[k + 1] \in Marker /\ l[k + 1].block \in Nat
  <2>1. Len(l) \in Nat /\ \A i \in 1 .. Len(l) : l[i] \in Marker
    BY ElementOfSeq, LenProperties
  <2>2. t \in Nat
    BY UserAssumption
  <2>3. N \in Nat /\ \A k \in 1 .. N : k + 1 \in 1 .. Len(l)
    BY <2>1
  <2> QED BY <2>1, <2>2, <2>3, MarkerFields
<1> DEFINE Good(k) ==
             /\ Len(h[k]) <= k
             /\ \A i \in 1 .. Len(h[k]) : h[k][i].block < t
             /\ Middling(l) => /\ \A i, j \in 1 .. Len(h[k]) : i < j => h[k][i].block <= h[k][j].block
                               /\ k # 0 => \A i \in 1 .. Len(h[k]) : h[k][i].block <= l[k + 1].block
             /\ Fit => Len(h[k]) = k /\ \A i \in 1 .. k : h[k][i] = l[i + 1]
           G == {k \in 0 .. N : Good(k)}
<1>2. 0 \in G
  <2>1. h[0] = <<>> /\ Len(h[0]) = 0
    BY <1>0
  <2>2. Good(0)
    BY <2>1
  <2> HIDE DEF Good
  <2> QED BY <1>1, <2>2
<1>3. ASSUME NEW k \in 1 .. N, k - 1 \in G PROVE k \in G
  <2> DEFINE a == h[k - 1]
             m == l[k + 1]
             b == h[k]
  <2>0. /\ k - 1 \in 0 .. N /\ k \in 0 .. N /\ a \in Seq(Marker) /\ b \in Seq(Marker)
        /\ m \in Marker /\ m.block \in Nat /\ Good(k - 1)
        /\ Len(a) \in Nat /\ \A i \in 1 .. Len(a) : a[i] \in Marker /\ a[i].block \in Nat
    <3>1. k - 1 \in 0 .. N /\ k \in 0 .. N
      BY <1>1
    <3>2. a \in Seq(Marker) /\ b \in Seq(Marker)
      BY <1>0, <3>1
    <3>3. \A i \in 1 .. Len(a) : a[i] \in Marker
      BY <3>2, ElementOfSeq
    <3>4. Good(k - 1)
      <4> HIDE DEF Good
      <4> QED BY <1>3
    <3> HIDE DEF Good, a, b
    <3> QED BY <1>1, <3>1, <3>2, <3>3, <3>4, MarkerFields, LenProperties
  <2>1. /\ Len(a) <= k - 1
        /\ \A i \in 1 .. Len(a) : a[i].block < t
        /\ Middling(l) => /\ \A i, j \in 1 .. Len(a) : i < j => a[i].block <= a[j].block
                          /\ k - 1 # 0 => \A i \in 1 .. Len(a) : a[i].block <= l[(k - 1) + 1].block
        /\ Fit => Len(a) = k - 1 /\ \A i \in 1 .. k - 1 : a[i] = l[i + 1]
    BY <2>0
  <2>2. Middling(l) => \A i \in 1 .. Len(a) : a[i].block <= m.block
    <3> SUFFICES ASSUME Middling(l), NEW i \in 1 .. Len(a) PROVE a[i].block <= m.block
      OBVIOUS
    <3>1. k - 1 # 0
      BY <2>0, <2>1
    <3>2. k \in 2 .. Len(l) - 1 /\ k + 1 \in 2 .. Len(l) - 1 /\ k < k + 1 /\ (k - 1) + 1 = k
          /\ k - 1 \in 1 .. N
      BY <1>1, <3>1
    <3>3. l[k].block <= m.block /\ l[k].block \in Nat
      BY <1>1, <3>2 DEF Middling
    <3>4. a[i].block <= l[k].block
      BY <2>1, <3>1, <3>2
    <3>5. a[i].block \in Nat /\ m.block \in Nat
      BY <2>0
    <3>6. \A x, y, z \in Nat : x <= y /\ y <= z => x <= z
      OBVIOUS
    <3> HIDE DEF a, m
    <3> QED BY <3>3, <3>4, <3>5, <3>6
  <2>3. b = IF m.block < t THEN Append(a, m) ELSE a
    BY <1>0
  <2>4. Fit => m.block < t
    <3>1. k + 1 \in 2 .. Len(l) - 1
      BY <1>1
    <3> QED BY <3>1
  <2> HIDE DEF a, b, m
  <2>5. CASE m.block < t
    <3>1. /\ Len(b) = Len(a) + 1 /\ b[Len(a) + 1] = m /\ \A i \in 1 .. Len(a) : b[i] = a[i]
      BY <2>0, <2>3, <2>5, AppendProperties
    <3>2. \A i \in 1 .. Len(b) : i \in 1 .. Len(a) \/ i = Len(a) + 1
      BY <2>0, <3>1
    <3>3. Len(b) <= k
      BY <2>0, <2>1, <3>1
    <3>4. \A i \in 1 .. Len(b) : b[i].block < t
      BY <2>1, <2>5, <3>1, <3>2
    <3>5. Middling(l) => /\ \A i, j \in 1 .. Len(b) : i < j => b[i].block <= b[j].block
                         /\ \A i \in 1 .. Len(b) : b[i].block <= m.block
      <4> SUFFICES ASSUME Middling(l)
                   PROVE  /\ \A i, j \in 1 .. Len(b) : i < j => b[i].block <= b[j].block
                          /\ \A i \in 1 .. Len(b) : b[i].block <= m.block
        OBVIOUS
      <4>1. \A i \in 1 .. Len(b) : b[i].block <= m.block
        <5> TAKE i \in 1 .. Len(b)
        <5>1. CASE i \in 1 .. Len(a)
          BY <2>2, <3>1, <5>1
        <5>2. CASE i = Len(a) + 1
          <6>1. m.block \in Nat
            BY <2>0
          <6> QED BY <3>1, <5>2, <6>1
        <5> QED BY <3>2, <5>1, <5>2
      <4>2. ASSUME NEW i \in 1 .. Len(b), NEW j \in 1 .. Len(b), i < j
            PROVE  b[i].block <= b[j].block
        <5>1. CASE j \in 1 .. Len(a)
          <6>1. i \in 1 .. Len(a)
            BY <2>0, <4>2, <5>1
          <6> QED BY <2>1, <3>1, <4>2, <5>1, <6>1
        <5>2. CASE j = Len(a) + 1
          BY <3>1, <4>1, <5>2
        <5> QED BY <3>2, <5>1, <5>2
      <4> QED BY <4>1, <4>2
    <3>6. Fit => Len(b) = k /\ \A i \in 1 .. k : b[i] = l[i + 1]
      <4> SUFFICES ASSUME Fit PROVE Len(b) = k /\ \A i \in 1 .. k : b[i] = l[i + 1]
        OBVIOUS
      <4>1. Len(a) = k - 1 /\ Len(b) = k
        BY <2>0, <2>1, <3>1
      <4>2. ASSUME NEW i \in 1 .. k PROVE b[i] = l[i + 1]
        <5>1. CASE i = k
          BY <3>1, <4>1, <5>1 DEF m
        <5>2. CASE i # k
          <6>1. i \in 1 .. k - 1 /\ i \in 1 .. Len(a)
            BY <4>1, <5>2
          <6> QED BY <2>1, <3>1, <6>1
        <5> QED BY <5>1, <5>2
      <4> QED BY <4>1, <4>2
    <3>7. Good(k)
      BY <3>3, <3>4, <3>5, <3>6 DEF b, m
    <3> HIDE DEF Good
    <3> QED BY <2>0, <3>7
  <2>6. CASE ~(m.block < t)
    <3>1. b = a /\ ~Fit
      BY <2>3, <2>4, <2>6
    <3>2. Len(b) <= k
      BY <2>0, <2>1, <3>1
    <3>3. Good(k)
      BY <2>1, <2>2, <3>1, <3>2 DEF b, m
    <3> HIDE DEF Good
    <3> QED BY <2>0, <3>3
  <2> QED BY <2>5, <2>6
<1>4. N \in G
  <2> HIDE DEF G
  <2>1. \A k \in 0 .. N : k \in G
    BY <1>1, <1>2, <1>3, Induction
  <2> QED BY <1>1, <2>1
<1>5. /\ Good(N) /\ h[N] = s /\ s \in Seq(Marker)
  <2>1. N \in 0 .. N
    BY <1>1
  <2> HIDE DEF Good
  <2> QED BY <1>0, <1>4, <2>1
<1> QED
  BY <1>5

\* A time stamp is found for every position.
LEMMA TimeIsNat == ASSUME NEW v \in Versions, NEW b \in Nat PROVE Time(v, b) \in Nat
<1> DEFINE nav == Nav[v]
           before == {i \in DOMAIN nav : nav[i].block <= b}
<1>1. /\ nav \in Seq([block : Nat, time : Nat]) /\ Len(nav) \in Nat /\ DOMAIN nav = 1 .. Len(nav)
      /\ \A i \in 1 .. Len(nav) : nav[i].time \in Nat
  <2>1. nav \in Seq([block : Nat, time : Nat])
    BY NavAssumption
  <2> HIDE DEF nav
  <2>2. Len(nav) \in Nat /\ DOMAIN nav = 1 .. Len(nav)
    BY <2>1, LenProperties
  <2>3. \A i \in 1 .. Len(nav) : nav[i] \in [block : Nat, time : Nat]
    BY <2>1, ElementOfSeq
  <2> QED BY <2>1, <2>2, <2>3
<1>2. before \subseteq 0 .. Len(nav)
  BY <1>1
<1>3. CASE nav = <<>> \/ before = {}
  BY <1>3 DEF Time
<1>4. CASE nav # <<>> /\ before # {}
  <2> DEFINE c == CHOOSE i \in before : \A j \in before : j <= i
  <2>1. Max(before) \in before /\ \A j \in before : j <= Max(before)
    <3> HIDE DEF before, nav
    <3> QED BY <1>1, <1>2, <1>4, MaxIsGreatest
  <2>2. c \in before
    <3> HIDE DEF before
    <3> QED BY <2>1
  <2>3. Time(v, b) = nav[c].time
    BY <1>4 DEF Time
  <2>4. c \in 1 .. Len(nav)
    BY <1>1, <2>2
  <2> HIDE DEF c, nav
  <2> QED BY <1>1, <2>3, <2>4
<1> QED
  BY <1>3, <1>4

\* What the end of CutFileLoad makes of a list with ends.
LEMMA EndFittedIs ==
  ASSUME NEW v \in Versions, NEW l \in Seq(Marker), 2 <= Len(l),
         NEW s, s = Inside(l, v), NEW r, r = EndFitted(l, v)
  PROVE  /\ r \in Seq(Marker) /\ Len(r) = Len(s) + 2 /\ s \in Seq(Marker) /\ Len(s) \in Nat
         /\ r[1].block = 0 /\ r[1].caption = l[1].caption
         /\ r[1].selected = (l[1].selected /\ s # <<>>)
         /\ r[Len(r)].block = Total[v] /\ ~r[Len(r)].selected
         /\ \A i \in 1 .. Len(s) : r[i + 1] = s[i]
<1> DEFINE n == Len(l)
           t == Total[v]
           a == l[1]
           b == l[n]
           first == IF a.block # 0 THEN [a EXCEPT !.block = 0, !.time = 0] ELSE a
           last == IF b.block # t THEN [b EXCEPT !.block = t, !.time = Time(v, t)] ELSE b
           x == [first EXCEPT !.selected = @ /\ s # <<>>]
           y == [last EXCEPT !.selected = FALSE]
<1>1. n \in Nat /\ a \in Marker /\ b \in Marker
  <2>1. n \in Nat /\ 1 \in 1 .. n /\ n \in 1 .. n
    OBVIOUS
  <2> QED BY <2>1, ElementOfSeq
<1>2. t \in Nat /\ Time(v, t) \in Nat
  <2>1. t \in Nat
    BY UserAssumption
  <2> QED BY <2>1, TimeIsNat
<1>3. r = <<x>> \o s \o <<y>>
  BY DEF EndFitted
<1>4. s \in Seq(Marker) /\ Len(s) \in Nat
  BY InsideFacts, LenProperties
<1> DEFINE w == Time(v, t)
<1> HIDE DEF n, a, b, t, w
<1>5. /\ first \in Marker /\ first.block = 0 /\ first.caption = a.caption
      /\ first.selected = a.selected
  BY <1>1 DEF Marker
<1>6. last \in Marker /\ last.block = t
  <2>1. w \in Nat /\ last = IF b.block # t THEN [b EXCEPT !.block = t, !.time = w] ELSE b
    BY <1>2 DEF w
  <2> HIDE DEF last
  <2> QED BY <1>1, <1>2, <2>1 DEF Marker
<1> HIDE DEF first, last
<1>7. x \in Marker /\ x.block = 0 /\ x.caption = a.caption
      /\ x.selected = (a.selected /\ s # <<>>)
  <2> DEFINE e == first.selected /\ s # <<>>
  <2>1. x = [first EXCEPT !.selected = e] /\ e \in BOOLEAN /\ e = (a.selected /\ s # <<>>)
    BY <1>5
  <2> HIDE DEF e, x
  <2>2. x \in Marker /\ x.block = 0 /\ x.caption = a.caption /\ x.selected = e
    BY <1>5, <2>1 DEF Marker
  <2> QED BY <2>1, <2>2, Zenon
<1>8. y \in Marker /\ y.block = t /\ ~y.selected
  BY <1>6 DEF Marker
<1> HIDE DEF x, y
<1>9. /\ r \in Seq(Marker) /\ Len(r) = Len(s) + 2 /\ r[1] = x /\ r[Len(s) + 2] = y
      /\ \A i \in 1 .. Len(s) : r[i + 1] = s[i]
  BY <1>3, <1>4, <1>7, <1>8, EndsElements
<1>10. r[Len(r)] = y
  BY <1>9
<1> QED
  BY <1>4, <1>7, <1>8, <1>9, <1>10, Zenon DEF a, t

\* Whatever the list comes from, what CutFileLoad hands on is a proper one.
LEMMA NormalisedProper ==
  ASSUME NEW v \in Versions, NEW l, Storable(l), NEW r, r = Normalised(l, v)
  PROVE  Proper(r, v)
<1>0. l \in Seq(Marker) /\ Len(l) \in Nat /\ Len(l) <= NRSEGMENTMARKER /\ Middling(l)
  BY LenProperties DEF Storable
<1>1. Total[v] \in Nat \ {0} /\ NRSEGMENTMARKER \in Nat /\ 2 <= NRSEGMENTMARKER
  BY UserAssumption, AreaAssumption
<1>2. CASE Len(l) < 2
  <2> DEFINE a == [block |-> 0, time |-> 0, selected |-> FALSE, caption |-> FALSE]
             b == [block |-> Total[v], time |-> Time(v, Total[v]), selected |-> FALSE,
                   caption |-> FALSE]
  <2>1. r = <<a, b>>
    BY <1>2 DEF Normalised, Default
  <2>2. Time(v, Total[v]) \in Nat
    BY <1>1, TimeIsNat
  <2>3. a \in Marker /\ b \in Marker
    BY <1>1, <2>2 DEF Marker
  <2>4. a.block = 0 /\ b.block = Total[v] /\ ~b.selected
    OBVIOUS
  <2> HIDE DEF a, b
  <2>5. r \in Seq(Marker) /\ Len(r) = 2 /\ r[1] = a /\ r[2] = b /\ DOMAIN r = 1 .. 2
    BY <2>1, <2>3
  <2>6. \A i, j \in 1 .. 2 : i < j => i = 1 /\ j = 2
    OBVIOUS
  <2>7. \A i, j \in DOMAIN r : i < j => r[i].block <= r[j].block
    BY <1>1, <2>4, <2>5, <2>6
  <2> QED BY <1>1, <2>4, <2>5, <2>7 DEF Proper
<1>3. CASE ~(Len(l) < 2)
  <2> DEFINE s == Inside(l, v)
             t == Total[v]
  <2>0. 2 <= Len(l)
    BY <1>0, <1>3
  <2>1. /\ r \in Seq(Marker) /\ Len(r) = Len(s) + 2 /\ s \in Seq(Marker) /\ Len(s) \in Nat
        /\ r[1].block = 0 /\ r[Len(r)].block = t /\ ~r[Len(r)].selected
        /\ \A i \in 1 .. Len(s) : r[i + 1] = s[i]
    <3>1. r = EndFitted(l, v)
      BY <1>3 DEF Normalised
    <3> QED BY <1>0, <2>0, <3>1, EndFittedIs
  <2>2. /\ Len(s) <= Len(l) - 2 /\ \A i \in 1 .. Len(s) : s[i].block < t
        /\ \A i, j \in 1 .. Len(s) : i < j => s[i].block <= s[j].block
    BY <1>0, <2>0, InsideFacts
  <2>3. \A i \in 1 .. Len(s) : s[i].block \in Nat
    BY <2>1, ElementOfSeq, MarkerFields
  <2> HIDE DEF s, t
  <2>4. t \in Nat
    BY <1>1 DEF t
  <2>5. 2 <= Len(r) /\ Len(r) <= NRSEGMENTMARKER /\ DOMAIN r = 1 .. Len(s) + 2
    BY <1>0, <1>1, <2>1, <2>2
  <2>6. ASSUME NEW i \in 2 .. Len(r) - 1
        PROVE  r[i].block < t /\ i - 1 \in 1 .. Len(s) /\ r[i] = s[i - 1]
    <3>1. i - 1 \in 1 .. Len(s) /\ (i - 1) + 1 = i
      BY <2>1
    <3> QED BY <2>1, <2>2, <3>1
  <2>7. ASSUME NEW i \in DOMAIN r, NEW j \in DOMAIN r, i < j PROVE r[i].block <= r[j].block
    <3>1. CASE i = 1 /\ j = Len(r)
      BY <2>1, <2>4, <3>1
    <3>2. CASE i = 1 /\ j # Len(r)
      <4>1. j \in 2 .. Len(r) - 1
        BY <2>1, <2>5, <2>7, <3>2
      <4>2. r[j].block \in Nat
        BY <2>3, <2>6, <4>1
      <4> QED BY <2>1, <3>2, <4>2
    <3>3. CASE i # 1 /\ j = Len(r)
      <4>1. i \in 2 .. Len(r) - 1
        BY <2>1, <2>5, <2>7, <3>3
      <4>2. r[i].block \in Nat /\ r[i].block < t
        BY <2>3, <2>6, <4>1
      <4> QED BY <2>1, <2>4, <3>3, <4>2
    <3>4. CASE i # 1 /\ j # Len(r)
      <4>1. i \in 2 .. Len(r) - 1 /\ j \in 2 .. Len(r) - 1 /\ i - 1 < j - 1
        BY <2>1, <2>5, <2>7, <3>4
      <4> QED BY <2>2, <2>6, <4>1
    <3> QED BY <3>1, <3>2, <3>3, <3>4
  <2> QED BY <2>1, <2>5, <2>6, <2>7 DEF Proper, t
<1> QED
  BY <1>2, <1>3

\* A list of this recording, however it was stored, comes back.
LEMMA NormalisedSame ==
  ASSUME NEW v \in Versions, NEW k, Proper(k, v), NEW l, Storable(l), Len(l) = Len(k),
         \A i \in 1 .. Len(k) : l[i].block = k[i].block /\ l[i].selected = k[i].selected,
         CutFileMode # "inf" => \A i \in 1 .. Len(k) : l[i].caption = k[i].caption,
         NEW r, r = Normalised(l, v)
  PROVE  SameList(r, k)
<1> DEFINE s == Inside(l, v)
           n == Len(k)
           t == Total[v]
<1>1. /\ k \in Seq(Marker) /\ 2 <= n /\ k[1].block = 0 /\ k[n].block = t /\ ~k[n].selected
      /\ \A i \in 2 .. n - 1 : k[i].block < t
  BY DEF Proper
<1>2. l \in Seq(Marker) /\ Len(l) = n /\ n \in Nat /\ 2 <= Len(l)
  BY <1>1, LenProperties DEF Storable
<1>3. r = EndFitted(l, v)
  <2>1. ~(Len(l) < 2)
    BY <1>2
  <2> QED BY <2>1 DEF Normalised
<1>4. \A i \in 2 .. Len(l) - 1 : l[i].block < Total[v]
  BY <1>1, <1>2
<1>5. Len(s) = n - 2 /\ \A i \in 1 .. n - 2 : s[i] = l[i + 1]
  BY <1>2, <1>4, InsideFacts
<1>6. /\ r \in Seq(Marker) /\ Len(r) = Len(s) + 2
      /\ r[1].block = 0 /\ r[1].caption = l[1].caption
      /\ r[1].selected = (l[1].selected /\ s # <<>>)
      /\ r[Len(r)].block = t /\ ~r[Len(r)].selected
      /\ \A i \in 1 .. Len(s) : r[i + 1] = s[i]
  BY <1>2, <1>3, EndFittedIs
<1>7. /\ r[n].selected \in BOOLEAN /\ k[n].selected \in BOOLEAN /\ Len(r) = n
  <2>1. Len(r) = n
    BY <1>2, <1>5, <1>6
  <2>2. n \in 1 .. Len(r) /\ n \in 1 .. Len(k)
    BY <1>1, <1>2, <2>1
  <2> QED BY <1>1, <1>6, <2>1, <2>2, ElementOfSeq, MarkerFields
<1>8. n > 2 => s # <<>>
  BY <1>2, <1>5
<1>9. l[1].selected \in BOOLEAN
  BY <1>2, ElementOfSeq, MarkerFields
<1> HIDE DEF s, n, t
<1>10. ASSUME NEW i \in 1 .. n
       PROVE  /\ r[i].block = k[i].block
              /\ n > 2 => r[i].selected = k[i].selected
              /\ CutFileMode # "inf" /\ i < n => r[i].caption = k[i].caption
  <2>0. /\ l[i].block = k[i].block /\ l[i].selected = k[i].selected
        /\ CutFileMode # "inf" => l[i].caption = k[i].caption
    BY <1>10 DEF n
  <2>1. CASE i = 1
    <3>1. i # n
      BY <1>1, <1>2, <2>1
    <3>2. r[1].block = k[1].block /\ (CutFileMode # "inf" => r[1].caption = k[1].caption)
      BY <1>1, <1>6, <2>0, <2>1
    <3>3. n > 2 => r[1].selected = k[1].selected
      <4> SUFFICES ASSUME n > 2 PROVE r[1].selected = k[1].selected
        OBVIOUS
      <4>1. r[1].selected = l[1].selected
        BY <1>6, <1>8, <1>9, Zenon
      <4> QED BY <2>0, <2>1, <4>1
    <3> QED BY <2>1, <3>2, <3>3
  <2>2. CASE i = n
    <3>1. r[n].block = k[n].block /\ r[n].selected = k[n].selected
      BY <1>1, <1>6, <1>7, Zenon
    <3>2. ~(n < n)
      BY <1>2
    <3> QED BY <2>2, <3>1, <3>2
  <2>3. CASE i # 1 /\ i # n
    <3>1. i - 1 \in 1 .. n - 2 /\ (i - 1) + 1 = i /\ i - 1 \in 1 .. Len(s)
      BY <1>1, <1>2, <1>5, <2>3
    <3>2. r[i] = l[i]
      <4>1. r[(i - 1) + 1] = s[i - 1] /\ s[i - 1] = l[(i - 1) + 1]
        BY <1>5, <1>6, <3>1
      <4> QED BY <3>1, <4>1
    <3> QED BY <2>0, <3>2
  <2> QED BY <2>1, <2>2, <2>3
<1>11. DOMAIN r = 1 .. n
  BY <1>6, <1>7
<1>12. /\ Len(r) = Len(k)
       /\ \A i \in DOMAIN r :
            /\ r[i].block = k[i].block
            /\ Len(r) > 2 => r[i].selected = k[i].selected
            /\ CutFileMode # "inf" /\ i < Len(r) => r[i].caption = k[i].caption
  <2>1. Len(r) = n /\ n = Len(k)
    BY <1>7 DEF n
  <2> QED BY <1>10, <1>11, <2>1, Zenon
<1> QED
  BY <1>12 DEF SameList

-----------------------------------------------------------------------------
(* The import by time stamps.                                              *)

\* The time stamp for a marker is not in front of the one the search starts from.
LEMMA StampForwards ==
  ASSUME NEW v \in Versions, NEW t \in Int, NEW from \in 1 .. Len(Nav[v]),
         ~(t <= Nav[v][from].time)
  PROVE  StampFor(v, t, from) \in from .. Len(Nav[v])
<1> DEFINE nav == Nav[v]
           n == Len(nav)
           at == {i \in from .. n : nav[i].time >= t \/ i = n}
           hit == CHOOSE i \in at : \A j \in at : i <= j
<1>1. /\ n \in Nat /\ \A i \in 1 .. n : nav[i].time \in Nat
  <2>1. nav \in Seq([block : Nat, time : Nat])
    BY NavAssumption
  <2> HIDE DEF nav
  <2>2. Len(nav) \in Nat
    BY <2>1, LenProperties
  <2>3. \A i \in 1 .. Len(nav) : nav[i] \in [block : Nat, time : Nat]
    BY <2>1, ElementOfSeq
  <2> QED BY <2>1, <2>2, <2>3
<1>2. StampFor(v, t, from) = IF nav[hit].time > t THEN hit - 1 ELSE hit
  BY DEF StampFor
<1>3. at \subseteq Nat /\ n \in at /\ at \subseteq from .. n
  <2> HIDE DEF nav
  <2>1. n \in from .. n
    <3>1. n \in Nat /\ from \in 1 .. n
      BY <1>1 DEF nav
    <3> HIDE DEF n
    <3> QED BY <3>1
  <2>2. from .. n \subseteq Nat
    BY <1>1
  <2> HIDE DEF n
  <2> QED BY <2>1, <2>2
<1>4. hit \in at
  <2> HIDE DEF at
  <2>1. Min(at) \in at /\ \A j \in at : Min(at) <= j
    BY <1>3, MinIsLeast
  <2> QED BY <2>1
<1>5. hit \in from .. n /\ (nav[hit].time >= t \/ hit = n)
  BY <1>3, <1>4
<1> HIDE DEF hit, at, n, nav
<1>6. ~(t <= nav[from].time) /\ from \in 1 .. n
  BY DEF n, nav
<1>7. nav[hit].time > t => hit # from
  <2>1. nav[from].time \in Nat
    BY <1>1, <1>6
  <2> QED BY <1>6, <2>1
<1>8. StampFor(v, t, from) \in from .. n
  BY <1>1, <1>2, <1>5, <1>6, <1>7
<1> QED
  BY <1>8 DEF n, nav

\* What ImportMarker goes through: the markers kept are in order up to the stamp found.
Importing(v) ==
  {acc \in [kept : Seq(Marker), cur : 1 .. Len(Nav[v]), off : Int] :
     /\ \A i, j \in 1 .. Len(acc.kept) : i < j => acc.kept[i].block <= acc.kept[j].block
     /\ \A i \in 1 .. Len(acc.kept) : acc.kept[i].block <= Nav[v][acc.cur].block}

LEMMA ImportMarkerIs ==
  ASSUME NEW v \in Versions, NEW a \in Area, NEW acc \in Importing(v), NEW m \in Marker,
         NEW r, r = ImportMarker(acc, m, v, a)
  PROVE  r \in Importing(v) /\ Len(r.kept) <= Len(acc.kept) + 1
<1> DEFINE nav == Nav[v]
           off == IF acc.kept = <<>> /\ a.nr > 0 THEN Time(v, a.slot[0].num) - m.time ELSE acc.off
           t == m.time + off
           i == StampFor(v, t, acc.cur)
           put == [m EXCEPT !.block = nav[i].block, !.time = nav[i].time]
<1>1. /\ acc = [kept |-> acc.kept, cur |-> acc.cur, off |-> acc.off]
      /\ acc.kept \in Seq(Marker) /\ acc.cur \in 1 .. Len(nav) /\ acc.off \in Int
      /\ \A p, q \in 1 .. Len(acc.kept) : p < q => acc.kept[p].block <= acc.kept[q].block
      /\ \A p \in 1 .. Len(acc.kept) : acc.kept[p].block <= nav[acc.cur].block
      /\ Len(acc.kept) \in Nat
  BY LenProperties DEF Importing
<1>2. off \in Int /\ t \in Int
  <2>1. a.slot[0].num \in Nat
    <3>1. 0 \in Slots
      BY Sizes DEF Slots
    <3>2. a.slot[0] \in Dword
      BY <3>1 DEF Area
    <3> QED BY <3>2 DEF Dword
  <2>2. Time(v, a.slot[0].num) \in Nat
    BY <2>1, TimeIsNat
  <2>3. m.time \in Nat
    BY MarkerFields
  <2>4. off \in Int
    BY <1>1, <2>2, <2>3
  <2> HIDE DEF off
  <2> QED BY <2>3, <2>4
<1>3. r = IF t <= nav[acc.cur].time \/ acc.cur >= Len(nav) THEN [acc EXCEPT !.off = off]
          ELSE IF nav[i].block < Total[v]
            THEN [kept |-> Append(acc.kept, put), cur |-> i, off |-> off]
          ELSE [acc EXCEPT !.off = off, !.cur = i]
  BY DEF ImportMarker
<1>4. /\ Len(nav) \in Nat
      /\ \A p \in 1 .. Len(nav) : nav[p].block \in Nat /\ nav[p].time \in Nat
      /\ \A p, q \in 1 .. Len(nav) : p <= q => nav[p].block <= nav[q].block
  <2>1. /\ nav \in Seq([block : Nat, time : Nat])
        /\ \A p, q \in DOMAIN nav : p <= q => nav[p].block <= nav[q].block
    BY NavAssumption
  <2> HIDE DEF nav
  <2>2. Len(nav) \in Nat /\ DOMAIN nav = 1 .. Len(nav)
    BY <2>1, LenProperties
  <2>3. \A p \in 1 .. Len(nav) : nav[p] \in [block : Nat, time : Nat]
    BY <2>1, ElementOfSeq
  <2> QED BY <2>1, <2>2, <2>3
<1> DEFINE kept == acc.kept
<1>5. ~(t <= nav[acc.cur].time) => i \in acc.cur .. Len(nav)
  BY <1>1, <1>2, StampForwards
<1>6. \A p \in 1 .. Len(kept) : kept[p].block \in Nat
  BY <1>1, ElementOfSeq, MarkerFields
<1> HIDE DEF off, t, i
<1>7. CASE t <= nav[acc.cur].time \/ acc.cur >= Len(nav)
  <2>1. r = [kept |-> kept, cur |-> acc.cur, off |-> off]
    BY <1>1, <1>3, <1>7
  <2> QED BY <1>1, <1>2, <2>1 DEF Importing
<1>8. CASE ~(t <= nav[acc.cur].time \/ acc.cur >= Len(nav)) /\ nav[i].block < Total[v]
  <2>1. i \in 1 .. Len(nav) /\ acc.cur <= i /\ acc.cur \in 1 .. Len(nav)
    BY <1>1, <1>4, <1>5, <1>8
  <2>2. nav[i].block \in Nat /\ nav[i].time \in Nat /\ nav[acc.cur].block \in Nat
        /\ nav[acc.cur].block <= nav[i].block
    BY <1>4, <2>1
  <2>3. put \in Marker /\ put.block = nav[i].block
    <3> DEFINE x == nav[i].block
               y == nav[i].time
    <3> HIDE DEF x, y, nav
    <3>1. x \in Nat /\ y \in Nat
      BY <2>2 DEF x, y
    <3>2. [m EXCEPT !.block = x, !.time = y] \in Marker /\ [m EXCEPT !.block = x, !.time = y].block = x
      BY <3>1 DEF Marker
    <3> QED BY <3>2 DEF x, y
  <2> DEFINE new == Append(kept, put)
  <2>4. r = [kept |-> new, cur |-> i, off |-> off]
    BY <1>3, <1>8
  <2> HIDE DEF put
  <2>5. /\ new \in Seq(Marker) /\ Len(new) = Len(kept) + 1 /\ new[Len(kept) + 1] = put
        /\ \A p \in 1 .. Len(kept) : new[p] = kept[p]
    BY <1>1, <2>3, AppendProperties
  <2> HIDE DEF new, kept, nav
  <2>6. \A p \in 1 .. Len(kept) : kept[p].block <= put.block
    <3> TAKE p \in 1 .. Len(kept)
    <3>1. kept[p].block <= nav[acc.cur].block
      BY <1>1 DEF kept
    <3> QED BY <1>6, <2>2, <2>3, <3>1
  <2>7. \A p \in 1 .. Len(new) : p \in 1 .. Len(kept) \/ p = Len(kept) + 1
    BY <1>1, <2>5 DEF kept
  <2>8. \A p \in 1 .. Len(new) : new[p].block <= nav[i].block
    <3> TAKE p \in 1 .. Len(new)
    <3>1. CASE p \in 1 .. Len(kept)
      BY <2>3, <2>5, <2>6, <3>1
    <3>2. CASE p = Len(kept) + 1
      BY <2>2, <2>3, <2>5, <3>2
    <3> QED BY <2>7, <3>1, <3>2
  <2>9. ASSUME NEW p \in 1 .. Len(new), NEW q \in 1 .. Len(new), p < q
        PROVE  new[p].block <= new[q].block
    <3>1. CASE q \in 1 .. Len(kept)
      <4>1. p \in 1 .. Len(kept)
        BY <2>5, <2>7, <2>9, <3>1
      <4>2. kept[p].block <= kept[q].block
        BY <1>1, <2>9, <3>1, <4>1 DEF kept
      <4> QED BY <2>5, <3>1, <4>1, <4>2
    <3>2. CASE q = Len(kept) + 1
      BY <2>3, <2>5, <2>8, <3>2
    <3> QED BY <2>7, <3>1, <3>2
  <2>10. r \in Importing(v)
    <3>1. r \in [kept : Seq(Marker), cur : 1 .. Len(nav), off : Int]
      BY <1>2, <2>1, <2>4, <2>5
    <3>2. r.kept = new /\ r.cur = i
      BY <2>4
    <3> QED BY <2>8, <2>9, <3>1, <3>2 DEF Importing, nav
  <2>11. Len(r.kept) <= Len(kept) + 1
    BY <1>1, <2>4, <2>5 DEF kept
  <2> QED BY <2>10, <2>11 DEF kept
<1>9. CASE ~(t <= nav[acc.cur].time \/ acc.cur >= Len(nav)) /\ ~(nav[i].block < Total[v])
  <2>1. i \in 1 .. Len(nav) /\ acc.cur <= i /\ acc.cur \in 1 .. Len(nav)
    BY <1>1, <1>4, <1>5, <1>9
  <2>2. r = [kept |-> kept, cur |-> i, off |-> off]
    BY <1>1, <1>3, <1>9
  <2>3. nav[i].block \in Nat /\ nav[acc.cur].block \in Nat /\ nav[acc.cur].block <= nav[i].block
    BY <1>4, <2>1
  <2> HIDE DEF kept, nav
  <2>4. \A p \in 1 .. Len(kept) : kept[p].block <= nav[i].block
    <3> TAKE p \in 1 .. Len(kept)
    <3>1. kept[p].block <= nav[acc.cur].block
      BY <1>1 DEF kept
    <3> QED BY <1>6, <2>3, <3>1
  <2>5. r.kept = kept /\ r.cur = i /\ r \in [kept : Seq(Marker), cur : 1 .. Len(nav), off : Int]
    BY <1>1, <1>2, <2>1, <2>2 DEF kept
  <2>6. r \in Importing(v)
    BY <1>1, <2>4, <2>5 DEF Importing, nav, kept
  <2> QED BY <1>1, <2>5, <2>6 DEF kept
<1> QED
  BY <1>7, <1>8, <1>9

\* The import, marker by marker.
Imported(n, v, a) ==
  LET step(acc, m) == ImportMarker(acc, m, v, a)
  IN  FoldLeft(step, [kept |-> <<>>, cur |-> 1, off |-> 0], n)

LEMMA ImportWalk ==
  ASSUME NEW v \in Versions, NEW a \in Area, NEW n \in Seq(Marker), Nav[v] # <<>>,
         NEW x, x = Imported(n, v, a)
  PROVE  x \in Importing(v) /\ Len(x.kept) <= Len(n)
<1> DEFINE R == Importing(v)
           base == [kept |-> <<>>, cur |-> 1, off |-> 0]
           step(acc, m) == ImportMarker(acc, m, v, a)
           Fold(it) == it = [s \in SUBSET DOMAIN n |->
                               IF s = {} THEN base ELSE step(it[s \ {Max(s)}], n[Max(s)])]
           it == CHOOSE y : Fold(y)
           f == [p \in R \X Marker |-> step(p[1], p[2])]
<1>1. x = it[DOMAIN n]
  BY DEF Imported, FoldLeft, MapThenFoldSet
<1>2. /\ Len(n) \in Nat /\ DOMAIN n = 1 .. Len(n)
      /\ \A k \in 1 .. Len(n) : n[k] \in Marker
  BY LenProperties, ElementOfSeq
<1> HIDE DEF R
<1>3. \A acc \in R, m \in Marker : /\ step(acc, m) \in R /\ f[<<acc, m>>] = step(acc, m)
                                   /\ Len(step(acc, m).kept) <= Len(acc.kept) + 1
  <2> TAKE acc \in R, m \in Marker
  <2>1. step(acc, m) \in R /\ Len(step(acc, m).kept) <= Len(acc.kept) + 1
    BY ImportMarkerIs DEF R
  <2>2. f[<<acc, m>>] = step(acc, m)
    <3> HIDE DEF step
    <3> QED OBVIOUS
  <2> QED BY <2>1, <2>2
<1>4. f \in [R \X Marker -> R] /\ base \in R /\ Len(base.kept) = 0
  <2>1. f \in [R \X Marker -> R]
    <3>1. \A p \in R \X Marker : p[1] \in R /\ p[2] \in Marker
      OBVIOUS
    <3>2. \A p \in R \X Marker : step(p[1], p[2]) \in R
      BY <1>3, <3>1
    <3> HIDE DEF step
    <3> QED BY <3>2
  <2>2. base \in R
    <3>1. 1 \in 1 .. Len(Nav[v])
      <4>1. Nav[v] \in Seq([block : Nat, time : Nat])
        BY NavAssumption
      <4>2. Len(Nav[v]) \in Nat /\ Len(Nav[v]) # 0
        BY <4>1, EmptySeq, LenProperties
      <4> QED BY <4>2
    <3>2. base \in [kept : Seq(Marker), cur : 1 .. Len(Nav[v]), off : Int]
      BY <3>1
    <3>3. 1 .. Len(base.kept) = {}
      OBVIOUS
    <3> HIDE DEF base
    <3> QED BY <3>2, <3>3 DEF R, Importing
  <2> QED BY <2>1, <2>2
<1> HIDE DEF f, step, base
<1>5. PICK g \in [SUBSET DOMAIN n -> R] : Folding(g, f, base, n)
  BY <1>4, FoldExists
<1>6. \A s \in SUBSET DOMAIN n : s # {} => /\ Max(s) \in s /\ n[Max(s)] \in Marker
                                          /\ s \ {Max(s)} \in SUBSET DOMAIN n
  <2> TAKE s \in SUBSET DOMAIN n
  <2>1. s \in SUBSET (1 .. Len(n)) /\ Len(n) \in Nat
    BY <1>2
  <2>2. CASE Len(n) = 0
    BY <2>1, <2>2
  <2>3. CASE Len(n) # 0
    <3>1. s # {} => Max(s) \in s
      BY <2>1, <2>3, GreatestOfSubset
    <3> QED BY <1>2, <3>1
  <2> QED BY <2>2, <2>3
<1>7. Fold(g)
  <2>1. \A s \in SUBSET DOMAIN n :
          g[s] = IF s = {} THEN base ELSE step(g[s \ {Max(s)}], n[Max(s)])
    BY <1>3, <1>5, <1>6 DEF Folding
  <2> QED BY <2>1
<1>8. Fold(it)
  <2> HIDE DEF Fold
  <2> QED BY <1>7
<1>9. FoldingIn(it, R, f, base, n)
  <2>1. \A s \in SUBSET DOMAIN n :
          it[s] = IF s = {} THEN base ELSE step(it[s \ {Max(s)}], n[Max(s)])
    <3> HIDE DEF it
    <3> QED BY <1>8
  <2> HIDE DEF it
  <2> QED BY <1>3, <1>6, <2>1 DEF FoldingIn
<1> HIDE DEF it
<1>10. PICK h : Walk(h, it, R, f, base, n)
  BY <1>4, <1>9, FoldPath, Zenon
<1> DEFINE G == {k \in 0 .. Len(n) : Len(h[k].kept) <= k}
<1>11. \A k \in 0 .. Len(n) : k \in G
  <2>1. 0 \in G
    <3>1. h[0] = base
      BY <1>10 DEF Walk
    <3> QED BY <1>2, <1>4, <3>1
  <2>2. ASSUME NEW k \in 1 .. Len(n), k - 1 \in G PROVE k \in G
    <3>1. k - 1 \in 0 .. Len(n) /\ k \in 0 .. Len(n)
      <4> DEFINE len == Len(n)
      <4>1. len \in Nat /\ k \in 1 .. len
        BY <1>2
      <4> HIDE DEF len
      <4>2. k - 1 \in 0 .. len /\ k \in 0 .. len
        BY <4>1
      <4> QED BY <4>2 DEF len
    <3>2. h[k - 1] \in R /\ h[k] \in R /\ n[k] \in Marker
      BY <1>2, <1>10, <3>1 DEF Walk
    <3>3. h[k] = step(h[k - 1], n[k])
      BY <1>3, <1>10, <3>2 DEF Walk
    <3>4. Len(h[k].kept) <= Len(h[k - 1].kept) + 1
      BY <1>3, <3>2, <3>3
    <3>5. Len(h[k - 1].kept) \in Nat /\ Len(h[k].kept) \in Nat
      BY <3>2, LenProperties DEF R, Importing
    <3>6. Len(h[k - 1].kept) <= k - 1
      BY <2>2
    <3>7. Len(h[k].kept) <= k
      <4> DEFINE p == Len(h[k - 1].kept)
                 q == Len(h[k].kept)
      <4> HIDE DEF p, q
      <4>1. p \in Nat /\ q \in Nat /\ q <= p + 1 /\ p <= k - 1
        BY <3>4, <3>5, <3>6 DEF p, q
      <4>2. q <= k
        BY <4>1
      <4> QED BY <4>2 DEF q
    <3> QED BY <3>1, <3>7
  <2> HIDE DEF G
  <2> QED BY <1>2, <2>1, <2>2, Induction
<1>12. Len(n) \in 0 .. Len(n) /\ h[Len(n)] = x /\ h[Len(n)] \in R
  BY <1>1, <1>2, <1>10 DEF Walk
<1> QED
  BY <1>11, <1>12 DEF R

LEMMA ImportStorable ==
  ASSUME NEW v \in Versions, NEW a \in Area, NEW l, Storable(l), Len(l) > 2, Nav[v] # <<>>,
         NEW r, r = Import(l, v, a)
  PROVE  Storable(r)
<1> DEFINE n == SubSeq(l, 2, Len(l) - 1)
           x == Imported(n, v, a)
           k == x.kept
           t == Total[v]
           p == [l[1] EXCEPT !.block = 0, !.time = 0]
           q == [l[Len(l)] EXCEPT !.block = IF @ = t THEN 0 ELSE @]
<1>0. l \in Seq(Marker) /\ Len(l) \in Nat /\ Len(l) <= NRSEGMENTMARKER /\ 2 <= Len(l)
      /\ NRSEGMENTMARKER \in Nat
  BY LenProperties, Sizes DEF Storable
<1>1. r = <<p>> \o k \o <<q>>
  BY DEF Import, Imported
<1>2. n \in Seq(Marker) /\ Len(n) = Len(l) - 2
  BY <1>0, MiddleElements
<1>3. x \in Importing(v) /\ Len(k) <= Len(n)
  <2> HIDE DEF n
  <2> QED BY <1>2, ImportWalk
<1>4. /\ k \in Seq(Marker) /\ Len(k) \in Nat
      /\ \A i, j \in 1 .. Len(k) : i < j => k[i].block <= k[j].block
  <2> HIDE DEF x
  <2> QED BY <1>3, LenProperties DEF Importing
<1>5. p \in Marker /\ q \in Marker
  <2>1. l[1] \in Marker /\ l[Len(l)] \in Marker
    <3>1. 1 \in 1 .. Len(l) /\ Len(l) \in 1 .. Len(l)
      BY <1>0
    <3> QED BY <1>0, <3>1, ElementOfSeq
  <2> QED BY <2>1 DEF Marker
<1> HIDE DEF k, p, q, n, x, t
<1>6. /\ r \in Seq(Marker) /\ Len(r) = Len(k) + 2
      /\ \A i \in 1 .. Len(k) : r[i + 1] = k[i]
  BY <1>1, <1>4, <1>5, EndsElements
<1>7. Len(r) <= NRSEGMENTMARKER
  <2> DEFINE len == Len(l)
             c == Len(k)
  <2> HIDE DEF len, c
  <2>1. len \in Nat /\ c \in Nat /\ c <= len - 2 /\ len <= NRSEGMENTMARKER
    BY <1>0, <1>2, <1>3, <1>4 DEF len, c
  <2>2. c + 2 <= NRSEGMENTMARKER
    BY <1>0, <2>1
  <2> QED BY <1>6, <2>2 DEF c
<1>8. Middling(r)
  <2> SUFFICES ASSUME NEW i \in 2 .. Len(r) - 1, NEW j \in 2 .. Len(r) - 1, i < j
               PROVE  r[i].block <= r[j].block
    BY DEF Middling
  <2>1. /\ i - 1 \in 1 .. Len(k) /\ j - 1 \in 1 .. Len(k) /\ i - 1 < j - 1
        /\ (i - 1) + 1 = i /\ (j - 1) + 1 = j
    BY <1>4, <1>6
  <2>2. r[(i - 1) + 1] = k[i - 1] /\ r[(j - 1) + 1] = k[j - 1]
    BY <1>6, <2>1
  <2> QED BY <1>4, <2>1, <2>2
<1> QED
  BY <1>6, <1>7, <1>8 DEF Storable

\* What CutFileLoad takes over from a .cut file, whichever version it is of.
LEMMA FromFileStorable ==
  ASSUME NEW v \in Versions, NEW a \in Area, NEW f, Storable(f.list)
  PROVE  Storable(FromFile(f, v, a))
<1>1. Storable(<<>>)
  <2>1. <<>> \in Seq(Marker) /\ Len(<<>>) = 0 /\ NRSEGMENTMARKER \in Nat
    BY Sizes
  <2> QED BY <2>1 DEF Storable, Middling
<1>2. Len(f.list) > 2 /\ Nav[v] # <<>> => Storable(Import(f.list, v, a))
  BY ImportStorable
<1> QED
  BY <1>1, <1>2 DEF FromFile

-----------------------------------------------------------------------------
(* The lists in the bookmark area.                                         *)

LEMMA AreaShaped == ASSUME NEW a \in Area
                    PROVE  Shaped(a) /\ a.nr \in Nat /\ \A i \in Slots : a.slot[i] \in Dword
BY Sizes DEF Area, Shaped

\* The markers of a segment list are read from above the bookmarks.
LEMMA DecodedFrom ==
  ASSUME NEW a \in Area
  PROVE  /\ EndOf(a) \in {NRBOOKMARKS - 2, NRBOOKMARKS - 1}
         /\ EndOf(a) - 1 \in MaxBookmarks .. NRBOOKMARKS - 1
         /\ CodedNr(a) \in 0 .. NRSEGMENTMARKER
         /\ \A i \in 1 .. CodedNr(a) :
              /\ EndOf(a) - CodedNr(a) - (Words + 1) + i - 1 \in MaxBookmarks .. NRBOOKMARKS - 1
              /\ EndOf(a) - (Words + 1) + ((i - 1) \div WordBits) \in MaxBookmarks .. NRBOOKMARKS - 1
<1>1. /\ MaxBookmarks \in Nat /\ NRBOOKMARKS \in Nat /\ NRSEGMENTMARKER \in Nat
      /\ MaxBookmarks + NRSEGMENTMARKER + 7 <= NRBOOKMARKS /\ NRSEGMENTMARKER <= 128
  BY AreaAssumption, Sizes DEF Words
<1>2. EndOf(a) \in {NRBOOKMARKS - 2, NRBOOKMARKS - 1}
  BY DEF EndOf
<1> DEFINE e == EndOf(a)
           c == CodedNr(a)
<1> HIDE DEF e
<1>3. e \in {NRBOOKMARKS - 2, NRBOOKMARKS - 1}
  BY <1>2 DEF e
<1>4. e - 1 \in MaxBookmarks .. NRBOOKMARKS - 1 /\ e - 1 \in Slots
  BY <1>1, <1>3 DEF Slots
<1>5. c \in 0 .. NRSEGMENTMARKER
  <2>1. a.slot[e - 1].num \in Nat
    BY <1>4, AreaShaped DEF Dword
  <2> QED BY <1>1, <2>1 DEF CodedNr, e
<1> HIDE DEF c
<1>6. ASSUME NEW i \in 1 .. c
      PROVE  /\ e - c - (Words + 1) + i - 1 \in MaxBookmarks .. NRBOOKMARKS - 1
             /\ e - (Words + 1) + ((i - 1) \div WordBits) \in MaxBookmarks .. NRBOOKMARKS - 1
  <2>1. i - 1 \in 0 .. 127
    BY <1>1, <1>5
  <2>2. (i - 1) \div WordBits \in 0 .. 3
    BY <2>1, WordDivision DEF Words
  <2>3. e - c - (Words + 1) + i - 1 \in MaxBookmarks .. NRBOOKMARKS - 1
    BY <1>1, <1>3, <1>5 DEF Words
  <2> DEFINE w == (i - 1) \div WordBits
  <2> HIDE DEF w
  <2>4. e - (Words + 1) + w \in MaxBookmarks .. NRBOOKMARKS - 1
    <3>1. w \in 0 .. 3
      BY <2>2 DEF w
    <3> QED BY <1>1, <1>3, <3>1 DEF Words
  <2> QED BY <2>3, <2>4 DEF w
<1> QED
  BY <1>3, <1>4, <1>5, <1>6 DEF c, e

\* So they are the same in areas that differ in the bookmarks only.
LEMMA DecodeStable ==
  ASSUME NEW a \in Area, NEW b, NEW v,
         \A i \in MaxBookmarks .. NRBOOKMARKS - 1 : b.slot[i] = a.slot[i]
  PROVE  /\ Encoded(b) <=> Encoded(a)
         /\ CodedNr(b) = CodedNr(a) /\ CutDecodeFromBM(b, v) = CutDecodeFromBM(a, v)
<1>1. /\ MaxBookmarks \in Nat /\ NRBOOKMARKS \in Nat
      /\ NRBOOKMARKS - 2 \in MaxBookmarks .. NRBOOKMARKS - 1
      /\ NRBOOKMARKS - 1 \in MaxBookmarks .. NRBOOKMARKS - 1
  BY AreaAssumption, Sizes DEF Words
<1>2. /\ HasId(b, NRBOOKMARKS - 2) <=> HasId(a, NRBOOKMARKS - 2)
      /\ HasId(b, NRBOOKMARKS - 1) <=> HasId(a, NRBOOKMARKS - 1)
  BY <1>1 DEF HasId
<1>3. (Encoded(b) <=> Encoded(a)) /\ EndOf(b) = EndOf(a)
  BY <1>2 DEF Encoded, EndOf
<1>4. CodedNr(b) = CodedNr(a)
  BY <1>3, DecodedFrom DEF CodedNr
<1>5. CutDecodeFromBM(b, v) = CutDecodeFromBM(a, v)
  <2> DEFINE start == EndOf(a) - CodedNr(a) - (Words + 1)
             s(x, i) == x.slot[start + i - 1]
             w(x, i) == x.slot[EndOf(a) - (Words + 1) + ((i - 1) \div WordBits)]
             d(x, i) == [block    |-> s(x, i).num,
                         time     |-> IF i = 1 /\ s(x, i).num = 0 THEN 0 ELSE Time(v, s(x, i).num),
                         selected |-> (i - 1) % WordBits \in w(x, i).bits,
                         caption  |-> FALSE]
  <2>1. \A i \in 1 .. CodedNr(a) : s(b, i) = s(a, i) /\ w(b, i) = w(a, i)
    BY DecodedFrom
  <2>2. /\ CutDecodeFromBM(a, v) = [i \in 1 .. CodedNr(a) |-> d(a, i)]
        /\ CutDecodeFromBM(b, v) = [i \in 1 .. CodedNr(a) |-> d(b, i)]
    <3>1. CutDecodeFromBM(a, v) = [i \in 1 .. CodedNr(a) |-> d(a, i)]
      BY DEF CutDecodeFromBM
    <3>2. CutDecodeFromBM(b, v) = [i \in 1 .. CodedNr(a) |-> d(b, i)]
      BY <1>3, <1>4 DEF CutDecodeFromBM
    <3> QED BY <3>1, <3>2
  <2>3. \A i \in 1 .. CodedNr(a) : d(b, i) = d(a, i)
    <3> TAKE i \in 1 .. CodedNr(a)
    <3>1. s(b, i) = s(a, i) /\ w(b, i) = w(a, i)
      BY <2>1
    <3> HIDE DEF s, w
    <3> QED BY <3>1
  <2> HIDE DEF d
  <2> QED BY <2>2, <2>3
<1> QED
  BY <1>3, <1>4, <1>5

LEMMA DecodeTyped ==
  ASSUME NEW a \in Area, NEW v \in Versions, NEW d, d = CutDecodeFromBM(a, v)
  PROVE  d \in Seq(Marker) /\ Len(d) = CodedNr(a) /\ Len(d) <= NRSEGMENTMARKER
<1> DEFINE c == CodedNr(a)
<1>1. c \in Nat /\ c <= NRSEGMENTMARKER
  BY DecodedFrom, Sizes
<1>2. DOMAIN d = 1 .. c /\ d = [i \in 1 .. c |-> d[i]]
  BY DEF CutDecodeFromBM
<1>3. ASSUME NEW i \in 1 .. c PROVE d[i] \in Marker
  <2> DEFINE x == a.slot[EndOf(a) - CodedNr(a) - (Words + 1) + i - 1].num
             y == (i - 1) % WordBits
                    \in a.slot[EndOf(a) - (Words + 1) + ((i - 1) \div WordBits)].bits
             t == IF i = 1 /\ x = 0 THEN 0 ELSE Time(v, x)
  <2>1. d[i] = [block |-> x, time |-> t, selected |-> y, caption |-> FALSE]
    BY DEF CutDecodeFromBM
  <2>2. x \in Nat
    <3>1. EndOf(a) - CodedNr(a) - (Words + 1) + i - 1 \in MaxBookmarks .. NRBOOKMARKS - 1
      BY DecodedFrom
    <3>2. MaxBookmarks \in Nat /\ NRBOOKMARKS \in Nat
      BY AreaAssumption
    <3>3. EndOf(a) - CodedNr(a) - (Words + 1) + i - 1 \in Slots
      BY <3>1, <3>2 DEF Slots
    <3> QED BY <3>3, AreaShaped DEF Dword
  <2>3. t \in Nat
    BY <2>2, TimeIsNat
  <2>4. y \in BOOLEAN
    OBVIOUS
  <2> HIDE DEF x, y, t
  <2> QED BY <2>1, <2>2, <2>3, <2>4 DEF Marker
<1> HIDE DEF c
<1>4. d \in Seq(Marker)
  BY <1>1, <1>2, <1>3
<1>5. Len(d) = c
  BY <1>1, <1>2, <1>4
<1> QED
  BY <1>1, <1>4, <1>5 DEF c

\* What MovieCutter finds in an area is a list it can work with.
SoundArea(a) ==
  /\ a \in Area /\ a.nr <= MaxBookmarks
  /\ Encoded(a) => \A v \in Versions : Storable(CutDecodeFromBM(a, v))

LEMMA BlankSound == SoundArea(Blank)
<1>1. /\ NRBOOKMARKS - 2 \in Slots /\ NRBOOKMARKS - 1 \in Slots /\ TAPID # 0
      /\ MaxBookmarks \in Nat /\ NRBOOKMARKS \in Nat
  BY AreaAssumption, Sizes DEF Slots
<1>2. Num(0) \in Dword /\ Num(0).num = 0
  BY DEF Num, Dword
<1>3. Blank \in Area /\ Blank.nr <= MaxBookmarks
  BY <1>1, <1>2 DEF Blank, Area
<1>4. \A i \in Slots : Blank.slot[i].num = 0
  BY <1>2 DEF Blank
<1>5. ~Encoded(Blank)
  BY <1>1, <1>4 DEF Encoded, HasId
<1> QED
  BY <1>3, <1>5 DEF SoundArea

\* The bookmarks do not reach the segment list.
LEMMA OverwriteSound ==
  ASSUME NEW a, SoundArea(a), NEW n \in 0 .. MaxBookmarks, NEW s,
         \A i \in Slots : i < n => s[i] \in Dword,
         NEW b, b = Overwrite(a, s, n)
  PROVE  /\ SoundArea(b) /\ b.nr = n
         /\ \A i \in MaxBookmarks .. NRBOOKMARKS - 1 : b.slot[i] = a.slot[i]
<1> DEFINE t == [i \in Slots |-> IF i < n THEN s[i] ELSE a.slot[i]]
<1>1. b = [nr |-> n, slot |-> t] /\ b.nr = n /\ b.slot = t
  BY DEF Overwrite
<1>2. a \in Area /\ \A i \in Slots : a.slot[i] \in Dword
  BY AreaShaped DEF SoundArea
<1>3. MaxBookmarks \in Nat /\ NRBOOKMARKS \in Nat /\ MaxBookmarks <= NRBOOKMARKS
  BY AreaAssumption, Sizes DEF Words
<1>4. t \in [Slots -> Dword]
  BY <1>2
<1>5. \A i \in MaxBookmarks .. NRBOOKMARKS - 1 : t[i] = a.slot[i]
  <2>1. \A i \in MaxBookmarks .. NRBOOKMARKS - 1 : i \in Slots /\ ~(i < n)
    BY <1>3 DEF Slots
  <2> QED BY <2>1
<1> HIDE DEF t
<1>6. b \in Area /\ b.nr <= MaxBookmarks
  BY <1>1, <1>3, <1>4 DEF Area
<1>7. \A i \in MaxBookmarks .. NRBOOKMARKS - 1 : b.slot[i] = a.slot[i]
  BY <1>1, <1>5
<1>8. ASSUME Encoded(b), NEW v \in Versions PROVE Storable(CutDecodeFromBM(b, v))
  <2>1. Encoded(a) /\ CutDecodeFromBM(b, v) = CutDecodeFromBM(a, v)
    BY <1>2, <1>7, <1>8, DecodeStable
  <2> QED BY <2>1 DEF SoundArea
<1> QED
  BY <1>1, <1>6, <1>7, <1>8 DEF SoundArea

LEMMA NumTyped == \A n \in Nat : Num(n) \in Dword /\ Num(n).num = n
BY DEF Num, Dword

LEMMA BookmarkedSound ==
  ASSUME NEW a, SoundArea(a), NEW v \in Versions, NEW s \in UserBookmarks[v],
         NEW b, b = Bookmarked(a, s)
  PROVE  /\ SoundArea(b) /\ b.nr = Len(s) /\ Len(s) \in 0 .. MaxBookmarks
         /\ \A i \in MaxBookmarks .. NRBOOKMARKS - 1 : b.slot[i] = a.slot[i]
<1> DEFINE t == [i \in Slots |-> IF i < Len(s) THEN Num(s[i + 1]) ELSE Num(0)]
<1>1. s \in Seq(Nat) /\ Len(s) <= MaxBookmarks
  BY UserAssumption
<1>2. MaxBookmarks \in Nat /\ Len(s) \in 0 .. MaxBookmarks
  BY <1>1, AreaAssumption, LenProperties
<1>3. \A i \in Slots : t[i] \in Dword
  <2> TAKE i \in Slots
  <2>1. CASE i < Len(s)
    <3>1. i + 1 \in 1 .. Len(s)
      BY <1>2, <2>1, Sizes DEF Slots
    <3>2. s[i + 1] \in Nat
      BY <1>1, <3>1, ElementOfSeq
    <3> QED BY <2>1, <3>2, NumTyped
  <2>2. CASE ~(i < Len(s))
    BY <2>2, NumTyped
  <2> QED BY <2>1, <2>2
<1>4. b = Overwrite(a, t, Len(s))
  BY DEF Bookmarked
<1> HIDE DEF t
<1> QED
  BY <1>2, <1>3, <1>4, OverwriteSound

\* CutEncodeToBM puts a list that fits there, and clears what was there otherwise.
Holds(a, l) ==
  /\ Encoded(a) /\ CodedNr(a) = Len(l)
  /\ \A v \in Versions : \A i \in 1 .. Len(l) :
       /\ CutDecodeFromBM(a, v)[i].block = l[i].block
       /\ CutDecodeFromBM(a, v)[i].selected = l[i].selected

LEMMA BehindTyped ==
  ASSUME NEW l \in Seq(Marker), NEW end \in Int, NEW i \in Int
  PROVE  Behind(l, end, i) \in Dword
<1> DEFINE start == end - Len(l) - (Words + 1)
<1>1. Len(l) \in Nat /\ start \in Int
  BY LenProperties DEF Words
<1>2. CASE i \in start .. start + Len(l) - 1
  <2>1. i - start + 1 \in 1 .. Len(l)
    <3> DEFINE len == Len(l)
    <3> HIDE DEF start, len
    <3>1. len \in Nat /\ start \in Int /\ i \in start .. start + len - 1
      BY <1>1, <1>2 DEF len
    <3>2. i - start + 1 \in 1 .. len
      BY <3>1
    <3> QED BY <3>2 DEF len
  <2>2. l[i - start + 1].block \in Nat
    BY <2>1, ElementOfSeq, MarkerFields
  <2>4. i \notin end - (Words + 1) .. end - 2 /\ i # end - 1 /\ i # end
    <3> DEFINE len == Len(l)
    <3> HIDE DEF len
    <3>1. len \in Nat /\ i \in end - len - 5 .. (end - len - 5) + len - 1
      BY <1>1, <1>2 DEF len, Words
    <3>2. i \notin end - 5 .. end - 2 /\ i # end - 1 /\ i # end
      BY <3>1
    <3> QED BY <3>2 DEF Words
  <2>3. Behind(l, end, i) = Num(l[i - start + 1].block)
    BY <1>2, <2>4 DEF Behind
  <2> HIDE DEF start
  <2> QED BY <2>2, <2>3, NumTyped
<1>3. CASE i \notin start .. start + Len(l) - 1 /\ i \in end - (Words + 1) .. end - 2
  <2>0. i # end - 1 /\ i # end
    BY <1>3 DEF Words
  <2>1. Behind(l, end, i) = [num |-> 0, bits |-> Selection(l, i - (end - (Words + 1)))]
    BY <1>3, <2>0 DEF Behind
  <2>2. Selection(l, i - (end - (Words + 1))) \subseteq 0 .. WordBits - 1
    BY DEF Selection
  <2> QED BY <2>1, <2>2 DEF Dword
<1>4. CASE /\ i \notin start .. start + Len(l) - 1 /\ i \notin end - (Words + 1) .. end - 2
           /\ i = end - 1
  <2>1. Behind(l, end, i) = Num(Len(l))
    BY <1>4 DEF Behind
  <2> QED BY <1>1, <2>1, NumTyped
<1>5. CASE /\ i \notin start .. start + Len(l) - 1 /\ i \notin end - (Words + 1) .. end - 2
           /\ i # end - 1 /\ i = end
  <2>1. Behind(l, end, i) = Num(TAPID)
    BY <1>5 DEF Behind
  <2> QED BY <2>1, NumTyped, Sizes
<1>6. CASE /\ i \notin start .. start + Len(l) - 1 /\ i \notin end - (Words + 1) .. end - 2
           /\ i # end - 1 /\ i # end
  <2>1. Behind(l, end, i) = Num(0)
    BY <1>6 DEF Behind
  <2> QED BY <2>1, NumTyped
<1> QED
  BY <1>2, <1>3, <1>4, <1>5, <1>6

LEMMA EncodeSound ==
  ASSUME NEW a, SoundArea(a), NEW u \in Versions, NEW l, Proper(l, u),
         NEW end \in {NRBOOKMARKS - 1, NRBOOKMARKS - 2}, NEW b, b = CutEncodeToBM(l, a, end)
  PROVE  /\ SoundArea(b) /\ HasRoom(l, a, end)
         /\ Encodable(l, a, end) => Holds(b, l)
         /\ ~Encodable(l, a, end) => ~Encoded(b)
<1> DEFINE s == [i \in Slots |->
                   IF i < a.nr THEN a.slot[i]
                   ELSE IF Encodable(l, a, end) THEN Behind(l, end, i) ELSE Num(0)]
<1>1. /\ a \in Area /\ Shaped(a) /\ a.nr \in Nat /\ a.nr <= MaxBookmarks
      /\ \A i \in Slots : a.slot[i] \in Dword
  BY AreaShaped DEF SoundArea
<1>2. l \in Seq(Marker) /\ Len(l) \in Nat /\ Len(l) <= NRSEGMENTMARKER
  BY LenProperties DEF Proper
<1>3. /\ MaxBookmarks \in Nat /\ NRBOOKMARKS \in Nat /\ NRSEGMENTMARKER \in Nat
      /\ MaxBookmarks + NRSEGMENTMARKER + 7 <= NRBOOKMARKS /\ end \in Int
  BY AreaAssumption, Sizes DEF Words
<1>4. b = [nr |-> a.nr, slot |-> s] /\ b.nr = a.nr /\ b.slot = s
  <2>1. a = [nr |-> a.nr, slot |-> a.slot]
    BY <1>1 DEF Shaped
  <2>2. b = [a EXCEPT !.slot = s]
    BY DEF CutEncodeToBM
  <2> HIDE DEF s
  <2>3. [[nr |-> a.nr, slot |-> a.slot] EXCEPT !.slot = s] = [nr |-> a.nr, slot |-> s]
    OBVIOUS
  <2> QED BY <2>1, <2>2, <2>3
<1>5. HasRoom(l, a, end)
  <2> DEFINE len == Len(l)
  <2> HIDE DEF len
  <2>1. end - len - 5 >= a.nr
    <3>1. len \in Nat /\ len <= NRSEGMENTMARKER
      BY <1>2 DEF len
    <3>2. a.nr \in Nat /\ a.nr <= MaxBookmarks
      BY <1>1
    <3>3. end \in Int /\ end >= NRBOOKMARKS - 2
      BY <1>3
    <3> DEFINE x == a.nr
    <3> HIDE DEF x
    <3>4. x \in Nat /\ x <= MaxBookmarks
      BY <3>2 DEF x
    <3>5. end - len - 5 >= x
      BY <1>3, <3>1, <3>3, <3>4
    <3> QED BY <3>5 DEF x
  <2> QED BY <2>1 DEF HasRoom, Words, len
<1>6. s \in [Slots -> Dword]
  <2>1. \A i \in Slots : Behind(l, end, i) \in Dword /\ Num(0) \in Dword
    BY <1>2, <1>3, BehindTyped, NumTyped DEF Slots
  <2>2. \A i \in Slots : s[i] \in Dword
    BY <1>1, <2>1
  <2> QED BY <2>2
<1>7. b \in Area /\ b.nr <= MaxBookmarks
  <2> HIDE DEF s
  <2>1. a.nr \in 0 .. NRBOOKMARKS
    BY <1>1 DEF Shaped
  <2> QED BY <1>1, <1>4, <1>6, <2>1 DEF Area
<1>8. Encodable(l, a, end) => Holds(b, l)
  BY <1>1, <1>2, RoundTrip, SMTT(30) DEF Holds
<1>9. ~Encodable(l, a, end) => ~Encoded(b)
  <2> SUFFICES ASSUME ~Encodable(l, a, end) PROVE ~Encoded(b)
    OBVIOUS
  <2>1. \A i \in {NRBOOKMARKS - 1, NRBOOKMARKS - 2} : i \in Slots /\ ~(i < a.nr)
    BY <1>1, <1>3 DEF Slots
  <2>2. \A i \in {NRBOOKMARKS - 1, NRBOOKMARKS - 2} : s[i] = Num(0)
    BY <2>1
  <2>3. \A i \in {NRBOOKMARKS - 1, NRBOOKMARKS - 2} : b.slot[i].num # TAPID
    <3>1. Num(0).num # TAPID
      BY NumTyped, Sizes
    <3> HIDE DEF s
    <3> QED BY <1>4, <2>2, <3>1
  <2> QED BY <2>3 DEF Encoded, HasId
<1> HIDE DEF s
<1>10. ASSUME Encoded(b), NEW v \in Versions PROVE Storable(CutDecodeFromBM(b, v))
  <2> DEFINE d == CutDecodeFromBM(b, v)
  <2>1. Holds(b, l)
    BY <1>8, <1>9, <1>10
  <2>2. d \in Seq(Marker) /\ Len(d) <= NRSEGMENTMARKER /\ Len(d) = Len(l)
    BY <1>7, <2>1, DecodeTyped DEF Holds
  <2>3. \A i \in 1 .. Len(l) : d[i].block = l[i].block
    BY <2>1 DEF Holds
  <2> HIDE DEF d
  <2>4. Middling(d)
    <3> SUFFICES ASSUME NEW i \in 2 .. Len(d) - 1, NEW j \in 2 .. Len(d) - 1, i < j
                 PROVE  d[i].block <= d[j].block
      BY DEF Middling
    <3>1. i \in 1 .. Len(l) /\ j \in 1 .. Len(l)
      BY <1>2, <2>2
    <3>2. l[i].block <= l[j].block
      <4>1. i \in DOMAIN l /\ j \in DOMAIN l
        BY <1>2, <3>1
      <4> QED BY <4>1 DEF Proper
    <3> QED BY <2>3, <3>1, <3>2
  <2>5. Storable(d)
    BY <2>2, <2>4 DEF Storable
  <2> QED BY <2>5 DEF d
<1> QED
  BY <1>5, <1>7, <1>8, <1>9, <1>10 DEF SoundArea

-----------------------------------------------------------------------------
(* Every list is a proper one.                                             *)

\* CutFiles and areas hold lists the editing core can work with, in every state.
Typed ==
  /\ CutFileMode \in {"both", "cut", "inf"} /\ tmsc \in BOOLEAN
  /\ version \in [Recs -> Versions] /\ replaced \in 0 .. MaxReplace
  /\ play \in Recs \cup {None}
  /\ osd \in {"off", "shown", "hidden"}
AreasSound == /\ SoundArea(bm) /\ SoundArea(cache)
              /\ inf = [r \in Recs |-> inf[r]] /\ \A r \in Recs : SoundArea(inf[r])
Filed(f) == f = [size |-> f.size, list |-> f.list, ok |-> f.ok] /\ Storable(f.list)
FilesSound == /\ cut = [r \in Recs |-> cut[r]]
              /\ \A r \in Recs : cut[r] # None => Storable(cut[r].list)
              /\ saving # None => saving.rec \in Recs /\ Filed(saving.file)
ListSound == IF osd = "off" THEN list = <<>>
                            ELSE play \in Recs /\ Proper(list, version[play])
ProperInv == Typed /\ AreasSound /\ FilesSound /\ ListSound

LEMMA EmptyStorable == Storable(<<>>)
<1>1. <<>> \in Seq(Marker) /\ Len(<<>>) = 0 /\ NRSEGMENTMARKER \in Nat
  BY Sizes
<1> QED BY <1>1 DEF Storable, Middling

LEMMA ProperStorable == ASSUME NEW l, NEW v, Proper(l, v) PROVE Storable(l)
<1>1. \A i \in 2 .. Len(l) - 1 : i \in DOMAIN l
  BY DEF Proper
<1> QED BY <1>1 DEF Proper, Storable, Middling

LEMMA PartStorable ==
  ASSUME NEW l, Storable(l), NEW n \in 0 .. Len(l) PROVE Storable(SubSeq(l, 1, n))
<1> DEFINE s == SubSeq(l, 1, n)
<1>1. l \in Seq(Marker) /\ Len(l) \in Nat /\ Len(l) <= NRSEGMENTMARKER /\ NRSEGMENTMARKER \in Nat
  BY LenProperties, Sizes DEF Storable
<1>2. n + 1 \in 1 .. Len(l) + 1 /\ (n + 1) - 1 = n
  <2> DEFINE len == Len(l)
  <2> HIDE DEF len
  <2>1. len \in Nat /\ n \in 0 .. len
    BY <1>1 DEF len
  <2>2. n + 1 \in 1 .. len + 1 /\ (n + 1) - 1 = n
    BY <2>1
  <2> QED BY <2>2 DEF len
<1>3. s \in Seq(Marker) /\ Len(s) = n /\ \A k \in 1 .. n : s[k] = l[k]
  BY <1>1, <1>2, FrontElements
<1> HIDE DEF s
<1>4. Middling(s)
  <2> SUFFICES ASSUME NEW i \in 2 .. Len(s) - 1, NEW j \in 2 .. Len(s) - 1, i < j
               PROVE  s[i].block <= s[j].block
    BY DEF Middling
  <2>1. i \in 2 .. Len(l) - 1 /\ j \in 2 .. Len(l) - 1 /\ i \in 1 .. n /\ j \in 1 .. n
    BY <1>1, <1>3
  <2> QED BY <1>3, <2>1 DEF Storable, Middling
<1>5. Len(s) <= NRSEGMENTMARKER
  BY <1>1, <1>3
<1> QED
  BY <1>3, <1>4, <1>5 DEF Storable, s

LEMMA EndIsOne == End \in {NRBOOKMARKS - 1, NRBOOKMARKS - 2}
BY DEF End

\* A file that is written.
LEMMA FileFiled ==
  ASSUME NEW v, NEW l, Storable(l)
  PROVE  Filed(File(v, l)) /\ File(v, l).list = l /\ Unreadable.list = <<>>
BY DEF Filed, File, Unreadable

LEMMA SaveFiles ==
  ASSUME NEW r \in Recs, FilesSound, CutFileSave(r), NEW v, Proper(list, v)
  PROVE  FilesSound'
<1>1. Storable(list)
  BY ProperStorable
<1>2. CASE Worth
  <2> DEFINE f == File(version[r], list)
  <2>1. cut' = [cut EXCEPT ![r] = Unreadable] /\ saving' = [rec |-> r, file |-> f]
    BY <1>2 DEF CutFileSave
  <2>2. Filed(f) /\ Unreadable.list = <<>>
    BY <1>1, FileFiled
  <2> HIDE DEF f
  <2>3. saving'.rec = r /\ saving'.file = f
    BY <2>1
  <2>4. cut' = [q \in Recs |-> cut'[q]]
        /\ \A q \in Recs : cut'[q] # None => Storable(cut'[q].list)
    <3>1. cut = [q \in Recs |-> cut[q]] /\ \A q \in Recs : cut[q] # None => Storable(cut[q].list)
      BY DEF FilesSound
    <3>2. Storable(Unreadable.list)
      BY <2>2, EmptyStorable
    <3>3. cut'[r] = Unreadable /\ \A q \in Recs \ {r} : cut'[q] = cut[q]
      BY <2>1, <3>1
    <3>4. cut' = [q \in Recs |-> cut'[q]]
      BY <2>1, <3>1
    <3> QED BY <3>1, <3>2, <3>3, <3>4
  <2> QED BY <2>2, <2>3, <2>4 DEF FilesSound
<1>3. CASE ~Worth
  <2>1. cut' = [cut EXCEPT ![r] = None] /\ saving' = saving
    BY <1>3 DEF CutFileSave, DropFile
  <2>2. cut' = [q \in Recs |-> cut'[q]]
        /\ \A q \in Recs : cut'[q] # None => Storable(cut'[q].list)
    <3>1. cut = [q \in Recs |-> cut[q]] /\ \A q \in Recs : cut[q] # None => Storable(cut[q].list)
      BY DEF FilesSound
    <3>3. cut'[r] = None /\ \A q \in Recs \ {r} : cut'[q] = cut[q]
      BY <2>1, <3>1
    <3>4. cut' = [q \in Recs |-> cut'[q]]
      BY <2>1, <3>1
    <3> QED BY <3>1, <3>3, <3>4
  <2> QED BY <2>1, <2>2 DEF FilesSound
<1> QED
  BY <1>2, <1>3

LEMMA ProperInit == Init => ProperInv
<1> SUFFICES ASSUME Init PROVE ProperInv
  OBVIOUS
<1>1. Typed
  BY AreaAssumption DEF Init, Typed
<1>2. AreasSound
  BY BlankSound DEF Init, AreasSound
<1>3. FilesSound
  BY DEF Init, FilesSound
<1>4. ListSound
  BY DEF Init, ListSound
<1> QED
  BY <1>1, <1>2, <1>3, <1>4 DEF ProperInv

\* What ReadBookmarks brings is an area.
LEMMA ReadSound == ASSUME AreasSound, ReadBookmarks, Typed, play # None
                   PROVE  SoundArea(bm')
<1>1. CASE play \in Media
  <2>1. bm' = [bm EXCEPT !.nr = 0]
    BY <1>1 DEF ReadBookmarks
  <2>2. bm \in Area /\ Shaped(bm)
    BY AreaShaped DEF AreasSound, SoundArea
  <2>3. bm' = [nr |-> 0, slot |-> bm.slot]
    BY <2>1, <2>2 DEF Shaped
  <2>4. bm' \in Area /\ bm'.nr = 0 /\ bm'.slot = bm.slot
    BY <2>2, <2>3, Sizes DEF Area
  <2>5. MaxBookmarks \in Nat
    BY AreaAssumption
  <2>6. ASSUME Encoded(bm'), NEW v \in Versions PROVE Storable(CutDecodeFromBM(bm', v))
    <3>1. Encoded(bm) /\ CutDecodeFromBM(bm', v) = CutDecodeFromBM(bm, v)
      BY <2>2, <2>4, <2>6, DecodeStable
    <3> QED BY <3>1 DEF AreasSound, SoundArea
  <2> QED BY <2>1, <2>4, <2>5, <2>6 DEF SoundArea, Typed
<1>2. CASE play \notin Media
  BY <1>2 DEF ReadBookmarks, AreasSound, Typed
<1> QED
  BY <1>1, <1>2

LEMMA ProperNext == ProperInv /\ [Next]_vars => ProperInv'
<1> SUFFICES ASSUME ProperInv, [Next]_vars PROVE ProperInv'
  OBVIOUS
<1>0. Typed /\ AreasSound /\ FilesSound /\ ListSound
  BY DEF ProperInv
<1> USE NoneAssumption
<1>1. ASSUME NEW r \in Recs, StartPlayback(r) PROVE ProperInv'
  <2>1. Typed' /\ AreasSound' /\ FilesSound'
    BY <1>0, <1>1 DEF StartPlayback, Typed, AreasSound, FilesSound, outside, files, memory
  <2>2. ListSound'
    BY <1>0, <1>1 DEF StartPlayback, ListSound, memory
  <2> QED BY <2>1, <2>2 DEF ProperInv
<1>2. CASE Accept
  <2>1. /\ play \in Recs /\ osd' = "shown" /\ ReadBookmarks /\ CutFileLoad(cut[play], version[play])
        /\ UNCHANGED <<outside, files, player, saving, behind, own>>
    BY <1>0, <1>2 DEF Accept, Typed
  <2>2. SoundArea(bm')
    BY <1>0, <2>1, ReadSound
  <2> DEFINE v == version[play]
             f == cut[play]
  <2>3. v \in Versions /\ bm' \in Area
    BY <1>0, <2>1, <2>2 DEF Typed, SoundArea
  <2>4. Proper(list', v)
    <3>1. CASE f # None /\ f.ok
      <4>1. list' = Normalised(FromFile(f, v, bm'), v)
        BY <2>1, <3>1 DEF CutFileLoad
      <4>2. Storable(f.list)
        BY <1>0, <2>1, <3>1 DEF FilesSound
      <4> HIDE DEF f, v
      <4>3. Storable(FromFile(f, v, bm'))
        BY <2>3, <4>2, FromFileStorable
      <4> QED BY <2>1, <2>3, <4>1, <4>3, NormalisedProper
    <3>2. CASE ~(f # None /\ f.ok) /\ CutFileMode # "cut" /\ Encoded(bm')
      <4>1. list' = Normalised(CutDecodeFromBM(bm', v), v)
        BY <2>1, <3>2 DEF CutFileLoad
      <4>2. Storable(CutDecodeFromBM(bm', v))
        BY <2>2, <2>3, <3>2 DEF SoundArea
      <4> HIDE DEF f, v
      <4> QED BY <2>2, <2>3, <4>1, <4>2, NormalisedProper
    <3>3. CASE ~(f # None /\ f.ok) /\ ~(CutFileMode # "cut" /\ Encoded(bm'))
      <4>1. list' = Default(v)
        BY <2>1, <3>3 DEF CutFileLoad
      <4>2. Len(<<>>) < 2
        OBVIOUS
      <4>3. list' = Normalised(<<>>, v)
        BY <4>1, <4>2 DEF Normalised
      <4> HIDE DEF f, v
      <4> QED BY <2>1, <2>3, <4>1, <4>3, EmptyStorable, NormalisedProper
    <3> QED BY <3>1, <3>2, <3>3
  <2>5. Typed' /\ AreasSound' /\ FilesSound'
    BY <1>0, <2>1, <2>2, <2>4 DEF Typed, AreasSound, FilesSound, outside, files, player
  <2>6. ListSound'
    BY <2>1, <2>4 DEF ListSound, outside, player
  <2> QED BY <2>5, <2>6 DEF ProperInv
<1>3. CASE Edit
  <2>1. play \in Recs /\ osd' = "shown" /\ list' \in UserLists[version[play]]
        /\ UNCHANGED <<outside, files, player, osd, bm, saving, behind, own>>
    BY <1>0, <1>3 DEF Edit, Typed
  <2>2. version[play] \in Versions
    BY <1>0, <2>1 DEF Typed
  <2>3. Proper(list', version[play])
    <3>1. UserLists[version[play]] \subseteq Seq(Marker)
      BY <2>2, UserAssumption
    <3> QED BY <2>1, <2>2, <3>1, UserAssumption DEF Proper
  <2>4. Typed' /\ AreasSound' /\ FilesSound'
    BY <1>0, <2>1 DEF Typed, AreasSound, FilesSound, outside, files, player
  <2>5. ListSound'
    BY <2>1, <2>3 DEF ListSound, outside, player
  <2> QED BY <2>4, <2>5 DEF ProperInv
<1>4. CASE EditBookmarks
  <2>1. /\ play \in Recs
        /\ UNCHANGED <<outside, files, play, osd, list, saving, behind>>
    BY <1>0, <1>4 DEF EditBookmarks, Typed
  <2>2. PICK s \in UserBookmarks[version[play]] :
          bm' = Bookmarked(bm, s) /\ cache' = Overwrite(cache, bm'.slot, Len(s))
    BY <1>4 DEF EditBookmarks
  <2>3. version[play] \in Versions
    BY <1>0, <2>1 DEF Typed
  <2>4. SoundArea(bm') /\ Len(s) \in 0 .. MaxBookmarks
    BY <1>0, <2>2, <2>3, BookmarkedSound DEF AreasSound
  <2>5. \A i \in Slots : bm'.slot[i] \in Dword
    BY <2>4, AreaShaped DEF SoundArea
  <2>6. SoundArea(cache')
    BY <1>0, <2>2, <2>4, <2>5, OverwriteSound DEF AreasSound
  <2>7. Typed' /\ AreasSound' /\ FilesSound' /\ ListSound'
    BY <1>0, <2>1, <2>4, <2>6 DEF Typed, AreasSound, FilesSound, ListSound, outside, files
  <2> QED BY <2>7 DEF ProperInv
<1>5. CASE FirmwareBookmark
  <2>1. /\ play \in Recs /\ UNCHANGED <<outside, files, play, osd, memory, saving, behind>>
    BY <1>0, <1>5 DEF FirmwareBookmark, Typed
  <2>2. PICK s \in UserBookmarks[version[play]] : cache' = Bookmarked(cache, s)
    BY <1>5 DEF FirmwareBookmark
  <2>3. version[play] \in Versions
    BY <1>0, <2>1 DEF Typed
  <2>4. SoundArea(cache')
    BY <1>0, <2>2, <2>3, BookmarkedSound DEF AreasSound
  <2>5. Typed' /\ AreasSound' /\ FilesSound' /\ ListSound'
    BY <1>0, <2>1, <2>4 DEF Typed, AreasSound, FilesSound, ListSound, outside, files, memory
  <2> QED BY <2>5 DEF ProperInv
<1>6. CASE Hide
  <2>1. /\ osd = "shown" /\ play \in Recs /\ osd' = "hidden" /\ CutSaveToBM(bm) /\ CutFileSave(play)
        /\ UNCHANGED <<outside, inf, play, list, own>>
    BY <1>0, <1>6 DEF Hide, Typed
  <2>2. Proper(list, version[play]) /\ version[play] \in Versions
    BY <1>0, <2>1 DEF ListSound, Typed
  <2>3. SoundArea(CutEncodeToBM(list, bm, End))
    BY <1>0, <2>2, EncodeSound, EndIsOne DEF AreasSound
  <2>4. SoundArea(bm') /\ SoundArea(cache')
    <3>1. CASE CutFileMode = "cut" \/ play \in Media
      BY <1>0, <2>1, <3>1 DEF CutSaveToBM, AreasSound, Typed
    <3>2. CASE ~(CutFileMode = "cut" \/ play \in Media)
      <4>1. /\ bm' = CutEncodeToBM(list, bm, End)
            /\ (cache' = cache \/ cache' = bm')
        BY <2>1, <3>2 DEF CutSaveToBM
      <4> QED BY <1>0, <2>1, <2>3, <4>1 DEF AreasSound
    <3> QED BY <3>1, <3>2
  <2>5. FilesSound'
    BY <1>0, <2>1, <2>2, SaveFiles
  <2>6. Typed' /\ AreasSound'
    BY <1>0, <2>1, <2>4 DEF Typed, AreasSound, outside
  <2>7. ListSound'
    BY <2>1, <2>2 DEF ListSound, outside
  <2> QED BY <2>5, <2>6, <2>7 DEF ProperInv
<1>7. CASE Show
  <2>1. /\ play \in Recs /\ osd = "hidden" /\ osd' = "shown" /\ ReadBookmarks
        /\ UNCHANGED <<outside, files, player, list, saving, behind, own>>
    BY <1>0, <1>7 DEF Show, Typed
  <2>2. SoundArea(bm')
    BY <1>0, <2>1, ReadSound
  <2>3. Typed' /\ AreasSound' /\ FilesSound'
    BY <1>0, <2>1, <2>2 DEF Typed, AreasSound, FilesSound, outside, files, player
  <2>4. ListSound'
    BY <1>0, <2>1 DEF ListSound, outside, player
  <2> QED BY <2>3, <2>4 DEF ProperInv
<1>8. CASE ExitMC
  <2>1. /\ osd = "shown" /\ play \in Recs /\ osd' = "off" /\ CutFileSave(play)
        /\ list' = <<>> /\ bm' = Blank
        /\ UNCHANGED <<outside, inf, play, own>>
        /\ cache' = IF CutFileMode = "cut" \/ play \in Media THEN cache
                     ELSE CutEncodeToBM(list, cache, End)
    BY <1>0, <1>8 DEF ExitMC, Forget, Typed
  <2>2. Proper(list, version[play]) /\ version[play] \in Versions
    BY <1>0, <2>1 DEF ListSound, Typed
  <2>3. SoundArea(CutEncodeToBM(list, cache, End))
    BY <1>0, <2>2, EncodeSound, EndIsOne DEF AreasSound
  <2>4. FilesSound'
    BY <1>0, <2>1, <2>2, SaveFiles
  <2>5. AreasSound'
    BY <1>0, <2>1, <2>3, BlankSound DEF AreasSound
  <2>6. Typed' /\ ListSound'
    BY <1>0, <2>1 DEF Typed, ListSound, outside
  <2> QED BY <2>4, <2>5, <2>6 DEF ProperInv
<1>9. CASE Restart
  <2>1. Typed' /\ FilesSound' /\ ListSound'
    BY <1>0, <1>9 DEF Restart, Forget, Typed, FilesSound, ListSound, outside, files, player
  <2>2. AreasSound'
    BY <1>0, <1>9, BlankSound DEF Restart, Forget, AreasSound, files, player
  <2> QED BY <2>1, <2>2 DEF ProperInv
<1>10. CASE Saved
  <2>1. Typed' /\ AreasSound' /\ ListSound'
    BY <1>0, <1>10 DEF Saved, Typed, AreasSound, ListSound, outside, player, memory
  <2>2. /\ saving.rec \in Recs /\ Filed(saving.file) /\ saving' = None
        /\ cut' = [cut EXCEPT ![saving.rec] = saving.file]
    BY <1>0, <1>10 DEF Saved, FilesSound
  <2>3. /\ cut' = [q \in Recs |-> cut'[q]] /\ cut'[saving.rec] = saving.file
        /\ \A q \in Recs \ {saving.rec} : cut'[q] = cut[q]
    BY <1>0, <2>2 DEF FilesSound
  <2>4. FilesSound'
    BY <1>0, <2>2, <2>3 DEF FilesSound, Filed
  <2> QED BY <2>1, <2>4 DEF ProperInv
<1>11. CASE PlaybackEnds
  <2>1. /\ play \in Recs /\ play' = None /\ osd' = "off" /\ list' = <<>>
        /\ cache' = Blank /\ inf' = [inf EXCEPT ![play] = cache]
        /\ bm' = [bm EXCEPT !.nr = 0] /\ UNCHANGED outside
    BY <1>0, <1>11 DEF PlaybackEnds, Typed
  <2>2. SoundArea(bm')
    <3>1. bm \in Area /\ Shaped(bm)
      BY <1>0, AreaShaped DEF AreasSound, SoundArea
    <3>2. bm' = [nr |-> 0, slot |-> bm.slot]
      BY <2>1, <3>1 DEF Shaped
    <3>3. bm' \in Area /\ bm'.nr = 0 /\ bm'.slot = bm.slot
      BY <3>1, <3>2, Sizes DEF Area
    <3>4. MaxBookmarks \in Nat
      BY AreaAssumption
    <3>5. ASSUME Encoded(bm'), NEW v \in Versions PROVE Storable(CutDecodeFromBM(bm', v))
      <4>1. Encoded(bm) /\ CutDecodeFromBM(bm', v) = CutDecodeFromBM(bm, v)
        BY <3>1, <3>3, <3>5, DecodeStable
      <4> QED BY <1>0, <4>1 DEF AreasSound, SoundArea
    <3> QED BY <3>3, <3>4, <3>5 DEF SoundArea
  <2>3. AreasSound'
    <3>1. /\ inf' = [r \in Recs |-> inf'[r]] /\ inf'[play] = cache
          /\ \A r \in Recs \ {play} : inf'[r] = inf[r]
      BY <1>0, <2>1 DEF AreasSound
    <3> QED BY <1>0, <2>1, <2>2, <3>1, BlankSound DEF AreasSound
  <2>4. FilesSound'
    <3>1. CASE osd = "shown"
      <4>1. CutFileSave(play) /\ Proper(list, version[play])
        BY <1>0, <1>11, <3>1 DEF PlaybackEnds, ListSound
      <4> QED BY <1>0, <2>1, <4>1, SaveFiles
    <3>2. CASE osd # "shown"
      BY <1>0, <1>11, <3>2 DEF PlaybackEnds, FilesSound
    <3> QED BY <3>1, <3>2
  <2>5. Typed' /\ ListSound'
    BY <1>0, <2>1 DEF Typed, ListSound, outside
  <2> QED BY <2>3, <2>4, <2>5 DEF ProperInv
<1>12. CASE SwitchOff
  <2>1. /\ play' = None /\ cache' = Blank /\ osd' = "off" /\ saving' = None
        /\ list' = <<>> /\ bm' = Blank
        /\ UNCHANGED <<outside, inf>>
    BY <1>12 DEF SwitchOff, Forget
  <2>2. Typed' /\ AreasSound' /\ ListSound'
    BY <1>0, <2>1, BlankSound DEF Typed, AreasSound, ListSound, outside
  <2>3. FilesSound'
    <3>1. CASE saving = None
      <4>1. cut' = cut
        BY <1>12, <3>1 DEF SwitchOff
      <4> QED BY <1>0, <2>1, <4>1 DEF FilesSound
    <3>2. CASE saving # None
      <4> DEFINE f == saving.file
      <4>1. /\ saving.rec \in Recs /\ Filed(f)
        BY <1>0, <3>2 DEF FilesSound
      <4>2. PICK part \in {Unreadable} \cup {[f EXCEPT !.list = SubSeq(@, 1, n)] :
                                               n \in 0 .. Len(f.list)} :
              cut' = [cut EXCEPT ![saving.rec] = part]
        BY <1>12, <3>2 DEF SwitchOff
      <4>3. Storable(part.list)
        <5>1. CASE part = Unreadable
          <6>1. Unreadable.list = <<>>
            BY DEF Unreadable
          <6> QED BY <5>1, <6>1, EmptyStorable
        <5>2. CASE part # Unreadable
          <6>1. PICK n \in 0 .. Len(f.list) : part = [f EXCEPT !.list = SubSeq(@, 1, n)]
            BY <4>2, <5>2
          <6> HIDE DEF f
          <6>2. f = [size |-> f.size, list |-> f.list, ok |-> f.ok] /\ Storable(f.list)
            BY <4>1 DEF Filed
          <6>3. part.list = SubSeq(f.list, 1, n)
            BY <6>1, <6>2
          <6> QED BY <6>2, <6>3, PartStorable
        <5> QED BY <5>1, <5>2
      <4>4. /\ cut' = [q \in Recs |-> cut'[q]] /\ cut'[saving.rec] = part
            /\ \A q \in Recs \ {saving.rec} : cut'[q] = cut[q]
        BY <1>0, <4>1, <4>2 DEF FilesSound
      <4> QED BY <1>0, <2>1, <4>3, <4>4 DEF FilesSound
    <3> QED BY <3>1, <3>2
  <2> QED BY <2>2, <2>3 DEF ProperInv
<1>13. ASSUME NEW r \in Recs, Replace(r) PROVE ProperInv'
  <2>1. /\ play = None /\ UNCHANGED <<CutFileMode, files, player, osd, memory, saving, behind, own, tmsc>>
        /\ replaced < MaxReplace /\ replaced' = replaced + 1
    BY <1>13 DEF Replace, Change
  <2>2. version' \in [Recs -> Versions]
    <3>1. PICK v \in Contents[r] : version' = [version EXCEPT ![r] = v]
      BY <1>13 DEF Replace
    <3>2. v \in Versions
      BY <3>1, AreaAssumption
    <3> QED BY <1>0, <3>1, <3>2 DEF Typed
  <2>3. replaced' \in 0 .. MaxReplace
    <3>1. MaxReplace \in Nat
      BY AreaAssumption
    <3> QED BY <1>0, <2>1, <3>1 DEF Typed
  <2>4. osd = "off"
    BY <1>0, <2>1 DEF ListSound
  <2>5. Typed' /\ AreasSound' /\ FilesSound' /\ ListSound'
    BY <1>0, <2>1, <2>2, <2>3, <2>4
    DEF Typed, AreasSound, FilesSound, ListSound, files, player, memory
  <2> QED BY <2>5 DEF ProperInv
<1>14. CASE OtherReceiver
  <2>1. /\ UNCHANGED <<CutFileMode, files, player, osd, memory, saving, behind, own, version>>
        /\ replaced < MaxReplace /\ replaced' = replaced + 1 /\ tmsc' = ~tmsc
    BY <1>14 DEF OtherReceiver, Change
  <2>2. replaced' \in 0 .. MaxReplace
    <3>1. MaxReplace \in Nat
      BY AreaAssumption
    <3> QED BY <1>0, <2>1, <3>1 DEF Typed
  <2>3. Typed' /\ AreasSound' /\ FilesSound' /\ ListSound'
    BY <1>0, <2>1, <2>2
    DEF Typed, AreasSound, FilesSound, ListSound, files, player, memory
  <2> QED BY <2>3 DEF ProperInv
<1>15. CASE UNCHANGED vars
  BY <1>0, <1>15
  DEF ProperInv, Typed, AreasSound, FilesSound, ListSound, vars, outside, files, player, memory
<1> QED
  BY <1>1, <1>2, <1>3, <1>4, <1>5, <1>6, <1>7, <1>8, <1>9, <1>10, <1>11, <1>12, <1>13,
     <1>14, <1>15 DEF Next

LEMMA ProperInvIs == ProperInv => ProperList
<1> SUFFICES ASSUME ProperInv PROVE ProperList
  OBVIOUS
<1>1. Typed /\ AreasSound /\ FilesSound /\ ListSound
  BY DEF ProperInv
<1>2. inf \in [Recs -> Area] /\ cache \in Area /\ bm \in Area
  <2>1. \A r \in Recs : inf[r] \in Area
    BY <1>1 DEF AreasSound, SoundArea
  <2> QED BY <1>1, <2>1 DEF AreasSound, SoundArea
<1>3. /\ \A r \in Recs : cut[r] # None => cut[r].list \in Seq(Marker)
      /\ saving # None => saving.rec \in Recs /\ saving.file.list \in Seq(Marker)
  BY <1>1 DEF FilesSound, Filed, Storable
<1>4. list \in Seq(Marker) /\ (osd = "shown" => list # <<>>)
  <2>1. CASE osd = "off"
    BY <1>1, <2>1 DEF ListSound
  <2>2. CASE osd # "off"
    <3>1. Proper(list, version[play])
      BY <1>1, <2>2 DEF ListSound
    <3>2. list \in Seq(Marker) /\ 2 <= Len(list)
      BY <3>1 DEF Proper
    <3>3. Len(<<>>) = 0
      OBVIOUS
    <3> QED BY <3>2, <3>3
  <2> QED BY <2>1, <2>2
<1>5. TypeOK
  BY <1>1, <1>2, <1>3, <1>4 DEF TypeOK, Typed
<1>6. osd = "shown" => Proper(list, version[play])
  BY <1>1 DEF ListSound
<1> QED
  BY <1>5, <1>6 DEF ProperList, Proper

\* From whatever .cut file or bookmark area a list is loaded - a whole one, one of another
\* version of the recording, or the rest of one after a power failure - CutFileLoad gives
\* the editing core a list from 0 to the last block, in order, of a length it can hold.
THEOREM ListIsProper == Spec => []ProperList
<1>1. Init => ProperInv
  BY ProperInit
<1>2. ProperInv /\ [Next]_vars => ProperInv'
  BY ProperNext
<1>3. ProperInv => ProperList
  BY ProperInvIs
<1> QED
  BY <1>1, <1>2, <1>3, PTL DEF Spec

-----------------------------------------------------------------------------
(* What was left comes back.                                               *)

\* The list a recording was left with, and where it can be found: in the file that is
\* being written, in the .cut file, or behind the bookmarks of the recording.
Claimed(r)    == left[r] # None /\ (left[r].by # "ended" \/ CutFileMode = "cut")
WorthAFile(l) == CutFileMode # "inf" /\ (Len(l) > 2 \/ l[1].caption)
Writing(r)    == saving # None /\ saving.rec = r
AreaOf(r)     == IF r = play THEN cache ELSE inf[r]
InFile(r)     == IF Writing(r) THEN saving.file = File(left[r].version, left[r].list)
                               ELSE cut[r] = File(left[r].version, left[r].list)
InArea(r)     == /\ cut[r] = None /\ ~Writing(r)
                 /\ CutFileMode # "cut" => IF Len(left[r].list) > 2
                                             THEN Holds(AreaOf(r), left[r].list)
                                             ELSE ~Encoded(AreaOf(r))
Remembered(r) ==
  /\ left[r] # None => left[r].version \in Versions /\ Proper(left[r].list, left[r].version)
  /\ Claimed(r) => IF WorthAFile(left[r].list) THEN InFile(r) ELSE InArea(r)
LeftInv == left = [r \in Recs |-> left[r]] /\ \A r \in Recs : Remembered(r)

LEMMA HoldsStable ==
  ASSUME NEW a \in Area, NEW b, NEW l,
         \A i \in MaxBookmarks .. NRBOOKMARKS - 1 : b.slot[i] = a.slot[i]
  PROVE  /\ Holds(a, l) => Holds(b, l)
         /\ Encoded(b) <=> Encoded(a)
<1>1. /\ Encoded(b) <=> Encoded(a)
      /\ CodedNr(b) = CodedNr(a)
      /\ \A v \in Versions : CutDecodeFromBM(b, v) = CutDecodeFromBM(a, v)
  BY DecodeStable
<1> QED
  BY <1>1 DEF Holds

\* A step that leaves the file of a recording and the upper end of its area alone.
LEMMA LeftFrame ==
  ASSUME NEW r \in Recs, Remembered(r), CutFileMode' = CutFileMode,
         left'[r] = left[r] \/ left'[r] = None,
         cut'[r] = cut[r], Writing(r)' <=> Writing(r), Writing(r) => saving'.file = saving.file,
         AreaOf(r) \in Area,
         \A i \in MaxBookmarks .. NRBOOKMARKS - 1 : AreaOf(r)'.slot[i] = AreaOf(r).slot[i]
  PROVE  Remembered(r)'
<1>1. CASE left'[r] = None
  BY <1>1 DEF Remembered, Claimed
<1>2. CASE left'[r] = left[r]
  <2> DEFINE k == left[r].list
  <2>1. (Holds(AreaOf(r), k) => Holds(AreaOf(r)', k)) /\ (Encoded(AreaOf(r)') <=> Encoded(AreaOf(r)))
    <3> DEFINE a == AreaOf(r)
               b == AreaOf(r)'
    <3>1. a \in Area /\ \A i \in MaxBookmarks .. NRBOOKMARKS - 1 : b.slot[i] = a.slot[i]
      OBVIOUS
    <3> HIDE DEF a, b, k
    <3>2. (Holds(a, k) => Holds(b, k)) /\ (Encoded(b) <=> Encoded(a))
      BY <3>1, HoldsStable
    <3> QED BY <3>2 DEF a, b
  <2>2. InFile(r) => InFile(r)'
    BY <1>2 DEF InFile
  <2>3. InArea(r) => InArea(r)'
    BY <1>2, <2>1 DEF InArea
  <2>4. /\ Claimed(r)' <=> Claimed(r)
        /\ WorthAFile(left[r].list)' <=> WorthAFile(left[r].list)
    BY <1>2 DEF Claimed, WorthAFile
  <2> QED BY <1>2, <2>2, <2>3, <2>4 DEF Remembered
<1> QED
  BY <1>1, <1>2

LEMMA AreasAre == ASSUME AreasSound, NEW r \in Recs PROVE AreaOf(r) \in Area /\ SoundArea(AreaOf(r))
BY DEF AreasSound, AreaOf, SoundArea

\* Nothing that concerns the list left behind has changed.
Same == /\ UNCHANGED <<CutFileMode, cut, saving, left>>
        /\ \A r \in Recs : AreaOf(r)' = AreaOf(r)
LEMMA SameKeeps == ASSUME LeftInv, AreasSound, Same PROVE LeftInv'
<1>1. ASSUME NEW r \in Recs PROVE Remembered(r)'
  <2>1. Remembered(r) /\ AreaOf(r) \in Area
    BY AreasAre DEF LeftInv
  <2>2. CutFileMode' = CutFileMode /\ left'[r] = left[r] /\ cut'[r] = cut[r] /\ saving' = saving
        /\ AreaOf(r)' = AreaOf(r)
    BY DEF Same
  <2>3. (Writing(r)' <=> Writing(r)) /\ saving'.file = saving.file
    BY <2>2 DEF Writing
  <2> QED BY <2>1, <2>2, <2>3, LeftFrame
<1> QED
  BY <1>1 DEF LeftInv, Same

\* Saving the list of the recording that is played concerns no other one.
LEMMA SaveKeepsOthers ==
  ASSUME LeftInv, AreasSound, FilesSound, NEW p \in Recs, p = play, CutFileSave(p), Ready,
         CutFileMode' = CutFileMode, play' = play \/ play' = None,
         \A r \in Recs \ {p} : inf'[r] = inf[r] /\ left'[r] = left[r],
         NEW r \in Recs \ {p}
  PROVE  Remembered(r)'
<1>1. Remembered(r) /\ AreaOf(r) \in Area /\ AreaOf(r) = inf[r]
  BY AreasAre DEF LeftInv, AreaOf
<1>2. AreaOf(r)' = inf[r]
  BY NoneAssumption DEF AreaOf
<1>3. cut'[r] = cut[r]
  BY DEF CutFileSave, DropFile, FilesSound
<1>4. ~Writing(r) /\ ~Writing(r)'
  <2>1. saving = None
    BY DEF Ready
  <2>2. saving' = None \/ saving'.rec = p
    BY <2>1 DEF CutFileSave, DropFile
  <2> QED BY <2>1, <2>2 DEF Writing
<1> QED
  BY <1>1, <1>2, <1>3, <1>4, LeftFrame

\* And it is found again, in the file or, if that is not worth while, in the area.
LEMMA SaveRemembers ==
  ASSUME FilesSound, NEW p \in Recs, CutFileSave(p), Ready, CutFileMode' = CutFileMode,
         NEW how, left'[p] = [version |-> version[p], list |-> list, by |-> how],
         version[p] \in Versions, Size[version[p]] \in Nat, Proper(list, version[p]),
         how # "ended" /\ CutFileMode # "cut" =>
           IF Len(list) > 2 THEN Holds(AreaOf(p)', list) ELSE ~Encoded(AreaOf(p)')
  PROVE  Remembered(p)'
<1> DEFINE v == version[p]
           f == File(v, list)
<1>1. left'[p].version = v /\ left'[p].list = list /\ left'[p].by = how
  OBVIOUS
<1>2. f \in CutFiles
  <2>1. list \in Seq(Marker)
    BY DEF Proper
  <2> QED BY <2>1 DEF File, CutFiles
<1> HIDE DEF f, v
<1>3. CASE Worth
  <2>1. saving' = [rec |-> p, file |-> f]
    BY <1>3 DEF CutFileSave, f, v
  <2>2. saving' \in [rec : Recs, file : CutFiles] /\ saving'.rec = p /\ saving'.file = f
    BY <1>2, <2>1
  <2>3. Writing(p)'
    BY <2>2, NoneAssumption DEF Writing
  <2>4. InFile(p)'
    BY <1>1, <2>2, <2>3 DEF InFile, f
  <2>5. WorthAFile(left[p].list)'
    BY <1>1, <1>3 DEF Worth, WorthAFile
  <2> QED BY <1>1, <2>4, <2>5 DEF Remembered, v
<1>4. CASE ~Worth
  <2>1. cut'[p] = None /\ saving' = None
    BY <1>4 DEF CutFileSave, DropFile, FilesSound, Ready
  <2>2. ~WorthAFile(left[p].list)'
    BY <1>1, <1>4 DEF Worth, WorthAFile
  <2>3. Claimed(p)' => InArea(p)'
    <3> SUFFICES ASSUME Claimed(p)' PROVE InArea(p)'
      OBVIOUS
    <3>1. how # "ended" \/ CutFileMode = "cut"
      BY <1>1 DEF Claimed
    <3>2. CutFileMode # "cut" =>
           IF Len(list) > 2 THEN Holds(AreaOf(p)', list) ELSE ~Encoded(AreaOf(p)')
      BY <3>1
    <3> QED BY <1>1, <2>1, <3>2 DEF InArea, Writing
  <2> QED BY <1>1, <2>2, <2>3 DEF Remembered, v
<1> QED
  BY <1>3, <1>4

LEMMA LeftInit == Init => LeftInv
<1> SUFFICES ASSUME Init PROVE LeftInv
  OBVIOUS
<1>1. left = [r \in Recs |-> None]
  BY DEF Init
<1>2. \A r \in Recs : left[r] = None
  BY <1>1
<1>3. left = [r \in Recs |-> left[r]]
  BY <1>1
<1> QED
  BY <1>2, <1>3 DEF LeftInv, Remembered, Claimed

LEMMA LeftNext ==
  ASSUME Media = {} PROVE LeftInv /\ ProperInv /\ [Next]_vars => LeftInv'
<1> SUFFICES ASSUME LeftInv, ProperInv, [Next]_vars PROVE LeftInv'
  OBVIOUS
<1> USE DEF behind
<1>0. Typed /\ AreasSound /\ FilesSound /\ ListSound
  BY DEF ProperInv
<1>1. ASSUME NEW r \in Recs, StartPlayback(r) PROVE LeftInv'
  <2>1. \A q \in Recs : q # None
    BY NoneAssumption
  <2>2. Same
    BY <1>1, <2>1 DEF StartPlayback, Same, AreaOf, outside, files
  <2> QED BY <1>0, <2>2, SameKeeps
<1>2. CASE Accept \/ Edit \/ Show \/ Restart \/ UNCHANGED vars
  <2>1. Same
    BY <1>2 DEF Accept, Edit, Show, Restart, vars, Same, AreaOf, outside, files, player
  <2> QED BY <1>0, <2>1, SameKeeps
<1>3. ASSUME NEW r \in Recs, Replace(r) PROVE LeftInv'
  <2>1. Same
    BY <1>3 DEF Replace, Change, Same, AreaOf, files, player
  <2> QED BY <1>0, <2>1, SameKeeps
<1>4. CASE OtherReceiver
  <2>1. Same
    BY <1>4 DEF OtherReceiver, Change, Same, AreaOf, files, player
  <2> QED BY <1>0, <2>1, SameKeeps
<1>5. CASE EditBookmarks \/ FirmwareBookmark
  <2>1. /\ play \in Recs /\ play' = play
        /\ UNCHANGED <<CutFileMode, cut, inf, saving, left>>
    BY <1>0, <1>5 DEF EditBookmarks, FirmwareBookmark, Typed, outside, files
  <2>2. version[play] \in Versions
    BY <1>0, <2>1 DEF Typed
  <2>3. \A i \in MaxBookmarks .. NRBOOKMARKS - 1 : cache'.slot[i] = cache.slot[i]
    <3>1. CASE EditBookmarks
      <4>1. PICK s \in UserBookmarks[version[play]] :
              bm' = Bookmarked(bm, s) /\ cache' = Overwrite(cache, bm'.slot, Len(s))
        BY <3>1 DEF EditBookmarks
      <4>2. SoundArea(bm') /\ Len(s) \in 0 .. MaxBookmarks
        BY <1>0, <2>2, <4>1, BookmarkedSound DEF AreasSound
      <4>3. \A i \in Slots : bm'.slot[i] \in Dword
        BY <4>2, AreaShaped DEF SoundArea
      <4> QED BY <1>0, <4>1, <4>2, <4>3, OverwriteSound DEF AreasSound
    <3>2. CASE FirmwareBookmark
      <4>1. PICK s \in UserBookmarks[version[play]] : cache' = Bookmarked(cache, s)
        BY <3>2 DEF FirmwareBookmark
      <4> QED BY <1>0, <2>2, <4>1, BookmarkedSound DEF AreasSound
    <3> QED BY <1>5, <3>1, <3>2
  <2>4. ASSUME NEW r \in Recs PROVE Remembered(r)'
    <3>1. Remembered(r) /\ AreaOf(r) \in Area
      BY <1>0, AreasAre DEF LeftInv
    <3>2. \A i \in MaxBookmarks .. NRBOOKMARKS - 1 : AreaOf(r)'.slot[i] = AreaOf(r).slot[i]
      BY <2>1, <2>3 DEF AreaOf
    <3>3. /\ CutFileMode' = CutFileMode /\ left'[r] = left[r] /\ cut'[r] = cut[r]
          /\ (Writing(r)' <=> Writing(r)) /\ saving'.file = saving.file
      BY <2>1 DEF Writing
    <3> QED BY <3>1, <3>2, <3>3, LeftFrame
  <2> QED BY <2>1, <2>4 DEF LeftInv
<1>6. CASE Hide
  <2>1. /\ Ready /\ osd = "shown" /\ play \in Recs /\ CutSaveToBM(bm) /\ CutFileSave(play)
        /\ left' = [left EXCEPT ![play] = [version |-> version[play], list |-> list,
                                           by |-> "saved"]]
        /\ UNCHANGED <<outside, inf, play>>
    BY <1>0, <1>6 DEF Hide, LeftBehind, Typed
  <2>2. Proper(list, version[play]) /\ version[play] \in Versions /\ Size[version[play]] \in Nat
    BY <1>0, <2>1, UserAssumption DEF ListSound, Typed
  <2>3. left'[play] = [version |-> version[play], list |-> list, by |-> "saved"]
        /\ (\A r \in Recs \ {play} : left'[r] = left[r]) /\ left' = [r \in Recs |-> left'[r]]
    BY <2>1 DEF LeftInv
  <2>4. CutFileMode # "cut" =>
           IF Len(list) > 2 THEN Holds(AreaOf(play)', list) ELSE ~Encoded(AreaOf(play)')
    <3> SUFFICES ASSUME CutFileMode # "cut"
                 PROVE  IF Len(list) > 2 THEN Holds(AreaOf(play)', list) ELSE ~Encoded(AreaOf(play)')
      OBVIOUS
    <3> DEFINE b == CutEncodeToBM(list, bm, End)
    <3>1. /\ HasRoom(list, bm, End) /\ (Encodable(list, bm, End) => Holds(b, list))
          /\ (~Encodable(list, bm, End) => ~Encoded(b))
      BY <1>0, <2>2, EncodeSound, EndIsOne DEF AreasSound
    <3>2. cache' = b
      BY <2>1, <3>1 DEF CutSaveToBM
    <3>3. AreaOf(play)' = b
      BY <2>1, <3>2 DEF AreaOf
    <3>4. Encodable(list, bm, End) <=> Len(list) > 2
      BY <3>1 DEF Encodable
    <3> HIDE DEF b
    <3> QED BY <3>1, <3>3, <3>4
  <2>5. ASSUME NEW p \in Recs, p = play PROVE Remembered(p)'
    BY <1>0, <2>1, <2>2, <2>3, <2>4, <2>5, SaveRemembers DEF outside
  <2>6. ASSUME NEW r \in Recs \ {play} PROVE Remembered(r)'
    BY <1>0, <2>1, <2>3, SaveKeepsOthers DEF outside
  <2> QED BY <2>3, <2>5, <2>6 DEF LeftInv
<1>7. CASE ExitMC
  <2>1. /\ Ready /\ osd = "shown" /\ play \in Recs /\ CutFileSave(play)
        /\ cache' = IF CutFileMode = "cut" \/ play \in Media THEN cache
                     ELSE CutEncodeToBM(list, cache, End)
        /\ left' = [left EXCEPT ![play] = [version |-> version[play], list |-> list,
                                           by |-> "saved"]]
        /\ UNCHANGED <<outside, inf, play>>
    BY <1>0, <1>7 DEF ExitMC, LeftBehind, Typed
  <2>2. Proper(list, version[play]) /\ version[play] \in Versions /\ Size[version[play]] \in Nat
    BY <1>0, <2>1, UserAssumption DEF ListSound, Typed
  <2>3. left'[play] = [version |-> version[play], list |-> list, by |-> "saved"]
        /\ (\A r \in Recs \ {play} : left'[r] = left[r]) /\ left' = [r \in Recs |-> left'[r]]
    BY <2>1 DEF LeftInv
  <2>4. CutFileMode # "cut" =>
           IF Len(list) > 2 THEN Holds(AreaOf(play)', list) ELSE ~Encoded(AreaOf(play)')
    <3> SUFFICES ASSUME CutFileMode # "cut"
                 PROVE  IF Len(list) > 2 THEN Holds(AreaOf(play)', list) ELSE ~Encoded(AreaOf(play)')
      OBVIOUS
    <3> DEFINE b == CutEncodeToBM(list, cache, End)
    <3>1. /\ HasRoom(list, cache, End) /\ (Encodable(list, cache, End) => Holds(b, list))
          /\ (~Encodable(list, cache, End) => ~Encoded(b))
      BY <1>0, <2>2, EncodeSound, EndIsOne DEF AreasSound
    <3>2. cache' = b
      BY <2>1
    <3>3. AreaOf(play)' = b
      BY <2>1, <3>2 DEF AreaOf
    <3>4. Encodable(list, cache, End) <=> Len(list) > 2
      BY <3>1 DEF Encodable
    <3> HIDE DEF b
    <3> QED BY <3>1, <3>3, <3>4
  <2>5. ASSUME NEW p \in Recs, p = play PROVE Remembered(p)'
    BY <1>0, <2>1, <2>2, <2>3, <2>4, <2>5, SaveRemembers DEF outside
  <2>6. ASSUME NEW r \in Recs \ {play} PROVE Remembered(r)'
    BY <1>0, <2>1, <2>3, SaveKeepsOthers DEF outside
  <2> QED BY <2>3, <2>5, <2>6 DEF LeftInv
<1>8. CASE Saved
  <2>1. /\ saving # None /\ saving.rec \in Recs /\ saving' = None /\ left' = left
        /\ cut' = [cut EXCEPT ![saving.rec] = saving.file]
        /\ CutFileMode' = CutFileMode /\ \A r \in Recs : AreaOf(r)' = AreaOf(r)
    BY <1>0, <1>8 DEF Saved, FilesSound, AreaOf, outside, player
  <2>2. /\ cut'[saving.rec] = saving.file
        /\ \A r \in Recs \ {saving.rec} : cut'[r] = cut[r]
    BY <1>0, <2>1 DEF FilesSound
  <2>3. ASSUME NEW r \in Recs \ {saving.rec} PROVE Remembered(r)'
    <3>1. Remembered(r) /\ AreaOf(r) \in Area
      BY <1>0, AreasAre DEF LeftInv
    <3>2. ~Writing(r) /\ ~Writing(r)'
      BY <2>1 DEF Writing
    <3> QED BY <2>1, <2>2, <3>1, <3>2, LeftFrame
  <2>4. ASSUME NEW r \in Recs, r = saving.rec PROVE Remembered(r)'
    <3>1. Remembered(r) /\ Writing(r) /\ ~Writing(r)' /\ left'[r] = left[r]
      BY <2>1, <2>4 DEF LeftInv, Writing
    <3>2. InFile(r) => InFile(r)'
      BY <2>2, <2>4, <3>1 DEF InFile
    <3>3. ~InArea(r)
      BY <3>1 DEF InArea
    <3>4. (Claimed(r)' <=> Claimed(r)) /\ (WorthAFile(left[r].list)' <=> WorthAFile(left[r].list))
      BY <2>1, <3>1 DEF Claimed, WorthAFile
    <3> QED BY <3>1, <3>2, <3>3, <3>4 DEF Remembered
  <2> QED BY <2>1, <2>3, <2>4 DEF LeftInv
<1>9. CASE PlaybackEnds
  <2>1. /\ Ready /\ play \in Recs /\ play' = None /\ inf' = [inf EXCEPT ![play] = cache]
        /\ IF osd = "shown" THEN CutFileSave(play) /\ LeftBehind(play, "ended")
                            ELSE UNCHANGED <<cut, saving, left>>
        /\ CutFileMode' = CutFileMode
    BY <1>0, <1>9 DEF PlaybackEnds, Typed, outside
  <2>2. inf'[play] = cache /\ \A r \in Recs \ {play} : inf'[r] = inf[r]
    BY <1>0, <2>1 DEF AreasSound
  <2>3. CASE osd = "shown"
    <3>1. CutFileSave(play) /\ left' = [left EXCEPT ![play] =
                                 [version |-> version[play], list |-> list, by |-> "ended"]]
      BY <2>1, <2>3 DEF LeftBehind
    <3>2. Proper(list, version[play]) /\ version[play] \in Versions /\ Size[version[play]] \in Nat
      BY <1>0, <2>1, <2>3, UserAssumption DEF ListSound, Typed
    <3>3. left'[play] = [version |-> version[play], list |-> list, by |-> "ended"]
          /\ (\A r \in Recs \ {play} : left'[r] = left[r]) /\ left' = [r \in Recs |-> left'[r]]
      BY <2>1, <3>1 DEF LeftInv
    <3>4. ASSUME NEW p \in Recs, p = play PROVE Remembered(p)'
      BY <1>0, <2>1, <3>1, <3>2, <3>3, <3>4, SaveRemembers
    <3>5. ASSUME NEW r \in Recs \ {play} PROVE Remembered(r)'
      BY <1>0, <2>1, <2>2, <3>1, <3>3, SaveKeepsOthers
    <3> QED BY <3>3, <3>4, <3>5 DEF LeftInv
  <2>4. CASE osd # "shown"
    <3>1. Same
      BY <2>1, <2>2, <2>4, NoneAssumption DEF Same, AreaOf
    <3> QED BY <1>0, <3>1, SameKeeps
  <2> QED BY <2>3, <2>4
<1>10. CASE SwitchOff
  <2>1. /\ play' = None /\ saving' = None /\ inf' = inf /\ CutFileMode' = CutFileMode
        /\ left' = [r \in Recs |->
                IF (saving # None /\ r = saving.rec) \/ (r = play /\ CutFileMode # "cut" /\ cut[r] = None) THEN None
                ELSE left[r]]
        /\ \A r \in Recs : ~Writing(r) => cut'[r] = cut[r]
    <3>1. CASE saving = None
      BY <1>10, <3>1 DEF SwitchOff, outside
    <3>2. CASE saving # None
      <4>1. PICK part : cut' = [cut EXCEPT ![saving.rec] = part]
        BY <1>10, <3>2 DEF SwitchOff
      <4>2. \A r \in Recs : ~Writing(r) => cut'[r] = cut[r]
        BY <1>0, <3>2, <4>1 DEF Writing, FilesSound
      <4> QED BY <1>10, <4>2 DEF SwitchOff, outside
    <3> QED BY <3>1, <3>2
  <2>2. ASSUME NEW r \in Recs PROVE Remembered(r)'
    <3>0. /\ Remembered(r)
          /\ left'[r] = IF Writing(r) \/ (r = play /\ CutFileMode # "cut" /\ cut[r] = None)
                          THEN None ELSE left[r]
      BY <2>1 DEF LeftInv, Writing
    <3>1. CASE Writing(r) \/ (r = play /\ CutFileMode # "cut" /\ cut[r] = None)
      BY <3>0, <3>1 DEF Remembered, Claimed
    <3>2. CASE ~Writing(r) /\ r # play
      <4>1. AreaOf(r)' = AreaOf(r) /\ AreaOf(r) \in Area
        BY <1>0, <2>1, <3>2, AreasAre, NoneAssumption DEF AreaOf
      <4>2. ~Writing(r)' /\ cut'[r] = cut[r] /\ left'[r] = left[r]
        BY <2>1, <3>0, <3>2 DEF Writing
      <4> QED BY <2>1, <3>0, <3>2, <4>1, <4>2, LeftFrame
    <3>3. CASE ~Writing(r) /\ r = play /\ ~(CutFileMode # "cut" /\ cut[r] = None)
      <4>1. ~Writing(r)' /\ cut'[r] = cut[r] /\ left'[r] = left[r]
        BY <2>1, <3>0, <3>3 DEF Writing
      <4>2. InFile(r) => InFile(r)'
        BY <3>3, <4>1 DEF InFile
      <4>3. InArea(r) => InArea(r)'
        BY <2>1, <3>3, <4>1 DEF InArea
      <4>4. (Claimed(r)' <=> Claimed(r)) /\ (WorthAFile(left[r].list)' <=> WorthAFile(left[r].list))
        BY <2>1, <4>1 DEF Claimed, WorthAFile
      <4> QED BY <3>0, <4>1, <4>2, <4>3, <4>4 DEF Remembered
    <3> QED BY <3>1, <3>2, <3>3
  <2>3. left' = [r \in Recs |-> left'[r]]
    BY <2>1
  <2> QED BY <2>2, <2>3 DEF LeftInv
<1> QED
  BY <1>1, <1>2, <1>3, <1>4, <1>5, <1>6, <1>7, <1>8, <1>9, <1>10 DEF Next

\* CutFileLoad finds what was remembered.
LEMMA AcceptFinds ==
  ASSUME Media = {}, LeftInv, ProperInv, Accept, LeftUnchanged,
         left[play].by # "ended" \/ CutFileMode = "cut"
  PROVE  SameList(list', left[play].list)
<1> DEFINE k == left[play].list
           v == version[play]
           f == cut[play]
<1>1. /\ play \in Recs /\ bm' = cache /\ ~Writing(play) /\ CutFileLoad(f, v)
      /\ Typed /\ AreasSound
  BY DEF ProperInv, Typed, Accept, Ready, ReadBookmarks, Writing
<1>2. /\ v \in Versions /\ left[play].version = v /\ Proper(k, v)
      /\ IF WorthAFile(k) THEN InFile(play) ELSE InArea(play)
  BY <1>1 DEF LeftInv, Remembered, Claimed, LeftUnchanged
<1>3. Storable(k) /\ k \in Seq(Marker) /\ 2 <= Len(k) /\ Len(k) \in Nat
  BY <1>2, ProperStorable, LenProperties DEF Proper
<1> HIDE DEF k, v
<1>4. CASE WorthAFile(k)
  <2>1. f = File(v, k)
    BY <1>1, <1>2, <1>4 DEF InFile, k
  <2>2. f \in CutFiles /\ f.ok /\ f.size = Size[v] /\ f.list = k
    <3>1. Size[v] \in Nat
      BY <1>2, UserAssumption
    <3> HIDE DEF f
    <3> QED BY <1>3, <2>1, <3>1 DEF File, CutFiles
  <2>3. f # None
    BY <2>2, NoneAssumption
  <2>4. list' = Normalised(FromFile(f, v, bm'), v)
    BY <1>1, <2>2, <2>3 DEF CutFileLoad
  <2>5. FromFile(f, v, bm') = k
    BY <2>2 DEF FromFile
  <2>6. SameList(list', k)
    <3> HIDE DEF f
    <3> QED BY <1>2, <1>3, <2>4, <2>5, NormalisedSame
  <2> QED BY <2>6 DEF k
<1>5. CASE ~WorthAFile(k)
  <2>1. /\ f = None
        /\ CutFileMode # "cut" => IF Len(k) > 2 THEN Holds(cache, k) ELSE ~Encoded(cache)
    BY <1>1, <1>2, <1>5 DEF InArea, AreaOf, k
  <2>2. CASE Len(k) > 2
    <3> DEFINE d == CutDecodeFromBM(cache, v)
    <3>1. CutFileMode = "inf" /\ Holds(cache, k)
      BY <1>5, <2>1, <2>2 DEF WorthAFile
    <3>2. list' = Normalised(d, v)
      BY <1>1, <2>1, <3>1 DEF CutFileLoad, Holds
    <3>3. Storable(d) /\ Len(d) = Len(k)
      BY <1>1, <1>2, <3>1, DecodeTyped DEF AreasSound, SoundArea, Holds
    <3>4. \A i \in 1 .. Len(k) : d[i].block = k[i].block /\ d[i].selected = k[i].selected
      BY <1>2, <3>1 DEF Holds
    <3> HIDE DEF d
    <3>5. SameList(list', k)
      BY <1>2, <3>1, <3>2, <3>3, <3>4, NormalisedSame
    <3> QED BY <3>5 DEF k
  <2>3. CASE ~(Len(k) > 2)
    <3> DEFINE r == Default(v)
    <3>1. list' = r
      BY <1>1, <2>1, <2>3 DEF CutFileLoad
    <3>2. Len(k) = 2 /\ k[1].block = 0 /\ k[2].block = Total[v]
      <4>1. Len(k) = 2
        <5> DEFINE len == Len(k)
        <5> HIDE DEF len
        <5>1. len \in Nat /\ 2 <= len /\ ~(len > 2)
          BY <1>3, <2>3 DEF len
        <5>2. len = 2
          BY <5>1
        <5> QED BY <5>2 DEF len
      <4> QED BY <1>2, <4>1 DEF Proper
    <3>3. CutFileMode # "inf" => k[1].caption = FALSE
      <4>1. k[1].caption \in BOOLEAN
        <5>1. 1 \in 1 .. Len(k)
          BY <3>2
        <5> QED BY <1>3, <5>1, ElementOfSeq, MarkerFields
      <4> QED BY <1>5, <2>3, <4>1 DEF WorthAFile
    <3>4. /\ Len(r) = 2 /\ DOMAIN r = 1 .. 2
          /\ r[1].block = 0 /\ r[2].block = Total[v] /\ r[1].caption = FALSE
      BY DEF Default
    <3> HIDE DEF r
    <3>5. /\ Len(r) = Len(k)
          /\ \A i \in DOMAIN r :
               /\ r[i].block = k[i].block
               /\ Len(r) > 2 => r[i].selected = k[i].selected
               /\ CutFileMode # "inf" /\ i < Len(r) => r[i].caption = k[i].caption
      <4>1. \A i \in DOMAIN r : i = 1 \/ i = 2
        BY <3>4
      <4>2. ~(Len(r) > 2) /\ ~(2 < Len(r))
        BY <3>4
      <4> QED BY <3>2, <3>3, <3>4, <4>1, <4>2
    <3>6. SameList(r, k)
      BY <3>5, Zenon DEF SameList
    <3> QED BY <3>1, <3>6 DEF k
  <2> QED BY <2>2, <2>3
<1> QED
  BY <1>4, <1>5

\* Where every recording has an .inf file, CutFileLoad shows again what CutFileSave and
\* CutSaveToBM stored when the OSD was hidden or MovieCutter ended: all positions, the
\* selections and, unless only the .inf is used, the captions - also after other
\* recordings, edited bookmarks, restarts, power failures and on the other receiver.
THEOREM ListIsRemembered == ASSUME Media = {} PROVE Spec => ListComesBack
<1>1. Init => LeftInv /\ ProperInv
  BY LeftInit, ProperInit
<1>2. LeftInv /\ ProperInv /\ [Next]_vars => (LeftInv /\ ProperInv)'
  BY LeftNext, ProperNext
<1>3. LeftInv /\ ProperInv /\ [Next]_vars =>
        [Accept /\ LeftUnchanged /\ (left[play].by # "ended" \/ CutFileMode = "cut")
           => SameList(list', left[play].list)]_vars
  BY AcceptFinds
<1> QED
  BY <1>1, <1>2, <1>3, PTL DEF Spec, ListComesBack
-----------------------------------------------------------------------------
(* The list is the recording's own.                                        *)

\* The markers that are kept come from between the ends.
LEMMA InsideFrom ==
  ASSUME NEW v \in Versions, NEW l \in Seq(Marker), 2 <= Len(l), NEW s, s = Inside(l, v)
  PROVE  \A i \in 1 .. Len(s) : s[i].block \in Inner(l)
<1> DEFINE N == Len(l) - 2
<1>0. PICK h \in [0 .. N -> Seq(Marker)] :
           /\ h[0] = <<>> /\ h[N] = s
           /\ \A k \in 1 .. N :
                h[k] = IF l[k + 1].block < Total[v] THEN Append(h[k - 1], l[k + 1]) ELSE h[k - 1]
  BY InsideWalk
<1>1. N \in Nat /\ \A k \in 1 .. N : l[k + 1] \in Marker /\ l[k + 1].block \in Inner(l)
  <2>1. Len(l) \in Nat /\ \A i \in 1 .. Len(l) : l[i] \in Marker
    BY ElementOfSeq, LenProperties
  <2>2. N \in Nat /\ \A k \in 1 .. N : k + 1 \in 1 .. Len(l) /\ k + 1 \in 2 .. Len(l) - 1
    BY <2>1
  <2> QED BY <2>1, <2>2 DEF Inner
<1> DEFINE Good(k) == \A i \in 1 .. Len(h[k]) : h[k][i].block \in Inner(l)
           G == {k \in 0 .. N : Good(k)}
<1>2. 0 \in G
  <2>1. Len(h[0]) = 0
    BY <1>0
  <2>2. Good(0)
    BY <2>1
  <2> HIDE DEF Good
  <2> QED BY <1>1, <2>2
<1>3. ASSUME NEW k \in 1 .. N, k - 1 \in G PROVE k \in G
  <2> DEFINE a == h[k - 1]
             m == l[k + 1]
             b == h[k]
  <2>1. k - 1 \in 0 .. N /\ k \in 0 .. N
    BY <1>1
  <2>2. /\ a \in Seq(Marker) /\ m \in Marker /\ m.block \in Inner(l)
        /\ b = IF m.block < Total[v] THEN Append(a, m) ELSE a
    BY <1>0, <1>1, <2>1
  <2>3. \A i \in 1 .. Len(a) : a[i].block \in Inner(l)
    BY <1>3
  <2> HIDE DEF a, b, m
  <2>4. \A i \in 1 .. Len(b) : b[i].block \in Inner(l)
    <3>1. CASE m.block < Total[v]
      <4>1. Len(b) = Len(a) + 1 /\ b[Len(a) + 1] = m /\ \A i \in 1 .. Len(a) : b[i] = a[i]
        BY <2>2, <3>1, AppendProperties
      <4>2. \A i \in 1 .. Len(b) : i \in 1 .. Len(a) \/ i = Len(a) + 1
        BY <2>2, <4>1, LenProperties
      <4> QED BY <2>2, <2>3, <4>1, <4>2
    <3>2. CASE ~(m.block < Total[v])
      BY <2>2, <2>3, <3>2
    <3> QED BY <3>1, <3>2
  <2>5. Good(k)
    BY <2>4 DEF b
  <2> HIDE DEF Good
  <2> QED BY <2>1, <2>5
<1>4. N \in G
  <2> HIDE DEF G
  <2>1. \A k \in 0 .. N : k \in G
    BY <1>1, <1>2, <1>3, Induction
  <2> QED BY <1>1, <2>1
<1> QED
  BY <1>0, <1>4

\* CutFileLoad makes up no marker of its own.
LEMMA NormalisedFrom ==
  ASSUME NEW v \in Versions, NEW l \in Seq(Marker), NEW r, r = Normalised(l, v)
  PROVE  Inner(r) \subseteq Inner(l)
<1>1. CASE Len(l) < 2
  <2>1. r = Default(v) /\ Len(r) = 2
    BY <1>1 DEF Normalised, Default
  <2>2. 2 .. Len(r) - 1 = {}
    BY <2>1
  <2> QED BY <2>2 DEF Inner
<1>2. CASE ~(Len(l) < 2)
  <2> DEFINE s == Inside(l, v)
  <2>1. r = EndFitted(l, v) /\ 2 <= Len(l)
    BY <1>2, LenProperties DEF Normalised
  <2>2. \A i \in 1 .. Len(s) : s[i].block \in Inner(l)
    BY <2>1, InsideFrom
  <2>3. Len(r) = Len(s) + 2 /\ Len(s) \in Nat /\ \A i \in 1 .. Len(s) : r[i + 1] = s[i]
    BY <2>1, EndFittedIs
  <2> HIDE DEF s
  <2>4. ASSUME NEW i \in 2 .. Len(r) - 1 PROVE r[i].block \in Inner(l)
    <3>1. i - 1 \in 1 .. Len(s) /\ (i - 1) + 1 = i
      BY <2>3
    <3>2. r[i] = s[i - 1]
      BY <2>3, <3>1
    <3> QED BY <2>2, <3>1, <3>2
  <2> QED BY <2>4 DEF Inner
<1> QED
  BY <1>1, <1>2

\* Nor does a file that is cut short.
LEMMA PartFrom ==
  ASSUME NEW l \in Seq(Marker), NEW n \in 0 .. Len(l)
  PROVE  Inner(SubSeq(l, 1, n)) \subseteq Inner(l)
<1> DEFINE s == SubSeq(l, 1, n)
           len == Len(l)
<1>1. len \in Nat
  BY LenProperties
<1> HIDE DEF len
<1>2. n \in 0 .. len /\ n + 1 \in 1 .. len + 1 /\ (n + 1) - 1 = n
  BY <1>1 DEF len
<1>3. Len(s) = n /\ \A k \in 1 .. n : s[k] = l[k]
  BY <1>2, FrontElements DEF len
<1> HIDE DEF s
<1>4. ASSUME NEW i \in 2 .. Len(s) - 1 PROVE s[i].block \in Inner(l)
  <2>1. i \in 1 .. n /\ i \in 2 .. len - 1
    BY <1>1, <1>2, <1>3
  <2> QED BY <1>3, <2>1 DEF Inner, len
<1>5. Inner(s) \subseteq Inner(l)
  BY <1>4 DEF Inner
<1> QED
  BY <1>5 DEF s

\* Between the ends of what an area holds are markers of set s only.
AreaWithin(a, s) == Encoded(a) => \A v \in Versions : Inner(CutDecodeFromBM(a, v)) \subseteq s

LEMMA BlankWithin == ASSUME NEW s PROVE AreaWithin(Blank, s)
<1>1. NRBOOKMARKS - 2 \in Slots /\ NRBOOKMARKS - 1 \in Slots /\ TAPID # 0
  BY AreaAssumption, Sizes DEF Slots
<1>2. \A i \in Slots : Blank.slot[i].num = 0
  BY DEF Blank, Num
<1>3. ~Encoded(Blank)
  BY <1>1, <1>2 DEF Encoded, HasId
<1> QED
  BY <1>3 DEF AreaWithin

LEMMA WithinStable ==
  ASSUME NEW a \in Area, NEW b, NEW s, AreaWithin(a, s),
         \A i \in MaxBookmarks .. NRBOOKMARKS - 1 : b.slot[i] = a.slot[i]
  PROVE  AreaWithin(b, s)
<1>1. (Encoded(b) <=> Encoded(a)) /\ \A v \in Versions : CutDecodeFromBM(b, v) = CutDecodeFromBM(a, v)
  BY DecodeStable
<1> QED
  BY <1>1 DEF AreaWithin

LEMMA EncodedWithin ==
  ASSUME NEW a, SoundArea(a), NEW u \in Versions, NEW l, Proper(l, u),
         NEW end \in {NRBOOKMARKS - 1, NRBOOKMARKS - 2}, NEW b, b = CutEncodeToBM(l, a, end)
  PROVE  AreaWithin(b, Inner(l))
<1>1. /\ SoundArea(b) /\ (Encodable(l, a, end) => Holds(b, l))
      /\ (~Encodable(l, a, end) => ~Encoded(b))
  BY EncodeSound
<1> SUFFICES ASSUME Encoded(b), NEW v \in Versions
             PROVE  Inner(CutDecodeFromBM(b, v)) \subseteq Inner(l)
  BY DEF AreaWithin
<1> DEFINE d == CutDecodeFromBM(b, v)
<1>2. Holds(b, l) /\ b \in Area
  BY <1>1 DEF SoundArea
<1>3. Len(d) = Len(l) /\ \A i \in 1 .. Len(l) : d[i].block = l[i].block
  BY <1>2, DecodeTyped DEF Holds
<1>4. Len(l) \in Nat
  BY LenProperties DEF Proper
<1> HIDE DEF d
<1>5. ASSUME NEW i \in 2 .. Len(d) - 1 PROVE d[i].block \in Inner(l)
  <2>1. i \in 1 .. Len(l) /\ i \in 2 .. Len(l) - 1
    BY <1>3, <1>4
  <2> QED BY <1>3, <2>1 DEF Inner
<1>6. Inner(d) \subseteq Inner(l)
  BY <1>5 DEF Inner
<1> QED
  BY <1>6 DEF d

\* Every copy of a list that can be read for a recording has markers of its own only.
FilesMarked == /\ \A r \in Recs : cut[r] # None => Inner(cut[r].list) \subseteq marked[r]
               /\ saving # None => Inner(saving.file.list) \subseteq marked[saving.rec]
AreasMarked == /\ \A r \in Recs : AreaWithin(inf[r], marked[r])
               /\ play # None => AreaWithin(cache, marked[play])
MarkedInv == marked = [r \in Recs |-> marked[r]] /\ FilesMarked /\ AreasMarked

LEMMA WithinMore == ASSUME NEW a, NEW s, NEW t, AreaWithin(a, s), s \subseteq t PROVE AreaWithin(a, t)
BY DEF AreaWithin

LEMMA EmptyInner == Inner(<<>>) = {}
<1>1. 2 .. Len(<<>>) - 1 = {}
  OBVIOUS
<1> QED BY <1>1 DEF Inner

LEMMA MarkedInit == Init => MarkedInv
<1> SUFFICES ASSUME Init PROVE MarkedInv
  OBVIOUS
<1>1. marked = [r \in Recs |-> marked[r]]
  BY DEF Init
<1>2. FilesMarked
  BY DEF Init, FilesMarked
<1>3. AreasMarked
  BY BlankWithin DEF Init, AreasMarked
<1> QED
  BY <1>1, <1>2, <1>3 DEF MarkedInv

\* Saving the list of the recording that is played, in whatever way.
LEMMA SaveMarks ==
  ASSUME FilesMarked, FilesSound, marked = [r \in Recs |-> marked[r]], Ready,
         NEW p \in Recs, CutFileSave(p), marked' = [marked EXCEPT ![p] = @ \cup Inner(list)]
  PROVE  /\ FilesMarked' /\ marked' = [r \in Recs |-> marked'[r]]
         /\ marked'[p] = marked[p] \cup Inner(list)
         /\ \A r \in Recs : marked[r] \subseteq marked'[r]
<1>1. /\ marked' = [r \in Recs |-> marked'[r]] /\ marked'[p] = marked[p] \cup Inner(list)
      /\ \A r \in Recs \ {p} : marked'[r] = marked[r]
  OBVIOUS
<1>2. \A r \in Recs : marked[r] \subseteq marked'[r]
  BY <1>1
<1>3. saving = None /\ cut = [r \in Recs |-> cut[r]]
  BY DEF Ready, FilesSound
<1>4. CASE Worth
  <2> DEFINE f == File(version[p], list)
  <2>1. cut' = [cut EXCEPT ![p] = Unreadable] /\ saving' = [rec |-> p, file |-> f]
    BY <1>4 DEF CutFileSave
  <2>2. f.list = list /\ Unreadable.list = <<>>
    BY DEF File, Unreadable
  <2> HIDE DEF f
  <2>3. saving'.rec = p /\ saving'.file = f
    BY <2>1
  <2>4. cut'[p] = Unreadable /\ \A r \in Recs \ {p} : cut'[r] = cut[r]
    BY <1>3, <2>1
  <2>5. Inner(Unreadable.list) = {}
    BY <2>2, EmptyInner
  <2>6. ASSUME NEW r \in Recs, cut'[r] # None PROVE Inner(cut'[r].list) \subseteq marked'[r]
    BY <1>2, <2>4, <2>5, <2>6 DEF FilesMarked
  <2>7. Inner(saving'.file.list) \subseteq marked'[saving'.rec]
    BY <1>1, <2>2, <2>3
  <2> QED BY <1>1, <1>2, <2>6, <2>7 DEF FilesMarked
<1>5. CASE ~Worth
  <2>1. cut' = [cut EXCEPT ![p] = None] /\ saving' = None
    BY <1>3, <1>5 DEF CutFileSave, DropFile
  <2>2. cut'[p] = None /\ \A r \in Recs \ {p} : cut'[r] = cut[r]
    BY <1>3, <2>1
  <2> QED BY <1>1, <1>2, <2>1, <2>2 DEF FilesMarked
<1> QED
  BY <1>4, <1>5

LEMMA MarkedNext == MarkedInv /\ ProperInv /\ [Next]_vars => MarkedInv'
<1> SUFFICES ASSUME MarkedInv, ProperInv, [Next]_vars PROVE MarkedInv'
  OBVIOUS
<1> USE DEF behind
<1> USE NoneAssumption
<1>0. /\ Typed /\ AreasSound /\ FilesSound /\ ListSound
      /\ marked = [r \in Recs |-> marked[r]] /\ FilesMarked /\ AreasMarked
  BY DEF ProperInv, MarkedInv
<1>1. ASSUME NEW r \in Recs, StartPlayback(r) PROVE MarkedInv'
  <2>1. play' = r /\ cache' = inf[r] /\ UNCHANGED <<cut, inf, saving, marked>>
    BY <1>1 DEF StartPlayback, files
  <2>2. FilesMarked' /\ AreasMarked'
    BY <1>0, <2>1 DEF FilesMarked, AreasMarked
  <2> QED BY <1>0, <2>1, <2>2 DEF MarkedInv
<1>2. CASE Accept \/ Edit \/ Show \/ Restart \/ UNCHANGED vars
  <2>1. UNCHANGED <<cut, inf, play, cache, saving, marked>>
    BY <1>2 DEF Accept, Edit, Show, Restart, vars, files, player
  <2>2. FilesMarked' /\ AreasMarked'
    BY <1>0, <2>1 DEF FilesMarked, AreasMarked
  <2> QED BY <1>0, <2>1, <2>2 DEF MarkedInv
<1>3. CASE OtherReceiver \/ \E r \in Recs : Replace(r)
  <2>1. UNCHANGED <<cut, inf, play, cache, saving, marked>>
    BY <1>3 DEF OtherReceiver, Replace, Change, files, player
  <2>2. FilesMarked' /\ AreasMarked'
    BY <1>0, <2>1 DEF FilesMarked, AreasMarked
  <2> QED BY <1>0, <2>1, <2>2 DEF MarkedInv
<1>4. CASE EditBookmarks \/ FirmwareBookmark
  <2>1. play \in Recs /\ play' = play /\ UNCHANGED <<cut, inf, saving, marked>>
    BY <1>0, <1>4 DEF EditBookmarks, FirmwareBookmark, Typed, files
  <2>2. version[play] \in Versions
    BY <1>0, <2>1 DEF Typed
  <2>3. \A i \in MaxBookmarks .. NRBOOKMARKS - 1 : cache'.slot[i] = cache.slot[i]
    <3>1. CASE EditBookmarks
      <4>1. PICK s \in UserBookmarks[version[play]] :
              bm' = Bookmarked(bm, s) /\ cache' = Overwrite(cache, bm'.slot, Len(s))
        BY <3>1 DEF EditBookmarks
      <4>2. SoundArea(bm') /\ Len(s) \in 0 .. MaxBookmarks
        BY <1>0, <2>2, <4>1, BookmarkedSound DEF AreasSound
      <4>3. \A i \in Slots : bm'.slot[i] \in Dword
        BY <4>2, AreaShaped DEF SoundArea
      <4> QED BY <1>0, <4>1, <4>2, <4>3, OverwriteSound DEF AreasSound
    <3>2. CASE FirmwareBookmark
      <4>1. PICK s \in UserBookmarks[version[play]] : cache' = Bookmarked(cache, s)
        BY <3>2 DEF FirmwareBookmark
      <4> QED BY <1>0, <2>2, <4>1, BookmarkedSound DEF AreasSound
    <3> QED BY <1>4, <3>1, <3>2
  <2>4. AreaWithin(cache, marked[play]) /\ cache \in Area
    BY <1>0, <2>1 DEF AreasMarked, AreasSound, SoundArea
  <2>5. AreaWithin(cache', marked[play])
    BY <2>3, <2>4, WithinStable
  <2>6. FilesMarked' /\ AreasMarked'
    BY <1>0, <2>1, <2>5 DEF FilesMarked, AreasMarked
  <2> QED BY <1>0, <2>1, <2>6 DEF MarkedInv
<1>5. CASE Hide \/ ExitMC
  <2>1. /\ Ready /\ osd = "shown" /\ play \in Recs /\ CutFileSave(play)
        /\ marked' = [marked EXCEPT ![play] = @ \cup Inner(list)]
        /\ play' = play /\ inf' = inf
    BY <1>0, <1>5 DEF Hide, ExitMC, LeftBehind, Typed
  <2>2. /\ FilesMarked' /\ marked' = [r \in Recs |-> marked'[r]]
        /\ marked'[play] = marked[play] \cup Inner(list)
        /\ \A r \in Recs : marked[r] \subseteq marked'[r]
    BY <1>0, <2>1, SaveMarks
  <2>3. Proper(list, version[play]) /\ version[play] \in Versions
    BY <1>0, <2>1 DEF ListSound, Typed
  <2>4. /\ AreaWithin(CutEncodeToBM(list, bm, End), Inner(list))
        /\ AreaWithin(CutEncodeToBM(list, cache, End), Inner(list))
    BY <1>0, <2>3, EncodedWithin, EndIsOne DEF AreasSound
  <2>5. \/ cache' = cache \/ cache' = CutEncodeToBM(list, bm, End)
        \/ cache' = CutEncodeToBM(list, cache, End)
    <3>1. CASE Hide
      BY <3>1 DEF Hide, CutSaveToBM
    <3>2. CASE ExitMC
      BY <3>2 DEF ExitMC
    <3> QED BY <1>5, <3>1, <3>2
  <2>6. AreaWithin(cache, marked[play])
    BY <1>0, <2>1 DEF AreasMarked
  <2>7. /\ Inner(list) \subseteq marked'[play] /\ marked[play] \subseteq marked'[play]
    BY <2>2
  <2>8. AreaWithin(cache', marked'[play])
    BY <2>4, <2>5, <2>6, <2>7, WithinMore
  <2>9. \A r \in Recs : AreaWithin(inf[r], marked'[r])
    BY <1>0, <2>2, WithinMore DEF AreasMarked
  <2>10. AreasMarked'
    BY <2>1, <2>8, <2>9 DEF AreasMarked
  <2> QED BY <2>2, <2>10 DEF MarkedInv
<1>6. CASE Saved
  <2>1. /\ saving # None /\ saving' = None /\ UNCHANGED <<inf, play, cache, marked>>
        /\ cut' = [cut EXCEPT ![saving.rec] = saving.file] /\ saving.rec \in Recs
    BY <1>0, <1>6 DEF Saved, player, FilesSound
  <2>2. /\ cut'[saving.rec] = saving.file
        /\ \A r \in Recs \ {saving.rec} : cut'[r] = cut[r]
    BY <1>0, <2>1 DEF FilesSound
  <2>3. FilesMarked' /\ AreasMarked'
    BY <1>0, <2>1, <2>2 DEF FilesMarked, AreasMarked
  <2> QED BY <1>0, <2>1, <2>3 DEF MarkedInv
<1>7. CASE PlaybackEnds
  <2>1. /\ Ready /\ play \in Recs /\ play' = None /\ inf' = [inf EXCEPT ![play] = cache]
        /\ IF osd = "shown" THEN CutFileSave(play) /\ LeftBehind(play, "ended")
                            ELSE UNCHANGED <<cut, saving, behind>>
    BY <1>0, <1>7 DEF PlaybackEnds, Typed
  <2>2. /\ FilesMarked' /\ marked' = [r \in Recs |-> marked'[r]]
        /\ \A r \in Recs : marked[r] \subseteq marked'[r]
    <3>1. CASE osd = "shown"
      <4>1. CutFileSave(play) /\ marked' = [marked EXCEPT ![play] = @ \cup Inner(list)]
        BY <2>1, <3>1 DEF LeftBehind
      <4> QED BY <1>0, <2>1, <4>1, SaveMarks
    <3>2. CASE osd # "shown"
      <4>1. UNCHANGED <<cut, saving, marked>>
        BY <2>1, <3>2
      <4> QED BY <1>0, <4>1 DEF FilesMarked
    <3> QED BY <3>1, <3>2
  <2>3. inf'[play] = cache /\ \A r \in Recs \ {play} : inf'[r] = inf[r]
    BY <1>0, <2>1 DEF AreasSound
  <2>4. ASSUME NEW r \in Recs PROVE AreaWithin(inf'[r], marked'[r])
    <3>1. AreaWithin(inf'[r], marked[r])
      BY <1>0, <2>1, <2>3 DEF AreasMarked
    <3> QED BY <2>2, <3>1, WithinMore
  <2>5. AreasMarked'
    BY <2>1, <2>4 DEF AreasMarked
  <2> QED BY <2>2, <2>5 DEF MarkedInv
<1>8. CASE SwitchOff
  <2>1. play' = None /\ saving' = None /\ inf' = inf /\ marked' = marked
    BY <1>8 DEF SwitchOff
  <2>2. AreasMarked'
    BY <1>0, <2>1 DEF AreasMarked
  <2>3. FilesMarked'
    <3>1. CASE saving = None
      <4>1. cut' = cut
        BY <1>8, <3>1 DEF SwitchOff
      <4> QED BY <1>0, <2>1, <4>1 DEF FilesMarked
    <3>2. CASE saving # None
      <4> DEFINE f == saving.file
      <4>1. /\ saving.rec \in Recs /\ Filed(f) /\ Inner(f.list) \subseteq marked[saving.rec]
        BY <1>0, <3>2 DEF FilesSound, FilesMarked
      <4>2. PICK part \in {Unreadable} \cup {[f EXCEPT !.list = SubSeq(@, 1, n)] :
                                               n \in 0 .. Len(f.list)} :
              cut' = [cut EXCEPT ![saving.rec] = part]
        BY <1>8, <3>2 DEF SwitchOff
      <4>3. Inner(part.list) \subseteq marked[saving.rec]
        <5>1. CASE part = Unreadable
          <6>1. Unreadable.list = <<>>
            BY DEF Unreadable
          <6> QED BY <5>1, <6>1, EmptyInner
        <5>2. CASE part # Unreadable
          <6>1. PICK n \in 0 .. Len(f.list) : part = [f EXCEPT !.list = SubSeq(@, 1, n)]
            BY <4>2, <5>2
          <6> HIDE DEF f
          <6>2. f = [size |-> f.size, list |-> f.list, ok |-> f.ok] /\ f.list \in Seq(Marker)
            BY <4>1 DEF Filed, Storable
          <6>3. part.list = SubSeq(f.list, 1, n)
            BY <6>1, <6>2
          <6>4. Inner(part.list) \subseteq Inner(f.list)
            BY <6>2, <6>3, PartFrom
          <6> QED BY <4>1, <6>4
        <5> QED BY <5>1, <5>2
      <4>4. /\ cut'[saving.rec] = part /\ \A q \in Recs \ {saving.rec} : cut'[q] = cut[q]
        BY <1>0, <4>1, <4>2 DEF FilesSound
      <4> QED BY <1>0, <2>1, <4>1, <4>3, <4>4 DEF FilesMarked
    <3> QED BY <3>1, <3>2
  <2> QED BY <1>0, <2>1, <2>2, <2>3 DEF MarkedInv
<1> QED
  BY <1>1, <1>2, <1>3, <1>4, <1>5, <1>6, <1>7, <1>8 DEF Next

\* What CutFileLoad finds is made of those markers.
LEMMA AcceptOwn ==
  ASSUME MarkedInv, ProperInv, Accept, play \notin Media, ~OtherVersion(cut[play], version[play])
  PROVE  Inner(list') \subseteq marked[play]
<1> DEFINE v == version[play]
           f == cut[play]
<1>1. /\ play \in Recs /\ bm' = cache /\ CutFileLoad(f, v) /\ v \in Versions
      /\ cache \in Area /\ AreaWithin(cache, marked[play])
      /\ f # None => Storable(f.list) /\ Inner(f.list) \subseteq marked[play]
  BY DEF ProperInv, Typed, Accept, ReadBookmarks, AreasSound, SoundArea, FilesSound,
         MarkedInv, FilesMarked, AreasMarked
<1>2. <<>> \in Seq(Marker)
  OBVIOUS
<1>3. CASE f # None /\ f.ok
  <2>1. list' = Normalised(FromFile(f, v, bm'), v)
    BY <1>1, <1>3 DEF CutFileLoad
  <2>2. FromFile(f, v, bm') = f.list \/ FromFile(f, v, bm') = <<>>
    BY <1>3 DEF FromFile, OtherVersion
  <2>3. f.list \in Seq(Marker) /\ Inner(f.list) \subseteq marked[play]
    BY <1>1, <1>3 DEF Storable
  <2> HIDE DEF f, v
  <2>4. \/ Inner(list') \subseteq Inner(f.list)
        \/ Inner(list') \subseteq Inner(<<>>)
    BY <1>1, <1>2, <2>1, <2>2, <2>3, NormalisedFrom
  <2> QED BY <2>3, <2>4, EmptyInner
<1>4. CASE ~(f # None /\ f.ok) /\ CutFileMode # "cut" /\ Encoded(bm')
  <2> DEFINE d == CutDecodeFromBM(cache, v)
  <2>1. list' = Normalised(d, v)
    BY <1>1, <1>4 DEF CutFileLoad
  <2>2. Inner(d) \subseteq marked[play]
    BY <1>1, <1>4 DEF AreaWithin
  <2>3. d \in Seq(Marker)
    BY <1>1, DecodeTyped
  <2> HIDE DEF d, f, v
  <2>4. Inner(list') \subseteq Inner(d)
    BY <1>1, <2>1, <2>3, NormalisedFrom
  <2> QED BY <2>2, <2>4
<1>5. CASE ~(f # None /\ f.ok) /\ ~(CutFileMode # "cut" /\ Encoded(bm'))
  <2>1. list' = Default(v)
    BY <1>1, <1>5 DEF CutFileLoad
  <2>2. list' = Normalised(<<>>, v)
    BY <2>1 DEF Normalised
  <2> HIDE DEF f, v
  <2>3. Inner(list') \subseteq Inner(<<>>)
    BY <1>1, <1>2, <2>2, NormalisedFrom
  <2> QED BY <2>3, EmptyInner
<1> QED
  BY <1>3, <1>4, <1>5

\* Of a recording with an .inf file, CutFileLoad shows no marker between the ends but
\* where the user left one in this recording (import from another version aside): none of
\* a recording or media file played before, none read out of bookmarks or of an area for
\* another receiver, none out of the rest of a file after a power failure.
THEOREM ListIsOwn == Spec => OwnList
<1>1. Init => MarkedInv /\ ProperInv
  BY MarkedInit, ProperInit
<1>2. MarkedInv /\ ProperInv /\ [Next]_vars => (MarkedInv /\ ProperInv)'
  BY MarkedNext, ProperNext
<1>3. MarkedInv /\ ProperInv /\ [Next]_vars =>
        [Accept /\ play \notin Media /\ ~OtherVersion(cut[play], version[play])
           => Inner(list') \subseteq marked[play]]_vars
  BY AcceptOwn
<1> QED
  BY <1>1, <1>2, <1>3, PTL DEF Spec, OwnList
=============================================================================
