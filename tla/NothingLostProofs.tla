-------------------------- MODULE NothingLostProofs --------------------------
(***************************************************************************)
(* No block of a recording is lost: jobs that keep the segments lose no    *)
(* more than tails, and jobs that delete them take no more than was asked  *)
(* for, give or take the firmware's precision.  Where nothing goes wrong   *)
(* no job fails.  All rest on the inductive invariant of CutProcessProofs. *)
(***************************************************************************)
EXTENDS CutProcessProofs

-----------------------------------------------------------------------------
(* Saving loses nothing but tails.                                         *)

\* The lists the user can have made are in order and end with the recording.
ListsInOrder ==
  \A size \in 1 .. NrBlocks : \A l \in MarkerLists(size) :
    /\ l[Len(l)].block = size
    /\ \A j, k \in DOMAIN l : j < k => l[j].block < l[k].block

\* The last segment of the recording is one of those the user chose.
LastAsked == \E S \in asked.segs : Size(asked.rec) - 1 \in {Pos(asked.rec, x) : x \in S}

\* Segments the loop may still take; of these, those whose tail is not yet cut off.
Rest == IF ~job.multi THEN 1 ELSE IF job.left < Nr - 2 THEN job.left ELSE Nr - 2
Open ==
  IF pc \in {"next", "cut", "truncate"} THEN Rest
  ELSE IF pc \in Working THEN Rest - 1 ELSE 0

\* The list and the recording agree when a job starts.
InOrder(ms, size) ==
  /\ ms[Len(ms)].block = size
  /\ \A k \in 1 .. Len(ms) : 0 <= ms[k].block
  /\ \A j, k \in 1 .. Len(ms) : j < k => ms[j].block < ms[k].block
Fresh == pc = "edit" => Size(rec) # 0 /\ total = Size(rec) /\ InOrder(markers, Size(rec))
Several == pc \in Working /\ job.multi => 3 <= Len(markers) /\ 1 <= job.left
\* Each tail that was cut off belongs to one of the segments asked for.
TailBudget ==
  asked.keep =>
    /\ IsFiniteSet(Lost) /\ IsFiniteSet(asked.segs)
    /\ \E t \in Nat : /\ t + Open <= Cardinality(asked.segs)
                      /\ Cardinality(Lost) <= 2 * Radius * t
\* The end is cut off only if it was asked for.
InnerOnly ==
  asked.keep /\ ~LastAsked =>
    /\ Lost = {}
    /\ pc \in Working => ~job.split
    /\ pc = "next" => IF job.multi THEN job.i < Nr - 2 \/ ~At(Nr - 2).sel
                                   ELSE job.active < Nr - 2
    /\ pc \in Chosen => cut.w < Nr - 2 /\ ~cut.trunc
SInv == Fresh /\ Several /\ TailBudget /\ InnerOnly

LEMMA PresentBlocks ==
  ASSUME NEW x
  PROVE  /\ x \in Present  <=> x \in rec \/ x \in temp \/ \E n \in Names : x \in cuts[n]
         /\ x \in Present' <=> x \in rec' \/ x \in temp' \/ \E n \in Names : x \in cuts'[n]
BY DEF Present

\* Of all steps of a job that keeps the segments only the truncation loses a block.
LEMMA OnlyTruncationLoses ==
  ASSUME CInv, Temporary, asked.keep, Next \/ UNCHANGED vars, ~Truncate
  PROVE  Present \subseteq Present'
<1>0. /\ cuts \in [Names -> SUBSET Nat]
      /\ pc # "edit" => job.keep
      /\ pc \in Chosen => cut.name \in Names
      /\ pc = "cut" => cuts[cut.name] = {}
      /\ cut.special /\ pc = "swap" => cuts[cut.name] = {}
  BY DEF CInv, Files, Runs, Work, FreeCuts, Chosen, Working
<1>1. CASE UNCHANGED <<rec, temp, cuts>>
  BY <1>1 DEF Present
<1>2. CASE Choose
  <2>1. pc = "next" /\ temp' \in {temp, {}} /\ UNCHANGED <<rec, cuts>>
    BY <1>2 DEF Choose
  <2>2. temp = {}
    BY <2>1 DEF Temporary, Ended
  <2> QED
    BY <1>1, <2>1, <2>2
<1>3. CASE Cut
  <2>1. PICK s, e \in 0 .. Size(rec) :
          /\ rec' = rec \ Part(rec, s, e)
          /\ temp' = IF cut.special THEN Part(rec, s, e) ELSE temp
          /\ cuts' = IF cut.special THEN cuts
                     ELSE [cuts EXCEPT ![cut.name] = Part(rec, s, e)]
    BY <1>3, CutRange
  <2>2. pc = "cut" /\ temp = {} /\ cut.name \in Names /\ cuts[cut.name] = {}
    BY <1>0, <1>3 DEF Cut, Temporary, Ended, Chosen, Working
  <2> DEFINE P == Part(rec, s, e)
  <2> SUFFICES ASSUME NEW x \in Present PROVE x \in Present'
    OBVIOUS
  <2>3. x \in rec \/ \E n \in Names : x \in cuts[n]
    BY <2>2, PresentBlocks
  <2>4. CASE x \in rec /\ x \notin P
    BY <2>1, <2>4, PresentBlocks
  <2>5. CASE x \in P
    <3>1. CASE cut.special
      BY <2>1, <2>5, <3>1, PresentBlocks
    <3>2. CASE ~cut.special
      <4>1. cuts'[cut.name] = P
        BY <1>0, <2>1, <2>2, <3>2
      <4> QED
        BY <2>2, <2>5, <4>1, PresentBlocks
    <3> QED
      BY <3>1, <3>2
  <2>6. CASE \E n \in Names : x \in cuts[n]
    <3>1. PICK n \in Names : x \in cuts[n]
      BY <2>6
    <3>2. n # cut.name
      BY <2>2, <3>1
    <3>3. cuts'[n] = cuts[n]
      BY <1>0, <2>1, <3>2
    <3> QED
      BY <3>1, <3>3, PresentBlocks
  <2> QED
    BY <2>3, <2>4, <2>5, <2>6
<1>4. CASE Tidy
  <2>1. pc = "tidy" /\ UNCHANGED <<rec, temp>> /\ (job.keep => cuts' = cuts)
    BY <1>4 DEF Tidy, Kept
  <2> QED
    BY <1>0, <1>1, <2>1
<1>5. CASE Swap
  <2>1. /\ pc = "swap" /\ UNCHANGED temp
        /\ \/ cut.special /\ cuts' = [cuts EXCEPT ![cut.name] = rec]
           \/ UNCHANGED <<rec, cuts>>
    BY <1>5 DEF Swap
  <2>2. CASE cut.special /\ cuts' = [cuts EXCEPT ![cut.name] = rec]
    <3>0. cut.name \in Names /\ cuts[cut.name] = {}
      BY <1>0, <2>1, <2>2 DEF Chosen, Working
    <3>1. cuts'[cut.name] = rec /\ \A n \in Names : n # cut.name => cuts'[n] = cuts[n]
      BY <1>0, <2>2, <3>0
    <3> SUFFICES ASSUME NEW x \in Present PROVE x \in Present'
      OBVIOUS
    <3>2. x \in rec \/ x \in temp \/ \E n \in Names : x \in cuts[n]
      BY PresentBlocks
    <3>3. CASE x \in rec
      BY <3>0, <3>1, <3>3, PresentBlocks
    <3>4. CASE x \in temp
      BY <2>1, <3>4, PresentBlocks
    <3>5. CASE \E n \in Names : x \in cuts[n]
      BY <3>0, <3>1, <3>5, PresentBlocks
    <3> QED
      BY <3>2, <3>3, <3>4, <3>5
  <2> QED
    BY <1>1, <2>1, <2>2
<1>6. CASE SwapBack
  <2>1. /\ UNCHANGED cuts
        /\ \/ rec = {} /\ rec' = temp
           \/ UNCHANGED <<rec, temp>>
    BY <1>6 DEF SwapBack
  <2> QED
    BY <2>1 DEF Present
<1>7. CASE SaveOrDelete \/ Split
  <2>1. UNCHANGED <<rec, temp, cuts>>
    BY <1>7 DEF SaveOrDelete, Split, Process, files
  <2> QED
    BY <1>1, <2>1
<1> QED
  BY <1>1, <1>2, <1>3, <1>4, <1>5, <1>6, <1>7
  DEF Next, Step, Skip, Patch, CutFails, TruncateFails, Restart, Adjust, Save, SwitchOff,
      Load, vars, disk, files

\* What the truncation loses is a tail of at most 2 * Radius blocks.
LEMMA TruncationLosesATail ==
  ASSUME CInv, asked.keep, Truncate, IsFiniteSet(Lost)
  PROVE  /\ IsFiniteSet(Lost') /\ Cardinality(Lost) \in Nat /\ Cardinality(Lost') \in Nat
         /\ Cardinality(Lost') <= Cardinality(Lost) + 2 * Radius
<1>1. /\ pc = "truncate" /\ rec' = Part(rec, 0, TruncateAt)
      /\ UNCHANGED <<temp, cuts, asked>>
  BY DEF Truncate
<1>2. /\ job.keep /\ Size(rec) - cut.start <= 2 * Radius /\ rec \subseteq Ids /\ cut \in CutType
  BY <1>1 DEF CInv, Files, Runs, Records, Work, Chosen, Working
<1>3. Size(rec) \in Nat /\ IsFiniteSet(rec) /\ rec \subseteq Nat
  <2>1. Size(rec) \in 0 .. NrBlocks /\ IsFiniteSet(rec) /\ rec \subseteq Nat
    BY <1>2, FilesAreFinite
  <2> QED
    BY <2>1
<1> DEFINE t == cut.start
           n == IF t < 0 THEN 0 ELSE IF t > Size(rec) THEN Size(rec) ELSE t
           tail == rec \ Part(rec, 0, n)
<1>4. t \in Int /\ Size(rec) - t <= 2 * Radius /\ rec' = Part(rec, 0, t)
  BY <1>1, <1>2 DEF TruncateAt, CutType
<1> HIDE DEF t
<1>5. n \in Nat /\ 0 <= n /\ n <= Size(rec) /\ Size(rec) - n <= 2 * Radius
  BY <1>3, <1>4, IdsAreFinite
<1>6. Part(rec, 0, n) = rec'
  <2>1. \A x \in rec : Pos(rec, x) \in 0 .. Size(rec) - 1
    BY <1>3, PositionInFile
  <2>2. \A x \in rec : Pos(rec, x) < n <=> Pos(rec, x) < t
    BY <1>3, <1>4, <2>1
  <2> HIDE DEF n
  <2> QED
    BY <1>4, <2>2 DEF Part
<1> HIDE DEF n
<1>7. Size(tail) = Size(rec) - n
  <2>1. 0 \in Nat
    OBVIOUS
  <2>2. Size(tail) = Size(rec) - (n - 0)
    BY <1>3, <1>5, <2>1, PartSize
  <2> QED
    BY <1>3, <1>5, <2>2
<1>8. IsFiniteSet(tail)
  BY <1>3, FS_Subset
<1>9. Lost' \subseteq Lost \cup tail
  <2> SUFFICES ASSUME NEW x \in Lost', x \notin Lost PROVE x \in tail
    OBVIOUS
  <2>1. x \in asked.files /\ x \notin Present'
    BY <1>1 DEF Lost
  <2>2. x \in Present
    BY <2>1 DEF Lost
  <2>3. x \in rec /\ x \notin rec'
    BY <1>1, <2>1, <2>2, PresentBlocks
  <2> QED
    BY <1>6, <2>3
<1> HIDE DEF tail
<1>10. /\ IsFiniteSet(Lost \cup tail) /\ IsFiniteSet(Lost \cap tail)
       /\ Cardinality(Lost \cup tail)
            = Cardinality(Lost) + Cardinality(tail) - Cardinality(Lost \cap tail)
  BY <1>8, FS_Union, FS_Subset
<1>11. Cardinality(Lost) \in Nat /\ Cardinality(tail) \in Nat
       /\ Cardinality(Lost \cap tail) \in Nat /\ Cardinality(Lost \cup tail) \in Nat
  BY <1>8, <1>10, FS_CardinalityType
<1>12. IsFiniteSet(Lost') /\ Cardinality(Lost') <= Cardinality(Lost \cup tail)
  BY <1>9, <1>10, FS_Subset
<1>13. Cardinality(Lost') \in Nat
  BY <1>12, FS_CardinalityType
<1>14. Cardinality(tail) <= 2 * Radius
  BY <1>5, <1>7 DEF Size
<1> QED
  BY <1>10, <1>11, <1>12, <1>13, <1>14, IdsAreFinite

LEMMA LoadedInOrder ==
  ASSUME ListsInOrder, NEW F, F \subseteq Ids, Size(F) # 0, NEW l \in MarkerLists(Size(F)),
         NEW ms, ms = [k \in DOMAIN l |-> Marker(l[k].block, F, l[k].sel)]
  PROVE  InOrder(ms, Size(F))
<1>1. Size(F) \in 1 .. NrBlocks
  BY FilesAreFinite
<1>2. l \in Seq([block : 0 .. Size(F), sel : BOOLEAN]) /\ 2 <= Len(l)
  BY <1>1, ListsAssumption
<1>3. /\ l[Len(l)].block = Size(F)
      /\ \A j, k \in DOMAIN l : j < k => l[j].block < l[k].block
  BY <1>1 DEF ListsInOrder
<1>4. DOMAIN l = 1 .. Len(l) /\ Len(l) \in Nat /\ Len(l) \in 1 .. Len(l)
  BY <1>2
<1>5. \A k \in 1 .. Len(l) : l[k].block \in 0 .. Size(F)
  <2> TAKE k \in 1 .. Len(l)
  <2> DEFINE R == [block : 0 .. Size(F), sel : BOOLEAN]
  <2>1. l[k] \in R
    <3>1. l \in Seq(R)
      BY <1>2
    <3> HIDE DEF R
    <3> QED
      BY <3>1
  <2> QED
    BY <2>1
<1>6. Len(ms) = Len(l) /\ \A k \in 1 .. Len(l) : ms[k].block = l[k].block
  BY <1>4 DEF Marker
<1>7. \A k \in 1 .. Len(l) : 0 <= l[k].block
  BY <1>1, <1>5, SMTT(30)
<1> QED
  BY <1>3, <1>4, <1>6, <1>7 DEF InOrder

LEMMA FreshKept ==
  ASSUME CInv, Fresh, ListsInOrder, Next \/ UNCHANGED vars
  PROVE  Fresh'
<1>1. CASE pc' # "edit"
  BY <1>1 DEF Fresh
<1>2. CASE Load
  <2>1. rec \subseteq Ids /\ Size(rec) # 0 /\ rec' = rec /\ total' = Size(rec)
    <3>1. rec \subseteq Ids
      BY DEF CInv, Files
    <3>2. Size(rec) > 1 /\ rec' = rec /\ total' = Size(rec)
      BY <1>2 DEF Load, files
    <3> QED
      BY <3>1, <3>2
  <2>2. PICK l \in MarkerLists(Size(rec)) :
          markers' = [k \in DOMAIN l |-> Marker(l[k].block, rec, l[k].sel)]
    BY <1>2 DEF Load
  <2>3. InOrder(markers', Size(rec))
    BY <2>1, <2>2, LoadedInOrder
  <2> QED
    BY <2>1, <2>3 DEF Fresh, InOrder, Size
<1>3. CASE UNCHANGED vars
  BY <1>3 DEF Fresh, InOrder, Size, vars, disk, files
<1> QED
  BY <1>1, <1>2, <1>3, JobStarts
  DEF Next, Step, Skip, Choose, Patch, Cut, CutFails, Truncate, TruncateFails, Tidy, Swap,
      SwapBack, Restart, Adjust, Save, SwitchOff

\* Where a job starts the last segment ends with the recording, and all segments
\* have blocks of their own.
LEMMA SegmentsDiffer ==
  ASSUME CInv, Fresh, pc = "edit", NEW C \in SUBSET Segments
  PROVE  /\ IsFiniteSet(C) /\ IsFiniteSet({SegmentIds(i) : i \in C})
         /\ Cardinality({SegmentIds(i) : i \in C}) = Cardinality(C)
<1>0. /\ rec \subseteq Ids /\ markers \in Seq(MarkerType) /\ 2 <= Len(markers)
      /\ InOrder(markers, Size(rec))
  BY DEF CInv, Files, List, Fresh
<1>1. Size(rec) \in Nat /\ IsFiniteSet(rec) /\ rec \subseteq Nat
  <2>1. Size(rec) \in 0 .. NrBlocks /\ IsFiniteSet(rec) /\ rec \subseteq Nat
    BY <1>0, FilesAreFinite
  <2> QED
    BY <2>1
<1>2. \A k \in 1 .. Len(markers) : markers[k].block \in Nat /\ markers[k].block <= Size(rec)
  <2> TAKE k \in 1 .. Len(markers)
  <2>1. markers[k].block \in Int
    <3>1. markers[k] \in MarkerType
      BY <1>0
    <3> QED
      BY <3>1 DEF MarkerType
  <2>2. 0 <= markers[k].block /\ markers[Len(markers)].block = Size(rec)
        /\ (k < Len(markers) => markers[k].block < markers[Len(markers)].block)
    BY <1>0 DEF InOrder
  <2>3. k = Len(markers) \/ k < Len(markers)
    BY <1>0
  <2> QED
    BY <1>1, <2>1, <2>2, <2>3
<1>3. /\ \A i \in Segments : Block(i) \in 0 .. Size(rec) - 1 /\ Block(i) < Block(i + 1)
                             /\ Block(i + 1) \in Nat
      /\ \A i, j \in Segments : i < j => Block(i + 1) <= Block(j)
  <2>1. \A i \in Segments : i + 1 \in 1 .. Len(markers) /\ i + 2 \in 1 .. Len(markers)
                            /\ i \in Int
    BY <1>0 DEF Segments, Nr
  <2>2. \A i : Block(i) = markers[i + 1].block
    BY DEF Block, At
  <2>3. \A i \in Segments : Block(i + 1) = markers[i + 2].block
    <3> TAKE i \in Segments
    <3>1. (i + 1) + 1 = i + 2
      BY <2>1
    <3> QED
      BY <2>2, <3>1
  <2>4. \A i \in Segments : Block(i) < Block(i + 1)
    <3> TAKE i \in Segments
    <3>1. i + 1 < i + 2
      BY <2>1
    <3> QED
      BY <1>0, <2>1, <2>2, <2>3, <3>1 DEF InOrder
  <2>5. \A i \in Segments : Block(i) \in Nat /\ Block(i + 1) \in Nat /\ Block(i + 1) <= Size(rec)
    BY <1>2, <2>1, <2>2, <2>3
  <2>6. \A i, j \in Segments : i < j => Block(i + 1) <= Block(j)
    <3> SUFFICES ASSUME NEW i \in Segments, NEW j \in Segments, i < j
                 PROVE  Block(i + 1) <= Block(j)
      OBVIOUS
    <3>1. i + 2 = j + 1 \/ i + 2 < j + 1
      BY <2>1
    <3>2. CASE i + 2 = j + 1
      <4>1. Block(i + 1) = Block(j)
        BY <2>2, <2>3, <3>2
      <4> QED
        BY <2>5, <4>1
    <3>3. CASE i + 2 < j + 1
      <4>1. markers[i + 2].block < markers[j + 1].block
        BY <1>0, <2>1, <3>3 DEF InOrder
      <4>2. Block(i + 1) < Block(j)
        BY <2>2, <2>3, <4>1
      <4> QED
        BY <2>5, <4>2
    <3> QED
      BY <3>1, <3>2, <3>3
  <2>7. \A i \in Segments : Block(i) \in 0 .. Size(rec) - 1
    <3> TAKE i \in Segments
    <3>1. Block(i) \in Nat /\ Block(i + 1) \in Nat /\ Block(i + 1) <= Size(rec)
          /\ Block(i) < Block(i + 1)
      BY <2>4, <2>5
    <3> QED
      BY <1>1, <3>1
  <2> QED
    BY <2>4, <2>5, <2>6, <2>7
<1>4. \A i, j \in Segments : i < j => SegmentIds(i) # SegmentIds(j)
  <2> SUFFICES ASSUME NEW i \in Segments, NEW j \in Segments, i < j
               PROVE  SegmentIds(i) # SegmentIds(j)
    OBVIOUS
  <2>1. PICK x \in rec : Pos(rec, x) = Block(i)
    BY <1>1, <1>3, PositionIsTaken
  <2>2. /\ Block(i) \in Nat /\ Block(i) < Block(i + 1) /\ Block(i + 1) <= Block(j)
        /\ Block(i + 1) \in Nat /\ Block(j) \in Nat
    BY <1>3
  <2>3. x \in SegmentIds(i)
    BY <2>1, <2>2 DEF SegmentIds, Part
  <2>4. x \notin SegmentIds(j)
    BY <2>1, <2>2 DEF SegmentIds, Part
  <2> QED
    BY <2>3, <2>4
<1>5. IsFiniteSet(C)
  <2> DEFINE b == Nr - 2
  <2>1. b \in Int
    BY <1>0 DEF Nr
  <2>2. C \subseteq 0 .. b
    BY DEF Segments
  <2> HIDE DEF b
  <2>3. IsFiniteSet(0 .. b)
    BY <2>1, FS_Interval
  <2> QED
    BY <2>2, <2>3, FS_Subset
<1> DEFINE f == [i \in C |-> SegmentIds(i)]
           S == {SegmentIds(i) : i \in C}
<1>6. f \in Bijection(C, S)
  <2>1. \A i, j \in C : f[i] = f[j] => i = j
    <3> SUFFICES ASSUME NEW i \in C, NEW j \in C, SegmentIds(i) = SegmentIds(j)
                 PROVE  i = j
      OBVIOUS
    <3>1. i \in Segments /\ j \in Segments /\ i \in Int /\ j \in Int
      BY <1>0 DEF Segments, Nr
    <3>2. ~(i < j) /\ ~(j < i)
      BY <1>4, <3>1
    <3> QED
      BY <3>1, <3>2
  <2> QED
    BY <2>1 DEF Bijection, Injection, IsInjective, Surjection
<1>7. ExistsBijection(C, S)
  BY <1>6 DEF ExistsBijection
<1>8. IsFiniteSet(S) /\ Cardinality(S) = Cardinality(C)
  BY <1>5, <1>7, FS_Bijection
<1> QED
  BY <1>5, <1>8

LEMMA LastSegmentHasTheEnd ==
  ASSUME CInv, Fresh, pc = "edit", NEW b \in Int, b < Size(rec),
         NEW e \in Int, e >= Size(rec)
  PROVE  Size(rec) - 1 \in {Pos(rec, x) : x \in Part(rec, b, e)}
<1>1. rec \subseteq Ids /\ Size(rec) # 0
  BY DEF CInv, Files, Fresh
<1>2. Size(rec) \in 0 .. NrBlocks /\ IsFiniteSet(rec) /\ rec \subseteq Nat
  BY <1>1, FilesAreFinite
<1>3. PICK x \in rec : Pos(rec, x) = Size(rec) - 1
  <2>1. Size(rec) - 1 \in 0 .. Size(rec) - 1
    BY <1>1, <1>2
  <2> QED
    BY <1>2, <2>1, PositionIsTaken
<1>4. x \in Part(rec, b, e)
  BY <1>2, <1>3 DEF Part
<1> QED
  BY <1>3, <1>4

\* A job of the menu starts with as many segments to take as the user chose, and
\* with the last one only if he chose that.
LEMMA SaveStarts ==
  ASSUME CInv, Fresh, SaveOrDelete
  PROVE  /\ markers' = markers /\ 3 <= Len(markers') /\ ~job'.split
         /\ job'.multi => 1 <= job'.left /\ job'.left \in Int
         /\ IsFiniteSet(asked'.segs) /\ Rest' <= Cardinality(asked'.segs)
         /\ Rest' \in Int /\ Cardinality(asked'.segs) \in Nat
         /\ asked'.rec = rec
         /\ \A S : S = SegmentIds(Nr - 2) /\ S \notin asked'.segs
                   => IF job'.multi THEN ~At(Nr - 2).sel ELSE job'.active < Nr - 2
<1> DEFINE sel == {i \in Segments : At(i).sel}
           ch(a) == IF sel = {} THEN {a} ELSE IF sel = Segments THEN sel \ {0} ELSE sel
<1>1. PICK keep \in BOOLEAN, active \in Segments :
        /\ Process(keep, FALSE, markers, active)
        /\ Asked({SegmentIds(i) : i \in ch(active)}, keep, FALSE)
  BY DEF SaveOrDelete
<1> DEFINE chosen == ch(active)
<1>2. pc = "edit" /\ Nr > 2 /\ markers \in Seq(MarkerType)
  BY DEF SaveOrDelete, CInv, List
<1>3. Len(markers) \in Nat /\ 3 <= Len(markers) /\ Nr = Len(markers) /\ Nr \in Nat
  BY <1>2 DEF Nr
<1> DEFINE multi == ~FALSE /\ sel # {}
           left  == IF multi THEN Cardinality(sel) ELSE 1
<1>4. /\ markers' = markers
      /\ job' = [keep |-> keep, split |-> FALSE, multi |-> multi, left |-> left,
                 i |-> Len(markers) - 2, active |-> active]
      /\ asked'.segs = {SegmentIds(i) : i \in chosen} /\ asked'.rec = rec
  <2>1. {i \in 0 .. Len(markers) - 2 : markers[i + 1].sel} = sel
    BY DEF Segments, Nr, At
  <2> HIDE DEF sel
  <2>2. /\ markers' = markers
        /\ job' = [keep |-> keep, split |-> FALSE, multi |-> multi, left |-> left,
                   i |-> Len(markers) - 2, active |-> active]
    BY <1>1, <2>1 DEF Process
  <2> QED
    BY <1>1, <2>2 DEF Asked
<1>5. Cardinality(Segments) = Nr - 1 /\ IsFiniteSet(Segments) /\ 0 \in Segments
  <2> DEFINE b == Nr - 2
  <2>1. b \in Int /\ 0 <= b /\ Segments = 0 .. b
    BY <1>3 DEF Segments
  <2> HIDE DEF b
  <2>2. IsFiniteSet(0 .. b) /\ Cardinality(0 .. b) = IF 0 > b THEN 0 ELSE b - 0 + 1
    BY <2>1, FS_Interval
  <2>3. Cardinality(Segments) = b + 1
    BY <2>1, <2>2
  <2>4. IsFiniteSet(Segments) /\ 0 \in Segments
    BY <2>1, <2>2
  <2> QED
    BY <1>3, <2>3, <2>4 DEF b
<1>6. chosen \subseteq Segments /\ sel \subseteq Segments
  OBVIOUS
<1>7. /\ IsFiniteSet(sel) /\ Cardinality(sel) \in Nat /\ IsFiniteSet(chosen)
      /\ Cardinality(chosen) \in Nat
      /\ Cardinality(sel) = 0 <=> sel = {}
  <2> HIDE DEF sel, chosen
  <2> QED
    BY <1>5, <1>6, FS_Subset, FS_CardinalityType, FS_EmptySet
<1>8. IsFiniteSet(asked'.segs) /\ Cardinality(asked'.segs) = Cardinality(chosen)
  <2> HIDE DEF chosen
  <2> QED
    BY <1>2, <1>4, <1>6, SegmentsDiffer
<1>9. /\ sel = {} => Cardinality(chosen) = 1
      /\ sel = Segments => Cardinality(chosen) = Nr - 2
      /\ sel # {} /\ sel # Segments => chosen = sel
  <2>1. CASE sel = {}
    <3>1. chosen = {active} /\ sel # Segments
      BY <1>5, <2>1
    <3> HIDE DEF chosen, sel
    <3> QED
      BY <2>1, <3>1, FS_Singleton
  <2>2. CASE sel = Segments
    <3>1. chosen = Segments \ {0} /\ sel # {}
      BY <1>5, <2>2
    <3>2. Cardinality(Segments \ {0}) = Cardinality(Segments) - 1
      BY <1>5, FS_RemoveElement
    <3> HIDE DEF chosen, sel
    <3>3. Cardinality(chosen) = Nr - 2
      BY <1>3, <1>5, <3>1, <3>2
    <3> QED
      BY <2>2, <3>1, <3>3
  <2>3. CASE sel # {} /\ sel # Segments
    BY <2>3
  <2> QED
    BY <2>1, <2>2, <2>3
<1>10. job'.multi = (sel # {}) /\ job'.left = (IF sel # {} THEN Cardinality(sel) ELSE 1)
       /\ ~job'.split /\ job'.active = active
  BY <1>4
<1>11. Rest' = IF sel = {} THEN 1 ELSE IF Cardinality(sel) < Nr - 2 THEN Cardinality(sel)
                                       ELSE Nr - 2
  <2> HIDE DEF sel
  <2> QED
    BY <1>4, <1>10 DEF Rest, Nr
<1>12. Rest' <= Cardinality(chosen) /\ Rest' \in Int
  <2> HIDE DEF sel, chosen
  <2>1. CASE sel = {}
    BY <1>7, <1>9, <1>11, <2>1
  <2>2. CASE sel = Segments /\ sel # {}
    BY <1>3, <1>5, <1>7, <1>9, <1>11, <2>2
  <2>3. CASE sel # {} /\ sel # Segments
    BY <1>3, <1>7, <1>9, <1>11, <2>3
  <2> QED
    BY <2>1, <2>2, <2>3
<1>13. ASSUME SegmentIds(Nr - 2) \notin asked'.segs
       PROVE  IF job'.multi THEN ~At(Nr - 2).sel ELSE job'.active < Nr - 2
  <2>1. Nr - 2 \notin chosen /\ Nr - 2 \in Segments /\ Nr - 2 # 0
    <3>1. Nr - 2 \in Segments /\ Nr - 2 # 0
      BY <1>3 DEF Segments
    <3> HIDE DEF chosen
    <3> QED
      BY <1>4, <1>13, <3>1
  <2>2. CASE sel = {}
    <3>1. active # Nr - 2
      BY <2>1, <2>2
    <3> QED
      BY <1>3, <1>10, <2>2, <3>1 DEF Segments
  <2>3. CASE sel # {}
    <3>1. Nr - 2 \notin sel
      BY <2>1, <2>3
    <3> QED
      BY <1>10, <2>1, <2>3, <3>1
  <2> QED
    BY <2>2, <2>3
<1>14. job'.multi => 1 <= job'.left /\ job'.left \in Int
  <2> HIDE DEF sel
  <2> QED
    BY <1>7, <1>10
<1> HIDE DEF sel, chosen
<1> QED
  BY <1>3, <1>4, <1>7, <1>8, <1>10, <1>12, <1>13, <1>14

LEMMA SplitStarts ==
  ASSUME CInv, Fresh, Split
  PROVE  /\ ~job'.multi /\ Rest' = 1
         /\ IsFiniteSet(asked'.segs) /\ Cardinality(asked'.segs) = 1 /\ asked'.rec = rec
         /\ \E S \in asked'.segs : Size(rec) - 1 \in {Pos(rec, x) : x \in S}
<1>1. PICK b \in 1 .. total - 1 :
        Asked({Part(rec, b, total)}, TRUE, TRUE) /\ \E ms, a : Process(TRUE, TRUE, ms, a)
  BY DEF Split
<1>0. job'.split
  BY <1>1 DEF Process
<1>2. asked'.segs = {Part(rec, b, total)} /\ asked'.rec = rec
  BY <1>1 DEF Asked
<1>3. ~job'.multi
  <2>1. CInv /\ (SaveOrDelete \/ Split)
    OBVIOUS
  <2> QED
    BY <1>0, <2>1, JobStarts
<1>4. pc = "edit" /\ total = Size(rec) /\ Size(rec) \in Nat
  <2>1. rec \subseteq Ids
    BY DEF CInv, Files
  <2>2. Size(rec) \in 0 .. NrBlocks
    BY <2>1, FilesAreFinite
  <2> QED
    BY <2>2 DEF Split, Fresh
<1>5. Size(rec) - 1 \in {Pos(rec, x) : x \in Part(rec, b, total)}
  BY <1>4, LastSegmentHasTheEnd
<1>6. Rest' = 1
  BY <1>3, SMTT(30) DEF Rest
<1> QED
  BY <1>2, <1>3, <1>5, <1>6, FS_Singleton

LEMMA SeveralKept ==
  ASSUME CInv, Fresh, Several, Next \/ UNCHANGED vars
  PROVE  Several'
<1>1. CASE SaveOrDelete
  BY <1>1, SaveStarts DEF Several
<1>2. CASE Split
  BY <1>2, SplitStarts DEF Several
<1>3. CASE Skip
  <2>1. /\ pc = "next" /\ UNCHANGED markers /\ job'.multi = job.multi /\ job'.left = job.left
    BY <1>3 DEF Skip, CInv, Records, JobType
  <2> QED
    BY <2>1 DEF Several, Working
<1>4. CASE Adjust
  <2>1. CASE pc' = "next"
    BY <1>4, <2>1, LoopGoesOn DEF Several
  <2>2. CASE pc' # "next"
    BY <1>4, <2>2 DEF Adjust, Several, Working
  <2> QED
    BY <2>1, <2>2
<1>5. CASE pc' \notin Working
  BY <1>5 DEF Several
<1>6. CASE UNCHANGED <<job, markers>> /\ pc \in Working
  BY <1>6 DEF Several
<1>7. CASE UNCHANGED vars
  BY <1>7 DEF Several, vars
<1> QED
  BY <1>1, <1>2, <1>3, <1>4, <1>5, <1>6, <1>7
  DEF Next, Step, Choose, Patch, Cut, CutFails, Truncate, TruncateFails, Tidy, Swap,
      SwapBack, Restart, Save, SwitchOff, Load, Working

\* What is open never grows within a job, and a truncation uses one of it up.
LEMMA OpenShrinks ==
  ASSUME CInv, Several, Next \/ UNCHANGED vars, ~SaveOrDelete, ~Split
  PROVE  /\ Open \in Nat /\ Open' \in Nat /\ Open' <= Open
         /\ Truncate => Open' + 1 <= Open
<1>0. /\ pc \in {"edit"} \cup Working \cup Ended /\ job \in JobType
      /\ pc \in Working => markers \in Seq(MarkerType) /\ 2 <= Len(markers)
  BY DEF CInv, Runs, Records, List
<1>1. pc \in Working => Rest \in Nat /\ 1 <= Rest
  <2> SUFFICES ASSUME pc \in Working PROVE Rest \in Nat /\ 1 <= Rest
    OBVIOUS
  <2>1. job.multi => 3 <= Len(markers) /\ 1 <= job.left
    BY DEF Several
  <2>2. Len(markers) \in Nat /\ job.left \in Int
    BY <1>0 DEF JobType
  <2> QED
    BY <2>1, <2>2 DEF Rest, Nr
<1>2. Open \in Nat
  BY <1>0, <1>1 DEF Open, Working
<1>3. ASSUME UNCHANGED <<job, markers>>
      PROVE  Rest' = Rest
  BY <1>3 DEF Rest, Nr
<1>4. ASSUME pc' \in {"edit"} \cup Ended
      PROVE  Open' = 0
  BY <1>4 DEF Open, Ended, Working
<1>5. ASSUME UNCHANGED <<job, markers>>, pc \in {"next", "cut", "truncate"},
             pc' \in {"next", "cut", "truncate"}
      PROVE  Open' = Open
  BY <1>3, <1>5 DEF Open
<1>6. ASSUME UNCHANGED <<job, markers>>, pc \in {"cut", "truncate"},
             pc' \in {"tidy", "swap"}
      PROVE  Open \in Nat /\ Open' = Open - 1 /\ Open' \in Nat
  BY <1>1, <1>3, <1>6 DEF Open, Working
<1>7. ASSUME UNCHANGED <<job, markers>>, pc \in {"tidy", "swap", "swapback", "restart"},
             pc' \in {"swap", "swapback", "restart", "adjust"}
      PROVE  Open' = Open
  BY <1>3, <1>7 DEF Open, Working
<1>8. CASE Skip
  <2>1. CASE pc' = "next"
    <3>1. pc = "next" /\ UNCHANGED markers /\ job'.multi = job.multi /\ job'.left = job.left
      BY <1>0, <1>8 DEF Skip, JobType
    <3>2. Rest' = Rest
      BY <3>1 DEF Rest, Nr
    <3>3. Open' = Open
      BY <2>1, <3>1, <3>2 DEF Open
    <3>4. ~Truncate
      BY <3>1 DEF Truncate
    <3> QED
      BY <1>2, <3>3, <3>4
  <2>2. CASE pc' # "next"
    <3>1. pc' \in Ended /\ pc = "next"
      BY <1>8, <2>2 DEF Skip, Ended
    <3> QED
      BY <1>2, <1>4, <3>1 DEF Truncate
  <2> QED
    BY <2>1, <2>2
<1>9. CASE Choose
  <2>1. UNCHANGED <<job, markers>> /\ pc = "next" /\ pc' \in {"next", "cut", "truncate"}
    BY <1>9 DEF Choose
  <2>2. Open' = Open
    BY <1>5, <2>1
  <2> QED
    BY <1>2, <2>1, <2>2 DEF Truncate
<1>10. CASE Patch
  <2>1. UNCHANGED <<job, markers>> /\ pc = "cut" /\ pc' = "cut"
    BY <1>10 DEF Patch
  <2>2. Open' = Open
    BY <1>5, <2>1
  <2> QED
    BY <1>2, <2>1, <2>2 DEF Truncate
<1>11. CASE Cut
  <2>1. UNCHANGED <<job, markers>> /\ pc = "cut" /\ pc' \in {"truncate", "tidy"}
    BY <1>11 DEF Cut
  <2>2. Open' \in {Open, Open - 1} /\ Open' \in Nat
    BY <1>2, <1>5, <1>6, <2>1
  <2> QED
    BY <1>2, <2>1, <2>2 DEF Truncate
<1>12. CASE CutFails \/ Truncate \/ TruncateFails
  <2>1. UNCHANGED <<job, markers>> /\ pc \in {"cut", "truncate"} /\ pc' \in {"tidy", "swap"}
    BY <1>12 DEF CutFails, Truncate, TruncateFails
  <2> QED
    BY <1>6, <2>1
<1>13. CASE Tidy \/ Swap \/ SwapBack
  <2>1. UNCHANGED <<job, markers>> /\ pc \in {"tidy", "swap", "swapback"}
        /\ pc' \in {"swap", "swapback", "restart"}
    BY <1>13 DEF Tidy, Swap, SwapBack
  <2>2. Open' = Open
    BY <1>7, <2>1
  <2> QED
    BY <1>2, <2>1, <2>2 DEF Truncate
<1>14. CASE Restart
  <2>1. UNCHANGED <<job, markers>> /\ pc = "restart" /\ pc' \in {"adjust", "save"}
    BY <1>14 DEF Restart
  <2>2. Open' \in {Open, 0}
    BY <1>4, <1>7, <2>1 DEF Ended
  <2> QED
    BY <1>2, <2>1, <2>2 DEF Truncate
<1>15. CASE Adjust
  <2>1. pc = "adjust" /\ pc' \in {"next", "save"}
    BY <1>15 DEF Adjust
  <2>2. CASE pc' = "save"
    BY <1>2, <1>4, <2>1, <2>2 DEF Truncate, Ended
  <2>3. CASE pc' = "next"
    <3>1. /\ job'.multi /\ job.multi /\ job'.left = job.left - 1 /\ 1 <= job'.left
          /\ 3 <= Len(markers) => Len(markers') = Len(markers) - 1
          /\ markers' \in Seq(MarkerType) /\ 3 <= Len(markers')
      BY <1>15, <2>3, LoopGoesOn
    <3>2. 3 <= Len(markers) /\ job.left \in Int /\ Len(markers) \in Nat
      BY <1>0, <2>1, <3>1 DEF Several, Working, JobType
    <3>3. Rest' \in Nat /\ Rest' <= Rest - 1
      BY <3>1, <3>2 DEF Rest, Nr
    <3>4. Open = Rest - 1 /\ Open' = Rest'
      BY <2>1, <2>3 DEF Open, Working
    <3> QED
      BY <1>2, <2>1, <3>3, <3>4 DEF Truncate
  <2> QED
    BY <2>1, <2>2, <2>3
<1>16. CASE Save \/ SwitchOff \/ Load
  <2>1. pc' \in {"edit"} \cup Ended /\ ~Truncate
    BY <1>16 DEF Save, SwitchOff, Load, Ended, Truncate
  <2> QED
    BY <1>2, <1>4, <2>1
<1>17. CASE UNCHANGED vars
  <2>1. UNCHANGED <<pc, job, markers>>
    BY <1>17 DEF vars
  <2>2. Open' = Open /\ ~Truncate
    BY <1>3, <2>1 DEF Open, Truncate
  <2> QED
    BY <1>2, <2>2
<1> QED
  BY <1>8, <1>9, <1>10, <1>11, <1>12, <1>13, <1>14, <1>15, <1>16, <1>17 DEF Next, Step

\* Within a job what was asked stays.
LEMMA AskedStays ==
  ASSUME CInv, Next \/ UNCHANGED vars, ~SaveOrDelete, ~Split
  PROVE  /\ asked'.segs = asked.segs /\ asked'.rec = asked.rec /\ asked'.files = asked.files
         /\ asked'.keep = asked.keep
BY DEF CInv, Records, Next, Step, Skip, Choose, Patch, Cut, CutFails, Truncate, TruncateFails,
       Tidy, Swap, SwapBack, Restart, Adjust, Save, SwitchOff, Load, vars

LEMMA NothingLostAtTheStart ==
  ASSUME SaveOrDelete \/ Split
  PROVE  Lost' = {}
<1>1. asked'.files = Present /\ UNCHANGED <<rec, temp, cuts>>
  <2>1. \E keep, split, ms, a, segs : Process(keep, split, ms, a) /\ Asked(segs, keep, split)
    <3>1. CASE SaveOrDelete
      BY <3>1 DEF SaveOrDelete
    <3>2. CASE Split
      BY <3>2 DEF Split
    <3> QED
      BY <3>1, <3>2
  <2> QED
    BY <2>1 DEF Process, Asked, files
<1>2. Present' = Present
  BY <1>1 DEF Present
<1> QED
  BY <1>1, <1>2 DEF Lost

LEMMA LostShrinks ==
  ASSUME CInv, Temporary, asked.keep, Next \/ UNCHANGED vars, ~SaveOrDelete, ~Split, ~Truncate
  PROVE  Lost' \subseteq Lost
<1>1. Present \subseteq Present' /\ asked'.files = asked.files
  BY AskedStays, OnlyTruncationLoses
<1> QED
  BY <1>1 DEF Lost

LEMMA TailBudgetKept ==
  ASSUME CInv, Temporary, Fresh, Several, TailBudget, Next \/ UNCHANGED vars
  PROVE  TailBudget'
<1>1. CASE SaveOrDelete \/ Split
  <2>1. Lost' = {} /\ pc' = "next"
    BY <1>1, NothingLostAtTheStart, JobStarts
  <2>2. /\ IsFiniteSet(asked'.segs) /\ Rest' <= Cardinality(asked'.segs)
        /\ Rest' \in Int
    BY <1>1, SaveStarts, SplitStarts
  <2>3. Open' = Rest'
    BY <2>1 DEF Open
  <2>4. IsFiniteSet(Lost') /\ Cardinality(Lost') = 0
    BY <2>1, FS_EmptySet
  <2>5. 0 + Open' <= Cardinality(asked'.segs) /\ Cardinality(Lost') <= 2 * Radius * 0
    BY <2>2, <2>3, <2>4, IdsAreFinite
  <2> QED
    BY <2>2, <2>4, <2>5 DEF TailBudget
<1>2. CASE ~SaveOrDelete /\ ~Split
  <2>0. asked'.segs = asked.segs /\ asked'.keep = asked.keep
    BY <1>2, AskedStays
  <2> SUFFICES ASSUME asked.keep
               PROVE  /\ IsFiniteSet(Lost') /\ IsFiniteSet(asked'.segs)
                      /\ \E t \in Nat : /\ t + Open' <= Cardinality(asked'.segs)
                                        /\ Cardinality(Lost') <= 2 * Radius * t
    BY <2>0 DEF TailBudget
  <2>1. PICK t \in Nat : /\ t + Open <= Cardinality(asked.segs)
                         /\ Cardinality(Lost) <= 2 * Radius * t
    BY DEF TailBudget
  <2>2. IsFiniteSet(Lost) /\ IsFiniteSet(asked.segs)
    BY DEF TailBudget
  <2>3. Cardinality(Lost) \in Nat /\ Cardinality(asked.segs) \in Nat
    BY <2>2, FS_CardinalityType
  <2>4. /\ Open \in Nat /\ Open' \in Nat /\ Open' <= Open
        /\ Truncate => Open' + 1 <= Open
    BY <1>2, OpenShrinks
  <2>5. CASE ~Truncate
    <3>1. Lost' \subseteq Lost
      BY <1>2, <2>5, LostShrinks
    <3>2. IsFiniteSet(Lost') /\ Cardinality(Lost') <= Cardinality(Lost)
      BY <2>2, <3>1, FS_Subset
    <3>3. Cardinality(Lost') \in Nat
      BY <3>2, FS_CardinalityType
    <3>4. t + Open' <= Cardinality(asked.segs)
      BY <2>1, <2>3, <2>4
    <3>5. Cardinality(Lost') <= 2 * Radius * t
      <4> DEFINE m == 2 * Radius * t
      <4>1. m \in Int
        BY IdsAreFinite
      <4>2. Cardinality(Lost) <= m
        BY <2>1
      <4> HIDE DEF m
      <4>3. Cardinality(Lost') <= m
        BY <2>3, <3>2, <3>3, <4>1, <4>2
      <4> QED
        BY <4>3 DEF m
    <3> QED
      BY <2>0, <2>2, <3>2, <3>4, <3>5
  <2>6. CASE Truncate
    <3>1. /\ IsFiniteSet(Lost') /\ Cardinality(Lost') \in Nat
          /\ Cardinality(Lost') <= Cardinality(Lost) + 2 * Radius
      BY <2>2, <2>6, TruncationLosesATail
    <3>2. t + 1 \in Nat /\ (t + 1) + Open' <= Cardinality(asked.segs)
      <4> DEFINE n == Cardinality(asked.segs)
                 o == Open
                 p == Open'
      <4>1. /\ n \in Nat /\ o \in Nat /\ p \in Nat /\ p + 1 <= o /\ t + o <= n
        BY <2>1, <2>3, <2>4, <2>6
      <4> HIDE DEF n, o, p
      <4>2. (t + 1) + p <= n
        BY <4>1
      <4> QED
        BY <4>2 DEF n, p
    <3>3. Cardinality(Lost') <= 2 * Radius * (t + 1)
      <4>1. 2 * Radius * (t + 1) = 2 * Radius * t + 2 * Radius
        BY IdsAreFinite
      <4> DEFINE m == 2 * Radius * t
                 r == 2 * Radius
      <4>2. m \in Int /\ r \in Int
        BY IdsAreFinite
      <4>3. Cardinality(Lost) <= m /\ Cardinality(Lost') <= Cardinality(Lost) + r
        BY <2>1, <3>1
      <4>4. 2 * Radius * (t + 1) = m + r
        BY <4>1
      <4> HIDE DEF m, r
      <4> QED
        BY <2>3, <3>1, <4>2, <4>3, <4>4
    <3> QED
      BY <2>0, <2>2, <3>1, <3>2, <3>3
  <2> QED
    BY <2>5, <2>6
<1> QED
  BY <1>1, <1>2

LEMMA InnerOnlyKept ==
  ASSUME CInv, Temporary, Fresh, InnerOnly, Next \/ UNCHANGED vars
  PROVE  InnerOnly'
<1>0. /\ job \in JobType
      /\ pc \in {"edit"} \cup Working => markers \in Seq(MarkerType) /\ 2 <= Len(markers)
  BY DEF CInv, Records, List
<1>1. CASE SaveOrDelete
  <2> SUFFICES ASSUME ~LastAsked' PROVE InnerOnly'
    BY DEF InnerOnly
  <2>1. Lost' = {} /\ pc = "edit" /\ pc' = "next"
    BY <1>1, NothingLostAtTheStart, JobStarts
  <2>2. /\ markers' = markers /\ ~job'.split /\ asked'.rec = rec
        /\ \A S : S = SegmentIds(Nr - 2) /\ S \notin asked'.segs
                  => IF job'.multi THEN ~At(Nr - 2).sel ELSE job'.active < Nr - 2
    BY <1>1, SaveStarts
  <2>3. Nr > 2 /\ Nr = Len(markers) /\ Nr \in Nat /\ Nr' = Nr
    BY <1>0, <1>1, <2>1, <2>2 DEF SaveOrDelete, Nr
  <2>4. SegmentIds(Nr - 2) \notin asked'.segs
    <3> SUFFICES ASSUME SegmentIds(Nr - 2) \in asked'.segs PROVE FALSE
      OBVIOUS
    <3>1. InOrder(markers, Size(rec))
      BY <2>1 DEF Fresh
    <3>2. /\ Block(Nr - 2) = markers[Nr - 1].block
          /\ Block(Nr - 2 + 1) = markers[Nr].block
      <4>1. (Nr - 2) + 1 = Nr - 1 /\ (Nr - 2 + 1) + 1 = Nr
        BY <2>3
      <4> QED
        BY <4>1 DEF Block, At
    <3>3. markers[Nr - 1] \in MarkerType /\ markers[Nr] \in MarkerType
      BY <1>0, <2>1, <2>3
    <3>4. Block(Nr - 2) \in Int /\ Block(Nr - 2 + 1) \in Int
      BY <3>2, <3>3 DEF MarkerType
    <3>5. Block(Nr - 2 + 1) = Size(rec) /\ Block(Nr - 2) < Block(Nr - 2 + 1)
      <4>1. Nr - 1 \in 1 .. Len(markers) /\ Nr \in 1 .. Len(markers) /\ Nr - 1 < Nr
        BY <2>3
      <4>2. markers[Nr - 1].block < markers[Nr].block /\ markers[Nr].block = Size(rec)
        BY <2>3, <3>1, <4>1 DEF InOrder
      <4> QED
        BY <3>2, <4>2
    <3>6. Size(rec) - 1 \in {Pos(rec, x) : x \in Part(rec, Block(Nr - 2), Block(Nr - 2 + 1))}
      <4> DEFINE b == Block(Nr - 2)
                 e == Block(Nr - 2 + 1)
      <4>1. b \in Int /\ e \in Int /\ b < Size(rec) /\ e >= Size(rec)
        BY <3>4, <3>5
      <4> HIDE DEF b, e
      <4>2. Size(rec) - 1 \in {Pos(rec, x) : x \in Part(rec, b, e)}
        BY <2>1, <4>1, LastSegmentHasTheEnd
      <4> QED
        BY <4>2 DEF b, e
    <3>7. Size(rec) - 1 \in {Pos(rec, x) : x \in SegmentIds(Nr - 2)}
      BY <3>6 DEF SegmentIds
    <3>8. LastAsked'
      BY <2>2, <3>7 DEF LastAsked, Size, Pos
    <3> QED
      BY <3>8
  <2>5. IF job'.multi THEN ~At(Nr - 2).sel ELSE job'.active < Nr - 2
    BY <2>2, <2>4
  <2>6. IF job'.multi THEN ~markers'[Nr' - 2 + 1].sel ELSE job'.active < Nr' - 2
    BY <2>2, <2>3, <2>5 DEF At
  <2> QED
    BY <2>1, <2>2, <2>6 DEF InnerOnly, Chosen, Working, At
<1>2. CASE Split
  <2>1. asked'.rec = rec /\ \E S \in asked'.segs : Size(rec) - 1 \in {Pos(rec, x) : x \in S}
    BY <1>2, SplitStarts
  <2>2. LastAsked'
    BY <2>1 DEF LastAsked, Size, Pos
  <2> QED
    BY <2>2 DEF InnerOnly
<1>3. CASE ~SaveOrDelete /\ ~Split
  <2>0. asked'.segs = asked.segs /\ asked'.keep = asked.keep /\ asked'.rec = asked.rec
    BY <1>3, AskedStays
  <2>00. LastAsked' = LastAsked
    BY <2>0 DEF LastAsked, Size, Pos
  <2> SUFFICES ASSUME asked.keep, ~LastAsked PROVE InnerOnly'
    BY <2>0, <2>00 DEF InnerOnly
  <2>1. /\ Lost = {}
        /\ pc \in Working => ~job.split
        /\ pc = "next" => IF job.multi THEN job.i < Nr - 2 \/ ~At(Nr - 2).sel
                                       ELSE job.active < Nr - 2
        /\ pc \in Chosen => cut.w < Nr - 2 /\ ~cut.trunc
    BY DEF InnerOnly
  <2>2. ~Truncate
    <3>1. pc = "truncate" => cut.trunc
      BY DEF CInv, Work, Chosen, Working
    <3> QED
      BY <2>1, <3>1 DEF Truncate, Chosen, Working
  <2>3. Lost' = {}
    <3>1. Lost' \subseteq Lost
      BY <1>3, <2>2, LostShrinks
    <3> QED
      BY <2>1, <3>1
  <2>4. CASE pc' \notin Working
    BY <2>3, <2>4 DEF InnerOnly, Chosen, Working
  <2>5. CASE Skip
    <3>1. CASE pc' = "next"
      <4>1. /\ pc = "next" /\ job.multi /\ UNCHANGED markers
            /\ job' = [job EXCEPT !.i = Onward]
        BY <2>5, <3>1 DEF Skip
      <4>2. job'.multi /\ job'.split = job.split /\ job'.i = job.i - 1
        BY <1>0, <4>1 DEF JobType, Onward
      <4>3. job.i \in 0 .. Len(markers) - 2 /\ Len(markers) \in Nat
        BY <1>0, <4>1 DEF CInv, Loop, Working
      <4>4. job'.i < Nr' - 2
        BY <4>1, <4>2, <4>3 DEF Nr
      <4> QED
        BY <2>1, <2>3, <3>1, <4>1, <4>2, <4>4 DEF InnerOnly, Chosen, Working
    <3>2. CASE pc' # "next"
      BY <2>3, <2>5, <3>2 DEF Skip, InnerOnly, Chosen, Working
    <3> QED
      BY <3>1, <3>2
  <2>6. CASE Choose
    <3>1. /\ cut'.w = IF job.multi THEN job.i ELSE job.active
          /\ cut'.trunc => job.split \/ cut'.w = Nr - 2
          /\ pc' \in {"cut", "truncate"}
      BY <2>6, ChosenSegment
    <3>2. pc = "next" /\ (job.multi => At(job.i).sel) /\ UNCHANGED <<job, markers>>
      BY <2>6 DEF Choose
    <3>3. cut'.w < Nr - 2
      <4>1. CASE job.multi
        <5>1. job.i < Nr - 2 \/ ~At(Nr - 2).sel
          BY <2>1, <3>2, <4>1
        <5>2. job.i \in 0 .. Len(markers) - 2 /\ Len(markers) \in Nat
          BY <1>0, <3>2, <4>1 DEF CInv, Loop, Working
        <5>3. job.i # Nr - 2 \/ job.i < Nr - 2
          BY <3>2, <4>1, <5>1
        <5> QED
          BY <3>1, <4>1, <5>2, <5>3 DEF Nr
      <4>2. CASE ~job.multi
        BY <2>1, <3>1, <3>2, <4>2
      <4> QED
        BY <4>1, <4>2
    <3>4. ~cut'.trunc
      <4>1. cut'.w # Nr - 2
        <5>1. Nr - 2 \in Int
          BY <1>0, <3>2 DEF Nr, Working
        <5> QED
          BY <3>3, <5>1
      <4> QED
        BY <2>1, <3>1, <3>2, <4>1 DEF Working
    <3>5. Nr' = Nr
      BY <3>2 DEF Nr
    <3> QED
      BY <2>1, <2>3, <3>1, <3>2, <3>3, <3>4, <3>5 DEF InnerOnly, Working
  <2>7. CASE Adjust /\ pc' = "next"
    <3>1. /\ ~job'.split /\ job'.multi /\ cut.w = job.i /\ job'.i = job.i - 1
          /\ markers' \in Seq(MarkerType) /\ Len(markers') >= Len(markers) - 1
      BY <2>7, LoopGoesOn
    <3>2. pc = "adjust" /\ job.i < Nr - 2 /\ job.i \in Int /\ Len(markers) \in Nat
      BY <1>0, <2>1, <2>7, <3>1 DEF Adjust, Chosen, Working, JobType
    <3>3. job'.i < Nr' - 2
      BY <3>1, <3>2 DEF Nr
    <3> QED
      BY <2>3, <2>7, <3>1, <3>3 DEF InnerOnly, Chosen
  <2>8. CASE Cut
    <3>1. \A f \in {"w", "special", "trunc", "name"} : cut'[f] = cut[f]
      BY <2>8, CutRange
    <3>2. /\ cut'.w = cut.w /\ cut'.trunc = cut.trunc /\ UNCHANGED <<job, markers>>
          /\ pc = "cut" /\ pc' \in {"truncate", "tidy"}
      BY <2>8, <3>1 DEF Cut
    <3> QED
      BY <2>1, <2>3, <3>2 DEF InnerOnly, Chosen, Working, Nr
  <2>9. CASE UNCHANGED <<job, markers, cut>> /\ pc \in Chosen /\ pc' \in Chosen
    BY <2>1, <2>3, <2>9 DEF InnerOnly, Chosen, Working, Nr
  <2>10. CASE UNCHANGED vars
    <3>1. UNCHANGED <<pc, job, markers, cut>>
      BY <2>10 DEF vars
    <3> QED
      BY <2>1, <2>3, <3>1 DEF InnerOnly, Nr, At
  <2> QED
    BY <1>3, <2>2, <2>4, <2>5, <2>6, <2>7, <2>8, <2>9, <2>10
    DEF Next, Step, Patch, CutFails, TruncateFails, Tidy, Swap, SwapBack, Restart, Adjust,
        Save, SwitchOff, Load, Chosen, Working
<1> QED
  BY <1>1, <1>2, <1>3

LEMMA InitSInv ==
  ASSUME ListsInOrder, Init
  PROVE  SInv
<1>1. CInv /\ pc = "edit" /\ rec = Ids /\ total = NrBlocks
  BY InitCInv DEF Init
<1>2. Size(Ids) = NrBlocks /\ NrBlocks # 0 /\ Ids \subseteq Ids
  BY IdsAreFinite, CutConstants DEF Size
<1>3. InOrder(markers, Size(rec))
  <2>1. PICK l \in MarkerLists(Size(Ids)) :
          markers = [k \in DOMAIN l |-> Marker(l[k].block, Ids, l[k].sel)]
    BY <1>2 DEF Init
  <2>2. InOrder(markers, Size(Ids))
    BY <1>2, <2>1, LoadedInOrder
  <2> QED
    BY <1>1, <2>2
<1>4. Fresh /\ Several
  BY <1>1, <1>2, <1>3 DEF Fresh, Several, Working
<1>5. Lost = {}
  <2>1. asked.files = Ids /\ rec \subseteq Present
    BY DEF Init, Present
  <2> QED
    BY <1>1, <2>1 DEF Lost
<1>6. asked.segs = {} /\ Open = 0
  BY <1>1 DEF Init, Open, Working
<1>7. TailBudget
  <2>1. /\ IsFiniteSet(Lost) /\ IsFiniteSet(asked.segs) /\ Cardinality(Lost) = 0
        /\ Cardinality(asked.segs) = 0
    BY <1>5, <1>6, FS_EmptySet
  <2>2. 0 + Open <= Cardinality(asked.segs) /\ Cardinality(Lost) <= 2 * Radius * 0
    BY <1>6, <2>1, IdsAreFinite
  <2> QED
    BY <2>1, <2>2 DEF TailBudget
<1>8. InnerOnly
  BY <1>1, <1>5 DEF InnerOnly, Chosen, Working
<1> QED
  BY <1>4, <1>7, <1>8 DEF SInv

LEMMA SInvImplies ==
  ASSUME CInv, SInv, asked.keep
  PROVE  NothingLost
<1>1. CASE ~LastAsked
  <2>1. Lost = {}
    BY <1>1 DEF SInv, InnerOnly
  <2> QED
    BY <1>1, <2>1 DEF NothingLost, LastAsked
<1>2. CASE LastAsked
  <2>1. PICK t \in Nat : /\ t + Open <= Cardinality(asked.segs)
                         /\ Cardinality(Lost) <= 2 * Radius * t
    BY DEF SInv, TailBudget
  <2>2. Cardinality(Lost) \in Nat /\ Cardinality(asked.segs) \in Nat
    BY FS_CardinalityType DEF SInv, TailBudget
  <2>3. Open \in Nat
    <3>1. pc \in {"edit"} \cup Working \cup Ended /\ job \in JobType
          /\ (pc \in Working => markers \in Seq(MarkerType) /\ 2 <= Len(markers))
      BY DEF CInv, Runs, Records, List
    <3>2. pc \in Working => Rest \in Nat /\ 1 <= Rest
      BY <3>1 DEF SInv, Several, Rest, Nr, JobType
    <3> QED
      BY <3>1, <3>2 DEF Open, Working
  <2> DEFINE n == Cardinality(asked.segs)
             r == 2 * Radius
  <2>4. n \in Nat /\ r \in Nat /\ t <= n
    BY <2>1, <2>2, <2>3, IdsAreFinite
  <2>5. Cardinality(Lost) <= r * t
    BY <2>1
  <2> HIDE DEF n, r
  <2>6. r * t <= r * n
    BY <2>4
  <2>7. r * t \in Nat /\ r * n \in Nat
    BY <2>4
  <2>8. Cardinality(Lost) <= r * n
    BY <2>2, <2>5, <2>6, <2>7
  <2>9. Cardinality(Lost) <= 2 * Radius * Cardinality(asked.segs)
    BY <2>8 DEF n, r
  <2> QED
    BY <1>2, <2>9 DEF NothingLost, LastAsked
<1> QED
  BY <1>1, <1>2

\* Saving and splitting, whatever fails and whenever the receiver is switched off: no
\* block of any file is lost unless the last segment was asked for, and then no more
\* than the tail that MovieCutter does not have the firmware cut, once for each segment.
THEOREM SavingLosesOnlyTails ==
  ASSUME NoLeftover, ListsInOrder
  PROVE  Spec => [](asked.keep => NothingLost)
<1>1. Init => CInv /\ Temporary /\ SInv
  BY InitCInv, InitSInv, ListsInOrder
<1>2. CInv /\ Temporary /\ SInv /\ [Next]_vars => CInv' /\ Temporary' /\ SInv'
  <2> SUFFICES ASSUME CInv, Temporary, SInv, [Next]_vars
               PROVE  CInv' /\ Temporary' /\ SInv'
    OBVIOUS
  <2>1. CInv' /\ Temporary'
    BY FilesKept, RecordsKept, RunsKept, ListKept, LoopKept, WorkKept, TemporaryKept,
       NoLeftover DEF CInv
  <2>2. Fresh' /\ Several' /\ TailBudget' /\ InnerOnly'
    BY FreshKept, SeveralKept, TailBudgetKept, InnerOnlyKept, ListsInOrder DEF SInv
  <2> QED
    BY <2>1, <2>2 DEF SInv
<1>3. CInv /\ SInv => (asked.keep => NothingLost)
  BY SInvImplies
<1> QED
  BY <1>1, <1>2, <1>3, PTL DEF Spec

-----------------------------------------------------------------------------
(* Files and positions.                                                    *)

\* What is a file, or was one.
File(F) == IsFiniteSet(F) /\ F \subseteq Nat

LEMMA PartsAreFiles ==
  ASSUME NEW F, File(F), NEW G \in SUBSET F
  PROVE  File(G)
BY FS_Subset DEF File

\* What is before a block in a file decides its position.
LEMMA PositionBounds ==
  ASSUME NEW F, File(F)
  PROVE  /\ \A x : Pos(F, x) \in Nat
         /\ \A x \in F : Pos(F, x) < Size(F)
         /\ Size(F) \in Nat
         /\ \A x, y \in F : Pos(F, x) < Pos(F, y) => x < y
         /\ \A x, y \in F : x < y => Pos(F, x) < Pos(F, y)
<1>0. IsFiniteSet(F) /\ F \subseteq Nat
  BY DEF File
<1>1. \A x : Pos(F, x) \in Nat
  <2> TAKE x
  <2> DEFINE S == {y \in F : y < x}
  <2>1. S \subseteq F
    OBVIOUS
  <2> HIDE DEF S
  <2>2. Cardinality(S) \in Nat
    BY <1>0, <2>1, FS_Subset, FS_CardinalityType
  <2> QED
    BY <2>2 DEF S, Pos
<1>2. Size(F) \in Nat
  BY <1>0, FS_CardinalityType DEF Size
<1>3. /\ \A x \in F : Pos(F, x) \in 0 .. Size(F) - 1
      /\ \A x, y \in F : x < y => Pos(F, x) < Pos(F, y)
  BY <1>0, PositionInFile
<1>4. ASSUME NEW x \in F, NEW y \in F, Pos(F, x) < Pos(F, y) PROVE x < y
  <2>1. x \in Nat /\ y \in Nat /\ Pos(F, x) \in Nat /\ Pos(F, y) \in Nat
    BY <1>0, <1>1
  <2>2. ~(y < x) /\ y # x
    BY <1>3, <1>4, <2>1
  <2> QED
    BY <2>1, <2>2
<1> QED
  BY <1>1, <1>2, <1>3, <1>4

\* Up to place p the file F is that of A.
Untouched(A, F, p) == F \subseteq A /\ \A x \in A : Pos(A, x) < p => x \in F

\* Where nothing was cut out the positions are those of the whole.
LEMMA UntouchedPositions ==
  ASSUME NEW A, File(A), NEW F, NEW p \in Nat, Untouched(A, F, p)
  PROVE  /\ \A x \in A : Pos(A, x) < p => Pos(F, x) = Pos(A, x)
         /\ \A x \in F : Pos(F, x) < p => Pos(A, x) = Pos(F, x)
<1>00. F \subseteq A /\ \A x \in A : Pos(A, x) < p => x \in F
  BY DEF Untouched
<1>0. File(F) /\ IsFiniteSet(F) /\ F \subseteq Nat /\ A \subseteq Nat /\ IsFiniteSet(A)
  BY <1>00, PartsAreFiles DEF File
<1>1. /\ \A x : Pos(A, x) \in Nat /\ Pos(F, x) \in Nat
      /\ \A x, y \in A : x < y => Pos(A, x) < Pos(A, y)
      /\ \A x, y \in A : Pos(A, x) < Pos(A, y) => x < y
      /\ \A x \in A : Pos(A, x) < Size(A)
      /\ Size(A) \in Nat
  BY <1>0, PositionBounds
<1>2. ASSUME NEW x \in A, Pos(A, x) <= p PROVE Pos(F, x) = Pos(A, x)
  <2>1. ASSUME NEW y \in A, y < x PROVE y \in F
    <3>1. Pos(A, y) < Pos(A, x) /\ Pos(A, y) \in Nat /\ Pos(A, x) \in Nat
      BY <1>1, <2>1
    <3>2. Pos(A, y) < p
      BY <1>2, <3>1
    <3> QED
      BY <1>00, <3>2
  <2>2. {y \in F : y < x} = {y \in A : y < x}
    BY <1>00, <2>1
  <2> QED
    BY <2>2 DEF Pos
<1>3. ASSUME NEW x \in F, Pos(F, x) < p PROVE Pos(A, x) = Pos(F, x)
  <2>0. x \in A /\ Pos(A, x) \in Nat /\ Pos(F, x) \in Nat
    BY <1>00, <1>1
  <2>1. ~(p <= Pos(A, x))
    <3> SUFFICES ASSUME p <= Pos(A, x) PROVE FALSE
      OBVIOUS
    <3>1. p \in 0 .. Size(A) - 1
      <4>1. Pos(A, x) < Size(A)
        BY <1>1, <2>0
      <4> QED
        BY <1>1, <2>0, <4>1
    <3>2. PICK z \in A : Pos(A, z) = p
      BY <1>0, <3>1, PositionIsTaken
    <3>3. Pos(F, z) = p
      BY <1>2, <3>2
    <3>4. z <= x
      <4>1. x \in Nat /\ z \in Nat
        BY <1>0, <2>0
      <4>2. ~(x < z)
        BY <1>1, <2>0, <3>2
      <4> QED
        BY <4>1, <4>2
    <3> DEFINE S == {y \in F : y < z}
               T == {y \in F : y < x}
    <3>5. S \subseteq T
      <4> SUFFICES ASSUME NEW y \in F, y < z PROVE y < x
        OBVIOUS
      <4>1. y \in Nat /\ z \in Nat /\ x \in Nat
        BY <1>0, <2>0
      <4> QED
        BY <3>4, <4>1
    <3>6. T \subseteq F
      OBVIOUS
    <3>7. Cardinality(S) = Pos(F, z) /\ Cardinality(T) = Pos(F, x)
      BY DEF Pos
    <3> HIDE DEF S, T
    <3>8. Cardinality(S) <= Cardinality(T)
      BY <1>0, <3>5, <3>6, FS_Subset
    <3> QED
      BY <1>3, <2>0, <3>3, <3>7, <3>8
  <2>2. Pos(A, x) <= p
    BY <2>0, <2>1
  <2> QED
    BY <1>2, <2>0, <2>2
<1>4. \A x \in A : Pos(A, x) < p => Pos(F, x) = Pos(A, x)
  <2> SUFFICES ASSUME NEW x \in A, Pos(A, x) < p PROVE Pos(F, x) = Pos(A, x)
    OBVIOUS
  <2>1. Pos(A, x) <= p
    BY <1>1
  <2> QED
    BY <1>2, <2>1
<1> QED
  BY <1>3, <1>4

LEMMA SizeWithoutPart ==
  ASSUME NEW F, File(F), NEW s \in Nat, NEW e \in Nat, s <= e, e <= Size(F)
  PROVE  /\ Size(Part(F, s, e)) = e - s
         /\ Size(F \ Part(F, s, e)) = Size(F) - (e - s)
<1>1. IsFiniteSet(F) /\ F \subseteq Nat
  BY DEF File
<1> QED
  BY <1>1, PartSize

\* Blocks behind a range that is cut out move by its length.
LEMMA PositionsBehindACut ==
  ASSUME NEW F, File(F), NEW s \in Nat, NEW e \in Nat, s <= e, e <= Size(F),
         NEW x \in F, x \notin Part(F, s, e), s <= Pos(F \ Part(F, s, e), x)
  PROVE  e <= Pos(F, x) /\ Pos(F \ Part(F, s, e), x) = Pos(F, x) - (e - s)
<1> DEFINE P == Part(F, s, e)
           G == F \ P
           B == {y \in F : y < x}
<1>0. IsFiniteSet(F) /\ F \subseteq Nat
  BY DEF File
<1>1. /\ \A y : Pos(F, y) \in Nat
      /\ \A y, z \in F : y < z => Pos(F, y) < Pos(F, z)
      /\ \A y, z \in F : Pos(F, y) < Pos(F, z) => y < z
  BY PositionBounds
<1>2. P \subseteq F /\ \A y \in F : y \in P <=> s <= Pos(F, y) /\ Pos(F, y) < e
  BY DEF Part
<1>3. {y \in G : y < x} = B \ P
  OBVIOUS
<1>4. IsFiniteSet(B) /\ Cardinality(B) = Pos(F, x)
  <2>1. B \subseteq F
    OBVIOUS
  <2>2. Cardinality(B) = Pos(F, x)
    BY DEF Pos
  <2> HIDE DEF B
  <2> QED
    BY <1>0, <2>1, <2>2, FS_Subset
<1>5. Pos(G, x) = Cardinality(B \ P)
  BY <1>3 DEF Pos
<1>6. Pos(F, x) < s \/ e <= Pos(F, x)
  BY <1>1, <1>2
<1>7. CASE Pos(F, x) < s
  <2>1. B \ P = B
    <3> SUFFICES ASSUME NEW y \in F, y < x, y \in P PROVE FALSE
      OBVIOUS
    <3>1. s <= Pos(F, y) /\ Pos(F, y) < Pos(F, x) /\ Pos(F, y) \in Nat /\ Pos(F, x) \in Nat
      BY <1>1, <1>2
    <3> QED
      BY <1>7, <3>1
  <2>2. Pos(G, x) = Pos(F, x)
    BY <1>4, <1>5, <2>1
  <2>3. s <= Pos(G, x) /\ Pos(F, x) \in Nat
    BY <1>1
  <2> QED
    BY <1>7, <2>2, <2>3
<1>8. CASE e <= Pos(F, x)
  <2>1. P \subseteq B
    <3> SUFFICES ASSUME NEW y \in P PROVE y < x
      BY <1>2
    <3>1. Pos(F, y) < e /\ y \in F /\ Pos(F, y) \in Nat /\ Pos(F, x) \in Nat
      BY <1>1, <1>2
    <3>2. Pos(F, y) < Pos(F, x)
      BY <1>8, <3>1
    <3> QED
      BY <1>1, <3>1, <3>2
  <2>2. Cardinality(P) = e - s
    BY <1>0, PartSize DEF Size
  <2> HIDE DEF P, B, G
  <2>3. B \cap P = P
    BY <2>1
  <2>4. Cardinality(B \ P) = Cardinality(B) - Cardinality(P)
    <3>1. IsFiniteSet(B)
      BY <1>4
    <3>2. Cardinality(B \ P) = Cardinality(B) - Cardinality(B \cap P)
      BY <3>1, FS_Difference
    <3> QED
      BY <2>3, <3>2
  <2> QED
    BY <1>4, <1>5, <1>8, <2>2, <2>4 DEF G, P
<1> QED
  BY <1>6, <1>7, <1>8

-----------------------------------------------------------------------------
(* Deleting loses nothing beyond the firmware's precision.                 *)

\* How far the end of a cut can be from where the list says it is.
Reach == Radius * (IF "positions" \in Faults THEN 2 ELSE 1)

\* In the recording A a block is no further than d from the segments S; an edge
\* of the list l; its segment k is one of S.
Beside(A, S, x, d) == \E y \in UNION S : Distance(Pos(A, x), Pos(A, y)) <= d
Edge(l, k)         == l[k + 1].block
Wanted(A, S, l, k) == Part(A, Edge(l, k), Edge(l, k + 1)) \in S

\* The file F after segment b of the list l was cut out, and those behind it: up
\* to block p it is the recording of the start, behind p come the blocks behind
\* the cut, and those near the seam are not far from a segment that was asked for.
Seam(A, S, l, F, b, p, d) ==
  /\ Untouched(A, F, p) /\ p <= Size(F)
  /\ Edge(l, b) <= p + Radius
  /\ \A x \in A : Edge(l, b) <= Pos(A, x) /\ Pos(A, x) < p => x \in UNION S
  /\ \A x \in F : p <= Pos(F, x) => Beside(A, S, x, d + (Pos(F, x) - p) + 1)
  /\ \A x \in A : x \in F \/ Beside(A, S, x, d)

LEMMA BesideFurther ==
  ASSUME NEW A, A \subseteq Ids, NEW S, NEW x, NEW d \in Int, NEW e \in Int, d <= e, Beside(A, S, x, d)
  PROVE  Beside(A, S, x, e)
<1>1. PICK y \in UNION S : Distance(Pos(A, x), Pos(A, y)) <= d
  BY DEF Beside
<1>2. File(A)
  BY FilesAreFinite DEF File
<1>3. Pos(A, x) \in Nat /\ Pos(A, y) \in Nat
  BY <1>2, PositionBounds
<1>4. Distance(Pos(A, x), Pos(A, y)) \in Int
  BY <1>3 DEF Distance
<1>5. Distance(Pos(A, x), Pos(A, y)) <= e
  BY <1>1, <1>4
<1> QED
  BY <1>5 DEF Beside

\* The blocks between two edges of a wanted segment are ours, and a block is as far
\* from them as its place is from an edge.
LEMMA WantedBlocks ==
  ASSUME NEW A, A \subseteq Ids, NEW S, NEW a \in Nat, NEW b \in Nat, a < b, b <= Size(A),
         Part(A, a, b) \in S,
         NEW x \in A
  PROVE  /\ a <= Pos(A, x) /\ Pos(A, x) < b => x \in UNION S
         /\ \A d \in Nat : a <= Pos(A, x) + d /\ Pos(A, x) < b + d => Beside(A, S, x, d)
<1>1. File(A) /\ IsFiniteSet(A) /\ A \subseteq Nat
  BY FilesAreFinite DEF File
<1>2. /\ \A y : Pos(A, y) \in Nat
      /\ Size(A) \in Nat
  BY <1>1, PositionBounds
<1>3. \A y \in A : a <= Pos(A, y) /\ Pos(A, y) < b => y \in UNION S
  BY DEF Part
<1>4. ASSUME NEW d \in Nat, a <= Pos(A, x) + d, Pos(A, x) < b + d
      PROVE  Beside(A, S, x, d)
  <2>1. ASSUME NEW q \in a .. b - 1, Distance(Pos(A, x), q) <= d
        PROVE  Beside(A, S, x, d)
    <3>1. q \in 0 .. Size(A) - 1
      BY <1>2
    <3>2. PICK y \in A : Pos(A, y) = q
      BY <1>1, <3>1, PositionIsTaken
    <3>3. y \in UNION S
      BY <1>3, <3>2
    <3> QED
      BY <2>1, <3>2, <3>3 DEF Beside
  <2>2. CASE Pos(A, x) < a
    <3>1. a \in a .. b - 1 /\ Distance(Pos(A, x), a) <= d
      BY <1>2, <1>4, <2>2 DEF Distance
    <3> QED
      BY <2>1, <3>1
  <2>3. CASE a <= Pos(A, x) /\ Pos(A, x) < b
    <3>1. Pos(A, x) \in a .. b - 1 /\ Distance(Pos(A, x), Pos(A, x)) <= d
      BY <1>2, <1>4, <2>3 DEF Distance
    <3> QED
      BY <2>1, <3>1
  <2>4. CASE b <= Pos(A, x)
    <3>1. b - 1 \in a .. b - 1 /\ Distance(Pos(A, x), b - 1) <= d
      BY <1>2, <1>4, <2>4 DEF Distance
    <3> QED
      BY <2>1, <3>1
  <2> QED
    BY <1>2, <2>2, <2>3, <2>4
<1> QED
  BY <1>3, <1>4

\* The next cut, of segment i in front of the seam, makes the seam of i: it ends at
\* the edge of i, or within reach of the seam if b is the segment behind i.
LEMMA CutMovesSeam ==
  ASSUME NEW A, A \subseteq Ids, NEW S, NEW l, NEW F, NEW i \in Nat, NEW b \in Nat, i < b,
         NEW p \in Nat, NEW d \in Nat,
         Seam(A, S, l, F, b, p, d), Wanted(A, S, l, i),
         Edge(l, i) \in Nat, Edge(l, i + 1) \in Nat, Edge(l, b) \in Nat,
         Edge(l, i + 1) <= Size(A),
         Edge(l, i) < Edge(l, i + 1), Edge(l, i) + 2 * Radius <= Edge(l, i + 1),
         i + 1 < b => Edge(l, i + 1) + 2 * Radius <= Edge(l, b),
         NEW s \in Nat, NEW e \in Nat, s < e, e <= Size(F),
         s <= Edge(l, i) + Radius, Edge(l, i) <= s + Radius,
         IF i + 1 = b THEN e <= p + Reach ELSE e <= Edge(l, i + 1) + Radius
  PROVE  Seam(A, S, l, F \ Part(F, s, e), i, s, d + Reach)
<1> DEFINE G == F \ Part(F, s, e)
           u == Edge(l, i)
           v == Edge(l, i + 1)
<1>0. Radius \in Nat /\ Reach \in Nat /\ Radius <= Reach
  BY IdsAreFinite DEF Reach
<1>1. /\ F \subseteq A /\ p <= Size(F)
      /\ \A x \in A : Pos(A, x) < p => x \in F
      /\ Edge(l, b) <= p + Radius
      /\ \A x \in A : Edge(l, b) <= Pos(A, x) /\ Pos(A, x) < p => x \in UNION S
      /\ \A x \in F : p <= Pos(F, x) => Beside(A, S, x, d + (Pos(F, x) - p) + 1)
      /\ \A x \in A : x \in F \/ Beside(A, S, x, d)
  BY DEF Seam, Untouched
<1>2. File(A) /\ File(F) /\ File(G) /\ IsFiniteSet(F) /\ F \subseteq Nat
  <2>1. File(A)
    BY FilesAreFinite DEF File
  <2>2. File(F) /\ IsFiniteSet(F) /\ F \subseteq Nat
    BY <1>1, <2>1, PartsAreFiles DEF File
  <2>3. G \in SUBSET F
    OBVIOUS
  <2>4. File(G)
    BY <2>2, <2>3, PartsAreFiles
  <2> QED
    BY <2>1, <2>2, <2>4
<1>3. /\ \A x : Pos(A, x) \in Nat /\ Pos(F, x) \in Nat /\ Pos(G, x) \in Nat
      /\ Size(F) \in Nat
  <2> HIDE DEF G
  <2> QED
    BY <1>2, PositionBounds
<1>4. /\ \A x \in A : Pos(A, x) < p => Pos(F, x) = Pos(A, x)
      /\ \A x \in F : Pos(F, x) < p => Pos(A, x) = Pos(F, x)
  <2>1. Untouched(A, F, p)
    BY DEF Seam
  <2>2. /\ \A x \in A : Pos(A, x) < p => Pos(F, x) = Pos(A, x)
        /\ \A x \in F : Pos(F, x) < p => Pos(A, x) = Pos(F, x)
    BY <1>2, <2>1, UntouchedPositions
  <2> QED
    BY <2>2
<1>5. \A x \in A : /\ u <= Pos(A, x) /\ Pos(A, x) < v => x \in UNION S
                   /\ \A k \in Nat : u <= Pos(A, x) + k /\ Pos(A, x) < v + k => Beside(A, S, x, k)
  BY WantedBlocks DEF Wanted
<1>6. s <= p /\ u <= s + Radius /\ s <= u + Radius /\ s <= v
      /\ (i + 1 # b => e <= v + Radius /\ v + Radius <= p)
      /\ (i + 1 = b => e <= p + Reach /\ v <= p + Radius)
  <2>1. i + 1 = b \/ i + 1 < b
    OBVIOUS
  <2> QED
    BY <1>0, <1>1, <2>1
<1>7. /\ \A x \in F : x \in Part(F, s, e) <=> s <= Pos(F, x) /\ Pos(F, x) < e
      /\ Part(F, s, e) \subseteq F
  BY DEF Part
<1>8. G \subseteq A
  BY <1>1
<1>9. s <= Size(G)
  <2>1. Size(G) = Size(F) - (e - s)
    <3>1. s <= e
      OBVIOUS
    <3> QED
      BY <1>2, <3>1, SizeWithoutPart
  <2> QED
    BY <1>3, <2>1
<1>10. ASSUME NEW x \in A, Pos(A, x) < s PROVE x \in G
  <2>1. Pos(A, x) < p
    BY <1>3, <1>6, <1>10
  <2>2. x \in F /\ Pos(F, x) = Pos(A, x)
    BY <1>1, <1>4, <2>1
  <2>3. ~(s <= Pos(F, x))
    BY <1>3, <1>10, <2>2
  <2> QED
    BY <1>7, <2>2, <2>3
<1>11. ASSUME NEW x \in A, u <= Pos(A, x), Pos(A, x) < s PROVE x \in UNION S
  <2>1. Pos(A, x) < v
    BY <1>3, <1>6, <1>11
  <2> QED
    BY <1>5, <1>11, <2>1
<1>110. \A x \in G : s <= Pos(G, x) => e <= Pos(F, x) /\ Pos(G, x) = Pos(F, x) - (e - s)
  <2>1. ASSUME NEW x \in F, x \notin Part(F, s, e), s <= Pos(F \ Part(F, s, e), x)
        PROVE  e <= Pos(F, x) /\ Pos(F \ Part(F, s, e), x) = Pos(F, x) - (e - s)
    <3>1. s <= e
      OBVIOUS
    <3> HIDE DEF G, u, v
    <3> QED
      BY <1>2, <2>1, <3>1, PositionsBehindACut
  <2> QED
    BY <2>1
<1>12. ASSUME NEW x \in G, s <= Pos(G, x)
       PROVE  Beside(A, S, x, (d + Reach) + (Pos(G, x) - s) + 1)
  <2> DEFINE q == Pos(F, x)
             k == (d + Reach) + (q - e) + 1
  <2>1. e <= q /\ Pos(G, x) = q - (e - s)
    BY <1>12, <1>110
  <2>2. (d + Reach) + (Pos(G, x) - s) + 1 = k /\ k \in Nat /\ q \in Nat /\ x \in F /\ x \in A
    BY <1>0, <1>1, <1>3, <2>1
  <2>3. CASE p <= q
    <3>1. Beside(A, S, x, d + (q - p) + 1)
      BY <1>1, <2>2, <2>3
    <3>2. d + (q - p) + 1 <= k
      <4>1. e <= p + Reach
        BY <1>0, <1>6
      <4> QED
        BY <1>0, <2>2, <4>1
    <3>3. d + (q - p) + 1 \in Int
      BY <2>2
    <3> QED
      BY <2>2, <3>1, <3>2, <3>3, BesideFurther
  <2>4. CASE q < p
    <3>1. Pos(A, x) = q
      BY <1>4, <2>2, <2>4
    <3>2. u <= q + k
      BY <1>0, <1>6, <2>1, <2>2
    <3>3. CASE i + 1 # b \/ q < v
      <4>1. q < v + k
        BY <1>0, <1>6, <2>1, <2>2, <3>3
      <4> QED
        BY <1>5, <2>2, <3>1, <3>2, <4>1
    <3>4. CASE i + 1 = b /\ v <= q
      <4>1. x \in UNION S
        BY <1>1, <2>2, <2>4, <3>1, <3>4
      <4>2. Distance(Pos(A, x), Pos(A, x)) <= k
        BY <2>2, <3>1 DEF Distance
      <4>3. Beside(A, S, x, k)
        BY <4>1, <4>2 DEF Beside
      <4> QED
        BY <2>2, <4>3
    <3> QED
      BY <2>2, <3>3, <3>4
  <2> QED
    BY <2>2, <2>3, <2>4
<1>13. ASSUME NEW x \in A, x \notin G PROVE Beside(A, S, x, d + Reach)
  <2>0. d + Reach \in Nat /\ d <= d + Reach
    BY <1>0
  <2>1. CASE x \notin F
    BY <1>1, <2>0, <2>1, BesideFurther
  <2>2. CASE x \in F
    <3> DEFINE q == Pos(F, x)
    <3>1. s <= q /\ q < e /\ q \in Nat
      BY <1>3, <1>7, <1>13, <2>2
    <3>2. CASE p <= q
      <4>1. Beside(A, S, x, d + (q - p) + 1)
        BY <1>1, <2>2, <3>2
      <4>2. d + (q - p) + 1 <= d + Reach /\ d + (q - p) + 1 \in Int
        BY <1>0, <1>6, <3>1, <3>2
      <4> QED
        BY <2>0, <4>1, <4>2, BesideFurther
    <3>3. CASE q < p
      <4>1. Pos(A, x) = q
        BY <1>4, <2>2, <3>3
      <4>2. u <= q + (d + Reach)
        BY <1>0, <1>6, <3>1
      <4>3. CASE i + 1 # b \/ q < v
        <5>1. q < v + (d + Reach)
          BY <1>0, <1>6, <3>1, <4>3
        <5> QED
          BY <1>5, <2>0, <4>1, <4>2, <5>1
      <4>4. CASE i + 1 = b /\ v <= q
        <5>1. x \in UNION S
          BY <1>1, <2>2, <3>3, <4>1, <4>4
        <5>2. Distance(Pos(A, x), Pos(A, x)) <= d + Reach
          BY <2>0, <3>1, <4>1 DEF Distance
        <5> QED
          BY <5>1, <5>2 DEF Beside
      <4> QED
        BY <3>1, <4>3, <4>4
    <3> QED
      BY <3>1, <3>2, <3>3
  <2> QED
    BY <2>1, <2>2
<1> HIDE DEF G
<1> QED
  BY <1>6, <1>8, <1>9, <1>10, <1>11, <1>12, <1>13 DEF Seam, Untouched, G

\* Cutting off the end in segment i, the one in front of the seam, leaves one block of
\* it, and nothing behind: the seam of i.
LEMMA TruncationMovesSeam ==
  ASSUME NEW A, A \subseteq Ids, NEW S, NEW l, NEW F, NEW i \in Nat,
         NEW p \in Nat, NEW d \in Nat,
         Seam(A, S, l, F, i + 1, p, d), Size(F) <= p, Wanted(A, S, l, i),
         Edge(l, i) \in Nat, Edge(l, i + 1) \in Nat, Edge(l, i + 1) <= Size(A),
         Edge(l, i) < Edge(l, i + 1), Edge(l, i) + 2 * Radius <= Edge(l, i + 1)
  PROVE  /\ Seam(A, S, l, Part(F, 0, Edge(l, i) + 1), i, Edge(l, i) + 1, d)
         /\ Size(Part(F, 0, Edge(l, i) + 1)) = Edge(l, i) + 1
<1> DEFINE u == Edge(l, i)
           v == Edge(l, i + 1)
           G == Part(F, 0, u + 1)
<1>0. Radius \in Nat
  BY IdsAreFinite
<1>1. /\ F \subseteq A /\ p <= Size(F)
      /\ \A x \in A : Pos(A, x) < p => x \in F
      /\ v <= p + Radius
      /\ \A x \in A : v <= Pos(A, x) /\ Pos(A, x) < p => x \in UNION S
      /\ \A x \in A : x \in F \/ Beside(A, S, x, d)
  BY DEF Seam, Untouched
<1>2. File(A) /\ File(F) /\ G \in SUBSET F
  <2>1. File(A)
    BY FilesAreFinite DEF File
  <2>2. File(F)
    BY <1>1, <2>1, PartsAreFiles
  <2> QED
    BY <2>1, <2>2 DEF Part
<1>3. /\ \A x : Pos(A, x) \in Nat /\ Pos(F, x) \in Nat /\ Pos(G, x) \in Nat
      /\ \A x \in F : Pos(F, x) < Size(F)
      /\ \A x \in G : Pos(G, x) < Size(G)
      /\ Size(F) \in Nat
  <2> HIDE DEF G
  <2>1. File(G)
    BY <1>2, PartsAreFiles
  <2> QED
    BY <1>2, <2>1, PositionBounds
<1>4. /\ \A x \in A : Pos(A, x) < p => Pos(F, x) = Pos(A, x)
      /\ \A x \in F : Pos(F, x) < p => Pos(A, x) = Pos(F, x)
  <2>1. Untouched(A, F, p)
    BY DEF Seam
  <2> QED
    BY <1>2, <2>1, UntouchedPositions
<1>5. \A x \in A : u <= Pos(A, x) /\ Pos(A, x) < v => x \in UNION S
  BY WantedBlocks DEF Wanted
<1>6. u + 1 <= p /\ u + 1 <= Size(F) /\ u + 1 \in Nat /\ 0 \in Nat /\ Size(F) = p
  BY <1>0, <1>1, <1>3
<1>7. Size(G) = u + 1
  <2>1. 0 <= u + 1 /\ (u + 1) - 0 = u + 1
    BY <1>6
  <2>2. Size(Part(F, 0, u + 1)) = (u + 1) - 0
    BY <1>2, <1>6, <2>1, SizeWithoutPart, ZenonT(30)
  <2> QED
    BY <2>1, <2>2
<1>8. \A x \in F : x \in G <=> Pos(F, x) < u + 1
  <2> TAKE x \in F
  <2>1. Pos(F, x) \in Nat /\ 0 <= Pos(F, x)
    BY <1>3
  <2> QED
    BY <2>1 DEF Part
<1>9. ASSUME NEW x \in A, Pos(A, x) < u + 1 PROVE x \in G
  <2>1. Pos(A, x) < p
    BY <1>3, <1>6, <1>9
  <2>2. x \in F /\ Pos(F, x) = Pos(A, x)
    BY <1>1, <1>4, <2>1
  <2> QED
    BY <1>8, <1>9, <2>2
<1>10. ASSUME NEW x \in A, u <= Pos(A, x), Pos(A, x) < u + 1 PROVE x \in UNION S
  <2>1. Pos(A, x) < v
    BY <1>3, <1>10
  <2> QED
    BY <1>5, <1>10, <2>1
<1>11. ASSUME NEW x \in G, u + 1 <= Pos(G, x) PROVE FALSE
  BY <1>3, <1>7, <1>11
<1>12. ASSUME NEW x \in A, x \notin G PROVE Beside(A, S, x, d)
  <2>1. CASE x \in F
    <3>1. u + 1 <= Pos(F, x) /\ Pos(F, x) < p /\ Pos(F, x) \in Nat
      BY <1>3, <1>6, <1>8, <1>12, <2>1
    <3>2. Pos(A, x) = Pos(F, x)
      BY <1>4, <2>1, <3>1
    <3>3. x \in UNION S
      BY <1>1, <1>5, <3>1, <3>2
    <3>4. Distance(Pos(A, x), Pos(A, x)) <= d
      BY <3>1, <3>2 DEF Distance
    <3> QED
      BY <3>3, <3>4 DEF Beside
  <2>2. CASE x \notin F
    BY <1>1, <2>2
  <2> QED
    BY <2>1, <2>2
<1>13. G \subseteq A /\ u <= (u + 1) + Radius /\ u + 1 <= Size(G)
  BY <1>0, <1>1, <1>2, <1>7
<1> HIDE DEF G
<1>14. Seam(A, S, l, G, i, u + 1, d)
  BY <1>9, <1>10, <1>11, <1>12, <1>13 DEF Seam, Untouched
<1> QED
  BY <1>7, <1>14 DEF G

\* Where a job starts nothing is cut.
LEMMA SeamAtTheStart ==
  ASSUME NEW A, A \subseteq Ids, NEW S, NEW l, NEW b, Edge(l, b) = Size(A)
  PROVE  Seam(A, S, l, A, b, Size(A), 0)
<1>1. File(A)
  BY FilesAreFinite DEF File
<1>2. /\ \A x \in A : Pos(A, x) \in Nat /\ Pos(A, x) < Size(A)
      /\ Size(A) \in Nat /\ Radius \in Nat
  BY <1>1, PositionBounds, IdsAreFinite
<1> QED
  BY <1>2 DEF Seam, Untouched

-----------------------------------------------------------------------------
(* Deleting: the list and the file while the loop runs.                    *)

\* The lists the user can have made leave room between their markers.
ListsSpaced ==
  \A size \in 1 .. NrBlocks : \A l \in MarkerLists(size) :
    \A j, k \in DOMAIN l : j < k => l[j].block + 2 * Radius <= l[k].block

Roomy(ms) == \A j, k \in 1 .. Len(ms) : j < k => ms[j].block + 2 * Radius <= ms[k].block
Spaced == pc = "edit" => Roomy(markers)

Current == IF job.multi THEN job.i ELSE job.active

\* Up to marker n the list ms is still the list l of the start.
Ahead(ms, l, n) == \A k \in 0 .. n : Edge(ms, k) = Edge(l, k) /\ ms[k + 1].sel = l[k + 1].sel

\* The list of the start, and what was asked for is what is selected in it; of a
\* selection of all segments the first is spared, since the others go one by one
\* from the end and the loop stops at the last one.
Original(l) ==
  /\ l \in Seq(MarkerType) /\ 2 <= Len(l) /\ InOrder(l, Size(asked.rec)) /\ Roomy(l)
Meant(l) ==
  IF job.multi
    THEN \/ \A k \in 0 .. Len(l) - 2 : l[k + 1].sel => Wanted(asked.rec, asked.segs, l, k)
         \/ job.i = Nr - 2 /\ \A k \in 0 .. Len(l) - 2 :
              l[k + 1].sel /\ (k # 0 => Wanted(asked.rec, asked.segs, l, k))
    ELSE Wanted(asked.rec, asked.segs, l, job.active)

\* Before the cut: behind segment b, which went last, nothing is as it was.
Ready(l, b, p, d) ==
  /\ Current < b /\ b <= Nr - 1 /\ b <= Len(l) - 1
  /\ Ahead(markers, l, b - 1)
  /\ Seam(asked.rec, asked.segs, l, rec, b, p, d)
  /\ IF b = Nr - 1 THEN Size(rec) <= p ELSE Block(b) + Radius <= p + Reach

\* After the cut of segment cut.w: the list does not know of it yet.
Cleared(l, p, d) ==
  /\ cut.w <= Nr - 2 /\ cut.w <= Len(l) - 2
  /\ Ahead(markers, l, cut.w - 1)
  /\ Seam(asked.rec, asked.segs, l, rec, cut.w, p, d)
  /\ IF cut.w = Nr - 2 THEN Size(rec) <= p ELSE cut.start + Radius <= p + Reach
  /\ \A k \in 1 .. cut.w - 1 : Edge(l, k) + Radius < cut.behind

Points ==
  /\ pc = "cut" => /\ cut.start = Block(cut.w) /\ cut.behind <= Block(cut.w + 1)
                   /\ cut.w < Nr - 2 /\ ~cut.trunc
  /\ pc = "truncate" => cut.start = Block(cut.w) /\ cut.w = Nr - 2
  /\ pc \in {"cut", "truncate"} => ~cut.ok
  /\ pc \in {"tidy", "adjust"} => cut.ok

AtWork(l, b, p, d) ==
  /\ Original(l) /\ Meant(l) /\ Points
  /\ pc \in {"next", "cut", "truncate"} => Ready(l, b, p, d)
  /\ pc \in {"cut", "truncate"} => Wanted(asked.rec, asked.segs, l, cut.w)
  /\ pc \in {"tidy", "swap", "swapback", "restart", "adjust"} /\ cut.ok => Cleared(l, p, d)

\* The blocks that are gone are not far from a segment that was asked for.
Gone(d) == \A x \in asked.rec : x \in rec \/ Beside(asked.rec, asked.segs, x, d)
\* What was in other files stays there.
Elsewhere ==
  \A x \in asked.files :
    x \in asked.rec \/ \E n \in Names : /\ x \in cuts[n]
                                        /\ pc \in {"truncate", "tidy"} => n # cut.name
Question ==
  /\ asked.rec \subseteq Ids /\ IsFiniteSet(asked.segs)
  /\ asked.drift = Cardinality(asked.segs) * Reach

\* Each cut moves the seam once, and there are no more cuts than segments.
DriftBudget ==
  \E t \in Nat :
    /\ t + Open <= Cardinality(asked.segs)
    /\ Gone(t * Reach)
    /\ pc \in Working => \E l : \E b, p \in Nat : AtWork(l, b, p, t * Reach)
Deleting == ~asked.keep => temp = {} /\ Question /\ Elsewhere /\ DriftBudget

LEMMA LoadedRoomy ==
  ASSUME ListsSpaced, NEW F, F \subseteq Ids, Size(F) # 0, NEW l \in MarkerLists(Size(F)),
         NEW ms, ms = [k \in DOMAIN l |-> Marker(l[k].block, F, l[k].sel)]
  PROVE  Roomy(ms)
<1>1. Size(F) \in 1 .. NrBlocks
  BY FilesAreFinite
<1>2. l \in Seq([block : 0 .. Size(F), sel : BOOLEAN]) /\ 2 <= Len(l)
  BY <1>1, ListsAssumption
<1>3. \A j, k \in DOMAIN l : j < k => l[j].block + 2 * Radius <= l[k].block
  BY <1>1 DEF ListsSpaced
<1>4. DOMAIN l = 1 .. Len(l) /\ Len(l) \in Nat
  BY <1>2
<1>5. Len(ms) = Len(l) /\ \A k \in 1 .. Len(l) : ms[k].block = l[k].block
  BY <1>4, SMTT(30) DEF Marker
<1> QED
  BY <1>3, <1>4, <1>5 DEF Roomy

LEMMA SpacedKept ==
  ASSUME CInv, ListsSpaced, Spaced, Next \/ UNCHANGED vars
  PROVE  Spaced'
<1>1. CASE pc' # "edit"
  BY <1>1 DEF Spaced
<1>2. CASE Load
  <2>1. rec \subseteq Ids /\ Size(rec) # 0
    <3>1. rec \subseteq Ids
      BY DEF CInv, Files
    <3>2. Size(rec) > 1
      BY <1>2 DEF Load
    <3> QED
      BY <3>1, <3>2
  <2>2. PICK l \in MarkerLists(Size(rec)) :
          markers' = [k \in DOMAIN l |-> Marker(l[k].block, rec, l[k].sel)]
    BY <1>2 DEF Load
  <2>3. Roomy(markers')
    BY <2>1, <2>2, LoadedRoomy
  <2> QED
    BY <2>3 DEF Spaced, Roomy
<1>3. CASE UNCHANGED vars
  BY <1>3 DEF Spaced, Roomy, vars
<1> QED
  BY <1>1, <1>2, <1>3, JobStarts
  DEF Next, Step, Skip, Choose, Patch, Cut, CutFails, Truncate, TruncateFails, Tidy, Swap,
      SwapBack, Restart, Adjust, Save, SwitchOff

\* The edges of the list of the start.
LEMMA EdgesOfOriginal ==
  ASSUME CInv, asked.rec \subseteq Ids, NEW l, Original(l)
  PROVE  /\ Len(l) \in Nat
         /\ \A k \in 0 .. Len(l) - 1 : Edge(l, k) \in Nat /\ Edge(l, k) <= Size(asked.rec)
         /\ \A j, k \in 0 .. Len(l) - 1 :
              j < k => Edge(l, j) < Edge(l, k) /\ Edge(l, j) + 2 * Radius <= Edge(l, k)
<1>1. /\ l \in Seq(MarkerType) /\ 2 <= Len(l) /\ Len(l) \in Nat
      /\ l[Len(l)].block = Size(asked.rec)
      /\ \A k \in 1 .. Len(l) : 0 <= l[k].block
      /\ \A j, k \in 1 .. Len(l) : j < k => l[j].block < l[k].block
      /\ \A j, k \in 1 .. Len(l) : j < k => l[j].block + 2 * Radius <= l[k].block
  BY DEF Original, InOrder, Roomy
<1>2. Size(asked.rec) \in Nat
  <2>1. Size(asked.rec) \in 0 .. NrBlocks
    BY FilesAreFinite
  <2> QED
    BY <2>1
<1>3. \A k \in 1 .. Len(l) : l[k].block \in Nat
  <2> TAKE k \in 1 .. Len(l)
  <2>1. l[k] \in MarkerType
    BY <1>1
  <2>2. l[k].block \in Int
    BY <2>1 DEF MarkerType
  <2> QED
    BY <1>1, <2>2
<1>4. \A k \in 1 .. Len(l) : l[k].block <= Size(asked.rec)
  <2> TAKE k \in 1 .. Len(l)
  <2>1. k = Len(l) \/ k < Len(l)
    BY <1>1
  <2>2. Len(l) \in 1 .. Len(l)
    BY <1>1
  <2> QED
    BY <1>1, <1>2, <1>3, <2>1, <2>2
<1>5. \A k \in 0 .. Len(l) - 1 : k + 1 \in 1 .. Len(l) /\ k \in Int
  BY <1>1
<1>6. \A k \in 0 .. Len(l) - 1 : Edge(l, k) \in Nat /\ Edge(l, k) <= Size(asked.rec)
  BY <1>3, <1>4, <1>5 DEF Edge
<1>7. ASSUME NEW j \in 0 .. Len(l) - 1, NEW k \in 0 .. Len(l) - 1, j < k
      PROVE  Edge(l, j) < Edge(l, k) /\ Edge(l, j) + 2 * Radius <= Edge(l, k)
  <2>1. j + 1 \in 1 .. Len(l) /\ k + 1 \in 1 .. Len(l) /\ j + 1 < k + 1
    BY <1>5, <1>7
  <2> QED
    BY <1>1, <2>1 DEF Edge
<1> QED
  BY <1>1, <1>6, <1>7

\* A job that deletes cuts directly, and takes off the end by truncating.
LEMMA DeletingJob ==
  ASSUME CInv, ~asked.keep, pc \in Working
  PROVE  /\ ~job.keep /\ ~job.split /\ job \in JobType /\ cut \in CutType
         /\ markers \in Seq(MarkerType) /\ 2 <= Len(markers) /\ Nr = Len(markers) /\ Nr \in Nat
         /\ Current \in 0 .. Nr - 2
         /\ pc \in Chosen => cut.w = Current /\ cut.name \in FreeCuts /\ ~cut.special
         /\ \A k \in 0 .. Nr - 1 : Block(k) \in Int /\ Block(k) = Edge(markers, k)
<1>1. pc # "edit" /\ runs # 0
  BY DEF CInv, Runs, Working
<1>2. /\ ~job.keep /\ ~job.split /\ job \in JobType /\ cut \in CutType
      /\ markers \in Seq(MarkerType) /\ 2 <= Len(markers)
      /\ job.multi => job.i \in 0 .. Len(markers) - 2
      /\ ~job.multi => job.active \in 0 .. Len(markers) - 2
      /\ pc \in Chosen => /\ cut.w = IF job.multi THEN job.i ELSE job.active
                          /\ cut.name \in FreeCuts /\ ~cut.special
  BY <1>1 DEF CInv, Runs, Records, List, Loop, Work
<1>3. Nr = Len(markers) /\ Nr \in Nat
  BY <1>2 DEF Nr
<1>4. \A k \in 0 .. Nr - 1 : Block(k) \in Int /\ Block(k) = Edge(markers, k)
  <2> TAKE k \in 0 .. Nr - 1
  <2>1. markers[k + 1] \in MarkerType
    BY <1>2, <1>3
  <2> QED
    BY <2>1 DEF Block, At, Edge, MarkerType
<1> QED
  BY <1>2, <1>3, <1>4 DEF Current

LEMMA ChosenForDeleting ==
  ASSUME CInv, ~asked.keep, Choose
  PROVE  /\ pc = "next" /\ UNCHANGED <<rec, cuts, markers, job, asked>> /\ temp' = temp
         /\ cut'.w = Current /\ cut'.start = Block(Current) /\ ~cut'.ok
         /\ job.multi => At(job.i).sel
         /\ IF Current = Nr - 2 THEN pc' = "truncate"
            ELSE pc' = "cut" /\ ~cut'.trunc /\ cut'.behind <= Block(Current + 1)
<1>1. pc = "next" /\ pc \in Working /\ UNCHANGED <<rec, cuts, markers, job, asked>>
      /\ (job.multi => At(job.i).sel)
  BY DEF Choose, Working
<1>2. /\ ~job.keep /\ ~job.split /\ Current \in 0 .. Nr - 2 /\ Nr \in Nat
      /\ \A k \in 0 .. Nr - 1 : Block(k) \in Int
  BY <1>1, DeletingJob
<1> DEFINE end == Block(Current + 1)
           isEnd == job.split \/ Current = Nr - 2
           special == isEnd /\ SpecialEnd(Block(Current), end)
           trunc == isEnd /\ ~special
<1>3. /\ cut' = [w |-> Current, start |-> IF special THEN 0 ELSE Block(Current),
                 behind |-> Clamped(IF special THEN Block(Current)
                                    ELSE IF trunc THEN DWord - 1 ELSE end),
                 special |-> special, trunc |-> trunc, name |-> CutName(job.left - 1),
                 exact |-> FALSE, ok |-> FALSE]
      /\ temp' = IF special THEN {} ELSE temp
      /\ pc' = IF trunc /\ ~job.keep THEN "truncate" ELSE "cut"
  BY <1>2 DEF Choose, Current
<1>4. special = FALSE /\ trunc = (Current = Nr - 2)
  BY <1>2 DEF SpecialEnd
<1>5. cut'.w = Current /\ cut'.start = Block(Current) /\ ~cut'.ok /\ temp' = temp
  <2> HIDE DEF special, trunc
  <2> QED
    BY <1>3, <1>4
<1>6. CASE Current = Nr - 2
  <2>1. pc' = "truncate"
    BY <1>2, <1>3, <1>4, <1>6
  <2> QED
    BY <1>1, <1>5, <1>6, <2>1
<1>7. CASE Current # Nr - 2
  <2>1. trunc = FALSE
    BY <1>4, <1>7
  <2>2. cut'.behind = Clamped(end) /\ ~cut'.trunc /\ pc' = "cut"
    <3> HIDE DEF special, trunc, end
    <3> QED
      BY <1>3, <1>4, <2>1
  <2>3. Current + 1 \in 0 .. Nr - 1
    BY <1>2
  <2>4. end \in Int
    BY <1>2, <2>3
  <2>5. Size(rec) \in Nat /\ Radius \in Nat /\ DWord \in Nat
    <3>1. rec \subseteq Ids
      BY DEF CInv, Files
    <3>2. Size(rec) \in 0 .. NrBlocks
      BY <3>1, FilesAreFinite
    <3> QED
      BY <3>2, IdsAreFinite
  <2>6. Clamped(end) <= end
    <3> HIDE DEF end
    <3> QED
      BY <2>4, <2>5 DEF Clamped
  <2> QED
    BY <1>1, <1>5, <1>7, <2>2, <2>6
<1> QED
  BY <1>6, <1>7

\* What depends on the question alone.
LEMMA SameQuestion ==
  ASSUME asked'.rec = asked.rec, asked'.segs = asked.segs
  PROVE  /\ \A l : Original(l)' = Original(l)
         /\ \A d : UNCHANGED rec => Gone(d)' = Gone(d)
         /\ UNCHANGED <<job, markers>> => \A l : Meant(l)' = Meant(l)
BY DEF Original, InOrder, Roomy, Gone, Meant, Wanted, Beside, Size, Pos, Part, Nr

\* A step that leaves the recording, the list and the segment at work alone.
LEMMA WorkMovesOn ==
  ASSUME UNCHANGED <<rec, markers, job, cut>>, asked'.rec = asked.rec, asked'.segs = asked.segs,
         pc \in Working, pc' \in Working \ {"next"},
         pc' = "cut" => pc = "cut", pc' = "truncate" => pc = "truncate",
         pc' \in {"tidy", "adjust"} => cut.ok,
         pc' \in {"tidy", "swap", "swapback", "restart", "adjust"} /\ cut.ok
           => pc \in {"tidy", "swap", "swapback", "restart", "adjust"},
         NEW l, NEW b \in Nat, NEW p \in Nat, NEW d, AtWork(l, b, p, d)
  PROVE  AtWork(l, b, p, d)'
<1>1. Original(l)' /\ Meant(l)'
  BY SameQuestion DEF AtWork
<1>2. Points'
  BY DEF AtWork, Points, Block, At, Nr
<1>3. Ready(l, b, p, d)' = Ready(l, b, p, d)
  BY DEF Ready, Current, Nr, Block, At
<1>4. Cleared(l, p, d)' = Cleared(l, p, d)
  BY DEF Cleared, Nr
<1>5. Wanted(asked.rec, asked.segs, l, cut.w)' = Wanted(asked.rec, asked.segs, l, cut.w)
  OBVIOUS
<1> QED
  BY <1>1, <1>2, <1>3, <1>4, <1>5 DEF AtWork, Working

LEMMA SkipWork ==
  ASSUME CInv, Several, ~asked.keep, Skip, pc' = "next",
         NEW l, NEW b \in Nat, NEW p \in Nat, NEW d, AtWork(l, b, p, d)
  PROVE  AtWork(l, b, p, d)'
<1>1. /\ pc = "next" /\ job.multi /\ ~At(job.i).sel /\ job' = [job EXCEPT !.i = Onward]
      /\ UNCHANGED <<rec, markers, cut, asked>> /\ pc \in Working
  BY DEF Skip, disk, files, Working
<1>2. /\ job \in JobType /\ Current \in 0 .. Nr - 2 /\ Nr \in Nat
  BY <1>1, DeletingJob
<1>3. job'.multi /\ job'.i = job.i - 1 /\ Current = job.i /\ Current' = Current - 1
  BY <1>1, <1>2 DEF JobType, Onward, Current
<1>4. Original(l) /\ Meant(l) /\ Ready(l, b, p, d)
  BY <1>1 DEF AtWork
<1>5. ~l[job.i + 1].sel /\ job.i \in 0 .. Len(l) - 2
  <2>1. job.i \in 0 .. b - 1 /\ b <= Len(l) - 1 /\ Len(l) \in Nat
    BY <1>2, <1>3, <1>4 DEF Ready, Original
  <2>2. markers[job.i + 1].sel = l[job.i + 1].sel
    BY <1>4, <2>1 DEF Ready, Ahead
  <2> QED
    BY <1>1, <2>1, <2>2 DEF At
<1>6. \A k \in 0 .. Len(l) - 2 : l[k + 1].sel => Wanted(asked.rec, asked.segs, l, k)
  BY <1>1, <1>4, <1>5 DEF Meant
<1>7. Meant(l)'
  BY <1>1, <1>3, <1>6 DEF Meant
<1>8. Original(l)'
  BY <1>1, <1>4, SameQuestion
<1>9. Ready(l, b, p, d)'
  BY <1>1, <1>2, <1>3, <1>4 DEF Ready, Nr, Block, At
<1> QED
  BY <1>7, <1>8, <1>9 DEF AtWork, Points

LEMMA ChooseWork ==
  ASSUME CInv, Several, ~asked.keep, Choose,
         NEW l, NEW b \in Nat, NEW p \in Nat, NEW d, AtWork(l, b, p, d)
  PROVE  AtWork(l, b, p, d)'
<1>1. /\ pc = "next" /\ UNCHANGED <<rec, markers, job, asked>>
      /\ cut'.w = Current /\ cut'.start = Block(Current) /\ ~cut'.ok
      /\ job.multi => At(job.i).sel
      /\ IF Current = Nr - 2 THEN pc' = "truncate"
         ELSE pc' = "cut" /\ ~cut'.trunc /\ cut'.behind <= Block(Current + 1)
  BY ChosenForDeleting
<1>2. Current \in 0 .. Nr - 2 /\ Nr \in Nat /\ Nr = Len(markers)
  BY <1>1, DeletingJob DEF Working
<1>3. Original(l) /\ Meant(l) /\ Ready(l, b, p, d)
  BY <1>1 DEF AtWork
<1>4. Current \in 0 .. Len(l) - 2 /\ Current \in 0 .. b - 1
  <2>1. Len(l) \in Nat
    BY <1>3 DEF Original
  <2> QED
    BY <1>2, <1>3, <2>1 DEF Ready
<1>5. Wanted(asked.rec, asked.segs, l, Current)
  <2>1. CASE ~job.multi
    BY <1>3, <2>1 DEF Meant, Current
  <2>2. CASE job.multi
    <3>1. Current = job.i /\ 3 <= Nr
      BY <1>1, <1>2, <2>2 DEF Current, Several, Working
    <3>2. l[job.i + 1].sel
      <4>1. markers[job.i + 1].sel = l[job.i + 1].sel
        BY <1>3, <1>4, <3>1 DEF Ready, Ahead
      <4> QED
        BY <1>1, <2>2, <4>1 DEF At
    <3>3. job.i = Nr - 2 => job.i # 0
      BY <1>2, <3>1
    <3> QED
      BY <1>3, <1>4, <2>2, <3>1, <3>2, <3>3 DEF Meant
  <2> QED
    BY <2>1, <2>2
<1>6. Original(l)' /\ Meant(l)'
  BY <1>1, <1>3, SameQuestion
<1>7. Ready(l, b, p, d)'
  BY <1>1, <1>3 DEF Ready, Current, Nr, Block, At
<1>8. Wanted(asked.rec, asked.segs, l, cut.w)'
  BY <1>1, <1>5
<1>9. Points'
  <2>1. Current # Nr - 2 => Current < Nr - 2
    BY <1>2
  <2> QED
    BY <1>1, <2>1 DEF Points, Nr, Block, At
<1> QED
  BY <1>1, <1>6, <1>7, <1>8, <1>9 DEF AtWork

LEMMA CutWork ==
  ASSUME CInv, ~asked.keep, asked.rec \subseteq Ids, Cut,
         NEW l, NEW b \in Nat, NEW p \in Nat, NEW d \in Nat, AtWork(l, b, p, d)
  PROVE  /\ \E q \in Nat : AtWork(l, b, q, d + Reach)'
         /\ Gone(d + Reach)'
<1> DEFINE i == cut.w
           A == asked.rec
           S == asked.segs
<1>1. pc = "cut" /\ pc \in Working /\ pc \in Chosen /\ UNCHANGED <<markers, job>>
  BY DEF Cut, Working, Chosen
<1>2. /\ Nr \in Nat /\ i = Current /\ i \in 0 .. Nr - 2 /\ cut \in CutType
      /\ \A k \in 0 .. Nr - 1 : Block(k) \in Int /\ Block(k) = Edge(markers, k)
  BY <1>1, DeletingJob
<1>3. /\ Original(l) /\ Meant(l) /\ Ready(l, b, p, d) /\ Wanted(A, S, l, i)
      /\ cut.start = Block(i) /\ cut.behind <= Block(i + 1) /\ i < Nr - 2 /\ ~cut.trunc
  BY <1>1 DEF AtWork, Points
<1>4. PICK s, e \in 0 .. Size(rec) :
        /\ s < e
        /\ rec' = rec \ Part(rec, s, e)
        /\ \A f \in {"w", "special", "trunc", "name"} : cut'[f] = cut[f]
        /\ cut'.ok
        /\ cut'.exact => cut'.start = s /\ cut'.behind = e
        /\ cut'.exact \/ "positions" \in Faults
        /\ s <= cut.start + Radius /\ cut.start <= s + Radius
        /\ e <= cut.behind + Radius /\ cut.start < cut.behind
        /\ ~cut'.exact => cut'.start = cut.start /\ cut'.behind = cut.behind
  BY CutRange
<1>5. asked'.rec = A /\ asked'.segs = S
  <2>1. ~SaveOrDelete /\ ~Split /\ Next
    BY <1>1 DEF SaveOrDelete, Split, Next, Step
  <2> QED
    BY <2>1, AskedStays
<1>6. cut'.w = i /\ pc' = "tidy"
  BY <1>3, <1>4 DEF Cut
<1>7. /\ Radius \in Nat /\ Reach \in Nat /\ Radius <= Reach
      /\ "positions" \in Faults => Reach = 2 * Radius
  BY IdsAreFinite DEF Reach
<1>8. s \in Nat /\ e \in Nat /\ e <= Size(rec)
  <2>1. rec \subseteq Ids
    BY DEF CInv, Files
  <2>2. Size(rec) \in 0 .. NrBlocks
    BY <2>1, FilesAreFinite
  <2> QED
    BY <1>4, <2>2
<1>9. /\ Len(l) \in Nat /\ i < b /\ b <= Nr - 1 /\ b <= Len(l) - 1
      /\ Seam(A, S, l, rec, b, p, d) /\ Ahead(markers, l, b - 1)
      /\ b # Nr - 1 => Block(b) + Radius <= p + Reach
  <2>1. Len(l) \in Nat
    BY <1>3 DEF Original
  <2>2. Current < b /\ b <= Nr - 1 /\ b <= Len(l) - 1 /\ Ahead(markers, l, b - 1)
        /\ Seam(asked.rec, asked.segs, l, rec, b, p, d)
        /\ IF b = Nr - 1 THEN Size(rec) <= p ELSE Block(b) + Radius <= p + Reach
    BY <1>3 DEF Ready
  <2> QED
    BY <1>2, <2>1, <2>2
<1> HIDE DEF i
<1>10. /\ \A k \in 0 .. Len(l) - 1 : Edge(l, k) \in Nat /\ Edge(l, k) <= Size(A)
       /\ \A j, k \in 0 .. Len(l) - 1 :
            j < k => Edge(l, j) < Edge(l, k) /\ Edge(l, j) + 2 * Radius <= Edge(l, k)
  BY <1>3, EdgesOfOriginal
<1>11. \A k \in 0 .. b - 1 : Block(k) = Edge(l, k) /\ k \in 0 .. Len(l) - 1
  <2> TAKE k \in 0 .. b - 1
  <2>1. k \in 0 .. Nr - 1 /\ k \in 0 .. Len(l) - 1
    BY <1>2, <1>9
  <2>2. Block(k) = Edge(markers, k)
    BY <1>2, <2>1
  <2>3. Edge(markers, k) = Edge(l, k)
    BY <1>9 DEF Ahead
  <2> QED
    BY <2>1, <2>2, <2>3
<1>12. i \in 0 .. b - 1 /\ cut.start = Edge(l, i) /\ Edge(l, i) \in Nat
       /\ i \in 0 .. Len(l) - 1 /\ i + 1 \in 0 .. Len(l) - 1 /\ b \in 0 .. Len(l) - 1
  <2>1. i \in 0 .. b - 1
    BY <1>2, <1>9
  <2>2. cut.start = Edge(l, i) /\ i \in 0 .. Len(l) - 1
    BY <1>3, <1>11, <2>1
  <2>3. i + 1 \in 0 .. Len(l) - 1 /\ b \in 0 .. Len(l) - 1
    BY <1>9, <2>1
  <2> QED
    BY <1>10, <2>1, <2>2, <2>3
<1>13. cut.behind \in Int /\ Block(i + 1) \in Int /\ e <= Block(i + 1) + Radius
  <2>1. i + 1 \in 0 .. Nr - 1
    BY <1>2
  <2>2. Block(i + 1) \in Int /\ cut.behind \in Int
    BY <1>2, <2>1 DEF CutType
  <2> QED
    BY <1>3, <1>4, <1>7, <1>8, <2>2
<1>14. IF i + 1 = b THEN e <= p + Reach ELSE e <= Edge(l, i + 1) + Radius
  <2>1. CASE i + 1 = b
    <3>1. Block(b) + Radius <= p + Reach
      BY <1>2, <1>3, <1>9, <2>1
    <3> QED
      BY <1>7, <1>8, <1>13, <2>1, <3>1
  <2>2. CASE i + 1 # b
    <3>1. i + 1 \in 0 .. b - 1
      BY <1>9, <1>12, <2>2
    <3> QED
      BY <1>11, <1>13, <2>2, <3>1
  <2> QED
    BY <2>1, <2>2
<1>15. Seam(A, S, l, rec \ Part(rec, s, e), i, s, d + Reach)
  <2>1. /\ Edge(l, i + 1) \in Nat /\ Edge(l, b) \in Nat /\ Edge(l, i + 1) <= Size(A)
        /\ Edge(l, i) < Edge(l, i + 1) /\ Edge(l, i) + 2 * Radius <= Edge(l, i + 1)
        /\ i + 1 < b => Edge(l, i + 1) + 2 * Radius <= Edge(l, b)
    <3>1. i < i + 1
      BY <1>2
    <3> QED
      BY <1>10, <1>12, <3>1
  <2>2. s <= Edge(l, i) + Radius /\ Edge(l, i) <= s + Radius /\ i \in Nat /\ s < e
    BY <1>2, <1>4, <1>12
  <2> HIDE DEF A, S
  <2>3. A \subseteq Ids
    BY DEF A
  <2> QED
    BY <1>3, <1>8, <1>9, <1>12, <1>14, <2>1, <2>2, <2>3, CutMovesSeam
<1>16. cut'.start + Radius <= s + Reach
  <2>1. CASE cut'.exact
    BY <1>4, <1>7, <1>8, <2>1
  <2>2. CASE ~cut'.exact
    BY <1>4, <1>7, <1>8, <1>12, <2>2
  <2> QED
    BY <2>1, <2>2
<1>17. \A k \in 1 .. i - 1 : Edge(l, k) + Radius < cut'.behind
  <2> TAKE k \in 1 .. i - 1
  <2>0. i \in Nat /\ b \in Nat /\ Len(l) \in Nat /\ i < b /\ b <= Len(l) - 1
    BY <1>2, <1>9
  <2>1. k \in 0 .. Len(l) - 1 /\ k < i
    BY <2>0
  <2>2. Edge(l, k) \in Nat /\ Edge(l, i) \in Nat /\ Edge(l, k) + 2 * Radius <= Edge(l, i)
    BY <1>10, <1>12, <2>1
  <2>3. CASE cut'.exact
    <3>1. s < e /\ cut'.behind = e /\ Edge(l, i) <= s + Radius
      BY <1>4, <1>12, <2>3
    <3> QED
      BY <1>7, <1>8, <2>2, <3>1
  <2>4. CASE ~cut'.exact
    <3>1. cut'.behind = cut.behind /\ Edge(l, i) < cut.behind
      BY <1>4, <1>12, <2>4
    <3>2. cut.behind \in Int
      BY <1>13
    <3> QED
      BY <1>7, <2>2, <3>1, <3>2
  <2> QED
    BY <2>3, <2>4
<1>18. Ahead(markers, l, i - 1)
  <2>1. \A k \in 0 .. i - 1 : k \in 0 .. b - 1
    BY <1>12
  <2> QED
    BY <1>9, <2>1 DEF Ahead
<1>19. i <= Nr - 2 /\ i <= Len(l) - 2 /\ i # Nr - 2
  BY <1>2, <1>3, <1>9, <1>12
<1>20. Cleared(l, s, d + Reach)'
  BY <1>1, <1>4, <1>5, <1>6, <1>15, <1>16, <1>17, <1>18, <1>19 DEF Cleared, Nr
<1>21. Gone(d + Reach)'
  BY <1>4, <1>5, <1>15 DEF Gone, Seam
<1>22. Original(l)' /\ Meant(l)'
  BY <1>1, <1>3, <1>5, SameQuestion
<1>23. Points'
  BY <1>4, <1>6 DEF Points
<1>24. AtWork(l, b, s, d + Reach)'
  BY <1>6, <1>20, <1>22, <1>23 DEF AtWork
<1> QED
  BY <1>8, <1>21, <1>24

LEMMA TruncateWork ==
  ASSUME CInv, ~asked.keep, asked.rec \subseteq Ids, Truncate,
         NEW l, NEW b \in Nat, NEW p \in Nat, NEW d \in Nat, AtWork(l, b, p, d)
  PROVE  /\ \E q \in Nat : AtWork(l, b, q, d)'
         /\ Gone(d)'
<1> DEFINE i == cut.w
           A == asked.rec
           S == asked.segs
<1>1. pc = "truncate" /\ pc' = "tidy" /\ pc \in Working /\ pc \in Chosen
      /\ UNCHANGED <<markers, job, asked>>
  BY DEF Truncate, Working, Chosen
<1>2. /\ Nr \in Nat /\ i = Current /\ i \in 0 .. Nr - 2 /\ cut \in CutType /\ ~job.keep
      /\ \A k \in 0 .. Nr - 1 : Block(k) \in Int /\ Block(k) = Edge(markers, k)
  BY <1>1, DeletingJob
<1>3. /\ Original(l) /\ Meant(l) /\ Ready(l, b, p, d) /\ Wanted(A, S, l, i)
      /\ cut.start = Block(i) /\ i = Nr - 2
  BY <1>1 DEF AtWork, Points
<1>4. /\ Len(l) \in Nat /\ b = i + 1 /\ i + 1 = Nr - 1 /\ i + 1 <= Len(l) - 1 /\ i \in Nat
      /\ Seam(A, S, l, rec, i + 1, p, d) /\ Size(rec) <= p /\ Ahead(markers, l, i)
  <2>1. Len(l) \in Nat
    BY <1>3 DEF Original
  <2>2. Current < b /\ b <= Nr - 1 /\ b <= Len(l) - 1 /\ Ahead(markers, l, b - 1)
        /\ Seam(asked.rec, asked.segs, l, rec, b, p, d)
        /\ IF b = Nr - 1 THEN Size(rec) <= p ELSE Block(b) + Radius <= p + Reach
    BY <1>3 DEF Ready
  <2>3. b = i + 1 /\ b = Nr - 1 /\ i \in Nat /\ b - 1 = i
    BY <1>2, <1>3, <2>2
  <2> HIDE DEF i
  <2> QED
    BY <2>1, <2>2, <2>3
<1>5. /\ rec' = Part(rec, 0, cut.start + 1)
      /\ cut'.ok /\ cut'.behind = Size(rec)
      /\ cut'.w = i
  BY <1>2 DEF Truncate, TruncateAt, CutType
<1> HIDE DEF i
<1>6. /\ \A k \in 0 .. Len(l) - 1 : Edge(l, k) \in Nat /\ Edge(l, k) <= Size(A)
      /\ \A j, k \in 0 .. Len(l) - 1 :
           j < k => Edge(l, j) < Edge(l, k) /\ Edge(l, j) + 2 * Radius <= Edge(l, k)
  BY <1>3, EdgesOfOriginal
<1>7. i \in 0 .. Len(l) - 1 /\ i + 1 \in 0 .. Len(l) - 1 /\ i < i + 1
  BY <1>4
<1>8. cut.start = Edge(l, i)
  <2>1. i \in 0 .. Nr - 1 /\ i \in 0 .. i
    BY <1>4
  <2>2. Block(i) = Edge(markers, i)
    BY <1>2, <2>1
  <2>3. Edge(markers, i) = Edge(l, i)
    BY <1>4, <2>1 DEF Ahead
  <2> QED
    BY <1>3, <2>2, <2>3
<1>9. /\ Edge(l, i) \in Nat /\ Edge(l, i + 1) \in Nat /\ Edge(l, i + 1) <= Size(A)
      /\ Edge(l, i) < Edge(l, i + 1) /\ Edge(l, i) + 2 * Radius <= Edge(l, i + 1)
  BY <1>6, <1>7
<1>90. PICK q \in Nat : q = Edge(l, i) + 1
  BY <1>9
<1>10. Seam(A, S, l, Part(rec, 0, q), i, q, d) /\ Size(Part(rec, 0, q)) = q
  <2> HIDE DEF A, S
  <2>1. A \subseteq Ids
    BY DEF A
  <2> QED
    BY <1>3, <1>4, <1>9, <1>90, <2>1, TruncationMovesSeam
<1>11. q \in Nat /\ rec' = Part(rec, 0, q) /\ Size(rec)' = q
  <2>1. q \in Nat /\ rec' = Part(rec, 0, q)
    BY <1>5, <1>8, <1>90
  <2> QED
    BY <1>10, <2>1 DEF Size
<1>12. \A k \in 1 .. i - 1 : Edge(l, k) + Radius < cut'.behind
  <2> TAKE k \in 1 .. i - 1
  <2>1. k \in 0 .. Len(l) - 1 /\ k < i
    BY <1>4
  <2>2. Edge(l, k) \in Nat /\ Edge(l, k) + 2 * Radius <= Edge(l, i)
    BY <1>6, <1>7, <2>1
  <2>3. p <= Size(rec) /\ Edge(l, i + 1) <= p + Radius
    BY <1>4 DEF Seam
  <2>4. Radius \in Nat /\ cut'.behind = Size(rec) /\ Size(rec) \in Int
    <3>1. rec \subseteq Ids
      BY DEF CInv, Files
    <3>2. Size(rec) \in 0 .. NrBlocks
      BY <3>1, FilesAreFinite
    <3> QED
      BY <1>5, <3>2, IdsAreFinite
  <2> QED
    BY <1>9, <2>2, <2>3, <2>4
<1>13. Ahead(markers, l, i - 1)
  <2>1. \A k \in 0 .. i - 1 : k \in 0 .. i
    BY <1>4
  <2> QED
    BY <1>4, <2>1 DEF Ahead
<1>14. i <= Nr - 2 /\ i <= Len(l) - 2
  BY <1>3, <1>4
<1>15. Cleared(l, q, d)'
  <2>1. Size(rec)' <= q
    BY <1>11
  <2> QED
    BY <1>1, <1>3, <1>5, <1>10, <1>11, <1>12, <1>13, <1>14, <2>1 DEF Cleared, Nr
<1>16. Gone(d)'
  BY <1>1, <1>10, <1>11 DEF Gone, Seam
<1>17. Original(l)' /\ Meant(l)'
  BY <1>1, <1>3, SameQuestion
<1>18. Points'
  BY <1>1, <1>5 DEF Points
<1>19. AtWork(l, b, q, d)'
  BY <1>1, <1>15, <1>17, <1>18 DEF AtWork
<1> QED
  BY <1>11, <1>16, <1>19

\* What is in front of the segment that is taken from the list stays.
LEMMA RemovedInFront ==
  ASSUME markers \in Seq(MarkerType), cut.w \in 1 .. Len(markers) - 2
  PROVE  /\ Removed \in Seq(MarkerType) /\ Len(Removed) = Len(markers) - 1
         /\ \A j \in 1 .. cut.w : Removed[j] = markers[j]
<1> DEFINE i == cut.w
           k == i + 1
           u == [markers EXCEPT ![k] = [@ EXCEPT !.sel = FALSE]]
           rest == RemoveAt(u, k)
           n == Len(markers) - 1
<1>1. k \in 1 .. Len(markers) /\ Len(markers) \in Nat /\ i \in Int /\ 0 < i /\ n \in Nat
      /\ i \in 1 .. Len(markers) - 2
  OBVIOUS
<1>2. u \in Seq(MarkerType) /\ Len(u) = Len(markers)
      /\ \A j \in 1 .. i : u[j] = markers[j]
  <2> HIDE DEF i
  <2>1. markers[k] \in MarkerType
    BY <1>1
  <2>2. [markers[k] EXCEPT !.sel = FALSE] \in MarkerType
    BY <2>1 DEF MarkerType
  <2> DEFINE m == [markers[k] EXCEPT !.sel = FALSE]
  <2>3. u = [markers EXCEPT ![k] = m]
    OBVIOUS
  <2> HIDE DEF m, u
  <2>4. m \in MarkerType
    BY <2>2 DEF m
  <2>5. u \in Seq(MarkerType) /\ Len(u) = Len(markers)
    BY <1>1, <2>3, <2>4
  <2>6. \A j \in 1 .. i : u[j] = markers[j]
    BY <1>1, <2>3
  <2> QED
    BY <2>5, <2>6
<1>3. Removed = [rest EXCEPT ![Len(rest)].sel = FALSE]
  <2>1. Removed = Without(u, i)
    BY <1>1 DEF Removed
  <2>2. i < Len(u) - 1
    BY <1>1, <1>2
  <2> HIDE DEF u, i
  <2> QED
    BY <1>1, <2>1, <2>2 DEF Without
<1> HIDE DEF u, i
<1>4. rest \in Seq(MarkerType) /\ Len(rest) = n /\ \A j \in 1 .. i : rest[j] = u[j]
  <2>1. k \in 1 .. Len(u)
    BY <1>1, <1>2
  <2> HIDE DEF k
  <2>2. /\ RemoveAt(u, k) \in Seq(MarkerType)
        /\ Len(RemoveAt(u, k)) = Len(u) - 1
        /\ \A j \in 1 .. Len(u) - 1 :
             RemoveAt(u, k)[j] = IF j < k THEN u[j] ELSE u[j + 1]
    BY <1>2, <2>1, RemoveAtProperties
  <2>3. \A j \in 1 .. i : j \in 1 .. Len(u) - 1 /\ j < k
    BY <1>1, <1>2 DEF k
  <2> QED
    BY <1>2, <2>2, <2>3
<1> HIDE DEF rest, n
<1>5. n \notin 1 .. i /\ DOMAIN rest = 1 .. n /\ \A j \in 1 .. i : j \in 1 .. n
  BY <1>1, <1>4 DEF n
<1>6. \A j \in 1 .. i : Removed[j] = rest[j]
  BY <1>3, <1>4, <1>5
<1>7. \A j \in 1 .. cut.w : Removed[j] = markers[j]
  BY <1>2, <1>4, <1>6 DEF i
<1>8. Removed \in Seq(MarkerType) /\ Len(Removed) = Len(markers) - 1
  <2>1. cut.w \in 0 .. Len(markers) - 1 /\ 3 <= Len(markers) /\ cut.w <= Len(markers) - 2
    BY <1>1 DEF i
  <2> QED
    BY <2>1, RemovedIsTyped
<1> QED
  BY <1>7, <1>8

LEMMA AdjustWork ==
  ASSUME CInv, Several, ~asked.keep, asked.rec \subseteq Ids, Adjust, pc' = "next",
         NEW l, NEW b \in Nat, NEW p \in Nat, NEW d \in Nat, AtWork(l, b, p, d)
  PROVE  \E c \in Nat : AtWork(l, c, p, d)'
<1>1. /\ pc = "adjust" /\ pc \in Working /\ pc \in Chosen /\ UNCHANGED <<rec, total, cut>>
      /\ AdjustMarkers /\ asked' = asked
  BY DEF Adjust, Working, Chosen, files
<1>2. /\ Nr \in Nat /\ cut.w = Current /\ cut.w \in 0 .. Nr - 2 /\ cut \in CutType
      /\ ~job.keep /\ ~job.split /\ ~cut.special /\ Nr = Len(markers)
      /\ markers \in Seq(MarkerType)
      /\ \A k \in 0 .. Nr - 1 : Block(k) \in Int /\ Block(k) = Edge(markers, k)
  BY <1>1, DeletingJob
<1>3. /\ markers' \in Seq(MarkerType)
      /\ job.multi /\ cut.w = job.i /\ job'.i = job.i - 1 /\ job'.multi
      /\ job'.i \in 0 .. Len(markers') - 2
      /\ 3 <= Len(markers) /\ Len(markers') = Len(markers) - 1
  BY <1>1, LoopGoesOn DEF Several
<1>4. Original(l) /\ Meant(l) /\ cut.ok /\ Cleared(l, p, d)
  BY <1>1 DEF AtWork, Points
<1>0. PICK i \in Nat : i = cut.w
  BY <1>2
<1> DEFINE ms == Shifted(Removed, cut.start, cut.behind)
           n == Len(markers) - 1
<1>5. i \in 1 .. n - 1 /\ n \in Nat /\ i \in Nat /\ Len(l) \in Nat /\ i <= Len(l) - 2
  <2>1. i \in 1 .. n - 1 /\ n \in Nat
    BY <1>0, <1>2, <1>3
  <2>2. Len(l) \in Nat /\ i <= Len(l) - 2
    BY <1>0, <1>4 DEF Original, Cleared
  <2> QED
    BY <2>1, <2>2
<1>6. markers' = LastCorrected(ms)
  BY <1>1, <1>2 DEF AdjustMarkers
<1>7. /\ Removed \in Seq(MarkerType) /\ Len(Removed) = n /\ DOMAIN Removed = 1 .. n
      /\ \A j \in 1 .. i : Removed[j] = markers[j]
  <2>1. cut.w \in 1 .. Len(markers) - 2
    BY <1>0, <1>2, <1>5
  <2> QED
    BY <1>0, <1>2, <2>1, RemovedInFront
<1>8. cut.start \in Int /\ cut.behind \in Int
  BY <1>2 DEF CutType
<1>9. ms \in Seq(MarkerType) /\ Len(ms) = n
  BY <1>7, <1>8, ShiftedIsTyped
<1>10. \A k \in 1 .. i - 1 : Edge(l, k) + Radius < cut.behind
  BY <1>0, <1>4 DEF Cleared
<1>11. \A k \in 0 .. i - 1 : markers[k + 1].block = l[k + 1].block
                             /\ markers[k + 1].sel = l[k + 1].sel
  BY <1>0, <1>4 DEF Cleared, Ahead, Edge
<1> HIDE DEF n
<1>12. ASSUME NEW j \in 1 .. i PROVE ms[j] = markers[j]
  <2>1. j \in 1 .. n /\ j \in Int /\ j # i + 1 /\ j \in DOMAIN Removed
    BY <1>5, <1>7
  <2>2. ASSUME j > 1 PROVE ~(Removed[j].block + Radius >= cut.behind)
    <3>1. j - 1 \in 1 .. i - 1 /\ j - 1 \in 0 .. i - 1 /\ (j - 1) + 1 = j
      BY <1>5, <2>1, <2>2
    <3>2. Removed[j].block = l[j].block
      BY <1>7, <1>11, <3>1
    <3>3. l[j].block + Radius < cut.behind
      BY <1>10, <3>1 DEF Edge
    <3>4. Removed[j].block \in Int
      <4>1. Removed[j] \in MarkerType
        BY <1>7, <2>1
      <4> QED
        BY <4>1 DEF MarkerType
    <3> QED
      BY <1>8, <3>2, <3>3, <3>4, IdsAreFinite
  <2>3. ms[j] = Removed[j]
    <3>1. ~(j - 1 = cut.w)
      BY <1>0, <1>5, <2>1
    <3> QED
      BY <2>1, <2>2, <3>1 DEF Shifted
  <2> QED
    BY <1>7, <2>3
<1>13. ms[i + 1].block = cut.start
  <2>1. i + 1 \in DOMAIN Removed /\ i + 1 > 1 /\ (i + 1) - 1 = i
    BY <1>5, <1>7
  <2>2. ms[i + 1] = [Removed[i + 1] EXCEPT !.block = cut.start]
    BY <1>0, <2>1 DEF Shifted
  <2>3. Removed[i + 1] \in MarkerType
    BY <1>7, <2>1
  <2> QED
    BY <2>2, <2>3 DEF MarkerType
<1> HIDE DEF ms
<1>14. \A j \in 1 .. i : markers'[j] = markers[j]
  <2> TAKE j \in 1 .. i
  <2>1. j # n
    BY <1>5
  <2>2. markers'[j] = ms[j]
    BY <1>6, <1>9, <2>1 DEF LastCorrected
  <2> QED
    BY <1>12, <2>2
<1>15. i # n - 1 => markers'[i + 1].block = cut.start
  <2> SUFFICES ASSUME i # n - 1 PROVE markers'[i + 1].block = cut.start
    OBVIOUS
  <2>1. markers' = ms
    BY <1>0, <1>2, <1>6, <1>9 DEF LastCorrected
  <2> QED
    BY <1>13, <2>1
<1>16. Nr' = n /\ Nr' - 2 = n - 2 /\ Nr - 2 = n - 1 /\ Current' = i - 1
  BY <1>0, <1>2, <1>3, <1>5 DEF Nr, n, Current
<1>17. Ready(l, i, p, d)'
  <2>1. (Current < i)' /\ (i <= Nr - 1)' /\ (i <= Len(l) - 1)'
    BY <1>0, <1>1, <1>5, <1>16
  <2>2. Ahead(markers, l, i - 1)'
    <3>1. \A k \in 0 .. i - 1 : k + 1 \in 1 .. i
      BY <1>5
    <3>2. \A k \in 0 .. i - 1 : markers'[k + 1] = markers[k + 1]
      BY <1>14, <3>1
    <3> QED
      BY <1>11, <3>2 DEF Ahead, Edge
  <2>3. Seam(asked.rec, asked.segs, l, rec, i, p, d)'
    BY <1>0, <1>1, <1>4 DEF Cleared
  <2>4. (IF i = Nr - 1 THEN Size(rec) <= p ELSE Block(i) + Radius <= p + Reach)'
    <3>1. IF i = Nr - 2 THEN Size(rec) <= p ELSE cut.start + Radius <= p + Reach
      BY <1>0, <1>4 DEF Cleared
    <3>2. Nr' - 1 = Nr - 2 /\ Nr - 2 = n - 1 /\ Size(rec)' = Size(rec)
      BY <1>1, <1>5, <1>16 DEF Size
    <3>3. Block(i)' = markers'[i + 1].block
      BY DEF Block, At
    <3> QED
      BY <1>15, <3>1, <3>2, <3>3
  <2> QED
    BY <2>1, <2>2, <2>3, <2>4 DEF Ready
<1>18. Meant(l)'
  <2>1. asked'.rec = asked.rec /\ asked'.segs = asked.segs
    BY <1>1
  <2>2. job.i = Nr - 2 => job'.i = Nr' - 2
    BY <1>0, <1>3, <1>5, <1>16
  <2> QED
    BY <1>3, <1>4, <2>1, <2>2 DEF Meant
<1>19. Original(l)'
  BY <1>1, <1>4, SameQuestion
<1>20. Points'
  BY <1>1 DEF Points
<1>21. AtWork(l, i, p, d)'
  BY <1>17, <1>18, <1>19, <1>20 DEF AtWork
<1> QED
  BY <1>5, <1>21

\* What the selection means when segments are deleted.
LEMMA MeantAtTheStart ==
  ASSUME CInv, SaveOrDelete
  PROVE  /\ UNCHANGED <<rec, temp, cuts, markers>> /\ pc = "edit" /\ pc' = "next"
         /\ Len(markers) \in Nat /\ markers \in Seq(MarkerType) /\ 3 <= Len(markers)
         /\ asked'.rec = rec /\ asked'.files = Present
         /\ asked'.drift = Cardinality(asked'.segs) * Radius
                           * (IF "positions" \in Faults THEN 2 ELSE 1)
         /\ Current' \in 0 .. Nr - 2
         /\ \A l : l = markers => Meant(l)'
<1> DEFINE sel == {i \in Segments : At(i).sel}
           ch(a) == IF sel = {} THEN {a} ELSE IF sel = Segments THEN sel \ {0} ELSE sel
<1>1. PICK keep \in BOOLEAN, active \in Segments :
        /\ Process(keep, FALSE, markers, active)
        /\ Asked({SegmentIds(i) : i \in ch(active)}, keep, FALSE)
  BY DEF SaveOrDelete
<1> DEFINE chosen == ch(active)
<1>2. pc = "edit" /\ Nr > 2 /\ markers \in Seq(MarkerType)
  BY DEF SaveOrDelete, CInv, List
<1>3. Len(markers) \in Nat /\ 3 <= Len(markers) /\ Nr = Len(markers) /\ Nr \in Nat
  BY <1>2 DEF Nr
<1>4. /\ markers' = markers /\ pc' = "next" /\ UNCHANGED <<rec, temp, cuts>>
      /\ job'.multi = (sel # {}) /\ job'.i = Nr - 2 /\ job'.active = active
      /\ asked'.segs = {SegmentIds(i) : i \in chosen} /\ asked'.rec = rec
      /\ asked'.files = Present
      /\ asked'.drift = Cardinality(asked'.segs) * Radius
                        * (IF "positions" \in Faults THEN 2 ELSE 1)
  <2>1. {i \in 0 .. Len(markers) - 2 : markers[i + 1].sel} = sel
    BY DEF Segments, Nr, At
  <2>2. asked'.segs = {SegmentIds(i) : i \in chosen} /\ asked'.rec = rec
        /\ asked'.files = Present
        /\ asked'.drift = Cardinality(asked'.segs) * Radius
                          * (IF "positions" \in Faults THEN 2 ELSE 1)
    BY <1>1 DEF Asked
  <2> HIDE DEF sel
  <2>3. /\ markers' = markers /\ pc' = "next" /\ UNCHANGED <<rec, temp, cuts>>
        /\ job'.multi = (sel # {}) /\ job'.i = Nr - 2 /\ job'.active = active
    BY <1>1, <1>3, <2>1 DEF Process, files
  <2> QED
    BY <2>2, <2>3
<1>5. Current' \in 0 .. Nr - 2
  <2>1. active \in 0 .. Nr - 2 /\ Nr - 2 \in 0 .. Nr - 2
    BY <1>3 DEF Segments
  <2> QED
    BY <1>4, <2>1 DEF Current
<1>6. \A k \in 0 .. Nr - 2 : k \in chosen => Wanted(rec, asked'.segs, markers, k)
  <2> SUFFICES ASSUME NEW k \in 0 .. Nr - 2, k \in chosen
               PROVE  Part(rec, markers[k + 1].block, markers[(k + 1) + 1].block) \in asked'.segs
    BY DEF Wanted, Edge
  <2>1. SegmentIds(k) = Part(rec, markers[k + 1].block, markers[(k + 1) + 1].block)
    BY DEF SegmentIds, Block, At
  <2> HIDE DEF chosen
  <2> QED
    BY <1>4, <2>1
<1>7. \A k \in 0 .. Nr - 2 : k \in sel <=> markers[k + 1].sel
  BY DEF Segments, At
<1>8. ASSUME NEW l, l = markers PROVE Meant(l)'
  <2>0. /\ asked'.rec = rec /\ Nr' = Len(l) /\ Nr = Len(l)
        /\ \A k \in 0 .. Len(l) - 2 : k \in sel <=> l[k + 1].sel
        /\ \A k \in 0 .. Len(l) - 2 : k \in chosen => Wanted(rec, asked'.segs, l, k)
    <3>1. asked'.rec = rec /\ Nr' = Len(l) /\ Nr = Len(l)
      BY <1>3, <1>4, <1>8 DEF Nr
    <3> HIDE DEF sel, chosen
    <3> QED
      BY <1>6, <1>7, <1>8, <3>1
  <2>1. CASE sel = {}
    <3>1. active \in chosen /\ active \in 0 .. Len(l) - 2
      BY <2>0, <2>1 DEF Segments
    <3>2. Wanted(rec, asked'.segs, l, active)
      BY <2>0, <3>1
    <3> HIDE DEF sel, chosen
    <3> QED
      BY <1>4, <2>1, <3>2 DEF Meant
  <2>2. CASE sel # {} /\ sel # Segments
    <3>1. chosen = sel
      BY <2>2
    <3> HIDE DEF sel, chosen
    <3>2. \A k \in 0 .. Len(l) - 2 : l[k + 1].sel => Wanted(rec, asked'.segs, l, k)
      BY <2>0, <3>1
    <3> QED
      BY <1>4, <2>2, <3>2 DEF Meant
  <2>3. CASE sel # {} /\ sel = Segments
    <3>1. chosen = Segments \ {0} /\ Segments = 0 .. Len(l) - 2
      BY <2>0, <2>3 DEF Segments
    <3> HIDE DEF sel, chosen
    <3>2. \A k \in 0 .. Len(l) - 2 :
            l[k + 1].sel /\ (k # 0 => Wanted(rec, asked'.segs, l, k))
      BY <2>0, <2>3, <3>1
    <3>3. job'.i = Nr' - 2
      BY <1>4, <2>0
    <3> QED
      BY <1>4, <2>3, <3>2, <3>3 DEF Meant
  <2> QED
    BY <2>1, <2>2, <2>3
<1> HIDE DEF sel, chosen
<1> QED
  BY <1>2, <1>3, <1>4, <1>5, <1>8

LEMMA DeletingStarts ==
  ASSUME CInv, Temporary, Fresh, Spaced, SaveOrDelete \/ Split
  PROVE  Deleting'
<1> SUFFICES ASSUME ~asked'.keep
             PROVE  temp' = {} /\ Question' /\ Elsewhere' /\ DriftBudget'
  BY DEF Deleting
<1>1. SaveOrDelete
  <2>1. ASSUME Split PROVE FALSE
    <3>1. PICK b \in 1 .. total - 1 : Asked({Part(rec, b, total)}, TRUE, TRUE)
      BY <2>1 DEF Split
    <3> QED
      BY <3>1 DEF Asked
  <2> QED
    BY <2>1
<1>2. /\ UNCHANGED <<rec, temp, cuts, markers>> /\ pc = "edit" /\ pc' = "next"
      /\ Len(markers) \in Nat /\ markers \in Seq(MarkerType) /\ 3 <= Len(markers)
      /\ asked'.rec = rec /\ asked'.files = Present
      /\ asked'.drift = Cardinality(asked'.segs) * Radius
                        * (IF "positions" \in Faults THEN 2 ELSE 1)
      /\ Current' \in 0 .. Nr - 2
      /\ \A l : l = markers => Meant(l)'
  BY <1>1, MeantAtTheStart
<1>3. /\ IsFiniteSet(asked'.segs) /\ Rest' <= Cardinality(asked'.segs)
      /\ Rest' \in Int /\ Cardinality(asked'.segs) \in Nat
  BY <1>1, SaveStarts
<1>4. rec \subseteq Ids /\ Size(rec) \in Nat /\ Size(rec)' = Size(rec)
  <2>1. rec \subseteq Ids
    BY DEF CInv, Files
  <2>2. Size(rec) \in 0 .. NrBlocks
    BY <2>1, FilesAreFinite
  <2> QED
    BY <1>2, <2>1, <2>2 DEF Size
<1>5. temp' = {}
  BY <1>2 DEF Temporary, Ended
<1>6. Question'
  <2> DEFINE n == Cardinality(asked'.segs)
  <2>1. n * Radius * (IF "positions" \in Faults THEN 2 ELSE 1) = n * Reach
    <3>1. n \in Int /\ Radius \in Int
      BY <1>3, IdsAreFinite
    <3> HIDE DEF n
    <3>2. n * Radius * 2 = n * (Radius * 2) /\ n * Radius * 1 = n * (Radius * 1)
      BY <3>1
    <3> QED
      BY <3>2 DEF Reach
  <2> QED
    BY <1>2, <1>3, <1>4, <2>1 DEF Question
<1>7. Elsewhere'
  BY <1>2, <1>5 DEF Elsewhere, Present
<1>8. PICK l : l = markers
  OBVIOUS
<1>9. PICK b \in Nat : b = Nr - 1
  BY <1>2 DEF Nr
<1>10. PICK p \in Nat : p = Size(rec)
  BY <1>4
<1>11. /\ InOrder(l, p) /\ Roomy(l) /\ l \in Seq(MarkerType) /\ Nr = Len(l) /\ Nr' = Len(l)
       /\ 3 <= Len(l) /\ Len(l) \in Nat
  BY <1>2, <1>8, <1>10 DEF Fresh, Spaced, Nr
<1>12. Original(l)'
  BY <1>2, <1>10, <1>11 DEF Original, InOrder, Roomy, Size
<1>13. Ready(l, b, p, 0)'
  <2>1. (Current < b)' /\ (b <= Nr - 1)' /\ (b <= Len(l) - 1)' /\ (b = Nr - 1)'
    BY <1>2, <1>9, <1>11
  <2>2. Ahead(markers, l, b - 1)'
    BY <1>2, <1>8 DEF Ahead, Edge
  <2>3. Edge(l, b) = p
    BY <1>9, <1>11 DEF InOrder, Edge
  <2>4. Seam(rec, asked'.segs, l, rec, b, p, 0)
    BY <1>4, <1>10, <2>3, SeamAtTheStart
  <2>5. Seam(asked.rec, asked.segs, l, rec, b, p, 0)'
    BY <1>2, <2>4
  <2>6. (Size(rec) <= p)'
    BY <1>4, <1>10
  <2> QED
    BY <2>1, <2>2, <2>5, <2>6 DEF Ready
<1>14. AtWork(l, b, p, 0)'
  BY <1>2, <1>8, <1>12, <1>13 DEF AtWork, Points
<1>15. Gone(0)'
  BY <1>2 DEF Gone
<1>16. DriftBudget'
  <2>1. 0 * Reach = 0
    BY IdsAreFinite DEF Reach
  <2>2. 0 + Open' <= Cardinality(asked'.segs)
    BY <1>2, <1>3 DEF Open
  <2>3. Gone(0 * Reach)' /\ AtWork(l, b, p, 0 * Reach)'
    BY <1>14, <1>15, <2>1
  <2> QED
    BY <2>2, <2>3 DEF DriftBudget
<1> QED
  BY <1>5, <1>6, <1>7, <1>16

\* The question stays while its job runs.
LEMMA QuestionStays ==
  ASSUME CInv, Next \/ UNCHANGED vars, ~SaveOrDelete, ~Split
  PROVE  /\ asked'.segs = asked.segs /\ asked'.rec = asked.rec /\ asked'.files = asked.files
         /\ asked'.keep = asked.keep /\ asked'.drift = asked.drift
<1>1. asked'.drift = asked.drift
  BY DEF CInv, Records, Next, Step, Skip, Choose, Patch, Cut, CutFails, Truncate,
         TruncateFails, Tidy, Swap, SwapBack, Restart, Adjust, Save, SwitchOff, Load, vars
<1> QED
  BY <1>1, AskedStays

\* Deleting uses no temporary file.
LEMMA NoTemporaryFile ==
  ASSUME CInv, ~asked.keep, temp = {}, Next \/ UNCHANGED vars, ~SaveOrDelete, ~Split
  PROVE  /\ temp' = {} /\ ~SwapBack
         /\ ~Cut /\ ~Truncate => rec' = rec
<1>1. ~SwapBack
  BY DEF SwapBack, CInv, Work, Chosen, Working
<1>2. CASE Choose
  BY <1>1, <1>2, ChosenForDeleting
<1>3. CASE Cut
  <2>1. ~cut.special
    BY <1>3, DeletingJob DEF Cut, Working, Chosen
  <2>2. temp' = temp
    BY <1>3, <2>1, CutRange
  <2> QED
    BY <1>1, <1>3, <2>2
<1>4. CASE Truncate
  BY <1>1, <1>4 DEF Truncate
<1>5. CASE Swap
  <2>1. ~cut.special
    BY <1>5, DeletingJob DEF Swap, Working, Chosen
  <2> QED
    BY <1>1, <1>5, <2>1 DEF Swap
<1>6. CASE \/ Skip \/ Patch \/ CutFails \/ TruncateFails \/ Tidy \/ Restart \/ Adjust \/ Save
           \/ SwitchOff \/ Load \/ UNCHANGED vars
  BY <1>1, <1>6 DEF Skip, Patch, CutFails, TruncateFails, Tidy, Restart, Adjust, Save,
     SwitchOff, Load, vars, disk, files
<1> QED
  BY <1>1, <1>2, <1>3, <1>4, <1>5, <1>6 DEF Next, Step

\* A job that deletes touches only its own cut file.
LEMMA ElsewhereKept ==
  ASSUME CInv, ~asked.keep, Elsewhere, Next \/ UNCHANGED vars, ~SaveOrDelete, ~Split
  PROVE  Elsewhere'
<1>0. asked'.rec = asked.rec /\ asked'.files = asked.files
  BY QuestionStays
<1> SUFFICES ASSUME NEW x \in asked.files, x \notin asked.rec
             PROVE  \E n \in Names : /\ x \in cuts'[n]
                                     /\ pc' \in {"truncate", "tidy"} => n # cut'.name
  BY <1>0 DEF Elsewhere
<1>1. PICK n \in Names : /\ x \in cuts[n]
                         /\ pc \in {"truncate", "tidy"} => n # cut.name
  BY DEF Elsewhere
<1>2. cuts \in [Names -> SUBSET Nat]
  BY DEF CInv, Files
<1>3. CASE Choose
  <2>1. cuts' = cuts /\ cut'.name = CutName(job.left - 1) /\ CutName(job.left - 1) # 0
    BY <1>3 DEF Choose
  <2>2. cuts[cut'.name] = {}
    BY <2>1, CutNameIsFree DEF CInv, Files
  <2> QED
    BY <1>1, <2>1, <2>2
<1>4. CASE Cut
  <2>1. ~cut.special /\ cuts[cut.name] = {} /\ cut.name \in Names
    BY <1>4, DeletingJob DEF Cut, Working, Chosen, CInv, Work, FreeCuts
  <2>2. PICK part : cuts' = [cuts EXCEPT ![cut.name] = part]
    BY <1>4, <2>1, CutRange
  <2>3. cut'.name = cut.name
    BY <1>4, CutRange
  <2>4. n # cut.name
    BY <1>1, <2>1
  <2> QED
    BY <1>1, <1>2, <2>2, <2>3, <2>4
<1>5. CASE Truncate
  <2>1. cuts' = cuts /\ cut'.name = cut.name /\ pc = "truncate"
    BY <1>5 DEF Truncate, CInv, Records, CutType
  <2> QED
    BY <1>1, <2>1
<1>6. CASE Tidy
  <2>1. pc = "tidy" /\ pc' = "swap" /\ cuts' \in {cuts, [cuts EXCEPT ![cut.name] = {}]}
    BY <1>6 DEF Tidy
  <2> QED
    BY <1>1, <1>2, <2>1
<1>7. CASE Swap
  <2>1. ~cut.special
    BY <1>7, DeletingJob DEF Swap, Working, Chosen
  <2>2. cuts' = cuts /\ pc' = "restart"
    BY <1>7, <2>1 DEF Swap
  <2> QED
    BY <1>1, <2>2
<1>8. CASE TruncateFails
  <2>1. ~job.keep
    BY <1>8, DeletingJob DEF TruncateFails, Working
  <2>2. cuts' = cuts /\ pc' = "swap"
    BY <1>8, <2>1 DEF TruncateFails, disk, files
  <2> QED
    BY <1>1, <2>2
<1>9. CASE \/ Skip \/ Patch \/ CutFails \/ SwapBack \/ Restart \/ Adjust \/ Save
           \/ SwitchOff \/ Load
  <2>1. cuts' = cuts /\ pc' \notin {"truncate", "tidy"}
    BY <1>9 DEF Skip, Patch, CutFails, SwapBack, Restart, Adjust, Save, SwitchOff, Load,
       disk, files
  <2> QED
    BY <1>1, <2>1
<1>10. CASE UNCHANGED vars
  BY <1>1, <1>10 DEF vars, disk, files
<1> QED
  BY <1>3, <1>4, <1>5, <1>6, <1>7, <1>8, <1>9, <1>10 DEF Next, Step

\* The steps between two cuts.
LEMMA WorkGoesOnDeleting ==
  ASSUME CInv, Several, ~asked.keep, asked.rec \subseteq Ids, temp = {},
         Next \/ UNCHANGED vars, ~SaveOrDelete, ~Split, ~Cut, ~Truncate, pc' \in Working,
         NEW l, NEW b \in Nat, NEW p \in Nat, NEW d \in Nat, AtWork(l, b, p, d)
  PROVE  \E c \in Nat : AtWork(l, c, p, d)'
<1>1. asked'.rec = asked.rec /\ asked'.segs = asked.segs
  BY QuestionStays
<1>2. CASE Skip
  <2>1. pc' = "next"
    BY <1>2 DEF Skip, Working
  <2> QED
    BY <1>2, <2>1, SkipWork
<1>3. CASE Choose
  BY <1>3, ChooseWork
<1>4. CASE Adjust
  <2>1. pc' = "next"
    BY <1>4 DEF Adjust, Working
  <2> QED
    BY <1>4, <2>1, AdjustWork
<1>5. CASE Patch \/ CutFails \/ TruncateFails \/ Tidy \/ Swap \/ Restart
  <2>1. UNCHANGED <<rec, markers, job, cut>>
    <3>1. rec' = rec
      BY NoTemporaryFile
    <3> QED
      BY <1>5, <3>1 DEF Patch, CutFails, TruncateFails, Tidy, Swap, Restart
  <2>2. Points
    BY DEF AtWork
  <2>3. pc \in Working
    BY <1>5 DEF Patch, CutFails, TruncateFails, Tidy, Swap, Restart, Working
  <2>4. ~job.keep
    BY <2>3, DeletingJob
  <2>5. /\ pc' \in Working \ {"next"}
        /\ pc' = "cut" => pc = "cut"
        /\ pc' = "truncate" => pc = "truncate"
        /\ pc' \in {"tidy", "adjust"} => cut.ok
        /\ pc' \in {"tidy", "swap", "swapback", "restart", "adjust"} /\ cut.ok
             => pc \in {"tidy", "swap", "swapback", "restart", "adjust"}
    BY <1>5, <2>2, <2>4 DEF Patch, CutFails, TruncateFails, Tidy, Swap, Restart, Working, Points
  <2>6. AtWork(l, b, p, d)'
    BY <1>1, <2>1, <2>3, <2>5, WorkMovesOn
  <2> QED
    BY <2>6
<1>6. CASE UNCHANGED vars
  <2>1. UNCHANGED <<rec, markers, job, cut, pc>>
    BY <1>6 DEF vars, disk, files
  <2>2. Original(l)' /\ Meant(l)'
    BY <1>1, <2>1, SameQuestion DEF AtWork
  <2>3. Points' /\ Ready(l, b, p, d)' = Ready(l, b, p, d)
        /\ Cleared(l, p, d)' = Cleared(l, p, d)
    BY <1>1, <2>1 DEF AtWork, Points, Ready, Cleared, Current, Nr, Block, At
  <2>4. Wanted(asked.rec, asked.segs, l, cut.w)' = Wanted(asked.rec, asked.segs, l, cut.w)
    BY <1>1, <2>1
  <2>5. AtWork(l, b, p, d)'
    BY <2>1, <2>2, <2>3, <2>4 DEF AtWork
  <2> QED
    BY <2>5
<1> QED
  BY <1>2, <1>3, <1>4, <1>5, <1>6, NoTemporaryFile
  DEF Next, Step, Save, SwitchOff, Load, Working

LEMMA DriftBudgetKept ==
  ASSUME CInv, Several, ~asked.keep, Question, temp = {}, DriftBudget,
         Next \/ UNCHANGED vars, ~SaveOrDelete, ~Split
  PROVE  DriftBudget'
<1>1. asked'.rec = asked.rec /\ asked'.segs = asked.segs
  BY QuestionStays
<1>2. PICK t \in Nat : /\ t + Open <= Cardinality(asked.segs)
                       /\ Gone(t * Reach)
                       /\ pc \in Working => \E l : \E b, p \in Nat : AtWork(l, b, p, t * Reach)
  BY DEF DriftBudget
<1> DEFINE n == Cardinality(asked.segs)
<1>3. n \in Nat /\ Reach \in Nat /\ asked.rec \subseteq Ids
  BY FS_CardinalityType, IdsAreFinite DEF Question, Reach
<1>4. t * Reach \in Nat /\ (t + 1) * Reach = t * Reach + Reach /\ t + 1 \in Nat
  BY <1>3
<1>5. Open \in Nat /\ Open' \in Nat /\ Open' <= Open
  BY OpenShrinks
<1>6. t + Open' <= Cardinality(asked'.segs)
  <2>1. t + Open' <= n
    <3> DEFINE o == Open
               u == Open'
    <3>1. t + o <= n /\ o \in Nat /\ u \in Nat /\ u <= o /\ n \in Nat
      BY <1>2, <1>3, <1>5
    <3> HIDE DEF n, o, u
    <3>2. t + u <= n
      BY <3>1
    <3> QED
      BY <3>2 DEF u
  <2> QED
    BY <1>1, <2>1
<1>7. CASE Cut
  <2>1. pc = "cut" /\ pc \in Working
    BY <1>7 DEF Cut, Working
  <2>2. PICK l : \E b, p \in Nat : AtWork(l, b, p, t * Reach)
    BY <1>2, <2>1
  <2>3. PICK b \in Nat, p \in Nat : AtWork(l, b, p, t * Reach)
    BY <2>2
  <2>4. (\E q \in Nat : AtWork(l, b, q, t * Reach + Reach)') /\ Gone(t * Reach + Reach)'
    BY <1>3, <1>4, <1>7, <2>3, CutWork
  <2>5. PICK q \in Nat : AtWork(l, b, q, t * Reach + Reach)'
    BY <2>4
  <2>6. Open' = Open - 1
    <3>1. ~cut.trunc
      BY <2>1, <2>3 DEF AtWork, Points
    <3>2. pc' = "tidy" /\ Rest' = Rest
      BY <1>7, <3>1 DEF Cut, Rest, Nr
    <3> QED
      BY <2>1, <3>2 DEF Open, Working
  <2>7. (t + 1) + Open' <= Cardinality(asked'.segs)
    <3>1. t + Open <= n
      BY <1>2
    <3> HIDE DEF n
    <3>2. (t + 1) + Open' <= n
      BY <1>3, <1>5, <2>6, <3>1
    <3> QED
      BY <1>1, <3>2 DEF n
  <2>8. AtWork(l, b, q, (t + 1) * Reach)' /\ Gone((t + 1) * Reach)'
    <3>1. AtWork(l, b, q, t * Reach + Reach)' /\ Gone(t * Reach + Reach)'
      BY <2>4, <2>5
    <3> QED
      BY <1>4, <3>1
  <2> QED
    BY <1>4, <2>7, <2>8 DEF DriftBudget
<1>8. CASE Truncate
  <2>1. pc \in Working
    BY <1>8 DEF Truncate, Working
  <2>2. PICK l : \E b, p \in Nat : AtWork(l, b, p, t * Reach)
    BY <1>2, <2>1
  <2>3. PICK b \in Nat, p \in Nat : AtWork(l, b, p, t * Reach)
    BY <2>2
  <2>4. (\E q \in Nat : AtWork(l, b, q, t * Reach)') /\ Gone(t * Reach)'
    BY <1>3, <1>4, <1>8, <2>3, TruncateWork
  <2>5. PICK q \in Nat : AtWork(l, b, q, t * Reach)'
    BY <2>4
  <2> QED
    BY <1>6, <2>4, <2>5 DEF DriftBudget
<1>9. CASE ~Cut /\ ~Truncate
  <2>1. Gone(t * Reach)'
    <3>1. rec' = rec
      BY <1>9, NoTemporaryFile
    <3> QED
      BY <1>1, <1>2, <3>1, SameQuestion
  <2>2. CASE pc' \notin Working
    BY <1>6, <2>1, <2>2 DEF DriftBudget
  <2>3. CASE pc' \in Working
    <3>1. pc \in Working
      BY <2>3 DEF Next, Step, Skip, Choose, Patch, Cut, CutFails, Truncate, TruncateFails, Tidy,
         Swap, SwapBack, Restart, Adjust, Save, SwitchOff, Load, Working, vars
    <3>2. PICK l : \E b, p \in Nat : AtWork(l, b, p, t * Reach)
      BY <1>2, <3>1
    <3>3. PICK b \in Nat, p \in Nat : AtWork(l, b, p, t * Reach)
      BY <3>2
    <3>4. PICK c \in Nat : AtWork(l, c, p, t * Reach)'
      BY <1>3, <1>4, <1>9, <2>3, <3>3, WorkGoesOnDeleting
    <3> QED
      BY <1>6, <2>1, <3>4, SMTT(30) DEF DriftBudget
  <2> QED
    BY <2>2, <2>3
<1> QED
  BY <1>7, <1>8, <1>9

LEMMA DeletingKept ==
  ASSUME CInv, Temporary, Fresh, Several, Spaced, Deleting, Next \/ UNCHANGED vars
  PROVE  Deleting'
<1>1. CASE SaveOrDelete \/ Split
  BY <1>1, DeletingStarts
<1>2. CASE ~SaveOrDelete /\ ~Split
  <2>1. /\ asked'.segs = asked.segs /\ asked'.rec = asked.rec /\ asked'.keep = asked.keep
        /\ asked'.drift = asked.drift
    BY <1>2, QuestionStays
  <2> SUFFICES ASSUME ~asked.keep
               PROVE  temp' = {} /\ Question' /\ Elsewhere' /\ DriftBudget'
    BY <2>1 DEF Deleting
  <2>2. temp = {} /\ Question /\ Elsewhere /\ DriftBudget
    BY DEF Deleting
  <2>3. temp' = {}
    BY <1>2, <2>2, NoTemporaryFile
  <2>4. Question'
    BY <2>1, <2>2 DEF Question
  <2>5. Elsewhere'
    BY <1>2, <2>2, ElsewhereKept
  <2>6. DriftBudget'
    BY <1>2, <2>2, DriftBudgetKept
  <2> QED
    BY <2>3, <2>4, <2>5, <2>6
<1> QED
  BY <1>1, <1>2

LEMMA InitDeleting ==
  ASSUME ListsSpaced, Init
  PROVE  Spaced /\ Deleting
<1>1. Size(Ids) = NrBlocks /\ NrBlocks # 0 /\ Ids \subseteq Ids
  BY IdsAreFinite, CutConstants DEF Size
<1>2. PICK l \in MarkerLists(Size(Ids)) :
        markers = [k \in DOMAIN l |-> Marker(l[k].block, Ids, l[k].sel)]
  BY <1>1 DEF Init
<1>3. Roomy(markers)
  BY <1>1, <1>2, LoadedRoomy
<1>4. asked.keep
  BY DEF Init
<1> QED
  BY <1>3, <1>4 DEF Spaced, Deleting

LEMMA DeletingImplies ==
  ASSUME CInv, Several, Deleting, ~asked.keep
  PROVE  NothingLost
<1>1. temp = {} /\ Question /\ Elsewhere /\ DriftBudget
  BY DEF Deleting
<1>2. PICK t \in Nat : t + Open <= Cardinality(asked.segs) /\ Gone(t * Reach)
  BY <1>1 DEF DriftBudget
<1> DEFINE n == Cardinality(asked.segs)
<1>3. n \in Nat /\ Reach \in Nat /\ asked.rec \subseteq Ids /\ asked.drift = n * Reach
  BY <1>1, FS_CardinalityType, IdsAreFinite DEF Question, Reach
<1>4. Open \in Nat
  <2>1. pc \in {"edit"} \cup Working \cup Ended /\ job \in JobType
        /\ (pc \in Working => markers \in Seq(MarkerType) /\ 2 <= Len(markers))
    BY DEF CInv, Runs, Records, List
  <2>2. pc \in Working => Rest \in Nat /\ 1 <= Rest
    BY <2>1 DEF Several, Rest, Nr, JobType
  <2> QED
    BY <2>1, <2>2 DEF Open, Working
<1>5. t * Reach \in Int /\ asked.drift \in Int /\ t * Reach <= asked.drift
  <2>1. t + Open <= n
    BY <1>2
  <2> HIDE DEF n
  <2>2. t <= n
    BY <1>3, <1>4, <2>1
  <2>3. t * Reach <= n * Reach /\ t * Reach \in Int /\ n * Reach \in Int
    BY <1>3, <2>2
  <2> QED
    BY <1>3, <2>3
<1>6. ASSUME NEW x \in Lost PROVE x \in Near(UNION asked.segs, asked.drift)
  <2>1. x \in asked.files /\ x \notin Present
    BY <1>6 DEF Lost
  <2>2. x \notin rec /\ \A k \in Names : x \notin cuts[k]
    BY <2>1, PresentBlocks
  <2>3. x \in asked.rec
    BY <1>1, <2>1, <2>2 DEF Elsewhere
  <2>4. Beside(asked.rec, asked.segs, x, t * Reach)
    BY <1>2, <2>2, <2>3 DEF Gone
  <2>5. Beside(asked.rec, asked.segs, x, asked.drift)
    BY <1>3, <1>5, <2>3, <2>4, BesideFurther
  <2> QED
    BY <2>3, <2>5 DEF Beside, Near
<1>7. Lost \subseteq Near(UNION asked.segs, asked.drift)
  BY <1>6
<1> QED
  BY <1>7 DEF NothingLost

\* Whatever fails and whenever the receiver is switched off, for every recording and
\* every choice of segments: saving loses no more than the tails, and a block that is
\* gone after deleting is no further from a segment that was to be deleted than the
\* firmware is imprecise, once or twice for each segment.  The seams of the cuts could
\* add up; they do not where markers are as far apart as two cuts can go wrong.
THEOREM NothingIsLost ==
  ASSUME NoLeftover, ListsInOrder, ListsSpaced
  PROVE  Spec => []NothingLost
<1> DEFINE Inv == CInv /\ Temporary /\ SInv /\ Spaced /\ Deleting
<1>1. Init => Inv
  BY InitCInv, InitSInv, InitDeleting, ListsInOrder, ListsSpaced
<1>2. Inv /\ [Next]_vars => Inv'
  <2> SUFFICES ASSUME CInv, Temporary, SInv, Spaced, Deleting, [Next]_vars
               PROVE  CInv' /\ Temporary' /\ SInv' /\ Spaced' /\ Deleting'
    OBVIOUS
  <2>1. CInv' /\ Temporary'
    BY FilesKept, RecordsKept, RunsKept, ListKept, LoopKept, WorkKept, TemporaryKept,
       NoLeftover DEF CInv
  <2>2. Fresh' /\ Several' /\ TailBudget' /\ InnerOnly'
    BY FreshKept, SeveralKept, TailBudgetKept, InnerOnlyKept, ListsInOrder DEF SInv
  <2>3. Spaced'
    BY SpacedKept, ListsSpaced
  <2>4. Deleting'
    BY DeletingKept DEF SInv
  <2> QED
    BY <2>1, <2>2, <2>3, <2>4 DEF SInv
<1>3. Inv => NothingLost
  BY SInvImplies, DeletingImplies DEF SInv
<1> HIDE DEF Inv
<1> QED
  BY <1>1, <1>2, <1>3, PTL DEF Spec

-----------------------------------------------------------------------------
(* Where nothing goes wrong no job fails.                                  *)

\* Between two markers the user leaves room for the imprecision of all the cuts
\* that one job can make.
Apart(ms) == \A j, k \in 1 .. Len(ms) :
               j < k => ms[j].block + (Len(ms) - 1) * Radius < ms[k].block
ListsApart ==
  \A size \in 1 .. NrBlocks : \A l \in MarkerLists(size) : Apart(l)

After == {"tidy", "swap", "swapback", "restart", "adjust"}

\* The markers up to marker i are as they were, at least g blocks apart.
InFront(g, i) ==
  /\ 2 * Radius < g /\ (i + 1) * Radius < g
  /\ \A k \in 0 .. i : 0 <= Block(k)
  /\ \A j, k \in 0 .. i : j < k => Block(j) + g <= Block(k)

\* Segment i can still be cut, and behind it there is room for the i segments in
\* front of it to be cut as well.
Room(g, i) ==
  /\ InFront(g, i)
  /\ Block(i) + g <= Block(i + 1) + Radius
  /\ Block(i + 1) <= Size(rec)
  /\ i < Nr - 2 => Block(i + 1) + (i + 1) * Radius < Size(rec)
SplitRoom(i) == Radius < Block(i) /\ Block(i) + Radius < Size(rec)

\* The points are those of the segment and not empty.
PointsFit ==
  /\ cut.special \/ cut.trunc <=> job.split \/ cut.w = Nr - 2
  /\ cut.special => cut.behind = Block(cut.w)
  /\ ~cut.special => cut.start = Block(cut.w)
  /\ ~cut.special /\ ~cut.trunc => cut.behind <= Block(cut.w + 1)
  /\ cut.trunc => job.keep
  /\ cut.start < cut.behind

\* The end was cut out, its tail is still there.
EndIsOff(g) ==
  /\ cut.exact /\ 0 < cut.start /\ cut.start <= Size(rec)
  /\ job.split \/ cut.w = Nr - 2
  /\ ~job.split => /\ InFront(g, cut.w)
                   /\ Block(cut.w) <= cut.start + Radius /\ Block(cut.w) <= cut.behind + Radius

\* What the recording will be, and where the segment was taken out of it; the
\* list does not know of it yet.
Result == IF cut.special /\ pc \in {"tidy", "swap", "swapback"} THEN temp ELSE rec
Joint  == IF cut.special THEN cut.behind ELSE cut.start
SegmentOut(g, i) ==
  /\ InFront(g, i)
  /\ Block(i) <= Joint + Radius /\ Block(i) <= cut.behind + Radius
  /\ Block(i) <= Size(Result) + Radius
  /\ i < Nr - 2 => Joint + i * Radius < Size(Result)

Feasible(g) ==
  /\ pc \in {"next", "cut"} \/ (pc = "truncate" /\ ~job.keep)
       => IF job.split THEN SplitRoom(Current) ELSE 3 <= Nr /\ Room(g, Current)
  /\ pc = "cut" => PointsFit
  /\ pc = "truncate" => IF job.keep THEN EndIsOff(g)
                                    ELSE cut.start = Block(cut.w) /\ cut.w = Nr - 2
  /\ pc \in After => Size(Result) # 0 /\ (job.split \/ SegmentOut(g, cut.w))
Succeeding ==
  /\ named /\ asked.result # "failed"
  /\ pc = "edit" => Apart(markers)
  /\ pc \in After => cut.ok
  /\ pc = "swapback" => rec = {} /\ temp # {}
  /\ pc \in {"restart", "adjust"} /\ cut.special => temp = {}
  /\ pc = "adjust" => total = Size(rec)
Smooth == Succeeding /\ \E g \in Nat : Feasible(g)

\* Nothing goes wrong: no call fails, the name of the recording survives, the
\* active segment is the one that is played, and a split keeps its distance.
NothingWrong ==
  /\ Faults = {} /\ NameOverwritten = {FALSE} /\ Lag = 0
  /\ SplitGap \in Nat /\ Radius < SplitGap
  /\ ListsInOrder /\ ListsApart

\* Multiples of the radius.
LEMMA Multiples ==
  /\ \A a, b \in Nat : a <= b => a * Radius <= b * Radius
  /\ \A a \in Nat : a * Radius \in Nat /\ (a + 1) * Radius = a * Radius + Radius
<1>1. Radius \in Nat
  BY IdsAreFinite
<1> DEFINE R == Radius
<1>2. \A a \in Nat : a * R \in Nat /\ (a + 1) * R = a * R + R
  <2> HIDE DEF R
  <2> QED
    BY <1>1 DEF R
<1>3. ASSUME NEW a \in Nat, NEW b \in Nat, a <= b PROVE a * R <= b * R
  <2>1. PICK c \in Nat : b = a + c
    <3>1. b - a \in Nat /\ b = a + (b - a)
      BY <1>3
    <3> QED
      BY <3>1
  <2>2. b * R = a * R + c * R
    BY <1>1, <2>1
  <2>3. c * R \in Nat /\ a * R \in Nat
    BY <1>2
  <2> QED
    BY <2>2, <2>3
<1> QED
  BY <1>2, <1>3

\* The shape of a job at work.
LEMMA JobShape ==
  ASSUME CInv, pc \in Working
  PROVE  /\ job \in JobType /\ cut \in CutType /\ rec \subseteq Ids /\ temp \subseteq Ids
         /\ markers \in Seq(MarkerType) /\ 2 <= Len(markers) /\ Nr = Len(markers) /\ Nr \in Nat
         /\ Current \in 0 .. Nr - 2
         /\ job.split => ~job.multi /\ job.keep
         /\ pc \in Chosen => cut.w = Current
         /\ \A k \in 0 .. Nr - 1 : Block(k) \in Int /\ Block(k) = markers[k + 1].block
         /\ Size(rec) \in Nat /\ Size(temp) \in Nat /\ Radius \in Nat
<1>1. pc # "edit" /\ runs # 0
  BY DEF CInv, Runs, Working
<1>2. /\ job \in JobType /\ cut \in CutType /\ rec \subseteq Ids /\ temp \subseteq Ids
      /\ markers \in Seq(MarkerType) /\ 2 <= Len(markers)
      /\ job.multi => job.i \in 0 .. Len(markers) - 2
      /\ ~job.multi => job.active \in 0 .. Len(markers) - 2
      /\ job.split => ~job.multi /\ job.keep
      /\ pc \in Chosen => cut.w = IF job.multi THEN job.i ELSE job.active
  BY <1>1 DEF CInv, Files, Runs, Records, List, Loop, Work
<1>3. Nr = Len(markers) /\ Nr \in Nat
  BY <1>2 DEF Nr
<1>4. \A k \in 0 .. Nr - 1 : Block(k) \in Int /\ Block(k) = markers[k + 1].block
  <2> TAKE k \in 0 .. Nr - 1
  <2>1. markers[k + 1] \in MarkerType
    BY <1>2, <1>3
  <2> QED
    BY <2>1 DEF Block, At, MarkerType
<1>5. Size(rec) \in Nat /\ Size(temp) \in Nat /\ Radius \in Nat
  <2>1. Size(rec) \in 0 .. NrBlocks /\ Size(temp) \in 0 .. NrBlocks
    BY <1>2, FilesAreFinite
  <2> QED
    BY <2>1, IdsAreFinite
<1> QED
  BY <1>2, <1>3, <1>4, <1>5 DEF Current

\* The markers in front of marker i are those in front of marker i - 1, and more.
LEMMA InFrontOfLess ==
  ASSUME NEW g \in Nat, NEW i \in Nat, i # 0, InFront(g, i)
  PROVE  InFront(g, i - 1)
<1>1. i - 1 \in Nat /\ (i - 1) + 1 = i /\ Radius \in Nat
  BY IdsAreFinite
<1>2. i * Radius \in Nat /\ (i + 1) * Radius = i * Radius + Radius
  BY Multiples
<1>3. /\ 2 * Radius < g /\ (i + 1) * Radius < g
      /\ \A k \in 0 .. i : 0 <= Block(k)
      /\ \A j, k \in 0 .. i : j < k => Block(j) + g <= Block(k)
  BY DEF InFront
<1>4. i * Radius < g
  <2> DEFINE x == i * Radius
             y == (i + 1) * Radius
  <2>1. x \in Nat /\ y = x + Radius /\ y < g
    BY <1>2, <1>3
  <2> HIDE DEF x, y
  <2>2. x < g
    BY <1>1, <2>1
  <2> QED
    BY <2>2 DEF x
<1>5. ((i - 1) + 1) * Radius < g
  BY <1>1, <1>4
<1>6. \A k \in 0 .. i - 1 : k \in 0 .. i
  BY <1>1
<1> QED
  BY <1>1, <1>3, <1>5, <1>6 DEF InFront

LEMMA SkipFeasible ==
  ASSUME CInv, NEW g \in Nat, Feasible(g), Skip, pc' = "next"
  PROVE  Feasible(g)'
<1>1. /\ pc = "next" /\ job.multi /\ job' = [job EXCEPT !.i = Onward] /\ job.i # 0
      /\ UNCHANGED <<rec, markers, cut>> /\ pc \in Working
  BY DEF Skip, disk, files, Working
<1>2. /\ job \in JobType /\ Current \in 0 .. Nr - 2 /\ Nr \in Nat
      /\ job.split => ~job.multi
      /\ \A k \in 0 .. Nr - 1 : Block(k) \in Int
      /\ Size(rec) \in Nat /\ Radius \in Nat
  BY <1>1, JobShape
<1>3. PICK i \in Nat : i = Current
  BY <1>2
<1>4. ~job.split /\ ~job'.split /\ i # 0 /\ i <= Nr - 2 /\ Current' = i - 1 /\ i - 1 \in Nat
  BY <1>1, <1>2, <1>3 DEF JobType, Onward, Current
<1>5. Room(g, i)
  BY <1>1, <1>3, <1>4 DEF Feasible
<1>6. InFront(g, i - 1)
  BY <1>4, <1>5, InFrontOfLess DEF Room
<1>7. /\ Block(i - 1) + g <= Block(i) /\ 0 <= Block(i) /\ (i + 1) * Radius < g
      /\ Block(i) + g <= Block(i + 1) + Radius /\ Block(i + 1) <= Size(rec)
  <2>1. i - 1 \in 0 .. i /\ i \in 0 .. i /\ i - 1 < i
    BY <1>4
  <2>2. Block(i - 1) + g <= Block(i)
    BY <1>5, <2>1 DEF Room, InFront
  <2> QED
    BY <1>5, <2>1, <2>2 DEF Room, InFront
<1>8. Block(i) + i * Radius < Size(rec)
  <2> DEFINE x == i * Radius
             y == (i + 1) * Radius
  <2>1. x \in Nat /\ y = x + Radius /\ y < g
    BY <1>7, Multiples
  <2> HIDE DEF x, y
  <2>2. Block(i) \in Int /\ Block(i + 1) \in Int
    <3>1. i \in 0 .. Nr - 1 /\ i + 1 \in 0 .. Nr - 1
      BY <1>2, <1>4
    <3> QED
      BY <1>2, <3>1
  <2>3. Block(i) + x < Size(rec)
    BY <1>2, <1>7, <2>1, <2>2
  <2> QED
    BY <2>3 DEF x
<1>9. Room(g, i - 1)
  <2>1. (i - 1) + 1 = i
    BY <1>4
  <2>2. Block(i - 1) + g <= Block(i) + Radius /\ Block(i) <= Size(rec)
    <3>1. i * Radius \in Nat
      BY Multiples
    <3>2. i - 1 \in 0 .. Nr - 1 /\ i \in 0 .. Nr - 1
      BY <1>2, <1>4
    <3>3. Block(i - 1) \in Int /\ Block(i) \in Int
      BY <1>2, <3>2
    <3> HIDE <1>5
    <3>4. Block(i - 1) + g <= Block(i) + Radius
      BY <1>2, <1>7, <3>3
    <3>5. Block(i) <= Size(rec)
      <4> DEFINE x == i * Radius
      <4>1. x \in Nat /\ Block(i) + x < Size(rec)
        BY <1>8, <3>1
      <4> HIDE DEF x
      <4> QED
        BY <1>2, <3>3, <4>1
    <3> QED
      BY <3>4, <3>5
  <2> QED
    BY <1>6, <1>8, <2>1, <2>2 DEF Room
<1>10. 3 <= Nr' /\ Room(g, Current)'
  <2>1. 3 <= Nr'
    BY <1>1, <1>4 DEF Feasible, Nr
  <2> QED
  BY <1>1, <1>4, <1>9, <2>1 DEF Room, InFront, Block, At, Nr, Size
<1> QED
  BY <1>1, <1>4, <1>10 DEF Feasible, After

\* What the room is for: the points of the segment are apart and in the file.
LEMMA RoomToCut ==
  ASSUME CInv, pc \in Working, NEW g \in Nat, NEW i \in Nat, i = Current,
         IF job.split THEN SplitRoom(i) ELSE 3 <= Nr /\ Room(g, i)
  PROVE  /\ Block(i) \in Int /\ 0 <= Block(i) /\ Block(i) + Radius < Size(rec)
         /\ job.split \/ i = Nr - 2 => Radius < Block(i)
         /\ ~job.split => Block(i + 1) \in Int /\ Block(i) + Radius < Block(i + 1)
<1>1. /\ i \in 0 .. Nr - 2 /\ Nr \in Nat /\ Size(rec) \in Nat /\ Radius \in Nat
      /\ \A k \in 0 .. Nr - 1 : Block(k) \in Int
  BY JobShape
<1>2. i \in 0 .. Nr - 1 /\ i + 1 \in 0 .. Nr - 1
  BY <1>1
<1>3. Block(i) \in Int /\ Block(i + 1) \in Int
  BY <1>1, <1>2
<1>4. CASE job.split
  BY <1>1, <1>3, <1>4 DEF SplitRoom
<1>5. CASE ~job.split
  <2>1. /\ 3 <= Nr /\ 2 * Radius < g /\ Block(i) + g <= Block(i + 1) + Radius
        /\ Block(i + 1) <= Size(rec) /\ 0 <= Block(i)
    <3>1. i \in 0 .. i
      OBVIOUS
    <3> QED
      BY <1>5, <3>1 DEF Room, InFront
  <2>2. Block(i) + Radius < Block(i + 1) /\ Block(i) + Radius < Size(rec)
    BY <1>1, <1>3, <2>1
  <2>3. ASSUME i = Nr - 2 PROVE Radius < Block(i)
    <3>1. i - 1 \in 0 .. i /\ i \in 0 .. i /\ i - 1 < i /\ i - 1 \in 0 .. Nr - 1
      BY <1>1, <2>1, <2>3
    <3>2. 0 <= Block(i - 1) /\ Block(i - 1) + g <= Block(i)
      BY <1>5, <3>1 DEF Room, InFront
    <3>3. Block(i - 1) \in Int /\ Block(i - 1) + g <= Block(i)
      BY <1>1, <3>1, <3>2
    <3> QED
      BY <1>1, <1>3, <2>1, <3>2, <3>3
  <2> QED
    BY <1>3, <1>5, <2>1, <2>2, <2>3
<1> QED
  BY <1>4, <1>5

LEMMA ChooseFeasible ==
  ASSUME CInv, NEW g \in Nat, Feasible(g), Choose
  PROVE  Feasible(g)'
<1>1. pc = "next" /\ pc \in Working /\ UNCHANGED <<rec, markers, job>>
  BY DEF Choose, Working
<1>2. /\ Current \in 0 .. Nr - 2 /\ Nr \in Nat /\ job \in JobType
      /\ job.split => ~job.multi /\ job.keep
      /\ Size(rec) \in Nat /\ Radius \in Nat
  BY <1>1, JobShape
<1>3. PICK i \in Nat : i = Current
  BY <1>2
<1>4. IF job.split THEN SplitRoom(i) ELSE 3 <= Nr /\ Room(g, i)
  BY <1>1, <1>3 DEF Feasible
<1>5. /\ Block(i) \in Int /\ 0 <= Block(i) /\ Block(i) + Radius < Size(rec)
      /\ job.split \/ i = Nr - 2 => Radius < Block(i)
      /\ ~job.split => Block(i + 1) \in Int /\ Block(i) + Radius < Block(i + 1)
  BY <1>1, <1>3, <1>4, RoomToCut
<1> DEFINE end == Block(IF job.split THEN Nr - 1 ELSE i + 1)
           isEnd == job.split \/ i = Nr - 2
           special == isEnd /\ SpecialEnd(Block(i), end)
           trunc == isEnd /\ ~special
           first == IF special THEN 0 ELSE Block(i)
           last == Clamped(IF special THEN Block(i) ELSE IF trunc THEN DWord - 1 ELSE end)
<1>6. /\ cut' = [w |-> i, start |-> first, behind |-> last, special |-> special,
                 trunc |-> trunc, name |-> CutName(job.left - 1),
                 exact |-> FALSE, ok |-> FALSE]
      /\ pc' = IF trunc /\ ~job.keep THEN "truncate" ELSE "cut"
  BY <1>3 DEF Choose, Current
<1>7. /\ special \in BOOLEAN /\ trunc \in BOOLEAN /\ (special \/ trunc <=> isEnd)
      /\ ~(special /\ trunc)
  <2> HIDE DEF isEnd
  <2> QED
    BY DEF SpecialEnd
<1>8. \A b \in Int : Clamped(b) = IF b > Size(rec) - Radius THEN Size(rec) - Radius ELSE b
  <2>1. Size(rec) >= Radius
    BY <1>2, <1>5
  <2> QED
    BY <1>2, <2>1 DEF Clamped
<1>9. DWord - 1 \in Int /\ DWord - 1 >= Size(rec) - Radius
  <2>1. rec \subseteq Ids
    BY <1>1, JobShape
  <2>2. Size(rec) \in 0 .. NrBlocks
    BY <2>1, FilesAreFinite
  <2>3. /\ NrBlocks \in Nat /\ Radius \in Nat /\ Limit \in Nat /\ DWord \in Nat
        /\ DWord > NrBlocks + Limit + Radius
    BY IdsAreFinite, CutConstants
  <2> QED
    BY <1>2, <2>2, <2>3
<1>10. special => first = 0 /\ last = Block(i) /\ 0 < Block(i)
  <2> SUFFICES ASSUME special PROVE first = 0 /\ last = Block(i) /\ 0 < Block(i)
    OBVIOUS
  <2>1. Radius < Block(i)
    BY <1>5
  <2>2. last = Clamped(Block(i)) /\ first = 0
    OBVIOUS
  <2> HIDE DEF special, first, last
  <2> QED
    BY <1>2, <1>5, <1>8, <2>1, <2>2
<1>11. trunc => first = Block(i) /\ last = Size(rec) - Radius
  <2> SUFFICES ASSUME trunc PROVE first = Block(i) /\ last = Size(rec) - Radius
    OBVIOUS
  <2>1. last = Clamped(DWord - 1) /\ first = Block(i)
    BY <1>7
  <2> HIDE DEF trunc, first, last
  <2> QED
    BY <1>2, <1>8, <1>9, <2>1
<1>12. ~special /\ ~trunc => /\ ~job.split /\ first = Block(i)
                             /\ last <= Block(i + 1) /\ Block(i) < last
  <2> SUFFICES ASSUME ~special, ~trunc
               PROVE  ~job.split /\ first = Block(i) /\ last <= Block(i + 1) /\ Block(i) < last
    OBVIOUS
  <2>1. ~job.split
    BY <1>7
  <2>2. last = Clamped(Block(i + 1)) /\ first = Block(i)
    BY <2>1
  <2> HIDE DEF special, trunc, first, last
  <2> QED
    BY <1>2, <1>5, <1>8, <2>1, <2>2
<1> HIDE DEF special, trunc, first, last, end
<1>13. /\ cut'.w = i /\ cut'.start = first /\ cut'.behind = last /\ cut'.special = special
       /\ cut'.trunc = trunc
  BY <1>6
<1>14. first < last
  <2>1. CASE special
    BY <1>10, <2>1
  <2>2. CASE trunc
    BY <1>2, <1>5, <1>11, <2>2
  <2>3. CASE ~special /\ ~trunc
    BY <1>12, <2>3
  <2> QED
    BY <2>1, <2>2, <2>3
<1>15. Nr' = Nr /\ Size(rec)' = Size(rec) /\ job' = job /\ \A k : Block(k)' = Block(k)
  BY <1>1 DEF Nr, Size, Block, At
<1>16. pc' = "cut" => PointsFit'
  BY <1>6, <1>7, <1>10, <1>11, <1>12, <1>13, <1>14, <1>15 DEF PointsFit
<1>17. Current' = i /\ Room(g, i)' = Room(g, i) /\ SplitRoom(i)' = SplitRoom(i)
  <2>1. Current' = i
    BY <1>1, <1>3 DEF Current
  <2>2. Room(g, i)' = Room(g, i)
    BY <1>1 DEF Room, InFront, Block, At, Nr, Size
  <2>3. SplitRoom(i)' = SplitRoom(i)
    BY <1>1 DEF SplitRoom, Block, At, Size
  <2> QED
    BY <2>1, <2>2, <2>3
<1>18. pc' = "truncate" => ~job.keep /\ (cut.start = Block(cut.w))' /\ cut'.w = Nr - 2
  <2> SUFFICES ASSUME pc' = "truncate"
               PROVE  ~job.keep /\ (cut.start = Block(cut.w))' /\ cut'.w = Nr - 2
    OBVIOUS
  <2>1. trunc /\ ~job.keep
    BY <1>6
  <2>2. i = Nr - 2 /\ cut'.start = Block(i) /\ Block(i)' = Block(i) /\ cut'.w = i
    BY <1>2, <1>7, <1>11, <1>13, <1>15, <2>1
  <2> QED
    BY <2>1, <2>2
<1>19. pc' \in {"cut", "truncate"}
  BY <1>6
<1>20. (IF job.split THEN SplitRoom(Current) ELSE 3 <= Nr /\ Room(g, Current))'
  BY <1>4, <1>15, <1>17
<1> QED
  BY <1>15, <1>16, <1>18, <1>19, <1>20 DEF Feasible, After

\* The recording without the range that is cut, and the range itself.
LEMMA CutSizes ==
  ASSUME NEW F, F \subseteq Ids, NEW s \in 0 .. Size(F), NEW e \in 0 .. Size(F), s <= e
  PROVE  Size(Part(F, s, e)) = e - s /\ Size(F \ Part(F, s, e)) = Size(F) - (e - s)
<1>1. IsFiniteSet(F) /\ F \subseteq Nat /\ Size(F) \in 0 .. NrBlocks
  BY FilesAreFinite
<1>2. s \in Nat /\ e \in Nat /\ e <= Size(F)
  BY <1>1
<1> QED
  BY <1>1, <1>2, PartSize

LEMMA CutFeasible ==
  ASSUME CInv, Faults = {}, NEW g \in Nat, Feasible(g), Cut
  PROVE  Feasible(g)' /\ cut'.ok
<1>1. /\ pc = "cut" /\ pc \in Working /\ pc \in Chosen /\ UNCHANGED <<markers, job>>
      /\ pc' = IF cut.trunc /\ cut'.exact THEN "truncate" ELSE "tidy"
  BY DEF Cut, Working, Chosen
<1>2. /\ Current \in 0 .. Nr - 2 /\ Nr \in Nat /\ job \in JobType /\ rec \subseteq Ids
      /\ cut \in CutType /\ cut.w = Current
      /\ Size(rec) \in Nat /\ Radius \in Nat
  BY <1>1, JobShape
<1>3. PICK i \in Nat : i = Current
  BY <1>2
<1>4. (IF job.split THEN SplitRoom(i) ELSE 3 <= Nr /\ Room(g, i)) /\ PointsFit
  BY <1>1, <1>3 DEF Feasible
<1>5. /\ Block(i) \in Int /\ 0 <= Block(i) /\ Block(i) + Radius < Size(rec)
      /\ job.split \/ i = Nr - 2 => Radius < Block(i)
      /\ ~job.split => Block(i + 1) \in Int /\ Block(i) + Radius < Block(i + 1)
  BY <1>1, <1>3, <1>4, RoomToCut
<1>6. PICK s, e \in 0 .. Size(rec) :
        /\ s < e
        /\ rec' = rec \ Part(rec, s, e)
        /\ temp' = IF cut.special THEN Part(rec, s, e) ELSE temp
        /\ cut.special => s = 0
        /\ cut' \in CutType
        /\ \A f \in {"w", "special", "trunc", "name"} : cut'[f] = cut[f]
        /\ cut'.ok
        /\ cut'.exact => cut'.start = s /\ cut'.behind = e
        /\ cut'.exact \/ "positions" \in Faults
        /\ s <= cut.start + Radius /\ cut.start <= s + Radius
        /\ e <= cut.behind + Radius /\ cut.behind <= e + Radius
  BY CutRange
<1>7. /\ cut'.exact /\ cut'.start = s /\ cut'.behind = e /\ cut'.ok
      /\ cut'.w = i /\ cut'.special = cut.special /\ cut'.trunc = cut.trunc
  BY <1>2, <1>3, <1>6
<1>8. s \in Nat /\ e \in Nat /\ e <= Size(rec) /\ cut.start \in Int /\ cut.behind \in Int
  BY <1>2 DEF CutType
<1>9. /\ Size(Part(rec, s, e)) = e - s /\ Size(rec') = Size(rec) - (e - s)
  <2>1. s <= e /\ s \in 0 .. Size(rec) /\ e \in 0 .. Size(rec)
    BY <1>6, <1>8
  <2>2. Size(Part(rec, s, e)) = e - s /\ Size(rec \ Part(rec, s, e)) = Size(rec) - (e - s)
    BY <1>2, <2>1, CutSizes
  <2> QED
    BY <1>6, <2>2
<1>10. /\ Nr' = Nr /\ \A k : Block(k)' = Block(k)
       /\ InFront(g, i)' = InFront(g, i)
  BY <1>1 DEF Nr, Block, At, InFront
<1>11. ~job.split => InFront(g, i)
  BY <1>4 DEF Room
<1>12. CASE cut.special
  <2>1. cut.behind = Block(i) /\ s = 0 /\ (job.split \/ i = Nr - 2) /\ ~cut.trunc
    BY <1>1, <1>2, <1>3, <1>4, <1>6, <1>12 DEF PointsFit, CInv, Work
  <2>2. pc' = "tidy" /\ Result' = temp' /\ Joint' = e
    BY <1>1, <1>7, <1>12, <2>1 DEF Result, Joint
  <2>3. Size(Result)' = e
    <3>1. temp' = Part(rec, s, e)
      BY <1>6, <1>12
    <3>2. Size(Result)' = Size(Part(rec, s, e))
      BY <2>2, <3>1 DEF Size
    <3> QED
      BY <1>8, <1>9, <2>1, <3>2
  <2>4. e # 0 /\ Block(i) <= e + Radius
    BY <1>2, <1>5, <1>6, <1>8, <2>1
  <2>5. ~job.split => SegmentOut(g, i)'
    BY <1>3, <1>2, <1>7, <1>10, <1>11, <2>1, <2>2, <2>3, <2>4 DEF SegmentOut
  <2> QED
    BY <1>1, <1>7, <2>2, <2>3, <2>4, <2>5 DEF Feasible
<1>13. CASE cut.trunc
  <2>1. /\ ~cut.special /\ cut.start = Block(i) /\ (job.split \/ i = Nr - 2) /\ job.keep
    BY <1>1, <1>2, <1>3, <1>4, <1>13 DEF PointsFit, CInv, Work
  <2>2. pc' = "truncate" /\ job'.keep
    BY <1>1, <1>7, <1>13, <2>1
  <2>3. /\ 0 < s /\ s <= Size(rec') /\ Block(i) <= s + Radius /\ Block(i) <= e + Radius
    BY <1>2, <1>5, <1>6, <1>8, <1>9, <2>1
  <2>4. EndIsOff(g)'
    BY <1>1, <1>7, <1>10, <1>11, <2>1, <2>3 DEF EndIsOff, Size
  <2> QED
    BY <1>7, <2>2, <2>4 DEF Feasible, After
<1>14. CASE ~cut.special /\ ~cut.trunc
  <2>1. /\ cut.start = Block(i) /\ cut.behind <= Block(i + 1) /\ ~job.split /\ i # Nr - 2
    BY <1>2, <1>3, <1>4, <1>14 DEF PointsFit
  <2>2. pc' = "tidy" /\ Result' = rec' /\ Joint' = s /\ i < Nr - 2
    BY <1>1, <1>2, <1>3, <1>7, <1>14, <2>1 DEF Result, Joint
  <2>3. Block(i + 1) + (i + 1) * Radius < Size(rec)
    BY <1>4, <2>1, <2>2 DEF Room
  <2>4. s + i * Radius < Size(rec') /\ Size(rec') # 0
    <3> DEFINE x == i * Radius
               y == (i + 1) * Radius
    <3>1. x \in Nat /\ y = x + Radius /\ Block(i + 1) + y < Size(rec)
      BY <2>3, Multiples
    <3> HIDE DEF x, y
    <3>2. s + x < Size(rec') /\ Size(rec') # 0
      BY <1>2, <1>5, <1>6, <1>8, <1>9, <2>1, <3>1
    <3> QED
      BY <3>2 DEF x
  <2>5. /\ Block(i) <= s + Radius /\ Block(i) <= e + Radius /\ Block(i) <= Size(rec') + Radius
    BY <1>2, <1>5, <1>6, <1>8, <1>9, <2>1
  <2>6. SegmentOut(g, i)'
    BY <1>7, <1>10, <1>11, <2>1, <2>2, <2>4, <2>5 DEF SegmentOut, Size
  <2> QED
    BY <1>1, <1>7, <2>2, <2>4, <2>6 DEF Feasible, Size
<1> QED
  BY <1>7, <1>12, <1>13, <1>14

LEMMA TruncateFeasible ==
  ASSUME CInv, NEW g \in Nat, Feasible(g), Truncate
  PROVE  Feasible(g)' /\ cut'.ok
<1>1. /\ pc = "truncate" /\ pc \in Working /\ pc \in Chosen /\ pc' = "tidy"
      /\ UNCHANGED <<markers, job>> /\ rec' = Part(rec, 0, TruncateAt)
      /\ cut' = [cut EXCEPT !.start = TruncateAt, !.ok = TRUE, !.exact = TRUE,
                            !.behind = IF job.keep THEN @ ELSE Size(rec)]
  BY DEF Truncate, Working, Chosen
<1>2. /\ Current \in 0 .. Nr - 2 /\ Nr \in Nat /\ job \in JobType /\ rec \subseteq Ids
      /\ cut \in CutType /\ cut.w = Current /\ (job.split => job.keep)
      /\ Size(rec) \in Nat /\ Radius \in Nat
      /\ \A k \in 0 .. Nr - 1 : Block(k) \in Int
  BY <1>1, JobShape
<1>3. PICK i \in Nat : i = Current
  BY <1>2
<1>4. ~cut.special /\ cut.start \in Int /\ cut.behind \in Int
  BY <1>1, <1>2 DEF CInv, Work, CutType
<1>5. /\ cut'.w = i /\ ~cut'.special /\ cut'.ok /\ cut'.start = TruncateAt
      /\ cut'.behind = IF job.keep THEN cut.behind ELSE Size(rec)
  BY <1>1, <1>2, <1>3, <1>4 DEF CutType
<1>6. /\ Nr' = Nr /\ \A k : Block(k)' = Block(k)
      /\ InFront(g, i)' = InFront(g, i)
  BY <1>1 DEF Nr, Block, At, InFront
<1>7. Result' = rec' /\ Joint' = TruncateAt
  BY <1>5 DEF Result, Joint
<1>8. ASSUME TruncateAt \in 0 .. Size(rec) PROVE Size(Result)' = TruncateAt
  <2>1. 0 \in 0 .. Size(rec) /\ 0 <= TruncateAt
    BY <1>2, <1>8
  <2>2. Size(Part(rec, 0, TruncateAt)) = TruncateAt - 0
    BY <1>2, <1>8, <2>1, CutSizes
  <2> QED
    BY <1>1, <1>2, <1>7, <1>8, <2>2 DEF Size
<1>9. CASE job.keep
  <2>1. EndIsOff(g) /\ TruncateAt = cut.start
    BY <1>1, <1>9 DEF Feasible, TruncateAt
  <2>2. Size(Result)' = cut.start /\ 0 < cut.start
    BY <1>2, <1>4, <1>8, <2>1 DEF EndIsOff
  <2>3. ASSUME ~job.split PROVE SegmentOut(g, i)'
    <3>1. /\ i = Nr - 2 /\ InFront(g, i)
          /\ Block(i) <= cut.start + Radius /\ Block(i) <= cut.behind + Radius
      BY <1>2, <1>3, <2>1, <2>3 DEF EndIsOff
    <3> QED
      BY <1>2, <1>5, <1>6, <1>7, <1>9, <2>1, <2>2, <3>1 DEF SegmentOut
  <2> QED
    BY <1>1, <1>4, <1>5, <2>2, <2>3 DEF Feasible
<1>10. CASE ~job.keep
  <2>1. cut.start = Block(i) /\ i = Nr - 2 /\ 3 <= Nr /\ Room(g, i)
    BY <1>1, <1>2, <1>3, <1>10 DEF Feasible
  <2>2. /\ Block(i) \in Int /\ 0 <= Block(i) /\ Block(i) + Radius < Size(rec)
    BY <1>1, <1>2, <1>3, <1>10, <2>1, RoomToCut
  <2>3. TruncateAt = Block(i) + 1
    BY <1>10, <2>1 DEF TruncateAt
  <2>4. Size(Result)' = Block(i) + 1
    BY <1>2, <1>8, <2>2, <2>3
  <2>5. Block(i) <= Joint' + Radius /\ Block(i) <= cut'.behind + Radius
        /\ Block(i) <= Size(Result)' + Radius /\ Size(Result)' # 0
    BY <1>2, <1>5, <1>7, <1>10, <2>2, <2>3, <2>4
  <2>6. SegmentOut(g, i)'
    BY <1>6, <2>1, <2>5 DEF SegmentOut, Room
  <2> QED
    BY <1>1, <1>5, <2>5, <2>6 DEF Feasible
<1> QED
  BY <1>5, <1>9, <1>10

\* The files beside the recording, the names and the restart of the playback
\* change nothing about what the recording will be.
LEMMA AfterFeasible ==
  ASSUME CInv, Faults = {}, NEW g \in Nat, Feasible(g), Succeeding,
         Tidy \/ Swap \/ SwapBack \/ (Restart /\ pc' = "adjust")
  PROVE  Feasible(g)'
<1>1. /\ pc \in {"tidy", "swap", "swapback", "restart"}
      /\ pc' \in {"swap", "swapback", "restart", "adjust"}
      /\ UNCHANGED <<markers, job, cut>> /\ pc \in After /\ pc' \in After
      /\ pc \notin {"next", "cut", "truncate"} /\ pc' \notin {"next", "cut", "truncate"}
  BY DEF Tidy, Swap, SwapBack, Restart, disk, files, After
<1>2. Size(Result) # 0 /\ (job.split \/ SegmentOut(g, cut.w))
  BY <1>1 DEF Feasible
<1>3. Result' = Result
  <2>1. CASE Tidy
    BY <2>1 DEF Tidy, Result
  <2>2. CASE Swap
    <3>1. pc = "swap" /\ named /\ cut.ok /\ UNCHANGED <<cut, temp>>
      BY <2>2 DEF Swap, Succeeding, After
    <3>2. CASE ~cut.special
      BY <2>2, <3>1, <3>2 DEF Swap, Result
    <3>3. CASE cut.special
      <4>1. temp # {}
        BY <1>2, <3>1, <3>3, FS_EmptySet DEF Result, Size
      <4>2. pc' = "swapback"
        BY <2>2, <3>1, <3>3, <4>1 DEF Swap, MayFail
      <4> QED
        BY <3>1, <3>3, <4>2 DEF Result
    <3> QED
      BY <3>2, <3>3
  <2>3. CASE SwapBack
    <3>1. pc = "swapback" /\ pc' = "restart" /\ named /\ rec = {} /\ cut' = cut
      BY <2>3 DEF SwapBack, Succeeding
    <3>2. rec' = temp
      BY <2>3, <3>1 DEF SwapBack, MayFail
    <3>3. cut.special
      BY <1>2, <3>1, FS_EmptySet DEF Result, Size
    <3> QED
      BY <3>1, <3>2, <3>3 DEF Result
  <2>4. CASE Restart
    BY <1>1, <2>4 DEF Restart, Result, disk, files
  <2> QED
    BY <2>1, <2>2, <2>3, <2>4
<1>4. Joint' = Joint /\ Size(Result)' = Size(Result)
  BY <1>1, <1>3 DEF Joint, Size
<1>5. (job.split \/ SegmentOut(g, cut.w))'
  BY <1>1, <1>2, <1>4 DEF SegmentOut, InFront, Block, At, Nr
<1> QED
  BY <1>1, <1>2, <1>4, <1>5 DEF Feasible

\* The markers in front of the segment stay, and the segment behind them now ends
\* where the one that was cut out began.
LEMMA AdjustFeasible ==
  ASSUME CInv, NEW g \in Nat, Feasible(g), total = Size(rec), Adjust, pc' = "next"
  PROVE  Feasible(g)'
<1>1. /\ pc = "adjust" /\ pc \in Working /\ pc \in Chosen /\ pc \in After
      /\ UNCHANGED <<rec, total, cut>> /\ AdjustMarkers /\ job.i # 0
  BY DEF Adjust, Working, Chosen, After, files
<1>2. /\ Nr \in Nat /\ Current \in 0 .. Nr - 2 /\ cut.w = Current /\ cut \in CutType
      /\ Nr = Len(markers) /\ markers \in Seq(MarkerType)
      /\ \A k \in 0 .. Nr - 1 : Block(k) \in Int /\ Block(k) = markers[k + 1].block
      /\ Size(rec) \in Nat /\ Radius \in Nat
  BY <1>1, JobShape
<1>3. /\ markers' \in Seq(MarkerType)
      /\ job.multi /\ cut.w = job.i /\ job'.i = job.i - 1 /\ job'.multi /\ ~job'.split
      /\ 3 <= Len(markers') /\ ~job.split
      /\ 3 <= Len(markers) => Len(markers') = Len(markers) - 1
  <2>1. job' = [job EXCEPT !.left = @ - 1, !.i = Onward] /\ job \in JobType
    BY <1>1, JobShape DEF Adjust
  <2>2. job'.split = job.split
    BY <2>1 DEF JobType
  <2>3. /\ markers' \in Seq(MarkerType) /\ job'.multi /\ ~job'.split
        /\ job.multi /\ cut.w = job.i /\ job'.i = job.i - 1 /\ 3 <= Len(markers')
        /\ 3 <= Len(markers) => Len(markers') = Len(markers) - 1
    BY LoopGoesOn
  <2> QED
    BY <2>2, <2>3
<1>4. PICK i \in Nat : i = cut.w
  BY <1>2
<1> DEFINE start == Joint
           ms == Shifted(Removed, start, cut.behind)
           n == Len(markers) - 1
<1>5. i \in 1 .. n - 1 /\ n \in Nat
  BY <1>1, <1>2, <1>3, <1>4
<1>6. SegmentOut(g, i) /\ Result = rec
  BY <1>1, <1>3, <1>4 DEF Feasible, Result
<1>7. start \in Int /\ cut.behind \in Int
  BY <1>2 DEF CutType, Joint
<1>8. markers' = LastCorrected(ms)
  BY <1>1, <1>3 DEF AdjustMarkers, Joint
<1>9. /\ Removed \in Seq(MarkerType) /\ Len(Removed) = n /\ DOMAIN Removed = 1 .. n
      /\ \A j \in 1 .. i : Removed[j] = markers[j]
  <2>1. cut.w \in 1 .. Len(markers) - 2
    BY <1>2, <1>4, <1>5
  <2>2. /\ Removed \in Seq(MarkerType) /\ Len(Removed) = n
        /\ \A j \in 1 .. cut.w : Removed[j] = markers[j]
    BY <1>2, <2>1, RemovedInFront
  <2> HIDE DEF n
  <2> QED
    BY <1>4, <2>2
<1>10. ms \in Seq(MarkerType) /\ Len(ms) = n
  <2> HIDE DEF start
  <2> QED
    BY <1>7, <1>9, ShiftedIsTyped
<1>11. /\ InFront(g, i) /\ Block(i) <= start + Radius /\ Block(i) <= cut.behind + Radius
       /\ Block(i) <= Size(rec) + Radius
       /\ i < Nr - 2 => start + i * Radius < Size(rec)
  BY <1>6 DEF SegmentOut
<1>12. 2 * Radius < g /\ \A j \in 0 .. i - 1 : Block(j) + g <= Block(i)
  <2>1. \A j \in 0 .. i - 1 : j \in 0 .. i /\ j < i
    BY <1>5
  <2>2. i \in 0 .. i
    OBVIOUS
  <2> QED
    BY <1>11, <2>1, <2>2 DEF InFront
<1>13. i \in 0 .. Nr - 1 /\ \A j \in 0 .. i - 1 : j \in 0 .. Nr - 1
  BY <1>2, <1>5
<1>14. \A j \in 0 .. i - 1 : markers[j + 1].block + Radius < cut.behind
  <2> TAKE j \in 0 .. i - 1
  <2>1. Block(j) + g <= Block(i) /\ Block(j) \in Int /\ Block(i) \in Int
        /\ Block(j) = markers[j + 1].block
    BY <1>2, <1>12, <1>13
  <2>2. Block(i) <= cut.behind + Radius /\ 2 * Radius < g /\ Radius \in Nat
    BY <1>2, <1>11, <1>12
  <2>3. cut.behind \in Int
    BY <1>7
  <2>4. Block(j) + Radius < cut.behind
    BY <2>1, <2>2, <2>3
  <2> QED
    BY <2>1, <2>4
<1> HIDE DEF n, start
<1>15. ASSUME NEW j \in 1 .. i PROVE ms[j] = markers[j]
  <2>1. j \in 1 .. n /\ j \in Int /\ j # i + 1 /\ j \in DOMAIN Removed
    BY <1>5, <1>9
  <2>2. ~(Removed[j].block + Radius >= cut.behind)
    <3>1. j - 1 \in 0 .. i - 1 /\ (j - 1) + 1 = j
      BY <1>5, <2>1
    <3>2. Removed[j].block + Radius < cut.behind
      BY <1>9, <1>14, <3>1
    <3>3. Removed[j].block \in Int
      <4>1. Removed[j] \in MarkerType
        BY <1>9, <2>1
      <4> QED
        BY <4>1 DEF MarkerType
    <3> QED
      BY <1>2, <1>7, <3>2, <3>3
  <2>3. ms[j] = Removed[j]
    <3>1. ~(j - 1 = cut.w)
      BY <1>4, <1>5, <2>1
    <3> QED
      BY <2>1, <2>2, <3>1 DEF Shifted
  <2> QED
    BY <1>9, <2>3
<1>16. ms[i + 1].block = start
  <2>1. i + 1 \in DOMAIN Removed /\ i + 1 > 1 /\ (i + 1) - 1 = i
    BY <1>5, <1>9
  <2>2. ms[i + 1] = [Removed[i + 1] EXCEPT !.block = start]
    BY <1>4, <2>1 DEF Shifted
  <2>3. Removed[i + 1] \in MarkerType
    BY <1>9, <2>1
  <2> QED
    BY <2>2, <2>3 DEF MarkerType
<1> HIDE DEF ms
<1>17. \A j \in 1 .. i : markers'[j] = markers[j]
  <2> TAKE j \in 1 .. i
  <2>1. j # n
    BY <1>5
  <2>2. markers'[j] = ms[j]
    BY <1>8, <1>10, <2>1 DEF LastCorrected
  <2> QED
    BY <1>15, <2>2
<1>18. i # n - 1 => markers'[i + 1].block = start
  <2> SUFFICES ASSUME i # n - 1 PROVE markers'[i + 1].block = start
    OBVIOUS
  <2>1. markers' = ms
    BY <1>3, <1>4, <1>8, <1>10 DEF LastCorrected
  <2> QED
    BY <1>16, <2>1
<1>19. i = n - 1 => markers'[i + 1].block = Size(rec)
  <2> SUFFICES ASSUME i = n - 1 PROVE markers'[i + 1].block = Size(rec)
    OBVIOUS
  <2>1. i + 1 = n /\ n \in 1 .. n
    BY <1>5
  <2>2. markers' = [ms EXCEPT ![n].block = total]
    BY <1>4, <1>8, <1>10 DEF LastCorrected
  <2>3. ms[n] \in MarkerType
    BY <1>10, <2>1
  <2> QED
    BY <1>10, <2>1, <2>2, <2>3 DEF MarkerType
<1>20. Nr' = n /\ Nr - 2 = n - 1 /\ Current' = i - 1 /\ 3 <= Nr' /\ Size(rec)' = Size(rec)
  BY <1>1, <1>2, <1>3, <1>4, <1>5 DEF Nr, n, Current, Size
<1>21. /\ \A k \in 0 .. i - 1 : Block(k)' = Block(k)
       /\ Block(i)' = IF i = n - 1 THEN Size(rec) ELSE start
  <2>1. \A k \in 0 .. i - 1 : k + 1 \in 1 .. i
    BY <1>5
  <2>2. \A k \in 0 .. i - 1 : markers'[k + 1] = markers[k + 1]
    BY <1>17, <2>1
  <2> QED
    BY <1>18, <1>19, <2>2 DEF Block, At
<1>22. InFront(g, i - 1)'
  <2>1. InFront(g, i - 1)
    BY <1>5, <1>11, InFrontOfLess
  <2> QED
    BY <1>21, <2>1 DEF InFront
<1>23. /\ (Block(i - 1) + g <= Block(i) + Radius)' /\ (Block(i) <= Size(rec))'
       /\ i < n - 1 => (Block(i) + i * Radius < Size(rec))'
  <2> DEFINE x == i * Radius
  <2>1. x \in Nat
    BY Multiples
  <2>2. /\ i < n - 1 => start + x < Size(rec)
        /\ Block(i) <= start + Radius /\ Block(i) <= Size(rec) + Radius
    BY <1>11, <1>20
  <2> HIDE DEF x
  <2>3. i - 1 \in 0 .. i - 1
    BY <1>5
  <2>4. Block(i - 1)' = Block(i - 1) /\ Block(i - 1) + g <= Block(i) /\ Block(i - 1) \in Int
    BY <1>2, <1>12, <1>13, <1>21, <2>3
  <2>5. Block(i) \in Int
    BY <1>2, <1>13
  <2>6. CASE i = n - 1
    BY <1>2, <1>20, <1>21, <2>2, <2>4, <2>5, <2>6, SMTT(30)
  <2>7. CASE i # n - 1
    <3>1. i < n - 1 /\ Block(i)' = start
      BY <1>5, <1>21, <2>7
    <3>2. start + x < Size(rec) /\ Block(i) <= start + Radius
      BY <2>2, <3>1
    <3>3. Block(i - 1) + g <= start + Radius
      BY <1>2, <1>7, <2>4, <2>5, <3>2
    <3>4. start <= Size(rec)
      BY <1>2, <1>7, <2>1, <3>2
    <3> QED
      BY <1>20, <2>4, <3>1, <3>2, <3>3, <3>4 DEF x
  <2> QED
    BY <2>6, <2>7
<1>24. Room(g, i - 1)'
  <2>1. (i - 1) + 1 = i /\ (i - 1 < Nr' - 2 => i < n - 1)
    BY <1>5, <1>20
  <2>2. InFront(g, i - 1)'
    BY <1>22
  <2>3. (Block(i - 1) + g <= Block((i - 1) + 1) + Radius)'
    BY <1>23, <2>1 DEF Block, At
  <2>4. (Block((i - 1) + 1) <= Size(rec))'
    BY <1>23, <2>1 DEF Block, At
  <2>5. ASSUME i - 1 < Nr' - 2
        PROVE  (Block((i - 1) + 1) + ((i - 1) + 1) * Radius < Size(rec))'
    <3>1. (Block(i) + i * Radius < Size(rec))'
      BY <1>23, <2>1, <2>5
    <3> QED
      BY <2>1, <3>1 DEF Block, At
  <2> QED
    BY <2>2, <2>3, <2>4, <2>5 DEF Room
<1> QED
  BY <1>3, <1>20, <1>24 DEF Feasible, After

\* Where a job of the menu starts there is room for all its cuts.
LEMMA MenuFeasible ==
  ASSUME CInv, Fresh, Apart(markers), SaveOrDelete
  PROVE  \E g \in Nat : Feasible(g)'
<1>1. /\ pc = "edit" /\ Nr > 2 /\ markers \in Seq(MarkerType) /\ 2 <= Len(markers)
      /\ rec \subseteq Ids
  BY DEF SaveOrDelete, CInv, List, Files
<1>2. /\ markers' = markers /\ UNCHANGED rec /\ ~job'.split
  BY SaveStarts DEF SaveOrDelete, Process, files
<1>3. /\ pc' = "next" /\ Current' \in 0 .. Nr - 2
  <2>1. /\ job'.multi => job'.i \in 0 .. Len(markers') - 2
        /\ ~job'.multi => job'.active \in 0 .. Len(markers') - 2
        /\ pc' = "next"
    BY JobStarts
  <2> QED
    BY <1>2, <2>1 DEF Current, Nr
<1>4. PICK i \in Nat : i = Current'
  BY <1>3
<1> DEFINE m == Nr - 1
           d == m * Radius
<1>5. Nr = Len(markers) /\ Nr \in Nat /\ m \in Nat /\ 2 <= m /\ i <= m - 1
  BY <1>1, <1>3, <1>4 DEF Nr
<1>6. Radius \in Nat /\ Size(rec) \in Nat
  <2>1. Size(rec) \in 0 .. NrBlocks
    BY <1>1, FilesAreFinite
  <2> QED
    BY <2>1, IdsAreFinite
<1>7. /\ \A k \in 0 .. m : Block(k) \in Int /\ 0 <= Block(k)
      /\ \A j, k \in 0 .. m : j < k => Block(j) + d < Block(k)
      /\ Block(m) = Size(rec)
  <2>1. InOrder(markers, Size(rec))
    BY <1>1 DEF Fresh
  <2>2. \A k \in 0 .. m : k + 1 \in 1 .. Len(markers) /\ Block(k) = markers[k + 1].block
    BY <1>5 DEF Block, At
  <2>3. \A k \in 0 .. m : Block(k) \in Int
    <3> TAKE k \in 0 .. m
    <3>1. markers[k + 1] \in MarkerType
      BY <1>1, <2>2
    <3> QED
      BY <2>2, <3>1 DEF MarkerType
  <2>4. \A k \in 0 .. m : 0 <= Block(k)
    BY <2>1, <2>2 DEF InOrder
  <2>5. \A j, k \in 0 .. m : j < k => Block(j) + d < Block(k)
    <3> TAKE j, k \in 0 .. m
    <3>1. j < k => j + 1 < k + 1
      BY <1>5
    <3>2. d = (Len(markers) - 1) * Radius
      BY <1>5
    <3> HIDE DEF d
    <3> QED
      BY <2>2, <3>1, <3>2 DEF Apart
  <2>6. Block(m) = Size(rec)
    <3>1. m \in 0 .. m /\ m + 1 = Len(markers)
      BY <1>5
    <3> QED
      BY <2>1, <2>2, <3>1 DEF InOrder
  <2> QED
    BY <2>3, <2>4, <2>5, <2>6
<1>8. d \in Nat /\ 2 * Radius <= d /\ (i + 1) * Radius <= d /\ (i + 1) * Radius \in Nat
  <2>1. i + 1 \in Nat /\ 2 \in Nat /\ i + 1 <= m
    BY <1>5
  <2> HIDE DEF m
  <2> QED
    BY <1>5, <2>1, Multiples
<1>0. PICK g \in Nat : g = d + 1
  BY <1>8
<1>9. 2 * Radius < g /\ (i + 1) * Radius < g
  <2> DEFINE x == (i + 1) * Radius
  <2>1. x \in Nat /\ x <= d /\ d \in Nat
    BY <1>8
  <2> HIDE DEF x, d
  <2>2. x < d + 1
    BY <2>1
  <2> QED
    BY <1>0, <1>6, <1>8, <2>2 DEF x
<1> HIDE DEF d, m
<1>10. \A k \in 0 .. i + 1 : k \in 0 .. m
  BY <1>5
<1>11. \A j, k \in 0 .. m : j < k => Block(j) + g <= Block(k)
  <2> TAKE j, k \in 0 .. m
  <2> QED
    BY <1>0, <1>7, <1>8
<1>12. InFront(g, i)
  <2>1. \A k \in 0 .. i : k \in 0 .. m
    BY <1>5
  <2> QED
    BY <1>7, <1>9, <1>11, <2>1 DEF InFront
<1>13. i \in 0 .. m /\ i + 1 \in 0 .. m /\ m \in 0 .. m /\ i < i + 1
  BY <1>5
<1>14. /\ Block(i) + g <= Block(i + 1) + Radius
       /\ Block(i + 1) <= Size(rec)
       /\ i < Nr - 2 => Block(i + 1) + (i + 1) * Radius < Size(rec)
  <2>1. Block(i) + g <= Block(i + 1) /\ Block(i) \in Int /\ Block(i + 1) \in Int
    BY <1>7, <1>11, <1>13
  <2>2. i + 1 = m \/ i + 1 < m
    BY <1>5
  <2>3. i < Nr - 2 <=> i + 1 < m
    BY <1>5 DEF m
  <2>4. CASE i + 1 = m
    <3>1. Block(i + 1) = Size(rec) /\ ~(i < Nr - 2)
      BY <1>5, <1>7, <2>3, <2>4
    <3>2. Block(i) + g <= Block(i + 1) + Radius
      BY <1>6, <1>9, <2>1
    <3> QED
      BY <1>6, <3>1, <3>2
  <2>5. CASE i + 1 < m
    <3>1. Block(i + 1) + d < Size(rec)
      BY <1>7, <1>13, <2>5
    <3> DEFINE x == (i + 1) * Radius
    <3>2. x \in Nat /\ x <= d
      BY <1>8
    <3> HIDE DEF x
    <3>3. Block(i) + g <= Block(i + 1) + Radius /\ Block(i + 1) <= Size(rec)
          /\ Block(i + 1) + x < Size(rec)
      BY <1>6, <1>8, <1>9, <2>1, <3>1, <3>2
    <3> QED
      BY <3>3 DEF x
  <2> QED
    BY <2>2, <2>4, <2>5
<1>15. 3 <= Nr /\ Room(g, i)
  BY <1>1, <1>5, <1>12, <1>14 DEF Room
<1>16. 3 <= Nr' /\ Room(g, Current)'
  BY <1>2, <1>4, <1>15 DEF Room, InFront, Block, At, Nr, Size
<1>17. Feasible(g)'
  BY <1>2, <1>3, <1>16 DEF Feasible, After
<1> QED
  BY <1>17

\* A split cuts where the new marker stands, away from both ends.
LEMMA SplitFeasible ==
  ASSUME CInv, Fresh, Lag = 0, SplitGap \in Nat, Radius < SplitGap, Split
  PROVE  Feasible(0)'
<1>1. PICK b \in 1 .. total - 1, i \in 1 .. Nr - 1, active \in Segments :
        /\ Block(i - 1) < b /\ b < Block(i)
        /\ \A k \in 0 .. Nr - 1 : Block(k) - b >= SplitGap \/ b - Block(k) >= SplitGap
        /\ active - (i - 1) \in -Lag .. Lag
        /\ Process(TRUE, TRUE, InsertAt(markers, i + 1, Marker(b, rec, FALSE)),
                   IF active + 1 >= i THEN active + 1 ELSE active)
  BY DEF Split
<1>2. /\ pc = "edit" /\ markers \in Seq(MarkerType) /\ 2 <= Len(markers)
      /\ rec \subseteq Ids /\ rec' = rec
  BY <1>1 DEF Split, CInv, List, Files, Process, files
<1>3. InOrder(markers, Size(rec)) /\ Size(rec) \in Nat /\ Radius \in Nat /\ b \in Nat
  <2>1. Size(rec) \in 0 .. NrBlocks
    BY <1>2, FilesAreFinite
  <2>2. total = Size(rec) /\ InOrder(markers, Size(rec))
    BY <1>2 DEF Fresh
  <2> QED
    BY <2>1, <2>2, IdsAreFinite
<1>4. Nr = Len(markers) /\ Nr \in Nat /\ i \in Nat /\ i + 1 \in 1 .. Len(markers) + 1
  BY <1>2 DEF Nr
<1>5. active = i - 1
  <2>1. active - (i - 1) \in 0 .. 0 /\ active \in Int
    BY <1>1, <1>4, Lag = 0 DEF Segments
  <2> QED
    BY <1>4, <2>1
<1> DEFINE m == Marker(b, rec, FALSE)
           ms == InsertAt(markers, i + 1, m)
<1>6. markers' = ms /\ job'.split /\ ~job'.multi /\ job'.active = i /\ pc' = "next"
  <2>1. IF active + 1 >= i THEN active + 1 = i ELSE FALSE
    BY <1>4, <1>5
  <2>2. (IF active + 1 >= i THEN active + 1 ELSE active) = i
    BY <2>1
  <2>3. Process(TRUE, TRUE, ms, i)
    BY <1>1, <2>2
  <2> HIDE DEF ms
  <2>4. markers' = ms /\ job'.split /\ job'.active = i /\ pc' = "next"
    BY <2>3 DEF Process
  <2>5. ~job'.multi
    BY <2>4, JobStarts
  <2> QED
    BY <2>4, <2>5
<1>7. ms[i + 1] = m /\ m.block = b
  <2>1. m \in MarkerType
    BY <1>2, <1>3, MarkerIsTyped
  <2>2. m.block = b
    BY DEF Marker
  <2> HIDE DEF m
  <2> QED
    BY <1>2, <1>4, <2>1, <2>2, InsertedElement
<1> HIDE DEF m, ms
<1>8. (Block(Current) = b)' /\ Size(rec)' = Size(rec)
  BY <1>2, <1>6, <1>7 DEF Block, At, Current, Size
<1>9. \A k \in 0 .. Nr - 1 : Block(k) \in Int /\ Block(k) = markers[k + 1].block
                             /\ k + 1 \in 1 .. Len(markers)
  <2> TAKE k \in 0 .. Nr - 1
  <2>1. k + 1 \in 1 .. Len(markers)
    BY <1>4
  <2>2. markers[k + 1] \in MarkerType
    BY <1>2, <2>1
  <2> QED
    BY <2>1, <2>2 DEF Block, At, MarkerType
<1>10. \A j, k \in 0 .. Nr - 1 : j < k => Block(j) < Block(k)
  <2> TAKE j, k \in 0 .. Nr - 1
  <2>1. j < k => j + 1 < k + 1
    BY <1>4
  <2> QED
    BY <1>3, <1>9, <2>1 DEF InOrder
<1>11. 0 \in 0 .. Nr - 1 /\ i - 1 \in 0 .. Nr - 1 /\ i \in 0 .. Nr - 1 /\ Nr - 1 \in 0 .. Nr - 1
  BY <1>1, <1>2, <1>4
<1>12. Radius < b
  <2>1. 0 <= Block(0)
    BY <1>3, <1>9, <1>11 DEF InOrder
  <2>2. Block(0) <= Block(i - 1)
    <3>1. i - 1 = 0 \/ 0 < i - 1
      BY <1>11
    <3> QED
      BY <1>9, <1>10, <1>11, <3>1
  <2>3. Block(0) - b >= SplitGap \/ b - Block(0) >= SplitGap
    BY <1>1, <1>11
  <2> QED
    BY <1>1, <1>3, <1>9, <1>11, <2>1, <2>2, <2>3, SplitGap \in Nat, Radius < SplitGap, SMTT(30)
<1>13. b + Radius < Size(rec)
  <2>1. Block(Nr - 1) = Size(rec)
    <3>1. (Nr - 1) + 1 = Len(markers)
      BY <1>4
    <3> QED
      BY <1>3, <1>9, <1>11, <3>1 DEF InOrder
  <2>2. Block(i) <= Block(Nr - 1)
    <3>1. i = Nr - 1 \/ i < Nr - 1
      BY <1>11
    <3> QED
      BY <1>9, <1>10, <1>11, <3>1, SMTT(30)
  <2>3. Block(Nr - 1) - b >= SplitGap \/ b - Block(Nr - 1) >= SplitGap
    BY <1>1, <1>11
  <2> QED
    BY <1>1, <1>3, <1>9, <1>11, <2>1, <2>2, <2>3, SplitGap \in Nat, Radius < SplitGap, SMTT(30)
<1>14. SplitRoom(Current)'
  BY <1>8, <1>12, <1>13 DEF SplitRoom
<1> QED
  BY <1>6, <1>14 DEF Feasible, After

LEMMA LoadedApart ==
  ASSUME ListsApart, NEW F, F \subseteq Ids, Size(F) # 0, NEW l \in MarkerLists(Size(F)),
         NEW ms, ms = [k \in DOMAIN l |-> Marker(l[k].block, F, l[k].sel)]
  PROVE  Apart(ms)
<1>1. Size(F) \in 1 .. NrBlocks
  BY FilesAreFinite
<1>2. l \in Seq([block : 0 .. Size(F), sel : BOOLEAN])
  BY <1>1, ListsAssumption
<1>3. Apart(l)
  BY <1>1 DEF ListsApart
<1>4. DOMAIN l = 1 .. Len(l) /\ Len(l) \in Nat
  BY <1>2
<1>5. Len(ms) = Len(l) /\ \A k \in 1 .. Len(l) : ms[k].block = l[k].block
  BY <1>4, SMTT(30) DEF Marker
<1> QED
  BY <1>3, <1>5 DEF Apart

\* Where nothing is being cut any room will do.
LEMMA IdleFeasible ==
  ASSUME pc' \in {"edit", "save", "ended"}, NEW g
  PROVE  Feasible(g)'
BY DEF Feasible, After

\* A step of a job neither fails nor leaves its files or its list in disorder.
LEMMA StepSucceeds ==
  ASSUME CInv, Succeeding, NothingWrong, NEW g \in Nat, Feasible(g), Step
  PROVE  Succeeding' /\ Feasible(g)'
<1>0. /\ asked = [segs |-> asked.segs, rec |-> asked.rec, files |-> asked.files,
                  marks |-> asked.marks, keep |-> asked.keep, split |-> asked.split,
                  made |-> asked.made, result |-> asked.result, drift |-> asked.drift]
      /\ named /\ asked.result # "failed" /\ Faults = {} /\ NameOverwritten = {FALSE}
  BY DEF CInv, Records, Succeeding, NothingWrong
<1>1. CASE Skip
  <2>1. pc' \in {"next", "save"} /\ UNCHANGED <<named, asked>>
    BY <1>1 DEF Skip, disk
  <2>2. Feasible(g)'
    BY <1>1, <2>1, SkipFeasible, IdleFeasible
  <2> QED
    BY <1>0, <2>1, <2>2 DEF Succeeding, After
<1>2. CASE Choose
  <2>1. pc' \in {"cut", "truncate"} /\ UNCHANGED <<named, asked>>
    BY <1>2 DEF Choose
  <2> QED
    BY <1>0, <1>2, <2>1, ChooseFeasible DEF Succeeding, After
<1>3. CASE Patch
  <2>1. pc = "cut" /\ pc' = pc /\ UNCHANGED <<rec, temp, named, asked, markers, total, job, cut>>
    BY <1>3 DEF Patch, files
  <2>2. Feasible(g)'
    BY <2>1 DEF Feasible, After, SplitRoom, Room, InFront, PointsFit, Current, Nr, Block, At, Size
  <2> QED
    BY <1>0, <2>1, <2>2 DEF Succeeding, After
<1>4. CASE Cut
  <2>1. /\ pc' \in {"truncate", "tidy"} /\ UNCHANGED named
        /\ asked' \in {asked, [asked EXCEPT !.made = @ \cup {cut.name}]}
    BY <1>4 DEF Cut
  <2>2. asked'.result = asked.result
    BY <1>0, <2>1
  <2> QED
    BY <1>0, <1>4, <2>1, <2>2, CutFeasible DEF Succeeding, After
<1>5. CASE CutFails
  <2>1. pc = "cut" /\ cut.behind <= cut.start
    BY <1>0, <1>5 DEF CutFails, MayFail
  <2>2. cut.start < cut.behind /\ cut.start \in Int /\ cut.behind \in Int
    BY <2>1 DEF Feasible, PointsFit, CInv, Records, CutType
  <2> QED
    BY <2>1, <2>2
<1>6. CASE Truncate
  <2>1. pc' = "tidy" /\ UNCHANGED <<named, asked>>
    BY <1>6 DEF Truncate
  <2> QED
    BY <1>0, <1>6, <2>1, TruncateFeasible DEF Succeeding, After
<1>7. CASE TruncateFails
  BY <1>0, <1>7 DEF TruncateFails, MayFail
<1>8. CASE Tidy
  <2>1. /\ pc = "tidy" /\ pc' = "swap" /\ UNCHANGED <<asked, cut>>
        /\ \E overwritten \in NameOverwritten : named' = (named /\ ~overwritten)
    BY <1>8 DEF Tidy
  <2>2. named' /\ cut'.ok
    BY <1>0, <2>1 DEF Succeeding, After
  <2>3. Feasible(g)'
    BY <1>0, <1>8, AfterFeasible
  <2> QED
    BY <1>0, <2>1, <2>2, <2>3 DEF Succeeding
<1>9. CASE Swap
  <2>1. /\ pc = "swap" /\ UNCHANGED <<temp, cut, named>> /\ cut.ok
        /\ asked' \in {asked, [asked EXCEPT !.made = @ \cup {cut.name}]}
    BY <1>9 DEF Swap, Succeeding, After
  <2>2. \/ pc' = "swapback" /\ rec' = {} /\ temp # {}
        \/ pc' = "restart" /\ (cut.special => temp = {})
    BY <1>0, <1>9, <2>1 DEF Swap, MayFail
  <2>3. asked'.result = asked.result
    BY <1>0, <2>1
  <2>4. Feasible(g)'
    BY <1>0, <1>9, AfterFeasible
  <2> QED
    BY <1>0, <2>1, <2>2, <2>3, <2>4 DEF Succeeding
<1>10. CASE SwapBack
  <2>1. /\ pc = "swapback" /\ pc' = "restart" /\ UNCHANGED <<asked, cut, named>>
        /\ rec = {} /\ cut.ok
    BY <1>10 DEF SwapBack, Succeeding, After
  <2>2. temp' = {}
    BY <1>0, <1>10, <2>1 DEF SwapBack, MayFail
  <2>3. Feasible(g)'
    BY <1>0, <1>10, AfterFeasible
  <2> QED
    BY <1>0, <2>1, <2>2, <2>3 DEF Succeeding
<1>11. CASE Restart
  <2>1. /\ pc = "restart" /\ UNCHANGED <<rec, temp, cut, named>> /\ cut.ok
        /\ cut.special => temp = {}
    BY <1>11 DEF Restart, Succeeding, After, disk, files
  <2>2. Size(rec) \in Nat /\ Size(rec) # 0
    <3>1. pc \in Working /\ pc \in After
      BY <2>1 DEF Working, After
    <3>2. Size(rec) \in Nat
      BY <3>1, JobShape
    <3>3. Result = rec /\ Size(Result) # 0
      BY <2>1, <3>1 DEF Result, Feasible
    <3> QED
      BY <3>2, <3>3
  <2>3. PICK size \in {Size(rec)}, reported \in {Size(rec)} :
          LET there == named /\ size > 0
          IN  /\ total' = IF there THEN reported ELSE total
              /\ IF cut.ok /\ there /\ total' > 0
                   THEN pc' = "adjust" /\ UNCHANGED asked
                   ELSE pc' = "save" /\ asked' = [asked EXCEPT !.result = "failed"]
    BY <1>0, <1>11 DEF Restart, MayFail
  <2>4. pc' = "adjust" /\ UNCHANGED asked /\ total' = Size(rec)
    BY <1>0, <2>1, <2>2, <2>3
  <2>5. Feasible(g)'
    BY <1>0, <1>11, <2>4, AfterFeasible
  <2> QED
    BY <1>0, <2>1, <2>4, <2>5 DEF Succeeding, Size
<1>12. CASE Adjust
  <2>1. pc = "adjust" /\ UNCHANGED named /\ (cut.special => temp = {}) /\ total = Size(rec)
    BY <1>12 DEF Adjust, Succeeding
  <2>2. UNCHANGED asked /\ pc' \in {"next", "save"}
    BY <1>0, <1>12, <2>1 DEF Adjust, MayFail
  <2>3. Feasible(g)'
    BY <1>12, <2>1, <2>2, AdjustFeasible, IdleFeasible
  <2> QED
    BY <1>0, <2>1, <2>2, <2>3 DEF Succeeding, After
<1>13. CASE Save
  <2>1. /\ pc' = "ended" /\ UNCHANGED named
        /\ asked' = [asked EXCEPT !.result = IF @ = "failed" THEN @ ELSE "done"]
    BY <1>13 DEF Save
  <2>2. asked'.result = "done"
    BY <1>0, <2>1
  <2> QED
    BY <1>0, <2>1, <2>2, IdleFeasible DEF Succeeding, After
<1> QED
  BY <1>1, <1>2, <1>3, <1>4, <1>5, <1>6, <1>7, <1>8, <1>9, <1>10, <1>11, <1>12, <1>13
  DEF Step

LEMMA SmoothKept ==
  ASSUME CInv, Fresh, Smooth, NothingWrong, Next \/ UNCHANGED vars
  PROVE  Smooth'
<1>0. Succeeding /\ named /\ asked.result # "failed" /\ 0 \in Nat
  BY DEF Smooth, Succeeding
<1>1. PICK g \in Nat : Feasible(g)
  BY DEF Smooth
<1>2. CASE SaveOrDelete \/ Split
  <2>1. pc = "edit" /\ pc' = "next"
    BY <1>2, JobStarts
  <2>2. UNCHANGED named /\ asked'.result = "none"
    <3>1. \E segs, keep, split : Asked(segs, keep, split)
      BY <1>2, Zenon DEF SaveOrDelete, Split
    <3>2. asked'.result = "none"
      BY <3>1 DEF Asked
    <3>3. UNCHANGED named
      BY <1>2 DEF SaveOrDelete, Split, Process
    <3> QED
      BY <3>2, <3>3
  <2>3. Apart(markers)
    BY <1>0, <2>1 DEF Succeeding
  <2>4. \E h \in Nat : Feasible(h)'
    BY <1>0, <1>2, <2>3, MenuFeasible, SplitFeasible DEF NothingWrong
  <2>5. Succeeding'
    BY <1>0, <2>1, <2>2 DEF Succeeding, After
  <2> QED
    BY <2>4, <2>5 DEF Smooth
<1>3. CASE Step
  <2>1. Succeeding' /\ Feasible(g)'
    BY <1>0, <1>1, <1>3, StepSucceeds
  <2> QED
    BY <2>1 DEF Smooth
<1>4. CASE SwitchOff
  BY <1>4 DEF SwitchOff, MayFail, NothingWrong
<1>5. CASE Load
  <2>1. rec \subseteq Ids /\ Size(rec) # 0 /\ pc' = "edit" /\ named' /\ UNCHANGED asked
    <3>1. rec \subseteq Ids
      BY DEF CInv, Files
    <3>2. Size(rec) > 1 /\ pc' = "edit" /\ named' /\ UNCHANGED asked
      BY <1>5 DEF Load
    <3> QED
      BY <3>1, <3>2
  <2>2. PICK l \in MarkerLists(Size(rec)) :
          markers' = [k \in DOMAIN l |-> Marker(l[k].block, rec, l[k].sel)]
    BY <1>5 DEF Load
  <2>3. Apart(markers')
    BY <2>1, <2>2, LoadedApart DEF NothingWrong
  <2>4. Apart(markers)'
    BY <2>3 DEF Apart
  <2>5. Succeeding'
    BY <1>0, <2>1, <2>4 DEF Succeeding, After
  <2>6. Feasible(0)'
    BY <2>1, IdleFeasible
  <2> QED
    BY <1>0, <2>5, <2>6 DEF Smooth
<1>6. CASE UNCHANGED vars
  <2>1. UNCHANGED <<rec, temp, named, asked, markers, total, pc, job, cut>>
    BY <1>6 DEF vars, disk, files
  <2>2. Feasible(g)'
    BY <1>1, <2>1 DEF Feasible, After, SplitRoom, Room, InFront, PointsFit, EndIsOff, SegmentOut,
                      Result, Joint, Current, Nr, Block, At, Size
  <2>3. Succeeding'
    BY <1>0, <2>1 DEF Succeeding, Apart, Size
  <2> QED
    BY <2>2, <2>3 DEF Smooth
<1> QED
  BY <1>2, <1>3, <1>4, <1>5, <1>6 DEF Next

LEMMA InitSmooth ==
  ASSUME Init, NothingWrong
  PROVE  Smooth
<1>1. /\ rec = Ids /\ pc = "edit" /\ named /\ asked.result = "none"
      /\ Size(rec) = NrBlocks /\ NrBlocks # 0
  BY IdsAreFinite, CutConstants DEF Init, Size
<1>2. PICK l \in MarkerLists(Size(rec)) :
        markers = [k \in DOMAIN l |-> Marker(l[k].block, rec, l[k].sel)]
  BY <1>1 DEF Init
<1>3. Apart(markers)
  BY <1>1, <1>2, LoadedApart DEF NothingWrong
<1>4. Feasible(0)
  BY <1>1 DEF Feasible, After
<1> QED
  BY <1>1, <1>3, <1>4 DEF Smooth, Succeeding, After

\* Where nothing goes wrong no job fails, however many segments it takes out and in
\* however many jobs, whatever cut points the firmware finds near those it was asked
\* for: no range is ever empty, the recording is found and not empty after each cut,
\* and the list still holds the segment that comes next.  The markers in front of the
\* segment must not be touched by the cuts behind them, for which they have to be
\* further apart than all the cuts of the job can go wrong; the name of the recording
\* must survive; and a split must take the marker it has just set.
THEOREM NoJobFails ==
  ASSUME NothingWrong
  PROVE  Spec => []FailsOnlyOnFaults
<1> DEFINE Inv == CInv /\ Fresh /\ Smooth
<1>1. Init => Inv
  BY InitCInv, InitSInv, InitSmooth DEF NothingWrong, SInv
<1>2. Inv /\ [Next]_vars => Inv'
  <2> SUFFICES ASSUME CInv, Fresh, Smooth, [Next]_vars
               PROVE  CInv' /\ Fresh' /\ Smooth'
    OBVIOUS
  <2>1. CInv'
    BY FilesKept, RecordsKept, RunsKept, ListKept, LoopKept, WorkKept DEF CInv
  <2>2. Fresh'
    BY FreshKept, NothingWrong DEF NothingWrong
  <2>3. Smooth'
    BY SmoothKept, NothingWrong
  <2> QED
    BY <2>1, <2>2, <2>3
<1>3. Inv => FailsOnlyOnFaults
  BY DEF Smooth, Succeeding, FailsOnlyOnFaults
<1> HIDE DEF Inv
<1> QED
  BY <1>1, <1>2, <1>3, PTL DEF Spec
=============================================================================
