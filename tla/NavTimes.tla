------------------------------ MODULE NavTimes ------------------------------
(***************************************************************************)
(* The .nav file of a recording, which gives each picture its time: how it *)
(* is loaded (NavLoad), how one with gaps is repaired when the recording   *)
(* is attached (PatchOldNavFile), how times are looked up with a cursor    *)
(* (NavGetBlockTimeStamp), and how a cut divides it, the play time and the *)
(* bookmarks of the .inf file (PatchNavFiles, PatchInfFiles).  File         *)
(* operations can fail, and the power can fail between two of them.        *)
(***************************************************************************)
EXTENDS Integers, Sequences, SequencesExt

CONSTANTS
  None,             \* no file, no time stamps
  Navs,             \* the .nav files recordings come with
  Duration,         \* of each: the play time the .inf file gives
  Discrepancy,      \* 5000 ms
  Gap, Step,        \* 3000 ms, 1000 ms
  Blocks, PerBlock, \* block numbers asked for; positions in one block
  BookmarkLists,    \* the bookmarks recordings come with
  MaxBookmarks, Margin, \* 48; 100 blocks
  Cuts,             \* cuts, as [start, behind, ending]
  DWord,            \* 2^32
  Faults,           \* what can go wrong
  MaxCuts           \* bound: how often a recording is cut

ASSUME NavAssumption ==
  /\ DWord \in Nat \ {0} /\ Gap \in 1 .. DWord - 1 /\ Step \in 0 .. Gap - 1
  /\ PerBlock \in Nat \ {0} /\ Blocks \subseteq Nat /\ Discrepancy \in Nat
  /\ Duration \in [Navs -> Nat] /\ MaxCuts \in Nat
  /\ MaxBookmarks \in Nat /\ Margin \in Nat \ {0}
  /\ \A s \in BookmarkLists : s \in Seq(Nat) /\ \A i, j \in DOMAIN s : i < j => s[i] < s[j]
  /\ Faults \subseteq {"rename", "open", "write", "close", "inf", "off"}

\* A picture: where it begins, whether it is an I-, P- or B-frame (1, 2, 3), and its time.
Record  == [pos : Nat, type : 1 .. 3, time : 0 .. DWord - 1]
Rises(n) == \A i, j \in DOMAIN n : i < j => n[i].pos <= n[j].pos
ASSUME FilesAssumption ==
  /\ \A n \in Navs : n \in Seq(Record) /\ Rises(n)
  /\ Cuts \subseteq [start : Nat, behind : Nat, ending : BOOLEAN]
  /\ \A c \in Cuts : c.start <= c.behind

VARIABLES
  nav, bak,         \* the files .nav and .nav.bak
  orig,             \* history: the .nav the recording came with or got by a cut
  duration, bookmarks, \* the .inf file: play time and bookmarks
  stamps, cursor,   \* TimeStamps and LastTimeStamp
  pc,               \* where MovieCutter is with this recording
  copy,             \* the loop of PatchOldNavFile
  answer,           \* the last block asked for and its time
  cut, nrCuts,      \* the cut that is made, and how many were made
  part, partMarks   \* the .nav file and the bookmarks of what was cut out

inf   == <<duration, bookmarks>>
files == <<nav, bak, orig, inf>>
times == <<stamps, cursor, answer>>
parts == <<cut, nrCuts, part, partMarks>>
vars  == <<files, times, pc, copy, parts>>

Minus(a, b) == (a - b) % DWord
Less(a, b)  == IF b > a THEN 0 ELSE a - b
MayFail(f)  == f \in Faults
IsI(r)      == r.type = 1

-----------------------------------------------------------------------------
(* Loading and looking up.                                                 *)

\* At most every fourth record is taken for an I-frame.
NavLoad(n) ==
  LET next(ts, r) == IF IsI(r) /\ Len(ts) < Len(n) \div 4
                     THEN Append(ts, [block |-> r.pos \div PerBlock, time |-> r.time]) ELSE ts
      stamped == FoldLeft(next, <<>>, n)
  IN  IF n = None \/ stamped = <<>> THEN None ELSE stamped

\* Where the cursor stops when it goes on, and when it goes back.
Forward(b)  == LET stop == {i \in cursor .. Len(stamps) : stamps[i].block >= b \/ i = Len(stamps)}
                   i == Min(stop)
               IN  IF stamps[i].block > b THEN i - 1 ELSE i
Backward(b) == LET stop == {i \in 1 .. cursor : stamps[i].block <= b \/ i = 1}
               IN  Max(stop)
ForwardOnly(b) ==                                                  \* mutant
  IF stamps[cursor].block < b THEN Forward(b) ELSE cursor
Found(b) == IF stamps[cursor].block < b THEN Forward(b)
            ELSE IF stamps[cursor].block > b THEN Backward(b) ELSE cursor
FoundTime(b) == IF stamps[Found(b)].block > b THEN 0 ELSE stamps[Found(b)].time

NavGetBlockTimeStamp ==
  /\ pc = "active"
  /\ \E b \in Blocks :
       /\ cursor' = Found(b)
       /\ answer' = [block |-> b, time |-> FoundTime(b)]
  /\ UNCHANGED <<files, stamps, pc, copy, parts>>

-----------------------------------------------------------------------------
(* Attaching a recording.                                                  *)

Idle == [todo |-> <<>>, diff |-> 0, last |-> 0, ok |-> FALSE]

Init ==
  /\ nav \in Navs /\ bak = None /\ orig = nav /\ duration = Duration[nav]
  /\ bookmarks \in BookmarkLists
  /\ stamps = None /\ cursor = 0 /\ answer = None /\ pc = "off" /\ copy = Idle
  /\ cut = None /\ nrCuts = 0 /\ part = None /\ partMarks = None

StartPlayback ==
  /\ pc = "off" /\ pc' = "waiting"
  /\ UNCHANGED <<files, times, copy, parts>>

Far(ts, d) == LET t == ts[Len(ts)].time IN t - d > Discrepancy \/ d - t > Discrepancy
LoadAtCursor ==                                                    \* mutant
  /\ pc = "waiting"
  /\ stamps' = NavLoad(nav) /\ answer' = None /\ UNCHANGED cursor
  /\ pc' = IF stamps' = None THEN "off" ELSE IF Far(stamps', duration) THEN "repair" ELSE "active"
  /\ UNCHANGED <<files, copy, parts>>
Load ==
  /\ pc = "waiting"
  /\ stamps' = NavLoad(nav) /\ answer' = None
  /\ IF stamps' = None THEN cursor' = 0 /\ pc' = "off"
     ELSE cursor' = 1 /\ pc' = IF Far(stamps', duration) THEN "repair" ELSE "active"
  /\ UNCHANGED <<files, copy, parts>>

\* PatchOldNavFile: a .nav file is repaired only once.
NeverPatched   == FALSE                                            \* mutant
AlreadyPatched == bak # None
RenameToBak ==
  /\ pc = "repair"
  /\ \/ AlreadyPatched /\ pc' = "ask" /\ UNCHANGED <<nav, bak>>
     \/ ~AlreadyPatched /\ pc' = "open" /\ bak' = nav /\ nav' = None
     \/ ~AlreadyPatched /\ pc' = "open" /\ MayFail("rename") /\ UNCHANGED <<nav, bak>>
  /\ UNCHANGED <<orig, inf, times, copy, parts>>

\* Where a file cannot be opened things are left as they are.
OpenNavs ==
  /\ pc = "open"
  /\ \/ /\ bak = None \/ MayFail("open")
        /\ pc' = "ask" /\ UNCHANGED <<nav, copy>>
     \/ /\ bak # None
        /\ nav' = <<>> /\ copy' = [todo |-> bak, diff |-> 0, last |-> 0, ok |-> FALSE]
        /\ pc' = "copy"
  /\ UNCHANGED <<bak, orig, inf, times, parts>>

LastPatched(r, diff) == Minus(r.time, diff)                        \* mutant
LastTime(r, diff)    == r.time
\* One record; only the result of this write is remembered.
CopyRecord ==
  LET r     == Head(copy.todo)
      jump  == Minus(r.time, copy.last)
      diff  == IF jump >= Gap THEN (copy.diff + jump - Step) % DWord ELSE copy.diff
  IN  /\ pc = "copy" /\ copy.todo # <<>>
      /\ \E written \in {TRUE} \cup (IF MayFail("write") THEN {FALSE} ELSE {}) :
           /\ nav' = IF written THEN Append(nav, [r EXCEPT !.time = Minus(@, diff)]) ELSE nav
           /\ copy' = [todo |-> Tail(copy.todo), diff |-> diff,
                       last |-> LastTime(r, diff), ok |-> written]
      /\ UNCHANGED <<bak, orig, inf, times, pc, parts>>

CloseNavs ==
  /\ pc = "copy" /\ copy.todo = <<>>
  /\ \/ copy.ok /\ pc' = (IF copy.diff > 0 THEN "waiting" ELSE "ask")
     \/ (~copy.ok \/ MayFail("close")) /\ pc' = "delete"
  /\ copy' = Idle
  /\ UNCHANGED <<files, times, parts>>

\* "On error rename the bak file back to original."
DeleteNav ==
  /\ pc = "delete" /\ pc' = "restore"
  /\ nav' = None
  /\ UNCHANGED <<bak, orig, inf, times, copy, parts>>
RestoreNav ==
  /\ pc = "restore" /\ pc' = "ask"
  /\ \/ nav' = bak /\ bak' = None
     \/ MayFail("rename") /\ UNCHANGED <<nav, bak>>
  /\ UNCHANGED <<orig, inf, times, copy, parts>>

\* The user accepts the wrong length or does not; within MaxNavDiscrepancy nobody asks.
Ask ==
  /\ pc = "ask" /\ pc' \in {"active", "off"}
  /\ UNCHANGED <<files, times, copy, parts>>

EndPlayback ==
  /\ pc = "active" /\ pc' = "off"
  /\ UNCHANGED <<files, times, copy, parts>>

-----------------------------------------------------------------------------
(* Cutting.                                                                *)

Unset == DWord - 1
NoRecords == [cut |-> <<>>, src |-> <<>>, iCut |-> FALSE, iSrc |-> TRUE, p |-> TRUE,
              firstCut |-> Unset, lastCut |-> 0, firstSrc |-> 0, lastSrc |-> 0, stop |-> FALSE]

\* A record between the cut points: the part begins with an I-frame, and B-frames that
\* come before the next I- or P-frame are left out.
InsideEach(acc, r, c) ==                                           \* mutant
  LET first == IF acc.firstCut = Unset THEN (IF c.start = 0 THEN 0 ELSE r.time) ELSE acc.firstCut
  IN  [acc EXCEPT !.firstCut = first, !.lastCut = r.time, !.iSrc = FALSE,
                  !.cut = Append(@, [r EXCEPT !.pos = @ - c.start, !.time = Minus(@, first)])]
Inside(acc, r, c) ==
  LET first  == IF acc.firstCut = Unset THEN (IF c.start = 0 THEN 0 ELSE r.time) ELSE acc.firstCut
      begins == ~acc.iCut /\ IsI(r)
      on     == acc.iCut \/ begins
      p      == ~begins /\ (acc.p \/ r.type <= 2)
      put    == [r EXCEPT !.pos = @ - c.start, !.time = Minus(@, first)]
  IN  [acc EXCEPT !.firstCut = first, !.lastCut = r.time, !.iCut = on, !.iSrc = FALSE, !.p = p,
                  !.cut = IF on /\ (p \/ r.type <= 2) THEN Append(@, put) ELSE @]

\* A record in front of the cut or behind it.
Outside(acc, r, c) ==
  LET behind == r.pos >= c.behind
      first  == IF behind /\ acc.firstSrc = 0 THEN r.time ELSE acc.firstSrc
      last   == IF behind THEN r.time ELSE acc.lastSrc
      begins == ~acc.iSrc /\ IsI(r)
      on     == acc.iSrc \/ begins
      p      == ~begins /\ (acc.p \/ r.type <= 2)
      put    == IF ~behind THEN r
                ELSE [r EXCEPT !.pos = @ - (c.behind - c.start),
                               !.time = Minus(@, first - acc.firstCut)]
  IN  IF behind /\ c.ending THEN [acc EXCEPT !.firstSrc = first, !.lastSrc = last, !.stop = TRUE]
      ELSE [acc EXCEPT !.firstSrc = first, !.lastSrc = last, !.iSrc = on, !.iCut = FALSE, !.p = p,
                       !.src = IF on /\ (p \/ r.type <= 2) THEN Append(@, put) ELSE @]

Divide(n, c) ==
  LET step(acc, r) == IF acc.stop THEN acc
                      ELSE IF c.start <= r.pos /\ r.pos < c.behind THEN Inside(acc, r, c)
                      ELSE Outside(acc, r, c)
  IN  FoldLeft(step, NoRecords, n)

\* The cut with the times that are handed back, if a record lies in it.
Timed(c, d) ==
  IF d.firstCut = Unset THEN c
  ELSE [c EXCEPT !.startTime  = d.firstCut,
                 !.behindTime = IF d.firstSrc # 0 THEN d.firstSrc ELSE d.lastCut,
                 !.playTime   = IF d.lastSrc # 0 THEN d.lastSrc ELSE d.lastCut]

\* MovieCutter: the .nav file becomes .nav.bak, in place of an older one.  The times
\* of the two markers hold until better ones are known.
CutBegins ==
  /\ pc = "active" /\ nrCuts < MaxCuts
  /\ \E c \in Cuts : cut' = [start |-> c.start, behind |-> c.behind, ending |-> c.ending,
                             startTime  |-> FoundTime(c.start \div PerBlock),
                             behindTime |-> FoundTime(c.behind \div PerBlock), playTime |-> 0]
  /\ nrCuts' = nrCuts + 1 /\ orig' = None /\ pc' = "divide"
  /\ IF nav = None THEN UNCHANGED <<nav, bak>>
     ELSE \/ bak' = nav /\ nav' = None
          \/ MayFail("rename") /\ bak' = None /\ UNCHANGED nav
  /\ UNCHANGED <<inf, times, copy, part, partMarks>>

\* When it fails there are no .nav files.
PatchNavFiles ==
  /\ pc = "divide" /\ pc' = "inf"
  /\ \/ /\ bak # None
        /\ LET d == Divide(bak, cut) IN nav' = d.src /\ part' = d.cut /\ cut' = Timed(cut, d)
        /\ bak' = None /\ orig' = nav'
     \/ /\ \/ (bak = None \/ MayFail("open")) /\ UNCHANGED cut
           \/ bak # None /\ MayFail("close") /\ cut' = Timed(cut, Divide(bak, cut))
        /\ nav' = None /\ part' = None /\ UNCHANGED <<bak, orig>>
  /\ UNCHANGED <<inf, times, copy, nrCuts, partMarks>>

\* The blocks of the cut points: the first whole one of the part, and its length.
StartBlock  == (cut.start + PerBlock - 1) \div PerBlock
CutBlocks   == (cut.behind - cut.start + PerBlock \div 2) \div PerBlock
BehindBlock == StartBlock + CutBlocks
CutPlayTime == Minus(cut.behindTime, cut.startTime)
PlayTimeKept == IF cut.playTime # 0 THEN cut.playTime ELSE Less(duration, CutPlayTime) \* mutant
PlayTime    == IF cut.playTime # 0 THEN Less(cut.playTime, CutPlayTime)
               ELSE Less(duration, CutPlayTime)

\* Bookmarks close to a cut point go; one is set at the cut, unless it is an end.
Inner    == StartBlock > 1 /\ cut.startTime + Gap < PlayTime
Those(s, S) == LET keep(kept, b) == IF b \in S THEN Append(kept, b) ELSE kept
               IN  FoldLeft(keep, <<>>, s)
InFront  == Those(bookmarks, {b \in Nat : b >= Margin /\ b + Margin < StartBlock})
Beyond   == Those(bookmarks, {b \in Nat : b >= BehindBlock + Margin})
Within   == Those(bookmarks, {b \in Nat : b >= StartBlock + Margin /\ b + Margin < BehindBlock})
Moved(s, by) == [i \in DOMAIN s |-> s[i] - by]
Marked   == IF Inner THEN <<StartBlock>> ELSE <<>>
\* There is room for MaxBookmarks, but the one at the cut is added without looking at that
\* when it is set in front of another (MovieCutterLib.c 1444).
Capped(s) == SubSeq(s, 1, IF Len(s) > MaxBookmarks THEN MaxBookmarks ELSE Len(s))
WithoutMargin ==                                                   \* mutant
  Capped(SelectSeq(bookmarks, LAMBDA b : b < StartBlock) \o Marked
           \o Moved(SelectSeq(bookmarks, LAMBDA b : b >= StartBlock), CutBlocks))
SourceMarks ==
  IF Inner /\ Beyond # <<>> /\ Len(InFront) >= MaxBookmarks
  THEN Append(Capped(InFront), StartBlock)
  ELSE Capped(InFront \o Marked \o Moved(Beyond, CutBlocks))

\* The recording is played anew.
PatchInfFiles ==
  /\ pc = "inf" /\ pc' = "waiting" /\ cut' = None
  /\ \/ /\ duration' = PlayTime /\ bookmarks' = SourceMarks
        /\ partMarks' = Moved(Within, StartBlock)
     \/ MayFail("inf") /\ UNCHANGED inf /\ partMarks' = None
  /\ UNCHANGED <<nav, bak, orig, times, copy, nrCuts, part>>

\* The power fails: of the file that is being written any beginning may be there.
SwitchOff ==
  /\ MayFail("off") /\ pc # "off" /\ pc' = "off"
  /\ IF pc = "copy" THEN \E n \in 0 .. Len(nav) : nav' = SubSeq(nav, 1, n)
     ELSE IF pc = "divide" /\ bak # None
       THEN LET src == Divide(bak, cut).src
            IN  nav' \in {None} \cup {SubSeq(src, 1, n) : n \in 0 .. Len(src)}
     ELSE UNCHANGED nav
  /\ stamps' = None /\ cursor' = 0 /\ answer' = None /\ copy' = Idle /\ cut' = None
  /\ UNCHANGED <<bak, orig, inf, nrCuts, part, partMarks>>

Next ==
  \/ StartPlayback \/ Load \/ RenameToBak \/ OpenNavs \/ CopyRecord \/ CloseNavs
  \/ DeleteNav \/ RestoreNav \/ Ask \/ NavGetBlockTimeStamp \/ EndPlayback
  \/ CutBegins \/ PatchNavFiles \/ PatchInfFiles \/ SwitchOff

Spec == Init /\ [][Next]_vars

-----------------------------------------------------------------------------
(* Properties.                                                             *)

\* Time stamps are in the order of their blocks, as the pictures of every .nav file are.
Ordered ==
  stamps # None =>
    /\ stamps \in Seq([block : Nat, time : Nat]) /\ stamps # <<>>
    /\ \A i, j \in DOMAIN stamps : i <= j => stamps[i].block <= stamps[j].block

TypeOK ==
  /\ Ordered
  /\ pc \in {"off", "waiting", "repair", "open", "copy", "delete", "restore", "ask", "active",
             "divide", "inf"}
  /\ stamps # None => cursor \in DOMAIN stamps
  /\ pc \in {"active", "ask", "repair", "copy"} => stamps # None
  /\ copy.diff \in 0 .. DWord - 1 /\ nrCuts \in 0 .. MaxCuts

\* The cursor is only a short cut: wherever earlier questions have left it, the answer is
\* the time of a last I-frame at or before the block, and 0 in front of the first one.
LookupRight ==
  answer # None =>
    LET before == {i \in DOMAIN stamps : stamps[i].block <= answer.block}
    IN  IF before = {} THEN answer.time = 0
        ELSE \E i \in before : /\ answer.time = stamps[i].time
                               /\ \A j \in before : stamps[j].block <= stamps[i].block

\* "Rename the original nav file to bak": the .nav file a recording came with is never
\* lost, whatever fails while it is repaired and wherever the power fails.
OriginalKept == orig # None => orig \in {nav, bak}

\* "fill holes in old nav file": after a repair no time is Gap or more behind the one
\* before, all shorter steps are as they were, and no record is missing.
Jump(n, i) == Minus(n[i].time, IF i = 1 THEN 0 ELSE n[i - 1].time)
GapsClosed ==
  [][CloseNavs /\ pc' = "waiting" =>
       /\ Len(nav) = Len(bak)
       /\ \A i \in DOMAIN nav :
            IF Jump(bak, i) >= Gap THEN Jump(nav, i) = Step ELSE Jump(nav, i) = Jump(bak, i)]_vars

\* Both recordings can be played with their .nav files: each begins with an I-frame behind
\* the cut, no B-frame refers to what was cut away, positions and times go up, and no
\* I-frame is missing.  A marker behind the cut is moved by the difference of the times that
\* PatchNavFiles hands back: it still has the time of its picture.
Steady(n) == \A i \in 2 .. Len(n) : n[i - 1].pos < n[i].pos /\ n[i - 1].time <= n[i].time
Decodable(n) ==
  n # <<>> => /\ IsI(n[1])
              /\ \A i \in DOMAIN n : n[i].type = 3 => \E j \in 2 .. i : n[j].type <= 2
IFrames(n) == {r \in ToSet(n) : IsI(r)}
Times0(n)  == {[r EXCEPT !.time = 0] : r \in IFrames(n)}
Moved0(s, by) == {[r EXCEPT !.pos = @ - by] : r \in s}
MarkersKeepTimes ==
  LET delta == Minus(cut'.behindTime, cut'.startTime)
  IN  ~cut.ending =>
        \A r \in IFrames(bak) : r.pos >= cut.behind =>
          \E q \in ToSet(nav') : /\ q.pos = r.pos - (cut.behind - cut.start)
                                 /\ q.time = Minus(r.time, delta)
CutNavsPlayable ==
  [][PatchNavFiles /\ nav' # None =>
       LET front  == {r \in Times0(bak) : r.pos < cut.start}
           behind == {r \in Times0(bak) : r.pos >= cut.behind}
           seam   == SelectSeq(nav', LAMBDA r : r.pos >= cut.start)
       IN  /\ Decodable(part') /\ Decodable(seam)
           /\ Steady(bak) => Steady(nav') /\ Steady(part')
           /\ Times0(part') = Moved0(Times0(bak) \ (front \cup behind), cut.start)
           /\ Times0(nav') = front \cup (IF cut.ending THEN {}
                                         ELSE Moved0(behind, cut.behind - cut.start))
           /\ MarkersKeepTimes]_vars

\* A cut does not make a sound recording look damaged: where its times fit the play time
\* before the cut, they do so when it is played again and nobody is asked.  Sound are times
\* without a gap of half of Discrepancy between I-frames or behind the last one: one such
\* time can be lost on each side of the cut.
NoGaps ==
  /\ \A i \in 2 .. Len(stamps) : stamps[i].time - stamps[i - 1].time \in 0 .. Discrepancy \div 2
  /\ cut.playTime - Last(stamps).time <= Discrepancy \div 2
StillFits ==
  [][PatchInfFiles /\ inf' # inf /\ NavLoad(nav) # None
       /\ ~Far(stamps, duration) /\ NoGaps => ~Far(NavLoad(nav), duration')]_vars

\* A cut divides the bookmarks: in both parts they are in order, and each comes from one
\* bookmark of the same picture (in front of the cut, behind it, or cut out: none is in both),
\* but for the one at the cut.  No more than MaxBookmarks are made of as many.  While there
\* is room, none is lost but within Margin of a cut point or of the beginning.
Climbs(s) == \A i, j \in DOMAIN s : i < j => s[i] < s[j]
BookmarksDivided ==
  [][PatchInfFiles /\ partMarks' # None =>
       /\ Climbs(bookmarks') /\ Climbs(partMarks')
       /\ Len(bookmarks) <= MaxBookmarks => Len(bookmarks') <= MaxBookmarks
       /\ \A b \in ToSet(bookmarks') :
            \/ b < StartBlock /\ b \in ToSet(bookmarks)
            \/ b >= StartBlock /\ b + CutBlocks \in ToSet(bookmarks)
            \/ b = StartBlock /\ Inner
       /\ \A b \in ToSet(partMarks') : b < CutBlocks /\ b + StartBlock \in ToSet(bookmarks)
       /\ Len(bookmarks) < MaxBookmarks =>
            \A b \in ToSet(bookmarks) :
              \/ b \in ToSet(bookmarks') /\ b < StartBlock
              \/ b - CutBlocks \in ToSet(bookmarks') /\ b >= BehindBlock
              \/ b - StartBlock \in ToSet(partMarks') /\ b >= StartBlock /\ b < BehindBlock
              \/ \E c \in {0, StartBlock, BehindBlock} : c - Margin <= b /\ b < c + Margin]_vars

\* The comment in MovieCutterLib.c, 1425: all bookmarks in front of the cut are copied.  Violated, for those
\* in the first Margin blocks, however far the cut is (1434).
FrontCopied ==
  [][PatchInfFiles /\ partMarks' # None /\ Len(bookmarks) < MaxBookmarks =>
       \A b \in ToSet(bookmarks) : b + Margin < StartBlock => b \in ToSet(bookmarks')]_vars
=============================================================================
