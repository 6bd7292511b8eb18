----------------------------- MODULE CutProcess -----------------------------
(***************************************************************************)
(* MovieCutterProcess (MovieCutter.c) with MovieCutter, FileCut and        *)
(* RecTruncate (MovieCutterLib.c): segments are cut out of the recording   *)
(* one by one, from the last to the first, by the firmware, which hits     *)
(* the requested positions only approximately; the end of a long           *)
(* recording is cut by saving the front part to a temporary file and       *)
(* swapping names.  Every call can fail and the receiver can be switched   *)
(* off between any two steps.                                              *)
(*                                                                         *)
(* A file is the set of blocks of the original recording it holds; blocks  *)
(* keep their order, so a position in a file is the number of its blocks   *)
(* before it.  {} is a file that does not exist.                           *)
(***************************************************************************)
EXTENDS Integers, FiniteSets, Sequences, SequencesExt

CONSTANTS
  NrBlocks,          \* blocks of the recording at first
  Radius,            \* CUTPOINTSEARCHRADIUS in blocks (11)
  Limit,             \* blocks of 4 GB (475949): the most the firmware cuts at once
  DWord,             \* 2^32: block arithmetic wraps here
  ForceSpecialEnd, DisableSpecialEnd,   \* settings
  NrCuts,            \* bound: numbers of " (Cut-n)" file names
  Taken,             \* numbers of cut files that exist already
  MarkerLists(_),    \* marker lists the user can have made, by size of the recording
  Lag,               \* bound: segments between ActiveSegment and the position
  SplitGap,          \* bound: least distance of a split to another marker
  NameOverwritten,   \* the call for the .srt name: {TRUE} as written, {FALSE} with
                     \* its arguments in the order of the other calls, or both
  Faults,            \* what can go wrong
  MaxRuns            \* bound: jobs one after the other

ASSUME CutConstants ==
  /\ NrBlocks \in Nat \ {0} /\ Radius \in Nat /\ NrCuts \in Nat \ {0}
  /\ Limit \in Nat /\ DWord \in Nat /\ MaxRuns \in Nat
  /\ Taken \subseteq 1 .. NrCuts
  /\ NameOverwritten \subseteq BOOLEAN /\ NameOverwritten # {}
  /\ DWord > NrBlocks + Limit + Radius
  /\ Faults \subseteq {"firmware", "positions", "truncate", "rename", "size",
                       "restart", "off"}
ASSUME ListsAssumption ==
  \A size \in 1 .. NrBlocks : \A l \in MarkerLists(size) :
    l \in Seq([block : 0 .. size, sel : BOOLEAN]) /\ 2 <= Len(l)

VARIABLES
  rec, temp, cuts,   \* the files: playback, "_temp" and " (Cut-n)"
  named,             \* PlaybackName still names the recording
  patched,           \* the recording holds sync bytes that were patched away
  saved, partSaved,  \* the .cut file of the recording and of a split's second part
  markers,           \* SegmentMarker
  total,             \* PlayInfo.totalBlock
  pc,                \* the step that comes next
  job,               \* KeepCut, SplitMovie, the loop and its counter
  cut,               \* the segment at work: points, names, results
  asked,             \* history: what the user asked for
  runs               \* jobs started

files == <<rec, temp, cuts>>
disk  == <<files, named, patched, saved, partSaved>>
vars  == <<disk, markers, total, pc, job, cut, asked, runs>>

Ids   == 0 .. NrBlocks - 1
Names == 1 .. NrCuts
NoList == [size |-> DWord, list |-> <<>>]   \* there is no .cut file

Size(F)       == Cardinality(F)
Pos(F, x)     == Cardinality({y \in F : y < x})
Part(F, s, e) == {x \in F : s <= Pos(F, x) /\ Pos(F, x) < e}
Minus(a, b)   == (a - b) % DWord

\* A marker with its block; `at' is the block of the original it was set on.
Marker(b, F, sel) ==
  [block |-> b, sel |-> sel,
   at |-> IF b < Size(F) THEN CHOOSE x \in F : Pos(F, x) = b ELSE NrBlocks]

Nr    == Len(markers)
At(i) == markers[i + 1]                     \* SegmentMarker[i]
Segments == 0 .. Nr - 2
Block(i) == At(i).block

\* DeleteSegmentMarker: the last marker is never selected.
Without(ms, i) ==
  IF 0 < i /\ i < Len(ms) - 1
    THEN LET rest == RemoveAt(ms, i + 1) IN [rest EXCEPT ![Len(rest)].sel = FALSE]
    ELSE ms

Present   == rec \cup temp \cup UNION {cuts[n] : n \in Names}
Inner(ms) == {ms[k].at : k \in 2 .. Len(ms) - 1}

Init ==
  /\ rec = Ids /\ temp = {} /\ named = TRUE /\ patched = FALSE
  /\ cuts = [n \in Names |-> IF n \in Taken THEN {NrBlocks + n} ELSE {}]
  /\ saved = NoList /\ partSaved = NoList
  /\ \E l \in MarkerLists(NrBlocks) :
       markers = [k \in DOMAIN l |-> Marker(l[k].block, rec, l[k].sel)]
  /\ total = NrBlocks
  /\ pc = "edit" /\ runs = 0
  /\ job = [keep |-> FALSE, split |-> FALSE, multi |-> FALSE, left |-> 0, i |-> 0, active |-> 0]
  /\ cut = [w |-> 0, start |-> 0, behind |-> 0, special |-> FALSE, trunc |-> FALSE,
            name |-> 1, exact |-> FALSE, ok |-> FALSE]
  /\ asked = [segs |-> {}, rec |-> Ids, files |-> Ids, marks |-> {}, keep |-> TRUE,
              split |-> FALSE, made |-> {}, result |-> "none", drift |-> 0]

-----------------------------------------------------------------------------
(* Starting a job: the entries of the action menu.                          *)

\* CutFileSave2: the list with the present size, or no file for two markers.
\* A name that is not the recording's leads nowhere.
CutFileSave ==
  saved' = IF ~named THEN saved
           ELSE IF Nr' > 2 THEN [size |-> Size(rec), list |-> markers'] ELSE NoList

\* MovieCutterProcess up to its loop, for the list ms with `active' as ActiveSegment.
Process(keep, split, ms, active) ==
  LET selected == {i \in 0 .. Len(ms) - 2 : ms[i + 1].sel}
      multi    == ~split /\ selected # {}
  IN  /\ job' = [keep |-> keep, split |-> split, multi |-> multi,
                 left |-> IF multi THEN Cardinality(selected) ELSE 1,
                 i |-> Len(ms) - 2, active |-> active]
      /\ markers' = ms
      /\ CutFileSave
      /\ pc' = "next"
      /\ runs' = runs + 1
      /\ UNCHANGED <<files, named, patched, partSaved, total, cut>>

Asked(segs, keep, split) ==
  asked' = [segs |-> segs, rec |-> rec, files |-> Present, marks |-> Inner(markers),
            keep |-> keep, split |-> split, made |-> {}, result |-> "none",
            drift |-> Cardinality(segs) * Radius * (IF "positions" \in Faults THEN 2 ELSE 1)]

\* The blocks of segment i.
SegmentIds(i) == Part(rec, Block(i), Block(i + 1))

\* MovieCutterSaveSegments, MovieCutterDeleteSegments: the selected segments,
\* or the active one if none is selected.  The loop stops at the last segment
\* that is left, so a selection of all stands for all but the first.
SaveOrDelete ==
  /\ pc = "edit" /\ runs < MaxRuns /\ Nr > 2
  /\ \E keep \in BOOLEAN, active \in Segments :
       LET selected == {i \in Segments : At(i).sel}
           chosen   == IF selected = {} THEN {active}
                       ELSE IF selected = Segments THEN selected \ {0} ELSE selected
       IN  /\ Process(keep, FALSE, markers, active)
           /\ Asked({SegmentIds(i) : i \in chosen}, keep, FALSE)

\* MovieCutterSplitMovie: a marker is set at the current block (AddSegmentMarker
\* without the distance check, which corrects ActiveSegment) and ActiveSegment is
\* taken for its index.  SetCurrentSegment does not follow the playback for two
\* seconds after a jump and while the menu is open: the two can differ by Lag.
Split ==
  /\ pc = "edit" /\ runs < MaxRuns
  /\ \E b \in 1 .. total - 1, i \in 1 .. Nr - 1, active \in Segments :
       /\ Block(i - 1) < b /\ b < Block(i)
       /\ \A k \in 0 .. Nr - 1 : Block(k) - b >= SplitGap \/ b - Block(k) >= SplitGap
       /\ active - (i - 1) \in -Lag .. Lag
       /\ Process(TRUE, TRUE, InsertAt(markers, i + 1, Marker(b, rec, FALSE)),
                  IF active + 1 >= i THEN active + 1 ELSE active)
       /\ Asked({Part(rec, b, total)}, TRUE, TRUE)

-----------------------------------------------------------------------------
(* The loop over the segments: points and names.                            *)

MayFail(f) == f \in Faults

\* GetNextFreeCutName: the free number with `leave' free ones before it.
AllNames  == Names                                            \* mutant
FreeNames == {n \in Names : cuts[n] = {}}
CutName(leave) ==
  LET n == {m \in FreeNames : Cardinality({k \in FreeNames : k < m}) = leave}
  IN  IF n = {} THEN 0 ELSE CHOOSE m \in n : TRUE

\* The condition for saving the front instead of the end.
SpecialEnd(start, behind) ==
  /\ ~DisableSpecialEnd /\ job.keep
  /\ \/ ForceSpecialEnd
     \/ start + Radius <= Limit /\ start + Limit - Radius < behind

\* MovieCutter: an end beyond the last Radius blocks is drawn back to them.
Clamped(behind) ==
  LET max == IF Size(rec) >= Radius THEN Size(rec) - Radius ELSE DWord - 1
  IN  IF behind > max THEN max ELSE behind

\* The loop counter goes down, selected or not.
SameSegment == job.i                                          \* mutant
Onward      == job.i - 1

\* An unselected segment is passed over.
Skip ==
  /\ pc = "next" /\ job.multi /\ ~At(job.i).sel
  /\ IF job.i = 0 THEN pc' = "save" /\ UNCHANGED job
                  ELSE job' = [job EXCEPT !.i = Onward] /\ UNCHANGED pc
  /\ UNCHANGED <<disk, markers, total, cut, asked, runs>>

\* The points and the file names of the next segment; an old "_temp" file goes.
Choose ==
  /\ pc = "next" /\ (job.multi => At(job.i).sel)
  /\ LET w       == IF job.multi THEN job.i ELSE job.active
         start   == Block(w)
         end     == Block(IF job.split THEN Nr - 1 ELSE w + 1)
         isEnd   == job.split \/ w = Nr - 2
         special == isEnd /\ SpecialEnd(start, end)
         trunc   == isEnd /\ ~special
     IN  /\ CutName(job.left - 1) # 0
         /\ cut' = [w |-> w, start |-> IF special THEN 0 ELSE start,
                    behind |-> Clamped(IF special THEN start
                                       ELSE IF trunc THEN DWord - 1 ELSE end),
                    special |-> special, trunc |-> trunc, name |-> CutName(job.left - 1),
                    exact |-> FALSE, ok |-> FALSE]
         /\ temp' = IF special THEN {} ELSE temp
         /\ pc' = IF trunc /\ ~job.keep THEN "truncate" ELSE "cut"
  /\ UNCHANGED <<rec, cuts, named, patched, saved, partSaved, markers, total, job, asked, runs>>

-----------------------------------------------------------------------------
(* MovieCutter: the cut.                                                    *)

\* PatchRecFile: sync bytes around a cut point are made unreadable.
Patch ==
  /\ pc = "cut" /\ ~patched
  /\ patched' = TRUE
  /\ UNCHANGED <<files, named, saved, partSaved, markers, total, pc, job, cut, asked, runs>>

\* UnpatchRecFile runs only if the real points were found.
NeverUnpatched(found) == patched                              \* mutant
StillPatched(found)   == patched /\ ~found

\* FileCut: the firmware moves a range near the requested one to the target,
\* which is deleted before.  If the real points are found they are handed back
\* and the sync bytes restored.
Cut ==
  /\ pc = "cut" /\ cut.start < cut.behind
  /\ \E s \in IF cut.start = 0 THEN {0} ELSE cut.start - Radius .. cut.start + Radius,
        e \in cut.behind - Radius .. cut.behind + Radius, found \in BOOLEAN :
       LET part == Part(rec, s, e)
       IN  /\ 0 <= s /\ part # {} /\ e <= Size(rec)
           /\ ~found => MayFail("positions")
           /\ rec' = rec \ part
           /\ temp' = IF cut.special THEN part ELSE temp
           /\ cuts' = IF cut.special THEN cuts ELSE [cuts EXCEPT ![cut.name] = part]
           /\ cut' = [cut EXCEPT !.exact = found,
                                 !.start = IF found THEN s ELSE @,
                                 !.behind = IF found THEN e ELSE @,
                                 !.ok = TRUE]
           /\ patched' = StillPatched(found)
           /\ asked' = IF cut.special THEN asked ELSE [asked EXCEPT !.made = @ \cup {cut.name}]
  /\ pc' = IF cut.trunc /\ cut'.exact THEN "truncate" ELSE "tidy"
  /\ UNCHANGED <<named, saved, partSaved, markers, total, job, runs>>

\* The firmware cannot cut: E0002, E0003.  Also if the range is empty.
CutFails ==
  /\ pc = "cut"
  /\ MayFail("firmware") \/ cut.behind <= cut.start
  /\ pc' = "swap"
  /\ UNCHANGED <<disk, markers, total, job, cut, asked, runs>>

\* Where RecTruncate cuts off the end; without keeping it one block stays.
TruncateBehind == cut.behind                                  \* mutant
TruncateAt     == IF job.keep THEN cut.start ELSE cut.start + 1

Truncate ==
  /\ pc = "truncate"
  /\ LET start == TruncateAt
     IN  /\ rec' = Part(rec, 0, start)
         /\ cut' = [cut EXCEPT !.start = start, !.ok = TRUE, !.exact = TRUE,
                               !.behind = IF job.keep THEN @ ELSE Size(rec)]
  /\ pc' = "tidy"
  /\ UNCHANGED <<temp, cuts, named, patched, saved, partSaved, markers, total, job, asked, runs>>

\* E0004: an error unless the end is kept.
TruncateFails ==
  /\ pc = "truncate" /\ MayFail("truncate")
  /\ pc' = IF job.keep THEN "tidy" ELSE "swap"
  /\ UNCHANGED <<disk, markers, total, job, cut, asked, runs>>

\* Whether the cut file stays (it has the same meaning for the special end).
KeptIfExact == job.keep /\ cut.exact                          \* mutant
Kept        == job.keep

\* The files beside the recording.  As written the call that asks for the name
\* of the .srt file stores a path in SourceFileName, which is PlaybackName.  A
\* segment that is not kept is deleted last.
Tidy ==
  /\ pc = "tidy"
  /\ \E overwritten \in NameOverwritten : named' = (named /\ ~overwritten)
  /\ cuts' = IF Kept THEN cuts ELSE [cuts EXCEPT ![cut.name] = {}]
  /\ pc' = "swap"
  /\ UNCHANGED <<rec, temp, patched, saved, partSaved, markers, total, job, cut, asked, runs>>

-----------------------------------------------------------------------------
(* Swapping the files and restarting the playback.                          *)

\* The special end: the recording, now the end, gets the name of the cut file.
\* An HDD_Rename2 that fails is not noticed.
Swap ==
  /\ pc = "swap"
  /\ \/ /\ cut.special /\ cut.ok /\ temp # {} /\ named
        /\ cuts' = [cuts EXCEPT ![cut.name] = rec] /\ rec' = {}
        /\ asked' = [asked EXCEPT !.made = @ \cup {cut.name}]
        /\ pc' = "swapback"
     \/ /\ cut.special /\ cut.ok /\ temp # {}
        /\ ~named \/ MayFail("rename")
        /\ pc' = "swapback"
        /\ UNCHANGED <<rec, cuts, asked>>
     \/ /\ cut.special /\ cut.ok => temp = {} \/ MayFail("size")
        /\ pc' = "restart"
        /\ UNCHANGED <<rec, cuts, asked>>
  /\ UNCHANGED <<temp, named, patched, saved, partSaved, markers, total, job, cut, runs>>

\* Mutant: the second rename is missing.
NoSwapBack ==
  /\ pc = "swapback" /\ pc' = "restart"
  /\ UNCHANGED <<disk, markers, total, job, cut, asked, runs>>

\* The temporary file becomes the recording, if its name is free.
SwapBack ==
  /\ pc = "swapback"
  /\ \/ rec = {} /\ named /\ rec' = temp /\ temp' = {}
     \/ (rec # {} \/ ~named \/ MayFail("rename")) /\ UNCHANGED <<rec, temp>>
  /\ pc' = "restart"
  /\ UNCHANGED <<cuts, named, patched, saved, partSaved, markers, total, job, cut, asked, runs>>

\* The playback is restarted on a recording that is found and not empty; it may
\* not report its length in time.  Then, or after RC_Error, the loop ends.
Restart ==
  /\ pc = "restart"
  /\ \E size \in {Size(rec)} \cup (IF MayFail("size") THEN {0} ELSE {}),
        reported \in {Size(rec)} \cup (IF MayFail("restart") THEN {0} ELSE {}) :
       LET there == named /\ size > 0
       IN  /\ total' = IF there THEN reported ELSE total
           /\ IF cut.ok /\ there /\ total' > 0
                THEN pc' = "adjust" /\ UNCHANGED asked
                ELSE pc' = "save" /\ asked' = [asked EXCEPT !.result = "failed"]
  /\ UNCHANGED <<disk, markers, job, cut, runs>>

-----------------------------------------------------------------------------
(* The remaining markers.                                                   *)

\* The list without the segment; the first marker stays and loses the second.
Removed ==
  LET unselected == [markers EXCEPT ![cut.w + 1].sel = FALSE]
  IN  IF cut.w > 0 THEN Without(unselected, cut.w) ELSE Without(unselected, 1)

\* Mutants: the last marker is left out; the distance to the start is used.
ShiftedButLast(ms, start, behind) ==
  [k \in DOMAIN ms |->
     IF k > 1 /\ k - 1 = cut.w THEN [ms[k] EXCEPT !.block = start]
     ELSE IF 1 < k /\ k < Len(ms) /\ ms[k].block + Radius >= behind
       THEN [ms[k] EXCEPT !.block = Minus(@, behind - start)]
     ELSE ms[k]]
ShiftedByStart(ms, start, behind) ==
  [k \in DOMAIN ms |->
     IF k > 1 /\ ms[k].block + Radius >= behind
       THEN [ms[k] EXCEPT !.block = Minus(@, start)] ELSE ms[k]]

\* A marker behind the cut moves by its length; the one at the cut to its start.
Shifted(ms, start, behind) ==
  [k \in DOMAIN ms |->
     IF k > 1 /\ k - 1 = cut.w THEN [ms[k] EXCEPT !.block = start]
     ELSE IF k > 1 /\ ms[k].block + Radius >= behind
       THEN [ms[k] EXCEPT !.block = Minus(@, behind - start)]
     ELSE ms[k]]

\* A split: markers from the cut on go to the second part's list.
Moves(ms, start) == {k \in 2 .. Len(ms) : ms[k].block + Radius >= start}
SecondPart(ms, start) ==
  LET moved == SelectSeq([k \in DOMAIN ms |-> k], LAMBDA k : k \in Moves(ms, start))
  IN  <<[ms[cut.w] EXCEPT !.block = 0]>>
      \o [k \in DOMAIN moved |-> [ms[moved[k]] EXCEPT !.block = Minus(@, start)]]
FirstPart(ms, start) ==
  LET kept == SelectSeq([k \in DOMAIN ms |-> k],
                        LAMBDA k : k \notin Moves(ms, start) \/ k = Len(ms))
  IN  [k \in DOMAIN kept |->
         IF kept[k] = Len(ms) /\ Len(ms) \in Moves(ms, start)
           THEN [ms[Len(ms)] EXCEPT !.block = start, !.sel = FALSE] ELSE ms[kept[k]]]

\* Only a marker that became the last by this cut is set to the reported length.
LastCorrected(ms) ==
  IF job.split \/ cut.w = Len(ms) - 1
    THEN [ms EXCEPT ![Len(ms)].block = total] ELSE ms

AdjustMarkers ==
  LET start == IF cut.special THEN cut.behind ELSE cut.start
      ms    == Removed
  IN  markers' = LastCorrected(IF job.split THEN FirstPart(ms, start)
                                            ELSE Shifted(ms, start, cut.behind))

\* The list of the second part is saved; with two markers CutFileSave2 deletes
\* the .cut file of the playback instead.
SavePart ==
  LET start == IF cut.special THEN cut.behind ELSE cut.start
      list  == SecondPart(Removed, start)
  IN  IF ~job.split THEN UNCHANGED <<saved, partSaved>>
      ELSE IF Len(list) > 2
        THEN partSaved' = [size |-> Size(cuts[cut.name]), list |-> list] /\ UNCHANGED saved
        ELSE saved' = NoList /\ UNCHANGED partSaved

\* The segment is done.  A temporary file that is still there, or a position
\* that is not reported, ends the loop.
Adjust ==
  /\ pc = "adjust"
  /\ AdjustMarkers
  /\ SavePart
  /\ job' = [job EXCEPT !.left = @ - 1, !.i = Onward]
  /\ \/ /\ (cut.special /\ temp # {}) \/ MayFail("restart")
        /\ asked' = [asked EXCEPT !.result = "failed"] /\ pc' = "save"
     \/ /\ ~(cut.special /\ temp # {})
        /\ UNCHANGED asked
        /\ pc' = IF job'.left <= 0 \/ Nr' <= 2 \/ job.i = 0 THEN "save" ELSE "next"
  /\ UNCHANGED <<files, named, patched, total, cut, runs>>

\* CutFileSave behind the loop; the playback is to be started anew.
Save ==
  /\ pc = "save"
  /\ UNCHANGED markers
  /\ CutFileSave
  /\ asked' = [asked EXCEPT !.result = IF @ = "failed" THEN @ ELSE "done"]
  /\ pc' = "ended"
  /\ UNCHANGED <<files, named, patched, partSaved, total, job, cut, runs>>

\* The receiver is switched off within a job.
SwitchOff ==
  /\ MayFail("off") /\ pc \notin {"edit", "ended"}
  /\ asked' = [asked EXCEPT !.result = "off"]
  /\ pc' = "ended"
  /\ UNCHANGED <<disk, markers, total, job, cut, runs>>

\* The recording is played again and the user sets his markers.
Load ==
  /\ pc = "ended" /\ runs < MaxRuns /\ Size(rec) > 1
  /\ named' = TRUE
  /\ total' = Size(rec)
  /\ \E l \in MarkerLists(Size(rec)) :
       markers' = [k \in DOMAIN l |-> Marker(l[k].block, rec, l[k].sel)]
  /\ pc' = "edit"
  /\ UNCHANGED <<files, patched, saved, partSaved, job, cut, asked, runs>>

Step == \/ Skip \/ Choose \/ Patch \/ Cut \/ CutFails \/ Truncate \/ TruncateFails
        \/ Tidy \/ Swap \/ SwapBack \/ Restart \/ Adjust \/ Save

Next == SaveOrDelete \/ Split \/ Step \/ SwitchOff \/ Load

\* The job is sequential code: once started it goes on.
Spec == Init /\ [][Next]_vars /\ WF_vars(Step)

-----------------------------------------------------------------------------
(* Properties.                                                              *)

\* Every variable has its type; the loop takes segments that exist.
TypeOK ==
  /\ rec \subseteq Ids /\ temp \subseteq Ids
  /\ \A n \in Names : cuts[n] \subseteq Ids \/ n \in Taken
  /\ named \in BOOLEAN /\ patched \in BOOLEAN
  /\ \A k \in DOMAIN markers : markers[k].block \in 0 .. DWord - 1
  /\ pc = "next" => (IF job.multi THEN job.i ELSE job.active) \in Segments
  /\ total \in 0 .. NrBlocks /\ runs \in 0 .. MaxRuns
  /\ pc \in {"edit", "next", "cut", "truncate", "tidy", "swap", "swapback", "restart",
             "adjust", "save", "ended"}

Done == pc = "ended" /\ asked.result = "done"

Distance(a, b) == IF a < b THEN b - a ELSE a - b
\* The blocks of the asked recording up to d away from ids; those deep inside ids.
Near(ids, d) == {x \in asked.rec :
                   \E y \in ids : Distance(Pos(asked.rec, x), Pos(asked.rec, y)) <= d}
Deep(ids)    == ids \ Near(asked.rec \ ids, asked.drift)
Lost         == asked.files \ Present

\* Whatever fails and whenever the receiver is switched off: a block that is in
\* no file any more belongs to a segment the user wanted to delete, give or take
\* the firmware's precision.  Only saving up to the end gives up a few blocks,
\* the tail that MovieCutter does not have the firmware cut.
NothingLost ==
  IF ~asked.keep THEN Lost \subseteq Near(UNION asked.segs, asked.drift)
  ELSE IF \E S \in asked.segs : Size(asked.rec) - 1 \in {Pos(asked.rec, x) : x \in S}
    THEN Cardinality(Lost) <= 2 * Radius * Cardinality(asked.segs)
  ELSE Lost = {}

\* "Nummerierung der geschnittenen Teile nun aufsteigend" (history.txt): although
\* the segments are cut from the last to the first, the numbers of the cut files
\* follow the recording, also where some numbers are taken.
CutsInOrder ==
  \A m, n \in asked.made :
    m < n /\ cuts[n] # {} => \E x \in cuts[m] : \A y \in cuts[n] : x < y

\* A job that reports success has taken out what was asked and nothing else, and
\* what was to be saved is in the cut files, numbered in the order of the recording.
DoneAsAsked ==
  /\ TypeOK /\ CutsInOrder
  /\ Done => /\ Deep(asked.rec \ UNION asked.segs) \subseteq rec
             /\ \A S \in asked.segs :
                  /\ Deep(S) \cap rec = {}
                  /\ asked.keep => \E n \in asked.made : Deep(S) \ Lost \subseteq cuts[n]

StrictlySorted(ms) == \A j, k \in DOMAIN ms : j < k => ms[j].block < ms[k].block
\* Each inner marker still stands where it was set, give or take the precision.
Follows(ms, F) ==
  \A k \in 2 .. Len(ms) - 1 : Distance(Pos(F, ms[k].at), ms[k].block) <= asked.drift

\* After a job the list fits the new recording: sorted, its ends at both ends of
\* the file, each marker before the content it was set on.  "Bookmarks and segment
\* markers are kept" (Readme_en.txt): after a split each marker is in the list of
\* one of the parts, and both lists are in order.
SplitKeepsMarkers ==
  asked.split => /\ StrictlySorted(partSaved.list)
                 /\ Inner(markers) \cup Inner(partSaved.list) = asked.marks
MarkersFollow ==
  Done => /\ StrictlySorted(markers)
          /\ Block(0) = 0 /\ Block(Nr - 1) = Size(rec)
          /\ Follows(markers, rec)
          /\ SplitKeepsMarkers

\* "Check, if size of rec-File has been changed" (CutFileLoad): at any moment a
\* .cut file with the recording's size holds markers that fit the recording.
SavedListFits ==
  saved # NoList /\ saved.size = Size(rec) => Follows(saved.list, rec)

\* "Restores the patched Sync-Bytes in the rec-File" (UnpatchRecFile): a job that
\* reports success leaves no patched byte behind.
SyncBytesRestored == Done => ~patched

\* "Bail out if the cut failed" (MovieCutterProcess): where nothing goes wrong no
\* job is reported as failed.
FailsOnlyOnFaults == Faults = {} => asked.result # "failed"

\* Every job comes to its end, whatever fails on the way.
Terminates == pc \notin {"edit", "ended"} ~> pc = "ended"

\* What the files amount to: a temporary file is the recording from the moment
\* it exists, and what is left under the old name is the piece cut off.
Recorded == INSTANCE Recording WITH
  All     <- Ids,
  Slack   <- 2 * Radius,
  content <- IF temp # {} THEN temp ELSE rec,
  pieces  <- ({cuts[n] : n \in Names \ Taken} \cup (IF temp # {} THEN {rec} ELSE {})) \ {{}},
  mode    <- IF runs = 0 THEN "none" ELSE IF asked.keep THEN "keep" ELSE "delete"

\* Cutting, swapping and renaming are together one clean cut of the recording.
ImplementsRecording == Recorded!Spec
=============================================================================
