----------------------------- MODULE CutPersist -----------------------------
(***************************************************************************)
(* Where a segment list goes when the OSD is closed and comes back from    *)
(* when the recording is played again (MovieCutter.c 3860-4530): the .cut  *)
(* file, and the upper end of the bookmark area, which the firmware keeps  *)
(* in a cache while the recording is played and in the .inf file           *)
(* otherwise.  The lower end of that area holds the user's bookmarks.      *)
(***************************************************************************)
EXTENDS Integers, Sequences, SequencesExt

CONSTANTS
  Recs,             \* recordings
  Media,            \* those that are media files without .inf
  None,             \* nothing
  Versions,         \* contents of recordings
  Contents,         \* those each recording can have
  Total, Size, Nav, \* of each: totalBlock, bytes, time stamps (<<>>: no .nav)
  FirstVersion,     \* the version each recording has in the beginning
  UserLists,        \* the segment lists the user makes, for each version
  UserBookmarks,    \* the bookmark lists the user makes, for each version
  NRSEGMENTMARKER, NRBOOKMARKS,
  MaxBookmarks,     \* 48
  TAPID,            \* marks a segment list in the bookmark area
  FirstTMSC,        \* whether the first receiver is a TMSC one
  MaxReplace        \* bound: how often a recording or the receiver is replaced

WordBits == 32      \* selections in one dword
Words    == 4       \* dwords for selections

Marker   == [block : Nat, time : Nat, selected : BOOLEAN, caption : BOOLEAN]

ASSUME AreaAssumption ==
  /\ NRSEGMENTMARKER \in Nat /\ 2 <= NRSEGMENTMARKER /\ NRSEGMENTMARKER <= Words * WordBits
  /\ MaxBookmarks \in Nat /\ NRBOOKMARKS \in Nat
  /\ MaxBookmarks + NRSEGMENTMARKER + Words + 3 <= NRBOOKMARKS
  /\ FirstTMSC \in BOOLEAN /\ TAPID \in Nat /\ TAPID > NRSEGMENTMARKER
  /\ Media \subseteq Recs /\ Contents \in [Recs -> SUBSET Versions]
  /\ FirstVersion \in [Recs -> Versions] /\ MaxReplace \in Nat
ASSUME UserAssumption ==
  /\ Total \in [Versions -> Nat \ {0}] /\ Size \in [Versions -> Nat]
  /\ UserBookmarks \in [Versions -> SUBSET Seq(Nat)]
  /\ \A v \in Versions : \A s \in UserBookmarks[v] : Len(s) <= MaxBookmarks
  /\ UserLists \in [Versions -> SUBSET Seq(Marker)]
  /\ \A v \in Versions : \A l \in UserLists[v] :
       /\ 2 <= Len(l) /\ Len(l) <= NRSEGMENTMARKER
       /\ l[1].block = 0 /\ l[Len(l)].block = Total[v] /\ ~l[Len(l)].selected
       /\ \A i \in 2 .. Len(l) - 1 : l[i].block < Total[v]
       /\ \A i, j \in DOMAIN l : i < j => l[i].block <= l[j].block
\* Time stamps are in the order of their blocks (NavTimes!Ordered).
ASSUME NavAssumption ==
  /\ Nav \in [Versions -> Seq([block : Nat, time : Nat])]
  /\ \A v \in Versions : \A i, j \in DOMAIN Nav[v] : i <= j => Nav[v][i].block <= Nav[v][j].block
CutFiles == [size : Nat, list : Seq(Marker), ok : BOOLEAN]
ASSUME NoneAssumption == /\ None \notin Recs /\ None \notin CutFiles
                         /\ None \notin [rec : Recs, file : CutFiles]

VARIABLES
  CutFileMode,      \* setting: "both", "cut" or "inf"
  tmsc,             \* GetSystemType() = ST_TMSC
  version, replaced,\* the content of each recording; how much was replaced
  cut, inf,         \* the .cut and .inf file of each recording
  play, cache,      \* the recording that is played and the firmware's copy of its .inf
  osd,              \* "off", "shown" or "hidden"
  list,             \* SegmentMarker[0 .. NrSegmentMarker-1]
  bm,               \* Bookmarks[] and NrBookmarks
  saving,           \* the .cut file that is being written, and of which recording
  left,             \* history: the list the user left behind, and how
  marked,           \* history: where the user ever left markers in each recording
  own               \* history: the bookmarks the user has made

files   == <<cut, inf>>
player  == <<play, cache>>
memory  == <<list, bm>>
outside == <<CutFileMode, tmsc, version, replaced>>
behind  == <<left, marked>>
vars    == <<outside, files, player, osd, memory, saving, behind, own>>

-----------------------------------------------------------------------------
(* The bookmark area.  A dword is seen as a number or as a set of bits.    *)

Slots  == 0 .. NRBOOKMARKS - 1
Num(n) == [num |-> n, bits |-> {}]
Dword  == [num : Nat, bits : SUBSET (0 .. WordBits - 1)]
Area   == [nr : 0 .. NRBOOKMARKS, slot : [Slots -> Dword]]
Blank  == [nr |-> 0, slot |-> [i \in Slots |-> Num(0)]]

\* SaveBookmarks without OverwriteAll, and the edits of the list itself.
Overwrite(a, s, n) == [nr |-> n, slot |-> [i \in Slots |-> IF i < n THEN s[i] ELSE a.slot[i]]]
Bookmarked(a, s)   == Overwrite(a, [i \in Slots |-> IF i < Len(s) THEN Num(s[i + 1]) ELSE Num(0)],
                                Len(s))
UserPart(a)        == [i \in 1 .. a.nr |-> a.slot[i - 1].num]

End == IF tmsc THEN NRBOOKMARKS - 1 ELSE NRBOOKMARKS - 2

Selection(l, w) == {k \in 0 .. WordBits - 1 : /\ w * WordBits + k < Len(l)
                                              /\ l[w * WordBits + k + 1].selected}
\* CutEncodeToBM: what is behind the bookmarks is cleared in any case.
HasRoom(l, a, end) == end - Len(l) - (Words + 1) >= a.nr
Encodable(l, a, end) == CutFileMode # "cut" /\ Len(l) > 2 /\ HasRoom(l, a, end)
Behind(l, end, i) ==
  LET start == end - Len(l) - (Words + 1)
  IN  CASE i \in start .. start + Len(l) - 1     -> Num(l[i - start + 1].block)
        [] i \in end - (Words + 1) .. end - 2    ->
             [num |-> 0, bits |-> Selection(l, i - (end - (Words + 1)))]
        [] i = end - 1                           -> Num(Len(l))
        [] i = end                               -> Num(TAPID)
        [] OTHER                                 -> Num(0)
EncodeOver(l, a, end) ==                                          \* mutant
  [a EXCEPT !.slot = [i \in Slots |-> Behind(l, end, i)]]
EncodeKeeping(l, a, end) ==                                       \* mutant
  IF ~Encodable(l, a, end) THEN a ELSE
  [a EXCEPT !.slot = [i \in Slots |-> IF i < a.nr THEN a.slot[i] ELSE Behind(l, end, i)]]
CutEncodeToBM(l, a, end) ==
  [a EXCEPT !.slot = [i \in Slots |->
     IF i < a.nr THEN a.slot[i]
     ELSE IF Encodable(l, a, end) THEN Behind(l, end, i) ELSE Num(0)]]

\* NavGetBlockTimeStamp, as a search from the start; without time stamps the time
\* follows the position.
Time(v, b) ==
  LET before == {i \in DOMAIN Nav[v] : Nav[v][i].block <= b}
  IN  IF Nav[v] = <<>> THEN b
      ELSE IF before = {} THEN 0 ELSE Nav[v][CHOOSE i \in before : \A j \in before : j <= i].time

HasId(a, end) == a.slot[end].num = TAPID
EndOf(a)      == IF HasId(a, NRBOOKMARKS - 2) THEN NRBOOKMARKS - 2 ELSE NRBOOKMARKS - 1
Encoded(a)    == HasId(a, NRBOOKMARKS - 2) \/ HasId(a, NRBOOKMARKS - 1)
CodedNr(a)    == LET n == a.slot[EndOf(a) - 1].num
                 IN  IF n > NRSEGMENTMARKER THEN NRSEGMENTMARKER ELSE n
CutDecodeFromBM(a, v) ==
  LET start == EndOf(a) - CodedNr(a) - (Words + 1)
      block(i) == a.slot[start + i - 1].num
  IN  [i \in 1 .. CodedNr(a) |->
         [block    |-> block(i),
          time     |-> IF i = 1 /\ block(i) = 0 THEN 0 ELSE Time(v, block(i)),
          selected |-> (i - 1) % WordBits
                         \in a.slot[EndOf(a) - (Words + 1) + ((i - 1) \div WordBits)].bits,
          caption  |-> FALSE]]

-----------------------------------------------------------------------------
(* CutFileLoad.                                                            *)

\* A .cut file is one that was being written when the power failed (ok: whether its
\* header is there), or a complete one.
File(v, l) == [size |-> Size[v], list |-> l, ok |-> TRUE]
Unreadable == [size |-> 0, list |-> <<>>, ok |-> FALSE]

\* The time stamps are read on from where the last marker was found.
StampFor(v, t, from) ==
  LET nav == Nav[v]
      at  == {i \in from .. Len(nav) : nav[i].time >= t \/ i = Len(nav)}
      hit == CHOOSE i \in at : \A j \in at : i <= j
  IN  IF nav[hit].time > t THEN hit - 1 ELSE hit

\* One interior marker of a list of another version: by its time, moved so that the
\* first one kept stands on the first bookmark.
ImportMarker(acc, m, v, a) ==
  LET off == IF acc.kept = <<>> /\ a.nr > 0 THEN Time(v, a.slot[0].num) - m.time ELSE acc.off
      t   == m.time + off
      i   == StampFor(v, t, acc.cur)
      put == [m EXCEPT !.block = Nav[v][i].block, !.time = Nav[v][i].time]
  IN  IF t <= Nav[v][acc.cur].time \/ acc.cur >= Len(Nav[v])
        THEN [acc EXCEPT !.off = off]
      ELSE IF Nav[v][i].block < Total[v]
        THEN [kept |-> Append(acc.kept, put), cur |-> i, off |-> off]
      ELSE [acc EXCEPT !.off = off, !.cur = i]
ImportByBlock(l, v, a) == l                                       \* mutant
Import(l, v, a) ==
  LET step(acc, m) == ImportMarker(acc, m, v, a)
      middle == SubSeq(l, 2, Len(l) - 1)
      result == FoldLeft(step, [kept |-> <<>>, cur |-> 1, off |-> 0], middle)
      last   == l[Len(l)]
  IN  <<[l[1] EXCEPT !.block = 0, !.time = 0]>> \o result.kept
        \o <<[last EXCEPT !.block = IF @ = Total[v] THEN 0 ELSE @]>>

\* CutFileDecodeTxt and the check of the recording's size.
FromFile(f, v, a) ==
  IF f.size = Size[v] THEN f.list
  ELSE IF Len(f.list) > 2 /\ Nav[v] # <<>> THEN Import(f.list, v, a)
  ELSE <<>>

Default(v) == <<[block |-> 0, time |-> 0, selected |-> FALSE, caption |-> FALSE],
                [block |-> Total[v], time |-> Time(v, Total[v]), selected |-> FALSE,
                 caption |-> FALSE]>>

\* The markers between the ends that lie in the recording.
Inside(l, v) ==
  LET step(kept, m) == IF m.block < Total[v] THEN Append(kept, m) ELSE kept
  IN  FoldLeft(step, <<>>, SubSeq(l, 2, Len(l) - 1))
EndAsSaved(l, v) == l                                             \* mutant
EndFitted(l, v) ==
  LET n     == Len(l)
      first == IF l[1].block # 0 THEN [l[1] EXCEPT !.block = 0, !.time = 0] ELSE l[1]
      last  == IF l[n].block # Total[v]
                 THEN [l[n] EXCEPT !.block = Total[v], !.time = Time(v, Total[v])] ELSE l[n]
      inner == Inside(l, v)
  IN  <<[first EXCEPT !.selected = @ /\ inner # <<>>]>> \o inner
        \o <<[last EXCEPT !.selected = FALSE]>>
Normalised(l, v) == IF Len(l) < 2 THEN Default(v) ELSE EndFitted(l, v)

-----------------------------------------------------------------------------
(* What runs.                                                              *)

Init ==
  /\ CutFileMode \in {"both", "cut", "inf"} /\ tmsc = FirstTMSC
  /\ version = FirstVersion /\ replaced = 0
  /\ cut = [r \in Recs |-> None] /\ inf = [r \in Recs |-> Blank]
  /\ play = None /\ cache = Blank /\ osd = "off" /\ list = <<>> /\ bm = Blank
  /\ saving = None /\ left = [r \in Recs |-> None]
  /\ marked = [r \in Recs |-> {}] /\ own = [r \in Recs |-> <<>>]

\* MovieCutter's own steps follow one another unless the power fails.
Ready == saving = None

StartPlayback(r) ==
  /\ Ready /\ play = None
  /\ play' = r /\ cache' = inf[r]
  /\ UNCHANGED <<outside, files, osd, memory, saving, behind, own>>

\* ReadBookmarks; media files have no bookmark area, and bm stays as it is.
NotReadBookmarks == UNCHANGED bm                                  \* mutant
ReadBookmarks == bm' = IF play \in Media THEN [bm EXCEPT !.nr = 0] ELSE cache

\* CutFileLoad and AddDefaultSegmentMarker.
CutFileLoad(f, v) ==
  list' = IF f # None /\ f.ok THEN Normalised(FromFile(f, v, bm'), v)
          ELSE IF CutFileMode # "cut" /\ Encoded(bm') THEN Normalised(CutDecodeFromBM(bm', v), v)
          ELSE Default(v)
Accept ==
  /\ Ready /\ play # None /\ osd = "off"
  /\ ReadBookmarks
  /\ CutFileLoad(cut[play], version[play])
  /\ osd' = "shown"
  /\ UNCHANGED <<outside, files, player, saving, behind, own>>

Edit ==
  /\ Ready /\ osd = "shown" /\ play # None
  /\ list' \in UserLists[version[play]]
  /\ UNCHANGED <<outside, files, player, osd, bm, saving, behind, own>>

\* AddBookmark, DeleteBookmark and the others: SaveBookmarks(Bookmarks, NrBookmarks, FALSE).
EditBookmarks ==
  /\ Ready /\ osd = "shown" /\ play # None /\ play \notin Media
  /\ \E s \in UserBookmarks[version[play]] :
       /\ bm' = Bookmarked(bm, s) /\ cache' = Overwrite(cache, bm'.slot, Len(s))
       /\ own' = [own EXCEPT ![play] = s]
  /\ UNCHANGED <<outside, files, play, osd, list, saving, behind>>

\* The firmware's own bookmark function, while MovieCutter leaves it the keys.
FirmwareBookmark ==
  /\ Ready /\ play # None /\ play \notin Media /\ osd # "shown"
  /\ \E s \in UserBookmarks[version[play]] :
       cache' = Bookmarked(cache, s) /\ own' = [own EXCEPT ![play] = s]
  /\ UNCHANGED <<outside, files, play, osd, memory, saving, behind>>

\* The list is put behind the bookmarks of area a, and with them into the cache.
CutSaveToBM(a) ==
  IF CutFileMode = "cut" \/ play \in Media THEN UNCHANGED <<bm, cache>>
  ELSE /\ bm' = CutEncodeToBM(list, a, End)
       /\ cache' = IF Len(list) > 2 /\ ~HasRoom(list, a, End) THEN cache ELSE bm'

\* CutFileSave: the file is emptied first; a list without segments has none.
Worth == CutFileMode # "inf" /\ (Len(list) > 2 \/ list[1].caption)
DropFile(r) == cut' = [cut EXCEPT ![r] = None] /\ UNCHANGED saving
CutFileSave(r) ==
  IF Worth THEN /\ cut' = [cut EXCEPT ![r] = Unreadable]
                /\ saving' = [rec |-> r, file |-> File(version[r], list)]
           ELSE DropFile(r)
Saved ==
  /\ saving # None
  /\ cut' = [cut EXCEPT ![saving.rec] = saving.file]
  /\ saving' = None
  /\ UNCHANGED <<outside, inf, player, osd, memory, behind, own>>

Inner(l) == {l[i].block : i \in 2 .. Len(l) - 1}
LeftBehind(r, how) ==
  /\ left' = [left EXCEPT ![r] = [version |-> version[r], list |-> list, by |-> how]]
  /\ marked' = [marked EXCEPT ![r] = @ \cup Inner(list)]

\* The OSD is hidden; cutting, stripping and checking save in the same way.
Hide ==
  /\ Ready /\ osd = "shown" /\ play # None
  /\ CutSaveToBM(bm) /\ CutFileSave(play)
  /\ osd' = "hidden" /\ LeftBehind(play, "saved")
  /\ UNCHANGED <<outside, inf, play, list, own>>

Show ==
  /\ Ready /\ osd = "hidden" /\ play # None
  /\ ReadBookmarks /\ osd' = "shown"
  /\ UNCHANGED <<outside, files, player, list, saving, behind, own>>

\* ST_Exit: the bookmarks are read again; what was in memory is gone.
Forget == list' = <<>> /\ bm' = Blank
ExitMC ==
  /\ Ready /\ osd = "shown" /\ play # None
  /\ cache' = IF CutFileMode = "cut" \/ play \in Media THEN cache
               ELSE CutEncodeToBM(list, cache, End)
  /\ CutFileSave(play) /\ LeftBehind(play, "saved")
  /\ osd' = "off" /\ Forget
  /\ UNCHANGED <<outside, inf, play, own>>

\* ST_ExitNoSave from a hidden OSD, and a new start while the playback goes on.
Restart ==
  /\ Ready /\ osd = "hidden"
  /\ osd' = "off" /\ Forget
  /\ UNCHANGED <<outside, files, player, saving, behind, own>>

\* The firmware writes its copy back.  The segment list goes into the .cut file only
\* and is not looked at any more.
PlaybackEnds ==
  /\ Ready /\ play # None
  /\ inf' = [inf EXCEPT ![play] = cache] /\ play' = None /\ cache' = Blank
  /\ IF osd = "shown" THEN CutFileSave(play) /\ LeftBehind(play, "ended")
                      ELSE UNCHANGED <<cut, saving, behind>>
  /\ osd' = "off" /\ list' = <<>> /\ bm' = [bm EXCEPT !.nr = 0]
  /\ UNCHANGED <<outside, own>>

\* The power fails: the firmware's copy and everything in memory are lost, and of a
\* file that is being written any part may be there.
SwitchOff ==
  /\ play # None \/ saving # None
  /\ IF saving = None THEN UNCHANGED cut ELSE
     \E part \in {Unreadable} \cup {[saving.file EXCEPT !.list = SubSeq(@, 1, n)] :
                                       n \in 0 .. Len(saving.file.list)} :
       cut' = [cut EXCEPT ![saving.rec] = part]
  /\ left' = [r \in Recs |->
                IF (saving # None /\ r = saving.rec) \/ (r = play /\ CutFileMode # "cut" /\ cut[r] = None) THEN None
                ELSE left[r]]
  /\ own' = IF play = None THEN own ELSE [own EXCEPT ![play] = UserPart(inf[play])]
  /\ play' = None /\ cache' = Blank /\ osd' = "off" /\ saving' = None
  /\ Forget
  /\ UNCHANGED <<outside, inf, marked>>

\* Another program changes the recording; the disk comes from another receiver.
Change ==
  /\ Ready /\ play = None /\ replaced < MaxReplace /\ replaced' = replaced + 1
  /\ UNCHANGED <<CutFileMode, files, player, osd, memory, saving, behind, own>>
Replace(r) ==
  /\ Change /\ UNCHANGED tmsc
  /\ \E v \in Contents[r] \ {version[r]} : version' = [version EXCEPT ![r] = v]
OtherReceiver == Change /\ tmsc' = ~tmsc /\ UNCHANGED version

Next ==
  \/ \E r \in Recs : StartPlayback(r) \/ Replace(r)
  \/ Accept \/ Edit \/ EditBookmarks \/ FirmwareBookmark
  \/ Hide \/ Show \/ ExitMC \/ Restart \/ Saved
  \/ PlaybackEnds \/ SwitchOff \/ OtherReceiver

Spec == Init /\ [][Next]_vars

-----------------------------------------------------------------------------
(* Properties.                                                             *)

TypeOK ==
  /\ CutFileMode \in {"both", "cut", "inf"} /\ tmsc \in BOOLEAN
  /\ version \in [Recs -> Versions] /\ replaced \in 0 .. MaxReplace
  /\ inf \in [Recs -> Area] /\ cache \in Area /\ bm \in Area
  /\ \A r \in Recs : cut[r] # None => cut[r].list \in Seq(Marker)
  /\ play \in Recs \cup {None}
  /\ saving # None => saving.rec \in Recs /\ saving.file.list \in Seq(Marker)
  /\ osd \in {"off", "shown", "hidden"}
  /\ list \in Seq(Marker) /\ (osd = "shown" => list # <<>>)

\* What CutFileLoad hands to the editing core is a proper list, whatever it is made
\* from: an own file, one of another version, what is left of a file after a power
\* failure, or the bookmark area.
ProperList ==
  /\ TypeOK
  /\ osd = "shown" =>
       /\ 2 <= Len(list) /\ Len(list) <= NRSEGMENTMARKER
       /\ list[1].block = 0 /\ list[Len(list)].block = Total[version[play]]
       /\ ~list[Len(list)].selected
       /\ \A i, j \in DOMAIN list : i < j => list[i].block <= list[j].block

\* The segments share the area with the user's bookmarks: saving and loading them
\* never changes a bookmark, also if the firmware has set it meanwhile.
BookmarksKept ==
  /\ \A r \in Recs \ Media : r # play => UserPart(inf[r]) = own[r]
  /\ play # None /\ play \notin Media => UserPart(cache) = own[play]

\* "Speicherung der Schnittmarker" (README.md, CutFileMode): a list that was left by
\* hiding the OSD or by ending MovieCutter comes back, in each of the three modes,
\* after other recordings, restarts and power failures.
\* A recording of one segment has no selection, and the end marker no caption.
SameList(l, k) ==
  /\ Len(l) = Len(k)
  /\ \A i \in DOMAIN l : /\ l[i].block = k[i].block
                         /\ Len(l) > 2 => l[i].selected = k[i].selected
                         /\ CutFileMode # "inf" /\ i < Len(l) => l[i].caption = k[i].caption
LeftUnchanged == left[play] # None /\ left[play].version = version[play]
ListComesBack ==
  [][Accept /\ LeftUnchanged /\ (left[play].by # "ended" \/ CutFileMode = "cut")
       => SameList(list', left[play].list)]_vars
\* The same for a list the user was editing when the playback ended.
EndedListComesBack ==
  [][Accept /\ LeftUnchanged /\ left[play].by = "ended" => SameList(list', left[play].list)]_vars

\* "sonst schaue in der inf" (CutFileLoad): the list comes from the .cut file or from
\* the bookmark area of the recording that is played.  Of a recording with .inf, and
\* apart from a file of another version, whose markers move, every marker between the
\* ends stands where the user left one in this recording: none is another recording's,
\* and none is read out of bookmarks, an area written for another receiver or a file cut
\* short by a power failure.
OtherVersion(f, v) == f # None /\ f.size # Size[v] /\ Len(f.list) > 2 /\ Nav[v] # <<>>
OwnList ==
  [][Accept /\ play \notin Media /\ ~OtherVersion(cut[play], version[play])
       => Inner(list') \subseteq marked[play]]_vars
\* The same for media files, for which Bookmarks[] is not read (MovieCutter.c 1212).
MediaOwnList ==
  [][Accept /\ play \in Media /\ ~OtherVersion(cut[play], version[play])
       => Inner(list') \subseteq marked[play]]_vars

\* "bei nicht übereinstimmender .cut-Datei werden die TimeStamps importiert und die
\* zugehörigen Blocknummern neu berechnet" (history.txt): each marker goes to the last
\* time stamp not behind its time, as a search from the start finds it, none within the
\* recording is lost, and with a bookmark the first one goes there.
Middle(l) == SubSeq(l, 2, Len(l) - 1)
Fits(m, n, v) ==
  \E i \in DOMAIN Nav[v] :
    /\ Nav[v][i].time <= m.time /\ (i < Len(Nav[v]) => m.time < Nav[v][i + 1].time)
    /\ n.block = Nav[v][i].block /\ n.time = Nav[v][i].time /\ n.selected = m.selected
Covers(m, v) == /\ Nav[v][1].time < m.time /\ m.time < Nav[v][Len(Nav[v])].time
                /\ \A i \in DOMAIN Nav[v] : Nav[v][i].time <= m.time => Nav[v][i].block < Total[v]
FitsInto(f, v) ==
  OtherVersion(f, v) =>
    IF bm'.nr = 0
      THEN /\ \A n \in ToSet(Middle(list')) : \E m \in ToSet(Middle(f.list)) : Fits(m, n, v)
           /\ \A m \in ToSet(Middle(f.list)) :
                Covers(m, v) => \E n \in ToSet(Middle(list')) : Fits(m, n, v)
      ELSE Len(list') > 2 => list'[2].time = Time(v, bm'.slot[0].num)
ImportedByTime == [][Accept => FitsInto(cut[play], version[play])]_vars
=============================================================================
