--------------------------- MODULE NavTimesProofs ---------------------------
(***************************************************************************)
(* Proofs about NavTimes, for every .nav file and every set of faults: the *)
(* .nav file a recording came with is kept, time stamps stay in the order  *)
(* of their blocks whatever is repaired or cut, the cursor finds what a    *)
(* search from the beginning would find, a repair closes every gap, and a  *)
(* cut divides the bookmarks.                                              *)
(***************************************************************************)
EXTENDS NavTimes, ListLemmas

-----------------------------------------------------------------------------
(* The original.                                                           *)

\* While a repair is under way the original is under its second name; a cut forgets it
\* before it touches a file.
Where ==
  /\ OriginalKept
  /\ pc \in {"copy", "delete", "restore"} /\ orig # None => bak = orig
  /\ pc = "open" /\ orig # None /\ bak # None => bak = orig
  /\ pc = "divide" => orig = None

LEMMA WhereInit == Init => Where
BY DEF Init, Where, OriginalKept

LEMMA WhereStep == Where /\ [Next]_vars => Where'
<1>1. SUFFICES ASSUME Where, [Next]_vars PROVE Where'
  OBVIOUS
<1> USE DEF Where, OriginalKept
<1>2. CASE StartPlayback
  BY <1>1, <1>2 DEF StartPlayback, files
<1>3. CASE Load
  BY <1>1, <1>3 DEF Load, files
<1>4. CASE RenameToBak
  BY <1>1, <1>4 DEF RenameToBak, AlreadyPatched
<1>5. CASE OpenNavs
  BY <1>1, <1>5 DEF OpenNavs
<1>6. CASE CopyRecord
  BY <1>1, <1>6 DEF CopyRecord
<1>7. CASE CloseNavs
  BY <1>1, <1>7 DEF CloseNavs, files
<1>8. CASE DeleteNav
  BY <1>1, <1>8 DEF DeleteNav
<1>9. CASE RestoreNav
  BY <1>1, <1>9 DEF RestoreNav
<1>10. CASE Ask
  BY <1>1, <1>10 DEF Ask, files
<1>11. CASE NavGetBlockTimeStamp
  BY <1>1, <1>11 DEF NavGetBlockTimeStamp, files
<1>12. CASE EndPlayback
  BY <1>1, <1>12 DEF EndPlayback, files
<1>13. CASE CutBegins
  BY <1>1, <1>13 DEF CutBegins
<1>14. CASE PatchNavFiles
  <2>1. nav' = orig' \/ orig' = None
    BY <1>1, <1>14 DEF PatchNavFiles
  <2> QED BY <2>1, <1>14 DEF PatchNavFiles
<1>15. CASE PatchInfFiles
  BY <1>1, <1>15 DEF PatchInfFiles
<1>16. CASE SwitchOff
  <2>1. orig' = orig /\ bak' = bak /\ pc' = "off"
    BY <1>16 DEF SwitchOff
  <2>2. CASE pc \in {"copy", "divide"}
    BY <1>1, <2>1, <2>2
  <2>3. CASE pc \notin {"copy", "divide"}
    <3>1. nav' = nav
      BY <1>16, <2>3 DEF SwitchOff
    <3> QED BY <1>1, <2>1, <3>1
  <2> QED BY <2>2, <2>3
<1>17. CASE UNCHANGED vars
  BY <1>1, <1>17 DEF vars, files
<1> QED
  BY <1>1, <1>2, <1>3, <1>4, <1>5, <1>6, <1>7, <1>8, <1>9, <1>10, <1>11, <1>12, <1>13, <1>14,
     <1>15, <1>16, <1>17 DEF Next

\* Whatever fails while PatchOldNavFile repairs a .nav file, and wherever the power fails,
\* the file the recording came with, or got by the last cut, is there as .nav or .nav.bak.
THEOREM OriginalNavKept == Spec => []OriginalKept
<1>1. Where => OriginalKept
  BY DEF Where
<1> QED BY WhereInit, WhereStep, <1>1, PTL DEF Spec
-----------------------------------------------------------------------------
(* The cursor.                                                             *)

Answers(b, time) ==
  LET before == {i \in DOMAIN stamps : stamps[i].block <= b}
  IN  IF before = {} THEN time = 0
      ELSE \E i \in before : /\ time = stamps[i].time
                             /\ \A j \in before : stamps[j].block <= stamps[i].block

LEMMA StampFacts ==
  ASSUME Ordered, stamps # None
  PROVE  /\ Len(stamps) \in Nat /\ DOMAIN stamps = 1 .. Len(stamps) /\ 1 \in DOMAIN stamps
         /\ \A i \in DOMAIN stamps : stamps[i].block \in Nat
<1>1. stamps \in Seq([block : Nat, time : Nat]) /\ stamps # <<>>
  BY DEF Ordered
<1>2. Len(stamps) \in Nat /\ DOMAIN stamps = 1 .. Len(stamps) /\ Len(stamps) # 0
  BY <1>1
<1>3. ASSUME NEW i \in DOMAIN stamps PROVE stamps[i].block \in Nat
  <2>1. stamps[i] \in [block : Nat, time : Nat]
    BY <1>1, <1>2, ElementOfSeq, Zenon
  <2> QED BY <2>1
<1> QED BY <1>2, <1>3

LEMMA Between == \A a, c \in Nat : \A x \in a .. c : x \in Nat /\ a <= x /\ x <= c
OBVIOUS

\* Going on ends at the last stamp that is not behind the block.
LEMMA ForwardFinds ==
  ASSUME Ordered, stamps # None, cursor \in DOMAIN stamps, NEW b \in Nat,
         stamps[cursor].block < b
  PROVE  /\ Forward(b) \in DOMAIN stamps
         /\ stamps[Forward(b)].block <= b
         /\ \A j \in DOMAIN stamps : stamps[j].block <= b
                                      => stamps[j].block <= stamps[Forward(b)].block
<1> DEFINE stop == {i \in cursor .. Len(stamps) : stamps[i].block >= b \/ i = Len(stamps)}
           m == Min(stop)
<1>1. /\ Len(stamps) \in Nat /\ DOMAIN stamps = 1 .. Len(stamps)
      /\ cursor \in 1 .. Len(stamps)
      /\ \A i \in DOMAIN stamps : stamps[i].block \in Nat
  BY StampFacts
<1>2. m \in stop /\ \A x \in stop : m <= x
  <2>1. stop \subseteq Nat
    BY <1>1
  <2>2. Len(stamps) \in stop
    BY <1>1
  <2> HIDE DEF stop
  <2> QED BY <2>1, <2>2, MinIsLeast
<1>3. Forward(b) = IF stamps[m].block > b THEN m - 1 ELSE m
  BY DEF Forward
<1>4. m \in cursor .. Len(stamps) /\ (stamps[m].block >= b \/ m = Len(stamps))
  BY <1>2
<1>5. ASSUME NEW x \in cursor .. Len(stamps), x < m PROVE stamps[x].block < b
  <2>1. x \notin stop
    <3>1. x \in stop => m <= x
      BY <1>2
    <3> HIDE DEF m, stop
    <3>2. m \in Nat /\ x \in Nat
      <4>1. cursor \in Nat /\ Len(stamps) \in Nat
        BY <1>1
      <4> QED BY <4>1, <1>4, <1>5, Between, Zenon
    <3> QED BY <3>1, <3>2, <1>5
  <2>2. ~ (stamps[x].block >= b) /\ x \in DOMAIN stamps
    BY <2>1, <1>1
  <2> HIDE DEF m, stop
  <2> QED BY <2>2, <1>1
<1> HIDE DEF m, stop
<1>6. /\ m \in Nat /\ cursor \in Nat /\ cursor <= m /\ m <= Len(stamps) /\ 1 <= cursor
      /\ m \in DOMAIN stamps /\ stamps[m].block \in Nat
  <2>1. cursor \in Nat /\ Len(stamps) \in Nat /\ 1 <= cursor
    BY <1>1
  <2>2. m \in Nat /\ cursor <= m /\ m <= Len(stamps)
    BY <2>1, <1>4, Between, Zenon
  <2>3. m \in DOMAIN stamps
    BY <2>1, <2>2, <1>1
  <2> QED BY <2>1, <2>2, <2>3, <1>1
<1>7. CASE stamps[m].block > b
  <2>1. m - 1 \in cursor .. Len(stamps) /\ m - 1 < m
    <3>1. m # cursor
      BY <1>1, <1>7
    <3> QED BY <3>1, <1>1, <1>6
  <2>2. stamps[m - 1].block < b
    BY <1>5, <2>1
  <2>3. ASSUME NEW j \in DOMAIN stamps, stamps[j].block <= b
        PROVE  stamps[j].block <= stamps[m - 1].block
    <3>1. j < m
      <4>1. m <= j => stamps[m].block <= stamps[j].block
        BY <1>6 DEF Ordered
      <4> QED BY <4>1, <2>3, <1>1, <1>6, <1>7
    <3>2. j <= m - 1 /\ m - 1 \in DOMAIN stamps
      <4>1. j \in Nat
        BY <1>1
      <4>2. m - 1 \in 1 .. Len(stamps)
        BY <2>1, <1>6
      <4> QED BY <4>1, <4>2, <3>1, <1>1, <1>6
    <3> QED BY <3>2 DEF Ordered
  <2>4. m - 1 \in DOMAIN stamps
    BY <2>1, <1>1
  <2> QED BY <1>1, <1>3, <1>7, <2>2, <2>3, <2>4
<1>8. CASE ~ (stamps[m].block > b)
  <2>1. m \in DOMAIN stamps /\ stamps[m].block <= b
    BY <1>6, <1>8
  <2>2. ASSUME NEW j \in DOMAIN stamps, stamps[j].block <= b
        PROVE  stamps[j].block <= stamps[m].block
    <3>1. CASE stamps[m].block >= b
      BY <3>1, <2>1, <2>2, <1>1
    <3>2. CASE m = Len(stamps)
      <4>1. j <= m
        BY <3>2, <1>1
      <4> QED BY <4>1, <2>1 DEF Ordered
    <3> QED BY <3>1, <3>2, <1>4
  <2> QED BY <1>3, <1>8, <2>1, <2>2
<1> QED BY <1>7, <1>8

\* Going back ends at the last stamp that is not behind the block, or at the first one.
LEMMA BackwardFinds ==
  ASSUME Ordered, stamps # None, cursor \in DOMAIN stamps, NEW b \in Nat,
         stamps[cursor].block > b
  PROVE  /\ Backward(b) \in DOMAIN stamps
         /\ \A j \in DOMAIN stamps : stamps[j].block <= b => j <= Backward(b)
         /\ stamps[Backward(b)].block <= b \/ Backward(b) = 1
<1> DEFINE stop == {i \in 1 .. cursor : stamps[i].block <= b \/ i = 1}
           m == Max(stop)
<1>1. /\ Len(stamps) \in Nat /\ DOMAIN stamps = 1 .. Len(stamps)
      /\ cursor \in 1 .. Len(stamps)
      /\ \A i \in DOMAIN stamps : stamps[i].block \in Nat
  BY StampFacts
<1>2. m \in stop /\ \A x \in stop : x <= m
  <2>1. stop \subseteq 0 .. cursor /\ cursor \in Nat
    BY <1>1
  <2>2. 1 \in stop
    BY <1>1
  <2> HIDE DEF stop
  <2> QED BY <2>1, <2>2, MaxIsGreatest
<1>3. Backward(b) = m
  BY DEF Backward
<1>4. m \in 1 .. cursor /\ (stamps[m].block <= b \/ m = 1)
  BY <1>2
<1> HIDE DEF m
<1>5. ASSUME NEW j \in DOMAIN stamps, stamps[j].block <= b PROVE j <= m
  <2>1. j <= cursor
    <3>1. cursor <= j => stamps[cursor].block <= stamps[j].block
      BY DEF Ordered
    <3> QED BY <3>1, <1>1, <1>5
  <2>2. j \in stop
    BY <2>1, <1>1, <1>5
  <2> QED BY <2>2, <1>2
<1> QED BY <1>1, <1>3, <1>4, <1>5

\* Wherever the cursor stands, the answer is the one a search would give.
LEMMA LookupFinds ==
  ASSUME Ordered, stamps # None, cursor \in DOMAIN stamps, NEW b \in Nat
  PROVE  Found(b) \in DOMAIN stamps /\ Answers(b, FoundTime(b))
<1>1. \A i \in DOMAIN stamps : stamps[i].block \in Nat
  BY StampFacts
<1>2. CASE stamps[cursor].block < b
  <2>1. Found(b) = Forward(b)
    BY <1>2 DEF Found
  <2> QED BY <2>1, <1>1, <1>2, ForwardFinds DEF FoundTime, Answers
<1>3. CASE stamps[cursor].block > b
  <2>1. Found(b) = Backward(b)
    BY <1>1, <1>3 DEF Found
  <2>2. CASE stamps[Backward(b)].block <= b
    <3>1. \A j \in DOMAIN stamps : stamps[j].block <= b
                                   => stamps[j].block <= stamps[Backward(b)].block
      BY <1>3, BackwardFinds DEF Ordered
    <3> QED BY <2>1, <2>2, <3>1, <1>1, <1>3, BackwardFinds DEF FoundTime, Answers
  <2>3. CASE ~ (stamps[Backward(b)].block <= b)
    <3>1. Backward(b) = 1 /\ 1 \in DOMAIN stamps
      BY <2>3, <1>3, BackwardFinds
    <3>2. \A j \in DOMAIN stamps : stamps[1].block <= stamps[j].block
      BY <3>1 DEF Ordered
    <3>3. {i \in DOMAIN stamps : stamps[i].block <= b} = {}
      BY <3>1, <3>2, <2>3, <1>1
    <3>4. FoundTime(b) = 0
      BY <2>1, <2>3, <3>1, <1>1 DEF FoundTime
    <3> QED BY <2>1, <3>1, <3>3, <3>4 DEF Answers
  <2> QED BY <2>2, <2>3
<1>4. CASE stamps[cursor].block = b
  <2>1. Found(b) = cursor
    BY <1>1, <1>4 DEF Found
  <2> QED BY <2>1, <1>1, <1>4 DEF FoundTime, Answers
<1> QED BY <1>1, <1>2, <1>3, <1>4

-----------------------------------------------------------------------------

\* The cursor is on a stamp, and an answer belongs to the stamps that are loaded.
Attached == {"repair", "open", "copy", "delete", "restore", "ask", "active"}
CursorInv ==
  /\ stamps # None => cursor \in DOMAIN stamps
  /\ pc \in Attached => stamps # None
  /\ answer # None => stamps # None
  /\ LookupRight

LEMMA CursorInit == Init => CursorInv
BY DEF Init, CursorInv, LookupRight, Attached

LEMMA CursorStep == CursorInv /\ Ordered /\ Ordered' /\ [Next]_vars => CursorInv'
<1>1. SUFFICES ASSUME CursorInv, Ordered, Ordered', [Next]_vars PROVE CursorInv'
  OBVIOUS
<1>2. CASE NavGetBlockTimeStamp
  <2>1. PICK b \in Blocks : /\ cursor' = Found(b)
                            /\ answer' = [block |-> b, time |-> FoundTime(b)]
    BY <1>2 DEF NavGetBlockTimeStamp
  <2>2. stamps' = stamps /\ pc' = pc /\ stamps # None /\ cursor \in DOMAIN stamps
    BY <1>1, <1>2 DEF NavGetBlockTimeStamp, CursorInv, Attached
  <2>3. b \in Nat
    BY NavAssumption
  <2>4. cursor' \in DOMAIN stamps /\ Answers(b, FoundTime(b))
    BY <1>1, <2>1, <2>2, <2>3, LookupFinds
  <2>5. LookupRight'
    BY <2>1, <2>2, <2>4 DEF LookupRight, Answers
  <2> QED BY <2>1, <2>2, <2>4, <2>5, <1>1 DEF CursorInv
<1>3. CASE Load
  <2>1. answer' = None /\ (stamps' # None => cursor' = 1) /\ (stamps' = None => pc' = "off")
    BY <1>3 DEF Load
  <2>2. stamps' # None => 1 \in DOMAIN stamps'
    BY <1>1 DEF Ordered
  <2> QED BY <2>1, <2>2 DEF CursorInv, LookupRight, Attached
<1>4. CASE SwitchOff
  BY <1>4 DEF SwitchOff, CursorInv, LookupRight, Attached
<1>5. ASSUME UNCHANGED times, pc' \in Attached => pc \in Attached PROVE CursorInv'
  BY <1>1, <1>5 DEF CursorInv, LookupRight, times
<1>6. CASE StartPlayback \/ Ask \/ EndPlayback
  BY <1>5, <1>6 DEF StartPlayback, Ask, EndPlayback, Attached
<1>7. CASE RenameToBak \/ OpenNavs \/ CopyRecord \/ CloseNavs \/ DeleteNav \/ RestoreNav
  BY <1>5, <1>7 DEF RenameToBak, OpenNavs, CopyRecord, CloseNavs, DeleteNav, RestoreNav,
     Attached
<1>8. CASE CutBegins \/ PatchNavFiles \/ PatchInfFiles
  BY <1>5, <1>8 DEF CutBegins, PatchNavFiles, PatchInfFiles, Attached
<1>9. CASE UNCHANGED vars
  BY <1>5, <1>9 DEF vars
<1> QED
  BY <1>1, <1>2, <1>3, <1>4, <1>6, <1>7, <1>8, <1>9 DEF Next

-----------------------------------------------------------------------------
(* The pictures of a .nav file.                                            *)

Stamp == [block : Nat, time : Nat]
Picture(n) == n \in Seq(Record) /\ Rises(n)

LEMMA DivMonotone ==
  ASSUME NEW a \in Nat, NEW b \in Nat, a <= b, NEW d \in Nat \ {0}
  PROVE  a \div d \in Nat /\ a \div d <= b \div d
<1>1. /\ a \div d \in Int /\ b \div d \in Int /\ a % d \in 0 .. d - 1 /\ b % d \in 0 .. d - 1
      /\ a = d * (a \div d) + (a % d) /\ b = d * (b \div d) + (b % d)
  BY SMTT(30)
<1>2. ASSUME NEW p \in Int, NEW q \in Int, NEW x \in 0 .. d - 1, NEW y \in 0 .. d - 1,
             d * p + x <= d * q + y, q < p
      PROVE  FALSE
  <2>1. d * p >= d * (q + 1)
    BY <1>2
  <2>2. d * (q + 1) = d * q + d
    BY <1>2
  <2>3. d * p \in Int /\ d * q \in Int /\ d * (q + 1) \in Int
    OBVIOUS
  <2> QED BY <1>2, <2>1, <2>2, <2>3
<1>3. a \div d <= b \div d
  BY <1>1, <1>2
<1>4. a \div d >= 0
  <2>1. ASSUME NEW p \in Int, NEW x \in 0 .. d - 1, d * p + x >= 0, p < 0 PROVE FALSE
    <3>1. d * p <= d * (-1)
      BY <2>1
    <3> QED BY <2>1, <3>1
  <2> QED BY <1>1, <2>1
<1> QED BY <1>1, <1>3, <1>4

LEMMA LastOfSubset ==
  ASSUME NEW E, NEW n \in Seq(E), NEW t \in SUBSET DOMAIN n, t # {}
  PROVE  Max(t) \in t /\ n[Max(t)] \in E /\ t \ {Max(t)} \in SUBSET DOMAIN n
<1>1. Len(n) \in Nat /\ DOMAIN n = 1 .. Len(n) /\ \A k \in 1 .. Len(n) : n[k] \in E
  BY LenProperties, ElementOfSeq
<1>2. Len(n) # 0
  BY <1>1
<1>3. Max(t) \in t
  BY <1>1, <1>2, GreatestOfSubset
<1> QED BY <1>1, <1>3

\* What NavLoad has read of a file up to a record.
Loaded(n) ==
  LET next(ts, r) == IF IsI(r) /\ Len(ts) < Len(n) \div 4
                     THEN Append(ts, [block |-> r.pos \div PerBlock, time |-> r.time]) ELSE ts
  IN  FoldLeft(next, <<>>, n)

LEMMA StampsRise ==
  ASSUME NEW n, Picture(n), NEW s, s = Loaded(n)
  PROVE  s \in Seq(Stamp) /\ \A i, j \in DOMAIN s : i <= j => s[i].block <= s[j].block
<1> DEFINE R == Seq(Stamp)
           most == Len(n) \div 4
           stamp(r) == [block |-> r.pos \div PerBlock, time |-> r.time]
           step(ts, r) == IF IsI(r) /\ Len(ts) < most THEN Append(ts, stamp(r)) ELSE ts
           Fold(it) == it = [t \in SUBSET DOMAIN n |->
                               IF t = {} THEN <<>> ELSE step(it[t \ {Max(t)}], n[Max(t)])]
           it == CHOOSE y : Fold(y)
           f == [p \in R \X Record |-> step(p[1], p[2])]
<1>1. s = it[DOMAIN n]
  BY DEF Loaded, FoldLeft, MapThenFoldSet
<1>2. /\ Len(n) \in Nat /\ DOMAIN n = 1 .. Len(n) /\ n \in Seq(Record)
      /\ \A k \in 1 .. Len(n) : n[k] \in Record
  BY LenProperties, ElementOfSeq DEF Picture
<1> HIDE DEF R, most
<1>3. \A r \in Record : stamp(r) \in Stamp /\ r.pos \in Nat
  <2> TAKE r \in Record
  <2>1. r.pos \in Nat /\ r.time \in 0 .. DWord - 1 /\ DWord \in Nat /\ PerBlock \in Nat \ {0}
    BY NavAssumption DEF Record
  <2>2. r.pos \div PerBlock \in Nat
    BY <2>1, DivMonotone
  <2>3. r.time \in Nat
    BY <2>1
  <2> QED BY <2>1, <2>2, <2>3 DEF Stamp
<1> HIDE DEF stamp
<1>4. \A ts \in R, r \in Record : step(ts, r) \in R /\ f[<<ts, r>>] = step(ts, r)
  <2> TAKE ts \in R, r \in Record
  <2>1. step(ts, r) \in R
    BY <1>3, AppendProperties DEF R
  <2>2. f[<<ts, r>>] = step(ts, r)
    <3> HIDE DEF step
    <3> QED OBVIOUS
  <2> QED BY <2>1, <2>2
<1>5. f \in [R \X Record -> R] /\ <<>> \in R
  <2>1. \A p \in R \X Record : p[1] \in R /\ p[2] \in Record
    OBVIOUS
  <2>2. \A p \in R \X Record : step(p[1], p[2]) \in R
    BY <1>4, <2>1
  <2>3. f \in [R \X Record -> R]
    <3> HIDE DEF step
    <3> QED BY <2>2
  <2> QED BY <2>3 DEF R
<1> HIDE DEF f
<1>6. \A t \in SUBSET DOMAIN n : t # {} => /\ Max(t) \in t /\ n[Max(t)] \in Record
                                          /\ t \ {Max(t)} \in SUBSET DOMAIN n
  BY <1>2, LastOfSubset
<1>7. PICK g \in [SUBSET DOMAIN n -> R] : Folding(g, f, <<>>, n)
  BY <1>2, <1>5, FoldExists
<1> HIDE DEF step
<1>8. Fold(g)
  <2>1. \A t \in SUBSET DOMAIN n :
          g[t] = IF t = {} THEN <<>> ELSE step(g[t \ {Max(t)}], n[Max(t)])
    BY <1>4, <1>6, <1>7 DEF Folding
  <2> QED BY <2>1
<1>9. Fold(it)
  <2> HIDE DEF Fold
  <2> QED BY <1>8
<1>10. FoldingIn(it, R, f, <<>>, n)
  <2>1. \A t \in SUBSET DOMAIN n :
          it[t] = IF t = {} THEN <<>> ELSE step(it[t \ {Max(t)}], n[Max(t)])
    <3> HIDE DEF it
    <3> QED BY <1>9
  <2> HIDE DEF it
  <2> QED BY <1>4, <1>6, <2>1 DEF FoldingIn
<1> HIDE DEF it
<1>11. PICK h : Walk(h, it, R, f, <<>>, n)
  BY <1>2, <1>5, <1>10, FoldPath, Zenon
<1> DEFINE Sorted(ts) == \A i, j \in DOMAIN ts : i <= j => ts[i].block <= ts[j].block
           Before(ts, k) == \A i \in DOMAIN ts : \A j \in k + 1 .. Len(n) :
                               ts[i].block <= n[j].pos \div PerBlock
           G == {k \in 0 .. Len(n) : Sorted(h[k]) /\ Before(h[k], k)}
<1>12. \A k \in 0 .. Len(n) : k \in G
  <2>1. 0 \in G
    <3>1. h[0] = <<>> /\ DOMAIN <<>> = {}
      BY <1>11 DEF Walk
    <3> QED BY <1>2, <3>1
  <2>2. ASSUME NEW k \in 1 .. Len(n), k - 1 \in G PROVE k \in G
    <3>1. k - 1 \in 0 .. Len(n) /\ k \in 0 .. Len(n) /\ k \in Nat
      BY <1>2
    <3>2. h[k - 1] \in R /\ h[k] \in R /\ n[k] \in Record
      BY <1>2, <1>11, <3>1 DEF Walk
    <3>3. h[k] = step(h[k - 1], n[k])
      BY <1>4, <1>11, <3>2 DEF Walk
    <3>4. Sorted(h[k - 1]) /\ \A i \in DOMAIN h[k - 1] : \A j \in k .. Len(n) :
                                 h[k - 1][i].block <= n[j].pos \div PerBlock
      <4>1. (k - 1) + 1 = k
        BY <3>1
      <4> QED BY <2>2, <4>1
    <3>5. CASE h[k] = h[k - 1]
      <4>1. \A j \in k + 1 .. Len(n) : j \in k .. Len(n)
        BY <3>1, <1>2
      <4> QED BY <3>1, <3>4, <3>5, <4>1
    <3>6. CASE h[k] = Append(h[k - 1], stamp(n[k]))
      <4> DEFINE ts == h[k - 1]
                 us == h[k]
                 l == Len(ts)
      <4>1. /\ l \in Nat /\ DOMAIN ts = 1 .. l /\ DOMAIN us = 1 .. l + 1
            /\ \A i \in 1 .. l : us[i] = ts[i]
            /\ us[l + 1] = stamp(n[k]) /\ us \in Seq(Stamp)
        BY <1>3, <3>2, <3>6, AppendProperties, LenProperties DEF R
      <4>2. us[l + 1].block = n[k].pos \div PerBlock
        BY <4>1 DEF stamp
      <4>3. \A j \in k + 1 .. Len(n) :
              n[k].pos \div PerBlock <= n[j].pos \div PerBlock
        <5> TAKE j \in k + 1 .. Len(n)
        <5>1. k \in DOMAIN n /\ j \in DOMAIN n /\ k < j
          BY <1>2, <3>1
        <5>2. n[k].pos <= n[j].pos /\ n[k].pos \in Nat /\ n[j].pos \in Nat
          BY <5>1, <1>2, <1>3 DEF Picture, Rises
        <5> QED BY <5>2, DivMonotone, NavAssumption
      <4>4. \A i \in DOMAIN us : us[i].block \in Nat
        <5> TAKE i \in DOMAIN us
        <5>1. us[i] \in Stamp
          BY <4>1, ElementOfSeq
        <5> QED BY <5>1 DEF Stamp
      <4>5. \A j \in k + 1 .. Len(n) : j \in k .. Len(n)
        BY <3>1, <1>2
      <4>6. k \in k .. Len(n)
        BY <3>1, <1>2
      <4>7. \A i \in DOMAIN us : i \in 1 .. l \/ i = l + 1
        BY <4>1
      <4> HIDE DEF ts, us
      <4>8. Before(us, k)
        <5> TAKE i \in DOMAIN us
        <5> TAKE j \in k + 1 .. Len(n)
        <5>1. CASE i \in 1 .. l
          BY <3>4, <4>1, <4>5, <5>1 DEF ts
        <5>2. CASE i = l + 1
          BY <4>2, <4>3, <5>2
        <5> QED BY <4>7, <5>1, <5>2
      <4>9. Sorted(us)
        <5> TAKE i, j \in DOMAIN us
        <5>1. CASE i \in 1 .. l /\ j \in 1 .. l
          BY <3>4, <4>1, <5>1 DEF ts
        <5>2. CASE i \in 1 .. l /\ j = l + 1
          BY <3>4, <4>1, <4>2, <4>6, <5>2 DEF ts
        <5>3. CASE i = l + 1
          <6>1. i <= j => j = i
            BY <4>1, <4>7, <5>3
          <6> QED BY <4>4, <6>1
        <5> QED BY <4>7, <5>1, <5>2, <5>3
      <4> QED BY <3>1, <4>8, <4>9 DEF us
    <3> QED BY <3>3, <3>5, <3>6 DEF step
  <2> HIDE DEF G
  <2> QED BY <1>2, <2>1, <2>2, Induction
<1>13. Len(n) \in 0 .. Len(n) /\ h[Len(n)] = s /\ s \in R
  BY <1>1, <1>2, <1>11 DEF Walk
<1> QED
  BY <1>12, <1>13 DEF R

LEMMA NavLoadIs ==
  ASSUME NEW n, n = None \/ Picture(n), NEW s, s = NavLoad(n), s # None
  PROVE  /\ s \in Seq(Stamp) /\ s # <<>>
         /\ \A i, j \in DOMAIN s : i <= j => s[i].block <= s[j].block
<1>1. s = Loaded(n) /\ s # <<>> /\ n # None
  BY DEF NavLoad, Loaded
<1> QED
  BY <1>1, StampsRise

\* Differences of times are times.
Time == 0 .. DWord - 1
LEMMA MinusIsTime == \A a, b \in Int : Minus(a, b) \in Time
<1> TAKE a, b \in Int
<1>1. a - b \in Int /\ DWord \in Nat \ {0}
  BY NavAssumption
<1>2. \A x \in Int : x % DWord \in 0 .. DWord - 1
  BY NavAssumption
<1> QED BY <1>1, <1>2 DEF Minus, Time

LEMMA TimesAreInts == \A t \in Time : t \in Int
BY NavAssumption DEF Time

LEMMA RecordFields == \A r \in Record : r.pos \in Nat /\ r.type \in 1 .. 3 /\ r.time \in Time
BY DEF Record, Time

LEMMA RecordPut ==
  ASSUME NEW r \in Record, NEW p \in Nat, NEW t \in Time, NEW x, x = [r EXCEPT !.pos = p, !.time = t]
  PROVE  x \in Record /\ x.pos = p /\ x.time = t /\ x.type = r.type
BY DEF Record, Time

\* PatchNavFiles between two records, and where a record in front of or behind the cut goes.
Dividing == [cut : Seq(Record), src : Seq(Record), iCut : BOOLEAN, iSrc : BOOLEAN, p : BOOLEAN,
             firstCut : Time, lastCut : Time, firstSrc : Time, lastSrc : Time, stop : BOOLEAN]
Cutting(c) == /\ {"start", "behind", "ending"} \subseteq DOMAIN c
              /\ c.start \in Nat /\ c.behind \in Nat /\ c.start <= c.behind /\ c.ending \in BOOLEAN
InCut(c, p) == c.start <= p /\ p < c.behind
Place(c, p) == IF p >= c.behind THEN p - (c.behind - c.start) ELSE p

LEMMA InsideIs ==
  ASSUME NEW c, Cutting(c), NEW acc \in Dividing, NEW r \in Record, InCut(c, r.pos),
         NEW a, a = Inside(acc, r, c)
  PROVE  a \in Dividing /\ a.src = acc.src
<1> DEFINE first  == IF acc.firstCut = Unset THEN (IF c.start = 0 THEN 0 ELSE r.time) ELSE acc.firstCut
           begins == ~acc.iCut /\ IsI(r)
           on     == acc.iCut \/ begins
           p      == ~begins /\ (acc.p \/ r.type <= 2)
           put    == [r EXCEPT !.pos = @ - c.start, !.time = Minus(@, first)]
           parted == IF on /\ (p \/ r.type <= 2) THEN Append(acc.cut, put) ELSE acc.cut
<1>1. r.pos \in Nat /\ r.time \in Time /\ DWord \in Nat \ {0} /\ c.start \in Nat
  BY RecordFields, NavAssumption DEF Cutting
<1>2. /\ acc.cut \in Seq(Record) /\ acc.src \in Seq(Record)
      /\ acc.iCut \in BOOLEAN /\ acc.iSrc \in BOOLEAN /\ acc.p \in BOOLEAN
      /\ acc.firstCut \in Time /\ acc.stop \in BOOLEAN
  BY DEF Dividing
<1>3. first \in Time
  BY <1>1, <1>2 DEF Time
<1>4. on \in BOOLEAN /\ p \in BOOLEAN
  OBVIOUS
<1>5. put \in Record
  <2>1. r.pos - c.start \in Nat
    BY <1>1 DEF InCut
  <2>2. Minus(r.time, first) \in Time
    <3> HIDE DEF first
    <3>1. r.time \in Int /\ first \in Int
      BY <1>1, <1>3 DEF Time
    <3> QED BY <3>1, MinusIsTime
  <2> HIDE DEF first
  <2>3. put = [r EXCEPT !.pos = r.pos - c.start, !.time = Minus(r.time, first)]
    BY DEF Record
  <2> QED BY <2>1, <2>2, <2>3, RecordPut
<1>6. parted \in Seq(Record)
  <2> HIDE DEF put, on, p
  <2> QED BY <1>2, <1>5, AppendProperties
<1>7. a = [acc EXCEPT !.firstCut = first, !.lastCut = r.time, !.iCut = on, !.iSrc = FALSE, !.p = p,
                      !.cut = parted]
  BY DEF Inside, Dividing
<1> HIDE DEF first, on, p, parted
<1> QED BY <1>1, <1>2, <1>3, <1>4, <1>6, <1>7 DEF Dividing

LEMMA OutsideIs ==
  ASSUME NEW c, Cutting(c), NEW acc \in Dividing, NEW r \in Record, ~InCut(c, r.pos),
         NEW a, a = Outside(acc, r, c)
  PROVE  /\ a \in Dividing
         /\ \/ a.src = acc.src
            \/ \E x \in Record : a.src = Append(acc.src, x) /\ x.pos = Place(c, r.pos)
<1> DEFINE behind == r.pos >= c.behind
           first  == IF behind /\ acc.firstSrc = 0 THEN r.time ELSE acc.firstSrc
           last   == IF behind THEN r.time ELSE acc.lastSrc
           begins == ~acc.iSrc /\ IsI(r)
           on     == acc.iSrc \/ begins
           p      == ~begins /\ (acc.p \/ r.type <= 2)
           put    == IF ~behind THEN r
                     ELSE [r EXCEPT !.pos = @ - (c.behind - c.start),
                                    !.time = Minus(@, first - acc.firstCut)]
           kept   == IF on /\ (p \/ r.type <= 2) THEN Append(acc.src, put) ELSE acc.src
<1>1. r.pos \in Nat /\ r.time \in Time /\ DWord \in Nat \ {0} /\ c.start \in Nat /\ c.behind \in Nat
      /\ c.start <= c.behind
  BY RecordFields, NavAssumption DEF Cutting
<1>2. /\ acc.cut \in Seq(Record) /\ acc.src \in Seq(Record)
      /\ acc.iCut \in BOOLEAN /\ acc.iSrc \in BOOLEAN /\ acc.p \in BOOLEAN
      /\ acc.firstCut \in Time /\ acc.firstSrc \in Time /\ acc.lastSrc \in Time
      /\ acc.lastCut \in Time /\ acc.stop \in BOOLEAN
  BY DEF Dividing
<1>3. first \in Time /\ last \in Time
  BY <1>1, <1>2
<1>4. on \in BOOLEAN /\ p \in BOOLEAN
  OBVIOUS
<1>5. put \in Record /\ put.pos = Place(c, r.pos)
  <2>1. CASE ~behind
    BY <2>1 DEF Place
  <2>2. CASE behind
    <3>1. r.pos - (c.behind - c.start) \in Nat
      BY <1>1, <2>2
    <3>2. Minus(r.time, first - acc.firstCut) \in Time
      <4>1. r.time \in Int /\ first - acc.firstCut \in Int
        BY <1>1, <1>2, <1>3 DEF Time
      <4> QED BY <4>1, MinusIsTime
    <3> HIDE DEF first
    <3>3. put = [r EXCEPT !.pos = r.pos - (c.behind - c.start),
                          !.time = Minus(r.time, first - acc.firstCut)]
      BY <2>2 DEF Record
    <3>4. Place(c, r.pos) = r.pos - (c.behind - c.start)
      BY <2>2 DEF Place
    <3> DEFINE at == r.pos - (c.behind - c.start)
               time == Minus(r.time, first - acc.firstCut)
    <3> HIDE DEF put
    <3>5. put = [r EXCEPT !.pos = at, !.time = time]
      BY <3>3, Zenon
    <3>6. at \in Nat /\ time \in Time
      BY <3>1, <3>2
    <3> HIDE DEF at, time
    <3>7. put \in Record /\ put.pos = at
      BY <3>5, <3>6 DEF Record, Time
    <3> QED BY <3>4, <3>7 DEF at
  <2> QED BY <2>1, <2>2
<1>6. kept \in Seq(Record)
  <2> HIDE DEF put, on, p
  <2> QED BY <1>2, <1>5, AppendProperties
<1>7. CASE behind /\ c.ending
  <2>1. a = [acc EXCEPT !.firstSrc = first, !.lastSrc = last, !.stop = TRUE]
    BY <1>7 DEF Outside
  <2> HIDE DEF first, last
  <2> QED BY <1>2, <1>3, <2>1 DEF Dividing
<1>8. CASE ~(behind /\ c.ending)
  <2>1. a = [acc EXCEPT !.firstSrc = first, !.lastSrc = last, !.iSrc = on, !.iCut = FALSE, !.p = p,
                        !.src = kept]
    BY <1>8 DEF Outside, Dividing
  <2>2. kept = acc.src \/ kept = Append(acc.src, put)
    OBVIOUS
  <2> HIDE DEF first, last, on, p, kept, put
  <2>3. a \in Dividing /\ a.src = kept
    BY <1>2, <1>3, <1>4, <1>6, <2>1 DEF Dividing
  <2> QED BY <1>5, <2>2, <2>3
<1> QED BY <1>7, <1>8

LEMMA PlaceRises ==
  ASSUME NEW c, Cutting(c), NEW p \in Nat, NEW q \in Nat, p <= q, ~InCut(c, p), ~InCut(c, q)
  PROVE  Place(c, p) \in Nat /\ Place(c, p) <= Place(c, q)
<1>1. c.start \in Nat /\ c.behind \in Nat /\ c.start <= c.behind
  BY DEF Cutting
<1> QED BY <1>1 DEF InCut, Place

LEMMA DivideRises ==
  ASSUME NEW c, Cutting(c), NEW n, Picture(n), NEW d, d = Divide(n, c)
  PROVE  d \in Dividing /\ Picture(d.src)
<1> DEFINE R == Dividing
           step(acc, r) == IF acc.stop THEN acc
                           ELSE IF c.start <= r.pos /\ r.pos < c.behind THEN Inside(acc, r, c)
                           ELSE Outside(acc, r, c)
           Fold(it) == it = [t \in SUBSET DOMAIN n |->
                               IF t = {} THEN NoRecords ELSE step(it[t \ {Max(t)}], n[Max(t)])]
           it == CHOOSE y : Fold(y)
           f == [p \in R \X Record |-> step(p[1], p[2])]
           Adds(acc, r, a) == /\ ~InCut(c, r.pos)
                              /\ \E x \in Record : a.src = Append(acc.src, x) /\ x.pos = Place(c, r.pos)
<1>1. d = it[DOMAIN n]
  BY DEF Divide, FoldLeft, MapThenFoldSet
<1>2. /\ Len(n) \in Nat /\ DOMAIN n = 1 .. Len(n) /\ n \in Seq(Record)
      /\ \A k \in 1 .. Len(n) : n[k] \in Record
  BY LenProperties, ElementOfSeq DEF Picture
<1> HIDE DEF R
<1>3. \A acc \in R, r \in Record :
        /\ step(acc, r) \in R
        /\ step(acc, r).src = acc.src \/ Adds(acc, r, step(acc, r))
  <2> SUFFICES ASSUME NEW acc \in R, NEW r \in Record
               PROVE  /\ step(acc, r) \in R
                      /\ step(acc, r).src = acc.src \/ Adds(acc, r, step(acc, r))
    OBVIOUS
  <2>1. CASE acc.stop
    BY <2>1
  <2>2. CASE ~acc.stop /\ InCut(c, r.pos)
    <3>1. step(acc, r) = Inside(acc, r, c)
      BY <2>2 DEF InCut
    <3> HIDE DEF step, Adds
    <3> QED BY <2>2, <3>1, InsideIs DEF R
  <2>3. CASE ~acc.stop /\ ~InCut(c, r.pos)
    <3>1. step(acc, r) = Outside(acc, r, c)
      BY <2>3 DEF InCut
    <3> HIDE DEF step
    <3>2. /\ step(acc, r) \in Dividing
          /\ \/ step(acc, r).src = acc.src
             \/ \E x \in Record : step(acc, r).src = Append(acc.src, x) /\ x.pos = Place(c, r.pos)
      BY <2>3, <3>1, OutsideIs DEF R
    <3> QED BY <2>3, <3>2 DEF R
  <2> QED BY <2>1, <2>2, <2>3
<1> HIDE DEF Adds
<1>4. \A acc \in R, r \in Record : f[<<acc, r>>] = step(acc, r)
  <2> HIDE DEF step
  <2> QED OBVIOUS
<1>5. f \in [R \X Record -> R] /\ NoRecords \in R
  <2>1. \A p \in R \X Record : p[1] \in R /\ p[2] \in Record
    OBVIOUS
  <2>2. \A p \in R \X Record : step(p[1], p[2]) \in R
    BY <1>3, <2>1
  <2>3. f \in [R \X Record -> R]
    <3> HIDE DEF step
    <3> QED BY <2>2
  <2>4. NoRecords \in R
    <3>1. 0 \in Time /\ Unset \in Time
      BY NavAssumption DEF Time, Unset
    <3>2. <<>> \in Seq(Record)
      OBVIOUS
    <3> QED BY <3>1, <3>2 DEF NoRecords, R, Dividing
  <2> QED BY <2>3, <2>4
<1> HIDE DEF f
<1>6. \A t \in SUBSET DOMAIN n : t # {} => /\ Max(t) \in t /\ n[Max(t)] \in Record
                                          /\ t \ {Max(t)} \in SUBSET DOMAIN n
  BY <1>2, LastOfSubset
<1>7. PICK g \in [SUBSET DOMAIN n -> R] : Folding(g, f, NoRecords, n)
  BY <1>2, <1>5, FoldExists
<1> HIDE DEF step
<1>8. Fold(g)
  <2>1. \A t \in SUBSET DOMAIN n :
          g[t] = IF t = {} THEN NoRecords ELSE step(g[t \ {Max(t)}], n[Max(t)])
    BY <1>4, <1>6, <1>7 DEF Folding
  <2> QED BY <2>1
<1>9. Fold(it)
  <2> HIDE DEF Fold
  <2> QED BY <1>8
<1>10. FoldingIn(it, R, f, NoRecords, n)
  <2>1. \A t \in SUBSET DOMAIN n :
          it[t] = IF t = {} THEN NoRecords ELSE step(it[t \ {Max(t)}], n[Max(t)])
    <3> HIDE DEF it
    <3> QED BY <1>9
  <2> HIDE DEF it
  <2> QED BY <1>4, <1>6, <2>1 DEF FoldingIn
<1> HIDE DEF it
<1>11. PICK h : Walk(h, it, R, f, NoRecords, n)
  BY <1>2, <1>5, <1>10, FoldPath, Zenon
<1> DEFINE Before(ts, k) == \A i \in DOMAIN ts : \A j \in k + 1 .. Len(n) :
                               ~InCut(c, n[j].pos) => ts[i].pos <= Place(c, n[j].pos)
           G == {k \in 0 .. Len(n) : Rises(h[k].src) /\ Before(h[k].src, k)}
<1>12. \A k \in 0 .. Len(n) : k \in G
  <2>1. 0 \in G
    <3>1. h[0].src = <<>> /\ DOMAIN <<>> = {}
      BY <1>11 DEF Walk, NoRecords
    <3> QED BY <1>2, <3>1 DEF Rises
  <2>2. ASSUME NEW k \in 1 .. Len(n), k - 1 \in G PROVE k \in G
    <3>1. k - 1 \in 0 .. Len(n) /\ k \in 0 .. Len(n) /\ k \in Nat
      BY <1>2
    <3>2. h[k - 1] \in R /\ h[k] \in R /\ n[k] \in Record
      BY <1>2, <1>11, <3>1 DEF Walk
    <3>3. h[k] = step(h[k - 1], n[k])
      BY <1>4, <1>11, <3>2 DEF Walk
    <3> DEFINE ts == h[k - 1].src
               us == h[k].src
               l == Len(ts)
    <3>4. ts \in Seq(Record) /\ us \in Seq(Record)
      BY <3>2 DEF R, Dividing
    <3>5. Rises(ts) /\ \A i \in DOMAIN ts : \A j \in k .. Len(n) :
                          ~InCut(c, n[j].pos) => ts[i].pos <= Place(c, n[j].pos)
      <4>1. (k - 1) + 1 = k
        BY <3>1
      <4> QED BY <2>2, <4>1
    <3>6. \A j \in k + 1 .. Len(n) : j \in k .. Len(n)
      BY <3>1, <1>2
    <3>7. us = ts \/ (~InCut(c, n[k].pos) /\ \E x \in Record : us = Append(ts, x) /\ x.pos = Place(c, n[k].pos))
      <4>1. us = ts \/ Adds(h[k - 1], n[k], h[k])
        BY <1>3, <3>2, <3>3
      <4> QED BY <4>1 DEF Adds
    <3> HIDE DEF ts, us
    <3>8. CASE us = ts
      BY <3>1, <3>5, <3>6, <3>8 DEF us
    <3>9. ASSUME NEW x \in Record, us = Append(ts, x), x.pos = Place(c, n[k].pos), ~InCut(c, n[k].pos)
          PROVE  k \in G
      <4>1. /\ l \in Nat /\ DOMAIN ts = 1 .. l /\ DOMAIN us = 1 .. l + 1
            /\ \A i \in 1 .. l : us[i] = ts[i]
            /\ us[l + 1] = x
        BY <3>4, <3>9, AppendProperties, LenProperties
      <4>2. \A j \in k + 1 .. Len(n) :
              ~InCut(c, n[j].pos) => x.pos <= Place(c, n[j].pos)
        <5> TAKE j \in k + 1 .. Len(n)
        <5>1. k \in DOMAIN n /\ j \in DOMAIN n /\ k < j
          BY <1>2, <3>1
        <5>2. n[k].pos <= n[j].pos /\ n[k].pos \in Nat /\ n[j].pos \in Nat
          BY <5>1, <1>2, RecordFields DEF Picture, Rises
        <5> QED BY <5>2, <3>9, PlaceRises
      <4>3. k \in k .. Len(n)
        BY <3>1, <1>2
      <4>4. \A i \in DOMAIN us : i \in 1 .. l \/ i = l + 1
        BY <4>1
      <4>5. Before(us, k)
        <5> TAKE i \in DOMAIN us
        <5> TAKE j \in k + 1 .. Len(n)
        <5>1. CASE i \in 1 .. l
          BY <3>5, <3>6, <4>1, <5>1
        <5>2. CASE i = l + 1
          BY <4>1, <4>2, <5>2
        <5> QED BY <4>4, <5>1, <5>2
      <4>6. Rises(us)
        <5> SUFFICES ASSUME NEW i \in DOMAIN us, NEW j \in DOMAIN us, i < j
                     PROVE  us[i].pos <= us[j].pos
          BY DEF Rises
        <5>1. CASE i \in 1 .. l /\ j \in 1 .. l
          BY <3>5, <4>1, <5>1 DEF Rises
        <5>2. CASE i \in 1 .. l /\ j = l + 1
          BY <3>5, <3>9, <4>1, <4>3, <5>2
        <5>3. CASE i = l + 1
          BY <4>1, <4>4, <5>3
        <5> QED BY <4>4, <5>1, <5>2, <5>3
      <4> QED BY <3>1, <4>5, <4>6 DEF us
    <3> QED BY <3>7, <3>8, <3>9
  <2> HIDE DEF G
  <2> QED BY <1>2, <2>1, <2>2, Induction
<1>13. Len(n) \in 0 .. Len(n) /\ h[Len(n)] = d /\ d \in R
  BY <1>1, <1>2, <1>11 DEF Walk
<1>14. d.src \in Seq(Record)
  BY <1>13 DEF R, Dividing
<1> QED
  BY <1>12, <1>13, <1>14 DEF R, Picture

-----------------------------------------------------------------------------
(* The files, while they are repaired and divided.                         *)

\* A part of a file, and a file with one more picture.
LEMMA PartOfPicture ==
  ASSUME NEW n, Picture(n), NEW m \in 0 .. Len(n)
  PROVE  Picture(SubSeq(n, 1, m))
<1> DEFINE s == SubSeq(n, 1, m)
<1>1. n \in Seq(Record) /\ Len(n) \in Nat /\ DOMAIN n = 1 .. Len(n)
  BY LenProperties DEF Picture
<1>2. s \in Seq(Record) /\ DOMAIN s = 1 .. m /\ \A i \in 1 .. m : s[i] = n[i]
  BY <1>1, FrontElements
<1>3. 1 .. m \subseteq DOMAIN n
  BY <1>1
<1> HIDE DEF s
<1>4. Rises(s)
  BY <1>2, <1>3 DEF Picture, Rises
<1> QED BY <1>2, <1>4 DEF Picture, s

LEMMA PictureAppended ==
  ASSUME NEW n, Picture(n), NEW r \in Record, \A i \in DOMAIN n : n[i].pos <= r.pos
  PROVE  Picture(Append(n, r))
<1> DEFINE s == Append(n, r)
           l == Len(n)
<1>1. n \in Seq(Record) /\ l \in Nat /\ DOMAIN n = 1 .. l
  BY LenProperties DEF Picture
<1>2. /\ s \in Seq(Record) /\ DOMAIN s = 1 .. l + 1 /\ s[l + 1] = r
      /\ \A i \in 1 .. l : s[i] = n[i]
  BY <1>1, AppendProperties, LenProperties
<1> HIDE DEF s
<1>3. Rises(s)
  <2> SUFFICES ASSUME NEW i \in DOMAIN s, NEW j \in DOMAIN s, i < j PROVE s[i].pos <= s[j].pos
    BY DEF Rises
  <2>1. i \in 1 .. l /\ (j \in 1 .. l \/ j = l + 1)
    BY <1>1, <1>2
  <2> QED BY <1>1, <1>2, <2>1 DEF Picture, Rises
<1> QED BY <1>2, <1>3 DEF Picture, s

LEMMA TailOfPicture ==
  ASSUME NEW n, Picture(n), n # <<>>
  PROVE  /\ Head(n) \in Record /\ Head(n) = n[1] /\ Picture(Tail(n)) /\ 1 \in DOMAIN n
         /\ Len(n) \in Nat \ {0} /\ DOMAIN n = 1 .. Len(n) /\ DOMAIN Tail(n) = 1 .. Len(n) - 1
         /\ Len(Tail(n)) = Len(n) - 1
         /\ \A j \in DOMAIN Tail(n) : /\ j + 1 \in DOMAIN n /\ Tail(n)[j] = n[j + 1]
                                      /\ n[1].pos <= Tail(n)[j].pos
<1>1. n \in Seq(Record) /\ Len(n) \in Nat \ {0} /\ DOMAIN n = 1 .. Len(n)
  <2>1. n \in Seq(Record)
    BY DEF Picture
  <2> QED BY <2>1, LenProperties, EmptySeq
<1> DEFINE t == Tail(n)
<1>2. /\ t \in Seq(Record) /\ Len(t) = Len(n) - 1 /\ Head(n) = n[1]
      /\ \A j \in 1 .. Len(n) - 1 : t[j] = n[j + 1]
  BY <1>1
<1>3. DOMAIN t = 1 .. Len(n) - 1
  BY <1>1, <1>2, LenProperties
<1>4. Head(n) \in Record
  BY <1>1, <1>2, ElementOfSeq
<1> HIDE DEF t
<1>5. \A j \in DOMAIN t : j + 1 \in DOMAIN n /\ t[j] = n[j + 1]
  BY <1>1, <1>2, <1>3
<1>6. 1 \in DOMAIN n /\ \A j \in DOMAIN t : 1 < j + 1
  BY <1>1, <1>3
<1>7. \A j \in DOMAIN t : n[1].pos <= t[j].pos
  BY <1>5, <1>6 DEF Picture, Rises
<1>8. Rises(t)
  <2> SUFFICES ASSUME NEW i \in DOMAIN t, NEW j \in DOMAIN t, i < j PROVE t[i].pos <= t[j].pos
    BY DEF Rises
  <2>1. i + 1 < j + 1
    BY <1>3
  <2> QED BY <1>5, <2>1 DEF Picture, Rises
<1> QED BY <1>1, <1>2, <1>3, <1>4, <1>5, <1>6, <1>7, <1>8 DEF Picture, t

Places == {"off", "waiting", "repair", "open", "copy", "delete", "restore", "ask", "active",
           "divide", "inf"}
FilesInv ==
  /\ nav = None \/ Picture(nav)
  /\ bak = None \/ Picture(bak)
  /\ copy \in [todo : Seq(Record), diff : Time, last : Time, ok : BOOLEAN]
  /\ pc = "copy" => /\ Picture(nav) /\ Picture(copy.todo)
                    /\ \A i \in DOMAIN nav, j \in DOMAIN copy.todo : nav[i].pos <= copy.todo[j].pos
  /\ pc \in {"divide", "inf"} => Cutting(cut)
  /\ pc \in Places /\ nrCuts \in 0 .. MaxCuts
  /\ Ordered

LEMMA IdleIs == /\ Idle \in [todo : Seq(Record), diff : Time, last : Time, ok : BOOLEAN]
                /\ <<>> \in Seq(Record) /\ 0 \in Time /\ Picture(<<>>)
<1>1. 0 \in Time /\ <<>> \in Seq(Record)
  BY NavAssumption DEF Time
<1>2. DOMAIN <<>> = {}
  OBVIOUS
<1> QED BY <1>1, <1>2 DEF Idle, Picture, Rises

LEMMA FilesInit == Init => FilesInv
<1> SUFFICES ASSUME Init PROVE FilesInv
  OBVIOUS
<1>1. Picture(nav) /\ bak = None
  BY FilesAssumption DEF Init, Picture
<1>2. stamps = None /\ pc = "off" /\ nrCuts = 0 /\ copy = Idle
  BY DEF Init
<1>3. 0 \in 0 .. MaxCuts
  BY NavAssumption
<1> QED BY <1>1, <1>2, <1>3, IdleIs DEF FilesInv, Ordered, Places

\* A record is copied: it goes behind those that were, in front of those to come.
LEMMA CopyKeepsFiles == ASSUME FilesInv, CopyRecord PROVE FilesInv'
<1> DEFINE r    == Head(copy.todo)
           jump == Minus(r.time, copy.last)
           diff == IF jump >= Gap THEN (copy.diff + jump - Step) % DWord ELSE copy.diff
<1>1. /\ pc = "copy" /\ copy.todo # <<>> /\ pc' = "copy"
      /\ UNCHANGED <<bak, stamps, nrCuts, cut>>
  BY DEF CopyRecord, times, parts
<1>2. PICK written \in BOOLEAN :
        /\ nav' = IF written THEN Append(nav, [r EXCEPT !.time = Minus(@, diff)]) ELSE nav
        /\ copy' = [todo |-> Tail(copy.todo), diff |-> diff, last |-> LastTime(r, diff), ok |-> written]
  BY DEF CopyRecord
<1>3. Picture(nav) /\ Picture(copy.todo) /\ copy.diff \in Time /\ copy.last \in Time
      /\ \A i \in DOMAIN nav, j \in DOMAIN copy.todo : nav[i].pos <= copy.todo[j].pos
  BY <1>1 DEF FilesInv
<1>4. /\ r \in Record /\ r = copy.todo[1] /\ Picture(Tail(copy.todo)) /\ 1 \in DOMAIN copy.todo
      /\ \A j \in DOMAIN Tail(copy.todo) :
           /\ j + 1 \in DOMAIN copy.todo /\ Tail(copy.todo)[j] = copy.todo[j + 1]
           /\ copy.todo[1].pos <= Tail(copy.todo)[j].pos
  BY <1>1, <1>3, TailOfPicture
<1> HIDE DEF r
<1>5. r.pos \in Nat /\ r.time \in Time /\ jump \in Time
  <2>1. r.time \in Time /\ r.time \in Int /\ copy.last \in Int /\ r.pos \in Nat
    BY <1>3, <1>4, RecordFields DEF Time
  <2> QED BY <2>1, MinusIsTime
<1>6. diff \in Time
  <2> HIDE DEF jump
  <2>1. copy.diff + jump - Step \in Int
    BY <1>3, <1>5, NavAssumption DEF Time
  <2>2. \A x \in Int : x % DWord \in Time
    BY NavAssumption DEF Time
  <2> QED BY <1>3, <2>1, <2>2
<1> HIDE DEF diff
<1>7. copy' \in [todo : Seq(Record), diff : Time, last : Time, ok : BOOLEAN]
      /\ Picture(copy.todo')
  BY <1>2, <1>4, <1>5, <1>6 DEF LastTime, Picture
<1> DEFINE put == [r EXCEPT !.time = Minus(@, diff)]
<1>8. put \in Record /\ put.pos = r.pos
  <2>1. r.time \in Int /\ diff \in Int
    BY <1>5, <1>6 DEF Time
  <2>2. Minus(r.time, diff) \in Time
    BY <2>1, MinusIsTime
  <2> QED BY <1>4, <2>2 DEF Record, Time
<1> HIDE DEF put
<1>9. nav' = Append(nav, put) \/ nav' = nav
  BY <1>2 DEF put
<1>10. \A i \in DOMAIN nav : nav[i].pos <= put.pos
  BY <1>3, <1>4, <1>8
<1>11. Picture(nav')
  BY <1>3, <1>8, <1>9, <1>10, PictureAppended
<1>12. \A i \in DOMAIN nav', j \in DOMAIN copy.todo' : nav'[i].pos <= copy.todo'[j].pos
  <2>1. copy.todo' = Tail(copy.todo)
    BY <1>2
  <2>2. ASSUME NEW j \in DOMAIN Tail(copy.todo)
        PROVE  /\ put.pos <= Tail(copy.todo)[j].pos
               /\ \A i \in DOMAIN nav : nav[i].pos <= Tail(copy.todo)[j].pos
    BY <1>3, <1>4, <1>8, <2>2
  <2>3. CASE nav' = nav
    BY <2>1, <2>2, <2>3
  <2>4. CASE nav' = Append(nav, put)
    <3>1. nav \in Seq(Record) /\ Len(nav) \in Nat /\ DOMAIN nav = 1 .. Len(nav)
      BY <1>3, LenProperties DEF Picture
    <3>2. \A i \in DOMAIN nav' : (i \in DOMAIN nav /\ nav'[i] = nav[i]) \/ nav'[i] = put
      BY <1>8, <2>4, <3>1, AppendProperties, LenProperties
    <3> QED BY <2>1, <2>2, <3>2
  <2> QED BY <1>9, <2>3, <2>4
<1> QED
  BY <1>1, <1>7, <1>11, <1>12 DEF FilesInv, Ordered

LEMMA FilesStep == FilesInv /\ [Next]_vars => FilesInv'
<1> SUFFICES ASSUME FilesInv, [Next]_vars PROVE FilesInv'
  OBVIOUS
<1>1. ASSUME UNCHANGED <<nav, bak, stamps, copy, nrCuts>>, pc # "copy", pc' \in Places \ {"copy", "divide", "inf"}
      PROVE  FilesInv'
  BY <1>1 DEF FilesInv, Ordered
<1>2. CASE StartPlayback \/ Ask \/ EndPlayback
  BY <1>1, <1>2 DEF StartPlayback, Ask, EndPlayback, files, times, parts, Places
<1>3. CASE Load
  <2>1. Ordered'
    <3>1. stamps' = NavLoad(nav) /\ (nav = None \/ Picture(nav))
      BY <1>3 DEF Load, FilesInv
    <3> QED BY <3>1, NavLoadIs DEF Ordered, Stamp
  <2>2. pc' \in Places \ {"copy", "divide", "inf"}
    BY <1>3 DEF Load, Places
  <2> QED BY <1>3, <2>1, <2>2 DEF Load, FilesInv, files, parts
<1>4. CASE RenameToBak
  BY <1>4 DEF RenameToBak, FilesInv, Places, Ordered, times, parts
<1>5. CASE OpenNavs
  <2>1. CASE pc' = "ask"
    BY <1>5, <2>1 DEF OpenNavs, FilesInv, Places, Ordered, times, parts
  <2>2. CASE pc' # "ask"
    <3>1. /\ bak # None /\ bak' = bak
          /\ nav' = <<>> /\ copy' = [todo |-> bak, diff |-> 0, last |-> 0, ok |-> FALSE]
          /\ pc' = "copy" /\ UNCHANGED <<stamps, nrCuts>>
      BY <1>5, <2>2 DEF OpenNavs, times, parts
    <3>2. Picture(bak) /\ bak \in Seq(Record)
      BY <3>1 DEF FilesInv, Picture
    <3>3. copy' \in [todo : Seq(Record), diff : Time, last : Time, ok : BOOLEAN] /\ copy.todo' = bak
      BY <3>1, <3>2, IdleIs
    <3>4. Picture(nav') /\ DOMAIN nav' = {}
      BY <3>1, IdleIs
    <3> QED BY <3>1, <3>2, <3>3, <3>4 DEF FilesInv, Places, Ordered
  <2> QED BY <2>1, <2>2
<1>6. CASE CopyRecord
  BY <1>6, CopyKeepsFiles
<1>7. CASE CloseNavs
  BY <1>7, IdleIs DEF CloseNavs, FilesInv, Places, Ordered, files, times, parts
<1>8. CASE DeleteNav \/ RestoreNav
  BY <1>8 DEF DeleteNav, RestoreNav, FilesInv, Places, Ordered, times, parts
<1>9. CASE NavGetBlockTimeStamp
  BY <1>9 DEF NavGetBlockTimeStamp, FilesInv, Ordered, files, parts
<1>10. CASE CutBegins
  <2>1. PICK c \in Cuts : /\ cut'.start = c.start /\ cut'.behind = c.behind
                          /\ cut'.ending = c.ending
                          /\ {"start", "behind", "ending"} \subseteq DOMAIN cut'
    BY <1>10 DEF CutBegins
  <2>2. Cutting(cut')
    <3>1. c \in [start : Nat, behind : Nat, ending : BOOLEAN] /\ c.start <= c.behind
      BY FilesAssumption
    <3> QED BY <2>1, <3>1 DEF Cutting
  <2>3. nrCuts + 1 \in 0 .. MaxCuts
    BY <1>10, NavAssumption DEF CutBegins, FilesInv
  <2>4. pc' = "divide" /\ nrCuts' = nrCuts + 1 /\ UNCHANGED <<stamps, copy>>
        /\ (nav' = None \/ nav' = nav) /\ (bak' = None \/ bak' = nav \/ bak' = bak)
    BY <1>10 DEF CutBegins, times
  <2> QED BY <2>2, <2>3, <2>4 DEF FilesInv, Places, Ordered, Cutting
<1>11. CASE PatchNavFiles
  <2>1. nav' = None \/ (nav' = Divide(bak, cut).src /\ bak # None)
    BY <1>11 DEF PatchNavFiles
  <2>2. pc = "divide" /\ pc' = "inf" /\ UNCHANGED <<stamps, copy, nrCuts>>
    BY <1>11 DEF PatchNavFiles, times
  <2>3. bak' = None \/ bak' = bak
    BY <1>11 DEF PatchNavFiles
  <2>4. nav' = None \/ Picture(nav')
    BY <2>1, <2>2, DivideRises DEF FilesInv
  <2>5. cut' = cut \/ \E d : cut' = Timed(cut, d)
    BY <1>11 DEF PatchNavFiles
  <2>6. Cutting(cut) /\ Cutting(cut')
    <3>1. Cutting(cut)
      BY <2>2 DEF FilesInv
    <3>2. \A d : Cutting(Timed(cut, d))
      BY <3>1 DEF Cutting, Timed
    <3> HIDE DEF Cutting
    <3> QED BY <2>5, <3>1, <3>2
  <2> QED BY <2>2, <2>3, <2>4, <2>6 DEF FilesInv, Places, Ordered, Cutting
<1>12. CASE PatchInfFiles
  BY <1>1, <1>12 DEF PatchInfFiles, times, Places
<1>13. CASE SwitchOff
  <2>1. pc' = "off" /\ stamps' = None /\ copy' = Idle /\ UNCHANGED <<bak, nrCuts>>
    BY <1>13 DEF SwitchOff
  <2>2. nav' = None \/ Picture(nav')
    <3>1. CASE pc = "copy"
      <4>1. PICK m \in 0 .. Len(nav) : nav' = SubSeq(nav, 1, m)
        BY <1>13, <3>1 DEF SwitchOff
      <4> QED BY <3>1, <4>1, PartOfPicture DEF FilesInv
    <3>2. CASE pc = "divide" /\ bak # None
      <4> DEFINE src == Divide(bak, cut).src
      <4>1. Picture(src)
        BY <3>2, DivideRises DEF FilesInv
      <4>2. nav' \in {None} \cup {SubSeq(src, 1, m) : m \in 0 .. Len(src)}
        BY <1>13, <3>2 DEF SwitchOff
      <4> HIDE DEF src
      <4> QED BY <4>1, <4>2, PartOfPicture
    <3>3. CASE ~(pc = "copy") /\ ~(pc = "divide" /\ bak # None)
      <4>1. nav' = nav
        BY <1>13, <3>3 DEF SwitchOff
      <4> QED BY <4>1 DEF FilesInv
    <3> QED BY <3>1, <3>2, <3>3
  <2> QED BY <2>1, <2>2, IdleIs DEF FilesInv, Places, Ordered
<1>14. CASE UNCHANGED vars
  BY <1>14 DEF vars, files, times, parts, FilesInv, Ordered
<1> QED
  BY <1>2, <1>3, <1>4, <1>5, <1>6, <1>7, <1>8, <1>9, <1>10, <1>11, <1>12, <1>13, <1>14 DEF Next

\* Time stamps stay in the order of their blocks.
LEMMA FilesAlways == Spec => []FilesInv
BY FilesInit, FilesStep, PTL DEF Spec

\* The cursor and the files together.
LEMMA CursorAlways == Spec => []CursorInv
<1>1. FilesInv => Ordered
  BY DEF FilesInv
<1> QED BY <1>1, CursorInit, CursorStep, FilesAlways, PTL DEF Spec

\* Whatever is repaired, cut or lost with the power, NavLoad gives time stamps in the
\* order of their blocks, and the cursor stands on one of them.
THEOREM StampsStayOrdered == Spec => []TypeOK
<1>1. FilesInv /\ CursorInv => TypeOK
  BY DEF FilesInv, CursorInv, TypeOK, Places, Attached, Time
<1> QED BY <1>1, FilesAlways, CursorAlways, PTL

\* However NavGetBlockTimeStamp was asked before, its answer is the time of a last I-frame at
\* or before the block.
THEOREM LookupIsRight == Spec => []LookupRight
<1>1. CursorInv => LookupRight
  BY DEF CursorInv
<1> QED BY <1>1, CursorAlways, PTL

-----------------------------------------------------------------------------
(* The repair.                                                             *)

\* A number that differs from one below DWord by a multiple of DWord leaves that one.
LEMMA ModIs ==
  ASSUME NEW x \in Int, NEW y \in Time, NEW m \in Int, x = y + DWord * m
  PROVE  x % DWord = y
<1>1. DWord \in Nat \ {0} /\ y \in 0 .. DWord - 1
  BY NavAssumption DEF Time
<1>2. /\ x \div DWord \in Int /\ x % DWord \in 0 .. DWord - 1
      /\ x = DWord * (x \div DWord) + (x % DWord)
  BY <1>1, SMTT(30)
<1>3. ASSUME NEW p \in Int, NEW q \in Int, NEW a \in 0 .. DWord - 1, NEW b \in 0 .. DWord - 1,
             DWord * p + a = DWord * q + b, p < q
      PROVE  FALSE
  <2>1. DWord * q >= DWord * (p + 1)
    BY <1>1, <1>3
  <2>2. DWord * (p + 1) = DWord * p + DWord
    BY <1>1
  <2>3. DWord * p \in Int /\ DWord * q \in Int /\ DWord * (p + 1) \in Int
    BY <1>1
  <2> QED BY <1>1, <1>3, <2>1, <2>2, <2>3
<1>4. x \div DWord = m
  <2> DEFINE p == x \div DWord
             a == x % DWord
  <2>1. DWord * p + a = DWord * m + y /\ p \in Int /\ a \in 0 .. DWord - 1
    BY <1>1, <1>2
  <2> HIDE DEF p, a
  <2>2. ~(p < m)
    BY <1>1, <1>3, <2>1
  <2>3. ~(m < p)
    BY <1>1, <1>3, <2>1
  <2>4. p = m
    BY <2>1, <2>2, <2>3
  <2> QED BY <2>4 DEF p
<1> DEFINE z == DWord * m
           a == x % DWord
<1>5. z \in Int /\ x = z + a /\ x = y + z /\ a \in Int /\ y \in Int
  BY <1>1, <1>2, <1>4
<1> HIDE DEF z, a
<1>6. a = y
  BY <1>5
<1> QED BY <1>6 DEF a

LEMMA ModSplit ==
  ASSUME NEW x \in Int
  PROVE  x % DWord \in Time /\ \E m \in Int : x = (x % DWord) + DWord * m
<1>1. DWord \in Nat \ {0}
  BY NavAssumption
<1>2. /\ x \div DWord \in Int /\ x % DWord \in 0 .. DWord - 1
      /\ x = DWord * (x \div DWord) + (x % DWord)
  BY <1>1, SMTT(30)
<1> DEFINE q == x \div DWord
           a == x % DWord
<1>3. q \in Int /\ a \in Int /\ x = DWord * q + a
  BY <1>2
<1> HIDE DEF q, a
<1>4. x = a + DWord * q
  BY <1>1, <1>3
<1> QED BY <1>2, <1>3, <1>4 DEF a, Time

\* The step between two times that were both shifted: a gap is closed to Step.
LEMMA ShiftedStep ==
  ASSUME NEW p \in Time, NEW t \in Time, NEW d \in Time,
         NEW e \in Time,
         e = IF Minus(t, p) >= Gap THEN (d + Minus(t, p) - Step) % DWord ELSE d
  PROVE  Minus(Minus(t, e), Minus(p, d)) = IF Minus(t, p) >= Gap THEN Step ELSE Minus(t, p)
<1> DEFINE j == Minus(t, p)
           u == Minus(t, e)
           q == Minus(p, d)
<1>1. DWord \in Nat \ {0} /\ Gap \in 1 .. DWord - 1 /\ Step \in 0 .. Gap - 1
  BY NavAssumption
<1>2. p \in Int /\ t \in Int /\ d \in Int /\ e \in Int
  BY <1>1 DEF Time
<1>3. Step \in Time /\ Gap \in Int /\ Step \in Int
  BY <1>1 DEF Time
<1>4. PICK mj \in Int : t - p = j + DWord * mj
  BY <1>2, ModSplit DEF Minus
<1>5. PICK mu \in Int : t - e = u + DWord * mu
  BY <1>2, ModSplit DEF Minus
<1>6. PICK mq \in Int : p - d = q + DWord * mq
  BY <1>2, ModSplit DEF Minus
<1>7. j \in Time /\ u \in Time /\ q \in Time
  BY <1>2, MinusIsTime
<1>8. Minus(u, q) = (u - q) % DWord
  BY DEF Minus
<1> HIDE DEF j, u, q
<1>9. j \in Int /\ u \in Int /\ q \in Int
  BY <1>1, <1>7 DEF Time
<1>10. \A a, b, c \in Int : DWord * (a + b - c) = DWord * a + DWord * b - DWord * c
  BY <1>1
<1>11. CASE j >= Gap
  <2>1. e = (d + j - Step) % DWord
    BY <1>11 DEF j
  <2>2. PICK me \in Int : d + j - Step = e + DWord * me
    BY <1>2, <1>3, <1>9, <2>1, ModSplit
  <2> DEFINE A == DWord * mj
             B == DWord * mu
             C == DWord * mq
             E == DWord * me
  <2>4. A \in Int /\ B \in Int /\ C \in Int /\ E \in Int
    BY <1>1
  <2>5. t - p = j + A /\ t - e = u + B /\ p - d = q + C /\ d + j - Step = e + E
    BY <1>4, <1>5, <1>6, <2>2
  <2>6. DWord * (mj + mq - mu + me) = A + C - B + E
    BY <1>1
  <2> HIDE DEF A, B, C, E
  <2>7. u - q = Step + (A + C - B + E)
    BY <1>2, <1>3, <1>9, <2>4, <2>5
  <2>8. u - q = Step + DWord * (mj + mq - mu + me) /\ mj + mq - mu + me \in Int /\ u - q \in Int
    BY <1>9, <2>6, <2>7
  <2>9. (u - q) % DWord = Step
    BY <1>3, <2>8, ModIs
  <2> QED BY <1>8, <1>11, <2>9 DEF j, u, q
<1>12. CASE ~(j >= Gap)
  <2>1. e = d
    BY <1>12 DEF j
  <2> DEFINE A == DWord * mj
             B == DWord * mu
             C == DWord * mq
  <2>2. A \in Int /\ B \in Int /\ C \in Int
    BY <1>1
  <2>3. t - p = j + A /\ t - e = u + B /\ p - d = q + C
    BY <1>4, <1>5, <1>6
  <2>4. DWord * (mj + mq - mu) = A + C - B
    BY <1>1
  <2> HIDE DEF A, B, C
  <2>5. u - q = j + (A + C - B)
    BY <1>2, <1>9, <2>1, <2>2, <2>3
  <2>6. u - q = j + DWord * (mj + mq - mu) /\ mj + mq - mu \in Int /\ u - q \in Int
    BY <1>9, <2>4, <2>5
  <2>7. (u - q) % DWord = j
    BY <1>7, <2>6, ModIs
  <2> QED BY <1>8, <1>12, <2>7 DEF j, u, q
<1> QED BY <1>11, <1>12

\* What was copied, and how far the times are shifted by now.
ClosedSoFar ==
  /\ Len(nav) + Len(copy.todo) = Len(bak)
  /\ \A i \in 1 .. Len(copy.todo) : copy.todo[i] = bak[Len(nav) + i]
  /\ copy.last = (IF Len(nav) = 0 THEN 0 ELSE bak[Len(nav)].time)
  /\ (IF Len(nav) = 0 THEN 0 ELSE nav[Len(nav)].time) = Minus(copy.last, copy.diff)
  /\ \A i \in 1 .. Len(nav) :
       IF Jump(bak, i) >= Gap THEN Jump(nav, i) = Step ELSE Jump(nav, i) = Jump(bak, i)
Closing == pc = "copy" => Picture(bak) /\ ClosedSoFar

LEMMA ClosingInit == Init => Closing
BY DEF Init, Closing

LEMMA CopyCloses ==
  ASSUME "write" \notin Faults, FilesInv, Closing, CopyRecord
  PROVE  Closing'
<1> DEFINE r    == Head(copy.todo)
           jump == Minus(r.time, copy.last)
           diff == IF jump >= Gap THEN (copy.diff + jump - Step) % DWord ELSE copy.diff
           put  == [r EXCEPT !.time = Minus(@, diff)]
           k    == Len(nav)
<1>1. pc = "copy" /\ copy.todo # <<>> /\ pc' = "copy" /\ bak' = bak
  BY DEF CopyRecord
<1>2. /\ nav' = Append(nav, put)
      /\ copy' = [todo |-> Tail(copy.todo), diff |-> diff, last |-> r.time, ok |-> TRUE]
  BY DEF CopyRecord, MayFail, LastTime
<1>3. /\ Picture(bak) /\ ClosedSoFar /\ Picture(nav) /\ Picture(copy.todo)
      /\ copy.diff \in Time /\ copy.last \in Time
  BY <1>1 DEF FilesInv, Closing
<1>4. /\ r \in Record /\ r = copy.todo[1]
      /\ Len(copy.todo) \in Nat \ {0}
      /\ Len(Tail(copy.todo)) = Len(copy.todo) - 1
      /\ \A j \in 1 .. Len(copy.todo) - 1 : Tail(copy.todo)[j] = copy.todo[j + 1]
  BY <1>1, <1>3, TailOfPicture
<1>5. r.time \in Time /\ r.time \in Int /\ jump \in Time /\ diff \in Time /\ diff \in Int
  <2> HIDE DEF r
  <2>1. r.time \in Time /\ r.time \in Int /\ copy.last \in Int /\ copy.diff \in Int
    BY <1>3, <1>4, RecordFields, TimesAreInts
  <2>2. jump \in Time /\ jump \in Int
    <3>1. Minus(r.time, copy.last) \in Time
      BY <2>1, MinusIsTime
    <3> QED BY <3>1, TimesAreInts
  <2> HIDE DEF jump
  <2>3. copy.diff + jump - Step \in Int
    BY <2>1, <2>2, NavAssumption
  <2>4. \A x \in Int : x % DWord \in Time
    BY NavAssumption DEF Time
  <2>5. diff \in Time
    BY <1>3, <2>3, <2>4
  <2> HIDE DEF diff
  <2> QED BY <2>1, <2>2, <2>5, TimesAreInts
<1>6. put \in Record /\ put.time = Minus(r.time, diff)
  <2> HIDE DEF r, diff
  <2>1. Minus(r.time, diff) \in Time
    BY <1>5, MinusIsTime
  <2> QED BY <1>4, <2>1 DEF Record, Time
<1>7. /\ k \in Nat /\ Len(nav') = k + 1 /\ nav'[k + 1] = put
      /\ \A i \in 1 .. k : nav'[i] = nav[i]
      /\ r = bak[k + 1]
  <2>1. nav \in Seq(Record)
    BY <1>3 DEF Picture
  <2>2. r = bak[k + 1]
    BY <1>3, <1>4 DEF ClosedSoFar
  <2> HIDE DEF put, r
  <2> QED BY <1>2, <1>6, <2>1, <2>2, AppendProperties, LenProperties
<1> DEFINE before == IF k = 0 THEN 0 ELSE nav[k].time
<1>8. before = Minus(copy.last, copy.diff)
  BY <1>3 DEF ClosedSoFar
<1>9. Minus(put.time, before) = IF jump >= Gap THEN Step ELSE jump
  <2> HIDE DEF r, put, before, k
  <2>1. diff = IF Minus(r.time, copy.last) >= Gap
               THEN (copy.diff + Minus(r.time, copy.last) - Step) % DWord ELSE copy.diff
    OBVIOUS
  <2> HIDE DEF diff
  <2>2. Minus(Minus(r.time, diff), Minus(copy.last, copy.diff))
          = IF Minus(r.time, copy.last) >= Gap THEN Step ELSE Minus(r.time, copy.last)
    BY <1>3, <1>5, <2>1, ShiftedStep, ZenonT(30)
  <2> QED BY <1>6, <1>8, <2>2
<1>10. Jump(bak, k + 1) = jump /\ Jump(nav', k + 1) = Minus(put.time, before)
  <2>1. k = 0 => k + 1 = 1
    OBVIOUS
  <2>2. k # 0 => k + 1 # 1 /\ (k + 1) - 1 = k /\ k \in 1 .. k
    BY <1>7
  <2>3. copy.last = IF k = 0 THEN 0 ELSE bak[k].time
    BY <1>3 DEF ClosedSoFar
  <2>4. Jump(bak, k + 1) = Minus(r.time, copy.last)
    <3> HIDE DEF r, k
    <3> QED BY <1>7, <2>1, <2>2, <2>3 DEF Jump
  <2>5. Jump(nav', k + 1) = Minus(put.time, before)
    <3> HIDE DEF put, k
    <3> QED BY <1>7, <2>1, <2>2 DEF Jump
  <2> QED BY <2>4, <2>5
<1> HIDE DEF r, put, jump, diff, before, k
<1>11. \A i \in 1 .. k : Jump(nav', i) = Jump(nav, i)
  <2> TAKE i \in 1 .. k
  <2>1. i # 1 => i - 1 \in 1 .. k
    BY <1>7
  <2> QED BY <1>7, <2>1 DEF Jump
<1>12. \A i \in 1 .. k + 1 : i \in 1 .. k \/ i = k + 1
  BY <1>7
<1>13. \A i \in 1 .. k + 1 :
         IF Jump(bak, i) >= Gap THEN Jump(nav', i) = Step ELSE Jump(nav', i) = Jump(bak, i)
  <2> SUFFICES ASSUME NEW i \in 1 .. k + 1
               PROVE IF Jump(bak, i) >= Gap THEN Jump(nav', i) = Step ELSE Jump(nav', i) = Jump(bak, i)
    OBVIOUS
  <2>1. CASE i \in 1 .. k
    BY <1>3, <1>11, <2>1 DEF ClosedSoFar, k
  <2>2. CASE i = k + 1
    BY <1>9, <1>10, <2>2
  <2> QED BY <1>12, <2>1, <2>2
<1>19. Len(copy.todo') = Len(copy.todo) - 1 /\ copy.todo' = Tail(copy.todo)
  BY <1>2, <1>4
<1>14. Len(nav') + Len(copy.todo') = Len(bak)
  <2>1. k + Len(copy.todo) = Len(bak)
    BY <1>3 DEF ClosedSoFar, k
  <2>2. \A a \in Nat, b \in Nat \ {0} : (a + 1) + (b - 1) = a + b
    OBVIOUS
  <2>3. (k + 1) + (Len(copy.todo) - 1) = k + Len(copy.todo)
    BY <1>4, <1>7, <2>2
  <2>4. Len(nav') + Len(copy.todo') = (k + 1) + (Len(copy.todo) - 1)
    BY <1>7, <1>19, Zenon
  <2> QED BY <2>1, <2>3, <2>4
<1>15. \A i \in 1 .. Len(copy.todo') : copy.todo'[i] = bak[Len(nav') + i]
  <2> TAKE i \in 1 .. Len(copy.todo')
  <2>1. i \in 1 .. Len(copy.todo) - 1 /\ i + 1 \in 1 .. Len(copy.todo) /\ k + (i + 1) = (k + 1) + i
    BY <1>4, <1>7, <1>19
  <2>2. copy.todo[i + 1] = bak[k + (i + 1)]
    BY <1>3, <2>1 DEF ClosedSoFar, k
  <2> QED BY <1>4, <1>7, <1>19, <2>1, <2>2
<1>16. copy.last' = bak[k + 1].time /\ nav'[k + 1].time = Minus(copy.last', copy.diff')
  BY <1>2, <1>6, <1>7
<1>17. k + 1 # 0 /\ Len(nav') = k + 1
  BY <1>7
<1>18. ClosedSoFar'
  BY <1>1, <1>13, <1>14, <1>15, <1>16, <1>17 DEF ClosedSoFar, Jump
<1> QED BY <1>1, <1>3, <1>18 DEF Closing, Picture, Rises

LEMMA ClosingStep ==
  ASSUME "write" \notin Faults PROVE FilesInv /\ Closing /\ [Next]_vars => Closing'
<1> SUFFICES ASSUME FilesInv, Closing, [Next]_vars PROVE Closing'
  OBVIOUS
<1>1. CASE pc' # "copy"
  BY <1>1 DEF Closing
<1>2. CASE OpenNavs /\ pc' = "copy"
  <2>1. /\ bak # None /\ bak' = bak /\ nav' = <<>>
        /\ copy' = [todo |-> bak, diff |-> 0, last |-> 0, ok |-> FALSE]
    BY <1>2 DEF OpenNavs
  <2>2. Picture(bak) /\ Len(bak) \in Nat
    BY <2>1, LenProperties DEF FilesInv, Picture
  <2>3. Len(nav') = 0 /\ copy.todo' = bak /\ copy.last' = 0 /\ copy.diff' = 0
    BY <2>1
  <2>4. Minus(0, 0) = 0
    <3>1. 0 % DWord = 0
      BY NavAssumption
    <3> QED BY <3>1 DEF Minus
  <2>5. 0 + Len(bak) = Len(bak) /\ 1 .. 0 = {} /\ \A i \in 1 .. Len(bak) : 0 + i = i
    BY <2>2
  <2>6. ClosedSoFar'
    BY <2>1, <2>3, <2>4, <2>5 DEF ClosedSoFar
  <2> QED BY <2>1, <2>2, <2>6 DEF Closing, Picture, Rises
<1>3. CASE CopyRecord
  BY <1>3, CopyCloses
<1>4. CASE NavGetBlockTimeStamp
  BY <1>4 DEF NavGetBlockTimeStamp, Closing
<1>5. CASE UNCHANGED vars
  BY <1>5 DEF vars, files, Closing, ClosedSoFar, Jump, Picture, Rises
<1>6. CASE StartPlayback \/ Load \/ RenameToBak \/ CloseNavs \/ DeleteNav \/ RestoreNav \/ Ask
           \/ EndPlayback
  BY <1>1, <1>6 DEF StartPlayback, Load, RenameToBak, CloseNavs, DeleteNav, RestoreNav, Ask,
     EndPlayback
<1>7. CASE CutBegins \/ PatchNavFiles \/ PatchInfFiles \/ SwitchOff
  BY <1>1, <1>7 DEF CutBegins, PatchNavFiles, PatchInfFiles, SwitchOff
<1> QED
  BY <1>1, <1>2, <1>3, <1>4, <1>5, <1>6, <1>7 DEF Next

\* If every record is written, PatchOldNavFile leaves a file with all records, in which
\* each gap has become Step and every other step is as it was, whatever times the file
\* begins with, goes back to or wraps around at.
THEOREM GapsAreClosed == ASSUME "write" \notin Faults PROVE Spec => GapsClosed
<1>1. FilesInv /\ Closing =>
        (CloseNavs /\ pc' = "waiting" =>
           /\ Len(nav) = Len(bak)
           /\ \A i \in DOMAIN nav :
                IF Jump(bak, i) >= Gap THEN Jump(nav, i) = Step ELSE Jump(nav, i) = Jump(bak, i))
  <2> SUFFICES ASSUME FilesInv, Closing, CloseNavs
               PROVE  /\ Len(nav) = Len(bak)
                      /\ \A i \in DOMAIN nav :
                           IF Jump(bak, i) >= Gap THEN Jump(nav, i) = Step
                           ELSE Jump(nav, i) = Jump(bak, i)
    OBVIOUS
  <2>1. pc = "copy" /\ copy.todo = <<>>
    BY DEF CloseNavs
  <2>2. Picture(nav) /\ ClosedSoFar
    BY <2>1 DEF FilesInv, Closing
  <2>3. Len(nav) \in Nat /\ DOMAIN nav = 1 .. Len(nav) /\ Len(copy.todo) = 0
    BY <2>1, <2>2, LenProperties DEF Picture
  <2> QED BY <2>2, <2>3 DEF ClosedSoFar
<1> QED BY <1>1, FilesAlways, ClosingInit, ClosingStep, PTL DEF Spec, GapsClosed

-----------------------------------------------------------------------------
(* The bookmarks.                                                          *)

\* Going through a list of bookmarks, each is kept or not.
Keeping(h, s, S) ==
  /\ h \in [0 .. Len(s) -> Seq(Nat)] /\ h[0] = <<>>
  /\ \A k \in 1 .. Len(s) : h[k] = IF s[k] \in S THEN Append(h[k - 1], s[k]) ELSE h[k - 1]

LEMMA ThoseWalk ==
  ASSUME NEW s \in Seq(Nat), NEW S
  PROVE  \E h : Keeping(h, s, S) /\ h[Len(s)] = Those(s, S)
<1> DEFINE R == Seq(Nat)
           step(kept, b) == IF b \in S THEN Append(kept, b) ELSE kept
           Fold(it) == it = [t \in SUBSET DOMAIN s |->
                               IF t = {} THEN <<>> ELSE step(it[t \ {Max(t)}], s[Max(t)])]
           it == CHOOSE y : Fold(y)
           f == [p \in R \X Nat |-> step(p[1], p[2])]
<1>1. Those(s, S) = it[DOMAIN s]
  BY DEF Those, FoldLeft, MapThenFoldSet
<1>2. Len(s) \in Nat /\ DOMAIN s = 1 .. Len(s) /\ \A k \in 1 .. Len(s) : s[k] \in Nat
  BY LenProperties, ElementOfSeq
<1> HIDE DEF R
<1>3. \A kept \in R, b \in Nat : step(kept, b) \in R /\ f[<<kept, b>>] = step(kept, b)
  <2> TAKE kept \in R, b \in Nat
  <2>1. step(kept, b) \in R
    BY AppendProperties DEF R
  <2>2. f[<<kept, b>>] = step(kept, b)
    <3> HIDE DEF step
    <3> QED OBVIOUS
  <2> QED BY <2>1, <2>2
<1>4. f \in [R \X Nat -> R] /\ <<>> \in R
  <2>1. \A p \in R \X Nat : p[1] \in R /\ p[2] \in Nat
    OBVIOUS
  <2>2. \A p \in R \X Nat : step(p[1], p[2]) \in R
    BY <1>3, <2>1
  <2>3. f \in [R \X Nat -> R]
    <3> HIDE DEF step
    <3> QED BY <2>2
  <2> QED BY <2>3 DEF R
<1> HIDE DEF f
<1>5. \A t \in SUBSET DOMAIN s : t # {} => /\ Max(t) \in t /\ s[Max(t)] \in Nat
                                          /\ t \ {Max(t)} \in SUBSET DOMAIN s
  BY LastOfSubset
<1>6. PICK g \in [SUBSET DOMAIN s -> R] : Folding(g, f, <<>>, s)
  BY <1>4, FoldExists
<1> HIDE DEF step
<1>7. Fold(g)
  <2>1. \A t \in SUBSET DOMAIN s :
          g[t] = IF t = {} THEN <<>> ELSE step(g[t \ {Max(t)}], s[Max(t)])
    BY <1>3, <1>5, <1>6 DEF Folding
  <2> QED BY <2>1
<1>8. Fold(it)
  <2> HIDE DEF Fold
  <2> QED BY <1>7
<1>9. FoldingIn(it, R, f, <<>>, s)
  <2>1. \A t \in SUBSET DOMAIN s :
          it[t] = IF t = {} THEN <<>> ELSE step(it[t \ {Max(t)}], s[Max(t)])
    <3> HIDE DEF it
    <3> QED BY <1>8
  <2> HIDE DEF it
  <2> QED BY <1>3, <1>5, <2>1 DEF FoldingIn
<1> HIDE DEF it
<1>10. PICK h : Walk(h, it, R, f, <<>>, s)
  BY <1>4, <1>9, FoldPath, Zenon
<1>11. \A k \in 1 .. Len(s) : h[k] = IF s[k] \in S THEN Append(h[k - 1], s[k]) ELSE h[k - 1]
  <2> TAKE k \in 1 .. Len(s)
  <2>1. k - 1 \in 0 .. Len(s)
    BY <1>2
  <2>2. h[k - 1] \in R /\ s[k] \in Nat
    BY <1>2, <1>10, <2>1 DEF Walk
  <2> QED BY <1>3, <1>10, <2>2 DEF Walk, step
<1> QED
  BY <1>1, <1>2, <1>10, <1>11 DEF Walk, Keeping, R

\* What is kept of a climbing list climbs, holds the bookmarks that are asked for, and two
\* selections without a common bookmark are together not longer than the list.
Kept(h, s, S) ==
  \A k \in 0 .. Len(s) :
    /\ Climbs(h[k])
    /\ \A x : x \in ToSet(h[k]) <=> \E i \in 1 .. k : x = s[i] /\ s[i] \in S

LEMMA KeptSoFar ==
  ASSUME NEW s \in Seq(Nat), Climbs(s), NEW S, NEW h, Keeping(h, s, S)
  PROVE  Kept(h, s, S)
<1>1. Len(s) \in Nat /\ DOMAIN s = 1 .. Len(s) /\ \A k \in 1 .. Len(s) : s[k] \in Nat
  BY LenProperties, ElementOfSeq
<1> DEFINE Right(k) == /\ Climbs(h[k])
                       /\ \A x : x \in ToSet(h[k]) <=> \E i \in 1 .. k : x = s[i] /\ s[i] \in S
           G == {k \in 0 .. Len(s) : Right(k)}
<1>2. 0 \in G
  <2>1. h[0] = <<>> /\ DOMAIN <<>> = {} /\ 1 .. 0 = {} /\ 0 \in 0 .. Len(s)
    BY <1>1 DEF Keeping
  <2> QED BY <2>1 DEF Climbs, ToSet
<1>3. ASSUME NEW k \in 1 .. Len(s), k - 1 \in G PROVE k \in G
  <2> DEFINE u == h[k - 1]
             w == h[k]
             l == Len(u)
  <2>1. /\ k - 1 \in 0 .. Len(s) /\ k \in 0 .. Len(s) /\ k \in 1 .. k
        /\ \A i \in 1 .. k : i = k \/ i \in 1 .. k - 1
        /\ \A i \in 1 .. k - 1 : i \in 1 .. k /\ i \in 1 .. Len(s) /\ i < k
    BY <1>1
  <2>2. u \in Seq(Nat) /\ s[k] \in Nat /\ w = (IF s[k] \in S THEN Append(u, s[k]) ELSE u)
    BY <1>1, <2>1 DEF Keeping
  <2>3. Climbs(u) /\ \A x : x \in ToSet(u) <=> \E i \in 1 .. k - 1 : x = s[i] /\ s[i] \in S
    BY <1>3
  <2> HIDE DEF u, w
  <2>4. CASE s[k] \notin S
    <3>1. w = u
      BY <2>2, <2>4
    <3>2. \A x : x \in ToSet(w) <=> \E i \in 1 .. k : x = s[i] /\ s[i] \in S
      BY <2>1, <2>3, <2>4, <3>1
    <3> QED BY <2>1, <2>3, <3>1, <3>2 DEF w
  <2>5. CASE s[k] \in S
    <3>1. /\ l \in Nat /\ DOMAIN u = 1 .. l /\ DOMAIN w = 1 .. l + 1
          /\ \A i \in 1 .. l : w[i] = u[i]
          /\ w[l + 1] = s[k]
      BY <2>2, <2>5, AppendProperties, LenProperties
    <3>2. \A i \in DOMAIN w : i \in 1 .. l \/ i = l + 1
      BY <3>1
    <3>3. \A i \in 1 .. l : u[i] < s[k]
      <4> TAKE i \in 1 .. l
      <4>1. u[i] \in ToSet(u)
        BY <3>1 DEF ToSet
      <4>2. PICK j \in 1 .. k - 1 : u[i] = s[j]
        BY <2>3, <4>1
      <4> QED BY <1>1, <2>1, <4>2 DEF Climbs
    <3>4. Climbs(w)
      <4> SUFFICES ASSUME NEW i \in DOMAIN w, NEW j \in DOMAIN w, i < j PROVE w[i] < w[j]
        BY DEF Climbs
      <4>1. i \in 1 .. l /\ (j \in 1 .. l \/ j = l + 1)
        BY <3>1, <3>2
      <4> QED BY <2>3, <3>1, <3>3, <4>1 DEF Climbs
    <3>5. \A x : x \in ToSet(w) <=> x \in ToSet(u) \/ x = s[k]
      <4>1. \A i \in 1 .. l : i \in DOMAIN w
        BY <3>1
      <4>2. l + 1 \in DOMAIN w
        BY <3>1
      <4> QED BY <3>1, <3>2, <4>1, <4>2 DEF ToSet
    <3>6. \A x : x \in ToSet(w) <=> \E i \in 1 .. k : x = s[i] /\ s[i] \in S
      BY <2>1, <2>3, <2>5, <3>5
    <3> QED BY <2>1, <3>4, <3>6 DEF w
  <2> QED BY <2>4, <2>5
<1>4. \A k \in 0 .. Len(s) : k \in G
  <2> HIDE DEF G
  <2> QED BY <1>1, <1>2, <1>3, Induction
<1> QED BY <1>4 DEF Kept

LEMMA ThoseAre ==
  ASSUME NEW s \in Seq(Nat), Climbs(s), NEW S
  PROVE  /\ Those(s, S) \in Seq(Nat) /\ Climbs(Those(s, S))
         /\ ToSet(Those(s, S)) = {b \in ToSet(s) : b \in S}
<1>1. Len(s) \in Nat /\ DOMAIN s = 1 .. Len(s) /\ Len(s) \in 0 .. Len(s)
  BY LenProperties
<1>2. PICK h : Keeping(h, s, S) /\ h[Len(s)] = Those(s, S)
  BY ThoseWalk
<1>3. /\ Climbs(Those(s, S))
      /\ \A x : x \in ToSet(Those(s, S)) <=> \E i \in 1 .. Len(s) : x = s[i] /\ s[i] \in S
  <2>1. Kept(h, s, S)
    BY <1>2, KeptSoFar, Zenon
  <2>2. /\ Climbs(h[Len(s)])
        /\ \A x : x \in ToSet(h[Len(s)]) <=> \E i \in 1 .. Len(s) : x = s[i] /\ s[i] \in S
    <3> DEFINE N == Len(s)
    <3>1. N \in 0 .. Len(s)
      BY <1>1
    <3> QED BY <2>1, <3>1, Zenon DEF Kept
  <2> QED BY <1>2, <2>2, Zenon
<1>4. \A x : x \in {b \in ToSet(s) : b \in S} <=> \E i \in 1 .. Len(s) : x = s[i] /\ s[i] \in S
  BY <1>1 DEF ToSet
<1>5. Those(s, S) \in Seq(Nat)
  BY <1>1, <1>2 DEF Keeping
<1> QED BY <1>3, <1>4, <1>5

LEMMA ThoseDisjoint ==
  ASSUME NEW s \in Seq(Nat), NEW S, NEW T, S \cap T = {}
  PROVE  Len(Those(s, S)) + Len(Those(s, T)) <= Len(s)
<1>1. Len(s) \in Nat
  BY LenProperties
<1>2. PICK g : Keeping(g, s, S) /\ g[Len(s)] = Those(s, S)
  BY ThoseWalk
<1>3. PICK h : Keeping(h, s, T) /\ h[Len(s)] = Those(s, T)
  BY ThoseWalk
<1> DEFINE p(k) == Len(g[k])
           q(k) == Len(h[k])
           G == {k \in 0 .. Len(s) : p(k) + q(k) <= k}
<1>4. /\ p(0) = 0 /\ q(0) = 0
      /\ \A k \in 0 .. Len(s) : p(k) \in Nat /\ q(k) \in Nat
  BY <1>1, <1>2, <1>3, LenProperties DEF Keeping
<1>5. \A k \in 1 .. Len(s) : p(k) = IF s[k] \in S THEN p(k - 1) + 1 ELSE p(k - 1)
  <2> TAKE k \in 1 .. Len(s)
  <2>1. k - 1 \in 0 .. Len(s) /\ s[k] \in Nat
    BY <1>1, ElementOfSeq
  <2>2. g[k - 1] \in Seq(Nat)
    BY <1>2, <2>1 DEF Keeping
  <2>3. g[k] = IF s[k] \in S THEN Append(g[k - 1], s[k]) ELSE g[k - 1]
    BY <1>2 DEF Keeping
  <2> QED BY <2>1, <2>2, <2>3, AppendProperties
<1>6. \A k \in 1 .. Len(s) : q(k) = IF s[k] \in T THEN q(k - 1) + 1 ELSE q(k - 1)
  <2> TAKE k \in 1 .. Len(s)
  <2>1. k - 1 \in 0 .. Len(s) /\ s[k] \in Nat
    BY <1>1, ElementOfSeq
  <2>2. h[k - 1] \in Seq(Nat)
    BY <1>3, <2>1 DEF Keeping
  <2>3. h[k] = IF s[k] \in T THEN Append(h[k - 1], s[k]) ELSE h[k - 1]
    BY <1>3 DEF Keeping
  <2> QED BY <2>1, <2>2, <2>3, AppendProperties
<1> HIDE DEF p, q
<1>7. 0 \in G
  BY <1>1, <1>4
<1>8. ASSUME NEW k \in 1 .. Len(s), k - 1 \in G PROVE k \in G
  <2>1. k - 1 \in 0 .. Len(s) /\ k \in 0 .. Len(s) /\ k \in Nat
    BY <1>1
  <2>2. p(k - 1) \in Nat /\ q(k - 1) \in Nat /\ p(k - 1) + q(k - 1) <= k - 1
    BY <1>4, <1>8, <2>1
  <2>3. s[k] \notin S \/ s[k] \notin T
    OBVIOUS
  <2>4. p(k) + q(k) <= k
    <3>0. PICK a \in Nat, b \in Nat : a = p(k - 1) /\ b = q(k - 1)
      BY <2>2
    <3>1. CASE s[k] \in S
      <4>1. p(k) = a + 1 /\ q(k) = b
        BY <1>5, <1>6, <2>3, <3>0, <3>1
      <4>2. a + b <= k - 1
        BY <2>2, <3>0
      <4>3. (a + 1) + b <= k
        BY <2>1, <4>2
      <4> QED BY <4>1, <4>3, Zenon
    <3>2. CASE s[k] \notin S
      <4>1. p(k) = a /\ (q(k) = b \/ q(k) = b + 1)
        BY <1>5, <1>6, <3>0, <3>2
      <4>2. a + b <= k - 1
        BY <2>2, <3>0
      <4>3. a + b <= k /\ a + (b + 1) <= k
        BY <2>1, <4>2
      <4> QED BY <4>1, <4>3, Zenon
    <3> QED BY <3>1, <3>2
  <2> QED BY <2>1, <2>4
<1>9. \A k \in 0 .. Len(s) : k \in G
  <2> HIDE DEF G
  <2> QED BY <1>1, <1>7, <1>8, Induction
<1>10. p(Len(s)) + q(Len(s)) <= Len(s)
  BY <1>1, <1>9
<1> QED BY <1>2, <1>3, <1>10 DEF p, q

\* Two climbing lists one behind the other, and a list that is moved.
LEMMA ClimbsOn ==
  ASSUME NEW a \in Seq(Nat), NEW b \in Seq(Nat), Climbs(a), Climbs(b),
         \A x \in ToSet(a), y \in ToSet(b) : x < y
  PROVE  /\ a \o b \in Seq(Nat) /\ Climbs(a \o b) /\ Len(a \o b) = Len(a) + Len(b)
         /\ ToSet(a \o b) = ToSet(a) \cup ToSet(b)
<1> DEFINE r == a \o b
           m == Len(a)
           n == Len(b)
<1>1. /\ r \in Seq(Nat) /\ Len(r) = m + n
      /\ \A k \in 1 .. m : r[k] = a[k]
      /\ \A k \in 1 .. n : r[m + k] = b[k]
  BY ConcatElements
<1>2. /\ m \in Nat /\ n \in Nat /\ DOMAIN a = 1 .. m /\ DOMAIN b = 1 .. n /\ DOMAIN r = 1 .. m + n
  BY <1>1, LenProperties
<1> HIDE DEF r, m, n
<1>3. \A i \in DOMAIN r : (i \in DOMAIN a /\ r[i] = a[i])
                          \/ (i - m \in DOMAIN b /\ r[i] = b[i - m] /\ i = m + (i - m) /\ i > m)
  <2> TAKE i \in DOMAIN r
  <2>1. CASE i \in 1 .. m
    BY <1>1, <1>2, <2>1
  <2>2. CASE ~(i \in 1 .. m)
    <3>1. i - m \in 1 .. n /\ i = m + (i - m) /\ i > m
      BY <1>2, <2>2
    <3>2. r[m + (i - m)] = b[i - m]
      BY <1>1, <3>1
    <3> QED BY <1>2, <3>1, <3>2
  <2> QED BY <2>1, <2>2
<1>4. Climbs(r)
  <2> SUFFICES ASSUME NEW i \in DOMAIN r, NEW j \in DOMAIN r, i < j PROVE r[i] < r[j]
    BY DEF Climbs
  <2>1. i \in Int /\ j \in Int /\ m \in Int
    BY <1>2
  <2>2. CASE i \in DOMAIN a /\ r[i] = a[i] /\ j \in DOMAIN a /\ r[j] = a[j]
    BY <2>2 DEF Climbs
  <2>3. CASE i \in DOMAIN a /\ r[i] = a[i] /\ j - m \in DOMAIN b /\ r[j] = b[j - m]
    BY <2>3 DEF ToSet
  <2>4. CASE i - m \in DOMAIN b /\ r[i] = b[i - m] /\ j - m \in DOMAIN b /\ r[j] = b[j - m]
    <3>1. i - m < j - m
      BY <2>1
    <3> QED BY <2>4, <3>1 DEF Climbs
  <2>5. ~(i > m /\ j \in DOMAIN a)
    BY <1>2, <2>1
  <2> QED BY <1>3, <2>2, <2>3, <2>4, <2>5
<1>5. ToSet(r) = ToSet(a) \cup ToSet(b)
  <2>1. ToSet(r) \subseteq ToSet(a) \cup ToSet(b)
    BY <1>3 DEF ToSet
  <2>2. \A i \in DOMAIN a : i \in DOMAIN r /\ r[i] = a[i]
    BY <1>1, <1>2
  <2>3. \A i \in DOMAIN b : m + i \in DOMAIN r /\ r[m + i] = b[i]
    BY <1>1, <1>2
  <2> QED BY <2>1, <2>2, <2>3, SMTT(30) DEF ToSet
<1> QED BY <1>1, <1>4, <1>5 DEF r, m, n

LEMMA MovedClimbs ==
  ASSUME NEW s \in Seq(Nat), Climbs(s), NEW by \in Nat, \A x \in ToSet(s) : x >= by
  PROVE  /\ Moved(s, by) \in Seq(Nat) /\ Climbs(Moved(s, by)) /\ Len(Moved(s, by)) = Len(s)
         /\ \A y : y \in ToSet(Moved(s, by)) <=> \E x \in ToSet(s) : y = x - by
<1> DEFINE r == Moved(s, by)
<1>1. Len(s) \in Nat /\ DOMAIN s = 1 .. Len(s) /\ \A i \in DOMAIN s : s[i] \in Nat /\ s[i] \in ToSet(s)
  BY LenProperties, ElementOfSeq DEF ToSet
<1>2. r = [i \in 1 .. Len(s) |-> s[i] - by]
  BY <1>1 DEF Moved
<1>3. \A i \in 1 .. Len(s) : s[i] - by \in Nat
  BY <1>1
<1>4. r \in Seq(Nat) /\ Len(r) = Len(s) /\ DOMAIN r = 1 .. Len(s)
  BY <1>1, <1>2, <1>3
<1>5. \A i \in 1 .. Len(s) : r[i] = s[i] - by
  BY <1>2
<1> HIDE DEF r
<1>6. Climbs(r)
  BY <1>1, <1>4, <1>5 DEF Climbs
<1>7. \A y : y \in ToSet(r) <=> \E x \in ToSet(s) : y = x - by
  BY <1>1, <1>4, <1>5 DEF ToSet
<1> QED BY <1>4, <1>6, <1>7 DEF r

\* The first bookmarks of a climbing list climb.
LEMMA FirstClimb ==
  ASSUME NEW s \in Seq(Nat), Climbs(s), NEW n \in Nat, n <= Len(s)
  PROVE  /\ SubSeq(s, 1, n) \in Seq(Nat) /\ Climbs(SubSeq(s, 1, n)) /\ Len(SubSeq(s, 1, n)) = n
         /\ n = Len(s) => SubSeq(s, 1, n) = s
         /\ ToSet(SubSeq(s, 1, n)) \subseteq ToSet(s)
<1>1. Len(s) \in Nat /\ DOMAIN s = 1 .. Len(s) /\ \A i \in 1 .. Len(s) : s[i] \in Nat
  BY LenProperties, ElementOfSeq
<1>2. \A i \in 1 .. n : s[i] \in Nat /\ i \in DOMAIN s
  BY <1>1
<1> DEFINE r == SubSeq(s, 1, n)
<1>3. /\ r \in Seq(Nat)
      /\ Len(r) = IF 1 <= n THEN n - 1 + 1 ELSE 0
      /\ \A i \in 1 .. n - 1 + 1 : r[i] = s[1 + i - 1]
  BY <1>2, SubSeqProperties
<1> HIDE DEF r
<1>4. Len(r) = n /\ DOMAIN r = 1 .. n
  BY <1>3, LenProperties
<1>5. \A i \in 1 .. n : r[i] = s[i]
  <2>1. \A i \in 1 .. n : i \in 1 .. n - 1 + 1 /\ 1 + i - 1 = i
    OBVIOUS
  <2> QED BY <1>3, <2>1
<1>6. Climbs(r)
  BY <1>2, <1>4, <1>5 DEF Climbs
<1>7. n = Len(s) => r = s
  BY <1>1, <1>3, <1>4, <1>5, SeqEqual
<1>8. ToSet(r) \subseteq ToSet(s)
  BY <1>2, <1>4, <1>5 DEF ToSet
<1> QED BY <1>3, <1>4, <1>6, <1>7, <1>8 DEF r

\* The cut points in blocks.
LEMMA CutPointBlocks ==
  ASSUME Cutting(cut)
  PROVE  StartBlock \in Nat /\ CutBlocks \in Nat /\ BehindBlock = StartBlock + CutBlocks
<1>1. cut.start \in Nat /\ cut.behind \in Nat /\ cut.start <= cut.behind /\ PerBlock \in Nat \ {0}
  BY NavAssumption DEF Cutting
<1>2. cut.start + PerBlock - 1 \in Nat
  BY <1>1
<1>3. PerBlock \div 2 \in Nat
  BY <1>1
<1>4. cut.behind - cut.start + PerBlock \div 2 \in Nat
  BY <1>1, <1>3
<1> QED BY <1>1, <1>2, <1>4, DivMonotone DEF StartBlock, CutBlocks, BehindBlock

\* The bookmark b is one of the recording, at the same picture, or the one at the cut.
Comes(b) == \/ b < StartBlock /\ b \in ToSet(bookmarks)
            \/ b >= StartBlock /\ b + CutBlocks \in ToSet(bookmarks)
            \/ b = StartBlock /\ Inner
AllMarks == InFront \o Marked \o Moved(Beyond, CutBlocks)
MarksInv == bookmarks \in Seq(Nat) /\ Climbs(bookmarks)

\* What the source recording keeps: those in front of the cut, one at the cut, and those
\* behind it, which come nearer by the blocks that are cut out.
LEMMA AllMarksAre ==
  ASSUME MarksInv, Cutting(cut)
  PROVE  /\ AllMarks \in Seq(Nat) /\ Climbs(AllMarks)
         /\ Len(AllMarks) \in Nat /\ Len(AllMarks) <= Len(bookmarks) + 1
         /\ \A b \in ToSet(AllMarks) : Comes(b)
         /\ InFront \in Seq(Nat) /\ Climbs(InFront)
         /\ \A b \in ToSet(InFront) : b < StartBlock /\ Comes(b)
         /\ Beyond # <<>> => Len(InFront) < Len(bookmarks)
         /\ \A b \in ToSet(bookmarks) :
              /\ b >= Margin /\ b + Margin < StartBlock => b \in ToSet(AllMarks)
              /\ b >= BehindBlock + Margin => b - CutBlocks \in ToSet(AllMarks)
<1> DEFINE s == bookmarks
           S == StartBlock
           D == CutBlocks
           B == BehindBlock
           Before == {b \in Nat : b >= Margin /\ b + Margin < S}
           After  == {b \in Nat : b >= B + Margin}
<1>1. S \in Nat /\ D \in Nat /\ B = S + D /\ Margin \in Nat \ {0}
  BY CutPointBlocks, NavAssumption
<1>2. s \in Seq(Nat) /\ Climbs(s) /\ \A b \in ToSet(s) : b \in Nat
  BY ElementOfSeq DEF MarksInv, ToSet
<1>3. InFront = Those(s, Before) /\ Beyond = Those(s, After)
  BY DEF InFront, Beyond
<1> HIDE DEF s, S, D, B
<1>4. Before \cap After = {}
  BY <1>1
<1> HIDE DEF Before, After
<1>5. /\ InFront \in Seq(Nat) /\ Climbs(InFront)
      /\ ToSet(InFront) = {b \in ToSet(s) : b \in Before}
  BY <1>2, <1>3, ThoseAre, Zenon
<1>6. /\ Beyond \in Seq(Nat) /\ Climbs(Beyond)
      /\ ToSet(Beyond) = {b \in ToSet(s) : b \in After}
  BY <1>2, <1>3, ThoseAre, Zenon
<1>7. Len(InFront) + Len(Beyond) <= Len(s)
  BY <1>2, <1>3, <1>4, ThoseDisjoint
<1>8. \A x \in ToSet(Beyond) : x \in Nat /\ x >= B + Margin
  BY <1>6 DEF After
<1>9. \A x \in ToSet(Beyond) : x >= D
  BY <1>1, <1>8
<1> DEFINE m == Moved(Beyond, D)
<1>10. /\ m \in Seq(Nat) /\ Climbs(m) /\ Len(m) = Len(Beyond)
       /\ \A y : y \in ToSet(m) <=> \E x \in ToSet(Beyond) : y = x - D
  BY <1>1, <1>6, <1>9, MovedClimbs
<1> HIDE DEF m
<1>11. \A y \in ToSet(m) : y \in Nat /\ y > S
  <2> TAKE y \in ToSet(m)
  <2>1. PICK x \in ToSet(Beyond) : y = x - D
    BY <1>10
  <2> QED BY <1>1, <1>8, <2>1
<1>12. \A x \in ToSet(InFront) : x \in Nat /\ x < S
  BY <1>1, <1>5 DEF Before
<1>13. /\ Marked \in Seq(Nat) /\ Climbs(Marked) /\ Len(Marked) \in 0 .. 1
       /\ \A x \in ToSet(Marked) : x = S /\ Inner
  <2>1. (Inner /\ Marked = <<S>>) \/ Marked = <<>>
    BY DEF Marked, S
  <2>2. CASE Inner /\ Marked = <<S>>
    <3>1. DOMAIN Marked = {1} /\ Marked[1] = S /\ Len(Marked) = 1 /\ Marked \in Seq(Nat)
      BY <1>1, <2>2
    <3> QED BY <2>2, <3>1 DEF Climbs, ToSet
  <2>3. CASE Marked = <<>>
    <3>1. DOMAIN Marked = {} /\ Len(Marked) = 0 /\ Marked \in Seq(Nat)
      BY <2>3
    <3> QED BY <3>1 DEF Climbs, ToSet
  <2> QED BY <2>1, <2>2, <2>3
<1> DEFINE a == InFront \o Marked
<1>14. \A x \in ToSet(InFront), y \in ToSet(Marked) : x < y
  BY <1>12, <1>13
<1>15. /\ a \in Seq(Nat) /\ Climbs(a) /\ Len(a) = Len(InFront) + Len(Marked)
       /\ ToSet(a) = ToSet(InFront) \cup ToSet(Marked)
  BY <1>5, <1>13, <1>14, ClimbsOn
<1> HIDE DEF a
<1>16. \A x \in ToSet(a), y \in ToSet(m) : x < y
  <2> TAKE x \in ToSet(a), y \in ToSet(m)
  <2>1. x \in Nat /\ x <= S
    BY <1>1, <1>12, <1>13, <1>15
  <2> QED BY <1>1, <1>11, <2>1
<1>17. /\ a \o m \in Seq(Nat) /\ Climbs(a \o m) /\ Len(a \o m) = Len(a) + Len(m)
       /\ ToSet(a \o m) = ToSet(a) \cup ToSet(m)
  BY <1>10, <1>15, <1>16, ClimbsOn
<1>18. AllMarks = a \o m
  BY DEF AllMarks, a, m, D
<1>19. Len(AllMarks) \in Nat /\ Len(AllMarks) <= Len(s) + 1
  <2>1. /\ Len(InFront) \in Nat /\ Len(Marked) \in 0 .. 1 /\ Len(Beyond) \in Nat /\ Len(s) \in Nat
        /\ Len(AllMarks) = Len(InFront) + Len(Marked) + Len(Beyond)
    BY <1>2, <1>5, <1>6, <1>10, <1>13, <1>15, <1>17, <1>18, LenProperties
  <2>2. ASSUME NEW p \in Nat, NEW q \in 0 .. 1, NEW r \in Nat, NEW n \in Nat, p + r <= n
        PROVE  p + q + r \in Nat /\ p + q + r <= n + 1
    BY <2>2
  <2>3. PICK p \in Nat, q \in 0 .. 1, r \in Nat, n \in Nat :
          p = Len(InFront) /\ q = Len(Marked) /\ r = Len(Beyond) /\ n = Len(s)
    BY <2>1
  <2>4. Len(AllMarks) = p + q + r /\ p + r <= n
    BY <1>7, <2>1, <2>3, Zenon
  <2>5. p + q + r \in Nat /\ p + q + r <= n + 1
    BY <2>2, <2>4
  <2> QED BY <2>3, <2>4, <2>5, Zenon
<1>20. ASSUME NEW b \in ToSet(s)
       PROVE  /\ b >= Margin /\ b + Margin < S => b \in ToSet(AllMarks)
              /\ b >= B + Margin => b - D \in ToSet(AllMarks)
  <2>1. b \in Nat
    BY <1>2
  <2>2. b >= Margin /\ b + Margin < S => b \in ToSet(InFront)
    BY <1>5, <2>1 DEF Before
  <2>3. b >= B + Margin => b - D \in ToSet(m)
    BY <1>6, <1>10, <2>1 DEF After
  <2> QED BY <1>15, <1>17, <1>18, <2>2, <2>3
<1>21. \A b \in ToSet(InFront) : b < S /\ Comes(b)
  <2>1. \A b \in ToSet(InFront) : b < S /\ b \in ToSet(s)
    BY <1>5, <1>12
  <2> QED BY <2>1 DEF Comes, S, s
<1>22. ASSUME NEW b \in ToSet(AllMarks) PROVE Comes(b)
  <2>1. b \in ToSet(InFront) \/ b \in ToSet(Marked) \/ b \in ToSet(m)
    BY <1>15, <1>17, <1>18, <1>22
  <2>2. CASE b \in ToSet(InFront)
    BY <1>21, <2>2
  <2>3. CASE b \in ToSet(Marked)
    BY <1>13, <2>3 DEF Comes, S
  <2>4. CASE b \in ToSet(m)
    <3>1. PICK x \in ToSet(Beyond) : b = x - D
      BY <1>10, <2>4
    <3>2. x \in ToSet(s) /\ b + D = x
      BY <1>1, <1>6, <1>8, <3>1
    <3>3. b >= S
      BY <1>1, <1>11, <2>4
    <3> QED BY <3>2, <3>3 DEF Comes, S, s, D
  <2> QED BY <2>1, <2>2, <2>3, <2>4
<1>23. Beyond # <<>> => Len(InFront) < Len(s)
  <2>1. Beyond # <<>> => Len(Beyond) # 0
    BY <1>6, EmptySeq
  <2>2. Len(InFront) \in Nat /\ Len(Beyond) \in Nat /\ Len(s) \in Nat
    BY <1>2, <1>5, <1>6, LenProperties
  <2> QED BY <1>7, <2>1, <2>2
<1> QED BY <1>5, <1>17, <1>18, <1>19, <1>20, <1>21, <1>22, <1>23 DEF s, S, B, D

\* The first MaxBookmarks of a climbing list.
LEMMA CappedIs ==
  ASSUME NEW s \in Seq(Nat), Climbs(s)
  PROVE  /\ Capped(s) \in Seq(Nat) /\ Climbs(Capped(s)) /\ ToSet(Capped(s)) \subseteq ToSet(s)
         /\ Len(Capped(s)) <= MaxBookmarks /\ (Len(s) <= MaxBookmarks => Capped(s) = s)
<1>1. MaxBookmarks \in Nat /\ Len(s) \in Nat
  BY NavAssumption, LenProperties
<1> DEFINE n == IF Len(s) > MaxBookmarks THEN MaxBookmarks ELSE Len(s)
<1>2. Capped(s) = SubSeq(s, 1, n)
  BY DEF Capped
<1>3. n \in Nat /\ n <= Len(s) /\ n <= MaxBookmarks /\ (Len(s) <= MaxBookmarks => n = Len(s))
  BY <1>1
<1> HIDE DEF n
<1> QED BY <1>2, <1>3, FirstClimb

\* The .inf file has room for MaxBookmarks of them, and for one at the cut behind as many.
LEMMA SourceMarksAre ==
  ASSUME MarksInv, Cutting(cut)
  PROVE  /\ SourceMarks \in Seq(Nat) /\ Climbs(SourceMarks)
         /\ \A b \in ToSet(SourceMarks) : Comes(b)
         /\ Len(bookmarks) <= MaxBookmarks => Len(SourceMarks) <= MaxBookmarks
         /\ Len(bookmarks) < MaxBookmarks => SourceMarks = AllMarks
<1>1. /\ AllMarks \in Seq(Nat) /\ Climbs(AllMarks)
      /\ Len(AllMarks) \in Nat /\ Len(AllMarks) <= Len(bookmarks) + 1
      /\ \A b \in ToSet(AllMarks) : Comes(b)
      /\ InFront \in Seq(Nat) /\ Climbs(InFront)
      /\ \A b \in ToSet(InFront) : b < StartBlock /\ Comes(b)
      /\ Beyond # <<>> => Len(InFront) < Len(bookmarks)
  BY AllMarksAre
<1>2. MaxBookmarks \in Nat /\ Len(bookmarks) \in Nat /\ Len(InFront) \in Nat /\ StartBlock \in Nat
  BY <1>1, NavAssumption, LenProperties, CutPointBlocks DEF MarksInv
<1> DEFINE full == Inner /\ Beyond # <<>> /\ Len(InFront) >= MaxBookmarks
<1>3. CASE full
  <2>1. SourceMarks = Append(Capped(InFront), StartBlock)
    BY <1>3 DEF SourceMarks
  <2>2. ~(Len(bookmarks) <= MaxBookmarks)
    BY <1>1, <1>2, <1>3
  <2>3. /\ Capped(InFront) \in Seq(Nat) /\ Climbs(Capped(InFront))
        /\ ToSet(Capped(InFront)) \subseteq ToSet(InFront)
    BY <1>1, CappedIs
  <2> DEFINE c == Capped(InFront)
             o == <<StartBlock>>
  <2> HIDE DEF c
  <2>4. o \in Seq(Nat) /\ Climbs(o) /\ ToSet(o) = {StartBlock}
    <3>1. o \in Seq(Nat) /\ DOMAIN o = {1} /\ o[1] = StartBlock
      BY <1>2
    <3> QED BY <3>1 DEF Climbs, ToSet
  <2>5. \A x \in ToSet(c), y \in ToSet(o) : x < y
    BY <1>1, <2>3, <2>4 DEF c
  <2>6. c \in Seq(Nat) /\ Climbs(c)
    BY <2>3 DEF c
  <2> HIDE DEF o
  <2>7. /\ c \o o \in Seq(Nat) /\ Climbs(c \o o)
        /\ ToSet(c \o o) = ToSet(c) \cup ToSet(o)
    BY <2>4, <2>5, <2>6, ClimbsOn
  <2>8. SourceMarks = c \o o
    BY <1>2, <2>1, <2>6, AppendIsConcat DEF c, o
  <2>9. \A b \in ToSet(SourceMarks) : Comes(b)
    <3>1. Comes(StartBlock)
      BY <1>3 DEF Comes
    <3> QED BY <1>1, <2>3, <2>4, <2>7, <2>8, <3>1 DEF c
  <2>10. ~(Len(bookmarks) < MaxBookmarks)
    BY <1>2, <2>2
  <2> QED BY <2>2, <2>7, <2>8, <2>9, <2>10
<1>4. CASE ~full
  <2>1. SourceMarks = Capped(AllMarks)
    BY <1>4 DEF SourceMarks, AllMarks
  <2>2. Len(bookmarks) < MaxBookmarks => Len(AllMarks) <= MaxBookmarks
    BY <1>1, <1>2
  <2> QED BY <1>1, <2>1, <2>2, CappedIs
<1> QED BY <1>3, <1>4

\* The bookmarks of the .inf file are in order.
LEMMA MarksAlways == Spec => []MarksInv
<1>1. Init => MarksInv
  BY NavAssumption DEF Init, MarksInv, Climbs
<1>2. FilesInv /\ MarksInv /\ [Next]_vars => MarksInv'
  <2> SUFFICES ASSUME FilesInv, MarksInv, [Next]_vars PROVE MarksInv'
    OBVIOUS
  <2>1. CASE UNCHANGED bookmarks
    BY <2>1 DEF MarksInv, Climbs
  <2>2. CASE PatchInfFiles /\ bookmarks' = SourceMarks
    <3>1. Cutting(cut)
      BY <2>2 DEF PatchInfFiles, FilesInv
    <3>2. SourceMarks \in Seq(Nat) /\ Climbs(SourceMarks)
      BY <3>1, SourceMarksAre
    <3> QED BY <2>2, <3>2 DEF MarksInv, Climbs
  <2>3. UNCHANGED bookmarks \/ (PatchInfFiles /\ bookmarks' = SourceMarks)
    BY DEF Next, vars, files, inf, StartPlayback, Load, RenameToBak, OpenNavs, CopyRecord, CloseNavs,
           DeleteNav, RestoreNav, Ask, NavGetBlockTimeStamp, EndPlayback, CutBegins, PatchNavFiles,
           PatchInfFiles, SwitchOff
  <2> QED BY <2>1, <2>2, <2>3
<1> QED BY <1>1, <1>2, FilesAlways, PTL DEF Spec

\* What is cut out begins with the block StartBlock.
LEMMA PartMarksAre ==
  ASSUME MarksInv, Cutting(cut)
  PROVE  /\ Climbs(Moved(Within, StartBlock))
         /\ \A b \in ToSet(Moved(Within, StartBlock)) :
              b < CutBlocks /\ b + StartBlock \in ToSet(bookmarks)
         /\ \A b \in ToSet(bookmarks) :
              b >= StartBlock + Margin /\ b + Margin < BehindBlock =>
                b - StartBlock \in ToSet(Moved(Within, StartBlock))
<1> DEFINE s == bookmarks
           S == StartBlock
           D == CutBlocks
           B == BehindBlock
           Mid == {b \in Nat : b >= S + Margin /\ b + Margin < B}
<1>1. S \in Nat /\ D \in Nat /\ B = S + D /\ Margin \in Nat \ {0}
  BY CutPointBlocks, NavAssumption
<1>2. s \in Seq(Nat) /\ Climbs(s) /\ \A b \in ToSet(s) : b \in Nat
  BY ElementOfSeq DEF MarksInv, ToSet
<1>3. Within = Those(s, Mid)
  BY DEF Within
<1> HIDE DEF s, S, D, B, Mid
<1>4. /\ Within \in Seq(Nat) /\ Climbs(Within)
      /\ ToSet(Within) = {b \in ToSet(s) : b \in Mid}
  BY <1>2, <1>3, ThoseAre, Zenon
<1>5. \A x \in ToSet(Within) : x \in Nat /\ x >= S + Margin /\ x + Margin < B
  BY <1>4 DEF Mid
<1>6. \A x \in ToSet(Within) : x >= S
  BY <1>1, <1>5
<1> DEFINE m == Moved(Within, S)
<1>7. Climbs(m) /\ \A y : y \in ToSet(m) <=> \E x \in ToSet(Within) : y = x - S
  BY <1>1, <1>4, <1>6, MovedClimbs
<1> HIDE DEF m
<1>8. \A y \in ToSet(m) : y < D /\ y + S \in ToSet(s)
  <2> TAKE y \in ToSet(m)
  <2>1. PICK x \in ToSet(Within) : y = x - S
    BY <1>7
  <2>2. y + S = x /\ y < D
    BY <1>1, <1>5, <2>1
  <2> QED BY <1>4, <2>1, <2>2
<1>9. \A b \in ToSet(s) : b >= S + Margin /\ b + Margin < B => b - S \in ToSet(m)
  BY <1>2, <1>4, <1>7 DEF Mid
<1> QED BY <1>7, <1>8, <1>9 DEF m, s, S, D, B

\* PatchInfFiles divides the bookmarks of a recording: those of both parts stay in order,
\* each comes from one at the same picture or is the one at the cut, and while there is room
\* none is lost but close to a cut point or to the beginning.
THEOREM BookmarksAreDivided == Spec => BookmarksDivided
<1> DEFINE Near(b) == \E c \in {0, StartBlock, BehindBlock} : c - Margin <= b /\ b < c + Margin
           Settled(b) ==
             \/ b \in ToSet(bookmarks') /\ b < StartBlock
             \/ b - CutBlocks \in ToSet(bookmarks') /\ b >= BehindBlock
             \/ b - StartBlock \in ToSet(partMarks') /\ b >= StartBlock /\ b < BehindBlock
             \/ Near(b)
           Divided ==
             /\ Climbs(bookmarks') /\ Climbs(partMarks')
             /\ Len(bookmarks) <= MaxBookmarks => Len(bookmarks') <= MaxBookmarks
             /\ \A b \in ToSet(bookmarks') : Comes(b)
             /\ \A b \in ToSet(partMarks') : b < CutBlocks /\ b + StartBlock \in ToSet(bookmarks)
             /\ Len(bookmarks) < MaxBookmarks => \A b \in ToSet(bookmarks) : Settled(b)
<1>1. ASSUME FilesInv, MarksInv, PatchInfFiles, partMarks' # None PROVE Divided
  <2>1. Cutting(cut)
    BY <1>1 DEF PatchInfFiles, FilesInv
  <2>2. bookmarks' = SourceMarks /\ partMarks' = Moved(Within, StartBlock)
    BY <1>1 DEF PatchInfFiles
  <2>3. /\ Climbs(bookmarks') /\ \A b \in ToSet(bookmarks') : Comes(b)
        /\ Len(bookmarks) <= MaxBookmarks => Len(bookmarks') <= MaxBookmarks
    BY <1>1, <2>1, <2>2, SourceMarksAre
  <2>4. /\ Climbs(partMarks')
        /\ \A b \in ToSet(partMarks') : b < CutBlocks /\ b + StartBlock \in ToSet(bookmarks)
    BY <1>1, <2>1, <2>2, PartMarksAre
  <2>5. ASSUME Len(bookmarks) < MaxBookmarks, NEW b \in ToSet(bookmarks) PROVE Settled(b)
    <3>1. /\ StartBlock \in Nat /\ CutBlocks \in Nat /\ BehindBlock = StartBlock + CutBlocks
          /\ Margin \in Nat \ {0}
      BY <2>1, CutPointBlocks, NavAssumption
    <3>2. b \in Nat
      BY <1>1, ElementOfSeq DEF MarksInv, ToSet
    <3>3. bookmarks' = AllMarks
      BY <1>1, <2>1, <2>2, <2>5, SourceMarksAre
    <3>4. CASE b >= Margin /\ b + Margin < StartBlock
      <4>1. b \in ToSet(bookmarks')
        BY <1>1, <2>1, <2>5, <3>3, <3>4, AllMarksAre
      <4> QED BY <3>1, <3>2, <3>4, <4>1
    <3>5. CASE b >= BehindBlock + Margin
      <4>1. b - CutBlocks \in ToSet(bookmarks')
        BY <1>1, <2>1, <2>5, <3>3, <3>5, AllMarksAre
      <4> QED BY <3>1, <3>2, <3>5, <4>1
    <3>6. CASE b >= StartBlock + Margin /\ b + Margin < BehindBlock
      <4>1. b - StartBlock \in ToSet(partMarks')
        BY <1>1, <2>1, <2>2, <2>5, <3>6, PartMarksAre
      <4> QED BY <3>1, <3>2, <3>6, <4>1
    <3>7. CASE /\ b >= Margin /\ ~(b + Margin < StartBlock) /\ ~(b >= BehindBlock + Margin)
               /\ ~(b >= StartBlock + Margin /\ b + Margin < BehindBlock)
      <4>1. \/ StartBlock - Margin <= b /\ b < StartBlock + Margin
            \/ BehindBlock - Margin <= b /\ b < BehindBlock + Margin
        BY <3>1, <3>2, <3>7
      <4> QED BY <4>1
    <3>8. CASE b < Margin
      <4>1. 0 - Margin <= b /\ b < 0 + Margin
        BY <3>1, <3>2, <3>8
      <4> QED BY <4>1
    <3>9. b >= Margin \/ b < Margin
      BY <3>1, <3>2
    <3> QED BY <3>4, <3>5, <3>6, <3>7, <3>8, <3>9
  <2> QED BY <2>3, <2>4, <2>5
<1>2. FilesInv /\ MarksInv /\ [Next]_vars => [PatchInfFiles /\ partMarks' # None => Divided]_vars
  BY <1>1
<1> HIDE DEF Divided
<1>3. Spec => [][PatchInfFiles /\ partMarks' # None => Divided]_vars
  BY <1>2, FilesAlways, MarksAlways, PTL DEF Spec
<1> QED BY <1>3 DEF BookmarksDivided, Divided, Comes
=============================================================================
