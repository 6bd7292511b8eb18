-------------------------- MODULE CutProcessProofs --------------------------
(***************************************************************************)
(* Theorems about CutProcess, for every length of the recording, every     *)
(* limit of the firmware and every set of faults: the cuts, the swapping   *)
(* and renaming implement Recording, and a job that reports success has    *)
(* restored the sync bytes.                                                *)
(***************************************************************************)
EXTENDS CutProcess, ListLemmas, FiniteSetTheorems, FunctionTheorems, SequenceTheorems, TLAPS

-----------------------------------------------------------------------------
(* Positions in a file.                                                    *)

LEMMA IdsAreFinite ==
  /\ IsFiniteSet(Ids) /\ Ids \subseteq Nat /\ Cardinality(Ids) = NrBlocks
  /\ NrBlocks \in Nat /\ Radius \in Nat /\ Limit \in Nat /\ DWord \in Nat
BY CutConstants, FS_Interval DEF Ids

LEMMA FilesAreFinite ==
  ASSUME NEW F, F \subseteq Ids
  PROVE  IsFiniteSet(F) /\ F \subseteq Nat /\ Size(F) \in 0 .. NrBlocks
<1>1. IsFiniteSet(F) /\ Cardinality(F) <= NrBlocks
  BY IdsAreFinite, FS_Subset
<1>2. Cardinality(F) \in Nat
  BY <1>1, FS_CardinalityType
<1> QED
  BY <1>1, <1>2, IdsAreFinite DEF Size

\* The position of a block is one of the file, and later blocks are further on.
LEMMA PositionInFile ==
  ASSUME NEW F, IsFiniteSet(F), F \subseteq Nat
  PROVE  /\ \A x \in F : Pos(F, x) \in 0 .. Size(F) - 1
         /\ \A x, y \in F : x < y => Pos(F, x) < Pos(F, y)
<1> DEFINE below(x) == {y \in F : y < x}
<1>1. ASSUME NEW S, NEW T, S \subseteq T, T \subseteq F, S # T
      PROVE  Cardinality(S) \in Nat /\ Cardinality(T) \in Nat /\ Cardinality(S) < Cardinality(T)
  <2>1. IsFiniteSet(T)
    BY <1>1, FS_Subset
  <2>2. /\ IsFiniteSet(S) /\ Cardinality(S) <= Cardinality(T)
        /\ Cardinality(T) = Cardinality(S) => S = T
    BY <1>1, <2>1, FS_Subset
  <2>3. Cardinality(S) \in Nat /\ Cardinality(T) \in Nat
    BY <2>1, <2>2, FS_CardinalityType
  <2> QED
    BY <1>1, <2>2, <2>3
<1>2. ASSUME NEW x \in F PROVE Pos(F, x) \in 0 .. Size(F) - 1
  <2>1. below(x) \subseteq F /\ x \notin below(x) /\ below(x) # F
    OBVIOUS
  <2>2. /\ Cardinality(below(x)) \in Nat /\ Cardinality(F) \in Nat
        /\ Cardinality(below(x)) < Cardinality(F)
    BY <1>1, <2>1
  <2> QED
    BY <2>2 DEF Pos, Size
<1>3. ASSUME NEW x \in F, NEW y \in F, x < y PROVE Pos(F, x) < Pos(F, y)
  <2>0. \A z \in F : z \in Int
    OBVIOUS
  <2>1. x \in below(y) /\ x \notin below(x)
    BY <1>3, <2>0
  <2>2. below(x) \subseteq below(y)
    <3> SUFFICES ASSUME NEW z \in F, z < x PROVE z < y
      OBVIOUS
    <3> QED
      BY <1>3, <2>0
  <2>3. below(y) \subseteq F /\ below(x) # below(y)
    BY <2>1
  <2> HIDE DEF below
  <2>4. Cardinality(below(x)) < Cardinality(below(y))
    BY <1>1, <2>2, <2>3
  <2> QED
    BY <2>4 DEF Pos, below
<1> QED
  BY <1>2, <1>3

\* Every position of a file is that of one of its blocks.
LEMMA PositionIsTaken ==
  ASSUME NEW F, IsFiniteSet(F), F \subseteq Nat
  PROVE  /\ [x \in F |-> Pos(F, x)] \in Bijection(F, 0 .. Size(F) - 1)
         /\ \A p \in 0 .. Size(F) - 1 : \E x \in F : Pos(F, x) = p
<1> DEFINE f == [x \in F |-> Pos(F, x)]
           T == 0 .. Size(F) - 1
<1>0. /\ \A x \in F : Pos(F, x) \in 0 .. Size(F) - 1
      /\ \A x, y \in F : x < y => Pos(F, x) < Pos(F, y)
  BY PositionInFile
<1>1. Size(F) \in Nat
  BY FS_CardinalityType DEF Size
<1>2. IsFiniteSet(T) /\ Cardinality(T) = Size(F)
  <2> DEFINE b == Size(F) - 1
  <2>1. b \in Int
    BY <1>1
  <2> HIDE DEF b
  <2>2. IsFiniteSet(0 .. b) /\ Cardinality(0 .. b) = IF 0 > b THEN 0 ELSE b - 0 + 1
    BY <2>1, FS_Interval
  <2> QED
    BY <1>1, <2>2 DEF b
<1>3. f \in Injection(F, T)
  <2>1. f \in [F -> T]
    BY PositionInFile
  <2>2. \A x, y \in F : f[x] = f[y] => x = y
    <3> SUFFICES ASSUME NEW x \in F, NEW y \in F, Pos(F, x) = Pos(F, y)
                 PROVE  x = y
      OBVIOUS
    <3>1. Pos(F, x) \in Int /\ Pos(F, y) \in Int /\ x \in Nat /\ y \in Nat
      BY <1>0
    <3>2. ~(x < y) /\ ~(y < x)
      BY <1>0, <3>1
    <3> QED
      BY <3>1, <3>2
  <2> QED
    BY <2>1, <2>2 DEF Injection, IsInjective
<1>4. f \in Surjection(F, T)
  BY <1>2, <1>3, FS_Injection DEF Size
<1>5. \A p \in T : \E x \in F : f[x] = p
  BY <1>4 DEF Surjection
<1> QED
  BY <1>3, <1>4, <1>5 DEF Bijection

\* A range of a file has as many blocks as it is long.
LEMMA PartSize ==
  ASSUME NEW F, IsFiniteSet(F), F \subseteq Nat,
         NEW s \in Nat, NEW e \in Nat, s <= e, e <= Size(F)
  PROVE  /\ Size(Part(F, s, e)) = e - s
         /\ Size(F \ Part(F, s, e)) = Size(F) - (e - s)
<1> DEFINE P == Part(F, s, e)
           f == [x \in F |-> Pos(F, x)]
           g == [x \in P |-> Pos(F, x)]
           T == s .. e - 1
<1>1. Size(F) \in Nat
  BY FS_CardinalityType DEF Size
<1>2. IsFiniteSet(T) /\ Cardinality(T) = e - s
  <2> DEFINE b == e - 1
  <2>1. b \in Int
    OBVIOUS
  <2> HIDE DEF b
  <2>2. IsFiniteSet(s .. b) /\ Cardinality(s .. b) = IF s > b THEN 0 ELSE b - s + 1
    BY <2>1, FS_Interval
  <2> QED
    BY <2>2 DEF b
<1>3. P \subseteq F /\ IsFiniteSet(P)
  BY FS_Subset DEF Part
<1>4. g \in Bijection(P, T)
  <2>1. \A x \in F : Pos(F, x) \in 0 .. Size(F) - 1
    BY PositionInFile
  <2>2. \A x \in P : Pos(F, x) \in T
    BY <2>1 DEF Part
  <2>3. \A x, y \in P : g[x] = g[y] => x = y
    <3>1. \A x, y \in F : f[x] = f[y] => x = y
      BY PositionIsTaken DEF Bijection, Injection, IsInjective
    <3> QED
      BY <1>3, <3>1
  <2>4. \A p \in T : \E x \in P : g[x] = p
    <3> TAKE p \in T
    <3>1. p \in 0 .. Size(F) - 1
      BY <1>1
    <3>2. PICK x \in F : Pos(F, x) = p
      BY <3>1, PositionIsTaken
    <3> QED
      BY <3>2 DEF Part
  <2> QED
    BY <2>2, <2>3, <2>4 DEF Bijection, Injection, IsInjective, Surjection
<1>5. Cardinality(P) = e - s
  <2>1. ExistsBijection(P, T)
    BY <1>4 DEF ExistsBijection
  <2> QED
    BY <1>2, <1>3, <2>1, FS_Bijection
<1>6. F \cap P = P
  BY <1>3
<1>7. Cardinality(F \ P) = Cardinality(F) - Cardinality(P)
  BY <1>6, FS_Difference
<1> QED
  BY <1>5, <1>7 DEF Size

-----------------------------------------------------------------------------
(* The inductive invariant.                                                *)

Working == {"next", "cut", "truncate", "tidy", "swap", "swapback", "restart", "adjust"}
Chosen  == Working \ {"next"}
Ended   == {"save", "ended"}

MarkerType == [block : Int, sel : BOOLEAN, at : Int]
JobType == [keep : BOOLEAN, split : BOOLEAN, multi : BOOLEAN, left : Int, i : Int,
            active : Int]
CutType == [w : Int, start : Int, behind : Int, special : BOOLEAN, trunc : BOOLEAN,
            name : Names, exact : BOOLEAN, ok : BOOLEAN]

FreeCuts == Names \ Taken

Files ==
  /\ rec \subseteq Ids /\ temp \subseteq Ids /\ rec \cap temp = {}
  /\ cuts \in [Names -> SUBSET Nat]
  /\ \A n \in Taken : cuts[n] # {}
  /\ \A n \in FreeCuts : cuts[n] \subseteq Ids /\ cuts[n] \cap (rec \cup temp) = {}
  /\ \A m, n \in FreeCuts : m # n => cuts[m] \cap cuts[n] = {}
Records ==
  /\ job \in JobType /\ cut \in CutType
  /\ asked = [segs |-> asked.segs, rec |-> asked.rec, files |-> asked.files,
              marks |-> asked.marks, keep |-> asked.keep, split |-> asked.split,
              made |-> asked.made, result |-> asked.result, drift |-> asked.drift]
  /\ asked.keep \in BOOLEAN
Runs ==
  /\ pc \in {"edit"} \cup Working \cup Ended
  /\ runs \in Nat /\ (pc # "edit" => runs # 0)
  /\ runs # 0 => job.keep = asked.keep
  /\ total \in 0 .. NrBlocks
List ==
  pc \in {"edit"} \cup Working => markers \in Seq(MarkerType) /\ 2 <= Len(markers)
Loop ==
  pc \in Working =>
    /\ job.multi => job.i \in 0 .. Len(markers) - 2
    /\ ~job.multi => job.left = 1 /\ job.active \in 0 .. Len(markers) - 2
    /\ job.split => ~job.multi /\ job.keep
Work ==
  pc \in Chosen =>
    /\ cut.w = IF job.multi THEN job.i ELSE job.active
    /\ cut.name \in FreeCuts
    /\ cut.special => job.keep /\ ~cut.trunc
    /\ cut.special /\ pc \in {"cut", "tidy", "swap"} => cuts[cut.name] = {}
    /\ pc = "cut" => /\ cuts[cut.name] = {}
                     /\ cut.special => cut.start = 0
                     /\ cut.trunc => cut.behind = Clamped(DWord - 1)
    /\ pc = "truncate" => /\ cut.trunc
                          /\ job.keep => Size(rec) - cut.start <= 2 * Radius
    /\ pc = "swapback" => temp # {}
Temporary ==
  /\ DisableSpecialEnd => ~cut.special
  /\ temp # {} => /\ cut.special
                  /\ pc \in {"tidy", "swap", "swapback", "restart", "adjust"} \cup Ended
CInv == Files /\ Records /\ Runs /\ List /\ Loop /\ Work

\* The assumption of the refinement: a temporary file that an earlier job has
\* left behind is deleted by the next one, so either there is only one job or the
\* end is always cut off directly.
NoLeftover == MaxRuns <= 1 \/ DisableSpecialEnd

-----------------------------------------------------------------------------
(* Types of the operators.                                                 *)

LEMMA MarkerIsTyped ==
  ASSUME NEW F, F \subseteq Ids, NEW b \in Nat, NEW sel \in BOOLEAN
  PROVE  Marker(b, F, sel) \in MarkerType
<1>0. NrBlocks \in Nat
  BY IdsAreFinite
<1>1. IsFiniteSet(F) /\ F \subseteq Nat /\ Size(F) \in Nat
  <2>1. IsFiniteSet(F) /\ F \subseteq Nat /\ Size(F) \in 0 .. NrBlocks
    BY FilesAreFinite
  <2> QED
    BY <2>1, <1>0
<1>2. ASSUME b < Size(F) PROVE (CHOOSE x \in F : Pos(F, x) = b) \in Nat
  <2>1. b \in 0 .. Size(F) - 1
    BY <1>1, <1>2
  <2>2. \E x \in F : Pos(F, x) = b
    BY <1>1, <2>1, PositionIsTaken
  <2>3. (CHOOSE x \in F : Pos(F, x) = b) \in F
    BY <2>2, Zenon
  <2> QED
    BY <1>1, <2>3
<1>3. b < Size(F) \/ ~(b < Size(F))
  OBVIOUS
<1> QED
  BY <1>0, <1>1, <1>2, <1>3 DEF Marker, MarkerType

LEMMA LoadedIsTyped ==
  ASSUME NEW F, F \subseteq Ids, Size(F) # 0, NEW l \in MarkerLists(Size(F)), NEW ms,
         ms = [k \in DOMAIN l |-> Marker(l[k].block, F, l[k].sel)]
  PROVE  ms \in Seq(MarkerType) /\ 2 <= Len(ms)
<1>1. Size(F) \in 1 .. NrBlocks
  BY FilesAreFinite
<1>2. l \in Seq([block : 0 .. Size(F), sel : BOOLEAN]) /\ 2 <= Len(l)
  BY <1>1, ListsAssumption
<1>3. DOMAIN l = 1 .. Len(l) /\ Len(l) \in Nat
  BY <1>2
<1>4. ASSUME NEW k \in DOMAIN l PROVE Marker(l[k].block, F, l[k].sel) \in MarkerType
  <2> DEFINE R == [block : 0 .. Size(F), sel : BOOLEAN]
  <2>0. l \in Seq(R) /\ k \in 1 .. Len(l)
    BY <1>2, <1>3
  <2>1. l[k] \in R
    <3> HIDE DEF R
    <3> QED
      BY <2>0
  <2>2. l[k].block \in Nat /\ l[k].sel \in BOOLEAN
    BY <1>1, <2>1
  <2> QED
    BY <2>2, MarkerIsTyped
<1> DEFINE m(k) == Marker(l[k].block, F, l[k].sel)
<1>5. ms = [k \in 1 .. Len(l) |-> m(k)] /\ \A k \in 1 .. Len(l) : m(k) \in MarkerType
  BY <1>3, <1>4
<1> HIDE DEF m
<1> QED
  BY <1>2, <1>3, <1>5

LEMMA WithoutIsTyped ==
  ASSUME NEW ms \in Seq(MarkerType), NEW i \in Int
  PROVE  /\ Without(ms, i) \in Seq(MarkerType)
         /\ Len(Without(ms, i)) = IF 0 < i /\ i < Len(ms) - 1 THEN Len(ms) - 1 ELSE Len(ms)
<1>1. CASE 0 < i /\ i < Len(ms) - 1
  <2> DEFINE rest == RemoveAt(ms, i + 1)
             n == Len(ms) - 1
             m == [rest[n] EXCEPT !.sel = FALSE]
  <2>1. Len(ms) \in Nat /\ i + 1 \in 1 .. Len(ms) /\ n \in Nat /\ n \in 1 .. n
    BY <1>1
  <2>2. rest \in Seq(MarkerType) /\ Len(rest) = n
    BY <2>1, RemoveAtProperties
  <2> HIDE DEF rest
  <2>3. rest[n] \in MarkerType
    BY <2>1, <2>2
  <2>4. m \in MarkerType
    BY <2>3 DEF MarkerType
  <2>5. Without(ms, i) = [rest EXCEPT ![n] = m]
    BY <1>1, <2>2 DEF Without, rest
  <2> HIDE DEF m
  <2>6. [rest EXCEPT ![n] = m] \in Seq(MarkerType) /\ Len([rest EXCEPT ![n] = m]) = n
    BY <2>1, <2>2, <2>4
  <2> QED
    BY <1>1, <2>5, <2>6
<1>2. CASE ~(0 < i /\ i < Len(ms) - 1)
  BY <1>2 DEF Without
<1> QED
  BY <1>1, <1>2

LEMMA MinusIsTyped ==
  ASSUME NEW a \in Int, NEW b \in Int
  PROVE  Minus(a, b) \in Int
<1>1. DWord \in Nat /\ DWord > 0
  BY CutConstants
<1> QED
  BY <1>1 DEF Minus

LEMMA ShiftedIsTyped ==
  ASSUME NEW ms \in Seq(MarkerType), NEW start \in Int, NEW behind \in Int
  PROVE  /\ Shifted(ms, start, behind) \in Seq(MarkerType)
         /\ Len(Shifted(ms, start, behind)) = Len(ms)
<1> DEFINE m(k) == IF k > 1 /\ k - 1 = cut.w THEN [ms[k] EXCEPT !.block = start]
                   ELSE IF k > 1 /\ ms[k].block + Radius >= behind
                     THEN [ms[k] EXCEPT !.block = Minus(@, behind - start)]
                   ELSE ms[k]
<1>1. ASSUME NEW k \in 1 .. Len(ms) PROVE m(k) \in MarkerType
  <2>1. ms[k] \in MarkerType
    OBVIOUS
  <2>2. Minus(ms[k].block, behind - start) \in Int
    <3> DEFINE d == behind - start
    <3>1. d \in Int /\ ms[k].block \in Int
      BY <2>1 DEF MarkerType
    <3> HIDE DEF d
    <3>2. Minus(ms[k].block, d) \in Int
      BY <3>1, MinusIsTyped
    <3> QED
      BY <3>2 DEF d
  <2>3. \A b \in Int : [ms[k] EXCEPT !.block = b] \in MarkerType
    BY <2>1 DEF MarkerType
  <2> QED
    BY <2>1, <2>2, <2>3
<1>2. Shifted(ms, start, behind) = [k \in 1 .. Len(ms) |-> m(k)]
  BY DEF Shifted
<1> HIDE DEF m
<1> QED
  BY <1>1, <1>2

LEMMA LastCorrectedIsTyped ==
  ASSUME NEW ms \in Seq(MarkerType), 1 <= Len(ms), total \in Int
  PROVE  LastCorrected(ms) \in Seq(MarkerType) /\ Len(LastCorrected(ms)) = Len(ms)
<1> DEFINE n == Len(ms)
           m == [ms[n] EXCEPT !.block = total]
<1>1. n \in Nat /\ n \in 1 .. n
  OBVIOUS
<1>2. ms[n] \in MarkerType
  BY <1>1
<1>3. m \in MarkerType
  BY <1>2 DEF MarkerType
<1>4. LastCorrected(ms) \in {ms, [ms EXCEPT ![n] = m]}
  BY DEF LastCorrected
<1> HIDE DEF m
<1>5. [ms EXCEPT ![n] = m] \in Seq(MarkerType) /\ Len([ms EXCEPT ![n] = m]) = n
  BY <1>1, <1>3
<1> QED
  BY <1>4, <1>5

LEMMA RemovedIsTyped ==
  ASSUME markers \in Seq(MarkerType), cut.w \in 0 .. Len(markers) - 1
  PROVE  /\ Removed \in Seq(MarkerType)
         /\ Len(Removed) \in {Len(markers), Len(markers) - 1}
         /\ 3 <= Len(markers) /\ cut.w <= Len(markers) - 2 => Len(Removed) = Len(markers) - 1
<1> DEFINE k == cut.w + 1
           m == [markers[k] EXCEPT !.sel = FALSE]
           u == [markers EXCEPT ![k] = m]
<1>1. k \in 1 .. Len(markers) /\ Len(markers) \in Nat /\ cut.w \in Int
  OBVIOUS
<1>2. markers[k] \in MarkerType
  BY <1>1
<1>3. m \in MarkerType
  BY <1>2 DEF MarkerType
<1>4. Removed = IF cut.w > 0 THEN Without(u, cut.w) ELSE Without(u, 1)
  BY DEF Removed
<1> HIDE DEF m
<1>5. u \in Seq(MarkerType) /\ Len(u) = Len(markers)
  BY <1>1, <1>3
<1> HIDE DEF u
<1> QED
  BY <1>1, <1>4, <1>5, WithoutIsTyped

-----------------------------------------------------------------------------
(* The choice of the next segment and the cut.                             *)

LEMMA ClampedIsTyped ==
  ASSUME NEW b \in Int, rec \subseteq Ids
  PROVE  Clamped(b) \in Int
<1>1. Size(rec) \in 0 .. NrBlocks
  BY FilesAreFinite
<1>2. NrBlocks \in Nat /\ Radius \in Nat /\ DWord \in Nat
  BY IdsAreFinite
<1> QED
  BY <1>1, <1>2 DEF Clamped

\* A name for the cut file is free.
LEMMA CutNameIsFree ==
  ASSUME NEW leave, CutName(leave) # 0, \A n \in Taken : cuts[n] # {}
  PROVE  CutName(leave) \in FreeCuts /\ cuts[CutName(leave)] = {}
<1> DEFINE N == {m \in FreeNames : Cardinality({k \in FreeNames : k < m}) = leave}
<1>1. N # {} /\ CutName(leave) = CHOOSE m \in N : TRUE
  BY DEF CutName
<1>2. (CHOOSE m \in N : TRUE) \in N
  BY <1>1, Zenon
<1>3. CutName(leave) \in FreeNames
  BY <1>1, <1>2
<1> QED
  BY <1>3 DEF FreeNames, FreeCuts

LEMMA ChosenSegment ==
  ASSUME CInv, Choose
  PROVE  /\ cut' \in CutType
         /\ cut'.w = IF job.multi THEN job.i ELSE job.active
         /\ cut'.name \in FreeCuts /\ cuts[cut'.name] = {}
         /\ cut'.special => /\ job.keep /\ ~cut'.trunc /\ ~DisableSpecialEnd
                            /\ cut'.start = 0
         /\ cut'.trunc => cut'.behind = Clamped(DWord - 1)
         /\ cut'.trunc => job.split \/ cut'.w = Nr - 2
         /\ pc' = IF cut'.trunc /\ ~job.keep THEN "truncate" ELSE "cut"
<1> DEFINE w       == IF job.multi THEN job.i ELSE job.active
           start   == Block(w)
           end     == Block(IF job.split THEN Nr - 1 ELSE w + 1)
           isEnd   == job.split \/ w = Nr - 2
           special == isEnd /\ SpecialEnd(start, end)
           trunc   == isEnd /\ ~special
           first   == IF special THEN 0 ELSE start
           last    == IF special THEN start ELSE IF trunc THEN DWord - 1 ELSE end
           name    == CutName(job.left - 1)
<1>1. /\ name # 0
      /\ cut' = [w |-> w, start |-> first, behind |-> Clamped(last), special |-> special,
                 trunc |-> trunc, name |-> name, exact |-> FALSE, ok |-> FALSE]
      /\ pc' = IF trunc /\ ~job.keep THEN "truncate" ELSE "cut"
  BY DEF Choose
<1>2. pc = "next" /\ job \in JobType /\ markers \in Seq(MarkerType) /\ 2 <= Len(markers)
  BY DEF Choose, CInv, Records, List, Working
<1>3. w \in 0 .. Len(markers) - 2
  BY <1>2 DEF CInv, Loop, Working, JobType
<1>4. start \in Int /\ end \in Int
  <2>1. \A i \in 0 .. Len(markers) - 1 : Block(i) \in Int
    <3> TAKE i \in 0 .. Len(markers) - 1
    <3>1. markers[i + 1] \in MarkerType
      BY <1>2
    <3> QED
      BY <3>1 DEF Block, At, MarkerType
  <2> DEFINE j == IF job.split THEN Nr - 1 ELSE w + 1
  <2>2. w \in 0 .. Len(markers) - 1 /\ j \in 0 .. Len(markers) - 1
    BY <1>2, <1>3 DEF Nr
  <2> HIDE DEF w, j
  <2> QED
    BY <2>1, <2>2 DEF j
<1>5. name \in FreeCuts /\ cuts[name] = {}
  BY <1>1, CutNameIsFree DEF CInv, Files
<1>6. special => job.keep /\ ~DisableSpecialEnd
  BY DEF SpecialEnd
<1>7. special \in BOOLEAN /\ trunc \in BOOLEAN /\ ~(special /\ trunc)
  <2> HIDE DEF isEnd
  <2> QED
    BY DEF SpecialEnd
<1>8. first \in Int /\ Clamped(last) \in Int /\ w \in Int
  <2>1. DWord - 1 \in Int
    BY IdsAreFinite
  <2> HIDE DEF special, trunc, start, end
  <2>2. last \in Int /\ first \in Int
    BY <1>4, <2>1
  <2> HIDE DEF last
  <2>3. rec \subseteq Ids
    BY DEF CInv, Files
  <2>4. w \in Int
    BY <1>3
  <2> QED
    BY <2>2, <2>3, <2>4, ClampedIsTyped
<1>9. trunc => last = DWord - 1
  BY <1>7
<1>10. special => first = 0
  OBVIOUS
<1>11. w = IF job.multi THEN job.i ELSE job.active
  OBVIOUS
<1>12. trunc => job.split \/ w = Nr - 2
  OBVIOUS
<1> HIDE DEF w, special, trunc, first, last, name
<1> QED
  BY <1>1, <1>5, <1>6, <1>7, <1>8, <1>9, <1>10, <1>11, <1>12 DEF CutType, FreeCuts

\* What the firmware cuts; a cut that comes before a truncation leaves no more
\* than the tail behind it.
LEMMA CutRange ==
  ASSUME CInv, Cut
  PROVE  \E s, e \in 0 .. Size(rec) :
           /\ s < e /\ Part(rec, s, e) # {}
           /\ rec' = rec \ Part(rec, s, e)
           /\ temp' = IF cut.special THEN Part(rec, s, e) ELSE temp
           /\ cuts' = IF cut.special THEN cuts
                      ELSE [cuts EXCEPT ![cut.name] = Part(rec, s, e)]
           /\ cut.special => s = 0
           /\ cut' \in CutType
           /\ \A f \in {"w", "special", "trunc", "name"} : cut'[f] = cut[f]
           /\ cut'.ok
           /\ cut'.exact => cut'.start = s /\ cut'.behind = e
           /\ cut'.exact \/ "positions" \in Faults
           /\ patched' = (patched /\ ~cut'.exact)
           /\ cut.trunc => Size(rec) - e <= 2 * Radius
           /\ s <= cut.start + Radius /\ cut.start <= s + Radius
           /\ e <= cut.behind + Radius /\ cut.behind <= e + Radius /\ cut.start < cut.behind
           /\ ~cut'.exact => cut'.start = cut.start /\ cut'.behind = cut.behind
<1>0. /\ rec \subseteq Ids /\ cut \in CutType /\ pc = "cut"
      /\ cut.special => cut.start = 0
      /\ cut.trunc => cut.behind = Clamped(DWord - 1)
  BY DEF CInv, Files, Records, Work, Cut, Chosen, Working
<1>1. Size(rec) \in 0 .. NrBlocks /\ IsFiniteSet(rec) /\ rec \subseteq Nat
  BY <1>0, FilesAreFinite
<1>2. NrBlocks \in Nat /\ Radius \in Nat /\ Limit \in Nat /\ DWord \in Nat
      /\ DWord > NrBlocks + Limit + Radius
  BY IdsAreFinite, CutConstants
<1>3. cut.start \in Int /\ cut.behind \in Int /\ cut.special \in BOOLEAN /\ cut.trunc \in BOOLEAN
  BY <1>0 DEF CutType
<1>4. PICK s \in IF cut.start = 0 THEN {0} ELSE cut.start - Radius .. cut.start + Radius,
           e \in cut.behind - Radius .. cut.behind + Radius, found \in BOOLEAN :
        /\ 0 <= s /\ Part(rec, s, e) # {} /\ e <= Size(rec)
        /\ ~found => MayFail("positions")
        /\ rec' = rec \ Part(rec, s, e)
        /\ temp' = IF cut.special THEN Part(rec, s, e) ELSE temp
        /\ cuts' = IF cut.special THEN cuts ELSE [cuts EXCEPT ![cut.name] = Part(rec, s, e)]
        /\ cut' = [cut EXCEPT !.exact = found, !.start = IF found THEN s ELSE @,
                              !.behind = IF found THEN e ELSE @, !.ok = TRUE]
        /\ patched' = StillPatched(found)
  BY DEF Cut
<1>5. s \in Int /\ e \in Int
  BY <1>2, <1>3, <1>4
<1>6. s < e
  <2>1. PICK x \in rec : s <= Pos(rec, x) /\ Pos(rec, x) < e
    BY <1>4 DEF Part
  <2>2. Pos(rec, x) \in 0 .. Size(rec) - 1
    BY <1>1, PositionInFile
  <2> QED
    BY <1>5, <2>1, <2>2
<1>7. s \in 0 .. Size(rec) /\ e \in 0 .. Size(rec)
  BY <1>1, <1>4, <1>5, <1>6
<1>8. cut.special => s = 0
  BY <1>0, <1>4
<1> DEFINE st == IF found THEN s ELSE cut.start
           be == IF found THEN e ELSE cut.behind
           c  == [cut EXCEPT !.exact = found, !.start = st, !.behind = be, !.ok = TRUE]
<1>9. st \in Int /\ be \in Int /\ found \in BOOLEAN
  BY <1>3, <1>5
<1>10. c \in CutType
  <2> HIDE DEF st, be
  <2> QED
    BY <1>0, <1>9 DEF CutType
<1>11. /\ c.w = cut.w /\ c.special = cut.special /\ c.trunc = cut.trunc
       /\ c.name = cut.name /\ c.ok = TRUE /\ c.exact = found /\ c.start = st /\ c.behind = be
  <2> HIDE DEF st, be
  <2> QED
    BY <1>0 DEF CutType
<1>12. cut' = c
  BY <1>4
<1>13. cut.trunc => Size(rec) - e <= 2 * Radius
  <2> SUFFICES ASSUME cut.trunc PROVE Size(rec) - e <= 2 * Radius
    OBVIOUS
  <2>1. cut.behind = Clamped(DWord - 1)
    BY <1>0
  <2>2. cut.behind = IF Size(rec) >= Radius THEN Size(rec) - Radius ELSE DWord - 1
    BY <1>1, <1>2, <2>1 DEF Clamped
  <2>3. cut.behind - Radius <= e
    BY <1>2, <1>3, <1>4
  <2> QED
    BY <1>1, <1>2, <1>5, <2>2, <2>3
<1>14. found => st = s /\ be = e
  OBVIOUS
<1> HIDE DEF c, st, be
<1>15. \A f \in {"w", "special", "trunc", "name"} : cut'[f] = cut[f]
  BY <1>11, <1>12
<1>16. cut' \in CutType /\ cut'.ok /\ cut'.exact = found
       /\ (found => cut'.start = s /\ cut'.behind = e)
  BY <1>10, <1>11, <1>12, <1>14
<1>17. (found \/ "positions" \in Faults) /\ patched' = (patched /\ ~found)
  BY <1>4 DEF MayFail, StillPatched
<1>18. /\ s <= cut.start + Radius /\ cut.start <= s + Radius
       /\ e <= cut.behind + Radius /\ cut.behind <= e + Radius /\ cut.start < cut.behind
  BY <1>2, <1>3, <1>4 DEF Cut
<1>19. ~cut'.exact => cut'.start = cut.start /\ cut'.behind = cut.behind
  BY <1>11, <1>12, <1>16 DEF st, be
<1> QED
  BY <1>4, <1>6, <1>7, <1>8, <1>13, <1>15, <1>16, <1>17, <1>18, <1>19

-----------------------------------------------------------------------------
(* The invariant is inductive.                                             *)

LEMMA InitCInv == Init => CInv /\ Temporary
<1> SUFFICES ASSUME Init PROVE CInv /\ Temporary
  OBVIOUS
<1>1. Files
  <2>1. Ids \subseteq Nat /\ NrBlocks \in Nat /\ Names \subseteq Nat /\ Taken \subseteq Names
    BY IdsAreFinite, CutConstants DEF Names
  <2> QED
    BY <2>1 DEF Init, Files, FreeCuts
<1>2. Records
  <2>1. 1 \in Names
    BY CutConstants DEF Names
  <2> QED
    BY <2>1 DEF Init, Records, JobType, CutType
<1>3. Runs
  BY IdsAreFinite DEF Init, Runs
<1>4. List
  <2>1. Size(Ids) = NrBlocks /\ NrBlocks # 0
    BY IdsAreFinite, CutConstants DEF Size
  <2>2. PICK l \in MarkerLists(Size(Ids)) :
          markers = [k \in DOMAIN l |-> Marker(l[k].block, Ids, l[k].sel)]
    BY <2>1 DEF Init
  <2>3. Ids \subseteq Ids
    OBVIOUS
  <2>4. markers \in Seq(MarkerType) /\ 2 <= Len(markers)
    BY <2>1, <2>2, <2>3, LoadedIsTyped
  <2> QED
    BY <2>4 DEF List
<1>5. Loop /\ Work /\ Temporary
  BY DEF Init, Loop, Work, Temporary, Working, Chosen
<1> QED
  BY <1>1, <1>2, <1>3, <1>4, <1>5 DEF CInv

\* One of the new cut files changes.
LEMMA OneCutChanges ==
  ASSUME Files, NEW n \in FreeCuts, NEW P \in SUBSET Ids,
         rec' \subseteq Ids, temp' \subseteq Ids, rec' \cap temp' = {},
         rec' \cup temp' \subseteq rec \cup temp,
         P \cap (rec' \cup temp') = {},
         \A m \in FreeCuts : m # n => cuts[m] \cap P = {},
         cuts' = [cuts EXCEPT ![n] = P]
  PROVE  Files'
<1>0. n \in Names /\ n \notin Taken /\ Taken \subseteq Names
  BY CutConstants DEF FreeCuts, Names
<1>1. /\ cuts \in [Names -> SUBSET Nat] /\ \A m \in Taken : cuts[m] # {}
      /\ \A m \in FreeCuts : cuts[m] \subseteq Ids /\ cuts[m] \cap (rec \cup temp) = {}
      /\ \A m, k \in FreeCuts : m # k => cuts[m] \cap cuts[k] = {}
  BY DEF Files
<1>2. P \in SUBSET Nat
  BY IdsAreFinite
<1>3. cuts' \in [Names -> SUBSET Nat]
  BY <1>1, <1>2
<1>4. cuts'[n] = P /\ \A m \in Names : m # n => cuts'[m] = cuts[m]
  BY <1>0, <1>1
<1>5. \A m \in Taken : cuts'[m] # {}
  BY <1>0, <1>1, <1>4
<1>6. ASSUME NEW m \in FreeCuts
      PROVE  cuts'[m] \subseteq Ids /\ cuts'[m] \cap (rec' \cup temp') = {}
  <2>1. CASE m = n
    BY <1>4, <2>1
  <2>2. CASE m # n
    <3>1. cuts'[m] = cuts[m]
      BY <1>4, <2>2 DEF FreeCuts
    <3>2. cuts[m] \subseteq Ids /\ cuts[m] \cap (rec \cup temp) = {}
      BY <1>1
    <3> QED
      BY <3>1, <3>2
  <2> QED
    BY <2>1, <2>2
<1>7. ASSUME NEW m \in FreeCuts, NEW k \in FreeCuts, m # k
      PROVE  cuts'[m] \cap cuts'[k] = {}
  <2>0. m \in Names /\ k \in Names /\ cuts[m] \cap cuts[k] = {}
    BY <1>1, <1>7 DEF FreeCuts
  <2>1. CASE m = n
    <3>1. cuts'[m] = P /\ cuts'[k] = cuts[k] /\ cuts[k] \cap P = {}
      BY <1>4, <1>7, <2>0, <2>1
    <3> QED
      BY <3>1
  <2>2. CASE k = n
    <3>1. cuts'[k] = P /\ cuts'[m] = cuts[m] /\ cuts[m] \cap P = {}
      BY <1>4, <1>7, <2>0, <2>2
    <3> QED
      BY <3>1
  <2>3. CASE m # n /\ k # n
    BY <1>4, <2>0, <2>3
  <2> QED
    BY <2>1, <2>2, <2>3
<1> QED
  BY <1>3, <1>5, <1>6, <1>7 DEF Files, FreeCuts

LEMMA FilesKept ==
  ASSUME CInv, Next \/ UNCHANGED vars
  PROVE  Files'
<1>0. Files
  BY DEF CInv
<1>1. CASE UNCHANGED files
  BY <1>0, <1>1 DEF Files, files
<1>2. CASE Choose
  BY <1>0, <1>2 DEF Choose, Files
<1>3. CASE Cut
  <2>1. PICK s, e \in 0 .. Size(rec) :
           /\ rec' = rec \ Part(rec, s, e)
           /\ temp' = IF cut.special THEN Part(rec, s, e) ELSE temp
           /\ cuts' = IF cut.special THEN cuts
                      ELSE [cuts EXCEPT ![cut.name] = Part(rec, s, e)]
    BY <1>3, CutRange
  <2> DEFINE P == Part(rec, s, e)
  <2>2. P \subseteq rec
    BY DEF Part
  <2>3. cut.name \in FreeCuts
    BY <1>3 DEF CInv, Work, Cut, Chosen, Working
  <2>4. Ids \subseteq Nat
    BY IdsAreFinite
  <2> HIDE DEF P
  <2>5. CASE cut.special
    BY <1>0, <2>1, <2>2, <2>5 DEF Files, P
  <2>6. CASE ~cut.special
    <3>1. /\ rec' = rec \ P /\ temp' = temp /\ cuts' = [cuts EXCEPT ![cut.name] = P]
      BY <2>1, <2>6 DEF P
    <3>2. /\ rec \subseteq Ids /\ temp \subseteq Ids /\ rec \cap temp = {}
          /\ \A m \in FreeCuts : cuts[m] \cap (rec \cup temp) = {}
      BY <1>0 DEF Files
    <3>3. /\ P \in SUBSET Ids /\ P \cap (rec' \cup temp') = {}
          /\ rec' \subseteq Ids /\ temp' \subseteq Ids /\ rec' \cap temp' = {}
          /\ rec' \cup temp' \subseteq rec \cup temp
      BY <2>2, <3>1, <3>2
    <3>4. \A m \in FreeCuts : m # cut.name => cuts[m] \cap P = {}
      BY <2>2, <3>2
    <3> QED
      BY <1>0, <2>3, <3>1, <3>3, <3>4, OneCutChanges
  <2> QED
    BY <2>5, <2>6
<1>4. CASE Truncate
  <2>1. rec' \subseteq rec /\ UNCHANGED <<temp, cuts>>
    BY <1>4 DEF Truncate, Part
  <2> QED
    BY <1>0, <2>1 DEF Files
<1>5. CASE Tidy
  <2>1. cut.name \in FreeCuts
    BY <1>5 DEF CInv, Work, Tidy, Chosen, Working
  <2>2. UNCHANGED <<rec, temp>> /\ cuts' \in {cuts, [cuts EXCEPT ![cut.name] = {}]}
    BY <1>5 DEF Tidy
  <2>3. CASE UNCHANGED cuts
    BY <1>0, <2>2, <2>3 DEF Files
  <2>4. CASE cuts' = [cuts EXCEPT ![cut.name] = {}]
    <3>1. {} \in SUBSET Ids
      OBVIOUS
    <3>2. rec \subseteq Ids /\ temp \subseteq Ids /\ rec \cap temp = {}
      BY <1>0 DEF Files
    <3>3. /\ rec' \subseteq Ids /\ temp' \subseteq Ids /\ rec' \cap temp' = {}
          /\ rec' \cup temp' \subseteq rec \cup temp
          /\ {} \cap (rec' \cup temp') = {}
          /\ \A m \in FreeCuts : m # cut.name => cuts[m] \cap {} = {}
      BY <2>2, <3>2
    <3> QED
      BY <1>0, <2>1, <2>4, <3>1, <3>3, OneCutChanges
  <2> QED
    BY <2>2, <2>3, <2>4
<1>6. CASE Swap
  <2>1. cut.name \in FreeCuts
    BY <1>6 DEF CInv, Work, Swap, Chosen, Working
  <2>2. /\ UNCHANGED temp
        /\ \/ cuts' = [cuts EXCEPT ![cut.name] = rec] /\ rec' = {}
           \/ UNCHANGED <<rec, cuts>>
    BY <1>6 DEF Swap
  <2>3. CASE UNCHANGED <<rec, cuts>>
    BY <1>0, <2>2, <2>3 DEF Files
  <2>4. CASE cuts' = [cuts EXCEPT ![cut.name] = rec] /\ rec' = {}
    <3>1. /\ rec \in SUBSET Ids /\ temp \subseteq Ids /\ rec \cap temp = {}
          /\ \A m \in FreeCuts : cuts[m] \cap rec = {}
      BY <1>0 DEF Files
    <3> QED
      BY <1>0, <2>1, <2>2, <2>4, <3>1, OneCutChanges
  <2> QED
    BY <2>2, <2>3, <2>4
<1>7. CASE SwapBack
  <2>1. /\ UNCHANGED cuts
        /\ \/ rec = {} /\ rec' = temp /\ temp' = {}
           \/ UNCHANGED <<rec, temp>>
    BY <1>7 DEF SwapBack
  <2> QED
    BY <1>0, <2>1 DEF Files
<1>8. CASE SaveOrDelete
  BY <1>1, <1>8 DEF SaveOrDelete, Process
<1>9. CASE Split
  BY <1>1, <1>9 DEF Split, Process
<1> QED
  BY <1>1, <1>2, <1>3, <1>4, <1>5, <1>6, <1>7, <1>8, <1>9
  DEF Next, Step, Skip, Patch, CutFails, TruncateFails, Restart, Adjust, Save, SwitchOff,
      Load, vars, disk, files

LEMMA RecordsKept ==
  ASSUME CInv, Next \/ UNCHANGED vars
  PROVE  Records'
<1> DEFINE AskedShape(a) ==
      a = [segs |-> a.segs, rec |-> a.rec, files |-> a.files, marks |-> a.marks,
           keep |-> a.keep, split |-> a.split, made |-> a.made, result |-> a.result,
           drift |-> a.drift]
<1>0. job \in JobType /\ cut \in CutType /\ AskedShape(asked) /\ asked.keep \in BOOLEAN
  BY DEF CInv, Records
<1>a. /\ \A r : /\ AskedShape([asked EXCEPT !.result = r])
                /\ [asked EXCEPT !.result = r].keep = asked.keep
      /\ \A r : /\ AskedShape([asked EXCEPT !.made = r])
                /\ [asked EXCEPT !.made = r].keep = asked.keep
  BY <1>0
<1>b. \A segs, split : \A keep \in BOOLEAN :
        Asked(segs, keep, split) => AskedShape(asked') /\ asked'.keep \in BOOLEAN
  BY DEF Asked
<1>c. ASSUME job' \in JobType, cut' \in CutType, AskedShape(asked'), asked'.keep \in BOOLEAN
      PROVE  Records'
  BY <1>c DEF Records
<1> HIDE DEF AskedShape
<1>d. ASSUME UNCHANGED <<job, cut>>,
             \/ UNCHANGED asked
             \/ \E r : asked' = [asked EXCEPT !.result = r]
             \/ \E r : asked' = [asked EXCEPT !.made = r]
      PROVE  Records'
  <2>1. AskedShape(asked') /\ asked'.keep \in BOOLEAN
    <3>1. CASE UNCHANGED asked
      BY <1>0, <3>1
    <3>2. CASE \E r : asked' = [asked EXCEPT !.result = r]
      BY <1>0, <1>a, <3>2
    <3>3. CASE \E r : asked' = [asked EXCEPT !.made = r]
      BY <1>0, <1>a, <3>3
    <3> QED
      BY <1>d, <3>1, <3>2, <3>3
  <2> QED
    BY <1>0, <1>c, <1>d, <2>1
<1>e. ASSUME NEW keep \in BOOLEAN, NEW split \in BOOLEAN, NEW ms \in Seq(MarkerType),
             NEW active \in Int, 2 <= Len(ms), Process(keep, split, ms, active)
      PROVE  job' \in JobType
  <2> DEFINE selected == {i \in 0 .. Len(ms) - 2 : ms[i + 1].sel}
             multi    == ~split /\ selected # {}
             left     == IF multi THEN Cardinality(selected) ELSE 1
  <2>1. job' = [keep |-> keep, split |-> split, multi |-> multi, left |-> left,
                i |-> Len(ms) - 2, active |-> active]
    BY <1>e DEF Process
  <2>2. Len(ms) - 2 \in Int
    OBVIOUS
  <2>3. Cardinality(selected) \in Int
    <3> DEFINE b == Len(ms) - 2
    <3>1. b \in Int
      OBVIOUS
    <3>2. selected \subseteq 0 .. b
      OBVIOUS
    <3> HIDE DEF b, selected
    <3>3. IsFiniteSet(0 .. b)
      BY <3>1, FS_Interval
    <3>4. IsFiniteSet(selected)
      BY <3>2, <3>3, FS_Subset
    <3> QED
      BY <3>4, FS_CardinalityType
  <2>4. multi \in BOOLEAN
    OBVIOUS
  <2> HIDE DEF multi, selected
  <2> QED
    BY <2>1, <2>2, <2>3, <2>4 DEF JobType
<1>f. pc = "edit" => markers \in Seq(MarkerType) /\ 2 <= Len(markers)
  BY DEF CInv, List
<1>1. CASE SaveOrDelete
  <2>0. PICK keep \in BOOLEAN, active \in Segments :
          /\ Process(keep, FALSE, markers, active)
          /\ \E segs : Asked(segs, keep, FALSE)
    BY <1>1 DEF SaveOrDelete
  <2>1. PICK segs : Process(keep, FALSE, markers, active) /\ Asked(segs, keep, FALSE)
    BY <2>0
  <2>2. active \in Int /\ UNCHANGED cut
    BY <2>1 DEF Process, Segments
  <2>3. job' \in JobType
    BY <1>1, <1>e, <1>f, <2>1, <2>2 DEF SaveOrDelete
  <2> QED
    BY <1>0, <1>b, <1>c, <2>1, <2>2, <2>3
<1>2. CASE Split
  <2>1. PICK b \in 1 .. total - 1, i \in 1 .. Nr - 1, active \in Segments :
          /\ Process(TRUE, TRUE, InsertAt(markers, i + 1, Marker(b, rec, FALSE)),
                     IF active + 1 >= i THEN active + 1 ELSE active)
          /\ Asked({Part(rec, b, total)}, TRUE, TRUE)
    BY <1>2 DEF Split
  <2> DEFINE ms == InsertAt(markers, i + 1, Marker(b, rec, FALSE))
             a  == IF active + 1 >= i THEN active + 1 ELSE active
  <2>2. ms \in Seq(MarkerType) /\ Len(ms) = Len(markers) + 1
    <3>1. markers \in Seq(MarkerType) /\ 2 <= Len(markers)
      BY <1>2, <1>f DEF Split
    <3>2. Marker(b, rec, FALSE) \in MarkerType
      <4>1. rec \subseteq Ids /\ b \in Nat
        BY DEF CInv, Files
      <4> QED
        BY <4>1, MarkerIsTyped
    <3>3. i + 1 \in 1 .. Len(markers) + 1
      BY <3>1 DEF Nr
    <3> QED
      BY <3>1, <3>2, <3>3, InsertAtProperties
  <2>3. a \in Int /\ UNCHANGED cut
    BY <2>1 DEF Process, Segments
  <2>4. 2 <= Len(ms)
    <3>1. 2 <= Len(markers) /\ Len(markers) \in Nat
      BY <1>2, <1>f DEF Split
    <3> HIDE DEF ms
    <3> QED
      BY <2>2, <3>1
  <2>5. Process(TRUE, TRUE, ms, a)
    BY <2>1
  <2> HIDE DEF ms, a
  <2>6. job' \in JobType
    BY <1>e, <2>2, <2>3, <2>4, <2>5
  <2> QED
    BY <1>0, <1>b, <1>c, <2>1, <2>3, <2>6
<1>3. CASE Skip
  <2>1. job' = job \/ job' = [job EXCEPT !.i = Onward]
    BY <1>3 DEF Skip
  <2>2. Onward \in Int
    BY <1>0 DEF Onward, JobType
  <2>3. job' \in JobType
    BY <1>0, <2>1, <2>2 DEF JobType
  <2> QED
    BY <1>0, <1>3, <1>c, <2>3 DEF Skip
<1>4. CASE Choose
  <2>1. cut' \in CutType
    BY <1>4, ChosenSegment
  <2> QED
    BY <1>0, <1>4, <1>c, <2>1 DEF Choose
<1>5. CASE Cut
  <2>1. cut' \in CutType
    BY <1>5, CutRange
  <2>2. UNCHANGED job /\ (UNCHANGED asked \/ \E r : asked' = [asked EXCEPT !.made = r])
    BY <1>5 DEF Cut
  <2>3. AskedShape(asked') /\ asked'.keep \in BOOLEAN
    <3>1. CASE UNCHANGED asked
      BY <1>0, <3>1
    <3>2. CASE \E r : asked' = [asked EXCEPT !.made = r]
      BY <1>0, <1>a, <3>2
    <3> QED
      BY <2>2, <3>1, <3>2
  <2> QED
    BY <1>0, <1>c, <2>1, <2>2, <2>3
<1>6. CASE Truncate
  <2> DEFINE start == TruncateAt
             be    == IF job.keep THEN cut.behind ELSE Size(rec)
             c     == [cut EXCEPT !.start = start, !.ok = TRUE, !.exact = TRUE, !.behind = be]
  <2>1. cut' = c
    BY <1>6 DEF Truncate
  <2>2. start \in Int
    BY <1>0 DEF TruncateAt, CutType
  <2>3. Size(rec) \in Int
    <3>1. rec \subseteq Ids
      BY DEF CInv, Files
    <3>2. Size(rec) \in 0 .. NrBlocks
      BY <3>1, FilesAreFinite
    <3> QED
      BY <3>2
  <2>4. be \in Int
    BY <1>0, <2>3 DEF CutType
  <2> HIDE DEF start, be
  <2>5. c \in CutType
    BY <1>0, <2>2, <2>4 DEF CutType
  <2> QED
    BY <1>0, <1>6, <1>c, <2>1, <2>5 DEF Truncate
<1>7. CASE Swap
  BY <1>7, <1>d DEF Swap
<1>8. CASE Restart
  BY <1>8, <1>d DEF Restart
<1>9. CASE Adjust
  <2>1. job' = [job EXCEPT !.left = @ - 1, !.i = Onward]
    BY <1>9 DEF Adjust
  <2>2. Onward \in Int /\ job.left - 1 \in Int
    BY <1>0 DEF Onward, JobType
  <2>3. job' \in JobType
    BY <1>0, <2>1, <2>2 DEF JobType
  <2>4. UNCHANGED cut /\ (UNCHANGED asked \/ \E r : asked' = [asked EXCEPT !.result = r])
    BY <1>9 DEF Adjust
  <2>5. AskedShape(asked') /\ asked'.keep \in BOOLEAN
    <3>1. CASE UNCHANGED asked
      BY <1>0, <3>1
    <3>2. CASE \E r : asked' = [asked EXCEPT !.result = r]
      BY <1>0, <1>a, <3>2
    <3> QED
      BY <2>4, <3>1, <3>2
  <2> QED
    BY <1>0, <1>c, <2>3, <2>4, <2>5
<1>10. CASE Save
  BY <1>10, <1>d DEF Save
<1>11. CASE SwitchOff
  BY <1>11, <1>d DEF SwitchOff
<1>12. CASE UNCHANGED <<job, cut, asked>>
  BY <1>12, <1>d
<1> QED
  BY <1>1, <1>2, <1>3, <1>4, <1>5, <1>6, <1>7, <1>8, <1>9, <1>10, <1>11, <1>12
  DEF Next, Step, Patch, CutFails, TruncateFails, Tidy, SwapBack, Load, vars, disk

\* A job that starts: how its loop and its list begin.
LEMMA JobStarts ==
  ASSUME CInv, SaveOrDelete \/ Split
  PROVE  /\ markers' \in Seq(MarkerType) /\ 2 <= Len(markers')
         /\ job'.multi => job'.i \in 0 .. Len(markers') - 2
         /\ ~job'.multi => job'.left = 1 /\ job'.active \in 0 .. Len(markers') - 2
         /\ job'.split => ~job'.multi /\ job'.keep
         /\ job'.keep = asked'.keep
         /\ pc = "edit" /\ pc' = "next" /\ runs' = runs + 1 /\ total' = total
<1>0. pc = "edit" /\ markers \in Seq(MarkerType) /\ 2 <= Len(markers)
  BY DEF CInv, List, SaveOrDelete, Split
<1>1. CASE SaveOrDelete
  <2>0. PICK keep \in BOOLEAN, active \in Segments :
          /\ Process(keep, FALSE, markers, active)
          /\ \E segs : Asked(segs, keep, FALSE)
    BY <1>1 DEF SaveOrDelete
  <2>1. PICK segs : Process(keep, FALSE, markers, active) /\ Asked(segs, keep, FALSE)
    BY <2>0
  <2>2. /\ markers' = markers /\ pc' = "next" /\ runs' = runs + 1 /\ total' = total
        /\ job'.keep = keep /\ job'.split = FALSE /\ job'.active = active
        /\ job'.i = Len(markers) - 2 /\ (~job'.multi => job'.left = 1)
        /\ asked'.keep = keep
    BY <2>1 DEF Process, Asked
  <2>3. active \in 0 .. Len(markers) - 2
    BY DEF Segments, Nr
  <2> QED
    BY <1>0, <2>2, <2>3
<1>2. CASE Split
  <2>1. PICK b \in 1 .. total - 1, i \in 1 .. Nr - 1, active \in Segments :
          /\ Process(TRUE, TRUE, InsertAt(markers, i + 1, Marker(b, rec, FALSE)),
                     IF active + 1 >= i THEN active + 1 ELSE active)
          /\ Asked({Part(rec, b, total)}, TRUE, TRUE)
    BY <1>2 DEF Split
  <2> DEFINE ms == InsertAt(markers, i + 1, Marker(b, rec, FALSE))
             a  == IF active + 1 >= i THEN active + 1 ELSE active
  <2>2. ms \in Seq(MarkerType) /\ Len(ms) = Len(markers) + 1
    <3>1. Marker(b, rec, FALSE) \in MarkerType
      <4>1. rec \subseteq Ids /\ b \in Nat
        BY DEF CInv, Files
      <4> QED
        BY <4>1, MarkerIsTyped
    <3>2. i + 1 \in 1 .. Len(markers) + 1
      BY <1>0 DEF Nr
    <3> QED
      BY <1>0, <3>1, <3>2, InsertAtProperties
  <2>3. a \in 0 .. Len(markers) - 1
    BY <1>0 DEF Segments, Nr
  <2>4. Process(TRUE, TRUE, ms, a)
    BY <2>1
  <2> HIDE DEF ms, a
  <2>5. /\ markers' = ms /\ pc' = "next" /\ runs' = runs + 1 /\ total' = total
        /\ job'.keep = TRUE /\ job'.multi = FALSE /\ job'.active = a /\ job'.left = 1
        /\ asked'.keep = TRUE
    <3> DEFINE multi == ~TRUE /\ {k \in 0 .. Len(ms) - 2 : ms[k + 1].sel} # {}
               left  == IF multi
                          THEN Cardinality({k \in 0 .. Len(ms) - 2 : ms[k + 1].sel}) ELSE 1
    <3>1. /\ job' = [keep |-> TRUE, split |-> TRUE, multi |-> multi, left |-> left,
                     i |-> Len(ms) - 2, active |-> a]
          /\ markers' = ms /\ pc' = "next" /\ runs' = runs + 1 /\ total' = total
      BY <2>4 DEF Process
    <3>2. multi = FALSE /\ left = 1
      OBVIOUS
    <3>3. asked'.keep = TRUE
      BY <2>1 DEF Asked
    <3> HIDE DEF multi, left
    <3> QED
      BY <3>1, <3>2, <3>3
  <2>6. 2 <= Len(ms) /\ a \in 0 .. Len(ms) - 2
    BY <1>0, <2>2, <2>3
  <2> QED
    BY <1>0, <2>2, <2>5, <2>6
<1> QED
  BY <1>1, <1>2

LEMMA RunsKept ==
  ASSUME CInv, Next \/ UNCHANGED vars
  PROVE  Runs'
<1>0. Runs /\ Records
  BY DEF CInv
<1>1. NrBlocks \in Nat
  BY IdsAreFinite
<1>2. Size(rec) \in 0 .. NrBlocks
  <2>1. rec \subseteq Ids
    BY DEF CInv, Files
  <2> QED
    BY <2>1, FilesAreFinite
<1>3. CASE SaveOrDelete \/ Split
  <2>1. pc' = "next" /\ runs' = runs + 1 /\ total' = total /\ job'.keep = asked'.keep
    BY <1>3, JobStarts
  <2> QED
    BY <1>0, <2>1 DEF Runs, Working
<1>4. CASE Skip
  <2>1. job'.keep = job.keep /\ pc' \in {"next", "save"} /\ UNCHANGED <<asked, runs, total>>
    BY <1>0, <1>4 DEF Skip, Records, JobType
  <2>2. pc = "next"
    BY <1>4 DEF Skip
  <2> QED
    BY <1>0, <2>1, <2>2 DEF Runs, Working, Ended
<1>5. CASE Choose
  BY <1>0, <1>5 DEF Choose, Runs, Working
<1>6. CASE Patch
  BY <1>0, <1>6 DEF Patch, Runs
<1>7. CASE Cut
  <2>1. /\ asked'.keep = asked.keep /\ pc = "cut" /\ pc' \in {"truncate", "tidy"}
        /\ UNCHANGED <<job, runs, total>>
    BY <1>0, <1>7 DEF Cut, Records
  <2> QED
    BY <1>0, <2>1 DEF Runs, Working
<1>8. CASE CutFails \/ TruncateFails
  BY <1>0, <1>8 DEF CutFails, TruncateFails, Runs, Working, disk
<1>9. CASE Truncate \/ Tidy
  BY <1>0, <1>9 DEF Truncate, Tidy, Runs, Working
<1>10. CASE Swap
  <2>1. /\ asked'.keep = asked.keep /\ pc = "swap" /\ pc' \in {"swapback", "restart"}
        /\ UNCHANGED <<job, runs, total>>
    BY <1>0, <1>10 DEF Swap, Records
  <2> QED
    BY <1>0, <2>1 DEF Runs, Working
<1>11. CASE SwapBack
  BY <1>0, <1>11 DEF SwapBack, Runs, Working
<1>12. CASE Restart
  <2>1. /\ asked'.keep = asked.keep /\ pc = "restart" /\ pc' \in {"adjust", "save"}
        /\ UNCHANGED <<job, runs>>
    BY <1>0, <1>12 DEF Restart, Records
  <2>2. total' \in {Size(rec), 0, total}
    BY <1>12 DEF Restart
  <2>3. total' \in 0 .. NrBlocks
    BY <1>0, <1>1, <1>2, <2>2 DEF Runs
  <2> QED
    BY <1>0, <2>1, <2>3 DEF Runs, Working, Ended
<1>13. CASE Adjust
  <2>1. /\ asked'.keep = asked.keep /\ pc = "adjust" /\ pc' \in {"next", "save"}
        /\ UNCHANGED <<total, runs>>
    BY <1>0, <1>13 DEF Adjust, Records
  <2>2. job'.keep = job.keep
    BY <1>0, <1>13 DEF Adjust, Records, JobType
  <2> QED
    BY <1>0, <2>1, <2>2 DEF Runs, Working, Ended
<1>14. CASE Save
  <2>1. /\ asked'.keep = asked.keep /\ pc = "save" /\ pc' = "ended"
        /\ UNCHANGED <<job, runs, total>>
    BY <1>0, <1>14 DEF Save, Records
  <2> QED
    BY <1>0, <2>1 DEF Runs, Ended
<1>15. CASE SwitchOff
  <2>1. /\ asked'.keep = asked.keep /\ pc # "edit" /\ pc' = "ended"
        /\ UNCHANGED <<job, runs, total>>
    BY <1>0, <1>15 DEF SwitchOff, Records
  <2> QED
    BY <1>0, <2>1 DEF Runs, Ended
<1>16. CASE Load
  <2>1. pc' = "edit" /\ total' = Size(rec) /\ UNCHANGED <<job, asked, runs>>
    BY <1>16 DEF Load
  <2> QED
    BY <1>0, <1>2, <2>1 DEF Runs
<1>17. CASE UNCHANGED vars
  BY <1>0, <1>17 DEF vars, Runs
<1> QED
  BY <1>3, <1>4, <1>5, <1>6, <1>7, <1>8, <1>9, <1>10, <1>11, <1>12, <1>13, <1>14, <1>15,
     <1>16, <1>17 DEF Next, Step

\* The loop goes on only with several segments, of which one is left.
LEMMA LoopGoesOn ==
  ASSUME CInv, Adjust, pc' = "next"
  PROVE  /\ markers' \in Seq(MarkerType) /\ 2 <= Len(markers')
         /\ job'.multi /\ ~job'.split /\ job'.i \in 0 .. Len(markers') - 2
         /\ temp = {} \/ ~cut.special
         /\ job.multi /\ cut.w = job.i /\ job'.i = job.i - 1
         /\ job'.left = job.left - 1 /\ 1 <= job'.left
         /\ 3 <= Len(markers) => Len(markers') = Len(markers) - 1
         /\ 3 <= Len(markers') /\ Len(markers') >= Len(markers) - 1
<1> DEFINE start == IF cut.special THEN cut.behind ELSE cut.start
           ms    == Shifted(Removed, start, cut.behind)
<1>0. /\ pc = "adjust" /\ job \in JobType /\ cut \in CutType
      /\ markers \in Seq(MarkerType) /\ 2 <= Len(markers)
      /\ total \in Int
  <2>1. pc = "adjust" /\ total \in 0 .. NrBlocks /\ NrBlocks \in Nat
    BY IdsAreFinite DEF Adjust, CInv, Runs
  <2> QED
    BY <2>1 DEF CInv, Records, List, Working
<1>1. /\ ~(cut.special /\ temp # {}) /\ ~(job'.left <= 0) /\ ~(Nr' <= 2) /\ job.i # 0
      /\ job' = [job EXCEPT !.left = @ - 1, !.i = Onward]
      /\ AdjustMarkers
  BY DEF Adjust
<1>2. job'.left = job.left - 1 /\ job'.i = job.i - 1 /\ job'.multi = job.multi
      /\ job'.split = job.split
  BY <1>0, <1>1 DEF JobType, Onward
<1>3. /\ job.multi => job.i \in 0 .. Len(markers) - 2
      /\ ~job.multi => job.left = 1 /\ job.active \in 0 .. Len(markers) - 2
      /\ job.split => ~job.multi
  BY <1>0 DEF CInv, Loop, Working
<1>4. job.multi /\ ~job.split
  BY <1>0, <1>1, <1>2, <1>3 DEF JobType
<1>50. cut.w = job.i
  BY <1>0, <1>4 DEF CInv, Work, Chosen, Working
<1>5. cut.w \in 0 .. Len(markers) - 1 /\ cut.w <= Len(markers) - 2
  BY <1>0, <1>3, <1>4, <1>50
<1>6. /\ Removed \in Seq(MarkerType) /\ Len(Removed) \in {Len(markers), Len(markers) - 1}
      /\ 3 <= Len(markers) => Len(Removed) = Len(markers) - 1
  BY <1>0, <1>5, RemovedIsTyped
<1>7. start \in Int /\ cut.behind \in Int
  BY <1>0 DEF CutType
<1>8. markers' = LastCorrected(ms)
  BY <1>1, <1>4 DEF AdjustMarkers
<1> HIDE DEF start
<1>9. ms \in Seq(MarkerType) /\ Len(ms) = Len(Removed)
  BY <1>6, <1>7, ShiftedIsTyped
<1> HIDE DEF ms
<1>10. 1 <= Len(ms)
  BY <1>0, <1>6, <1>9
<1>11. markers' \in Seq(MarkerType) /\ Len(markers') = Len(ms)
  BY <1>0, <1>8, <1>9, <1>10, LastCorrectedIsTyped
<1>12. Len(markers') >= Len(markers) - 1 /\ Len(markers') \in Nat
  BY <1>0, <1>6, <1>9, <1>11
<1>13. job'.i \in 0 .. Len(markers') - 2
  BY <1>0, <1>1, <1>2, <1>3, <1>4, <1>12 DEF JobType
<1>14. 3 <= Len(markers') /\ 2 <= Len(markers')
  BY <1>1, <1>12 DEF Nr
<1>15. 1 <= job'.left
  BY <1>0, <1>1, <1>2 DEF JobType
<1>16. 3 <= Len(markers) => Len(markers') = Len(markers) - 1
  BY <1>6, <1>9, <1>11, SMTT(30)
<1> QED
  BY <1>1, <1>2, <1>4, <1>50, <1>11, <1>12, <1>13, <1>14, <1>15, <1>16

LEMMA ListKept ==
  ASSUME CInv, Next \/ UNCHANGED vars
  PROVE  List'
<1>0. List
  BY DEF CInv
<1>1. CASE SaveOrDelete \/ Split
  BY <1>1, JobStarts DEF List
<1>2. CASE Adjust
  <2>1. CASE pc' = "next"
    BY <1>2, <2>1, LoopGoesOn DEF List
  <2>2. CASE pc' # "next"
    BY <1>2, <2>2 DEF Adjust, List, Working
  <2> QED
    BY <2>1, <2>2
<1>3. CASE Load
  <2>1. rec \subseteq Ids /\ Size(rec) # 0
    <3>1. rec \subseteq Ids
      BY DEF CInv, Files
    <3>2. Size(rec) > 1
      BY <1>3 DEF Load
    <3> QED
      BY <3>1, <3>2
  <2>2. PICK l \in MarkerLists(Size(rec)) :
          markers' = [k \in DOMAIN l |-> Marker(l[k].block, rec, l[k].sel)]
    BY <1>3 DEF Load
  <2>3. markers' \in Seq(MarkerType) /\ 2 <= Len(markers')
    BY <2>1, <2>2, LoadedIsTyped
  <2> QED
    BY <2>3 DEF List
<1>4. CASE Save \/ SwitchOff
  BY <1>4 DEF Save, SwitchOff, List, Working
<1>5. CASE UNCHANGED markers /\ (pc' \in Working => pc \in Working) /\ pc' # "edit"
  BY <1>0, <1>5 DEF List
<1>6. CASE UNCHANGED vars
  BY <1>0, <1>6, SMTT(30) DEF List, vars
<1> QED
  BY <1>1, <1>2, <1>3, <1>4, <1>5, <1>6
  DEF Next, Step, Skip, Choose, Patch, Cut, CutFails, Truncate, TruncateFails, Tidy, Swap,
      SwapBack, Restart, Working

LEMMA LoopKept ==
  ASSUME CInv, Next \/ UNCHANGED vars
  PROVE  Loop'
<1>0. Loop /\ Runs /\ job \in JobType
  BY DEF CInv, Records
<1>1. CASE SaveOrDelete \/ Split
  BY <1>1, JobStarts DEF Loop
<1>2. CASE Skip
  <2>1. CASE pc' = "next"
    <3>1. /\ pc = "next" /\ job.multi /\ job.i # 0 /\ UNCHANGED markers
          /\ job' = [job EXCEPT !.i = Onward]
      BY <1>2, <2>1 DEF Skip
    <3>2. /\ job'.i = job.i - 1 /\ job'.multi = job.multi /\ job'.split = job.split
          /\ job'.keep = job.keep /\ job.i \in Int
      BY <1>0, <3>1 DEF JobType, Onward
    <3>3. job.i \in 0 .. Len(markers) - 2 /\ ~job.split
      BY <1>0, <3>1 DEF Loop, Working
    <3>4. job'.i \in 0 .. Len(markers') - 2
      <4> DEFINE n == Len(markers) - 2
      <4>1. markers \in Seq(MarkerType)
        BY <3>1 DEF CInv, List, Working
      <4>2. n \in Int
        BY <4>1
      <4>3. job.i \in 0 .. n /\ job.i # 0 /\ job'.i = job.i - 1 /\ n = Len(markers') - 2
        BY <3>1, <3>2, <3>3
      <4> HIDE DEF n
      <4> QED
        BY <4>2, <4>3
    <3> QED
      BY <3>1, <3>2, <3>3, <3>4 DEF Loop
  <2>2. CASE pc' # "next"
    BY <1>2, <2>2 DEF Skip, Loop, Working
  <2> QED
    BY <2>1, <2>2
<1>3. CASE Adjust
  <2>1. CASE pc' = "next"
    BY <1>3, <2>1, LoopGoesOn DEF Loop
  <2>2. CASE pc' # "next"
    BY <1>3, <2>2 DEF Adjust, Loop, Working
  <2> QED
    BY <2>1, <2>2
<1>4. CASE pc' \notin Working
  BY <1>4 DEF Loop
<1>5. CASE UNCHANGED <<job, markers>> /\ pc \in Working
  BY <1>0, <1>5 DEF Loop
<1>6. CASE UNCHANGED vars
  BY <1>0, <1>6 DEF Loop, vars
<1> QED
  BY <1>1, <1>2, <1>3, <1>4, <1>5, <1>6
  DEF Next, Step, Choose, Patch, Cut, CutFails, Truncate, TruncateFails, Tidy, Swap,
      SwapBack, Restart, Save, SwitchOff, Load, Working

\* A step within the work on one segment that leaves the segment alone.
LEMMA WorkGoesOn ==
  ASSUME Work, pc \in Chosen, UNCHANGED <<job, cut, cuts>>,
         pc' \in {"swap", "restart", "adjust", "tidy"},
         cut.special => pc \in {"cut", "tidy", "swap"} \/ pc' \in {"restart", "adjust"}
  PROVE  Work'
BY DEF Work

LEMMA WorkKept ==
  ASSUME CInv, Next \/ UNCHANGED vars
  PROVE  Work'
<1>0. Work /\ cut \in CutType /\ job \in JobType /\ rec \subseteq Ids
  BY DEF CInv, Records, Files
<1>1. CASE pc' \notin Chosen
  BY <1>1 DEF Work
<1>2. CASE Choose
  <2>1. /\ cut'.w = IF job.multi THEN job.i ELSE job.active
        /\ cut'.name \in FreeCuts /\ cuts[cut'.name] = {}
        /\ cut'.special => job.keep /\ ~cut'.trunc /\ cut'.start = 0
        /\ cut'.trunc => cut'.behind = Clamped(DWord - 1)
        /\ pc' = IF cut'.trunc /\ ~job.keep THEN "truncate" ELSE "cut"
    BY <1>2, ChosenSegment
  <2>2. UNCHANGED <<job, rec, cuts>>
    BY <1>2 DEF Choose
  <2>3. Clamped(DWord - 1)' = Clamped(DWord - 1)
    BY <2>2 DEF Clamped, Size
  <2>4. CASE pc' = "truncate"
    BY <2>1, <2>2, <2>4 DEF Work
  <2>5. CASE pc' = "cut"
    BY <2>1, <2>2, <2>3, <2>5 DEF Work
  <2> QED
    BY <2>1, <2>4, <2>5
<1>3. CASE Patch
  <2>1. pc = "cut" /\ UNCHANGED <<files, job, cut, pc>>
    BY <1>3 DEF Patch
  <2>2. Clamped(DWord - 1)' = Clamped(DWord - 1)
    BY <2>1 DEF Clamped, Size, files
  <2> QED
    BY <1>0, <2>1, <2>2 DEF Work, files, Chosen, Working
<1>4. CASE Cut
  <2>1. PICK s, e \in 0 .. Size(rec) :
           /\ s < e /\ rec' = rec \ Part(rec, s, e)
           /\ cuts' = IF cut.special THEN cuts
                      ELSE [cuts EXCEPT ![cut.name] = Part(rec, s, e)]
           /\ \A f \in {"w", "special", "trunc", "name"} : cut'[f] = cut[f]
           /\ cut'.exact => cut'.start = s /\ cut'.behind = e
           /\ cut.trunc => Size(rec) - e <= 2 * Radius
    BY <1>4, CutRange
  <2>2. /\ cut'.w = cut.w /\ cut'.special = cut.special /\ cut'.trunc = cut.trunc
        /\ cut'.name = cut.name /\ UNCHANGED job
        /\ pc = "cut" /\ pc' = IF cut.trunc /\ cut'.exact THEN "truncate" ELSE "tidy"
    BY <1>4, <2>1 DEF Cut
  <2>3. /\ cut.w = IF job.multi THEN job.i ELSE job.active
        /\ cut.name \in FreeCuts /\ cuts[cut.name] = {}
        /\ cut.special => job.keep /\ ~cut.trunc
    BY <1>0, <2>2 DEF Work, Chosen, Working
  <2>4. cut.special => cuts'[cut'.name] = {}
    BY <2>1, <2>2, <2>3
  <2>5. CASE pc' = "tidy"
    BY <2>2, <2>3, <2>4, <2>5 DEF Work
  <2>6. CASE pc' = "truncate"
    <3>1. Size(rec) \in Nat /\ IsFiniteSet(rec) /\ rec \subseteq Nat
      <4>1. Size(rec) \in 0 .. NrBlocks /\ IsFiniteSet(rec) /\ rec \subseteq Nat
        BY <1>0, FilesAreFinite
      <4> QED
        BY <4>1
    <3>2. s \in Nat /\ e \in Nat /\ s <= e /\ e <= Size(rec)
      BY <2>1, <3>1
    <3>3. Size(rec') = Size(rec) - (e - s)
      BY <2>1, <3>1, <3>2, PartSize
    <3>4. cut'.start = s /\ Size(rec) - e <= 2 * Radius /\ cut'.trunc
      BY <2>1, <2>2, <2>6
    <3>5. Size(rec') - cut'.start <= 2 * Radius
      BY <3>1, <3>2, <3>3, <3>4, IdsAreFinite
    <3>6. Size(rec)' = Size(rec')
      BY DEF Size
    <3> QED
      BY <2>2, <2>3, <2>6, <3>4, <3>5, <3>6 DEF Work
  <2> QED
    BY <2>2, <2>5, <2>6
<1>5. CASE CutFails
  <2>1. pc = "cut" /\ pc' = "swap" /\ UNCHANGED <<job, cut, cuts>>
    BY <1>5 DEF CutFails, disk, files
  <2> QED
    BY <1>0, <2>1, WorkGoesOn DEF Chosen, Working
<1>6. CASE Truncate
  <2> DEFINE be == IF job.keep THEN cut.behind ELSE Size(rec)
  <2>1. /\ pc = "truncate" /\ pc' = "tidy" /\ UNCHANGED <<job, cuts>>
        /\ cut' = [cut EXCEPT !.start = TruncateAt, !.ok = TRUE, !.exact = TRUE,
                              !.behind = be]
    BY <1>6 DEF Truncate
  <2> HIDE DEF be
  <2>2. /\ cut'.w = cut.w /\ cut'.special = cut.special /\ cut'.trunc = cut.trunc
        /\ cut'.name = cut.name
    BY <1>0, <2>1 DEF CutType
  <2>3. cut.trunc /\ ~cut.special
    BY <1>0, <2>1 DEF Work, Chosen, Working
  <2> QED
    BY <1>0, <2>1, <2>2, <2>3 DEF Work, Chosen, Working
<1>7. CASE TruncateFails
  <2>1. pc = "truncate" /\ pc' \in {"tidy", "swap"} /\ UNCHANGED <<job, cut, cuts>>
    BY <1>7 DEF TruncateFails, disk, files
  <2>2. ~cut.special
    BY <1>0, <2>1 DEF Work, Chosen, Working
  <2> QED
    BY <1>0, <2>1, <2>2, WorkGoesOn DEF Chosen, Working
<1>8. CASE Tidy
  <2>1. pc = "tidy" /\ pc' = "swap" /\ UNCHANGED <<job, cut>>
        /\ cuts' = IF job.keep THEN cuts ELSE [cuts EXCEPT ![cut.name] = {}]
    BY <1>8 DEF Tidy, Kept
  <2>2. cut.special => job.keep
    BY <1>0, <2>1 DEF Work, Chosen, Working
  <2> QED
    BY <1>0, <2>1, <2>2 DEF Work, Chosen, Working
<1>9. CASE Swap
  <2>1. /\ pc = "swap" /\ pc' \in {"swapback", "restart"} /\ UNCHANGED <<job, cut, temp>>
        /\ pc' = "swapback" => temp # {}
    BY <1>9 DEF Swap
  <2> QED
    BY <1>0, <2>1 DEF Work, Chosen, Working
<1>10. CASE SwapBack
  BY <1>0, <1>10 DEF SwapBack, Work, Chosen, Working
<1>11. CASE Restart
  <2>1. pc = "restart" /\ pc' \in {"adjust", "save"} /\ UNCHANGED <<job, cut, cuts>>
    BY <1>11 DEF Restart, disk, files
  <2> QED
    BY <1>0, <2>1 DEF Work, Chosen, Working
<1>12. CASE UNCHANGED vars
  <2>1. UNCHANGED <<rec, temp, cuts, job, cut, pc>>
    BY <1>12 DEF vars, disk, files
  <2>2. Clamped(DWord - 1)' = Clamped(DWord - 1) /\ Size(rec)' = Size(rec)
    BY <2>1 DEF Clamped, Size
  <2> QED
    BY <1>0, <2>1, <2>2 DEF Work
<1>13. CASE SaveOrDelete \/ Split
  BY <1>1, <1>13, JobStarts DEF Chosen, Working
<1> QED
  BY <1>1, <1>2, <1>3, <1>4, <1>5, <1>6, <1>7, <1>8, <1>9, <1>10, <1>11, <1>12, <1>13
  DEF Next, Step, Skip, Adjust, Save, SwitchOff, Load, Chosen, Working

\* With an earlier job's temporary file still there a step may find a second one.
LEMMA TemporaryKept ==
  ASSUME CInv, Temporary, NoLeftover, Next \/ UNCHANGED vars
  PROVE  Temporary'
<1>0. Temporary /\ Runs /\ cut \in CutType
  BY DEF CInv, Records
<1>1. CASE SaveOrDelete \/ Split
  <2>1. pc = "edit" /\ UNCHANGED <<temp, cut>>
    BY <1>1 DEF SaveOrDelete, Split, Process, files
  <2> QED
    BY <1>0, <2>1 DEF Temporary, Ended
<1>2. CASE Skip
  BY <1>0, <1>2 DEF Skip, Temporary, disk, files, Ended
<1>3. CASE Choose
  <2>1. pc = "next" /\ temp' \in {temp, {}}
    BY <1>3 DEF Choose
  <2>2. cut'.special => ~DisableSpecialEnd
    BY <1>3, ChosenSegment
  <2> QED
    BY <1>0, <2>1, <2>2 DEF Temporary, Ended
<1>4. CASE Patch
  BY <1>0, <1>4 DEF Patch, Temporary, files
<1>5. CASE Cut
  <2>1. /\ \E P : temp' = IF cut.special THEN P ELSE temp
        /\ \A f \in {"w", "special", "trunc", "name"} : cut'[f] = cut[f]
    <3>1. PICK s, e \in 0 .. Size(rec) :
            /\ temp' = IF cut.special THEN Part(rec, s, e) ELSE temp
            /\ \A f \in {"w", "special", "trunc", "name"} : cut'[f] = cut[f]
      BY <1>5, CutRange
    <3> QED
      BY <3>1
  <2>2. cut'.special = cut.special /\ cut'.trunc = cut.trunc
    BY <2>1
  <2>3. pc = "cut" /\ pc' = IF cut.trunc /\ cut'.exact THEN "truncate" ELSE "tidy"
    BY <1>5 DEF Cut
  <2>4. cut.special => ~cut.trunc
    BY <2>3 DEF CInv, Work, Chosen, Working
  <2>5. temp = {}
    BY <1>0, <2>3 DEF Temporary, Ended
  <2>6. temp' # {} => cut'.special /\ pc' = "tidy"
    BY <2>1, <2>2, <2>3, <2>4, <2>5
  <2>7. DisableSpecialEnd => ~cut'.special
    BY <1>0, <2>2 DEF Temporary
  <2> QED
    BY <2>6, <2>7 DEF Temporary
<1>6. CASE CutFails \/ TruncateFails
  <2>1. pc \in {"cut", "truncate"} /\ UNCHANGED <<temp, cut>>
    BY <1>6 DEF CutFails, TruncateFails, disk, files
  <2> QED
    BY <1>0, <2>1 DEF Temporary, Ended
<1>7. CASE Truncate
  <2>1. pc = "truncate" /\ UNCHANGED temp
    BY <1>7 DEF Truncate
  <2>2. temp = {}
    BY <1>0, <2>1 DEF Temporary, Ended
  <2>3. cut'.special = cut.special
    BY <1>0, <1>7 DEF Truncate, CutType
  <2> QED
    BY <1>0, <2>1, <2>2, <2>3 DEF Temporary
<1>8. CASE Tidy
  BY <1>0, <1>8 DEF Tidy, Temporary, Ended
<1>9. CASE Swap
  <2>1. pc' \in {"swapback", "restart"} /\ UNCHANGED <<temp, cut>>
    BY <1>9 DEF Swap
  <2> QED
    BY <1>0, <2>1 DEF Temporary
<1>10. CASE SwapBack
  <2>1. pc' = "restart" /\ temp' \in {temp, {}} /\ UNCHANGED cut
    BY <1>10 DEF SwapBack
  <2> QED
    BY <1>0, <2>1 DEF Temporary
<1>11. CASE Restart
  <2>1. pc' \in {"adjust", "save"} /\ UNCHANGED <<temp, cut>>
    BY <1>11 DEF Restart, disk, files
  <2> QED
    BY <1>0, <2>1 DEF Temporary, Ended
<1>12. CASE Adjust
  <2>1. pc' \in {"next", "save"} /\ UNCHANGED <<temp, cut>>
    BY <1>12 DEF Adjust, files
  <2>2. pc' = "next" => temp = {} \/ ~cut.special
    BY <1>12, LoopGoesOn
  <2> QED
    BY <1>0, <2>1, <2>2 DEF Temporary, Ended
<1>13. CASE Save \/ SwitchOff
  <2>1. pc' = "ended" /\ UNCHANGED <<temp, cut>>
    BY <1>13 DEF Save, SwitchOff, files, disk
  <2> QED
    BY <1>0, <2>1 DEF Temporary, Ended
<1>14. CASE Load
  <2>1. pc = "ended" /\ runs < MaxRuns /\ UNCHANGED <<temp, cut>>
    BY <1>14 DEF Load, files
  <2>2. runs \in Nat /\ runs # 0 /\ MaxRuns \in Nat
    BY <1>0, <2>1, CutConstants DEF Runs
  <2>3. DisableSpecialEnd
    BY <2>1, <2>2 DEF NoLeftover
  <2> QED
    BY <1>0, <2>1, <2>3 DEF Temporary
<1>15. CASE UNCHANGED vars
  BY <1>0, <1>15 DEF vars, disk, files, Temporary
<1> QED
  BY <1>1, <1>2, <1>3, <1>4, <1>5, <1>6, <1>7, <1>8, <1>9, <1>10, <1>11, <1>12, <1>13,
     <1>14, <1>15 DEF Next, Step

\* Types and the bookkeeping of the loop hold whatever fails, over any number of jobs.
THEOREM Invariance == Spec => []CInv
<1>1. Init => CInv
  BY InitCInv
<1>2. CInv /\ [Next]_vars => CInv'
  BY FilesKept, RecordsKept, RunsKept, ListKept, LoopKept, WorkKept DEF CInv
<1> QED
  BY <1>1, <1>2, PTL DEF Spec

-----------------------------------------------------------------------------
(* The refinement: one clean cut.                                          *)

Content   == IF temp # {} THEN temp ELSE rec
CutFiles  == {cuts[n] : n \in Names \ Taken}
Pieces    == (CutFiles \cup (IF temp # {} THEN {rec} ELSE {})) \ {{}}
Mode      == IF runs = 0 THEN "none" ELSE IF asked.keep THEN "keep" ELSE "delete"

\* The abstract variables are these.
LEMMA AbstractState ==
  /\ Recorded!vars = <<Content, Pieces, Mode>>
  /\ Recorded!vars' = <<Content, Pieces, Mode>>'
BY DEF Recorded!vars, Content, Pieces, CutFiles, Mode

\* The promise counts as the code's model does.
LEMMA SameCount == \A S : Recorded!Cardinality(S) = Cardinality(S)
BY Zenon DEF Recorded!Cardinality, Cardinality, Recorded!IsFiniteSet, IsFiniteSet

LEMMA TakeStep ==
  ASSUME temp = {}, Mode # "none", NEW s \in 0 .. Size(rec), NEW e \in 0 .. Size(rec), s < e,
         Content' = rec \ Part(rec, s, e), Pieces' = Pieces \cup {Part(rec, s, e)}, Mode' = Mode
  PROVE  Recorded!Next
<1>1. Content = rec
  BY DEF Content
<1>2. Recorded!Interval(s, e) = Part(rec, s, e)
  BY <1>1, SameCount DEF Recorded!Interval, Recorded!Before, Part, Pos, Content
<1>3. s \in 0 .. Cardinality(Content) /\ e \in 0 .. Cardinality(Content)
  BY <1>1 DEF Size
<1>4. /\ Content' = Content \ Recorded!Interval(s, e)
      /\ Pieces' = Pieces \cup {Recorded!Interval(s, e)}
  BY <1>1, <1>2
<1>5. Recorded!Take
  BY <1>3, <1>4, SameCount DEF Recorded!Take, Content, Pieces, CutFiles, Mode
<1> QED
  BY <1>5 DEF Recorded!Next

LEMMA ShortenStep ==
  ASSUME temp = {}, Mode # "none", NEW n \in 0 .. Size(rec),
         Mode = "keep" => Size(rec) - n <= 2 * Radius,
         Content' = Part(rec, 0, n), Pieces' = Pieces, Mode' = Mode
  PROVE  Recorded!Next
<1>1. Content = rec
  BY DEF Content
<1>2. Recorded!Interval(0, n) = Part(rec, 0, n)
  BY <1>1, SameCount DEF Recorded!Interval, Recorded!Before, Part, Pos, Content
<1>3. /\ n \in 0 .. Cardinality(Content)
      /\ Mode = "keep" => Cardinality(Content) - n <= 2 * Radius
  BY <1>1 DEF Size
<1>4. Content' = Recorded!Interval(0, n)
  BY <1>2
<1>5. Recorded!Shorten
  BY <1>3, <1>4, SameCount DEF Recorded!Shorten, Content, Pieces, CutFiles, Mode
<1> QED
  BY <1>5 DEF Recorded!Next

LEMMA DropStep ==
  ASSUME Mode = "delete", NEW p \in Pieces,
         Content' = Content, Pieces' = Pieces \ {p}, Mode' = Mode
  PROVE  Recorded!Next
<1>1. Recorded!Drop
  BY DEF Recorded!Drop, Content, Pieces, CutFiles, Mode
<1> QED
  BY <1>1 DEF Recorded!Next

LEMMA BeginStep ==
  ASSUME Mode' \in {"keep", "delete"}, Content' = Content, Pieces' = Pieces
  PROVE  Recorded!Next
<1>1. Recorded!Begin
  BY DEF Recorded!Begin, Content, Pieces, CutFiles, Mode
<1> QED
  BY <1>1 DEF Recorded!Next

LEMMA StutterStep ==
  ASSUME Content' = Content, Pieces' = Pieces, Mode' = Mode
  PROVE  UNCHANGED Recorded!vars
BY AbstractState

\* A range from the start and what is behind it.
LEMMA FrontAndEnd ==
  ASSUME NEW F, IsFiniteSet(F), F \subseteq Nat, NEW e \in 0 .. Size(F)
  PROVE  /\ F \ Part(F, 0, e) = Part(F, e, Size(F))
         /\ F \ Part(F, e, Size(F)) = Part(F, 0, e)
         /\ e = Size(F) => Part(F, 0, e) = F
<1>1. Size(F) \in Nat /\ \A x \in F : Pos(F, x) \in 0 .. Size(F) - 1
  BY FS_CardinalityType, PositionInFile DEF Size
<1>2. \A x \in F : x \in Part(F, 0, e) <=> Pos(F, x) < e
  BY <1>1 DEF Part
<1>3. \A x \in F : x \in Part(F, e, Size(F)) <=> ~(Pos(F, x) < e)
  BY <1>1 DEF Part
<1>4. Part(F, 0, e) \subseteq F /\ Part(F, e, Size(F)) \subseteq F
  BY DEF Part
<1>5. e = Size(F) => \A x \in F : Pos(F, x) < e
  BY <1>1
<1> QED
  BY <1>2, <1>3, <1>4, <1>5

LEMMA CutIsATake ==
  ASSUME CInv, Temporary, Cut
  PROVE  Recorded!Next \/ UNCHANGED Recorded!vars
<1>1. PICK s, e \in 0 .. Size(rec) :
         /\ s < e /\ Part(rec, s, e) # {}
         /\ rec' = rec \ Part(rec, s, e)
         /\ temp' = IF cut.special THEN Part(rec, s, e) ELSE temp
         /\ cuts' = IF cut.special THEN cuts ELSE [cuts EXCEPT ![cut.name] = Part(rec, s, e)]
         /\ cut.special => s = 0
  BY CutRange
<1> DEFINE P == Part(rec, s, e)
<1>2. /\ pc = "cut" /\ temp = {} /\ runs # 0 /\ asked.keep \in BOOLEAN
      /\ cut.name \in FreeCuts /\ cuts[cut.name] = {}
      /\ cuts \in [Names -> SUBSET Nat] /\ rec \subseteq Ids
  <2>1. pc = "cut"
    BY DEF Cut
  <2> QED
    BY <2>1 DEF CInv, Files, Runs, Records, Work, Temporary, Chosen, Working, Ended
<1>3. IsFiniteSet(rec) /\ rec \subseteq Nat
  BY <1>2, FilesAreFinite
<1>4. Mode # "none" /\ Mode' = Mode
  <2>1. UNCHANGED runs /\ asked'.keep = asked.keep
    BY DEF Cut, CInv, Records
  <2> QED
    BY <1>2, <2>1 DEF Mode
<1>5. CASE ~cut.special
  <2>1. temp' = {} /\ rec' = rec \ P /\ cuts' = [cuts EXCEPT ![cut.name] = P] /\ P # {}
    BY <1>1, <1>2, <1>5
  <2> HIDE DEF P
  <2>2. Content' = rec \ P
    BY <2>1 DEF Content
  <2>3. Pieces' = Pieces \cup {P}
    <3>1. cuts'[cut.name] = P /\ \A n \in Names : n # cut.name => cuts'[n] = cuts[n]
      BY <1>2, <2>1 DEF FreeCuts
    <3>2. CutFiles' = {cuts'[n] : n \in FreeCuts} /\ CutFiles = {cuts[n] : n \in FreeCuts}
      BY DEF CutFiles, FreeCuts
    <3>3. \A n \in FreeCuts : n \in Names
      BY DEF FreeCuts
    <3>4. \A x : x # {} => (x \in CutFiles' <=> x \in CutFiles \/ x = P)
      BY <1>2, <3>1, <3>2, <3>3
    <3>5. Pieces = CutFiles \ {{}} /\ Pieces' = CutFiles' \ {{}}
      BY <1>2, <2>1 DEF Pieces
    <3> QED
      BY <2>1, <3>4, <3>5
  <2> QED
    BY <1>1, <1>2, <1>4, <2>2, <2>3, TakeStep DEF P
<1>6. CASE cut.special
  <2>1. P = Part(rec, 0, e) /\ temp' = P /\ rec' = rec \ P /\ cuts' = cuts /\ P # {}
    BY <1>1, <1>6
  <2> HIDE DEF P
  <2>2. Content' = P /\ Pieces' = (CutFiles \cup {rec'}) \ {{}} /\ Pieces = CutFiles \ {{}}
    BY <1>2, <2>1 DEF Content, Pieces, CutFiles
  <2>3. CASE e < Size(rec)
    <3> DEFINE b == Size(rec)
               Q == Part(rec, e, b)
    <3>1. rec' = Q /\ rec \ Q = P
      BY <1>3, <2>1, FrontAndEnd
    <3>2. Q # {}
      <4>1. b \in Nat
        BY <1>3, FS_CardinalityType DEF Size
      <4>2. e \in 0 .. b - 1
        BY <2>3, <4>1
      <4>3. PICK x \in rec : Pos(rec, x) = e
        BY <1>3, <4>2, PositionIsTaken
      <4> QED
        BY <2>3, <4>1, <4>3 DEF Part
    <3>3. b \in 0 .. Size(rec) /\ e < b
      BY <1>3, <2>3, FS_CardinalityType DEF Size
    <3> HIDE DEF b
    <3>4. Content' = rec \ Part(rec, e, b) /\ Pieces' = Pieces \cup {Part(rec, e, b)}
      BY <2>2, <3>1, <3>2
    <3> QED
      BY <1>1, <1>2, <1>4, <3>3, <3>4, TakeStep
  <2>4. CASE e = Size(rec)
    <3>1. P = rec
      BY <1>3, <2>1, <2>4, FrontAndEnd
    <3>2. Content' = Content /\ Pieces' = Pieces
      BY <1>2, <2>1, <2>2, <3>1 DEF Content
    <3> QED
      BY <1>4, <3>2, StutterStep
  <2>5. e < Size(rec) \/ e = Size(rec)
    <3>1. Size(rec) \in Nat
      BY <1>3, FS_CardinalityType DEF Size
    <3> QED
      BY <1>1, <3>1
  <2> QED
    BY <2>3, <2>4, <2>5
<1> QED
  BY <1>5, <1>6

LEMMA TruncateShortens ==
  ASSUME CInv, Temporary, Truncate
  PROVE  Recorded!Next
<1>1. /\ pc = "truncate" /\ rec' = Part(rec, 0, TruncateAt)
      /\ UNCHANGED <<temp, cuts, asked, runs>>
  BY DEF Truncate
<1>2. /\ temp = {} /\ runs # 0 /\ job.keep = asked.keep /\ asked.keep \in BOOLEAN
      /\ job.keep => Size(rec) - cut.start <= 2 * Radius
      /\ rec \subseteq Ids /\ cut \in CutType
  BY <1>1 DEF CInv, Files, Runs, Records, Work, Temporary, Chosen, Working, Ended
<1>3. Size(rec) \in Nat /\ IsFiniteSet(rec) /\ rec \subseteq Nat
  <2>1. Size(rec) \in 0 .. NrBlocks /\ IsFiniteSet(rec) /\ rec \subseteq Nat
    BY <1>2, FilesAreFinite
  <2> QED
    BY <2>1
<1>4. TruncateAt \in Int /\ (job.keep => TruncateAt = cut.start)
  BY <1>2 DEF TruncateAt, CutType
<1> DEFINE t == TruncateAt
           n == IF t < 0 THEN 0 ELSE IF t > Size(rec) THEN Size(rec) ELSE t
<1>5. t \in Int
  BY <1>4
<1>6. job.keep => Size(rec) - t <= 2 * Radius
  BY <1>2, <1>4
<1>7. rec' = Part(rec, 0, t)
  BY <1>1
<1> HIDE DEF t
<1>8. n \in 0 .. Size(rec)
  BY <1>3, <1>5
<1>9. job.keep => Size(rec) - n <= 2 * Radius
  BY <1>3, <1>5, <1>6, IdsAreFinite
<1>10. Part(rec, 0, n) = Part(rec, 0, t)
  <2>1. \A x \in rec : Pos(rec, x) \in 0 .. Size(rec) - 1
    BY <1>3, PositionInFile
  <2>2. \A x \in rec : Pos(rec, x) < n <=> Pos(rec, x) < t
    BY <1>3, <1>5, <2>1
  <2> HIDE DEF n
  <2> QED
    BY <2>2 DEF Part
<1>11. Mode # "none" /\ (Mode = "keep" => job.keep) /\ Mode' = Mode
  BY <1>1, <1>2 DEF Mode
<1>12. Content' = Part(rec, 0, n) /\ Pieces' = Pieces
  <2> HIDE DEF n
  <2> QED
    BY <1>1, <1>2, <1>7, <1>10 DEF Content, Pieces, CutFiles
<1> HIDE DEF n
<1> QED
  BY <1>2, <1>8, <1>9, <1>11, <1>12, ShortenStep

LEMMA TidyDrops ==
  ASSUME CInv, Temporary, Tidy
  PROVE  Recorded!Next \/ UNCHANGED Recorded!vars
<1>1. /\ pc = "tidy" /\ UNCHANGED <<rec, temp, asked, runs>>
      /\ cuts' = IF job.keep THEN cuts ELSE [cuts EXCEPT ![cut.name] = {}]
  BY DEF Tidy, Kept
<1>2. /\ runs # 0 /\ job.keep = asked.keep /\ cut.name \in FreeCuts
      /\ cut.special => job.keep
      /\ cuts \in [Names -> SUBSET Nat]
      /\ \A m, n \in FreeCuts : m # n => cuts[m] \cap cuts[n] = {}
  BY <1>1 DEF CInv, Files, Runs, Work, Chosen, Working
<1>3. Mode' = Mode
  BY <1>1 DEF Mode
<1>4. Content' = Content
  BY <1>1 DEF Content
<1>5. CASE cuts' = cuts
  <2>1. Pieces' = Pieces
    BY <1>1, <1>5 DEF Pieces, CutFiles
  <2> QED
    BY <1>3, <1>4, <2>1, StutterStep
<1>6. CASE ~job.keep
  <2> DEFINE p == cuts[cut.name]
  <2>1. temp = {} /\ Mode = "delete"
    BY <1>2, <1>6 DEF Temporary, Mode
  <2>2. cuts' = [cuts EXCEPT ![cut.name] = {}]
    BY <1>1, <1>6
  <2>3. cuts'[cut.name] = {} /\ \A n \in Names : n # cut.name => cuts'[n] = cuts[n]
    BY <1>2, <2>2 DEF FreeCuts
  <2>4. CutFiles' = {cuts'[n] : n \in FreeCuts} /\ CutFiles = {cuts[n] : n \in FreeCuts}
    BY DEF CutFiles, FreeCuts
  <2>5. Pieces = CutFiles \ {{}} /\ Pieces' = CutFiles' \ {{}}
    BY <1>1, <2>1 DEF Pieces
  <2>6. \A n \in FreeCuts : n \in Names
    BY DEF FreeCuts
  <2>7. \A n \in FreeCuts : n # cut.name /\ cuts[n] # {} => cuts[n] # p
    BY <1>2
  <2>8. \A x : x # {} => (x \in CutFiles' <=> x \in CutFiles /\ x # p)
    <3> SUFFICES ASSUME NEW x, x # {} PROVE x \in CutFiles' <=> x \in CutFiles /\ x # p
      OBVIOUS
    <3>1. ASSUME x \in CutFiles' PROVE x \in CutFiles /\ x # p
      <4>1. PICK n \in FreeCuts : x = cuts'[n]
        BY <2>4, <3>1
      <4>2. n # cut.name
        BY <2>3, <4>1
      <4>3. x = cuts[n]
        BY <2>3, <2>6, <4>1, <4>2
      <4> QED
        BY <2>4, <2>7, <4>2, <4>3
    <3>2. ASSUME x \in CutFiles, x # p PROVE x \in CutFiles'
      <4>1. PICK n \in FreeCuts : x = cuts[n]
        BY <2>4, <3>2
      <4>2. n # cut.name
        BY <3>2, <4>1
      <4> QED
        BY <2>3, <2>4, <2>6, <4>1, <4>2
    <3> QED
      BY <3>1, <3>2
  <2>9. p \in CutFiles
    BY <1>2, <2>4
  <2> HIDE DEF p
  <2>10. CASE p = {}
    <3>1. Pieces' = Pieces
      BY <2>5, <2>8, <2>10
    <3> QED
      BY <1>3, <1>4, <3>1, StutterStep
  <2>11. CASE p # {}
    <3>1. p \in Pieces /\ Pieces' = Pieces \ {p}
      BY <2>5, <2>8, <2>9, <2>11
    <3> QED
      BY <1>3, <1>4, <2>1, <3>1, DropStep
  <2> QED
    BY <2>10, <2>11
<1> QED
  BY <1>1, <1>5, <1>6

\* The two renames: the piece changes its name, then the recording does.
LEMMA SwapStutters ==
  ASSUME CInv, Temporary, Swap
  PROVE  UNCHANGED Recorded!vars
<1>1. /\ pc = "swap" /\ UNCHANGED <<temp, runs>>
      /\ \/ /\ cut.special /\ temp # {} /\ cuts' = [cuts EXCEPT ![cut.name] = rec]
            /\ rec' = {}
         \/ UNCHANGED <<rec, cuts>>
  BY DEF Swap
<1>2. /\ cut.name \in FreeCuts /\ (cut.special => cuts[cut.name] = {})
      /\ cuts \in [Names -> SUBSET Nat]
  BY <1>1 DEF CInv, Files, Work, Chosen, Working
<1>3. Mode' = Mode
  <2>1. asked'.keep = asked.keep
    BY DEF Swap, CInv, Records
  <2> QED
    BY <1>1, <2>1 DEF Mode
<1>4. CASE UNCHANGED <<rec, cuts>>
  <2>1. Content' = Content /\ Pieces' = Pieces
    BY <1>1, <1>4 DEF Content, Pieces, CutFiles
  <2> QED
    BY <1>3, <2>1, StutterStep
<1>5. CASE cut.special /\ temp # {} /\ cuts' = [cuts EXCEPT ![cut.name] = rec] /\ rec' = {}
  <2>1. Content' = Content
    BY <1>1, <1>5 DEF Content
  <2>2. cuts'[cut.name] = rec /\ \A n \in Names : n # cut.name => cuts'[n] = cuts[n]
    BY <1>2, <1>5 DEF FreeCuts
  <2>3. CutFiles' = {cuts'[n] : n \in FreeCuts} /\ CutFiles = {cuts[n] : n \in FreeCuts}
    BY DEF CutFiles, FreeCuts
  <2>4. Pieces = (CutFiles \cup {rec}) \ {{}} /\ Pieces' = (CutFiles' \cup {{}}) \ {{}}
    BY <1>1, <1>5 DEF Pieces
  <2>5. \A n \in FreeCuts : n \in Names
    BY DEF FreeCuts
  <2>6. \A x : x # {} => (x \in CutFiles' <=> x \in CutFiles \/ x = rec)
    BY <1>2, <1>5, <2>2, <2>3, <2>5
  <2>7. Pieces' = Pieces
    BY <2>4, <2>6
  <2> QED
    BY <1>3, <2>1, <2>7, StutterStep
<1> QED
  BY <1>1, <1>4, <1>5

LEMMA SwapBackStutters ==
  ASSUME CInv, SwapBack
  PROVE  UNCHANGED Recorded!vars
<1>1. /\ UNCHANGED <<cuts, asked, runs>>
      /\ \/ rec = {} /\ rec' = temp /\ temp' = {}
         \/ UNCHANGED <<rec, temp>>
  BY DEF SwapBack
<1>2. CutFiles' = CutFiles /\ Mode' = Mode
  BY <1>1 DEF CutFiles, Mode
<1>3. Content' = Content /\ Pieces' = Pieces
  BY <1>1, <1>2 DEF Content, Pieces
<1> QED
  BY <1>2, <1>3, StutterStep

\* Every step of the code is a step of the promise or none.
LEMMA StepRefines ==
  ASSUME CInv, Temporary, Next \/ UNCHANGED vars
  PROVE  Recorded!Next \/ UNCHANGED Recorded!vars
<1>1. ASSUME UNCHANGED files, UNCHANGED runs, asked'.keep = asked.keep
      PROVE  UNCHANGED Recorded!vars
  <2>1. Content' = Content /\ Pieces' = Pieces /\ Mode' = Mode
    BY <1>1 DEF files, Content, Pieces, CutFiles, Mode
  <2> QED
    BY <2>1, StutterStep
<1>2. CASE SaveOrDelete \/ Split
  <2>1. pc = "edit" /\ runs' = runs + 1 /\ job'.keep = asked'.keep
    BY <1>2, JobStarts
  <2>2. UNCHANGED <<rec, temp, cuts>>
    BY <1>2 DEF SaveOrDelete, Split, Process, files
  <2>3. Content' = Content /\ Pieces' = Pieces
    BY <2>2 DEF Content, Pieces, CutFiles
  <2>4. Mode' \in {"keep", "delete"}
    <3>1. runs \in Nat
      BY DEF CInv, Runs
    <3> QED
      BY <2>1, <3>1 DEF Mode
  <2> QED
    BY <2>3, <2>4, BeginStep
<1>3. CASE Cut
  BY <1>3, CutIsATake
<1>4. CASE Truncate
  BY <1>4, TruncateShortens
<1>5. CASE Tidy
  BY <1>5, TidyDrops
<1>6. CASE Swap
  BY <1>6, SwapStutters
<1>7. CASE SwapBack
  BY <1>7, SwapBackStutters
<1>8. CASE Choose
  <2>1. pc = "next" /\ temp' \in {temp, {}} /\ UNCHANGED <<rec, cuts, runs, asked>>
    BY <1>8 DEF Choose
  <2>2. temp = {}
    BY <2>1 DEF Temporary, Ended
  <2> QED
    BY <1>1, <2>1, <2>2 DEF files
<1>9. CASE Adjust \/ Restart \/ Save \/ SwitchOff
  <2>1. UNCHANGED files /\ UNCHANGED runs
    BY <1>9 DEF Adjust, Restart, Save, SwitchOff, disk
  <2>2. asked'.keep = asked.keep
    BY <1>9 DEF Adjust, Restart, Save, SwitchOff, CInv, Records
  <2> QED
    BY <1>1, <2>1, <2>2
<1>10. CASE Skip \/ Patch \/ CutFails \/ TruncateFails \/ Load \/ UNCHANGED vars
  <2>1. UNCHANGED files /\ UNCHANGED runs /\ UNCHANGED asked
    BY <1>10 DEF Skip, Patch, CutFails, TruncateFails, Load, vars, disk
  <2> QED
    BY <1>1, <2>1
<1> QED
  BY <1>2, <1>3, <1>4, <1>5, <1>6, <1>7, <1>8, <1>9, <1>10 DEF Next, Step

LEMMA InitRefines == Init => Recorded!Init
<1> SUFFICES ASSUME Init PROVE Recorded!Init
  OBVIOUS
<1>1. Content = Ids /\ Mode = "none"
  BY DEF Init, Content, Mode
<1>2. \A n \in Names \ Taken : cuts[n] = {}
  BY DEF Init
<1>3. temp = {}
  BY DEF Init
<1>4. Pieces = {}
  BY <1>2, <1>3 DEF Pieces, CutFiles
<1> QED
  BY <1>1, <1>4 DEF Recorded!Init, Content, Pieces, CutFiles, Mode

\* FileCut, the swapping of names behind the special end, RecTruncate and the
\* deletion of what is not kept are together one clean cut of the recording, with
\* every fault and the receiver switched off at any moment: a piece is taken out
\* whole, only deleting throws one away, and saving the end loses no more than the
\* tail the firmware is not asked to cut.
THEOREM ImplementsTheCut ==
  ASSUME NoLeftover
  PROVE  Spec => ImplementsRecording
<1>1. Init => CInv /\ Temporary /\ Recorded!Init
  BY InitCInv, InitRefines
<1>2. CInv /\ Temporary /\ [Next]_vars => CInv' /\ Temporary'
  BY FilesKept, RecordsKept, RunsKept, ListKept, LoopKept, WorkKept, TemporaryKept,
     NoLeftover DEF CInv
<1>3. CInv /\ Temporary /\ [Next]_vars => [Recorded!Next]_(Recorded!vars)
  BY StepRefines
<1> QED
  BY <1>1, <1>2, <1>3, PTL DEF Spec, ImplementsRecording, Recorded!Spec

-----------------------------------------------------------------------------
(* The sync bytes.                                                         *)

\* Where the recording can be patched: before the cut, or on the way out of a
\* job whose cut the firmware refused.
Unpatched ==
  /\ pc = "cut" => ~cut.ok
  /\ patched => \/ pc = "cut"
                \/ pc \in {"swap", "swapback", "restart"} /\ ~cut.ok
                \/ pc = "save" /\ asked.result = "failed"
                \/ pc = "ended" /\ asked.result \in {"failed", "off"}

LEMMA UnpatchedKept ==
  ASSUME CInv, Unpatched, "positions" \notin Faults, MaxRuns <= 1, Next \/ UNCHANGED vars
  PROVE  Unpatched'
<1>0. Unpatched /\ asked = [segs |-> asked.segs, rec |-> asked.rec, files |-> asked.files,
                            marks |-> asked.marks, keep |-> asked.keep, split |-> asked.split,
                            made |-> asked.made, result |-> asked.result, drift |-> asked.drift]
  BY DEF CInv, Records
<1>1. CASE SaveOrDelete \/ Split
  <2>1. pc = "edit" /\ pc' = "next"
    BY <1>1, JobStarts
  <2>2. UNCHANGED patched
    BY <1>1 DEF SaveOrDelete, Split, Process
  <2> QED
    BY <1>0, <2>1, <2>2 DEF Unpatched
<1>2. CASE Skip
  BY <1>0, <1>2 DEF Skip, Unpatched, disk
<1>3. CASE Choose
  <2>1. pc = "next" /\ UNCHANGED patched /\ ~cut'.ok
    BY <1>3 DEF Choose
  <2> QED
    BY <1>0, <2>1 DEF Unpatched
<1>4. CASE Patch
  BY <1>0, <1>4 DEF Patch, Unpatched
<1>5. CASE Cut
  <2>1. (cut'.exact \/ "positions" \in Faults) /\ patched' = (patched /\ ~cut'.exact)
    BY <1>5, CutRange
  <2>2. ~patched'
    BY <2>1
  <2>3. pc' # "cut"
    BY <1>5 DEF Cut
  <2> QED
    BY <2>2, <2>3 DEF Unpatched
<1>6. CASE CutFails
  BY <1>0, <1>6 DEF CutFails, Unpatched, disk
<1>7. CASE Truncate \/ TruncateFails \/ Tidy
  <2>1. pc \in {"truncate", "tidy"} /\ pc' \in {"tidy", "swap"} /\ UNCHANGED patched
    BY <1>7 DEF Truncate, TruncateFails, Tidy, disk
  <2> QED
    BY <1>0, <2>1 DEF Unpatched
<1>8. CASE Swap
  <2>1. pc = "swap" /\ pc' \in {"swapback", "restart"} /\ UNCHANGED <<patched, cut>>
    BY <1>8 DEF Swap
  <2> QED
    BY <1>0, <2>1 DEF Unpatched
<1>9. CASE SwapBack
  BY <1>0, <1>9 DEF SwapBack, Unpatched
<1>10. CASE Restart
  <2>1. pc = "restart" /\ UNCHANGED patched /\ pc' \in {"adjust", "save"}
        /\ (~cut.ok => pc' = "save" /\ asked' = [asked EXCEPT !.result = "failed"])
    BY <1>10 DEF Restart, disk
  <2>2. ~cut.ok => pc' = "save" /\ asked'.result = "failed"
    BY <1>0, <2>1
  <2> QED
    BY <1>0, <2>1, <2>2 DEF Unpatched
<1>11. CASE Adjust
  <2>1. pc = "adjust" /\ UNCHANGED patched /\ pc' \in {"next", "save"}
    BY <1>11 DEF Adjust
  <2> QED
    BY <1>0, <2>1 DEF Unpatched
<1>12. CASE Save
  <2>1. /\ pc = "save" /\ pc' = "ended" /\ UNCHANGED patched
        /\ asked.result = "failed" => asked'.result = "failed"
    BY <1>0, <1>12 DEF Save
  <2> QED
    BY <1>0, <2>1 DEF Unpatched
<1>13. CASE SwitchOff
  <2>1. pc' = "ended" /\ asked'.result = "off"
    BY <1>0, <1>13 DEF SwitchOff
  <2> QED
    BY <2>1 DEF Unpatched
<1>14. CASE Load
  <2>1. pc = "ended" /\ runs < MaxRuns
    BY <1>14 DEF Load
  <2>2. runs \in Nat /\ runs # 0 /\ MaxRuns \in Nat
    BY <2>1, CutConstants DEF CInv, Runs
  <2> QED
    BY <2>1, <2>2
<1>15. CASE UNCHANGED vars
  BY <1>0, <1>15 DEF Unpatched, vars, disk
<1> QED
  BY <1>1, <1>2, <1>3, <1>4, <1>5, <1>6, <1>7, <1>8, <1>9, <1>10, <1>11, <1>12, <1>13,
     <1>14, <1>15 DEF Next, Step

\* A job on an unpatched recording that reports success leaves no sync byte patched,
\* wherever the firmware fails and whenever the receiver is switched off, as long as
\* the real cut points can be found: UnpatchRecFile runs for each PatchRecFile.
\* MaxRuns <= 1 says that the recording is unpatched at the start of the job.
THEOREM SyncBytesComeBack ==
  ASSUME "positions" \notin Faults, MaxRuns <= 1
  PROVE  Spec => []SyncBytesRestored
<1>1. Init => CInv /\ Unpatched
  <2>1. Init => Unpatched
    BY DEF Init, Unpatched
  <2> QED
    BY <2>1, InitCInv
<1>2. CInv /\ Unpatched /\ [Next]_vars => CInv' /\ Unpatched'
  BY FilesKept, RecordsKept, RunsKept, ListKept, LoopKept, WorkKept, UnpatchedKept DEF CInv
<1>3. CInv /\ Unpatched => SyncBytesRestored
  BY DEF Unpatched, SyncBytesRestored, Done
<1> QED
  BY <1>1, <1>2, <1>3, PTL DEF Spec
=============================================================================
