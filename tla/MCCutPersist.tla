---------------------------- MODULE MCCutPersist ----------------------------
(* Small instances of CutPersist: two recordings, three contents.          *)
EXTENDS CutPersist

CONSTANTS r1, r2, v1, v2, v3

MCTotal == v1 :> 8 @@ v2 :> 6 @@ v3 :> 8
MCSize  == v1 :> 800 @@ v2 :> 600 @@ v3 :> 801
Stamp(b, t) == [block |-> b, time |-> t]
\* v2 lacks the second quarter of v1 and ends with an uncertain tail; v3 has no .nav.
MCNav == v1 :> <<Stamp(0, 0), Stamp(2, 10), Stamp(4, 20), Stamp(6, 30)>>
         @@ v2 :> <<Stamp(0, 0), Stamp(3, 15), Stamp(5, 25), Stamp(6, 35)>>
         @@ v3 :> <<>>
MCContents == r1 :> {v1, v2} @@ r2 :> {v3}
MCFirst == r1 :> v1 @@ r2 :> v3

\* Selected, with a caption.  A marker lies a little in front of its time stamp.
M(b, t, s, c) == [block |-> b, time |-> t, selected |-> s, caption |-> c]
MCUserLists ==
  v1 :> {<<M(0, 0, TRUE, TRUE), M(8, 30, FALSE, FALSE)>>,
         <<M(0, 0, FALSE, FALSE), M(1, 10, TRUE, TRUE), M(5, 30, FALSE, FALSE),
           M(8, 30, FALSE, FALSE)>>}
  @@ v2 :> {<<M(0, 0, TRUE, FALSE), M(2, 15, TRUE, FALSE), M(6, 35, FALSE, FALSE)>>}
  @@ v3 :> {<<M(0, 0, TRUE, FALSE), M(4, 4, FALSE, FALSE), M(8, 8, FALSE, FALSE)>>}
MCUserBookmarks == v1 :> {<<>>, <<3>>} @@ v2 :> {<<>>} @@ v3 :> {}
=============================================================================
