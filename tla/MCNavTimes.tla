----------------------------- MODULE MCNavTimes -----------------------------
(* Small instances of NavTimes: .nav files of three groups of pictures.    *)
EXTENDS NavTimes

Group == <<1, 3, 3, 2, 3, 3, 2>>
Types == Group \o Group \o Group
File(types, t(_)) == [i \in 1 .. 21 |-> [pos |-> 2 * i - 1, type |-> types[i], time |-> t(i)]]

Sound   == LET t(i) == i IN File(Types, t)
Holes   == LET t(i) == IF i > 10 THEN i + 36 ELSE IF i > 4 THEN i + 5 ELSE i IN File(Types, t)
\* A gap behind the last I-frame, which nobody notices.
HoleEnd == LET t(i) == IF i > 17 THEN i + 30 ELSE i IN File(Types, t)
Restart == LET t(i) == IF i > 14 THEN i - 14 ELSE 40 + i IN File(Types, t)
\* Two I-frames in one block.
Dense   == LET t(i) == i IN File([Types EXCEPT ![9] = 1], t)

MCNavs     == {Sound, Holes, HoleEnd, Restart, Dense}
MCDuration == [n \in MCNavs |-> 21]
Cut(s, b, e) == [start |-> s, behind |-> b, ending |-> e]
MCCuts     == {Cut(0, 15, FALSE), Cut(15, 29, FALSE), Cut(10, 20, FALSE), Cut(8, 29, FALSE),
               Cut(15, 43, TRUE), Cut(24, 33, FALSE)}
\* Fewer than there is room for, as many, and more.
MCBookmarkLists == {<<1, 2, 11>>, <<1, 3, 7, 12>>, <<2, 3, 4, 5, 13>>}
=============================================================================
