----------------------------- MODULE MCSession -----------------------------
(* Small instances of Session for TLC. *)
EXTENDS Session

CONSTANTS r1, r2

\* Two recordings of different length; stripping makes a recording shorter.
MCBlocks ==
  [r \in Recs |-> IF r = r1 THEN [full |-> 9, stripped |-> 8, partial |-> 1]
                            ELSE [full |-> 6, stripped |-> 5, partial |-> 1]]
=============================================================================
