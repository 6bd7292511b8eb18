---------------------------- MODULE MCCutProcess ----------------------------
(* Small instances of CutProcess for TLC. *)
EXTENDS CutProcess

CONSTANT Spacing      \* least length of a segment the user has made

\* Every list with inner markers at least Spacing blocks apart.
InnerSets(size) ==
  {B \in SUBSET (1 .. size - 1) :
     /\ B # {} /\ Cardinality(B) <= 2
     /\ \A b \in B : b >= Spacing /\ size - b >= Spacing
     /\ \A a, b \in B : a < b => b - a >= Spacing}
MCMarkerLists(size) ==
  UNION {LET seq == <<0>> \o SetToSortSeq(B, <) \o <<size>>
         IN  {[k \in DOMAIN seq |-> [block |-> seq[k], sel |-> k \in K]] :
                K \in SUBSET (1 .. Len(seq) - 1)}
         : B \in InnerSets(size)}
=============================================================================
