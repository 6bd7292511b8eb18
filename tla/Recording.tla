------------------------------ MODULE Recording ------------------------------
(***************************************************************************)
(* What MovieCutter promises about a recording: pieces are taken out of it *)
(* whole, in one go; saving loses nothing but a short tail, and only       *)
(* deleting throws a piece away.                                           *)
(***************************************************************************)
EXTENDS Integers, FiniteSets

CONSTANTS All, Slack     \* the recording at first; the tail that saving may lose
VARIABLES content, pieces, mode

Before(x) == Cardinality({y \in content : y < x})
Interval(s, e) == {x \in content : s <= Before(x) /\ Before(x) < e}

Init == content = All /\ pieces = {} /\ mode = "none"

\* The user chooses what to do with segments.
Begin == mode' \in {"keep", "delete"} /\ UNCHANGED <<content, pieces>>

\* An interval becomes a piece of its own.
Take ==
  /\ mode # "none"
  /\ \E s, e \in 0 .. Cardinality(content) :
       /\ s < e
       /\ content' = content \ Interval(s, e)
       /\ pieces' = pieces \cup {Interval(s, e)}
  /\ UNCHANGED mode

\* A piece is thrown away.
Drop ==
  /\ mode = "delete"
  /\ \E p \in pieces : pieces' = pieces \ {p}
  /\ UNCHANGED <<content, mode>>

\* The end is cut off.
Shorten ==
  /\ mode # "none"
  /\ \E n \in 0 .. Cardinality(content) :
       /\ mode = "keep" => Cardinality(content) - n <= Slack
       /\ content' = Interval(0, n)
  /\ UNCHANGED <<pieces, mode>>

vars == <<content, pieces, mode>>

Next == Begin \/ Take \/ Drop \/ Shorten
Spec == Init /\ [][Next]_vars
=============================================================================
