--------------------------- MODULE SegmentHistory ---------------------------
(***************************************************************************)
(* SegmentMarkers with a history variable: the lists around the action of  *)
(* every undo event.  It observes and never restricts a step.              *)
(***************************************************************************)
EXTENDS SegmentMarkers

VARIABLE past   \* slot -> the lists before and after the action of the event in it

allVars == <<vars, past>>

Lists == <<markers, bookmarks>>
None  == <<>>
Empty == [k \in Slots |-> None]

RingIsBlank == undo = [k \in Slots |-> Blank]

\* An action that adds an event records the lists around it.
Observe ==
  past' = IF RingIsBlank' THEN Empty
          ELSE IF UndoKey THEN [past EXCEPT ![undoLast] = None]
          ELSE IF undoVars' # undoVars
               THEN [past EXCEPT ![undoLast'] = [before |-> Lists, after |-> Lists']]
          ELSE past

HInit == Init /\ past = Empty
HNext == Next /\ Observe
HSpec == HInit /\ [][HNext]_allVars

-----------------------------------------------------------------------------
StrictBookmarks(bm) == \A j, k \in DOMAIN bm : j < k => bm[j] < bm[k]

\* The event to undo next was made by the action that produced the present lists.
Current == past[undoLast] # None /\ past[undoLast].after = Lists

\* Undo is exact as long as no two markers share a block: undone in the state
\* it produced, an action on a marker is taken back completely, with selection
\* and caption (UndoLastAction).
UndoRestoresMarkers ==
  [][/\ UndoKey /\ Current /\ undo[undoLast].seg
     /\ StrictlySorted(markers) /\ StrictlySorted(past[undoLast].before[1])
     => Lists' = past[undoLast].before]_allVars

\* "Es koennen bis zu 100 zuletzt durchgefuehrte Aktionen vom Typ Setzen /
\* Verschieben / Loeschen von Segment-Markern oder Bookmarks rueckgaengig
\* gemacht werden" (history.txt): the same for every event about a marker.
UndoRestoresEveryMarker ==
  [][UndoKey /\ Current /\ undo[undoLast].seg => Lists' = past[undoLast].before]_allVars

\* Undo is exact for bookmark events, block 0 included, while the info cache works.
UndoRestoresBookmarks ==
  [][UndoKey /\ Current /\ ~undo[undoLast].seg /\ StrictBookmarks(bookmarks)
       /\ StrictBookmarks(past[undoLast].before[2])
     => Lists' = past[undoLast].before \/ bookmarks' = <<>>]_allVars
=============================================================================
