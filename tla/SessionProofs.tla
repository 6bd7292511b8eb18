---------------------------- MODULE SessionProofs ----------------------------
(***************************************************************************)
(* Theorems about Session, for any recordings, any failures, any depth of  *)
(* activations inside one another and any number of starts of RecStrip.    *)
(***************************************************************************)
EXTENDS Session, SequenceTheorems, TLAPS

Places    == Waiting \cup {"machine", "strip", "exit"}
AllEvents == {"idle", "stop", "tmsStart", "tmsStop", "exit", "edit", "menu", "sleep",
              "clear", "strip", "checkFS", "exitMC", "submenu", "copy", "option", "other"}
Activations == [event : AllEvents, pc : Places]
Questions == {"message", "use it?", "sure?", "abort?", "stopping", "result"}
Whole     == {"full", "stripped"}             \* forms a playback or a backup has
Exits     == {"exit", "exitNoSave"}
Interrupted == {"refused", "doubt", "sure", "abort", "stopping"}   \* others may come on top

Types ==
  /\ TypeOK
  /\ stack \in Seq(Activations)
  /\ box \in Questions \cup {None}
  /\ button \in [q : Questions \cup {None}, press : {"none", "yes", "exit"}]
  /\ play \in [rec : Recs, form : Whole] \cup {None}
  /\ rs \in [active : BOOLEAN, cut : BOOLEAN, rec : Recs \cup {None}, shutdown : BOOLEAN]

Bottom == stack[1].pc

\* An activation above another one came while that one waits, and has skipped the state
\* machine; the one that kills RecStrip leaves room for the event it sends itself.
FrameOK(stk, k) ==
  /\ k < Len(stk) => stk[k].pc \in Interrupted
  /\ k > 1 => stk[k].pc \in {"strip", "told", "stopping", "exit"} /\ stk[k].event \in {"idle", "stop"}
  /\ stk[k].pc = "stopping" => stk[k].event = "stop"
  /\ stk[k].event = "stop" => k <= MaxDepth
StackOK == \A k \in DOMAIN stack : FrameOK(stack, k)

Killing == \E k \in DOMAIN stack : stack[k].pc = "stopping"

\* RecStrip and those who wait for it.
StripOK ==
  /\ stack # <<>> /\ Top.pc = "told" => ~rs.active
  /\ child # "none" => rs.active
  /\ rs.active => name \in Recs
  /\ rs.active /\ child = "none" => runs < MaxRuns
  /\ child = "none" /\ (Killing \/ (stack # <<>> /\ Bottom = "abort")) => ~rs.active
  /\ child = "done" /\ ~rs.cut => file[rs.rec].strip = "stripped" /\ file[rs.rec].main # None

\* A dialog about RecStrip is answered under its own question.
QuestionOK ==
  /\ stack # <<>> /\ Bottom = "abort" /\ child # "none" /\ ~Killing =>
       box = "abort?" \/ (box = None /\ button.q = "abort?")
  /\ Killing /\ child # "none" => box = "stopping" \/ (box = None /\ button.q = "stopping")

\* Once MovieCutter is to end nothing comes in between.
ExitOK ==
  state \in Exits =>
    /\ stack # <<>> /\ Top.pc \in {"machine", "strip", "exit"}
    /\ Top.pc \in {"machine", "strip"} =>
         ~rs.active \/ Top.event \notin {"idle", "sleep", "stop"}
    /\ Top.event = "tmsStop" \/ child = "none"

\* A waiting activation finds the state it has left.
DialogOK ==
  stack # <<>> =>
    /\ Bottom = "refused" => state \in {"unaccepted", "wait"} \cup Exits
    /\ Bottom = "doubt" => /\ state \in Exits \/ (state = "wait" /\ total > 0)
                           /\ Playing => name = play.rec
    /\ Bottom = "sure" => state \in {"menu"} \cup Exits

ListOK ==
  /\ total = 0 \/ (name \in Recs /\ \E f \in Whole : total = Blocks[name][f])
  /\ Shown => total > 0

Attached == Shown \/ (stack # <<>> /\ Bottom \in {"refused", "doubt"})
RepeatOK ==
  Playing => /\ ~Attached /\ state \notin Exits => repeat = "own"
             /\ Attached => oldRepeat = "own"
\* The forced mode is never taken for the user's; the exit restores what was remembered.
ModeOK ==
  /\ oldRepeat # "forced"
  /\ ended /\ Playing => repeat = oldRepeat

IInv == /\ Types /\ StackOK /\ StripOK /\ QuestionOK /\ ExitOK /\ DialogOK /\ ListOK
        /\ EditsKept /\ RepeatOK /\ ModeOK /\ RecordingsKept /\ NoOrphan

-----------------------------------------------------------------------------
(* The call stack.                                                         *)

LEMMA TopIsLast ==
  ASSUME stack \in Seq(Activations), stack # <<>>
  PROVE  /\ Len(stack) \in Nat \ {0} /\ Top = stack[Len(stack)]
         /\ Top \in Activations /\ Top.pc \in Places /\ Top.event \in AllEvents
         /\ DOMAIN stack = 1 .. Len(stack)
<1>1. Len(stack) \in Nat \ {0} /\ DOMAIN stack = 1 .. Len(stack)
  OBVIOUS
<1>2. stack[Len(stack)] \in Activations
  BY <1>1
<1>3. Top = stack[Len(stack)]
  BY DEF Top, Last
<1> QED
  BY <1>1, <1>2, <1>3 DEF Activations

\* Goto moves the innermost activation on and leaves the others where they wait.
LEMMA GotoEffect ==
  ASSUME stack \in Seq(Activations), stack # <<>>, NEW pc \in Places, Goto(pc)
  PROVE  /\ stack' \in Seq(Activations) /\ stack' # <<>> /\ Len(stack') = Len(stack)
         /\ Top' = [event |-> Top.event, pc |-> pc]
         /\ Top'.pc = pc /\ Top'.event = Top.event
         /\ \A k \in 1 .. Len(stack) : k < Len(stack) => stack'[k] = stack[k]
<1> DEFINE n == Len(stack)
<1>1. n \in Nat \ {0} /\ stack[n] \in Activations /\ Top = stack[n]
  BY TopIsLast
<1>2. stack' = [stack EXCEPT ![n] = [stack[n] EXCEPT !.pc = pc]]
  BY DEF Goto
<1>3. [stack[n] EXCEPT !.pc = pc] = [event |-> stack[n].event, pc |-> pc]
  BY <1>1 DEF Activations
<1>4. [event |-> stack[n].event, pc |-> pc] \in Activations
  BY <1>1 DEF Activations
<1>5. /\ stack' \in Seq(Activations) /\ Len(stack') = n
      /\ stack'[n] = [event |-> stack[n].event, pc |-> pc]
      /\ \A k \in 1 .. n : k < n => stack'[k] = stack[k]
  BY <1>1, <1>2, <1>3, <1>4
<1>6. stack' # <<>> /\ Top' = stack'[n]
  BY <1>1, <1>5 DEF Top, Last
<1> QED
  BY <1>1, <1>5, <1>6

\* The same for the properties of the stack.
LEMMA GotoKeepsStack ==
  ASSUME stack \in Seq(Activations), stack # <<>>, StackOK, NEW pc \in Places, Goto(pc),
         Len(stack) > 1 => pc \in {"strip", "told", "stopping", "exit"},
         pc = "stopping" => Top.event = "stop"
  PROVE  /\ StackOK'
         /\ Bottom' = IF Len(stack) = 1 THEN pc ELSE Bottom
         /\ pc = "stopping" => Killing'
         /\ Killing' /\ pc # "stopping" => Killing
         /\ Killing /\ Top.pc # "stopping" => Killing'
<1> DEFINE n == Len(stack)
<1>1. /\ n \in Nat \ {0} /\ Top = stack[n] /\ DOMAIN stack = 1 .. n
      /\ stack[n] \in Activations
  BY TopIsLast
<1>2. /\ stack' \in Seq(Activations) /\ Len(stack') = n
      /\ Top' = [event |-> Top.event, pc |-> pc] /\ stack' # <<>>
      /\ \A k \in 1 .. n : k < n => stack'[k] = stack[k]
  BY GotoEffect
<1>3. stack'[n] = [event |-> stack[n].event, pc |-> pc] /\ DOMAIN stack' = 1 .. n
  BY <1>1, <1>2 DEF Top, Last
<1>4. StackOK'
  BY <1>1, <1>2, <1>3 DEF StackOK, FrameOK
<1>5. Bottom' = IF n = 1 THEN pc ELSE Bottom
  BY <1>1, <1>2, <1>3 DEF Bottom
<1>6. /\ pc = "stopping" => Killing'
      /\ Killing' /\ pc # "stopping" => Killing
      /\ Killing /\ Top.pc # "stopping" => Killing'
  BY <1>1, <1>2, <1>3 DEF Killing
<1> QED
  BY <1>4, <1>5, <1>6

\* An activation in the state machine is the only one.
LEMMA Alone ==
  ASSUME stack \in Seq(Activations), stack # <<>>, StackOK,
         Top.pc \in {"machine", "refused", "doubt", "sure", "abort"}
  PROVE  Len(stack) = 1 /\ Bottom = Top.pc /\ ~Killing
<1>1. /\ Len(stack) \in Nat \ {0} /\ Top = stack[Len(stack)]
      /\ DOMAIN stack = 1 .. Len(stack)
  BY TopIsLast
<1>2. FrameOK(stack, Len(stack))
  BY <1>1 DEF StackOK
<1>3. Len(stack) = 1
  BY <1>1, <1>2 DEF FrameOK
<1> QED
  BY <1>1, <1>3 DEF Bottom, Killing

-----------------------------------------------------------------------------
(* The steps of the call stack.                                            *)

\* The innermost activation goes from p to q.
Moves(p, q) ==
  /\ ~ended /\ stack # <<>> /\ Top.pc = p /\ Len(stack) \in Nat \ {0}
  /\ Len(stack) = 1 => Bottom = p
  /\ Len(stack) > 1 => Bottom \in Interrupted
  /\ p \in {"machine", "refused", "doubt", "sure", "abort"} \/ q = "abort" =>
       Len(stack) = 1 /\ ~Killing
  /\ stack' \in Seq(Activations) /\ stack' # <<>> /\ Len(stack') = Len(stack)
  /\ StackOK' /\ Top'.pc = q
  /\ Bottom' = IF Len(stack) = 1 THEN q ELSE Bottom
  /\ q = "stopping" => Killing'
  /\ Killing' /\ q # "stopping" => Killing
  /\ Killing /\ p # "stopping" => Killing'

LEMMA GotoMoves ==
  ASSUME stack \in Seq(Activations), StackOK,
         NEW p \in Places, At(p), NEW q \in Places \ {"machine"}, Goto(q),
         q \in {"refused", "doubt", "sure"} => p = "machine",
         q = "abort" => Top.event = "sleep",
         q = "stopping" => Top.event = "stop"
  PROVE  Moves(p, q) /\ Top'.event = Top.event
<1>1. ~ended /\ stack # <<>> /\ Top.pc = p
  BY DEF At
<1>2. /\ Len(stack) \in Nat \ {0} /\ Top = stack[Len(stack)]
      /\ DOMAIN stack = 1 .. Len(stack)
  BY <1>1, TopIsLast
<1>3. p \in {"machine", "refused", "doubt", "sure", "abort"} => Len(stack) = 1 /\ ~Killing
  BY <1>1, Alone
<1>4. /\ FrameOK(stack, 1) /\ FrameOK(stack, Len(stack))
  BY <1>2 DEF StackOK
<1>5. q = "abort" => Len(stack) = 1 /\ ~Killing
  BY <1>1, <1>2, <1>4 DEF FrameOK, Killing
<1>6. Len(stack) = 1 => Bottom = p
  BY <1>1, <1>2 DEF Bottom
<1>7. Len(stack) > 1 => Bottom \in Interrupted
  BY <1>2, <1>4 DEF Bottom, FrameOK
<1>8. Len(stack) > 1 => q \in {"strip", "told", "stopping", "exit"}
  BY <1>1, <1>2, <1>3, <1>4 DEF FrameOK, Places, Waiting
<1>9. /\ stack' \in Seq(Activations) /\ stack' # <<>> /\ Len(stack') = Len(stack)
      /\ Top'.pc = q /\ Top'.event = Top.event
  BY <1>1, GotoEffect
<1>10. /\ StackOK' /\ Bottom' = IF Len(stack) = 1 THEN q ELSE Bottom
       /\ q = "stopping" => Killing'
       /\ Killing' /\ q # "stopping" => Killing
       /\ Killing /\ Top.pc # "stopping" => Killing'
  BY <1>1, <1>8, GotoKeepsStack
<1>11. p \in {"machine", "refused", "doubt", "sure", "abort"} \/ q = "abort" =>
         Len(stack) = 1 /\ ~Killing
  BY <1>3, <1>5, Zenon
<1>12. /\ Killing' /\ q # "stopping" => Killing
       /\ Killing /\ p # "stopping" => Killing'
  BY <1>1, <1>10, Zenon
<1>13. Moves(p, q)
  BY <1>1, <1>2, <1>6, <1>7, <1>9, <1>10, <1>11, <1>12, Zenon DEF Moves
<1> QED
  BY <1>9, <1>13

\* ExitMC turns its own event into a stop.
LEMMA ExitMCMoves ==
  ASSUME stack \in Seq(Activations), StackOK, MaxDepth \in Nat \ {0}, At("machine"),
         stack' = [stack EXCEPT ![Len(stack)] = [event |-> "stop", pc |-> "strip"]]
  PROVE  Moves("machine", "strip") /\ Top'.event = "stop"
<1>1. ~ended /\ stack # <<>> /\ Top.pc = "machine"
  BY DEF At
<1>2. Len(stack) = 1 /\ Bottom = "machine" /\ ~Killing
  BY <1>1, Alone
<1>3. [event |-> "stop", pc |-> "strip"] \in Activations
  BY DEF Activations, AllEvents, Places
<1>4. /\ stack' \in Seq(Activations) /\ stack' # <<>> /\ Len(stack') = 1
      /\ stack'[1] = [event |-> "stop", pc |-> "strip"] /\ DOMAIN stack' = {1}
  BY <1>2, <1>3
<1>5. Top'.pc = "strip" /\ Top'.event = "stop" /\ Bottom' = "strip" /\ ~Killing'
  BY <1>4 DEF Top, Last, Bottom, Killing
<1>6. StackOK'
  <2>1. \A t : Len(t) = 1 /\ t[1] = [event |-> "stop", pc |-> "strip"] => FrameOK(t, 1)
    BY DEF FrameOK
  <2>2. FrameOK(stack', 1)
    BY <1>4, <2>1
  <2> QED
    BY <1>4, <2>2 DEF StackOK
<1> QED
  BY <1>1, <1>2, <1>4, <1>5, <1>6 DEF Moves

\* An event that comes while others wait, or none does.
LEMMA PushKeepsFrames ==
  ASSUME NEW s \in Seq(Activations), NEW a \in Activations, MaxDepth \in Nat,
         \A k \in 1 .. Len(s) : FrameOK(s, k),
         s # <<>> => s[Len(s)].pc \in Interrupted /\ a.event \in {"idle", "stop"} /\ a.pc = "strip",
         a.pc # "stopping", a.event = "stop" => Len(s) < MaxDepth
  PROVE  \A k \in 1 .. Len(Append(s, a)) : FrameOK(Append(s, a), k)
<1> DEFINE n == Len(s)
           t == Append(s, a)
<1>1. n \in Nat /\ (s = <<>> <=> n = 0)
  OBVIOUS
<1>2. Len(t) = n + 1 /\ t[n + 1] = a /\ \A k \in 1 .. n : t[k] = s[k]
  OBVIOUS
<1> HIDE DEF t
<1>3. FrameOK(t, n + 1)
  BY <1>1, <1>2 DEF FrameOK
<1>4. ASSUME NEW k \in 1 .. n
      PROVE  FrameOK(t, k)
  <2>1. FrameOK(s, k) /\ t[k] = s[k] /\ (k = n \/ k < n)
    BY <1>1, <1>2
  <2>2. t[k].pc \in Interrupted
    BY <1>1, <2>1 DEF FrameOK
  <2> QED
    BY <1>1, <2>1, <2>2 DEF FrameOK
<1>5. \A k \in 1 .. n + 1 : k = n + 1 \/ k \in 1 .. n
  BY <1>1
<1>6. \A k \in 1 .. Len(t) : FrameOK(t, k)
  BY <1>2, <1>3, <1>4, <1>5
<1> QED
  BY <1>6 DEF t

Enters(a) ==
  /\ stack' \in Seq(Activations) /\ stack' # <<>> /\ Len(stack') = Len(stack) + 1
  /\ StackOK' /\ Top' = a
  /\ Bottom' = IF stack = <<>> THEN a.pc ELSE Bottom
  /\ Killing' <=> Killing

LEMMA AppendEnters ==
  ASSUME stack \in Seq(Activations), StackOK, MaxDepth \in Nat,
         NEW a \in Activations, stack' = Append(stack, a),
         a.pc = IF stack = <<>> THEN "machine" ELSE "strip",
         stack # <<>> => Top.pc \in Interrupted /\ a.event \in {"idle", "stop"},
         a.event = "stop" => Len(stack) < MaxDepth
  PROVE  Enters(a)
<1> DEFINE n == Len(stack)
<1>1. n \in Nat /\ DOMAIN stack = 1 .. n /\ (stack = <<>> <=> n = 0)
  OBVIOUS
<1>2. /\ stack' \in Seq(Activations) /\ stack' # <<>> /\ Len(stack') = n + 1
      /\ stack'[n + 1] = a /\ DOMAIN stack' = 1 .. n + 1
      /\ \A k \in 1 .. n : stack'[k] = stack[k]
  OBVIOUS
<1>3. StackOK'
  <2>1. \A k \in 1 .. n : FrameOK(stack, k)
    BY <1>1 DEF StackOK
  <2>2. stack # <<>> => stack[n].pc \in Interrupted
    BY TopIsLast
  <2>3. \A k \in 1 .. Len(stack') : FrameOK(stack', k)
    BY <2>1, <2>2, PushKeepsFrames
  <2> QED
    BY <1>2, <2>3 DEF StackOK
<1>4. Top' = a
  BY <1>1, <1>2 DEF Top, Last
<1>5. Bottom' = IF stack = <<>> THEN a.pc ELSE Bottom
  BY <1>1, <1>2 DEF Bottom
<1>6. Killing' <=> Killing
  BY <1>1, <1>2 DEF Killing
<1> QED
  BY <1>2, <1>3, <1>4, <1>5, <1>6 DEF Enters

\* An activation returns.
LEMMA FrontLeaves ==
  ASSUME stack \in Seq(Activations), StackOK, stack # <<>>, Top.pc = "exit",
         stack' = Front(stack)
  PROVE  /\ stack' \in Seq(Activations) /\ StackOK' /\ Len(stack') = Len(stack) - 1
         /\ stack' = <<>> <=> Len(stack) = 1
         /\ stack' # <<>> => Bottom' = Bottom /\ Top'.pc \in Interrupted
         /\ stack' = <<>> => Bottom = "exit" /\ ~Killing
         /\ Killing' <=> Killing
<1> DEFINE n == Len(stack)
<1>1. n \in Nat \ {0} /\ Top = stack[n] /\ DOMAIN stack = 1 .. n
  BY TopIsLast
<1>2. /\ stack' \in Seq(Activations) /\ Len(stack') = n - 1 /\ DOMAIN stack' = 1 .. n - 1
      /\ \A k \in 1 .. n - 1 : stack'[k] = stack[k]
  BY <1>1, SubSeqProperties DEF Front
<1>3. stack' = <<>> <=> n = 1
  BY <1>1, <1>2
<1>4. \A k \in 1 .. n : FrameOK(stack, k)
  BY <1>1 DEF StackOK
<1>5. StackOK'
  BY <1>1, <1>2, <1>4 DEF StackOK, FrameOK
<1>6. stack' # <<>> => Bottom' = Bottom /\ Top'.pc \in Interrupted
  <2> HAVE stack' # <<>>
  <2>1. n - 1 \in 1 .. n /\ n - 1 \in 1 .. n - 1 /\ 1 \in 1 .. n - 1 /\ n - 1 < n
    BY <1>1, <1>3
  <2>2. stack[n - 1].pc \in Interrupted
    BY <1>4, <2>1 DEF FrameOK
  <2> QED
    BY <1>2, <2>1, <2>2 DEF Bottom, Top, Last
<1>7. n = 1 => Bottom = "exit" /\ ~Killing
  BY <1>1 DEF Bottom, Killing
<1>8. Killing' <=> Killing
  BY <1>1, <1>2 DEF Killing
<1> QED
  BY <1>2, <1>3, <1>5, <1>6, <1>7, <1>8
\* How each action moves the stack.
Goes(p, q) == Moves(p, q) /\ Top'.event = Top.event

LEMMA GotoGoes ==
  ASSUME Types, StackOK
  PROVE  \A p \in Places : \A q \in Places \ {"machine"} :
           /\ At(p) /\ Goto(q)
           /\ q \in {"refused", "doubt", "sure"} => p = "machine"
           /\ q = "abort" => Top.event = "sleep"
           /\ q = "stopping" => Top.event = "stop"
           => Goes(p, q)
BY GotoMoves DEF Types, Goes

LEMMA MachineMoves ==
  ASSUME Types, StackOK
  PROVE  /\ \/ StillWaiting \/ LetGo \/ Show \/ Activate \/ Ignore
            \/ PlaybackEnded \/ Edit \/ Hide \/ OpenMenu \/ LeaveMenu \/ OpenSubMenu
            \/ StartRecStrip \/ CheckFS
            => Goes("machine", "strip")
         /\ Refuse \/ Repaired => Goes("machine", "refused")
         /\ Doubt => Goes("machine", "doubt")
         /\ ClearAsk => Goes("machine", "sure")
         /\ Refused => Goes("refused", "strip")
         /\ Declined => Goes("doubt", "strip")
         /\ Accept => Goes("doubt", "strip") \/ Goes("machine", "strip")
         /\ Clear \/ ClearNot => Goes("sure", "strip")
         /\ ExitMC => Moves("machine", "strip") /\ Top'.event \in {Top.event, "stop"}
<1> USE DEF Places, Waiting
<1>1. At("machine") /\ Goto("strip") => Goes("machine", "strip")
  BY GotoGoes
<1>2. At("machine") /\ Goto("refused") => Goes("machine", "refused")
  BY GotoGoes
<1>3. At("machine") /\ Goto("doubt") => Goes("machine", "doubt")
  BY GotoGoes
<1>4. At("machine") /\ Goto("sure") => Goes("machine", "sure")
  BY GotoGoes
<1>5. At("refused") /\ Goto("strip") => Goes("refused", "strip")
  BY GotoGoes
<1>6. At("doubt") /\ Goto("strip") => Goes("doubt", "strip")
  BY GotoGoes
<1>7. At("sure") /\ Goto("strip") => Goes("sure", "strip")
  BY GotoGoes
<1>8. \/ StillWaiting \/ LetGo \/ Show \/ Activate \/ Ignore
      => Goes("machine", "strip")
  BY <1>1 DEF StillWaiting, LetGo, Watching, Show, Activate, Ignore
<1>9. \/ PlaybackEnded \/ Edit \/ Hide \/ OpenMenu \/ LeaveMenu \/ OpenSubMenu
      \/ StartRecStrip \/ CheckFS
      => Goes("machine", "strip")
  BY <1>1 DEF PlaybackEnded, Edit, Hide, OpenMenu, LeaveMenu, OpenSubMenu, Move, Key,
              StartRecStrip, CheckFS
<1>10. /\ Refuse \/ Repaired => Goes("machine", "refused")
       /\ Doubt => Goes("machine", "doubt")
       /\ ClearAsk => Goes("machine", "sure")
  BY <1>2, <1>3, <1>4 DEF Refuse, Repaired, Doubt, Attach, Ask, ClearAsk, Key
<1>11. /\ Refused => Goes("refused", "strip")
       /\ Declined => Goes("doubt", "strip")
       /\ Accept => Goes("doubt", "strip") \/ Goes("machine", "strip")
       /\ Clear \/ ClearNot => Goes("sure", "strip")
  BY <1>1, <1>5, <1>6, <1>7 DEF Refused, Declined, Accept, Clear, ClearNot
<1>12. ASSUME ExitMC
       PROVE  Moves("machine", "strip") /\ Top'.event \in {Top.event, "stop"}
  BY <1>1, <1>12, ExitMCMoves, SessionConstants DEF ExitMC, Key, Types, Goes
<1> QED
  BY <1>8, <1>9, <1>10, <1>11, <1>12

LEMMA DriverMoves ==
  ASSUME Types, StackOK
  PROVE  /\ NoStrip \/ Fork \/ Wait \/ ForkFailed => Goes("strip", "exit")
         /\ Finished => Goes("strip", "exit") \/ Goes("strip", "told")
         /\ AbortAsk => IF child = "none" THEN Goes("strip", "exit") ELSE Goes("strip", "abort")
         /\ Abort => Goes("abort", "exit")
         /\ StopAsk => Goes("strip", "stopping")
         /\ KillLoop => Enters([event |-> "idle", pc |-> "strip"])
         /\ StopNow => Goes("strip", "exit") \/ Goes("stopping", "exit")
         /\ Told => Goes("told", "exit")
<1> USE DEF Places, Waiting
<1>1. At("strip") /\ Goto("exit") => Goes("strip", "exit")
  BY GotoGoes
<1>2. At("strip") /\ Goto("told") => Goes("strip", "told")
  BY GotoGoes
<1>3. At("strip") /\ Top.event = "sleep" /\ Goto("abort") => Goes("strip", "abort")
  BY GotoGoes
<1>4. At("strip") /\ Top.event = "stop" /\ Goto("stopping") => Goes("strip", "stopping")
  BY GotoGoes
<1>5. At("abort") /\ Goto("exit") => Goes("abort", "exit")
  BY GotoGoes
<1>6. At("stopping") /\ Goto("exit") => Goes("stopping", "exit")
  BY GotoGoes
<1>7. At("told") /\ Goto("exit") => Goes("told", "exit")
  BY GotoGoes
<1>8. NoStrip \/ Fork \/ Wait \/ ForkFailed => Goes("strip", "exit")
  BY <1>1 DEF NoStrip, Fork, Wait, ForkFailed, Finish
<1>9. Finished => Goes("strip", "exit") \/ Goes("strip", "told")
  BY <1>1, <1>2 DEF Finished, Finish, Ask
<1>10. /\ AbortAsk => IF child = "none" THEN Goes("strip", "exit") ELSE Goes("strip", "abort")
       /\ Abort => Goes("abort", "exit")
       /\ StopAsk => Goes("strip", "stopping")
       /\ StopNow => Goes("strip", "exit") \/ Goes("stopping", "exit")
       /\ Told => Goes("told", "exit")
  BY <1>1, <1>3, <1>4, <1>5, <1>6, <1>7 DEF AbortAsk, Abort, Ask, StopAsk, StopNow, Told
<1>11. ASSUME KillLoop
       PROVE  Enters([event |-> "idle", pc |-> "strip"])
  <2> DEFINE a == [event |-> "idle", pc |-> "strip"]
  <2>1. a \in Activations /\ a.pc = "strip" /\ a.event = "idle"
    BY DEF Activations, AllEvents
  <2>2. stack' = Append(stack, a) /\ stack # <<>> /\ Top.pc \in Interrupted
    BY <1>11 DEF KillLoop, At, Interrupted
  <2> HIDE DEF a
  <2>3. Enters(a)
    BY <2>1, <2>2, AppendEnters, SessionConstants DEF Types
  <2> QED
    BY <2>3 DEF a
<1> QED
  BY <1>8, <1>9, <1>10, <1>11

LEMMA DeliverEnters ==
  ASSUME Types, StackOK, StripOK, NEW e \in Events, Deliver(e)
  PROVE  /\ Enters([event |-> e, pc |-> IF stack = <<>> THEN "machine" ELSE "strip"])
         /\ e \in AllEvents
<1> DEFINE a == [event |-> e, pc |-> IF stack = <<>> THEN "machine" ELSE "strip"]
<1>1. e \in AllEvents
  BY DEF Events, KeysIn, AllEvents
<1>2. a \in Activations /\ a.event = e /\ a.pc = IF stack = <<>> THEN "machine" ELSE "strip"
  BY <1>1 DEF Activations, Places
<1>3. stack # <<>> => Top.pc \in Interrupted /\ e \in {"idle", "stop"}
  BY DEF Deliver, Idle, Waiting, Interrupted, StripOK
<1>4. stack' = Append(stack, a) /\ Len(stack) < MaxDepth
  BY DEF Deliver
<1> HIDE DEF a
<1>5. Enters(a)
  BY <1>2, <1>3, <1>4, AppendEnters, SessionConstants DEF Types
<1> QED
  BY <1>1, <1>5 DEF a
-----------------------------------------------------------------------------
(* One step keeps each part of the invariant.                              *)

LEMMA StackStep ==
  ASSUME IInv, Next
  PROVE  stack' \in Seq(Activations) /\ StackOK' /\ Len(stack') <= MaxDepth + 1
<1> USE DEF IInv
<1>1. /\ stack \in Seq(Activations) /\ Len(stack) \in Nat /\ Len(stack) <= MaxDepth + 1
      /\ MaxDepth \in Nat
  BY SessionConstants DEF Types, TypeOK
<1>2. CASE UNCHANGED stack
  BY <1>1, <1>2 DEF StackOK
<1>3. CASE StateMachine
  BY <1>1, <1>3, MachineMoves DEF StateMachine, Goes, Moves
<1>4. CASE Driver /\ ~KillLoop
  BY <1>1, <1>4, DriverMoves DEF Driver, Goes, Moves
<1>5. CASE KillLoop
  <2>1. Len(stack) <= MaxDepth
    <3>1. stack # <<>> /\ Top.pc = "stopping"
      BY <1>5 DEF KillLoop, At
    <3>2. Len(stack) \in DOMAIN stack /\ Top = stack[Len(stack)]
      BY <1>1, <3>1, TopIsLast
    <3> QED
      BY <3>1, <3>2 DEF StackOK, FrameOK
  <2> QED
    BY <1>1, <1>5, <2>1, DriverMoves DEF Enters
<1>6. CASE Return
  BY <1>1, <1>6, FrontLeaves DEF Return, At
<1>7. CASE \E e \in Events : Deliver(e)
  <2> PICK e \in Events : Deliver(e)
    BY <1>7
  <2>1. Len(stack) < MaxDepth
    BY DEF Deliver
  <2> QED
    BY <1>1, <2>1, DeliverEnters DEF Enters
<1>8. CASE \/ (\E p \in {"yes", "exit"} : Answer(p)) \/ (\E r \in Recs : StartPlay(r))
           \/ EndPlay \/ Exit \/ ChildDone \/ ChildFails \/ ChildDies
  BY <1>2, <1>8 DEF Answer, StartPlay, EndPlay, Exit, ChildDone, ChildFails, ChildDies
<1> QED
  BY <1>3, <1>4, <1>5, <1>6, <1>7, <1>8 DEF Next, Handler, Driver

\* A waiting activation goes on in the state it has asked in.
LEMMA AfterDialog ==
  ASSUME IInv
  PROVE  /\ At("refused") => state \in {"unaccepted", "wait"}
         /\ At("doubt") => state = "wait" /\ total > 0 /\ (Playing => name = play.rec)
         /\ At("sure") => state = "menu"
<1> SUFFICES ASSUME At("refused") \/ At("doubt") \/ At("sure")
             PROVE  /\ At("refused") => state \in {"unaccepted", "wait"}
                    /\ At("doubt") => state = "wait" /\ total > 0 /\ (Playing => name = play.rec)
                    /\ At("sure") => state = "menu"
  OBVIOUS
<1>1. stack # <<>> /\ Bottom = Top.pc /\ Top.pc \in {"refused", "doubt", "sure"}
  BY Alone DEF At, IInv, Types
<1>2. state \notin Exits
  BY <1>1 DEF IInv, ExitOK
<1> QED
  BY <1>1, <1>2 DEF At, IInv, DialogOK

\* Nothing comes in, and no stop is taken up, once MovieCutter is to end.
LEMMA NotWhenEnding ==
  ASSUME IInv, Idle \/ StopNow
  PROVE  state \notin Exits
BY DEF IInv, ExitOK, Idle, StopNow, At, Waiting

\* What the driver and the process leave alone.
LEMMA DriverFrame ==
  Driver => /\ UNCHANGED <<name, total, unsaved, misplaced, player, other>>
            /\ state' = state \/ (StopNow /\ state' = Leaving(state))
BY DEF Driver, NoStrip, Fork, Wait, ForkFailed, Finished, Finish, AbortAsk, Abort, StopAsk,
       KillLoop, StopNow, Told, osd, other

LEMMA MachineFrame ==
  StateMachine => /\ UNCHANGED <<child, file, renameFailed, runs, other>>
                  /\ UNCHANGED rs \/ StartRecStrip
BY DEF StateMachine, process, Attach, Move,
       StillWaiting, Refuse, Repaired, Refused, Doubt, Declined, Accept, LetGo,
       Show, Activate, Ignore, PlaybackEnded, Edit, Hide, OpenMenu, LeaveMenu,
       OpenSubMenu, ClearAsk, Clear, ClearNot, StartRecStrip, CheckFS, ExitMC

LEMMA OsdStep ==
  ASSUME IInv, Next
  PROVE  ListOK' /\ EditsKept'
<1> USE DEF IInv, ListOK, EditsKept, Shown
<1> USE SessionConstants
<1> USE DEF Types, TypeOK, At, Size, Playing, osd, player, other, Whole, Resting
<1>1. CASE StillWaiting
  BY <1>1 DEF StillWaiting
<1>2. CASE Refuse
  BY <1>2 DEF Refuse, Attach, Ask
<1>3. CASE Repaired
  BY <1>3 DEF Repaired, Attach, Ask
<1>4. CASE Refused
  BY <1>4 DEF Refused
<1>5. CASE Doubt
  BY <1>5 DEF Doubt, Attach, Ask
<1>6. CASE Declined
  BY AfterDialog, <1>6 DEF Declined, Cleanup
<1>7. CASE Accept
  BY AfterDialog, <1>7 DEF Accept
<1>8. CASE LetGo
  BY <1>8 DEF LetGo, Watching, Changed, Cleanup
<1>9. CASE Show
  BY <1>9 DEF Show, Watching, Changed
<1>10. CASE Activate
  BY <1>10 DEF Activate
<1>11. CASE Ignore
  BY <1>11 DEF Ignore, Watching, Changed
<1>12. CASE PlaybackEnded
  BY <1>12 DEF PlaybackEnded, Key, Cleanup, CutFileSave
<1>13. CASE Edit
  BY <1>13 DEF Edit, Key
<1>14. CASE Hide
  BY <1>14 DEF Hide, Key, CutSaveToBM, CutFileSave
<1>15. CASE OpenMenu
  BY <1>15 DEF OpenMenu, Key, Move
<1>16. CASE LeaveMenu
  BY <1>16 DEF LeaveMenu, Key, Move
<1>17. CASE OpenSubMenu
  BY <1>17 DEF OpenSubMenu, Key, Move
<1>18. CASE ClearAsk
  BY <1>18 DEF ClearAsk, Key, Ask
<1>19. CASE Clear
  BY AfterDialog, <1>19 DEF Clear
<1>20. CASE ClearNot
  BY <1>20 DEF ClearNot
<1>21. CASE StartRecStrip
  BY <1>21 DEF StartRecStrip, Key, CutSaveToBM, CutFileSave
<1>22. CASE CheckFS
  BY <1>22 DEF CheckFS, Key, CutSaveToBM, CutFileSave, Cleanup
<1>23. CASE ExitMC
  BY <1>23 DEF ExitMC, Key
<1>24. CASE Driver
  BY <1>24, DriverFrame, NotWhenEnding DEF Leaving, Driver, Exits
<1>25. CASE \E e \in Events : Deliver(e)
  BY <1>25, NotWhenEnding DEF Deliver, Leaving, Exits
<1>26. CASE Exit
  BY <1>26 DEF Exit, Cleanup, CutFileSave
<1>27. CASE \/ Return \/ (\E p \in {"yes", "exit"} : Answer(p)) \/ (\E r \in Recs : StartPlay(r))
           \/ EndPlay \/ ChildDone \/ ChildFails \/ ChildDies
  BY <1>27 DEF Answer, StartPlay, EndPlay, Return, ChildDone, ChildFails, ChildDies, other
<1> QED
  BY <1>1, <1>2, <1>3, <1>4, <1>5, <1>6, <1>7, <1>8, <1>9, <1>10, <1>11, <1>12,
     <1>13, <1>14, <1>15, <1>16, <1>17, <1>18, <1>19, <1>20, <1>21, <1>22, <1>23,
     <1>24, <1>25, <1>26, <1>27 DEF Next, Handler, StateMachine

LEMMA ExitStep ==
  ASSUME IInv, Next
  PROVE  ExitOK' /\ NoOrphan'
<1> USE DEF IInv, ExitOK, Exits
<1>1. ASSUME StateMachine
      PROVE  /\ ended' = FALSE /\ stack' # <<>> /\ child' = child
             /\ state' \in Exits => \/ Ignore /\ state \in Exits
                                    \/ ExitMC /\ ~rs.active /\ rs' = rs
  <2>1. ended' = FALSE /\ stack' # <<>> /\ child' = child
    BY <1>1, MachineMoves, MachineFrame DEF StateMachine, Goes, Moves, other
  <2>2. CASE StillWaiting \/ Refused \/ Repaired \/ Refuse \/ Doubt \/ Declined
    BY <2>2, <2>1, AfterDialog DEF StillWaiting, Refused, Repaired, Refuse, Attach, Doubt, Declined,
                                   osd
  <2>3. CASE Accept \/ LetGo \/ Show \/ Activate \/ PlaybackEnded \/ Edit \/ Hide
    BY <2>3, <2>1 DEF Accept, LetGo, Resting, Show, Activate, PlaybackEnded, Edit, Key, Hide
  <2>4. CASE \/ OpenMenu \/ LeaveMenu \/ OpenSubMenu \/ ClearAsk \/ Clear \/ ClearNot
             \/ StartRecStrip \/ CheckFS
    BY <2>4, <2>1, AfterDialog DEF OpenMenu, LeaveMenu, OpenSubMenu, Move, Key, ClearAsk, Clear,
                                   ClearNot, StartRecStrip, CheckFS, Resting, osd
  <2>5. CASE Ignore
    BY <2>5, <2>1 DEF Ignore, osd
  <2>6. CASE ExitMC
    BY <2>6, <2>1 DEF ExitMC, process
  <2> QED
    BY <1>1, <2>2, <2>3, <2>4, <2>5, <2>6 DEF StateMachine
<1>2. CASE StateMachine
  <2>1. CASE state' \notin Exits
    BY <1>1, <1>2, <2>1 DEF NoOrphan
  <2>2. CASE Ignore /\ state \in Exits
    BY <1>1, <1>2, <2>2, MachineMoves DEF NoOrphan, Goes, Moves, Ignore, At, process
  <2>3. CASE ExitMC /\ ~rs.active /\ rs' = rs
    BY <1>1, <1>2, <2>3, MachineMoves DEF NoOrphan, Moves, StripOK, Types, TypeOK
  <2> QED
    BY <1>1, <1>2, <2>1, <2>2, <2>3
<1>3. CASE Driver /\ ~StopNow
  <2>1. ~ended' /\ state' = state
    <3>1. ~ended
      BY <1>3, DriverMoves DEF Driver, Goes, Moves, KillLoop, At
    <3>2. ended' = ended /\ state' = state
      BY <1>3, DriverFrame DEF other
    <3> QED
      BY <3>1, <3>2
  <2>2. ASSUME state \in Exits
        PROVE  NoStrip
    BY <1>3, <2>2 DEF Driver, NoStrip, Fork, Wait, ForkFailed, Finished, AbortAsk, Abort, StopAsk,
                      KillLoop, Told, At
  <2>3. CASE state \in Exits
    BY <2>1, <2>2, <2>3, DriverMoves DEF NoOrphan, Goes, Moves, NoStrip, process
  <2> QED
    BY <2>1, <2>3 DEF NoOrphan
<1>4. CASE StopNow
  BY <1>4, DriverMoves DEF NoOrphan, StopNow, Goes, Moves, other
<1>5. CASE \E e \in Events : Deliver(e)
  <2> PICK e \in Events : Deliver(e)
    BY <1>5
  <2>1. state \notin Exits /\ ended' = FALSE /\ child' = child /\ rs' = rs
    BY NotWhenEnding DEF Deliver, Idle, other, process
  <2>2. CASE state' \in Exits
    <3>1. e = "tmsStop" \/ (e = "stop" /\ ~rs.active)
      BY <2>1, <2>2 DEF Deliver
    <3>2. stack = <<>>
      BY <3>1 DEF Deliver
    <3>3. stack' # <<>> /\ Top' = [event |-> e, pc |-> "machine"]
      BY <3>2, DeliverEnters DEF Enters
    <3>4. e = "stop" => child = "none"
      BY <3>1 DEF StripOK, Types, TypeOK
    <3> QED
      BY <2>1, <3>1, <3>3, <3>4 DEF NoOrphan
  <2> QED
    BY <2>1, <2>2 DEF NoOrphan
<1>6. CASE Return
  BY <1>6 DEF Return, At, NoOrphan, osd, other
<1>7. CASE Exit
  BY <1>7 DEF Exit, At, NoOrphan, process, Top
<1>8. CASE ChildDone \/ ChildFails \/ ChildDies
  BY <1>8 DEF ChildDone, ChildFails, ChildDies, NoOrphan, osd, other, Top
<1>9. CASE \/ (\E p \in {"yes", "exit"} : Answer(p)) \/ (\E r \in Recs : StartPlay(r))
           \/ EndPlay
  BY <1>9 DEF Answer, StartPlay, EndPlay, Idle, NoOrphan, osd, other, process, Top
<1> QED
  BY <1>2, <1>3, <1>4, <1>5, <1>6, <1>7, <1>8, <1>9 DEF Next, Handler

LEMMA SizeIsPositive ==
  ASSUME Types, Playing
  PROVE  Size(play) \in Nat \ {0}
<1>1. play.rec \in Recs /\ play.form \in Forms
  BY DEF Types, Playing, Whole, Forms
<1>2. Blocks[play.rec] \in [Forms -> Nat \ {0}]
  BY <1>1, SessionConstants
<1> QED
  BY <1>1, <1>2 DEF Size

LEMMA DialogStep ==
  ASSUME IInv, Next
  PROVE  DialogOK'
<1> USE DEF IInv, DialogOK
<1>1. CASE Refuse \/ Repaired
  BY <1>1, MachineMoves DEF Refuse, Repaired, Attach, Goes, Moves
<1>2. CASE Doubt
  <2>1. Size(play) > 0
    <3>1. Playing
      BY <1>2 DEF Doubt, Attach
    <3> QED
      BY <3>1, SizeIsPositive
  <2> QED
    BY <1>2, <2>1, MachineMoves DEF Doubt, Attach, Goes, Moves
<1>3. CASE ClearAsk
  BY <1>3, MachineMoves DEF ClearAsk, Key, Goes, Moves, osd
<1>4. CASE StateMachine /\ ~(Refuse \/ Repaired \/ Doubt \/ ClearAsk)
  BY <1>4, MachineMoves DEF StateMachine, Goes, Moves
<1>5. CASE Driver
  <2>1. /\ UNCHANGED <<name, total, play>>
        /\ state' = state \/ state' \in Exits
    BY <1>5, DriverFrame DEF player, Leaving, Exits
  <2>2. \/ stack # <<>> /\ Bottom' = Bottom
        \/ Bottom' \notin {"refused", "doubt", "sure"}
    BY <1>5, DriverMoves DEF Driver, Goes, Moves, Enters, KillLoop, At
  <2> QED
    BY <2>1, <2>2 DEF Playing
<1>6. CASE \E e \in Events : Deliver(e)
  <2> PICK e \in Events : Deliver(e)
    BY <1>6
  <2>1. stack = <<>> => Bottom' = "machine"
    BY DeliverEnters DEF Enters
  <2>2. stack # <<>> => Bottom' = Bottom /\ (state' = state \/ state' \in Exits)
    BY DeliverEnters DEF Enters, Deliver, Leaving, Exits
  <2> QED
    BY <2>1, <2>2 DEF Deliver, player, Playing
<1>7. CASE Return
  BY <1>7, FrontLeaves DEF Return, At, Types, osd, player, Playing
<1>8. CASE Exit
  <2>1. UNCHANGED <<stack, state, name, play>> /\ state \in Exits
    BY <1>8 DEF Exit, Exits
  <2> QED
    BY <2>1 DEF Bottom, Playing
<1>9. CASE \E r \in Recs : StartPlay(r)
  BY <1>9 DEF StartPlay
<1>10. CASE EndPlay
  BY <1>10 DEF EndPlay, Playing, osd, Bottom
<1>11. CASE (\E p \in {"yes", "exit"} : Answer(p)) \/ ChildDone \/ ChildFails \/ ChildDies
  BY <1>11 DEF Answer, ChildDone, ChildFails, ChildDies, osd, player, Playing, Bottom
<1> QED
  BY <1>1, <1>2, <1>3, <1>4, <1>5, <1>6, <1>7, <1>8, <1>9, <1>10, <1>11 DEF Next, Handler

LEMMA RepeatStep ==
  ASSUME IInv, Next
  PROVE  RepeatOK'
<1> USE DEF IInv, RepeatOK, Attached, Shown, Exits, Playing, Resting, osd, player
<1>1. CASE StillWaiting
  BY MachineMoves, <1>1 DEF StillWaiting, Goes, Moves
<1>2. CASE Refuse
  BY MachineMoves, <1>2 DEF Refuse, Attach, Ask, Goes, Moves
<1>3. CASE Repaired
  BY MachineMoves, <1>3 DEF Repaired, Attach, Ask, Goes, Moves
<1>4. CASE Refused
  BY MachineMoves, AfterDialog, <1>4 DEF Refused, Goes, Moves
<1>5. CASE Doubt
  BY MachineMoves, <1>5 DEF Doubt, Attach, Ask, Goes, Moves
<1>6. CASE Declined
  BY MachineMoves, AfterDialog, <1>6 DEF Declined, Cleanup, Goes, Moves
<1>7. CASE Accept
  <2>1. CASE Goes("doubt", "strip")
    BY <1>7, <2>1 DEF Accept, Goes, Moves, At
  <2>2. CASE Goes("machine", "strip")
    BY <1>7, <2>2 DEF Accept, Goes, Moves, At
  <2> QED
    BY <1>7, <2>1, <2>2, MachineMoves
<1>8. CASE LetGo
  BY MachineMoves, <1>8 DEF LetGo, Watching, Changed, Cleanup, Goes, Moves
<1>9. CASE Show
  BY MachineMoves, <1>9 DEF Show, Watching, Changed, Goes, Moves
<1>10. CASE Activate
  BY MachineMoves, <1>10 DEF Activate, Goes, Moves
<1>11. CASE Ignore
  BY MachineMoves, <1>11 DEF Ignore, Watching, Changed, Goes, Moves
<1>12. CASE PlaybackEnded
  BY MachineMoves, <1>12 DEF PlaybackEnded, Key, Cleanup, CutFileSave, Goes, Moves
<1>13. CASE Edit
  BY MachineMoves, <1>13 DEF Edit, Key, Goes, Moves
<1>14. CASE Hide
  BY MachineMoves, <1>14 DEF Hide, Key, CutSaveToBM, CutFileSave, Goes, Moves
<1>15. CASE OpenMenu
  BY MachineMoves, <1>15 DEF OpenMenu, Key, Move, Goes, Moves
<1>16. CASE LeaveMenu
  BY MachineMoves, <1>16 DEF LeaveMenu, Key, Move, Goes, Moves
<1>17. CASE OpenSubMenu
  BY MachineMoves, <1>17 DEF OpenSubMenu, Key, Move, Goes, Moves
<1>18. CASE ClearAsk
  BY MachineMoves, <1>18 DEF ClearAsk, Key, Ask, Goes, Moves
<1>19. CASE Clear
  BY MachineMoves, AfterDialog, <1>19 DEF Clear, Goes, Moves
<1>20. CASE ClearNot
  BY MachineMoves, AfterDialog, <1>20 DEF ClearNot, Goes, Moves
<1>21. CASE StartRecStrip
  BY MachineMoves, <1>21 DEF StartRecStrip, Key, CutSaveToBM, CutFileSave, Goes, Moves
<1>22. CASE CheckFS
  BY MachineMoves, <1>22 DEF CheckFS, Key, CutSaveToBM, CutFileSave, Cleanup, Goes, Moves
<1>23. CASE ExitMC
  BY MachineMoves, <1>23 DEF ExitMC, Key, Goes, Moves
<1>24. CASE Driver
  <2>1. UNCHANGED player /\ (state' = state \/ state' \in Exits)
    BY <1>24, DriverFrame DEF Leaving
  <2>2. stack # <<>> /\ Bottom' \in {"refused", "doubt"} <=> stack # <<>> /\ Bottom \in {"refused", "doubt"}
    BY <1>24, DriverMoves DEF Driver, Goes, Moves, Enters, KillLoop, At
  <2>3. stack # <<>> /\ stack' # <<>>
    BY <1>24, DriverMoves DEF Driver, Goes, Moves, Enters, KillLoop, At
  <2> QED
    BY <2>1, <2>2, <2>3
<1>25. CASE \E e \in Events : Deliver(e)
  <2> PICK e \in Events : Deliver(e)
    BY <1>25
  <2>1. UNCHANGED player /\ (Shown' => Shown) /\ (Shown => Shown' \/ state' \in Exits)
        /\ (state \in Exits => FALSE)
    BY NotWhenEnding DEF Deliver, Leaving
  <2>2. stack' # <<>> /\ Bottom' = IF stack = <<>> THEN "machine" ELSE Bottom
    BY DeliverEnters DEF Enters
  <2> QED
    BY <2>1, <2>2
<1>26. CASE Return
  BY <1>26, FrontLeaves DEF Return, At, Types
<1>27. CASE Exit
  BY <1>27 DEF Exit, Bottom
<1>28. CASE \E r \in Recs : StartPlay(r)
  BY <1>28 DEF StartPlay
<1>29. CASE EndPlay
  BY <1>29 DEF EndPlay
<1>30. CASE (\E p \in {"yes", "exit"} : Answer(p)) \/ ChildDone \/ ChildFails \/ ChildDies
  BY <1>30 DEF Answer, ChildDone, ChildFails, ChildDies, Bottom
<1> QED
  BY <1>1, <1>2, <1>3, <1>4, <1>5, <1>6, <1>7, <1>8, <1>9, <1>10, <1>11, <1>12,
     <1>13, <1>14, <1>15, <1>16, <1>17, <1>18, <1>19, <1>20, <1>21, <1>22, <1>23,
     <1>24, <1>25, <1>26, <1>27, <1>28, <1>29, <1>30 DEF Next, Handler, StateMachine

\* Only Exit ends MovieCutter, and OldRepeatMode is read where the mode is the user's.
LEMMA ModeStep ==
  ASSUME IInv, Next
  PROVE  ModeOK'
<1> USE DEF IInv, ModeOK
<1>1. RepeatOK'
  BY RepeatStep
<1>2. ASSUME UNCHANGED oldRepeat, ~ended' PROVE ModeOK'
  BY <1>2
<1>3. CASE Refuse \/ Repaired \/ Doubt \/ Accept \/ Show
  <2>1. ~ended'
    <3>1. CASE Refuse \/ Repaired \/ Doubt
      BY <1>3, <3>1 DEF Refuse, Repaired, Doubt, Attach, At, other
    <3>2. CASE Accept \/ Show
      BY <1>3, <3>2 DEF Accept, Show, Watching, At, other
    <3> QED
      BY <1>3, <3>1, <3>2
  <2>2. Attached'
    BY <1>3, MachineMoves DEF Refuse, Repaired, Doubt, Accept, Show, Attached, Shown, Goes, Moves
  <2>3. Playing' \/ UNCHANGED oldRepeat
    <3>1. CASE Refuse \/ Repaired \/ Doubt
      BY <1>3, <3>1 DEF Refuse, Repaired, Doubt, Attach, Playing
    <3>2. CASE Accept \/ Show
      BY <1>3, <3>2 DEF Accept, Show, Changed, Playing
    <3> QED
      BY <1>3, <3>1, <3>2
  <2> QED
    BY <1>1, <2>1, <2>2, <2>3 DEF RepeatOK
<1>4. CASE StateMachine /\ ~(Refuse \/ Repaired \/ Doubt \/ Accept \/ Show)
  <2>1. UNCHANGED oldRepeat /\ ~ended'
    BY <1>4 DEF StateMachine, StillWaiting, Refused, Declined, LetGo, Watching, Activate, Ignore,
         PlaybackEnded, Edit, Hide, OpenMenu, LeaveMenu, OpenSubMenu, Move, ClearAsk, Clear, ClearNot,
         StartRecStrip, CheckFS, ExitMC, Key, At, other, player
  <2> QED
    BY <1>2, <2>1
<1>5. CASE Driver
  <2>1. UNCHANGED oldRepeat /\ ~ended'
    BY <1>5 DEF Driver, NoStrip, Fork, Wait, ForkFailed, Finished, Finish, AbortAsk, Abort, StopAsk,
         KillLoop, StopNow, Told, At, other, player
  <2> QED
    BY <1>2, <2>1
<1>6. CASE Exit
  BY <1>6 DEF Exit, RepeatAtExit, Playing
<1>7. CASE \E r \in Recs : StartPlay(r)
  <2>1. ~ended'
    BY <1>7 DEF StartPlay, Idle, other
  <2> QED
    BY <1>7, <2>1 DEF StartPlay
<1>8. CASE \E e \in Events : Deliver(e)
  <2>1. UNCHANGED oldRepeat /\ ~ended'
    BY <1>8 DEF Deliver, Idle, other, player
  <2> QED
    BY <1>2, <2>1
<1>9. CASE (\E p \in {"yes", "exit"} : Answer(p)) \/ EndPlay
  <2>1. UNCHANGED oldRepeat /\ ~ended'
    BY <1>9 DEF Answer, EndPlay, Idle, other, player
  <2> QED
    BY <1>2, <2>1
<1>10. CASE Return \/ ChildDone \/ ChildFails \/ ChildDies
  <2>1. UNCHANGED oldRepeat /\ ~ended'
    BY <1>10 DEF Return, ChildDone, ChildFails, ChildDies, At, other, player
  <2> QED
    BY <1>2, <2>1
<1> QED
  BY <1>3, <1>4, <1>5, <1>6, <1>7, <1>8, <1>9, <1>10 DEF Next, Handler

LEMMA StripStep ==
  ASSUME IInv, Next
  PROVE  StripOK'
<1> USE DEF IInv, StripOK
<1>1. CASE StateMachine /\ ~StartRecStrip
  <2>1. UNCHANGED <<rs, child, file, runs>> /\ (name' = name \/ name' \in Recs)
    BY <1>1, MachineFrame DEF StateMachine, StillWaiting, Refuse, Repaired, Attach, Refused, Doubt,
         Declined, Accept, LetGo, Show, Activate, Ignore, PlaybackEnded, Edit, Hide, OpenMenu,
         LeaveMenu, OpenSubMenu, Move, ClearAsk, Clear, ClearNot, CheckFS, ExitMC, osd, Types, Playing
  <2>2. ~Killing' /\ Bottom' # "abort" /\ Top'.pc # "told"
    BY <1>1, MachineMoves DEF StateMachine, Goes, Moves
  <2> QED
    BY <2>1, <2>2
<1>2. CASE StartRecStrip
  <2>1. ~Killing' /\ Bottom' # "abort" /\ Top'.pc # "told"
    BY <1>2, MachineMoves DEF Goes, Moves
  <2>2. name' = name /\ name \in Recs /\ child' = "none" /\ runs' < MaxRuns
    BY <1>2 DEF StartRecStrip, Key, ListOK, Shown, Types, TypeOK
  <2> QED
    BY <2>1, <2>2
<1>3. CASE NoStrip
  BY <1>3, DriverMoves DEF NoStrip, Goes, Moves, process, osd
<1>4. CASE Fork
  BY <1>4, DriverMoves DEF Fork, RSNames, Goes, Moves, osd, Types
<1>5. CASE Wait
  BY <1>5, DriverMoves DEF Wait, Goes, Moves, process, osd
<1>6. CASE ForkFailed
  BY <1>6, DriverMoves DEF ForkFailed, Finish, Goes, Moves, osd, Types
<1>7. CASE Finished
  BY <1>7, DriverMoves DEF Finished, Finish, Goes, Moves, osd, Types
<1>8. CASE AbortAsk
  BY <1>8, DriverMoves DEF AbortAsk, Goes, Moves, process, osd
<1>9. CASE Abort
  BY <1>9, DriverMoves DEF Abort, Killed, Goes, Moves, osd
<1>10. CASE StopAsk
  BY <1>10, DriverMoves DEF StopAsk, Goes, Moves, osd, Types
<1>11. CASE KillLoop
  BY <1>11, DriverMoves DEF KillLoop, Killed, Enters, At, osd
<1>12. CASE StopNow
  BY <1>12, DriverMoves DEF StopNow, Goes, Moves, Types
<1>13. CASE Told
  BY <1>13, DriverMoves DEF Told, Goes, Moves, process, osd
<1>14. CASE \E e \in Events : Deliver(e)
  <2> PICK e \in Events : Deliver(e)
    BY <1>14
  <2>1. UNCHANGED <<process, name>> /\ Top'.pc \in {"machine", "strip"}
        /\ (Killing' <=> Killing) /\ Bottom' = IF stack = <<>> THEN "machine" ELSE Bottom
    BY DeliverEnters DEF Deliver, Enters
  <2> QED
    BY <2>1 DEF process
<1>15. CASE Return
  BY <1>15, FrontLeaves DEF Return, At, Types, osd, process, Interrupted
<1>16. CASE Exit
  BY <1>16 DEF Exit, process, Top, Bottom, Killing
<1>17. CASE ChildDone
  BY <1>17 DEF ChildDone, osd, Top, Bottom, Killing, Types, TypeOK
<1>18. CASE ChildFails \/ ChildDies
  BY <1>18 DEF ChildFails, ChildDies, osd, Top, Bottom, Killing
<1>19. CASE (\E p \in {"yes", "exit"} : Answer(p)) \/ (\E r \in Recs : StartPlay(r)) \/ EndPlay
  BY <1>19 DEF Answer, StartPlay, EndPlay, osd, process, Top, Bottom, Killing
<1> QED
  BY <1>1, <1>2, <1>3, <1>4, <1>5, <1>6, <1>7, <1>8, <1>9, <1>10, <1>11, <1>12, <1>13, <1>14,
     <1>15, <1>16, <1>17, <1>18, <1>19 DEF Next, Handler, Driver

LEMMA QuestionStep ==
  ASSUME IInv, Next
  PROVE  QuestionOK'
<1> USE DEF IInv, QuestionOK
<1>1. CASE StateMachine
  BY <1>1, MachineMoves DEF StateMachine, Goes, Moves
<1>2. CASE NoStrip \/ Wait
  BY <1>2, DriverMoves DEF NoStrip, Wait, Goes, Moves, process
<1>3. CASE Fork
  BY <1>3, DriverMoves DEF Fork, Goes, Moves, StripOK
<1>4. CASE ForkFailed \/ Finished
  BY <1>4 DEF ForkFailed, Finished, Finish
<1>5. CASE AbortAsk
  BY <1>5, DriverMoves DEF AbortAsk, Ask, Goes, Moves, process
<1>6. CASE Abort \/ Told
  BY <1>6, DriverMoves DEF Abort, Killed, Told, Goes, Moves, process
<1>7. CASE StopAsk
  BY <1>7, DriverMoves DEF StopAsk, Ask, Goes, Moves
<1>8. CASE KillLoop
  BY <1>8, DriverMoves DEF KillLoop, Killed, Enters, At
<1>9. CASE StopNow
  BY <1>9, DriverMoves DEF StopNow, Goes, Moves
<1>10. CASE \E e \in Events : Deliver(e)
  <2> PICK e \in Events : Deliver(e)
    BY <1>10
  <2>1. UNCHANGED <<box, button, child>>
        /\ (Killing' <=> Killing) /\ Bottom' = IF stack = <<>> THEN "machine" ELSE Bottom
    BY DeliverEnters DEF Deliver, Enters, process
  <2> QED
    BY <2>1
<1>11. CASE Return
  BY <1>11, FrontLeaves DEF Return, At, Types, process
<1>12. CASE \E p \in {"yes", "exit"} : Answer(p)
  BY <1>12 DEF Answer, process, Bottom, Killing
<1>13. CASE Exit \/ (\E r \in Recs : StartPlay(r)) \/ EndPlay
  BY <1>13 DEF Exit, StartPlay, EndPlay, process, Bottom, Killing
<1>14. CASE ChildDone \/ ChildFails \/ ChildDies
  BY <1>14 DEF ChildDone, ChildFails, ChildDies, Bottom, Killing
<1> QED
  BY <1>1, <1>2, <1>3, <1>4, <1>5, <1>6, <1>7, <1>8, <1>9, <1>10, <1>11, <1>12, <1>13, <1>14
     DEF Next, Handler, Driver


OsdTypes ==
  /\ state \in {"wait", "unaccepted", "inactive", "inactivePlaying", "active", "menu",
                "submenu", "exit", "exitNoSave"}
  /\ name \in Recs \cup {None} /\ total \in Nat
  /\ unsaved \in BOOLEAN /\ misplaced \in BOOLEAN /\ ended \in BOOLEAN
  /\ play \in [rec : Recs, form : Whole] \cup {None}
  /\ {repeat, oldRepeat} \subseteq {"own", "forced", "older"}

DialogTypes ==
  /\ box \in Questions \cup {None}
  /\ button \in [q : Questions \cup {None}, press : {"none", "yes", "exit"}]

StripTypes ==
  /\ rs \in [active : BOOLEAN, cut : BOOLEAN, rec : Recs \cup {None}, shutdown : BOOLEAN]
  /\ child \in {"none", "running", "dying", "done", "error", "dead"}
  /\ file \in [Recs -> [{"main", "strip", "bak"} -> Forms \cup {None}]]
  /\ renameFailed \in BOOLEAN
  /\ runs \in 0 .. MaxRuns
  /\ child # "none" => rs.rec \in Recs

LEMMA TypesParts ==
  Types <=> /\ OsdTypes /\ DialogTypes /\ StripTypes
            /\ stack \in Seq(Activations) /\ Len(stack) <= MaxDepth + 1
  BY DEF Types, TypeOK, OsdTypes, DialogTypes, StripTypes, Whole, Forms

LEMMA OsdTypesStep ==
  ASSUME IInv, Next
  PROVE  OsdTypes'
<1>1. OsdTypes /\ MaxRuns \in Nat
  BY TypesParts, SessionConstants DEF IInv
<1>2. Playing => Size(play) \in Nat /\ play.rec \in Recs
  BY SizeIsPositive DEF IInv, Types, Playing
<1> USE <1>1 DEF OsdTypes
<1>3. CASE StillWaiting
  BY <1>3 DEF StillWaiting, osd, player, other, Playing, Resting
<1>4. CASE Refuse
  BY <1>2, <1>4 DEF Refuse, Attach, Ask, osd, player, other, Playing, Resting
<1>5. CASE Repaired
  BY <1>2, <1>5 DEF Repaired, Attach, Ask, osd, player, other, Playing, Resting
<1>6. CASE Refused
  BY <1>6 DEF Refused, osd, player, other, Playing, Resting
<1>7. CASE Doubt
  BY <1>2, <1>7 DEF Doubt, Attach, Ask, osd, player, other, Playing, Resting
<1>8. CASE Declined
  BY <1>8 DEF Declined, Cleanup, osd, player, other, Playing, Resting
<1>9. CASE Accept
  BY <1>2, <1>9 DEF Accept, osd, player, other, Playing, Resting
<1>10. CASE LetGo
  BY <1>10 DEF LetGo, Watching, Changed, Cleanup, osd, player, other, Playing, Resting
<1>11. CASE Show
  BY <1>11 DEF Show, Watching, Changed, osd, player, other, Playing, Resting
<1>12. CASE Activate
  BY <1>12 DEF Activate, osd, player, other, Playing, Resting
<1>13. CASE Ignore
  BY <1>13 DEF Ignore, Watching, Changed, osd, player, other, Playing, Resting
<1>14. CASE PlaybackEnded
  BY <1>14 DEF PlaybackEnded, Key, Cleanup, CutFileSave, osd, player, other, Playing, Resting
<1>15. CASE Edit
  BY <1>15 DEF Edit, Key, osd, player, other, Playing, Resting
<1>16. CASE Hide
  BY <1>16 DEF Hide, Key, CutSaveToBM, CutFileSave, osd, player, other, Playing, Resting
<1>17. CASE OpenMenu
  BY <1>17 DEF OpenMenu, Key, Move, osd, player, other, Playing, Resting
<1>18. CASE LeaveMenu
  BY <1>18 DEF LeaveMenu, Key, Move, osd, player, other, Playing, Resting
<1>19. CASE OpenSubMenu
  BY <1>19 DEF OpenSubMenu, Key, Move, osd, player, other, Playing, Resting
<1>20. CASE ClearAsk
  BY <1>20 DEF ClearAsk, Key, Ask, osd, player, other, Playing, Resting
<1>21. CASE Clear
  BY <1>21 DEF Clear, osd, player, other, Playing, Resting
<1>22. CASE ClearNot
  BY <1>22 DEF ClearNot, osd, player, other, Playing, Resting
<1>23. CASE StartRecStrip
  BY <1>23 DEF StartRecStrip, Key, CutSaveToBM, CutFileSave, osd, player, other, Playing, Resting
<1>24. CASE CheckFS
  BY <1>24 DEF CheckFS, Key, CutSaveToBM, CutFileSave, Cleanup, osd, player, other, Playing, Resting
<1>25. CASE ExitMC
  BY <1>25 DEF ExitMC, Key, osd, player, other, Playing, Resting
<1>26. CASE Driver
  <2>1. state' = state \/ state' \in Exits
    BY <1>26, DriverFrame DEF Leaving, Exits
  <2> QED
    BY <1>26, <2>1, DriverFrame DEF player, other, Exits
<1>27. CASE \E e \in Events : Deliver(e)
  BY <1>27 DEF Deliver, Leaving, player, other
<1>28. CASE Return
  BY <1>28 DEF Return, osd, player, other
<1>29. CASE Exit
  BY <1>29 DEF Exit, RepeatAtExit, Cleanup, CutFileSave, CutSaveToBM
<1>30. CASE \E r \in Recs : StartPlay(r)
  <2> PICK r \in Recs : StartPlay(r)
    BY <1>30
  <2>1. file[r].main \in Whole
    BY DEF StartPlay, IInv, RecordingsKept, Whole
  <2>2. play' \in [rec : Recs, form : Whole]
    BY <2>1 DEF StartPlay
  <2> QED
    BY <2>2 DEF StartPlay, osd, other
<1>31. CASE EndPlay
  BY <1>31 DEF EndPlay, osd, other
<1>32. CASE (\E p \in {"yes", "exit"} : Answer(p)) \/ ChildDone \/ ChildFails \/ ChildDies
  BY <1>32 DEF Answer, ChildDone, ChildFails, ChildDies, osd, player, other
<1> QED
  BY <1>1, <1>2, <1>3, <1>4, <1>5, <1>6, <1>7, <1>8, <1>9, <1>10, <1>11, <1>12,
     <1>13, <1>14, <1>15, <1>16, <1>17, <1>18, <1>19, <1>20, <1>21, <1>22, <1>23,
     <1>24, <1>25, <1>26, <1>27, <1>28, <1>29, <1>30, <1>31, <1>32 DEF Next, Handler,
     StateMachine

LEMMA DialogTypesStep ==
  ASSUME IInv, Next
  PROVE  DialogTypes'
<1>1. DialogTypes
  BY TypesParts DEF IInv
<1> USE <1>1 DEF DialogTypes, Questions
<1>2. CASE StateMachine /\ UNCHANGED box
  BY <1>2 DEF StateMachine, StillWaiting, Refuse, Repaired, Attach, Refused, Doubt, Declined,
     Accept, LetGo, Show, Activate, Ignore, PlaybackEnded, Edit, Hide, OpenMenu, LeaveMenu,
     OpenSubMenu, Move, ClearAsk, Clear, ClearNot, StartRecStrip, CheckFS, ExitMC
<1>3. CASE StateMachine /\ ~UNCHANGED box
  BY <1>3 DEF StateMachine, StillWaiting, Refuse, Repaired, Attach, Refused, Doubt, Declined,
     Accept, LetGo, Show, Activate, Ignore, PlaybackEnded, Edit, Hide, OpenMenu, LeaveMenu,
     OpenSubMenu, Move, ClearAsk, Clear, ClearNot, StartRecStrip, CheckFS, ExitMC, Ask
<1>4. CASE ForkFailed
  BY <1>4 DEF ForkFailed, Finish
<1>5. CASE Finished
  BY <1>5 DEF Finished, Finish, Ask
<1>6. CASE Driver /\ ~ForkFailed /\ ~Finished
  BY <1>6 DEF Driver, NoStrip, Fork, Wait, AbortAsk, Abort, StopAsk, Ask, KillLoop, StopNow, Told
<1>7. CASE \E p \in {"yes", "exit"} : Answer(p)
  <2> PICK p \in {"yes", "exit"} : Answer(p)
    BY <1>7
  <2>1. button' = [q |-> box, press |-> p] /\ box' = None
    BY DEF Answer
  <2> QED
    BY <2>1
<1>8. CASE Return
  BY <1>8 DEF Return, NoAnswer
<1>9. CASE \/ Exit \/ (\E e \in Events : Deliver(e)) \/ (\E r \in Recs : StartPlay(r))
           \/ EndPlay \/ ChildDone \/ ChildFails \/ ChildDies
  BY <1>9 DEF Exit, Deliver, StartPlay, EndPlay, ChildDone, ChildFails, ChildDies
<1> QED
  BY <1>2, <1>3, <1>4, <1>5, <1>6, <1>7, <1>8, <1>9 DEF Next, Handler

\* What Finished makes of the files of a recording.
LEMMA SwappedFiles ==
  ASSUME NEW fs \in [{"main", "strip", "bak"} -> Forms \cup {None}],
         NEW ok1 \in BOOLEAN, NEW ok2 \in BOOLEAN,
         fs["main"] \in Whole, fs["strip"] = "stripped"
  PROVE  /\ Swapped(fs, ok1, ok2) \in [{"main", "strip", "bak"} -> Forms \cup {None}]
         /\ Swapped(fs, ok1, ok2)["main"] \in Whole \cup {None}
         /\ \E f \in {"main", "bak"} : Swapped(fs, ok1, ok2)[f] \in Whole
         /\ ok1 /\ ok2 => Swapped(fs, ok1, ok2)["main"] # None /\ Swapped(fs, ok1, ok2)["bak"] # None
<1> DEFINE gs == Renamed(fs, "main", "bak", ok1)
           hs == Renamed(gs, "strip", "main", ok2)
<1>1. None \notin Forms /\ Whole \subseteq Forms
  BY NoneAssumption DEF Whole, Forms
<1>2. /\ gs \in [{"main", "strip", "bak"} -> Forms \cup {None}]
      /\ gs["strip"] = "stripped"
      /\ ok1 => gs["main"] = None /\ gs["bak"] = fs["main"]
      /\ ~ok1 => gs["main"] = fs["main"] /\ gs["bak"] = fs["bak"]
  BY <1>1 DEF Renamed, Whole
<1> HIDE DEF gs
<1>3. /\ hs \in [{"main", "strip", "bak"} -> Forms \cup {None}]
      /\ hs["bak"] = gs["bak"]
      /\ ok2 => hs["main"] = "stripped"
      /\ ~ok2 => hs["main"] = gs["main"]
  BY <1>1, <1>2 DEF Renamed, Whole
<1>4. hs = Swapped(fs, ok1, ok2)
  BY DEF gs, Swapped
<1> HIDE DEF hs
<1>5. "stripped" \in Whole
  BY DEF Whole
<1> QED
  BY <1>1, <1>2, <1>3, <1>4, <1>5

\* RecordingsKept without the types.
FilesKept ==
  /\ BackupKept
  /\ \A r \in Recs : /\ file[r].main \in {"full", "stripped", None}
                     /\ \E f \in {"main", "bak"} : file[r][f] \in {"full", "stripped"}

\* A step that only touches the stripped version of a recording.
LEMMA StripOnly ==
  ASSUME NEW r \in Recs, NEW f \in Forms,
         file \in [Recs -> [{"main", "strip", "bak"} -> Forms \cup {None}]],
         RecordingsKept, renameFailed' = renameFailed,
         file' = [file EXCEPT ![r].strip = f]
  PROVE  /\ file' \in [Recs -> [{"main", "strip", "bak"} -> Forms \cup {None}]]
         /\ FilesKept'
<1>1. file' \in [Recs -> [{"main", "strip", "bak"} -> Forms \cup {None}]]
  OBVIOUS
<1>2. \A s \in Recs : file'[s].main = file[s].main /\ file'[s].bak = file[s].bak
                      /\ file'[s]["main"] = file[s]["main"] /\ file'[s]["bak"] = file[s]["bak"]
  OBVIOUS
<1> QED
  BY <1>1, <1>2 DEF RecordingsKept, FilesKept, BackupKept

LEMMA StripTypesStep ==
  ASSUME IInv, Next
  PROVE  StripTypes' /\ FilesKept'
<1>1. StripTypes /\ FilesKept /\ StripOK /\ RecordingsKept /\ MaxRuns \in Nat /\ OsdTypes
  BY TypesParts, SessionConstants DEF IInv, RecordingsKept, FilesKept
<1>2. ASSUME UNCHANGED process
      PROVE  StripTypes' /\ FilesKept'
  BY <1>1, <1>2 DEF StripTypes, FilesKept, BackupKept, process
<1>3. ASSUME UNCHANGED <<file, renameFailed>>
      PROVE  FilesKept'
  BY <1>1, <1>3 DEF FilesKept, BackupKept
<1>4. CASE StateMachine /\ ~StartRecStrip
  BY <1>2, <1>4, MachineFrame DEF process
<1>5. CASE StartRecStrip
  BY <1>1, <1>3, <1>5 DEF StartRecStrip, StripTypes
<1>6. CASE NoStrip \/ Wait \/ AbortAsk \/ Told
  BY <1>2, <1>6 DEF NoStrip, Wait, AbortAsk, Told
<1>7. CASE Fork
  <2>1. name \in Recs /\ runs + 1 \in 0 .. MaxRuns
    BY <1>1, <1>7 DEF Fork, StripOK, StripTypes
  <2>2. CASE file' = file
    BY <1>1, <1>3, <1>7, <2>1, <2>2 DEF Fork, StripTypes, RSNames
  <2>3. CASE file' = [file EXCEPT ![name].strip = "partial"]
    <3>1. /\ file' \in [Recs -> [{"main", "strip", "bak"} -> Forms \cup {None}]]
          /\ FilesKept'
      BY <1>1, <1>7, <2>1, <2>3, StripOnly DEF Fork, Forms, StripTypes
    <3> QED
      BY <1>1, <1>7, <2>1, <3>1 DEF Fork, StripTypes, RSNames
  <2> QED
    BY <1>7, <2>2, <2>3 DEF Fork
<1>8. CASE ForkFailed
  <2>1. runs + 1 \in 0 .. MaxRuns
    BY <1>1, <1>8 DEF ForkFailed, StripOK, StripTypes
  <2> QED
    BY <1>1, <1>3, <1>8, <2>1 DEF ForkFailed, Finish, StripTypes
<1>9. CASE Finished
  <2>1. /\ rs' \in [active : BOOLEAN, cut : BOOLEAN, rec : Recs \cup {None}, shutdown : BOOLEAN]
        /\ child' = "none" /\ runs' = runs
    BY <1>1, <1>9 DEF Finished, Finish, StripTypes
  <2>2. CASE UNCHANGED <<file, renameFailed>>
    BY <1>1, <1>3, <2>1, <2>2 DEF StripTypes
  <2>3. CASE Succeeded /\ ~rs.cut
    <3> DEFINE r == rs.rec
    <3>1. /\ r \in Recs /\ file[r] \in [{"main", "strip", "bak"} -> Forms \cup {None}]
          /\ file[r]["main"] \in Whole /\ file[r]["strip"] = "stripped"
      BY <1>1, <2>3 DEF Succeeded, StripTypes, StripOK, RecordingsKept, Whole
    <3>2. PICK ok1, ok2 \in RenameResults :
            /\ file' = [file EXCEPT ![r] = Swapped(file[r], ok1, ok2)]
            /\ renameFailed' = (renameFailed \/ ~ok1 \/ ~ok2)
      BY <1>9, <2>3 DEF Finished
    <3>3. ok1 \in BOOLEAN /\ ok2 \in BOOLEAN
      BY DEF RenameResults
    <3> DEFINE hs == Swapped(file[r], ok1, ok2)
    <3>4. /\ hs \in [{"main", "strip", "bak"} -> Forms \cup {None}]
          /\ hs["main"] \in Whole \cup {None}
          /\ \E f \in {"main", "bak"} : hs[f] \in Whole
          /\ ok1 /\ ok2 => hs["main"] # None /\ hs["bak"] # None
      BY <3>1, <3>3, SwappedFiles
    <3> HIDE DEF hs
    <3>5. /\ file' \in [Recs -> [{"main", "strip", "bak"} -> Forms \cup {None}]]
          /\ file'[r] = hs /\ \A s \in Recs \ {r} : file'[s] = file[s]
      BY <1>1, <3>1, <3>2, <3>4 DEF StripTypes, hs
    <3>6. FilesKept'
      <4>1. ~renameFailed' => ~renameFailed /\ ok1 /\ ok2
        BY <3>2
      <4>2. ASSUME NEW s \in Recs
            PROVE  /\ ~renameFailed' => /\ file'[s].main # None
                                        /\ file'[s].main = "stripped" => file'[s].bak # None
                   /\ file'[s].main \in {"full", "stripped", None}
                   /\ \E f \in {"main", "bak"} : file'[s][f] \in {"full", "stripped"}
        <5>1. CASE s = r
          BY <3>4, <3>5, <4>1, <5>1 DEF Whole
        <5>2. CASE s # r
          BY <1>1, <3>5, <4>1, <5>2 DEF RecordingsKept, BackupKept
        <5> QED
          BY <5>1, <5>2
      <4> QED
        BY <4>2 DEF FilesKept, BackupKept
    <3> QED
      BY <1>1, <2>1, <3>2, <3>3, <3>5, <3>6 DEF StripTypes
  <2> QED
    BY <1>9, <2>2, <2>3 DEF Finished
<1>10. CASE Abort \/ KillLoop
  BY <1>1, <1>3, <1>10 DEF Abort, KillLoop, Killed, StripTypes
<1>11. CASE StopAsk \/ StopNow
  BY <1>1, <1>3, <1>11 DEF StopAsk, StopNow, StripTypes
<1>12. CASE ChildDone
  <2>1. CASE file' = file
    BY <1>1, <1>3, <1>12, <2>1 DEF ChildDone, StripTypes
  <2>2. CASE file' = [file EXCEPT ![rs.rec].strip = "stripped"]
    <3>1. rs.rec \in Recs
      BY <1>1, <1>12 DEF ChildDone, StripTypes
    <3>2. /\ file' \in [Recs -> [{"main", "strip", "bak"} -> Forms \cup {None}]]
          /\ FilesKept'
      BY <1>1, <1>12, <2>2, <3>1, StripOnly DEF ChildDone, Forms, StripTypes
    <3> QED
      BY <1>1, <1>12, <3>1, <3>2 DEF ChildDone, StripTypes
  <2> QED
    BY <1>12, <2>1, <2>2 DEF ChildDone
<1>13. CASE ChildFails \/ ChildDies
  BY <1>1, <1>3, <1>13 DEF ChildFails, ChildDies, StripTypes
<1>14. CASE \/ Return \/ Exit \/ (\E p \in {"yes", "exit"} : Answer(p))
            \/ (\E e \in Events : Deliver(e)) \/ (\E r \in Recs : StartPlay(r)) \/ EndPlay
  BY <1>2, <1>14 DEF Return, Exit, Answer, Deliver, StartPlay, EndPlay
<1> QED
  BY <1>4, <1>5, <1>6, <1>7, <1>8, <1>9, <1>10, <1>11, <1>12, <1>13, <1>14
     DEF Next, Handler, Driver

-----------------------------------------------------------------------------
(* The invariant.                                                          *)

LEMMA InvInit == Init => IInv
<1> SUFFICES ASSUME Init PROVE IInv
  OBVIOUS
<1>0. "full" \in Forms /\ "full" # None
  BY NoneAssumption DEF Forms
<1> USE DEF Init
<1>1. /\ "full" \in Forms /\ "full" # None
      /\ stack = <<>> /\ Len(stack) = 0 /\ DOMAIN stack = {}
      /\ MaxDepth \in Nat /\ MaxRuns \in Nat
  BY <1>0, SessionConstants
<1>2. Types
  <2>1. /\ state \in {"wait", "inactive"} /\ box = None /\ play = None
        /\ button = [q |-> None, press |-> "none"]
        /\ button \in [q : Questions \cup {None}, press : {"none", "yes", "exit"}]
    BY DEF NoAnswer, Resting
  <2>2. /\ rs \in [active : BOOLEAN, cut : BOOLEAN, rec : Recs \cup {None}, shutdown : BOOLEAN]
        /\ file \in [Recs -> [{"main", "strip", "bak"} -> Forms \cup {None}]]
    <3>1. [main |-> "full", strip |-> None, bak |-> None]
            \in [{"main", "strip", "bak"} -> Forms \cup {None}]
      BY <1>1
    <3> QED
      BY <3>1
  <2>3. TypeOK
    <3>1. Len(stack) <= MaxDepth + 1 /\ runs \in 0 .. MaxRuns
      BY <1>1
    <3> QED
      BY <2>1, <2>2, <3>1 DEF TypeOK
  <2> QED
    BY <1>1, <2>1, <2>2, <2>3 DEF Types
<1>3. StackOK /\ StripOK /\ ExitOK /\ DialogOK /\ NoOrphan
  BY <1>1 DEF StackOK, StripOK, ExitOK, DialogOK, NoOrphan, Resting, Exits, Killing
<1>4. QuestionOK /\ ListOK /\ EditsKept /\ RepeatOK /\ ModeOK
  BY <1>1 DEF QuestionOK, ListOK, EditsKept, RepeatOK, ModeOK, Playing, Shown, Resting, Killing
<1>5. RecordingsKept
  BY <1>1, <1>2 DEF Types, RecordingsKept, BackupKept
<1> QED
  BY <1>2, <1>3, <1>4, <1>5 DEF IInv

LEMMA InvStep == IInv /\ [Next]_vars => IInv'
<1> SUFFICES ASSUME IInv, [Next]_vars PROVE IInv'
  OBVIOUS
<1>1. CASE Next
  <2>1. Types'
    BY <1>1, StackStep, OsdTypesStep, DialogTypesStep, StripTypesStep
       DEF Types, TypeOK, OsdTypes, DialogTypes, StripTypes, Whole, Forms
  <2>2. RecordingsKept'
    BY <1>1, <2>1, StripTypesStep DEF RecordingsKept, FilesKept, Types
  <2> QED
    BY <1>1, <2>1, <2>2, StackStep, StripStep, QuestionStep, ExitStep, DialogStep, OsdStep,
       RepeatStep, ModeStep DEF IInv
<1>2. CASE UNCHANGED vars
  <2>1. UNCHANGED <<osd, stack, box, button, player, process, other, Top, Bottom>>
    BY <1>2 DEF vars, Top, Bottom
  <2>2. UNCHANGED <<state, name, total, unsaved, misplaced, stack, box, button, play, repeat,
                    oldRepeat, rs, child, file, renameFailed, runs, ended, AutoOSDPolicy>>
    BY <2>1 DEF osd, player, process, other
  <2>3. Types' /\ StackOK' /\ RecordingsKept'
    BY <2>2 DEF IInv, Types, TypeOK, StackOK, RecordingsKept, BackupKept
  <2>4. StripOK' /\ QuestionOK' /\ ExitOK' /\ DialogOK' /\ ListOK'
    BY <2>1, <2>2 DEF IInv, StripOK, QuestionOK, ExitOK, DialogOK, ListOK, Killing, Playing, Shown
  <2>5. EditsKept' /\ RepeatOK' /\ ModeOK' /\ NoOrphan'
    BY <2>1, <2>2 DEF IInv, EditsKept, RepeatOK, ModeOK, Attached, NoOrphan, Playing, Shown
  <2> QED
    BY <2>3, <2>4, <2>5 DEF IInv
<1> QED
  BY <1>1, <1>2

\* Dialogs, nested events and RecStrip interfere in no way that IInv does not allow.
THEOREM Invariance == Spec => []IInv
BY InvInit, InvStep, PTL DEF Spec

\* A complete version of every recording is left, whatever the user does while RecStrip
\* is working and whichever start, strip or rename fails.
THEOREM RecordingsAreKept == Spec => []RecordingsKept
<1>1. IInv => RecordingsKept
  BY DEF IInv
<1> QED
  BY <1>1, Invariance, PTL

\* No way out of the OSD forgets edits of the segment list.
THEOREM EditsAreKept == Spec => []EditsKept
<1>1. IInv => EditsKept
  BY DEF IInv
<1> QED
  BY <1>1, Invariance, PTL

\* The user's repeat mode is given back on every way out of the OSD, and the end of
\* MovieCutter gives it back to a playback that was attached; what it gives to another one
\* is an older mode, and never the forced one.
THEOREM RepeatIsGivenBack == Spec => []RepeatGivenBack
<1>1. IInv => RepeatGivenBack
  BY DEF IInv, Types, TypeOK, RepeatOK, ModeOK, ExitOK, Exits, Attached, RepeatGivenBack
<1> QED
  BY <1>1, Invariance, PTL

\* MovieCutter does not end before RecStrip unless TMSCommander stops it.
THEOREM NoOrphanIsLeft == Spec => []NoOrphan
<1>1. IInv => NoOrphan
  BY DEF IInv
<1> QED
  BY <1>1, Invariance, PTL

-----------------------------------------------------------------------------
(* RecStrip is killed on request.                                          *)

Kills     == child = "running" /\ child' = "dying"
Requested == button = [q |-> "abort?", press |-> "yes"] \/ button.q = "stopping"

LEMMA KilledStep ==
  ASSUME IInv, Next, Kills
  PROVE  Requested
<1>1. CASE Abort
  <2>1. stack # <<>> /\ Bottom = "abort" /\ ~Killing /\ box = None
    BY <1>1, Alone DEF Abort, At, IInv, Types, Waiting
  <2>2. button.q = "abort?"
    BY <2>1, NoneAssumption DEF IInv, QuestionOK, Kills
  <2>3. button.press = "yes"
    BY <1>1 DEF Abort, Yes, Kills
  <2>4. button = [q |-> button.q, press |-> button.press]
    BY DEF IInv, Types
  <2> QED
    BY <2>2, <2>3, <2>4 DEF Requested
<1>2. CASE KillLoop
  <2>1. stack # <<>> /\ Top.pc = "stopping" /\ box = None
    BY <1>2 DEF KillLoop, At, Waiting
  <2>2. Killing
    BY <2>1, TopIsLast DEF Killing, IInv, Types
  <2> QED
    BY <2>1, <2>2, NoneAssumption DEF IInv, QuestionOK, Kills, Requested
<1>3. CASE StateMachine
  BY <1>3, MachineFrame DEF Kills
<1>4. CASE Driver /\ ~Abort /\ ~KillLoop
  BY <1>4 DEF Kills, Driver, NoStrip, Fork, Wait, ForkFailed, Finished, Finish, AbortAsk,
              StopAsk, StopNow, Told, process
<1>5. CASE \/ Return \/ Exit \/ (\E p \in {"yes", "exit"} : Answer(p))
           \/ (\E e \in Events : Deliver(e)) \/ (\E r \in Recs : StartPlay(r)) \/ EndPlay
           \/ ChildDone \/ ChildFails \/ ChildDies
  BY <1>5 DEF Kills, Return, Exit, Answer, Deliver, StartPlay, EndPlay, ChildDone, ChildFails,
              ChildDies, process
<1> QED
  BY <1>1, <1>2, <1>3, <1>4, <1>5 DEF Next, Handler

\* RecStrip is killed only after its own question has been answered with yes, or after
\* the notice that the receiver is being shut down.
THEOREM KilledOnlyOnRequest == Spec => KilledOnRequest
<1>1. IInv /\ [Next]_vars =>
        [child = "running" /\ child' = "dying" =>
           \/ button = [q |-> "abort?", press |-> "yes"]
           \/ button.q = "stopping"]_vars
  BY KilledStep DEF Kills, Requested
<1> QED
  BY <1>1, Invariance, PTL DEF Spec, KilledOnRequest

-----------------------------------------------------------------------------
(* The list of the recording that is played.                               *)

\* No two recordings have the same number of blocks: MovieCutter tells them by it.
LengthsTell == \A r, s \in Recs : \A f, g \in Whole : Blocks[r][f] = Blocks[s][g] => r = s

LEMMA ListByLength ==
  ASSUME IInv, LengthsTell, Playing, total # 0, total = Size(play)
  PROVE  name = play.rec
<1>1. play.rec \in Recs /\ play.form \in Whole
  BY DEF IInv, Types, Playing
<1>2. name \in Recs
  BY DEF IInv, ListOK
<1>3. PICK f \in Whole : total = Blocks[name][f]
  BY DEF IInv, ListOK
<1>4. Blocks[name][f] = Blocks[play.rec][play.form]
  BY <1>3 DEF Size
<1> QED
  BY <1>1, <1>2, <1>4 DEF LengthsTell

LEMMA ListStep ==
  ASSUME IInv, LengthsTell, ListOfThePlayed, Next
  PROVE  ListOfThePlayed'
<1> USE DEF ListOfThePlayed, Shown, Playing, osd, player
<1>1. CASE Show
  <2>1. name = play.rec
    BY <1>1, ListByLength DEF Show, Changed
  <2> QED
    BY <1>1, <2>1 DEF Show
<1>2. CASE Exit
  <2>1. state' = state /\ name' = name /\ play' = play
    BY <1>2 DEF Exit
  <2>2. CASE misplaced' = misplaced
    BY <2>1, <2>2
  <2>3. CASE total > 0 /\ Playing /\ total = Size(play) /\ CutSaveToBM
    <3>1. total # 0
      BY <2>3 DEF IInv, Types, TypeOK
    <3>2. name = play.rec
      BY <2>3, <3>1, ListByLength
    <3> QED
      BY <2>1, <2>3, <3>2 DEF CutSaveToBM
  <2> QED
    BY <1>2, <2>2, <2>3 DEF Exit
<1>3. CASE Accept
  BY <1>3, AfterDialog DEF Accept
<1>4. CASE Clear
  BY <1>4, AfterDialog DEF Clear
<1>5. CASE Hide \/ StartRecStrip \/ CheckFS
  BY <1>5 DEF Hide, StartRecStrip, CheckFS, Key, CutSaveToBM, Resting
<1>6. CASE StillWaiting \/ Refuse \/ Repaired \/ Refused \/ Doubt \/ Declined
  <2>1. misplaced' = misplaced
    BY <1>6 DEF StillWaiting, Refuse, Repaired, Attach, Refused, Doubt, Declined
  <2>2. state' \in {"wait", "unaccepted", "inactive"}
    BY <1>6, AfterDialog DEF StillWaiting, Refuse, Repaired, Attach, Refused, Doubt, Declined
  <2> QED
    BY <2>1, <2>2
<1>7. CASE LetGo \/ Activate \/ Ignore \/ PlaybackEnded \/ Edit
  BY <1>7 DEF LetGo, Activate, Ignore, PlaybackEnded, Edit, Key, Resting
<1>8. CASE OpenMenu \/ LeaveMenu \/ OpenSubMenu \/ ClearAsk \/ ClearNot \/ ExitMC
  BY <1>8 DEF OpenMenu, LeaveMenu, OpenSubMenu, Move, Key, ClearAsk, ClearNot, ExitMC
<1>9. CASE Driver
  BY <1>9, DriverFrame DEF Leaving
<1>10. CASE \E e \in Events : Deliver(e)
  BY <1>10 DEF Deliver, Leaving
<1>11. CASE (\E r \in Recs : StartPlay(r)) \/ EndPlay
  BY <1>11 DEF StartPlay, EndPlay
<1>12. CASE \/ Return \/ (\E p \in {"yes", "exit"} : Answer(p))
            \/ ChildDone \/ ChildFails \/ ChildDies
  BY <1>12 DEF Return, Answer, ChildDone, ChildFails, ChildDies
<1> QED
  BY <1>1, <1>2, <1>3, <1>4, <1>5, <1>6, <1>7, <1>8, <1>9, <1>10, <1>11, <1>12
     DEF Next, Handler, StateMachine

\* The segments on the screen are those of the recording on the screen, and no list is
\* written into the bookmark area of another recording, where lengths tell recordings.
THEOREM ListIsOfThePlayed == ASSUME LengthsTell PROVE Spec => []ListOfThePlayed
<1>1. Init => ListOfThePlayed
  BY DEF Init, ListOfThePlayed, Playing
<1>2. ListOfThePlayed /\ IInv /\ [Next]_vars => ListOfThePlayed'
  <2>1. UNCHANGED vars /\ ListOfThePlayed => ListOfThePlayed'
    BY DEF vars, osd, player, ListOfThePlayed, Shown, Playing
  <2> QED
    BY <2>1, ListStep
<1> QED
  BY <1>1, <1>2, Invariance, PTL DEF Spec
=============================================================================
