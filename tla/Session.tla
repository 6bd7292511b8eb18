------------------------------ MODULE Session ------------------------------
(***************************************************************************)
(* The life of MovieCutter between two recordings: the state machine of    *)
(* TAP_EventHandler, TMSCommander_handler, Cleanup, and the driver of      *)
(* RecStrip, a child process that goes on while MovieCutter is used        *)
(* (MovieCutter.c).                                                        *)
(*                                                                         *)
(* The event handler is called by the firmware and calls the firmware back *)
(* while a dialog is open (TAP_SystemProc), so an activation can be        *)
(* interrupted there by another one.  The variable stack holds the         *)
(* activations, innermost last, each with the place it has come to.  There *)
(* is one message box for all of them.                                     *)
(***************************************************************************)
EXTENDS Naturals, Sequences, SequencesExt

CONSTANTS
  Recs,            \* recordings, by name
  Blocks,          \* their lengths: Blocks[r][form]
  None,            \* no playback, no dialog, no file
  Faults,          \* what can go wrong: "fork", "strip" (RecStrip fails), "rename"
  MaxDepth,        \* bound: activations inside one another
  MaxRuns          \* bound: how often RecStrip is started

Forms == {"full", "stripped", "partial"}

ASSUME SessionConstants ==
  /\ Blocks \in [Recs -> [Forms -> Nat \ {0}]]
  /\ Faults \subseteq {"fork", "strip", "rename"}
  /\ MaxDepth \in Nat \ {0} /\ MaxRuns \in Nat
ASSUME NoneAssumption ==
  None \notin Forms \cup {"message", "use it?", "sure?", "abort?", "stopping", "result"}

VARIABLES
  AutoOSDPolicy,   \* setting, from the INI file: the OSD opens with each playback
  state,           \* State, "wait" for ST_WaitForPlayback and so on
  stack,           \* the activations of TAP_EventHandler
  box, button,     \* the message box that is open; the last one and its answer
  play,            \* the recording that is played
  repeat,          \* the playback's repeat mode: the user's own or the one forced
  oldRepeat,       \* OldRepeatMode: that of this playback, a forced or an older one
  name, total,     \* PlaybackName, for which the segment list is; LastTotalBlocks
  unsaved,         \* edits of the segment list that are not in the .cut file
  misplaced,       \* history: a list was written into another recording's bookmarks
  rs,              \* RecStrip_active, RecStrip_DoCut, RS_OrigName, ShutdownAfterRS
  child,           \* the process RecStrip_Pid
  file,            \* the files of each recording: its own name, _strip and _bak
  renameFailed,    \* history: a rename went wrong
  runs,            \* starts of RecStrip so far
  ended            \* TAP_Exit has been called

osd     == <<state, name, total, unsaved, misplaced>>
player  == <<play, repeat, oldRepeat>>
process == <<rs, child, file, renameFailed, runs>>
other   == <<ended, AutoOSDPolicy>>
vars    == <<osd, stack, box, button, player, process, other>>

Playing == play # None
Size(p) == Blocks[p.rec][p.form]              \* PlayInfo.totalBlock
Shown   == state \in {"active", "menu", "submenu"}
Resting == IF AutoOSDPolicy THEN "wait" ELSE "inactive"
LeavingMenu(s) == IF s = "active" THEN "exit" ELSE "exitNoSave"   \* mutant
Leaving(s) == IF s \in {"active", "menu", "submenu"} THEN "exit" ELSE "exitNoSave"

NoAnswer == [q |-> None, press |-> "none"]

Init ==
  /\ AutoOSDPolicy \in BOOLEAN
  /\ state = Resting /\ stack = <<>> /\ box = None /\ button = NoAnswer
  /\ play = None /\ repeat = "own" /\ oldRepeat = "older"
  /\ name = None /\ total = 0 /\ unsaved = FALSE
  /\ misplaced = FALSE
  /\ rs = [active |-> FALSE, cut |-> FALSE, rec |-> None, shutdown |-> FALSE]
  /\ child = "none" /\ runs = 0 /\ renameFailed = FALSE /\ ended = FALSE
  /\ file = [r \in Recs |-> [main |-> "full", strip |-> None, bak |-> None]]

-----------------------------------------------------------------------------
(* The call stack.                                                         *)

Top       == Last(stack)
Waiting   == {"refused", "doubt", "sure", "told", "abort", "stopping"}
At(pc)    == ~ended /\ stack # <<>> /\ Top.pc = pc /\ (pc \in Waiting => box = None)
Goto(pc)  == stack' = [stack EXCEPT ![Len(stack)].pc = pc]
\* ShowConfirmationDialog, ShowErrorMessage: the activation waits at pc until no
\* message box is open, whoever has opened or closed it.
Ask(q, pc) == box' = q /\ Goto(pc)
Yes       == button.press = "yes"              \* OSDMenuMessageBoxLastButton() == 0
\* The firmware has control.
Idle      == ~ended /\ (stack # <<>> => Top.pc \in Waiting /\ box # None)

\* The keys that do something in the state s.
KeysIn(s) ==
  CASE s = "active"   -> {"exit", "edit", "menu", "sleep"}
    [] s = "menu"     -> {"exit", "clear", "strip", "checkFS", "exitMC", "submenu", "sleep"}
    [] s = "submenu"  -> {"exit", "copy", "sleep"}
    [] s \in {"inactive", "inactivePlaying"} -> {"option", "sleep"}
    [] s = "wait" /\ Playing -> {"other"}
    [] OTHER          -> {"sleep"}

\* A call of TAP_EventHandler up to the switch.  While an activation waits, only
\* idle and stop events get in, and only while RecStrip is active; they skip the
\* state machine.
Deliver(event) ==
  /\ Idle /\ Len(stack) < MaxDepth
  /\ stack # <<>> => rs.active /\ event \in {"idle", "stop"}
  /\ stack' = Append(stack, [event |-> event, pc |-> IF stack = <<>> THEN "machine" ELSE "strip"])
  /\ state' = CASE event = "stop" /\ ~rs.active -> Leaving(state)
                [] event = "tmsStop"            -> Leaving(state)
                [] event = "tmsStart" /\ state \in {"inactive", "inactivePlaying"} -> "wait"
                [] OTHER                        -> state
  /\ UNCHANGED <<name, total, unsaved, misplaced, box, button, player, process, other>>

\* A key while the message box is open goes to the box: "exit" is any answer but Yes
\* or OK.
Answer(press) ==
  /\ Idle /\ box # None
  /\ button' = [q |-> box, press |-> press] /\ box' = None
  /\ UNCHANGED <<osd, stack, player, process, other>>

-----------------------------------------------------------------------------
(* The player.  While the OSD or a dialog is shown MovieCutter swallows the *)
(* keys that would start another playback.                                 *)

StartPlay(r) ==
  /\ Idle /\ stack = <<>> /\ ~Shown
  /\ file[r].main # None /\ play # [rec |-> r, form |-> file[r].main]
  /\ play' = [rec |-> r, form |-> file[r].main]
  /\ repeat' = "own" /\ oldRepeat' = IF oldRepeat = "own" THEN "older" ELSE oldRepeat
  /\ UNCHANGED <<osd, stack, box, button, process, other>>

EndPlay ==
  /\ Idle /\ Playing
  /\ play' = None
  /\ UNCHANGED <<osd, stack, box, button, repeat, oldRepeat, process, other>>

-----------------------------------------------------------------------------
(* Cleanup, CutSaveToBM, CutFileSave.                                      *)

Cleanup     == total' = 0
CutFileSave == unsaved' = FALSE
\* SaveBookmarks writes into the bookmark area of what is played.
CutSaveToBM == misplaced' = (misplaced \/ (Playing /\ name # play.rec))

(* ST_WaitForPlayback.                                                     *)

\* No playback, or PlayInfo is not complete yet.
StillWaiting ==
  /\ At("machine") /\ state = "wait" /\ Goto("strip")
  /\ UNCHANGED <<osd, box, button, player, process, other>>

Attach ==
  /\ At("machine") /\ state = "wait" /\ Playing
  /\ unsaved' = FALSE /\ name' = play.rec
  /\ oldRepeat' = repeat /\ repeat' = "forced"
  /\ UNCHANGED <<misplaced, button, play, process, other>>

\* The name is too long, no size, encrypted, no video type, no time stamps.
Refuse ==
  /\ Attach /\ total' = Size(play) /\ state' = "unaccepted"
  /\ \E q \in {"message", None} : Ask(q, "refused")
\* A .nav file with holes has been repaired: the playback is read anew.
Repaired == Attach /\ total' = 0 /\ Ask("message", "refused") /\ UNCHANGED state
Refused ==
  /\ At("refused") /\ repeat' = oldRepeat /\ Goto("strip")
  /\ UNCHANGED <<osd, box, button, play, oldRepeat, process, other>>

\* No .nav, a .nav of another length, no reboot since the recording, a full disk.
Doubt   == Attach /\ total' = Size(play) /\ Ask("use it?", "doubt") /\ UNCHANGED state
Declined ==
  /\ At("doubt") /\ ~Yes
  /\ repeat' = oldRepeat
  /\ IF AutoOSDPolicy THEN state' = "unaccepted" /\ UNCHANGED total
                      ELSE state' = "inactive" /\ Cleanup
  /\ Goto("strip")
  /\ UNCHANGED <<name, unsaved, misplaced, box, button, play, oldRepeat, process, other>>

\* ReadBookmarks, CutFileLoad or AddDefaultSegmentMarker.
Accept ==
  /\ \/ At("doubt") /\ Yes /\ UNCHANGED <<repeat, oldRepeat, total, name>>
     \/ /\ At("machine") /\ state = "wait" /\ Playing
        /\ total' = Size(play) /\ name' = play.rec
        /\ oldRepeat' = repeat /\ repeat' = "forced"
  /\ unsaved' = FALSE /\ state' = "active" /\ Goto("strip")
  /\ UNCHANGED <<misplaced, box, button, play, process, other>>

-----------------------------------------------------------------------------
(* ST_UnacceptedFile, ST_InactiveModePlaying, ST_InactiveMode.             *)

\* Another playback is told by its length.
Stopped  == ~Playing                                              \* mutant
Changed  == ~(Playing /\ total # 0 /\ total = Size(play))
Watching == At("machine") /\ state \in {"unaccepted", "inactivePlaying"}

LetGo ==
  /\ Watching /\ Changed
  /\ state' = Resting /\ Cleanup /\ Goto("strip")
  /\ UNCHANGED <<name, unsaved, misplaced, box, button, player, process, other>>

Show ==
  /\ Watching /\ ~Changed /\ state = "inactivePlaying" /\ Top.event = "option"
  /\ oldRepeat' = repeat /\ repeat' = "forced" /\ state' = "active" /\ Goto("strip")
  /\ UNCHANGED <<name, total, unsaved, misplaced, box, button, play, process, other>>

Activate ==
  /\ At("machine") /\ state = "inactive" /\ Top.event = "option" /\ Playing
  /\ state' = "wait" /\ Goto("strip")
  /\ UNCHANGED <<name, total, unsaved, misplaced, box, button, player, process, other>>

\* An event without use, or one that comes while the receiver shows another menu or
\* has no valid position, or a menu entry that is inactive.
Ignore ==
  /\ At("machine")
  /\ \/ Watching /\ ~Changed
     \/ state = "active" /\ Playing
     \/ state \in {"inactive", "menu", "submenu", "exit", "exitNoSave"}
  /\ Goto("strip")
  /\ UNCHANGED <<osd, box, button, player, process, other>>

-----------------------------------------------------------------------------
(* ST_ActiveOSD.                                                           *)

Key(s, k) == At("machine") /\ state = s /\ Top.event = k

PlaybackEnded ==
  /\ At("machine") /\ state = "active" /\ ~Playing
  /\ IF total > 0 THEN CutFileSave ELSE UNCHANGED unsaved
  /\ state' = Resting /\ Cleanup /\ Goto("strip")
  /\ UNCHANGED <<name, misplaced, box, button, player, process, other>>

\* Any operation of the module SegmentMarkers.
Edit ==
  /\ Key("active", "edit") /\ Playing
  /\ unsaved' = TRUE /\ Goto("strip")
  /\ UNCHANGED <<state, name, total, misplaced, box, button, player, process, other>>

Hide ==
  /\ Key("active", "exit") /\ Playing
  /\ CutSaveToBM /\ CutFileSave
  /\ repeat' = oldRepeat /\ state' = "inactivePlaying" /\ Goto("strip")
  /\ UNCHANGED <<name, total, box, button, play, oldRepeat, process, other>>

Move(s, k, t) ==
  /\ Key(s, k) /\ state' = t /\ Goto("strip")
  /\ UNCHANGED <<name, total, unsaved, misplaced, box, button, player, process, other>>

OpenMenu == Playing /\ Move("active", "menu", "menu")

-----------------------------------------------------------------------------
(* ST_ActionMenu, ST_ActionSubMenu.                                        *)

LeaveMenu    == Move("menu", "exit", "active") \/ Move("submenu", "exit", "menu")
OpenSubMenu  == Playing /\ Move("menu", "submenu", "submenu")

\* An entry that asks first (AskBeforeEdit), such as MI_ClearAll.
ClearAsk ==
  /\ Key("menu", "clear") /\ Ask("sure?", "sure")
  /\ UNCHANGED <<osd, button, player, process, other>>
Clear ==
  /\ At("sure") /\ Yes /\ Playing
  /\ unsaved' = TRUE /\ state' = "active" /\ Goto("strip")
  /\ UNCHANGED <<name, total, misplaced, box, button, player, process, other>>
ClearNot ==
  /\ At("sure") /\ ~(Yes /\ Playing) /\ Goto("strip")
  /\ UNCHANGED <<osd, box, button, player, process, other>>

\* MI_RecStripCheckFS and the copy entries of the sub-menu: MovieCutter saves the
\* list, stops the playback and leaves the rest to the next idle event.
StartRecStrip ==
  /\ \/ Key("menu", "strip") /\ rs' = [rs EXCEPT !.active = TRUE, !.cut = FALSE]
     \/ Key("submenu", "copy") /\ Playing /\ rs' = [rs EXCEPT !.active = TRUE, !.cut = TRUE]
  /\ ~rs.active /\ runs < MaxRuns
  /\ CutSaveToBM /\ CutFileSave /\ play' = None
  /\ state' = "active" /\ Goto("strip")
  /\ UNCHANGED <<name, total, box, button, repeat, oldRepeat,
                 child, file, renameFailed, runs, other>>

CheckFS ==
  /\ Key("menu", "checkFS")
  /\ CutSaveToBM /\ CutFileSave /\ play' = None
  /\ state' = Resting /\ Cleanup /\ Goto("strip")
  /\ UNCHANGED <<name, box, button, repeat, oldRepeat, process, other>>

ExitMCAtOnce ==                                                   \* mutant
  /\ Key("menu", "exitMC") /\ state' = "exit" /\ Goto("strip")
  /\ UNCHANGED <<name, total, unsaved, misplaced, box, button, player, process, other>>
ExitMC ==
  /\ Key("menu", "exitMC")
  /\ IF rs.active
       THEN /\ state' = "active"
            /\ stack' = [stack EXCEPT ![Len(stack)] = [event |-> "stop", pc |-> "strip"]]
       ELSE state' = "exit" /\ Goto("strip")
  /\ UNCHANGED <<name, total, unsaved, misplaced, box, button, player, process, other>>

StateMachine ==
  \/ StillWaiting \/ Refuse \/ Repaired \/ Refused \/ Doubt \/ Declined \/ Accept
  \/ LetGo \/ Show \/ Activate \/ Ignore
  \/ PlaybackEnded \/ Edit \/ Hide \/ OpenMenu
  \/ LeaveMenu \/ OpenSubMenu \/ ClearAsk \/ Clear \/ ClearNot
  \/ StartRecStrip \/ CheckFS \/ ExitMC

-----------------------------------------------------------------------------
(* The driver of RecStrip, run after the state machine in each activation. *)

NoStrip ==
  /\ At("strip")
  /\ \/ ~rs.active
     \/ Top.event \notin {"idle", "sleep", "stop"}
  /\ Goto("exit")
  /\ UNCHANGED <<osd, box, button, player, process, other>>

\* The recording is remembered: another one may be played before RecStrip ends.
RSNames   == [rs EXCEPT !.rec = name]

\* INIT: a child process that writes _strip.
Fork ==
  /\ At("strip") /\ rs.active /\ Top.event = "idle" /\ child = "none"
  /\ child' = "running" /\ runs' = runs + 1
  /\ rs' = RSNames
  /\ file' = IF rs.cut \/ file[name].main = None THEN file ELSE
             [file EXCEPT ![name].strip = "partial"]
  /\ Goto("exit")
  /\ UNCHANGED <<osd, box, button, player, renameFailed, other>>

\* waitpid(RecStrip_Pid, &status, WNOHANG).
ChildExited == child \in {"done", "error"}                          \* mutant
ChildEnded  == child \in {"done", "error", "dead"}
EndedAnyhow == child \in {"done", "dead"}                           \* mutant
Succeeded   == child = "done"                   \* WIFEXITED and status 0

\* WAIT.
Wait ==
  /\ At("strip") /\ rs.active /\ Top.event = "idle" /\ child # "none" /\ ~ChildEnded
  /\ Goto("exit")
  /\ UNCHANGED <<osd, box, button, player, process, other>>

\* HDD_Rename2 replaces a file that has the new name; it can fail.
RenameResults == IF "rename" \in Faults THEN BOOLEAN ELSE {TRUE}
Renamed(fs, from, to, ok) ==
  IF ok /\ fs[from] # None THEN [fs EXCEPT ![to] = fs[from], ![from] = None] ELSE fs

\* The original becomes _bak and _strip takes its name; neither result is looked at.
Swapped(fs, ok1, ok2) == Renamed(Renamed(fs, "main", "bak", ok1), "strip", "main", ok2)

\* FINISHED: a dialog that is open is closed with the exit key.
FinishLate(silent) ==                                             \* mutant
  /\ UNCHANGED rs
  /\ button' = IF box = None THEN button ELSE [q |-> box, press |-> "exit"]
  /\ IF silent THEN box' = None /\ Goto("exit") ELSE Ask("result", "told")
  /\ child' = "none"
  /\ UNCHANGED <<osd, player, other>>
Finish(silent) ==
  /\ rs' = [rs EXCEPT !.active = FALSE, !.cut = FALSE, !.rec = None]
  /\ button' = IF box = None THEN button ELSE [q |-> box, press |-> "exit"]
  /\ IF silent THEN box' = None /\ Goto("exit") ELSE Ask("result", "told")
  /\ child' = "none"
  /\ UNCHANGED <<osd, player, other>>

ForkFailed ==
  /\ "fork" \in Faults /\ At("strip") /\ rs.active /\ Top.event = "idle" /\ child = "none"
  /\ runs' = runs + 1 /\ Finish(TRUE)
  /\ UNCHANGED <<file, renameFailed>>

Finished ==
  /\ At("strip") /\ rs.active /\ Top.event = "idle" /\ ChildEnded
  /\ IF Succeeded /\ ~rs.cut
       THEN \E ok1, ok2 \in RenameResults :
              /\ file' = [file EXCEPT ![rs.rec] = Swapped(file[rs.rec], ok1, ok2)]
              /\ renameFailed' = (renameFailed \/ ~ok1 \/ ~ok2)
       ELSE UNCHANGED <<file, renameFailed>>
  /\ Finish(rs.shutdown \/ child = "dead")
  /\ UNCHANGED runs

\* kill(RecStrip_Pid, SIGKILL).
NotKilled == child                                                \* mutant
Killed == IF child = "running" THEN "dying" ELSE child

AbortAsk ==
  /\ At("strip") /\ rs.active /\ Top.event = "sleep"
  /\ IF child # "none" THEN Ask("abort?", "abort") ELSE Goto("exit") /\ UNCHANGED box
  /\ UNCHANGED <<osd, button, player, process, other>>
\* The success message of a RecStrip that has ended meanwhile answers this question, too.
Abort ==
  /\ At("abort") /\ Goto("exit")
  /\ child' = IF Yes /\ child # "none" THEN Killed ELSE child
  /\ UNCHANGED <<osd, box, button, player, rs, file, renameFailed, runs, other>>

\* EVT_STOP: RecStrip is killed and waited for before MovieCutter ends.
StopAsk ==
  /\ At("strip") /\ rs.active /\ Top.event = "stop" /\ child # "none"
  /\ rs' = [rs EXCEPT !.shutdown = TRUE] /\ Ask("stopping", "stopping")
  /\ UNCHANGED <<osd, button, player, child, file, renameFailed, runs, other>>
\* TAP_EventHandler(EVT_IDLE, 0, 0).
KillLoop ==
  /\ At("stopping") /\ child # "none"
  /\ child' = Killed /\ stack' = Append(stack, [event |-> "idle", pc |-> "strip"])
  /\ UNCHANGED <<osd, box, button, player, rs, file, renameFailed, runs, other>>
StopNow ==
  /\ \/ At("strip") /\ rs.active /\ Top.event = "stop" /\ child = "none"
     \/ At("stopping") /\ child = "none"
  /\ rs' = [rs EXCEPT !.shutdown = TRUE]
  /\ state' = Leaving(state) /\ Goto("exit")
  /\ UNCHANGED <<name, total, unsaved, misplaced, box, button, player,
                 child, file, renameFailed, runs, other>>

\* The user has closed the message about the result.
Told ==
  /\ At("told") /\ Goto("exit")
  /\ UNCHANGED <<osd, box, button, player, process, other>>

Driver == \/ NoStrip \/ Fork \/ Wait \/ ForkFailed \/ Finished
          \/ AbortAsk \/ Abort \/ StopAsk \/ KillLoop \/ StopNow \/ Told

(* The process itself goes on at any time.                                 *)
ChildDone ==
  /\ child = "running" /\ ~ended
  /\ IF rs.cut THEN UNCHANGED file
     ELSE /\ file[rs.rec].main # None /\ file[rs.rec].strip # None
          /\ file' = [file EXCEPT ![rs.rec].strip = "stripped"]
  /\ child' = "done"
  /\ UNCHANGED <<osd, stack, box, button, player, rs, renameFailed, runs, other>>
ChildFails ==
  /\ "strip" \in Faults /\ child = "running" /\ ~ended /\ child' = "error"
  /\ UNCHANGED <<osd, stack, box, button, player, rs, file, renameFailed, runs, other>>
ChildDies ==
  /\ child = "dying" /\ ~ended /\ child' = "dead"
  /\ UNCHANGED <<osd, stack, box, button, player, rs, file, renameFailed, runs, other>>

-----------------------------------------------------------------------------
(* The end of an activation and of MovieCutter.                            *)

Return ==
  /\ At("exit") /\ state \notin {"exit", "exitNoSave"}
  /\ stack' = Front(stack)
  /\ button' = IF Len(stack) = 1 THEN NoAnswer ELSE button   \* read after a dialog only
  /\ UNCHANGED <<osd, box, player, process, other>>

NotGivenBack == repeat                                            \* mutant
RepeatAtExit == IF Playing THEN oldRepeat ELSE repeat
Exit ==
  /\ At("exit") /\ state \in {"exit", "exitNoSave"}
  /\ IF state = "exit" /\ total > 0
       THEN /\ CutFileSave
            /\ IF Playing /\ total = Size(play) THEN CutSaveToBM ELSE UNCHANGED misplaced
       ELSE UNCHANGED <<unsaved, misplaced>>
  /\ repeat' = RepeatAtExit
  /\ Cleanup /\ ended' = TRUE
  /\ UNCHANGED <<state, name, stack, box, button, play, oldRepeat, process, AutoOSDPolicy>>

Handler == StateMachine \/ Driver \/ Return \/ Exit

Events == {"idle", "stop", "tmsStart", "tmsStop"} \cup KeysIn(state)

Next ==
  \/ \E e \in Events : Deliver(e)
  \/ \E p \in {"yes", "exit"} : Answer(p)
  \/ \E r \in Recs : StartPlay(r)
  \/ EndPlay
  \/ Handler
  \/ ChildDone \/ ChildFails \/ ChildDies

\* The handler runs on, a killed process dies, a dialog is answered some time, and
\* idle events come again and again.
Fairness ==
  /\ WF_vars(Handler) /\ WF_vars(ChildDies)
  /\ SF_vars(\E p \in {"yes", "exit"} : Answer(p))
  /\ SF_vars(Deliver("idle"))

Spec == Init /\ [][Next]_vars /\ Fairness

-----------------------------------------------------------------------------
(* Properties.                                                             *)

TypeOK ==
  /\ state \in {"wait", "unaccepted", "inactive", "inactivePlaying", "active", "menu",
                "submenu", "exit", "exitNoSave"}
  /\ Len(stack) <= MaxDepth + 1
  /\ play = None \/ (play.rec \in Recs /\ play.form \in Forms)
  /\ {repeat, oldRepeat} \subseteq {"own", "forced", "older"}
  /\ name \in Recs \cup {None} /\ total \in Nat
  /\ unsaved \in BOOLEAN /\ renameFailed \in BOOLEAN /\ misplaced \in BOOLEAN
  /\ ended \in BOOLEAN
  /\ child \in {"none", "running", "dying", "done", "error", "dead"}
  /\ file \in [Recs -> [{"main", "strip", "bak"} -> Forms \cup {None}]]
  /\ runs \in 0 .. MaxRuns
  /\ child # "none" => rs.rec \in Recs

\* The segments on the screen are those of the recording on the screen, and a
\* recording's bookmark area holds its own segments: however the user goes from one
\* recording to the next while the OSD is hidden (ST_InactiveModePlaying).
ListOfThePlayed ==
  /\ Shown /\ Playing => name = play.rec
  /\ ~misplaced

\* No way out of the OSD forgets edits: hiding, a playback that ends, stripping,
\* the file-system check, EVT_STOP, TMSCommander, with or without a dialog open.
EditsKept == unsaved => total > 0 /\ (Shown \/ state = "exit") /\ ~ended

\* Every way out of the OSD gives back the repeat mode the user has chosen
\* (OldRepeatMode), also where a recording is not accepted, and the end of MovieCutter
\* never leaves the forced one.  What it leaves may be a mode of an earlier playback: the
\* exit (2597) restores OldRepeatMode also if this playback was never attached.
RepeatGivenBack ==
  Playing /\ ~Shown /\ (stack = <<>> \/ ended) =>
    repeat = "own" \/ (ended /\ oldRepeat = "older" /\ repeat = "older")
\* The exit changes nothing of a playback that was not attached.
OwnModeAtExit == Playing /\ ended => repeat = "own"

\* "Während RecStrip im Hintergrund arbeitet, bleibt MC bedienbar" (history.txt):
\* whatever happens meanwhile, a complete version of each recording is left, and
\* the one under its own name is complete.  "A backup copy of the original recording
\* is stored" (Readme_en.txt), where the renames succeed.
BackupKept ==
  ~renameFailed => \A r \in Recs : /\ file[r].main # None
                                   /\ file[r].main = "stripped" => file[r].bak # None
RecordingsKept ==
  /\ TypeOK /\ BackupKept
  /\ \A r \in Recs : /\ file[r].main \in {"full", "stripped", None}
                     /\ \E f \in {"main", "bak"} : file[r][f] \in {"full", "stripped"}

\* "Herunterfahren während des Stripping-Prozesses wird abgefangen" (history.txt):
\* unless TMSCommander stops it, MovieCutter does not end before RecStrip.
NoOrphan == ended /\ Top.event # "tmsStop" => child = "none"

\* RecStrip is killed only after its own question has been answered with yes, or
\* after the notice that the receiver is being shut down.
KilledOnRequest ==
  [][child = "running" /\ child' = "dying" =>
       \/ button = [q |-> "abort?", press |-> "yes"]
       \/ button.q = "stopping"]_vars

\* "Die Funktion zeigt eine Bestätigungsfrage (Ja/Nein) an, und wartet auf die
\* Bestätigung des Benutzers" (ShowConfirmationDialog): what was asked about is done
\* only when this very question was answered with yes.
DoneWhenConfirmed ==
  [][Clear => button = [q |-> "sure?", press |-> "yes"]]_vars

\* "Herunterfahren während des Stripping-Prozesses wird abgefangen": the receiver is
\* not kept on for ever.  Once MovieCutter has taken up a stop it ends, whatever
\* dialogs are open and however often the stop is repeated: the loop that kills
\* RecStrip and calls itself comes to its end.
Stopping == state \in {"exit", "exitNoSave"} \/ \E k \in DOMAIN stack : stack[k].pc = "stopping"
Stops    == Stopping ~> ended

\* A RecStrip that has ended is noticed while MovieCutter runs.
Noticed == child \in {"dying", "done", "error", "dead"} ~> child = "none" \/ ended
=============================================================================
