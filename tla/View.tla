--------------------------------- MODULE View ---------------------------------
(***************************************************************************)
(* What the user does to the control with mouse, wheel and keyboard, and   *)
(* the scrollback it does it to: the viewport in the terminal, the copy of *)
(* its position that the control keeps between frames, selection and       *)
(* scrollbar drags, and the button reports to a shell that tracks the      *)
(* mouse.  Frames and their messages are those of Control; here a frame is *)
(* a flag.  The message loop takes posted messages before input and timers.*)
(***************************************************************************)
EXTENDS Integers, FiniteSets

CONSTANTS
  Rows,           \* lines of the viewport
  WheelLines,     \* CWheelLines, 3 in the code
  MaxHist         \* bound: lines of scrollback

ASSUME ViewAssumption == {Rows, WheelLines, MaxHist} \subseteq Nat \ {0}

VARIABLES
  \* the terminal
  hist, off,   \* history_size, display_offset
  marked,      \* a selection exists
  track,       \* mouse mode of the shell: "off", "click", "drag", "motion"
  vi,          \* VI navigation mode
  \* the control
  scrollMax, scrollOff,  \* FScrollMax, FScrollOffset
  selecting,   \* FSelectingDrag
  thumb,       \* FScrollDraggingThumb
  timer, dir,  \* FAutoScrollTimer.Enabled, FAutoScrollDir
  match,       \* viewport row of the search highlight, or NoMatch
  searched,    \* history: the viewport was moved by a search, and the
               \* control has not read its position since
  \* around it
  dirty,       \* the pump has changed the terminal and not yet drawn it
  frame,       \* a WM_RATA_RENDER is queued
  held,        \* buttons down
  reported,    \* buttons the shell takes to be down
  captured,    \* MouseCapture: the mouse is the control's wherever it is
  astray,      \* history: a release was reported while a drag was on, and one
               \* is on since
  loose        \* history: buttons that were down together with another or were
               \* released over the scrollbar, since a press of theirs was
               \* reported alone

mouseVars == <<held, reported, captured, astray, loose>>
vars == <<hist, off, marked, track, vi, scrollMax, scrollOff, selecting, thumb,
          timer, dir, match, searched, dirty, frame, mouseVars>>
termVars == <<hist, off, marked, track, vi>>
dragVars == <<selecting, thumb, timer, dir>>
infoVars == <<scrollMax, scrollOff, searched>>

Buttons == {"left", "right"}
Modes   == {"off", "click", "drag", "motion"}
Over    == {"canvas", "bar"}                   \* within the control
Places  == Over \cup {"above", "below"}
NoMatch == -1

TypeOK ==
  /\ hist \in 0..MaxHist /\ off \in 0..hist /\ marked \in BOOLEAN
  /\ track \in Modes /\ vi \in BOOLEAN
  /\ scrollMax \in 0..MaxHist /\ scrollOff \in 0..MaxHist
  /\ selecting \in BOOLEAN /\ thumb \in BOOLEAN
  /\ timer \in BOOLEAN /\ dir \in -1..1
  /\ match \in NoMatch..(Rows - 1) /\ searched \in BOOLEAN
  /\ dirty \in BOOLEAN /\ frame \in BOOLEAN
  /\ held \subseteq Buttons /\ reported \subseteq Buttons
  /\ captured \in BOOLEAN /\ astray \in BOOLEAN /\ loose \subseteq Buttons

Init ==
  /\ hist = 0 /\ off = 0 /\ marked = FALSE /\ track = "off" /\ vi = FALSE
  /\ scrollMax = 0 /\ scrollOff = 0 /\ selecting = FALSE /\ thumb = FALSE
  /\ timer = FALSE /\ dir = 0 /\ match = NoMatch /\ searched = FALSE
  /\ dirty = FALSE /\ frame = FALSE /\ held = {} /\ reported = {}
  /\ captured = FALSE /\ astray = FALSE /\ loose = {}

-----------------------------------------------------------------------------
(* The terminal and its frames.                                            *)

(* Mutant: the viewport is moved by what it is told.                       *)
Clamped_Not(n) == n

Clamped(n) == IF n < 0 THEN 0 ELSE IF n > hist THEN hist ELSE n

(* The pump parses: output adds a line, and a viewport that is not at the  *)
(* live edge stays with the lines it shows; or output clears the history.  *)
ShellWrites ==
  /\ \/ hist < MaxHist /\ hist' = hist + 1
        /\ off' = IF off = 0 THEN 0 ELSE off + 1
     \/ hist' = 0 /\ off' = 0
  /\ dirty' = TRUE
  /\ UNCHANGED <<marked, track, vi, infoVars, dragVars, match, frame,
                 mouseVars>>

(* At any time; a shell that tracks no more does not care for the buttons. *)
ShellTracks ==
  /\ track' \in Modes \ {track}
  /\ reported' = IF track' = "off" THEN {} ELSE reported
  /\ dirty' = TRUE
  /\ UNCHANGED <<hist, off, marked, vi, infoVars, dragVars, match, frame, held,
                 captured, astray, loose>>

(* The frame that shows it is taken and its message posted.                *)
PumpRenders ==
  /\ dirty /\ dirty' = FALSE /\ frame' = TRUE
  /\ UNCHANGED <<termVars, infoVars, dragVars, match, mouseVars>>

(* Mutant: the offset is read back only while it is cached as nonzero.     *)
UpdateScrollInfo_Sticky ==
  /\ scrollOff' = IF scrollOff = 0 THEN 0 ELSE off'
  /\ scrollMax' = hist' /\ searched' = FALSE

UpdateScrollInfo == scrollOff' = off' /\ scrollMax' = hist' /\ searched' = FALSE

(* HandleRenderMessage.                                                    *)
HandleRender ==
  /\ frame /\ frame' = FALSE
  /\ UNCHANGED termVars
  /\ UpdateScrollInfo
  /\ UNCHANGED <<dragVars, match, dirty, mouseVars>>

(* rata_session_scroll* and what the control does after it; the terminal's *)
(* own request_render queues a frame.                                      *)
ScrollTo(n) ==
  /\ off' = Clamped(n) /\ frame' = TRUE
  /\ UNCHANGED <<hist, marked, track, vi>>

ScrollByLines(n) == IF n = 0 THEN UNCHANGED <<termVars, infoVars, frame>>
                    ELSE ScrollTo(off + n) /\ UpdateScrollInfo

Input == ~frame   \* no posted message is waiting

-----------------------------------------------------------------------------
(* The mouse.                                                              *)

Tracking == track # "off"

DragOn == selecting \/ thumb

(* The thumb is grabbed, or the track is clicked above or below it.        *)
TrackOrThumb ==
  \/ thumb' = TRUE /\ UNCHANGED <<termVars, infoVars, frame>>
  \/ ScrollByLines(Rows) /\ UNCHANGED thumb
  \/ ScrollByLines(-Rows) /\ UNCHANGED thumb

(* Mutant: a reported press takes no capture of its own.                   *)
Captures_LeftOnly(b, told) == b = "left"

(* The VCL captures for the left button of a csCaptureMouse control,       *)
(* MouseDown for every button it reports.                                  *)
Captures(b, told) == b = "left" \/ told

(* A press over the canvas is reported while the shell tracks the mouse;   *)
(* otherwise the left button selects.  With Ctrl it may open a link, and   *)
(* nothing else happens.                                                   *)
MouseDown(b, p) ==
  /\ Input /\ b \notin held /\ p \in Over
  /\ held' = held \cup {b}
  /\ \/ /\ Tracking /\ p = "canvas"
        /\ reported' = reported \cup {b}
        /\ captured' = (captured \/ Captures(b, TRUE))
        /\ loose' = IF held = {} THEN loose \ {b} ELSE loose \cup held'
        /\ UNCHANGED <<termVars, infoVars, dragVars, frame>>
     \/ /\ \/ /\ ~Tracking /\ p = "canvas" /\ b = "left"
              /\ marked' = TRUE /\ selecting' = TRUE /\ frame' = TRUE
              /\ UNCHANGED <<hist, off, track, vi, infoVars, thumb, timer, dir>>
           \/ /\ p = "bar" /\ b = "left" /\ scrollMax # 0
              /\ TrackOrThumb
              /\ UNCHANGED <<selecting, timer, dir>>
           \/ /\ \/ p = "canvas" /\ (b = "left" \/ ~Tracking)
                 \/ p = "bar" /\ (b # "left" \/ scrollMax = 0)
              /\ UNCHANGED <<termVars, infoVars, dragVars, frame>>
        /\ captured' = (captured \/ Captures(b, FALSE))
        /\ loose' = IF held = {} THEN loose ELSE loose \cup held'
        /\ UNCHANGED reported
  /\ UNCHANGED <<match, dirty, astray>>

(* A move that is reported does nothing else; otherwise it extends the     *)
(* selection, with auto-scroll beyond the edges, or drags the thumb to the *)
(* offset it stands for.                                                   *)
MouseMove(p) ==
  /\ Input /\ (p \in Over \/ captured)
  /\ p # "bar" => /\ track # "motion"
                  /\ track # "drag" \/ held = {}
  /\ \/ /\ selecting
        /\ marked' = TRUE /\ frame' = TRUE
        /\ dir' = IF p = "above" THEN -1 ELSE IF p = "below" THEN 1 ELSE 0
        /\ timer' = (dir' # 0)
        /\ UNCHANGED <<hist, off, track, vi, infoVars, selecting, thumb>>
     \/ /\ ~selecting /\ thumb
        /\ \E n \in 0..scrollMax : ScrollByLines(n - scrollOff)
        /\ UNCHANGED dragVars
  /\ UNCHANGED <<match, dirty, mouseVars>>

(* Mutant: the button is up for the control, the drag goes on.             *)
DragOver_Keeps == UNCHANGED <<dragVars, astray>>

Released(b) == reported \ {b}

(* One release ends one drag, a selection before the thumb, whichever      *)
(* button it is of.                                                        *)
DragOver ==
  /\ IF selecting
     THEN selecting' = FALSE /\ timer' = FALSE /\ dir' = 0 /\ UNCHANGED thumb
     ELSE thumb' = FALSE /\ UNCHANGED <<selecting, timer, dir>>
  /\ astray' = (astray /\ (selecting' \/ thumb'))

(* Over the canvas, beyond its edges included, a release is only reported  *)
(* while the shell tracks the mouse; over the scrollbar it never is.  The  *)
(* capture goes with the left button (VCL) and with a release that is      *)
(* reported or ends a drag, whatever else is held.                         *)
MouseUp(b, p) ==
  /\ Input /\ b \in held /\ (p \in Over \/ captured)
  /\ held' = held \ {b}
  /\ loose' = IF p = "bar" THEN loose \cup {b} ELSE loose
  /\ IF Tracking /\ p # "bar"
     THEN /\ reported' = Released(b) /\ astray' = (astray \/ DragOn)
          /\ captured' = FALSE
          /\ UNCHANGED dragVars
     ELSE /\ DragOver
          /\ captured' = (captured /\ b # "left" /\ ~DragOn)
          /\ UNCHANGED reported
  /\ UNCHANGED <<termVars, infoVars, match, dirty, frame>>

(* A button that is let go outside the control without its capture: the    *)
(* control does not hear of it.                                            *)
ReleasedElsewhere(b) ==
  /\ b \in held /\ ~captured
  /\ held' = held \ {b}
  /\ UNCHANGED <<termVars, infoVars, dragVars, match, dirty, frame, reported,
                 captured, astray, loose>>

Wheel ==
  /\ Input /\ ~Tracking
  /\ ScrollByLines(WheelLines) \/ ScrollByLines(-WheelLines)
  /\ UNCHANGED <<dragVars, match, dirty, mouseVars>>

Scrolling == selecting /\ dir # 0

(* 50 ms: a line further and the selection after it, or the timer stops.   *)
AutoScrollTick ==
  /\ Input /\ timer
  /\ IF Scrolling
     THEN /\ off' = Clamped(off - dir)
          /\ marked' = TRUE /\ frame' = TRUE
          /\ UNCHANGED <<hist, track, vi, timer>>
          /\ UpdateScrollInfo
     ELSE timer' = FALSE /\ UNCHANGED <<termVars, infoVars, frame>>
  /\ UNCHANGED <<selecting, thumb, dir, match, dirty, mouseVars>>

-----------------------------------------------------------------------------
(* Keyboard and the API.                                                   *)

(* SendText, the IME and the keys of WMKeyDown; in VI mode the keys are    *)
(* motions, the others send all the same.                                  *)
TypeText ==
  /\ Input
  /\ off' = IF scrollOff > 0 THEN 0 ELSE off
  /\ marked' = FALSE /\ frame' = TRUE
  /\ UNCHANGED <<hist, track, vi, infoVars, dragVars, match, dirty, mouseVars>>

ToggleVi ==
  /\ Input
  /\ vi' = ~vi /\ frame' = TRUE
  /\ UNCHANGED <<hist, off, marked, track, infoVars, dragVars, match, dirty,
                 mouseVars>>

(* A motion takes the viewport along; PageUp and PageDown move it.         *)
ViMotion ==
  /\ Input /\ vi
  /\ \E n \in {-Rows, -1, 1, Rows} : ScrollTo(off + n)
  /\ UNCHANGED <<infoVars, dragVars, match, dirty, mouseVars>>

ScrollToEnd ==
  /\ Input
  /\ \E n \in {0, hist} : ScrollTo(n)
  /\ UpdateScrollInfo
  /\ UNCHANGED <<dragVars, match, dirty, mouseVars>>

ClearHistory ==
  /\ Input
  /\ hist' = 0 /\ off' = 0 /\ frame' = TRUE
  /\ UpdateScrollInfo
  /\ UNCHANGED <<marked, track, vi, dragVars, match, dirty, mouseVars>>

(* SoftReset: RIS, which VI mode survives; the position is not read back.  *)
SoftReset ==
  /\ Input
  /\ hist' = 0 /\ off' = 0 /\ marked' = FALSE /\ track' = "off"
  /\ frame' = TRUE /\ reported' = {}
  /\ UNCHANGED <<vi, infoVars, dragVars, match, dirty, held, captured, astray,
                 loose>>

(* The offset at which a grid line, negative in the scrollback, is within  *)
(* the viewport: the nearest to the present one.                           *)
Reaching(l) == IF l < -off THEN -l
               ELSE IF l > Rows - 1 - off THEN Rows - 1 - l ELSE off

Row(l) == l + Clamped(Reaching(l))   \* where it is then

(* SearchAgain: search_next moves the viewport to the hit, wherever the    *)
(* pattern is found, and asks for no frame.                                *)
SearchAgain ==
  /\ Input
  /\ \/ /\ \E l \in -hist..(Rows - 1) :
             /\ off' = Clamped(Reaching(l))
             /\ match' = IF Row(l) \in 0..(Rows - 1) THEN Row(l) ELSE NoMatch
        /\ searched' = (searched \/ off' # off)
        /\ UNCHANGED <<hist, marked, track, vi>>
     \/ match' = NoMatch /\ UNCHANGED <<termVars, searched>>
  /\ UNCHANGED <<scrollMax, scrollOff, dragVars, dirty, frame, mouseVars>>

-----------------------------------------------------------------------------

Next == \/ ShellWrites \/ ShellTracks \/ PumpRenders \/ HandleRender
        \/ \E b \in Buttons, p \in Places : MouseDown(b, p) \/ MouseUp(b, p)
        \/ \E b \in Buttons : ReleasedElsewhere(b)
        \/ \E p \in Places : MouseMove(p)
        \/ Wheel \/ AutoScrollTick \/ TypeText \/ ToggleVi \/ ViMotion
        \/ ScrollToEnd \/ ClearHistory \/ SoftReset \/ SearchAgain

Spec == Init /\ [][Next]_vars

-----------------------------------------------------------------------------
(* Properties.                                                             *)

(* With no frame on its way the control's copy of the scroll position is   *)
(* the terminal's, unless a search has just moved the viewport: the thumb, *)
(* the arithmetic of its drag and the decision to return to the live edge  *)
(* all rest on it (Ctrl.pas 1369, 1905).                                   *)
InfoTrue == ~frame /\ ~dirty => scrollMax = hist /\ (searched \/ scrollOff = off)

(* Typing brings the viewport back to the live edge and drops the          *)
(* selection (Ctrl.pas 1364-1372, DEVELOPER_GUIDE 3.2).  After a search it *)
(* does not.                                                               *)
TypingReturns == [][TypeText => off' = 0 /\ ~marked']_vars

(* A selection or thumb drag outlives the press that began it only after a *)
(* release was handled as a report while it was on: a mouse that passes    *)
(* over the control with no button down selects and scrolls nothing        *)
(* (Ctrl.pas 1937-1969).                                                   *)
DragEnds == "left" \notin held /\ DragOn => astray

(* What 06-ui.md 177 says of a selection, left button down, move, up, and  *)
(* of every drag: it ends with the button.                                 *)
DragEndsAlways == "left" \notin held => ~DragOn

(* The shell holds a button for down that is up only when it was down      *)
(* together with another or was let go over the scrollbar: a button alone  *)
(* is reported up wherever else it is released, outside the window too     *)
(* (Ctrl.pas 515-536, 1937-1950).                                          *)
ButtonsPaired == reported \subseteq held \cup loose

(* What DEVELOPER_GUIDE.md 272-277 says: with tracking, down and up are    *)
(* sent.                                                                   *)
ReleasesReported == reported \subseteq held
=============================================================================
