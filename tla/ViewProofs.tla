------------------------------ MODULE ViewProofs ------------------------------
(***************************************************************************)
(* Drags, reports and the control's copy of the scroll position, for every *)
(* size of screen, wheel and scrollback.                                   *)
(***************************************************************************)
EXTENDS View, TLAPS

(* A drag that no report has crossed is one drag, of a left button that is *)
(* down and has the mouse captured.                                        *)
OneDrag == DragOn /\ ~astray => "left" \in held /\ captured /\ ~(selecting /\ thumb)

(* A button that is not loose is down alone, and when it is reported it has*)
(* the mouse captured.                                                     *)
OnePress ==
  /\ \A b \in Buttons : b \in held /\ b \notin loose => held = {b}
  /\ \A b \in Buttons : b \in reported /\ b \notin loose => b \in held /\ captured
  /\ reported # {} => Tracking

(* The offset stays within the scrollback, however it is moved.            *)
LEMMA Within ==
  ASSUME TypeOK
  PROVE  /\ \A n \in Int : Clamped(n) \in 0..hist
         /\ {hist, off, scrollMax, scrollOff, Rows, WheelLines, MaxHist} \subseteq Nat
         /\ 0..hist \subseteq 0..MaxHist
<1>1. MaxHist \in Nat /\ hist \in 0..MaxHist /\ Rows \in Nat /\ WheelLines \in Nat
  BY ViewAssumption DEF TypeOK
<1>. QED
  BY <1>1 DEF TypeOK, Clamped

(* A scroll, and what the control reads back after it.                     *)
LEMMA ScrollKeeps ==
  ASSUME TypeOK, NEW n \in Int, ScrollByLines(n)
  PROVE  /\ hist' = hist /\ marked' = marked /\ track' = track /\ vi' = vi
         /\ off' \in 0..hist /\ scrollMax' \in 0..MaxHist /\ scrollOff' \in 0..MaxHist
         /\ searched' \in BOOLEAN /\ frame' \in BOOLEAN
         /\ InfoTrue /\ dirty' = dirty => InfoTrue'
<1>1. CASE n = 0
  BY <1>1 DEF ScrollByLines, termVars, infoVars, TypeOK, InfoTrue
<1>2. CASE n # 0
  <2>1. off + n \in Int
    BY Within
  <2>2. /\ off' = Clamped(off + n) /\ frame' = TRUE /\ UNCHANGED <<hist, marked, track, vi>>
        /\ scrollOff' = off' /\ scrollMax' = hist' /\ searched' = FALSE
    BY <1>2 DEF ScrollByLines, ScrollTo, UpdateScrollInfo
  <2>3. off' \in 0..hist /\ off' \in 0..MaxHist /\ hist \in 0..MaxHist
    BY <2>1, <2>2, Within DEF TypeOK
  <2>4. InfoTrue'
    BY <2>2 DEF InfoTrue
  <2>. QED
    BY <2>2, <2>3, <2>4
<1>. QED
  BY <1>1, <1>2

(* What a scroll leaves of the types.                                      *)
TermOK  == /\ hist \in 0..MaxHist /\ off \in 0..hist /\ marked \in BOOLEAN
           /\ track \in Modes /\ vi \in BOOLEAN
InfoOK  == /\ scrollMax \in 0..MaxHist /\ scrollOff \in 0..MaxHist
           /\ searched \in BOOLEAN

LEMMA Begins == Init => TypeOK /\ InfoTrue /\ OneDrag /\ OnePress
<1>1. Rows \in Nat /\ MaxHist \in Nat
  BY ViewAssumption
<1>2. Init => /\ marked \in BOOLEAN /\ vi \in BOOLEAN /\ searched \in BOOLEAN
              /\ selecting \in BOOLEAN /\ thumb \in BOOLEAN /\ timer \in BOOLEAN
              /\ dirty \in BOOLEAN /\ frame \in BOOLEAN
              /\ captured \in BOOLEAN /\ astray \in BOOLEAN
  BY Zenon DEF Init
<1>3. Init => /\ hist = 0 /\ off = 0 /\ scrollMax = 0 /\ scrollOff = 0
              /\ dir = 0 /\ match = -1 /\ track \in Modes
              /\ held = {} /\ reported = {} /\ loose = {}
  BY DEF Init, NoMatch, Modes
<1>4. 0 \in 0..MaxHist /\ 0 \in 0..0 /\ 0 \in -1..1 /\ -1 \in -1..(Rows - 1)
  BY <1>1
<1>5. Init => TypeOK
  BY <1>2, <1>3, <1>4, Zenon DEF TypeOK, NoMatch
<1>7. Init => InfoTrue
  BY DEF Init, InfoTrue
<1>8. Init => OneDrag /\ OnePress
  BY DEF Init, OneDrag, OnePress, DragOn
<1>. QED
  BY <1>5, <1>7, <1>8

-----------------------------------------------------------------------------
(* Types.                                                                  *)

(* The actions of the terminal and of the keyboard.                        *)
LEMMA TermSteps ==
  ASSUME TypeOK,
         \/ ShellWrites \/ ShellTracks \/ PumpRenders \/ HandleRender
         \/ TypeText \/ ToggleVi \/ ViMotion \/ ScrollToEnd \/ ClearHistory
         \/ SoftReset
  PROVE  TypeOK'
<1>1. CASE ShellWrites
  <2>1. hist' \in 0..MaxHist /\ off' \in 0..hist'
    <3>1. CASE hist < MaxHist /\ hist' = hist + 1 /\ off' = IF off = 0 THEN 0 ELSE off + 1
      BY <3>1, Within DEF TypeOK
    <3>2. CASE hist' = 0 /\ off' = 0
      BY <3>2, Within
    <3>. QED
      BY <1>1, <3>1, <3>2 DEF ShellWrites
  <2>. QED
    BY <1>1, <2>1 DEF ShellWrites, TypeOK, infoVars, dragVars, mouseVars
<1>2. CASE ShellTracks \/ PumpRenders
  BY <1>2, ZenonT(60)
     DEF ShellTracks, PumpRenders, TypeOK, termVars, infoVars, dragVars, mouseVars
<1>3. CASE HandleRender
  BY <1>3, Within, ZenonT(60)
     DEF HandleRender, UpdateScrollInfo, TypeOK, termVars, dragVars, mouseVars
<1>4. CASE TypeText \/ ToggleVi
  <2>1. CASE TypeText
    <3>1. off' \in 0..hist
      BY <2>1, Within DEF TypeText, TypeOK
    <3>. QED
      BY <2>1, <3>1 DEF TypeText, TypeOK, infoVars, dragVars, mouseVars
  <2>2. CASE ToggleVi
    <3>1. vi' \in BOOLEAN
      BY <2>2, Zenon DEF ToggleVi
    <3>. QED
      BY <2>2, <3>1 DEF ToggleVi, TypeOK, infoVars, dragVars, mouseVars
  <2>. QED
    BY <1>4, <2>1, <2>2
<1>5. CASE ViMotion
  <2>1. PICK n \in {-Rows, -1, 1, Rows} : ScrollTo(off + n)
    BY <1>5 DEF ViMotion
  <2>2. off' \in 0..hist
    BY <2>1, Within DEF ScrollTo
  <2>. QED
    BY <1>5, <2>1, <2>2 DEF ViMotion, ScrollTo, TypeOK, infoVars, dragVars, mouseVars
<1>6. CASE ScrollToEnd
  <2>1. PICK n \in {0, hist} : ScrollTo(n)
    BY <1>6 DEF ScrollToEnd
  <2>2. off' \in 0..hist
    BY <2>1, Within DEF ScrollTo
  <2>. QED
    BY <1>6, <2>1, <2>2, Within
       DEF ScrollToEnd, ScrollTo, UpdateScrollInfo, TypeOK, dragVars, mouseVars
<1>7. CASE ClearHistory \/ SoftReset
  <2>1. hist' \in 0..MaxHist /\ off' \in 0..hist' /\ 0 \in 0..MaxHist
        /\ hist' = 0 /\ off' = 0
    BY <1>7, Within DEF ClearHistory, SoftReset
  <2>2. CASE ClearHistory
    BY <2>1, <2>2 DEF ClearHistory, UpdateScrollInfo, TypeOK, dragVars, mouseVars
  <2>3. CASE SoftReset
    BY <2>1, <2>3 DEF SoftReset, TypeOK, Modes, infoVars, dragVars
  <2>. QED
    BY <1>7, <2>2, <2>3
<1>. QED
  BY <1>1, <1>2, <1>3, <1>4, <1>5, <1>6, <1>7

(* Both ways of a click on the scrollbar, and the drag of the thumb.       *)
LEMMA BarTypes ==
  ASSUME TypeOK, TrackOrThumb
  PROVE  TermOK' /\ InfoOK' /\ thumb' \in BOOLEAN /\ frame' \in BOOLEAN
<1>1. CASE thumb' = TRUE /\ UNCHANGED <<termVars, infoVars, frame>>
  BY <1>1 DEF TypeOK, TermOK, InfoOK, termVars, infoVars
<1>2. ASSUME NEW n \in {Rows, -Rows}, ScrollByLines(n), thumb' = thumb
      PROVE  TermOK' /\ InfoOK' /\ thumb' \in BOOLEAN /\ frame' \in BOOLEAN
  <2>1. n \in Int
    BY Within
  <2>. QED
    BY <1>2, <2>1, ScrollKeeps DEF TypeOK, TermOK, InfoOK
<1>. QED
  BY <1>1, <1>2 DEF TrackOrThumb

(* The buttons, as pressed and released by whom they are told to.          *)
MouseOK == /\ held \subseteq Buttons /\ reported \subseteq Buttons
           /\ loose \subseteq Buttons
           /\ captured \in BOOLEAN /\ astray \in BOOLEAN

LEMMA ButtonTypes ==
  ASSUME TypeOK, NEW b \in Buttons, NEW p \in Places,
         MouseDown(b, p) \/ MouseUp(b, p) \/ ReleasedElsewhere(b)
  PROVE  MouseOK'
<1>1. captured \in BOOLEAN /\ astray \in BOOLEAN
  BY DEF TypeOK
<1>2. CASE MouseDown(b, p)
  <2>1. held' \subseteq Buttons /\ reported' \subseteq Buttons /\ loose' \subseteq Buttons
    BY <1>2 DEF MouseDown, TypeOK
  <2>2. \/ captured' = (captured \/ Captures(b, TRUE))
        \/ captured' = (captured \/ Captures(b, FALSE))
    BY <1>2, Zenon DEF MouseDown
  <2>3. astray' = astray
    BY <1>2 DEF MouseDown
  <2>. QED
    BY <1>1, <2>1, <2>2, <2>3, Zenon DEF MouseOK
<1>3. CASE MouseUp(b, p)
  <2>1. held' \subseteq Buttons /\ reported' \subseteq Buttons /\ loose' \subseteq Buttons
    BY <1>3 DEF MouseUp, Released, TypeOK
  <2>2. \/ captured' = FALSE
        \/ captured' = (captured /\ b # "left" /\ ~DragOn)
    BY <1>3, Zenon DEF MouseUp
  <2>3. \/ astray' = (astray \/ DragOn)
        \/ astray' = (astray /\ (selecting' \/ thumb'))
    BY <1>3, Zenon DEF MouseUp, DragOver
  <2>. QED
    BY <1>1, <2>1, <2>2, <2>3, Zenon DEF MouseOK
<1>4. CASE ReleasedElsewhere(b)
  BY <1>4 DEF ReleasedElsewhere, TypeOK, MouseOK
<1>. QED
  BY <1>2, <1>3, <1>4

LEMMA MouseTypes ==
  ASSUME TypeOK,
         \/ \E b \in Buttons, p \in Places : MouseDown(b, p) \/ MouseUp(b, p)
         \/ \E b \in Buttons : ReleasedElsewhere(b)
         \/ \E p \in Places : MouseMove(p)
         \/ Wheel \/ AutoScrollTick \/ SearchAgain
  PROVE  TypeOK'
<1>1. ASSUME NEW b \in Buttons, NEW p \in Places, MouseDown(b, p)
      PROVE  TypeOK'
  <2>1. MouseOK' /\ match' = match /\ dirty' = dirty
    BY <1>1, ButtonTypes DEF MouseDown
  <2>2. CASE TrackOrThumb /\ UNCHANGED <<selecting, timer, dir>>
    BY <2>1, <2>2, BarTypes DEF TypeOK, TermOK, InfoOK, MouseOK
  <2>3. CASE UNCHANGED <<termVars, infoVars, dragVars, frame>>
    BY <2>1, <2>3 DEF TypeOK, MouseOK, termVars, infoVars, dragVars
  <2>4. CASE /\ marked' = TRUE /\ selecting' = TRUE /\ frame' = TRUE
             /\ UNCHANGED <<hist, off, track, vi, infoVars, thumb, timer, dir>>
    BY <2>1, <2>4 DEF TypeOK, MouseOK, infoVars
  <2>. QED
    BY <1>1, <2>2, <2>3, <2>4 DEF MouseDown
<1>2. ASSUME NEW b \in Buttons, NEW p \in Places, MouseUp(b, p)
      PROVE  TypeOK'
  <2>1. MouseOK' /\ UNCHANGED <<termVars, infoVars, match, dirty, frame>>
    BY <1>2, ButtonTypes DEF MouseUp
  <2>2. /\ selecting' \in BOOLEAN /\ thumb' \in BOOLEAN
        /\ timer' \in BOOLEAN /\ dir' \in -1..1
    <3>1. CASE dragVars' = dragVars
      BY <3>1 DEF dragVars, TypeOK
    <3>2. CASE DragOver
      <4>1. dir' \in {0, dir} /\ dir' \in -1..1
        BY <3>2 DEF DragOver, TypeOK
      <4>2. /\ selecting' \in {FALSE, selecting} /\ thumb' \in {FALSE, thumb}
            /\ timer' \in {FALSE, timer}
        BY <3>2 DEF DragOver
      <4>3. selecting \in BOOLEAN /\ thumb \in BOOLEAN /\ timer \in BOOLEAN
        BY DEF TypeOK
      <4>. QED
        BY <4>1, <4>2, <4>3, Zenon
    <3>. QED
      BY <1>2, <3>1, <3>2 DEF MouseUp
  <2>. QED
    BY <2>1, <2>2 DEF TypeOK, MouseOK, termVars, infoVars
<1>3. ASSUME NEW p \in Places, MouseMove(p)
      PROVE  TypeOK'
  <2>1. match' = match /\ dirty' = dirty /\ mouseVars' = mouseVars
    BY <1>3 DEF MouseMove
  <2>2. CASE selecting
    BY <1>3, <2>1, <2>2 DEF MouseMove, TypeOK, infoVars, mouseVars
  <2>3. CASE ~selecting
    <3>1. PICK n \in 0..scrollMax : ScrollByLines(n - scrollOff)
      BY <1>3, <2>3 DEF MouseMove
    <3>2. n - scrollOff \in Int
      BY Within
    <3>3. dragVars' = dragVars
      BY <1>3, <2>3 DEF MouseMove
    <3>. QED
      BY <2>1, <3>1, <3>2, <3>3, ScrollKeeps DEF TypeOK, dragVars, mouseVars
  <2>. QED
    BY <2>2, <2>3
<1>4. CASE Wheel
  <2>1. PICK n \in {WheelLines, -WheelLines} : ScrollByLines(n)
    BY <1>4 DEF Wheel
  <2>2. n \in Int
    BY Within
  <2>. QED
    BY <1>4, <2>1, <2>2, ScrollKeeps DEF Wheel, TypeOK, dragVars, mouseVars
<1>5. CASE AutoScrollTick
  <2>1. off - dir \in Int
    BY Within DEF TypeOK
  <2>. QED
    BY <1>5, <2>1, Within, ZenonT(60)
       DEF AutoScrollTick, UpdateScrollInfo, TypeOK, termVars, infoVars,
           mouseVars
<1>6. CASE SearchAgain
  <2>1. CASE match' = NoMatch /\ UNCHANGED <<termVars, searched>>
    BY <1>6, <2>1, Within DEF SearchAgain, TypeOK, NoMatch, termVars, dragVars, mouseVars
  <2>2. ASSUME NEW l \in -hist..(Rows - 1), off' = Clamped(Reaching(l)),
               match' = IF Row(l) \in 0..(Rows - 1) THEN Row(l) ELSE NoMatch,
               searched' = (searched \/ off' # off),
               UNCHANGED <<hist, marked, track, vi>>
        PROVE  TypeOK'
    <3>1. Reaching(l) \in Int
      BY Within DEF Reaching
    <3>2. off' \in 0..hist
      BY <2>2, <3>1, Within
    <3>3. match' \in NoMatch..(Rows - 1)
      BY <2>2, Within DEF NoMatch
    <3>4. searched' \in BOOLEAN
      BY <2>2
    <3>. QED
      BY <1>6, <2>2, <3>2, <3>3, <3>4 DEF SearchAgain, TypeOK, dragVars, mouseVars
  <2>. QED
    BY <1>6, <2>1, <2>2 DEF SearchAgain
<1>7. ASSUME NEW b \in Buttons, ReleasedElsewhere(b)
      PROVE  TypeOK'
  <2>1. "canvas" \in Places
    BY DEF Places, Over
  <2>2. MouseOK'
    BY <1>7, <2>1, ButtonTypes
  <2>. QED
    BY <1>7, <2>2 DEF ReleasedElsewhere, TypeOK, MouseOK, termVars, infoVars, dragVars
<1>. QED
  BY <1>1, <1>2, <1>3, <1>4, <1>5, <1>6, <1>7

-----------------------------------------------------------------------------
(* The copy of the scroll position.                                        *)

(* Whatever moves the viewport reads its position back, queues a frame or  *)
(* is a search.                                                            *)
LEMMA InfoKeeps == TypeOK /\ InfoTrue /\ [Next]_vars => InfoTrue'
<1>. SUFFICES ASSUME TypeOK, InfoTrue, [Next]_vars PROVE InfoTrue'
  OBVIOUS
<1>1. CASE \/ ShellWrites \/ ShellTracks \/ PumpRenders \/ TypeText \/ ToggleVi
           \/ ViMotion \/ ScrollToEnd \/ ClearHistory \/ SoftReset
  <2>1. dirty' = TRUE \/ frame' = TRUE
    BY <1>1 DEF ShellWrites, ShellTracks, PumpRenders, TypeText, ToggleVi,
                ViMotion, ScrollToEnd, ScrollTo, ClearHistory, SoftReset
  <2>. QED
    BY <2>1 DEF InfoTrue
<1>2. CASE HandleRender
  BY <1>2 DEF HandleRender, UpdateScrollInfo, InfoTrue
<1>3. CASE \E b \in Buttons, p \in Places : MouseDown(b, p) \/ MouseUp(b, p)
  <2>1. PICK b \in Buttons, p \in Places : MouseDown(b, p) \/ MouseUp(b, p)
    BY <1>3
  <2>2. dirty' = dirty
    BY <2>1 DEF MouseDown, MouseUp
  <2>3. CASE TrackOrThumb
    <3>1. CASE UNCHANGED <<termVars, infoVars, frame>>
      BY <2>2, <3>1 DEF InfoTrue, termVars, infoVars
    <3>2. ASSUME NEW n \in {Rows, -Rows}, ScrollByLines(n) PROVE InfoTrue'
      <4>1. n \in Int
        BY Within
      <4>. QED
        BY <2>2, <3>2, <4>1, ScrollKeeps
    <3>. QED
      BY <2>3, <3>1, <3>2 DEF TrackOrThumb
  <2>4. CASE frame' = TRUE
    BY <2>4 DEF InfoTrue
  <2>5. CASE UNCHANGED <<termVars, infoVars, frame>>
    BY <2>2, <2>5 DEF InfoTrue, termVars, infoVars
  <2>. QED
    BY <2>1, <2>3, <2>4, <2>5 DEF MouseDown, MouseUp
<1>4. CASE \E p \in Places : MouseMove(p)
  <2>1. dirty' = dirty
    BY <1>4 DEF MouseMove
  <2>2. CASE selecting
    BY <1>4, <2>2 DEF MouseMove, InfoTrue
  <2>3. CASE ~selecting
    <3>1. PICK n \in 0..scrollMax : ScrollByLines(n - scrollOff)
      BY <1>4, <2>3 DEF MouseMove
    <3>2. n - scrollOff \in Int
      BY Within
    <3>. QED
      BY <2>1, <3>1, <3>2, ScrollKeeps
  <2>. QED
    BY <2>2, <2>3
<1>5. CASE Wheel
  <2>1. PICK n \in {WheelLines, -WheelLines} : ScrollByLines(n)
    BY <1>5 DEF Wheel
  <2>2. n \in Int /\ dirty' = dirty
    BY <1>5, Within DEF Wheel
  <2>. QED
    BY <2>1, <2>2, ScrollKeeps
<1>6. CASE AutoScrollTick
  <2>1. CASE frame' = TRUE
    BY <2>1 DEF InfoTrue
  <2>2. CASE UNCHANGED <<termVars, infoVars, frame>>
    BY <1>6, <2>2 DEF AutoScrollTick, InfoTrue, termVars, infoVars
  <2>. QED
    BY <1>6, <2>1, <2>2 DEF AutoScrollTick
<1>7. CASE SearchAgain
  <2>1. /\ scrollMax' = scrollMax /\ scrollOff' = scrollOff /\ dirty' = dirty
        /\ frame' = frame /\ hist' = hist
    BY <1>7 DEF SearchAgain, termVars
  <2>2. searched' = (searched \/ off' # off) \/ (searched' = searched /\ off' = off)
    BY <1>7 DEF SearchAgain, termVars
  <2>3. ~searched' => ~searched /\ off' = off
    BY <2>2 DEF TypeOK
  <2>. QED
    BY <2>1, <2>3 DEF InfoTrue
<1>8. CASE \E b \in Buttons : ReleasedElsewhere(b)
  BY <1>8 DEF ReleasedElsewhere, InfoTrue, termVars, infoVars
<1>9. CASE UNCHANGED vars
  BY <1>9 DEF vars, InfoTrue
<1>. QED
  BY <1>1, <1>2, <1>3, <1>4, <1>5, <1>6, <1>7, <1>8, <1>9 DEF Next

-----------------------------------------------------------------------------
(* Drags and reports.                                                      *)

(* Steps that are no press, no release and no change of tracking.          *)
Bystanding ==
  \/ ShellWrites \/ PumpRenders \/ HandleRender \/ TypeText \/ ToggleVi
  \/ ViMotion \/ ScrollToEnd \/ ClearHistory \/ SearchAgain \/ AutoScrollTick
  \/ Wheel \/ (\E p \in Places : MouseMove(p)) \/ UNCHANGED vars

LEMMA Bystanders ==
  ASSUME TypeOK, Bystanding
  PROVE  UNCHANGED <<selecting, thumb, mouseVars, track>>
<1>1. CASE \/ ShellWrites \/ PumpRenders \/ HandleRender \/ TypeText \/ ToggleVi
           \/ ViMotion \/ ScrollToEnd \/ ClearHistory
  BY <1>1 DEF ShellWrites, PumpRenders, HandleRender, TypeText, ToggleVi,
     ViMotion, ScrollToEnd, ScrollTo, ClearHistory, termVars, dragVars
<1>2. ASSUME NEW n \in Int, ScrollByLines(n) PROVE track' = track
  BY <1>2 DEF ScrollByLines, ScrollTo, termVars
<1>3. CASE SearchAgain \/ AutoScrollTick
  BY <1>3 DEF SearchAgain, AutoScrollTick, termVars, dragVars
<1>4. CASE Wheel
  <2>1. track' = track
    BY <1>2, <1>4, Within DEF Wheel
  <2>. QED
    BY <1>4, <2>1 DEF Wheel, dragVars
<1>5. CASE \E p \in Places : MouseMove(p)
  <2>1. CASE selecting
    BY <1>5, <2>1 DEF MouseMove
  <2>2. CASE ~selecting
    <3>1. PICK n \in 0..scrollMax : ScrollByLines(n - scrollOff)
      BY <1>5, <2>2 DEF MouseMove
    <3>2. n - scrollOff \in Int
      BY Within
    <3>. QED
      BY <1>2, <1>5, <2>2, <3>1, <3>2 DEF MouseMove, dragVars
  <2>. QED
    BY <2>1, <2>2
<1>6. CASE UNCHANGED vars
  BY <1>6 DEF vars, mouseVars
<1>. QED
  BY <1>1, <1>3, <1>4, <1>5, <1>6 DEF Bystanding

(* What a press begins, and what it leaves of a drag that is on.           *)
LEMMA PressDrags ==
  ASSUME TypeOK, OneDrag, NEW b \in Buttons, NEW p \in Places, MouseDown(b, p)
  PROVE  OneDrag'
<1>1. /\ b \notin held /\ held' = held \cup {b} /\ astray' = astray
      /\ captured => captured'
      /\ b = "left" => captured'
  BY Zenon DEF MouseDown, Captures
<1>2. \/ UNCHANGED <<selecting, thumb>>
      \/ b = "left" /\ selecting' /\ thumb' = thumb
      \/ b = "left" /\ thumb' /\ selecting' = selecting
  BY DEF MouseDown, TrackOrThumb, dragVars
<1>. QED
  BY <1>1, <1>2 DEF OneDrag, DragOn

LEMMA PressPairs ==
  ASSUME TypeOK, OnePress, NEW b \in Buttons, NEW p \in Places, MouseDown(b, p)
  PROVE  OnePress'
<1>1. /\ b \notin held /\ held' = held \cup {b} /\ (captured => captured')
  BY Zenon DEF MouseDown
<1>2. ASSUME NEW n \in Int, ScrollByLines(n) PROVE track' = track
  BY <1>2 DEF ScrollByLines, ScrollTo, termVars
<1>3. track' = track
  <2>1. ScrollByLines(Rows) \/ ScrollByLines(-Rows) => track' = track
    BY <1>2, Within
  <2>. QED
    BY <2>1 DEF MouseDown, TrackOrThumb, termVars
<1>4. \/ /\ Tracking /\ reported' = reported \cup {b} /\ captured'
         /\ loose' = IF held = {} THEN loose \ {b} ELSE loose \cup held'
      \/ /\ reported' = reported
         /\ loose' = IF held = {} THEN loose ELSE loose \cup held'
  BY Zenon DEF MouseDown, Captures
<1>5. ASSUME NEW x \in Buttons, x \in held', x \notin loose' PROVE held' = {x}
  BY <1>1, <1>4, <1>5
<1>6. ASSUME NEW x \in Buttons, x \in reported', x \notin loose'
      PROVE  x \in held' /\ captured'
  BY <1>1, <1>4, <1>6 DEF OnePress
<1>7. reported' # {} => Tracking'
  BY <1>3, <1>4 DEF OnePress, Tracking
<1>. QED
  BY <1>5, <1>6, <1>7 DEF OnePress

(* A release ends the drag or leads it astray.                             *)
LEMMA ReleaseDrags ==
  ASSUME TypeOK, OneDrag, NEW b \in Buttons, NEW p \in Places, MouseUp(b, p)
  PROVE  OneDrag'
<1>1. selecting \in BOOLEAN /\ thumb \in BOOLEAN /\ astray \in BOOLEAN
  BY DEF TypeOK
<1>2. CASE Tracking /\ p # "bar"
  <2>1. selecting' = selecting /\ thumb' = thumb /\ astray' = (astray \/ DragOn)
    BY <1>2 DEF MouseUp, dragVars
  <2>. QED
    BY <2>1 DEF OneDrag, DragOn
<1>3. CASE ~(Tracking /\ p # "bar")
  <2>1. DragOver
    BY <1>3 DEF MouseUp
  <2>2. \/ selecting /\ ~selecting' /\ thumb' = thumb
        \/ ~selecting /\ ~thumb' /\ selecting' = selecting
    BY <1>1, <2>1 DEF DragOver
  <2>3. astray' = (astray /\ (selecting' \/ thumb'))
    BY <2>1 DEF DragOver
  <2>4. ASSUME selecting' \/ thumb', ~astray' PROVE FALSE
    BY <2>2, <2>3, <2>4 DEF OneDrag, DragOn
  <2>. QED
    BY <2>4 DEF OneDrag, DragOn
<1>. QED
  BY <1>2, <1>3

LEMMA ReleasePairs ==
  ASSUME TypeOK, OnePress, NEW b \in Buttons, NEW p \in Places, MouseUp(b, p)
  PROVE  OnePress'
<1>1. /\ b \in held /\ held' = held \ {b} /\ loose \subseteq loose'
      /\ p = "bar" => b \in loose'
      /\ track' = track
  BY DEF MouseUp, termVars
<1>2. \/ Tracking /\ reported' = reported \ {b}
      \/ reported' = reported /\ (~Tracking \/ p = "bar")
  BY DEF MouseUp, Released
<1>3. ASSUME NEW x \in Buttons, x \in held', x \notin loose' PROVE held' = {x}
  BY <1>1, <1>3 DEF OnePress
<1>4. ASSUME NEW x \in Buttons, x \in reported', x \notin loose'
      PROVE  x \in held' /\ captured'
  <2>1. x \in reported /\ x \notin loose
    BY <1>1, <1>2, <1>4
  <2>2. held = {x}
    BY <2>1 DEF OnePress
  <2>3. x = b
    BY <1>1, <2>2
  <2>. QED
    BY <1>1, <1>2, <1>4, <2>1, <2>3 DEF OnePress
<1>5. reported' # {} => Tracking'
  BY <1>1, <1>2 DEF OnePress, Tracking
<1>. QED
  BY <1>3, <1>4, <1>5 DEF OnePress

LEMMA PressKeeps ==
  TypeOK /\ OneDrag /\ OnePress /\ [Next]_vars => OneDrag' /\ OnePress'
<1>. SUFFICES ASSUME TypeOK, OneDrag, OnePress, [Next]_vars
              PROVE  OneDrag' /\ OnePress'
  OBVIOUS
<1>1. CASE ShellTracks \/ SoftReset
  <2>1. /\ UNCHANGED <<selecting, thumb, held, captured, astray, loose>>
        /\ reported' \in {{}, reported} /\ (track' = "off" => reported' = {})
    BY <1>1 DEF ShellTracks, SoftReset, dragVars
  <2>. QED
    BY <2>1 DEF OneDrag, OnePress, DragOn, Tracking
<1>2. CASE Bystanding
  <2>1. UNCHANGED <<selecting, thumb, mouseVars, track>>
    BY <1>2, Bystanders
  <2>. QED
    BY <2>1 DEF OneDrag, OnePress, DragOn, Tracking, mouseVars
<1>3. ASSUME NEW b \in Buttons, NEW p \in Places, MouseDown(b, p)
      PROVE  OneDrag' /\ OnePress'
  BY <1>3, PressDrags, PressPairs
<1>4. ASSUME NEW b \in Buttons, NEW p \in Places, MouseUp(b, p)
      PROVE  OneDrag' /\ OnePress'
  BY <1>4, ReleaseDrags, ReleasePairs
<1>5. ASSUME NEW b \in Buttons, ReleasedElsewhere(b)
      PROVE  OneDrag' /\ OnePress'
  <2>1. /\ ~captured /\ held' = held \ {b} /\ track' = track
        /\ UNCHANGED <<selecting, thumb, reported, captured, astray, loose>>
    BY <1>5 DEF ReleasedElsewhere, termVars, dragVars
  <2>. QED
    BY <2>1 DEF OneDrag, OnePress, DragOn, Tracking
<1>. QED
  BY <1>1, <1>2, <1>3, <1>4, <1>5 DEF Next, Bystanding

-----------------------------------------------------------------------------
(* Theorems.                                                               *)

LEMMA TypesKeep == TypeOK /\ [Next]_vars => TypeOK'
<1>1. TypeOK /\ UNCHANGED vars => TypeOK'
  BY DEF vars, mouseVars, TypeOK
<1>. QED
  BY <1>1, TermSteps, MouseTypes DEF Next

(* The viewport stays within the scrollback, the highlight within the      *)
(* screen (term.rs 194-229, 349-366).                                      *)
THEOREM Typed == Spec => []TypeOK
BY Begins, TypesKeep, PTL DEF Spec

(* With no frame on its way the control's copy of the scroll position is   *)
(* the terminal's, or a search has moved the viewport (Ctrl.pas 1905).     *)
THEOREM CopyTrue == Spec => []InfoTrue
BY Begins, TypesKeep, InfoKeeps, PTL DEF Spec

LEMMA PressAlways == Spec => [](TypeOK /\ OneDrag /\ OnePress)
<1>1. TypeOK /\ OneDrag /\ OnePress /\ [Next]_vars => TypeOK' /\ OneDrag' /\ OnePress'
  BY TypesKeep, PressKeeps
<1>. QED
  BY <1>1, Begins, PTL DEF Spec

(* A selection or thumb drag outlives its press only after a release was   *)
(* handled as a report while it was on, whatever the shell and the mouse do*)
(* (Ctrl.pas 1937-1969).                                                   *)
THEOREM DragsEnd == Spec => []DragEnds
<1>1. TypeOK /\ OneDrag => DragEnds
  BY DEF OneDrag, DragEnds, TypeOK
<1>. QED
  BY <1>1, PressAlways, PTL

(* A button that the shell holds for down and that is up was down together *)
(* with another or was let go over the scrollbar (Ctrl.pas 515-536,        *)
(* 1937-1950).                                                             *)
THEOREM PressesPaired == Spec => []ButtonsPaired
<1>1. TypeOK /\ OnePress => ButtonsPaired
  BY DEF OnePress, ButtonsPaired, TypeOK
<1>. QED
  BY <1>1, PressAlways, PTL
=============================================================================
