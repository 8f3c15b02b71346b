------------------------------- MODULE Terminal -------------------------------
(***************************************************************************)
(* What the host sees of the terminal: the grid (scrollback and screen),   *)
(* the viewport the host moves over it, frames with their hyperlinks and   *)
(* dirty rectangles, and the search.  Output and snapshot of the pump are  *)
(* two holds of the terminal's lock, and so are an operation of the host   *)
(* and its render; a frame is delivered with no lock held: the other       *)
(* thread may come between.  A line is its text and its link; texts are no *)
(* longer than a row is wide, which has two columns or more, and begin in  *)
(* its first column.  The grid is alacritty's, as this code uses it.       *)
(***************************************************************************)
EXTENDS Integers, Sequences

CONSTANTS
  Rows,          \* lines of the screen
  Scrollback,    \* the configured limit (Config::scrolling_history)
  Blank, NoUri,  \* no text, no link
  Outputs,       \* the lines the shell may write: [text, uri]
  Narrow,        \* texts of one column
  Hash,          \* FNV-1a on the URIs of Outputs
  MaxWrites,     \* bound: writes of the shell
  MaxOps         \* bound: operations of the host

Uris  == {c.uri : c \in Outputs} \ {NoUri}
Texts == {c.text : c \in Outputs}

ASSUME TerminalAssumption ==
  /\ Rows \in Nat \ {0} /\ Scrollback \in Nat
  /\ Blank \notin Texts /\ Narrow \subseteq Texts
  /\ \A u \in Uris : Hash[u] \in Nat
  (* The ids of different links are different.                             *)
  /\ \A u, v \in Uris : Hash[u] = Hash[v] => u = v
  /\ \A u \in Uris : Hash[u] # 1

VARIABLES
  hist, screen,    \* lines, the oldest first
  cur, atStart,    \* row of the cursor, and whether it is in the first column
  off,             \* display_offset
  pattern, origin, \* search_pattern, search_origin (its line, or NoLine)
  links,           \* hyperlinks: id -> URI
  prev,            \* cells of the last snapshot, <<>> before the first
  taken,           \* of each thread: the frame it has taken and not delivered
  frame,           \* the frame delivered last: cells, row of the cursor (0:
                   \* hidden) and dirty rectangles
  shown,           \* rows of a host that repaints the dirty rectangles only
  newest,          \* history: the thread that took the last snapshot
  late,            \* history: threads whose frame a later one has overtaken
  stale,           \* history: the frame delivered last was one of those
  overlaid,        \* history: rows such a frame repainted, and none since
  pumpOwes, hostOwes, \* a snapshot is still to come, of the pump, of the host
  moved,           \* history: a search has moved the viewport since
  round, last,     \* history: hits of the round of searches, the last result
  writes, ops

gridVars   == <<hist, screen, cur, atStart>>
searchVars == <<pattern, origin>>
frameVars  == <<links, prev, taken, frame, shown, newest, late, stale,
                overlaid>>
vars == <<gridVars, off, searchVars, frameVars, pumpOwes, hostOwes, moved,
          round, last, writes, ops>>

Empty  == [text |-> Blank, uri |-> NoUri]
Line   == Outputs \cup {Empty}
NoLine == Rows
None   == [kind |-> "none"]
Threads  == {"pump", "host"}
NoFrame  == [cells |-> <<>>, cursor |-> 0, dirty |-> <<>>]
Holding  == {t \in Threads : taken[t] # NoFrame}
NoRound == [way |-> "none", all |-> {}, found |-> {}]

TypeOK ==
  /\ hist \in Seq(Line) /\ Len(hist) <= Scrollback
  /\ screen \in [1..Rows -> Line] /\ cur \in 1..Rows /\ atStart \in BOOLEAN
  /\ off \in 0..Len(hist)
  /\ pattern \in Texts \cup {Blank} /\ origin \in (-Scrollback)..Rows
  /\ links \in [DOMAIN links -> Uris]
  /\ prev = <<>> \/ DOMAIN prev = 1..Rows
  /\ frame.cursor \in 0..Rows
  /\ DOMAIN taken = Threads /\ \A t \in Threads : taken[t].cursor \in 0..Rows
  /\ newest \in Threads /\ late \subseteq Threads /\ stale \in BOOLEAN

Init ==
  /\ hist = <<>> /\ screen = [r \in 1..Rows |-> Empty]
  /\ cur = 1 /\ atStart = TRUE /\ off = 0
  /\ pattern = Blank /\ origin = NoLine
  /\ links = <<>> /\ prev = <<>> /\ shown = [r \in 1..Rows |-> Blank]
  /\ taken = [t \in Threads |-> NoFrame] /\ frame = NoFrame
  /\ newest = "pump" /\ late = {} /\ stale = FALSE /\ overlaid = {}
  /\ pumpOwes = FALSE /\ hostOwes = FALSE /\ moved = FALSE
  /\ round = NoRound /\ last = None /\ writes = 0 /\ ops = 0

-----------------------------------------------------------------------------
(* The grid: lines 0..Rows-1 are the screen, negative ones the scrollback. *)

Top   == -Len(hist)
At(l) == IF l < 0 THEN hist[Len(hist) + l + 1] ELSE screen[l + 1]

(* Mutant: rows are taken from the live screen.                            *)
LineOf_Live(r) == r - 1

(* The grid line in row r of the viewport.                                 *)
LineOf(r) == r - 1 - off

(* Mutant: scrolling down does not end at the live edge.                   *)
Clamped_Open(n) == IF n > Len(hist) THEN Len(hist) ELSE n

Clamped(n) == IF n < 0 THEN 0 ELSE IF n > Len(hist) THEN Len(hist) ELSE n

(* A line is written and ended: below the last one the screen scrolls, the *)
(* scrollback drops its oldest, and a viewport off the live edge goes along*)
(* with its lines.                                                         *)
WriteLine(c) ==
  LET written == [screen EXCEPT ![cur] = c]
      longer  == Append(hist, written[1])
      kept    == IF Len(longer) > Scrollback THEN Tail(longer) ELSE longer
  IN  /\ atStart' = TRUE
      /\ IF cur < Rows
         THEN screen' = written /\ cur' = cur + 1 /\ UNCHANGED <<hist, off>>
         ELSE /\ hist' = kept
              /\ screen' = Append(Tail(written), Empty)
              /\ off' = IF off > 0 /\ off < Len(kept) THEN off + 1 ELSE off
              /\ UNCHANGED cur

(* The cursor is moved and a text written at it.                           *)
WriteAt(r, c) ==
  /\ screen' = [screen EXCEPT ![r] = c] /\ cur' = r /\ atStart' = FALSE
  /\ UNCHANGED <<hist, off>>

(* The pump: a chunk is parsed.                                            *)
Advance ==
  /\ "pump" \notin Holding
  /\ writes < MaxWrites /\ writes' = writes + 1
  /\ \E c \in Outputs : WriteLine(c) \/ \E r \in 1..Rows : WriteAt(r, c)
  /\ pumpOwes' = TRUE /\ round' = NoRound /\ last' = None
  /\ UNCHANGED <<searchVars, frameVars, hostOwes, moved, ops>>

-----------------------------------------------------------------------------
(* The snapshot.                                                           *)

(* hash_uri; 0 says there is no link.                                      *)
IdOf(u) == IF u = NoUri THEN 0 ELSE IF Hash[u] = 0 THEN 1 ELSE Hash[u]

Window   == [r \in 1..Rows |-> At(LineOf(r))]
Cells(w) == [r \in 1..Rows |-> [text |-> w[r].text, id |-> IdOf(w[r].uri)]]

(* Ids are added, the first URI of an id stays.                            *)
Registered(w) ==
  LET uris == {w[r].uri : r \in 1..Rows} \ {NoUri}
  IN  [i \in DOMAIN links \cup {IdOf(x) : x \in uris} |->
         IF i \in DOMAIN links THEN links[i]
         ELSE CHOOSE x \in uris : IdOf(x) = i]

(* Where the cursor is in the viewport; out of it, it is hidden.           *)
CursorRow == IF cur + off <= Rows THEN cur + off ELSE 0

(* cells_eq compares all of a cell but its link.                           *)
Same(a, b) == a.text = b.text

(* Mutant: a rectangle that is joined to the one above keeps its height.   *)
Joined_Height(rect) == rect

Joined(rect) == [rect EXCEPT !.h = @ + 1]

(* The rectangles of changed rows; adjacent ones are one.                  *)
Rects(old, new) ==
  LET UpTo[y \in 0..Rows] ==
        IF y = 0 THEN <<>>
        ELSE LET above == UpTo[y-1]
                 n     == Len(above)
             IN  IF Same(old[y], new[y]) THEN above
                 ELSE IF n > 0 /\ above[n].y + above[n].h = y
                      THEN [above EXCEPT ![n] = Joined(@)]
                      ELSE Append(above, [y |-> y, h |-> 1])
  IN  UpTo[Rows]

Dirty(new) == IF prev = <<>> THEN <<[y |-> 1, h |-> Rows]>>
              ELSE Rects(prev, new)

Covered(rects) == UNION {rects[i].y .. rects[i].y + rects[i].h - 1 :
                           i \in DOMAIN rects}

(* TermHost::snapshot and HostBackend::snapshot under both locks.          *)
Snapshot(t) ==
  LET w == Window
      cells == Cells(w)
  IN  /\ links' = Registered(w)
      /\ taken' = [taken EXCEPT ![t] = [cells |-> cells, cursor |-> CursorRow,
                                        dirty |-> Dirty(cells)]]
      /\ newest' = t
      /\ prev' = cells
      /\ moved' = FALSE
      /\ UNCHANGED <<frame, shown, late, stale, overlaid>>

PumpSnapshot ==
  /\ pumpOwes /\ pumpOwes' = FALSE
  /\ Snapshot("pump")
  /\ UNCHANGED <<gridVars, off, searchVars, hostOwes, round, last, writes,
                 ops>>

(* request_render.                                                         *)
RequestRender ==
  /\ hostOwes /\ hostOwes' = FALSE
  /\ Snapshot("host")
  /\ UNCHANGED <<gridVars, off, searchVars, pumpOwes, round, last, writes,
                 ops>>

(* on_render, with no lock held: frames of the two threads may come in     *)
(* another order than they were taken in.                                  *)
Deliver(t) ==
  /\ t \in Holding
  /\ LET rows == Covered(taken[t].dirty)
     IN  /\ shown' = [r \in 1..Rows |->
                        IF r \in rows THEN taken[t].cells[r].text ELSE shown[r]]
         /\ overlaid' = IF t \in late THEN overlaid \cup rows
                        ELSE overlaid \ rows
  /\ frame' = taken[t] /\ taken' = [taken EXCEPT ![t] = NoFrame]
  /\ stale' = (t \in late)
  /\ late' = IF t = newest THEN Holding \ {t} ELSE late \ {t}
  /\ UNCHANGED <<gridVars, off, searchVars, links, prev, newest, pumpOwes,
                 hostOwes, moved, round, last, writes, ops>>

-----------------------------------------------------------------------------
(* Operations of the host.                                                 *)

Operation ==
  ~hostOwes /\ "host" \notin Holding /\ ops < MaxOps /\ ops' = ops + 1

(* Scroll by lines, by pages, to the top and to the bottom.                *)
Scroll ==
  /\ Operation
  /\ \E n \in {-Rows, -1, 1, Rows, -Len(hist), Len(hist)} :
       off' = Clamped(off + n)
  /\ hostOwes' = TRUE /\ last' = None
  /\ UNCHANGED <<gridVars, searchVars, frameVars, pumpOwes, moved, round,
                 writes>>

ClearHistory ==
  /\ Operation
  /\ hist' = <<>> /\ off' = 0
  /\ hostOwes' = TRUE /\ round' = NoRound /\ last' = None
  /\ UNCHANGED <<screen, cur, atStart, searchVars, frameVars, pumpOwes, moved,
                 writes>>

(* RIS through the parser; what TermHost keeps beside the grid stays.      *)
ResetState ==
  /\ Operation
  /\ hist' = <<>> /\ off' = 0 /\ cur' = 1 /\ atStart' = TRUE
  /\ screen' = [r \in 1..Rows |-> Empty]
  /\ hostOwes' = TRUE /\ round' = NoRound /\ last' = None
  /\ UNCHANGED <<searchVars, frameVars, pumpOwes, moved, writes>>

-----------------------------------------------------------------------------
(* The search.  A place in the grid is twice its line, and one more when it*)
(* is past the first column; a text that is not narrow ends there.         *)
End(p, l) == IF p \in Narrow THEN 2 * l ELSE 2 * l + 1

InGrid(place) == IF place < 2 * Top THEN 2 * Top
                 ELSE IF place > 2 * Rows - 1 THEN 2 * Rows - 1 ELSE place

(* Mutant: a search goes on from the last hit itself.                      *)
Beside_Same(l, forward) == IF forward THEN 2 * l ELSE 2 * l + 1

(* One column right or left of the beginning of line l.                    *)
Beside(l, forward) == InGrid(IF forward THEN 2 * l + 1 ELSE 2 * l - 1)

CursorPlace == 2 * (cur - 1) + (IF atStart THEN 0 ELSE 1)

Searched == Top..Rows-1

(* The lines with the text on that side of the place.                      *)
Matching(p, forward, place, lines) ==
  {l \in lines : At(l).text = p /\ IF forward THEN place <= 2 * l
                                   ELSE End(p, l) <= place}

(* The offset that shows line l, nearest to the present one.               *)
Reaching(l) == IF l < -off THEN -l
               ELSE IF l > Rows - 1 - off THEN Rows - 1 - l ELSE off

First(hit, hits, forward) ==
  hit \in hits /\ \A l \in hits : IF forward THEN hit <= l ELSE l <= hit

Way(forward) == IF forward THEN "down" ELSE "up"

(* A search goes on from the last hit with the same text; history: it is of*)
(* the round of the last one if that went the same way.                    *)
Start(p) == IF p # pattern THEN NoLine ELSE origin
Place(p, forward) == IF Start(p) = NoLine THEN CursorPlace
                     ELSE Beside(Start(p), forward)
Round(p, forward) ==
  IF Start(p) # NoLine /\ round.way = Way(forward) THEN round
  ELSE [way |-> Way(forward), found |-> {},
        all |-> Matching(p, forward, Place(p, forward), Top..Rows-1)]

(* The viewport is moved to the hit, and no frame is asked for.            *)
Hit(p, forward, hit) ==
  /\ First(hit, Matching(p, forward, Place(p, forward), Searched), forward)
  /\ origin' = hit
  /\ off' = Clamped(Reaching(hit))
  /\ moved' = (moved \/ off' # off)
  /\ LET now == Round(p, forward)
     IN  /\ round' = [now EXCEPT !.found = @ \cup {hit}]
         /\ last' = [kind |-> "hit", row |-> hit + off' + 1,
                     again |-> hit \in now.found]

(* A miss lets go of the place: the next search starts at the cursor.      *)
Miss(p, forward) ==
  /\ Matching(p, forward, Place(p, forward), Searched) = {}
  /\ origin' = NoLine
  /\ round' = NoRound
  /\ LET now == Round(p, forward)
     IN  last' = [kind |-> "miss", all |-> now.found = now.all]
  /\ UNCHANGED <<off, moved>>

SearchNext(p, forward) ==
  /\ Operation
  /\ pattern' = p
  /\ \/ \E hit \in Searched : Hit(p, forward, hit)
     \/ Miss(p, forward)
  /\ UNCHANGED <<gridVars, frameVars, pumpOwes, hostOwes, writes>>

-----------------------------------------------------------------------------

Next == \/ Advance \/ PumpSnapshot \/ RequestRender
        \/ \E t \in Threads : Deliver(t)
        \/ Scroll \/ ClearHistory \/ ResetState
        \/ \E p \in Texts, forward \in BOOLEAN : SearchNext(p, forward)

Spec == Init /\ [][Next]_vars

-----------------------------------------------------------------------------
(* Properties.                                                             *)

(* The frame is the viewport: lines, links and cursor.                     *)
Shows(f) ==
  /\ \A r \in 1..Rows :
       LET l == At(r - 1 - off)
       IN  /\ f.cells[r].text = l.text
           /\ IF l.uri = NoUri THEN f.cells[r].id = 0
              ELSE /\ f.cells[r].id # 0 /\ f.cells[r].id \in DOMAIN links
                   /\ links[f.cells[r].id] = l.uri
  /\ \A r \in 1..Rows : f.cursor = r <=> r - 1 - off = cur - 1

(* With no render to come and none on its way, the host's frame is the     *)
(* viewport: its lines, its cursor, and its links with ids that resolve to *)
(* their URIs, however the two threads took their turns; unless a search   *)
(* has moved the viewport, or the frame came after a later one (term.rs    *)
(* 470-501, session.rs 240-254, 379-388, 481-485).                         *)
Settled == /\ prev # <<>> /\ Holding = {}
           /\ ~pumpOwes /\ ~hostOwes /\ ~moved /\ ~stale
FrameCurrent == Settled => Shows(frame)

(* A host that repaints nothing but the dirty rectangles shows every text  *)
(* of the newest frame, but in rows that an overtaken frame was painted    *)
(* over, until they are repainted; and no two rectangles could be one      *)
(* (backend.rs 52-68, 99-112).                                             *)
PatchedTrue ==
  /\ prev # <<>> /\ Holding = {} /\ ~stale =>
       \A r \in (1..Rows) \ overlaid : shown[r] = frame.cells[r].text
  /\ \A i \in 1 .. Len(frame.dirty)-1 :
       frame.dirty[i].y + frame.dirty[i].h < frame.dirty[i+1].y

(* Repainting the changed cells of every frame keeps the host's screen     *)
(* what the viewport is (01-requirements FR-003): fails, two frames may    *)
(* have come in the wrong order before.                                    *)
DirtyEnough ==
  Settled => \A r \in 1..Rows : shown[r] = At(LineOf(r)).text

(* A hit is in the row that is returned, after the viewport has moved; a   *)
(* round of searches one way, with no output in between, ends after every  *)
(* line with the text, in the scrollback too, and returns no hit twice but *)
(* that of one column in the topmost line, which the way up does not leave *)
(* (term.rs 280-289, 311-317, 321-334).                                    *)
SearchTrue ==
  /\ last.kind = "hit" =>
       /\ last.row \in 1..Rows /\ At(LineOf(last.row)).text = pattern
       /\ last.again => pattern \in Narrow /\ round.way = "up" /\ origin = Top
  /\ last.kind = "miss" => last.all

(* Searching again goes on to the next match (term.rs 280-282): fails, see *)
(* SearchTrue.                                                             *)
NextMatch == last.kind = "hit" => ~last.again
=============================================================================
