---------------------------- MODULE TerminalProofs ----------------------------
(***************************************************************************)
(* The terminal for every size of screen and scrollback and every output:  *)
(* its types, what a frame shows (FrameCurrent), what a search returns     *)
(* (SearchTrue), and what the dirty rectangles leave on the screen         *)
(* (PatchedTrue).  FrameCurrent rests on the ids of links (LinksSound) and *)
(* on which frames are under way (Order); SearchTrue on what a round of    *)
(* searches has found and has left (RoundOK); PatchedTrue on the           *)
(* rectangles being those of the changed rows (Exact).                     *)
(***************************************************************************)
EXTENDS Terminal, SequenceTheorems, WellFoundedInduction, TLAPS

(* Every id resolves to a URI it is the id of (term.rs 484-491).           *)
LinksSound == \A i \in DOMAIN links : links[i] \in Uris /\ IdOf(links[i]) = i

(* A thread holds one frame; a frame that is held is the newest, or older  *)
(* than it, and late once the newest has been delivered (session.rs 240-   *)
(* 254, 379-388).                                                          *)
Order ==
  /\ DOMAIN taken = Threads /\ newest \in Threads
  /\ newest \notin late /\ late \subseteq Holding
  /\ newest \notin Holding => Holding \subseteq late
  /\ pumpOwes => "pump" \notin Holding
  /\ hostOwes => "host" \notin Holding

(* The frame taken last, while it is under way or nothing came after it,   *)
(* is the viewport if no render is to come.                                *)
Newest == IF newest \in Holding THEN taken[newest] ELSE frame
FrameInv ==
  /\ prev # <<>> /\ ~pumpOwes /\ ~hostOwes /\ ~moved
  /\ newest \in Holding \/ ~stale
  => Shows(Newest)

(* What lies ahead of line o for a search that goes that way.              *)
Ahead(way, o, l) == IF way = "down" THEN o < l ELSE l < o

(* While a round lasts: what it has found of its lines is what does not lie*)
(* ahead of the last hit, and what lies ahead are all lines with the text. *)
RoundOK ==
  /\ round \in [way : {"none", "down", "up"}, all : SUBSET Int, found : SUBSET Int]
  /\ round.way # "none" =>
       /\ origin \in Top..Rows-1 /\ origin \in round.found
       /\ round.found = {l \in round.all : ~Ahead(round.way, origin, l)}
       /\ \A l \in Int : Ahead(round.way, origin, l) =>
            (l \in round.all <=> l \in Top..Rows-1 /\ At(l).text = pattern)

(* A search that goes on up from a hit of one column in the topmost line:  *)
(* there is no place above to begin at.                                    *)
Pinned(p, forward) ==
  p \in Narrow /\ ~forward /\ Start(p) = Top /\ round.way = "up"

-----------------------------------------------------------------------------
(* Lines.                                                                  *)

(* Links have ids, and different links different ones.                     *)
LEMMA Ids ==
  /\ \A x \in Uris : IdOf(x) # 0
  /\ \A x, y \in Uris : IdOf(x) = IdOf(y) => x = y
  /\ IdOf(NoUri) = 0
BY TerminalAssumption DEF IdOf, Uris

LEMMA LineUris == \A c \in Line : c.uri = NoUri \/ c.uri \in Uris
BY DEF Line, Uris, Empty

(* A screen is a sequence of lines.                                        *)
LEMMA ScreenSeq ==
  ASSUME NEW s \in [1..Rows -> Line]
  PROVE  s \in Seq(Line) /\ Len(s) = Rows /\ s # <<>>
<1>1. Rows \in Nat /\ Rows >= 1
  BY TerminalAssumption
<1>2. s \in Seq(Line)
  BY <1>1, SeqDef
<1>3. DOMAIN s = 1..Rows /\ DOMAIN s = 1..Len(s) /\ Len(s) \in Nat
  BY <1>2, LenProperties
<1>4. Len(s) = Rows
  BY <1>1, <1>3
<1>. QED
  BY <1>1, <1>2, <1>4, EmptySeq

(* Every line of the grid is a line.                                       *)
LEMMA GridLines ==
  ASSUME TypeOK
  PROVE  /\ \A l \in Top..Rows-1 : At(l) \in Line
         /\ \A r \in 1..Rows : LineOf(r) \in Top..Rows-1
         /\ \A r \in 1..Rows : At(LineOf(r)) \in Line
<1>1. /\ hist \in Seq(Line) /\ Len(hist) \in Nat /\ Rows \in Nat
      /\ screen \in [1..Rows -> Line] /\ off \in 0..Len(hist)
  BY TerminalAssumption, LenProperties DEF TypeOK
<1>2. ASSUME NEW l \in Top..Rows-1 PROVE At(l) \in Line
  <2>1. CASE l < 0
    <3>1. Len(hist) + l + 1 \in 1..Len(hist)
      BY <1>1, <2>1 DEF Top
    <3>. QED
      BY <1>1, <2>1, <3>1, ElementOfSeq DEF At
  <2>2. CASE ~ (l < 0)
    <3>1. l + 1 \in 1..Rows
      BY <1>1, <2>2 DEF Top
    <3>. QED
      BY <1>1, <2>2, <3>1 DEF At
  <2>. QED
    BY <2>1, <2>2
<1>3. \A r \in 1..Rows : LineOf(r) \in Top..Rows-1
  BY <1>1 DEF LineOf, Top
<1>. QED
  BY <1>2, <1>3

(* What a written line leaves of the grid.                                 *)
LEMMA WriteLineKeeps ==
  ASSUME TypeOK, NEW c \in Outputs, WriteLine(c)
  PROVE  /\ hist' \in Seq(Line) /\ Len(hist') <= Scrollback
         /\ screen' \in [1..Rows -> Line] /\ cur' \in 1..Rows
         /\ off' \in 0..Len(hist') /\ atStart' = TRUE
<1>. DEFINE written == [screen EXCEPT ![cur] = c]
            longer  == Append(hist, written[1])
            kept    == IF Len(longer) > Scrollback THEN Tail(longer) ELSE longer
<1>1. /\ hist \in Seq(Line) /\ Len(hist) \in Nat /\ Len(hist) <= Scrollback
      /\ screen \in [1..Rows -> Line] /\ off \in 0..Len(hist)
      /\ cur \in 1..Rows /\ Rows \in Nat /\ Rows >= 1 /\ Scrollback \in Nat
      /\ c \in Line
  BY TerminalAssumption, LenProperties DEF TypeOK, Line
<1>2. written \in [1..Rows -> Line]
  BY <1>1
<1>3. CASE cur < Rows
  BY <1>1, <1>2, <1>3 DEF WriteLine
<1>4. CASE ~ (cur < Rows)
  <2>1. written[1] \in Line
    BY <1>1, <1>2
  <2>2. longer \in Seq(Line) /\ Len(longer) = Len(hist) + 1 /\ longer # <<>>
    BY <1>1, <2>1, AppendProperties
  <2>3. Tail(longer) \in Seq(Line) /\ Len(Tail(longer)) = Len(hist)
    BY <1>1, <2>2, HeadTailProperties
  <2>4. /\ kept \in Seq(Line) /\ Len(kept) \in Nat /\ Len(kept) <= Scrollback
        /\ Len(hist) <= Len(kept)
    BY <1>1, <2>2, <2>3
  <2>5. written \in Seq(Line) /\ Len(written) = Rows /\ written # <<>>
    BY <1>2, ScreenSeq
  <2>6. Tail(written) \in Seq(Line) /\ Len(Tail(written)) = Rows - 1
    BY <2>5, HeadTailProperties
  <2>7. Empty \in Line
    BY DEF Line
  <2>8. Append(Tail(written), Empty) \in Seq(Line)
        /\ Len(Append(Tail(written), Empty)) = Rows
    BY <1>1, <2>6, <2>7, AppendProperties
  <2>9. Append(Tail(written), Empty) \in [1..Rows -> Line]
    BY <2>8, LenProperties
  <2>10. /\ hist' = kept /\ screen' = Append(Tail(written), Empty)
         /\ cur' = cur /\ atStart' = TRUE
         /\ off' = IF off > 0 /\ off < Len(kept) THEN off + 1 ELSE off
    BY <1>4 DEF WriteLine
  <2>11. off' \in 0..Len(kept)
    BY <1>1, <2>4, <2>10
  <2>. QED
    BY <1>1, <2>4, <2>9, <2>10, <2>11
<1>. QED
  BY <1>3, <1>4

-----------------------------------------------------------------------------
(* Frames.                                                                 *)

(* The snapshot keeps the ids sound, and its frame is the viewport.        *)
LEMMA SnapshotShows ==
  ASSUME TypeOK, LinksSound, NEW t \in Threads, Snapshot(t),
         UNCHANGED <<gridVars, off>>
  PROVE  /\ links' \in [DOMAIN links' -> Uris] /\ LinksSound'
         /\ DOMAIN prev' = 1..Rows /\ prev' # <<>>
         /\ taken'[t].cursor \in 0..Rows /\ taken'[t] # NoFrame
         /\ Shows(taken[t])'
<1>. DEFINE w    == Window
            uris == {w[r].uri : r \in 1..Rows} \ {NoUri}
            ids  == {IdOf(x) : x \in uris}
            Pick(i) == CHOOSE x \in uris : IdOf(x) = i
<1>1. /\ links' = [i \in DOMAIN links \cup ids |->
                     IF i \in DOMAIN links THEN links[i] ELSE Pick(i)]
      /\ taken'[t] = [cells |-> Cells(w), cursor |-> CursorRow,
                      dirty |-> Dirty(Cells(w))]
      /\ prev' = Cells(w)
  BY DEF Snapshot, Registered, TypeOK
<1>2. /\ hist' = hist /\ screen' = screen /\ cur' = cur /\ off' = off
  BY DEF gridVars
<1>3. \A r \in 1..Rows : w[r] = At(LineOf(r)) /\ w[r] \in Line
  BY GridLines DEF Window
<1>4. uris \subseteq Uris
  BY <1>3, LineUris
<1>5. \A i \in ids : Pick(i) \in uris /\ IdOf(Pick(i)) = i
  OBVIOUS
<1>6. \A i \in DOMAIN links' : links'[i] \in Uris /\ IdOf(links'[i]) = i
  BY <1>1, <1>4, <1>5 DEF LinksSound
<1>7. links' \in [DOMAIN links' -> Uris]
  BY <1>1, <1>6
<1>8. LinksSound'
  BY <1>6 DEF LinksSound
<1>9. DOMAIN prev' = 1..Rows /\ prev' # <<>> /\ taken'[t] # NoFrame
  <2>1. DOMAIN Cells(w) = 1..Rows
    BY DEF Cells
  <2>2. 1 \in 1..Rows /\ DOMAIN <<>> = {}
    BY TerminalAssumption
  <2>3. Cells(w) # <<>>
    BY <2>1, <2>2
  <2>4. taken'[t].cells = Cells(w) /\ NoFrame.cells = <<>>
    BY <1>1 DEF NoFrame
  <2>. QED
    BY <1>1, <2>1, <2>3, <2>4
<1>10. cur \in 1..Rows /\ off \in Nat /\ Rows \in Nat
  BY TerminalAssumption, LenProperties DEF TypeOK
<1>11. taken'[t].cursor = CursorRow /\ CursorRow \in 0..Rows
  BY <1>1, <1>10 DEF CursorRow
<1>12. ASSUME NEW r \in 1..Rows
       PROVE  LET l == At(r - 1 - off)
                  c == taken'[t].cells[r]
              IN  /\ c.text = l.text
                  /\ IF l.uri = NoUri THEN c.id = 0
                     ELSE c.id # 0 /\ c.id \in DOMAIN links' /\ links'[c.id] = l.uri
  <2>. DEFINE l == At(r - 1 - off)
              c == taken'[t].cells[r]
  <2>1. w[r] = l /\ l \in Line
    BY <1>3 DEF LineOf
  <2>2. c.text = l.text /\ c.id = IdOf(l.uri)
    BY <1>1, <2>1 DEF Cells
  <2>3. CASE l.uri = NoUri
    BY <2>2, <2>3, Ids
  <2>4. CASE l.uri # NoUri
    <3>1. l.uri \in uris /\ l.uri \in Uris
      BY <1>4, <2>1, <2>4
    <3>2. c.id \in DOMAIN links'
      BY <1>1, <2>2, <3>1
    <3>3. links'[c.id] \in Uris /\ IdOf(links'[c.id]) = IdOf(l.uri)
      BY <1>6, <2>2, <3>2
    <3>4. links'[c.id] = l.uri
      BY <3>1, <3>3, Ids
    <3>. QED
      BY <2>2, <2>4, <3>1, <3>2, <3>4, Ids
  <2>. QED
    BY <2>2, <2>3, <2>4
<1>13. ASSUME NEW r \in 1..Rows
       PROVE  taken'[t].cursor = r <=> r - 1 - off = cur - 1
  BY <1>10, <1>11 DEF CursorRow
<1>14. ASSUME NEW r \in 1..Rows PROVE At(r - 1 - off)' = At(r - 1 - off)
  BY <1>2 DEF At
<1>15. Shows(taken[t])'
  BY <1>2, <1>12, <1>13, <1>14 DEF Shows
<1>. QED
  BY <1>7, <1>8, <1>9, <1>11, <1>15

-----------------------------------------------------------------------------
(* Searches.                                                               *)

(* The place of a search that goes on leaves what lies ahead, no less.     *)
LEMMA PlaceAhead ==
  ASSUME TypeOK, NEW forward \in BOOLEAN, NEW o \in Top..Rows-1,
         NEW l \in Top..Rows-1, NEW p, ~(p \in Narrow /\ ~forward /\ o = Top)
  PROVE  (IF forward THEN Beside(o, forward) <= 2 * l
          ELSE End(p, l) <= Beside(o, forward)) <=> Ahead(Way(forward), o, l)
<1>1. Len(hist) \in Nat /\ Rows \in Nat /\ Rows >= 1
  BY TerminalAssumption, LenProperties DEF TypeOK
<1>2. CASE forward
  BY <1>1, <1>2 DEF Beside, InGrid, Ahead, Way, Top
<1>3. CASE ~forward
  BY <1>1, <1>3 DEF Beside, InGrid, Ahead, Way, Top, End
<1>. QED
  BY <1>2, <1>3

(* What a search that is about to be made looks for, and the lines it has. *)
LEMMA Now ==
  ASSUME TypeOK, RoundOK, NEW p \in Texts, NEW forward \in BOOLEAN,
         ~Pinned(p, forward)
  PROVE  LET now  == Round(p, forward)
             hits == Matching(p, forward, Place(p, forward), Searched)
         IN  /\ now \in [way : {"none", "down", "up"}, all : SUBSET Int,
                         found : SUBSET Int]
             /\ now.way = Way(forward)
             /\ now.found \subseteq now.all
             /\ hits = now.all \ now.found
             /\ \A l \in hits : l \in Top..Rows-1 /\ At(l).text = p
             /\ \A h \in hits, f \in now.found : Ahead(now.way, f, h)
             /\ \A h \in hits, l \in Top..Rows-1 :
                  Ahead(now.way, h, l) /\ At(l).text = p => l \in hits
<1>. DEFINE now  == Round(p, forward)
            hits == Matching(p, forward, Place(p, forward), Searched)
<1>1. Len(hist) \in Nat /\ Rows \in Nat /\ Rows >= 1 /\ Top..Rows-1 \subseteq Int
  BY TerminalAssumption, LenProperties DEF TypeOK, Top
<1>2. Way(forward) \in {"down", "up"}
  BY DEF Way
<1>3. Searched = Top..Rows-1
  BY DEF Searched
<1>4. hits = {l \in Top..Rows-1 :
                At(l).text = p /\ IF forward THEN Place(p, forward) <= 2 * l
                                  ELSE End(p, l) <= Place(p, forward)}
  BY <1>3 DEF Matching
<1>5. CASE Start(p) # NoLine /\ round.way = Way(forward)
  <2>1. now = round /\ pattern = p /\ Start(p) = origin
    BY <1>5 DEF Round, Start
  <2>2. /\ origin \in Top..Rows-1
        /\ round.found = {l \in round.all : ~Ahead(round.way, origin, l)}
        /\ \A l \in Int : Ahead(round.way, origin, l) =>
             (l \in round.all <=> l \in Top..Rows-1 /\ At(l).text = pattern)
    BY <1>2, <1>5 DEF RoundOK
  <2>3. Place(p, forward) = Beside(origin, forward)
    BY <1>5, <2>1 DEF Place
  <2>4. \A l \in Top..Rows-1 :
          (IF forward THEN Place(p, forward) <= 2 * l
           ELSE End(p, l) <= Place(p, forward)) <=> Ahead(round.way, origin, l)
    <3>1. ~(p \in Narrow /\ ~forward /\ origin = Top)
      BY <1>5, <2>1 DEF Pinned, Way
    <3>. QED
      BY <1>5, <2>2, <2>3, <3>1, PlaceAhead
  <2>5. hits = {l \in Top..Rows-1 : At(l).text = p /\ Ahead(round.way, origin, l)}
    BY <1>4, <2>4
  <2>6. round.all \subseteq Int /\ round.found \subseteq Int
    BY DEF RoundOK
  <2>7. \A l \in Int : l \in hits <=> l \in round.all /\ l \notin round.found
    BY <1>1, <2>1, <2>2, <2>5
  <2>8. hits = now.all \ now.found
    BY <1>1, <2>1, <2>5, <2>6, <2>7
  <2>9. \A h \in hits, f \in now.found : Ahead(now.way, f, h)
    <3>. SUFFICES ASSUME NEW h \in hits, NEW f \in round.found
                  PROVE  Ahead(round.way, f, h)
      BY <2>1
    <3>1. /\ h \in Int /\ f \in Int /\ origin \in Int
          /\ Ahead(round.way, origin, h) /\ ~Ahead(round.way, origin, f)
      BY <1>1, <2>2, <2>5, <2>6
    <3>. QED
      BY <3>1 DEF Ahead
  <2>10. \A h \in hits, l \in Top..Rows-1 :
           Ahead(now.way, h, l) /\ At(l).text = p => l \in hits
    <3>. SUFFICES ASSUME NEW h \in hits, NEW l \in Top..Rows-1,
                         Ahead(round.way, h, l), At(l).text = p
                  PROVE  l \in hits
      BY <2>1
    <3>1. h \in Int /\ l \in Int /\ origin \in Int /\ Ahead(round.way, origin, h)
      BY <1>1, <2>2, <2>5
    <3>2. Ahead(round.way, origin, l)
      BY <3>1 DEF Ahead
    <3>. QED
      BY <2>5, <3>2
  <2>11. now.found \subseteq now.all
    BY <2>1, <2>2
  <2>. QED
    BY <1>4, <1>5, <2>1, <2>8, <2>9, <2>10, <2>11 DEF RoundOK
<1>6. CASE ~ (Start(p) # NoLine /\ round.way = Way(forward))
  <2>1. now = [way |-> Way(forward), found |-> {}, all |-> hits]
    BY <1>3, <1>6 DEF Round
  <2>2. hits \subseteq Int
    BY <1>1, <1>4
  <2>3. /\ now \in [way : {"none", "down", "up"}, all : SUBSET Int,
                    found : SUBSET Int]
        /\ now.way = Way(forward) /\ now.found = {} /\ now.all = hits
    BY <1>2, <2>1, <2>2
  <2>4. \A h \in hits, l \in Top..Rows-1 :
          Ahead(now.way, h, l) /\ At(l).text = p => l \in hits
    <3>. SUFFICES ASSUME NEW h \in hits, NEW l \in Top..Rows-1,
                         Ahead(Way(forward), h, l), At(l).text = p
                  PROVE  l \in hits
      BY <2>3
    <3>0. CursorPlace \in Int
      BY DEF CursorPlace, TypeOK
    <3>1. Place(p, forward) \in Int
      BY <1>1, <3>0, SMTT(30) DEF Place, Beside, InGrid, Top, Start, TypeOK
    <3>2. h \in Int /\ l \in Int
      BY <1>1, <2>2
    <3>3. IF forward THEN Place(p, forward) <= 2 * h
          ELSE End(p, h) <= Place(p, forward)
      BY <1>4
    <3>4. IF forward THEN h < l ELSE l < h
      BY DEF Ahead, Way
    <3>5. IF forward THEN Place(p, forward) <= 2 * l
          ELSE End(p, l) <= Place(p, forward)
      <4>. HIDE DEF hits
      <4>1. CASE forward
        <5>1. Place(p, forward) <= 2 * h /\ h < l
          BY <3>3, <3>4, <4>1
        <5>2. Place(p, forward) <= 2 * l
          BY <3>1, <3>2, <5>1
        <5>. QED
          BY <4>1, <5>2
      <4>2. CASE ~forward
        <5>1. End(p, h) <= Place(p, forward) /\ l < h
          BY <3>3, <3>4, <4>2
        <5>2. End(p, l) <= Place(p, forward)
          BY <3>1, <3>2, <5>1 DEF End
        <5>. QED
          BY <4>2, <5>2
      <4>. QED
        BY <4>1, <4>2
    <3>. QED
      BY <1>4, <3>5
  <2>. QED
    BY <1>4, <2>3, <2>4
<1>. QED
  BY <1>5, <1>6

(* A hit is the nearest line ahead: the round has found all before it.     *)
LEMMA HitNew ==
  ASSUME TypeOK, RoundOK, NEW p \in Texts, NEW forward \in BOOLEAN,
         NEW hit \in Searched, Hit(p, forward, hit), pattern' = p,
         UNCHANGED gridVars, ~Pinned(p, forward)
  PROVE  RoundOK' /\ ~last'.again
<1>. DEFINE now  == Round(p, forward)
            hits == Matching(p, forward, Place(p, forward), Searched)
<1>1. /\ now \in [way : {"none", "down", "up"}, all : SUBSET Int,
                  found : SUBSET Int]
      /\ now.way = Way(forward)
      /\ now.found \subseteq now.all
      /\ hits = now.all \ now.found
      /\ \A l \in hits : l \in Top..Rows-1 /\ At(l).text = p
      /\ \A h \in hits, f \in now.found : Ahead(now.way, f, h)
      /\ \A h \in hits, l \in Top..Rows-1 :
           Ahead(now.way, h, l) /\ At(l).text = p => l \in hits
  BY Now
<1>2. /\ hit \in hits
      /\ \A l \in hits : IF forward THEN hit <= l ELSE l <= hit
      /\ origin' = hit /\ off' = Clamped(Reaching(hit))
      /\ round' = [now EXCEPT !.found = @ \cup {hit}]
      /\ last' = [kind |-> "hit", row |-> hit + off' + 1,
                  again |-> hit \in now.found]
  BY DEF Hit, First
<1>. HIDE DEF now, hits
<1>3. /\ Len(hist) \in Nat /\ Len(hist) <= Scrollback /\ Rows \in Nat
      /\ Rows >= 1 /\ Scrollback \in Nat /\ off \in 0..Len(hist)
      /\ hit \in Top..Rows-1 /\ Top..Rows-1 \subseteq Int
  BY TerminalAssumption, LenProperties, <1>1, <1>2 DEF TypeOK, Top
<1>4. hist' = hist /\ screen' = screen /\ Top' = Top
  BY DEF gridVars, Top
<1>5. \A l \in Int : At(l)' = At(l)
  BY <1>4 DEF At
<1>6. /\ round' \in [way : {"none", "down", "up"}, all : SUBSET Int,
                     found : SUBSET Int]
      /\ round'.way = Way(forward) /\ round'.all = now.all
      /\ round'.found = now.found \cup {hit}
  BY <1>1, <1>2, <1>3
<1>7. ASSUME NEW l \in Int
      PROVE  Ahead(Way(forward), hit, l) <=> IF forward THEN hit < l ELSE l < hit
  BY DEF Ahead, Way
<1>8. ASSUME NEW l \in Int, l \in now.found
      PROVE  ~ Ahead(Way(forward), hit, l)
  <2>1. Ahead(Way(forward), l, hit)
    BY <1>1, <1>2, <1>8
  <2>2. hit \in Int
    BY <1>3
  <2>. QED
    BY <2>1, <2>2 DEF Ahead
<1>9. ASSUME NEW l \in now.all
      PROVE  l \in round'.found <=> ~ Ahead(Way(forward), hit, l)
  <2>1. l \in Int /\ hit \in Int
    BY <1>1, <1>3
  <2>2. CASE l \in now.found
    BY <1>6, <1>8, <2>1, <2>2
  <2>3. CASE l \notin now.found
    <3>1. l \in hits
      BY <1>1, <2>3
    <3>2. IF forward THEN hit <= l ELSE l <= hit
      BY <1>2, <3>1
    <3>3. Ahead(Way(forward), hit, l) <=> IF forward THEN hit < l ELSE l < hit
      BY <1>7, <2>1
    <3>4. l \in round'.found <=> l = hit
      BY <1>6, <2>3
    <3>5. l = hit <=> ~ (IF forward THEN hit < l ELSE l < hit)
      <4>1. CASE forward
        BY <2>1, <3>2, <4>1
      <4>2. CASE ~forward
        BY <2>1, <3>2, <4>2
      <4>. QED
        BY <4>1, <4>2
    <3>. QED
      BY <3>3, <3>4, <3>5
  <2>. QED
    BY <2>2, <2>3
<1>10. round'.found = {l \in round'.all : ~Ahead(round'.way, hit, l)}
  <2>1. round'.found \subseteq round'.all
    BY <1>1, <1>2, <1>6
  <2>. QED
    BY <1>6, <1>9, <2>1
<1>11. ASSUME NEW l \in Int, Ahead(Way(forward), hit, l)
       PROVE  l \in now.all <=> l \in Top..Rows-1 /\ At(l).text = p
  <2>1. l \notin now.found
    BY <1>8, <1>11
  <2>2. l \in now.all => l \in Top..Rows-1 /\ At(l).text = p
    BY <1>1, <2>1
  <2>3. l \in Top..Rows-1 /\ At(l).text = p => l \in now.all
    BY <1>1, <1>2, <1>11
  <2>. QED
    BY <2>2, <2>3
<1>12. ASSUME NEW l \in Int, Ahead(round'.way, origin', l)
       PROVE  l \in round'.all <=> l \in Top'..Rows-1 /\ At(l)'.text = pattern'
  BY <1>2, <1>4, <1>5, <1>6, <1>11, <1>12
<1>13. RoundOK'
  <2>1. origin' \in Top'..Rows-1 /\ origin' \in round'.found
    BY <1>2, <1>3, <1>4, <1>6
  <2>2. round'.found = {l \in round'.all : ~Ahead(round'.way, origin', l)}
    BY <1>2, <1>10
  <2>. QED
    BY <1>6, <1>12, <2>1, <2>2 DEF RoundOK
<1>14. ~last'.again
  BY <1>1, <1>2
<1>. QED
  BY <1>13, <1>14

(* Up from the topmost line there is that line again, and the round has    *)
(* all its lines.                                                          *)
LEMMA PinnedRound ==
  ASSUME TypeOK, RoundOK, NEW p \in Texts, NEW forward \in BOOLEAN,
         Pinned(p, forward)
  PROVE  /\ Round(p, forward) = round /\ round.found = round.all
         /\ pattern = p /\ origin = Top /\ ~forward
         /\ Matching(p, forward, Place(p, forward), Searched) \subseteq {Top}
<1>1. Len(hist) \in Nat /\ Rows \in Nat /\ Rows >= 1
  BY TerminalAssumption, LenProperties DEF TypeOK
<1>2. ~forward /\ Start(p) = Top /\ round.way = "up" /\ p \in Narrow
  BY DEF Pinned
<1>3. Top # NoLine
  BY <1>1 DEF Top, NoLine
<1>4. pattern = p /\ origin = Top
  BY <1>2, <1>3 DEF Start
<1>5. Round(p, forward) = round
  BY <1>2, <1>3 DEF Round, Way
<1>6. round.found = round.all
  <2>1. /\ round.found = {l \in round.all : ~Ahead("up", Top, l)}
        /\ \A l \in Int : Ahead("up", Top, l) =>
             (l \in round.all => l \in Top..Rows-1)
        /\ round.all \subseteq Int
    BY <1>2, <1>4 DEF RoundOK
  <2>2. \A l \in Int : Ahead("up", Top, l) => l < Top
    BY DEF Ahead
  <2>3. Top \in Int
    BY <1>1 DEF Top
  <2>4. \A l \in round.all : ~Ahead("up", Top, l)
    BY <1>1, <2>1, <2>2, <2>3
  <2>. QED
    BY <2>1, <2>4
<1>7. Place(p, forward) = 2 * Top
  BY <1>1, <1>2, <1>3 DEF Place, Beside, InGrid, Top
<1>8. ASSUME NEW l \in Matching(p, forward, Place(p, forward), Searched)
      PROVE  l = Top
  <2>1. l \in Top..Rows-1 /\ 2 * l <= 2 * Top
    BY <1>2, <1>7 DEF Matching, Searched, End
  <2>. QED
    BY <1>1, <2>1 DEF Top
<1>. QED
  BY <1>2, <1>4, <1>5, <1>6, <1>8

LEMMA HitPinned ==
  ASSUME TypeOK, RoundOK, NEW p \in Texts, NEW forward \in BOOLEAN,
         NEW hit \in Searched, Hit(p, forward, hit), pattern' = p,
         UNCHANGED gridVars, Pinned(p, forward)
  PROVE  RoundOK' /\ p \in Narrow /\ round'.way = "up" /\ origin' = Top'
<1>1. /\ Round(p, forward) = round /\ pattern = p /\ origin = Top
      /\ hit = Top
  BY PinnedRound DEF Hit, First
<1>2. round.way = "up" /\ p \in Narrow
  BY DEF Pinned
<1>3. Top' = Top /\ \A l \in Int : At(l)' = At(l)
  BY DEF gridVars, Top, At
<1>4. origin' = origin /\ pattern' = pattern
  BY <1>1 DEF Hit
<1>5. origin \in round.found
  BY <1>2 DEF RoundOK
<1>6. round' = [round EXCEPT !.found = @ \cup {hit}]
  BY <1>1 DEF Hit
<1>7. round' = round
  <2>1. round.found \cup {hit} = round.found
    BY <1>1, <1>5
  <2>2. round \in [way : {"none", "down", "up"}, all : SUBSET Int,
                   found : SUBSET Int]
    BY DEF RoundOK
  <2>. QED
    BY <1>6, <2>1, <2>2
<1>8. RoundOK'
  BY <1>3, <1>4, <1>7 DEF RoundOK, Ahead
<1>. QED
  BY <1>1, <1>2, <1>3, <1>4, <1>7, <1>8

(* The viewport holds the row of a hit.                                    *)
LEMMA HitKeeps ==
  ASSUME TypeOK, RoundOK, NEW p \in Texts, NEW forward \in BOOLEAN,
         NEW hit \in Searched, Hit(p, forward, hit), pattern' = p,
         UNCHANGED gridVars
  PROVE  /\ origin' \in (-Scrollback)..Rows /\ off' \in 0..Len(hist)
         /\ RoundOK' /\ SearchTrue'
<1>1. /\ hit \in Matching(p, forward, Place(p, forward), Searched)
      /\ origin' = hit /\ off' = Clamped(Reaching(hit))
      /\ last'.kind = "hit" /\ last'.row = hit + off' + 1
  BY DEF Hit, First
<1>2. hit \in Top..Rows-1 /\ At(hit).text = p
  BY <1>1 DEF Matching, Searched
<1>3. /\ Len(hist) \in Nat /\ Len(hist) <= Scrollback /\ Rows \in Nat
      /\ Rows >= 1 /\ Scrollback \in Nat /\ off \in 0..Len(hist)
  BY TerminalAssumption, LenProperties DEF TypeOK
<1>4. hit \in Int /\ -Len(hist) <= hit /\ hit <= Rows - 1
  BY <1>2, <1>3 DEF Top
<1>5. off' \in 0..Len(hist) /\ hit + off' + 1 \in 1..Rows
  <2>1. Reaching(hit) \in 0..Len(hist) /\ hit + Reaching(hit) + 1 \in 1..Rows
    <3>1. CASE hit < -off
      BY <1>3, <1>4, <3>1 DEF Reaching
    <3>2. CASE ~(hit < -off) /\ hit > Rows - 1 - off
      BY <1>3, <1>4, <3>2 DEF Reaching
    <3>3. CASE ~(hit < -off) /\ ~(hit > Rows - 1 - off)
      BY <1>3, <1>4, <3>3 DEF Reaching
    <3>. QED
      BY <3>1, <3>2, <3>3
  <2>2. Clamped(Reaching(hit)) = Reaching(hit)
    BY <1>3, <2>1 DEF Clamped
  <2>. QED
    BY <1>1, <2>1, <2>2
<1>6. origin' \in (-Scrollback)..Rows
  BY <1>1, <1>3, <1>4
<1>7. At(LineOf(last.row))' = At(hit)
  <2>1. LineOf(last.row)' = last'.row - 1 - off'
    BY DEF LineOf
  <2>2. off' \in Int
    BY <1>3, <1>5
  <2>3. \A m, n \in Int : (m + n + 1) - 1 - n = m
    OBVIOUS
  <2>4. LineOf(last.row)' = hit
    BY <1>1, <1>4, <2>1, <2>2, <2>3
  <2>5. hist' = hist /\ screen' = screen
    BY DEF gridVars
  <2>. QED
    BY <2>4, <2>5 DEF At
<1>8. CASE Pinned(p, forward)
  <2>1. RoundOK' /\ p \in Narrow /\ round'.way = "up" /\ origin' = Top'
    BY <1>8, HitPinned
  <2>2. SearchTrue'
    BY <1>1, <1>2, <1>5, <1>7, <2>1 DEF SearchTrue
  <2>. QED
    BY <1>5, <1>6, <2>1, <2>2
<1>9. CASE ~Pinned(p, forward)
  <2>1. RoundOK' /\ ~last'.again
    BY <1>9, HitNew
  <2>2. SearchTrue'
    BY <1>1, <1>2, <1>5, <1>7, <2>1 DEF SearchTrue
  <2>. QED
    BY <1>5, <1>6, <2>1, <2>2
<1>. QED
  BY <1>8, <1>9

(* A miss: what the round found are all its lines with the text.           *)
LEMMA MissKeeps ==
  ASSUME TypeOK, RoundOK, NEW p \in Texts, NEW forward \in BOOLEAN,
         Miss(p, forward)
  PROVE  /\ origin' \in (-Scrollback)..Rows /\ off' \in 0..Len(hist)
         /\ RoundOK' /\ SearchTrue'
<1>1. ASSUME ~Pinned(p, forward)
      PROVE  Round(p, forward).found = Round(p, forward).all
  <2>1. LET now  == Round(p, forward)
            hits == Matching(p, forward, Place(p, forward), Searched)
        IN  now.found \subseteq now.all /\ hits = now.all \ now.found
    BY <1>1, Now
  <2>2. Round(p, forward).found = Round(p, forward).all
    BY <2>1 DEF Miss
  <2>. QED
    BY <2>2
<1>2. Round(p, forward).found = Round(p, forward).all
  BY <1>1, PinnedRound
<1>3. SearchTrue'
  BY <1>2 DEF Miss, SearchTrue
<1>4. round' = NoRound
  BY DEF Miss
<1>5. RoundOK'
  BY <1>4 DEF RoundOK, NoRound
<1>6. Rows \in Nat /\ Scrollback \in Nat
  BY TerminalAssumption
<1>. QED
  BY <1>3, <1>5, <1>6 DEF Miss, NoLine, TypeOK

-----------------------------------------------------------------------------
(* The specification.                                                      *)

(* All but the types.                                                      *)
Truths == LinksSound /\ Order /\ FrameInv /\ RoundOK /\ SearchTrue

(* The grid as it was.                                                     *)
LEMMA GridStays ==
  ASSUME UNCHANGED gridVars
  PROVE  /\ hist' = hist /\ screen' = screen /\ cur' = cur /\ atStart' = atStart
         /\ Top' = Top
         /\ \A l \in Int : At(l)' = At(l)
<1>1. hist' = hist /\ screen' = screen /\ cur' = cur /\ atStart' = atStart
  BY DEF gridVars
<1>. QED
  BY <1>1 DEF Top, At

(* Over the same grid a round and the last result stay what they are.      *)
LEMMA RoundStays ==
  ASSUME RoundOK, UNCHANGED <<gridVars, pattern, origin, round>>
  PROVE  RoundOK'
<1>1. Top' = Top /\ \A l \in Int : At(l)' = At(l)
  BY GridStays
<1>2. pattern' = pattern /\ origin' = origin /\ round' = round
  OBVIOUS
<1>. QED
  BY <1>1, <1>2 DEF RoundOK, Ahead

LEMMA ResultStays ==
  ASSUME TypeOK, SearchTrue,
         UNCHANGED <<gridVars, off, pattern, origin, round, last>>
  PROVE  SearchTrue'
<1>1. hist' = hist /\ screen' = screen /\ Top' = Top
  BY GridStays
<1>2. /\ off' = off /\ pattern' = pattern /\ last' = last
      /\ origin' = origin /\ round' = round
  OBVIOUS
<1>3. At(LineOf(last.row))' = At(LineOf(last.row))
  BY <1>1, <1>2 DEF At, LineOf
<1>. QED
  BY <1>1, <1>2, <1>3 DEF SearchTrue

(* Over the same viewport the frame taken last stays current.              *)
LEMMA FrameStays ==
  ASSUME FrameInv, UNCHANGED <<gridVars, off, frameVars, pumpOwes, hostOwes>>,
         ~moved' => ~moved
  PROVE  FrameInv'
<1>1. hist' = hist /\ screen' = screen /\ cur' = cur
  BY GridStays
<1>2. /\ off' = off /\ links' = links /\ prev' = prev /\ frame' = frame
      /\ taken' = taken /\ newest' = newest /\ stale' = stale
  BY DEF frameVars
<1>3. ASSUME NEW r \in 1..Rows PROVE At(r - 1 - off)' = At(r - 1 - off)
  BY <1>1, <1>2 DEF At
<1>4. Newest' = Newest /\ (newest \in Holding)' = (newest \in Holding)
  BY <1>2 DEF Newest, Holding
<1>. QED
  BY <1>1, <1>2, <1>3, <1>4 DEF FrameInv, Shows

(* A new viewport that still has a render to come.                         *)
LEMMA FrameToCome ==
  ASSUME pumpOwes' = TRUE \/ hostOwes' = TRUE
  PROVE  FrameInv'
BY DEF FrameInv

(* The frames stay with the threads.                                       *)
LEMMA OrderStays ==
  ASSUME Order, UNCHANGED frameVars,
         pumpOwes' => pumpOwes \/ "pump" \notin Holding,
         hostOwes' => hostOwes \/ "host" \notin Holding
  PROVE  Order'
<1>1. taken' = taken /\ newest' = newest /\ late' = late
  BY DEF frameVars
<1>2. Holding' = Holding
  BY <1>1 DEF Holding
<1>. QED
  BY <1>1, <1>2 DEF Order

(* A grid that changes ends the round and the result.                      *)
LEMMA RoundEnds ==
  ASSUME round' = NoRound, last' = None
  PROVE  RoundOK' /\ SearchTrue'
BY DEF RoundOK, SearchTrue, NoRound, None

LEMMA Begins == Init => TypeOK /\ Truths
<1>. SUFFICES ASSUME Init PROVE TypeOK /\ Truths
  OBVIOUS
<1>1. Rows \in Nat /\ Rows >= 1 /\ Scrollback \in Nat
  BY TerminalAssumption
<1>2. hist \in Seq(Line) /\ Len(hist) = 0 /\ Len(hist) <= Scrollback
  BY <1>1, EmptySeq DEF Init
<1>3. Empty \in Line
  BY DEF Line
<1>4. DOMAIN links = {} /\ links \in [DOMAIN links -> Uris]
  <2>1. links = <<>> /\ DOMAIN links = {}
    BY DEF Init
  <2>. QED
    BY <2>1
<1>5. TypeOK
  <2>1. /\ screen \in [1..Rows -> Line] /\ cur \in 1..Rows
        /\ origin \in (-Scrollback)..Rows /\ off \in 0..Len(hist)
    BY <1>1, <1>2, <1>3 DEF Init, NoLine
  <2>2. NoFrame.cursor = 0 /\ 0 \in 0..Rows
    BY <1>1 DEF NoFrame
  <2>3. /\ DOMAIN taken = Threads /\ frame.cursor \in 0..Rows
        /\ \A t \in Threads : taken[t].cursor \in 0..Rows
    BY <2>2 DEF Init
  <2>4. /\ atStart \in BOOLEAN /\ pattern \in Texts \cup {Blank} /\ prev = <<>>
        /\ newest \in Threads /\ late \subseteq Threads /\ stale \in BOOLEAN
    BY DEF Init, Threads
  <2>. QED
    BY <1>1, <1>2, <1>4, <2>1, <2>3, <2>4, Zenon DEF TypeOK
<1>6. LinksSound
  BY <1>4 DEF LinksSound
<1>7. Order /\ FrameInv
  BY DEF Init, Order, FrameInv, Holding, Threads
<1>8. RoundOK /\ SearchTrue
  BY DEF Init, RoundOK, SearchTrue, NoRound, None
<1>. QED
  BY <1>5, <1>6, <1>7, <1>8 DEF Truths

LEMMA AdvanceKeeps ==
  ASSUME TypeOK, Truths, Advance
  PROVE  TypeOK' /\ Truths'
<1>1. PICK c \in Outputs : WriteLine(c) \/ \E r \in 1..Rows : WriteAt(r, c)
  BY DEF Advance
<1>2. /\ pumpOwes' = TRUE /\ round' = NoRound /\ last' = None
      /\ pattern' = pattern /\ origin' = origin /\ links' = links
      /\ hostOwes' = hostOwes /\ "pump" \notin Holding /\ UNCHANGED frameVars
  BY DEF Advance, searchVars, frameVars
<1>3. /\ hist' \in Seq(Line) /\ Len(hist') <= Scrollback
      /\ screen' \in [1..Rows -> Line] /\ cur' \in 1..Rows
      /\ off' \in 0..Len(hist') /\ atStart' \in BOOLEAN
  <2>1. CASE WriteLine(c)
    BY <2>1, WriteLineKeeps
  <2>2. CASE \E r \in 1..Rows : WriteAt(r, c)
    BY <2>2 DEF WriteAt, TypeOK, Line
  <2>. QED
    BY <1>1, <2>1, <2>2
<1>4. TypeOK'
  BY <1>2, <1>3 DEF TypeOK, frameVars
<1>5. Order'
  BY <1>2, OrderStays DEF Truths
<1>6. Truths'
  BY <1>2, <1>5, FrameToCome, RoundEnds DEF Truths, LinksSound
<1>. QED
  BY <1>4, <1>6

LEMMA SnapshotKeeps ==
  ASSUME TypeOK, Truths, NEW t \in Threads, Snapshot(t), t \notin Holding,
         UNCHANGED <<gridVars, off, searchVars, round, last>>,
         pumpOwes' => pumpOwes /\ t # "pump",
         hostOwes' => hostOwes /\ t # "host"
  PROVE  TypeOK' /\ Truths'
<1>1. /\ links' \in [DOMAIN links' -> Uris] /\ LinksSound'
      /\ DOMAIN prev' = 1..Rows
      /\ taken'[t].cursor \in 0..Rows /\ taken'[t] # NoFrame
      /\ Shows(taken[t])'
  BY SnapshotShows DEF Truths
<1>2. /\ hist' = hist /\ screen' = screen /\ cur' = cur /\ atStart' = atStart
      /\ off' = off /\ pattern' = pattern /\ origin' = origin
  BY GridStays DEF searchVars
<1>3. /\ newest' = t /\ late' = late /\ stale' = stale /\ frame' = frame
      /\ DOMAIN taken' = Threads
      /\ \A x \in Threads : x # t => taken'[x] = taken[x]
  BY DEF Snapshot, TypeOK
<1>4. Holding' = Holding \cup {t}
  BY <1>1, <1>3 DEF Holding
<1>5. TypeOK'
  BY <1>1, <1>2, <1>3 DEF TypeOK
<1>6. Order'
  BY <1>3, <1>4 DEF Truths, Order
<1>7. FrameInv'
  <2>1. Newest' = taken'[t]
    BY <1>3, <1>4 DEF Newest
  <2>2. Shows(Newest)'
    BY <1>1, <1>3, <2>1 DEF Shows
  <2>. QED
    BY <2>2 DEF FrameInv
<1>8. RoundOK'
  BY <1>2, RoundStays DEF Truths
<1>9. SearchTrue'
  BY <1>2, ResultStays DEF Truths
<1>. QED
  BY <1>1, <1>5, <1>6, <1>7, <1>8, <1>9 DEF Truths

(* The newest frame is delivered, one that the newest will come after, or  *)
(* one that it came before: then the host's frame is stale.                *)
LEMMA DeliverKeeps ==
  ASSUME TypeOK, Truths, NEW t \in Threads, Deliver(t)
  PROVE  TypeOK' /\ Truths'
<1>1. /\ UNCHANGED gridVars /\ UNCHANGED <<off, pattern, origin, links, prev>>
      /\ UNCHANGED <<newest, pumpOwes, hostOwes, moved, round, last>>
      /\ t \in Holding
      /\ frame' = taken[t] /\ taken' = [taken EXCEPT ![t] = NoFrame]
      /\ stale' = (t \in late)
      /\ late' = IF t = newest THEN Holding \ {t} ELSE late \ {t}
  BY DEF Deliver, searchVars
<1>2. hist' = hist /\ screen' = screen /\ cur' = cur /\ atStart' = atStart
  BY <1>1, GridStays
<1>3. /\ DOMAIN taken' = Threads /\ taken'[t] = NoFrame
      /\ \A x \in Threads : x # t => taken'[x] = taken[x]
  BY <1>1 DEF TypeOK
<1>4. Holding' = Holding \ {t}
  BY <1>3 DEF Holding
<1>5. TypeOK'
  <2>1. late' \subseteq Threads /\ stale' \in BOOLEAN
    BY <1>1 DEF TypeOK, Holding
  <2>2. \A x \in Threads : taken'[x].cursor \in 0..Rows
    <3>1. NoFrame.cursor = 0 /\ 0 \in 0..Rows
      BY TerminalAssumption DEF NoFrame
    <3>. QED
      BY <1>3, <3>1 DEF TypeOK
  <2>3. frame'.cursor \in 0..Rows
    BY <1>1 DEF TypeOK
  <2>. QED
    BY <1>1, <1>2, <1>3, <2>1, <2>2, <2>3 DEF TypeOK
<1>6. Order'
  BY <1>1, <1>3, <1>4 DEF Truths, Order
<1>7. FrameInv'
  <2>. SUFFICES ASSUME prev # <<>>, ~pumpOwes, ~hostOwes, ~moved,
                       newest \in Holding' \/ ~stale'
                PROVE  Shows(Newest)'
    BY <1>1 DEF FrameInv
  <2>1. Newest' = Newest /\ newest \in Holding
    <3>1. CASE t = newest
      BY <1>1, <1>4, <3>1 DEF Newest
    <3>2. CASE t # newest
      <4>1. newest \in Holding
        BY <1>1, <1>4, <3>2 DEF Truths, Order
      <4>2. newest \in Holding' /\ taken'[newest] = taken[newest]
        BY <1>3, <1>4, <3>2, <4>1 DEF TypeOK
      <4>. QED
        BY <1>1, <4>1, <4>2 DEF Newest
    <3>. QED
      BY <3>1, <3>2
  <2>2. Shows(Newest)
    BY <2>1 DEF Truths, FrameInv
  <2>3. ASSUME NEW r \in 1..Rows PROVE At(r - 1 - off)' = At(r - 1 - off)
    BY <1>1, <1>2 DEF At
  <2>. QED
    BY <1>1, <1>2, <2>1, <2>2, <2>3 DEF Shows
<1>8. RoundOK'
  BY <1>1, RoundStays DEF Truths
<1>9. SearchTrue'
  BY <1>1, ResultStays DEF Truths
<1>. QED
  BY <1>1, <1>5, <1>6, <1>7, <1>8, <1>9 DEF Truths, LinksSound

LEMMA ScrollKeeps ==
  ASSUME TypeOK, Truths, Scroll
  PROVE  TypeOK' /\ Truths'
<1>1. PICK n \in {-Rows, -1, 1, Rows, -Len(hist), Len(hist)} :
        off' = Clamped(off + n)
  BY DEF Scroll
<1>2. /\ hostOwes' = TRUE /\ last' = None /\ round' = round
      /\ pattern' = pattern /\ origin' = origin /\ links' = links
      /\ pumpOwes' = pumpOwes /\ "host" \notin Holding
      /\ UNCHANGED frameVars /\ UNCHANGED gridVars
  BY DEF Scroll, Operation, searchVars, frameVars
<1>3. Len(hist) \in Nat /\ Rows \in Nat /\ off \in 0..Len(hist)
  BY TerminalAssumption, LenProperties DEF TypeOK
<1>4. off' \in 0..Len(hist)
  BY <1>1, <1>3 DEF Clamped
<1>5. hist' = hist /\ screen' = screen /\ cur' = cur /\ atStart' = atStart
  BY <1>2, GridStays
<1>6. TypeOK'
  BY <1>2, <1>4, <1>5 DEF TypeOK, frameVars
<1>7. SearchTrue'
  BY <1>2 DEF SearchTrue, None
<1>8. RoundOK'
  BY <1>2, RoundStays DEF Truths
<1>9. Order'
  BY <1>2, OrderStays DEF Truths
<1>. QED
  BY <1>2, <1>6, <1>7, <1>8, <1>9, FrameToCome DEF Truths, LinksSound

LEMMA ClearKeeps ==
  ASSUME TypeOK, Truths, ClearHistory \/ ResetState
  PROVE  TypeOK' /\ Truths'
<1>1. /\ hist' = <<>> /\ off' = 0 /\ hostOwes' = TRUE
      /\ round' = NoRound /\ last' = None
      /\ pattern' = pattern /\ origin' = origin /\ links' = links
      /\ pumpOwes' = pumpOwes /\ "host" \notin Holding /\ UNCHANGED frameVars
  BY DEF ClearHistory, ResetState, Operation, searchVars, frameVars
<1>2. /\ Rows \in Nat /\ Rows >= 1 /\ Scrollback \in Nat
      /\ hist' \in Seq(Line) /\ Len(hist') = 0
  BY <1>1, TerminalAssumption, EmptySeq
<1>3. screen' \in [1..Rows -> Line] /\ cur' \in 1..Rows /\ atStart' \in BOOLEAN
  <2>1. CASE ClearHistory
    BY <2>1 DEF ClearHistory, TypeOK
  <2>2. CASE ResetState
    BY <1>2, <2>2 DEF ResetState, Line
  <2>. QED
    BY <2>1, <2>2
<1>4. TypeOK'
  BY <1>1, <1>2, <1>3 DEF TypeOK, frameVars
<1>5. Order'
  BY <1>1, OrderStays DEF Truths
<1>. QED
  BY <1>1, <1>4, <1>5, FrameToCome, RoundEnds DEF Truths, LinksSound

LEMMA SearchKeeps ==
  ASSUME TypeOK, Truths, NEW p \in Texts, NEW forward \in BOOLEAN,
         SearchNext(p, forward)
  PROVE  TypeOK' /\ Truths'
<1>1. /\ pattern' = p /\ links' = links
      /\ pumpOwes' = pumpOwes /\ hostOwes' = hostOwes
      /\ UNCHANGED gridVars /\ UNCHANGED frameVars
  BY DEF SearchNext, frameVars
<1>2. /\ origin' \in (-Scrollback)..Rows /\ off' \in 0..Len(hist)
      /\ RoundOK' /\ SearchTrue' /\ (~moved' => ~moved /\ off' = off)
  <2>1. ASSUME NEW hit \in Searched, Hit(p, forward, hit)
        PROVE  /\ origin' \in (-Scrollback)..Rows /\ off' \in 0..Len(hist)
               /\ RoundOK' /\ SearchTrue' /\ (~moved' => ~moved /\ off' = off)
    <3>1. ~moved' => ~moved /\ off' = off
      BY <2>1 DEF Hit
    <3>. QED
      BY <1>1, <2>1, <3>1, HitKeeps DEF Truths
  <2>2. CASE Miss(p, forward)
    <3>1. ~moved' => ~moved /\ off' = off
      BY <2>2 DEF Miss
    <3>. QED
      BY <2>2, <3>1, MissKeeps DEF Truths
  <2>. QED
    BY <2>1, <2>2 DEF SearchNext
<1>3. hist' = hist /\ screen' = screen /\ cur' = cur /\ atStart' = atStart
  BY <1>1, GridStays
<1>4. TypeOK'
  BY <1>1, <1>2, <1>3 DEF TypeOK, frameVars
<1>5. FrameInv'
  <2>1. CASE moved'
    BY <2>1 DEF FrameInv
  <2>2. CASE ~moved'
    BY <1>1, <1>2, <2>2, FrameStays DEF Truths
  <2>. QED
    BY <2>1, <2>2
<1>6. Order'
  BY <1>1, OrderStays DEF Truths
<1>. QED
  BY <1>1, <1>2, <1>4, <1>5, <1>6 DEF Truths, LinksSound

LEMMA StutterKeeps ==
  ASSUME TypeOK, Truths, UNCHANGED vars
  PROVE  TypeOK' /\ Truths'
<1>1. /\ UNCHANGED gridVars /\ UNCHANGED frameVars
      /\ UNCHANGED <<off, pattern, origin, pumpOwes, hostOwes, moved, round, last>>
  BY DEF vars, searchVars
<1>2. /\ hist' = hist /\ screen' = screen /\ cur' = cur /\ atStart' = atStart
      /\ links' = links
  BY <1>1, GridStays DEF frameVars
<1>3. TypeOK'
  BY <1>1, <1>2 DEF TypeOK, frameVars
<1>4. Order' /\ FrameInv'
  BY <1>1, OrderStays, FrameStays DEF Truths
<1>5. RoundOK' /\ SearchTrue'
  BY <1>1, RoundStays, ResultStays DEF Truths
<1>. QED
  BY <1>2, <1>3, <1>4, <1>5 DEF Truths, LinksSound

LEMMA StepKeeps == TypeOK /\ Truths /\ [Next]_vars => TypeOK' /\ Truths'
<1>. SUFFICES ASSUME TypeOK, Truths, [Next]_vars PROVE TypeOK' /\ Truths'
  OBVIOUS
<1>1. CASE Advance
  BY <1>1, AdvanceKeeps
<1>2. CASE PumpSnapshot
  <2>1. "pump" \in Threads /\ "pump" \notin Holding /\ "host" # "pump"
    BY <1>2 DEF PumpSnapshot, Truths, Order, Threads
  <2>. QED
    BY <1>2, <2>1, SnapshotKeeps DEF PumpSnapshot
<1>3. CASE RequestRender
  <2>1. "host" \in Threads /\ "host" \notin Holding /\ "host" # "pump"
    BY <1>3 DEF RequestRender, Truths, Order, Threads
  <2>. QED
    BY <1>3, <2>1, SnapshotKeeps DEF RequestRender
<1>4. CASE Scroll
  BY <1>4, ScrollKeeps
<1>5. CASE ClearHistory \/ ResetState
  BY <1>5, ClearKeeps
<1>6. CASE \E p \in Texts, forward \in BOOLEAN : SearchNext(p, forward)
  BY <1>6, SearchKeeps
<1>7. CASE \E t \in Threads : Deliver(t)
  BY <1>7, DeliverKeeps
<1>8. CASE UNCHANGED vars
  BY <1>8, StutterKeeps
<1>. QED
  BY <1>1, <1>2, <1>3, <1>4, <1>5, <1>6, <1>7, <1>8 DEF Next

LEMMA Always == Spec => [](TypeOK /\ Truths)
BY Begins, StepKeeps, PTL DEF Spec

(* The state has its types: the viewport stays within the scrollback, the  *)
(* screen keeps its rows (term.rs 194-235, 470-501).                       *)
THEOREM Typed == Spec => []TypeOK
BY Always, PTL

(* With no render to come and none on its way, the host's frame is the     *)
(* viewport with its cursor and links, unless it came after a later one    *)
(* (term.rs 470-501, session.rs 240-254, 379-388, 481-485).                *)
THEOREM FrameTrue == Spec => []FrameCurrent
<1>1. TypeOK /\ Truths => FrameCurrent
  BY DEF Truths, FrameInv, FrameCurrent, Settled, Newest
<1>. QED
  BY <1>1, Always, PTL

(* A hit is in the row that is returned; a round of searches leaves none   *)
(* out and returns none twice, but one of one column in the topmost line   *)
(* (term.rs 289-377).                                                      *)
THEOREM SearchesTrue == Spec => []SearchTrue
<1>1. TypeOK /\ Truths => SearchTrue
  BY DEF Truths
<1>. QED
  BY <1>1, Always, PTL

-----------------------------------------------------------------------------
(* Dirty rectangles.                                                       *)

(* A set of natural numbers has a least element.                           *)
LEMMA Least ==
  ASSUME NEW S \in SUBSET Nat, S # {}
  PROVE  \E m \in S : \A k \in S : m <= k
<1>1. PICK m \in S : \A k \in S : ~(k < m)
  <2>1. PICK m \in S : \A k \in S : <<k, m>> \notin OpToRel(<, Nat)
    BY NatLessThanWellFounded, WFMin, Zenon
  <2>2. \A k \in S : ~(k < m)
    BY <2>1, Zenon DEF OpToRel
  <2>. QED
    BY <2>2, Zenon
<1>. QED
  BY <1>1

(* What row y adds to the rectangles of the rows above it.                 *)
With(above, y, same) ==
  LET n == Len(above)
  IN  IF same THEN above
      ELSE IF n > 0 /\ above[n].y + above[n].h = y
           THEN [above EXCEPT ![n] = Joined(@)]
           ELSE Append(above, [y |-> y, h |-> 1])

(* The rectangles of rows 1..y, f being those of the rows before.          *)
RectsAt(old, new, f, y) ==
  IF y = 0 THEN <<>> ELSE With(f[y-1], y, Same(old[y], new[y]))

(* The recursion has a solution: one for the first rows is extended to the *)
(* row after them.                                                         *)
LEMMA RectsExist ==
  ASSUME NEW old, NEW new
  PROVE  \E f : f = [y \in 0..Rows |-> RectsAt(old, new, f, y)]
<1>. DEFINE D == 0..Rows
            UpTo(k, f) == /\ DOMAIN f = D
                          /\ \A y \in D : y < k => f[y] = RectsAt(old, new, f, y)
            Bad == {k \in Nat : k <= Rows + 1 /\ ~ \E f : f = [y \in D |-> f[y]]
                                                       /\ UpTo(k, f)}
<1>1. Rows \in Nat
  BY TerminalAssumption
<1>2. Bad = {}
  <2>. SUFFICES ASSUME Bad # {} PROVE FALSE
    OBVIOUS
  <2>1. PICK k \in Bad : \A j \in Bad : k <= j
    <3>. HIDE DEF UpTo
    <3>1. Bad \in SUBSET Nat
      BY Zenon
    <3>. HIDE DEF Bad
    <3>. QED
      BY <3>1, Least, Zenon
  <2>2. k \in Nat /\ k <= Rows + 1
    BY Zenon
  <2>3. CASE k = 0
    <3>1. PICK f : f = [y \in D |-> <<>>]
      BY Zenon
    <3>2. f = [y \in D |-> f[y]] /\ DOMAIN f = D
      BY <3>1, Zenon
    <3>3. \A y \in D : ~(y < k)
      <4>. HIDE DEF Bad
      <4>. QED
        BY <1>1, <2>3
    <3>4. UpTo(k, f)
      <4>. HIDE DEF D
      <4>. QED
        BY <3>2, <3>3, Zenon
    <3>. QED
      BY <3>2, <3>4, Zenon
  <2>4. CASE k # 0
    <3>. DEFINE p == k - 1
    <3>1. /\ p \in Nat /\ p <= Rows + 1 /\ ~(k <= p) /\ p \in D
          /\ \A y \in D : y < k => y = p \/ y < p
          /\ \A y \in D : y < k /\ y # 0 => y - 1 \in D /\ y - 1 # p
      <4>. HIDE DEF Bad
      <4>. QED
        BY <1>1, <2>2, <2>4
    <3>. HIDE DEF p
    <3>2. p \notin Bad
      <4>. HIDE DEF Bad
      <4>. QED
        BY <2>1, <3>1, Zenon
    <3>3. PICK f : f = [y \in D |-> f[y]] /\ UpTo(p, f)
      <4>. HIDE DEF UpTo, D
      <4>. QED
        BY <3>1, <3>2, Zenon
    <3>. DEFINE g == [y \in D |-> IF y = p THEN RectsAt(old, new, f, y) ELSE f[y]]
    <3>4. /\ DOMAIN g = D
          /\ \A y \in D : g[y] = IF y = p THEN RectsAt(old, new, f, y) ELSE f[y]
      <4>. HIDE DEF D
      <4>. QED
        BY Zenon
    <3>. HIDE DEF g
    <3>5. ASSUME NEW y \in D, y < k PROVE g[y] = RectsAt(old, new, g, y)
      <4>1. y # 0 => g[y - 1] = f[y - 1]
        BY <3>1, <3>4, <3>5, Zenon
      <4>2. RectsAt(old, new, g, y) = RectsAt(old, new, f, y)
        BY <4>1, Zenon DEF RectsAt
      <4>3. CASE y = p
        BY <3>4, <4>2, <4>3, Zenon
      <4>4. CASE y # p
        <5>1. f[y] = RectsAt(old, new, f, y)
          BY <3>1, <3>3, <3>5, <4>4, Zenon
        <5>. QED
          BY <3>4, <4>2, <4>4, <5>1, Zenon
      <4>. QED
        BY <4>3, <4>4
    <3>6. g = [y \in D |-> g[y]]
      <4>. HIDE DEF D
      <4>. QED
        BY Zenon DEF g
    <3>7. UpTo(k, g)
      BY <3>4, <3>5, Zenon
    <3>8. k \notin Bad
      <4>. HIDE DEF UpTo, D
      <4>. QED
        BY <3>6, <3>7, Zenon
    <3>. QED
      BY <3>8
  <2>. QED
    BY <2>3, <2>4
<1>3. PICK f : f = [y \in D |-> f[y]] /\ UpTo(Rows + 1, f)
  <2>1. Rows + 1 \in Nat /\ Rows + 1 <= Rows + 1
    BY <1>1
  <2>2. Rows + 1 \notin Bad
    BY <1>2, Zenon
  <2>. HIDE DEF UpTo, D
  <2>. QED
    BY <2>1, <2>2, Zenon
<1>4. \A y \in D : y < Rows + 1
  BY <1>1
<1>5. \A y \in D : f[y] = RectsAt(old, new, f, y)
  BY <1>3, <1>4, Zenon
<1>6. f = [y \in D |-> RectsAt(old, new, f, y)]
  <2>. HIDE DEF D
  <2>. QED
    BY <1>3, <1>5, Zenon
<1>. QED
  BY <1>6, Zenon

(* coalesce solves it.                                                     *)
LEMMA RectsIs ==
  ASSUME NEW old, NEW new
  PROVE  \E f : /\ \A y \in 0..Rows : f[y] = RectsAt(old, new, f, y)
                /\ Rects(old, new) = f[Rows]
<1>. DEFINE F == CHOOSE f : f = [y \in 0..Rows |-> RectsAt(old, new, f, y)]
<1>1. F = [y \in 0..Rows |-> RectsAt(old, new, F, y)]
  BY RectsExist, Zenon
<1>2. Rects(old, new) = F[Rows]
  BY Zenon DEF Rects, RectsAt, With
<1>. HIDE DEF F
<1>3. \A y \in 0..Rows : F[y] = RectsAt(old, new, F, y)
  BY <1>1, Zenon
<1>. QED
  BY <1>2, <1>3, Zenon

(* The rectangles of rows 1..y: in order, apart, and over the changed rows *)
(* and no others.                                                          *)
Over(rects, r) == \E i \in 1..Len(rects) : /\ rects[i].y <= r
                                           /\ r < rects[i].y + rects[i].h
Apart(rects) == \A i \in 1..Len(rects)-1 : rects[i].y + rects[i].h < rects[i+1].y
Exact(old, new, rects, y) ==
  /\ rects \in Seq([y : Nat, h : Nat])
  /\ \A i \in 1..Len(rects) : rects[i].y >= 1 /\ rects[i].y + rects[i].h <= y + 1
  /\ Apart(rects)
  /\ \A r \in 1..y : Over(rects, r) <=> ~Same(old[r], new[r])

(* Row y keeps it so: it is in no rectangle, in the last one grown by a    *)
(* row, or in one of its own.                                              *)
LEMMA WithExact ==
  ASSUME NEW old, NEW new, NEW y \in Nat \ {0}, NEW above,
         Exact(old, new, above, y - 1)
  PROVE  Exact(old, new, With(above, y, Same(old[y], new[y])), y)
<1>. DEFINE n == Len(above)
            R == [y : Nat, h : Nat]
            w == With(above, y, Same(old[y], new[y]))
<1>1. /\ above \in Seq(R) /\ n \in Nat
      /\ \A i \in 1..n : above[i] \in R
      /\ \A i \in 1..n : above[i].y \in Nat /\ above[i].h \in Nat
      /\ \A i \in 1..n : above[i].y >= 1 /\ above[i].y + above[i].h <= y
      /\ \A i \in 1..n-1 : above[i].y + above[i].h < above[i+1].y
      /\ \A r \in 1..y-1 : Over(above, r) <=> ~Same(old[r], new[r])
  <2>1. above \in Seq(R) /\ n \in Nat /\ \A i \in 1..n : above[i] \in R
    BY LenProperties, ElementOfSeq DEF Exact
  <2>2. \A i \in 1..n : above[i].y \in Nat /\ above[i].h \in Nat
    BY <2>1
  <2>3. y - 1 + 1 = y
    OBVIOUS
  <2>. QED
    BY <2>1, <2>2, <2>3, Zenon DEF Exact, Apart
(* The sums of a row and a height.                                         *)
<1>2. \A p, q \in Nat :
        /\ p + q <= y => p + q <= y + 1 /\ ~(y < p + q)
        /\ p + q <= y /\ p + q # y => p + q < y
        /\ p + q = y => /\ p <= y /\ y < p + (q + 1) /\ p + (q + 1) <= y + 1
                       /\ \A r \in 1..y-1 : r < p + (q + 1) <=> r < p + q
  OBVIOUS
<1>3. CASE Same(old[y], new[y])
  <2>1. w = above
    BY <1>3, Zenon DEF With
  <2>2. \A i \in 1..n : above[i].y >= 1 /\ above[i].y + above[i].h <= y + 1
    BY <1>1, <1>2, Zenon
  <2>3. ~Over(above, y)
    BY <1>1, <1>2, Zenon DEF Over
  <2>4. \A r \in 1..y : r \in 1..y-1 \/ r = y
    OBVIOUS
  <2>5. \A r \in 1..y : Over(above, r) <=> ~Same(old[r], new[r])
    BY <1>1, <1>3, <2>3, <2>4, Zenon
  <2>. QED
    BY <1>1, <2>1, <2>2, <2>5, Zenon DEF Exact, Apart
<1>4. CASE ~Same(old[y], new[y]) /\ n > 0 /\ above[n].y + above[n].h = y
  <2>1. w = [above EXCEPT ![n] = Joined(@)]
    BY <1>4, Zenon DEF With
  <2>2. n \in 1..n
    BY <1>1, <1>4
  <2>3. Joined(above[n]) \in R /\ Joined(above[n]).y = above[n].y
        /\ Joined(above[n]).h = above[n].h + 1
    <3>1. \A rect \in R : Joined(rect) \in R /\ Joined(rect).y = rect.y
                          /\ Joined(rect).h = rect.h + 1
      BY DEF Joined
    <3>. QED
      BY <1>1, <2>2, <3>1, Zenon
  <2>4. /\ w \in Seq(R) /\ Len(w) = n /\ w[n] = Joined(above[n])
        /\ \A i \in 1..n : i # n => w[i] = above[i]
    BY <1>1, <2>1, <2>2, <2>3, ExceptSeq
  <2>. HIDE DEF w
  <2>5. /\ \A i \in 1..n : w[i].y = above[i].y
        /\ \A i \in 1..n : i # n => w[i].h = above[i].h
        /\ w[n].h = above[n].h + 1
    BY <2>3, <2>4, Zenon
  <2>6. \A i \in 1..n : w[i].y >= 1 /\ w[i].y + w[i].h <= y + 1
    <3>. TAKE i \in 1..n
    <3>1. CASE i = n
      BY <1>1, <1>2, <1>4, <2>2, <2>5, <3>1, Zenon
    <3>2. CASE i # n
      BY <1>1, <1>2, <2>5, <3>2, Zenon
    <3>. QED
      BY <3>1, <3>2
  <2>7. \A i \in 1..n-1 : w[i].y + w[i].h < w[i+1].y
    <3>1. \A i \in 1..n-1 : i \in 1..n /\ i + 1 \in 1..n /\ i # n
      BY <1>1
    <3>. QED
      BY <1>1, <2>5, <3>1, Zenon
  <2>8. ASSUME NEW r \in 1..y PROVE Over(w, r) <=> ~Same(old[r], new[r])
    <3>1. CASE r = y
      <4>1. w[n].y <= y /\ y < w[n].y + w[n].h
        BY <1>1, <1>2, <1>4, <2>2, <2>5, Zenon
      <4>. QED
        BY <1>4, <2>2, <2>4, <3>1, <4>1, Zenon DEF Over
    <3>2. CASE r # y
      <4>1. r \in 1..y-1
        BY <3>2
      <4>2. \A i \in 1..n : (w[i].y <= r /\ r < w[i].y + w[i].h)
                              <=> (above[i].y <= r /\ r < above[i].y + above[i].h)
        <5>. TAKE i \in 1..n
        <5>1. CASE i = n
          BY <1>1, <1>2, <1>4, <2>2, <2>5, <4>1, <5>1, ZenonT(60)
        <5>2. CASE i # n
          BY <2>5, <5>2, Zenon
        <5>. QED
          BY <5>1, <5>2
      <4>3. Over(w, r) <=> Over(above, r)
        BY <2>4, <4>2, Zenon DEF Over
      <4>. QED
        BY <1>1, <4>1, <4>3, Zenon
    <3>. QED
      BY <3>1, <3>2
  <2>9. Exact(old, new, w, y)
    BY <2>4, <2>6, <2>7, <2>8, Zenon DEF Exact, Apart
  <2>. QED
    BY <2>9, Zenon DEF w
<1>5. CASE ~Same(old[y], new[y]) /\ ~(n > 0 /\ above[n].y + above[n].h = y)
  <2>. DEFINE e == [y |-> y, h |-> 1]
  <2>1. w = Append(above, e)
    BY <1>5, Zenon DEF With
  <2>2. e \in R /\ e.y = y /\ e.h = 1
    OBVIOUS
  <2>. HIDE DEF e
  <2>3. /\ w \in Seq(R) /\ Len(w) = n + 1 /\ w[n + 1] = e
        /\ \A i \in 1..n : w[i] = above[i]
    BY <1>1, <2>1, <2>2, AppendProperties
  <2>. HIDE DEF w
  <2>4. \A i \in 1..n+1 : i \in 1..n \/ i = n + 1
    BY <1>1
  <2>5. \A i \in 1..Len(w) : w[i].y >= 1 /\ w[i].y + w[i].h <= y + 1
    <3>. SUFFICES ASSUME NEW i \in 1..n+1
                  PROVE  w[i].y >= 1 /\ w[i].y + w[i].h <= y + 1
      BY <2>3, Zenon
    <3>1. CASE i = n + 1
      BY <2>2, <2>3, <3>1
    <3>2. CASE i \in 1..n
      BY <1>1, <1>2, <2>3, <3>2, Zenon
    <3>. QED
      BY <2>4, <3>1, <3>2
  <2>6. \A i \in 1..Len(w)-1 : w[i].y + w[i].h < w[i+1].y
    <3>. SUFFICES ASSUME NEW i \in 1..n PROVE w[i].y + w[i].h < w[i+1].y
      BY <1>1, <2>3
    <3>1. CASE i = n
      <4>1. n > 0 /\ n \in 1..n
        BY <1>1
      <4>2. above[n].y + above[n].h < y
        BY <1>1, <1>2, <1>5, <4>1, Zenon
      <4>. QED
        BY <2>2, <2>3, <3>1, <4>1, <4>2, Zenon
    <3>2. CASE i # n
      <4>1. i \in 1..n-1 /\ i + 1 \in 1..n
        BY <1>1, <3>2
      <4>. QED
        BY <1>1, <2>3, <4>1, Zenon
    <3>. QED
      BY <3>1, <3>2
  <2>7. ASSUME NEW r \in 1..y PROVE Over(w, r) <=> ~Same(old[r], new[r])
    <3>0. n + 1 \in 1..n+1 /\ \A i \in 1..n : i \in 1..n+1
      BY <1>1
    <3>1. CASE r = y
      <4>1. w[n + 1].y <= y /\ y < w[n + 1].y + w[n + 1].h
        BY <2>2, <2>3
      <4>. QED
        BY <1>5, <2>3, <3>0, <3>1, <4>1, Zenon DEF Over
    <3>2. CASE r # y
      <4>1. r \in 1..y-1 /\ ~(y <= r)
        BY <3>2
      <4>2. Over(w, r) <=> Over(above, r)
        BY <2>2, <2>3, <2>4, <3>0, <4>1, Zenon DEF Over
      <4>. QED
        BY <1>1, <4>1, <4>2, Zenon
    <3>. QED
      BY <3>1, <3>2
  <2>8. Exact(old, new, w, y)
    BY <2>3, <2>5, <2>6, <2>7, Zenon DEF Exact, Apart
  <2>. QED
    BY <2>8, Zenon DEF w
<1>. QED
  BY <1>3, <1>4, <1>5, Zenon


(* The rectangles of coalesce are in order, apart, and over the changed    *)
(* rows and no others: were there rows for which they are not, the first   *)
(* of them would be one.                                                   *)
THEOREM RectsExact ==
  ASSUME NEW old, NEW new
  PROVE  Exact(old, new, Rects(old, new), Rows)
<1>1. PICK f : /\ \A y \in 0..Rows : f[y] = RectsAt(old, new, f, y)
               /\ Rects(old, new) = f[Rows]
  BY RectsIs, Zenon
<1>2. Rows \in Nat /\ 0 \in 0..Rows /\ Rows \in 0..Rows
  BY TerminalAssumption
<1>3. Exact(old, new, f[0], 0)
  <2>1. f[0] = <<>>
    BY <1>1, <1>2, Zenon DEF RectsAt
  <2>2. <<>> \in Seq([y : Nat, h : Nat]) /\ Len(<<>>) = 0
    BY EmptySeq
  <2>3. 1..0 = {} /\ 1..0-1 = {}
    OBVIOUS
  <2>. QED
    BY <2>1, <2>2, <2>3, Zenon DEF Exact, Apart
<1>4. ASSUME NEW y \in 1..Rows, Exact(old, new, f[y-1], y - 1)
      PROVE  Exact(old, new, f[y], y)
  <2>1. y \in 0..Rows /\ y # 0 /\ y \in Nat \ {0}
    BY <1>2
  <2>2. f[y] = With(f[y-1], y, Same(old[y], new[y]))
    BY <1>1, <2>1, Zenon DEF RectsAt
  <2>. QED
    BY <1>4, <2>1, <2>2, WithExact, Zenon
<1>. DEFINE Bad == {y \in Nat : y <= Rows /\ ~Exact(old, new, f[y], y)}
<1>5. Bad = {}
  <2>. SUFFICES ASSUME Bad # {} PROVE FALSE
    OBVIOUS
  <2>1. PICK y \in Bad : \A j \in Bad : y <= j
    <3>1. Bad \in SUBSET Nat
      BY Zenon
    <3>. HIDE DEF Bad
    <3>. QED
      BY <3>1, Least, Zenon
  <2>2. y \in Nat /\ y <= Rows /\ ~Exact(old, new, f[y], y)
    BY Zenon
  <2>3. y # 0
    BY <1>3, <2>2, Zenon
  <2>4. y \in 1..Rows /\ y - 1 \in Nat /\ y - 1 <= Rows /\ ~(y <= y - 1)
    <3>. HIDE DEF Bad
    <3>. QED
      BY <1>2, <2>2, <2>3
  <2>5. y - 1 \notin Bad
    <3>. HIDE DEF Bad
    <3>. QED
      BY <2>1, <2>4, Zenon
  <2>. QED
    BY <1>4, <2>2, <2>4, <2>5, Zenon
<1>6. Rows <= Rows
  BY <1>2
<1>. QED
  BY <1>1, <1>2, <1>5, <1>6, Zenon

-----------------------------------------------------------------------------
(* What a host shows that repaints the dirty rectangles only.              *)

(* No two rectangles could be one.                                         *)
Gaps(rects) == \A i \in 1 .. Len(rects)-1 :
                 rects[i].y + rects[i].h < rects[i+1].y

(* A row is out of all frames that are still to be delivered.              *)
Clear(r) == \A t \in Holding : r \notin Covered(taken[t].dirty)

(* Rows that no frame under way repaints, and no overtaken one did, show   *)
(* the cells the next frame is compared with.  Those are the cells of the  *)
(* frame taken last; one that it has not overtaken yet differs from it in  *)
(* rows that it will repaint.                                              *)
PatchInv ==
  /\ prev # <<>> => \A r \in (1..Rows) \ overlaid :
                      Clear(r) => shown[r] = prev[r].text
  /\ Holding # {} => prev # <<>>
  /\ newest \in Holding => taken[newest].cells = prev
  /\ prev # <<>> /\ newest \notin Holding /\ ~stale => frame.cells = prev
  /\ \A t \in Holding \ late : \A r \in 1..Rows :
       t # newest /\ r \notin Covered(taken[newest].dirty)
         => taken[t].cells[r].text = prev[r].text
  /\ Gaps(frame.dirty) /\ \A t \in Holding : Gaps(taken[t].dirty)

(* A row that is in no rectangle has the text it had.                      *)
LEMMA DirtyCovers ==
  ASSUME NEW cells
  PROVE  /\ Gaps(Dirty(cells))
         /\ \A r \in 1..Rows : r \notin Covered(Dirty(cells)) =>
              prev # <<>> /\ prev[r].text = cells[r].text
<1>. DEFINE rects == Dirty(cells)
<1>1. Rows \in Nat /\ Rows >= 1
  BY TerminalAssumption
<1>2. CASE prev = <<>>
  <2>1. rects = <<[y |-> 1, h |-> Rows]>>
    BY <1>2, Zenon DEF Dirty
  <2>2. /\ Len(rects) = 1 /\ DOMAIN rects = {1}
        /\ rects[1].y = 1 /\ rects[1].h = Rows
    BY <2>1
  <2>. HIDE DEF rects
  <2>3. 1..Rows = rects[1].y .. rects[1].y + rects[1].h - 1
    BY <1>1, <2>2
  <2>4. \A r \in 1..Rows : r \in Covered(rects)
    BY <2>2, <2>3, Zenon DEF Covered
  <2>5. Gaps(rects)
    BY <2>2 DEF Gaps
  <2>. QED
    BY <2>4, <2>5, Zenon DEF rects
<1>3. CASE prev # <<>>
  <2>1. rects = Rects(prev, cells)
    BY <1>3, Zenon DEF Dirty
  <2>2. Exact(prev, cells, rects, Rows)
    BY <2>1, RectsExact, Zenon
  <2>. HIDE DEF rects
  <2>3. /\ rects \in Seq([y : Nat, h : Nat]) /\ Apart(rects)
        /\ \A r \in 1..Rows : Over(rects, r) <=> ~Same(prev[r], cells[r])
    BY <2>2, Zenon DEF Exact
  <2>4. ASSUME NEW r \in 1..Rows PROVE Over(rects, r) => r \in Covered(rects)
    <3>. SUFFICES ASSUME NEW i \in 1..Len(rects),
                         rects[i].y <= r, r < rects[i].y + rects[i].h
                  PROVE  r \in Covered(rects)
      BY Zenon DEF Over
    <3>1. i \in DOMAIN rects /\ rects[i] \in [y : Nat, h : Nat]
      BY <2>3, LenProperties, ElementOfSeq
    <3>2. \A p, q \in Nat : p <= r /\ r < p + q => r \in p .. p + q - 1
      BY <1>1
    <3>3. rects[i].y \in Nat /\ rects[i].h \in Nat
      BY <3>1
    <3>4. r \in rects[i].y .. rects[i].y + rects[i].h - 1
      BY <3>2, <3>3, Zenon
    <3>. QED
      BY <3>1, <3>4, Zenon DEF Covered
  <2>5. \A r \in 1..Rows : r \notin Covered(rects) =>
          prev # <<>> /\ prev[r].text = cells[r].text
    BY <1>3, <2>3, <2>4, Zenon DEF Same
  <2>6. Gaps(rects)
    BY <2>3, Zenon DEF Apart, Gaps
  <2>. QED
    BY <2>5, <2>6, Zenon DEF rects
<1>. QED
  BY <1>2, <1>3

(* A frame is taken: rows it does not repaint are as in the one before.    *)
LEMMA PatchTaken ==
  ASSUME TypeOK, LinksSound, Order, PatchInv, NEW t \in Threads, Snapshot(t),
         t \notin Holding, UNCHANGED <<gridVars, off>>
  PROVE  PatchInv'
<1>. DEFINE cells == Cells(Window)
            rects == Dirty(cells)
<1>1. /\ taken'[t].cells = cells /\ taken'[t].dirty = rects /\ prev' = cells
      /\ UNCHANGED <<shown, overlaid, late, stale, frame>> /\ newest' = t
      /\ \A x \in Threads : x # t => taken'[x] = taken[x]
  BY DEF Snapshot, TypeOK
<1>2. Holding' = Holding \cup {t} /\ prev' # <<>>
  <2>1. taken'[t] # NoFrame /\ prev' # <<>>
    BY SnapshotShows
  <2>. QED
    BY <1>1, <2>1 DEF Holding
<1>3. /\ Gaps(rects)
      /\ \A r \in 1..Rows : r \notin Covered(rects) =>
           prev # <<>> /\ prev[r].text = cells[r].text
  BY DirtyCovers
<1>. HIDE DEF cells, rects
<1>4. ASSUME NEW r \in (1..Rows) \ overlaid, Clear(r)'
      PROVE  shown[r] = cells[r].text
  <2>1. r \notin Covered(rects)
    <3>1. t \in Holding' /\ taken'[t].dirty = rects
      BY <1>1, <1>2
    <3>2. r \notin Covered(taken'[t].dirty)
      BY <1>4, <3>1, Zenon DEF Clear, Covered
    <3>. QED
      BY <3>1, <3>2
  <2>2. Clear(r)
    <3>. SUFFICES ASSUME NEW x \in Holding PROVE r \notin Covered(taken[x].dirty)
      BY DEF Clear
    <3>1. x \in Holding' /\ x # t /\ x \in Threads
      BY <1>2 DEF Holding
    <3>2. taken'[x] = taken[x]
      BY <1>1, <3>1
    <3>. QED
      BY <1>4, <3>1, <3>2, Zenon DEF Clear, Covered
  <2>. QED
    BY <1>3, <2>1, <2>2 DEF PatchInv
<1>5. ASSUME NEW x \in Holding' \ late, NEW r \in 1..Rows, x # t,
             r \notin Covered(rects)
      PROVE  taken'[x].cells[r].text = cells[r].text
  <2>1. x \in Holding /\ x \in Threads /\ taken'[x] = taken[x]
    BY <1>1, <1>2, <1>5 DEF Holding
  <2>2. newest = x
    BY <1>5, <2>1 DEF Order, Threads
  <2>. QED
    BY <1>3, <1>5, <2>1, <2>2 DEF PatchInv
<1>6. ASSUME NEW x \in Holding' PROVE Gaps(taken'[x].dirty)
  BY <1>1, <1>2, <1>3, Zenon DEF PatchInv, Holding
<1>7. Covered(taken[newest].dirty)' = Covered(rects)
  BY <1>1 DEF Covered
<1>8. Gaps(frame.dirty)'
  BY <1>1 DEF Gaps, PatchInv
<1>9. \A x \in Holding' : Gaps(taken[x].dirty)'
  BY <1>6 DEF Gaps
<1>. QED
  BY <1>1, <1>2, <1>4, <1>5, <1>7, <1>8, <1>9, Zenon DEF PatchInv

(* A frame is delivered: the newest, one that the newest repaints, or one  *)
(* that it came before.                                                    *)
LEMMA PatchGiven ==
  ASSUME TypeOK, Order, PatchInv, NEW t \in Threads, Deliver(t)
  PROVE  PatchInv'
<1>. DEFINE rows == Covered(taken[t].dirty)
<1>1. /\ UNCHANGED <<prev, newest>> /\ t \in Holding /\ frame' = taken[t]
      /\ taken' = [taken EXCEPT ![t] = NoFrame]
      /\ \A r \in 1..Rows : shown'[r] = IF r \in rows THEN taken[t].cells[r].text
                                        ELSE shown[r]
      /\ overlaid' = IF t \in late THEN overlaid \cup rows ELSE overlaid \ rows
      /\ stale' = (t \in late)
      /\ late' = IF t = newest THEN Holding \ {t} ELSE late \ {t}
  BY DEF Deliver
<1>2. /\ taken'[t] = NoFrame
      /\ \A x \in Threads : x # t => taken'[x] = taken[x]
  BY <1>1 DEF TypeOK
<1>3. Holding' = Holding \ {t}
  BY <1>2 DEF Holding
<1>. HIDE DEF rows
<1>4. prev # <<>>
  BY <1>1 DEF PatchInv
<1>5. ASSUME NEW r \in (1..Rows) \ overlaid', Clear(r)'
      PROVE  shown'[r] = prev[r].text
  <2>1. \A x \in Holding : x # t => r \notin Covered(taken[x].dirty)
    <3>. SUFFICES ASSUME NEW x \in Holding, x # t
                  PROVE  r \notin Covered(taken[x].dirty)
      OBVIOUS
    <3>1. x \in Holding' /\ taken'[x] = taken[x]
      BY <1>2, <1>3 DEF Holding
    <3>. QED
      BY <1>5, <3>1, Zenon DEF Clear, Covered
  <2>2. CASE r \notin rows
    <3>1. Clear(r)
      BY <2>1, <2>2 DEF Clear, rows
    <3>2. r \notin overlaid
      BY <1>1, <2>2
    <3>. QED
      BY <1>1, <1>4, <2>2, <3>1, <3>2 DEF PatchInv
  <2>3. CASE r \in rows
    <3>1. t \notin late /\ shown'[r] = taken[t].cells[r].text
      BY <1>1, <2>3
    <3>2. CASE t = newest
      BY <1>1, <3>1, <3>2 DEF PatchInv
    <3>3. CASE t # newest
      <4>1. newest \in Holding
        BY <1>1, <3>1 DEF Order
      <4>2. r \notin Covered(taken[newest].dirty)
        BY <2>1, <3>3, <4>1
      <4>. QED
        BY <1>1, <3>1, <3>3, <4>2 DEF PatchInv
    <3>. QED
      BY <3>2, <3>3
  <2>. QED
    BY <2>2, <2>3
<1>6. newest \in Holding' => taken'[newest].cells = prev
  BY <1>2, <1>3 DEF PatchInv, Order
<1>7. newest \notin Holding' /\ ~stale' => frame'.cells = prev
  <2>1. CASE t = newest
    BY <1>1, <2>1 DEF PatchInv
  <2>2. CASE t # newest
    BY <1>1, <1>3, <2>2 DEF Order
  <2>. QED
    BY <2>1, <2>2
<1>8. ASSUME NEW x \in Holding' \ late', NEW r \in 1..Rows, x # newest,
             r \notin Covered(taken'[newest].dirty)
      PROVE  taken'[x].cells[r].text = prev[r].text
  <2>1. t # newest /\ x \in Holding /\ x \notin late /\ x # t
    BY <1>1, <1>3, <1>8
  <2>2. taken'[x] = taken[x] /\ taken'[newest] = taken[newest]
    BY <1>2, <2>1 DEF Order, Holding
  <2>3. r \notin Covered(taken[newest].dirty)
    BY <1>8, <2>2
  <2>. QED
    BY <1>8, <2>1, <2>2, <2>3 DEF PatchInv
<1>9. Gaps(frame.dirty)' /\ \A x \in Holding' : Gaps(taken[x].dirty)'
  <2>1. Gaps(frame.dirty)'
    BY <1>1 DEF Gaps, PatchInv
  <2>2. ASSUME NEW x \in Holding' PROVE Gaps(taken[x].dirty)'
    <3>1. x \in Holding /\ taken'[x] = taken[x]
      BY <1>2, <1>3 DEF Holding
    <3>2. Gaps(taken[x].dirty)
      BY <3>1 DEF PatchInv
    <3>. QED
      BY <3>1, <3>2 DEF Gaps
  <2>. QED
    BY <2>1, <2>2
<1>10. newest' = newest /\ prev' = prev
  BY <1>1
<1>11. Covered(taken[newest].dirty)' = Covered(taken'[newest].dirty)
  BY <1>10 DEF Covered
<1>12. \A r \in (1..Rows) \ overlaid' : Clear(r)' => shown'[r] = prev'[r].text
  BY <1>5, <1>10, Zenon
<1>13. /\ newest' \in Holding' => taken'[newest'].cells = prev'
       /\ newest' \notin Holding' /\ ~stale' => frame'.cells = prev'
       /\ prev' # <<>>
  BY <1>4, <1>6, <1>7, <1>10, Zenon
<1>14. \A x \in Holding' \ late' : \A r \in 1..Rows :
         x # newest' /\ r \notin Covered(taken[newest].dirty)'
           => taken'[x].cells[r].text = prev'[r].text
  BY <1>8, <1>10, <1>11, Zenon
<1>. QED
  BY <1>9, <1>12, <1>13, <1>14, Zenon DEF PatchInv

(* A host that repaints nothing but the dirty rectangles shows every text  *)
(* of the newest frame, but where an overtaken frame was painted over it,  *)
(* and no two rectangles could be one (backend.rs 52-68, 99-112,           *)
(* session.rs 250-254, 383-387).                                           *)
THEOREM Patched == Spec => []PatchedTrue
<1>1. Init => PatchInv
  <2>. SUFFICES ASSUME Init PROVE PatchInv
    OBVIOUS
  <2>1. prev = <<>> /\ frame.dirty = <<>> /\ Holding = {} /\ newest \notin Holding
    BY DEF Init, NoFrame, Holding
  <2>2. Gaps(<<>>)
    BY DEF Gaps
  <2>. QED
    BY <2>1, <2>2, Zenon DEF PatchInv
<1>2. TypeOK /\ Truths /\ PatchInv /\ [Next]_vars => PatchInv'
  <2>. SUFFICES ASSUME TypeOK, LinksSound, Order, PatchInv, [Next]_vars
                PROVE  PatchInv'
    BY DEF Truths
  <2>1. CASE PumpSnapshot
    <3>1. "pump" \in Threads /\ "pump" \notin Holding
      BY <2>1 DEF PumpSnapshot, Order, Threads
    <3>. QED
      BY <2>1, <3>1, PatchTaken DEF PumpSnapshot
  <2>2. CASE RequestRender
    <3>1. "host" \in Threads /\ "host" \notin Holding
      BY <2>2 DEF RequestRender, Order, Threads
    <3>. QED
      BY <2>2, <3>1, PatchTaken DEF RequestRender
  <2>3. CASE \E t \in Threads : Deliver(t)
    BY <2>3, PatchGiven
  <2>4. CASE UNCHANGED frameVars
    <3>1. UNCHANGED <<prev, taken, frame, shown, newest, late, stale, overlaid>>
      BY <2>4 DEF frameVars
    <3>. QED
      BY <3>1 DEF PatchInv, Holding, Clear, Covered, Gaps
  <2>5. UNCHANGED frameVars \/ PumpSnapshot \/ RequestRender
          \/ \E t \in Threads : Deliver(t)
    <3>1. CASE Advance \/ Scroll \/ ClearHistory \/ ResetState
      BY <3>1 DEF Advance, Scroll, ClearHistory, ResetState
    <3>2. CASE \E p \in Texts, forward \in BOOLEAN : SearchNext(p, forward)
      BY <3>2 DEF SearchNext
    <3>3. CASE UNCHANGED vars
      BY <3>3 DEF vars
    <3>. QED
      BY <3>1, <3>2, <3>3 DEF Next
  <2>. QED
    BY <2>1, <2>2, <2>3, <2>4, <2>5
<1>3. PatchInv => PatchedTrue
  <2>. SUFFICES ASSUME PatchInv PROVE PatchedTrue
    OBVIOUS
  <2>1. ASSUME prev # <<>>, Holding = {}, ~stale, NEW r \in (1..Rows) \ overlaid
        PROVE  shown[r] = frame.cells[r].text
    <3>1. Clear(r) /\ newest \notin Holding
      BY <2>1 DEF Clear
    <3>. QED
      BY <2>1, <3>1 DEF PatchInv
  <2>. QED
    BY <2>1 DEF PatchInv, PatchedTrue, Gaps
<1>. QED
  BY <1>1, <1>2, <1>3, Always, PTL DEF Spec
=============================================================================
