--------------------------- MODULE SessionEndProofs ---------------------------
(***************************************************************************)
(* How a session ends.  What a destroy leaves behind, for a session that is*)
(* started once and is not destroyed while start() still runs: whatever    *)
(* fails, wherever the destroy comes from and however the threads take     *)
(* their turns.  And, for every number of starts, what the host is told:   *)
(* the last frame before on_exit, and the exit code.                       *)
(***************************************************************************)
EXTENDS SessionProofs, SequenceTheorems

Ended        == {"none", "done"}
Resting      == {"idle", "drop"}
NoWriterYet  == {"spawnPty", "spawnReader", "spawnWriter"} \cup Undo
AfterReader  == {"storeWriter", "joinOldWriter", "storePump"}
AfterWatcher == AfterReader \cup {"storeReader", "joinOldReader"}
AfterPty     == AfterWatcher \cup {"spawnWatcher", "storeWatcher"}
WriterGone   == {"pty", "closePty", "pump", "watcher", "reader", "freed"}
PtyGone      == {"pump", "watcher", "reader", "freed"}

(* What start() has not begun is not there yet.                            *)
Begun ==
  /\ starts = 0 \/ ui \in {"spawnPty", "spawnReader"} => reader[1] = "none"
  /\ starts = 0 \/ ui \in NoWriterYet => writer[1] = "none"
  /\ ui \in {"undoPty", "undoClose"} => reader[1] \in Ended
  /\ ui # "closeOld"

(* What start() has stored is in its slot.                                 *)
Filled ==
  /\ ui \in AfterPty => slot["pty"] = 1
  /\ ui \in AfterWatcher => slot["watcher"] = 1
  /\ ui \in AfterReader => slot["reader"] = 1
  /\ ui = "storePump" => slot["writer"] = 1

(* Outside start(), the handle of every thread that runs is in its slot.   *)
AtRest ==
  ui \in Resting =>
    /\ pump[1] # "none" => slot["pump"] = 1
    /\ watcher[1] # "none" => slot["watcher"] = 1
    /\ reader[1] \notin Ended => slot["reader"] = 1
    /\ writer[1] \notin Ended => slot["writer"] = 1

(* A drop comes after start(), and what it has joined has ended.           *)
DropInOrder ==
  /\ drop # "none" => ui \in Resting
  /\ drop \in WriterGone => writer[1] \in Ended
  /\ drop = "closePty" => slot["pty"] = 1
  /\ drop \in PtyGone => slot["pty"] = 0
  /\ drop \in {"watcher", "reader", "freed"} =>
       pump[1] \in Ended \/ dropper = <<"pump", 1>>
  /\ drop \in {"reader", "freed"} =>
       watcher[1] \in Ended \/ dropper = <<"watcher", 1>>
  /\ drop = "freed" => reader[1] \in Ended

Places == Begun /\ Filled /\ AtRest /\ DropInOrder

(* A console that is open has a holder, and one that is closing a thread   *)
(* that waits for it.                                                      *)
ConHeld ==
  /\ con[1] = "open" => refs[1] # {}
  /\ con[1] = "closing" =>
       \/ pump[1] = "closing" \/ watcher[1] = "closing"
       \/ drop = "closePty" \/ ui = "undoClose"

(* A holder of the Arc is on its way to release it.                        *)
ArcHeld ==
  /\ ui = "undoClose" => refs[1] = {}
  /\ "session" \in refs[1] =>
       \/ ui \notin Resting
       \/ slot["pty"] = 1 /\ drop # "closePty"
  /\ "pump" \in refs[1] => pump[1] \notin NotUsing
  /\ "watcher" \in refs[1] =>
       watcher[1] \notin NotUsing \/ ui \in {"storePty", "spawnWatcher"}

(* A child that runs is one that Drop has still to terminate.              *)
ChildHeld ==
  child[1] = "running" =>
    \/ ui \notin Resting
    \/ slot["pty"] = 1 /\ drop \in {"none", "alive", "clear", "terminate"}

Untouched ==
  starts = 0 \/ ui = "spawnPty" =>
    child[1] = "none" /\ con[1] = "none" /\ refs[1] = {}

Held == ConHeld /\ ArcHeld /\ ChildHeld /\ Untouched

DropInv == TInv /\ ArcInv /\ Places /\ Held

Once == MaxStarts = 1 /\ "early" \notin Destroyers

LEMMA OneGen ==
  ASSUME MaxStarts = 1, TInv
  PROVE  /\ Gen = {1} /\ starts \in {0, 1}
         /\ ui \notin Resting => starts = 1
         /\ \A f \in Fields : slot[f] \in {0, 1}
         /\ DOMAIN slot = Fields
         /\ {"pty", "reader", "writer", "pump", "watcher"} = Fields
         /\ DOMAIN refs = {1} /\ DOMAIN con = {1} /\ DOMAIN child = {1}
         /\ DOMAIN pump = {1} /\ DOMAIN watcher = {1}
         /\ DOMAIN reader = {1} /\ DOMAIN writer = {1}
         /\ refs[1] \subseteq Holders
         /\ con[1] \in {"none", "open", "closing", "closed"}
<1>1. Gen = {1} /\ GenOrNone = {0, 1}
  BY DEF Gen, GenOrNone
<1>. QED
  BY <1>1 DEF TInv, TypeOK, StartsInGen, Resting, Fields

LEMMA DropInit == Once /\ Init => Places /\ Held
<1>. SUFFICES ASSUME Once, Init PROVE Places /\ Held
  OBVIOUS
<1>1. Gen = {1} /\ 1 \in Gen
  BY DEF Once, Gen
<1>2. /\ ui = "idle" /\ starts = 0 /\ drop = "none"
      /\ pump[1] = "none" /\ watcher[1] = "none" /\ reader[1] = "none"
      /\ writer[1] = "none" /\ child[1] = "none" /\ con[1] = "none"
      /\ refs[1] = {}
  BY <1>1 DEF Init
<1>3. Begun /\ Filled /\ AtRest /\ DropInOrder
  BY <1>2 DEF Begun, Filled, AtRest, DropInOrder, AfterPty, AfterWatcher,
     AfterReader, WriterGone, PtyGone, Ended, NoWriterYet, Undo
<1>4. ConHeld /\ ArcHeld /\ ChildHeld /\ Untouched
  BY <1>2 DEF ConHeld, ArcHeld, ChildHeld, Untouched
<1>. QED
  BY <1>3, <1>4 DEF Places, Held

-----------------------------------------------------------------------------
(* Steps of the threads and of the environment.                            *)

(* A thread that has ended, or has not begun, stays as it is.              *)
LEMMA ThreadsPlaces ==
  ASSUME Places, UNCHANGED <<slot, starts, ui, drop, dropper>>,
         reader[1] \in Ended => reader'[1] = reader[1],
         writer[1] \in Ended => writer'[1] = writer[1],
         pump[1] \in Ended => pump'[1] = pump[1],
         watcher[1] \in Ended => watcher'[1] = watcher[1]
  PROVE  Places'
<1>1. Begun' /\ Filled'
  BY DEF Places, Begun, Filled, Ended
<1>2. AtRest'
  BY DEF Places, AtRest, Ended
<1>3. DropInOrder'
  BY DEF Places, DropInOrder
<1>. QED
  BY <1>1, <1>2, <1>3 DEF Places

(* Pump and watcher exist only after start() has made them.                *)
LEMMA MadeByStart ==
  ASSUME Once, TInv, ArcInv
  PROVE  /\ pump[1] # "none" => starts = 1 /\ ui \notin BeforePump
         /\ watcher[1] # "none" => starts = 1 /\ ui \notin BeforeWatcher
<1>1. Gen = {1} /\ starts \in {0, 1} /\ (ui \notin Resting => starts = 1)
  BY OneGen DEF Once
<1>2. "idle" \notin BeforeWatcher /\ "drop" \notin BeforeWatcher
      /\ BeforePump \subseteq BeforeWatcher
  BY DEF BeforeWatcher, BeforeStore, BeforePump, Starting, Undo, Storing
<1>3. /\ 1 > starts \/ (1 = starts /\ ui \in BeforePump) => pump[1] = "none"
      /\ 1 > starts \/ (1 = starts /\ ui \in BeforeWatcher)
           => watcher[1] = "none"
  BY <1>1 DEF ArcInv, StartOrder
<1>. QED
  BY <1>1, <1>2, <1>3 DEF Resting

LEMMA DropPump ==
  ASSUME Once, DropInv, NEW g \in Gen, PumpStep(g)
  PROVE  Places' /\ Held'
<1>. USE DEF DropInv
<1>1. g = 1 /\ DOMAIN pump = {1} /\ DOMAIN refs = {1} /\ DOMAIN con = {1}
      /\ DOMAIN child = {1}
  BY OneGen DEF Once
<1>2. /\ UNCHANGED <<slot, starts, ui, drop, dropper, reader, writer, watcher>>
      /\ pump[1] \notin Ended
  BY <1>1 DEF PumpStep, PumpRecv, PumpDrain, TakeMessage, PumpEvents,
     PumpRender, PumpLastFrame, Render, PumpHostReturns, PumpCode, PumpStore,
     PumpSwap, PumpRelease, PumpClosed, PumpGoes, Ended
<1>3. Places'
  BY <1>2, ThreadsPlaces
<1>4. starts = 1 /\ ui \notin BeforePump
  BY <1>2, MadeByStart DEF Ended
<1>5. starts' = 1 /\ ui' \notin {"spawnPty", "undoClose"}
  BY <1>2, <1>4 DEF BeforePump, Starting, Undo
<1>6. CASE PumpRelease(g)
  <2>1. /\ refs'[1] = refs[1] \ {"pump"} /\ child' = child
        /\ con'[1] = IF refs[1] \subseteq {"pump"} /\ con[1] = "open"
                     THEN "closing" ELSE con[1]
        /\ pump'[1] = IF refs[1] \subseteq {"pump"} THEN "closing" ELSE "done"
        /\ pump[1] = "release"
    BY <1>1, <1>6 DEF PumpRelease, PumpGoes, Release, IsLast
  <2>2. ConHeld'
    BY <1>2, <2>1 DEF Held, ConHeld
  <2>3. ArcHeld' /\ ChildHeld' /\ Untouched'
    BY <1>2, <1>5, <2>1 DEF Held, ArcHeld, ChildHeld, Untouched
  <2>. QED
    BY <1>3, <2>2, <2>3 DEF Held
<1>7. CASE PumpClosed(g)
  <2>1. /\ refs' = refs /\ con' = con /\ con[1] = "closed"
        /\ child'[1] = "running" => child[1] = "running"
        /\ pump[1] = "closing"
    BY <1>1, <1>7 DEF PumpClosed, PumpGoes, PtyClosed
  <2>2. ConHeld' /\ ArcHeld' /\ ChildHeld' /\ Untouched'
    BY <1>2, <1>5, <2>1 DEF Held, ConHeld, ArcHeld, ChildHeld, Untouched,
       NotUsing
  <2>. QED
    BY <1>3, <2>2 DEF Held
<1>8. CASE ~PumpRelease(g) /\ ~PumpClosed(g)
  <2>1. /\ UNCHANGED <<refs, con, child>>
        /\ pump[1] \notin NotUsing /\ pump'[1] \notin NotUsing
    BY <1>1, <1>8 DEF PumpStep, PumpRecv, PumpDrain, TakeMessage, PumpEvents,
       PumpRender, PumpLastFrame, Render, AfterRender, PumpHostReturns,
       PumpCode, PumpStore, PumpSwap, PumpGoes, NotUsing
  <2>2. ConHeld' /\ ArcHeld' /\ ChildHeld' /\ Untouched'
    BY <1>2, <1>5, <2>1 DEF Held, ConHeld, ArcHeld, ChildHeld, Untouched,
       NotUsing
  <2>. QED
    BY <1>3, <2>2 DEF Held
<1>. QED
  BY <1>6, <1>7, <1>8

LEMMA DropWatcher ==
  ASSUME Once, DropInv, NEW g \in Gen, WatcherStep(g)
  PROVE  Places' /\ Held'
<1>. USE DEF DropInv
<1>1. g = 1 /\ DOMAIN watcher = {1} /\ DOMAIN refs = {1} /\ DOMAIN con = {1}
      /\ DOMAIN child = {1}
  BY OneGen DEF Once
<1>2. /\ UNCHANGED <<slot, starts, ui, drop, dropper, reader, writer, pump>>
      /\ watcher[1] \notin Ended
  BY <1>1 DEF WatcherStep, WatcherLoops, WatcherStore, WatcherSwap,
     WatcherRelease, WatcherClosed, WatcherGoes, Ended
<1>3. Places'
  BY <1>2, ThreadsPlaces
<1>4. starts = 1 /\ ui \notin BeforeWatcher
  BY <1>2, MadeByStart DEF Ended
<1>5. /\ starts' = 1
      /\ ui' \notin {"spawnPty", "undoClose", "storePty", "spawnWatcher"}
  BY <1>2, <1>4 DEF BeforeWatcher, BeforeStore, BeforePump, Starting, Undo,
     Storing
<1>6. CASE WatcherRelease(g)
  <2>1. /\ refs'[1] = refs[1] \ {"watcher"} /\ child' = child
        /\ con'[1] = IF refs[1] \subseteq {"watcher"} /\ con[1] = "open"
                     THEN "closing" ELSE con[1]
        /\ watcher'[1] = IF refs[1] \subseteq {"watcher"}
                         THEN "closing" ELSE "done"
        /\ watcher[1] = "release"
    BY <1>1, <1>6 DEF WatcherRelease, WatcherGoes, Release, IsLast
  <2>2. ConHeld'
    BY <1>2, <2>1 DEF Held, ConHeld
  <2>3. ArcHeld' /\ ChildHeld' /\ Untouched'
    BY <1>2, <1>5, <2>1 DEF Held, ArcHeld, ChildHeld, Untouched
  <2>. QED
    BY <1>3, <2>2, <2>3 DEF Held
<1>7. CASE WatcherClosed(g)
  <2>1. /\ refs' = refs /\ con' = con /\ con[1] = "closed"
        /\ child'[1] = "running" => child[1] = "running"
        /\ watcher[1] = "closing"
    BY <1>1, <1>7 DEF WatcherClosed, WatcherGoes, PtyClosed
  <2>2. ConHeld' /\ ArcHeld' /\ ChildHeld' /\ Untouched'
    BY <1>2, <1>5, <2>1 DEF Held, ConHeld, ArcHeld, ChildHeld, Untouched,
       NotUsing
  <2>. QED
    BY <1>3, <2>2 DEF Held
<1>8. CASE ~WatcherRelease(g) /\ ~WatcherClosed(g)
  <2>1. /\ UNCHANGED <<refs, con, child>>
        /\ watcher[1] \notin NotUsing /\ watcher'[1] \notin NotUsing
    BY <1>1, <1>8 DEF WatcherStep, WatcherLoops, WatcherStore, WatcherSwap,
       WatcherGoes, NotUsing
  <2>2. ConHeld' /\ ArcHeld' /\ ChildHeld' /\ Untouched'
    BY <1>2, <1>5, <2>1 DEF Held, ConHeld, ArcHeld, ChildHeld, Untouched,
       NotUsing
  <2>. QED
    BY <1>3, <2>2 DEF Held
<1>. QED
  BY <1>6, <1>7, <1>8

LEMMA DropRest ==
  ASSUME Once, DropInv,
         \/ \E g \in Gen : ReaderStep(g) \/ WriterStep(g) \/ EnvStep(g)
         \/ AllOver \/ ClearCallbacks \/ UNCHANGED vars
  PROVE  Places' /\ Held'
<1>. USE DEF DropInv
<1>1. /\ Gen = {1} /\ DOMAIN reader = {1} /\ DOMAIN writer = {1}
      /\ DOMAIN con = {1} /\ DOMAIN child = {1}
  BY OneGen DEF Once
<1>2. /\ UNCHANGED <<slot, starts, ui, drop, dropper, pump, watcher, refs>>
      /\ reader[1] \in Ended => reader'[1] = reader[1]
      /\ writer[1] \in Ended => writer'[1] = writer[1]
      /\ con'[1] \in {con[1], "closed"}
      /\ con[1] = "none" => con'[1] = "none"
      /\ child'[1] = "running" => child[1] = "running"
      /\ child[1] = "none" => child'[1] = "none"
  <2>1. CASE ReaderStep(1)
    BY <1>1, <2>1 DEF ReaderStep, ReadFile, ReaderSend, ReaderGoes, Ended
  <2>2. CASE WriterStep(1)
    BY <1>1, <2>2 DEF WriterStep, WriterTakes, WriterWritten,
      WriterGoes, Ended
  <2>3. CASE EnvStep(1)
    BY <1>1, <2>3 DEF EnvStep, ChildEnds, ChildSignals, ConWrite, ConCloses,
       ConLeaves, EnvFrame
  <2>4. CASE AllOver \/ ClearCallbacks \/ UNCHANGED vars
    BY <2>4 DEF AllOver, ClearCallbacks, vars
  <2>. QED
    BY <1>1, <2>1, <2>2, <2>3, <2>4
<1>3. Places'
  BY <1>2, ThreadsPlaces
<1>4. ConHeld' /\ ArcHeld' /\ ChildHeld' /\ Untouched'
  BY <1>2 DEF Held, ConHeld, ArcHeld, ChildHeld, Untouched
<1>. QED
  BY <1>3, <1>4 DEF Held
-----------------------------------------------------------------------------
(* Steps of start().                                                       *)

(* No destroy is under way in any step of the host thread.                 *)
LEMMA NoDropYet ==
  ASSUME DropInv, ui \notin Resting \/ dropper = NoOne
  PROVE  drop = "none"
BY DEF DropInv, Places, DropInOrder, ArcInv, DropOrder

(* A step of start() to a place in start() has three things to show.       *)
LEMMA InStart ==
  ASSUME drop' = "none", ui' \notin Resting \cup {"undoClose"},
         Begun', Filled', ConHeld', Untouched',
         "pump" \in refs'[1] => pump'[1] \notin NotUsing,
         "watcher" \in refs'[1] =>
           watcher'[1] \notin NotUsing \/ ui' \in {"storePty", "spawnWatcher"}
  PROVE  Places' /\ Held'
<1>1. AtRest' /\ DropInOrder'
  BY DEF AtRest, DropInOrder, WriterGone, PtyGone
<1>2. ArcHeld' /\ ChildHeld'
  BY DEF ArcHeld, ChildHeld
<1>. QED
  BY <1>1, <1>2 DEF Places, Held

LEMMA DropStartCall ==
  ASSUME Once, DropInv, StartCall
  PROVE  Places' /\ Held'
<1>. USE DEF DropInv
<1>1. /\ drop = "none" /\ drop' = "none" /\ starts = 0 /\ starts' = 1
      /\ ui' = "spawnPty"
      /\ UNCHANGED <<slot, reader, writer, pump, watcher, refs, con, child>>
  BY NoDropYet, OneGen DEF StartCall, UiGoes, Once
<1>2. Begun' /\ Filled'
  BY <1>1 DEF Places, Begun, Filled, AfterPty, AfterWatcher, AfterReader
<1>3. ConHeld' /\ Untouched' /\ refs'[1] = {}
  BY <1>1 DEF Held, ConHeld, Untouched
<1>. QED
  BY <1>1, <1>2, <1>3, InStart DEF Resting

LEMMA DropSpawnPty ==
  ASSUME Once, DropInv, SpawnPty
  PROVE  Places' /\ Held'
<1>. USE DEF DropInv
<1>1. /\ drop = "none" /\ drop' = "none" /\ starts = 1 /\ starts' = 1
      /\ ui = "spawnPty"
      /\ UNCHANGED <<slot, reader, writer, pump, watcher, dropper>>
      /\ reader[1] = "none" /\ writer[1] = "none"
      /\ child[1] = "none" /\ con[1] = "none" /\ refs[1] = {}
  BY NoDropYet, OneGen DEF SpawnPty, UiGoes, Once, Resting, Places, Begun,
     NoWriterYet, Held, Untouched
<1>2. pump[1] = "none" /\ watcher[1] = "none"
  BY <1>1, MadeByStart DEF BeforeWatcher, BeforeStore, BeforePump, Starting
<1>3. CASE ui' = "spawnReader"
  <2>1. refs'[1] = {"session"} /\ con'[1] = "open"
    BY <1>1, <1>3, OneGen DEF SpawnPty, UiGoes, Once
  <2>2. Begun' /\ Filled'
    BY <1>1, <1>3 DEF Begun, Filled, AfterPty, AfterWatcher, AfterReader
  <2>3. ConHeld' /\ Untouched'
    BY <1>1, <1>3, <2>1 DEF ConHeld, Untouched
  <2>. QED
    BY <1>1, <1>3, <2>1, <2>2, <2>3, InStart DEF Resting
<1>4. CASE ui' = "idle" /\ UNCHANGED <<refs, con, child>>
  <2>1. Begun' /\ Filled' /\ AtRest' /\ DropInOrder'
    BY <1>1, <1>2, <1>4 DEF Begun, Filled, AfterPty, AfterWatcher, AfterReader,
       AtRest, Ended, DropInOrder, WriterGone, PtyGone, NoWriterYet, Undo
  <2>2. ConHeld' /\ ArcHeld' /\ ChildHeld' /\ Untouched'
    BY <1>1, <1>4 DEF ConHeld, ArcHeld, ChildHeld, Untouched
  <2>. QED
    BY <2>1, <2>2 DEF Places, Held
<1>. QED
  BY <1>3, <1>4 DEF SpawnPty, UiGoes

(* The spawns of reader and writer, and the join of a reader that has      *)
(* nothing to read for.                                                    *)
LEMMA DropSpawnThreads ==
  ASSUME Once, DropInv, SpawnReader \/ SpawnWriter \/ UndoReader
  PROVE  Places' /\ Held'
<1>. USE DEF DropInv
<1>1. /\ drop = "none" /\ drop' = "none" /\ starts = 1 /\ starts' = 1
      /\ UNCHANGED <<slot, pump, watcher, refs, con, child>>
      /\ \/ /\ ui = "spawnReader" /\ ui' = "spawnWriter" /\ writer' = writer
         \/ /\ ui = "spawnReader" /\ ui' = "undoPty"
            /\ UNCHANGED <<reader, writer>>
         \/ /\ ui = "spawnWriter" /\ ui' = "spawnPump"
         \/ /\ ui = "spawnWriter" /\ ui' = "undoReader"
            /\ UNCHANGED <<reader, writer>>
         \/ /\ ui = "undoReader" /\ ui' = "undoPty" /\ reader[1] = "done"
            /\ UNCHANGED <<reader, writer>>
  BY NoDropYet, OneGen DEF SpawnReader, SpawnWriter, UndoReader, UiGoes, Once,
     Resting
<1>2. Begun' /\ Filled'
  BY <1>1 DEF Places, Begun, Filled, AfterPty, AfterWatcher, AfterReader,
     NoWriterYet, Undo, Ended
<1>3. ConHeld' /\ Untouched'
  BY <1>1 DEF Held, ConHeld, Untouched
<1>4. refs'[1] = {"session"}
  <2>1. ui \in HasPtyLocal
    BY <1>1 DEF HasPtyLocal, BeforePump, Starting, Undo
  <2>. QED
    BY <1>1, <2>1 DEF ArcInv, StartOrder
<1>. QED
  BY <1>1, <1>2, <1>3, <1>4, InStart DEF Resting

LEMMA DropUndo ==
  ASSUME Once, DropInv, UndoPty \/ UndoClose
  PROVE  Places' /\ Held'
<1>. USE DEF DropInv
<1>1. /\ drop = "none" /\ drop' = "none" /\ starts = 1 /\ starts' = 1
      /\ UNCHANGED <<slot, reader, writer, pump, watcher, dropper>>
      /\ \/ ui = "undoPty" /\ ui' = "undoClose"
         \/ ui = "undoClose" /\ ui' = "idle"
  BY NoDropYet, OneGen DEF UndoPty, UndoClose, UiGoes, Once, Resting
<1>2. /\ reader[1] \in Ended /\ writer[1] = "none"
      /\ pump[1] = "none" /\ watcher[1] = "none"
  BY <1>1, MadeByStart DEF Places, Begun, NoWriterYet, Undo, BeforeWatcher,
     BeforeStore, BeforePump
<1>3. Begun' /\ Filled' /\ AtRest' /\ DropInOrder'
  BY <1>1, <1>2 DEF Begun, Filled, AfterPty, AfterWatcher, AfterReader, AtRest,
     Ended, DropInOrder, WriterGone, PtyGone, NoWriterYet, Undo
<1>4. CASE UndoPty
  <2>1. ui = "undoPty" /\ ui' = "undoClose" /\ child' = child
        /\ Release(1, "session")
    BY <1>1, <1>4 DEF UndoPty, UiGoes
  <2>2. refs[1] = {"session"}
    BY <1>1, <2>1 DEF ArcInv, StartOrder, HasPtyLocal, BeforePump, Undo
  <2>3. refs'[1] = {} /\ con'[1] # "open"
    BY <2>1, <2>2, OneGen DEF Release, IsLast, Once
  <2>4. ConHeld' /\ ArcHeld' /\ ChildHeld' /\ Untouched'
    BY <1>1, <2>1, <2>3 DEF ConHeld, ArcHeld, ChildHeld, Untouched, Resting
  <2>. QED
    BY <1>3, <2>4 DEF Places, Held
<1>5. CASE UndoClose
  <2>1. /\ ui = "undoClose" /\ ui' = "idle" /\ UNCHANGED <<refs, con>>
        /\ con[1] = "closed" /\ child'[1] # "running"
    BY <1>1, <1>5, OneGen DEF UndoClose, UiGoes, PtyClosed, Once
  <2>2. refs[1] = {}
    BY <2>1 DEF Held, ArcHeld
  <2>3. ConHeld' /\ ArcHeld' /\ ChildHeld' /\ Untouched'
    BY <1>1, <2>1, <2>2 DEF ConHeld, ArcHeld, ChildHeld, Untouched
  <2>. QED
    BY <1>3, <2>3 DEF Places, Held
<1>. QED
  BY <1>4, <1>5

LEMMA DropSpawnPump ==
  ASSUME Once, DropInv, SpawnPump
  PROVE  Places' /\ Held'
<1>. USE DEF DropInv
<1>1. /\ drop = "none" /\ drop' = "none" /\ starts = 1 /\ starts' = 1
      /\ ui = "spawnPump" /\ ui' = "storePty"
      /\ UNCHANGED <<con, watcher>> /\ refs'[1] = Holders
      /\ pump'[1] = "recv"
  BY NoDropYet, OneGen DEF SpawnPump, CloneArcs, UiGoes, Once, Resting
<1>2. Begun' /\ Filled'
  BY <1>1 DEF Begun, Filled, AfterPty, AfterWatcher, AfterReader, NoWriterYet,
     Undo
<1>3. pump[1] = "none"
  BY <1>1, MadeByStart DEF BeforePump, Starting
<1>4. ConHeld' /\ Untouched'
  BY <1>1, <1>3 DEF Held, ConHeld, Untouched, Holders
<1>. QED
  BY <1>1, <1>2, <1>4, InStart DEF Resting, NotUsing

LEMMA DropStorePty ==
  ASSUME Once, DropInv, StorePty \/ CloseOld
  PROVE  Places' /\ Held'
<1>. USE DEF DropInv
<1>1. ui # "closeOld"
  BY DEF Places, Begun
<1>2. StorePty /\ ui = "storePty"
  BY <1>1 DEF StorePty, CloseOld, UiGoes
<1>3. drop = "none" /\ drop' = "none" /\ starts = 1 /\ starts' = 1
  BY <1>2, NoDropYet, OneGen DEF StorePty, UiGoes, Once, Resting
<1>4. slot["pty"] = 0
  <2>1. slot["pty"] < 1 /\ slot["pty"] \in {0, 1}
    BY <1>2, <1>3, OneGen DEF ArcInv, StartOrder, BeforeStore, Storing, Once
  <2>. QED
    BY <2>1
<1>5. /\ ui' = "spawnWatcher" /\ slot'["pty"] = 1
      /\ UNCHANGED <<reader, writer, pump, watcher, refs, con>>
  BY <1>2, <1>3, <1>4, OneGen DEF StorePty, UiGoes, Once
<1>6. Begun' /\ Filled'
  BY <1>3, <1>5 DEF Begun, Filled, AfterWatcher, AfterReader, NoWriterYet, Undo
<1>7. ConHeld' /\ Untouched'
  BY <1>2, <1>3, <1>5 DEF Held, ConHeld, Untouched
<1>. QED
  BY <1>3, <1>5, <1>6, <1>7, InStart DEF Resting, Held, ArcHeld

LEMMA DropSpawnWatcher ==
  ASSUME Once, DropInv, SpawnWatcher
  PROVE  Places' /\ Held'
<1>. USE DEF DropInv
<1>1. /\ drop = "none" /\ drop' = "none" /\ starts = 1 /\ starts' = 1
      /\ ui = "spawnWatcher" /\ ui' = "storeWatcher"
      /\ UNCHANGED <<slot, reader, writer, pump, refs, con>>
      /\ watcher[1] = "none" /\ watcher'[1] = "check"
  BY NoDropYet, OneGen, MadeByStart DEF SpawnWatcher, UiGoes, Once, Resting,
     BeforeWatcher
<1>2. Begun' /\ Filled'
  BY <1>1 DEF Places, Begun, Filled, AfterPty, AfterWatcher, AfterReader,
     NoWriterYet, Undo
<1>3. ConHeld' /\ Untouched'
  BY <1>1 DEF Held, ConHeld, Untouched
<1>. QED
  BY <1>1, <1>2, <1>3, InStart DEF Resting, Held, ArcHeld, NotUsing

(* The stores of the handles.                                              *)
LEMMA DropStores ==
  ASSUME Once, DropInv,
         \/ StoreWatcher \/ StoreReader \/ JoinOldReader \/ StoreWriter
         \/ JoinOldWriter \/ StorePump
  PROVE  Places' /\ Held'
<1>. USE DEF DropInv
<1>1. /\ UNCHANGED <<starts, drop, dropper, reader, writer, pump, watcher, refs,
                     con, child>>
      /\ \/ /\ ui = "storeWatcher" /\ ui' = "storeReader"
            /\ slot' = [slot EXCEPT !["watcher"] = starts]
         \/ /\ ui \in {"storeReader", "joinOldReader"} /\ ui' = "storeWriter"
            /\ slot' = [slot EXCEPT !["reader"] = starts]
         \/ /\ ui = "storeReader" /\ ui' = "joinOldReader" /\ slot' = slot
         \/ /\ ui \in {"storeWriter", "joinOldWriter"} /\ ui' = "storePump"
            /\ slot' = [slot EXCEPT !["writer"] = starts]
         \/ /\ ui = "storeWriter" /\ ui' = "joinOldWriter" /\ slot' = slot
         \/ /\ ui = "storePump" /\ ui' = "idle"
            /\ slot' = [slot EXCEPT !["pump"] = starts]
  BY DEF StoreWatcher, StoreReader, JoinOldReader, StoreWriter, JoinOldWriter,
     StorePump, StoreField, UiGoes
<1>2. /\ drop = "none" /\ drop' = "none" /\ starts = 1 /\ starts' = 1
      /\ slot["pty"] = 1 /\ slot'["pty"] = 1
  BY <1>1, NoDropYet, OneGen DEF Once, Resting, Places, Filled, AfterPty,
     AfterWatcher, AfterReader
<1>3. Begun'
  BY <1>1, <1>2 DEF Begun, NoWriterYet, Undo
<1>4. Filled'
  BY <1>1, <1>2, OneGen DEF Places, Filled, AfterPty, AfterWatcher, AfterReader,
     Once
<1>5. AtRest' /\ DropInOrder'
  <2>1. ui = "storePump" => /\ slot["watcher"] = 1 /\ slot["reader"] = 1
                            /\ slot["writer"] = 1
    BY DEF Places, Filled, AfterWatcher, AfterReader
  <2>2. ui' \in Resting => slot' = [slot EXCEPT !["pump"] = 1] /\ ui = "storePump"
    BY <1>1, <1>2 DEF Resting
  <2>3. AtRest'
    BY <2>1, <2>2, OneGen DEF AtRest, Once
  <2>. QED
    BY <1>2, <2>3 DEF DropInOrder, WriterGone, PtyGone
<1>6. ConHeld' /\ ArcHeld' /\ ChildHeld' /\ Untouched'
  BY <1>1, <1>2 DEF Held, ConHeld, ArcHeld, ChildHeld, Untouched, Resting
<1>. QED
  BY <1>3, <1>4, <1>5, <1>6 DEF Places, Held

LEMMA DropCalls ==
  ASSUME Once, DropInv, SendBytes \/ Terminate
  PROVE  Places' /\ Held'
<1>. USE DEF DropInv
<1>1. /\ UNCHANGED <<slot, starts, ui, drop, dropper, reader, writer, pump,
                     watcher, refs, con>>
      /\ child'[1] = "running" => child[1] = "running"
      /\ child[1] = "none" => child'[1] = "none"
  <2>1. CASE SendBytes
    BY <2>1 DEF SendBytes, UiGoes
  <2>2. CASE Terminate
    <3>1. slot["pty"] = 1
      BY <2>2, OneGen DEF Terminate, Once
    <3>. QED
      BY <2>2, <3>1, OneGen DEF Terminate, UiGoes, Kill, Once
  <2>. QED
    BY <2>1, <2>2
<1>2. Places'
  BY <1>1, ThreadsPlaces
<1>3. ConHeld' /\ ArcHeld' /\ ChildHeld' /\ Untouched'
  BY <1>1 DEF Held, ConHeld, ArcHeld, ChildHeld, Untouched
<1>. QED
  BY <1>2, <1>3 DEF Held
-----------------------------------------------------------------------------
(* Steps of a destroy.                                                     *)

LEMMA DropDestroyCall ==
  ASSUME Once, DropInv, DestroyCall
  PROVE  Places' /\ Held'
<1>. USE DEF DropInv
<1>1. /\ drop = "none" /\ drop' = "alive" /\ ui = "idle" /\ ui' \in Resting
      /\ UNCHANGED <<slot, starts, reader, writer, pump, watcher, refs, con,
                     child>>
  BY NoDropYet DEF DestroyCall, Once, Resting
<1>2. Begun' /\ Filled'
  BY <1>1 DEF Places, Begun, Filled, AfterPty, AfterWatcher, AfterReader,
     NoWriterYet, Undo, Resting
<1>3. AtRest' /\ DropInOrder'
  BY <1>1 DEF Places, AtRest, DropInOrder, WriterGone, PtyGone, Resting
<1>4. ConHeld' /\ ArcHeld' /\ ChildHeld' /\ Untouched'
  BY <1>1 DEF Held, ConHeld, ArcHeld, ChildHeld, Untouched, Resting
<1>. QED
  BY <1>2, <1>3, <1>4 DEF Places, Held

(* A step of Drop moves no thread; what start() has left is as it was.     *)
LEMMA DropStill ==
  ASSUME DropInv, DropStep
  PROVE  /\ UNCHANGED <<starts, ui, dropper, reader, writer, pump, watcher>>
         /\ ui \in Resting /\ Begun' /\ Filled'
<1>. USE DEF DropInv
<1>1. /\ UNCHANGED <<starts, ui, dropper, reader, writer, pump, watcher>>
      /\ drop # "none"
  BY DEF DropStep, DropAlive, DropClear, DropTerminate, DropEof, DropWriter,
     DropJoinWriter, DropPty, DropClosePty, DropJoin, DropGoes
<1>2. ui \in Resting
  BY <1>1 DEF Places, DropInOrder
<1>. QED
  BY <1>1, <1>2 DEF Places, Begun, Filled, Resting, AfterPty, AfterWatcher,
     AfterReader

(* Flags, callbacks, the synthetic Eof and the stop of the writer.         *)
LEMMA DropSignals ==
  ASSUME Once, DropInv, DropAlive \/ DropClear \/ DropEof \/ DropWriter
  PROVE  Places' /\ Held'
<1>. USE DEF DropInv
<1>1. /\ UNCHANGED <<slot, refs, con, child>>
      /\ \/ drop = "alive" /\ drop' = "clear"
         \/ drop = "clear" /\ drop' = "terminate"
         \/ drop = "eof" /\ drop' = "writer"
         \/ drop = "writer" /\ drop' = "joinWriter"
         \/ drop = "writer" /\ drop' = "pty" /\ slot["writer"] = 0
  BY DEF DropAlive, DropClear, DropEof, DropWriter, DropGoes
<1>2. /\ UNCHANGED <<starts, ui, dropper, reader, writer, pump, watcher>>
      /\ ui \in Resting /\ Begun' /\ Filled'
  BY DropStill DEF DropStep
<1>3. AtRest' /\ DropInOrder'
  BY <1>1, <1>2 DEF Places, AtRest, DropInOrder, WriterGone, PtyGone
<1>4. ConHeld' /\ ArcHeld' /\ ChildHeld' /\ Untouched'
  BY <1>1, <1>2 DEF Held, ConHeld, ArcHeld, ChildHeld, Untouched
<1>. QED
  BY <1>2, <1>3, <1>4 DEF Places, Held

LEMMA DropTerminates ==
  ASSUME Once, DropInv, DropTerminate
  PROVE  Places' /\ Held'
<1>. USE DEF DropInv
<1>1. /\ UNCHANGED <<slot, refs, con>>
      /\ drop = "terminate" /\ drop' = "eof"
  BY DEF DropTerminate, DropGoes
<1>2. /\ UNCHANGED <<starts, ui, dropper, reader, writer, pump, watcher>>
      /\ ui \in Resting /\ Begun' /\ Filled'
  BY DropStill DEF DropStep
<1>3. AtRest' /\ DropInOrder'
  BY <1>1, <1>2 DEF Places, AtRest, DropInOrder, WriterGone, PtyGone
<1>4. child'[1] # "running" /\ (child[1] = "none" => child'[1] = "none")
  <2>1. CASE slot["pty"] = 0
    BY <1>2, <2>1 DEF DropTerminate, Held, ChildHeld
  <2>2. CASE slot["pty"] = 1
    BY <2>2, OneGen DEF DropTerminate, Kill, Once
  <2>. QED
    BY <2>1, <2>2, OneGen DEF Once
<1>5. ConHeld' /\ ArcHeld' /\ ChildHeld' /\ Untouched'
  BY <1>1, <1>2, <1>4 DEF Held, ConHeld, ArcHeld, ChildHeld, Untouched
<1>. QED
  BY <1>2, <1>3, <1>5 DEF Places, Held

LEMMA DropJoins ==
  ASSUME Once, DropInv, DropJoinWriter \/ DropJoin
  PROVE  Places' /\ Held'
<1>. USE DEF DropInv
<1>1. /\ UNCHANGED <<starts, ui, dropper, reader, writer, pump, watcher>>
      /\ ui \in Resting /\ Begun' /\ Filled'
  BY DropStill DEF DropStep
<1>2. /\ pump[1] # "none" => slot["pump"] = 1
      /\ watcher[1] # "none" => slot["watcher"] = 1
      /\ reader[1] \notin Ended => slot["reader"] = 1
      /\ writer[1] \notin Ended => slot["writer"] = 1
  BY <1>1 DEF Places, AtRest
<1>3. /\ UNCHANGED <<refs, con, child>> /\ slot'["pty"] = slot["pty"]
      /\ \/ /\ drop = "joinWriter" /\ drop' = "pty" /\ writer[1] \in Ended
            /\ slot' = [slot EXCEPT !["writer"] = 0]
         \/ /\ drop = "pump" /\ drop' = "watcher" /\ slot' = slot
            /\ pump[1] \in Ended \/ dropper = <<"pump", 1>>
         \/ /\ drop = "watcher" /\ drop' = "reader" /\ slot' = slot
            /\ watcher[1] \in Ended \/ dropper = <<"watcher", 1>>
         \/ /\ drop = "reader" /\ drop' = "freed" /\ slot' = slot
            /\ reader[1] \in Ended \/ dropper = <<"reader", 1>>
  BY <1>2, OneGen DEF DropJoinWriter, DropJoin, DropGoes, Joined, Ended, Once
<1>4. dropper # <<"reader", 1>>
  BY DEF TInv, TypeOK, Droppers, NoOne
<1>5. AtRest'
  BY <1>1, <1>2, <1>3, OneGen DEF AtRest, Once
<1>6. DropInOrder'
  BY <1>1, <1>3, <1>4 DEF Places, DropInOrder, WriterGone, PtyGone
<1>7. ConHeld' /\ ArcHeld' /\ ChildHeld' /\ Untouched'
  BY <1>1, <1>3 DEF Held, ConHeld, ArcHeld, ChildHeld, Untouched
<1>. QED
  BY <1>1, <1>5, <1>6, <1>7 DEF Places, Held

(* The session's Arc goes; the last one closes the console first.          *)
LEMMA DropPtyGoes ==
  ASSUME Once, DropInv, DropPty
  PROVE  Places' /\ Held'
<1>. USE DEF DropInv
<1>1. /\ UNCHANGED <<starts, ui, dropper, reader, writer, pump, watcher>>
      /\ ui \in Resting /\ Begun' /\ Filled'
  BY DropStill DEF DropStep
<1>2. /\ child' = child /\ drop = "pty" /\ child[1] # "running"
  BY <1>1 DEF DropPty, DropGoes, Held, ChildHeld
<1>3. CASE slot["pty"] = 0
  <2>1. drop' = "pump" /\ slot'["pty"] = 0 /\ UNCHANGED <<refs, con>>
        /\ \A f \in Fields \ {"pty"} : slot'[f] = slot[f]
    BY <1>2, <1>3, OneGen DEF DropPty, DropGoes, Once
  <2>2. AtRest' /\ DropInOrder'
    BY <1>1, <1>2, <2>1, OneGen DEF Places, AtRest, DropInOrder, WriterGone,
       PtyGone, Once
  <2>3. ConHeld' /\ ArcHeld' /\ ChildHeld' /\ Untouched'
    BY <1>1, <1>2, <1>3, <2>1 DEF Held, ConHeld, ArcHeld, ChildHeld, Untouched
  <2>. QED
    BY <1>1, <2>2, <2>3 DEF Places, Held
<1>4. CASE slot["pty"] = 1
  <2>1. /\ refs'[1] = refs[1] \ {"session"}
        /\ con'[1] = IF refs[1] \subseteq {"session"} /\ con[1] = "open"
                     THEN "closing" ELSE con[1]
        /\ \/ drop' = "closePty" /\ slot' = slot
           \/ /\ drop' = "pump" /\ slot' = [slot EXCEPT !["pty"] = 0]
              /\ ~(refs[1] \subseteq {"session"})
    BY <1>4, OneGen DEF DropPty, DropGoes, Release, IsLast, Once
  <2>2. slot'["pty"] = 0 \/ drop' = "closePty"
    BY <2>1, OneGen DEF Once
  <2>3. \A f \in Fields \ {"pty"} : slot'[f] = slot[f]
    BY <2>1, OneGen DEF Once
  <2>4. AtRest' /\ DropInOrder'
    BY <1>1, <1>2, <1>4, <2>1, <2>2, <2>3, OneGen DEF Places, AtRest,
       DropInOrder, WriterGone, PtyGone, Once
  <2>5. ConHeld'
    BY <1>1, <1>2, <2>1 DEF Held, ConHeld
  <2>6. ArcHeld' /\ ChildHeld' /\ Untouched'
    BY <1>1, <1>2, <2>1 DEF Held, ArcHeld, ChildHeld, Untouched
  <2>. QED
    BY <1>1, <2>4, <2>5, <2>6 DEF Places, Held
<1>. QED
  BY <1>3, <1>4, OneGen DEF Once

LEMMA DropPtyCloses ==
  ASSUME Once, DropInv, DropClosePty
  PROVE  Places' /\ Held'
<1>. USE DEF DropInv
<1>1. /\ UNCHANGED <<starts, ui, dropper, reader, writer, pump, watcher>>
      /\ ui \in Resting /\ Begun' /\ Filled'
  BY DropStill DEF DropStep
<1>2. /\ drop = "closePty" /\ drop' = "pump" /\ UNCHANGED <<refs, con>>
      /\ slot["pty"] = 1 /\ slot' = [slot EXCEPT !["pty"] = 0]
      /\ con[1] = "closed"
      /\ child' = [child EXCEPT ![1] = IF @ = "running" THEN "dying" ELSE @]
  BY DEF DropClosePty, DropGoes, PtyClosed, Places, DropInOrder
<1>3. /\ child[1] # "running" /\ "session" \notin refs[1]
      /\ child' = child
  BY <1>1, <1>2, OneGen DEF Held, ChildHeld, ArcHeld, TInv, TypeOK, Once
<1>4. /\ slot'["pty"] = 0
      /\ \A f \in Fields \ {"pty"} : slot'[f] = slot[f]
  BY <1>2, OneGen DEF Once
<1>5. AtRest' /\ DropInOrder'
  BY <1>1, <1>2, <1>4, OneGen DEF Places, AtRest, DropInOrder, WriterGone,
     PtyGone, Once
<1>6. ConHeld' /\ ArcHeld' /\ ChildHeld' /\ Untouched'
  BY <1>1, <1>2, <1>3 DEF Held, ConHeld, ArcHeld, ChildHeld, Untouched
<1>. QED
  BY <1>1, <1>5, <1>6 DEF Places, Held

-----------------------------------------------------------------------------

LEMMA DropInvStep == Once /\ DropInv /\ [Next]_vars => DropInv'
<1>. SUFFICES ASSUME Once, DropInv, [Next]_vars PROVE DropInv'
  OBVIOUS
<1>1. TInv' /\ ArcInv'
  BY StepTyped, ArcStep DEF DropInv
<1>2. CASE StartCall \/ StartStep \/ SendBytes \/ Terminate
  BY <1>1, <1>2, DropStartCall, DropSpawnPty, DropSpawnThreads, DropUndo,
     DropSpawnPump, DropStorePty, DropSpawnWatcher, DropStores, DropCalls
     DEF StartStep, DropInv
<1>3. CASE \E g \in Gen : PumpStep(g)
  BY <1>1, <1>3, DropPump DEF DropInv
<1>4. CASE \E g \in Gen : WatcherStep(g)
  BY <1>1, <1>4, DropWatcher DEF DropInv
<1>5. CASE DestroyCall \/ DropStep
  BY <1>1, <1>5, DropDestroyCall, DropSignals, DropTerminates, DropJoins,
     DropPtyGoes, DropPtyCloses DEF DropStep, DropInv
<1>6. CASE \/ \E g \in Gen : ReaderStep(g) \/ WriterStep(g) \/ EnvStep(g)
           \/ AllOver \/ ClearCallbacks \/ UNCHANGED vars
  BY <1>1, <1>6, DropRest DEF DropInv
<1>. QED
  BY <1>2, <1>3, <1>4, <1>5, <1>6 DEF Next

LEMMA AlwaysDropInv ==
  ASSUME Once
  PROVE  Spec => []DropInv
<1>1. Init => DropInv
  BY InitTyped, ArcInit, DropInit DEF DropInv
<1>2. DropInv /\ [Next]_vars => DropInv'
  BY DropInvStep
<1>. QED
  BY <1>1, <1>2, PTL DEF Spec

(* No closure of the host runs once rata_session_destroy has returned, but *)
(* the one that called it: Drop has joined pump and watcher, wherever the  *)
(* two were when it emptied the callback table (session.rs 518-565).       *)
THEOREM SilentAfterFree ==
  ASSUME MaxStarts = 1, "early" \notin Destroyers
  PROVE  Spec => []NoCallbackAfterFree
<1>1. Once
  BY DEF Once
<1>2. DropInv => NoCallbackAfterFree
  <2>. SUFFICES ASSUME DropInv, drop = "freed", NEW g \in Gen
                PROVE  /\ pump[g] \in PumpInHost => dropper = <<"pump", g>>
                       /\ watcher[g] \in WatcherInHost
                            => dropper = <<"watcher", g>>
    BY DEF NoCallbackAfterFree
  <2>1. g = 1
    BY OneGen DEF DropInv
  <2>. QED
    BY <2>1 DEF DropInv, Places, DropInOrder, Ended, PumpInHost, WatcherInHost
<1>. QED
  BY <1>1, <1>2, AlwaysDropInv, PTL

(* A destroy on the host thread leaves no thread, no console and no child  *)
(* that runs, whichever step of start() failed (session.rs 530-565).       *)
THEOREM NothingRunsOn ==
  ASSUME MaxStarts = 1, "early" \notin Destroyers
  PROVE  Spec => []ReapedWhenFreed
<1>1. Once
  BY DEF Once
<1>2. DropInv => ReapedWhenFreed
  <2>. SUFFICES ASSUME DropInv, drop = "freed", dropper = <<"ui", 0>>,
                       NEW g \in Gen
                PROVE  /\ reader[g] \in Ended /\ writer[g] \in Ended
                       /\ pump[g] \in Ended /\ watcher[g] \in Ended
                       /\ con[g] \in {"none", "closed"}
                       /\ child[g] # "running"
    BY DEF ReapedWhenFreed, Ended
  <2>1. g = 1 /\ refs[1] \subseteq Holders
        /\ con[1] \in {"none", "open", "closing", "closed"}
    BY OneGen DEF DropInv
  <2>2. /\ reader[1] \in Ended /\ writer[1] \in Ended
        /\ pump[1] \in Ended /\ watcher[1] \in Ended
        /\ slot["pty"] = 0 /\ ui \in Resting
    BY DEF DropInv, Places, DropInOrder, WriterGone, PtyGone
  <2>3. refs[1] = {}
    BY <2>1, <2>2 DEF DropInv, Held, ArcHeld, Holders, Ended, NotUsing, Resting
  <2>4. con[1] \notin {"open", "closing"} /\ child[1] # "running"
    BY <2>2, <2>3 DEF DropInv, Held, ConHeld, ChildHeld, Ended, Resting
  <2>. QED
    BY <2>1, <2>2, <2>4
<1>. QED
  BY <1>1, <1>2, AlwaysDropInv, PTL

-----------------------------------------------------------------------------
(* The last frame.  Output is counted on its way: in the pipe, in the hands*)
(* of the reader, in the channel, in the terminal.                         *)

EofIn(c) == c # <<>> /\ c[Len(c)] = "eof"
Bytes(c) == IF EofIn(c) THEN Len(c) - 1 ELSE Len(c)
InHand(g) == IF reader[g] = "send" THEN 1 ELSE 0
LastSteps == {"eofRender", "lastCb", "code", "store", "swap", "exitCb"}

(* What is shown is all that was parsed, and the pump will not parse more. *)
AllShown == {"lastCb", "code", "store", "swap"}

(* Nothing is lost, the Eof is the last message, and what is shown at the  *)
(* end is what was parsed.                                                 *)
Flow(g) ==
  /\ emitted[g] = fed[g] + Bytes(chan[g]) + InHand(g) + pipe[g]
  /\ \A i \in 1 .. Len(chan[g]) - 1 : chan[g][i] = "bytes"
  /\ EofIn(chan[g]) \/ sawEof[g] => reader[g] = "done"
  /\ sawEof[g] => chan[g] = <<>>
  /\ reader[g] \in {"sendEof", "done"} => con[g] = "closed" /\ pipe[g] = 0
  /\ pump[g] \in AllShown => shown[g] = fed[g]

NotYetRead(g) ==
  g > starts \/ (g = starts /\ ui \in {"spawnPty", "spawnReader"})

(* Flow holds until Drop has emptied the callback table: its synthetic Eof *)
(* comes later, and nobody is told then.                                   *)
Frame(g) ==
  /\ cbs => Flow(g)
  /\ pump[g] \in LastSteps \ {"exitCb"} => sawEof[g]
  /\ pump[g] = "exitCb" => shown[g] = emitted[g] /\ con[g] = "closed"
  /\ NotYetRead(g) => reader[g] = "none"

ClearedFirst == cbs => drop \in {"none", "alive", "clear"}

FrameInv == ClearedFirst /\ \A g \in Gen : Frame(g)

LEMMA FrameInit == Init => FrameInv
<1>. SUFFICES ASSUME Init PROVE FrameInv
  OBVIOUS
<1>1. ASSUME NEW g \in Gen
      PROVE  Flow(g) /\ pump[g] = "none" /\ reader[g] = "none"
  BY <1>1 DEF Init, Flow, EofIn, Bytes, InHand, AllShown
<1>2. ClearedFirst
  BY DEF Init, ClearedFirst
<1>. QED
  BY <1>1, <1>2 DEF FrameInv, Frame, LastSteps

(* A channel gets a message at its end, or loses its first.                *)
LEMMA Appending ==
  ASSUME NEW c \in Seq({"bytes", "eof"}), NEW m \in {"bytes", "eof"}, ~EofIn(c),
         \A i \in 1 .. Len(c) - 1 : c[i] = "bytes"
  PROVE  /\ m = "bytes" => /\ Bytes(Append(c, m)) = Bytes(c) + 1
                           /\ ~EofIn(Append(c, m))
         /\ m = "eof" => Bytes(Append(c, m)) = Bytes(c)
         /\ \A i \in 1 .. Len(Append(c, m)) - 1 : Append(c, m)[i] = "bytes"
<1>1. /\ Len(Append(c, m)) = Len(c) + 1 /\ Len(c) \in Nat
      /\ Append(c, m)[Len(c) + 1] = m
      /\ \A i \in 1..Len(c) : Append(c, m)[i] = c[i]
      /\ Append(c, m) # <<>>
  BY AppendProperties, LenProperties
<1>2. \A i \in 1..Len(c) : c[i] = "bytes"
  <2>1. CASE c = <<>>
    BY <2>1
  <2>2. CASE c # <<>>
    <3>1. Len(c) \in 1..Len(c)
      BY <1>1, <2>2, EmptySeq
    <3>2. c[Len(c)] \in {"bytes", "eof"}
      BY <3>1, ElementOfSeq
    <3>3. c[Len(c)] = "bytes"
      BY <2>2, <3>2 DEF EofIn
    <3>. QED
      BY <1>1, <3>3
  <2>. QED
    BY <2>1, <2>2
<1>3. /\ m = "bytes" => ~EofIn(Append(c, m))
      /\ m = "eof" => EofIn(Append(c, m))
  BY <1>1 DEF EofIn
<1>4. \A i \in 1 .. Len(Append(c, m)) - 1 : Append(c, m)[i] = "bytes"
  <2>1. 1 .. Len(Append(c, m)) - 1 = 1..Len(c)
    BY <1>1
  <2>. QED
    BY <1>1, <1>2, <2>1
<1>5. /\ Bytes(c) = Len(c)
      /\ m = "bytes" => Bytes(Append(c, m)) = Len(Append(c, m))
      /\ m = "eof" => Bytes(Append(c, m)) = Len(Append(c, m)) - 1
  BY <1>3 DEF Bytes
<1>6. /\ m = "bytes" => Bytes(Append(c, m)) = Bytes(c) + 1
      /\ m = "eof" => Bytes(Append(c, m)) = Bytes(c)
  <2>1. Len(c) + 1 - 1 = Len(c)
    BY <1>1
  <2>. QED
    BY <1>1, <1>5, <2>1
<1>. QED
  BY <1>3, <1>4, <1>6

LEMMA Taking ==
  ASSUME NEW c \in Seq({"bytes", "eof"}), c # <<>>,
         \A i \in 1 .. Len(c) - 1 : c[i] = "bytes"
  PROVE  /\ Head(c) = "eof" => /\ Tail(c) = <<>> /\ EofIn(c)
                               /\ Bytes(c) = 0 /\ Bytes(Tail(c)) = 0
         /\ Head(c) # "eof" => /\ Bytes(Tail(c)) = Bytes(c) - 1
                               /\ EofIn(Tail(c)) => EofIn(c)
         /\ \A i \in 1 .. Len(Tail(c)) - 1 : Tail(c)[i] = "bytes"
<1>1. Len(c) \in Nat /\ Len(c) > 0
  BY LenProperties, EmptySeq
<1>2. Head(c) = c[1]
  BY <1>1
<1>3. /\ Tail(c) \in Seq({"bytes", "eof"}) /\ Len(Tail(c)) = Len(c) - 1
      /\ \A i \in 1 .. Len(Tail(c)) : Tail(c)[i] = c[i+1]
  BY HeadTailProperties
<1>4. Tail(c) = <<>> <=> Len(c) = 1
  <2>1. Len(<<>>) = 0
    OBVIOUS
  <2>2. Tail(c) # <<>> => Len(Tail(c)) > 0
    BY <1>3, EmptySeq
  <2>. QED
    BY <1>1, <1>3, <2>1, <2>2
<1>5. \A i \in 1 .. Len(Tail(c)) - 1 : Tail(c)[i] = "bytes"
  BY <1>1, <1>3
<1>6. Head(c) = "eof" => Len(c) = 1
  <2>1. Len(c) # 1 => 1 \in 1 .. Len(c) - 1
    <3>1. \A n \in Nat : n > 0 /\ n # 1 => 1 \in 1 .. n - 1
      OBVIOUS
    <3>. QED
      BY <1>1, <3>1
  <2>2. Len(c) # 1 => c[1] = "bytes"
    BY <2>1
  <2>. QED
    BY <1>2, <2>2
<1>7. Len(c) > 1 => (EofIn(Tail(c)) <=> EofIn(c))
  BY <1>1, <1>3, <1>4 DEF EofIn
<1>. QED
  BY <1>1, <1>2, <1>3, <1>4, <1>5, <1>6, <1>7 DEF EofIn, Bytes

(* What is not touched stays as it is, and what a step that moves no output*)
(* has to show.                                                            *)
LEMMA FrameOther ==
  ASSUME NEW g \in Gen, Frame(g), UNCHANGED <<cbs, starts, ui>>,
         UNCHANGED <<emitted[g], fed[g], chan[g], pipe[g], sawEof[g], shown[g],
                     reader[g], con[g], pump[g]>>
  PROVE  Frame(g)'
BY DEF Frame, Flow, Bytes, EofIn, InHand, NotYetRead

LEMMA FrameKept ==
  ASSUME FrameInv, UNCHANGED <<emitted, fed, chan, pipe, sawEof, reader>>,
         cbs' => cbs, ClearedFirst',
         \A g \in Gen :
           /\ reader[g] # "none" /\ con[g] = "closed" => con'[g] = "closed"
           /\ pump'[g] \in LastSteps \ {"exitCb"} => sawEof[g]
           /\ cbs' /\ pump'[g] \in AllShown => shown'[g] = fed[g]
           /\ pump'[g] = "exitCb"
                => shown'[g] = emitted[g] /\ con'[g] = "closed"
           /\ NotYetRead(g)' => reader[g] = "none"
  PROVE  FrameInv'
<1>1. ASSUME NEW g \in Gen PROVE Frame(g)'
  <2>1. Frame(g)
    BY DEF FrameInv
  <2>2. cbs' => Flow(g)'
    BY <2>1 DEF Frame, Flow, Bytes, EofIn, InHand
  <2>. QED
    BY <2>2 DEF Frame
<1>. QED
  BY <1>1 DEF FrameInv

-----------------------------------------------------------------------------
(* The steps that move output.                                             *)

LEMMA FrameReader ==
  ASSUME TInv, FrameInv, NEW g \in Gen, ReaderStep(g)
  PROVE  FrameInv'
<1>. DEFINE c == chan[g]
<1>1. /\ UNCHANGED <<cbs, starts, ui, drop, emitted, fed, sawEof, shown, con,
                     pump>>
      /\ \A h \in Gen \ {g} : UNCHANGED <<chan[h], pipe[h], reader[h]>>
      /\ c \in Seq({"bytes", "eof"}) /\ pipe[g] \in Nat /\ emitted[g] \in Nat
      /\ fed[g] \in Nat /\ Bytes(c) \in Int
  <2>1. /\ c \in Seq({"bytes", "eof"}) /\ pipe[g] \in Nat /\ emitted[g] \in Nat
        /\ fed[g] \in Nat
    BY DEF TInv, TypeOK
  <2>2. Bytes(c) \in Int
    BY <2>1, LenProperties DEF Bytes
  <2>3. /\ UNCHANGED <<cbs, starts, ui, drop, emitted, fed, sawEof, shown, con,
                       pump>>
        /\ \A h \in Gen \ {g} : UNCHANGED <<chan[h], pipe[h], reader[h]>>
    BY DEF ReaderStep, ReadFile, ReaderSend, ReaderGoes, TInv, TypeOK
  <2>. QED
    BY <2>1, <2>2, <2>3
<1>2. Frame(g) /\ ClearedFirst
  BY DEF FrameInv
<1>3. reader[g] \notin {"none", "done"}
  BY DEF ReaderStep, ReadFile, ReaderSend, ReaderGoes
<1>0. /\ Bytes(chan[g])' = Bytes(chan'[g])
      /\ EofIn(chan[g])' = EofIn(chan'[g])
  BY DEF Bytes, EofIn
<1>4. ASSUME Flow(g) PROVE Flow(g)'
  <2>. USE <1>4
  <2>1. CASE pipe[g] > 0 /\ reader[g] = "read" /\ reader'[g] = "send"
             /\ pipe'[g] = pipe[g] - 1 /\ chan' = chan
    BY <1>1, <2>1 DEF Flow, InHand
  <2>2. CASE con[g] = "closed" /\ pipe[g] = 0 /\ reader[g] = "read"
             /\ reader'[g] = "sendEof" /\ UNCHANGED <<pipe, chan>>
    BY <1>1, <2>2 DEF Flow, InHand
  <2>3. CASE reader[g] = "send" /\ reader'[g] = "read" /\ pipe' = pipe
             /\ chan'[g] = Append(c, "bytes")
    <3>1. /\ ~EofIn(c) /\ ~sawEof[g]
          /\ \A i \in 1 .. Len(c) - 1 : c[i] = "bytes"
          /\ reader'[g] = "done" => con'[g] = "closed" /\ pipe'[g] = 0
          /\ pump'[g] \in AllShown => shown'[g] = fed'[g]
      BY <1>1, <2>3 DEF Flow
    <3>2. /\ Bytes(chan'[g]) = Bytes(c) + 1 /\ ~EofIn(chan'[g])
          /\ \A i \in 1 .. Len(chan'[g]) - 1 : chan'[g][i] = "bytes"
      BY <1>1, <2>3, <3>1, Appending, SMTT(30)
    <3>3. InHand(g) = 1 /\ InHand(g)' = 0
      BY <2>3 DEF InHand
    <3>4. emitted'[g] = fed'[g] + Bytes(chan'[g]) + InHand(g)' + pipe'[g]
      BY <1>1, <2>3, <3>2, <3>3 DEF Flow
    <3>. QED
      BY <1>1, <1>0, <2>3, <3>1, <3>2, <3>4 DEF Flow
  <2>4. CASE reader[g] = "sendEof" /\ reader'[g] = "done" /\ pipe' = pipe
             /\ chan'[g] = Append(c, "eof")
    <3>1. /\ ~EofIn(c) /\ ~sawEof[g]
          /\ \A i \in 1 .. Len(c) - 1 : c[i] = "bytes"
          /\ reader'[g] = "done" => con'[g] = "closed" /\ pipe'[g] = 0
          /\ pump'[g] \in AllShown => shown'[g] = fed'[g]
      BY <1>1, <2>4 DEF Flow
    <3>2. /\ Bytes(chan'[g]) = Bytes(c)
          /\ \A i \in 1 .. Len(chan'[g]) - 1 : chan'[g][i] = "bytes"
      BY <1>1, <2>4, <3>1, Appending, SMTT(30)
    <3>3. InHand(g) = 0 /\ InHand(g)' = 0
      BY <2>4 DEF InHand
    <3>4. emitted'[g] = fed'[g] + Bytes(chan'[g]) + InHand(g)' + pipe'[g]
      BY <1>1, <2>4, <3>2, <3>3 DEF Flow
    <3>. QED
      BY <1>1, <1>0, <2>4, <3>1, <3>2, <3>4 DEF Flow
  <2>. QED
    BY <2>1, <2>2, <2>3, <2>4 DEF ReaderStep, ReadFile, ReaderSend, ReaderGoes,
       HasData, AtEof, TInv, TypeOK
<1>5. Frame(g)'
  BY <1>1, <1>2, <1>3, <1>4 DEF Frame, NotYetRead
<1>6. \A h \in Gen \ {g} : Frame(h)'
  BY <1>1, FrameOther DEF FrameInv
<1>. QED
  BY <1>1, <1>2, <1>5, <1>6 DEF FrameInv, ClearedFirst

LEMMA FrameTake ==
  ASSUME TInv, FrameInv, NEW g \in Gen, PumpRecv(g) \/ PumpDrain(g),
         chan[g] # <<>>
  PROVE  FrameInv'
<1>. DEFINE c   == chan[g]
            eof == Head(c) = "eof"
<1>1. /\ UNCHANGED <<cbs, starts, ui, drop, emitted, shown, con, pipe, reader>>
      /\ \A h \in Gen \ {g} :
           UNCHANGED <<chan[h], sawEof[h], fed[h], pump[h]>>
      /\ chan'[g] = Tail(c) /\ sawEof'[g] = eof
      /\ fed'[g] = (IF eof THEN fed[g] ELSE fed[g] + 1)
      /\ pump[g] \in {"recv", "drain"}
      /\ pump'[g] \in {"drain", "events"} \/ (eof /\ pump'[g] = "eofRender")
  BY SMTT(30) DEF PumpRecv, PumpDrain, TakeMessage, PumpGoes, TInv, TypeOK
<1>2. Frame(g) /\ ClearedFirst
  BY DEF FrameInv
<1>3. /\ c \in Seq({"bytes", "eof"}) /\ pipe[g] \in Nat /\ emitted[g] \in Nat
      /\ fed[g] \in Nat
  BY DEF TInv, TypeOK
<1>4. Bytes(c) \in Int /\ InHand(g) \in Int
  BY <1>3, LenProperties DEF Bytes, InHand
<1>0. /\ Bytes(chan[g])' = Bytes(chan'[g])
      /\ EofIn(chan[g])' = EofIn(chan'[g])
      /\ InHand(g)' = InHand(g)
  BY <1>1 DEF Bytes, EofIn, InHand
<1>5. ASSUME Flow(g) PROVE Flow(g)'
  <2>. USE <1>5
  <2>1. /\ eof => /\ Tail(c) = <<>> /\ EofIn(c)
                  /\ Bytes(c) = 0 /\ Bytes(Tail(c)) = 0
        /\ ~eof => /\ Bytes(Tail(c)) = Bytes(c) - 1
                   /\ EofIn(Tail(c)) => EofIn(c)
        /\ \A i \in 1 .. Len(Tail(c)) - 1 : Tail(c)[i] = "bytes"
    BY <1>3, Taking DEF Flow
  <2>2. emitted'[g] = fed'[g] + Bytes(chan'[g]) + InHand(g)' + pipe'[g]
    <3>1. emitted[g] = fed[g] + Bytes(c) + InHand(g) + pipe[g]
      BY DEF Flow
    <3>2. CASE eof
      BY <1>0, <1>1, <1>3, <1>4, <2>1, <3>1, <3>2
    <3>3. CASE ~eof
      <4>1. Bytes(chan'[g]) = Bytes(c) - 1 /\ fed'[g] = fed[g] + 1
        BY <1>1, <2>1, <3>3
      <4>2. emitted'[g] = emitted[g] /\ pipe'[g] = pipe[g]
        BY <1>1
      <4>3. fed[g] + Bytes(c) = fed'[g] + Bytes(chan'[g])
        BY <1>3, <1>4, <4>1, Z3
      <4>. QED
        BY <1>0, <3>1, <4>2, <4>3
    <3>. QED
      BY <3>2, <3>3
  <2>3. /\ EofIn(chan'[g]) => EofIn(c)
        /\ sawEof'[g] => EofIn(c) /\ chan'[g] = <<>>
    BY <1>1, <2>1 DEF EofIn
  <2>4. /\ EofIn(chan'[g]) \/ sawEof'[g] => reader'[g] = "done"
        /\ reader'[g] \in {"sendEof", "done"}
             => con'[g] = "closed" /\ pipe'[g] = 0
        /\ pump'[g] \notin AllShown
    BY <1>1, <2>3 DEF Flow, AllShown
  <2>. QED
    BY <1>1, <1>0, <2>1, <2>2, <2>3, <2>4 DEF Flow
<1>6. Frame(g)'
  BY <1>1, <1>2, <1>5 DEF Frame, NotYetRead, LastSteps
<1>7. \A h \in Gen \ {g} : Frame(h)'
  BY <1>1, FrameOther DEF FrameInv
<1>. QED
  BY <1>1, <1>2, <1>6, <1>7 DEF FrameInv, ClearedFirst

LEMMA FrameWrites ==
  ASSUME TInv, FrameInv, NEW g \in Gen, ConWrite(g) \/ ConCloses(g)
  PROVE  FrameInv'
<1>1. /\ UNCHANGED <<cbs, starts, ui, drop, fed, sawEof, shown, pump, reader,
                     chan>>
      /\ \A h \in Gen \ {g} : UNCHANGED <<emitted[h], pipe[h], con[h]>>
      /\ emitted'[g] = emitted[g] + 1 /\ pipe'[g] = pipe[g] + 1
      /\ con[g] # "closed"
  BY DEF ConWrite, ConCloses, EnvFrame, TInv, TypeOK
<1>2. Frame(g) /\ ClearedFirst
  BY DEF FrameInv
<1>3. /\ chan[g] \in Seq({"bytes", "eof"}) /\ pipe[g] \in Nat
      /\ emitted[g] \in Nat /\ fed[g] \in Nat
  BY DEF TInv, TypeOK
<1>4. Bytes(chan[g]) \in Int /\ InHand(g) \in Int
  BY <1>3, LenProperties DEF Bytes, InHand
<1>0. /\ Bytes(chan[g])' = Bytes(chan'[g])
      /\ EofIn(chan[g])' = EofIn(chan'[g])
      /\ InHand(g)' = InHand(g)
  BY <1>1 DEF Bytes, EofIn, InHand
<1>5. ASSUME Flow(g) PROVE Flow(g)'
  <2>. USE <1>5
  <2>1. emitted'[g] = fed'[g] + Bytes(chan'[g]) + InHand(g)' + pipe'[g]
    BY <1>1, <1>3, <1>4, <1>0 DEF Flow
  <2>2. /\ \A i \in 1 .. Len(chan'[g]) - 1 : chan'[g][i] = "bytes"
        /\ ~EofIn(chan'[g]) /\ ~sawEof'[g]
        /\ reader'[g] \notin {"sendEof", "done"}
        /\ pump'[g] \in AllShown => shown'[g] = fed'[g]
    BY <1>1 DEF Flow
  <2>. QED
    BY <1>1, <1>0, <2>1, <2>2 DEF Flow
<1>6. Frame(g)'
  BY <1>1, <1>2, <1>5 DEF Frame, NotYetRead
<1>7. \A h \in Gen \ {g} : Frame(h)'
  BY <1>1, FrameOther DEF FrameInv
<1>. QED
  BY <1>1, <1>2, <1>6, <1>7 DEF FrameInv, ClearedFirst

-----------------------------------------------------------------------------
(* The steps that move none.                                               *)

(* What a release, a kill and a close leave as it was.                     *)
LEMMA ReleaseLess ==
  ASSUME TInv, NEW g, NEW h, Release(g, h), NEW k \in Gen
  PROVE  refs'[k] \subseteq refs[k] /\ (con'[k] = "closed" <=> con[k] = "closed")
BY DEF Release, TInv, TypeOK

LEMMA KillLess ==
  ASSUME TInv, NEW g, Kill(g) \/ PtyClosed(g), NEW k \in Gen, child[k] = "exited"
  PROVE  child'[k] = "exited" /\ code'[k] = code[k]
BY DEF Kill, PtyClosed, TInv, TypeOK

(* Which steps of the host thread and of Drop release an Arc.              *)
LEMMA UiReleases ==
  ASSUME StartCall \/ StartStep \/ SendBytes \/ Terminate,
         ~SpawnPump, ~SpawnPty
  PROVE  UNCHANGED <<con, refs>> \/ \E g : Release(g, "session")
<1>1. CASE UndoPty \/ StorePty
  BY <1>1 DEF UndoPty, StorePty
<1>2. CASE ~UndoPty /\ ~StorePty
  BY <1>2 DEF StartCall, StartStep, SpawnReader, SpawnWriter, UndoReader,
     UndoClose, CloseOld, SpawnWatcher, StoreWatcher, StorePump, StoreField,
     StoreReader, JoinOldReader, StoreWriter, JoinOldWriter, SendBytes,
     Terminate, PtyClosed
<1>. QED
  BY <1>1, <1>2

LEMMA UiKills ==
  ASSUME StartCall \/ StartStep \/ SendBytes \/ Terminate, ~SpawnPty
  PROVE  UNCHANGED <<child, code>> \/ \E g : Kill(g) \/ PtyClosed(g)
<1>1. CASE UndoClose \/ CloseOld \/ Terminate
  BY <1>1 DEF UndoClose, CloseOld, Terminate
<1>2. CASE ~UndoClose /\ ~CloseOld /\ ~Terminate
  BY <1>2 DEF StartCall, StartStep, SpawnReader, SpawnWriter, SpawnPump,
     UndoReader, UndoPty, StorePty, SpawnWatcher, StoreWatcher, StorePump,
     StoreField, StoreReader, JoinOldReader, StoreWriter, JoinOldWriter,
     SendBytes
<1>. QED
  BY <1>1, <1>2

LEMMA DropTouches ==
  ASSUME DropStep
  PROVE  /\ UNCHANGED <<exitCode, starts, ui, dropper, reader, writer, pump,
                        watcher, sawEof, pcode, pipe, emitted, fed, shown,
                        exits>>
         /\ UNCHANGED <<con, refs>> \/ \E g : Release(g, "session")
         /\ UNCHANGED <<child, code>> \/ \E g : Kill(g) \/ PtyClosed(g)
         /\ cbs' => cbs
         /\ DropEof \/ chan' = chan
<1>1. CASE DropTerminate \/ DropClosePty
  BY <1>1 DEF DropTerminate, DropClosePty, DropGoes, PtyClosed
<1>2. CASE DropPty
  BY <1>2 DEF DropPty, DropGoes
<1>3. CASE \/ DropAlive \/ DropClear \/ DropEof \/ DropWriter
           \/ DropJoinWriter \/ DropJoin
  BY <1>3 DEF DropAlive, DropClear, DropEof, DropWriter, DropJoinWriter,
     DropJoin, DropGoes
<1>. QED
  BY <1>1, <1>2, <1>3 DEF DropStep

LEMMA FrameUi ==
  ASSUME TInv, ArcInv, FrameInv,
         StartCall \/ StartStep \/ SendBytes \/ Terminate, ~SpawnReader
  PROVE  FrameInv'
<1>1. /\ UNCHANGED <<cbs, drop, emitted, fed, chan, pipe, sawEof, reader,
                     shown>>
      /\ ui' \in {"spawnPty", "spawnReader"} =>
           \/ starts' = starts + 1 /\ ui' = "spawnPty"
           \/ starts' = starts /\ ui = "spawnPty"
      /\ starts' \in {starts, starts + 1}
      /\ \A g \in Gen : pump'[g] \in {pump[g], "recv"}
  BY DEF StartCall, StartStep, SpawnPty, SpawnWriter, SpawnPump, UndoReader,
     UndoPty, UndoClose, StorePty, CloseOld, SpawnWatcher, StoreWatcher,
     StorePump, StoreField, StoreReader, JoinOldReader, StoreWriter,
     JoinOldWriter, SendBytes, Terminate, UiGoes, TInv, TypeOK
<1>2. ASSUME NEW g \in Gen, reader[g] # "none" \/ pump[g] = "exitCb",
             con[g] = "closed"
      PROVE  con'[g] = "closed"
  <2>1. CASE SpawnPty
    <3>1. ui = "spawnPty" /\ (con' = con \/ con' = [con EXCEPT ![starts] = "open"])
      BY <2>1 DEF SpawnPty, UiGoes
    <3>2. g # starts
      BY <1>2, <3>1 DEF FrameInv, Frame, NotYetRead, ArcInv, StartOrder,
         BeforePump, Starting
    <3>. QED
      BY <1>2, <3>1, <3>2 DEF TInv, TypeOK
  <2>2. CASE SpawnPump
    BY <1>2, <2>2 DEF SpawnPump
  <2>3. CASE ~SpawnPty /\ ~SpawnPump
    BY <1>2, <2>3, UiReleases, ReleaseLess
  <2>. QED
    BY <2>1, <2>2, <2>3
<1>3. ASSUME NEW g \in Gen, NotYetRead(g)' PROVE reader[g] = "none"
  <2>1. starts \in Nat
    BY DEF TInv, TypeOK, GenOrNone
  <2>2. NotYetRead(g)
    BY <1>1, <1>3, <2>1 DEF NotYetRead, Gen
  <2>. QED
    BY <2>2 DEF FrameInv, Frame
<1>4. ClearedFirst'
  BY <1>1 DEF FrameInv, ClearedFirst
<1>5. ASSUME NEW g \in Gen
      PROVE  /\ pump'[g] \in LastSteps \ {"exitCb"} => sawEof[g]
             /\ cbs' /\ pump'[g] \in AllShown => shown'[g] = fed[g]
             /\ pump'[g] = "exitCb"
                  => shown'[g] = emitted[g] /\ con'[g] = "closed"
  BY <1>1, <1>2 DEF FrameInv, Frame, Flow, LastSteps, AllShown
<1>. QED
  BY <1>1, <1>2, <1>3, <1>4, <1>5, FrameKept

LEMMA FrameSpawnReader ==
  ASSUME TInv, FrameInv, SpawnReader
  PROVE  FrameInv'
<1>1. /\ UNCHANGED <<cbs, starts, drop, emitted, fed, chan, pipe, sawEof,
                     shown, con, pump>>
      /\ ui = "spawnReader" /\ ui' \notin {"spawnPty", "spawnReader"}
      /\ starts \in Gen
      /\ reader'[starts] \in {"none", "read"}
      /\ \A h \in Gen \ {starts} : reader'[h] = reader[h]
  BY DEF SpawnReader, UiGoes, TInv, TypeOK, StartsInGen, FrameInv, Frame,
     NotYetRead
<1>2. reader[starts] = "none"
  BY <1>1 DEF FrameInv, Frame, NotYetRead
<1>3. ASSUME NEW g \in Gen, Flow(g) PROVE Flow(g)'
  <2>1. InHand(g)' = InHand(g)
    BY <1>1, <1>2 DEF InHand
  <2>2. /\ Bytes(chan[g])' = Bytes(chan[g]) /\ EofIn(chan[g])' = EofIn(chan[g])
    BY <1>1 DEF Bytes, EofIn
  <2>3. reader'[g] = reader[g] \/ (reader[g] = "none" /\ reader'[g] = "read")
    BY <1>1, <1>2
  <2>. QED
    BY <1>1, <1>3, <2>1, <2>2, <2>3 DEF Flow
<1>4. ASSUME NEW g \in Gen PROVE Frame(g)'
  <2>1. Frame(g)
    BY DEF FrameInv
  <2>2. cbs' => Flow(g)'
    BY <1>1, <1>3, <2>1 DEF Frame
  <2>3. NotYetRead(g)' => reader'[g] = "none"
    <3>1. NotYetRead(g)' => g > starts
      BY <1>1 DEF NotYetRead
    <3>2. g > starts => g # starts
      BY <1>1 DEF Gen
    <3>3. g > starts => reader[g] = "none"
      BY <2>1 DEF Frame, NotYetRead
    <3>. QED
      BY <1>1, <3>1, <3>2, <3>3
  <2>. QED
    BY <1>1, <2>1, <2>2, <2>3 DEF Frame
<1>5. ClearedFirst'
  BY <1>1 DEF FrameInv, ClearedFirst
<1>. QED
  BY <1>4, <1>5 DEF FrameInv

LEMMA FramePump ==
  ASSUME TInv, FrameInv, NEW g \in Gen, PumpStep(g)
  PROVE  FrameInv'
<1>1. CASE (PumpRecv(g) \/ PumpDrain(g)) /\ chan[g] # <<>>
  BY <1>1, FrameTake
<1>2. CASE ~((PumpRecv(g) \/ PumpDrain(g)) /\ chan[g] # <<>>)
  <2>1. /\ UNCHANGED <<cbs, starts, ui, drop, emitted, fed, chan, pipe, sawEof,
                       reader>>
        /\ \A h \in Gen \ {g} : UNCHANGED <<pump[h], shown[h]>>
        /\ \A h \in Gen : con[h] = "closed" => con'[h] = "closed"
    BY <1>2, SMTT(30) DEF PumpStep, PumpRecv, PumpDrain, TakeMessage, PumpEvents,
       PumpRender, PumpLastFrame, Render, PumpHostReturns, PumpCode, PumpStore,
       PumpSwap, PumpRelease, PumpClosed, PtyClosed, Release, PumpGoes, TInv,
       TypeOK
  <2>2. /\ pump'[g] \in LastSteps \ {"exitCb"}
             => sawEof[g] \/ pump[g] \in LastSteps \ {"exitCb"}
        /\ cbs' /\ pump'[g] \in AllShown =>
             \/ shown'[g] = fed[g]
             \/ pump[g] \in AllShown /\ shown'[g] = shown[g]
        /\ pump'[g] = "exitCb" =>
             pump[g] = "swap" /\ cbs /\ shown'[g] = shown[g]
    BY <1>2, SMTT(30) DEF PumpStep, PumpRecv, PumpDrain, TakeMessage, PumpEvents,
       PumpRender, PumpLastFrame, Render, AfterRender, Snapshot,
       PumpHostReturns, PumpCode, PumpStore, PumpSwap, PumpRelease, PumpClosed,
       PumpGoes, LastSteps, AllShown, TInv, TypeOK
  <2>3. Frame(g)
    BY DEF FrameInv
  <2>4. pump'[g] = "exitCb" => shown[g] = emitted[g] /\ con[g] = "closed"
    <3>. SUFFICES ASSUME pump[g] = "swap", cbs
                  PROVE  shown[g] = emitted[g] /\ con[g] = "closed"
      BY <2>2
    <3>1. /\ sawEof[g] /\ Flow(g)
      BY <2>3 DEF Frame, LastSteps
    <3>2. /\ chan[g] = <<>> /\ reader[g] = "done" /\ con[g] = "closed"
          /\ pipe[g] = 0 /\ shown[g] = fed[g]
          /\ emitted[g] = fed[g] + Bytes(chan[g]) + InHand(g) + pipe[g]
      BY <3>1 DEF Flow, AllShown
    <3>3. Bytes(chan[g]) = 0 /\ InHand(g) = 0
      BY <3>2 DEF Bytes, EofIn, InHand
    <3>4. fed[g] \in Nat
      BY DEF TInv, TypeOK
    <3>. QED
      BY <3>2, <3>3, <3>4
  <2>5. ClearedFirst'
    BY <2>1 DEF FrameInv, ClearedFirst
  <2>6. ASSUME NEW h \in Gen
        PROVE  /\ pump'[h] \in LastSteps \ {"exitCb"} => sawEof[h]
               /\ cbs' /\ pump'[h] \in AllShown => shown'[h] = fed[h]
               /\ pump'[h] = "exitCb"
                    => shown'[h] = emitted[h] /\ con'[h] = "closed"
               /\ NotYetRead(h)' => reader[h] = "none"
    <3>1. NotYetRead(h)' => reader[h] = "none"
      BY <2>1 DEF FrameInv, Frame, NotYetRead
    <3>2. CASE h = g
      BY <2>1, <2>2, <2>3, <2>4, <3>1, <3>2 DEF Frame, Flow
    <3>3. CASE h # g
      BY <2>1, <3>1, <3>3 DEF FrameInv, Frame, Flow
    <3>. QED
      BY <3>2, <3>3
  <2>. QED
    BY <2>1, <2>5, <2>6, FrameKept
<1>. QED
  BY <1>1, <1>2

(* A step of no pump, which moves no output.                               *)
LEMMA FrameRest ==
  ASSUME FrameInv,
         UNCHANGED <<starts, emitted, fed, pipe, sawEof, reader, shown, pump>>,
         chan' = chan \/ ~cbs', cbs' => cbs, ClearedFirst',
         ui' \in {ui, "drop"},
         \A g \in Gen : con[g] = "closed" => con'[g] = "closed"
  PROVE  FrameInv'
<1>1. \A g \in Gen : NotYetRead(g)' => reader[g] = "none"
  BY DEF FrameInv, Frame, NotYetRead
<1>2. CASE chan' = chan
  BY <1>1, <1>2, FrameKept DEF FrameInv, Frame, Flow
<1>3. CASE ~cbs'
  BY <1>1, <1>3 DEF FrameInv, Frame
<1>. QED
  BY <1>2, <1>3

LEMMA FrameElse ==
  ASSUME TInv, FrameInv,
         \/ \E g \in Gen : \/ WatcherStep(g) \/ WriterStep(g) \/ ChildEnds(g)
                           \/ ChildSignals(g) \/ ConLeaves(g)
         \/ AllOver \/ ClearCallbacks \/ UNCHANGED vars
  PROVE  FrameInv'
<1>1. /\ UNCHANGED <<starts, emitted, fed, pipe, sawEof, reader, shown, pump,
                     chan, drop, ui>>
      /\ cbs' => cbs
      /\ \A g \in Gen : con[g] = "closed" => con'[g] = "closed"
  <2>1. ASSUME NEW g \in Gen, WatcherStep(g) PROVE <1>1!1 /\ <1>1!2 /\ <1>1!3
    BY <2>1, SMTT(30) DEF WatcherStep, WatcherLoops, WatcherStore, WatcherSwap,
       WatcherRelease, WatcherClosed, WatcherGoes, Release, PtyClosed, TInv,
       TypeOK
  <2>2. ASSUME NEW g \in Gen, \/ WriterStep(g) \/ ChildEnds(g)
                              \/ ChildSignals(g) \/ ConLeaves(g)
        PROVE <1>1!1 /\ <1>1!2 /\ <1>1!3
    BY <2>2, SMTT(30) DEF WriterStep, WriterTakes, WriterWritten,
      WriterGoes, ChildEnds, ChildSignals, ConLeaves, EnvFrame,
       TInv, TypeOK
  <2>3. CASE AllOver \/ ClearCallbacks \/ UNCHANGED vars
    BY <2>3 DEF AllOver, ClearCallbacks, vars
  <2>. QED
    BY <2>1, <2>2, <2>3
<1>2. ClearedFirst'
  BY <1>1 DEF FrameInv, ClearedFirst
<1>. QED
  BY <1>1, <1>2, FrameRest

LEMMA FrameDrop ==
  ASSUME TInv, FrameInv, DestroyCall \/ DropStep
  PROVE  FrameInv'
<1>1. /\ UNCHANGED <<starts, emitted, fed, pipe, sawEof, reader, shown, pump>>
      /\ ui' \in {ui, "drop"}
      /\ cbs' => cbs
      /\ \A g \in Gen : con[g] = "closed" => con'[g] = "closed"
  <2>1. CASE DestroyCall
    BY <2>1 DEF DestroyCall
  <2>2. CASE DropStep
    <3>1. \A g \in Gen : con[g] = "closed" => con'[g] = "closed"
      BY <2>2, DropTouches, ReleaseLess
    <3>2. /\ UNCHANGED <<starts, emitted, fed, pipe, sawEof, reader, shown, pump,
                         ui>>
      BY <2>2, DropTouches
    <3>3. cbs' => cbs
      BY <2>2, DropTouches
    <3>. QED
      BY <3>1, <3>2, <3>3
  <2>. QED
    BY <2>1, <2>2
<1>2. ClearedFirst'
  BY DEF DestroyCall, DropStep, DropAlive, DropClear, DropTerminate, DropEof,
     DropWriter, DropJoinWriter, DropPty, DropClosePty, DropJoin, DropGoes,
     FrameInv, ClearedFirst
<1>3. chan' = chan \/ ~cbs'
  <2>1. CASE DropEof
    BY <2>1 DEF DropEof, DropGoes, FrameInv, ClearedFirst
  <2>2. CASE DestroyCall \/ (DropStep /\ ~DropEof)
    BY <2>2, DropTouches DEF DestroyCall
  <2>. QED
    BY <2>1, <2>2
<1>. QED
  BY <1>1, <1>2, <1>3, FrameRest

LEMMA FrameStep == TInv /\ ArcInv /\ FrameInv /\ [Next]_vars => FrameInv'
<1>. SUFFICES ASSUME TInv, ArcInv, FrameInv, [Next]_vars PROVE FrameInv'
  OBVIOUS
<1>1. CASE StartCall \/ StartStep \/ SendBytes \/ Terminate
  BY <1>1, FrameUi, FrameSpawnReader
<1>2. CASE \E g \in Gen : ReaderStep(g)
  BY <1>2, FrameReader
<1>3. CASE \E g \in Gen : PumpStep(g)
  BY <1>3, FramePump
<1>4. CASE \E g \in Gen : EnvStep(g) /\ (ConWrite(g) \/ ConCloses(g))
  BY <1>4, FrameWrites
<1>5. CASE DestroyCall \/ DropStep
  BY <1>5, FrameDrop
<1>6. CASE \/ \E g \in Gen : \/ WatcherStep(g) \/ WriterStep(g)
                             \/ ChildEnds(g) \/ ChildSignals(g)
                             \/ ConLeaves(g)
           \/ AllOver \/ ClearCallbacks \/ UNCHANGED vars
  BY <1>6, FrameElse
<1>. QED
  BY <1>1, <1>2, <1>3, <1>4, <1>5, <1>6 DEF Next, EnvStep

(* The frame delivered before the EOF path announces the end holds all that*)
(* the console wrote: nothing is dropped or taken twice between the pipe   *)
(* and the terminal, and Drop's own Eof never reaches the host (session.rs *)
(* 261-271), for every number of starts.                                   *)
THEOREM LastFrameWhole == Spec => []LastFrameComplete
<1>. DEFINE All == TInv /\ ArcInv /\ FrameInv
<1>1. Init => All
  BY InitTyped, ArcInit, FrameInit
<1>2. All /\ [Next]_vars => All'
  BY StepTyped, ArcStep, FrameStep
<1>3. All => LastFrameComplete
  BY DEF FrameInv, Frame, LastFrameComplete
<1>. QED
  BY <1>1, <1>2, <1>3, PTL DEF Spec

-----------------------------------------------------------------------------
(* The exit code.  Where conhost does not leave before the process handle  *)
(* is signalled, the end of the output comes after the end of the child.   *)

FreshPty(g) == g > starts \/ (g = starts /\ ui = "spawnPty")
Telling     == {"store", "swap"}

CodeOf(g) ==
  /\ con[g] = "closed" /\ refs[g] # {} => child[g] = "exited"
  /\ cbs /\ pump[g] \in Telling => child[g] = "exited" /\ pcode[g] = code[g]
  /\ watcher[g] \in Telling => child[g] = "exited"

ToldOnce == \A i \in DOMAIN exits : ~FreshPty(exits[i].gen)

CodeInv == (\A g \in Gen : CodeOf(g)) /\ ToldOnce /\ ExitCodeTrue

LEMMA CodeInit == Init => CodeInv
BY DEF Init, CodeInv, CodeOf, ToldOnce, ExitCodeTrue, Telling

(* What every step has to show: a child that has ended stays as it is, and *)
(* what is told is told of one that has ended.                             *)
LEMMA CodeKept ==
  ASSUME TInv, CodeInv,
         \A g \in Gen : FreshPty(g)' => FreshPty(g),
         \A g \in Gen : ~FreshPty(g) /\ child[g] = "exited"
                          => child'[g] = "exited" /\ code'[g] = code[g],
         \A g \in Gen : CodeOf(g)',
         \/ exits' = exits
         \/ \E g \in Gen : /\ exits' = Append(exits, [gen |-> g,
                                                      code |-> code[g]])
                           /\ child[g] = "exited" /\ ~FreshPty(g)
  PROVE  CodeInv'
<1>. DEFINE Right(e) == \E g \in Gen : /\ e.gen = g /\ ~FreshPty(g)'
                                       /\ child'[g] = "exited"
                                       /\ e.code = code'[g]
<1>1. /\ exits \in Seq([gen : Gen, code : AllCodes])
      /\ Len(exits) \in Nat /\ DOMAIN exits = 1..Len(exits)
  BY DEF TInv, TypeOK
<1>2. ASSUME NEW i \in 1..Len(exits) PROVE Right(exits[i])
  <2>1. exits[i] \in [gen : Gen, code : AllCodes]
    BY <1>1, <1>2, ElementOfSeq
  <2>2. PICK g \in Gen : exits[i].gen = g
    BY <2>1
  <2>3. ~FreshPty(g) /\ child[g] = "exited" /\ exits[i].code = code[g]
    BY <1>1, <1>2, <2>2 DEF CodeInv, ToldOnce, ExitCodeTrue
  <2>4. ~FreshPty(g)' /\ child'[g] = "exited" /\ exits[i].code = code'[g]
    BY <2>3
  <2>. QED
    BY <2>2, <2>4
<1>3. ASSUME \A i \in DOMAIN exits' : Right(exits'[i])
      PROVE  CodeInv'
  BY <1>3 DEF CodeInv, ToldOnce, ExitCodeTrue, FreshPty
<1>4. CASE exits' = exits
  BY <1>1, <1>2, <1>3, <1>4
<1>5. ASSUME NEW g \in Gen, child[g] = "exited", ~FreshPty(g),
             exits' = Append(exits, [gen |-> g, code |-> code[g]])
      PROVE  CodeInv'
  <2>1. [gen |-> g, code |-> code[g]] \in [gen : Gen, code : AllCodes]
    BY DEF TInv, TypeOK
  <2>2. /\ Len(exits') = Len(exits) + 1 /\ DOMAIN exits' = 1..Len(exits')
        /\ \A i \in 1..Len(exits) : exits'[i] = exits[i]
        /\ exits'[Len(exits) + 1] = [gen |-> g, code |-> code[g]]
    <3>. DEFINE S == [gen : Gen, code : AllCodes]
                e == [gen |-> g, code |-> code[g]]
    <3>1. exits \in Seq(S) /\ e \in S
      BY <1>1, <2>1
    <3>. HIDE DEF S, e
    <3>2. /\ Append(exits, e) \in Seq(S)
          /\ Len(Append(exits, e)) = Len(exits) + 1
          /\ \A i \in 1..Len(exits) : Append(exits, e)[i] = exits[i]
          /\ Append(exits, e)[Len(exits) + 1] = e
      BY <3>1, AppendProperties
    <3>3. exits' = Append(exits, e)
      BY <1>5 DEF e
    <3>. QED
      BY <3>2, <3>3, LenProperties DEF e
  <2>3. Right([gen |-> g, code |-> code[g]])
    BY <1>5
  <2>4. ASSUME NEW i \in 1..Len(exits) + 1 PROVE Right(exits'[i])
    <3>1. CASE i = Len(exits) + 1
      BY <2>2, <2>3, <3>1
    <3>2. CASE i # Len(exits) + 1
      <4>1. i \in 1..Len(exits)
        BY <1>1, <2>4, <3>2
      <4>2. Right(exits[i])
        BY <1>2, <4>1
      <4>. QED
        BY <2>2, <4>1, <4>2
    <3>. QED
      BY <3>1, <3>2
  <2>5. DOMAIN exits' = 1..Len(exits) + 1
    BY <2>2
  <2>6. \A i \in DOMAIN exits' : Right(exits'[i])
    BY <2>4, <2>5
  <2>. QED
    BY <1>3, <2>6
<1>. QED
  BY <1>4, <1>5

(* A thread that runs holds its Arc, so its console is not being closed.   *)
LEMMA HeldConsole ==
  ASSUME ArcInv, NEW g \in Gen, con[g] = "closing"
  PROVE  refs[g] = {} /\ pump[g] \in NotUsing /\ watcher[g] \in NotUsing
BY DEF ArcInv, ClosedUnheld, ThreadsHold

(* A step of neither pump nor watcher that ends no console.                *)
LEMMA CodeRest ==
  ASSUME TInv, CodeInv, UNCHANGED <<exits, pcode>>, cbs' => cbs,
         \A g \in Gen :
           /\ FreshPty(g)' => FreshPty(g)
           /\ child[g] = "exited" => child'[g] = "exited" /\ code'[g] = code[g]
           /\ con'[g] = "closed" /\ refs'[g] # {}
                => con[g] = "closed" /\ refs[g] # {}
           /\ pump'[g] \in Telling => pump[g] = pump'[g]
           /\ watcher'[g] \in Telling => watcher[g] = watcher'[g]
  PROVE  CodeInv'
<1>1. ASSUME NEW g \in Gen PROVE CodeOf(g)'
  BY DEF CodeInv, CodeOf
<1>. QED
  BY <1>1, CodeKept

(* What has threads or a console that closed is not fresh.                 *)
LEMMA NotFresh ==
  ASSUME ArcInv, NEW g \in Gen,
         pump[g] # "none" \/ watcher[g] # "none"
  PROVE  ~FreshPty(g)
BY DEF ArcInv, StartOrder, FreshPty, BeforeWatcher, BeforeStore, BeforePump,
   Starting

LEMMA CodeUi ==
  ASSUME TInv, ArcInv, CodeInv, StartCall \/ StartStep \/ SendBytes \/ Terminate
  PROVE  CodeInv'
<1>1. /\ UNCHANGED <<exits, pcode, cbs>>
      /\ \A g \in Gen : /\ pump'[g] \in Telling => pump'[g] = pump[g]
                        /\ watcher'[g] \in Telling => watcher'[g] = watcher[g]
      /\ starts' \in {starts, starts + 1}
      /\ ui' = "spawnPty" => starts' = starts + 1
  BY DEF StartCall, StartStep, SpawnPty, SpawnReader, SpawnWriter, SpawnPump,
     UndoReader, UndoPty, UndoClose, StorePty, CloseOld, SpawnWatcher,
     StoreWatcher, StorePump, StoreField, StoreReader, JoinOldReader,
     StoreWriter, JoinOldWriter, SendBytes, Terminate, UiGoes, Telling, TInv,
     TypeOK
<1>2. starts \in Nat
  BY DEF TInv, TypeOK, GenOrNone
<1>3. ASSUME NEW g \in Gen, FreshPty(g)' PROVE FreshPty(g)
  BY <1>1, <1>2, <1>3 DEF FreshPty, Gen
<1>0. ASSUME SpawnPty, NEW g \in Gen
      PROVE  /\ con'[g] = "open" \/ (con'[g] = con[g] /\ refs'[g] = refs[g])
             /\ g # starts \/ con'[g] = "open" \/ child'[g] = child[g]
             /\ g # starts => child'[g] = child[g]
             /\ code' = code /\ ui = "spawnPty"
  BY <1>0 DEF SpawnPty, UiGoes, TInv, TypeOK
<1>4. ASSUME NEW g \in Gen, ~FreshPty(g) \/ con'[g] = "closed",
             child[g] = "exited"
      PROVE  child'[g] = "exited" /\ code'[g] = code[g]
  <2>1. CASE SpawnPty
    BY <1>0, <1>4, <2>1 DEF FreshPty
  <2>2. CASE ~SpawnPty
    BY <1>4, <2>2, UiKills, KillLess
  <2>. QED
    BY <2>1, <2>2
<1>5. ASSUME NEW g \in Gen, pump'[g] \in Telling \/ watcher'[g] \in Telling
      PROVE  ~FreshPty(g)
  BY <1>1, <1>5, NotFresh DEF Telling
<1>6. ASSUME NEW g \in Gen, con'[g] = "closed", refs'[g] # {}
      PROVE  con[g] = "closed" /\ refs[g] # {}
  <2>1. CASE SpawnPump
    <3>1. /\ con' = con /\ ui = "spawnPump"
          /\ g # starts => refs'[g] = refs[g]
      BY <2>1 DEF SpawnPump, CloneArcs, UiGoes, TInv, TypeOK
    <3>2. refs[starts] = {"session"}
      BY <3>1 DEF ArcInv, StartOrder, HasPtyLocal, BeforePump, Starting
    <3>. QED
      BY <1>6, <3>1, <3>2
  <2>2. CASE SpawnPty
    BY <1>0, <1>6, <2>2
  <2>3. CASE ~SpawnPump /\ ~SpawnPty
    BY <1>6, <2>3, UiReleases, ReleaseLess
  <2>. QED
    BY <2>1, <2>2, <2>3
<1>. QED
  <2>1. ASSUME NEW g \in Gen PROVE CodeOf(g)'
    <3>1. CodeOf(g)
      BY DEF CodeInv
    <3>2. con'[g] = "closed" /\ refs'[g] # {} => child'[g] = "exited"
      BY <1>4, <1>6, <3>1 DEF CodeOf
    <3>3. cbs' /\ pump'[g] \in Telling
            => child'[g] = "exited" /\ pcode'[g] = code'[g]
      BY <1>1, <1>4, <1>5, <3>1 DEF CodeOf
    <3>4. watcher'[g] \in Telling => child'[g] = "exited"
      BY <1>1, <1>4, <1>5, <3>1 DEF CodeOf
    <3>. QED
      BY <3>2, <3>3, <3>4 DEF CodeOf
  <2>. QED
    BY <1>1, <1>3, <1>4, <2>1, CodeKept

LEMMA CodePump ==
  ASSUME TInv, ArcInv, FrameInv, CodeInv, NEW g \in Gen, PumpStep(g)
  PROVE  CodeInv'
<1>1. /\ UNCHANGED <<cbs, starts, ui, watcher, code>>
      /\ pump[g] \notin NotUsing \/ pump[g] = "closing"
      /\ \A h \in Gen \ {g} : UNCHANGED <<pump[h], pcode[h]>>
      /\ \A h \in Gen :
           /\ child[h] = "exited" => child'[h] = "exited"
           /\ con'[h] = "closed" => con[h] = "closed"
           /\ refs'[h] \subseteq refs[h]
  BY SMTT(30) DEF PumpStep, PumpRecv, PumpDrain, TakeMessage, PumpEvents, PumpRender,
     PumpLastFrame, Render, PumpHostReturns, PumpCode, PumpStore, PumpSwap,
     PumpRelease, PumpClosed, PtyClosed, Release, PumpGoes, NotUsing, TInv,
     TypeOK
<1>2. ~FreshPty(g)
  BY <1>1, NotFresh DEF NotUsing
<1>3. CodeOf(g) /\ Frame(g)
  BY DEF CodeInv, FrameInv
<1>4. ASSUME cbs, pump[g] = "code" PROVE child[g] = "exited"
  <2>1. con[g] = "closed"
    BY <1>3, <1>4 DEF Frame, Flow, LastSteps
  <2>2. refs[g] # {}
    BY <1>4 DEF ArcInv, ThreadsHold, NotUsing
  <2>. QED
    BY <1>3, <2>1, <2>2 DEF CodeOf
<1>5. ASSUME cbs', pump'[g] \in Telling
      PROVE  child'[g] = "exited" /\ pcode'[g] = code'[g]
  <2>1. \/ pump[g] = "code" /\ pcode'[g] = ExitCodeOrZero(g) /\ child' = child
        \/ pump[g] = "store" /\ UNCHANGED <<pcode, child>>
    BY <1>5, ZenonT(60) DEF PumpStep, PumpRecv, PumpDrain, TakeMessage, PumpEvents,
       PumpRender, PumpLastFrame, Render, AfterRender, PumpHostReturns,
       PumpCode, PumpStore, PumpSwap, PumpRelease, PumpClosed, PumpGoes,
       Telling, TInv, TypeOK
  <2>. QED
    BY <1>1, <1>3, <1>4, <1>5, <2>1 DEF CodeOf, Telling, ExitCodeOrZero, Exited
<1>6. ASSUME NEW h \in Gen PROVE CodeOf(h)'
  <2>1. CodeOf(h)
    BY DEF CodeInv
  <2>2. con'[h] = "closed" /\ refs'[h] # {} => child'[h] = "exited"
    BY <1>1, <2>1 DEF CodeOf
  <2>3. watcher'[h] \in Telling => child'[h] = "exited"
    BY <1>1, <2>1 DEF CodeOf
  <2>4. cbs' /\ pump'[h] \in Telling
          => child'[h] = "exited" /\ pcode'[h] = code'[h]
    BY <1>1, <1>5, <2>1 DEF CodeOf
  <2>. QED
    BY <2>2, <2>3, <2>4 DEF CodeOf
<1>7. \/ exits' = exits
      \/ /\ exits' = Append(exits, [gen |-> g, code |-> code[g]])
         /\ child[g] = "exited"
  <2>1. CASE PumpSwap(g)
    BY <1>3, <2>1 DEF PumpSwap, SwapAndTell, PumpGoes, CodeOf, Telling
  <2>2. CASE ~PumpSwap(g)
    BY <2>2 DEF PumpStep, PumpRecv, PumpDrain, TakeMessage, PumpEvents,
       PumpRender, PumpLastFrame, Render, PumpHostReturns, PumpCode,
       PumpStore, PumpRelease, PumpClosed
  <2>. QED
    BY <2>1, <2>2
<1>8. \A h \in Gen : FreshPty(h)' => FreshPty(h)
  BY <1>1 DEF FreshPty
<1>. QED
  BY <1>1, <1>2, <1>6, <1>7, <1>8, CodeKept

LEMMA CodeWatcher ==
  ASSUME TInv, ArcInv, CodeInv, NEW g \in Gen, WatcherStep(g)
  PROVE  CodeInv'
<1>1. /\ UNCHANGED <<cbs, starts, ui, pump, pcode, code>>
      /\ watcher[g] # "none"
      /\ \A h \in Gen \ {g} : watcher'[h] = watcher[h]
      /\ \A h \in Gen :
           /\ child[h] = "exited" => child'[h] = "exited"
           /\ con'[h] = "closed" => con[h] = "closed"
           /\ refs'[h] \subseteq refs[h]
      /\ watcher'[g] \in Telling
           => child[g] = "exited" \/ watcher[g] \in Telling
  <2>1. CASE WatcherRelease(g)
    BY <2>1 DEF WatcherRelease, WatcherGoes, Release, Telling, TInv, TypeOK
  <2>2. CASE WatcherClosed(g)
    BY <2>2 DEF WatcherClosed, WatcherGoes, PtyClosed, Telling, TInv, TypeOK
  <2>3. CASE WatcherLoops(g) \/ WatcherStore(g) \/ WatcherSwap(g)
    BY <2>3 DEF WatcherLoops, WatcherStore, WatcherSwap, WatcherGoes, Exited,
       Telling, TInv, TypeOK
  <2>. QED
    BY <2>1, <2>2, <2>3 DEF WatcherStep
<1>2. ~FreshPty(g)
  BY <1>1, NotFresh
<1>3. ASSUME NEW h \in Gen PROVE CodeOf(h)'
  <2>1. CodeOf(h)
    BY DEF CodeInv
  <2>2. con'[h] = "closed" /\ refs'[h] # {} => child'[h] = "exited"
    BY <1>1, <2>1 DEF CodeOf
  <2>3. watcher'[h] \in Telling => child'[h] = "exited"
    BY <1>1, <2>1 DEF CodeOf
  <2>4. cbs' /\ pump'[h] \in Telling
          => child'[h] = "exited" /\ pcode'[h] = code'[h]
    BY <1>1, <2>1 DEF CodeOf
  <2>. QED
    BY <2>2, <2>3, <2>4 DEF CodeOf
<1>4. \/ exits' = exits
      \/ /\ exits' = Append(exits, [gen |-> g, code |-> code[g]])
         /\ child[g] = "exited"
  <2>1. CASE WatcherSwap(g)
    BY <2>1 DEF WatcherSwap, SwapAndTell, WatcherGoes, CodeInv, CodeOf, Telling
  <2>2. CASE ~WatcherSwap(g)
    BY <2>2 DEF WatcherStep, WatcherLoops, WatcherStore, WatcherRelease,
       WatcherClosed
  <2>. QED
    BY <2>1, <2>2
<1>5. \A h \in Gen : FreshPty(h)' => FreshPty(h)
  BY <1>1 DEF FreshPty
<1>. QED
  BY <1>1, <1>2, <1>3, <1>4, <1>5, CodeKept

LEMMA CodeElse ==
  ASSUME TInv, CodeInv,
         \/ \E g \in Gen : \/ ReaderStep(g) \/ WriterStep(g) \/ ChildEnds(g)
                           \/ ChildSignals(g) \/ ConWrite(g)
         \/ DestroyCall \/ DropStep \/ AllOver \/ ClearCallbacks
         \/ UNCHANGED vars
  PROVE  CodeInv'
<1>. DEFINE Kept ==
       /\ UNCHANGED <<exits, pcode, starts, pump, watcher>>
       /\ cbs' => cbs
       /\ ui' \in {ui, "drop"}
       /\ \A g \in Gen :
            /\ child[g] = "exited"
                 => child'[g] = "exited" /\ code'[g] = code[g]
            /\ con'[g] = "closed" => con[g] = "closed"
            /\ refs'[g] \subseteq refs[g]
<1>1. Kept
  <2>1. CASE \E g \in Gen : ReaderStep(g) \/ WriterStep(g) \/ ConWrite(g)
    BY <2>1 DEF ReaderStep, ReadFile, ReaderSend, ReaderGoes, WriterStep, WriterTakes, WriterWritten,
      WriterGoes,
       ConWrite, EnvFrame
  <2>2. CASE \E g \in Gen : ChildEnds(g) \/ ChildSignals(g)
    BY <2>2, SMTT(30) DEF ChildEnds, ChildSignals, EnvFrame, TInv, TypeOK
  <2>3. CASE DestroyCall \/ AllOver \/ ClearCallbacks \/ UNCHANGED vars
    BY <2>3 DEF DestroyCall, AllOver, ClearCallbacks, vars
  <2>4. CASE DropStep
    <3>1. \A g \in Gen : child[g] = "exited"
             => child'[g] = "exited" /\ code'[g] = code[g]
      BY <2>4, DropTouches, KillLess
    <3>2. \A g \in Gen : /\ con'[g] = "closed" => con[g] = "closed"
                         /\ refs'[g] \subseteq refs[g]
      BY <2>4, DropTouches, ReleaseLess
    <3>3. UNCHANGED <<exits, pcode, starts, pump, watcher, ui>>
      BY <2>4, DropTouches
    <3>4. cbs' => cbs
      BY <2>4, DropTouches
    <3>. QED
      BY <3>1, <3>2, <3>3, <3>4
  <2>. QED
    BY <2>1, <2>2, <2>3, <2>4
<1>2. \A g \in Gen : FreshPty(g)' => FreshPty(g)
  BY <1>1 DEF FreshPty
<1>. QED
  BY <1>1, <1>2, CodeRest

LEMMA CodeConsole ==
  ASSUME TInv, ArcInv, CodeInv, ~EofBeforeSignal, NEW g \in Gen,
         ConCloses(g) \/ ConLeaves(g)
  PROVE  CodeInv'
<1>1. /\ UNCHANGED <<cbs, starts, ui, pump, pcode, watcher, child, code, refs,
                     exits>>
      /\ \A h \in Gen \ {g} : con'[h] = con[h]
      /\ con[g] = "closing" \/ child[g] = "exited"
  BY DEF ConCloses, ConLeaves, EnvFrame, TInv, TypeOK
<1>2. con[g] = "closing" => refs[g] = {}
  BY HeldConsole
<1>3. ASSUME NEW h \in Gen PROVE CodeOf(h)'
  BY <1>1, <1>2 DEF CodeInv, CodeOf
<1>4. \A h \in Gen : FreshPty(h)' => FreshPty(h)
  BY <1>1 DEF FreshPty
<1>. QED
  BY <1>1, <1>3, <1>4, CodeKept

(* Where conhost does not leave before the process handle is signalled,    *)
(* every on_exit call comes after the end of its child and carries the code*)
(* the child ended with, 259 and every other code included, for every      *)
(* number of starts (session.rs 273-287, 310-326).                         *)
THEOREM ExitCodesTrue ==
  ASSUME ~EofBeforeSignal
  PROVE  Spec => []ExitCodeTrue
<1>. DEFINE All == TInv /\ ArcInv /\ FrameInv /\ CodeInv
<1>1. Init => All
  BY InitTyped, ArcInit, FrameInit, CodeInit
<1>2. All /\ [Next]_vars => All'
  <2>. SUFFICES ASSUME All, [Next]_vars PROVE CodeInv'
    BY StepTyped, ArcStep, FrameStep
  <2>1. CASE StartCall \/ StartStep \/ SendBytes \/ Terminate
    BY <2>1, CodeUi
  <2>2. CASE \E g \in Gen : PumpStep(g)
    BY <2>2, CodePump
  <2>3. CASE \E g \in Gen : WatcherStep(g)
    BY <2>3, CodeWatcher
  <2>4. CASE \E g \in Gen : ConCloses(g) \/ ConLeaves(g)
    BY <2>4, CodeConsole
  <2>5. CASE \/ \E g \in Gen : \/ ReaderStep(g) \/ WriterStep(g)
                               \/ ChildEnds(g) \/ ChildSignals(g)
                               \/ ConWrite(g)
             \/ DestroyCall \/ DropStep \/ AllOver \/ ClearCallbacks
             \/ UNCHANGED vars
    BY <2>5, CodeElse
  <2>. QED
    BY <2>1, <2>2, <2>3, <2>4, <2>5 DEF Next, EnvStep
<1>3. All => ExitCodeTrue
  BY DEF CodeInv
<1>. QED
  BY <1>1, <1>2, <1>3, PTL DEF Spec
=============================================================================
