---------------------------- MODULE SessionProofs ----------------------------
(***************************************************************************)
(* Theorems about Session, for every value of its constants.               *)
(***************************************************************************)
EXTENDS Session, TLAPS

(* While start() has begun a generation, that generation is one of Gen.    *)
StartsInGen == ui \notin {"idle", "drop"} => starts \in Gen

TInv == TypeOK /\ StartsInGen

LEMMA InitTyped == Init => TInv
<1>. SUFFICES ASSUME Init PROVE TInv
  OBVIOUS
<1>. USE DEF Init
<1>0. 0 \in GenOrNone
  BY BoundsAssumption DEF GenOrNone
<1>1. /\ alive \in BOOLEAN /\ exitCode \in AllCodes /\ cbs \in BOOLEAN
      /\ slot \in [Fields -> GenOrNone] /\ starts \in GenOrNone
  BY <1>0 DEF AllCodes
<1>2. ui \in UiSteps /\ drop \in DropSteps /\ dropper \in Droppers
  BY DEF UiSteps, DropSteps, Droppers, NoOne
<1>3. /\ reader \in [Gen -> ReaderSteps] /\ writer \in [Gen -> WriterSteps]
      /\ pump \in [Gen -> PumpSteps] /\ watcher \in [Gen -> WatcherSteps]
  BY DEF ReaderSteps, WriterSteps, PumpSteps, WatcherSteps
<1>4. /\ chan \in [Gen -> Seq({"bytes", "eof"})]
      /\ wq \in [Gen -> Seq({"data", "stop"})]
      /\ exits \in Seq([gen : Gen, code : AllCodes])
  OBVIOUS
<1>5. /\ sawEof \in [Gen -> BOOLEAN] /\ pcode \in [Gen -> AllCodes]
      /\ refs \in [Gen -> SUBSET Holders] /\ code \in [Gen -> AllCodes]
  BY DEF AllCodes
<1>6. QED
  BY <1>1, <1>2, <1>3, <1>4, <1>5 DEF TInv, TypeOK, StartsInGen

(* What the changes of a queue, of a function and of the Arc holders keep. *)
LEMMA ChanTyped ==
  ASSUME TInv, NEW g \in Gen, NEW m \in {"bytes", "eof"}
  PROVE  /\ [chan EXCEPT ![g] = Append(@, m)] \in [Gen -> Seq({"bytes", "eof"})]
         /\ chan[g] # <<>> =>
              [chan EXCEPT ![g] = Tail(@)] \in [Gen -> Seq({"bytes", "eof"})]
<1>1. chan \in [Gen -> Seq({"bytes", "eof"})]
  BY DEF TInv, TypeOK
<1>2. QED
  BY <1>1

LEMMA QueueTyped ==
  ASSUME TInv, NEW g \in Gen, NEW m \in {"data", "stop"}
  PROVE  /\ [wq EXCEPT ![g] = Append(@, m)] \in [Gen -> Seq({"data", "stop"})]
         /\ wq[g] # <<>> =>
              [wq EXCEPT ![g] = Tail(@)] \in [Gen -> Seq({"data", "stop"})]
<1>1. wq \in [Gen -> Seq({"data", "stop"})]
  BY DEF TInv, TypeOK
<1>2. QED
  BY <1>1

LEMMA SlotInGen ==
  ASSUME TInv, NEW f \in Fields, slot[f] # 0
  PROVE  slot[f] \in Gen
<1>1. slot[f] \in 0..MaxStarts
  BY DEF TInv, TypeOK, GenOrNone
<1>2. QED
  BY <1>1, BoundsAssumption DEF Gen

LEMMA NoneTyped ==
  ASSUME TInv, NEW f \in Fields
  PROVE  [slot EXCEPT ![f] = 0] \in [Fields -> GenOrNone]
<1>1. 0 \in GenOrNone
  BY BoundsAssumption DEF GenOrNone
<1>2. QED
  BY <1>1 DEF TInv, TypeOK

LEMMA KillTyped ==
  ASSUME TInv, NEW g \in Gen, Kill(g)
  PROVE  /\ child' \in [Gen -> {"none", "running", "dying", "exited"}]
         /\ code' \in [Gen -> AllCodes]
  BY DEF TInv, TypeOK, Kill, AllCodes

LEMMA ReleaseTyped ==
  ASSUME TInv, NEW g \in Gen, NEW h \in Holders, Release(g, h)
  PROVE  /\ refs' \in [Gen -> SUBSET Holders]
         /\ con' \in [Gen -> {"none", "open", "closing", "closed"}]
  BY DEF TInv, TypeOK, Release

LEMMA StoreTyped ==
  ASSUME TInv, NEW f \in Fields, NEW from \in UiSteps \ {"idle", "drop"},
         NEW to \in UiSteps, StoreField(f, from, to)
  PROVE  TInv'
<1>1. /\ starts \in Gen /\ starts' = starts /\ ui' \in UiSteps
      /\ slot' = [slot EXCEPT ![f] = starts]
  BY DEF TInv, StartsInGen, StoreField, UiGoes
<1>2. slot' \in [Fields -> GenOrNone]
  BY <1>1, BoundsAssumption DEF TInv, TypeOK, Gen, GenOrNone
<1>3. QED
  BY <1>1, <1>2 DEF TInv, TypeOK, StartsInGen, StoreField, UiGoes

LEMMA UiTyped ==
  ASSUME TInv, StartCall \/ StartStep \/ SendBytes \/ Terminate
  PROVE  TInv'
<1>. USE BoundsAssumption DEF TInv, TypeOK, StartsInGen, Gen, GenOrNone,
     Fields, Holders, AllCodes, UiSteps, UiGoes
<1>1. CASE StartCall
  <2>1. starts' \in GenOrNone /\ starts' \in Gen
    BY <1>1 DEF StartCall
  <2>2. QED
    BY <1>1, <2>1 DEF StartCall
<1>2. CASE SpawnPty
  <2>1. /\ child' \in [Gen -> {"none", "running", "dying", "exited"}]
        /\ con' \in [Gen -> {"none", "open", "closing", "closed"}]
        /\ refs' \in [Gen -> SUBSET Holders]
    <3>1. starts \in Gen /\ {"session"} \in SUBSET Holders
      BY <1>2 DEF SpawnPty
    <3>2. CASE UNCHANGED <<child, con, refs>>
      BY <3>2
    <3>3. CASE /\ child' = [child EXCEPT ![starts] = "running"]
               /\ con' = [con EXCEPT ![starts] = "open"]
               /\ refs' = [refs EXCEPT ![starts] = {"session"}]
      BY <3>1, <3>3
    <3>4. QED
      BY <1>2, <3>2, <3>3 DEF SpawnPty
  <2>2. QED
    BY <1>2, <2>1, ZenonT(60) DEF SpawnPty
<1>3. CASE SpawnReader
  BY <1>3, ZenonT(60) DEF SpawnReader, ReaderSteps
<1>4. CASE SpawnWriter
  BY <1>4, ZenonT(60) DEF SpawnWriter, WriterSteps
<1>5. CASE UndoReader
  BY <1>5 DEF UndoReader
<1>6. CASE UndoPty
  BY <1>6 DEF UndoPty, Release
<1>7. CASE UndoClose
  BY <1>7 DEF UndoClose, PtyClosed
<1>8. CASE SpawnPump
  BY <1>8 DEF SpawnPump, CloneArcs, PumpSteps
<1>9. CASE StorePty
  <2>1. /\ refs' \in [Gen -> SUBSET Holders]
        /\ con' \in [Gen -> {"none", "open", "closing", "closed"}]
    <3>1. CASE slot["pty"] = 0
      BY <1>9, <3>1 DEF StorePty
    <3>2. CASE slot["pty"] # 0
      <4>1. slot["pty"] \in Gen
        BY <3>2, SlotInGen
      <4>2. Release(slot["pty"], "session")
        BY <1>9, <3>2 DEF StorePty
      <4>3. QED
        BY <4>1, <4>2, ReleaseTyped
    <3>3. QED
      BY <3>1, <3>2
  <2>2. slot' \in [Fields -> GenOrNone]
    BY <1>9 DEF StorePty
  <2>3. QED
    BY <1>9, <2>1, <2>2 DEF StorePty
<1>10. CASE CloseOld
  BY <1>10 DEF CloseOld, PtyClosed
<1>11. CASE SpawnWatcher
  BY <1>11 DEF SpawnWatcher, WatcherSteps
<1>12. CASE StoreWatcher \/ StorePump \/ JoinOldReader \/ JoinOldWriter
  BY <1>12, StoreTyped DEF StoreWatcher, StorePump, JoinOldReader,
     JoinOldWriter
<1>13. CASE StoreReader \/ StoreWriter
  <2>1. CASE slot["reader"] = 0 /\ StoreReader
    BY <2>1, StoreTyped DEF StoreReader
  <2>2. CASE slot["reader"] # 0 /\ StoreReader
    BY <2>2 DEF StoreReader
  <2>3. CASE slot["writer"] = 0 /\ StoreWriter
    BY <2>3, StoreTyped DEF StoreWriter
  <2>4. CASE slot["writer"] # 0 /\ StoreWriter
    <3>1. slot["writer"] \in Gen
      BY <2>4, SlotInGen
    <3>2. wq' \in [Gen -> Seq({"data", "stop"})]
      <4>1. wq' = [wq EXCEPT ![slot["writer"]] = Append(@, "stop")]
        BY <2>4 DEF StoreWriter, SendStop
      <4>2. QED
        BY <3>1, <4>1, QueueTyped
    <3>3. QED
      BY <2>4, <3>2 DEF StoreWriter, SendStop
  <2>5. QED
    BY <1>13, <2>1, <2>2, <2>3, <2>4
<1>14. CASE SendBytes
  <2>1. slot["writer"] \in Gen
    BY <1>14, SlotInGen DEF SendBytes
  <2>2. wq' \in [Gen -> Seq({"data", "stop"})]
    BY <1>14, <2>1, QueueTyped DEF SendBytes
  <2>3. QED
    BY <1>14, <2>2 DEF SendBytes
<1>15. CASE Terminate
  <2>1. slot["pty"] \in Gen
    BY <1>15, SlotInGen DEF Terminate
  <2>2. /\ child' \in [Gen -> {"none", "running", "dying", "exited"}]
        /\ code' \in [Gen -> AllCodes]
    BY <1>15, <2>1, KillTyped DEF Terminate
  <2>3. QED
    BY <1>15, <2>2 DEF Terminate
<1>16. QED
  BY <1>1, <1>2, <1>3, <1>4, <1>5, <1>6, <1>7, <1>8, <1>9, <1>10, <1>11,
     <1>12, <1>13, <1>14, <1>15 DEF StartStep

LEMMA ReaderWriterTyped ==
  ASSUME TInv, NEW g \in Gen, ReadFile(g) \/ ReaderSend(g) \/ WriterStep(g)
  PROVE  TInv'
<1>. USE DEF TInv, TypeOK, StartsInGen, ReaderSteps, WriterSteps
<1>1. CASE ReadFile(g)
  <2>1. pipe' \in [Gen -> Nat]
    <3>1. CASE pipe[g] > 0 /\ pipe' = [pipe EXCEPT ![g] = @ - 1]
      BY <3>1
    <3>2. CASE pipe' = pipe
      BY <3>2
    <3>3. QED
      BY <1>1, <3>1, <3>2 DEF ReadFile, HasData
  <2>2. QED
    BY <1>1, <2>1 DEF ReadFile, ReaderGoes
<1>2. CASE ReaderSend(g)
  <2>1. chan' \in [Gen -> Seq({"bytes", "eof"})]
    <3>1. \E m \in {"bytes", "eof"} : chan' = [chan EXCEPT ![g] = Append(@, m)]
      BY <1>2 DEF ReaderSend
    <3>2. QED
      BY <3>1, ChanTyped
  <2>2. QED
    BY <1>2, <2>1 DEF ReaderSend, ReaderGoes
<1>3. CASE WriterStep(g)
  <2>1. wq' \in [Gen -> Seq({"data", "stop"})]
    <3>1. CASE WriterTakes(g)
      BY <3>1, QueueTyped DEF WriterTakes
    <3>2. CASE WriterWritten(g)
      BY <3>2 DEF WriterWritten
    <3>. QED
      BY <1>3, <3>1, <3>2 DEF WriterStep
  <2>2. QED
    BY <1>3, <2>1 DEF WriterStep, WriterTakes, WriterWritten,
      WriterGoes
<1>4. QED
  BY <1>1, <1>2, <1>3

(* What an on_exit call leaves of the record of all such calls.            *)
LEMMA TellTyped ==
  ASSUME TInv, NEW g \in Gen, NEW c \in AllCodes, SwapAndTell(g, c)
  PROVE  alive' \in BOOLEAN /\ exits' \in Seq([gen : Gen, code : AllCodes])
<1>1. alive' = FALSE /\ exits' \in {exits, Append(exits, [gen |-> g, code |-> c])}
  BY DEF SwapAndTell
<1>2. exits \in Seq([gen : Gen, code : AllCodes])
  BY DEF TInv, TypeOK
<1>3. [gen |-> g, code |-> c] \in [gen : Gen, code : AllCodes]
  OBVIOUS
<1>4. Append(exits, [gen |-> g, code |-> c]) \in Seq([gen : Gen, code : AllCodes])
  BY <1>2, <1>3
<1>5. QED
  BY <1>1, <1>2, <1>4

LEMMA TakeTyped ==
  ASSUME TInv, NEW g \in Gen, NEW from, NEW onBytes \in PumpSteps,
         NEW onEof \in PumpSteps, TakeMessage(g, from, onBytes, onEof)
  PROVE  TInv'
<1>1. chan' \in [Gen -> Seq({"bytes", "eof"})]
  <2>1. chan[g] # <<>> /\ chan' = [chan EXCEPT ![g] = Tail(@)]
    BY DEF TakeMessage
  <2>2. QED
    BY <2>1, ChanTyped
<1>2. sawEof' \in [Gen -> BOOLEAN] /\ fed' \in [Gen -> Nat]
  BY DEF TInv, TypeOK, TakeMessage
<1>3. pump' \in [Gen -> PumpSteps]
  BY DEF TInv, TypeOK, TakeMessage, PumpGoes
<1>4. QED
  BY <1>1, <1>2, <1>3 DEF TInv, TypeOK, StartsInGen, TakeMessage, PumpGoes

LEMMA PumpTyped ==
  ASSUME TInv, NEW g \in Gen, PumpStep(g)
  PROVE  TInv'
<1>. USE DEF TInv, TypeOK, StartsInGen, PumpSteps, PumpGoes
<1>1. CASE PumpRecv(g)
  BY <1>1, TakeTyped DEF PumpRecv
<1>11. CASE PumpDrain(g)
  <2>1. CASE TakeMessage(g, "drain", "drain", "events")
    BY <2>1, TakeTyped
  <2>2. CASE ~TakeMessage(g, "drain", "drain", "events")
    BY <1>11, <2>2 DEF PumpDrain
  <2>3. QED
    BY <2>1, <2>2
<1>2. CASE PumpEvents(g)
  <2>1. wq' \in [Gen -> Seq({"data", "stop"})]
    <3>1. wq' = wq \/ wq' = [wq EXCEPT ![g] = Append(@, "data")]
      BY <1>2 DEF PumpEvents
    <3>2. [wq EXCEPT ![g] = Append(@, "data")] \in [Gen -> Seq({"data", "stop"})]
      BY QueueTyped
    <3>3. wq \in [Gen -> Seq({"data", "stop"})]
      OBVIOUS
    <3>4. QED
      BY <3>1, <3>2, <3>3
  <2>2. QED
    BY <1>2, <2>1 DEF PumpEvents
<1>3. CASE PumpRender(g) \/ PumpLastFrame(g)
  <2>1. shown' \in [Gen -> Nat] /\ pump' \in [Gen -> PumpSteps]
    BY <1>3 DEF PumpRender, PumpLastFrame, Render, Snapshot, AfterRender
  <2>2. QED
    BY <1>3, <2>1 DEF PumpRender, PumpLastFrame, Render
<1>4. CASE PumpHostReturns(g)
  BY <1>4 DEF PumpHostReturns, AfterRender
<1>5. CASE PumpCode(g)
  <2>1. pcode' \in [Gen -> AllCodes]
    BY <1>5 DEF PumpCode, ExitCodeOrZero, AllCodes
  <2>2. QED
    BY <1>5, <2>1 DEF PumpCode
<1>6. CASE PumpStore(g)
  BY <1>6 DEF PumpStore
<1>7. CASE PumpSwap(g)
  <2>1. alive' \in BOOLEAN /\ exits' \in Seq([gen : Gen, code : AllCodes])
    BY <1>7, TellTyped DEF PumpSwap
  <2>2. QED
    BY <1>7, <2>1 DEF PumpSwap
<1>8. CASE PumpRelease(g)
  <2>1. /\ refs' \in [Gen -> SUBSET Holders]
        /\ con' \in [Gen -> {"none", "open", "closing", "closed"}]
    BY <1>8, ReleaseTyped DEF PumpRelease, Holders
  <2>2. QED
    BY <1>8, <2>1 DEF PumpRelease
<1>9. CASE PumpClosed(g)
  BY <1>9 DEF PumpClosed, PtyClosed
<1>12. QED
  BY <1>1, <1>11, <1>2, <1>3, <1>4, <1>5, <1>6, <1>7, <1>8, <1>9 DEF PumpStep

LEMMA WatcherTyped ==
  ASSUME TInv, NEW g \in Gen, WatcherStep(g)
  PROVE  TInv'
<1>. USE DEF TInv, TypeOK, StartsInGen, WatcherSteps, WatcherGoes
<1>1. CASE WatcherLoops(g)
  BY <1>1 DEF WatcherLoops
<1>2. CASE WatcherStore(g)
  BY <1>2 DEF WatcherStore
<1>3. CASE WatcherSwap(g)
  <2>1. alive' \in BOOLEAN /\ exits' \in Seq([gen : Gen, code : AllCodes])
    BY <1>3, TellTyped DEF WatcherSwap
  <2>2. QED
    BY <1>3, <2>1 DEF WatcherSwap
<1>4. CASE WatcherRelease(g)
  <2>1. /\ refs' \in [Gen -> SUBSET Holders]
        /\ con' \in [Gen -> {"none", "open", "closing", "closed"}]
    BY <1>4, ReleaseTyped DEF WatcherRelease, Holders
  <2>2. QED
    BY <1>4, <2>1 DEF WatcherRelease
<1>5. CASE WatcherClosed(g)
  BY <1>5 DEF WatcherClosed, PtyClosed
<1>6. QED
  BY <1>1, <1>2, <1>3, <1>4, <1>5 DEF WatcherStep

LEMMA DropTyped ==
  ASSUME TInv, DestroyCall \/ DropStep
  PROVE  TInv'
<1>. USE DEF TInv, TypeOK, StartsInGen, UiSteps, DropSteps, DropGoes
<1>1. CASE DestroyCall
  <2>1. dropper' \in Droppers
    BY <1>1 DEF DestroyCall, Droppers, NoOne
  <2>2. QED
    BY <1>1, <2>1 DEF DestroyCall
<1>2. CASE DropAlive \/ DropClear
  BY <1>2 DEF DropAlive, DropClear
<1>3. CASE DropTerminate
  <2>1. /\ child' \in [Gen -> {"none", "running", "dying", "exited"}]
        /\ code' \in [Gen -> AllCodes]
    <3>1. CASE slot["pty"] = 0
      BY <1>3, <3>1 DEF DropTerminate
    <3>2. CASE slot["pty"] # 0
      <4>1. slot["pty"] \in Gen
        BY <3>2, SlotInGen DEF Fields
      <4>2. QED
        BY <1>3, <3>2, <4>1, KillTyped DEF DropTerminate
    <3>3. QED
      BY <3>1, <3>2
  <2>2. QED
    BY <1>3, <2>1 DEF DropTerminate
<1>4. CASE DropEof
  <2>1. chan' \in [Gen -> Seq({"bytes", "eof"})]
    <3>1. CASE chan' = chan
      BY <3>1
    <3>2. CASE chan' # chan
      <4>1. /\ slot["reader"] # 0
            /\ chan' = [chan EXCEPT ![slot["reader"]] = Append(@, "eof")]
        BY <1>4, <3>2 DEF DropEof, TrySendEof
      <4>2. slot["reader"] \in Gen
        BY <4>1, SlotInGen DEF Fields
      <4>3. QED
        BY <4>1, <4>2, ChanTyped
    <3>3. QED
      BY <3>1, <3>2
  <2>2. QED
    BY <1>4, <2>1 DEF DropEof
<1>5. CASE DropWriter
  <2>1. wq' \in [Gen -> Seq({"data", "stop"})]
    <3>1. CASE wq' = wq
      BY <3>1
    <3>2. CASE wq' # wq
      <4>1. /\ slot["writer"] # 0
            /\ wq' = [wq EXCEPT ![slot["writer"]] = Append(@, "stop")]
        BY <1>5, <3>2 DEF DropWriter, SendStop
      <4>2. slot["writer"] \in Gen
        BY <4>1, SlotInGen DEF Fields
      <4>3. QED
        BY <4>1, <4>2, QueueTyped
    <3>3. QED
      BY <3>1, <3>2
  <2>2. QED
    BY <1>5, <2>1 DEF DropWriter
<1>6. CASE DropJoinWriter
  <2>1. slot' \in [Fields -> GenOrNone]
    BY <1>6, NoneTyped DEF DropJoinWriter
  <2>2. QED
    BY <1>6, <2>1 DEF DropJoinWriter
<1>7. CASE DropPty
  <2>1. /\ refs' \in [Gen -> SUBSET Holders]
        /\ con' \in [Gen -> {"none", "open", "closing", "closed"}]
    <3>1. CASE slot["pty"] = 0
      BY <1>7, <3>1 DEF DropPty
    <3>2. CASE slot["pty"] # 0
      <4>1. slot["pty"] \in Gen
        BY <3>2, SlotInGen DEF Fields
      <4>2. Release(slot["pty"], "session")
        BY <1>7, <3>2 DEF DropPty
      <4>3. QED
        BY <4>1, <4>2, ReleaseTyped DEF Holders
    <3>3. QED
      BY <3>1, <3>2
  <2>2. slot' \in [Fields -> GenOrNone]
    BY <1>7, NoneTyped DEF DropPty
  <2>3. QED
    BY <1>7, <2>1, <2>2 DEF DropPty
<1>8. CASE DropClosePty
  <2>1. slot' \in [Fields -> GenOrNone]
    BY <1>8, NoneTyped DEF DropClosePty
  <2>2. QED
    BY <1>8, <2>1 DEF DropClosePty, PtyClosed
<1>9. CASE DropJoin
  BY <1>9 DEF DropJoin
<1>10. QED
  BY <1>1, <1>2, <1>3, <1>4, <1>5, <1>6, <1>7, <1>8, <1>9 DEF DropStep

LEMMA EnvTyped ==
  ASSUME TInv, NEW g \in Gen, EnvStep(g)
  PROVE  TInv'
<1>. USE DEF TInv, TypeOK, StartsInGen, EnvFrame
<1>1. CASE ChildEnds(g)
  BY <1>1 DEF ChildEnds, AllCodes
<1>2. CASE ChildSignals(g) \/ ConLeaves(g)
  BY <1>2 DEF ChildSignals, ConLeaves
<1>3. CASE ConWrite(g) \/ ConCloses(g)
  <2>1. /\ pipe' = [pipe EXCEPT ![g] = @ + 1]
        /\ emitted' = [emitted EXCEPT ![g] = @ + 1]
    BY <1>3 DEF ConWrite, ConCloses
  <2>2. pipe' \in [Gen -> Nat] /\ emitted' \in [Gen -> Nat]
    BY <2>1
  <2>3. con' \in [Gen -> {"none", "open", "closing", "closed"}]
    BY <1>3 DEF ConWrite, ConCloses
  <2>4. QED
    BY <1>3, <2>2, <2>3 DEF ConWrite, ConCloses
<1>5. QED
  BY <1>1, <1>2, <1>3 DEF EnvStep

(* Every step keeps the variables in their types.                          *)
LEMMA StepTyped == TInv /\ [Next]_vars => TInv'
<1>. SUFFICES ASSUME TInv, [Next]_vars PROVE TInv'
  OBVIOUS
<1>1. CASE UNCHANGED vars
  BY <1>1 DEF vars, TInv, TypeOK, StartsInGen
<1>2. CASE AllOver
  BY <1>1, <1>2 DEF AllOver
<1>3. CASE ClearCallbacks
  BY <1>3 DEF ClearCallbacks, TInv, TypeOK, StartsInGen
<1>4. QED
  BY <1>1, <1>2, <1>3, UiTyped, ReaderWriterTyped, PumpTyped, WatcherTyped,
     DropTyped, EnvTyped DEF Next, ReaderStep

(* Type correctness: whatever the threads of the session, its host, its    *)
(* child and its console do, every variable keeps to its type, for every   *)
(* number of restarts and every capacity.                                  *)
THEOREM TypeCorrect == Spec => []TypeOK
<1>1. TInv => TypeOK
  BY DEF TInv
<1>2. QED
  BY InitTyped, StepTyped, <1>1, PTL DEF Spec

-----------------------------------------------------------------------------
(* ExitsBounded alone is not inductive: alive is raised by the last of     *)
(* four steps, so the right to one more announcement is counted from the   *)
(* moment start() has passed its test of alive.                            *)
Starting == {"spawnPty", "spawnReader", "spawnWriter", "spawnPump"}

Counted ==
  /\ Len(exits) <= starts
  /\ alive \/ ui \in Starting => Len(exits) < starts
  /\ ui \in Starting => ~alive

LEMMA CountedTell ==
  ASSUME TInv, Counted, NEW g, NEW c, SwapAndTell(g, c),
         starts' = starts, ui' = ui
  PROVE  Counted'
<1>1. Len(exits) \in Nat /\ Len(Append(exits, [gen |-> g, code |-> c])) = Len(exits) + 1
  BY DEF TInv, TypeOK
<1>2. starts \in Int
  BY DEF TInv, TypeOK, GenOrNone
<1>3. CASE exits' = exits
  BY <1>1, <1>2, <1>3 DEF Counted, SwapAndTell
<1>4. CASE alive /\ exits' = Append(exits, [gen |-> g, code |-> c])
  BY <1>1, <1>2, <1>4 DEF Counted, SwapAndTell
<1>5. QED
  BY <1>3, <1>4 DEF SwapAndTell

LEMMA CountedStep == TInv /\ Counted /\ [Next]_vars => Counted'
<1>. SUFFICES ASSUME TInv, Counted, [Next]_vars PROVE Counted'
  OBVIOUS
<1>1. Len(exits) \in Nat /\ starts \in Int
  BY DEF TInv, TypeOK, GenOrNone
<1>2. CASE StartCall
  <2>1. /\ ~alive /\ ~alive' /\ exits' = exits
        /\ starts' = starts + 1 /\ ui \notin Starting
    BY <1>2 DEF StartCall, UiGoes, Starting
  <2>2. QED
    BY <1>1, <2>1 DEF Counted
<1>3. CASE SpawnPump
  <2>1. /\ exits' = exits /\ starts' = starts
        /\ ui \in Starting /\ ui' \notin Starting
    BY <1>3 DEF SpawnPump, UiGoes, Starting
  <2>2. QED
    BY <1>1, <2>1 DEF Counted
<1>4. ASSUME UNCHANGED <<exits, starts>>, ui' \in Starting => ui \in Starting,
             alive' => alive
      PROVE  Counted'
  BY <1>1, <1>4 DEF Counted
<1>5. CASE SpawnPty \/ SpawnReader \/ SpawnWriter
  BY <1>4, <1>5 DEF SpawnPty, SpawnReader, SpawnWriter, UiGoes, Starting
<1>6. CASE UndoReader \/ UndoPty \/ UndoClose \/ StorePty \/ CloseOld
           \/ SpawnWatcher \/ StoreWatcher \/ StorePump
  BY <1>4, <1>6 DEF UndoReader, UndoPty, UndoClose, StorePty, CloseOld,
     SpawnWatcher, StoreWatcher, StorePump, StoreField, UiGoes, Starting
<1>7. CASE StoreReader \/ JoinOldReader \/ StoreWriter \/ JoinOldWriter
           \/ SendBytes \/ Terminate
  BY <1>4, <1>7 DEF StoreReader, JoinOldReader, StoreWriter, JoinOldWriter,
     StoreField, SendBytes, Terminate, UiGoes, Starting
<1>8. CASE \E g \in Gen : ReadFile(g) \/ ReaderSend(g) \/ WriterStep(g)
  BY <1>4, <1>8 DEF ReadFile, ReaderSend, ReaderGoes, WriterStep, WriterTakes, WriterWritten,
      WriterGoes
<1>9. ASSUME NEW g \in Gen, PumpStep(g) PROVE Counted'
  <2>1. CASE PumpSwap(g)
    BY <2>1, CountedTell DEF PumpSwap, PumpGoes
  <2>2. CASE PumpRecv(g) \/ PumpDrain(g) \/ PumpEvents(g) \/ PumpRender(g)
             \/ PumpLastFrame(g)
    BY <2>2, <1>4 DEF PumpRecv, PumpDrain, TakeMessage, PumpEvents,
       PumpRender, PumpLastFrame, Render, PumpGoes
  <2>3. CASE PumpHostReturns(g) \/ PumpCode(g) \/ PumpStore(g)
             \/ PumpRelease(g) \/ PumpClosed(g)
    BY <2>3, <1>4 DEF PumpHostReturns, PumpCode, PumpStore, PumpRelease,
       PumpClosed, PumpGoes
  <2>4. QED
    BY <1>9, <2>1, <2>2, <2>3 DEF PumpStep
<1>10. ASSUME NEW g \in Gen, WatcherStep(g) PROVE Counted'
  <2>1. CASE WatcherSwap(g)
    BY <2>1, CountedTell DEF WatcherSwap, WatcherGoes
  <2>2. CASE ~WatcherSwap(g)
    BY <1>10, <2>2, <1>4 DEF WatcherStep, WatcherLoops, WatcherStore,
       WatcherRelease, WatcherClosed, WatcherGoes
  <2>3. QED
    BY <2>1, <2>2
<1>11. CASE DestroyCall
  BY <1>4, <1>11 DEF DestroyCall, Starting
<1>12. CASE DropStep
  BY <1>4, <1>12 DEF DropStep, DropAlive, DropClear, DropTerminate, DropEof,
     DropWriter, DropJoinWriter, DropPty, DropClosePty, DropJoin, DropGoes
<1>13. CASE \E g \in Gen : EnvStep(g)
  BY <1>4, <1>13 DEF EnvStep, ChildEnds, ChildSignals, ConWrite, ConCloses,
     ConLeaves, EnvFrame
<1>14. CASE AllOver \/ ClearCallbacks \/ UNCHANGED vars
  BY <1>4, <1>14 DEF AllOver, ClearCallbacks, vars
<1>15. QED
  BY <1>2, <1>3, <1>5, <1>6, <1>7, <1>8, <1>9, <1>10, <1>11, <1>12, <1>13,
     <1>14 DEF Next, StartStep, ReaderStep

(* However often the session is restarted and whichever of pump, watcher   *)
(* and destroy gets to alive first, the on_exit calls never outnumber the  *)
(* start() calls.                                                          *)
THEOREM ExitsAreBounded == Spec => []ExitsBounded
<1>1. Init => Counted
  BY DEF Init, Counted, Starting
<1>2. TInv /\ Counted => ExitsBounded
  <2>1. TInv => Len(exits) \in Nat /\ starts \in Int
    BY DEF TInv, TypeOK, GenOrNone
  <2>2. QED
    BY <2>1 DEF Counted, ExitsBounded
<1>3. QED
  BY InitTyped, StepTyped, CountedStep, <1>1, <1>2, PTL DEF Spec

(* A session that is started once announces its end at most once: the      *)
(* guarantee the swap of alive was written for (session.rs 298).           *)
THEOREM OneStartOneExit ==
  ASSUME MaxStarts = 1 PROVE Spec => []OnceEach
<1>1. TInv /\ Counted => OnceEach
  <2>. SUFFICES ASSUME TInv, Counted,
                       NEW i \in DOMAIN exits, NEW j \in DOMAIN exits
                PROVE  i = j
    BY DEF OnceEach
  <2>1. Len(exits) \in Nat /\ DOMAIN exits = 1..Len(exits)
    BY DEF TInv, TypeOK
  <2>2. starts \in Int /\ starts <= 1
    BY DEF TInv, TypeOK, GenOrNone
  <2>3. Len(exits) <= 1
    BY <2>1, <2>2 DEF Counted
  <2>4. QED
    BY <2>1, <2>3
<1>2. Init => Counted
  BY DEF Init, Counted, Starting
<1>3. QED
  BY InitTyped, StepTyped, CountedStep, <1>1, <1>2, PTL DEF Spec

-----------------------------------------------------------------------------
(* Who holds the Arc<PtyHost>: no thread queries a PtyHost whose handles   *)
(* ClosePseudoConsole is closing, for every number of restarts.            *)

Undo          == {"undoReader", "undoPty", "undoClose"}
BeforePump    == Starting \cup Undo
HasPtyLocal   == BeforePump \ {"spawnPty", "undoClose"}
Storing       == {"storePty", "closeOld"}
BeforeStore   == BeforePump \cup Storing
BeforeWatcher == BeforeStore \cup {"spawnWatcher"}
NotUsing      == {"none", "closing", "done"}

(* ClosePseudoConsole is called by the last holder.                        *)
ClosedUnheld == \A g \in Gen : con[g] = "closing" => refs[g] = {}

(* A thread holds its Arc from its first step to its release of it, the    *)
(* session from the store of its slot to the take of Drop.                 *)
ThreadsHold ==
  \A g \in Gen : /\ pump[g] \notin NotUsing => "pump" \in refs[g]
                 /\ watcher[g] \notin NotUsing => "watcher" \in refs[g]
SessionHolds ==
  \A g \in Gen :
    slot["pty"] = g /\ ui # "closeOld" /\ drop # "closePty"
      => "session" \in refs[g]

(* What start() relies on at each of its steps: its generation is new, its *)
(* threads are not there yet and the Arcs are still its own.               *)
StartOrder ==
  /\ slot["pty"] <= starts
  /\ ui \in BeforeStore => slot["pty"] < starts
  /\ \A g \in Gen :
       /\ g > starts \/ (g = starts /\ ui \in BeforePump)
            => pump[g] = "none"
       /\ g > starts \/ (g = starts /\ ui \in BeforeWatcher)
            => watcher[g] = "none"
  /\ ui \in HasPtyLocal => refs[starts] = {"session"}
  /\ ui \in Storing => "session" \in refs[starts]
  /\ ui \in Storing \cup {"spawnWatcher"} => "watcher" \in refs[starts]

DropOrder == dropper = NoOne => drop = "none"

ArcInv == ClosedUnheld /\ ThreadsHold /\ SessionHolds /\ StartOrder /\ DropOrder

LEMMA ArcInit == Init => ArcInv
<1>. SUFFICES ASSUME Init PROVE ArcInv
  OBVIOUS
<1>1. /\ ui = "idle" /\ starts = 0 /\ slot["pty"] = 0
      /\ \A g \in Gen : g # 0 /\ pump[g] = "none" /\ watcher[g] = "none"
                        /\ con[g] = "none"
  BY BoundsAssumption DEF Init, Fields, Gen
<1>2. ui \notin BeforeWatcher
  BY <1>1 DEF BeforeWatcher, BeforeStore, BeforePump, Starting, Storing, Undo
<1>3. ui \notin BeforeStore /\ ui \notin HasPtyLocal /\ ui \notin Storing
  BY <1>2 DEF BeforeWatcher, BeforeStore, BeforePump, HasPtyLocal
<1>4. ui # "spawnWatcher"
  BY <1>1
<1>5. StartOrder
  BY <1>1, <1>2, <1>3, <1>4 DEF StartOrder
<1>6. DropOrder
  BY DEF Init, DropOrder
<1>7. QED
  BY <1>1, <1>5, <1>6 DEF ArcInv, ClosedUnheld, ThreadsHold, SessionHolds,
     NotUsing

(* A step that clones and releases no Arc, fills no slot["pty"] and starts *)
(* no thread.                                                              *)
Quiet ==
  /\ refs' = refs /\ slot'["pty"] = slot["pty"] /\ starts' = starts
  /\ \A g \in Gen :
       /\ con'[g] = "closing" => con[g] = "closing"
       /\ pump[g] \in NotUsing => pump'[g] \in NotUsing
       /\ pump[g] = "none" => pump'[g] = "none"
       /\ watcher[g] \in NotUsing => watcher'[g] \in NotUsing
       /\ watcher[g] = "none" => watcher'[g] = "none"
  /\ \A S \in {BeforePump, HasPtyLocal, Storing, BeforeStore, BeforeWatcher,
               Storing \cup {"spawnWatcher"}} : ui' \in S => ui \in S
  /\ ui = "closeOld" => ui' = "closeOld"
  /\ drop = "closePty" => drop' = "closePty"
  /\ dropper' # NoOne \/ UNCHANGED <<drop, dropper>>

LEMMA QuietKeeps == ArcInv /\ Quiet => ArcInv'
<1>. SUFFICES ASSUME ArcInv, Quiet PROVE ArcInv'
  OBVIOUS
<1>1. ClosedUnheld'
  BY DEF ArcInv, ClosedUnheld, Quiet
<1>2. ThreadsHold'
  BY DEF ArcInv, ThreadsHold, Quiet
<1>3. SessionHolds'
  BY DEF ArcInv, SessionHolds, Quiet
<1>4. StartOrder'
  <2>1. slot'["pty"] <= starts' /\ (ui' \in BeforeStore => slot'["pty"] < starts')
    BY DEF ArcInv, StartOrder, Quiet
  <2>2. ASSUME NEW g \in Gen
        PROVE  /\ g > starts' \/ (g = starts' /\ ui' \in BeforePump)
                    => pump'[g] = "none"
               /\ g > starts' \/ (g = starts' /\ ui' \in BeforeWatcher)
                    => watcher'[g] = "none"
    BY DEF ArcInv, StartOrder, Quiet
  <2>3. /\ ui' \in HasPtyLocal => refs'[starts'] = {"session"}
        /\ ui' \in Storing => "session" \in refs'[starts']
        /\ ui' \in Storing \cup {"spawnWatcher"} => "watcher" \in refs'[starts']
    BY DEF ArcInv, StartOrder, Quiet
  <2>4. QED
    BY <2>1, <2>2, <2>3 DEF StartOrder
<1>5. DropOrder'
  BY DEF ArcInv, DropOrder, Quiet
<1>6. QED
  BY <1>1, <1>2, <1>3, <1>4, <1>5 DEF ArcInv

-----------------------------------------------------------------------------
(* The steps that are not quiet.                                           *)

(* Releasing an Arc touches one generation and one holder, and closes only *)
(* what nobody holds.                                                      *)
LEMMA ReleaseFacts ==
  ASSUME TInv, ClosedUnheld, NEW g \in Gen, NEW h, Release(g, h)
  PROVE  /\ ClosedUnheld'
         /\ refs'[g] = refs[g] \ {h}
         /\ \A k \in Gen \ {g} : refs'[k] = refs[k]
<1>1. refs \in [Gen -> SUBSET Holders] /\ DOMAIN con = Gen
  BY DEF TInv, TypeOK
<1>2. refs'[g] = refs[g] \ {h} /\ \A k \in Gen \ {g} : refs'[k] = refs[k]
  BY <1>1 DEF Release
<1>3. ASSUME NEW k \in Gen, con'[k] = "closing" PROVE refs'[k] = {}
  <2>1. CASE k # g
    BY <1>1, <1>2, <1>3, <2>1 DEF ClosedUnheld, Release
  <2>2. CASE k = g
    <3>1. con[g] = "closing" \/ IsLast(g, h)
      BY <1>1, <1>3, <2>2 DEF Release
    <3>2. QED
      BY <1>2, <2>2, <3>1 DEF ClosedUnheld, IsLast
  <2>3. QED
    BY <2>1, <2>2
<1>4. QED
  BY <1>2, <1>3 DEF ClosedUnheld

(* What the two numbers are that StartOrder compares.                      *)
LEMMA Numbers ==
  ASSUME TInv
  PROVE  /\ starts \in Int /\ slot["pty"] \in Int
         /\ \A g \in Gen : g \in Int /\ g >= 1
         /\ slot["pty"] # 0 => slot["pty"] \in Gen
         /\ DOMAIN slot = Fields /\ "pty" \in Fields
         /\ ui \notin {"idle", "drop"} => starts \in Gen
<1>1. slot["pty"] \in GenOrNone /\ starts \in GenOrNone
  BY DEF TInv, TypeOK, Fields
<1>2. slot["pty"] # 0 => slot["pty"] \in Gen
  BY SlotInGen DEF Fields
<1>3. QED
  BY <1>1, <1>2, BoundsAssumption DEF TInv, TypeOK, StartsInGen, GenOrNone,
     Gen, Fields

LEMMA ArcStartCall == ASSUME TInv, ArcInv, StartCall PROVE ArcInv'
<1>1. /\ ui' = "spawnPty" /\ starts' = starts + 1
      /\ UNCHANGED <<refs, con, pump, watcher, slot, drop, dropper>>
  BY DEF StartCall, UiGoes
<1>2. ui' \notin HasPtyLocal \cup Storing \cup {"spawnWatcher"}
  BY <1>1 DEF HasPtyLocal, Storing, BeforePump, Starting, Undo
<1>3. StartOrder'
  <2>1. slot'["pty"] <= starts' /\ slot'["pty"] < starts'
    BY <1>1, Numbers DEF ArcInv, StartOrder
  <2>2. \A g \in Gen : g >= starts' => pump'[g] = "none" /\ watcher'[g] = "none"
    BY <1>1, Numbers DEF ArcInv, StartOrder
  <2>3. QED
    BY <1>1, <1>2, <2>1, <2>2, Numbers DEF StartOrder
<1>4. SessionHolds'
  BY <1>1 DEF ArcInv, SessionHolds, StartCall, UiGoes
<1>5. QED
  BY <1>1, <1>3, <1>4 DEF ArcInv, ClosedUnheld, ThreadsHold, DropOrder

LEMMA ArcSpawnPty ==
  ASSUME TInv, ArcInv, SpawnPty, ui' = "spawnReader"
  PROVE  ArcInv'
<1>1. /\ starts \in Gen /\ ui = "spawnPty" /\ refs \in [Gen -> SUBSET Holders]
      /\ con \in [Gen -> {"none", "open", "closing", "closed"}]
  BY Numbers DEF SpawnPty, UiGoes, TInv, TypeOK
<1>2. /\ refs' = [refs EXCEPT ![starts] = {"session"}]
      /\ con' = [con EXCEPT ![starts] = "open"]
      /\ UNCHANGED <<pump, watcher, slot, starts, drop, dropper>>
  BY DEF SpawnPty, UiGoes
<1>3. /\ ui \in BeforePump /\ ui \in BeforeStore /\ ui \in BeforeWatcher
      /\ ui' \notin Storing \cup {"spawnWatcher"}
  BY <1>1 DEF BeforePump, BeforeStore, BeforeWatcher, Starting, Storing
<1>4. /\ slot["pty"] < starts /\ pump[starts] = "none"
      /\ watcher[starts] = "none"
  BY <1>1, <1>3 DEF ArcInv, StartOrder
<1>5. ClosedUnheld'
  BY <1>1, <1>2 DEF ArcInv, ClosedUnheld
<1>6. ThreadsHold'
  BY <1>1, <1>2, <1>4 DEF ArcInv, ThreadsHold, NotUsing
<1>7. SessionHolds'
  BY <1>1, <1>2 DEF ArcInv, SessionHolds
<1>8. StartOrder'
  BY <1>1, <1>2, <1>3, <1>4 DEF ArcInv, StartOrder
<1>9. QED
  BY <1>2, <1>5, <1>6, <1>7, <1>8 DEF ArcInv, DropOrder

LEMMA ArcUndoPty == ASSUME TInv, ArcInv, UndoPty PROVE ArcInv'
<1>1. /\ starts \in Gen /\ ui = "undoPty" /\ ui' = "undoClose"
      /\ Release(starts, "session")
      /\ UNCHANGED <<pump, watcher, slot, starts, drop, dropper>>
  BY Numbers DEF UndoPty, UiGoes
<1>2. /\ ClosedUnheld' /\ refs'[starts] = refs[starts] \ {"session"}
      /\ \A k \in Gen \ {starts} : refs'[k] = refs[k]
  BY <1>1, ReleaseFacts DEF ArcInv
<1>3. /\ ui \in BeforePump /\ ui \in BeforeStore /\ ui \in BeforeWatcher
      /\ ui' \notin HasPtyLocal \cup Storing \cup {"spawnWatcher"}
  BY <1>1 DEF BeforePump, BeforeStore, BeforeWatcher, HasPtyLocal, Storing, Undo
<1>4. /\ slot["pty"] < starts /\ pump[starts] = "none"
      /\ watcher[starts] = "none"
  BY <1>1, <1>3 DEF ArcInv, StartOrder
<1>5. ThreadsHold'
  BY <1>1, <1>2, <1>4 DEF ArcInv, ThreadsHold, NotUsing
<1>6. SessionHolds'
  BY <1>1, <1>2, <1>4, Numbers DEF ArcInv, SessionHolds
<1>7. StartOrder'
  BY <1>1, <1>3, <1>4 DEF ArcInv, StartOrder
<1>8. QED
  BY <1>1, <1>2, <1>5, <1>6, <1>7 DEF ArcInv, DropOrder

LEMMA ArcSpawnPump == ASSUME TInv, ArcInv, SpawnPump PROVE ArcInv'
<1>1. /\ starts \in Gen /\ ui = "spawnPump" /\ ui' = "storePty"
      /\ refs' = [refs EXCEPT ![starts] = Holders]
      /\ pump' = [pump EXCEPT ![starts] = "recv"]
      /\ UNCHANGED <<con, watcher, slot, starts, drop, dropper>>
      /\ refs \in [Gen -> SUBSET Holders] /\ pump \in [Gen -> PumpSteps]
  BY Numbers DEF SpawnPump, CloneArcs, UiGoes, TInv, TypeOK
<1>2. /\ ui \in HasPtyLocal /\ ui \in BeforeStore /\ ui \in BeforeWatcher
      /\ ui' \notin BeforePump /\ ui' \notin HasPtyLocal
  BY <1>1 DEF BeforePump, BeforeStore, BeforeWatcher, HasPtyLocal, Starting, Undo
<1>3. /\ slot["pty"] < starts /\ watcher[starts] = "none"
      /\ refs[starts] = {"session"}
  BY <1>1, <1>2 DEF ArcInv, StartOrder
<1>4. ClosedUnheld'
  BY <1>1, <1>3 DEF ArcInv, ClosedUnheld
<1>5. ThreadsHold'
  BY <1>1, <1>3 DEF ArcInv, ThreadsHold, NotUsing, Holders
<1>6. SessionHolds'
  BY <1>1, <1>3, Numbers DEF ArcInv, SessionHolds
<1>7. StartOrder'
  <2>1. \A g \in Gen : /\ g > starts => pump'[g] = "none"
                       /\ g >= starts => watcher'[g] = "none"
    BY <1>1, <1>3, Numbers DEF ArcInv, StartOrder
  <2>2. "session" \in refs'[starts] /\ "watcher" \in refs'[starts]
    BY <1>1 DEF Holders
  <2>3. QED
    BY <1>1, <1>2, <1>3, <2>1, <2>2, Numbers DEF StartOrder
<1>8. QED
  BY <1>1, <1>4, <1>5, <1>6, <1>7 DEF ArcInv, DropOrder

LEMMA ArcStorePty == ASSUME TInv, ArcInv, StorePty PROVE ArcInv'
<1>1. /\ starts \in Gen /\ ui = "storePty"
      /\ ui' \in {"closeOld", "spawnWatcher"}
      /\ UNCHANGED <<pump, watcher, starts, drop, dropper>>
      /\ DOMAIN slot = Fields /\ "pty" \in Fields
  BY Numbers DEF StorePty, UiGoes
<1>2. /\ ui \in Storing /\ ui \in BeforeStore /\ ui \in BeforeWatcher
      /\ ui' \notin BeforePump /\ ui' \notin HasPtyLocal
      /\ "spawnWatcher" \notin BeforeStore \cup Storing
  BY <1>1 DEF BeforePump, BeforeStore, BeforeWatcher, HasPtyLocal, Starting,
     Storing, Undo
<1>3. /\ slot["pty"] < starts /\ watcher[starts] = "none"
      /\ "session" \in refs[starts] /\ "watcher" \in refs[starts]
  BY <1>1, <1>2 DEF ArcInv, StartOrder
<1>4. /\ ClosedUnheld' /\ refs'[starts] = refs[starts]
      /\ \A k \in Gen : refs[k] \ {"session"} \subseteq refs'[k]
      /\ \A k \in Gen \ {slot["pty"]} : refs'[k] = refs[k]
  <2>1. CASE slot["pty"] = 0
    BY <1>1, <2>1 DEF StorePty, ArcInv, ClosedUnheld
  <2>2. CASE slot["pty"] # 0
    BY <1>1, <1>3, <2>2, Numbers, ReleaseFacts DEF StorePty, ArcInv
  <2>3. QED
    BY <2>1, <2>2
<1>5. ThreadsHold'
  BY <1>1, <1>4 DEF ArcInv, ThreadsHold
<1>6. \/ slot' = slot /\ ui' = "closeOld"
      \/ slot' = [slot EXCEPT !["pty"] = starts] /\ ui' = "spawnWatcher"
  BY DEF StorePty, UiGoes
<1>7. SessionHolds'
  BY <1>1, <1>3, <1>4, <1>6 DEF SessionHolds
<1>8. StartOrder'
  <2>1. slot'["pty"] <= starts /\ (ui' \in BeforeStore => slot'["pty"] < starts)
    BY <1>1, <1>2, <1>3, <1>6, Numbers
  <2>2. \A g \in Gen : /\ g > starts => pump'[g] = "none"
                       /\ g >= starts => watcher'[g] = "none"
    BY <1>1, <1>3, Numbers DEF ArcInv, StartOrder
  <2>3. QED
    BY <1>1, <1>2, <1>3, <1>4, <2>1, <2>2, Numbers DEF StartOrder
<1>9. QED
  BY <1>1, <1>4, <1>5, <1>7, <1>8 DEF ArcInv, DropOrder

LEMMA ArcCloseOld == ASSUME TInv, ArcInv, CloseOld PROVE ArcInv'
<1>1. /\ starts \in Gen /\ ui = "closeOld" /\ ui' = "spawnWatcher"
      /\ slot' = [slot EXCEPT !["pty"] = starts]
      /\ UNCHANGED <<refs, con, pump, watcher, starts, drop, dropper>>
      /\ DOMAIN slot = Fields /\ "pty" \in Fields
  BY Numbers DEF CloseOld, PtyClosed, UiGoes
<1>2. /\ ui \in Storing /\ ui \in BeforeWatcher
      /\ ui' \notin BeforeStore /\ ui' \notin BeforePump /\ ui' \notin Storing
      /\ ui' \notin HasPtyLocal
  BY <1>1 DEF BeforePump, BeforeStore, BeforeWatcher, HasPtyLocal, Starting,
     Storing, Undo
<1>3. /\ watcher[starts] = "none"
      /\ "session" \in refs[starts] /\ "watcher" \in refs[starts]
  BY <1>1, <1>2 DEF ArcInv, StartOrder
<1>4. SessionHolds'
  BY <1>1, <1>3 DEF SessionHolds
<1>5. StartOrder'
  <2>1. \A g \in Gen : /\ g > starts => pump'[g] = "none"
                       /\ g >= starts => watcher'[g] = "none"
    BY <1>1, <1>3, Numbers DEF ArcInv, StartOrder
  <2>2. slot'["pty"] <= starts
    BY <1>1, Numbers
  <2>3. QED
    BY <1>1, <1>2, <1>3, <2>1, <2>2, Numbers DEF StartOrder
<1>6. QED
  BY <1>1, <1>4, <1>5 DEF ArcInv, ClosedUnheld, ThreadsHold, DropOrder

LEMMA ArcSpawnWatcher == ASSUME TInv, ArcInv, SpawnWatcher PROVE ArcInv'
<1>1. /\ starts \in Gen /\ ui = "spawnWatcher" /\ ui' = "storeWatcher"
      /\ watcher' = [watcher EXCEPT ![starts] = "check"]
      /\ watcher \in [Gen -> WatcherSteps]
      /\ UNCHANGED <<refs, con, pump, slot, starts, drop, dropper>>
  BY Numbers DEF SpawnWatcher, UiGoes, TInv, TypeOK
<1>2. /\ ui' \notin BeforeWatcher /\ ui' \notin BeforePump
      /\ ui' \notin BeforeStore /\ ui' \notin HasPtyLocal
      /\ ui' \notin Storing \cup {"spawnWatcher"}
  BY <1>1 DEF BeforePump, BeforeStore, BeforeWatcher, HasPtyLocal, Starting,
     Storing, Undo
<1>3. "watcher" \in refs[starts]
  BY <1>1 DEF ArcInv, StartOrder
<1>4. ThreadsHold'
  BY <1>1, <1>3 DEF ArcInv, ThreadsHold
<1>5. StartOrder'
  BY <1>1, <1>2, Numbers DEF ArcInv, StartOrder
<1>6. QED
  BY <1>1, <1>4, <1>5 DEF ArcInv, ClosedUnheld, SessionHolds, DropOrder

LEMMA ArcPumpRelease ==
  ASSUME TInv, ArcInv, NEW g \in Gen, PumpRelease(g) PROVE ArcInv'
<1>1. /\ pump[g] = "release" /\ Release(g, "pump")
      /\ pump' \in {[pump EXCEPT ![g] = "closing"], [pump EXCEPT ![g] = "done"]}
      /\ pump \in [Gen -> PumpSteps]
      /\ UNCHANGED <<watcher, ui, slot, starts, drop, dropper>>
  BY DEF PumpRelease, PumpGoes, TInv, TypeOK
<1>2. /\ ClosedUnheld' /\ refs'[g] = refs[g] \ {"pump"}
      /\ \A k \in Gen \ {g} : refs'[k] = refs[k]
  BY <1>1, ReleaseFacts DEF ArcInv
<1>3. \A k \in Gen : /\ pump[k] = "none" => k # g /\ pump'[k] = "none"
                     /\ pump'[k] \notin NotUsing => k # g /\ pump'[k] = pump[k]
  BY <1>1 DEF NotUsing
<1>4. ThreadsHold'
  BY <1>1, <1>2, <1>3 DEF ArcInv, ThreadsHold
<1>5. SessionHolds'
  BY <1>1, <1>2 DEF ArcInv, SessionHolds
<1>6. StartOrder'
  <2>1. ui \in HasPtyLocal => starts \in Gen \ {g}
    BY <1>3, Numbers DEF ArcInv, StartOrder, HasPtyLocal, BeforePump, Starting,
       Undo
  <2>2. ui \in Storing \cup {"spawnWatcher"} => starts \in Gen
    BY Numbers DEF Storing
  <2>3. QED
    BY <1>1, <1>2, <1>3, <2>1, <2>2 DEF ArcInv, StartOrder
<1>7. QED
  BY <1>1, <1>2, <1>4, <1>5, <1>6 DEF ArcInv, DropOrder

LEMMA ArcWatcherRelease ==
  ASSUME TInv, ArcInv, NEW g \in Gen, WatcherRelease(g) PROVE ArcInv'
<1>1. /\ watcher[g] = "release" /\ Release(g, "watcher")
      /\ watcher' \in {[watcher EXCEPT ![g] = "closing"],
                       [watcher EXCEPT ![g] = "done"]}
      /\ watcher \in [Gen -> WatcherSteps]
      /\ UNCHANGED <<pump, ui, slot, starts, drop, dropper>>
  BY DEF WatcherRelease, WatcherGoes, TInv, TypeOK
<1>2. /\ ClosedUnheld' /\ refs'[g] = refs[g] \ {"watcher"}
      /\ \A k \in Gen \ {g} : refs'[k] = refs[k]
  BY <1>1, ReleaseFacts DEF ArcInv
<1>3. \A k \in Gen :
        /\ watcher[k] = "none" => k # g /\ watcher'[k] = "none"
        /\ watcher'[k] \notin NotUsing => k # g /\ watcher'[k] = watcher[k]
  BY <1>1 DEF NotUsing
<1>4. ThreadsHold'
  BY <1>1, <1>2, <1>3 DEF ArcInv, ThreadsHold
<1>5. SessionHolds'
  BY <1>1, <1>2 DEF ArcInv, SessionHolds
<1>6. StartOrder'
  <2>1. ui \in BeforeWatcher => starts \in Gen \ {g}
    BY <1>3, Numbers DEF ArcInv, StartOrder, BeforeWatcher, BeforeStore,
       BeforePump, Starting, Undo, Storing
  <2>2. HasPtyLocal \cup Storing \cup {"spawnWatcher"} \subseteq BeforeWatcher
    BY DEF HasPtyLocal, BeforeWatcher, BeforeStore
  <2>3. QED
    BY <1>1, <1>2, <1>3, <2>1, <2>2 DEF ArcInv, StartOrder
<1>7. QED
  BY <1>1, <1>2, <1>4, <1>5, <1>6 DEF ArcInv, DropOrder

LEMMA ArcDropPty == ASSUME TInv, ArcInv, DropPty PROVE ArcInv'
<1>1. /\ ui # "closeOld" /\ drop = "pty" /\ DOMAIN slot = Fields
      /\ "pty" \in Fields /\ dropper # NoOne
      /\ UNCHANGED <<pump, watcher, ui, starts, dropper>>
  BY Numbers DEF DropPty, DropGoes, ArcInv, DropOrder
<1>2. /\ ClosedUnheld'
      /\ \A k \in Gen : refs[k] \ {"session"} \subseteq refs'[k]
      /\ \A k \in Gen \ {slot["pty"]} : refs'[k] = refs[k]
  <2>1. CASE slot["pty"] = 0
    BY <2>1 DEF DropPty, ArcInv, ClosedUnheld
  <2>2. CASE slot["pty"] # 0
    BY <2>2, Numbers, ReleaseFacts DEF DropPty, ArcInv
  <2>3. QED
    BY <2>1, <2>2
<1>3. \/ slot' = slot /\ drop' = "closePty"
      \/ slot' = [slot EXCEPT !["pty"] = 0]
  BY DEF DropPty, DropGoes
<1>4. ThreadsHold'
  BY <1>1, <1>2 DEF ArcInv, ThreadsHold
<1>5. SessionHolds'
  BY <1>1, <1>3, Numbers DEF SessionHolds
<1>6. StartOrder'
  <2>1. /\ slot'["pty"] <= starts'
        /\ ui' \in BeforeStore => slot'["pty"] < starts'
    <3>1. slot["pty"] <= starts /\ (ui \in BeforeStore => slot["pty"] < starts)
      BY DEF ArcInv, StartOrder
    <3>2. starts >= 0 /\ (ui \in BeforeStore => starts \in Gen)
      BY Numbers DEF BeforeStore, BeforePump, Starting, Undo, Storing,
         TInv, TypeOK, GenOrNone
    <3>3. QED
      BY <1>1, <1>3, <3>1, <3>2, Numbers
  <2>2. ui \in BeforeStore => starts \in Gen \ {slot["pty"]}
    BY Numbers DEF ArcInv, StartOrder, BeforeStore, BeforePump, Starting, Undo,
       Storing
  <2>3. /\ HasPtyLocal \subseteq BeforeStore /\ Storing \subseteq BeforeStore
        /\ ui = "spawnWatcher" => starts \in Gen
    BY Numbers DEF HasPtyLocal, BeforeStore
  <2>4. QED
    BY <1>1, <1>2, <2>1, <2>2, <2>3 DEF ArcInv, StartOrder
<1>7. QED
  BY <1>1, <1>2, <1>4, <1>5, <1>6 DEF ArcInv, DropOrder

LEMMA ArcDropClosePty == ASSUME TInv, ArcInv, DropClosePty PROVE ArcInv'
<1>1. /\ slot' = [slot EXCEPT !["pty"] = 0] /\ dropper # NoOne
      /\ drop = "closePty" /\ DOMAIN slot = Fields /\ "pty" \in Fields
      /\ UNCHANGED <<refs, con, pump, watcher, ui, starts, dropper>>
  BY Numbers DEF DropClosePty, DropGoes, PtyClosed, ArcInv, DropOrder
<1>2. SessionHolds'
  BY <1>1, Numbers DEF SessionHolds
<1>3. slot'["pty"] <= starts' /\ (ui' \in BeforeStore => slot'["pty"] < starts')
  <2>1. starts >= 0 /\ (ui \in BeforeStore => starts \in Gen)
    BY Numbers DEF BeforeStore, BeforePump, Starting, Undo, Storing, TInv,
       TypeOK, GenOrNone
  <2>2. QED
    BY <1>1, <2>1, Numbers
<1>4. StartOrder'
  BY <1>1, <1>3 DEF ArcInv, StartOrder
<1>5. QED
  BY <1>1, <1>2, <1>4 DEF ArcInv, ClosedUnheld, ThreadsHold, DropOrder

-----------------------------------------------------------------------------
(* The quiet steps.                                                        *)

LEMMA QuietUi ==
  ASSUME TInv, ArcInv,
         \/ SpawnPty /\ ui' # "spawnReader"
         \/ SpawnReader \/ SpawnWriter \/ UndoReader \/ UndoClose
         \/ StoreWatcher \/ StorePump \/ StoreReader \/ JoinOldReader
         \/ StoreWriter \/ JoinOldWriter \/ SendBytes \/ Terminate
  PROVE  Quiet
<1>1. /\ UNCHANGED <<refs, con, pump, watcher, starts, drop, dropper>>
      /\ slot'["pty"] = slot["pty"]
  <2>1. CASE SpawnPty /\ ui' # "spawnReader"
    BY <2>1 DEF SpawnPty, UiGoes
  <2>2. CASE SpawnReader \/ SpawnWriter \/ UndoReader \/ UndoClose
    BY <2>2 DEF SpawnReader, SpawnWriter, UndoReader, UndoClose, PtyClosed,
       UiGoes
  <2>3. CASE StoreWatcher \/ StorePump \/ JoinOldReader \/ JoinOldWriter
    BY <2>3, Numbers DEF StoreWatcher, StorePump, JoinOldReader,
       JoinOldWriter, StoreField, UiGoes
  <2>4. CASE StoreReader \/ StoreWriter
    BY <2>4, Numbers DEF StoreReader, StoreWriter, StoreField, UiGoes
  <2>5. CASE SendBytes \/ Terminate
    BY <2>5 DEF SendBytes, Terminate, UiGoes
  <2>6. QED
    BY <2>1, <2>2, <2>3, <2>4, <2>5
<1>2. /\ ui # "closeOld"
      /\ \/ ui' \in {"idle", "storeReader", "joinOldReader", "storeWriter",
                     "joinOldWriter", "storePump"}
         \/ ui = "spawnReader" /\ ui' \in {"spawnWriter", "undoPty"}
         \/ ui = "spawnWriter" /\ ui' \in {"spawnPump", "undoReader"}
         \/ ui = "undoReader" /\ ui' = "undoPty"
  <2>1. CASE SpawnPty /\ ui' # "spawnReader"
    BY <2>1 DEF SpawnPty, UiGoes
  <2>2. CASE SpawnReader \/ SpawnWriter \/ UndoReader \/ UndoClose
    BY <2>2 DEF SpawnReader, SpawnWriter, UndoReader, UndoClose, UiGoes
  <2>3. CASE \/ StoreWatcher \/ StorePump \/ JoinOldReader \/ JoinOldWriter
             \/ StoreReader \/ StoreWriter
    BY <2>3 DEF StoreWatcher, StorePump, JoinOldReader, JoinOldWriter,
       StoreReader, StoreWriter, StoreField, UiGoes
  <2>4. CASE SendBytes \/ Terminate
    BY <2>4 DEF SendBytes, Terminate, UiGoes
  <2>5. QED
    BY <2>1, <2>2, <2>3, <2>4
<1>3. \A S \in {BeforePump, HasPtyLocal, Storing, BeforeStore, BeforeWatcher,
                Storing \cup {"spawnWatcher"}} : ui' \in S => ui \in S
  BY <1>2 DEF BeforePump, HasPtyLocal, Storing, BeforeStore, BeforeWatcher,
     Starting, Undo
<1>4. QED
  BY <1>1, <1>2, <1>3 DEF Quiet

(* The other threads' quiet steps leave start() and the slots alone.       *)
LEMMA QuietElsewhere ==
  ASSUME UNCHANGED <<refs, slot, starts, ui, drop, dropper>>,
         \A g \in Gen :
           /\ con'[g] = "closing" => con[g] = "closing"
           /\ pump[g] \in NotUsing => pump'[g] \in NotUsing
           /\ pump[g] = "none" => pump'[g] = "none"
           /\ watcher[g] \in NotUsing => watcher'[g] \in NotUsing
           /\ watcher[g] = "none" => watcher'[g] = "none"
  PROVE  Quiet
  BY DEF Quiet

LEMMA QuietPump ==
  ASSUME TInv, NEW g \in Gen, PumpStep(g), ~PumpRelease(g)
  PROVE  Quiet
<1>1. /\ UNCHANGED <<refs, slot, starts, ui, drop, dropper, watcher, con>>
      /\ pump[g] \notin {"none", "done"}
      /\ \E to : /\ pump' = [pump EXCEPT ![g] = to]
                 /\ pump[g] = "closing" => to = "done"
  <2>1. CASE PumpRecv(g) \/ PumpDrain(g) \/ PumpEvents(g) \/ PumpRender(g)
             \/ PumpLastFrame(g)
    BY <2>1 DEF PumpRecv, PumpDrain, TakeMessage, PumpEvents, PumpRender,
       PumpLastFrame, Render, PumpGoes
  <2>2. CASE PumpHostReturns(g) \/ PumpCode(g) \/ PumpStore(g) \/ PumpSwap(g)
             \/ PumpClosed(g)
    BY <2>2 DEF PumpHostReturns, PumpCode, PumpStore, PumpSwap, PumpClosed,
       PtyClosed, PumpGoes
  <2>3. QED
    BY <2>1, <2>2 DEF PumpStep
<1>2. QED
  BY <1>1, QuietElsewhere DEF NotUsing, TInv, TypeOK

LEMMA QuietWatcher ==
  ASSUME TInv, NEW g \in Gen, WatcherStep(g), ~WatcherRelease(g)
  PROVE  Quiet
<1>1. /\ UNCHANGED <<refs, slot, starts, ui, drop, dropper, pump, con>>
      /\ watcher[g] \notin {"none", "done"}
      /\ \E to : /\ watcher' = [watcher EXCEPT ![g] = to]
                 /\ watcher[g] = "closing" => to = "done"
  BY DEF WatcherStep, WatcherLoops, WatcherStore, WatcherSwap, WatcherClosed,
     PtyClosed, WatcherGoes
<1>2. QED
  BY <1>1, QuietElsewhere DEF NotUsing, TInv, TypeOK

LEMMA QuietDrop ==
  ASSUME TInv, ArcInv, DestroyCall \/ DropStep, ~DropPty, ~DropClosePty
  PROVE  Quiet
<1>1. /\ UNCHANGED <<refs, con, pump, watcher, starts>>
      /\ slot'["pty"] = slot["pty"]
      /\ ui' = ui \/ (ui' = "drop" /\ ui = "idle")
      /\ drop # "closePty"
  <2>1. CASE DestroyCall
    BY <2>1 DEF DestroyCall, ArcInv, DropOrder
  <2>2. CASE DropJoinWriter
    BY <2>2, Numbers DEF DropJoinWriter, DropGoes
  <2>3. CASE DropAlive \/ DropClear \/ DropTerminate \/ DropEof \/ DropWriter
             \/ DropJoin
    BY <2>3 DEF DropAlive, DropClear, DropTerminate, DropEof, DropWriter,
       DropJoin, DropGoes
  <2>4. QED
    BY <2>1, <2>2, <2>3 DEF DropStep
<1>2. dropper' # NoOne
  <2>1. CASE DestroyCall
    BY <2>1 DEF DestroyCall, NoOne
  <2>2. CASE DropStep
    BY <2>2 DEF DropStep, DropAlive, DropClear, DropTerminate, DropEof,
       DropWriter, DropJoinWriter, DropPty, DropClosePty, DropJoin, DropGoes,
       ArcInv, DropOrder
  <2>3. QED
    BY <2>1, <2>2
<1>3. "drop" \notin BeforeWatcher
  BY DEF BeforeWatcher, BeforeStore, BeforePump, Starting, Undo, Storing
<1>4. \A S \in {BeforePump, HasPtyLocal, Storing, BeforeStore, BeforeWatcher,
                Storing \cup {"spawnWatcher"}} : ui' \in S => ui \in S
  BY <1>1, <1>3 DEF BeforeWatcher, BeforeStore, HasPtyLocal
<1>5. QED
  BY <1>1, <1>2, <1>4 DEF Quiet

LEMMA QuietRest ==
  ASSUME TInv,
         \/ \E g \in Gen : \/ ReadFile(g) \/ ReaderSend(g) \/ WriterStep(g)
                           \/ EnvStep(g)
         \/ AllOver \/ ClearCallbacks \/ UNCHANGED vars
  PROVE  Quiet
<1>1. /\ UNCHANGED <<refs, slot, starts, ui, drop, dropper, pump, watcher>>
      /\ con' = con \/ \E g \in Gen : con' = [con EXCEPT ![g] = "closed"]
  <2>1. CASE \E g \in Gen : ReadFile(g) \/ ReaderSend(g) \/ WriterStep(g)
    BY <2>1 DEF ReadFile, ReaderSend, ReaderGoes, WriterStep, WriterTakes, WriterWritten,
      WriterGoes
  <2>2. CASE \E g \in Gen : EnvStep(g)
    BY <2>2 DEF EnvStep, ChildEnds, ChildSignals, ConWrite, ConCloses,
       ConLeaves, EnvFrame
  <2>3. CASE AllOver \/ ClearCallbacks \/ UNCHANGED vars
    BY <2>3 DEF AllOver, ClearCallbacks, vars
  <2>4. QED
    BY <2>1, <2>2, <2>3
<1>2. QED
  BY <1>1, QuietElsewhere DEF TInv, TypeOK

LEMMA ArcStep == TInv /\ ArcInv /\ [Next]_vars => ArcInv'
<1>. SUFFICES ASSUME TInv, ArcInv, [Next]_vars PROVE ArcInv'
  OBVIOUS
<1>1. CASE StartCall \/ StartStep \/ SendBytes \/ Terminate
  BY <1>1, ArcStartCall, ArcSpawnPty, ArcUndoPty, ArcSpawnPump, ArcStorePty,
     ArcCloseOld, ArcSpawnWatcher, QuietUi, QuietKeeps DEF StartStep
<1>2. CASE \E g \in Gen : PumpStep(g)
  BY <1>2, ArcPumpRelease, QuietPump, QuietKeeps
<1>3. CASE \E g \in Gen : WatcherStep(g)
  BY <1>3, ArcWatcherRelease, QuietWatcher, QuietKeeps
<1>4. CASE DestroyCall \/ DropStep
  BY <1>4, ArcDropPty, ArcDropClosePty, QuietDrop, QuietKeeps
<1>5. CASE \/ \E g \in Gen : \/ ReadFile(g) \/ ReaderSend(g)
                             \/ WriterStep(g) \/ EnvStep(g)
           \/ AllOver \/ ClearCallbacks \/ UNCHANGED vars
  BY <1>5, QuietRest, QuietKeeps
<1>6. QED
  BY <1>1, <1>2, <1>3, <1>4, <1>5 DEF Next, ReaderStep

(* Whoever may still call try_exit_code or terminate holds an Arc, and     *)
(* ClosePseudoConsole runs only when nobody does: the reason the host      *)
(* object is shared by Arc (session.rs 144-147, 299-304).                  *)
THEOREM PtyOutlivesItsUsers == Spec => []PtyOutlivesUsers
<1>1. ArcInv => PtyOutlivesUsers
  BY DEF ArcInv, ClosedUnheld, ThreadsHold, SessionHolds, NotUsing,
     PtyOutlivesUsers
<1>2. QED
  BY InitTyped, StepTyped, ArcInit, ArcStep, <1>1, PTL DEF Spec
=============================================================================
