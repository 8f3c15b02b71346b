------------------------- MODULE SessionRefinesProofs -------------------------
(***************************************************************************)
(* Session implements SessionContract, step by step: for a session that is *)
(* started once and is not destroyed while start() still runs, whatever    *)
(* fails and whoever destroys it.                                          *)
(***************************************************************************)
EXTENDS SessionRefines, SessionEndProofs

(* What the mapping needs: the places of a destroy, the count of on_exit   *)
(* calls, and that callbacks are withdrawn early in it.                    *)
RefInv == DropInv /\ Counted /\ FrameInv

CStep == Contract!Next \/ UNCHANGED Contract!vars

LEMMA PhaseIs ==
  /\ drop = "freed" => PhaseOf = "freed"
  /\ drop \notin {"none", "freed"} => PhaseOf = "closing"
  /\ drop = "none" /\ starts = 0 => PhaseOf = "new"
  /\ drop = "none" /\ starts # 0 => PhaseOf = "started"
BY DEF PhaseOf

LEMMA PhaseWillBe ==
  /\ drop' = "freed" => PhaseOf' = "freed"
  /\ drop' \notin {"none", "freed"} => PhaseOf' = "closing"
  /\ drop' = "none" /\ starts' = 0 => PhaseOf' = "new"
  /\ drop' = "none" /\ starts' # 0 => PhaseOf' = "started"
BY DEF PhaseOf

LEMMA InHostIs ==
  /\ InHostOf \subseteq ContractThreads
  /\ "pump" \in InHostOf <=> pump[1] \in PumpInHost
  /\ "watcher" \in InHostOf <=> watcher[1] \in WatcherInHost
BY DEF InHostOf, ContractThreads

LEMMA InHostWillBe ==
  /\ InHostOf' \subseteq ContractThreads
  /\ "pump" \in InHostOf' <=> pump'[1] \in PumpInHost
  /\ "watcher" \in InHostOf' <=> watcher'[1] \in WatcherInHost
BY DEF InHostOf, ContractThreads

LEMMA ContractBegins == Once /\ Init => Contract!Init
<1>. SUFFICES ASSUME Once, Init PROVE Contract!Init
  OBVIOUS
<1>1. 1 \in Gen
  BY DEF Once, Gen
<1>2. /\ drop = "none" /\ starts = 0 /\ dropper = <<"none", 0>>
      /\ pump[1] = "none" /\ watcher[1] = "none"
  BY <1>1 DEF Init, NoOne
<1>3. PhaseOf = "new" /\ CloserOf = "none"
  BY <1>2, PhaseIs DEF CloserOf
<1>4. InHostOf = {}
  BY <1>2 DEF InHostOf, PumpInHost, WatcherInHost
<1>5. cbs = TRUE /\ (exits # <<>>) = FALSE
  BY Zenon DEF Init
<1>. QED
  BY <1>3, <1>4, <1>5 DEF Contract!Init

(* A step the contract does not see.                                       *)
LEMMA Unseen ==
  ASSUME PhaseOf' = PhaseOf, UNCHANGED <<cbs, dropper, exits>>,
         pump'[1] \in PumpInHost <=> pump[1] \in PumpInHost,
         watcher'[1] \in WatcherInHost <=> watcher[1] \in WatcherInHost
  PROVE  CStep
<1>1. InHostOf' = InHostOf /\ CloserOf' = CloserOf
  BY DEF InHostOf, CloserOf
<1>. QED
  BY <1>1 DEF CStep, Contract!vars

LEMMA SamePhase == UNCHANGED <<drop, starts>> => PhaseOf' = PhaseOf
BY DEF PhaseOf

LEMMA Withdraws ==
  ASSUME PhaseOf # "freed", PhaseOf' = PhaseOf, cbs' = FALSE,
         UNCHANGED <<dropper, exits, pump, watcher>>
  PROVE  CStep
<1>1. InHostOf' = InHostOf /\ CloserOf' = CloserOf
  BY DEF InHostOf, CloserOf
<1>2. Contract!Silence
  BY <1>1 DEF Contract!Silence
<1>. QED
  BY <1>2 DEF CStep, Contract!Next

-----------------------------------------------------------------------------
(* The threads.                                                            *)

(* A closure is entered only while the callback table names it.            *)
LEMMA Enters ==
  ASSUME Once, RefInv, NEW t \in ContractThreads, cbs, starts = 1,
         UNCHANGED <<cbs, drop, dropper, starts>>,
         t \notin InHostOf, InHostOf' = InHostOf \cup {t},
         exits' = exits \/ (exits = <<>> /\ exits' # <<>>)
  PROVE  CStep
<1>1. drop \in {"none", "alive", "clear"}
  BY DEF RefInv, FrameInv, ClearedFirst
<1>2. PhaseOf \in {"started", "closing"} /\ PhaseOf' = PhaseOf
  BY <1>1, PhaseIs, SamePhase
<1>3. CloserOf' = CloserOf
  BY DEF CloserOf
<1>4. Contract!Enter(t)
  BY <1>2, <1>3 DEF Contract!Enter
<1>5. CASE exits' = exits
  BY <1>4, <1>5 DEF Contract!Call, Contract!Next, CStep
<1>6. CASE exits = <<>> /\ exits' # <<>>
  <2>1. ~(exits # <<>>) /\ (exits # <<>>)' = TRUE
    BY <1>6, Zenon
  <2>2. Contract!Tell(t)
    BY <1>4, <2>1 DEF Contract!Tell
  <2>. QED
    BY <2>2 DEF Contract!Next, CStep
<1>. QED
  BY <1>5, <1>6

LEMMA Leaves ==
  ASSUME NEW t \in ContractThreads, UNCHANGED <<cbs, drop, dropper, starts, exits>>,
         t \in InHostOf, InHostOf' = InHostOf \ {t}
  PROVE  CStep
<1>1. PhaseOf' = PhaseOf /\ CloserOf' = CloserOf
  BY SamePhase DEF CloserOf
<1>2. Contract!Leave(t)
  BY <1>1 DEF Contract!Leave
<1>. QED
  BY <1>2 DEF CStep, Contract!Next

(* The one on_exit: alive is up only while nobody has been told.           *)
LEMMA TellsOnce ==
  ASSUME Once, RefInv, NEW g, NEW c, SwapAndTell(g, c)
  PROVE  \/ ~(alive /\ cbs) /\ exits' = exits
         \/ alive /\ cbs /\ exits = <<>> /\ exits' # <<>>
<1>1. exits \in Seq([gen : Gen, code : AllCodes]) /\ starts \in {0, 1}
  BY OneGen DEF RefInv, DropInv, TInv, TypeOK, Once
<1>2. CASE alive /\ cbs
  <2>1. Len(exits) < 1
    BY <1>1, <1>2 DEF RefInv, Counted
  <2>2. exits = <<>>
    BY <1>1, <2>1, EmptySeq, LenProperties
  <2>3. exits' = Append(<<>>, [gen |-> g, code |-> c])
    BY <1>2, <2>2 DEF SwapAndTell
  <2>4. exits' # <<>>
    BY <2>3
  <2>. QED
    BY <1>2, <2>2, <2>4
<1>3. CASE ~(alive /\ cbs)
  BY <1>3 DEF SwapAndTell
<1>. QED
  BY <1>2, <1>3

LEMMA PumpContract ==
  ASSUME Once, RefInv, NEW g \in Gen, PumpStep(g)
  PROVE  CStep
<1>1. g = 1 /\ DOMAIN pump = {1}
  BY OneGen DEF Once, RefInv, DropInv
<1>2. UNCHANGED <<cbs, starts, drop, dropper, watcher>>
  BY <1>1 DEF PumpStep, PumpRecv, PumpDrain, TakeMessage, PumpEvents,
     PumpRender, PumpLastFrame, Render, PumpHostReturns, PumpCode, PumpStore,
     PumpSwap, PumpRelease, PumpClosed, PumpGoes
<1>3. pump[1] # "none" => starts = 1
  BY MadeByStart DEF RefInv, DropInv
<1>4. ASSUME exits' = exits, pump[1] \notin PumpInHost, pump'[1] \notin PumpInHost
      PROVE  CStep
  BY <1>2, <1>4, Unseen, SamePhase
<1>5. ASSUME cbs, pump[1] \notin PumpInHost \cup {"none"}, pump'[1] \in PumpInHost,
             exits' = exits \/ (exits = <<>> /\ exits' # <<>>)
      PROVE  CStep
  <2>1. /\ "pump" \in ContractThreads /\ "pump" \notin InHostOf
        /\ InHostOf' = InHostOf \cup {"pump"}
    BY <1>2, <1>5 DEF InHostOf, ContractThreads
  <2>. QED
    BY <1>2, <1>3, <1>5, <2>1, Enters
<1>6. CASE PumpRecv(g) \/ PumpDrain(g) \/ PumpCode(g) \/ PumpStore(g)
           \/ PumpRelease(g) \/ PumpClosed(g)
  <2>1. /\ exits' = exits /\ pump[1] \notin PumpInHost /\ pump'[1] \notin PumpInHost
    BY <1>1, <1>6 DEF PumpRecv, PumpDrain, TakeMessage, PumpCode, PumpStore,
       PumpRelease, PumpClosed, PumpGoes, PumpInHost
  <2>. QED
    BY <1>4, <2>1
<1>7. CASE PumpEvents(g)
  <2>1. /\ exits' = exits /\ pump[1] = "events"
        /\ pump'[1] = "render" \/ (cbs /\ pump'[1] = "eventCb")
    BY <1>1, <1>7 DEF PumpEvents, PumpGoes
  <2>. QED
    BY <1>4, <1>5, <2>1 DEF PumpInHost
<1>8. CASE PumpRender(g) \/ PumpLastFrame(g)
  <2>1. /\ exits' = exits /\ pump[1] \in {"render", "eofRender"}
        /\ \/ cbs /\ pump'[1] \in {"renderCb", "lastCb"}
           \/ pump'[1] \in {"eofRender", "recv", "code"}
    BY <1>1, <1>8 DEF PumpRender, PumpLastFrame, Render, AfterRender, PumpGoes
  <2>. QED
    BY <1>4, <1>5, <2>1 DEF PumpInHost
<1>9. CASE PumpHostReturns(g)
  <2>1. /\ exits' = exits /\ pump[1] \in PumpInHost /\ pump'[1] \notin PumpInHost
    BY <1>1, <1>9 DEF PumpHostReturns, AfterRender, PumpGoes, PumpInHost
  <2>2. /\ "pump" \in ContractThreads /\ "pump" \in InHostOf
        /\ InHostOf' = InHostOf \ {"pump"}
    BY <1>2, <2>1 DEF InHostOf, ContractThreads
  <2>. QED
    BY <1>2, <2>1, <2>2, Leaves
<1>10. CASE PumpSwap(g)
  <2>1. /\ pump[1] = "swap"
        /\ pump'[1] = IF alive /\ cbs THEN "exitCb" ELSE "release"
        /\ SwapAndTell(g, pcode[g])
    BY <1>1, <1>10 DEF PumpSwap, PumpGoes
  <2>2. \/ ~(alive /\ cbs) /\ exits' = exits
        \/ alive /\ cbs /\ exits = <<>> /\ exits' # <<>>
    BY <2>1, TellsOnce
  <2>3. CASE ~(alive /\ cbs)
    BY <1>4, <2>1, <2>2, <2>3 DEF PumpInHost
  <2>4. CASE alive /\ cbs
    BY <1>5, <2>1, <2>2, <2>4 DEF PumpInHost
  <2>. QED
    BY <2>3, <2>4
<1>. QED
  BY <1>6, <1>7, <1>8, <1>9, <1>10 DEF PumpStep

LEMMA WatcherContract ==
  ASSUME Once, RefInv, NEW g \in Gen, WatcherStep(g)
  PROVE  CStep
<1>1. g = 1 /\ DOMAIN watcher = {1}
  BY OneGen DEF Once, RefInv, DropInv
<1>2. UNCHANGED <<cbs, starts, drop, dropper, pump>>
  BY <1>1 DEF WatcherStep, WatcherLoops, WatcherStore, WatcherSwap,
     WatcherRelease, WatcherClosed, WatcherGoes
<1>3. watcher[1] # "none" => starts = 1
  BY MadeByStart DEF RefInv, DropInv
<1>4. CASE WatcherSwap(g)
  <2>1. /\ watcher[1] = "swap"
        /\ watcher'[1] = IF alive /\ cbs THEN "exitCb" ELSE "release"
        /\ SwapAndTell(g, code[g])
    BY <1>1, <1>4 DEF WatcherSwap, WatcherGoes
  <2>2. \/ ~(alive /\ cbs) /\ exits' = exits
        \/ alive /\ cbs /\ exits = <<>> /\ exits' # <<>>
    BY <2>1, TellsOnce
  <2>3. CASE ~(alive /\ cbs)
    BY <1>2, <2>1, <2>2, <2>3, Unseen, SamePhase DEF WatcherInHost
  <2>4. CASE alive /\ cbs
    <3>1. /\ "watcher" \in ContractThreads /\ "watcher" \notin InHostOf
          /\ InHostOf' = InHostOf \cup {"watcher"}
      BY <1>2, <2>1, <2>4 DEF InHostOf, ContractThreads, WatcherInHost
    <3>. QED
      BY <1>2, <1>3, <2>1, <2>2, <2>4, <3>1, Enters
  <2>. QED
    BY <2>3, <2>4
<1>5. CASE watcher[1] = "exitCb" /\ WatcherLoops(g)
  <2>1. exits' = exits /\ watcher'[1] = "release"
    BY <1>1, <1>5 DEF WatcherLoops, WatcherGoes
  <2>2. /\ "watcher" \in ContractThreads /\ "watcher" \in InHostOf
        /\ InHostOf' = InHostOf \ {"watcher"}
    BY <1>2, <1>5, <2>1 DEF InHostOf, ContractThreads, WatcherInHost
  <2>. QED
    BY <1>2, <2>1, <2>2, Leaves
<1>6. CASE \/ watcher[1] # "exitCb" /\ WatcherLoops(g)
           \/ WatcherStore(g) \/ WatcherRelease(g) \/ WatcherClosed(g)
  <2>1. exits' = exits /\ watcher[1] # "exitCb" /\ watcher'[1] # "exitCb"
    BY <1>1, <1>6 DEF WatcherLoops, WatcherStore, WatcherRelease, WatcherClosed,
       WatcherGoes
  <2>. QED
    BY <1>2, <2>1, Unseen, SamePhase DEF WatcherInHost
<1>. QED
  BY <1>4, <1>5, <1>6 DEF WatcherStep

-----------------------------------------------------------------------------
(* The host thread and a destroy.                                          *)

LEMMA StartContract ==
  ASSUME Once, RefInv, StartCall
  PROVE  CStep
<1>1. /\ dropper = NoOne /\ starts' = starts + 1
      /\ UNCHANGED <<cbs, drop, dropper, exits, pump, watcher>>
  BY DEF StartCall, UiGoes
<1>2. drop = "none"
  BY <1>1 DEF RefInv, DropInv, ArcInv, DropOrder
<1>3. starts \in {0, 1} /\ starts' \in {0, 1}
  BY OneGen, StepTyped DEF StartCall, Once, RefInv, DropInv, Next
<1>4. starts = 0 /\ starts' = 1
  BY <1>1, <1>3
<1>5. PhaseOf = "new" /\ PhaseOf' = "started"
  BY <1>1, <1>2, <1>4, PhaseIs, PhaseWillBe
<1>6. InHostOf' = InHostOf /\ CloserOf' = CloserOf
  BY <1>1 DEF InHostOf, CloserOf
<1>. QED
  BY <1>1, <1>5, <1>6 DEF CStep, Contract!Next, Contract!Start

(* start() runs no closure of the host, nor do its new threads at once.    *)
LEMMA StartStepContract ==
  ASSUME Once, RefInv, StartStep \/ SendBytes \/ Terminate
  PROVE  CStep
<1>1. UNCHANGED <<cbs, starts, drop, dropper, exits>>
  BY DEF StartStep, SpawnPty, SpawnReader, SpawnWriter, SpawnPump, UndoReader,
     UndoPty, UndoClose, StorePty, CloseOld, SpawnWatcher, StoreWatcher,
     StoreReader, JoinOldReader, StoreWriter, JoinOldWriter, StorePump,
     StoreField, SendBytes, Terminate, UiGoes
<1>2. ASSUME pump'[1] \in PumpInHost <=> pump[1] \in PumpInHost,
             watcher'[1] \in WatcherInHost <=> watcher[1] \in WatcherInHost
      PROVE  CStep
  BY <1>1, <1>2, Unseen, SamePhase
<1>3. CASE SpawnPump
  <2>1. /\ ui = "spawnPump" /\ watcher' = watcher
        /\ pump' = [pump EXCEPT ![starts] = "recv"]
    BY <1>3 DEF SpawnPump, UiGoes
  <2>2. starts = 1 /\ DOMAIN pump = {1}
    BY <2>1, OneGen DEF Once, RefInv, DropInv, Resting
  <2>3. pump[1] = "none"
    BY <2>1, <2>2, MadeByStart DEF RefInv, DropInv, BeforePump, Starting
  <2>. QED
    BY <1>2, <2>1, <2>2, <2>3 DEF PumpInHost
<1>4. CASE SpawnWatcher
  <2>1. /\ ui = "spawnWatcher" /\ pump' = pump
        /\ watcher' = [watcher EXCEPT ![starts] = "check"]
    BY <1>4 DEF SpawnWatcher, UiGoes
  <2>2. starts = 1 /\ DOMAIN watcher = {1}
    BY <2>1, OneGen DEF Once, RefInv, DropInv, Resting
  <2>3. watcher[1] = "none"
    BY <2>1, <2>2, MadeByStart DEF RefInv, DropInv, BeforeWatcher
  <2>. QED
    BY <1>2, <2>1, <2>2, <2>3 DEF WatcherInHost
<1>5. CASE ~SpawnPump /\ ~SpawnWatcher
  <2>1. UNCHANGED <<pump, watcher>>
    BY <1>5 DEF StartStep, SpawnPty, SpawnReader, SpawnWriter, UndoReader,
       UndoPty, UndoClose, StorePty, CloseOld, StoreWatcher, StoreReader,
       JoinOldReader, StoreWriter, JoinOldWriter, StorePump, StoreField,
       SendBytes, Terminate, UiGoes
  <2>. QED
    BY <1>2, <2>1
<1>. QED
  BY <1>3, <1>4, <1>5

LEMMA DestroyContract ==
  ASSUME Once, RefInv, DestroyCall
  PROVE  CStep
<1>1. /\ dropper = NoOne /\ drop' = "alive"
      /\ UNCHANGED <<cbs, starts, exits, pump, watcher>>
  BY DEF DestroyCall
<1>2. drop = "none" /\ Gen = {1}
  BY <1>1, OneGen DEF RefInv, DropInv, ArcInv, DropOrder, Once
<1>3. PhaseOf \in {"new", "started"} /\ PhaseOf' = "closing"
  BY <1>1, <1>2, PhaseIs, PhaseWillBe
<1>4. InHostOf' = InHostOf
  BY <1>1 DEF InHostOf
<1>5. \/ dropper' = <<"ui", 0>>
      \/ dropper' = <<"pump", 1>> /\ pump[1] = "exitCb"
      \/ dropper' = <<"watcher", 1>> /\ watcher[1] = "exitCb"
  BY <1>2 DEF DestroyCall
<1>6. \/ CloserOf' = "host"
      \/ CloserOf' = "pump" /\ pump[1] = "exitCb"
      \/ CloserOf' = "watcher" /\ watcher[1] = "exitCb"
  BY <1>5 DEF CloserOf
<1>7. CloserOf' \in {"host"} \cup InHostOf
  BY <1>6, InHostIs DEF PumpInHost, WatcherInHost
<1>. QED
  BY <1>1, <1>3, <1>4, <1>7 DEF CStep, Contract!Next, Contract!Close

LEMMA DropContract ==
  ASSUME Once, RefInv, DropStep
  PROVE  CStep
<1>1. UNCHANGED <<starts, dropper, pump, watcher, exits>>
  BY DEF DropStep, DropAlive, DropClear, DropTerminate, DropEof, DropWriter,
     DropJoinWriter, DropPty, DropClosePty, DropJoin, DropGoes
<1>2. CASE DropClear
  <2>1. drop = "clear" /\ drop' = "terminate"
    BY <1>2 DEF DropClear, DropGoes
  <2>2. PhaseOf # "freed" /\ PhaseOf' = PhaseOf
    BY <2>1, PhaseIs, PhaseWillBe
  <2>3. cbs' = FALSE
    BY <1>2 DEF DropClear
  <2>. QED
    BY <1>1, <2>2, <2>3, Withdraws, Zenon
<1>3. CASE DropGoes("reader", "freed") /\ cbs' = cbs
  <2>1. drop = "reader" /\ drop' = "freed"
    BY <1>3 DEF DropGoes
  <2>2. PhaseOf = "closing" /\ PhaseOf' = "freed" /\ ~cbs
    BY <2>1, PhaseIs, PhaseWillBe DEF RefInv, FrameInv, ClearedFirst
  <2>3. /\ pump[1] \in Ended \/ dropper = <<"pump", 1>>
        /\ watcher[1] \in Ended \/ dropper = <<"watcher", 1>>
    BY <2>1 DEF RefInv, DropInv, Places, DropInOrder
  <2>4. InHostOf \subseteq {CloserOf}
    BY <2>3 DEF InHostOf, ContractThreads, CloserOf, Ended, PumpInHost, WatcherInHost
  <2>5. InHostOf' = InHostOf /\ CloserOf' = CloserOf
    BY <1>1 DEF InHostOf, CloserOf
  <2>. QED
    BY <1>1, <1>3, <2>2, <2>4, <2>5 DEF CStep, Contract!Next, Contract!Free
<1>4. CASE cbs' = cbs /\ drop \notin {"none", "freed"} /\ drop' \notin {"none", "freed"}
  BY <1>1, <1>4, PhaseIs, PhaseWillBe, Unseen
<1>. QED
  BY <1>2, <1>3, <1>4 DEF DropStep, DropAlive, DropTerminate, DropEof, DropWriter,
     DropJoinWriter, DropPty, DropClosePty, DropJoin, DropGoes

LEMMA RestContract ==
  ASSUME Once, RefInv,
         \/ \E g \in Gen : ReaderStep(g) \/ WriterStep(g) \/ EnvStep(g)
         \/ AllOver \/ ClearCallbacks \/ UNCHANGED vars
  PROVE  CStep
<1>1. UNCHANGED <<starts, drop, dropper, pump, watcher, exits>>
  BY DEF ReaderStep, ReadFile, ReaderSend, ReaderGoes, WriterStep, WriterTakes, WriterWritten,
      WriterGoes, EnvStep,
     ChildEnds, ChildSignals, ConWrite, ConCloses, ConLeaves, EnvFrame, AllOver,
     ClearCallbacks, vars
<1>2. CASE ClearCallbacks
  <2>1. drop = "none" /\ cbs' = FALSE
    BY <1>2 DEF ClearCallbacks, RefInv, DropInv, ArcInv, DropOrder
  <2>. QED
    BY <1>1, <2>1, PhaseIs, SamePhase, Withdraws
<1>3. CASE ~ClearCallbacks
  <2>1. cbs' = cbs
    BY <1>3 DEF ReaderStep, ReadFile, ReaderSend, ReaderGoes, WriterStep, WriterTakes, WriterWritten,
      WriterGoes, EnvStep,
       ChildEnds, ChildSignals, ConWrite, ConCloses, ConLeaves, EnvFrame, AllOver,
       vars
  <2>. QED
    BY <1>1, <2>1, SamePhase, Unseen
<1>. QED
  BY <1>2, <1>3

LEMMA StepContract ==
  Once /\ RefInv /\ [Next]_vars => [Contract!Next]_(Contract!vars)
<1>. SUFFICES ASSUME Once, RefInv, [Next]_vars PROVE CStep
  BY DEF CStep
<1>1. CASE \/ StartCall \/ StartStep \/ SendBytes \/ Terminate \/ DestroyCall
           \/ DropStep
  BY <1>1, StartContract, StartStepContract, DestroyContract, DropContract
<1>2. CASE \E g \in Gen : PumpStep(g) \/ WatcherStep(g)
  BY <1>2, PumpContract, WatcherContract
<1>3. CASE \/ \E g \in Gen : ReaderStep(g) \/ WriterStep(g) \/ EnvStep(g)
           \/ AllOver \/ ClearCallbacks \/ UNCHANGED vars
  BY <1>3, RestContract
<1>. QED
  BY <1>1, <1>2, <1>3 DEF Next

(* A session that is started once keeps what SessionContract promises:     *)
(* destroy returns only when every closure of the host that another thread *)
(* was running has returned, no closure is entered once the callbacks are  *)
(* withdrawn, and on_exit comes once (session.rs 277, 314, 518-565).       *)
THEOREM ContractKept ==
  ASSUME MaxStarts = 1, "early" \notin Destroyers
  PROVE  Spec => KeepsContract
<1>1. Once
  BY DEF Once
<1>2. Init => RefInv /\ Contract!Init
  <2>1. Init => Counted
    BY DEF Init, Counted, Starting
  <2>. QED
    BY <1>1, <2>1, ContractBegins, InitTyped, ArcInit, DropInit, FrameInit
       DEF RefInv, DropInv
<1>3. RefInv /\ [Next]_vars => RefInv'
  BY <1>1, DropInvStep, CountedStep, FrameStep DEF RefInv, DropInv
<1>4. RefInv /\ [Next]_vars => [Contract!Next]_(Contract!vars)
  BY <1>1, StepContract
<1>. QED
  BY <1>2, <1>3, <1>4, PTL DEF Spec, KeepsContract, Contract!Spec
=============================================================================
