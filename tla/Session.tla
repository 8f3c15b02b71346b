------------------------------- MODULE Session -------------------------------
(***************************************************************************)
(* One rata_session: the host thread that starts and destroys it, and the  *)
(* four threads every start() creates (reader, writer, pump, watcher)      *)
(* around one pseudo console and one child process.                        *)
(*                                                                         *)
(* Everything a start() creates is indexed by its generation, 1 for the    *)
(* first call.  What all generations share is what the Session structure   *)
(* shares: alive, exitCode, the callback table and the Option slots that   *)
(* Drop empties.  The conhost process, the pipe and the child are the      *)
(* environment.                                                            *)
(***************************************************************************)
EXTENDS Integers, Sequences

CONSTANTS
  MaxStarts,       \* bound: calls of start() on one session
  ChanCap,         \* capacity of the reader's channel (64 in the code)
  PipeCap,         \* chunks the operating system's pipe holds
  MaxOut,          \* bound: chunks the console writes on its own, per start
  MaxSend,         \* bound: input chunks queued at a time
  ExitCodes,       \* codes the child may end with
  NaturalEof,      \* conhost may leave once its child has ended
  EofBeforeSignal, \* ... already before the process handle is signalled
  StartFailures,   \* the steps of start() that may fail
  Destroyers       \* who may call rata_session_destroy: the host thread,
                   \* on_exit on the pump or on the watcher, and whether
                   \* on_exit may do so "early", before start() has returned

ASSUME BoundsAssumption ==
  /\ MaxStarts \in Nat \ {0}
  /\ ChanCap \in Nat \ {0}
  /\ PipeCap \in Nat \ {0}
  /\ MaxOut \in Nat
  /\ MaxSend \in Nat
  /\ ExitCodes \subseteq Int

ASSUME ChoicesAssumption ==
  /\ NaturalEof \in BOOLEAN
  /\ EofBeforeSignal \in BOOLEAN
  /\ StartFailures \subseteq {"pty", "reader", "writer"}
  /\ Destroyers \subseteq {"ui", "pump", "watcher", "early"}

Gen == 1..MaxStarts
GenOrNone == 0..MaxStarts

VARIABLES
  \* the Session structure
  alive,     \* the alive flag
  exitCode,  \* the cached exit code
  cbs,       \* the callback table still names the host's closures
  slot,      \* generation held by each Option field, 0 for None
  starts,    \* generations begun
  \* the thread that uses the API, and a destroy in progress
  ui,        \* the host thread's place in start()
  drop,      \* place in Session::drop
  dropper,   \* the thread that runs it, <<kind, generation>>
  \* per generation: threads and channels
  reader, writer, pump, watcher,
  chan,      \* reader -> pump, bounded
  wq,        \* input queue of the writer
  sawEof,    \* the pump's local saw_eof
  pcode,     \* the pump's local code
  refs,      \* holders of the Arc<PtyHost>
  \* per generation: the environment
  child, code, con, pipe, emitted,
  \* what the host has seen
  fed,       \* chunks parsed into the terminal
  shown,     \* chunks contained in the last frame delivered
  exits      \* the on_exit calls made, in order

vars == <<alive, exitCode, cbs, slot, starts, ui, drop, dropper, reader,
          writer, pump, watcher, chan, wq, sawEof, pcode, refs, child, code,
          con, pipe, emitted, fed, shown, exits>>

Fields   == {"pty", "reader", "writer", "pump", "watcher"}
Holders  == {"session", "pump", "watcher"}
NoOne    == <<"none", 0>>
Droppers == {NoOne, <<"ui", 0>>} \cup ({"pump", "watcher"} \X Gen)
AllCodes == ExitCodes \cup {0, 1}

UiSteps == {"idle", "spawnPty", "spawnReader", "spawnWriter", "spawnPump",
            "storePty", "closeOld", "spawnWatcher", "storeWatcher",
            "storeReader", "joinOldReader", "storeWriter", "joinOldWriter",
            "storePump", "undoReader", "undoPty", "undoClose", "drop"}
DropSteps == {"none", "alive", "clear", "terminate", "eof", "writer",
              "joinWriter", "pty", "closePty", "pump", "watcher", "reader",
              "freed"}
ReaderSteps  == {"none", "read", "send", "sendEof", "done"}
WriterSteps  == {"none", "recv", "write", "done"}
PumpSteps    == {"none", "recv", "drain", "events", "eventCb", "render",
                 "renderCb", "eofRender", "lastCb", "code", "store", "swap",
                 "exitCb", "release", "closing", "done"}
WatcherSteps == {"none", "check", "poll", "store", "swap", "exitCb",
                 "release", "closing", "done"}

(* The pump and watcher steps during which a host closure is running.      *)
PumpInHost    == {"eventCb", "renderCb", "lastCb", "exitCb"}
WatcherInHost == {"exitCb"}

TypeOK ==
  /\ alive \in BOOLEAN /\ exitCode \in AllCodes /\ cbs \in BOOLEAN
  /\ slot \in [Fields -> GenOrNone] /\ starts \in GenOrNone
  /\ ui \in UiSteps /\ drop \in DropSteps /\ dropper \in Droppers
  /\ reader \in [Gen -> ReaderSteps] /\ writer \in [Gen -> WriterSteps]
  /\ pump \in [Gen -> PumpSteps] /\ watcher \in [Gen -> WatcherSteps]
  /\ chan \in [Gen -> Seq({"bytes", "eof"})]
  /\ wq \in [Gen -> Seq({"data", "stop"})]
  /\ sawEof \in [Gen -> BOOLEAN] /\ pcode \in [Gen -> AllCodes]
  /\ refs \in [Gen -> SUBSET Holders]
  /\ child \in [Gen -> {"none", "running", "dying", "exited"}]
  /\ code \in [Gen -> AllCodes]
  /\ con \in [Gen -> {"none", "open", "closing", "closed"}]
  /\ pipe \in [Gen -> Nat] /\ emitted \in [Gen -> Nat]
  /\ fed \in [Gen -> Nat] /\ shown \in [Gen -> Nat]
  /\ exits \in Seq([gen : Gen, code : AllCodes])

Init ==
  /\ alive = FALSE /\ exitCode = 0 /\ cbs = TRUE
  /\ slot = [f \in Fields |-> 0] /\ starts = 0
  /\ ui = "idle" /\ drop = "none" /\ dropper = NoOne
  /\ reader = [g \in Gen |-> "none"] /\ writer = [g \in Gen |-> "none"]
  /\ pump = [g \in Gen |-> "none"] /\ watcher = [g \in Gen |-> "none"]
  /\ chan = [g \in Gen |-> <<>>] /\ wq = [g \in Gen |-> <<>>]
  /\ sawEof = [g \in Gen |-> FALSE] /\ pcode = [g \in Gen |-> 0]
  /\ refs = [g \in Gen |-> {}]
  /\ child = [g \in Gen |-> "none"] /\ code = [g \in Gen |-> 0]
  /\ con = [g \in Gen |-> "none"]
  /\ pipe = [g \in Gen |-> 0] /\ emitted = [g \in Gen |-> 0]
  /\ fed = [g \in Gen |-> 0] /\ shown = [g \in Gen |-> 0]
  /\ exits = <<>>

-----------------------------------------------------------------------------
(* A step of a thread: where it was, where it goes, and what no step of    *)
(* that thread changes.                                                    *)

UiGoes(from, to) ==
  /\ ui = from /\ ui' = to
  /\ drop # "freed"   \* a step on a freed session has no meaning
  /\ UNCHANGED <<exitCode, cbs, drop, dropper, chan, sawEof, pcode, pipe,
                 emitted, fed, shown, exits>>

ReaderGoes(g, from, to) ==
  /\ reader[g] = from /\ reader' = [reader EXCEPT ![g] = to]
  /\ UNCHANGED <<alive, exitCode, cbs, slot, starts, ui, drop, dropper, writer,
                 pump, watcher, wq, sawEof, pcode, refs, child, code, con,
                 emitted, fed, shown, exits>>

PumpGoes(g, from, to) ==
  /\ pump[g] = from /\ pump' = [pump EXCEPT ![g] = to]
  /\ UNCHANGED <<cbs, slot, starts, ui, drop, dropper, reader, writer,
                 watcher, code, pipe, emitted>>

WatcherGoes(g, from, to) ==
  /\ watcher[g] = from /\ watcher' = [watcher EXCEPT ![g] = to]
  /\ UNCHANGED <<cbs, slot, starts, ui, drop, dropper, reader, writer, pump,
                 chan, wq, sawEof, pcode, code, pipe, emitted, fed, shown>>

DropGoes(from, to) ==
  /\ drop = from /\ drop' = to
  /\ UNCHANGED <<exitCode, starts, ui, dropper, reader, writer, pump, watcher,
                 sawEof, pcode, pipe, emitted, fed, shown, exits>>

EnvFrame ==
  UNCHANGED <<alive, exitCode, cbs, slot, starts, ui, drop, dropper, reader,
              writer, pump, watcher, chan, wq, sawEof, pcode, refs, fed,
              shown, exits>>

-----------------------------------------------------------------------------
(* The shared PtyHost and the shared steps.                                *)

IsLast(g, holder) == refs[g] \subseteq {holder}

(* Dropping one Arc<PtyHost>: the last holder runs PtyHost::drop, whose    *)
(* ClosePseudoConsole asks conhost to leave and waits until it has.        *)
Release(g, holder) ==
  /\ refs' = [refs EXCEPT ![g] = @ \ {holder}]
  /\ con' = [con EXCEPT ![g] = IF IsLast(g, holder) /\ @ = "open"
                               THEN "closing" ELSE @]

(* ClosePseudoConsole has returned: the handles are closed, and with the   *)
(* job's handle the last of the child's process tree goes.                 *)
PtyClosed(g) ==
  /\ con[g] = "closed"
  /\ child' = [child EXCEPT ![g] = IF @ = "running" THEN "dying" ELSE @]
  /\ UNCHANGED <<refs, con, code>>

(* PtyHost::terminate.                                                     *)
Kill(g) ==
  /\ child' = [child EXCEPT ![g] = IF @ = "running" THEN "dying" ELSE @]
  /\ code' = [code EXCEPT ![g] = IF child[g] = "running" THEN 1 ELSE @]

(* Mutant: 259, STILL_ACTIVE, read as "still running".                     *)
Exited_StillActive(g) == child[g] = "exited" /\ code[g] # 259

(* PtyHost::try_exit_code is Some: the process handle is signalled.        *)
Exited(g) == child[g] = "exited"

(* Mutant: the cached code is reported, the process is not asked.          *)
ExitCodeOrZero_Cached(g) == exitCode

(* try_exit_code().unwrap_or(0).                                           *)
ExitCodeOrZero(g) == IF Exited(g) THEN code[g] ELSE 0

(* Mutant: the writer is not told to stop.                                 *)
SendStop_None(g) == UNCHANGED wq

(* Drop for WriterThread begins with the sentinel.                         *)
SendStop(g) == wq' = [wq EXCEPT ![g] = Append(@, "stop")]

(* Mutant: alive is cleared, but what it was is not looked at.             *)
SwapAndTell_NoSwap(g, c) ==
  /\ alive' = FALSE
  /\ exits' = IF cbs THEN Append(exits, [gen |-> g, code |-> c]) ELSE exits

(* alive.swap(false): whoever finds it up makes the one on_exit call.      *)
SwapAndTell(g, c) ==
  /\ alive' = FALSE
  /\ exits' = IF alive /\ cbs
              THEN Append(exits, [gen |-> g, code |-> c]) ELSE exits

-----------------------------------------------------------------------------
(* start(), on the host thread.                                            *)

StartCall ==
  /\ dropper = NoOne /\ ~alive /\ starts < MaxStarts
  /\ UiGoes("idle", "spawnPty")
  /\ starts' = starts + 1
  /\ UNCHANGED <<alive, slot, reader, writer, pump, watcher, wq, refs, con,
                 child, code>>

SpawnPty ==
  /\ \/ /\ UiGoes("spawnPty", "spawnReader")
        /\ child' = [child EXCEPT ![starts] = "running"]
        /\ con' = [con EXCEPT ![starts] = "open"]
        /\ refs' = [refs EXCEPT ![starts] = {"session"}]
     \/ /\ "pty" \in StartFailures
        /\ UiGoes("spawnPty", "idle")
        /\ UNCHANGED <<child, con, refs>>
  /\ UNCHANGED <<alive, slot, starts, reader, writer, pump, watcher, wq, code>>

SpawnReader ==
  /\ \/ /\ UiGoes("spawnReader", "spawnWriter")
        /\ reader' = [reader EXCEPT ![starts] = "read"]
     \/ /\ "reader" \in StartFailures
        /\ UiGoes("spawnReader", "undoPty")
        /\ UNCHANGED reader
  /\ UNCHANGED <<alive, slot, starts, writer, pump, watcher, wq, refs, con,
                 child, code>>

SpawnWriter ==
  /\ \/ /\ UiGoes("spawnWriter", "spawnPump")
        /\ writer' = [writer EXCEPT ![starts] = "recv"]
     \/ /\ "writer" \in StartFailures
        /\ UiGoes("spawnWriter", "undoReader")
        /\ UNCHANGED writer
  /\ UNCHANGED <<alive, slot, starts, reader, pump, watcher, wq, refs, con,
                 child, code>>

(* The '?' of a failed spawn drops the locals in reverse order: the reader *)
(* (a join) and only then the pty.                                         *)
UndoReader ==
  /\ UiGoes("undoReader", "undoPty")
  /\ reader[starts] = "done"
  /\ UNCHANGED <<alive, slot, starts, reader, writer, pump, watcher, wq, refs,
                 con, child, code>>

UndoPty ==
  /\ UiGoes("undoPty", "undoClose")
  /\ Release(starts, "session")
  /\ UNCHANGED <<alive, slot, starts, reader, writer, pump, watcher, wq,
                 child, code>>

UndoClose ==
  /\ UiGoes("undoClose", "idle")
  /\ PtyClosed(starts)
  /\ UNCHANGED <<alive, slot, starts, reader, writer, pump, watcher, wq>>

(* Mutant: the watcher gets the host's address and no Arc of its own.      *)
CloneArcs_WatcherBorrows(g) ==
  refs' = [refs EXCEPT ![g] = {"session", "pump"}]

CloneArcs(g) == refs' = [refs EXCEPT ![g] = Holders]

(* alive.store(true) comes before the thread that clears it exists, and    *)
(* both Arc clones before either thread.                                   *)
SpawnPump ==
  /\ UiGoes("spawnPump", "storePty")
  /\ alive' = TRUE
  /\ pump' = [pump EXCEPT ![starts] = "recv"]
  /\ CloneArcs(starts)
  /\ UNCHANGED <<slot, starts, reader, writer, watcher, wq, con, child, code>>

(* Assigning to a slot drops what it held before it is overwritten, with   *)
(* the slot's mutex held; so does Drop, which start() may have to wait for.*)
StorePty ==
  LET old  == slot["pty"]
      last == old # 0 /\ IsLast(old, "session")
  IN /\ drop # "closePty"
     /\ UiGoes("storePty", IF last THEN "closeOld" ELSE "spawnWatcher")
     /\ IF old = 0 THEN UNCHANGED <<refs, con>> ELSE Release(old, "session")
     /\ slot' = IF last THEN slot ELSE [slot EXCEPT !["pty"] = starts]
     /\ UNCHANGED <<alive, starts, reader, writer, pump, watcher, wq, child,
                    code>>

CloseOld ==
  /\ UiGoes("closeOld", "spawnWatcher")
  /\ PtyClosed(slot["pty"])
  /\ slot' = [slot EXCEPT !["pty"] = starts]
  /\ UNCHANGED <<alive, starts, reader, writer, pump, watcher, wq>>

SpawnWatcher ==
  /\ UiGoes("spawnWatcher", "storeWatcher")
  /\ watcher' = [watcher EXCEPT ![starts] = "check"]
  /\ UNCHANGED <<alive, slot, starts, reader, writer, pump, wq, refs, con,
                 child, code>>

StoreField(f, from, to) ==
  /\ UiGoes(from, to)
  /\ slot' = [slot EXCEPT ![f] = starts]
  /\ UNCHANGED <<alive, starts, reader, writer, pump, watcher, wq, refs, con,
                 child, code>>

(* Overwriting a JoinHandle detaches the thread it named.                  *)
StoreWatcher == StoreField("watcher", "storeWatcher", "storeReader")
StorePump    == StoreField("pump", "storePump", "idle")

(* Overwriting a ReaderThread or a WriterThread joins its thread, the      *)
(* writer's after the sentinel.                                            *)
StoreReader ==
  \/ /\ slot["reader"] = 0
     /\ StoreField("reader", "storeReader", "storeWriter")
  \/ /\ slot["reader"] # 0
     /\ UiGoes("storeReader", "joinOldReader")
     /\ UNCHANGED <<alive, slot, starts, reader, writer, pump, watcher, wq,
                    refs, con, child, code>>

JoinOldReader ==
  /\ StoreField("reader", "joinOldReader", "storeWriter")
  /\ reader[slot["reader"]] = "done"

StoreWriter ==
  \/ /\ slot["writer"] = 0
     /\ StoreField("writer", "storeWriter", "storePump")
  \/ /\ slot["writer"] # 0 /\ drop # "joinWriter"
     /\ UiGoes("storeWriter", "joinOldWriter")
     /\ SendStop(slot["writer"])
     /\ UNCHANGED <<alive, slot, starts, reader, writer, pump, watcher, refs,
                    con, child, code>>

JoinOldWriter ==
  /\ StoreField("writer", "joinOldWriter", "storePump")
  /\ writer[slot["writer"]] = "done"

(* send_bytes: queue input for the current writer.                         *)
SendBytes ==
  LET g == slot["writer"] IN
  /\ dropper = NoOne
  /\ UiGoes("idle", "idle")
  /\ g # 0 /\ Len(wq[g]) < MaxSend
  /\ wq' = [wq EXCEPT ![g] = Append(@, "data")]
  /\ UNCHANGED <<alive, slot, starts, reader, writer, pump, watcher, refs,
                 con, child, code>>

(* terminate: the host kills the child, the session lives on.              *)
Terminate ==
  /\ dropper = NoOne
  /\ UiGoes("idle", "idle")
  /\ slot["pty"] # 0 /\ Kill(slot["pty"])
  /\ UNCHANGED <<alive, slot, starts, reader, writer, pump, watcher, wq, refs,
                 con>>

(* set_callbacks with no closures: the Delphi control calls it before it   *)
(* destroys a session (Stop).                                              *)
ClearCallbacks ==
  /\ dropper = NoOne /\ ui = "idle"
  /\ cbs' = FALSE
  /\ UNCHANGED <<alive, exitCode, slot, starts, ui, drop, dropper, reader,
                 writer, pump, watcher, chan, wq, sawEof, pcode, refs, child,
                 code, con, pipe, emitted, fed, shown, exits>>

-----------------------------------------------------------------------------
(* The reader and the writer.                                              *)

(* Mutant: a ReadFile that returned nothing is taken for data.             *)
HasData_Always(g) == TRUE
HasData(g) == pipe[g] > 0

(* Mutant: the broken pipe is noticed before what it still holds.          *)
AtEof_Early(g) == con[g] = "closed"
AtEof(g) == con[g] = "closed" /\ pipe[g] = 0

ReadFile(g) ==
  \/ /\ HasData(g)
     /\ ReaderGoes(g, "read", "send")
     /\ pipe' = [pipe EXCEPT ![g] = @ - 1]
     /\ UNCHANGED chan
  \/ /\ AtEof(g)
     /\ ReaderGoes(g, "read", "sendEof")
     /\ UNCHANGED <<pipe, chan>>

(* The blocking send of a bounded channel.                                 *)
ReaderSend(g) ==
  /\ Len(chan[g]) < ChanCap
  /\ \/ /\ ReaderGoes(g, "send", "read")
        /\ chan' = [chan EXCEPT ![g] = Append(@, "bytes")]
     \/ /\ ReaderGoes(g, "sendEof", "done")
        /\ chan' = [chan EXCEPT ![g] = Append(@, "eof")]
  /\ UNCHANGED pipe

WriterGoes(g, from, to) ==
  /\ writer[g] = from /\ writer' = [writer EXCEPT ![g] = to]
  /\ UNCHANGED <<alive, exitCode, cbs, slot, starts, ui, drop, dropper, reader,
                 pump, watcher, chan, sawEof, pcode, refs, child, code, con,
                 pipe, emitted, fed, shown, exits>>

(* The writer takes a buffer; the sentinel ends the thread.                *)
WriterTakes(g) ==
  /\ wq[g] # <<>>
  /\ wq' = [wq EXCEPT ![g] = Tail(@)]
  /\ WriterGoes(g, "recv", IF Head(wq[g]) = "stop" THEN "done" ELSE "write")

(* WriteFile returns: the pipe had room, conhost has read, or it is gone.  *)
WriterWritten(g) == WriterGoes(g, "write", "recv") /\ UNCHANGED wq

-----------------------------------------------------------------------------
(* The pump.                                                               *)

(* recv() and try_recv(): the message leaves the channel before it is      *)
(* looked at; bytes go to the parser, Eof is remembered.                   *)
TakeMessage(g, from, onBytes, onEof) ==
  LET eof == Head(chan[g]) = "eof" IN
  /\ chan[g] # <<>>
  /\ PumpGoes(g, from, IF eof THEN onEof ELSE onBytes)
  /\ chan' = [chan EXCEPT ![g] = Tail(@)]
  /\ sawEof' = [sawEof EXCEPT ![g] = eof]
  /\ fed' = [fed EXCEPT ![g] = IF eof THEN @ ELSE @ + 1]
  /\ UNCHANGED <<alive, exitCode, wq, pcode, refs, con, child, shown, exits>>

PumpRecv(g) == TakeMessage(g, "recv", "drain", "eofRender")

PumpDrain(g) ==
  \/ TakeMessage(g, "drain", "drain", "events")
  \/ /\ chan[g] = <<>>
     /\ PumpGoes(g, "drain", "events")
     /\ UNCHANGED <<alive, exitCode, chan, wq, sawEof, pcode, refs, con,
                    child, fed, shown, exits>>

(* The terminal's own events: nothing, a reply to write back to the child, *)
(* or a title, bell or clipboard closure of the host.                      *)
PumpEvents(g) ==
  /\ \/ PumpGoes(g, "events", "render") /\ UNCHANGED wq
     \/ /\ PumpGoes(g, "events", "render")
        /\ Len(wq[g]) < MaxSend
        /\ wq' = [wq EXCEPT ![g] = Append(@, "data")]
     \/ cbs /\ PumpGoes(g, "events", "eventCb") /\ UNCHANGED wq
  /\ UNCHANGED <<alive, exitCode, chan, sawEof, pcode, refs, con, child, fed,
                 shown, exits>>

(* Mutant: the frame was taken before this round's bytes were parsed.      *)
Snapshot_Early(g) == IF fed[g] = 0 THEN 0 ELSE fed[g] - 1
Snapshot(g) == fed[g]

(* Snapshot, clone on_render under the lock, call the clone outside it.    *)
Render(g, from, inHost, next) ==
  /\ PumpGoes(g, from, IF cbs THEN inHost ELSE next)
  /\ shown' = [shown EXCEPT ![g] = IF cbs THEN Snapshot(g) ELSE @]
  /\ UNCHANGED <<alive, exitCode, chan, wq, sawEof, pcode, refs, con, child,
                 fed, exits>>

AfterRender(g) == IF sawEof[g] THEN "eofRender" ELSE "recv"

PumpRender(g)    == Render(g, "render", "renderCb", AfterRender(g))
PumpLastFrame(g) == Render(g, "eofRender", "lastCb", "code")

(* A closure of the host returns; one that destroys the session does so    *)
(* when the destroy does.                                                  *)
PumpHostReturns(g) ==
  /\ \/ PumpGoes(g, "eventCb", "render")
     \/ PumpGoes(g, "renderCb", AfterRender(g))
     \/ PumpGoes(g, "lastCb", "code")
     \/ /\ dropper = <<"pump", g>> => drop = "freed"
        /\ PumpGoes(g, "exitCb", "release")
  /\ UNCHANGED <<alive, exitCode, chan, wq, sawEof, pcode, refs, con, child,
                 fed, shown, exits>>

PumpCode(g) ==
  /\ PumpGoes(g, "code", "store")
  /\ pcode' = [pcode EXCEPT ![g] = ExitCodeOrZero(g)]
  /\ UNCHANGED <<alive, exitCode, chan, wq, sawEof, refs, con, child, fed,
                 shown, exits>>

PumpStore(g) ==
  /\ PumpGoes(g, "store", "swap")
  /\ exitCode' = pcode[g]
  /\ UNCHANGED <<alive, chan, wq, sawEof, pcode, refs, con, child, fed, shown,
                 exits>>

PumpSwap(g) ==
  /\ PumpGoes(g, "swap", IF alive /\ cbs THEN "exitCb" ELSE "release")
  /\ SwapAndTell(g, pcode[g])
  /\ UNCHANGED <<exitCode, chan, wq, sawEof, pcode, refs, con, child, fed,
                 shown>>

(* The thread's closure ends and drops its Arc.                            *)
PumpRelease(g) ==
  /\ PumpGoes(g, "release", IF IsLast(g, "pump") THEN "closing" ELSE "done")
  /\ Release(g, "pump")
  /\ UNCHANGED <<alive, exitCode, chan, wq, sawEof, pcode, child, fed, shown,
                 exits>>

PumpClosed(g) ==
  /\ PumpGoes(g, "closing", "done")
  /\ PtyClosed(g)
  /\ UNCHANGED <<alive, exitCode, chan, wq, sawEof, pcode, fed, shown, exits>>

-----------------------------------------------------------------------------
(* The watcher.                                                            *)

(* The test of alive at the head of the loop and before every 30 ms nap,   *)
(* the poll, and the return of on_exit.                                    *)
WatcherLoops(g) ==
  /\ \/ WatcherGoes(g, "check", IF alive THEN "poll" ELSE "release")
     \/ WatcherGoes(g, "poll", IF Exited(g) THEN "store" ELSE "check")
     \/ /\ dropper = <<"watcher", g>> => drop = "freed"
        /\ WatcherGoes(g, "exitCb", "release")
  /\ UNCHANGED <<alive, exitCode, refs, con, child, exits>>

WatcherStore(g) ==
  /\ WatcherGoes(g, "store", "swap")
  /\ exitCode' = code[g]
  /\ UNCHANGED <<alive, refs, con, child, exits>>

WatcherSwap(g) ==
  /\ WatcherGoes(g, "swap", IF alive /\ cbs THEN "exitCb" ELSE "release")
  /\ SwapAndTell(g, code[g])
  /\ UNCHANGED <<exitCode, refs, con, child>>

WatcherRelease(g) ==
  /\ WatcherGoes(g, "release",
                 IF IsLast(g, "watcher") THEN "closing" ELSE "done")
  /\ Release(g, "watcher")
  /\ UNCHANGED <<alive, exitCode, child, exits>>

WatcherClosed(g) ==
  /\ WatcherGoes(g, "closing", "done")
  /\ PtyClosed(g)
  /\ UNCHANGED <<alive, exitCode, exits>>

-----------------------------------------------------------------------------
(* rata_session_destroy: Session::drop, on the thread that called it.  It  *)
(* waits for a slot whose mutex start() holds.                             *)

DestroyCall ==
  /\ dropper = NoOne
  /\ drop' = "alive"
  /\ \/ /\ "ui" \in Destroyers /\ ui = "idle"
        /\ ui' = "drop" /\ dropper' = <<"ui", 0>>
     \/ /\ ui = "idle" \/ "early" \in Destroyers
        /\ UNCHANGED ui
        /\ \E g \in Gen :
             \/ /\ "pump" \in Destroyers /\ pump[g] = "exitCb"
                /\ dropper' = <<"pump", g>>
             \/ /\ "watcher" \in Destroyers /\ watcher[g] = "exitCb"
                /\ dropper' = <<"watcher", g>>
  /\ UNCHANGED <<alive, exitCode, cbs, slot, starts, reader, writer, pump,
                 watcher, chan, wq, sawEof, pcode, refs, child, code, con,
                 pipe, emitted, fed, shown, exits>>

DropAlive ==
  /\ DropGoes("alive", "clear")
  /\ alive' = FALSE
  /\ UNCHANGED <<cbs, slot, chan, wq, refs, con, child, code>>

DropClear ==
  /\ DropGoes("clear", "terminate")
  /\ cbs' = FALSE
  /\ UNCHANGED <<alive, slot, chan, wq, refs, con, child, code>>

DropTerminate ==
  /\ ui # "closeOld"
  /\ DropGoes("terminate", "eof")
  /\ IF slot["pty"] = 0 THEN UNCHANGED <<child, code>> ELSE Kill(slot["pty"])
  /\ UNCHANGED <<alive, cbs, slot, chan, wq, refs, con>>

(* Mutant: Drop sends no synthetic Eof.                                    *)
TrySendEof_None(g) == UNCHANGED chan

(* try_send of the synthetic Eof: nothing happens when there is no room.   *)
TrySendEof(g) ==
  chan' = [chan EXCEPT ![g] = IF Len(@) < ChanCap THEN Append(@, "eof") ELSE @]

DropEof ==
  /\ ui # "joinOldReader"
  /\ DropGoes("eof", "writer")
  /\ IF slot["reader"] = 0 THEN UNCHANGED chan ELSE TrySendEof(slot["reader"])
  /\ UNCHANGED <<alive, cbs, slot, wq, refs, con, child, code>>

DropWriter ==
  /\ ui # "joinOldWriter"
  /\ IF slot["writer"] = 0
     THEN DropGoes("writer", "pty") /\ UNCHANGED wq
     ELSE DropGoes("writer", "joinWriter") /\ SendStop(slot["writer"])
  /\ UNCHANGED <<alive, cbs, slot, chan, refs, con, child, code>>

DropJoinWriter ==
  /\ DropGoes("joinWriter", "pty")
  /\ slot["writer"] # 0 => writer[slot["writer"]] = "done"
  /\ slot' = [slot EXCEPT !["writer"] = 0]
  /\ UNCHANGED <<alive, cbs, chan, wq, refs, con, child, code>>

DropPty ==
  LET g    == slot["pty"]
      last == g # 0 /\ IsLast(g, "session")
  IN /\ ui # "closeOld"
     /\ DropGoes("pty", IF last THEN "closePty" ELSE "pump")
     /\ IF g = 0 THEN UNCHANGED <<refs, con>> ELSE Release(g, "session")
     /\ slot' = IF last THEN slot ELSE [slot EXCEPT !["pty"] = 0]
     /\ UNCHANGED <<alive, cbs, chan, wq, child, code>>

DropClosePty ==
  /\ DropGoes("closePty", "pump")
  /\ PtyClosed(slot["pty"])
  /\ slot' = [slot EXCEPT !["pty"] = 0]
  /\ UNCHANGED <<alive, cbs, chan, wq>>

(* Mutant: the handle is thrown away, the thread goes on by itself.        *)
Joined_Detached(f, thread) == TRUE

(* The thread whose handle is in slot f has ended; none joins itself.      *)
Joined(f, thread) ==
  slot[f] # 0 /\ dropper # <<f, slot[f]>> => thread[slot[f]] = "done"

DropJoin ==
  /\ \/ DropGoes("pump", "watcher") /\ Joined("pump", pump)
     \/ DropGoes("watcher", "reader") /\ Joined("watcher", watcher)
     \/ /\ ui # "joinOldReader"
        /\ DropGoes("reader", "freed") /\ Joined("reader", reader)
  /\ UNCHANGED <<alive, cbs, slot, chan, wq, refs, con, child, code>>

-----------------------------------------------------------------------------
(* The child and its console host.                                         *)

ChildEnds(g) ==
  /\ child[g] = "running"
  /\ child' = [child EXCEPT ![g] = "dying"]
  /\ \E c \in ExitCodes : code' = [code EXCEPT ![g] = c]
  /\ EnvFrame /\ UNCHANGED <<con, pipe, emitted>>

(* The process object becomes signalled.                                   *)
ChildSignals(g) ==
  /\ child[g] = "dying"
  /\ child' = [child EXCEPT ![g] = "exited"]
  /\ EnvFrame /\ UNCHANGED <<code, con, pipe, emitted>>

(* Output of the child or of what it started; conhost outlives the child.  *)
ConWrite(g) ==
  /\ con[g] \in {"open", "closing"}
  /\ emitted[g] < MaxOut /\ pipe[g] < PipeCap
  /\ pipe' = [pipe EXCEPT ![g] = @ + 1]
  /\ emitted' = [emitted EXCEPT ![g] = @ + 1]
  /\ EnvFrame /\ UNCHANGED <<child, code, con>>

(* conhost reads its input while its output is not blocked; gone, it lets  *)
(* a write fail.                                                           *)
ConReads(g) == con[g] = "closed" \/ pipe[g] < PipeCap

(* Asked to close, conhost writes a last frame and leaves.                 *)
ConCloses(g) ==
  /\ con[g] = "closing"
  /\ pipe[g] < PipeCap
  /\ pipe' = [pipe EXCEPT ![g] = @ + 1]
  /\ emitted' = [emitted EXCEPT ![g] = @ + 1]
  /\ con' = [con EXCEPT ![g] = "closed"]
  /\ EnvFrame /\ UNCHANGED <<child, code>>

(* Where it does so at all, conhost leaves by itself after its child.      *)
ConLeaves(g) ==
  /\ NaturalEof
  /\ con[g] = "open"
  /\ child[g] = "exited" \/ (EofBeforeSignal /\ child[g] = "dying")
  /\ con' = [con EXCEPT ![g] = "closed"]
  /\ EnvFrame /\ UNCHANGED <<child, code, pipe, emitted>>

-----------------------------------------------------------------------------

StartStep == \/ SpawnPty \/ SpawnReader \/ SpawnWriter \/ SpawnPump
             \/ UndoReader \/ UndoPty \/ UndoClose \/ StorePty \/ CloseOld
             \/ SpawnWatcher \/ StoreWatcher \/ StoreReader
             \/ JoinOldReader \/ StoreWriter \/ JoinOldWriter \/ StorePump

ReaderStep(g) == ReadFile(g) \/ ReaderSend(g)

WriterStep(g) == WriterTakes(g) \/ WriterWritten(g)

PumpStep(g) == \/ PumpRecv(g) \/ PumpDrain(g) \/ PumpEvents(g)
               \/ PumpRender(g) \/ PumpLastFrame(g) \/ PumpHostReturns(g)
               \/ PumpCode(g) \/ PumpStore(g) \/ PumpSwap(g)
               \/ PumpRelease(g) \/ PumpClosed(g)

WatcherStep(g) == \/ WatcherLoops(g) \/ WatcherStore(g) \/ WatcherSwap(g)
                  \/ WatcherRelease(g) \/ WatcherClosed(g)

DropStep == \/ DropAlive \/ DropClear \/ DropTerminate \/ DropEof
            \/ DropWriter \/ DropJoinWriter \/ DropPty \/ DropClosePty
            \/ DropJoin

EnvStep(g) == \/ ChildEnds(g) \/ ChildSignals(g) \/ ConWrite(g)
              \/ ConCloses(g) \/ ConLeaves(g)

(* The session is gone and nothing of it is left running.                  *)
AllOver ==
  /\ drop = "freed"
  /\ \A g \in Gen : /\ {reader[g], writer[g], pump[g], watcher[g]}
                          \subseteq {"none", "done"}
                    /\ child[g] \in {"none", "exited"}
  /\ UNCHANGED vars

Next == \/ StartCall \/ StartStep \/ SendBytes \/ Terminate \/ ClearCallbacks
        \/ DestroyCall \/ DropStep
        \/ \E g \in Gen : \/ ReaderStep(g) \/ WriterStep(g) \/ PumpStep(g)
                          \/ WatcherStep(g) \/ EnvStep(g)
        \/ AllOver

(* Threads are scheduled; a terminated process finishes terminating; a     *)
(* conhost reads its input, and closes when it is asked to, if nothing     *)
(* blocks its output.  Nothing makes the host call, the child end or       *)
(* conhost leave by itself, or take a buffer when its output is blocked.   *)
Fairness ==
  /\ WF_vars(StartStep)
  /\ WF_vars(DropStep)
  /\ \A g \in Gen : /\ WF_vars(ReaderStep(g)) /\ WF_vars(WriterTakes(g))
                    /\ WF_vars(ConReads(g) /\ WriterWritten(g))
                    /\ WF_vars(PumpStep(g)) /\ WF_vars(WatcherStep(g))
                    /\ WF_vars(ChildSignals(g)) /\ WF_vars(ConCloses(g))

Spec == Init /\ [][Next]_vars
FairSpec == Spec /\ Fairness

-----------------------------------------------------------------------------
(* Properties.                                                             *)

(* A child's end is announced once: EOF path and watcher compete for alive *)
(* (session.rs 277, 314), and no two on_exit calls name one generation.    *)
OnceEach == \A i, j \in DOMAIN exits : exits[i].gen = exits[j].gen => i = j

(* What the swap of alive gives for any number of restarts: on_exit calls, *)
(* made or still to be made, never outnumber the start() calls.            *)
ExitsBounded == /\ Len(exits) <= starts
                /\ alive => Len(exits) < starts

(* on_exit comes after the end of the child it is about, and carries the   *)
(* code that child ended with (FR-001).                                    *)
ExitCodeTrue ==
  \A i \in DOMAIN exits :
    LET g == exits[i].gen IN
    /\ child[g] = "exited"
    /\ exits[i].code = code[g]

(* No host closure runs once rata_session_destroy has returned, except the *)
(* one that called it (session.rs 518-528).                                *)
NoCallbackAfterFree ==
  drop = "freed" =>
    \A g \in Gen :
      /\ pump[g] \in PumpInHost => dropper = <<"pump", g>>
      /\ watcher[g] \in WatcherInHost => dropper = <<"watcher", g>>

(* A destroy on the host thread leaves no thread, no console and no child  *)
(* behind (session.rs 541-542, NFR-002).                                   *)
ReapedWhenFreed ==
  drop = "freed" /\ dropper = <<"ui", 0>> =>
    \A g \in Gen :
      /\ reader[g] \in {"none", "done"} /\ writer[g] \in {"none", "done"}
      /\ pump[g] \in {"none", "done"} /\ watcher[g] \in {"none", "done"}
      /\ con[g] \in {"none", "closed"} /\ child[g] # "running"

(* PtyHost's handles are not closed under a thread that still queries the  *)
(* process: whoever may call try_exit_code or terminate holds an Arc, and  *)
(* ClosePseudoConsole runs only when nobody does.                          *)
PtyOutlivesUsers ==
  \A g \in Gen :
    /\ con[g] = "closing" => refs[g] = {}
    /\ pump[g] = "code" => "pump" \in refs[g]
    /\ watcher[g] = "poll" => "watcher" \in refs[g]
    /\ slot["pty"] = g /\ ui # "closeOld" /\ drop # "closePty" =>
         "session" \in refs[g]

(* When the EOF path announces the end, the last frame delivered holds     *)
(* everything the console wrote (session.rs 261-271).                      *)
LastFrameComplete ==
  \A g \in Gen : pump[g] = "exitCb" => shown[g] = emitted[g]

(* session.rs 261 of every announcement: the last screen goes out before   *)
(* on_exit does.                                                           *)
ExitAfterLastFrame ==
  \A g \in Gen :
    "exitCb" \in {pump[g], watcher[g]} => shown[g] = emitted[g]

(* Destroying in on_exit is safe (session.rs 544-549): the session is not  *)
(* freed under a start() that is still filling it in.                      *)
NoUseAfterFree == drop = "freed" => ui \in {"idle", "drop"}

(* The synthetic Eof found no room, and the pump has not had one.          *)
EofLost ==
  /\ drop = "writer" /\ slot["reader"] # 0
  /\ LET g == slot["reader"]
     IN  /\ Len(chan[g]) = ChanCap /\ ~sawEof[g]
         /\ \A i \in DOMAIN chan[g] : chan[g][i] # "eof"

(* The reader sends, and nobody receives.                                  *)
ReaderStuck ==
  \E g \in Gen : /\ reader[g] \in {"send", "sendEof"}
                 /\ Len(chan[g]) = ChanCap
                 /\ pump[g] \in {"closing", "done"}

(* rata_session_destroy returns, with the joins of Drop in their order, on *)
(* the host thread and on the pump, unless output fills the channel: then  *)
(* the synthetic Eof may find no room, or the reader nobody to receive     *)
(* (session.rs 518-566, io.rs 91-106).                                     *)
DestroyReturns == (drop = "alive") ~> (drop = "freed" \/ EofLost \/ ReaderStuck)

(* Drop wakes the pump whatever the reader is doing (session.rs 533):      *)
(* fails, with the channel full there is no room for the Eof.              *)
PumpWoken ==
  \A g \in Gen : (drop = "writer" /\ slot["pump"] = g) ~> (pump[g] = "done")

(* Drop reaps all threads (session.rs 541): fails, the last one is joined  *)
(* while it sends into a channel that nobody empties.                      *)
AllReaped == (drop = "reader") ~> (drop = "freed")

(* rata_session_start returns, unless a callback destroyed its session.    *)
StartReturns ==
  (ui \notin {"idle", "drop"}) ~> (ui = "idle" \/ drop = "freed")

(* The end of the running child is announced, EOF or no EOF, unless the    *)
(* host withdraws its closures or destroys the session first               *)
(* (session.rs 291-298, FR-001).                                           *)
ExitTold ==
  \A g \in Gen :
    (child[g] = "exited" /\ alive) ~>
      (\/ \E i \in DOMAIN exits : exits[i].gen = g
       \/ dropper # NoOne \/ ~cbs)

(* What the console writes is shown, the end of a burst included.          *)
OutputShown ==
  \A g \in Gen :
    (shown[g] < emitted[g]) ~>
      (shown[g] = emitted[g] \/ dropper # NoOne \/ ~cbs)
=============================================================================
