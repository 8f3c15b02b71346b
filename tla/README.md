# Verification of SCShell

SCShell is a terminal for Delphi programs: a Rust DLL (`rata_shell`) runs a shell under a
Windows pseudo console and keeps the terminal's state, and a VCL control (`TSCRataShell`)
owns one session of the DLL, draws its frames and feeds it the user's input. This directory
holds TLA+ models of the parts where threads, callbacks, messages and failing system calls
meet and of the terminal's own algorithms, the TLC configurations that check them, and TLAPS proofs of
the safety properties.

Paths below are relative to the repository: `rs/` stands for `rata_shell/src/`, `Ctrl.pas` for
`delphi/src/SCShell.Ctrl.pas`.

## 1. Inventory

| Part | State it keeps | Operations | Works with |
|---|---|---|---|
| Session, `rs/session.rs`, `rs/io.rs` | `alive`, `exitCode`, callback table, the Options `pty`, `reader`, `writer`, `pump`, `watcher` | create, set_callbacks, start, send, terminate, destroy (`Drop`), scroll and render calls | four threads per `start()`: reader (pipe to bounded channel), pump (channel to terminal to callbacks), watcher (polls the process), writer (queue to pipe) |
| Pseudo console, `rs/pty/` | HPCON, two pipe ends, process and thread handle, attribute list, job | `spawn`, `resize`, `try_exit_code`, `terminate`, `Drop` | shared as `Arc<PtyHost>` by session, pump and watcher; reader and writer hold duplicates of the pipe ends |
| Terminal, `rs/term.rs` | alacritty grid, scrollback, viewport, selection, VI mode, search origin, OSC 7 scanner, hyperlinks | advance (pump), scroll, selection, search, VI motions (any thread, under one lock) | pump writes, UI thread scrolls and queries |
| Renderer, `rs/render/` | cells of the last snapshot | snapshot, dirty rectangles | under its own lock, after the terminal's; whichever thread renders |
| Control, `Ctrl.pas` | `FSession`, `FActive`, `FTitle`, one-frame mailbox, pending title, cached scroll position, drag flags, auto-scroll timer | Start, Stop, Restart, Destroy, DestroyWindowHandle, message handlers, mouse, wheel, keyboard, search | callbacks run on session threads and post messages to the UI thread |
| Keymap, listener, FFI, error, log | none, or a queue under a lock | conversions | called by the above |
| Loader, painter, registration, demo, samples, build | – | – | hosts and tools |

What is hard in it, and what makes each part correct:

* **Two witnesses of one death.** EOF on the pipe and the signalled process handle report the same
  end, in any order; exactly one `on_exit` must come of it, with the true code, after the last frame.
* **Tear-down.** `Drop` must stop threads that wait for each other, on whichever thread it
  runs, without closing a console or handle somebody still uses.
* **Callbacks.** Session threads call into a control that may be on its way out, on a UI thread that may
  be joining them.
* **Mailboxes.** Frames and titles overwrite each other and are announced by messages; none that
  matters may be lost, none older may win.
* **Partial failure.** `spawn` acquires handles over nine system calls, each of which may fail.
* **Stale copies.** The control acts on copies (`FActive`, `FScrollOffset`, `FSelectingDrag`) of what lives
  elsewhere; the renderer compares with the cells of a snapshot the other thread took; a search goes on
  from a place in a grid that moves.
* **Streams cut anywhere.** The OSC 7 scanner reads bytes; a report may begin in one chunk and end in the next,
  be cut off, or never end.
* **Split locks.** The pump's output and its snapshot, an operation of the host and its render, and the two calls that fetch
  the working directory are each two holds of one lock.

`PROJECT.json` lists every such place with its line ("hazards") and the properties aimed at it.

## 2. Modules

| Module | Models | Composition |
|---|---|---|
| `Session` | one session, its four threads per start, child, conhost, pipe | core; everything else rests on it |
| `SessionContract` | what a host may rely on: who may call it, at most one end told, silence after destroy | abstract |
| `SessionRefines` | the mapping from `Session` to `SessionContract` | `EXTENDS Session`, `INSTANCE SessionContract` |
| `Control` | life cycle of the control, callbacks, mailbox, title, messages, several sessions in turn | each session checked as an instance of `SessionContract` |
| `View` | mouse, wheel, keyboard, search, auto-scroll and scrollback | frames reduced to two flags |
| `Terminal`, `MCTerminal` | grid, viewport, frames with cursor, links and dirty rectangles, search | what `Session` and `Control` take as one chunk and one frame |
| `Osc7`, `MCOsc7` | the scanner for the working directory, its URLs, and the two-call read | beside `Terminal`, in the same output |
| `PtyHost` | `spawn` and `Drop` call by call, process tree, job, end of the host process | what `Session` takes as the steps `SpawnPty` and `PtyClosed` |
| `SessionProofs`, `SessionEndProofs` | theorems about `Session`, the second on top of the first | `EXTENDS Session` |
| `SessionRefinesProofs` | that `Session` implements `SessionContract`, step by step | `EXTENDS SessionRefines, SessionEndProofs` |
| `ControlProofs`, `ViewProofs`, `TerminalProofs`, `Osc7Proofs`, `PtyHostProofs` | theorems about the module they are named after | `EXTENDS` that module |

Operators named `X_Y` just before an operator `X` are variants of `X` with a plausible mistake in
them. They are not part of a model; each shows that some property would notice that mistake.

### Session

One action per step that another thread can see: a lock taken and released, a flag, a channel
operation, a join, a callback entered and left. The host thread's place in `start()` is `ui`, a destroy in
progress is `drop`, and `dropper` tells on which thread it runs, since the code joins every thread but its
own (`rs/session.rs` 541-564). Whatever a `start()` creates is indexed by its generation; the flags
and Option fields that all generations share are not. The reader's channel is a bounded sequence,
the pipe a count. Data is abstracted to chunks: `emitted` by the console, `fed` to the terminal, `shown`
in the last frame delivered. The writer takes a buffer from its queue and is then in `WriteFile`, until conhost
reads its input. The child, its exit code and conhost are the environment: conhost holds the
pipe's write end, does not read while its output is blocked, may flush more output while it closes and may leave before or after the
process handle is signalled (`EofBeforeSignal`).

### SessionContract and SessionRefines

The contract has five variables: phase, callback table, threads inside a closure of the host, whether
the end was told, who closed. `Free` requires that no closure runs but the one that called destroy. The
refinement maps `phase` from `drop` and `starts`, `inHost` from the pump's and watcher's places.

### Control

The UI thread's `ui` is its place in Start, Stop or a `request_render`; between calls it takes a message
or the host calls something. Callbacks are three steps: enter, store under the lock, post. The frame is
its session number and the terminal's version it shows, so that an older frame that wins is seen: the pump and
`request_render` take a frame in one step and deliver it in a later one, with nothing that keeps their order.
`newest` is history: the latest version of a session that reached the mailbox.
`Stop` runs step by step (silence, terminate, destroy, join), and destroy waits as the contract says.
A `Then` after it is the Start of a Restart, the window's or the control's end. Bell and clipboard
callbacks change no modelled state and are left out, and a `PostMessage` that fails.

### View

A frame is `dirty` (changed by the pump, not yet drawn) and `frame` (a message is queued); input is taken
only when no message is queued, as posted messages come before input and timers in the message loop. The
viewport is `off` lines above the live edge of `hist` lines. The mouse has two buttons, which are pressed over canvas or
scrollbar and let go anywhere; what lies beyond the right edge is `"bar"`, since the code compares the x coordinate only. `captured` is
`MouseCapture`; without it a release outside the control reaches nobody. The shell switches tracking at any time. Three variables
are history. `searched`: a search moved the viewport and the control has not read the position since. `astray`: a release was reported
while a drag was on, and one still is. `loose`: buttons that were down together with another, or were let go over the scrollbar.

### Terminal

The grid is `hist` and `screen`, sequences of lines; a line is its text and its link, model values. `off` is
`display_offset`; lines are numbered as in the code, negative in the scrollback. What alacritty_terminal does
(a line written below the last one, a viewport that goes along with its lines, RIS) is external and
taken from how `rs/term.rs` uses it. The pump's `advance` and its snapshot are two steps, tied by `pumpOwes`; an operation
of the host and its `request_render` two, tied by `hostOwes`. A snapshot is the code's: cells with
hyperlink ids (`hash_uri`, 0 replaced by 1), the table of ids to URIs, the cursor's row, and the dirty rectangles,
rows compared and joined from the top. What a thread has snapshotted is in `taken` until it calls `on_render` (`Deliver`), with no lock
held, so that the frames of the two threads may come in either order. `shown` is a host that repaints the rectangles and nothing else.
`search_next` keeps `origin` and starts one place beside it, clamped to the grid; a place is a line and whether it is past the first
column. Texts begin in the first column, of a row of two columns or more, and are of one column (`Narrow`) or of more, which is what
decides where a match ends and so whether a search leaves it. History: `newest` is the thread that took the last
snapshot, `late` those whose frame a later one has overtaken, `stale` whether the last frame delivered was one, `overlaid` the
rows such a frame repainted and none since; a search `moved` the viewport without asking for a frame; `round` and `last` are the lines a
round of searches has to find and has found.

### Osc7

One step scans one byte, so that chunks may end anywhere. `st` and `buf` are `osc7_state` and `osc7_buf`. `PathOf` is
what `handle_osc7_url` does to the bytes: scheme and host removed, percent decoding, the slash before a drive letter.
`seen` is everything scanned; the properties look for whole sequences in it and never at the scanner. `Says` is what a shell
means by a URL: bytes that stand for themselves or are escaped, bare or behind a scheme and a host, a slash before a drive. The assumption
`PiecesSay` ties the directory a piece is said to announce (`path`) to its bytes that way, and not through the code; TLC evaluates it on the pieces of `MCOsc7`. `AskLength` and `Copy` are the
two calls of `CurrentCwd` in the control, between which the pump may report another directory. Output is ASCII,
on which `from_utf8_lossy` changes nothing.

### PtyHost

`at` is the next system call of `spawn`, or a step of `Drop`; `open` is the ledger of handles. Every call may fail, and then what the
code closes on that path is closed, which for four of them is nothing. Reader and writer own duplicates of the pipe ends. Processes
fork from the moment the shell runs, one call before it is in the job; they may leave the console, end by themselves, with the console
or with the job. The host process may end at any step. `lost` (the call that failed) and `early` (what the shell started before it was in the job,
and the descendants of that) are history.

## 3. Runs

TLC explores every interleaving within the bounds; each run ends in at most three minutes on two threads. No passing run has a
switch that keeps an interleaving out because the code fails there. Where the code does not keep what a doc or a comment says, the
passing property says what does hold, with the exception named by its cause, and the words of the doc are a definition of their own beside it.

| Run | Asks | Bounds and why they do |
|---|---|---|
| `session` | does one start, with any destroy, announce once, show all output, tear down, and keep the contract | 1 start; channel 1, pipe 1, one chunk of output plus one at closing: an EOF behind data, a channel that is full when `Drop` sends its `Eof` (`EofLost`) and one that is full after the pump has gone (`ReaderStuck`); one buffer of input; destroy from the host thread or from `on_exit` on the pump; exit code 259 = STILL_ACTIVE; the pty's spawn may fail |
| `session_restart` | do the shared `alive` flag, the Arcs and the codes survive a second start | 2 starts, channel 1, reader and writer spawns may fail; no destroy (the first run has it) |
| `control` | does the control survive its own callbacks | 2 sessions in turn, 2 rounds of output or scrolls; host starts, stops, scrolls, loses the window, frees, restarts in OnExit. Two sessions are what one stale message needs, two rounds what an overtaken frame needs, and a second title while the first is stored, announced or read |
| `view` | do copies, drags and reports stay true under any mouse and any shell | 2 rows, a wheel of 1 line, 2 lines of history: above, below and within the viewport all occur; two buttons |
| `terminal` | do frames, links, rectangles and searches agree with the grid under two threads | 3 rows (two rectangles with a gap), scrollback of 1 line (it overflows), 3 writes; 3 operations are a hit, the next one and a miss, or a hit found again; two texts, one of a single column, with two links, one of which hashes to 0 |
| `osc7` | is the directory what was announced, read whole | limit 14 bytes; 3 pieces out of: an encoded drive path, a path with a host, a bare one, BEL and ESC endings, introducers cut off at three places, a URL one byte too long, a title. Two pieces make every cut of one report by another, the third a report after it |
| `pty` | are handles and processes accounted for | shell and two more processes (each may be off the console or on it, in the job or not); any call may fail; host may end at every step |

Five runs are violated; PROJECT.json quotes the sentence of the docs or of the comment each one refutes.

| Run | What the trace shows | Passing counterpart |
|---|---|---|
| `session_exit_code` | a child that returned 7 is announced with 0 | `ExitCodeTrue` unless `EofBeforeSignal` |
| `session_watcher_destroy` | destroy in `on_exit` on the watcher never returns | `DestroyReturns` for host thread and pump |
| `control_start_leak` | Start after a natural end leaks the session | `NothingLeftBehind` without `"startAgain"` |
| `control_stale_exit` | an old exit message takes `Active` down after Restart | `ActiveTells` without the host's `"restart"` |
| `view_typing` | typing after a search stays in the scrollback | `InfoTrue` but for `searched` |

The other exceptions occur in the passing runs themselves. The sentence that fails is stated in the module, under the comment that says so;
put in place of the properties of the cfg named here, TLC prints its trace.

| Property, and what it excepts | What happens in the code | What is said, and fails |
|---|---|---|
| `DestroyReturns`: `EofLost` | the `Eof` of `Drop` is a `try_send` into a full channel; the pump empties it and waits again, holding the Arc that keeps the console open (`rs/session.rs` 535, 554) | `PumpWoken`, `session.cfg` (comment, line 533) |
| `DestroyReturns`: `ReaderStuck` | the pump has gone, conhost's last output fills the channel, the reader waits in `send()` and `Drop` for the reader (`rs/io.rs` 51, `rs/session.rs` 564) | `AllReaped`, `session.cfg` (comment, line 541) |
| `ScreenFollows`: `Overtaken` | two threads deliver outside the lock, and an older frame replaces a newer one in the mailbox (`rs/session.rs` 383-387) | `ScreenCatchesUp`, `control.cfg` (01-requirements FR-002) |
| `PatchedTrue`: `overlaid`, and both frame properties: `stale` | rows of an overtaken frame stay on the screen of a host that repaints the dirty rectangles, which were computed against cells it no longer shows | `DirtyEnough`, `terminal.cfg` (01-requirements FR-003) |
| `SearchTrue`: a text of one column in the topmost line | the place beside it is clamped to it, and the way up finds it again for ever (`rs/term.rs` 316) | `NextMatch`, `terminal.cfg` (`rs/term.rs` 280-282) |
| `DragEnds`: `astray` | a release that falls on the canvas while the shell tracks (it began to during a selection, or the drag came from the scrollbar) is reported only, and the drag goes on (`Ctrl.pas` 1937-1951) | `DragEndsAlways`, `view.cfg` (06-ui.md 177) |
| `ButtonsPaired`: `loose` | a button let go over the scrollbar, or after the capture was given up with another one's release, stays down for the shell (`Ctrl.pas` 1942, 1949) | `ReleasesReported`, `view.cfg` (DEVELOPER_GUIDE.md 272-277) |
| `LeaksBounded`: what `LeftOpen` lists | when the second CreatePipe, CreatePseudoConsole or one of the two calls of `JobHandle::create` fails, `spawn` returns by `?` with handles open; the property says exactly which | the comment `rs/pty/conpty.rs` 122-123 (`open = {}` in place of `LeftOpen(lost)`) |
| `TreeInJob`, `TreeEnds`: `early` | what the shell starts before it is assigned to the job is outside, with its descendants; off the console it outlives session and host (`rs/pty/conpty.rs` 180-208) | `NothingOutlives`, `pty.cfg` (README.md 19, `rs/pty/job.rs` 1-2) |

Deadlock is checked in the View runs. The others turn it off: a host that has nothing left to call, or a bound
that is used up, stops the model legitimately, and in `session` a destroy that hangs for the two reasons above does; that
nothing else hangs is what `DestroyReturns` says there.

### What the passing runs leave out

Constants choose the environment. These choices keep something out of every passing run:

* `Session`, `MaxStarts = 2` with a destroy: a second `start()` overwrites the join handles of the first pump and watcher, and `Drop` joins
  the last ones only. `NoCallbackAfterFree` and `ReapedWhenFreed` fail, although the comment at `rs/session.rs` 541-542
  has every thread joined. The control makes a new session for every Start.
* `Session`, `"early"` in `Destroyers`: `on_exit` destroys a session whose `start()` has not returned (`NoUseAfterFree` fails).
* `Session`, `EofBeforeSignal` with several codes, and `"watcher"` in `Destroyers`: two of the violated runs.
* `Control`, `"startAgain"` and `"restart"` in `HostCalls`: two of the violated runs. `"empty"` in `Titles`, a title reset: `RataTitleProc`
  drops it and `TitleFollows` fails.

`Session` also states three properties that no run checks and that do not hold. `LastFrameComplete` speaks of the pump's announcement only: the watcher's may
come before the last frame (`ExitAfterLastFrame` fails). A second `start()` that joins a reader waiting for room in the channel does not
return, nor does one whose writer's spawn fails then (`StartReturns` fails).

Other limits are in the wording of a property, because the code has them on every path:

* `Terminal`: dirty rectangles compare all of a cell but its link (`rs/render/backend.rs` 90-97), so a row whose link alone changes is in
  no rectangle; `PatchedTrue` speaks of texts. A search asks for no frame: `FrameCurrent` excepts the time until the next
  one (`moved`). After a miss the place is let go and the next search starts at the cursor, which is no wrap-around to
  the other end; a place is not moved when output scrolls the grid, so `SearchTrue` speaks of a round of
  searches with no output in between. Two links with one id would share the first URI (`TerminalAssumption` excludes it), and the table of links only grows.
* `Osc7`: an ESC that follows on `ESC ]` or `ESC ] 7` starts nothing, so the next report is missed (`Clean`). A URL ends with any ESC,
  also with one that begins another sequence; the URL is reported then. The host part is dropped, with it the server of a UNC path.
  The two-call read cuts a longer directory reported in between (`ReadsWhole` asks for the whole only when nothing was reported).
* `PtyHost`: `Terminate` ends the shell only; the rest of its tree runs until the destroy.

### Fairness

`Session`: every thread of the session and the thread inside start or Drop is scheduled (weak fairness of
its steps); a terminated process finishes terminating; a conhost told to close closes once its
output can be written. A `WriteFile` of the writer returns when conhost reads its input, that is while its output is not blocked, or has
gone. No fairness on the host's calls, on the child's end, or on conhost leaving by
itself: hence `ExitTold` must hold without an EOF. `Control`: the UI thread goes on, pump and watcher are
scheduled; dispatching a posted message is strongly fair, because the message loop takes posted messages before
the input that makes a host call again and again; no shell writes or ends, no host calls, by obligation.
`PtyHost`: the thread inside `spawn` or `Drop`, the reader at EOF, and the end of what is attached to a
console that is gone. The remaining runs check safety only.

## 4. Proofs

Every theorem holds for all values of the constants that the named ASSUMEs of its module allow, and an invariant has a
strengthening that is inductive. Further assumptions are hypotheses of the theorem; those of `Control` and `Session` name hosts and
environments that a violated run, or the section above, shows to break the property. Every safety property of the passing runs is
stated by one.

**Session** (`SessionProofs`, `SessionEndProofs`, `SessionRefinesProofs`)

* `TypeCorrect` (`TypeOK`). `TypeOK` is not inductive alone: start's steps index arrays with `starts`,
  so `TInv` adds that a start in progress has a generation.
* `ExitsAreBounded` (`ExitsBounded`) and, with one start, `OneStartOneExit` (`OnceEach`). `alive` is raised by the last of four steps of
  `start()`, so `Counted` grants the right to one more announcement from the moment the test of
  `alive` is passed. The point of the argument is `SwapAndTell`: whoever finds the flag up takes
  it down in the same step.
* `PtyOutlivesItsUsers` (`PtyOutlivesUsers`). `ArcInv` has five parts: a closing console has
  no holders; a thread that may still use it holds its Arc; so does the session's slot; the order in
  which `start()` creates, clones and stores (before the watcher is spawned its Arc exists already); and
  that a drop in progress has a dropper. Steps that touch none of it are dealt with by one lemma (`QuietKeeps`).
* `SilentAfterFree` (`NoCallbackAfterFree`) and `NothingRunsOn` (`ReapedWhenFreed`), for `MaxStarts = 1` and no `"early"` destroy. On top of `ArcInv`,
  `Places` says what each place of `start()` and `Drop` leaves behind (a thread that runs has its handle in a slot, and what
  `Drop` has joined has ended), `Held` that whatever is open has a holder: an open console an Arc, an Arc a thread or slot on its
  way to release it, a running child an open console.
* `LastFrameWhole` (`LastFrameComplete`). `Flow` is conservation: what the console emitted is what was fed plus what is in the channel, in
  the reader's or pump's hand and in the pipe, and an `Eof` is the last message. It holds until `Drop` has cleared the callback table, after
  which its synthetic `Eof` may overtake data, and no frame is delivered any more (`ClearedFirst`).
* `ExitCodesTrue` (`ExitCodeTrue`), unless `EofBeforeSignal`. A console that closed while a thread held its Arc was closed by
  conhost's own leaving, so its child has ended; `ToldOnce` ties every end that was told to a start whose pty exists.
* `ContractKept` (`KeepsContract`), for `MaxStarts = 1` and no `"early"` destroy. `RefInv` puts together what the invariants above know of the
  contract's five variables: `Counted` allows one end to be told, `FrameInv` and `ToldOnce` say that a thread enters a closure
  only while it is in its slot, and `DropInv` that the step that frees comes after the slots are empty and both threads out of the host.
  Then there is one step per action of `Session`: it is a call, an entry, a return, a telling, a silencing or a freeing of the contract, or leaves
  all five alone.

**Control** (`ControlProofs`)

* `Typed` (`TypeOK`) and `MailAnnounced` (`FrameAnnounced`). `Ordered` bounds the sessions that messages, frames and callbacks
  name, and orders the steps of Stop; with it each callback's store and post keep the mailbox announced.
* `LeavesNothing` (`NothingLeftBehind`), for a host without `"startAgain"`. `Single`: a session other than the current one is gone, since each
  Start follows a Stop that ended or a control that never had one.
* `ActiveTrue` (`ActiveTells`), for a host with neither `"startAgain"` nor `"restart"` of its own; a restart in OnExit is covered. `OneEnd`: a session
  tells its end once, so an exit message on its way is the only one and that of the current session, and when the next
  session is made none is left.
* `EachKeepsContract` (`UsesContract`), for every host and no hypothesis on the constants. Each session of the control is an instance of the contract, and
  every step of the control one of each of its sessions: `Stopping` says that a session is being destroyed only while the UI thread is in that call on the one
  in `FSession`, with its callbacks withdrawn before the join, `NewQuiet` that a session that was not started has no threads. With `ContractKept`, what the control
  takes for granted of a session is what a session's threads are proved to do.

**View** (`ViewProofs`)

* `Typed` (`TypeOK`), `CopyTrue` (`InfoTrue`): inductive as it stands once the types are known.
* `DragsEnd` (`DragEnds`), for every shell and mouse. `OneDrag`: a drag no report has crossed is one drag, of a left button that is down
  and has the mouse captured, so its release must reach the control.
* `PressesPaired` (`ButtonsPaired`), for every shell and mouse. `OnePress`: a button that is not `loose` is down alone, and reported only while
  it is down and has the mouse captured.

**Terminal** (`TerminalProofs`)

* `Typed` (`TypeOK`), `FrameTrue` (`FrameCurrent`), for every size of screen and scrollback and every output. `LinksSound` (an id's URI
  has that id) is what lets an old entry of the table stand for a new link; whatever changes lines, cursor or
  viewport owes a render; and `Order` says which frames can still come: once the newest has been delivered, every other one
  under way is late, and its delivery makes the screen `stale`.
* `SearchesTrue` (`SearchTrue`), for texts of one column and of more. `RoundOK`: what a round has found is exactly what no longer lies ahead of
  its place, so the first hit ahead is new, and a miss leaves none out; but for a narrow text whose place is pinned to the topmost
  cell (`Pinned`), where the same hit stays ahead.
* `Patched` (`PatchedTrue`), for every size of screen and every order of delivery. `RectsExact`: for any two screens the rectangles are in order,
  apart, and over the rows that differ and no others. `PatchInv`: the cells a snapshot is compared with are those of the newest snapshot, and
  where the host does not show these, they are in the rectangles of a frame still under way or the row is `overlaid`.

**Osc7** (`Osc7Proofs`)

* `Typed` (`TypeOK`), `Correct` (`CwdTrue`), for every limit and every output. `Sound`: the place of the scanner tells the last bytes seen (an
  introducer, then `buf`), so a report comes of a whole sequence. `Alert`: every clean beginning is followed by the scanner to its
  end, so none is missed.
* `DecodesEncoded` and `UrlRead`: `percent_decode` undoes every encoding of a path, whichever bytes are escaped, and
  what `handle_osc7_url` makes of a URL is what it `Says`, for URLs of any length.
* `Announced` (`PathTrue`), for every limit, output and way to write a path. `ToldInv`: an announcement stands in the output where the history says. Two
  whole sequences with one end are the same (`OneBegin`), so `CwdTrue` names that announcement, and `UrlRead` its directory.
* `Whole` (`ReadsWhole`). `ReadInv`: the length the control was told is the length still, unless something was reported since; the directory is a
  sequence of octets whatever the URL (`Decoded`).

**PtyHost** (`PtyHostProofs`)

* `Typed` (`TypeOK`), `ClosesOnce` (`ClosesItsOwn`), and `Clean` (`LeaksBounded`), whichever call fails: what stays open is what
  `LeftOpen` says, no more and no less. `Ledger`: what is open follows from the place in `spawn` or `Drop`, from the call that failed and from the threads.
* `WholeTree` (`TreeInJob`), for trees of every size. `Tree`: until the shell is in the job whatever else runs is `early`, and from then on
  whatever runs is in it or comes of those; nothing `early` ever gets into it.

`percent_decode` and the joining of rectangles are recursive functions over data. The prover has no induction for them, but the library has that
every set of natural numbers has a least element (`Least`): a function that solves the recursion exists, and a claim about it holds
everywhere, because there is no first place where it fails (`DecodeExists`, `RectsExist`, and the lemmas after them).

Only model-checked is what rests on fairness and ENABLED, which the prover does not reach: `DestroyReturns`, `ExitTold`, `OutputShown`,
`CallsReturn`, `ExitHeard`, `ScreenFollows`, `TitleFollows`, `TreeEnds`, `ReaderReleased`, and the absence of deadlock.

## 5. Not modelled

* Resize: options not updated, a size of 1, a failed ResizePseudoConsole that leaves terminal and console with different sizes, sizes above
  32767 that wrap to a negative i16. Nothing in the repository says what Windows answers to a refused size.
* The contents of a row (columns, wide characters, combining marks, SGR): alacritty_terminal is taken for granted. Texts of selections,
  word and line selection, VI motions, conversion of colours and flags.
* Key tables, IME composition, the bytes of mouse reports. In UTF-8 mouse mode the code computes a release code and sends the press code
  (`Ctrl.pas` 2076-2081).
* Clipboard contents. The OSC 52 callback, which touches the clipboard from the pump, is listed as a hazard.
* Painting, fonts, DLL loading, logging, registration, build: no state that the rest depends on.
* Null checks, UTF-16 conversion and `catch_unwind` of the C interface, around calls that are modelled.

## 6. Plan

Done: `Session` with its contract and refinement, `Control`, `View`, `PtyHost`, `Terminal`, `Osc7`, and the proof of every safety
property of the passing runs. Left, most important first:

1. Resize, in `Session` and `Control`: the sizes of terminal, console and frame agree when all is quiet.
2. The safety half of what is only model-checked: in every place where a thread of `Session` waits, the one it waits for can go on,
   but for the two hangs of a full channel.
3. A run of its own for a second `start()` followed by a destroy, with the pump and the watcher that nobody joins.
4. Mouse and key reports against the tables of xterm, over all short inputs.
