------------------------------- MODULE Control -------------------------------
(***************************************************************************)
(* TSCRataShell, the VCL control that owns a session: Start, Stop, Restart *)
(* and the destructor on the UI thread, the callbacks that the session's   *)
(* pump and watcher make into the control, and what lies between them: a   *)
(* one-frame mailbox, a pending title and the window's message queue.      *)
(*                                                                         *)
(* A session is what SessionContract promises of it.  Every Start creates  *)
(* a new one; sessions are numbered in that order.  A frame is known by    *)
(* its session and by the version of the terminal it shows.                *)
(***************************************************************************)
EXTENDS Integers, Sequences, FiniteSets

CONSTANTS
  MaxSessions,  \* bound: sessions created
  MaxChanges,   \* bound: rounds of the pumps and scrolls by the host
  Titles,       \* what a shell may set as its title: a "new" one, "empty"
  HostCalls,    \* what the host does between messages; "start" is a Start
                \* while active, or with no session and no message left,
                \* "startAgain" and "restart" come at any time
  OnExitCalls   \* what the host's OnExit handler does

ASSUME ControlBounds == /\ MaxSessions \in Nat \ {0}
                        /\ MaxChanges \in Nat \ {0}
ASSUME HostAssumption ==
  /\ HostCalls \subseteq {"start", "startAgain", "stop", "restart", "window",
                    "free", "scroll"}
  /\ Titles \subseteq {"new", "empty"}
  /\ OnExitCalls \subseteq {"none", "restart"}

Sessions == 1..MaxSessions
NoFrame  == [sess |-> 0, ver |-> 0]
Frames   == [sess : 0..MaxSessions, ver : Nat]
AnyTitle == 0..MaxChanges   \* numbered as they are set; 0 is the empty one
Unset    == -1              \* the shell has not set a title

VARIABLES
  \* the control; only the UI thread uses these
  life,     \* "alive", "freed"
  handle,   \* HandleAllocated
  session,  \* FSession, 0 for nil
  active,   \* FActive
  title,    \* FTitle
  painted,  \* frame in the painter's bitmap
  ui,       \* the UI thread's place
  next,     \* what follows a Stop: Start, the window's or the control's end
  uiSnap,   \* frame of a request_render made by the UI thread
  \* shared with the callbacks
  pend,      \* FPendingEvent, under FRenderLock
  newest,    \* history: the latest version stored there, of each session
  pendTitle, \* FPendingTitle, under FTitleLock
  queue,     \* messages posted to the window
  \* the sessions
  made,      \* sessions created
  phase, cbs, told,  \* see SessionContract
  shell,     \* "none", "running", "ended"
  pump, watcher,     \* places of the two threads that call the control
  ver,       \* version of the terminal
  snap,      \* version the pump's frame shows
  shTitle,   \* the title the shell set last
  changes,           \* rounds and scrolls so far
  heard      \* sessions whose end OnExit was called for

sessVars == <<made, phase, cbs, told, shell, pump, watcher, ver, snap, shTitle,
              changes>>
ctlVars  == <<life, handle, session, active, title, painted, ui, next, uiSnap,
              heard>>
boxVars  == <<pend, newest, pendTitle, queue>>
vars     == <<ctlVars, boxVars, sessVars>>

UiSteps == {"idle", "start", "starting", "silence", "terminate", "destroy",
            "clear", "join", "rerender", "renderCb", "renderPost"}
PumpSteps == {"none", "run", "titleCb", "titlePost", "parsed", "renderCb",
              "renderPost", "exitCb", "done"}
PumpInHost == {"titleCb", "titlePost", "renderCb", "renderPost", "exitCb"}
Messages == [kind : {"render", "title", "exit"}, sess : Sessions]

TypeOK ==
  /\ life \in {"alive", "freed"} /\ handle \in BOOLEAN
  /\ session \in 0..MaxSessions /\ active \in BOOLEAN /\ title \in AnyTitle
  /\ painted \in Frames /\ pend \in Frames /\ uiSnap \in Frames
  /\ ui \in UiSteps /\ next \in {"idle", "start", "window", "free", "failed"}
  /\ changes \in 0..MaxChanges
  /\ newest \in [Sessions -> Nat] /\ pendTitle \in AnyTitle
  /\ queue \in Seq(Messages) /\ made \in 0..MaxSessions
  /\ phase \in [Sessions -> {"new", "started", "closing", "freed"}]
  /\ cbs \in [Sessions -> BOOLEAN] /\ told \in [Sessions -> BOOLEAN]
  /\ shell \in [Sessions -> {"none", "running", "ended"}]
  /\ pump \in [Sessions -> PumpSteps]
  /\ watcher \in [Sessions -> {"none", "run", "exitCb", "done"}]
  /\ ver \in [Sessions -> Nat] /\ snap \in [Sessions -> Nat]
  /\ shTitle \in [Sessions -> AnyTitle \cup {Unset}] /\ heard \subseteq Sessions
  \* FSession is nil or a session that exists
  /\ session <= made /\ (session # 0 => phase[session] # "freed")

Init ==
  /\ life = "alive" /\ handle = FALSE /\ session = 0 /\ active = FALSE
  /\ title = 0 /\ painted = NoFrame /\ ui = "idle" /\ next = "idle"
  /\ uiSnap = NoFrame /\ changes = 0
  /\ pend = NoFrame /\ newest = [s \in Sessions |-> 0]
  /\ pendTitle = 0 /\ queue = <<>>
  /\ made = 0
  /\ phase = [s \in Sessions |-> "new"] /\ cbs = [s \in Sessions |-> TRUE]
  /\ told = [s \in Sessions |-> FALSE]
  /\ shell = [s \in Sessions |-> "none"]
  /\ pump = [s \in Sessions |-> "none"]
  /\ watcher = [s \in Sessions |-> "none"]
  /\ ver = [s \in Sessions |-> 0] /\ snap = [s \in Sessions |-> 0]
  /\ shTitle = [s \in Sessions |-> Unset] /\ heard = {}

-----------------------------------------------------------------------------
(* What the callbacks do in the control.                                   *)

(* Mutant: nothing is posted while another message waits.                  *)
Posted_IfEmpty(kind, s) ==
  queue' = IF handle /\ queue = <<>>
           THEN Append(queue, [kind |-> kind, sess |-> s]) ELSE queue

(* if HandleAllocated then PostMessage(Handle, ...).                       *)
Posted(kind, s) ==
  queue' = IF handle THEN Append(queue, [kind |-> kind, sess |-> s]) ELSE queue

(* Mutant: only the first frame that waits is kept.                        *)
Stored_Keep(s, v) ==
  IF pend = NoFrame
  THEN /\ pend' = [sess |-> s, ver |-> v]
       /\ newest' = [newest EXCEPT ![s] = IF v > @ THEN v ELSE @]
  ELSE UNCHANGED <<pend, newest>>

(* StoreRenderEvent: a frame that was not painted yet is overwritten,      *)
(* by an older one too.                                                    *)
Stored(s, v) == /\ pend' = [sess |-> s, ver |-> v]
                /\ newest' = [newest EXCEPT ![s] = IF v > @ THEN v ELSE @]

(* Mutant: the title is kept while the one before it waits to be read.     *)
TitleStored_IfRead(s) ==
  pendTitle' = IF pendTitle = title THEN shTitle[s] ELSE pendTitle

(* FPendingTitle takes the title the shell set.                            *)
TitleStored(s) == pendTitle' = shTitle[s]

(* Mutant: SendMessage, which waits for the UI thread's message loop.      *)
MayPost_Send == ui = "idle"

(* PostMessage does not wait.                                              *)
MayPost == TRUE

-----------------------------------------------------------------------------
(* The session's pump and watcher.                                         *)

Works(s) == phase[s] \in {"started", "closing"}

PumpGoes(s, from, to) ==
  /\ Works(s) /\ pump[s] = from
  /\ pump' = [pump EXCEPT ![s] = to]
  /\ UNCHANGED <<ctlVars, made, phase, cbs, shell, watcher>>

(* The next title that no shell has set yet.                               *)
IsNext(n) == /\ n > 0 /\ \A s \in Sessions : shTitle[s] < n
             /\ n = 1 \/ \E s \in Sessions : shTitle[s] = n - 1

(* A round of the pump: output is parsed; the shell may have set a title.  *)
(* RataTitleProc returns at once when the title is empty.                  *)
PumpParses(s) ==
  /\ changes < MaxChanges /\ changes' = changes + 1
  /\ ver' = [ver EXCEPT ![s] = @ + 1]
  /\ \/ PumpGoes(s, "run", "parsed") /\ UNCHANGED shTitle
     \/ \E t \in Titles, n \in AnyTitle :
          /\ IF t = "new" THEN IsNext(n) ELSE n = 0
          /\ shTitle' = [shTitle EXCEPT ![s] = n]
          /\ PumpGoes(s, "run", IF cbs[s] /\ n # 0 THEN "titleCb"
                                ELSE "parsed")
  /\ UNCHANGED <<boxVars, told, snap>>

(* RataTitleProc: FPendingTitle under its lock, then the message.          *)
PumpTitle(s) ==
  /\ \/ /\ PumpGoes(s, "titleCb", "titlePost")
        /\ TitleStored(s)
        /\ UNCHANGED queue
     \/ /\ MayPost
        /\ PumpGoes(s, "titlePost", "parsed")
        /\ Posted("title", s)
        /\ UNCHANGED pendTitle
  /\ UNCHANGED <<pend, newest, told, ver, snap, shTitle, changes>>

(* The snapshot under the lock of the terminal, then RataRenderProc with   *)
(* no lock held: StoreRenderEvent and the message.  The UI thread may take *)
(* and store a later frame in between.                                     *)
PumpRenders(s) ==
  /\ \/ /\ PumpGoes(s, "parsed", IF cbs[s] THEN "renderCb" ELSE "run")
        /\ snap' = [snap EXCEPT ![s] = ver[s]]
        /\ UNCHANGED <<pend, newest, queue>>
     \/ /\ PumpGoes(s, "renderCb", "renderPost")
        /\ Stored(s, snap[s])
        /\ UNCHANGED <<snap, queue>>
     \/ /\ MayPost
        /\ PumpGoes(s, "renderPost", "run")
        /\ Posted("render", s)
        /\ snap' = [snap EXCEPT ![s] = 0]
        /\ UNCHANGED <<pend, newest>>
  /\ UNCHANGED <<pendTitle, told, ver, shTitle, changes>>

(* on_exit on the pump, after EOF; RataExitProc posts the code.            *)
PumpTells(s) ==
  /\ \/ /\ shell[s] = "ended"
        /\ PumpGoes(s, "run", IF told[s] \/ ~cbs[s] THEN "done" ELSE "exitCb")
        /\ told' = [told EXCEPT ![s] = @ \/ cbs[s]]
        /\ UNCHANGED queue
     \/ /\ MayPost
        /\ PumpGoes(s, "exitCb", "done")
        /\ Posted("exit", s)
        /\ UNCHANGED told
  /\ UNCHANGED <<pend, newest, pendTitle, ver, snap, shTitle, changes>>

(* on_exit on the watcher; the pump may still be rendering.                *)
WatcherTells(s) ==
  /\ Works(s)
  /\ \/ /\ watcher[s] = "run" /\ shell[s] = "ended"
        /\ watcher' = [watcher EXCEPT ![s] = IF told[s] \/ ~cbs[s]
                                             THEN "done" ELSE "exitCb"]
        /\ told' = [told EXCEPT ![s] = @ \/ cbs[s]]
        /\ UNCHANGED queue
     \/ /\ watcher[s] = "exitCb" /\ MayPost
        /\ watcher' = [watcher EXCEPT ![s] = "done"]
        /\ Posted("exit", s)
        /\ UNCHANGED told
  /\ UNCHANGED <<ctlVars, pend, newest, pendTitle, made, phase, cbs, shell,
                 pump, ver, snap, shTitle, changes>>

ShellEnds(s) ==
  /\ shell[s] = "running"
  /\ shell' = [shell EXCEPT ![s] = "ended"]
  /\ UNCHANGED <<ctlVars, boxVars, made, phase, cbs, told, pump, watcher, ver,
                 snap, shTitle, changes>>

-----------------------------------------------------------------------------
(* Start, Stop and their callers, on the UI thread.                        *)

UiGoes(from, to) == life = "alive" /\ ui = from /\ ui' = to

(* Start (and SetActive True): HandleNeeded, create, set_callbacks, start. *)
(* FSession is overwritten whatever it was.                                *)
StartSession ==
  \/ active /\ UiGoes("start", "idle")
     /\ UNCHANGED <<handle, session, active, title, life, painted, next,
                    uiSnap, heard, boxVars, sessVars>>
  \/ /\ ~active
     /\ made' = made + 1
     /\ session' = made' /\ handle' = TRUE
     /\ \/ /\ UiGoes("start", "starting")
           /\ phase' = [phase EXCEPT ![made'] = "started"]
           /\ shell' = [shell EXCEPT ![made'] = "running"]
           /\ pump' = [pump EXCEPT ![made'] = "run"]
           /\ watcher' = [watcher EXCEPT ![made'] = "run"]
           /\ UNCHANGED next
        \/ /\ UiGoes("start", "destroy")
           /\ next' = "failed"
           /\ UNCHANGED <<phase, shell, pump, watcher>>
     /\ UNCHANGED <<life, active, title, painted, uiSnap, heard,
                    boxVars, cbs, told, ver, snap, shTitle,
                    changes>>

(* Mutant: FActive is not set.                                             *)
Started_NotActive == active' = active
Started == active' = TRUE

StartReturns ==
  /\ UiGoes("starting", "idle")
  /\ Started
  /\ UNCHANGED <<life, handle, session, title, painted, next, uiSnap, heard,
                 boxVars, sessVars>>

(* What a Stop is followed by: nothing, the Start of a Restart, the end of *)
(* the window (with its messages) or of the control.                       *)
Then(what) ==
  /\ ui' = IF what = "start" THEN "start" ELSE "idle"
  /\ handle' = (handle /\ what \notin {"window", "free"})
  /\ queue' = IF what \in {"window", "free"} THEN <<>> ELSE queue
  /\ life' = IF what = "free" THEN "freed" ELSE life
  /\ next' = "idle"

(* Stop: with no session it only clears FActive.                           *)
StopWith(what) ==
  \/ /\ session # 0
     /\ ui' = "silence" /\ next' = what
     /\ UNCHANGED <<life, handle, session, active, title, painted, uiSnap,
                    queue>>
  \/ /\ session = 0
     /\ active' = FALSE
     /\ Then(what)
     /\ UNCHANGED <<session, title, painted, uiSnap>>

StopStep(from, to) ==
  /\ UiGoes(from, to)
  /\ UNCHANGED <<life, handle, session, active, title, painted, next, uiSnap,
                 heard, boxVars, made, told, pump, watcher, ver, snap,
                 shTitle, changes>>

StopSilences ==
  /\ StopStep("silence", "terminate")
  /\ cbs' = [cbs EXCEPT ![session] = FALSE]
  /\ UNCHANGED <<phase, shell>>

StopTerminates ==
  /\ StopStep("terminate", "destroy")
  /\ shell' = [shell EXCEPT ![session] = "ended"]
  /\ UNCHANGED <<phase, cbs>>

(* rata_session_destroy: see SessionContract.                              *)
StopDestroys ==
  \/ /\ StopStep("destroy", "clear")
     /\ phase' = [phase EXCEPT ![session] = "closing"]
     /\ UNCHANGED <<cbs, shell>>
  \/ /\ StopStep("clear", "join")
     /\ cbs' = [cbs EXCEPT ![session] = FALSE]
     /\ UNCHANGED <<phase, shell>>

(* Mutant: destroy returns at once.                                        *)
Joined_AtOnce(s) == TRUE

(* No thread of the session is in the control any more.                    *)
Joined(s) == pump[s] \notin PumpInHost /\ watcher[s] # "exitCb"

(* The threads have ended, one that is in the control excepted, and what   *)
(* they worked on is gone.                                                 *)
Over(s) == /\ pump' = [pump EXCEPT ![s] = IF @ \in PumpInHost THEN @ ELSE "done"]
           /\ watcher' = [watcher EXCEPT ![s] = IF @ = "exitCb" THEN @ ELSE "done"]
           /\ ver' = [ver EXCEPT ![s] = 0] /\ snap' = [snap EXCEPT ![s] = 0]
           /\ newest' = [newest EXCEPT ![s] = 0]
           /\ shTitle' = [shTitle EXCEPT ![s] = Unset]

(* Mutant: FSession keeps the address of the session that is gone.         *)
Forgotten_NotNil == active' = FALSE /\ UNCHANGED session

Forgotten == session' = 0 /\ active' = FALSE

StopReturns ==
  /\ life = "alive" /\ ui = "join"
  /\ Joined(session)
  /\ phase' = [phase EXCEPT ![session] = "freed"]
  /\ shell' = [shell EXCEPT ![session] = "ended"]
  /\ Over(session)
  /\ Forgotten
  /\ Then(next)
  /\ UNCHANGED <<title, painted, uiSnap, heard, pend, pendTitle, made,
                 cbs, told, changes>>

MayStart == made < MaxSessions

(* What the host may call between messages; Free is the destructor, window *)
(* is DestroyWindowHandle.                                                 *)
HostCall ==
  /\ life = "alive" /\ ui = "idle"
  /\ \/ /\ \/ "start" \in HostCalls /\ active
           \/ "start" \in HostCalls /\ session = 0 /\ queue = <<>>
           \/ "startAgain" \in HostCalls
        /\ MayStart
        /\ ui' = "start"
        /\ UNCHANGED <<life, handle, session, active, title, painted, next,
                       uiSnap, queue>>
     \/ "stop" \in HostCalls /\ StopWith("idle")
     \/ "restart" \in HostCalls /\ MayStart /\ StopWith("start")
     \/ "window" \in HostCalls /\ handle /\ StopWith("window")
     \/ "free" \in HostCalls /\ StopWith("free")
  /\ UNCHANGED <<heard, pend, newest, pendTitle, sessVars>>

-----------------------------------------------------------------------------
(* Rendering on the UI thread's own call, and the message loop.            *)

(* scroll, scroll_to_bottom, selection_*: the terminal changes, and        *)
(* request_render takes a frame and calls on_render on this thread.        *)
HostScrolls ==
  /\ UiGoes("idle", "rerender")
  /\ session # 0 /\ phase[session] = "started" /\ "scroll" \in HostCalls
  /\ changes < MaxChanges /\ changes' = changes + 1
  /\ ver' = [ver EXCEPT ![session] = @ + 1]
  /\ UNCHANGED <<life, handle, session, active, title, painted, next, uiSnap,
                 heard, boxVars, made, phase, cbs, told, shell, pump, watcher,
                 snap, shTitle>>

HostRenders ==
  /\ \/ /\ UiGoes("rerender", "renderCb")
        /\ uiSnap' = [sess |-> session, ver |-> ver[session]]
        /\ UNCHANGED <<pend, newest, queue>>
     \/ /\ UiGoes("renderCb", "renderPost")
        /\ Stored(uiSnap.sess, uiSnap.ver)
        /\ UNCHANGED <<uiSnap, queue>>
     \/ /\ UiGoes("renderPost", "idle")
        /\ Posted("render", uiSnap.sess)
        /\ uiSnap' = NoFrame
        /\ UNCHANGED <<pend, newest>>
  /\ UNCHANGED <<life, handle, session, active, title, painted, next, heard,
                 pendTitle, sessVars>>

Message(kind) ==
  /\ life = "alive" /\ ui = "idle"
  /\ queue # <<>> /\ Head(queue).kind = kind

(* WMRataRender: ConsumePendingEvent, then the frame is painted.           *)
HandleRender ==
  /\ Message("render")
  /\ queue' = Tail(queue)
  /\ painted' = IF pend = NoFrame THEN painted ELSE pend
  /\ pend' = NoFrame
  /\ UNCHANGED <<life, handle, session, active, title, ui, next, uiSnap,
                 heard, newest, pendTitle, sessVars>>

HandleTitle ==
  /\ Message("title")
  /\ queue' = Tail(queue)
  /\ title' = pendTitle
  /\ UNCHANGED <<life, handle, session, active, painted, ui, next, uiSnap,
                 heard, pend, newest, pendTitle, sessVars>>

(* WMRataExit, up to the call of the host's handler.                       *)
HandleExit ==
  /\ Message("exit")
  /\ queue' = Tail(queue)
  /\ active' = FALSE
  /\ heard' = heard \cup {Head(queue).sess}
  /\ \/ "none" \in OnExitCalls /\ ui' = "idle" /\ UNCHANGED next
     \/ /\ session # 0
        /\ "restart" \in OnExitCalls /\ MayStart
        /\ ui' = "silence" /\ next' = "start"
     \/ /\ session = 0
        /\ "restart" \in OnExitCalls /\ MayStart
        /\ ui' = "start" /\ UNCHANGED next
  /\ UNCHANGED <<life, handle, session, title, painted, uiSnap, pend, newest,
                 pendTitle, sessVars>>

-----------------------------------------------------------------------------

UiStep == \/ StartSession \/ StartReturns \/ StopSilences \/ StopTerminates
          \/ StopDestroys \/ StopReturns \/ HostRenders

Dispatch == HandleRender \/ HandleTitle \/ HandleExit

PumpStep(s) == PumpTitle(s) \/ PumpRenders(s) \/ PumpTells(s)

Next == \/ UiStep \/ Dispatch \/ HostCall \/ HostScrolls
        \/ \E s \in Sessions : \/ PumpParses(s) \/ PumpStep(s)
                               \/ WatcherTells(s) \/ ShellEnds(s)

(* The UI thread goes on; its message loop takes posted messages before    *)
(* the input that makes a host call again and again; the session's threads *)
(* are scheduled.  No shell has to write or to end, no host has to call.   *)
Fairness == /\ WF_vars(UiStep) /\ SF_vars(Dispatch)
            /\ \A s \in Sessions : /\ WF_vars(PumpStep(s))
                                   /\ WF_vars(WatcherTells(s))

Spec == Init /\ [][Next]_vars
FairSpec == Spec /\ Fairness

-----------------------------------------------------------------------------
(* Properties.                                                             *)

(* A frame in the mailbox has a message on its way: the callbacks store    *)
(* first and post after, and one message takes what several stored         *)
(* (Ctrl.pas 263-272, 827-848).  The window must not have changed.         *)
FrameAnnounced ==
  handle /\ session # 0 /\ pend.sess = session =>
    \/ \E i \in DOMAIN queue : queue[i].kind = "render"
    \/ ui = "renderPost"
    \/ pump[pend.sess] = "renderPost"

(* A freed control leaves no session and no thread that may call it        *)
(* (Ctrl.pas 385-390, NFR-002).                                            *)
NothingLeftBehind ==
  life = "freed" =>
    \A s \in 1..made : /\ phase[s] = "freed"
                       /\ pump[s] \notin PumpInHost /\ watcher[s] # "exitCb"

(* FActive is down only when there is no shell, or none that runs          *)
(* (DEVELOPER_GUIDE 102): SetActive and Start rely on it.                  *)
ActiveTells ==
  ui = "idle" /\ session # 0 /\ ~active => shell[session] = "ended"

(* Start, Stop, Restart and the destructor return: nothing they join waits *)
(* for the UI thread.                                                      *)
CallsReturn == (ui # "idle") ~> (ui = "idle")

(* The end a session announces reaches OnExit, unless it is stopped first  *)
(* (Ctrl.pas 273-282, 929-935).                                            *)
Unheard == \E s \in Sessions : told[s] /\ phase[s] = "started" /\ s \notin heard
ExitHeard == Unheard ~> ~Unheard

(* The screen catches up with the terminal of the current session, output  *)
(* and scrolls alike (01-requirements FR-002).                             *)
Behind == /\ session # 0 /\ ver[session] > 0
          /\ painted # [sess |-> session, ver |-> ver[session]]
ScreenCatchesUp == Behind ~> ~Behind

(* Only a frame that overtakes a later one keeps it from doing so: a       *)
(* snapshot is taken under the session's lock and delivered without it     *)
(* (session.rs 240-254, 379-388), and the mailbox keeps what came last.    *)
LastFrame == IF pend # NoFrame THEN pend ELSE painted
Overtaken == LastFrame.sess = session /\ LastFrame.ver < newest[session]
ScreenFollows == Behind ~> (~Behind \/ Overtaken)

(* Title catches up with what the shell last set (DEVELOPER_GUIDE 4.3).    *)
Untitled == /\ session # 0 /\ shTitle[session] # Unset
            /\ title # shTitle[session]
TitleFollows == Untitled ~> ~Untitled

(* Every session is used, and behaves, as SessionContract has it.          *)
CloserOf(s) == IF phase[s] \in {"closing", "freed"} THEN "host" ELSE "none"

InHostOf(s) == {t \in {"pump", "watcher"} :
                  IF t = "pump" THEN pump[s] \in PumpInHost
                  ELSE watcher[s] = "exitCb"}

Contract(s) == INSTANCE SessionContract
                 WITH Threads <- {"pump", "watcher"}, phase <- phase[s],
                      cbs <- cbs[s], told <- told[s],
                      closer <- CloserOf(s), inHost <- InHostOf(s)

UsesContract ==
  /\ \A s \in Sessions : Contract(s)!Init
  /\ [][\A s \in Sessions : Contract(s)!Next \/ UNCHANGED Contract(s)!vars]_vars
=============================================================================
