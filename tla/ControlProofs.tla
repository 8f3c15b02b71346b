----------------------------- MODULE ControlProofs -----------------------------
(***************************************************************************)
(* The control, for every number of sessions, every host and every set of  *)
(* titles: its types, what it leaves behind, the mailbox of frames,        *)
(* FActive and how it uses its sessions.                                   *)
(***************************************************************************)
EXTENDS Control, SequenceTheorems, TLAPS

(* The UI thread's places in a Stop and in a request_render of its own.    *)
StopSteps == {"silence", "terminate", "destroy", "clear", "join"}
UiRendering == {"rerender", "renderCb", "renderPost"}

(* Nothing of session s can call the control any more.                     *)
Gone(s) == phase[s] = "freed" /\ Joined(s)

(* What is true of sessions and of the UI thread beside their types.       *)
Ordered ==
  /\ \A s \in Sessions : s > made => phase[s] = "new"
  /\ life = "freed" => session = 0
  /\ ui \notin {"idle", "start"} => session # 0
  /\ ui = "start" => made < MaxSessions
  /\ next = "start" => ui \in StopSteps /\ made < MaxSessions
  /\ ui \in {"renderCb", "renderPost"} => uiSnap.sess \in 1..made
  /\ pend.sess <= made
  /\ \A s \in Sessions : pump[s] = "titleCb" => shTitle[s] \in AnyTitle

(* A host that does not start again over an old session that has ended     *)
(* leaves one session at most that is not gone.                            *)
Single ==
  /\ \A s \in 1..made : s # session => Gone(s)
  /\ ui = "start" => session = 0 \/ active

LEMMA Numbers ==
  /\ MaxSessions \in Nat /\ MaxChanges \in Nat /\ 1 \in Sessions
  /\ NoFrame \in Frames /\ Sessions \subseteq 1..MaxSessions
BY ControlBounds DEF Sessions, NoFrame, Frames

(* A message that is posted, and one that is taken.                        *)
LEMMA PostedTypes ==
  ASSUME TypeOK, NEW s \in Sessions, NEW kind \in {"render", "title", "exit"},
         Posted(kind, s)
  PROVE  /\ queue' \in Seq(Messages)
         /\ \A i \in DOMAIN queue : i \in DOMAIN queue' /\ queue'[i] = queue[i]
         /\ handle => \E i \in DOMAIN queue' : queue'[i].kind = kind
<1>. DEFINE m == [kind |-> kind, sess |-> s]
<1>1. queue \in Seq(Messages) /\ m \in Messages
  BY DEF TypeOK, Messages
<1>2. CASE handle
  <2>1. queue' = Append(queue, m)
    BY <1>2 DEF Posted
  <2>2. /\ queue' \in Seq(Messages) /\ Len(queue') = Len(queue) + 1
        /\ \A i \in 1..Len(queue) : queue'[i] = queue[i]
        /\ queue'[Len(queue) + 1] = m
    BY <1>1, <2>1, AppendProperties
  <2>3. /\ Len(queue) \in Nat /\ DOMAIN queue = 1..Len(queue)
        /\ DOMAIN queue' = 1..Len(queue')
    BY <1>1, <2>2, LenProperties
  <2>. QED
    BY <2>2, <2>3
<1>3. CASE ~handle
  BY <1>1, <1>3 DEF Posted
<1>. QED
  BY <1>2, <1>3

LEMMA TakenTypes ==
  ASSUME TypeOK, queue # <<>>, queue' = Tail(queue)
  PROVE  /\ queue' \in Seq(Messages) /\ Head(queue) \in Messages
         /\ \A i \in DOMAIN queue :
              queue[i].kind # Head(queue).kind => \E j \in DOMAIN queue' :
                                                    queue'[j] = queue[i]
<1>1. queue \in Seq(Messages)
  BY DEF TypeOK
<1>2. /\ Head(queue) \in Messages /\ Tail(queue) \in Seq(Messages)
      /\ Len(Tail(queue)) = Len(queue) - 1
      /\ \A j \in 1..Len(Tail(queue)) : Tail(queue)[j] = queue[j + 1]
      /\ Head(queue) = queue[1]
  BY <1>1, HeadTailProperties
<1>3. Len(queue) \in Nat /\ DOMAIN queue = 1..Len(queue)
      /\ DOMAIN Tail(queue) = 1..Len(Tail(queue))
  BY <1>1, <1>2, LenProperties
<1>4. ASSUME NEW i \in DOMAIN queue, queue[i].kind # Head(queue).kind
      PROVE  \E j \in DOMAIN Tail(queue) : Tail(queue)[j] = queue[i]
  <2>1. i # 1
    BY <1>2, <1>4
  <2>2. i - 1 \in 1..Len(Tail(queue)) /\ (i - 1) + 1 = i
    BY <1>2, <1>3, <2>1
  <2>3. Tail(queue)[i - 1] = queue[i]
    BY <1>2, <2>2
  <2>. QED
    BY <1>3, <2>2, <2>3
<1>. QED
  BY <1>2, <1>4

LEMMA Begins == Init => TypeOK /\ Ordered /\ Single /\ FrameAnnounced
<1>. SUFFICES ASSUME Init PROVE TypeOK /\ Ordered /\ Single /\ FrameAnnounced
  OBVIOUS
<1>1. /\ handle \in BOOLEAN /\ active \in BOOLEAN
      /\ cbs \in [Sessions -> BOOLEAN] /\ told \in [Sessions -> BOOLEAN]
  BY Zenon DEF Init
<1>2. /\ session \in 0..MaxSessions /\ changes \in 0..MaxChanges
      /\ made \in 0..MaxSessions /\ session <= made
      /\ ver \in [Sessions -> Nat] /\ snap \in [Sessions -> Nat]
      /\ newest \in [Sessions -> Nat]
      /\ painted \in Frames /\ pend \in Frames /\ uiSnap \in Frames
  <2>1. /\ session = 0 /\ changes = 0 /\ made = 0
        /\ painted = NoFrame /\ pend = NoFrame /\ uiSnap = NoFrame
        /\ ver = [s \in Sessions |-> 0] /\ snap = [s \in Sessions |-> 0]
        /\ newest = [s \in Sessions |-> 0]
    BY DEF Init
  <2>2. 0 \in 0..MaxSessions /\ 0 \in 0..MaxChanges
    BY Numbers
  <2>. QED
    BY <2>1, <2>2, Numbers
<1>3. /\ queue \in Seq(Messages) /\ heard \subseteq Sessions
      /\ title \in AnyTitle /\ pendTitle \in AnyTitle
      /\ shTitle \in [Sessions -> AnyTitle \cup {Unset}]
  <2>1. title = 0 /\ pendTitle = 0 /\ shTitle = [s \in Sessions |-> Unset]
    BY DEF Init
  <2>2. 0 \in AnyTitle
    BY Numbers DEF AnyTitle
  <2>. QED
    BY <2>1, <2>2, EmptySeq DEF Init
<1>4. /\ life \in {"alive", "freed"} /\ ui \in UiSteps
      /\ next \in {"idle", "start", "window", "free", "failed"}
      /\ phase \in [Sessions -> {"new", "started", "closing", "freed"}]
      /\ shell \in [Sessions -> {"none", "running", "ended"}]
      /\ pump \in [Sessions -> PumpSteps]
      /\ watcher \in [Sessions -> {"none", "run", "exitCb", "done"}]
  BY DEF Init, UiSteps, PumpSteps
<1>5. TypeOK
  BY <1>1, <1>2, <1>3, <1>4 DEF TypeOK, Init
<1>6. Ordered
  <2>1. /\ ui = "idle" /\ next = "idle" /\ session = 0 /\ made = 0 /\ pend.sess = 0
        /\ \A s \in Sessions : phase[s] = "new" /\ pump[s] = "none"
    BY DEF Init, NoFrame
  <2>. QED
    BY <2>1 DEF Ordered, StopSteps
<1>7. Single
  <2>1. ui = "idle" /\ 1..made = {}
    <3>1. made = 0 /\ ui = "idle"
      BY DEF Init
    <3>2. 1..0 = {}
      OBVIOUS
    <3>. QED
      BY <3>1, <3>2
  <2>. QED
    BY <2>1 DEF Single
<1>8. FrameAnnounced
  BY DEF FrameAnnounced, Init
<1>. QED
  BY <1>5, <1>6, <1>7, <1>8

-----------------------------------------------------------------------------
(* The threads of a session.                                               *)

(* Only the threads of the session the control has can step.               *)
LEMMA WorksHere ==
  ASSUME TypeOK, Ordered, NEW s \in Sessions, Works(s)
  PROVE  /\ s \in 1..made
         /\ Single => s = session
<1>1. s \in Nat /\ made \in Nat /\ s >= 1
  BY Numbers DEF TypeOK, Sessions
<1>2. ~ (s > made)
  BY DEF Ordered, Works
<1>. QED
  BY <1>1, <1>2 DEF Single, Gone, Works

(* A step of a pump changes none of the control's own state.               *)
LEMMA PumpSteps1 ==
  ASSUME TypeOK, NEW s \in Sessions, NEW from \in PumpSteps, NEW to \in PumpSteps,
         PumpGoes(s, from, to)
  PROVE  /\ Works(s) /\ pump[s] = from
         /\ pump' \in [Sessions -> PumpSteps]
         /\ pump'[s] = to /\ \A t \in Sessions : t # s => pump'[t] = pump[t]
         /\ UNCHANGED <<life, handle, session, active, title, painted, ui, next,
                        uiSnap, heard, made, phase, cbs, shell, watcher>>
BY DEF PumpGoes, TypeOK, ctlVars

LEMMA PumpKeeps ==
  ASSUME TypeOK, Ordered, NEW s \in Sessions, NEW from \in PumpSteps,
         NEW to \in PumpSteps, PumpGoes(s, from, to),
         told' \in [Sessions -> BOOLEAN], changes' \in 0..MaxChanges,
         ver' \in [Sessions -> Nat], snap' \in [Sessions -> Nat],
         shTitle' \in [Sessions -> AnyTitle \cup {Unset}],
         \A t \in Sessions : t # s => shTitle'[t] = shTitle[t],
         to = "titleCb" => shTitle'[s] \in AnyTitle,
         newest' \in [Sessions -> Nat],
         pend' \in Frames, pend'.sess <= made, pendTitle' \in AnyTitle,
         queue' \in Seq(Messages)
  PROVE  TypeOK' /\ Ordered' /\ (Single => Single')
<1>1. /\ Works(s) /\ pump' \in [Sessions -> PumpSteps] /\ pump'[s] = to
      /\ \A t \in Sessions : t # s => pump'[t] = pump[t]
      /\ UNCHANGED <<life, handle, session, active, title, painted, ui, next,
                     uiSnap, heard, made, phase, cbs, shell, watcher>>
  BY PumpSteps1
<1>2. TypeOK'
  BY <1>1 DEF TypeOK
<1>3. Ordered'
  BY <1>1 DEF Ordered
<1>4. ASSUME Single PROVE Single'
  <2>1. s = session
    BY <1>1, <1>4, WorksHere
  <2>2. ASSUME NEW t \in 1..made, t # session PROVE Gone(t)'
    <3>1. t \in Sessions
      BY Numbers DEF TypeOK, Sessions
    <3>2. Gone(t) /\ pump'[t] = pump[t] /\ watcher' = watcher /\ phase' = phase
      BY <1>1, <1>4, <2>1, <2>2, <3>1 DEF Single
    <3>. QED
      BY <3>2 DEF Gone, Joined
  <2>. QED
    BY <1>1, <1>4, <2>2 DEF Single
<1>. QED
  BY <1>2, <1>3, <1>4

(* The mailbox stays announced while it is left alone and messages come.   *)
LEMMA BoxKeeps ==
  ASSUME FrameAnnounced, pend' = pend, handle' => handle,
         session' # 0 /\ session' # session => pend.sess # session',
         \A i \in DOMAIN queue : queue[i].kind = "render" =>
           \E j \in DOMAIN queue' : queue'[j].kind = "render",
         ui = "renderPost" => ui' = "renderPost",
         pump[pend.sess] = "renderPost" => pump'[pend.sess] = "renderPost"
  PROVE  FrameAnnounced'
BY DEF FrameAnnounced

LEMMA BoxAnnounced ==
  ASSUME handle' => \E j \in DOMAIN queue' : queue'[j].kind = "render"
  PROVE  FrameAnnounced'
BY DEF FrameAnnounced

(* The sessions' threads keep types, order and mailbox; All' is Single.    *)
Sound == TypeOK /\ Ordered /\ FrameAnnounced

(* What most steps need of the types, and that a call is made on a session.*)
LEMMA Basics ==
  ASSUME Sound
  PROVE  /\ made \in Nat /\ made <= MaxSessions
         /\ phase \in [Sessions -> {"new", "started", "closing", "freed"}]
         /\ cbs \in [Sessions -> BOOLEAN]
         /\ shell \in [Sessions -> {"none", "running", "ended"}]
         /\ pump \in [Sessions -> PumpSteps]
         /\ watcher \in [Sessions -> {"none", "run", "exitCb", "done"}]
         /\ session # 0 => phase[session] # "freed"
         /\ ui \notin {"idle", "start"} => session \in Sessions
         /\ ui \in {"renderCb", "renderPost"} => uiSnap.sess \in Sessions
<1>1. TypeOK /\ Ordered
  BY DEF Sound
<1>2. /\ made \in 0..MaxSessions /\ session \in 0..MaxSessions
      /\ phase \in [Sessions -> {"new", "started", "closing", "freed"}]
      /\ cbs \in [Sessions -> BOOLEAN]
      /\ shell \in [Sessions -> {"none", "running", "ended"}]
      /\ pump \in [Sessions -> PumpSteps]
      /\ watcher \in [Sessions -> {"none", "run", "exitCb", "done"}]
      /\ session # 0 => phase[session] # "freed"
  BY <1>1, Zenon DEF TypeOK
<1>3. /\ ui \notin {"idle", "start"} => session # 0
      /\ ui \in {"renderCb", "renderPost"} => uiSnap.sess \in 1..made
  BY <1>1, Zenon DEF Ordered
<1>. QED
  BY <1>2, <1>3, Numbers DEF Sessions

LEMMA ParsesKeeps ==
  ASSUME Sound, newest' \in [Sessions -> Nat],
         NEW s \in Sessions, PumpParses(s)
  PROVE  Sound' /\ (Single => Single')
<1>1. PICK to \in {"parsed", "titleCb"} : 
        /\ PumpGoes(s, "run", to)
        /\ \/ to = "parsed" /\ shTitle' = shTitle
           \/ \E n \in AnyTitle : shTitle' = [shTitle EXCEPT ![s] = n]
  BY DEF PumpParses
<1>2. /\ changes' \in 0..MaxChanges /\ ver' \in [Sessions -> Nat]
      /\ pend' = pend /\ pendTitle' = pendTitle /\ queue' = queue
      /\ told' = told /\ snap' = snap
  <2>1. changes < MaxChanges /\ changes' = changes + 1 /\ changes \in 0..MaxChanges
    BY DEF PumpParses, Sound, TypeOK
  <2>2. changes' \in 0..MaxChanges
    BY <2>1, Numbers
  <2>3. ver' = [ver EXCEPT ![s] = @ + 1] /\ ver \in [Sessions -> Nat]
    BY DEF PumpParses, Sound, TypeOK
  <2>4. ver' \in [Sessions -> Nat]
    BY <2>3
  <2>. QED
    BY <2>2, <2>4 DEF PumpParses, boxVars
<1>3. /\ shTitle' \in [Sessions -> AnyTitle \cup {Unset}]
      /\ \A t \in Sessions : t # s => shTitle'[t] = shTitle[t]
      /\ to = "titleCb" => shTitle'[s] \in AnyTitle
  <2>2. shTitle \in [Sessions -> AnyTitle \cup {Unset}]
    BY DEF Sound, TypeOK
  <2>. QED
    BY <1>1, <2>2, Zenon
<1>4. to \in PumpSteps /\ "run" \in PumpSteps
  BY DEF PumpSteps
<1>5. TypeOK' /\ Ordered' /\ (Single => Single')
  BY <1>1, <1>2, <1>3, <1>4, PumpKeeps DEF Sound, TypeOK, Ordered
<1>6. /\ \A t \in Sessions : t # s => pump'[t] = pump[t]
      /\ pump[s] = "run" /\ pump' \in [Sessions -> PumpSteps]
      /\ handle' = handle /\ session' = session /\ ui' = ui
  BY <1>1, <1>4, PumpSteps1 DEF Sound
<1>7. FrameAnnounced'
  <2>1. CASE pend.sess \in Sessions
    BY <1>2, <1>6, <2>1, BoxKeeps DEF Sound
  <2>2. CASE pend.sess \notin Sessions
    BY <1>2, <1>6, <2>2 DEF Sound, TypeOK, FrameAnnounced, Sessions
  <2>. QED
    BY <2>1, <2>2
<1>. QED
  BY <1>5, <1>7 DEF Sound

LEMMA TitleKeeps ==
  ASSUME Sound, newest' \in [Sessions -> Nat],
         NEW s \in Sessions, PumpTitle(s)
  PROVE  Sound' /\ (Single => Single')
<1>1. PICK from \in {"titleCb", "titlePost"}, to \in {"titlePost", "parsed"} :
        /\ PumpGoes(s, from, to)
        /\ \/ from = "titleCb" /\ pendTitle' = shTitle[s] /\ UNCHANGED queue
           \/ from = "titlePost" /\ Posted("title", s) /\ UNCHANGED pendTitle
  BY DEF PumpTitle, TitleStored
<1>2. /\ from \in PumpSteps /\ to \in PumpSteps /\ to # "titleCb"
      /\ pend' = pend /\ told' = told /\ ver' = ver /\ snap' = snap
      /\ shTitle' = shTitle /\ changes' = changes
  BY DEF PumpTitle, PumpSteps
<1>3. /\ \A t \in Sessions : t # s => pump'[t] = pump[t]
      /\ pump[s] = from /\ pump' \in [Sessions -> PumpSteps]
      /\ handle' = handle /\ session' = session /\ ui' = ui
  BY <1>1, <1>2, PumpSteps1 DEF Sound
<1>4. pendTitle' \in AnyTitle
  BY <1>1, <1>3 DEF Sound, TypeOK, Ordered
<1>5. /\ queue' \in Seq(Messages)
      /\ \A i \in DOMAIN queue : i \in DOMAIN queue' /\ queue'[i] = queue[i]
  BY <1>1, PostedTypes DEF Sound, TypeOK
<1>6. TypeOK' /\ Ordered' /\ (Single => Single')
  BY <1>1, <1>2, <1>4, <1>5, PumpKeeps DEF Sound, TypeOK, Ordered
<1>7. FrameAnnounced'
  <2>1. CASE pend.sess \in Sessions
    BY <1>1, <1>2, <1>3, <1>5, <2>1, BoxKeeps DEF Sound
  <2>2. CASE pend.sess \notin Sessions
    BY <1>2, <1>3, <2>2 DEF Sound, TypeOK, FrameAnnounced, Sessions
  <2>. QED
    BY <2>1, <2>2
<1>. QED
  BY <1>6, <1>7 DEF Sound

LEMMA RendersKeeps ==
  ASSUME Sound, newest' \in [Sessions -> Nat],
         NEW s \in Sessions, PumpRenders(s)
  PROVE  Sound' /\ (Single => Single')
<1>1. /\ pendTitle' = pendTitle /\ told' = told /\ ver' = ver
      /\ shTitle' = shTitle /\ changes' = changes
  BY DEF PumpRenders
<1>2. CASE \E to \in {"renderCb", "run"} :
             /\ PumpGoes(s, "parsed", to)
             /\ snap' = [snap EXCEPT ![s] = ver[s]]
             /\ UNCHANGED <<pend, newest, queue>>
  <2>1. PICK to \in {"renderCb", "run"} : PumpGoes(s, "parsed", to)
    BY <1>2
  <2>2. /\ to \in PumpSteps /\ "parsed" \in PumpSteps /\ to # "titleCb"
        /\ snap' \in [Sessions -> Nat] /\ pend' = pend /\ queue' = queue
    BY <1>2 DEF PumpSteps, Sound, TypeOK
  <2>3. TypeOK' /\ Ordered' /\ (Single => Single')
    BY <1>1, <2>1, <2>2, PumpKeeps DEF Sound, TypeOK, Ordered
  <2>4. /\ \A t \in Sessions : t # s => pump'[t] = pump[t]
        /\ pump[s] = "parsed"
        /\ handle' = handle /\ session' = session /\ ui' = ui
    BY <2>1, <2>2, PumpSteps1 DEF Sound
  <2>5. FrameAnnounced'
    <3>1. CASE pend.sess \in Sessions
      BY <2>2, <2>4, <3>1, BoxKeeps DEF Sound
    <3>2. CASE pend.sess \notin Sessions
      BY <2>2, <2>4, <3>2 DEF Sound, TypeOK, FrameAnnounced, Sessions
    <3>. QED
      BY <3>1, <3>2
  <2>. QED
    BY <2>3, <2>5 DEF Sound
<1>3. CASE PumpGoes(s, "renderCb", "renderPost") /\ Stored(s, snap[s])
           /\ UNCHANGED <<snap, queue>>
  <2>1. "renderCb" \in PumpSteps /\ "renderPost" \in PumpSteps
    BY DEF PumpSteps
  <2>2. /\ Works(s) /\ pump'[s] = "renderPost"
    BY <1>3, <2>1, PumpSteps1 DEF Sound
  <2>3. s \in 1..made /\ made \in 0..MaxSessions
    BY <2>2, WorksHere DEF Sound, TypeOK
  <2>4. pend' = [sess |-> s, ver |-> snap[s]] /\ snap[s] \in Nat
    BY <1>3 DEF Stored, Sound, TypeOK
  <2>5. pend' \in Frames /\ pend'.sess <= made /\ pend'.sess = s
    BY <2>3, <2>4, Numbers DEF Frames
  <2>6. snap' = snap /\ queue' = queue
    BY <1>3
  <2>7. TypeOK' /\ Ordered' /\ (Single => Single')
    BY <1>1, <1>3, <2>1, <2>5, <2>6, PumpKeeps DEF Sound, TypeOK, Ordered
  <2>8. FrameAnnounced'
    BY <2>2, <2>5 DEF FrameAnnounced
  <2>. QED
    BY <2>7, <2>8 DEF Sound
<1>4. CASE PumpGoes(s, "renderPost", "run") /\ Posted("render", s)
           /\ snap' = [snap EXCEPT ![s] = 0]
           /\ UNCHANGED <<pend, newest>>
  <2>1. "run" \in PumpSteps /\ "renderPost" \in PumpSteps
    BY DEF PumpSteps
  <2>2. /\ queue' \in Seq(Messages)
        /\ handle => \E i \in DOMAIN queue' : queue'[i].kind = "render"
    BY <1>4, PostedTypes DEF Sound
  <2>3. snap' \in [Sessions -> Nat] /\ pend' = pend
    BY <1>4 DEF Sound, TypeOK
  <2>4. TypeOK' /\ Ordered' /\ (Single => Single')
    BY <1>1, <1>4, <2>1, <2>2, <2>3, PumpKeeps DEF Sound, TypeOK, Ordered
  <2>5. handle' = handle
    BY <1>4, <2>1, PumpSteps1 DEF Sound
  <2>. QED
    BY <2>2, <2>4, <2>5, BoxAnnounced DEF Sound
<1>. QED
  BY <1>2, <1>3, <1>4 DEF PumpRenders

LEMMA OldKept ==
  ASSUME NEW b, NEW c \in [Sessions -> BOOLEAN], NEW t \in [Sessions -> BOOLEAN],
         NEW s \in Sessions, b = [t EXCEPT ![s] = @ \/ c[s]]
  PROVE  b \in [Sessions -> BOOLEAN]
<1>1. t[s] \in BOOLEAN /\ c[s] \in BOOLEAN
  OBVIOUS
<1>2. (t[s] \/ c[s]) \in BOOLEAN
  BY <1>1, Zenon
<1>. QED
  BY <1>2

LEMMA TellsKeeps ==
  ASSUME Sound, newest' \in [Sessions -> Nat],
         NEW s \in Sessions, PumpTells(s)
  PROVE  Sound' /\ (Single => Single')
<1>1. /\ pend' = pend /\ pendTitle' = pendTitle /\ ver' = ver /\ snap' = snap
      /\ shTitle' = shTitle /\ changes' = changes
  BY DEF PumpTells
<1>2. PICK from \in {"run", "exitCb"}, to \in {"done", "exitCb"} :
        /\ PumpGoes(s, from, to)
        /\ \/ told' = [told EXCEPT ![s] = @ \/ cbs[s]] /\ queue' = queue
           \/ told' = told /\ Posted("exit", s)
  BY DEF PumpTells
<1>3. told' \in [Sessions -> BOOLEAN]
  BY <1>2, OldKept DEF Sound, TypeOK
<1>4. /\ queue' \in Seq(Messages)
      /\ \A i \in DOMAIN queue : i \in DOMAIN queue' /\ queue'[i] = queue[i]
  <2>1. CASE queue' = queue
    BY <2>1 DEF Sound, TypeOK
  <2>2. CASE Posted("exit", s)
    BY <2>2, PostedTypes DEF Sound
  <2>. QED
    BY <1>2, <2>1, <2>2
<1>5. from \in PumpSteps /\ to \in PumpSteps /\ to # "titleCb" /\ from # "renderPost"
  BY DEF PumpSteps
<1>6. TypeOK' /\ Ordered' /\ (Single => Single')
  BY <1>1, <1>2, <1>3, <1>4, <1>5, PumpKeeps DEF Sound, TypeOK, Ordered
<1>7. /\ \A t \in Sessions : t # s => pump'[t] = pump[t]
      /\ pump[s] = from
      /\ handle' = handle /\ session' = session /\ ui' = ui
  BY <1>2, <1>5, PumpSteps1 DEF Sound
<1>8. FrameAnnounced'
  <2>1. CASE pend.sess \in Sessions
    BY <1>1, <1>4, <1>5, <1>7, <2>1, BoxKeeps DEF Sound
  <2>2. CASE pend.sess \notin Sessions
    BY <1>1, <1>7, <2>2 DEF Sound, TypeOK, FrameAnnounced, Sessions
  <2>. QED
    BY <2>1, <2>2
<1>. QED
  BY <1>6, <1>8 DEF Sound

LEMMA WatcherKeeps ==
  ASSUME Sound, newest' \in [Sessions -> Nat],
         NEW s \in Sessions, WatcherTells(s)
  PROVE  Sound' /\ (Single => Single')
<1>1. /\ pend' = pend /\ pendTitle' = pendTitle /\ made' = made
      /\ phase' = phase /\ cbs' = cbs /\ shell' = shell /\ pump' = pump
      /\ ver' = ver /\ snap' = snap /\ shTitle' = shTitle /\ changes' = changes
      /\ UNCHANGED <<life, handle, session, active, title, painted, ui, next,
                     uiSnap, heard>>
      /\ Works(s)
  BY DEF WatcherTells, ctlVars
<1>2. /\ \E to \in {"done", "exitCb"} : watcher' = [watcher EXCEPT ![s] = to]
      /\ \/ told' = [told EXCEPT ![s] = @ \/ cbs[s]] /\ queue' = queue
         \/ told' = told /\ Posted("exit", s)
  BY DEF WatcherTells
<1>3. told' \in [Sessions -> BOOLEAN]
  BY <1>2, OldKept DEF Sound, TypeOK
<1>4. /\ queue' \in Seq(Messages)
      /\ \A i \in DOMAIN queue : i \in DOMAIN queue' /\ queue'[i] = queue[i]
  <2>1. CASE queue' = queue
    BY <2>1 DEF Sound, TypeOK
  <2>2. CASE Posted("exit", s)
    BY <2>2, PostedTypes DEF Sound
  <2>. QED
    BY <1>2, <2>1, <2>2
<1>5. /\ watcher' \in [Sessions -> {"none", "run", "exitCb", "done"}]
      /\ \A t \in Sessions : t # s => watcher'[t] = watcher[t]
  BY <1>2 DEF Sound, TypeOK
<1>6. TypeOK'
  BY <1>1, <1>3, <1>4, <1>5 DEF Sound, TypeOK
<1>7. Ordered'
  BY <1>1 DEF Sound, Ordered
<1>8. FrameAnnounced'
  BY <1>1, <1>4, BoxKeeps DEF Sound
<1>9. ASSUME Single PROVE Single'
  <2>1. s = session
    BY <1>1, <1>9, WorksHere DEF Sound
  <2>2. ASSUME NEW t \in 1..made, t # session PROVE Gone(t)'
    <3>1. t \in Sessions
      BY Numbers DEF Sound, TypeOK, Sessions
    <3>2. Gone(t) /\ watcher'[t] = watcher[t] /\ pump' = pump /\ phase' = phase
      BY <1>1, <1>5, <1>9, <2>1, <2>2, <3>1 DEF Single
    <3>. QED
      BY <3>2 DEF Gone, Joined
  <2>. QED
    BY <1>1, <1>9, <2>2 DEF Single
<1>. QED
  BY <1>6, <1>7, <1>8, <1>9 DEF Sound

LEMMA ShellKeeps ==
  ASSUME Sound, newest' \in [Sessions -> Nat],
         NEW s \in Sessions, ShellEnds(s)
  PROVE  Sound' /\ (Single => Single')
<1>1. /\ shell' = [shell EXCEPT ![s] = "ended"]
      /\ UNCHANGED <<life, handle, session, active, title, painted, ui, next,
                     uiSnap, heard, pend, pendTitle, queue, made, phase, cbs,
                     told, pump, watcher, ver, snap, shTitle, changes>>
  BY DEF ShellEnds, ctlVars, boxVars
<1>2. TypeOK'
  BY <1>1 DEF Sound, TypeOK
<1>3. Ordered'
  BY <1>1 DEF Sound, Ordered
<1>4. FrameAnnounced'
  BY <1>1 DEF Sound, FrameAnnounced
<1>5. Single => Single'
  BY <1>1 DEF Single, Gone, Joined
<1>. QED
  BY <1>2, <1>3, <1>4, <1>5 DEF Sound

-----------------------------------------------------------------------------
(* The UI thread.                                                          *)

(* A step that leaves sessions, window and mailbox alone.                  *)
LEMMA StopStepKeeps ==
  ASSUME Sound, newest' \in [Sessions -> Nat],
         NEW from \in StopSteps, NEW to \in StopSteps, StopStep(from, to),
         cbs' \in [Sessions -> BOOLEAN],
         phase' \in [Sessions -> {"new", "started", "closing", "freed"}],
         shell' \in [Sessions -> {"none", "running", "ended"}],
         \A s \in Sessions : s # session => phase'[s] = phase[s],
         phase'[session] # "freed"
  PROVE  Sound' /\ (Single => Single')
<1>1. /\ life = "alive" /\ ui = from /\ ui' = to /\ session # 0
      /\ UNCHANGED <<life, handle, session, active, title, painted, next, uiSnap,
                     heard, pend, pendTitle, queue, made, told, pump, watcher,
                     ver, snap, shTitle, changes>>
  BY DEF StopStep, UiGoes, boxVars, Sound, Ordered, StopSteps
<1>2. to \in UiSteps /\ to \notin {"idle", "start", "renderCb", "renderPost"}
      /\ from # "renderPost"
  BY DEF StopSteps, UiSteps
<1>3. TypeOK'
  BY <1>1, <1>2 DEF Sound, TypeOK
<1>4. Ordered'
  <2>1. \A s \in Sessions : s > made => phase'[s] = "new"
    BY <1>1, Numbers DEF Sound, TypeOK, Ordered, Sessions
  <2>. QED
    BY <1>1, <1>2, <2>1 DEF Sound, Ordered
<1>5. FrameAnnounced'
  BY <1>1, <1>2 DEF Sound, FrameAnnounced
<1>6. ASSUME Single PROVE Single'
  <2>1. ASSUME NEW t \in 1..made, t # session PROVE Gone(t)'
    <3>1. t \in Sessions
      BY Numbers DEF Sound, TypeOK, Sessions
    <3>2. Gone(t) /\ watcher' = watcher /\ pump' = pump /\ phase'[t] = phase[t]
      BY <1>1, <1>6, <2>1, <3>1 DEF Single
    <3>. QED
      BY <3>2 DEF Gone, Joined
  <2>. QED
    BY <1>1, <1>2, <2>1 DEF Single
<1>. QED
  BY <1>3, <1>4, <1>5, <1>6 DEF Sound

LEMMA StopsKeep ==
  ASSUME Sound, newest' \in [Sessions -> Nat],
         StopSilences \/ StopTerminates \/ StopDestroys
  PROVE  Sound' /\ (Single => Single')
<1>1. /\ {"silence", "terminate", "destroy", "clear", "join"} = StopSteps
      /\ cbs \in [Sessions -> BOOLEAN] /\ session \in 0..MaxSessions
      /\ phase \in [Sessions -> {"new", "started", "closing", "freed"}]
      /\ shell \in [Sessions -> {"none", "running", "ended"}]
      /\ session # 0 => phase[session] # "freed"
      /\ session # 0 => session \in Sessions
  BY Numbers DEF StopSteps, Sound, TypeOK, Sessions
<1>2. ui \in StopSteps => session # 0
  BY DEF Sound, Ordered, StopSteps
<1>3. CASE StopSilences
  <2>1. StopStep("silence", "terminate") /\ ui = "silence" /\ phase' = phase /\ shell' = shell
        /\ cbs' = [cbs EXCEPT ![session] = FALSE]
    BY <1>3 DEF StopSilences, StopStep, UiGoes
  <2>2. cbs' \in [Sessions -> BOOLEAN]
    BY <1>1, <2>1, Zenon
  <2>. QED
    BY <1>1, <1>2, <2>1, <2>2, StopStepKeeps
<1>4. CASE StopTerminates
  <2>1. StopStep("terminate", "destroy") /\ ui = "terminate" /\ phase' = phase /\ cbs' = cbs
        /\ shell' = [shell EXCEPT ![session] = "ended"]
    BY <1>4 DEF StopTerminates, StopStep, UiGoes
  <2>. QED
    BY <1>1, <1>2, <2>1, StopStepKeeps
<1>5. CASE StopStep("destroy", "clear") /\ phase' = [phase EXCEPT ![session] = "closing"]
           /\ UNCHANGED <<cbs, shell>>
  <2>1. ui = "destroy"
    BY <1>5 DEF StopStep, UiGoes
  <2>. QED
    BY <1>1, <1>2, <1>5, <2>1, StopStepKeeps
<1>6. CASE StopStep("clear", "join") /\ cbs' = [cbs EXCEPT ![session] = FALSE]
           /\ UNCHANGED <<phase, shell>>
  <2>1. ui = "clear"
    BY <1>6 DEF StopStep, UiGoes
  <2>2. cbs' \in [Sessions -> BOOLEAN]
    BY <1>1, <1>6, Zenon
  <2>. QED
    BY <1>1, <1>2, <1>6, <2>1, <2>2, StopStepKeeps
<1>. QED
  BY <1>3, <1>4, <1>5, <1>6 DEF StopDestroys

(* What a Stop is followed by, once the session is gone.                   *)
LEMMA ThenTypes ==
  ASSUME Sound, NEW what \in {"idle", "start", "window", "free", "failed"}, Then(what),
         life = "alive"
  PROVE  /\ ui' \in {"idle", "start"} /\ (ui' = "start" <=> what = "start")
         /\ handle' \in BOOLEAN /\ queue' \in Seq(Messages) /\ next' = "idle"
         /\ life' \in {"alive", "freed"}
<1>1. queue' \in Seq(Messages)
  BY EmptySeq DEF Then, Sound, TypeOK
<1>2. handle' \in BOOLEAN
  BY Zenon DEF Then, Sound, TypeOK
<1>. QED
  BY <1>1, <1>2 DEF Then

LEMMA ReturnsKeeps ==
  ASSUME Sound, newest' \in [Sessions -> Nat],
         StopReturns
  PROVE  Sound' /\ (Single => Single')
<1>1. /\ life = "alive" /\ ui = "join" /\ Joined(session) /\ Over(session)
      /\ phase' = [phase EXCEPT ![session] = "freed"]
      /\ shell' = [shell EXCEPT ![session] = "ended"]
      /\ session' = 0 /\ active' = FALSE /\ Then(next)
      /\ UNCHANGED <<title, painted, uiSnap, heard, pend, pendTitle, made,
                     cbs, told, changes>>
  BY DEF StopReturns, Forgotten
<1>2. session \in 1..made /\ session \in Sessions
  BY <1>1, Numbers DEF Sound, TypeOK, Ordered, Sessions
<1>3. /\ ui' \in {"idle", "start"} /\ (ui' = "start" <=> next = "start")
      /\ handle' \in BOOLEAN /\ queue' \in Seq(Messages) /\ next' = "idle"
      /\ life' \in {"alive", "freed"}
  BY <1>1, ThenTypes DEF Sound, TypeOK
<1>4. /\ pump' \in [Sessions -> PumpSteps] /\ pump'[session] = "done"
      /\ \A t \in Sessions : t # session => pump'[t] = pump[t]
  BY <1>1, <1>2 DEF Over, Joined, Sound, TypeOK, PumpSteps
<1>5. /\ watcher' \in [Sessions -> {"none", "run", "exitCb", "done"}]
      /\ watcher'[session] = "done"
      /\ \A t \in Sessions : t # session => watcher'[t] = watcher[t]
  BY <1>1, <1>2 DEF Over, Joined, Sound, TypeOK
<1>6. ver' \in [Sessions -> Nat] /\ snap' \in [Sessions -> Nat]
  BY <1>1 DEF Over, Sound, TypeOK
<1>7. /\ shTitle' \in [Sessions -> AnyTitle \cup {Unset}]
      /\ \A t \in Sessions : t # session => shTitle'[t] = shTitle[t]
  BY <1>1 DEF Over, Sound, TypeOK
<1>8. /\ phase' \in [Sessions -> {"new", "started", "closing", "freed"}]
      /\ shell' \in [Sessions -> {"none", "running", "ended"}]
      /\ phase'[session] = "freed"
      /\ \A t \in Sessions : t # session => phase'[t] = phase[t]
  BY <1>1, <1>2 DEF Sound, TypeOK
<1>9. session' \in 0..MaxSessions /\ session' <= made' /\ active' \in BOOLEAN
  <2>1. session' \in 0..MaxSessions /\ session' <= made'
    BY <1>1, Numbers DEF Sound, TypeOK
  <2>2. active' \in BOOLEAN
    BY <1>1, Zenon
  <2>. QED
    BY <2>1, <2>2
<1>10. TypeOK'
  BY <1>1, <1>3, <1>4, <1>5, <1>6, <1>7, <1>8, <1>9 DEF Sound, TypeOK, UiSteps
<1>11. Ordered'
  <2>1. \A s \in Sessions : s > made => phase'[s] = "new"
    BY <1>2, <1>8, Numbers DEF Sound, TypeOK, Ordered, Sessions
  <2>2. \A s \in Sessions : pump'[s] = "titleCb" => shTitle'[s] \in AnyTitle
    BY <1>4, <1>7 DEF Sound, Ordered
  <2>3. ui' = "start" => made < MaxSessions
    BY <1>3 DEF Sound, Ordered
  <2>. QED
    BY <1>1, <1>3, <2>1, <2>2, <2>3 DEF Sound, Ordered
<1>12. FrameAnnounced'
  BY <1>1 DEF FrameAnnounced
<1>13. ASSUME Single PROVE Single'
  <2>1. ASSUME NEW t \in 1..made PROVE Gone(t)'
    <3>1. t \in Sessions
      BY Numbers DEF Sound, TypeOK, Sessions
    <3>2. CASE t = session
      BY <1>4, <1>5, <1>8, <3>2 DEF Gone, Joined, PumpInHost
    <3>3. CASE t # session
      <4>1. Gone(t) /\ watcher'[t] = watcher[t] /\ pump'[t] = pump[t]
            /\ phase'[t] = phase[t]
        BY <1>4, <1>5, <1>8, <1>13, <3>1, <3>3 DEF Single
      <4>. QED
        BY <4>1 DEF Gone, Joined
    <3>. QED
      BY <3>2, <3>3
  <2>. QED
    BY <1>1, <2>1 DEF Single
<1>. QED
  BY <1>10, <1>11, <1>12, <1>13 DEF Sound

(* The host's Stop, with a session and without.                            *)
LEMMA StopWithKeeps ==
  ASSUME Sound, newest' \in [Sessions -> Nat],
         NEW what \in {"idle", "start", "window", "free"}, StopWith(what),
         life = "alive", ui = "idle", what = "start" => MayStart,
         UNCHANGED <<heard, pend, newest, pendTitle, sessVars>>
  PROVE  Sound' /\ (Single => Single')
<1>0. UNCHANGED <<made, phase, cbs, told, shell, pump, watcher, ver, snap,
                  shTitle, changes>>
  BY DEF sessVars
<1>1. CASE session # 0
  <2>1. /\ ui' = "silence" /\ next' = what
        /\ UNCHANGED <<life, handle, session, active, title, painted, uiSnap,
                       queue>>
    BY <1>1 DEF StopWith
  <2>2. TypeOK'
    BY <1>0, <2>1 DEF Sound, TypeOK, UiSteps
  <2>3. Ordered'
    BY <1>0, <1>1, <2>1 DEF Sound, Ordered, StopSteps, MayStart
  <2>4. FrameAnnounced'
    BY <1>0, <2>1 DEF Sound, FrameAnnounced
  <2>5. Single => Single'
    BY <1>0, <2>1 DEF Single, Gone, Joined
  <2>. QED
    BY <2>2, <2>3, <2>4, <2>5 DEF Sound
<1>2. CASE session = 0
  <2>1. /\ active' = FALSE /\ Then(what)
        /\ UNCHANGED <<session, title, painted, uiSnap>>
    BY <1>2 DEF StopWith
  <2>2. /\ ui' \in {"idle", "start"} /\ (ui' = "start" <=> what = "start")
        /\ handle' \in BOOLEAN /\ queue' \in Seq(Messages) /\ next' = "idle"
        /\ life' \in {"alive", "freed"}
    BY <2>1, ThenTypes
  <2>3. active' \in BOOLEAN
    BY <2>1, Zenon
  <2>4. TypeOK'
    BY <1>0, <2>1, <2>2, <2>3 DEF Sound, TypeOK, UiSteps
  <2>5. Ordered'
    BY <1>0, <1>2, <2>1, <2>2 DEF Sound, Ordered, MayStart
  <2>6. FrameAnnounced'
    BY <1>2, <2>1 DEF FrameAnnounced
  <2>7. Single => Single'
    BY <1>0, <1>2, <2>1 DEF Single, Gone, Joined
  <2>. QED
    BY <2>4, <2>5, <2>6, <2>7 DEF Sound
<1>. QED
  BY <1>1, <1>2

LEMMA CallKeeps ==
  ASSUME Sound, newest' \in [Sessions -> Nat],
         HostCall
  PROVE  Sound' /\ ("startAgain" \notin HostCalls /\ Single => Single')
<1>1. life = "alive" /\ ui = "idle" /\ UNCHANGED <<heard, pend, newest, pendTitle, sessVars>>
  BY DEF HostCall
<1>2. CASE \E what \in {"idle", "start", "window", "free"} :
             StopWith(what) /\ (what = "start" => MayStart)
  BY <1>1, <1>2, StopWithKeeps
<1>3. CASE /\ ui' = "start" /\ MayStart
           /\ \/ active \/ session = 0 \/ "startAgain" \in HostCalls
           /\ UNCHANGED <<life, handle, session, active, title, painted, next,
                          uiSnap, queue>>
  <2>1. UNCHANGED <<made, phase, cbs, told, shell, pump, watcher, ver, snap,
                    shTitle, changes>>
    BY <1>1 DEF sessVars
  <2>2. TypeOK'
    BY <1>1, <1>3, <2>1 DEF Sound, TypeOK, UiSteps
  <2>3. Ordered'
    BY <1>1, <1>3, <2>1 DEF Sound, Ordered, StopSteps, MayStart
  <2>4. FrameAnnounced'
    BY <1>1, <1>3, <2>1 DEF Sound, FrameAnnounced
  <2>5. "startAgain" \notin HostCalls /\ Single => Single'
    BY <1>1, <1>3, <2>1 DEF Single, Gone, Joined
  <2>. QED
    BY <2>2, <2>3, <2>4, <2>5 DEF Sound
<1>. QED
  BY <1>2, <1>3 DEF HostCall

LEMMA StartKeeps ==
  ASSUME Sound, newest' \in [Sessions -> Nat],
         StartSession
  PROVE  Sound' /\ (Single => Single')
<1>1. CASE active /\ UiGoes("start", "idle")
           /\ UNCHANGED <<handle, session, active, title, life, painted, next,
                          uiSnap, heard, boxVars, sessVars>>
  <2>1. /\ ui = "start" /\ ui' = "idle"
        /\ UNCHANGED <<life, handle, session, active, title, painted, next, uiSnap,
                       heard, pend, pendTitle, queue, made, phase, cbs, told, shell,
                       pump, watcher, ver, snap, shTitle, changes>>
    BY <1>1 DEF UiGoes, boxVars, sessVars
  <2>2. TypeOK'
    BY <2>1 DEF Sound, TypeOK, UiSteps
  <2>3. Ordered'
    BY <2>1 DEF Sound, Ordered, StopSteps
  <2>4. FrameAnnounced'
    BY <2>1 DEF Sound, FrameAnnounced
  <2>5. Single => Single'
    BY <2>1 DEF Single, Gone, Joined
  <2>. QED
    BY <2>2, <2>3, <2>4, <2>5 DEF Sound
<1>2. CASE ~active /\ made' = made + 1
  <2>1. /\ ui = "start" /\ life = "alive" /\ session' = made + 1 /\ handle' = TRUE
        /\ ui' \in {"starting", "destroy"} /\ next' \in {next, "failed"}
        /\ UNCHANGED <<life, active, title, painted, uiSnap, heard, pend, pendTitle,
                       queue, cbs, told, ver, snap, shTitle, changes>>
    BY <1>2 DEF StartSession, UiGoes, boxVars
  <2>2. /\ made \in Nat /\ made + 1 \in Sessions /\ made + 1 <= MaxSessions
        /\ phase[made + 1] = "new"
    <3>1. made \in 0..MaxSessions /\ made < MaxSessions
      BY <2>1 DEF Sound, TypeOK, Ordered
    <3>2. made \in Nat /\ made + 1 \in Sessions /\ made + 1 <= MaxSessions
      BY <3>1, Numbers DEF Sessions
    <3>. QED
      BY <3>2 DEF Sound, Ordered
  <2>3. /\ phase' \in {phase, [phase EXCEPT ![made + 1] = "started"]}
        /\ shell' \in {shell, [shell EXCEPT ![made + 1] = "running"]}
        /\ pump' \in {pump, [pump EXCEPT ![made + 1] = "run"]}
        /\ watcher' \in {watcher, [watcher EXCEPT ![made + 1] = "run"]}
    BY <1>2 DEF StartSession
  <2>4. /\ phase' \in [Sessions -> {"new", "started", "closing", "freed"}]
        /\ shell' \in [Sessions -> {"none", "running", "ended"}]
        /\ pump' \in [Sessions -> PumpSteps]
        /\ watcher' \in [Sessions -> {"none", "run", "exitCb", "done"}]
        /\ phase'[made + 1] # "freed" /\ pump'[made + 1] \in {pump[made + 1], "run"}
        /\ \A t \in Sessions : t # made + 1 =>
             phase'[t] = phase[t] /\ pump'[t] = pump[t] /\ watcher'[t] = watcher[t]
    BY <2>2, <2>3, Basics DEF PumpSteps
  <2>5. TypeOK'
    <3>1. handle' \in BOOLEAN
      BY <2>1, Zenon
    <3>2. made' \in 0..MaxSessions /\ session' \in 0..MaxSessions /\ session' <= made'
      BY <1>2, <2>1, <2>2, Numbers
    <3>3. session' # 0 => phase'[session'] # "freed"
      BY <2>1, <2>4
    <3>4. next' \in {"idle", "start", "window", "free", "failed"} /\ ui' \in UiSteps
      BY <2>1 DEF Sound, TypeOK, UiSteps
    <3>. QED
      BY <2>1, <2>4, <3>1, <3>2, <3>3, <3>4 DEF Sound, TypeOK
  <2>6. Ordered'
    <3>1. \A s \in Sessions : s > made' => phase'[s] = "new"
      <4>1. \A s \in Sessions : s > made => phase[s] = "new"
        BY DEF Sound, Ordered
      <4>2. ASSUME NEW s \in Sessions, s > made' PROVE s > made /\ s # made + 1
        BY <1>2, <2>2, <4>2 DEF Sessions
      <4>. QED
        BY <2>4, <4>1, <4>2
    <3>2. next' # "start"
      BY <2>1 DEF Sound, Ordered, StopSteps
    <3>3. pend'.sess <= made'
      BY <1>2, <2>1, <2>2 DEF Sound, Ordered, TypeOK, Frames
    <3>4. \A s \in Sessions : pump'[s] = "titleCb" => shTitle'[s] \in AnyTitle
      BY <2>1, <2>4 DEF Sound, Ordered
    <3>5. session' # 0
      BY <2>1, <2>2
    <3>. QED
      BY <2>1, <3>1, <3>2, <3>3, <3>4, <3>5 DEF Ordered
  <2>7. FrameAnnounced'
    <3>1. pend'.sess # session'
      BY <2>1, <2>2 DEF Sound, Ordered, TypeOK, Frames
    <3>. QED
      BY <3>1 DEF FrameAnnounced
  <2>8. ASSUME Single PROVE Single'
    <3>1. ASSUME NEW t \in 1..made', t # session' PROVE Gone(t)'
      <4>1. t \in 1..made /\ t \in Sessions /\ t # made + 1 /\ t # 0
        BY <1>2, <2>1, <2>2, <3>1, Numbers DEF Sessions
      <4>2. session = 0
        BY <1>2, <2>1, <2>8 DEF Single
      <4>3. Gone(t) /\ watcher'[t] = watcher[t] /\ pump'[t] = pump[t]
            /\ phase'[t] = phase[t]
        BY <2>4, <2>8, <4>1, <4>2 DEF Single
      <4>. QED
        BY <4>3 DEF Gone, Joined
    <3>. QED
      BY <2>1, <3>1 DEF Single
  <2>. QED
    BY <2>5, <2>6, <2>7, <2>8 DEF Sound
<1>. QED
  BY <1>1, <1>2 DEF StartSession

(* The rest of the UI thread's steps keep the sessions as they are.        *)
LEMMA QuietKeeps ==
  ASSUME Sound, newest' \in [Sessions -> Nat],
         UNCHANGED <<life, handle, session, title, made, phase, cbs, told, shell,
                     pump, watcher, snap, shTitle, pendTitle>>,
         life = "alive",
         active' \in BOOLEAN, ui' \in UiSteps, ver' \in [Sessions -> Nat],
         painted' \in Frames, uiSnap' \in Frames, pend' \in Frames,
         queue' \in Seq(Messages), heard' \subseteq Sessions,
         changes' \in 0..MaxChanges,
         ui' # "start", ui' # "idle" => session # 0, next' = next,
         next = "start" => ui' \in StopSteps,
         ui' \in {"renderCb", "renderPost"} => uiSnap'.sess \in 1..made,
         pend'.sess <= made
  PROVE  TypeOK' /\ Ordered' /\ (Single => Single')
<1>1. TypeOK'
  BY DEF Sound, TypeOK
<1>2. Ordered'
  BY DEF Sound, Ordered
<1>3. Single => Single'
  BY DEF Single, Gone, Joined
<1>. QED
  BY <1>1, <1>2, <1>3

LEMMA StartReturnsKeeps ==
  ASSUME Sound, newest' \in [Sessions -> Nat],
         StartReturns
  PROVE  Sound' /\ (Single => Single')
<1>1. /\ life = "alive" /\ ui = "starting" /\ ui' = "idle" /\ active' = TRUE
      /\ UNCHANGED <<life, handle, session, title, made, phase, cbs, told, shell,
                     pump, watcher, snap, shTitle, pendTitle, ver, painted, uiSnap,
                     pend, queue, heard, changes, next>>
  BY DEF StartReturns, UiGoes, Started, boxVars, sessVars
<1>2. active' \in BOOLEAN /\ ui' \in UiSteps
  BY <1>1, Zenon DEF UiSteps
<1>3. next # "start"
  BY <1>1 DEF Sound, Ordered, StopSteps
<1>4. TypeOK' /\ Ordered' /\ (Single => Single')
  BY <1>1, <1>2, <1>3, QuietKeeps DEF Sound, TypeOK, Ordered
<1>5. FrameAnnounced'
  BY <1>1 DEF Sound, FrameAnnounced
<1>. QED
  BY <1>4, <1>5 DEF Sound

LEMMA ScrollsKeeps ==
  ASSUME Sound, newest' \in [Sessions -> Nat],
         HostScrolls
  PROVE  Sound' /\ (Single => Single')
<1>1. /\ life = "alive" /\ ui = "idle" /\ ui' = "rerender" /\ session # 0
      /\ changes < MaxChanges /\ changes' = changes + 1
      /\ ver' = [ver EXCEPT ![session] = @ + 1]
      /\ UNCHANGED <<life, handle, session, title, made, phase, cbs, told, shell,
                     pump, watcher, snap, shTitle, pendTitle, active, painted,
                     uiSnap, pend, queue, heard, next>>
  BY DEF HostScrolls, UiGoes, boxVars
<1>2. ver' \in [Sessions -> Nat]
  <2>1. ver \in [Sessions -> Nat]
    BY DEF Sound, TypeOK
  <2>2. \A s \in Sessions : ver[s] + 1 \in Nat
    BY <2>1
  <2>3. ver' = [ver EXCEPT ![session] = ver[session] + 1]
    BY <1>1
  <2>. QED
    BY <2>1, <2>2, <2>3, Zenon
<1>3. changes' \in 0..MaxChanges
  <2>1. changes \in 0..MaxChanges
    BY DEF Sound, TypeOK
  <2>. QED
    BY <1>1, <2>1, Numbers
<1>4. ui' \in UiSteps /\ next # "start"
  BY <1>1 DEF Sound, Ordered, StopSteps, UiSteps
<1>5. TypeOK' /\ Ordered' /\ (Single => Single')
  BY <1>1, <1>2, <1>3, <1>4, QuietKeeps DEF Sound, TypeOK, Ordered
<1>6. FrameAnnounced'
  BY <1>1 DEF Sound, FrameAnnounced
<1>. QED
  BY <1>5, <1>6 DEF Sound

LEMMA HostRendersKeeps ==
  ASSUME Sound, newest' \in [Sessions -> Nat],
         HostRenders
  PROVE  Sound' /\ (Single => Single')
<1>1. /\ life = "alive"
      /\ UNCHANGED <<life, handle, session, title, made, phase, cbs, told, shell,
                     pump, watcher, snap, shTitle, pendTitle, active, painted,
                     ver, heard, changes, next>>
  BY DEF HostRenders, UiGoes, sessVars
<1>2. ui \in {"rerender", "renderCb", "renderPost"} => session # 0 /\ next # "start"
  BY DEF Sound, Ordered, StopSteps
<1>3. session # 0 => session \in 1..made /\ session \in Sessions
  BY Numbers DEF Sound, TypeOK, Sessions
<1>4. CASE /\ UiGoes("rerender", "renderCb")
           /\ uiSnap' = [sess |-> session, ver |-> ver[session]]
           /\ UNCHANGED <<pend, newest, queue>>
  <2>1. ui = "rerender" /\ ui' = "renderCb"
    BY <1>4 DEF UiGoes
  <2>2. ver[session] \in Nat
    BY <1>2, <1>3, <2>1 DEF Sound, TypeOK
  <2>3. uiSnap' \in Frames /\ uiSnap'.sess \in 1..made
    BY <1>2, <1>3, <1>4, <2>1, <2>2 DEF Frames, Sound, TypeOK
  <2>4. TypeOK' /\ Ordered' /\ (Single => Single')
    BY <1>1, <1>2, <1>4, <2>1, <2>3, QuietKeeps DEF Sound, TypeOK, Ordered, UiSteps
  <2>5. FrameAnnounced'
    BY <1>1, <1>4, <2>1 DEF Sound, FrameAnnounced
  <2>. QED
    BY <2>4, <2>5 DEF Sound
<1>5. CASE /\ UiGoes("renderCb", "renderPost")
           /\ Stored(uiSnap.sess, uiSnap.ver)
           /\ UNCHANGED <<uiSnap, queue>>
  <2>1. ui = "renderCb" /\ ui' = "renderPost"
    BY <1>5 DEF UiGoes
  <2>2. uiSnap \in Frames /\ uiSnap.sess \in 1..made /\ made \in Nat
    BY <2>1, Numbers DEF Sound, TypeOK, Ordered
  <2>3. pend' \in Frames /\ pend'.sess <= made
    BY <1>5, <2>2 DEF Stored, Frames
  <2>4. TypeOK' /\ Ordered' /\ (Single => Single')
    BY <1>1, <1>2, <1>5, <2>1, <2>2, <2>3, QuietKeeps
       DEF Sound, TypeOK, Ordered, UiSteps
  <2>5. FrameAnnounced'
    BY <2>1 DEF FrameAnnounced
  <2>. QED
    BY <2>4, <2>5 DEF Sound
<1>6. CASE /\ UiGoes("renderPost", "idle")
           /\ Posted("render", uiSnap.sess)
           /\ uiSnap' = NoFrame
           /\ UNCHANGED <<pend, newest>>
  <2>1. ui = "renderPost" /\ ui' = "idle"
    BY <1>6 DEF UiGoes
  <2>2. uiSnap.sess \in Sessions
    <3>1. uiSnap.sess \in 1..made /\ made \in 0..MaxSessions
      BY <2>1 DEF Sound, TypeOK, Ordered
    <3>. QED
      BY <3>1, Numbers DEF Sessions
  <2>3. /\ queue' \in Seq(Messages)
        /\ handle => \E i \in DOMAIN queue' : queue'[i].kind = "render"
    BY <1>6, <2>2, PostedTypes DEF Sound
  <2>4. TypeOK' /\ Ordered' /\ (Single => Single')
    BY <1>1, <1>2, <1>6, <2>1, <2>3, QuietKeeps, Numbers
       DEF Sound, TypeOK, Ordered, UiSteps
  <2>5. FrameAnnounced'
    BY <1>1, <2>3, BoxAnnounced
  <2>. QED
    BY <2>4, <2>5 DEF Sound
<1>. QED
  BY <1>4, <1>5, <1>6 DEF HostRenders

LEMMA DispatchKeeps ==
  ASSUME Sound, newest' \in [Sessions -> Nat],
         Dispatch
  PROVE  Sound' /\ (Single => Single')
<1>1. ui = "idle" /\ queue # <<>> /\ queue' = Tail(queue) /\ life = "alive"
  BY DEF Dispatch, HandleRender, HandleTitle, HandleExit, Message
<1>2. /\ queue' \in Seq(Messages) /\ Head(queue) \in Messages
      /\ \A i \in DOMAIN queue :
           queue[i].kind # Head(queue).kind => \E j \in DOMAIN queue' :
                                                 queue'[j] = queue[i]
  BY <1>1, TakenTypes DEF Sound
<1>3. next # "start"
  BY <1>1 DEF Sound, Ordered, StopSteps
<1>4. CASE HandleRender
  <2>1. /\ ui' = ui /\ next' = next /\ active' = active /\ heard' = heard
        /\ pend' = NoFrame /\ painted' \in {painted, pend}
        /\ UNCHANGED <<life, handle, session, title, made, phase, cbs, told, shell,
                       pump, watcher, snap, shTitle, pendTitle, ver, uiSnap, changes>>
    BY <1>4 DEF HandleRender, sessVars
  <2>2. pend' \in Frames /\ pend'.sess = 0 /\ 0 <= made
    BY <2>1, Numbers DEF NoFrame, Sound, TypeOK
  <2>3. TypeOK' /\ Ordered' /\ (Single => Single')
    BY <1>1, <1>2, <1>3, <2>1, <2>2, QuietKeeps DEF Sound, TypeOK, Ordered
  <2>4. FrameAnnounced'
    BY <2>2 DEF FrameAnnounced
  <2>. QED
    BY <2>3, <2>4 DEF Sound
<1>5. \/ HandleTitle \/ HandleExit
      => \A i \in DOMAIN queue : queue[i].kind = "render" =>
           \E j \in DOMAIN queue' : queue'[j].kind = "render"
  BY <1>2 DEF HandleTitle, HandleExit, Message
<1>6. CASE HandleTitle
  <2>1. /\ title' = pendTitle
        /\ UNCHANGED <<life, handle, session, active, painted, ui, next, uiSnap,
                       heard, pend, pendTitle, made, phase, cbs, told, shell,
                       pump, watcher, snap, shTitle, ver, changes>>
    BY <1>6 DEF HandleTitle, sessVars
  <2>2. TypeOK'
    BY <1>2, <2>1 DEF Sound, TypeOK
  <2>3. Ordered'
    BY <2>1 DEF Sound, Ordered
  <2>4. Single => Single'
    BY <2>1 DEF Single, Gone, Joined
  <2>5. FrameAnnounced'
    BY <1>5, <1>6, <2>1, BoxKeeps DEF Sound
  <2>. QED
    BY <2>2, <2>3, <2>4, <2>5 DEF Sound
<1>7. CASE HandleExit
  <2>1. /\ active' = FALSE /\ heard' = heard \cup {Head(queue).sess}
        /\ UNCHANGED <<life, handle, session, title, painted, uiSnap, pend,
                       pendTitle, made, phase, cbs, told, shell,
                       pump, watcher, snap, shTitle, ver, changes>>
        /\ \/ ui' = "idle" /\ next' = next
           \/ session # 0 /\ MayStart /\ ui' = "silence" /\ next' = "start"
           \/ session = 0 /\ MayStart /\ ui' = "start" /\ next' = next
    BY <1>7 DEF HandleExit, sessVars
  <2>2. active' \in BOOLEAN
    BY <2>1, Zenon
  <2>3. heard' \subseteq Sessions
    BY <1>2, <2>1 DEF Sound, TypeOK, Messages
  <2>4. TypeOK'
    BY <1>2, <2>1, <2>2, <2>3 DEF Sound, TypeOK, UiSteps
  <2>5. Ordered'
    BY <1>1, <1>3, <2>1 DEF Sound, Ordered, MayStart, StopSteps
  <2>6. Single => Single'
    BY <2>1 DEF Single, Gone, Joined
  <2>7. FrameAnnounced'
    BY <1>1, <1>5, <1>7, <2>1, BoxKeeps DEF Sound
  <2>. QED
    BY <2>4, <2>5, <2>6, <2>7 DEF Sound
<1>. QED
  BY <1>4, <1>6, <1>7 DEF Dispatch

-----------------------------------------------------------------------------
(* The specification.                                                      *)

(* The latest version in the mailbox is a number, whatever is stored.      *)
LEMMA NewestTyped ==
  ASSUME TypeOK, [Next]_vars
  PROVE  newest' \in [Sessions -> Nat]
<1>1. ASSUME NEW s, NEW v \in Nat, Stored(s, v) PROVE newest' \in [Sessions -> Nat]
  BY <1>1 DEF Stored, TypeOK
<1>2. ASSUME newest' = newest PROVE newest' \in [Sessions -> Nat]
  BY <1>2 DEF TypeOK
<1>3. CASE UiStep
  <2>1. CASE StopReturns
    BY <2>1 DEF StopReturns, Over, TypeOK
  <2>2. CASE HostRenders
    <3>1. uiSnap.ver \in Nat
      BY DEF TypeOK, Frames
    <3>. QED
      BY <1>1, <1>2, <2>2, <3>1 DEF HostRenders
  <2>3. CASE StartSession
    BY <1>2, <2>3 DEF StartSession, boxVars
  <2>4. CASE StartReturns \/ StopSilences \/ StopTerminates \/ StopDestroys
    BY <1>2, <2>4 DEF StartReturns, StopSilences, StopTerminates,
                      StopDestroys, StopStep, boxVars
  <2>. QED
    BY <1>3, <2>1, <2>2, <2>3, <2>4 DEF UiStep
<1>4. CASE Dispatch
  BY <1>2, <1>4 DEF Dispatch, HandleRender, HandleTitle, HandleExit
<1>5. CASE HostCall \/ HostScrolls
  BY <1>2, <1>5 DEF HostCall, HostScrolls, boxVars
<1>6. ASSUME NEW s \in Sessions, PumpRenders(s)
      PROVE  newest' \in [Sessions -> Nat]
  <2>1. snap[s] \in Nat
    BY DEF TypeOK
  <2>. QED
    BY <1>1, <1>2, <1>6, <2>1 DEF PumpRenders
<1>7. ASSUME NEW s \in Sessions,
             PumpParses(s) \/ PumpTitle(s) \/ PumpTells(s) \/ WatcherTells(s)
               \/ ShellEnds(s)
      PROVE  newest' \in [Sessions -> Nat]
  BY <1>2, <1>7 DEF PumpParses, PumpTitle, PumpTells, WatcherTells, ShellEnds,
                    boxVars
<1>8. CASE UNCHANGED vars
  BY <1>2, <1>8 DEF vars, boxVars
<1>. QED
  BY <1>3, <1>4, <1>5, <1>6, <1>7, <1>8 DEF Next, PumpStep

LEMMA StepKeeps ==
  Sound /\ [Next]_vars =>
    Sound' /\ ("startAgain" \notin HostCalls /\ Single => Single')
<1>. SUFFICES ASSUME Sound, [Next]_vars
              PROVE  Sound' /\ ("startAgain" \notin HostCalls /\ Single => Single')
  OBVIOUS
<1>0. newest' \in [Sessions -> Nat]
  BY NewestTyped DEF Sound
<1>1. CASE UiStep
  BY <1>0, <1>1, StartKeeps, StartReturnsKeeps, StopsKeep, ReturnsKeeps,
     HostRendersKeeps DEF UiStep
<1>2. CASE Dispatch
  BY <1>0, <1>2, DispatchKeeps
<1>3. CASE HostCall
  BY <1>0, <1>3, CallKeeps
<1>4. CASE HostScrolls
  BY <1>0, <1>4, ScrollsKeeps
<1>5. ASSUME NEW s \in Sessions, \/ PumpParses(s) \/ PumpStep(s)
                                 \/ WatcherTells(s) \/ ShellEnds(s)
      PROVE  Sound' /\ (Single => Single')
  BY <1>0, <1>5, ParsesKeeps, TitleKeeps, RendersKeeps, TellsKeeps, WatcherKeeps,
     ShellKeeps DEF PumpStep
<1>6. CASE UNCHANGED vars
  <2>1. UNCHANGED <<life, handle, session, active, title, painted, ui, next, uiSnap,
                    heard, pend, pendTitle, queue, made, phase, cbs, told, shell,
                    pump, watcher, ver, snap, shTitle, changes>>
    BY <1>6 DEF vars, ctlVars, boxVars, sessVars
  <2>2. TypeOK' /\ Ordered'
    BY <1>0, <2>1 DEF Sound, TypeOK, Ordered
  <2>3. FrameAnnounced'
    BY <2>1 DEF Sound, FrameAnnounced
  <2>4. Single => Single'
    BY <2>1 DEF Single, Gone, Joined
  <2>. QED
    BY <2>2, <2>3, <2>4 DEF Sound
<1>. QED
  BY <1>1, <1>2, <1>3, <1>4, <1>5, <1>6 DEF Next

LEMMA Always == Spec => []Sound
<1>1. Init => Sound
  BY Begins DEF Sound
<1>2. Sound /\ [Next]_vars => Sound'
  BY StepKeeps
<1>. QED
  BY <1>1, <1>2, PTL DEF Spec

(* The state has its types; FSession is nil or a session that exists       *)
(* (Ctrl.pas 1257-1348).                                                   *)
THEOREM Typed == Spec => []TypeOK
<1>1. Sound => TypeOK
  BY DEF Sound
<1>. QED
  BY <1>1, Always, PTL

(* A frame in the mailbox has a message on its way (Ctrl.pas 263-272,      *)
(* 827-848).                                                               *)
THEOREM MailAnnounced == Spec => []FrameAnnounced
<1>1. Sound => FrameAnnounced
  BY DEF Sound
<1>. QED
  BY <1>1, Always, PTL

(* A freed control leaves no session and no thread that may call it, if no *)
(* Start came over an old session that had ended (Ctrl.pas 385-390).       *)
THEOREM LeavesNothing ==
  ASSUME "startAgain" \notin HostCalls
  PROVE  Spec => []NothingLeftBehind
<1>1. Init => Sound /\ Single
  BY Begins DEF Sound
<1>2. Sound /\ Single /\ [Next]_vars => Sound' /\ Single'
  BY StepKeeps
<1>3. ASSUME Sound, Single, life = "freed", NEW s \in 1..made
      PROVE  Gone(s)
  <2>1. session = 0 /\ s # 0
    BY <1>3 DEF Sound, TypeOK, Ordered
  <2>. QED
    BY <1>3, <2>1 DEF Single
<1>4. Sound /\ Single => NothingLeftBehind
  BY <1>3 DEF NothingLeftBehind, Gone, Joined
<1>. QED
  BY <1>1, <1>2, <1>4, PTL DEF Spec
-----------------------------------------------------------------------------
(* The end of a session that is told, and FActive.  A session tells its end*)
(* once, and a host that starts again only over a session that is gone and *)
(* with no message left meets no end of an earlier one.                    *)

Announced  == \E i \in DOMAIN queue : queue[i].kind = "exit"
Telling(s) == pump[s] = "exitCb" \/ watcher[s] = "exitCb"

(* An end on its way is the only one, and that of the current session.     *)
EndsQueued ==
  \A i \in DOMAIN queue : queue[i].kind = "exit" =>
    /\ told[queue[i].sess] /\ shell[queue[i].sess] = "ended"
    /\ session # 0 => queue[i].sess = session
    /\ \A j \in DOMAIN queue : queue[j].kind = "exit" => j = i
EndsTold ==
  \A s \in Sessions : Telling(s) =>
    /\ s = session /\ told[s] /\ shell[s] = "ended" /\ ~Announced
    /\ ~ (pump[s] = "exitCb" /\ watcher[s] = "exitCb")

(* Before the next session is made there is none.                          *)
Restarts == (ui = "start" /\ ~active) \/ next = "start"
NoneLeft == /\ ~Announced
            /\ session # 0 => told[session] /\ ~Telling(session)

Down == ui \in {"idle"} \cup UiRendering /\ session # 0 /\ ~active

OneEnd == /\ EndsQueued /\ EndsTold
          /\ Restarts => NoneLeft
          /\ Down => shell[session] = "ended"

(* Ends in the queue are not added and keep apart.                         *)
NoNewEnd ==
  \A j, k \in DOMAIN queue' :
    queue'[j].kind = "exit" /\ queue'[k].kind = "exit" =>
      \E i, l \in DOMAIN queue : /\ queue[i] = queue'[j] /\ queue[l] = queue'[k]
                                 /\ j # k => i # l

LEMMA PostAddsNone ==
  ASSUME TypeOK, NEW s \in Sessions, NEW kind \in {"render", "title"},
         Posted(kind, s)
  PROVE  NoNewEnd
<1>. DEFINE m == [kind |-> kind, sess |-> s]
<1>1. queue \in Seq(Messages) /\ m \in Messages
  BY DEF TypeOK, Messages
<1>2. CASE handle
  <2>1. queue' = Append(queue, m)
    BY <1>2 DEF Posted
  <2>2. /\ Len(queue') = Len(queue) + 1
        /\ \A i \in 1..Len(queue) : queue'[i] = queue[i]
        /\ queue'[Len(queue) + 1] = m /\ queue' \in Seq(Messages)
    BY <1>1, <2>1, AppendProperties
  <2>3. /\ Len(queue) \in Nat /\ DOMAIN queue = 1..Len(queue)
        /\ DOMAIN queue' = 1..Len(queue')
    BY <1>1, <2>2, LenProperties
  <2>4. \A j \in DOMAIN queue' : queue'[j].kind = "exit" =>
          j \in DOMAIN queue /\ queue[j] = queue'[j]
    BY <2>2, <2>3
  <2>. QED
    BY <2>4 DEF NoNewEnd
<1>3. CASE ~handle
  BY <1>3 DEF Posted, NoNewEnd
<1>. QED
  BY <1>2, <1>3

LEMMA TakeAddsNone ==
  ASSUME TypeOK, queue # <<>>, queue' = Tail(queue)
  PROVE  /\ NoNewEnd
         /\ 1 \in DOMAIN queue /\ queue[1] = Head(queue)
         /\ \A j \in DOMAIN queue' : \E i \in DOMAIN queue :
              i # 1 /\ queue[i] = queue'[j]
<1>1. queue \in Seq(Messages)
  BY DEF TypeOK
<1>2. /\ Tail(queue) \in Seq(Messages) /\ Len(Tail(queue)) = Len(queue) - 1
      /\ \A j \in 1..Len(Tail(queue)) : Tail(queue)[j] = queue[j + 1]
      /\ Head(queue) = queue[1]
  BY <1>1, HeadTailProperties
<1>3. /\ Len(queue) \in Nat \ {0} /\ DOMAIN queue = 1..Len(queue)
      /\ DOMAIN queue' = 1..Len(queue')
  BY <1>1, <1>2, LenProperties, EmptySeq
<1>4. \A j \in DOMAIN queue' : /\ j + 1 \in DOMAIN queue /\ j + 1 # 1
                               /\ queue[j + 1] = queue'[j]
  BY <1>2, <1>3
<1>5. \A j, k \in DOMAIN queue' : j # k => j + 1 # k + 1
  BY <1>3
<1>. QED
  BY <1>2, <1>3, <1>4, <1>5 DEF NoNewEnd

LEMMA NoneAddsNone == queue' = queue \/ queue' = <<>> => NoNewEnd
BY DEF NoNewEnd

LEMMA QueueTypes ==
  ASSUME TypeOK
  PROVE  \A i \in DOMAIN queue : queue[i] \in Messages /\ queue[i].sess \in Sessions
<1>1. queue \in Seq(Messages)
  BY DEF TypeOK
<1>2. \A i \in DOMAIN queue : queue[i] \in Messages
  BY <1>1, ElementOfSeq, LenProperties
<1>. QED
  BY <1>2 DEF Messages

(* Steps that tell no end.                                                 *)
LEMMA EndsQuiet ==
  ASSUME TypeOK, OneEnd, NoNewEnd,
         \A s \in Sessions :
           /\ told[s] => told'[s]
           /\ shell[s] = "ended" => shell'[s] = "ended"
           /\ pump'[s] = "exitCb" => pump[s] = "exitCb"
           /\ watcher'[s] = "exitCb" => watcher[s] = "exitCb",
         \/ session' = session
         \/ session' = 0 /\ \A s \in Sessions : ~Telling(s)',
         Restarts' => Restarts \/ (session' = 0 /\ queue' = <<>>),
         Down' => Down
  PROVE  OneEnd'
<1>0. session \in Sessions \/ session = 0
  BY Numbers DEF TypeOK, Sessions
<1>1. EndsQueued'
  <2>1. SUFFICES ASSUME NEW i \in DOMAIN queue', queue'[i].kind = "exit"
                 PROVE  /\ told'[queue'[i].sess] /\ shell'[queue'[i].sess] = "ended"
                        /\ session' # 0 => queue'[i].sess = session'
                        /\ \A j \in DOMAIN queue' : queue'[j].kind = "exit" => j = i
    BY DEF EndsQueued
  <2>2. PICK k \in DOMAIN queue : queue[k] = queue'[i]
    BY <2>1 DEF NoNewEnd
  <2>3. /\ told[queue[k].sess] /\ shell[queue[k].sess] = "ended"
        /\ session # 0 => queue[k].sess = session
        /\ queue[k].sess \in Sessions
    BY <2>1, <2>2, QueueTypes DEF OneEnd, EndsQueued
  <2>4. ASSUME NEW j \in DOMAIN queue', queue'[j].kind = "exit", j # i
        PROVE  FALSE
    <3>1. PICK m, n \in DOMAIN queue :
            queue[m] = queue'[j] /\ queue[n] = queue'[i] /\ m # n
      BY <2>1, <2>4 DEF NoNewEnd
    <3>. QED
      BY <2>1, <2>4, <3>1 DEF OneEnd, EndsQueued
  <2>. QED
    BY <2>2, <2>3, <2>4
<1>2. Announced' => Announced
  BY DEF Announced, NoNewEnd
<1>3. EndsTold'
  BY <1>2 DEF OneEnd, EndsTold, Telling
<1>4. Restarts' => NoneLeft'
  <2>1. CASE session' = 0 /\ queue' = <<>>
    BY <2>1 DEF NoneLeft, Announced
  <2>2. CASE Restarts
    <3>1. ~Announced' /\ (session # 0 => told[session] /\ ~Telling(session))
      BY <1>2, <2>2 DEF OneEnd, NoneLeft
    <3>. QED
      BY <1>0, <3>1 DEF NoneLeft, Telling
  <2>. QED
    BY <2>1, <2>2
<1>5. Down' => shell'[session'] = "ended"
  BY <1>0 DEF OneEnd, Down
<1>. QED
  BY <1>1, <1>3, <1>4, <1>5 DEF OneEnd

(* One thread enters on_exit.                                              *)
LEMMA EndBegins ==
  ASSUME Sound, Single, OneEnd, NEW s \in Sessions, Works(s), ~told[s],
         shell[s] = "ended", told'[s],
         \A t \in Sessions : t # s => told'[t] = told[t],
         \A t \in Sessions : t # s => pump'[t] = pump[t] /\ watcher'[t] = watcher[t],
         pump'[s] = pump[s] \/ watcher'[s] = watcher[s],
         UNCHANGED <<queue, session, ui, next, active, shell>>
  PROVE  OneEnd'
<1>1. s = session /\ session # 0
  BY WorksHere, Numbers DEF Sound, Sessions
<1>2. ~Announced
  <2>1. SUFFICES ASSUME NEW i \in DOMAIN queue, queue[i].kind = "exit" PROVE FALSE
    BY DEF Announced
  <2>. QED
    BY <1>1, <2>1 DEF OneEnd, EndsQueued
<1>3. \A t \in Sessions : ~Telling(t)
  BY <1>1 DEF OneEnd, EndsTold
<1>4. EndsQueued' /\ ~Announced'
  BY <1>2 DEF EndsQueued, Announced
<1>5. EndsTold'
  BY <1>1, <1>3, <1>4 DEF EndsTold, Telling
<1>6. ~Restarts'
  BY <1>1 DEF OneEnd, Restarts, NoneLeft
<1>7. Down' => shell'[session'] = "ended"
  BY DEF OneEnd, Down
<1>. QED
  BY <1>4, <1>5, <1>6, <1>7 DEF OneEnd

(* It leaves, and WM_RATA_EXIT is posted.                                  *)
LEMMA EndPosts ==
  ASSUME Sound, OneEnd, NEW s \in Sessions, Telling(s), Posted("exit", s),
         ~Telling(s)',
         \A t \in Sessions : t # s => pump'[t] = pump[t] /\ watcher'[t] = watcher[t],
         UNCHANGED <<session, ui, next, active, shell, told>>
  PROVE  OneEnd'
<1>1. /\ s = session /\ session # 0 /\ told[s] /\ shell[s] = "ended"
      /\ ~Announced /\ \A t \in Sessions : ~Telling(t)'
  BY Numbers DEF OneEnd, EndsTold, Telling, Sessions
<1>2. ~Restarts'
  BY <1>1 DEF OneEnd, Restarts, NoneLeft
<1>3. EndsQueued'
  <2>. DEFINE m == [kind |-> "exit", sess |-> s]
  <2>1. queue \in Seq(Messages) /\ m \in Messages
    BY DEF Sound, TypeOK, Messages
  <2>2. CASE handle
    <3>1. queue' = Append(queue, m)
      BY <2>2 DEF Posted
    <3>2. /\ Len(queue') = Len(queue) + 1
          /\ \A i \in 1..Len(queue) : queue'[i] = queue[i]
          /\ queue'[Len(queue) + 1] = m /\ queue' \in Seq(Messages)
      BY <2>1, <3>1, AppendProperties
    <3>3. /\ Len(queue) \in Nat /\ DOMAIN queue = 1..Len(queue)
          /\ DOMAIN queue' = 1..Len(queue')
      BY <2>1, <3>2, LenProperties
    <3>4. \A i \in DOMAIN queue' : queue'[i].kind = "exit" =>
            i = Len(queue) + 1 /\ queue'[i].sess = s
      BY <1>1, <3>2, <3>3 DEF Announced
    <3>. QED
      BY <1>1, <3>4 DEF EndsQueued
  <2>3. CASE ~handle
    BY <2>3 DEF Posted, OneEnd, EndsQueued
  <2>. QED
    BY <2>2, <2>3
<1>4. EndsTold'
  BY <1>1 DEF EndsTold
<1>5. Down' => shell'[session'] = "ended"
  BY DEF OneEnd, Down
<1>. QED
  BY <1>2, <1>3, <1>4, <1>5 DEF OneEnd

LEMMA TellsOneEnd ==
  ASSUME Sound, Single, OneEnd, NEW s \in Sessions,
         PumpTells(s) \/ WatcherTells(s)
  PROVE  OneEnd'
<1>1. /\ UNCHANGED <<session, ui, next, active, shell>>
      /\ Works(s) /\ TypeOK
  BY DEF PumpTells, PumpGoes, WatcherTells, ctlVars, Sound
<1>2. CASE /\ shell[s] = "ended" /\ queue' = queue /\ ~told[s] /\ cbs[s]
           /\ told' = [told EXCEPT ![s] = @ \/ cbs[s]]
           /\ \/ pump' = [pump EXCEPT ![s] = "exitCb"] /\ watcher' = watcher
              \/ watcher' = [watcher EXCEPT ![s] = "exitCb"] /\ pump' = pump
  <2>1. told'[s] /\ \A t \in Sessions : t # s => told'[t] = told[t]
    BY <1>1, <1>2 DEF TypeOK
  <2>2. /\ pump'[s] = pump[s] \/ watcher'[s] = watcher[s]
        /\ \A t \in Sessions : t # s => pump'[t] = pump[t]
                                        /\ watcher'[t] = watcher[t]
    BY <1>1, <1>2 DEF TypeOK
  <2>. QED
    BY <1>1, <1>2, <2>1, <2>2, EndBegins
<1>3. CASE /\ queue' = queue
           /\ told' = [told EXCEPT ![s] = @ \/ cbs[s]]
           /\ \/ pump' = [pump EXCEPT ![s] = "done"] /\ watcher' = watcher
              \/ watcher' = [watcher EXCEPT ![s] = "done"] /\ pump' = pump
  <2>1. \A t \in Sessions : told[t] => told'[t]
    BY <1>1, <1>3 DEF TypeOK
  <2>2. \A t \in Sessions : /\ pump'[t] = "exitCb" => pump[t] = "exitCb"
                            /\ watcher'[t] = "exitCb" => watcher[t] = "exitCb"
    BY <1>1, <1>3 DEF TypeOK
  <2>3. NoNewEnd
    BY <1>3, NoneAddsNone
  <2>4. (Restarts' => Restarts) /\ (Down' => Down)
    BY <1>1 DEF Restarts, Down
  <2>. QED
    BY <1>1, <2>1, <2>2, <2>3, <2>4, EndsQuiet
<1>4. CASE /\ Posted("exit", s) /\ told' = told
           /\ \/ pump[s] = "exitCb" /\ pump' = [pump EXCEPT ![s] = "done"]
                 /\ watcher' = watcher
              \/ watcher[s] = "exitCb" /\ watcher' = [watcher EXCEPT ![s] = "done"]
                 /\ pump' = pump
  <2>1. Telling(s) /\ ~Telling(s)'
    BY <1>1, <1>4 DEF Telling, TypeOK, OneEnd, EndsTold
  <2>2. \A t \in Sessions : t # s => pump'[t] = pump[t] /\ watcher'[t] = watcher[t]
    BY <1>1, <1>4 DEF TypeOK
  <2>. QED
    BY <1>1, <1>4, <2>1, <2>2, EndPosts
<1>. QED
  BY <1>2, <1>3, <1>4 DEF PumpTells, PumpGoes, WatcherTells, ctlVars

(* WMRataExit takes the only end there is.                                 *)
LEMMA ExitOneEnd ==
  ASSUME Sound, OneEnd, HandleExit
  PROVE  OneEnd'
<1>1. /\ queue # <<>> /\ Head(queue).kind = "exit" /\ queue' = Tail(queue)
      /\ ui = "idle" /\ active' = FALSE /\ TypeOK
      /\ UNCHANGED <<session, shell, told, pump, watcher>>
  BY DEF HandleExit, Message, sessVars, Sound
<1>2. /\ 1 \in DOMAIN queue /\ queue[1].kind = "exit"
      /\ \A j \in DOMAIN queue' : \E i \in DOMAIN queue :
           i # 1 /\ queue[i] = queue'[j]
  BY <1>1, TakeAddsNone
<1>3. /\ Announced /\ ~Announced'
      /\ session # 0 => told[session] /\ shell[session] = "ended"
  BY <1>2 DEF OneEnd, EndsQueued, Announced
<1>4. \A s \in Sessions : ~Telling(s) /\ ~Telling(s)'
  BY <1>1, <1>3 DEF OneEnd, EndsTold, Telling
<1>5. EndsQueued' /\ EndsTold'
  BY <1>3, <1>4 DEF EndsQueued, EndsTold, Announced
<1>6. session \in Sessions \/ session = 0
  BY <1>1, Numbers DEF TypeOK, Sessions
<1>7. NoneLeft' /\ (Down' => shell'[session'] = "ended")
  BY <1>1, <1>3, <1>4, <1>6 DEF NoneLeft, Down
<1>. QED
  BY <1>5, <1>7 DEF OneEnd

LEMMA StartOneEnd ==
  ASSUME Sound, Single, OneEnd, StartSession
  PROVE  OneEnd'
<1>0. TypeOK
  BY DEF Sound
<1>1. CASE active /\ UiGoes("start", "idle")
           /\ UNCHANGED <<handle, session, active, title, life, painted, next,
                          uiSnap, heard, boxVars, sessVars>>
  <2>1. UNCHANGED <<session, active, next, queue, told, shell, pump, watcher>>
    BY <1>1 DEF boxVars, sessVars
  <2>2. NoNewEnd /\ ui' = "idle"
    BY <1>1, <2>1, NoneAddsNone DEF UiGoes
  <2>3. (Restarts' => Restarts) /\ (Down' => Down)
    BY <1>1, <2>1, <2>2 DEF Restarts, Down
  <2>. QED
    BY <1>0, <2>1, <2>2, <2>3, EndsQuiet
<1>2. CASE ~active
  <2>1. /\ made' = made + 1 /\ session' = made' /\ ui = "start"
        /\ queue' = queue /\ told' = told /\ active' = active
        /\ \/ /\ ui' = "starting" /\ next' = next
              /\ pump' = [pump EXCEPT ![made'] = "run"]
              /\ watcher' = [watcher EXCEPT ![made'] = "run"]
           \/ /\ ui' = "destroy" /\ next' = "failed"
              /\ UNCHANGED <<pump, watcher>>
    BY <1>2 DEF StartSession, UiGoes, boxVars
  <2>2. session = 0 /\ ~Announced /\ next # "start"
    BY <1>2, <2>1 DEF Single, OneEnd, Restarts, NoneLeft, Sound, Ordered, StopSteps
  <2>3. \A t \in Sessions : t # 0 /\ ~Telling(t)
    BY <2>2, Numbers DEF OneEnd, EndsTold, Sessions
  <2>4. \A t \in Sessions : ~Telling(t)'
    BY <1>0, <2>1, <2>3 DEF Telling, TypeOK
  <2>5. EndsQueued' /\ EndsTold'
    BY <2>1, <2>2, <2>4 DEF EndsQueued, EndsTold, Announced
  <2>6. ~Restarts' /\ ~Down'
    BY <2>1, <2>2 DEF Restarts, Down, UiRendering
  <2>. QED
    BY <2>5, <2>6 DEF OneEnd
<1>. QED
  BY <1>1, <1>2 DEF StartSession

(* The steps of the sessions' threads and of the UI thread that tell none. *)
LEMMA ThreadsOneEnd ==
  ASSUME Sound, OneEnd, NEW s \in Sessions,
         PumpParses(s) \/ PumpTitle(s) \/ PumpRenders(s) \/ ShellEnds(s)
  PROVE  OneEnd'
<1>. DEFINE Going == \E from, to \in PumpSteps \ {"exitCb"} : PumpGoes(s, from, to)
<1>0. TypeOK
  BY DEF Sound
<1>1. /\ Going \/ ShellEnds(s)
      /\ told' = told
      /\ queue' = queue \/ Posted("title", s) \/ Posted("render", s)
  <2>1. CASE PumpParses(s)
    <3>1. PICK to \in {"parsed", "titleCb"} : PumpGoes(s, "run", to)
      BY <2>1, Zenon DEF PumpParses
    <3>2. told' = told /\ queue' = queue
      BY <2>1, Zenon DEF PumpParses, boxVars
    <3>. QED
      BY <3>1, <3>2 DEF PumpSteps
  <2>2. CASE PumpTitle(s)
    BY <2>2 DEF PumpTitle, PumpSteps
  <2>3. CASE PumpRenders(s)
    <3>1. \/ \E to \in {"renderCb", "run"} : PumpGoes(s, "parsed", to)
          \/ PumpGoes(s, "renderCb", "renderPost")
          \/ PumpGoes(s, "renderPost", "run")
      BY <2>3 DEF PumpRenders
    <3>2. told' = told /\ (queue' = queue \/ Posted("render", s))
      BY <2>3 DEF PumpRenders
    <3>. QED
      BY <3>1, <3>2 DEF PumpSteps
  <2>4. CASE ShellEnds(s)
    BY <2>4 DEF ShellEnds, boxVars
  <2>. QED
    BY <2>1, <2>2, <2>3, <2>4
<1>2. /\ UNCHANGED <<session, ui, next, active>>
      /\ \A t \in Sessions :
           /\ shell[t] = "ended" => shell'[t] = "ended"
           /\ pump'[t] = "exitCb" => pump[t] = "exitCb"
           /\ watcher'[t] = "exitCb" => watcher[t] = "exitCb"
  <2>1. CASE Going
    BY <1>0, <2>1 DEF PumpGoes, ctlVars, TypeOK
  <2>2. CASE ShellEnds(s)
    BY <1>0, <2>2 DEF ShellEnds, ctlVars, TypeOK
  <2>. QED
    BY <1>1, <2>1, <2>2
<1>3. NoNewEnd
  BY <1>0, <1>1, PostAddsNone, NoneAddsNone
<1>4. (Restarts' => Restarts) /\ (Down' => Down)
  BY <1>2 DEF Restarts, Down
<1>. QED
  BY <1>0, <1>1, <1>2, <1>3, <1>4, EndsQuiet

LEMMA StopsOneEnd ==
  ASSUME Sound, OneEnd, StopSilences \/ StopTerminates \/ StopDestroys
  PROVE  OneEnd'
<1>1. /\ UNCHANGED <<session, next, active, told, pump, watcher, queue>> /\ TypeOK
      /\ ui' \in StopSteps
      /\ \A t \in Sessions : shell[t] = "ended" => shell'[t] = "ended"
  BY DEF StopSilences, StopTerminates, StopDestroys, StopStep, UiGoes, boxVars,
         Sound, TypeOK, StopSteps
<1>2. NoNewEnd /\ (Restarts' => Restarts) /\ ~Down'
  BY <1>1, NoneAddsNone DEF Restarts, Down, StopSteps, UiRendering
<1>. QED
  BY <1>1, <1>2, EndsQuiet

LEMMA ReturnsOneEnd ==
  ASSUME Sound, OneEnd, StopReturns
  PROVE  OneEnd'
<1>1. /\ life = "alive" /\ ui = "join" /\ Joined(session) /\ Over(session)
      /\ shell' = [shell EXCEPT ![session] = "ended"]
      /\ session' = 0 /\ active' = FALSE /\ Then(next) /\ told' = told
      /\ session \in Sessions /\ TypeOK
  <2>1. /\ life = "alive" /\ ui = "join" /\ Joined(session) /\ Over(session)
        /\ shell' = [shell EXCEPT ![session] = "ended"]
        /\ session' = 0 /\ active' = FALSE /\ Then(next) /\ told' = told
    BY DEF StopReturns, Forgotten
  <2>. QED
    BY <2>1, Basics DEF Sound
<1>2. /\ (ui' = "start" <=> next = "start") /\ next' = "idle" /\ NoNewEnd
  BY <1>1, ThenTypes, NoneAddsNone DEF TypeOK, Then
<1>3. \A t \in Sessions : ~Telling(t)'
  <2>1. \A t \in Sessions : t # session => ~Telling(t)
    BY DEF OneEnd, EndsTold
  <2>2. \A t \in Sessions : pump'[t] \in {pump[t], "done"}
                            /\ watcher'[t] \in {watcher[t], "done"}
    BY <1>1 DEF Over, TypeOK
  <2>3. ~Telling(session)
    BY <1>1 DEF Joined, PumpInHost, Telling
  <2>. QED
    BY <2>1, <2>2, <2>3 DEF Telling
<1>4. \A t \in Sessions : shell[t] = "ended" => shell'[t] = "ended"
  BY <1>1 DEF TypeOK
<1>5. (Restarts' => Restarts) /\ ~Down'
  BY <1>1, <1>2 DEF Restarts, Down
<1>6. \A t \in Sessions : /\ pump'[t] = "exitCb" => pump[t] = "exitCb"
                          /\ watcher'[t] = "exitCb" => watcher[t] = "exitCb"
  BY <1>3 DEF Telling
<1>. QED
  BY <1>1, <1>2, <1>3, <1>4, <1>5, <1>6, EndsQuiet

(* What the host calls, without a Restart of its own.                      *)
LEMMA CallOneEnd ==
  ASSUME Sound, OneEnd, HostCall,
         "startAgain" \notin HostCalls, "restart" \notin HostCalls
  PROVE  OneEnd'
<1>1. /\ life = "alive" /\ ui = "idle" /\ TypeOK
      /\ UNCHANGED <<told, shell, pump, watcher>>
  BY DEF HostCall, sessVars, Sound
<1>2. next # "start"
  BY <1>1 DEF Sound, Ordered, StopSteps
<1>3. CASE /\ active \/ (session = 0 /\ queue = <<>>)
           /\ ui' = "start" /\ UNCHANGED <<session, active, next, queue>>
  <2>1. NoNewEnd /\ ~Down'
    BY <1>3, NoneAddsNone DEF Down, UiRendering
  <2>2. Restarts' => session' = 0 /\ queue' = <<>>
    BY <1>2, <1>3 DEF Restarts
  <2>. QED
    BY <1>1, <1>3, <2>1, <2>2, EndsQuiet
<1>4. ASSUME NEW what \in {"idle", "window", "free"}, StopWith(what)
      PROVE  OneEnd'
  <2>1. /\ session' = session
        /\ \/ ui' = "silence" /\ next' = what /\ queue' = queue
           \/ session = 0 /\ Then(what)
    BY <1>4 DEF StopWith
  <2>2. NoNewEnd
    BY <2>1, NoneAddsNone DEF Then
  <2>3. ~Restarts' /\ ~Down'
    BY <1>4, <2>1 DEF Restarts, Down, Then, UiRendering
  <2>. QED
    BY <1>1, <2>1, <2>2, <2>3, EndsQuiet
<1>. QED
  BY <1>3, <1>4 DEF HostCall

(* The rest of the UI thread.                                              *)
LEMMA UiOneEnd ==
  ASSUME Sound, OneEnd,
         StartReturns \/ HostScrolls \/ HostRenders \/ HandleRender \/ HandleTitle
  PROVE  OneEnd'
<1>0. TypeOK
  BY DEF Sound
<1>1. UNCHANGED <<session, next, told, shell, pump, watcher>>
  BY DEF StartReturns, HostScrolls, HostRenders, HandleRender, HandleTitle, sessVars
<1>2. NoNewEnd
  <2>1. CASE queue' = queue
    BY <2>1, NoneAddsNone
  <2>2. CASE HandleRender \/ HandleTitle
    BY <1>0, <2>2, TakeAddsNone DEF HandleRender, HandleTitle, Message
  <2>3. CASE Posted("render", uiSnap.sess) /\ ui = "renderPost"
    <3>1. uiSnap.sess \in Sessions
      BY <2>3, Basics
    <3>. QED
      BY <1>0, <2>3, <3>1, PostAddsNone
  <2>. QED
    BY <2>1, <2>2, <2>3 DEF StartReturns, HostScrolls, HostRenders, UiGoes, boxVars
<1>3. (Restarts' => Restarts) /\ (Down' => Down)
  <2>1. CASE StartReturns
    BY <1>1, <2>1 DEF StartReturns, Started, UiGoes, Restarts, Down
  <2>2. CASE HostScrolls \/ HostRenders
    <3>1. /\ ui \in {"idle"} \cup UiRendering /\ ui' \in {"idle"} \cup UiRendering
          /\ active' = active
      BY <2>2 DEF HostScrolls, HostRenders, UiGoes, UiRendering
    <3>. QED
      BY <1>1, <3>1 DEF Restarts, Down, UiRendering
  <2>3. CASE HandleRender \/ HandleTitle
    BY <1>1, <2>3 DEF HandleRender, HandleTitle, Restarts, Down
  <2>. QED
    BY <2>1, <2>2, <2>3
<1>. QED
  BY <1>0, <1>1, <1>2, <1>3, EndsQuiet

LEMMA StepOneEnd ==
  ASSUME "startAgain" \notin HostCalls, "restart" \notin HostCalls,
         Sound, Single, OneEnd, [Next]_vars
  PROVE  OneEnd'
<1>1. CASE UiStep
  BY <1>1, StartOneEnd, StopsOneEnd, ReturnsOneEnd, UiOneEnd DEF UiStep
<1>2. CASE Dispatch
  BY <1>2, UiOneEnd, ExitOneEnd DEF Dispatch
<1>3. CASE HostCall
  BY <1>3, CallOneEnd
<1>4. CASE HostScrolls
  BY <1>4, UiOneEnd
<1>5. ASSUME NEW s \in Sessions, \/ PumpParses(s) \/ PumpStep(s)
                                 \/ WatcherTells(s) \/ ShellEnds(s)
      PROVE  OneEnd'
  BY <1>5, ThreadsOneEnd, TellsOneEnd DEF PumpStep
<1>6. CASE UNCHANGED vars
  BY <1>6 DEF vars, ctlVars, boxVars, sessVars, OneEnd, EndsQueued, EndsTold,
     Restarts, NoneLeft, Down, Telling, Announced
<1>. QED
  BY <1>1, <1>2, <1>3, <1>4, <1>5, <1>6 DEF Next

(* FActive is down only when there is no shell, or none that runs, if the  *)
(* host starts again only when the old session is gone and its messages    *)
(* are handled, or in OnExit (Ctrl.pas 424, 929-935, 1302).                *)
THEOREM ActiveTrue ==
  ASSUME "startAgain" \notin HostCalls, "restart" \notin HostCalls
  PROVE  Spec => []ActiveTells
<1>1. ASSUME Init PROVE OneEnd
  <2>1. /\ queue = <<>> /\ session = 0 /\ ui = "idle" /\ next = "idle"
        /\ \A s \in Sessions : ~Telling(s)
    BY <1>1, Zenon DEF Init, Telling
  <2>. QED
    BY <2>1 DEF OneEnd, EndsQueued, EndsTold, Restarts, Down
<1>2. Init => Sound /\ Single
  BY Begins DEF Sound
<1>3. Sound /\ Single /\ OneEnd /\ [Next]_vars => Sound' /\ Single' /\ OneEnd'
  BY StepKeeps, StepOneEnd
<1>4. OneEnd => ActiveTells
  BY DEF OneEnd, Down, ActiveTells
<1>. QED
  BY <1>1, <1>2, <1>3, <1>4, PTL DEF Spec
-----------------------------------------------------------------------------
(* The contract of a session, seen from the control that calls it.         *)

UsesStep(s) == Contract(s)!Next \/ UNCHANGED Contract(s)!vars

(* A session is being destroyed only while the UI thread is in that call,  *)
(* and its callbacks are withdrawn before the threads are joined.          *)
Stopping ==
  /\ \A s \in Sessions : phase[s] = "closing" =>
       s = session /\ ui \in {"clear", "join"}
  /\ ui \in {"clear", "join"} => phase[session] = "closing"
  /\ ui = "join" => ~cbs[session]

(* A session that was not started has no threads.                          *)
NewQuiet == \A s \in Sessions : phase[s] = "new" =>
                                  pump[s] = "none" /\ watcher[s] = "none"

LEMMA StaysUsed ==
  ASSUME NEW s \in Sessions, phase'[s] = phase[s], cbs'[s] = cbs[s],
         told'[s] = told[s],
         pump'[s] \in PumpInHost <=> pump[s] \in PumpInHost,
         watcher'[s] = watcher[s]
  PROVE  UsesStep(s)
<1>1. InHostOf(s)' = InHostOf(s) /\ CloserOf(s)' = CloserOf(s)
  BY DEF InHostOf, CloserOf
<1>. QED
  BY <1>1 DEF UsesStep, Contract!vars

(* A thread enters the control, or leaves it.                              *)
LEMMA EntersUsed ==
  ASSUME NEW s \in Sessions, NEW t \in {"pump", "watcher"}, Works(s), cbs[s],
         phase'[s] = phase[s], cbs'[s] = cbs[s],
         told'[s] = told[s] \/ (~told[s] /\ told'[s] = TRUE),
         t \notin InHostOf(s), InHostOf(s)' = InHostOf(s) \cup {t}
  PROVE  UsesStep(s)
<1>1. CloserOf(s)' = CloserOf(s) /\ phase[s] \in {"started", "closing"}
  BY DEF CloserOf, Works
<1>2. Contract(s)!Enter(t)
  BY <1>1 DEF Contract!Enter
<1>3. Contract(s)!Call(t) \/ Contract(s)!Tell(t)
  BY <1>2 DEF Contract!Call, Contract!Tell
<1>. QED
  BY <1>3 DEF UsesStep, Contract!Next

LEMMA LeavesUsed ==
  ASSUME NEW s \in Sessions, NEW t \in {"pump", "watcher"},
         phase'[s] = phase[s], cbs'[s] = cbs[s], told'[s] = told[s],
         t \in InHostOf(s), InHostOf(s)' = InHostOf(s) \ {t}
  PROVE  UsesStep(s)
<1>1. CloserOf(s)' = CloserOf(s)
  BY DEF CloserOf
<1>2. Contract(s)!Leave(t)
  BY <1>1 DEF Contract!Leave
<1>. QED
  BY <1>2 DEF UsesStep, Contract!Next

LEMMA PumpUses ==
  ASSUME Sound, NEW s \in Sessions, NEW r \in Sessions, NEW from \in PumpSteps,
         NEW to \in PumpSteps, PumpGoes(s, from, to),
         r # s => told'[r] = told[r],
         \/ told'[s] = told[s]
         \/ ~told[s] /\ told'[s] = TRUE /\ from = "run" /\ to = "exitCb",
         from \in PumpInHost \/ to \notin PumpInHost \/ cbs[s]
  PROVE  UsesStep(r)
<1>1. /\ Works(s) /\ pump[s] = from /\ pump'[s] = to
      /\ \A t \in Sessions : t # s => pump'[t] = pump[t]
      /\ phase' = phase /\ cbs' = cbs /\ watcher' = watcher
  BY PumpSteps1 DEF Sound
<1>2. CASE r # s
  BY <1>1, <1>2, StaysUsed
<1>3. CASE r = s /\ (to \in PumpInHost <=> from \in PumpInHost)
  <2>1. ~ (from = "run" /\ to = "exitCb")
    BY <1>3 DEF PumpInHost
  <2>. QED
    BY <1>1, <1>3, <2>1, StaysUsed
<1>4. CASE r = s /\ to \in PumpInHost /\ from \notin PumpInHost
  <2>1. "pump" \notin InHostOf(s) /\ InHostOf(s)' = InHostOf(s) \cup {"pump"}
    BY <1>1, <1>4 DEF InHostOf
  <2>. QED
    BY <1>1, <1>4, <2>1, EntersUsed
<1>5. CASE r = s /\ to \notin PumpInHost /\ from \in PumpInHost
  <2>1. "pump" \in InHostOf(s) /\ InHostOf(s)' = InHostOf(s) \ {"pump"}
    BY <1>1, <1>5 DEF InHostOf
  <2>2. told'[s] = told[s]
    BY <1>5 DEF PumpInHost
  <2>. QED
    BY <1>1, <1>5, <2>1, <2>2, LeavesUsed
<1>. QED
  BY <1>2, <1>3, <1>4, <1>5

LEMMA PumpsUse ==
  ASSUME Sound, NEW s \in Sessions, NEW r \in Sessions,
         PumpParses(s) \/ PumpStep(s)
  PROVE  UsesStep(r)
<1>1. /\ {"run", "titleCb", "parsed", "titlePost", "renderCb", "renderPost",
          "exitCb", "done"} \subseteq PumpSteps
      /\ PumpInHost = {"titleCb", "titlePost", "renderCb", "renderPost", "exitCb"}
  BY DEF PumpSteps, PumpInHost
<1>2. CASE PumpParses(s)
  <2>1. \/ PumpGoes(s, "run", "parsed")
        \/ PumpGoes(s, "run", "titleCb") /\ cbs[s]
    BY <1>2, ZenonT(30) DEF PumpParses
  <2>2. told' = told
    BY <1>2, Zenon DEF PumpParses
  <2>. QED
    BY <1>1, <2>1, <2>2, PumpUses
<1>3. CASE PumpTitle(s)
  <2>1. told' = told /\ (PumpGoes(s, "titleCb", "titlePost")
                         \/ PumpGoes(s, "titlePost", "parsed"))
    BY <1>3 DEF PumpTitle
  <2>. QED
    BY <1>1, <2>1, PumpUses
<1>4. CASE PumpRenders(s)
  <2>1. told' = told
    BY <1>4 DEF PumpRenders
  <2>2. \/ PumpGoes(s, "parsed", "renderCb") /\ cbs[s]
        \/ PumpGoes(s, "parsed", "run")
        \/ PumpGoes(s, "renderCb", "renderPost")
        \/ PumpGoes(s, "renderPost", "run")
    BY <1>4 DEF PumpRenders
  <2>. QED
    BY <1>1, <2>1, <2>2, PumpUses
<1>5. CASE PumpTells(s)
  <2>1. CASE told' = told /\ PumpGoes(s, "exitCb", "done")
    BY <1>1, <2>1, PumpUses
  <2>2. CASE /\ PumpGoes(s, "run", IF told[s] \/ ~cbs[s] THEN "done" ELSE "exitCb")
             /\ told' = [told EXCEPT ![s] = @ \/ cbs[s]]
    <3>1. /\ \A t \in Sessions : t # s => told'[t] = told[t]
          /\ told'[s] = (told[s] \/ cbs[s])
          /\ told[s] \in BOOLEAN /\ cbs[s] \in BOOLEAN
      BY <2>2, Zenon DEF Sound, TypeOK
    <3>2. CASE told[s] \/ ~cbs[s]
      <4>1. PumpGoes(s, "run", "done") /\ told'[s] = told[s]
        BY <2>2, <3>1, <3>2
      <4>. QED
        BY <1>1, <3>1, <4>1, PumpUses
    <3>3. CASE ~told[s] /\ cbs[s]
      <4>1. PumpGoes(s, "run", "exitCb") /\ told'[s] = TRUE
        BY <2>2, <3>1, <3>3
      <4>. QED
        BY <1>1, <3>1, <3>3, <4>1, PumpUses
    <3>. QED
      BY <3>1, <3>2, <3>3
  <2>. QED
    BY <1>5, <2>1, <2>2 DEF PumpTells
<1>. QED
  BY <1>2, <1>3, <1>4, <1>5 DEF PumpStep

LEMMA WatcherUses ==
  ASSUME Sound, NEW s \in Sessions, NEW r \in Sessions, WatcherTells(s)
  PROVE  UsesStep(r)
<1>1. /\ Works(s) /\ UNCHANGED <<phase, cbs, pump>>
      /\ watcher \in [Sessions -> {"none", "run", "exitCb", "done"}]
      /\ told \in [Sessions -> BOOLEAN] /\ cbs \in [Sessions -> BOOLEAN]
  BY DEF WatcherTells, Sound, TypeOK
<1>2. CASE /\ watcher[s] = "run"
           /\ watcher' = [watcher EXCEPT ![s] = IF told[s] \/ ~cbs[s]
                                                THEN "done" ELSE "exitCb"]
           /\ told' = [told EXCEPT ![s] = @ \/ cbs[s]]
  <2>1. /\ \A t \in Sessions : t # s => told'[t] = told[t]
        /\ told'[s] = (told[s] \/ cbs[s])
        /\ told[s] \in BOOLEAN /\ cbs[s] \in BOOLEAN
    BY <1>1, <1>2, Zenon
  <2>2. /\ \A t \in Sessions : t # s => watcher'[t] = watcher[t]
        /\ watcher'[s] = IF told[s] \/ ~cbs[s] THEN "done" ELSE "exitCb"
    BY <1>1, <1>2
  <2>3. CASE r # s
    BY <1>1, <2>1, <2>2, <2>3, StaysUsed
  <2>4. CASE r = s /\ (told[s] \/ ~cbs[s])
    <3>1. InHostOf(s)' = InHostOf(s) /\ CloserOf(s)' = CloserOf(s)
      BY <1>1, <1>2, <2>2, <2>4 DEF InHostOf, CloserOf
    <3>2. told'[s] = told[s]
      BY <2>1, <2>4
    <3>. QED
      BY <1>1, <2>4, <3>1, <3>2 DEF UsesStep, Contract!vars
  <2>5. CASE r = s /\ ~told[s] /\ cbs[s]
    <3>1. told'[s] = TRUE /\ watcher'[s] = "exitCb"
      BY <2>1, <2>2, <2>5
    <3>2. "watcher" \notin InHostOf(s) /\ InHostOf(s)' = InHostOf(s) \cup {"watcher"}
      BY <1>1, <1>2, <3>1 DEF InHostOf
    <3>. QED
      BY <1>1, <2>5, <3>1, <3>2, EntersUsed
  <2>. QED
    BY <2>1, <2>3, <2>4, <2>5
<1>3. CASE watcher[s] = "exitCb" /\ watcher' = [watcher EXCEPT ![s] = "done"]
           /\ told' = told
  <2>1. /\ \A t \in Sessions : t # s => watcher'[t] = watcher[t]
        /\ watcher'[s] = "done"
    BY <1>1, <1>3
  <2>2. CASE r # s
    BY <1>1, <1>3, <2>1, <2>2, StaysUsed
  <2>3. CASE r = s
    <3>1. "watcher" \in InHostOf(s) /\ InHostOf(s)' = InHostOf(s) \ {"watcher"}
      BY <1>1, <1>3, <2>1 DEF InHostOf
    <3>. QED
      BY <1>1, <1>3, <2>3, <3>1, LeavesUsed
  <2>. QED
    BY <2>2, <2>3
<1>. QED
  BY <1>2, <1>3 DEF WatcherTells

(* The UI thread.                                                          *)
LEMMA QuietUses ==
  ASSUME NEW r \in Sessions, UNCHANGED <<phase, cbs, told, pump, watcher>>
  PROVE  UsesStep(r)
BY StaysUsed

LEMMA StartUses ==
  ASSUME Sound, NewQuiet, NEW r \in Sessions, StartSession
  PROVE  UsesStep(r)
<1>1. UNCHANGED <<cbs, told>>
  BY Zenon DEF StartSession, sessVars
<1>2. CASE /\ made' = made + 1
           /\ phase' = [phase EXCEPT ![made'] = "started"]
           /\ pump' = [pump EXCEPT ![made'] = "run"]
           /\ watcher' = [watcher EXCEPT ![made'] = "run"]
  <2>1. /\ made \in Nat /\ pump \in [Sessions -> PumpSteps]
        /\ phase \in [Sessions -> {"new", "started", "closing", "freed"}]
        /\ watcher \in [Sessions -> {"none", "run", "exitCb", "done"}]
    BY Numbers DEF Sound, TypeOK
  <2>2. CASE r # made'
    BY <1>1, <1>2, <2>1, <2>2, StaysUsed
  <2>3. CASE r = made'
    <3>1. phase[r] = "new" /\ pump[r] = "none" /\ watcher[r] = "none"
      BY <1>2, <2>1, <2>3 DEF Sound, Ordered, Sessions, NewQuiet
    <3>2. phase'[r] = "started" /\ pump'[r] = "run" /\ watcher'[r] = "run"
      BY <1>2, <2>1, <2>3
    <3>3. InHostOf(r)' = InHostOf(r) /\ CloserOf(r)' = CloserOf(r)
      BY <3>1, <3>2 DEF InHostOf, CloserOf, PumpInHost
    <3>. QED
      BY <1>1, <3>1, <3>2, <3>3 DEF UsesStep, Contract!Next, Contract!Start
  <2>. QED
    BY <2>2, <2>3
<1>3. CASE UNCHANGED <<phase, pump, watcher>>
  BY <1>1, <1>3, QuietUses
<1>. QED
  BY <1>2, <1>3, Zenon DEF StartSession, sessVars

LEMMA StopsUse ==
  ASSUME Sound, Stopping, NEW r \in Sessions,
         StopSilences \/ StopTerminates \/ StopDestroys
  PROVE  UsesStep(r)
<1>1. /\ ui \in StopSteps /\ session # 0 => phase[session] # "freed"
      /\ ui \in StopSteps => session \in Sessions
      /\ phase \in [Sessions -> {"new", "started", "closing", "freed"}]
      /\ cbs \in [Sessions -> BOOLEAN]
  BY Basics DEF StopSteps
<1>2. UNCHANGED <<told, pump, watcher>>
  BY DEF StopSilences, StopTerminates, StopDestroys, StopStep
<1>3. ASSUME ui \in StopSteps, cbs' = [cbs EXCEPT ![session] = FALSE], phase' = phase
      PROVE  UsesStep(r)
  <2>1. cbs'[session] = FALSE /\ \A t \in Sessions : t # session => cbs'[t] = cbs[t]
    BY <1>1, <1>3, Zenon
  <2>2. CASE r # session
    BY <1>2, <1>3, <2>1, <2>2, StaysUsed
  <2>3. CASE r = session
    <3>1. InHostOf(r)' = InHostOf(r) /\ CloserOf(r)' = CloserOf(r)
      BY <1>2, <1>3 DEF InHostOf, CloserOf
    <3>2. session # 0
      BY <2>3 DEF Sessions
    <3>. QED
      BY <1>1, <1>2, <1>3, <2>1, <2>3, <3>1, <3>2
         DEF UsesStep, Contract!Next, Contract!Silence
  <2>. QED
    BY <2>2, <2>3
<1>4. CASE StopSilences \/ (StopStep("clear", "join") /\ phase' = phase
                            /\ cbs' = [cbs EXCEPT ![session] = FALSE])
  BY <1>3, <1>4 DEF StopSilences, StopStep, UiGoes, StopSteps
<1>5. CASE StopTerminates
  BY <1>2, <1>5, QuietUses DEF StopTerminates
<1>6. CASE /\ StopStep("destroy", "clear") /\ cbs' = cbs
           /\ phase' = [phase EXCEPT ![session] = "closing"]
  <2>1. ui = "destroy" /\ session \in Sessions /\ session # 0
    BY <1>1, <1>6 DEF StopStep, UiGoes, StopSteps, Sound, Ordered
  <2>2. phase[session] \in {"new", "started"}
    BY <1>1, <2>1 DEF Stopping, StopSteps
  <2>3. CASE r # session
    BY <1>1, <1>2, <1>6, <2>3, StaysUsed
  <2>4. CASE r = session
    <3>1. phase'[r] = "closing" /\ cbs' = cbs /\ InHostOf(r)' = InHostOf(r)
      BY <1>1, <1>2, <1>6, <2>1, <2>4 DEF InHostOf
    <3>2. CloserOf(r)' = "host"
      BY <3>1 DEF CloserOf
    <3>. QED
      BY <1>2, <2>2, <2>4, <3>1, <3>2 DEF UsesStep, Contract!Next, Contract!Close
  <2>. QED
    BY <2>3, <2>4
<1>. QED
  BY <1>4, <1>5, <1>6 DEF StopDestroys

LEMMA ReturnUses ==
  ASSUME Sound, Stopping, NEW r \in Sessions, StopReturns
  PROVE  UsesStep(r)
<1>1. /\ ui = "join" /\ Joined(session) /\ Over(session)
      /\ phase' = [phase EXCEPT ![session] = "freed"]
      /\ UNCHANGED <<cbs, told>>
      /\ session \in Sessions
      /\ phase \in [Sessions -> {"new", "started", "closing", "freed"}]
      /\ pump \in [Sessions -> PumpSteps]
      /\ watcher \in [Sessions -> {"none", "run", "exitCb", "done"}]
  <2>1. /\ ui = "join" /\ Joined(session) /\ Over(session)
        /\ phase' = [phase EXCEPT ![session] = "freed"]
        /\ UNCHANGED <<cbs, told>>
    BY DEF StopReturns
  <2>. QED
    BY <2>1, Basics
<1>2. CASE r # session
  <2>1. pump'[r] = pump[r] /\ watcher'[r] = watcher[r] /\ phase'[r] = phase[r]
    BY <1>1, <1>2 DEF Over
  <2>. QED
    BY <1>1, <2>1, StaysUsed
<1>3. CASE r = session
  <2>1. pump'[r] = "done" /\ watcher'[r] = "done" /\ phase'[r] = "freed"
    BY <1>1, <1>3 DEF Over, Joined
  <2>2. phase[r] = "closing" /\ ~cbs[r]
    BY <1>1, <1>3 DEF Stopping
  <2>3. InHostOf(r) = {} /\ InHostOf(r)' = {}
    BY <1>1, <1>3, <2>1 DEF InHostOf, Joined, PumpInHost
  <2>4. CloserOf(r) = "host" /\ CloserOf(r)' = "host"
    BY <2>1, <2>2 DEF CloserOf
  <2>. QED
    BY <1>1, <2>1, <2>2, <2>3, <2>4 DEF UsesStep, Contract!Next, Contract!Free
<1>. QED
  BY <1>2, <1>3

(* Every step is one of the contract of every session, or leaves it alone. *)
LEMMA StepUses ==
  ASSUME Sound, Stopping, NewQuiet, [Next]_vars, NEW r \in Sessions
  PROVE  UsesStep(r)
<1>1. CASE UiStep
  <2>1. CASE StartReturns \/ HostRenders
    BY <2>1, QuietUses DEF StartReturns, HostRenders, sessVars
  <2>. QED
    BY <1>1, <2>1, StartUses, StopsUse, ReturnUses DEF UiStep
<1>2. CASE Dispatch \/ HostCall \/ HostScrolls
  BY <1>2, QuietUses DEF Dispatch, HandleRender, HandleTitle, HandleExit, HostCall,
     HostScrolls, sessVars
<1>3. ASSUME NEW s \in Sessions, PumpParses(s) \/ PumpStep(s) \/ WatcherTells(s)
      PROVE  UsesStep(r)
  BY <1>3, PumpsUse, WatcherUses
<1>4. CASE \E s \in Sessions : ShellEnds(s)
  BY <1>4, QuietUses DEF ShellEnds
<1>5. CASE UNCHANGED vars
  BY <1>5, QuietUses DEF vars, sessVars
<1>. QED
  BY <1>1, <1>2, <1>3, <1>4, <1>5 DEF Next

LEMMA QuietKept ==
  ASSUME Sound, NewQuiet, [Next]_vars
  PROVE  NewQuiet'
<1>0. /\ phase \in [Sessions -> {"new", "started", "closing", "freed"}]
      /\ pump \in [Sessions -> PumpSteps] /\ made \in Nat
      /\ watcher \in [Sessions -> {"none", "run", "exitCb", "done"}]
      /\ ui \in StopSteps => session \in Sessions
  BY Basics DEF StopSteps
<1>1. CASE UNCHANGED <<phase, pump, watcher>>
  BY <1>1 DEF NewQuiet
<1>2. ASSUME NEW s \in Sessions, Works(s), phase' = phase,
             \A t \in Sessions : t # s => pump'[t] = pump[t] /\ watcher'[t] = watcher[t]
      PROVE  NewQuiet'
  BY <1>2 DEF NewQuiet, Works
<1>3. ASSUME NEW s \in Sessions, PumpParses(s) \/ PumpStep(s) PROVE NewQuiet'
  <2>1. PICK from, to : PumpGoes(s, from, to)
    BY <1>3, Zenon DEF PumpParses, PumpStep, PumpTitle, PumpRenders, PumpTells
  <2>2. /\ Works(s) /\ phase' = phase /\ watcher' = watcher
        /\ pump' = [pump EXCEPT ![s] = to]
    BY <2>1 DEF PumpGoes
  <2>. QED
    BY <1>0, <1>2, <2>2
<1>4. ASSUME NEW s \in Sessions, WatcherTells(s) PROVE NewQuiet'
  <2>1. /\ Works(s) /\ phase' = phase /\ pump' = pump
        /\ \A t \in Sessions : t # s => watcher'[t] = watcher[t]
    BY <1>0, <1>4 DEF WatcherTells
  <2>. QED
    BY <1>2, <2>1
<1>5. CASE StartSession
  <2>1. CASE UNCHANGED <<phase, pump, watcher>>
    BY <1>1, <2>1
  <2>2. CASE /\ phase' = [phase EXCEPT ![made'] = "started"]
             /\ pump' = [pump EXCEPT ![made'] = "run"]
             /\ watcher' = [watcher EXCEPT ![made'] = "run"]
    BY <1>0, <2>2 DEF NewQuiet
  <2>. QED
    BY <1>5, <2>1, <2>2, Zenon DEF StartSession, sessVars
<1>6. CASE StopSilences \/ StopTerminates \/ StopDestroys
  <2>1. /\ ui \in StopSteps /\ UNCHANGED <<pump, watcher>>
        /\ phase' \in {phase, [phase EXCEPT ![session] = "closing"]}
    BY <1>6 DEF StopSilences, StopTerminates, StopDestroys, StopStep, UiGoes, StopSteps
  <2>. QED
    BY <1>0, <2>1 DEF NewQuiet
<1>7. CASE StopReturns
  <2>1. /\ ui \in StopSteps /\ Over(session)
        /\ phase' = [phase EXCEPT ![session] = "freed"]
    BY <1>7 DEF StopReturns, StopSteps
  <2>. QED
    BY <1>0, <2>1 DEF NewQuiet, Over
<1>8. CASE Dispatch \/ HostCall \/ HostScrolls \/ StartReturns \/ HostRenders
  BY <1>1, <1>8 DEF Dispatch, HandleRender, HandleTitle, HandleExit, HostCall,
     HostScrolls, StartReturns, HostRenders, sessVars
<1>9. CASE (\E s \in Sessions : ShellEnds(s)) \/ UNCHANGED vars
  BY <1>1, <1>9 DEF ShellEnds, vars, sessVars
<1>. QED
  BY <1>3, <1>4, <1>5, <1>6, <1>7, <1>8, <1>9 DEF Next, UiStep

LEMMA StoppingKept ==
  ASSUME Sound, Stopping, [Next]_vars
  PROVE  Stopping'
<1>0. /\ phase \in [Sessions -> {"new", "started", "closing", "freed"}]
      /\ cbs \in [Sessions -> BOOLEAN] /\ made \in Nat
      /\ ui \in StopSteps => session \in Sessions
      /\ {"clear", "join"} \subseteq StopSteps
  BY Basics DEF StopSteps
<1>1. CASE UNCHANGED <<phase, cbs, ui, session>>
  BY <1>1 DEF Stopping
<1>2. CASE UNCHANGED phase /\ ui \notin {"clear", "join"} /\ ui' \notin {"clear", "join"}
  BY <1>2 DEF Stopping
<1>3. CASE \E s \in Sessions : \/ PumpParses(s) \/ PumpStep(s)
                               \/ WatcherTells(s) \/ ShellEnds(s)
  <2>1. UNCHANGED <<phase, cbs, ui, session>>
    BY <1>3, ZenonT(30) DEF PumpParses, PumpStep, PumpTitle, PumpRenders, PumpTells,
       PumpGoes, WatcherTells, ShellEnds, ctlVars
  <2>. QED
    BY <1>1, <2>1
<1>4. CASE StartSession
  <2>1. ui = "start" /\ ui' \in {"idle", "starting", "destroy"}
    BY <1>4 DEF StartSession, UiGoes
  <2>2. \/ UNCHANGED phase
        \/ phase' = [phase EXCEPT ![made'] = "started"]
    BY <1>4 DEF StartSession, sessVars
  <2>3. \A s \in Sessions : phase'[s] = "closing" => phase[s] = "closing"
    BY <1>0, <2>2
  <2>. QED
    BY <2>1, <2>3 DEF Stopping
<1>5. CASE StopSilences
  <2>1. ui = "silence" /\ ui' = "terminate" /\ phase' = phase
    BY <1>5 DEF StopSilences, StopStep, UiGoes
  <2>. QED
    BY <1>2, <2>1
<1>6. CASE StopTerminates
  <2>1. ui = "terminate" /\ ui' = "destroy" /\ phase' = phase
    BY <1>6 DEF StopTerminates, StopStep, UiGoes
  <2>. QED
    BY <1>2, <2>1
<1>7. CASE StopStep("destroy", "clear") /\ phase' = [phase EXCEPT ![session] = "closing"]
  <2>1. /\ ui = "destroy" /\ ui' = "clear" /\ session' = session /\ session \in Sessions
    BY <1>0, <1>7 DEF StopStep, UiGoes, StopSteps
  <2>. QED
    BY <1>0, <1>7, <2>1 DEF Stopping
<1>8. CASE /\ StopStep("clear", "join") /\ phase' = phase
           /\ cbs' = [cbs EXCEPT ![session] = FALSE]
  <2>1. /\ ui = "clear" /\ ui' = "join" /\ session' = session /\ session \in Sessions
    BY <1>0, <1>8 DEF StopStep, UiGoes
  <2>2. cbs'[session] = FALSE
    BY <1>0, <1>8, <2>1, Zenon
  <2>. QED
    BY <1>8, <2>1, <2>2 DEF Stopping
<1>9. CASE StopReturns
  <2>1. /\ ui = "join" /\ session \in Sessions /\ ui' \in {"idle", "start"}
        /\ phase' = [phase EXCEPT ![session] = "freed"]
    BY <1>0, <1>9 DEF StopReturns, Then
  <2>. QED
    BY <1>0, <2>1 DEF Stopping
<1>10. CASE Dispatch \/ HostCall \/ HostScrolls \/ StartReturns \/ HostRenders
  <2>1. /\ phase' = phase /\ ui \notin {"clear", "join"}
        /\ ui' \notin {"clear", "join"}
    BY <1>10 DEF Dispatch, HandleRender, HandleTitle, HandleExit, Message, HostCall,
       StopWith, Then, HostScrolls, StartReturns, HostRenders, UiGoes, sessVars
  <2>. QED
    BY <1>2, <2>1
<1>11. CASE UNCHANGED vars
  BY <1>1, <1>11 DEF vars, ctlVars, sessVars
<1>. QED
  BY <1>3, <1>4, <1>5, <1>6, <1>7, <1>8, <1>9, <1>10, <1>11
     DEF Next, UiStep, StopDestroys

(* The control uses every session it makes as SessionContract has it, and  *)
(* the sessions keep to it: on_exit comes once, no closure is entered once *)
(* withdrawn, and what is freed was being destroyed, was silenced and has  *)
(* no thread in the control (Ctrl.pas 1257-1348, 385-390).                 *)
THEOREM EachKeepsContract == Spec => UsesContract
<1>0. Init => /\ ui = "idle"
              /\ phase = [s \in Sessions |-> "new"]
              /\ pump = [s \in Sessions |-> "none"]
              /\ watcher = [s \in Sessions |-> "none"]
  BY Zenon DEF Init
<1>1. ASSUME Init PROVE Sound /\ Stopping /\ NewQuiet
  <2>1. /\ \A s \in Sessions : phase[s] = "new" /\ pump[s] = "none" /\ watcher[s] = "none"
        /\ ui = "idle"
    BY <1>0, <1>1
  <2>. QED
    BY <1>1, <2>1, Begins DEF Sound, Stopping, NewQuiet
<1>2. Sound /\ Stopping /\ NewQuiet /\ [Next]_vars => Sound' /\ Stopping' /\ NewQuiet'
  BY StepKeeps, StoppingKept, QuietKept
<1>3. ASSUME Init, NEW s \in Sessions PROVE Contract(s)!Init
  <2>1. /\ phase[s] = "new" /\ pump[s] = "none" /\ watcher[s] = "none"
    BY <1>0, <1>3
  <2>2. cbs[s] = TRUE /\ told[s] = FALSE
    BY <1>3, Zenon DEF Init
  <2>. QED
    BY <2>1, <2>2 DEF Contract!Init, InHostOf, CloserOf, PumpInHost
<1>4. Sound /\ Stopping /\ NewQuiet /\ [Next]_vars =>
        \A s \in Sessions : Contract(s)!Next \/ UNCHANGED Contract(s)!vars
  BY StepUses DEF UsesStep
<1>5. Init => \A s \in Sessions : Contract(s)!Init
  BY <1>3
<1>. QED
  BY <1>1, <1>2, <1>4, <1>5, PTL DEF Spec, UsesContract
=============================================================================
