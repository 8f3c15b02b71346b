---------------------------- MODULE PtyHostProofs ----------------------------
(***************************************************************************)
(* The ledger of a PtyHost's handles and the job of its tree, whichever    *)
(* call fails and whatever the processes start: which handles are open     *)
(* follows from the place in spawn() or in Drop and from the threads that  *)
(* run (Ledger), and who is in the job from when its line began (Tree).    *)
(***************************************************************************)
EXTENDS PtyHost, TLAPS

(* What the PtyHost holds at each place.                                   *)
Held(a) ==
  CASE a = "pipeOut" -> {"inRead", "inWrite"}
    [] a = "console" -> {"inRead", "inWrite", "outRead", "outWrite"}
    [] a = "attrInit" -> Ours
    [] a \in {"attrUpdate", "job"} -> Ours \cup {"attrs"}
    [] a \in {"jobLimit", "process"} -> Ours \cup {"attrs", "job"}
    [] a \in {"assign", "up", "dropBody"} ->
         Ours \cup {"attrs", "job", "process", "thread"}
    [] a = "dropPipes" -> {"inWrite", "outRead", "job"}
    [] a = "dropJob" -> {"job"}
    [] OTHER -> {}

Threads == {readerH, writerH} \ {"none"}

(* What is open is what the PtyHost holds and what its threads hold; there *)
(* are threads from the end of spawn() on, and no writer when Drop begins. *)
Ledger ==
  /\ host /\ at # "failed" => open = Held(at) \cup Threads
  /\ host /\ at = "failed" => open = LeftOpen(lost)
  /\ at # "failed" => lost = "none"
  /\ Threads # {} => host /\ at \in {"up", "gone"} \cup DropSteps
  /\ at \in DropSteps \cup {"gone"} => writerH = "none"
  /\ ~host => open = {}

(* Before the shell is started there is nobody; before it is in the job    *)
(* there is nobody but early processes, which never are; a failure leaves  *)
(* no shell.                                                               *)
Tree ==
  /\ at \in Range(Calls) \ {"assign"} => used = {}
  /\ at = "assign" => Shell \in used /\ Shell \notin early /\ inJob = {}
                      /\ running \subseteq {Shell} \cup early
  /\ early \cap inJob = {}
  /\ at = "up" => running \subseteq inJob \cup early
  /\ at = "failed" => Shell \notin running /\ (Shell \in used \/ running = {})

Books == Ledger /\ Tree

LEMMA CallNames ==
  Range(Calls) = {"pipeIn", "pipeOut", "console", "attrInit", "attrUpdate",
                  "job", "jobLimit", "process", "assign"}
<1>1. DOMAIN Calls = 1..9
  BY DEF Calls
<1>2. Range(Calls) = {Calls[i] : i \in 1..9}
  BY <1>1 DEF Range
<1>3. 1..9 = {1, 2, 3, 4, 5, 6, 7, 8, 9}
  OBVIOUS
<1>. QED
  BY <1>2, <1>3 DEF Calls

(* spawn() makes one call after the other.                                 *)
LEMMA CallOrder ==
  /\ Following("pipeIn") = "pipeOut" /\ Following("pipeOut") = "console"
  /\ Following("console") = "attrInit" /\ Following("attrInit") = "attrUpdate"
  /\ Following("attrUpdate") = "job" /\ Following("job") = "jobLimit"
  /\ Following("jobLimit") = "process" /\ Following("process") = "assign"
  /\ Following("assign") = "up"
<1>1. DOMAIN Calls = 1..9 /\ Len(Calls) = 9
  BY DEF Calls
<1>2. Last(Calls) = "assign"
  BY <1>1 DEF Last, Calls
<1>3. \A i, j \in 1..9 : Calls[i] = Calls[j] => i = j
  <2>1. 1..9 = {1, 2, 3, 4, 5, 6, 7, 8, 9}
    OBVIOUS
  <2>. QED
    BY <2>1 DEF Calls
<1>4. \A i \in 1..8 : (CHOOSE j \in DOMAIN Calls : Calls[j] = Calls[i]) = i
  BY <1>1, <1>3
<1>5. \A i \in 1..8 : Calls[i] # "assign" => Following(Calls[i]) = Calls[1 + i]
  BY <1>2, <1>4 DEF Following
<1>6. Following("assign") = "up"
  BY <1>2 DEF Following
<1>7. /\ Following(Calls[1]) = Calls[2] /\ Following(Calls[2]) = Calls[3]
      /\ Following(Calls[3]) = Calls[4] /\ Following(Calls[4]) = Calls[5]
      /\ Following(Calls[5]) = Calls[6] /\ Following(Calls[6]) = Calls[7]
      /\ Following(Calls[7]) = Calls[8] /\ Following(Calls[8]) = Calls[9]
  BY <1>5 DEF Calls
<1>. QED
  BY <1>6, <1>7 DEF Calls

-----------------------------------------------------------------------------
(* The ledger.                                                             *)

(* A call that succeeds leads to what is held at the next; one that fails  *)
(* closes what is held, and nothing else.                                  *)
LEMMA Booked ==
  /\ \A c \in Range(Calls) :
       /\ (Held(c) \cup Gained(c)) \ PassedOn(c) = Held(Following(c))
       /\ Undone(c) \subseteq Held(c)
       /\ Held(c) \ Undone(c) = LeftOpen(c)
  /\ \A d \in DropSteps :
       /\ Held(d) \ Closes(d) = Held(FollowingDrop(d))
       /\ Closes(d) \subseteq Held(d)
       /\ FollowingDrop(d) \in {"dropPipes", "dropJob", "gone"}
  /\ \A a \in States : Held(a) \subseteq Handles \ Copies
<1>1. ASSUME NEW c \in Range(Calls)
      PROVE  (Held(c) \cup Gained(c)) \ PassedOn(c) = Held(Following(c))
  <2>1. CASE c \in {"pipeIn", "pipeOut", "console"}
    BY <2>1, CallOrder DEF Held, Gained, PassedOn, Ours
  <2>2. CASE c \in {"attrInit", "attrUpdate", "job"}
    BY <2>2, CallOrder DEF Held, Gained, PassedOn, Ours
  <2>3. CASE c \in {"jobLimit", "process", "assign"}
    BY <2>3, CallOrder DEF Held, Gained, PassedOn, Ours
  <2>. QED
    BY <2>1, <2>2, <2>3, CallNames
<1>2. ASSUME NEW c \in Range(Calls)
      PROVE  /\ Undone(c) \subseteq Held(c)
             /\ Held(c) \ Undone(c) = LeftOpen(c)
  BY CallNames DEF Held, Undone, LeftOpen, Ours
<1>3. ASSUME NEW d \in DropSteps
      PROVE  /\ Held(d) \ Closes(d) = Held(FollowingDrop(d))
             /\ Closes(d) \subseteq Held(d)
             /\ FollowingDrop(d) \in {"dropPipes", "dropJob", "gone"}
  BY DEF DropSteps, Held, Closes, FollowingDrop, Ours
<1>4. ASSUME NEW a \in States PROVE Held(a) \subseteq Handles \ Copies
  BY DEF Held, Handles, Copies, Ours
<1>. QED
  BY <1>1, <1>2, <1>3, <1>4

LEMMA Places ==
  /\ \A c \in Range(Calls) : c \notin DropSteps \cup {"up", "failed", "gone"}
  /\ \A c \in Range(Calls) : Following(c) \in States \ (DropSteps \cup {"failed", "gone"})
  /\ Range(Calls) \subseteq States /\ DropSteps \subseteq States
BY CallNames, CallOrder DEF States, DropSteps

LEMMA Begins == Init => TypeOK /\ Books
BY CallNames DEF Init, TypeOK, Books, Ledger, Tree, Threads, States, Held, DropSteps

LEMMA SpawnKeeps ==
  ASSUME TypeOK, Books, NEW c \in Range(Calls), Spawn(c)
  PROVE  TypeOK' /\ Books'
<1>1. /\ at = c /\ host /\ host' = host /\ readerH' = readerH /\ writerH' = writerH
      /\ c \in States /\ Threads' = Threads
  BY Places DEF Spawn, Threads
<1>2. Threads = {} /\ open = Held(c) /\ lost = "none"
  BY <1>1, Places DEF Books, Ledger
<1>3. /\ c # "assign" => used = {} /\ running = {} /\ inJob = {} /\ onCon = {}
                         /\ early = {}
      /\ c = "assign" => /\ Shell \in used /\ Shell \notin early /\ inJob = {}
                         /\ running \subseteq {Shell} \cup early
      /\ early \cap inJob = {}
  BY <1>1 DEF Books, Tree, TypeOK
<1>4. CASE Succeeds(c)
  <2>1. at' = Following(c) /\ at' \in States \ (DropSteps \cup {"failed", "gone"})
    BY <1>4, Places DEF Succeeds
  <2>2. open' = Held(at')
    BY <1>2, <1>4, <2>1, Booked DEF Succeeds
  <2>3. open' \subseteq Handles
    BY <2>1, <2>2, Booked
  <2>4. running' \subseteq used' /\ used' \subseteq Procs /\ onCon' \subseteq used'
    BY <1>4, PtyAssumption DEF Succeeds, TypeOK
  <2>5. /\ inJob' \subseteq used' /\ early' \subseteq used'
        /\ lost' = "none"
    BY <1>2, <1>3, <1>4 DEF Succeeds, TypeOK
  <2>6. TypeOK'
    BY <1>1, <2>1, <2>3, <2>4, <2>5 DEF TypeOK
  <2>7. Ledger'
    BY <1>1, <1>2, <2>1, <2>2, <2>5 DEF Ledger, Books
  <2>8. Tree'
    <3>1. CASE c \notin {"process", "assign"}
      <4>1. /\ at' \notin {"assign", "up", "failed"} /\ used' = used
            /\ early' = early /\ inJob' = inJob
        BY <1>4, <2>1, <3>1, CallNames, CallOrder DEF Succeeds
      <4>. QED
        BY <1>3, <3>1, <4>1 DEF Tree
    <3>2. CASE c = "process"
      <4>1. /\ at' = "assign" /\ used' = {Shell} /\ running' = {Shell}
            /\ inJob' = inJob /\ early' = early
        BY <1>4, <2>1, <3>2, CallOrder DEF Succeeds
      <4>. QED
        BY <1>3, <3>2, <4>1 DEF Tree
    <3>3. CASE c = "assign"
      <4>1. /\ at' = "up" /\ running' = running /\ inJob' = inJob \cup {Shell}
            /\ early' = early
        BY <1>4, <2>1, <3>3, CallOrder DEF Succeeds
      <4>. QED
        BY <1>3, <3>3, <4>1, CallNames DEF Tree
    <3>. QED
      BY <3>1, <3>2, <3>3
  <2>. QED
    BY <2>6, <2>7, <2>8 DEF Books
<1>5. CASE Fails(c)
  <2>1. at' = "failed" /\ open' = open \ Undone(c) /\ lost' = c
    BY <1>5 DEF Fails
  <2>2. open' = LeftOpen(c)
    BY <1>2, <2>1, Booked
  <2>3. at' \in States /\ at' \notin DropSteps \cup {"gone"}
    BY <2>1 DEF States, DropSteps
  <2>4. TypeOK'
    BY <1>1, <1>5, <2>1, <2>3 DEF TypeOK, Fails
  <2>5. Ledger'
    BY <1>1, <1>2, <2>1, <2>2, <2>3 DEF Ledger
  <2>6. Tree'
    BY <1>3, <1>5, <2>1, CallNames DEF Tree, Fails
  <2>. QED
    BY <2>4, <2>5, <2>6 DEF Books
<1>. QED
  BY <1>4, <1>5 DEF Spawn

(* The threads take and give back their copies.                            *)
LEMMA ThreadKeeps ==
  ASSUME TypeOK, Books, SpawnReader \/ SpawnWriter \/ ReaderEnds \/ WriterEnds
  PROVE  TypeOK' /\ Books'
<1>1. /\ at' = at /\ host /\ host' = host /\ running' = running /\ used' = used
      /\ inJob' = inJob /\ onCon' = onCon /\ early' = early /\ lost' = lost
  BY DEF SpawnReader, SpawnWriter, ReaderEnds, WriterEnds, procVars
<1>2. Held(at) \subseteq Handles \ Copies
  BY Booked DEF TypeOK
<1>3. /\ readerH' \in {"none", "outCopy"} /\ writerH' \in {"none", "inCopy"}
      /\ open' \subseteq Handles
  BY DEF SpawnReader, SpawnWriter, ReaderEnds, WriterEnds, Duplicate, TypeOK,
         Handles, Copies
<1>4. Threads' # {} => at \in {"up", "gone"} \cup DropSteps
  BY DEF SpawnReader, SpawnWriter, ReaderEnds, WriterEnds, Threads, Books, Ledger
<1>5. at \in DropSteps \cup {"gone"} => writerH' = "none"
  BY DEF SpawnReader, SpawnWriter, ReaderEnds, WriterEnds, Books, Ledger, DropSteps
<1>6. at # "failed" => open' = Held(at) \cup Threads'
  <2>1. SUFFICES ASSUME at # "failed" PROVE open' = Held(at) \cup Threads'
    OBVIOUS
  <2>2. open = Held(at) \cup Threads
    BY <1>1, <2>1 DEF Books, Ledger
  <2>3. CASE SpawnReader \/ SpawnWriter
    BY <2>2, <2>3 DEF SpawnReader, SpawnWriter, Threads, Duplicate
  <2>4. CASE ReaderEnds \/ WriterEnds
    BY <1>2, <2>2, <2>4 DEF ReaderEnds, WriterEnds, Threads, Copies, TypeOK
  <2>. QED
    BY <2>3, <2>4
<1>7. at # "failed"
  BY DEF SpawnReader, SpawnWriter, ReaderEnds, WriterEnds, Books, Ledger,
         Threads, DropSteps
<1>8. TypeOK'
  BY <1>1, <1>3 DEF TypeOK
<1>9. Ledger'
  BY <1>1, <1>4, <1>5, <1>6, <1>7 DEF Ledger, Books
<1>10. Tree'
  BY <1>1 DEF Tree, Books
<1>. QED
  BY <1>8, <1>9, <1>10 DEF Books

LEMMA DropKeeps ==
  ASSUME TypeOK, Books, StartDrop \/ \E d \in DropSteps : DropStep(d)
  PROVE  TypeOK' /\ Books'
<1>1. CASE StartDrop
  <2>1. /\ at = "up" /\ at' = "dropBody" /\ writerH = "none" /\ Threads' = Threads
        /\ open' = open /\ readerH' = readerH /\ writerH' = writerH
        /\ host' = host /\ running' = running /\ used' = used
        /\ inJob' = inJob /\ onCon' = onCon /\ early' = early /\ lost' = lost
    BY <1>1 DEF StartDrop, procVars, Threads
  <2>2. Held("dropBody") = Held("up")
    BY DEF Held
  <2>3. "dropBody" \in DropSteps /\ "dropBody" \in States
    BY DEF DropSteps, States
  <2>4. Tree'
    BY <2>1, CallNames DEF Tree, Books
  <2>. QED
    BY <2>1, <2>2, <2>3, <2>4 DEF TypeOK, Books, Ledger
<1>2. ASSUME NEW d \in DropSteps, DropStep(d) PROVE TypeOK' /\ Books'
  <2>1. /\ host /\ at = d /\ at' = FollowingDrop(d) /\ open' = open \ Closes(d)
        /\ running' \subseteq running /\ readerH' = readerH /\ writerH' = writerH
        /\ host' = host /\ used' = used /\ inJob' = inJob /\ onCon' = onCon
        /\ early' = early /\ lost' = lost /\ Threads' = Threads
    BY <1>2 DEF DropStep, Close, Threads
  <2>2. /\ Held(d) \ Closes(d) = Held(at') /\ Closes(d) \subseteq Held(d)
        /\ at' \in {"dropPipes", "dropJob", "gone"}
        /\ Held(d) \subseteq Handles \ Copies
    BY <2>1, Booked, Places
  <2>3. Threads \subseteq Copies
    BY DEF Threads, TypeOK, Copies
  <2>4. open = Held(d) \cup Threads
    BY <1>2, <2>1 DEF Books, Ledger, DropSteps
  <2>5. open' = Held(at') \cup Threads'
    BY <2>1, <2>2, <2>3, <2>4
  <2>6. /\ at' \in States /\ at' \in DropSteps \cup {"gone"}
        /\ at # "failed" /\ at' # "failed"
    BY <2>1, <2>2 DEF States, DropSteps
  <2>7. TypeOK'
    BY <2>1, <2>6 DEF TypeOK
  <2>8. Ledger'
    BY <2>1, <2>2, <2>5, <2>6 DEF Ledger, Books
  <2>9. Tree'
    BY <2>1, <2>2, CallNames DEF Tree, Books
  <2>. QED
    BY <2>7, <2>8, <2>9 DEF Books
<1>. QED
  BY <1>1, <1>2

LEMMA EndsKeep ==
  ASSUME TypeOK, Books,
         \/ Terminate \/ HostEnds
         \/ \E p \in Procs : ProcessEnds(p) \/ ConsoleKills(p)
  PROVE  TypeOK' /\ Books'
<1>1. CASE HostEnds
  <2>1. /\ host' = FALSE /\ open' = {} /\ running' \subseteq running
        /\ readerH' = "none" /\ writerH' = "none" /\ Threads' = {}
        /\ at' = at /\ used' = used /\ inJob' = inJob /\ onCon' = onCon
        /\ early' = early /\ lost' = lost
    BY <1>1 DEF HostEnds, Threads
  <2>2. TypeOK'
    BY <2>1 DEF TypeOK
  <2>3. Ledger'
    BY <2>1 DEF Ledger, Books
  <2>4. Tree'
    BY <2>1 DEF Tree, Books
  <2>. QED
    BY <2>2, <2>3, <2>4 DEF Books
<1>2. CASE Terminate \/ \E p \in Procs : ProcessEnds(p) \/ ConsoleKills(p)
  <2>1. /\ running' \subseteq running /\ at' = at /\ open' = open
        /\ readerH' = readerH /\ writerH' = writerH /\ host' = host
        /\ used' = used /\ inJob' = inJob /\ onCon' = onCon /\ Threads' = Threads
        /\ early' = early /\ lost' = lost
    BY <1>2 DEF Terminate, ProcessEnds, ConsoleKills, Threads
  <2>2. TypeOK'
    BY <2>1 DEF TypeOK
  <2>3. Ledger'
    BY <2>1 DEF Ledger, Books
  <2>4. Tree'
    BY <2>1 DEF Tree, Books
  <2>. QED
    BY <2>2, <2>3, <2>4 DEF Books
<1>. QED
  BY <1>1, <1>2

LEMMA ForkKeeps ==
  ASSUME TypeOK, Books, NEW p \in Procs, NEW q \in Procs, Fork(p, q)
  PROVE  TypeOK' /\ Books'
<1>1. /\ p \in running /\ running' = running \cup {q} /\ used' = used \cup {q}
      /\ inJob' = IF p \in inJob THEN inJob \cup {q} ELSE inJob
      /\ onCon' \subseteq onCon \cup {q}
      /\ at' = at /\ open' = open /\ readerH' = readerH /\ writerH' = writerH
      /\ host' = host /\ Threads' = Threads /\ lost' = lost
      /\ q \notin used
      /\ early' = IF at = "assign" \/ p \in early THEN early \cup {q} ELSE early
  BY DEF Fork, Threads
<1>2. TypeOK'
  BY <1>1 DEF TypeOK
<1>3. Ledger'
  BY <1>1 DEF Ledger, Books
<1>4. Tree'
  BY <1>1 DEF Tree, Books, TypeOK
<1>. QED
  BY <1>2, <1>3, <1>4 DEF Books

LEMMA StepKeeps == TypeOK /\ Books /\ [Next]_vars => TypeOK' /\ Books'
<1>. SUFFICES ASSUME TypeOK, Books, [Next]_vars PROVE TypeOK' /\ Books'
  OBVIOUS
<1>1. CASE \E c \in Range(Calls) : Spawn(c)
  BY <1>1, SpawnKeeps
<1>2. CASE SpawnReader \/ SpawnWriter \/ ReaderEnds \/ WriterEnds
  BY <1>2, ThreadKeeps
<1>3. CASE StartDrop \/ \E d \in DropSteps : DropStep(d)
  BY <1>3, DropKeeps
<1>4. CASE \/ Terminate \/ HostEnds
           \/ \E p \in Procs : ProcessEnds(p) \/ ConsoleKills(p)
  BY <1>4, EndsKeep
<1>5. CASE \E p, q \in Procs : Fork(p, q)
  BY <1>5, ForkKeeps
<1>6. CASE UNCHANGED vars
  BY <1>6 DEF vars, procVars, TypeOK, Books, Ledger, Tree, Threads
<1>. QED
  BY <1>1, <1>2, <1>3, <1>4, <1>5, <1>6 DEF Next

LEMMA Always == Spec => [](TypeOK /\ Books)
BY Begins, StepKeeps, PTL DEF Spec

-----------------------------------------------------------------------------
(* Theorems.                                                               *)

(* The state has its types (conpty.rs 28-45).                              *)
THEOREM Typed == Spec => []TypeOK
BY Always, PTL

(* No handle is left of a PtyHost that is gone but those of its threads, of*)
(* a spawn() that failed what the call that failed leaves open, and no     *)
(* shell (conpty.rs 97-219, 276-288).                                      *)
THEOREM Clean == Spec => []LeaksBounded
<1>1. TypeOK /\ Books => LeaksBounded
  <2>1. SUFFICES ASSUME TypeOK, Books, host PROVE LeaksBounded
    BY DEF LeaksBounded
  <2>2. at = "failed" => open = LeftOpen(lost) /\ Shell \notin running
    BY <2>1 DEF Books, Ledger, Tree
  <2>3. at = "gone" => open = {readerH, writerH} \ {"none"}
    BY <2>1 DEF Books, Ledger, Held, Threads
  <2>. QED
    BY <2>2, <2>3 DEF LeaksBounded
<1>. QED
  BY <1>1, Always, PTL

(* Nothing is closed that is not open, whichever calls fail: no handle     *)
(* twice (conpty.rs 122-123, 276-288).                                     *)
THEOREM ClosesOnce == Spec => []ClosesItsOwn
<1>1. ASSUME TypeOK, Books, host PROVE ClosesItsOwn
  <2>1. /\ at \in Range(Calls) => Undone(at) \subseteq Held(at)
        /\ at \in DropSteps => Closes(at) \subseteq Held(at)
    BY Booked
  <2>2. at \in Range(Calls) \cup DropSteps => at # "failed"
    BY Places DEF DropSteps
  <2>3. Threads # {} => at # "failed"
    BY <1>1 DEF Books, Ledger, DropSteps
  <2>4. at # "failed" => open = Held(at) \cup Threads
    BY <1>1 DEF Books, Ledger
  <2>5. {readerH, writerH} \subseteq Threads \cup {"none"}
    BY DEF Threads
  <2>. QED
    BY <2>1, <2>2, <2>3, <2>4, <2>5 DEF ClosesItsOwn
<1>2. TypeOK /\ Books => ClosesItsOwn
  BY <1>1 DEF ClosesItsOwn
<1>. QED
  BY <1>2, Always, PTL

(* While the PtyHost is up, the processes outside the job are those that   *)
(* come from one the shell started before it was in it itself (conpty.rs   *)
(* 180-208).                                                               *)
THEOREM WholeTree == Spec => []TreeInJob
<1>1. TypeOK /\ Books => TreeInJob
  BY DEF TreeInJob, Books, Tree
<1>. QED
  BY <1>1, Always, PTL
=============================================================================
