------------------------------- MODULE PtyHost -------------------------------
(***************************************************************************)
(* What a PtyHost owns: the handles its spawn() collects one system call   *)
(* at a time, gives back when a call fails and closes in Drop; the copies  *)
(* the reader and the writer take; and the tree of processes under the     *)
(* shell, which the job object, the console and TerminateProcess end.      *)
(* Session takes spawn() and Drop for single steps; this is what they are. *)
(***************************************************************************)
EXTENDS Integers, Sequences, SequencesExt

CONSTANTS
  Procs,       \* bound: the processes the shell's tree may consist of
  Shell        \* the first of them

(* The system calls of spawn(), in order: PtyHost::spawn and, for "job"    *)
(* and "jobLimit", JobHandle::create.                                      *)
Calls == <<"pipeIn", "pipeOut", "console", "attrInit", "attrUpdate", "job",
           "jobLimit", "process", "assign">>

ASSUME PtyAssumption == Shell \in Procs

VARIABLES
  at,       \* the call spawn() makes next, or the state of the PtyHost
  open,     \* open handles of the host process
  readerH, writerH,  \* the handle a thread works on, "none" while there is
                     \* no thread
  host,     \* the host process runs
  running, used,     \* processes of the tree: that run, that ever ran
  inJob, onCon,      \* ... that are in the job, that are on the console
  lost,      \* history: the call of spawn() that failed, "none" while none has
  early      \* history: processes started while the shell ran without its
             \* job, and what those have started since

procVars == <<running, used, inJob, onCon, early>>
vars == <<at, open, readerH, writerH, host, procVars, lost>>

DropSteps == {"dropBody", "dropPipes", "dropJob"}
States    == Range(Calls) \cup {"up", "failed", "gone"} \cup DropSteps
Ended     == {"failed", "gone"}
Copies    == {"outCopy", "inCopy"}
Handles   == {"inRead", "inWrite", "outRead", "outWrite", "con", "attrs",
              "job", "process", "thread"} \cup Copies

TypeOK ==
  /\ at \in States /\ open \subseteq Handles /\ host \in BOOLEAN
  /\ readerH \in {"none", "outCopy"} /\ writerH \in {"none", "inCopy"}
  /\ running \subseteq used /\ used \subseteq Procs
  /\ inJob \subseteq used /\ onCon \subseteq used /\ early \subseteq used
  /\ lost \in Range(Calls) \cup {"none"}

Init ==
  /\ at = "pipeIn" /\ open = {} /\ readerH = "none" /\ writerH = "none"
  /\ host = TRUE /\ running = {} /\ used = {} /\ inJob = {} /\ onCon = {}
  /\ lost = "none" /\ early = {}

-----------------------------------------------------------------------------
(* spawn().                                                                *)

Gained(c) == CASE c = "pipeIn"  -> {"inRead", "inWrite"}
               [] c = "pipeOut" -> {"outRead", "outWrite"}
               [] c = "console" -> {"con"}
               [] c = "attrInit" -> {"attrs"}
               [] c = "job" -> {"job"}
               [] c = "process" -> {"process", "thread"}
               [] OTHER -> {}

(* Mutant: the ends the console has taken over stay open here as well.     *)
PassedOn_Kept(c) == {}

(* The pseudo console owns these ends; spawn closes its own copies.        *)
PassedOn(c) == IF c = "console" THEN {"inRead", "outWrite"} ELSE {}

Ours == {"con", "inWrite", "outRead"}   \* what is left of console and pipes

(* Mutant: the undo also closes an end that was closed when the console was*)
(* made.                                                                   *)
Undone_Twice(c) == IF c = "attrUpdate" THEN Ours \cup {"inRead"} ELSE {}

(* Mutant: every failing path leaves with "?"; only the JobHandle is       *)
(* dropped.                                                                *)
Undone_QuestionMark(c) == IF c \in {"process", "assign"} THEN {"job"} ELSE {}

(* What is closed when c fails: by the code of that path, and the JobHandle*)
(* by its own Drop.  The paths out of CreatePipe, CreatePseudoConsole and  *)
(* JobHandle::create close nothing.                                        *)
Undone(c) ==
  CASE c = "attrInit"   -> Ours
    [] c = "attrUpdate" -> Ours \cup {"attrs"}
    [] c = "process"    -> Ours \cup {"attrs", "job"}
    [] c = "assign"     -> Ours \cup {"attrs", "job", "process", "thread"}
    [] OTHER -> {}

Following(c) == IF c = Last(Calls) THEN "up"
                ELSE Calls[1 + CHOOSE i \in DOMAIN Calls : Calls[i] = c]

(* With the last handle of the job its processes are killed.               *)
Close(handles) ==
  /\ open' = open \ handles
  /\ running' = IF "job" \in handles THEN running \ inJob ELSE running

Succeeds(c) ==
  /\ at' = Following(c)
  /\ open' = (open \cup Gained(c)) \ PassedOn(c)
  /\ IF c = "process"
     THEN running' = {Shell} /\ used' = {Shell} /\ onCon' = {Shell}
     ELSE UNCHANGED <<running, used, onCon>>
  /\ inJob' = IF c = "assign" THEN inJob \cup {Shell} ELSE inJob
  /\ UNCHANGED <<early, lost>>

(* Mutant: what assign returns is not looked at.                           *)
Fails_AssignIgnored(c) ==
  /\ c = "assign" /\ at' = "up" /\ lost' = c
  /\ UNCHANGED <<open, procVars>>

Fails(c) ==
  /\ at' = "failed" /\ lost' = c
  /\ open' = open \ Undone(c)
  /\ running' = IF c = "assign" THEN running \ {Shell} ELSE running
  /\ UNCHANGED <<used, inJob, onCon, early>>

(* Every call may fail.                                                    *)
Spawn(c) ==
  /\ host /\ at = c
  /\ Succeeds(c) \/ Fails(c)
  /\ UNCHANGED <<readerH, writerH, host>>

-----------------------------------------------------------------------------
(* The threads, terminate() and Drop.                                      *)

(* Mutant: the thread is given the handle of the PtyHost.                  *)
Duplicate_Raw(copy) == IF copy = "outCopy" THEN "outRead" ELSE "inWrite"

Duplicate(copy) == copy

SpawnReader ==
  /\ host /\ at = "up" /\ readerH = "none" /\ "outCopy" \notin open
  /\ readerH' = Duplicate("outCopy") /\ open' = open \cup {readerH'}
  /\ UNCHANGED <<at, writerH, host, procVars, lost>>

SpawnWriter ==
  /\ host /\ at = "up" /\ readerH # "none" /\ writerH = "none"
  /\ writerH' = Duplicate("inCopy") /\ open' = open \cup {writerH'}
  /\ UNCHANGED <<at, readerH, host, procVars, lost>>

(* EOF: no process holds a writing end of the output pipe any more.        *)
Eof == "con" \notin open /\ "outWrite" \notin open

ReaderEnds ==
  /\ host /\ readerH # "none" /\ Eof
  /\ readerH' = "none" /\ open' = open \ {readerH}
  /\ UNCHANGED <<at, writerH, host, procVars, lost>>

(* The empty message; Session joins the writer before the PtyHost goes.    *)
WriterEnds ==
  /\ host /\ writerH # "none"
  /\ writerH' = "none" /\ open' = open \ {writerH}
  /\ UNCHANGED <<at, readerH, host, procVars, lost>>

(* terminate(): the shell, and not the job.                                *)
Terminate ==
  /\ host /\ at = "up" /\ Shell \in running
  /\ running' = running \ {Shell}
  /\ UNCHANGED <<at, open, readerH, writerH, host, used, inJob, onCon, early,
                 lost>>

(* Mutant: Drop leaves the job object alone.                               *)
Closes_KeepJob(d) == IF d = "dropBody"
                     THEN {"con", "process", "thread", "attrs"}
                     ELSE {"inWrite", "outRead"}

(* Drop::drop, then the fields in the order of their declaration.          *)
Closes(d) == CASE d = "dropBody"  -> {"con", "process", "thread", "attrs"}
               [] d = "dropPipes" -> {"inWrite", "outRead"}
               [] d = "dropJob"   -> {"job"}

FollowingDrop(d) == CASE d = "dropBody"  -> "dropPipes"
                      [] d = "dropPipes" -> "dropJob"
                      [] d = "dropJob"   -> "gone"

StartDrop ==
  /\ host /\ at = "up" /\ writerH = "none"
  /\ at' = "dropBody"
  /\ UNCHANGED <<open, readerH, writerH, host, procVars, lost>>

DropStep(d) ==
  /\ host /\ at = d
  /\ at' = FollowingDrop(d) /\ Close(Closes(d))
  /\ UNCHANGED <<readerH, writerH, host, used, inJob, onCon, early, lost>>

(* The host process ends, by itself or not: every handle of it is closed.  *)
HostEnds ==
  /\ host /\ host' = FALSE
  /\ open' = {} /\ running' = running \ (IF "job" \in open THEN inJob ELSE {})
  /\ readerH' = "none" /\ writerH' = "none"
  /\ UNCHANGED <<at, used, inJob, onCon, early, lost>>

-----------------------------------------------------------------------------
(* The processes of the tree.                                              *)

(* A process started by one in the job is in the job; it may leave the     *)
(* console.  The shell runs, and may do this, before it is in the job.     *)
Fork(p, q) ==
  /\ p \in running /\ q \notin used
  /\ running' = running \cup {q} /\ used' = used \cup {q}
  /\ inJob' = IF p \in inJob THEN inJob \cup {q} ELSE inJob
  /\ onCon' \in {onCon} \cup (IF p \in onCon THEN {onCon \cup {q}} ELSE {})
  /\ early' = IF at = "assign" \/ p \in early THEN early \cup {q} ELSE early
  /\ UNCHANGED <<at, open, readerH, writerH, host, lost>>

ProcessEnds(p) ==
  /\ p \in running
  /\ running' = running \ {p}
  /\ UNCHANGED <<at, open, readerH, writerH, host, used, inJob, onCon, early,
                 lost>>

(* The console is gone, and with it the processes attached to it.          *)
ConsoleKills(p) == p \in onCon /\ "con" \notin open /\ ProcessEnds(p)

-----------------------------------------------------------------------------

Next ==
  \/ \E c \in Range(Calls) : Spawn(c)
  \/ SpawnReader \/ SpawnWriter \/ ReaderEnds \/ WriterEnds \/ Terminate
  \/ StartDrop \/ \E d \in DropSteps : DropStep(d)
  \/ HostEnds
  \/ \E p, q \in Procs : Fork(p, q)
  \/ \E p \in Procs : ProcessEnds(p) \/ ConsoleKills(p)

(* The thread inside spawn() or Drop goes on, the reader meets its EOF, and*)
(* the system ends what is on a console that is gone.  Nothing makes the   *)
(* host drop the PtyHost and no other process has to end.                  *)
Fairness ==
  /\ \A c \in Range(Calls) : WF_vars(Spawn(c))
  /\ \A d \in DropSteps : WF_vars(DropStep(d))
  /\ WF_vars(ReaderEnds)
  /\ \A p \in Procs : WF_vars(ConsoleKills(p))

Spec == Init /\ [][Next]_vars /\ Fairness

-----------------------------------------------------------------------------
(* Properties.                                                             *)

(* What a call that fails leaves open: out of these four spawn() goes by   *)
(* "?" with the handles of the calls before.                               *)
LeftOpen(c) ==
  CASE c = "pipeOut"  -> {"inRead", "inWrite"}
    [] c = "console"  -> {"inRead", "inWrite", "outRead", "outWrite"}
    [] c = "job"      -> Ours \cup {"attrs"}
    [] c = "jobLimit" -> Ours \cup {"attrs", "job"}
    [] OTHER -> {}

(* After Drop the host process has no handle of the PtyHost but the copies *)
(* of the threads that still run.  After a spawn() that failed it has none *)
(* and the shell does not run; but four calls leave what LeftOpen says, and*)
(* nobody closes it, against conpty.rs 122-123 and 01-requirements.md 78   *)
(* (conpty.rs 97-219, 271-288, job.rs 24-40).                              *)
LeaksBounded ==
  host => /\ at = "gone" => open = {readerH, writerH} \ {"none"}
          /\ at = "failed" => open = LeftOpen(lost) /\ Shell \notin running

(* No handle is closed twice or used closed: what the next failure or the  *)
(* next part of Drop closes, and what the threads read and write, is open  *)
(* (conpty.rs 30-38: the values of closed handles are reused).             *)
ClosesItsOwn ==
  host => /\ at \in Range(Calls) => Undone(at) \subseteq open
          /\ at \in DropSteps => Closes(at) \subseteq open
          /\ {readerH, writerH} \subseteq open \cup {"none"}

(* Once spawn() has returned a PtyHost, the processes of the tree that are *)
(* outside the job are those the shell started between CreateProcessW and  *)
(* AssignProcessToJobObject, and all they started (conpty.rs 180-208).     *)
TreeInJob == at = "up" => running \ inJob = running \cap early

(* Whether the host drops the PtyHost or goes without: of the tree only    *)
(* processes outlive it that come from that gap and have left the console  *)
(* (conpty.rs 180-219, 271-288).                                           *)
TreeEnds == at \in Ended \/ ~host ~> running \subseteq early \ onCon

(* What README.md 19, 01-requirements.md 12 and job.rs 1-2 say: the whole  *)
(* tree ends with the host or the session.                                 *)
NothingOutlives == at \in Ended \/ ~host ~> running = {}

(* Drop brings the reader its EOF, although it holds a copy of the pipe's  *)
(* end (conpty.rs 36-38).                                                  *)
ReaderReleased == at = "gone" ~> readerH = "none"
=============================================================================
