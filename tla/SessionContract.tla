--------------------------- MODULE SessionContract ---------------------------
(***************************************************************************)
(* What a host may rely on of a session that it creates, starts once and   *)
(* destroys: from which threads its closures are called, that the end of   *)
(* the shell is announced at most once, and that rata_session_destroy      *)
(* returns only when no closure of the host is running any more, but for   *)
(* the one that called it.  Session implements it (SessionRefines).        *)
(***************************************************************************)

CONSTANTS Threads   \* the session's threads that call the host

VARIABLES
  phase,   \* "new", "started", "closing" (being destroyed), "freed"
  cbs,     \* the callback table still names the host's closures
  inHost,  \* threads that are inside a closure of the host
  told,    \* on_exit has been called
  closer   \* who called destroy: a thread, the "host" or "none"

vars == <<phase, cbs, inHost, told, closer>>

Init == /\ phase = "new" /\ cbs = TRUE /\ inHost = {} /\ told = FALSE
        /\ closer = "none"

Start == /\ phase = "new"
         /\ phase' = "started"
         /\ UNCHANGED <<cbs, inHost, told, closer>>

(* Callbacks withdrawn, by set_callbacks or by destroy.                    *)
Silence == /\ phase # "freed"
           /\ cbs' = FALSE
           /\ UNCHANGED <<phase, inHost, told, closer>>

Enter(t) == /\ phase \in {"started", "closing"} /\ cbs
            /\ inHost' = inHost \cup {t}
            /\ UNCHANGED <<phase, cbs, closer>>

Call(t) == t \notin inHost /\ Enter(t) /\ UNCHANGED told

Tell(t) == t \notin inHost /\ ~told /\ Enter(t) /\ told' = TRUE

Leave(t) == /\ t \in inHost
            /\ inHost' = inHost \ {t}
            /\ UNCHANGED <<phase, cbs, told, closer>>

(* destroy is called by the host, or by a closure of on_exit.              *)
Close == /\ phase \in {"new", "started"}
         /\ phase' = "closing"
         /\ closer' \in {"host"} \cup inHost
         /\ UNCHANGED <<cbs, inHost, told>>

Free == /\ phase = "closing" /\ ~cbs
        /\ inHost \subseteq {closer}
        /\ phase' = "freed"
        /\ UNCHANGED <<cbs, inHost, told, closer>>

Next == \/ Start \/ Silence \/ Close \/ Free
        \/ \E t \in Threads : Call(t) \/ Tell(t) \/ Leave(t)

Spec == Init /\ [][Next]_vars
=============================================================================
