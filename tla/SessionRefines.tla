---------------------------- MODULE SessionRefines ----------------------------
(***************************************************************************)
(* Session, started once, implements SessionContract.                      *)
(***************************************************************************)
EXTENDS Session

ContractThreads == {"pump", "watcher"}

PhaseOf == CASE drop = "freed" -> "freed"
             [] drop \notin {"none", "freed"} -> "closing"
             [] drop = "none" /\ starts = 0 -> "new"
             [] OTHER -> "started"

InHostOf == {t \in ContractThreads :
               \/ t = "pump" /\ pump[1] \in PumpInHost
               \/ t = "watcher" /\ watcher[1] \in WatcherInHost}

CloserOf == IF dropper = <<"ui", 0>> THEN "host" ELSE dropper[1]

Contract == INSTANCE SessionContract
              WITH Threads <- ContractThreads, phase <- PhaseOf,
                   inHost <- InHostOf, told <- exits # <<>>,
                   closer <- CloserOf

(* What a host may rely on (SessionContract): in particular that destroy   *)
(* returns only when every closure of the host that another thread was     *)
(* running has returned (session.rs 541-564), and that on_exit is called   *)
(* once.                                                                   *)
KeepsContract == Contract!Spec
=============================================================================
