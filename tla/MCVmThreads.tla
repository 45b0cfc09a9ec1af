----------------------------- MODULE MCVmThreads -----------------------------
(* VmThreads on small programs. *)
EXTENDS VmThreads

(***************************************************************************)
(* A program whose main thread starts and interrupts the others, which     *)
(* sleep and join each other: small enough to check liveness with two      *)
(* Threads.  Who interrupts is who starts, so every interrupt finds its    *)
(* target recorded in its slot, or not spawned yet.                        *)
(***************************************************************************)
Worker(o) == /\ o # Main
             /\ \/ Sleep(o)
                \/ TaskEnds(o)
                \/ \E i \in Tids, kind \in {"join", "timedJoin"} : JoinPolls(o, kind, i)

WorkersNext ==
  \/ \E o \in OsThreads : Inside(o) \/ Worker(o) \/ WakeSpuriously(o) \/ Deadline(o)
  \/ \E i \in Tids : StartReadsTask(Main, i) \/ Interrupt(Main, i)

WorkersSpec == Init /\ [][WorkersNext]_vars /\ Scheduling
=============================================================================
