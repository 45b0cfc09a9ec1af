---------------------------- MODULE SemaphoreSpec ----------------------------
(***************************************************************************)
(* What a system.thread.Semaphore (and a system.thread.Mutex, which is the *)
(* same object started at one permit) promises its callers, with no        *)
(* condition variable in sight: a caller of acquire() either takes a       *)
(* permit at once or is blocked until it can take one, and a release gives *)
(* one permit back.                                                        *)
(***************************************************************************)
EXTENDS Integers

CONSTANTS Threads,     \* the VM threads that share the object
          Initial,     \* the count it was constructed with
          MaxCount     \* the largest count the i64 can hold

VARIABLES permits,     \* permits nobody has taken
          blocked      \* the threads inside acquire() without a permit

vars == <<permits, blocked>>

Init == /\ permits = Initial
        /\ blocked = {}

\* acquire() or tryAcquire() that takes a permit, whether or not t blocked first.
Take(t) == /\ permits > 0
           /\ permits' = permits - 1
           /\ blocked' = blocked \ {t}

\* acquire() that finds no permit.
Block(t) == /\ permits = 0
            /\ t \notin blocked
            /\ blocked' = blocked \cup {t}
            /\ UNCHANGED permits

\* release() by a thread that is not itself blocked.
Give(t) == /\ t \notin blocked
           /\ permits < MaxCount
           /\ permits' = permits + 1
           /\ UNCHANGED blocked

Next == \E t \in Threads : Take(t) \/ Block(t) \/ Give(t)

\* A permit does not stay free for ever while somebody is blocked on it.
Fairness == WF_vars(\E t \in blocked : Take(t))

SafeSpec == Init /\ [][Next]_vars
Spec == SafeSpec /\ Fairness
=============================================================================
