------------------------------ MODULE VmCounter ------------------------------
(***************************************************************************)
(* program::Counter, the object behind system.thread.Mutex and             *)
(* system.thread.Semaphore: an i64 in a std::sync::Mutex and a Condvar.    *)
(* Every method runs its body with the std mutex held, so each action is   *)
(* one such critical section; Condvar::wait gives the mutex up, which is   *)
(* where an acquire() is cut in two.  wake[t] is where t stands:           *)
(*   "running"  outside the object                                         *)
(*   "waiting"  inside Condvar::wait                                       *)
(*   "woken"    returned from Condvar::wait, about to test the count again *)
(* holders is a history variable: the threads whose lock()/acquire() has   *)
(* returned since they last called unlock()/release().                     *)
(***************************************************************************)
EXTENDS Integers, FiniteSets

CONSTANTS Threads,     \* the VM threads that share the object
          Initial,     \* 1 for a Mutex, the constructor's argument for a Semaphore
          MaxCount     \* stands for i64::MAX

ASSUME CounterAssumption == /\ IsFiniteSet(Threads)
                            /\ Initial \in Nat
                            /\ MaxCount \in Nat
                            /\ Initial <= MaxCount

VARIABLES count, wake, holders

vars == <<count, wake, holders>>

In(s) == {t \in Threads : wake[t] = s}
Waiting == In("waiting")
Woken == In("woken")

Init == /\ count = Initial
        /\ wake = [t \in Threads |-> "running"]
        /\ holders = {}

\* The tail of acquire(): the loop test of `while *guard == 0`.
TakeOrWait(t) ==
  \/ /\ count # 0
     /\ count' = count - 1
     /\ wake' = [wake EXCEPT ![t] = "running"]
     /\ holders' = holders \cup {t}
  \/ /\ count = 0
     /\ wake' = [wake EXCEPT ![t] = "waiting"]
     /\ UNCHANGED <<count, holders>>

\* lock() / acquire() is called.
Acquire(t) == /\ wake[t] = "running"
              /\ TakeOrWait(t)

\* Mutant of Retest: acquire() written with `if` where the code has `while`.
RetestWithoutLoop(t) == /\ wake[t] = "woken"
                        /\ count' = count - 1
                        /\ wake' = [wake EXCEPT ![t] = "running"]
                        /\ holders' = holders \cup {t}

\* Condvar::wait has returned with the std mutex held again.
Retest(t) == /\ wake[t] = "woken"
             /\ TakeOrWait(t)

\* Condvar::wait may return although nobody notified.
SpuriousWakeup(t) == /\ wake[t] = "waiting"
                     /\ wake' = [wake EXCEPT ![t] = "woken"]
                     /\ UNCHANGED <<count, holders>>

\* tryLock() / tryAcquire(): true and a permit, or false and nothing.
TryAcquire(t) == /\ wake[t] = "running"
                 /\ IF count = 0
                    THEN UNCHANGED vars
                    ELSE /\ count' = count - 1
                         /\ holders' = holders \cup {t}
                         /\ UNCHANGED wake

\* Mutant of NotifyOne: release() forgets the condition variable.
NotifyNobody == UNCHANGED wake

\* Condvar::notify_one: some waiter returns from wait; nobody when none waits.
NotifyOne == IF Waiting = {}
             THEN UNCHANGED wake
             ELSE \E w \in Waiting : wake' = [wake EXCEPT ![w] = "woken"]

\* Mutant of Release: notify only when the count leaves zero, an optimisation
\* that is right for notify_all and wrong for notify_one.
ReleaseNotifiesFromZero(t) == /\ wake[t] = "running"
                              /\ count < MaxCount
                              /\ count' = count + 1
                              /\ holders' = holders \ {t}
                              /\ IF count = 0 THEN NotifyOne ELSE UNCHANGED wake

\* unlock() / release(): nothing checks who calls it, or that anybody locked.
Release(t) == /\ wake[t] = "running"
              /\ count < MaxCount
              /\ count' = count + 1
              /\ holders' = holders \ {t}
              /\ NotifyOne

Next == \E t \in Threads : \/ Acquire(t) \/ Retest(t) \/ SpuriousWakeup(t)
                           \/ TryAcquire(t) \/ Release(t)

SafeSpec == Init /\ [][Next]_vars

(***************************************************************************)
(* A thread that Condvar::wait has handed the std mutex back to goes on.   *)
(* Nothing obliges a thread to call acquire() or release().                *)
(***************************************************************************)
Fairness == \A t \in Threads : WF_vars(Retest(t))
Spec == SafeSpec /\ Fairness

(***************************************************************************)
(* Callers that keep the contract of a lock: a thread releases only what   *)
(* it holds and does not lock again what it holds.                         *)
(***************************************************************************)
OwnerNext == \E t \in Threads : \/ t \notin holders /\ Acquire(t)
                                \/ Retest(t)
                                \/ SpuriousWakeup(t)
                                \/ t \notin holders /\ TryAcquire(t)
                                \/ t \in holders /\ Release(t)

OwnerSpec == Init /\ [][OwnerNext]_vars

-----------------------------------------------------------------------------
\* The count is never negative whatever the callers do, a thread is in one
\* place, and only threads of the program hold permits (Counter::state).
TypeOK == /\ count \in 0..MaxCount
          /\ wake \in [Threads -> {"running", "waiting", "woken"}]
          /\ holders \subseteq Threads

\* No lost wakeup: while a thread sleeps in Condvar::wait, every free permit is
\* already promised to a thread that has been woken.  This is what lets
\* Counter::release call notify_one and not notify_all.
NoLostWakeup == Waiting # {} => count <= Cardinality(Woken)

\* The permits a disciplined program has taken and those left add up to what the
\* object was constructed with, and no holder is inside acquire().
PermitsConserved == /\ count + Cardinality(holders) = Initial
                    /\ \A t \in holders : wake[t] = "running"

\* Callers that keep the contract: never more threads past acquire() than the
\* object was constructed with; for a Mutex (Initial = 1), mutual exclusion.
Exclusion == Cardinality(holders) <= Initial

\* The object does what a semaphore promises (see SemaphoreSpec): a thread is
\* blocked while it waits or has been woken but has not tested the count again.
Abstract == INSTANCE SemaphoreSpec WITH permits <- count, blocked <- Waiting \cup Woken
Promise == Abstract!Spec
=============================================================================
