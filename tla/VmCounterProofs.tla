--------------------------- MODULE VmCounterProofs ---------------------------
(***************************************************************************)
(* What VmCounter's runs check on four threads, proved for every set of    *)
(* threads, initial count and bound.                                       *)
(***************************************************************************)
EXTENDS VmCounter, FiniteSetTheorems, TLAPS

\* In's sets are finite, so their cardinalities are numbers (In).
LEMMA InFinite ==
  ASSUME NEW s
  PROVE  IsFiniteSet(In(s)) /\ Cardinality(In(s)) \in Nat
<1>1. In(s) \subseteq Threads
  BY DEF In
<1>2. QED
  BY <1>1, CounterAssumption, FS_Subset, FS_CardinalityType

\* A set that gains one element not yet in it grows by one.
LEMMA OneMore ==
  ASSUME NEW S, IsFiniteSet(S), NEW x, x \notin S, NEW T, T = S \cup {x}
  PROVE  Cardinality(T) = Cardinality(S) + 1
BY FS_AddElement

\* A set that loses one of its elements shrinks by one.
LEMMA OneLess ==
  ASSUME NEW S, IsFiniteSet(S), NEW x \in S, NEW T, T = S \ {x}
  PROVE  Cardinality(T) = Cardinality(S) - 1
BY FS_RemoveElement, FS_CardinalityType

-----------------------------------------------------------------------------
\* Every step of every caller preserves TypeOK; only the loop test of acquire()
\* keeps the count from going below zero (Next, OwnerNext).
LEMMA TypeStep == ASSUME TypeOK, Next PROVE TypeOK'
<1> USE CounterAssumption DEF TypeOK
<1>1. PICK t \in Threads : \/ Acquire(t) \/ Retest(t) \/ SpuriousWakeup(t)
                           \/ TryAcquire(t) \/ Release(t)
  BY DEF Next
<1>2. CASE Acquire(t)
  BY <1>2 DEF Acquire, TakeOrWait
<1>3. CASE Retest(t)
  BY <1>3 DEF Retest, TakeOrWait
<1>4. CASE SpuriousWakeup(t)
  BY <1>4 DEF SpuriousWakeup
<1>5. CASE TryAcquire(t)
  BY <1>5 DEF TryAcquire, vars
<1>6. CASE Release(t)
  BY <1>6 DEF Release, NotifyOne, Waiting, In
<1>7. QED
  BY <1>1, <1>2, <1>3, <1>4, <1>5, <1>6

\* The count stays an i64 that is at least zero, whatever the callers do.
THEOREM TypeCorrect == SafeSpec => []TypeOK
<1>1. Init => TypeOK
  BY CounterAssumption DEF Init, TypeOK
<1>2. TypeOK /\ [Next]_vars => TypeOK'
  BY TypeStep DEF TypeOK, vars
<1>3. QED
  BY <1>1, <1>2, PTL DEF SafeSpec

-----------------------------------------------------------------------------
\* A step of one caller keeps every free permit promised to a woken thread
\* (NoLostWakeup): the argument that one notify_one per release() is enough.
LEMMA WakeupStep ==
  ASSUME TypeOK, NoLostWakeup, Next
  PROVE  NoLostWakeup'
<1> USE DEF TypeOK
<1>0. /\ IsFiniteSet(Woken) /\ Cardinality(Woken) \in Nat
      /\ IsFiniteSet(Woken)' /\ Cardinality(Woken)' \in Nat
  <2>1. IsFiniteSet(Woken) /\ Cardinality(Woken) \in Nat
    BY InFinite DEF Woken
  <2>2. Woken' \subseteq Threads
    BY DEF Woken, In
  <2>3. QED
    BY <2>1, <2>2, CounterAssumption, FS_Subset, FS_CardinalityType
<1>1. PICK t \in Threads : \/ Acquire(t) \/ Retest(t) \/ SpuriousWakeup(t)
                           \/ TryAcquire(t) \/ Release(t)
  BY DEF Next
<1>2. CASE Acquire(t)
  <2>1. Woken' = Woken
    BY <1>2 DEF Acquire, TakeOrWait, Woken, In
  <2>2. CASE count = 0
    BY <1>2, <2>1, <2>2, <1>0 DEF Acquire, TakeOrWait, NoLostWakeup
  <2>3. CASE count # 0
    <3>1. count' = count - 1 /\ Waiting' = Waiting
      BY <1>2, <2>3 DEF Acquire, TakeOrWait, Waiting, In
    <3>2. QED
      BY <3>1, <2>1, <1>0, CounterAssumption DEF NoLostWakeup
  <2>4. QED
    BY <2>2, <2>3
<1>3. CASE Retest(t)
  <2>1. CASE count = 0
    BY <1>3, <2>1, <1>0 DEF Retest, TakeOrWait, NoLostWakeup
  <2>2. CASE count # 0
    <3>1. count' = count - 1 /\ Waiting' = Waiting
      BY <1>3, <2>2 DEF Retest, TakeOrWait, Waiting, In
    <3>2. t \in Woken /\ Woken' = Woken \ {t}
      BY <1>3, <2>2 DEF Retest, TakeOrWait, Woken, In
    <3>3. Cardinality(Woken') = Cardinality(Woken) - 1
      BY <3>2, <1>0, OneLess
    <3>4. QED
      BY <3>1, <3>3, <1>0, CounterAssumption DEF NoLostWakeup
  <2>3. QED
    BY <2>1, <2>2
<1>4. CASE SpuriousWakeup(t)
  <2>1. t \in Waiting /\ count' = count
    BY <1>4 DEF SpuriousWakeup, Waiting, In
  <2>2. t \notin Woken /\ Woken' = Woken \cup {t}
    BY <1>4 DEF SpuriousWakeup, Woken, In
  <2>3. Cardinality(Woken') = Cardinality(Woken) + 1
    BY <2>2, <1>0, OneMore
  <2>4. QED
    BY <2>1, <2>3, <1>0, CounterAssumption DEF NoLostWakeup
<1>5. CASE TryAcquire(t)
  <2>1. wake' = wake /\ (count' = count \/ (count # 0 /\ count' = count - 1))
    BY <1>5 DEF TryAcquire, vars
  <2>2. Woken' = Woken /\ Waiting' = Waiting
    BY <2>1 DEF Woken, Waiting, In
  <2>3. QED
    BY <2>1, <2>2, <1>0, CounterAssumption DEF NoLostWakeup
<1>6. CASE Release(t)
  <2>1. count' = count + 1
    BY <1>6 DEF Release
  <2>2. CASE Waiting = {}
    <3>1. wake' = wake
      BY <1>6, <2>2 DEF Release, NotifyOne
    <3>2. Waiting' = {}
      BY <3>1, <2>2 DEF Waiting, In
    <3>3. QED
      BY <3>2 DEF NoLostWakeup
  <2>3. CASE Waiting # {}
    <3>1. PICK w \in Waiting : wake' = [wake EXCEPT ![w] = "woken"]
      BY <1>6, <2>3 DEF Release, NotifyOne
    <3>2. w \notin Woken /\ Woken' = Woken \cup {w}
      BY <3>1 DEF Woken, Waiting, In
    <3>3. Cardinality(Woken') = Cardinality(Woken) + 1
      BY <3>2, <1>0, OneMore
    <3>4. QED
      BY <2>1, <2>3, <3>3, <1>0, CounterAssumption DEF NoLostWakeup
  <2>4. QED
    BY <2>2, <2>3
<1>7. QED
  BY <1>1, <1>2, <1>3, <1>4, <1>5, <1>6

\* No release() is ever lost on the threads asleep in Condvar::wait.
THEOREM NoWakeupIsLost == SafeSpec => []NoLostWakeup
<1>1. Init => NoLostWakeup
  BY DEF Init, NoLostWakeup, Waiting, In
<1>2. TypeOK /\ NoLostWakeup /\ [Next]_vars => NoLostWakeup'
  <2>1. ASSUME NoLostWakeup, UNCHANGED vars PROVE NoLostWakeup'
    BY <2>1 DEF NoLostWakeup, Waiting, Woken, In, vars
  <2>2. QED
    BY <2>1, WakeupStep
<1>3. QED
  BY <1>1, <1>2, TypeCorrect, PTL DEF SafeSpec

-----------------------------------------------------------------------------
\* The steps of callers that keep the contract are steps of any caller
\* (OwnerNext), so TypeOK holds of them too.
LEMMA OwnerNextIsNext == OwnerNext => Next
BY DEF OwnerNext, Next

\* A disciplined caller neither makes nor loses a permit (PermitsConserved):
\* the one thread that takes was not a holder, the one that releases was.
LEMMA ConservedStep ==
  ASSUME TypeOK, PermitsConserved, OwnerNext
  PROVE  PermitsConserved'
<1> USE CounterAssumption DEF TypeOK
<1>0. IsFiniteSet(holders) /\ Cardinality(holders) \in Nat
  BY FS_Subset, FS_CardinalityType
<1>1. PICK t \in Threads : \/ t \notin holders /\ Acquire(t)
                           \/ Retest(t)
                           \/ SpuriousWakeup(t)
                           \/ t \notin holders /\ TryAcquire(t)
                           \/ t \in holders /\ Release(t)
  BY DEF OwnerNext
<1>2. ASSUME t \notin holders, count # 0, count' = count - 1,
             holders' = holders \cup {t}, wake'[t] = "running",
             \A u \in Threads \ {t} : wake'[u] = wake[u]
      PROVE  PermitsConserved'
  <2>1. Cardinality(holders') = Cardinality(holders) + 1
    BY <1>0, <1>2, OneMore
  <2>2. count' + Cardinality(holders') = Initial
    BY <1>0, <1>2, <2>1 DEF PermitsConserved
  <2>3. QED
    BY <1>2, <2>2 DEF PermitsConserved
<1>3. ASSUME t \notin holders, wake' = [wake EXCEPT ![t] = "waiting"],
             UNCHANGED <<count, holders>>
      PROVE  PermitsConserved'
  BY <1>3 DEF PermitsConserved
<1>4. CASE t \notin holders /\ Acquire(t)
  BY <1>2, <1>3, <1>4 DEF Acquire, TakeOrWait
<1>5. CASE Retest(t)
  <2>1. t \notin holders
    BY <1>5 DEF Retest, PermitsConserved
  <2>2. QED
    BY <2>1, <1>2, <1>3, <1>5 DEF Retest, TakeOrWait
<1>6. CASE SpuriousWakeup(t)
  <2>1. t \notin holders
    BY <1>6 DEF SpuriousWakeup, PermitsConserved
  <2>2. QED
    BY <2>1, <1>6 DEF SpuriousWakeup, PermitsConserved
<1>7. CASE t \notin holders /\ TryAcquire(t)
  <2>1. CASE count = 0
    BY <1>7, <2>1 DEF TryAcquire, vars, PermitsConserved
  <2>2. CASE count # 0
    BY <1>7, <2>2, <1>2 DEF TryAcquire
  <2>3. QED
    BY <2>1, <2>2
<1>8. CASE t \in holders /\ Release(t)
  <2>1. count' = count + 1 /\ holders' = holders \ {t}
    BY <1>8 DEF Release
  <2>2. Cardinality(holders') = Cardinality(holders) - 1
    BY <1>0, <1>8, <2>1, OneLess
  <2>3. count' + Cardinality(holders') = Initial
    BY <1>0, <2>1, <2>2 DEF PermitsConserved
  <2>4. \A u \in holders : wake'[u] = "running"
    BY <1>8 DEF Release, NotifyOne, Waiting, In, PermitsConserved
  <2>5. QED
    BY <2>1, <2>3, <2>4 DEF PermitsConserved
<1>9. QED
  BY <1>1, <1>4, <1>5, <1>6, <1>7, <1>8

\* Mutual exclusion: callers that keep the contract of a lock are never more
\* than Initial past acquire(), and for a Mutex never more than one.
THEOREM MutualExclusion == OwnerSpec => []Exclusion
<1>1. Init => TypeOK /\ PermitsConserved
  BY CounterAssumption, FS_EmptySet DEF Init, TypeOK, PermitsConserved
<1>2. TypeOK /\ PermitsConserved /\ [OwnerNext]_vars => (TypeOK /\ PermitsConserved)'
  <2>1. ASSUME TypeOK, PermitsConserved, UNCHANGED vars PROVE (TypeOK /\ PermitsConserved)'
    BY <2>1 DEF TypeOK, PermitsConserved, vars
  <2>2. QED
    BY <2>1, TypeStep, OwnerNextIsNext, ConservedStep
<1>3. TypeOK /\ PermitsConserved => Exclusion
  <2>1. TypeOK => IsFiniteSet(holders) /\ Cardinality(holders) \in Nat
    BY CounterAssumption, FS_Subset, FS_CardinalityType DEF TypeOK
  <2>2. QED
    BY <2>1, CounterAssumption DEF TypeOK, PermitsConserved, Exclusion
<1>4. QED
  BY <1>1, <1>2, <1>3, PTL DEF OwnerSpec

-----------------------------------------------------------------------------
\* Every step of the counter is a step of the abstract semaphore or leaves it
\* alone: a woken thread that finds the count at zero again never left `blocked'.
LEMMA StepRefines ==
  ASSUME TypeOK, Next
  PROVE  Abstract!Next \/ UNCHANGED Abstract!vars
<1> USE CounterAssumption DEF TypeOK
<1>1. PICK t \in Threads : \/ Acquire(t) \/ Retest(t) \/ SpuriousWakeup(t)
                           \/ TryAcquire(t) \/ Release(t)
  BY DEF Next
<1> DEFINE Blocked == Waiting \cup Woken
<1>2. ASSUME TakeOrWait(t), count # 0 PROVE Abstract!Take(t)
  <2>1. count > 0 /\ count' = count - 1
    BY <1>2 DEF TakeOrWait
  <2>2. Blocked' = Blocked \ {t}
    BY <1>2 DEF TakeOrWait, Waiting, Woken, In
  <2>3. QED
    BY <2>1, <2>2 DEF Abstract!Take
<1>3. CASE Acquire(t)
  <2>1. CASE count = 0
    <3>1. t \notin Blocked /\ Blocked' = Blocked \cup {t} /\ count' = count
      BY <1>3, <2>1 DEF Acquire, TakeOrWait, Waiting, Woken, In
    <3>2. Abstract!Block(t)
      BY <2>1, <3>1 DEF Abstract!Block
    <3>3. QED
      BY <3>2 DEF Abstract!Next
  <2>2. CASE count # 0
    BY <1>2, <1>3, <2>2 DEF Acquire, Abstract!Next
  <2>3. QED
    BY <2>1, <2>2
<1>4. CASE Retest(t)
  <2>1. CASE count = 0
    <3>1. Blocked' = Blocked /\ count' = count
      BY <1>4, <2>1 DEF Retest, TakeOrWait, Waiting, Woken, In
    <3>2. QED
      BY <3>1 DEF Abstract!vars
  <2>2. CASE count # 0
    BY <1>2, <1>4, <2>2 DEF Retest, Abstract!Next
  <2>3. QED
    BY <2>1, <2>2
<1>5. CASE SpuriousWakeup(t)
  <2>1. Blocked' = Blocked /\ count' = count
    BY <1>5 DEF SpuriousWakeup, Waiting, Woken, In
  <2>2. QED
    BY <2>1 DEF Abstract!vars
<1>6. CASE TryAcquire(t)
  <2>1. CASE count = 0
    BY <1>6, <2>1 DEF TryAcquire, vars, Abstract!vars, Waiting, Woken, In
  <2>2. CASE count # 0
    <3>1. count > 0 /\ count' = count - 1
      BY <1>6, <2>2 DEF TryAcquire
    <3>2. t \notin Blocked /\ Blocked' = Blocked
      BY <1>6, <2>2 DEF TryAcquire, Waiting, Woken, In
    <3>3. Abstract!Take(t)
      BY <3>1, <3>2 DEF Abstract!Take
    <3>4. QED
      BY <3>3 DEF Abstract!Next
  <2>3. QED
    BY <2>1, <2>2
<1>7. CASE Release(t)
  <2>1. count' = count + 1 /\ count < MaxCount /\ t \notin Blocked
    BY <1>7 DEF Release, Waiting, Woken, In
  <2>2. Blocked' = Blocked
    BY <1>7 DEF Release, NotifyOne, Waiting, Woken, In
  <2>3. Abstract!Give(t)
    BY <2>1, <2>2 DEF Abstract!Give
  <2>4. QED
    BY <2>3 DEF Abstract!Next
<1>8. QED
  BY <1>1, <1>3, <1>4, <1>5, <1>6, <1>7

\* The condition-variable counter implements the abstract semaphore (its safety
\* part: the fairness half of Promise is left to TLC).
THEOREM Refinement == SafeSpec => Abstract!SafeSpec
<1>1. Init => Abstract!Init
  BY DEF Init, Abstract!Init, Waiting, Woken, In
<1>2. TypeOK /\ [Next]_vars => [Abstract!Next]_(Abstract!vars)
  <2>1. ASSUME UNCHANGED vars PROVE UNCHANGED Abstract!vars
    BY <2>1 DEF vars, Abstract!vars, Waiting, Woken, In
  <2>2. QED
    BY <2>1, StepRefines
<1>3. QED
  BY <1>1, <1>2, TypeCorrect, PTL DEF SafeSpec, Abstract!SafeSpec
=============================================================================
