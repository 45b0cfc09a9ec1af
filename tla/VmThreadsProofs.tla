--------------------------- MODULE VmThreadsProofs ---------------------------
(***************************************************************************)
(* VmThreads for any number of Thread objects and OS threads.              *)
(***************************************************************************)
EXTENDS VmThreads, WellFoundedInduction, TLAPS

\* The main thread is an OS thread, and None is nothing else (OsThreads, Main).
LEMMA Names == /\ Main \in OsThreads
               /\ None \notin Tids /\ None \notin OsThreads
               /\ OsThreads \subseteq Nat
BY ThreadsAssumption DEF OsThreads, Main

\* A set of OS threads that is not empty has an oldest one.
LEMMA Oldest ==
  ASSUME NEW S \in SUBSET OsThreads, S # {}
  PROVE  \E x \in S : \A y \in S : ~(y < x)
<1> DEFINE R == OpToRel(<, Nat)
<1>1. S \subseteq Nat
  BY Names
<1>2. \E x \in S : \A y \in S : ~(<<y, x>> \in R)
  <2> HIDE DEF R
  <2>1. IsWellFoundedOn(R, Nat)
    BY NatLessThanWellFounded DEF R
  <2>2. QED
    BY <1>1, <2>1, WFMin
<1>3. PICK x \in S : \A y \in S : ~(<<y, x>> \in R)
  BY <1>2
<1>4. \A y \in S : ~(y < x)
  BY <1>1, <1>3 DEF OpToRel
<1>5. QED
  BY <1>4

-----------------------------------------------------------------------------
\* The calls that Enter, Return and Spawn write are calls (Calls, NoCall).
LEMMA CallTypes ==
  /\ NoCall \in Calls
  /\ \A kind \in {"sleep", "join", "timedJoin", "start"}, i \in Tids \cup {None} :
       [kind |-> kind, target |-> i, child |-> None] \in Calls
  /\ \A c \in Calls, n \in OsThreads : [c EXCEPT !.child = n] \in Calls
  /\ \A c \in Calls : c.target \in Tids \cup {None} /\ c.child \in OsThreads \cup {None}
BY DEF Calls, NoCall

\* No slot names a thread that has not been spawned (SlotsAgree).
LEMMA FreshInNoSlot ==
  ASSUME SlotsAgree, NEW n \in OsThreads, tidOf[n] = None
  PROVE  \A i \in Tids : osThread[i] # n
BY Names DEF SlotsAgree

\* Every operation keeps the slot table, the program counters and the calls in
\* shape, and the fields of a slot in agreement (TypeOK).
LEMMA TypeStep ==
  ASSUME TypeOK, Starting, Next
  PROVE  TypeOK'
<1> USE CallTypes, Names DEF TypeOK, SlotsAgree, Pcs, slots
<1>1. ASSUME NEW o \in OsThreads, NEW i \in Tids, StartReadsTask(o, i) PROVE TypeOK'
  BY <1>1 DEF StartReadsTask, Enter
<1>2. ASSUME NEW o \in OsThreads, StartTakesTask(o) PROVE TypeOK'
  BY <1>2 DEF StartTakesTask
<1>3. ASSUME NEW o \in OsThreads, NEW n \in OsThreads, Spawn(o, n) PROVE TypeOK'
  <2>1. tidOf[n] = None /\ call[o].target \in Tids
    BY <1>3 DEF Spawn, Starting, InStart
  <2>2. \A i \in Tids : osThread[i] # n
    BY <2>1, FreshInNoSlot
  <2>3. call' \in [OsThreads -> Calls]
    BY <1>3 DEF Spawn
  <2>4. pc' \in [OsThreads -> Pcs] /\ tidOf' \in [OsThreads -> Tids \cup {None}]
    BY <1>3, <2>1 DEF Spawn
  <2>5. SlotsAgree'
    BY <1>3, <2>2 DEF Spawn
  <2>6. QED
    BY <1>3, <2>3, <2>4, <2>5 DEF Spawn
<1>4. ASSUME NEW o \in OsThreads, StartThread(o) PROVE TypeOK'
  <2>1. /\ call[o].target \in Tids
        /\ call[o].child \in OsThreads
        /\ tidOf[call[o].child] = call[o].target
    BY <1>4 DEF StartThread, Starting, InStart
  <2>2. QED
    BY <1>4, <2>1 DEF StartThread, Return
<1>5. ASSUME NEW i \in Tids, JoinBlocks(i) PROVE TypeOK'
  BY <1>5 DEF JoinBlocks, Enter
<1>6. ASSUME JoinReturns PROVE TypeOK'
  BY <1>6 DEF JoinReturns, Return
<1>7. ASSUME NEW o \in OsThreads, NEW kind \in {"join", "timedJoin"}, NEW i \in Tids,
             JoinPolls(o, kind, i)
      PROVE  TypeOK'
  BY <1>7 DEF JoinPolls, Enter
<1>8. ASSUME NEW o \in OsThreads, Sleep(o) PROVE TypeOK'
  BY <1>8 DEF Sleep, Enter
<1>9. ASSUME NEW o \in OsThreads, TestInterrupt(o) PROVE TypeOK'
  <2>1. UNCHANGED <<task, handle, osThread, started, tidOf, token>>
    BY <1>9 DEF TestInterrupt
  <2>2. interrupt' = interrupt \/ interrupt' = [interrupt EXCEPT ![tidOf[o]] = FALSE]
    BY <1>9 DEF TestInterrupt
  <2>3. /\ pc' \in [OsThreads -> Pcs]
        /\ call' \in [OsThreads -> Calls]
        /\ expired' \in [OsThreads -> BOOLEAN]
    BY <1>9 DEF TestInterrupt, Return
  <2>4. QED
    BY <2>1, <2>2, <2>3
<1>10. ASSUME NEW o \in OsThreads, Poll(o) PROVE TypeOK'
  <2>1. /\ UNCHANGED <<task, osThread, started, interrupt, tidOf, token>>
        /\ pc' \in [OsThreads -> Pcs]
        /\ call' \in [OsThreads -> Calls]
        /\ expired' \in [OsThreads -> BOOLEAN]
    <3>1. \/ /\ pc' = [pc EXCEPT ![o] = "bytecode"]
             /\ call' = [call EXCEPT ![o] = NoCall]
             /\ expired' = [expired EXCEPT ![o] = FALSE]
          \/ pc' = [pc EXCEPT ![o] = "parked"] /\ call' = call /\ expired' = expired
      BY <1>10, Zenon DEF Poll, Return
    <3>2. UNCHANGED <<task, osThread, started, interrupt, tidOf, token>>
      BY <1>10 DEF Poll
    <3>3. pc' \in [OsThreads -> Pcs] /\ call' \in [OsThreads -> Calls]
      <4>1. pc \in [OsThreads -> Pcs] /\ call \in [OsThreads -> Calls]
        OBVIOUS
      <4> HIDE DEF TypeOK
      <4>2. QED
        BY <3>1, <4>1
    <3>4. expired' \in [OsThreads -> BOOLEAN]
      BY <3>1
    <3>5. QED
      BY <3>2, <3>3, <3>4
  <2>2. handle' = handle \/ handle' = [handle EXCEPT ![call[o].target] = None]
    BY <1>10 DEF Poll
  <2>3. handle' \in [Tids -> OsThreads \cup {None}] /\ SlotsAgree'
    BY <2>1, <2>2
  <2>4. QED
    BY <2>1, <2>3
<1>11. ASSUME NEW o \in OsThreads, WakeByToken(o) \/ WakeByTimeout(o) \/ WakeSpuriously(o)
       PROVE  TypeOK'
  <2>1. /\ UNCHANGED <<task, handle, osThread, started, interrupt, tidOf, call, expired>>
        /\ pc' = [pc EXCEPT ![o] = "top"]
        /\ token' \in [OsThreads -> BOOLEAN]
    BY <1>11 DEF WakeByToken, WakeByTimeout, WakeSpuriously, Unpark
  <2>2. QED
    BY <2>1
<1>12. ASSUME NEW o \in OsThreads, Deadline(o) PROVE TypeOK'
  BY <1>12 DEF Deadline
<1>13. ASSUME NEW o \in OsThreads, NEW i \in Tids, Interrupt(o, i) PROVE TypeOK'
  BY <1>13 DEF Interrupt
<1>14. ASSUME NEW o \in OsThreads, StartPass(o) \/ EndPass(o) \/ TaskEnds(o) PROVE TypeOK'
  BY <1>14 DEF StartPass, EndPass, TaskEnds
<1> HIDE CallTypes, Names DEF TypeOK, SlotsAgree, Pcs, slots
<1>15. QED
  BY <1>1, <1>2, <1>3, <1>4, <1>5, <1>6, <1>7, <1>8, <1>9, <1>10, <1>11, <1>12,
     <1>13, <1>14 DEF Next, Calling, Inside

-----------------------------------------------------------------------------
\* A step of thread o that stays out of start(), writes no task and installs no
\* CURRENT_INTERRUPT.
Quiet(o) ==
  /\ task' = task /\ tidOf' = tidOf
  /\ pc[o] # "unborn"
  /\ pc'[o] \notin {"unborn", "take", "spawn", "record"}
  /\ o = Main => pc'[o] # "done"
  /\ \A p \in OsThreads \ {o} : pc'[p] = pc[p] /\ call'[p] = call[p]

\* Every step but the first three of start() is one (Quiet).
LEMMA StartOrQuiet ==
  ASSUME TypeOK, Next
  PROVE  \/ \E o \in OsThreads, i \in Tids : StartReadsTask(o, i)
         \/ \E o \in OsThreads : StartTakesTask(o)
         \/ \E o, n \in OsThreads : Spawn(o, n)
         \/ \E o \in OsThreads : Quiet(o)
<1>0. /\ pc \in [OsThreads -> Pcs] /\ call \in [OsThreads -> Calls]
      /\ task \in [Tids -> BOOLEAN] /\ tidOf \in [OsThreads -> Tids \cup {None}]
  BY DEF TypeOK
<1> USE DEF Quiet
<1>1. ASSUME NEW o \in OsThreads, StartThread(o) PROVE Quiet(o)
  BY <1>0, <1>1 DEF StartThread, Return
<1>2. ASSUME NEW i \in Tids, JoinBlocks(i) PROVE Quiet(Main)
  BY <1>0, <1>2, Names DEF JoinBlocks, Enter
<1>3. ASSUME JoinReturns PROVE Quiet(Main)
  BY <1>0, <1>3, Names DEF JoinReturns, Return, slots
<1>4. ASSUME NEW o \in OsThreads, NEW kind \in {"join", "timedJoin"}, NEW i \in Tids,
             JoinPolls(o, kind, i)
      PROVE  Quiet(o)
  BY <1>0, <1>4 DEF JoinPolls, Enter, slots
<1>5. ASSUME NEW o \in OsThreads, Sleep(o) PROVE Quiet(o)
  BY <1>0, <1>5 DEF Sleep, Enter, slots
<1>6. ASSUME NEW o \in OsThreads, TestInterrupt(o) PROVE Quiet(o)
  <2>1. \/ pc' = [pc EXCEPT ![o] = "bytecode"] /\ call' = [call EXCEPT ![o] = NoCall]
        \/ pc' = [pc EXCEPT ![o] = "poll"] /\ call' = call
    BY <1>6 DEF TestInterrupt, Return
  <2>2. pc[o] = "top" /\ task' = task /\ tidOf' = tidOf
    BY <1>6 DEF TestInterrupt
  <2>3. QED
    BY <1>0, <2>1, <2>2
<1>7. ASSUME NEW o \in OsThreads, Poll(o) PROVE Quiet(o)
  <2>1. \/ pc' = [pc EXCEPT ![o] = "bytecode"] /\ call' = [call EXCEPT ![o] = NoCall]
        \/ pc' = [pc EXCEPT ![o] = "parked"] /\ call' = call
    BY <1>7, Zenon DEF Poll, Return
  <2>2. pc[o] = "poll" /\ task' = task /\ tidOf' = tidOf
    BY <1>7 DEF Poll
  <2>3. QED
    BY <1>0, <2>1, <2>2
<1>8. ASSUME NEW o \in OsThreads, WakeByToken(o) \/ WakeByTimeout(o) \/ WakeSpuriously(o)
       PROVE  Quiet(o)
  <2>1. /\ pc[o] = "parked" /\ pc' = [pc EXCEPT ![o] = "top"]
        /\ task' = task /\ tidOf' = tidOf /\ call' = call
    BY <1>8 DEF WakeByToken, WakeByTimeout, WakeSpuriously, Unpark, slots
  <2>2. QED
    BY <1>0, <2>1
<1>9. ASSUME NEW o \in OsThreads, Deadline(o) PROVE Quiet(o)
  BY <1>0, <1>9, Names DEF Deadline, slots
<1>10. ASSUME NEW o \in OsThreads, NEW i \in Tids, Interrupt(o, i) PROVE Quiet(o)
  BY <1>0, <1>10, Names DEF Interrupt
<1>11. ASSUME NEW o \in OsThreads, StartPass(o) \/ EndPass(o) \/ TaskEnds(o) PROVE Quiet(o)
  <2>1. /\ pc[o] \in {"bytecode", "collect"}
        /\ \E s \in {"bytecode", "collect", "done"} :
             pc' = [pc EXCEPT ![o] = s] /\ (o = Main => s # "done")
        /\ task' = task /\ tidOf' = tidOf /\ call' = call
    BY <1>11 DEF StartPass, EndPass, TaskEnds, slots
  <2>2. QED
    BY <1>0, <2>1
<1> HIDE DEF Quiet
<1>12. QED
  BY <1>1, <1>2, <1>3, <1>4, <1>5, <1>6, <1>7, <1>8, <1>9, <1>10, <1>11, Names
  DEF Next, Calling, Inside

\* Whoever starts what and how often, a start() knows its Thread and its child, and
\* a spawned thread has its flag installed (Starting).
LEMMA StartingStep ==
  ASSUME TypeOK, Starting, Next
  PROVE  Starting'
<1>0. /\ pc \in [OsThreads -> Pcs] /\ call \in [OsThreads -> Calls]
      /\ tidOf \in [OsThreads -> Tids \cup {None}]
  BY DEF TypeOK
<1>1. ASSUME NEW o \in OsThreads, NEW i \in Tids, StartReadsTask(o, i) PROVE Starting'
  <2>1. pc[o] = "bytecode" /\ pc'[o] = "take" /\ call'[o].target = i /\ tidOf' = tidOf
    BY <1>0, <1>1 DEF StartReadsTask, Enter
  <2>2. \A p \in OsThreads \ {o} : pc'[p] = pc[p] /\ call'[p] = call[p]
    BY <1>0, <1>1 DEF StartReadsTask, Enter
  <2>3. QED
    BY <2>1, <2>2, Names DEF Starting, InStart
<1>2. ASSUME NEW o \in OsThreads, StartTakesTask(o) PROVE Starting'
  <2>1. /\ pc[o] = "take" /\ pc' = [pc EXCEPT ![o] = "spawn"]
        /\ call' = call /\ tidOf' = tidOf
    BY <1>2 DEF StartTakesTask
  <2>2. QED
    BY <1>0, <2>1, Names DEF Starting, InStart
<1>3. ASSUME NEW o \in OsThreads, NEW n \in OsThreads, Spawn(o, n) PROVE Starting'
  <2> DEFINE i == call[o].target
  <2>1. pc[o] = "spawn" /\ pc[n] = "unborn" /\ n # o /\ n # Main
    BY <1>3 DEF Spawn, Starting
  <2>2. i \in Tids /\ tidOf[n] = None
    BY <2>1 DEF Starting, InStart
  <2>3. /\ pc'[o] = "record" /\ pc'[n] = "bytecode"
        /\ \A p \in OsThreads \ {o, n} : pc'[p] = pc[p]
    BY <1>0, <1>3, <2>1 DEF Spawn
  <2>4. tidOf'[n] = i /\ \A m \in OsThreads \ {n} : tidOf'[m] = tidOf[m]
    BY <1>0, <1>3 DEF Spawn
  <2>5. /\ call'[o].target = i /\ call'[o].child = n
        /\ \A p \in OsThreads \ {o} : call'[p] = call[p]
    BY <1>0, <1>3 DEF Spawn, Calls
  <2>6. \A p \in OsThreads : InStart(p)' => call'[p].target \in Tids
    BY <2>1, <2>2, <2>3, <2>5 DEF Starting, InStart
  <2>7. ASSUME NEW p \in OsThreads, p # o, pc'[p] = "record"
        PROVE  call'[p].child \in OsThreads /\ tidOf'[call'[p].child] = call'[p].target
    <3>1. pc[p] = "record" /\ call'[p] = call[p]
      BY <2>3, <2>5, <2>7
    <3>2. call[p].child \in OsThreads /\ tidOf[call[p].child] = call[p].target
      BY <3>1 DEF Starting
    <3>3. call[p].target \in Tids
      BY <3>1 DEF Starting, InStart
    <3>4. call[p].child # n
      BY <3>2, <3>3, <2>2, Names
    <3>5. QED
      BY <3>1, <3>2, <3>4, <2>4
  <2>8. \A m \in OsThreads : (tidOf'[m] = None) <=> (m = Main \/ pc'[m] = "unborn")
    BY <2>1, <2>2, <2>3, <2>4, Names DEF Starting
  <2>9. pc'[Main] \notin {"unborn", "done"}
    BY <2>1, <2>3, Names DEF Starting
  <2>10. QED
    BY <2>4, <2>5, <2>6, <2>7, <2>8, <2>9 DEF Starting
<1>4. ASSUME NEW o \in OsThreads, Quiet(o) PROVE Starting'
  <2>1. \A p \in OsThreads : InStart(p)' => InStart(p) /\ call'[p] = call[p]
    BY <1>4 DEF Quiet, InStart
  <2>2. \A p \in OsThreads : pc'[p] = "unborn" <=> pc[p] = "unborn"
    BY <1>4 DEF Quiet
  <2>3. \A p \in OsThreads : pc'[p] = "record" => pc[p] = "record" /\ call'[p] = call[p]
    BY <1>4 DEF Quiet
  <2>4. pc'[Main] \notin {"unborn", "done"}
    BY <1>4, Names DEF Quiet, Starting
  <2>5. tidOf' = tidOf
    BY <1>4 DEF Quiet
  <2>6. QED
    BY <2>1, <2>2, <2>3, <2>4, <2>5 DEF Starting
<1>5. QED
  BY <1>1, <1>2, <1>3, <1>4, StartOrQuiet

\* Inside one start() nobody else can take the task (HandOver): this is what fails
\* when two threads are in start() of the same Thread at once.
LEMMA HandOverStep ==
  ASSUME StartTwice = FALSE, TypeOK, HandOver, Next
  PROVE  HandOver'
<1>0. /\ pc \in [OsThreads -> Pcs] /\ call \in [OsThreads -> Calls]
      /\ task \in [Tids -> BOOLEAN] /\ tidOf \in [OsThreads -> Tids \cup {None}]
  BY DEF TypeOK
<1>00. Starting'
  BY StartingStep DEF HandOver
<1>1. ASSUME NEW o \in OsThreads, NEW i \in Tids, StartReadsTask(o, i) PROVE HandOver'
  <2>1. \A p \in OsThreads : InStart(p) => call[p].target # i
    BY <1>1 DEF StartReadsTask, MayStart
  <2>2. \A p \in OsThreads : p # o => pc'[p] = pc[p] /\ call'[p] = call[p]
    BY <1>0, <1>1 DEF StartReadsTask, Enter
  <2>3. pc'[o] = "take" /\ call'[o].target = i
    BY <1>0, <1>1 DEF StartReadsTask, Enter
  <2>4. task' = task /\ tidOf' = tidOf /\ task[i] /\ pc[o] = "bytecode"
    BY <1>1 DEF StartReadsTask, slots
  <2>5. \A p \in OsThreads : p # o => (InStart(p)' <=> InStart(p))
    BY <2>2 DEF InStart
  <2>7. \A p, q \in OsThreads :
          InStart(p)' /\ InStart(q)' /\ call'[p].target = call'[q].target => p = q
    <3>1. \A p \in OsThreads : p # o /\ InStart(p)' => call'[p].target # i
      BY <2>1, <2>2, <2>5
    <3>2. QED
      BY <2>2, <2>3, <2>5, <3>1 DEF HandOver, Starting
  <2>8. StartOnce'
    BY <2>4 DEF HandOver, StartOnce
  <2>9. QED
    BY <1>00, <2>2, <2>3, <2>4, <2>7, <2>8 DEF HandOver
<1>2. ASSUME NEW o \in OsThreads, StartTakesTask(o) PROVE HandOver'
  <2>1. /\ pc[o] = "take" /\ pc' = [pc EXCEPT ![o] = "spawn"]
        /\ task' = [task EXCEPT ![call[o].target] = FALSE]
        /\ call' = call /\ tidOf' = tidOf
    BY <1>2 DEF StartTakesTask
  <2>2. call[o].target \in Tids /\ task[call[o].target]
    BY <2>1 DEF HandOver, Starting, InStart
  <2>3. \A p \in OsThreads : InStart(p)' <=> InStart(p)
    BY <1>0, <2>1 DEF InStart
  <2>4. \A n \in OsThreads : tidOf[n] # call[o].target
    BY <2>2 DEF HandOver, Starting
  <2>5. \A p \in OsThreads : pc'[p] = "take" => task'[call'[p].target]
    <3>1. \A p \in OsThreads : pc'[p] = "take" =>
            pc[p] = "take" /\ p # o /\ InStart(p) /\ InStart(o)
      BY <1>0, <2>1 DEF InStart
    <3>2. \A p \in OsThreads : pc'[p] = "take" =>
            call[p].target \in Tids /\ call[p].target # call[o].target
      BY <3>1 DEF HandOver, Starting
    <3>3. QED
      BY <1>0, <2>1, <3>1, <3>2 DEF HandOver, Starting
  <2>6. \A i \in Tids : task'[i] => task[i] /\ i # call[o].target
    BY <1>0, <2>1, <2>2
  <2>7. StartOnce'
    BY <2>1 DEF HandOver, StartOnce
  <2>8. QED
    BY <1>0, <1>00, <2>1, <2>3, <2>4, <2>5, <2>6, <2>7 DEF HandOver
<1>3. ASSUME NEW o \in OsThreads, NEW n \in OsThreads, Spawn(o, n) PROVE HandOver'
  <2> DEFINE i == call[o].target
  <2>1. pc[o] = "spawn" /\ pc[n] = "unborn" /\ n # o /\ n # Main
    BY <1>3 DEF Spawn, HandOver, Starting
  <2>2. /\ i \in Tids /\ tidOf[n] = None /\ ~task[i]
        /\ \A m \in OsThreads : tidOf[m] # i
    BY <2>1 DEF HandOver, Starting, InStart
  <2>3. /\ pc'[o] = "record" /\ pc'[n] = "bytecode"
        /\ \A p \in OsThreads \ {o, n} : pc'[p] = pc[p]
    BY <1>0, <1>3, <2>1 DEF Spawn
  <2>4. tidOf'[n] = i /\ \A m \in OsThreads \ {n} : tidOf'[m] = tidOf[m]
    BY <1>0, <1>3 DEF Spawn
  <2>5. /\ call'[o] = [call[o] EXCEPT !.child = n]
        /\ \A p \in OsThreads \ {o} : call'[p] = call[p]
    BY <1>0, <1>3 DEF Spawn
  <2>6. call'[o].target = i /\ call'[o].child = n
    BY <1>0, <2>5 DEF Calls
  <2>7. task' = task
    BY <1>3 DEF Spawn, slots
  <2>8. \A p \in OsThreads : call'[p].target = call[p].target
    BY <2>5, <2>6
  <2>9. \A p \in OsThreads : InStart(p)' <=> InStart(p)
    BY <2>1, <2>3 DEF InStart
  <2>10. \A p \in OsThreads : p # o /\ InStart(p) => call[p].target # i
    BY <2>1 DEF HandOver, Starting, InStart
  <2>11. \A p \in OsThreads : pc'[p] = "take" => task'[call'[p].target]
    BY <2>1, <2>3, <2>5, <2>7 DEF HandOver, Starting
  <2>12. \A j \in Tids : task'[j] =>
           /\ \A m \in OsThreads : tidOf'[m] # j
           /\ \A p \in OsThreads : pc'[p] \in {"spawn", "record"} => call'[p].target # j
    BY <2>1, <2>2, <2>3, <2>4, <2>7, <2>8 DEF HandOver, Starting
  <2>13. \A p, m \in OsThreads : pc'[p] = "spawn" => tidOf'[m] # call'[p].target
    BY <2>3, <2>4, <2>5, <2>10 DEF HandOver, Starting, InStart
  <2>14. StartOnce'
    BY <2>2, <2>4 DEF HandOver, StartOnce
  <2>15. QED
    BY <1>00, <2>8, <2>9, <2>11, <2>12, <2>13, <2>14 DEF HandOver
<1>4. ASSUME NEW o \in OsThreads, Quiet(o) PROVE HandOver'
  <2>1. \A p \in OsThreads : pc'[p] \in {"take", "spawn", "record"} =>
          pc'[p] = pc[p] /\ call'[p] = call[p]
    BY <1>4 DEF Quiet
  <2>2. \A p \in OsThreads : InStart(p)' => InStart(p) /\ call'[p] = call[p]
    BY <2>1 DEF InStart
  <2>3. task' = task /\ tidOf' = tidOf
    BY <1>4 DEF Quiet
  <2>4. StartOnce'
    BY <2>3 DEF HandOver, StartOnce
  <2>5. QED
    BY <1>00, <2>1, <2>2, <2>3, <2>4 DEF HandOver
<1>5. QED
  BY <1>1, <1>2, <1>3, <1>4, StartOrQuiet

\* The state a program starts in (Init).
LEMMA InitHolds == Init => TypeOK /\ HandOver
<1> SUFFICES ASSUME Init PROVE TypeOK /\ HandOver
  OBVIOUS
<1>1. TypeOK
  BY CallTypes, Names DEF Init, TypeOK, SlotsAgree, Pcs
<1>2. \A o \in OsThreads : pc[o] \in {"bytecode", "unborn"} /\ ~InStart(o)
  BY DEF Init, InStart
<1>3. (pc[Main] = "bytecode") /\ \A o \in OsThreads \ {Main} : pc[o] = "unborn"
  BY Names DEF Init
<1>4. \A o \in OsThreads : tidOf[o] = None
  BY DEF Init
<1>5. HandOver
  BY <1>2, <1>3, <1>4, Names DEF HandOver, Starting, StartOnce
<1>6. QED
  BY <1>1, <1>5

\* Types and what a start() knows are inductive, whoever starts what and how often.
LEMMA Shaped == TypeOK /\ Starting /\ [Next]_vars => (TypeOK /\ Starting)'
<1>1. ASSUME TypeOK, UNCHANGED vars PROVE TypeOK'
  BY <1>1 DEF TypeOK, SlotsAgree, vars, slots
<1>2. ASSUME Starting, UNCHANGED vars PROVE Starting'
  BY <1>2, Zenon DEF Starting, InStart, vars, slots
<1>3. QED
  BY <1>1, <1>2, TypeStep, StartingStep

\* Types and hand-over together are inductive.
LEMMA Inductive ==
  ASSUME StartTwice = FALSE
  PROVE  TypeOK /\ HandOver /\ [Next]_vars => (TypeOK /\ HandOver)'
<1>1. TypeOK /\ HandOver => Starting
  BY DEF HandOver
<1>2. ASSUME HandOver, UNCHANGED vars PROVE HandOver'
  BY <1>2, Zenon DEF HandOver, Starting, StartOnce, InStart, vars, slots
<1>3. QED
  BY <1>1, <1>2, Shaped, HandOverStep

\* The slot table keeps its shape, and the fields of a slot agree, whatever the
\* program does, two threads in start() of one Thread included.
THEOREM TypesHold == SafeSpec => []TypeOK
<1>1. Init => TypeOK /\ Starting
  BY InitHolds DEF HandOver
<1>2. QED
  BY <1>1, Shaped, PTL DEF SafeSpec

\* A Thread that no two threads start at a time has its task run by at most one OS
\* thread, however many threads call start() on it before and after.
THEOREM TaskRunsOnce ==
  ASSUME StartTwice = FALSE
  PROVE  SafeSpec => [](TypeOK /\ StartOnce)
<1>1. TypeOK /\ HandOver => TypeOK /\ StartOnce
  BY DEF HandOver
<1>2. QED
  BY <1>1, InitHolds, Inductive, PTL DEF SafeSpec

-----------------------------------------------------------------------------
\* The gate is sound on the main thread: if it is neither joining nor starting a
\* thread and no slot holds an unfinished one, nothing else is alive.  The oldest
\* thread alive would otherwise be the child of a start() older still.
LEMMA GateIsSound ==
  ASSUME TypeOK, HandOver, GateInv, pc[Main] = "bytecode", NoVmThreadsRunning
  PROVE  \A o \in OsThreads \ {Main} : ~Alive(o)
<1> DEFINE S == {o \in OsThreads \ {Main} : Alive(o)}
<1> SUFFICES ASSUME S # {} PROVE FALSE
  OBVIOUS
<1>1. PICK n \in S : \A y \in S : ~(y < n)
  <2> HIDE DEF S
  <2>1. S \in SUBSET OsThreads
    BY DEF S
  <2>2. QED
    BY <2>1, Oldest
<1>2. Watched(n)
  BY <1>1 DEF GateInv
<1>3. tidOf[n] \in Tids
  BY <1>1, Names DEF TypeOK, HandOver, Starting, Alive
<1>4. ~(pc[Main] = "joining" /\ call[Main].target = tidOf[n])
  OBVIOUS
<1>5. ASSUME NEW p \in OsThreads, p < n, pc[p] = "record" PROVE FALSE
  <2>1. p # Main
    BY <1>5
  <2>2. p \in S
    BY <1>5, <2>1 DEF Alive
  <2>3. QED
    BY <1>1, <1>5, <2>2
<1>6. handle[tidOf[n]] = n
  BY <1>2, <1>4, <1>5 DEF Watched
<1>7. Finished(n)
  BY <1>1, <1>3, <1>6, Names DEF NoVmThreadsRunning, ThreadIsFinished
<1>8. QED
  BY <1>1, <1>7 DEF Alive, Finished

\* A step of a thread that is in neither start() nor join(), and that empties no
\* slot of a thread alive, leaves every thread watched (GateInv).
LEMMA GateKept ==
  ASSUME GateInv, tidOf' = tidOf, osThread' = osThread,
         NEW o \in OsThreads,
         pc[o] \notin {"unborn", "done", "record", "joining"},
         pc'[o] \notin {"unborn", "joining"},
         o = Main /\ pc'[o] = "collect" => \A p \in OsThreads \ {Main} : ~Alive(p),
         \A p \in OsThreads \ {o} : pc'[p] = pc[p] /\ call'[p] = call[p],
         \A n \in OsThreads \ {Main} :
              Alive(n) /\ handle[tidOf[n]] = n => handle'[tidOf[n]] = n
  PROVE  GateInv'
<1>1. \A m, n \in OsThreads : m < n /\ pc'[m] = "unborn" => pc'[n] = "unborn"
  BY DEF GateInv
<1>2. \A p \in OsThreads : pc'[p] = "joining" =>
        p = Main /\ call'[p].target \in Tids /\ osThread'[call'[p].target] # None
  BY DEF GateInv
<1>3. ASSUME NEW n \in OsThreads \ {Main}, Alive(n)' PROVE Watched(n)'
  <2>1. Alive(n)
    BY <1>3 DEF Alive
  <2>2. Watched(n)
    BY <2>1 DEF GateInv
  <2>3. QED
    BY <2>1, <2>2, Names DEF Watched
<1>4. MainPassExclusive'
  <2>1. \A p \in OsThreads : Alive(p)' => Alive(p)
    BY DEF Alive
  <2>2. Alive(o)
    BY DEF Alive
  <2>3. QED
    BY <2>1, <2>2, Names DEF GateInv, MainPassExclusive
<1>5. QED
  BY <1>1, <1>2, <1>3, <1>4 DEF GateInv

\* Every operation keeps every thread watched by the gate (GateInv).
LEMMA GateStep ==
  ASSUME TypeOK, HandOver, GateInv, Next
  PROVE  GateInv'
<1>0. /\ pc \in [OsThreads -> Pcs] /\ call \in [OsThreads -> Calls]
      /\ handle \in [Tids -> OsThreads \cup {None}]
      /\ osThread \in [Tids -> OsThreads \cup {None}]
      /\ tidOf \in [OsThreads -> Tids \cup {None}]
      /\ SlotsAgree
  BY DEF TypeOK
<1>01. \A n \in OsThreads \ {Main} : Alive(n) => tidOf[n] \in Tids
  BY <1>0 DEF HandOver, Starting, Alive
<1>02. StartOnce
  BY DEF HandOver, Starting
<1>1. ASSUME NEW o \in OsThreads, NEW n \in OsThreads, Spawn(o, n) PROVE GateInv'
  <2>1. /\ pc[o] = "spawn" /\ pc[n] = "unborn" /\ n # o /\ n # Main
        /\ \A m \in OsThreads : m < n => pc[m] # "unborn"
    BY <1>1 DEF Spawn, HandOver, Starting
  <2>2. /\ pc'[o] = "record" /\ pc'[n] = "bytecode"
        /\ \A p \in OsThreads \ {o, n} : pc'[p] = pc[p]
    BY <1>0, <1>1, <2>1 DEF Spawn
  <2>3. call'[o].child = n /\ \A p \in OsThreads \ {o} : call'[p] = call[p]
    BY <1>0, <1>1 DEF Spawn, Calls
  <2>4. \A m \in OsThreads \ {n} : tidOf'[m] = tidOf[m]
    BY <1>0, <1>1 DEF Spawn
  <2>5. handle' = handle /\ osThread' = osThread
    BY <1>1 DEF Spawn, slots
  <2>6. o < n
    BY <2>1, Names DEF GateInv
  <2>7. \A m, q \in OsThreads : m < q /\ pc'[m] = "unborn" => pc'[q] = "unborn"
    BY <2>1, <2>2, Names DEF GateInv
  <2>8. \A p \in OsThreads : pc'[p] = "joining" =>
          p = Main /\ call'[p].target \in Tids /\ osThread'[call'[p].target] # None
    BY <2>2, <2>3, <2>5 DEF GateInv
  <2>9. ASSUME NEW m \in OsThreads \ {Main}, Alive(m)' PROVE Watched(m)'
    <3>1. CASE m = n
      BY <3>1, <2>2, <2>3, <2>6 DEF Watched
    <3>2. CASE m # n
      <4>1. Watched(m)
        BY <2>1, <2>2, <2>9, <3>2 DEF GateInv, Alive
      <4>2. QED
        BY <4>1, <3>2, <2>1, <2>2, <2>3, <2>4, <2>5, Names DEF Watched
    <3>3. QED
      BY <3>1, <3>2
  <2>10. pc'[Main] # "collect"
    <3>1. Alive(o)
      BY <2>1 DEF Alive
    <3>2. QED
      BY <3>1, <2>1, <2>2, Names DEF GateInv, MainPassExclusive
  <2>11. QED
    BY <2>7, <2>8, <2>9, <2>10 DEF GateInv, MainPassExclusive
<1>2. ASSUME NEW o \in OsThreads, StartThread(o) PROVE GateInv'
  <2> DEFINE i == call[o].target
  <2> DEFINE c == call[o].child
  <2>1. pc[o] = "record" /\ i \in Tids /\ c \in OsThreads /\ tidOf[c] = i
    BY <1>2 DEF StartThread, HandOver, Starting, InStart
  <2>2. pc'[o] = "bytecode" /\ \A p \in OsThreads \ {o} : pc'[p] = pc[p] /\ call'[p] = call[p]
    BY <1>0, <1>2 DEF StartThread, Return
  <2>3. /\ handle'[i] = c /\ osThread'[i] = c /\ tidOf' = tidOf
        /\ \A j \in Tids \ {i} : handle'[j] = handle[j] /\ osThread'[j] = osThread[j]
    BY <1>0, <1>2, <2>1 DEF StartThread
  <2>4. \A m, n \in OsThreads : m < n /\ pc'[m] = "unborn" => pc'[n] = "unborn"
    BY <2>1, <2>2 DEF GateInv
  <2>5. \A p \in OsThreads : pc'[p] = "joining" =>
          p = Main /\ call'[p].target \in Tids /\ osThread'[call'[p].target] # None
    BY <2>1, <2>2, <2>3, Names DEF GateInv
  <2>6. ASSUME NEW m \in OsThreads \ {Main}, Alive(m)' PROVE Watched(m)'
    <3>1. Alive(m)
      BY <2>1, <2>2, <2>6 DEF Alive
    <3>2. tidOf[m] = i => m = c
      BY <2>1, <1>02, Names DEF StartOnce
    <3>3. CASE tidOf[m] = i
      BY <3>2, <3>3, <2>3 DEF Watched
    <3>4. CASE tidOf[m] # i
      <4>1. Watched(m) /\ tidOf[m] \in Tids
        BY <3>1, <1>01 DEF GateInv
      <4>2. QED
        BY <4>1, <3>4, <2>1, <2>2, <2>3, Names DEF Watched
    <3>5. QED
      BY <3>3, <3>4
  <2>7. pc'[Main] # "collect"
    <3>1. Alive(o)
      BY <2>1 DEF Alive
    <3>2. QED
      BY <3>1, <2>1, <2>2, Names DEF GateInv, MainPassExclusive
  <2>8. QED
    BY <2>4, <2>5, <2>6, <2>7 DEF GateInv, MainPassExclusive
<1>3. ASSUME NEW i \in Tids, JoinBlocks(i) PROVE GateInv'
  <2>1. /\ pc[Main] = "bytecode" /\ pc'[Main] = "joining" /\ call'[Main].target = i
        /\ \A p \in OsThreads \ {Main} : pc'[p] = pc[p] /\ call'[p] = call[p]
    BY <1>0, <1>3, Names DEF JoinBlocks, Enter
  <2>2. /\ osThread[i] # None /\ osThread' = osThread /\ tidOf' = tidOf
        /\ \A j \in Tids \ {i} : handle'[j] = handle[j]
    BY <1>0, <1>3 DEF JoinBlocks, SlotsAgree
  <2>3. \A m, n \in OsThreads : m < n /\ pc'[m] = "unborn" => pc'[n] = "unborn"
    BY <2>1 DEF GateInv
  <2>4. \A p \in OsThreads : pc'[p] = "joining" =>
          p = Main /\ call'[p].target \in Tids /\ osThread'[call'[p].target] # None
    BY <2>1, <2>2 DEF GateInv
  <2>5. ASSUME NEW m \in OsThreads \ {Main}, Alive(m)' PROVE Watched(m)'
    <3>1. Watched(m) /\ tidOf[m] \in Tids
      BY <2>1, <2>5, <1>01 DEF GateInv, Alive
    <3>2. QED
      BY <3>1, <2>1, <2>2 DEF Watched
  <2>6. QED
    BY <2>1, <2>3, <2>4, <2>5 DEF GateInv, MainPassExclusive
<1>4. ASSUME JoinReturns PROVE GateInv'
  <2> DEFINE t == call[Main].target
  <2>1. /\ pc[Main] = "joining" /\ pc'[Main] = "bytecode"
        /\ \A p \in OsThreads \ {Main} : pc'[p] = pc[p] /\ call'[p] = call[p]
        /\ handle' = handle /\ osThread' = osThread /\ tidOf' = tidOf
    BY <1>0, <1>4, Names DEF JoinReturns, Return, slots
  <2>2. t \in Tids /\ osThread[t] \in OsThreads /\ tidOf[osThread[t]] = t
    BY <1>0, <2>1, Names DEF GateInv, SlotsAgree
  <2>3. \A m \in OsThreads : Alive(m) => tidOf[m] # t
    <3>1. pc[osThread[t]] = "done"
      BY <1>4 DEF JoinReturns, Finished
    <3>2. \A m \in OsThreads : tidOf[m] = t => m = osThread[t]
      BY <2>2, <1>02, Names DEF StartOnce
    <3>3. QED
      BY <3>1, <3>2 DEF Alive
  <2>4. \A m, n \in OsThreads : m < n /\ pc'[m] = "unborn" => pc'[n] = "unborn"
    BY <2>1 DEF GateInv
  <2>5. ASSUME NEW m \in OsThreads \ {Main}, Alive(m)' PROVE Watched(m)'
    <3>1. Alive(m) /\ Watched(m)
      BY <2>1, <2>5 DEF GateInv, Alive
    <3>2. QED
      BY <3>1, <2>1, <2>3 DEF Watched
  <2>6. QED
    BY <2>1, <2>4, <2>5 DEF GateInv, MainPassExclusive
<1> DEFINE Kept(o) ==
      /\ tidOf' = tidOf /\ osThread' = osThread
      /\ pc[o] \notin {"unborn", "done", "record", "joining"}
      /\ pc'[o] \notin {"unborn", "joining"}
      /\ o = Main /\ pc'[o] = "collect" => \A p \in OsThreads \ {Main} : ~Alive(p)
      /\ \A p \in OsThreads \ {o} : pc'[p] = pc[p] /\ call'[p] = call[p]
      /\ \A n \in OsThreads \ {Main} :
              Alive(n) /\ handle[tidOf[n]] = n => handle'[tidOf[n]] = n
<1>5. ASSUME NEW o \in OsThreads, NEW i \in Tids, StartReadsTask(o, i) PROVE Kept(o)
  BY <1>0, <1>5 DEF StartReadsTask, Enter, slots
<1>6. ASSUME NEW o \in OsThreads, StartTakesTask(o) PROVE Kept(o)
  BY <1>0, <1>6 DEF StartTakesTask
<1>7. ASSUME NEW o \in OsThreads, NEW kind \in {"join", "timedJoin"}, NEW i \in Tids,
             JoinPolls(o, kind, i)
      PROVE  Kept(o)
  BY <1>0, <1>7 DEF JoinPolls, Enter, slots
<1>8. ASSUME NEW o \in OsThreads, Sleep(o) PROVE Kept(o)
  BY <1>0, <1>8 DEF Sleep, Enter, slots
<1>9. ASSUME NEW o \in OsThreads, TestInterrupt(o) PROVE Kept(o)
  <2>1. \/ pc' = [pc EXCEPT ![o] = "bytecode"] /\ call' = [call EXCEPT ![o] = NoCall]
        \/ pc' = [pc EXCEPT ![o] = "poll"] /\ call' = call
    BY <1>9 DEF TestInterrupt, Return
  <2>2. pc[o] = "top" /\ handle' = handle /\ osThread' = osThread /\ tidOf' = tidOf
    BY <1>9 DEF TestInterrupt
  <2>3. QED
    BY <1>0, <2>1, <2>2
<1>10. ASSUME NEW o \in OsThreads, Poll(o) PROVE Kept(o)
  <2>1. \/ pc' = [pc EXCEPT ![o] = "bytecode"] /\ call' = [call EXCEPT ![o] = NoCall]
        \/ pc' = [pc EXCEPT ![o] = "parked"] /\ call' = call
    BY <1>10, Zenon DEF Poll, Return
  <2>2. pc[o] = "poll" /\ osThread' = osThread /\ tidOf' = tidOf
    BY <1>10 DEF Poll
  <2>3. \/ handle' = handle
        \/ /\ handle' = [handle EXCEPT ![call[o].target] = None]
           /\ ThreadIsFinished(call[o].target)
    BY <1>10, Zenon DEF Poll
  <2>4. ASSUME NEW n \in OsThreads \ {Main}, Alive(n), handle[tidOf[n]] = n
        PROVE  handle'[tidOf[n]] = n
    <3>1. ~Finished(handle[tidOf[n]]) /\ handle[tidOf[n]] # None
      BY <2>4, Names DEF Alive, Finished
    <3>2. ThreadIsFinished(call[o].target) => tidOf[n] # call[o].target
      BY <3>1 DEF ThreadIsFinished
    <3>3. QED
      BY <1>0, <1>01, <2>3, <2>4, <3>2
  <2>5. QED
    BY <1>0, <2>1, <2>2, <2>4
<1>11. ASSUME NEW o \in OsThreads, WakeByToken(o) \/ WakeByTimeout(o) \/ WakeSpuriously(o)
       PROVE  Kept(o)
  <2>1. /\ pc[o] = "parked" /\ pc' = [pc EXCEPT ![o] = "top"] /\ call' = call
        /\ handle' = handle /\ osThread' = osThread /\ tidOf' = tidOf
    BY <1>11 DEF WakeByToken, WakeByTimeout, WakeSpuriously, Unpark, slots
  <2>2. QED
    BY <1>0, <2>1
<1>12. ASSUME NEW o \in OsThreads, Deadline(o) PROVE Kept(o)
  BY <1>0, <1>12 DEF Deadline, slots
<1>13. ASSUME NEW o \in OsThreads, NEW i \in Tids, Interrupt(o, i) PROVE Kept(o)
  BY <1>0, <1>13 DEF Interrupt
<1>14. ASSUME NEW o \in OsThreads, StartPass(o) PROVE Kept(o)
  <2>1. o = Main => \A p \in OsThreads \ {Main} : ~Alive(p)
    BY <1>14, GateIsSound DEF StartPass
  <2>2. QED
    BY <1>0, <1>14, <2>1 DEF StartPass, slots
<1>15. ASSUME NEW o \in OsThreads, EndPass(o) \/ TaskEnds(o) PROVE Kept(o)
  <2>1. /\ pc[o] \in {"bytecode", "collect"} /\ call' = call
        /\ pc' = [pc EXCEPT ![o] = "bytecode"] \/ pc' = [pc EXCEPT ![o] = "done"]
        /\ handle' = handle /\ osThread' = osThread /\ tidOf' = tidOf
    BY <1>15 DEF EndPass, TaskEnds, slots
  <2>2. QED
    BY <1>0, <2>1
<1>16. ASSUME NEW o \in OsThreads, Kept(o) PROVE GateInv'
  BY <1>16, GateKept
<1> HIDE DEF Kept
<1>17. QED
  BY <1>1, <1>2, <1>3, <1>4, <1>5, <1>6, <1>7, <1>8, <1>9, <1>10, <1>11, <1>12,
     <1>13, <1>14, <1>15, <1>16 DEF Next, Calling, Inside

\* Only the main thread is alive at first (GateInv).
LEMMA GateInitially == Init => GateInv
<1> SUFFICES ASSUME Init PROVE GateInv
  OBVIOUS
<1>1. pc[Main] = "bytecode" /\ \A o \in OsThreads \ {Main} : pc[o] = "unborn"
  BY Names DEF Init
<1>2. \A m, n \in OsThreads : m < n => n # Main
  BY Names DEF Main, OsThreads
<1>3. QED
  BY <1>1, <1>2 DEF GateInv, MainPassExclusive, Alive

\* A step of something else changes no thread (GateInv).
LEMMA GateUnchanged ==
  ASSUME GateInv, UNCHANGED vars
  PROVE  GateInv'
BY Zenon DEF GateInv, Watched, MainPassExclusive, Alive, vars, slots

\* While the main thread is inside a collection pass it is the only thread alive,
\* for any number of threads started by one another in any order, as long as no
\* Thread is started by two threads at a time.
THEOREM PassesAreExclusive ==
  ASSUME StartTwice = FALSE
  PROVE  SafeSpec => []MainPassExclusive
<1>1. TypeOK /\ HandOver /\ GateInv /\ [Next]_vars => GateInv'
  BY GateStep, GateUnchanged
<1>2. GateInv => MainPassExclusive
  BY DEF GateInv
<1>3. QED
  BY <1>1, <1>2, GateInitially, InitHolds, Inductive, PTL DEF SafeSpec

----------------------------------------------------------------------------
(***************************************************************************)
(* What VmThreads promises of joins and interrupts.                        *)
(***************************************************************************)

Waiting(o) == Waits(o) \/ pc[o] = "joining"

\* A step of a thread that neither enters nor leaves start(), and that joins only
\* what has been started, changes nothing Recorded speaks of.
LEMMA RecordedKept ==
  ASSUME Recorded, task' = task, started' = started, osThread' = osThread, tidOf' = tidOf,
         NEW o \in OsThreads,
         pc[o] # "record",
         pc'[o] \notin {"take", "spawn", "record"},
         Waiting(o)' /\ Joins(o)' => call'[o].target \in Tids /\ started[call'[o].target],
         \A p \in OsThreads \ {o} : pc'[p] = pc[p] /\ call'[p] = call[p]
  PROVE  Recorded'
<1>1. \A p \in OsThreads : InStart(p)' => InStart(p) /\ p # o
  BY DEF InStart
<1>2. \A i \in Tids : started'[i] =>
        ~task'[i] /\ \A p \in OsThreads : InStart(p)' => call'[p].target # i
  BY <1>1 DEF Recorded
<1>3. \A p \in OsThreads : Waiting(p)' /\ Joins(p)' =>
        call'[p].target \in Tids /\ started'[call'[p].target]
  <2>1. \A p \in OsThreads \ {o} : Waiting(p)' /\ Joins(p)' => Waiting(p) /\ Joins(p)
    BY DEF Waiting, Waits, Joins
  <2>2. QED
    BY <2>1 DEF Recorded, Waiting
<1>4. \A n \in OsThreads : tidOf'[n] # None =>
        \/ osThread'[tidOf'[n]] = n
        \/ \E p \in OsThreads : pc'[p] = "record" /\ call'[p].child = n
  <2>1. \A p \in OsThreads : pc[p] = "record" => pc'[p] = "record" /\ call'[p] = call[p]
    OBVIOUS
  <2>2. QED
    BY <2>1 DEF Recorded
<1>5. QED
  BY <1>2, <1>3, <1>4 DEF Recorded, Waiting

\* start() records what it has spawned, once for every Thread (Recorded).
LEMMA RecordedStep ==
  ASSUME StartTwice = FALSE, TypeOK, HandOver, GateInv, Recorded, Next
  PROVE  Recorded'
<1>0. /\ pc \in [OsThreads -> Pcs] /\ call \in [OsThreads -> Calls]
      /\ task \in [Tids -> BOOLEAN] /\ tidOf \in [OsThreads -> Tids \cup {None}]
      /\ started \in [Tids -> BOOLEAN] /\ osThread \in [Tids -> OsThreads \cup {None}]
  BY DEF TypeOK
<1>1. ASSUME NEW o \in OsThreads, NEW i \in Tids, StartReadsTask(o, i) PROVE Recorded'
  <2>1. pc'[o] = "take" /\ call'[o].target = i /\ pc[o] = "bytecode"
    BY <1>0, <1>1 DEF StartReadsTask, Enter
  <2>2. \A p \in OsThreads \ {o} : pc'[p] = pc[p] /\ call'[p] = call[p]
    BY <1>0, <1>1 DEF StartReadsTask, Enter
  <2>3. task' = task /\ started' = started /\ osThread' = osThread /\ tidOf' = tidOf /\ task[i]
    BY <1>1 DEF StartReadsTask, slots
  <2>4. ~started[i]
    BY <2>3 DEF Recorded
  <2>5. \A p \in OsThreads \ {o} : InStart(p)' => InStart(p)
    BY <2>2 DEF InStart
  <2>6. \A j \in Tids : started'[j] =>
          ~task'[j] /\ \A p \in OsThreads : InStart(p)' => call'[p].target # j
    BY <2>1, <2>2, <2>3, <2>4, <2>5 DEF Recorded
  <2>7. \A p \in OsThreads : Waiting(p)' /\ Joins(p)' =>
          call'[p].target \in Tids /\ started'[call'[p].target]
    <3>1. \A p \in OsThreads : Waiting(p)' /\ Joins(p)' => p # o /\ Waiting(p) /\ Joins(p)
      BY <2>1, <2>2 DEF Waiting, Waits, Joins
    <3>2. QED
      BY <3>1, <2>2, <2>3 DEF Recorded, Waiting
  <2>8. \A p \in OsThreads : pc[p] = "record" => pc'[p] = "record" /\ call'[p] = call[p]
    BY <2>1, <2>2
  <2>9. QED
    BY <2>3, <2>6, <2>7, <2>8 DEF Recorded, Waiting
<1>2. ASSUME NEW o \in OsThreads, StartTakesTask(o) PROVE Recorded'
  <2>1. /\ pc[o] = "take" /\ pc' = [pc EXCEPT ![o] = "spawn"]
        /\ task' = [task EXCEPT ![call[o].target] = FALSE]
        /\ call' = call /\ tidOf' = tidOf /\ started' = started /\ osThread' = osThread
    BY <1>2 DEF StartTakesTask
  <2>2. \A p \in OsThreads : /\ InStart(p)' => InStart(p)
                             /\ Waiting(p)' => Waiting(p)
                             /\ pc[p] = "record" => pc'[p] = "record"
    BY <1>0, <2>1 DEF InStart, Waiting, Waits
  <2>3. \A j \in Tids : task'[j] => task[j]
    BY <1>0, <2>1
  <2>4. \A p \in OsThreads : Joins(p)' <=> Joins(p)
    BY <2>1 DEF Joins
  <2>5. QED
    BY <2>1, <2>2, <2>3, <2>4 DEF Recorded, Waiting
<1>3. ASSUME NEW o \in OsThreads, NEW n \in OsThreads, Spawn(o, n) PROVE Recorded'
  <2>1. pc[o] = "spawn" /\ pc[n] = "unborn" /\ n # o
    BY <1>3 DEF Spawn
  <2>2. /\ pc'[o] = "record" /\ pc'[n] = "bytecode"
        /\ \A p \in OsThreads \ {o, n} : pc'[p] = pc[p]
    BY <1>0, <1>3, <2>1 DEF Spawn
  <2>3. /\ call'[o].target = call[o].target /\ call'[o].child = n /\ call'[o].kind = call[o].kind
        /\ \A p \in OsThreads \ {o} : call'[p] = call[p]
    BY <1>0, <1>3 DEF Spawn, Calls
  <2>4. \A m \in OsThreads \ {n} : tidOf'[m] = tidOf[m]
    BY <1>0, <1>3 DEF Spawn
  <2>5. task' = task /\ started' = started /\ osThread' = osThread
    BY <1>3 DEF Spawn, slots
  <2>6. \A p \in OsThreads : /\ InStart(p)' => InStart(p)
                             /\ call'[p].target = call[p].target
    BY <2>1, <2>2, <2>3 DEF InStart
  <2>7. \A p \in OsThreads : Waiting(p)' => p # o /\ p # n /\ Waiting(p)
    BY <2>2 DEF Waiting, Waits
  <2>8. \A p \in OsThreads : Waiting(p)' /\ Joins(p)' =>
          call'[p].target \in Tids /\ started'[call'[p].target]
    BY <2>3, <2>5, <2>7 DEF Recorded, Waiting, Joins
  <2>9. ASSUME NEW m \in OsThreads, tidOf'[m] # None
        PROVE  \/ osThread'[tidOf'[m]] = m
               \/ \E p \in OsThreads : pc'[p] = "record" /\ call'[p].child = m
    <3>1. CASE m = n
      BY <3>1, <2>2, <2>3
    <3>2. CASE m # n
      <4>1. \A p \in OsThreads : pc[p] = "record" => pc'[p] = "record" /\ call'[p] = call[p]
        BY <2>1, <2>2, <2>3
      <4>2. QED
        BY <3>2, <4>1, <2>4, <2>5, <2>9 DEF Recorded
    <3>3. QED
      BY <3>1, <3>2
  <2>10. QED
    BY <2>5, <2>6, <2>8, <2>9 DEF Recorded, Waiting
<1>4. ASSUME NEW o \in OsThreads, StartThread(o) PROVE Recorded'
  <2> DEFINE i == call[o].target
  <2> DEFINE c == call[o].child
  <2>1. pc[o] = "record" /\ i \in Tids /\ c \in OsThreads /\ tidOf[c] = i
    BY <1>4 DEF StartThread, HandOver, Starting, InStart
  <2>2. pc'[o] = "bytecode" /\ \A p \in OsThreads \ {o} : pc'[p] = pc[p] /\ call'[p] = call[p]
    BY <1>0, <1>4 DEF StartThread, Return
  <2>3. /\ osThread'[i] = c /\ started'[i] /\ tidOf' = tidOf /\ task' = task
        /\ \A j \in Tids \ {i} : osThread'[j] = osThread[j] /\ started'[j] = started[j]
    BY <1>0, <1>4, <2>1 DEF StartThread
  <2>4. \A p \in OsThreads : InStart(p)' => InStart(p) /\ p # o
    BY <2>2 DEF InStart
  <2>5. ~task[i]
    BY <2>1 DEF HandOver, Starting
  <2>6. \A p \in OsThreads : InStart(p) /\ p # o => call[p].target # i
    BY <2>1 DEF HandOver, Starting, InStart
  <2>7. \A j \in Tids : started'[j] =>
          ~task'[j] /\ \A p \in OsThreads : InStart(p)' => call'[p].target # j
    BY <2>2, <2>3, <2>4, <2>5, <2>6 DEF Recorded
  <2>8. \A p \in OsThreads : Waiting(p)' /\ Joins(p)' =>
          call'[p].target \in Tids /\ started'[call'[p].target]
    <3>1. \A p \in OsThreads : Waiting(p)' /\ Joins(p)' => p # o /\ Waiting(p) /\ Joins(p)
      BY <2>2 DEF Waiting, Waits, Joins
    <3>2. QED
      BY <3>1, <2>2, <2>3 DEF Recorded, Waiting
  <2>9. ASSUME NEW m \in OsThreads, tidOf'[m] # None
        PROVE  \/ osThread'[tidOf'[m]] = m
               \/ \E p \in OsThreads : pc'[p] = "record" /\ call'[p].child = m
    <3>1. CASE tidOf[m] = i
      <4>1. tidOf[m] # None /\ tidOf[m] = tidOf[c]
        BY <3>1, <2>1, Names
      <4>2. m = c
        BY <4>1, <2>1 DEF HandOver, Starting, StartOnce
      <4>3. QED
        BY <4>2, <2>1, <2>3
    <3>2. CASE tidOf[m] # i
      <4>1. m # c /\ tidOf[m] \in Tids
        BY <1>0, <2>1, <2>3, <2>9, <3>2
      <4>2. CASE osThread[tidOf[m]] = m
        BY <4>1, <4>2, <3>2, <2>3
      <4>3. CASE \E p \in OsThreads : pc[p] = "record" /\ call[p].child = m
        BY <4>1, <4>3, <2>2
      <4>4. QED
        BY <4>2, <4>3, <2>3, <2>9 DEF Recorded
    <3>3. QED
      BY <3>1, <3>2
  <2>10. QED
    BY <2>7, <2>8, <2>9 DEF Recorded, Waiting
<1> DEFINE Kept(o) ==
      /\ task' = task /\ started' = started /\ osThread' = osThread /\ tidOf' = tidOf
      /\ pc[o] # "record"
      /\ pc'[o] \notin {"take", "spawn", "record"}
      /\ Waiting(o)' /\ Joins(o)' => call'[o].target \in Tids /\ started[call'[o].target]
      /\ \A p \in OsThreads \ {o} : pc'[p] = pc[p] /\ call'[p] = call[p]
<1> USE DEF Waiting, Waits
<1>01. \A p \in OsThreads : Waiting(p) /\ Joins(p) =>
         call[p].target \in Tids /\ started[call[p].target]
  BY DEF Recorded
<1>5. ASSUME NEW i \in Tids, JoinBlocks(i) PROVE Kept(Main)
  BY <1>0, <1>5, Names DEF JoinBlocks, Enter
<1>6. ASSUME JoinReturns PROVE Kept(Main)
  BY <1>0, <1>6, Names DEF JoinReturns, Return, slots
<1>7. ASSUME NEW o \in OsThreads, NEW kind \in {"join", "timedJoin"}, NEW i \in Tids,
             JoinPolls(o, kind, i)
      PROVE  Kept(o)
  BY <1>0, <1>7 DEF JoinPolls, Enter, slots
<1>8. ASSUME NEW o \in OsThreads, Sleep(o) PROVE Kept(o)
  <2>1. call'[o].kind = "sleep"
    BY <1>0, <1>8 DEF Sleep, Enter
  <2>2. ~Joins(o)'
    BY <2>1 DEF Joins
  <2>3. QED
    BY <1>0, <1>8, <2>2 DEF Sleep, Enter, slots
<1>9. ASSUME NEW o \in OsThreads, TestInterrupt(o) PROVE Kept(o)
  <2>1. /\ pc[o] = "top" /\ task' = task /\ started' = started
        /\ osThread' = osThread /\ tidOf' = tidOf
    BY <1>9 DEF TestInterrupt
  <2>2. \/ pc' = [pc EXCEPT ![o] = "bytecode"] /\ call' = [call EXCEPT ![o] = NoCall]
        \/ pc' = [pc EXCEPT ![o] = "poll"] /\ call' = call
    BY <1>9 DEF TestInterrupt, Return
  <2>3. QED
    BY <1>0, <1>01, <2>1, <2>2 DEF Joins
<1>10. ASSUME NEW o \in OsThreads, Poll(o) PROVE Kept(o)
  <2>1. /\ pc[o] = "poll" /\ task' = task /\ started' = started
        /\ osThread' = osThread /\ tidOf' = tidOf
    BY <1>10 DEF Poll
  <2>2. \/ pc' = [pc EXCEPT ![o] = "bytecode"] /\ call' = [call EXCEPT ![o] = NoCall]
        \/ pc' = [pc EXCEPT ![o] = "parked"] /\ call' = call
    BY <1>10, Zenon DEF Poll, Return
  <2>3. QED
    BY <1>0, <1>01, <2>1, <2>2 DEF Joins
<1>11. ASSUME NEW o \in OsThreads, WakeByToken(o) \/ WakeByTimeout(o) \/ WakeSpuriously(o)
       PROVE  Kept(o)
  <2>1. /\ pc[o] = "parked" /\ pc' = [pc EXCEPT ![o] = "top"] /\ call' = call
        /\ task' = task /\ started' = started /\ osThread' = osThread /\ tidOf' = tidOf
    BY <1>11 DEF WakeByToken, WakeByTimeout, WakeSpuriously, Unpark, slots
  <2>2. QED
    BY <1>0, <1>01, <2>1 DEF Joins
<1>12. ASSUME NEW o \in OsThreads, Deadline(o) PROVE Kept(o)
  BY <1>0, <1>01, <1>12 DEF Deadline, slots, Joins
<1>13. ASSUME NEW o \in OsThreads, NEW i \in Tids, Interrupt(o, i) PROVE Kept(o)
  BY <1>0, <1>13 DEF Interrupt
<1>14. ASSUME NEW o \in OsThreads, StartPass(o) \/ EndPass(o) \/ TaskEnds(o) PROVE Kept(o)
  <2>1. /\ pc[o] \in {"bytecode", "collect"}
        /\ \E s \in {"bytecode", "collect", "done"} : pc' = [pc EXCEPT ![o] = s]
        /\ task' = task /\ started' = started /\ osThread' = osThread /\ tidOf' = tidOf
        /\ call' = call
    BY <1>14 DEF StartPass, EndPass, TaskEnds, slots
  <2>2. QED
    BY <1>0, <2>1
<1> HIDE DEF Waiting, Waits
<1>15. ASSUME NEW o \in OsThreads, Kept(o) PROVE Recorded'
  BY <1>15, RecordedKept
<1> HIDE DEF Kept
<1>16. QED
  BY <1>1, <1>2, <1>3, <1>4, <1>5, <1>6, <1>7, <1>8, <1>9, <1>10, <1>11, <1>12,
     <1>13, <1>14, <1>15, Names DEF Next, Calling, Inside

-----------------------------------------------------------------------------
\* The only step that leaves a thread behind the test of its flag interrupted and
\* without a token is an interrupt() that does not find it in its slot.
LEMMA OnlyTheUnrecordedLose ==
  ASSUME TypeOK, Next, NEW n \in OsThreads, Wakeable(n), ~Wakeable(n)'
  PROVE  osThread[tidOf[n]] # n
<1>0. /\ pc \in [OsThreads -> Pcs] /\ tidOf \in [OsThreads -> Tids \cup {None}]
      /\ interrupt \in [Tids -> BOOLEAN] /\ token \in [OsThreads -> BOOLEAN]
      /\ call \in [OsThreads -> Calls]
  BY DEF TypeOK
<1>1. pc'[n] \in {"poll", "parked"} /\ Interrupted(n)' /\ ~token'[n]
  BY DEF Wakeable
<1> DEFINE Apart == /\ tidOf'[n] = tidOf[n]
                    /\ \A i \in Tids : interrupt'[i] => interrupt[i]
                    /\ pc'[n] \in {"poll", "parked"} =>
                         pc[n] \in {"poll", "parked"} /\ token'[n] = token[n]
<1>2. ASSUME Apart PROVE FALSE
  <2>1. Interrupted(n)
    BY <1>0, <1>1, <1>2 DEF Interrupted
  <2>2. QED
    BY <1>1, <1>2, <2>1 DEF Wakeable
<1>3. ASSUME NEW o \in OsThreads, NEW i \in Tids, Interrupt(o, i)
      PROVE  osThread[tidOf[n]] # n
  <2>1. /\ tidOf' = tidOf /\ pc' = pc /\ interrupt' = [interrupt EXCEPT ![i] = TRUE]
        /\ token'[n] = (token[n] \/ n = osThread[i])
    BY <1>3 DEF Interrupt
  <2>2. ~token[n] /\ n # osThread[i]
    BY <1>1, <2>1
  <2>3. ~Interrupted(n)
    BY <1>1, <2>1, <2>2 DEF Wakeable
  <2>4. tidOf[n] = i
    BY <1>0, <1>1, <2>1, <2>3 DEF Interrupted
  <2>5. QED
    BY <2>2, <2>4
<1>4. ASSUME NEW o \in OsThreads, TestInterrupt(o) PROVE FALSE
  <2>1. /\ tidOf' = tidOf /\ token' = token /\ pc[o] = "top"
        /\ \A p \in OsThreads \ {o} : pc'[p] = pc[p]
    BY <1>0, <1>4 DEF TestInterrupt, Return
  <2>2. CASE Interrupted(o)
    <3>1. pc'[o] = "bytecode" /\ interrupt' = [interrupt EXCEPT ![tidOf[o]] = FALSE]
      BY <1>0, <1>4, <2>2 DEF TestInterrupt, Return
    <3>2. n # o /\ \A i \in Tids : interrupt'[i] => interrupt[i]
      BY <1>0, <1>1, <3>1
    <3>3. QED
      BY <1>2, <2>1, <3>2
  <2>3. CASE ~Interrupted(o)
    <3>1. interrupt' = interrupt
      BY <1>4, <2>3 DEF TestInterrupt
    <3>2. n # o
      BY <1>1, <2>1, <2>3, <3>1 DEF Interrupted
    <3>3. QED
      BY <1>2, <2>1, <3>1, <3>2
  <2>4. QED
    BY <2>2, <2>3
<1>5. ASSUME NEW o \in OsThreads, NEW i \in Tids, StartReadsTask(o, i) PROVE Apart
  BY <1>0, <1>5 DEF StartReadsTask, Enter, slots
<1>6. ASSUME NEW o \in OsThreads, StartTakesTask(o) \/ StartThread(o) PROVE Apart
  BY <1>0, <1>6 DEF StartTakesTask, StartThread, Return
<1>7. ASSUME NEW o \in OsThreads, NEW m \in OsThreads, Spawn(o, m) PROVE Apart
  <2>1. pc'[m] = "bytecode" /\ \A p \in OsThreads \ {o, m} : pc'[p] = pc[p]
    BY <1>0, <1>7 DEF Spawn
  <2>2. n # m /\ n # o
    BY <1>0, <1>1, <1>7, <2>1 DEF Spawn
  <2>3. QED
    BY <1>0, <1>7, <2>1, <2>2 DEF Spawn, slots
<1>8. ASSUME NEW i \in Tids, JoinBlocks(i) PROVE Apart
  BY <1>0, <1>8, Names DEF JoinBlocks, Enter
<1>9. ASSUME JoinReturns PROVE Apart
  BY <1>0, <1>9, Names DEF JoinReturns, Return, slots
<1>10. ASSUME NEW o \in OsThreads, NEW kind \in {"join", "timedJoin"}, NEW i \in Tids,
              JoinPolls(o, kind, i)
       PROVE  Apart
  BY <1>0, <1>10 DEF JoinPolls, Enter, slots
<1>11. ASSUME NEW o \in OsThreads, Sleep(o) PROVE Apart
  BY <1>0, <1>11 DEF Sleep, Enter, slots
<1>12. ASSUME NEW o \in OsThreads, Poll(o) PROVE Apart
  <2>1. pc[o] = "poll" /\ tidOf' = tidOf /\ interrupt' = interrupt /\ token' = token
    BY <1>12 DEF Poll
  <2>2. pc' = [pc EXCEPT ![o] = "bytecode"] \/ pc' = [pc EXCEPT ![o] = "parked"]
    BY <1>12, Zenon DEF Poll, Return
  <2>3. QED
    BY <1>0, <2>1, <2>2
<1>13. ASSUME NEW o \in OsThreads, WakeByToken(o) \/ WakeByTimeout(o) \/ WakeSpuriously(o)
       PROVE  Apart
  <2>1. /\ pc' = [pc EXCEPT ![o] = "top"] /\ tidOf' = tidOf /\ interrupt' = interrupt
        /\ token' = token \/ token' = [token EXCEPT ![o] = FALSE]
    BY <1>13 DEF WakeByToken, WakeByTimeout, WakeSpuriously, Unpark, slots
  <2>2. QED
    BY <1>0, <2>1
<1>14. ASSUME NEW o \in OsThreads, Deadline(o) PROVE Apart
  BY <1>0, <1>14 DEF Deadline, slots
<1>15. ASSUME NEW o \in OsThreads, StartPass(o) \/ EndPass(o) \/ TaskEnds(o) PROVE Apart
  <2>1. /\ \E s \in {"bytecode", "collect", "done"} : pc' = [pc EXCEPT ![o] = s]
        /\ tidOf' = tidOf /\ interrupt' = interrupt /\ token' = token
    BY <1>15 DEF StartPass, EndPass, TaskEnds, slots
  <2>2. QED
    BY <1>0, <2>1
<1> HIDE DEF Apart
<1>16. QED
  BY <1>2, <1>3, <1>4, <1>5, <1>6, <1>7, <1>8, <1>9, <1>10, <1>11, <1>12, <1>13,
     <1>14, <1>15 DEF Next, Calling, Inside

\* Every program, every interleaving: an interrupt() that meets its target between
\* the test of its flag and the end of park_timeout leaves a token that stays until
\* the target takes it, unless the slot does not name the target at that moment.
THEOREM InterruptsAreNotLost == SafeSpec => NoInterruptLost
<1> DEFINE Kept == \A o \in OsThreads : Wakeable(o) /\ ~Wakeable(o)' => osThread[tidOf[o]] # o
<1>1. TypeOK /\ [Next]_vars => [Kept]_vars
  BY OnlyTheUnrecordedLose
<1>2. QED
  BY <1>1, TypesHold, PTL DEF SafeSpec, NoInterruptLost

-----------------------------------------------------------------------------
\* Only the test at the top of a wait clears a flag, and it clears that of the
\* thread it stands in (take_interrupt).
LEMMA OnlyTheTestClears ==
  ASSUME TypeOK, Next, NEW i \in Tids, interrupt[i], ~interrupt'[i]
  PROVE  \E o \in OsThreads : tidOf[o] = i /\ pc[o] = "top" /\ pc'[o] = "bytecode"
<1>0. pc \in [OsThreads -> Pcs] /\ interrupt \in [Tids -> BOOLEAN]
  BY DEF TypeOK
<1>1. interrupt' # interrupt
  OBVIOUS
<1>2. ASSUME NEW o \in OsThreads, TestInterrupt(o)
      PROVE  tidOf[o] = i /\ pc[o] = "top" /\ pc'[o] = "bytecode"
  <2>1. /\ pc[o] = "top" /\ pc' = [pc EXCEPT ![o] = "bytecode"]
        /\ interrupt' = [interrupt EXCEPT ![tidOf[o]] = FALSE]
    BY <1>1, <1>2 DEF TestInterrupt, Return
  <2>2. QED
    BY <1>0, <2>1
<1>3. ASSUME NEW o \in OsThreads, NEW j \in Tids, Interrupt(o, j) PROVE FALSE
  BY <1>0, <1>3 DEF Interrupt
<1>4. ASSUME NEW o \in OsThreads, NEW j \in Tids,
             \/ StartReadsTask(o, j)
             \/ \E kind \in {"join", "timedJoin"} : JoinPolls(o, kind, j)
      PROVE  FALSE
  BY <1>1, <1>4 DEF StartReadsTask, JoinPolls, slots
<1>5. ASSUME NEW o \in OsThreads,
             \/ StartTakesTask(o) \/ StartThread(o) \/ (\E n \in OsThreads : Spawn(o, n))
             \/ Sleep(o) \/ StartPass(o) \/ EndPass(o) \/ TaskEnds(o)
      PROVE  FALSE
  BY <1>1, <1>5 DEF StartTakesTask, StartThread, Spawn, Sleep, StartPass, EndPass, TaskEnds, slots
<1>6. ASSUME NEW o \in OsThreads,
             Poll(o) \/ WakeByToken(o) \/ WakeByTimeout(o) \/ WakeSpuriously(o) \/ Deadline(o)
      PROVE  FALSE
  BY <1>1, <1>6
  DEF Poll, WakeByToken, WakeByTimeout, WakeSpuriously, Unpark, Deadline, slots
<1>7. (\E j \in Tids : JoinBlocks(j)) \/ JoinReturns => FALSE
  BY <1>1 DEF JoinBlocks, JoinReturns, slots
<1>8. QED
  BY <1>2, <1>3, <1>4, <1>5, <1>6, <1>7 DEF Next, Calling, Inside

\* An interrupt stays until the thread it is meant for takes it, in whatever
\* order it is sent: before start(), between spawn and record, or during a wait, and
\* however often and by whomever that Thread is started.
THEOREM InterruptsAreDelivered == SafeSpec => InterruptIsDelivered
<1> DEFINE Delivered == \A i \in Tids : interrupt[i] /\ ~interrupt'[i] =>
                          \E o \in OsThreads : /\ tidOf[o] = i
                                               /\ pc[o] = "top" /\ pc'[o] = "bytecode"
<1>1. TypeOK /\ [Next]_vars => [Delivered]_vars
  BY OnlyTheTestClears
<1>2. QED
  BY <1>1, TypesHold, PTL DEF SafeSpec, InterruptIsDelivered

-----------------------------------------------------------------------------
\* The inductive invariant of the theorem about joins.
Waitable == TypeOK /\ HandOver /\ GateInv /\ Recorded

\* Waitable is inductive.
LEMMA WaitableInvariant ==
  ASSUME StartTwice = FALSE
  PROVE  /\ Init => Waitable
         /\ Waitable /\ [Next]_vars => Waitable'
<1>1. Init => Waitable
  <2> SUFFICES ASSUME Init PROVE Waitable
    OBVIOUS
  <2>1. TypeOK /\ HandOver
    BY InitHolds
  <2>2. GateInv
    BY GateInitially
  <2>3. Recorded
    <3>1. /\ \A i \in Tids : ~started[i]
          /\ \A n \in OsThreads : tidOf[n] = None /\ pc[n] \in {"bytecode", "unborn"}
      BY DEF Init
    <3>2. QED
      BY <3>1 DEF Recorded, Waits
  <2>4. QED
    BY <2>1, <2>2, <2>3 DEF Waitable
<1>2. ASSUME Waitable, Next PROVE Waitable'
  BY <1>2, Inductive, GateStep, RecordedStep DEF Waitable
<1>3. ASSUME Waitable, UNCHANGED vars PROVE Waitable'
  <2>1. TypeOK' /\ HandOver'
    BY <1>3, Inductive DEF Waitable
  <2>2. GateInv'
    BY <1>3, GateUnchanged DEF Waitable
  <2>3. Recorded'
    BY <1>3, Zenon DEF Waitable, Recorded, InStart, Waits, Joins, vars, slots
  <2>4. QED
    BY <2>1, <2>2, <2>3 DEF Waitable
<1>4. QED
  BY <1>1, <1>2, <1>3

-----------------------------------------------------------------------------
\* When a join of the main thread succeeds, whoever runs the task has finished:
\* the handle that was taken or polled is that of the only thread that ever did.
LEMMA JoinTellsTheTruth ==
  ASSUME Waitable, Next, NEW i \in Tids, JoinedOk(Main, i),
         NEW n \in OsThreads, tidOf[n] = i
  PROVE  Finished(n)
<1>0. /\ pc \in [OsThreads -> Pcs] /\ call \in [OsThreads -> Calls]
      /\ handle \in [Tids -> OsThreads \cup {None}]
      /\ osThread \in [Tids -> OsThreads \cup {None}]
      /\ SlotsAgree
  BY DEF Waitable, TypeOK
<1>1. /\ pc[Main] \in {"joining", "poll"} /\ pc'[Main] = "bytecode"
      /\ Joins(Main) /\ call[Main].target = i /\ handle'[i] = None
  BY DEF JoinedOk
<1>2. \A m \in OsThreads : tidOf[m] = i => m = n
  BY Names DEF Waitable, HandOver, Starting, StartOnce
<1>3. JoinReturns \/ Poll(Main)
  <2>1. pc'[Main] # pc[Main]
    BY <1>1
  <2>2. ASSUME NEW o \in OsThreads, Calling(o) \/ WakeSpuriously(o) \/ Deadline(o) PROVE FALSE
    <3>1. pc[o] \in {"bytecode", "parked"} \/ pc' = pc
      BY <2>2 DEF Calling, WakeSpuriously, Deadline, StartReadsTask, JoinPolls, Interrupt, Sleep,
                  StartPass, TaskEnds
    <3>2. o # Main
      BY <1>1, <2>1, <3>1
    <3>3. \E s \in Pcs : pc' = [pc EXCEPT ![o] = s]
      BY <2>1, <2>2 DEF Calling, WakeSpuriously, Deadline, StartReadsTask, JoinPolls, Interrupt,
                        Sleep, StartPass, TaskEnds, Enter, Unpark, Pcs
    <3>4. QED
      BY <1>0, <2>1, <3>2, <3>3, Names
  <2>3. ASSUME NEW o \in OsThreads, Inside(o), ~Poll(Main) PROVE FALSE
    <3>1. CASE o = Main
      BY <1>1, <2>3, <3>1, Names
      DEF Inside, StartTakesTask, StartThread, Spawn, TestInterrupt, WakeByToken, WakeByTimeout,
          EndPass
    <3>2. CASE o # Main
      <4>1. CASE \E m \in OsThreads : Spawn(o, m)
        BY <1>0, <1>1, <2>1, <3>2, <4>1, Names DEF Spawn
      <4>2. CASE ~\E m \in OsThreads : Spawn(o, m)
        <5>1. \E s \in Pcs : pc' = [pc EXCEPT ![o] = s]
          <6>1. CASE Poll(o)
            BY <6>1, Zenon DEF Poll, Return, Pcs
          <6>2. CASE TestInterrupt(o)
            BY <6>2, Zenon DEF TestInterrupt, Return, Pcs
          <6>3. CASE ~Poll(o) /\ ~TestInterrupt(o)
            BY <2>3, <4>2, <6>3
            DEF Inside, StartTakesTask, StartThread, WakeByToken, WakeByTimeout, EndPass,
                Unpark, Return, Pcs
          <6>4. QED
            BY <6>1, <6>2, <6>3
        <5>2. QED
          BY <1>0, <2>1, <3>2, <5>1, Names
      <4>3. QED
        BY <4>1, <4>2
    <3>3. QED
      BY <3>1, <3>2
  <2>4. ~\E j \in Tids : JoinBlocks(j)
    BY <1>1 DEF JoinBlocks
  <2>5. QED
    BY <2>2, <2>3, <2>4 DEF Next
<1>4. CASE JoinReturns
  <2>1. osThread[i] # None /\ Finished(osThread[i])
    BY <1>1, <1>4, Names DEF JoinReturns, Waitable, GateInv
  <2>2. osThread[i] \in OsThreads /\ tidOf[osThread[i]] = i
    BY <1>0, <2>1 DEF SlotsAgree
  <2>3. QED
    BY <1>2, <2>1, <2>2
<1>5. CASE Poll(Main)
  <2>1. pc[Main] = "poll" /\ started[i]
    BY <1>1, <1>5, Names DEF Poll, Waitable, Recorded, Waits
  <2>2. ThreadIsFinished(i)
    <3>1. CASE ThreadIsFinished(i)
      BY <3>1
    <3>2. CASE ~ThreadIsFinished(i)
      <4>1. handle' = handle
        BY <1>1, <1>5, <3>2 DEF Poll
      <4>2. QED
        BY <1>1, <3>2, <4>1 DEF ThreadIsFinished
    <3>3. QED
      BY <3>1, <3>2
  <2>3. \A p \in OsThreads : ~(pc[p] = "record" /\ call[p].child = n)
    <3>1. \A p \in OsThreads : InStart(p) => call[p].target # i
      BY <2>1 DEF Waitable, Recorded
    <3>2. QED
      BY <3>1 DEF Waitable, HandOver, Starting, InStart
  <2>4. CASE Alive(n)
    <3>1. n # Main
      BY Names DEF Waitable, HandOver, Starting
    <3>2. Watched(n)
      BY <2>4, <3>1 DEF Waitable, GateInv
    <3>3. handle[i] = n
      BY <2>1, <2>3, <3>2 DEF Watched
    <3>4. QED
      BY <2>2, <3>3, Names DEF ThreadIsFinished
  <2>5. CASE ~Alive(n)
    <3>1. pc[n] # "unborn"
      BY Names DEF Waitable, HandOver, Starting
    <3>2. QED
      BY <2>5, <3>1 DEF Alive, Finished
  <2>6. QED
    BY <2>4, <2>5
<1>6. QED
  BY <1>3, <1>4, <1>5

\* join() and join(millis) tell the main thread the truth: once one of them says
\* the Thread is over, no OS thread is running its task, although its handle may
\* have been taken out of the slot by somebody else.
THEOREM JoinsAreTrue ==
  ASSUME StartTwice = FALSE
  PROVE  SafeSpec => MainJoinIsTrue
<1> DEFINE True == \A i \in Tids : JoinedOk(Main, i) =>
                     \A n \in OsThreads : tidOf[n] = i => Finished(n)
<1>1. Waitable /\ [Next]_vars => [True]_vars
  <2> SUFFICES ASSUME Waitable, Next PROVE True
    OBVIOUS
  <2>1. QED
    BY JoinTellsTheTruth
<1>2. QED
  BY <1>1, WaitableInvariant, PTL DEF SafeSpec, MainJoinIsTrue
=============================================================================
