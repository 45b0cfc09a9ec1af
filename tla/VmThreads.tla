------------------------------ MODULE VmThreads ------------------------------
(***************************************************************************)
(* system.thread.Thread: Program::threads (one ThreadSlot per Thread       *)
(* object), native::dispatch_thread, and the gate no_vm_threads_running    *)
(* puts before a collection pass.                                          *)
(*                                                                         *)
(* A Thread object and its slot are one element of Tids; every Thread the  *)
(* program uses has been constructed.  OS threads are numbered in the      *)
(* order they are spawned: 0 is the main thread, which no Thread object    *)
(* designates.  One action is one critical section of the slot table or of *)
(* a Thread object, so an operation that locks twice is cut in two.        *)
(*                                                                         *)
(* pc[o] is where OS thread o stands:                                      *)
(*   "unborn"   not spawned yet            "done"    its task has returned *)
(*   "bytecode" running NL bytecode        "collect" counting references   *)
(*   "take", "spawn", "record"             inside start()                  *)
(*   "joining"                             inside JoinHandle::join         *)
(*   "top", "poll", "parked"               inside the loops of             *)
(*                          wait_for_thread and sleep_interruptibly        *)
(***************************************************************************)
EXTENDS Integers

CONSTANTS Tids,         \* the Thread objects
          MaxOs,        \* how many OS threads are ever spawned
          StartTwice,   \* may start() be called while another thread is in start() of the
                        \* same Thread?  (stdlib.md: "must not be called more than once")
          None

OsThreads == 0..MaxOs
Main == 0

ASSUME ThreadsAssumption == /\ MaxOs \in Nat
                            /\ StartTwice \in BOOLEAN
                            /\ None \notin Tids
                            /\ None \notin OsThreads

VARIABLES
  task,       \* task[i]: Thread i still has its `__task__`
  handle,     \* ThreadSlot::handle: the OS thread whose JoinHandle slot i holds
  osThread,   \* ThreadSlot::os_thread
  started,    \* ThreadSlot::started
  interrupt,  \* ThreadSlot::interrupt
  pc,
  tidOf,      \* CURRENT_INTERRUPT: whose flag OS thread o installed
  call,       \* the call o is inside, or the last one it made
  expired,    \* the deadline of o's timed wait has passed
  token       \* o's park token

slots == <<task, handle, osThread, started, interrupt>>
vars == <<slots, pc, tidOf, call, expired, token>>

Calls == [kind : {"none", "sleep", "join", "timedJoin", "start"},
          target : Tids \cup {None},       \* the receiver
          child : OsThreads \cup {None}]   \* what start() has spawned
NoCall == [kind |-> "none", target |-> None, child |-> None]
Pcs == {"unborn", "bytecode", "done", "collect", "take", "spawn", "record",
        "joining", "top", "poll", "parked"}

Init ==
  /\ task = [i \in Tids |-> TRUE]
  /\ handle = [i \in Tids |-> None]
  /\ osThread = [i \in Tids |-> None]
  /\ started = [i \in Tids |-> FALSE]
  /\ interrupt = [i \in Tids |-> FALSE]
  /\ pc = [o \in OsThreads |-> IF o = Main THEN "bytecode" ELSE "unborn"]
  /\ tidOf = [o \in OsThreads |-> None]
  /\ call = [o \in OsThreads |-> NoCall]
  /\ expired = [o \in OsThreads |-> FALSE]
  /\ token = [o \in OsThreads |-> FALSE]

-----------------------------------------------------------------------------
Finished(o) == pc[o] = "done"

\* is_none_or(JoinHandle::is_finished): an empty slot counts as finished.
ThreadIsFinished(i) == handle[i] # None => Finished(handle[i])

NoVmThreadsRunning == \A i \in Tids : ThreadIsFinished(i)

InStart(o) == pc[o] \in {"take", "spawn", "record"}

\* The code does not keep two threads out of start() of one Thread; its contract
\* does (StartTwice = FALSE).  join() and interrupt() are never restricted.
MayStart(i) == StartTwice \/ \A o \in OsThreads : InStart(o) => call[o].target # i

Enter(o, kind, i, where) ==
  /\ call' = [call EXCEPT ![o] = [kind |-> kind, target |-> i, child |-> None]]
  /\ pc' = [pc EXCEPT ![o] = where]
  /\ UNCHANGED expired

Return(o) ==
  /\ pc' = [pc EXCEPT ![o] = "bytecode"]
  /\ call' = [call EXCEPT ![o] = NoCall]
  /\ expired' = [expired EXCEPT ![o] = FALSE]

-----------------------------------------------------------------------------
\* start(), first lock of the object: no task left means already started.
StartReadsTask(o, i) ==
  /\ pc[o] = "bytecode"
  /\ MayStart(i)
  /\ task[i]
  /\ Enter(o, "start", i, "take")
  /\ UNCHANGED <<slots, tidOf, token>>

\* Mutant of StartTakesTask: start() keeps the task it has cloned.
StartKeepsTask(o) ==
  /\ pc[o] = "take"
  /\ pc' = [pc EXCEPT ![o] = "spawn"]
  /\ UNCHANGED <<slots, tidOf, call, expired, token>>

\* Second lock of the object: `__task__` becomes null.
StartTakesTask(o) ==
  /\ pc[o] = "take"
  /\ task' = [task EXCEPT ![call[o].target] = FALSE]
  /\ pc' = [pc EXCEPT ![o] = "spawn"]
  /\ UNCHANGED <<handle, osThread, started, interrupt, tidOf, call, expired, token>>

\* thread::Builder::spawn: the new thread runs from here on.
Spawn(o, n) ==
  /\ pc[o] = "spawn"
  /\ pc[n] = "unborn"
  /\ \A m \in OsThreads : m < n => pc[m] # "unborn"
  /\ pc' = [pc EXCEPT ![o] = "record", ![n] = "bytecode"]
  /\ tidOf' = [tidOf EXCEPT ![n] = call[o].target]
  /\ call' = [call EXCEPT ![o] = [@ EXCEPT !.child = n]]
  /\ UNCHANGED <<slots, expired, token>>

\* Mutant of StartThread: `started` is left for the new thread to set.
StartThreadNotStarted(o) ==
  /\ pc[o] = "record"
  /\ handle' = [handle EXCEPT ![call[o].target] = call[o].child]
  /\ osThread' = [osThread EXCEPT ![call[o].target] = call[o].child]
  /\ Return(o)
  /\ UNCHANGED <<task, started, interrupt, tidOf, token>>

\* Mutant of StartThread: the slot is recorded with a fresh interrupt flag.
StartThreadResetsFlag(o) ==
  /\ pc[o] = "record"
  /\ LET i == call[o].target IN
       /\ handle' = [handle EXCEPT ![i] = call[o].child]
       /\ osThread' = [osThread EXCEPT ![i] = call[o].child]
       /\ started' = [started EXCEPT ![i] = TRUE]
       /\ interrupt' = [interrupt EXCEPT ![i] = FALSE]
  /\ Return(o)
  /\ UNCHANGED <<task, tidOf, token>>

\* Program::start_thread; a JoinHandle already in the slot is dropped.
StartThread(o) ==
  /\ pc[o] = "record"
  /\ LET i == call[o].target IN
       /\ handle' = [handle EXCEPT ![i] = call[o].child]
       /\ osThread' = [osThread EXCEPT ![i] = call[o].child]
       /\ started' = [started EXCEPT ![i] = TRUE]
  /\ Return(o)
  /\ UNCHANGED <<task, interrupt, tidOf, token>>

-----------------------------------------------------------------------------
\* join() on the main thread: join_thread takes the handle out of the slot and
\* then blocks in JoinHandle::join, the table unlocked.
JoinBlocks(i) ==
  /\ pc[Main] = "bytecode"
  /\ started[i]
  /\ handle[i] # None
  /\ Enter(Main, "join", i, "joining")
  /\ handle' = [handle EXCEPT ![i] = None]
  /\ UNCHANGED <<task, osThread, started, interrupt, tidOf, token>>

\* Mutant of JoinReturns: the handle is dropped, which detaches the thread.
JoinDetaches ==
  /\ pc[Main] = "joining"
  /\ Return(Main)
  /\ UNCHANGED <<slots, tidOf, token>>

JoinReturns ==
  /\ pc[Main] = "joining"
  /\ Finished(osThread[call[Main].target])
  /\ Return(Main)
  /\ UNCHANGED <<slots, tidOf, token>>

\* Mutant of JoinPolls: a timed join takes the handle before it starts to poll.
JoinTakesThenPolls(o, kind, i) ==
  /\ pc[o] = "bytecode"
  /\ started[i]
  /\ kind = "join" => o # Main
  /\ Enter(o, kind, i, "top")
  /\ handle' = [handle EXCEPT ![i] = None]
  /\ UNCHANGED <<task, osThread, started, interrupt, tidOf, token>>

\* join() of a spawned thread, and join(millis) of any: wait_for_thread.
JoinPolls(o, kind, i) ==
  /\ pc[o] = "bytecode"
  /\ started[i]
  /\ kind = "join" => o # Main
  /\ Enter(o, kind, i, "top")
  /\ UNCHANGED <<slots, tidOf, token>>

\* Thread.sleep(millis).
Sleep(o) ==
  /\ pc[o] = "bytecode"
  /\ Enter(o, "sleep", None, "top")
  /\ UNCHANGED <<slots, tidOf, token>>

\* The main thread has no flag of its own, so nothing interrupts it.
Interrupted(o) == tidOf[o] # None /\ interrupt[tidOf[o]]

\* Top of either loop: take_interrupt tests and clears the thread's own flag.
TestInterrupt(o) ==
  /\ pc[o] = "top"
  /\ IF Interrupted(o)
     THEN /\ interrupt' = [interrupt EXCEPT ![tidOf[o]] = FALSE]
          /\ Return(o)
     ELSE /\ pc' = [pc EXCEPT ![o] = "poll"]
          /\ UNCHANGED <<interrupt, call, expired>>
  /\ UNCHANGED <<task, handle, osThread, started, tidOf, token>>

Joins(o) == call[o].kind \in {"join", "timedJoin"}

\* The rest of either loop: the target has finished (join_thread empties its
\* slot and cannot block), the deadline has passed, or the thread parks.
Poll(o) ==
  /\ pc[o] = "poll"
  /\ \/ /\ Joins(o) /\ ThreadIsFinished(call[o].target)
        /\ handle' = [handle EXCEPT ![call[o].target] = None]
        /\ Return(o)
     \/ /\ Joins(o) => ~ThreadIsFinished(call[o].target)
        /\ call[o].kind # "join" /\ expired[o]
        /\ Return(o)
        /\ UNCHANGED handle
     \/ /\ Joins(o) => ~ThreadIsFinished(call[o].target)
        /\ call[o].kind = "join" \/ ~expired[o]
        /\ pc' = [pc EXCEPT ![o] = "parked"]
        /\ UNCHANGED <<handle, call, expired>>
  /\ UNCHANGED <<task, osThread, started, interrupt, tidOf, token>>

Unpark(o) == /\ pc' = [pc EXCEPT ![o] = "top"]
             /\ UNCHANGED <<slots, tidOf, call, expired>>

\* park_timeout returns because of a token, which it consumes ...
WakeByToken(o) == /\ pc[o] = "parked" /\ token[o]
                  /\ token' = [token EXCEPT ![o] = FALSE]
                  /\ Unpark(o)

\* Mutant of WakeByTimeout: a joiner parks until its deadline, if it has one.
WakeAtDeadline(o) == /\ pc[o] = "parked"
                     /\ expired[o]
                     /\ UNCHANGED token
                     /\ Unpark(o)

\* Mutant of WakeByTimeout: sleep() parks with no timeout.
WakeToPoll(o) == /\ pc[o] = "parked"
                 /\ Joins(o)
                 /\ UNCHANGED token
                 /\ Unpark(o)

\* ... because JOIN_POLL_INTERVAL or the time to the deadline is over ...
WakeByTimeout(o) == /\ pc[o] = "parked"
                    /\ Joins(o) \/ expired[o]
                    /\ UNCHANGED token
                    /\ Unpark(o)

\* ... or for no reason; the main thread's std::thread::sleep does not.
WakeSpuriously(o) == /\ pc[o] = "parked"
                     /\ ~(o = Main /\ call[o].kind = "sleep")
                     /\ UNCHANGED token
                     /\ Unpark(o)

\* The clock reaches the deadline of a timed wait.
Deadline(o) ==
  /\ pc[o] \in {"top", "poll", "parked"}
  /\ call[o].kind \in {"sleep", "timedJoin"}
  /\ ~expired[o]
  /\ expired' = [expired EXCEPT ![o] = TRUE]
  /\ UNCHANGED <<slots, pc, tidOf, call, token>>

\* Mutant of Interrupt: a wakeup that is lost on a thread not parked yet, as
\* with a condition variable in place of park().
InterruptNotifies(o, i) ==
  /\ pc[o] = "bytecode"
  /\ interrupt' = [interrupt EXCEPT ![i] = TRUE]
  /\ token' = [n \in OsThreads |-> token[n] \/ (n = osThread[i] /\ pc[n] = "parked")]
  /\ UNCHANGED <<task, handle, osThread, started, pc, tidOf, call, expired>>

\* interrupt(): the flag, then unpark() when the slot knows the OS thread.
Interrupt(o, i) ==
  /\ pc[o] = "bytecode"
  /\ interrupt' = [interrupt EXCEPT ![i] = TRUE]
  /\ token' = [n \in OsThreads |-> token[n] \/ n = osThread[i]]
  /\ UNCHANGED <<task, handle, osThread, started, pc, tidOf, call, expired>>

-----------------------------------------------------------------------------
\* run_pending_collection at the end of any frame of any thread: the gate, then
\* the trial deletion up to the partition into garbage and survivors.
StartPass(o) == /\ pc[o] = "bytecode"
                /\ NoVmThreadsRunning
                /\ pc' = [pc EXCEPT ![o] = "collect"]
                /\ UNCHANGED <<slots, tidOf, call, expired, token>>

\* The partition is made; the destructors that follow are ordinary bytecode.
EndPass(o) == /\ pc[o] = "collect"
              /\ pc' = [pc EXCEPT ![o] = "bytecode"]
              /\ UNCHANGED <<slots, tidOf, call, expired, token>>

\* The task returns or throws; either way the OS thread ends.
TaskEnds(o) == /\ o # Main
               /\ pc[o] = "bytecode"
               /\ pc' = [pc EXCEPT ![o] = "done"]
               /\ UNCHANGED <<slots, tidOf, call, expired, token>>

-----------------------------------------------------------------------------
\* What a thread does when its program says so.
Calling(o) == \/ \E i \in Tids : \/ StartReadsTask(o, i)
                                 \/ \E kind \in {"join", "timedJoin"} : JoinPolls(o, kind, i)
                                 \/ Interrupt(o, i)
              \/ Sleep(o)
              \/ StartPass(o)
              \/ TaskEnds(o)

\* What it does next by itself once inside a call or a pass.
Inside(o) == \/ StartTakesTask(o)
             \/ StartThread(o)
             \/ \E n \in OsThreads : Spawn(o, n)
             \/ TestInterrupt(o)
             \/ Poll(o)
             \/ WakeByToken(o)
             \/ WakeByTimeout(o)
             \/ EndPass(o)

Next == \/ \E o \in OsThreads : Calling(o) \/ Inside(o) \/ WakeSpuriously(o) \/ Deadline(o)
        \/ \E i \in Tids : JoinBlocks(i)
        \/ JoinReturns

SafeSpec == Init /\ [][Next]_vars

(***************************************************************************)
(* The OS scheduler runs every thread that can run, so a thread inside a   *)
(* call goes on; nothing is assumed about what calls a program makes, that *)
(* its tasks end, or that a deadline ever comes.                           *)
(***************************************************************************)
Scheduling == /\ \A o \in OsThreads : WF_vars(Inside(o))
              /\ WF_vars(JoinReturns)

Spec == SafeSpec /\ Scheduling

-----------------------------------------------------------------------------
\* The three fields start() writes into a slot agree: a handle is that of the
\* thread that runs this Thread's task, a slot that names a thread is started.
SlotsAgree ==
  \A i \in Tids : /\ handle[i] # None => osThread[i] = handle[i]
                  /\ osThread[i] # None => started[i] /\ tidOf[osThread[i]] = i

\* Every slot, program counter and pending call has its shape.
TypeOK ==
  /\ task \in [Tids -> BOOLEAN]
  /\ handle \in [Tids -> OsThreads \cup {None}]
  /\ osThread \in [Tids -> OsThreads \cup {None}]
  /\ started \in [Tids -> BOOLEAN]
  /\ interrupt \in [Tids -> BOOLEAN]
  /\ pc \in [OsThreads -> Pcs]
  /\ tidOf \in [OsThreads -> Tids \cup {None}]
  /\ call \in [OsThreads -> Calls]
  /\ expired \in [OsThreads -> BOOLEAN]
  /\ token \in [OsThreads -> BOOLEAN]
  /\ SlotsAgree

Alive(o) == pc[o] \notin {"unborn", "done"}

\* While the main thread counts references in a pass no other thread exists
\* that could change the object graph under it, although a thread runs before start()
\* records it and although join() empties slots (no_vm_threads_running).
MainPassExclusive ==
  pc[Main] = "collect" => \A o \in OsThreads \ {Main} : ~Alive(o)

\* A Thread's task is run at most once (the `__task__` hand-over of start()).
StartOnce ==
  \A m, n \in OsThreads : (tidOf[m] # None /\ tidOf[m] = tidOf[n]) => m = n

\* From the test of its flag on, an interrupted thread has a token.
Wakeable(o) == pc[o] \in {"poll", "parked"} /\ Interrupted(o) => token[o]

\* An interrupt() leaves a token behind wherever it meets the thread between
\* take_interrupt and the end of park_timeout, and nothing else takes that token
\* away: a thread stops being wakeable only while its slot does not name it, which
\* start() has still to record (or another start() of the same Thread has overwritten).
NoInterruptLost ==
  [][\A o \in OsThreads : Wakeable(o) /\ ~Wakeable(o)' => osThread[tidOf[o]] # o]_vars

\* A join on Thread i returns other than by its deadline or an interrupt.
JoinedOk(o, i) == /\ pc[o] \in {"joining", "poll"} /\ pc'[o] = "bytecode"
                  /\ Joins(o) /\ call[o].target = i
                  /\ handle'[i] = None

\* When join() or join(millis) tells the main thread that a thread is over, no
\* OS thread is running its task.
MainJoinIsTrue ==
  [][\A i \in Tids : JoinedOk(Main, i) =>
       \A n \in OsThreads : tidOf[n] = i => Finished(n)]_vars

\* An interrupt is sticky: the flag goes away only in the thread it is meant
\* for, as the InterruptedException of a join or sleep of that thread.
InterruptIsDelivered ==
  [][\A i \in Tids : interrupt[i] /\ ~interrupt'[i] =>
       \E o \in OsThreads : /\ tidOf[o] = i
                            /\ pc[o] = "top" /\ pc'[o] = "bytecode"]_vars

Waits(o) == pc[o] \in {"top", "poll", "parked"}

\* In a program where only the thread that starts a Thread interrupts it: an
\* interrupted join or sleep ends although no deadline comes, no target
\* finishes and nothing wakes it spuriously (unpark() after the flag is set);
\* sleep(millis) and join(millis) return once their deadline has passed, although
\* nobody unparks the thread and whatever the target of the join does.
WaitEnds ==
  \A o \in OsThreads :
    (Waits(o) /\ (Interrupted(o) \/ expired[o])) ~> ~Waits(o)

\* A polling join() returns once its target is over, although finishing
\* unparks nobody (JOIN_POLL_INTERVAL).
JoinSeesFinish ==
  \A o \in OsThreads, i \in Tids :
    (Waits(o) /\ call[o].kind = "join" /\ call[o].target = i /\ ThreadIsFinished(i)) ~> ~Waits(o)

-----------------------------------------------------------------------------
(***************************************************************************)
(* The strengthenings that make the properties above inductive.  All but   *)
(* Starting need that no two threads start the same Thread at a time.      *)
(***************************************************************************)

\* A start() knows its Thread and the thread it has spawned for it.
Starting ==
  /\ \A o \in OsThreads : InStart(o) => call[o].target \in Tids
  /\ \A o \in OsThreads : pc[o] = "record" =>
       call[o].child \in OsThreads /\ tidOf[call[o].child] = call[o].target
  /\ \A n \in OsThreads : (tidOf[n] = None) <=> (n = Main \/ pc[n] = "unborn")
  /\ pc[Main] \notin {"unborn", "done"}

\* The task travels from the Thread object to the one start() that took it and
\* from there to the one OS thread it spawned.
HandOver ==
  /\ Starting
  /\ \A o, p \in OsThreads :
       InStart(o) /\ InStart(p) /\ call[o].target = call[p].target => o = p
  /\ \A o \in OsThreads : pc[o] = "take" => task[call[o].target]
  /\ \A i \in Tids : task[i] =>
       /\ \A n \in OsThreads : tidOf[n] # i
       /\ \A o \in OsThreads : pc[o] \in {"spawn", "record"} => call[o].target # i
  /\ \A o, n \in OsThreads : pc[o] = "spawn" => tidOf[n] # call[o].target
  /\ StartOnce

\* Every thread alive is in a slot the gate looks at, or is being joined by the
\* main thread, or is the child of an older thread still inside start().
Watched(n) ==
  \/ handle[tidOf[n]] = n
  \/ pc[Main] = "joining" /\ call[Main].target = tidOf[n]
  \/ \E p \in OsThreads : p < n /\ pc[p] = "record" /\ call[p].child = n

GateInv ==
  /\ \A m, n \in OsThreads : m < n /\ pc[m] = "unborn" => pc[n] = "unborn"
  /\ \A o \in OsThreads : pc[o] = "joining" =>
       o = Main /\ call[o].target \in Tids /\ osThread[call[o].target] # None
  /\ \A n \in OsThreads \ {Main} : Alive(n) => Watched(n)
  /\ MainPassExclusive

\* A Thread is started once its slot names the OS thread that runs its task, and
\* is never in a start() again; who joins a Thread has found it started.
Recorded ==
  /\ \A i \in Tids : started[i] =>
       ~task[i] /\ \A o \in OsThreads : InStart(o) => call[o].target # i
  /\ \A o \in OsThreads : (Waits(o) \/ pc[o] = "joining") /\ Joins(o) =>
       call[o].target \in Tids /\ started[call[o].target]
  /\ \A n \in OsThreads : tidOf[n] # None =>
       \/ osThread[tidOf[n]] = n
       \/ \E p \in OsThreads : pc[p] = "record" /\ call[p].child = n
=============================================================================
