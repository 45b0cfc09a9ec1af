# A TLA+ model of nlvm

nlvm compiles programs of the NL language to bytecode (`nl-syntax`, `nl-sema`,
`nl-codegen`, `nl-bytecode`) and runs them in a virtual machine (`nl-vm`). This
directory models

- what depends on the order in which things happen: threads and their locks,
  reference counting with destructors and a cycle collector, the handle
  registry of the database library;
- the path control takes through a method, from its syntax tree through the
  checker and the code generator to the interpreter;
- what several passes must agree on although each works it out for itself: which
  overload a call means, which method it reaches, which way through the
  constructors an object takes, which variables a closure shares;
- algorithms on data: JSON, regular expressions and globs, calendar and time
  zones, the module format.

The modules are translated from the Rust source; TLC checks them on small
instances and TLAPS proves the central invariants for every size.

To check a run: `tlc -config <name>.cfg <module>` with the names of
`PROJECT.json` "runs". To check the proofs of a module: `tlapm VmCounterProofs.tla`.

## 1. The system

| component | source | state it keeps | operations | hard behaviour |
|---|---|---|---|---|
| Mutex, Semaphore | `nl-vm/program.rs` `Counter`, `native.rs` `dispatch_mutex/_semaphore` | a count under a std mutex, a condition variable | acquire, tryAcquire, release | threads barge in between a notify and the wakeup; spurious wakeups |
| Threads | `program.rs` `ThreadSlot`, `native.rs` `dispatch_thread`, `wait_for_thread`, `sleep_interruptibly` | one slot per Thread: join handle, `std::thread::Thread`, interrupt flag, started; `__task__` in the object | start, join, join(millis), sleep, interrupt, isAlive, isInterrupted | start() locks several times; the new thread runs before its slot knows it; interrupts race with parking |
| Objects and the cycle collector | `gc.rs`, `value.rs` `Object::drop`, `interpreter.rs` | `Arc` counts, `fields`, `destroyed`; the candidate buffer and deferred counter of `Program` | everything that moves a reference; Drop; run_pending_collection; final_sweep | destructors run in the middle of drops and passes, resurrect objects and trigger further passes; a gate keeps passes away while threads run |
| Interpreter | `interpreter.rs`, `call_stack.rs` | frames: locals, operands, pc, handler table; the frame stack of a thread | run_frame, exec_step, call_static/call_instance, exception dispatch | unwinding through handlers and finally copies; the depth limit |
| Program and linker | `program.rs` | modules, vtables, statics, string constants | verify_link, build_vtable, clinit, run_program | order of static initialisers; partial failure of start-up |
| Native containers | `native.rs` List, Map | data arrays behind per-object locks | add, set, remove, sort, Map.get/set/remove | callbacks into NL code between two locks of the same object |
| Files and sockets | `native.rs`, `program.rs` tables | `Vec<Option<…>>` tables | open, read, close; accept, send, receive | blocking calls under the table's lock |
| Databases | `db.rs` | `DbRegistry`: connections, statements, result sets | open, prepare, bind, query, execute, transactions, next, close | handles that outlive their parent; a flag that shadows the driver's state; one lock around a driver that may wait |
| HTTP, JSON, regex, time zones, strings | `net_http.rs`, `json.rs`, `mini_regex.rs`, `mini_tz.rs`, `text.rs` | none between calls | pure functions, one blocking exchange | numeric and boundary cases |
| Bytecode | `nl-bytecode` | the module format and constant pool | encode, decode, verify | u16 widths |
| Front end | `nl-syntax` | token position, AST | lex, parse, monomorphise, expand typedefs, mark captures | worklists that must end |
| Checker | `nl-sema` | scopes, class table | type check, flow analysis | definite return and assignment over loops and try |
| Code generator | `nl-codegen` | labels, local slots, handler ranges | lower statements and expressions | finally on every exit path |
| Tools | `nlc`, `nlvm`, `nl-test-runner`, `nl-bench` | none | command lines | none |

How they interact. A VM thread is an OS thread that runs `interpreter::run_frame`.
Frames create objects and drop references; a drop may run the destructor
(`Object::drop` calls `call_instance`), a frame's exit may run a collection pass
(`note_locals_and_collect`), and a pass runs destructors (`force_destroy`). The
pass first asks `no_vm_threads_running`, the only coupling of the collector to
the thread table: `VmThreads` proves what the gate gives, and `CycleCollector`
takes the gate as a Boolean that is up while spawned threads run. Native
containers matter to the collector because they drop references under their
own lock and a pass locks every object it visits. The database registry shares
nothing with the rest but the `Program` it hangs on.

Correctness, component by component:

- **Counter**: the count never goes below zero, a free permit is never left
  while a thread sleeps, a disciplined program gets mutual exclusion.
- **Threads**: a task runs once; join() tells the truth; an interrupt reaches
  its target once, and wakes it if its slot names it; a pass on the main thread overlaps no other
  thread; waits end.
- **Collector**: nothing the program can reach is destroyed or freed, every
  destructor runs at most once and before its object is freed, garbage is
  reclaimed at the latest at exit, and no thread waits for its own lock.
- **Databases**: closing a connection closes what came from it, handles never
  alias, a stale row is refused, the transaction flag agrees with the driver.
- **Code generator and interpreter**: the bytecode of a method makes the calls
  its source makes, in that order, and ends as it does, whatever the calls
  answer: each finally body runs exactly once on every exit, jumps land where
  they should, operands are consumed, and no jump goes round for ever.
- **Checker**: what it takes to be assigned is, and a checked exception that
  leaves a method is a declared one.
- **Overloads, classes and the linker**: a call emits the overload it was checked
  against, pops what was pushed, and runs the receiver's nearest override; a
  hierarchy the checker accepts is linked; every accepted way through the
  constructors ends, with each class's initialisers run once and the fields set
  that may not be null.
- **Captures**: a variable that a closure and its method share has one value, and
  every Box<T> that is emitted is a class the program has.
- **Module format**: what is written is what is read; what was damaged is refused.
- **JSON, patterns, calendar**: each agrees with a definition of its language that
  does not say how.

## 2. Modules

| module | models | extends |
|---|---|---|
| `SemaphoreSpec` | what a semaphore promises, with no condition variable | |
| `VmCounter` | `Counter`; `Promise` is `SemaphoreSpec` under a refinement mapping | |
| `VmCounterProofs` | proofs about it | `VmCounter` |
| `VmThreads` | the slot table, Thread's methods, the collection gate | |
| `VmThreadsProofs` | proofs about it: types, tasks, the gate, joins and interrupts | `VmThreads` |
| `CycleCollector` | `Object::drop`, `gc.rs`, and the instructions that move references | |
| `CycleCollectorProofs` | proofs about it: references, destructors | `CycleCollector` |
| `CycleCollectorStackProofs` | … the shape of the stack, what each step does, locks | `CycleCollectorProofs` |
| `CycleCollectorReachProofs` | … a pass takes garbage only | `CycleCollectorStackProofs` |
| `CycleCollectorLeakProofs` | … no garbage is forgotten, and the final sweep takes all of it | `CycleCollectorReachProofs` |
| `DbRegistry` | `db.rs` with the driver's transactions and locks | |
| `DbRegistryProofs` | proofs about it | `DbRegistry` |
| `NlAst` | the statements and expressions that decide control flow; values; exception classes | |
| `Lowering` | nl-codegen's `Emitter`: a method body to code and exception table | `NlAst` |
| `DefiniteFlow` | nl-sema's flow checks: E001, E015, E048 | `NlAst` |
| `SourceSemantics` | what a method body means: the reference that compiled code is compared with | `NlAst` |
| `Frame` | `run_frame` and `exec_step` on the code of a method | `NlAst` |
| `Conformance` | the property that compares the two | `Frame`, `SourceSemantics` |
| `Verifier` | a bytecode verifier: what the interpreter takes on trust | `Frame` |
| `FrameProofs` | proofs about `Frame`: verified code runs without faults | `Verifier` |
| `Classes` | types, subtypes, overloads, the binding of arguments, descriptors: the checker's and the emitter's copies | |
| `Declarations` | what nl-sema refuses of class declarations and constructors | `Classes` |
| `Linking` | the emitter's layout of a class, `verify_link`, vtables, dispatch | `Classes` |
| `Closures` | `capture.rs`, the Box requests of `monomorphize.rs`, the checking, compilation and running of closures | |
| `Json` | `json.rs`: parser and serializer | |
| `Regex` | `mini_regex.rs`: compiler, matcher, searches, globs | |
| `TimeZone` | `mini_tz.rs`: civil dates, ISO 8601, formats, TZif files | |
| `ModuleFormat` | `nl-bytecode`: constant pool, modules, containers, the instruction sweep | |
| `Library` | the state machine that runs the last eight on growing inputs, with the reference definitions | |
| `MC…` | what TLC needs on top: programs, methods, inputs | its component |

Definitions whose comment begins "Mutant of" are plausible bugs, kept to show
that the properties notice them; no specification uses them.

### VmCounter

`count` is the guarded integer; `wake[t]` says whether thread t is outside the
object, inside `Condvar::wait`, or back from it and about to test the count
again. Each action is one critical section of the std mutex. `Acquire` and
`Retest` share `TakeOrWait`, the loop of `Counter::acquire`; `SpuriousWakeup` is
what the standard library allows; `Release` adds one whoever calls it and wakes
at most one waiter. `MaxCount` stands for `i64::MAX`, where Rust's addition would
overflow: `Release` stops short of it.

Two next-state relations: `Next`, where callers do what they like, and
`OwnerNext`, where they keep the contract of a lock. Fairness is weak fairness
of `Retest` alone: a thread that the OS woke and that can have the std mutex
goes on. Nothing makes a caller call acquire or release.

### VmThreads

The variables are the fields of `ThreadSlot`, the object's `__task__`, the thread
local `CURRENT_INTERRUPT` (`tidOf`), the park token of `std::thread`, and for every
OS thread where it stands. start() is four actions because the code takes the
object's lock twice, spawns, and then locks the table: `StartReadsTask`,
`StartTakesTask`, `Spawn`, `StartThread`. join() is `JoinBlocks` on the main thread
(a real `JoinHandle::join`) and `JoinPolls` elsewhere; the polling loop is
`TestInterrupt`, `Poll`, and one of four ways to wake. A collection pass is
`StartPass` (the gate) and `EndPass`.

`StartTwice` = FALSE restricts programs to those that keep the contract of start(),
which "must not be called more than once": no thread enters it while another is in
start() of the same Thread. (A later call does nothing, and is allowed.) The code
does not notice the breach, since it reads and clears `__task__` under two locks, and
would run the task twice. join() and interrupt() are not restricted: they may
meet a Thread at any step of its start(). Calls that
change nothing (start of a started Thread, join of a finished one, isAlive,
isInterrupted) are stuttering steps.

Fairness is weak fairness of every step a thread takes inside a call, timeouts
included: the OS scheduler runs runnable threads, and `park_timeout` returns.
Deadlines are not fair: the model never needs an unbounded wait to time out, and
`WaitEnds` says what follows once a deadline has passed.

### CycleCollector

A node is an `Arc`. `stack` is the Rust stack with the interpreter's frames and
the glue between them as explicit entries, because `Object::drop` runs frames,
which run passes, which run destructors: the recursion of the program is in
the data. Reference counts are not a variable: `StrongCount` counts the slots
that hold a node, as `Arc` does, and a node dies the moment the count is zero,
by `Release` of the entry that drops it. The actions come in three groups:
what glue does on its own (`Release`, `Unlock`, `Note`, `Discarded`), the phases
of a pass (`RunPendingCollection`, `ForceDestroy`, `ClearArray`, `DropGarbage`,
`Free`, `EndPass`), and the instructions (`New` … `Leave`).

`program` never changes: the runs check several kinds of program, each a
record that says what is allocated and how much of it (`kinds`, `objects`), whether
destructors may store references where they survive (`escapes`), whether there are
threads (`spawns`), in which frame it begins (`boot`) and how deep calls may nest
(`depth`, MAX_CALL_DEPTH).

Abstracted: values other than references; a frame has one operand; one static
field stands for all; a List and its backing array are one node; the order in
which the values of one entry are dropped is arbitrary (the code's order is hash
order or slot order); spawned threads exist only as the gate. The destructors
of kind "class" may call, allocate and store.

### DbRegistry

The three `Vec<Option<Entry>>` tables are sequences with `None` holes and a handle
is an index. Every method locks the registry for its whole length, so it is one
action; the one exception is a write that finds the database locked by
somebody else, which waits inside the driver with the registry locked
(`waiting`). The driver is SQLite as `db.rs` uses it: `active` (is the connection
inside a transaction), `writer` (whose transaction holds the database lock),
the busy timeout, another process. MySQL takes the same path through `db.rs`.
`rowOf` and `textual` are history variables of the properties.

### NlAst, Lowering, DefiniteFlow, Frame, SourceSemantics, Verifier

These are one argument. A method is a tree (`NlAst`). `DefiniteFlow` decides
whether nl-sema accepts it; its state is what the checker keeps in `scopes`,
`assigned` and `catch_stack`. `Lowering` turns it into instructions and an
exception table with the emitter's own state: scopes and slots, the loop
stack with its jump placeholders, and the finally stack. Both are functions, as
the code's passes are. `Frame` is the state machine: one action per family of
instructions, `Raise` for run_frame's search for a handler, and a call answered by
whatever its declaration admits (`InvokeReturns`, `InvokeThrows`, `InvokeExits`).
Its constant `Methods` is a set of compiled methods with their trees; `MCFrame`
makes it with `Lowering` from the trees that `DefiniteFlow` accepts (`Nlc`).

`SourceSemantics` translates no lines of code: it is the specification the
translated modules are held against, written on the tree with completions
(normal, break, continue, return, throw). The calls of a method are what can be
observed of it. `trace` records their answers, and `Meaning(method, trace)` is
what the source does after the same answers: the next call with its arguments,
or the end of the method. `FollowsSource`, in `Conformance`, asks that the bytecode
does that.

`Verifier` translates no lines either. The VM has no bytecode verifier: `exec_step`
finds a missing operand or one of another kind when it is there
(`VmError::Malformed`), reads a slot nothing was stored in as Null, and leaves to
the compiler what a `throws` clause promises. `Accepts` writes down what each
instruction needs, `Follows` what comes after it when values are known by their
kinds only, and `Flow` collects the shapes a method can come by. `Verifies` says that
a method needs nothing its flow does not provide. It mentions neither a value nor a
call's answer, so checking it on a method covers all of its executions: that is
the theorem of `FrameProofs`.

Instructions count one each: byte widths are not modelled, so neither is the
cast of a jump to i16. Variables are plain
locals; captured and boxed ones, fields, closures and dispatch are left out, and
so are types, except where lowering follows them (`Elvis`, for-each over arrays
or result sets). The tracked operand depth only sizes a vector and is left out.
`MaxReplays` bounds the recursion of `ReplayFinally`; a method that reaches it is
one the compiler does not finish (`done` = FALSE) and `Frame` does not run.
`MaxCalls` bounds the calls of an execution, after which the next call is
`Process.exit`. Fairness is weak fairness of the interpreter's step: its loop
goes on as long as the frame does. That calls come back is part of that
assumption, and `FrameEnds` is about the jumps between them.

### Library: Json, Regex, TimeZone, ModuleFormat

These algorithms keep no state, so the state is the input. `Library` has a list of
jobs; a job is a kind, a set of pieces and a bound. `Extend` appends a piece to the
input and `Answer` runs the algorithm on it: each state of a run is one input, and
each property is an action property of the form "whenever an answer of this kind
is given, …". Properties compare with definitions written without looking at the
code's method: the grammar of numbers by its parts, the language of a pattern
as the set of ends of a match, the calendar one day after the other, a zone's
offset as that of the last change.

`Json` works on symbols (a keyword or the digits of a `\u` escape are one symbol),
with positions, lines and columns as in the code; a number keeps its digits and
exponent, and is infinite beyond 1e308. `Regex` returns all the successes of a
matcher in its order of trying, where the code calls a continuation. `TimeZone`
reads a zone file as fields at offsets. `ModuleFormat` writes bytes to base
`Base`, so that a pool of two dozen entries already is at the limit of u16.

### Library: Classes, Declarations, Linking

Here an input is a program's class declarations, in the order they are read. Both
sides have a class table of their own, and the differences are kept:
`CheckerScore`, `EmitterScore` and `DelegationScore` are the three copies of overload
scoring, `IsSubtype` and `CompilesAsSubtype` the two of subtyping, `BindCallArgs`
and `ResolvePositionalArgs` the two of argument binding. `Accepted` is what
check_source_file lets through; `Compile` gives the modules; `VTable`,
`InvokeInstance`, `InvokeSpecial`, `IsInstanceOf` and `SetFieldAllowed` are the VM's.
A constructor's body has the statements the flow analysis tells apart.
`Runs` in `Library` is the reference: all ways through a constructor, with the
fields set and the initialisers run on the way.

### Library: Closures

An input is a method, a statement at a time. `CheckMethod` is the checker's walk (which
decides the types of `auto`), `AutoBoxFixes` and `ApplyFixes` write those types into
declarations that are boxed, `BoxRequests` is the walk of `monomorphize.rs`,
`CompileMethod` the emitter, `CallMethod` the machine. The reference, `Meaning`,
has locations, scopes and closures that keep their scopes. The two walks for
captures, by name over the method and by scope, are separate in the code and in
the model; `BoxesRequested` says that they agree.

## 3. Runs

| run | expects | question | size |
|---|---|---|---|
| `counter_semaphore` | pass | Does the Counter implement `SemaphoreSpec`, fairness included, with `notify_one` and arbitrary callers? | 4 threads, 1 permit, at most 3 |
| `threads_safety` | pass | Tasks, joins, interrupts and the gate in every interleaving | 2 Threads, 2 spawned OS threads |
| `threads_liveness` | pass | Do waits end? | 2 Threads that join and interrupt each other |
| `collector_program` | pass | Is anything reachable destroyed, any destructor skipped or run twice, any lock of one's own waited for, any garbage forgotten? | four kinds of program: 2 objects with destructors, or arrays; 1 object that is resurrected, 3 frames; 2 objects with destructors, 2 frames; 2 plain objects or lists beside threads |
| `db_handles` | pass | Handles, rows, transactions under refusal and delay | 2 connections, 1 statement, 2 result sets, 2 rows |
| `library_inputs` | pass | Does each algorithm, and each pair of passes, agree with its reference definition? | 23 jobs: texts of up to 5 symbols, patterns of up to 5 characters on 15 subjects, 3 declarations, methods of up to 4 statements |
| `library_calls` | violation | a function type counts as "a single parameter" | up to 2 methods of 4 signatures |
| `library_boxes` | violation | "boxing is always semantically safe" | 2 statements |
| `collector_severed` | violation | "Always takes `fields`" | 2 objects |
| `collector_list_lock` | violation | "not across a call boundary" | 2 objects |
| `frame_control` | pass | Does the bytecode do what the source says, does it pass the verifier, and does the checker accept only what it may? | every nest of 2 of 13 constructs around 7 leaves, 11 methods of expressions, 4 calls |
| `frame_finally` | violation | "a `finally` block's own exits don't re-trigger it" | 1 method |

What the bounds are for.

- Four threads on a Counter are the fewest with two sleepers, one woken thread and
  a barging fourth; the count reaches 3, so unmatched releases happen.
- Two Thread objects and two spawned threads give a thread that interrupts
  another while a third (the main one) joins it, and mutual joins. The wait loops have no counters; deadlines are a Boolean.
- Two objects form every kind of cycle a pass distinguishes (self-loop, pair,
  cycle held from outside, cycle with a tail). `Width` 1 and `Locals` 1 keep the
  graph small; `CallBound` 2 limits how deep the program itself calls, not how
  deep destructors nest; a `depth` of 20 is never reached by nesting that deep;
  `Threshold` 2 makes both a deferred and a triggered pass happen.
- The program `Resurrecting` has one object and a stack of three frames, because a
  destructor that stores `this` makes a copy that dies again: it starts in a
  static initialiser (`boot` = "clinit"), so that the copy may also escape into
  the static and outlive start-up.
- The program `Crowded` has two objects and a stack of two frames: a pass at the end
  of a call finds the stack full and guts a whole cycle without its destructors.
- Two connections are enough to wait for each other, and two rows to tell the
  last row from an earlier one and from the exhausted set.
- Two nested constructs around a leaf are the least that has an exit cross one
  construct to leave another (a `continue` through a switch, a `return` through two
  finally blocks, a rethrow out of a catch clause into an outer try). Each nest
  stands after a declaration with or without a value and before a read of the
  variable, in methods that declare E1 or its subclass E2. Four calls let a loop go
  round twice with an exception, an exit or both; what a third round could add
  is the same code with the same frame.
- Five symbols are enough for every pair of brackets with something wrong inside,
  for a number with sign, point and exponent, and for a star over a group of
  alternatives; the numbers include one beyond the range of a float.
- Three declarations added to a hierarchy of five (interface under interface,
  abstract over concrete class) give an override of an override, a diamond, an
  overload that shadows one above; up to three constructors delegate in a circle.
- Four statements around a closure give a change before and after it is made,
  one closure replaced by another, and a call between them.
- `frame_control` leaves out the methods in which an exit replays a finally block
  that throws (`NoThrowingReplay`): `frame_finally` is one of them.

What the violations show is in `PROJECT.json` "findings", each with the sentence
of the repository that it contradicts. Some other departures from comments are
visible in the model and not kept as runs:

- `unlock()` of a Mutex nobody holds raises its count to two, although a Mutex is
  described as a Counter capped at one: `Release` has no guard.
- A second `join()` on a Thread which the main thread is joining returns at once,
  for the slot's handle has been taken: `MainJoinIsTrue` is about the main
  thread's join only for that reason.
- A destructor that runs in the final sweep may leave a new cycle behind, since
  final_sweep is one pass; `AllReclaimedAtExit` is checked for classes without
  destructors.
- A failing static initialiser ends `run_program_impl` without a final sweep;
  `AllReclaimedAtExit` is checked of programs that begin in `main`.
- With `depth` small, an object that dies at the call-depth limit loses its
  destructor: `push_frame` refuses the frame and the error is discarded.
- An interrupt() between the spawn of a thread and the moment start() records it
  sets the flag and unparks nobody: if the thread already sleeps, it sleeps on until
  its deadline, although program.rs:520-522 says that a wait "already blocked in
  `park_timeout` returns immediately" and CHANGELOG.md:63 that it throws "instead of
  waiting out its target or timeout". `threads_safety` contains such executions: the last
  clause of `NoInterruptLost`, that the slot does not name the thread, is what
  allows them, and without it TLC finds one within twelve states. In
  `threads_liveness` the thread that starts the others is the only one that
  interrupts them, so the window is closed; `WaitEnds` fails with any other
  interrupter, for the same reason.
- A write that meets a locked database waits with the registry locked, so a
  second thread's commit(), which would unlock the database, waits for it:
  db.rs calls the one lock "never a correctness problem". The wait ends by the busy
  timeout, with an error for the writer.
- A finally block that itself returns (or leaves a loop around it), replayed by a
  `return` of its own try, makes the compiler replay it again and again.
- An exception caught inside a finally block that `return e` replays clears the
  operand stack, and with it the value to be returned.
- A replayed finally block is compiled in the scope of the exit, where its names
  may mean a variable that shadows the one meant.
- The step of a `for` is checked with what the end of its body assigned, although
  `continue` skips that; and what `&&`, `||`, `?:`, `??` or a match arm assigns counts
  whether or not it ran. Both let a variable be read that was never assigned.
- `match` with a `default` that is not last ignores the arms after it.
- A for-each over a result set calls next() without asking who handles its
  SqlException, which may leave a method that does not declare it.
- A method that returns a value may fall off its end without one.
- A thread can wait for a lock of its own without List.set too. `collect_cycles` clears
  the arrays of a batch under their locks (gc.rs:415). When a destructor of the batch
  has stored a new object in such an array, that object dies there, its destructor
  frame ends in a pass, and the pass locks the array again (three objects are
  needed, so `collector_program` does not show it). `NoLockMet` is about programs that
  do not have both destructors and containers.
- A destructor that publishes `this` while its cycle is being reclaimed leaves
  the program with a reference into gutted objects: `SafeCollection` is checked
  of programs whose destructors store nothing (`escapes` = FALSE).
- Overload scoring is not the same in the checker, the emitter and the check of
  E046: they differ for numbers that would be narrowed and for unions, an
  argument whose expression has no simple type disqualifies every candidate in
  one and not in the other, and a cycle through `this(new A())`, `this(null)` or
  a default is not seen. `PicksAgree` leaves these calls out (`Plain`).
- A named argument that names no parameter is dropped by the emitter.
- E045 looks at the top-level statements of a body only. A subclass constructor
  that calls no `super(...)` is accepted, and the initialisers of the classes
  above never run; `ConstructionCompletes` is about hierarchies that are `Chained`.
- An array, function or union field need not be assigned (E002), E044 looks only
  at the interfaces a class names itself, and the return type of an override is
  not compared with what it overrides.
- A program whose classes extend each other in a circle does not come back from
  the checker; `verify_link` would have refused it.
- Captures: a closure that only calls a captured closure does not capture it and
  is refused with "unknown method"; a boxed closure in a local is called as if the
  Box were the closure; a closure's own parameter that a nested literal captures
  is boxed without a class for it; an `auto` with two types is left unfixed.
  `PlainMethod` names what `ClosuresShareVariables` promises completely, the
  others are checked for their values only if they are compiled.
- A number beyond the range of a float is read, and written back as `null`.
- `mini_tz` accepts the 31st of a month that has 30 days.

## 4. Proofs

`VmCounterProofs`:

- `TypeCorrect`: `TypeOK` is inductive as it stands.
- `NoWakeupIsLost`: `NoLostWakeup`, inductive together with `TypeOK`. A release
  adds one to the free permits and, if anybody sleeps, one to the woken; a
  retest either takes a permit or found none free. The cardinalities are moved
  by one at a time (`OneMore`, `OneLess`).
- `MutualExclusion`: for callers that keep the contract. The strengthening is
  `PermitsConserved`: free permits and holders add up to `Initial`.
- `Refinement`: the safety part of `SemaphoreSpec` under
  `permits <- count, blocked <- Waiting \cup Woken`. The fairness part is checked
  by TLC (`Promise`).

`VmThreadsProofs`:

- `TaskRunsOnce`: no two OS threads run the task of one Thread. The invariant is
  `HandOver`: the task of a Thread is in its object, or with exactly one thread
  inside start(), or with one spawned thread.
- `PassesAreExclusive`: while the main thread is counting references there is no
  spawned thread at all. The gate is weaker than that: it looks at slots, and a
  thread that is being started or joined is in no slot. The strengthening
  `Watched` says that every living spawned thread is in a slot, in the hands of a
  living spawned starter, or is what the main thread waits for, and `GateInv`
  adds that the main thread itself is in none of these places when it collects.
  `GateIsSound` then follows the chain of starters to its oldest member
  (`Oldest`), which must be in a slot the gate saw.
- `TypesHold`: the slot table keeps its shape; `Starting`, a part of `HandOver` that
  holds however often a Thread is started, keeps the three fields of a slot in
  agreement when start() writes them.
- `InterruptsAreDelivered` (`InterruptIsDelivered`): only one action clears a flag,
  and it stands in the thread whose flag it is.
- `InterruptsAreNotLost` (`NoInterruptLost`): `Wakeable` says of a thread that, if it
  is past the test of its flag and interrupted, it has a park token. A thread stops
  being wakeable by one step only, an interrupt() that finds another thread, or
  none, in the slot. That step exists: the spawned thread runs before start()
  records it, and an interrupt() sent in between wakes nobody (section 3). Had the
  slot been filled before the thread runs, the theorem would say that every
  interrupted wait is woken.
- `JoinsAreTrue` (`MainJoinIsTrue`): the handle the main thread took, or the slot it
  polls, belongs to the only thread that ever ran the task (`StartOnce`,
  `SlotsAgree`); an empty slot means that somebody else's poll saw it finished
  (`Watched`), for the main thread is the only one that takes an unfinished handle.
  `Recorded` is added for it: a started Thread is in no start() any more, a join
  only ever waits for a started one, and each spawned thread is named by its slot
  or about to be.

With these every property of `threads_safety` is proved. `TypesHold`,
`InterruptsAreDelivered` and `InterruptsAreNotLost` hold of every program;
`TaskRunsOnce`, `PassesAreExclusive` and `JoinsAreTrue` assume `StartTwice = FALSE` and
are false without it, for then one task has two threads and the slot names one.

`DbRegistryProofs` proves every property of the run `db_handles` for all table
sizes, rows and placeholders, from one inductive invariant, `RegistryInv`:

- `ChildrenClose` needs `InItsLists`: an open statement or result set is in the
  list of its connection, because the list is all that close_connection looks
  at. Being open alone is not inductive.
- `ClosedStaysClosed`: each step pushes a slot, writes an open one or empties
  some (`Pushed`, `Written`, `Cleared`); none of the three fills a closed slot.
- `LockHasOwner` and `FlagIsTrue`: `QuietStep` covers the calls that leave the
  flags alone, `OpeningStep`, `ClosingStep` and `TransactionStep` the others. A
  connection starts in step with the driver since an id not yet given out is idle
  in it (`IdleUntilOpened`).
- `RowsExpire` needs `RowsFollowCursor`, which also covers the cursors that are
  before the first row and behind the last, and the slots not yet in use.

`CycleCollectorProofs` proves two properties of `collector_program` for any
programs, any number of nodes and a stack of any height, from one inductive
invariant, `Inv`. The part about the stack, `Sound`, is stated of every entry by
its index, so that no induction over the stack is needed: pushing an entry
(`Pushed`), popping one (`Popped`) and replacing the innermost one (`Replaced`)
keep it, and each action is a few of these.

- `NothingDangles` (`TypeOK`): no reference outlives its node. The core is
  `LastReference`: when the strong count of a node is one and an entry holds it,
  no field and no static has it and no other place of the stack does, because the
  three summands of `StrongCount` are cardinalities of finite sets. Buffered
  candidates and survivors are weak: they are forgotten with the node
  (`Forgotten`). What is not counted at all is the lock held while elements are
  dropped: `Sound` says that the entry below the one that locks a node holds a
  reference to it, which is why List.set must let go of the list last. An object
  left to `force_destroy` is in the garbage of its pass, which holds it.
- `DestructorsRunOnce` (`DestructOnce`): `Fresh` says that a copy is always marked
  `destroyed` and that an object whose destructor has run is dead or marked; both
  places that start a destructor, `Die` and `ForceDestroy`, test the mark.

`CycleCollectorStackProofs` prepares the other properties of that run. Two ideas
carry it.

- The shape of the stack (`Formed`): an entry that is through with its references
  has none, a result is in the operand of a frame that was called, garbage and
  survivors belong to entries in a pass, the outermost frame is at the bottom, and
  in programs without destructors nothing but drops is above a pass. `Shape` adds the
  kinds of the nodes.
- What a step may do (`Moves`, `NextMoves`): each of the twenty-odd actions is an
  instance of one of eight shapes. It moves references between stack, static and
  buffer (`Steady`), opens a pass (`Reclaims`), allocates, puts a reference into a
  field, guts an object, clears an array, frees a node, or drops a reference that is not the
  last. Everything after this is proved of the eight shapes and never again of the
  actions.

`NoLockIsMet` (`NoLockMet`) follows from `Shape`: with no containers there is
no lock on the stack; without destructors, what is above a drop that holds a lock
consists of drops only, and these lock nothing.

`CycleCollectorReachProofs` proves `CollectionIsSafe` (`SafeCollection`). Reachability
is never followed along paths: `Closure` is the intersection of the closed sets, so
"n is not reached from S" is shown by giving a closed set that holds S and not n. The
invariant `Safe` says that what the program reaches is disjoint from the destroyed
nodes and from the garbage of every pass on the stack.

- `ReclaimsSafe`, the heart: in `RunPendingCollection` a node of the set without
  external references is referred to from the set alone (`NotExternal`: a sum of
  cardinalities that is zero), so what the program reaches without the garbage is
  closed too, and the garbage is not reached. That no reference on the Rust
  stack is overlooked, half-dropped or not, is what `Formed` is needed for.
- The other shapes shrink what is reached or leave it as it is, except a store
  (`PutsSafe`), where the value stored was reached before (`Quiet`: destructors store
  nothing, or there are none), and an allocation.

`CycleCollectorLeakProofs` proves `NoCycleIsLost` (`GarbageStaysKnown`). "Everything
alive is reached from the roots, the stack and the buffer" is not inductive: a cut
edge may strand a whole component. What is, together, is `Leak`:

- `Counted`: every node alive has a reference, from a slot, the static or the stack.
- `Acyclic`: a set of nodes of which none is a root, a candidate, a survivor or the
  garbage of a pass has no cycle inside: one of its members has no reference from
  the others. It is stated for subsets, so that a node can leave without
  induction (`EmptiedKnown`), and `FewerCycles` says when it carries over.
- `AllReached`: from these two, whatever is not reached from the roots would
  be such a set, and its member without an inner reference would have none at all.
- `Gutted`, `CopiesApart`, `Passes`: gutted objects have no edges, copies are never
  stored, and a pass that has come to `free` has gutted all of its garbage: freeing a
  batch then drops no edge that is not accounted for. This is where the finding
  `collector_severed` shows in the proof: `CopiesApart` is false of programs whose
  copies may enter a second cycle, and they are left out (`Quiet`).

The same module proves `EverythingIsReclaimed` (`AllReclaimedAtExit`). The invariant
`Swept` adds that, while the final sweep reclaims, its survivors and the
buffer are within what the static reaches. When the sweep counts, the stack holds nothing
else, so trial deletion is exact in the other direction too (`SweepExact`): a node with
an external reference (`HasExternal`, the converse of `NotExternal`) has it from the
static or from a node that the static reaches. `Onward` says that no other step makes
an entry a sweep or empties the stack; it is proved action by action from the pieces
that the actions build stacks of (`Piece`). `StaticKept` says that what the static
reaches only grows while the garbage is emptied and freed.

And it proves `DestructorsAreHeeded` (`DestructorBeforeFree`), for destructors that
store no reference. The property allows for a call stack with no frame left
(`push_frame` fails), and that is what makes it hard: a pass may leave a destructor out
while the stack is full, and the object, marked `destroyed`, is freed by a later
step. The invariant, `Heeded`, says that such objects (`Skipped`) exist only while that
same pass is on the stack and everything above it only drops (`Sealed`), so that the
stack stays full (`Deep`); and that nothing but the garbage of the pass refers to them
(`HeapSealed`), so that the pass frees each of them before it ends (`HeedFree`).
Otherwise no pass on the stack is a full one (`Shallow`), and none becomes one until
a pass starts (`ShallowStep`).

`FrameProofs` proves what `frame_control` checks of a frame, apart from the comparison
with the source, for any set of methods, any class hierarchy and any number of calls,
of every method that `Verifies`. The division of labour: TLC evaluates `Verifies` on
every method of the run, without executing it; the theorems say that
executing it, with all answers its calls may give, cannot go wrong. `MaxCalls`, the
bound that keeps the run finite, is no longer a bound on what is known of these
methods. `Verifies` is a hypothesis of the theorems because whether it holds
depends on `Methods`: for the compiled methods of the run it does, with arbitrary
bytecode it need not. Its definition finds the flow by a fixed number of rounds; the proof
uses only that the result is closed (`Certifies`), so too few rounds
would refuse a method and never accept a wrong one.

- The invariant, `Inv`: as long as the frame runs, what `Kind` leaves of its operands
  and locals is a shape of the flow at its instruction; when it has ended, what
  is left satisfies the properties.
- `Sound` is what one step must do to keep it: come to a shape that `Follows` from the
  one before, or end the frame as `Accepts` allows. There is one lemma for each action
  (`LoadSound`, `InvokeThrowsSound`, …), and `SoundKeepsInv` is used once.
- `Needs` is where kinds meet values: an operand whose kind is that of an int is an
  int. `Raises` is the case of exceptions: `find_handler` decides by the class
  alone, which a kind keeps, so the landing the verifier computes is the one the
  frame takes.
- `CertifiedCodeIsTyped` (`TypeOK`), `ReturnsAreBalanced` (`OperandsBalanced`),
  `LocalsAreAssigned` (`UnsetNeverRead`) and `ThrowsIsRespected`
  (`CheckedExceptionsAreDeclared`) follow from `Inv`.

The assumptions are those of the modules (`CounterAssumption`,
`ThreadsAssumption`, `DbAssumption`, `CollectorAssumption`, `PreludeAssumption`,
`MethodsAssumption`, `MaxCallsAssumption`), which TLC evaluates in the passing runs.

Checked by TLC only: liveness and refinement of fairness (out of the prover's
reach); `DestructorBeforeFree` of programs whose destructors store references (a
copy that a destructor has published is never gutted, so what is left of a pass's
garbage may refer to it); `FollowsSource`, and that what the compiler
emits `Verifies`: the compiler, the flow analysis and the source semantics recurse over
trees, which the prover cannot take; for the same reason the algorithms of `Library`.

## 5. Plan

What is done is marked.

- **A** (done, proved) `SemaphoreSpec`, `VmCounter`.
- **B** (done, safety proved) `VmThreads`.
- **C** (done, proved) `CycleCollector`.
- **D** (done, proved) `DbRegistry`.
- **E** `MapStorage`: Map's key and value arrays under separate locks, with
  `valueEquals` callbacks between them; abstract specification, a finite map.
  `HandleTables`: the file and socket tables, where blocking calls hold the
  table's lock and `rebind_udp_socket` reopens a closed slot.
- **F** (done: `Declarations`, `Linking`) class hierarchy, vtables, constructors. To
  add: the order of static initialisers.
- **G** (done; `Frame` proved) `NlAst`, `Lowering`, `DefiniteFlow`, `SourceSemantics`, `Verifier`, `Frame`;
  closures and boxes in `Closures`, dispatch in `Linking`. To add: the call stack with
  the depth limit, operators and narrowing.
- **H** (done: `ModuleFormat`). To add: byte widths of jumps.
- **I** (done: `DefiniteFlow`, captures in `Closures`). To add: the worklist of
  template expansion and the expansion of typedefs.
- **J** (done: `Json`, `Regex`, `TimeZone`).

## 6. Not modelled

Formatting, wording and logging; the HTTP client and the command-line tools
(one pass of blocking I/O and no state); `nl-test-runner` and `nl-bench`; the
native stack (a long acyclic chain of objects recurses in Drop); memory
ordering below the level of `Mutex` and `Condvar` (the code uses no atomics whose
order matters to the modelled properties beyond the interrupt flag, which is
set before the unpark that publishes it). The remaining components have a row
in `PROJECT.json` "components" with the part of the plan they belong to.
