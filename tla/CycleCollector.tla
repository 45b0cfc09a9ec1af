---------------------------- MODULE CycleCollector ----------------------------
(***************************************************************************)
(* Reference counting and the cycle collector that runs beside it: gc.rs,  *)
(* Object::drop (value.rs) and the instructions of interpreter.rs that     *)
(* create, move and drop references.                                       *)
(*                                                                         *)
(* A node is an Arc: 1..MaxObjects are what the program allocates, and     *)
(* CopyOf(n) is the resurrection copy on which the destructor of n runs.   *)
(* stack is the Rust stack, innermost entry first: interpreter frames and  *)
(* the glue between them (a value being dropped, a collection pass).  Its  *)
(* entries are explicit because a destructor runs interpreter frames, and  *)
(* with them whole passes, in the middle of a drop or of another pass.     *)
(*   who      what the entry is: a frame ("main", "clinit", "call",        *)
(*            "construct", "destruct"), "glue", or the final "sweep"       *)
(*   at       where it stands: "run", "note" (candidates not yet buffered),*)
(*            "collect" (dropping refs, then a pass), "discard" (dropping, *)
(*            then counting the drop), "drop" (dropping, nothing else),    *)
(*            "destroy" and "free" (a pass reclaiming garbage),            *)
(*            "blocked" (locking a node whose lock this thread holds)      *)
(*   refs     a frame's locals, or the references the entry has to drop,   *)
(*            Null where it has dropped one                                *)
(*   operand  a frame's operand stack (one value), later its result        *)
(*   lock     the node whose lock is held while refs are dropped           *)
(*   thrown   the frame is left by an exception                            *)
(*   garbage, todo, survivors   collect_cycles' vectors; todo is what is   *)
(*            left to force_destroy                                        *)
(***************************************************************************)
EXTENDS Integers, FiniteSets, Sequences, Functions

CONSTANTS MaxObjects,  \* bound: objects alive at once
          Width,       \* fields of an object, elements of an array
          Locals,      \* locals of a frame
          CallBound,   \* bound: frames on the stack when the program calls or constructs
          Threshold,   \* gc::DEFERRED_PASS_THRESHOLD
          Programs     \* the programs that are run, each a record:
                       \*   kinds    what it allocates, a subset of AllKinds
                       \*   objects  bound: how many of them are alive at once
                       \*   escapes  may its destructors store references
                       \*   spawns   does it start threads
                       \*   boot     "clinit" or "main": the first frame
                       \*   depth    call_stack::MAX_CALL_DEPTH

\* "class" has a <destruct>, "plain" has none; a "list" is a native container
\* with its data array; neither "array" nor "list" runs NL code when made.
AllKinds == {"class", "plain", "array", "list"}
FrameKinds == {"main", "clinit", "call", "construct", "destruct"}

ProgramType == [kinds : SUBSET AllKinds, objects : 1..MaxObjects, escapes : BOOLEAN,
                spawns : BOOLEAN, boot : {"main", "clinit"}, depth : Nat \ {0}]

ASSUME CollectorAssumption ==
         /\ {MaxObjects, Width, Locals, CallBound, Threshold} \subseteq Nat \ {0}
         /\ \A p \in Programs : p \in ProgramType

VARIABLES program,    \* the program that runs
          live,       \* the nodes allocated and not yet freed
          kind,       \* of each object the program allocates
          field,      \* Object.fields, Vec elements; a moved-out map has no key
          destroyed,  \* Object.destroyed
          static,     \* one static field
          pending,    \* Program.gc_pending; a weak reference dies with its node
          deferred,   \* Program.gc_deferred
          threads,    \* is a spawned VM thread running
          stack,
          ran         \* history: how often the destructor of an object has run

heap == <<live, kind, field, destroyed, ran>>
gc == <<pending, deferred>>
vars == <<program, heap, static, gc, threads, stack>>

Null == 0
Objects == 1..MaxObjects
Nodes == 1..(2 * MaxObjects)
Slots == 1..Width
Origin(n) == IF n \in Objects THEN n ELSE n - MaxObjects
CopyOf(n) == IF n \in Objects THEN n + MaxObjects ELSE n
Kind(n) == kind[Origin(n)]
IsObject(n) == Kind(n) \in {"class", "plain"}

NoKeys == [s \in {} |-> Null]
Fields(n) == [s \in Slots |-> IF s \in DOMAIN field[n] THEN field[n][s] ELSE Null]
Empty(refs) == Range(refs) \subseteq {Null}

Edges(n) == {e \in live \X Slots : Fields(e[1])[e[2]] = n}
\* The places of an entry that hold a reference to n: one of refs, the operand
\* (0), the vector of garbage (-1).
HeldAt(e, n) == {k \in -1..Len(e.refs) :
                   \/ k > 0 /\ e.refs[k] = n
                   \/ k = 0 /\ e.operand = n
                   \/ k = -1 /\ n \in e.garbage}
OnStack(n) == UNION {{i} \X HeldAt(stack[i], n) : i \in DOMAIN stack}

\* Arc::strong_count
StrongCount(n) ==
  Cardinality(Edges(n)) + (IF static = n THEN 1 ELSE 0) + Cardinality(OnStack(n))

\* The nodes reachable from S, S included: what every closed set has.
Closure(S) ==
  LET closed == {T \in SUBSET live :
                   /\ S \ {Null} \subseteq T
                   /\ \A m \in T : \A s \in DOMAIN field[m] : field[m][s] \in T \cup {Null}}
  IN {n \in live : \A T \in closed : n \in T}

Frame(who, locals) == [who |-> who, at |-> "run", refs |-> locals, operand |-> Null,
                       lock |-> Null, thrown |-> FALSE,
                       garbage |-> {}, todo |-> {}, survivors |-> {}]
NoLocals == [i \in 1..Locals |-> Null]
Receiving(n) == [NoLocals EXCEPT ![1] = n]
Glue(at, refs, lock) == [Frame("glue", refs) EXCEPT !.at = at, !.lock = lock]
Dropping(refs, lock) == IF Empty(refs) THEN <<>> ELSE <<Glue("drop", refs, lock)>>

Frames == Cardinality({i \in DOMAIN stack : stack[i].who \in FrameKinds})
Locked == {stack[i].lock : i \in DOMAIN stack} \ {Null}
top == stack[1]
below == Tail(stack)
At(where) == stack # <<>> /\ top.at = where
Running == At("run")
InDestructor == \E i \in DOMAIN stack : stack[i].who = "destruct"

Init == /\ program \in Programs
        /\ live = {} /\ destroyed = {} /\ pending = {}
        /\ kind = [n \in Objects |-> "plain"]
        /\ field = [n \in Nodes |-> NoKeys]
        /\ ran = [n \in Objects |-> 0]
        /\ static = Null
        /\ deferred = 0
        /\ threads = FALSE
        /\ stack = <<Frame(program.boot, NoLocals)>>

-----------------------------------------------------------------------------
(* Dropping a reference.                                                   *)

ForgetIn(e, n) == [e EXCEPT !.survivors = @ \ {n}]
Forget(st, n) == [i \in DOMAIN st |-> ForgetIn(st[i], n)]

\* Mutant of RunsDestructor: no destructor runs inside another one.
RunsDestructorAlone(n) == Kind(n) = "class" /\ n \notin destroyed /\ ~InDestructor

\* Object::drop and force_destroy move fields into a copy, and run <destruct>
\* on it unless the call stack is full: push_frame fails and the copy is dropped.
RunsDestructor(n) == /\ Kind(n) = "class"
                     /\ n \notin destroyed
                     /\ Frames < program.depth

\* Mutant of OnCopy: the lock of the object is held while its destructor runs.
OnCopyLocked(n) == [Frame("destruct", Receiving(CopyOf(n))) EXCEPT !.lock = n]

\* The lock is released before the destructor is called.
OnCopy(n) == Frame("destruct", Receiving(CopyOf(n)))

MoveToCopy(n) == /\ field' = [field EXCEPT ![CopyOf(n)] = field[n], ![n] = NoKeys]
                 /\ ran' = [ran EXCEPT ![Origin(n)] = IF @ < 2 THEN @ + 1 ELSE 2]

\* Mutant of Upgradable: gc_pending holds plain addresses.
Dangling(n) == pending

\* A weak reference no longer upgrades once its node is freed.
Upgradable(n) == pending \ {n}

\* The last reference to n goes while rest is the Rust stack: Object::drop,
\* then the drop glue of what n holds.
Die(n, rest) ==
  /\ pending' = Upgradable(n)
  /\ UNCHANGED kind
  /\ IF RunsDestructor(n)
       THEN /\ live' = (live \ {n}) \cup {CopyOf(n)}
            /\ destroyed' = destroyed \cup {CopyOf(n)}
            /\ MoveToCopy(n)
            /\ stack' = <<OnCopy(n)>> \o Forget(rest, n)
       ELSE /\ live' = live \ {n}
            /\ destroyed' = destroyed \ {n}
            /\ field' = [field EXCEPT ![n] = NoKeys]
            /\ stack' = Dropping(Fields(n), Null) \o Forget(rest, n)
            /\ UNCHANGED ran

LetGo(n, rest) == IF StrongCount(n) = 1
                    THEN Die(n, rest)
                    ELSE /\ stack' = rest
                         /\ UNCHANGED <<heap, pending>>

\* One reference of the innermost entry is dropped, in the order of a HashMap.
Release ==
  /\ At("drop") \/ At("collect") \/ At("discard")
  /\ \E i \in DOMAIN top.refs :
       LET rest == [top EXCEPT !.refs[i] = Null] IN
       /\ top.refs[i] # Null
       /\ LetGo(top.refs[i],
                IF top.at = "drop" /\ top.lock = Null /\ Empty(rest.refs) THEN below
                ELSE <<rest>> \o below)
  /\ UNCHANGED <<program, static, deferred, threads>>

\* The guard held while an element was dropped goes out of scope.
Unlock == /\ At("drop") /\ Empty(top.refs)
          /\ stack' = below
          /\ UNCHANGED <<program, heap, static, gc, threads>>

GoTo(where) == stack' = <<[top EXCEPT !.at = where]>> \o below

\* The stack when the innermost entry is through with its pass: what its end
\* hands to the entry below it.
Finished ==
  CASE top.who = "main" -> <<[Glue("collect", <<top.operand>>, Null) EXCEPT !.who = "sweep"]>>
    [] top.who = "clinit" /\ ~top.thrown -> <<Frame("main", NoLocals)>>
    [] top.who = "call" /\ ~top.thrown ->
         <<[below[1] EXCEPT !.operand = top.operand]>> \o Tail(below)
    [] top.who # "main" /\ top.thrown -> Dropping(<<top.operand>>, Null) \o below
    [] OTHER -> below

-----------------------------------------------------------------------------
(* gc.rs                                                                   *)

\* push_candidate in note_and_collect, after SET_FIELD has dropped its receiver.
Note == /\ At("note")
        /\ pending' = pending \cup (Range(top.refs) \ {Null})
        /\ GoTo("collect")
        /\ UNCHANGED <<program, heap, static, deferred, threads>>

\* note_discarded, once the value is dropped.
Discarded == /\ At("discard") /\ Empty(top.refs)
             /\ deferred' = IF deferred < Threshold THEN deferred + 1 ELSE deferred
             /\ IF deferred + 1 >= Threshold THEN GoTo("collect") ELSE stack' = below
             /\ UNCHANGED <<program, heap, static, pending, threads>>

\* Mutant of External: the set's own reference is not subtracted.
ExternalAndOwn(n, set) == (StrongCount(n) + 1) - Cardinality({e \in Edges(n) : e[1] \in set})

\* collect_cycles: the references to n from outside the closed set.  The
\* reference the set itself holds is counted by Arc and subtracted again.
External(n, set) == (StrongCount(n) + 1) - 1 - Cardinality({e \in Edges(n) : e[1] \in set})

\* Mutant of LiveIn: liveness does not propagate along the edges.
RootsIn(set) == {n \in set : External(n, set) > 0}

\* The nodes with a reference from outside, and all they reach, are live.
LiveIn(set) == Closure({n \in set : External(n, set) > 0})

\* Mutant of Survivors: a pass forgets what survived it.
NoSurvivors(set) == {}

\* What a pass that ends puts back into gc_pending: the nodes found live.
Survivors(set) == LiveIn(set)

\* run_pending_collection up to the partition into survivors and garbage.
RunPendingCollection ==
  /\ At("collect") /\ Empty(top.refs)
  /\ IF threads
       THEN stack' = Finished /\ UNCHANGED gc
       ELSE LET set == Closure(pending)
                garbage == set \ LiveIn(set) IN
            /\ deferred' = 0
            /\ IF set \cap Locked # {}
                 THEN pending' = {} /\ stack' = <<[top EXCEPT !.at = "blocked", !.survivors = set]>> \o below
               ELSE IF garbage = {}
                 THEN pending' = Survivors(set) /\ stack' = Finished
               ELSE /\ pending' = {}
                    /\ stack' = <<[top EXCEPT !.at = "destroy",
                                              !.garbage = garbage,
                                              !.todo = {n \in garbage : IsObject(n)},
                                              !.survivors = Survivors(set)]>> \o below
  /\ UNCHANGED <<program, heap, static, threads>>

\* Mutant of Marked: the object left in the batch keeps `destroyed: false`.
OnlyCopyMarked(n) == destroyed

\* force_destroy sets `guard.destroyed`.
Marked(n) == destroyed \cup {n}

\* force_destroy: the fields move to a copy, the object stays in the batch.
ForceDestroy ==
  /\ At("destroy")
  /\ \E n \in top.todo :
       LET rest == <<[top EXCEPT !.todo = @ \ {n}]>> \o below IN
       IF n \in destroyed
         THEN stack' = rest /\ UNCHANGED heap
         ELSE /\ UNCHANGED kind
              /\ IF RunsDestructor(n)
                   THEN /\ live' = live \cup {CopyOf(n)}
                        /\ destroyed' = Marked(n) \cup {CopyOf(n)}
                        /\ MoveToCopy(n)
                        /\ stack' = <<OnCopy(n)>> \o rest
                   ELSE /\ destroyed' = Marked(n)
                        /\ field' = [field EXCEPT ![n] = NoKeys]
                        /\ stack' = Dropping(Fields(n), Null) \o rest
                        /\ UNCHANGED <<live, ran>>
  /\ UNCHANGED <<program, static, gc, threads>>

Uncleared == {n \in top.garbage : ~IsObject(n) /\ field[n] # NoKeys}

\* `lock(arc).clear()`: the elements drop under the array's lock.
ClearArray ==
  /\ At("destroy") /\ top.todo = {}
  /\ \E n \in Uncleared :
       IF n \in Locked
         THEN GoTo("blocked") /\ UNCHANGED heap
         ELSE /\ field' = [field EXCEPT ![n] = NoKeys]
              /\ stack' = Dropping(Fields(n), n) \o stack
              /\ UNCHANGED <<live, kind, destroyed, ran>>
  /\ UNCHANGED <<program, static, gc, threads>>

\* `drop(garbage)`
DropGarbage ==
  /\ At("destroy") /\ top.todo = {} /\ Uncleared = {}
  /\ GoTo("free")
  /\ UNCHANGED <<program, heap, static, gc, threads>>

Free == /\ At("free")
        /\ \E n \in top.garbage :
             LetGo(n, <<[top EXCEPT !.garbage = @ \ {n}]>> \o below)
        /\ UNCHANGED <<program, static, deferred, threads>>

\* The survivors go back to the buffer.
EndPass == /\ At("free") /\ top.garbage = {}
           /\ pending' = pending \cup top.survivors
           /\ stack' = Finished
           /\ UNCHANGED <<program, heap, static, deferred, threads>>

-----------------------------------------------------------------------------
(* interpreter.rs: what a frame does with references.                      *)

Become(frame) == stack' = <<frame>> \o below
Operand(r) == [top EXCEPT !.operand = r]

\* note_and_collect: old is a candidate, to be dropped before the pass.
NoteAndCollect(frame, old) == /\ pending' = pending \cup ({old} \ {Null})
                              /\ stack' = <<Glue("collect", <<old>>, Null), frame>> \o below

\* NEW, NEW_ARRAY: a class runs its constructor with the object as local 0.
New(k) ==
  /\ Running /\ top.operand = Null
  /\ \E n \in 1..program.objects :
       /\ {n, CopyOf(n)} \cap live = {}
       /\ \A m \in 1..(n - 1) : {m, CopyOf(m)} \cap live # {}
       /\ k \in {"class", "plain"} => Frames < CallBound
       /\ live' = live \cup {n}
       /\ kind' = [kind EXCEPT ![n] = k]
       /\ field' = [field EXCEPT ![n] = [s \in Slots |-> Null]]
       /\ ran' = [ran EXCEPT ![n] = 0]
       /\ stack' = (IF k \in {"class", "plain"} THEN <<Frame("construct", Receiving(n))>> ELSE <<>>)
                   \o <<Operand(n)>> \o below
  /\ UNCHANGED <<program, destroyed, static, gc, threads>>

\* LOAD, GET_STATIC
Load == /\ Running /\ top.operand = Null
        /\ \E r \in (Range(top.refs) \cup {static}) \ {Null} : Become(Operand(r))
        /\ UNCHANGED <<program, heap, static, gc, threads>>

\* GET_FIELD, ARRAY_LOAD on the operand, which is then dropped.
GetField ==
  /\ Running /\ top.operand # Null
  /\ \E s \in Slots :
       /\ IsObject(top.operand) \/ s \in DOMAIN field[top.operand]
       /\ IF top.operand \in Locked
            THEN GoTo("blocked")
            ELSE stack' = Dropping(<<top.operand>>, Null)
                          \o <<Operand(Fields(top.operand)[s])>> \o below
  /\ UNCHANGED <<program, heap, static, gc, threads>>

\* STORE
Store == /\ Running
         /\ \E l \in DOMAIN top.refs :
              NoteAndCollect([Operand(Null) EXCEPT !.refs[l] = top.operand], top.refs[l])
         /\ UNCHANGED <<program, heap, static, deferred, threads>>

\* `d[idx] = value` of List.set drops the element with the guard in scope;
\* SET_FIELD and ARRAY_STORE bind it and let the guard go first.
DropsUnderLock(n) == Kind(n) = "list"

MayStore(r) == r = Null \/ program.escapes \/ ~InDestructor

\* SET_FIELD, ARRAY_STORE, and List.set, which drops the replaced element
\* under the lock of the list and notes nothing; the receiver goes last.
Put(target, s, value) ==
  LET replaced == <<Fields(target)[s]>>
      receiver == Dropping(<<target>>, Null) IN
  /\ IsObject(target) \/ s \in DOMAIN field[target]
  /\ MayStore(value)
  /\ IF target \in Locked
       THEN GoTo("blocked") /\ UNCHANGED field
       ELSE /\ field' = [field EXCEPT ![target] =
                          [x \in DOMAIN @ \cup {s} |-> IF x = s THEN value ELSE @[x]]]
            /\ stack' = (CASE DropsUnderLock(target) -> Dropping(replaced, target) \o receiver
                           [] ~DropsUnderLock(target) /\ s \in DOMAIN field[target] ->
                               receiver \o <<Glue("note", replaced, Null)>>
                           [] OTHER -> receiver)
                         \o <<Operand(Null)>> \o below
  /\ UNCHANGED <<program, live, kind, destroyed, ran, static, gc, threads>>

Variables == Range(top.refs) \cup {static}

\* The receiver, or the value, is on the operand stack; the other is a copy of
\* what a variable holds.
SetField ==
  /\ Running
  /\ \E s \in Slots :
       \/ \E target \in Variables \ {Null} : Put(target, s, top.operand)
       \/ top.operand # Null /\ \E value \in Variables \cup {Null} : Put(top.operand, s, value)

\* SET_STATIC
SetStatic == /\ Running /\ MayStore(top.operand)
             /\ static' = top.operand
             /\ NoteAndCollect(Operand(Null), static)
             /\ UNCHANGED <<program, heap, deferred, threads>>

\* POP, and each operand an exception handler discards: note_discarded.
Pop == /\ Running /\ top.operand # Null
       /\ pending' = pending \cup {top.operand}
       /\ stack' = <<Glue("discard", <<top.operand>>, Null), Operand(Null)>> \o below
       /\ UNCHANGED <<program, heap, static, deferred, threads>>

\* INVOKE_*: the argument moves into the callee's locals.
Call == /\ Running /\ Frames < CallBound
        /\ stack' = <<Frame("call", Receiving(top.operand)), Operand(Null)>> \o below
        /\ UNCHANGED <<program, heap, static, gc, threads>>

\* run_frame returns: its locals go first, its result or operands are still held.
\* An error that carries none of the nodes only matters to the initialisers.
Leave == /\ Running
         /\ \E thrown \in BOOLEAN :
              /\ top.operand # Null => thrown \/ top.who = "call"
              /\ top.operand = Null => ~thrown \/ top.who = "clinit"
              /\ Become([top EXCEPT !.at = "collect", !.thrown = thrown])
         /\ pending' = pending \cup (Range(top.refs) \ {Null})
         /\ UNCHANGED <<program, heap, static, deferred, threads>>

\* A spawned VM thread starts, or the last one finishes.
Thread == /\ IF threads THEN stack # <<>> ELSE Running /\ program.spawns
          /\ threads' = ~threads
          /\ UNCHANGED <<program, heap, static, gc, stack>>

Over == stack = <<>> /\ UNCHANGED <<program, heap, static, gc, threads, stack>>

Next == \/ Release \/ Unlock \/ Note \/ Discarded \/ RunPendingCollection
        \/ ForceDestroy \/ ClearArray \/ DropGarbage \/ Free \/ EndPass
        \/ \E k \in program.kinds : New(k)
        \/ Load \/ GetField \/ Store \/ SetField \/ SetStatic \/ Pop \/ Call \/ Leave
        \/ Thread \/ Over

Spec == Init /\ [][Next]_vars

-----------------------------------------------------------------------------
(* Properties.                                                             *)

Entries ==
  [who : FrameKinds \cup {"glue", "sweep"},
   at : {"run", "note", "collect", "discard", "drop", "destroy", "free", "blocked"},
   refs : Seq(Nodes \cup {Null}), operand : Nodes \cup {Null}, lock : Nodes \cup {Null},
   thrown : BOOLEAN, garbage : SUBSET Nodes, todo : SUBSET Nodes, survivors : SUBSET Nodes]
Contents == UNION {[some -> Nodes \cup {Null}] : some \in SUBSET Slots}

\* All that an entry of the stack holds, counts on or remembers.
Mentions(e) == Range(e.refs) \cup {e.operand, e.lock} \cup e.garbage \cup e.survivors

\* Every reference that some slot, frame, buffer or pass holds is to a node
\* that is allocated: nothing is freed while it can still be reached.
TypeOK ==
  /\ program \in Programs
  /\ live \subseteq Nodes
  /\ destroyed \subseteq live
  /\ kind \in [Objects -> AllKinds]
  /\ field \in [Nodes -> Contents]
  /\ \A n \in Nodes : Range(field[n]) \subseteq live \cup {Null}
  /\ \A n \in Nodes \ live : field[n] = NoKeys
  /\ static \in live \cup {Null}
  /\ pending \subseteq live
  /\ deferred \in 0..Threshold
  /\ threads \in BOOLEAN
  /\ stack \in Seq(Entries)
  /\ \A i \in DOMAIN stack : /\ Mentions(stack[i]) \subseteq live \cup {Null}
                              /\ stack[i].todo \subseteq stack[i].garbage
  /\ ran \in [Objects -> 0..2]

\* vm.md, quoted in value.rs: a destructor is called at most once per object,
\* however the object dies (refcount, pass, or as its own resurrected copy).
DestructOnce == \A n \in Objects : ran[n] <= 1

\* What the program can still reach, apart from frames that run for a destructor.
ProgramReaches ==
  LET mine == {i \in DOMAIN stack : \A j \in DOMAIN stack : stack[j].who = "destruct" => i > j}
  IN Closure({static} \cup (UNION {{stack[i].operand} : i \in mine})
             \cup (UNION {Range(stack[i].refs) : i \in {j \in mine : stack[j].at = "run"}}))

\* A pass never guts an object that the program can still reach (destructors
\* that let no reference escape): trial deletion mistakes nothing for garbage,
\* whatever frames, results and half-dropped values are on the Rust stack.
SafeCollection == ~program.escapes => ProgramReaches \cap Objects \cap destroyed = {}

\* Garbage that reference counting cannot free is never forgotten: a later
\* pass reaches it from the buffer, or a pass in progress holds it.
NoGarbageForgotten ==
  live \subseteq Closure({static} \cup pending \cup UNION {Mentions(stack[i]) : i \in DOMAIN stack})

\* The same of the programs no destructor of which stores a reference.
GarbageStaysKnown == ~program.escapes => NoGarbageForgotten

\* When the program is over and no thread of it runs, only what its static
\* fields reach is left: final_sweep has reclaimed every cycle, those noted
\* while the gate was shut included (programs without destructors).
AllReclaimedAtExit ==
  "class" \notin program.kinds /\ program.boot = "main" /\ stack = <<>> /\ ~threads => live \subseteq Closure({static})

\* An object of a class with a destructor is not freed before that has been
\* called, unless the call stack has no frame left for it (push_frame fails).
DestructorBeforeFree ==
  [][\A n \in Objects : /\ n \in live
                        /\ {n, CopyOf(n)} \cap live' = {}
                        /\ kind[n] = "class"
                        => ran'[n] = 1 \/ Frames >= program.depth]_vars

\* No lock is held across a call back into NL code: a destructor, or the pass
\* its frame's exit runs, never waits for a lock its own thread holds.
NeverBlocked == ~At("blocked")

\* Nodes that are dropped under a lock, and destructors that run when they are,
\* do not come together.
LocksApart == "class" \notin program.kinds \/ program.kinds \cap {"array", "list"} = {}

\* The same of the programs that keep the two apart: force_destroy and
\* Object::drop hold no lock when they call a destructor, and without
\* destructors nothing that drops under a lock comes back to it.
NoLockMet == LocksApart => NeverBlocked

===============================================================================
