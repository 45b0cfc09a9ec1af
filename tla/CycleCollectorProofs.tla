------------------------ MODULE CycleCollectorProofs ------------------------
(***************************************************************************)
(* CycleCollector for any programs, any number of objects and any bounds:  *)
(* no reference outlives its node, and no destructor runs twice.           *)
(***************************************************************************)
EXTENDS CycleCollector, SequenceTheorems, FiniteSetTheorems, TLAPS

-----------------------------------------------------------------------------
(* The inductive invariant.                                                *)

\* An entry that mentions nodes of L only, and destroys only what it holds.
Whole(e, L) == /\ e \in Entries
               /\ Mentions(e) \subseteq L \cup {Null}
               /\ e.todo \subseteq e.garbage
               /\ e.at = "free" => e.todo = {}

Holds(e, n) == n \in Range(e.refs) \cup e.garbage

\* What e relies on in the stack below it: a node is locked through a reference
\* that the entry below holds, and a call returns to a frame.
Rests(e, st) == /\ e.lock # Null => st # <<>> /\ Holds(st[1], e.lock)
                /\ e.who = "call" => st # <<>>

Sound(st, L) ==
  /\ st \in Seq(Entries)
  /\ \A i \in 1..Len(st) : Whole(st[i], L)
  /\ \A i \in 1..Len(st) : st[i].lock # Null => i < Len(st) /\ Holds(st[i + 1], st[i].lock)
  /\ \A i \in 1..Len(st) : st[i].who = "call" => i < Len(st)

\* The part of TypeOK that is not about the stack.
HeapOK ==
  /\ program \in Programs
  /\ live \subseteq Nodes
  /\ destroyed \subseteq live
  /\ kind \in [Objects -> AllKinds]
  /\ field \in [Nodes -> Contents]
  /\ \A n \in Nodes : Range(field[n]) \subseteq live \cup {Null}
  /\ \A n \in Nodes \ live : field[n] = NoKeys
  /\ static \in live \cup {Null}
  /\ pending \subseteq live
  /\ deferred \in 0..Threshold
  /\ threads \in BOOLEAN
  /\ ran \in [Objects -> 0..2]

\* A copy's destructor has run, or is running; that of an object runs once,
\* and then the object is destroyed.
Fresh == /\ live \ Objects \subseteq destroyed
         /\ \A n \in Objects : ran[n] <= 1
         /\ \A n \in Objects : n \in live \ destroyed => ran[n] = 0

Inv == HeapOK /\ Sound(stack, live) /\ Fresh

-----------------------------------------------------------------------------
(* Entries of the stack.                                                   *)

\* The constants and the names of nodes (Null, Nodes, Slots).
LEMMA Numbers == /\ MaxObjects \in Nat \ {0} /\ Width \in Nat \ {0} /\ Locals \in Nat \ {0}
                 /\ Threshold \in Nat \ {0}
                 /\ Null \notin Nodes /\ Objects \subseteq Nodes
                 /\ \A n \in Nodes : Origin(n) \in Objects /\ CopyOf(n) \in Nodes \ Objects
                 /\ \A n \in Objects : Origin(n) = n /\ Origin(CopyOf(n)) = n /\ CopyOf(n) # n
                 /\ \A n \in Nodes \ Objects : CopyOf(n) = n
BY CollectorAssumption DEF Null, Nodes, Objects, Origin, CopyOf

\* A list of references (refs) is a sequence, and Empty means nothing is held.
LEMMA Refs ==
  /\ \A n \in Nodes \cup {Null} : <<n>> \in Seq(Nodes \cup {Null}) /\ Range(<<n>>) = {n}
  /\ NoLocals \in Seq(Nodes \cup {Null}) /\ Range(NoLocals) \subseteq {Null}
  /\ \A n \in Nodes \cup {Null} : /\ Receiving(n) \in Seq(Nodes \cup {Null})
                                  /\ Range(Receiving(n)) \subseteq {n, Null}
<1>1. ASSUME NEW n \in Nodes \cup {Null}
      PROVE  <<n>> \in Seq(Nodes \cup {Null}) /\ Range(<<n>>) = {n}
  BY DEF Range
<1>2. NoLocals \in [1..Locals -> {Null}]
  BY DEF NoLocals
<1>3. \A f \in [1..Locals -> Nodes \cup {Null}] : f \in Seq(Nodes \cup {Null})
  BY Numbers, SeqDef
<1>4. NoLocals \in Seq(Nodes \cup {Null}) /\ Range(NoLocals) \subseteq {Null}
  BY <1>2, <1>3 DEF Range
<1>5. ASSUME NEW n \in Nodes \cup {Null}
      PROVE  /\ Receiving(n) \in Seq(Nodes \cup {Null})
             /\ Range(Receiving(n)) \subseteq {n, Null}
  <2>1. Receiving(n) \in [1..Locals -> {n, Null}]
    BY <1>2 DEF Receiving
  <2>2. Receiving(n) \in [1..Locals -> Nodes \cup {Null}]
    BY <2>1
  <2>3. QED
    BY <2>1, <2>2, <1>3 DEF Range
<1>6. QED
  BY <1>1, <1>4, <1>5

\* A list of references to nodes of L.
Within(refs, L) == refs \in Seq(Nodes \cup {Null}) /\ Range(refs) \subseteq L \cup {Null}
OneOf(r, L) == r \in Nodes \cup {Null} /\ r \in L \cup {Null}

\* A new frame (push_frame) holds what its locals hold.
LEMMA FrameWhole ==
  ASSUME NEW L, NEW who \in FrameKinds, NEW locals, Within(locals, L)
  PROVE  /\ Whole(Frame(who, locals), L)
         /\ Frame(who, locals).lock = Null /\ Frame(who, locals).who = who
BY DEF Within, Frame, Whole, Entries, Mentions, Null

GlueStages == {"note", "collect", "discard", "drop"}

\* Glue holds what it is to drop.
LEMMA GlueWhole ==
  ASSUME NEW L, NEW at \in GlueStages, NEW refs, Within(refs, L), NEW lock, OneOf(lock, L)
  PROVE  /\ Whole(Glue(at, refs, lock), L)
         /\ Glue(at, refs, lock).lock = lock /\ Glue(at, refs, lock).who = "glue"
         /\ Glue(at, refs, lock).refs = refs /\ Glue(at, refs, lock).garbage = {}
BY DEF GlueStages, Within, OneOf, Glue, Frame, Whole, Entries, Mentions, Null

\* The same of glue that drops one reference and locks nothing.
LEMMA GlueOfOne ==
  ASSUME NEW L, NEW at \in GlueStages, NEW r, OneOf(r, L)
  PROVE  /\ Whole(Glue(at, <<r>>, Null), L)
         /\ Glue(at, <<r>>, Null).lock = Null /\ Glue(at, <<r>>, Null).who = "glue"
         /\ Within(<<r>>, L)
<1> DEFINE refs == <<r>>
<1>1. Within(refs, L)
  <2>1. r \in Nodes \cup {Null} /\ r \in L \cup {Null}
    BY DEF OneOf
  <2>2. <<r>> \in Seq(Nodes \cup {Null}) /\ Range(<<r>>) = {r}
    BY <2>1, Refs
  <2>3. QED
    BY <2>1, <2>2 DEF Within
<1>2. OneOf(Null, L)
  BY DEF OneOf
<1> HIDE DEF refs
<1>3. /\ Whole(Glue(at, refs, Null), L)
      /\ Glue(at, refs, Null).lock = Null /\ Glue(at, refs, Null).who = "glue"
  BY <1>1, <1>2, GlueWhole
<1>4. QED
  BY <1>1, <1>3 DEF refs

-----------------------------------------------------------------------------
(* Stacks.                                                                 *)

\* An entry on top of a stack that bears it.
LEMMA Pushed ==
  ASSUME NEW L, NEW st, Sound(st, L), NEW e, Whole(e, L), Rests(e, st)
  PROVE  Sound(<<e>> \o st, L) /\ (<<e>> \o st) # <<>> /\ (<<e>> \o st)[1] = e
<1> DEFINE new == <<e>> \o st
<1>1. st \in Seq(Entries) /\ e \in Entries /\ <<e>> \in Seq(Entries)
  BY DEF Sound, Whole
<1>2. /\ new \in Seq(Entries) /\ Len(new) = Len(st) + 1 /\ Len(st) \in Nat
      /\ \A i \in 1..Len(new) : new[i] = IF i = 1 THEN e ELSE st[i - 1]
  BY <1>1, ConcatProperties
<1>3. new # <<>> /\ new[1] = e
  BY <1>2, EmptySeq
<1> HIDE DEF new
<1>4. \A i \in 1..Len(new) : i = 1 \/ (i - 1 \in 1..Len(st) /\ new[i] = st[i - 1])
  BY <1>2
<1>5. st # <<>> => Len(st) > 0
  BY <1>1, EmptySeq
<1>6. \A i \in 1..Len(new) : Whole(new[i], L)
  BY <1>3, <1>4 DEF Sound
<1>7. \A i \in 1..Len(new) : new[i].lock # Null => i < Len(new) /\ Holds(new[i + 1], new[i].lock)
  <2> TAKE i \in 1..Len(new)
  <2> HAVE new[i].lock # Null
  <2>1. CASE i = 1
    BY <2>1, <1>2, <1>3, <1>5 DEF Rests
  <2>2. CASE i # 1
    <3>1. i - 1 < Len(st) /\ Holds(st[(i - 1) + 1], st[i - 1].lock)
      BY <2>2, <1>4 DEF Sound
    <3>2. (i - 1) + 1 = i /\ new[i + 1] = st[i]
      BY <2>2, <3>1, <1>2
    <3>3. QED
      BY <2>2, <3>1, <3>2, <1>2, <1>4
  <2>3. QED
    BY <2>1, <2>2
<1>8. \A i \in 1..Len(new) : new[i].who = "call" => i < Len(new)
  <2> TAKE i \in 1..Len(new)
  <2> HAVE new[i].who = "call"
  <2>1. CASE i = 1
    BY <2>1, <1>2, <1>3, <1>5 DEF Rests
  <2>2. CASE i # 1
    BY <2>2, <1>2, <1>4 DEF Sound
  <2>3. QED
    BY <2>1, <2>2
<1>9. QED
  BY <1>2, <1>3, <1>6, <1>7, <1>8 DEF Sound, new

\* Without its innermost entry, which rested on the rest.
LEMMA Popped ==
  ASSUME NEW L, NEW st, Sound(st, L), st # <<>>
  PROVE  /\ Sound(Tail(st), L) /\ Whole(st[1], L)
         /\ Rests(st[1], Tail(st))
<1> DEFINE new == Tail(st)
<1>1. /\ st \in Seq(Entries) /\ new \in Seq(Entries) /\ Len(new) = Len(st) - 1
      /\ \A i \in 1..Len(new) : new[i] = st[i + 1]
      /\ Len(st) \in Nat \ {0}
  BY HeadTailProperties, EmptySeq DEF Sound
<1> HIDE DEF new
<1>3. Len(new) > 0 => new # <<>>
  BY EmptySeq
<1>4. Sound(new, L)
  <2>1. \A i \in 1..Len(new) : i + 1 \in 1..Len(st) /\ new[i] = st[i + 1]
    BY <1>1
  <2>2. \A i \in 1..Len(new) : Whole(new[i], L)
    BY <2>1 DEF Sound
  <2>3. \A i \in 1..Len(new) :
          new[i].lock # Null => i < Len(new) /\ Holds(new[i + 1], new[i].lock)
    <3> TAKE i \in 1..Len(new)
    <3> HAVE new[i].lock # Null
    <3>1. i + 1 < Len(st) /\ Holds(st[(i + 1) + 1], st[i + 1].lock)
      BY <2>1 DEF Sound
    <3>2. i + 1 \in 1..Len(new)
      BY <3>1, <1>1
    <3>3. QED
      BY <3>1, <3>2, <2>1, <1>1
  <2>4. \A i \in 1..Len(new) : new[i].who = "call" => i < Len(new)
    BY <2>1, <1>1 DEF Sound
  <2>5. QED
    BY <1>1, <2>2, <2>3, <2>4 DEF Sound
<1>5. Whole(st[1], L)
  BY <1>1 DEF Sound
<1>6. Rests(st[1], new)
  <2>1. st[1].lock # Null => 1 < Len(st) /\ Holds(st[1 + 1], st[1].lock)
    BY <1>1 DEF Sound
  <2>2. st[1].who = "call" => 1 < Len(st)
    BY <1>1 DEF Sound
  <2>3. 1 < Len(st) => new # <<>> /\ new[1] = st[1 + 1]
    BY <1>1, <1>3
  <2>4. QED
    BY <2>1, <2>2, <2>3 DEF Rests
<1>7. QED
  BY <1>4, <1>5, <1>6 DEF new

\* With more nodes allocated, a sound stack stays sound.
LEMMA Grown ==
  ASSUME NEW L, NEW M, L \subseteq M, NEW st, Sound(st, L)
  PROVE  Sound(st, M)
BY DEF Sound, Whole

\* Glue that drops references, if there is anything to drop (Dropping).
LEMMA Dropped ==
  ASSUME NEW L, L \subseteq Nodes, NEW st, Sound(st, L),
         NEW refs, Within(refs, L),
         NEW lock \in L \cup {Null}, lock # Null => st # <<>> /\ Holds(st[1], lock)
  PROVE  /\ Sound(Dropping(refs, lock) \o st, L)
         /\ Dropping(refs, lock) \in Seq(Entries)
<1>1. CASE Empty(refs)
  <2>1. Dropping(refs, lock) = <<>>
    BY <1>1 DEF Dropping
  <2>2. <<>> \o st = st
    BY ConcatEmptySeq DEF Sound
  <2>3. <<>> \in Seq(Entries)
    BY EmptySeq
  <2>4. QED
    BY <2>1, <2>2, <2>3
<1>2. CASE ~Empty(refs)
  <2> DEFINE e == Glue("drop", refs, lock)
  <2>1. Whole(e, L) /\ e.lock = lock /\ e.who = "glue"
    <3>1. "drop" \in GlueStages
      BY DEF GlueStages
    <3>2. OneOf(lock, L)
      BY DEF OneOf
    <3>3. QED
      BY <3>1, <3>2, GlueWhole DEF e
  <2> HIDE DEF e
  <2>2. Rests(e, st)
    BY <2>1 DEF Rests
  <2>3. Sound(<<e>> \o st, L)
    BY <2>1, <2>2, Pushed
  <2>4. <<e>> \in Seq(Entries)
    BY <2>1 DEF Whole
  <2>5. Dropping(refs, lock) = <<e>>
    BY <1>2 DEF Dropping, e
  <2>6. QED
    BY <2>3, <2>4, <2>5
<1>3. QED
  BY <1>1, <1>2

\* Two entries are pushed one after the other.
LEMMA Two ==
  ASSUME NEW a \in Entries, NEW b \in Entries, NEW st \in Seq(Entries)
  PROVE  <<a, b>> \o st = <<a>> \o (<<b>> \o st)
<1>1. <<a>> \in Seq(Entries) /\ <<b>> \in Seq(Entries) /\ <<a, b>> \in Seq(Entries)
  OBVIOUS
<1>2. /\ <<a>> \o <<b>> \in Seq(Entries)
      /\ Len(<<a>> \o <<b>>) = 2
      /\ (<<a>> \o <<b>>)[1] = a /\ (<<a>> \o <<b>>)[2] = b
  BY <1>1, ConcatProperties
<1>3. Len(<<a, b>>) = 2 /\ <<a, b>>[1] = a /\ <<a, b>>[2] = b
  OBVIOUS
<1>4. \A i \in 1..2 : (<<a>> \o <<b>>)[i] = <<a, b>>[i]
  BY <1>2, <1>3
<1> DEFINE s == <<a>>
           t == <<b>>
           u == <<a, b>>
<1>5. s \in Seq(Entries) /\ t \in Seq(Entries) /\ u \in Seq(Entries) /\ s \o t \in Seq(Entries)
      /\ Len(s \o t) = 2 /\ Len(u) = 2 /\ \A i \in 1..2 : (s \o t)[i] = u[i]
  BY <1>1, <1>2, <1>3, <1>4
<1> HIDE DEF s, t, u
<1>6. s \o t = u
  BY <1>5, SeqEqual
<1>7. (s \o t) \o st = s \o (t \o st)
  <2>1. s \in Seq(Entries) /\ t \in Seq(Entries)
    BY <1>5
  <2>2. QED
    BY <2>1, ConcatAssociative
<1>8. u \o st = s \o (t \o st)
  BY <1>6, <1>7
<1>9. QED
  BY <1>8 DEF s, t, u

\* Only the survivors of an entry change when a node is forgotten.
LEMMA ForgottenIn ==
  ASSUME NEW e \in Entries, NEW n
  PROVE  LET f == ForgetIn(e, n) IN
         /\ f \in Entries
         /\ f.who = e.who /\ f.at = e.at /\ f.refs = e.refs
         /\ f.operand = e.operand /\ f.lock = e.lock
         /\ f.garbage = e.garbage /\ f.todo = e.todo
         /\ f.survivors = e.survivors \ {n}
BY DEF ForgetIn, Entries

Refers(e, n) == n \in Range(e.refs) \cup {e.operand} \cup e.garbage
NoneRefers(st, n) == \A i \in 1..Len(st) : ~Refers(st[i], n)

\* A node to which no entry refers can go: survivors are forgotten with it, and
\* nobody holds its lock.
LEMMA Forgotten ==
  ASSUME NEW L, L \subseteq Nodes, NEW st, Sound(st, L), NEW n \in L, NoneRefers(st, n)
  PROVE  Sound(Forget(st, n), L \ {n})
<1> DEFINE new == Forget(st, n)
<1>1. /\ st \in Seq(Entries) /\ Len(st) \in Nat /\ DOMAIN st = 1..Len(st)
      /\ \A i \in 1..Len(st) : st[i] \in Entries
  BY LenProperties, ElementOfSeq DEF Sound
<1>2. \A i \in 1..Len(st) : new[i] = ForgetIn(st[i], n)
  BY <1>1 DEF Forget
<1> HIDE DEF new
<1>3. \A i \in 1..Len(st) :
        /\ new[i] \in Entries
        /\ new[i].who = st[i].who /\ new[i].at = st[i].at /\ new[i].refs = st[i].refs
        /\ new[i].operand = st[i].operand /\ new[i].lock = st[i].lock
        /\ new[i].garbage = st[i].garbage /\ new[i].todo = st[i].todo
        /\ new[i].survivors = st[i].survivors \ {n}
  BY <1>1, <1>2, ForgottenIn
<1>4. new \in [1..Len(st) -> Entries]
  BY <1>1, <1>3 DEF Forget, new
<1>5. new \in Seq(Entries) /\ Len(new) = Len(st)
  BY <1>1, <1>4, SeqDef, LenProperties
<1>6. n # Null
  BY Numbers
<1>7. ASSUME NEW i \in 1..Len(st), st[i].lock # Null
      PROVE  i < Len(st) /\ Holds(st[i + 1], st[i].lock) /\ st[i].lock # n
  <2>1. i < Len(st) /\ Holds(st[i + 1], st[i].lock)
    BY <1>7 DEF Sound
  <2>2. i + 1 \in 1..Len(st)
    BY <2>1, <1>1
  <2>3. ~Refers(st[i + 1], n)
    BY <2>2 DEF NoneRefers
  <2>4. QED
    BY <2>1, <2>3 DEF Refers, Holds
<1>8. \A i \in 1..Len(st) : Whole(new[i], L \ {n})
  <2> TAKE i \in 1..Len(st)
  <2>1. Whole(st[i], L)
    BY DEF Sound
  <2>2. ~Refers(st[i], n)
    BY DEF NoneRefers
  <2>3. st[i].lock # n
    BY <1>6, <1>7
  <2>4. Mentions(new[i]) \subseteq (L \ {n}) \cup {Null}
    BY <2>1, <2>2, <2>3, <1>3 DEF Whole, Mentions, Refers
  <2>5. QED
    BY <2>1, <2>4, <1>3 DEF Whole
<1>9. \A i \in 1..Len(st) : new[i].lock # Null => i < Len(st) /\ Holds(new[i + 1], new[i].lock)
  <2> TAKE i \in 1..Len(st)
  <2> HAVE new[i].lock # Null
  <2>1. i < Len(st) /\ Holds(st[i + 1], st[i].lock)
    BY <1>3, <1>7
  <2>2. i + 1 \in 1..Len(st)
    BY <2>1, <1>1
  <2>3. QED
    BY <2>1, <2>2, <1>3 DEF Holds
<1>10. QED
  BY <1>3, <1>5, <1>8, <1>9 DEF Sound, new

-----------------------------------------------------------------------------
(* Counting references.                                                    *)

\* The places an entry holds a node in, the edges to it and the places of the
\* whole stack are finitely many.
LEMMA Countable ==
  ASSUME HeapOK, Sound(stack, live), NEW n
  PROVE  IsFiniteSet(Edges(n)) /\ IsFiniteSet(OnStack(n))
<1>1. IsFiniteSet(Edges(n))
  <2>1. IsFiniteSet(Nodes) /\ IsFiniteSet(Slots)
    BY Numbers, FS_Interval DEF Nodes, Slots
  <2>2. IsFiniteSet(live)
    BY <2>1, FS_Subset DEF HeapOK
  <2>3. IsFiniteSet(live \X Slots)
    BY <2>1, <2>2, FS_Product
  <2>4. Edges(n) \in SUBSET (live \X Slots)
    BY DEF Edges
  <2>5. QED
    BY <2>3, <2>4, FS_Subset
<1>2. Len(stack) \in Nat /\ DOMAIN stack = 1..Len(stack)
  BY LenProperties DEF Sound
<1>3. ASSUME NEW i \in DOMAIN stack
      PROVE  IsFiniteSet({i} \X HeldAt(stack[i], n))
  <2>1. Len(stack[i].refs) \in Nat
    <3>1. stack[i] \in Entries
      BY <1>2, <1>3, ElementOfSeq DEF Sound
    <3>2. stack[i].refs \in Seq(Nodes \cup {Null})
      BY <3>1 DEF Entries
    <3>3. QED
      BY <3>2, LenProperties
  <2>2. IsFiniteSet(-1..Len(stack[i].refs))
    BY <2>1, FS_Interval
  <2>3. HeldAt(stack[i], n) \in SUBSET (-1..Len(stack[i].refs))
    BY DEF HeldAt
  <2>4. IsFiniteSet(HeldAt(stack[i], n))
    BY <2>2, <2>3, FS_Subset
  <2>5. QED
    BY <2>4, FS_Singleton, FS_Product
<1>4. IsFiniteSet(OnStack(n))
  <2> DEFINE places == [i \in DOMAIN stack |-> {i} \X HeldAt(stack[i], n)]
             sets == {{i} \X HeldAt(stack[i], n) : i \in DOMAIN stack}
  <2>1. IsFiniteSet(DOMAIN stack)
    BY <1>2, FS_Interval
  <2>2. places \in Surjection(DOMAIN stack, sets)
    BY DEF Surjection
  <2>3. IsFiniteSet(sets)
    BY <2>1, <2>2, FS_Surjection
  <2>4. \A T \in sets : IsFiniteSet(T)
    BY <1>3
  <2> HIDE DEF sets
  <2>5. IsFiniteSet(UNION sets)
    BY <2>3, <2>4, FS_UNION
  <2>6. QED
    BY <2>5 DEF OnStack, sets
<1>5. QED
  BY <1>1, <1>4

\* Arc::strong_count is one: the place that holds the node is its only one.
LEMMA LastReference ==
  ASSUME HeapOK, Sound(stack, live), NEW n \in live, StrongCount(n) = 1,
         NEW i \in 1..Len(stack), NEW k \in HeldAt(stack[i], n)
  PROVE  /\ \A m \in Nodes : n \notin Range(field[m])
         /\ static # n
         /\ \A j \in 1..Len(stack) : \A l \in HeldAt(stack[j], n) : j = i /\ l = k
<1>1. DOMAIN stack = 1..Len(stack)
  BY LenProperties DEF Sound
<1>2. IsFiniteSet(Edges(n)) /\ IsFiniteSet(OnStack(n))
  BY Countable
<1>3. <<i, k>> \in OnStack(n)
  BY <1>1 DEF OnStack
<1>4. /\ Cardinality(Edges(n)) \in Nat /\ Cardinality(OnStack(n)) \in Nat
      /\ Cardinality(OnStack(n)) # 0
  BY <1>2, <1>3, FS_CardinalityType, FS_EmptySet
<1>5. Cardinality(Edges(n)) = 0 /\ static # n /\ Cardinality(OnStack(n)) = 1
  <2>1. CASE static = n
    BY <2>1, <1>4 DEF StrongCount
  <2>2. CASE static # n
    BY <2>2, <1>4 DEF StrongCount
  <2>3. QED
    BY <2>1, <2>2
<1>6. Edges(n) = {}
  BY <1>2, <1>5, FS_EmptySet
<1>7. PICK p : OnStack(n) = {p}
  BY <1>2, <1>5, FS_Singleton
<1>8. \A j \in 1..Len(stack) : \A l \in HeldAt(stack[j], n) : j = i /\ l = k
  <2> TAKE j \in 1..Len(stack)
  <2> TAKE l \in HeldAt(stack[j], n)
  <2>1. <<j, l>> \in OnStack(n)
    BY <1>1 DEF OnStack
  <2>2. <<j, l>> = <<i, k>>
    BY <2>1, <1>3, <1>7
  <2>3. QED
    BY <2>2
<1>9. \A m \in Nodes : n \notin Range(field[m])
  <2> SUFFICES ASSUME NEW m \in Nodes, n \in Range(field[m])
               PROVE  FALSE
    OBVIOUS
  <2>1. PICK s \in DOMAIN field[m] : field[m][s] = n
    BY DEF Range
  <2>2. field[m] # NoKeys
    BY <2>1 DEF NoKeys
  <2>3. m \in live
    BY <2>2 DEF HeapOK
  <2>4. field[m] \in Contents
    BY DEF HeapOK
  <2>5. DOMAIN field[m] \subseteq Slots
    BY <2>4 DEF Contents
  <2>6. Fields(m)[s] = n
    BY <2>1, <2>5 DEF Fields
  <2>7. <<m, s>> \in Edges(n)
    BY <2>1, <2>3, <2>5, <2>6 DEF Edges
  <2>8. QED
    BY <2>7, <1>6
<1>10. QED
  BY <1>5, <1>8, <1>9

\* An entry that refers to a node holds it in some place.
LEMMA Places ==
  ASSUME NEW e \in Entries, NEW n
  PROVE  Refers(e, n) <=> HeldAt(e, n) # {}
<1>1. e.refs \in Seq(Nodes \cup {Null})
  BY DEF Entries
<1>2. DOMAIN e.refs = 1..Len(e.refs) /\ Len(e.refs) \in Nat
  BY <1>1, LenProperties
<1>3. n \in Range(e.refs) <=> \E k \in HeldAt(e, n) : k > 0
  BY <1>2 DEF Range, HeldAt
<1>4. e.operand = n <=> 0 \in HeldAt(e, n)
  BY <1>2 DEF HeldAt
<1>5. n \in e.garbage <=> -1 \in HeldAt(e, n)
  BY <1>2 DEF HeldAt
<1>6. \A k \in HeldAt(e, n) : k > 0 \/ k = 0 \/ k = -1
  BY <1>2 DEF HeldAt
<1>7. QED
  BY <1>3, <1>4, <1>5, <1>6 DEF Refers

\* What a node's fields hold, as a list of references.
LEMMA FieldsWithin ==
  ASSUME HeapOK, NEW n \in Nodes, NEW L, Range(field[n]) \subseteq L \cup {Null}
  PROVE  Within(Fields(n), L)
<1>1. field[n] \in Contents
  BY DEF HeapOK
<1>2. \A s \in DOMAIN field[n] : field[n][s] \in Range(field[n]) /\ field[n][s] \in Nodes \cup {Null}
  BY <1>1 DEF Range, Contents
<1>3. Fields(n) \in [1..Width -> Nodes \cup {Null}]
  BY <1>2 DEF Fields, Slots
<1>4. Fields(n) \in Seq(Nodes \cup {Null})
  BY <1>3, Numbers, SeqDef
<1>5. \A s \in Slots : Fields(n)[s] \in L \cup {Null}
  BY <1>2 DEF Fields
<1>6. Range(Fields(n)) \subseteq L \cup {Null}
  BY <1>5 DEF Range, Fields
<1>7. QED
  BY <1>4, <1>6 DEF Within

\* A node without fields holds nothing.
LEMMA Nothing == NoKeys \in Contents /\ Range(NoKeys) = {}
<1>1. NoKeys \in [{} -> Nodes \cup {Null}]
  BY DEF NoKeys
<1>2. {} \in SUBSET Slots
  OBVIOUS
<1>3. QED
  BY <1>1, <1>2 DEF Contents, Range, NoKeys

\* A receiver frame of a destructor, on a stack that mentions live nodes only.
LEMMA Destructs ==
  ASSUME NEW L, NEW st, Sound(st, L), NEW c \in L, c \in Nodes
  PROVE  Sound(<<Frame("destruct", Receiving(c))>> \o st, L)
<1> DEFINE e == Frame("destruct", Receiving(c))
<1>1. Within(Receiving(c), L)
  BY Refs DEF Within
<1>2. "destruct" \in FrameKinds
  BY DEF FrameKinds
<1>3. Whole(e, L) /\ e.lock = Null /\ e.who = "destruct"
  BY <1>1, <1>2, FrameWhole
<1> HIDE DEF e
<1>4. Rests(e, st)
  BY <1>3 DEF Rests
<1>5. QED
  BY <1>3, <1>4, Pushed DEF e

\* Object::drop keeps the invariant when no reference to the object is left.
LEMMA Dies ==
  ASSUME Inv, NEW n \in live, NEW rest, Sound(rest, live), NoneRefers(rest, n),
         \A m \in Nodes : n \notin Range(field[m]), static # n,
         Die(n, rest), UNCHANGED <<program, static, deferred, threads>>
  PROVE  Inv'
<1> DEFINE c == CopyOf(n)
<1>1. /\ n \in Nodes /\ live \subseteq Nodes /\ c \in Nodes /\ c \notin Objects
      /\ Objects \subseteq Nodes /\ Null \notin Nodes
  BY Numbers DEF Inv, HeapOK
<1>2. Sound(Forget(rest, n), live \ {n})
  BY <1>1, Forgotten
<1>3. \A m \in Nodes : Range(field[m]) \subseteq (live \ {n}) \cup {Null}
  BY DEF Inv, HeapOK
<1>4. pending' = pending \ {n} /\ pending \subseteq live
  BY DEF Die, Upgradable, Inv, HeapOK
<1>5. CASE RunsDestructor(n)
  <2>1. n \notin destroyed /\ n \in Objects
    BY <1>5 DEF RunsDestructor, Inv, Fresh
  <2>2. Origin(n) = n /\ c # n
    BY <2>1, Numbers
  <2>3. /\ live' = (live \ {n}) \cup {c}
        /\ destroyed' = destroyed \cup {c}
        /\ field' = [field EXCEPT ![c] = field[n], ![n] = NoKeys]
        /\ ran' = [ran EXCEPT ![n] = IF ran[n] < 2 THEN ran[n] + 1 ELSE 2]
        /\ kind' = kind
        /\ stack' = <<Frame("destruct", Receiving(c))>> \o Forget(rest, n)
    BY <1>5, <2>2 DEF Die, MoveToCopy, OnCopy
  <2> HIDE DEF c
  <2>4. Sound(Forget(rest, n), live')
    BY <1>2, <2>3, Grown
  <2>5. Sound(stack', live')
    BY <1>1, <2>3, <2>4, Destructs
  <2>6. field' \in [Nodes -> Contents]
    BY <1>1, <2>3, Nothing DEF Inv, HeapOK
  <2>7. \A m \in Nodes : field'[m] = IF m = n THEN NoKeys ELSE IF m = c THEN field[n] ELSE field[m]
    BY <1>1, <2>2, <2>3 DEF Inv, HeapOK
  <2>8. \A m \in Nodes : Range(field'[m]) \subseteq live' \cup {Null}
    BY <1>1, <1>3, <2>3, <2>7, Nothing
  <2>9. \A m \in Nodes \ live' : field'[m] = NoKeys
    BY <1>1, <2>3, <2>7 DEF Inv, HeapOK
  <2>10. ran \in [Objects -> 0..2] /\ ran[n] = 0 /\ \A m \in Objects : ran[m] <= 1
    BY <2>1 DEF Inv, HeapOK, Fresh
  <2>11. /\ ran' \in [Objects -> 0..2]
         /\ \A m \in Objects : ran'[m] = IF m = n THEN 1 ELSE ran[m]
    BY <2>1, <2>3, <2>10
  <2>12. HeapOK'
    BY <1>1, <1>4, <2>1, <2>3, <2>6, <2>8, <2>9, <2>11 DEF Inv, HeapOK
  <2>13. Fresh'
    BY <1>1, <2>1, <2>3, <2>10, <2>11 DEF Inv, Fresh, Objects
  <2>14. QED
    BY <2>5, <2>12, <2>13 DEF Inv
<1>6. CASE ~RunsDestructor(n)
  <2>1. /\ live' = live \ {n}
        /\ destroyed' = destroyed \ {n}
        /\ field' = [field EXCEPT ![n] = NoKeys]
        /\ stack' = Dropping(Fields(n), Null) \o Forget(rest, n)
        /\ ran' = ran /\ kind' = kind
    BY <1>6 DEF Die
  <2>2. Within(Fields(n), live \ {n})
    BY <1>1, <1>3, FieldsWithin DEF Inv
  <2>3. live \ {n} \subseteq Nodes
    BY <1>1
  <2>4. Sound(stack', live')
    BY <1>2, <2>1, <2>2, <2>3, Dropped
  <2>5. /\ field' \in [Nodes -> Contents]
        /\ \A m \in Nodes : field'[m] = IF m = n THEN NoKeys ELSE field[m]
    BY <1>1, <2>1, Nothing DEF Inv, HeapOK
  <2>6. \A m \in Nodes : Range(field'[m]) \subseteq live' \cup {Null}
    BY <1>3, <2>1, <2>5, Nothing
  <2>7. \A m \in Nodes \ live' : field'[m] = NoKeys
    BY <2>1, <2>5 DEF Inv, HeapOK
  <2>8. HeapOK'
    BY <1>1, <1>4, <2>1, <2>5, <2>6, <2>7 DEF Inv, HeapOK
  <2>9. Fresh'
    BY <2>1 DEF Inv, Fresh, Objects
  <2>10. QED
    BY <2>4, <2>8, <2>9 DEF Inv
<1>7. QED
  BY <1>5, <1>6

-----------------------------------------------------------------------------
(* The steps, but for those that touch the heap.                           *)

LEMMA NoStack == ASSUME NEW L PROVE Sound(<<>>, L)
BY EmptySeq DEF Sound

\* The innermost entry is replaced by one that rests on no more.
LEMMA Replaced ==
  ASSUME NEW L, NEW st, Sound(st, L), st # <<>>, NEW e, Whole(e, L),
         e.lock = st[1].lock \/ e.lock = Null, e.who = st[1].who \/ e.who # "call"
  PROVE  Sound(<<e>> \o Tail(st), L)
<1>1. Sound(Tail(st), L) /\ Rests(st[1], Tail(st))
  BY Popped
<1>2. Rests(e, Tail(st))
  BY <1>1 DEF Rests
<1>3. QED
  BY <1>1, <1>2, Pushed

\* An entry that is alone on the stack.
LEMMA Alone ==
  ASSUME NEW L, NEW e, Whole(e, L), e.lock = Null, e.who # "call"
  PROVE  Sound(<<e>>, L)
<1>1. Rests(e, <<>>)
  BY DEF Rests
<1>2. Sound(<<e>> \o <<>>, L)
  BY <1>1, NoStack, Pushed
<1>3. <<e>> \in Seq(Entries)
  BY DEF Whole
<1>4. <<e>> \o <<>> = <<e>>
  BY <1>3, ConcatEmptySeq
<1>5. QED
  BY <1>2, <1>4

\* The innermost entry is whole, and what is below it sound (top, below).
LEMMA Innermost ==
  ASSUME NEW L, Sound(stack, L), stack # <<>>
  PROVE  /\ Whole(top, L) /\ top = stack[1] /\ 1 \in 1..Len(stack)
         /\ Sound(below, L) /\ Rests(top, below)
<1>1. Whole(stack[1], L) /\ Sound(Tail(stack), L) /\ Rests(stack[1], Tail(stack))
  BY Popped
<1>2. 1 \in 1..Len(stack)
  BY EmptySeq DEF Sound
<1>3. QED
  BY <1>1, <1>2 DEF top, below

\* The innermost entry goes from one stage to another (GoTo).
LEMMA Going ==
  ASSUME NEW L, Sound(stack, L), stack # <<>>,
         NEW where \in {"collect", "destroy", "free", "blocked"},
         where = "free" => top.todo = {}
  PROVE  Sound(<<[top EXCEPT !.at = where]>> \o below, L)
<1> DEFINE e == [top EXCEPT !.at = where]
<1>1. Whole(top, L) /\ top = stack[1]
  BY Innermost
<1>2. Whole(e, L) /\ e.lock = top.lock /\ e.who = top.who
  BY <1>1 DEF Whole, Entries, Mentions
<1> HIDE DEF e
<1>3. Sound(<<e>> \o Tail(stack), L)
  BY <1>1, <1>2, Replaced
<1>4. QED
  BY <1>3 DEF e, below

\* What the end of a pass hands down (Finished) leaves a sound stack.
LEMMA Ended ==
  ASSUME NEW L, L \subseteq Nodes, Sound(stack, L), stack # <<>>
  PROVE  Sound(Finished, L)
<1>1. Whole(top, L) /\ Sound(below, L) /\ Rests(top, below)
  BY Innermost
<1>2. OneOf(top.operand, L)
  BY <1>1 DEF OneOf, Whole, Mentions, Entries
<1>3. Within(<<top.operand>>, L)
  <2>1. "drop" \in GlueStages
    BY DEF GlueStages
  <2>2. QED
    BY <1>2, <2>1, GlueOfOne
<1>4. CASE top.who = "main"
  <2> DEFINE g == Glue("collect", <<top.operand>>, Null)
             e == [g EXCEPT !.who = "sweep"]
  <2>1. "collect" \in GlueStages
    BY DEF GlueStages
  <2>2. Whole(g, L) /\ g.lock = Null
    BY <1>2, <2>1, GlueOfOne
  <2> HIDE DEF g
  <2>3. Whole(e, L) /\ e.lock = Null /\ e.who = "sweep"
    BY <2>2 DEF Whole, Entries, Mentions
  <2> HIDE DEF e
  <2>4. Sound(<<e>>, L)
    BY <2>3, Alone
  <2>5. QED
    BY <1>4, <2>4 DEF Finished, e, g
<1>5. CASE top.who = "clinit" /\ ~top.thrown
  <2> DEFINE e == Frame("main", NoLocals)
  <2>1. "main" \in FrameKinds
    BY DEF FrameKinds
  <2>2. Within(NoLocals, L)
    BY Refs DEF Within
  <2>3. Whole(e, L) /\ e.lock = Null /\ e.who = "main"
    BY <2>1, <2>2, FrameWhole
  <2> HIDE DEF e
  <2>4. Sound(<<e>>, L)
    BY <2>3, Alone
  <2>5. QED
    BY <1>5, <2>4 DEF Finished, e
<1>6. CASE top.who = "call" /\ ~top.thrown
  <2> DEFINE e == [below[1] EXCEPT !.operand = top.operand]
  <2>1. below # <<>>
    BY <1>1, <1>6 DEF Rests
  <2>2. Whole(below[1], L)
    BY <1>1, <2>1, Popped
  <2>3. Whole(e, L) /\ e.lock = below[1].lock /\ e.who = below[1].who
    BY <1>2, <2>2 DEF OneOf, Whole, Entries, Mentions
  <2> HIDE DEF e
  <2>4. Sound(<<e>> \o Tail(below), L)
    BY <1>1, <2>1, <2>3, Replaced
  <2>5. QED
    BY <1>6, <2>4 DEF Finished, e
<1>7. CASE top.who # "main" /\ top.thrown
  <2>1. Sound(Dropping(<<top.operand>>, Null) \o below, L)
    BY <1>1, <1>3, Dropped
  <2>2. QED
    BY <1>7, <2>1 DEF Finished
<1>8. CASE top.who \notin {"main", "clinit", "call"} /\ ~top.thrown
  BY <1>1, <1>8 DEF Finished
<1>9. top.thrown \in BOOLEAN
  BY <1>1 DEF Whole, Entries
<1>10. QED
  BY <1>4, <1>5, <1>6, <1>7, <1>8, <1>9

\* A step that leaves the heap as it is.
LEMMA Same ==
  ASSUME Inv, UNCHANGED <<program, heap, threads>>, static' \in live \cup {Null},
         pending' \subseteq live, deferred' \in 0..Threshold, Sound(stack', live)
  PROVE  Inv'
BY DEF Inv, HeapOK, Fresh, heap

-----------------------------------------------------------------------------
(* The steps that drop references.                                         *)

\* The innermost entry holds the last reference to n, in one place.
LEMMA LastIsInnermost ==
  ASSUME Inv, stack # <<>>, NEW n \in live, StrongCount(n) = 1, NEW k \in HeldAt(top, n)
  PROVE  /\ NoneRefers(below, n)
         /\ \A m \in Nodes : n \notin Range(field[m])
         /\ static # n
         /\ \A l \in HeldAt(top, n) : l = k
<1>1. HeapOK /\ Sound(stack, live)
  BY DEF Inv
<1>2. top = stack[1] /\ 1 \in 1..Len(stack)
  BY <1>1, Innermost
<1>3. /\ \A m \in Nodes : n \notin Range(field[m])
      /\ static # n
      /\ \A j \in 1..Len(stack) : \A l \in HeldAt(stack[j], n) : j = 1 /\ l = k
  BY <1>1, <1>2, LastReference
<1>4. /\ stack \in Seq(Entries) /\ Len(below) = Len(stack) - 1 /\ Len(stack) \in Nat
      /\ \A j \in 1..Len(below) : below[j] = stack[j + 1]
  BY <1>1, HeadTailProperties, LenProperties DEF Sound, below
<1>5. ASSUME NEW j \in 1..Len(below)
      PROVE  ~Refers(below[j], n)
  <2>1. j + 1 \in 1..Len(stack) /\ j + 1 # 1 /\ below[j] = stack[j + 1]
    BY <1>4
  <2>2. HeldAt(stack[j + 1], n) = {}
    BY <1>3, <2>1
  <2>3. stack[j + 1] \in Entries
    BY <1>4, <2>1, ElementOfSeq
  <2>4. QED
    BY <2>1, <2>2, <2>3, Places
<1>6. QED
  BY <1>2, <1>3, <1>5 DEF NoneRefers

LEMMA NonePushed ==
  ASSUME NEW st \in Seq(Entries), NEW n, NoneRefers(st, n), NEW e \in Entries, ~Refers(e, n)
  PROVE  NoneRefers(<<e>> \o st, n)
<1> DEFINE new == <<e>> \o st
<1>1. <<e>> \in Seq(Entries)
  OBVIOUS
<1>2. /\ Len(new) = Len(st) + 1 /\ Len(st) \in Nat
      /\ \A i \in 1..Len(new) : new[i] = IF i = 1 THEN e ELSE st[i - 1]
  BY <1>1, ConcatProperties
<1> HIDE DEF new
<1>3. \A i \in 1..Len(new) : i = 1 \/ i - 1 \in 1..Len(st)
  BY <1>2
<1>4. QED
  BY <1>2, <1>3 DEF NoneRefers, new

\* LetGo: whether or not the reference was the last one.
LEMMA LetsGo ==
  ASSUME Inv, NEW n \in live, NEW rest, Sound(rest, live),
         StrongCount(n) = 1 => /\ NoneRefers(rest, n)
                               /\ \A m \in Nodes : n \notin Range(field[m])
                               /\ static # n,
         LetGo(n, rest), UNCHANGED <<program, static, deferred, threads>>
  PROVE  Inv'
<1>1. CASE StrongCount(n) = 1
  BY <1>1, Dies DEF LetGo
<1>2. CASE StrongCount(n) # 1
  <2>1. stack' = rest /\ UNCHANGED <<heap, pending>>
    BY <1>2 DEF LetGo
  <2>2. QED
    BY <2>1, Same DEF Inv, HeapOK
<1>3. QED
  BY <1>1, <1>2

\* Release
LEMMA ReleaseStep == ASSUME Inv, Release PROVE Inv'
<1>1. stack # <<>> /\ UNCHANGED <<program, static, deferred, threads>>
  BY DEF Release, At
<1>2. /\ Sound(stack, live) /\ live \subseteq Nodes
      /\ Whole(top, live) /\ top = stack[1] /\ Sound(below, live)
  BY <1>1, Innermost DEF Inv, HeapOK
<1>3. top.refs \in Seq(Nodes \cup {Null}) /\ DOMAIN top.refs = 1..Len(top.refs)
  BY <1>2, LenProperties DEF Whole, Entries
<1>4. PICK i \in DOMAIN top.refs :
        LET rest == [top EXCEPT !.refs[i] = Null] IN
        /\ top.refs[i] # Null
        /\ LetGo(top.refs[i],
                 IF top.at = "drop" /\ top.lock = Null /\ Empty(rest.refs) THEN below
                 ELSE <<rest>> \o below)
  BY DEF Release
<1> DEFINE n == top.refs[i]
           rest == [top EXCEPT !.refs[i] = Null]
           after == IF top.at = "drop" /\ top.lock = Null /\ Empty(rest.refs) THEN below
                    ELSE <<rest>> \o below
<1>5. n \in live /\ n # Null
  BY <1>2, <1>4 DEF Whole, Mentions, Range
<1>6. /\ rest.refs \in Seq(Nodes \cup {Null}) /\ Len(rest.refs) = Len(top.refs)
      /\ \A j \in 1..Len(top.refs) : rest.refs[j] = IF j = i THEN Null ELSE top.refs[j]
      /\ rest.who = top.who /\ rest.lock = top.lock /\ rest.operand = top.operand
      /\ rest.garbage = top.garbage /\ rest.survivors = top.survivors
      /\ rest.todo = top.todo /\ rest.at = top.at /\ rest \in Entries
  <2>1. rest = [top EXCEPT !.refs = [top.refs EXCEPT ![i] = Null]]
    BY <1>2 DEF Whole, Entries
  <2> DEFINE refs == [top.refs EXCEPT ![i] = Null]
  <2>2. /\ refs \in Seq(Nodes \cup {Null}) /\ Len(refs) = Len(top.refs)
        /\ \A j \in 1..Len(top.refs) : refs[j] = IF j = i THEN Null ELSE top.refs[j]
    BY <1>3, ExceptSeq
  <2> HIDE DEF refs
  <2>3. QED
    BY <1>2, <2>1, <2>2 DEF Whole, Entries, refs
<1> HIDE DEF n, rest
<1>7. Range(rest.refs) \subseteq Range(top.refs) \cup {Null}
  BY <1>3, <1>6, LenProperties DEF Range
<1>8. Whole(rest, live)
  BY <1>2, <1>6, <1>7 DEF Whole, Mentions
<1>9. Sound(<<rest>> \o below, live)
  BY <1>1, <1>2, <1>6, <1>8, Replaced DEF below
<1>10. Sound(after, live)
  BY <1>2, <1>9
<1>11. ASSUME StrongCount(n) = 1
       PROVE  /\ NoneRefers(after, n)
              /\ \A m \in Nodes : n \notin Range(field[m])
              /\ static # n
  <2>1. i \in HeldAt(top, n)
    BY <1>3 DEF HeldAt, n
  <2>2. /\ NoneRefers(below, n)
        /\ \A m \in Nodes : n \notin Range(field[m])
        /\ static # n
        /\ \A l \in HeldAt(top, n) : l = i
    BY <1>1, <1>5, <1>11, <2>1, LastIsInnermost
  <2>3. HeldAt(rest, n) \subseteq HeldAt(top, n) \ {i}
    <3> SUFFICES ASSUME NEW l \in HeldAt(rest, n)
                 PROVE  l \in HeldAt(top, n) \ {i}
      OBVIOUS
    <3>1. l \in -1..Len(top.refs) /\ i > 0
      BY <1>3, <1>6 DEF HeldAt
    <3>2. CASE l > 0
      BY <3>1, <3>2, <1>3, <1>5, <1>6 DEF HeldAt
    <3>3. CASE ~(l > 0)
      BY <3>1, <3>3, <1>6 DEF HeldAt
    <3>4. QED
      BY <3>2, <3>3
  <2>4. ~Refers(rest, n)
    BY <1>6, <2>2, <2>3, Places
  <2>5. NoneRefers(<<rest>> \o below, n)
    BY <1>2, <1>6, <2>2, <2>4, NonePushed DEF Sound
  <2>6. QED
    BY <2>2, <2>5
<1>12. LetGo(n, after)
  BY <1>4 DEF n, rest
<1> HIDE DEF after
<1>13. QED
  BY <1>1, <1>5, <1>10, <1>11, <1>12, LetsGo

\* Free
LEMMA FreeStep == ASSUME Inv, Free PROVE Inv'
<1>1. stack # <<>> /\ top.at = "free" /\ UNCHANGED <<program, static, deferred, threads>>
  BY DEF Free, At
<1>2. /\ Sound(stack, live) /\ live \subseteq Nodes
      /\ Whole(top, live) /\ top = stack[1] /\ Sound(below, live)
  BY <1>1, Innermost DEF Inv, HeapOK
<1>3. PICK n \in top.garbage : LetGo(n, <<[top EXCEPT !.garbage = top.garbage \ {n}]>> \o below)
  BY DEF Free
<1> DEFINE rest == [top EXCEPT !.garbage = top.garbage \ {n}]
<1>4. n \in live
  <2>1. n \in Nodes /\ n \in live \cup {Null}
    BY <1>2, <1>3 DEF Whole, Mentions, Entries
  <2>2. QED
    BY <2>1, Numbers
<1>5. /\ rest \in Entries /\ rest.refs = top.refs /\ rest.garbage = top.garbage \ {n}
      /\ rest.who = top.who /\ rest.lock = top.lock /\ rest.operand = top.operand
      /\ rest.survivors = top.survivors /\ rest.todo = top.todo /\ rest.at = top.at
  BY <1>2 DEF Whole, Entries
<1> HIDE DEF rest
<1>6. Whole(rest, live)
  BY <1>1, <1>2, <1>5 DEF Whole, Mentions
<1>7. Sound(<<rest>> \o below, live)
  BY <1>1, <1>2, <1>5, <1>6, Replaced DEF below
<1>8. ASSUME StrongCount(n) = 1
      PROVE  /\ NoneRefers(<<rest>> \o below, n)
             /\ \A m \in Nodes : n \notin Range(field[m])
             /\ static # n
  <2>1. Len(top.refs) \in Nat
    BY <1>2, LenProperties DEF Whole, Entries
  <2>2. -1 \in HeldAt(top, n)
    BY <1>3, <2>1 DEF HeldAt
  <2>3. /\ NoneRefers(below, n)
        /\ \A m \in Nodes : n \notin Range(field[m])
        /\ static # n
        /\ \A l \in HeldAt(top, n) : l = -1
    BY <1>1, <1>4, <1>8, <2>2, LastIsInnermost
  <2>4. HeldAt(rest, n) \subseteq HeldAt(top, n) \ {-1}
    BY <1>5, <2>1 DEF HeldAt
  <2>5. ~Refers(rest, n)
    BY <1>5, <2>3, <2>4, Places
  <2>6. QED
    BY <1>2, <1>5, <2>3, <2>5, NonePushed DEF Sound
<1>9. LetGo(n, <<rest>> \o below)
  BY <1>3 DEF rest
<1>10. QED
  BY <1>1, <1>4, <1>7, <1>8, <1>9, LetsGo

-----------------------------------------------------------------------------
(* The steps of a pass.                                                    *)

\* Unlock, Note, Discarded, DropGarbage, EndPass
LEMMA StageSteps ==
  ASSUME Inv, Unlock \/ Note \/ Discarded \/ DropGarbage \/ EndPass
  PROVE  Inv'
<1>1. stack # <<>>
  BY DEF Unlock, Note, Discarded, DropGarbage, EndPass, At
<1>2. /\ Sound(stack, live) /\ live \subseteq Nodes /\ pending \subseteq live
      /\ deferred \in 0..Threshold /\ static \in live \cup {Null}
      /\ Whole(top, live) /\ Sound(below, live)
  BY <1>1, Innermost DEF Inv, HeapOK
<1>3. CASE Unlock
  BY <1>2, <1>3, Same DEF Unlock, gc
<1>4. CASE Note
  <2>1. Sound(stack', live)
    BY <1>1, <1>2, <1>4, Going DEF Note, GoTo
  <2>2. pending' \subseteq live
    BY <1>2, <1>4 DEF Note, Whole, Mentions
  <2>3. QED
    BY <1>2, <1>4, <2>1, <2>2, Same DEF Note
<1>5. CASE Discarded
  <2>1. Sound(<<[top EXCEPT !.at = "collect"]>> \o below, live)
    BY <1>1, <1>2, Going
  <2>2. Sound(stack', live)
    BY <1>2, <1>5, <2>1 DEF Discarded, GoTo
  <2>3. deferred' \in 0..Threshold
    BY <1>2, <1>5, Numbers DEF Discarded
  <2>4. QED
    BY <1>2, <1>5, <2>2, <2>3, Same DEF Discarded
<1>6. CASE DropGarbage
  <2>1. Sound(stack', live)
    BY <1>1, <1>2, <1>6, Going DEF DropGarbage, GoTo
  <2>2. QED
    BY <1>2, <1>6, <2>1, Same DEF DropGarbage, gc
<1>7. CASE EndPass
  <2>1. Sound(stack', live)
    BY <1>1, <1>2, <1>7, Ended DEF EndPass
  <2>2. pending' \subseteq live
    <3>1. top.survivors \subseteq Nodes /\ top.survivors \subseteq live \cup {Null}
      BY <1>2 DEF Whole, Mentions, Entries
    <3>2. QED
      BY <1>2, <1>7, <3>1, Numbers DEF EndPass
  <2>3. QED
    BY <1>2, <1>7, <2>1, <2>2, Same DEF EndPass
<1>8. QED
  BY <1>3, <1>4, <1>5, <1>6, <1>7

\* A pass reaches live nodes only (Closure, LiveIn, Survivors).
LEMMA Reached == /\ \A S : Closure(S) \subseteq live
                 /\ \A set : LiveIn(set) \subseteq live /\ Survivors(set) \subseteq live
BY DEF Closure, LiveIn, Survivors

\* RunPendingCollection
LEMMA CollectionStep == ASSUME Inv, RunPendingCollection PROVE Inv'
<1>1. stack # <<>> /\ top.at = "collect" /\ UNCHANGED <<program, heap, static, threads>>
  BY DEF RunPendingCollection, At
<1>2. /\ Sound(stack, live) /\ live \subseteq Nodes /\ pending \subseteq live
      /\ deferred \in 0..Threshold /\ static \in live \cup {Null}
      /\ Whole(top, live) /\ top = stack[1]
  BY <1>1, Innermost DEF Inv, HeapOK
<1>3. Sound(Finished, live)
  BY <1>1, <1>2, Ended
<1>4. 0 \in 0..Threshold
  BY Numbers
<1> DEFINE set == Closure(pending)
           garbage == set \ LiveIn(set)
<1>5. /\ set \subseteq live /\ garbage \subseteq live
      /\ LiveIn(set) \subseteq live /\ Survivors(set) \subseteq live
  BY Reached
<1>6. CASE threads
  BY <1>1, <1>2, <1>3, <1>6, Same DEF RunPendingCollection, gc
<1>7. CASE ~threads /\ set \cap Locked # {}
  <2> DEFINE e == [top EXCEPT !.at = "blocked", !.survivors = set]
  <2>1. deferred' = 0 /\ pending' = {} /\ stack' = <<e>> \o below
    BY <1>7 DEF RunPendingCollection
  <2> HIDE DEF set
  <2>2. Whole(e, live) /\ e.lock = top.lock /\ e.who = top.who
    BY <1>2, <1>5 DEF Whole, Entries, Mentions
  <2> HIDE DEF e
  <2>3. Sound(<<e>> \o below, live)
    BY <1>1, <1>2, <2>2, Replaced DEF below
  <2>4. QED
    BY <1>1, <1>2, <1>4, <2>1, <2>3, Same
<1>8. CASE ~threads /\ set \cap Locked = {} /\ garbage = {}
  <2>1. deferred' = 0 /\ pending' = Survivors(set) /\ stack' = Finished
    BY <1>8 DEF RunPendingCollection
  <2>2. QED
    BY <1>1, <1>2, <1>3, <1>4, <1>5, <2>1, Same
<1>9. CASE ~threads /\ set \cap Locked = {} /\ garbage # {}
  <2> DEFINE todo == {n \in garbage : IsObject(n)}
             survivors == Survivors(set)
             e == [top EXCEPT !.at = "destroy", !.garbage = garbage, !.todo = todo,
                              !.survivors = survivors]
  <2>1. deferred' = 0 /\ pending' = {} /\ stack' = <<e>> \o below
    BY <1>9 DEF RunPendingCollection
  <2>2. todo \subseteq garbage /\ survivors \subseteq live
    BY <1>5
  <2> HIDE DEF set, garbage, todo, survivors
  <2>3. /\ e \in Entries /\ e.lock = top.lock /\ e.who = top.who /\ e.refs = top.refs
        /\ e.operand = top.operand /\ e.at = "destroy" /\ e.garbage = garbage
        /\ e.todo = todo /\ e.survivors = survivors
    BY <1>2, <1>5, <2>2 DEF Whole, Entries
  <2> HIDE DEF e
  <2>4. Whole(e, live)
    BY <1>2, <1>5, <2>2, <2>3 DEF Whole, Mentions
  <2>5. Sound(<<e>> \o below, live)
    BY <1>1, <1>2, <2>3, <2>4, Replaced DEF below
  <2>6. QED
    BY <1>1, <1>2, <1>4, <2>1, <2>5, Same
<1>10. QED
  BY <1>6, <1>7, <1>8, <1>9

\* ForceDestroy
LEMMA ForceDestroyStep == ASSUME Inv, ForceDestroy PROVE Inv'
<1>1. stack # <<>> /\ top.at = "destroy" /\ UNCHANGED <<program, static, gc, threads>>
  BY DEF ForceDestroy, At
<1>2. /\ Sound(stack, live) /\ live \subseteq Nodes
      /\ Whole(top, live) /\ top = stack[1]
  BY <1>1, Innermost DEF Inv, HeapOK
<1>3. /\ UNCHANGED <<pending, deferred>> /\ pending \subseteq live
      /\ deferred \in 0..Threshold /\ static \in live \cup {Null}
  BY <1>1 DEF Inv, HeapOK, gc
<1>4. PICK n \in top.todo :
        LET rest == <<[top EXCEPT !.todo = top.todo \ {n}]>> \o below IN
        IF n \in destroyed
          THEN stack' = rest /\ UNCHANGED heap
          ELSE /\ UNCHANGED kind
               /\ IF RunsDestructor(n)
                    THEN /\ live' = live \cup {CopyOf(n)}
                         /\ destroyed' = Marked(n) \cup {CopyOf(n)}
                         /\ MoveToCopy(n)
                         /\ stack' = <<OnCopy(n)>> \o rest
                    ELSE /\ destroyed' = Marked(n)
                         /\ field' = [field EXCEPT ![n] = NoKeys]
                         /\ stack' = Dropping(Fields(n), Null) \o rest
                         /\ UNCHANGED <<live, ran>>
  BY DEF ForceDestroy
<1> DEFINE e == [top EXCEPT !.todo = top.todo \ {n}]
           rest == <<e>> \o below
           c == CopyOf(n)
<1>5. n \in live /\ n \in Nodes /\ c \in Nodes /\ c \notin Objects /\ Objects \subseteq Nodes
  <2>1. n \in Nodes /\ n \in live \cup {Null}
    BY <1>2, <1>4 DEF Whole, Mentions, Entries
  <2>2. QED
    BY <2>1, Numbers
<1>6. Whole(e, live) /\ e.lock = top.lock /\ e.who = top.who
  BY <1>1, <1>2 DEF Whole, Entries, Mentions
<1> HIDE DEF e
<1>7. Sound(rest, live)
  BY <1>1, <1>2, <1>6, Replaced DEF below
<1>8. \A m \in Nodes : Range(field[m]) \subseteq live \cup {Null}
  BY DEF Inv, HeapOK
<1>9. CASE n \in destroyed
  <2>1. stack' = rest /\ UNCHANGED heap
    BY <1>4, <1>9 DEF e
  <2>2. QED
    BY <1>1, <1>3, <1>7, <2>1, Same
<1>10. CASE n \notin destroyed /\ RunsDestructor(n)
  <2>1. n \in Objects
    BY <1>5, <1>10 DEF Inv, Fresh
  <2>2. Origin(n) = n /\ c # n
    BY <2>1, Numbers
  <2>3. /\ live' = live \cup {c}
        /\ destroyed' = destroyed \cup {n} \cup {c}
        /\ field' = [field EXCEPT ![c] = field[n], ![n] = NoKeys]
        /\ ran' = [ran EXCEPT ![n] = IF ran[n] < 2 THEN ran[n] + 1 ELSE 2]
        /\ kind' = kind
        /\ stack' = <<Frame("destruct", Receiving(c))>> \o rest
    BY <1>4, <1>10, <2>2 DEF MoveToCopy, Marked, OnCopy, e
  <2> HIDE DEF c, rest
  <2>4. Sound(rest, live')
    BY <1>7, <2>3, Grown
  <2>5. Sound(stack', live')
    BY <1>5, <2>3, <2>4, Destructs
  <2>6. /\ field' \in [Nodes -> Contents]
        /\ \A m \in Nodes : field'[m] = IF m = n THEN NoKeys ELSE IF m = c THEN field[n] ELSE field[m]
    BY <1>5, <2>2, <2>3, Nothing DEF Inv, HeapOK
  <2>7. \A m \in Nodes : Range(field'[m]) \subseteq live' \cup {Null}
    BY <1>5, <1>8, <2>3, <2>6, Nothing
  <2>8. \A m \in Nodes \ live' : field'[m] = NoKeys
    BY <1>5, <2>3, <2>6 DEF Inv, HeapOK
  <2>9. ran \in [Objects -> 0..2] /\ ran[n] = 0 /\ \A m \in Objects : ran[m] <= 1
    BY <1>5, <1>10, <2>1 DEF Inv, HeapOK, Fresh
  <2>10. /\ ran' \in [Objects -> 0..2]
         /\ \A m \in Objects : ran'[m] = IF m = n THEN 1 ELSE ran[m]
    BY <2>1, <2>3, <2>9
  <2>11. HeapOK'
    BY <1>1, <1>3, <1>5, <2>3, <2>6, <2>7, <2>8, <2>10 DEF Inv, HeapOK
  <2>12. Fresh'
    BY <1>5, <2>1, <2>3, <2>9, <2>10 DEF Inv, Fresh
  <2>13. QED
    BY <2>5, <2>11, <2>12 DEF Inv
<1>11. CASE n \notin destroyed /\ ~RunsDestructor(n)
  <2>1. /\ destroyed' = destroyed \cup {n}
        /\ field' = [field EXCEPT ![n] = NoKeys]
        /\ stack' = Dropping(Fields(n), Null) \o rest
        /\ UNCHANGED <<live, ran, kind>>
    BY <1>4, <1>11 DEF Marked, e
  <2> HIDE DEF rest
  <2>2. Within(Fields(n), live)
    BY <1>5, <1>8, FieldsWithin DEF Inv
  <2>3. Sound(stack', live')
    BY <1>2, <1>7, <2>1, <2>2, Dropped
  <2>4. /\ field' \in [Nodes -> Contents]
        /\ \A m \in Nodes : field'[m] = IF m = n THEN NoKeys ELSE field[m]
    BY <1>5, <2>1, Nothing DEF Inv, HeapOK
  <2>5. \A m \in Nodes : Range(field'[m]) \subseteq live' \cup {Null}
    BY <1>8, <2>1, <2>4, Nothing
  <2>6. \A m \in Nodes \ live' : field'[m] = NoKeys
    BY <2>1, <2>4 DEF Inv, HeapOK
  <2>7. HeapOK'
    BY <1>1, <1>3, <1>5, <2>1, <2>4, <2>5, <2>6 DEF Inv, HeapOK
  <2>8. Fresh'
    BY <2>1 DEF Inv, Fresh
  <2>9. QED
    BY <2>3, <2>7, <2>8 DEF Inv
<1>12. QED
  BY <1>9, <1>10, <1>11

\* ClearArray
LEMMA ClearArrayStep == ASSUME Inv, ClearArray PROVE Inv'
<1>1. stack # <<>> /\ UNCHANGED <<program, static, gc, threads>>
  BY DEF ClearArray, At
<1>2. /\ Sound(stack, live) /\ live \subseteq Nodes
      /\ Whole(top, live) /\ top = stack[1]
  BY <1>1, Innermost DEF Inv, HeapOK
<1>3. /\ UNCHANGED <<pending, deferred>> /\ pending \subseteq live
      /\ deferred \in 0..Threshold /\ static \in live \cup {Null}
  BY <1>1 DEF Inv, HeapOK, gc
<1>4. PICK n \in Uncleared :
        IF n \in Locked
          THEN GoTo("blocked") /\ UNCHANGED heap
          ELSE /\ field' = [field EXCEPT ![n] = NoKeys]
               /\ stack' = Dropping(Fields(n), n) \o stack
               /\ UNCHANGED <<live, kind, destroyed, ran>>
  BY DEF ClearArray
<1>5. n \in top.garbage /\ n \in live /\ n \in Nodes
  <2>1. n \in Nodes /\ n \in live \cup {Null} /\ n \in top.garbage
    BY <1>2, <1>4 DEF Uncleared, Whole, Mentions, Entries
  <2>2. QED
    BY <2>1, Numbers
<1>6. CASE n \in Locked
  <2>1. stack' = <<[top EXCEPT !.at = "blocked"]>> \o below /\ UNCHANGED heap
    BY <1>4, <1>6 DEF GoTo
  <2>2. Sound(stack', live)
    BY <1>1, <1>2, <2>1, Going
  <2>3. QED
    BY <1>1, <1>3, <2>1, <2>2, Same
<1>7. CASE n \notin Locked
  <2>1. /\ field' = [field EXCEPT ![n] = NoKeys]
        /\ stack' = Dropping(Fields(n), n) \o stack
        /\ UNCHANGED <<live, kind, destroyed, ran>>
    BY <1>4, <1>7
  <2>2. \A m \in Nodes : Range(field[m]) \subseteq live \cup {Null}
    BY DEF Inv, HeapOK
  <2>3. Within(Fields(n), live)
    BY <1>5, <2>2, FieldsWithin DEF Inv
  <2>4. Holds(stack[1], n)
    BY <1>2, <1>5 DEF Holds
  <2>5. Sound(stack', live')
    BY <1>1, <1>2, <1>5, <2>1, <2>3, <2>4, Dropped
  <2>6. /\ field' \in [Nodes -> Contents]
        /\ \A m \in Nodes : field'[m] = IF m = n THEN NoKeys ELSE field[m]
    BY <1>5, <2>1, Nothing DEF Inv, HeapOK
  <2>7. \A m \in Nodes : Range(field'[m]) \subseteq live' \cup {Null}
    BY <2>1, <2>2, <2>6, Nothing
  <2>8. \A m \in Nodes \ live' : field'[m] = NoKeys
    BY <2>1, <2>6 DEF Inv, HeapOK
  <2>9. HeapOK'
    BY <1>1, <1>3, <2>1, <2>6, <2>7, <2>8 DEF Inv, HeapOK
  <2>10. Fresh'
    BY <2>1 DEF Inv, Fresh
  <2>11. QED
    BY <2>5, <2>9, <2>10 DEF Inv
<1>8. QED
  BY <1>6, <1>7

-----------------------------------------------------------------------------
(* The steps of the interpreter.                                           *)

\* The running frame, its operand replaced by a reference to a live node.
LEMMA Operands ==
  ASSUME NEW L, L \subseteq Nodes, Sound(stack, L), stack # <<>>, NEW r, OneOf(r, L),
         top.at = "run"
  PROVE  /\ Sound(<<Operand(r)>> \o below, L)
         /\ Operand(r) \in Entries /\ <<Operand(r)>> \in Seq(Entries) /\ below \in Seq(Entries)
         /\ Operand(r).refs = top.refs /\ Operand(r).operand = r
<1>1. Whole(top, L) /\ top = stack[1] /\ Sound(below, L)
  BY Innermost
<1> DEFINE e == Operand(r)
<1>2. Whole(e, L) /\ e.lock = top.lock /\ e.who = top.who /\ e.refs = top.refs /\ e.operand = r
  BY <1>1 DEF Operand, OneOf, Whole, Entries, Mentions
<1> HIDE DEF e
<1>3. Sound(<<e>> \o below, L)
  BY <1>1, <1>2, Replaced DEF below
<1>4. e \in Entries /\ <<e>> \in Seq(Entries)
  BY <1>2 DEF Whole
<1>5. below \in Seq(Entries)
  BY <1>1 DEF Sound
<1>6. QED
  BY <1>2, <1>3, <1>4, <1>5 DEF e

\* What the frame can reach in one step is live (Variables).
LEMMA Reachable ==
  ASSUME Inv, stack # <<>>
  PROVE  /\ OneOf(top.operand, live) /\ OneOf(static, live) /\ OneOf(Null, live)
         /\ \A r \in Range(top.refs) : OneOf(r, live)
         /\ \A n \in live, s \in Slots : OneOf(Fields(n)[s], live)
         /\ \A r \in Variables : OneOf(r, live)
         /\ \A r : OneOf(r, live) /\ r # Null => r \in live
<1>1. Whole(top, live) /\ live \subseteq Nodes
  BY Innermost DEF Inv, HeapOK
<1>2. top.refs \in Seq(Nodes \cup {Null})
  BY <1>1 DEF Whole, Entries
<1>3. \A r \in Range(top.refs) : OneOf(r, live)
  BY <1>1, <1>2, RangeOfSeq DEF OneOf, Whole, Mentions
<1>4. OneOf(top.operand, live)
  BY <1>1 DEF OneOf, Whole, Mentions, Entries
<1>5. OneOf(static, live) /\ OneOf(Null, live)
  BY <1>1 DEF OneOf, Inv, HeapOK
<1>6. ASSUME NEW n \in live, NEW s \in Slots
      PROVE  OneOf(Fields(n)[s], live)
  <2>1. n \in Nodes /\ Range(field[n]) \subseteq live \cup {Null}
    BY <1>1 DEF Inv, HeapOK
  <2>2. s \in DOMAIN field[n] => field[n][s] \in Range(field[n])
    BY DEF Range
  <2>3. Fields(n)[s] \in live \cup {Null}
    BY <2>1, <2>2 DEF Fields
  <2>4. QED
    BY <1>1, <2>3 DEF OneOf
<1>7. QED
  BY <1>3, <1>4, <1>5, <1>6 DEF Variables, OneOf

\* note_and_collect on top of the frame it belongs to.
LEMMA Noted ==
  ASSUME Inv, NEW frame \in Entries, Sound(<<frame>> \o below, live), below \in Seq(Entries),
         NEW old, OneOf(old, live), NoteAndCollect(frame, old)
  PROVE  Sound(stack', live) /\ pending' \subseteq live
<1> DEFINE g == Glue("collect", <<old>>, Null)
<1>1. "collect" \in GlueStages
  BY DEF GlueStages
<1>2. Whole(g, live) /\ g.lock = Null /\ g.who = "glue"
  BY <1>1, GlueOfOne
<1>3. stack' = <<g, frame>> \o below /\ pending' = pending \cup ({old} \ {Null})
  BY DEF NoteAndCollect
<1> HIDE DEF g
<1>4. Rests(g, <<frame>> \o below)
  BY <1>2 DEF Rests
<1>5. Sound(<<g>> \o (<<frame>> \o below), live)
  BY <1>2, <1>4, Pushed
<1>6. stack' = <<g>> \o (<<frame>> \o below)
  BY <1>2, <1>3, Two DEF Whole
<1>7. pending' \subseteq live
  BY <1>3 DEF OneOf, Inv, HeapOK
<1>8. QED
  BY <1>5, <1>6, <1>7

\* Load, Store, SetStatic, Pop, Call, Leave
LEMMA FrameSteps ==
  ASSUME Inv, Load \/ Store \/ SetStatic \/ Pop \/ Call \/ Leave
  PROVE  Inv'
<1>1. stack # <<>> /\ top.at = "run" /\ UNCHANGED <<program, heap, deferred, threads>>
  BY DEF Load, Store, SetStatic, Pop, Call, Leave, Running, At, gc
<1>2. /\ Sound(stack, live) /\ live \subseteq Nodes /\ pending \subseteq live
      /\ deferred \in 0..Threshold /\ static \in live \cup {Null}
      /\ Whole(top, live) /\ Sound(below, live) /\ top = stack[1]
  BY <1>1, Innermost DEF Inv, HeapOK
<1>3. /\ OneOf(top.operand, live) /\ OneOf(static, live) /\ OneOf(Null, live)
      /\ \A r \in Range(top.refs) : OneOf(r, live)
      /\ \A r : OneOf(r, live) /\ r # Null => r \in live
  BY <1>1, Reachable
<1>4. /\ Sound(<<Operand(Null)>> \o below, live)
      /\ Operand(Null) \in Entries /\ below \in Seq(Entries)
  BY <1>1, <1>2, <1>3, Operands
<1>5. CASE Load
  <2>1. PICK r \in (Range(top.refs) \cup {static}) \ {Null} : stack' = <<Operand(r)>> \o below
    BY <1>5 DEF Load, Become
  <2>2. OneOf(r, live)
    BY <1>3, <2>1
  <2>3. Sound(stack', live)
    BY <1>1, <1>2, <2>1, <2>2, Operands
  <2>4. QED
    BY <1>1, <1>2, <1>5, <2>3, Same DEF Load, gc
<1>6. CASE Store
  <2>1. PICK l \in DOMAIN top.refs :
          NoteAndCollect([Operand(Null) EXCEPT !.refs[l] = top.operand], top.refs[l])
    BY <1>6 DEF Store
  <2> DEFINE refs == [top.refs EXCEPT ![l] = top.operand]
             frame == [Operand(Null) EXCEPT !.refs[l] = top.operand]
  <2>2. top.refs \in Seq(Nodes \cup {Null}) /\ DOMAIN top.refs = 1..Len(top.refs)
    BY <1>2, LenProperties DEF Whole, Entries
  <2>3. top.refs[l] \in Range(top.refs)
    BY <2>1 DEF Range
  <2>4. /\ refs \in Seq(Nodes \cup {Null}) /\ Len(refs) = Len(top.refs)
        /\ \A j \in 1..Len(top.refs) : refs[j] = IF j = l THEN top.operand ELSE top.refs[j]
    BY <1>3, <2>2, ExceptSeq DEF OneOf
  <2>5. DOMAIN refs = 1..Len(top.refs)
    BY <2>4, LenProperties
  <2>6. frame = [top EXCEPT !.operand = Null, !.refs = refs]
    BY <1>2 DEF Operand, Whole, Entries
  <2> HIDE DEF refs
  <2>7. Range(refs) \subseteq Range(top.refs) \cup {top.operand}
    BY <2>2, <2>4, <2>5 DEF Range
  <2> HIDE DEF frame
  <2>8. /\ frame \in Entries /\ frame.lock = top.lock /\ frame.who = top.who
        /\ frame.refs = refs /\ frame.operand = Null /\ frame.at = top.at
        /\ frame.garbage = top.garbage /\ frame.todo = top.todo
        /\ frame.survivors = top.survivors
    BY <1>2, <2>4, <2>6 DEF Whole, Entries
  <2>9. Whole(frame, live) /\ frame.lock = top.lock /\ frame.who = top.who
    BY <1>2, <1>3, <2>7, <2>8 DEF OneOf, Whole, Mentions
  <2>10. Sound(<<frame>> \o below, live) /\ frame \in Entries
    BY <1>1, <1>2, <2>9, Replaced DEF below, Whole
  <2>11. NoteAndCollect(frame, top.refs[l])
    BY <2>1 DEF frame
  <2>12. Sound(stack', live) /\ pending' \subseteq live
    BY <1>3, <1>4, <2>3, <2>10, <2>11, Noted
  <2>13. QED
    BY <1>1, <1>2, <1>6, <2>12, Same DEF Store
<1>7. CASE SetStatic
  <2>1. Sound(stack', live) /\ pending' \subseteq live
    BY <1>3, <1>4, <1>7, Noted DEF SetStatic
  <2>2. static' \in live \cup {Null}
    BY <1>3, <1>7 DEF SetStatic, OneOf
  <2>3. QED
    BY <1>1, <1>2, <2>1, <2>2, Same
<1>8. CASE Pop
  <2> DEFINE g == Glue("discard", <<top.operand>>, Null)
  <2>1. /\ stack' = <<g, Operand(Null)>> \o below
        /\ pending' = pending \cup {top.operand} /\ top.operand # Null /\ static' = static
    BY <1>8 DEF Pop
  <2>2. "discard" \in GlueStages
    BY DEF GlueStages
  <2>3. Whole(g, live) /\ g.lock = Null /\ g.who = "glue"
    BY <1>3, <2>2, GlueOfOne
  <2> HIDE DEF g
  <2>4. Rests(g, <<Operand(Null)>> \o below)
    BY <2>3 DEF Rests
  <2>5. Sound(<<g>> \o (<<Operand(Null)>> \o below), live)
    BY <1>4, <2>3, <2>4, Pushed
  <2>6. Sound(stack', live)
    BY <1>4, <2>1, <2>3, <2>5, Two DEF Whole
  <2>7. QED
    BY <1>1, <1>2, <1>3, <2>1, <2>6, Same
<1>9. CASE Call
  <2> DEFINE e == Frame("call", Receiving(top.operand))
  <2>1. stack' = <<e, Operand(Null)>> \o below /\ UNCHANGED <<static, pending>>
    BY <1>9 DEF Call, gc
  <2>2. Within(Receiving(top.operand), live)
    BY <1>3, Refs DEF Within, OneOf
  <2>3. "call" \in FrameKinds
    BY DEF FrameKinds
  <2>4. Whole(e, live) /\ e.lock = Null
    BY <2>2, <2>3, FrameWhole
  <2> HIDE DEF e
  <2>5. <<Operand(Null)>> \o below # <<>>
    BY <1>4, ConcatEqualIffEmpty
  <2>6. Rests(e, <<Operand(Null)>> \o below)
    BY <2>4, <2>5 DEF Rests
  <2>7. Sound(<<e>> \o (<<Operand(Null)>> \o below), live)
    BY <1>4, <2>4, <2>6, Pushed
  <2>8. Sound(stack', live)
    BY <1>4, <2>1, <2>4, <2>7, Two DEF Whole
  <2>9. QED
    BY <1>1, <1>2, <2>1, <2>8, Same
<1>10. CASE Leave
  <2>1. PICK thrown \in BOOLEAN :
          stack' = <<[top EXCEPT !.at = "collect", !.thrown = thrown]>> \o below
    BY <1>10 DEF Leave, Become
  <2> DEFINE e == [top EXCEPT !.at = "collect", !.thrown = thrown]
  <2>2. Whole(e, live) /\ e.lock = top.lock /\ e.who = top.who
    BY <1>2 DEF Whole, Entries, Mentions
  <2> HIDE DEF e
  <2>3. Sound(<<e>> \o below, live)
    BY <1>1, <1>2, <2>2, Replaced DEF below
  <2>4. Sound(stack', live)
    BY <2>1, <2>3 DEF e
  <2>5. pending' \subseteq live /\ static' = static
    BY <1>2, <1>3, <1>10 DEF Leave
  <2>6. QED
    BY <1>1, <1>2, <2>4, <2>5, Same
<1>11. QED
  BY <1>5, <1>6, <1>7, <1>8, <1>9, <1>10

\* GetField
LEMMA GetFieldStep == ASSUME Inv, GetField PROVE Inv'
<1>1. /\ stack # <<>> /\ top.at = "run" /\ top.operand # Null
      /\ UNCHANGED <<program, heap, static, pending, deferred, threads>>
  BY DEF GetField, Running, At, gc
<1>2. /\ Sound(stack, live) /\ live \subseteq Nodes /\ pending \subseteq live
      /\ deferred \in 0..Threshold /\ static \in live \cup {Null}
  BY DEF Inv, HeapOK
<1>3. OneOf(top.operand, live) /\ top.operand \in live
  BY <1>1, Reachable
<1>4. PICK s \in Slots :
        IF top.operand \in Locked
          THEN GoTo("blocked")
          ELSE stack' = Dropping(<<top.operand>>, Null)
                        \o <<Operand(Fields(top.operand)[s])>> \o below
  BY DEF GetField
<1>5. CASE top.operand \in Locked
  <2>1. Sound(stack', live)
    BY <1>1, <1>2, <1>4, <1>5, Going DEF GoTo
  <2>2. QED
    BY <1>1, <1>2, <2>1, Same
<1>6. CASE top.operand \notin Locked
  <2> DEFINE r == Fields(top.operand)[s]
             a == Dropping(<<top.operand>>, Null)
             b == <<Operand(r)>>
  <2>1. stack' = (a \o b) \o below
    BY <1>4, <1>6
  <2>2. OneOf(r, live)
    BY <1>1, <1>3, Reachable
  <2>3. Sound(b \o below, live) /\ b \in Seq(Entries) /\ below \in Seq(Entries)
    BY <1>1, <1>2, <2>2, Operands
  <2>4. Within(<<top.operand>>, live)
    <3>1. "drop" \in GlueStages
      BY DEF GlueStages
    <3>2. QED
      BY <1>3, <3>1, GlueOfOne
  <2> HIDE DEF b, r
  <2>5. Sound(a \o (b \o below), live) /\ a \in Seq(Entries)
    BY <1>2, <2>3, <2>4, Dropped
  <2> HIDE DEF a
  <2>6. (a \o b) \o below = a \o (b \o below)
    BY <2>3, <2>5, ConcatAssociative
  <2>7. Sound(stack', live)
    BY <2>1, <2>5, <2>6
  <2>8. QED
    BY <1>1, <1>2, <2>7, Same
<1>7. QED
  BY <1>5, <1>6

\* New
LEMMA NewStep == ASSUME Inv, NEW k \in program.kinds, New(k) PROVE Inv'
<1>1. /\ stack # <<>> /\ top.at = "run"
      /\ UNCHANGED <<program, destroyed, static, pending, deferred, threads>>
  BY DEF New, Running, At, gc
<1>2. Sound(stack, live) /\ live \subseteq Nodes
  BY DEF Inv, HeapOK
<1>3. k \in AllKinds /\ program.objects \in 1..MaxObjects
  BY CollectorAssumption DEF ProgramType, Inv, HeapOK
<1>4. PICK n \in 1..program.objects :
        /\ {n, CopyOf(n)} \cap live = {}
        /\ live' = live \cup {n}
        /\ kind' = [kind EXCEPT ![n] = k]
        /\ field' = [field EXCEPT ![n] = [s \in Slots |-> Null]]
        /\ ran' = [ran EXCEPT ![n] = 0]
        /\ stack' = (IF k \in {"class", "plain"} THEN <<Frame("construct", Receiving(n))>>
                     ELSE <<>>) \o <<Operand(n)>> \o below
  BY DEF New
<1>5. n \in Objects /\ n \in Nodes /\ n \notin live
  BY <1>3, <1>4, Numbers DEF Objects
<1> DEFINE a == IF k \in {"class", "plain"} THEN <<Frame("construct", Receiving(n))>> ELSE <<>>
           b == <<Operand(n)>>
           blank == [s \in Slots |-> Null]
<1>6. Sound(stack', live')
  <2>1. Sound(stack, live') /\ live' \subseteq Nodes /\ OneOf(n, live')
    BY <1>2, <1>4, <1>5, Grown DEF OneOf
  <2>2. Sound(b \o below, live') /\ b \in Seq(Entries) /\ below \in Seq(Entries)
    BY <1>1, <2>1, Operands
  <2> HIDE DEF b
  <2>3. Sound(a \o (b \o below), live') /\ a \in Seq(Entries)
    <3>1. CASE k \in {"class", "plain"}
      <4> DEFINE e == Frame("construct", Receiving(n))
      <4>1. Within(Receiving(n), live')
        BY <2>1, Refs DEF Within, OneOf
      <4>2. "construct" \in FrameKinds
        BY DEF FrameKinds
      <4>3. Whole(e, live') /\ e.lock = Null /\ e.who = "construct"
        BY <4>1, <4>2, FrameWhole
      <4> HIDE DEF e
      <4>4. Rests(e, b \o below)
        BY <4>3 DEF Rests
      <4>5. Sound(<<e>> \o (b \o below), live') /\ <<e>> \in Seq(Entries)
        BY <2>2, <4>3, <4>4, Pushed DEF Whole
      <4>6. a = <<e>>
        BY <3>1 DEF e
      <4>7. QED
        BY <4>5, <4>6
    <3>2. CASE k \notin {"class", "plain"}
      <4>1. a = <<>> /\ <<>> \in Seq(Entries)
        BY <3>2, EmptySeq
      <4>2. <<>> \o (b \o below) = b \o below
        BY <2>2, ConcatEmptySeq DEF Sound
      <4>3. QED
        BY <2>2, <4>1, <4>2
    <3>3. QED
      BY <3>1, <3>2
  <2>4. stack' = (a \o b) \o below
    BY <1>4 DEF b
  <2> HIDE DEF a
  <2>5. (a \o b) \o below = a \o (b \o below)
    BY <2>2, <2>3, ConcatAssociative
  <2>6. QED
    BY <2>3, <2>4, <2>5
<1>7. blank \in Contents /\ Range(blank) \subseteq {Null}
  <2>1. blank \in [Slots -> Nodes \cup {Null}]
    OBVIOUS
  <2>2. QED
    BY <2>1 DEF Contents, Range
<1> HIDE DEF blank
<1>8. /\ field' \in [Nodes -> Contents]
      /\ \A m \in Nodes : field'[m] = IF m = n THEN blank ELSE field[m]
  BY <1>4, <1>5, <1>7 DEF Inv, HeapOK, blank
<1>9. \A m \in Nodes : Range(field'[m]) \subseteq live' \cup {Null}
  BY <1>4, <1>7, <1>8 DEF Inv, HeapOK
<1>10. \A m \in Nodes \ live' : field'[m] = NoKeys
  BY <1>4, <1>8 DEF Inv, HeapOK
<1>11. kind' \in [Objects -> AllKinds] /\ ran' \in [Objects -> 0..2]
  BY <1>3, <1>4, <1>5 DEF Inv, HeapOK
<1>12. HeapOK'
  BY <1>1, <1>2, <1>4, <1>5, <1>8, <1>9, <1>10, <1>11 DEF Inv, HeapOK
<1>13. Fresh'
  <2>1. ran \in [Objects -> 0..2] /\ \A m \in Objects : ran[m] <= 1
    BY DEF Inv, HeapOK, Fresh
  <2>2. \A m \in Objects : ran'[m] = IF m = n THEN 0 ELSE ran[m]
    BY <1>4, <1>5, <2>1
  <2>3. \A m \in Objects : m \in live \ destroyed => ran[m] = 0
    BY DEF Inv, Fresh
  <2>4. live \ Objects \subseteq destroyed
    BY DEF Inv, Fresh
  <2>5. live' = live \cup {n} /\ destroyed' = destroyed
    BY <1>1, <1>4
  <2>6. live' \ Objects \subseteq destroyed'
    BY <1>5, <2>4, <2>5
  <2>7. \A m \in Objects : m \in live' \ destroyed' => ran'[m] = 0
    BY <2>2, <2>3, <2>5
  <2>8. \A m \in Objects : ran'[m] <= 1
    BY <2>1, <2>2
  <2>9. QED
    BY <2>6, <2>7, <2>8 DEF Fresh
<1>14. QED
  BY <1>6, <1>12, <1>13 DEF Inv

\* SetField: a field of a live target is overwritten with a live value.
LEMMA PutStep ==
  ASSUME Inv, Running, NEW target \in live, NEW s \in Slots, NEW value, OneOf(value, live),
         Put(target, s, value)
  PROVE  Inv'
<1>1. /\ stack # <<>> /\ top.at = "run"
      /\ UNCHANGED <<program, live, kind, destroyed, ran, static, pending, deferred, threads>>
  BY DEF Put, Running, At, gc
<1>2. /\ Sound(stack, live) /\ live \subseteq Nodes /\ pending \subseteq live
      /\ deferred \in 0..Threshold /\ static \in live \cup {Null} /\ target \in Nodes
  BY DEF Inv, HeapOK
<1>3. CASE target \in Locked
  <2>1. Sound(stack', live) /\ UNCHANGED heap
    BY <1>1, <1>2, <1>3, Going DEF Put, GoTo, heap
  <2>2. QED
    BY <1>1, <1>2, <2>1, Same
<1>4. CASE target \notin Locked
  <2> DEFINE old == Fields(target)[s]
             replaced == <<old>>
             receiver == Dropping(<<target>>, Null)
             b == <<Operand(Null)>>
             note == <<Glue("note", replaced, Null)>>
             under == Dropping(replaced, target)
             stored == [x \in DOMAIN field[target] \cup {s} |-> IF x = s THEN value ELSE field[target][x]]
  <2>1. /\ field' = [field EXCEPT ![target] = stored]
        /\ stack' = (CASE DropsUnderLock(target) -> under \o receiver
                       [] ~DropsUnderLock(target) /\ s \in DOMAIN field[target] -> receiver \o note
                       [] OTHER -> receiver) \o b \o below
    BY <1>4 DEF Put
  <2>2. /\ OneOf(old, live) /\ OneOf(target, live) /\ OneOf(Null, live) /\ target # Null
    BY <1>1, <1>2, Reachable, Numbers DEF OneOf
  <2>3. "drop" \in GlueStages /\ "note" \in GlueStages
    BY DEF GlueStages
  <2>4. Sound(b \o below, live) /\ b \in Seq(Entries) /\ below \in Seq(Entries)
    BY <1>1, <1>2, <2>2, Operands
  <2>5. Within(replaced, live) /\ Within(<<target>>, live)
    BY <2>2, <2>3, GlueOfOne
  <2>6. Whole(Glue("note", replaced, Null), live) /\ Glue("note", replaced, Null).lock = Null
        /\ Glue("note", replaced, Null).who = "glue"
    BY <2>2, <2>3, GlueOfOne
  <2>7. Sound(note \o (b \o below), live) /\ note \in Seq(Entries)
    <3> DEFINE e == Glue("note", replaced, Null)
    <3> HIDE DEF e
    <3>1. Whole(e, live) /\ Rests(e, b \o below)
      BY <2>6 DEF e, Rests
    <3> HIDE DEF b
    <3>2. Sound(<<e>> \o (b \o below), live) /\ <<e>> \in Seq(Entries)
      BY <2>4, <3>1, Pushed DEF Whole
    <3>3. QED
      BY <3>2 DEF e
  <2> HIDE DEF b, note, replaced, old
  <2>8. /\ Sound(receiver \o (b \o below), live) /\ receiver \in Seq(Entries)
        /\ Sound(receiver \o (note \o (b \o below)), live)
    BY <1>2, <2>4, <2>5, <2>7, Dropped
  <2>9. receiver \o (b \o below) # <<>> /\ Holds((receiver \o (b \o below))[1], target)
    <3> DEFINE g == Glue("drop", <<target>>, Null)
    <3>1. /\ Whole(g, live) /\ g.lock = Null /\ g.who = "glue" /\ g.refs = <<target>>
      BY <2>2, <2>3, GlueOfOne DEF Glue, Frame
    <3>2. Range(<<target>>) = {target}
      BY <1>2, Refs
    <3>3. receiver = <<g>> /\ Holds(g, target)
      BY <2>2, <3>1, <3>2 DEF Dropping, Empty, Holds
    <3> HIDE DEF g
    <3>4. Rests(g, b \o below)
      BY <3>1 DEF Rests
    <3>5. <<g>> \o (b \o below) # <<>> /\ (<<g>> \o (b \o below))[1] = g
      BY <2>4, <3>1, <3>4, Pushed
    <3>6. QED
      BY <3>3, <3>5
  <2> HIDE DEF receiver
  <2>10. Sound(under \o (receiver \o (b \o below)), live) /\ under \in Seq(Entries)
    BY <1>2, <2>5, <2>8, <2>9, Dropped
  <2> HIDE DEF under
  <2>11. Sound(stack', live)
    <3> DEFINE u == b \o below
    <3>6. /\ under \in Seq(Entries) /\ receiver \in Seq(Entries) /\ note \in Seq(Entries)
          /\ b \in Seq(Entries) /\ below \in Seq(Entries) /\ u \in Seq(Entries)
      BY <2>4, <2>7, <2>8, <2>10 DEF Sound
    <3>1. CASE DropsUnderLock(target)
      <4> DEFINE p == under \o receiver
      <4>1. stack' = (p \o b) \o below
        BY <2>1, <3>1
      <4>2. p \in Seq(Entries)
        BY <3>6, ConcatProperties
      <4>3. p \o u = under \o (receiver \o u)
        <5> HIDE DEF u
        <5>1. under \in Seq(Entries) /\ receiver \in Seq(Entries) /\ u \in Seq(Entries)
          BY <3>6
        <5>2. QED
          BY <5>1, ConcatAssociative
      <4> HIDE DEF p
      <4>4. (p \o b) \o below = p \o u
        BY <3>6, <4>2, ConcatAssociative
      <4> HIDE DEF u
      <4>5. stack' = under \o (receiver \o u)
        BY <4>1, <4>3, <4>4, Zenon
      <4>6. QED
        BY <2>10, <4>5 DEF u
    <3>2. CASE ~DropsUnderLock(target) /\ s \in DOMAIN field[target]
      <4> DEFINE p == receiver \o note
      <4>1. stack' = (p \o b) \o below
        BY <2>1, <3>2
      <4>2. p \in Seq(Entries)
        BY <3>6, ConcatProperties
      <4>3. p \o u = receiver \o (note \o u)
        <5> HIDE DEF u
        <5>1. receiver \in Seq(Entries) /\ note \in Seq(Entries) /\ u \in Seq(Entries)
          BY <3>6
        <5>2. QED
          BY <5>1, ConcatAssociative
      <4> HIDE DEF p
      <4>4. (p \o b) \o below = p \o u
        BY <3>6, <4>2, ConcatAssociative
      <4> HIDE DEF u
      <4>5. stack' = receiver \o (note \o u)
        BY <4>1, <4>3, <4>4, Zenon
      <4>6. QED
        BY <2>8, <4>5 DEF u
    <3>3. CASE ~DropsUnderLock(target) /\ s \notin DOMAIN field[target]
      <4>1. stack' = (receiver \o b) \o below
        BY <2>1, <3>3
      <4>2. (receiver \o b) \o below = receiver \o (b \o below)
        BY <2>4, <2>8, ConcatAssociative
      <4>3. QED
        BY <2>8, <4>1, <4>2
    <3>4. QED
      BY <3>1, <3>2, <3>3
  <2>12. field[target] \in Contents /\ Range(field[target]) \subseteq live \cup {Null}
    BY <1>2 DEF Inv, HeapOK
  <2>13. stored \in Contents /\ Range(stored) \subseteq live \cup {Null}
    <3>1. DOMAIN field[target] \subseteq Slots
      BY <2>12 DEF Contents
    <3>2. \A x \in DOMAIN field[target] : field[target][x] \in live \cup {Null}
      BY <2>12 DEF Range
    <3>3. value \in live \cup {Null}
      BY DEF OneOf
    <3>4. stored \in [DOMAIN field[target] \cup {s} -> live \cup {Null}]
      BY <3>2, <3>3
    <3> HIDE DEF stored
    <3>5. stored \in [DOMAIN field[target] \cup {s} -> Nodes \cup {Null}]
      BY <1>2, <3>4
    <3>6. DOMAIN field[target] \cup {s} \in SUBSET Slots
      BY <3>1
    <3>7. QED
      BY <3>4, <3>5, <3>6 DEF Contents, Range
  <2> HIDE DEF stored
  <2>14. /\ field' \in [Nodes -> Contents]
         /\ \A m \in Nodes : field'[m] = IF m = target THEN stored ELSE field[m]
    BY <1>2, <2>1, <2>13 DEF Inv, HeapOK
  <2>15. HeapOK'
    BY <1>1, <2>13, <2>14 DEF Inv, HeapOK
  <2>16. Fresh'
    BY <1>1 DEF Inv, Fresh
  <2>17. QED
    BY <1>1, <2>11, <2>15, <2>16 DEF Inv
<1>5. QED
  BY <1>3, <1>4

LEMMA SetFieldStep == ASSUME Inv, SetField PROVE Inv'
<1>1. Running /\ stack # <<>>
  BY DEF SetField, Running, At
<1>2. /\ OneOf(top.operand, live) /\ OneOf(Null, live)
      /\ \A r \in Variables : OneOf(r, live)
      /\ \A r : OneOf(r, live) /\ r # Null => r \in live
  BY <1>1, Reachable
<1>3. PICK s \in Slots :
        \/ \E target \in Variables \ {Null} : Put(target, s, top.operand)
        \/ top.operand # Null /\ \E value \in Variables \cup {Null} : Put(top.operand, s, value)
  BY DEF SetField
<1>4. CASE \E target \in Variables \ {Null} : Put(target, s, top.operand)
  BY <1>1, <1>2, <1>4, PutStep
<1>5. CASE top.operand # Null /\ \E value \in Variables \cup {Null} : Put(top.operand, s, value)
  <2>1. PICK value \in Variables \cup {Null} : Put(top.operand, s, value)
    BY <1>5
  <2>2. OneOf(value, live) /\ top.operand \in live
    BY <1>2, <1>5, <2>1
  <2>3. QED
    BY <1>1, <2>1, <2>2, PutStep
<1>6. QED
  BY <1>3, <1>4, <1>5

-----------------------------------------------------------------------------
(* The theorems.                                                           *)

LEMMA InvInit == ASSUME Init PROVE Inv
<1>1. program \in ProgramType /\ program.boot \in FrameKinds /\ program.boot # "call"
  BY CollectorAssumption DEF Init, ProgramType, FrameKinds
<1>2. Within(NoLocals, live)
  BY Refs DEF Within
<1> DEFINE e == Frame(program.boot, NoLocals)
<1>3. Whole(e, live) /\ e.lock = Null /\ e.who # "call"
  BY <1>1, <1>2, FrameWhole
<1>4. stack = <<e>>
  BY DEF Init
<1> HIDE DEF e
<1>5. Sound(stack, live)
  BY <1>3, <1>4, Alone
<1>6. field \in [Nodes -> Contents] /\ \A n \in Nodes : field[n] = NoKeys
  BY Nothing DEF Init
<1>7. kind \in [Objects -> AllKinds] /\ ran \in [Objects -> 0..2] /\ \A n \in Objects : ran[n] = 0
  BY DEF Init, AllKinds
<1>8. 0 \in 0..Threshold
  BY Numbers
<1>9. HeapOK
  BY <1>6, <1>7, <1>8, Nothing DEF Init, HeapOK
<1>10. Fresh
  BY <1>7 DEF Init, Fresh
<1>11. QED
  BY <1>5, <1>9, <1>10 DEF Inv

LEMMA InvNext == ASSUME Inv, [Next]_vars PROVE Inv'
<1>1. CASE Release
  BY <1>1, ReleaseStep
<1>2. CASE Unlock \/ Note \/ Discarded \/ DropGarbage \/ EndPass
  BY <1>2, StageSteps
<1>3. CASE RunPendingCollection
  BY <1>3, CollectionStep
<1>4. CASE ForceDestroy
  BY <1>4, ForceDestroyStep
<1>5. CASE ClearArray
  BY <1>5, ClearArrayStep
<1>6. CASE Free
  BY <1>6, FreeStep
<1>7. CASE \E k \in program.kinds : New(k)
  BY <1>7, NewStep
<1>8. CASE Load \/ Store \/ SetStatic \/ Pop \/ Call \/ Leave
  BY <1>8, FrameSteps
<1>9. CASE GetField
  BY <1>9, GetFieldStep
<1>10. CASE SetField
  BY <1>10, SetFieldStep
<1>11. CASE Thread
  BY <1>11 DEF Thread, Inv, HeapOK, Fresh, heap, gc
<1>12. CASE Over \/ UNCHANGED vars
  BY <1>12 DEF Over, vars, Inv, HeapOK, Fresh, heap, gc
<1>13. QED
  BY <1>1, <1>2, <1>3, <1>4, <1>5, <1>6, <1>7, <1>8, <1>9, <1>10, <1>11, <1>12 DEF Next

\* Every reachable state satisfies the inductive invariant.
LEMMA Invariant == Spec => []Inv
<1>1. Init => Inv
  BY InvInit
<1>2. Inv /\ [Next]_vars => Inv'
  BY InvNext
<1>3. QED
  BY <1>1, <1>2, PTL DEF Spec

\* TypeOK: no frame, slot, buffer or pass ever holds a reference to a node that
\* has been freed (Object::drop, collect_cycles), however destructors, passes
\* and drops nest.
THEOREM NothingDangles == Spec => []TypeOK
<1>1. Inv => TypeOK
  <2>1. ASSUME Inv PROVE \A i \in DOMAIN stack : /\ Mentions(stack[i]) \subseteq live \cup {Null}
                                                /\ stack[i].todo \subseteq stack[i].garbage
    BY <2>1, LenProperties DEF Inv, Sound, Whole
  <2>2. ASSUME Inv PROVE stack \in Seq(Entries)
    BY <2>2 DEF Inv, Sound
  <2>3. QED
    BY <2>1, <2>2 DEF Inv, HeapOK, TypeOK
<1>2. QED
  BY <1>1, Invariant, PTL

\* DestructOnce: no object's destructor runs twice, whether the object dies by
\* its reference count, in a pass, or as the copy its destructor ran on.
THEOREM DestructorsRunOnce == Spec => []DestructOnce
<1>1. Inv => DestructOnce
  BY DEF Inv, Fresh, DestructOnce
<1>2. QED
  BY <1>1, Invariant, PTL


===============================================================================
