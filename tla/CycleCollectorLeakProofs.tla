----------------------- MODULE CycleCollectorLeakProofs -----------------------
(***************************************************************************)
(* No garbage is forgotten, for any programs and any bounds: what counting *)
(* leaves alive is reached from a static, the buffer or the stack; the     *)
(* final sweep reclaims the rest; and no object with a destructor is freed *)
(* without it, but on a full call stack.                                   *)
(***************************************************************************)
EXTENDS CycleCollectorReachProofs

-----------------------------------------------------------------------------
(* The invariant.                                                          *)

\* Reference counting: a node is alive because something refers to it.
Counted ==
  \A n \in live : static = n \/ n \in HeldOn(stack) \/ \E m \in live : n \in Range(field[m])

\* No set of nodes of L outside A in which everything is referred to.
AcyclicIn(L, F, A) ==
  \A U \in SUBSET (L \ A) : U # {} => \E u \in U : \A m \in U : u \notin Range(F[m])

\* A cycle goes through an anchor: a candidate, or what a frame or a pass keeps.
Acyclic == AcyclicIn(live, field, Anchors)

\* What a destructor has run for has nothing left.
Gutted == \A n \in destroyed \cap Objects : Range(field[n]) \subseteq {Null}

\* No copy is stored, so that no pass finds one to be garbage.
CopiesApart == /\ \A m \in live : Range(field[m]) \subseteq Objects \cup {Null}
               /\ GarbageOn(stack) \subseteq Objects

Known == Quiet => Acyclic /\ Gutted /\ CopiesApart /\ Passes(stack)

\* With it, everything is reached from the anchors and from what is held.
LEMMA AllReached ==
  ASSUME Inv, Counted, Acyclic,
         NEW S, Anchors \cup HeldOn(stack) \subseteq S \cup {Null}, S \subseteq live \cup {Null}
  PROVE  live \subseteq Closure(S)
<1> DEFINE C == Closure(S)
           U == live \ C
<1>1. C = Reach(live, field, S)
  BY Reaches
<1>2. \A m \in live : \A s \in DOMAIN field[m] : field[m][s] \in live \cup {Null}
  BY DEF Inv, HeapOK, Range
<1>3. Null \notin live
  BY Numbers DEF Inv, HeapOK
<1>4. S \ {Null} \subseteq live
  OBVIOUS
<1>5. S \ {Null} \subseteq C /\ ClosedIn(field, C)
  BY <1>1, <1>2, <1>4, ReachClosed
<1> HIDE DEF C
<1>6. U \in SUBSET (live \ Anchors)
  BY <1>3, <1>5
<1>7. SUFFICES ASSUME U # {} PROVE FALSE
  BY DEF C
<1>8. PICK u \in U : \A m \in U : u \notin Range(field[m])
  BY <1>6, <1>7 DEF Acyclic, AcyclicIn
<1>9. u \in live /\ u # Null /\ u \notin C
  BY <1>3
<1>10. u # static /\ u \notin HeldOn(stack)
  BY <1>5, <1>9 DEF Anchors
<1>11. PICK m \in live : u \in Range(field[m])
  BY <1>9, <1>10 DEF Counted
<1>12. m \in C
  BY <1>8, <1>11
<1>13. QED
  BY <1>5, <1>9, <1>11, <1>12 DEF ClosedIn, Range

-----------------------------------------------------------------------------
(* What a step leaves of it.                                               *)

\* Where there are fewer nodes and edges there are fewer cycles.
LEMMA FewerCycles ==
  ASSUME NEW L, NEW F, NEW A, AcyclicIn(L, F, A), NEW M, NEW H, NEW B,
         M \ B \subseteq L \ A,
         \A m, u \in M \ B : u \in Range(H[m]) => u \in Range(F[m])
  PROVE  AcyclicIn(M, H, B)
<1> SUFFICES ASSUME NEW U \in SUBSET (M \ B), U # {}
             PROVE  \E u \in U : \A m \in U : u \notin Range(H[m])
  BY DEF AcyclicIn
<1>1. PICK u \in U : \A m \in U : u \notin Range(F[m])
  BY DEF AcyclicIn
<1>2. QED
  BY <1>1

\* Only n is new, and it refers to nothing.
Adds(n, L, F, A, M, H, B) ==
  /\ M \ B \subseteq (L \ A) \cup {n}
  /\ \A m, u \in (M \ B) \ {n} : u \in Range(H[m]) => u \in Range(F[m])
  /\ \A u \in M \ B : u \notin Range(H[n])

\* That makes no cycle either.
LEMMA OneMoreNode ==
  ASSUME NEW n, NEW L, NEW F, NEW A, AcyclicIn(L, F, A), NEW M, NEW H, NEW B,
         Adds(n, L, F, A, M, H, B)
  PROVE  AcyclicIn(M, H, B)
<1> SUFFICES ASSUME NEW U \in SUBSET (M \ B), U # {}
             PROVE  \E u \in U : \A m \in U : u \notin Range(H[m])
  BY DEF AcyclicIn
<1> USE DEF Adds
<1>1. CASE U = {n}
  BY <1>1
<1>2. CASE U # {n}
  <2> DEFINE V == U \ {n}
  <2>1. V \in SUBSET (L \ A) /\ V # {}
    BY <1>2
  <2>2. PICK u \in V : \A m \in V : u \notin Range(F[m])
    BY <2>1 DEF AcyclicIn
  <2>3. \A m \in V : u \notin Range(H[m])
    BY <2>2
  <2>4. u \notin Range(H[n])
    OBVIOUS
  <2>5. QED
    BY <2>3, <2>4
<1>3. QED
  BY <1>1, <1>2

\* An entry without garbage has nothing to show for it.
LEMMA IdlePasses ==
  ASSUME stack' \in Seq(Entries), NEW S,
         \A e \in In(stack') : e.garbage = {} \/ e \in S,
         \A e \in S : PassOf(e)'
  PROVE  Passes(stack)'
<1> SUFFICES ASSUME NEW i \in 1..Len(stack') PROVE PassOf(stack[i])'
  BY DEF Passes
<1>1. stack'[i] \in In(stack')
  BY DEF In
<1>2. CASE stack'[i].garbage = {}
  BY <1>2 DEF PassOf
<1>3. CASE stack'[i] \in S
  <2> DEFINE e == stack'[i]
  <2>1. PICK d \in S : d = e
    BY <1>3
  <2>2. PassOf(d)'
    OBVIOUS
  <2>3. QED
    BY <2>1, <2>2 DEF PassOf
<1>4. QED
  BY <1>1, <1>2, <1>3

\* What is left of an entry's pass when the heap is what it was.
LEMMA SamePasses ==
  ASSUME UNCHANGED heap, Passes(stack')
  PROVE  Passes(stack)'
BY DEF Passes, PassOf, IsObject, Kind, heap

\* Quiet is a matter of the program.
LEMMA StillQuiet == ASSUME program' = program PROVE Quiet' = Quiet
BY DEF Quiet, NoClass

LEMMA SteadyKnown ==
  ASSUME Inv, Counted, Known, Steady
  PROVE  Counted' /\ Known'
<1>1. /\ UNCHANGED <<program, heap>> /\ live' = live /\ field' = field /\ destroyed' = destroyed
      /\ GarbageOn(stack') \subseteq GarbageOn(stack)
      /\ {static} \cup HeldOn(stack) \subseteq {static'} \cup HeldOn(stack') \cup {Null}
      /\ Anchors \subseteq Anchors' \cup {Null}
      /\ Passes(stack) => Passes(stack')
  BY DEF Steady, heap, Anchors
<1>2. Null \notin live
  BY Numbers DEF Inv, HeapOK
<1>3. Counted'
  BY <1>1, <1>2 DEF Counted
<1>4. ASSUME Quiet PROVE Acyclic' /\ Gutted' /\ CopiesApart' /\ Passes(stack)'
  <2>1. Acyclic /\ Gutted /\ CopiesApart /\ Passes(stack)
    BY <1>4 DEF Known
  <2>2. Acyclic'
    <3> DEFINE A == Anchors
               B == Anchors'
    <3>1. live' \ B \subseteq live \ A
      BY <1>1, <1>2
    <3>2. AcyclicIn(live, field, A)
      BY <2>1 DEF Acyclic
    <3> HIDE DEF A, B
    <3>3. AcyclicIn(live', field', B)
      BY <1>1, <3>1, <3>2, FewerCycles
    <3>4. QED
      BY <3>3 DEF Acyclic, AcyclicIn, B
  <2>3. Gutted' /\ CopiesApart'
    BY <1>1, <2>1 DEF Gutted, CopiesApart
  <2>4. QED
    BY <1>1, <2>1, <2>2, <2>3, SamePasses
<1>5. QED
  BY <1>1, <1>3, <1>4, StillQuiet DEF Known

LEMMA ReclaimsKnown ==
  ASSUME Inv, Counted, Known, NEW G, Reclaims(G)
  PROVE  Counted' /\ Known'
<1>1. /\ UNCHANGED <<program, heap>> /\ live' = live /\ field' = field /\ destroyed' = destroyed
      /\ static' = static /\ pending' = {}
      /\ G = Closure(pending) \ LiveIn(Closure(pending))
      /\ HeldOn(stack') \cup {Null} = HeldOn(stack) \cup G \cup {Null}
      /\ KeptOn(stack) \cup Closure(pending) \subseteq KeptOn(stack')
      /\ GarbageOn(stack') = GarbageOn(stack) \cup G
      /\ Passes(stack) => Passes(stack')
  BY DEF Reclaims, heap
<1>2. Null \notin live
  BY Numbers DEF Inv, HeapOK
<1>3. Counted'
  BY <1>1, <1>2 DEF Counted
<1>4. ASSUME Quiet PROVE Acyclic' /\ Gutted' /\ CopiesApart' /\ Passes(stack)'
  <2>1. Acyclic /\ Gutted /\ CopiesApart /\ Passes(stack)
    BY <1>4 DEF Known
  <2>2. pending \subseteq Closure(pending)
    BY <1>2 DEF Closure, Inv, HeapOK
  <2>3. Acyclic'
    <3> DEFINE A == Anchors
               B == Anchors'
    <3>1. live' \ B \subseteq live \ A
      BY <1>1, <1>2, <2>2 DEF Anchors
    <3>2. AcyclicIn(live, field, A)
      BY <2>1 DEF Acyclic
    <3> HIDE DEF A, B
    <3>3. AcyclicIn(live', field', B)
      BY <1>1, <3>1, <3>2, FewerCycles
    <3>4. QED
      BY <3>3 DEF Acyclic, AcyclicIn, B
  <2>4. G \subseteq Objects
    <3> SUFFICES ASSUME NEW n \in G PROVE n \in Objects
      OBVIOUS
    <3> DEFINE set == Closure(pending)
    <3>1. set \subseteq live /\ n \in set \ LiveIn(set)
      BY <1>1 DEF Closure
    <3> HIDE DEF set
    <3>2. n # Null /\ static # n /\ n \notin HeldOn(stack)
      BY <3>1, GarbageApart
    <3>3. PICK m \in live : n \in Range(field[m])
      BY <3>1, <3>2 DEF Counted
    <3>4. QED
      BY <2>1, <3>2, <3>3 DEF CopiesApart
  <2>5. Gutted' /\ CopiesApart'
    BY <1>1, <2>1, <2>4 DEF Gutted, CopiesApart
  <2>6. QED
    BY <1>1, <2>1, <2>3, <2>5, SamePasses
<1>5. QED
  BY <1>1, <1>3, <1>4, StillQuiet DEF Known

LEMMA AllocatesKnown ==
  ASSUME Inv, Inv', Counted, Known, NEW n, NEW k, Allocates(n, k)
  PROVE  Counted' /\ Known'
<1>1. /\ program' = program /\ n \in Objects /\ n \notin live /\ CopyOf(n) \notin live
      /\ live' = live \cup {n} /\ destroyed' = destroyed /\ static' = static /\ pending' = pending
      /\ field' = [field EXCEPT ![n] = [s \in Slots |-> Null]]
      /\ kind' = [kind EXCEPT ![n] = k]
      /\ HeldOn(stack) \cup {n} \subseteq HeldOn(stack') \cup {Null}
      /\ KeptOn(stack) \subseteq KeptOn(stack') /\ GarbageOn(stack') = GarbageOn(stack)
      /\ \A e \in In(stack') : e.garbage = {} \/ e \in In(stack)
  BY DEF Allocates, Widens
<1>2. /\ Null \notin Nodes /\ live \subseteq Nodes /\ n \in Nodes /\ field \in [Nodes -> Contents]
      /\ \A m \in Nodes : Range(field[m]) \subseteq live \cup {Null} 
      /\ destroyed \subseteq live /\ stack' \in Seq(Entries) /\ kind \in [Objects -> AllKinds]
  BY <1>1, Numbers DEF Inv, HeapOK, Sound
<1>3. Range(field'[n]) \subseteq {Null} /\ \A m \in live : field'[m] = field[m]
  BY <1>1, <1>2 DEF Range
<1>4. Counted'
  BY <1>1, <1>2, <1>3 DEF Counted
<1>5. ASSUME Quiet PROVE Acyclic' /\ Gutted' /\ CopiesApart' /\ Passes(stack)'
  <2>1. Acyclic /\ Gutted /\ CopiesApart /\ Passes(stack)
    BY <1>5 DEF Known
  <2>2. Acyclic'
    <3> DEFINE A == Anchors
               B == Anchors'
    <3>1. live' \ B \subseteq (live \ A) \cup {n}
      BY <1>1 DEF Anchors
    <3>2. AcyclicIn(live, field, A)
      BY <2>1 DEF Acyclic
    <3> HIDE DEF A, B
    <3>3. Adds(n, live, field, A, live', field', B)
      BY <1>1, <1>2, <1>3, <3>1 DEF Adds
    <3>4. AcyclicIn(live', field', B)
      BY <3>2, <3>3, OneMoreNode
    <3>5. QED
      BY <3>4 DEF Acyclic, AcyclicIn, B
  <2>3. Gutted' /\ CopiesApart'
    BY <1>1, <1>2, <1>3, <2>1 DEF Gutted, CopiesApart
  <2>4. Passes(stack)'
    <3>1. ASSUME NEW e \in In(stack) PROVE PassOf(e)'
      <4>1. PassOf(e) /\ e.garbage \subseteq GarbageOn(stack)
        BY <2>1 DEF Passes, In, GarbageOn
      <4>2. e.garbage \subseteq live
        BY <4>1, StackLive
      <4>3. \A m \in e.garbage : field'[m] = field[m] /\ kind'[Origin(m)] = kind[Origin(m)]
        <5> SUFFICES ASSUME NEW m \in e.garbage PROVE kind'[Origin(m)] = kind[Origin(m)]
          BY <1>3, <4>2
        <5>1. m \in Nodes /\ m # n /\ m # CopyOf(n)
          BY <1>1, <1>2, <4>2
        <5>2. Origin(m) # n
          <6>1. m = Origin(m) \/ (Origin(m) \in Objects /\ CopyOf(Origin(m)) = m)
            BY <5>1, CollectorAssumption DEF Origin, CopyOf, Objects, Nodes
          <6>2. QED
            BY <1>1, <5>1, <6>1
        <5>3. Origin(m) \in Objects
          BY <5>1, Numbers
        <5>4. QED
          BY <1>1, <1>2, <5>2, <5>3
      <4>4. QED
        BY <1>1, <4>1, <4>3 DEF PassOf, IsObject, Kind
    <3>2. QED
      BY <1>1, <1>2, <3>1, IdlePasses
  <2>5. QED
    BY <2>2, <2>3, <2>4
<1>6. QED
  BY <1>1, <1>4, <1>5, StillQuiet DEF Known

\* A reference goes, another one is left.  The garbage that a pass lets go
\* refers to nothing.
LEMMA SparesKnown ==
  ASSUME Inv, Counted, Known, NEW n, Spares(n)
  PROVE  Counted' /\ Known'
<1>1. /\ UNCHANGED <<program, heap>> /\ live' = live /\ field' = field /\ destroyed' = destroyed
      /\ static' = static /\ pending' = pending /\ n \in live
      /\ HeldOn(stack) \subseteq HeldOn(stack') \cup {n, Null}
      /\ KeptOn(stack) \subseteq KeptOn(stack') \cup (IF top.at = "free" THEN {n} ELSE {})
      /\ GarbageOn(stack') \subseteq GarbageOn(stack)
      /\ Passes(stack) => Passes(stack')
      /\ static = n \/ n \in HeldOn(stack') \/ \E m \in live : n \in Range(field[m])
  BY DEF Spares, Freed, heap
<1>2. Null \notin live
  BY Numbers DEF Inv, HeapOK
<1>3. Counted'
  BY <1>1, <1>2 DEF Counted
<1>4. ASSUME Quiet PROVE Acyclic' /\ Gutted' /\ CopiesApart' /\ Passes(stack)'
  <2>1. Acyclic /\ Gutted /\ CopiesApart /\ Passes(stack)
    BY <1>4 DEF Known
  <2>2. Acyclic'
    <3> DEFINE A == Anchors
               B == Anchors'
    <3>1. AcyclicIn(live, field, A)
      BY <2>1 DEF Acyclic
    <3>2. CASE top.at = "free"
      <4>1. Range(field[n]) \subseteq {Null}
        <5>1. n \in top.garbage
          BY <3>2 DEF Spares, Freed
        <5>2. 1 \in 1..Len(stack) /\ top = stack[1]
          <6>1. stack # <<>>
            BY DEF Spares, Freed
          <6>2. QED
            BY <6>1, Innermost DEF Inv
        <5>3. PassOf(top) /\ n \in GarbageOn(stack)
          BY <2>1, <5>1, <5>2 DEF Passes, GarbageOn
        <5>4. n \in Objects /\ (IF IsObject(n) THEN n \in destroyed ELSE Range(field[n]) \subseteq {Null})
          BY <2>1, <3>2, <5>1, <5>3 DEF CopiesApart, PassOf
        <5>5. QED
          BY <2>1, <5>4 DEF Gutted
      <4>2. live' \ B \subseteq (live \ A) \cup {n}
        BY <1>1, <1>2 DEF Anchors
      <4> HIDE DEF A, B
      <4>3. Adds(n, live, field, A, live', field', B)
        BY <1>1, <1>2, <4>1, <4>2 DEF Adds
      <4>4. AcyclicIn(live', field', B)
        BY <3>1, <4>3, OneMoreNode
      <4>5. QED
        BY <4>4 DEF Acyclic, AcyclicIn, B
    <3>3. CASE top.at # "free"
      <4>1. live' \ B \subseteq live \ A
        BY <1>1, <1>2, <3>3 DEF Anchors
      <4> HIDE DEF A, B
      <4>2. AcyclicIn(live', field', B)
        BY <1>1, <3>1, <4>1, FewerCycles
      <4>3. QED
        BY <4>2 DEF Acyclic, AcyclicIn, B
    <3>4. QED
      BY <3>2, <3>3
  <2>3. Gutted' /\ CopiesApart'
    BY <1>1, <2>1 DEF Gutted, CopiesApart
  <2>4. QED
    BY <1>1, <2>1, <2>2, <2>3, SamePasses
<1>5. QED
  BY <1>1, <1>3, <1>4, StillQuiet DEF Known

\* The fields of n move to its copy, or are dropped; then n is gone, or a pass
\* still holds it.
Emptied(n, gone) ==
  /\ n \in live /\ n # Null /\ program' = program /\ static' = static
  /\ \/ /\ n \in Objects /\ CopyOf(n) \notin live
        /\ live' = (live \ gone) \cup {CopyOf(n)}
        /\ field' = [field EXCEPT ![CopyOf(n)] = field[n], ![n] = NoKeys]
        /\ CopyOf(n) \in HeldOn(stack') /\ CopyOf(n) \in KeptOn(stack')
     \/ /\ live' = live \ gone
        /\ field' = [field EXCEPT ![n] = NoKeys]
        /\ Range(field[n]) \subseteq HeldOn(stack') \cup {Null}
  /\ {static} \cup HeldOn(stack) \subseteq {static'} \cup HeldOn(stack') \cup gone \cup {Null}
  /\ Anchors \subseteq Anchors' \cup gone \cup {Null}
  /\ destroyed' \subseteq destroyed \cup {n, CopyOf(n)} /\ destroyed \subseteq destroyed' \cup gone
  /\ GarbageOn(stack') \subseteq GarbageOn(stack)
  /\ gone \in {{}, {n}}

\* What holds of the heap afterwards.
LEMMA EmptiedFields ==
  ASSUME Inv, NEW n, NEW gone, Emptied(n, gone)
  PROVE  /\ \A m \in Nodes \ {n, CopyOf(n)} : field'[m] = field[m]
         /\ Range(field'[n]) = {} /\ (CopyOf(n) \in live => CopyOf(n) = n \/ field'[CopyOf(n)] = field[CopyOf(n)])
         /\ Null \notin Nodes /\ live \subseteq Nodes /\ n \in Nodes /\ CopyOf(n) \in Nodes \ Objects
         /\ \A m \in live : Range(field[m]) \subseteq live \cup {Null}
<1>1. /\ Null \notin Nodes /\ live \subseteq Nodes /\ n \in Nodes /\ CopyOf(n) \in Nodes \ Objects
      /\ field \in [Nodes -> Contents] /\ \A m \in Nodes : Range(field[m]) \subseteq live \cup {Null}
      /\ (n \in Objects => CopyOf(n) # n)
  BY Numbers DEF Inv, HeapOK, Emptied
<1>2. field' \in {[field EXCEPT ![CopyOf(n)] = field[n], ![n] = NoKeys], [field EXCEPT ![n] = NoKeys]}
  BY DEF Emptied
<1>3. field'[n] = NoKeys /\ \A m \in Nodes \ {n, CopyOf(n)} : field'[m] = field[m]
  BY <1>1, <1>2
<1>4. Range(NoKeys) = {}
  BY DEF Range, NoKeys
<1>5. CopyOf(n) \in live /\ CopyOf(n) # n => field'[CopyOf(n)] = field[CopyOf(n)]
  BY <1>1 DEF Emptied
<1>6. QED
  BY <1>1, <1>3, <1>4, <1>5

LEMMA EmptiedCounted ==
  ASSUME Inv, Counted, NEW n, NEW gone, Emptied(n, gone)
  PROVE  Counted'
<1>1. /\ \A m \in Nodes \ {n, CopyOf(n)} : field'[m] = field[m]
      /\ Null \notin Nodes /\ live \subseteq Nodes /\ n \in Nodes /\ CopyOf(n) \in Nodes \ Objects
      /\ (CopyOf(n) \in live => CopyOf(n) = n \/ field'[CopyOf(n)] = field[CopyOf(n)])
  BY EmptiedFields
<1>2. SUFFICES ASSUME NEW x \in live'
               PROVE  static' = x \/ x \in HeldOn(stack') \/ \E m \in live' : x \in Range(field'[m])
  BY DEF Counted
<1>3. CASE x \notin live
  BY <1>2, <1>3 DEF Emptied
<1>4. CASE x \in live /\ (static = x \/ x \in HeldOn(stack))
  <2>1. x \notin gone
    BY <1>1, <1>2 DEF Emptied
  <2>2. QED
    BY <1>1, <1>4, <2>1 DEF Emptied
<1>5. CASE x \in live /\ \E m \in live : x \in Range(field[m])
  <2>1. PICK m \in live : x \in Range(field[m])
    BY <1>5
  <2>2. x # Null
    BY <1>1, <1>5
  <2>3. CASE m = n
    <3>1. CASE live' = (live \ gone) \cup {CopyOf(n)} /\ n \in Objects
               /\ field' = [field EXCEPT ![CopyOf(n)] = field[n], ![n] = NoKeys]
      <4>1. CopyOf(n) \in live' /\ field \in [Nodes -> Contents] /\ CopyOf(n) # n
        BY <1>1, <3>1, Numbers DEF Inv, HeapOK
      <4>2. field'[CopyOf(n)] = field[n]
        BY <1>1, <3>1, <4>1
      <4>3. QED
        BY <2>1, <2>3, <4>1, <4>2
    <3>2. CASE Range(field[n]) \subseteq HeldOn(stack') \cup {Null}
      BY <2>1, <2>2, <2>3, <3>2
    <3>3. QED
      BY <3>1, <3>2 DEF Emptied
  <2>4. CASE m # n
    <3>1. m \in live' /\ m \in Nodes
      BY <1>1, <2>1, <2>4 DEF Emptied
    <3>2. field'[m] = field[m]
      BY <1>1, <2>1, <2>4, <3>1
    <3>3. QED
      BY <2>1, <3>1, <3>2
  <2>5. QED
    BY <2>3, <2>4
<1>6. QED
  BY <1>3, <1>4, <1>5 DEF Counted

LEMMA EmptiedKnown ==
  ASSUME Inv, Known, Quiet, NEW n, NEW gone, Emptied(n, gone)
  PROVE  Acyclic' /\ Gutted' /\ CopiesApart'
<1>1. /\ \A m \in Nodes \ {n, CopyOf(n)} : field'[m] = field[m]
      /\ Range(field'[n]) = {} /\ (CopyOf(n) \in live => CopyOf(n) = n \/ field'[CopyOf(n)] = field[CopyOf(n)])
      /\ Null \notin Nodes /\ live \subseteq Nodes /\ n \in Nodes /\ CopyOf(n) \in Nodes \ Objects
      /\ \A m \in live : Range(field[m]) \subseteq live \cup {Null}
  BY EmptiedFields
<1>2. Acyclic /\ Gutted /\ CopiesApart
  BY DEF Known
<1>3. Acyclic'
  <2> DEFINE A == Anchors
             B == Anchors'
  <2>1. live' \ B \subseteq live \ A
    <3> SUFFICES ASSUME NEW x \in live', x \notin B PROVE x \in live /\ x \notin A
      OBVIOUS
    <3>1. x \in live /\ x \notin gone
      <4>1. CopyOf(n) \in KeptOn(stack') => CopyOf(n) \in B
        BY DEF Anchors
      <4>2. n \notin live' \/ gone = {} \/ (n = CopyOf(n) /\ n \in KeptOn(stack'))
        BY DEF Emptied
      <4>3. QED
        BY <4>1, <4>2 DEF Emptied
    <3>2. QED
      BY <1>1, <3>1 DEF Emptied
  <2>2. AcyclicIn(live, field, A)
    BY <1>2 DEF Acyclic
  <2> HIDE DEF A, B
  <2>3. \A m \in live' \ B : Range(field'[m]) \subseteq Range(field[m])
    <3> SUFFICES ASSUME NEW m \in live \ A PROVE Range(field'[m]) \subseteq Range(field[m])
      BY <2>1
    <3>1. m = n \/ field'[m] = field[m]
      BY <1>1
    <3>2. QED
      BY <1>1, <3>1
  <2>4. AcyclicIn(live', field', B)
    BY <2>1, <2>2, <2>3, FewerCycles
  <2>5. QED
    BY <2>4 DEF Acyclic, AcyclicIn, B
<1>4. Gutted'
  <2> SUFFICES ASSUME NEW m \in destroyed' \cap Objects PROVE Range(field'[m]) \subseteq {Null}
    BY DEF Gutted
  <2>1. m = n \/ (m \in destroyed /\ m # CopyOf(n))
    BY <1>1 DEF Emptied
  <2>2. CASE m = n
    BY <1>1, <2>2
  <2>3. CASE m # n
    <3>1. m \in Nodes /\ m \in destroyed /\ m # CopyOf(n)
      BY <1>1, <2>1, <2>3, Numbers
    <3>2. field'[m] = field[m]
      BY <1>1, <2>3, <3>1
    <3>3. QED
      BY <1>2, <3>1, <3>2 DEF Gutted
  <2>4. QED
    BY <2>2, <2>3
<1>5. CopiesApart'
  <2>1. GarbageOn(stack') \subseteq Objects
    BY <1>2 DEF CopiesApart, Emptied
  <2>2. ASSUME NEW m \in live' PROVE Range(field'[m]) \subseteq Objects \cup {Null}
    <3>1. CASE m = n
      BY <1>1, <3>1
    <3>2. CASE m \in live /\ m # n
      <4>1. field'[m] = field[m]
        BY <1>1, <3>2
      <4>2. QED
        BY <1>2, <3>2, <4>1 DEF CopiesApart
    <3>3. CASE m \notin live
      <4>1. m = CopyOf(n) /\ n \in Objects /\ field' = [field EXCEPT ![CopyOf(n)] = field[n], ![n] = NoKeys]
        BY <2>2, <3>3 DEF Emptied
      <4>2. field'[m] = field[n] /\ n \in live
        BY <1>1, <4>1 DEF Inv, HeapOK, Emptied
      <4>3. QED
        BY <1>2, <4>2 DEF CopiesApart
    <3>4. QED
      BY <3>1, <3>2, <3>3
  <2>3. QED
    BY <2>1, <2>2 DEF CopiesApart
<1>6. QED
  BY <1>3, <1>4, <1>5

\* force_destroy empties an object of the garbage, clear() an array of it, and a
\* node that is freed is empty for good.
LEMMA GutsEmpties ==
  ASSUME Inv, Single, NEW n, Guts(n) \/ Clears(n)
  PROVE  Emptied(n, {})
<1>1. /\ n \in live /\ program' = program /\ static' = static /\ pending' = pending
      /\ HeldOn(stack) \subseteq HeldOn(stack') \cup {Null}
      /\ KeptOn(stack) \subseteq KeptOn(stack') /\ GarbageOn(stack') = GarbageOn(stack)
  BY DEF Guts, Clears, Widens
<1>2. n # Null /\ live \ {} = live /\ CopyOf(n) # Null
  BY <1>1, Numbers DEF Inv, HeapOK
<1>3. destroyed' \subseteq destroyed \cup {n, CopyOf(n)} /\ destroyed \subseteq destroyed'
  BY DEF Guts, Clears
<1>4. Anchors \subseteq Anchors' \cup {Null}
  BY <1>1 DEF Anchors
<1>5. \/ /\ n \in Objects /\ CopyOf(n) \notin live
         /\ live' = live \cup {CopyOf(n)}
         /\ field' = [field EXCEPT ![CopyOf(n)] = field[n], ![n] = NoKeys]
         /\ CopyOf(n) \in HeldOn(stack') /\ CopyOf(n) \in KeptOn(stack')
      \/ /\ live' = live
         /\ field' = [field EXCEPT ![n] = NoKeys]
         /\ Range(field[n]) \subseteq HeldOn(stack') \cup {Null}
  BY <1>2 DEF Guts, Clears, Widens, Single
<1>6. QED
  BY <1>1, <1>2, <1>3, <1>4, <1>5 DEF Emptied

LEMMA FreesEmpties ==
  ASSUME Inv, Single, NEW n, Frees(n)
  PROVE  Emptied(n, {n})
<1>1. PICK rest : Freed(n, rest) /\ StrongCount(n) = 1 /\ Departed(n, rest)
  BY DEF Frees
<1>2. /\ n \in live /\ program' = program /\ static' = static /\ static # n
      /\ HeldOn(stack) \subseteq HeldOn(rest) \cup {n, Null}
      /\ KeptOn(stack) \subseteq KeptOn(rest) \cup {n}
      /\ HeldOn(rest) \subseteq HeldOn(stack') \cup {Null}
      /\ KeptOn(rest) \subseteq KeptOn(stack') \cup {n}
      /\ pending' = pending \ {n}
      /\ GarbageOn(stack') \subseteq GarbageOn(stack)
  BY <1>1 DEF Frees, Freed, Departed, Die, Upgradable
<1>3. n # Null /\ live \ Objects \subseteq destroyed /\ live \subseteq Nodes
  BY <1>2, Numbers DEF Inv, HeapOK, Fresh
<1>4. Anchors \subseteq Anchors' \cup {n, Null}
  BY <1>2 DEF Anchors
<1>5. CASE RunsDestructor(n)
  <2>1. /\ live' = (live \ {n}) \cup {CopyOf(n)} /\ destroyed' = destroyed \cup {CopyOf(n)}
        /\ field' = [field EXCEPT ![CopyOf(n)] = field[n], ![n] = NoKeys]
        /\ n \notin destroyed /\ CopyOf(n) \in HeldOn(stack') /\ CopyOf(n) \in KeptOn(stack')
    BY <1>1, <1>5 DEF Departed, Die, MoveToCopy, RunsDestructor
  <2>2. n \in Objects /\ CopyOf(n) \notin live
    BY <1>2, <1>3, <2>1 DEF Single
  <2>3. QED
    BY <1>2, <1>3, <1>4, <2>1, <2>2 DEF Emptied
<1>6. CASE ~RunsDestructor(n)
  <2>1. /\ live' = live \ {n} /\ destroyed' = destroyed \ {n}
        /\ field' = [field EXCEPT ![n] = NoKeys]
        /\ Range(field[n]) \subseteq HeldOn(stack') \cup {Null}
    BY <1>1, <1>6 DEF Departed, Die
  <2>2. QED
    BY <1>2, <1>3, <1>4, <2>1 DEF Emptied
<1>7. QED
  BY <1>5, <1>6

\* What a pass has done stays done, and one more object is.
LEMMA GutsPasses ==
  ASSUME Inv, Inv', Single, Passes(stack), NEW n, Guts(n) \/ Clears(n)
  PROVE  Passes(stack)'
<1> DEFINE next == [top EXCEPT !.todo = @ \ {n}]
<1>1. /\ n \in live /\ stack # <<>> /\ top.at = "destroy" /\ kind' = kind
      /\ destroyed \subseteq destroyed'
      /\ \A e \in In(stack') : e.garbage = {} \/ e \in In(stack) \/ (e = next /\ n \in destroyed')
  BY DEF Guts, Clears
<1>2. /\ live \subseteq Nodes /\ field \in [Nodes -> Contents] /\ stack' \in Seq(Entries)
      /\ n \in Nodes /\ CopyOf(n) \in Nodes
  BY <1>1, Numbers DEF Inv, HeapOK, Sound
<1>3. \A m \in live : field'[m] = field[m] \/ field'[m] = NoKeys
  <2>1. CASE Guts(n)
    <3>1. n \in Objects /\ CopyOf(n) \notin live
      BY <2>1 DEF Guts, Single
    <3>2. field' \in {[field EXCEPT ![CopyOf(n)] = field[n], ![n] = NoKeys], [field EXCEPT ![n] = NoKeys]}
      BY <2>1 DEF Guts
    <3>3. QED
      BY <1>2, <3>1, <3>2
  <2>2. CASE Clears(n)
    <3>1. field' = [field EXCEPT ![n] = NoKeys]
      BY <2>2 DEF Clears
    <3>2. QED
      BY <1>2, <3>1
  <2>3. QED
    BY <2>1, <2>2
<1>4. Range(NoKeys) \subseteq {Null}
  BY DEF Range, NoKeys
<1>5. ASSUME NEW e, e \in In(stack) PROVE PassOf(e)'
  <2>1. PassOf(e) /\ e.garbage \subseteq GarbageOn(stack)
    BY <1>5 DEF Passes, In, GarbageOn
  <2>2. e.garbage \subseteq live
    BY <2>1, StackLive
  <2>3. QED
    BY <1>1, <1>3, <1>4, <2>1, <2>2 DEF PassOf, IsObject, Kind
<1>6. ASSUME NEW e, e = next, n \in destroyed' PROVE PassOf(e)'
  <2>1. 1 \in 1..Len(stack) /\ top \in Entries /\ top = stack[1]
    BY <1>1, Innermost DEF Inv, Sound, Whole
  <2>2. PassOf(top)
    BY <2>1 DEF Passes
  <2>3. e.at = "destroy" /\ e.garbage = top.garbage /\ e.todo = top.todo \ {n}
    BY <1>1, <1>6, <2>1 DEF Entries
  <2>4. \A m \in top.garbage : m \notin top.todo /\ IsObject(m) => m \in destroyed
    BY <1>1, <2>2 DEF PassOf
  <2>5. QED
    BY <1>1, <1>6, <2>3, <2>4 DEF PassOf, IsObject, Kind
<1> HIDE DEF next
<1>7. CASE n \in destroyed'
  <2> DEFINE S == In(stack) \cup {next}
  <2>1. \A e \in S : PassOf(e)'
    BY <1>5, <1>6, <1>7
  <2>2. \A e \in In(stack') : e.garbage = {} \/ e \in S
    BY <1>1
  <2>3. QED
    BY <1>2, <2>1, <2>2, IdlePasses
<1>8. CASE n \notin destroyed'
  <2>1. \A e \in In(stack) : PassOf(e)'
    BY <1>5
  <2>2. \A e \in In(stack') : e.garbage = {} \/ e \in In(stack)
    BY <1>1, <1>8
  <2>3. QED
    BY <1>2, <2>1, <2>2, IdlePasses
<1>9. QED
  BY <1>7, <1>8

LEMMA GutsKnown ==
  ASSUME Inv, Inv', Single, Counted, Known, NEW n, Guts(n) \/ Clears(n)
  PROVE  Counted' /\ Known'
<1>1. Emptied(n, {})
  BY GutsEmpties
<1>2. Counted'
  BY <1>1, EmptiedCounted
<1>3. Quiet => Acyclic' /\ Gutted' /\ CopiesApart' /\ Passes(stack)'
  BY <1>1, EmptiedKnown, GutsPasses DEF Known
<1>4. QED
  BY <1>1, <1>2, <1>3, StillQuiet DEF Known, Emptied

\* The garbage of the passes does not have what is freed.
LEMMA FreesKnown ==
  ASSUME Inv, Single, Counted, Known, NEW n, Frees(n)
  PROVE  Counted' /\ Known'
<1>1. Emptied(n, {n})
  BY FreesEmpties
<1>2. Counted'
  BY <1>1, EmptiedCounted
<1>3. ASSUME Quiet PROVE Passes(stack)'
  <2>1. PICK rest : Freed(n, rest) /\ StrongCount(n) = 1 /\ Departed(n, rest)
    BY DEF Frees
  <2>2. Passes(stack) /\ GarbageOn(stack) \subseteq live
    BY <1>3, StackLive DEF Known
  <2>3. /\ Passes(stack') /\ n \notin HeldOn(rest)
        /\ GarbageOn(stack') = GarbageOn(rest) /\ GarbageOn(rest) \subseteq GarbageOn(stack)
        /\ kind' = kind /\ Sound(rest, live)
    BY <2>1, <2>2 DEF Freed, Departed, Die
  <2>4. n \notin GarbageOn(stack') /\ GarbageOn(stack') \subseteq live
    <3>1. \A i \in 1..Len(rest) : rest[i].garbage \subseteq Refd(rest[i])
      BY DEF Refd
    <3>2. GarbageOn(rest) \subseteq HeldOn(rest)
      BY <3>1 DEF GarbageOn, HeldOn
    <3>3. QED
      BY <2>2, <2>3, <3>2
  <2>5. destroyed \subseteq destroyed' \cup {n} /\ live \subseteq Nodes
    BY <1>1 DEF Emptied, Inv, HeapOK
  <2>6. \A m \in live \ {n} : field'[m] = field[m]
    BY <1>1, <2>5, EmptiedFields
  <2>7. SUFFICES ASSUME NEW i \in 1..Len(stack') PROVE PassOf(stack[i])'
    BY DEF Passes
  <2>8. PassOf(stack'[i]) /\ stack'[i].garbage \subseteq GarbageOn(stack')
    BY <2>3 DEF Passes, GarbageOn
  <2>9. QED
    BY <2>3, <2>4, <2>5, <2>6, <2>8 DEF PassOf, IsObject, Kind
<1>4. Quiet => Acyclic' /\ Gutted' /\ CopiesApart'
  BY <1>1, EmptiedKnown
<1>5. QED
  BY <1>1, <1>2, <1>3, <1>4, StillQuiet DEF Known, Emptied

\* One end of a reference that is stored is an anchor; the program stores what
\* it reaches, and where it reaches; a destructor stores nothing.
LEMMA PutsKnown ==
  ASSUME Inv, Inv', Shape, Safe, Counted, Known, NEW target, NEW s, NEW value, Puts(target, s, value)
  PROVE  Counted' /\ Known'
<1>1. /\ program' = program /\ target \in live /\ value \in live \cup {Null} /\ s \in Slots
      /\ live' = live /\ destroyed' = destroyed /\ static' = static /\ pending' = pending /\ kind' = kind
      /\ stack # <<>> /\ top.at = "run"
      /\ target \in Range(top.refs) \cup {static} \/ value \in Range(top.refs) \cup {static, Null}
      /\ {target, value} \subseteq Range(top.refs) \cup {top.operand, static, Null}
      /\ HeldOn(stack) \cup {target, Fields(target)[s]} \subseteq HeldOn(stack') \cup {value, Null}
      /\ KeptOn(stack) \subseteq KeptOn(stack') /\ GarbageOn(stack') = GarbageOn(stack)
      /\ \A e \in In(stack') : e.garbage = {} \/ e \in In(stack)
  BY DEF Puts
<1>2. /\ Null \notin Nodes /\ live \subseteq Nodes /\ field \in [Nodes -> Contents]
      /\ stack' \in Seq(Entries) /\ live \ Objects \subseteq destroyed /\ target # Null
      /\ destroyed \subseteq live
  BY <1>1, Numbers DEF Inv, HeapOK, Fresh, Sound
<1>3. /\ \A m \in Nodes \ {target} : field'[m] = field[m]
      /\ field'[target] = [x \in DOMAIN field[target] \cup {s} |-> IF x = s THEN value ELSE field[target][x]]
  BY <1>1, <1>2 DEF Puts
<1>4. Range(field'[target]) \subseteq Range(field[target]) \cup {value} /\ value \in Range(field'[target])
  BY <1>3 DEF Range
<1>5. \A x \in Range(field[target]) : x \in Range(field'[target]) \/ x = Fields(target)[s]
  <2> SUFFICES ASSUME NEW z \in DOMAIN field[target]
               PROVE  field[target][z] \in Range(field'[target]) \/ field[target][z] = Fields(target)[s]
    BY DEF Range
  <2>1. CASE z = s
    BY <1>1, <2>1 DEF Fields
  <2>2. CASE z # s
    BY <1>3, <2>2 DEF Range
  <2>3. QED
    BY <2>1, <2>2
<1>6. Counted'
  <2> SUFFICES ASSUME NEW x \in live
               PROVE  static' = x \/ x \in HeldOn(stack') \/ \E m \in live : x \in Range(field'[m])
    BY <1>1 DEF Counted
  <2>1. x # Null
    BY <1>2
  <2>2. CASE x = value
    BY <1>1, <1>4, <2>2
  <2>3. CASE x # value /\ (static = x \/ x \in HeldOn(stack))
    BY <1>1, <2>1, <2>3
  <2>4. CASE x # value /\ \E m \in live : x \in Range(field[m])
    <3>1. PICK m \in live : x \in Range(field[m])
      BY <2>4
    <3>2. CASE m = target
      BY <1>1, <1>5, <2>1, <2>4, <3>1, <3>2
    <3>3. CASE m # target
      BY <1>2, <1>3, <3>1, <3>3
    <3>4. QED
      BY <3>2, <3>3
  <2>5. QED
    BY <2>2, <2>3, <2>4 DEF Counted
<1>7. ASSUME Quiet PROVE Acyclic' /\ Gutted' /\ CopiesApart' /\ Passes(stack)'
  <2>1. Acyclic /\ Gutted /\ CopiesApart /\ Passes(stack)
    BY <1>7 DEF Known
  <2>2. value = Null \/ (target \notin destroyed \cup GarbageOn(stack) /\ value \notin destroyed)
    <3> DEFINE R == ProgramReaches
    <3>1. /\ static \in R \cup {Null} /\ MineOn(stack) \subseteq R \cup {Null}
          /\ R \cap destroyed = {} /\ R \cap GarbageOn(stack) = {}
      BY <1>7, SafeBefore
    <3> HIDE DEF R
    <3>2. Formed(stack, program) /\ MayStore(value)
      BY DEF Shape, Puts
    <3>3. /\ MineOn(stack) = MineOn(below) \cup
              (IF top.who = "destruct" \/ Destructing(below) THEN {} ELSE Rooted(top))
          /\ (Destructing(stack) <=> (top.who = "destruct" \/ Destructing(below)))
      BY <1>1, <3>2, Opened
    <3>4. CASE Destructing(stack)
      <4>1. ~program.escapes
        BY <1>7, <3>2, <3>4 DEF Quiet, Formed
      <4>2. InDestructor
        <5>1. DOMAIN stack = 1..Len(stack)
          BY LenProperties DEF Inv, Sound
        <5>2. QED
          BY <3>4, <5>1 DEF Destructing, InDestructor
      <4>3. QED
        BY <3>2, <4>1, <4>2 DEF MayStore
    <3>5. CASE ~Destructing(stack)
      <4>1. Rooted(top) = {top.operand} \cup Range(top.refs)
        BY <1>1 DEF Rooted
      <4>2. {target, value} \subseteq R \cup {Null}
        BY <1>1, <3>1, <3>3, <3>5, <4>1
      <4>3. QED
        BY <1>2, <3>1, <4>2
    <3>6. QED
      BY <3>4, <3>5
  <2>3. Acyclic'
    <3> DEFINE A == Anchors
               B == Anchors'
    <3>1. live' \ B \subseteq live \ A
      BY <1>1 DEF Anchors
    <3>2. AcyclicIn(live, field, A)
      BY <2>1 DEF Acyclic
    <3>3. target \in A \/ value \in A \/ value = Null
      <4>1. Range(top.refs) \subseteq KeptOn(stack)
        <5>1. Range(top.refs) \subseteq Kept(top)
          BY <1>1 DEF Kept
        <5>2. top = stack[1] /\ 1 \in 1..Len(stack)
          BY <1>1, Innermost DEF Inv
        <5>3. QED
          BY <5>1, <5>2 DEF KeptOn
      <4>2. QED
        BY <1>1, <4>1 DEF Anchors
    <3> HIDE DEF A, B
    <3>4. \A m, u \in live' \ B : u \in Range(field'[m]) => u \in Range(field[m])
      <4> SUFFICES ASSUME NEW m \in live \ A, NEW u \in live \ A, u \in Range(field'[m])
                   PROVE  u \in Range(field[m])
        BY <3>1
      <4>1. CASE m = target
        BY <1>2, <1>4, <3>3, <4>1
      <4>2. CASE m # target
        BY <1>2, <1>3, <4>2
      <4>3. QED
        BY <4>1, <4>2
    <3>5. AcyclicIn(live', field', B)
      BY <3>1, <3>2, <3>4, FewerCycles
    <3>6. QED
      BY <3>5 DEF Acyclic, AcyclicIn, B
  <2>4. Gutted'
    <3> SUFFICES ASSUME NEW m \in destroyed \cap Objects PROVE Range(field'[m]) \subseteq {Null}
      BY <1>1 DEF Gutted
    <3>1. Range(field[m]) \subseteq {Null} /\ m \in Nodes
      BY <1>2, <2>1 DEF Gutted
    <3>2. CASE m = target
      BY <1>4, <2>2, <3>1, <3>2
    <3>3. CASE m # target
      BY <1>3, <3>1, <3>3
    <3>4. QED
      BY <3>2, <3>3
  <2>5. CopiesApart'
    <3>1. ASSUME NEW m \in live PROVE Range(field'[m]) \subseteq Objects \cup {Null}
      <4>1. Range(field[m]) \subseteq Objects \cup {Null} /\ m \in Nodes
        BY <1>2, <2>1 DEF CopiesApart
      <4>2. value \in Objects \cup {Null}
        BY <1>1, <1>2, <2>2
      <4>3. CASE m = target
        BY <1>4, <4>1, <4>2, <4>3
      <4>4. CASE m # target
        BY <1>3, <4>1, <4>4
      <4>5. QED
        BY <4>3, <4>4
    <3>2. QED
      BY <1>1, <2>1, <3>1 DEF CopiesApart
  <2>6. Passes(stack)'
    <3>1. ASSUME NEW e, e \in In(stack) PROVE PassOf(e)'
      <4>1. PassOf(e) /\ e.garbage \subseteq GarbageOn(stack)
        BY <2>1, <3>1 DEF Passes, In, GarbageOn
      <4>2. e.garbage \subseteq live
        BY <4>1, StackLive
      <4>3. \A m \in e.garbage : Range(field[m]) \subseteq {Null} => Range(field'[m]) \subseteq {Null}
        <5> SUFFICES ASSUME NEW m \in e.garbage, Range(field[m]) \subseteq {Null}
                     PROVE  Range(field'[m]) \subseteq {Null}
          OBVIOUS
        <5>1. CASE m = target
          BY <1>4, <2>2, <4>1, <5>1
        <5>2. CASE m # target
          BY <1>2, <1>3, <4>2, <5>2
        <5>3. QED
          BY <5>1, <5>2
      <4>4. QED
        BY <1>1, <4>1, <4>3 DEF PassOf, IsObject, Kind
    <3>2. QED
      <4>1. \A e \in In(stack) : PassOf(e)'
        BY <3>1
      <4>2. QED
        BY <1>1, <1>2, <4>1, IdlePasses
  <2>7. QED
    BY <2>3, <2>4, <2>5, <2>6
<1>8. QED
  BY <1>1, <1>6, <1>7, StillQuiet DEF Known

LEMMA KnownInit == ASSUME Init PROVE Counted /\ Known
<1>1. /\ live = {} /\ destroyed = {} /\ Len(stack) = 1
      /\ stack[1].garbage = {} /\ stack[1].at = "run"
  BY DEF Init, Frame
<1>2. GarbageOn(stack) = {} /\ Passes(stack)
  BY <1>1 DEF GarbageOn, Passes, PassOf
<1>3. Acyclic
  BY <1>1 DEF Acyclic, AcyclicIn
<1>4. QED
  BY <1>1, <1>2, <1>3 DEF Counted, Known, Gutted, CopiesApart

LEMMA MovesKnown ==
  ASSUME Inv, Inv', Shape, Safe, Counted, Known, Moves
  PROVE  Counted' /\ Known'
<1>1. Single
  BY DEF Shape
<1>2. QED
  BY <1>1, SteadyKnown, ReclaimsKnown, GutsKnown, AllocatesKnown, PutsKnown, FreesKnown,
     SparesKnown DEF Moves

Leak == Inv /\ Shape /\ Safe /\ Counted /\ Known

LEMMA LeakInvariant == Spec => []Leak
<1>1. Init => Leak
  BY InvInit, ShapeInit, SafeInit, KnownInit DEF Leak
<1>2. Leak /\ [Next]_vars => Leak'
  BY InvNext, NextMoves, MovesShape, MovesSafe, MovesKnown DEF Leak
<1>3. QED
  BY <1>1, <1>2, PTL DEF Spec

\* GarbageStaysKnown: whatever lives is reached from a static, a candidate, or
\* what the stack holds or remembers (survivors and candidates included), so
\* that no cycle is lost; programs no destructor of which stores a reference.
THEOREM NoCycleIsLost == Spec => []GarbageStaysKnown
<1>1. Leak => GarbageStaysKnown
  <2> SUFFICES ASSUME Leak, ~program.escapes PROVE NoGarbageForgotten
    BY DEF GarbageStaysKnown
  <2> DEFINE S == {static} \cup pending \cup UNION {Mentions(stack[i]) : i \in DOMAIN stack}
  <2>1. Inv /\ Counted /\ Acyclic
    BY DEF Leak, Known, Quiet
  <2>2. DOMAIN stack = 1..Len(stack)
    BY <2>1, LenProperties DEF Inv, Sound
  <2>3. \A i \in 1..Len(stack) : Mentions(stack[i]) \subseteq live \cup {Null}
    BY <2>1 DEF Inv, Sound, Whole
  <2>4. static \in live \cup {Null} /\ pending \subseteq live
    BY <2>1 DEF Inv, HeapOK
  <2>5. S \subseteq live \cup {Null}
    BY <2>2, <2>3, <2>4
  <2>6. HeldOn(stack) \cup KeptOn(stack) \subseteq S
    <3>1. \A i \in 1..Len(stack) : Refd(stack[i]) \cup Kept(stack[i]) \subseteq Mentions(stack[i])
      BY DEF Refd, Kept, Mentions
    <3>2. QED
      BY <2>2, <3>1 DEF HeldOn, KeptOn
  <2>7. Anchors \cup HeldOn(stack) \subseteq S \cup {Null}
    BY <2>6 DEF Anchors
  <2> HIDE DEF S
  <2>8. live \subseteq Closure(S)
    BY <2>1, <2>5, <2>7, AllReached
  <2>9. QED
    BY <2>8 DEF NoGarbageForgotten, S
<1>2. QED
  BY <1>1, LeakInvariant, PTL

-----------------------------------------------------------------------------
(* The final sweep.                                                        *)

Sweeping(e) == e.who = "sweep" /\ e.at \in {"destroy", "free"}

\* The sweep was at it, and forgets some survivors at most.
Had(e) == Sweeping(e) => \E d \in In(stack) : Sweeping(d) /\ e.survivors \subseteq d.survivors

\* A piece of a stack in which no sweep is new.
Parted(e) == {"who", "at", "survivors"} \subseteq DOMAIN e /\ Had(e)
Piece(s) == (\E X : s \in Seq(X)) /\ \A e \in In(s) : Parted(e)

LEMMA PieceConcat ==
  ASSUME NEW s, NEW t, Piece(s), Piece(t)
  PROVE  Piece(s \o t) /\ (s # <<>> \/ t # <<>> => s \o t # <<>>)
<1>1. PICK X, Y : s \in Seq(X) /\ t \in Seq(Y)
  BY DEF Piece
<1> DEFINE Z == X \cup Y
           u == s \o t
<1>2. s \in Seq(Z) /\ t \in Seq(Z)
  BY <1>1
<1> HIDE DEF Z
<1>3. /\ u \in Seq(Z) /\ Len(u) = Len(s) + Len(t) /\ Len(s) \in Nat /\ Len(t) \in Nat
      /\ \A i \in 1..Len(u) : u[i] = IF i <= Len(s) THEN s[i] ELSE t[i - Len(s)]
  BY <1>2, ConcatProperties, LenProperties
<1> HIDE DEF u
<1>4. In(u) \subseteq In(s) \cup In(t)
  <2> SUFFICES ASSUME NEW i \in 1..Len(u) PROVE u[i] \in In(s) \cup In(t)
    BY DEF In
  <2>1. CASE i <= Len(s)
    BY <1>3, <2>1 DEF In
  <2>2. CASE ~(i <= Len(s))
    <3>1. i - Len(s) \in 1..Len(t) /\ u[i] = t[i - Len(s)]
      BY <1>3, <2>2
    <3>2. QED
      BY <3>1 DEF In
  <2>3. QED
    BY <2>1, <2>2
<1>5. s # <<>> \/ t # <<>> => u # <<>>
  BY <1>2, <1>3, EmptySeq
<1>6. QED
  BY <1>3, <1>4, <1>5 DEF Piece, u

LEMMA PieceOfOne == ASSUME NEW e, Parted(e) PROVE Piece(<<e>>) /\ <<e>> # <<>>
<1>1. <<e>> \in Seq({e}) /\ In(<<e>>) = {e}
  BY DEF In
<1>2. QED
  BY <1>1 DEF Piece

LEMMA PieceOfTwo == ASSUME NEW d, NEW e, Parted(d), Parted(e) PROVE Piece(<<d, e>>) /\ <<d, e>> # <<>>
<1>1. <<d, e>> \in Seq({d, e}) /\ In(<<d, e>>) \subseteq {d, e}
  BY DEF In
<1>2. QED
  BY <1>1 DEF Piece

LEMMA PieceOfNone == Piece(<<>>)
<1>1. <<>> \in Seq({}) /\ In(<<>>) = {}
  BY DEF In
<1>2. QED
  BY <1>1 DEF Piece

\* Frames and glue are no sweep at it.
LEMMA PieceEntries ==
  /\ \A who, locals : Parted(Frame(who, locals))
  /\ \A at, refs, lock : at \notin {"destroy", "free"} => Parted(Glue(at, refs, lock))
  /\ \A n : Parted(OnCopy(n))
BY DEF Parted, Had, Sweeping, Frame, Glue, OnCopy

LEMMA PieceDropping == \A refs, lock : Piece(Dropping(refs, lock))
<1> TAKE refs, lock
<1>1. Parted(Glue("drop", refs, lock))
  BY PieceEntries
<1> DEFINE g == Glue("drop", refs, lock)
<1>2. Dropping(refs, lock) = <<>> \/ Dropping(refs, lock) = <<g>>
  BY DEF Dropping
<1> HIDE DEF g
<1>3. Piece(<<g>>)
  BY <1>1, PieceOfOne DEF g
<1>4. QED
  BY <1>2, <1>3, PieceOfNone

LEMMA PieceForget ==
  ASSUME NEW st, NEW n, Piece(st)
  PROVE  Piece(Forget(st, n)) /\ (st # <<>> => Forget(st, n) # <<>>)
<1>1. PICK X : st \in Seq(X)
  BY DEF Piece
<1> DEFINE f == Forget(st, n)
           Y == {ForgetIn(x, n) : x \in X}
<1>2. DOMAIN st = 1..Len(st) /\ Len(st) \in Nat /\ \A i \in 1..Len(st) : st[i] \in X
  BY <1>1, LenProperties, ElementOfSeq
<1>3. f = [i \in 1..Len(st) |-> ForgetIn(st[i], n)]
  BY <1>2 DEF Forget
<1>4. \A i \in 1..Len(st) : ForgetIn(st[i], n) \in Y
  BY <1>2
<1> HIDE DEF f, Y
<1>5. f \in Seq(Y) /\ Len(f) = Len(st) /\ \A i \in 1..Len(st) : f[i] = ForgetIn(st[i], n)
  BY <1>2, <1>3, <1>4
<1>6. \A e \in In(f) : Parted(e)
  <2> SUFFICES ASSUME NEW i \in 1..Len(st) PROVE Parted(ForgetIn(st[i], n))
    BY <1>5 DEF In
  <2> DEFINE e == st[i]
             g == ForgetIn(e, n)
  <2>1. Parted(e)
    BY DEF Piece, In
  <2>2. DOMAIN g = DOMAIN e /\ g.who = e.who /\ g.at = e.at /\ g.survivors \subseteq e.survivors
    BY <2>1 DEF ForgetIn, Parted
  <2> HIDE DEF g, e
  <2>3. Parted(g)
    BY <2>1, <2>2 DEF Parted, Had, Sweeping
  <2>4. QED
    BY <2>3 DEF g, e
<1>7. st # <<>> => f # <<>>
  BY <1>1, <1>2, <1>5, EmptySeq
<1>8. QED
  BY <1>5, <1>6, <1>7 DEF Piece, f

\* What is below the innermost entry is old.
LEMMA PieceBelow ==
  ASSUME Inv, stack # <<>>
  PROVE  /\ Piece(stack) /\ Piece(below) /\ (below # <<>> => Piece(Tail(below)) /\ Parted(below[1]))
         /\ Parted(top) /\ top \in In(stack) /\ top \in Entries /\ (below # <<>> => below[1] \in Entries)
         /\ In(stack) = {top} \cup In(below)
<1> DEFINE t == top
           b == below
<1>1. stack = Push(t, b) /\ t \in Entries /\ b \in Seq(Entries)
  BY Apart DEF Inv, Sound, top, below
<1> HIDE DEF t, b
<1>2. In(stack) = {t} \cup In(b)
  BY <1>1, Pushing
<1>3. \A e \in Entries : {"who", "at", "survivors"} \subseteq DOMAIN e
  BY DEF Entries
<1>4. \A e \in In(stack) : Parted(e)
  <2> SUFFICES ASSUME NEW e \in In(stack) PROVE Parted(e)
    OBVIOUS
  <2>1. e \in Entries
    BY ElementOfSeq DEF In, Inv, Sound
  <2>2. QED
    BY <1>3, <2>1 DEF Parted, Had
<1>5. Piece(stack) /\ Piece(b)
  BY <1>1, <1>2, <1>4 DEF Piece, Inv, Sound
<1>6. ASSUME b # <<>> PROVE Piece(Tail(b)) /\ Parted(b[1]) /\ b[1] \in Entries
  <2> DEFINE u == b[1]
             r == Tail(b)
  <2>1. b = Push(u, r) /\ u \in Entries /\ r \in Seq(Entries)
    BY <1>1, <1>6, Apart
  <2> HIDE DEF u, r
  <2>2. In(b) = {u} \cup In(r)
    BY <2>1, Pushing
  <2>3. Piece(r) /\ Parted(u)
    BY <1>2, <1>4, <2>1, <2>2 DEF Piece
  <2>4. QED
    BY <2>1, <2>3 DEF u, r
<1>7. QED
  BY <1>1, <1>2, <1>4, <1>5, <1>6 DEF t, b

\* An entry that is no sweep, or is the innermost one further on.
LEMMA PartedLike ==
  ASSUME Inv, stack # <<>>, NEW f, {"who", "at", "survivors"} \subseteq DOMAIN f,
         Sweeping(f) => Sweeping(top) /\ f.survivors \subseteq top.survivors
  PROVE  Parted(f)
BY PieceBelow DEF Parted, Had

LEMMA PieceOn ==
  ASSUME NEW e, Parted(e), NEW st, Piece(st)
  PROVE  Piece(<<e>> \o st) /\ <<e>> \o st # <<>>
BY PieceOfOne, PieceConcat

\* Anything may be changed in the innermost entry but the sweep's survivors.
LEMMA PartedTop ==
  ASSUME Inv, stack # <<>>
  PROVE  /\ \A r : Parted(Operand(r))
         /\ \A i, r : Parted([top EXCEPT !.refs[i] = r])
         /\ \A i, r, s : Parted([Operand(r) EXCEPT !.refs[i] = s])
         /\ \A N : Parted([top EXCEPT !.todo = N]) /\ Parted([top EXCEPT !.garbage = N])
         /\ \A at : at \notin {"destroy", "free"} \/ top.at = "destroy" => Parted([top EXCEPT !.at = at])
         /\ \A at : at \notin {"destroy", "free"} => \A thrown : Parted([top EXCEPT !.at = at, !.thrown = thrown])
<1> DEFINE t == top
<1>1. t \in Entries
  BY PieceBelow
<1>2. {"who", "at", "survivors"} \subseteq DOMAIN t
  BY <1>1 DEF Entries
<1>3. ASSUME NEW f, DOMAIN f = DOMAIN t, f.who = t.who, f.survivors = t.survivors,
             f.at = t.at \/ f.at \notin {"destroy", "free"} \/ t.at = "destroy"
      PROVE  Parted(f)
  BY <1>2, <1>3, PartedLike DEF Sweeping
<1> HIDE DEF t
<1>4. ASSUME NEW r
      PROVE  Parted([t EXCEPT !.operand = r])
  <2> DEFINE f == [t EXCEPT !.operand = r]
  <2>1. DOMAIN f = DOMAIN t /\ f.who = t.who /\ f.survivors = t.survivors /\ f.at = t.at
    BY <1>2
  <2> HIDE DEF f
  <2>2. QED
    BY <1>3, <2>1 DEF f
<1>5. ASSUME NEW i, NEW r
      PROVE  Parted([t EXCEPT !.refs[i] = r])
  <2> DEFINE f == [t EXCEPT !.refs[i] = r]
  <2>1. DOMAIN f = DOMAIN t /\ f.who = t.who /\ f.survivors = t.survivors /\ f.at = t.at
    BY <1>2
  <2> HIDE DEF f
  <2>2. QED
    BY <1>3, <2>1 DEF f
<1>6. ASSUME NEW i, NEW r, NEW s
      PROVE  Parted([[t EXCEPT !.operand = r] EXCEPT !.refs[i] = s])
  <2> DEFINE f == [[t EXCEPT !.operand = r] EXCEPT !.refs[i] = s]
  <2>1. DOMAIN f = DOMAIN t /\ f.who = t.who /\ f.survivors = t.survivors /\ f.at = t.at
    BY <1>2
  <2> HIDE DEF f
  <2>2. QED
    BY <1>3, <2>1 DEF f
<1>7. ASSUME NEW N
      PROVE  Parted([t EXCEPT !.todo = N])
  <2> DEFINE f == [t EXCEPT !.todo = N]
  <2>1. DOMAIN f = DOMAIN t /\ f.who = t.who /\ f.survivors = t.survivors /\ f.at = t.at
    BY <1>2
  <2> HIDE DEF f
  <2>2. QED
    BY <1>3, <2>1 DEF f
<1>8. ASSUME NEW N
      PROVE  Parted([t EXCEPT !.garbage = N])
  <2> DEFINE f == [t EXCEPT !.garbage = N]
  <2>1. DOMAIN f = DOMAIN t /\ f.who = t.who /\ f.survivors = t.survivors /\ f.at = t.at
    BY <1>2
  <2> HIDE DEF f
  <2>2. QED
    BY <1>3, <2>1 DEF f
<1>9. ASSUME NEW at, at \notin {"destroy", "free"} \/ t.at = "destroy" PROVE Parted([t EXCEPT !.at = at])
  <2> DEFINE f == [t EXCEPT !.at = at]
  <2>1. DOMAIN f = DOMAIN t /\ f.who = t.who /\ f.survivors = t.survivors /\ f.at = at
    BY <1>2
  <2> HIDE DEF f
  <2>2. QED
    BY <1>3, <1>9, <2>1 DEF f
<1>10. ASSUME NEW at, at \notin {"destroy", "free"}, NEW thrown
      PROVE  Parted([t EXCEPT !.at = at, !.thrown = thrown])
  <2> DEFINE f == [t EXCEPT !.at = at, !.thrown = thrown]
  <2>1. DOMAIN f = DOMAIN t /\ f.who = t.who /\ f.survivors = t.survivors /\ f.at = at
    BY <1>2
  <2> HIDE DEF f
  <2>2. QED
    BY <1>3, <1>10, <2>1 DEF f
<1>11. QED
  BY <1>4, <1>5, <1>6, <1>7, <1>8, <1>9, <1>10 DEF Operand, t

\* Glue never is the outermost entry.
LEMMA GlueHasBelow ==
  ASSUME Inv, Formed(stack, program), program.boot = "main", stack # <<>>
  PROVE  /\ top.who \notin Outermost => below # <<>>
         /\ top.who \in Outermost => below = <<>>
         /\ top.at \in GlueStages \ {"collect"} => top.who \notin Outermost
         /\ top.who # "clinit" /\ Clean(top)
<1>1. Len(stack) \in Nat /\ 1 \in 1..Len(stack) /\ stack \in Seq(Entries)
  BY EmptySeq, LenProperties DEF Inv, Sound
<1>2. below \in Seq(Entries) /\ Len(below) = Len(stack) - 1
  BY <1>1 DEF below
<1>3. below = <<>> <=> Len(stack) = 1
  BY <1>1, <1>2, EmptySeq
<1>4. /\ 1 = Len(stack) <=> top.who \in Outermost
      /\ top.who # "clinit" /\ Clean(top)
  BY <1>1 DEF Formed, top
<1>5. top.at \in GlueStages \ {"collect"} => top.who \notin Outermost
  BY <1>4 DEF Clean, Outermost, GlueStages, FrameKinds
<1>6. QED
  BY <1>3, <1>4, <1>5

\* What is left when a reference has been dropped.
LEMMA PieceLetGo ==
  ASSUME NEW n, NEW rest, Piece(rest), LetGo(n, rest)
  PROVE  Piece(stack') /\ (rest # <<>> => stack' # <<>>)
<1>1. CASE StrongCount(n) = 1
  <2>1. Piece(Forget(rest, n)) /\ (rest # <<>> => Forget(rest, n) # <<>>)
    BY PieceForget
  <2> DEFINE st == Forget(rest, n)
  <2>2. Piece(st) /\ (rest # <<>> => st # <<>>)
    BY <2>1
  <2>3. stack' = <<OnCopy(n)>> \o st \/ stack' = Dropping(Fields(n), Null) \o st
    BY <1>1 DEF LetGo, Die
  <2> HIDE DEF st
  <2> DEFINE d == Dropping(Fields(n), Null)
             e == OnCopy(n)
  <2>4. Piece(d) /\ Parted(e)
    BY PieceDropping, PieceEntries
  <2> HIDE DEF d, e
  <2>5. /\ Piece(d \o st) /\ (st # <<>> => d \o st # <<>>)
        /\ Piece(<<e>> \o st) /\ <<e>> \o st # <<>>
    BY <2>2, <2>4, PieceConcat, PieceOn
  <2>6. stack' = <<e>> \o st \/ stack' = d \o st
    BY <2>3 DEF d, e
  <2>7. QED
    BY <2>2, <2>5, <2>6
<1>2. CASE StrongCount(n) # 1
  BY <1>2 DEF LetGo
<1>3. QED
  BY <1>1, <1>2

LEMMA PieceUnder ==
  ASSUME NEW s, Piece(s), NEW e, Parted(e), NEW t, Piece(t)
  PROVE  Piece(s \o <<e>> \o t) /\ s \o <<e>> \o t # <<>>
<1> DEFINE u == <<e>>
           v == s \o u
<1>1. Piece(u) /\ u # <<>>
  BY PieceOfOne
<1> HIDE DEF u
<1>2. Piece(v) /\ v # <<>>
  BY <1>1, PieceConcat
<1> HIDE DEF v
<1>3. Piece(v \o t) /\ v \o t # <<>>
  BY <1>2, PieceConcat
<1>4. QED
  BY <1>3 DEF u, v

LEMMA PieceGoTo ==
  ASSUME Inv, stack # <<>>, NEW at, at \notin {"destroy", "free"} \/ top.at = "destroy", GoTo(at)
  PROVE  Piece(stack') /\ stack' # <<>>
<1> DEFINE e == [top EXCEPT !.at = at]
           b == below
<1>1. Parted(e) /\ Piece(b)
  BY PartedTop, PieceBelow
<1>2. stack' = <<e>> \o b
  BY DEF GoTo
<1> HIDE DEF e, b
<1>3. QED
  BY <1>1, <1>2, PieceOn

LEMMA PieceNoted ==
  ASSUME Inv, stack # <<>>, NEW frame, Parted(frame), NEW old, NoteAndCollect(frame, old)
  PROVE  Piece(stack') /\ stack' # <<>>
<1> DEFINE g == Glue("collect", <<old>>, Null)
           b == below
           u == <<g, frame>>
<1>1. Parted(g) /\ Piece(b)
  BY PieceEntries, PieceBelow
<1>2. stack' = u \o b
  BY DEF NoteAndCollect
<1> HIDE DEF g, b
<1>3. Piece(u) /\ u # <<>>
  BY <1>1, PieceOfTwo
<1> HIDE DEF u
<1>4. QED
  BY <1>1, <1>2, <1>3, PieceConcat

LEMMA PiecePut ==
  ASSUME Inv, stack # <<>>, NEW target, NEW s, NEW value, Put(target, s, value)
  PROVE  Piece(stack') /\ stack' # <<>>
<1>1. CASE target \in Locked
  BY <1>1, PieceGoTo DEF Put
<1>2. CASE target \notin Locked
  <2> DEFINE replaced == <<Fields(target)[s]>>
             receiver == Dropping(<<target>>, Null)
             under == Dropping(replaced, target)
             g == Glue("note", replaced, Null)
             e == Operand(Null)
             b == below
             x == CASE DropsUnderLock(target) -> under \o receiver
                    [] ~DropsUnderLock(target) /\ s \in DOMAIN field[target] -> receiver \o <<g>>
                    [] OTHER -> receiver
  <2>1. stack' = x \o <<e>> \o b
    BY <1>2 DEF Put
  <2>2. Piece(receiver) /\ Piece(under) /\ Parted(g) /\ Parted(e) /\ Piece(b)
    BY PieceDropping, PieceEntries, PartedTop, PieceBelow
  <2> HIDE DEF replaced, receiver, under, g, e, b
  <2>3. Piece(<<g>>)
    BY <2>2, PieceOfOne
  <2>4. Piece(under \o receiver) /\ Piece(receiver \o <<g>>)
    BY <2>2, <2>3, PieceConcat
  <2> DEFINE ur == under \o receiver
             rg == receiver \o <<g>>
  <2>5. Piece(ur) /\ Piece(rg)
    BY <2>4
  <2>6. x = ur \/ x = rg \/ x = receiver
    OBVIOUS
  <2> HIDE DEF ur, rg, x
  <2>7. Piece(x)
    BY <2>2, <2>5, <2>6
  <2>8. QED
    BY <2>1, <2>2, <2>7, PieceUnder
<1>3. QED
  BY <1>1, <1>2

\* No step but the start of a pass and its end makes an entry a sweep that was
\* none, or is the last one.
LEMMA Onward ==
  ASSUME Inv, Formed(stack, program), program.boot = "main", stack # <<>>,
         [Next]_vars, ~RunPendingCollection, ~EndPass
  PROVE  Piece(stack') /\ stack' # <<>>
<1> DEFINE b == below
           t == top
<1>1. Piece(stack) /\ Piece(b) /\ Parted(t)
  BY PieceBelow
<1>2. t.who \notin Outermost => b # <<>>
  BY GlueHasBelow
<1>3. t.at \in GlueStages \ {"collect"} => t.who \notin Outermost
  BY GlueHasBelow
<1>4. \A r : Parted(Operand(r))
  BY PartedTop
<1>5. CASE Release
  <2>1. PICK i \in DOMAIN t.refs :
           LET rest == [t EXCEPT !.refs[i] = Null] IN
           LetGo(t.refs[i], IF t.at = "drop" /\ t.lock = Null /\ Empty(rest.refs) THEN b ELSE <<rest>> \o b)
    BY <1>5 DEF Release
  <2> DEFINE r == [t EXCEPT !.refs[i] = Null]
             s == <<r>> \o b
             u == IF t.at = "drop" /\ t.lock = Null /\ Empty(r.refs) THEN b ELSE s
  <2>2. LetGo(t.refs[i], u)
    BY <2>1
  <2>3. Parted(r)
    BY PartedTop
  <2> HIDE DEF r
  <2>4. Piece(s) /\ s # <<>>
    BY <1>1, <2>3, PieceOn
  <2>5. t.at = "drop" => b # <<>>
    BY <1>2, <1>3 DEF GlueStages
  <2> HIDE DEF s, b, t
  <2>6. Piece(u) /\ u # <<>>
    BY <1>1, <2>4, <2>5
  <2> HIDE DEF u
  <2>7. QED
    BY <2>2, <2>6, PieceLetGo
<1>6. CASE Unlock
  BY <1>1, <1>2, <1>3, <1>6 DEF Unlock, At, GlueStages
<1>7. CASE Note
  BY <1>7, PieceGoTo DEF Note
<1>8. CASE Discarded
  <2>1. t.at = "discard" /\ (GoTo("collect") \/ stack' = b)
    BY <1>8 DEF Discarded, At
  <2>2. QED
    BY <1>1, <1>2, <1>3, <2>1, PieceGoTo DEF GlueStages
<1>9. CASE ForceDestroy
  <2>1. PICK n \in t.todo :
          LET rest == <<[t EXCEPT !.todo = @ \ {n}]>> \o b IN
          stack' = rest \/ stack' = <<OnCopy(n)>> \o rest \/ stack' = Dropping(Fields(n), Null) \o rest
    BY <1>9 DEF ForceDestroy
  <2> DEFINE r == [t EXCEPT !.todo = @ \ {n}]
             s == <<r>> \o b
             e == OnCopy(n)
             d == Dropping(Fields(n), Null)
  <2>2. Parted(r) /\ Piece(d) /\ Parted(e)
    BY PartedTop, PieceEntries, PieceDropping
  <2>3. stack' = s \/ stack' = <<e>> \o s \/ stack' = d \o s
    BY <2>1
  <2> HIDE DEF r, b, e, d
  <2>4. Piece(s) /\ s # <<>>
    BY <1>1, <2>2, PieceOn
  <2> HIDE DEF s
  <2>5. Piece(<<e>> \o s) /\ <<e>> \o s # <<>> /\ Piece(d \o s) /\ d \o s # <<>>
    BY <2>2, <2>4, PieceOn, PieceConcat
  <2>6. QED
    BY <2>3, <2>4, <2>5
<1>10. CASE ClearArray
  <2>1. PICK n : GoTo("blocked") \/ stack' = Dropping(Fields(n), n) \o stack
    BY <1>10 DEF ClearArray
  <2> DEFINE d == Dropping(Fields(n), n)
  <2>2. Piece(d)
    BY PieceDropping
  <2>3. GoTo("blocked") \/ stack' = d \o stack
    BY <2>1
  <2> HIDE DEF d
  <2>4. Piece(d \o stack) /\ d \o stack # <<>>
    BY <1>1, <2>2, PieceConcat
  <2>5. QED
    BY <2>3, <2>4, PieceGoTo
<1>11. CASE DropGarbage
  BY <1>11, PieceGoTo DEF DropGarbage, At
<1>12. CASE Free
  <2>1. PICK n \in t.garbage : LetGo(n, <<[t EXCEPT !.garbage = @ \ {n}]>> \o b)
    BY <1>12 DEF Free
  <2> DEFINE r == [t EXCEPT !.garbage = @ \ {n}]
             s == <<r>> \o b
  <2>2. Parted(r) /\ LetGo(n, s)
    BY <2>1, PartedTop
  <2> HIDE DEF r, b
  <2>3. Piece(s) /\ s # <<>>
    BY <1>1, <2>2, PieceOn
  <2> HIDE DEF s
  <2>4. QED
    BY <2>2, <2>3, PieceLetGo
<1>13. CASE \E k \in program.kinds : New(k)
  <2>1. PICK k, n : stack' = (IF k \in {"class", "plain"} THEN <<Frame("construct", Receiving(n))>> ELSE <<>>)
                             \o <<Operand(n)>> \o b
    BY <1>13 DEF New
  <2> DEFINE f == Frame("construct", Receiving(n))
             e == Operand(n)
             s == IF k \in {"class", "plain"} THEN <<f>> ELSE <<>>
  <2>2. Parted(f) /\ Parted(e) /\ stack' = s \o <<e>> \o b
    BY <1>4, <2>1, PieceEntries
  <2> HIDE DEF f, e, b
  <2>3. Piece(<<f>>) /\ Piece(<<>>)
    BY <2>2, PieceOfOne, PieceOfNone
  <2>4. Piece(s)
    BY <2>3
  <2> HIDE DEF s
  <2>5. QED
    BY <1>1, <2>2, <2>4, PieceUnder
<1>14. CASE Load
  <2>1. PICK r : stack' = <<Operand(r)>> \o b
    BY <1>14 DEF Load, Become
  <2> HIDE DEF b
  <2>2. QED
    BY <1>1, <1>4, <2>1, PieceOn
<1>15. CASE GetField
  <2>1. PICK r : GoTo("blocked") \/ stack' = Dropping(<<t.operand>>, Null) \o <<Operand(r)>> \o b
    BY <1>15 DEF GetField
  <2> DEFINE d == Dropping(<<t.operand>>, Null)
             e == Operand(r)
  <2>2. Piece(d) /\ Parted(e) /\ (GoTo("blocked") \/ stack' = d \o <<e>> \o b)
    BY <1>4, <2>1, PieceDropping
  <2> HIDE DEF d, e, b
  <2>3. QED
    BY <1>1, <2>2, PieceUnder, PieceGoTo
<1>16. CASE Store
  <2>1. PICK l : NoteAndCollect([Operand(Null) EXCEPT !.refs[l] = t.operand], t.refs[l])
    BY <1>16 DEF Store
  <2>2. Parted([Operand(Null) EXCEPT !.refs[l] = t.operand])
    BY PartedTop
  <2>3. QED
    BY <2>1, <2>2, PieceNoted
<1>17. CASE SetField
  <2>1. PICK target, s, value : Put(target, s, value)
    BY <1>17 DEF SetField
  <2>2. QED
    BY <2>1, PiecePut
<1>18. CASE SetStatic
  <2>1. NoteAndCollect(Operand(Null), static)
    BY <1>18 DEF SetStatic
  <2>2. QED
    BY <1>4, <2>1, PieceNoted
<1>19. CASE Pop
  <2> DEFINE g == Glue("discard", <<t.operand>>, Null)
             e == Operand(Null)
             u == <<g, e>>
  <2>1. Parted(g) /\ Parted(e) /\ stack' = u \o b
    BY <1>4, <1>19, PieceEntries DEF Pop
  <2> HIDE DEF g, e, b
  <2>2. Piece(u) /\ u # <<>>
    BY <2>1, PieceOfTwo
  <2> HIDE DEF u
  <2>3. QED
    BY <1>1, <2>1, <2>2, PieceConcat
<1>20. CASE Call
  <2> DEFINE f == Frame("call", Receiving(t.operand))
             e == Operand(Null)
             u == <<f, e>>
  <2>1. Parted(f) /\ Parted(e) /\ stack' = u \o b
    BY <1>4, <1>20, PieceEntries DEF Call
  <2> HIDE DEF f, e, b
  <2>2. Piece(u) /\ u # <<>>
    BY <2>1, PieceOfTwo
  <2> HIDE DEF u
  <2>3. QED
    BY <1>1, <2>1, <2>2, PieceConcat
<1>21. CASE Leave
  <2>1. PICK thrown : stack' = <<[t EXCEPT !.at = "collect", !.thrown = thrown]>> \o b
    BY <1>21 DEF Leave, Become
  <2> DEFINE e == [t EXCEPT !.at = "collect", !.thrown = thrown]
  <2>2. Parted(e) /\ stack' = <<e>> \o b
    BY <2>1, PartedTop
  <2> HIDE DEF e, b
  <2>3. QED
    BY <1>1, <2>2, PieceOn
<1>22. CASE Thread \/ Over \/ UNCHANGED vars
  BY <1>1, <1>22 DEF Thread, Over, vars
<1>23. QED
  BY <1>5, <1>6, <1>7, <1>8, <1>9, <1>10, <1>11, <1>12, <1>13, <1>14, <1>15, <1>16, <1>17,
     <1>18, <1>19, <1>20, <1>21, <1>22 DEF Next

\* What an entry leaves when it is through with its pass.
LEMMA PieceFinished ==
  ASSUME Inv, Formed(stack, program), program.boot = "main", stack # <<>>
  PROVE  Piece(Finished) /\ (Finished = <<>> <=> top.who = "sweep")
<1> DEFINE t == top
           b == below
           u == below[1]
           r == Tail(below)
           g == [Glue("collect", <<top.operand>>, Null) EXCEPT !.who = "sweep"]
           d == Dropping(<<top.operand>>, Null)
           f == [u EXCEPT !.operand = top.operand]
<1>1. /\ Piece(b) /\ Piece(d) /\ (b # <<>> => Piece(r) /\ Parted(u) /\ u \in Entries)
      /\ t.who \notin Outermost <=> b # <<>>
      /\ t.who # "clinit" /\ Clean(t)
  BY PieceBelow, PieceDropping, GlueHasBelow
<1>2. Parted(g)
  BY DEF Parted, Had, Sweeping, Glue, Frame
<1>3. /\ t.who = "main" => Finished = <<g>>
      /\ t.who = "call" /\ ~t.thrown => Finished = <<f>> \o r
      /\ t.who # "main" /\ t.thrown => Finished = d \o b
      /\ t.who # "main" /\ ~t.thrown /\ t.who # "call" => Finished = b
  BY <1>1 DEF Finished
<1>4. t.who = "sweep" => ~t.thrown
  BY <1>1 DEF Clean
<1>5. b # <<>> => Parted(f)
  <2> SUFFICES ASSUME b # <<>> PROVE Parted(f)
    OBVIOUS
  <2>1. Parted(u) /\ u \in Entries
    BY <1>1
  <2> HIDE DEF u
  <2>2. DOMAIN f = DOMAIN u /\ f.who = u.who /\ f.at = u.at /\ f.survivors = u.survivors
    BY <2>1 DEF Parted
  <2> HIDE DEF f
  <2>3. QED
    BY <2>1, <2>2 DEF Parted, Had, Sweeping
<1> HIDE DEF b, u, r, g, d, f
<1>6. CASE t.who = "main"
  <2>1. Piece(<<g>>) /\ <<g>> # <<>>
    BY <1>2, PieceOfOne
  <2>2. QED
    BY <1>3, <1>6, <2>1 DEF t
<1>7. CASE t.who = "call" /\ ~t.thrown
  <2>1. Piece(<<f>> \o r) /\ <<f>> \o r # <<>>
    BY <1>1, <1>5, <1>7, PieceOn DEF Outermost
  <2>2. QED
    BY <1>3, <1>7, <2>1 DEF t
<1>8. CASE t.who # "main" /\ t.thrown
  <2>1. Piece(d \o b) /\ (b # <<>> => d \o b # <<>>)
    BY <1>1, PieceConcat
  <2>2. QED
    BY <1>1, <1>3, <1>4, <1>8, <2>1 DEF Outermost, t
<1>9. CASE t.who # "main" /\ ~t.thrown /\ t.who # "call"
  BY <1>1, <1>3, <1>9 DEF Outermost, t
<1>10. QED
  BY <1>6, <1>7, <1>8, <1>9

\* A pass: only that of the sweep makes a sweep of its entry, or ends with it.
LEMMA CollectionOnward ==
  ASSUME Inv, Formed(stack, program), program.boot = "main", RunPendingCollection
  PROVE  LET set == Closure(pending) IN
         \/ Piece(stack') /\ stack' # <<>>
         \/ /\ top.who = "sweep" /\ top.at = "collect" /\ Empty(top.refs) /\ stack # <<>>
            /\ threads' = threads
            /\ stack' = <<>> /\ ~threads => set \ LiveIn(set) = {}
            /\ \A e \in In(stack') : Sweeping(e) => pending' = {} /\ e.survivors = LiveIn(set)
<1> DEFINE set == Closure(pending)
           G == set \ LiveIn(set)
           b == below
           t == top
           f == [t EXCEPT !.at = "destroy", !.garbage = G, !.todo = {n \in G : IsObject(n)},
                          !.survivors = Survivors(set)]
           x == [t EXCEPT !.at = "blocked", !.survivors = set]
<1>1. stack # <<>> /\ t.at = "collect" /\ Empty(t.refs) /\ threads' = threads
  BY DEF RunPendingCollection, At
<1>2. \/ stack' = Finished /\ (threads \/ G = {})
      \/ stack' = <<x>> \o b
      \/ stack' = <<f>> \o b /\ pending' = {}
  BY DEF RunPendingCollection
<1>3. Piece(Finished) /\ (Finished = <<>> <=> t.who = "sweep")
  BY <1>1, PieceFinished
<1>4. Piece(b) /\ t \in Entries /\ (t.who = "sweep" => b = <<>>)
  BY <1>1, PieceBelow, GlueHasBelow DEF Outermost
<1> DEFINE S == LiveIn(set)
<1>5. /\ f.who = t.who /\ f.survivors = S /\ {"who", "at", "survivors"} \subseteq DOMAIN f
      /\ x.at = "blocked" /\ {"who", "at", "survivors"} \subseteq DOMAIN x
  BY <1>4 DEF Entries, Survivors
<1> HIDE DEF f, x, b, t, G, set, S
<1>6. Parted(x)
  BY <1>5 DEF Parted, Had, Sweeping
<1>7. CASE stack' = Finished /\ (threads \/ G = {})
  <2>1. CASE t.who = "sweep"
    <3>1. stack' = <<>> /\ In(stack') = {}
      BY <1>3, <1>7, <2>1 DEF In
    <3>2. ~threads => set \ LiveIn(set) = {}
      BY <1>7 DEF G
    <3>3. QED
      BY <1>1, <2>1, <3>1, <3>2 DEF t, set
  <2>2. CASE t.who # "sweep"
    BY <1>3, <1>7, <2>2
  <2>3. QED
    BY <2>1, <2>2
<1>8. CASE stack' = <<x>> \o b
  BY <1>4, <1>6, <1>8, PieceOn
<1>9. CASE stack' = <<f>> \o b /\ pending' = {}
  <2>1. CASE t.who = "sweep"
    <3>1. stack' = <<f>>
      BY <1>4, <1>9, <2>1
    <3>2. In(stack') = {f} /\ stack' # <<>>
      BY <3>1 DEF In
    <3>3. QED
      BY <1>1, <1>5, <1>9, <2>1, <3>2 DEF t, set, S
  <2>2. CASE t.who # "sweep"
    <3>1. Parted(f)
      BY <1>5, <2>2 DEF Parted, Had, Sweeping
    <3>2. QED
      BY <1>4, <1>9, <3>1, PieceOn
  <2>3. QED
    BY <2>1, <2>2
<1>10. QED
  BY <1>2, <1>7, <1>8, <1>9

\* What is counted is there: a reference from outside (External).
LEMMA HasExternal ==
  ASSUME Inv, NEW n \in live, NEW set, External(n, set) > 0
  PROVE  static = n \/ n \in HeldOn(stack) \/ \E m \in live \ set : n \in Range(field[m])
<1> SUFFICES ASSUME static # n, n \notin HeldOn(stack), \A m \in live \ set : n \notin Range(field[m])
             PROVE  FALSE
  OBVIOUS
<1> DEFINE E == Edges(n)
           own == {e \in E : e[1] \in set}
           S == OnStack(n)
<1>1. stack \in Seq(Entries) /\ DOMAIN stack = 1..Len(stack) /\ n # Null
  BY LenProperties, Numbers DEF Inv, Sound, HeapOK
<1>2. NoneRefers(stack, n)
  BY <1>1, Holder
<1>3. \A i \in 1..Len(stack) : HeldAt(stack[i], n) = {}
  <2>1. \A i \in 1..Len(stack) : stack[i] \in Entries
    BY <1>1, ElementOfSeq
  <2>2. QED
    BY <1>2, <2>1, Places DEF NoneRefers
<1>4. S = {}
  BY <1>1, <1>3 DEF OnStack
<1>5. own = E
  <2> SUFFICES ASSUME NEW e \in E PROVE e[1] \in set
    OBVIOUS
  <2>1. PICK m \in live, s \in Slots : e = <<m, s>> /\ Fields(m)[s] = n
    BY DEF Edges
  <2>2. s \in DOMAIN field[m] /\ field[m][s] = n
    BY <1>1, <2>1 DEF Fields
  <2>3. n \in Range(field[m])
    BY <2>2 DEF Range
  <2>4. QED
    BY <2>1, <2>3
<1>6. IsFiniteSet(E) /\ Cardinality(E) \in Nat
  BY Countable, FS_CardinalityType DEF Inv
<1>7. Cardinality(S) = 0
  BY <1>4, FS_EmptySet
<1>8. /\ External(n, set) = (StrongCount(n) + 1) - 1 - Cardinality(own)
      /\ StrongCount(n) = Cardinality(E) + (IF static = n THEN 1 ELSE 0) + Cardinality(S)
  BY DEF External, StrongCount
<1> HIDE DEF E, own, S
<1>9. External(n, set) = 0
  BY <1>5, <1>6, <1>7, <1>8
<1>10. QED
  BY <1>9

\* What the static reaches is closed, and within the program's reach.
LEMMA StaticReach ==
  ASSUME Inv
  PROVE  /\ Closure({static}) \subseteq live /\ static \in Closure({static}) \cup {Null}
         /\ ClosedIn(field, Closure({static})) /\ Null \notin live
         /\ \A m \in live : \A s \in DOMAIN field[m] : field[m][s] \in live \cup {Null}
         /\ Closure({static}) \subseteq ProgramReaches
<1>1. Closure({static}) = Reach(live, field, {static})
  BY Reaches
<1>2. \A m \in live : \A s \in DOMAIN field[m] : field[m][s] \in live \cup {Null}
  BY DEF Inv, HeapOK, Range
<1>3. {static} \ {Null} \subseteq live /\ Null \notin live
  BY Numbers DEF Inv, HeapOK
<1> DEFINE C == Closure({static})
           S == {static}
           R == Reach(live, field, S)
<1>4. C \subseteq live /\ {static} \ {Null} \subseteq C /\ ClosedIn(field, C)
  <2>1. C = R /\ S \ {Null} \subseteq live
    BY <1>1, <1>3
  <2> HIDE DEF C, S
  <2>2. R \subseteq live /\ S \ {Null} \subseteq R /\ ClosedIn(field, R)
    BY <1>2, <2>1, ReachClosed
  <2> HIDE DEF R
  <2>3. C \subseteq live /\ S \ {Null} \subseteq C /\ ClosedIn(field, C)
    BY <2>1, <2>2
  <2>4. QED
    BY <2>3 DEF S
<1>5. stack \in Seq(Entries)
  BY DEF Inv, Sound
<1>6. ProgramReaches = Reach(live, field, Roots) /\ {static} \subseteq Roots \cup {Null}
  BY <1>5, RootsReach DEF Roots
<1>7. C \subseteq ProgramReaches
  BY <1>1, <1>6, ReachMore
<1>8. QED
  BY <1>2, <1>3, <1>4, <1>7

\* With nothing but the candidates and S left to start from, S known to be
\* reached from the static, the rest is too.
LEMMA NothingElse ==
  ASSUME Inv, Counted, Acyclic, NEW S, S \subseteq live,
         HeldOn(stack) \subseteq {Null}, pending \cup KeptOn(stack) \subseteq S \cup {Null}
  PROVE  live \subseteq Closure({static}) \cup Closure(S)
<1> DEFINE C == Closure({static})
           D == Closure(S)
           U == {static} \cup S
<1>1. /\ C \subseteq live /\ static \in C \cup {Null} /\ ClosedIn(field, C)
      /\ \A m \in live : \A s \in DOMAIN field[m] : field[m][s] \in live \cup {Null}
      /\ Null \notin live
  BY StaticReach
<1>2. D = Reach(live, field, S) /\ S \ {Null} \subseteq live
  BY Reaches
<1>3. D \subseteq live /\ S \ {Null} \subseteq D /\ ClosedIn(field, D)
  BY <1>1, <1>2, ReachClosed
<1>4. Anchors \cup HeldOn(stack) \subseteq U \cup {Null} /\ U \subseteq live \cup {Null}
  BY <1>1 DEF Anchors
<1> HIDE DEF C, D
<1>5. live \subseteq Closure(U)
  <2> HIDE DEF U
  <2>1. QED
    BY <1>4, AllReached
<1>6. Closure(U) = Reach(live, field, U)
  BY Reaches
<1>7. C \cup D \subseteq live /\ U \ {Null} \subseteq C \cup D /\ ClosedIn(field, C \cup D)
  BY <1>1, <1>3 DEF ClosedIn
<1>8. Reach(live, field, U) \subseteq C \cup D
  BY <1>7, Least
<1>9. QED
  BY <1>5, <1>6, <1>8 DEF C, D

\* The final sweep counts references exactly: what it finds live is reached from
\* the static, and so is all that it does not find to be garbage.
LEMMA SweepExact ==
  ASSUME Inv, Formed(stack, program), program.boot = "main", Counted, Acyclic,
         stack # <<>>, top.who = "sweep", top.at = "collect", Empty(top.refs)
  PROVE  LET set == Closure(pending) IN
         /\ LiveIn(set) \subseteq Closure({static})
         /\ live \subseteq Closure({static}) \cup (set \ LiveIn(set))
<1> DEFINE C == Closure({static})
           set == Closure(pending)
           ext == {n \in set : External(n, set) > 0}
           L == LiveIn(set)
           t == top
<1>1. stack = <<t>>
  <2>1. stack = Push(t, below) /\ below = <<>> /\ t \in Entries
    BY Apart, GlueHasBelow DEF Inv, Sound, top, below, Outermost
  <2> HIDE DEF t
  <2>2. QED
    BY <2>1 DEF Push
<1>2. Clean(t)
  BY GlueHasBelow
<1>3. /\ Range(t.refs) \subseteq {Null} /\ t.operand = Null /\ t.garbage = {} /\ t.survivors = {}
      /\ t.at \notin {"run", "note", "blocked"}
  BY <1>2 DEF Clean, Empty
<1> HIDE DEF t
<1>4. HeldOn(stack) \subseteq {Null} /\ KeptOn(stack) = {}
  <2>1. \A i \in 1..Len(stack) : stack[i] = t
    BY <1>1
  <2>2. \A i \in 1..Len(stack) : Refd(stack[i]) \subseteq {Null} /\ Kept(stack[i]) = {}
    BY <1>3, <2>1 DEF Refd, Kept
  <2>3. QED
    BY <2>2 DEF HeldOn, KeptOn
<1>5. pending \subseteq live /\ KeptOn(stack) = {}
  BY <1>4 DEF Inv, HeapOK
<1>6. live \subseteq C \cup set
  BY <1>4, <1>5, NothingElse
<1>7. /\ C \subseteq live /\ static \in C \cup {Null} /\ ClosedIn(field, C) /\ Null \notin live
  BY StaticReach
<1>8. set \subseteq live
  BY Reached
<1>9. L = Reach(live, field, ext)
  BY Reaches DEF LiveIn
<1> HIDE DEF C, set
<1>10. ext \subseteq C
  <2> SUFFICES ASSUME NEW n \in set, External(n, set) > 0 PROVE n \in C
    OBVIOUS
  <2>1. n \in live /\ n # Null
    BY <1>7, <1>8
  <2>2. static = n \/ n \in HeldOn(stack) \/ \E m \in live \ set : n \in Range(field[m])
    BY <2>1, HasExternal
  <2>3. ASSUME NEW m \in live \ set, n \in Range(field[m]) PROVE n \in C
    BY <1>6, <1>7, <2>1, <2>3 DEF ClosedIn, Range
  <2>4. QED
    BY <1>4, <1>7, <2>1, <2>2, <2>3
<1> HIDE DEF ext, L
<1>11. L \subseteq C
  <2>1. ext \ {Null} \subseteq C
    BY <1>10
  <2>2. QED
    BY <1>7, <1>9, <2>1, Least
<1>12. live \subseteq C \cup (set \ L)
  BY <1>6, <1>11
<1>13. QED
  BY <1>11, <1>12 DEF C, set, L

\* The end of its pass: nothing is left on the stack.
LEMMA SweepEnds ==
  ASSUME Inv, Formed(stack, program), program.boot = "main", Counted, Acyclic,
         stack # <<>>, top.who = "sweep", top.at = "free", top.garbage = {},
         pending \cup top.survivors \subseteq Closure({static})
  PROVE  live \subseteq Closure({static})
<1> DEFINE C == Closure({static})
           t == top
<1>1. stack = <<t>>
  <2>1. stack = Push(t, below) /\ below = <<>> /\ t \in Entries
    BY Apart, GlueHasBelow DEF Inv, Sound, top, below, Outermost
  <2> HIDE DEF t
  <2>2. QED
    BY <2>1 DEF Push
<1>2. Clean(t)
  BY GlueHasBelow
<1>3. /\ Range(t.refs) \subseteq {Null} /\ t.operand = Null /\ t.garbage = {} /\ t.survivors \subseteq C
      /\ t.at \notin {"run", "note", "blocked"}
  BY <1>2 DEF Clean, Empty
<1>4. C \subseteq live /\ ClosedIn(field, C)
  BY StaticReach
<1>5. pending \subseteq C
  OBVIOUS
<1> HIDE DEF t, C
<1>6. HeldOn(stack) \subseteq {Null} /\ KeptOn(stack) \subseteq C
  <2>1. \A i \in 1..Len(stack) : stack[i] = t
    BY <1>1
  <2>2. \A i \in 1..Len(stack) : Refd(stack[i]) \subseteq {Null} /\ Kept(stack[i]) \subseteq C
    BY <1>3, <2>1 DEF Refd, Kept
  <2>3. QED
    BY <2>2 DEF HeldOn, KeptOn
<1>7. pending \cup KeptOn(stack) \subseteq C \cup {Null}
  BY <1>5, <1>6
<1>8. live \subseteq Closure({static}) \cup Closure(C)
  BY <1>4, <1>6, <1>7, NothingElse
<1>9. Closure(C) \subseteq C
  <2>1. Closure(C) = Reach(live, field, C)
    BY Reaches
  <2>2. C \ {Null} \subseteq C
    OBVIOUS
  <2>3. QED
    BY <1>4, <2>1, <2>2, Least
<1>10. QED
  BY <1>8, <1>9 DEF C

\* While the sweep reclaims, drops are all that is above it, for there are no
\* destructors.
LEMMA WhileSweeping ==
  ASSUME Inv, Formed(stack, program), NoClass(program), NEW d \in In(stack), Sweeping(d)
  PROVE  stack # <<>> /\ top.at \in {"drop", "destroy", "free"} /\ (top.at # "drop" => top = d)
<1>1. PICK j \in 1..Len(stack) : d = stack[j]
  BY DEF In
<1>2. Len(stack) \in Nat /\ stack # <<>> /\ 1 \in 1..Len(stack)
  BY <1>1, EmptySeq, LenProperties DEF Inv, Sound
<1>3. CASE j = 1
  BY <1>1, <1>2, <1>3 DEF top, Sweeping
<1>4. CASE j # 1
  <2>1. 1 < j /\ stack[j].at # "run"
    BY <1>1, <1>2, <1>4 DEF Sweeping
  <2>2. stack[1].at = "drop"
    BY <1>2, <2>1 DEF Formed
  <2>3. QED
    BY <1>2, <2>2 DEF top
<1>5. QED
  BY <1>3, <1>4

\* Drops and passes leave the static alone, and note no candidate.
LEMMA StaysPut ==
  ASSUME [Next]_vars, stack # <<>>, top.at \in {"drop", "destroy", "free"}
  PROVE  static' = static /\ (EndPass \/ pending' \subseteq pending)
<1>1. \A n, rest : LetGo(n, rest) => pending' \subseteq pending
  BY DEF LetGo, Die, Upgradable
<1>2. CASE Release \/ Free
  BY <1>1, <1>2 DEF Release, Free
<1>3. CASE Unlock \/ DropGarbage \/ EndPass
  BY <1>3 DEF Unlock, DropGarbage, EndPass, gc
<1>4. CASE ForceDestroy \/ ClearArray
  BY <1>4 DEF ForceDestroy, ClearArray, gc
<1>5. CASE Thread \/ Over \/ UNCHANGED vars
  BY <1>5 DEF Thread, Over, vars, gc
<1>6. CASE Note \/ Discarded \/ RunPendingCollection
  BY <1>6 DEF Note, Discarded, RunPendingCollection, At
<1>7. CASE Load \/ GetField \/ Store \/ SetField
  BY <1>7 DEF Load, GetField, Store, SetField, Running, At
<1>8. CASE SetStatic \/ Pop \/ Call \/ Leave \/ \E k \in program.kinds : New(k)
  BY <1>8 DEF SetStatic, Pop, Call, Leave, New, Running, At
<1>9. QED
  BY <1>2, <1>3, <1>4, <1>5, <1>6, <1>7, <1>8 DEF Next

\* A node that is emptied was not among what the static reaches, and its edges
\* were not on the way.
LEMMA EmptiedReach ==
  ASSUME Inv, Inv', NEW n, NEW gone, Emptied(n, gone), n \notin Closure({static})
  PROVE  Closure({static}) \subseteq Closure({static})'
<1> DEFINE S == {static}
           C == Closure({static})
           D == Reach(live', field', S)
<1>1. /\ C \subseteq live /\ static \in C \cup {Null} /\ ClosedIn(field, C) /\ Null \notin live
      /\ C = Reach(live, field, S)
  BY StaticReach, Reaches
<1>2. static' = static /\ Closure({static})' = Reach(live', field', {static'})
  BY DEF Emptied, Closure, Reach, ClosedIn
<1>3. Closure({static})' = D
  BY <1>2
<1>4. /\ \A m \in Nodes \ {n, CopyOf(n)} : field'[m] = field[m]
      /\ (CopyOf(n) \in live => CopyOf(n) = n \/ field'[CopyOf(n)] = field[CopyOf(n)])
      /\ live \subseteq Nodes
  BY EmptiedFields
<1>5. S \ {Null} \subseteq live' /\ \A m \in live' : \A s \in DOMAIN field'[m] : field'[m][s] \in live' \cup {Null}
  BY <1>2 DEF Inv, HeapOK, Range
<1> HIDE DEF C
<1>6. S \ {Null} \subseteq C
  BY <1>1
<1> HIDE DEF S
<1>7. D \subseteq live' /\ S \ {Null} \subseteq D /\ ClosedIn(field', D)
  BY <1>5, ReachClosed
<1> HIDE DEF D
<1>8. ASSUME NEW m \in C PROVE field'[m] = field[m]
  <2>1. m \in live /\ m \in Nodes /\ m # n
    BY <1>1, <1>4 DEF C
  <2>2. QED
    BY <1>4, <2>1
<1>9. ClosedIn(field, C \cap D)
  BY <1>1, <1>7, <1>8 DEF ClosedIn
<1>10. C \cap D \subseteq live /\ S \ {Null} \subseteq C \cap D
  BY <1>1, <1>6, <1>7
<1>11. C \subseteq C \cap D
  BY <1>1, <1>9, <1>10, Least
<1>12. QED
  BY <1>3, <1>11 DEF C

\* So the static reaches what it reached.
LEMMA StaticKept ==
  ASSUME Inv, Inv', Shape, Safe, NoClass(program), [Next]_vars,
         stack # <<>>, top.at \in {"drop", "destroy", "free"}
  PROVE  Closure({static}) \subseteq Closure({static})'
<1> DEFINE C == Closure({static})
<1>1. static' = static
  BY StaysPut
<1>2. CASE UNCHANGED heap
  <2>1. Closure({static})' = C
    BY <1>1, <1>2 DEF Closure, heap
  <2>2. QED
    BY <2>1
<1>3. /\ C \subseteq live /\ static \in C \cup {Null} /\ ClosedIn(field, C)
      /\ C \subseteq ProgramReaches
  BY StaticReach
<1>4. C = Reach(live, field, {static})
  BY Reaches
<1>5. Quiet /\ Single
  BY DEF Quiet, Shape
<1>6. ASSUME NEW n, Guts(n) \/ Clears(n) PROVE C \subseteq Closure({static})'
  <2>1. Emptied(n, {})
    BY <1>5, <1>6, GutsEmpties
  <2>2. n \in GarbageOn(stack)
    BY <1>6 DEF Guts, Clears
  <2>3. n \notin C
    <3> HIDE DEF C
    <3>1. QED
      BY <1>3, <1>5, <2>2 DEF Safe
  <2>4. QED
    BY <2>1, <2>3, EmptiedReach
<1>7. ASSUME NEW n, Frees(n) PROVE C \subseteq Closure({static})'
  <2>1. Emptied(n, {n})
    BY <1>5, <1>7, FreesEmpties
  <2>2. static # n /\ \A m \in Nodes : n \notin Range(field[m])
    BY <1>7 DEF Frees, Freed
  <2>3. live \subseteq Nodes
    BY DEF Inv, HeapOK
  <2> DEFINE S == {static}
             T == C \ {n}
  <2>4. C = Reach(live, field, S)
    BY <1>4
  <2> HIDE DEF C
  <2>5. T \subseteq live /\ S \ {Null} \subseteq T /\ ClosedIn(field, T)
    <3>1. \A m \in T : m \in Nodes /\ m \in C
      BY <1>3, <2>3
    <3>2. \A m \in T : \A s \in DOMAIN field[m] : field[m][s] # n
      BY <2>2, <3>1 DEF Range
    <3>3. ClosedIn(field, T)
      BY <1>3, <3>1, <3>2 DEF ClosedIn
    <3>4. QED
      BY <1>3, <2>2, <3>3
  <2> HIDE DEF S, T
  <2>6. C \subseteq T
    BY <2>4, <2>5, Least
  <2>7. n \notin C
    BY <2>6 DEF T
  <2>8. QED
    BY <2>1, <2>7, EmptiedReach DEF C
<1>8. CASE Steady \/ \E n : Spares(n)
  BY <1>2, <1>8 DEF Steady, Spares
<1>9. ASSUME (\E G : Reclaims(G)) \/ (\E n, k : Allocates(n, k)) \/ (\E m, s, v : Puts(m, s, v)) PROVE FALSE
  BY <1>9 DEF Reclaims, Allocates, Puts
<1>10. Moves
  BY NextMoves
<1>11. QED
  BY <1>6, <1>7, <1>8, <1>9, <1>10 DEF Moves

\* The sweep keeps nothing but what the static reaches.
Swept ==
  program.boot = "main" /\ NoClass(program) =>
    /\ stack = <<>> /\ ~threads => live \subseteq Closure({static})
    /\ \A e \in In(stack) : Sweeping(e) => pending \cup e.survivors \subseteq Closure({static})

LEMMA SweptInit == ASSUME Init PROVE Swept
<1> DEFINE f == Frame(program.boot, NoLocals)
<1>1. stack = <<f>> /\ f.who = program.boot
  BY DEF Init, Frame
<1> HIDE DEF f
<1>2. In(stack) = {f} /\ stack # <<>>
  BY <1>1 DEF In
<1>3. QED
  BY <1>1, <1>2 DEF Swept, Sweeping

LEMMA SweptNext ==
  ASSUME Leak, Inv', Swept, [Next]_vars
  PROVE  Swept'
<1>1. /\ Inv /\ Shape /\ Formed(stack, program) /\ Safe /\ Counted
      /\ (NoClass(program) => Acyclic)
  BY DEF Leak, Shape, Known, Quiet
<1>2. program' = program
  BY <1>1, NextMoves DEF Moves, Steady, Reclaims, Guts, Clears, Allocates, Puts, Frees, Spares
<1> DEFINE C == Closure({static})
           K == Closure({static})'
<1>3. SUFFICES ASSUME program.boot = "main", NoClass(program)
               PROVE  /\ stack' = <<>> /\ ~threads' => live' \subseteq K
                      /\ \A e \in In(stack') : Sweeping(e) => pending' \cup e.survivors \subseteq K
  BY <1>2 DEF Swept, In, NoClass, Sweeping
<1>4. /\ stack = <<>> /\ ~threads => live \subseteq C
      /\ \A e \in In(stack) : Sweeping(e) => pending \cup e.survivors \subseteq C
  BY <1>3 DEF Swept
<1>5. UNCHANGED <<heap, static>> => K = C /\ live' = live
  BY DEF heap, Closure
<1> HIDE DEF C, K
<1>6. Acyclic
  BY <1>1, <1>3
<1>7. CASE stack = <<>>
  <2>1. UNCHANGED vars
    <3>1. ~Release /\ ~Unlock /\ ~Note /\ ~Discarded /\ ~RunPendingCollection
      BY <1>7 DEF Release, Unlock, Note, Discarded, RunPendingCollection, At
    <3>2. ~ForceDestroy /\ ~ClearArray /\ ~DropGarbage /\ ~Free /\ ~EndPass
      BY <1>7 DEF ForceDestroy, ClearArray, DropGarbage, Free, EndPass, At
    <3>3. ~Load /\ ~GetField /\ ~Store /\ ~SetField /\ ~SetStatic /\ ~Pop /\ ~Call /\ ~Leave
      BY <1>7 DEF Load, GetField, Store, SetField, SetStatic, Pop, Call, Leave, Running, At
    <3>4. ~Thread /\ \A k \in program.kinds : ~New(k)
      BY <1>7 DEF Thread, New, Running, At
    <3>5. Over => UNCHANGED vars
      BY DEF Over, vars
    <3>6. QED
      BY <3>1, <3>2, <3>3, <3>4, <3>5 DEF Next
  <2>2. /\ UNCHANGED <<heap, static>> /\ threads' = threads
        /\ stack' = stack /\ In(stack') = {}
    BY <1>7, <2>1 DEF vars, In
  <2>3. QED
    BY <1>4, <1>5, <1>7, <2>2
<1>8. ASSUME stack # <<>>, NEW e, Had(e), Sweeping(e), ~EndPass
      PROVE  pending' \cup e.survivors \subseteq K
  <2>1. PICK d \in In(stack) : Sweeping(d) /\ e.survivors \subseteq d.survivors
    BY <1>8 DEF Had
  <2>2. top.at \in {"drop", "destroy", "free"}
    BY <1>1, <1>3, <2>1, WhileSweeping
  <2>3. pending' \subseteq pending
    BY <1>8, <2>2, StaysPut
  <2>4. C \subseteq K
    BY <1>1, <1>3, <1>8, <2>2, StaticKept DEF C, K
  <2>5. QED
    BY <1>4, <2>1, <2>3, <2>4
<1>9. CASE stack # <<>> /\ RunPendingCollection
  <2> DEFINE set == Closure(pending)
             L == LiveIn(set)
  <2>1. UNCHANGED <<heap, static>> /\ ~EndPass
    BY <1>9 DEF RunPendingCollection, EndPass, At
  <2>2. \/ Piece(stack') /\ stack' # <<>>
        \/ /\ top.who = "sweep" /\ top.at = "collect" /\ Empty(top.refs)
           /\ threads' = threads
           /\ stack' = <<>> /\ ~threads => set \ L = {}
           /\ \A e \in In(stack') : Sweeping(e) => pending' = {} /\ e.survivors = L
    BY <1>1, <1>3, <1>9, CollectionOnward
  <2>3. CASE Piece(stack') /\ stack' # <<>>
    BY <1>8, <1>9, <2>1, <2>3 DEF Piece, Parted
  <2>4. CASE /\ top.who = "sweep" /\ top.at = "collect" /\ Empty(top.refs)
             /\ threads' = threads
             /\ stack' = <<>> /\ ~threads => set \ L = {}
             /\ \A e \in In(stack') : Sweeping(e) => pending' = {} /\ e.survivors = L
    <3>1. L \subseteq C /\ live \subseteq C \cup (set \ L)
      BY <1>1, <1>3, <1>6, <1>9, <2>4, SweepExact DEF C
    <3> HIDE DEF set, L
    <3>2. QED
      BY <1>5, <2>1, <2>4, <3>1
  <2>5. QED
    BY <2>2, <2>3, <2>4
<1>10. CASE stack # <<>> /\ EndPass
  <2>1. /\ UNCHANGED <<heap, static>> /\ stack' = Finished
        /\ top.at = "free" /\ top.garbage = {}
    BY <1>10 DEF EndPass, At
  <2>2. Piece(Finished) /\ (Finished = <<>> <=> top.who = "sweep")
    BY <1>1, <1>3, <1>10, PieceFinished
  <2>3. CASE top.who = "sweep"
    <3>1. top \in In(stack) /\ Sweeping(top)
      BY <1>1, <1>10, <2>1, <2>3, PieceBelow DEF Sweeping
    <3>2. pending \cup top.survivors \subseteq C
      BY <1>4, <3>1
    <3>3. live \subseteq C
      BY <1>1, <1>3, <1>6, <1>10, <2>1, <2>3, <3>2, SweepEnds DEF C
    <3>4. stack' = <<>> /\ In(stack') = {}
      BY <2>1, <2>2, <2>3 DEF In
    <3>5. QED
      BY <1>5, <2>1, <3>3, <3>4
  <2>4. CASE top.who # "sweep"
    <3>1. stack' # <<>> /\ Piece(stack')
      BY <2>1, <2>2, <2>4
    <3>2. ASSUME NEW e \in In(stack'), Sweeping(e) PROVE FALSE
      <4>1. PICK d \in In(stack) : Sweeping(d)
        BY <3>1, <3>2 DEF Piece, Parted, Had
      <4>2. top = d
        BY <1>1, <1>3, <2>1, <4>1, WhileSweeping
      <4>3. QED
        BY <2>4, <4>1, <4>2 DEF Sweeping
    <3>3. QED
      BY <3>1, <3>2
  <2>5. QED
    BY <2>3, <2>4
<1>11. CASE stack # <<>> /\ ~RunPendingCollection /\ ~EndPass
  <2>1. Piece(stack') /\ stack' # <<>>
    BY <1>1, <1>3, <1>11, Onward
  <2>2. QED
    BY <1>8, <1>11, <2>1 DEF Piece, Parted
<1>12. QED
  BY <1>7, <1>9, <1>10, <1>11

\* AllReclaimedAtExit: of a program without destructors that is over, nothing is
\* left but what its static reaches.
THEOREM EverythingIsReclaimed == Spec => []AllReclaimedAtExit
<1>1. Init => Swept
  BY SweptInit
<1>2. Leak /\ Leak' /\ Swept /\ [Next]_vars => Swept'
  BY SweptNext DEF Leak
<1>3. Swept => AllReclaimedAtExit
  BY DEF Swept, AllReclaimedAtExit, NoClass
<1>4. QED
  BY <1>1, <1>2, <1>3, LeakInvariant, PTL DEF Spec

-----------------------------------------------------------------------------
(* Passes that find the call stack full.                                   *)

Passing(e) == e.at \in {"destroy", "free"}

\* The frames that entry i of a stack stands on, its own included.
Calls(st, i) == {k \in 1..(Len(st) - i + 1) : st[i + k - 1].who \in FrameKinds}
Full(st, i, d) == Passing(st[i]) /\ Cardinality(Calls(st, i)) >= d

\* A stack no pass on which finds d frames.
Shallow(st, d) == /\ \E X : st \in Seq(X)
                  /\ \A i \in 1..Len(st) : ~Full(st, i, d)

\* Entries none of which is a pass.
Idle(st) == /\ \E X : st \in Seq(X)
            /\ \A i \in 1..Len(st) : ~Passing(st[i])

LEMMA Concat ==
  ASSUME NEW s, NEW t, \E X : s \in Seq(X), \E X : t \in Seq(X)
  PROVE  /\ \E X : s \o t \in Seq(X)
         /\ Len(s \o t) = Len(s) + Len(t) /\ Len(s) \in Nat /\ Len(t) \in Nat
         /\ \A i \in 1..Len(s) : (s \o t)[i] = s[i]
         /\ \A i \in 1..Len(t) : (s \o t)[Len(s) + i] = t[i] /\ Calls(s \o t, Len(s) + i) = Calls(t, i)
<1>1. PICK X, Y : s \in Seq(X) /\ t \in Seq(Y)
  OBVIOUS
<1> DEFINE Z == X \cup Y
           u == s \o t
<1>2. s \in Seq(Z) /\ t \in Seq(Z)
  BY <1>1
<1> HIDE DEF Z
<1>3. /\ u \in Seq(Z) /\ Len(u) = Len(s) + Len(t) /\ Len(s) \in Nat /\ Len(t) \in Nat
      /\ \A i \in 1..Len(u) : u[i] = IF i <= Len(s) THEN s[i] ELSE t[i - Len(s)]
  BY <1>2, ConcatProperties, LenProperties
<1> HIDE DEF u
<1>4. ASSUME NEW i \in 1..Len(t) PROVE u[Len(s) + i] = t[i]
  <2>1. Len(s) + i \in 1..Len(u) /\ ~(Len(s) + i <= Len(s)) /\ (Len(s) + i) - Len(s) = i
    BY <1>3
  <2>2. QED
    BY <1>3, <2>1
<1>5. ASSUME NEW i \in 1..Len(t) PROVE Calls(u, Len(s) + i) = Calls(t, i)
  <2>1. Len(u) - (Len(s) + i) + 1 = Len(t) - i + 1
    BY <1>3
  <2>2. ASSUME NEW k \in 1..(Len(t) - i + 1) PROVE u[(Len(s) + i) + k - 1] = t[i + k - 1]
    <3>1. i + k - 1 \in 1..Len(t) /\ (Len(s) + i) + k - 1 = Len(s) + (i + k - 1)
      BY <1>3
    <3>2. QED
      BY <1>4, <3>1
  <2>3. QED
    BY <2>1, <2>2 DEF Calls
<1>6. \A i \in 1..Len(s) : u[i] = s[i]
  BY <1>3
<1>7. QED
  BY <1>3, <1>4, <1>5, <1>6 DEF u

\* On a shallow stack, entries that are no passes.
LEMMA IdleOn ==
  ASSUME NEW s, NEW t, NEW d, Idle(s), Shallow(t, d)
  PROVE  Shallow(s \o t, d)
<1> DEFINE u == s \o t
<1>1. /\ \E X : u \in Seq(X)
      /\ Len(u) = Len(s) + Len(t) /\ Len(s) \in Nat /\ Len(t) \in Nat
      /\ \A i \in 1..Len(s) : u[i] = s[i]
      /\ \A i \in 1..Len(t) : u[Len(s) + i] = t[i] /\ Calls(u, Len(s) + i) = Calls(t, i)
  BY Concat DEF Idle, Shallow
<1> HIDE DEF u
<1>2. ASSUME NEW i \in 1..Len(u) PROVE ~Full(u, i, d)
  <2>1. CASE i \in 1..Len(s)
    BY <1>1, <2>1 DEF Full, Idle
  <2>2. CASE i \notin 1..Len(s)
    <3>1. PICK j \in 1..Len(t) : i = Len(s) + j
      <4>1. i - Len(s) \in 1..Len(t) /\ i = Len(s) + (i - Len(s))
        BY <1>1, <2>2
      <4>2. QED
        BY <4>1
    <3>2. u[i] = t[j] /\ Calls(u, i) = Calls(t, j)
      BY <1>1, <3>1
    <3>3. ~Full(t, j, d)
      BY DEF Shallow
    <3>4. QED
      BY <3>2, <3>3 DEF Full
  <2>3. QED
    BY <2>1, <2>2
<1>3. QED
  BY <1>1, <1>2 DEF Shallow, u

LEMMA IdleIdle ==
  ASSUME NEW s, NEW t, Idle(s), Idle(t)
  PROVE  Idle(s \o t)
<1> DEFINE u == s \o t
<1>1. /\ \E X : u \in Seq(X)
      /\ Len(u) = Len(s) + Len(t) /\ Len(s) \in Nat /\ Len(t) \in Nat
      /\ \A i \in 1..Len(s) : u[i] = s[i]
      /\ \A i \in 1..Len(t) : u[Len(s) + i] = t[i] /\ Calls(u, Len(s) + i) = Calls(t, i)
  BY Concat DEF Idle
<1> HIDE DEF u
<1>2. ASSUME NEW i \in 1..Len(u) PROVE ~Passing(u[i])
  <2>1. CASE i \in 1..Len(s)
    BY <1>1, <2>1 DEF Idle
  <2>2. CASE i \notin 1..Len(s)
    <3>1. i - Len(s) \in 1..Len(t) /\ i = Len(s) + (i - Len(s))
      BY <1>1, <2>2
    <3>2. QED
      BY <1>1, <3>1 DEF Idle
  <2>3. QED
    BY <2>1, <2>2
<1>3. QED
  BY <1>1, <1>2 DEF Idle, u

LEMMA IdleOne == ASSUME NEW e, ~Passing(e) PROVE Idle(<<e>>)
<1> DEFINE o == <<e>>
<1>1. o \in Seq({e}) /\ Len(o) = 1 /\ o[1] = e
  OBVIOUS
<1> HIDE DEF o
<1>2. \E X : o \in Seq(X)
  BY <1>1
<1>3. \A i \in 1..Len(o) : i = 1
  BY <1>1
<1>4. QED
  BY <1>1, <1>2, <1>3 DEF Idle, o

LEMMA IdleTwo == ASSUME NEW e, NEW f, ~Passing(e), ~Passing(f) PROVE Idle(<<e, f>>)
<1>1. <<e, f>> \in Seq({e, f}) /\ Len(<<e, f>>) = 2
  OBVIOUS
<1>2. \A i \in 1..2 : <<e, f>>[i] \in {e, f}
  OBVIOUS
<1>3. QED
  BY <1>1, <1>2 DEF Idle

LEMMA IdleNone == Idle(<<>>)
<1>1. <<>> \in Seq({}) /\ Len(<<>>) = 0 /\ 1..0 = {}
  OBVIOUS
<1>2. QED
  BY <1>1 DEF Idle

LEMMA IdleDropping == \A refs, lock : Idle(Dropping(refs, lock))
<1> TAKE refs, lock
<1> DEFINE g == Glue("drop", refs, lock)
<1>1. ~Passing(g)
  BY DEF Passing, Glue, Frame
<1>2. Dropping(refs, lock) = <<>> \/ Dropping(refs, lock) = <<g>>
  BY DEF Dropping
<1> HIDE DEF g
<1>3. QED
  BY <1>1, <1>2, IdleOne, IdleNone

\* A stack whose innermost entries drop, down to a pass that finds d frames:
\* nothing else on the stack refers to its garbage G.
Seal(st, k, G, d) ==
  /\ Full(st, k, d) /\ st[k].garbage = G
  /\ (Range(st[k].refs) \cup {st[k].operand}) \cap G = {}
  /\ \A j \in 1..Len(st) : j < k => st[j].at = "drop"
  /\ \A j \in 1..Len(st) : j > k => ~Full(st, j, d) /\ Refd(st[j]) \cap G = {}
Sealed(st, G, d) == /\ \E X : st \in Seq(X)
                    /\ \E k \in 1..Len(st) : Seal(st, k, G, d)

\* More drops.
LEMMA SealedOn ==
  ASSUME NEW s, NEW t, NEW G, NEW d, \E X : s \in Seq(X), \A i \in 1..Len(s) : s[i].at = "drop",
         Sealed(t, G, d)
  PROVE  Sealed(s \o t, G, d)
<1> DEFINE u == s \o t
<1>1. /\ \E X : u \in Seq(X)
      /\ Len(u) = Len(s) + Len(t) /\ Len(s) \in Nat /\ Len(t) \in Nat
      /\ \A i \in 1..Len(s) : u[i] = s[i]
      /\ \A i \in 1..Len(t) : u[Len(s) + i] = t[i] /\ Calls(u, Len(s) + i) = Calls(t, i)
  BY Concat DEF Sealed
<1> HIDE DEF u
<1>2. PICK k \in 1..Len(t) : Seal(t, k, G, d)
  BY DEF Sealed
<1>3. Len(s) + k \in 1..Len(u)
  BY <1>1
<1>4. u[Len(s) + k] = t[k] /\ (Full(u, Len(s) + k, d) <=> Full(t, k, d))
  BY <1>1 DEF Full
<1>5. ASSUME NEW j \in 1..Len(u), j < Len(s) + k PROVE u[j].at = "drop"
  <2>1. CASE j \in 1..Len(s)
    BY <1>1, <2>1
  <2>2. CASE j \notin 1..Len(s)
    <3>1. j - Len(s) \in 1..Len(t) /\ j = Len(s) + (j - Len(s)) /\ j - Len(s) < k
      BY <1>1, <1>5, <2>2
    <3>2. t[j - Len(s)].at = "drop"
      BY <1>2, <3>1 DEF Seal
    <3>3. QED
      BY <1>1, <3>1, <3>2
  <2>3. QED
    BY <2>1, <2>2
<1>6. ASSUME NEW j \in 1..Len(u), j > Len(s) + k PROVE ~Full(u, j, d) /\ Refd(u[j]) \cap G = {}
  <2> DEFINE i == j - Len(s)
  <2>1. i \in 1..Len(t) /\ j = Len(s) + i /\ i > k
    BY <1>1, <1>6
  <2> HIDE DEF i
  <2>2. ~Full(t, i, d) /\ Refd(t[i]) \cap G = {}
    BY <1>2, <2>1 DEF Seal
  <2>3. u[j] = t[i] /\ Calls(u, j) = Calls(t, i)
    BY <1>1, <2>1
  <2>4. QED
    BY <2>2, <2>3 DEF Full
<1>7. Seal(u, Len(s) + k, G, d)
  BY <1>2, <1>4, <1>5, <1>6 DEF Seal
<1>8. QED
  BY <1>1, <1>3, <1>7 DEF Sealed, u

\* One entry on a stack.
LEMMA OneOn ==
  ASSUME NEW e, NEW b, \E X : b \in Seq(X)
  PROVE  LET s == <<e>> \o b IN
         /\ \E X : s \in Seq(X)
         /\ Len(s) = 1 + Len(b) /\ Len(b) \in Nat /\ s[1] = e
         /\ \A i \in 1..Len(b) : s[1 + i] = b[i] /\ Calls(s, 1 + i) = Calls(b, i)
<1> DEFINE o == <<e>>
           s == o \o b
<1>1. o \in Seq({e}) /\ Len(o) = 1 /\ o[1] = e
  OBVIOUS
<1> HIDE DEF o
<1>2. /\ \E X : s \in Seq(X)
      /\ Len(s) = Len(o) + Len(b) /\ Len(b) \in Nat
      /\ \A i \in 1..Len(o) : s[i] = o[i]
      /\ \A i \in 1..Len(b) : s[Len(o) + i] = b[i] /\ Calls(s, Len(o) + i) = Calls(b, i)
  <2>1. \E X : o \in Seq(X)
    BY <1>1
  <2>2. QED
    BY <2>1, Concat
<1> HIDE DEF s
<1>3. 1 \in 1..Len(o)
  BY <1>1
<1>4. s[1] = e
  BY <1>1, <1>2, <1>3
<1>5. QED
  BY <1>1, <1>2, <1>4 DEF s, o

\* The innermost entry apart.
LEMMA SealedApart ==
  ASSUME NEW e, NEW b, NEW G, NEW d, \E X : b \in Seq(X)
  PROVE  LET s == <<e>> \o b IN
         Sealed(s, G, d) <=>
           \/ e.at = "drop" /\ Sealed(b, G, d)
           \/ /\ Passing(e) /\ Cardinality(Calls(s, 1)) >= d /\ e.garbage = G
              /\ (Range(e.refs) \cup {e.operand}) \cap G = {}
              /\ Shallow(b, d) /\ HeldOn(b) \cap G = {}
<1> DEFINE o == <<e>>
           s == o \o b
<1>1. o \in Seq({e}) /\ Len(o) = 1 /\ o[1] = e
  OBVIOUS
<1> HIDE DEF o
<1>2. /\ \E X : s \in Seq(X)
      /\ Len(s) = 1 + Len(b) /\ Len(b) \in Nat /\ s[1] = e
      /\ \A i \in 1..Len(b) : s[1 + i] = b[i] /\ Calls(s, 1 + i) = Calls(b, i)
  BY OneOn DEF o
<1> HIDE DEF s
<1>3. \A i \in 1..Len(s) : i = 1 \/ (i - 1 \in 1..Len(b) /\ i = 1 + (i - 1))
  BY <1>2
<1>4. \A i \in 1..Len(b) : 1 + i \in 1..Len(s) /\ (Full(s, 1 + i, d) <=> Full(b, i, d))
  BY <1>2 DEF Full
<1>5. 1 \in 1..Len(s)
  BY <1>2
<1>6. ASSUME e.at = "drop", Sealed(b, G, d) PROVE Sealed(s, G, d)
  BY <1>1, <1>6, SealedOn DEF s
<1>7. ASSUME Passing(e), Cardinality(Calls(s, 1)) >= d, e.garbage = G,
             (Range(e.refs) \cup {e.operand}) \cap G = {}, Shallow(b, d), HeldOn(b) \cap G = {}
      PROVE  Sealed(s, G, d)
  <2>1. ASSUME NEW j \in 1..Len(s), j > 1 PROVE ~Full(s, j, d) /\ Refd(s[j]) \cap G = {}
    <3>1. j - 1 \in 1..Len(b) /\ j = 1 + (j - 1)
      BY <1>3, <2>1
    <3>2. s[j] = b[j - 1] /\ ~Full(s, j, d)
      BY <1>2, <1>4, <1>7, <3>1 DEF Shallow
    <3>3. QED
      BY <1>7, <3>1, <3>2 DEF HeldOn
  <2>2. Seal(s, 1, G, d)
    BY <1>2, <1>7, <2>1 DEF Seal, Full
  <2>3. QED
    BY <1>2, <1>5, <2>2 DEF Sealed
<1>8. ASSUME Sealed(s, G, d)
      PROVE  \/ e.at = "drop" /\ Sealed(b, G, d)
             \/ /\ Passing(e) /\ Cardinality(Calls(s, 1)) >= d /\ e.garbage = G
                /\ (Range(e.refs) \cup {e.operand}) \cap G = {}
                /\ Shallow(b, d) /\ HeldOn(b) \cap G = {}
  <2>1. PICK k \in 1..Len(s) : Seal(s, k, G, d)
    BY <1>8 DEF Sealed
  <2>2. CASE k = 1
    <3>1. ASSUME NEW i \in 1..Len(b) PROVE ~Full(b, i, d) /\ Refd(b[i]) \cap G = {}
      <4>1. 1 + i \in 1..Len(s) /\ 1 + i > 1 /\ (Full(s, 1 + i, d) <=> Full(b, i, d))
        BY <1>4
      <4>2. ~Full(s, 1 + i, d) /\ Refd(s[1 + i]) \cap G = {}
        BY <2>1, <2>2, <4>1 DEF Seal
      <4>3. QED
        BY <1>2, <4>1, <4>2
    <3>2. HeldOn(b) \cap G = {}
      BY <3>1 DEF HeldOn
    <3>3. Shallow(b, d)
      BY <3>1 DEF Shallow
    <3>4. QED
      BY <1>2, <2>1, <2>2, <3>2, <3>3 DEF Seal, Full
  <2>3. CASE k # 1
    <3> DEFINE i == k - 1
    <3>1. i \in 1..Len(b) /\ k = 1 + i
      BY <1>3, <2>3
    <3> HIDE DEF i
    <3>2. e.at = "drop"
      BY <1>2, <1>5, <2>1, <3>1 DEF Seal
    <3>3. s[k] = b[i] /\ (Full(s, k, d) <=> Full(b, i, d))
      BY <1>2, <1>4, <3>1
    <3>4. ASSUME NEW j \in 1..Len(b)
          PROVE  /\ j < i => b[j].at = "drop"
                 /\ j > i => ~Full(b, j, d) /\ Refd(b[j]) \cap G = {}
      <4>1. 1 + j \in 1..Len(s) /\ (Full(s, 1 + j, d) <=> Full(b, j, d)) /\ s[1 + j] = b[j]
        BY <1>2, <1>4
      <4>2. (j < i => 1 + j < k) /\ (j > i => 1 + j > k)
        BY <3>1
      <4>3. QED
        BY <2>1, <4>1, <4>2 DEF Seal
    <3>5. Seal(b, i, G, d)
      BY <2>1, <3>3, <3>4 DEF Seal
    <3>6. QED
      BY <3>1, <3>2, <3>5 DEF Sealed
  <2>4. QED
    BY <2>2, <2>3
<1>9. QED
  BY <1>6, <1>7, <1>8 DEF s, o

\* The same of a shallow stack.
LEMMA ShallowApart ==
  ASSUME NEW e, NEW b, NEW d, \E X : b \in Seq(X)
  PROVE  LET s == <<e>> \o b IN
         Shallow(s, d) <=> Shallow(b, d) /\ ~(Passing(e) /\ Cardinality(Calls(s, 1)) >= d)
<1> DEFINE o == <<e>>
           s == o \o b
<1>1. o \in Seq({e}) /\ Len(o) = 1 /\ o[1] = e
  OBVIOUS
<1> HIDE DEF o
<1>2. /\ \E X : s \in Seq(X)
      /\ Len(s) = 1 + Len(b) /\ Len(b) \in Nat /\ s[1] = e
      /\ \A i \in 1..Len(b) : s[1 + i] = b[i] /\ Calls(s, 1 + i) = Calls(b, i)
  BY OneOn DEF o
<1> HIDE DEF s
<1>3. \A i \in 1..Len(s) : i = 1 \/ (i - 1 \in 1..Len(b) /\ i = 1 + (i - 1))
  BY <1>2
<1>4. \A i \in 1..Len(b) : 1 + i \in 1..Len(s) /\ (Full(s, 1 + i, d) <=> Full(b, i, d))
  BY <1>2 DEF Full
<1>5. 1 \in 1..Len(s) /\ (Full(s, 1, d) <=> Passing(e) /\ Cardinality(Calls(s, 1)) >= d)
  BY <1>2 DEF Full
<1>6. Shallow(s, d) => Shallow(b, d)
  BY <1>4 DEF Shallow
<1>7. QED
  BY <1>2, <1>3, <1>4, <1>5, <1>6 DEF Shallow, s, o

\* What an entry stands on is a matter of what it is, and of what is below.
LEMMA SameCalls ==
  ASSUME NEW e, NEW f, NEW b, \E X : b \in Seq(X), e.who \in FrameKinds <=> f.who \in FrameKinds
  PROVE  Calls(<<e>> \o b, 1) = Calls(<<f>> \o b, 1)
<1> DEFINE o == <<e>>
           p == <<f>>
           s == o \o b
           t == p \o b
<1>1. o \in Seq({e}) /\ Len(o) = 1 /\ o[1] = e /\ p \in Seq({f}) /\ Len(p) = 1 /\ p[1] = f
  OBVIOUS
<1> HIDE DEF o, p
<1>2. /\ Len(s) = 1 + Len(b) /\ Len(b) \in Nat /\ s[1] = e /\ Len(t) = 1 + Len(b) /\ t[1] = f
      /\ \A i \in 1..Len(b) : s[1 + i] = b[i] /\ t[1 + i] = b[i]
  BY OneOn DEF o, p
<1> HIDE DEF s, t
<1>3. ASSUME NEW k \in 1..(Len(s) - 1 + 1)
      PROVE  s[1 + k - 1].who \in FrameKinds <=> t[1 + k - 1].who \in FrameKinds
  <2>1. 1 + k - 1 = k /\ (k = 1 \/ (k - 1 \in 1..Len(b) /\ k = 1 + (k - 1)))
    BY <1>2
  <2>2. QED
    BY <1>2, <2>1
<1>4. Calls(s, 1) = Calls(t, 1)
  BY <1>2, <1>3 DEF Calls
<1>5. QED
  BY <1>4 DEF s, t, o, p

\* Forgetting a survivor changes none of this.
LEMMA ForgetAlike ==
  ASSUME NEW st \in Seq(Entries), NEW n, NEW d
  PROVE  /\ Shallow(st, d) => Shallow(Forget(st, n), d)
         /\ \A G : Sealed(st, G, d) => Sealed(Forget(st, n), G, d)
         /\ Forget(st, n) \in Seq(Entries)
<1> DEFINE f == Forget(st, n)
<1>1. /\ DOMAIN st = 1..Len(st) /\ Len(st) \in Nat
      /\ \A i \in 1..Len(st) : st[i] \in Entries
  BY LenProperties, ElementOfSeq
<1>2. /\ f = [i \in 1..Len(st) |-> ForgetIn(st[i], n)] /\ f \in Seq(Entries)
  BY <1>1, Forgetting DEF Forget
<1> HIDE DEF f
<1>3. Len(f) = Len(st)
  BY <1>1, <1>2, LenProperties
<1>4. ASSUME NEW i \in 1..Len(st)
      PROVE  /\ f[i].who = st[i].who /\ f[i].at = st[i].at /\ f[i].garbage = st[i].garbage
             /\ f[i].refs = st[i].refs /\ f[i].operand = st[i].operand
  <2>1. f[i] = ForgetIn(st[i], n) /\ st[i] \in Entries
    BY <1>1, <1>2
  <2> DEFINE e == st[i]
  <2> HIDE DEF e
  <2>2. e \in Entries /\ f[i] = [e EXCEPT !.survivors = e.survivors \ {n}]
    BY <2>1 DEF ForgetIn, e
  <2>3. f[i].who = e.who /\ f[i].at = e.at /\ f[i].garbage = e.garbage /\ f[i].refs = e.refs /\ f[i].operand = e.operand
    BY <2>2 DEF Entries
  <2>4. QED
    BY <2>3 DEF e
<1>5. ASSUME NEW i \in 1..Len(st) PROVE Calls(f, i) = Calls(st, i)
  <2>1. \A k \in 1..(Len(st) - i + 1) : i + k - 1 \in 1..Len(st)
    BY <1>1
  <2>2. QED
    BY <1>3, <1>4, <2>1 DEF Calls
<1>6. \A i \in 1..Len(st) : /\ Full(f, i, d) <=> Full(st, i, d)
                            /\ Refd(f[i]) = Refd(st[i])
  BY <1>4, <1>5 DEF Full, Passing, Refd
<1>7. Shallow(st, d) => Shallow(f, d)
  BY <1>2, <1>3, <1>6 DEF Shallow
<1>8. ASSUME NEW G, Sealed(st, G, d) PROVE Sealed(f, G, d)
  <2>1. PICK k \in 1..Len(st) : Seal(st, k, G, d)
    BY <1>8 DEF Sealed
  <2>2. Seal(f, k, G, d)
    BY <1>3, <1>4, <1>6, <2>1 DEF Seal
  <2>3. QED
    BY <1>2, <1>3, <2>2 DEF Sealed
<1>9. QED
  BY <1>2, <1>7, <1>8 DEF f

\* The frames of the whole stack.
LEMMA AllCalls ==
  ASSUME stack \in Seq(Entries)
  PROVE  Frames = Cardinality(Calls(stack, 1)) /\ IsFiniteSet(Calls(stack, 1)) /\ Frames \in Nat
<1>1. DOMAIN stack = 1..Len(stack) /\ Len(stack) \in Nat /\ Len(stack) - 1 + 1 = Len(stack)
  BY LenProperties
<1>2. \A k \in 1..Len(stack) : 1 + k - 1 = k
  OBVIOUS
<1>3. Calls(stack, 1) = {i \in DOMAIN stack : stack[i].who \in FrameKinds}
  BY <1>1, <1>2 DEF Calls
<1>4. IsFiniteSet(1..Len(stack)) /\ Calls(stack, 1) \in SUBSET (1..Len(stack))
  BY <1>1, <1>3, FS_Interval
<1>5. IsFiniteSet(Calls(stack, 1))
  BY <1>4, FS_Subset
<1>6. QED
  BY <1>3, <1>5, FS_CardinalityType DEF Frames

\* While such a pass lasts, no destructor can run.
LEMMA Deep ==
  ASSUME stack \in Seq(Entries), NEW d \in Nat, NEW G, Sealed(stack, G, d)
  PROVE  Frames >= d
<1>1. PICK k \in 1..Len(stack) : Seal(stack, k, G, d)
  BY DEF Sealed
<1>2. Len(stack) \in Nat /\ Cardinality(Calls(stack, k)) >= d
  BY <1>1, LenProperties DEF Seal, Full
<1> DEFINE A == Calls(stack, k)
           B == Calls(stack, 1)
           f == [a \in A |-> a + k - 1]
<1>3. \A a \in A : a \in Int /\ f[a] = a + k - 1 /\ f[a] \in B
  <2> SUFFICES ASSUME NEW a \in A PROVE a \in Int /\ a + k - 1 \in B
    OBVIOUS
  <2>1. a \in 1..(Len(stack) - k + 1) /\ stack[k + a - 1].who \in FrameKinds
    BY DEF Calls
  <2>2. a + k - 1 \in 1..(Len(stack) - 1 + 1) /\ 1 + (a + k - 1) - 1 = k + a - 1
    BY <1>2, <2>1
  <2>3. QED
    BY <2>1, <2>2 DEF Calls
<1> HIDE DEF A, B
<1>4. f \in Injection(A, B)
  <2>1. f \in [A -> B]
    BY <1>3
  <2>2. \A a, b \in A : f[a] = f[b] => a = b
    BY <1>3
  <2>3. QED
    BY <2>1, <2>2 DEF Injection, IsInjective
<1>5. IsFiniteSet(B) /\ Frames = Cardinality(B)
  BY AllCalls DEF B
<1>6. Cardinality(A) <= Cardinality(B) /\ IsFiniteSet(A)
  BY <1>4, <1>5, FS_Injection
<1>7. Cardinality(A) \in Nat /\ Cardinality(B) \in Nat
  BY <1>5, <1>6, FS_CardinalityType
<1>8. QED
  BY <1>2, <1>5, <1>6, <1>7 DEF A

-----------------------------------------------------------------------------
(* A stack without full passes stays one, until a pass starts.             *)

LEMMA IdleShallow == ASSUME NEW s, NEW d, Idle(s) PROVE Shallow(s, d)
BY DEF Idle, Shallow, Full

LEMMA ShallowOn ==
  ASSUME NEW e, NEW b, NEW d, ~Passing(e), Shallow(b, d)
  PROVE  Shallow(<<e>> \o b, d)
BY ShallowApart DEF Shallow

LEMMA ShallowUnder ==
  ASSUME NEW s, Idle(s), NEW e, ~Passing(e), NEW b, NEW d, Shallow(b, d)
  PROVE  Shallow(s \o <<e>> \o b, d)
<1> DEFINE o == <<e>>
           p == s \o o
<1>1. Idle(o)
  BY IdleOne
<1> HIDE DEF o
<1>2. Idle(p)
  BY <1>1, IdleIdle
<1> HIDE DEF p
<1>3. Shallow(p \o b, d)
  BY <1>2, IdleOn
<1>4. QED
  BY <1>3 DEF p, o

\* The innermost entry, changed but for what it is.
LEMMA ShallowTop ==
  ASSUME Inv, stack # <<>>, NEW d, Shallow(stack, d),
         NEW e, e.who \in FrameKinds <=> top.who \in FrameKinds, Passing(e) => Passing(top)
  PROVE  Shallow(<<e>> \o below, d)
<1> DEFINE t == top
           b == below
<1>1. stack = <<t>> \o b /\ \E X : b \in Seq(X)
  BY Apart DEF Inv, Sound, top, below, Push
<1> HIDE DEF t, b
<1>2. Shallow(b, d) /\ ~(Passing(t) /\ Cardinality(Calls(<<t>> \o b, 1)) >= d)
  BY <1>1, ShallowApart
<1>3. e.who \in FrameKinds <=> t.who \in FrameKinds
  BY DEF t
<1>4. Calls(<<e>> \o b, 1) = Calls(<<t>> \o b, 1)
  BY <1>1, <1>3, SameCalls
<1>5. Passing(e) => Passing(t)
  BY DEF t
<1>6. Shallow(<<e>> \o b, d)
  BY <1>1, <1>2, <1>4, <1>5, ShallowApart
<1>7. QED
  BY <1>6 DEF b

LEMMA ShallowBelow ==
  ASSUME Inv, stack # <<>>, NEW d, Shallow(stack, d)
  PROVE  Shallow(below, d)
<1> DEFINE t == top
           b == below
<1>1. stack = <<t>> \o b /\ \E X : b \in Seq(X)
  BY Apart DEF Inv, Sound, top, below, Push
<1> HIDE DEF t, b
<1>2. Shallow(b, d)
  BY <1>1, ShallowApart
<1>3. QED
  BY <1>2 DEF b

\* What a reference leaves when it is dropped.
LEMMA ShallowLetGo ==
  ASSUME NEW n, NEW rest \in Seq(Entries), NEW d, Shallow(rest, d), LetGo(n, rest)
  PROVE  Shallow(stack', d)
<1>1. CASE StrongCount(n) = 1
  <2> DEFINE f == Forget(rest, n)
             e == OnCopy(n)
             c == Dropping(Fields(n), Null)
  <2>1. Shallow(f, d)
    BY ForgetAlike
  <2>2. stack' = <<e>> \o f \/ stack' = c \o f
    BY <1>1 DEF LetGo, Die
  <2>3. ~Passing(e) /\ Idle(c)
    BY IdleDropping DEF Passing, OnCopy, Frame
  <2> HIDE DEF f, e, c
  <2>4. QED
    BY <2>1, <2>2, <2>3, ShallowOn, IdleOn
<1>2. CASE StrongCount(n) # 1
  BY <1>2 DEF LetGo
<1>3. QED
  BY <1>1, <1>2

\* An entry that is through with its pass.
LEMMA ShallowFinished ==
  ASSUME Inv, Formed(stack, program), stack # <<>>, NEW d, Shallow(below, d)
  PROVE  Shallow(Finished, d)
<1> DEFINE t == top
           b == below
           u == below[1]
           r == Tail(below)
           g == [Glue("collect", <<top.operand>>, Null) EXCEPT !.who = "sweep"]
           c == Dropping(<<top.operand>>, Null)
           f == [u EXCEPT !.operand = top.operand]
<1>1. /\ t.who = "main" => Finished = <<g>>
      /\ t.who = "call" /\ ~t.thrown => Finished = <<f>> \o r
      /\ t.who # "main" /\ t.thrown => Finished = c \o b
      /\ t.who = "clinit" /\ ~t.thrown => Finished = <<Frame("main", NoLocals)>>
      /\ t.who \notin {"main", "call", "clinit"} /\ ~t.thrown => Finished = b
  BY DEF Finished
<1>2. ~Passing(g) /\ ~Passing(Frame("main", NoLocals)) /\ Idle(c)
  BY IdleDropping DEF Passing, Glue, Frame
<1>3. Shallow(b, d) /\ b \in Seq(Entries) /\ Rests(t, b) /\ Fits(t, b, program)
  BY Opened
<1>4. ASSUME t.who = "call" PROVE Shallow(<<f>> \o r, d)
  <2>1. b # <<>> /\ u.at = "run"
    BY <1>3, <1>4 DEF Rests, Fits, OnTop
  <2>2. b = <<u>> \o r /\ u \in Entries /\ r \in Seq(Entries)
    BY <1>3, <2>1, Apart DEF Push
  <2> HIDE DEF u, r
  <2>3. f.at = "run"
    BY <2>1, <2>2 DEF Entries
  <2>4. Shallow(r, d)
    BY <1>3, <2>2, ShallowApart
  <2> HIDE DEF f
  <2>5. QED
    BY <2>3, <2>4, ShallowOn DEF Passing
<1> HIDE DEF t, b, u, r, g, c, f
<1>5. Shallow(<<g>>, d) /\ Shallow(<<Frame("main", NoLocals)>>, d)
  <2> DEFINE m == Frame("main", NoLocals)
  <2> HIDE DEF m
  <2>1. ~Passing(m)
    BY <1>2 DEF m
  <2>2. Shallow(<<g>>, d) /\ Shallow(<<m>>, d)
    BY <1>2, <2>1, IdleOne, IdleShallow
  <2>3. QED
    BY <2>2 DEF m
<1>6. Shallow(c \o b, d)
  BY <1>2, <1>3, IdleOn
<1>7. QED
  BY <1>1, <1>3, <1>4, <1>5, <1>6

\* What the program itself puts on the stack is no pass.
LEMMA ShallowPut ==
  ASSUME Inv, stack # <<>>, Running, NEW d, Shallow(stack, d),
         NEW target, NEW s, NEW value, Put(target, s, value)
  PROVE  Shallow(stack', d)
<1> DEFINE b == below
           e == Operand(Null)
           x == [top EXCEPT !.at = "blocked"]
<1>1. Shallow(b, d) /\ top \in Entries /\ top.at = "run"
  BY ShallowBelow, Apart DEF Inv, Sound, top, Running, At
<1>2. ~Passing(e) /\ ~Passing(x)
  BY <1>1 DEF Passing, Operand, Entries
<1>3. CASE target \in Locked
  <2>1. stack' = <<x>> \o b
    BY <1>3 DEF Put, GoTo
  <2> HIDE DEF x, b
  <2>2. QED
    BY <1>1, <1>2, <2>1, ShallowOn
<1>4. CASE target \notin Locked
  <2> DEFINE replaced == <<Fields(target)[s]>>
             receiver == Dropping(<<target>>, Null)
             under == Dropping(replaced, target)
             g == Glue("note", replaced, Null)
             y == CASE DropsUnderLock(target) -> under \o receiver
                    [] ~DropsUnderLock(target) /\ s \in DOMAIN field[target] -> receiver \o <<g>>
                    [] OTHER -> receiver
  <2>1. stack' = y \o <<e>> \o b
    BY <1>4 DEF Put
  <2>2. Idle(receiver) /\ Idle(under) /\ ~Passing(g)
    BY IdleDropping DEF Passing, Glue, Frame
  <2> HIDE DEF replaced, receiver, under, g, e, b
  <2>3. Idle(<<g>>)
    BY <2>2, IdleOne
  <2> DEFINE ur == under \o receiver
             rg == receiver \o <<g>>
  <2>4. Idle(ur) /\ Idle(rg)
    BY <2>2, <2>3, IdleIdle
  <2>5. y = ur \/ y = rg \/ y = receiver
    OBVIOUS
  <2> HIDE DEF ur, rg, y
  <2>6. Idle(y)
    BY <2>2, <2>4, <2>5
  <2>7. QED
    BY <1>1, <1>2, <2>1, <2>6, ShallowUnder
<1>5. QED
  BY <1>3, <1>4

LEMMA ShallowFrame ==
  ASSUME Inv, stack # <<>>, Running, NEW d, Shallow(stack, d),
         \/ (\E k \in program.kinds : New(k)) \/ Load \/ GetField \/ Store \/ SetField
         \/ SetStatic \/ Pop \/ Call \/ Leave
  PROVE  Shallow(stack', d)
<1> DEFINE b == below
           t == top
<1>1. Shallow(b, d) /\ t \in Entries /\ t.at = "run"
  BY ShallowBelow, Apart DEF Inv, Sound, top, Running, At
<1>2. /\ \A r : ~Passing(Operand(r))
      /\ \A r, l, v : ~Passing([Operand(r) EXCEPT !.refs[l] = v])
  BY <1>1 DEF Passing, Operand, Entries
<1>3. /\ \A who, locals : ~Passing(Frame(who, locals))
      /\ \A refs, lock : /\ ~Passing(Glue("collect", refs, lock))
                        /\ ~Passing(Glue("discard", refs, lock))
      /\ \A v : ~Passing([t EXCEPT !.at = "collect", !.thrown = v])
      /\ ~Passing([t EXCEPT !.at = "blocked"])
  BY <1>1 DEF Passing, Frame, Glue, Entries
<1>4. ASSUME NEW e, NEW f, ~Passing(e), ~Passing(f), stack' = <<e, f>> \o b
      PROVE  Shallow(stack', d)
  <2> DEFINE s == <<e, f>>
  <2>1. Idle(s)
    BY <1>4, IdleTwo
  <2> HIDE DEF s, b
  <2>2. Shallow(s \o b, d)
    BY <1>1, <2>1, IdleOn
  <2>3. QED
    BY <1>4, <2>2 DEF s
<1>5. ASSUME NEW e, ~Passing(e), stack' = <<e>> \o b
      PROVE  Shallow(stack', d)
  BY <1>1, <1>5, ShallowOn
<1>6. ASSUME NEW s, Idle(s), NEW e, ~Passing(e), stack' = s \o <<e>> \o b
      PROVE  Shallow(stack', d)
  BY <1>1, <1>6, ShallowUnder
<1>7. ASSUME NEW frame, NEW old, ~Passing(frame), NoteAndCollect(frame, old)
      PROVE  Shallow(stack', d)
  <2> DEFINE g == Glue("collect", <<old>>, Null)
  <2>1. ~Passing(g) /\ stack' = <<g, frame>> \o b
    BY <1>3, <1>7 DEF NoteAndCollect
  <2> HIDE DEF g, b
  <2>2. QED
    BY <1>4, <1>7, <2>1
<1>8. CASE \E k \in program.kinds : New(k)
  <2>1. PICK k, n : stack' = (IF k \in {"class", "plain"} THEN <<Frame("construct", Receiving(n))>> ELSE <<>>)
                             \o <<Operand(n)>> \o b
    BY <1>8 DEF New
  <2> DEFINE f == Frame("construct", Receiving(n))
             e == Operand(n)
             s == IF k \in {"class", "plain"} THEN <<f>> ELSE <<>>
  <2>2. ~Passing(f) /\ ~Passing(e) /\ stack' = s \o <<e>> \o b
    BY <1>2, <1>3, <2>1
  <2> HIDE DEF f, e, b
  <2>3. Idle(<<f>>) /\ Idle(<<>>)
    BY <2>2, IdleOne, IdleNone
  <2>4. Idle(s)
    BY <2>3
  <2> HIDE DEF s
  <2>5. QED
    BY <1>6, <2>2, <2>4
<1>9. CASE Load
  <2>1. PICK r : stack' = <<Operand(r)>> \o b
    BY <1>9 DEF Load, Become
  <2> DEFINE e == Operand(r)
  <2>2. ~Passing(e) /\ stack' = <<e>> \o b
    BY <1>2, <2>1
  <2> HIDE DEF b, e
  <2>3. QED
    BY <1>5, <2>2
<1>10. CASE GetField
  <2>1. PICK r : GoTo("blocked") \/ stack' = Dropping(<<t.operand>>, Null) \o <<Operand(r)>> \o b
    BY <1>10 DEF GetField
  <2> DEFINE c == Dropping(<<t.operand>>, Null)
             e == Operand(r)
             x == [t EXCEPT !.at = "blocked"]
  <2>2. Idle(c) /\ ~Passing(e) /\ ~Passing(x) /\ (stack' = <<x>> \o b \/ stack' = c \o <<e>> \o b)
    BY <1>2, <1>3, <2>1, IdleDropping DEF GoTo
  <2> HIDE DEF c, e, b, x
  <2>3. QED
    BY <1>5, <1>6, <2>2
<1>11. CASE Store
  <2>1. PICK l : NoteAndCollect([Operand(Null) EXCEPT !.refs[l] = t.operand], t.refs[l])
    BY <1>11 DEF Store
  <2> DEFINE e == [Operand(Null) EXCEPT !.refs[l] = t.operand]
             old == t.refs[l]
  <2>2. ~Passing(e) /\ NoteAndCollect(e, old)
    BY <1>2, <2>1
  <2> HIDE DEF e, old
  <2>3. QED
    BY <1>7, <2>2
<1>12. CASE SetField
  <2>1. PICK target, s, value : Put(target, s, value)
    BY <1>12 DEF SetField
  <2>2. QED
    BY <2>1, ShallowPut
<1>13. CASE SetStatic
  <2>1. NoteAndCollect(Operand(Null), static)
    BY <1>13 DEF SetStatic
  <2>2. QED
    BY <1>2, <1>7, <2>1
<1>14. CASE Pop
  <2> DEFINE g == Glue("discard", <<t.operand>>, Null)
             e == Operand(Null)
  <2>1. ~Passing(g) /\ ~Passing(e) /\ stack' = <<g, e>> \o b
    BY <1>2, <1>3, <1>14 DEF Pop
  <2> HIDE DEF g, e, b
  <2>2. QED
    BY <1>4, <2>1
<1>15. CASE Call
  <2> DEFINE f == Frame("call", Receiving(t.operand))
             e == Operand(Null)
  <2>1. ~Passing(f) /\ ~Passing(e) /\ stack' = <<f, e>> \o b
    BY <1>2, <1>3, <1>15 DEF Call
  <2> HIDE DEF f, e, b
  <2>2. QED
    BY <1>4, <2>1
<1>16. CASE Leave
  <2>1. PICK thrown : stack' = <<[t EXCEPT !.at = "collect", !.thrown = thrown]>> \o b
    BY <1>16 DEF Leave, Become
  <2> DEFINE e == [t EXCEPT !.at = "collect", !.thrown = thrown]
  <2>2. ~Passing(e) /\ stack' = <<e>> \o b
    BY <1>3, <2>1
  <2> HIDE DEF e, b
  <2>3. QED
    BY <1>5, <2>2
<1>17. QED
  BY <1>8, <1>9, <1>10, <1>11, <1>12, <1>13, <1>14, <1>15, <1>16

LEMMA ShallowStep ==
  ASSUME Inv, Formed(stack, program), NEW d, Shallow(stack, d),
         [Next]_vars, ~RunPendingCollection
  PROVE  Shallow(stack', d)
<1> DEFINE b == below
           t == top
<1>1. CASE stack = <<>>
  <2>1. stack' = stack
    BY <1>1 DEF Next, vars, Release, Unlock, Note, Discarded, ForceDestroy, ClearArray, DropGarbage,
                Free, EndPass, New, Load, GetField, Store, SetField, SetStatic, Pop, Call, Leave,
                Thread, Over, At, Running
  <2>2. QED
    BY <2>1
<1>2. CASE stack # <<>>
  <2>1. /\ Shallow(b, d) /\ b \in Seq(Entries) /\ t \in Entries
        /\ t.refs \in Seq(Nodes \cup {Null}) /\ DOMAIN t.refs = 1..Len(t.refs)
    BY <1>2, ShallowBelow, Opened, LenProperties DEF Entries
  <2>2. ASSUME NEW e, e.who = t.who, e.at = t.at \/ ~Passing(e) \/ Passing(t)
        PROVE  Shallow(<<e>> \o b, d)
    <3>1. Passing(e) => Passing(t)
      BY <2>2 DEF Passing
    <3>2. QED
      BY <1>2, <2>2, <3>1, ShallowTop
  <2>3. ASSUME NEW at, GoTo(at), at \in {"collect", "blocked"} \/ Passing(t)
        PROVE  Shallow(stack', d)
    <3> DEFINE e == [t EXCEPT !.at = at]
    <3>1. e.who = t.who /\ (~Passing(e) \/ Passing(t)) /\ stack' = <<e>> \o b
      BY <2>1, <2>3 DEF Entries, GoTo, Passing
    <3> HIDE DEF e, t, b
    <3>2. QED
      BY <2>2, <3>1
  <2>4. CASE Release
    <3>1. PICK i \in DOMAIN t.refs :
             LET rest == [t EXCEPT !.refs[i] = Null] IN
             LetGo(t.refs[i], IF t.at = "drop" /\ t.lock = Null /\ Empty(rest.refs) THEN b ELSE <<rest>> \o b)
      BY <2>4 DEF Release
    <3> DEFINE r == [t EXCEPT !.refs[i] = Null]
               s == <<r>> \o b
               u == IF t.at = "drop" /\ t.lock = Null /\ Empty(r.refs) THEN b ELSE s
               n == t.refs[i]
    <3>2. LetGo(n, u)
      BY <3>1
    <3>3. [t.refs EXCEPT ![i] = Null] \in Seq(Nodes \cup {Null})
      BY <2>1
    <3>4. r \in Entries /\ r.who = t.who /\ r.at = t.at
      BY <2>1, <3>3 DEF Entries
    <3> HIDE DEF r, n
    <3>5. Shallow(s, d) /\ s \in Seq(Entries)
      BY <2>1, <2>2, <3>4, PushSeq DEF Push
    <3> HIDE DEF s, b, t
    <3>6. Shallow(u, d) /\ u \in Seq(Entries)
      BY <2>1, <3>5
    <3> HIDE DEF u
    <3>7. QED
      BY <3>2, <3>6, ShallowLetGo
  <2>5. CASE Free
    <3>1. PICK n \in t.garbage : LetGo(n, <<[t EXCEPT !.garbage = t.garbage \ {n}]>> \o b)
      BY <2>5 DEF Free
    <3> DEFINE r == [t EXCEPT !.garbage = t.garbage \ {n}]
               s == <<r>> \o b
    <3>2. r \in Entries /\ r.who = t.who /\ r.at = t.at /\ LetGo(n, s)
      BY <2>1, <3>1 DEF Entries
    <3> HIDE DEF r
    <3>3. Shallow(s, d) /\ s \in Seq(Entries)
      BY <2>1, <2>2, <3>2, PushSeq DEF Push
    <3> HIDE DEF s
    <3>4. QED
      BY <3>2, <3>3, ShallowLetGo
  <2>6. CASE ForceDestroy
    <3>1. PICK n \in t.todo :
            LET rest == <<[t EXCEPT !.todo = t.todo \ {n}]>> \o b IN
            stack' = rest \/ stack' = <<OnCopy(n)>> \o rest \/ stack' = Dropping(Fields(n), Null) \o rest
      BY <2>6 DEF ForceDestroy
    <3> DEFINE r == [t EXCEPT !.todo = t.todo \ {n}]
               s == <<r>> \o b
               e == OnCopy(n)
               c == Dropping(Fields(n), Null)
    <3>2. r.who = t.who /\ r.at = t.at /\ Idle(c) /\ ~Passing(e)
      BY <2>1, IdleDropping DEF Entries, Passing, OnCopy, Frame
    <3>3. stack' = s \/ stack' = <<e>> \o s \/ stack' = c \o s
      BY <3>1
    <3> HIDE DEF r, e, c
    <3>4. Shallow(s, d)
      BY <2>2, <3>2
    <3> HIDE DEF s
    <3>5. QED
      BY <3>2, <3>3, <3>4, ShallowOn, IdleOn
  <2>7. CASE ClearArray
    <3>1. Passing(t) /\ \E n : GoTo("blocked") \/ stack' = Dropping(Fields(n), n) \o stack
      BY <2>7 DEF ClearArray, At, Passing
    <3>2. PICK n : GoTo("blocked") \/ stack' = Dropping(Fields(n), n) \o stack
      BY <3>1
    <3> DEFINE c == Dropping(Fields(n), n)
    <3>3. Idle(c) /\ (GoTo("blocked") \/ stack' = c \o stack)
      BY <3>2, IdleDropping
    <3> HIDE DEF c
    <3>4. QED
      BY <2>3, <3>1, <3>3, IdleOn
  <2>8. CASE DropGarbage
    BY <2>3, <2>8 DEF DropGarbage, At, Passing
  <2>9. CASE Unlock
    BY <2>1, <2>9 DEF Unlock
  <2>10. CASE Note \/ Discarded
    BY <2>1, <2>3, <2>10 DEF Note, Discarded
  <2>11. CASE EndPass
    BY <1>2, <2>1, <2>11, ShallowFinished DEF EndPass
  <2>12. CASE Thread \/ Over \/ UNCHANGED vars
    BY <2>12 DEF Thread, Over, vars
  <2>13. CASE \/ (\E k \in program.kinds : New(k)) \/ Load \/ GetField \/ Store \/ SetField
              \/ SetStatic \/ Pop \/ Call \/ Leave
    <3>1. Running
      BY <2>13 DEF New, Load, GetField, Store, SetField, SetStatic, Pop, Call, Leave
    <3>2. QED
      BY <1>2, <2>13, <3>1, ShallowFrame
  <2>14. QED
    BY <2>4, <2>5, <2>6, <2>7, <2>8, <2>9, <2>10, <2>11, <2>12, <2>13 DEF Next
<1>3. QED
  BY <1>1, <1>2

-----------------------------------------------------------------------------
(* Objects whose destructor was passed over.                               *)

\* Gutted by a pass without a destructor call.
Skipped == {n \in live \cap destroyed \cap Objects : kind[n] = "class" /\ ran[n] = 0}

\* Of the heap and the statics, only garbage refers to the garbage.
HeapSealed(G) == static \notin G /\ \A m \in live \ G : Range(field[m]) \cap G = {}

\* They are the garbage of a pass on a full call stack, which will free them
\* before anything else can.
Heeded == \/ Shallow(stack, program.depth) /\ Skipped = {}
          \/ \E G : Sealed(stack, G, program.depth) /\ HeapSealed(G) /\ Skipped \subseteq G

\* What a death leaves.
LEMMA SkippedDie ==
  ASSUME Inv, NEW n \in live, NEW rest, Die(n, rest)
  PROVE  /\ Skipped' \subseteq Skipped \ {n}
         /\ ~RunsDestructor(n) => live' = live \ {n} /\ field' = [field EXCEPT ![n] = NoKeys]
                                  /\ stack' = Dropping(Fields(n), Null) \o Forget(rest, n)
         /\ n \in Objects /\ RunsDestructor(n) => ran'[n] = 1
<1>1. /\ live \subseteq Nodes /\ live \ Objects \subseteq destroyed /\ Objects \subseteq Nodes
      /\ \A m \in Nodes : CopyOf(m) \in Nodes \ Objects
      /\ ran \in [Objects -> 0..2]
      /\ \A m \in Objects : m \in live \ destroyed => ran[m] = 0
  BY Numbers DEF Inv, HeapOK, Fresh
<1>2. n \in Nodes /\ kind' = kind
  BY <1>1 DEF Die
<1>3. CASE RunsDestructor(n)
  <2>1. n \notin destroyed /\ n \in Objects
    BY <1>1, <1>3 DEF RunsDestructor
  <2>2. Origin(n) = n /\ CopyOf(n) \notin Objects /\ ran[n] = 0
    BY <1>1, <2>1 DEF Origin
  <2>3. /\ live' = (live \ {n}) \cup {CopyOf(n)} /\ destroyed' = destroyed \cup {CopyOf(n)}
        /\ ran' = [ran EXCEPT ![n] = IF ran[n] < 2 THEN ran[n] + 1 ELSE 2]
    BY <1>3, <2>2 DEF Die, MoveToCopy
  <2>4. ran'[n] = 1 /\ \A m \in Objects : m # n => ran'[m] = ran[m]
    BY <1>1, <2>1, <2>2, <2>3
  <2>5. Skipped' \subseteq Skipped \ {n}
    BY <1>2, <2>2, <2>3, <2>4 DEF Skipped
  <2>6. QED
    BY <1>3, <2>4, <2>5
<1>4. CASE ~RunsDestructor(n)
  <2>1. live' = live \ {n} /\ destroyed' = destroyed \ {n} /\ ran' = ran
        /\ field' = [field EXCEPT ![n] = NoKeys] /\ stack' = Dropping(Fields(n), Null) \o Forget(rest, n)
    BY <1>4 DEF Die
  <2>2. Skipped' \subseteq Skipped \ {n}
    BY <1>2, <2>1 DEF Skipped
  <2>3. QED
    BY <1>4, <2>1, <2>2
<1>5. QED
  BY <1>3, <1>4

\* Only force_destroy passes a destructor over, on a full call stack.
LEMMA SkippedStep ==
  ASSUME Inv, [Next]_vars
  PROVE  \/ Skipped' \subseteq Skipped
         \/ /\ ForceDestroy /\ ~(Frames < program.depth)
            /\ Skipped' \subseteq Skipped \cup top.todo
<1>1. /\ live \subseteq Nodes /\ live \ Objects \subseteq destroyed /\ destroyed \subseteq live
      /\ \A m \in Nodes : CopyOf(m) \in Nodes \ Objects /\ Origin(m) \in Objects
      /\ ran \in [Objects -> 0..2] /\ kind \in [Objects -> AllKinds] /\ Objects \subseteq Nodes
      /\ \A m \in Objects : m \in live \ destroyed => ran[m] = 0
  BY Numbers DEF Inv, HeapOK, Fresh
<1>2. ASSUME UNCHANGED <<live, kind, destroyed, ran>> PROVE Skipped' \subseteq Skipped
  BY <1>2 DEF Skipped
<1>3. CASE \E n, rest : n \in live /\ LetGo(n, rest)
  <2>1. PICK n, rest : n \in live /\ LetGo(n, rest)
    BY <1>3
  <2>2. CASE Die(n, rest)
    BY <2>1, <2>2, SkippedDie
  <2>3. CASE UNCHANGED <<heap, pending>>
    BY <1>2, <2>3 DEF heap
  <2>4. QED
    BY <2>1, <2>2, <2>3 DEF LetGo
<1>4. ASSUME NEW k, New(k) PROVE Skipped' \subseteq Skipped
  <2>1. PICK n \in 1..program.objects :
          /\ {n, CopyOf(n)} \cap live = {} /\ live' = live \cup {n}
          /\ kind' = [kind EXCEPT ![n] = k] /\ ran' = [ran EXCEPT ![n] = 0]
          /\ destroyed' = destroyed
    BY <1>4 DEF New
  <2>2. \A m \in Objects : m # n => kind'[m] = kind[m] /\ ran'[m] = ran[m]
    BY <1>1, <2>1
  <2>3. n \notin destroyed
    BY <1>1, <2>1
  <2>4. QED
    BY <2>1, <2>2, <2>3 DEF Skipped
<1>5. ASSUME ForceDestroy
      PROVE  \/ Skipped' \subseteq Skipped
             \/ ~(Frames < program.depth) /\ Skipped' \subseteq Skipped \cup top.todo
  <2>1. PICK n \in top.todo :
          \/ UNCHANGED heap
          \/ /\ n \notin destroyed /\ UNCHANGED kind
             /\ IF RunsDestructor(n)
                  THEN /\ live' = live \cup {CopyOf(n)} /\ destroyed' = Marked(n) \cup {CopyOf(n)}
                       /\ MoveToCopy(n)
                  ELSE destroyed' = Marked(n) /\ UNCHANGED <<live, ran>>
    BY <1>5 DEF ForceDestroy
  <2>2. CASE UNCHANGED heap
    BY <1>2, <2>2 DEF heap
  <2>3. CASE n \notin destroyed /\ RunsDestructor(n) /\ ~UNCHANGED heap
    <3>1. n \in live
      BY <1>5, Innermost, Numbers DEF ForceDestroy, At, Inv, Whole, Mentions, Entries
    <3>2. n \in Objects /\ Origin(n) = n /\ CopyOf(n) \notin Objects /\ ran[n] = 0
      BY <1>1, <2>3, <3>1 DEF Origin
    <3>3. /\ live' = live \cup {CopyOf(n)} /\ destroyed' = destroyed \cup {n} \cup {CopyOf(n)} /\ kind' = kind
          /\ ran' = [ran EXCEPT ![n] = IF ran[n] < 2 THEN ran[n] + 1 ELSE 2]
      BY <2>1, <2>3, <3>2 DEF Marked, MoveToCopy
    <3>4. ran'[n] = 1 /\ \A m \in Objects : m # n => ran'[m] = ran[m]
      BY <1>1, <3>2, <3>3
    <3>5. QED
      BY <3>2, <3>3, <3>4 DEF Skipped
  <2>4. CASE n \notin destroyed /\ ~RunsDestructor(n) /\ ~UNCHANGED heap
    <3>1. destroyed' = destroyed \cup {n} /\ live' = live /\ ran' = ran /\ kind' = kind
      BY <2>1, <2>4 DEF Marked
    <3>2. CASE Frames < program.depth
      <4>1. Kind(n) # "class"
        BY <2>4, <3>2 DEF RunsDestructor
      <4>2. n \in Objects => kind[n] # "class"
        BY <4>1 DEF Kind, Origin
      <4>3. QED
        BY <3>1, <4>2 DEF Skipped
    <3>3. CASE ~(Frames < program.depth)
      BY <3>1, <3>3 DEF Skipped
    <3>4. QED
      BY <3>2, <3>3
  <2>5. QED
    BY <2>1, <2>2, <2>3, <2>4
<1>6. ASSUME Release \/ Free PROVE \E n, rest : n \in live /\ LetGo(n, rest)
  <2>1. stack # <<>> /\ Whole(top, live)
    BY <1>6, Innermost DEF Release, Free, At, Inv
  <2>2. CASE Release
    <3>1. PICK i \in DOMAIN top.refs : top.refs[i] # Null /\ \E rest : LetGo(top.refs[i], rest)
      BY <2>2 DEF Release
    <3>2. top.refs[i] \in live
      BY <2>1, <3>1 DEF Whole, Mentions, Range
    <3>3. QED
      BY <3>1, <3>2
  <2>3. CASE Free
    <3>1. PICK n \in top.garbage : \E rest : LetGo(n, rest)
      BY <2>3 DEF Free
    <3>2. n \in live
      BY <2>1, <3>1, Numbers DEF Whole, Mentions, Entries
    <3>3. QED
      BY <3>1, <3>2
  <2>4. QED
    BY <1>6, <2>2, <2>3
<1>7. CASE SetField
  <2>1. \E target, s, value : Put(target, s, value)
    BY <1>7 DEF SetField
  <2>2. QED
    BY <1>2, <2>1 DEF Put
<1>8. CASE ClearArray
  BY <1>2, <1>8 DEF ClearArray, heap
<1>9. CASE \/ Unlock \/ Note \/ Discarded \/ RunPendingCollection \/ DropGarbage \/ EndPass
           \/ Load \/ GetField \/ Store \/ SetStatic \/ Pop \/ Call \/ Leave
           \/ Thread \/ Over \/ UNCHANGED vars
  BY <1>2, <1>9 DEF Unlock, Note, Discarded, RunPendingCollection, DropGarbage, EndPass,
           Load, GetField, Store, SetStatic, Pop, Call, Leave, Thread, Over, vars, heap
<1>10. QED
  BY <1>3, <1>4, <1>5, <1>6, <1>7, <1>8, <1>9 DEF Next

\* A pass that starts: on a full call stack it seals what is below it.
LEMMA HeedCollection ==
  ASSUME Inv, Formed(stack, program), Shallow(stack, program.depth), Skipped = {},
         RunPendingCollection
  PROVE  Heeded'
<1> DEFINE d == program.depth
           set == Closure(pending)
           G == set \ LiveIn(set)
           b == below
           t == top
           f == [t EXCEPT !.at = "destroy", !.garbage = G, !.todo = {n \in G : IsObject(n)},
                          !.survivors = Survivors(set)]
           x == [t EXCEPT !.at = "blocked", !.survivors = set]
<1>1. /\ stack # <<>> /\ t.at = "collect" /\ Empty(t.refs)
      /\ UNCHANGED <<program, heap, static>>
      /\ \/ stack' = Finished
         \/ stack' = <<x>> \o b
         \/ stack' = <<f>> \o b
  BY DEF RunPendingCollection, At
<1>2. /\ t \in Entries /\ b \in Seq(Entries) /\ Shallow(b, d)
      /\ HeldOn(stack) = Refd(t) \cup HeldOn(b)
  BY <1>1, Opened, ShallowBelow
<1>3. /\ f.at = "destroy" /\ f.garbage = G /\ f.refs = t.refs /\ f.operand = t.operand
      /\ ~Passing(x)
  BY <1>2 DEF Entries, Passing
<1>4. Skipped' = {} /\ live' = live /\ field' = field
  BY <1>1 DEF Skipped, heap
<1>5. set \subseteq live /\ Null \notin G
  BY Reached, Numbers DEF Inv, HeapOK
<1>6. ASSUME NEW n \in G
      PROVE  static # n /\ n \notin HeldOn(stack) /\ \A m \in live : n \in Range(field[m]) => m \in G
  <2> HIDE DEF set
  <2>1. QED
    BY <1>5, GarbageApart
<1> HIDE DEF G
<1>7. PICK H : H = G
  OBVIOUS
<1>8. HeapSealed(H)'
  BY <1>1, <1>4, <1>6, <1>7 DEF HeapSealed
<1>9. (Range(t.refs) \cup {t.operand}) \cap G = {} /\ HeldOn(b) \cap G = {}
  BY <1>2, <1>6 DEF Refd
<1>10. CASE stack' = Finished
  <2>1. Shallow(stack', d)
    BY <1>1, <1>2, <1>10, ShallowFinished
  <2>2. QED
    BY <1>1, <1>4, <2>1 DEF Heeded
<1> HIDE DEF b, f, x
<1>11. CASE stack' = <<x>> \o b
  <2>1. Shallow(stack', d)
    BY <1>2, <1>3, <1>11, ShallowOn
  <2>2. QED
    BY <1>1, <1>4, <2>1 DEF Heeded
<1>12. CASE stack' = <<f>> \o b
  <2> DEFINE s == <<f>> \o b
  <2>1. CASE Cardinality(Calls(s, 1)) >= d
    <3>1. Passing(f) /\ (Range(f.refs) \cup {f.operand}) \cap G = {}
      BY <1>3, <1>9 DEF Passing
    <3>2. Sealed(s, G, d)
      BY <1>2, <1>3, <1>9, <2>1, <3>1, SealedApart
    <3>3. Sealed(stack', H, d)
      BY <1>7, <1>12, <3>2
    <3>4. QED
      BY <1>1, <1>4, <1>8, <3>3 DEF Heeded
  <2>2. CASE ~(Cardinality(Calls(s, 1)) >= d)
    <3>1. Shallow(s, d)
      BY <1>2, <2>2, ShallowApart
    <3>2. Shallow(stack', d)
      BY <1>12, <3>1
    <3>3. QED
      BY <1>1, <1>4, <3>2 DEF Heeded
  <2>3. QED
    BY <2>1, <2>2
<1>13. QED
  BY <1>1, <1>10, <1>11, <1>12

\* While no pass is full, no destructor is passed over.
LEMMA HeedShallow ==
  ASSUME Inv, Formed(stack, program), Shallow(stack, program.depth), Skipped = {}, [Next]_vars
  PROVE  Heeded'
<1>1. CASE RunPendingCollection
  BY <1>1, HeedCollection
<1>2. CASE ~RunPendingCollection
  <2>1. Shallow(stack', program.depth)
    BY <1>2, ShallowStep
  <2>2. program' = program
    BY DEF Next, vars, Release, Unlock, Note, Discarded, ForceDestroy, ClearArray, DropGarbage,
           Free, EndPass, New, Load, GetField, Store, SetField, Put, SetStatic, Pop, Call, Leave,
           Thread, Over, RunPendingCollection
  <2>3. Skipped' \subseteq Skipped
    <3> SUFFICES ASSUME ForceDestroy, ~(Frames < program.depth) PROVE FALSE
      BY SkippedStep
    <3> DEFINE t == top
               b == below
               d == program.depth
    <3>1. stack # <<>> /\ Passing(t) /\ stack \in Seq(Entries) /\ program \in ProgramType
      BY CollectorAssumption DEF ForceDestroy, At, Passing, Inv, HeapOK, Sound
    <3>2. stack = <<t>> \o b /\ \E X : b \in Seq(X)
      BY <3>1, Apart DEF top, below, Push
    <3>3. Frames = Cardinality(Calls(stack, 1)) /\ Frames \in Nat /\ d \in Nat
      BY <3>1, AllCalls DEF ProgramType
    <3> HIDE DEF t, b, d
    <3>4. Cardinality(Calls(stack, 1)) >= d
      BY <3>3 DEF d
    <3>5. ~(Passing(t) /\ Cardinality(Calls(<<t>> \o b, 1)) >= d)
      BY <3>2, ShallowApart DEF d
    <3>6. QED
      BY <3>1, <3>2, <3>4, <3>5
  <2>4. QED
    BY <2>1, <2>2, <2>3 DEF Heeded
<1>3. QED
  BY <1>1, <1>2

-----------------------------------------------------------------------------
(* The end of a pass that finds the call stack full.                       *)

LEMMA SealedDropping ==
  ASSUME NEW refs, NEW lock, NEW t, NEW G, NEW d, Sealed(t, G, d)
  PROVE  Sealed(Dropping(refs, lock) \o t, G, d)
<1> DEFINE c == Dropping(refs, lock)
           g == Glue("drop", refs, lock)
<1>1. g.at = "drop"
  BY DEF Glue, Frame
<1>2. c = <<>> \/ c = <<g>>
  BY DEF Dropping
<1> HIDE DEF c, g
<1>3. CASE c = <<>>
  <2>1. \E X : c \in Seq(X)
    <3>1. c \in Seq({})
      BY <1>3
    <3>2. QED
      BY <3>1
  <2>2. \A i \in 1..Len(c) : c[i].at = "drop"
    BY <1>3
  <2>3. QED
    BY <2>1, <2>2, SealedOn DEF c
<1>4. CASE c = <<g>>
  <2>1. c \in Seq({g}) /\ Len(c) = 1 /\ c[1] = g
    BY <1>4
  <2>2. \E X : c \in Seq(X)
    BY <2>1
  <2>3. \A i \in 1..Len(c) : c[i].at = "drop"
    BY <1>1, <2>1
  <2>4. QED
    BY <2>2, <2>3, SealedOn DEF c
<1>5. QED
  BY <1>2, <1>3, <1>4

\* The innermost entry of such a stack.
LEMMA SealedTop ==
  ASSUME Inv, NEW G, NEW d, Sealed(stack, G, d)
  PROVE  /\ stack # <<>> /\ stack = Push(top, below) /\ top \in Entries /\ below \in Seq(Entries)
         /\ \/ top.at = "drop" /\ Sealed(below, G, d)
            \/ /\ Passing(top) /\ top.garbage = G /\ Cardinality(Calls(stack, 1)) >= d
               /\ (Range(top.refs) \cup {top.operand}) \cap G = {}
               /\ Shallow(below, d) /\ HeldOn(below) \cap G = {}
<1>1. stack \in Seq(Entries) /\ stack # <<>>
  <2>1. stack \in Seq(Entries) /\ 1..Len(stack) # {}
    BY DEF Sealed, Inv, Sound
  <2>2. QED
    BY <2>1, EmptySeq
<1> DEFINE t == top
           b == below
<1>2. stack = <<t>> \o b /\ t \in Entries /\ b \in Seq(Entries)
  BY <1>1, Apart DEF top, below, Push
<1> HIDE DEF t, b
<1>3. \/ t.at = "drop" /\ Sealed(b, G, d)
      \/ /\ Passing(t) /\ t.garbage = G /\ Cardinality(Calls(stack, 1)) >= d
         /\ (Range(t.refs) \cup {t.operand}) \cap G = {}
         /\ Shallow(b, d) /\ HeldOn(b) \cap G = {}
  BY <1>2, SealedApart
<1>4. QED
  BY <1>1, <1>2, <1>3 DEF t, b, Push

\* The pass, changed but for what it is.
LEMMA SealedLike ==
  ASSUME Inv, NEW G, NEW d, Sealed(stack, G, d), Passing(top),
         NEW e, e.who = top.who, Passing(e), e.refs = top.refs, e.operand = top.operand,
         NEW H, H \subseteq G, e.garbage = H
  PROVE  Sealed(<<e>> \o below, H, d)
<1> DEFINE t == top
           b == below
<1>1. /\ stack = <<t>> \o b /\ \E X : b \in Seq(X)
      /\ t.garbage = G /\ Cardinality(Calls(stack, 1)) >= d
      /\ (Range(t.refs) \cup {t.operand}) \cap G = {}
      /\ Shallow(b, d) /\ HeldOn(b) \cap G = {}
  BY SealedTop DEF Push, Passing
<1>2. e.who = t.who /\ e.refs = t.refs /\ e.operand = t.operand
  OBVIOUS
<1> HIDE DEF t, b
<1>3. Calls(<<e>> \o b, 1) = Calls(<<t>> \o b, 1)
  BY <1>1, <1>2, SameCalls
<1>4. /\ Cardinality(Calls(<<e>> \o b, 1)) >= d
      /\ (Range(e.refs) \cup {e.operand}) \cap H = {} /\ HeldOn(b) \cap H = {}
  BY <1>1, <1>2, <1>3
<1>5. Sealed(<<e>> \o b, H, d)
  BY <1>1, <1>4, SealedApart
<1>6. QED
  BY <1>5 DEF b

\* A reference is dropped meanwhile: no destructor runs.
LEMMA HeedLetGo ==
  ASSUME Inv, NEW n \in live, NEW rest \in Seq(Entries), NEW G, Sealed(rest, G, program.depth),
         HeapSealed(G), Skipped \subseteq G \cup (IF StrongCount(n) = 1 THEN {n} ELSE {}),
         ~(Frames < program.depth), LetGo(n, rest), static' = static, program' = program
  PROVE  Heeded'
<1> DEFINE d == program.depth
<1>1. CASE StrongCount(n) = 1
  <2>1. Die(n, rest) /\ ~RunsDestructor(n)
    BY <1>1 DEF LetGo, RunsDestructor
  <2>2. /\ Skipped' \subseteq G /\ live' = live \ {n} /\ field' = [field EXCEPT ![n] = NoKeys]
        /\ stack' = Dropping(Fields(n), Null) \o Forget(rest, n)
    BY <1>1, <2>1, SkippedDie
  <2> DEFINE f == Forget(rest, n)
             refs == Fields(n)
  <2>3. Sealed(f, G, d)
    BY ForgetAlike
  <2> HIDE DEF f, refs
  <2>4. Sealed(Dropping(refs, Null) \o f, G, d)
    BY <2>3, SealedDropping
  <2>5. Sealed(stack', G, d)
    BY <2>2, <2>4 DEF f, refs
  <2>6. \A m \in live' : field'[m] = field[m]
    BY <2>2 DEF Inv, HeapOK
  <2>7. HeapSealed(G)'
    BY <2>2, <2>6 DEF HeapSealed
  <2>8. QED
    BY <2>2, <2>5, <2>7 DEF Heeded
<1>2. CASE StrongCount(n) # 1
  <2>1. stack' = rest /\ UNCHANGED heap
    BY <1>2 DEF LetGo
  <2>2. HeapSealed(G)' /\ Skipped' = Skipped
    BY <2>1 DEF HeapSealed, Skipped, heap
  <2>3. QED
    BY <1>2, <2>1, <2>2 DEF Heeded
<1>3. QED
  BY <1>1, <1>2

\* The pass frees its garbage: nothing is left that refers to it.
LEMMA HeedFree ==
  ASSUME Inv, Shape, Known, Quiet, NEW G, Sealed(stack, G, program.depth), HeapSealed(G),
         Skipped \subseteq G, ~(Frames < program.depth), Free
  PROVE  Heeded'
<1>1. /\ stack # <<>> /\ top.at = "free" /\ Passing(top)
      /\ static' = static /\ program' = program
  BY DEF Free, At, Passing
<1>2. PICK n \in top.garbage : LetGo(n, <<[top EXCEPT !.garbage = top.garbage \ {n}]>> \o below)
  BY DEF Free
<1> DEFINE e == [top EXCEPT !.garbage = top.garbage \ {n}]
           H == G \ {n}
<1>3. /\ top \in Entries /\ below \in Seq(Entries) /\ Whole(top, live) /\ top.garbage = G
      /\ (Range(top.refs) \cup {top.operand}) \cap G = {} /\ HeldOn(below) \cap G = {}
  BY <1>1, SealedTop, Opened DEF Shape
<1>4. /\ e \in Entries /\ e.refs = top.refs /\ e.garbage = H
      /\ e.who = top.who /\ e.operand = top.operand /\ e.at = top.at
  BY <1>3 DEF Entries
<1> HIDE DEF e
<1>5. Sealed(<<e>> \o below, H, program.depth)
  <2>1. Passing(e) /\ H \subseteq G
    BY <1>1, <1>4 DEF Passing
  <2>2. QED
    BY <1>1, <1>4, <2>1, SealedLike
<1>6. n \in live /\ n # Null /\ n \in G /\ live \subseteq Nodes
  BY <1>2, <1>3, Numbers DEF Whole, Mentions, Entries, Inv, HeapOK
<1>7. \A m \in G : Range(field[m]) \subseteq {Null}
  <2>1. Gutted /\ G \subseteq Objects /\ PassOf(top)
    <3>1. /\ stack # <<>> /\ Formed(stack, program)
          /\ Gutted /\ GarbageOn(stack) \subseteq Objects /\ Passes(stack)
      BY <1>1 DEF Known, Shape, CopiesApart
    <3>2. QED
      BY <1>3, <3>1, Opened
  <2>2. \A m \in G : m \in destroyed \/ Range(field[m]) \subseteq {Null}
    BY <1>1, <1>3, <2>1 DEF PassOf
  <2>3. QED
    BY <2>1, <2>2 DEF Gutted
<1>8. StrongCount(n) = 1
  <2> DEFINE b == below
             p == Push(e, b)
  <2>1. Len(top.refs) \in Nat
    BY <1>3, LenProperties DEF Entries
  <2>2. -1 \in HeldAt(top, n) /\ HeldAt(e, n) = HeldAt(top, n) \ {-1}
    BY <1>2, <1>3, <1>4, <2>1 DEF HeldAt
  <2>3. StrongCount(n) # 1 => \/ static = n \/ n \in HeldOn(p)
                              \/ \E m \in live : n \in Range(field[m])
    BY <1>1, <1>4, <1>6, <2>2, GivesUp DEF Shape
  <2>4. b \in Seq(Entries)
    BY <1>3
  <2>5. static # n /\ n \notin HeldOn(b)
    BY <1>3, <1>6 DEF HeapSealed
  <2>6. n \notin Refd(e)
    BY <1>3, <1>4, <1>6 DEF Refd
  <2> HIDE DEF b
  <2>7. n \notin HeldOn(p)
    BY <1>4, <2>4, <2>5, <2>6, Pushing
  <2>8. \A m \in live : n \notin Range(field[m])
    BY <1>6, <1>7 DEF HeapSealed
  <2>9. QED
    BY <2>3, <2>5, <2>7, <2>8
<1>9. HeapSealed(H)
  <2>1. Null \notin H
    BY <1>3, Numbers DEF Entries
  <2>2. \A m \in live \ H : Range(field[m]) \cap H = {}
    BY <1>7, <2>1 DEF HeapSealed
  <2>3. QED
    BY <2>2 DEF HeapSealed
<1> DEFINE rest == <<e>> \o below
<1>10. rest \in Seq(Entries) /\ LetGo(n, rest)
  <2>1. LetGo(n, rest)
    BY <1>2 DEF e
  <2>2. QED
    BY <1>3, <1>4, <2>1, PushSeq DEF Push
<1>11. Skipped \subseteq H \cup (IF StrongCount(n) = 1 THEN {n} ELSE {})
  BY <1>8
<1>12. Sealed(rest, H, program.depth)
  BY <1>5
<1> HIDE DEF rest, H
<1>13. QED
  BY <1>1, <1>6, <1>9, <1>10, <1>11, <1>12, HeedLetGo

\* The lock of a node of the garbage is not held by what is below.
LEMMA NotLocked ==
  ASSUME Inv, Formed(stack, program), NEW G, NEW d, Sealed(stack, G, d), Passing(top)
  PROVE  G \cap Locked = {}
<1> SUFFICES ASSUME NEW i \in 1..Len(stack), stack[i].lock \in G, stack[i].lock # Null PROVE FALSE
  <2>1. DOMAIN stack = 1..Len(stack)
    BY LenProperties DEF Inv, Sound
  <2>2. QED
    BY <2>1 DEF Locked
<1>1. HeldOn(below) \cap G = {} /\ stack = Push(top, below) /\ top \in Entries /\ below \in Seq(Entries)
  BY SealedTop DEF Passing
<1>2. i < Len(stack) /\ Holds(stack[i + 1], stack[i].lock)
  BY DEF Inv, Sound
<1>3. i \in 1..Len(below) /\ stack[i + 1] = below[i]
  <2> DEFINE t == top
             b == below
  <2>1. stack = Push(t, b) /\ t \in Entries /\ b \in Seq(Entries)
    BY <1>1
  <2> HIDE DEF t, b
  <2>2. /\ Len(Push(t, b)) = Len(b) + 1 /\ Len(b) \in Nat
        /\ \A j \in 1..Len(b) : Push(t, b)[j + 1] = b[j] /\ j + 1 \in 1..Len(Push(t, b))
    BY <2>1, PushSeq, Zenon
  <2>3. i \in 1..Len(b)
    BY <1>2, <2>1, <2>2
  <2>4. Push(t, b)[i + 1] = b[i]
    BY <2>2, <2>3
  <2>5. Len(stack) = Len(Push(t, b)) /\ stack[i + 1] = Push(t, b)[i + 1]
    BY <2>1
  <2>6. QED
    BY <2>3, <2>4, <2>5 DEF b
<1>4. stack[i].lock \in HeldOn(below)
  BY <1>2, <1>3 DEF Holds, HeldOn, Refd
<1>5. QED
  BY <1>1, <1>4

\* What else such a stack can do.
LEMMA HeedSealed ==
  ASSUME Inv, Shape, Known, Quiet, NEW G, Sealed(stack, G, program.depth), HeapSealed(G),
         Skipped \subseteq G, [Next]_vars
  PROVE  Heeded'
<1> DEFINE d == program.depth
<1>1. /\ stack # <<>> /\ stack = Push(top, below) /\ top \in Entries /\ below \in Seq(Entries)
      /\ \/ top.at = "drop" /\ Sealed(below, G, d)
         \/ Passing(top)
      /\ Formed(stack, program) /\ stack \in Seq(Entries)
  BY SealedTop DEF Shape, Inv, Sound
<1>2. d \in Nat /\ Frames \in Nat /\ Frames >= d
  <2>1. d \in Nat
    BY CollectorAssumption DEF Inv, HeapOK, ProgramType
  <2>2. QED
    BY <1>1, <2>1, AllCalls, Deep
<1>3. ~(Frames < d)
  BY <1>2
<1>4. ASSUME UNCHANGED <<program, heap, static>>, Sealed(stack', G, d) PROVE Heeded'
  <2>1. HeapSealed(G)' /\ Skipped' = Skipped
    BY <1>4 DEF HeapSealed, Skipped, heap
  <2>2. QED
    BY <1>4, <2>1 DEF Heeded
<1>5. CASE Release
  <2> DEFINE t == top
             b == below
  <2>1. t.at = "drop" /\ Sealed(b, G, d) /\ UNCHANGED <<program, static>>
    BY <1>1, <1>5 DEF Release, At, Passing
  <2>2. PICK i \in DOMAIN t.refs :
           LET rest == [t EXCEPT !.refs[i] = Null] IN
           /\ t.refs[i] # Null
           /\ LetGo(t.refs[i], IF t.at = "drop" /\ t.lock = Null /\ Empty(rest.refs) THEN b ELSE <<rest>> \o b)
    BY <1>5 DEF Release
  <2> DEFINE r == [t EXCEPT !.refs[i] = Null]
             s == <<r>> \o b
             u == IF t.at = "drop" /\ t.lock = Null /\ Empty(r.refs) THEN b ELSE s
             n == t.refs[i]
  <2>3. LetGo(n, u)
    BY <2>2
  <2>4. n \in live
    <3>1. Whole(t, live)
      BY <1>1, Opened
    <3>2. QED
      BY <2>2, <3>1 DEF Whole, Mentions, Range
  <2>5. t.refs \in Seq(Nodes \cup {Null}) /\ DOMAIN t.refs = 1..Len(t.refs)
    BY <1>1, LenProperties DEF Entries
  <2>6. [t.refs EXCEPT ![i] = Null] \in Seq(Nodes \cup {Null})
    BY <2>5
  <2>7. r \in Entries /\ r.at = "drop"
    BY <1>1, <2>1, <2>6 DEF Entries
  <2>8. b \in Seq(Entries)
    BY <1>1
  <2> HIDE DEF r, n, b, t
  <2>9. Sealed(s, G, d) /\ s \in Seq(Entries)
    BY <2>1, <2>7, <2>8, SealedApart, PushSeq DEF Push
  <2> HIDE DEF s
  <2>10. Sealed(u, G, d) /\ u \in Seq(Entries)
    BY <2>1, <2>8, <2>9
  <2> HIDE DEF u
  <2>11. QED
    BY <1>3, <2>1, <2>3, <2>4, <2>10, HeedLetGo
<1>6. CASE Unlock
  BY <1>1, <1>4, <1>6 DEF Unlock, At, Passing, heap
<1>7. CASE ForceDestroy
  <2>1. /\ top.at = "destroy" /\ Passing(top) /\ top.garbage = G /\ UNCHANGED <<program, static>>
        /\ top.todo \subseteq G
    BY <1>1, <1>7, SealedTop, Opened DEF ForceDestroy, At, Passing, Whole
  <2>2. PICK n \in top.todo :
          LET rest == <<[top EXCEPT !.todo = top.todo \ {n}]>> \o below IN
          \/ stack' = rest /\ UNCHANGED heap
          \/ /\ UNCHANGED live /\ field' = [field EXCEPT ![n] = NoKeys]
             /\ stack' = Dropping(Fields(n), Null) \o rest
    BY <1>3, <1>7 DEF ForceDestroy, RunsDestructor
  <2> DEFINE e == [top EXCEPT !.todo = top.todo \ {n}]
             rest == <<e>> \o below
             refs == Fields(n)
  <2>3. e.who = top.who /\ e.at = top.at /\ e.refs = top.refs /\ e.operand = top.operand /\ e.garbage = G
    BY <1>1, <2>1 DEF Entries
  <2>4. \/ stack' = rest /\ UNCHANGED heap
        \/ UNCHANGED live /\ field' = [field EXCEPT ![n] = NoKeys] /\ stack' = Dropping(refs, Null) \o rest
    BY <2>2
  <2> HIDE DEF e, refs
  <2>5. Sealed(rest, G, d)
    <3>1. Passing(e)
      BY <2>1, <2>3 DEF Passing
    <3>2. QED
      BY <2>1, <2>3, <3>1, SealedLike
  <2> HIDE DEF rest
  <2>6. Sealed(stack', G, d)
    <3>1. Sealed(Dropping(refs, Null) \o rest, G, d)
      BY <2>5, SealedDropping
    <3>2. stack' = rest \/ stack' = Dropping(refs, Null) \o rest
      BY <2>4
    <3>3. QED
      BY <2>5, <3>1, <3>2
  <2>7. Skipped' \subseteq G
    BY <2>1, SkippedStep
  <2>8. HeapSealed(G)'
    <3>1. CASE UNCHANGED heap
      BY <2>1, <3>1 DEF HeapSealed, heap
    <3>2. CASE UNCHANGED live /\ field' = [field EXCEPT ![n] = NoKeys]
      <4>1. n \in G
        BY <2>1
      <4>2. \A m \in live \ G : field'[m] = field[m]
        BY <3>2, <4>1 DEF Inv, HeapOK
      <4>3. QED
        BY <2>1, <3>2, <4>2 DEF HeapSealed
    <3>3. QED
      BY <2>4, <3>1, <3>2
  <2>9. QED
    BY <2>1, <2>6, <2>7, <2>8 DEF Heeded
<1>8. CASE ClearArray
  <2>1. /\ top.at = "destroy" /\ Passing(top) /\ top.garbage = G /\ UNCHANGED <<program, static>>
    BY <1>1, <1>8, SealedTop DEF ClearArray, At, Passing
  <2>2. PICK n \in G :
          IF n \in Locked
            THEN GoTo("blocked") /\ UNCHANGED heap
            ELSE /\ field' = [field EXCEPT ![n] = NoKeys]
                 /\ stack' = Dropping(Fields(n), n) \o stack
                 /\ UNCHANGED <<live, kind, destroyed, ran>>
    BY <1>8, <2>1 DEF ClearArray, Uncleared
  <2>3. n \notin Locked
    BY <1>1, <2>1, NotLocked
  <2>4. Sealed(stack', G, d)
    <3>1. Sealed(Dropping(Fields(n), n) \o stack, G, d)
      BY SealedDropping
    <3>2. stack' = Dropping(Fields(n), n) \o stack
      BY <2>2, <2>3
    <3>3. QED
      BY <3>1, <3>2
  <2>5. \A m \in live \ G : field'[m] = field[m]
    BY <2>2, <2>3 DEF Inv, HeapOK
  <2>6. HeapSealed(G)' /\ Skipped' = Skipped
    BY <2>1, <2>2, <2>3, <2>5 DEF HeapSealed, Skipped
  <2>7. QED
    BY <2>1, <2>4, <2>6 DEF Heeded
<1>9. CASE DropGarbage
  <2> DEFINE e == [top EXCEPT !.at = "free"]
  <2>1. /\ Passing(top) /\ top.garbage = G /\ UNCHANGED <<program, heap, static>>
        /\ stack' = <<e>> \o below
    BY <1>1, <1>9, SealedTop DEF DropGarbage, At, Passing, GoTo
  <2>2. e.who = top.who /\ Passing(e) /\ e.refs = top.refs /\ e.operand = top.operand /\ e.garbage = G
    BY <1>1, <2>1 DEF Entries, Passing
  <2> HIDE DEF e
  <2>3. Sealed(<<e>> \o below, G, d)
    BY <2>1, <2>2, SealedLike
  <2>4. QED
    BY <1>4, <2>1, <2>3
<1>10. CASE Free
  BY <1>3, <1>10, HeedFree
<1>11. CASE EndPass
  <2>1. G = {} /\ Shallow(below, d) /\ stack' = Finished /\ UNCHANGED <<program, heap>>
    BY <1>1, <1>11, SealedTop DEF EndPass, At, Passing
  <2>2. Shallow(stack', d)
    BY <1>1, <2>1, ShallowFinished
  <2>3. Skipped' = {}
    BY <2>1 DEF Skipped, heap
  <2>4. QED
    BY <2>1, <2>2, <2>3 DEF Heeded
<1>12. CASE Thread \/ Over \/ UNCHANGED vars
  BY <1>4, <1>12 DEF Thread, Over, vars
<1>13. CASE Note \/ Discarded \/ RunPendingCollection
  BY <1>1, <1>13 DEF Note, Discarded, RunPendingCollection, At, Passing
<1>14. CASE \/ (\E k \in program.kinds : New(k)) \/ Load \/ GetField \/ Store \/ SetField
            \/ SetStatic \/ Pop \/ Call \/ Leave
  BY <1>1, <1>14 DEF New, Load, GetField, Store, SetField, SetStatic, Pop, Call, Leave,
     Running, At, Passing
<1>15. QED
  BY <1>5, <1>6, <1>7, <1>8, <1>9, <1>10, <1>11, <1>12, <1>13, <1>14 DEF Next

\* A program starts with nothing on the heap.
LEMMA HeededInit == ASSUME Init PROVE Heeded
<1> DEFINE f == Frame(program.boot, NoLocals)
<1>1. ~Passing(f)
  BY DEF Frame, Passing
<1>2. stack = <<f>> /\ Skipped = {}
  BY DEF Init, Skipped
<1> HIDE DEF f
<1>3. Shallow(<<f>>, program.depth)
  BY <1>1, IdleOne, IdleShallow
<1>4. QED
  BY <1>2, <1>3 DEF Heeded

\* Who frees an object has called its destructor, or had no frame for it.
LEMMA FreedLate ==
  ASSUME Inv, Heeded, [Next]_vars, NEW n \in Objects, n \in live,
         {n, CopyOf(n)} \cap live' = {}, kind[n] = "class"
  PROVE  ran'[n] = 1 \/ Frames >= program.depth
<1>1. /\ n \in Nodes /\ Frames \in Nat /\ program.depth \in Nat /\ ran \in [Objects -> 0..2]
      /\ ran[n] <= 1
  BY Numbers, AllCalls, CollectorAssumption DEF Inv, HeapOK, Sound, ProgramType, Fresh
<1>2. PICK m, rest : m \in live /\ Die(m, rest)
  <2>1. ~UNCHANGED live
    OBVIOUS
  <2>2. Release \/ Free
    <3>1. ASSUME NEW k, New(k) PROVE FALSE
      BY <3>1 DEF New
    <3>2. ASSUME ForceDestroy PROVE FALSE
      BY <3>2 DEF ForceDestroy, heap
    <3>3. QED
      BY <2>1, <3>1, <3>2 DEF Next, vars, heap, Unlock, Note, Discarded, RunPendingCollection, ClearArray,
         DropGarbage, EndPass, Load, GetField, Store, SetField, Put, SetStatic, Pop, Call, Leave, Thread, Over
  <2>3. stack # <<>> /\ Whole(top, live)
    BY <2>2, Innermost DEF Release, Free, At, Inv
  <2>4. CASE Release
    <3>1. PICK i \in DOMAIN top.refs : top.refs[i] # Null /\ \E rest : LetGo(top.refs[i], rest)
      BY <2>4 DEF Release
    <3>2. top.refs[i] \in live
      BY <2>3, <3>1 DEF Whole, Mentions, Range
    <3>3. QED
      BY <2>1, <3>1, <3>2 DEF LetGo, heap
  <2>5. CASE Free
    <3>1. PICK m \in top.garbage : \E rest : LetGo(m, rest)
      BY <2>5 DEF Free
    <3>2. m \in live
      BY <2>3, <3>1, Numbers DEF Whole, Mentions, Entries
    <3>3. QED
      BY <2>1, <3>1, <3>2 DEF LetGo, heap
  <2>6. QED
    BY <2>2, <2>4, <2>5
<1>3. m = n
  BY <1>2 DEF Die
<1>4. CASE RunsDestructor(n)
  BY <1>2, <1>3, <1>4, SkippedDie
<1>5. CASE ~RunsDestructor(n)
  <2>1. ran' = ran
    BY <1>2, <1>3, <1>5 DEF Die
  <2>2. CASE n \notin destroyed
    <3>1. Kind(n) = "class"
      BY DEF Kind, Origin
    <3>2. ~(Frames < program.depth)
      BY <1>5, <2>2, <3>1 DEF RunsDestructor
    <3>3. QED
      BY <1>1, <3>2
  <2>3. CASE n \in destroyed /\ ran[n] # 1
    <3>1. n \in Skipped
      BY <1>1, <2>3 DEF Skipped
    <3>2. PICK G : Sealed(stack, G, program.depth)
      BY <3>1 DEF Heeded
    <3>3. QED
      BY <1>1, <3>2, Deep DEF Inv, Sound
  <2>4. QED
    BY <2>1, <2>2, <2>3
<1>6. QED
  BY <1>4, <1>5

\* DestructorBeforeFree: Object::drop and a pass free an object of a class with
\* a destructor only when that has run, unless the call stack has no frame left
\* for it (push_frame); programs no destructor of which stores a reference.
THEOREM DestructorsAreHeeded == Spec /\ ~program.escapes => DestructorBeforeFree
<1> DEFINE I == Leak /\ Heeded /\ ~program.escapes
<1>1. Init /\ ~program.escapes => I
  BY InvInit, ShapeInit, SafeInit, KnownInit, HeededInit DEF Leak
<1>2. I /\ [Next]_vars => I'
  <2> SUFFICES ASSUME I, [Next]_vars PROVE I'
    OBVIOUS
  <2>1. Leak'
    BY InvNext, NextMoves, MovesShape, MovesSafe, MovesKnown DEF Leak
  <2>2. Inv /\ Shape /\ Known /\ Quiet /\ Formed(stack, program)
    BY DEF Leak, Quiet, Shape
  <2>3. Heeded'
    BY <2>2, HeedShallow, HeedSealed DEF Heeded
  <2>4. program' = program
    BY DEF Next, vars, Release, Unlock, Note, Discarded, ForceDestroy, ClearArray, DropGarbage,
           Free, EndPass, New, Load, GetField, Store, SetField, Put, SetStatic, Pop, Call, Leave,
           Thread, Over, RunPendingCollection
  <2>5. QED
    BY <2>1, <2>3, <2>4
<1>3. I /\ [Next]_vars =>
        [\A n \in Objects : /\ n \in live
                            /\ {n, CopyOf(n)} \cap live' = {}
                            /\ kind[n] = "class"
                            => ran'[n] = 1 \/ Frames >= program.depth]_vars
  BY FreedLate DEF Leak
<1>4. QED
  BY <1>1, <1>2, <1>3, PTL DEF Spec, DestructorBeforeFree

===============================================================================
