---------------------- MODULE CycleCollectorReachProofs ----------------------
(***************************************************************************)
(* Trial deletion is right, for any programs and any bounds: what a pass   *)
(* takes for garbage is out of the program's reach, and stays so until it  *)
(* is freed.                                                               *)
(***************************************************************************)
EXTENDS CycleCollectorStackProofs

-----------------------------------------------------------------------------
(* What can be reached, over any heap: Closure with its state as arguments.*)

ClosedIn(F, T) == \A m \in T : \A s \in DOMAIN F[m] : F[m][s] \in T \cup {Null}

Reach(L, F, S) ==
  {n \in L : \A T \in SUBSET L : S \ {Null} \subseteq T /\ ClosedIn(F, T) => n \in T}

\* It is the least closed set with the roots.
LEMMA Least ==
  ASSUME NEW L, NEW F, NEW S, NEW T, T \subseteq L, S \ {Null} \subseteq T, ClosedIn(F, T)
  PROVE  Reach(L, F, S) \subseteq T
BY DEF Reach

LEMMA ReachClosed ==
  ASSUME NEW L, NEW F, NEW S, S \ {Null} \subseteq L,
         \A m \in L : \A s \in DOMAIN F[m] : F[m][s] \in L \cup {Null}
  PROVE  /\ Reach(L, F, S) \subseteq L /\ S \ {Null} \subseteq Reach(L, F, S)
         /\ ClosedIn(F, Reach(L, F, S))
<1> DEFINE R == Reach(L, F, S)
<1>1. R \subseteq L /\ S \ {Null} \subseteq R
  BY DEF Reach
<1>2. ASSUME NEW m \in R, NEW s \in DOMAIN F[m], F[m][s] # Null
      PROVE  F[m][s] \in R
  <2>1. F[m][s] \in L
    BY <1>1, <1>2
  <2>2. ASSUME NEW T \in SUBSET L, S \ {Null} \subseteq T, ClosedIn(F, T)
        PROVE  F[m][s] \in T
    <3>1. m \in T
      BY <2>2 DEF Reach
    <3>2. QED
      BY <1>2, <2>2, <3>1 DEF ClosedIn
  <2>3. QED
    BY <2>1, <2>2 DEF Reach
<1>3. ClosedIn(F, R)
  BY <1>2 DEF ClosedIn
<1>4. QED
  BY <1>1, <1>3

LEMMA Reaches == \A S : Closure(S) = Reach(live, field, S)
BY DEF Closure, Reach, ClosedIn

\* More roots reach more.
LEMMA ReachMore ==
  ASSUME NEW L, NEW F, NEW S, NEW U, S \subseteq U \cup {Null}
  PROVE  Reach(L, F, S) \subseteq Reach(L, F, U)
<1> SUFFICES ASSUME NEW n \in Reach(L, F, S), NEW T \in SUBSET L,
                    U \ {Null} \subseteq T, ClosedIn(F, T)
             PROVE  n \in T
  BY DEF Reach
<1>1. S \ {Null} \subseteq T
  OBVIOUS
<1>2. QED
  BY <1>1, Least

\* The roots of the program.
Roots == {static} \cup MineOn(stack)

LEMMA RootsReach ==
  ASSUME stack \in Seq(Entries)
  PROVE  ProgramReaches = Reach(live, field, Roots)
<1>1. DOMAIN stack = 1..Len(stack)
  BY LenProperties
<1> DEFINE mine == {i \in DOMAIN stack : \A j \in DOMAIN stack : stack[j].who = "destruct" => i > j}
           A == UNION {{stack[i].operand} : i \in mine}
           B == UNION {Range(stack[i].refs) : i \in {j \in mine : stack[j].at = "run"}}
<1>2. mine = Mine(stack)
  BY <1>1 DEF Mine
<1>3. ProgramReaches = Closure({static} \cup A \cup B)
  BY DEF ProgramReaches
<1> HIDE DEF mine
<1>4. A \cup B = MineOn(stack)
  <2>1. A \cup B \subseteq MineOn(stack)
    BY <1>2 DEF MineOn, Rooted
  <2>2. MineOn(stack) \subseteq A \cup B
    BY <1>2 DEF MineOn, Rooted
  <2>3. QED
    BY <2>1, <2>2
<1> HIDE DEF A, B
<1>5. {static} \cup A \cup B = Roots
  BY <1>4 DEF Roots
<1>6. QED
  BY <1>3, <1>5, Reaches

\* The same in the next state.
LEMMA RootsReachNext ==
  ASSUME stack' \in Seq(Entries)
  PROVE  ProgramReaches' = Reach(live', field', {static'} \cup MineOn(stack'))
<1>1. DOMAIN stack' = 1..Len(stack')
  BY LenProperties
<1> DEFINE mine == {i \in DOMAIN stack' : \A j \in DOMAIN stack' : stack'[j].who = "destruct" => i > j}
           A == UNION {{stack'[i].operand} : i \in mine}
           B == UNION {Range(stack'[i].refs) : i \in {j \in mine : stack'[j].at = "run"}}
<1>2. mine = Mine(stack')
  BY <1>1 DEF Mine
<1>3. ProgramReaches' = Reach(live', field', {static'} \cup A \cup B)
  BY DEF ProgramReaches, Closure, Reach, ClosedIn
<1> HIDE DEF mine
<1>4. A \cup B = MineOn(stack')
  <2>1. A \cup B \subseteq MineOn(stack')
    BY <1>2 DEF MineOn, Rooted
  <2>2. MineOn(stack') \subseteq A \cup B
    BY <1>2 DEF MineOn, Rooted
  <2>3. QED
    BY <2>1, <2>2
<1> HIDE DEF A, B
<1>5. {static'} \cup A \cup B = {static'} \cup MineOn(stack')
  BY <1>4
<1>6. QED
  BY <1>3, <1>5

\* What a stack holds, keeps and reclaims is live.
LEMMA StackLive ==
  ASSUME Inv
  PROVE  /\ HeldOn(stack) \cup MineOn(stack) \cup KeptOn(stack) \subseteq live \cup {Null}
         /\ GarbageOn(stack) \subseteq live
         /\ MineOn(stack) \subseteq HeldOn(stack) /\ GarbageOn(stack) \subseteq HeldOn(stack)
<1>1. \A i \in 1..Len(stack) : Mentions(stack[i]) \subseteq live \cup {Null}
  BY DEF Inv, Sound, Whole
<1>2. \A i \in 1..Len(stack) : stack[i].garbage \subseteq Nodes
  BY DEF Inv, Sound, Whole, Entries
<1>3. HeldOn(stack) \cup KeptOn(stack) \subseteq live \cup {Null}
  BY <1>1 DEF HeldOn, KeptOn, Refd, Kept, Mentions
<1>4. MineOn(stack) \subseteq HeldOn(stack)
  BY DEF MineOn, Mine, Rooted, HeldOn, Refd
<1>5. GarbageOn(stack) \subseteq Nodes /\ GarbageOn(stack) \subseteq HeldOn(stack)
  BY <1>2 DEF GarbageOn, HeldOn, Refd
<1>6. QED
  BY <1>3, <1>4, <1>5, Numbers

\* What the program reaches is live, and closed, and has its roots.
LEMMA ProgramReach ==
  ASSUME Inv
  PROVE  /\ ProgramReaches \subseteq live /\ Roots \subseteq ProgramReaches \cup {Null}
         /\ ClosedIn(field, ProgramReaches) /\ Closed(ProgramReaches)
<1>1. Roots \ {Null} \subseteq live /\ stack \in Seq(Entries)
  BY StackLive DEF Roots, Inv, HeapOK, Sound
<1>2. \A m \in live : \A s \in DOMAIN field[m] : field[m][s] \in live \cup {Null}
  BY DEF Inv, HeapOK, Range
<1>3. ProgramReaches = Reach(live, field, Roots)
  BY <1>1, RootsReach
<1>4. QED
  BY <1>1, <1>2, <1>3, ReachClosed DEF Closed, ClosedIn

\* No reference from outside (External): none from a static, none from the
\* stack, and every edge comes from the set.
LEMMA NotExternal ==
  ASSUME Inv, NEW n, NEW set, ~(External(n, set) > 0)
  PROVE  /\ static # n /\ (n # Null => n \notin HeldOn(stack))
         /\ \A m \in live \ set : n # Null => n \notin Range(field[m])
<1> DEFINE E == Edges(n)
           own == {e \in E : e[1] \in set}
           S == OnStack(n)
<1>1. IsFiniteSet(E) /\ IsFiniteSet(S)
  BY Countable DEF Inv
<1>2. own \in SUBSET E
  OBVIOUS
<1>3. IsFiniteSet(own) /\ Cardinality(own) <= Cardinality(E) /\ (Cardinality(E) = Cardinality(own) => E = own)
  BY <1>1, <1>2, FS_Subset
<1>4. Cardinality(E) \in Nat /\ Cardinality(own) \in Nat /\ Cardinality(S) \in Nat
  BY <1>1, <1>3, FS_CardinalityType
<1>5. /\ External(n, set) = (StrongCount(n) + 1) - 1 - Cardinality(own)
      /\ StrongCount(n) = Cardinality(E) + (IF static = n THEN 1 ELSE 0) + Cardinality(S)
  BY DEF External, StrongCount
<1> HIDE DEF E, own, S
<1>6. static # n /\ Cardinality(S) = 0 /\ Cardinality(E) = Cardinality(own)
  BY <1>3, <1>4, <1>5
<1>7. S = {} /\ E = own
  BY <1>1, <1>3, <1>6, FS_EmptySet
<1>8. n # Null => n \notin HeldOn(stack)
  <2>1. stack \in Seq(Entries) /\ DOMAIN stack = 1..Len(stack)
    BY LenProperties DEF Inv, Sound
  <2>2. \A i \in 1..Len(stack) : HeldAt(stack[i], n) = {}
    <3>1. ASSUME NEW i \in 1..Len(stack), NEW k \in HeldAt(stack[i], n) PROVE FALSE
      <4>1. <<i, k>> \in OnStack(n)
        BY <2>1 DEF OnStack
      <4>2. QED
        BY <1>7, <4>1 DEF S
    <3>2. QED
      BY <3>1
  <2>3. NoneRefers(stack, n)
    <3>1. \A i \in 1..Len(stack) : stack[i] \in Entries
      BY <2>1, ElementOfSeq
    <3>2. QED
      BY <2>2, <3>1, Places DEF NoneRefers
  <2>4. QED
    BY <2>1, <2>3, Holder
<1>9. ASSUME NEW m \in live \ set, n # Null, n \in Range(field[m])
      PROVE  FALSE
  <2>1. PICK s \in DOMAIN field[m] : field[m][s] = n
    BY <1>9 DEF Range
  <2>2. m \in Nodes /\ field[m] \in Contents
    BY DEF Inv, HeapOK
  <2>3. s \in Slots
    BY <2>1, <2>2 DEF Contents
  <2>4. <<m, s>> \in E
    BY <2>1, <2>3 DEF E, Edges, Fields
  <2>5. QED
    BY <1>7, <1>9, <2>4 DEF own
<1>10. QED
  BY <1>6, <1>8, <1>9

\* The garbage of a pass has no reference from outside, of the survivors either.
LEMMA GarbageApart ==
  ASSUME Inv, NEW set, NEW n \in set \ LiveIn(set), set \subseteq live
  PROVE  /\ n # Null /\ static # n /\ n \notin HeldOn(stack)
         /\ \A m \in live : n \in Range(field[m]) => m \in set \ LiveIn(set)
<1> DEFINE ext == {x \in set : External(x, set) > 0}
<1>1. LiveIn(set) = Reach(live, field, ext)
  BY Reaches DEF LiveIn
<1>2. \A m \in live : \A s \in DOMAIN field[m] : field[m][s] \in live \cup {Null}
  BY DEF Inv, HeapOK, Range
<1>3. Null \notin live
  BY Numbers DEF Inv, HeapOK
<1>4. ext \ {Null} \subseteq live /\ n # Null
  BY <1>3
<1>5. ext \ {Null} \subseteq LiveIn(set) /\ ClosedIn(field, LiveIn(set))
  BY <1>1, <1>2, <1>4, ReachClosed
<1>6. ~(External(n, set) > 0)
  BY <1>4, <1>5
<1> HIDE DEF ext
<1>7. /\ static # n /\ n \notin HeldOn(stack)
      /\ \A m \in live \ set : n \notin Range(field[m])
  BY <1>4, <1>6, NotExternal
<1>8. ASSUME NEW m \in live, n \in Range(field[m]), m \in LiveIn(set) PROVE FALSE
  BY <1>4, <1>5, <1>8 DEF ClosedIn, Range
<1>9. QED
  BY <1>4, <1>7, <1>8

-----------------------------------------------------------------------------
(* The invariant: nothing that the program reaches is gutted, or about to  *)
(* be.                                                                     *)

Safe == Quiet => ProgramReaches \cap (destroyed \cup GarbageOn(stack)) = {}

\* It is enough to find a closed set around the roots, away from the garbage.
LEMMA SafeNext ==
  ASSUME Inv', program' = program,
         Quiet => \E T : /\ T \subseteq live' /\ ClosedIn(field', T)
                         /\ {static'} \cup MineOn(stack') \subseteq T \cup {Null}
                         /\ T \cap (destroyed' \cup GarbageOn(stack')) = {}
  PROVE  Safe'
<1> SUFFICES ASSUME Quiet PROVE (ProgramReaches \cap (destroyed \cup GarbageOn(stack)) = {})'
  BY DEF Safe, Quiet, NoClass
<1>1. PICK T : /\ T \subseteq live' /\ ClosedIn(field', T)
               /\ {static'} \cup MineOn(stack') \subseteq T \cup {Null}
               /\ T \cap (destroyed' \cup GarbageOn(stack')) = {}
  OBVIOUS
<1>2. stack' \in Seq(Entries)
  BY DEF Inv, Sound
<1>3. ProgramReaches' = Reach(live', field', {static'} \cup MineOn(stack'))
  BY <1>2, RootsReachNext
<1>4. ({static'} \cup MineOn(stack')) \ {Null} \subseteq T
  BY <1>1
<1>5. ProgramReaches' \subseteq T
  BY <1>1, <1>3, <1>4, Least
<1>6. QED
  BY <1>1, <1>5

\* What is known of the program's reach before a step.
LEMMA SafeBefore ==
  ASSUME Inv, Safe, Quiet
  PROVE  /\ ProgramReaches \subseteq live /\ ClosedIn(field, ProgramReaches) /\ Closed(ProgramReaches)
         /\ static \in ProgramReaches \cup {Null} /\ MineOn(stack) \subseteq ProgramReaches \cup {Null}
         /\ ProgramReaches \cap destroyed = {} /\ ProgramReaches \cap GarbageOn(stack) = {}
BY ProgramReach DEF Safe, Roots

\* A closed set in which nothing changes stays closed.
LEMMA SameFields ==
  ASSUME NEW F, NEW H, NEW T, ClosedIn(F, T), \A m \in T : H[m] = F[m]
  PROVE  ClosedIn(H, T)
BY DEF ClosedIn

LEMMA SteadySafe ==
  ASSUME Inv, Inv', Safe, Steady
  PROVE  Safe'
<1> DEFINE R == ProgramReaches
<1>1. program' = program
  BY DEF Steady
<1>2. ASSUME Quiet
      PROVE  /\ R \subseteq live' /\ ClosedIn(field', R)
             /\ {static'} \cup MineOn(stack') \subseteq R \cup {Null}
             /\ R \cap (destroyed' \cup GarbageOn(stack')) = {}
  <2>1. /\ R \subseteq live /\ ClosedIn(field, R) /\ Closed(R)
        /\ static \in R \cup {Null} /\ MineOn(stack) \subseteq R \cup {Null}
        /\ R \cap destroyed = {} /\ R \cap GarbageOn(stack) = {}
    BY <1>2, SafeBefore
  <2> HIDE DEF R
  <2>2. /\ live' = live /\ field' = field /\ destroyed' = destroyed
        /\ {static'} \cup MineOn(stack') \subseteq R \cup {Null}
        /\ GarbageOn(stack') \subseteq GarbageOn(stack)
    BY <1>2, <2>1 DEF Steady, heap
  <2>3. QED
    BY <2>1, <2>2
<1> HIDE DEF R
<1>3. QED
  BY <1>1, <1>2, SafeNext

\* A pass begins to reclaim what has no reference from outside.
LEMMA ReclaimsSafe ==
  ASSUME Inv, Inv', Safe, NEW G, Reclaims(G)
  PROVE  Safe'
<1> DEFINE R == ProgramReaches
           T == R \ G
<1>1. program' = program
  BY DEF Reclaims
<1>2. ASSUME Quiet
      PROVE  /\ T \subseteq live' /\ ClosedIn(field', T)
             /\ {static'} \cup MineOn(stack') \subseteq T \cup {Null}
             /\ T \cap (destroyed' \cup GarbageOn(stack')) = {}
  <2>1. /\ R \subseteq live /\ ClosedIn(field, R)
        /\ static \in R \cup {Null} /\ MineOn(stack) \subseteq R \cup {Null}
        /\ R \cap destroyed = {} /\ R \cap GarbageOn(stack) = {}
    BY <1>2, SafeBefore
  <2> HIDE DEF R
  <2>2. /\ live' = live /\ field' = field /\ destroyed' = destroyed /\ static' = static
        /\ MineOn(stack') = MineOn(stack)
        /\ GarbageOn(stack') = GarbageOn(stack) \cup G
    BY DEF Reclaims, heap
  <2>3. /\ G \cap ({static} \cup HeldOn(stack)) = {}
        /\ \A x \in G : \A m \in live : x \in Range(field[m]) => m \in G
    <3> DEFINE set == Closure(pending)
    <3>1. set \subseteq live /\ G = set \ LiveIn(set)
      BY DEF Reclaims, Closure
    <3> HIDE DEF set
    <3>2. QED
      BY <3>1, GarbageApart
  <2>4. MineOn(stack) \subseteq HeldOn(stack)
    BY StackLive
  <2>5. ClosedIn(field, T)
    <3> SUFFICES ASSUME NEW m \in T, NEW s \in DOMAIN field[m] PROVE field[m][s] \in T \cup {Null}
      BY DEF ClosedIn
    <3>1. field[m][s] \in R \cup {Null} /\ m \in live /\ m \notin G
      BY <2>1 DEF ClosedIn
    <3>2. field[m][s] \in Range(field[m])
      BY DEF Range
    <3>3. QED
      BY <2>3, <3>1, <3>2
  <2>6. QED
    BY <2>1, <2>2, <2>3, <2>4, <2>5
<1> HIDE DEF T
<1>3. QED
  BY <1>1, <1>2, SafeNext

\* Garbage is gutted, and garbage is out of reach.
LEMMA GutsSafe ==
  ASSUME Inv, Inv', Safe, Single, NEW n, Guts(n) \/ Clears(n)
  PROVE  Safe'
<1> DEFINE R == ProgramReaches
<1>1. program' = program
  BY DEF Guts, Clears
<1>2. ASSUME Quiet
      PROVE  /\ R \subseteq live' /\ ClosedIn(field', R)
             /\ {static'} \cup MineOn(stack') \subseteq R \cup {Null}
             /\ R \cap (destroyed' \cup GarbageOn(stack')) = {}
  <2>1. /\ R \subseteq live /\ ClosedIn(field, R)
        /\ static \in R \cup {Null} /\ MineOn(stack) \subseteq R \cup {Null}
        /\ R \cap destroyed = {} /\ R \cap GarbageOn(stack) = {}
    BY <1>2, SafeBefore
  <2> HIDE DEF R
  <2>2. /\ n \in GarbageOn(stack) /\ static' = static /\ MineOn(stack') \subseteq MineOn(stack) \cup {Null}
        /\ GarbageOn(stack') = GarbageOn(stack)
        /\ n \in live
    BY DEF Guts, Clears, Widens
  <2>3. field \in [Nodes -> Contents] /\ live \subseteq Nodes
    BY DEF Inv, HeapOK
  <2>4. /\ R \subseteq live' /\ R \cap destroyed' = {}
        /\ \A m \in R : field'[m] = field[m]
    <3>1. CASE Guts(n)
      <4>1. CopyOf(n) \notin R
        BY <2>1, <3>1 DEF Guts, Single
      <4>2. n \notin R /\ live' \in {live, live \cup {CopyOf(n)}}
            /\ destroyed' \subseteq destroyed \cup {n, CopyOf(n)}
            /\ field' \in {[field EXCEPT ![CopyOf(n)] = field[n], ![n] = NoKeys], [field EXCEPT ![n] = NoKeys]}
        BY <2>1, <2>2, <3>1 DEF Guts
      <4>3. QED
        BY <2>1, <2>3, <4>1, <4>2
    <3>2. CASE Clears(n)
      <4>1. n \notin R /\ live' = live /\ destroyed' = destroyed /\ field' = [field EXCEPT ![n] = NoKeys]
        BY <2>1, <2>2, <3>2 DEF Clears
      <4>2. QED
        BY <2>1, <2>3, <4>1
    <3>3. QED
      BY <3>1, <3>2
  <2>5. ClosedIn(field', R)
    BY <2>1, <2>4, SameFields
  <2>6. QED
    BY <2>1, <2>2, <2>4, <2>5
<1> HIDE DEF R
<1>3. QED
  BY <1>1, <1>2, SafeNext

\* What is new refers to nothing.
LEMMA AllocatesSafe ==
  ASSUME Inv, Inv', Safe, NEW n, NEW k, Allocates(n, k)
  PROVE  Safe'
<1> DEFINE R == ProgramReaches
           T == R \cup {n}
<1>1. program' = program
  BY DEF Allocates
<1>2. ASSUME Quiet
      PROVE  /\ T \subseteq live' /\ ClosedIn(field', T)
             /\ {static'} \cup MineOn(stack') \subseteq T \cup {Null}
             /\ T \cap (destroyed' \cup GarbageOn(stack')) = {}
  <2>1. /\ R \subseteq live /\ ClosedIn(field, R)
        /\ static \in R \cup {Null} /\ MineOn(stack) \subseteq R \cup {Null}
        /\ R \cap destroyed = {} /\ R \cap GarbageOn(stack) = {}
    BY <1>2, SafeBefore
  <2> HIDE DEF R
  <2>2. /\ n \in Objects /\ n \notin live /\ live' = live \cup {n} /\ static' = static
        /\ destroyed' = destroyed /\ field' = [field EXCEPT ![n] = [s \in Slots |-> Null]]
        /\ MineOn(stack') \subseteq MineOn(stack) \cup {n, Null}
        /\ GarbageOn(stack') = GarbageOn(stack)
    BY DEF Allocates, Widens
  <2>3. field \in [Nodes -> Contents] /\ n \in Nodes /\ destroyed \subseteq live /\ R \subseteq Nodes
    BY <2>1, <2>2, Numbers DEF Inv, HeapOK
  <2>4. GarbageOn(stack) \subseteq live
    BY StackLive
  <2>5. field'[n] = [s \in Slots |-> Null] /\ \A m \in R : field'[m] = field[m]
    BY <2>1, <2>2, <2>3
  <2>6. ClosedIn(field', T)
    BY <2>1, <2>5 DEF ClosedIn
  <2>7. QED
    BY <2>1, <2>2, <2>3, <2>4, <2>6
<1> HIDE DEF T
<1>3. QED
  BY <1>1, <1>2, SafeNext

\* The program stores what it reaches, and a destructor nothing.
LEMMA PutsSafe ==
  ASSUME Inv, Inv', Safe, Formed(stack, program), NEW target, NEW s, NEW value, Puts(target, s, value)
  PROVE  Safe'
<1> DEFINE R == ProgramReaches
<1>1. program' = program
  BY DEF Puts
<1>2. ASSUME Quiet
      PROVE  /\ R \subseteq live' /\ ClosedIn(field', R)
             /\ {static'} \cup MineOn(stack') \subseteq R \cup {Null}
             /\ R \cap (destroyed' \cup GarbageOn(stack')) = {}
  <2>1. /\ R \subseteq live /\ ClosedIn(field, R)
        /\ static \in R \cup {Null} /\ MineOn(stack) \subseteq R \cup {Null}
        /\ R \cap destroyed = {} /\ R \cap GarbageOn(stack) = {}
    BY <1>2, SafeBefore
  <2> HIDE DEF R
  <2>2. /\ target \in live /\ live' = live /\ destroyed' = destroyed /\ static' = static
        /\ field' = [field EXCEPT ![target] =
                       [x \in DOMAIN @ \cup {s} |-> IF x = s THEN value ELSE @[x]]]
        /\ MineOn(stack') \subseteq MineOn(stack) \cup {Null}
        /\ GarbageOn(stack') = GarbageOn(stack)
    BY DEF Puts
  <2>3. value \in R \cup {Null}
    <3>1. stack # <<>> /\ MayStore(value) /\ top.at = "run"
          /\ value \in Range(top.refs) \cup {top.operand, static, Null}
      BY DEF Puts
    <3>2. MineOn(stack) = MineOn(below) \cup
              (IF top.who = "destruct" \/ Destructing(below) THEN {} ELSE Rooted(top))
          /\ (Destructing(stack) <=> (top.who = "destruct" \/ Destructing(below)))
      BY <3>1, Opened
    <3>3. CASE Destructing(stack)
      <4>1. ~program.escapes
        BY <1>2, <3>3 DEF Quiet, Formed
      <4>2. InDestructor
        <5>1. DOMAIN stack = 1..Len(stack)
          BY LenProperties DEF Inv, Sound
        <5>2. QED
          BY <3>3, <5>1 DEF Destructing, InDestructor
      <4>3. QED
        BY <3>1, <4>1, <4>2 DEF MayStore
    <3>4. CASE ~Destructing(stack)
      <4>1. Rooted(top) = {top.operand} \cup Range(top.refs)
        BY <3>1 DEF Rooted
      <4>2. QED
        BY <2>1, <3>1, <3>2, <3>4, <4>1
    <3>5. QED
      BY <3>3, <3>4
  <2>4. field \in [Nodes -> Contents] /\ R \subseteq Nodes /\ target \in Nodes
    BY <2>1, <2>2 DEF Inv, HeapOK
  <2>5. ClosedIn(field', R)
    <3> SUFFICES ASSUME NEW m \in R, NEW x \in DOMAIN field'[m] PROVE field'[m][x] \in R \cup {Null}
      BY DEF ClosedIn
    <3>1. CASE m = target
      <4>1. field'[m] = [y \in DOMAIN field[m] \cup {s} |-> IF y = s THEN value ELSE field[m][y]]
        BY <2>2, <2>4, <3>1
      <4>2. x = s \/ x \in DOMAIN field[m]
        BY <4>1
      <4>3. QED
        BY <2>1, <2>3, <4>1, <4>2 DEF ClosedIn
    <3>2. CASE m # target
      <4>1. field'[m] = field[m]
        BY <2>2, <2>4, <3>2
      <4>2. QED
        BY <2>1, <4>1 DEF ClosedIn
    <3>3. QED
      BY <3>1, <3>2
  <2>6. QED
    BY <2>1, <2>2, <2>5
<1> HIDE DEF R
<1>3. QED
  BY <1>1, <1>2, SafeNext

\* What is freed was out of reach: nothing refers to it.
LEMMA FreesSafe ==
  ASSUME Inv, Inv', Safe, Single, NEW n, Frees(n)
  PROVE  Safe'
<1> DEFINE R == ProgramReaches
           T == R \ {n}
<1>1. program' = program
  BY DEF Frees
<1>2. ASSUME Quiet
      PROVE  /\ T \subseteq live' /\ ClosedIn(field', T)
             /\ {static'} \cup MineOn(stack') \subseteq T \cup {Null}
             /\ T \cap (destroyed' \cup GarbageOn(stack')) = {}
  <2>1. /\ R \subseteq live /\ ClosedIn(field, R)
        /\ static \in R \cup {Null} /\ MineOn(stack) \subseteq R \cup {Null}
        /\ R \cap destroyed = {} /\ R \cap GarbageOn(stack) = {}
    BY <1>2, SafeBefore
  <2> HIDE DEF R
  <2>2. PICK rest : Freed(n, rest) /\ StrongCount(n) = 1 /\ Departed(n, rest)
    BY DEF Frees
  <2>3. /\ n \in live /\ static' = static /\ static # n /\ n \notin MineOn(stack)
        /\ \A m \in Nodes : n \notin Range(field[m])
        /\ MineOn(stack') \subseteq MineOn(rest) \cup {Null}
        /\ MineOn(rest) \cup {Null} = MineOn(stack) \cup {Null}
        /\ GarbageOn(stack') \subseteq GarbageOn(stack)
    BY <2>2 DEF Frees, Freed, Departed
  <2>4. field \in [Nodes -> Contents] /\ live \subseteq Nodes /\ live \ Objects \subseteq destroyed
    BY DEF Inv, HeapOK, Fresh
  <2>5. /\ T \subseteq live' /\ T \cap destroyed' = {}
        /\ \A m \in T : field'[m] = field[m]
    <3>1. CASE RunsDestructor(n)
      <4>1. /\ live' = (live \ {n}) \cup {CopyOf(n)} /\ destroyed' = destroyed \cup {CopyOf(n)}
            /\ field' = [field EXCEPT ![CopyOf(n)] = field[n], ![n] = NoKeys]
            /\ n \notin destroyed
        BY <2>2, <3>1 DEF Departed, Die, MoveToCopy, RunsDestructor
      <4>2. CopyOf(n) \notin live
        BY <2>3, <2>4, <4>1 DEF Single
      <4>3. QED
        BY <2>1, <2>4, <4>1, <4>2
    <3>2. CASE ~RunsDestructor(n)
      <4>1. /\ live' = live \ {n} /\ destroyed' = destroyed \ {n}
            /\ field' = [field EXCEPT ![n] = NoKeys]
        BY <2>2, <3>2 DEF Departed, Die
      <4>2. QED
        BY <2>1, <2>4, <4>1
    <3>3. QED
      BY <3>1, <3>2
  <2>6. ClosedIn(field, T)
    <3> SUFFICES ASSUME NEW m \in T, NEW s \in DOMAIN field[m] PROVE field[m][s] \in T \cup {Null}
      BY DEF ClosedIn
    <3>1. field[m][s] \in R \cup {Null} /\ m \in Nodes
      BY <2>1, <2>4 DEF ClosedIn
    <3>2. field[m][s] # n
      BY <2>3, <3>1 DEF Range
    <3>3. QED
      BY <3>1, <3>2
  <2>7. ClosedIn(field', T)
    BY <2>5, <2>6, SameFields
  <2>8. QED
    BY <2>1, <2>3, <2>5, <2>7
<1> HIDE DEF T
<1>3. QED
  BY <1>1, <1>2, SafeNext

LEMMA SparesSafe ==
  ASSUME Inv, Inv', Safe, NEW n, Spares(n)
  PROVE  Safe'
<1> DEFINE R == ProgramReaches
<1>1. program' = program
  BY DEF Spares
<1>2. ASSUME Quiet
      PROVE  /\ R \subseteq live' /\ ClosedIn(field', R)
             /\ {static'} \cup MineOn(stack') \subseteq R \cup {Null}
             /\ R \cap (destroyed' \cup GarbageOn(stack')) = {}
  <2>1. /\ R \subseteq live /\ ClosedIn(field, R)
        /\ static \in R \cup {Null} /\ MineOn(stack) \subseteq R \cup {Null}
        /\ R \cap destroyed = {} /\ R \cap GarbageOn(stack) = {}
    BY <1>2, SafeBefore
  <2> HIDE DEF R
  <2>2. /\ live' = live /\ field' = field /\ destroyed' = destroyed /\ static' = static
        /\ MineOn(stack') \cup {Null} = MineOn(stack) \cup {Null}
        /\ GarbageOn(stack') \subseteq GarbageOn(stack)
    BY DEF Spares, Freed, heap
  <2>3. QED
    BY <2>1, <2>2
<1> HIDE DEF R
<1>3. QED
  BY <1>1, <1>2, SafeNext

LEMMA SafeInit == ASSUME Init PROVE Safe
<1>1. destroyed = {} /\ Len(stack) = 1 /\ stack[1].garbage = {}
  BY DEF Init, Frame
<1>2. GarbageOn(stack) = {}
  BY <1>1 DEF GarbageOn
<1>3. QED
  BY <1>1, <1>2 DEF Safe

LEMMA MovesSafe ==
  ASSUME Inv, Inv', Shape, Safe, Moves
  PROVE  Safe'
<1>1. Formed(stack, program) /\ Single
  BY DEF Shape
<1>2. QED
  BY <1>1, SteadySafe, ReclaimsSafe, GutsSafe, AllocatesSafe, PutsSafe, FreesSafe, SparesSafe DEF Moves

LEMMA SafeInvariant == Spec => [](Inv /\ Shape /\ Safe)
<1>1. Init => Inv /\ Shape /\ Safe
  BY InvInit, ShapeInit, SafeInit
<1>2. Inv /\ Shape /\ Safe /\ [Next]_vars => Inv' /\ Shape' /\ Safe'
  BY InvNext, NextMoves, MovesShape, MovesSafe
<1>3. QED
  BY <1>1, <1>2, PTL DEF Spec

\* SafeCollection: collect_cycles never guts an object that the program still
\* reaches, and never holds one as garbage (trial deletion is exact).
THEOREM CollectionIsSafe == Spec => []SafeCollection
<1>1. Safe => SafeCollection
  BY DEF Safe, SafeCollection, Quiet
<1>2. QED
  BY <1>1, SafeInvariant, PTL
===============================================================================
