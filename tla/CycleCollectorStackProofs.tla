---------------------- MODULE CycleCollectorStackProofs ----------------------
(***************************************************************************)
(* How the Rust stack of CycleCollector is built, for any programs and any *)
(* bounds: what may stand on what, and what every step keeps, drops and    *)
(* reaches.  From it follows where a thread can meet a lock of its own.    *)
(***************************************************************************)
EXTENDS CycleCollectorProofs

-----------------------------------------------------------------------------
(* What a stack holds, taken apart at its innermost entry.                 *)

Push(e, st) == <<e>> \o st

\* The references an entry holds; those of them, and of the survivors, that a
\* pass is sure to start from again; and those the program can still use.
Refd(e) == Range(e.refs) \cup {e.operand} \cup e.garbage
Kept(e) == e.survivors \cup e.garbage
           \cup (IF e.at \in {"run", "note", "blocked"} THEN Range(e.refs) ELSE {})
Rooted(e) == {e.operand} \cup (IF e.at = "run" THEN Range(e.refs) ELSE {})

In(st) == {st[i] : i \in 1..Len(st)}
HeldOn(st) == UNION {Refd(st[i]) : i \in 1..Len(st)}
KeptOn(st) == UNION {Kept(st[i]) : i \in 1..Len(st)}
GarbageOn(st) == UNION {st[i].garbage : i \in 1..Len(st)}
LocksOn(st) == {st[i].lock : i \in 1..Len(st)}
Destructing(st) == \E i \in 1..Len(st) : st[i].who = "destruct"
\* Below every frame that runs for a destructor.
Mine(st) == {i \in 1..Len(st) : \A j \in 1..Len(st) : st[j].who = "destruct" => i > j}
MineOn(st) == UNION {Rooted(st[i]) : i \in Mine(st)}
AllRun(st) == \A i \in 1..Len(st) : st[i].at = "run"

\* The stages an entry goes through, and what it holds in each.
Clean(e) ==
  /\ e.lock # Null => e.at = "drop"
  /\ e.at \in {"destroy", "free"} => Empty(e.refs)
  /\ e.at \notin {"destroy", "free", "blocked"} => e.garbage = {} /\ e.survivors = {}
  /\ e.who \in {"glue", "sweep"} => e.operand = Null /\ ~e.thrown /\ e.at # "run"
  /\ e.at = "run" => ~e.thrown
  /\ e.who \in FrameKinds => e.at \in {"run", "collect", "destroy", "free", "blocked"}
  /\ e.who = "sweep" => e.at \in {"collect", "destroy", "free", "blocked"}
  /\ e.at \in {"collect", "destroy", "free"} /\ ~e.thrown /\ e.who # "call" => e.operand = Null

\* A call returns to a frame that has taken its argument off its operand stack.
OnTop(e, f) == e.who = "call" => f.at = "run" /\ f.operand = Null

Outermost == {"main", "clinit", "sweep"}
NoClass(p) == "class" \notin p.kinds
NoContainer(p) == p.kinds \cap {"array", "list"} = {}
Separate(p) == NoClass(p) \/ NoContainer(p)

\* What program p finds on its stack: without destructors nothing but more
\* dropping happens inside a drop or a pass; without arrays and lists no lock is
\* held while anything is dropped; in either case nothing ever waits for one.
Formed(st, p) ==
  /\ \A i \in 1..Len(st) : Clean(st[i])
  /\ \A i \in 1..Len(st) : i < Len(st) => OnTop(st[i], st[i + 1])
  /\ NoClass(p) => ~Destructing(st)
  /\ NoClass(p) => \A i, j \in 1..Len(st) : i < j /\ st[j].at # "run" => st[i].at = "drop"
  /\ NoContainer(p) => LocksOn(st) \subseteq {Null}
  /\ Separate(p) => \A i \in 1..Len(st) : st[i].at # "blocked"
  /\ \A i \in 1..Len(st) : st[i].who \in Outermost => i = Len(st)
  /\ p.boot = "main" => \A i \in 1..Len(st) : /\ i = Len(st) => st[i].who \in Outermost
                                              /\ st[i].who # "clinit"

\* e may stand on st.
Fits(e, st, p) ==
  /\ Clean(e)
  /\ st # <<>> => OnTop(e, st[1])
  /\ NoClass(p) => e.who # "destruct" /\ (e.at = "drop" \/ AllRun(st))
  /\ NoContainer(p) => e.lock = Null
  /\ Separate(p) => e.at # "blocked"
  /\ e.who \in Outermost => st = <<>>
  /\ p.boot = "main" => e.who # "clinit" /\ (st = <<>> => e.who \in Outermost)

\* What a pass has done to its garbage when force_destroy, and then clear(), are
\* through with it.
PassOf(e) ==
  /\ e.at = "destroy" => \A n \in e.garbage : n \notin e.todo /\ IsObject(n) => n \in destroyed
  /\ e.at = "free" =>
       \A n \in e.garbage : IF IsObject(n) THEN n \in destroyed ELSE Range(field[n]) \subseteq {Null}
Passes(st) == \A i \in 1..Len(st) : PassOf(st[i])

\* A stack and its innermost entry.
LEMMA PushSeq ==
  ASSUME NEW e \in Entries, NEW st \in Seq(Entries)
  PROVE  /\ Push(e, st) \in Seq(Entries) /\ Push(e, st) # <<>>
         /\ Len(Push(e, st)) = Len(st) + 1 /\ Len(st) \in Nat
         /\ Push(e, st)[1] = e /\ Tail(Push(e, st)) = st
         /\ \A i \in 1..Len(st) : Push(e, st)[i + 1] = st[i] /\ i + 1 \in 1..Len(Push(e, st))
         /\ \A i \in 1..Len(Push(e, st)) :
              i = 1 \/ (i - 1 \in 1..Len(st) /\ Push(e, st)[i] = st[i - 1])
         /\ 1 \in 1..Len(Push(e, st))
         /\ st = <<>> <=> Len(st) = 0
<1>1. <<e>> \in Seq(Entries)
  OBVIOUS
<1>2. /\ Push(e, st) \in Seq(Entries) /\ Len(Push(e, st)) = Len(st) + 1 /\ Len(st) \in Nat
      /\ \A i \in 1..Len(Push(e, st)) : Push(e, st)[i] = IF i = 1 THEN e ELSE st[i - 1]
  BY <1>1, ConcatProperties, LenProperties DEF Push
<1>3. \A i \in 1..Len(st) : i + 1 \in 1..Len(Push(e, st)) /\ i + 1 # 1 /\ (i + 1) - 1 = i
  BY <1>2
<1>4. \A i \in 1..Len(Push(e, st)) : i = 1 \/ i - 1 \in 1..Len(st)
  BY <1>2
<1>5. 1 \in 1..Len(Push(e, st)) /\ Push(e, st) # <<>>
  BY <1>2, EmptySeq
<1>6. Tail(Push(e, st)) = st
  <2>1. Push(e, st) \in Seq(Entries) /\ Push(e, st) # <<>>
    BY <1>2, <1>5
  <2> DEFINE u == Push(e, st)
             t == Tail(u)
  <2> HIDE DEF u
  <2>2. /\ t \in Seq(Entries) /\ Len(t) = Len(u) - 1
        /\ \A i \in 1..Len(t) : t[i] = u[i + 1]
    BY <2>1, HeadTailProperties DEF u
  <2> HIDE DEF t
  <2>3. Len(t) = Len(st) /\ \A i \in 1..Len(t) : t[i] = st[i]
    BY <1>2, <1>3, <2>2 DEF u
  <2>4. t = st
    BY <2>2, <2>3, SeqEqual
  <2>5. QED
    BY <2>4 DEF t, u
<1>7. st = <<>> <=> Len(st) = 0
  BY EmptySeq
<1>8. Push(e, st)[1] = e
  BY <1>2, <1>5
<1>9. \A i \in 1..Len(st) : Push(e, st)[i + 1] = st[i] /\ i + 1 \in 1..Len(Push(e, st))
  BY <1>2, <1>3
<1>10. \A i \in 1..Len(Push(e, st)) :
         i = 1 \/ (i - 1 \in 1..Len(st) /\ Push(e, st)[i] = st[i - 1])
  BY <1>2, <1>4
<1>11. QED
  BY <1>2, <1>5, <1>6, <1>7, <1>8, <1>9, <1>10

\* A stack that is not empty is its innermost entry on the rest.
LEMMA Apart ==
  ASSUME NEW st \in Seq(Entries), st # <<>>
  PROVE  st = Push(st[1], Tail(st)) /\ st[1] \in Entries /\ Tail(st) \in Seq(Entries)
<1>1. Tail(st) \in Seq(Entries) /\ Len(st) \in Nat \ {0} /\ Len(Tail(st)) = Len(st) - 1
      /\ \A i \in 1..Len(Tail(st)) : Tail(st)[i] = st[i + 1]
  BY HeadTailProperties, EmptySeq, LenProperties
<1>2. st[1] \in Entries
  BY <1>1, ElementOfSeq
<1> DEFINE t == Tail(st)
           u == Push(st[1], t)
<1> HIDE DEF t
<1>3. /\ u \in Seq(Entries) /\ Len(u) = Len(t) + 1 /\ u[1] = st[1]
      /\ \A i \in 1..Len(u) : i = 1 \/ (i - 1 \in 1..Len(t) /\ u[i] = t[i - 1])
  BY <1>1, <1>2, PushSeq DEF t
<1> HIDE DEF u
<1>4. Len(u) = Len(st)
  BY <1>1, <1>3 DEF t
<1>5. \A i \in 1..Len(u) : u[i] = st[i]
  <2>1. \A i \in 1..Len(t) : t[i] = st[i + 1]
    BY <1>1 DEF t
  <2>2. \A i \in 1..Len(u) : i \in Int /\ (i - 1) + 1 = i
    BY <1>1, <1>4
  <2>3. QED
    BY <1>3, <2>1, <2>2
<1>6. u = st
  BY <1>3, <1>4, <1>5, SeqEqual
<1>7. QED
  BY <1>1, <1>2, <1>6 DEF u, t

\* What a stack holds is what its innermost entry and the rest hold.
LEMMA Parts ==
  ASSUME NEW e \in Entries, NEW st \in Seq(Entries)
  PROVE  /\ HeldOn(Push(e, st)) = Refd(e) \cup HeldOn(st)
         /\ KeptOn(Push(e, st)) = Kept(e) \cup KeptOn(st)
         /\ GarbageOn(Push(e, st)) = e.garbage \cup GarbageOn(st)
         /\ LocksOn(Push(e, st)) = {e.lock} \cup LocksOn(st)
         /\ Destructing(Push(e, st)) <=> (e.who = "destruct" \/ Destructing(st))
         /\ AllRun(Push(e, st)) <=> (e.at = "run" /\ AllRun(st))
         /\ Passes(Push(e, st)) <=> (PassOf(e) /\ Passes(st))
<1> DEFINE p == Push(e, st)
<1>1. /\ p[1] = e /\ 1 \in 1..Len(p)
      /\ \A i \in 1..Len(st) : p[i + 1] = st[i] /\ i + 1 \in 1..Len(p)
      /\ \A i \in 1..Len(p) : i = 1 \/ (i - 1 \in 1..Len(st) /\ p[i] = st[i - 1])
  BY PushSeq
<1> HIDE DEF p
<1>2. HeldOn(p) = Refd(e) \cup HeldOn(st)
  <2>1. HeldOn(p) \subseteq Refd(e) \cup HeldOn(st)
    BY <1>1 DEF HeldOn
  <2>2. Refd(e) \subseteq HeldOn(p) /\ HeldOn(st) \subseteq HeldOn(p)
    BY <1>1 DEF HeldOn
  <2>3. QED
    BY <2>1, <2>2
<1>3. KeptOn(p) = Kept(e) \cup KeptOn(st)
  <2>1. KeptOn(p) \subseteq Kept(e) \cup KeptOn(st)
    BY <1>1 DEF KeptOn
  <2>2. Kept(e) \subseteq KeptOn(p) /\ KeptOn(st) \subseteq KeptOn(p)
    BY <1>1 DEF KeptOn
  <2>3. QED
    BY <2>1, <2>2
<1>4. GarbageOn(p) = e.garbage \cup GarbageOn(st)
  <2>1. GarbageOn(p) \subseteq e.garbage \cup GarbageOn(st)
    BY <1>1 DEF GarbageOn
  <2>2. e.garbage \subseteq GarbageOn(p) /\ GarbageOn(st) \subseteq GarbageOn(p)
    BY <1>1 DEF GarbageOn
  <2>3. QED
    BY <2>1, <2>2
<1>5. LocksOn(p) = {e.lock} \cup LocksOn(st)
  <2>1. LocksOn(p) \subseteq {e.lock} \cup LocksOn(st)
    BY <1>1 DEF LocksOn
  <2>2. e.lock \in LocksOn(p) /\ LocksOn(st) \subseteq LocksOn(p)
    BY <1>1 DEF LocksOn
  <2>3. QED
    BY <2>1, <2>2
<1>6. Destructing(p) <=> (e.who = "destruct" \/ Destructing(st))
  BY <1>1 DEF Destructing
<1>7. AllRun(p) <=> (e.at = "run" /\ AllRun(st))
  BY <1>1 DEF AllRun
<1>8. Passes(p) <=> (PassOf(e) /\ Passes(st))
  BY <1>1 DEF Passes
<1>9. QED
  BY <1>2, <1>3, <1>4, <1>5, <1>6, <1>7, <1>8 DEF p

\* A frame that runs for a destructor hides what stands on it from the program.
LEMMA PartsMine ==
  ASSUME NEW e \in Entries, NEW st \in Seq(Entries)
  PROVE  MineOn(Push(e, st)) =
           MineOn(st) \cup (IF e.who = "destruct" \/ Destructing(st) THEN {} ELSE Rooted(e))
<1> DEFINE p == Push(e, st)
<1>1. /\ p[1] = e /\ 1 \in 1..Len(p) /\ Len(st) \in Nat /\ Len(p) = Len(st) + 1
      /\ \A i \in 1..Len(st) : p[i + 1] = st[i] /\ i + 1 \in 1..Len(p)
      /\ \A i \in 1..Len(p) : i = 1 \/ (i - 1 \in 1..Len(st) /\ p[i] = st[i - 1])
  BY PushSeq
<1>2. Destructing(p) <=> (e.who = "destruct" \/ Destructing(st))
  BY Parts
<1> HIDE DEF p
<1>3. \A i \in 1..Len(st) : i + 1 \in Mine(p) <=> i \in Mine(st)
  <2> SUFFICES ASSUME NEW i \in 1..Len(st)
               PROVE  i + 1 \in Mine(p) <=> i \in Mine(st)
    OBVIOUS
  <2>1. ASSUME i \in Mine(st), NEW j \in 1..Len(p), p[j].who = "destruct"
        PROVE  i + 1 > j
    <3>1. CASE j = 1
      BY <1>1, <3>1
    <3>2. CASE j # 1
      <4>1. j - 1 \in 1..Len(st) /\ st[j - 1].who = "destruct"
        BY <1>1, <2>1, <3>2
      <4>2. i > j - 1
        BY <2>1, <4>1 DEF Mine
      <4>3. QED
        BY <1>1, <4>2
    <3>3. QED
      BY <3>1, <3>2
  <2>2. ASSUME i + 1 \in Mine(p), NEW j \in 1..Len(st), st[j].who = "destruct"
        PROVE  i > j
    <3>1. j + 1 \in 1..Len(p) /\ p[j + 1].who = "destruct"
      BY <1>1, <2>2
    <3>2. i + 1 > j + 1
      BY <2>2, <3>1 DEF Mine
    <3>3. QED
      BY <1>1, <3>2
  <2>3. i + 1 \in 1..Len(p)
    BY <1>1
  <2>4. QED
    BY <2>1, <2>2, <2>3 DEF Mine
<1>4. 1 \in Mine(p) <=> ~Destructing(p)
  <2>1. \A j \in 1..Len(p) : ~(1 > j)
    BY <1>1
  <2>2. QED
    BY <1>1, <2>1 DEF Mine, Destructing
<1>5. MineOn(p) \subseteq MineOn(st) \cup (IF Destructing(p) THEN {} ELSE Rooted(e))
  <2> SUFFICES ASSUME NEW i \in Mine(p), NEW r \in Rooted(p[i])
               PROVE  r \in MineOn(st) \cup (IF Destructing(p) THEN {} ELSE Rooted(e))
    BY DEF MineOn
  <2>1. i \in 1..Len(p)
    BY DEF Mine
  <2>2. CASE i = 1
    BY <1>1, <1>4, <2>2
  <2>3. CASE i # 1
    <3>1. i - 1 \in 1..Len(st) /\ p[i] = st[i - 1] /\ (i - 1) + 1 = i
      BY <1>1, <2>1, <2>3
    <3>2. i - 1 \in Mine(st)
      BY <1>3, <3>1
    <3>3. QED
      BY <3>1, <3>2 DEF MineOn
  <2>4. QED
    BY <2>2, <2>3
<1>6. MineOn(st) \subseteq MineOn(p)
  <2> SUFFICES ASSUME NEW i \in Mine(st), NEW r \in Rooted(st[i])
               PROVE  r \in MineOn(p)
    BY DEF MineOn
  <2>1. i \in 1..Len(st)
    BY DEF Mine
  <2>2. i + 1 \in Mine(p) /\ p[i + 1] = st[i]
    BY <1>1, <1>3, <2>1
  <2>3. QED
    BY <2>2 DEF MineOn
<1>7. ~Destructing(p) => Rooted(e) \subseteq MineOn(p)
  BY <1>1, <1>4 DEF MineOn
<1>8. QED
  BY <1>2, <1>5, <1>6, <1>7 DEF p

\* All that, of a stack and of one more entry.
LEMMA Pushing ==
  ASSUME NEW e \in Entries, NEW st \in Seq(Entries)
  PROVE  /\ Push(e, st) \in Seq(Entries) /\ Push(e, st) # <<>> /\ Push(e, st)[1] = e
         /\ In(Push(e, st)) = {e} \cup In(st)
         /\ Tail(Push(e, st)) = st
         /\ HeldOn(Push(e, st)) = Refd(e) \cup HeldOn(st)
         /\ KeptOn(Push(e, st)) = Kept(e) \cup KeptOn(st)
         /\ GarbageOn(Push(e, st)) = e.garbage \cup GarbageOn(st)
         /\ LocksOn(Push(e, st)) = {e.lock} \cup LocksOn(st)
         /\ Destructing(Push(e, st)) <=> (e.who = "destruct" \/ Destructing(st))
         /\ AllRun(Push(e, st)) <=> (e.at = "run" /\ AllRun(st))
         /\ Passes(Push(e, st)) <=> (PassOf(e) /\ Passes(st))
         /\ MineOn(Push(e, st)) = MineOn(st) \cup
              (IF e.who = "destruct" \/ Destructing(st) THEN {} ELSE Rooted(e))
<1> DEFINE p == Push(e, st)
<1>1. p \in Seq(Entries) /\ p # <<>> /\ p[1] = e /\ Tail(p) = st
  BY PushSeq
<1>2. /\ HeldOn(p) = Refd(e) \cup HeldOn(st)
      /\ KeptOn(p) = Kept(e) \cup KeptOn(st)
      /\ GarbageOn(p) = e.garbage \cup GarbageOn(st)
      /\ LocksOn(p) = {e.lock} \cup LocksOn(st)
      /\ Destructing(p) <=> (e.who = "destruct" \/ Destructing(st))
      /\ AllRun(p) <=> (e.at = "run" /\ AllRun(st))
      /\ Passes(p) <=> (PassOf(e) /\ Passes(st))
  BY Parts
<1>3. MineOn(p) = MineOn(st) \cup
        (IF e.who = "destruct" \/ Destructing(st) THEN {} ELSE Rooted(e))
  BY PartsMine
<1>4. /\ p[1] = e /\ 1 \in 1..Len(p)
      /\ \A i \in 1..Len(st) : p[i + 1] = st[i] /\ i + 1 \in 1..Len(p)
      /\ \A i \in 1..Len(p) : i = 1 \/ (i - 1 \in 1..Len(st) /\ p[i] = st[i - 1])
  BY PushSeq
<1> HIDE DEF p
<1>5. In(p) = {e} \cup In(st)
  <2>1. In(p) \subseteq {e} \cup In(st)
    BY <1>4 DEF In
  <2>2. e \in In(p) /\ In(st) \subseteq In(p)
    BY <1>4 DEF In
  <2>3. QED
    BY <2>1, <2>2
<1>6. QED
  BY <1>1, <1>2, <1>3, <1>5 DEF p

\* A stack is well formed when its entries fit, one on the other.
LEMMA Forms ==
  ASSUME NEW e \in Entries, NEW st \in Seq(Entries), NEW p
  PROVE  Formed(Push(e, st), p) <=> (Formed(st, p) /\ Fits(e, st, p))
<1> DEFINE s == Push(e, st)
<1>1. /\ s[1] = e /\ 1 \in 1..Len(s) /\ Len(st) \in Nat /\ Len(s) = Len(st) + 1
      /\ \A i \in 1..Len(st) : s[i + 1] = st[i] /\ i + 1 \in 1..Len(s)
      /\ \A i \in 1..Len(s) : i = 1 \/ (i - 1 \in 1..Len(st) /\ s[i] = st[i - 1])
      /\ st = <<>> <=> Len(st) = 0
  BY PushSeq
<1>2. /\ Destructing(s) <=> (e.who = "destruct" \/ Destructing(st))
      /\ LocksOn(s) = {e.lock} \cup LocksOn(st)
  BY Parts
<1> HIDE DEF s
<1>3. (\A i \in 1..Len(s) : Clean(s[i])) <=> (Clean(e) /\ \A i \in 1..Len(st) : Clean(st[i]))
  BY <1>1
<1>4. (\A i \in 1..Len(s) : i < Len(s) => OnTop(s[i], s[i + 1])) <=>
        (/\ st # <<>> => OnTop(e, st[1])
         /\ \A i \in 1..Len(st) : i < Len(st) => OnTop(st[i], st[i + 1]))
  <2>1. ASSUME \A i \in 1..Len(s) : i < Len(s) => OnTop(s[i], s[i + 1])
        PROVE  /\ st # <<>> => OnTop(e, st[1])
               /\ \A i \in 1..Len(st) : i < Len(st) => OnTop(st[i], st[i + 1])
    <3>1. ASSUME st # <<>> PROVE OnTop(e, st[1])
      <4>1. 1 \in 1..Len(st) /\ 1 < Len(s)
        BY <1>1, <3>1
      <4>2. s[1 + 1] = st[1]
        BY <1>1, <4>1
      <4>3. QED
        BY <1>1, <2>1, <4>1, <4>2
    <3>2. ASSUME NEW i \in 1..Len(st), i < Len(st) PROVE OnTop(st[i], st[i + 1])
      <4>1. i + 1 \in 1..Len(st) /\ i + 1 \in 1..Len(s) /\ i + 1 < Len(s)
        BY <1>1, <3>2
      <4>2. s[i + 1] = st[i] /\ s[(i + 1) + 1] = st[i + 1]
        BY <1>1, <4>1
      <4>3. QED
        BY <2>1, <4>1, <4>2
    <3>3. QED
      BY <3>1, <3>2
  <2>2. ASSUME st # <<>> => OnTop(e, st[1]),
               \A i \in 1..Len(st) : i < Len(st) => OnTop(st[i], st[i + 1]),
               NEW i \in 1..Len(s), i < Len(s)
        PROVE  OnTop(s[i], s[i + 1])
    <3>1. CASE i = 1
      <4>1. st # <<>> /\ 1 \in 1..Len(st)
        BY <1>1, <2>2, <3>1
      <4>2. s[1 + 1] = st[1]
        BY <1>1, <4>1
      <4>3. QED
        BY <1>1, <2>2, <3>1, <4>1, <4>2
    <3>2. CASE i # 1
      <4> DEFINE j == i - 1
      <4>1. j \in 1..Len(st) /\ s[i] = st[j] /\ j < Len(st) /\ j + 1 = i
        BY <1>1, <2>2, <3>2
      <4>2. j + 1 \in 1..Len(st) /\ s[i + 1] = st[j + 1]
        BY <1>1, <4>1
      <4> HIDE DEF j
      <4>3. QED
        BY <2>2, <4>1, <4>2
    <3>3. QED
      BY <3>1, <3>2
  <2>3. QED
    BY <2>1, <2>2
<1>5. (\A i, j \in 1..Len(s) : i < j /\ s[j].at # "run" => s[i].at = "drop") <=>
        (/\ e.at = "drop" \/ AllRun(st)
         /\ \A i, j \in 1..Len(st) : i < j /\ st[j].at # "run" => st[i].at = "drop")
  <2>1. ASSUME \A i, j \in 1..Len(s) : i < j /\ s[j].at # "run" => s[i].at = "drop"
        PROVE  /\ e.at = "drop" \/ AllRun(st)
               /\ \A i, j \in 1..Len(st) : i < j /\ st[j].at # "run" => st[i].at = "drop"
    <3>1. ASSUME NEW j \in 1..Len(st), st[j].at # "run" PROVE e.at = "drop"
      <4>1. j + 1 \in 1..Len(s) /\ s[j + 1] = st[j] /\ 1 < j + 1
        BY <1>1
      <4>2. QED
        BY <1>1, <2>1, <3>1, <4>1
    <3>2. ASSUME NEW i \in 1..Len(st), NEW j \in 1..Len(st), i < j, st[j].at # "run"
          PROVE  st[i].at = "drop"
      <4>1. /\ j + 1 \in 1..Len(s) /\ s[j + 1] = st[j]
            /\ i + 1 \in 1..Len(s) /\ s[i + 1] = st[i] /\ i + 1 < j + 1
        BY <1>1, <3>2
      <4>2. QED
        BY <2>1, <3>2, <4>1
    <3>3. QED
      BY <3>1, <3>2 DEF AllRun
  <2>2. ASSUME e.at = "drop" \/ AllRun(st),
               \A i, j \in 1..Len(st) : i < j /\ st[j].at # "run" => st[i].at = "drop",
               NEW i \in 1..Len(s), NEW j \in 1..Len(s), i < j, s[j].at # "run"
        PROVE  s[i].at = "drop"
    <3>1. j - 1 \in 1..Len(st) /\ s[j] = st[j - 1]
      BY <1>1, <2>2
    <3>2. CASE i = 1
      BY <1>1, <2>2, <3>1, <3>2 DEF AllRun
    <3>3. CASE i # 1
      <4>1. i - 1 \in 1..Len(st) /\ s[i] = st[i - 1] /\ i - 1 < j - 1
        BY <1>1, <2>2, <3>3
      <4>2. QED
        BY <2>2, <3>1, <4>1
    <3>4. QED
      BY <3>2, <3>3
  <2>3. QED
    BY <2>1, <2>2
<1>6. (\A i \in 1..Len(s) : s[i].who \in Outermost => i = Len(s)) <=>
        (/\ e.who \in Outermost => st = <<>>
         /\ \A i \in 1..Len(st) : st[i].who \in Outermost => i = Len(st))
  <2>1. ASSUME \A i \in 1..Len(s) : s[i].who \in Outermost => i = Len(s)
        PROVE  /\ e.who \in Outermost => st = <<>>
               /\ \A i \in 1..Len(st) : st[i].who \in Outermost => i = Len(st)
    <3>1. e.who \in Outermost => st = <<>>
      BY <1>1, <2>1
    <3>2. ASSUME NEW i \in 1..Len(st), st[i].who \in Outermost PROVE i = Len(st)
      <4>1. i + 1 = Len(s)
        BY <1>1, <2>1, <3>2
      <4>2. QED
        BY <1>1, <4>1
    <3>3. QED
      BY <3>1, <3>2
  <2>2. ASSUME e.who \in Outermost => st = <<>>,
               \A i \in 1..Len(st) : st[i].who \in Outermost => i = Len(st),
               NEW i \in 1..Len(s), s[i].who \in Outermost
        PROVE  i = Len(s)
    <3>1. CASE i = 1
      BY <1>1, <2>2, <3>1
    <3>2. CASE i # 1
      <4>1. i - 1 \in 1..Len(st) /\ s[i] = st[i - 1]
        BY <1>1, <3>2
      <4>2. i - 1 = Len(st)
        BY <2>2, <4>1
      <4>3. QED
        BY <1>1, <4>2
    <3>3. QED
      BY <3>1, <3>2
  <2>3. QED
    BY <2>1, <2>2
<1>7. (\A i \in 1..Len(s) : /\ i = Len(s) => s[i].who \in Outermost
                            /\ s[i].who # "clinit") <=>
        (/\ e.who # "clinit" /\ (st = <<>> => e.who \in Outermost)
         /\ \A i \in 1..Len(st) : /\ i = Len(st) => st[i].who \in Outermost
                                  /\ st[i].who # "clinit")
  <2>1. ASSUME \A i \in 1..Len(s) : /\ i = Len(s) => s[i].who \in Outermost
                                    /\ s[i].who # "clinit"
        PROVE  /\ e.who # "clinit" /\ (st = <<>> => e.who \in Outermost)
               /\ \A i \in 1..Len(st) : /\ i = Len(st) => st[i].who \in Outermost
                                        /\ st[i].who # "clinit"
    <3>1. e.who # "clinit" /\ (st = <<>> => e.who \in Outermost)
      BY <1>1, <2>1
    <3>2. ASSUME NEW i \in 1..Len(st)
          PROVE  /\ i = Len(st) => st[i].who \in Outermost
                 /\ st[i].who # "clinit"
      <4>1. i + 1 \in 1..Len(s) /\ s[i + 1] = st[i] /\ (i = Len(st) => i + 1 = Len(s))
        BY <1>1
      <4>2. QED
        BY <2>1, <4>1
    <3>3. QED
      BY <3>1, <3>2
  <2>2. ASSUME e.who # "clinit", st = <<>> => e.who \in Outermost,
               \A i \in 1..Len(st) : /\ i = Len(st) => st[i].who \in Outermost
                                     /\ st[i].who # "clinit",
               NEW i \in 1..Len(s)
        PROVE  /\ i = Len(s) => s[i].who \in Outermost
               /\ s[i].who # "clinit"
    BY <1>1, <2>2
  <2>3. QED
    BY <2>1, <2>2
<1>8. (\A i \in 1..Len(s) : s[i].at # "blocked") <=>
        (e.at # "blocked" /\ \A i \in 1..Len(st) : st[i].at # "blocked")
  BY <1>1
<1>9. QED
  <2>2. Formed(s, p) => Formed(st, p) /\ Fits(e, st, p)
    BY <1>2, <1>3, <1>4, <1>5, <1>6, <1>7, <1>8 DEF Formed, Fits
  <2>3. Formed(st, p) /\ Fits(e, st, p) => Formed(s, p)
    BY <1>2, <1>3, <1>4, <1>5, <1>6, <1>7, <1>8 DEF Formed, Fits
  <2>4. QED
    BY <2>2, <2>3 DEF s

\* Forgetting a node among the survivors of every pass changes nothing else.
LEMMA Forgetting ==
  ASSUME NEW st \in Seq(Entries), NEW n
  PROVE  /\ Forget(st, n) \in Seq(Entries) /\ (Forget(st, n) = <<>> <=> st = <<>>)
         /\ HeldOn(Forget(st, n)) = HeldOn(st)
         /\ GarbageOn(Forget(st, n)) = GarbageOn(st)
         /\ LocksOn(Forget(st, n)) = LocksOn(st)
         /\ MineOn(Forget(st, n)) = MineOn(st)
         /\ AllRun(Forget(st, n)) <=> AllRun(st)
         /\ KeptOn(st) \subseteq KeptOn(Forget(st, n)) \cup {n}
         /\ Passes(Forget(st, n)) <=> Passes(st)
         /\ \A p : Formed(st, p) => Formed(Forget(st, n), p)
<1> DEFINE f == Forget(st, n)
<1>1. /\ DOMAIN st = 1..Len(st) /\ Len(st) \in Nat
      /\ \A i \in 1..Len(st) : st[i] \in Entries
  BY LenProperties, ElementOfSeq
<1>2. /\ f = [i \in 1..Len(st) |-> ForgetIn(st[i], n)]
      /\ \A i \in 1..Len(st) : ForgetIn(st[i], n) \in Entries
  BY <1>1, ForgottenIn DEF Forget
<1>3. f \in Seq(Entries) /\ Len(f) = Len(st)
  BY <1>1, <1>2
<1>4. \A i \in 1..Len(st) :
        /\ f[i].who = st[i].who /\ f[i].at = st[i].at /\ f[i].refs = st[i].refs
        /\ f[i].operand = st[i].operand /\ f[i].lock = st[i].lock
        /\ f[i].garbage = st[i].garbage /\ f[i].todo = st[i].todo
        /\ f[i].survivors = st[i].survivors \ {n} /\ f[i].thrown = st[i].thrown
  <2>1. \A i \in 1..Len(st) : f[i] = ForgetIn(st[i], n)
    BY <1>2
  <2>2. ASSUME NEW e \in Entries
        PROVE  LET g == ForgetIn(e, n) IN
               /\ g.who = e.who /\ g.at = e.at /\ g.refs = e.refs
               /\ g.operand = e.operand /\ g.lock = e.lock
               /\ g.garbage = e.garbage /\ g.todo = e.todo
               /\ g.survivors = e.survivors \ {n} /\ g.thrown = e.thrown
    BY DEF ForgetIn, Entries
  <2> HIDE DEF f
  <2>3. QED
    BY <1>1, <2>1, <2>2
<1> HIDE DEF f
<1>5. f = <<>> <=> st = <<>>
  BY <1>1, <1>3, EmptySeq
<1>6. HeldOn(f) = HeldOn(st)
  <2>1. \A i \in 1..Len(st) : Refd(f[i]) = Refd(st[i])
    BY <1>4 DEF Refd
  <2>2. HeldOn(f) \subseteq HeldOn(st) /\ HeldOn(st) \subseteq HeldOn(f)
    BY <1>3, <2>1 DEF HeldOn
  <2>3. QED
    BY <2>2
<1>7. GarbageOn(f) = GarbageOn(st)
  <2>1. GarbageOn(f) \subseteq GarbageOn(st) /\ GarbageOn(st) \subseteq GarbageOn(f)
    BY <1>3, <1>4 DEF GarbageOn
  <2>2. QED
    BY <2>1
<1>8. LocksOn(f) = LocksOn(st)
  <2>1. LocksOn(f) \subseteq LocksOn(st) /\ LocksOn(st) \subseteq LocksOn(f)
    BY <1>3, <1>4 DEF LocksOn
  <2>2. QED
    BY <2>1
<1>9. MineOn(f) = MineOn(st)
  <2>1. Mine(f) = Mine(st) /\ Mine(st) \subseteq 1..Len(st)
    BY <1>3, <1>4 DEF Mine
  <2>2. \A i \in Mine(st) : Rooted(f[i]) = Rooted(st[i])
    BY <1>4, <2>1 DEF Rooted
  <2>3. MineOn(f) \subseteq MineOn(st) /\ MineOn(st) \subseteq MineOn(f)
    BY <2>1, <2>2 DEF MineOn
  <2>4. QED
    BY <2>3
<1>10. AllRun(f) <=> AllRun(st)
  BY <1>3, <1>4 DEF AllRun
<1>11. KeptOn(st) \subseteq KeptOn(f) \cup {n}
  <2>1. \A i \in 1..Len(st) : Kept(st[i]) \subseteq Kept(f[i]) \cup {n}
    BY <1>4 DEF Kept
  <2>2. QED
    BY <1>3, <2>1 DEF KeptOn
<1>12. ASSUME NEW p, Formed(st, p) PROVE Formed(f, p)
  <2>1. \A i \in 1..Len(f) : Clean(f[i])
    <3>1. \A i \in 1..Len(st) : Clean(st[i]) => Clean(f[i])
      BY <1>4 DEF Clean
    <3>2. QED
      BY <1>3, <1>12, <3>1 DEF Formed
  <2>2. \A i \in 1..Len(f) : i < Len(f) => OnTop(f[i], f[i + 1])
    <3>1. \A i \in 1..Len(st) : i < Len(st) => i + 1 \in 1..Len(st)
      BY <1>1
    <3>2. QED
      BY <1>3, <1>4, <1>12, <3>1 DEF Formed, OnTop
  <2>3. Destructing(f) <=> Destructing(st)
    BY <1>3, <1>4 DEF Destructing
  <2>4. NoClass(p) => \A i, j \in 1..Len(f) : i < j /\ f[j].at # "run" => f[i].at = "drop"
    BY <1>3, <1>4, <1>12 DEF Formed
  <2>5. /\ \A i \in 1..Len(f) : f[i].who \in Outermost => i = Len(f)
        /\ p.boot = "main" => \A i \in 1..Len(f) : /\ i = Len(f) => f[i].who \in Outermost
                                                   /\ f[i].who # "clinit"
    BY <1>3, <1>4, <1>12 DEF Formed
  <2>6. Separate(p) => \A i \in 1..Len(f) : f[i].at # "blocked"
    BY <1>3, <1>4, <1>12 DEF Formed
  <2>7. QED
    BY <1>8, <1>12, <2>1, <2>2, <2>3, <2>4, <2>5, <2>6 DEF Formed
<1>13. Passes(f) <=> Passes(st)
  <2>1. \A i \in 1..Len(st) : PassOf(f[i]) <=> PassOf(st[i])
    BY <1>4 DEF PassOf
  <2>2. QED
    BY <1>3, <2>1 DEF Passes
<1>14. QED
  BY <1>3, <1>5, <1>6, <1>7, <1>8, <1>9, <1>10, <1>11, <1>12, <1>13 DEF f

\* No stack holds nothing.
LEMMA NothingHeld ==
  /\ HeldOn(<<>>) = {} /\ KeptOn(<<>>) = {} /\ GarbageOn(<<>>) = {} /\ LocksOn(<<>>) = {}
  /\ MineOn(<<>>) = {} /\ ~Destructing(<<>>) /\ AllRun(<<>>) /\ Passes(<<>>)
  /\ \A p : Formed(<<>>, p)
<1>1. Len(<<>>) = 0 /\ 1..0 = {}
  BY EmptySeq
<1>2. Mine(<<>>) = {}
  BY <1>1 DEF Mine
<1>3. /\ HeldOn(<<>>) = {} /\ KeptOn(<<>>) = {} /\ GarbageOn(<<>>) = {} /\ LocksOn(<<>>) = {}
      /\ MineOn(<<>>) = {}
  BY <1>1, <1>2 DEF HeldOn, KeptOn, GarbageOn, LocksOn, MineOn
<1>4. ~Destructing(<<>>) /\ AllRun(<<>>) /\ Passes(<<>>)
  BY <1>1 DEF Destructing, AllRun, Passes
<1>5. \A p : Formed(<<>>, p)
  BY <1>1, <1>3, <1>4 DEF Formed
<1>6. QED
  BY <1>3, <1>4, <1>5

\* The stack, taken apart at its innermost entry.
LEMMA Opened ==
  ASSUME Inv, Formed(stack, program), stack # <<>>
  PROVE  /\ Whole(top, live) /\ top \in Entries /\ below \in Seq(Entries) /\ Sound(below, live)
         /\ Rests(top, below) /\ stack = Push(top, below)
         /\ Clean(top) /\ Fits(top, below, program) /\ Formed(below, program)
         /\ HeldOn(stack) = Refd(top) \cup HeldOn(below)
         /\ KeptOn(stack) = Kept(top) \cup KeptOn(below)
         /\ GarbageOn(stack) = top.garbage \cup GarbageOn(below)
         /\ LocksOn(stack) = {top.lock} \cup LocksOn(below)
         /\ Destructing(stack) <=> (top.who = "destruct" \/ Destructing(below))
         /\ MineOn(stack) = MineOn(below) \cup
              (IF top.who = "destruct" \/ Destructing(below) THEN {} ELSE Rooted(top))
         /\ Passes(stack) <=> (PassOf(top) /\ Passes(below))
         /\ NoClass(program) /\ top.at # "drop" => AllRun(below)
<1>1. /\ Whole(top, live) /\ Sound(below, live) /\ Rests(top, below) /\ top = stack[1]
      /\ stack \in Seq(Entries)
  BY Innermost DEF Inv, Sound
<1>2. stack = Push(top, below) /\ top \in Entries /\ below \in Seq(Entries)
  BY <1>1, Apart DEF below, Sound
<1>3. Formed(below, program) /\ Fits(top, below, program)
  BY <1>2, Forms
<1>4. Clean(top) /\ (NoClass(program) /\ top.at # "drop" => AllRun(below))
  BY <1>3 DEF Fits
<1>5. QED
  <2> DEFINE t == top
             b == below
  <2>1. t \in Entries /\ b \in Seq(Entries) /\ stack = Push(t, b)
    BY <1>2
  <2> HIDE DEF t, b
  <2>2. /\ HeldOn(stack) = Refd(t) \cup HeldOn(b)
        /\ KeptOn(stack) = Kept(t) \cup KeptOn(b)
        /\ GarbageOn(stack) = t.garbage \cup GarbageOn(b)
        /\ LocksOn(stack) = {t.lock} \cup LocksOn(b)
        /\ Destructing(stack) <=> (t.who = "destruct" \/ Destructing(b))
        /\ MineOn(stack) = MineOn(b) \cup
              (IF t.who = "destruct" \/ Destructing(b) THEN {} ELSE Rooted(t))
        /\ Passes(stack) <=> (PassOf(t) /\ Passes(b))
    BY <2>1, Parts, PartsMine
  <2>3. QED
    BY <1>1, <1>2, <1>3, <1>4, <2>2 DEF t, b

-----------------------------------------------------------------------------
(* Glue and frames.                                                        *)

\* What glue holds, keeps and hides.
IsGlue(g, at, refs, lock) ==
  /\ g \in Entries /\ Clean(g) /\ PassOf(g)
  /\ g.who = "glue" /\ g.at = at /\ g.refs = refs /\ g.lock = lock /\ g.garbage = {}
  /\ Refd(g) = Range(refs) \cup {Null}
  /\ Kept(g) = IF at = "note" THEN Range(refs) ELSE {}
  /\ Rooted(g) = {Null}

LEMMA GlueParts ==
  ASSUME NEW at \in GlueStages, NEW refs \in Seq(Nodes \cup {Null}), NEW lock \in Nodes \cup {Null},
         lock # Null => at = "drop"
  PROVE  IsGlue(Glue(at, refs, lock), at, refs, lock)
<1> DEFINE g == Glue(at, refs, lock)
<1>1. /\ g.who = "glue" /\ g.at = at /\ g.refs = refs /\ g.lock = lock /\ g.garbage = {}
      /\ g.operand = Null /\ g.thrown = FALSE /\ g.todo = {} /\ g.survivors = {}
  BY DEF Glue, Frame
<1>2. g \in Entries
  BY DEF Glue, Frame, Entries, GlueStages, Null
<1>3. at \in {"note", "collect", "discard", "drop"}
  BY DEF GlueStages
<1> HIDE DEF g
<1>4. Clean(g)
  BY <1>1, <1>3 DEF Clean, FrameKinds
<1>5. PassOf(g)
  BY <1>1, <1>3 DEF PassOf
<1>6. /\ Refd(g) = Range(refs) \cup {Null}
      /\ Kept(g) = IF at = "note" THEN Range(refs) ELSE {}
      /\ Rooted(g) = {Null}
  BY <1>1, <1>3 DEF Refd, Kept, Rooted
<1>7. QED
  BY <1>1, <1>2, <1>4, <1>5, <1>6 DEF g, IsGlue

\* A new frame holds its locals.
IsFrame(f, who, locals) ==
  /\ f \in Entries /\ Clean(f) /\ PassOf(f)
  /\ f.who = who /\ f.at = "run" /\ f.lock = Null /\ f.operand = Null /\ f.garbage = {}
  /\ Refd(f) = Range(locals) \cup {Null} /\ Kept(f) = Range(locals)
  /\ Rooted(f) = Range(locals) \cup {Null}

LEMMA FrameParts ==
  ASSUME NEW who \in FrameKinds, NEW locals \in Seq(Nodes \cup {Null})
  PROVE  IsFrame(Frame(who, locals), who, locals)
<1> DEFINE f == Frame(who, locals)
<1>1. /\ f.who = who /\ f.at = "run" /\ f.refs = locals /\ f.lock = Null /\ f.garbage = {}
      /\ f.operand = Null /\ f.thrown = FALSE /\ f.todo = {} /\ f.survivors = {}
  BY DEF Frame
<1>2. f \in Entries
  BY DEF Frame, Entries, Null
<1> HIDE DEF f
<1>3. Clean(f)
  BY <1>1 DEF Clean, FrameKinds
<1>4. PassOf(f)
  BY <1>1 DEF PassOf
<1>5. /\ Refd(f) = Range(locals) \cup {Null} /\ Kept(f) = Range(locals)
      /\ Rooted(f) = Range(locals) \cup {Null}
  BY <1>1 DEF Refd, Kept, Rooted
<1>6. QED
  BY <1>1, <1>2, <1>3, <1>4, <1>5 DEF f, IsFrame

\* s is st with glue on it, which holds more.
Atop(s, st, more) ==
  /\ s \in Seq(Entries)
  /\ HeldOn(st) \cup more \subseteq HeldOn(s) \cup {Null}
  /\ KeptOn(st) \subseteq KeptOn(s)
  /\ GarbageOn(s) = GarbageOn(st)
  /\ MineOn(s) \subseteq MineOn(st) \cup {Null}
  /\ Passes(s) <=> Passes(st)
  /\ \A e \in In(s) : e \in In(st) \/ e.garbage = {}

\* Glue is such, and stands on anything if it drops.
LEMMA GlueAtop ==
  ASSUME NEW at \in GlueStages, NEW refs \in Seq(Nodes \cup {Null}), NEW lock \in Nodes \cup {Null},
         lock # Null => at = "drop", NEW st \in Seq(Entries)
  PROVE  /\ Atop(Push(Glue(at, refs, lock), st), st, Range(refs))
         /\ at = "note" => Range(refs) \subseteq KeptOn(Push(Glue(at, refs, lock), st))
         /\ \A p : /\ Formed(st, p)
                   /\ NoClass(p) => at = "drop" \/ AllRun(st)
                   /\ NoContainer(p) => lock = Null
                   /\ p.boot = "main" => st # <<>>
                   => Formed(Push(Glue(at, refs, lock), st), p)
<1> DEFINE g == Glue(at, refs, lock)
           s == Push(g, st)
<1>0. IsGlue(g, at, refs, lock)
  BY GlueParts
<1> HIDE DEF g
<1>1. /\ g \in Entries /\ Clean(g) /\ PassOf(g)
      /\ g.who = "glue" /\ g.at = at /\ g.refs = refs /\ g.lock = lock /\ g.garbage = {}
      /\ Refd(g) = Range(refs) \cup {Null}
      /\ Kept(g) = IF at = "note" THEN Range(refs) ELSE {}
      /\ Rooted(g) = {Null}
  BY <1>0 DEF IsGlue
<1>2. /\ s \in Seq(Entries)
      /\ HeldOn(s) = Refd(g) \cup HeldOn(st)
      /\ KeptOn(s) = Kept(g) \cup KeptOn(st)
      /\ GarbageOn(s) = g.garbage \cup GarbageOn(st)
      /\ Passes(s) <=> (PassOf(g) /\ Passes(st))
      /\ MineOn(s) = MineOn(st) \cup (IF g.who = "destruct" \/ Destructing(st) THEN {} ELSE Rooted(g))
      /\ In(s) = {g} \cup In(st)
  BY <1>1, Pushing
<1>3. ASSUME NEW p, Formed(st, p), NoClass(p) => at = "drop" \/ AllRun(st),
             NoContainer(p) => lock = Null, p.boot = "main" => st # <<>>
      PROVE  Formed(s, p)
  <2>1. Fits(g, st, p)
    BY <1>1, <1>3 DEF Fits, OnTop, Outermost, GlueStages
  <2>2. QED
    BY <1>1, <1>3, <2>1, Forms
<1> HIDE DEF s
<1>4. Atop(s, st, Range(refs))
  BY <1>1, <1>2 DEF Atop
<1>5. at = "note" => Range(refs) \subseteq KeptOn(s)
  BY <1>1, <1>2
<1>6. QED
  BY <1>3, <1>4, <1>5 DEF s, g

\* Dropping is an entry of glue, or none.
LEMMA DroppingSeq ==
  ASSUME NEW refs \in Seq(Nodes \cup {Null}), NEW lock \in Nodes \cup {Null}
  PROVE  Dropping(refs, lock) \in Seq(Entries)
<1> DEFINE g == Glue("drop", refs, lock)
<1>1. "drop" \in GlueStages
  BY DEF GlueStages
<1>2. g \in Entries
  BY <1>1, GlueParts DEF IsGlue
<1>3. Dropping(refs, lock) = IF Empty(refs) THEN <<>> ELSE <<g>>
  BY DEF Dropping
<1> HIDE DEF g
<1>4. <<g>> \in Seq(Entries) /\ <<>> \in Seq(Entries)
  BY <1>2
<1>5. QED
  BY <1>3, <1>4

\* Dropping is, too.
LEMMA DroppingAtop ==
  ASSUME NEW refs \in Seq(Nodes \cup {Null}), NEW lock \in Nodes \cup {Null}, NEW st \in Seq(Entries)
  PROVE  /\ Atop(Dropping(refs, lock) \o st, st, Range(refs))
         /\ \A p : /\ Formed(st, p)
                   /\ NoContainer(p) => lock = Null
                   /\ p.boot = "main" => st # <<>>
                   => Formed(Dropping(refs, lock) \o st, p)
<1>1. CASE Empty(refs)
  <2>1. Dropping(refs, lock) \o st = st
    <3>1. Dropping(refs, lock) = <<>>
      BY <1>1 DEF Dropping
    <3>2. <<>> \o st = st
      BY ConcatEmptySeq
    <3>3. QED
      BY <3>1, <3>2
  <2>2. Range(refs) \subseteq {Null}
    BY <1>1 DEF Empty
  <2>3. Atop(st, st, Range(refs))
    BY <2>2 DEF Atop
  <2>4. QED
    BY <2>1, <2>3
<1>2. CASE ~Empty(refs)
  <2>1. "drop" \in GlueStages
    BY DEF GlueStages
  <2>2. Dropping(refs, lock) \o st = Push(Glue("drop", refs, lock), st)
    BY <1>2 DEF Dropping, Push
  <2>3. QED
    BY <2>1, <2>2, GlueAtop
<1>3. QED
  BY <1>1, <1>2

\* Glue on glue.
LEMMA AtopAtop ==
  ASSUME NEW s, NEW t, NEW u, NEW A, NEW B, Atop(s, t, A), Atop(t, u, B)
  PROVE  Atop(s, u, A \cup B)
BY DEF Atop

LEMMA AtopItself == ASSUME NEW st \in Seq(Entries) PROVE Atop(st, st, {})
BY DEF Atop

-----------------------------------------------------------------------------
(* Steps that move references and leave the heap alone.                    *)

\* No reference escapes from a destructor.
Quiet == ~program.escapes \/ NoClass(program)

\* T holds whatever its nodes refer to.
Closed(T) == \A m \in T : \A s \in DOMAIN field[m] : field[m][s] \in T \cup {Null}

\* What a pass is sure to start from, sooner or later.
Anchors == {static} \cup pending \cup KeptOn(stack)

\* The roots of the program stay inside what they reach, no reference is lost,
\* and no candidate is.
Steady ==
  /\ UNCHANGED <<program, heap>>
  /\ Quiet => \A T : /\ Closed(T)
                     /\ {static} \cup MineOn(stack) \subseteq T \cup {Null}
                     => {static'} \cup MineOn(stack') \subseteq T \cup {Null}
  /\ GarbageOn(stack') \subseteq GarbageOn(stack)
  /\ {static} \cup HeldOn(stack) \subseteq {static'} \cup HeldOn(stack') \cup {Null}
  /\ Anchors \subseteq {static'} \cup pending' \cup KeptOn(stack') \cup {Null}
  /\ Passes(stack) => Passes(stack')
  /\ Formed(stack', program)

\* The part of an entry's roots that is the program's.
MineOf(e) == IF Destructing(stack) THEN {} ELSE Rooted(e)

\* The innermost entry is replaced, and glue put on it.
LEMMA SteadyStep ==
  ASSUME Inv, Formed(stack, program), stack # <<>>, UNCHANGED <<program, heap>>,
         NEW e \in Entries, NEW more, Atop(stack', Push(e, below), more),
         Formed(stack', program),
         e.who = "destruct" <=> top.who = "destruct",
         e.garbage \subseteq top.garbage, PassOf(top) => PassOf(e),
         Refd(top) \cup {static} \subseteq Refd(e) \cup more \cup {static', Null},
         {static} \cup pending \cup Kept(top)
           \subseteq Kept(e) \cup KeptOn(stack') \cup {static', Null} \cup pending',
         Quiet => \A T : /\ Closed(T)
                         /\ {static} \cup MineOf(top) \subseteq T \cup {Null}
                         => {static'} \cup MineOf(e) \subseteq T \cup {Null}
  PROVE  Steady
<1> DEFINE t == top
           b == below
           p == Push(e, b)
<1>1. /\ b \in Seq(Entries)
      /\ HeldOn(stack) = Refd(t) \cup HeldOn(b)
      /\ KeptOn(stack) = Kept(t) \cup KeptOn(b)
      /\ GarbageOn(stack) = t.garbage \cup GarbageOn(b)
      /\ Destructing(stack) <=> (t.who = "destruct" \/ Destructing(b))
      /\ MineOn(stack) = MineOn(b) \cup
              (IF t.who = "destruct" \/ Destructing(b) THEN {} ELSE Rooted(t))
      /\ Passes(stack) <=> (PassOf(t) /\ Passes(b))
  BY Opened
<1> HIDE DEF t, b
<1>2. /\ HeldOn(p) = Refd(e) \cup HeldOn(b)
      /\ KeptOn(p) = Kept(e) \cup KeptOn(b)
      /\ GarbageOn(p) = e.garbage \cup GarbageOn(b)
      /\ MineOn(p) = MineOn(b) \cup
              (IF e.who = "destruct" \/ Destructing(b) THEN {} ELSE Rooted(e))
      /\ Passes(p) <=> (PassOf(e) /\ Passes(b))
  BY <1>1, Parts, PartsMine
<1>3. /\ e.who = "destruct" <=> t.who = "destruct"
      /\ e.garbage \subseteq t.garbage /\ (PassOf(t) => PassOf(e))
      /\ Refd(t) \cup {static} \subseteq Refd(e) \cup more \cup {static', Null}
      /\ {static} \cup pending \cup Kept(t)
           \subseteq Kept(e) \cup KeptOn(stack') \cup {static', Null} \cup pending'
      /\ Quiet => \A T : /\ Closed(T)
                         /\ {static} \cup MineOf(t) \subseteq T \cup {Null}
                         => {static'} \cup MineOf(e) \subseteq T \cup {Null}
  BY DEF t
<1> HIDE DEF p
<1>4. /\ HeldOn(p) \cup more \subseteq HeldOn(stack') \cup {Null}
      /\ KeptOn(p) \subseteq KeptOn(stack')
      /\ GarbageOn(stack') = GarbageOn(p)
      /\ MineOn(stack') \subseteq MineOn(p) \cup {Null}
      /\ Passes(stack') <=> Passes(p)
  <2>1. Atop(stack', p, more)
    BY DEF p, b
  <2>2. QED
    BY <2>1 DEF Atop
<1>5. MineOn(stack) = MineOn(b) \cup MineOf(t) /\ MineOn(p) = MineOn(b) \cup MineOf(e)
  BY <1>1, <1>2, <1>3 DEF MineOf
<1>6. ASSUME Quiet, NEW T, Closed(T), {static} \cup MineOn(stack) \subseteq T \cup {Null}
      PROVE  {static'} \cup MineOn(stack') \subseteq T \cup {Null}
  <2>1. {static'} \cup MineOf(e) \subseteq T \cup {Null}
    BY <1>3, <1>5, <1>6
  <2>2. QED
    BY <1>4, <1>5, <1>6, <2>1
<1>7. GarbageOn(stack') \subseteq GarbageOn(stack)
  BY <1>1, <1>2, <1>3, <1>4
<1>8. {static} \cup HeldOn(stack) \subseteq {static'} \cup HeldOn(stack') \cup {Null}
  BY <1>1, <1>2, <1>3, <1>4
<1>9. Anchors \subseteq {static'} \cup pending' \cup KeptOn(stack') \cup {Null}
  BY <1>1, <1>2, <1>3, <1>4 DEF Anchors
<1>10. Passes(stack) => Passes(stack')
  BY <1>1, <1>2, <1>3, <1>4
<1>11. QED
  BY <1>6, <1>7, <1>8, <1>9, <1>10 DEF Steady

\* The innermost entry goes, and glue takes its place.
LEMMA SteadyPop ==
  ASSUME Inv, Formed(stack, program), stack # <<>>, UNCHANGED <<program, heap, static>>,
         NEW more, Atop(stack', below, more), Formed(stack', program),
         Refd(top) \subseteq more \cup {Null},
         pending \cup Kept(top) \subseteq pending' \cup {Null}
  PROVE  Steady
<1> DEFINE t == top
           b == below
<1>1. /\ b \in Seq(Entries)
      /\ HeldOn(stack) = Refd(t) \cup HeldOn(b)
      /\ KeptOn(stack) = Kept(t) \cup KeptOn(b)
      /\ GarbageOn(stack) = t.garbage \cup GarbageOn(b)
      /\ MineOn(stack) = MineOn(b) \cup
              (IF t.who = "destruct" \/ Destructing(b) THEN {} ELSE Rooted(t))
      /\ Passes(stack) <=> (PassOf(t) /\ Passes(b))
  BY Opened
<1>2. Refd(t) \subseteq more \cup {Null} /\ pending \cup Kept(t) \subseteq pending' \cup {Null}
  BY DEF t
<1> HIDE DEF t
<1>3. /\ HeldOn(b) \cup more \subseteq HeldOn(stack') \cup {Null}
      /\ KeptOn(b) \subseteq KeptOn(stack')
      /\ GarbageOn(stack') = GarbageOn(b)
      /\ MineOn(stack') \subseteq MineOn(b) \cup {Null}
      /\ Passes(stack') <=> Passes(b)
  BY DEF Atop
<1> HIDE DEF b
<1>4. Anchors \subseteq {static'} \cup pending' \cup KeptOn(stack') \cup {Null}
  BY <1>1, <1>2, <1>3 DEF Anchors
<1>5. /\ GarbageOn(stack') \subseteq GarbageOn(stack)
      /\ {static} \cup HeldOn(stack) \subseteq {static'} \cup HeldOn(stack') \cup {Null}
      /\ Passes(stack) => Passes(stack')
  BY <1>1, <1>2, <1>3
<1>6. \A T : {static} \cup MineOn(stack) \subseteq T \cup {Null}
               => {static'} \cup MineOn(stack') \subseteq T \cup {Null}
  BY <1>1, <1>3
<1>7. QED
  BY <1>4, <1>5, <1>6 DEF Steady

\* An entry of the same kind fits where the innermost one stood.
LEMMA FitsToo ==
  ASSUME Inv, Formed(stack, program), stack # <<>>, NEW e \in Entries, Clean(e),
         e.who = top.who, e.lock \in {top.lock, Null}, top.at # "drop" \/ e.at = "drop",
         e.at # "blocked" \/ ~Separate(program)
  PROVE  Formed(Push(e, below), program)
<1> DEFINE t == top
           b == below
<1>1. Fits(t, b, program) /\ Formed(b, program) /\ b \in Seq(Entries)
  BY Opened
<1>2. /\ e.who = t.who /\ e.lock \in {t.lock, Null} /\ (t.at # "drop" \/ e.at = "drop")
      /\ e.at # "blocked" \/ ~Separate(program)
  BY DEF t
<1> HIDE DEF t, b
<1>3. Fits(e, b, program)
  BY <1>1, <1>2 DEF Fits, OnTop
<1>4. Formed(Push(e, b), program)
  BY <1>1, <1>3, Forms
<1>5. QED
  BY <1>4 DEF b

\* An entry that drops, discards or notes is glue.
LEMMA Glued ==
  ASSUME NEW e \in Entries, Clean(e), e.at \in {"drop", "discard", "note"}
  PROVE  e.who = "glue" /\ e.operand = Null /\ e.garbage = {} /\ e.survivors = {} /\ ~e.thrown
BY DEF Clean, Entries, FrameKinds

\* Where destructors and locks are apart, no lock is held by what runs or
\* collects.
LEMMA NoLocks ==
  ASSUME Inv, Formed(stack, program), stack # <<>>, top.at # "drop", Separate(program)
  PROVE  Locked = {}
<1>1. /\ LocksOn(stack) = {top.lock} \cup LocksOn(below) /\ top.lock = Null
      /\ Formed(below, program) /\ (NoClass(program) => AllRun(below))
      /\ below \in Seq(Entries)
  BY Opened DEF Clean
<1>2. CASE NoContainer(program)
  <2>1. LocksOn(stack) \subseteq {Null}
    BY <1>2 DEF Formed
  <2>2. DOMAIN stack = 1..Len(stack)
    BY LenProperties DEF Inv, Sound
  <2>3. QED
    BY <2>1, <2>2 DEF LocksOn, Locked
<1>3. CASE NoClass(program)
  <2> DEFINE b == below
  <2>1. AllRun(b) /\ Formed(b, program)
    BY <1>1, <1>3
  <2> HIDE DEF b
  <2>2. LocksOn(b) \subseteq {Null}
    BY <2>1 DEF AllRun, Formed, Clean, LocksOn
  <2>3. LocksOn(stack) \subseteq {Null}
    BY <1>1, <2>2 DEF b
  <2>4. DOMAIN stack = 1..Len(stack)
    BY LenProperties DEF Inv, Sound
  <2>5. QED
    BY <2>3, <2>4 DEF LocksOn, Locked
<1>4. QED
  BY <1>2, <1>3 DEF Separate

LEMMA UnlockSteady == ASSUME Inv, Formed(stack, program), Unlock PROVE Steady
<1>1. /\ stack # <<>> /\ top.at = "drop" /\ Empty(top.refs) /\ stack' = below
      /\ UNCHANGED <<program, heap, static, pending>>
  BY DEF Unlock, At, gc
<1>2. top \in Entries /\ Clean(top) /\ below \in Seq(Entries) /\ Formed(below, program)
  BY <1>1, Opened
<1>3. top.operand = Null /\ top.garbage = {} /\ top.survivors = {}
  BY <1>1, <1>2, Glued
<1>4. Refd(top) \subseteq {Null} /\ Kept(top) = {}
  BY <1>1, <1>3 DEF Refd, Kept, Empty
<1>5. Atop(stack', below, {})
  BY <1>1, <1>2, AtopItself
<1>6. QED
  BY <1>1, <1>2, <1>4, <1>5, SteadyPop

\* The innermost entry changes, and nothing else on the stack.
LEMMA SteadyTop ==
  ASSUME Inv, Formed(stack, program), stack # <<>>, UNCHANGED <<program, heap>>,
         NEW e \in Entries, stack' = <<e>> \o below, Clean(e), e.who = top.who,
         e.lock \in {top.lock, Null}, top.at # "drop" \/ e.at = "drop",
         e.at # "blocked" \/ ~Separate(program),
         e.garbage \subseteq top.garbage, PassOf(top) => PassOf(e),
         Refd(top) \cup {static} \subseteq Refd(e) \cup {static', Null},
         {static} \cup pending \cup Kept(top) \subseteq Kept(e) \cup {static', Null} \cup pending',
         Quiet => \A T : /\ Closed(T)
                         /\ {static} \cup MineOf(top) \subseteq T \cup {Null}
                         => {static'} \cup MineOf(e) \subseteq T \cup {Null}
  PROVE  Steady
<1> DEFINE p == Push(e, below)
<1>1. stack' = p /\ below \in Seq(Entries)
  BY Opened DEF Push
<1>2. p \in Seq(Entries) /\ Formed(p, program)
  BY <1>1, FitsToo, PushSeq
<1> HIDE DEF p
<1>3. Atop(stack', p, {})
  BY <1>1, <1>2, AtopItself
<1>4. Refd(top) \cup {static} \subseteq Refd(e) \cup {} \cup {static', Null}
  OBVIOUS
<1>5. {static} \cup pending \cup Kept(top)
        \subseteq Kept(e) \cup KeptOn(stack') \cup {static', Null} \cup pending'
  OBVIOUS
<1>6. Formed(stack', program)
  BY <1>1, <1>2
<1>7. QED
  BY <1>3, <1>4, <1>5, <1>6, SteadyStep DEF p

LEMMA NoteSteady == ASSUME Inv, Formed(stack, program), Note PROVE Steady
<1> DEFINE e == [top EXCEPT !.at = "collect"]
<1>1. /\ stack # <<>> /\ top.at = "note" /\ stack' = <<e>> \o below
      /\ UNCHANGED <<program, heap, static>>
      /\ pending' = pending \cup (Range(top.refs) \ {Null})
  BY DEF Note, At, GoTo
<1>2. top \in Entries /\ Clean(top)
  BY <1>1, Opened
<1>3. /\ top.who = "glue" /\ top.operand = Null /\ top.garbage = {} /\ top.survivors = {}
      /\ ~top.thrown
  BY <1>1, <1>2, Glued
<1>4. /\ e \in Entries /\ e.who = top.who /\ e.at = "collect" /\ e.refs = top.refs
      /\ e.operand = top.operand /\ e.lock = top.lock /\ e.garbage = {} /\ e.survivors = {}
      /\ e.thrown = top.thrown
  BY <1>2, <1>3 DEF Entries
<1> HIDE DEF e
<1>5. Clean(e) /\ PassOf(e)
  BY <1>1, <1>2, <1>3, <1>4 DEF Clean, PassOf, FrameKinds
<1>6. /\ Refd(e) = Refd(top) /\ Kept(top) \subseteq pending' \cup {Null}
      /\ Rooted(e) \subseteq Rooted(top)
  BY <1>1, <1>3, <1>4 DEF Refd, Kept, Rooted
<1>7. MineOf(e) \subseteq MineOf(top)
  BY <1>6 DEF MineOf
<1>8. QED
  <2>1. /\ Refd(top) \cup {static} \subseteq Refd(e) \cup {static', Null}
        /\ {static} \cup pending \cup Kept(top) \subseteq Kept(e) \cup {static', Null} \cup pending'
    BY <1>1, <1>6
  <2>2. \A T : {static} \cup MineOf(top) \subseteq T \cup {Null}
                 => {static'} \cup MineOf(e) \subseteq T \cup {Null}
    BY <1>1, <1>7
  <2>3. e.garbage \subseteq top.garbage /\ (top.at # "drop" \/ e.at = "drop") /\ e.lock \in {top.lock, Null}
    BY <1>1, <1>4
  <2>4. QED
    BY <1>1, <1>4, <1>5, <2>1, <2>2, <2>3, SteadyTop

LEMMA DiscardedSteady == ASSUME Inv, Formed(stack, program), Discarded PROVE Steady
<1> DEFINE e == [top EXCEPT !.at = "collect"]
<1>1. /\ stack # <<>> /\ top.at = "discard" /\ Empty(top.refs)
      /\ stack' = <<e>> \o below \/ stack' = below
      /\ UNCHANGED <<program, heap, static, pending>>
  BY DEF Discarded, At, GoTo
<1>2. top \in Entries /\ Clean(top) /\ below \in Seq(Entries) /\ Formed(below, program)
  BY <1>1, Opened
<1>3. /\ top.who = "glue" /\ top.operand = Null /\ top.garbage = {} /\ top.survivors = {}
      /\ ~top.thrown
  BY <1>1, <1>2, Glued
<1>4. Refd(top) \subseteq {Null} /\ Kept(top) = {}
  BY <1>1, <1>3 DEF Refd, Kept, Empty
<1>5. CASE stack' = below
  <2>1. Atop(stack', below, {})
    BY <1>2, <1>5, AtopItself
  <2>2. QED
    BY <1>1, <1>2, <1>4, <1>5, <2>1, SteadyPop
<1>6. CASE stack' = <<e>> \o below
  <2>1. /\ e \in Entries /\ e.who = top.who /\ e.at = "collect" /\ e.refs = top.refs
        /\ e.operand = top.operand /\ e.lock = top.lock /\ e.garbage = {} /\ e.survivors = {}
        /\ e.thrown = top.thrown
    BY <1>2, <1>3 DEF Entries
  <2>2. stack' = <<e>> \o below
    BY <1>6
  <2> HIDE DEF e
  <2>3. Clean(e) /\ PassOf(e)
    BY <1>1, <1>2, <1>3, <2>1 DEF Clean, PassOf, FrameKinds
  <2>4. Rooted(e) \subseteq Rooted(top)
    BY <1>3, <2>1 DEF Rooted
  <2>5. /\ Refd(top) \cup {static} \subseteq Refd(e) \cup {static', Null}
        /\ {static} \cup pending \cup Kept(top) \subseteq Kept(e) \cup {static', Null} \cup pending'
    BY <1>1, <1>4
  <2>6. \A T : {static} \cup MineOf(top) \subseteq T \cup {Null}
                 => {static'} \cup MineOf(e) \subseteq T \cup {Null}
    BY <1>1, <2>4 DEF MineOf
  <2>7. e.garbage \subseteq top.garbage /\ (top.at # "drop" \/ e.at = "drop") /\ e.lock \in {top.lock, Null}
    BY <1>1, <2>1
  <2>8. QED
    BY <1>1, <2>1, <2>2, <2>3, <2>5, <2>6, <2>7, SteadyTop
<1>7. QED
  BY <1>1, <1>5, <1>6

\* The end of a pass, or of an entry that had none to make (Finished).
LEMMA FinishedSteady ==
  ASSUME Inv, Formed(stack, program), stack # <<>>, UNCHANGED <<program, heap, static>>,
         top.at \in {"collect", "free"}, Empty(top.refs), top.garbage = {},
         pending \cup top.survivors \subseteq pending', stack' = Finished
  PROVE  Steady
<1>1. /\ top \in Entries /\ Clean(top) /\ Fits(top, below, program) /\ Rests(top, below)
      /\ below \in Seq(Entries) /\ Sound(below, live) /\ Formed(below, program)
  BY Opened
<1>2. top.operand \in Nodes \cup {Null} /\ top.thrown \in BOOLEAN
      /\ top.who \in FrameKinds \cup {"glue", "sweep"}
  BY <1>1 DEF Entries
<1>3. /\ Refd(top) \subseteq {top.operand, Null} /\ Kept(top) \subseteq pending'
      /\ Rooted(top) = {top.operand}
  BY DEF Refd, Kept, Rooted, Empty
<1>4. <<top.operand>> \in Seq(Nodes \cup {Null}) /\ Range(<<top.operand>>) = {top.operand}
  BY <1>2, Refs
<1>5. ~top.thrown /\ top.who # "call" => top.operand = Null
  BY <1>1 DEF Clean
<1>6. CASE top.who = "main"
  <2> DEFINE g == Glue("collect", <<top.operand>>, Null)
             e == [g EXCEPT !.who = "sweep"]
  <2>1. stack' = <<e>> /\ below = <<>>
    BY <1>1, <1>6 DEF Finished, Fits, Outermost
  <2>2. "collect" \in GlueStages /\ Null \in Nodes \cup {Null}
    BY DEF GlueStages
  <2>3. IsGlue(g, "collect", <<top.operand>>, Null) /\ g.operand = Null /\ g.thrown = FALSE
        /\ g.survivors = {}
    BY <1>4, <2>2, GlueParts DEF Glue, Frame
  <2> HIDE DEF g
  <2>4. g \in Entries
    BY <2>3 DEF IsGlue
  <2>5. /\ e \in Entries /\ e.who = "sweep" /\ e.at = "collect" /\ e.refs = <<top.operand>>
        /\ e.operand = Null /\ e.lock = Null /\ e.garbage = {} /\ e.survivors = {}
        /\ e.thrown = FALSE
    BY <2>3, <2>4 DEF Entries, IsGlue
  <2> HIDE DEF e
  <2>6. Clean(e) /\ PassOf(e)
    BY <2>5 DEF Clean, PassOf, FrameKinds
  <2>7. Refd(e) = {top.operand, Null} /\ Rooted(e) = {Null}
    BY <1>4, <2>5 DEF Refd, Rooted
  <2>8. stack' = Push(e, below)
    <3>1. <<e>> \in Seq(Entries)
      BY <2>5
    <3>2. <<e>> \o <<>> = <<e>>
      BY <3>1, ConcatEmptySeq
    <3>3. QED
      BY <2>1, <3>2 DEF Push
  <2>9. Fits(e, below, program)
    BY <1>1, <1>6, <2>1, <2>5, <2>6, NothingHeld DEF Fits, OnTop, Outermost
  <2>10. Formed(stack', program) /\ stack' \in Seq(Entries)
    BY <1>1, <2>5, <2>8, <2>9, Forms, PushSeq
  <2>11. Atop(stack', Push(e, below), {})
    BY <2>8, <2>10, AtopItself
  <2>12. /\ Refd(top) \cup {static} \subseteq Refd(e) \cup {} \cup {static', Null}
         /\ {static} \cup pending \cup Kept(top)
              \subseteq Kept(e) \cup KeptOn(stack') \cup {static', Null} \cup pending'
    BY <1>3, <2>7
  <2>13. \A T : {static} \cup MineOf(top) \subseteq T \cup {Null}
                  => {static'} \cup MineOf(e) \subseteq T \cup {Null}
    BY <2>7 DEF MineOf
  <2>14. e.garbage \subseteq top.garbage /\ (e.who = "destruct" <=> top.who = "destruct")
    BY <1>6, <2>5
  <2>15. QED
    BY <2>5, <2>6, <2>10, <2>11, <2>12, <2>13, <2>14, SteadyStep
<1>7. CASE top.who = "clinit" /\ ~top.thrown
  <2> DEFINE f == Frame("main", NoLocals)
  <2>1. stack' = <<f>> /\ below = <<>> /\ top.operand = Null
    BY <1>1, <1>5, <1>7 DEF Finished, Fits, Outermost
  <2>2. "main" \in FrameKinds /\ NoLocals \in Seq(Nodes \cup {Null}) /\ Range(NoLocals) \subseteq {Null}
    BY Refs DEF FrameKinds
  <2>3. IsFrame(f, "main", NoLocals)
    BY <2>2, FrameParts
  <2> HIDE DEF f
  <2>4. /\ f \in Entries /\ Clean(f) /\ PassOf(f) /\ f.who = "main" /\ f.at = "run"
        /\ f.lock = Null /\ f.garbage = {} /\ Rooted(f) \subseteq {Null} /\ Null \in Refd(f)
    BY <2>2, <2>3 DEF IsFrame
  <2>5. stack' = Push(f, below)
    <3>1. <<f>> \in Seq(Entries)
      BY <2>4
    <3>2. <<f>> \o <<>> = <<f>>
      BY <3>1, ConcatEmptySeq
    <3>3. QED
      BY <2>1, <3>2 DEF Push
  <2>6. Fits(f, below, program)
    BY <1>1, <1>7, <2>1, <2>4, NothingHeld DEF Fits, OnTop, Outermost
  <2>7. Formed(stack', program) /\ stack' \in Seq(Entries)
    BY <1>1, <2>4, <2>5, <2>6, Forms, PushSeq
  <2>8. Atop(stack', Push(f, below), {})
    BY <2>5, <2>7, AtopItself
  <2>9. /\ Refd(top) \cup {static} \subseteq Refd(f) \cup {} \cup {static', Null}
        /\ {static} \cup pending \cup Kept(top)
              \subseteq Kept(f) \cup KeptOn(stack') \cup {static', Null} \cup pending'
    BY <1>3, <2>1
  <2>10. \A T : {static} \cup MineOf(top) \subseteq T \cup {Null}
                  => {static'} \cup MineOf(f) \subseteq T \cup {Null}
    BY <2>4 DEF MineOf
  <2>11. f.garbage \subseteq top.garbage /\ (f.who = "destruct" <=> top.who = "destruct")
    BY <1>7, <2>4
  <2>12. QED
    BY <2>4, <2>7, <2>8, <2>9, <2>10, <2>11, SteadyStep
<1>8. CASE top.who = "call" /\ ~top.thrown
  <2> DEFINE u == below[1]
             b == Tail(below)
             e == [u EXCEPT !.operand = top.operand]
  <2>1. below # <<>> /\ stack' = Push(e, b)
    BY <1>1, <1>8 DEF Rests, Finished, Push
  <2>2. below = Push(u, b) /\ u \in Entries /\ b \in Seq(Entries)
    BY <1>1, <2>1, Apart
  <2>3. u.at = "run" /\ u.operand = Null
    BY <1>1, <1>8, <2>1 DEF Fits, OnTop
  <2> HIDE DEF u, b
  <2>4. /\ e \in Entries /\ e.who = u.who /\ e.at = "run" /\ e.refs = u.refs
        /\ e.operand = top.operand /\ e.lock = u.lock /\ e.garbage = u.garbage
        /\ e.survivors = u.survivors /\ e.thrown = u.thrown /\ e.todo = u.todo
    BY <1>2, <2>2, <2>3 DEF Entries
  <2>5. /\ HeldOn(stack) = Refd(top) \cup HeldOn(below)
        /\ KeptOn(stack) = Kept(top) \cup KeptOn(below)
        /\ GarbageOn(stack) = top.garbage \cup GarbageOn(below)
        /\ MineOn(stack) = MineOn(below) \cup (IF Destructing(below) THEN {} ELSE Rooted(top))
        /\ Passes(stack) <=> (PassOf(top) /\ Passes(below))
    BY <1>8, Opened
  <2>6. Clean(e) /\ (PassOf(u) => PassOf(e))
    <3>1. Clean(u)
      BY <1>1, <2>2, Forms DEF Fits
    <3>2. QED
      BY <2>3, <2>4, <3>1 DEF Clean, PassOf
  <2>7. /\ Refd(e) = Refd(u) \cup {top.operand} \/ Refd(e) \cup {Null} = Refd(u) \cup {top.operand}
        /\ Kept(e) = Kept(u) /\ Rooted(e) \subseteq Rooted(u) \cup {top.operand}
    BY <2>3, <2>4 DEF Refd, Kept, Rooted
  <2> HIDE DEF e
  <2>8. /\ HeldOn(below) = Refd(u) \cup HeldOn(b)
        /\ KeptOn(below) = Kept(u) \cup KeptOn(b)
        /\ GarbageOn(below) = u.garbage \cup GarbageOn(b)
        /\ MineOn(below) = MineOn(b) \cup
              (IF u.who = "destruct" \/ Destructing(b) THEN {} ELSE Rooted(u))
        /\ Passes(below) <=> (PassOf(u) /\ Passes(b))
        /\ Destructing(below) <=> (u.who = "destruct" \/ Destructing(b))
    BY <2>2, Parts, PartsMine
  <2>9. /\ HeldOn(stack') = Refd(e) \cup HeldOn(b)
        /\ KeptOn(stack') = Kept(e) \cup KeptOn(b)
        /\ GarbageOn(stack') = e.garbage \cup GarbageOn(b)
        /\ MineOn(stack') = MineOn(b) \cup
              (IF e.who = "destruct" \/ Destructing(b) THEN {} ELSE Rooted(e))
        /\ Passes(stack') <=> (PassOf(e) /\ Passes(b))
    <3> DEFINE s == Push(e, b)
    <3>1. /\ HeldOn(s) = Refd(e) \cup HeldOn(b)
          /\ KeptOn(s) = Kept(e) \cup KeptOn(b)
          /\ GarbageOn(s) = e.garbage \cup GarbageOn(b)
          /\ MineOn(s) = MineOn(b) \cup
              (IF e.who = "destruct" \/ Destructing(b) THEN {} ELSE Rooted(e))
          /\ Passes(s) <=> (PassOf(e) /\ Passes(b))
      BY <2>2, <2>4, Parts, PartsMine
    <3> HIDE DEF s
    <3>2. stack' = s
      BY <2>1 DEF s
    <3>3. QED
      BY <3>1, <3>2
  <2>10. Formed(stack', program)
    <3>1. Formed(b, program) /\ Fits(u, b, program)
      BY <1>1, <2>2, Forms
    <3>2. Fits(e, b, program)
      BY <2>3, <2>4, <2>6, <3>1 DEF Fits, OnTop
    <3>3. QED
      BY <2>1, <2>2, <2>4, <3>1, <3>2, Forms
  <2>11. MineOn(stack') \subseteq MineOn(stack) \cup {Null}
    BY <1>3, <2>4, <2>5, <2>7, <2>8, <2>9
  <2>12. GarbageOn(stack') \subseteq GarbageOn(stack) /\ (Passes(stack) => Passes(stack'))
    BY <2>4, <2>5, <2>6, <2>8, <2>9
  <2>13. {static} \cup HeldOn(stack) \subseteq {static'} \cup HeldOn(stack') \cup {Null}
    BY <1>3, <2>5, <2>7, <2>8, <2>9
  <2>14. Anchors \subseteq {static'} \cup pending' \cup KeptOn(stack') \cup {Null}
    BY <1>3, <2>5, <2>7, <2>8, <2>9 DEF Anchors
  <2>15. QED
    BY <2>10, <2>11, <2>12, <2>13, <2>14 DEF Steady
<1>9. CASE top.who # "main" /\ top.thrown
  <2> DEFINE d == Dropping(<<top.operand>>, Null)
  <2>1. stack' = d \o below
    BY <1>9 DEF Finished
  <2>2. program.boot = "main" => below # <<>>
    BY <1>1, <1>9 DEF Fits, Outermost, Clean
  <2>3. Atop(d \o below, below, {top.operand}) /\ Formed(d \o below, program)
    BY <1>1, <1>4, <2>2, DroppingAtop
  <2> HIDE DEF d
  <2>4. Atop(stack', below, {top.operand}) /\ Formed(stack', program)
    BY <2>1, <2>3
  <2>5. pending \cup Kept(top) \subseteq pending' \cup {Null}
    BY <1>3
  <2>6. QED
    BY <1>3, <2>4, <2>5, SteadyPop
<1>10. CASE top.who \notin {"main", "clinit", "call"} /\ ~top.thrown
  <2>1. stack' = below /\ Refd(top) \subseteq {} \cup {Null}
    BY <1>3, <1>5, <1>10 DEF Finished
  <2>2. Atop(stack', below, {}) /\ Formed(stack', program)
    BY <1>1, <2>1, AtopItself
  <2>3. pending \cup Kept(top) \subseteq pending' \cup {Null}
    BY <1>3
  <2>4. QED
    BY <2>1, <2>2, <2>3, SteadyPop
<1>11. QED
  BY <1>2, <1>6, <1>7, <1>8, <1>9, <1>10

LEMMA EndPassSteady == ASSUME Inv, Formed(stack, program), EndPass PROVE Steady
<1>1. /\ stack # <<>> /\ top.at = "free" /\ top.garbage = {} /\ stack' = Finished
      /\ pending' = pending \cup top.survivors /\ UNCHANGED <<program, heap, static>>
  BY DEF EndPass, At
<1>2. Empty(top.refs)
  BY <1>1, Opened DEF Clean
<1>3. QED
  BY <1>1, <1>2, FinishedSteady

\* A pass finds G to be garbage, and begins to reclaim it.
Reclaims(G) ==
  /\ G = Closure(pending) \ LiveIn(Closure(pending)) /\ Closure(pending) \cap Locked = {}
  /\ UNCHANGED <<program, heap, static>> /\ pending' = {}
  /\ Formed(stack', program)
  /\ stack # <<>> /\ stack'[1].who = top.who /\ stack'[1].garbage = G /\ Tail(stack') = below
  /\ stack'[1].at = "destroy" /\ top.at = "collect"
  /\ Refd(top) \subseteq {top.operand, Null}
  /\ HeldOn(stack') \cup {Null} = HeldOn(stack) \cup G \cup {Null}
  /\ KeptOn(stack) \cup Closure(pending) \subseteq KeptOn(stack')
  /\ MineOn(stack') = MineOn(stack)
  /\ GarbageOn(stack') = GarbageOn(stack) \cup G
  /\ Passes(stack) => Passes(stack')

\* A pass that blocks, finds no garbage, or is not made at all
\* (RunPendingCollection): what was pending survives.
LEMMA CollectionSteady ==
  ASSUME Inv, Formed(stack, program), RunPendingCollection
  PROVE  Steady \/ \E G : Reclaims(G)
<1> DEFINE set == Closure(pending)
           garbage == set \ LiveIn(set)
<1>1. /\ stack # <<>> /\ top.at = "collect" /\ Empty(top.refs)
      /\ UNCHANGED <<program, heap, static>>
  BY DEF RunPendingCollection, At
<1>2. top \in Entries /\ Clean(top) /\ below \in Seq(Entries)
  BY <1>1, Opened
<1>3. top.garbage = {} /\ top.survivors = {}
  BY <1>1, <1>2 DEF Clean
<1>4. pending \subseteq set /\ set \subseteq live /\ live \subseteq Nodes
  BY Numbers DEF Closure, Inv, HeapOK
<1>5. CASE threads
  <2>1. stack' = Finished /\ pending' = pending
    BY <1>5 DEF RunPendingCollection, gc
  <2>2. QED
    BY <1>1, <1>3, <2>1, FinishedSteady
<1>6. CASE ~threads /\ set \cap Locked # {}
  <2> DEFINE e == [top EXCEPT !.at = "blocked", !.survivors = set]
  <2>1. pending' = {} /\ stack' = <<e>> \o below
    BY <1>6 DEF RunPendingCollection
  <2>8. ~Separate(program)
    BY <1>1, <1>6, NoLocks
  <2> HIDE DEF set
  <2>2. /\ e \in Entries /\ e.who = top.who /\ e.at = "blocked" /\ e.refs = top.refs
        /\ e.operand = top.operand /\ e.lock = top.lock /\ e.garbage = {} /\ e.survivors = set
        /\ e.thrown = top.thrown
    BY <1>2, <1>3, <1>4 DEF Entries
  <2> HIDE DEF e
  <2>3. Clean(e) /\ PassOf(e)
    BY <1>1, <1>2, <1>3, <2>2 DEF Clean, PassOf, FrameKinds
  <2>4. /\ Refd(top) \cup {static} \subseteq Refd(e) \cup {static', Null}
        /\ {static} \cup pending \cup Kept(top) \subseteq Kept(e) \cup {static', Null} \cup pending'
        /\ Rooted(e) \subseteq Rooted(top)
    BY <1>1, <1>3, <1>4, <2>2 DEF Refd, Kept, Rooted
  <2>5. \A T : {static} \cup MineOf(top) \subseteq T \cup {Null}
                 => {static'} \cup MineOf(e) \subseteq T \cup {Null}
    BY <1>1, <2>4 DEF MineOf
  <2>6. e.garbage \subseteq top.garbage /\ (top.at # "drop" \/ e.at = "drop") /\ e.lock \in {top.lock, Null}
    BY <1>1, <2>2
  <2>7. QED
    BY <1>1, <2>1, <2>2, <2>3, <2>4, <2>5, <2>6, <2>8, SteadyTop
<1>7. CASE ~threads /\ set \cap Locked = {} /\ garbage = {}
  <2>1. pending' = Survivors(set) /\ stack' = Finished
    BY <1>7 DEF RunPendingCollection
  <2>2. pending \cup top.survivors \subseteq pending'
    BY <1>3, <1>4, <1>7, <2>1 DEF Survivors
  <2>3. QED
    BY <1>1, <1>3, <2>1, <2>2, FinishedSteady
<1>8. CASE ~threads /\ set \cap Locked = {} /\ garbage # {}
  <2> DEFINE todo == {n \in garbage : IsObject(n)}
             kept == Survivors(set)
             e == [top EXCEPT !.at = "destroy", !.garbage = garbage, !.todo = todo,
                              !.survivors = kept]
             t == top
             b == below
             s == Push(e, b)
  <2>1. stack' = s /\ pending' = {}
    BY <1>8 DEF RunPendingCollection, Push
  <2>2. /\ kept \subseteq Nodes /\ garbage \subseteq Nodes /\ todo \subseteq garbage
        /\ set \subseteq kept \cup garbage
        /\ \A n \in garbage : IsObject(n) => n \in todo
    BY <1>4, Reached DEF Survivors
  <2>3. garbage = Closure(pending) \ LiveIn(Closure(pending))
    OBVIOUS
  <2> HIDE DEF garbage, todo, kept
  <2>4. /\ e \in Entries /\ e.at = "destroy" /\ e.who = t.who /\ e.refs = t.refs
        /\ e.operand = t.operand /\ e.lock = t.lock /\ e.garbage = garbage /\ e.survivors = kept
        /\ e.todo = todo /\ e.thrown = t.thrown
    BY <1>2, <2>2 DEF Entries
  <2> HIDE DEF e
  <2>5. Clean(e) /\ PassOf(e)
    BY <1>1, <1>2, <2>2, <2>4 DEF Clean, PassOf, FrameKinds
  <2>6. Formed(s, program)
    BY <1>1, <2>4, <2>5, FitsToo
  <2>7. /\ HeldOn(stack) = Refd(t) \cup HeldOn(b)
        /\ KeptOn(stack) = Kept(t) \cup KeptOn(b)
        /\ GarbageOn(stack) = t.garbage \cup GarbageOn(b)
        /\ MineOn(stack) = MineOn(b) \cup
              (IF t.who = "destruct" \/ Destructing(b) THEN {} ELSE Rooted(t))
        /\ Passes(stack) <=> (PassOf(t) /\ Passes(b))
    BY <1>1, Opened
  <2>8. /\ Refd(e) \cup {Null} = Refd(t) \cup garbage \cup {Null}
        /\ Kept(t) = {} /\ Kept(e) = kept \cup garbage
        /\ Rooted(e) = Rooted(t) /\ t.garbage = {} /\ Refd(t) \subseteq {t.operand, Null}
    BY <1>1, <1>3, <2>4 DEF Refd, Kept, Rooted, Empty
  <2>9. b \in Seq(Entries)
    BY <1>2
  <2> HIDE DEF t, b
  <2>10. /\ HeldOn(s) = Refd(e) \cup HeldOn(b)
         /\ KeptOn(s) = Kept(e) \cup KeptOn(b)
         /\ GarbageOn(s) = e.garbage \cup GarbageOn(b)
         /\ MineOn(s) = MineOn(b) \cup
              (IF e.who = "destruct" \/ Destructing(b) THEN {} ELSE Rooted(e))
         /\ Passes(s) <=> (PassOf(e) /\ Passes(b))
         /\ s[1] = e /\ Tail(s) = b
    BY <2>4, <2>9, Pushing
  <2> HIDE DEF s, set
  <2>11. /\ HeldOn(stack') \cup {Null} = HeldOn(stack) \cup garbage \cup {Null}
         /\ KeptOn(stack) \cup set \subseteq KeptOn(stack')
         /\ MineOn(stack') = MineOn(stack)
         /\ GarbageOn(stack') = GarbageOn(stack) \cup garbage
         /\ Passes(stack) => Passes(stack')
    BY <2>1, <2>2, <2>4, <2>5, <2>7, <2>8, <2>10
  <2>12. /\ stack'[1].who = t.who /\ stack'[1].garbage = garbage /\ Tail(stack') = b
         /\ stack'[1].at = "destroy"
    BY <2>1, <2>4, <2>10
  <2>13. Reclaims(garbage)
    BY <1>1, <1>8, <2>1, <2>3, <2>6, <2>8, <2>11, <2>12 DEF Reclaims, t, b, set
  <2>14. QED
    BY <2>13
<1>9. QED
  BY <1>5, <1>6, <1>7, <1>8

\* force_destroy and clear() are through: the garbage is about to be freed.
LEMMA DropGarbageSteady == ASSUME Inv, Formed(stack, program), DropGarbage PROVE Steady
<1> DEFINE e == [top EXCEPT !.at = "free"]
<1>1. /\ stack # <<>> /\ top.at = "destroy" /\ top.todo = {} /\ Uncleared = {}
      /\ UNCHANGED <<program, heap, static, pending>> /\ stack' = <<e>> \o below
  BY DEF DropGarbage, At, GoTo, gc
<1>2. top \in Entries /\ Clean(top)
  BY <1>1, Opened
<1>3. /\ e \in Entries /\ e.who = top.who /\ e.at = "free" /\ e.refs = top.refs
      /\ e.operand = top.operand /\ e.lock = top.lock /\ e.garbage = top.garbage
      /\ e.survivors = top.survivors /\ e.todo = {} /\ e.thrown = top.thrown
  BY <1>1, <1>2 DEF Entries
<1> HIDE DEF e
<1>4. Clean(e)
  BY <1>1, <1>2, <1>3 DEF Clean
<1>5. PassOf(top) => PassOf(e)
  <2>1. \A n \in top.garbage : ~IsObject(n) => field[n] = NoKeys
    BY <1>1 DEF Uncleared
  <2>2. Range(NoKeys) \subseteq {Null}
    BY DEF Range, NoKeys
  <2>3. QED
    BY <1>1, <1>3, <2>1, <2>2 DEF PassOf
<1>6. /\ Refd(top) \cup {static} \subseteq Refd(e) \cup {static', Null}
      /\ {static} \cup pending \cup Kept(top) \subseteq Kept(e) \cup {static', Null} \cup pending'
      /\ Rooted(e) \subseteq Rooted(top)
  BY <1>1, <1>3 DEF Refd, Kept, Rooted
<1>7. \A T : {static} \cup MineOf(top) \subseteq T \cup {Null}
               => {static'} \cup MineOf(e) \subseteq T \cup {Null}
  BY <1>1, <1>6 DEF MineOf
<1>8. e.garbage \subseteq top.garbage /\ (top.at # "drop" \/ e.at = "drop") /\ e.lock \in {top.lock, Null}
  BY <1>1, <1>3
<1>9. QED
  BY <1>1, <1>3, <1>4, <1>5, <1>6, <1>7, <1>8, SteadyTop

\* The object on which force_destroy is called was destroyed before.
LEMMA DestroyedSteady ==
  ASSUME Inv, Formed(stack, program), stack # <<>>, top.at = "destroy",
         UNCHANGED <<program, heap, static, pending>>,
         NEW n \in destroyed, stack' = <<[top EXCEPT !.todo = @ \ {n}]>> \o below
  PROVE  Steady
<1> DEFINE e == [top EXCEPT !.todo = @ \ {n}]
<1>1. top \in Entries /\ Clean(top)
  BY Opened
<1>2. /\ e \in Entries /\ e.who = top.who /\ e.at = top.at /\ e.refs = top.refs
      /\ e.operand = top.operand /\ e.lock = top.lock /\ e.garbage = top.garbage
      /\ e.survivors = top.survivors /\ e.todo = top.todo \ {n} /\ e.thrown = top.thrown
  BY <1>1 DEF Entries
<1>3. stack' = <<e>> \o below
  OBVIOUS
<1> HIDE DEF e
<1>4. Clean(e)
  BY <1>1, <1>2 DEF Clean
<1>5. PassOf(top) => PassOf(e)
  BY <1>2 DEF PassOf
<1>6. Refd(e) = Refd(top) /\ Kept(e) = Kept(top) /\ Rooted(e) = Rooted(top)
  BY <1>2 DEF Refd, Kept, Rooted
<1>7. \A T : {static} \cup MineOf(top) \subseteq T \cup {Null}
               => {static'} \cup MineOf(e) \subseteq T \cup {Null}
  BY <1>6 DEF MineOf
<1>8. e.garbage \subseteq top.garbage /\ (top.at # "drop" \/ e.at = "drop") /\ e.lock \in {top.lock, Null}
  BY <1>2
<1>9. /\ Refd(top) \cup {static} \subseteq Refd(e) \cup {static', Null}
      /\ {static} \cup pending \cup Kept(top) \subseteq Kept(e) \cup {static', Null} \cup pending'
  BY <1>6
<1>10. QED
  BY <1>2, <1>3, <1>4, <1>5, <1>7, <1>8, <1>9, SteadyTop

\* A thread that waits for a lock of its own holds all it held (GoTo).
LEMMA BlockedSteady ==
  ASSUME Inv, Formed(stack, program), stack # <<>>, top.at \in {"run", "destroy"},
         UNCHANGED <<program, heap, static, pending>>, GoTo("blocked"), Locked # {}
  PROVE  Steady
<1> DEFINE e == [top EXCEPT !.at = "blocked"]
<1>1. top \in Entries /\ Clean(top) /\ stack' = <<e>> \o below
  BY Opened DEF GoTo
<1>2. /\ e \in Entries /\ e.who = top.who /\ e.at = "blocked" /\ e.refs = top.refs
      /\ e.operand = top.operand /\ e.lock = top.lock /\ e.garbage = top.garbage
      /\ e.survivors = top.survivors /\ e.thrown = top.thrown
  BY <1>1 DEF Entries
<1> HIDE DEF e
<1>3. Clean(e) /\ PassOf(e)
  BY <1>1, <1>2 DEF Clean, PassOf, FrameKinds
<1>4. /\ Refd(top) \cup {static} \subseteq Refd(e) \cup {static', Null}
      /\ {static} \cup pending \cup Kept(top) \subseteq Kept(e) \cup {static', Null} \cup pending'
      /\ Rooted(e) \subseteq Rooted(top)
  BY <1>2 DEF Refd, Kept, Rooted
<1>5. \A T : {static} \cup MineOf(top) \subseteq T \cup {Null}
               => {static'} \cup MineOf(e) \subseteq T \cup {Null}
  BY <1>4 DEF MineOf
<1>6. e.garbage \subseteq top.garbage /\ (top.at # "drop" \/ e.at = "drop") /\ e.lock \in {top.lock, Null}
  BY <1>2
<1>7. ~Separate(program)
  BY NoLocks
<1>8. QED
  BY <1>1, <1>2, <1>3, <1>4, <1>5, <1>6, <1>7, SteadyTop

\* Nothing moves.
LEMMA StillSteady ==
  ASSUME Formed(stack, program), UNCHANGED <<program, heap, static, pending, stack>>
  PROVE  Steady
<1>1. /\ HeldOn(stack') = HeldOn(stack) /\ KeptOn(stack') = KeptOn(stack)
      /\ GarbageOn(stack') = GarbageOn(stack) /\ MineOn(stack') = MineOn(stack)
      /\ Passes(stack') <=> Passes(stack)
      /\ Formed(stack', program)
  OBVIOUS
<1>2. QED
  BY <1>1 DEF Steady, Anchors

-----------------------------------------------------------------------------
(* What a running frame does.                                              *)

\* The innermost frame, with some locals and some operand.
Holding(e, refs, r) ==
  /\ e \in Entries /\ Clean(e) /\ PassOf(e) /\ e.who = top.who /\ e.at = "run"
  /\ e.refs = refs /\ e.operand = r /\ e.lock = Null /\ e.garbage = {}
  /\ Refd(e) = Range(refs) \cup {r} /\ Kept(e) = Range(refs) /\ Rooted(e) = Range(refs) \cup {r}

LEMMA Held ==
  ASSUME NEW e \in Entries, Clean(e), e.who = top.who, e.at = "run"
  PROVE  Holding(e, e.refs, e.operand)
<1>1. e.lock = Null /\ e.garbage = {} /\ e.survivors = {}
  BY DEF Clean
<1>2. PassOf(e)
  BY DEF PassOf
<1>3. /\ Refd(e) = Range(e.refs) \cup {e.operand} /\ Kept(e) = Range(e.refs)
      /\ Rooted(e) = Range(e.refs) \cup {e.operand}
  BY <1>1 DEF Refd, Kept, Rooted
<1>4. QED
  BY <1>1, <1>2, <1>3 DEF Holding

LEMMA Frames1 ==
  ASSUME Inv, Formed(stack, program), Running
  PROVE  /\ Holding(top, top.refs, top.operand) /\ top.refs \in Seq(Nodes \cup {Null})
         /\ top.operand \in Nodes \cup {Null} /\ top.who \in FrameKinds
         /\ \A r \in Nodes \cup {Null} : /\ Holding(Operand(r), top.refs, r)
                                         /\ Formed(Push(Operand(r), below), program)
         /\ \A refs \in Seq(Nodes \cup {Null}) :
               /\ Holding([Operand(Null) EXCEPT !.refs = refs], refs, Null)
               /\ Formed(Push([Operand(Null) EXCEPT !.refs = refs], below), program)
         /\ NoClass(program) => AllRun(below) /\ ~Destructing(stack)
<1>1. stack # <<>> /\ top.at = "run"
  BY DEF Running, At
<1>2. /\ top \in Entries /\ Clean(top) /\ below \in Seq(Entries)
      /\ NoClass(program) => AllRun(below)
  BY <1>1, Opened
<1>3. top.who \in FrameKinds /\ top.refs \in Seq(Nodes \cup {Null}) /\ top.operand \in Nodes \cup {Null}
  BY <1>1, <1>2 DEF Clean, Entries
<1>4. ASSUME NEW refs \in Seq(Nodes \cup {Null}), NEW r \in Nodes \cup {Null}
      PROVE  /\ [top EXCEPT !.operand = r, !.refs = refs] \in Entries
             /\ Clean([top EXCEPT !.operand = r, !.refs = refs])
             /\ [top EXCEPT !.operand = r, !.refs = refs].who = top.who
             /\ [top EXCEPT !.operand = r, !.refs = refs].at = "run"
             /\ [top EXCEPT !.operand = r, !.refs = refs].refs = refs
             /\ [top EXCEPT !.operand = r, !.refs = refs].operand = r
             /\ [top EXCEPT !.operand = r, !.refs = refs].lock = top.lock
  <2> DEFINE e == [top EXCEPT !.operand = r, !.refs = refs]
  <2>1. /\ e \in Entries /\ e.who = top.who /\ e.at = top.at /\ e.refs = refs
        /\ e.operand = r /\ e.lock = top.lock /\ e.garbage = top.garbage
        /\ e.survivors = top.survivors /\ e.thrown = top.thrown
    BY <1>2 DEF Entries
  <2> HIDE DEF e
  <2>2. Clean(e)
    BY <1>1, <1>2, <2>1 DEF Clean
  <2>3. QED
    BY <1>1, <2>1, <2>2 DEF e
<1>5. ASSUME NEW refs \in Seq(Nodes \cup {Null}), NEW r \in Nodes \cup {Null}
      PROVE  /\ Holding([top EXCEPT !.operand = r, !.refs = refs], refs, r)
             /\ Formed(Push([top EXCEPT !.operand = r, !.refs = refs], below), program)
  <2> DEFINE e == [top EXCEPT !.operand = r, !.refs = refs]
  <2>1. /\ e \in Entries /\ Clean(e) /\ e.who = top.who /\ e.at = "run" /\ e.refs = refs
        /\ e.operand = r /\ e.lock = top.lock
    BY <1>4
  <2> HIDE DEF e
  <2>2. Holding(e, refs, r)
    BY <2>1, Held
  <2>3. Formed(Push(e, below), program)
    BY <1>1, <2>1, FitsToo
  <2>4. QED
    BY <2>2, <2>3 DEF e
<1>6. ASSUME NEW r \in Nodes \cup {Null} PROVE Operand(r) = [top EXCEPT !.operand = r, !.refs = top.refs]
  BY <1>2 DEF Operand, Entries
<1>7. ASSUME NEW refs \in Seq(Nodes \cup {Null})
      PROVE  [Operand(Null) EXCEPT !.refs = refs] = [top EXCEPT !.operand = Null, !.refs = refs]
  BY <1>2 DEF Operand, Entries
<1>8. Holding(top, top.refs, top.operand)
  BY <1>1, <1>2, Held
<1>9. NoClass(program) => ~Destructing(stack)
  BY DEF Formed
<1>10. ASSUME NEW r \in Nodes \cup {Null}
       PROVE  Holding(Operand(r), top.refs, r) /\ Formed(Push(Operand(r), below), program)
  <2> DEFINE e == [top EXCEPT !.operand = r, !.refs = top.refs]
  <2>1. Holding(e, top.refs, r) /\ Formed(Push(e, below), program)
    BY <1>3, <1>5
  <2>2. Operand(r) = e
    BY <1>6
  <2> HIDE DEF e
  <2>3. QED
    BY <2>1, <2>2
<1>11. ASSUME NEW refs \in Seq(Nodes \cup {Null})
       PROVE  /\ Holding([Operand(Null) EXCEPT !.refs = refs], refs, Null)
              /\ Formed(Push([Operand(Null) EXCEPT !.refs = refs], below), program)
  <2> DEFINE e == [top EXCEPT !.operand = Null, !.refs = refs]
             f == [Operand(Null) EXCEPT !.refs = refs]
  <2>1. Holding(e, refs, Null) /\ Formed(Push(e, below), program)
    BY <1>5
  <2>2. f = e
    BY <1>7
  <2> HIDE DEF e, f
  <2>3. Holding(f, refs, Null) /\ Formed(Push(f, below), program)
    BY <2>1, <2>2
  <2>4. QED
    BY <2>3 DEF f
<1>12. QED
  BY <1>2, <1>3, <1>8, <1>9, <1>10, <1>11

LEMMA LoadSteady == ASSUME Inv, Formed(stack, program), Load PROVE Steady
<1>1. /\ Running /\ stack # <<>> /\ top.at = "run" /\ top.operand = Null
      /\ UNCHANGED <<program, heap, static, pending>>
  BY DEF Load, Running, At, gc
<1>2. PICK r \in (Range(top.refs) \cup {static}) \ {Null} : stack' = <<Operand(r)>> \o below
  BY DEF Load, Become
<1>3. r \in Nodes \cup {Null}
  BY <1>1, <1>2, Reachable DEF OneOf
<1> DEFINE e == Operand(r)
<1>4. Holding(top, top.refs, top.operand) /\ Holding(e, top.refs, r)
  BY <1>1, <1>3, Frames1
<1> HIDE DEF e
<1>5. ASSUME NEW T, {static} \cup MineOf(top) \subseteq T \cup {Null}
      PROVE  {static'} \cup MineOf(e) \subseteq T \cup {Null}
  BY <1>1, <1>2, <1>4, <1>5 DEF MineOf, Holding
<1>6. /\ Refd(top) \cup {static} \subseteq Refd(e) \cup {static', Null}
      /\ {static} \cup pending \cup Kept(top) \subseteq Kept(e) \cup {static', Null} \cup pending'
  BY <1>1, <1>4 DEF Holding
<1>7. /\ e \in Entries /\ Clean(e) /\ PassOf(e) /\ e.who = top.who /\ e.lock \in {top.lock, Null}
      /\ e.garbage \subseteq top.garbage /\ e.at = "run" /\ stack' = <<e>> \o below
  BY <1>2, <1>4 DEF Holding, e
<1>8. QED
  BY <1>1, <1>5, <1>6, <1>7, SteadyTop

LEMMA GetFieldSteady == ASSUME Inv, Formed(stack, program), GetField PROVE Steady
<1>1. /\ Running /\ stack # <<>> /\ top.at = "run" /\ top.operand # Null
      /\ UNCHANGED <<program, heap, static, pending>>
  BY DEF GetField, Running, At, gc
<1>2. PICK s \in Slots :
        IF top.operand \in Locked
          THEN GoTo("blocked")
          ELSE stack' = Dropping(<<top.operand>>, Null)
                        \o <<Operand(Fields(top.operand)[s])>> \o below
  BY DEF GetField
<1>3. CASE top.operand \in Locked
  <2>1. GoTo("blocked") /\ Locked # {}
    BY <1>2, <1>3
  <2>2. QED
    BY <1>1, <2>1, BlockedSteady
<1>4. CASE top.operand \notin Locked
  <2> DEFINE o == top.operand
             f == Fields(o)[s]
             e == Operand(f)
             d == Dropping(<<o>>, Null)
  <2>1. stack' = d \o <<e>> \o below
    BY <1>2, <1>4
  <2>2. o \in live /\ OneOf(o, live)
    BY <1>1, Reachable
  <2>2a. OneOf(f, live) /\ f \in Nodes \cup {Null}
    BY <1>1, <2>2, Reachable DEF OneOf
  <2>3. Holding(top, top.refs, o) /\ Holding(e, top.refs, f) /\ Formed(Push(e, below), program)
    BY <1>1, <2>2a, Frames1
  <2>4. \A T : Closed(T) /\ o \in T => f \in T \cup {Null}
    BY DEF Closed, Fields
  <2> HIDE DEF f, e
  <2>5. <<o>> \in Seq(Nodes \cup {Null}) /\ Range(<<o>>) = {o} /\ Null \in Nodes \cup {Null}
    BY <2>2, Refs DEF OneOf
  <2>6. below \in Seq(Entries)
    BY <1>1, Opened
  <2>7. <<e>> \in Seq(Entries) /\ Push(e, below) \in Seq(Entries) /\ Push(e, below) # <<>>
    BY <2>3, <2>6, PushSeq DEF Holding
  <2> DEFINE p == Push(e, below)
  <2> HIDE DEF o, p
  <2>8. Atop(d \o p, p, {o}) /\ Formed(d \o p, program)
    <3> DEFINE refs == <<o>>
    <3>0. refs \in Seq(Nodes \cup {Null}) /\ Range(refs) = {o} /\ p \in Seq(Entries) /\ p # <<>>
          /\ Formed(p, program)
      BY <2>3, <2>5, <2>7 DEF p
    <3> HIDE DEF refs
    <3>1. Atop(Dropping(refs, Null) \o p, p, Range(refs)) /\ Formed(Dropping(refs, Null) \o p, program)
      BY <3>0, DroppingAtop
    <3>2. QED
      BY <3>0, <3>1 DEF refs
  <2>9. d \in Seq(Entries)
    <3> DEFINE refs == <<o>>
    <3>1. refs \in Seq(Nodes \cup {Null})
      BY <2>5
    <3> HIDE DEF refs
    <3>2. Dropping(refs, Null) \in Seq(Entries)
      BY <2>5, <3>1, DroppingSeq
    <3>3. QED
      BY <3>2 DEF refs
  <2> HIDE DEF d
  <2>10. stack' = d \o p
    <3> DEFINE x == <<e>>
    <3>1. stack' = (d \o x) \o below
      BY <2>1
    <3>2. d \in Seq(Entries) /\ x \in Seq(Entries) /\ below \in Seq(Entries)
      BY <2>6, <2>7, <2>9
    <3> HIDE DEF x
    <3>3. (d \o x) \o below = d \o (x \o below)
      BY <3>2, ConcatAssociative
    <3>4. p = x \o below
      BY DEF p, x, Push
    <3>5. QED
      BY <3>1, <3>3, <3>4, Zenon
  <2>11. Atop(stack', Push(e, below), {o}) /\ Formed(stack', program)
    BY <2>8, <2>10 DEF p
  <2>12. ASSUME NEW T, Closed(T), {static} \cup MineOf(top) \subseteq T \cup {Null}
         PROVE  {static'} \cup MineOf(e) \subseteq T \cup {Null}
    <3>1. CASE Destructing(stack)
      BY <1>1, <2>12, <3>1 DEF MineOf
    <3>2. CASE ~Destructing(stack)
      <4>1. Range(top.refs) \cup {o} \subseteq T \cup {Null}
        BY <2>3, <2>12, <3>2 DEF MineOf, Holding
      <4>2. o # Null
        BY <1>1 DEF o
      <4>3. f \in T \cup {Null}
        BY <2>4, <2>12, <4>1, <4>2
      <4>4. MineOf(e) = Range(top.refs) \cup {f}
        BY <2>3, <3>2 DEF MineOf, Holding
      <4>5. QED
        BY <1>1, <2>12, <4>1, <4>3, <4>4
    <3>3. QED
      BY <3>1, <3>2
  <2>13. /\ Refd(top) \cup {static} \subseteq Refd(e) \cup {o} \cup {static', Null}
         /\ {static} \cup pending \cup Kept(top)
              \subseteq Kept(e) \cup KeptOn(stack') \cup {static', Null} \cup pending'
    BY <1>1, <2>3 DEF Holding
  <2>14. /\ e \in Entries /\ PassOf(e) /\ e.garbage \subseteq top.garbage
         /\ e.who = "destruct" <=> top.who = "destruct"
    BY <2>3 DEF Holding
  <2>15. QED
    BY <1>1, <2>11, <2>12, <2>13, <2>14, SteadyStep
<1>5. QED
  BY <1>3, <1>4

\* A frame hands what it drops to glue that notes or counts the drop.
LEMMA HandedSteady ==
  ASSUME Inv, Formed(stack, program), Running, UNCHANGED <<program, heap>>,
         NEW e, NEW refs, NEW r, Holding(e, refs, r), Formed(Push(e, below), program),
         NEW at \in {"collect", "discard"}, NEW old \in Nodes \cup {Null},
         stack' = <<Glue(at, <<old>>, Null), e>> \o below,
         pending' = pending \cup ({old} \ {Null}),
         Refd(top) \cup {static} \subseteq Refd(e) \cup {old, static', Null},
         {static} \cup Kept(top) \subseteq Kept(e) \cup {old, static', Null},
         Quiet => \A T : /\ Closed(T)
                         /\ {static} \cup MineOf(top) \subseteq T \cup {Null}
                         => {static'} \cup MineOf(e) \subseteq T \cup {Null}
  PROVE  Steady
<1> DEFINE one == <<old>>
           g == Glue(at, one, Null)
           p == Push(e, below)
<1>1. stack # <<>> /\ below \in Seq(Entries)
  BY Opened DEF Running, At
<1>2. /\ e \in Entries /\ PassOf(e) /\ e.garbage \subseteq top.garbage /\ e.who = top.who
      /\ e.at = "run"
  BY DEF Holding
<1>3. at \in GlueStages /\ Null \in Nodes \cup {Null}
  BY DEF GlueStages
<1>4. one \in Seq(Nodes \cup {Null}) /\ Range(one) = {old}
  BY Refs
<1> HIDE DEF one
<1>5. g \in Entries
  BY <1>3, <1>4, GlueParts DEF IsGlue
<1>6. p \in Seq(Entries) /\ p # <<>>
  BY <1>1, <1>2, PushSeq
<1>7. stack' = Push(g, p)
  <2>1. stack' = <<g, e>> \o below
    BY DEF one
  <2> HIDE DEF g
  <2>2. <<g, e>> \o below = <<g>> \o (<<e>> \o below)
    BY <1>1, <1>2, <1>5, Two
  <2>3. QED
    BY <2>1, <2>2 DEF Push
<1>8. AllRun(p) <=> AllRun(below)
  BY <1>1, <1>2, Parts
<1>9. NoClass(program) => AllRun(below)
  BY Frames1
<1>10. Formed(p, program)
  OBVIOUS
<1> HIDE DEF p
<1>11. Atop(Push(g, p), p, {old}) /\ Formed(Push(g, p), program)
  <2>1. NoClass(program) => at = "drop" \/ AllRun(p)
    BY <1>8, <1>9
  <2>2. Atop(Push(g, p), p, Range(one))
    BY <1>3, <1>4, <1>6, GlueAtop
  <2>3. Formed(Push(g, p), program)
    BY <1>3, <1>4, <1>6, <1>10, <2>1, GlueAtop
  <2>4. QED
    BY <1>4, <2>2, <2>3
<1>12. Atop(stack', Push(e, below), {old}) /\ Formed(stack', program)
  BY <1>7, <1>11 DEF p
<1>13. /\ Refd(top) \cup {static} \subseteq Refd(e) \cup {old} \cup {static', Null}
       /\ {static} \cup pending \cup Kept(top)
            \subseteq Kept(e) \cup KeptOn(stack') \cup {static', Null} \cup pending'
  OBVIOUS
<1>14. e.who = "destruct" <=> top.who = "destruct"
  BY <1>2
<1> HIDE DEF g
<1>15. QED
  BY <1>1, <1>2, <1>12, <1>13, <1>14, SteadyStep

LEMMA StoreSteady == ASSUME Inv, Formed(stack, program), Store PROVE Steady
<1>1. /\ Running /\ stack # <<>> /\ top.at = "run" /\ UNCHANGED <<program, heap, static>>
  BY DEF Store, Running, At
<1>2. PICK l \in DOMAIN top.refs :
        NoteAndCollect([Operand(Null) EXCEPT !.refs[l] = top.operand], top.refs[l])
  BY DEF Store
<1> DEFINE refs == [top.refs EXCEPT ![l] = top.operand]
           old == top.refs[l]
           e == [Operand(Null) EXCEPT !.refs = refs]
<1>3. /\ top \in Entries /\ Holding(top, top.refs, top.operand) /\ top.operand \in Nodes \cup {Null}
      /\ top.refs \in Seq(Nodes \cup {Null})
  BY <1>1, Frames1, Opened
<1>4. DOMAIN top.refs = 1..Len(top.refs)
  BY <1>3, LenProperties
<1>5. refs \in Seq(Nodes \cup {Null}) /\ old \in Nodes \cup {Null}
      /\ Len(refs) = Len(top.refs)
      /\ \A j \in 1..Len(top.refs) : refs[j] = IF j = l THEN top.operand ELSE top.refs[j]
  BY <1>2, <1>3, <1>4, ExceptSeq, ElementOfSeq
<1>6. DOMAIN refs = DOMAIN top.refs
  BY <1>4, <1>5, LenProperties
<1>7. /\ Range(refs) \subseteq Range(top.refs) \cup {top.operand}
      /\ Range(top.refs) \subseteq Range(refs) \cup {old}
      /\ top.operand \in Range(refs)
  BY <1>2, <1>4, <1>5, <1>6 DEF Range
<1>8. [Operand(Null) EXCEPT !.refs[l] = top.operand] = e
  BY <1>3 DEF Operand, Entries
<1>9. stack' = <<Glue("collect", <<old>>, Null), e>> \o below
      /\ pending' = pending \cup ({old} \ {Null})
  BY <1>2, <1>8 DEF NoteAndCollect
<1> HIDE DEF refs, old
<1>10. Holding(e, refs, Null) /\ Formed(Push(e, below), program)
  BY <1>1, <1>5, Frames1
<1> HIDE DEF e
<1>11. /\ Refd(top) \cup {static} \subseteq Refd(e) \cup {old, static', Null}
       /\ {static} \cup Kept(top) \subseteq Kept(e) \cup {old, static', Null}
  BY <1>1, <1>3, <1>7, <1>10 DEF Holding
<1>12. ASSUME NEW T, {static} \cup MineOf(top) \subseteq T \cup {Null}
       PROVE  {static'} \cup MineOf(e) \subseteq T \cup {Null}
  BY <1>1, <1>3, <1>7, <1>10, <1>12 DEF MineOf, Holding
<1>13. QED
  BY <1>1, <1>5, <1>9, <1>10, <1>11, <1>12, HandedSteady

\* The static field is one of the program's roots: no destructor stores into it.
LEMMA SetStaticSteady == ASSUME Inv, Formed(stack, program), SetStatic PROVE Steady
<1>1. /\ Running /\ stack # <<>> /\ top.at = "run" /\ UNCHANGED <<program, heap>>
      /\ MayStore(top.operand) /\ static' = top.operand /\ NoteAndCollect(Operand(Null), static)
  BY DEF SetStatic, Running, At
<1> DEFINE e == Operand(Null)
<1>2. /\ Holding(top, top.refs, top.operand) /\ Holding(e, top.refs, Null)
      /\ Formed(Push(e, below), program) /\ (NoClass(program) => ~Destructing(stack))
  BY <1>1, Frames1
<1>3. stack' = <<Glue("collect", <<static>>, Null), e>> \o below
      /\ pending' = pending \cup ({static} \ {Null})
  BY <1>1 DEF NoteAndCollect
<1>4. static \in Nodes \cup {Null}
  BY <1>1, Reachable DEF OneOf
<1> HIDE DEF e
<1>5. /\ Refd(top) \cup {static} \subseteq Refd(e) \cup {static, static', Null}
      /\ {static} \cup Kept(top) \subseteq Kept(e) \cup {static, static', Null}
  BY <1>1, <1>2 DEF Holding
<1>6. InDestructor <=> Destructing(stack)
  BY LenProperties DEF InDestructor, Destructing, Inv, Sound
<1>7. ASSUME Quiet, NEW T, {static} \cup MineOf(top) \subseteq T \cup {Null}
      PROVE  {static'} \cup MineOf(e) \subseteq T \cup {Null}
  <2>1. CASE Destructing(stack)
    <3>1. top.operand = Null
      BY <1>1, <1>2, <1>6, <1>7, <2>1 DEF MayStore, Quiet
    <3>2. QED
      BY <1>1, <2>1, <3>1 DEF MineOf
  <2>2. CASE ~Destructing(stack)
    BY <1>1, <1>2, <1>7, <2>2 DEF MineOf, Holding
  <2>3. QED
    BY <2>1, <2>2
<1>8. QED
  BY <1>1, <1>2, <1>3, <1>4, <1>5, <1>7, HandedSteady

LEMMA PopSteady == ASSUME Inv, Formed(stack, program), Pop PROVE Steady
<1> DEFINE o == top.operand
           e == Operand(Null)
<1>1. /\ Running /\ stack # <<>> /\ top.at = "run" /\ UNCHANGED <<program, heap, static>>
      /\ o # Null /\ pending' = pending \cup {o}
      /\ stack' = <<Glue("discard", <<o>>, Null), e>> \o below
  BY DEF Pop, Running, At
<1>2. /\ Holding(top, top.refs, o) /\ Holding(e, top.refs, Null)
      /\ Formed(Push(e, below), program) /\ o \in Nodes \cup {Null}
  BY <1>1, Frames1
<1> HIDE DEF e, o
<1>3. pending' = pending \cup ({o} \ {Null})
  BY <1>1
<1>4. /\ Refd(top) \cup {static} \subseteq Refd(e) \cup {o, static', Null}
      /\ {static} \cup Kept(top) \subseteq Kept(e) \cup {o, static', Null}
  BY <1>1, <1>2 DEF Holding
<1>5. ASSUME NEW T, {static} \cup MineOf(top) \subseteq T \cup {Null}
      PROVE  {static'} \cup MineOf(e) \subseteq T \cup {Null}
  BY <1>1, <1>2, <1>5 DEF MineOf, Holding
<1>6. QED
  BY <1>1, <1>2, <1>3, <1>4, <1>5, HandedSteady

\* The argument goes to the callee, a frame of the same side of any destructor.
LEMMA CallSteady == ASSUME Inv, Formed(stack, program), Call PROVE Steady
<1> DEFINE o == top.operand
           e == Operand(Null)
           f == Frame("call", Receiving(o))
           b == below
           t == top
           p == Push(e, b)
           s == Push(f, p)
<1>1. /\ Running /\ stack # <<>> /\ top.at = "run" /\ UNCHANGED <<program, heap, static, pending>>
      /\ stack' = <<f, e>> \o b
  BY DEF Call, Running, At, gc
<1>2. /\ Holding(t, t.refs, o) /\ Holding(e, t.refs, Null)
      /\ Formed(p, program) /\ o \in Nodes \cup {Null} /\ (NoClass(program) => AllRun(b))
  BY <1>1, Frames1
<1>3. "call" \in FrameKinds /\ Receiving(o) \in Seq(Nodes \cup {Null})
      /\ Range(Receiving(o)) \subseteq {o, Null}
  BY <1>2, Refs DEF FrameKinds
<1>4. IsFrame(f, "call", Receiving(o))
  BY <1>3, FrameParts
<1>5. o \in Range(Receiving(o))
  <2>1. 1 \in 1..Locals
    BY Numbers
  <2>2. QED
    BY <2>1 DEF Receiving, NoLocals, Range
<1>6. Range(Receiving(o)) \cup {Null} = {o, Null}
  BY <1>3, <1>5
<1> HIDE DEF f
<1>7. /\ b \in Seq(Entries)
      /\ HeldOn(stack) = Refd(t) \cup HeldOn(b)
      /\ KeptOn(stack) = Kept(t) \cup KeptOn(b)
      /\ GarbageOn(stack) = t.garbage \cup GarbageOn(b)
      /\ Destructing(stack) <=> (t.who = "destruct" \/ Destructing(b))
      /\ MineOn(stack) = MineOn(b) \cup
              (IF t.who = "destruct" \/ Destructing(b) THEN {} ELSE Rooted(t))
      /\ Passes(stack) <=> (PassOf(t) /\ Passes(b))
  BY <1>1, Opened
<1>8. /\ e.who = t.who /\ e \in Entries /\ e.at = "run" /\ e.operand = Null /\ PassOf(e)
      /\ e.garbage = {} /\ Refd(e) = Range(t.refs) \cup {Null} /\ Kept(e) = Range(t.refs)
      /\ Rooted(e) = Range(t.refs) \cup {Null} /\ Rooted(t) = Range(t.refs) \cup {o}
      /\ Refd(t) = Range(t.refs) \cup {o} /\ Kept(t) = Range(t.refs) /\ t.garbage = {}
  BY <1>2 DEF Holding
<1>9. /\ f \in Entries /\ Clean(f) /\ PassOf(f) /\ f.who = "call" /\ f.at = "run" /\ f.lock = Null
      /\ f.garbage = {} /\ Refd(f) = {o, Null} /\ Rooted(f) = {o, Null}
      /\ {o} \subseteq Kept(f) \cup {Null}
  BY <1>4, <1>5, <1>6 DEF IsFrame
<1> HIDE DEF e, o, b, t
<1>10. /\ p \in Seq(Entries) /\ p # <<>> /\ p[1] = e
       /\ HeldOn(p) = Refd(e) \cup HeldOn(b)
       /\ KeptOn(p) = Kept(e) \cup KeptOn(b)
       /\ GarbageOn(p) = e.garbage \cup GarbageOn(b)
       /\ MineOn(p) = MineOn(b) \cup
              (IF e.who = "destruct" \/ Destructing(b) THEN {} ELSE Rooted(e))
       /\ Passes(p) <=> (PassOf(e) /\ Passes(b))
       /\ AllRun(p) <=> (e.at = "run" /\ AllRun(b))
       /\ Destructing(p) <=> (e.who = "destruct" \/ Destructing(b))
  BY <1>7, <1>8, Pushing
<1> HIDE DEF p
<1>11. Fits(f, p, program)
  BY <1>2, <1>8, <1>9, <1>10 DEF Fits, OnTop, Outermost
<1>12. /\ Formed(s, program)
       /\ HeldOn(s) = Refd(f) \cup HeldOn(p)
       /\ KeptOn(s) = Kept(f) \cup KeptOn(p)
       /\ GarbageOn(s) = f.garbage \cup GarbageOn(p)
       /\ MineOn(s) = MineOn(p) \cup
              (IF f.who = "destruct" \/ Destructing(p) THEN {} ELSE Rooted(f))
       /\ Passes(s) <=> (PassOf(f) /\ Passes(p))
  BY <1>2, <1>9, <1>10, <1>11, Forms, Parts, PartsMine
<1>13. stack' = s
  <2>1. <<f, e>> \o b = <<f>> \o (<<e>> \o b)
    BY <1>7, <1>8, <1>9, Two
  <2>2. QED
    BY <1>1, <2>1 DEF s, p, Push
<1> HIDE DEF s
<1>14. MineOn(stack') \subseteq MineOn(stack) \cup {Null}
  BY <1>7, <1>8, <1>9, <1>10, <1>12, <1>13
<1>15. GarbageOn(stack') \subseteq GarbageOn(stack) /\ (Passes(stack) => Passes(stack'))
  BY <1>7, <1>8, <1>9, <1>10, <1>12, <1>13
<1>16. {static} \cup HeldOn(stack) \subseteq {static'} \cup HeldOn(stack') \cup {Null}
  BY <1>1, <1>7, <1>8, <1>9, <1>10, <1>12, <1>13
<1>17. Anchors \subseteq {static'} \cup pending' \cup KeptOn(stack') \cup {Null}
  BY <1>1, <1>7, <1>8, <1>9, <1>10, <1>12, <1>13 DEF Anchors
<1>18. QED
  BY <1>1, <1>12, <1>13, <1>14, <1>15, <1>16, <1>17 DEF Steady

LEMMA LeaveSteady == ASSUME Inv, Formed(stack, program), Leave PROVE Steady
<1>1. /\ Running /\ stack # <<>> /\ top.at = "run" /\ UNCHANGED <<program, heap, static>>
      /\ pending' = pending \cup (Range(top.refs) \ {Null})
  BY DEF Leave, Running, At
<1>2. PICK thrown \in BOOLEAN :
        /\ top.operand # Null => thrown \/ top.who = "call"
        /\ stack' = <<[top EXCEPT !.at = "collect", !.thrown = thrown]>> \o below
  BY DEF Leave, Become
<1> DEFINE e == [top EXCEPT !.at = "collect", !.thrown = thrown]
<1>3. top \in Entries /\ Clean(top) /\ Holding(top, top.refs, top.operand) /\ top.who \in FrameKinds
  BY <1>1, Opened, Frames1
<1>4. /\ e \in Entries /\ e.who = top.who /\ e.at = "collect" /\ e.refs = top.refs
      /\ e.operand = top.operand /\ e.lock = top.lock /\ e.garbage = top.garbage
      /\ e.survivors = top.survivors /\ e.thrown = thrown
  BY <1>3 DEF Entries
<1>5. stack' = <<e>> \o below
  BY <1>2
<1> HIDE DEF e
<1>6. Clean(e) /\ PassOf(e)
  BY <1>1, <1>2, <1>3, <1>4 DEF Clean, PassOf, FrameKinds
<1>7. /\ Refd(top) \cup {static} \subseteq Refd(e) \cup {static', Null}
      /\ {static} \cup pending \cup Kept(top) \subseteq Kept(e) \cup {static', Null} \cup pending'
      /\ Rooted(e) \subseteq Rooted(top)
  BY <1>1, <1>3, <1>4 DEF Refd, Kept, Rooted, Holding
<1>8. \A T : {static} \cup MineOf(top) \subseteq T \cup {Null}
               => {static'} \cup MineOf(e) \subseteq T \cup {Null}
  BY <1>1, <1>7 DEF MineOf
<1>9. e.garbage \subseteq top.garbage /\ (top.at # "drop" \/ e.at = "drop") /\ e.lock \in {top.lock, Null}
  BY <1>1, <1>4
<1>10. QED
  BY <1>1, <1>4, <1>5, <1>6, <1>7, <1>8, <1>9, SteadyTop

\* A thread starts or ends, or the program is over (Thread, Over).
LEMMA IdleSteady ==
  ASSUME Formed(stack, program), Thread \/ Over \/ UNCHANGED vars
  PROVE  Steady
<1>1. UNCHANGED <<program, heap, static, pending, stack>>
  BY DEF Thread, Over, vars, gc
<1>2. QED
  BY <1>1, StillSteady

-----------------------------------------------------------------------------
(* Where a reference is held.                                              *)

\* A stack holds n when one of its entries refers to it.
LEMMA Holder ==
  ASSUME NEW st \in Seq(Entries), NEW n
  PROVE  n \in HeldOn(st) <=> ~NoneRefers(st, n)
BY DEF HeldOn, Refd, NoneRefers, Refers

\* Arc::strong_count is not one: something else refers to the node.
LEMMA AnotherReference ==
  ASSUME HeapOK, Sound(stack, live), NEW n \in live, StrongCount(n) # 1,
         NEW i \in 1..Len(stack), NEW k \in HeldAt(stack[i], n)
  PROVE  \/ static = n
         \/ \E m \in live : n \in Range(field[m])
         \/ \E j \in 1..Len(stack) : \E l \in HeldAt(stack[j], n) : j # i \/ l # k
<1>1. DOMAIN stack = 1..Len(stack)
  BY LenProperties DEF Sound
<1>2. CASE Edges(n) # {}
  <2>1. PICK m \in live, s \in Slots : Fields(m)[s] = n
    BY <1>2 DEF Edges
  <2>2. n # Null
    BY Numbers DEF HeapOK
  <2>3. s \in DOMAIN field[m] /\ field[m][s] = n
    BY <2>1, <2>2 DEF Fields
  <2>4. n \in Range(field[m])
    BY <2>3 DEF Range
  <2>5. QED
    BY <2>1, <2>4
<1>3. CASE /\ Edges(n) = {} /\ static # n
           /\ \A j \in 1..Len(stack) : \A l \in HeldAt(stack[j], n) : j = i /\ l = k
  <2>1. OnStack(n) = {<<i, k>>}
    <3>1. \A p \in OnStack(n) : p = <<i, k>>
      BY <1>1, <1>3 DEF OnStack
    <3>2. <<i, k>> \in OnStack(n)
      BY <1>1 DEF OnStack
    <3>3. QED
      BY <3>1, <3>2
  <2>2. Cardinality(OnStack(n)) = 1
    BY <2>1, FS_Singleton
  <2>3. Cardinality(Edges(n)) = 0
    BY <1>3, FS_EmptySet
  <2>4. QED
    BY <1>3, <2>2, <2>3 DEF StrongCount
<1>4. QED
  BY <1>2, <1>3

\* LetGo drops a reference to n that the innermost entry held, and leaves rest.
Freed(n, rest) ==
  /\ n \in live /\ Sound(rest, live) /\ Formed(rest, program) /\ LetGo(n, rest)
  /\ HeldOn(stack) \subseteq HeldOn(rest) \cup {n, Null}
  /\ KeptOn(stack) \subseteq KeptOn(rest) \cup (IF top.at = "free" THEN {n} ELSE {})
  /\ MineOn(rest) \cup {Null} = MineOn(stack) \cup {Null}
  /\ GarbageOn(rest) \subseteq GarbageOn(stack)
  /\ Passes(stack) => Passes(rest)
  /\ program.boot = "main" => rest # <<>>
  /\ stack # <<>> /\ (top.at = "free" => n \in top.garbage)
  /\ StrongCount(n) = 1 => /\ n \notin HeldOn(rest) /\ NoneRefers(rest, n)
                           /\ n \notin MineOn(stack) /\ static # n
                           /\ \A m \in Nodes : n \notin Range(field[m])
  /\ StrongCount(n) # 1 => \/ static = n \/ n \in HeldOn(rest)
                           \/ \E m \in live : n \in Range(field[m])

\* The innermost entry gives up one of the places that hold n.
LEMMA GivesUp ==
  ASSUME Inv, Formed(stack, program), stack # <<>>, NEW n \in live, NEW k \in HeldAt(top, n),
         NEW e \in Entries, HeldAt(e, n) = HeldAt(top, n) \ {k}
  PROVE  /\ StrongCount(n) = 1 => /\ NoneRefers(Push(e, below), n) /\ NoneRefers(below, n)
                                  /\ \A m \in Nodes : n \notin Range(field[m])
                                  /\ static # n
                                  /\ \A l \in HeldAt(top, n) : l = k
         /\ StrongCount(n) # 1 => \/ static = n \/ n \in HeldOn(Push(e, below))
                                  \/ \E m \in live : n \in Range(field[m])
<1> DEFINE t == top
           b == below
           p == Push(e, b)
<1>1. HeapOK /\ Sound(stack, live) /\ stack \in Seq(Entries)
  BY DEF Inv, Sound
<1>2. /\ t = stack[1] /\ 1 \in 1..Len(stack) /\ t \in Entries /\ b \in Seq(Entries)
      /\ stack = Push(t, b)
  BY <1>1, Innermost, Opened
<1>3. ASSUME StrongCount(n) = 1
      PROVE  /\ NoneRefers(p, n) /\ NoneRefers(b, n)
             /\ \A m \in Nodes : n \notin Range(field[m])
             /\ static # n
             /\ \A l \in HeldAt(t, n) : l = k
  <2>1. /\ NoneRefers(b, n)
        /\ \A m \in Nodes : n \notin Range(field[m])
        /\ static # n
        /\ \A l \in HeldAt(t, n) : l = k
    BY <1>3, LastIsInnermost
  <2>2. HeldAt(e, n) = {}
    BY <2>1
  <2>3. ~Refers(e, n)
    BY <2>2, Places
  <2> HIDE DEF b
  <2>4. NoneRefers(<<e>> \o b, n)
    BY <1>2, <2>1, <2>3, NonePushed
  <2>5. QED
    BY <2>1, <2>4 DEF Push
<1>4. ASSUME StrongCount(n) # 1
      PROVE  \/ static = n \/ n \in HeldOn(p)
             \/ \E m \in live : n \in Range(field[m])
  <2>1. k \in HeldAt(stack[1], n)
    BY <1>2
  <2>2. \/ static = n
        \/ \E m \in live : n \in Range(field[m])
        \/ \E j \in 1..Len(stack) : \E l \in HeldAt(stack[j], n) : j # 1 \/ l # k
    BY <1>1, <1>2, <1>4, <2>1, AnotherReference
  <2>3. HeldOn(p) = Refd(e) \cup HeldOn(b)
    BY <1>2, Parts
  <2>4. ASSUME NEW j \in 1..Len(stack), NEW l \in HeldAt(stack[j], n), j # 1 \/ l # k
        PROVE  n \in HeldOn(p)
    <3>1. CASE j = 1
      <4>1. l \in HeldAt(e, n)
        BY <1>2, <2>4, <3>1
      <4>2. Refers(e, n)
        BY <4>1, Places
      <4>3. QED
        BY <2>3, <4>2 DEF Refers, Refd
    <3>2. CASE j # 1
      <4> HIDE DEF t, b
      <4>1. j - 1 \in 1..Len(b) /\ stack[j] = b[j - 1]
        <5> DEFINE q == Push(t, b)
        <5>1. \A i \in 1..Len(q) : i = 1 \/ (i - 1 \in 1..Len(b) /\ q[i] = b[i - 1])
          <6>1. t \in Entries /\ b \in Seq(Entries)
            BY <1>2
          <6>2. QED
            BY <6>1, PushSeq
        <5>2. stack = q
          BY <1>2
        <5> HIDE DEF q
        <5>3. QED
          BY <3>2, <5>1, <5>2
      <4>2. b[j - 1] \in Entries
        BY <1>2, <4>1, ElementOfSeq
      <4>3. Refers(b[j - 1], n)
        BY <2>4, <4>1, <4>2, Places
      <4>4. n \in HeldOn(b)
        BY <4>1, <4>3 DEF HeldOn, Refd, Refers
      <4>5. QED
        BY <2>3, <4>4
    <3>3. QED
      BY <3>1, <3>2
  <2>5. QED
    BY <2>2, <2>4
<1>5. QED
  BY <1>3, <1>4

\* Release
LEMMA ReleaseFreed ==
  ASSUME Inv, Formed(stack, program), Release
  PROVE  \E n, rest : Freed(n, rest) /\ UNCHANGED <<program, static, deferred, threads>>
<1>1. /\ stack # <<>> /\ UNCHANGED <<program, static, deferred, threads>>
      /\ top.at \in {"drop", "collect", "discard"}
  BY DEF Release, At
<1>2. /\ Whole(top, live) /\ top \in Entries /\ below \in Seq(Entries) /\ Sound(below, live)
      /\ Rests(top, below) /\ Clean(top) /\ Fits(top, below, program) /\ Formed(below, program)
      /\ top = stack[1] /\ Sound(stack, live)
  BY <1>1, Opened DEF top, Inv
<1>3. top.refs \in Seq(Nodes \cup {Null}) /\ DOMAIN top.refs = 1..Len(top.refs)
  BY <1>2, LenProperties DEF Entries
<1>4. PICK i \in DOMAIN top.refs :
        LET rest == [top EXCEPT !.refs[i] = Null] IN
        /\ top.refs[i] # Null
        /\ LetGo(top.refs[i],
                 IF top.at = "drop" /\ top.lock = Null /\ Empty(rest.refs) THEN below
                 ELSE <<rest>> \o below)
  BY DEF Release
<1> DEFINE n == top.refs[i]
           e == [top EXCEPT !.refs[i] = Null]
           p == Push(e, below)
           after == IF top.at = "drop" /\ top.lock = Null /\ Empty(e.refs) THEN below ELSE p
<1>5. n \in live /\ n # Null /\ live \subseteq Nodes
  BY <1>2, <1>4 DEF Whole, Mentions, Range, Inv, HeapOK
<1>6. /\ e.refs \in Seq(Nodes \cup {Null}) /\ Len(e.refs) = Len(top.refs)
      /\ \A j \in 1..Len(top.refs) : e.refs[j] = IF j = i THEN Null ELSE top.refs[j]
      /\ e.who = top.who /\ e.lock = top.lock /\ e.operand = top.operand
      /\ e.garbage = top.garbage /\ e.survivors = top.survivors /\ e.thrown = top.thrown
      /\ e.todo = top.todo /\ e.at = top.at /\ e \in Entries
  <2>1. e = [top EXCEPT !.refs = [top.refs EXCEPT ![i] = Null]]
    BY <1>2 DEF Entries
  <2> DEFINE refs == [top.refs EXCEPT ![i] = Null]
  <2>2. /\ refs \in Seq(Nodes \cup {Null}) /\ Len(refs) = Len(top.refs)
        /\ \A j \in 1..Len(top.refs) : refs[j] = IF j = i THEN Null ELSE top.refs[j]
    BY <1>3, ExceptSeq
  <2> HIDE DEF refs
  <2>3. QED
    BY <1>2, <2>1, <2>2 DEF Entries, refs
<1>7. LetGo(n, after)
  BY <1>4 DEF Push
<1> HIDE DEF e
<1>8. /\ Range(e.refs) \subseteq Range(top.refs) \cup {Null}
      /\ Range(top.refs) \subseteq Range(e.refs) \cup {n}
  BY <1>3, <1>6, LenProperties DEF Range
<1>9. i \in HeldAt(top, n) /\ i > 0
  BY <1>3, <1>4 DEF HeldAt
<1>10. HeldAt(e, n) = HeldAt(top, n) \ {i}
  <2>1. \A l \in -1..Len(top.refs) : l \in HeldAt(e, n) <=> l \in HeldAt(top, n) \ {i}
    <3> SUFFICES ASSUME NEW l \in -1..Len(top.refs)
                 PROVE  l \in HeldAt(e, n) <=> l \in HeldAt(top, n) \ {i}
      OBVIOUS
    <3> HIDE DEF n
    <3>1. CASE l > 0
      <4>1. l \in 1..Len(top.refs)
        BY <1>3, <3>1
      <4>2. e.refs[l] = n <=> (l # i /\ top.refs[l] = n)
        BY <1>5, <1>6, <4>1
      <4>3. QED
        BY <1>3, <1>6, <3>1, <4>2 DEF HeldAt
    <3>2. CASE ~(l > 0)
      BY <1>6, <1>9, <3>2 DEF HeldAt
    <3>3. QED
      BY <3>1, <3>2
  <2>2. HeldAt(e, n) \subseteq -1..Len(top.refs) /\ HeldAt(top, n) \subseteq -1..Len(top.refs)
    BY <1>6 DEF HeldAt
  <2>3. QED
    BY <2>1, <2>2
<1> HIDE DEF n
<1>11. Clean(e) /\ (PassOf(top) => PassOf(e)) /\ Whole(e, live)
  <2>1. Clean(e)
    BY <1>1, <1>2, <1>6 DEF Clean
  <2>2. PassOf(e)
    BY <1>1, <1>6 DEF PassOf
  <2>3. Whole(e, live)
    BY <1>2, <1>6, <1>8 DEF Whole, Mentions
  <2>4. QED
    BY <2>1, <2>2, <2>3
<1>12. Formed(p, program)
  BY <1>1, <1>6, <1>11, FitsToo
<1>13. Sound(p, live)
  <2>1. Sound(<<e>> \o Tail(stack), live)
    BY <1>1, <1>2, <1>6, <1>11, Replaced
  <2>2. QED
    BY <2>1 DEF Push, below
<1>14. /\ StrongCount(n) = 1 => /\ NoneRefers(p, n) /\ NoneRefers(below, n)
                                /\ \A m \in Nodes : n \notin Range(field[m])
                                /\ static # n
                                /\ \A l \in HeldAt(top, n) : l = i
       /\ StrongCount(n) # 1 => \/ static = n \/ n \in HeldOn(p)
                                \/ \E m \in live : n \in Range(field[m])
  BY <1>1, <1>5, <1>6, <1>9, <1>10, GivesUp
<1> DEFINE t == top
           b == below
<1>15. /\ HeldOn(stack) = Refd(t) \cup HeldOn(b)
       /\ KeptOn(stack) = Kept(t) \cup KeptOn(b)
       /\ GarbageOn(stack) = t.garbage \cup GarbageOn(b)
       /\ MineOn(stack) = MineOn(b) \cup
              (IF t.who = "destruct" \/ Destructing(b) THEN {} ELSE Rooted(t))
       /\ Passes(stack) <=> (PassOf(t) /\ Passes(b))
       /\ t.lock # Null => b # <<>>
  BY <1>1, Opened DEF Rests
<1>16. /\ t.garbage = {} /\ t.survivors = {} /\ Kept(t) = {} /\ Rooted(t) = {t.operand}
       /\ Refd(t) = Range(t.refs) \cup {t.operand}
  BY <1>1, <1>2 DEF Clean, Kept, Rooted, Refd
<1>17. /\ Kept(e) = {} /\ Rooted(e) = {t.operand} /\ Refd(e) = Range(e.refs) \cup {t.operand}
  BY <1>1, <1>6, <1>16 DEF Kept, Rooted, Refd
<1>18. program.boot = "main" => (t.at = "drop" => b # <<>>)
  BY <1>2, Glued DEF Fits, Outermost
<1>19. t.at = "drop" => t.operand = Null
  BY <1>2, Glued
<1>20. n \notin {t.operand} \/ StrongCount(n) # 1
  <2>1. ASSUME t.operand = n, StrongCount(n) = 1 PROVE FALSE
    <3>1. Len(top.refs) \in Nat
      BY <1>3, LenProperties
    <3>2. 0 \in HeldAt(top, n)
      BY <2>1, <3>1 DEF HeldAt
    <3>3. QED
      BY <1>9, <1>14, <2>1, <3>2
  <2>2. QED
    BY <2>1
<1>21. MineOn(b) \subseteq HeldOn(b)
  BY DEF MineOn, HeldOn, Rooted, Refd, Mine
<1>22. b \in Seq(Entries) /\ Sound(b, live) /\ Formed(b, program) /\ e.who = t.who
       /\ e.garbage = t.garbage /\ e.operand = t.operand /\ (PassOf(t) => PassOf(e)) /\ e \in Entries
       /\ Range(e.refs) \subseteq Range(t.refs) \cup {Null}
       /\ Range(t.refs) \subseteq Range(e.refs) \cup {n}
       /\ t.at \in {"drop", "collect", "discard"}
  BY <1>1, <1>2, <1>6, <1>8, <1>11
<1>23. StrongCount(n) = 1 => n \notin HeldOn(b) /\ n \notin HeldOn(p)
  <2>1. p \in Seq(Entries)
    BY <1>22, PushSeq
  <2>2. QED
    BY <1>14, <1>22, <2>1, Holder
<1>24. CASE after = p
  <2>1. /\ HeldOn(p) = Refd(e) \cup HeldOn(b)
        /\ KeptOn(p) = Kept(e) \cup KeptOn(b)
        /\ GarbageOn(p) = e.garbage \cup GarbageOn(b)
        /\ MineOn(p) = MineOn(b) \cup
              (IF e.who = "destruct" \/ Destructing(b) THEN {} ELSE Rooted(e))
        /\ Passes(p) <=> (PassOf(e) /\ Passes(b))
        /\ p # <<>>
    <3>1. e \in Entries /\ below \in Seq(Entries)
      BY <1>22
    <3>2. QED
      BY <3>1, Pushing
  <2> HIDE DEF p, b, t
  <2>2. /\ HeldOn(stack) \subseteq HeldOn(p) \cup {n, Null} /\ KeptOn(stack) \subseteq KeptOn(p)
        /\ MineOn(p) = MineOn(stack) /\ GarbageOn(p) \subseteq GarbageOn(stack)
        /\ (Passes(stack) => Passes(p))
    BY <1>15, <1>16, <1>17, <1>22, <2>1
  <2>3. StrongCount(n) = 1 => n \notin MineOn(stack)
    BY <1>15, <1>16, <1>20, <1>21, <1>23
  <2>4. top.at # "free" /\ stack # <<>>
    BY <1>1
  <2>5. Freed(n, p)
    BY <1>5, <1>7, <1>12, <1>13, <1>14, <1>23, <1>24, <2>1, <2>2, <2>3, <2>4 DEF Freed
  <2>6. QED
    BY <1>1, <2>5
<1>25. CASE after # p
  <2>1. after = b /\ t.at = "drop" /\ t.lock = Null /\ Empty(e.refs)
    BY <1>25
  <2>2. Range(e.refs) \subseteq {Null}
    BY <2>1 DEF Empty
  <2>3. Refd(t) \subseteq {n, Null} /\ Rooted(t) = {Null} /\ Refd(e) \subseteq {Null}
    BY <1>16, <1>17, <1>19, <1>22, <2>1, <2>2
  <2>4. HeldOn(p) = Refd(e) \cup HeldOn(b)
    BY <1>22, Parts
  <2>5. n \in HeldOn(p) => n \in HeldOn(b)
    BY <1>5, <2>3, <2>4
  <2> HIDE DEF p, b, t
  <2>6. /\ HeldOn(stack) \subseteq HeldOn(b) \cup {n, Null} /\ KeptOn(stack) \subseteq KeptOn(b)
        /\ MineOn(b) \cup {Null} = MineOn(stack) \cup {Null} /\ GarbageOn(b) \subseteq GarbageOn(stack)
        /\ (Passes(stack) => Passes(b))
    BY <1>15, <1>16, <2>3
  <2>7. StrongCount(n) = 1 => n \notin MineOn(stack)
    BY <1>5, <1>15, <1>21, <1>23, <2>3
  <2>8. top.at # "free" /\ stack # <<>> /\ NoneRefers(b, n) = NoneRefers(below, n)
    BY <1>1 DEF b
  <2>9. LetGo(n, b)
    BY <1>7, <2>1
  <2>10. Freed(n, b)
    BY <1>5, <1>14, <1>18, <1>22, <1>23, <2>1, <2>5, <2>6, <2>7, <2>8, <2>9 DEF Freed
  <2>11. QED
    BY <1>1, <2>10
<1>26. QED
  BY <1>24, <1>25

\* Free
LEMMA FreeFreed ==
  ASSUME Inv, Formed(stack, program), Free
  PROVE  \E n, rest : Freed(n, rest) /\ UNCHANGED <<program, static, deferred, threads>>
<1>1. stack # <<>> /\ top.at = "free" /\ UNCHANGED <<program, static, deferred, threads>>
  BY DEF Free, At
<1>2. /\ Whole(top, live) /\ top \in Entries /\ below \in Seq(Entries) /\ Sound(below, live)
      /\ Rests(top, below) /\ Clean(top) /\ Fits(top, below, program) /\ Formed(below, program)
      /\ top = stack[1] /\ Sound(stack, live)
  BY <1>1, Opened DEF top, Inv
<1>3. PICK n \in top.garbage : LetGo(n, <<[top EXCEPT !.garbage = top.garbage \ {n}]>> \o below)
  BY DEF Free
<1> DEFINE e == [top EXCEPT !.garbage = top.garbage \ {n}]
           p == Push(e, below)
<1>4. n \in live /\ n # Null /\ live \subseteq Nodes
  <2>1. n \in Nodes /\ n \in live \cup {Null} /\ live \subseteq Nodes
    BY <1>2, <1>3 DEF Whole, Mentions, Entries, Inv, HeapOK
  <2>2. QED
    BY <2>1, Numbers
<1>5. /\ e \in Entries /\ e.refs = top.refs /\ e.garbage = top.garbage \ {n}
      /\ e.who = top.who /\ e.lock = top.lock /\ e.operand = top.operand /\ e.thrown = top.thrown
      /\ e.survivors = top.survivors /\ e.todo = top.todo /\ e.at = top.at
  BY <1>2 DEF Entries
<1>6. LetGo(n, p)
  BY <1>3 DEF Push
<1> HIDE DEF e
<1>7. Len(top.refs) \in Nat
  BY <1>2, LenProperties DEF Entries
<1>8. -1 \in HeldAt(top, n)
  BY <1>3, <1>7 DEF HeldAt
<1>9. HeldAt(e, n) = HeldAt(top, n) \ {-1}
  BY <1>5, <1>7 DEF HeldAt
<1>10. Clean(e) /\ (PassOf(top) => PassOf(e)) /\ Whole(e, live)
  <2>1. Clean(e)
    BY <1>1, <1>2, <1>5 DEF Clean
  <2>2. PassOf(top) => PassOf(e)
    BY <1>1, <1>5 DEF PassOf
  <2>3. top.todo = {} /\ Whole(e, live)
    BY <1>1, <1>2, <1>5 DEF Whole, Mentions
  <2>4. QED
    BY <2>1, <2>2, <2>3
<1>11. Formed(p, program)
  BY <1>1, <1>5, <1>10, FitsToo
<1>12. Sound(p, live)
  <2>1. Sound(<<e>> \o Tail(stack), live)
    BY <1>1, <1>2, <1>5, <1>10, Replaced
  <2>2. QED
    BY <2>1 DEF Push, below
<1>13. /\ StrongCount(n) = 1 => /\ NoneRefers(p, n) /\ NoneRefers(below, n)
                                /\ \A m \in Nodes : n \notin Range(field[m])
                                /\ static # n
                                /\ \A l \in HeldAt(top, n) : l = -1
       /\ StrongCount(n) # 1 => \/ static = n \/ n \in HeldOn(p)
                                \/ \E m \in live : n \in Range(field[m])
  BY <1>1, <1>4, <1>5, <1>8, <1>9, GivesUp
<1> DEFINE t == top
           b == below
<1>14. /\ HeldOn(stack) = Refd(t) \cup HeldOn(b)
       /\ KeptOn(stack) = Kept(t) \cup KeptOn(b)
       /\ GarbageOn(stack) = t.garbage \cup GarbageOn(b)
       /\ MineOn(stack) = MineOn(b) \cup
              (IF t.who = "destruct" \/ Destructing(b) THEN {} ELSE Rooted(t))
       /\ Passes(stack) <=> (PassOf(t) /\ Passes(b))
  BY <1>1, Opened
<1>15. b \in Seq(Entries) /\ e \in Entries /\ e.garbage = t.garbage \ {n} /\ e.who = t.who
       /\ (PassOf(t) => PassOf(e)) /\ n \in t.garbage
  BY <1>2, <1>3, <1>5, <1>10
<1>16. /\ Refd(t) \subseteq Refd(e) \cup {n} /\ Kept(t) \subseteq Kept(e) \cup {n}
       /\ Rooted(e) = Rooted(t) /\ Rooted(t) = {t.operand}
  BY <1>1, <1>5 DEF Refd, Kept, Rooted
<1>17. /\ HeldOn(p) = Refd(e) \cup HeldOn(b)
       /\ KeptOn(p) = Kept(e) \cup KeptOn(b)
       /\ GarbageOn(p) = e.garbage \cup GarbageOn(b)
       /\ MineOn(p) = MineOn(b) \cup
              (IF e.who = "destruct" \/ Destructing(b) THEN {} ELSE Rooted(e))
       /\ Passes(p) <=> (PassOf(e) /\ Passes(b))
       /\ p # <<>> /\ p \in Seq(Entries)
  BY <1>15, Pushing
<1>18. StrongCount(n) = 1 => n \notin HeldOn(p)
  BY <1>13, <1>17, Holder
<1>19. MineOn(p) \subseteq HeldOn(p)
  BY DEF MineOn, HeldOn, Rooted, Refd, Mine
<1> HIDE DEF p, b, t
<1>20. /\ HeldOn(stack) \subseteq HeldOn(p) \cup {n, Null} /\ KeptOn(stack) \subseteq KeptOn(p) \cup {n}
       /\ MineOn(p) = MineOn(stack) /\ GarbageOn(p) \subseteq GarbageOn(stack)
       /\ (Passes(stack) => Passes(p))
  BY <1>14, <1>15, <1>16, <1>17
<1>21. StrongCount(n) = 1 => n \notin MineOn(stack)
  BY <1>18, <1>19, <1>20
<1>22. Freed(n, p)
  BY <1>1, <1>3, <1>4, <1>6, <1>11, <1>12, <1>13, <1>17, <1>18, <1>20, <1>21 DEF Freed
<1>23. QED
  BY <1>1, <1>22

-----------------------------------------------------------------------------
(* Steps that touch the heap.                                              *)

\* What is allocated is what the program allocates.
Kinds == \A n \in live : Kind(n) \in program.kinds

\* The copy on which the destructor of n runs, on a stack that forgets or keeps n.
LEMMA CopyAtop ==
  ASSUME NEW n \in Nodes, NEW st \in Seq(Entries)
  PROVE  LET s == Push(OnCopy(n), st) IN
         /\ OnCopy(n) \in Entries /\ s \in Seq(Entries)
         /\ CopyOf(n) \in HeldOn(s) /\ CopyOf(n) \in KeptOn(s)
         /\ HeldOn(s) \subseteq HeldOn(st) \cup {CopyOf(n), Null}
         /\ Atop(s, st, {CopyOf(n)}) /\ MineOn(s) = MineOn(st)
         /\ \A p : /\ Formed(st, p) /\ ~NoClass(p)
                   /\ p.boot = "main" => st # <<>>
                   => Formed(s, p)
<1> DEFINE c == CopyOf(n)
           f == OnCopy(n)
           s == Push(f, st)
<1>1. c \in Nodes \cup {Null}
  BY Numbers
<1>2. "destruct" \in FrameKinds /\ Receiving(c) \in Seq(Nodes \cup {Null})
      /\ Range(Receiving(c)) \subseteq {c, Null}
  BY <1>1, Refs DEF FrameKinds
<1>3. IsFrame(f, "destruct", Receiving(c))
  BY <1>2, FrameParts DEF OnCopy
<1>4. c \in Range(Receiving(c))
  <2>1. 1 \in 1..Locals
    BY Numbers
  <2>2. QED
    BY <2>1 DEF Receiving, NoLocals, Range
<1> HIDE DEF f, c
<1>5. /\ f \in Entries /\ Clean(f) /\ PassOf(f) /\ f.who = "destruct" /\ f.at = "run"
      /\ f.lock = Null /\ f.garbage = {} /\ c \in Refd(f) /\ c \in Kept(f)
      /\ Refd(f) \subseteq {c, Null}
  BY <1>2, <1>3, <1>4 DEF IsFrame
<1>5a. f \in Entries
  BY <1>5
<1>6. /\ s \in Seq(Entries)
      /\ HeldOn(s) = Refd(f) \cup HeldOn(st)
      /\ KeptOn(s) = Kept(f) \cup KeptOn(st)
      /\ GarbageOn(s) = f.garbage \cup GarbageOn(st)
      /\ Passes(s) <=> (PassOf(f) /\ Passes(st))
      /\ In(s) = {f} \cup In(st)
      /\ MineOn(s) = MineOn(st) \cup
              (IF f.who = "destruct" \/ Destructing(st) THEN {} ELSE Rooted(f))
  BY <1>5a, Pushing
<1>7. ASSUME NEW p, Formed(st, p), ~NoClass(p), p.boot = "main" => st # <<>>
      PROVE  Formed(s, p)
  <2>1. Fits(f, st, p)
    BY <1>5, <1>7 DEF Fits, OnTop, Outermost
  <2>2. QED
    BY <1>5, <1>7, <2>1, Forms
<1> HIDE DEF s
<1>8. Atop(s, st, {c})
  BY <1>5, <1>6 DEF Atop
<1>9. /\ c \in HeldOn(s) /\ c \in KeptOn(s) /\ HeldOn(s) \subseteq HeldOn(st) \cup {c, Null}
      /\ MineOn(s) = MineOn(st)
  BY <1>5, <1>6
<1>10. QED
  BY <1>5, <1>6, <1>7, <1>8, <1>9 DEF s, f, c

\* The stack after the last reference to n has gone (Object::drop).
Departed(n, rest) ==
  /\ Die(n, rest)
  /\ Formed(stack', program)
  /\ HeldOn(rest) \subseteq HeldOn(stack') \cup {Null}
  /\ KeptOn(rest) \subseteq KeptOn(stack') \cup {n}
  /\ MineOn(stack') \subseteq MineOn(rest) \cup {Null}
  /\ GarbageOn(stack') = GarbageOn(rest)
  /\ Passes(rest) => Passes(stack')
  /\ RunsDestructor(n) => CopyOf(n) \in HeldOn(stack') /\ CopyOf(n) \in KeptOn(stack')
  /\ ~RunsDestructor(n) => Range(field[n]) \subseteq HeldOn(stack') \cup {Null}

\* What a node refers to is what its fields hold.
LEMMA FieldsHold ==
  ASSUME HeapOK, NEW n \in Nodes
  PROVE  /\ Fields(n) \in Seq(Nodes \cup {Null})
         /\ Range(field[n]) \subseteq Range(Fields(n)) /\ Range(Fields(n)) \subseteq Range(field[n]) \cup {Null}
<1>1. Range(field[n]) \subseteq Range(field[n]) \cup {Null}
  OBVIOUS
<1>2. Within(Fields(n), Range(field[n]))
  BY <1>1, FieldsWithin
<1>3. field[n] \in Contents
  BY DEF HeapOK
<1>4. DOMAIN field[n] \subseteq Slots
  BY <1>3 DEF Contents
<1>5. \A s \in DOMAIN field[n] : field[n][s] = Fields(n)[s] /\ s \in DOMAIN Fields(n)
  BY <1>4 DEF Fields
<1>6. Range(field[n]) \subseteq Range(Fields(n))
  BY <1>5 DEF Range
<1>7. QED
  BY <1>2, <1>6 DEF Within

LEMMA DieDeparted ==
  ASSUME Inv, Kinds, NEW n, NEW rest, Freed(n, rest), StrongCount(n) = 1
  PROVE  Departed(n, rest)
<1> DEFINE f == Forget(rest, n)
<1>1. /\ n \in live /\ n \in Nodes /\ rest \in Seq(Entries) /\ Formed(rest, program)
      /\ Die(n, rest) /\ (program.boot = "main" => rest # <<>>)
  BY DEF Freed, LetGo, Sound, Inv, HeapOK
<1>2. /\ f \in Seq(Entries) /\ (f = <<>> <=> rest = <<>>)
      /\ HeldOn(f) = HeldOn(rest) /\ GarbageOn(f) = GarbageOn(rest) /\ MineOn(f) = MineOn(rest)
      /\ KeptOn(rest) \subseteq KeptOn(f) \cup {n}
      /\ Passes(f) <=> Passes(rest)
      /\ Formed(f, program)
  BY <1>1, Forgetting
<1>3. CASE RunsDestructor(n)
  <2> DEFINE s == Push(OnCopy(n), f)
             c == CopyOf(n)
  <2>1. ~NoClass(program)
    BY <1>1, <1>3 DEF RunsDestructor, Kinds, NoClass
  <2>2. stack' = s
    BY <1>1, <1>3 DEF Die, Push
  <2> HIDE DEF f
  <2>3. c \in HeldOn(s) /\ c \in KeptOn(s) /\ Atop(s, f, {c}) /\ Formed(s, program)
    BY <1>1, <1>2, <2>1, CopyAtop
  <2> HIDE DEF s, c
  <2>4. /\ c \in HeldOn(stack') /\ c \in KeptOn(stack') /\ Atop(stack', f, {c})
        /\ Formed(stack', program)
    BY <2>2, <2>3
  <2>5. QED
    BY <1>1, <1>2, <1>3, <2>4 DEF Departed, Atop, c
<1>4. CASE ~RunsDestructor(n)
  <2> DEFINE s == Dropping(Fields(n), Null) \o f
             refs == Fields(n)
  <2>1. stack' = s
    BY <1>1, <1>4 DEF Die
  <2>2. refs \in Seq(Nodes \cup {Null}) /\ Range(field[n]) \subseteq Range(refs)
    BY <1>1, FieldsHold DEF Inv
  <2>3. Null \in Nodes \cup {Null} /\ (program.boot = "main" => f # <<>>)
    BY <1>1, <1>2
  <2> HIDE DEF f, refs
  <2>4. Atop(Dropping(refs, Null) \o f, f, Range(refs)) /\ Formed(Dropping(refs, Null) \o f, program)
    BY <1>2, <2>2, <2>3, DroppingAtop
  <2>5. s = Dropping(refs, Null) \o f
    BY DEF refs
  <2> HIDE DEF s
  <2>6. Atop(stack', f, Range(refs)) /\ Formed(stack', program)
    BY <2>1, <2>4, <2>5
  <2>7. QED
    BY <1>1, <1>2, <1>4, <2>2, <2>6 DEF Departed, Atop
<1>5. QED
  BY <1>3, <1>4

\* Nothing that the stack holds, keeps or collects is lost, and more is held.
Widens(more) ==
  /\ Formed(stack', program)
  /\ HeldOn(stack) \cup more \subseteq HeldOn(stack') \cup {Null}
  /\ KeptOn(stack) \subseteq KeptOn(stack')
  /\ GarbageOn(stack') = GarbageOn(stack)

\* What a stack on top of one like the old one adds.
LEMMA Widened ==
  ASSUME NEW st \in Seq(Entries), NEW more, Atop(stack', st, more), Formed(stack', program),
         HeldOn(stack) \subseteq HeldOn(st) \cup {Null}, KeptOn(stack) \subseteq KeptOn(st),
         GarbageOn(st) = GarbageOn(stack), MineOn(st) \subseteq MineOn(stack) \cup {Null}
  PROVE  Widens(more) /\ MineOn(stack') \subseteq MineOn(stack) \cup {Null}
BY DEF Widens, Atop

\* force_destroy guts the object n: its fields move to the copy on which the
\* destructor runs, or are dropped.
Guts(n) ==
  /\ n \in live \ destroyed /\ n \in Objects /\ n \in GarbageOn(stack)
  /\ stack # <<>> /\ top.at = "destroy"
  /\ \A e \in In(stack') : e.garbage = {} \/ e \in In(stack) \/ e = [top EXCEPT !.todo = @ \ {n}]
  /\ UNCHANGED <<program, kind, static, pending>>
  /\ destroyed' = destroyed \cup {n} \cup (live' \ live)
  /\ MineOn(stack') \subseteq MineOn(stack) \cup {Null}
  /\ \/ /\ ~NoClass(program) /\ live' = live \cup {CopyOf(n)}
        /\ field' = [field EXCEPT ![CopyOf(n)] = field[n], ![n] = NoKeys]
        /\ Widens({CopyOf(n)}) /\ CopyOf(n) \in KeptOn(stack')
     \/ /\ live' = live
        /\ field' = [field EXCEPT ![n] = NoKeys]
        /\ Widens(Range(field[n]))

\* A copy is live only of an object that is not, or is destroyed.
Single == \A n \in Objects : n \in live \ destroyed => CopyOf(n) \notin live

LEMMA ForceDestroyGuts ==
  ASSUME Inv, Formed(stack, program), Kinds, Single, ForceDestroy
  PROVE  Steady \/ \E n : Guts(n)
<1>1. /\ stack # <<>> /\ top.at = "destroy" /\ UNCHANGED <<program, static, pending>>
  BY DEF ForceDestroy, At, gc
<1>2. /\ Whole(top, live) /\ top \in Entries /\ below \in Seq(Entries) /\ Clean(top)
      /\ Formed(below, program)
  BY <1>1, Opened
<1>3. PICK n \in top.todo :
        LET rest == <<[top EXCEPT !.todo = top.todo \ {n}]>> \o below IN
        IF n \in destroyed
          THEN stack' = rest /\ UNCHANGED heap
          ELSE /\ UNCHANGED kind
               /\ IF RunsDestructor(n)
                    THEN /\ live' = live \cup {CopyOf(n)}
                         /\ destroyed' = Marked(n) \cup {CopyOf(n)}
                         /\ MoveToCopy(n)
                         /\ stack' = <<OnCopy(n)>> \o rest
                    ELSE /\ destroyed' = Marked(n)
                         /\ field' = [field EXCEPT ![n] = NoKeys]
                         /\ stack' = Dropping(Fields(n), Null) \o rest
                         /\ UNCHANGED <<live, ran>>
  BY DEF ForceDestroy
<1> DEFINE e == [top EXCEPT !.todo = top.todo \ {n}]
           p == Push(e, below)
           t == top
           b == below
<1>4. n \in t.garbage /\ n \in live /\ n \in Nodes /\ n # Null
  <2>1. n \in Nodes /\ n \in live \cup {Null} /\ n \in top.garbage
    BY <1>2, <1>3 DEF Whole, Mentions, Entries
  <2>2. QED
    BY <2>1, Numbers
<1>5. CASE n \in destroyed
  <2>1. stack' = <<[top EXCEPT !.todo = top.todo \ {n}]>> \o below /\ UNCHANGED heap
    BY <1>3, <1>5
  <2>2. QED
    BY <1>1, <1>5, <2>1, DestroyedSteady
<1>6. CASE n \notin destroyed
  <2>1. n \in Objects
    BY <1>4, <1>6 DEF Inv, Fresh
  <2>2. /\ e \in Entries /\ e.who = t.who /\ e.at = t.at /\ e.refs = t.refs
        /\ e.operand = t.operand /\ e.lock = t.lock /\ e.garbage = t.garbage
        /\ e.survivors = t.survivors /\ e.todo = t.todo \ {n} /\ e.thrown = t.thrown
    BY <1>2 DEF Entries
  <2>3. e = [t EXCEPT !.todo = @ \ {n}]
    OBVIOUS
  <2> HIDE DEF e
  <2>4. Clean(e)
    BY <1>1, <1>2, <2>2 DEF Clean
  <2>5. Formed(Push(e, below), program)
    BY <1>1, <2>2, <2>4, FitsToo
  <2>6. /\ HeldOn(stack) = Refd(t) \cup HeldOn(b)
        /\ KeptOn(stack) = Kept(t) \cup KeptOn(b)
        /\ GarbageOn(stack) = t.garbage \cup GarbageOn(b)
        /\ MineOn(stack) = MineOn(b) \cup
              (IF t.who = "destruct" \/ Destructing(b) THEN {} ELSE Rooted(t))
        /\ stack = Push(t, b) /\ t \in Entries /\ b \in Seq(Entries)
    BY <1>1, Opened
  <2>7. Refd(e) = Refd(t) /\ Kept(e) = Kept(t) /\ Rooted(e) = Rooted(t)
    BY <2>2 DEF Refd, Kept, Rooted
  <2>8. p \in Seq(Entries) /\ p # <<>> /\ Formed(p, program)
    BY <1>2, <2>2, <2>5, PushSeq
  <2> HIDE DEF t, b
  <2>9. In(stack) = {t} \cup In(b)
    <3>1. t \in Entries /\ b \in Seq(Entries)
      BY <2>6
    <3>2. In(Push(t, b)) = {t} \cup In(b)
      BY <3>1, Pushing
    <3>3. QED
      BY <2>6, <3>2
  <2>10. /\ HeldOn(p) = Refd(e) \cup HeldOn(b)
         /\ KeptOn(p) = Kept(e) \cup KeptOn(b)
         /\ GarbageOn(p) = e.garbage \cup GarbageOn(b)
         /\ MineOn(p) = MineOn(b) \cup
              (IF e.who = "destruct" \/ Destructing(b) THEN {} ELSE Rooted(e))
         /\ In(p) = {e} \cup In(b)
    <3>1. e \in Entries /\ b \in Seq(Entries)
      BY <2>2, <2>6
    <3>2. p = Push(e, b)
      BY DEF b
    <3> HIDE DEF p
    <3>3. QED
      BY <3>1, <3>2, Pushing
  <2>11. stack' = (IF RunsDestructor(n) THEN Push(OnCopy(n), p) ELSE Dropping(Fields(n), Null) \o p)
    BY <1>3, <1>6 DEF Push, e
  <2> HIDE DEF p
  <2>12. /\ HeldOn(p) = HeldOn(stack) /\ KeptOn(p) = KeptOn(stack) /\ GarbageOn(p) = GarbageOn(stack)
         /\ MineOn(p) = MineOn(stack) /\ \A d \in In(p) : d \in In(stack) \/ d = e
         /\ n \in GarbageOn(stack)
    BY <1>4, <2>2, <2>6, <2>7, <2>9, <2>10
  <2>13. UNCHANGED kind /\ Marked(n) = destroyed \cup {n}
    BY <1>3, <1>6 DEF Marked
  <2>14. CASE RunsDestructor(n)
    <3> DEFINE c == CopyOf(n)
               s == Push(OnCopy(n), p)
    <3>1. /\ live' = live \cup {c} /\ destroyed' = destroyed \cup {n} \cup {c}
          /\ field' = [field EXCEPT ![c] = field[n], ![n] = NoKeys]
      BY <1>3, <1>6, <2>13, <2>14 DEF MoveToCopy
    <3>2. ~NoClass(program)
      BY <1>4, <2>14 DEF RunsDestructor, Kinds, NoClass
    <3>3. c \notin live
      BY <1>4, <1>6, <2>1 DEF Single
    <3>4. /\ c \in KeptOn(s) /\ Atop(s, p, {c}) /\ Formed(s, program)
      BY <1>4, <2>8, <3>2, CopyAtop
    <3>5. stack' = s
      BY <2>11, <2>14
    <3> HIDE DEF c, s
    <3>6. /\ c \in KeptOn(stack') /\ Atop(stack', p, {c}) /\ Formed(stack', program)
      BY <3>4, <3>5
    <3>7. Widens({c}) /\ MineOn(stack') \subseteq MineOn(stack) \cup {Null}
      BY <2>8, <2>12, <3>6, Widened
    <3>8. \A d \in In(stack') : d.garbage = {} \/ d \in In(stack) \/ d = e
      BY <2>12, <3>6 DEF Atop
    <3>9. destroyed' = destroyed \cup {n} \cup (live' \ live)
      BY <3>1, <3>3
    <3>10. Guts(n)
      BY <1>1, <1>4, <1>6, <2>1, <2>3, <2>12, <2>13, <3>1, <3>2, <3>6, <3>7, <3>8, <3>9 DEF Guts, c, t
    <3>11. QED
      BY <3>10
  <2>15. CASE ~RunsDestructor(n)
    <3> DEFINE refs == Fields(n)
               s == Dropping(refs, Null) \o p
    <3>1. /\ live' = live /\ destroyed' = destroyed \cup {n} /\ field' = [field EXCEPT ![n] = NoKeys]
      BY <1>3, <1>6, <2>13, <2>15
    <3>2. refs \in Seq(Nodes \cup {Null}) /\ Range(field[n]) \subseteq Range(refs)
      BY <1>4, FieldsHold DEF Inv
    <3>3. Null \in Nodes \cup {Null}
      OBVIOUS
    <3>4. stack' = s
      BY <2>11, <2>15
    <3> HIDE DEF refs
    <3>5. Atop(s, p, Range(refs)) /\ Formed(s, program)
      BY <2>8, <3>2, <3>3, DroppingAtop
    <3> HIDE DEF s
    <3>6. Atop(stack', p, Range(refs)) /\ Formed(stack', program)
      BY <3>4, <3>5
    <3>7. Widens(Range(refs)) /\ MineOn(stack') \subseteq MineOn(stack) \cup {Null}
      BY <2>8, <2>12, <3>6, Widened
    <3>8. Widens(Range(field[n]))
      BY <3>2, <3>7 DEF Widens
    <3>9. \A d \in In(stack') : d.garbage = {} \/ d \in In(stack) \/ d = e
      BY <2>12, <3>6 DEF Atop
    <3>10. destroyed' = destroyed \cup {n} \cup (live' \ live)
      BY <3>1
    <3>11. Guts(n)
      BY <1>1, <1>4, <1>6, <2>1, <2>3, <2>12, <2>13, <3>1, <3>7, <3>8, <3>9, <3>10 DEF Guts, t
    <3>12. QED
      BY <3>11
  <2>16. QED
    BY <2>14, <2>15
<1>7. QED
  BY <1>5, <1>6

\* clear() empties the array n, and drops its elements under its lock.
Clears(n) ==
  /\ n \in live /\ ~IsObject(n) /\ n \in GarbageOn(stack) /\ ~NoContainer(program)
  /\ stack # <<>> /\ top.at = "destroy"
  /\ UNCHANGED <<program, live, kind, destroyed, static, pending>>
  /\ field' = [field EXCEPT ![n] = NoKeys]
  /\ Widens(Range(field[n])) /\ MineOn(stack') \subseteq MineOn(stack) \cup {Null}
  /\ \A e \in In(stack') : e.garbage = {} \/ e \in In(stack)

LEMMA ClearArrayClears ==
  ASSUME Inv, Formed(stack, program), Kinds, ClearArray
  PROVE  Steady \/ \E n : Clears(n)
<1>1. /\ stack # <<>> /\ top.at = "destroy" /\ UNCHANGED <<program, static, pending>>
  BY DEF ClearArray, At, gc
<1>2. Whole(top, live) /\ stack \in Seq(Entries) /\ GarbageOn(stack) = top.garbage \cup GarbageOn(below)
  BY <1>1, Opened DEF Inv, Sound
<1>3. PICK n \in Uncleared :
        IF n \in Locked
          THEN GoTo("blocked") /\ UNCHANGED heap
          ELSE /\ field' = [field EXCEPT ![n] = NoKeys]
               /\ stack' = Dropping(Fields(n), n) \o stack
               /\ UNCHANGED <<live, kind, destroyed, ran>>
  BY DEF ClearArray
<1>4. n \in top.garbage /\ n \in live /\ n \in Nodes /\ ~IsObject(n)
  <2>1. n \in Nodes /\ n \in live \cup {Null} /\ n \in top.garbage /\ ~IsObject(n)
    BY <1>2, <1>3 DEF Uncleared, Whole, Mentions, Entries
  <2>2. QED
    BY <2>1, Numbers
<1>5. CASE n \in Locked
  <2>1. GoTo("blocked") /\ UNCHANGED heap /\ Locked # {}
    BY <1>3, <1>5
  <2>2. QED
    BY <1>1, <2>1, BlockedSteady
<1>6. CASE n \notin Locked
  <2> DEFINE refs == Fields(n)
             s == Dropping(refs, n) \o stack
  <2>1. /\ UNCHANGED <<live, kind, destroyed>> /\ field' = [field EXCEPT ![n] = NoKeys]
        /\ stack' = s
    BY <1>3, <1>6
  <2>2. refs \in Seq(Nodes \cup {Null}) /\ Range(field[n]) \subseteq Range(refs)
    BY <1>4, FieldsHold DEF Inv
  <2>3. ~NoContainer(program)
    <3>1. kind[Origin(n)] \in AllKinds /\ Kind(n) \in program.kinds
      BY <1>4, Numbers DEF Inv, HeapOK, Kinds
    <3>2. QED
      BY <1>4, <3>1 DEF NoContainer, Kind, IsObject, AllKinds
  <2> HIDE DEF refs
  <2>4. Atop(s, stack, Range(refs)) /\ Formed(s, program)
    BY <1>1, <1>2, <1>4, <2>2, <2>3, DroppingAtop
  <2> HIDE DEF s
  <2>5. Atop(stack', stack, Range(refs)) /\ Formed(stack', program)
    BY <2>1, <2>4
  <2>6. Widens(Range(field[n])) /\ MineOn(stack') \subseteq MineOn(stack) \cup {Null}
    BY <1>2, <2>2, <2>5, Widened DEF Widens
  <2>7. \A e \in In(stack') : e.garbage = {} \/ e \in In(stack)
    BY <2>5 DEF Atop
  <2>8. Clears(n)
    BY <1>1, <1>2, <1>4, <2>1, <2>3, <2>6, <2>7 DEF Clears
  <2>9. QED
    BY <2>8
<1>7. QED
  BY <1>5, <1>6

\* An object, array or list is allocated.
Allocates(n, k) ==
  /\ n \in Objects /\ n \notin live /\ CopyOf(n) \notin live /\ k \in program.kinds
  /\ stack # <<>> /\ top.at = "run"
  /\ UNCHANGED <<program, destroyed, static, pending>>
  /\ live' = live \cup {n} /\ kind' = [kind EXCEPT ![n] = k]
  /\ field' = [field EXCEPT ![n] = [s \in Slots |-> Null]]
  /\ Widens({n}) /\ MineOn(stack') \subseteq MineOn(stack) \cup {n, Null}
  /\ \A e \in In(stack') : e.garbage = {} \/ e \in In(stack)

LEMMA NewAllocates ==
  ASSUME Inv, Formed(stack, program), NEW k \in program.kinds, New(k)
  PROVE  \E n : Allocates(n, k)
<1>1. /\ Running /\ stack # <<>> /\ top.at = "run" /\ top.operand = Null
      /\ UNCHANGED <<program, destroyed, static, pending>>
  BY DEF New, Running, At, gc
<1>2. k \in AllKinds /\ program.objects \in 1..MaxObjects
  BY CollectorAssumption DEF ProgramType, Inv, HeapOK
<1>3. PICK n \in 1..program.objects :
        /\ {n, CopyOf(n)} \cap live = {}
        /\ live' = live \cup {n}
        /\ kind' = [kind EXCEPT ![n] = k]
        /\ field' = [field EXCEPT ![n] = [s \in Slots |-> Null]]
        /\ stack' = (IF k \in {"class", "plain"} THEN <<Frame("construct", Receiving(n))>>
                     ELSE <<>>) \o <<Operand(n)>> \o below
  BY DEF New
<1>4. n \in Objects /\ n \in Nodes /\ n \notin live /\ CopyOf(n) \notin live
  BY <1>2, <1>3, Numbers DEF Objects
<1> DEFINE e == Operand(n)
           t == top
           b == below
           f == Frame("construct", Receiving(n))
           p == Push(e, b)
           s == Push(f, p)
<1>5. /\ Holding(t, t.refs, t.operand) /\ Holding(e, t.refs, n) /\ Formed(p, program)
      /\ (NoClass(program) => AllRun(b))
  BY <1>1, <1>4, Frames1
<1>6. /\ HeldOn(stack) = Refd(t) \cup HeldOn(b)
      /\ KeptOn(stack) = Kept(t) \cup KeptOn(b)
      /\ GarbageOn(stack) = t.garbage \cup GarbageOn(b)
      /\ MineOn(stack) = MineOn(b) \cup
            (IF t.who = "destruct" \/ Destructing(b) THEN {} ELSE Rooted(t))
      /\ stack = Push(t, b) /\ t \in Entries /\ b \in Seq(Entries)
  BY <1>1, Opened
<1>7. "construct" \in FrameKinds /\ Receiving(n) \in Seq(Nodes \cup {Null})
      /\ Range(Receiving(n)) \subseteq {n, Null}
  BY <1>4, Refs DEF FrameKinds
<1>8. IsFrame(f, "construct", Receiving(n))
  BY <1>7, FrameParts
<1>9. stack' = ((IF k \in {"class", "plain"} THEN <<f>> ELSE <<>>) \o <<e>>) \o b
  BY <1>3
<1> HIDE DEF f
<1>10. /\ f \in Entries /\ Clean(f) /\ PassOf(f) /\ f.who = "construct" /\ f.at = "run" /\ f.lock = Null
       /\ f.garbage = {} /\ Refd(f) \subseteq {n, Null} /\ Rooted(f) \subseteq {n, Null}
  BY <1>7, <1>8 DEF IsFrame
<1>11. /\ e.who = t.who /\ e \in Entries /\ e.at = "run" /\ t.operand = Null
       /\ e.garbage = {} /\ Refd(e) = Range(t.refs) \cup {n} /\ Kept(e) = Range(t.refs)
       /\ Rooted(e) = Range(t.refs) \cup {n} /\ Rooted(t) = Range(t.refs) \cup {Null}
       /\ Refd(t) = Range(t.refs) \cup {Null} /\ Kept(t) = Range(t.refs) /\ t.garbage = {}
  BY <1>1, <1>5 DEF Holding
<1> HIDE DEF e, t, b
<1>12. b \in Seq(Entries) /\ e \in Entries /\ t \in Entries /\ f \in Entries
  BY <1>6, <1>10, <1>11
<1>13. In(stack) = {t} \cup In(b)
  <2>1. In(Push(t, b)) = {t} \cup In(b)
    BY <1>12, Pushing
  <2>2. QED
    BY <1>6, <2>1
<1>14. /\ p \in Seq(Entries) /\ p # <<>> /\ p[1] = e
       /\ HeldOn(p) = Refd(e) \cup HeldOn(b)
       /\ KeptOn(p) = Kept(e) \cup KeptOn(b)
       /\ GarbageOn(p) = e.garbage \cup GarbageOn(b)
       /\ MineOn(p) = MineOn(b) \cup
              (IF e.who = "destruct" \/ Destructing(b) THEN {} ELSE Rooted(e))
       /\ AllRun(p) <=> (e.at = "run" /\ AllRun(b))
       /\ Destructing(p) <=> (e.who = "destruct" \/ Destructing(b))
       /\ In(p) = {e} \cup In(b)
  BY <1>12, Pushing
<1>15. CASE k \notin {"class", "plain"}
  <2>1. stack' = p
    <3>1. stack' = (<<>> \o <<e>>) \o b
      BY <1>9, <1>15
    <3>2. <<e>> \in Seq(Entries)
      BY <1>12
    <3>3. <<>> \o <<e>> = <<e>>
      BY <3>2, ConcatEmptySeq
    <3>4. QED
      BY <3>1, <3>3 DEF p, Push
  <2> HIDE DEF p
  <2>2. Widens({n})
    BY <1>5, <1>6, <1>11, <1>14, <2>1 DEF Widens
  <2>3. MineOn(stack') \subseteq MineOn(stack) \cup {n, Null}
    BY <1>6, <1>11, <1>14, <2>1
  <2>4. \A d \in In(stack') : d.garbage = {} \/ d \in In(stack)
    BY <1>11, <1>13, <1>14, <2>1
  <2>5. Allocates(n, k)
    BY <1>1, <1>3, <1>4, <2>2, <2>3, <2>4 DEF Allocates
  <2>6. QED
    BY <2>5
<1>16. CASE k \in {"class", "plain"}
  <2>1. stack' = s
    <3>1. stack' = (<<f>> \o <<e>>) \o b
      BY <1>9, <1>16
    <3>2. <<e>> \in Seq(Entries) /\ <<f>> \in Seq(Entries) /\ b \in Seq(Entries)
      BY <1>12
    <3>3. (<<f>> \o <<e>>) \o b = <<f>> \o (<<e>> \o b)
      BY <3>2, ConcatAssociative
    <3>4. QED
      BY <3>1, <3>3 DEF s, p, Push
  <2> HIDE DEF p
  <2>2. Fits(f, p, program)
    BY <1>5, <1>10, <1>11, <1>14 DEF Fits, OnTop, Outermost
  <2>3. p \in Seq(Entries)
    BY <1>14
  <2>4. /\ HeldOn(s) = Refd(f) \cup HeldOn(p)
        /\ KeptOn(s) = Kept(f) \cup KeptOn(p)
        /\ GarbageOn(s) = f.garbage \cup GarbageOn(p)
        /\ MineOn(s) = MineOn(p) \cup
              (IF f.who = "destruct" \/ Destructing(p) THEN {} ELSE Rooted(f))
        /\ In(s) = {f} \cup In(p)
    BY <1>12, <2>3, Pushing
  <2>5. Formed(s, program)
    BY <1>5, <1>12, <2>2, <2>3, Forms
  <2> HIDE DEF s
  <2>6. Widens({n})
    BY <1>6, <1>10, <1>11, <1>14, <2>1, <2>4, <2>5 DEF Widens
  <2>7. MineOn(stack') \subseteq MineOn(stack) \cup {n, Null}
    BY <1>6, <1>10, <1>11, <1>14, <2>1, <2>4
  <2>8. \A d \in In(stack') : d.garbage = {} \/ d \in In(stack)
    BY <1>10, <1>11, <1>13, <1>14, <2>1, <2>4
  <2>9. Allocates(n, k)
    BY <1>1, <1>3, <1>4, <2>6, <2>7, <2>8 DEF Allocates
  <2>10. QED
    BY <2>9
<1>17. QED
  BY <1>15, <1>16

\* A reference is stored in a field: the target or the value is in a variable.
Puts(target, s, value) ==
  /\ target \in live /\ value \in live \cup {Null} /\ s \in Slots /\ MayStore(value)
  /\ stack # <<>> /\ top.at = "run"
  /\ {target, value} \subseteq Range(top.refs) \cup {top.operand, static, Null}
  /\ target \in Range(top.refs) \cup {static} \/ value \in Range(top.refs) \cup {static, Null}
  /\ UNCHANGED <<program, live, kind, destroyed, static, pending>>
  /\ field' = [field EXCEPT ![target] =
                 [x \in DOMAIN @ \cup {s} |-> IF x = s THEN value ELSE @[x]]]
  /\ Formed(stack', program)
  /\ HeldOn(stack) \cup {target, Fields(target)[s]} \subseteq HeldOn(stack') \cup {value, Null}
  /\ KeptOn(stack) \subseteq KeptOn(stack') /\ GarbageOn(stack') = GarbageOn(stack)
  /\ MineOn(stack') \subseteq MineOn(stack) \cup {Null}
  /\ \A e \in In(stack') : e.garbage = {} \/ e \in In(stack)

\* What Put leaves on the stack: the receiver, and the replaced value, to drop.
LEMMA PutStack ==
  ASSUME Inv, Formed(stack, program), Kinds, Running, NEW target \in live, NEW s \in Slots, NEW value,
         Put(target, s, value), target \notin Locked
  PROVE  LET p == Push(Operand(Null), below) IN
         Atop(stack', p, {target, Fields(target)[s]}) /\ Formed(stack', program)
<1> DEFINE old == Fields(target)[s]
           replaced == <<old>>
           one == <<target>>
           receiver == Dropping(one, Null)
           under == Dropping(replaced, target)
           g == Glue("note", replaced, Null)
           e == Operand(Null)
           b == below
           p == Push(e, b)
           q == Push(g, p)
<1>1. /\ stack # <<>> /\ target \in Nodes /\ Null \in Nodes \cup {Null} /\ b \in Seq(Entries)
  BY Opened DEF Running, At, Inv, HeapOK
<1>2. /\ Holding(e, top.refs, Null) /\ Formed(p, program) /\ (NoClass(program) => AllRun(b))
  BY <1>1, Frames1
<1>3. old \in Nodes \cup {Null}
  BY <1>1, Reachable DEF OneOf
<1>4. /\ replaced \in Seq(Nodes \cup {Null}) /\ Range(replaced) = {old}
      /\ one \in Seq(Nodes \cup {Null}) /\ Range(one) = {target}
  <2>1. target \in Nodes \cup {Null} /\ old \in Nodes \cup {Null}
    BY <1>1, <1>3
  <2> HIDE DEF old
  <2>2. QED
    BY <2>1, Refs
<1>5. stack' = ((CASE DropsUnderLock(target) -> under \o receiver
                   [] ~DropsUnderLock(target) /\ s \in DOMAIN field[target] -> receiver \o <<g>>
                   [] OTHER -> receiver) \o <<e>>) \o b
  BY DEF Put
<1>6. s \notin DOMAIN field[target] => old = Null
  BY DEF Fields
<1> HIDE DEF old, replaced, one
<1>7. receiver \in Seq(Entries) /\ under \in Seq(Entries)
  BY <1>1, <1>4, DroppingSeq
<1>8. "note" \in GlueStages /\ g \in Entries
  <2>1. "note" \in GlueStages
    BY DEF GlueStages
  <2>2. QED
    BY <1>1, <1>4, <2>1, GlueParts DEF IsGlue
<1>9. e \in Entries /\ e.at = "run"
  BY <1>2 DEF Holding
<1> HIDE DEF e, b
<1>10. p \in Seq(Entries) /\ p # <<>> /\ (AllRun(p) <=> e.at = "run" /\ AllRun(b))
  BY <1>1, <1>9, Pushing
<1>11. <<e>> \in Seq(Entries) /\ <<g>> \in Seq(Entries) /\ p = <<e>> \o b
  BY <1>8, <1>9 DEF Push
<1> HIDE DEF p, g
<1>12. /\ Atop(receiver \o p, p, {target}) /\ Formed(receiver \o p, program)
       /\ receiver \o p \in Seq(Entries)
  <2>1. Atop(receiver \o p, p, Range(one)) /\ Formed(receiver \o p, program)
    BY <1>1, <1>2, <1>4, <1>10, DroppingAtop
  <2>2. QED
    BY <1>4, <2>1 DEF Atop
<1>13. receiver \o p # <<>>
  BY <1>7, <1>10, ConcatProperties, EmptySeq
<1>14. CASE DropsUnderLock(target)
  <2>1. stack' = under \o (receiver \o p)
    <3> DEFINE u == under \o receiver
    <3>1. stack' = (u \o <<e>>) \o b
      BY <1>5, <1>14
    <3>2. u \in Seq(Entries)
      BY <1>7, ConcatProperties
    <3>3. u \o p = under \o (receiver \o p)
      BY <1>7, <1>10, ConcatAssociative
    <3> HIDE DEF u
    <3>4. (u \o <<e>>) \o b = u \o (<<e>> \o b)
      BY <1>1, <1>11, <3>2, ConcatAssociative
    <3>5. u \o (<<e>> \o b) = u \o p
      BY <1>11
    <3>6. QED
      BY <3>1, <3>3, <3>4, <3>5, Zenon
  <2>2. ~NoContainer(program)
    BY <1>14 DEF DropsUnderLock, Kinds, NoContainer
  <2> DEFINE r == receiver \o p
  <2>3. r \in Seq(Entries) /\ r # <<>> /\ Formed(r, program) /\ Atop(r, p, {target})
        /\ stack' = under \o r
    BY <1>12, <1>13, <2>1
  <2> HIDE DEF r, receiver
  <2>4. Atop(under \o r, r, Range(replaced)) /\ Formed(under \o r, program)
    BY <1>1, <1>4, <2>2, <2>3, DroppingAtop
  <2>5. Atop(under \o r, p, Range(replaced) \cup {target})
    BY <2>3, <2>4, AtopAtop
  <2> HIDE DEF under
  <2>6. QED
    BY <1>4, <2>3, <2>4, <2>5 DEF Atop, old, p, e, b
<1>15. CASE ~DropsUnderLock(target) /\ s \in DOMAIN field[target]
  <2>1. stack' = receiver \o q
    <3> DEFINE u == receiver \o <<g>>
    <3>1. stack' = (u \o <<e>>) \o b
      BY <1>5, <1>15
    <3>2. u \in Seq(Entries)
      BY <1>7, <1>11, ConcatProperties
    <3>3. u \o p = receiver \o (<<g>> \o p)
      BY <1>7, <1>10, <1>11, ConcatAssociative
    <3> HIDE DEF u
    <3>4. (u \o <<e>>) \o b = u \o (<<e>> \o b)
      BY <1>1, <1>11, <3>2, ConcatAssociative
    <3>5. u \o (<<e>> \o b) = u \o p
      BY <1>11
    <3>6. q = <<g>> \o p
      BY DEF Push
    <3> HIDE DEF q
    <3>7. QED
      BY <3>1, <3>3, <3>4, <3>5, <3>6, Zenon
  <2>2. NoClass(program) => AllRun(p)
    BY <1>2, <1>9, <1>10
  <2>3. Atop(q, p, Range(replaced)) /\ Formed(q, program)
    <3>1. q = Push(Glue("note", replaced, Null), p)
      BY DEF g
    <3> HIDE DEF q
    <3>2. Formed(p, program)
      BY <1>2 DEF p
    <3>3. QED
      BY <1>1, <1>4, <1>8, <1>10, <2>2, <3>1, <3>2, GlueAtop
  <2>4. q \in Seq(Entries) /\ q # <<>>
    BY <1>8, <1>10, Pushing
  <2> HIDE DEF q
  <2>5. Atop(receiver \o q, q, Range(one)) /\ Formed(receiver \o q, program)
    BY <1>1, <1>4, <2>3, <2>4, DroppingAtop
  <2>6. Atop(receiver \o q, p, Range(one) \cup Range(replaced))
    BY <2>3, <2>5, AtopAtop
  <2> HIDE DEF receiver
  <2>7. QED
    BY <1>4, <2>1, <2>5, <2>6 DEF Atop, old, p, e, b
<1>16. CASE ~DropsUnderLock(target) /\ s \notin DOMAIN field[target]
  <2>1. stack' = receiver \o p
    <3>1. stack' = (receiver \o <<e>>) \o b
      BY <1>5, <1>16
    <3>2. (receiver \o <<e>>) \o b = receiver \o (<<e>> \o b)
      BY <1>1, <1>7, <1>11, ConcatAssociative
    <3>3. receiver \o (<<e>> \o b) = receiver \o p
      BY <1>11
    <3>4. QED
      BY <3>1, <3>2, <3>3, Zenon
  <2> HIDE DEF receiver
  <2>2. QED
    BY <1>6, <1>12, <1>16, <2>1 DEF Atop, old, p, e, b
<1>17. QED
  BY <1>14, <1>15, <1>16

LEMMA PutPuts ==
  ASSUME Inv, Formed(stack, program), Kinds, Running, NEW target, NEW s \in Slots, NEW value,
         target # Null, Put(target, s, value),
         {target, value} \subseteq Range(top.refs) \cup {top.operand, static, Null},
         top.operand \in {target, value},
         target \in Range(top.refs) \cup {static} \/ value \in Range(top.refs) \cup {static, Null}
  PROVE  Steady \/ Puts(target, s, value)
<1>1. /\ stack # <<>> /\ top.at = "run" /\ MayStore(value)
      /\ UNCHANGED <<program, live, kind, destroyed, ran, static, pending>>
  BY DEF Put, Running, At, gc
<1>2. target \in live /\ value \in live \cup {Null}
  <2>1. OneOf(target, live) /\ OneOf(value, live)
    BY <1>1, Reachable
  <2>2. QED
    BY <2>1 DEF OneOf
<1>3. CASE target \in Locked
  <2>1. GoTo("blocked") /\ UNCHANGED heap /\ Locked # {}
    BY <1>1, <1>3 DEF Put, heap
  <2>2. QED
    BY <1>1, <2>1, BlockedSteady
<1>4. CASE target \notin Locked
  <2> DEFINE e == Operand(Null)
             t == top
             b == below
             p == Push(e, b)
             old == Fields(target)[s]
  <2>1. field' = [field EXCEPT ![target] =
                    [x \in DOMAIN @ \cup {s} |-> IF x = s THEN value ELSE @[x]]]
    BY <1>4 DEF Put
  <2>2. Atop(stack', p, {target, old}) /\ Formed(stack', program)
    BY <1>2, <1>4, PutStack
  <2>3. /\ Holding(t, t.refs, t.operand) /\ Holding(e, t.refs, Null)
    BY <1>1, Frames1
  <2>4. /\ HeldOn(stack) = Refd(t) \cup HeldOn(b)
        /\ KeptOn(stack) = Kept(t) \cup KeptOn(b)
        /\ GarbageOn(stack) = t.garbage \cup GarbageOn(b)
        /\ MineOn(stack) = MineOn(b) \cup
              (IF t.who = "destruct" \/ Destructing(b) THEN {} ELSE Rooted(t))
        /\ stack = Push(t, b) /\ t \in Entries /\ b \in Seq(Entries)
    BY <1>1, Opened
  <2>5. /\ e.who = t.who /\ e \in Entries
        /\ e.garbage = {} /\ Refd(e) = Range(t.refs) \cup {Null} /\ Kept(e) = Range(t.refs)
        /\ Rooted(e) = Range(t.refs) \cup {Null} /\ Rooted(t) = Range(t.refs) \cup {t.operand}
        /\ Refd(t) = Range(t.refs) \cup {t.operand} /\ Kept(t) = Range(t.refs) /\ t.garbage = {}
    BY <2>3 DEF Holding
  <2>6. target \notin Range(t.refs) \cup {static} => target = t.operand /\ value \in Range(t.refs) \cup {static, Null}
    OBVIOUS
  <2>7. {target, value} \subseteq Range(t.refs) \cup {t.operand, static, Null}
    OBVIOUS
  <2> HIDE DEF e, b, old
  <2>8. /\ HeldOn(p) = Refd(e) \cup HeldOn(b)
        /\ KeptOn(p) = Kept(e) \cup KeptOn(b)
        /\ GarbageOn(p) = e.garbage \cup GarbageOn(b)
        /\ MineOn(p) = MineOn(b) \cup
              (IF e.who = "destruct" \/ Destructing(b) THEN {} ELSE Rooted(e))
        /\ In(p) = {e} \cup In(b)
    BY <2>4, <2>5, Pushing
  <2> HIDE DEF p
  <2>9. In(stack) = {t} \cup In(b)
    <3>1. t \in Entries /\ b \in Seq(Entries)
      BY <2>4
    <3> HIDE DEF t
    <3>2. In(Push(t, b)) = {t} \cup In(b)
      BY <3>1, Pushing
    <3>3. QED
      BY <2>4, <3>2
  <2>10. \A d \in In(stack') : d.garbage = {} \/ d \in In(stack)
    BY <2>2, <2>5, <2>8, <2>9 DEF Atop
  <2>11. /\ KeptOn(stack) \subseteq KeptOn(stack') /\ GarbageOn(stack') = GarbageOn(stack)
         /\ MineOn(stack') \subseteq MineOn(stack) \cup {Null}
    BY <2>2, <2>4, <2>5, <2>8 DEF Atop
  <2>12. HeldOn(stack) \cup {target, old} \subseteq HeldOn(stack') \cup {t.operand, Null}
    BY <2>2, <2>4, <2>5, <2>8 DEF Atop
  <2>13. t.operand \in {target, value}
    BY DEF t
  <2>14. HeldOn(stack) \cup {target, old} \subseteq HeldOn(stack') \cup {value, Null}
    BY <2>2, <2>12, <2>13 DEF Atop
  <2>15. QED
    BY <1>1, <1>2, <2>1, <2>2, <2>10, <2>11, <2>14 DEF Puts, old, t
<1>5. QED
  BY <1>3, <1>4

LEMMA SetFieldPuts ==
  ASSUME Inv, Formed(stack, program), Kinds, SetField
  PROVE  Steady \/ \E target, s, value : Puts(target, s, value)
<1>1. Running
  BY DEF SetField
<1>2. PICK s \in Slots :
        \/ \E target \in Variables \ {Null} : Put(target, s, top.operand)
        \/ top.operand # Null /\ \E value \in Variables \cup {Null} : Put(top.operand, s, value)
  BY DEF SetField
<1>3. CASE \E target \in Variables \ {Null} : Put(target, s, top.operand)
  <2>1. PICK target \in Variables \ {Null} : Put(target, s, top.operand)
    BY <1>3
  <2> DEFINE value == top.operand
  <2>2. /\ target # Null /\ target \in Range(top.refs) \cup {static}
        /\ {target, value} \subseteq Range(top.refs) \cup {top.operand, static, Null}
        /\ top.operand \in {target, value} /\ Put(target, s, value)
    BY <2>1 DEF Variables
  <2> HIDE DEF value
  <2>3. QED
    BY <1>1, <2>2, PutPuts
<1>4. CASE top.operand # Null /\ \E value \in Variables \cup {Null} : Put(top.operand, s, value)
  <2>1. PICK value \in Variables \cup {Null} : Put(top.operand, s, value)
    BY <1>4
  <2> DEFINE target == top.operand
  <2>2. /\ target # Null /\ value \in Range(top.refs) \cup {static, Null}
        /\ {target, value} \subseteq Range(top.refs) \cup {top.operand, static, Null}
        /\ top.operand \in {target, value} /\ Put(target, s, value)
    BY <1>4, <2>1 DEF Variables
  <2> HIDE DEF target
  <2>3. QED
    BY <1>1, <2>2, PutPuts
<1>5. QED
  BY <1>2, <1>3, <1>4

-----------------------------------------------------------------------------
(* Every step, and the shape of the stack.                                 *)

\* The last reference to n is dropped, or another one is.
Frees(n) == /\ UNCHANGED <<program, static>>
            /\ \E rest : Freed(n, rest) /\ StrongCount(n) = 1 /\ Departed(n, rest)
Spares(n) == /\ UNCHANGED <<program, heap, static, pending>>
             /\ Freed(n, stack') /\ StrongCount(n) # 1

LEMMA FreedFrees ==
  ASSUME Inv, Formed(stack, program), Kinds, Release \/ Free
  PROVE  \E n : Frees(n) \/ Spares(n)
<1>1. PICK n, rest : Freed(n, rest) /\ UNCHANGED <<program, static, deferred, threads>>
  BY ReleaseFreed, FreeFreed
<1>2. CASE StrongCount(n) = 1
  <2>1. Departed(n, rest)
    BY <1>1, <1>2, DieDeparted
  <2>2. QED
    BY <1>1, <1>2, <2>1 DEF Frees
<1>3. CASE StrongCount(n) # 1
  <2>1. stack' = rest /\ UNCHANGED <<heap, pending>>
    BY <1>1, <1>3 DEF Freed, LetGo
  <2>2. QED
    BY <1>1, <1>3, <2>1 DEF Spares
<1>4. QED
  BY <1>2, <1>3

\* What a step may do to the references, the garbage and the heap.
Moves == \/ Steady
         \/ \E G : Reclaims(G)
         \/ \E n : Guts(n)
         \/ \E n : Clears(n)
         \/ \E n, k : Allocates(n, k)
         \/ \E target, s, value : Puts(target, s, value)
         \/ \E n : Frees(n)
         \/ \E n : Spares(n)

Shape == Formed(stack, program) /\ Kinds /\ Single

LEMMA NextMoves == ASSUME Inv, Shape, [Next]_vars PROVE Moves
<1>1. Formed(stack, program) /\ Kinds /\ Single
  BY DEF Shape
<1>2. CASE Release \/ Free
  BY <1>1, <1>2, FreedFrees DEF Moves
<1>3. CASE Unlock \/ Note \/ Discarded \/ DropGarbage \/ EndPass
  BY <1>1, <1>3, UnlockSteady, NoteSteady, DiscardedSteady, DropGarbageSteady, EndPassSteady DEF Moves
<1>4. CASE RunPendingCollection
  BY <1>1, <1>4, CollectionSteady DEF Moves
<1>5. CASE ForceDestroy
  BY <1>1, <1>5, ForceDestroyGuts DEF Moves
<1>6. CASE ClearArray
  BY <1>1, <1>6, ClearArrayClears DEF Moves
<1>7. CASE \E k \in program.kinds : New(k)
  <2>1. PICK k \in program.kinds : New(k)
    BY <1>7
  <2>2. \E n : Allocates(n, k)
    BY <1>1, <2>1, NewAllocates
  <2>3. QED
    BY <2>2 DEF Moves
<1>8. CASE Load \/ GetField \/ Store \/ SetStatic
  BY <1>1, <1>8, LoadSteady, GetFieldSteady, StoreSteady, SetStaticSteady DEF Moves
<1>9. CASE Pop \/ Call \/ Leave
  BY <1>1, <1>9, PopSteady, CallSteady, LeaveSteady DEF Moves
<1>10. CASE SetField
  BY <1>1, <1>10, SetFieldPuts DEF Moves
<1>11. CASE Thread \/ Over \/ UNCHANGED vars
  BY <1>1, <1>11, IdleSteady DEF Moves
<1>12. QED
  BY <1>2, <1>3, <1>4, <1>5, <1>6, <1>7, <1>8, <1>9, <1>10, <1>11 DEF Next

\* A program starts with one frame.
LEMMA ShapeInit == ASSUME Init PROVE Shape
<1>1. program \in Programs /\ program.boot \in {"main", "clinit"}
  BY CollectorAssumption DEF Init, ProgramType
<1> DEFINE f == Frame(program.boot, NoLocals)
<1>2. program.boot \in FrameKinds /\ NoLocals \in Seq(Nodes \cup {Null})
  BY <1>1, Refs DEF FrameKinds
<1>3. f \in Entries /\ Clean(f) /\ f.who = program.boot /\ f.at = "run" /\ f.lock = Null
  BY <1>2, FrameParts DEF IsFrame
<1>4. stack = <<f>>
  BY DEF Init
<1> HIDE DEF f
<1>5. <<>> \in Seq(Entries) /\ stack = Push(f, <<>>)
  <2>1. <<f>> \in Seq(Entries)
    BY <1>3
  <2>2. <<f>> \o <<>> = <<f>>
    BY <2>1, ConcatEmptySeq
  <2>3. QED
    BY <1>4, <2>2 DEF Push
<1>6. Fits(f, <<>>, program)
  BY <1>1, <1>3, NothingHeld DEF Fits, Outermost
<1>7. Formed(stack, program)
  BY <1>3, <1>5, <1>6, NothingHeld, Forms
<1>8. QED
  BY <1>7 DEF Shape, Init, Kinds, Single

LEMMA MovesShape == ASSUME Inv, Shape, Moves PROVE Shape'
<1>1. HeapOK /\ Fresh /\ live \subseteq Nodes /\ destroyed \subseteq live /\ Kinds /\ Single
  BY DEF Inv, HeapOK, Shape
<1>2. ASSUME UNCHANGED <<program, live, kind, destroyed>> PROVE Kinds' /\ Single'
  BY <1>1, <1>2 DEF Kinds, Single, Kind
<1>3. CASE Steady
  BY <1>2, <1>3 DEF Steady, Shape, heap
<1>4. CASE \E G : Reclaims(G)
  BY <1>2, <1>4 DEF Reclaims, Shape, heap
<1>5. CASE \E n : Clears(n)
  BY <1>2, <1>5 DEF Clears, Widens, Shape
<1>6. CASE \E target, s, value : Puts(target, s, value)
  BY <1>2, <1>6 DEF Puts, Shape
<1>7. CASE \E n : Spares(n)
  BY <1>2, <1>7 DEF Spares, Freed, Shape, heap
<1>8. CASE \E n : Guts(n)
  <2>1. PICK n : Guts(n)
    BY <1>8
  <2>2. /\ n \in live \ destroyed /\ n \in Objects /\ UNCHANGED <<program, kind>>
        /\ destroyed' = destroyed \cup {n} \cup (live' \ live)
        /\ live' \in {live, live \cup {CopyOf(n)}}
        /\ Formed(stack', program')
    BY <2>1 DEF Guts, Widens
  <2>3. Kinds'
    BY <1>1, <2>2, Numbers DEF Kinds, Kind
  <2>4. Single'
    <3> SUFFICES ASSUME NEW m \in Objects, m \in live' \ destroyed', CopyOf(m) \in live'
                 PROVE  FALSE
      BY DEF Single
    <3>1. m \in live \ destroyed /\ m # n
      BY <2>2
    <3>2. CopyOf(m) = CopyOf(n)
      BY <1>1, <2>2, <3>1 DEF Single
    <3>3. QED
      BY <2>2, <3>1, <3>2, Numbers
  <2>5. QED
    BY <2>2, <2>3, <2>4 DEF Shape
<1>9. CASE \E n, k : Allocates(n, k)
  <2>1. PICK n, k : Allocates(n, k)
    BY <1>9
  <2>2. /\ n \in Objects /\ n \notin live /\ CopyOf(n) \notin live /\ k \in program.kinds
        /\ UNCHANGED <<program, destroyed>> /\ live' = live \cup {n}
        /\ kind' = [kind EXCEPT ![n] = k] /\ Formed(stack', program')
    BY <2>1 DEF Allocates, Widens
  <2>3. kind \in [Objects -> AllKinds]
    BY DEF Inv, HeapOK
  <2>4. Kinds'
    <3> SUFFICES ASSUME NEW m \in live' PROVE kind'[Origin(m)] \in program.kinds
      BY <2>2 DEF Kinds, Kind
    <3>1. CASE m = n
      BY <2>2, <2>3, <3>1, Numbers
    <3>2. CASE m # n
      <4>1. m \in live /\ m \in Nodes
        BY <1>1, <2>2, <3>2
      <4>2. Origin(m) # n
        <5>1. m = Origin(m) \/ (Origin(m) \in Objects /\ CopyOf(Origin(m)) = m)
          BY <4>1, CollectorAssumption DEF Origin, CopyOf, Objects, Nodes
        <5>2. QED
          BY <2>2, <3>2, <4>1, <5>1
      <4>3. kind'[Origin(m)] = kind[Origin(m)]
        BY <2>2, <2>3, <4>1, <4>2, Numbers
      <4>4. QED
        BY <1>1, <4>1, <4>3 DEF Kinds, Kind
    <3>3. QED
      BY <3>1, <3>2
  <2>5. Single'
    <3> SUFFICES ASSUME NEW m \in Objects, m \in live' \ destroyed', CopyOf(m) \in live'
                 PROVE  FALSE
      BY DEF Single
    <3>1. CopyOf(m) \in live
      BY <2>2, Numbers
    <3>2. m # n /\ m \in live \ destroyed
      BY <2>2, <3>1
    <3>3. QED
      BY <1>1, <3>1, <3>2 DEF Single
  <2>6. QED
    BY <2>2, <2>4, <2>5 DEF Shape
<1>10. CASE \E n : Frees(n)
  <2>1. PICK n : Frees(n)
    BY <1>10
  <2>2. PICK rest : Freed(n, rest) /\ StrongCount(n) = 1 /\ Departed(n, rest)
    BY <2>1 DEF Frees
  <2>3. /\ n \in live /\ UNCHANGED <<program, kind>> /\ Formed(stack', program')
        /\ IF RunsDestructor(n)
             THEN /\ live' = (live \ {n}) \cup {CopyOf(n)} /\ destroyed' = destroyed \cup {CopyOf(n)}
                  /\ n \notin destroyed
             ELSE live' = live \ {n} /\ destroyed' = destroyed \ {n}
    BY <2>1, <2>2 DEF Frees, Freed, Departed, Die, RunsDestructor
  <2>4. n \in Nodes /\ (n \notin destroyed => n \in Objects)
    BY <1>1, <2>3 DEF Fresh
  <2>5. Kinds'
    BY <1>1, <2>3, <2>4, Numbers DEF Kinds, Kind
  <2>6. Single'
    <3> SUFFICES ASSUME NEW m \in Objects, m \in live' \ destroyed', CopyOf(m) \in live'
                 PROVE  FALSE
      BY DEF Single
    <3>1. m \in live \ destroyed /\ m # n
      BY <1>1, <2>3, Numbers
    <3>2. CopyOf(m) = CopyOf(n) /\ RunsDestructor(n)
      BY <1>1, <2>3, <3>1 DEF Single
    <3>3. QED
      BY <2>3, <2>4, <3>1, <3>2, Numbers
  <2>7. QED
    BY <2>3, <2>5, <2>6 DEF Shape
<1>11. QED
  BY <1>3, <1>4, <1>5, <1>6, <1>7, <1>8, <1>9, <1>10 DEF Moves

LEMMA ShapeInvariant == Spec => [](Inv /\ Shape)
<1>1. Init => Inv /\ Shape
  BY InvInit, ShapeInit
<1>2. Inv /\ Shape /\ [Next]_vars => Inv' /\ Shape'
  BY InvNext, NextMoves, MovesShape
<1>3. QED
  BY <1>1, <1>2, PTL DEF Spec

\* NoLockMet: a program without destructors, or without arrays and lists, never
\* waits for a lock that its own thread holds (force_destroy drops the guard
\* before it calls the destructor; nothing else runs NL code under a lock).
THEOREM NoLockIsMet == Spec => []NoLockMet
<1>1. Inv /\ Shape => NoLockMet
  <2> SUFFICES ASSUME Inv, Shape, LocksApart, stack # <<>>
               PROVE  top.at # "blocked"
    BY DEF NoLockMet, NeverBlocked, At
  <2>1. Separate(program)
    BY DEF LocksApart, Separate, NoClass, NoContainer
  <2>2. 1 \in 1..Len(stack)
    BY Innermost DEF Inv
  <2>3. QED
    BY <2>1, <2>2 DEF Shape, Formed, top
<1>2. QED
  BY <1>1, ShapeInvariant, PTL
===============================================================================
