----------------------------- MODULE FrameProofs -----------------------------
(***************************************************************************)
(* A certified method runs without a fault, whatever the calls it makes    *)
(* answer and however many they are: the soundness of Verifier for Frame.  *)
(***************************************************************************)
EXTENDS Verifier, SequenceTheorems, TLAPS

Shape == [pc |-> pc, stack |-> KindsOf(stack), locals |-> KindsOf(locals)]

----------------------------------------------------------------------------
(***************************************************************************)
(* Kinds.                                                                  *)
(***************************************************************************)

\* A value is a pair, and its kind tells the VM's tags apart and Unset from the
\* rest.
LEMMA KindOfValue ==
  ASSUME NEW v \in Values
  PROVE  /\ Kind(v) \in Values
         /\ Kind(v)[1] = v[1]
         /\ Kind(v) = Unset <=> v = Unset
         /\ v[1] = "exc" => Kind(v) = v
         /\ v[1] \in {"null", "exc"} => v = Null \/ v = Unset \/ \E c \in Classes : v = Exc(c)
BY DEF Values, Kind, True, False, Null, Unset, Cursor, Row, Nothing, Exc

LEMMA KindIsTag ==
  ASSUME NEW v \in Values
  PROVE  /\ Kind(v) = BoolKind <=> v[1] = "bool"
         /\ Kind(v) = IntKind <=> v[1] = "int"
         /\ Kind(v) = ArrayKind <=> v[1] = "array"
BY DEF Values, Kind, True, False, Null, Unset, Cursor, Row, Nothing, Exc,
       BoolKind, IntKind, ArrayKind

\* Numbers that belong to ints and arrays.
LEMMA Contents ==
  ASSUME NEW v \in Values
  PROVE  /\ v[1] = "int" => v[2] \in Int /\ v = IntV(v[2])
         /\ v[1] = "array" => v[2] \in Nat
BY DEF Values, True, False, Null, Unset, Cursor, Row, Nothing, Exc, IntV

LEMMA Constructors ==
  /\ {True, False, Null, Unset, Nothing, Exc("RuntimeException")} \subseteq Values
  /\ \A c \in Classes : Exc(c) \in Values
  /\ \A n \in Int : IntV(n) \in Values
  /\ Kind(True) = BoolKind /\ Kind(False) = BoolKind /\ Kind(Unset) = Unset
  /\ \A n \in Int : Kind(IntV(n)) = IntKind
BY PreludeAssumption
   DEF Values, Kind, True, False, Null, Unset, Nothing, Exc, IntV, BoolKind, IntKind

\* What a call returns is a value.
LEMMA ReturnsValues ==
  ASSUME NEW ty \in ResultTypes, NEW v \in Returns(ty)
  PROVE  v \in Values /\ (ty = "void" => v = Nothing)
BY DEF ResultTypes, Returns, Values, True, False, Null, Unset, Cursor, Row, Nothing, IntV, Array

----------------------------------------------------------------------------
(***************************************************************************)
(* The kinds of a stack.                                                   *)
(***************************************************************************)
LEMMA KindsOfSeq ==
  ASSUME NEW s \in Seq(Values)
  PROVE  /\ KindsOf(s) \in Seq(Values)
         /\ Len(KindsOf(s)) = Len(s)
         /\ \A i \in 1 .. Len(s) : KindsOf(s)[i] = Kind(s[i])
<1>1. s \in [1 .. Len(s) -> Values] /\ Len(s) \in Nat
  BY LenProperties
<1>2. KindsOf(s) \in [1 .. Len(s) -> Values]
  BY <1>1, KindOfValue DEF KindsOf
<1>3. KindsOf(s) \in Seq(Values)
  BY <1>1, <1>2, SeqDef
<1>4. DOMAIN KindsOf(s) = 1 .. Len(KindsOf(s)) /\ Len(KindsOf(s)) \in Nat
  BY <1>3, LenProperties
<1>5. Len(KindsOf(s)) = Len(s)
  BY <1>1, <1>2, <1>4
<1>6. QED
  BY <1>1, <1>3, <1>5 DEF KindsOf

LEMMA KindsOfConcat ==
  ASSUME NEW s \in Seq(Values), NEW t \in Seq(Values)
  PROVE  KindsOf(s \o t) = KindsOf(s) \o KindsOf(t)
<1> DEFINE a == KindsOf(s)
           b == KindsOf(t)
<1>1. s \o t \in Seq(Values) /\ Len(s \o t) = Len(s) + Len(t)
      /\ \A i \in 1 .. Len(s) + Len(t) : (s \o t)[i] = IF i <= Len(s) THEN s[i] ELSE t[i - Len(s)]
  BY ConcatProperties
<1>2. /\ a \in Seq(Values) /\ Len(a) = Len(s) /\ \A i \in 1 .. Len(s) : a[i] = Kind(s[i])
      /\ b \in Seq(Values) /\ Len(b) = Len(t) /\ \A i \in 1 .. Len(t) : b[i] = Kind(t[i])
  BY KindsOfSeq
<1>3. Len(s) \in Nat /\ Len(t) \in Nat
  BY LenProperties
<1> HIDE DEF a, b
<1>4. a \o b \in Seq(Values) /\ Len(a \o b) = Len(a) + Len(b)
      /\ \A i \in 1 .. Len(a) + Len(b) : (a \o b)[i] = IF i <= Len(a) THEN a[i] ELSE b[i - Len(a)]
  <2>1. a \in Seq(Values) /\ b \in Seq(Values)
    BY <1>2
  <2>2. QED
    BY <2>1, ConcatProperties
<1>5. KindsOf(s \o t) \in Seq(Values) /\ Len(KindsOf(s \o t)) = Len(s) + Len(t)
      /\ \A i \in 1 .. Len(s) + Len(t) : KindsOf(s \o t)[i] = Kind((s \o t)[i])
  BY <1>1, KindsOfSeq
<1>6. ASSUME NEW i \in 1 .. Len(s) + Len(t)
      PROVE  KindsOf(s \o t)[i] = (a \o b)[i]
  <2>1. CASE i <= Len(s)
    BY <1>1, <1>2, <1>3, <1>4, <1>5, <2>1
  <2>2. CASE ~(i <= Len(s))
    <3>1. i - Len(s) \in 1 .. Len(t)
      BY <1>3, <2>2
    <3>2. QED
      BY <1>1, <1>2, <1>3, <1>4, <1>5, <2>2, <3>1
  <2>3. QED
    BY <2>1, <2>2
<1>7. KindsOf(s \o t) = a \o b
  BY <1>2, <1>4, <1>5, <1>6, SeqEqual
<1>8. QED
  BY <1>7 DEF a, b

LEMMA KindsOfBelow ==
  ASSUME NEW s \in Seq(Values), NEW n \in 0 .. Len(s)
  PROVE  /\ SubSeq(s, 1, Len(s) - n) \in Seq(Values)
         /\ KindsOf(SubSeq(s, 1, Len(s) - n)) = SubSeq(KindsOf(s), 1, Len(s) - n)
<1> DEFINE r == SubSeq(s, 1, Len(s) - n)
           k == SubSeq(KindsOf(s), 1, Len(s) - n)
<1>1. Len(s) \in Nat
  BY LenProperties
<1>2. r \in Seq(Values) /\ Len(r) = Len(s) - n /\ \A i \in 1 .. Len(s) - n : r[i] = s[i]
  BY <1>1, SubSeqProperties
<1>3. k \in Seq(Values) /\ Len(k) = Len(s) - n /\ \A i \in 1 .. Len(s) - n : k[i] = KindsOf(s)[i]
  BY <1>1, KindsOfSeq, SubSeqProperties
<1>4. KindsOf(r) \in Seq(Values) /\ Len(KindsOf(r)) = Len(s) - n
      /\ \A i \in 1 .. Len(s) - n : KindsOf(r)[i] = Kind(s[i])
  BY <1>1, <1>2, KindsOfSeq
<1>5. \A i \in 1 .. Len(s) - n : KindsOf(r)[i] = k[i]
  BY <1>1, <1>3, <1>4, KindsOfSeq
<1>6. QED
  BY <1>2, <1>3, <1>4, <1>5, SeqEqual

LEMMA KindsOfOne ==
  ASSUME NEW v \in Values
  PROVE  <<v>> \in Seq(Values) /\ KindsOf(<<v>>) = <<Kind(v)>>
BY DEF KindsOf

----------------------------------------------------------------------------
(***************************************************************************)
(* A running frame and its shape.                                          *)
(***************************************************************************)

\* While a frame runs, its flow has its shape; and how it ended was in order.
Inv ==
  /\ method \in Methods /\ Certified(method)
  /\ TypeOK
  /\ result = Running => Len(trace) <= MaxCalls /\ Shape \in Flow(method)
  /\ OperandsBalanced
  /\ CheckedExceptionsAreDeclared

LEMMA Trusted ==
  ASSUME Inv, result = Running
  PROVE  Accepts(method, Shape) /\ Follows(method, Shape) \subseteq Flow(method)
BY DEF Inv, Certified, Certifies

LEMMA Sees ==
  ASSUME Inv
  PROVE  /\ Shape.pc = pc /\ Shape.stack = KindsOf(stack) /\ Shape.locals = KindsOf(locals)
         /\ pc \in Nat \ {0} /\ Len(stack) \in Nat /\ Len(code) \in Nat
         /\ Len(Shape.stack) = Len(stack) /\ (Shape.stack = <<>> <=> stack = <<>>)
         /\ stack = <<>> <=> Len(stack) = 0
         /\ Len(stack) >= 1 => TopOf(stack) \in Values /\ Operand(Shape, 1) = Kind(TopOf(stack))
         /\ Len(stack) >= 2 => Left \in Values /\ Operand(Shape, 2) = Kind(Left)
         /\ DOMAIN Shape.locals = DOMAIN locals
         /\ \A slot \in DOMAIN locals :
              locals[slot] \in Values /\ Shape.locals[slot] = Kind(locals[slot])
<1>1. stack \in Seq(Values) /\ locals \in [0 .. method.locals - 1 -> Values]
      /\ Len(code) \in Nat /\ pc \in 1 .. Len(code) + 1
  BY MethodsAssumption DEF Inv, TypeOK, code
<1>2. Shape.pc = pc /\ Shape.stack = KindsOf(stack) /\ Shape.locals = KindsOf(locals)
  BY DEF Shape
<1>3. Len(stack) \in Nat /\ stack \in [1 .. Len(stack) -> Values]
  BY <1>1, LenProperties
<1>4. /\ KindsOf(stack) \in Seq(Values) /\ Len(KindsOf(stack)) = Len(stack)
      /\ \A i \in 1 .. Len(stack) : KindsOf(stack)[i] = Kind(stack[i])
  BY <1>1, KindsOfSeq
<1>5. stack = <<>> <=> Len(stack) = 0
  BY <1>1, EmptySeq
<1>6. Shape.stack = <<>> <=> stack = <<>>
  BY <1>2, <1>4, <1>5, EmptySeq
<1>7. Len(stack) >= 1 => TopOf(stack) \in Values /\ Operand(Shape, 1) = Kind(TopOf(stack))
  BY <1>2, <1>3, <1>4 DEF TopOf, Operand
<1>8. Len(stack) >= 2 => Left \in Values /\ Operand(Shape, 2) = Kind(Left)
  BY <1>2, <1>3, <1>4 DEF Left, Operand
<1>9. DOMAIN Shape.locals = DOMAIN locals
      /\ \A slot \in DOMAIN locals :
           locals[slot] \in Values /\ Shape.locals[slot] = Kind(locals[slot])
  BY <1>1, <1>2 DEF KindsOf
<1>10. QED
  BY <1>1, <1>2, <1>3, <1>4, <1>5, <1>6, <1>7, <1>8, <1>9

\* What the verifier accepts is what the instruction needs.
LEMMA Needs ==
  ASSUME Inv, Active
  PROVE  /\ Instr = "const" => Arg \in Values
         /\ Instr \in {"load", "store", "iinc"} => Arg \in DOMAIN locals
         /\ Instr = "load" => locals[Arg] # Unset
         /\ Instr = "iinc" => locals[Arg][1] = "int"
         /\ Instr \in {"store", "dup", "is_null", "is_nonnull", "array_length", "if_true",
                       "if_false", "return_value", "throw"} => Len(stack) >= 1
         /\ Instr \in {"cmp_eq", "cmp_lt", "array_load"} => Len(stack) >= 2
         /\ Instr = "array_length" => TopOf(stack)[1] = "array"
         /\ Instr = "cmp_lt" => Left[1] = "int" /\ Right[1] = "int"
         /\ Instr = "array_load" => Left[1] = "array" /\ Right[1] = "int"
         /\ Instr \in {"if_true", "if_false"} => TopOf(stack)[1] = "bool"
         /\ Instr = "invoke" => Arg.ty \in ResultTypes /\ Len(Arg.args) \in 0 .. Len(stack)
         /\ Instr = "return" => stack = <<>>
         /\ Instr = "return_value" => Len(stack) = 1
         /\ Instr = "throw" => TopOf(stack)[1] \in {"null", "exc"}
         /\ \A e \in Raised(method, Shape) :
              Handlers(method, pc, e[2]) = {} => Declared(method, e[2])
<1> DEFINE i == method.code[Shape.pc]
<1>1. Accepts(method, Shape) /\ Shape.pc <= Len(method.code) /\ Shape.pc = pc
  BY Trusted, Sees DEF Active, code
<1>2. i.op = Instr /\ i.a = Arg
  BY <1>1 DEF Instr, Arg, code
<1>3. \A e \in Raised(method, Shape) :
        Handlers(method, pc, e[2]) = {} => Declared(method, e[2])
  BY <1>1 DEF Accepts
<1>4. Instr = "const" => Arg \in Values
  BY <1>1, <1>2 DEF Accepts
<1>5. /\ Instr \in {"load", "store", "iinc"} => Arg \in DOMAIN Shape.locals
      /\ Instr = "load" => Shape.locals[Arg] # Unset
      /\ Instr = "iinc" => Shape.locals[Arg] = IntKind
  BY <1>1, <1>2 DEF Accepts
<1>6. Instr \in {"store", "dup", "is_null", "is_nonnull", "array_length", "if_true",
                 "if_false", "return_value", "throw"} => Len(Shape.stack) >= 1
  BY <1>1, <1>2 DEF Accepts
<1>7. Instr \in {"cmp_eq", "cmp_lt", "array_load"} => Len(Shape.stack) >= 2
  BY <1>1, <1>2 DEF Accepts
<1>8. /\ Instr = "array_length" => Operand(Shape, 1) = ArrayKind
      /\ Instr = "cmp_lt" => Operand(Shape, 1) = IntKind /\ Operand(Shape, 2) = IntKind
      /\ Instr = "array_load" => Operand(Shape, 1) = IntKind /\ Operand(Shape, 2) = ArrayKind
      /\ Instr \in {"if_true", "if_false"} => Operand(Shape, 1) = BoolKind
      /\ Instr = "throw" => Operand(Shape, 1)[1] \in {"null", "exc"}
  BY <1>1, <1>2 DEF Accepts
<1>9. Instr = "invoke" => Arg.ty \in ResultTypes /\ Len(Arg.args) \in 0 .. Len(Shape.stack)
  BY <1>1, <1>2, Sees DEF Accepts
<1>10. /\ Instr = "return" => ~(Len(Shape.stack) >= 1)
       /\ Instr = "return_value" => ~(Len(Shape.stack) >= 2)
  BY <1>1, <1>2 DEF Accepts
<1> HIDE DEF i
<1>11. Len(Shape.stack) = Len(stack) /\ Len(stack) \in Nat /\ (stack = <<>> <=> Len(stack) = 0)
  BY Sees
<1>12. /\ Instr \in {"load", "store", "iinc"} => Arg \in DOMAIN locals
       /\ Instr = "load" => locals[Arg] # Unset
       /\ Instr = "iinc" => locals[Arg][1] = "int"
  <2>1. SUFFICES ASSUME Instr \in {"load", "store", "iinc"}
                 PROVE  /\ Arg \in DOMAIN locals
                        /\ Instr = "load" => locals[Arg] # Unset
                        /\ Instr = "iinc" => locals[Arg][1] = "int"
    OBVIOUS
  <2>2. Arg \in DOMAIN locals /\ locals[Arg] \in Values /\ Shape.locals[Arg] = Kind(locals[Arg])
    BY <1>5, <2>1, Sees
  <2>3. QED
    BY <1>5, <2>2, KindOfValue, KindIsTag
<1>13. /\ Instr = "array_length" => TopOf(stack)[1] = "array"
       /\ Instr \in {"if_true", "if_false"} => TopOf(stack)[1] = "bool"
       /\ Instr = "throw" => TopOf(stack)[1] \in {"null", "exc"}
  <2>1. SUFFICES ASSUME Instr \in {"array_length", "if_true", "if_false", "throw"}
                 PROVE  /\ Instr = "array_length" => TopOf(stack)[1] = "array"
                        /\ Instr \in {"if_true", "if_false"} => TopOf(stack)[1] = "bool"
                        /\ Instr = "throw" => TopOf(stack)[1] \in {"null", "exc"}
    OBVIOUS
  <2>2. TopOf(stack) \in Values /\ Operand(Shape, 1) = Kind(TopOf(stack))
    BY <1>6, <1>11, <2>1, Sees
  <2>3. QED
    BY <1>8, <2>2, KindOfValue, KindIsTag
<1>14. /\ Instr = "cmp_lt" => Left[1] = "int" /\ Right[1] = "int"
       /\ Instr = "array_load" => Left[1] = "array" /\ Right[1] = "int"
  <2>1. SUFFICES ASSUME Instr \in {"cmp_lt", "array_load"}
                 PROVE  /\ Instr = "cmp_lt" => Left[1] = "int" /\ Right[1] = "int"
                        /\ Instr = "array_load" => Left[1] = "array" /\ Right[1] = "int"
    OBVIOUS
  <2>2. /\ Right \in Values /\ Operand(Shape, 1) = Kind(Right)
        /\ Left \in Values /\ Operand(Shape, 2) = Kind(Left)
    BY <1>7, <1>11, <2>1, Sees DEF Right
  <2>3. QED
    BY <1>8, <2>2, KindIsTag
<1>15. /\ Instr \in {"store", "dup", "is_null", "is_nonnull", "array_length", "if_true",
                     "if_false", "return_value", "throw"} => Len(stack) >= 1
       /\ Instr \in {"cmp_eq", "cmp_lt", "array_load"} => Len(stack) >= 2
  BY <1>6, <1>7, <1>11
<1>16. Instr = "invoke" => Arg.ty \in ResultTypes /\ Len(Arg.args) \in 0 .. Len(stack)
  BY <1>9, <1>11
<1>17. (Instr = "return" => stack = <<>>) /\ (Instr = "return_value" => Len(stack) = 1)
  <2>1. Instr = "return_value" => Len(stack) >= 1
    BY <1>15
  <2>2. Instr = "return" => Len(stack) = 0
    BY <1>10, <1>11
  <2>3. Instr = "return_value" => Len(stack) = 1
    <3>1. SUFFICES ASSUME Instr = "return_value"
                   PROVE  Len(stack) = 1
      OBVIOUS
    <3>2. ~(Len(stack) >= 2)
      BY <1>10, <1>11, <3>1
    <3>3. \A n \in Nat : n >= 1 /\ ~(n >= 2) => n = 1
      OBVIOUS
    <3>4. QED
      BY <1>11, <2>1, <3>1, <3>2, <3>3
  <2>4. QED
    BY <1>11, <2>2, <2>3
<1>18. QED
  BY <1>3, <1>4, <1>12, <1>13, <1>14, <1>15, <1>16, <1>17

\* What the flow goes on with after each instruction.
LEMMA Continuation ==
  ASSUME Inv, Active
  PROVE  /\ Completions(method, Shape) \subseteq Flow(method)
         /\ Landings(method, Shape) \subseteq Flow(method)
         /\ Instr = "const" => Completions(method, Shape) = Goes(Shape, 0, <<Kind(Arg)>>)
         /\ Instr = "load" => Completions(method, Shape) = Goes(Shape, 0, <<Shape.locals[Arg]>>)
         /\ Instr = "store" =>
              Completions(method, Shape) =
                {[pc |-> Shape.pc + 1, stack |-> Below(Shape, 1),
                  locals |-> [Shape.locals EXCEPT ![Arg] = Operand(Shape, 1)]]}
         /\ Instr = "iinc" => Completions(method, Shape) = Goes(Shape, 0, <<>>)
         /\ Instr = "pop" =>
              Completions(method, Shape) = Goes(Shape, IF stack = <<>> THEN 0 ELSE 1, <<>>)
         /\ Instr = "dup" => Completions(method, Shape) = Goes(Shape, 0, <<Operand(Shape, 1)>>)
         /\ Instr \in {"is_null", "is_nonnull"} =>
              Completions(method, Shape) = Goes(Shape, 1, <<BoolKind>>)
         /\ Instr = "array_length" => Completions(method, Shape) = Goes(Shape, 1, <<IntKind>>)
         /\ Instr \in {"cmp_eq", "cmp_lt"} =>
              Completions(method, Shape) = Goes(Shape, 2, <<BoolKind>>)
         /\ Instr = "array_load" => Completions(method, Shape) = Goes(Shape, 2, <<IntKind>>)
         /\ Instr = "goto" =>
              Completions(method, Shape) = {[pc |-> Arg, stack |-> Shape.stack, locals |-> Shape.locals]}
         /\ Instr \in {"if_true", "if_false"} =>
              Completions(method, Shape) =
                {[pc |-> target, stack |-> Below(Shape, 1), locals |-> Shape.locals] :
                   target \in {Arg, Shape.pc + 1}}
         /\ Instr = "invoke" /\ Arg.ty = "void" =>
              Completions(method, Shape) = Goes(Shape, Len(Arg.args), <<>>)
         /\ Instr = "invoke" /\ Arg.ty # "void" =>
              Completions(method, Shape) =
                UNION {Goes(Shape, Len(Arg.args), <<Kind(v)>>) : v \in Returns(Arg.ty)}
<1>1. Follows(method, Shape) \subseteq Flow(method) /\ Shape.pc <= Len(method.code) /\ Shape.pc = pc
  BY Trusted, Sees DEF Active, code
<1>2. method.code[Shape.pc].op = Instr /\ method.code[Shape.pc].a = Arg
  BY <1>1 DEF Instr, Arg, code
<1>3. /\ Completions(method, Shape) \subseteq Flow(method)
      /\ Landings(method, Shape) \subseteq Flow(method)
  BY <1>1 DEF Follows
<1>4. /\ Instr = "const" => Completions(method, Shape) = Goes(Shape, 0, <<Kind(Arg)>>)
      /\ Instr = "load" => Completions(method, Shape) = Goes(Shape, 0, <<Shape.locals[Arg]>>)
      /\ Instr = "store" =>
           Completions(method, Shape) =
             {[pc |-> Shape.pc + 1, stack |-> Below(Shape, 1),
               locals |-> [Shape.locals EXCEPT ![Arg] = Operand(Shape, 1)]]}
      /\ Instr = "iinc" => Completions(method, Shape) = Goes(Shape, 0, <<>>)
  BY <1>2 DEF Completions
<1>5. Instr = "pop" =>
        Completions(method, Shape) = Goes(Shape, IF stack = <<>> THEN 0 ELSE 1, <<>>)
  BY <1>2, Sees DEF Completions
<1>6. /\ Instr = "dup" => Completions(method, Shape) = Goes(Shape, 0, <<Operand(Shape, 1)>>)
      /\ Instr \in {"is_null", "is_nonnull"} =>
           Completions(method, Shape) = Goes(Shape, 1, <<BoolKind>>)
      /\ Instr = "array_length" => Completions(method, Shape) = Goes(Shape, 1, <<IntKind>>)
      /\ Instr \in {"cmp_eq", "cmp_lt"} =>
           Completions(method, Shape) = Goes(Shape, 2, <<BoolKind>>)
      /\ Instr = "array_load" => Completions(method, Shape) = Goes(Shape, 2, <<IntKind>>)
  BY <1>2 DEF Completions
<1>7. /\ Instr = "goto" =>
           Completions(method, Shape) = {[pc |-> Arg, stack |-> Shape.stack, locals |-> Shape.locals]}
      /\ Instr \in {"if_true", "if_false"} =>
           Completions(method, Shape) =
             {[pc |-> target, stack |-> Below(Shape, 1), locals |-> Shape.locals] :
                target \in {Arg, Shape.pc + 1}}
  BY <1>2 DEF Completions
<1>8. /\ Instr = "invoke" /\ Arg.ty = "void" =>
           Completions(method, Shape) = Goes(Shape, Len(Arg.args), <<>>)
      /\ Instr = "invoke" /\ Arg.ty # "void" =>
           Completions(method, Shape) =
             UNION {Goes(Shape, Len(Arg.args), <<Kind(v)>>) : v \in Returns(Arg.ty)}
  BY <1>2 DEF Completions
<1>9. QED
  BY <1>3, <1>4, <1>5, <1>6, <1>7, <1>8

LEMMA DropKinds ==
  ASSUME Inv, NEW n \in 0 .. Len(stack)
  PROVE  /\ Drop(n) \in Seq(Values)
         /\ KindsOf(Drop(n)) = Below(Shape, n)
         /\ Drop(0) = stack
<1>1. stack \in Seq(Values)
  BY DEF Inv, TypeOK
<1>2. Len(Shape.stack) = Len(stack) /\ Shape.stack = KindsOf(stack)
  BY Sees
<1>3. Drop(n) \in Seq(Values) /\ KindsOf(Drop(n)) = Below(Shape, n)
  BY <1>1, <1>2, KindsOfBelow DEF Drop, Below
<1>4. Len(stack) - 0 = Len(stack)
  BY <1>1, LenProperties
<1>5. Drop(0) = stack
  BY <1>1, <1>4, SubSeqFull DEF Drop
<1>6. QED
  BY <1>3, <1>5

\* n operands replaced by the values vs.
LEMMA Went ==
  ASSUME Inv, NEW n \in 0 .. Len(stack), NEW vs \in Seq(Values),
         pc' = pc + 1, stack' = Drop(n) \o vs, KindsOf(locals)' = KindsOf(locals)
  PROVE  stack' \in Seq(Values) /\ Shape' \in Goes(Shape, n, KindsOf(vs))
<1>1. Drop(n) \in Seq(Values) /\ KindsOf(Drop(n)) = Below(Shape, n)
  BY DropKinds
<1>2. stack' \in Seq(Values)
  BY <1>1, ConcatProperties
<1>3. KindsOf(stack)' = Below(Shape, n) \o KindsOf(vs)
  <2>1. KindsOf(Drop(n) \o vs) = KindsOf(Drop(n)) \o KindsOf(vs)
    BY <1>1, KindsOfConcat
  <2>2. KindsOf(stack') = KindsOf(stack)'
    BY DEF KindsOf
  <2>3. QED
    BY <1>1, <2>1, <2>2
<1>4. Shape' = [pc |-> pc + 1, stack |-> Below(Shape, n) \o KindsOf(vs), locals |-> KindsOf(locals)]
  BY <1>3 DEF Shape
<1>5. QED
  BY <1>2, <1>4, Sees DEF Goes

LEMMA Pushed ==
  ASSUME Inv, NEW n \in 0 .. Len(stack), NEW v \in Values,
         pc' = pc + 1, stack' = Append(Drop(n), v), KindsOf(locals)' = KindsOf(locals)
  PROVE  stack' \in Seq(Values) /\ Shape' \in Goes(Shape, n, <<Kind(v)>>)
<1>1. <<v>> \in Seq(Values) /\ KindsOf(<<v>>) = <<Kind(v)>>
  BY KindsOfOne
<1>2. stack' = Drop(n) \o <<v>>
  BY DropKinds, AppendIsConcat
<1>3. QED
  BY <1>1, <1>2, Went

LEMMA Popped ==
  ASSUME Inv, NEW n \in 0 .. Len(stack),
         pc' = pc + 1, stack' = Drop(n), KindsOf(locals)' = KindsOf(locals)
  PROVE  stack' \in Seq(Values) /\ Shape' \in Goes(Shape, n, <<>>)
<1>1. <<>> \in Seq(Values) /\ KindsOf(<<>>) = <<>>
  BY EmptySeq DEF KindsOf
<1>2. stack' = Drop(n) \o <<>>
  BY DropKinds, ConcatEmptySeq
<1>3. QED
  BY <1>1, <1>2, Went

----------------------------------------------------------------------------
(***************************************************************************)
(* Every step is sound: it keeps the types, and the frame is left with a   *)
(* shape of its flow or ends as the verifier allows.                       *)
(***************************************************************************)
Ends == {"running", "return", "throw", "exit"}
Outcomes == [k : {"normal", "throw", "exit"}, v : Values]

Sound ==
  /\ method' = method
  /\ stack' \in Seq(Values)
  /\ locals' \in [0 .. method.locals - 1 -> Values]
  /\ trace' \in Seq(Outcomes) /\ Len(trace') <= MaxCalls + 1
  /\ result' \in Ends \X Values
  /\ result' = Running => Len(trace') <= MaxCalls /\ Shape' \in Flow(method)
  /\ result' # Running => pc' = pc
  /\ result'[1] = "return" => stack' = <<>>
  /\ result'[1] = "throw" => Declared(method, result'[2][2])

LEMMA Before ==
  ASSUME Inv, result = Running
  PROVE  /\ stack \in Seq(Values) /\ locals \in [0 .. method.locals - 1 -> Values]
         /\ trace \in Seq(Outcomes) /\ Len(trace) \in Nat
         /\ Len(trace) <= MaxCalls /\ Len(trace) <= MaxCalls + 1
         /\ Running \in Ends \X Values /\ Running[1] = "running"
<1>1. stack \in Seq(Values) /\ locals \in [0 .. method.locals - 1 -> Values]
      /\ trace \in Seq(Outcomes) /\ Len(trace) <= MaxCalls
  BY DEF Inv, TypeOK, Outcomes
<1>2. Len(trace) \in Nat /\ Len(trace) <= MaxCalls + 1
  BY <1>1, LenProperties, MaxCallsAssumption
<1>3. Running \in Ends \X Values /\ Running[1] = "running"
  BY Constructors DEF Running, Ends
<1>4. QED
  BY <1>1, <1>2, <1>3

\* The next instruction, with calls answered or not.
LEMMA Continues ==
  ASSUME Inv, Active, method' = method, result' = result, stack' \in Seq(Values),
         locals' \in [0 .. method.locals - 1 -> Values],
         trace' \in Seq(Outcomes), Len(trace') <= MaxCalls,
         Shape' \in Completions(method, Shape)
  PROVE  Sound
<1>1. result' = Running /\ Running \in Ends \X Values /\ Running[1] = "running"
  BY Before DEF Active
<1>2. Shape' \in Flow(method)
  BY Continuation
<1>3. Len(trace') <= MaxCalls + 1
  BY LenProperties, MaxCallsAssumption
<1>4. QED
  BY <1>1, <1>2, <1>3 DEF Sound

LEMMA GoesOn ==
  ASSUME Inv, Active, UNCHANGED <<method, trace, result>>, stack' \in Seq(Values),
         locals' \in [0 .. method.locals - 1 -> Values],
         Shape' \in Completions(method, Shape)
  PROVE  Sound
<1>1. trace' \in Seq(Outcomes) /\ Len(trace') <= MaxCalls
  BY Before DEF Active
<1>2. QED
  BY <1>1, Continues

LEMMA Raises ==
  ASSUME Inv, Active, NEW exc \in Values, exc[1] = "exc", exc \in Raised(method, Shape),
         Raise(exc), trace' \in Seq(Outcomes), Len(trace') <= MaxCalls
  PROVE  Sound
<1> DEFINE fit == Handlers(method, pc, exc[2])
<1>1. /\ stack \in Seq(Values) /\ locals \in [0 .. method.locals - 1 -> Values]
      /\ Running \in Ends \X Values /\ Running[1] = "running"
  BY Before DEF Active
<1>2. method' = method /\ locals' = locals /\ Len(trace') <= MaxCalls + 1
  BY LenProperties, MaxCallsAssumption DEF Raise
<1>3. CASE fit = {}
  <2>1. result' = <<"throw", exc>> /\ pc' = pc /\ stack' = stack
    BY <1>3 DEF Raise
  <2>2. Declared(method, exc[2])
    BY <1>3, Needs
  <2>3. result' \in Ends \X Values /\ result' # Running /\ result'[1] = "throw" /\ result'[2] = exc
    BY <2>1 DEF Ends, Running
  <2>4. QED
    BY <1>1, <1>2, <2>1, <2>2, <2>3 DEF Sound
<1>4. CASE fit # {}
  <2>1. stack' = <<exc>> /\ pc' = method.table[Min(fit)].handler /\ result' = Running
    BY <1>4 DEF Raise, Active
  <2>2. <<exc>> \in Seq(Values) /\ KindsOf(<<exc>>) = <<exc>>
    BY KindsOfOne, KindOfValue
  <2>3. KindsOf(stack)' = <<exc>> /\ KindsOf(locals)' = KindsOf(locals)
    BY <1>2, <2>1, <2>2 DEF KindsOf
  <2>4. Shape' = [pc |-> method.table[Min(fit)].handler, stack |-> <<exc>>,
                  locals |-> KindsOf(locals)]
    BY <2>1, <2>3 DEF Shape
  <2>5. Shape' \in Landings(method, Shape)
    BY <1>4, <2>4, Sees DEF Landings
  <2>6. Shape' \in Flow(method)
    BY <2>5, Continuation
  <2>7. QED
    BY <1>1, <1>2, <2>1, <2>2, <2>6 DEF Sound
<1>5. QED
  BY <1>3, <1>4

----------------------------------------------------------------------------
(***************************************************************************)
(* The instructions.                                                       *)
(***************************************************************************)

\* Those that only put a value in the place of n operands.
LEMMA Replaces ==
  ASSUME Inv, Active, Advance, Stays,
         NEW n \in 0 .. Len(stack), NEW v \in Values, stack' = Append(Drop(n), v),
         Completions(method, Shape) = Goes(Shape, n, <<Kind(v)>>)
  PROVE  Sound
<1>1. UNCHANGED <<method, locals, trace, result>> /\ pc' = pc + 1
  BY DEF Stays, Advance
<1>2. KindsOf(locals)' = KindsOf(locals)
  BY <1>1 DEF KindsOf
<1>3. stack' \in Seq(Values) /\ Shape' \in Completions(method, Shape)
  BY <1>1, <1>2, Pushed
<1>4. locals' \in [0 .. method.locals - 1 -> Values]
  BY <1>1, Before DEF Active
<1>5. QED
  BY <1>1, <1>3, <1>4, GoesOn

LEMMA Discards ==
  ASSUME Inv, Active, Advance, Stays, NEW n \in 0 .. Len(stack), stack' = Drop(n),
         Completions(method, Shape) = Goes(Shape, n, <<>>)
  PROVE  Sound
<1>1. UNCHANGED <<method, locals, trace, result>> /\ pc' = pc + 1
  BY DEF Stays, Advance
<1>2. KindsOf(locals)' = KindsOf(locals)
  BY <1>1 DEF KindsOf
<1>3. stack' \in Seq(Values) /\ Shape' \in Completions(method, Shape)
  BY <1>1, <1>2, Popped
<1>4. locals' \in [0 .. method.locals - 1 -> Values]
  BY <1>1, Before DEF Active
<1>5. QED
  BY <1>1, <1>3, <1>4, GoesOn

LEMMA PushConstSound ==
  ASSUME Inv, PushConst
  PROVE  Sound
<1>1. Active /\ Instr = "const" /\ Advance /\ Stays
  BY DEF PushConst, At
<1>2. Arg \in Values /\ Completions(method, Shape) = Goes(Shape, 0, <<Kind(Arg)>>)
  BY <1>1, Needs, Continuation
<1>3. 0 \in 0 .. Len(stack) /\ stack' = Append(Drop(0), Arg)
  <2>1. 0 \in 0 .. Len(stack)
    BY Sees
  <2>2. QED
    BY <2>1, DropKinds DEF PushConst
<1>4. QED
  BY <1>1, <1>2, <1>3, Replaces

LEMMA LoadSound ==
  ASSUME Inv, Load
  PROVE  Sound
<1>1. Active /\ Instr = "load" /\ Advance /\ Stays
  BY DEF Load, At
<1>2. Arg \in DOMAIN locals /\ Completions(method, Shape) = Goes(Shape, 0, <<Shape.locals[Arg]>>)
  BY <1>1, Needs, Continuation
<1>3. locals[Arg] \in Values /\ Shape.locals[Arg] = Kind(locals[Arg])
  BY <1>2, Sees
<1>4. 0 \in 0 .. Len(stack) /\ stack' = Append(Drop(0), locals[Arg])
  <2>1. 0 \in 0 .. Len(stack)
    BY Sees
  <2>2. QED
    BY <2>1, DropKinds DEF Load
<1>5. QED
  BY <1>1, <1>2, <1>3, <1>4, Replaces

LEMMA StoreSound ==
  ASSUME Inv, Store
  PROVE  Sound
<1>1. Active /\ Instr = "store"
  BY DEF Store, At
<1>2. Arg \in DOMAIN locals /\ Len(stack) >= 1
  BY <1>1, Needs
<1>3. stack # <<>> /\ 1 \in 0 .. Len(stack)
      /\ TopOf(stack) \in Values /\ Operand(Shape, 1) = Kind(TopOf(stack))
  BY <1>2, Sees
<1>4. /\ locals' = [locals EXCEPT ![Arg] = TopOf(stack)] /\ stack' = Drop(1)
      /\ pc' = pc + 1 /\ UNCHANGED <<method, trace, result>>
  BY <1>3 DEF Store, Advance
<1>5. locals \in [0 .. method.locals - 1 -> Values]
  BY <1>1, Before DEF Active
<1>6. locals' \in [0 .. method.locals - 1 -> Values]
      /\ KindsOf(locals)' = [KindsOf(locals) EXCEPT ![Arg] = Kind(TopOf(stack))]
  BY <1>2, <1>3, <1>4, <1>5 DEF KindsOf
<1>7. stack' \in Seq(Values) /\ KindsOf(stack)' = Below(Shape, 1)
  <2>1. Drop(1) \in Seq(Values) /\ KindsOf(Drop(1)) = Below(Shape, 1)
    BY <1>3, DropKinds
  <2>2. QED
    BY <1>4, <2>1 DEF KindsOf
<1>8. Shape' = [pc |-> pc + 1, stack |-> Below(Shape, 1),
                locals |-> [KindsOf(locals) EXCEPT ![Arg] = Kind(TopOf(stack))]]
  BY <1>4, <1>6, <1>7 DEF Shape
<1>9. Shape' \in Completions(method, Shape)
  BY <1>1, <1>3, <1>8, Sees, Continuation
<1>10. QED
  BY <1>1, <1>4, <1>6, <1>7, <1>9, GoesOn

LEMMA PopSound ==
  ASSUME Inv, PopTop
  PROVE  Sound
<1>1. Active /\ Instr = "pop" /\ Advance /\ Stays
  BY DEF PopTop, At
<1> DEFINE n == IF stack = <<>> THEN 0 ELSE 1
<1>2. n \in 0 .. Len(stack)
  BY Sees
<1>3. stack' = Drop(n)
  <2>1. 0 \in 0 .. Len(stack)
    BY Sees
  <2>2. QED
    BY <2>1, DropKinds DEF PopTop
<1>4. Completions(method, Shape) = Goes(Shape, n, <<>>)
  BY <1>1, Continuation
<1> HIDE DEF n
<1>5. QED
  BY <1>1, <1>2, <1>3, <1>4, Discards

LEMMA DupSound ==
  ASSUME Inv, Dup
  PROVE  Sound
<1>1. Active /\ Instr = "dup"
  BY DEF Dup, At
<1>2. Len(stack) >= 1 /\ Completions(method, Shape) = Goes(Shape, 0, <<Operand(Shape, 1)>>)
  BY <1>1, Needs, Continuation
<1>3. stack # <<>> /\ 0 \in 0 .. Len(stack)
      /\ TopOf(stack) \in Values /\ Operand(Shape, 1) = Kind(TopOf(stack))
  BY <1>2, Sees
<1>4. stack' = Append(Drop(0), TopOf(stack)) /\ Advance /\ Stays
  BY <1>3, DropKinds DEF Dup
<1>5. QED
  BY <1>1, <1>2, <1>3, <1>4, Replaces

LEMMA IIncSound ==
  ASSUME Inv, IInc
  PROVE  Sound
<1>1. Active /\ Instr = "iinc"
  BY DEF IInc, At
<1>2. Arg \in DOMAIN locals /\ locals[Arg][1] = "int"
      /\ Completions(method, Shape) = Goes(Shape, 0, <<>>)
  BY <1>1, Needs, Continuation
<1> DEFINE new == IntV(locals[Arg][2] + 1)
<1>3. locals' = [locals EXCEPT ![Arg] = new] /\ stack' = stack
      /\ pc' = pc + 1 /\ UNCHANGED <<method, trace, result>>
  BY <1>2 DEF IInc, Advance
<1>4. locals \in [0 .. method.locals - 1 -> Values]
  BY <1>1, Before DEF Active
<1>5. locals[Arg] \in Values
  BY <1>2, <1>4
<1>6. new \in Values /\ Kind(new) = Kind(locals[Arg])
  <2>1. locals[Arg][2] + 1 \in Int
    BY <1>2, <1>5, Contents
  <2>2. new \in Values /\ Kind(new) = IntKind
    BY <2>1, Constructors
  <2>3. Kind(locals[Arg]) = IntKind
    BY <1>2, <1>5, KindIsTag
  <2>4. QED
    BY <2>2, <2>3
<1> HIDE DEF new
<1>7. locals' \in [0 .. method.locals - 1 -> Values] /\ KindsOf(locals)' = KindsOf(locals)
  BY <1>2, <1>3, <1>4, <1>6 DEF KindsOf
<1>8. 0 \in 0 .. Len(stack) /\ stack' = Drop(0)
  <2>1. 0 \in 0 .. Len(stack)
    BY Sees
  <2>2. QED
    BY <1>3, <2>1, DropKinds
<1>9. stack' \in Seq(Values) /\ Shape' \in Completions(method, Shape)
  BY <1>2, <1>3, <1>7, <1>8, Popped
<1>10. QED
  BY <1>1, <1>3, <1>7, <1>9, GoesOn

LEMMA NullTestSound ==
  ASSUME Inv, NullTest
  PROVE  Sound
<1>1. Active /\ Instr \in {"is_null", "is_nonnull"}
  BY DEF NullTest, At
<1>2. Len(stack) >= 1 /\ Completions(method, Shape) = Goes(Shape, 1, <<BoolKind>>)
  BY <1>1, Needs, Continuation
<1>3. stack # <<>> /\ 1 \in 0 .. Len(stack)
  BY <1>2, Sees
<1>4. PICK v \in {True, False} : stack' = Append(Drop(1), v) /\ Advance /\ Stays
  BY <1>3 DEF NullTest
<1>5. v \in Values /\ Kind(v) = BoolKind
  BY Constructors
<1>6. QED
  BY <1>1, <1>2, <1>3, <1>4, <1>5, Replaces

LEMMA ArrayLengthSound ==
  ASSUME Inv, ArrayLength
  PROVE  Sound
<1>1. Active /\ Instr = "array_length"
  BY DEF ArrayLength, At
<1>2. /\ Len(stack) >= 1 /\ TopOf(stack)[1] = "array"
      /\ Completions(method, Shape) = Goes(Shape, 1, <<IntKind>>)
  BY <1>1, Needs, Continuation
<1>3. stack # <<>> /\ 1 \in 0 .. Len(stack) /\ TopOf(stack) \in Values
  BY <1>2, Sees
<1>4. stack' = Append(Drop(1), IntV(TopOf(stack)[2])) /\ Advance /\ Stays
  BY <1>2, <1>3 DEF ArrayLength
<1>5. IntV(TopOf(stack)[2]) \in Values /\ Kind(IntV(TopOf(stack)[2])) = IntKind
  BY <1>2, <1>3, Contents, Constructors
<1>6. QED
  BY <1>1, <1>2, <1>3, <1>4, <1>5, Replaces

LEMMA CompareSound ==
  ASSUME Inv, Compare
  PROVE  Sound
<1>1. Active /\ Instr \in {"cmp_eq", "cmp_lt"}
  BY DEF Compare, At
<1>2. /\ Len(stack) >= 2 /\ (Instr = "cmp_lt" => Left[1] = "int" /\ Right[1] = "int")
      /\ Completions(method, Shape) = Goes(Shape, 2, <<BoolKind>>)
  BY <1>1, Needs, Continuation
<1>3. ~(Len(stack) < 2) /\ 2 \in 0 .. Len(stack)
  BY <1>2, Sees
<1>4. PICK v \in {True, False} : stack' = Append(Drop(2), v) /\ Advance /\ Stays
  BY <1>2, <1>3 DEF Compare
<1>5. v \in Values /\ Kind(v) = BoolKind
  BY Constructors
<1>6. QED
  BY <1>1, <1>2, <1>3, <1>4, <1>5, Replaces

LEMMA ArrayLoadSound ==
  ASSUME Inv, ArrayLoad
  PROVE  Sound
<1>1. Active /\ Instr = "array_load"
  BY DEF ArrayLoad, At
<1>2. /\ Len(stack) >= 2 /\ Left[1] = "array" /\ Right[1] = "int"
      /\ Completions(method, Shape) = Goes(Shape, 2, <<IntKind>>)
  BY <1>1, Needs, Continuation
<1>3. ~(Len(stack) < 2) /\ 2 \in 0 .. Len(stack) /\ Right \in Values
  BY <1>2, Sees DEF Right
<1>4. CASE Right[2] \in 0 .. Left[2] - 1
  <2>1. stack' = Append(Drop(2), Right) /\ Advance /\ Stays
    BY <1>2, <1>3, <1>4 DEF ArrayLoad
  <2>2. Kind(Right) = IntKind
    BY <1>2, <1>3, KindIsTag
  <2>3. QED
    BY <1>1, <1>2, <1>3, <2>1, <2>2, Replaces
<1>5. CASE Right[2] \notin 0 .. Left[2] - 1
  <2>1. Raise(Exc("RuntimeException")) /\ trace' = trace
    BY <1>2, <1>3, <1>5 DEF ArrayLoad
  <2>2. Exc("RuntimeException") \in Values /\ Exc("RuntimeException")[1] = "exc"
    BY Constructors DEF Exc
  <2>3. Exc("RuntimeException") \in Raised(method, Shape)
    BY <1>1, Sees DEF Raised, Instr, code
  <2>4. QED
    BY <1>1, <2>1, <2>2, <2>3, Before, Raises DEF Active
<1>6. QED
  BY <1>4, <1>5

LEMMA BranchSound ==
  ASSUME Inv, Branch
  PROVE  Sound
<1>1. CASE At({"goto"}) /\ pc' = Arg /\ UNCHANGED stack /\ Stays
  <2>1. Active /\ Instr = "goto" /\ UNCHANGED <<method, locals, trace, result>>
    BY <1>1 DEF At, Stays
  <2>2. Shape' = [pc |-> Arg, stack |-> Shape.stack, locals |-> Shape.locals]
    BY <1>1, <2>1 DEF Shape, KindsOf
  <2>3. Shape' \in Completions(method, Shape)
    BY <2>1, <2>2, Continuation
  <2>4. stack' \in Seq(Values) /\ locals' \in [0 .. method.locals - 1 -> Values]
    BY <1>1, <2>1, Before DEF Active
  <2>5. QED
    BY <2>1, <2>3, <2>4, GoesOn
<1>2. CASE At({"if_true", "if_false"}) /\ ~At({"goto"})
  <2>1. Active /\ Instr \in {"if_true", "if_false"}
    BY <1>2 DEF At
  <2>2. Len(stack) >= 1 /\ TopOf(stack)[1] = "bool"
    BY <2>1, Needs
  <2>3. stack # <<>> /\ 1 \in 0 .. Len(stack)
    BY <2>2, Sees
  <2>4. PICK target \in {Arg, pc + 1} : pc' = target /\ stack' = Drop(1) /\ Stays
    BY <1>2, <2>2, <2>3 DEF Branch
  <2>5. UNCHANGED <<method, locals, trace, result>>
    BY <2>4 DEF Stays
  <2>6. stack' \in Seq(Values) /\ KindsOf(stack)' = Below(Shape, 1)
    <3>1. Drop(1) \in Seq(Values) /\ KindsOf(Drop(1)) = Below(Shape, 1)
      BY <2>3, DropKinds
    <3>2. QED
      BY <2>4, <3>1 DEF KindsOf
  <2>7. Shape' = [pc |-> target, stack |-> Below(Shape, 1), locals |-> Shape.locals]
    BY <2>4, <2>5, <2>6 DEF Shape, KindsOf
  <2>8. Shape' \in Completions(method, Shape)
    BY <2>1, <2>4, <2>7, Sees, Continuation
  <2>9. locals' \in [0 .. method.locals - 1 -> Values]
    BY <2>1, <2>5, Before DEF Active
  <2>10. QED
    BY <2>1, <2>5, <2>6, <2>8, <2>9, GoesOn
<1>3. QED
  BY <1>1, <1>2 DEF Branch, At

\* One more answer is kept, if there is room for it.
LEMMA Answered ==
  ASSUME Inv, Active, NEW k \in {"normal", "throw", "exit"}, NEW v \in Values, Record(k, v)
  PROVE  trace' \in Seq(Outcomes) /\ Len(trace') = Len(trace) + 1
<1>1. trace \in Seq(Outcomes)
  BY Before DEF Active
<1>2. [k |-> k, v |-> v] \in Outcomes /\ trace' = Append(trace, [k |-> k, v |-> v])
  BY DEF Outcomes, Record
<1>3. QED
  BY <1>1, <1>2, AppendProperties

LEMMA InvokeReturnsSound ==
  ASSUME Inv, InvokeReturns
  PROVE  Sound
<1>1. Active /\ Instr = "invoke" /\ Len(trace) < MaxCalls
  BY DEF InvokeReturns, At
<1> DEFINE n == Len(Arg.args)
<1>2. Arg.ty \in ResultTypes /\ n \in 0 .. Len(stack)
  BY <1>1, Needs
<1>3. ~(Len(stack) < n)
  BY <1>2, Sees
<1>4. PICK v \in Returns(Arg.ty) :
        /\ Record("normal", v)
        /\ stack' = Drop(n) \o (IF Arg.ty = "void" THEN <<>> ELSE <<v>>)
        /\ pc' = pc + 1 /\ UNCHANGED <<method, locals, result>>
  BY <1>3 DEF InvokeReturns, Advance
<1>5. v \in Values
  BY <1>2, ReturnsValues
<1>6. trace' \in Seq(Outcomes) /\ Len(trace') = Len(trace) + 1
  BY <1>1, <1>4, <1>5, Answered
<1>7. Len(trace') <= MaxCalls
  BY <1>1, <1>6, Before, MaxCallsAssumption DEF Active
<1>8. KindsOf(locals)' = KindsOf(locals) /\ locals' \in [0 .. method.locals - 1 -> Values]
  BY <1>1, <1>4, Before DEF Active, KindsOf
<1> HIDE DEF n
<1>9. stack' \in Seq(Values) /\ Shape' \in Completions(method, Shape)
  <2>1. CASE Arg.ty = "void"
    <3>1. Completions(method, Shape) = Goes(Shape, n, <<>>)
      BY <1>1, <2>1, Continuation DEF n
    <3>2. stack' = Drop(n)
      BY <1>2, <1>4, <2>1, DropKinds, ConcatEmptySeq
    <3>3. QED
      BY <1>2, <1>4, <1>8, <3>1, <3>2, Popped
  <2>2. CASE Arg.ty # "void"
    <3>1. Completions(method, Shape) = UNION {Goes(Shape, n, <<Kind(x)>>) : x \in Returns(Arg.ty)}
      BY <1>1, <2>2, Continuation DEF n
    <3>2. stack' = Append(Drop(n), v)
      BY <1>2, <1>4, <1>5, <2>2, DropKinds, AppendIsConcat
    <3>3. stack' \in Seq(Values) /\ Shape' \in Goes(Shape, n, <<Kind(v)>>)
      BY <1>2, <1>4, <1>5, <1>8, <3>2, Pushed
    <3>4. QED
      BY <3>1, <3>3
  <2>3. QED
    BY <2>1, <2>2
<1>10. QED
  BY <1>1, <1>4, <1>6, <1>7, <1>8, <1>9, Continues

LEMMA InvokeThrowsSound ==
  ASSUME Inv, InvokeThrows
  PROVE  Sound
<1>1. Active /\ Instr = "invoke" /\ Len(trace) < MaxCalls
  BY DEF InvokeThrows, At
<1>2. PICK c \in Thrown(Arg) : Record("throw", Exc(c)) /\ Raise(Exc(c))
  BY DEF InvokeThrows
<1>3. Exc(c) \in Values /\ Exc(c)[1] = "exc"
  <2>1. c \in Classes
    BY DEF Thrown
  <2>2. QED
    BY <2>1, Constructors DEF Exc
<1>4. Exc(c) \in Raised(method, Shape)
  BY <1>1, Sees DEF Raised, Instr, Arg, code
<1>5. trace' \in Seq(Outcomes) /\ Len(trace') = Len(trace) + 1
  BY <1>1, <1>2, <1>3, Answered
<1>6. Len(trace') <= MaxCalls
  BY <1>1, <1>5, Before, MaxCallsAssumption DEF Active
<1>7. QED
  BY <1>1, <1>2, <1>3, <1>4, <1>5, <1>6, Raises

\* The ends of a frame.
LEMMA EndsSound ==
  ASSUME Inv, Active \/ result = Running, method' = method, pc' = pc, locals' = locals,
         stack' \in Seq(Values), trace' \in Seq(Outcomes), Len(trace') <= MaxCalls + 1,
         NEW k \in {"return", "exit"}, NEW v \in Values, result' = <<k, v>>,
         k = "return" => stack' = <<>>
  PROVE  Sound
<1>1. locals \in [0 .. method.locals - 1 -> Values]
  BY Before DEF Active
<1>2. result' \in Ends \X Values /\ result' # Running /\ result'[1] = k
  BY DEF Ends, Running
<1>3. QED
  BY <1>1, <1>2 DEF Sound

LEMMA InvokeExitsSound ==
  ASSUME Inv, InvokeExits
  PROVE  Sound
<1>1. Active /\ Instr = "invoke" /\ Len(trace) = MaxCalls
  BY DEF InvokeExits, At
<1>2. Record("exit", Nothing) /\ result' = <<"exit", Nothing>>
      /\ UNCHANGED <<method, pc, stack, locals>>
  BY DEF InvokeExits
<1>3. Nothing \in Values
  BY Constructors
<1>4. trace' \in Seq(Outcomes) /\ Len(trace') = Len(trace) + 1
  BY <1>1, <1>2, <1>3, Answered
<1>5. Len(trace') <= MaxCalls + 1
  BY <1>1, <1>4, MaxCallsAssumption
<1>6. stack' \in Seq(Values)
  BY <1>1, <1>2, Before DEF Active
<1>7. QED
  BY <1>1, <1>2, <1>3, <1>4, <1>5, <1>6, EndsSound

LEMMA LeaveSound ==
  ASSUME Inv, LeaveFrame \/ FallOff
  PROVE  Sound
<1>1. result = Running
  BY DEF LeaveFrame, FallOff, At, Active
<1>2. /\ stack \in Seq(Values) /\ trace \in Seq(Outcomes) /\ Len(trace) <= MaxCalls + 1
      /\ Nothing \in Values
  BY <1>1, Before, Constructors
<1>3. CASE At({"return"}) /\ Leave(Nothing) /\ UNCHANGED stack
  <2>1. stack = <<>>
    BY <1>3, Needs DEF At
  <2>2. QED
    BY <1>1, <1>2, <1>3, <2>1, EndsSound DEF Leave
<1>4. CASE /\ At({"return_value"})
           /\ IF stack = <<>> THEN Fault ELSE Leave(TopOf(stack)) /\ stack' = Drop(1)
  <2>1. Len(stack) = 1
    BY <1>4, Needs DEF At
  <2>2. stack # <<>> /\ 1 \in 0 .. Len(stack) /\ TopOf(stack) \in Values
    BY <2>1, Sees
  <2>3. Leave(TopOf(stack)) /\ stack' = Drop(1)
    BY <1>4, <2>2
  <2>4. Drop(1) = <<>>
    BY <2>1, <1>2, SubSeqProperties, EmptySeq DEF Drop
  <2>5. stack' \in Seq(Values)
    BY <2>2, <2>3, DropKinds
  <2>6. QED
    BY <1>1, <1>2, <2>2, <2>3, <2>4, <2>5, EndsSound DEF Leave
<1>5. CASE FallOff
  <2>1. Accepts(method, Shape) /\ Shape.pc = pc /\ pc > Len(method.code)
    BY <1>1, <1>5, Trusted, Sees DEF FallOff, code
  <2>2. stack = <<>>
    BY <2>1, Sees DEF Accepts
  <2>3. QED
    BY <1>1, <1>2, <1>5, <2>2, EndsSound DEF FallOff, Leave
<1>6. QED
  BY <1>3, <1>4, <1>5 DEF LeaveFrame

LEMMA ThrowSound ==
  ASSUME Inv, ThrowTop
  PROVE  Sound
<1>1. Active /\ Instr = "throw"
  BY DEF ThrowTop, At
<1>2. Len(stack) >= 1 /\ TopOf(stack)[1] \in {"null", "exc"}
  BY <1>1, Needs
<1>3. stack # <<>> /\ TopOf(stack) \in Values /\ Operand(Shape, 1) = Kind(TopOf(stack))
  BY <1>2, Sees
<1> DEFINE exc == IF TopOf(stack)[1] = "null" THEN Exc("RuntimeException") ELSE TopOf(stack)
<1>4. Raise(exc) /\ trace' = trace
  BY <1>3 DEF ThrowTop
<1>5. exc \in Values /\ exc[1] = "exc"
  BY <1>2, <1>3, Constructors DEF Exc
<1>6. exc \in Raised(method, Shape)
  <2>1. exc = IF Operand(Shape, 1)[1] = "null" THEN Exc("RuntimeException") ELSE Operand(Shape, 1)
    BY <1>2, <1>3, KindOfValue
  <2>2. QED
    BY <1>1, <2>1, Sees DEF Raised, Instr, code
<1> HIDE DEF exc
<1>7. QED
  BY <1>1, <1>4, <1>5, <1>6, Before, Raises DEF Active

----------------------------------------------------------------------------
LEMMA Begins ==
  ASSUME Init, Verifies
  PROVE  Inv
<1>1. /\ method \in Methods /\ pc = 1 /\ stack = <<>> /\ trace = <<>> /\ result = Running
      /\ locals = [slot \in 0 .. method.locals - 1 |-> Unset]
  BY DEF Init
<1>2. Unset \in Values /\ Nothing \in Values /\ Kind(Unset) = Unset
  BY Constructors
<1>3. Shape = Entry(method)
  <2>1. KindsOf(stack) = <<>>
    BY <1>1 DEF KindsOf
  <2>2. KindsOf(locals) = [slot \in 0 .. method.locals - 1 |-> Unset]
    BY <1>1, <1>2 DEF KindsOf
  <2>3. QED
    BY <1>1, <2>1, <2>2 DEF Shape, Entry
<1>4. Shape \in Flow(method)
  BY <1>1, <1>3 DEF Verifies, Certified, Certifies
<1>5. TypeOK
  <2>1. pc \in 1 .. Len(code) + 1
    BY <1>1, MethodsAssumption DEF code
  <2>2. stack \in Seq(Values) /\ trace \in Seq([k : {"normal", "throw", "exit"}, v : Values])
        /\ Len(trace) = 0
    BY <1>1, EmptySeq
  <2>3. QED
    BY <1>1, <1>2, <2>1, <2>2, MaxCallsAssumption DEF TypeOK, Running
<1>6. Len(trace) <= MaxCalls
  BY <1>1, EmptySeq, MaxCallsAssumption
<1>7. OperandsBalanced /\ CheckedExceptionsAreDeclared
  BY <1>1 DEF OperandsBalanced, CheckedExceptionsAreDeclared, Running
<1>8. QED
  BY <1>1, <1>4, <1>5, <1>6, <1>7 DEF Inv, Verifies

LEMMA SoundKeepsInv ==
  ASSUME Inv, result = Running, Sound
  PROVE  Inv'
<1>1. method' = method /\ method' \in Methods /\ Certified(method')
  BY DEF Sound, Inv
<1>2. result' = Running => Len(trace') <= MaxCalls /\ Shape' \in Flow(method')
  BY <1>1 DEF Sound
<1>3. pc' \in 1 .. Len(code') + 1
  <2>1. CASE result' = Running
    <3>1. Accepts(method, Shape')
      BY <1>1, <1>2, <2>1 DEF Certified, Certifies
    <3>2. Shape'.pc = pc'
      BY DEF Shape
    <3>3. QED
      BY <1>1, <3>1, <3>2 DEF Accepts, code
  <2>2. CASE result' # Running
    BY <1>1, <2>2 DEF Sound, Inv, TypeOK, code
  <2>3. QED
    BY <2>1, <2>2
<1>4. TypeOK'
  BY <1>1, <1>3 DEF TypeOK, Sound, Ends, Outcomes
<1>5. OperandsBalanced'
  BY DEF Sound, OperandsBalanced
<1>6. CheckedExceptionsAreDeclared'
  BY <1>1 DEF Sound, CheckedExceptionsAreDeclared, Declared
<1>7. QED
  BY <1>1, <1>2, <1>4, <1>5, <1>6 DEF Inv

LEMMA Inductive ==
  ASSUME Inv, [Next]_vars
  PROVE  Inv'
<1>1. CASE Ended \/ UNCHANGED vars
  <2>1. UNCHANGED <<method, pc, stack, locals, trace, result>>
    BY <1>1 DEF Ended, vars
  <2>2. Shape' = Shape
    BY <2>1 DEF Shape, KindsOf
  <2>3. QED
    BY <2>1, <2>2 DEF Inv, TypeOK, code, OperandsBalanced, CheckedExceptionsAreDeclared
<1>2. CASE Next /\ ~Ended
  <2>1. Sound
    BY <1>2, PushConstSound, LoadSound, StoreSound, PopSound, DupSound, IIncSound, NullTestSound,
       ArrayLengthSound, CompareSound, ArrayLoadSound, BranchSound, InvokeReturnsSound,
       InvokeThrowsSound, InvokeExitsSound, LeaveSound, ThrowSound
       DEF Next
  <2>2. result = Running
    BY <1>2 DEF Next, Ended, At, Active, PushConst, Load, Store, PopTop, Dup, IInc, NullTest,
                ArrayLength, Compare, ArrayLoad, Branch, InvokeReturns, InvokeThrows,
                InvokeExits, LeaveFrame, FallOff, ThrowTop
  <2>3. QED
    BY <2>1, <2>2, SoundKeepsInv
<1>3. QED
  BY <1>1, <1>2

\* A method the verifier certifies is executed without a fault: no operand is
\* missing or of the wrong kind, no slot and no instruction is out of range
\* (run_frame, exec_step), whatever its calls answer.
THEOREM CertifiedCodeIsTyped == Spec /\ Verifies => []TypeOK
<1>1. Inv => TypeOK
  BY DEF Inv
<1>2. QED
  BY <1>1, Begins, Inductive, PTL DEF Spec

\* ... it returns with the operands consumed (return_value, return).
THEOREM ReturnsAreBalanced == Spec /\ Verifies => []OperandsBalanced
<1>1. Inv => OperandsBalanced
  BY DEF Inv
<1>2. QED
  BY <1>1, Begins, Inductive, PTL DEF Spec

\* ... it reads no slot that nothing was stored in (crates/nl-codegen/src/stmt.rs:102).
THEOREM LocalsAreAssigned == Spec /\ Verifies => []UnsetNeverRead
<1>1. Inv => UnsetNeverRead
  BY Needs DEF UnsetNeverRead, At
<1>2. QED
  BY <1>1, Begins, Inductive, PTL DEF Spec

\* ... and no exception its `throws' clause does not announce leaves it (E015).
THEOREM ThrowsIsRespected == Spec /\ Verifies => []CheckedExceptionsAreDeclared
<1>1. Inv => CheckedExceptionsAreDeclared
  BY DEF Inv
<1>2. QED
  BY <1>1, Begins, Inductive, PTL DEF Spec
=============================================================================
