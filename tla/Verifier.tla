------------------------------- MODULE Verifier -------------------------------
(***************************************************************************)
(* What the interpreter takes on trust.  It has no bytecode verifier:      *)
(* run_frame indexes code, locals and exception table as they come, and    *)
(* exec_step finds out that an operand is missing or of another kind only  *)
(* when it is there (VmError::Malformed, crates/nl-vm/src/interpreter.rs). *)
(*                                                                         *)
(* Here is the verifier, instruction by instruction and without an         *)
(* execution.  A shape [pc, stack, locals] is a state of a frame with only *)
(* the kinds of its values; Flow is what a method can come by, and the     *)
(* method is certified when nothing in it is refused.                      *)
(***************************************************************************)
EXTENDS Frame

\* Ints, bools and arrays lose their contents; every exception class is a kind.
Kind(v) == IF v[1] \in {"bool", "int", "array"} THEN <<v[1], 0>> ELSE v
BoolKind == <<"bool", 0>>
IntKind == <<"int", 0>>
ArrayKind == <<"array", 0>>
KindsOf(s) == [i \in DOMAIN s |-> Kind(s[i])]

Entry(m) == [pc |-> 1, stack |-> <<>>, locals |-> [slot \in 0 .. m.locals - 1 |-> Unset]]

\* The n-th operand from the top, which is the first, and what is below n of them.
Operand(s, n) == s.stack[Len(s.stack) - n + 1]
Below(s, n) == SubSeq(s.stack, 1, Len(s.stack) - n)

----------------------------------------------------------------------------
\* The exceptions an instruction can raise.
Raised(m, s) ==
  LET i == m.code[s.pc]
  IN  CASE i.op = "array_load" -> {Exc("RuntimeException")}
        [] i.op = "invoke" -> {Exc(c) : c \in Thrown(i.a)}
        [] i.op = "throw" -> {IF Operand(s, 1)[1] = "null" THEN Exc("RuntimeException")
                              ELSE Operand(s, 1)}
        [] OTHER -> {}

Declared(m, c) == IsChecked(c) => \E t \in m.source.throws : IsA(c, t)

\* What an instruction needs: its operands and slot, a variable that has been
\* written, nothing left behind by a return, no undeclared exception.
Accepts(m, s) ==
  LET i == m.code[s.pc]
      Has(n) == Len(s.stack) >= n
  IN  /\ s.pc \in 1 .. Len(m.code) + 1
      /\ s.pc > Len(m.code) => s.stack = <<>>
      /\ s.pc <= Len(m.code) =>
           /\ CASE i.op = "const" -> i.a \in Values
                [] i.op = "load" -> i.a \in DOMAIN s.locals /\ s.locals[i.a] # Unset
                [] i.op = "store" -> i.a \in DOMAIN s.locals /\ Has(1)
                [] i.op = "iinc" -> i.a \in DOMAIN s.locals /\ s.locals[i.a] = IntKind
                [] i.op \in {"dup", "is_null", "is_nonnull"} -> Has(1)
                [] i.op = "array_length" -> Has(1) /\ Operand(s, 1) = ArrayKind
                [] i.op = "cmp_eq" -> Has(2)
                [] i.op = "cmp_lt" -> Has(2) /\ {Operand(s, 1), Operand(s, 2)} = {IntKind}
                [] i.op = "array_load" ->
                     Has(2) /\ Operand(s, 1) = IntKind /\ Operand(s, 2) = ArrayKind
                [] i.op \in {"if_true", "if_false"} -> Has(1) /\ Operand(s, 1) = BoolKind
                [] i.op = "invoke" -> i.a.ty \in ResultTypes /\ Len(i.a.args) \in 0 .. Len(s.stack)
                [] i.op = "return" -> ~Has(1)
                [] i.op = "return_value" -> Has(1) /\ ~Has(2)
                [] i.op = "throw" -> Has(1) /\ Operand(s, 1)[1] \in {"null", "exc"}
                [] OTHER -> i.op \in {"pop", "goto"}
           /\ \A e \in Raised(m, s) : Handlers(m, s.pc, e[2]) = {} => Declared(m, e[2])

----------------------------------------------------------------------------
\* Where an exception lands: in a handler with nothing else on the stack, or
\* outside the method.
Landings(m, s) ==
  {[pc |-> m.table[Min(Handlers(m, s.pc, e[2]))].handler, stack |-> <<e>>, locals |-> s.locals] :
     e \in {x \in Raised(m, s) : Handlers(m, s.pc, x[2]) # {}}}

\* The next instruction, with kinds in the place of n operands.
Goes(s, n, kinds) ==
  {[pc |-> s.pc + 1, stack |-> Below(s, n) \o kinds, locals |-> s.locals]}

Completions(m, s) ==
  LET i == m.code[s.pc]
  IN  CASE i.op = "const" -> Goes(s, 0, <<Kind(i.a)>>)
        [] i.op = "load" -> Goes(s, 0, <<s.locals[i.a]>>)
        [] i.op = "store" -> {[pc |-> s.pc + 1, stack |-> Below(s, 1),
                               locals |-> [s.locals EXCEPT ![i.a] = Operand(s, 1)]]}
        [] i.op = "iinc" -> Goes(s, 0, <<>>)
        [] i.op = "pop" -> Goes(s, IF s.stack = <<>> THEN 0 ELSE 1, <<>>)
        [] i.op = "dup" -> Goes(s, 0, <<Operand(s, 1)>>)
        [] i.op \in {"is_null", "is_nonnull"} -> Goes(s, 1, <<BoolKind>>)
        [] i.op = "array_length" -> Goes(s, 1, <<IntKind>>)
        [] i.op \in {"cmp_eq", "cmp_lt"} -> Goes(s, 2, <<BoolKind>>)
        [] i.op = "array_load" -> Goes(s, 2, <<IntKind>>)
        [] i.op = "goto" -> {[pc |-> i.a, stack |-> s.stack, locals |-> s.locals]}
        [] i.op \in {"if_true", "if_false"} ->
             {[pc |-> target, stack |-> Below(s, 1), locals |-> s.locals] :
                target \in {i.a, s.pc + 1}}
        [] i.op = "invoke" /\ i.a.ty = "void" -> Goes(s, Len(i.a.args), <<>>)
        [] i.op = "invoke" /\ i.a.ty # "void" ->
             UNION {Goes(s, Len(i.a.args), <<Kind(v)>>) : v \in Returns(i.a.ty)}
        [] OTHER -> {}

Follows(m, s) ==
  IF s.pc <= Len(m.code) THEN Completions(m, s) \union Landings(m, s) ELSE {}

\* All of it, round by round.  Nothing is assumed of how many rounds it takes:
\* a flow that is not closed certifies nothing.
Rounds(m) == 2 * Len(m.code)
Flow(m) ==
  LET Round[n \in Nat] ==
        IF n = 0 THEN [seen |-> {Entry(m)}, new |-> {Entry(m)}]
        ELSE LET last == Round[n - 1]
                 new == UNION {Follows(m, s) : s \in {x \in last.new : Accepts(m, x)}} \ last.seen
             IN  [seen |-> last.seen \union new, new |-> new]
  IN  Round[Rounds(m)].seen

Certifies(flow, m) ==
  /\ Entry(m) \in flow
  /\ \A s \in flow : Accepts(m, s) /\ Follows(m, s) \subseteq flow
Certified(m) == LET flow == Flow(m) IN Certifies(flow, m)

\* The method that is entered passes the verifier the VM does not have: at every
\* instruction, however it is reached - through loops, handlers, replayed
\* `finally' blocks - the operands are there and of the right kind, and what
\* UnsetNeverRead, OperandsBalanced and CheckedExceptionsAreDeclared say is
\* visible without running the method.
Verifies == pc = 1 => Certified(method)
=============================================================================
