-------------------------------- MODULE Frame --------------------------------
(***************************************************************************)
(* One activation of a compiled method: run_frame and exec_step            *)
(* (crates/nl-vm/src/interpreter.rs), over the instructions Lowering       *)
(* emits.  A call the method makes is answered by any outcome its          *)
(* declaration admits; the trace records them, MaxCalls at most, after     *)
(* which only the end of the process is left.                              *)
(***************************************************************************)
EXTENDS NlAst, FiniteSetsExt

CONSTANTS Methods,      \* the methods a run looks at
          MaxCalls

\* Code is a vector of bytes, and max_locals is read as a u16.
ASSUME MethodsAssumption == \A m \in Methods : Len(m.code) \in Nat /\ m.locals \in Nat
ASSUME MaxCallsAssumption == MaxCalls \in Nat

VARIABLES method,       \* what this frame runs, [source, code, table, locals]: its
                        \* tree, and what Lowering made of it
          pc, stack, locals,
          trace,        \* the outcomes of the calls made so far, [k, v]
          result        \* <<"running", Nothing>>, or how the frame ended

vars == <<method, pc, stack, locals, trace, result>>

Running == <<"running", Nothing>>
code == method.code
Instr == code[pc].op
Arg == code[pc].a
Active == result = Running /\ pc <= Len(code)
At(ops) == Active /\ Instr \in ops

TopOf(s) == s[Len(s)]
Drop(n) == SubSeq(stack, 1, Len(stack) - n)

Advance == pc' = pc + 1
Stays == UNCHANGED <<method, locals, trace, result>>

\* Err(other): no handler sees it.
Fault == result' = <<"malformed", Nothing>> /\ UNCHANGED <<method, pc, stack, locals, trace>>

\* find_handler: the first entry over the instruction at pc whose class fits.
Handlers(m, at, c) ==
  {i \in DOMAIN m.table :
     LET entry == m.table[i]
     IN  /\ entry.first <= at /\ at < entry.end
         /\ entry.class = <<>> \/ IsA(c, entry.class[1])}

Raise(exc) ==
  /\ LET fit == Handlers(method, pc, exc[2])
     IN  IF fit = {}
         THEN result' = <<"throw", exc>> /\ UNCHANGED <<pc, stack>>
         ELSE /\ stack' = <<exc>>
              /\ pc' = method.table[Min(fit)].handler
              /\ UNCHANGED result
  /\ UNCHANGED <<method, locals>>

----------------------------------------------------------------------------
Init ==
  /\ method \in Methods
  /\ pc = 1
  /\ stack = <<>>
  /\ locals = [slot \in 0 .. method.locals - 1 |-> Unset]
  /\ trace = <<>>
  /\ result = Running

PushConst == At({"const"}) /\ stack' = Append(stack, Arg) /\ Advance /\ Stays
Load == At({"load"}) /\ stack' = Append(stack, locals[Arg]) /\ Advance /\ Stays

Store ==
  /\ At({"store"})
  /\ IF stack = <<>> THEN Fault
     ELSE /\ locals' = [locals EXCEPT ![Arg] = TopOf(stack)]
          /\ stack' = Drop(1)
          /\ Advance
          /\ UNCHANGED <<method, trace, result>>

\* POP forgives an empty stack, DUP does not.
PopTop == At({"pop"}) /\ stack' = (IF stack = <<>> THEN stack ELSE Drop(1)) /\ Advance /\ Stays
Dup ==
  /\ At({"dup"})
  /\ IF stack = <<>> THEN Fault ELSE stack' = Append(stack, TopOf(stack)) /\ Advance /\ Stays

IInc ==
  /\ At({"iinc"})
  /\ IF locals[Arg][1] # "int" THEN Fault
     ELSE /\ locals' = [locals EXCEPT ![Arg] = IntV(@[2] + 1)]
          /\ Advance
          /\ UNCHANGED <<method, stack, trace, result>>

\* One operand replaced by a value of it.
NullTest ==
  /\ At({"is_null", "is_nonnull"})
  /\ IF stack = <<>> THEN Fault
     ELSE /\ stack' = Append(Drop(1), IF (TopOf(stack)[1] = "null") = (Instr = "is_null")
                                      THEN True ELSE False)
          /\ Advance /\ Stays
ArrayLength ==
  /\ At({"array_length"})
  /\ IF stack = <<>> \/ TopOf(stack)[1] # "array" THEN Fault
     ELSE stack' = Append(Drop(1), IntV(TopOf(stack)[2])) /\ Advance /\ Stays

\* Two operands replaced by a value of them.
Left == stack[Len(stack) - 1]
Right == TopOf(stack)
Compare ==
  /\ At({"cmp_eq", "cmp_lt"})
  /\ IF Len(stack) < 2 \/ (Instr = "cmp_lt" /\ <<Left[1], Right[1]>> # <<"int", "int">>)
     THEN Fault
     ELSE /\ stack' = Append(Drop(2), IF (Instr = "cmp_eq" /\ Left = Right)
                                         \/ (Instr = "cmp_lt" /\ Left[2] < Right[2])
                                      THEN True ELSE False)
          /\ Advance /\ Stays
ArrayLoad ==
  /\ At({"array_load"})
  /\ IF Len(stack) < 2 \/ <<Left[1], Right[1]>> # <<"array", "int">> THEN Fault
     ELSE IF Right[2] \in 0 .. Left[2] - 1
     THEN stack' = Append(Drop(2), Right) /\ Advance /\ Stays
     ELSE Raise(Exc("RuntimeException")) /\ UNCHANGED trace

Branch ==
  \/ /\ At({"goto"}) /\ pc' = Arg /\ UNCHANGED stack /\ Stays
  \/ /\ At({"if_true", "if_false"})
     /\ IF stack = <<>> \/ TopOf(stack)[1] # "bool" THEN Fault
        ELSE /\ pc' = IF TopOf(stack) = (IF Instr = "if_true" THEN True ELSE False)
                      THEN Arg ELSE pc + 1
             /\ stack' = Drop(1)
             /\ Stays

\* A call, and what comes back from it.
Thrown(e) ==
  {c \in Classes : (\E t \in e.throws : IsA(c, t)) \/ (e.runtime /\ c = "RuntimeException")}
Asked == <<Arg.id, SubSeq(stack, Len(stack) - Len(Arg.args) + 1, Len(stack))>>
Record(k, v) == trace' = Append(trace, [k |-> k, v |-> v])

InvokeReturns ==
  /\ At({"invoke"}) /\ Len(trace) < MaxCalls
  /\ IF Len(stack) < Len(Arg.args) THEN Fault
     ELSE /\ \E v \in Returns(Arg.ty) :
               /\ Record("normal", v)
               /\ stack' = Drop(Len(Arg.args)) \o (IF Arg.ty = "void" THEN <<>> ELSE <<v>>)
          /\ Advance
          /\ UNCHANGED <<method, locals, result>>
InvokeThrows ==
  /\ At({"invoke"}) /\ Len(trace) < MaxCalls /\ Len(stack) >= Len(Arg.args)
  /\ \E c \in Thrown(Arg) : Record("throw", Exc(c)) /\ Raise(Exc(c))
\* system.ps.Process.exit somewhere below: nothing of this method runs again
InvokeExits ==
  /\ At({"invoke"}) /\ Len(trace) = MaxCalls /\ Len(stack) >= Len(Arg.args)
  /\ Record("exit", Nothing)
  /\ result' = <<"exit", Nothing>>
  /\ UNCHANGED <<method, pc, stack, locals>>

Leave(v) == result' = <<"return", v>> /\ UNCHANGED <<method, pc, locals, trace>>
LeaveFrame ==
  \/ At({"return"}) /\ Leave(Nothing) /\ UNCHANGED stack
  \/ /\ At({"return_value"})
     /\ IF stack = <<>> THEN Fault ELSE Leave(TopOf(stack)) /\ stack' = Drop(1)
FallOff ==
  /\ result = Running /\ pc > Len(code)
  /\ Leave(Nothing)
  /\ UNCHANGED stack
ThrowTop ==
  /\ At({"throw"})
  /\ IF stack = <<>> THEN Fault
     ELSE /\ Raise(IF TopOf(stack)[1] = "null" THEN Exc("RuntimeException") ELSE TopOf(stack))
          /\ UNCHANGED trace

Ended == result # Running /\ UNCHANGED vars

Next ==
  \/ PushConst \/ Load \/ Store \/ PopTop \/ Dup \/ IInc \/ NullTest \/ ArrayLength
  \/ Compare \/ ArrayLoad \/ Branch \/ InvokeReturns \/ InvokeThrows \/ InvokeExits
  \/ LeaveFrame \/ FallOff \/ ThrowTop \/ Ended

\* The interpreter loop goes on as long as the frame does; calls come back.
Spec == Init /\ [][Next]_vars /\ WF_vars(Next)

----------------------------------------------------------------------------
\* An int and the length of an array may be any; the rest are few.
Values ==
  {True, False, Null, Unset, Cursor, Row, Nothing} \union {Exc(c) : c \in Classes}
    \union ({"int"} \X Int) \union ({"array"} \X Nat)

\* Every variable keeps its shape; above all no instruction is executed that
\* the compiler did not emit, and the VM finds no instruction malformed.
TypeOK ==
  /\ pc \in 1 .. Len(code) + 1
  /\ stack \in Seq(Values)
  /\ locals \in [0 .. method.locals - 1 -> Values]
  /\ trace \in Seq([k : {"normal", "throw", "exit"}, v : Values])
  /\ Len(trace) <= MaxCalls + 1
  /\ result \in {"running", "return", "throw", "exit"} \X Values

\* However a method returns - out of loops, switches, handlers and replayed
\* `finally' blocks - it has consumed every operand it pushed.
OperandsBalanced == result[1] = "return" => stack = <<>>

\* "nl-sema's definite assignment check (E001) guarantees no read reaches" an
\* unwritten slot (crates/nl-codegen/src/stmt.rs:102-104), however exceptions
\* and jumps cut the method's paths.
UnsetNeverRead == At({"load"}) => locals[Arg] # Unset

\* E015: a checked exception that leaves a method is one it declares.
CheckedExceptionsAreDeclared ==
  result[1] = "throw" /\ IsChecked(result[2][2]) =>
    \E t \in method.source.throws : IsA(result[2][2], t)

\* No jump goes round for ever without a call: a frame whose calls come back
\* ends.
FrameEnds == <>(result # Running)
=============================================================================
