------------------------------ MODULE Lowering ------------------------------
(***************************************************************************)
(* How nl-codegen turns one method body into bytecode: Emitter             *)
(* (crates/nl-codegen/src/expr.rs) and the statements (stmt.rs).           *)
(*                                                                         *)
(* An emitter is a record                                                  *)
(*   code    the instructions so far, [op, a]; a branch holds its target   *)
(*   table   the exception table, [first, end, handler, class]             *)
(*   scopes  name -> slot, outermost first       locals  slots handed out  *)
(*   loops   the enclosing loops and switches    finals  the `finally'     *)
(*   replays how deep the emitter is inside replay_finally_blocks          *)
(*   ok      no CodegenError                     done    the compiler ends *)
(* Instructions count 1 each: widths, offsets and the constant pool are    *)
(* left out, and so are the tracked operand depth, which only sizes a      *)
(* vector, and the line table.                                             *)
(***************************************************************************)
EXTENDS NlAst, SequencesExt

CONSTANT MaxReplays      \* a nest of replays this deep never ends

\* Every construct reaches the nodes below it through here: one call in the text
\* keeps the graph of calls small, which TLC walks for its coverage.
RECURSIVE CompileNode(_, _)
Compile(em, node) == CompileNode(em, node)
CompileExpr(em, e) == Compile(em, e)
CompileStmt(em, s) == Compile(em, s)

Op(em, op, a) == [em EXCEPT !.code = Append(@, [op |-> op, a |-> a])]
Here(em) == Len(em.code) + 1
\* patch_branch_to, for the set pcs of branches
PatchTo(em, pcs, target) ==
  [em EXCEPT !.code =
     [pc \in DOMAIN @ |-> IF pc \in pcs THEN [op |-> @[pc].op, a |-> target] ELSE @[pc]]]

PushScope(em) == [em EXCEPT !.scopes = Push(@)]
PopScope(em) == [em EXCEPT !.scopes = Front(@)]
\* declare_local: slots are never handed out twice
DeclareLocal(em, x) ==
  [em EXCEPT !.scopes = Bind(@, x, em.locals), !.locals = @ + 1]
\* declare_scratch_local: a name no program can write
Scratch(em) == [em EXCEPT !.locals = @ + 1]

CompileStmts(em, stmts) == FoldLeft(CompileStmt, em, stmts)
CompileBlock(em, block) == PopScope(CompileStmts(PushScope(em), block))

----------------------------------------------------------------------------
\* Expressions.  Each leaves one value, a call of a void method none.
CompileShortCircuit(em, e) ==
  LET lhs == Op(CompileExpr(em, e.l), "dup", 0)
      rhs == CompileExpr(Op(Op(lhs, IF e.k = "and" THEN "if_false" ELSE "if_true", 0),
                            "pop", 0), e.r)
      all == Op(rhs, "goto", 0)
  IN  PatchTo(all, {Here(lhs), Here(rhs)}, Here(all))

CompileTernary(em, e) ==
  LET cond == CompileExpr(em, e.c)
      then == CompileExpr(Op(cond, "if_false", 0), e.l)
      jump == Op(then, "goto", 0)
      all == CompileExpr(PatchTo(jump, {Here(cond)}, Here(jump)), e.r)
  IN  PatchTo(all, {Here(then)}, Here(all))

\* Mutant of CompileCoalesce: the null stays below the other value.
CompileCoalesceKept(em, e) ==
  LET lhs == Op(Op(CompileExpr(em, e.l), "dup", 0), "is_nonnull", 0)
      all == CompileExpr(Op(lhs, "if_true", 0), e.r)
  IN  PatchTo(all, {Here(lhs)}, Here(all))

CompileCoalesce(em, e) ==
  LET lhs == Op(Op(CompileExpr(em, e.l), "dup", 0), "is_nonnull", 0)
      all == CompileExpr(Op(Op(lhs, "if_true", 0), "pop", 0), e.r)
  IN  PatchTo(all, {Here(lhs)}, Here(all))

\* The falsy test follows the static type of the left operand.
CompileElvis(em, e) ==
  LET null == Op(Op(CompileExpr(em, e.l), "dup", 0), "is_null", 0)
      afterNull == Op(null, "if_true", 0)
      zero == CASE e.l.ty = "bool" -> <<False>>
                [] e.l.ty \in {"int", "nullable"} -> <<IntV(0)>>
                [] OTHER -> <<>>
      compare == Op(Op(Op(afterNull, "dup", 0), "const", zero[1]), "cmp_eq", 0)
      tested == IF zero = <<>> THEN afterNull ELSE Op(compare, "if_true", 0)
      falsy == {Here(null)} \union (IF zero = <<>> THEN {} ELSE {Here(compare)})
      skip == Op(tested, "goto", 0)
      all == CompileExpr(Op(PatchTo(skip, falsy, Here(skip)), "pop", 0), e.r)
  IN  PatchTo(all, {Here(tested)}, Here(all))

\* One comparison for every arm but a `default' and the last.
CompileMatch(em, e) ==
  LET Next(acc, i) ==
        LET arm == e.arms[i]
            fallback == arm.pattern = <<>> \/ i = Len(e.arms)
            test == Op(CompileExpr(Op(acc.em, "dup", 0), arm.pattern[1]), "cmp_eq", 0)
            tested == IF fallback THEN acc.em ELSE Op(test, "if_false", 0)
            value == CompileExpr(Op(tested, "pop", 0), arm.e)
            jump == Op(value, "goto", 0)
        IN  [em |-> IF fallback THEN jump ELSE PatchTo(jump, {Here(test)}, Here(jump)),
             ends |-> acc.ends \union {Here(value)}]
      all == FoldLeft(Next, [em |-> CompileExpr(em, e.e), ends |-> {}],
                      [i \in DOMAIN e.arms |-> i])
  IN  PatchTo(all.em, all.ends, Here(all.em))

\* compile_assign on a plain local; a statement does not want the value
CompileAssign(em, e, wantValue) ==
  LET value == CompileExpr(em, e.e)
  IN  Op(IF wantValue THEN Op(value, "dup", 0) ELSE value, "store", Lookup(em.scopes, e.x))

\* Mutant of CompileExprStmt: the value of an expression statement is not popped.
CompileExprStmtKept(em, e) ==
  IF e.k = "assign" THEN CompileAssign(em, e, FALSE) ELSE CompileExpr(em, e)

CompileExprStmt(em, e) ==
  IF e.k = "assign" THEN CompileAssign(em, e, FALSE)
  ELSE IF e.k = "call" /\ e.ty = "void" THEN CompileExpr(em, e)
  ELSE Op(CompileExpr(em, e), "pop", 0)

----------------------------------------------------------------------------
\* Leaving a protected region.

\* Mutant of ReplayFinally: outermost first.
ReplayOutermostFirst(em, from) ==
  IF em.replays = MaxReplays THEN [em EXCEPT !.done = FALSE]
  ELSE [FoldLeft(CompileStmts, [em EXCEPT !.replays = @ + 1],
                 SubSeq(em.finals, from + 1, Len(em.finals)))
          EXCEPT !.replays = em.replays]

\* replay_finally_blocks: every enclosing `finally' above `from', innermost
\* first, in the scope of the exit and still counted as enclosing.
ReplayFinally(em, from) ==
  IF em.replays = MaxReplays THEN [em EXCEPT !.done = FALSE]
  ELSE [FoldLeft(CompileStmts, [em EXCEPT !.replays = @ + 1],
                 Reverse(SubSeq(em.finals, from + 1, Len(em.finals))))
          EXCEPT !.replays = em.replays]

CompileReturn(em, s) ==
  IF s.e = <<>> THEN Op(ReplayFinally(em, 0), "return", 0)
  ELSE Op(ReplayFinally(CompileExpr(em, s.e[1]), 0), "return_value", 0)

\* `break' leaves the nearest loop or switch, `continue' the nearest loop.
Targets(em, kind) ==
  {i \in DOMAIN em.loops : kind = "breaks" \/ ~em.loops[i].isSwitch}

CompileJump(em, kind) ==
  IF Targets(em, kind) = {} THEN [em EXCEPT !.ok = FALSE]
  ELSE LET i == Max(Targets(em, kind))
           left == ReplayFinally(em, em.loops[i].finals)
       IN  [Op(left, "goto", 0) EXCEPT !.loops[i][kind] = @ \union {Here(left)}]

EnterLoop(em, isSwitch) ==
  [em EXCEPT !.loops =
     Append(@, [breaks |-> {}, continues |-> {}, finals |-> Len(em.finals),
                isSwitch |-> isSwitch])]

\* Mutant of LeaveLoop: the placeholders of `break' are not patched.
LeaveLoopWithoutBreaks(em, again, cond, exits) ==
  LET ctx == Last(em.loops)
      back == Op(PatchTo(em, ctx.continues, again), "goto", cond)
  IN  [PatchTo(back, exits, Here(back)) EXCEPT !.loops = Front(@)]
\* Mutant of LeaveLoop: `continue' skips the step of the loop.
LeaveLoopWithoutStep(em, again, cond, exits) ==
  LET ctx == Last(em.loops)
      back == Op(PatchTo(em, ctx.continues, cond), "goto", cond)
  IN  [PatchTo(back, ctx.breaks \union exits, Here(back)) EXCEPT !.loops = Front(@)]

\* The end of every loop: `continue' lands on again, the body returns to cond,
\* and the exits (with every `break') land after it.
LeaveLoop(em, again, cond, exits) ==
  LET ctx == Last(em.loops)
      back == Op(PatchTo(em, ctx.continues, again), "goto", cond)
  IN  [PatchTo(back, ctx.breaks \union exits, Here(back)) EXCEPT !.loops = Front(@)]

----------------------------------------------------------------------------
\* Statements.
CompileIf(em, s) ==
  LET cond == CompileExpr(em, s.c)
      then == CompileBlock(Op(cond, "if_false", 0), s.then)
      jump == Op(then, "goto", 0)
      else == CompileBlock(PatchTo(jump, {Here(cond)}, Here(jump)), s.else[1])
  IN  IF s.else = <<>> THEN PatchTo(then, {Here(cond)}, Here(then))
      ELSE PatchTo(else, {Here(then)}, Here(else))

CompileWhile(em, s) ==
  LET cond == CompileExpr(em, s.c)
      body == CompileBlock(EnterLoop(Op(cond, "if_false", 0), FALSE), s.body)
  IN  LeaveLoop(body, Here(em), Here(em), {Here(cond)})

CompileFor(em, s) ==
  LET init == CompileStmts(PushScope(em), s.init)
      cond == IF s.c = <<>> THEN init ELSE CompileExpr(init, s.c[1])
      test == IF s.c = <<>> THEN init ELSE Op(cond, "if_false", 0)
      body == CompileBlock(EnterLoop(test, FALSE), s.body)
      step == FoldLeft(CompileExprStmt, body, s.step)
  IN  PopScope(LeaveLoop(step, Here(body), Here(init),
                         IF s.c = <<>> THEN {} ELSE {Here(cond)}))

\* Over an array: two hidden locals, the collection and the index.
CompileForEach(em, s) ==
  LET coll == em.locals
      over == Op(Scratch(CompileExpr(PushScope(em), s.over)), "store", coll)
      idx == over.locals
      start == DeclareLocal(Op(Op(Scratch(over), "const", IntV(0)), "store", idx), s.x)
      length == Op(Op(Op(start, "load", idx), "load", coll), "array_length", 0)
      cond == Op(length, "cmp_lt", 0)
      fetch == Op(Op(Op(Op(cond, "if_false", 0), "load", coll), "load", idx), "array_load", 0)
      item == Op(fetch, "store", Lookup(start.scopes, s.x))
      body == CompileBlock(EnterLoop(item, FALSE), s.body)
      step == Op(body, "iinc", idx)
  IN  PopScope(LeaveLoop(step, Here(body), Here(start), {Here(cond)}))

\* Over a result set: the condition is the call of next(), until it is null.
CompileForEachResultSet(em, s) ==
  LET rs == em.locals
      over == Op(Scratch(CompileExpr(PushScope(em), s.over)), "store", rs)
      start == DeclareLocal(over, s.x)
      item == Lookup(start.scopes, s.x)
      next == Op(Op(start, "load", rs), "invoke", NextRow)
      cond == Op(Op(Op(next, "store", item), "load", item), "is_null", 0)
      body == CompileBlock(EnterLoop(Op(cond, "if_true", 0), FALSE), s.body)
  IN  PopScope(LeaveLoop(body, Here(start), Here(start), {Here(cond)}))

\* One comparison per `case', then every body in source order: falling off a
\* body runs into the next.
CompileSwitch(em, s) ==
  LET subject == em.locals
      stored == Op(Scratch(CompileExpr(em, s.e)), "store", subject)
      Dispatch(acc, i) ==
        LET test == Op(CompileExpr(Op(acc.em, "load", subject), s.cases[i].v[1]),
                       "cmp_eq", 0)
        IN  IF s.cases[i].v = <<>> THEN [acc EXCEPT !.default = {i}]
            ELSE [acc EXCEPT !.em = Op(test, "if_true", 0), !.jumps[i] = Here(test)]
      order == [i \in DOMAIN s.cases |-> i]
      dispatch == FoldLeft(Dispatch, [em |-> stored, jumps |-> [i \in DOMAIN s.cases |-> 0],
                                      default |-> {}], order)
      noMatch == Here(dispatch.em)
      Body(acc, i) ==
        CompileBlock(PatchTo(acc, {IF i \in dispatch.default THEN noMatch
                              ELSE dispatch.jumps[i]}, Here(acc)), s.cases[i].body)
      bodies == FoldLeft(Body, EnterLoop(Op(dispatch.em, "goto", 0), TRUE), order)
      exits == Last(bodies.loops).breaks
                 \union (IF dispatch.default = {} THEN {noMatch} ELSE {})
  IN  [PatchTo(bodies, exits, Here(bodies)) EXCEPT !.loops = Front(@)]

\* The `catch' entries cover the body; the catch-all of `finally' the body and
\* every handler.  `finally' is emitted again for the exception path, again for
\* the normal one, and by every exit replayed in between.
CompileTry(em, s) ==
  LET start == Here(em)
      body == CompileBlock([em EXCEPT !.finals = @ \o s.finally], s.body)
      Handler(acc, i) ==
        LET c == s.catches[i]
            caught == DeclareLocal(PushScope(acc.em), c.x)
            handled == CompileStmts(Op(caught, "store", acc.em.locals), c.body)
        IN  [em |-> Op(PopScope(handled), "goto", 0),
             ends |-> acc.ends \union {Here(handled)},
             entries |-> Append(acc.entries,
                           [first |-> start, end |-> Here(body),
                            handler |-> Here(acc.em), class |-> <<c.c>>])]
      handlers == FoldLeft(Handler,
                    [em |-> Op(body, "goto", 0), ends |-> {Here(body)}, entries |-> <<>>],
                    [i \in DOMAIN s.catches |-> i])
      after == [handlers.em EXCEPT !.finals = em.finals]
      exc == after.locals
      rethrown ==
        IF s.finally = <<>> THEN after
        ELSE Op(Op(CompileBlock(Op(Scratch(after), "store", exc), s.finally[1]),
                   "load", exc), "throw", 0)
      all == IF s.finally = <<>> THEN rethrown ELSE CompileBlock(rethrown, s.finally[1])
      catchAll == [first |-> start, end |-> Here(after), handler |-> Here(after),
                   class |-> <<>>]
  IN  [PatchTo(all, handlers.ends, Here(rethrown)) EXCEPT
         !.table = @ \o handlers.entries
                     \o (IF s.finally = <<>> THEN <<>> ELSE <<catchAll>>)]

CompileDecl(em, s) ==
  IF s.init = <<>> THEN DeclareLocal(em, s.x)
  ELSE LET value == CompileExpr(em, s.init[1])
       IN  Op(DeclareLocal(value, s.x), "store", value.locals)

\* compile_expr, and compile_stmt, which does nothing once an error ended it.
CompileNode(em, n) ==
  CASE ~em.done \/ ~em.ok -> em
    [] n.k = "const" -> Op(em, "const", n.v)
    [] n.k = "var" -> Op(em, "load", Lookup(em.scopes, n.x))
    [] n.k = "new" -> Op(em, "const", Exc(n.c))
    [] n.k = "assign" -> CompileAssign(em, n, TRUE)
    [] n.k = "call" -> Op(FoldLeft(CompileExpr, em, n.args), "invoke", n)
    [] n.k \in {"and", "or"} -> CompileShortCircuit(em, n)
    [] n.k = "ternary" -> CompileTernary(em, n)
    [] n.k = "coalesce" -> CompileCoalesce(em, n)
    [] n.k = "elvis" -> CompileElvis(em, n)
    [] n.k = "match" -> CompileMatch(em, n)
    [] n.k = "return" -> CompileReturn(em, n)
    [] n.k = "expr" -> CompileExprStmt(em, n.e)
    [] n.k = "decl" -> CompileDecl(em, n)
    [] n.k = "throw" -> Op(CompileExpr(em, n.e), "throw", 0)
    [] n.k = "try" -> CompileTry(em, n)
    [] n.k = "if" -> CompileIf(em, n)
    [] n.k = "while" -> CompileWhile(em, n)
    [] n.k = "for" -> CompileFor(em, n)
    [] n.k = "foreach" /\ n.over.ty = "array" -> CompileForEach(em, n)
    [] n.k = "foreach" /\ n.over.ty = "cursor" -> CompileForEachResultSet(em, n)
    [] n.k = "break" -> CompileJump(em, "breaks")
    [] n.k = "continue" -> CompileJump(em, "continues")
    [] n.k = "block" -> CompileBlock(em, n.body)
    [] n.k = "switch" -> CompileSwitch(em, n)

\* A static method without parameters: a void body ends with RETURN.
CompileMethod(m) ==
  LET body == CompileStmts([code |-> <<>>, table |-> <<>>, scopes |-> <<(<<>>)>>,
                            locals |-> 0, loops |-> <<>>, finals |-> <<>>,
                            replays |-> 0, ok |-> TRUE, done |-> TRUE], m.body)
  IN  IF m.void THEN Op(body, "return", 0) ELSE body
=============================================================================
