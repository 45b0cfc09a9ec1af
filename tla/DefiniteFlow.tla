---------------------------- MODULE DefiniteFlow ----------------------------
(***************************************************************************)
(* The flow part of nl-sema's method checker (crates/nl-sema/src/          *)
(* checker.rs): definite assignment (E001), checked exceptions (E015) and  *)
(* unreachable catch clauses (E048).  Types and narrowing are left out.    *)
(*                                                                         *)
(* The checker's state is a record                                         *)
(*   scopes    name -> variable id, outermost first    next  the next id   *)
(*   assigned  the ids definitely assigned here                            *)
(*   term      this path has ended: what follows in the block is skipped   *)
(*   catches   the classes caught around here, a set per enclosing try     *)
(*   throws    the method's throws clause              errors  E-codes     *)
(*   caught    the class of each catch variable, by id                     *)
(* The code stops at the first error; here they are collected.             *)
(***************************************************************************)
EXTENDS NlAst, SequencesExt

RECURSIVE CheckExpr(_, _), CheckStmt(_, _)

Error(st, code) == [st EXCEPT !.errors = @ \union {code}]

Declare(st, x) == [st EXCEPT !.scopes = Bind(@, x, st.next), !.next = @ + 1]
DeclareAssigned(st, x) == [Declare(st, x) EXCEPT !.assigned = @ \union {st.next}]

\* Mutant of Handled: a declared subclass is taken to cover its superclass.
HandledBySubclass(st, c) ==
  \/ ~IsChecked(c)
  \/ \E i \in DOMAIN st.catches : \E d \in st.catches[i] : IsA(c, d)
  \/ \E d \in st.throws : IsA(d, c)

\* A checked exception must be caught by an enclosing try or declared.
Handled(st, c) ==
  \/ ~IsChecked(c)
  \/ \E i \in DOMAIN st.catches : \E d \in st.catches[i] : IsA(c, d)
  \/ \E d \in st.throws : IsA(c, d)
RequireHandled(st, cs) == IF \A c \in cs : Handled(st, c) THEN st ELSE Error(st, "E015")

\* The class a throw expression is known to have, if any.
ThrownClass(st, e) ==
  IF e.k = "new" THEN {e.c}
  ELSE IF e.k # "var" THEN {}
  ELSE {st.caught[id] : id \in {Lookup(st.scopes, e.x)} \intersect DOMAIN st.caught}

\* Every operand is checked in source order against one set of assigned
\* variables, the operand that may be skipped no differently from the others.
Operands(e) ==
  CASE e.k = "call" -> e.args
    [] e.k = "assign" -> <<e.e>>
    [] e.k \in {"and", "or", "coalesce", "elvis"} -> <<e.l, e.r>>
    [] e.k = "ternary" -> <<e.c, e.l, e.r>>
    [] e.k = "match" -> <<e.e>> \o FlattenSeq([i \in DOMAIN e.arms |->
                                                 e.arms[i].pattern \o <<e.arms[i].e>>])
    [] OTHER -> <<>>

CheckExpr(st, e) ==
  LET after == FoldLeft(CheckExpr, st, Operands(e))
  IN  CASE e.k = "var" -> IF Lookup(st.scopes, e.x) \in st.assigned THEN st
                          ELSE Error(st, "E001")
        [] e.k = "assign" -> [after EXCEPT !.assigned = @ \union {Lookup(st.scopes, e.x)}]
        [] e.k = "call" -> RequireHandled(after, e.throws)
        [] OTHER -> after

----------------------------------------------------------------------------
CheckStmts(st, stmts) ==
  FoldLeft(LAMBDA a, s : IF a.term THEN a ELSE CheckStmt(a, s), st, stmts)

InScopes(st, checked) == [checked EXCEPT !.scopes = st.scopes]
CheckBlock(st, block) ==
  InScopes(st, CheckStmts([st EXCEPT !.scopes = Push(@)], block))

\* Mutant of Forget: what a loop or a try assigns counts after it.
ForgetNothing(st, checked) == [checked EXCEPT !.term = FALSE]

\* After a statement that contributes nothing: its assignments do not count.
Forget(st, checked) == [checked EXCEPT !.assigned = st.assigned, !.term = FALSE]

CheckIf(st, s) ==
  LET cond == CheckExpr(st, s.c)
      then == CheckBlock(cond, s.then)
      fresh == Forget(cond, then)
      else == IF s.else = <<>> THEN fresh ELSE CheckBlock(fresh, s.else[1])
  IN  [else EXCEPT
         !.assigned = CASE then.term /\ else.term -> then.assigned \union else.assigned
                        [] then.term /\ ~else.term -> else.assigned
                        [] ~then.term /\ else.term -> then.assigned
                        [] OTHER -> then.assigned \intersect else.assigned,
         !.term = then.term /\ else.term]

CheckWhile(st, s) ==
  LET cond == CheckExpr(st, s.c)
  IN  Forget(cond, CheckBlock(cond, s.body))

\* The step is checked with what is assigned at the end of the body.
CheckFor(st, s) ==
  LET init == FoldLeft(CheckStmt, [st EXCEPT !.scopes = Push(@)], s.init)
      cond == FoldLeft(CheckExpr, init, s.c)
      body == CheckBlock([cond EXCEPT !.term = FALSE], s.body)
      step == FoldLeft(CheckExpr, body, s.step)
  IN  Forget(st, InScopes(st, step))

CheckForEach(st, s) ==
  LET over == CheckExpr(st, s.over)
      body == CheckStmts(DeclareAssigned([over EXCEPT !.scopes = Push(@)], s.x), s.body)
  IN  Forget(over, InScopes(st, body))

\* A `case' body is checked against what is assigned before the switch (and by
\* the case values so far): falling into it is no worse than jumping to it.
CheckSwitch(st, s) ==
  LET Next(a, case) == LET v == FoldLeft(CheckExpr, a, case.v)
                       IN  Forget(v, CheckBlock(v, case.body))
  IN  FoldLeft(Next, CheckExpr(st, s.e), s.cases)

UnreachableCatches(s) ==
  {j \in DOMAIN s.catches : \E i \in 1 .. j - 1 : IsA(s.catches[j].c, s.catches[i].c)}

\* Only `finally' contributes: an exception may leave the body anywhere.
CheckTry(st, s) ==
  LET caught == {s.catches[i].c : i \in DOMAIN s.catches}
      body == CheckBlock([st EXCEPT !.catches = Append(@, caught)], s.body)
      Next(a, c) == InScopes(st, Forget(st,
                      CheckStmts([DeclareAssigned([a EXCEPT !.scopes = Push(@)], c.x)
                                    EXCEPT !.caught = (a.next :> c.c) @@ @], c.body)))
      handlers == FoldLeft(Next, [Forget(st, body) EXCEPT !.catches = st.catches], s.catches)
      checked == IF UnreachableCatches(s) = {} THEN handlers ELSE Error(handlers, "E048")
  IN  IF s.finally = <<>> THEN checked ELSE CheckBlock(checked, s.finally[1])

\* A call of system.ps.Process.exit ends its path like a `throw'.
CheckStmt(st, s) ==
  CASE s.k = "return" -> [FoldLeft(CheckExpr, st, s.e) EXCEPT !.term = TRUE]
    [] s.k = "expr" -> [CheckExpr(st, s.e) EXCEPT
                          !.term = s.e.k = "call" /\ s.e.id = "exit"]
    [] s.k = "decl" -> IF s.init = <<>> THEN Declare(st, s.x)
                       ELSE DeclareAssigned(CheckExpr(st, s.init[1]), s.x)
    [] s.k = "throw" -> [RequireHandled(CheckExpr(st, s.e), ThrownClass(st, s.e))
                           EXCEPT !.term = TRUE]
    [] s.k = "try" -> CheckTry(st, s)
    [] s.k = "if" -> CheckIf(st, s)
    [] s.k = "while" -> CheckWhile(st, s)
    [] s.k = "for" -> CheckFor(st, s)
    [] s.k = "foreach" -> CheckForEach(st, s)
    [] s.k \in {"break", "continue"} -> [st EXCEPT !.term = TRUE]
    [] s.k = "block" -> CheckBlock(st, s.body)
    [] s.k = "switch" -> CheckSwitch(st, s)

CheckMethod(m) ==
  CheckStmts([scopes |-> <<(<<>>)>>, next |-> 1, assigned |-> {}, term |-> FALSE,
              catches |-> <<>>, throws |-> m.throws, caught |-> <<>>, errors |-> {}],
             m.body).errors
=============================================================================
