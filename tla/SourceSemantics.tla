-------------------------- MODULE SourceSemantics --------------------------
(***************************************************************************)
(* What a method body means, read off its tree: the structured reference   *)
(* the bytecode is compared with.  The calls it makes are answered in      *)
(* order by a trace of outcomes, [k, v]: a value, an exception, or the end *)
(* of the process.                                                         *)
(*                                                                         *)
(* A completion is a record                                                *)
(*   k    normal, break, continue, return, throw, exit, or call: the trace *)
(*        is used up and v is the call the program makes next              *)
(*   v    the value, exception or call     env  the variables, by scope    *)
(*   n    how many outcomes were used                                      *)
(***************************************************************************)
EXTENDS NlAst, SequencesExt

\* Everything goes through Run, with one call in the text as in Lowering.  Besides
\* the nodes of the tree there are three of its own, the loops once under way.
RECURSIVE Perform(_, _, _)
Run(c, n, tr) == Perform(c, n, tr)
Eval(c, e, tr) == Run(c, e, tr)
Loop(c, s, tr) == Run(c, [s EXCEPT !.k = "loop"], tr)
Each(c, s, i, tr) == Run(c, [k |-> "each", x |-> s.x, body |-> s.body, i |-> i], tr)
Drain(c, s, tr) == Run(c, [s EXCEPT !.k = "drain"], tr)

Normal(c) == c.k = "normal"
Gives(c, v) == [c EXCEPT !.v = v]
\* An abrupt completion carries its value; a normal one of a statement none.
Is(c, k) == [c EXCEPT !.k = k]
Then(c, F(_)) == IF Normal(c) THEN F(c) ELSE c

Args(c, args, tr) ==
  FoldLeft(LAMBDA a, e :
             IF ~Normal(a.c) THEN a
             ELSE LET d == Eval(a.c, e, tr) IN [c |-> d, vs |-> Append(a.vs, d.v)],
           [c |-> c, vs |-> <<>>], args)

Invoke(c, e, tr) ==
  LET a == Args(c, e.args, tr)
      d == a.c
  IN  IF ~Normal(d) THEN d
      ELSE IF d.n = Len(tr) THEN [Gives(d, <<e.id, a.vs>>) EXCEPT !.k = "call"]
      ELSE [d EXCEPT !.n = @ + 1, !.k = tr[d.n + 1].k, !.v = tr[d.n + 1].v]

\* The first arm whose pattern is the subject, else the `default' arm, else the
\* last one (the patterns are constants).
Chosen(arms, v) ==
  LET hits == {i \in DOMAIN arms : arms[i].pattern # <<>> /\ arms[i].pattern[1].v = v}
      defaults == {i \in DOMAIN arms : arms[i].pattern = <<>>}
  IN  IF hits # {} THEN Min(hits)
      ELSE IF defaults # {} THEN Min(defaults) ELSE Len(arms)

----------------------------------------------------------------------------
RunAll(c, stmts, tr) ==
  FoldLeft(LAMBDA a, s : Then(a, LAMBDA d : Run(d, s, tr)), c, stmts)
\* In a scope of its own, with the variables binds (a sequence of <<x, v>>).
Scoped(c, binds, stmts, tr) ==
  LET scope == FoldLeft(LAMBDA env, b : Bind(env, b[1], b[2]), Push(c.env), binds)
      d == RunAll([c EXCEPT !.env = scope], stmts, tr)
  IN  [d EXCEPT !.env = Pop(@, Len(c.env))]

\* A loop swallows the exits meant for it.
AfterBody(b, F(_)) ==
  CASE b.k = "break" -> Is(b, "normal")
    [] b.k \in {"normal", "continue"} -> F(Is(b, "normal"))
    [] OTHER -> b

Steps(c, step, tr) == FoldLeft(LAMBDA a, e : Then(a, LAMBDA d : Eval(d, e, tr)), c, step)

RunLoop(c, s, tr) ==
  LET test == IF s.c = <<>> THEN Gives(c, True) ELSE Eval(c, s.c[1], tr)
  IN  IF ~Normal(test) \/ test.v = False THEN test
      ELSE AfterBody(Scoped(test, <<>>, s.body, tr),
                     LAMBDA b : Then(Steps(b, s.step, tr), LAMBDA d : Loop(d, s, tr)))

\* The elements of an array from the i-th on.
RunEach(c, s, tr) ==
  IF s.i = c.v[2] THEN c
  ELSE AfterBody(Scoped(c, <<<<s.x, IntV(s.i)>>>>, s.body, tr),
                 LAMBDA b : Each(Gives(b, c.v), s, s.i + 1, tr))

\* The rows of a result set, until next() answers null.
RunDrain(c, s, tr) ==
  LET row == Invoke(c, NextRow, tr)
  IN  IF ~Normal(row) \/ row.v = Null THEN row
      ELSE AfterBody(Scoped(row, <<<<s.x, row.v>>>>, s.body, tr), LAMBDA b : Drain(b, s, tr))

\* From the matching `case' on, one body running into the next.
RunSwitch(c, s, tr) ==
  LET hits == {i \in DOMAIN s.cases : s.cases[i].v # <<>> /\ s.cases[i].v[1].v = c.v}
      defaults == {i \in DOMAIN s.cases : s.cases[i].v = <<>>}
      entry == IF hits # {} THEN {Min(hits)} ELSE defaults
      rest == SubSeq(s.cases, Min(entry), Len(s.cases))
      d == FoldLeft(LAMBDA a, case : Then(a, LAMBDA b : Scoped(b, <<>>, case.body, tr)), c, rest)
  IN  IF entry = {} THEN c ELSE IF d.k = "break" THEN Is(d, "normal") ELSE d

\* The first `catch' that fits takes an exception of the body.
Caught(c, s, tr) ==
  LET fits == {i \in DOMAIN s.catches : c.k = "throw" /\ IsA(c.v[2], s.catches[i].c)}
      clause == s.catches[Min(fits)]
  IN  IF fits = {} THEN c
      ELSE Scoped(Is(c, "normal"), <<<<clause.x, c.v>>>>, clause.body, tr)

\* `finally' runs once, however the rest was left, and an exit of its own wins.
Restored(final, c) == IF Normal(final) THEN [final EXCEPT !.k = c.k, !.v = c.v] ELSE final
Finished(c, s, tr) ==
  IF s.finally = <<>> \/ c.k \in {"exit", "call"} THEN c
  ELSE Restored(Scoped(Is(c, "normal"), <<>>, s.finally[1], tr), c)

RunTry(c, s, tr) == Finished(Caught(Scoped(c, <<>>, s.body, tr), s, tr), s, tr)

Perform(c, s, tr) ==
  CASE s.k = "return" -> IF s.e = <<>> THEN Is(Gives(c, Nothing), "return")
                         ELSE Then(Eval(c, s.e[1], tr), LAMBDA d : Is(d, "return"))
    [] s.k = "expr" -> Eval(c, s.e, tr)
    [] s.k = "decl" -> IF s.init = <<>> THEN [c EXCEPT !.env = Bind(@, s.x, Unset)]
                       ELSE Then(Eval(c, s.init[1], tr),
                                 LAMBDA d : [d EXCEPT !.env = Bind(@, s.x, d.v)])
    [] s.k = "throw" -> Then(Eval(c, s.e, tr), LAMBDA d : Is(d, "throw"))
    [] s.k = "try" -> RunTry(c, s, tr)
    [] s.k = "if" -> Then(Eval(c, s.c, tr),
                          LAMBDA d : IF d.v = True THEN Scoped(d, <<>>, s.then, tr)
                                     ELSE IF s.else = <<>> THEN d
                                     ELSE Scoped(d, <<>>, s.else[1], tr))
    [] s.k = "while" -> Loop(c, For(<<>>, <<s.c>>, <<>>, s.body), tr)
    [] s.k = "for" -> LET d == Then(RunAll([c EXCEPT !.env = Push(@)], s.init, tr),
                                    LAMBDA b : Loop(b, s, tr))
                      IN  [d EXCEPT !.env = Pop(@, Len(c.env))]
    [] s.k = "foreach" -> Then(Eval(c, s.over, tr),
                               LAMBDA d : IF s.over.ty = "array" THEN Each(d, s, 0, tr)
                                          ELSE Drain(d, s, tr))
    [] s.k = "break" -> Is(c, "break")
    [] s.k = "continue" -> Is(c, "continue")
    [] s.k = "block" -> Scoped(c, <<>>, s.body, tr)
    [] s.k = "switch" -> Then(Eval(c, s.e, tr), LAMBDA d : RunSwitch(d, s, tr))
    [] s.k = "loop" -> RunLoop(c, s, tr)
    [] s.k = "each" -> RunEach(c, s, tr)
    [] s.k = "drain" -> RunDrain(c, s, tr)
    [] s.k = "const" -> Gives(c, s.v)
    [] s.k = "var" -> Gives(c, Lookup(c.env, s.x))
    [] s.k = "new" -> Gives(c, Exc(s.c))
    [] s.k = "assign" -> Then(Eval(c, s.e, tr),
                              LAMBDA d : [d EXCEPT !.env = Rebind(@, s.x, d.v)])
    [] s.k = "call" -> Invoke(c, s, tr)
    [] s.k = "and" -> Then(Eval(c, s.l, tr),
                           LAMBDA d : IF d.v = True THEN Eval(d, s.r, tr) ELSE d)
    [] s.k = "or" -> Then(Eval(c, s.l, tr),
                          LAMBDA d : IF d.v = False THEN Eval(d, s.r, tr) ELSE d)
    [] s.k = "ternary" -> Then(Eval(c, s.c, tr),
                               LAMBDA d : Eval(d, IF d.v = True THEN s.l ELSE s.r, tr))
    [] s.k = "coalesce" -> Then(Eval(c, s.l, tr),
                                LAMBDA d : IF d.v = Null THEN Eval(d, s.r, tr) ELSE d)
    [] s.k = "elvis" -> Then(Eval(c, s.l, tr),
                             LAMBDA d : IF d.v \in Falsy THEN Eval(d, s.r, tr) ELSE d)
    [] s.k = "match" -> Then(Eval(c, s.e, tr),
                             LAMBDA d : Eval(d, s.arms[Chosen(s.arms, d.v)].e, tr))

\* The whole method: what it asks next, or how it ends.
Meaning(m, tr) ==
  LET c == RunAll([k |-> "normal", v |-> Nothing, env |-> <<(<<>>)>>, n |-> 0], m.body, tr)
  IN  IF Normal(c) THEN <<"return", Nothing>> ELSE <<c.k, c.v>>
=============================================================================
