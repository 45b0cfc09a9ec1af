------------------------------ MODULE MCFrame ------------------------------
\* The methods of the runs: every nest of two constructs around a leaf that may
\* leave them, after a declaration of x and before a read of it, and a list of
\* methods made of expressions.
EXTENDS Conformance, Verifier, Lowering, DefiniteFlow

Tree == [c \in {"Exception", "RuntimeException", "E1", "E2", "SqlException"} |->
           CASE c = "Exception" -> {"Exception"}
             [] c = "E2" -> {"E2", "E1", "Exception"}
             [] OTHER -> {c, "Exception"}]

\* Calls: Risky can throw E1, E2 (which extends it) and a RuntimeException, Ask
\* nothing.
Risky(id, ty) == Call(id, <<>>, ty, {"E1"}, TRUE)
Ask(id, ty) == Call(id, <<>>, ty, {}, FALSE)
AskWith(id, args) == Call(id, args, "int", {}, FALSE)
Note == Expr(Ask("note", "void"))
SetX == Expr(Assign("x", Ask("get", "int")))
Zero == Const(IntV(0))

\* Three exits, a call that may throw, an assignment, and two exceptions.
Leaves ==
  <<Return(<<Ask("value", "int")>>), Break, Continue,
    Expr(Risky("work", "void")), SetX, Throw(New("E2")), Throw(New("RuntimeException"))>>
Exits == 1 .. 3

Wraps(b) ==
  <<While(Ask("cond", "bool"), b),
    For(<<Decl("i", <<Zero>>)>>, <<Ask("cond", "bool")>>, <<Assign("i", Ask("step", "int"))>>, b),
    ForEach("v", Ask("items", "array"), b),
    Try(<<ForEach("v", Ask("rows", "cursor"), b)>>, <<Catch("SqlException", "s", <<Note>>)>>, <<>>),
    If(Ask("cond", "bool"), b, <<>>),
    If(Ask("cond", "bool"), b, <<<<SetX>>>>),
    Switch(Ask("pick", "int"), <<Case(<<Zero>>, b), Case(<<>>, <<Note>>),
                                 Case(<<Const(IntV(1))>>, <<SetX, Break>>)>>),
    Try(b, <<Catch("E2", "e", <<Note>>), Catch("E1", "f", <<Throw(Var("f"))>>)>>, <<>>),
    Try(b, <<>>, <<<<SetX>>>>),
    Try(b, <<Catch("RuntimeException", "e", <<Return(<<Ask("late", "int")>>)>>)>>, <<<<Note>>>>),
    \* a `finally' that throws, one that returns, one with a loop of its own
    Try(b, <<Catch("E2", "e", <<Note>>)>>, <<<<Expr(Risky("close", "void"))>>>>),
    Try(b, <<>>, <<<<If(Ask("quit", "bool"), <<Return(<<Ask("late", "int")>>)>>, <<>>)>>>>),
    Try(b, <<>>, <<<<While(Ask("more", "bool"), <<If(Ask("stop", "bool"), <<Break>>, <<>>)>>)>>>>)>>
Kinds == 1 .. 13
Throwing == 11     \* the construct whose `finally' throws
Returning == {10, 12}

Nest(outer, inner, leaf) == Wraps(<<Wraps(<<Leaves[leaf]>>)[inner], Note>>)[outer]

\* No exit replays the `finally' that throws.
NoThrowingReplay(outer, inner, leaf) ==
  /\ Throwing \in {outer, inner} => leaf \notin Exits
  /\ outer = Throwing => inner \notin Returning

\* x unassigned or not, and E1 or E2 declared.
Prologue == <<<<<<>>, {"E1"}>>, <<<<Zero>>, {"E1"}>>, <<<<Zero>>, {"E2"}>>>>

NestOf(key) ==
  Method(FALSE, Prologue[key[1]][2],
         <<Decl("x", Prologue[key[1]][1]), Nest(key[2], key[3], key[4]),
           Expr(Call("log", <<Var("x")>>, "void", {}, FALSE)), Return(<<Var("x")>>)>>)

\* Operands on the stack while a branch, an assignment or an exception happens.
Expressions ==
  <<<<Return(<<AskWith("f", <<Ask("a", "int"), Ternary(Ask("c", "bool"), Ask("b", "int"),
                                                      Risky("d", "int"))>>)>>)>>,
    <<While(And(Ask("p", "bool"), Or(Ask("q", "bool"), Ask("r", "bool"))),
            <<Expr(Ask("unused", "int"))>>),
      Return(<<Zero>>)>>,
    <<Return(<<Match(Ask("pick", "int"),
                     <<Arm(<<Zero>>, Ask("a", "int")), Arm(<<Const(IntV(1))>>, Risky("b", "int")),
                       Arm(<<>>, Ask("c", "int"))>>)>>)>>,
    <<Return(<<AskWith("f", <<Ask("a", "int"),
                              Match(Ask("p", "bool"), <<Arm(<<Const(False)>>, Ask("b", "int")),
                                                        Arm(<<Const(True)>>, Ask("c", "int"))>>)>>)>>)>>,
    <<Decl("x", <<Coalesce(Ask("n", "nullable"), Risky("d", "int"))>>),
      Return(<<AskWith("f", <<Var("x")>>)>>)>>,
    <<Return(<<AskWith("f", <<Elvis(Ask("n", "nullable"), Ask("a", "int")),
                              Elvis(Ask("i", "int"), Ask("b", "int"))>>)>>)>>,
    <<If(Elvis(Ask("p", "bool"), Ask("q", "bool")), <<Note>>, <<>>),
      Return(<<Elvis(Ask("row", "row"), Const(Null))>>)>>,
    <<Decl("x", <<>>),
      Return(<<AskWith("f", <<Assign("x", Ask("a", "int")), Var("x"), Ask("b", "int")>>)>>)>>,
    <<Decl("x", <<Zero>>),
      Try(<<Expr(AskWith("f", <<Ask("a", "int"), Assign("x", Risky("b", "int"))>>))>>,
          <<Catch("Exception", "e", <<Note>>)>>, <<>>),
      Block(<<Decl("x", <<Ask("inner", "int")>>), Expr(AskWith("g", <<Var("x")>>))>>),
      Return(<<Var("x")>>)>>,
    <<If(Ask("p", "bool"), <<Return(<<>>)>>, <<>>)>>,
    <<While(Risky("p", "bool"), <<If(Ask("q", "bool"), <<Return(<<Zero>>)>>, <<>>)>>)>>>>
Void == {10}     \* the one after it ends without a value: the checker does not mind

\* nlc: what it makes of the methods it accepts: no error of the checker,
\* none of the emitter, and an end to its work.
Nlc(sources) ==
  {[source |-> c[1], code |-> c[2].code, table |-> c[2].table, locals |-> c[2].locals] :
     c \in {d \in {<<m, CompileMethod(m)>> : m \in sources} :
             d[2].ok /\ d[2].done /\ CheckMethod(d[1]) = {}}}

Control ==
  Nlc({NestOf(key) : key \in {k \in (1 .. 3) \X Kinds \X Kinds \X (1 .. 7) :
                                  NoThrowingReplay(k[2], k[3], k[4])}}
            \union {Method(i \in Void, {"E1"}, Expressions[i]) : i \in DOMAIN Expressions})

\* One the run above leaves out: `finally' throws while a `return' replays it.
Replays == Nlc({NestOf(<<2, Throwing, 5, 1>>)})
=============================================================================
