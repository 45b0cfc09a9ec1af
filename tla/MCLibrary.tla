----------------------------- MODULE MCLibrary ------------------------------
(* The inputs the algorithms are run on. *)
EXTENDS Library

One(S) == {<<x>> : x \in S}
Quoted(c) == <<J!QUOTE, c, J!QUOTE>>

JsonJob(pieces, start, bound, numbers) ==
  [kind |-> "json", pieces |-> pieces, start |-> start, bound |-> bound, numbers |-> numbers]
JsonJobs ==
  <<JsonJob(One({"[", "]", "{", "}", ",", "null", J!NL}) \cup {Quoted("a") \o <<":">>},
            <<>>, 5, FALSE),
    JsonJob(One({J!QUOTE, J!ESC, J!NL, J!CTRL, "a"})
              \cup {<<J!ESC, "n">>, <<J!ESC, "u", "D83D">>, <<J!ESC, "u", "DE00">>,
                    <<J!ESC, "u", "001F">>}, <<J!QUOTE>>, 4, FALSE),
    JsonJob({<<"}">>, <<",">>} \cup {Quoted(c) \o <<":", v>> : c \in {"a", "b"}, v \in {"null", "true"}},
            <<"{">>, 5, FALSE),
    JsonJob(One({"0", "1", "-", "+", ".", "e"}) \cup {<<"3", "0", "9">>}, <<>>, 5, TRUE)>>

PatternJob(kind, symbols, bound) ==
  [kind |-> kind, pieces |-> One(symbols), start |-> <<>>, bound |-> bound]
PatternJobs ==
  <<PatternJob("regex", {"a", "b", "*", "(", ")", "|"}, 5),
    PatternJob("regex", {"a", ".", "+", "?", "^", "$"}, 4),
   PatternJob("regex", {"[", "]", "^", "-", "a", "c", "d", "\\"}, 4),
   PatternJob("glob", {"a", "/", "*", "?", "."}, 4),
   PatternJob("escaped", {"a", ".", "*", "\\", "(", "]"}, 3)>>

Job(kind, numbers, bound) == [kind |-> kind, pieces |-> One(numbers), start |-> <<>>, bound |-> bound]
Minutes(n) == 60 * n
CalendarJobs ==
  <<Job("day", {146097, -730485, 36524, 1461, 365, 59, -1}, 4),
   [kind |-> "instant", pieces |-> One({86399, -86400, 240000000, -960000000, -1}),
    start |-> <<951782400>>, bound |-> 3, offsets |-> {0, Minutes(330), -Minutes(210), -Minutes(30), Minutes(1439)}],
   [kind |-> "zone",
    pieces |-> One({[what |-> "type", offset |-> 3600, isdst |-> TRUE],
                    [what |-> "type", offset |-> 0, isdst |-> FALSE],
                    [what |-> "change", after |-> 5, type |-> 1],
                    [what |-> "change", after |-> 2, type |-> 2]}),
    start |-> <<>>, bound |-> 5, epochs |-> {0, 2, 4, 5, 7, 9, 12}]>>

Ints(n) == [i \in 1..n |-> [what |-> "int", name |-> 100 + i]]
Codes == {<<<<0>>, <<17, 7>>, <<19, 1, 2>>, <<1>>>>, <<<<36, 0, 1, 4, 4>>, <<2>>>>}
Declarations ==
  {[what |-> "method", name |-> n, type |-> 5, code |-> c] : n \in {2, 3}, c \in Codes}
  \cup {[what |-> "field", name |-> 3, type |-> 2], [what |-> "interface", name |-> 2],
        [what |-> "int", name |-> 3]}
ModuleJob(n, bound, corrupted) ==
  [kind |-> "module", pieces |-> One(Declarations), start |-> Ints(n), bound |-> bound,
   corrupted |-> corrupted]
\* The second starts near the end of the indices that two bytes of base 5 have.
ModuleJobs ==
  <<ModuleJob(0, 2, TRUE), ModuleJob(19, 3, FALSE)>>

\* Declarations
IntType == D!Simple("int")
Float == D!Simple("float")
String == D!Simple("string")
Params(types) == [i \in DOMAIN types |-> D!Param(<<"a", "b", "c">>[i], types[i])]
Optional(param) == [param EXCEPT !.optional = TRUE]
ClassOf(name, extends, implements, flags) ==
  [what |-> "class", name |-> name, interface |-> FALSE, extends |-> extends,
   implements |-> implements, flags |-> flags]
Interface(name, extends) ==
  [what |-> "class", name |-> name, interface |-> TRUE, extends |-> <<>>,
   implements |-> extends, flags |-> {}]
MethodOf(class, params, flags, throws) ==
  [what |-> "method", of |-> class, name |-> "f", params |-> params, ret |-> IntType,
   flags |-> flags, throws |-> throws, new |-> {}]
Arg(type) == [type |-> type, known |-> TRUE, literal |-> TRUE, name |-> D!NoName]
NamedArg(name, type) == [Arg(type) EXCEPT !.name = name]

Above == <<Interface("I", <<>>), Interface("J", <<"I">>), ClassOf("A", <<>>, <<"J">>, {}),
           ClassOf("B", <<"A">>, <<>>, {}), ClassOf("P", <<>>, <<>>, {}), ClassOf("C", <<"P">>, <<>>, {})>>
Signatures ==
  {<<t>> : t \in {IntType, Float, String, D!Named("A"), D!Named("I"), D!Named("JsonValue"),
                  D!Union(<<String, D!Null>>)}}
  \cup {<<IntType, D!Named("A")>>, <<Float, D!Named("B")>>, <<D!Named("A"), Float>>}
OverloadJob ==
  [kind |-> "overloads", class |-> "C", start |-> Above, bound |-> 3,
   pieces |-> One({MethodOf("C", Params(s), {}, {}) : s \in Signatures}
                  \cup {MethodOf("P", Params(<<IntType>>), {}, {}),
                        MethodOf("C", <<D!Param("b", IntType), Optional(D!Param("a", IntType))>>, {}, {}),
                        MethodOf("C", Params(<<String, D!Function(<<IntType, IntType>>, IntType)>>), {}, {})}),
   calls |-> {<<Arg(t)>> : t \in {IntType, Float, D!Simple("byte"), String, D!Null, D!Named("A"),
                                  D!Named("B"), D!Named("JsonString")}}
             \cup {<<Arg(t), Arg(D!Named("B"))>> : t \in {IntType, Float, D!Simple("byte")}}
             \cup {<<Arg(D!Named("B")), Arg(IntType)>>, <<Arg(IntType), NamedArg("a", IntType)>>,
                   <<Arg(IntType), NamedArg("b", IntType)>>, <<NamedArg("b", D!Named("B")), NamedArg("a", IntType)>>,
                   <<NamedArg("a", IntType), Arg(IntType)>>}]

Exceptions ==
  <<ClassOf("Exception", <<>>, <<>>, {}), ClassOf("RuntimeException", <<"Exception">>, <<>>, {}),
    ClassOf("Checked", <<"Exception">>, <<>>, {})>>
HierarchyJob ==
  [kind |-> "hierarchy", bound |-> 3,
   start |-> Exceptions \o <<Interface("I", <<>>), Interface("J", <<"I">>), ClassOf("A", <<>>, <<"J">>, {"abstract"}),
               ClassOf("B", <<"A">>, <<>>, {}), ClassOf("C", <<"B">>, <<"I">>, {})>>,
   pieces |-> One({MethodOf(c, Params(<<IntType>>), flags, {}) : c \in {"A", "B", "C"}, flags \in {{}, {"final"}}}
                  \cup {MethodOf("A", Params(<<IntType>>), {"abstract"}, throws) : throws \in {{}, {"Checked"}, {"RuntimeException"}}}
                  \cup {MethodOf("B", Params(<<IntType>>), {}, throws) : throws \in {{"Checked"}, {"RuntimeException"}}}
                  \cup {MethodOf(c, Params(<<IntType>>), {"const"}, {}) : c \in {"I", "B", "C"}}
                  \cup {MethodOf(c, Params(<<Float>>), {}, {}) : c \in {"I", "A", "C"}}
                  \cup {[MethodOf("I", Params(<<Float>>), {}, {}) EXCEPT !.ret = D!Named("Self")],
                         [MethodOf("C", Params(<<Float>>), {}, {}) EXCEPT !.ret = D!Named("C")]}
                  \cup {ClassOf("D", <<"C">>, <<>>, {"final"}), ClassOf("E", <<"D">>, <<>>, {})}),
   calls |-> {<<Arg(IntType)>>, <<Arg(Float)>>}]

\* Constructors
Stmt(s) == [s |-> s]
Assign(field) == [s |-> "assign", field |-> field]
If(then, else) == [s |-> "if", then |-> then, else |-> else]
Loop(init, body) == [s |-> "loop", init |-> init, body |-> body]
Try(body, catch, finally) == [s |-> "try", body |-> body, catch |-> catch, finally |-> finally]
First(s, types) == [s |-> s, args |-> [i \in DOMAIN types |-> Arg(types[i])]]
Ctor(class, types, body) ==
  [what |-> "ctor", of |-> class, name |-> L!Construct, params |-> Params(types), ret |-> D!Void,
   flags |-> {}, throws |-> {}, new |-> {}, body |-> body]
Field(class, name, type, init, readonly) ==
  [what |-> "field", of |-> class, name |-> name, type |-> type, init |-> init, readonly |-> readonly]

Family ==
  <<ClassOf("A", <<>>, <<>>, {}), ClassOf("B", <<"A">>, <<>>, {}),
    Field("A", "x", D!Named("A"), FALSE, TRUE), Field("A", "n", IntType, TRUE, FALSE),
    Field("B", "y", D!Named("A"), FALSE, FALSE), Field("B", "s", String, FALSE, TRUE)>>
Returns == <<Stmt("return")>>
SetsY == <<Assign("y")>>
Statements ==
  {Assign("y"), Assign("s"), Stmt("return"), Stmt("throw"), Stmt("call"), [s |-> "block", body |-> SetsY],
   If(SetsY, <<Stmt("throw")>>), If(SetsY, <<>>), If(SetsY, SetsY), If(Returns, <<Stmt("throw")>>),
   If(SetsY \o Returns, <<>>), Loop(SetsY, Returns), Loop(<<>>, SetsY),
   Try(<<Stmt("call")>> \o SetsY, <<>>, <<>>), Try(<<Stmt("call")>>, Returns, SetsY),
   Try(SetsY \o <<Stmt("call")>>, <<Stmt("throw")>>, <<>>), Try(<<Stmt("throw")>>, SetsY, <<Stmt("call")>>)}
Bodies == {<<a>> : a \in Statements} \cup {<<a, b>> : a, b \in Statements}
ConstructorJob(ctors, bound, start) ==
  [kind |-> "constructors", pieces |-> One(ctors), bound |-> bound, start |-> Family \o start,
   fields |-> {"x", "n", "y", "s"}]
SetsX == <<Assign("x")>>
ConstructorJobs ==
  <<ConstructorJob({Ctor("B", <<>>, <<First("super", <<>>)>> \o b) : b \in Bodies}, 1, <<Ctor("A", <<>>, SetsX)>>),
    ConstructorJob({Ctor("A", <<IntType>>, SetsX \o <<First("this", <<>>)>>),
                    Ctor("B", <<>>, <<First("super", <<IntType>>)>> \o SetsY),
                    Ctor("B", <<>>, <<First("this", <<Float>>)>>),
                    Ctor("B", <<String>>, <<First("this", <<IntType>>), Stmt("call")>>),
                    Ctor("B", <<IntType>>, <<First("this", <<String>>)>> \o Returns),
                    Ctor("B", <<IntType>>, SetsY), Ctor("B", <<Float>>, <<First("this", <<>>)>>),
                    Ctor("B", <<Float>>, <<First("super", <<>>)>> \o SetsY)},
                   3, <<Ctor("A", <<>>, SetsX), Ctor("A", <<IntType>>, <<First("this", <<>>)>>)>>)>>

ClassJobs == <<OverloadJob, HierarchyJob>> \o ConstructorJobs

\* A function in front of another parameter
Callback == D!Function(<<IntType, IntType>>, IntType)
ArityJobs ==
  <<[OverloadJob EXCEPT !.bound = 2,
       !.pieces = One({MethodOf("C", Params(s), {}, {}) :
                         s \in {<<>>, <<Callback>>, <<String, Callback>>, <<Callback, String>>}})]>>

\* Closures
Lambda(params, body, result) == C!Literal(params, body, result)
X == C!Get("x")
CallF == C!Call("f", <<>>)
SetF(literal) == C!Put("f", literal)
MethodJob(params, start, pieces, bound, tail) ==
  [kind |-> "closures", params |-> params, start |-> start, pieces |-> One(pieces), bound |-> bound,
   tail |-> tail]
ParamX(ref) == <<C!Param("x", "int", ref)>>
Constant == Lambda(<<>>, <<>>, C!Lit(0))
Counting(x) == Lambda(<<>>, <<C!Incr(x)>>, C!Get(x))
Making == Lambda(<<>>, <<C!Auto(2, "g", Counting("x")), C!Show(C!Call("g", <<>>))>>, X)
\* A variable of a literal, captured by a literal in it.
Nesting == Lambda(<<>>, <<C!Auto(10, "n", X), C!Auto(2, "g", Counting("n")), C!Show(C!Call("g", <<>>))>>,
                  C!Get("n"))
Uses == {SetF(Nesting), C!Put("x", C!Lit(5)), C!Incr("x"), C!Show(X), C!Show(CallF), SetF(Counting("x")), SetF(Making),
         SetF(Lambda(<<>>, <<>>, X)), SetF(Lambda(<<>>, <<C!Put("x", C!Lit(4))>>, C!Lit(1)))}
Loops ==
  {C!Repeat(<<>>, 2, <<C!Auto(3, "y", X), C!When(X, <<SetF(Counting("y"))>>), C!Incr("x"), C!Show(CallF)>>),
   C!Repeat(<<C!Declare("z", "int", C!Lit(0))>>, 3, <<SetF(Counting("z")), C!Show(CallF)>>),
   C!Block(<<C!Leave("w", "int"), C!Put("w", X), SetF(Counting("w"))>>),
   C!Put("x", CallF), C!Incr("x"), SetF(Counting("x"))}
\* Names that are bound twice, and a parameter that changes.
Used(x, literal, args) == C!Block(<<C!Auto(6, x, literal), C!Show(C!Call(x, args))>>)
Square == Used("s", Lambda(ParamX(FALSE), <<>>, X), <<C!Lit(3)>>)
Gaps ==
  {C!Incr("x"), C!Auto(5, "f", Counting("x")), C!Show(CallF), Square,
   Used("t", Lambda(<<C!Param("p", "int", FALSE)>>,
                    <<C!Incr("p"), C!Auto(7, "g", Lambda(<<>>, <<>>, C!Get("p")))>>, C!Call("g", <<>>)), <<X>>),
   C!Block(<<C!Declare("x", "string", C!Text), SetF(Lambda(<<>>, <<C!Put("x", C!Text)>>, C!Lit(2)))>>),
   C!Block(<<C!Auto(8, "y", CallF), SetF(Counting("y"))>>),
   C!Auto(9, "k", Lambda(<<>>, <<>>, C!Get("f"))), SetF(Counting("x"))}
Start == <<C!Declare("f", C!Closure("int"), Constant)>>
Tell == <<C!Show(CallF), C!Show(X)>>
ClosureJobs ==
  <<MethodJob(<<>>, Start \o <<C!Auto(0, "x", C!Lit(1))>>, Uses, 4, Tell),
    MethodJob(ParamX(FALSE), Start, Uses, 3, Tell),
    MethodJob(ParamX(TRUE), <<C!Auto(1, "f", Counting("x"))>>, Uses, 3, Tell),
    MethodJob(ParamX(FALSE), Start, Loops, 3, Tell),
    MethodJob(<<>>, Start \o <<C!Auto(0, "x", C!Lit(1))>>, Gaps, 3, Tell)>>

\* Two variables of one name, a parameter and one that is changed.
BoxJobs == <<MethodJob(<<>>, Start \o <<C!Auto(0, "x", C!Lit(1))>>, {C!Incr("x"), Square}, 2, <<>>)>>

AllJobs == JsonJobs \o PatternJobs \o CalendarJobs \o ModuleJobs \o ClassJobs \o ClosureJobs

AllSubjects ==
  UNION {[1..n -> {"a", "b"}] : n \in 0..2} \cup
  {<<"a", "a", "b">>, <<"]">>, <<"-">>, <<"0">>, <<"d">>, <<"c">>, <<".">>,
   <<"a", "/", "a", "/", "a">>}
=============================================================================
