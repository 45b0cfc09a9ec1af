------------------------------- MODULE NlAst -------------------------------
(***************************************************************************)
(* The part of NL's syntax tree (crates/nl-syntax/src/ast.rs) that decides *)
(* control flow and definite assignment.  An Option is a sequence of at    *)
(* most one element.  Every call of a method is one node, with what its    *)
(* declaration says: the result type, the declared `throws', and whether   *)
(* the call can raise a RuntimeException (a native call need not).         *)
(***************************************************************************)
EXTENDS Integers, Sequences

CONSTANT Ancestors    \* exception class -> the set of its superclasses and itself

Classes == DOMAIN Ancestors
\* The class of what the VM throws itself; the prelude declares it.
ASSUME PreludeAssumption == "RuntimeException" \in Classes

IsA(c, d) == d \in Ancestors[c]
IsChecked(c) == IsA(c, "Exception") /\ ~IsA(c, "RuntimeException")

----------------------------------------------------------------------------
\* Values: tagged pairs.  Unset is the Null a frame's locals start with.
True == <<"bool", 1>>
False == <<"bool", 0>>
IntV(n) == <<"int", n>>
Null == <<"null", 0>>
Unset == <<"null", 1>>
Array(n) == <<"array", n>>         \* n elements, the i-th of them the integer i
Cursor == <<"cursor", 0>>
Row == <<"row", 0>>
Exc(c) == <<"exc", c>>
Nothing == <<"nothing", 0>>        \* what a void call returns

Falsy == {Null, Unset, False, IntV(0)}

\* What a call of each static type may return.
ResultTypes == {"bool", "int", "nullable", "array", "cursor", "row", "void"}
Returns(ty) ==
  CASE ty = "bool" -> {True, False}
    [] ty = "int" -> {IntV(0), IntV(1)}
    [] ty = "nullable" -> {Null, IntV(0), IntV(1)}
    [] ty = "array" -> {Array(0), Array(2)}
    [] ty = "cursor" -> {Cursor}
    [] ty = "row" -> {Null, Row}
    [] ty = "void" -> {Nothing}

----------------------------------------------------------------------------
\* Expressions.
Const(v) == [k |-> "const", v |-> v]
Var(x) == [k |-> "var", x |-> x]
Assign(x, e) == [k |-> "assign", x |-> x, e |-> e]
New(c) == [k |-> "new", c |-> c]
Call(id, args, ty, throws, runtime) ==
  [k |-> "call", id |-> id, args |-> args, ty |-> ty,
   throws |-> throws, runtime |-> runtime]
\* ResultSet.next(), which a loop over a result set calls; its one operand is the
\* receiver.
NextRow == Call("next", <<Const(Cursor)>>, "row", {"SqlException"}, FALSE)
And(l, r) == [k |-> "and", l |-> l, r |-> r]
Or(l, r) == [k |-> "or", l |-> l, r |-> r]
Ternary(c, l, r) == [k |-> "ternary", c |-> c, l |-> l, r |-> r]
Coalesce(l, r) == [k |-> "coalesce", l |-> l, r |-> r]
Elvis(l, r) == [k |-> "elvis", l |-> l, r |-> r]
Match(e, arms) == [k |-> "match", e |-> e, arms |-> arms]
Arm(pattern, e) == [pattern |-> pattern, e |-> e]

\* Statements.
Return(e) == [k |-> "return", e |-> e]
Expr(e) == [k |-> "expr", e |-> e]
Decl(x, init) == [k |-> "decl", x |-> x, init |-> init]
Throw(e) == [k |-> "throw", e |-> e]
If(c, then, else) == [k |-> "if", c |-> c, then |-> then, else |-> else]
While(c, body) == [k |-> "while", c |-> c, body |-> body]
For(init, c, step, body) ==
  [k |-> "for", init |-> init, c |-> c, step |-> step, body |-> body]
ForEach(x, over, body) == [k |-> "foreach", x |-> x, over |-> over, body |-> body]
Break == [k |-> "break"]
Continue == [k |-> "continue"]
Block(body) == [k |-> "block", body |-> body]
Switch(e, cases) == [k |-> "switch", e |-> e, cases |-> cases]
Case(v, body) == [v |-> v, body |-> body]
Try(body, catches, finally) ==
  [k |-> "try", body |-> body, catches |-> catches, finally |-> finally]
Catch(c, x, body) == [c |-> c, x |-> x, body |-> body]

Method(void, throws, body) == [void |-> void, throws |-> throws, body |-> body]

----------------------------------------------------------------------------
\* Lexical scopes, outermost first: each maps the names it declares to whatever
\* the reader of the tree keeps for a variable (a slot, an id, a value).
Innermost(scopes, x) ==
  CHOOSE i \in DOMAIN scopes :
    /\ x \in DOMAIN scopes[i]
    /\ \A j \in i + 1 .. Len(scopes) : x \notin DOMAIN scopes[j]

Lookup(scopes, x) == scopes[Innermost(scopes, x)][x]
Rebind(scopes, x, v) == [scopes EXCEPT ![Innermost(scopes, x)][x] = v]
Bind(scopes, x, v) ==
  [scopes EXCEPT ![Len(scopes)] =
     [y \in DOMAIN @ \union {x} |-> IF y = x THEN v ELSE @[y]]]
Push(scopes) == Append(scopes, <<>>)
Pop(scopes, depth) == SubSeq(scopes, 1, depth)
=============================================================================
