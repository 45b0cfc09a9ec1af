------------------------------ MODULE Closures ------------------------------
(***************************************************************************)
(* Closure literals: which variables of the enclosing method they capture, *)
(* which of those live in a Box<T> that both share, which classes Box<T>   *)
(* the program is given, and what the compiled method then does.           *)
(*                                                                         *)
(* A statement or an expression is a record with the field op.  Of the     *)
(* constructs that hold others only those are told apart that a variable   *)
(* can notice.  A class Box<T> is named by its T.                          *)
(***************************************************************************)
EXTENDS Integers, Sequences, FiniteSets, TLC

Lit(n) == [op |-> "lit", n |-> n]
Text == [op |-> "text"]
Get(x) == [op |-> "get", name |-> x]
Put(x, e) == [op |-> "set", name |-> x, value |-> e]
Incr(x) == [op |-> "incr", name |-> x]
Call(x, args) == [op |-> "call", name |-> x, args |-> args]
Literal(params, body, result) ==
  [op |-> "closure", params |-> params, body |-> body, result |-> result]
Show(e) == [op |-> "show", value |-> e]
Declare(x, type, e) == [op |-> "decl", line |-> 0, name |-> x, type |-> type, value |-> e]
Auto(line, x, e) == [op |-> "decl", line |-> line, name |-> x, type |-> "auto", value |-> e]
Leave(x, type) == [op |-> "bare", name |-> x, type |-> type]
Block(body) == [op |-> "block", body |-> body]
When(cond, body) == [op |-> "if", cond |-> cond, body |-> body]
Repeat(init, times, body) ==
  [op |-> "loop", init |-> init, times |-> times, body |-> body]
Param(x, type, ref) == [name |-> x, type |-> type, ref |-> ref]

\* The type of a closure, from what it returns.
Closure(type) == CASE type = "int" -> "() => int"
                   [] type = "string" -> "() => string"
                   [] OTHER -> "() => () => int"
Returned(type) == CASE type = "() => int" -> "int"
                    [] type = "() => string" -> "string"
                    [] OTHER -> "() => int"

-----------------------------------------------------------------------------
(* capture.rs                                                              *)

\* The statements and expressions directly inside n, in order.
Inside(n) ==
  CASE n.op \in {"set", "show", "decl"} -> <<n.value>>
    [] n.op = "call" -> n.args
    [] n.op = "block" -> n.body
    [] n.op = "if" -> <<n.cond>> \o n.body
    [] n.op = "loop" -> n.init \o n.body
    [] n.op = "closure" -> n.body \o <<n.result>>
    [] OTHER -> <<>>

Own(n) == IF n.op = "closure" THEN {n.params[i].name : i \in DOMAIN n.params} ELSE {}
Target(n) == IF n.op \in {"set", "incr"} THEN {n.name} ELSE {}

\* The bare names in nodes, but for the parameters of the closures among them.
\* The name of a call is not one.
RECURSIVE ReferencedNames(_)
ReferencedNames(nodes) ==
  UNION {(IF nodes[i].op = "get" THEN {nodes[i].name} ELSE Target(nodes[i]))
           \cup (ReferencedNames(Inside(nodes[i])) \ Own(nodes[i])) : i \in DOMAIN nodes}

RECURSIVE Captured(_)
Captured(nodes) ==
  UNION {(IF nodes[i].op = "closure" THEN ReferencedNames(Inside(nodes[i])) ELSE {})
           \cup Captured(Inside(nodes[i])) : i \in DOMAIN nodes}

RECURSIVE Mutated(_)
Mutated(nodes) ==
  UNION {Target(nodes[i]) \cup (Mutated(Inside(nodes[i])) \ Own(nodes[i])) : i \in DOMAIN nodes}

\* Mutant: only what a closure changes.
MutatedInside(nodes) ==
  Captured(nodes) \cap
    UNION {IF nodes[i].op = "closure" THEN Mutated(Inside(nodes[i])) ELSE {} : i \in DOMAIN nodes}

BoxedCaptures(nodes) == Captured(nodes) \cap Mutated(nodes)

-----------------------------------------------------------------------------
(* The innermost scope is the last.                                        *)

Empty == [x \in {} |-> 0]
RECURSIVE Find(_, _)
\* What x stands for: none or one.
Find(scopes, x) ==
  IF scopes = <<>> THEN <<>>
  ELSE LET n == Len(scopes)
       IN IF x \in DOMAIN scopes[n] THEN <<scopes[n][x]>> ELSE Find(SubSeq(scopes, 1, n - 1), x)
Bind(scopes, x, what) == [scopes EXCEPT ![Len(scopes)] = (x :> what) @@ @]

-----------------------------------------------------------------------------
(* monomorphize.rs: the classes Box<T> that a program gets                 *)

\* collect_referenced_in_* and collect_mutated_in_* repeat the walks above.
ReferencedAgain(nodes) == ReferencedNames(nodes)
MutatedAgain(nodes) == Mutated(nodes)

ParamScope(params) ==
  [x \in {params[i].name : i \in DOMAIN params} |->
     params[CHOOSE i \in DOMAIN params : params[i].name = x].type]

\* What a declaration adds for the statements behind it: auto says nothing.
Declares(n, scopes) ==
  IF n.op \in {"decl", "bare"} /\ n.type # "auto" THEN Bind(scopes, n.name, n.type) ELSE scopes

RECURSIVE RequestsIn(_, _, _)
ClosureRequests(n, scopes, mutated) ==
  UNION {{t : t \in {Find(scopes, x)[i] : i \in DOMAIN Find(scopes, x)}} :
           x \in (ReferencedAgain(Inside(n)) \ Own(n)) \cap mutated}
    \cup RequestsIn(Inside(n), scopes \o <<ParamScope(n.params), Empty>>, mutated)

Requests(n, scopes, mutated) ==
  CASE n.op = "closure" -> ClosureRequests(n, scopes, mutated)
    [] n.op \in {"block", "if", "loop"} -> RequestsIn(Inside(n), Append(scopes, Empty), mutated)
    [] OTHER -> RequestsIn(Inside(n), scopes, mutated)
RequestsIn(nodes, scopes, mutated) ==
  IF nodes = <<>> THEN {}
  ELSE Requests(Head(nodes), scopes, mutated)
         \cup RequestsIn(Tail(nodes), Declares(Head(nodes), scopes), mutated)

CollectRefBoxRequests(params) == {params[i].type : i \in {i \in DOMAIN params : params[i].ref}}
CollectClosureBoxRequests(params, body) ==
  RequestsIn(body, <<ParamScope(params), Empty>>, MutatedAgain(body))
BoxRequests(params, body) ==
  CollectRefBoxRequests(params) \cup CollectClosureBoxRequests(params, body)
-----------------------------------------------------------------------------
(* What the checker makes of it, and the types it gives to `auto`          *)

Assignable(type, target) ==
  type \in {"void", target} \/ (type = "int" /\ target = "int|null")

\* Takes a variable into the innermost scope.
Entered(c, x, type, assigned) ==
  [c EXCEPT !.scopes = Bind(@, x, [id |-> c.next, type |-> type]), !.next = @ + 1,
            !.assigned = IF assigned THEN @ \cup {c.next} ELSE @]
Checked(c, type) == [c |-> c, type |-> type]
Refuse(c, unless) == [c EXCEPT !.ok = @ /\ unless]

RECURSIVE EnterParams(_, _)
EnterParams(params, c) ==
  IF params = <<>> THEN c
  ELSE EnterParams(Tail(params), Entered(c, Head(params).name, Head(params).type, TRUE))

RECURSIVE CheckExpr(_, _), CheckStmts(_, _)
CheckStmts(nodes, c) ==
  IF nodes = <<>> THEN c ELSE CheckStmts(Tail(nodes), CheckExpr(Head(nodes), c).c)

\* In a scope of its own, with what is assigned behind it.
CheckBlock(nodes, c, assigned) ==
  LET inner == CheckStmts(nodes, [c EXCEPT !.scopes = Append(@, Empty)])
  IN [inner EXCEPT !.scopes = c.scopes, !.assigned = IF assigned THEN @ ELSE c.assigned]

\* The body is checked where the literal stands; what it assigns is forgotten.
CheckClosure(n, c) ==
  LET entered == EnterParams(n.params, [c EXCEPT !.scopes = Append(@, Empty)])
      inner == CheckStmts(n.body \o <<n.result>>, entered)
  IN Checked([inner EXCEPT !.scopes = c.scopes, !.assigned = c.assigned], "void")

CheckVariable(n, c) ==
  LET v == Find(c.scopes, n.name)
  IN IF v = <<>> THEN Checked(c, IF n.op = "incr" THEN "int" ELSE "void")
     ELSE Checked(Refuse(c, v[1].id \in c.assigned /\ (n.op = "incr" => v[1].type = "int")), v[1].type)

CheckAssign(n, c) ==
  LET value == CheckExpr(n.value, c)
      v == Find(c.scopes, n.name)
  IN IF v = <<>> THEN value
     ELSE Checked([Refuse(value.c, Assignable(value.type, v[1].type)) EXCEPT !.assigned = @ \cup {v[1].id}],
                  v[1].type)

CheckDeclaration(n, c) ==
  LET value == CheckExpr(n.value, c)
      type == IF n.type = "auto" THEN value.type ELSE n.type
      noted == IF n.type # "auto" THEN value.c
               ELSE [value.c EXCEPT !.autos = @ \cup {[line |-> n.line, name |-> n.name, type |-> type]}]
  IN Checked(Entered(Refuse(noted, Assignable(value.type, type)), n.name, type, TRUE), "void")

CheckExpr(n, c) ==
  CASE n.op = "lit" -> Checked(c, "int")
    [] n.op = "text" -> Checked(c, "string")
    [] n.op \in {"get", "incr"} -> CheckVariable(n, c)
    [] n.op = "set" -> CheckAssign(n, c)
    [] n.op = "decl" -> CheckDeclaration(n, c)
    [] n.op = "bare" -> Checked(Entered(c, n.name, n.type, FALSE), "void")
    [] n.op = "closure" -> CheckClosure(n, c)
    [] n.op = "block" -> Checked(CheckBlock(n.body, c, TRUE), "void")
    [] n.op = "if" -> Checked(CheckBlock(n.body, CheckExpr(n.cond, c).c, FALSE), "void")
    [] n.op = "loop" ->
         LET init == CheckStmts(n.init, [c EXCEPT !.scopes = Append(@, Empty)])
         IN Checked([CheckBlock(n.body, init, FALSE) EXCEPT !.scopes = c.scopes], "void")
    [] OTHER -> Checked(CheckStmts(Inside(n), c), "void")

\* A method: whether it is accepted, and the types of its auto variables.
CheckMethod(params, body) ==
  CheckStmts(body, EnterParams(params, [scopes |-> <<Empty>>, next |-> 1, assigned |-> {},
                                        autos |-> {}, ok |-> TRUE]))

\* The auto declarations that must say their type, because codegen boxes them;
\* one with two types is left alone.
AutoBoxFixes(params, body) ==
  LET due == {a \in CheckMethod(params, body).autos : a.name \in BoxedCaptures(body)}
  IN {a \in due : \A b \in due : <<a.line, a.name>> = <<b.line, b.name>> => a.type = b.type}

\* Mutant: not inside a closure.
RECURSIVE ApplyOutside(_, _)
ApplyOutside(nodes, fixes) ==
  [i \in DOMAIN nodes |->
     LET n == nodes[i]
     IN CASE n.op = "decl" ->
               LET mine == {f \in fixes : f.line = n.line /\ f.name = n.name}
               IN IF n.type = "auto" /\ mine # {} THEN [n EXCEPT !.type = (CHOOSE f \in mine : TRUE).type] ELSE n
          [] n.op \in {"block", "if", "loop"} -> [n EXCEPT !.body = ApplyOutside(@, fixes)]
          [] OTHER -> n]

RECURSIVE ApplyFixes(_, _)
ApplyFixes(nodes, fixes) ==
  [i \in DOMAIN nodes |->
     LET n == nodes[i]
     IN CASE n.op = "decl" ->
               LET mine == {f \in fixes : f.line = n.line /\ f.name = n.name}
                   value == ApplyFixes(<<n.value>>, fixes)[1]
               IN [n EXCEPT !.value = value,
                            !.type = IF @ = "auto" /\ mine # {} THEN (CHOOSE f \in mine : TRUE).type ELSE @]
          [] n.op \in {"set", "show"} -> [n EXCEPT !.value = ApplyFixes(<<@>>, fixes)[1]]
          [] n.op = "call" -> [n EXCEPT !.args = ApplyFixes(@, fixes)]
          [] n.op \in {"block", "if"} -> [n EXCEPT !.body = ApplyFixes(@, fixes)]
          [] n.op = "loop" -> [n EXCEPT !.init = ApplyFixes(@, fixes), !.body = ApplyFixes(@, fixes)]
          [] n.op = "closure" ->
               [n EXCEPT !.body = ApplyFixes(@, fixes), !.result = ApplyFixes(<<@>>, fixes)[1]]
          [] OTHER -> n]
-----------------------------------------------------------------------------
(* The code that is emitted: a tree that names slots and fields            *)

\* Nullability is no part of the type of a slot.
ExprTy(type) == IF type = "int|null" THEN "int" ELSE type
MangleFlatType(type) ==
  IF type \in {"int", "string", "void"} THEN type ELSE "Function { .. }"

IsClosure(type) == type \in {Closure("int"), Closure("string"), Closure(Closure("int"))}
Coerces(actual, expected) == actual = expected \/ (IsClosure(actual) /\ expected = "void")

Slot(index, type, boxed) ==
  [in |-> "slot", slot |-> index, name |-> "", type |-> type, boxed |-> boxed]
Field(x, type, boxed) ==
  [in |-> "field", slot |-> 0, name |-> x, type |-> type, boxed |-> boxed]

\* A local first, then a field of the closure that the code is in.
ResolveIdent(e, x) ==
  LET local == Find(e.scopes, x)
  IN IF local # <<>> THEN local
     ELSE IF x \in DOMAIN e.fields THEN <<Field(x, e.fields[x].type, e.fields[x].boxed)>> ELSE <<>>

Fail(e, unless) == [e EXCEPT !.ok = @ /\ unless]
Emitted(code, type, e) == [code |-> code, type |-> type, e |-> e]
Nop == [op |-> "nop"]

DeclareLocal(e, x, type) ==
  [e EXCEPT !.scopes = Bind(@, x, Slot(e.next, type, FALSE)), !.next = @ + 1]
DeclareRefParam(e, x, type) ==
  [e EXCEPT !.scopes = Bind(@, x, Slot(e.next, type, TRUE)), !.next = @ + 1]
\* A slot for x with a new Box in it.
DeclareBoxed(e, x, type) ==
  [DeclareRefParam(e, x, type) EXCEPT !.news = @ \cup {MangleFlatType(type)}]
\* Leaves the slot of the parameter and gives its name to one with a Box.
ReboxLocal(e, x, type) ==
  LET raw == Find(e.scopes, x)[1]
  IN Emitted([op |-> "fresh", slot |-> e.next, box |-> TRUE,
              value |-> [op |-> "load", from |-> raw]], type, DeclareBoxed(e, x, type))

RECURSIVE DeclareParams(_, _), ReboxParams(_, _)
DeclareParams(params, e) ==
  IF params = <<>> THEN e
  ELSE LET p == Head(params)
       IN DeclareParams(Tail(params), IF p.ref THEN DeclareRefParam(e, p.name, ExprTy(p.type))
                                      ELSE DeclareLocal(e, p.name, ExprTy(p.type)))
ReboxParams(params, e) ==
  IF params = <<>> THEN [codes |-> <<>>, e |-> e]
  ELSE LET p == Head(params)
           first == IF ~p.ref /\ p.name \in e.boxed THEN ReboxLocal(e, p.name, ExprTy(p.type))
                    ELSE Emitted(Nop, "void", e)
           rest == ReboxParams(Tail(params), first.e)
       IN [codes |-> <<first.code>> \o rest.codes, e |-> rest.e]

RECURSIVE CompileExpr(_, _), CompileStmts(_, _)
CompileStmts(nodes, e) ==
  IF nodes = <<>> THEN [codes |-> <<>>, e |-> e]
  ELSE LET first == CompileExpr(Head(nodes), e)
           rest == CompileStmts(Tail(nodes), first.e)
       IN [codes |-> <<first.code>> \o rest.codes, e |-> rest.e]
CompileBlock(nodes, e) ==
  LET inner == CompileStmts(nodes, [e EXCEPT !.scopes = Append(@, Empty)])
  IN [inner EXCEPT !.e.scopes = e.scopes]

\* T name = init; and auto name = init;
CompileVarDecl(n, e) ==
  LET value == CompileExpr(n.value, e)
      boxed == n.name \in e.boxed
      type == IF n.type = "auto" THEN value.type ELSE ExprTy(n.type)
      declared == IF boxed THEN DeclareBoxed(value.e, n.name, type) ELSE DeclareLocal(value.e, n.name, type)
  IN Emitted([op |-> "fresh", slot |-> value.e.next, box |-> boxed, value |-> value.code], "void",
             Fail(declared, Coerces(value.type, type) /\ ~(boxed /\ n.type = "auto")))

\* T name;
CompileUninit(n, e) ==
  IF n.name \in e.boxed
  THEN Emitted([op |-> "fresh", slot |-> e.next, box |-> TRUE, value |-> Nop], "void",
               DeclareBoxed(e, n.name, ExprTy(n.type)))
  ELSE Emitted(Nop, "void", DeclareLocal(e, n.name, ExprTy(n.type)))

CompileAssign(n, e) ==
  LET place == ResolveIdent(e, n.name)
      value == CompileExpr(n.value, e)
  IN IF place = <<>> THEN Emitted(Nop, "void", Fail(e, FALSE))
     ELSE Emitted([op |-> "store", to |-> place[1], value |-> value.code], place[1].type,
                  Fail(value.e, Coerces(value.type, place[1].type)))

\* A field of the closure can only be changed through a Box.
CompileIncrLocal(n, e) ==
  LET place == ResolveIdent(e, n.name)
  IN IF place = <<>> THEN Emitted(Nop, "int", Fail(e, FALSE))
     ELSE Emitted([op |-> "bump", to |-> place[1]], "int",
                  Fail(e, place[1].type = "int" /\ (place[1].in = "field" => place[1].boxed)))

\* The receiver in a slot is loaded as it is, the one in a field out of its Box.
CompileCall(n, e) ==
  LET place == ResolveIdent(e, n.name)
      args == CompileStmts(n.args, e)
  IN IF place = <<>> \/ ~IsClosure(place[1].type) THEN Emitted(Nop, "void", Fail(e, FALSE))
     ELSE Emitted([op |-> "invoke", args |-> args.codes,
                   from |-> IF place[1].in = "slot" THEN [place[1] EXCEPT !.boxed = FALSE] ELSE place[1]],
                  Returned(place[1].type), args.e)

\* Mutant: a box that is captured again is unwrapped.
UnwrapRecaptured(place) == IF place.in = "field" THEN place ELSE [place EXCEPT !.boxed = FALSE]

\* What is copied into the field of a new closure: the Box, not what is in it.
CaptureSource(place) == [place EXCEPT !.boxed = FALSE]

\* The class of the literal, with a field for each capture and the method
\* invoke, and the code that makes one.
CompileClosure(n, e) ==
  LET sources == {x \in ReferencedNames(Inside(n)) \ Own(n) : ResolveIdent(e, x) # <<>>}
      place == [x \in sources |-> ResolveIdent(e, x)[1]]
      params == DeclareParams(n.params,
                  [scopes |-> <<Empty>>, next |-> 1, boxed |-> BoxedCaptures(Inside(n)),
                   fields |-> [x \in sources |-> [type |-> place[x].type, boxed |-> place[x].boxed]],
                   news |-> e.news, ok |-> e.ok])
      reboxed == ReboxParams(n.params, params)
      body == CompileStmts(n.body, reboxed.e)
      result == CompileExpr(n.result, body.e)
  IN Emitted([op |-> "make", fields |-> [x \in sources |-> CaptureSource(place[x])],
              body |-> reboxed.codes \o body.codes, result |-> result.code],
             Closure(result.type), [e EXCEPT !.news = result.e.news, !.ok = result.e.ok])

CompileLoop(n, e) ==
  LET init == CompileStmts(n.init, [e EXCEPT !.scopes = Append(@, Empty)])
      body == CompileBlock(n.body, init.e)
  IN Emitted([op |-> "loop", init |-> init.codes, times |-> n.times, body |-> body.codes], "void",
             [body.e EXCEPT !.scopes = e.scopes])

CompileExpr(n, e) ==
  CASE n.op = "lit" -> Emitted([op |-> "const", n |-> n.n], "int", e)
    [] n.op = "text" -> Emitted([op |-> "const", n |-> 0], "string", e)
    [] n.op = "get" ->
         LET place == ResolveIdent(e, n.name)
         IN IF place = <<>> THEN Emitted(Nop, "void", Fail(e, FALSE))
            ELSE Emitted([op |-> "load", from |-> place[1]], place[1].type, e)
    [] n.op = "set" -> CompileAssign(n, e)
    [] n.op = "incr" -> CompileIncrLocal(n, e)
    [] n.op = "call" -> CompileCall(n, e)
    [] n.op = "closure" -> CompileClosure(n, e)
    [] n.op = "decl" -> CompileVarDecl(n, e)
    [] n.op = "bare" -> CompileUninit(n, e)
    [] n.op = "show" -> LET value == CompileExpr(n.value, e)
                        IN Emitted([op |-> "show", value |-> value.code], "void", value.e)
    [] n.op = "block" -> LET body == CompileBlock(n.body, e)
                         IN Emitted([op |-> "seq", body |-> body.codes], "void", body.e)
    [] n.op = "if" -> LET cond == CompileExpr(n.cond, e)
                          body == CompileBlock(n.body, cond.e)
                      IN Emitted([op |-> "if", cond |-> cond.code, body |-> body.codes], "void", body.e)
    [] n.op = "loop" -> CompileLoop(n, e)

CompileMethod(params, body) ==
  LET e == DeclareParams(params, [scopes |-> <<Empty>>, next |-> 1, boxed |-> BoxedCaptures(body),
                                  fields |-> Empty, news |-> {}, ok |-> TRUE])
      reboxed == ReboxParams(params, e)
      rest == CompileStmts(body, reboxed.e)
  IN [codes |-> reboxed.codes \o rest.codes, e |-> rest.e]

-----------------------------------------------------------------------------
(* What the machine does with it: the slots of a frame, `this`, the heap   *)

Number(n) == [kind |-> "number", n |-> n]
Object(n) == [kind |-> "object", n |-> n]
Unset == [kind |-> "unset", n |-> 0]
Box(value) == [box |-> TRUE, value |-> value, fields |-> Empty, code |-> Nop]

Allocate(m, object) ==
  [m EXCEPT !.heap = Append(@, object), !.top = Object(Len(m.heap) + 1)]
Fault(m) == [m EXCEPT !.ok = FALSE]

\* What is in a slot or in a field of `this`, and what a read of it gives.
Raw(m, place) ==
  IF place.in = "field" THEN m.heap[m.this].fields[place.name]
  ELSE IF place.slot \in DOMAIN m.locals THEN m.locals[place.slot] ELSE Unset
IsBox(m, value) == value.kind = "object" /\ m.heap[value.n].box
Read(m, place) == IF place.boxed THEN m.heap[Raw(m, place).n].value ELSE Raw(m, place)
Sound(m, place) == place.boxed => IsBox(m, Raw(m, place))
Write(m, place, value) ==
  IF ~Sound(m, place) THEN Fault(m)
  ELSE IF place.boxed THEN [m EXCEPT !.heap[Raw(m, place).n].value = value]
  ELSE IF place.in = "slot" THEN [m EXCEPT !.locals = (place.slot :> value) @@ @]
  ELSE [m EXCEPT !.heap[m.this].fields[place.name] = value]

RECURSIVE Step(_, _), Steps(_, _), Arguments(_, _), Iterate(_, _, _)
Steps(codes, m) == IF codes = <<>> THEN m ELSE Steps(Tail(codes), Step(Head(codes), m))
\* The values of codes from left to right, in m.args.
Arguments(codes, m) ==
  IF codes = <<>> THEN m
  ELSE LET next == Step(Head(codes), m)
       IN Arguments(Tail(codes), [next EXCEPT !.args = Append(m.args, next.top)])
Iterate(codes, times, m) ==
  IF times = 0 THEN m ELSE Iterate(codes, times - 1, Steps(codes, m))

InvokeClosure(code, m) ==
  LET receiver == Read(m, code.from)
      given == Arguments(code.args, [m EXCEPT !.args = <<>>])
  IN IF ~Sound(m, code.from) \/ receiver.kind # "object" \/ IsBox(m, receiver) THEN Fault(m)
     ELSE LET target == m.heap[receiver.n].code
              entered == [given EXCEPT !.locals = given.args, !.this = receiver.n]
              left == Step(target.result, Steps(target.body, entered))
          IN [left EXCEPT !.locals = given.locals, !.this = m.this, !.args = m.args]

Step(code, m) ==
  IF ~m.ok THEN m
  ELSE CASE code.op = "nop" -> [m EXCEPT !.top = Unset]
    [] code.op = "const" -> [m EXCEPT !.top = Number(code.n)]
    [] code.op = "load" -> IF Sound(m, code.from) THEN [m EXCEPT !.top = Read(m, code.from)] ELSE Fault(m)
    [] code.op = "store" -> LET value == Step(code.value, m) IN Write(value, code.to, value.top)
    [] code.op = "bump" ->
         IF ~Sound(m, code.to) \/ Read(m, code.to).kind # "number" THEN Fault(m)
         ELSE [Write(m, code.to, Number(Read(m, code.to).n + 1)) EXCEPT !.top = Read(m, code.to)]
    [] code.op = "fresh" ->
         LET value == Step(code.value, m)
             zero == IF code.value = Nop THEN Number(0) ELSE value.top
             boxed == IF code.box THEN Allocate(value, Box(zero)) ELSE value
         IN IF value.ok THEN [boxed EXCEPT !.locals = (code.slot :> boxed.top) @@ @] ELSE value
    [] code.op = "make" ->
         IF \E x \in DOMAIN code.fields : ~Sound(m, code.fields[x]) THEN Fault(m)
         ELSE Allocate(m, [box |-> FALSE, value |-> Unset, code |-> code,
                           fields |-> [x \in DOMAIN code.fields |-> Read(m, code.fields[x])]])
    [] code.op = "invoke" -> InvokeClosure(code, m)
    [] code.op = "show" -> LET value == Step(code.value, m)
                           IN IF value.ok THEN [value EXCEPT !.out = Append(@, value.top)] ELSE value
    [] code.op = "seq" -> Steps(code.body, m)
    [] code.op = "if" -> LET cond == Step(code.cond, m)
                         IN IF cond.top.n = 0 THEN cond ELSE Steps(code.body, cond)
    [] code.op = "loop" -> Iterate(code.body, code.times, Steps(code.init, m))

\* A call with the number n for each parameter; the caller of a ref parameter
\* passes a Box and reads it behind the call.
CallMethod(params, codes, n) ==
  LET refs == {i \in DOMAIN params : params[i].ref}
      boxes == [i \in DOMAIN params |-> Box(Number(n))]
      slots == [i \in DOMAIN params |-> IF i \in refs THEN Object(i) ELSE Number(n)]
      m == Steps(codes, [locals |-> slots, this |-> 0, heap |-> boxes, out |-> <<>>,
                         top |-> Unset, args |-> <<>>, ok |-> TRUE])
  IN [ok |-> m.ok, out |-> m.out, back |-> [i \in refs |-> m.heap[i].value]]
=============================================================================
