------------------------------ MODULE Classes -------------------------------
(***************************************************************************)
(* The tables of the program's classes that the checker (nl-sema) and the  *)
(* code generator (nl-codegen) each build, and what they look up there:    *)
(* subtypes, the overload that a call means, the arguments it is given,    *)
(* and the descriptor by which the VM finds the method and counts what to  *)
(* pop.  Names are resolved and templates expanded before.                 *)
(***************************************************************************)
EXTENDS SequencesExt

Simple(name) == [is |-> name]
Named(class) == [is |-> "named", class |-> class]
ArrayOf(type) == [is |-> "array", elem |-> type]
Union(types) == [is |-> "union", members |-> types]
Function(types, ret) == [is |-> "function", params |-> types, ret |-> ret]
Box(type) == [is |-> "box", inner |-> type]
Null == Simple("null")
Void == Simple("void")

Param(name, type) == [name |-> name, type |-> type, ref |-> FALSE, optional |-> FALSE]
\* Self stands in an interface for the class that implements it.
SubstituteSelf(type, class) == IF type = Named("Self") THEN Named(class) ELSE type
TypesOf(params) == [i \in DOMAIN params |-> params[i].type]

-----------------------------------------------------------------------------
(* Assignability                                                           *)

Rank == [byte |-> 0, int |-> 1, float |-> 2]
IsNumeric(type) == type.is \in DOMAIN Rank

Members(type) == IF type.is = "union" THEN ToSet(type.members) ELSE {type}
IsNullable(type) == Null \in Members(type)

AtomAssignable(from, to) ==
  from = to \/ (IsNumeric(from) /\ IsNumeric(to) /\ Rank[from.is] <= Rank[to.is])

IsAssignable(value, target) ==
  \A v \in Members(value) :
    IF v = Null THEN IsNullable(target) ELSE \E t \in Members(target) : AtomAssignable(v, t)

-----------------------------------------------------------------------------
(* Subtypes                                                                *)

\* The native classes have no declaration.
NativeParent == [JsonValue |-> "Stringable", JsonString |-> "JsonValue"]

ParentOf(classes, class) ==
  IF class \in DOMAIN classes /\ classes[class].extends # <<>> THEN classes[class].extends
  ELSE IF class \in DOMAIN NativeParent THEN <<NativeParent[class]>> ELSE <<>>

RECURSIVE IsSubclassOrSame(_, _, _)
IsSubclassOrSame(classes, sub, sup) ==
  \/ sub = sup
  \/ \E parent \in ToSet(ParentOf(classes, sub)) : IsSubclassOrSame(classes, parent, sup)

RECURSIVE InterfaceExtends(_, _, _, _)
InterfaceExtends(classes, interface, target, seen) ==
  \/ interface = target
  \/ /\ interface \in DOMAIN classes \ seen
     /\ \E parent \in ToSet(classes[interface].implements) :
          InterfaceExtends(classes, parent, target, seen \cup {interface})

\* A class and the classes above it that have a declaration.
RECURSIVE Chain(_, _)
Chain(classes, class) ==
  IF class \notin DOMAIN classes THEN <<>>
  ELSE <<class>> \o FlattenSeq([i \in DOMAIN classes[class].extends |->
                                  Chain(classes, classes[class].extends[i])])

ImplementsInterface(classes, class, target) ==
  IF class \notin DOMAIN classes
  THEN class \in DOMAIN NativeParent /\ IsSubclassOrSame(classes, class, target)
  ELSE \E c \in ToSet(Chain(classes, class)) : \E i \in ToSet(classes[c].implements) :
         InterfaceExtends(classes, i, target, {})

IsSubtype(classes, from, to) ==
  IsSubclassOrSame(classes, from, to) \/ ImplementsInterface(classes, from, to)

\* The code generator's copy of the last two.
RECURSIVE InterfaceClosure(_, _)
InterfaceClosure(classes, start) ==
  LET more == start \cup UNION {ToSet(classes[i].implements) : i \in start \cap DOMAIN classes}
  IN IF more = start THEN start ELSE InterfaceClosure(classes, more)

ClosureHas(classes, class, target) ==
  IF class \notin DOMAIN classes
  THEN class \in DOMAIN NativeParent /\ IsSubclassOrSame(classes, class, target)
  ELSE \E c \in ToSet(Chain(classes, class)) :
         target \in InterfaceClosure(classes, ToSet(classes[c].implements))

CompilesAsSubtype(classes, from, to) ==
  IsSubclassOrSame(classes, from, to) \/ ClosureHas(classes, from, to)

-----------------------------------------------------------------------------
(* Overload resolution.  An argument's type is <<>> where its expression   *)
(* has none of the shapes that both probes know, a score where the         *)
(* parameter does not take it.                                             *)

RequiredCount(params) ==
  Min({i \in DOMAIN params : params[i].optional} \cup {Len(params) + 1}) - 1

ArityInRange(params, argc) == RequiredCount(params) <= argc /\ argc <= Len(params)

CheckerScore(classes, arg, param) ==
  IF arg = <<>> THEN <<>>
  ELSE IF arg[1] = param \/ arg[1] = Void THEN <<0>>
  ELSE IF \/ arg[1] = Null /\ IsNullable(param)
          \/ /\ arg[1] # Null
             /\ IF arg[1].is = "named" /\ param.is = "named"
                THEN IsSubtype(classes, arg[1].class, param.class)
                ELSE IsAssignable(arg[1], param)
    THEN <<1>> ELSE <<>>

EmitterScore(classes, arg, param) ==
  IF arg = <<>> THEN <<>>
  ELSE IF arg[1] = param THEN <<0>>
  ELSE IF \/ arg[1] = Null /\ param.is = "union" /\ IsNullable(param)
          \/ /\ arg[1].is = "named" /\ param.is = "named"
             /\ CompilesAsSubtype(classes, arg[1].class, param.class)
          \/ IsNumeric(arg[1]) /\ IsNumeric(param)
    THEN <<1>> ELSE <<>>

\* The third copy, of the check for cyclic delegation, knows literals and the
\* caller's own parameters only.
DelegationScore(arg, param) ==
  IF arg = <<>> \/ arg = <<param>> THEN <<0>>
  ELSE IF IsNumeric(arg[1]) /\ IsNumeric(param) THEN <<1>> ELSE <<>>

Score(pass, classes, arg, param) ==
  CASE pass = "checker" -> CheckerScore(classes, arg, param)
    [] pass = "emitter" -> EmitterScore(classes, arg, param)
    [] pass = "delegation" -> DelegationScore(arg, param)

ArgAt(args, i) == IF i \in DOMAIN args THEN args[i] ELSE <<>>

\* Mutant: a tie goes to the overload that was declared last.
LastOfBest(pass, classes, candidates, args) ==
  LET scores(k) == [i \in DOMAIN candidates[k].params |->
                      Score(pass, classes, ArgAt(args, i), candidates[k].params[i].type)]
      compatible == {k \in DOMAIN candidates : <<>> \notin ToSet(scores(k))}
  IN IF Len(candidates) <= 1 THEN candidates
     ELSE <<candidates[IF compatible = {} THEN 1 ELSE Max(compatible)]>>

BestOverload(pass, classes, candidates, args) ==
  LET scores(k) == [i \in DOMAIN candidates[k].params |->
                      Score(pass, classes, ArgAt(args, i), candidates[k].params[i].type)]
      total(k) == FoldLeft(LAMBDA n, s : n + s[1], 0, scores(k))
      compatible == {k \in DOMAIN candidates : <<>> \notin ToSet(scores(k))}
      least == {k \in compatible : \A j \in compatible : total(k) <= total(j)}
  IN IF Len(candidates) <= 1 THEN candidates
     ELSE <<candidates[IF compatible = {} THEN 1 ELSE Min(least)]>>

FindCtorOverload(pass, classes, class, args) ==
  IF class \notin DOMAIN classes THEN <<>>
  ELSE BestOverload(pass, classes,
                    SelectSeq(classes[class].ctors, LAMBDA c : ArityInRange(c.params, Len(args))),
                    args)

\* The method that a call means, of the nearest class that has one of that
\* name and arity, and that class.
FindMethodOverload(pass, classes, class, name, args) ==
  LET chain == Chain(classes, class)
      candidates(i) == SelectSeq(classes[chain[i]].methods,
                                 LAMBDA m : m.name = name /\ ArityInRange(m.params, Len(args)))
      levels == {i \in DOMAIN chain : candidates(i) # <<>>}
  IN IF levels = {} THEN <<>>
     ELSE <<[owner |-> chain[Min(levels)],
             method |-> BestOverload(pass, classes, candidates(Min(levels)), args)[1]]>>

\* The code generator's static types: a union is its first member that is not
\* null.
RECURSIVE Lowered(_)
Lowered(type) ==
  CASE type.is = "union" ->
         LET members == SelectSeq(type.members, LAMBDA m : m # Null)
         IN IF members = <<>> THEN Null ELSE Lowered(members[1])
    [] type.is = "array" -> ArrayOf(Lowered(type.elem))
    [] type.is = "function" ->
         Function([i \in DOMAIN type.params |-> Lowered(type.params[i])], Lowered(type.ret))
    [] OTHER -> type

\* What the passes know of the arguments of a call, each of which is a record
\* [type, known, literal, name].
ArgTypes(pass, args) ==
  [i \in DOMAIN args |->
     CASE pass = "checker" /\ args[i].known -> <<args[i].type>>
       [] pass = "emitter" /\ args[i].known -> <<Lowered(args[i].type)>>
       [] pass = "delegation" /\ args[i].literal -> <<args[i].type>>
       [] OTHER -> <<>>]

-----------------------------------------------------------------------------
(* Binding of arguments                                                    *)

NoName == ""
Position(params, name) == {p \in DOMAIN params : params[p].name = name}

\* For each parameter the argument that is its value, 0 for its default, or
\* <<>> where the call is refused.
BindCallArgs(params, args) ==
  LET start == [ok |-> TRUE, named |-> FALSE, binding |-> [p \in DOMAIN params |-> 0]]
      step(b, i) ==
        IF args[i].name = NoName
        THEN [b EXCEPT !.ok = @ /\ ~b.named,
                       !.binding = [p \in DOMAIN @ |-> IF p = i THEN i ELSE @[p]]]
        ELSE LET here == Position(params, args[i].name)
             IN [b EXCEPT !.named = TRUE,
                          !.ok = @ /\ \A p \in here : b.binding[p] = 0,
                          !.binding = [p \in DOMAIN @ |-> IF p \in here THEN i ELSE @[p]]]
      last == FoldLeft(step, start, [i \in DOMAIN args |-> i])
  IN IF last.ok /\ \A p \in 1..RequiredCount(params) : last.binding[p] # 0
     THEN <<last.binding>> ELSE <<>>

\* Mutant: a named argument takes the place it is written at.
ResolveByPlace(params, args) == [p \in DOMAIN params |-> IF p \in DOMAIN args THEN p ELSE 0]

\* The code generator's copy, which checks nothing.
ResolvePositionalArgs(params, args) ==
  LET step(out, i) ==
        LET here == IF args[i].name = NoName THEN {i} ELSE Position(params, args[i].name)
        IN [p \in DOMAIN out |-> IF p \in here THEN i ELSE out[p]]
  IN FoldLeft(step, [p \in DOMAIN params |-> 0], [i \in DOMAIN args |-> i])

-----------------------------------------------------------------------------
(* Descriptors, symbol by symbol: the arrow of a function type is two, as  *)
(* the VM looks at one byte at a time; that of a method is found as one.   *)

Arrow == "->"
Joined(parts, separator) ==
  IF parts = <<>> THEN <<>>
  ELSE FoldLeft(LAMBDA s, p : s \o separator \o p, parts[1], Tail(parts))

RECURSIVE TypeDescriptor(_)
TypeDescriptor(type) ==
  CASE type.is = "named" -> <<type.class>>
    [] type.is = "array" -> TypeDescriptor(type.elem) \o <<"[]">>
    [] type.is = "union" ->
         Joined([i \in DOMAIN type.members |-> TypeDescriptor(type.members[i])], <<"|">>)
    [] type.is = "box" -> <<"Box", "<">> \o TypeDescriptor(type.inner) \o <<">">>
    [] type.is = "function" ->
         <<"(">> \o Joined([i \in DOMAIN type.params |-> TypeDescriptor(type.params[i])], <<",">>)
         \o <<")", "=", ">">> \o TypeDescriptor(type.ret)
    [] OTHER -> <<type.is>>

\* A parameter that is passed by reference is passed in a box.
CallingConvention(params) ==
  [i \in DOMAIN params |-> IF params[i].ref THEN Box(params[i].type) ELSE params[i].type]

ParamsDescriptor(types) ==
  <<"(">> \o Joined([i \in DOMAIN types |-> TypeDescriptor(types[i])], <<",">>) \o <<")">>
MethodDescriptor(params, ret) ==
  ParamsDescriptor(CallingConvention(params)) \o <<Arrow>> \o TypeDescriptor(ret)

\* The part of a descriptor in front of the arrow.
ParamsPart(descriptor) ==
  SubSeq(descriptor, 1, Min({i \in DOMAIN descriptor : descriptor[i] = Arrow} \cup {Len(descriptor) + 1}) - 1)

\* Mutant: brackets are not looked at.
CountCommas(descriptor) ==
  LET part == ParamsPart(descriptor)
  IN IF Len(part) = 2 THEN 0 ELSE 1 + Cardinality({i \in DOMAIN part : part[i] = ","})

\* What the VM pops for a call: the commas outside of brackets, and one more.
CountParams(descriptor) ==
  LET part == ParamsPart(descriptor)
      inner == SubSeq(part, 2, Len(part) - 1)
      among(i, symbols) == Cardinality({k \in 1..i : inner[k] \in symbols})
      depth(i) == among(i, {"(", "<"}) - among(i, {")", ">"})
  IN IF inner = <<>> THEN 0
     ELSE 1 + Cardinality({i \in DOMAIN inner : inner[i] = "," /\ depth(i) = 0})

=============================================================================
