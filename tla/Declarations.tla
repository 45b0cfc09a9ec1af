---------------------------- MODULE Declarations ----------------------------
(***************************************************************************)
(* What the checker (nl-sema) refuses of the declarations of a program     *)
(* before it looks at its expressions, and the flow analysis by which a    *)
(* constructor is held to assign the fields that may not be null.          *)
(***************************************************************************)
EXTENDS Classes

\* The table from the declarations in the order they are read.
BuildClassTable(declarations) ==
  LET own(class, what) ==
        SelectSeq(declarations, LAMBDA d : d.what = what /\ d.of = class)
      headers == SelectSeq(declarations, LAMBDA d : d.what = "class")
      header(class) == headers[Min({i \in DOMAIN headers : headers[i].name = class})]
  IN [class \in {h.name : h \in ToSet(headers)} |->
        [interface |-> header(class).interface, extends |-> header(class).extends,
         implements |-> header(class).implements, flags |-> header(class).flags,
         fields |-> own(class, "field"), methods |-> own(class, "method"),
         ctors |-> own(class, "ctor")]]

Concrete(classes, class) ==
  ~classes[class].interface /\ "abstract" \notin classes[class].flags

-----------------------------------------------------------------------------
(* Methods                                                                 *)

DuplicateMethod(classes, class) ==
  \E declared \in {classes[class].methods, classes[class].ctors} :
    \E i, j \in DOMAIN declared :
      /\ i < j /\ declared[i].name = declared[j].name
      /\ TypesOf(declared[i].params) = TypesOf(declared[j].params)

\* The nearest method of that name and those parameters, from the class up.
FindMethodExact(classes, class, name, types) ==
  LET chain == Chain(classes, class)
      same(i) == SelectSeq(classes[chain[i]].methods,
                           LAMBDA m : m.name = name /\ TypesOf(m.params) = types)
      levels == {i \in DOMAIN chain : same(i) # <<>>}
  IN IF levels = {} THEN <<>> ELSE <<same(Min(levels))[1]>>

FindAbove(classes, class, m) ==
  LET parent == classes[class].extends
  IN IF parent = <<>> THEN <<>> ELSE FindMethodExact(classes, parent[1], m.name, TypesOf(m.params))

IsChecked(classes, exception) ==
  /\ IsSubclassOrSame(classes, exception, "Exception")
  /\ ~IsSubclassOrSame(classes, exception, "RuntimeException")

Declared(classes, exceptions, by) ==
  \A e \in exceptions :
    IsChecked(classes, e) => \E b \in by : IsSubclassOrSame(classes, e, b)

\* Mutant: E017 is left out.
ThrowsOnlyMissing(classes, class) ==
  \E m \in ToSet(classes[class].methods) : \E above \in ToSet(FindAbove(classes, class, m)) :
    /\ "static" \notin m.flags /\ "static" \notin above.flags
    /\ \E e \in above.throws :
         IsChecked(classes, e) /\ ~\E c \in m.throws : IsSubclassOrSame(classes, c, e)

\* E016, E017: an override throws the checked exceptions that it overrides.
BadThrows(classes, class) ==
  \E m \in ToSet(classes[class].methods) : \E above \in ToSet(FindAbove(classes, class, m)) :
    /\ "static" \notin m.flags /\ "static" \notin above.flags
    /\ \/ \E e \in above.throws :
            IsChecked(classes, e) /\ ~\E c \in m.throws : IsSubclassOrSame(classes, c, e)
       \/ ~Declared(classes, m.throws, above.throws)

\* What an interface asks of a class that implements it.
Expected(method, class) ==
  LET types == TypesOf(method.params)
  IN [i \in DOMAIN types |-> SubstituteSelf(types[i], class)]

InterfacesOf(classes, class) == InterfaceClosure(classes, ToSet(classes[class].implements))

\* E044, for the interfaces that the class itself names.
ImplementsConstUnconst(classes, class) ==
  \E i \in InterfacesOf(classes, class) \cap DOMAIN classes :
    \E m \in ToSet(classes[i].methods) :
      /\ "const" \in m.flags
      /\ \E found \in ToSet(FindMethodExact(classes, class, m.name, Expected(m, class))) :
           "const" \notin found.flags

\* E041: two interfaces above that do not agree on what a method returns.
DiamondConflict(classes, class) ==
  \E i, k \in InterfacesOf(classes, class) \cap DOMAIN classes :
    /\ i # k
    /\ \E a \in ToSet(classes[i].methods), b \in ToSet(classes[k].methods) :
         a.name = b.name /\ TypesOf(a.params) = TypesOf(b.params) /\ a.ret # b.ret

\* Mutant: only the interfaces that the class itself names are looked at.
LeftAbstractHere(classes, class) ==
  LET found(name, types) == ToSet(FindMethodExact(classes, class, name, types))
  IN \E i \in ToSet(classes[class].implements) \cap DOMAIN classes :
       \E m \in ToSet(classes[i].methods) :
         ~\E f \in found(m.name, Expected(m, class)) : "abstract" \notin f.flags

\* E033: a method that a concrete class leaves abstract.
LeftAbstract(classes, class) ==
  LET chain == ToSet(Chain(classes, class))
      found(name, types) == ToSet(FindMethodExact(classes, class, name, types))
      interfaces == UNION {InterfacesOf(classes, c) : c \in chain} \cap DOMAIN classes
  IN \/ \E c \in chain : \E m \in ToSet(classes[c].methods) :
          /\ "abstract" \in m.flags
          /\ \E f \in found(m.name, TypesOf(m.params)) : "abstract" \in f.flags
     \/ \E i \in interfaces : \E m \in ToSet(classes[i].methods) :
          ~\E f \in found(m.name, Expected(m, class)) :
             f.ret = SubstituteSelf(m.ret, class) /\ "abstract" \notin f.flags

\* E034, E035, E036, E049, E033.
BadAbstractFinal(classes, class) ==
  \/ {"abstract", "final"} \subseteq classes[class].flags
  \/ \E m \in ToSet(classes[class].methods) :
       \/ {"abstract", "final"} \subseteq m.flags
       \/ \E above \in ToSet(FindAbove(classes, class, m)) : "final" \in above.flags
  \/ \E parent \in ToSet(classes[class].extends) \cap DOMAIN classes :
       "final" \in classes[parent].flags
  \/ "abstract" \notin classes[class].flags /\ LeftAbstract(classes, class)

-----------------------------------------------------------------------------
(* Constructors.  A statement is a record whose "s" says what it is; a     *)
(* body is a sequence of them.                                             *)

DelegatesTo(classes, class, ctor) ==
  IF ctor.body # <<>> /\ ctor.body[1].s = "this"
  THEN FindCtorOverload("delegation", classes, class, ArgTypes("delegation", ctor.body[1].args))
  ELSE <<>>

\* Mutant: only a constructor that delegates to itself is found.
DelegatesToItself(classes, class, ctor, visited) ==
  DelegatesTo(classes, class, ctor) = <<ctor>>

\* E046
RECURSIVE Delegates(_, _, _, _)
Delegates(classes, class, ctor, visited) ==
  \/ ctor \in visited
  \/ \E next \in ToSet(DelegatesTo(classes, class, ctor)) :
       Delegates(classes, class, next, visited \cup {ctor})

\* E045, E046
BadDelegation(classes, class) ==
  \E ctor \in ToSet(classes[class].ctors) :
    \/ \E i \in DOMAIN ctor.body : i # 1 /\ ctor.body[i].s \in {"this", "super"}
    \/ Delegates(classes, class, ctor, {})

\* The flow analysis: whether the field is assigned behind the statements,
\* whether they end control, and whether a return is reached without it.
Flow(assigned, ends, ok) == [assigned |-> assigned, ends |-> ends, ok |-> ok]

RECURSIVE FieldAssignedAfter(_, _, _), FieldAssignedStmt(_, _, _)
FieldAssignedAfter(body, field, assigned) ==
  FoldLeft(LAMBDA flow, stmt :
             IF flow.ends THEN flow
             ELSE LET next == FieldAssignedStmt(stmt, field, flow.assigned)
                  IN [next EXCEPT !.ok = @ /\ flow.ok],
           Flow(assigned, FALSE, TRUE), body)

\* Mutant: the branch that falls through counts as the one that ends.
EitherBranchAssigns(stmt, field, assigned) ==
  IF stmt.s = "if"
  THEN LET a == FieldAssignedAfter(stmt.then, field, assigned)
           b == FieldAssignedAfter(stmt.else, field, assigned)
       IN Flow(a.assigned \/ b.assigned, a.ends /\ b.ends, a.ok /\ b.ok)
  ELSE IF stmt.s = "assign" THEN Flow(assigned \/ stmt.field = field, FALSE, TRUE)
  ELSE Flow(assigned, stmt.s \in {"return", "throw"}, stmt.s = "return" => assigned)

FieldAssignedStmt(stmt, field, assigned) ==
  CASE stmt.s = "return" -> Flow(assigned, TRUE, assigned)
    [] stmt.s = "throw" -> Flow(assigned, TRUE, TRUE)
    [] stmt.s = "assign" -> Flow(assigned \/ stmt.field = field, FALSE, TRUE)
    [] stmt.s = "if" ->
         LET a == FieldAssignedAfter(stmt.then, field, assigned)
             b == FieldAssignedAfter(stmt.else, field, assigned)
         IN Flow(/\ a.ends /\ ~b.ends => b.assigned
                 /\ b.ends /\ ~a.ends => a.assigned
                 /\ ~a.ends /\ ~b.ends => a.assigned /\ b.assigned,
                 a.ends /\ b.ends, a.ok /\ b.ok)
    [] stmt.s = "loop" ->
         LET init == FieldAssignedAfter(stmt.init, field, assigned)
             body == FieldAssignedAfter(stmt.body, field, init.assigned)
         IN Flow(init.assigned, FALSE, init.ok /\ body.ok)
    [] stmt.s = "block" -> FieldAssignedAfter(stmt.body, field, assigned)
    [] stmt.s = "try" ->
         LET body == FieldAssignedAfter(stmt.body, field, assigned)
             catch == FieldAssignedAfter(stmt.catch, field, assigned)
             finally == FieldAssignedAfter(stmt.finally, field, assigned)
         IN [finally EXCEPT !.ok = @ /\ body.ok /\ catch.ok]
    [] OTHER -> Flow(assigned, FALSE, TRUE)

\* Whether a constructor's own statements leave the field assigned; what
\* this(...) delegates to is held to the same.
CtorInitializes(classes, class, ctor, field) ==
  LET delegates == ctor.body # <<>> /\ ctor.body[1].s = "this"
      credited == /\ delegates
                  /\ \E c \in ToSet(classes[class].ctors) :
                       ArityInRange(c.params, Len(ctor.body[1].args))
      flow == FieldAssignedAfter(IF delegates THEN Tail(ctor.body) ELSE ctor.body, field, credited)
  IN flow.ok /\ (flow.ends \/ flow.assigned)

\* E002: a field that may not be null and has no initializer.
MustBeAssigned(field) == ~field.init /\ field.type.is = "named"
Uninitialized(classes, class) ==
  \E field \in ToSet(classes[class].fields) :
    /\ MustBeAssigned(field)
    /\ \/ classes[class].ctors = <<>>
       \/ \E ctor \in ToSet(classes[class].ctors) :
            ~CtorInitializes(classes, class, ctor, field.name)

-----------------------------------------------------------------------------
\* What check_source_file refuses of a declaration.
Accepted(classes) ==
  \A class \in DOMAIN classes :
    IF classes[class].interface THEN ~DiamondConflict(classes, class)
    ELSE /\ ~DuplicateMethod(classes, class)
         /\ ~BadDelegation(classes, class)
         /\ ~Uninitialized(classes, class)
         /\ ~DiamondConflict(classes, class)
         /\ ~ImplementsConstUnconst(classes, class)
         /\ ~BadAbstractFinal(classes, class)
         /\ ~BadThrows(classes, class)

\* E013, E014: who may assign a field that is read only.
FindFieldOwner(classes, class, name) ==
  LET chain == Chain(classes, class)
      has(i) == \E f \in ToSet(classes[chain[i]].fields) : f.name = name
      levels == {i \in DOMAIN chain : has(i)}
  IN IF levels = {} THEN <<>> ELSE <<chain[Min(levels)]>>

MayAssign(classes, static, name, here, inCtor, onThis) ==
  \A owner \in ToSet(FindFieldOwner(classes, static, name)) :
    LET field == CHOOSE f \in ToSet(classes[owner].fields) : f.name = name
    IN \/ ~field.readonly /\ "readonly" \notin classes[owner].flags
       \/ inCtor /\ here = owner /\ onThis

\* A call on a value of that class: the method that is meant, <<>> where there
\* is none; the binding of its arguments, <<>> where the call is refused; and
\* what it is checked to return.
CheckMethodCall(classes, class, name, args) ==
  LET found == FindMethodOverload("checker", classes, class, name, ArgTypes("checker", args))
  IN [i \in DOMAIN found |->
        [owner |-> found[i].owner, method |-> found[i].method,
         binding |-> BindCallArgs(found[i].method.params, args),
         ret |-> SubstituteSelf(found[i].method.ret, class)]]

=============================================================================
