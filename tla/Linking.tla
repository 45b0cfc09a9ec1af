------------------------------ MODULE Linking -------------------------------
(***************************************************************************)
(* From the class table to running code: the module that the code          *)
(* generator makes of a declaration, what the VM refuses when it links     *)
(* them, the tables it dispatches by, and what it looks up there.          *)
(***************************************************************************)
EXTENDS Classes

Construct == "<construct>"

-----------------------------------------------------------------------------
(* Code generation                                                         *)

Method(m, flags) ==
  [name |-> m.name, descriptor |-> MethodDescriptor(m.params, m.ret), flags |-> flags,
   new |-> IF "abstract" \in flags THEN {} ELSE m.new]
Compiled(m) == Method(m, IF "abstract" \in m.flags THEN m.flags \ {"final"} ELSE m.flags)

\* Mutant: the interfaces that an interface extends are left out.
CompileFlat(classes, class) ==
  LET c == classes[class]
  IN [super |-> c.extends, interfaces |-> ToSet(c.implements), flags |-> c.flags,
      fields |-> c.fields, methods |-> [i \in DOMAIN c.methods |-> Compiled(c.methods[i])]]

CompileFile(classes, class) ==
  LET c == classes[class]
  IN IF c.interface
     THEN [super |-> <<>>, interfaces |-> {}, flags |-> {"interface"}, fields |-> <<>>,
           methods |-> [i \in DOMAIN c.methods |-> Method(c.methods[i], {"abstract"})]]
     ELSE [super |-> c.extends, interfaces |-> InterfaceClosure(classes, ToSet(c.implements)),
           flags |-> c.flags, fields |-> c.fields,
           methods |-> [i \in DOMAIN c.methods |-> Compiled(c.methods[i])]
                       \o [i \in DOMAIN c.ctors |-> Method(c.ctors[i], {"constructor"})]]

Compile(classes) == [class \in DOMAIN classes |-> CompileFile(classes, class)]

\* Mutant: a constructor that delegates runs them as well.
PrependAlways(body) ==
  IF body # <<>> /\ body[1].s \in {"this", "super"} THEN <<body[1], [s |-> "inits"]>> \o Tail(body)
  ELSE <<[s |-> "inits"]>> \o body

\* The initializers of the fields run behind super(...), and in front of a
\* constructor that delegates to nobody.
PrependFieldInits(body) ==
  LET inits == <<[s |-> "inits"]>>
  IN IF body # <<>> /\ body[1].s = "this" THEN body
     ELSE IF body # <<>> /\ body[1].s = "super" THEN <<body[1]>> \o inits \o Tail(body)
     ELSE inits \o body

\* A call on a value of that class: the method that it names to the VM, and
\* the arguments it pushes, in the order of the parameters.
CompileMethodCall(classes, class, name, args) ==
  LET found == FindMethodOverload("emitter", classes, class, name, ArgTypes("emitter", args))
      params(m) == [p \in DOMAIN m.params |->
                      [m.params[p] EXCEPT !.type = SubstituteSelf(@, class)]]
  IN [i \in DOMAIN found |->
        LET m == found[i].method
        IN [owner |-> found[i].owner, method |-> m,
            descriptor |-> MethodDescriptor(params(m), SubstituteSelf(m.ret, class)),
            pushed |-> ResolvePositionalArgs(m.params, args)]]

-----------------------------------------------------------------------------
(* Linking                                                                 *)

\* The classes above one, up to the first that has no module, or that they
\* never end.
Endless == <<"cyclic">>
RECURSIVE Walk(_, _, _)
Walk(modules, class, hops) ==
  IF class \notin DOMAIN modules THEN <<>>
  ELSE IF hops > Cardinality(DOMAIN modules) THEN Endless
  ELSE <<class>> \o FlattenSeq([i \in DOMAIN modules[class].super |->
                                  Walk(modules, modules[class].super[i], hops + 1)])
Above(modules, class) == Walk(modules, class, 0)
IsCyclic(modules, class) == Endless[1] \in ToSet(Above(modules, class))

SameMethod(a, b) == a.name = b.name /\ a.descriptor = b.descriptor

\* Mutant: the slots of the classes above come first.
VTableFromTop(modules, class) ==
  LET chain == Reverse(Above(modules, class))
      from(i) == LET methods == modules[chain[i]].methods
                 IN [k \in DOMAIN methods |-> [class |-> chain[i], method |-> methods[k]]]
  IN FlattenSeq([i \in DOMAIN chain |-> from(i)])

\* The slots of a class, its own methods first.
VTable(modules, class) ==
  LET chain == Above(modules, class)
      from(i) == LET methods == modules[chain[i]].methods
                 IN [k \in DOMAIN methods |-> [class |-> chain[i], method |-> methods[k]]]
      add(slots, slot) == IF \E s \in ToSet(slots) : SameMethod(s.method, slot.method)
                          THEN slots ELSE Append(slots, slot)
  IN FoldLeft(add, <<>>, FlattenSeq([i \in DOMAIN chain |-> from(i)]))

\* The nearest method above that this one overrides is not final.
OverridesFinal(modules, class, m) ==
  LET chain == Above(modules, class)
      same(i) == {a \in ToSet(modules[chain[i]].methods) : SameMethod(a, m)}
      levels == {i \in DOMAIN chain : i > 1 /\ same(i) # {}}
  IN /\ "constructor" \notin m.flags
     /\ levels # {}
     /\ \E a \in same(Min(levels)) : "final" \in a.flags

InstantiatesAbstract(modules, m) ==
  \E target \in m.new \cap DOMAIN modules : "abstract" \in modules[target].flags

VerifyLink(modules) ==
  \A class \in DOMAIN modules :
    /\ ~IsCyclic(modules, class)
    /\ \A super \in ToSet(modules[class].super) \cap DOMAIN modules :
         "final" \notin modules[super].flags
    /\ \A m \in ToSet(modules[class].methods) :
         ~OverridesFinal(modules, class, m) /\ ~InstantiatesAbstract(modules, m)

-----------------------------------------------------------------------------
(* Dispatch                                                                *)

SlotsOf(modules, class, name) ==
  IF class \notin DOMAIN modules THEN <<>>
  ELSE SelectSeq(VTable(modules, class), LAMBDA slot : slot.method.name = name)
First(seq) == IF seq = <<>> THEN <<>> ELSE <<seq[1]>>

ResolveMethod(modules, class, name, descriptor) ==
  First(SelectSeq(SlotsOf(modules, class, name), LAMBDA slot : slot.method.descriptor = descriptor))

\* Mutant: it is.
ResolveMethodExact(modules, class, name, descriptor) ==
  First(SelectSeq(SlotsOf(modules, class, name), LAMBDA slot : slot.method.descriptor = descriptor))

\* What the method returns is not looked at.
ResolveMethodCovariant(modules, class, name, descriptor) ==
  First(SelectSeq(SlotsOf(modules, class, name),
                  LAMBDA slot : ParamsPart(slot.method.descriptor) = ParamsPart(descriptor)))

\* An instance call goes by the class of the receiver, a constructor's by the
\* class it names.
InvokeInstance(modules, receiver, name, descriptor) ==
  ResolveMethodCovariant(modules, receiver, name, descriptor)
InvokeSpecial(modules, class, name, descriptor) ==
  ResolveMethod(modules, class, name, descriptor)

RECURSIVE IsInstanceOf(_, _, _)
IsInstanceOf(modules, class, target) ==
  \/ class = target
  \/ class \in DOMAIN modules /\ target \in modules[class].interfaces
  \/ \E parent \in IF class \in DOMAIN NativeParent THEN {NativeParent[class]}
                   ELSE IF class \in DOMAIN modules THEN ToSet(modules[class].super) ELSE {} :
       IsInstanceOf(modules, parent, target)

-----------------------------------------------------------------------------
(* Objects                                                                 *)

\* What a field holds before anything is assigned to it.
HasDefault(type) == type.is \in {"int", "float", "bool", "byte", "string"}

\* The fields of a new object: of two of one name that of the nearer class.
NewFields(modules, class) ==
  LET chain == Above(modules, class)
      all == FlattenSeq([i \in DOMAIN chain |-> modules[chain[i]].fields])
      add(fields, f) == IF f.name \in DOMAIN fields THEN fields
                        ELSE (f.name :> HasDefault(f.type)) @@ fields
  IN FoldLeft(add, <<>>, all)

\* Mutant: the constructor of any class may assign it.
SetFieldInAnyCtor(modules, receiver, name, here, inCtor, onThis) == inCtor /\ onThis

\* The net under the checker's rule for fields that are read only: the class
\* of the object says which field is meant.
SetFieldAllowed(modules, receiver, name, here, inCtor, onThis) ==
  LET chain == Above(modules, receiver)
      owners == {i \in DOMAIN chain : \E f \in ToSet(modules[chain[i]].fields) : f.name = name}
      owner == chain[Min(owners)]
      field == CHOOSE f \in ToSet(modules[owner].fields) : f.name = name
  IN owners # {} /\ (field.readonly \/ "readonly" \in modules[owner].flags)
       => onThis /\ inCtor /\ owner = here

=============================================================================
