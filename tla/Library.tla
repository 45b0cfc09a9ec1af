------------------------------ MODULE Library -------------------------------
(***************************************************************************)
(* The pure algorithms of the VM's native library and of the bytecode      *)
(* crate, run on inputs that grow piece by piece: every state is an input  *)
(* of one algorithm, and the properties compare what the code makes of the *)
(* longer input with a definition that does not say how.                   *)
(***************************************************************************)
EXTENDS SequencesExt

CONSTANTS Jobs,      \* a sequence of records [kind, pieces, bound, start]
          MaxDepth,  \* of Json
          Base,      \* of ModuleFormat
          Subjects   \* the texts that patterns are tried on

J == INSTANCE Json
R == INSTANCE Regex
T == INSTANCE TimeZone
F == INSTANCE ModuleFormat
D == INSTANCE Declarations
L == INSTANCE Linking
C == INSTANCE Closures

VARIABLES task,     \* which of the jobs
          input,    \* the pieces it has been given
          answered  \* whether it has been run on them
vars == <<task, input, answered>>

job == Jobs[task]
text == job.start \o FlattenSeq(input)

Init == task \in DOMAIN Jobs /\ input = <<>> /\ answered = TRUE

Extend == /\ answered /\ Len(input) < job.bound
          /\ \E piece \in job.pieces : input' = Append(input, piece)
          /\ answered' = FALSE
          /\ UNCHANGED task

Answer == /\ ~answered
          /\ answered' = TRUE
          /\ UNCHANGED <<task, input>>

Next == Extend \/ Answer
Spec == Init /\ [][Next]_vars

\* The algorithm of that kind is run.
Asked(kind) == job.kind = kind /\ answered # answered' /\ answered'

-----------------------------------------------------------------------------
(* system.text.json                                                        *)

RECURSIVE HasInfinite(_)
HasInfinite(v) == \/ J!IsInfinite(v)
                  \/ v.kind \in {"array", "object"}
                     /\ \E i \in DOMAIN v.items : HasInfinite(v.items[i])

\* What a program reads it can write and read again, compact or indented:
\* parse(stringify(v)) is v with its names in their order, unless a number is
\* out of the range of a float, for which null is written.
JsonRoundTrips ==
  [][Asked("json") =>
       LET r == J!Parse(text)
       IN r.ok /\ ~HasInfinite(r.value) =>
            \A indent \in {0, 2} :
              LET again == J!Parse(J!Stringify(r.value, indent, 0))
              IN again.ok /\ again.value = r.value]_vars

\* The number grammar of RFC 8259, by its parts.
IsDigits(s) == s # <<>> /\ ToSet(s) \subseteq J!Digits
Splits(s) == {<<SubSeq(s, 1, n), SubSeq(s, n + 1, Len(s))>> : n \in 0..Len(s)}
IsWhole(s) == IsDigits(s) /\ (s[1] = "0" => Len(s) = 1)
IsFraction(s) == s = <<>> \/ (s[1] = "." /\ IsDigits(Tail(s)))
IsExponent(s) ==
  s = <<>> \/ /\ s[1] \in {"e", "E"}
              /\ \E p \in Splits(Tail(s)) :
                   p[1] \in {<<>>, <<"+">>, <<"-">>} /\ IsDigits(p[2])
IsNumber(s) ==
  \E p \in Splits(s) : \E q \in Splits(p[2]) : \E e \in Splits(q[2]) :
    /\ p[1] \in {<<>>, <<"-">>} /\ IsWhole(q[1]) /\ IsFraction(e[1]) /\ IsExponent(e[2])

\* The errors of an escape sequence and of nesting are reported elsewhere.
Misplaced(r) == ~r.ok /\ r.expected \in {J!AnEscape, J!LessNesting}
\* Whether a text with that result may only stop too early.
Viable(r) == ~r.ok => r.found = J!EndOfInput \/ Misplaced(r)
LineAndColumn(s, pos) ==
  LET feeds == {n \in 1..(pos - 1) : s[n] = J!NL}
  IN [pos |-> pos, line |-> Cardinality(feeds) + 1, column |-> pos - Max(feeds \cup {0})]

\* A text is refused at the first symbol that nothing could follow, at the
\* line and column a reader counts, or at its end if it only stops too early;
\* a text of digits, signs, dots and exponents is a number or refused.
JsonRefusedAtFirstWrongSymbol ==
  [][Asked("json") =>
       LET r == J!Parse(text)
           wrong == {n \in 1..Len(text) : ~Viable(J!Parse(SubSeq(text, 1, n)))}
       IN /\ ~r.ok /\ ~Misplaced(r) => r.at = LineAndColumn(text, Min(wrong \cup {Len(text) + 1}))
          /\ job.numbers => (r.ok <=> IsNumber(text))]_vars

-----------------------------------------------------------------------------
(* mini_regex.rs                                                           *)

\* The language of a pattern: where a match of node on s that starts at pos
\* can end.
RECURSIVE Ends(_, _, _), Closure(_, _, _)
Ends(node, s, pos) ==
  CASE node.op \in {"char", "any", "class"} ->
         IF pos < Len(s) /\ CASE node.op = "char" -> s[pos + 1] = node.char
                              [] node.op = "any" -> TRUE
                              [] OTHER -> R!Inside(s[pos + 1], node.ranges) # node.negated
           THEN {pos + 1} ELSE {}
    [] node.op = "start" -> {pos} \cap {0}
    [] node.op = "end" -> {pos} \cap {Len(s)}
    [] node.op = "concat" ->
         IF node.items = <<>> THEN {pos}
         ELSE UNION {Ends(R!Concat(Tail(node.items)), s, p) : p \in Ends(Head(node.items), s, pos)}
    [] node.op = "alt" ->
         UNION {Ends(node.branches[i], s, pos) : i \in DOMAIN node.branches}
    [] node.op = "*" -> Closure(node.inner, s, {pos})
    [] node.op = "+" -> Closure(node.inner, s, Ends(node.inner, s, pos))
    [] node.op = "?" -> {pos} \cup Ends(node.inner, s, pos)
    [] node.op = "group" -> Ends(node.inner, s, pos)
Closure(node, s, S) ==
  LET more == S \cup UNION {Ends(node, s, p) : p \in S}
  IN IF more = S THEN S ELSE Closure(node, s, more)

EndsOfHits(regex, s, pos) == {h.end : h \in ToSet(R!Hits(regex, s, pos))}

\* The matches that findAll returns are in order and apart, each the leftmost
\* behind the one before it, none is left out, and putting them back between
\* the parts that split returns gives the subject again.
FindsAll(regex, s) ==
  LET found == R!FindAll(regex, s)
      isEmpty(i) == found[i].end = found[i].start
      resume(i) == IF i = 0 THEN 0 ELSE found[i].end + IF isEmpty(i) THEN 1 ELSE 0
      limit(i) == IF i = Len(found) THEN Len(s) ELSE found[i + 1].start - 1
      parts == R!Parts(s, found)
      piece(i) == SubSeq(s, found[i].start + 1, found[i].end)
  IN /\ \A i \in DOMAIN found : found[i].end \in Ends(regex.node, s, found[i].start)
     /\ \A i, k \in DOMAIN found : i < k => found[i].end <= found[k].start
     /\ \A i \in 0..Len(found) :
          \A start \in resume(i)..limit(i) : Ends(regex.node, s, start) = {}
     /\ s = FlattenSeq([i \in DOMAIN parts |->
                          parts[i] \o IF i \in DOMAIN found THEN piece(i) ELSE <<>>])

\* What a glob says of a path: `**` any text, `*` and `?` within one segment.
RECURSIVE GlobMatches(_, _)
GlobMatches(p, s) ==
  IF p = <<>> THEN s = <<>>
  ELSE IF p[1] = "*" /\ Len(p) > 1 /\ p[2] = "*"
    THEN \E x \in Splits(s) : GlobMatches(SubSeq(p, 3, Len(p)), x[2])
  ELSE IF p[1] = "*"
    THEN \E x \in Splits(s) : "/" \notin ToSet(x[1]) /\ GlobMatches(Tail(p), x[2])
  ELSE s # <<>> /\ (IF p[1] = "?" THEN s[1] # "/" ELSE s[1] = p[1])
       /\ GlobMatches(Tail(p), Tail(s))

\* The backtracking matcher finds the matches of the language and no others,
\* however alternatives, repetitions and empty matches are nested; a glob
\* matches the paths it names; and an escaped text matches itself only.
MatchesLanguage(regex, s) ==
  /\ \A pos \in 0..Len(s) : EndsOfHits(regex, s, pos) = Ends(regex.node, s, pos)
  /\ R!IsMatch(regex, s) <=> Len(s) \in Ends(regex.node, s, 0)
  /\ FindsAll(regex, s)
RegexFindsTheLanguage ==
  [][   /\ Asked("regex") =>
             LET regex == R!Compile(text)
             IN regex.ok => \A s \in Subjects : MatchesLanguage(regex, s)
        /\ Asked("glob") =>
             \A s \in Subjects : R!IsMatch(R!CompileGlobOrRegex(text), s) <=> GlobMatches(text, s)
        /\ Asked("escaped") =>
             \A s \in Subjects \cup {text} : R!IsMatch(R!Compile(R!EscapePattern(text)), s) <=> s = text]_vars

-----------------------------------------------------------------------------
(* mini_tz.rs                                                              *)

\* The Gregorian calendar, one day at a time.
IsLeap(y) == y % 4 = 0 /\ (y % 100 = 0 => y % 400 = 0)
DaysIn(y, m) == CASE m = 2 -> IF IsLeap(y) THEN 29 ELSE 28
                  [] m \in {4, 6, 9, 11} -> 30
                  [] OTHER -> 31
NextDay(c) == IF c[3] < DaysIn(c[1], c[2]) THEN <<c[1], c[2], c[3] + 1>>
              ELSE IF c[2] < 12 THEN <<c[1], c[2] + 1, 1>> ELSE <<c[1] + 1, 1, 1>>

Sum(s) == FoldLeft(+, 0, s)
IsoPattern == [i \in 1..11 |->
                 [run |-> IF i = 1 THEN 4 ELSE 2,
                  letter |-> <<"y", "-", "M", "-", "d", "T", "H", ":", "m", ":", "s">>[i]]]

\* A zone as a program meets it: its types, and from when on each is in force.
Types(pieces) == SelectSeq(pieces, LAMBDA p : p.what = "type")
Moments(pieces) == SelectSeq(pieces, LAMBDA p : p.what = "change" /\ p.type <= Len(Types(pieces)))
TimeOf(moments, i) == Sum([k \in 1..i |-> moments[k].after])

\* The block of a TZif file of that zone with leap second records.
Block(pieces, size, leaps) ==
  LET types == Types(pieces)
      moments == Moments(pieces)
      counts == <<0, 0, leaps, Len(moments), Len(types), 4>>
  IN <<T!Field(4, T!Magic), T!Field(1, 2), T!Field(15, 0)>>
     \o [i \in 1..6 |-> T!Field(4, counts[i])]
     \o [i \in DOMAIN moments |-> T!Field(size, TimeOf(moments, i))]
     \o [i \in DOMAIN moments |-> T!Field(1, moments[i].type - 1)]
     \o [i \in DOMAIN types |-> T!Field(6, types[i])]
     \o <<T!Field(4, 0)>> \o [i \in 1..leaps |-> T!Field(size + 4, 0)]

ZoneOffset(pieces, epoch) ==
  LET types == Types(pieces)
      moments == Moments(pieces)
      past == {i \in DOMAIN moments : TimeOf(moments, i) <= epoch}
      standard == {i \in DOMAIN types : ~types[i].isdst}
  IN IF types = <<>> THEN <<>>
     ELSE <<types[IF past # {} THEN moments[Max(past)].type
                  ELSE Min(standard \cup {IF standard = {} THEN 1 ELSE Len(types)})].offset>>

DaysFollow(z) ==
  LET c == T!CivilFromDays(z)
  IN /\ T!CivilFromDays(z + 1) = NextDay(c)
     /\ T!DaysFromCivil(c[1], c[2], c[3]) = z
     /\ T!CivilFromDays(0) = <<1970, 1, 1>>

ReadsBack(epoch, offset) ==
  LET zone == T!FormatFixedOffset(offset)
  IN T!ParseIso8601(T!FormatDateTime(epoch, offset, IsoPattern) \o zone)
       = <<[epoch |-> epoch, zone |-> zone]>>

\* Days follow one another as in the calendar, before 1970 as behind it; an
\* instant written with an offset reads back as that instant and offset; and
\* a zone's offset is that of the last change up to the instant, wherever the
\* tables of its file lie.
CalendarAndZones ==
  [][/\ Asked("day") => DaysFollow(Sum(text))
     /\ Asked("instant") => \A offset \in job.offsets : ReadsBack(Sum(text), offset)
     /\ Asked("zone") =>
          \A leaps \in {0, 2}, epoch \in job.epochs :
            T!ZoneOffsetSeconds(<<"Area", "City">>,
                                <<"Area", "City">> :> Block(<<>>, 4, leaps) \o Block(text, 8, leaps),
                                epoch)
              = ZoneOffset(text, epoch)]_vars

-----------------------------------------------------------------------------
(* nl-bytecode                                                             *)

\* A module as the code generator makes it, a declaration at a time.
Blank == [version |-> F!Version, opt |-> 0, pool |-> <<>>, this |-> 0, flags |-> 0, super |-> 0,
          interfaces |-> <<>>, fields |-> <<>>, methods |-> <<>>, hashed |-> TRUE]
Declare(m, what) ==
  LET name == F!AddNamed(m.pool, F!ClassTag, <<what.name>>)
      utf8 == F!Intern(m.pool, F!Entry(F!Utf8Tag, <<what.name>>))
      type == F!AddNamed(utf8.pool, F!TypeDescTag, <<what.type>>)
  IN CASE what.what = "int" ->
            [m EXCEPT !.pool = F!Intern(@, F!Entry(F!IntTag, <<what.name>>)).pool]
       [] what.what = "interface" ->
            [m EXCEPT !.pool = name.pool, !.interfaces = Append(@, name.index)]
       [] what.what = "field" ->
            [m EXCEPT !.pool = type.pool, !.fields = Append(@, <<1, utf8.index, type.index>>)]
       [] what.what = "method" ->
            [m EXCEPT !.pool = type.pool,
                      !.methods = Append(@, [flags |-> 1, name |-> utf8.index,
                                             descriptor |-> type.index, throws |-> <<type.index>>,
                                             maxLocals |-> 1, maxStack |-> 2,
                                             code |-> FlattenSeq(what.code),
                                             exceptions |-> <<<<0, 1, 1, 0>>>>,
                                             lines |-> <<<<0, 9>>>>])]
RECURSIVE Declared(_, _)
Declared(m, whats) == IF whats = <<>> THEN m ELSE Declared(Declare(m, Head(whats)), Tail(whats))

\* The counts of a module that the format can hold, the pool's by one less.
Fits(m) == Len(m.pool) < F!U16Limit - 1

Named(m, index, tag, name) == F!NameAt(m.pool, tag, index) = <<<<name>>>>

\* No shorter file is accepted, nor one changed in a byte that still says it
\* has a hash.
Guarded(bytes) ==
  /\ \A n \in 0..(Len(bytes) - 1) : F!Decode(SubSeq(bytes, 1, n)) = <<>>
  /\ \A n \in DOMAIN bytes :
       LET read == F!Decode([bytes EXCEPT ![n] = (@ + 1) % Base])
       IN read = <<>> \/ ~read[1].hashed

\* A module that is written is the module that is read, for every pool the
\* format can count, alone and in a container; every index leads to the name
\* it was given out for; the sweep finds the instructions that were emitted.
ModulesRoundTrip ==
  [][Asked("module") =>
       LET m == Declared(Blank, text)
           bytes == F!Encode(m)
           methods == SelectSeq(text, LAMBDA w : w.what = "method")
       IN Fits(m) =>
            /\ F!Decode(bytes) = <<m>>
            /\ \A i \in DOMAIN methods :
                 /\ Named(m, m.methods[i].descriptor, F!TypeDescTag, methods[i].type)
                 /\ F!Utf8At(m.pool, m.methods[i].name) = <<<<methods[i].name>>>>
                 /\ F!Sweep(m.methods[i].code, 0, <<>>)
                      = [ok |-> TRUE, instructions |-> methods[i].code]
            /\ job.corrupted =>
                 /\ Guarded(bytes)
                 /\ F!LoadModules(F!EncodeProgram(<<m, Blank>>)) = <<<<m, Blank>>>>]_vars

-----------------------------------------------------------------------------
(* nl-sema, nl-codegen and the VM's linker: what is said of a call         *)

Candidates(classes, found, argc) ==
  {m \in ToSet(classes[found.owner].methods) :
     m.name = found.method.name /\ D!ArityInRange(m.params, argc)}

\* A call with no argument left out or named, no union but for a null, and no
\* number that a candidate would have to narrow.
Plain(candidates, args) ==
  \A m \in candidates : \A i \in DOMAIN m.params :
    /\ i \in DOMAIN args /\ args[i].known /\ args[i].name = D!NoName
    /\ LET from == args[i].type
           to == m.params[i].type
       IN /\ from # D!Null => "union" \notin {from.is, to.is}
          /\ D!IsNumeric(from) /\ D!IsNumeric(to) => D!AtomAssignable(from, to)

Takes(classes, m, args) ==
  \A i \in DOMAIN m.params :
    LET from == args[i].type
        to == m.params[i].type
    IN \/ D!IsAssignable(from, to)
       \/ /\ from.is = "named" /\ to.is = "named"
          /\ D!IsSubtype(classes, from.class, to.class)
TakesExactly(m, args) == \A i \in DOMAIN m.params : m.params[i].type = args[i].type

PicksAgree(classes, class, args) ==
  LET checked == D!CheckMethodCall(classes, class, "f", args)
      emitted == L!CompileMethodCall(classes, class, "f", args)
      candidates == Candidates(classes, checked[1], Len(args))
      best(suits) == (\E m \in candidates : m \in suits) => checked[1].method \in suits
  IN checked # <<>> /\ Plain(candidates, args) =>
       /\ [owner |-> emitted[1].owner, method |-> emitted[1].method]
            = [owner |-> checked[1].owner, method |-> checked[1].method]
       /\ best({m \in candidates : Takes(classes, m, args)})
       /\ best({m \in candidates : TakesExactly(m, args)})
       /\ checked[1].binding = <<emitted[1].pushed>>

\* Every argument reaches one parameter, and one that has no default gets one.
BindingsAgree(params, args) ==
  LET bound == D!BindCallArgs(params, args)
      given == D!ResolvePositionalArgs(params, args)
  IN /\ bound # <<>> => bound[1] = given
     /\ bound # <<>> /\ (\A i \in DOMAIN args : args[i].name # D!NoName => D!Position(params, args[i].name) # {})
          => \A i \in DOMAIN args : i > Len(params) \/ \E p \in DOMAIN params :
               /\ {q \in DOMAIN params : given[q] = i} = {p}
               /\ args[i].name \in {D!NoName, params[p].name}
     /\ bound # <<>> => \A p \in DOMAIN params : given[p] # 0 \/ params[p].optional

\* A parameter that is a function, with another behind it.
FunctionInFront(params) == \E i \in DOMAIN params : i < Len(params) /\ params[i].type.is = "function"

\* The overload that a call was checked against is the one that is emitted,
\* it takes the arguments where one does, and an exact one wins; arguments
\* reach their parameters by place and by name alike; and the VM pops as many
\* values as the method has parameters.
OverloadsAgree ==
  [][Asked("overloads") =>
       LET classes == D!BuildClassTable(text)
       IN /\ \A args \in job.calls : PicksAgree(classes, job.class, args)
          /\ \A m \in ToSet(classes[job.class].methods) :
               /\ \A args \in job.calls : BindingsAgree(m.params, args)
               /\ FunctionInFront(m.params)
                  \/ D!CountParams(D!MethodDescriptor(m.params, m.ret)) = Len(m.params)]_vars

\* What split_top_level_params is documented to do: a function type counts as
\* one parameter.
CallsTakeTheirArguments ==
  [][Asked("overloads") =>
       \A m \in ToSet(D!BuildClassTable(text)[job.class].methods) :
         D!CountParams(D!MethodDescriptor(m.params, m.ret)) = Len(m.params)]_vars

\* The nearest class at or above one that declares the method.
Declares(classes, class, m) ==
  LET same(n) == n.name = m.name /\ D!TypesOf(n.params) = D!TypesOf(m.params)
      chain == D!Chain(classes, class)
      at == {i \in DOMAIN chain : \E n \in ToSet(classes[chain[i]].methods) : same(n)}
  IN [class |-> chain[Min(at)],
      method |-> CHOOSE n \in ToSet(classes[chain[Min(at)]].methods) : same(n)]

InstanceCallRuns(classes, modules, static, receiver, args) ==
  LET checked == D!CheckMethodCall(classes, static, "f", args)
      called == checked[1].method
      run == L!InvokeInstance(modules, receiver, "f",
                              L!CompileMethodCall(classes, static, "f", args)[1].descriptor)
      expected == Declares(classes, receiver, called)
  IN checked # <<>> =>
       /\ run # <<>> /\ run[1].class = expected.class
       /\ "abstract" \notin run[1].method.flags
       /\ classes[static].interface => expected.method.ret = D!SubstituteSelf(called.ret, receiver)
       /\ ~classes[static].interface =>
            D!Declared(classes, expected.method.throws, called.throws)
       /\ "const" \in called.flags /\ static \in D!InterfacesOf(classes, receiver)
            => "const" \in expected.method.flags

\* The checker, the code generator and the VM agree on who is whose subtype.
SubtypesAgree(classes, modules) ==
  \A from, to \in DOMAIN classes \cup DOMAIN D!NativeParent :
    LET is == D!IsSubtype(classes, from, to)
    IN /\ is <=> D!CompilesAsSubtype(classes, from, to)
       /\ from \notin DOMAIN classes \/ ~classes[from].interface
            => (is <=> L!IsInstanceOf(modules, from, to))

\* A hierarchy that the checker accepts is linked, and an instance call runs
\* the nearest override, by the receiver's class, of the method it was checked
\* against: one that has a body, throws no more and is as const.
CallsReachTheCheckedMethod ==
  [][Asked("hierarchy") =>
       LET classes == D!BuildClassTable(text)
           modules == L!Compile(classes)
           receivers == {c \in DOMAIN classes : D!Concrete(classes, c)}
       IN /\ SubtypesAgree(classes, modules)
          /\ D!Accepted(classes) =>
               /\ L!VerifyLink(modules)
               /\ \A r \in receivers, static \in DOMAIN classes, args \in job.calls :
                    D!IsSubtype(classes, r, static) =>
                      InstanceCallRuns(classes, modules, static, r, args)]_vars

-----------------------------------------------------------------------------
(* Construction                                                            *)

Run(how, trace) == [how |-> how, trace |-> trace]

\* The ways control can go through a constructor's statements, with the fields
\* that are assigned and the classes whose initializers run on the way.
RECURSIVE Runs(_, _, _, _), RunsOf(_, _, _, _)
Runs(classes, class, body, fuel) ==
  LET after(run, more) == {Run(m.how, run.trace \o m.trace) : m \in more}
      step(runs, stmt) == LET more == RunsOf(classes, class, stmt, fuel)
                          IN UNION {IF run.how = "next" THEN after(run, more) ELSE {run} : run \in runs}
  IN FoldLeft(step, {Run("next", <<>>)}, body)
RunsOf(classes, class, stmt, fuel) ==
  LET runs(body) == Runs(classes, class, body, fuel)
      calls(of) == LET target == D!FindCtorOverload("emitter", classes, of, D!ArgTypes("emitter", stmt.args))
                   IN IF fuel = 0 THEN {Run("forever", <<>>)}
                      ELSE UNION {{IF r.how = "return" THEN Run("next", r.trace) ELSE r :
                                     r \in Runs(classes, of, L!PrependFieldInits(c.body), fuel - 1)} :
                                  c \in ToSet(target)}
      behind(run, more) == {Run(IF m.how = "next" THEN run.how ELSE m.how, run.trace \o m.trace) : m \in more}
      caught(run) == IF run.how = "throw"
                     THEN {run} \cup {Run(m.how, run.trace \o m.trace) : m \in runs(stmt.catch)}
                     ELSE {run}
  IN CASE stmt.s = "assign" -> {Run("next", <<stmt.field>>)}
       [] stmt.s = "inits" -> {Run("next", <<class>>)}
       [] stmt.s = "call" -> {Run("next", <<>>), Run("throw", <<>>)}
       [] stmt.s \in {"return", "throw"} -> {Run(stmt.s, <<>>)}
       [] stmt.s = "if" -> runs(stmt.then) \cup runs(stmt.else)
       [] stmt.s = "loop" -> runs(stmt.init) \cup runs(stmt.init \o stmt.body)
       [] stmt.s = "block" -> runs(stmt.body)
       [] stmt.s = "try" ->
            UNION {behind(r, runs(stmt.finally)) : r \in UNION {caught(b) : b \in runs(stmt.body)}}
       [] stmt.s = "this" -> calls(class)
       [] stmt.s = "super" -> UNION {calls(parent) : parent \in ToSet(classes[class].extends)}

\* A class with a class above it leaves no constructor without a first call.
Chained(classes) ==
  \A class \in DOMAIN classes : \A ctor \in ToSet(classes[class].ctors) :
    classes[class].extends # <<>> => ctor.body # <<>> /\ ctor.body[1].s \in {"this", "super"}

\* Every class's initializers have run once, the topmost first, and a field
\* that may not be null and was not assigned has another default.
Constructed(classes, modules, class, trace) ==
  LET chain == D!Chain(classes, class)
  IN /\ SelectSeq(trace, LAMBDA e : e \in DOMAIN classes) = Reverse(chain)
     /\ \A c \in ToSet(chain) : \A field \in ToSet(classes[c].fields) :
          \/ field.init \/ field.type.is # "named"
          \/ L!NewFields(modules, class)[field.name]
          \/ field.name \in ToSet(trace)

\* The VM runs the constructor that was named to it.
ConstructorRuns(modules, class, ctor) ==
  LET found == L!InvokeSpecial(modules, class, L!Construct, L!MethodDescriptor(ctor.params, L!Void))
  IN found # <<>> /\ found[1].class = class

\* Where the checker accepts the constructors of a hierarchy, making an object
\* ends, and every way to its end leaves it constructed; and the VM refuses
\* the writes to a field that is read only which the checker refuses.
ConstructionCompletes ==
  [][Asked("constructors") =>
       LET classes == D!BuildClassTable(text)
           modules == L!Compile(classes)
       IN /\ D!Accepted(classes) /\ Chained(classes) =>
               \A class \in DOMAIN classes : \A ctor \in ToSet(classes[class].ctors) :
                 \A run \in Runs(classes, class, L!PrependFieldInits(ctor.body), Len(text)) :
                   /\ run.how # "forever"
                   /\ run.how \in {"next", "return"} => Constructed(classes, modules, class, run.trace)
          /\ \A class \in DOMAIN classes : \A ctor \in ToSet(classes[class].ctors) :
               ConstructorRuns(modules, class, ctor)
          /\ \A here, static \in DOMAIN classes, name \in job.fields, inCtor, onThis \in BOOLEAN :
               \A receiver \in {c \in DOMAIN classes : D!IsSubclassOrSame(classes, c, static)} :
                 D!FindFieldOwner(classes, static, name) # <<>> =>
                   (D!MayAssign(classes, static, name, here, inCtor, onThis)
                      <=> L!SetFieldAllowed(modules, receiver, name, here, inCtor, onThis))]_vars

-----------------------------------------------------------------------------
(* Closures                                                                *)

\* What a method means: a name is a location, a closure has the scopes that it
\* was made in.
Bound(r, x, value) ==
  [r EXCEPT !.store = Append(@, value), !.scopes = C!Bind(@, x, Len(r.store) + 1)]
Location(r, x) == C!Find(r.scopes, x)[1]
Opened(r) == [r EXCEPT !.scopes = Append(@, C!Empty)]

RECURSIVE Evaluate(_, _), EvaluateAll(_, _), Values(_, _), Rounds(_, _, _), BindParams(_, _, _)
EvaluateAll(nodes, r) == IF nodes = <<>> THEN r ELSE EvaluateAll(Tail(nodes), Evaluate(Head(nodes), r))
Values(nodes, r) ==
  IF nodes = <<>> THEN r
  ELSE LET next == Evaluate(Head(nodes), r)
       IN Values(Tail(nodes), [next EXCEPT !.args = Append(r.args, next.top)])
InScope(nodes, r) == [EvaluateAll(nodes, Opened(r)) EXCEPT !.scopes = r.scopes]
Rounds(body, times, r) == IF times = 0 THEN r ELSE Rounds(body, times - 1, InScope(body, r))
BindParams(params, values, r) ==
  IF params = <<>> THEN r
  ELSE BindParams(Tail(params), Tail(values), Bound(r, Head(params).name, Head(values)))

Apply(n, r) ==
  LET given == Values(n.args, [r EXCEPT !.args = <<>>])
      made == given.made[r.store[Location(r, n.name)].n]
      entered == BindParams(made.node.params, given.args,
                            Opened([given EXCEPT !.scopes = made.scopes]))
      left == Evaluate(made.node.result, EvaluateAll(made.node.body, entered))
  IN [left EXCEPT !.scopes = r.scopes, !.args = r.args]

Evaluate(n, r) ==
  CASE n.op = "lit" -> [r EXCEPT !.top = C!Number(n.n)]
    [] n.op = "text" -> [r EXCEPT !.top = C!Number(0)]
    [] n.op = "get" -> [r EXCEPT !.top = r.store[Location(r, n.name)]]
    [] n.op = "set" -> LET v == Evaluate(n.value, r)
                       IN [v EXCEPT !.store[Location(v, n.name)] = v.top]
    [] n.op = "incr" -> LET old == r.store[Location(r, n.name)]
                        IN [r EXCEPT !.store[Location(r, n.name)] = C!Number(old.n + 1), !.top = old]
    [] n.op = "closure" ->
         [r EXCEPT !.made = Append(@, [node |-> n, scopes |-> r.scopes]),
                   !.top = [kind |-> "closure", n |-> Len(r.made) + 1]]
    [] n.op = "call" -> Apply(n, r)
    [] n.op = "decl" -> LET v == Evaluate(n.value, r) IN Bound(v, n.name, v.top)
    [] n.op = "bare" -> Bound(r, n.name, C!Unset)
    [] n.op = "show" -> LET v == Evaluate(n.value, r) IN [v EXCEPT !.out = Append(@, v.top)]
    [] n.op = "block" -> InScope(n.body, r)
    [] n.op = "if" -> LET v == Evaluate(n.cond, r) IN IF v.top.n = 0 THEN v ELSE InScope(n.body, v)
    [] n.op = "loop" -> [Rounds(n.body, n.times, EvaluateAll(n.init, Opened(r))) EXCEPT !.scopes = r.scopes]

Meaning(params, body, n) ==
  LET entered == BindParams(params, [i \in DOMAIN params |-> C!Number(n)],
                            [scopes |-> <<C!Empty>>, store |-> <<>>, made |-> <<>>, out |-> <<>>,
                             top |-> C!Unset, args |-> <<>>])
      r == EvaluateAll(body, entered)
  IN [ok |-> TRUE, out |-> r.out,
      back |-> [i \in {i \in DOMAIN params : params[i].ref} |-> r.store[i]]]

RECURSIVE Within(_)
\* All statements and expressions in nodes.
Within(nodes) == FlattenSeq([i \in DOMAIN nodes |-> <<nodes[i]>> \o Within(C!Inside(nodes[i]))])
Literals(nodes) == {n \in ToSet(Within(nodes)) : n.op = "closure"}
Binders(n) == CASE n.op \in {"decl", "bare"} -> <<n.name>>
                [] n.op = "closure" -> [i \in DOMAIN n.params |-> n.params[i].name]
                [] OTHER -> <<>>
BindersIn(nodes) == LET all == Within(nodes) IN FlattenSeq([i \in DOMAIN all |-> Binders(all[i])])

\* Methods that the known gaps of boxing leave alone: a name is bound once and
\* with a flat type, a literal does not change its own parameters, and calls
\* only closures that are made in it.
PlainMethod(params, body) ==
  LET names == [i \in DOMAIN params |-> params[i].name] \o BindersIn(body)
  IN /\ Cardinality(ToSet(names)) = Len(names)
     /\ \A n \in ToSet(Within(body)) :
          n.op \in {"decl", "bare"} /\ n.name \in C!BoxedCaptures(body) => n.type \in {"int", "string", "auto"}
     /\ \A literal \in Literals(body) :
          LET inside == Within(C!Inside(literal))
          IN /\ C!Own(literal) \cap C!Mutated(C!Inside(literal)) = {}
             /\ \A n \in ToSet(inside) : n.op = "call" => n.name \in ToSet(BindersIn(C!Inside(literal)))

Body == text \o job.tail
Fixed == C!ApplyFixes(Body, C!AutoBoxFixes(job.params, Body))
BoxesRequested(code) == code.e.news \subseteq C!BoxRequests(job.params, Fixed)

\* A closure and the method around it see each other's changes of a variable
\* that both use, in every order, through closures in closures, in loops and
\* for ref parameters; each execution of a declaration makes a variable of its
\* own.  A plain method that is accepted is compiled, and gets every Box.
ClosuresShareVariables ==
  [][Asked("closures") /\ C!CheckMethod(job.params, Body).ok =>
       LET code == C!CompileMethod(job.params, Fixed)
       IN /\ code.e.ok /\ BoxesRequested(code) =>
               C!CallMethod(job.params, code.codes, 7) = Meaning(job.params, Body, 7)
          /\ PlainMethod(job.params, Fixed) => code.e.ok /\ BoxesRequested(code)]_vars

\* capture.rs on a name that is boxed without need: "boxing is always
\* semantically safe - it only ever adds an indirection".
BoxingIsSafe ==
  [][Asked("closures") /\ C!CheckMethod(job.params, Body).ok =>
       LET code == C!CompileMethod(job.params, Fixed)
       IN code.e.ok => BoxesRequested(code)]_vars
=============================================================================
