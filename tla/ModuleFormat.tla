---------------------------- MODULE ModuleFormat ----------------------------
(***************************************************************************)
(* The binary format of nl-bytecode: the constant pool, the module image   *)
(* (.nlm), the program container (.nlp) and the sweep over a code array.   *)
(*                                                                         *)
(* A file is a sequence of bytes.  A byte of a number counts to Base, so   *)
(* that the two bytes of a u16 are as narrow as a run wants them.          *)
(***************************************************************************)
EXTENDS Integers, Sequences

LOCAL INSTANCE SequencesExt

CONSTANT Base

U16Limit == Base * Base

\* n.to_be_bytes(), the number cut to the width.
Number(n, size) == [i \in 1..size |-> (n \div Base^(size - i)) % Base]
Magic == Number(7, 4)
ProgramMagic == Number(6, 4)
Version == 3
OptLevelSince == 3
Versions == 1..Version
Unrecorded == -1
OptLevels == {0, 1}

\* Any function that tells the files of a run apart stands for Sha256.
RECURSIVE Hash(_)
Hash(bytes) ==
  LET half == Len(bytes) \div 2
  IN CASE Len(bytes) = 0 -> 1
       [] Len(bytes) = 1 -> bytes[1] + 2
       [] OTHER -> (131 * Hash(SubSeq(bytes, 1, half))
                    + 17 * Hash(SubSeq(bytes, half + 1, Len(bytes)))) % 15619
Digest(bytes) == Number(Hash(bytes), 6)

-----------------------------------------------------------------------------
(* The constant pool: entries from index 1 on.                             *)

IntTag == 1
FloatTag == 2
Utf8Tag == 3
ClassTag == 4
FieldRefTag == 5
MethodRefTag == 6
TypeDescTag == 7
Entry(tag, value) == [tag |-> tag, value |-> value]

\* Mutant of Intern: every entry is pushed.
InternAlways(pool, entry) ==
  [pool |-> Append(pool, entry), index |-> (Len(pool) + 1) % U16Limit]

\* intern: the index of an equal entry, or of the one that is pushed.
Intern(pool, entry) ==
  LET equal == {i \in DOMAIN pool : pool[i] = entry}
  IN IF equal = {} THEN [pool |-> Append(pool, entry), index |-> (Len(pool) + 1) % U16Limit]
     ELSE [pool |-> pool, index |-> (CHOOSE i \in equal : \A j \in equal : i <= j) % U16Limit]

\* add_class and add_type_desc.
AddNamed(pool, tag, name) ==
  LET utf8 == Intern(pool, Entry(Utf8Tag, name))
  IN Intern(utf8.pool, Entry(tag, <<utf8.index>>))

\* utf8_at; class_name_at and type_desc_at of an entry with that tag.
Utf8At(pool, index) ==
  IF index \in DOMAIN pool /\ pool[index].tag = Utf8Tag THEN <<pool[index].value>> ELSE <<>>
NameAt(pool, tag, index) ==
  IF index \in DOMAIN pool /\ pool[index].tag = tag THEN Utf8At(pool, pool[index].value[1])
  ELSE <<>>

-----------------------------------------------------------------------------
(* Encoding.                                                               *)

NumberSizes(tag) == CASE tag \in {IntTag, FloatTag} -> <<8>>
                      [] tag \in {ClassTag, TypeDescTag} -> <<2>>
                      [] tag \in {FieldRefTag, MethodRefTag} -> <<2, 2, 2>>

Numbers(values, sizes) == FlattenSeq([i \in DOMAIN sizes |-> Number(values[i], sizes[i])])
Counted(items, Write(_)) ==
  Number(Len(items), 2) \o FlattenSeq([i \in DOMAIN items |-> Write(items[i])])

WriteEntry(e) ==
  <<e.tag>> \o IF e.tag = Utf8Tag THEN Number(Len(e.value), 2) \o e.value
               ELSE Numbers(e.value, NumberSizes(e.tag))

U16s(k) == [i \in 1..k |-> 2]
LineSizes == <<2, 4>>
WriteMethod(m) ==
  Numbers(<<m.flags, m.name, m.descriptor>>, U16s(3))
  \o Counted(m.throws, LAMBDA t : Number(t, 2))
  \o Numbers(<<m.maxLocals, m.maxStack, Len(m.code)>>, <<2, 2, 4>>) \o m.code
  \o Counted(m.exceptions, LAMBDA e : Numbers(e, U16s(4)))
  \o Counted(m.lines, LAMBDA l : Numbers(l, LineSizes))

Encode(m) ==
  LET image == Magic \o Number(m.version, 2)
               \o (IF m.version >= OptLevelSince
                     THEN <<IF m.opt = Unrecorded THEN 0 ELSE m.opt>> ELSE <<>>)
               \o Number(Len(m.pool) + 1, 2)
               \o FlattenSeq([i \in DOMAIN m.pool |-> WriteEntry(m.pool[i])])
               \o Numbers(<<m.this, m.flags, m.super>>, U16s(3))
               \o Counted(m.interfaces, LAMBDA i : Number(i, 2))
               \o Counted(m.fields, LAMBDA f : Numbers(f, U16s(3)))
               \o Counted(m.methods, LAMBDA x : WriteMethod(x))
  IN IF m.hashed THEN image \o <<1>> \o Digest(image) ELSE image \o <<0>>

-----------------------------------------------------------------------------
(* Decoding.  A reader that fails stays at Broken: what is read there is   *)
(* zero, and the whole is an error.                                        *)

Broken == -1
Got(value, pos) == [value |-> value, pos |-> pos]

ReadBytes(bytes, pos, len) ==
  IF pos = Broken \/ pos + len > Len(bytes) THEN Got(<<>>, Broken)
  ELSE Got(SubSeq(bytes, pos + 1, pos + len), pos + len)

ReadNumber(bytes, pos, size) ==
  LET r == ReadBytes(bytes, pos, size)
      number[i \in 0..Len(r.value)] == IF i = 0 THEN 0 ELSE number[i - 1] * Base + r.value[i]
  IN Got(number[Len(r.value)], r.pos)

\* Item(pos), n times over.
Repeat(n, pos, Item(_)) ==
  LET upTo[i \in 0..n] ==
        IF i = 0 THEN Got(<<>>, pos)
        ELSE LET done == upTo[i - 1]
                 r == Item(done.pos)
             IN IF done.pos = Broken THEN done ELSE Got(Append(done.value, r.value), r.pos)
  IN upTo[n]

ReadNumbers(bytes, pos, sizes) ==
  LET at(i) == pos + FoldLeft(+, 0, SubSeq(sizes, 1, i - 1))
      end == ReadBytes(bytes, pos, FoldLeft(+, 0, sizes)).pos
  IN Got([i \in DOMAIN sizes |-> IF end = Broken THEN 0
                                 ELSE ReadNumber(bytes, at(i), sizes[i]).value], end)

ReadCounted(bytes, pos, Item(_)) ==
  LET count == ReadNumber(bytes, pos, 2)
  IN Repeat(count.value, count.pos, Item)

ReadEntry(bytes, pos) ==
  LET tag == ReadNumber(bytes, pos, 1)
      length == ReadNumber(bytes, tag.pos, 2)
      body == IF tag.value = Utf8Tag THEN ReadBytes(bytes, length.pos, length.value)
              ELSE ReadNumbers(bytes, tag.pos, NumberSizes(tag.value))
  IN IF tag.pos = Broken \/ tag.value \notin IntTag..TypeDescTag THEN Got(Entry(0, <<>>), Broken)
     ELSE Got(Entry(tag.value, body.value), body.pos)

\* An entry of a file is interned again, a name that is not in front of it refused.
Reintern(pool, e) ==
  LET name == Utf8At(pool, e.value[1])
  IN IF e.tag \notin {ClassTag, TypeDescTag} THEN [ok |-> TRUE, pool |-> Intern(pool, e).pool]
     ELSE IF name = <<>> THEN [ok |-> FALSE, pool |-> pool]
     ELSE [ok |-> TRUE, pool |-> AddNamed(pool, e.tag, name[1]).pool]

RECURSIVE ReadEntries(_, _, _, _)
ReadEntries(bytes, pos, n, pool) ==
  LET e == ReadEntry(bytes, pos)
      r == Reintern(pool, e.value)
  IN IF n <= 0 \/ pos = Broken THEN Got(pool, pos)
     ELSE IF e.pos = Broken \/ ~r.ok THEN Got(<<>>, Broken)
     ELSE ReadEntries(bytes, e.pos, n - 1, r.pool)

ReadPool(bytes, pos) ==
  LET count == ReadNumber(bytes, pos, 2)
  IN ReadEntries(bytes, count.pos, count.value - 1, <<>>)

ReadMethod(bytes, pos) ==
  LET head == ReadNumbers(bytes, pos, U16s(3))
      throws == ReadCounted(bytes, head.pos, LAMBDA p : ReadNumber(bytes, p, 2))
      sizes == ReadNumbers(bytes, throws.pos, <<2, 2, 4>>)
      code == ReadBytes(bytes, sizes.pos, sizes.value[3])
      exceptions == ReadCounted(bytes, code.pos, LAMBDA p : ReadNumbers(bytes, p, U16s(4)))
      lines == ReadCounted(bytes, exceptions.pos, LAMBDA p : ReadNumbers(bytes, p, LineSizes))
  IN Got([flags |-> head.value[1], name |-> head.value[2], descriptor |-> head.value[3],
          throws |-> throws.value, maxLocals |-> sizes.value[1], maxStack |-> sizes.value[2],
          code |-> code.value, exceptions |-> exceptions.value, lines |-> lines.value],
         lines.pos)

\* Flag bits, as positions.
Bit(flags, i) == (flags \div 2^i) % 2 = 1
ClassAbstract == 3
ClassFinal == 4
MethodAbstract == 8
MethodFinal == 9

Validate(m) ==
  /\ (m.opt # Unrecorded) = (m.version >= OptLevelSince)
  /\ ~(Bit(m.flags, ClassAbstract) /\ Bit(m.flags, ClassFinal))
  /\ \A i \in DOMAIN m.methods :
       LET x == m.methods[i]
       IN IF Bit(x.flags, MethodAbstract)
            THEN /\ ~Bit(x.flags, MethodFinal)
                 /\ x.maxLocals = 0 /\ x.maxStack = 0
                 /\ x.code = <<>> /\ x.exceptions = <<>> /\ x.lines = <<>>
            ELSE x.code # <<>>

\* Module::decode: <<>> stands for its errors.
Decode(bytes) ==
  LET version == ReadNumber(bytes, 4, 2)
      recorded == version.value >= OptLevelSince
      opt == ReadNumber(bytes, version.pos, 1)
      pool == ReadPool(bytes, IF recorded THEN opt.pos ELSE version.pos)
      head == ReadNumbers(bytes, pool.pos, U16s(3))
      interfaces == ReadCounted(bytes, head.pos, LAMBDA p : ReadNumber(bytes, p, 2))
      fields == ReadCounted(bytes, interfaces.pos, LAMBDA p : ReadNumbers(bytes, p, U16s(3)))
      methods == ReadCounted(bytes, fields.pos, LAMBDA p : ReadMethod(bytes, p))
      algorithm == ReadNumber(bytes, methods.pos, 1)
      hash == ReadBytes(bytes, algorithm.pos, Len(Digest(<<>>)))
      module == [version |-> version.value, opt |-> IF recorded THEN opt.value ELSE Unrecorded,
                 pool |-> pool.value, this |-> head.value[1], flags |-> head.value[2],
                 super |-> head.value[3], interfaces |-> interfaces.value,
                 fields |-> fields.value, methods |-> methods.value,
                 hashed |-> algorithm.value = 1]
  IN IF /\ ReadBytes(bytes, 0, 4).value = Magic
        /\ version.value \in Versions
        /\ recorded => opt.value \in OptLevels
        /\ algorithm.pos # Broken /\ algorithm.value \in {0, 1}
        /\ module.hashed => hash.value = Digest(SubSeq(bytes, 1, methods.pos))
        /\ Validate(module)
       THEN <<module>> ELSE <<>>

-----------------------------------------------------------------------------
(* The program container.                                                  *)

EncodeProgram(modules) ==
  ProgramMagic \o Number(1, 2) \o Counted(modules, LAMBDA m : Number(Len(Encode(m)), 4) \o Encode(m))

IsProgram(bytes) == Len(bytes) >= 4 /\ SubSeq(bytes, 1, 4) = ProgramMagic

\* decode_program: the version is read and not looked at.
DecodeProgram(bytes) ==
  LET version == ReadNumber(bytes, 4, 2)
      image(pos) == LET length == ReadNumber(bytes, pos, 4)
                        r == ReadBytes(bytes, length.pos, length.value)
                        module == Decode(r.value)
                    IN IF module = <<>> THEN Got(<<>>, Broken) ELSE Got(module[1], r.pos)
      modules == ReadCounted(bytes, version.pos, image)
  IN IF IsProgram(bytes) /\ modules.pos # Broken THEN <<modules.value>> ELSE <<>>

\* load_modules: a container, or a module of its own.
LoadModules(bytes) ==
  IF IsProgram(bytes) THEN DecodeProgram(bytes)
  ELSE LET m == Decode(bytes) IN IF m = <<>> THEN <<>> ELSE <<m>>

-----------------------------------------------------------------------------
(* Code arrays.                                                            *)

\* Opcode::from_u8 and operand_len.
Opcodes == 0..4 \cup 10..36 \cup 40..45 \cup 50..54 \cup 60..73 \cup 80..82 \cup 90..94
           \cup 100..103 \cup 110..115 \cup {120, 130}
BiPush == 17
TwoBytes == {18, 19, 20, 21, 70, 71, 72, 80, 81, 82, 90, 100, 101, 102, 103, 110, 111, 112, 113}
FourBytes == {36, 91, 73}
OperandLen(opcode) == CASE opcode = BiPush -> 1
                        [] opcode \in TwoBytes -> 2
                        [] opcode \in FourBytes -> 4
                        [] OTHER -> 0

\* instructions: the sweep, and whether it got to the end.
RECURSIVE Sweep(_, _, _)
Sweep(code, pc, done) ==
  LET end == pc + 1 + OperandLen(code[pc + 1])
  IN IF pc >= Len(code) THEN [ok |-> TRUE, instructions |-> done]
     ELSE IF code[pc + 1] \notin Opcodes \/ end > Len(code)
       THEN [ok |-> FALSE, instructions |-> done]
     ELSE Sweep(code, end, Append(done, SubSeq(code, pc + 1, end)))

=============================================================================
