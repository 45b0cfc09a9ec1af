------------------------------- MODULE Regex --------------------------------
(***************************************************************************)
(* The backtracking regular expressions of mini_regex.rs, with which       *)
(* File.glob, Grep and system.text.Regex search.                           *)
(*                                                                         *)
(* Patterns and subjects are sequences of characters; a position is the    *)
(* number of characters in front of it.  A matcher with a success          *)
(* continuation tries its alternatives in order: here it returns all its   *)
(* successes, in that order, each with the end and the captured groups.    *)
(***************************************************************************)
EXTENDS Integers, Sequences

LOCAL INSTANCE SequencesExt

\* Characters in the order of their code points.
CharOrder == <<"$", "(", ")", "*", "+", "-", ".", "/", "0", "?", "A", "[", "\\", "]", "^",
               "a", "b", "c", "d", "{", "|", "}">>
Code == [c \in ToSet(CharOrder) |-> CHOOSE i \in DOMAIN CharOrder : CharOrder[i] = c]
End == "end of pattern"
Quantifiers == {"*", "+", "?"}

Char(c) == [op |-> "char", char |-> c]
Class(ranges, negated) == [op |-> "class", ranges |-> ranges, negated |-> negated]
Concat(items) == [op |-> "concat", items |-> items]

-----------------------------------------------------------------------------
(* Regex::compile                                                          *)

At(chars, pos) == IF pos \in 0..(Len(chars) - 1) THEN chars[pos + 1] ELSE End

Compiled(node, pos, groups) == [ok |-> TRUE, node |-> node, pos |-> pos, groups |-> groups]
Invalid(pos) == [ok |-> FALSE, node |-> Concat(<<>>), pos |-> pos, groups |-> 0]

\* escape_node: \d and \D, and every other character as it is.
EscapeNode(c) == CASE c = "d" -> Class(<<<<"0", "0">>>>, FALSE)
                   [] OTHER -> Char(c)

\* bump_class_char: one character of a class and the position behind it, -1
\* if the pattern ends first.
ClassChar(chars, pos) ==
  LET escaped == At(chars, pos) = "\\"
      at == IF escaped THEN pos + 1 ELSE pos
  IN [char |-> At(chars, at), pos |-> IF At(chars, at) = End THEN -1 ELSE at + 1]

\* A `]` that comes first is an ordinary character.
ClassEnds(c, ranges) == c = "]" /\ ranges # <<>>

\* The loop of parse_class, behind `[` and `^`.
RECURSIVE ParseClass(_, _, _, _, _)
ParseClass(chars, pos, groups, ranges, negated) ==
  LET lo == ClassChar(chars, pos)
      isRange == At(chars, lo.pos) = "-" /\ At(chars, lo.pos + 1) \notin {"]", End}
      hi == IF isRange THEN ClassChar(chars, lo.pos + 1) ELSE lo
  IN IF At(chars, pos) = End THEN Invalid(pos)
     ELSE IF ClassEnds(At(chars, pos), ranges)
       THEN Compiled(Class(ranges, negated), pos + 1, groups)
     ELSE IF lo.pos = -1 \/ hi.pos = -1 THEN Invalid(Len(chars))
     ELSE ParseClass(chars, hi.pos, groups, Append(ranges, <<lo.char, hi.char>>), negated)

\* What parse_alt makes of its branches, each a parse_concat.
Alternatives(branches) == IF Len(branches) = 1 THEN branches[1]
                          ELSE [op |-> "alt", branches |-> branches]

\* parse_alt, parse_concat, parse_postfix and parse_atom: the next item of
\* the last branch, until a `)` or the end.
RECURSIVE ParseFrom(_, _, _, _, _)
ParseFrom(chars, pos, groups, done, items) ==
  LET c == At(chars, pos)
      group == ParseFrom(chars, pos + 1, groups + 1, <<>>, <<>>)
      negated == At(chars, pos + 1) = "^"
      atom == CASE c = "." -> Compiled([op |-> "any"], pos + 1, groups)
                [] c = "^" -> Compiled([op |-> "start"], pos + 1, groups)
                [] c = "$" -> Compiled([op |-> "end"], pos + 1, groups)
                [] c = "(" -> IF group.ok /\ At(chars, group.pos) = ")"
                                THEN Compiled([op |-> "group", index |-> groups + 1,
                                               inner |-> group.node],
                                              group.pos + 1, group.groups)
                                ELSE Invalid(group.pos)
                [] c = "[" -> ParseClass(chars, IF negated THEN pos + 2 ELSE pos + 1,
                                         groups, <<>>, negated)
                [] c = "\\" -> IF At(chars, pos + 1) = End THEN Invalid(pos + 1)
                               ELSE Compiled(EscapeNode(At(chars, pos + 1)), pos + 2, groups)
                [] OTHER -> Compiled(Char(c), pos + 1, groups)
      postfix == At(chars, atom.pos)
      item == IF postfix \in Quantifiers THEN [op |-> postfix, inner |-> atom.node]
              ELSE atom.node
      after == IF postfix \in Quantifiers THEN atom.pos + 1 ELSE atom.pos
      branches == Append(done, Concat(items))
  IN IF c \in {")", End} THEN Compiled(Alternatives(branches), pos, groups)
     ELSE IF c = "|" THEN ParseFrom(chars, pos + 1, groups, branches, <<>>)
     ELSE IF ~atom.ok THEN atom
     ELSE ParseFrom(chars, after, atom.groups, done, Append(items, item))

Compile(chars) ==
  LET r == ParseFrom(chars, 0, 0, <<>>, <<>>)
  IN IF r.ok /\ r.pos < Len(chars) THEN Invalid(r.pos) ELSE r

-----------------------------------------------------------------------------
(* match_node                                                              *)

NoSpan == <<>>
Inside(c, ranges) == \E i \in DOMAIN ranges : /\ Code[c] >= Code[ranges[i][1]]
                                              /\ Code[c] <= Code[ranges[i][2]]

\* Mutant of Advances: an empty repetition is not cut off, and cuts off the
\* others with it.
AdvancesPastOne(pos, end) == end > pos + 1

\* match_star goes on only behind a repetition that consumed something.
Advances(pos, end) == end > pos

Hit(end, caps) == <<[end |-> end, caps |-> caps]>>

\* The successes of node on s from pos on.  Of a concatenation, work on
\* items; a star is tried once more before it gives up.
RECURSIVE Match(_, _, _, _)
Match(node, s, pos, caps) ==
  LET inner(p, c) == Match(node.inner, s, p, c)
      next == At(s, pos)
      hits == IF node.op \in {"*", "+", "?", "group"} THEN inner(pos, caps) ELSE <<>>
      again(h) == Match([op |-> "*", inner |-> node.inner], s, h.end, h.caps)
      tail(h) == Match(Concat(Tail(node.items)), s, h.end, h.caps)
      head == Match(Head(node.items), s, pos, caps)
  IN CASE node.op = "char" -> IF next = node.char THEN Hit(pos + 1, caps) ELSE <<>>
       [] node.op = "any" -> IF next # End THEN Hit(pos + 1, caps) ELSE <<>>
       [] node.op = "start" -> IF pos = 0 THEN Hit(pos, caps) ELSE <<>>
       [] node.op = "end" -> IF pos = Len(s) THEN Hit(pos, caps) ELSE <<>>
       [] node.op = "class" -> IF next # End /\ Inside(next, node.ranges) # node.negated
                                 THEN Hit(pos + 1, caps) ELSE <<>>
       [] node.op = "concat" ->
            IF node.items = <<>> THEN Hit(pos, caps)
            ELSE FlattenSeq([i \in DOMAIN head |-> tail(head[i])])
       [] node.op = "alt" ->
            FlattenSeq([i \in DOMAIN node.branches |-> Match(node.branches[i], s, pos, caps)])
       [] node.op = "*" ->
            FlattenSeq([i \in DOMAIN hits |->
                          IF Advances(pos, hits[i].end) THEN again(hits[i]) ELSE <<>>])
            \o Hit(pos, caps)
       [] node.op = "+" -> FlattenSeq([i \in DOMAIN hits |-> again(hits[i])])
       [] node.op = "?" -> hits \o Hit(pos, caps)
       [] node.op = "group" ->
            [i \in DOMAIN hits |->
               [hits[i] EXCEPT !.caps[node.index] = <<pos, hits[i].end>>]]

Hits(regex, s, start) == Match(regex.node, s, start, [i \in 1..regex.groups |-> NoSpan])

\* is_match: the whole of s.
IsMatch(regex, s) == LET hits == Hits(regex, s, 0)
                     IN \E i \in DOMAIN hits : hits[i].end = Len(s)

\* find_from: the first start position with a success, and its first success.
FindFrom(regex, s, from) ==
  LET hits == [start \in from..Len(s) |-> Hits(regex, s, start)]
      starts == {start \in from..Len(s) : hits[start] # <<>>}
      first == CHOOSE start \in starts : \A other \in starts : start <= other
  IN IF starts = {} THEN <<>>
     ELSE <<[start |-> first, end |-> hits[first][1].end, groups |-> hits[first][1].caps]>>

\* Mutant of NextSearch: the search goes on one character behind every match.
NextSearchPast(m) == m.end + 1

\* An empty match moves the search on by a character.
NextSearch(m) == IF m.end > m.start THEN m.end ELSE m.end + 1

RECURSIVE FindAllFrom(_, _, _, _)
FindAllFrom(regex, s, pos, found) ==
  LET m == FindFrom(regex, s, pos)
  IN IF pos > Len(s) \/ m = <<>> THEN found
     ELSE FindAllFrom(regex, s, NextSearch(m[1]), found \o m)
FindAll(regex, s) == FindAllFrom(regex, s, 0, <<>>)

\* Regex.split, and Regex.replace, which joins the parts with the replacement.
Parts(s, matches) ==
  [i \in 1..(Len(matches) + 1) |->
     SubSeq(s, (IF i = 1 THEN 0 ELSE matches[i - 1].end) + 1,
            IF i > Len(matches) THEN Len(s) ELSE matches[i].start)]

-----------------------------------------------------------------------------
(* Patterns made from other text.                                          *)

\* Mutant of Meta: a backslash is not escaped.
MetaButBackslash == {".", "^", "$", "|", "?", "*", "+", "(", ")", "[", "]", "{", "}"}

Meta == {".", "^", "$", "|", "?", "*", "+", "(", ")", "[", "]", "{", "}", "\\"}
EscapePattern(s) ==
  FlattenSeq([i \in DOMAIN s |-> IF s[i] \in Meta THEN <<"\\", s[i]>> ELSE <<s[i]>>])

\* compile_glob's translation, a character class passed through.
RECURSIVE GlobFrom(_, _, _)
GlobFrom(chars, pos, out) ==
  LET c == At(chars, pos)
      closing == {i \in (pos + 1)..(Len(chars) - 1) : At(chars, i) = "]"}
      close == IF closing = {} THEN Len(chars)
               ELSE 1 + CHOOSE i \in closing : \A j \in closing : i <= j
      translated ==
        CASE c = "*" /\ At(chars, pos + 1) = "*" -> [re |-> <<".", "*">>, pos |-> pos + 2]
          [] c = "*" /\ At(chars, pos + 1) # "*" ->
               [re |-> <<"[", "^", "/", "]", "*">>, pos |-> pos + 1]
          [] c = "?" -> [re |-> <<"[", "^", "/", "]">>, pos |-> pos + 1]
          [] c = "[" -> [re |-> SubSeq(chars, pos + 1, close), pos |-> close]
          [] OTHER -> [re |-> IF c \in Meta \ {"]"} THEN <<"\\", c>> ELSE <<c>>,
                       pos |-> pos + 1]
  IN IF c = End THEN out ELSE GlobFrom(chars, translated.pos, out \o translated.re)

\* compile_glob_or_regex: syntax that no glob has makes it a regex.
RegexOnly == {"\\", "^", "$", "|", "+", "(", ")", "{", "}"}
CompileGlobOrRegex(chars) ==
  IF ToSet(chars) \cap RegexOnly # {} THEN Compile(chars)
  ELSE Compile(GlobFrom(chars, 0, <<>>))

=============================================================================
