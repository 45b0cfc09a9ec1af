-------------------------------- MODULE Json --------------------------------
(***************************************************************************)
(* system.text.json: the parser and the serializer of json.rs.             *)
(*                                                                         *)
(* A text is a sequence of symbols.  A keyword and the four hexadecimal    *)
(* digits of a \u escape are one symbol each.  A value is a record; a      *)
(* number is 0.digits * 10^point, with the sign of an f64 and its range.   *)
(***************************************************************************)
EXTENDS Integers, Sequences

CONSTANT MaxDepth  \* MAX_DEPTH

SP == " "
NL == "\n"
CTRL == "U+001F"
QUOTE == "\""
ESC == "\\"
Keywords == {"true", "false", "null"}
DigitsInOrder == <<"0", "1", "2", "3", "4", "5", "6", "7", "8", "9">>
Digits == {DigitsInOrder[i] : i \in 1..10}
DigitValue == [d \in Digits |-> CHOOSE n \in 0..9 : DigitsInOrder[n + 1] = d]
EndOfInput == "end of input"
Replacement == "U+FFFD"

\* What a \u escape stands for, one by one; the surrogates are no characters.
CodeUnit == [h \in {"0041", "000A", "001F", "D83D", "DE00"} |->
              CASE h = "0041" -> "A" [] h = "000A" -> NL [] h = "001F" -> CTRL
                [] h = "D83D" -> "high" [] h = "DE00" -> "low"]
Combined == "U+1F600"

-----------------------------------------------------------------------------
(* Values.                                                                 *)

NoValue == [kind |-> "none"]
JNull == [kind |-> "null"]
JBool(b) == [kind |-> "bool", value |-> b]
JString(s) == [kind |-> "string", value |-> s]
JArray(items) == [kind |-> "array", keys |-> <<>>, items |-> items]
JObject(keys, items) == [kind |-> "object", keys |-> keys, items |-> items]
Infinite == <<"infinite">>
JNumber(n) == [kind |-> "number", value |-> n]

\* The decimal exponents beyond which an f64 is infinite, or zero.
Largest == 309
Smallest == -323

Zeros(n) == [i \in 1..n |-> "0"]
Significant(s) == {i \in DOMAIN s : s[i] # "0"}
First(S) == CHOOSE i \in S : \A j \in S : i <= j
Last(S) == CHOOSE i \in S : \A j \in S : i >= j

\* `text.parse::<f64>()` of whole.fraction e exponent.
F64(negative, whole, fraction, exponent) ==
  LET all == whole \o fraction
      some == Significant(all)
      point == Len(whole) - First(some) + 1 + exponent
  IN IF some = {} THEN [negative |-> FALSE, digits |-> <<>>, point |-> 0]
     ELSE IF point > Largest THEN [negative |-> negative, digits |-> Infinite, point |-> 0]
     ELSE IF point < Smallest THEN [negative |-> FALSE, digits |-> <<>>, point |-> 0]
     ELSE [negative |-> negative, digits |-> SubSeq(all, First(some), Last(some)),
           point |-> point]

IsInfinite(v) == v.kind = "number" /\ v.value.digits = Infinite

-----------------------------------------------------------------------------
(* Serialization.                                                          *)

\* format_number: an infinite number becomes null, a whole one has no fraction.
FormatNumber(n) ==
  LET sign == IF n.negative THEN <<"-">> ELSE <<>>
      len == Len(n.digits)
  IN CASE n.digits = Infinite -> <<"null">>
       [] n.digits = <<>> -> <<"0">>
       [] n.digits \notin {Infinite, <<>>} /\ n.point <= 0 ->
            sign \o <<"0", ".">> \o Zeros(-n.point) \o n.digits
       [] n.digits \notin {Infinite, <<>>} /\ n.point >= len ->
            sign \o n.digits \o Zeros(n.point - len)
       [] OTHER -> sign \o SubSeq(n.digits, 1, n.point) \o <<".">>
                        \o SubSeq(n.digits, n.point + 1, len)

\* Mutant of Escaped: a control character without a short form goes out as it is.
EscapedShort(c) == CASE c \in {QUOTE, ESC} -> <<ESC, c>>
                     [] c = NL -> <<ESC, "n">>
                     [] OTHER -> <<c>>

\* write_escaped, of one character.
Escaped(c) == CASE c \in {QUOTE, ESC} -> <<ESC, c>>
                [] c = NL -> <<ESC, "n">>
                [] c = CTRL -> <<ESC, "u", "001F">>
                [] OTHER -> <<c>>

WriteString(s) ==
  LET upTo[i \in 0..Len(s)] == IF i = 0 THEN <<QUOTE>> ELSE upTo[i - 1] \o Escaped(s[i])
  IN Append(upTo[Len(s)], QUOTE)

\* write_newline_indent; an indent of 0 is the compact form.
NewLine(indent, depth) ==
  IF indent = 0 THEN <<>> ELSE <<NL>> \o [i \in 1..(indent * depth) |-> SP]

\* write_value.  <<>> stands for the exception of a value nested too deep,
\* which the whole of it then is.
RECURSIVE Stringify(_, _, _)
Stringify(v, indent, depth) ==
  LET member(i) == IF v.kind = "array" THEN <<>>
                   ELSE WriteString(v.keys[i]) \o <<":">>
                        \o (IF indent = 0 THEN <<>> ELSE <<SP>>)
      written == [i \in 1..(IF v.kind \in {"array", "object"} THEN Len(v.items) ELSE 0) |->
                    Stringify(v.items[i], indent, depth + 1)]
      upTo[i \in 0..Len(written)] ==
        IF i = 0 THEN <<>>
        ELSE upTo[i - 1] \o (IF i = 1 THEN <<>> ELSE <<",">>)
             \o NewLine(indent, depth + 1) \o member(i) \o written[i]
      brackets == IF v.kind = "array" THEN <<"[", "]">> ELSE <<"{", "}">>
  IN CASE depth > MaxDepth -> <<>>
       [] depth <= MaxDepth /\ v.kind = "null" -> <<"null">>
       [] depth <= MaxDepth /\ v.kind = "bool" -> <<IF v.value THEN "true" ELSE "false">>
       [] depth <= MaxDepth /\ v.kind = "number" -> FormatNumber(v.value)
       [] depth <= MaxDepth /\ v.kind = "string" -> WriteString(v.value)
       [] OTHER ->
            IF written = <<>> THEN brackets
            ELSE IF \E i \in DOMAIN written : written[i] = <<>> THEN <<>>
            ELSE <<brackets[1]>> \o upTo[Len(written)] \o NewLine(indent, depth)
                 \o <<brackets[2]>>

-----------------------------------------------------------------------------
(* Parsing: at is the Parser's cursor [pos, line, column].                 *)

Start == [pos |-> 1, line |-> 1, column |-> 1]
Peek(text, at) == IF at.pos <= Len(text) THEN text[at.pos] ELSE EndOfInput

\* Mutant of Bump: a line feed does not start the columns again.
BumpColumnOnly(text, at) == [at EXCEPT !.pos = @ + 1, !.column = @ + 1]

Bump(text, at) ==
  IF Peek(text, at) = EndOfInput THEN at
  ELSE IF Peek(text, at) = NL
    THEN [pos |-> at.pos + 1, line |-> at.line + 1, column |-> 1]
    ELSE [at EXCEPT !.pos = @ + 1, !.column = @ + 1]

Parsed(value, at) == [ok |-> TRUE, value |-> value, at |-> at]
Refused(expected, text, at) ==
  [ok |-> FALSE, expected |-> expected, found |-> Peek(text, at), at |-> at]
Error(text, at) == Refused("a token", text, at)
AnEscape == "an escape sequence"
LessNesting == "at most MAX_DEPTH levels of nesting"

\* skip_ws, and the scan of digits: the first cursor past the symbols of S.
RECURSIVE Skip(_, _, _)
Skip(text, at, S) == IF Peek(text, at) \in S THEN Skip(text, Bump(text, at), S) ELSE at

SkipWs(text, at) == Skip(text, at, {SP, NL})

\* parse_escape, behind the backslash: parse_unicode_escape with a surrogate
\* pair, an unpaired one replaced; the cursor of any other character goes
\* back by a position, but not by a column.
ParseEscape(text, at) ==
  LET c == Peek(text, at)
      next == Bump(text, at)
      unit == Peek(text, next)
      behind == Bump(text, next)
      pair == Bump(text, Bump(text, behind))
  IN CASE c \in {QUOTE, ESC} -> Parsed(<<c>>, next)
       [] c = "n" -> Parsed(<<NL>>, next)
       [] c = "u" ->
            IF unit \notin DOMAIN CodeUnit THEN Error(text, next)
            ELSE IF CodeUnit[unit] = "low" THEN Parsed(<<Replacement>>, behind)
            ELSE IF CodeUnit[unit] # "high" THEN Parsed(<<CodeUnit[unit]>>, behind)
            ELSE IF Peek(text, behind) # ESC \/ Peek(text, Bump(text, behind)) # "u"
              THEN Parsed(<<Replacement>>, behind)
            ELSE IF Peek(text, pair) \notin DOMAIN CodeUnit THEN Error(text, pair)
            ELSE IF CodeUnit[Peek(text, pair)] = "low"
              THEN Parsed(<<Combined>>, Bump(text, pair))
            ELSE Parsed(<<Replacement>>, behind)
       [] OTHER -> Refused(AnEscape, text, [next EXCEPT !.pos = @ - 1])

\* The loop of parse_string, from the character behind `"`.
RECURSIVE ParseCharacters(_, _, _)
ParseCharacters(text, at, out) ==
  LET c == Peek(text, at)
      next == Bump(text, at)
      escape == ParseEscape(text, next)
  IN CASE c = EndOfInput -> Error(text, at)
       [] c = QUOTE -> Parsed(out, next)
       [] c \in {NL, CTRL} -> Refused(AnEscape, text, next)
       [] c = ESC /\ ~escape.ok -> escape
       [] OTHER -> IF c = ESC THEN ParseCharacters(text, escape.at, out \o escape.value)
                   ELSE ParseCharacters(text, next, Append(out, c))

ParseString(text, at) == IF Peek(text, at) = QUOTE
                           THEN ParseCharacters(text, Bump(text, at), <<>>)
                           ELSE Error(text, at)

\* Mutant of NumberStart: a number may start with several zeros.
NumberStartAny(text, at) == Skip(text, at, Digits)

\* The integer part: one 0, or digits.
NumberStart(text, at) ==
  IF Peek(text, at) = "0" THEN Bump(text, at) ELSE Skip(text, at, Digits)

Natural(digits) ==
  LET upTo[i \in 0..Len(digits)] ==
        IF i = 0 THEN 0
        ELSE LET n == 10 * upTo[i - 1] + DigitValue[digits[i]]
             IN IF n > 10000 THEN 10000 ELSE n
  IN upTo[Len(digits)]

\* parse_number: -? int frac? exp?
ParseNumber(text, at) ==
  LET negative == Peek(text, at) = "-"
      a == IF negative THEN Bump(text, at) ELSE at
      b == NumberStart(text, a)
      dot == Peek(text, b) = "."
      c == IF dot THEN Bump(text, b) ELSE b
      d == IF dot THEN Skip(text, c, Digits) ELSE b
      exp == Peek(text, d) \in {"e", "E"}
      e == IF exp THEN Bump(text, d) ELSE d
      f == IF exp /\ Peek(text, e) \in {"+", "-"} THEN Bump(text, e) ELSE e
      g == IF exp THEN Skip(text, f, Digits) ELSE f
      of(x, y) == SubSeq(text, x.pos, y.pos - 1)
      exponent == (IF exp /\ Peek(text, e) = "-" THEN -1 ELSE 1) * Natural(of(f, g))
  IN IF Peek(text, a) \notin Digits THEN Error(text, a)
     ELSE IF dot /\ Peek(text, c) \notin Digits THEN Error(text, c)
     ELSE IF exp /\ Peek(text, f) \notin Digits THEN Error(text, f)
     ELSE Parsed(JNumber(F64(negative, of(a, b), of(c, d), exponent)), g)

\* The last of two equal names wins, in the place of the first.
PutMember(v, key, item) ==
  IF \E i \in DOMAIN v.keys : v.keys[i] = key
    THEN [v EXCEPT !.items[CHOOSE i \in DOMAIN v.keys : v.keys[i] = key] = item]
    ELSE [v EXCEPT !.keys = Append(@, key), !.items = Append(@, item)]

Put(v, key, item) == IF v.kind = "array" THEN [v EXCEPT !.items = Append(@, item)]
                     ELSE PutMember(v, key, item)

\* The name and the colon in front of an object's member.
ParseName(text, at) ==
  LET name == ParseString(text, SkipWs(text, at))
      colon == SkipWs(text, name.at)
  IN IF ~name.ok THEN name
     ELSE IF Peek(text, colon) # ":" THEN Error(text, colon)
     ELSE Parsed(name.value, Bump(text, colon))

\* parse_value, and with a container v that is open, the loop of parse_array
\* and parse_object from its next item on.
RECURSIVE ParseFrom(_, _, _, _)
ParseFrom(text, at, depth, v) ==
  LET start == SkipWs(text, at)
      c == Peek(text, start)
      inside == SkipWs(text, Bump(text, start))
      open == IF c = "[" THEN JArray(<<>>) ELSE JObject(<<>>, <<>>)
      close(x) == IF x.kind = "array" THEN "]" ELSE "}"
      name == IF v.kind = "array" THEN Parsed(<<>>, at) ELSE ParseName(text, at)
      item == IF name.ok THEN ParseFrom(text, name.at, depth + 1, NoValue) ELSE name
      after == SkipWs(text, item.at)
      extended == Put(v, name.value, item.value)
  IN IF v = NoValue THEN
       CASE depth > MaxDepth -> Refused(LessNesting, text, at)
         [] depth <= MaxDepth /\ c \in {"[", "{"} ->
              IF Peek(text, inside) = close(open) THEN Parsed(open, Bump(text, inside))
              ELSE ParseFrom(text, inside, depth, open)
         [] depth <= MaxDepth /\ c = QUOTE ->
              LET s == ParseString(text, start)
              IN IF s.ok THEN Parsed(JString(s.value), s.at) ELSE s
         [] depth <= MaxDepth /\ c \in Keywords ->
              Parsed(IF c = "null" THEN JNull ELSE JBool(c = "true"), Bump(text, start))
         [] depth <= MaxDepth /\ c \in Digits \cup {"-"} -> ParseNumber(text, start)
         [] OTHER -> Error(text, start)
     ELSE IF ~item.ok THEN item
     ELSE IF Peek(text, after) = "," THEN ParseFrom(text, Bump(text, after), depth, extended)
     ELSE IF Peek(text, after) = close(v) THEN Parsed(extended, Bump(text, after))
     ELSE Error(text, after)

\* parse: nothing may follow the value.
Parse(text) ==
  LET r == ParseFrom(text, Start, 0, NoValue)
      end == SkipWs(text, r.at)
  IN IF r.ok /\ Peek(text, end) # EndOfInput THEN Error(text, end) ELSE r

=============================================================================
