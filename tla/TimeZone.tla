------------------------------ MODULE TimeZone ------------------------------
(***************************************************************************)
(* Calendar arithmetic and the time zones of system.time: mini_tz.rs.      *)
(*                                                                         *)
(* A TZif file is a sequence of fields [size, value], found by the offset  *)
(* at which each one starts.  A date and time that is parsed or formatted  *)
(* is a sequence of numbers and separators.  Epochs are in seconds.        *)
(***************************************************************************)
EXTENDS Integers, Sequences

-----------------------------------------------------------------------------
(* Civil dates.                                                            *)

\* Rust's division truncates towards zero, div_euclid is \div.
Quotient(a, b) == IF a >= 0 THEN a \div b ELSE -((-a) \div b)

\* Mutant of EraOf: a year or a day before the first era falls into it.
EraTruncated(n, length) == Quotient(n, length)

\* `if n >= 0 { n } else { n - (length - 1) } / length`
EraOf(n, length) == Quotient(IF n >= 0 THEN n ELSE n - (length - 1), length)

DaysFromCivil(year, m, d) ==
  LET y == IF m <= 2 THEN year - 1 ELSE year
      era == EraOf(y, 400)
      yoe == y - era * 400
      mp == (m + 9) % 12
      doy == Quotient(153 * mp + 2, 5) + d - 1
      doe == yoe * 365 + Quotient(yoe, 4) - Quotient(yoe, 100) + doy
  IN era * 146097 + doe - 719468

CivilFromDays(days) ==
  LET z == days + 719468
      era == EraOf(z, 146097)
      doe == z - era * 146097
      yoe == Quotient(doe - Quotient(doe, 1460) + Quotient(doe, 36524)
                      - Quotient(doe, 146096), 365)
      doy == doe - (365 * yoe + Quotient(yoe, 4) - Quotient(yoe, 100))
      mp == Quotient(5 * doy + 2, 153)
      m == IF mp < 10 THEN mp + 3 ELSE mp - 9
      y == yoe + era * 400
  IN <<IF m <= 2 THEN y + 1 ELSE y, m, doy - Quotient(153 * mp + 2, 5) + 1>>

EpochToLocal(epoch, offset) ==
  LET local == epoch + offset
      second == local % 86400
  IN CivilFromDays(local \div 86400)
     \o <<second \div 3600, (second \div 60) % 60, second % 60>>

LocalToEpoch(t, offset) ==
  DaysFromCivil(t[1], t[2], t[3]) * 86400 + t[4] * 3600 + t[5] * 60 + t[6] - offset

-----------------------------------------------------------------------------
(* Text.                                                                   *)

UTC == "UTC"
FixedZone(sign, hh, mm) == <<sign, hh, ":", mm>>

\* parse_fixed_offset: <<>> if it is none.
ParseFixedOffset(zone) ==
  IF Len(zone) = 4 /\ zone[1] \in {"+", "-"} /\ zone[3] = ":" /\ zone[2] <= 23 /\ zone[4] <= 59
    THEN <<(IF zone[1] = "+" THEN 1 ELSE -1) * (zone[2] * 3600 + zone[4] * 60)>>
    ELSE <<>>

\* Mutant of FormatFixedOffset: the hours of a negative offset are rounded down.
FormatOffsetFloor(offset) ==
  FixedZone(IF offset < 0 THEN "-" ELSE "+",
            IF offset < 0 THEN -(offset \div 3600) ELSE offset \div 3600,
            (offset % 3600) \div 60)

FormatFixedOffset(offset) ==
  LET abs == IF offset < 0 THEN -offset ELSE offset
  IN FixedZone(IF offset < 0 THEN "-" ELSE "+", abs \div 3600, (abs % 3600) \div 60)

\* parse_iso8601 of yyyy-MM-ddTHH:mm:ss and a zone; every month has 31 days.
ParseIso8601(text) ==
  LET t == <<text[1], text[3], text[5], text[7], text[9], text[11]>>
      rest == SubSeq(text, 12, Len(text))
      offset == IF rest = <<"Z">> THEN <<0>> ELSE ParseFixedOffset(rest)
  IN IF /\ <<text[2], text[4], text[6], text[8], text[10]>> = <<"-", "-", "T", ":", ":">>
        /\ t[2] \in 1..12 /\ t[3] \in 1..31 /\ t[4] <= 23 /\ t[5] <= 59 /\ t[6] <= 59
        /\ offset # <<>>
       THEN <<[epoch |-> LocalToEpoch(t, offset[1]),
               zone |-> IF rest = <<"Z">> THEN <<UTC>> ELSE FormatFixedOffset(offset[1])]>>
       ELSE <<>>

\* format_datetime: a run of a pattern letter is that field, everything else
\* is copied; `yy` keeps two digits of the year.
Letters == <<"y", "M", "d", "H", "m", "s">>
FormatDateTime(epoch, offset, pattern) ==
  LET t == EpochToLocal(epoch, offset)
      field(letter) == t[CHOOSE i \in 1..6 : Letters[i] = letter]
  IN [i \in DOMAIN pattern |->
        IF pattern[i].letter \notin {Letters[j] : j \in 1..6} THEN pattern[i].letter
        ELSE IF pattern[i].letter = "y" /\ pattern[i].run = 2 THEN t[1] % 100
        ELSE field(pattern[i].letter)]

-----------------------------------------------------------------------------
(* TZif files.                                                             *)

Magic == "TZif"
Field(size, value) == [size |-> size, value |-> value]

\* The field that starts at a byte offset; reading anywhere else is an error.
RECURSIVE FieldAt(_, _)
FieldAt(data, pos) ==
  IF data = <<>> \/ pos < 0 THEN Field(0, "garbage")
  ELSE IF pos = 0 THEN Head(data)
  ELSE FieldAt(Tail(data), pos - Head(data).size)

HeaderSize == 44
Counts == <<"isutcnt", "isstdcnt", "leapcnt", "timecnt", "typecnt", "charcnt">>

ParseHeader(data, pos) ==
  [valid |-> FieldAt(data, pos).value = Magic,
   version |-> FieldAt(data, pos + 4).value,
   count |-> [c \in {Counts[i] : i \in 1..6} |->
                LET i == CHOOSE i \in 1..6 : Counts[i] = c
                IN FieldAt(data, pos + 16 + 4 * i).value]]

DataBlockLen(n, timeSize) ==
  n["timecnt"] * (timeSize + 1) + n["typecnt"] * 6 + n["charcnt"]
  + n["leapcnt"] * (timeSize + 4) + n["isstdcnt"] + n["isutcnt"]

\* Mutant of TypeAt: a transition takes effect one second late.
TypeAtLate(times, epoch) == {i \in DOMAIN times : times[i] < epoch}

\* The transitions that have happened; binary_search finds the last of them.
TypeAt(times, epoch) == {i \in DOMAIN times : times[i] <= epoch}

\* find_offset: <<>> stands for its errors.
FindOffset(data, header, n, timeSize, epoch) ==
  LET times == header + HeaderSize
      types == times + n["timecnt"] * timeSize
      infos == types + n["timecnt"]
      time == [i \in 1..n["timecnt"] |-> FieldAt(data, times + (i - 1) * timeSize).value]
      type == [i \in 1..n["timecnt"] |-> FieldAt(data, types + i - 1).value]
      info == [i \in 1..n["typecnt"] |-> FieldAt(data, infos + (i - 1) * 6).value]
      past == TypeAt(time, epoch)
      standard == {i \in DOMAIN info : ~info[i].isdst}
      index == IF past # {} THEN type[CHOOSE i \in past : \A j \in past : j <= i] + 1
               ELSE IF standard = {} THEN 1
               ELSE CHOOSE i \in standard : \A j \in standard : i <= j
  IN IF index \in DOMAIN info THEN <<info[index].offset>> ELSE <<>>

\* tzif_offset: the 64-bit block behind the first, unless the file has none.
TzifOffset(data, epoch) ==
  LET first == ParseHeader(data, 0)
      second == HeaderSize + DataBlockLen(first.count, 4)
  IN IF ~first.valid THEN <<>>
     ELSE IF first.version = 0 THEN FindOffset(data, 0, first.count, 4, epoch)
     ELSE IF ~ParseHeader(data, second).valid THEN <<>>
     ELSE FindOffset(data, second, ParseHeader(data, second).count, 8, epoch)

\* zone_offset_seconds: a name with an empty or `..` segment is never looked up
\* in files, the zoneinfo directory.
ZoneOffsetSeconds(zone, files, epoch) ==
  CASE zone = <<UTC>> -> <<0>>
    [] zone # <<UTC>> /\ zone \notin DOMAIN files -> ParseFixedOffset(zone)
    [] OTHER -> IF \E i \in DOMAIN zone : zone[i] \in {"", ".."} THEN <<>>
                ELSE TzifOffset(files[zone], epoch)

=============================================================================
