------------------------------ MODULE NmeaFields ------------------------------
(***************************************************************************)
(* How the fields of a sentence whose checksum is right are found and read *)
(* for the status page (nmea_timing.c) and for the label of a second       *)
(* (timebase.c), checked against what the written numbers mean.            *)
(*                                                                         *)
(* A character is its ASCII code.  A parser returns the set of its result: *)
(* the empty set if it refuses the text.  The widths and the decimal       *)
(* places are constants, to be smaller in a run than in the code.  Whole   *)
(* numbers are exact here: a field of 19 digits, the longest that          *)
(* altitude_text holds, would not fit the code's int64_t.                  *)
(***************************************************************************)
EXTENDS Integers, Sequences, FiniteSets, FiniteSetsExt, SequencesExt

CONSTANTS
  Samples,      \* bound: the texts tried, sets of characters with a length
  FixedScale,   \* 1000, parse_fixed_milli
  IntMax,       \* INT32_MAX
  MinuteScale,  \* 1000000, parse_coordinate_e7
  DegreeScale,  \* 10000000
  BufferRoom    \* copy_field: buffer_size - 1

Power10[k \in Nat] == IF k = 0 THEN 1 ELSE 10 * Power10[k - 1]

ASSUME FieldAssumption ==
  /\ {FixedScale, IntMax, MinuteScale, DegreeScale, BufferRoom} \subseteq Nat \ {0}
  /\ Samples \subseteq [characters : SUBSET (32 .. 126), length : Nat]

\* A scale is a power of ten, and the least result is no multiple of FixedScale.
ASSUME ScaleAssumption ==
  /\ \E k \in 0 .. FixedScale : FixedScale = Power10[k]
  /\ \E k \in 0 .. MinuteScale : MinuteScale = Power10[k]
  /\ (IntMax + 1) % FixedScale # 0

VARIABLES
  sample,  \* where the characters of the text are taken from
  text     \* the text tried

fieldVars == <<sample, text>>

FieldInit == sample \in Samples /\ text = <<>>

NextCharacter ==
  /\ Len(text) < sample.length
  /\ \E c \in sample.characters : text' = Append(text, c)
  /\ UNCHANGED sample

FieldSpec == FieldInit /\ [][NextCharacter]_fieldVars

-----------------------------------------------------------------------------
(***************************************************************************)
(* The characters.                                                         *)
(***************************************************************************)
Star == 42
Plus == 43
Comma == 44
Minus == 45
Dot == 46
Zero == 48
Digits == 48 .. 57

AllDigits(t, i, j) == \A k \in i .. j : t[k] \in Digits

\* parse_digits and the loops like it: the number that the digits from i to j write.
Number(t, i, j) ==
  LET number[k \in 0 .. Len(t)] ==
        IF k < i THEN 0 ELSE 10 * number[k - 1] + (t[k] - Zero)
  IN  number[j]

\* The first place from i on that is no digit.
DigitsEnd(t, i) ==
  Min({j \in i .. Len(t) + 1 : j = Len(t) + 1 \/ t[j] \notin Digits})

\* Digits behind the point in units of 1 / scale; those too small are skipped.
Fraction(t, i, j, scale) ==
  LET f[k \in 0 .. Len(t)] ==
        IF k < i THEN [sum |-> 0, scale |-> scale \div 10]
        ELSE [sum |-> f[k - 1].sum + (t[k] - Zero) * f[k - 1].scale,
              scale |-> f[k - 1].scale \div 10]
  IN  f[j].sum

\* Where the digits behind a point at i end, if there is a point.
FractionEnd(t, i) ==
  IF i <= Len(t) /\ t[i] = Dot THEN DigitsEnd(t, i + 1) ELSE i

-----------------------------------------------------------------------------
(***************************************************************************)
(* The parsers.                                                            *)
(***************************************************************************)
FixedStart(t) == IF t # <<>> /\ t[1] \in {Plus, Minus} THEN 2 ELSE 1

FixedValue(t, whole, fraction) ==
  (IF t[1] = Minus THEN -1 ELSE 1) * (whole * FixedScale + fraction)

\* parse_fixed_milli.
FixedMilli(t) ==
  LET start == FixedStart(t)
      point == DigitsEnd(t, start)
      end   == FractionEnd(t, point)
      whole == Number(t, start, point - 1)
      value == FixedValue(t, whole, Fraction(t, point + 1, end - 1, FixedScale))
  IN  IF start < point /\ end > Len(t) /\ whole <= IntMax \div FixedScale
      THEN {value} \cap (-IntMax - 1 .. IntMax)
      ELSE {}

\* parse_coordinate_e7: n degree digits, two minute digits, and a fraction.  A
\* coordinate within the range never exceeds INT32_MAX.
Coordinate(t, n, hemisphere) ==
  LET degrees == Number(t, 1, n)
      limit   == IF n = 2 THEN 90 ELSE 180
      end     == FractionEnd(t, n + 3)
      minutes == Number(t, n + 1, n + 2) * MinuteScale
                   + Fraction(t, n + 4, end - 1, MinuteScale)
      value   == degrees * DegreeScale
                   + (minutes * DegreeScale + 30 * MinuteScale) \div (60 * MinuteScale)
  IN  IF /\ Len(t) >= n + 2 /\ AllDigits(t, 1, n + 2) /\ end > Len(t)
         /\ minutes < 60 * MinuteScale
         /\ degrees < limit \/ (degrees = limit /\ minutes = 0)
         /\ hemisphere \in {"N", "E", "S", "W"}
      THEN {IF hemisphere \in {"S", "W"} THEN -value ELSE value}
      ELSE {}

WholeSecond(t) ==
  Len(t) > 6 => /\ t[7] = Dot /\ Len(t) > 7
                /\ \A i \in 8 .. Len(t) : t[i] = Zero

\* parse_utc_field.
UtcField(t) ==
  LET hour   == Number(t, 1, 2)
      minute == Number(t, 3, 4)
      second == Number(t, 5, 6)
  IN  IF /\ Len(t) >= 6 /\ AllDigits(t, 1, 6) /\ WholeSecond(t)
         /\ hour <= 23 /\ minute <= 59 /\ second <= 59
      THEN {[hour |-> hour, minute |-> minute, second |-> second]}
      ELSE {}

\* Mutant: as strtok does, an empty field is passed over.
CommaNumberToken(s, n) ==
  LET ends == {j \in DOMAIN s : s[j] = Comma /\ (j = 1 \/ s[j - 1] # Comma)}
  IN  Max({0} \cup {j \in ends : Cardinality({i \in ends : i <= j}) = n})

\* strchr(cursor, ',') n times; 0 if there are fewer commas.
CommaNumber(s, n) ==
  LET next[i \in 0 .. n] ==
        IF i = 0 THEN 0
        ELSE LET later == {j \in DOMAIN s : j > next[i - 1] /\ s[j] = Comma}
             IN  IF (i > 1 /\ next[i - 1] = 0) \/ later = {} THEN 0 ELSE Min(later)
  IN  next[n]

\* get_field of timebase.c.
GetField(s, n) ==
  LET comma == CommaNumber(s, n)
      end   == Min({j \in comma + 1 .. Len(s) + 1 :
                      j = Len(s) + 1 \/ s[j] \in {Comma, Star}})
  IN  IF n = 0 \/ comma = 0 THEN {} ELSE {SubSeq(s, comma + 1, end - 1)}

\* copy_field of nmea_timing.c: a field that is empty or too long is refused.
CopyField(s, n) == {f \in GetField(s, n) : Len(f) \in 1 .. BufferRoom}

-----------------------------------------------------------------------------
(***************************************************************************)
(* What is meant.                                                          *)
(***************************************************************************)
Points(t) == {i \in DOMAIN t : t[i] = Dot}
Point(t) == IF Points(t) = {} THEN Len(t) + 1 ELSE Max(Points(t))
Decimals(t) == IF Points(t) = {} THEN 0 ELSE Len(t) - Point(t)

\* From i on there are digits and at most one point behind the first.
Unsigned(t, i) ==
  /\ i <= Len(t) /\ t[i] \in Digits
  /\ \A p, q \in Points(t) : p = q
  /\ \A k \in (i .. Len(t)) \ Points(t) : t[k] \in Digits

\* The number written from i on, in units of its last place.
Units(t, i) ==
  Number(t, i, Point(t) - 1) * Power10[Decimals(t)] + Number(t, Point(t) + 1, Len(t))

\* parse_fixed_milli cuts a decimal number off towards zero behind its scale, and
\* refuses it only if the result would not fit.
FixedRight ==
  LET start  == FixedStart(text)
      value  == (Units(text, start) * FixedScale) \div Power10[Decimals(text)]
      signed == IF text[1] = Minus THEN -value ELSE value
  IN  IF Unsigned(text, start)
      THEN FixedMilli(text) = {signed} \cap (-IntMax - 1 .. IntMax)
      ELSE FixedMilli(text) = {}

\* The position of the status page is the written one but for two thirds of the
\* last place (half of it from rounding, the rest from minutes that are cut off
\* behind their scale), and never beyond a pole or the antimeridian.
CoordinatesRight ==
  \A n \in {2, 3}, hemisphere \in {"N", "W", "A"} :
    LET limit   == IF n = 2 THEN 90 ELSE 180
        places  == Power10[Decimals(text)]
        unit    == 60 * places
        minutes == Units(text, n + 1)
        written == Number(text, 1, n) * unit + minutes
    IN  /\ Coordinate(text, n, hemisphere) # {} <=>
             /\ hemisphere # "A"
             /\ Unsigned(text, 1)
             /\ (Points(text) = {} /\ Len(text) = n + 2) \/ Points(text) = {n + 3}
             /\ minutes < unit
             /\ (written * MinuteScale) \div places <= limit * 60 * MinuteScale
        /\ \A value \in Coordinate(text, n, hemisphere) :
             LET degrees == IF hemisphere = "W" THEN -value ELSE value
                 off == degrees * unit - written * DegreeScale
             IN  /\ degrees \in 0 .. limit * DegreeScale
                 /\ Max({off, -off}) * 120 * MinuteScale
                      < unit * (60 * MinuteScale + 2 * DegreeScale)

\* Hours, minutes, seconds, and no fraction but zeros.
WholeSecondWritten ==
  LET seconds == Units(text, 5)
      unit    == Power10[Decimals(text)]
  IN  /\ Unsigned(text, 1)
      /\ (Points(text) = {} /\ Len(text) = 6) \/ (Points(text) = {7} /\ Len(text) > 7)
      /\ Number(text, 1, 2) < 24 /\ Number(text, 3, 4) < 60
      /\ seconds < 60 * unit /\ seconds % unit = 0

\* A label is taken from exactly the sentences that name a whole second of a day.
LabelsRead ==
  /\ UtcField(text) # {} <=> WholeSecondWritten
  /\ \A t \in UtcField(text) :
       t.hour * 10000 + t.minute * 100 + t.second = Number(text, 1, 6)

\* Field n of a sentence is what stands between its n-th comma and the next one, or
\* the checksum: no empty field shifts the others, and the status page shows
\* nothing of a field that does not fit its buffer.
FieldsSeparate ==
  LET star == Min({i \in DOMAIN text : text[i] = Star} \cup {Len(text) + 1})
      commas == {i \in DOMAIN text : text[i] = Comma}
      Field(n, i, j) ==
        /\ i < j /\ Cardinality({c \in commas : c <= i}) = n
        /\ commas \cap (i + 1 .. j - 1) = {}
  IN  commas \subseteq 1 .. star =>
        \A n \in 1 .. Len(text) :
          /\ GetField(text, n) = {SubSeq(text, p[1] + 1, p[2] - 1) :
               p \in {q \in commas \X (commas \cup {star}) : Field(n, q[1], q[2])}}
          /\ CopyField(text, n) \subseteq GetField(text, n)
          /\ \A f \in GetField(text, n) \ CopyField(text, n) :
               f = <<>> \/ Len(f) > BufferRoom

\* What the status page and the timebase take from a sentence is what is written.
FieldsRead == FixedRight /\ CoordinatesRight /\ LabelsRead /\ FieldsSeparate
=============================================================================
