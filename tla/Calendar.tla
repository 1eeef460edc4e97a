------------------------------ MODULE Calendar ------------------------------
(***************************************************************************)
(* The calendar arithmetic of timebase.c: dates to days since 1970 and     *)
(* back, without tables, and the two-digit years of RMC sentences.  It is  *)
(* checked against a calendar that counts one day after another.           *)
(*                                                                         *)
(* A number of seconds since 1970 is a pair of a day number and a second   *)
(* of that day: int64_t does not overflow before the year 9999.            *)
(***************************************************************************)
EXTENDS Integers, FiniteSets

CONSTANTS
  Years,   \* the years counted through
  Seconds  \* the seconds of the day tried on each day

ASSUME RangeAssumption ==
  /\ \A year \in Years : year \in Nat /\ 1970 <= year /\ year <= 9999
  /\ \A s \in Seconds : s \in Nat /\ s < 86400

VARIABLES
  date,  \* a date of the proleptic Gregorian calendar
  days   \* the days since 1 January 1970

calendarVars == <<date, days>>

-----------------------------------------------------------------------------
(***************************************************************************)
(* The code.                                                               *)
(***************************************************************************)
IsLeapYear(year) == year % 4 = 0 /\ (year % 100 # 0 \/ year % 400 = 0)

MonthLengths == <<31, 28, 31, 30, 31, 30, 31, 31, 30, 31, 30, 31>>
DaysInMonth(year, month) ==
  IF month = 2 /\ IsLeapYear(year) THEN 29 ELSE MonthLengths[month]

\* The range checks of timebase_utc_to_unix on the date.
DateAccepted(d) ==
  /\ 1970 <= d.year /\ d.year <= 9999
  /\ d.month \in 1 .. 12
  /\ d.day \in 1 .. DaysInMonth(d.year, d.month)

\* timebase_utc_to_unix: years begin in March, eras last 400 years.
DaysSinceEpoch(d) ==
  LET year      == IF d.month <= 2 THEN d.year - 1 ELSE d.year
      era       == year \div 400
      yearOfEra == year - era * 400
      month     == d.month + (IF d.month > 2 THEN -3 ELSE 9)
      dayOfYear == (153 * month + 2) \div 5 + d.day - 1
      dayOfEra  == yearOfEra * 365 + yearOfEra \div 4 - yearOfEra \div 100 + dayOfYear
  IN  era * 146097 + dayOfEra - 719468

\* Mutant: the last day of an era is taken for the next year's.
DateOfLate(n) ==
  LET adjusted  == n + 719468
      era       == adjusted \div 146097
      dayOfEra  == adjusted - era * 146097
      yearOfEra == (dayOfEra - dayOfEra \div 1460 + dayOfEra \div 36524) \div 365
      dayOfYear == dayOfEra - (365 * yearOfEra + yearOfEra \div 4 - yearOfEra \div 100)
      march     == (5 * dayOfYear + 2) \div 153
      month     == march + (IF march < 10 THEN 3 ELSE -9)
  IN  [year  |-> yearOfEra + era * 400 + (IF month <= 2 THEN 1 ELSE 0),
       month |-> month,
       day   |-> dayOfYear - (153 * march + 2) \div 5 + 1]

\* unix_to_utc, the date.
DateOf(n) ==
  LET adjusted  == n + 719468
      era       == adjusted \div 146097
      dayOfEra  == adjusted - era * 146097
      yearOfEra == (dayOfEra - dayOfEra \div 1460 + dayOfEra \div 36524
                      - dayOfEra \div 146096) \div 365
      dayOfYear == dayOfEra - (365 * yearOfEra + yearOfEra \div 4 - yearOfEra \div 100)
      march     == (5 * dayOfYear + 2) \div 153
      month     == march + (IF march < 10 THEN 3 ELSE -9)
  IN  [year  |-> yearOfEra + era * 400 + (IF month <= 2 THEN 1 ELSE 0),
       month |-> month,
       day   |-> dayOfYear - (153 * march + 2) \div 5 + 1]

\* Both functions on the time of the day.
SecondOfDay(t) == t.hour * 3600 + t.minute * 60 + t.second
TimeOf(s) == [hour |-> s \div 3600, minute |-> (s % 3600) \div 60, second |-> s % 60]

\* timebase_parse_rmc: years from 80 belong to the last century.
RmcYear(yy) == IF yy >= 80 THEN 1900 + yy ELSE 2000 + yy

-----------------------------------------------------------------------------
(***************************************************************************)
(* The reference: a calendar on the wall.                                  *)
(***************************************************************************)
LeapYears == {4 * k : k \in 0 .. 2500} \ {100 * k : k \in {j \in 0 .. 100 : j % 4 # 0}}
LeapDay(year) == year \in LeapYears
MonthEnd(d) ==
  d.day = CASE d.month \in {4, 6, 9, 11} -> 30
            [] d.month = 2 /\ LeapDay(d.year) -> 29
            [] d.month = 2 /\ ~LeapDay(d.year) -> 28
            [] OTHER -> 31

CalendarInit ==
  \E year \in Years :
    /\ date = [year |-> year, month |-> 1, day |-> 1]
    /\ days = 365 * (year - 1970) + Cardinality(LeapYears \cap (1970 .. year - 1))

\* The next day of the same year.
NextDay ==
  /\ ~(date.month = 12 /\ date.day = 31)
  /\ date' = IF MonthEnd(date)
             THEN [date EXCEPT !.month = @ + 1, !.day = 1]
             ELSE [date EXCEPT !.day = @ + 1]
  /\ days' = days + 1

CalendarSpec == CalendarInit /\ [][NextDay]_calendarVars

-----------------------------------------------------------------------------
(***************************************************************************)
(* Properties.                                                             *)
(***************************************************************************)

\* A label becomes the right number of seconds since 1970 (timebase_utc_to_unix).
DaysCounted == DaysSinceEpoch(date) = days

\* The displayed date and time are those of the second served: unix_to_utc
\* undoes timebase_utc_to_unix at every second tried.
RoundTrip ==
  /\ DateOf(days) = date
  /\ \A s \in Seconds : SecondOfDay(TimeOf(s)) = s

\* Exactly the dates of the calendar are accepted as labels: a date is, and its
\* successor in the same month is unless the month ends.
DatesAccepted ==
  /\ DateAccepted(date)
  /\ DateAccepted([date EXCEPT !.day = @ + 1]) <=> ~MonthEnd(date)
  /\ ~DateAccepted([date EXCEPT !.day = 0])

\* A ZDA and an RMC sentence of the same day give the same label from 1980 to
\* 2079: the second of them does not find a projection mismatch.
SentencesAgree ==
  date.year \in 1980 .. 2079 =>
    DaysSinceEpoch([date EXCEPT !.year = RmcYear(date.year % 100)]) = days

\* Dates survive the way from a sentence to seconds since 1970 and back to the
\* display, whichever sentence they came in, over every leap year and century.
CalendarExact == DaysCounted /\ RoundTrip /\ DatesAccepted /\ SentencesAgree

=============================================================================
