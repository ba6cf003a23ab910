---------------------------- MODULE DateFunctions ----------------------------
(***************************************************************************)
(* The date and time functions of a filter.  A moment is a record          *)
(*                                                                         *)
(*   [year, month, day, second, tick]                                      *)
(*                                                                         *)
(* of the proleptic calendar in UTC; second counts within the day, tick    *)
(* the ten-thousandths within the second, and nothing finer is kept.  The  *)
(* text of a date is the sequence of its parts, each standing for its      *)
(* digits: perhaps a sign, then year, month and day, perhaps the second,   *)
(* perhaps the milliseconds, perhaps the tenths of one.                    *)
(***************************************************************************)
EXTENDS JsonValues

CONSTANT Now \* the moment at which a filter is parsed

DateUnits == {"year", "quarter", "month", "week", "day", "hour", "minute", "second"}
DateParts == DateUnits \cup {"dayofweek", "dayofyear"}

DaySeconds  == 86400
SecondTicks == 10000

UnitSeconds == [week |-> 7 * DaySeconds, day |-> DaySeconds, hour |-> 3600,
                minute |-> 60, second |-> 1]
UnitMonths  == [year |-> 12, quarter |-> 3, month |-> 1]

-----------------------------------------------------------------------------
(* The calendar *)

IsLeapYear(year) == year % 4 = 0 /\ (year % 100 # 0 \/ year % 400 = 0)

DaysInMonth(year, month) ==
    CASE month = 2               -> IF IsLeapYear(year) THEN 29 ELSE 28
      [] month \in {4, 6, 9, 11} -> 30
      [] OTHER                   -> 31

DaysBefore == <<0, 31, 59, 90, 120, 151, 181, 212, 243, 273, 304, 334, 365>>

DaysBeforeMonth(year, month) ==
    DaysBefore[month] + IF month > 2 /\ IsLeapYear(year) THEN 1 ELSE 0

DaysBeforeYear(year) ==
    LET past == year - 1
    IN  365 * past + past \div 4 - past \div 100 + past \div 400

OrdinalDay(dt) == DaysBeforeMonth(dt.year, dt.month) + dt.day

\* Day 1 is the first day of year 1, a Monday.
DayNumber(dt) == DaysBeforeYear(dt.year) + OrdinalDay(dt)

\* Years of 366 and of 365 days bound the year from either side.
YearOf(number) ==
    LET early == IF number < 0 THEN number \div 365 ELSE number \div 366
        late  == IF number < 0 THEN number \div 366 ELSE number \div 365
    IN  CHOOSE y \in early - 1 .. late + 1 :
          DaysBeforeYear(y) < number /\ number <= DaysBeforeYear(y + 1)

MonthOf(year, ordinal) ==
    CHOOSE m \in 1..12 : /\ DaysBeforeMonth(year, m) < ordinal
                         /\ ordinal <= DaysBeforeMonth(year, m + 1)

InMonth(year, month, ordinal, second, tick) ==
    [year |-> year, month |-> month, day |-> ordinal - DaysBeforeMonth(year, month),
     second |-> second, tick |-> tick]

InYear(year, ordinal, second, tick) ==
    InMonth(year, MonthOf(year, ordinal), ordinal, second, tick)

OfYear(year, number, second, tick) == InYear(year, number - DaysBeforeYear(year), second, tick)

MomentAt(number, second, tick) == OfYear(YearOf(number), number, second, tick)

WeekdayFromMonday(number) == (number - 1) % 7

\* The week that holds the year's first Thursday is the first.
IsoWeek(dt) ==
    LET thursday == DayNumber(dt) - WeekdayFromMonday(DayNumber(dt)) + 3
    IN  (OrdinalDay(MomentAt(thursday, 0, 0)) - 1) \div 7 + 1

-----------------------------------------------------------------------------
(* Texts *)

\* As characters the signs sort before every digit, plus before minus.
PlusSign  == -2
MinusSign == -1

\* A year of more than four digits, or a negative one, is written with a sign.
YearSign(year) == IF year \in 0..9999 THEN <<>> ELSE IF year > 9999 THEN <<PlusSign>> ELSE <<MinusSign>>

\* What is finer than a millisecond is cut off.
NormalText(dt) ==
    YearSign(dt.year)
    \o <<IF dt.year < 0 THEN -dt.year ELSE dt.year, dt.month, dt.day, dt.second, dt.tick \div 10>>

\* A bound: with a sign the library takes years up to 262142.
LongestYear == 99999

IsSigned(text) == text # <<>> /\ text[1] \in {PlusSign, MinusSign}
Digits(text)   == IF IsSigned(text) THEN Tail(text) ELSE text
YearIn(text)   == IF text[1] = MinusSign THEN -text[2] ELSE Digits(text)[1]

\* digits are those of a day of this year, and perhaps of a time of it.
AreDigits(digits, year, latest, parts) ==
    /\ Len(digits) \in 3..parts
    /\ digits[1] \in 0..latest
    /\ digits[2] \in 1..12
    /\ digits[3] \in 1..DaysInMonth(year, digits[2])
    /\ Len(digits) >= 4 => digits[4] \in 0..DaySeconds - 1
    /\ Len(digits) >= 5 => digits[5] \in 0..999
    /\ Len(digits) = 6 => digits[6] \in 0..9

\* Only the format of RFC 3339 has parts of seconds, and it has no sign.
IsDate(text) ==
    AreDigits(Digits(text), YearIn(text), IF IsSigned(text) THEN LongestYear ELSE 9999,
              IF IsSigned(text) THEN 4 ELSE 6)

PartOf(digits, i) == IF i \in DOMAIN digits THEN digits[i] ELSE 0

MomentFrom(digits, year) ==
    [year |-> year, month |-> digits[2], day |-> digits[3], second |-> PartOf(digits, 4),
     tick |-> 10 * PartOf(digits, 5) + PartOf(digits, 6)]

\* The moment a text stands for, as a sequence of at most one; a date alone
\* is its midnight.
ParseDatetime(text) ==
    IF IsDate(text) THEN <<MomentFrom(Digits(text), YearIn(text))>> ELSE <<>>

\* Mutant of FlattenValues: an array stays one value.
FlattenNothing(values) == values

\* A single collection is replaced by its elements; anything else stays.
FlattenValues(values) ==
    IF Len(values) = 1 /\ IsArr(values[1]) THEN values[1].arr ELSE values

\* The first date among the values of a field.
ResolveDatetime(fields, path) ==
    FoldLeft(LAMBDA found, value : IF found = <<>> /\ IsStr(value) THEN ParseDatetime(value.str) ELSE found,
             <<>>, FlattenValues(ResolveFieldPath(fields, path)))

-----------------------------------------------------------------------------
(* The functions *)

Quarter(month) == (month - 1) \div 3 + 1

DatePartValue(part, dt) ==
    CASE part = "year"      -> IF dt.year < 0 THEN 0 ELSE dt.year
      [] part = "quarter"   -> Quarter(dt.month)
      [] part = "month"     -> dt.month
      [] part = "week"      -> IsoWeek(dt)
      [] part = "day"       -> dt.day
      [] part = "hour"      -> dt.second \div 3600
      [] part = "minute"    -> (dt.second \div 60) % 60
      [] part = "second"    -> dt.second % 60
      [] part = "dayofweek" -> DayNumber(dt) % 7
      [] part = "dayofyear" -> OrdinalDay(dt)

\* Mutant of AddMonths: the day is not clamped to the month.
AddMonthsOverflowing(dt, months) ==
    LET total == 12 * dt.year + dt.month - 1 + months
    IN  [dt EXCEPT !.year = total \div 12, !.month = 1 + (total % 12)]

\* A day the new month does not have becomes its last.  Moments beyond the
\* library's range of years, where the functions give nothing, are left out.
AddMonths(dt, months) ==
    LET moved == AddMonthsOverflowing(dt, months)
        last  == DaysInMonth(moved.year, moved.month)
    IN  [moved EXCEPT !.day = IF @ > last THEN last ELSE @]

AddSeconds(dt, seconds) ==
    LET total == dt.second + seconds
    IN  MomentAt(DayNumber(dt) + total \div DaySeconds, total % DaySeconds, dt.tick)

DateAdd(unit, interval, dt) ==
    IF unit \in DOMAIN UnitMonths
    THEN AddMonths(dt, UnitMonths[unit] * interval)
    ELSE AddSeconds(dt, UnitSeconds[unit] * interval)

TruncatedQuotient(n, d) == IF n >= 0 THEN n \div d ELSE -((-n) \div d)

MonthsBetween(start, end) ==
    12 * (end.year - start.year) + end.month - start.month

\* Whole seconds, what is left of the last one cut off.
WholeSeconds(seconds, from, to) ==
    CASE seconds > 0 /\ to < from -> seconds - 1
      [] seconds < 0 /\ to > from -> seconds + 1
      [] OTHER                    -> seconds

SecondsBetween(start, end) ==
    WholeSeconds(DaySeconds * (DayNumber(end) - DayNumber(start)) + end.second - start.second,
                 start.tick, end.tick)

\* Boundaries of months are counted and then divided downwards; durations
\* are divided towards zero.
DateDiff(unit, start, end) ==
    IF unit \in DOMAIN UnitMonths
    THEN MonthsBetween(start, end) \div UnitMonths[unit]
    ELSE TruncatedQuotient(SecondsBetween(start, end), UnitSeconds[unit])

-----------------------------------------------------------------------------
(* The left side of a date comparison, by its fn:                          *)
(*   "field", "date", "time" with a field, "datepart" with part and field, *)
(*   "dateadd" with unit, interval and field, "datediff" with unit and two *)
(*   references, "now", and a literal "utcdatetime" with its text.  A      *)
(* reference is [field |-> path] or [literal |-> text].                    *)

Reference(fields, ref) ==
    IF "field" \in DOMAIN ref THEN ResolveDatetime(fields, ref.field)
    ELSE ParseDatetime(ref.literal)

Midnight(dt)  == [dt EXCEPT !.second = 0, !.tick = 0]
TimeOfDay(dt) == [dt EXCEPT !.year = 1, !.month = 1, !.day = 1]

DateOf(left, dt) ==
    CASE left.fn = "field"   -> dt
      [] left.fn = "date"    -> Midnight(dt)
      [] left.fn = "time"    -> TimeOfDay(dt)
      [] left.fn = "dateadd" -> DateAdd(left.unit, left.interval, dt)

OfDate(left, dt) ==
    IF left.fn = "datepart" THEN Num(DatePartValue(left.part, dt))
    ELSE Str(NormalText(DateOf(left, dt)))

OfFound(left, found) == [i \in DOMAIN found |-> OfDate(left, found[i])]

DiffOf(unit, start, end) ==
    IF start = <<>> \/ end = <<>> THEN <<>> ELSE <<Num(DateDiff(unit, start[1], end[1]))>>

\* The value of a left side, as a sequence of at most one: none when a date
\* it needs is missing.
EvaluateDate(left, fields) ==
    CASE left.fn = "now"         -> <<Str(NormalText(Now))>>
      [] left.fn = "utcdatetime" -> <<Str(left.text)>>
      [] left.fn = "datediff"    ->
            DiffOf(left.unit, Reference(fields, left.start), Reference(fields, left.end))
      [] OTHER -> OfFound(left, ResolveDatetime(fields, left.field))

FieldsOfRef(ref) == IF "field" \in DOMAIN ref THEN {ref.field} ELSE {}

ReferencedFields(left) ==
    CASE left.fn = "datediff"              -> FieldsOfRef(left.start) \cup FieldsOfRef(left.end)
      [] left.fn \in {"now", "utcdatetime"} -> {}
      [] OTHER                             -> {left.field}

=============================================================================
