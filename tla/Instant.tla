------------------------------- MODULE Instant ------------------------------
(* Timestamps (core/host/src/time.rs, core/wire/src/observation.rs, and the copy of the    *)
(* calendar in adapters/bitcoin/src/map.rs): what the host stamps, and the instant it      *)
(* orders a record by.  A timestamp is the fields of its text.                             *)
EXTENDS Integers, Sequences, FiniteSetsExt

CONSTANTS Resolution,    \* the digits of a second an instant keeps: nanoseconds in the code
          NotOrdered,    \* the answer for a timestamp no instant is right for
          Origins,       \* dates from which days are counted, with their number
          Finals,        \* the numbers at which the count stops
          Times,         \* what is tried on the days Orderable: minutes after midnight,
          Fractions,     \* digits of a second, and the offsets of clocks
          Offsets,
          Orderable

ASSUME InstantAssumption ==
  /\ Resolution \in Nat \ {0}
  /\ NotOrdered \notin Int \X Nat
  /\ Origins \subseteq Int \X (Nat \X (1 .. 12) \X (1 .. 31)) /\ Finals \subseteq Int
  /\ Times \subseteq Nat
  /\ Fractions \subseteq Seq(0 .. 9) /\ IsFiniteSet(Fractions)
  /\ Offsets \subseteq [sign : {1, -1}, hour : 0 .. 23, minute : 0 .. 59]
  /\ Orderable \subseteq Int

VARIABLES today          \* a date of the calendar and its number, by counting

Years == 0 .. 9999

(* What the validator accepts: fields in range, whatever the month; a fraction of any      *)
(* length; a leap second; an offset (0 is also written Z).                                 *)
Valid(ts) ==
  /\ ts.date \in Years \X (1 .. 12) \X (1 .. 31)
  /\ ts.hour \in 0 .. 23 /\ ts.minute \in 0 .. 59 /\ ts.second \in 0 .. 60
  /\ ts.fraction \in Seq(0 .. 9)
  /\ ts.offset.sign \in {1, -1} /\ ts.offset.hour \in 0 .. 23 /\ ts.offset.minute \in 0 .. 59

(* Hinnant's calendar: a year starts in March and an era is 400 of them. *)
CivilOfEra(era, doe) ==
  LET yoe == (doe - doe \div 1460 + doe \div 36524 - doe \div 146096) \div 365
      doy == doe - (365 * yoe + yoe \div 4 - yoe \div 100)
      mp == (5 * doy + 2) \div 153
      m == IF mp < 10 THEN mp + 3 ELSE mp - 9
  IN  <<yoe + era * 400 + (IF m =< 2 THEN 1 ELSE 0), m, doy - (153 * mp + 2) \div 5 + 1>>

(* \div rounds down, as div_euclid does. *)
CivilFromDays(days) ==
  LET z == days + 719468 IN CivilOfEra(z \div 146097, z - (z \div 146097) * 146097)

(* `/` rounds towards zero. *)
Quotient(n, d) == IF n >= 0 THEN n \div d ELSE -((-n) \div d)

CivilFromDays_bitcoin(days) ==
  LET z == days + 719468
      era == Quotient(IF z >= 0 THEN z ELSE z - 146096, 146097)
  IN  CivilOfEra(era, z - era * 146097)

(* Stays monotonic on days a month does not have. *)
DaysFromCivil(date) ==
  LET y == IF date[2] =< 2 THEN date[1] - 1 ELSE date[1]
      era == y \div 400
      yoe == y - era * 400
      mp == IF date[2] > 2 THEN date[2] - 3 ELSE date[2] + 9
      doy == (153 * mp + 2) \div 5 + date[3] - 1
  IN  era * 146097 + yoe * 365 + yoe \div 4 - yoe \div 100 + doy - 719468

(* A fraction is followed by zeros. *)
Digit(fraction, i) == IF i \in DOMAIN fraction THEN fraction[i] ELSE 0

(* The digits an instant keeps. *)
Nanos(fraction) ==
  LET kept[i \in 0 .. Resolution] == IF i = 0 THEN 0 ELSE kept[i - 1] * 10 + Digit(fraction, i)
  IN  kept[Resolution]

OffsetSecs(offset) == offset.sign * (offset.hour * 3600 + offset.minute * 60)

(* What is finer is cut off, and a date the month does not have rolls forward. *)
Instant_truncating(ts) ==
  <<DaysFromCivil(ts.date) * 86400 + ts.hour * 3600 + ts.minute * 60 + ts.second
      - OffsetSecs(ts.offset), Nanos(ts.fraction)>>

Instant(ts) ==
  IF \/ ts.second = 60
     \/ \E i \in Resolution + 1 .. Len(ts.fraction) : ts.fraction[i] # 0
     \/ CivilFromDays(DaysFromCivil(ts.date)) # ts.date
  THEN NotOrdered
  ELSE <<DaysFromCivil(ts.date) * 86400 + ts.hour * 3600 + ts.minute * 60 + ts.second
           - OffsetSecs(ts.offset), Nanos(ts.fraction)>>

Utc == [sign |-> 1, hour |-> 0, minute |-> 0]

(* The stamp of a reading of the clock, in whole seconds since the epoch. *)
Now(secs) ==
  LET rest == secs % 86400
  IN  [date |-> CivilFromDays(secs \div 86400),
       hour |-> rest \div 3600, minute |-> (rest % 3600) \div 60, second |-> rest % 60,
       fraction |-> <<>>, offset |-> Utc]

------------------------------------------------------------------------------
(* The calendar as it is counted. *)
LeapYear(y) == y % 4 = 0 /\ (y % 100 # 0 \/ y % 400 = 0)

DaysIn(y, m) ==
  IF m = 2 THEN (IF LeapYear(y) THEN 29 ELSE 28) ELSE IF m \in {4, 6, 9, 11} THEN 30 ELSE 31

Following(date) ==
  IF date[3] < DaysIn(date[1], date[2]) THEN <<date[1], date[2], date[3] + 1>>
  ELSE IF date[2] < 12 THEN <<date[1], date[2] + 1, 1>> ELSE <<date[1] + 1, 1, 1>>

(* The count starts right, and the day after an orderable one is of the validator's years. *)
ASSUME CalendarAssumption ==
  /\ \A o \in Origins : o[2][3] =< DaysIn(o[2][1], o[2][2]) /\ DaysFromCivil(o[2]) = o[1]
  /\ \A n \in Orderable :
       DaysFromCivil(<<0, 1, 1>>) =< n /\ n < DaysFromCivil(<<9999, 12, 31>>)

CountInit == today \in {[number |-> o[1], date |-> o[2]] : o \in Origins}

NextDay ==
  /\ today.number \notin Finals
  /\ today' = [number |-> today.number + 1, date |-> Following(today.date)]

CountSpec == CountInit /\ [][NextDay]_today

------------------------------------------------------------------------------
(* Both copies of civil_from_days, and its inverse, agree with a calendar counted day by   *)
(* day.                                                                                    *)
CalendarIsCounted ==
  /\ CivilFromDays(today.number) = today.date
  /\ CivilFromDays_bitcoin(today.number) = today.date
  /\ DaysFromCivil(today.date) = today.number

Minutes == 24 * 60
TwoDays == 0 .. 2 * Minutes - 1

(* What a clock with an offset shows, in minutes after the midnight in UTC that begins      *)
(* today, and the timestamp it writes.                                                     *)
Local(minutes, o) == minutes + o.sign * (o.hour * 60 + o.minute)

Written(minutes, s, f, o) ==
  [date |-> IF minutes < Minutes THEN today.date ELSE Following(today.date),
   hour |-> (minutes % Minutes) \div 60, minute |-> minutes % 60, second |-> s,
   fraction |-> f, offset |-> o]

Exact(fraction) == \A i \in DOMAIN fraction : i > Resolution => fraction[i] = 0

(* The fraction in the finest unit that is written or kept. *)
Finest == Max({Resolution} \union {Len(f) : f \in Fractions})

Unit[n \in 0 .. Finest] == IF n = 0 THEN 1 ELSE 10 * Unit[n - 1]

Value(f) ==
  LET worth[i \in 0 .. Finest] == IF i = 0 THEN 0 ELSE worth[i - 1] + Digit(f, i) * Unit[Finest - i]
  IN  worth[Finest]

Midnight == today.number * 86400

(* One wall clock east of another names the same instant with its offset, over midnights   *)
(* and the ends of months and years; a fraction keeps its value; a leap second and a       *)
(* fraction too fine have no instant.                                                      *)
ExactOrNone(t, s, f, o) ==
  LET written == Written(Local(t, o), s, f, o)
      at == Instant(written)
  IN  /\ Valid(written)
      /\ IF s = 60 \/ ~Exact(f) THEN at = NotOrdered
         ELSE /\ at[1] = Midnight + t * 60 + s
              /\ at[2] * Unit[Finest] = Value(f) * Unit[Resolution]

WallClocksAgree ==
  \A t \in Times, s \in {0, 59, 60}, f \in Fractions, o \in Offsets :
    Local(t, o) \in TwoDays => ExactOrNone(t, s, f, o)

(* A date the month does not have has no instant, instead of one of the next month. *)
NoSuchDayHasNone ==
  \A d \in DaysIn(today.date[1], today.date[2]) + 1 .. 31 :
    Instant([Written(0, 0, <<>>, Utc) EXCEPT !.date = [today.date EXCEPT ![3] = d]]) = NotOrdered

(* The stamp of an instant names it. *)
StampsNameTheirInstant ==
  \A t \in Times : Instant(Now(Midnight + t * 60 + 59)) = <<Midnight + t * 60 + 59, 0>>

(* The calendar is right through a whole 400-year era and over the seam of two: a day off  *)
(* by one moves a record across the start of the history it is judged by.  And the instant *)
(* of a timestamp is exactly the time it names or there is none ("a plausible wrong        *)
(* instant is what retracts a record", time.rs:69-71).                                     *)
InstantsAreExact ==
  /\ CalendarIsCounted
  /\ today.number \in Orderable =>
       WallClocksAgree /\ NoSuchDayHasNone /\ StampsNameTheirInstant
=============================================================================
