------------------------------ MODULE Calendar ------------------------------
(***************************************************************************)
(* The calendar (FlySight/time.c): seconds since 2000-01-01 to a date and  *)
(* back, as used for the clock (rtc_util.c), the names of the log's        *)
(* folders and the rows of the log (log.c), where a time is rounded to     *)
(* milliseconds.  A time is a day and a second of the day, which is what   *)
(* a count of 32 bits reaches; day by day the state holds the date by the  *)
(* rules of the Gregorian calendar.                                        *)
(***************************************************************************)
EXTENDS Integers

CONSTANTS LastDay         \* the last day that a count of seconds of 32 bits reaches

VARIABLES
  day,                  \* since 2000-01-01
  year, month, mday     \* its date by the rules

vars == <<day, year, month, mday>>

SecondsPerDay == 86400

-----------------------------------------------------------------------------
(* is_leap_year. *)
is_leap_year(y) ==
  IF y % 4 # 0 THEN 0 ELSE IF y % 100 # 0 \/ (y \div 100) % 4 = 0 THEN 1 ELSE 0

(* mk_gmtime: the days to the beginning of the year, and in it.  From March  *)
(* on months come in pairs of 61 days, with a break after July.              *)
Leaps(n) == IF n = 0 THEN 0 ELSE (n - 1) \div 4 - (n - 1) \div 100 + 1

DaysBefore(y, m) ==
  IF m <= 2 THEN 31 * (m - 1)
  ELSE LET n == m - 3
       IN 59 + is_leap_year(y) + (IF n > 4 THEN 153 ELSE 0)
            + ((n % 5) \div 2) * 61 + ((n % 5) % 2) * 31

mk_gmtime(y, m, d) == 365 * (y - 2000) + Leaps(y - 2000) + DaysBefore(y, m) + d - 1

-----------------------------------------------------------------------------
(* Mutant of Skipped: 2100 counts as a leap year. *)
SkippedNever(years) == 0

(* gmtime_r.  In the second century the cycles of four years begin a day     *)
(* later, because 2100 has no leap day.                                      *)
Skipped(years) == IF years > 100 THEN 1 ELSE 0

YearOf(days) ==
  LET century == 100 * (days \div 36525)
      years   == century + 4 * ((days % 36525) \div 1461)
      inCycle == ((days % 36525) % 1461) + Skipped(years)
      leap    == IF years = 100 THEN 0 ELSE 1
  IN IF inCycle > 364 + leap
     THEN [year |-> years + (inCycle - leap) \div 365, yday |-> (inCycle - leap) % 365, leap |-> 0]
     ELSE [year |-> years, yday |-> inCycle, leap |-> leap]

gmtime_r(days) ==
  LET y    == YearOf(days)
      feb  == 59 + y.leap
      rest == y.yday - feb
      pair == rest % 153
  IN IF y.yday < feb
     THEN <<2000 + y.year, y.yday \div 31 + 1, (y.yday % 31) + 1>>
     ELSE <<2000 + y.year,
            3 + 5 * (rest \div 153) + 2 * (pair \div 61) + ((pair % 61) \div 31),
            ((pair % 61) % 31) + 1>>

-----------------------------------------------------------------------------
(* normalizeGNSSTime: the nanoseconds of a solution may be negative.  They   *)
(* are rounded to milliseconds, a negative half towards zero, and a second   *)
(* is borrowed or carried.                                                   *)
Trunc(a, b) == IF a >= 0 THEN a \div b ELSE -((-a) \div b)
Millis(nano) ==
  IF nano >= 0 THEN Trunc(nano + 500000, 1000000) ELSE Trunc(nano - 499999, 1000000)

(* Mutant of Borrow: no second is borrowed. *)
BorrowNothing(ms) == 0
Borrow(ms) == IF ms >= 1000 THEN 1 ELSE IF ms < 0 THEN -1 ELSE 0

Normalized(d, s, nano) ==
  LET ms    == Millis(nano)
      total == s + Borrow(ms)
  IN [day |-> d + total \div SecondsPerDay, sec |-> total % SecondsPerDay,
      millis |-> ms - 1000 * Borrow(ms)]

-----------------------------------------------------------------------------
(* Time passes, a day at a time, by the rules. *)
Length(m, y) ==
  CASE m = 2 -> 28 + (IF y % 400 = 0 \/ (y % 4 = 0 /\ y % 100 # 0) THEN 1 ELSE 0)
    [] m \in {4, 6, 9, 11} -> 30
    [] OTHER -> 31

Init == day = 0 /\ year = 2000 /\ month = 1 /\ mday = 1

Tomorrow ==
  /\ day < LastDay /\ day' = day + 1
  /\ IF mday < Length(month, year) THEN mday' = mday + 1 /\ UNCHANGED <<month, year>>
     ELSE /\ mday' = 1 /\ month' = (month % 12) + 1
          /\ year' = IF month = 12 THEN year + 1 ELSE year

Next == Tomorrow
Spec == Init /\ [][Next]_vars

-----------------------------------------------------------------------------
TypeOK == day \in 0..LastDay /\ year >= 2000 /\ month \in 1..12 /\ mday \in 1..31

(* The date of every day is the one of the calendar, over the leap year of   *)
(* 2000 and the missing one of 2100, and the way back gives the day again.   *)
DateIsRight ==
  /\ gmtime_r(day) = <<year, month, mday>>
  /\ mk_gmtime(year, month, mday) = day

(* The time in a row of the log is the one of the solution, rounded to the   *)
(* nearest millisecond, over midnight too.  Before the second that 0 counts  *)
(* there is none, and the solution is not of the year 2000.                  *)
Edges == {-1000000000, -999500001, -999500000, -500001, -500000, -1, 0,
          499999, 500000, 999499999, 999500000, 999999999}
RowTimeIsNear ==
  \A s \in {0, 1, SecondsPerDay - 1}, nano \in Edges : day > 0 =>
    LET n       == Normalized(day, s, nano)
        seconds == (n.day - day) * SecondsPerDay + n.sec - s
        late    == 1000000 * (1000 * seconds + n.millis) - nano
    IN n.millis \in 0..999 /\ seconds \in -1..1 /\ -500000 <= late /\ late <= 500000

(* The times the log writes are right, by date and by second.                *)
TimesRight ==
  DateIsRight /\ RowTimeIsNear
=============================================================================
