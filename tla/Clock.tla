------------------------------- MODULE Clock -------------------------------
(***************************************************************************)
(* The timestamps of receipts: seconds since the epoch of Unix, written as *)
(* a date of the Gregorian calendar and a time of day, and the calendar    *)
(* itself, as it is defined from one day to the next.                      *)
(***************************************************************************)
EXTENDS Integers

CONSTANTS
  Day,     \* days since the epoch to look at
  Second   \* seconds since the epoch to look at

ASSUME ClockAssumption == Day \subseteq Int /\ Second \subseteq Int

\* Faulty Yoe: the first of the four corrections is forgotten.
YoeShort(doe) == (doe + doe \div 36524 - doe \div 146096) \div 365

\* The year of the 400 a day is in, both counted from a first of March.
Yoe(doe) == (doe - doe \div 1460 + doe \div 36524 - doe \div 146096) \div 365

\* days_to_ymd: the divisions of the signed counts are Euclidean.
DaysToYmd(days) ==
  LET z   == days + 719468
      era == z \div 146097
      doe == z % 146097
      yoe == Yoe(doe)
      doy == doe - (365 * yoe + yoe \div 4 - yoe \div 100)
      mp  == (5 * doy + 2) \div 153
      month == IF mp < 10 THEN mp + 3 ELSE mp - 9
  IN [year  |-> yoe + era * 400 + (IF month <= 2 THEN 1 ELSE 0),
      month |-> month,
      day   |-> doy - (153 * mp + 2) \div 5 + 1]

\* format_iso8601_seconds
Timestamp(secs) ==
  LET tod == secs % 86400 IN
    [date |-> DaysToYmd(secs \div 86400),
     hour |-> tod \div 3600, minute |-> (tod \div 60) % 60, second |-> tod % 60]

\* now_iso8601 of the SystemClock, whose clock may be set before the epoch.
NowIso8601(secs) == Timestamp(IF secs < 0 THEN 0 ELSE secs)

-----------------------------------------------------------------------------
(* The calendar.                                                           *)

IsLeap(y) == (y % 4 = 0 /\ y % 100 # 0) \/ y % 400 = 0

DaysIn(y, m) ==
  CASE m = 2 -> IF IsLeap(y) THEN 29 ELSE 28
    [] m \in {4, 6, 9, 11} -> 30
    [] OTHER -> 31

NextDay(date) ==
  IF date.day < DaysIn(date.year, date.month) THEN [date EXCEPT !.day = @ + 1]
  ELSE IF date.month < 12 THEN [year |-> date.year, month |-> date.month + 1, day |-> 1]
  ELSE [year |-> date.year + 1, month |-> 1, day |-> 1]

NextSecond(t) ==
  IF t.second < 59 THEN [t EXCEPT !.second = @ + 1]
  ELSE IF t.minute < 59 THEN [date |-> t.date, hour |-> t.hour, minute |-> t.minute + 1, second |-> 0]
  ELSE IF t.hour < 23 THEN [date |-> t.date, hour |-> t.hour + 1, minute |-> 0, second |-> 0]
  ELSE [date |-> NextDay(t.date), hour |-> 0, minute |-> 0, second |-> 0]

Epoch == [date |-> [year |-> 1970, month |-> 1, day |-> 1], hour |-> 0, minute |-> 0, second |-> 0]

\* The count starts where the calendar does, and goes on as it does.
CalendarKept ==
  /\ NowIso8601(0) = Epoch
  /\ \A d \in Day : DaysToYmd(d + 1) = NextDay(DaysToYmd(d))
  /\ \A s \in Second : Timestamp(s + 1) = NextSecond(Timestamp(s))
=============================================================================
