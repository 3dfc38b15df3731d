------------------------------ MODULE Calendar ------------------------------
(***************************************************************************)
(* The calendar of src/src/utils/date.h, with which log lines are dated:   *)
(* conversion between day numbers and dates, weekdays, arithmetic on       *)
(* months and years, rounding of time points and the time of day.          *)
(*                                                                         *)
(* A day is counted from 1970-01-01.  Day, month, weekday and year are the *)
(* numbers that the library's classes wrap; a comparison of such a class   *)
(* is a comparison of the numbers.  A year is a short, a day an unsigned   *)
(* char: both wrap.  The state machine is the reference: it goes from one  *)
(* day to the next the way a calendar is read, and every conversion is     *)
(* compared with it.                                                       *)
(***************************************************************************)
EXTENDS Integers, Sequences, FiniteSetsExt

CONSTANTS
  FirstDays,  \* where a walk may start: [z |-> day number, date |-> date, wd |-> weekday]
  Window,     \* bound: days of a walk
  Months,     \* numbers of months that are added to a date
  Times,      \* seconds of the day at which time points are taken
  MaxTimeDay  \* bound: time points are taken this many days around the epoch

VARIABLES
  z,         \* the day, counted from the epoch
  date,      \* its date: year, month, day
  wd,        \* its weekday, Sunday is 0
  days_left  \* days the walk still has, or -1: no day is looked at

calVars == <<z, date, wd, days_left>>

Ym(y, m) == [y |-> y, m |-> m]
Md(m, d) == [m |-> m, d |-> d]
Ymd(y, m, d) == [y |-> y, m |-> m, d |-> d]

\* Division as in C++: towards zero, also for a negative dividend.
Quot(a, n) == IF a >= 0 THEN a \div n ELSE -((-a) \div n)
Rem(a, n) == a - n * Quot(a, n)

\* Division downwards, as the library writes it where the dividend may be negative.
Div(a, n) == Quot(IF a >= 0 THEN a ELSE a - (n - 1), n)

\* The members are a short and an unsigned char.
MinYear == -32768
MaxYear == 32767
Short(n) == ((n - MinYear) % 65536) + MinYear
Byte(n) == n % 256

-----------------------------------------------------------------------------
(* Years, months, days. *)

IsLeap(y) == Rem(y, 4) = 0 /\ (Rem(y, 100) # 0 \/ Rem(y, 400) = 0)

LastDay(y, m) ==
  IF m # 2 \/ ~IsLeap(y) THEN <<31, 28, 31, 30, 31, 30, 31, 31, 30, 31, 30, 31>>[m] ELSE 29

\* month_day::ok: some year has this day.
MonthDayOk(md) ==
  /\ md.m \in 1 .. 12
  /\ 1 <= md.d /\ md.d <= <<31, 29, 31, 30, 31, 30, 31, 31, 30, 31, 30, 31>>[md.m]

YmdOk(x) == x.m \in 1 .. 12 /\ 1 <= x.d /\ x.d <= LastDay(x.y, x.m)

DayLess(x, y) == x < y
MonthLess(x, y) == x < y
YearLess(x, y) == x < y

NextMonth(m) == IF m + 1 = 13 THEN 1 ELSE m + 1
PreviousMonth(m) == IF m - 1 = 0 THEN 12 ELSE m - 1

DayPlus(d, n) == Byte(d + n)
YearPlus(y, n) == Short(y + n)
YearMinus(y, n) == Short(y - n)

MonthPlus(m, n) == LET mu == m - 1 + n
                       yr == Div(mu, 12)
                   IN  mu - yr * 12 + 1

\* The difference of two months is unsigned: it counts forwards.
MonthMinus(x, y) == IF x >= y THEN x - y ELSE x - y + 12

YearMonthPlus(ym, n) ==
  LET dmi == ym.m - 1 + n
      dy == Div(dmi, 12)
  IN  Ym(YearPlus(ym.y, dy), dmi - dy * 12 + 1)

YearMonthPlusYears(ym, n) == [ym EXCEPT !.y = YearPlus(@, n)]
YearMonthMinus(x, y) == 12 * (x.y - y.y) + (x.m - y.m)

YearMonthLess(x, y) == YearLess(x.y, y.y) \/ (x.y = y.y /\ MonthLess(x.m, y.m))
MonthDayLess(x, y) == MonthLess(x.m, y.m) \/ (x.m = y.m /\ DayLess(x.d, y.d))
YmdLess(x, y) ==
  \/ YearLess(x.y, y.y)
  \/ x.y = y.y /\ (MonthLess(x.m, y.m) \/ (x.m = y.m /\ DayLess(x.d, y.d)))

\* The day is kept, so that the date may not exist.
YmdPlusMonths(x, n) == LET ym == YearMonthPlus(Ym(x.y, x.m), n)
                       IN  Ymd(ym.y, ym.m, x.d)
YmdPlusYears(x, n) == Ymd(YearPlus(x.y, n), x.m, x.d)

\* The days of 400 years; the days from the first of March of year 0 to the epoch.
EraDays == 146097
Epoch == 719468

\* The year counted from March; the day of such a year, and of an era of 400 of them.
MarchYear(y, m) == IF m <= 2 THEN y - 1 ELSE y
DayOfYear(m, d) == (153 * (IF m > 2 THEN m - 3 ELSE m + 9) + 2) \div 5 + d - 1
DayOfEra(yoe, doy) == yoe * 365 + yoe \div 4 - yoe \div 100 + doy
YearOfEra(doe) == (doe - doe \div 1460 + doe \div 36524 - doe \div 146096) \div 365

\* year_month_day::to_days.
ToDays(x) ==
  LET y == MarchYear(x.y, x.m)
      era == Div(y, 400)
  IN  era * EraDays + DayOfEra(y - era * 400, DayOfYear(x.m, x.d)) - Epoch

\* The date of a day of a year counted from March, mp months after March.
CivilMonth(mp) == IF mp < 10 THEN mp + 3 ELSE mp - 9
CivilYear(y, m) == IF m <= 2 THEN y + 1 ELSE y

DateOf(y, doy) ==
  LET mp == (5 * doy + 2) \div 153
      m == CivilMonth(mp)
  IN  Ymd(Short(CivilYear(y, m)), m, Byte(doy - (153 * mp + 2) \div 5 + 1))

\* As FromDays, but the era of a day before year 0 is rounded towards zero.
FromDaysTruncatesEra(n) ==
  LET era == Quot(n + Epoch, EraDays)
      doe == (n + Epoch) - era * EraDays
      yoe == YearOfEra(doe)
  IN  DateOf(yoe + era * 400, doe - DayOfEra(yoe, 0))

\* year_month_day::from_days.
FromDays(n) ==
  LET era == Div(n + Epoch, EraDays)
      doe == (n + Epoch) - era * EraDays
      yoe == YearOfEra(doe)
  IN  DateOf(yoe + era * 400, doe - DayOfEra(yoe, 0))

\* year_month_day_last: the last day of a month.
Ymdl(ym) == Ym(ym.y, ym.m)
YmdlToDays(x) == ToDays(Ymd(x.y, x.m, LastDay(x.y, x.m)))
YmdlPlusMonths(x, n) == Ymdl(YearMonthPlus(Ym(x.y, x.m), n))
YmdlPlusYears(x, n) == Ymdl(Ym(YearPlus(x.y, n), x.m))
YmdlLess(x, y) == YearLess(x.y, y.y) \/ (x.y = y.y /\ MonthLess(x.m, y.m))

-----------------------------------------------------------------------------
(* Weekdays. *)

WeekdayFromDays(n) == IF n >= -4 THEN Rem(n + 4, 7) ELSE Rem(n + 5, 7) + 6

NextWeekday(w) == IF w + 1 = 7 THEN 0 ELSE w + 1
PreviousWeekday(w) == IF w = 0 THEN 6 ELSE w - 1

WeekdayPlus(w, n) == LET wdu == w + n
                         wk == Div(wdu, 7)
                     IN  wdu - wk * 7

\* Days until weekday x, from weekday y on.
WeekdayMinus(x, y) == IF x >= y THEN x - y ELSE x - y + 7

\* year_month_weekday: the index-th weekday wd of a month.
Ymw(y, m, w, index) == [y |-> y, m |-> m, wd |-> w, index |-> index]

YmwFromDays(n) == LET x == FromDays(n)
                  IN  Ymw(x.y, x.m, WeekdayFromDays(n), (x.d - 1) \div 7 + 1)

YmwToDays(x) ==
  LET first == ToDays(Ymd(x.y, x.m, 1))
  IN  first + WeekdayMinus(x.wd, WeekdayFromDays(first)) + (x.index - 1) * 7

YmwOk(x) ==
  /\ x.m \in 1 .. 12 /\ x.wd \in 0 .. 6 /\ x.index >= 1
  /\ \/ x.index <= 4
     \/ LET first == WeekdayFromDays(ToDays(Ymd(x.y, x.m, 1)))
        IN  WeekdayMinus(x.wd, first) + (x.index - 1) * 7 + 1 <= LastDay(x.y, x.m)

YmwPlusMonths(x, n) == LET ym == YearMonthPlus(Ym(x.y, x.m), n)
                       IN  Ymw(ym.y, ym.m, x.wd, x.index)
YmwPlusYears(x, n) == Ymw(YearPlus(x.y, n), x.m, x.wd, x.index)

\* year_month_weekday_last: the last weekday w of a month.
Ymwl(y, m, w) == [y |-> y, m |-> m, wd |-> w]
YmwlOk(x) == x.m \in 1 .. 12 /\ x.wd \in 0 .. 6

YmwlToDays(x) == LET last == YmdlToDays(Ymdl(x))
                 IN  last - WeekdayMinus(WeekdayFromDays(last), x.wd)

YmwlPlusMonths(x, n) == LET ym == YearMonthPlus(Ym(x.y, x.m), n) IN Ymwl(ym.y, ym.m, x.wd)
YmwlPlusYears(x, n) == Ymwl(YearPlus(x.y, n), x.m, x.wd)

-----------------------------------------------------------------------------
(* Time points and the time of day. *)

Day == 24 * 3600

Trunc(t, unit) == Quot(t, unit)

Floor(t, unit) == LET q == Trunc(t, unit) IN IF q * unit > t THEN q - 1 ELSE q
Ceil(t, unit) == LET q == Trunc(t, unit) IN IF q * unit < t THEN q + 1 ELSE q

\* To the nearest, to the even one when there are two.
Round(t, unit) ==
  LET t0 == Floor(t, unit)
      t1 == t0 + 1
      diff0 == t - t0 * unit
      diff1 == t1 * unit - t
  IN  IF diff0 = diff1 THEN (IF t0 - Quot(t0, 2) * 2 = 0 THEN t0 ELSE t1)
      ELSE IF diff0 < diff1 THEN t0 ELSE t1

Abs(t) == IF t >= 0 THEN t ELSE -t

\* time_of_day: the four storages differ in the smallest unit they keep.
Clock(h, m, s, ms) == [h |-> h, m |-> m, s |-> s, ms |-> ms, mode |-> "24"]

MakeHour(t) == Clock(t, 0, 0, 0)
MakeMinute(t) == LET h == Quot(t, 60) IN Clock(h, t - h * 60, 0, 0)
MakeSecond(t) == LET h == Quot(t, 3600)
                     m == Quot(t - h * 3600, 60)
                 IN  Clock(h, m, t - h * 3600 - m * 60, 0)
MakeSubsecond(t) == LET x == MakeSecond(Quot(t, 1000))
                    IN  [x EXCEPT !.ms = Rem(t, 1000)]

To24hr(x) ==
  CASE x.mode = "pm" /\ x.h # 12 -> x.h + 12
    [] x.mode = "am" /\ x.h = 12 -> 0
    [] OTHER -> x.h

SetHour(x, h, mode) == [h |-> h, m |-> x.m, s |-> x.s, ms |-> x.ms, mode |-> mode]

Make24(x) == SetHour(x, To24hr(x), "24")

Make12(x) ==
  IF x.mode # "24" THEN x
  ELSE IF x.h >= 12 THEN SetHour(x, IF x.h > 12 THEN x.h - 12 ELSE x.h, "pm")
  ELSE SetHour(x, IF x.h = 0 THEN 12 ELSE x.h, "am")

HourToDuration(x) == To24hr(x)
MinuteToDuration(x) == To24hr(x) * 60 + x.m
SecondToDuration(x) == (To24hr(x) * 60 + x.m) * 60 + x.s
SubsecondToDuration(x) == SecondToDuration(x) * 1000 + x.ms

-----------------------------------------------------------------------------
(* Output.  A text is the sequence of its character codes. *)

Dash == <<45>>
Colon == <<58>>

\* A number that is not negative, filled with zeros to a width.
Padded(n, width) ==
  LET digits == Min({k \in width .. 9 : n < 10 ^ k})
  IN  [i \in 1 .. digits |-> 48 + ((n \div (10 ^ (digits - i))) % 10)]

Sign(t) == IF t < 0 THEN Dash ELSE <<>>

PrintDay(d) == Padded(d, 2)
PrintYear(y) == Sign(y) \o Padded(Abs(y), 4)
PrintYmd(x) == PrintYear(x.y) \o Dash \o Padded(x.m, 2) \o Dash \o PrintDay(x.d)

\* Three letters for a month or a weekday; the letters are left as one code.
PrintMonth(m) == <<<<"Jan", "Feb", "Mar", "Apr", "May", "Jun",
                     "Jul", "Aug", "Sep", "Oct", "Nov", "Dec">>[m]>>
PrintWeekday(w) == <<<<"Sun", "Mon", "Tue", "Wed", "Thu", "Fri", "Sat">>[w + 1]>>
PrintYmw(x) == <<PrintYear(x.y), PrintMonth(x.m), PrintWeekday(x.wd), Padded(x.index, 1)>>

\* Hours are filled on the 24 hour clock only.
PrintHours(x) == Padded(Abs(x.h), IF x.mode = "24" THEN 2 ELSE 1)
PrintMode(x) == CASE x.mode = "am" -> <<97, 109>>
                  [] x.mode = "pm" -> <<112, 109>>
                  [] OTHER -> <<>>

PrintHour(x) == PrintHours(x) \o (IF x.mode = "24" THEN <<48, 48>> ELSE PrintMode(x))
PrintMinute(x) == Sign(MinuteToDuration(x)) \o PrintHours(x) \o Colon
                    \o Padded(Abs(x.m), 2) \o PrintMode(x)
PrintSecond(x) == Sign(SecondToDuration(x)) \o PrintHours(x) \o Colon
                    \o Padded(Abs(x.m), 2) \o Colon \o Padded(Abs(x.s), 2) \o PrintMode(x)
PrintSubsecond(x) == Sign(SubsecondToDuration(x)) \o PrintHours(x) \o Colon
                       \o Padded(Abs(x.m), 2) \o Colon \o Padded(Abs(x.s), 2) \o <<46>>
                       \o Padded(Abs(x.ms), 3) \o PrintMode(x)

\* A time point in seconds.
PrintTime(t) ==
  LET dp == Floor(t, Day)
  IN  PrintYmd(FromDays(dp)) \o <<32>> \o PrintSecond(MakeSecond(t - dp * Day))

-----------------------------------------------------------------------------
(* The reference: a calendar is read one day after the other. *)

\* 30 days hath September...
MonthLength(y, m) ==
  IF m \in {4, 6, 9, 11} THEN 30
  ELSE IF m # 2 THEN 31
  ELSE IF \/ \E k \in {4 * (y \div 4)} : k = y /\ 100 * (y \div 100) # y
          \/ 400 * (y \div 400) = y
       THEN 29 ELSE 28

\* A year is a short: the day before the first day of a walk, and its last day, have one.
ASSUME CalendarAssumption ==
  /\ Window \in Nat /\ MaxTimeDay \in Nat /\ Months \subseteq Int /\ Times \subseteq 0 .. Day - 1
  /\ \A f \in FirstDays :
       /\ f.date = Ymd(f.date.y, f.date.m, f.date.d) /\ f.date.y \in Int /\ f.date.d \in Int
       /\ YmdOk(f.date) /\ f.z = ToDays(f.date) /\ f.wd = WeekdayFromDays(f.z)
       /\ f.z > ToDays(Ymd(MinYear, 1, 1)) /\ f.z + Window <= ToDays(Ymd(MaxYear, 12, 31))

CalInit == \E f \in FirstDays : z = f.z /\ date = f.date /\ wd = f.wd /\ days_left = Window

Tomorrow ==
  /\ days_left > 0 /\ days_left' = days_left - 1
  /\ z' = z + 1
  /\ wd' = (wd + 1) % 7
  /\ date' = IF date.d < MonthLength(date.y, date.m) THEN [date EXCEPT !.d = @ + 1]
             ELSE IF date.m < 12 THEN Ymd(date.y, date.m + 1, 1)
             ELSE Ymd(date.y + 1, 1, 1)

CalNext == Tomorrow
CalSpec == CalInit /\ [][CalNext]_calVars

-----------------------------------------------------------------------------
(* Properties. *)

CalTypeOK == z \in Int /\ YmdOk(date) /\ wd \in 0 .. 6 /\ days_left \in -1 .. Window

Looking == days_left >= 0

(***************************************************************************)
(* The closed formulas of from_days, to_days and weekday_from_days agree   *)
(* with the calendar, before the epoch and before year 0 too, and a day    *)
(* can be named by its weekday in the month as well as by its number.      *)
(***************************************************************************)
DatesAgree ==
  Looking =>
  /\ CalTypeOK
  /\ FromDays(z) = date /\ ToDays(date) = z
  /\ MonthDayOk(Md(date.m, date.d)) /\ DayPlus(date.d, -1) = date.d - 1
  /\ WeekdayFromDays(z) = wd
  /\ \A n \in Months : /\ WeekdayPlus(wd, n) = WeekdayFromDays(z + n)
                       /\ WeekdayMinus(WeekdayFromDays(z + n), wd) = n % 7
  /\ NextWeekday(wd) = WeekdayPlus(wd, 1) /\ PreviousWeekday(wd) = WeekdayPlus(wd, -1)
  /\ YmwOk(YmwFromDays(z)) /\ YmwToDays(YmwFromDays(z)) = z
  /\ YmdLess(FromDays(z - 1), date) /\ ~YmdLess(date, FromDays(z - 1))
  /\ LET x == FromDays(z - 1)
     IN  date.y = x.y => MonthDayLess(Md(x.m, x.d), Md(date.m, date.d))

\* The year of the month n months after ym is a short.
YearFits(ym, n) == ym.y + (ym.m - 1 + n) \div 12 \in MinYear .. MaxYear

(***************************************************************************)
(* Adding months can be undone and agrees with the difference of two       *)
(* months, in both directions and across years; the last day and the last  *)
(* weekday of a month are where the calendar has them.                     *)
(***************************************************************************)
MonthsAgree ==
  Looking =>
  LET ym == Ym(date.y, date.m)
  IN  /\ \A n \in Months :
           LET to == YearMonthPlus(ym, n)
           IN  /\ to.m \in 1 .. 12 /\ to.m = MonthPlus(ym.m, n)
               /\ MonthPlus(NextMonth(ym.m), n) = NextMonth(to.m)
               /\ PreviousMonth(NextMonth(to.m)) = to.m
               /\ MonthMinus(to.m, ym.m) = n % 12
               /\ YearMonthPlus(to, -n) = ym
               /\ YmdPlusMonths(YmdPlusMonths(date, n), -n) = date
               /\ YmwPlusMonths(YmwPlusMonths(YmwFromDays(z), n), -n) = YmwFromDays(z)
               /\ YearMinus(YearPlus(date.y, n), n) = date.y
               /\ YmdPlusYears(date, n) = YmdPlusMonths(date, 12 * n)
               /\ YmwPlusYears(YmwFromDays(z), n) = YmwPlusMonths(YmwFromDays(z), 12 * n)
               /\ YmdlPlusYears(Ymdl(ym), n) = Ymdl(YearMonthPlusYears(ym, n))
               /\ YmwlPlusYears(Ymwl(ym.y, ym.m, wd), n)
                    = YmwlPlusMonths(Ymwl(ym.y, ym.m, wd), 12 * n)
               /\ YearMonthPlusYears(ym, n) = YearMonthPlus(ym, 12 * n)
               /\ YearFits(ym, n) =>
                    /\ YearMonthMinus(to, ym) = n
                    /\ (n > 0) = YearMonthLess(ym, to) /\ (n > 0) = YmdlLess(Ymdl(ym), Ymdl(to))
                    /\ LET x == YmwlPlusMonths(Ymwl(ym.y, ym.m, wd), n)
                       IN  YmwlOk(x) /\ YmdlToDays(Ymdl(to)) - YmwlToDays(x) \in 0 .. 6
               /\ YearFits(ym, n) /\ YearFits(ym, n + 1) =>
                    YmdlToDays(YmdlPlusMonths(Ymdl(ym), n))
                      = ToDays(YmdPlusMonths([date EXCEPT !.d = 1], n + 1)) - 1
      /\ YmdlToDays(Ymdl(ym)) = z + LastDay(date.y, date.m) - date.d
      /\ YmwlToDays(Ymwl(ym.y, ym.m, wd))
           = Max({k \in z .. YmdlToDays(Ymdl(ym)) : (k - z) % 7 = 0})

(***************************************************************************)
(* A time point splits into a day and a time of that day, and they make up *)
(* the time point again, before the epoch too; the 12 hour clock loses     *)
(* nothing; rounding goes to the nearest day, and to the even of two.      *)
(***************************************************************************)
TimesAgree ==
  Looking /\ z \in -MaxTimeDay .. MaxTimeDay => \A t \in Times :
    LET p == z * Day + t
        x == MakeSecond(p - Floor(p, Day) * Day)
        h == MakeHour(t \div 3600)
        m == MakeMinute(t \div 60)
        ms == MakeSubsecond(t * 1000 + (t % 1000))
    IN  /\ Floor(p, Day) = z /\ SecondToDuration(x) = t
        /\ x.h \in 0 .. 23 /\ x.m \in 0 .. 59 /\ x.s \in 0 .. 59
        /\ \A c \in {h, m, x, ms} : Make12(c).h \in 1 .. 12 /\ Make24(Make12(c)) = c
        /\ SecondToDuration(Make12(x)) = t
        /\ HourToDuration(Make12(h)) = t \div 3600 /\ MinuteToDuration(Make12(m)) = t \div 60
        /\ SubsecondToDuration(Make12(ms)) = t * 1000 + (t % 1000)
        /\ Ceil(p, Day) = (IF t = 0 THEN z ELSE z + 1)
        /\ Round(p, Day) = CASE 2 * t < Day -> z
                             [] 2 * t > Day -> z + 1
                             [] OTHER -> IF z % 2 = 0 THEN z ELSE z + 1

Before(s, t) == \E i \in DOMAIN s \cap DOMAIN t :
                  s[i] < t[i] /\ SubSeq(s, 1, i - 1) = SubSeq(t, 1, i - 1)

(***************************************************************************)
(* Printed time points sort as the time points do; a negative duration is  *)
(* printed as its absolute value with a sign, a shorter form is the begin  *)
(* of a longer one, and a weekday in a month is printed as no other.       *)
(***************************************************************************)
TextsSort ==
  Looking =>
  /\ \A k \in {1, 7, 28, 35} : PrintYmw(YmwFromDays(z - k)) # PrintYmw(YmwFromDays(z))
  /\ z \in -MaxTimeDay .. MaxTimeDay => \A t \in Times :
       LET p == z * Day + t
           x == MakeSecond(t)
           h == MakeHour(t \div 3600)
           m == MakeMinute(t \div 60)
           ms == MakeSubsecond(t * 1000 + (t % 1000))
       IN  /\ t # 0 => /\ PrintSecond(MakeSecond(-t)) = Dash \o PrintSecond(x)
                       /\ PrintSubsecond(MakeSubsecond(-t))
                            = Dash \o PrintSubsecond(MakeSubsecond(t))
           /\ PrintMinute(m) = SubSeq(PrintSecond(x), 1, 5) /\ PrintSecond(ms) = PrintSecond(x)
           /\ PrintHour(h) = SubSeq(PrintMinute(m), 1, 2) \o <<48, 48>>
           /\ \A u \in Times : /\ Before(PrintTime(p), PrintTime(z * Day + u)) = (t < u)
                               /\ Before(PrintTime(p - Day), PrintTime(z * Day + u))
                               /\ PrintHour(Make12(h)) = PrintHour(Make12(MakeHour(u \div 3600)))
                                    => h.h = u \div 3600

(***************************************************************************)
(* The arithmetic of date.h is that of the calendar, on every day walked.  *)
(***************************************************************************)
CalendarAgrees == DatesAgree /\ MonthsAgree /\ TimesAgree
=============================================================================
