------------------------------- MODULE DueDates -------------------------------
(***************************************************************************)
(* The date a mail names as its deadline (extractDue of precision-         *)
(* classifier.js).  The expressions of time in its deadline clauses are    *)
(* facts of the mail; a date is counted in days from the day the mail      *)
(* came, and a month without a year is taken for thirty days long.         *)
(***************************************************************************)
EXTENDS Integers, Selections

WeekDays == <<"sunday", "monday", "tuesday", "wednesday", "thursday", "friday", "saturday">>
Sunday == 0
Friday == 5
NoDate == 9999

Due(days, precision, confidence) == [days |-> days, precision |-> precision, confidence |-> confidence]
NoDue == Due(NoDate, "none", 0)

(* A date without a year is of this year, unless it is over half a year     *)
(* back.                                                                    *)
YearsAhead(month, base) == IF month < base - 6 THEN 1 ELSE 0
MonthsAhead(month, base) == 12 * YearsAhead(month, base) + month - base

(* A day of the week is the next one of that name, today included; "next    *)
(* week" puts another week on top.                                          *)
DaysTo(weekday, today, nextWeek) == ((weekday - today) % 7) + (IF nextWeek THEN 7 ELSE 0)
DaysToFriday(today) == IF today > Friday THEN 0 ELSE Friday - today
DaysToNextMonday(today) == IF today = Sunday THEN 1 ELSE 8 - today

(* `came` is the weekday and the month the mail came; "clock" is a time of  *)
(* day beside the date, "isoDate" a full date so many days away and         *)
(* "monthDay" a day of the month came.named without a year.                 *)
extractDue(m, came) ==
    LET clock == "clock" \in m
        exact == IF clock THEN "exact" ELSE "date"
        near(days) == Due(days, "relative", IF clock THEN 90 ELSE 84)
        Named(i) == Rule(WeekDays[i] \in m,
                         Due(DaysTo(i - 1, came.weekday, "nextWeek" \in m), "relative", 78))
    IN FirstOf(
        <<Rule("isoDate" \in m, Due(came.away, exact, IF clock THEN 96 ELSE 92)),
          Rule("koreanDate" \in m,
               Due(30 * MonthsAhead(came.named, came.month), exact, IF clock THEN 96 ELSE 92)),
          Rule("monthDay" \in m,
               Due(30 * MonthsAhead(came.named, came.month), exact, IF clock THEN 90 ELSE 84)),
          Rule("today" \in m, near(0)),
          Rule("tomorrow" \in m, near(1)),
          Rule("dayAfter" \in m, near(2))>>
        \o [i \in 1..7 |-> Named(i)]
        \o <<Rule("thisWeek" \in m, Due(DaysToFriday(came.weekday), "relative", 68)),
             Rule("nextWeek" \in m, Due(DaysToNextMonday(came.weekday) + 4, "relative", 58)),
             Rule("soonest" \in m, Due(NoDate, "ambiguous", 45)),
             Rule(TRUE, NoDue)>>)
===============================================================================
