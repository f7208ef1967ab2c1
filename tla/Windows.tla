------------------------------- MODULE Windows -------------------------------
(***************************************************************************)
(* The time windows a limit can be about: Validate and GetWindowBounds.    *)
(*                                                                         *)
(* Time is counted in hours; a window runs from its start up to, but not   *)
(* including, its end.  Days have DayHours hours, weeks WeekDays days,     *)
(* months MonthDays days and years YearMonths months, so that a year is    *)
(* within a model checker's reach.  A time zone is its distance from UTC.  *)
(***************************************************************************)
EXTENDS Integers

CONSTANTS DayHours, WeekDays, MonthDays, YearMonths

ASSUME CalendarAssumption ==
    /\ DayHours \in Nat \ {0}
    /\ WeekDays \in Nat \ {0}
    /\ MonthDays \in Nat \ {0}
    /\ YearMonths \in Nat \ {0}

CalendarTypes == {"DAY", "WEEK", "MONTH", "YEAR"}

\* The duration of a window is 0 when the pointer in it is nil.
Window(type, duration, startDay, startHour, zone) ==
    [type |-> type, duration |-> duration, startDay |-> startDay,
     startHour |-> startHour, zone |-> zone]

\* The window of a row in which none was configured.
NoWindow == Window("", 0, 0, 0, 0)

IsNil(w) == w.type = ""

\* LimitWindow.Validate.
ValidWindow(w) ==
    \/ w.type = "ROLLING" /\ w.duration > 0
    \/ w.type = "LIFETIME"
    \/ /\ w.type \in CalendarTypes
       /\ w.startHour \in 0..(DayHours - 1)
       /\ w.type = "WEEK" => w.startDay \in 0..(WeekDays - 1)

-----------------------------------------------------------------------------
(* GetWindowBounds.                                                        *)

Midnight(t) == t - (t % DayHours)
Weekday(t) == (t \div DayHours) % WeekDays

Bounds(start, end) == [start |-> start, end |-> end]

\* Mutant: the hours before the start hour are not taken for yesterday's.
DayBoundsToday(w, now) ==
    LET start == Midnight(now + w.zone) + w.startHour - w.zone
    IN  Bounds(start, start + DayHours)

\* Before the start hour, the day is still yesterday's.
DayBounds(w, now) ==
    LET local == now + w.zone
        today == Midnight(local) + w.startHour - w.zone
        start == IF local % DayHours < w.startHour THEN today - DayHours ELSE today
    IN  Bounds(start, start + DayHours)

\* The day is found in the time zone of the window, but now.Truncate goes back to
\* midnight in UTC, whose date in the time zone is then used.
WeekBounds(w, now) ==
    LET daysToStart == (Weekday(now + w.zone) - w.startDay) % WeekDays
        startOfDay == Midnight(Midnight(now) + w.zone) - daysToStart * DayHours
        start == startOfDay + w.startHour - w.zone
    IN  Bounds(start, start + WeekDays * DayHours)

\* Months, and years of YearMonths months, begin on the hour of their first day.
SpanBounds(w, now, days) ==
    LET local == now + w.zone
        first == local - (local % (days * DayHours))
        start == first + w.startHour - w.zone
    IN  Bounds(start, start + days * DayHours)

\* Rolling and lifetime windows end now: the hour under way has been used so far.
GetWindowBounds(w, now) ==
    CASE w.type = "ROLLING" -> Bounds(now - w.duration, now + 1)
      [] w.type = "DAY" -> DayBounds(w, now)
      [] w.type = "WEEK" -> WeekBounds(w, now)
      [] w.type = "MONTH" -> SpanBounds(w, now, MonthDays)
      [] w.type = "YEAR" -> SpanBounds(w, now, MonthDays * YearMonths)
      [] w.type = "LIFETIME" -> Bounds(0, now + 1)
===============================================================================
