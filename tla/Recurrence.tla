----------------------------- MODULE Recurrence -----------------------------
(***************************************************************************)
(* core/scheduler.py, next_occurrence: when a recurring reminder comes     *)
(* next.  Time is counted in slots, a day being SlotsPerDay of them; slot  *)
(* 0 is midnight of day 0 in local winter time.  A moment is a UTC slot,   *)
(* a local time is what a zoneinfo datetime is: a wall-clock reading and   *)
(* the fold that tells the two passes of a repeated hour apart.            *)
(***************************************************************************)
EXTENDS Integers, Sequences

CONSTANTS
    SlotsPerDay,
    Shift,               \* what summer time adds
    Forward, Back,       \* the moments at which summer time begins and ends
    MonthStart,          \* the first day of each month, from the month of day 0
    FirstWeekday         \* the weekday of day 0, Monday being 0

ASSUME RecurrenceAssumption ==
    /\ SlotsPerDay \in Nat \ {0}
    /\ Shift \in 0 .. SlotsPerDay - 1
    /\ Forward \in Int /\ Back \in Int /\ Forward + 2 * Shift <= Back /\ Shift <= Back
    /\ MonthStart \in Seq(Nat) /\ MonthStart # <<>> /\ MonthStart[1] = 0
    /\ \A m, n \in 1 .. Len(MonthStart) :
          m < n => MonthStart[n] - MonthStart[m] \in 28 * (n - m) .. 31 * (n - m)
    /\ FirstWeekday \in 0 .. 6

NoTime == -1             \* None

(* What a row says beside next_run_at: schedule_kind, interval_seconds (in     *)
(* slots; 0 for NULL, except that a NULL interval is written as the hour it    *)
(* stands for), weekdays ({} for NULL), day_of_month (0 for NULL).             *)
Rule(kind, step, weekdays, day) ==
    [kind |-> kind, step |-> step, weekdays |-> weekdays, day |-> day]

Kinds == {"one_time", "daily", "weekly", "monthly", "interval"}

Schedules ==
    {rule \in [kind : Kinds, step : Int, weekdays : SUBSET (0 .. 6), day : 0 .. 31] :
        rule.kind = "interval" => rule.step # 0}

-----------------------------------------------------------------------------
(* Local time, as zoneinfo and PEP 495 have it. *)

Repeated(wall) == Back <= wall /\ wall < Back + Shift

Skipped(wall) == Forward <= wall /\ wall < Forward + Shift

Local(u) ==
    [wall |-> IF Forward <= u /\ u < Back THEN u + Shift ELSE u,
     fold |-> IF Repeated(u) THEN 1 ELSE 0]

IsSummer(l) ==
    \/ Forward + Shift <= l.wall /\ l.wall < Back
    \/ Repeated(l.wall) /\ l.fold = 0
    \/ Skipped(l.wall) /\ l.fold = 1

Utc(l) == IF IsSummer(l) THEN l.wall - Shift ELSE l.wall

(* datetime + timedelta: a reading of the same clock, the first of its kind. *)
Plus(l, slots) == [wall |-> l.wall + slots, fold |-> 0]

DayOf(wall) == wall \div SlotsPerDay
ClockOf(wall) == wall % SlotsPerDay
WeekdayOf(wall) == (DayOf(wall) + FirstWeekday) % 7

(* _apply_time: replace keeps the fold. *)
ApplyTime(l, clock) == [l EXCEPT !.wall = DayOf(l.wall) * SlotsPerDay + clock]

-----------------------------------------------------------------------------
(* The calendar. *)

(* The last month is only there to end the one before. *)
IsIn(day, m) == MonthStart[m] <= day /\ day < MonthStart[m + 1]

MonthOf(day) == CHOOSE m \in 1 .. Len(MonthStart) - 1 : IsIn(day, m)

MonthDays(m) == MonthStart[m + 1] - MonthStart[m]

DayOfMonth(day) == day - MonthStart[MonthOf(day)] + 1

OnDay(l, month, day) ==
    [l EXCEPT !.wall = (MonthStart[month] + day - 1) * SlotsPerDay + ClockOf(l.wall)]

SmallerOf(a, b) == IF a < b THEN a ELSE b

(* _add_months *)
AddMonths(l, months) ==
    LET month == MonthOf(DayOf(l.wall)) + months
    IN OnDay(l, month, SmallerOf(DayOfMonth(DayOf(l.wall)), MonthDays(month)))

-----------------------------------------------------------------------------
(* The loop "while target <= reference: target += step".  Two datetimes of *)
(* one zone are compared by their wall clocks.                             *)
Beyond(target, reference, step) ==
    IF target.wall > reference.wall THEN target
    ELSE Plus(target, step * ((reference.wall - target.wall) \div step + 1))

(* Mutated form: days of equal length are added. *)
NextDailyElapsed(rule, previous, reference) ==
    LET late == Utc(reference) - Utc(previous)
    IN Local(Utc(previous) + SlotsPerDay * (late \div SlotsPerDay + 1))

NextDaily(rule, previous, reference) ==
    LET days == rule.step \div SlotsPerDay
    IN Beyond(ApplyTime(reference, ClockOf(previous.wall)), reference,
              SlotsPerDay * (IF days > 1 THEN days ELSE 1))

(* _next_weekday *)
NextWeekday(reference, weekday, clock) ==
    LET target == ApplyTime(reference, clock)
        ahead == (weekday - WeekdayOf(reference.wall)) % 7
    IN Plus(target, SlotsPerDay *
                    (IF ahead = 0 /\ target.wall <= reference.wall THEN 7 ELSE ahead))

NextWeekly(rule, previous, reference) ==
    LET weekdays == IF rule.weekdays = {} THEN {WeekdayOf(previous.wall)} ELSE rule.weekdays
        candidates == {NextWeekday(reference, w, ClockOf(previous.wall)) : w \in weekdays}
    IN CHOOSE c \in candidates : \A d \in candidates : c.wall <= d.wall

(* The target is always in the month after the reference's, so the loop that *)
(* ends this branch is never entered.                                        *)
NextMonthly(rule, previous, reference) ==
    LET day == IF rule.day # 0 THEN rule.day ELSE DayOfMonth(DayOf(previous.wall))
        target == AddMonths(ApplyTime(reference, ClockOf(previous.wall)), 1)
    IN OnDay(target, MonthOf(DayOf(target.wall)), SmallerOf(day, 28))

NextInterval(rule, previous, reference) == Beyond(previous, reference, rule.step)

(* An interval below zero counts backwards until the date is out of range. *)
Raises(rule) == rule.kind = "interval" /\ rule.step < 0

(* next_occurrence of a row whose next_run_at is the moment previous. *)
NextOccurrence(rule, previous, after) ==
    LET from == Local(previous)
        reference == Local(after)
    IN CASE rule.kind = "one_time" -> NoTime
         [] rule.kind = "daily" -> Utc(NextDaily(rule, from, reference))
         [] rule.kind = "weekly" -> Utc(NextWeekly(rule, from, reference))
         [] rule.kind = "monthly" -> Utc(NextMonthly(rule, from, reference))
         [] rule.kind = "interval" -> Utc(NextInterval(rule, from, reference))
=============================================================================
