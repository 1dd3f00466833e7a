--------------------------- MODULE BackgroundProofs ---------------------------
(***************************************************************************)
(* What TLAPS proves about the components that work while nobody looks on: *)
(* TaskManager, for any tree of tasks and any requests; Recurrence and     *)
(* Scheduler, for any reminders, rules, calendar and clock changes; and    *)
(* Proactivity, for any messages.                                          *)
(***************************************************************************)
EXTENDS TaskManager, Scheduler, Tables, WellFoundedInduction, FiniteSetTheorems, TLAPS

-----------------------------------------------------------------------------
(* TaskManager. *)

(* The part of the types that is needed; the queue does not matter. *)
TaskShapes ==
    /\ status \in [Tasks -> Statuses]
    /\ work \in [Tasks -> WorkStates]
    /\ DOMAIN frames = Coroutines

(* A worker is inside a call of cancel only when it noticed its own event: *)
(* its way out of there, to "over", never begins between the statements of *)
(* start.                                                                  *)
CancelsAsCanceller == \A t \in Tasks : frames[t] # <<>> => work[t] = "cancelling"

TasksIInv == TaskShapes /\ CancelsAsCanceller /\ RunningIsReachable

-----------------------------------------------------------------------------
LEMMA TasksInitIInv == TasksInit => TasksIInv
BY DEF TasksInit, TasksIInv, TaskShapes, CancelsAsCanceller, RunningIsReachable, Statuses,
       WorkStates, Coroutines

(* How a step of cancel ends: for its own worker, or for nobody. *)
LEMMA RunOnKeeps ==
  ASSUME TasksIInv, NEW p \in Coroutines, NEW s, NEW h, frames[p] # <<>>, RunOn(p, s, h)
  PROVE  /\ DOMAIN frames' = Coroutines
         /\ work' \in [Tasks -> WorkStates]
         /\ \A t \in Tasks : t # p => frames'[t] = frames[t] /\ work'[t] = work[t]
         /\ p \in Tasks => /\ frames'[p] # <<>> => work'[p] = "cancelling"
                           /\ work[p] = "cancelling"
                           /\ work'[p] \in {"cancelling", "over"}
<1> USE DEF TasksIInv, TaskShapes, CancelsAsCanceller, Coroutines
<1>1. CASE UNCHANGED work /\ \E x : frames' = [frames EXCEPT ![p] = x]
  BY <1>1
<1>2. CASE /\ frames' = [frames EXCEPT ![p] = <<>>]
           /\ work' = IF p \in Tasks THEN [work EXCEPT ![p] = "over"] ELSE work
  BY <1>2 DEF WorkStates
<1> QED
  BY <1>1, <1>2 DEF RunOn

-----------------------------------------------------------------------------
(* One step per action: RUNNING is written with the handle still to come, and *)
(* a handle goes only with a status that is final.                            *)
LEMMA TasksIInvStep == TasksIInv /\ [TasksNext]_taskVars => TasksIInv'
<1> SUFFICES ASSUME TasksIInv, [TasksNext]_taskVars PROVE TasksIInv'
  OBVIOUS
<1> USE DEF TasksIInv, TaskShapes, CancelsAsCanceller, RunningIsReachable, Coroutines
<1>1. ASSUME NEW t \in Tasks, Create(t) PROVE TasksIInv'
  BY <1>1 DEF Create, WorkStates
<1>2. ASSUME NEW t \in Tasks, Inserted(t) PROVE TasksIInv'
  BY <1>2 DEF Inserted, WorkStates, Statuses
<1>3. ASSUME NEW t \in Tasks, Started(t) PROVE TasksIInv'
  BY <1>3 DEF Started, WorkStates, Statuses
<1>4. ASSUME NEW t \in Tasks, Loaded(t) PROVE TasksIInv'
  BY <1>4 DEF Loaded, WorkStates
<1>5. ASSUME NEW t \in Tasks, NEW next \in {"completing", "failing"}, WorkEnds(t, next)
      PROVE TasksIInv'
  BY <1>5 DEF WorkEnds, WorkStates
<1>6. ASSUME NEW t \in Tasks, Notice(t) PROVE TasksIInv'
  BY <1>6 DEF Notice, WorkStates
<1>7. ASSUME NEW t \in Tasks, Finish(t) PROVE TasksIInv'
  BY <1>7 DEF Finish, Release, WorkStates, Statuses, Terminal
<1>8. ASSUME NEW t \in Tasks, Abort(t) PROVE TasksIInv'
  <2>1. /\ work' \in [Tasks -> WorkStates] /\ DOMAIN frames' = Coroutines
        /\ CancelsAsCanceller'
    BY <1>8 DEF Abort, WorkStates
  <2>2. CASE UNCHANGED status
    BY <2>1, <2>2, <1>8 DEF Abort
  <2>3. ASSUME NEW w \in UnderWay(t), status' = [status EXCEPT ![w[1]] = w[2]] PROVE TasksIInv'
    <3>1. w[2] \in Statuses /\ (w[2] = "RUNNING" => w[1] = t)
      BY <2>3 DEF UnderWay, Statuses, Terminal
    <3> QED
      BY <2>1, <2>3, <3>1, <1>8 DEF Abort
  <2> QED
    BY <2>2, <2>3, <1>8 DEF Abort
<1>9. ASSUME NEW p \in Coroutines, Listed(p) \/ ReadFinal(p) PROVE TasksIInv'
  <2>1. frames[p] # <<>> /\ (\E s : RunOn(p, s, handle)) /\ UNCHANGED <<status, handle>>
    BY <1>9 DEF Listed, ReadFinal, InCancel
  <2> QED
    BY <2>1, RunOnKeeps
<1>10. ASSUME NEW p \in Coroutines, ReadUnfinished(p) PROVE TasksIInv'
  BY <1>10 DEF ReadUnfinished, InCancel
<1>11. ASSUME NEW p \in Coroutines, Marked(p) PROVE TasksIInv'
  <2> DEFINE t == Head(frames[p]).task
  <2>1. /\ frames[p] # <<>>
        /\ RunOn(p, Tail(frames[p]), handle \ {t})
        /\ status' = [status EXCEPT ![t] = "CANCELLED"]
        /\ handle' = handle \ {t}
    BY <1>11 DEF Marked, InCancel
  <2>2. status' \in [Tasks -> Statuses] /\ (t \in Tasks => status'[t] = "CANCELLED")
    BY <2>1 DEF Statuses, Terminal
  <2>3. \A q \in Tasks : q # t => status'[q] = status[q] /\ (q \in handle => q \in handle')
    BY <2>1
  <2> HIDE DEF t
  <2>4. /\ DOMAIN frames' = Coroutines
        /\ work' \in [Tasks -> WorkStates]
        /\ \A q \in Tasks : q # p => frames'[q] = frames[q] /\ work'[q] = work[q]
        /\ p \in Tasks => /\ frames'[p] # <<>> => work'[p] = "cancelling"
                          /\ work[p] = "cancelling"
    BY <2>1, RunOnKeeps
  <2>5. TaskShapes' /\ CancelsAsCanceller'
    BY <2>2, <2>4
  <2>6. RunningIsReachable'
    BY <2>2, <2>3, <2>4
  <2> QED
    BY <2>5, <2>6
<1>12. ASSUME NEW r \in Requests, NEW t \in Tasks, RequestCancel(r, t) PROVE TasksIInv'
  BY <1>12, TaskAssumption DEF RequestCancel
<1>13. ASSUME NEW r \in Requests, CancelAll(r) PROVE TasksIInv'
  BY <1>13, TaskAssumption DEF CancelAll
<1>14. CASE PressStop
  BY <1>14 DEF PressStop
<1>15. CASE LiftStop
  BY <1>15 DEF LiftStop
<1>16. CASE Crash
  BY <1>16 DEF Crash, CleanupStale, Statuses, Terminal, WorkStates
<1>17. CASE UNCHANGED taskVars
  BY <1>17 DEF taskVars
<1> QED
  BY <1>1, <1>2, <1>3, <1>4, <1>5, <1>6, <1>7, <1>8, <1>9, <1>10, <1>11, <1>12, <1>13, <1>14,
     <1>15, <1>16, <1>17
  DEF TasksNext, Worker, CancelStep

(* core/tasks.py, start, cancel, complete and cleanup_stale together: whatever *)
(* the tree and however many cancel it, a status that says RUNNING has a       *)
(* handle to cancel it by, or is between the statements of start, or was left  *)
(* behind by a client that went away.                                          *)
THEOREM RunningAlwaysReachable == TasksSpec => []RunningIsReachable
<1>1. TasksIInv => RunningIsReachable
  BY DEF TasksIInv
<1> QED
  BY <1>1, TasksInitIInv, TasksIInvStep, PTL DEF TasksSpec

-----------------------------------------------------------------------------
(* Recurrence: what next_occurrence answers lies after the moment it is asked. *)

(* A time that is announced must be later than the one announced before it,   *)
(* unless it is in the first pass of the repeated hour.                       *)
Fresh(time, before) == time > before \/ InFirstPass(time)

(* The answer to a call, which is late for no other call than one in the      *)
(* second pass.                                                               *)
Later(time, after) ==
    \/ time > after
    \/ Repeated(after) /\ time \in Back - Shift .. Back - 1

LEMMA LaterIsFresh ==
  ASSUME NEW time \in Int, NEW after \in Int, Later(time, after)
  PROVE  Fresh(time, after)
BY RecurrenceAssumption DEF Later, Fresh, InFirstPass, Local, Repeated

Readings == [wall : Int, fold : {0, 1}]

(* A reading later on the same clock, in the second pass only if that one is. *)
IsBeyond(l, reference) ==
    /\ l \in Readings
    /\ l.wall > reference.wall
    /\ l.fold = 1 => reference.fold = 1

LEMMA Division ==
  ASSUME NEW n \in Int, NEW d \in Nat \ {0}
  PROVE  /\ n \div d \in Int
         /\ n % d \in 0 .. d - 1
         /\ n = (n \div d) * d + (n % d)
OBVIOUS

LEMMA DivisionUnique ==
  ASSUME NEW q \in Int, NEW d \in Nat \ {0}, NEW c \in 0 .. d - 1
  PROVE  (q * d + c) \div d = q /\ (q * d + c) % d = c
OBVIOUS

LEMMA TimesMonotone ==
  ASSUME NEW a \in Int, NEW b \in Int, NEW d \in Nat, a <= b
  PROVE  a * d \in Int /\ b * d \in Int /\ a * d <= b * d
OBVIOUS

LEMMA SlotsPerDayType == SlotsPerDay \in Nat \ {0}
BY RecurrenceAssumption

LEMMA DaysAndClocks ==
  ASSUME NEW wall \in Int
  PROVE  /\ DayOf(wall) \in Int
         /\ ClockOf(wall) \in 0 .. SlotsPerDay - 1
         /\ wall = DayOf(wall) * SlotsPerDay + ClockOf(wall)
BY Division, SlotsPerDayType, Zenon DEF DayOf, ClockOf

LEMMA DayAndClock ==
  ASSUME NEW day \in Int, NEW clock \in 0 .. SlotsPerDay - 1
  PROVE  /\ day * SlotsPerDay + clock \in Int
         /\ DayOf(day * SlotsPerDay + clock) = day
         /\ ClockOf(day * SlotsPerDay + clock) = clock
<1>1. day * SlotsPerDay + clock \in Int
  BY SlotsPerDayType
<1> QED
  BY <1>1, DivisionUnique, SlotsPerDayType, Zenon DEF DayOf, ClockOf

(* A reading on a later day is a later reading. *)
LEMMA LaterDay ==
  ASSUME NEW day \in Int, NEW clock \in 0 .. SlotsPerDay - 1, NEW wall \in Int,
         DayOf(wall) < day
  PROVE  wall < day * SlotsPerDay + clock
<1> DEFINE d == DayOf(wall)
<1>1. /\ d \in Int
      /\ ClockOf(wall) \in 0 .. SlotsPerDay - 1
      /\ wall = d * SlotsPerDay + ClockOf(wall)
  BY DaysAndClocks, Zenon
<1>2. d + 1 \in Int /\ d + 1 <= day
  BY <1>1
<1> HIDE DEF d
<1>3. (d + 1) * SlotsPerDay <= day * SlotsPerDay
  BY <1>2, TimesMonotone, SlotsPerDayType, Zenon
<1>4. wall < (d + 1) * SlotsPerDay
  BY <1>1, SlotsPerDayType
<1> QED
  BY <1>1, <1>3, <1>4, SlotsPerDayType

LEMMA EarlierDay ==
  ASSUME NEW a \in Int, NEW b \in Int, a <= b, NEW day \in Int, DayOf(b) < day
  PROVE  DayOf(a) < day
<1>1. DayOf(a) \in Int /\ DayOf(b) \in Int /\ ClockOf(a) \in 0 .. SlotsPerDay - 1
  BY DaysAndClocks, Zenon
<1>2. a = DayOf(a) * SlotsPerDay + ClockOf(a)
  BY DaysAndClocks, Zenon
<1>3. SUFFICES ASSUME DayOf(b) < DayOf(a) PROVE FALSE
  BY <1>1
<1>4. b < DayOf(a) * SlotsPerDay + ClockOf(a)
  BY <1>1, <1>3, LaterDay
<1> QED
  BY <1>2, <1>4

LEMMA CalendarType ==
  Len(MonthStart) > 1 => MonthStart[Len(MonthStart) - 1] \in Int
BY RecurrenceAssumption

LEMMA LocalType ==
  ASSUME NEW u \in Int
  PROVE  /\ Local(u) \in Readings
         /\ Local(u).wall \in {u, u + Shift}
         /\ Local(u).fold = 1 <=> Repeated(u)
BY RecurrenceAssumption DEF Local, Readings

(* zoneinfo, as it is modelled: a moment is found again from its local time. *)
LEMMA RoundTrip ==
  ASSUME NEW u \in Int
  PROVE  Utc(Local(u)) = u
BY RecurrenceAssumption DEF Local, Utc, IsSummer, Repeated, Skipped

(* A later reading is a later moment, but for the first pass of the hour. *)
LEMMA LaterReading ==
  ASSUME NEW after \in Int, NEW l, IsBeyond(l, Local(after))
  PROVE  /\ Utc(l) \in Int
         /\ after \in Nat => Utc(l) \in Nat
         /\ Later(Utc(l), after)
<1>1. /\ l.wall \in Int /\ l.fold \in {0, 1}
      /\ l.wall > Local(after).wall /\ (l.fold = 1 => Repeated(after))
  BY DEF IsBeyond, Readings, Local
<1>2. Utc(l) = IF IsSummer(l) THEN l.wall - Shift ELSE l.wall
  BY DEF Utc
<1>6. Shift \in Nat /\ Forward \in Int /\ Back \in Int /\ Forward + 2 * Shift <= Back
      /\ Shift <= Back /\ Local(after).wall \in Int
  BY RecurrenceAssumption DEF Local
<1>3. Utc(l) \in Int
  <2>1. l.wall - Shift \in Int
    BY <1>1, <1>6
  <2> QED
    BY <1>1, <1>2, <2>1, Zenon
<1>4. CASE after < Back
  <2>1. l.fold = 0
    BY <1>1, <1>4, RecurrenceAssumption DEF Repeated
  <2>2. Utc(l) > after
    <3>1. CASE IsSummer(l)
      <4>1. Forward + Shift <= l.wall
        BY <1>1, <1>6, <2>1, <3>1 DEF IsSummer, Repeated
      <4>2. Utc(l) = l.wall - Shift
        BY <1>2, <3>1
      <4> QED
        BY <1>1, <1>4, <1>6, <4>1, <4>2 DEF Local
    <3>2. CASE ~IsSummer(l)
      BY <1>1, <1>2, <1>4, <1>6, <3>2 DEF Local
    <3> QED
      BY <3>1, <3>2
  <2>3. after \in Nat => Utc(l) \in Nat
    BY <1>3, <2>2
  <2>4. Later(Utc(l), after)
    BY <1>6, <2>2 DEF Later, Repeated
  <2> QED
    BY <1>3, <2>3, <2>4, Zenon
<1>5. CASE Back <= after
  <2>1. Local(after).wall = after /\ l.wall > after
    BY <1>1, <1>5, RecurrenceAssumption DEF Local
  <2>2. CASE ~IsSummer(l)
    <3>1. Utc(l) = l.wall
      BY <1>2, <2>2
    <3>2. Utc(l) > after /\ (after \in Nat => Utc(l) \in Nat)
      BY <1>1, <2>1, <3>1
    <3>3. Later(Utc(l), after)
      BY <1>6, <3>2 DEF Later, Repeated
    <3> QED
      BY <1>3, <3>2, <3>3, Zenon
  <2>3. CASE IsSummer(l)
    <3>1. Repeated(l.wall)
      BY <1>1, <1>5, <2>1, <2>3, RecurrenceAssumption DEF IsSummer, Skipped
    <3>2. Repeated(after) /\ Utc(l) \in Back - Shift .. Back - 1
      <4>1. Utc(l) = l.wall - Shift
        BY <1>2, <2>3
      <4> QED
        BY <1>1, <1>5, <1>6, <2>1, <3>1, <4>1 DEF Repeated
    <3>3. Utc(l) \in Nat
      BY <1>6, <3>2
    <3>4. Later(Utc(l), after)
      BY <1>6, <3>2 DEF Later, Repeated
    <3> QED
      BY <1>3, <3>3, <3>4, Zenon
  <2> QED
    BY <2>2, <2>3
<1> QED
  BY <1>1, <1>4, <1>5, RecurrenceAssumption

LEMMA NaturalDay ==
  ASSUME NEW wall \in Nat
  PROVE  DayOf(wall) \in Nat
BY SlotsPerDayType DEF DayOf

LEMMA ApplyTimeType ==
  ASSUME NEW l \in Readings, NEW clock \in 0 .. SlotsPerDay - 1
  PROVE  /\ ApplyTime(l, clock) \in Readings
         /\ ApplyTime(l, clock).wall = DayOf(l.wall) * SlotsPerDay + clock
         /\ ApplyTime(l, clock).fold = l.fold
<1>1. l.wall \in Int
  BY DEF Readings
<1>2. DayOf(l.wall) \in Int
  BY <1>1, DaysAndClocks
<1>3. DayOf(l.wall) * SlotsPerDay + clock \in Int
  BY <1>2, DayAndClock
<1> QED
  BY <1>3 DEF ApplyTime, Readings

(* The loop that adds steps until the target is beyond the reference. *)
LEMMA LoopEndsBeyond ==
  ASSUME NEW target \in Readings, NEW reference \in Readings, NEW step \in Nat \ {0},
         ~(target.wall > reference.wall)
  PROVE  IsBeyond(Beyond(target, reference, step), reference)
<1> DEFINE late == reference.wall - target.wall
           q == late \div step
<1>1. target.wall \in Int /\ reference.wall \in Int /\ late \in Int
  BY DEF Readings
<1>2. q \in Int /\ late % step \in 0 .. step - 1 /\ late = q * step + (late % step)
  BY <1>1, Division, Zenon
<1>3. late < step * (q + 1) /\ step * (q + 1) \in Int
  BY <1>2
<1>4. Beyond(target, reference, step) = [wall |-> target.wall + step * (q + 1), fold |-> 0]
  BY DEF Beyond, Plus
<1> HIDE DEF q
<1> QED
  BY <1>1, <1>3, <1>4 DEF IsBeyond, Readings

LEMMA DailyIsBeyond ==
  ASSUME NEW rule0 \in Schedules, NEW previous \in Readings, NEW reference \in Readings
  PROVE  IsBeyond(NextDaily(rule0, previous, reference), reference)
<1> DEFINE target == ApplyTime(reference, ClockOf(previous.wall))
           days == rule0.step \div SlotsPerDay
           step == SlotsPerDay * (IF days > 1 THEN days ELSE 1)
<1>1. ClockOf(previous.wall) \in 0 .. SlotsPerDay - 1
  BY DaysAndClocks DEF Readings
<1>2. target \in Readings /\ target.fold = reference.fold
  BY <1>1, ApplyTimeType
<1>3. days \in Int
  BY Division, SlotsPerDayType DEF Schedules
<1> HIDE DEF days
<1>4. step \in Nat \ {0}
  BY <1>3, SlotsPerDayType
<1>5. NextDaily(rule0, previous, reference) = Beyond(target, reference, step)
  BY DEF NextDaily, days
<1> HIDE DEF target, step
<1>6. CASE target.wall > reference.wall
  BY <1>2, <1>5, <1>6 DEF Beyond, IsBeyond
<1>7. CASE ~(target.wall > reference.wall)
  BY <1>2, <1>4, <1>5, <1>7, LoopEndsBeyond
<1> QED
  BY <1>6, <1>7

LEMMA WeekdayType ==
  ASSUME NEW wall \in Int
  PROVE  WeekdayOf(wall) \in 0 .. 6
<1>1. DayOf(wall) \in Int
  BY DaysAndClocks
<1>2. FirstWeekday \in Int
  BY RecurrenceAssumption
<1> DEFINE s == DayOf(wall) + FirstWeekday
<1>3. s \in Int
  BY <1>1, <1>2
<1>4. WeekdayOf(wall) = s % 7
  BY DEF WeekdayOf
<1> HIDE DEF s
<1> QED
  BY <1>3, <1>4

LEMMA WeekdayIsBeyond ==
  ASSUME NEW reference \in Readings, NEW weekday \in 0 .. 6, NEW clock \in 0 .. SlotsPerDay - 1
  PROVE  IsBeyond(NextWeekday(reference, weekday, clock), reference)
<1> DEFINE target == ApplyTime(reference, clock)
           ahead == (weekday - WeekdayOf(reference.wall)) % 7
           days == IF ahead = 0 /\ target.wall <= reference.wall THEN 7 ELSE ahead
           today == DayOf(reference.wall)
<1>1. reference.wall \in Int
  BY DEF Readings
<1>2. ahead \in 0 .. 6
  BY <1>1, WeekdayType
<1>3. /\ today \in Int /\ ClockOf(reference.wall) \in 0 .. SlotsPerDay - 1
      /\ target.wall = today * SlotsPerDay + clock
  BY <1>1, DaysAndClocks, ApplyTimeType
<1>4. NextWeekday(reference, weekday, clock)
        = [wall |-> target.wall + SlotsPerDay * days, fold |-> 0]
  BY DEF NextWeekday, Plus
<1> HIDE DEF target, ahead, today
<1>5. CASE ahead = 0 /\ ~(target.wall <= reference.wall)
  <2>1. days = 0 /\ target.wall \in Int
    BY <1>3, <1>5, SlotsPerDayType
  <2> QED
    BY <1>1, <1>4, <1>5, <2>1, SlotsPerDayType DEF IsBeyond, Readings
<1>6. CASE ~(ahead = 0 /\ ~(target.wall <= reference.wall))
  <2>1. days \in Nat \ {0}
    BY <1>2, <1>6
  <2> HIDE DEF days
  <2>2. today + days \in Int /\ today < today + days
    BY <1>3, <2>1
  <2>3. reference.wall < (today + days) * SlotsPerDay + clock
    BY <1>1, <2>2, LaterDay DEF today
  <2>4. (today + days) * SlotsPerDay + clock = target.wall + SlotsPerDay * days
    BY <1>3, <2>1, SlotsPerDayType
  <2>5. target.wall + SlotsPerDay * days \in Int
    BY <1>3, <2>1, SlotsPerDayType
  <2> QED
    BY <1>4, <2>3, <2>4, <2>5 DEF IsBeyond, Readings
<1> QED
  BY <1>5, <1>6

(* Every set of numbers has a least one. *)
LEMMA Least ==
  ASSUME NEW T \in SUBSET Nat, T # {}
  PROVE  \E i \in T : \A j \in T : i <= j
<1> DEFINE R == OpToRel(<, Nat)
<1>1. IsWellFoundedOn(R, Nat)
  BY NatLessThanWellFounded
<1>2. \A a, b \in Nat : a < b => <<a, b>> \in R
  BY DEF OpToRel
<1> HIDE DEF R
<1>3. PICK i \in T : \A j \in T : ~(<<j, i>> \in R)
  BY <1>1, WFMin
<1>4. \A j \in T : ~(j < i)
  BY <1>2, <1>3
<1> QED
  BY <1>4

(* Of readings beyond the reference there is an earliest. *)
LEMMA EarliestReading ==
  ASSUME NEW reference \in Readings, NEW C, C # {}, \A c \in C : IsBeyond(c, reference)
  PROVE  \E c \in C : \A d \in C : c.wall <= d.wall
<1> DEFINE T == {c.wall - reference.wall : c \in C}
<1>1. \A c \in C : c.wall \in Int /\ c.wall > reference.wall
  BY DEF IsBeyond, Readings
<1>2. T \in SUBSET Nat /\ T # {}
  BY <1>1 DEF Readings
<1>3. PICK x \in T : \A y \in T : x <= y
  BY <1>2, Least
<1>4. PICK c \in C : x = c.wall - reference.wall
  BY <1>3
<1>5. ASSUME NEW d \in C PROVE c.wall <= d.wall
  <2>1. x <= d.wall - reference.wall
    BY <1>3
  <2> QED
    BY <2>1, <1>1, <1>4 DEF Readings
<1> QED
  BY <1>5

LEMMA WeeklyIsBeyond ==
  ASSUME NEW rule0 \in Schedules, NEW previous \in Readings, NEW reference \in Readings
  PROVE  IsBeyond(NextWeekly(rule0, previous, reference), reference)
<1> DEFINE weekdays == IF rule0.weekdays = {} THEN {WeekdayOf(previous.wall)} ELSE rule0.weekdays
           C == {NextWeekday(reference, w, ClockOf(previous.wall)) : w \in weekdays}
<1>1. ClockOf(previous.wall) \in 0 .. SlotsPerDay - 1 /\ WeekdayOf(previous.wall) \in 0 .. 6
  BY DaysAndClocks, WeekdayType DEF Readings
<1>2. weekdays \subseteq 0 .. 6 /\ weekdays # {}
  BY <1>1 DEF Schedules
<1> HIDE DEF weekdays
<1>3. C # {} /\ \A c \in C : IsBeyond(c, reference)
  BY <1>1, <1>2, WeekdayIsBeyond
<1>4. \E c \in C : \A d \in C : c.wall <= d.wall
  BY <1>3, EarliestReading, Zenon
<1>5. NextWeekly(rule0, previous, reference)
        = CHOOSE c \in C : \A d \in C : c.wall <= d.wall
  BY DEF NextWeekly, weekdays
<1>6. NextWeekly(rule0, previous, reference) \in C
  BY <1>4, <1>5, Zenon
<1> QED
  BY <1>3, <1>6

LEMMA MonthsAreLong ==
  \A m, n \in 1 .. Len(MonthStart) :
      m < n => MonthStart[n] - MonthStart[m] \in 28 * (n - m) .. 31 * (n - m)
BY RecurrenceAssumption

(* The month of a day that the calendar covers. *)
LEMMA MonthOfDay ==
  ASSUME NEW day \in Nat, NEW last \in 1 .. Len(MonthStart), day < MonthStart[last]
  PROVE  /\ last > 1
         /\ MonthOf(day) \in 1 .. last - 1
         /\ IsIn(day, MonthOf(day))
<1> DEFINE Starts == {m \in 1 .. Len(MonthStart) : day < MonthStart[m]}
<1>1. /\ Len(MonthStart) \in Nat /\ MonthStart[1] = 0
      /\ \A m \in 1 .. Len(MonthStart) : MonthStart[m] \in Nat
  BY RecurrenceAssumption
<1>2. Starts \in SUBSET Nat /\ last \in Starts
  BY <1>1
<1>3. PICK n \in Starts : \A k \in Starts : n <= k
  BY <1>2, Least
<1>4. n # 1 /\ n <= last
  BY <1>1, <1>2, <1>3
<1>5. n - 1 \in 1 .. Len(MonthStart) - 1 /\ n - 1 \in 1 .. last - 1 /\ last > 1
  BY <1>1, <1>3, <1>4
<1>6. n - 1 \notin Starts
  BY <1>2, <1>3
<1>7. IsIn(day, n - 1)
  BY <1>1, <1>3, <1>5, <1>6 DEF IsIn
<1>8. MonthOf(day) \in 1 .. Len(MonthStart) - 1 /\ IsIn(day, MonthOf(day))
  BY <1>5, <1>7 DEF MonthOf
<1>9. ASSUME NEW m \in 1 .. Len(MonthStart) - 1, IsIn(day, m), ~(m < last) PROVE FALSE
  <2>1. MonthStart[last] <= MonthStart[m]
    <3>1. CASE last = m
      BY <3>1, <1>1, <1>9
    <3>2. CASE last # m
      <4>1. last < m /\ m \in 1 .. Len(MonthStart)
        BY <3>2, <1>1, <1>9
      <4>2. MonthStart[m] - MonthStart[last] \in 28 * (m - last) .. 31 * (m - last)
        BY <4>1, MonthsAreLong, Zenon
      <4> QED
        BY <4>1, <4>2, <1>1
    <3> QED
      BY <3>1, <3>2
  <2> QED
    <3>1. MonthStart[m] <= day /\ day < MonthStart[last]
      BY <1>9, Zenon DEF IsIn
    <3>2. MonthStart[m] \in Nat /\ MonthStart[last] \in Nat
      <4>1. m \in 1 .. Len(MonthStart)
        BY <1>1, <1>9
      <4> QED
        BY <1>1, <4>1, Zenon
    <3> QED
      BY <2>1, <3>1, <3>2
<1> QED
  BY <1>1, <1>5, <1>8, <1>9

(* A day is in one month only. *)
LEMMA MonthUnique ==
  ASSUME NEW day \in Nat, NEW m \in 1 .. Len(MonthStart) - 1, IsIn(day, m)
  PROVE  MonthOf(day) = m
<1>1. /\ Len(MonthStart) \in Nat
      /\ \A k \in 1 .. Len(MonthStart) : MonthStart[k] \in Nat
  BY RecurrenceAssumption
<1>2. MonthOf(day) \in 1 .. Len(MonthStart) - 1 /\ IsIn(day, MonthOf(day))
  BY DEF MonthOf
<1>3. ASSUME NEW k \in 1 .. Len(MonthStart) - 1, NEW n \in 1 .. Len(MonthStart) - 1,
             IsIn(day, k), IsIn(day, n), k < n
      PROVE  FALSE
  <2>1. MonthStart[k + 1] <= MonthStart[n]
    <3>1. CASE k + 1 = n
      BY <3>1, <1>1, <1>3
    <3>2. CASE k + 1 # n
      <4>1. k + 1 < n /\ k + 1 \in 1 .. Len(MonthStart) /\ n \in 1 .. Len(MonthStart)
        BY <3>2, <1>1, <1>3
      <4>2. MonthStart[n] - MonthStart[k + 1] \in 28 * (n - (k + 1)) .. 31 * (n - (k + 1))
        BY <4>1, MonthsAreLong, Zenon
      <4> QED
        BY <4>1, <4>2, <1>1
    <3> QED
      BY <3>1, <3>2
  <2>2. MonthStart[n] <= day /\ day < MonthStart[k + 1]
    BY <1>3, Zenon DEF IsIn
  <2>3. MonthStart[n] \in Nat /\ MonthStart[k + 1] \in Nat
    <3>1. n \in 1 .. Len(MonthStart) /\ k + 1 \in 1 .. Len(MonthStart)
      BY <1>1
    <3> QED
      BY <1>1, <3>1, Zenon
  <2> QED
    BY <2>1, <2>2, <2>3
<1> DEFINE o == MonthOf(day)
<1> HIDE DEF o
<1>4. o \in 1 .. Len(MonthStart) - 1 /\ IsIn(day, o)
  BY <1>2 DEF o
<1>5. ~(o < m) /\ ~(m < o)
  BY <1>3, <1>4
<1> QED
  BY <1>1, <1>4, <1>5 DEF o

LEMMA MonthLength ==
  ASSUME NEW m \in 1 .. Len(MonthStart) - 1
  PROVE  /\ MonthDays(m) \in 28 .. 31
         /\ MonthStart[m] \in Nat
         /\ MonthStart[m + 1] = MonthStart[m] + MonthDays(m)
<1>1. Len(MonthStart) \in Nat /\ \A k \in 1 .. Len(MonthStart) : MonthStart[k] \in Nat
  BY RecurrenceAssumption
<1>2. m \in 1 .. Len(MonthStart) /\ m + 1 \in 1 .. Len(MonthStart) /\ m < m + 1
  BY <1>1
<1>3. MonthStart[m + 1] - MonthStart[m] \in 28 * ((m + 1) - m) .. 31 * ((m + 1) - m)
  BY <1>2, RecurrenceAssumption, Zenon
<1>4. MonthStart[m] \in Nat /\ MonthStart[m + 1] \in Nat
  BY <1>1, <1>2
<1> QED
  BY <1>2, <1>3, <1>4 DEF MonthDays

LEMMA DayOfMonthType ==
  ASSUME NEW day \in Nat, NEW last \in 1 .. Len(MonthStart), day < MonthStart[last]
  PROVE  DayOfMonth(day) \in Nat \ {0}
<1> DEFINE m == MonthOf(day)
<1>1. m \in 1 .. last - 1 /\ IsIn(day, m)
  BY MonthOfDay
<1> HIDE DEF m
<1>2. Len(MonthStart) \in Nat
  BY RecurrenceAssumption
<1>3. m \in 1 .. Len(MonthStart) - 1
  BY <1>1, <1>2
<1>4. MonthStart[m] \in Nat
  BY <1>3, MonthLength
<1> QED
  BY <1>1, <1>4 DEF DayOfMonth, IsIn, m

LEMMA OnDayType ==
  ASSUME NEW l \in Readings, NEW month, NEW day, MonthStart[month] + day - 1 \in Int
  PROVE  /\ OnDay(l, month, day) \in Readings
         /\ OnDay(l, month, day).fold = l.fold
         /\ DayOf(OnDay(l, month, day).wall) = MonthStart[month] + day - 1
         /\ OnDay(l, month, day).wall
              = (MonthStart[month] + day - 1) * SlotsPerDay + ClockOf(l.wall)
<1> DEFINE d == MonthStart[month] + day - 1
<1>1. ClockOf(l.wall) \in 0 .. SlotsPerDay - 1
  BY DaysAndClocks DEF Readings
<1> HIDE DEF d
<1>2. d * SlotsPerDay + ClockOf(l.wall) \in Int /\ DayOf(d * SlotsPerDay + ClockOf(l.wall)) = d
  BY <1>1, DayAndClock DEF d
<1>3. OnDay(l, month, day) = [l EXCEPT !.wall = d * SlotsPerDay + ClockOf(l.wall)]
  BY DEF OnDay, d
<1>4. /\ OnDay(l, month, day).wall = d * SlotsPerDay + ClockOf(l.wall)
      /\ OnDay(l, month, day).fold = l.fold
      /\ OnDay(l, month, day) \in Readings
  BY <1>2, <1>3 DEF Readings
<1> QED
  BY <1>2, <1>4 DEF d

LEMMA RuleDay ==
  ASSUME NEW rule0 \in Schedules, rule0.day # 0
  PROVE  rule0.day \in Nat \ {0}
BY DEF Schedules

LEMMA OnDayClock ==
  ASSUME NEW l \in Readings, NEW month, NEW day, MonthStart[month] + day - 1 \in Int
  PROVE  ClockOf(OnDay(l, month, day).wall) = ClockOf(l.wall)
<1>1. ClockOf(l.wall) \in 0 .. SlotsPerDay - 1
  BY DaysAndClocks DEF Readings
<1>2. OnDay(l, month, day).wall = (MonthStart[month] + day - 1) * SlotsPerDay + ClockOf(l.wall)
  BY OnDayType
<1> QED
  BY <1>1, <1>2, DayAndClock

(* The monthly branch, on the day it chooses. *)
LEMMA MonthlyDate ==
  ASSUME NEW rule0 \in Schedules, NEW previous \in Readings, NEW reference \in Readings,
         previous.wall \in Nat, reference.wall \in Nat, Len(MonthStart) > 1,
         DayOf(previous.wall) < MonthStart[Len(MonthStart) - 1],
         DayOf(reference.wall) < MonthStart[Len(MonthStart) - 1]
  PROVE  LET next == NextMonthly(rule0, previous, reference)
             today == DayOf(reference.wall)
             month == MonthOf(today)
             day == IF rule0.day # 0 THEN rule0.day ELSE DayOfMonth(DayOf(previous.wall))
             date == MonthStart[month + 1] + SmallerOf(day, 28) - 1
         IN /\ next \in Readings /\ next.fold = reference.fold
            /\ next.wall = date * SlotsPerDay + ClockOf(previous.wall)
            /\ date \in Nat /\ today < date
            /\ month \in 1 .. Len(MonthStart) - 2
            /\ IsIn(today, month) /\ IsIn(date, month + 1)
<1> DEFINE last == Len(MonthStart) - 1
           clock == ClockOf(previous.wall)
           today == DayOf(reference.wall)
           month == MonthOf(today)
           day == IF rule0.day # 0 THEN rule0.day ELSE DayOfMonth(DayOf(previous.wall))
           moved == ApplyTime(reference, clock)
           shorter == SmallerOf(DayOfMonth(today), MonthDays(month + 1))
           target == OnDay(moved, month + 1, shorter)
<1>1. /\ Len(MonthStart) \in Nat /\ last \in 1 .. Len(MonthStart)
      /\ \A m \in 1 .. Len(MonthStart) : MonthStart[m] \in Nat
  BY RecurrenceAssumption
<1>2. DayOf(previous.wall) \in Nat /\ today \in Nat /\ clock \in 0 .. SlotsPerDay - 1
  <2>1. previous.wall \in Int
    OBVIOUS
  <2> QED
    BY <2>1, DaysAndClocks, NaturalDay, Zenon
<1>3. /\ month \in 1 .. last - 1 /\ IsIn(today, month)
      /\ MonthOf(DayOf(previous.wall)) \in 1 .. last - 1
      /\ IsIn(DayOf(previous.wall), MonthOf(DayOf(previous.wall)))
  BY <1>1, <1>2, MonthOfDay
<1>4. /\ DayOfMonth(today) \in Nat \ {0}
      /\ DayOfMonth(DayOf(previous.wall)) \in Nat \ {0}
  BY <1>1, <1>2, DayOfMonthType
<1>5. /\ moved \in Readings /\ moved.fold = reference.fold
      /\ DayOf(moved.wall) = today /\ ClockOf(moved.wall) = clock
  <2>1. moved.wall = today * SlotsPerDay + clock
    BY <1>2, ApplyTimeType
  <2>2. DayOf(today * SlotsPerDay + clock) = today /\ ClockOf(today * SlotsPerDay + clock) = clock
    BY <1>2, DayAndClock
  <2>3. moved \in Readings /\ moved.fold = reference.fold
    BY <1>2, ApplyTimeType
  <2> HIDE DEF today, clock, moved
  <2> QED
    BY <2>1, <2>2, <2>3
<1>6. /\ month + 1 \in 1 .. Len(MonthStart) - 1
      /\ month + 1 \in 1 .. Len(MonthStart) /\ month + 2 \in 1 .. Len(MonthStart)
      /\ month + 1 + 1 = month + 2 /\ month \in 1 .. Len(MonthStart) - 2
  BY <1>1, <1>3
<1>7. /\ MonthDays(month + 1) \in 28 .. 31 /\ MonthStart[month + 1] \in Nat
      /\ MonthStart[month + 1 + 1] = MonthStart[month + 1] + MonthDays(month + 1)
  BY <1>6, MonthLength
<1>8. shorter \in 1 .. MonthDays(month + 1)
  BY <1>4, <1>7 DEF SmallerOf
<1>9. day \in Nat \ {0} /\ SmallerOf(day, 28) \in 1 .. 28
  <2>1. day \in Nat \ {0}
    <3>1. CASE rule0.day # 0
      BY <3>1, RuleDay, Zenon
    <3>2. CASE rule0.day = 0
      BY <1>4, <3>2, Zenon
    <3> QED
      BY <3>1, <3>2
  <2> HIDE DEF day
  <2> QED
    BY <2>1 DEF SmallerOf
<1>10. NextMonthly(rule0, previous, reference)
         = OnDay(target, MonthOf(DayOf(target.wall)), SmallerOf(day, 28))
  BY <1>5 DEF NextMonthly, AddMonths
<1> HIDE DEF last, clock, month, day, moved, shorter, target
<1>11. /\ target \in Readings /\ target.fold = moved.fold
       /\ DayOf(target.wall) = MonthStart[month + 1] + shorter - 1
       /\ ClockOf(target.wall) = clock
  <2>1. MonthStart[month + 1] + shorter - 1 \in Int
    BY <1>1, <1>6, <1>7, <1>8
  <2> QED
    BY <1>5, <2>1, OnDayType, OnDayClock DEF target
<1>12. MonthOf(DayOf(target.wall)) = month + 1
  <2>1. DayOf(target.wall) \in Nat /\ IsIn(DayOf(target.wall), month + 1)
    <3>1. PICK a, z \in Int : a = MonthStart[month + 1] /\ z = MonthDays(month + 1)
      BY <1>7
    <3>2. a \in Nat /\ MonthStart[month + 1 + 1] = a + z /\ shorter \in 1 .. z
      BY <1>7, <1>8, <3>1, Zenon
    <3>3. DayOf(target.wall) = a + shorter - 1
      BY <1>11, <3>1, Zenon
    <3>4. DayOf(target.wall) \in Nat /\ a <= DayOf(target.wall) /\ DayOf(target.wall) < a + z
      BY <3>2, <3>3
    <3> QED
      BY <3>1, <3>2, <3>4, Zenon DEF IsIn
  <2>2. month + 1 \in 1 .. Len(MonthStart) - 1
    BY <1>6
  <2> QED
    BY <2>1, <2>2, MonthUnique, Zenon
<1> DEFINE next == OnDay(target, month + 1, SmallerOf(day, 28))
           date == MonthStart[month + 1] + SmallerOf(day, 28) - 1
<1>13. date \in Nat /\ today < date /\ IsIn(date, month + 1)
  <2>1. today \in Int /\ today < MonthStart[month + 1]
    BY <1>2, <1>3 DEF IsIn
  <2> HIDE DEF today
  <2> QED
    <3> DEFINE k == SmallerOf(day, 28)
               a == MonthStart[month + 1]
               b == MonthStart[month + 1 + 1]
    <3>1. a \in Nat /\ b \in Nat /\ a + 28 <= b /\ k \in 1 .. 28 /\ date = a + k - 1
      BY <1>7, <1>9
    <3>3. today \in Int /\ today < a
      BY <2>1
    <3> HIDE DEF a, b, k, date
    <3>2. date \in Nat /\ today < date /\ a <= date /\ date < b
      BY <3>1, <3>3
    <3> QED
      BY <3>2, Zenon DEF IsIn, a, b
<1>14. /\ next \in Readings /\ next.fold = target.fold
       /\ next.wall = date * SlotsPerDay + ClockOf(target.wall)
  BY <1>11, <1>13, OnDayType
<1> HIDE DEF next, date
<1>15. /\ next \in Readings /\ next.fold = reference.fold
       /\ next.wall = date * SlotsPerDay + clock
  BY <1>5, <1>11, <1>14, Zenon
<1>16. NextMonthly(rule0, previous, reference) = next
  BY <1>10, <1>12 DEF next
<1> QED
  BY <1>3, <1>6, <1>13, <1>15, <1>16, Zenon DEF date, clock, day, month

LEMMA MonthlyIsBeyond ==
  ASSUME NEW rule0 \in Schedules, NEW previous \in Readings, NEW reference \in Readings,
         previous.wall \in Nat, reference.wall \in Nat, Len(MonthStart) > 1,
         DayOf(previous.wall) < MonthStart[Len(MonthStart) - 1],
         DayOf(reference.wall) < MonthStart[Len(MonthStart) - 1]
  PROVE  IsBeyond(NextMonthly(rule0, previous, reference), reference)
<1> DEFINE next == NextMonthly(rule0, previous, reference)
           clock == ClockOf(previous.wall)
<1>1. PICK date \in Nat : /\ DayOf(reference.wall) < date
                          /\ next \in Readings /\ next.fold = reference.fold
                          /\ next.wall = date * SlotsPerDay + clock
  BY MonthlyDate, Zenon
<1>2. clock \in 0 .. SlotsPerDay - 1
  BY DaysAndClocks DEF Readings
<1> HIDE DEF next, clock
<1>3. reference.wall < date * SlotsPerDay + clock
  BY <1>1, <1>2, LaterDay
<1> QED
  BY <1>1, <1>3 DEF IsBeyond, Readings, next

(* Interval: the one case in which the target is kept is a reminder that was  *)
(* due in the first pass of the hour and is asked about in the second.        *)
LEMMA IntervalIsLater ==
  ASSUME NEW rule0 \in Schedules, rule0.kind = "interval", ~Raises(rule0),
         NEW previous \in Int, NEW after \in Int, previous <= after
  PROVE  LET next == Utc(NextInterval(rule0, Local(previous), Local(after)))
         IN /\ next \in Int
            /\ previous \in Nat => next \in Nat
            /\ Later(next, after)
<1>1. Local(previous) \in Readings /\ Local(after) \in Readings
  BY LocalType
<1>2. rule0.step \in Nat \ {0}
  BY DEF Raises, Schedules
<1>3. CASE Local(previous).wall > Local(after).wall
  <2>1. NextInterval(rule0, Local(previous), Local(after)) = Local(previous)
    BY <1>3 DEF NextInterval, Beyond
  <2>2. Repeated(after) /\ previous \in Back - Shift .. Back - 1
    BY <1>3, RecurrenceAssumption DEF Local, Repeated
  <2> QED
    BY <2>1, <2>2, RoundTrip DEF Later
<1>4. CASE ~(Local(previous).wall > Local(after).wall)
  <2>1. IsBeyond(NextInterval(rule0, Local(previous), Local(after)), Local(after))
    BY <1>1, <1>2, <1>4, LoopEndsBeyond DEF NextInterval
  <2>2. previous \in Nat => after \in Nat
    OBVIOUS
  <2> QED
    BY <2>1, <2>2, LaterReading
<1> QED
  BY <1>3, <1>4

(* core/scheduler.py, next_occurrence: for every rule, calendar and pair of   *)
(* clock changes, the next run lies after the moment it is asked at, or the   *)
(* call is in the second pass of the hour that the clocks repeat and the next *)
(* run in the first.                                                          *)
THEOREM NextIsLater ==
  ASSUME NEW rule0 \in Schedules, rule0.kind # "one_time", ~Raises(rule0),
         NEW previous \in Int, NEW after \in Int, previous <= after,
         Local(previous).wall \in Nat,
         Len(MonthStart) > 1, DayOf(after + Shift) < MonthStart[Len(MonthStart) - 1]
  PROVE  /\ NextOccurrence(rule0, previous, after) \in Int
         /\ previous \in Nat => NextOccurrence(rule0, previous, after) \in Nat
         /\ Later(NextOccurrence(rule0, previous, after), after)
<1> DEFINE from == Local(previous)
           reference == Local(after)
<1>1. from \in Readings /\ reference \in Readings /\ (previous \in Nat => after \in Nat)
  BY LocalType
<1>2. rule0.kind \in {"daily", "weekly", "monthly", "interval"}
  BY DEF Schedules, Kinds
<1>3. CASE rule0.kind = "daily"
  <2>1. NextOccurrence(rule0, previous, after) = Utc(NextDaily(rule0, from, reference))
    BY <1>3 DEF NextOccurrence
  <2> QED
    BY <1>1, <2>1, DailyIsBeyond, LaterReading
<1>4. CASE rule0.kind = "weekly"
  <2>1. NextOccurrence(rule0, previous, after) = Utc(NextWeekly(rule0, from, reference))
    BY <1>4 DEF NextOccurrence
  <2> QED
    BY <1>1, <2>1, WeeklyIsBeyond, LaterReading
<1>5. CASE rule0.kind = "monthly"
  <2>1. NextOccurrence(rule0, previous, after) = Utc(NextMonthly(rule0, from, reference))
    BY <1>5 DEF NextOccurrence
  <2>2. from.wall \in Nat /\ reference.wall \in Nat
    BY RecurrenceAssumption DEF Local
  <2>3. from.wall <= after + Shift /\ reference.wall <= after + Shift /\ after + Shift \in Int
    BY RecurrenceAssumption DEF Local, Repeated
  <2>4. /\ DayOf(from.wall) < MonthStart[Len(MonthStart) - 1]
        /\ DayOf(reference.wall) < MonthStart[Len(MonthStart) - 1]
    BY <2>2, <2>3, EarlierDay, CalendarType
  <2> QED
    BY <1>1, <2>1, <2>2, <2>4, MonthlyIsBeyond, LaterReading
<1>6. CASE rule0.kind = "interval"
  <2>1. NextOccurrence(rule0, previous, after) = Utc(NextInterval(rule0, from, reference))
    BY <1>6 DEF NextOccurrence
  <2> QED
    BY <1>6, <2>1, IntervalIsLater
<1> QED
  BY <1>2, <1>3, <1>4, <1>5, <1>6

-----------------------------------------------------------------------------
(* The next run again: it is the first moment that the rule wants. *)
(* A time of day at which the clocks never change. *)
Plain(clock) == \A w \in {Forward, Back} : clock \notin {ClockOf(w + k) : k \in 0 .. Shift - 1}

(* Does the rule, as the code keeps to it, want this reading? *)
Fits(rule0, previous, l) == Matches(AsKept(rule0, previous), previous, l)

(* What Matches says of a reading depends on its wall clock alone. *)
Wanted(rule0, previous) == {w \in Int : Fits(rule0, previous, [wall |-> w, fold |-> 0])}

LEMMA WantedIsMatching ==
  ASSUME NEW rule0, rule0.kind \in {"daily", "weekly", "monthly"}, NEW previous,
         NEW l, l.wall \in Int
  PROVE  Fits(rule0, previous, l) <=> l.wall \in Wanted(rule0, previous)
BY DEF Fits, Matches, Wanted, AsKept

(* At such a time of day every wall clock is shown once. *)
LEMMA PlainReading ==
  ASSUME NEW wall \in Int, Plain(ClockOf(wall))
  PROVE  ~Repeated(wall) /\ ~Skipped(wall)
<1>1. ASSUME NEW w \in {Forward, Back}, w <= wall, wall < w + Shift PROVE FALSE
  <2>1. w \in Int /\ Shift \in Int
    BY RecurrenceAssumption
  <2>2. wall - w \in 0 .. Shift - 1 /\ w + (wall - w) = wall
    BY <1>1, <2>1
  <2> QED
    BY <2>2, Zenon DEF Plain
<1> QED
  BY <1>1 DEF Repeated, Skipped

(* Away from the changes a reading is found again from its moment. *)
LEMMA FoundAgain ==
  ASSUME NEW l \in Readings, ~Repeated(l.wall), ~Skipped(l.wall)
  PROVE  /\ Utc(l) \in Int
         /\ Local(Utc(l)).wall = l.wall
         /\ Local(Utc(l)).fold = 0
BY RecurrenceAssumption DEF Readings, Local, Utc, IsSummer, Repeated, Skipped

(* Later moments have later wall clocks, but for the repeated hour. *)
LEMMA WallsInOrder ==
  ASSUME NEW u \in Int, NEW v \in Int, u < v, Local(v).fold = 0
  PROVE  Local(u).wall < Local(v).wall
BY RecurrenceAssumption DEF Local, Repeated

(* The first wanted reading is at the first moment that is wanted. *)
LEMMA FirstReading ==
  ASSUME NEW after \in Int, NEW target \in Readings, NEW W \in SUBSET Int,
         \A w \in W : ~Repeated(w) /\ ~Skipped(w),
         target.wall \in W, target.wall > Local(after).wall,
         \A w \in W : w > Local(after).wall => target.wall <= w
  PROVE  /\ Utc(target) > after
         /\ Local(Utc(target)).wall \in W
         /\ \A u \in after + 1 .. Utc(target) - 1 : Local(u).wall \notin W
<1> DEFINE next == Utc(target)
<1>1. next \in Int /\ Local(next).wall = target.wall /\ Local(next).fold = 0
  BY FoundAgain, Zenon
<1> HIDE DEF next
<1>2. Local(after).wall \in Int /\ target.wall \in Int
  BY LocalType DEF Readings
<1>3. next > after
  <2>1. next # after
    BY <1>1, <1>2
  <2>2. ~(next < after)
    <3>1. SUFFICES ASSUME next < after PROVE FALSE
      OBVIOUS
    <3>2. Local(after).fold = 0
      <4>1. SUFFICES ASSUME Repeated(after) PROVE FALSE
        BY DEF Local
      <4>2. ~Repeated(Local(next).wall)
        BY <1>1
      <4> QED
        BY <3>1, <4>1, <4>2, <1>1, RecurrenceAssumption DEF Local, Repeated
    <3>3. Local(next).wall < Local(after).wall
      BY <3>1, <3>2, <1>1, WallsInOrder
    <3> QED
      BY <3>3, <1>1, <1>2
  <2> QED
    BY <2>1, <2>2, <1>1
<1>4. ASSUME NEW u \in after + 1 .. next - 1, Local(u).wall \in W PROVE FALSE
  <2>1. u \in Int /\ after < u /\ u < next
    BY <1>1, <1>4
  <2>2. Local(u).wall < Local(next).wall
    BY <1>1, <2>1, WallsInOrder
  <2>3. Local(u).wall = u \/ Local(u).wall = u + Shift
    BY <2>1, LocalType
  <2>4. Local(u).fold = 0
    <3>1. ~Repeated(Local(u).wall)
      BY <1>4
    <3> QED
      BY <3>1, <2>1, RecurrenceAssumption DEF Local, Repeated
  <2>5. Local(after).wall < Local(u).wall
    BY <2>1, <2>4, WallsInOrder
  <2>6. target.wall <= Local(u).wall
    BY <1>4, <2>5, <1>2
  <2>7. Local(u).wall \in Int /\ Local(next).wall \in Int
    BY <1>1, <1>2, <1>4
  <2> QED
    BY <2>2, <2>6, <2>7, <1>1
<1> QED
  BY <1>1, <1>3, <1>4 DEF next

(* A later reading is on the same day, later in it, or on a later day. *)
LEMMA OnOrAfter ==
  ASSUME NEW r \in Int, NEW w \in Int, w > r
  PROVE  /\ DayOf(r) <= DayOf(w)
         /\ DayOf(r) = DayOf(w) => ClockOf(r) < ClockOf(w)
<1>1. /\ DayOf(r) \in Int /\ DayOf(w) \in Int
      /\ ClockOf(r) \in 0 .. SlotsPerDay - 1 /\ ClockOf(w) \in 0 .. SlotsPerDay - 1
      /\ r = DayOf(r) * SlotsPerDay + ClockOf(r) /\ w = DayOf(w) * SlotsPerDay + ClockOf(w)
  BY DaysAndClocks, Zenon
<1>2. ~(DayOf(w) < DayOf(r))
  <2>1. SUFFICES ASSUME DayOf(w) < DayOf(r) PROVE FALSE
    OBVIOUS
  <2>2. r <= w
    OBVIOUS
  <2>3. DayOf(r) < DayOf(r)
    BY <2>1, <2>2, <1>1, EarlierDay
  <2> QED
    BY <2>3, <1>1
<1> DEFINE d == DayOf(r)
           e == DayOf(w)
           cr == ClockOf(r)
           cw == ClockOf(w)
<1>3. d = e => cr < cw
  <2>1. SUFFICES ASSUME d = e PROVE cr < cw
    OBVIOUS
  <2>2. r = d * SlotsPerDay + cr /\ w = d * SlotsPerDay + cw /\ d * SlotsPerDay \in Int
        /\ cr \in Int /\ cw \in Int
    BY <1>1, <2>1, SlotsPerDayType
  <2> DEFINE x == d * SlotsPerDay
  <2> HIDE DEF d, e, cr, cw, x
  <2>3. r = x + cr /\ w = x + cw /\ x \in Int
    BY <2>2 DEF x
  <2> QED
    BY <2>2, <2>3
<1> QED
  BY <1>1, <1>2, <1>3

LEMMA DaysInOrder ==
  ASSUME NEW a \in Int, NEW b \in Int, a <= b, NEW clock \in 0 .. SlotsPerDay - 1
  PROVE  a * SlotsPerDay + clock <= b * SlotsPerDay + clock
<1>1. SlotsPerDay \in Nat
  BY SlotsPerDayType
<1>2. a * SlotsPerDay \in Int /\ b * SlotsPerDay \in Int /\ a * SlotsPerDay <= b * SlotsPerDay
  BY <1>1, TimesMonotone, Zenon
<1> QED
  BY <1>2

LEMMA ManyDays ==
  ASSUME NEW step \in Int, step > SlotsPerDay
  PROVE  step \div SlotsPerDay \in Nat \ {0}
<1> DEFINE q == step \div SlotsPerDay
<1>1. q \in Int /\ step % SlotsPerDay \in 0 .. SlotsPerDay - 1
      /\ step = q * SlotsPerDay + (step % SlotsPerDay)
  BY Division, SlotsPerDayType, Zenon
<1> HIDE DEF q
<1>2. ~(q <= 0)
  <2>1. SUFFICES ASSUME q <= 0 PROVE FALSE
    OBVIOUS
  <2>2. q * SlotsPerDay \in Int /\ q * SlotsPerDay <= 0 * SlotsPerDay
    BY <2>1, <1>1, TimesMonotone, SlotsPerDayType
  <2> DEFINE x == q * SlotsPerDay
  <2>3. x \in Int /\ x <= 0 /\ step = x + (step % SlotsPerDay)
    BY <2>2, <1>1, SlotsPerDayType
  <2> HIDE DEF x
  <2> QED
    BY <2>3, <1>1, SlotsPerDayType
<1> QED
  BY <1>1, <1>2 DEF q

LEMMA FewDays ==
  ASSUME NEW step \in Int, step \div SlotsPerDay > 1
  PROVE  step > SlotsPerDay
<1> DEFINE q == step \div SlotsPerDay
<1>1. q \in Int /\ step % SlotsPerDay \in 0 .. SlotsPerDay - 1
      /\ step = q * SlotsPerDay + (step % SlotsPerDay)
  BY Division, SlotsPerDayType, Zenon
<1>2. 2 <= q
  BY <1>1
<1> HIDE DEF q
<1>3. q * SlotsPerDay \in Int /\ 2 * SlotsPerDay <= q * SlotsPerDay
  BY <1>1, <1>2, TimesMonotone, SlotsPerDayType
<1> DEFINE x == q * SlotsPerDay
<1>4. x \in Int /\ x >= 2 * SlotsPerDay /\ step = x + (step % SlotsPerDay)
  BY <1>3, <1>1
<1> HIDE DEF x
<1> QED
  BY <1>4, <1>1, SlotsPerDayType

LEMMA Multiples ==
  ASSUME NEW d \in Nat \ {0}
  PROVE  /\ 0 % d = 0 /\ d % d = 0
         /\ \A x \in Nat \ {0} : x % d = 0 => d <= x
<1>1. (0 * d + 0) % d = 0 /\ (1 * d + 0) % d = 0
  BY DivisionUnique
<1>2. ASSUME NEW x \in Nat \ {0}, x < d PROVE x % d # 0
  <2>1. (0 * d + x) % d = x
    BY <1>2, DivisionUnique
  <2> QED
    BY <2>1
<1>3. 0 * d + 0 = 0 /\ 1 * d + 0 = d
  OBVIOUS
<1> QED
  BY <1>1, <1>2, <1>3

-----------------------------------------------------------------------------
LEMMA DailyIsFirst ==
  ASSUME NEW rule0 \in Schedules, rule0.kind = "daily", NEW previous \in Int,
         NEW reference \in Readings,
         rule0.step > SlotsPerDay => DayOf(reference.wall) = DayOf(Local(previous).wall)
  PROVE  LET target == NextDaily(rule0, Local(previous), reference)
         IN /\ target.wall \in Wanted(rule0, previous)
            /\ \A w \in Wanted(rule0, previous) : w > reference.wall => target.wall <= w
<1> DEFINE p == Local(previous).wall
           c == ClockOf(p)
           r == reference.wall
           today == DayOf(r)
           days == rule0.step \div SlotsPerDay
           n == IF days > 1 THEN days ELSE 1
           target == NextDaily(rule0, Local(previous), reference)
           Every(w) == rule0.step > SlotsPerDay => (DayOf(w) - DayOf(p)) % days = 0
<1>1. p \in Int /\ r \in Int /\ rule0.step \in Int
  BY LocalType DEF Readings, Schedules
<1>2. /\ c \in 0 .. SlotsPerDay - 1 /\ today \in Int /\ DayOf(p) \in Int
      /\ ClockOf(r) \in 0 .. SlotsPerDay - 1
      /\ r = today * SlotsPerDay + ClockOf(r)
  BY <1>1, DaysAndClocks, Zenon
<1>3. \A w \in Int : w \in Wanted(rule0, previous) <=> ClockOf(w) = c /\ Every(w)
  BY DEF Wanted, Fits, Matches, AsKept
<1>4. days \in Int /\ n \in Nat \ {0}
  <2>1. days \in Int
    BY <1>1, Division, SlotsPerDayType, Zenon
  <2> HIDE DEF days
  <2> QED
    BY <2>1
<1>5. rule0.step > SlotsPerDay => days \in Nat \ {0} /\ n = days /\ today = DayOf(p)
  BY <1>1, ManyDays
<1>6. n > 1 => rule0.step > SlotsPerDay
  BY <1>1, FewDays
<1>7. target = Beyond(ApplyTime(reference, c), reference, SlotsPerDay * n)
  BY DEF NextDaily
<1>8. ApplyTime(reference, c).wall = today * SlotsPerDay + c
      /\ ApplyTime(reference, c) \in Readings
  BY <1>2, ApplyTimeType
<1> DEFINE first == today * SlotsPerDay + c
<1>9. first \in Int /\ DayOf(first) = today /\ ClockOf(first) = c
  BY <1>2, DayAndClock
<1> HIDE DEF p, c, r, today, days, n, target
<1>10. CASE first > r
  <2>1. target.wall = first
    BY <1>7, <1>8, <1>10 DEF Beyond, r
  <2>2. Every(first)
    <3>1. SUFFICES ASSUME rule0.step > SlotsPerDay PROVE (today - DayOf(p)) % days = 0
      BY <1>9
    <3>2. today - DayOf(p) = 0
      BY <3>1, <1>2, <1>5
    <3>3. days \in Nat \ {0}
      BY <3>1, <1>5
    <3> QED
      BY <3>2, <3>3, Multiples, Zenon
  <2>3. ASSUME NEW w \in Wanted(rule0, previous), w > r PROVE first <= w
    <3>1. w \in Int /\ ClockOf(w) = c
      BY <1>3 DEF Wanted
    <3>2. today <= DayOf(w) /\ DayOf(w) \in Int
      BY <3>1, <2>3, <1>1, OnOrAfter, DaysAndClocks DEF today
    <3>3. w = DayOf(w) * SlotsPerDay + c
      BY <3>1, DaysAndClocks
    <3>4. first <= DayOf(w) * SlotsPerDay + c
      BY <3>2, <1>2, DaysInOrder
    <3> QED
      BY <3>3, <3>4
  <2> HIDE DEF first
  <2> QED
    BY <1>3, <1>9, <2>1, <2>2, <2>3 DEF target, r
<1>11. CASE ~(first > r)
  <2> DEFINE day == today + n
  <2>1. target.wall = day * SlotsPerDay + c
    <3>1. target = Plus(ApplyTime(reference, c),
                        (SlotsPerDay * n) * ((r - first) \div (SlotsPerDay * n) + 1))
      BY <1>7, <1>8, <1>11 DEF Beyond, r
    <3>2. r - first \in 0 .. SlotsPerDay - 1
      <4> DEFINE x == today * SlotsPerDay
      <4>1. x \in Int /\ r = x + ClockOf(r) /\ first = x + c
        BY <1>2, SlotsPerDayType
      <4> HIDE DEF x, first
      <4> QED
        BY <4>1, <1>2, <1>11, SlotsPerDayType
    <3>3. SlotsPerDay * n \in Nat \ {0} /\ SlotsPerDay <= SlotsPerDay * n
      <4>1. 1 <= n /\ 1 \in Int /\ n \in Int
        BY <1>4
      <4>2. 1 * SlotsPerDay <= n * SlotsPerDay /\ n * SlotsPerDay \in Int
        BY <4>1, TimesMonotone, SlotsPerDayType
      <4> QED
        BY <4>2, <1>4, SlotsPerDayType
    <3> DEFINE step == SlotsPerDay * n
               late == r - first
    <3>4. late \div step = 0
      <4>1. late \in 0 .. step - 1
        <5> HIDE DEF late, step
        <5>1. late \in 0 .. SlotsPerDay - 1 /\ step \in Nat /\ SlotsPerDay <= step
          BY <3>2, <3>3 DEF late, step
        <5> QED
          BY <5>1, SlotsPerDayType
      <4>2. step \in Nat \ {0}
        BY <3>3
      <4> HIDE DEF late, step
      <4>3. (0 * step + late) \div step = 0
        BY <4>1, <4>2, DivisionUnique
      <4>4. 0 * step + late = late
        BY <4>1, <4>2
      <4> QED
        BY <4>3, <4>4
    <3>5. target.wall = first + step * (0 + 1)
      BY <3>1, <3>4, <1>8 DEF Plus
    <3>6. day * SlotsPerDay + c = first + SlotsPerDay * n
      BY <1>2, <1>4, SlotsPerDayType
    <3>7. step * (0 + 1) = SlotsPerDay * n
      BY <3>3
    <3> QED
      BY <3>5, <3>6, <3>7
  <2>2. day \in Int /\ DayOf(day * SlotsPerDay + c) = day /\ ClockOf(day * SlotsPerDay + c) = c
        /\ day * SlotsPerDay + c \in Int
    BY <1>2, <1>4, DayAndClock
  <2>3. Every(day * SlotsPerDay + c)
    <3>1. SUFFICES ASSUME rule0.step > SlotsPerDay PROVE (day - DayOf(p)) % days = 0
      BY <2>2
    <3>2. day - DayOf(p) = days
      BY <3>1, <1>2, <1>4, <1>5
    <3>3. days \in Nat \ {0}
      BY <3>1, <1>5
    <3> QED
      BY <3>2, <3>3, Multiples, Zenon
  <2>4. ASSUME NEW w \in Wanted(rule0, previous), w > r PROVE day * SlotsPerDay + c <= w
    <3>1. w \in Int /\ ClockOf(w) = c /\ Every(w)
      BY <1>3 DEF Wanted
    <3>2. today <= DayOf(w) /\ DayOf(w) \in Int
      BY <3>1, <2>4, <1>1, OnOrAfter, DaysAndClocks DEF today
    <3>3. w = DayOf(w) * SlotsPerDay + c
      BY <3>1, DaysAndClocks
    <3>4. today # DayOf(w)
      BY <3>3, <2>4, <1>1, <1>9, <1>11
    <3>5. n <= DayOf(w) - today
      <4>1. CASE n = 1
        BY <4>1, <3>2, <3>4, <1>2
      <4>2. CASE n > 1
        <5>1. n = days /\ days \in Nat \ {0} /\ (DayOf(w) - today) % days = 0
          BY <4>2, <3>1, <1>5, <1>6
        <5>2. DayOf(w) - today \in Nat \ {0}
          BY <3>2, <3>4, <1>2
        <5> QED
          BY <5>1, <5>2, Multiples
      <4> QED
        BY <4>1, <4>2, <1>4
    <3>6. day <= DayOf(w)
      BY <3>2, <3>5, <1>2, <1>4
    <3>7. day * SlotsPerDay + c <= DayOf(w) * SlotsPerDay + c
      BY <3>2, <3>6, <2>2, <1>2, DaysInOrder
    <3> QED
      BY <3>3, <3>7
  <2> HIDE DEF day
  <2> QED
    BY <1>3, <2>1, <2>2, <2>3, <2>4 DEF target, r
<1> QED
  BY <1>10, <1>11

-----------------------------------------------------------------------------
(* The days ahead to a weekday. *)
LEMMA DaysAhead ==
  ASSUME NEW s \in Int, NEW v \in 0 .. 6
  PROVE  /\ (s + ((v - (s % 7)) % 7)) % 7 = v
         /\ (s + 7) % 7 = s % 7
         /\ \A x \in Nat : (s + x) % 7 = v => (v - (s % 7)) % 7 <= x
         /\ \A x \in Nat \ {0} : (s + x) % 7 = v /\ s % 7 = v => 7 <= x
OBVIOUS

LEMMA WeekdayIsFirst ==
  ASSUME NEW reference \in Readings, NEW weekday \in 0 .. 6, NEW clock \in 0 .. SlotsPerDay - 1
  PROVE  LET target == NextWeekday(reference, weekday, clock)
         IN /\ target.wall \in Int /\ ClockOf(target.wall) = clock
            /\ WeekdayOf(target.wall) = weekday
            /\ \A w \in Int : /\ w > reference.wall /\ ClockOf(w) = clock
                               /\ WeekdayOf(w) = weekday
                              => target.wall <= w
<1> DEFINE r == reference.wall
           today == DayOf(r)
           first == today * SlotsPerDay + clock
           s == today + FirstWeekday
           ahead == (weekday - WeekdayOf(r)) % 7
           n == IF ahead = 0 /\ first <= r THEN 7 ELSE ahead
           day == today + n
           target == NextWeekday(reference, weekday, clock)
<1>1. r \in Int /\ today \in Int /\ FirstWeekday \in Int /\ s \in Int
  BY DaysAndClocks, RecurrenceAssumption DEF Readings
<1>2. ApplyTime(reference, clock).wall = first
  BY ApplyTimeType
<1>3. ahead \in 0 .. 6 /\ ahead = (weekday - (s % 7)) % 7
  BY <1>1, WeekdayType DEF WeekdayOf
<1>4. n \in Nat /\ day \in Int
  <2> HIDE DEF ahead, first, r, today
  <2> QED
    BY <1>1, <1>3
<1>5. /\ day * SlotsPerDay + clock \in Int /\ DayOf(day * SlotsPerDay + clock) = day
      /\ ClockOf(day * SlotsPerDay + clock) = clock
      /\ first \in Int
  BY <1>1, <1>4, DayAndClock
<1>6. target.wall = day * SlotsPerDay + clock
  <2>1. target.wall = first + SlotsPerDay * n
    BY <1>2 DEF NextWeekday, Plus
  <2> HIDE DEF n, target, today
  <2> QED
    BY <2>1, <1>1, <1>4, SlotsPerDayType
<1>7. \A w \in Int : WeekdayOf(w) = (DayOf(w) + FirstWeekday) % 7
  BY DEF WeekdayOf
<1> HIDE DEF r, today, s, ahead, n, target, first
<1>8. WeekdayOf(day * SlotsPerDay + clock) = weekday
  <2>1. (s + n) % 7 = weekday
    <3>1. CASE ahead = 0 /\ first <= r
      BY <3>1, <1>1, <1>3, DaysAhead DEF n
    <3>2. CASE ~(ahead = 0 /\ first <= r)
      BY <3>2, <1>1, <1>3, DaysAhead DEF n
    <3> QED
      BY <3>1, <3>2
  <2>2. day + FirstWeekday = s + n
    BY <1>1, <1>4 DEF s
  <2> QED
    BY <2>1, <2>2, <1>5, <1>7
<1>9. ASSUME NEW w \in Int, w > r, ClockOf(w) = clock, WeekdayOf(w) = weekday
      PROVE  day * SlotsPerDay + clock <= w
  <2>1. today <= DayOf(w) /\ DayOf(w) \in Int /\ w = DayOf(w) * SlotsPerDay + clock
    BY <1>9, <1>1, OnOrAfter, DaysAndClocks DEF today
  <2> DEFINE x == DayOf(w) - today
  <2>2. x \in Nat /\ DayOf(w) + FirstWeekday = s + x
    BY <2>1, <1>1 DEF s
  <2>3. (s + x) % 7 = weekday
    BY <2>2, <1>7, <1>9
  <2>4. first <= r => x # 0
    <3>1. SUFFICES ASSUME first <= r, x = 0 PROVE FALSE
      OBVIOUS
    <3>2. today = DayOf(w)
      BY <3>1, <2>1, <1>1
    <3>3. w = first
      BY <3>2, <2>1 DEF first
    <3> QED
      BY <3>1, <3>3, <1>1, <1>5, <1>9
  <2> HIDE DEF x
  <2>5. n <= x
    <3>1. CASE ahead = 0 /\ first <= r
      <4>1. s % 7 = weekday
        BY <3>1, <1>1, <1>3
      <4> QED
        BY <3>1, <4>1, <2>2, <2>3, <2>4, <1>1, DaysAhead DEF n
    <3>2. CASE ~(ahead = 0 /\ first <= r)
      <4>1. ahead <= x
        BY <2>2, <2>3, <1>1, <1>3, DaysAhead
      <4> QED
        BY <3>2, <4>1 DEF n
    <3> QED
      BY <3>1, <3>2
  <2>6. day <= DayOf(w)
    BY <2>1, <2>5, <1>1, <1>4 DEF x
  <2>7. day * SlotsPerDay + clock <= DayOf(w) * SlotsPerDay + clock
    BY <2>1, <2>6, <1>4, DaysInOrder
  <2> QED
    BY <2>1, <2>7
<1> HIDE DEF day
<1> QED
  BY <1>5, <1>6, <1>8, <1>9 DEF target, r

LEMMA WeeklyIsFirst ==
  ASSUME NEW rule0 \in Schedules, rule0.kind = "weekly", NEW previous \in Int,
         NEW reference \in Readings
  PROVE  LET target == NextWeekly(rule0, Local(previous), reference)
         IN /\ target.wall \in Wanted(rule0, previous)
            /\ \A w \in Wanted(rule0, previous) : w > reference.wall => target.wall <= w
<1> DEFINE p == Local(previous).wall
           c == ClockOf(p)
           weekdays == WantedWeekdays(rule0, previous)
           C == {NextWeekday(reference, v, c) : v \in weekdays}
           target == NextWeekly(rule0, Local(previous), reference)
<1>1. p \in Int /\ reference.wall \in Int
  BY LocalType DEF Readings
<1>2. c \in 0 .. SlotsPerDay - 1 /\ WeekdayOf(p) \in 0 .. 6
  BY <1>1, DaysAndClocks, WeekdayType
<1>3. weekdays \subseteq 0 .. 6 /\ weekdays # {}
  BY <1>2 DEF Schedules, WantedWeekdays
<1>4. \A w \in Int : w \in Wanted(rule0, previous) <=> ClockOf(w) = c /\ WeekdayOf(w) \in weekdays
  <2> DEFINE kept == AsKept(rule0, previous)
  <2>1. kept = [rule0 EXCEPT !.step = WeekSlots]
    BY DEF AsKept
  <2>2. kept.kind = "weekly" /\ kept.step = WeekSlots /\ kept.weekdays = rule0.weekdays
    BY <2>1 DEF Schedules
  <2>3. ~(WeekSlots > WeekSlots)
    BY SlotsPerDayType DEF WeekSlots
  <2> HIDE DEF kept
  <2>4. \A l : Matches(kept, previous, l) <=>
                 ClockOf(l.wall) = c /\ WeekdayOf(l.wall) \in weekdays
    BY <2>2, <2>3 DEF Matches, WantedWeekdays
  <2> QED
    BY <2>4 DEF Wanted, Fits, kept
<1>5. target = CHOOSE x \in C : \A y \in C : x.wall <= y.wall
  BY DEF NextWeekly, WantedWeekdays
<1> HIDE DEF p, c, weekdays, target
<1>6. C # {} /\ \A x \in C : IsBeyond(x, reference)
  BY <1>2, <1>3, WeekdayIsBeyond
<1>7. \E x \in C : \A y \in C : x.wall <= y.wall
  BY <1>6, EarliestReading, Zenon
<1>8. target \in C /\ \A y \in C : target.wall <= y.wall
  BY <1>5, <1>7, Zenon
<1>9. target.wall \in Wanted(rule0, previous)
  <2>1. PICK v \in weekdays : target = NextWeekday(reference, v, c)
    BY <1>8
  <2>2. target.wall \in Int /\ ClockOf(target.wall) = c /\ WeekdayOf(target.wall) = v
    BY <2>1, <1>2, <1>3, WeekdayIsFirst
  <2> QED
    BY <2>2, <1>4
<1>10. ASSUME NEW w \in Wanted(rule0, previous), w > reference.wall PROVE target.wall <= w
  <2> DEFINE v == WeekdayOf(w)
             y == NextWeekday(reference, v, c)
  <2>1. w \in Int /\ ClockOf(w) = c /\ v \in weekdays
    BY <1>4 DEF Wanted
  <2>2. v \in 0 .. 6
    BY <2>1, <1>3
  <2>3. y.wall \in Int /\ y.wall <= w
    BY <2>1, <2>2, <1>2, <1>10, WeekdayIsFirst
  <2>4. target.wall <= y.wall
    BY <2>1, <1>8
  <2>5. target.wall \in Int
    BY <1>9 DEF Wanted
  <2> HIDE DEF y
  <2> QED
    BY <2>1, <2>3, <2>4, <2>5
<1> QED
  BY <1>9, <1>10 DEF target

LEMMA UpTo28 ==
  ASSUME NEW day \in Nat \ {0}
  PROVE  SmallerOf(day, 28) \in 1 .. 28 /\ SmallerOf(day, 28) <= day
BY DEF SmallerOf

LEMMA MonthlyIsFirst ==
  ASSUME NEW rule0 \in Schedules, rule0.kind = "monthly", NEW previous \in Int,
         NEW reference \in Readings, Possible(rule0, previous),
         Local(previous).wall \in Nat, Local(previous).wall <= reference.wall,
         Len(MonthStart) > 1, DayOf(reference.wall) < MonthStart[Len(MonthStart) - 1],
         MonthOf(DayOf(reference.wall)) = MonthOf(DayOf(Local(previous).wall))
  PROVE  LET target == NextMonthly(rule0, Local(previous), reference)
         IN /\ target.wall \in Wanted(rule0, previous)
            /\ \A w \in Wanted(rule0, previous) : w > reference.wall => target.wall <= w
<1> DEFINE p == Local(previous).wall
           c == ClockOf(p)
           r == reference.wall
           today == DayOf(r)
           month == MonthOf(today)
           day == WantedDay(rule0, previous)
           k == SmallerOf(day, 28)
           date == MonthStart[month + 1] + k - 1
           target == NextMonthly(rule0, Local(previous), reference)
<1>1. p \in Nat /\ r \in Nat /\ Local(previous) \in Readings /\ p <= r
  BY LocalType DEF Readings
<1>2. /\ DayOf(p) \in Nat /\ today \in Nat /\ c \in 0 .. SlotsPerDay - 1
      /\ DayOf(p) < MonthStart[Len(MonthStart) - 1]
  <2>1. p \in Int /\ r \in Int
    BY <1>1
  <2>2. MonthStart[Len(MonthStart) - 1] \in Int
    BY CalendarType
  <2> QED
    BY <1>1, <2>1, <2>2, DaysAndClocks, NaturalDay, EarlierDay, Zenon
<1>3. /\ target.wall = date * SlotsPerDay + c /\ date \in Nat /\ today < date
      /\ month \in 1 .. Len(MonthStart) - 2 /\ IsIn(today, month) /\ IsIn(date, month + 1)
  BY <1>1, <1>2, MonthlyDate DEF WantedDay
<1>5. /\ Len(MonthStart) \in Nat /\ Len(MonthStart) - 1 \in 1 .. Len(MonthStart)
      /\ \A m \in 1 .. Len(MonthStart) : MonthStart[m] \in Nat
  BY RecurrenceAssumption
<1>6. month = MonthOf(DayOf(p)) /\ IsIn(DayOf(p), month)
  BY <1>2, <1>5, MonthOfDay
<1>7. DayOfMonth(DayOf(p)) \in Nat \ {0} /\ k \in 1 .. 28 /\ k <= DayOfMonth(DayOf(p))
  <2>1. DayOfMonth(DayOf(p)) \in Nat \ {0}
    BY <1>2, <1>5, DayOfMonthType
  <2> USE DEF WantedDay
  <2>2. CASE rule0.day # 0
    <3>1. rule0.day \in Nat \ {0}
      BY <2>2, RuleDay
    <3>2. DayOfMonth(DayOf(p)) >= SmallerOf(rule0.day, 28)
      BY <2>2 DEF Possible
    <3>3. k = SmallerOf(rule0.day, 28)
      BY <2>2
    <3>4. SmallerOf(rule0.day, 28) \in 1 .. 28
      BY <3>1, UpTo28
    <3> QED
      BY <3>2, <3>3, <3>4, <2>1
  <2>3. CASE rule0.day = 0
    <3>1. k = SmallerOf(DayOfMonth(DayOf(p)), 28)
      BY <2>3
    <3> QED
      BY <3>1, <2>1, UpTo28, Zenon
  <2> QED
    BY <2>2, <2>3
<1>4. \A w \in Int : w \in Wanted(rule0, previous) <=>
        ClockOf(w) = c /\ DayOfMonth(DayOf(w)) = SmallerOf(k, MonthDays(MonthOf(DayOf(w))))
  <2> DEFINE kept == AsKept(rule0, previous)
  <2>1. kept = [rule0 EXCEPT !.day = k]
    BY DEF AsKept
  <2>2. kept.kind = "monthly" /\ kept.day = k /\ k # 0
    <3> HIDE DEF k, kept
    <3>1. k # 0
      BY <1>7
    <3> QED
      BY <2>1, <3>1 DEF Schedules
  <2> HIDE DEF kept, k, c
  <2>3. WantedDay(kept, previous) = k
    BY <2>2 DEF WantedDay
  <2>4. \A l : Matches(kept, previous, l) <=>
            /\ ClockOf(l.wall) = c
            /\ DayOfMonth(DayOf(l.wall)) = SmallerOf(k, MonthDays(MonthOf(DayOf(l.wall))))
    BY <2>2, <2>3 DEF Matches, c
  <2> QED
    BY <2>4 DEF Wanted, Fits, kept
<1>8. DayOfMonth(DayOf(p)) = DayOf(p) - MonthStart[month] + 1
  BY <1>6 DEF DayOfMonth
<1>13. \A m \in 1 .. Len(MonthStart) - 1 : SmallerOf(k, MonthDays(m)) = k
  <2> TAKE m \in 1 .. Len(MonthStart) - 1
  <2>1. MonthDays(m) \in 28 .. 31
    BY MonthLength
  <2> HIDE DEF k
  <2> QED
    BY <2>1, <1>7 DEF SmallerOf
<1> HIDE DEF p, c, r, today, day, k, target, month
<1>9. /\ month \in 1 .. Len(MonthStart) /\ month + 1 \in 1 .. Len(MonthStart)
      /\ month + 1 \in 1 .. Len(MonthStart) - 1 /\ month \in 1 .. Len(MonthStart) - 1
      /\ MonthStart[month] \in Nat /\ MonthStart[month + 1] \in Nat
  BY <1>3, <1>5
<1>10. target.wall \in Wanted(rule0, previous)
  <2>1. /\ date * SlotsPerDay + c \in Int /\ DayOf(date * SlotsPerDay + c) = date
        /\ ClockOf(date * SlotsPerDay + c) = c
    BY <1>2, <1>3, DayAndClock
  <2>2. MonthOf(date) = month + 1
    BY <1>3, <1>9, MonthUnique
  <2>3. DayOfMonth(date) = date - MonthStart[month + 1] + 1
    BY <2>2 DEF DayOfMonth
  <2>4. DayOfMonth(date) = k
    BY <2>3, <1>7, <1>9
  <2>5. SmallerOf(k, MonthDays(MonthOf(date))) = k
    BY <2>2, <1>9, <1>13
  <2> HIDE DEF date
  <2> QED
    BY <1>3, <1>4, <2>1, <2>4, <2>5
<1>11. ASSUME NEW w \in Wanted(rule0, previous), w > r PROVE target.wall <= w
  <2> DEFINE d == DayOf(w)
  <2>1. /\ w \in Int /\ ClockOf(w) = c
        /\ DayOfMonth(d) = SmallerOf(k, MonthDays(MonthOf(d)))
    BY <1>4 DEF Wanted
  <2>2. d \in Int /\ today <= d /\ w = d * SlotsPerDay + c
    BY <2>1, <1>1, <1>11, OnOrAfter, DaysAndClocks DEF today
  <2>3. date <= d
    <3>1. SUFFICES ASSUME d < date PROVE FALSE
      BY <1>3, <2>2
    <3>2. d \in Nat
      BY <2>2, <1>2
    <3>3. CASE d < MonthStart[month + 1]
      <4>1. IsIn(d, month)
        BY <3>3, <2>2, <1>2, <1>3, <1>9 DEF IsIn
      <4>2. MonthOf(d) = month
        BY <4>1, <3>2, <1>9, MonthUnique
      <4>3. k = d - MonthStart[month] + 1
        BY <2>1, <4>2, <1>9, <1>13 DEF DayOfMonth
      <4>4. d <= DayOf(p)
        BY <4>3, <1>2, <1>7, <1>8, <1>9, <3>2
      <4>5. p <= r /\ p < w
        BY <1>1, <1>11, <2>1
      <4>6. DayOf(p) <= d /\ (DayOf(p) = d => ClockOf(p) < ClockOf(w))
        BY <4>5, <1>1, <2>1, OnOrAfter
      <4>7. DayOf(p) = d
        BY <4>4, <4>6, <1>2, <3>2
      <4> QED
        BY <4>6, <4>7, <2>1, <1>2 DEF c
    <3>4. CASE ~(d < MonthStart[month + 1])
      <4>1. IsIn(d, month + 1)
        BY <3>1, <3>2, <3>4, <1>3, <1>9, <1>5 DEF IsIn
      <4>2. MonthOf(d) = month + 1
        BY <4>1, <3>2, <1>9, MonthUnique
      <4>3. k = d - MonthStart[month + 1] + 1
        BY <2>1, <4>2, <1>9, <1>13 DEF DayOfMonth
      <4> QED
        BY <4>3, <3>1, <3>2, <1>7, <1>9
    <3> QED
      BY <3>3, <3>4
  <2>4. date * SlotsPerDay + c <= d * SlotsPerDay + c
    BY <2>2, <2>3, <1>2, <1>3, DaysInOrder
  <2> HIDE DEF d
  <2> QED
    BY <2>2, <2>4, <1>3
<1> QED
  BY <1>10, <1>11 DEF target, r

-----------------------------------------------------------------------------
(* The first multiple of a step beyond what has passed. *)
LEMMA NextMultiple ==
  ASSUME NEW late \in Int, NEW step \in Nat \ {0}
  PROVE  LET k == step * (late \div step + 1)
         IN /\ k \in Int /\ late < k /\ k <= late + step /\ k % step = 0
            /\ \A y \in late + 1 .. k - 1 : y % step # 0
<1> DEFINE q == late \div step
           x == q * step
           k == step * (q + 1)
<1>1. q \in Int /\ late % step \in 0 .. step - 1 /\ late = x + (late % step)
  BY Division, Zenon
<1> HIDE DEF q
<1>2. x \in Int /\ k = x + step
  BY <1>1
<1>3. k = (q + 1) * step + 0 /\ q + 1 \in Int
  BY <1>1
<1>4. k % step = 0
  <2>1. ((q + 1) * step + 0) % step = 0
    BY <1>3, DivisionUnique
  <2> QED
    BY <2>1, <1>3
<1>5. ASSUME NEW y \in late + 1 .. k - 1 PROVE y % step # 0
  <2> HIDE DEF x, k
  <2>1. y - x \in 1 .. step - 1 /\ x + (y - x) = y
    BY <1>1, <1>2
  <2>2. (q * step + (y - x)) % step = y - x
    <3> DEFINE r == y - x
    <3>1. r \in 0 .. step - 1
      BY <2>1
    <3> HIDE DEF r
    <3>2. (q * step + r) % step = r
      BY <1>1, <3>1, DivisionUnique, Zenon
    <3> QED
      BY <3>2 DEF r
  <2> QED
    BY <2>1, <2>2 DEF x
<1> HIDE DEF x, k
<1>6. k \in Int /\ late < k /\ k <= late + step
  BY <1>1, <1>2
<1> QED
  BY <1>4, <1>5, <1>6 DEF k, q

LEMMA IntervalIsFirst ==
  ASSUME NEW rule0 \in Schedules, rule0.kind = "interval", ~Raises(rule0),
         NEW previous \in Int, NEW after \in Int, previous <= after, Local(after).fold = 0,
         \A t \in {Forward, Back} : ~(previous < t /\ t <= after + rule0.step)
  PROVE  LET next == Utc(NextInterval(rule0, Local(previous), Local(after)))
         IN /\ next > after
            /\ Fits(rule0, previous, Local(next))
            /\ \A u \in after + 1 .. next - 1 : ~Fits(rule0, previous, Local(u))
<1> DEFINE step == rule0.step
           o == Local(previous).wall - previous
           late == after - previous
           k == step * (late \div step + 1)
           x == previous + k
           target == NextInterval(rule0, Local(previous), Local(after))
<1>1. step \in Nat \ {0} /\ late \in Int
  BY DEF Raises, Schedules
<1>2. k \in Int /\ late < k /\ k <= late + step /\ k % step = 0
      /\ \A y \in late + 1 .. k - 1 : y % step # 0
  <2> HIDE DEF step, late
  <2> QED
    BY <1>1, NextMultiple, Zenon
<1> HIDE DEF step, k
<1>3. x \in Int /\ after < x /\ x <= after + step
  BY <1>1, <1>2
<1>4. \/ Back <= previous
      \/ Forward <= previous /\ after + step < Back
      \/ after + step < Forward /\ after + step < Back
  BY <1>1, RecurrenceAssumption DEF step
<1>5. o \in Int /\ \A u \in previous .. after + step : Local(u).wall = u + o
  BY <1>1, <1>4, RecurrenceAssumption DEF Local
<1>6. Local(previous).wall = previous + o /\ Local(after).wall = after + o
  BY <1>1, <1>5
<1>7. target = [wall |-> x + o, fold |-> 0]
  <2>1. ~(Local(previous).wall > Local(after).wall)
    BY <1>5, <1>6
  <2>2. Local(after).wall - Local(previous).wall = late
    BY <1>5, <1>6
  <2>3. target = Plus(Local(previous), k)
    BY <2>1, <2>2 DEF NextInterval, Beyond, k, step
  <2>4. Local(previous).wall + k = x + o
    BY <1>2, <1>5, <1>6
  <2> HIDE DEF target
  <2> QED
    BY <2>3, <2>4 DEF Plus
<1> HIDE DEF target
<1>8. Utc(target) = x
  <2>1. after < Back \/ Back + Shift <= after
    BY RecurrenceAssumption DEF Local, Repeated
  <2>2. target.wall = x + o /\ target.fold = 0
    BY <1>7
  <2>3. CASE Back <= previous
    <3>1. o = 0
      BY <2>3, RecurrenceAssumption DEF Local
    <3>2. Back + Shift < x
      BY <2>1, <2>3, <1>3, RecurrenceAssumption
    <3> HIDE DEF o, x
    <3> QED
      BY <2>2, <3>1, <3>2, <1>3, RecurrenceAssumption DEF Utc, IsSummer, Repeated, Skipped
  <2>4. CASE Forward <= previous /\ after + step < Back
    <3>1. o = Shift
      BY <2>4, <1>1, RecurrenceAssumption DEF Local
    <3>2. Forward < x /\ x < Back
      BY <2>4, <1>1, <1>3, RecurrenceAssumption
    <3> HIDE DEF o, x
    <3> QED
      BY <2>2, <3>1, <3>2, <1>3, RecurrenceAssumption DEF Utc, IsSummer, Repeated, Skipped
  <2>5. CASE after + step < Forward /\ after + step < Back
    <3>1. o = 0
      BY <2>5, <1>1, RecurrenceAssumption DEF Local
    <3>2. x < Forward /\ x < Back
      BY <2>5, <1>1, <1>3, RecurrenceAssumption
    <3> HIDE DEF o, x
    <3> QED
      BY <2>2, <3>1, <3>2, <1>3, RecurrenceAssumption DEF Utc, IsSummer, Repeated, Skipped
  <2> QED
    BY <1>4, <2>3, <2>4, <2>5
<1>9. \A u \in previous .. after + step :
        Fits(rule0, previous, Local(u)) <=> (u - previous) % step = 0
  <2> TAKE u \in previous .. after + step
  <2>1. Local(u).wall - Local(previous).wall = u - previous
    BY <1>1, <1>5, <1>6
  <2> QED
    BY <2>1 DEF Fits, Matches, AsKept, step
<1>10. Fits(rule0, previous, Local(x))
  <2>1. x \in previous .. after + step /\ x - previous = k
    BY <1>1, <1>2, <1>3
  <2> HIDE DEF x
  <2> QED
    BY <2>1, <1>2, <1>9
<1>11. ASSUME NEW u \in after + 1 .. x - 1 PROVE ~Fits(rule0, previous, Local(u))
  <2>1. u \in previous .. after + step /\ u - previous \in late + 1 .. k - 1
    BY <1>1, <1>2, <1>3
  <2> QED
    BY <2>1, <1>2, <1>9
<1> HIDE DEF x
<1> QED
  BY <1>3, <1>8, <1>10, <1>11 DEF target

-----------------------------------------------------------------------------
(* Regular, of any call. *)
RegularCall(rule0, previous, after) ==
    LET p == Local(previous)
        a == Local(after)
    IN /\ Plain(ClockOf(p.wall))
       /\ rule0.kind = "daily" /\ rule0.step > SlotsPerDay => DayOf(a.wall) = DayOf(p.wall)
       /\ rule0.kind = "interval" =>
             /\ a.fold # 1
             /\ \A t \in {Forward, Back} : ~(previous < t /\ t <= after + rule0.step)
       /\ rule0.kind = "monthly" => MonthOf(DayOf(a.wall)) = MonthOf(DayOf(p.wall))

(* The readings a rule of days wants are away from the changes. *)
LEMMA WantedIsPlain ==
  ASSUME NEW rule0 \in Schedules, rule0.kind \in {"daily", "weekly", "monthly"}, NEW previous,
         Plain(ClockOf(Local(previous).wall)), NEW w \in Wanted(rule0, previous)
  PROVE  ~Repeated(w) /\ ~Skipped(w)
<1> DEFINE kept == AsKept(rule0, previous)
<1>1. kept.kind = rule0.kind
  BY DEF AsKept, Schedules
<1>2. w \in Int /\ Matches(kept, previous, [wall |-> w, fold |-> 0])
  BY DEF Wanted, Fits
<1> HIDE DEF kept
<1>3. ClockOf(w) = ClockOf(Local(previous).wall)
  BY <1>1, <1>2 DEF Matches
<1> QED
  BY <1>2, <1>3, PlainReading

(* core/scheduler.py, next_occurrence: for every rule, calendar and pair of   *)
(* clock changes, a regular call answers the first moment that the rule wants *)
(* after the call.                                                            *)
THEOREM NextIsFirst ==
  ASSUME NEW rule0 \in Schedules, rule0.kind # "one_time", ~Raises(rule0),
         NEW previous \in Int, NEW after \in Int, previous <= after,
         Local(previous).wall \in Nat,
         Len(MonthStart) > 1, DayOf(after + Shift) < MonthStart[Len(MonthStart) - 1],
         Possible(rule0, previous), RegularCall(rule0, previous, after)
  PROVE  LET next == NextOccurrence(rule0, previous, after)
         IN /\ next > after
            /\ Fits(rule0, previous, Local(next))
            /\ \A u \in after + 1 .. next - 1 : ~Fits(rule0, previous, Local(u))
<1> DEFINE from == Local(previous)
           reference == Local(after)
           next == NextOccurrence(rule0, previous, after)
           W == Wanted(rule0, previous)
<1>1. from \in Readings /\ reference \in Readings
  BY LocalType
<1>2. rule0.kind \in {"daily", "weekly", "monthly", "interval"}
  BY DEF Schedules, Kinds
<1>3. from.wall <= reference.wall
  <2>1. CASE previous = after
    BY <2>1, <1>1 DEF Readings
  <2>2. CASE previous < after /\ reference.fold = 0
    <3>1. from.wall < reference.wall
      BY <2>2, WallsInOrder
    <3> QED
      BY <3>1, <1>1 DEF Readings
  <2>3. CASE Repeated(after)
    <3>1. ~Repeated(from.wall)
      <4>1. from.wall \in Int /\ Plain(ClockOf(from.wall))
        BY <1>1 DEF Readings, RegularCall
      <4> QED
        BY <4>1, PlainReading
    <3> QED
      BY <2>3, <3>1, RecurrenceAssumption DEF Local, Repeated
  <2> QED
    BY <2>1, <2>2, <2>3 DEF Local
<1>4. ASSUME NEW target \in Readings, next = Utc(target),
             rule0.kind \in {"daily", "weekly", "monthly"},
             target.wall \in W, target.wall > reference.wall,
             \A w \in W : w > reference.wall => target.wall <= w
      PROVE  /\ next > after
             /\ Fits(rule0, previous, Local(next))
             /\ \A u \in after + 1 .. next - 1 : ~Fits(rule0, previous, Local(u))
  <2>1. \A w \in W : ~Repeated(w) /\ ~Skipped(w)
    BY <1>4, WantedIsPlain DEF RegularCall
  <2>2. W \in SUBSET Int
    BY DEF Wanted
  <2>3. /\ next > after
        /\ Local(next).wall \in W
        /\ \A u \in after + 1 .. next - 1 : Local(u).wall \notin W
    BY <1>1, <1>4, <2>1, <2>2, FirstReading, Zenon
  <2>4. next \in Int
    BY <1>4, <2>1, FoundAgain
  <2>5. Local(next).wall \in Int
    BY <2>2, <2>3
  <2>6. Fits(rule0, previous, Local(next))
    BY <1>4, <2>3, <2>5, WantedIsMatching
  <2>7. ASSUME NEW u \in after + 1 .. next - 1 PROVE ~Fits(rule0, previous, Local(u))
    <3>1. u \in Int
      BY <2>4
    <3>2. Local(u).wall \in Int
      BY <3>1, LocalType DEF Readings
    <3> QED
      BY <1>4, <3>2, <2>3, WantedIsMatching
  <2> QED
    BY <2>3, <2>6, <2>7
<1> HIDE DEF W
<1>5. CASE rule0.kind = "daily"
  <2> DEFINE target == NextDaily(rule0, from, reference)
  <2>1. next = Utc(target)
    BY <1>5 DEF NextOccurrence
  <2>2. IsBeyond(target, reference)
    BY <1>1, DailyIsBeyond
  <2>3. rule0.step > SlotsPerDay => DayOf(reference.wall) = DayOf(Local(previous).wall)
    BY <1>5 DEF RegularCall
  <2>4. target.wall \in W /\ \A w \in W : w > reference.wall => target.wall <= w
    BY <1>1, <1>5, <2>3, DailyIsFirst DEF W
  <2> HIDE DEF target, next, reference
  <2>10. target \in Readings /\ target.wall > reference.wall
    BY <2>2 DEF IsBeyond
  <2>11. rule0.kind \in {"daily", "weekly", "monthly"}
    BY <1>5
  <2> QED
    BY <1>4, <2>1, <2>4, <2>10, <2>11, Zenon DEF next
<1>6. CASE rule0.kind = "weekly"
  <2> DEFINE target == NextWeekly(rule0, from, reference)
  <2>1. next = Utc(target)
    BY <1>6 DEF NextOccurrence
  <2>2. IsBeyond(target, reference)
    BY <1>1, WeeklyIsBeyond
  <2>3. target.wall \in W /\ \A w \in W : w > reference.wall => target.wall <= w
    BY <1>1, <1>6, WeeklyIsFirst DEF W
  <2> HIDE DEF target, next, reference
  <2>10. target \in Readings /\ target.wall > reference.wall
    BY <2>2 DEF IsBeyond
  <2>11. rule0.kind \in {"daily", "weekly", "monthly"}
    BY <1>6
  <2> QED
    BY <1>4, <2>1, <2>3, <2>10, <2>11, Zenon DEF next
<1>7. CASE rule0.kind = "monthly"
  <2> DEFINE target == NextMonthly(rule0, from, reference)
  <2>1. next = Utc(target)
    BY <1>7 DEF NextOccurrence
  <2>2. /\ from.wall \in Nat /\ reference.wall \in Nat
        /\ reference.wall <= after + Shift /\ after + Shift \in Int
    BY <1>1, <1>3, RecurrenceAssumption DEF Local, Readings
  <2>3. /\ DayOf(reference.wall) < MonthStart[Len(MonthStart) - 1]
        /\ DayOf(from.wall) < MonthStart[Len(MonthStart) - 1]
    <3>1. from.wall <= after + Shift
      BY <2>2, <1>3
    <3> QED
      BY <2>2, <3>1, EarlierDay, CalendarType
  <2>4. MonthOf(DayOf(reference.wall)) = MonthOf(DayOf(Local(previous).wall))
    BY <1>7 DEF RegularCall
  <2>5. IsBeyond(target, reference)
    BY <1>1, <2>2, <2>3, MonthlyIsBeyond
  <2>6. target.wall \in W /\ \A w \in W : w > reference.wall => target.wall <= w
    BY <1>1, <1>3, <1>7, <2>2, <2>3, <2>4, MonthlyIsFirst DEF W
  <2> HIDE DEF target, next, reference
  <2>10. target \in Readings /\ target.wall > reference.wall
    BY <2>5 DEF IsBeyond
  <2>11. rule0.kind \in {"daily", "weekly", "monthly"}
    BY <1>7
  <2> QED
    BY <1>4, <2>1, <2>6, <2>10, <2>11, Zenon DEF next
<1>8. CASE rule0.kind = "interval"
  <2>1. next = Utc(NextInterval(rule0, from, reference))
    BY <1>8 DEF NextOccurrence
  <2>2. /\ reference.fold = 0
        /\ \A t \in {Forward, Back} : ~(previous < t /\ t <= after + rule0.step)
    BY <1>1, <1>8 DEF RegularCall, Readings
  <2> QED
    BY <1>1, <1>8, <2>1, <2>2, IntervalIsFirst
<1> QED
  BY <1>2, <1>5, <1>6, <1>7, <1>8

(* A reading of the calendar is one again when it is found by its moment. *)
LEMMA DueIsInTheCalendar ==
  ASSUME NEW wall \in Nat
  PROVE  LET previous == Utc([wall |-> wall, fold |-> 0])
         IN previous \in Int /\ Local(previous).wall \in Nat
BY RecurrenceAssumption DEF Utc, IsSummer, Local, Repeated, Skipped

(* Every rule is kept to the letter that is not for every few weeks or for a *)
(* day that some month does not have.                                        *)
LEMMA MostRulesAreKept ==
  ASSUME NEW rule0 \in Schedules, NEW previous, NEW l,
         rule0.kind = "weekly" => rule0.step <= WeekSlots,
         rule0.kind = "monthly" => WantedDay(rule0, previous) \in 1 .. 28
  PROVE  Fits(rule0, previous, l) <=> Matches(rule0, previous, l)
<1> DEFINE kept == AsKept(rule0, previous)
<1>1. CASE rule0.kind = "weekly"
  <2>1. kept = [rule0 EXCEPT !.step = WeekSlots]
    BY <1>1 DEF AsKept
  <2>2. kept.kind = "weekly" /\ kept.step = WeekSlots /\ kept.weekdays = rule0.weekdays
    BY <1>1, <2>1 DEF Schedules
  <2>3. ~(WeekSlots > WeekSlots) /\ ~(rule0.step > WeekSlots)
    BY <1>1, SlotsPerDayType DEF WeekSlots, Schedules
  <2> HIDE DEF kept
  <2> QED
    BY <1>1, <2>2, <2>3 DEF Fits, Matches, WantedWeekdays, kept
<1>2. CASE rule0.kind = "monthly"
  <2> DEFINE k == WantedDay(rule0, previous)
  <2>1. k # 0 /\ SmallerOf(k, 28) = k
    BY <1>2 DEF SmallerOf
  <2>2. kept = [rule0 EXCEPT !.day = k]
    BY <1>2, <2>1 DEF AsKept
  <2>3. kept.kind = "monthly" /\ kept.day = k
    BY <1>2, <2>2 DEF Schedules
  <2> HIDE DEF kept, k
  <2>4. WantedDay(kept, previous) = k
    BY <2>1, <2>3 DEF WantedDay
  <2> QED
    BY <1>2, <2>3, <2>4 DEF Fits, Matches, kept, k
<1>3. CASE rule0.kind \notin {"weekly", "monthly"}
  BY <1>3 DEF Fits, AsKept
<1> QED
  BY <1>1, <1>2, <1>3

(* What next_occurrence is asked, and what it says. *)
OccurrencesInv ==
    input.of = "next_occurrence" =>
        input \in Occurrences /\ answer \in {{}, {NextOfInput(input)}}

(* core/scheduler.py: a recurring reminder stays on local wall-clock time, in *)
(* every calendar and with every rule, as the code keeps to it.               *)
THEOREM NextIsAlwaysFirstMatch == TablesSpec => []NextIsFirstMatch
<1>1. TablesInit => OccurrencesInv
  BY DEF TablesInit, OccurrencesInv, Situations, Commands, Messages
<1>2. OccurrencesInv /\ [TablesNext]_tableVars => OccurrencesInv'
  BY DEF OccurrencesInv, TablesNext, tableVars, Judge, Classify, Offer, Schedule
<1>3. OccurrencesInv => NextIsFirstMatch
  <2> SUFFICES ASSUME OccurrencesInv, Scheduled, input.rule.kind # "one_time"
               PROVE  /\ TheAnswer > input.after \/ PassedAlready
                      /\ Regular =>
                            /\ TheAnswer > input.after
                            /\ Fits(input.rule, input.previous, Local(TheAnswer))
                            /\ \A u \in input.after + 1 .. TheAnswer - 1 :
                                  ~Fits(input.rule, input.previous, Local(u))
    BY DEF NextIsFirstMatch, Fits
  <2>1. input \in Occurrences /\ answer = {NextOfInput(input)}
    BY DEF OccurrencesInv, Scheduled, Answered
  <2>2. TheAnswer = NextOccurrence(input.rule, input.previous, input.after)
    BY <2>1 DEF TheAnswer, NextOfInput
  <2>3. PICK d \in Days, clock \in Clocks, delay \in Delays :
          /\ input.previous = DueAt(d, clock) /\ input.after = DueAt(d, clock) + delay
          /\ input.rule \in RowRules /\ Possible(input.rule, input.previous)
    BY <2>1 DEF Occurrences
  <2>4. /\ input.rule \in Schedules /\ ~Raises(input.rule)
        /\ d \in Nat /\ clock \in 0 .. SlotsPerDay - 1 /\ delay \in Nat
        /\ Len(MonthStart) > 1
        /\ DayOf(input.after + Shift) < MonthStart[Len(MonthStart) - 1]
    BY <2>3, TablesAssumption
  <2>5. d * SlotsPerDay + clock \in Nat
    BY <2>4, SlotsPerDayType
  <2>6. input.previous \in Int /\ Local(input.previous).wall \in Nat
    BY <2>3, <2>5, DueIsInTheCalendar DEF DueAt
  <2>7. input.after \in Int /\ input.previous <= input.after
    BY <2>3, <2>4, <2>6
  <2>8. ASSUME Regular PROVE RegularCall(input.rule, input.previous, input.after)
    BY <2>8 DEF Regular, RegularCall, InSecondPass, Plain
  <2>9. Later(TheAnswer, input.after)
    BY <2>2, <2>4, <2>6, <2>7, NextIsLater, Zenon
  <2>10. TheAnswer > input.after \/ PassedAlready
    BY <2>7, <2>9, LocalType DEF Later, PassedAlready, InSecondPass
  <2> QED
    BY <2>2, <2>3, <2>4, <2>6, <2>7, <2>8, <2>10, NextIsFirst, Zenon
<1> QED
  BY <1>1, <1>2, <1>3, PTL DEF TablesSpec

-----------------------------------------------------------------------------
(* Scheduler: its inductive invariant. *)

Firing == pc \in {"updating", "updated"}

(* The due rows that were read and not announced yet. *)
OnTheList == pending \cup {s \in {current} : Firing}

(* Between the ticks the list is empty, and it has a reminder once. *)
OneEach ==
    /\ ~Firing => pending = {}
    /\ \A s \in pending : s.id # current.id
    /\ \A s, t \in pending : s.id = t.id => s = t

(* Only what is enabled is selected, and enabling makes audible again. *)
SilenceInv ==
    /\ \A r \in Reminders : row[r] = "unused" => ~enabled[r] /\ extra[r] = "audible"
    /\ \A r \in Reminders : enabled[r] => extra[r] = "audible"
    /\ \A s \in OnTheList : extra[s.id] # "one"

(* What is stored is moved on before it is announced. *)
TimesInv ==
    /\ \A r \in Reminders :
          /\ told[r] <= now
          /\ row[r] = "unused" => told[r] = NoTime
          /\ row[r] = "stored" => nextRun[r] # NoTime
          /\ row[r] = "stored" /\ enabled[r] => Fresh(nextRun[r], told[r])
    /\ \A s \in OnTheList :
          /\ s.next <= now
          /\ row[s.id] # "unused"
          /\ ~Raises(rule[s.id])
          /\ Fresh(s.next, told[s.id])
    /\ pc \in {"selecting", "updating"} => moment \in 0 .. now
    /\ pc = "updating" => current.next <= moment /\ told[current.id] <= moment
    /\ pc = "updated" /\ row[current.id] = "stored" /\ enabled[current.id] =>
          Fresh(nextRun[current.id], current.next) \/ told[current.id] = NextIsOld

SilencedInv == TypeOK /\ OneEach /\ SilenceInv /\ SilencedSoon

SchedulerInv == SilencedInv /\ TimesInv

-----------------------------------------------------------------------------
(* Scheduler: the steps. *)

TickTypes ==
    /\ process \in {"off", "starting", "up"}
    /\ pc \in {"idle", "selecting", "updating", "updated"}
    /\ moment \in Times
    /\ pending \subseteq Snapshots
    /\ current \in Snapshots \cup {None}
    /\ process = "off" => pc = "idle"
    /\ process = "starting" => pc # "idle"
    /\ Firing <=> current # None

RowTypes ==
    /\ now \in 0 .. Horizon
    /\ rule \in Rules
    /\ row \in [Reminders -> {"unused", "stored", "deleted"}]
    /\ enabled \in [Reminders -> BOOLEAN]
    /\ nextRun \in [Reminders -> Nat \cup {NoTime}]
    /\ failures \in 0 .. MaxFailures
    /\ told \in [Reminders -> Times \cup {NextIsOld}]
    /\ extra \in [Reminders -> {"audible", "none", "one", "more"}]

LEMMA TypesSplit == TypeOK <=> TickTypes /\ RowTypes
BY Zenon DEF TypeOK, TickTypes, RowTypes, Firing

LEMMA HorizonType == Horizon \in Nat /\ "none" \notin Reminders
BY SchedulerAssumption

(* The initial state. *)
LEMMA SchedulerInit == Init => SchedulerInv
<1> SUFFICES ASSUME Init PROVE SchedulerInv
  OBVIOUS
<1>1. TypeOK
  BY HorizonType, SchedulerAssumption DEF Init, TypeOK, Times, NoTime, None
<1>2. OneEach /\ SilenceInv /\ SilencedSoon
  BY DEF Init, OneEach, SilenceInv, SilencedSoon, Firing, OnTheList
<1>3. TimesInv
  BY HorizonType DEF Init, TimesInv, Firing, OnTheList, NoTime
<1> QED
  BY <1>1, <1>2, <1>3 DEF SchedulerInv, SilencedInv

(* On to the next reminder of a list. *)
IsList(due) == due \subseteq Snapshots /\ \A s, t \in due : s.id = t.id => s = t

LEMMA BeginChooses ==
  ASSUME NEW due, Begin(due)
  PROVE  \/ EndTick
         \/ /\ pc' = "updating" /\ moment' = now /\ process' = process
            /\ current' \in due /\ pending' \subseteq due \ {current'}
            /\ \A s \in pending' \cup {current'} : ~Raises(rule[s.id])
<1> DEFINE sound == {s \in due : ~Raises(rule[s.id])}
<1>1. CASE sound = {}
  BY <1>1 DEF Begin
<1>2. CASE sound # {}
  <2>1. /\ pc' = "updating" /\ moment' = now /\ process' = process
        /\ \E s \in Earliest(sound) : current' = s /\ pending' = sound \ {s}
    BY <1>2 DEF Begin
  <2>2. PICK s \in Earliest(sound) : current' = s /\ pending' = sound \ {s}
    BY <2>1
  <2>3. s \in sound
    BY DEF Earliest
  <2> QED
    BY <2>1, <2>2, <2>3
<1> QED
  BY <1>1, <1>2

LEMMA SnapshotIsNotNone ==
  ASSUME NEW s \in Snapshots
  PROVE  s # None /\ s.id \in Reminders /\ s.id # None.id /\ s.next \in Nat
BY HorizonType DEF Snapshots, None

LEMMA BeginKeeps ==
  ASSUME TickTypes, now \in 0 .. Horizon, pc # "idle", NEW due, IsList(due), Begin(due)
  PROVE  /\ TickTypes' /\ OneEach'
         /\ pc' \in {"idle", "updating"}
         /\ OnTheList' \subseteq due
         /\ pc' = "updating" => moment' = now /\ current' \in due
         /\ \A s \in OnTheList' : ~Raises(rule[s.id])
<1>1. CASE EndTick
  BY <1>1, HorizonType DEF EndTick, TickTypes, OneEach, OnTheList, Firing, Times, NoTime
<1>2. CASE /\ pc' = "updating" /\ moment' = now /\ process' = process
           /\ current' \in due /\ pending' \subseteq due \ {current'}
           /\ \A s \in pending' \cup {current'} : ~Raises(rule[s.id])
  <2>1. current' \in Snapshots /\ current' # None
    BY <1>2, SnapshotIsNotNone DEF IsList
  <2>2. TickTypes'
    BY <1>2, <2>1, HorizonType DEF TickTypes, IsList, Firing, Times, NoTime
  <2>3. OneEach'
    BY <1>2 DEF OneEach, IsList, Firing
  <2> QED
    BY <1>2, <2>2, <2>3 DEF OnTheList, Firing
<1> QED
  BY <1>1, <1>2, BeginChooses

(* What the UPDATE of fire leaves: the row is later than everything that was *)
(* announced, or it is switched off.                                         *)
LEMMA MovedOn ==
  ASSUME TypeOK, TimesInv, pc = "updating", Moved(current)
  PROVE  /\ nextRun' \in [Reminders -> Nat \cup {NoTime}]
         /\ enabled' \in [Reminders -> BOOLEAN]
         /\ \A r \in Reminders : enabled'[r] => enabled[r]
         /\ \A r \in Reminders :
               r # current.id => nextRun'[r] = nextRun[r] /\ enabled'[r] = enabled[r]
         /\ row[current.id] = "stored" =>
               /\ nextRun'[current.id] # NoTime
               /\ enabled'[current.id] => Fresh(nextRun'[current.id], moment)
<1> DEFINE upcoming == NextOccurrence(rule[current.id], current.next, moment)
<1>1. current \in Snapshots /\ current.id \in Reminders /\ current.next \in Nat
  BY SnapshotIsNotNone DEF TypeOK
<1>2. current \in OnTheList
  BY DEF OnTheList, Firing
<1>3. nextRun \in [Reminders -> Nat \cup {NoTime}] /\ enabled \in [Reminders -> BOOLEAN]
  BY DEF TypeOK
<1>4. CASE row[current.id] # "stored"
  BY <1>3, <1>4 DEF Moved
<1>5. CASE row[current.id] = "stored" /\ upcoming = NoTime
  <2>1. nextRun' = nextRun /\ enabled' = [enabled EXCEPT ![current.id] = FALSE]
    BY <1>5 DEF Moved
  <2>2. nextRun[current.id] # NoTime
    BY <1>1, <1>5 DEF TimesInv
  <2> QED
    BY <1>1, <1>3, <2>1, <2>2
<1>6. CASE row[current.id] = "stored" /\ upcoming # NoTime
  <2>1. nextRun' = [nextRun EXCEPT ![current.id] = upcoming] /\ enabled' = enabled
    BY <1>6 DEF Moved
  <2>2. /\ rule[current.id] \in Schedules
        /\ rule[current.id].kind # "one_time"
        /\ ~Raises(rule[current.id])
    <3>1. rule[current.id] \in Schedules
      BY <1>1, SchedulerAssumption DEF TypeOK
    <3>2. rule[current.id].kind # "one_time"
      BY <1>6 DEF NextOccurrence
    <3> QED
      BY <1>2, <3>1, <3>2 DEF TimesInv
  <2>3. moment \in Nat /\ current.next <= moment /\ moment <= Horizon
    BY HorizonType DEF TimesInv, TypeOK
  <2>4. Len(MonthStart) > 1 /\ DayOf(moment + Shift) < MonthStart[Len(MonthStart) - 1]
    <3>1. Len(MonthStart) > 1 /\ DayOf(Horizon + Shift) < MonthStart[Len(MonthStart) - 1]
      BY SchedulerAssumption
    <3>2. moment + Shift \in Int /\ Horizon + Shift \in Int /\ moment + Shift <= Horizon + Shift
      BY <2>3, HorizonType, RecurrenceAssumption
    <3> QED
      BY <3>1, <3>2, CalendarType, EarlierDay
  <2>5. upcoming \in Nat /\ Fresh(upcoming, moment)
    <3>1. Local(current.next).wall \in Nat
      BY <1>1, RecurrenceAssumption DEF Local
    <3>2. upcoming \in Nat /\ Later(upcoming, moment)
      BY <1>1, <2>2, <2>3, <2>4, <3>1, NextIsLater
    <3> HIDE DEF upcoming
    <3> QED
      BY <2>3, <3>2, LaterIsFresh
  <2> HIDE DEF upcoming
  <2> QED
    BY <1>1, <1>3, <1>6, <2>1, <2>5
<1> QED
  BY <1>4, <1>5, <1>6

(* Fresh after the later is fresh after the earlier. *)
LEMMA FreshEarlier ==
  ASSUME NEW time \in Int, NEW a \in Int, NEW b \in Int, a <= b, Fresh(time, b)
  PROVE  Fresh(time, a)
BY DEF Fresh

LEMMA TypesStep == SchedulerInv /\ [Next]_vars => TypeOK' /\ OneEach'
<1> SUFFICES ASSUME SchedulerInv, [Next]_vars PROVE TypeOK' /\ OneEach'
  OBVIOUS
<1>0. TypeOK /\ TickTypes /\ RowTypes /\ OneEach /\ TimesInv /\ SilenceInv /\ SilencedSoon
  BY TypesSplit DEF SchedulerInv, SilencedInv
<1>a. SUFFICES TickTypes' /\ RowTypes' /\ OneEach'
  <2>1. TypeOK' <=> TickTypes' /\ RowTypes'
    BY TypesSplit, PTL
  <2> QED
    BY <2>1
<1>b. ASSUME UNCHANGED <<process, tickVars>> PROVE TickTypes' /\ OneEach'
  BY <1>0, <1>b DEF TickTypes, OneEach, tickVars, Firing
<1>c. ASSUME UNCHANGED <<now, failures, userVars>> PROVE RowTypes'
  BY <1>0, <1>c DEF RowTypes, userVars
<1>1. ASSUME NEW r \in Reminders, CreateReminder(r) PROVE TickTypes' /\ RowTypes' /\ OneEach'
  <2>1. UNCHANGED <<process, tickVars>>
    BY <1>1 DEF CreateReminder
  <2>2. RowTypes'
    BY <1>0, <1>1, HorizonType DEF CreateReminder, RowTypes
  <2> QED
    BY <1>b, <2>1, <2>2
<1>2. ASSUME NEW r \in Reminders, SetEnabled(r) PROVE TickTypes' /\ RowTypes' /\ OneEach'
  <2>1. UNCHANGED <<process, tickVars>>
    BY <1>2 DEF SetEnabled
  <2>2. UNCHANGED <<now, rule, row, nextRun, failures>>
    BY <1>2 DEF SetEnabled
  <2>3. PICK on \in BOOLEAN :
           /\ enabled' = [enabled EXCEPT ![r] = on]
           /\ told' = IF on THEN [told EXCEPT ![r] = IF pc = "updated" /\ current.id = r
                                                     THEN NextIsOld ELSE NoTime]
                      ELSE told
           /\ extra' = [extra EXCEPT ![r] = IF on THEN "audible"
                                            ELSE IF @ = "audible" THEN "none" ELSE @]
    BY <1>2 DEF SetEnabled
  <2>4. enabled' \in [Reminders -> BOOLEAN]
    BY <1>0, <2>3 DEF RowTypes
  <2>5. told' \in [Reminders -> Times \cup {NextIsOld}]
    <3>1. NoTime \in Times
      BY HorizonType DEF Times, NoTime
    <3> QED
      BY <1>0, <2>3, <3>1 DEF RowTypes
  <2>6. extra' \in [Reminders -> {"audible", "none", "one", "more"}]
    BY <1>0, <2>3 DEF RowTypes
  <2>7. RowTypes'
    BY <1>0, <2>2, <2>4, <2>5, <2>6 DEF RowTypes
  <2> QED
    BY <1>b, <2>1, <2>7
<1>3. ASSUME NEW r \in Reminders, Delete(r) PROVE TickTypes' /\ RowTypes' /\ OneEach'
  <2>1. UNCHANGED <<process, tickVars>>
    BY <1>3 DEF Delete
  <2>2. RowTypes'
    BY <1>0, <1>3, HorizonType DEF Delete, RowTypes
  <2> QED
    BY <1>b, <2>1, <2>2
<1>4. CASE Tick
  <2>1. TickTypes' /\ OneEach'
    BY <1>0, <1>4, HorizonType DEF Tick, TickTypes, RowTypes, OneEach, Firing, Times, NoTime
  <2> QED
    BY <1>c, <1>4, <2>1 DEF Tick
<1>5. CASE Select
  <2> DEFINE due == {[id |-> r, next |-> nextRun[r]] : r \in Due}
  <2>1. Begin(due) /\ UNCHANGED <<now, userVars, failures>> /\ pc # "idle"
    BY <1>5 DEF Select
  <2>2. \A r \in Due : r \in Reminders /\ nextRun[r] \in Nat
    BY <1>0 DEF Due, TimesInv, RowTypes
  <2>3. IsList(due)
    BY <2>2 DEF IsList, Snapshots
  <2> HIDE DEF due
  <2>4. TickTypes' /\ OneEach'
    BY <1>0, <2>1, <2>3, BeginKeeps DEF RowTypes
  <2> QED
    BY <1>c, <2>1, <2>4
<1>6. CASE Update
  <2>1. TickTypes' /\ OneEach'
    BY <1>0, <1>6, HorizonType DEF Update, TickTypes, OneEach, Firing, Times, NoTime
  <2>2. RowTypes'
    BY <1>0, <1>6, MovedOn DEF Update, RowTypes
  <2> QED
    BY <2>1, <2>2
<1>p. IsList(pending)
  BY <1>0 DEF IsList, OneEach, TickTypes
<1>7. CASE Announce
  <2>1. /\ Begin(pending) /\ pc = "updated"
        /\ UNCHANGED <<now, rule, row, enabled, nextRun, failures>>
        /\ told' = [told EXCEPT ![current.id] = IF @ = NextIsOld THEN NoTime ELSE current.next]
        /\ extra' = [extra EXCEPT ![current.id] = Told(current.id)]
    BY <1>7 DEF Announce
  <2>2. TickTypes' /\ OneEach'
    BY <1>0, <1>p, <2>1, BeginKeeps DEF RowTypes
  <2>3. current \in OnTheList /\ current.id \in Reminders /\ current.next \in 0 .. Horizon
    <3>1. current \in OnTheList /\ current \in Snapshots
      BY <1>0, <2>1 DEF OnTheList, Firing, TickTypes
    <3> QED
      BY <1>0, <3>1, SnapshotIsNotNone, HorizonType DEF TimesInv, RowTypes
  <2>4. told' \in [Reminders -> Times \cup {NextIsOld}]
    BY <1>0, <2>1, <2>3, HorizonType DEF RowTypes, Times, NoTime
  <2>5. Told(current.id) \in {"audible", "one", "more"}
    BY <1>0, <2>3 DEF RowTypes, Told
  <2>6. extra' \in [Reminders -> {"audible", "none", "one", "more"}]
    BY <1>0, <2>1, <2>5 DEF RowTypes
  <2>7. RowTypes'
    BY <1>0, <2>1, <2>4, <2>6 DEF RowTypes
  <2> QED
    BY <2>2, <2>7
<1>8. CASE FailUpdate
  <2>1. TickTypes' /\ OneEach'
    BY <1>0, <1>p, <1>8, BeginKeeps DEF FailUpdate, RowTypes
  <2>2. RowTypes'
    BY <1>0, <1>8, SchedulerAssumption DEF FailUpdate, RowTypes, userVars
  <2> QED
    BY <2>1, <2>2
<1>9. CASE FailSelect
  <2>1. TickTypes' /\ OneEach'
    BY <1>0, <1>9, HorizonType DEF FailSelect, TickTypes, OneEach, Firing, Times, NoTime
  <2>2. RowTypes'
    BY <1>0, <1>9, SchedulerAssumption DEF FailSelect, RowTypes, userVars
  <2> QED
    BY <2>1, <2>2
<1>10. CASE Start
  <2>1. TickTypes' /\ OneEach'
    BY <1>0, <1>10, HorizonType DEF Start, TickTypes, RowTypes, OneEach, Firing, Times, NoTime
  <2> QED
    BY <1>c, <1>10, <2>1 DEF Start
<1>11. CASE Halt
  <2>1. TickTypes' /\ OneEach'
    BY <1>0, <1>11, HorizonType DEF Halt, TickTypes, OneEach, Firing, Times, NoTime
  <2>2. nextRun' \in [Reminders -> Nat \cup {NoTime}] /\ enabled' \in [Reminders -> BOOLEAN]
    BY <1>0, <1>11, MovedOn DEF Halt, RowTypes
  <2>3. RowTypes'
    BY <1>0, <1>11, <2>2 DEF Halt, RowTypes
  <2> QED
    BY <2>1, <2>3
<1>12. CASE TimePasses
  <2>1. UNCHANGED <<process, tickVars>>
    BY <1>12 DEF TimePasses
  <2>2. RowTypes'
    BY <1>0, <1>12, HorizonType DEF TimePasses, RowTypes, userVars
  <2> QED
    BY <1>b, <2>1, <2>2
<1>13. CASE UNCHANGED vars
  <2>1. UNCHANGED <<process, tickVars>> /\ UNCHANGED <<now, failures, userVars>>
    BY <1>13 DEF vars
  <2> QED
    BY <1>b, <1>c, <2>1
<1> QED
  BY <1>1, <1>2, <1>3, <1>4, <1>5, <1>6, <1>7, <1>8, <1>9, <1>10, <1>11, <1>12, <1>13
  DEF Next, Ticker

-----------------------------------------------------------------------------
(* What is silenced is not selected again, and a reminder is on the list once: *)
(* the announcement that was under way is the last.                            *)
LEMMA SilenceStep == SchedulerInv /\ [Next]_vars => SilenceInv' /\ SilencedSoon'
<1> SUFFICES ASSUME SchedulerInv, [Next]_vars PROVE SilenceInv' /\ SilencedSoon'
  OBVIOUS
<1>0. TypeOK /\ TickTypes /\ RowTypes /\ OneEach /\ TimesInv /\ SilenceInv /\ SilencedSoon
  BY TypesSplit DEF SchedulerInv, SilencedInv
<1>e. extra \in [Reminders -> {"audible", "none", "one", "more"}]
  BY <1>0 DEF RowTypes
<1>l. \A s \in OnTheList : s.id \in Reminders
  BY <1>0, SnapshotIsNotNone DEF OnTheList, TickTypes, Firing
<1>a. ASSUME UNCHANGED tickVars PROVE OnTheList' = OnTheList
  BY <1>a DEF OnTheList, Firing, tickVars
<1>b. ASSUME UNCHANGED userVars, OnTheList' \subseteq OnTheList PROVE SilenceInv' /\ SilencedSoon'
  BY <1>0, <1>b DEF SilenceInv, SilencedSoon, userVars
<1>1. ASSUME NEW r \in Reminders, CreateReminder(r) PROVE SilenceInv' /\ SilencedSoon'
  <2>1. OnTheList' = OnTheList
    BY <1>a, <1>1 DEF CreateReminder
  <2> QED
    BY <1>0, <1>1, <2>1 DEF CreateReminder, SilenceInv, SilencedSoon, RowTypes
<1>2. ASSUME NEW r \in Reminders, SetEnabled(r) PROVE SilenceInv' /\ SilencedSoon'
  <2>1. OnTheList' = OnTheList
    BY <1>a, <1>2 DEF SetEnabled
  <2>2. PICK on \in BOOLEAN :
           /\ enabled' = [enabled EXCEPT ![r] = on]
           /\ extra' = [extra EXCEPT ![r] = IF on THEN "audible"
                                            ELSE IF @ = "audible" THEN "none" ELSE @]
    BY <1>2 DEF SetEnabled
  <2>3. UNCHANGED row /\ row[r] = "stored"
    BY <1>2 DEF SetEnabled
  <2>4. /\ extra'[r] \in {"audible", "none"} \cup ({extra[r]} \ {"audible"})
        /\ enabled'[r] => extra'[r] = "audible"
        /\ \A q \in Reminders : q # r => extra'[q] = extra[q] /\ enabled'[q] = enabled[q]
    BY <1>0, <2>2 DEF RowTypes
  <2>5. \A q \in Reminders : extra'[q] \in {"audible", "none", extra[q]}
    BY <2>4
  <2> QED
    BY <1>0, <1>l, <2>1, <2>3, <2>4, <2>5 DEF SilenceInv, SilencedSoon
<1>3. ASSUME NEW r \in Reminders, Delete(r) PROVE SilenceInv' /\ SilencedSoon'
  <2>1. OnTheList' = OnTheList
    BY <1>a, <1>3 DEF Delete
  <2>2. /\ row' = [row EXCEPT ![r] = "deleted"]
        /\ enabled' = [enabled EXCEPT ![r] = FALSE]
        /\ extra' = [extra EXCEPT ![r] = IF @ = "audible" THEN "none" ELSE @]
    BY <1>3 DEF Delete
  <2>3. /\ row'[r] = "deleted" /\ enabled'[r] = FALSE
        /\ \A q \in Reminders :
              q # r => row'[q] = row[q] /\ extra'[q] = extra[q] /\ enabled'[q] = enabled[q]
    BY <1>0, <2>2 DEF RowTypes
  <2>4. \A q \in Reminders : extra'[q] \in {"none", extra[q]}
    BY <1>e, <2>2
  <2> QED
    BY <1>0, <1>l, <2>1, <2>3, <2>4 DEF SilenceInv, SilencedSoon
<1>4. CASE Tick
  BY <1>0, <1>4, <1>b DEF Tick, OnTheList, Firing
<1>5. CASE Select
  <2> DEFINE due == {[id |-> r, next |-> nextRun[r]] : r \in Due}
  <2>1. Begin(due) /\ UNCHANGED <<now, userVars, failures>> /\ pc # "idle"
    BY <1>5 DEF Select
  <2>2. \A r \in Due : r \in Reminders /\ nextRun[r] \in Nat /\ extra[r] = "audible"
    BY <1>0 DEF Due, TimesInv, RowTypes, SilenceInv
  <2>3. IsList(due) /\ \A s \in due : extra[s.id] = "audible"
    BY <2>2 DEF IsList, Snapshots
  <2> HIDE DEF due
  <2>4. OnTheList' \subseteq due
    BY <1>0, <2>1, <2>3, BeginKeeps DEF RowTypes
  <2>5. UNCHANGED <<row, enabled, extra>>
    BY <2>1 DEF userVars
  <2> QED
    BY <1>0, <2>3, <2>4, <2>5 DEF SilenceInv, SilencedSoon
<1>6. CASE Update
  <2>1. OnTheList' = OnTheList
    BY <1>6 DEF Update, OnTheList, Firing
  <2>2. /\ UNCHANGED <<row, extra>>
        /\ enabled' \in [Reminders -> BOOLEAN]
        /\ \A r \in Reminders : enabled'[r] => enabled[r]
    BY <1>0, <1>6, MovedOn DEF Update
  <2> QED
    BY <1>0, <2>1, <2>2 DEF SilenceInv, SilencedSoon
<1>p. IsList(pending)
  BY <1>0 DEF IsList, OneEach, TickTypes
<1>7. CASE Announce
  <2>1. /\ Begin(pending) /\ pc = "updated"
        /\ UNCHANGED <<now, rule, row, enabled, nextRun, failures>>
        /\ extra' = [extra EXCEPT ![current.id] = Told(current.id)]
    BY <1>7 DEF Announce
  <2>2. OnTheList' \subseteq pending
    BY <1>0, <1>p, <2>1, BeginKeeps DEF RowTypes
  <2>3. current \in OnTheList /\ pending \subseteq OnTheList
    BY <2>1 DEF OnTheList, Firing
  <2>4. \A s \in pending : s.id # current.id
    BY <1>0 DEF OneEach
  <2>5. current.id \in Reminders /\ extra[current.id] \in {"audible", "none"}
    BY <1>0, <1>e, <1>l, <2>3 DEF SilenceInv, SilencedSoon
  <2>6. /\ Told(current.id) \in {"audible", "one"}
        /\ extra[current.id] = "audible" => Told(current.id) = "audible"
    BY <2>5 DEF Told
  <2>7. /\ \A r \in Reminders : r # current.id => extra'[r] = extra[r]
        /\ extra'[current.id] = Told(current.id)
    BY <1>e, <2>1, <2>5
  <2> HIDE DEF Told
  <2>8. SilencedSoon'
    BY <1>0, <2>6, <2>7 DEF SilencedSoon
  <2>9. \A s \in OnTheList' : extra'[s.id] # "one"
    BY <1>0, <1>l, <2>2, <2>3, <2>4, <2>7 DEF SilenceInv
  <2>10. \A r \in Reminders : extra[r] = "audible" => extra'[r] = "audible"
    BY <2>6, <2>7
  <2> QED
    BY <1>0, <2>1, <2>8, <2>9, <2>10 DEF SilenceInv
<1>8. CASE FailUpdate
  <2>1. OnTheList' \subseteq pending
    BY <1>0, <1>p, <1>8, BeginKeeps DEF FailUpdate, RowTypes
  <2> QED
    BY <1>b, <1>8, <2>1 DEF FailUpdate, OnTheList
<1>9. CASE FailSelect
  BY <1>0, <1>9, <1>b DEF FailSelect, OnTheList, Firing
<1>10. CASE Start
  BY <1>0, <1>10, <1>b DEF Start, OnTheList, Firing, TickTypes
<1>11. CASE Halt
  <2>1. OnTheList' = {}
    BY <1>11 DEF Halt, OnTheList, Firing
  <2>2. UNCHANGED <<row, extra>> /\ \A r \in Reminders : enabled'[r] => enabled[r]
    BY <1>0, <1>11, MovedOn DEF Halt
  <2> QED
    BY <1>0, <2>1, <2>2 DEF SilenceInv, SilencedSoon
<1>12. CASE TimePasses
  <2>1. OnTheList' = OnTheList
    BY <1>a, <1>12 DEF TimePasses
  <2> QED
    BY <1>b, <1>12, <2>1 DEF TimePasses
<1>13. CASE UNCHANGED vars
  <2>1. OnTheList' = OnTheList
    BY <1>a, <1>13 DEF vars
  <2> QED
    BY <1>b, <1>13, <2>1 DEF vars
<1> QED
  BY <1>1, <1>2, <1>3, <1>4, <1>5, <1>6, <1>7, <1>8, <1>9, <1>10, <1>11, <1>12, <1>13
  DEF Next, Ticker

-----------------------------------------------------------------------------
(* The times: every clause of TimesInv over the reminders is about one of them. *)
RowTimes(r) ==
    /\ told[r] <= now
    /\ row[r] = "unused" => told[r] = NoTime
    /\ row[r] = "stored" => nextRun[r] # NoTime
    /\ row[r] = "stored" /\ enabled[r] => Fresh(nextRun[r], told[r])

ListTimes(s) ==
    /\ s.next <= now
    /\ row[s.id] # "unused"
    /\ ~Raises(rule[s.id])
    /\ Fresh(s.next, told[s.id])

TickTimes ==
    /\ pc \in {"selecting", "updating"} => moment \in 0 .. now
    /\ pc = "updating" => current.next <= moment /\ told[current.id] <= moment
    /\ pc = "updated" /\ row[current.id] = "stored" /\ enabled[current.id] =>
          Fresh(nextRun[current.id], current.next) \/ told[current.id] = NextIsOld

LEMMA TimesSplit ==
  TimesInv <=> /\ \A r \in Reminders : RowTimes(r)
               /\ \A s \in OnTheList : ListTimes(s)
               /\ TickTimes
BY Zenon DEF TimesInv, RowTimes, ListTimes, TickTimes

LEMMA FreshFirst ==
  ASSUME NEW time \in Nat
  PROVE  Fresh(time, NoTime) /\ Fresh(time, NextIsOld)
BY DEF Fresh, NoTime, NextIsOld

LEMMA TimesStep == SchedulerInv /\ [Next]_vars => TimesInv'
<1> SUFFICES ASSUME SchedulerInv, [Next]_vars PROVE TimesInv'
  OBVIOUS
<1>0. TypeOK /\ TickTypes /\ RowTypes /\ OneEach /\ TimesInv
  BY TypesSplit DEF SchedulerInv, SilencedInv
<1> DEFINE AllRows == \A r \in Reminders : RowTimes(r)
           AllListed == \A s \in OnTheList : ListTimes(s)
<1>t. AllRows /\ AllListed /\ TickTimes
  BY <1>0, TimesSplit
<1>a. SUFFICES AllRows' /\ AllListed' /\ TickTimes'
  <2>1. TimesInv' <=> AllRows' /\ AllListed' /\ TickTimes'
    BY TimesSplit, PTL
  <2> QED
    BY <2>1
<1>l. OnTheList \subseteq Snapshots
  BY <1>0 DEF OnTheList, TickTypes, Firing
<1>i. \A s \in OnTheList : s.id \in Reminders /\ s.next \in Nat
  BY <1>l, SnapshotIsNotNone
<1>k. Firing => current \in OnTheList
  BY DEF OnTheList
<1>b. ASSUME UNCHANGED tickVars PROVE OnTheList' = OnTheList
  BY <1>b DEF OnTheList, Firing, tickVars
<1>c. ASSUME UNCHANGED userVars, now' = now PROVE AllRows'
  BY <1>t, <1>c DEF RowTimes, userVars
<1>d. ASSUME UNCHANGED userVars, now' = now, OnTheList' \subseteq OnTheList PROVE AllListed'
  BY <1>t, <1>d DEF ListTimes, userVars
<1>n. now \in 0 .. Horizon /\ now \in Nat
  BY <1>0, HorizonType DEF RowTypes
<1>o. \A r \in Reminders : told[r] \in Int
  BY <1>0, HorizonType DEF RowTypes, Times, NoTime, NextIsOld
<1>1. ASSUME NEW r \in Reminders, CreateReminder(r) PROVE AllRows' /\ AllListed' /\ TickTimes'
  <2>1. /\ row[r] = "unused" /\ row' = [row EXCEPT ![r] = "stored"]
        /\ enabled' = [enabled EXCEPT ![r] = TRUE]
        /\ \E when \in now .. now + Ahead : nextRun' = [nextRun EXCEPT ![r] = when]
        /\ UNCHANGED <<now, rule, tickVars, told>>
    BY <1>1 DEF CreateReminder
  <2>2. PICK when \in now .. now + Ahead : nextRun' = [nextRun EXCEPT ![r] = when]
    BY <2>1
  <2>3. when \in Nat /\ when # NoTime /\ Fresh(when, NoTime)
    BY <1>n, FreshFirst, SchedulerAssumption DEF NoTime
  <2>4. told[r] = NoTime
    BY <1>t, <2>1 DEF RowTimes
  <2>5. /\ row'[r] = "stored" /\ nextRun'[r] = when
        /\ \A q \in Reminders :
              q # r => row'[q] = row[q] /\ enabled'[q] = enabled[q] /\ nextRun'[q] = nextRun[q]
    BY <1>0, <2>1, <2>2 DEF RowTypes
  <2>6. AllRows'
    <3>1. RowTimes(r)'
      BY <1>t, <2>1, <2>3, <2>4, <2>5 DEF RowTimes
    <3>2. ASSUME NEW q \in Reminders, q # r PROVE RowTimes(q)'
      BY <1>t, <2>1, <2>5, <3>2 DEF RowTimes
    <3> QED
      BY <3>1, <3>2
  <2>7. OnTheList' = OnTheList /\ \A s \in OnTheList : s.id # r
    BY <1>b, <1>t, <2>1 DEF ListTimes
  <2>8. AllListed'
    BY <1>i, <1>t, <2>1, <2>5, <2>7 DEF ListTimes
  <2>9. TickTimes'
    BY <1>i, <1>k, <1>t, <2>1, <2>5, <2>7 DEF TickTimes, Firing, tickVars
  <2> QED
    BY <2>6, <2>8, <2>9
<1>2. ASSUME NEW r \in Reminders, SetEnabled(r) PROVE AllRows' /\ AllListed' /\ TickTimes'
  <2>1. PICK on \in BOOLEAN :
           /\ enabled' = [enabled EXCEPT ![r] = on]
           /\ told' = IF on THEN [told EXCEPT ![r] = IF pc = "updated" /\ current.id = r
                                                     THEN NextIsOld ELSE NoTime]
                      ELSE told
    BY <1>2 DEF SetEnabled
  <2>2. UNCHANGED <<now, rule, row, nextRun, tickVars>> /\ row[r] = "stored"
    BY <1>2 DEF SetEnabled
  <2>3. OnTheList' = OnTheList
    BY <1>b, <2>2
  <2>4. nextRun[r] \in Nat
    BY <1>0, <1>t, <2>2 DEF RowTimes, RowTypes
  <2>5. \A q \in Reminders : q # r => told'[q] = told[q] /\ enabled'[q] = enabled[q]
    BY <1>0, <2>1 DEF RowTypes
  <2>6. CASE on
    <3>1. /\ told'[r] \in {NextIsOld, NoTime} /\ enabled'[r]
          /\ pc = "updated" /\ current.id = r => told'[r] = NextIsOld
      BY <1>0, <2>1, <2>6 DEF RowTypes
    <3>2. AllRows'
      <4>1. RowTimes(r)'
        BY <1>n, <2>2, <2>4, <3>1, FreshFirst DEF RowTimes, NoTime, NextIsOld
      <4>2. ASSUME NEW q \in Reminders, q # r PROVE RowTimes(q)'
        BY <1>t, <2>2, <2>5, <4>2 DEF RowTimes
      <4> QED
        BY <4>1, <4>2
    <3>3. AllListed'
      <4>1. ASSUME NEW s \in OnTheList, s.id = r PROVE ListTimes(s)'
        BY <1>i, <1>t, <2>2, <3>1, <4>1, FreshFirst DEF ListTimes
      <4>2. ASSUME NEW s \in OnTheList, s.id # r PROVE ListTimes(s)'
        BY <1>i, <1>t, <2>2, <2>5, <4>2 DEF ListTimes
      <4> QED
        BY <2>3, <4>1, <4>2
    <3>4. TickTimes'
      <4>1. CASE Firing /\ current.id = r
        BY <1>n, <1>t, <2>2, <3>1, <4>1 DEF TickTimes, tickVars, NoTime, NextIsOld
      <4>2. CASE Firing /\ current.id # r
        BY <1>i, <1>k, <1>t, <2>2, <2>5, <4>2 DEF TickTimes, tickVars
      <4>3. CASE ~Firing
        BY <1>t, <2>2, <4>3 DEF TickTimes, tickVars, Firing
      <4> QED
        BY <4>1, <4>2, <4>3
    <3> QED
      BY <3>2, <3>3, <3>4
  <2>7. CASE ~on
    <3>1. told' = told /\ ~enabled'[r]
      BY <1>0, <2>1, <2>7 DEF RowTypes
    <3>2. AllRows'
      BY <1>t, <2>2, <2>5, <3>1 DEF RowTimes
    <3>3. AllListed'
      BY <1>t, <2>2, <2>3, <3>1 DEF ListTimes
    <3>4. TickTimes'
      BY <1>i, <1>k, <1>t, <2>2, <2>5, <3>1 DEF TickTimes, tickVars, Firing
    <3> QED
      BY <3>2, <3>3, <3>4
  <2> QED
    BY <2>6, <2>7
<1>3. ASSUME NEW r \in Reminders, Delete(r) PROVE AllRows' /\ AllListed' /\ TickTimes'
  <2>1. /\ row[r] = "stored" /\ row' = [row EXCEPT ![r] = "deleted"]
        /\ enabled' = [enabled EXCEPT ![r] = FALSE]
        /\ nextRun' = [nextRun EXCEPT ![r] = NoTime]
        /\ UNCHANGED <<now, rule, tickVars, told>>
    BY <1>3 DEF Delete
  <2>2. /\ row'[r] = "deleted"
        /\ \A q \in Reminders :
              q # r => row'[q] = row[q] /\ enabled'[q] = enabled[q] /\ nextRun'[q] = nextRun[q]
    BY <1>0, <2>1 DEF RowTypes
  <2>3. AllRows'
    BY <1>t, <2>1, <2>2 DEF RowTimes
  <2>4. OnTheList' = OnTheList
    BY <1>b, <2>1
  <2>5. AllListed'
    BY <1>i, <1>t, <2>1, <2>2, <2>4 DEF ListTimes
  <2>6. TickTimes'
    BY <1>i, <1>k, <1>t, <2>1, <2>2 DEF TickTimes, tickVars, Firing
  <2> QED
    BY <2>3, <2>5, <2>6
<1>4. CASE Tick
  <2>1. UNCHANGED userVars /\ now' = now /\ OnTheList' \subseteq OnTheList
    BY <1>4 DEF Tick, OnTheList, Firing
  <2>2. TickTimes'
    BY <1>4, <1>n DEF Tick, TickTimes
  <2> QED
    BY <1>c, <1>d, <2>1, <2>2
<1>5. CASE Select
  <2> DEFINE due == {[id |-> r, next |-> nextRun[r]] : r \in Due}
  <2>1. Begin(due) /\ UNCHANGED <<now, userVars, failures>> /\ pc # "idle"
    BY <1>5 DEF Select
  <2>2. moment \in 0 .. now
    BY <1>5, <1>t DEF Select, TickTimes
  <2>3. ASSUME NEW r \in Due
        PROVE  /\ r \in Reminders /\ nextRun[r] \in Nat /\ row[r] # "unused"
               /\ nextRun[r] <= now /\ Fresh(nextRun[r], told[r])
    <3>1. r \in Reminders /\ row[r] = "stored" /\ enabled[r] /\ nextRun[r] <= moment
      BY DEF Due
    <3>2. nextRun[r] \in Nat
      BY <1>0, <1>t, <3>1 DEF RowTimes, RowTypes
    <3>3. nextRun[r] <= now
      BY <1>n, <2>2, <3>1, <3>2
    <3>4. row[r] # "unused" /\ Fresh(nextRun[r], told[r])
      BY <1>t, <3>1 DEF RowTimes
    <3> QED
      BY <3>1, <3>2, <3>3, <3>4
  <2>4. IsList(due)
    BY <2>3 DEF IsList, Snapshots
  <2>5. \A s \in due : /\ s.next <= now /\ row[s.id] # "unused"
                       /\ Fresh(s.next, told[s.id])
    BY <2>3
  <2>6. \A s \in due : told[s.id] <= now
    BY <1>t, <2>3 DEF RowTimes
  <2> HIDE DEF due
  <2>7. /\ pc' \in {"idle", "updating"} /\ OnTheList' \subseteq due
        /\ pc' = "updating" => moment' = now /\ current' \in due
        /\ \A s \in OnTheList' : ~Raises(rule[s.id])
    BY <1>0, <2>1, <2>4, BeginKeeps DEF RowTypes
  <2>8. AllRows'
    BY <1>c, <2>1
  <2>9. AllListed'
    BY <2>1, <2>5, <2>7 DEF ListTimes, userVars
  <2>10. TickTimes'
    BY <1>n, <2>1, <2>5, <2>6, <2>7 DEF TickTimes, userVars
  <2> QED
    BY <2>8, <2>9, <2>10
<1>6. CASE Update
  <2>1. /\ pc = "updating" /\ pc' = "updated" /\ Moved(current)
        /\ UNCHANGED <<now, rule, row, told, extra, process, pending, current, failures>>
    BY <1>6 DEF Update
  <2>2. /\ nextRun' \in [Reminders -> Nat \cup {NoTime}]
        /\ \A r \in Reminders :
              r # current.id => nextRun'[r] = nextRun[r] /\ enabled'[r] = enabled[r]
        /\ row[current.id] = "stored" =>
              /\ nextRun'[current.id] # NoTime
              /\ enabled'[current.id] => Fresh(nextRun'[current.id], moment)
    BY <1>0, <2>1, MovedOn
  <2>3. OnTheList' = OnTheList
    BY <2>1 DEF OnTheList, Firing
  <2>4. /\ current \in OnTheList /\ current.id \in Reminders /\ current.next \in Nat
        /\ row[current.id] # "unused"
    BY <1>i, <1>k, <1>t, <2>1 DEF Firing, ListTimes
  <2>5. moment \in Int /\ current.next <= moment /\ told[current.id] <= moment
    BY <1>n, <1>t, <2>1 DEF TickTimes
  <2>6. row[current.id] = "stored" /\ enabled'[current.id] =>
           /\ Fresh(nextRun'[current.id], current.next)
           /\ Fresh(nextRun'[current.id], told[current.id])
    <3> SUFFICES ASSUME row[current.id] = "stored", enabled'[current.id]
                 PROVE  /\ Fresh(nextRun'[current.id], current.next)
                        /\ Fresh(nextRun'[current.id], told[current.id])
      OBVIOUS
    <3>1. nextRun'[current.id] \in Int /\ Fresh(nextRun'[current.id], moment)
      BY <2>2, <2>4 DEF NoTime
    <3> QED
      BY <1>o, <2>4, <2>5, <3>1, FreshEarlier
  <2>7. AllRows'
    <3>1. RowTimes(current.id)'
      BY <1>t, <2>1, <2>2, <2>4, <2>6 DEF RowTimes
    <3>2. ASSUME NEW r \in Reminders, r # current.id PROVE RowTimes(r)'
      BY <1>t, <2>1, <2>2, <3>2 DEF RowTimes
    <3> QED
      BY <2>1, <3>1, <3>2
  <2>8. AllListed'
    BY <1>t, <2>1, <2>3 DEF ListTimes
  <2>9. TickTimes'
    BY <2>1, <2>6 DEF TickTimes
  <2> QED
    BY <2>7, <2>8, <2>9
<1>p. IsList(pending) /\ pending \subseteq OnTheList
  BY <1>0 DEF IsList, OneEach, TickTypes, OnTheList
<1>7. CASE Announce
  <2>1. /\ Begin(pending) /\ pc = "updated"
        /\ UNCHANGED <<now, rule, row, enabled, nextRun, failures>>
        /\ told' = [told EXCEPT ![current.id] = IF @ = NextIsOld THEN NoTime ELSE current.next]
    BY <1>7 DEF Announce
  <2>2. /\ pc' \in {"idle", "updating"} /\ OnTheList' \subseteq pending
        /\ pc' = "updating" => moment' = now /\ current' \in pending
        /\ \A s \in OnTheList' : ~Raises(rule[s.id])
    BY <1>0, <1>p, <2>1, BeginKeeps DEF RowTypes
  <2>3. /\ current \in OnTheList /\ current.id \in Reminders /\ current.next \in Nat
        /\ current.next <= now /\ row[current.id] # "unused"
    BY <1>i, <1>k, <1>t, <2>1 DEF Firing, ListTimes
  <2>4. /\ told'[current.id]
             = IF told[current.id] = NextIsOld THEN NoTime ELSE current.next
        /\ \A r \in Reminders : r # current.id => told'[r] = told[r]
    BY <1>0, <2>1, <2>3 DEF RowTypes
  <2>5. told'[current.id] <= now
    BY <1>n, <2>3, <2>4 DEF NoTime
  <2>6. row[current.id] = "stored" => nextRun[current.id] \in Nat
    BY <1>0, <1>t, <2>3 DEF RowTimes, RowTypes
  <2>7. row[current.id] = "stored" /\ enabled[current.id] =>
           Fresh(nextRun[current.id], told'[current.id])
    BY <1>t, <2>1, <2>4, <2>6, FreshFirst DEF TickTimes
  <2>8. AllRows'
    <3>0. PICK c \in Reminders : c = current.id
      BY <2>3
    <3>1. RowTimes(c)'
      BY <1>t, <2>1, <2>3, <2>5, <2>7, <3>0 DEF RowTimes
    <3>2. ASSUME NEW r \in Reminders, r # c PROVE RowTimes(r)'
      BY <1>t, <2>1, <2>4, <3>0, <3>2 DEF RowTimes
    <3>3. \A r \in Reminders : RowTimes(r)'
      BY <3>1, <3>2
    <3> QED
      BY <3>3
  <2>9. \A s \in pending : s.id # current.id
    BY <1>0 DEF OneEach
  <2>10. \A s \in pending : s.id \in Reminders /\ told'[s.id] = told[s.id] /\ ListTimes(s)
    BY <1>i, <1>p, <1>t, <2>4, <2>9
  <2>11. AllListed'
    BY <2>1, <2>2, <2>10 DEF ListTimes
  <2>12. TickTimes'
    BY <1>n, <1>t, <2>1, <2>2, <2>10 DEF TickTimes, ListTimes, RowTimes
  <2> QED
    BY <2>8, <2>11, <2>12
<1>8. CASE FailUpdate
  <2>1. Begin(pending) /\ pc = "updating" /\ UNCHANGED <<now, userVars>>
    BY <1>8 DEF FailUpdate
  <2>2. /\ pc' \in {"idle", "updating"} /\ OnTheList' \subseteq pending
        /\ pc' = "updating" => moment' = now /\ current' \in pending
    BY <1>0, <1>p, <2>1, BeginKeeps DEF RowTypes
  <2>3. AllRows' /\ AllListed'
    BY <1>c, <1>d, <1>p, <2>1, <2>2
  <2>4. \A s \in pending : s.id \in Reminders /\ ListTimes(s)
    BY <1>i, <1>p, <1>t
  <2>5. TickTimes'
    BY <1>n, <1>t, <2>1, <2>2, <2>4 DEF TickTimes, ListTimes, RowTimes, userVars
  <2> QED
    BY <2>3, <2>5
<1>9. CASE FailSelect
  <2>1. UNCHANGED userVars /\ now' = now /\ OnTheList' \subseteq OnTheList
    BY <1>9 DEF FailSelect, OnTheList, Firing
  <2>2. TickTimes'
    BY <1>9 DEF FailSelect, TickTimes
  <2> QED
    BY <1>c, <1>d, <2>1, <2>2
<1>10. CASE Start
  <2>1. UNCHANGED userVars /\ now' = now /\ OnTheList' \subseteq OnTheList
    BY <1>10 DEF Start, OnTheList, Firing
  <2>2. TickTimes'
    BY <1>10, <1>n DEF Start, TickTimes
  <2> QED
    BY <1>c, <1>d, <2>1, <2>2
<1>11. CASE Halt
  <2>1. /\ pc' = "idle" /\ OnTheList' = {}
        /\ UNCHANGED <<now, rule, row, told>>
        /\ (pc = "updating" /\ Moved(current)) \/ UNCHANGED <<enabled, nextRun>>
    BY <1>11 DEF Halt, OnTheList, Firing
  <2>2. AllListed' /\ TickTimes'
    BY <2>1 DEF TickTimes
  <2>3. CASE UNCHANGED <<enabled, nextRun>>
    <3>1. AllRows'
      BY <1>t, <2>1, <2>3 DEF RowTimes
    <3> QED
      BY <2>2, <3>1
  <2>4. CASE pc = "updating" /\ Moved(current)
    <3>1. /\ nextRun' \in [Reminders -> Nat \cup {NoTime}]
          /\ \A r \in Reminders :
                r # current.id => nextRun'[r] = nextRun[r] /\ enabled'[r] = enabled[r]
          /\ row[current.id] = "stored" =>
                /\ nextRun'[current.id] # NoTime
                /\ enabled'[current.id] => Fresh(nextRun'[current.id], moment)
      BY <1>0, <2>4, MovedOn
    <3>2. /\ current.id \in Reminders /\ row[current.id] # "unused"
          /\ moment \in Int /\ told[current.id] <= moment /\ told[current.id] \in Int
      BY <1>i, <1>k, <1>n, <1>o, <1>t, <2>4 DEF Firing, ListTimes, TickTimes
    <3>3. row[current.id] = "stored" => nextRun'[current.id] \in Int
      BY <3>1, <3>2 DEF NoTime
    <3>4. row[current.id] = "stored" /\ enabled'[current.id] =>
             Fresh(nextRun'[current.id], told[current.id])
      BY <3>1, <3>2, <3>3, FreshEarlier
    <3>0. PICK c \in Reminders : c = current.id
      BY <3>2
    <3>5. RowTimes(c)'
      BY <1>t, <2>1, <3>0, <3>1, <3>2, <3>4 DEF RowTimes
    <3>6. ASSUME NEW r \in Reminders, r # c PROVE RowTimes(r)'
      BY <1>t, <2>1, <3>0, <3>1, <3>6 DEF RowTimes
    <3>7. \A r \in Reminders : RowTimes(r)'
      BY <3>5, <3>6
    <3> QED
      BY <2>2, <3>7
  <2> QED
    BY <2>1, <2>3, <2>4
<1>12. CASE TimePasses
  <2>1. now' = now + 1 /\ UNCHANGED <<userVars, process, tickVars, failures>>
    BY <1>12 DEF TimePasses
  <2>2. OnTheList' = OnTheList
    BY <1>b, <2>1
  <2>3. AllRows'
    BY <1>n, <1>o, <1>t, <2>1 DEF RowTimes, userVars
  <2>4. AllListed'
    BY <1>i, <1>n, <1>t, <2>1, <2>2 DEF ListTimes, userVars
  <2>5. TickTimes'
    BY <1>n, <1>t, <2>1 DEF TickTimes, userVars, tickVars
  <2> QED
    BY <2>3, <2>4, <2>5
<1>13. CASE UNCHANGED vars
  <2>1. UNCHANGED userVars /\ now' = now /\ UNCHANGED tickVars
    BY <1>13 DEF vars
  <2>2. TickTimes'
    BY <1>t, <2>1 DEF TickTimes, userVars, tickVars
  <2> QED
    BY <1>b, <1>c, <1>d, <2>1, <2>2
<1> QED
  BY <1>1, <1>2, <1>3, <1>4, <1>5, <1>6, <1>7, <1>8, <1>9, <1>10, <1>11, <1>12, <1>13
  DEF Next, Ticker

LEMMA SchedulerStep == SchedulerInv /\ [Next]_vars => SchedulerInv'
BY TypesStep, SilenceStep, TimesStep DEF SchedulerInv, SilencedInv

LEMMA SchedulerInductive == Spec => []SchedulerInv
BY SchedulerInit, SchedulerStep, PTL DEF Spec

(* core/scheduler.py, due, tick and fire: whatever the reminders, their rules *)
(* and the calendar, and however ticks, failing statements, restarts and the  *)
(* user's changes fall, a reminder that was silenced is announced once more   *)
(* at most.                                                                   *)
THEOREM SilencedAlwaysSoon == Spec => []SilencedSoon
<1>1. SchedulerInv => SilencedSoon
  BY DEF SchedulerInv, SilencedInv
<1> QED
  BY <1>1, SchedulerInductive, PTL

(* tick and fire: for every rule, calendar and clock change, a scheduled time *)
(* is announced at most once and they come in order, unless the reminder is   *)
(* enabled again, but for the times in the first pass of the repeated hour.   *)
THEOREM AnnouncedAlwaysOnce == Spec => AnnouncedOnce
<1>1. SchedulerInv /\ [Next]_vars =>
        [\A r \in Reminders : Again(r) => InFirstPass(current.next)]_vars
  <2> SUFFICES ASSUME SchedulerInv, NEW r \in Reminders, Again(r)
               PROVE  InFirstPass(current.next)
    OBVIOUS
  <2>1. /\ pc = "updated" /\ current.id = r /\ current.next <= told[r]
        /\ TypeOK /\ TimesInv
    BY DEF Again, Announcing, SchedulerInv, SilencedInv
  <2>2. current \in Snapshots /\ current \in OnTheList
    BY <2>1 DEF TypeOK, OnTheList, Firing
  <2>3. current.next \in Nat /\ told[r] \in Int
    BY <2>1, <2>2, SnapshotIsNotNone, HorizonType DEF TypeOK, Times, NoTime, NextIsOld
  <2>4. Fresh(current.next, told[r])
    BY <2>1, <2>2 DEF TimesInv
  <2> QED
    BY <2>1, <2>3, <2>4 DEF Fresh
<1> QED
  BY <1>1, SchedulerInductive, PTL DEF Spec, AnnouncedOnce

-----------------------------------------------------------------------------
(* The proactive engine. *)

(* The messages passed on within a window before the i-th. *)
PassedBefore(messages, passed, i, window) ==
    {j \in 1 .. i - 1 : passed[j] /\ messages[i].at - messages[j].at < window}

(* Was the i-th message dealt with as promised? *)
Rightly(mode, messages, passed, i) ==
    passed[i] <=>
        /\ mode # "OFF" /\ messages[i].importance >= THRESHOLDS[mode]
        /\ ~\E j \in PassedBefore(messages, passed, i, DEDUPE_SECONDS) :
               messages[j].key = messages[i].key
        /\ Cardinality(PassedBefore(messages, passed, i, RATE_WINDOW)) >= RATE_LIMIT
               => messages[i].importance = CRITICAL

(* sent forgets only what no window reaches any more, and recent remembers *)
(* the last message with each key that was passed on.                      *)
Remembers(e, messages) ==
    LET n == Len(e.passed)
    IN /\ e = [recent |-> e.recent, sent |-> e.sent, passed |-> e.passed]
       /\ e.passed \in Seq(BOOLEAN) /\ n <= Len(messages)
       /\ e.sent \subseteq {i \in 1 .. n : e.passed[i]}
       /\ \A i \in 1 .. n :
             e.passed[i] /\ messages[n].at - messages[i].at < RATE_WINDOW * 2 => i \in e.sent
       /\ \A key \in DOMAIN e.recent : \E i \in 1 .. n :
             e.passed[i] /\ messages[i].key = key /\ messages[i].at = e.recent[key]
       /\ \A i \in 1 .. n : e.passed[i] =>
             /\ messages[i].key \in DOMAIN e.recent
             /\ messages[i].at <= e.recent[messages[i].key]

InOrder(messages) == \A i, j \in DOMAIN messages : i <= j => messages[i].at <= messages[j].at

EngineInv ==
    input.of = "notify" =>
        /\ input \in Messages
        /\ Remembers(engine, input.messages)
        /\ \A i \in DOMAIN engine.passed : Rightly(input.mode, input.messages, engine.passed, i)

LEMMA ImportanceIs == CHATTER = 0 /\ NORMAL = 1 /\ IMPORTANT = 2 /\ CRITICAL = 3
BY DEF CHATTER, NORMAL, IMPORTANT, CRITICAL

LEMMA MessageFacts ==
  ASSUME NEW messages \in Seq(Offered)
  PROVE  /\ Len(messages) \in Nat /\ DOMAIN messages = 1 .. Len(messages)
         /\ \A j \in 1 .. Len(messages) :
              messages[j] \in Offered /\ messages[j].at \in Int /\ messages[j].importance \in 0 .. 3
<1>1. /\ Len(messages) \in Nat /\ DOMAIN messages = 1 .. Len(messages)
      /\ \A j \in 1 .. Len(messages) : messages[j] \in Offered
  OBVIOUS
<1>2. \A m \in Offered : m.at \in Int /\ m.importance \in 0 .. 3
  BY ImportanceIs DEF Offered
<1> QED
  BY <1>1, <1>2

LEMMA UpToHere ==
  ASSUME NEW messages \in Seq(Offered), InOrder(messages), NEW i \in DOMAIN messages,
         NEW j \in 1 .. i
  PROVE  j \in DOMAIN messages /\ messages[j].at \in Int /\ messages[j].at <= messages[i].at
<1>1. /\ Len(messages) \in Nat /\ DOMAIN messages = 1 .. Len(messages)
      /\ i \in 1 .. Len(messages)
  BY MessageFacts, Zenon
<1>2. j \in 1 .. Len(messages) /\ j <= i
  BY <1>1
<1> QED
  BY <1>1, <1>2, MessageFacts, Zenon DEF InOrder

(* What the engine looks up is what was passed on. *)
LEMMA LooksUpTheWindow ==
  ASSUME NEW messages \in Seq(Offered), InOrder(messages), NEW e, Remembers(e, messages),
         NEW i \in DOMAIN messages, i = Len(e.passed) + 1
  PROVE  /\ SentWithin(e, RATE_WINDOW, messages, messages[i].at)
              = PassedBefore(messages, e.passed, i, RATE_WINDOW)
         /\ IsRepeated(e, messages[i]) <=>
              \E j \in PassedBefore(messages, e.passed, i, DEDUPE_SECONDS) :
                 messages[j].key = messages[i].key
<1> DEFINE n == Len(e.passed)
<1>1. n \in Nat /\ n + 1 = i /\ e.passed \in Seq(BOOLEAN)
  BY DEF Remembers
<1>2. \A j \in 1 .. i : j \in DOMAIN messages /\ messages[j].at \in Int
  BY UpToHere, Zenon
<1>3. \A j \in 1 .. n : messages[j].at <= messages[n].at /\ messages[n].at <= messages[i].at
  <2>1. \A j \in 1 .. i : messages[j].at <= messages[i].at
    BY UpToHere, Zenon
  <2>2. ASSUME NEW j \in 1 .. n PROVE messages[j].at <= messages[n].at
    <3>1. n \in 1 .. i /\ j \in 1 .. i /\ j <= n
      BY <1>1
    <3> QED
      BY <3>1, <1>2, Zenon DEF InOrder
  <2> QED
    BY <1>1, <2>1, <2>2
<1>4. RATE_WINDOW \in Nat /\ DEDUPE_SECONDS \in Nat
  BY ProactivityAssumption
<1>5. \A j \in e.sent : j \in 1 .. n /\ e.passed[j]
  BY DEF Remembers
<1>6. \A j \in 1 .. n : e.passed[j] /\ messages[i].at - messages[j].at < RATE_WINDOW => j \in e.sent
  <2> SUFFICES ASSUME NEW j \in 1 .. n, e.passed[j], messages[i].at - messages[j].at < RATE_WINDOW
               PROVE  j \in e.sent
    OBVIOUS
  <2>1. messages[n].at - messages[j].at < RATE_WINDOW * 2
    <3>1. /\ messages[i].at \in Int /\ messages[j].at \in Int /\ messages[n].at \in Int
          /\ messages[n].at <= messages[i].at
      BY <1>1, <1>2, <1>3
    <3> HIDE DEF n
    <3> QED
      BY <3>1, <1>4
  <2> QED
    BY <2>1 DEF Remembers
<1>7. SentWithin(e, RATE_WINDOW, messages, messages[i].at)
        = PassedBefore(messages, e.passed, i, RATE_WINDOW)
  BY <1>1, <1>5, <1>6 DEF SentWithin, Within, PassedBefore
<1>8. ASSUME IsRepeated(e, messages[i])
      PROVE  \E j \in PassedBefore(messages, e.passed, i, DEDUPE_SECONDS) :
                messages[j].key = messages[i].key
  <2>1. PICK j \in 1 .. n : /\ e.passed[j] /\ messages[j].key = messages[i].key
                            /\ messages[j].at = e.recent[messages[i].key]
    BY <1>8 DEF IsRepeated, Remembers
  <2>2. messages[i].at - messages[j].at < DEDUPE_SECONDS
    BY <2>1, <1>8 DEF IsRepeated, Within
  <2>3. j \in 1 .. i - 1
    BY <1>1
  <2>4. j \in PassedBefore(messages, e.passed, i, DEDUPE_SECONDS)
    BY <2>1, <2>2, <2>3 DEF PassedBefore
  <2> QED
    BY <2>1, <2>4
<1>9. ASSUME NEW j \in PassedBefore(messages, e.passed, i, DEDUPE_SECONDS),
             messages[j].key = messages[i].key
      PROVE  IsRepeated(e, messages[i])
  <2>1. j \in 1 .. n /\ e.passed[j] /\ messages[i].at - messages[j].at < DEDUPE_SECONDS
    BY <1>1, <1>9 DEF PassedBefore
  <2>2. messages[i].key \in DOMAIN e.recent /\ messages[j].at <= e.recent[messages[i].key]
    BY <1>9, <2>1 DEF Remembers
  <2>3. e.recent[messages[i].key] \in Int
    <3>1. PICK k \in 1 .. n : messages[k].at = e.recent[messages[i].key]
      BY <2>2 DEF Remembers
    <3> QED
      BY <3>1, <1>1, <1>2
  <2>4. messages[i].at \in Int /\ messages[j].at \in Int
    <3>1. i \in 1 .. i /\ j \in 1 .. i
      BY <1>1, <2>1
    <3> QED
      BY <3>1, <1>2
  <2>5. messages[i].at - e.recent[messages[i].key] < DEDUPE_SECONDS
    <3> HIDE DEF n
    <3> QED
      BY <2>1, <2>2, <2>3, <2>4, <1>4
  <2> QED
    BY <2>2, <2>5 DEF IsRepeated, Within
<1> QED
  BY <1>7, <1>8, <1>9

LEMMA PassedBeforeIsFinite ==
  ASSUME NEW messages, NEW passed, NEW i \in Nat, NEW window
  PROVE  Cardinality(PassedBefore(messages, passed, i, window)) \in Nat
<1>1. IsFiniteSet(1 .. i - 1)
  BY FS_Interval
<1>2. PassedBefore(messages, passed, i, window) \subseteq 1 .. i - 1
  BY DEF PassedBefore
<1> QED
  BY <1>1, <1>2, FS_Subset, FS_CardinalityType

(* Another message does not change what was passed on before. *)
LEMMA EarlierStays ==
  ASSUME NEW messages, NEW passed \in Seq(BOOLEAN), NEW x \in BOOLEAN, NEW mode
  PROVE  /\ \A i \in DOMAIN passed :
              Rightly(mode, messages, passed, i) => Rightly(mode, messages, Append(passed, x), i)
         /\ \A window : PassedBefore(messages, Append(passed, x), Len(passed) + 1, window)
                          = PassedBefore(messages, passed, Len(passed) + 1, window)
<1>1. \A j \in 1 .. Len(passed) : Append(passed, x)[j] = passed[j]
  OBVIOUS
<1>2. \A i \in 1 .. Len(passed) + 1 : \A window :
        PassedBefore(messages, Append(passed, x), i, window)
          = PassedBefore(messages, passed, i, window)
  BY <1>1 DEF PassedBefore
<1>3. ASSUME NEW i \in DOMAIN passed, Rightly(mode, messages, passed, i)
      PROVE  Rightly(mode, messages, Append(passed, x), i)
  <2>1. i \in 1 .. Len(passed) + 1 /\ Append(passed, x)[i] = passed[i]
    BY <1>1
  <2>2. \A window :
          PassedBefore(messages, Append(passed, x), i, window)
            = PassedBefore(messages, passed, i, window)
    BY <1>2, <2>1
  <2> QED
    BY <1>3, <2>1, <2>2, Zenon DEF Rightly
<1>4. Len(passed) + 1 \in 1 .. Len(passed) + 1
  OBVIOUS
<1> QED
  BY <1>2, <1>3, <1>4

(* One message. *)
LEMMA NotifyStep ==
  ASSUME NEW messages \in Seq(Offered), InOrder(messages), NEW e, Remembers(e, messages),
         NEW mode \in Modes, NEW i \in DOMAIN messages, i = Len(e.passed) + 1
  PROVE  /\ Remembers(Notify(e, mode, messages, i), messages)
         /\ \E x \in BOOLEAN : /\ Notify(e, mode, messages, i).passed = Append(e.passed, x)
                               /\ Rightly(mode, messages, Append(e.passed, x), i)
<1> DEFINE m == messages[i]
           n == Len(e.passed)
           e2 == Notify(e, mode, messages, i)
<1>1. /\ n \in Nat /\ n + 1 = i /\ e.passed \in Seq(BOOLEAN)
      /\ e = [recent |-> e.recent, sent |-> e.sent, passed |-> e.passed]
  BY DEF Remembers
<1>2. \A j \in 1 .. i : j \in DOMAIN messages /\ messages[j].at \in Int /\ messages[j].at <= m.at
  BY UpToHere, Zenon
<1>3. m.importance \in 0 .. 3 /\ m \in Offered
  BY MessageFacts
<1>4. ASSUME NEW x \in BOOLEAN
      PROVE  /\ Append(e.passed, x) \in Seq(BOOLEAN) /\ Len(Append(e.passed, x)) = i
             /\ Append(e.passed, x)[i] = x
             /\ \A j \in 1 .. n : Append(e.passed, x)[j] = e.passed[j]
  BY <1>1
<1>5. i <= Len(messages)
  OBVIOUS
<1>6. CASE ShouldNotify(e, mode, messages, m)
  <2> DEFINE noted == [e EXCEPT !.sent = @ \cup {i}]
  <2>1. noted.sent = e.sent \cup {i}
    BY <1>1
  <2>2. /\ e2 = [recent |-> e2.recent, sent |-> e2.sent, passed |-> e2.passed]
        /\ e2.passed = Append(e.passed, TRUE)
        /\ e2.sent = {j \in e.sent \cup {i} : m.at - messages[j].at < RATE_WINDOW * 2}
        /\ e2.recent = [key \in DOMAIN e.recent \cup {m.key} |->
                          IF key = m.key THEN m.at ELSE e.recent[key]]
    BY <1>6, <2>1 DEF Notify, PassOn, SentWithin, Within
  <2> HIDE DEF e2
  <2>3. e2.sent \subseteq {j \in 1 .. i : e2.passed[j]}
    BY <1>1, <1>4, <2>2 DEF Remembers
  <2>4. \A j \in 1 .. i :
          e2.passed[j] /\ messages[i].at - messages[j].at < RATE_WINDOW * 2 => j \in e2.sent
    <3> SUFFICES ASSUME NEW j \in 1 .. i, e2.passed[j],
                        messages[i].at - messages[j].at < RATE_WINDOW * 2
                 PROVE  j \in e2.sent
      OBVIOUS
    <3>1. CASE j = i
      BY <3>1, <2>2
    <3>2. CASE j # i
      <4>1. j \in 1 .. n /\ e.passed[j]
        BY <3>2, <1>1, <1>4, <2>2
      <4>2. messages[n].at - messages[j].at < RATE_WINDOW * 2
        <5>1. /\ messages[i].at \in Int /\ messages[j].at \in Int /\ messages[n].at \in Int
              /\ messages[n].at <= messages[i].at /\ RATE_WINDOW * 2 \in Int
          <6>1. n \in 1 .. i /\ j \in 1 .. i /\ i \in 1 .. i
            BY <4>1, <1>1
          <6>2. RATE_WINDOW * 2 \in Int
            BY ProactivityAssumption
          <6> QED
            BY <6>1, <6>2, <1>2, Zenon
        <5> HIDE DEF n
        <5> QED
          BY <5>1
      <4>3. j \in e.sent
        BY <4>1, <4>2 DEF Remembers
      <4> QED
        BY <4>3, <2>2
    <3> QED
      BY <3>1, <3>2
  <2>5. ASSUME NEW key \in DOMAIN e2.recent
        PROVE  \E j \in 1 .. i :
                 e2.passed[j] /\ messages[j].key = key /\ messages[j].at = e2.recent[key]
    <3>1. CASE key = m.key
      BY <3>1, <2>2, <1>4, <1>1
    <3>2. CASE key # m.key
      <4>1. PICK j \in 1 .. n :
              e.passed[j] /\ messages[j].key = key /\ messages[j].at = e.recent[key]
        BY <3>2, <2>2 DEF Remembers
      <4>2. j \in 1 .. i /\ e2.passed[j] /\ e2.recent[key] = e.recent[key]
        BY <4>1, <3>2, <2>2, <1>4, <1>1
      <4> QED
        BY <4>1, <4>2
    <3> QED
      BY <3>1, <3>2
  <2>6. ASSUME NEW j \in 1 .. i, e2.passed[j]
        PROVE  messages[j].key \in DOMAIN e2.recent
                 /\ messages[j].at <= e2.recent[messages[j].key]
    <3>1. CASE messages[j].key = m.key
      BY <3>1, <2>2, <1>2
    <3>2. CASE messages[j].key # m.key
      <4>1. j \in 1 .. n /\ e.passed[j]
        BY <2>6, <3>2, <1>1, <1>4, <2>2
      <4>2. messages[j].key \in DOMAIN e.recent /\ messages[j].at <= e.recent[messages[j].key]
        BY <4>1 DEF Remembers
      <4> QED
        BY <4>2, <3>2, <2>2
    <3> QED
      BY <3>1, <3>2
  <2>7. Len(e2.passed) = i /\ e2.passed \in Seq(BOOLEAN)
    BY <1>4, <2>2
  <2>8. Remembers(e2, messages)
    <3>1. e2 = [recent |-> e2.recent, sent |-> e2.sent, passed |-> e2.passed]
      BY <2>2
    <3> QED
      BY <1>5, <3>1, <2>3, <2>4, <2>5, <2>6, <2>7, Zenon DEF Remembers
  <2>9. Rightly(mode, messages, Append(e.passed, TRUE), i)
    <3>1. \A window : PassedBefore(messages, Append(e.passed, TRUE), i, window)
                        = PassedBefore(messages, e.passed, i, window)
      BY <1>1, EarlierStays
    <3>2. mode # "OFF" /\ m.importance >= THRESHOLDS[mode]
      BY <1>6 DEF ShouldNotify, THRESHOLDS
    <3>3. ~\E j \in PassedBefore(messages, e.passed, i, DEDUPE_SECONDS) :
             messages[j].key = m.key
      BY <1>6, LooksUpTheWindow DEF ShouldNotify
    <3>4. \/ m.importance = CRITICAL
          \/ Cardinality(PassedBefore(messages, e.passed, i, RATE_WINDOW)) < RATE_LIMIT
      BY <1>6, LooksUpTheWindow DEF ShouldNotify
    <3>5. Append(e.passed, TRUE)[i] = TRUE
      BY <1>4
    <3>6. Cardinality(PassedBefore(messages, e.passed, i, RATE_WINDOW)) \in Nat
      BY <1>1, PassedBeforeIsFinite
    <3>7. Cardinality(PassedBefore(messages, e.passed, i, RATE_WINDOW)) >= RATE_LIMIT
            => m.importance = CRITICAL
      BY <3>4, <3>6, ProactivityAssumption
    <3> QED
      BY <3>1, <3>2, <3>3, <3>5, <3>7, Zenon DEF Rightly
  <2> QED
    BY <2>2, <2>8, <2>9 DEF e2
<1>7. CASE ~ShouldNotify(e, mode, messages, m)
  <2>1. e2 = [recent |-> e.recent, sent |-> e.sent, passed |-> Append(e.passed, FALSE)]
    BY <1>1, <1>7 DEF Notify
  <2> HIDE DEF e2
  <2>2. ASSUME NEW j \in 1 .. i, e2.passed[j] PROVE j \in 1 .. n /\ e.passed[j]
    BY <2>1, <2>2, <1>1, <1>4
  <2>3. e2.sent \subseteq {j \in 1 .. i : e2.passed[j]}
    BY <2>1, <1>1, <1>4 DEF Remembers
  <2>4. \A j \in 1 .. i :
          e2.passed[j] /\ messages[i].at - messages[j].at < RATE_WINDOW * 2 => j \in e2.sent
    <3> SUFFICES ASSUME NEW j \in 1 .. i, e2.passed[j],
                        messages[i].at - messages[j].at < RATE_WINDOW * 2
                 PROVE  j \in e2.sent
      OBVIOUS
    <3>1. j \in 1 .. n /\ e.passed[j]
      BY <2>2
    <3>2. messages[n].at - messages[j].at < RATE_WINDOW * 2
      <4>1. /\ messages[i].at \in Int /\ messages[j].at \in Int /\ messages[n].at \in Int
            /\ messages[n].at <= messages[i].at /\ RATE_WINDOW * 2 \in Int
        <5>1. n \in 1 .. i /\ j \in 1 .. i /\ i \in 1 .. i
          BY <3>1, <1>1
        <5>2. RATE_WINDOW * 2 \in Int
          BY ProactivityAssumption
        <5> QED
          BY <5>1, <5>2, <1>2, Zenon
      <4> HIDE DEF n
      <4> QED
        BY <4>1
    <3> QED
      BY <3>1, <3>2, <2>1 DEF Remembers
  <2>5. ASSUME NEW key \in DOMAIN e2.recent
        PROVE  \E j \in 1 .. i :
                 e2.passed[j] /\ messages[j].key = key /\ messages[j].at = e2.recent[key]
    <3>1. PICK j \in 1 .. n :
            e.passed[j] /\ messages[j].key = key /\ messages[j].at = e.recent[key]
      BY <2>1 DEF Remembers
    <3> QED
      BY <3>1, <2>1, <1>4, <1>1
  <2>6. \A j \in 1 .. i : e2.passed[j] => /\ messages[j].key \in DOMAIN e2.recent
                                          /\ messages[j].at <= e2.recent[messages[j].key]
    BY <2>1, <2>2 DEF Remembers
  <2>7. Len(e2.passed) = i /\ e2.passed \in Seq(BOOLEAN)
    BY <1>4, <2>1
  <2>8. Remembers(e2, messages)
    <3>1. e2 = [recent |-> e2.recent, sent |-> e2.sent, passed |-> e2.passed]
      BY <2>1
    <3> QED
      BY <1>5, <3>1, <2>3, <2>4, <2>5, <2>6, <2>7, Zenon DEF Remembers
  <2>9. Rightly(mode, messages, Append(e.passed, FALSE), i)
    <3>1. \A window : PassedBefore(messages, Append(e.passed, FALSE), i, window)
                        = PassedBefore(messages, e.passed, i, window)
      BY <1>1, EarlierStays
    <3>2. CASE mode \notin DOMAIN THRESHOLDS
      <4>1. mode = "OFF"
        BY <3>2 DEF Modes
      <4> QED
        BY <4>1, <1>4 DEF Rightly
    <3>3. CASE mode \in DOMAIN THRESHOLDS /\ ~(m.importance >= THRESHOLDS[mode])
      BY <3>3, <1>4 DEF Rightly
    <3>6. Append(e.passed, FALSE)[i] = FALSE
      BY <1>4
    <3>4. CASE IsRepeated(e, m)
      <4>1. \E j \in PassedBefore(messages, e.passed, i, DEDUPE_SECONDS) :
              messages[j].key = m.key
        BY <3>4, LooksUpTheWindow
      <4> QED
        BY <4>1, <3>1, <3>6, Zenon DEF Rightly
    <3>5. CASE /\ m.importance # CRITICAL
               /\ ~(Cardinality(PassedBefore(messages, e.passed, i, RATE_WINDOW)) < RATE_LIMIT)
      <4>1. Cardinality(PassedBefore(messages, e.passed, i, RATE_WINDOW)) \in Nat
        BY <1>1, PassedBeforeIsFinite
      <4>2. Cardinality(PassedBefore(messages, e.passed, i, RATE_WINDOW)) >= RATE_LIMIT
        BY <3>5, <4>1, ProactivityAssumption
      <4> QED
        BY <3>5, <4>2, <3>1, <3>6, Zenon DEF Rightly
    <3> QED
      BY <1>7, <3>2, <3>3, <3>4, <3>5, LooksUpTheWindow DEF ShouldNotify
  <2> QED
    <3>1. e2.passed = Append(e.passed, FALSE)
      BY <2>1
    <3> QED
      BY <3>1, <2>8, <2>9 DEF e2
<1> QED
  BY <1>6, <1>7

LEMMA EngineInvInit == TablesInit => EngineInv
<1> SUFFICES ASSUME TablesInit, input.of = "notify" PROVE EngineInv
  BY DEF EngineInv
<1>1. input \in Messages
  BY DEF TablesInit, Situations, Commands, Occurrences
<1>2. engine.passed = <<>> /\ engine.sent = {} /\ DOMAIN engine.recent = {} /\ engine = Silent
  BY DEF TablesInit, Silent
<1>3. Len(input.messages) \in Nat
  BY <1>1, TablesAssumption DEF Messages
<1> QED
  BY <1>1, <1>2, <1>3 DEF EngineInv, Remembers, Silent

LEMMA EngineInvStep == EngineInv /\ [TablesNext]_tableVars => EngineInv'
<1> SUFFICES ASSUME EngineInv, [TablesNext]_tableVars PROVE EngineInv'
  OBVIOUS
<1>1. CASE Offer
  <2>1. /\ input \in Messages /\ Remembers(engine, input.messages) /\ input' = input
        /\ engine' = Notify(engine, input.mode, input.messages, Len(engine.passed) + 1)
        /\ Len(engine.passed) < Len(input.messages)
        /\ \A i \in DOMAIN engine.passed : Rightly(input.mode, input.messages, engine.passed, i)
    BY <1>1 DEF Offer, EngineInv
  <2>2. /\ input.mode \in Modes /\ input.messages \in Seq(Offered) /\ InOrder(input.messages)
    BY <2>1, TablesAssumption DEF Messages, InOrder
  <2>3. engine.passed \in Seq(BOOLEAN) /\ Len(engine.passed) \in Nat
    BY <2>1 DEF Remembers
  <2>4. PICK i \in DOMAIN input.messages : i = Len(engine.passed) + 1
    BY <2>1, <2>2, <2>3
  <2>5. PICK x \in BOOLEAN :
          /\ engine'.passed = Append(engine.passed, x)
          /\ Rightly(input.mode, input.messages, Append(engine.passed, x), i)
    BY <2>1, <2>2, <2>4, NotifyStep
  <2>6. Remembers(engine', input.messages)
    BY <2>1, <2>2, <2>4, NotifyStep
  <2>7. \A k \in DOMAIN engine'.passed : Rightly(input.mode, input.messages, engine'.passed, k)
    <3> SUFFICES ASSUME NEW k \in DOMAIN Append(engine.passed, x)
                 PROVE  Rightly(input.mode, input.messages, Append(engine.passed, x), k)
      BY <2>5
    <3>1. k \in DOMAIN engine.passed \/ k = i
      BY <2>3, <2>4
    <3> QED
      BY <3>1, <2>1, <2>3, <2>5, EarlierStays
  <2> QED
    BY <2>1, <2>6, <2>7 DEF EngineInv
<1>2. CASE Judge \/ Classify \/ Schedule
  BY <1>2 DEF EngineInv, Judge, Classify, Schedule
<1>3. CASE UNCHANGED tableVars
  BY <1>3 DEF EngineInv, tableVars
<1> QED
  BY <1>1, <1>2, <1>3 DEF TablesNext

(* core/proactive.py, notify: whatever is offered and however often, and for *)
(* any window and rate, what the engine remembers is enough to pass on what  *)
(* matters, not twice within a while, and not too often; sent, which is      *)
(* pruned, forgets nothing that still counts.                                *)
THEOREM AlwaysOnlyWhatMattersAndNotTooOften == TablesSpec => []OnlyWhatMattersAndNotTooOften
<1>1. EngineInv => OnlyWhatMattersAndNotTooOften
  BY DEF EngineInv, OnlyWhatMattersAndNotTooOften, Rightly, PassedBefore
<1> QED
  BY <1>1, EngineInvInit, EngineInvStep, PTL DEF TablesSpec
=============================================================================
