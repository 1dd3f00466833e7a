------------------------------- MODULE Tables -------------------------------
(***************************************************************************)
(* The pure functions of the program against their references, one         *)
(* behaviour per input: evaluate of core/permissions.py on its whole       *)
(* table, the class of a command line in tools/terminal.py with what the   *)
(* engine says of it, and next_occurrence of core/scheduler.py on          *)
(* reminders around the ends of the months and the two clock changes; and  *)
(* the messages core/proactive.py passes on, one step for each.            *)
(***************************************************************************)
EXTENDS CommandClass, Proactivity, Recurrence

CONSTANTS
    Days,        \* the days on which the reminders were due
    Clocks,      \* and the times of day, in slots
    Delays,      \* how much later next_occurrence is called
    RowRules,    \* the rules of the reminders
    Lines,       \* the command lines
    TerminalSettings,  \* what the settings say of the three terminal capabilities
    Offers       \* the sequences of messages the proactive engine is offered

DueAt(d, clock) == Utc([wall |-> d * SlotsPerDay + clock, fold |-> 0])

TerminalCapabilities == {"TERMINAL_READ", "TERMINAL_WRITE", "TERMINAL_ADMIN"}

(* The calendar reaches beyond the month after every call; a row with an   *)
(* interval below zero gets no answer; and the clock of the program, by    *)
(* which messages are offered, is not set back.                            *)
ASSUME TablesAssumption ==
    /\ Days \subseteq Nat /\ Clocks \subseteq 0 .. SlotsPerDay - 1 /\ Delays \subseteq Nat
    /\ Len(MonthStart) > 1
    /\ \A d \in Days, clock \in Clocks, delay \in Delays :
          DayOf(DueAt(d, clock) + delay + Shift) < MonthStart[Len(MonthStart) - 1]
    /\ RowRules \subseteq {rule \in Schedules : ~Raises(rule)}
    /\ Lines \subseteq [stages : Seq(Stages), open : BOOLEAN, spanning : BOOLEAN]
    /\ TerminalSettings \subseteq [TerminalCapabilities -> Values]
    /\ \A messages \in Offers :
          /\ messages \in Seq(Offered)
          /\ \A i, j \in DOMAIN messages : i <= j => messages[i].at <= messages[j].at

VARIABLES
    input,       \* the arguments of the call
    answer,      \* the empty set, then the result
    engine       \* the proactive engine

tableVars == <<input, answer, engine>>

Situations ==
    [of : {"evaluate"}, stop : BOOLEAN, value : Values, level : Levels, risk : Risks,
     granted : BOOLEAN]

(* A reminder for the end of every month is never due before the 28th. *)
Possible(rule, previous) ==
    rule.kind = "monthly" /\ rule.day # 0 =>
        DayOfMonth(DayOf(Local(previous).wall)) >= SmallerOf(rule.day, 28)

Occurrences ==
    {[of |-> "next_occurrence", rule |-> on[1], previous |-> on[2], after |-> on[2] + delay] :
        on \in {rowDue \in RowRules \X {DueAt(d, clock) : d \in Days, clock \in Clocks} :
                    Possible(rowDue[1], rowDue[2])},
        delay \in Delays}

Commands ==
    [of : {"classify_command"}, line : Lines, value : TerminalSettings, level : Levels]

Messages == [of : {"notify"}, mode : Modes, messages : Offers]

EvaluateInput(i) == Evaluate(i.stop, i.value, i.level, i.risk, i.granted)

NextOfInput(i) == NextOccurrence(i.rule, i.previous, i.after)

TablesInit ==
    /\ input \in Situations \cup Commands \cup Messages \cup Occurrences
    /\ answer = {}
    /\ engine = Silent

Judge ==
    /\ input.of = "evaluate"
    /\ answer = {}
    /\ answer' = {EvaluateInput(input)}
    /\ UNCHANGED <<input, engine>>

Classify ==
    /\ input.of = "classify_command"
    /\ answer = {}
    /\ answer' = {DecisionOn(input.line, input.value, input.level)}
    /\ UNCHANGED <<input, engine>>

(* poll: the next message of the watchers. *)
Offer ==
    /\ input.of = "notify"
    /\ Len(engine.passed) < Len(input.messages)
    /\ engine' = Notify(engine, input.mode, input.messages, Len(engine.passed) + 1)
    /\ UNCHANGED <<input, answer>>

Schedule ==
    /\ input.of = "next_occurrence"
    /\ answer = {}
    /\ answer' = {NextOfInput(input)}
    /\ UNCHANGED <<input, engine>>

TablesNext == Judge \/ Classify \/ Offer \/ Schedule

TablesSpec == TablesInit /\ [][TablesNext]_tableVars

Answered(function) == input.of = function /\ answer # {}

Decided == Answered("evaluate")

Scheduled == Answered("next_occurrence")

TheAnswer == CHOOSE a \in answer : TRUE

-----------------------------------------------------------------------------
(* evaluate.  The reference: each control has its own verdict, 0 refused,  *)
(* 1 ask, 2 go ahead, and the strictest one counts.                        *)
Strictness == [d \in Decisions |->
    CASE d = "DENIED" -> 0 [] d = "NEEDS_CONFIRMATION" -> 1 [] d = "ALLOWED" -> 2]

ValueVerdict(v) == CASE v = "DENY" -> 0 [] v = "ASK" -> 1 [] v = "ALLOW" -> 2

LevelVerdict(l, r) ==
    IF RiskOrder[r] <= RiskOrder[AutoCeiling[l]] THEN 2
    ELSE IF l = 0 THEN 0 ELSE 1

ReferenceVerdict(i) ==
    LET controls == SmallerOf(ValueVerdict(i.value), LevelVerdict(i.level, i.risk))
        granted == i.granted /\ i.risk # "PRIVILEGED" /\ controls = 1
    IN IF i.stop THEN 0 ELSE IF granted THEN 2 ELSE controls

(* core/permissions.py, module comment: the controls combine and the        *)
(* strictest one wins; a grant turns a question into a go, nothing else.    *)
StrictestControlWins == Decided => Strictness[TheAnswer] = ReferenceVerdict(input)

-----------------------------------------------------------------------------
(* classify_command, with the verdict on the line. *)

(* Settings in which a riskier capability is no freer than a milder one. *)
Ordered(value) ==
    /\ ValueVerdict(value.TERMINAL_ADMIN) <= ValueVerdict(value.TERMINAL_WRITE)
    /\ ValueVerdict(value.TERMINAL_WRITE) <= ValueVerdict(value.TERMINAL_READ)

(* The stage as a line of its own. *)
Alone(stage) == [stages |-> <<stage>>, open |-> FALSE, spanning |-> FALSE]

(* The pattern that must end the line is not found before an operator. *)
Hides(line, i) == line.stages[i].pattern = "at_end" /\ ~EndsTheLine(line, i)

AsItStands(line, i) ==
    IF Hides(line, i) THEN [line.stages[i] EXCEPT !.pattern = "none"] ELSE line.stages[i]

(* tools/terminal.py, classify_command: "taking the highest class of all its *)
(* parts": putting commands together, in any order and with any redirection  *)
(* or danger, gets none of them past the engine that it would not let pass   *)
(* alone.  The code falls short of that for one pattern, and there only: a   *)
(* deletion of the root behind a harmless program ("env rm -r /") counts     *)
(* where it ends the line and not before an operator; such a stage keeps     *)
(* what its program, its argument and its redirection make of it.            *)
LineIsNoFreerThanItsStages ==
    Answered("classify_command") /\ Ordered(input.value) =>
        \A i \in DOMAIN input.line.stages :
            Strictness[TheAnswer] <=
                Strictness[DecisionOn(Alone(AsItStands(input.line, i)), input.value, input.level)]

-----------------------------------------------------------------------------
(* notify. *)

(* core/proactive.py: "only about things that matter, and only as often as  *)
(* the user allows": said of the messages passed on and of nothing else, a  *)
(* message is passed on when it is important enough, was not passed on a    *)
(* while ago, and is critical or one of a few in its window.                *)
OnlyWhatMattersAndNotTooOften ==
    input.of = "notify" =>
        \A i \in DOMAIN engine.passed :
            LET m == input.messages[i]
                earlier(window) == {j \in 1 .. i - 1 :
                    engine.passed[j] /\ m.at - input.messages[j].at < window}
                matters == input.mode # "OFF" /\ m.importance >= THRESHOLDS[input.mode]
                repeated == \E j \in earlier(DEDUPE_SECONDS) : input.messages[j].key = m.key
                tooOften == Cardinality(earlier(RATE_WINDOW)) >= RATE_LIMIT
            IN engine.passed[i] <=> matters /\ ~repeated /\ (tooOften => m.importance = CRITICAL)

-----------------------------------------------------------------------------
(* next_occurrence. *)

(* Was the call made in the second pass of the repeated hour? *)
InSecondPass == Local(input.after).fold = 1

WeekSlots == 7 * SlotsPerDay

WantedWeekdays(rule, previous) ==
    IF rule.weekdays = {} THEN {WeekdayOf(Local(previous).wall)} ELSE rule.weekdays

WantedDay(rule, previous) ==
    IF rule.day # 0 THEN rule.day ELSE DayOfMonth(DayOf(Local(previous).wall))

(* The local readings at which the rule wants a reminder that is due at    *)
(* previous, said of the reading itself and not of the way to get there:   *)
(* every so many days or weeks at its time of day, counted from the day it *)
(* is due; on its day of each month, or the last one of a shorter month;   *)
(* every so many slots by the clock on the wall.                           *)
Matches(rule, previous, l) ==
    LET p == Local(previous)
        daysLater == DayOf(l.wall) - DayOf(p.wall)
    IN CASE rule.kind = "daily" ->
              /\ ClockOf(l.wall) = ClockOf(p.wall)
              /\ rule.step > SlotsPerDay => daysLater % (rule.step \div SlotsPerDay) = 0
         [] rule.kind = "weekly" ->
              /\ ClockOf(l.wall) = ClockOf(p.wall)
              /\ WeekdayOf(l.wall) \in WantedWeekdays(rule, previous)
              /\ rule.step > WeekSlots => (daysLater \div 7) % (rule.step \div WeekSlots) = 0
         [] rule.kind = "monthly" ->
              /\ ClockOf(l.wall) = ClockOf(p.wall)
              /\ DayOfMonth(DayOf(l.wall)) =
                    SmallerOf(WantedDay(rule, previous), MonthDays(MonthOf(DayOf(l.wall))))
         [] rule.kind = "interval" -> (l.wall - p.wall) % rule.step = 0

(* The rule as the code keeps to it, where that is not the rule: what is   *)
(* stored for every few weeks is not looked at and the reminder comes every *)
(* week, and the 29th, 30th and 31st become the 28th of every month.       *)
AsKept(rule, previous) ==
    CASE rule.kind = "weekly" -> [rule EXCEPT !.step = WeekSlots]
      [] rule.kind = "monthly" -> [rule EXCEPT !.day = SmallerOf(WantedDay(rule, previous), 28)]
      [] OTHER -> rule

(* A time in the first pass of the repeated hour, answered in the second.  *)
PassedAlready == InSecondPass /\ TheAnswer \in Back - Shift .. Back - 1

(* Where the code follows that to the letter: the clocks do not change at  *)
(* that time of day, nor between two runs of an interval, and the call is  *)
(* not in the second pass for one; a reminder of every few days is fired   *)
(* on the day it was due, and a monthly one in the month it was due.       *)
Regular ==
    LET p == Local(input.previous)
        a == Local(input.after)
    IN /\ \A w \in {Forward, Back} :
             ClockOf(p.wall) \notin {ClockOf(w + k) : k \in 0 .. Shift - 1}
       /\ input.rule.kind = "daily" /\ input.rule.step > SlotsPerDay =>
             DayOf(a.wall) = DayOf(p.wall)
       /\ input.rule.kind = "interval" =>
             /\ ~InSecondPass
             /\ \A t \in {Forward, Back} :
                   ~(input.previous < t /\ t <= input.after + input.rule.step)
       /\ input.rule.kind = "monthly" => MonthOf(DayOf(a.wall)) = MonthOf(DayOf(p.wall))

(* core/scheduler.py: "Recurring reminders stay on local wall-clock time": the *)
(* next run is after the call, unless the call is in the second pass of the    *)
(* repeated hour and the code answers a time of the first; and it is the first *)
(* moment after the call that the rule wants, as the code keeps to it, across  *)
(* the ends of months and the clock changes alike.                             *)
NextIsFirstMatch ==
    Scheduled /\ input.rule.kind # "one_time" =>
        /\ TheAnswer > input.after \/ PassedAlready
        /\ Regular =>
              LET Wants(u) == Matches(AsKept(input.rule, input.previous), input.previous, Local(u))
              IN /\ TheAnswer > input.after
                 /\ Wants(TheAnswer)
                 /\ \A u \in input.after + 1 .. TheAnswer - 1 : ~Wants(u)
=============================================================================
