------------------------------ MODULE Scheduler ------------------------------
(***************************************************************************)
(* core/scheduler.py: the loop that announces due reminders, with the user *)
(* who changes them, and a process that stops and starts again.            *)
(*                                                                         *)
(* fire has three steps: it computes the next run and asks for an UPDATE,  *)
(* the database carries the UPDATE out, and the coroutine goes on and      *)
(* announces the reminder; the next fire of the same tick begins in the    *)
(* same step.  What a reminder says, last_fired_at and missed_count are    *)
(* left out.                                                               *)
(***************************************************************************)
EXTENDS Recurrence

CONSTANTS
    Reminders,
    Rules,               \* the rules they may have
    Horizon,             \* bound: the last moment there is
    Ahead,               \* bound: how far ahead a reminder is created
    MaxFailures          \* bound on the statements that fail

ASSUME SchedulerAssumption ==
    /\ Rules \subseteq [Reminders -> Schedules]
    /\ "none" \notin Reminders
    /\ Horizon \in Nat /\ Ahead \in Nat /\ MaxFailures \in Nat
    /\ Len(MonthStart) > 1 /\ DayOf(Horizon + Shift) < MonthStart[Len(MonthStart) - 1]

VARIABLES
    now,
    rule,                \* the columns of each row that never change
    row,                 \* no row yet, a row, or a deleted one
    enabled, nextRun,    \* columns of the row
    process,             \* off, or in start, or in _loop
    pc,                  \* where the ticking coroutine is
    moment,              \* the time it took last, while that is still needed
    pending,             \* the due rows it has read and not begun to fire
    current,             \* the one it is firing
    failures,
    told,                \* the scheduled time announced last, since the last enabling
    extra                \* announcements since the user silenced the reminder

userVars == <<rule, row, enabled, nextRun, told, extra>>
tickVars == <<pc, moment, pending, current>>
vars == <<now, userVars, process, tickVars, failures>>

Times == NoTime .. Horizon
NextIsOld == -2          \* of told: what is announced next was moved on before the enabling
Snapshots == [id : Reminders, next : Nat]
None == [id |-> "none", next |-> NoTime]

TypeOK ==
    /\ now \in 0 .. Horizon
    /\ rule \in Rules
    /\ row \in [Reminders -> {"unused", "stored", "deleted"}]
    /\ enabled \in [Reminders -> BOOLEAN]
    /\ nextRun \in [Reminders -> Nat \cup {NoTime}]
    /\ process \in {"off", "starting", "up"}
    /\ pc \in {"idle", "selecting", "updating", "updated"}
    /\ moment \in Times
    /\ pending \subseteq Snapshots
    /\ current \in Snapshots \cup {None}
    /\ failures \in 0 .. MaxFailures
    /\ told \in [Reminders -> Times \cup {NextIsOld}]
    /\ extra \in [Reminders -> {"audible", "none", "one", "more"}]
    /\ process = "off" => pc = "idle"
    /\ process = "starting" => pc # "idle"
    /\ pc \in {"updating", "updated"} <=> current # None

Init ==
    /\ now = 0
    /\ rule \in Rules
    /\ row = [r \in Reminders |-> "unused"]
    /\ enabled = [r \in Reminders |-> FALSE]
    /\ nextRun = [r \in Reminders |-> NoTime]
    /\ process = "off"
    /\ pc = "idle"
    /\ moment = NoTime
    /\ pending = {}
    /\ current = None
    /\ failures = 0
    /\ told = [r \in Reminders |-> NoTime]
    /\ extra = [r \in Reminders |-> "audible"]

-----------------------------------------------------------------------------
(* The user, once the application serves requests. *)

CreateReminder(r) ==
    /\ process = "up"
    /\ row[r] = "unused"
    /\ row' = [row EXCEPT ![r] = "stored"]
    /\ enabled' = [enabled EXCEPT ![r] = TRUE]
    /\ \E when \in now .. now + Ahead :
          when <= Horizon /\ nextRun' = [nextRun EXCEPT ![r] = when]
    /\ UNCHANGED <<now, rule, process, tickVars, failures, told, extra>>

(* update_reminder *)
SetEnabled(r) ==
    /\ process = "up"
    /\ row[r] = "stored"
    /\ \E on \in BOOLEAN :
          /\ enabled' = [enabled EXCEPT ![r] = on]
          /\ told' = IF on THEN [told EXCEPT ![r] = IF pc = "updated" /\ current.id = r
                                                    THEN NextIsOld ELSE NoTime]
                     ELSE told
          /\ extra' = [extra EXCEPT ![r] = IF on THEN "audible"
                                           ELSE IF @ = "audible" THEN "none" ELSE @]
    /\ UNCHANGED <<now, rule, row, nextRun, process, tickVars, failures>>

Delete(r) ==
    /\ process = "up"
    /\ row[r] = "stored"
    /\ row' = [row EXCEPT ![r] = "deleted"]
    /\ enabled' = [enabled EXCEPT ![r] = FALSE]
    /\ nextRun' = [nextRun EXCEPT ![r] = NoTime]
    /\ extra' = [extra EXCEPT ![r] = IF @ = "audible" THEN "none" ELSE @]
    /\ UNCHANGED <<now, rule, process, tickVars, failures, told>>

-----------------------------------------------------------------------------
(* The ticking coroutine. *)

(* Nothing more to fire: the loop sleeps, or start hands over to it. *)
EndTick ==
    /\ pc' = "idle"
    /\ pending' = {}
    /\ current' = None
    /\ moment' = NoTime
    /\ process' = "up"

Earliest(due) == {s \in due : \A t \in due : s.next <= t.next}

(* Mutated form: one reminder whose firing raises ends the tick. *)
BeginStopping(due) ==
    IF due = {} \/ \E s \in Earliest(due) : Raises(rule[s.id]) THEN EndTick
    ELSE /\ pc' = "updating"
         /\ moment' = now
         /\ \E s \in Earliest(due) : current' = s /\ pending' = due \ {s}
         /\ UNCHANGED process

(* On to the next of the due reminders, in the order of their times; one whose *)
(* firing raises is logged and passed over.                                    *)
Begin(due) ==
    LET sound == {s \in due : ~Raises(rule[s.id])}
    IN IF sound = {} THEN EndTick
       ELSE /\ pc' = "updating"
            /\ moment' = now
            /\ \E s \in Earliest(sound) : current' = s /\ pending' = sound \ {s}
            /\ UNCHANGED process

(* The loop's pause is over. *)
Tick ==
    /\ process = "up"
    /\ pc = "idle"
    /\ pc' = "selecting"
    /\ moment' = now
    /\ UNCHANGED <<now, userVars, process, pending, current, failures>>

(* start: the first tick comes before anything else. *)
Start ==
    /\ process = "off"
    /\ process' = "starting"
    /\ pc' = "selecting"
    /\ moment' = now
    /\ UNCHANGED <<now, userVars, pending, current, failures>>

(* Mutated form: the column enabled is not asked. *)
DueDisabledToo == {r \in Reminders : row[r] = "stored" /\ nextRun[r] <= moment}

(* due *)
Due == {r \in Reminders : row[r] = "stored" /\ enabled[r] /\ nextRun[r] <= moment}

Select ==
    /\ pc = "selecting"
    /\ Begin({[id |-> r, next |-> nextRun[r]] : r \in Due})
    /\ UNCHANGED <<now, userVars, failures>>

(* The UPDATE of fire, for what its coroutine computed when it began. *)
Moved(s) ==
    LET upcoming == NextOccurrence(rule[s.id], s.next, moment)
    IN IF row[s.id] # "stored" THEN UNCHANGED <<enabled, nextRun>>
       ELSE IF upcoming # NoTime
       THEN nextRun' = [nextRun EXCEPT ![s.id] = upcoming] /\ UNCHANGED enabled
       ELSE enabled' = [enabled EXCEPT ![s.id] = FALSE] /\ UNCHANGED nextRun

Update ==
    /\ pc = "updating"
    /\ pc' = "updated"
    /\ Moved(current)
    /\ moment' = NoTime
    /\ UNCHANGED <<now, rule, row, told, extra, process, pending, current, failures>>

Told(r) == CASE extra[r] = "audible" -> "audible" [] extra[r] = "none" -> "one"
             [] extra[r] \in {"one", "more"} -> "more"

(* The event, and on to the next reminder. *)
Announce ==
    /\ pc = "updated"
    /\ told' = [told EXCEPT ![current.id] = IF @ = NextIsOld THEN NoTime ELSE current.next]
    /\ extra' = [extra EXCEPT ![current.id] = Told(current.id)]
    /\ Begin(pending)
    /\ UNCHANGED <<now, rule, row, enabled, nextRun, failures>>

(* Mutated form: the reminder is announced although it could not be moved on. *)
FailUpdateAnnouncing ==
    /\ pc = "updating"
    /\ failures < MaxFailures
    /\ failures' = failures + 1
    /\ pc' = "updated"
    /\ moment' = NoTime
    /\ UNCHANGED <<now, userVars, process, pending, current>>

(* The UPDATE fails: nothing is announced, and the next reminder's turn comes. *)
FailUpdate ==
    /\ pc = "updating"
    /\ failures < MaxFailures
    /\ failures' = failures + 1
    /\ Begin(pending)
    /\ UNCHANGED <<now, userVars>>

(* The SELECT fails: the loop goes on, start does not. *)
FailSelect ==
    /\ pc = "selecting"
    /\ failures < MaxFailures
    /\ failures' = failures + 1
    /\ pc' = "idle"
    /\ moment' = NoTime
    /\ process' = IF process = "starting" THEN "off" ELSE process
    /\ UNCHANGED <<now, userVars, pending, current>>

(* stop, or the process dies: a statement under way is carried out or is not. *)
Halt ==
    /\ process # "off"
    /\ process' = "off"
    /\ pc' = "idle"
    /\ moment' = NoTime
    /\ pending' = {}
    /\ current' = None
    /\ \/ pc = "updating" /\ Moved(current)
       \/ UNCHANGED <<enabled, nextRun>>
    /\ UNCHANGED <<now, rule, row, told, extra, failures>>

TimePasses ==
    /\ now < Horizon
    /\ now' = now + 1
    /\ UNCHANGED <<userVars, process, tickVars, failures>>

Ticker == Tick \/ Select \/ Update \/ Announce

Next ==
    \/ \E r \in Reminders : CreateReminder(r) \/ SetEnabled(r) \/ Delete(r)
    \/ Ticker \/ FailUpdate \/ FailSelect
    \/ Start \/ Halt \/ TimePasses

Spec == Init /\ [][Next]_vars

(* The pause ends, the database answers, and the event loop goes on. *)
FairSpec == Spec /\ WF_vars(Ticker)

-----------------------------------------------------------------------------
(* Properties. *)

Announcing(r) == pc = "updated" /\ process' # "off" /\ pc' # "updated" /\ current.id = r

Again(r) == Announcing(r) /\ current.next <= told[r]

InFirstPass(u) == Repeated(Local(u).wall) /\ Local(u).fold = 0

(* tick and fire: however ticks, failing statements, restarts and the user's  *)
(* changes fall, a scheduled time is announced at most once, and they come in *)
(* order, unless the user enables the reminder again.  A time in the first    *)
(* pass of the hour that the clocks repeat is the exception, by Ahead.        *)
AnnouncedOnce == [][\A r \in Reminders : Again(r) => InFirstPass(current.next)]_vars

(* due and tick: a reminder that was switched off or deleted while a tick had *)
(* it on its list is announced once more at most.                             *)
SilencedSoon == \A r \in Reminders : extra[r] # "more"

(* tick: a due reminder is announced while the process runs, whatever becomes *)
(* of the others in its list, unless the user silences it first or enables it *)
(* while it is fired.                                                         *)
DueIsAnnounced ==
    \A r \in Reminders, t \in 0 .. Horizon :
        (process = "up" /\ row[r] = "stored" /\ enabled[r] /\ nextRun[r] = t /\ t <= now
            /\ ~Raises(rule[r]))
        ~> (told[r] >= t \/ told[r] = NextIsOld \/ extra[r] # "audible" \/ process = "off")
=============================================================================
