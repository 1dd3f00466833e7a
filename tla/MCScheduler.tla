----------------------------- MODULE MCScheduler -----------------------------
(* Small instances of Scheduler for TLC: a clock that is set back by two slots *)
(* two slots after the start, and no month in sight.                           *)
EXTENDS Scheduler

MCForward == -4

MCMonthStart == <<0, 31, 59>>

MCReminders == {"r1", "r2"}

Broken == Rule("interval", -1, {}, 0)
Once == Rule("one_time", 0, {}, 0)
Often == Rule("interval", 1, {}, 0)
Daily == Rule("daily", 0, {}, 0)

(* One that raises beside one that recurs, and two that do not raise. *)
MCRules ==
    {[r \in MCReminders |-> IF r = "r1" THEN Broken ELSE Often],
     [r \in MCReminders |-> IF r = "r1" THEN Daily ELSE Once]}
=============================================================================
