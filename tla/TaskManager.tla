----------------------------- MODULE TaskManager -----------------------------
(***************************************************************************)
(* core/tasks.py: task rows, the handles of running tasks and cancelling a *)
(* tree of tasks, driven by Orchestrator.run (agents/orchestrator.py), the *)
(* cancel endpoint and the emergency stop's listener.                      *)
(*                                                                         *)
(* Every await of these coroutines is a database statement.  The database  *)
(* has one connection behind an asyncio.Lock, which serves in the order of *)
(* arrival and is handed on when its holder runs again; so a step is: the  *)
(* coroutine at the head of the queue has its statement carried out and    *)
(* runs on to its next statement, where it queues up again.                *)
(***************************************************************************)
EXTENDS Integers, Sequences

CONSTANTS
    Tasks,               \* task ids
    Parent,              \* parent_id of each task; 0 is NULL
    Requests,            \* coroutines that cancel on behalf of the user or the stop
    Stops,               \* is the emergency stop used?
    Crashes              \* may the process die and start again?

(* A parent is inserted before its children. *)
ASSUME TaskAssumption ==
    /\ Tasks \subseteq Nat \ {0}
    /\ Parent \in [Tasks -> Tasks \cup {0}]
    /\ \A t \in Tasks : Parent[t] < t
    /\ Tasks \cap Requests = {}
    /\ Stops \in BOOLEAN
    /\ Crashes \in BOOLEAN

VARIABLES
    status,              \* tasks.status; "NONE" before the insert
    handle,              \* the keys of TaskManager._running
    engaged, registered, signalled,
    work,                \* where Orchestrator.run stands for the task
    frames,              \* the calls of cancel a coroutine is in, innermost first
    remaining,           \* cancel_all: the ids still to be cancelled
    scheduled,           \* requests that are a cancel_all about to run
    queue                \* the coroutines at the database lock

(* The cancellation event of a task is the one its handle was made with. *)
Stop == INSTANCE EmergencyStop WITH Scopes <- Tasks

stopVars == <<engaged, registered, signalled>>
taskVars ==
    <<status, handle, engaged, registered, signalled, work, frames, remaining, scheduled, queue>>

Coroutines == Tasks \cup Requests
Terminal == {"DONE", "FAILED", "CANCELLED"}
Statuses == {"NONE", "PENDING", "RUNNING"} \cup Terminal
(* "over": the worker returned, or died with an earlier process; "gone": its *)
(* coroutine was cancelled.                                                  *)
WorkStates == {"absent", "creating", "starting", "loading", "working",
               "completing", "failing", "cancelling", "over", "gone"}

(* One call of cancel: the statement it waits for, the listed children that *)
(* are still to be cancelled and those that were read as running.           *)
FrameStates == {"listing", "reading", "marking"}
Frames == [task : Tasks, at : FrameStates, left : SUBSET Tasks, ran : SUBSET Tasks]

TasksTypeOK ==
    /\ status \in [Tasks -> Statuses]
    /\ handle \subseteq Tasks
    /\ Stop!StopTypeOK
    /\ work \in [Tasks -> WorkStates]
    /\ frames \in [Coroutines -> Seq(Frames)]
    /\ remaining \in [Requests -> SUBSET Tasks]
    /\ scheduled \subseteq Requests
    /\ queue \in Seq(Coroutines)

TasksInit ==
    /\ status = [t \in Tasks |-> "NONE"]
    /\ handle = {}
    /\ Stop!StopInit
    /\ work = [t \in Tasks |-> "absent"]
    /\ frames = [p \in Coroutines |-> <<>>]
    /\ remaining = [r \in Requests |-> {}]
    /\ scheduled = {}
    /\ queue = <<>>

-----------------------------------------------------------------------------
(* The lock of the database. *)
Turn(p) == queue # <<>> /\ Head(queue) = p
JoinQueue(p) == queue' = Append(queue, p)
NextStatement(p) == queue' = Append(Tail(queue), p)
LastStatement == queue' = Tail(queue)

(* TaskManager._release *)
Release(t) ==
    /\ handle' = handle \ {t}
    /\ registered' = IF t \in handle THEN registered \ {t} ELSE registered
    /\ UNCHANGED <<engaged, signalled>>

-----------------------------------------------------------------------------
(* Orchestrator.run: create, start, work, then complete, fail or cancel. *)

Create(t) ==
    /\ work[t] = "absent"
    /\ \A q \in Tasks \cap {Parent[t]} : status[q] # "NONE"
    /\ work' = [work EXCEPT ![t] = "creating"]
    /\ JoinQueue(t)
    /\ UNCHANGED <<status, handle, stopVars, frames, remaining, scheduled>>

Inserted(t) ==
    /\ Turn(t) /\ work[t] = "creating"
    /\ status' = [status EXCEPT ![t] = "PENDING"]
    /\ work' = [work EXCEPT ![t] = "starting"]
    /\ NextStatement(t)
    /\ UNCHANGED <<handle, stopVars, frames, remaining, scheduled>>

(* start writes RUNNING whatever the row says. *)
Started(t) ==
    /\ Turn(t) /\ work[t] = "starting"
    /\ status' = [status EXCEPT ![t] = "RUNNING"]
    /\ work' = [work EXCEPT ![t] = "loading"]
    /\ NextStatement(t)
    /\ UNCHANGED <<handle, stopVars, frames, remaining, scheduled>>

(* Mutated form: the handle is filed only if the row is not RUNNING yet. *)
LoadedUnfiled(t) ==
    /\ Turn(t) /\ work[t] = "loading"
    /\ handle' = IF status[t] = "RUNNING" THEN handle ELSE handle \cup {t}
    /\ Stop!RegisterScope(t, signalled \ {t})
    /\ work' = [work EXCEPT ![t] = "working"]
    /\ LastStatement
    /\ UNCHANGED <<status, frames, remaining, scheduled>>

(* start, after its second statement: a handle with an event of its own. *)
Loaded(t) ==
    /\ Turn(t) /\ work[t] = "loading"
    /\ handle' = handle \cup {t}
    /\ Stop!RegisterScope(t, signalled \ {t})
    /\ work' = [work EXCEPT ![t] = "working"]
    /\ LastStatement
    /\ UNCHANGED <<status, frames, remaining, scheduled>>

(* The agents are done, well or badly. *)
WorkEnds(t, next) ==
    /\ work[t] = "working"
    /\ work' = [work EXCEPT ![t] = next]
    /\ JoinQueue(t)
    /\ UNCHANGED <<status, handle, stopVars, frames, remaining, scheduled>>

(* complete and fail write whatever the row says. *)
Finish(t) ==
    /\ Turn(t) /\ work[t] \in {"completing", "failing"}
    /\ status' = [status EXCEPT ![t] = IF work[t] = "completing" THEN "DONE" ELSE "FAILED"]
    /\ Release(t)
    /\ work' = [work EXCEPT ![t] = "over"]
    /\ LastStatement
    /\ UNCHANGED <<frames, remaining, scheduled>>

-----------------------------------------------------------------------------
(* cancel *)

Frame(t) == [task |-> t, at |-> "listing", left |-> {}, ran |-> {}]

(* Entering cancel sets the task's event, if it has a handle. *)
Signal(t) == signalled' = signalled \cup ({t} \cap handle)

(* An agent sees the event before its next round; Cancelled reaches the *)
(* orchestrator, which cancels its own task.                            *)
Notice(t) ==
    /\ work[t] = "working"
    /\ t \in signalled
    /\ work' = [work EXCEPT ![t] = "cancelling"]
    /\ frames' = [frames EXCEPT ![t] = <<Frame(t)>>]
    /\ JoinQueue(t)
    /\ UNCHANGED <<status, handle, stopVars, remaining, scheduled>>

Idle(r) == frames[r] = <<>> /\ r \notin scheduled

(* The endpoint: 404 for a task that does not exist. *)
RequestCancel(r, t) ==
    /\ Idle(r)
    /\ status[t] # "NONE"
    /\ frames' = [frames EXCEPT ![r] = <<Frame(t)>>]
    /\ Signal(t)
    /\ JoinQueue(r)
    /\ UNCHANGED <<status, handle, engaged, registered, work, remaining, scheduled>>

(* Mutated form: only the first task of the list is cancelled. *)
CancelAllFirst(r) ==
    /\ r \in scheduled
    /\ scheduled' = scheduled \ {r}
    /\ IF handle = {}
       THEN UNCHANGED <<frames, signalled, remaining, queue>>
       ELSE \E t \in handle :
               /\ remaining' = [remaining EXCEPT ![r] = {}]
               /\ frames' = [frames EXCEPT ![r] = <<Frame(t)>>]
               /\ Signal(t)
               /\ JoinQueue(r)
    /\ UNCHANGED <<status, handle, engaged, registered, work>>

(* cancel_all starts: it takes a list of the running tasks and begins. *)
CancelAll(r) ==
    /\ r \in scheduled
    /\ scheduled' = scheduled \ {r}
    /\ IF handle = {}
       THEN UNCHANGED <<frames, signalled, remaining, queue>>
       ELSE \E t \in handle :
               /\ remaining' = [remaining EXCEPT ![r] = handle \ {t}]
               /\ frames' = [frames EXCEPT ![r] = <<Frame(t)>>]
               /\ Signal(t)
               /\ JoinQueue(r)
    /\ UNCHANGED <<status, handle, engaged, registered, work>>

(* Coroutine p runs on with the calls s: the innermost goes to its next   *)
(* listed child, or on to reading its own row.                            *)
Advance(s) ==
    IF Head(s).left = {}
    THEN <<[Head(s) EXCEPT !.at = "reading"]>> \o Tail(s)
    ELSE LET c == CHOOSE c \in Head(s).left : \A d \in Head(s).left : c <= d
         IN <<Frame(c), [Head(s) EXCEPT !.left = @ \ {c}]>> \o Tail(s)

(* What the coroutine does next: it goes on with s, cancel_all takes the  *)
(* next task of its list, or it is finished.                              *)
RunOn(p, s, h) ==
    \/ /\ s # <<>>
       /\ frames' = [frames EXCEPT ![p] = Advance(s)]
       /\ signalled' = IF Head(Advance(s)).at = "listing"
                       THEN signalled \cup ({Head(Advance(s)).task} \cap h) ELSE signalled
       /\ NextStatement(p)
       /\ UNCHANGED <<work, remaining>>
    \/ /\ s = <<>>
       /\ p \in Requests /\ \E t \in remaining[p] :
             /\ remaining' = [remaining EXCEPT ![p] = @ \ {t}]
             /\ frames' = [frames EXCEPT ![p] = <<Frame(t)>>]
             /\ signalled' = signalled \cup ({t} \cap h)
             /\ NextStatement(p)
       /\ UNCHANGED work
    \/ /\ s = <<>>
       /\ p \in Requests => remaining[p] = {}
       /\ frames' = [frames EXCEPT ![p] = <<>>]
       /\ work' = IF p \in Tasks THEN [work EXCEPT ![p] = "over"] ELSE work
       /\ LastStatement
       /\ UNCHANGED <<signalled, remaining>>

InCancel(p, at) == Turn(p) /\ frames[p] # <<>> /\ Head(frames[p]).at = at

Unfinished(s) == s \notin Terminal \cup {"NONE"}

Listed(p) ==
    /\ InCancel(p, "listing")
    /\ LET f == Head(frames[p])
           kids == {c \in Tasks : Parent[c] = f.task /\ Unfinished(status[c])}
       IN RunOn(p, <<[f EXCEPT !.left = kids, !.ran = {c \in kids : status[c] = "RUNNING"}]>>
                      \o Tail(frames[p]), handle)
    /\ UNCHANGED <<status, handle, engaged, registered, scheduled>>

(* Nothing to do for a row that is already final. *)
ReadFinal(p) ==
    /\ InCancel(p, "reading")
    /\ ~Unfinished(status[Head(frames[p]).task])
    /\ LET outer == Tail(frames[p])
       IN RunOn(p, outer, handle)
    /\ UNCHANGED <<status, handle, engaged, registered, scheduled>>

ReadUnfinished(p) ==
    /\ InCancel(p, "reading")
    /\ Unfinished(status[Head(frames[p]).task])
    /\ frames' = [frames EXCEPT ![p] = <<[Head(@) EXCEPT !.at = "marking"]>> \o Tail(@)]
    /\ NextStatement(p)
    /\ UNCHANGED <<status, handle, stopVars, work, remaining, scheduled>>

(* CANCELLED is written over whatever the row has become since it was read. *)
Marked(p) ==
    /\ InCancel(p, "marking")
    /\ LET t == Head(frames[p]).task
       IN /\ status' = [status EXCEPT ![t] = "CANCELLED"]
          /\ handle' = handle \ {t}
          /\ registered' = IF t \in handle THEN registered \ {t} ELSE registered
          /\ RunOn(p, Tail(frames[p]), handle \ {t})
    /\ UNCHANGED <<engaged, scheduled>>

-----------------------------------------------------------------------------
(* The world around. *)

(* engage on the event loop schedules cancel_all; from another thread it only *)
(* sets the events.                                                           *)
PressStop ==
    /\ Stops
    /\ Stop!Engage
    /\ \/ \E r \in Requests : Idle(r) /\ scheduled' = scheduled \cup {r}
       \/ UNCHANGED scheduled
    /\ UNCHANGED <<status, handle, work, frames, remaining, queue>>

LiftStop ==
    /\ Stops
    /\ Stop!Release
    /\ UNCHANGED <<status, handle, work, frames, remaining, scheduled, queue>>

(* What the statement of worker t writes, as <<task, status>>. *)
UnderWay(t) ==
    CASE work[t] = "creating"   -> {<<t, "PENDING">>}
      [] work[t] = "starting"   -> {<<t, "RUNNING">>}
      [] work[t] = "completing" -> {<<t, "DONE">>}
      [] work[t] = "failing"    -> {<<t, "FAILED">>}
      [] work[t] = "cancelling" /\ Head(frames[t]).at = "marking"
                                -> {<<Head(frames[t]).task, "CANCELLED">>}
      [] OTHER                  -> {}

(* The coroutine of the turn is cancelled with its client.  The orchestrator *)
(* does not handle that: the row and the handle stay as they are, apart from *)
(* a statement under way, which may still be carried out.                    *)
Abort(t) ==
    /\ work[t] \notin {"absent", "over", "gone"}
    /\ \/ UNCHANGED status
       \/ Turn(t) /\ \E w \in UnderWay(t) : status' = [status EXCEPT ![w[1]] = w[2]]
    /\ work' = [work EXCEPT ![t] = "gone"]
    /\ frames' = [frames EXCEPT ![t] = <<>>]
    /\ queue' = SelectSeq(queue, LAMBDA p : p # t)
    /\ UNCHANGED <<handle, stopVars, remaining, scheduled>>

(* Mutated form: the new process leaves the rows as they are. *)
CleanupNothing == UNCHANGED status

(* cleanup_stale, before the new process serves anyone. *)
CleanupStale == status' = [t \in Tasks |-> IF status[t] = "RUNNING" THEN "FAILED" ELSE status[t]]

Crash ==
    /\ Crashes
    /\ CleanupStale
    /\ handle' = {}
    /\ engaged' = FALSE
    /\ registered' = {}
    /\ signalled' = {}
    /\ work' = [t \in Tasks |-> IF status[t] = "NONE" THEN "absent" ELSE "over"]
    /\ frames' = [p \in Coroutines |-> <<>>]
    /\ remaining' = [r \in Requests |-> {}]
    /\ scheduled' = {}
    /\ queue' = <<>>

Worker(t) ==
    \/ Create(t) \/ Inserted(t) \/ Started(t) \/ Loaded(t)
    \/ WorkEnds(t, "completing") \/ WorkEnds(t, "failing")
    \/ Notice(t) \/ Finish(t) \/ Abort(t)

CancelStep(p) == Listed(p) \/ ReadFinal(p) \/ ReadUnfinished(p) \/ Marked(p)

TasksNext ==
    \/ \E t \in Tasks : Worker(t)
    \/ \E p \in Coroutines : CancelStep(p)
    \/ \E r \in Requests, t \in Tasks : RequestCancel(r, t)
    \/ \E r \in Requests : CancelAll(r)
    \/ PressStop
    \/ LiftStop
    \/ Crash

TasksSpec == TasksInit /\ [][TasksNext]_taskVars

(* The lock is served in the order of arrival, scheduled coroutines run, and *)
(* the agents' work ends: model calls and tools have time limits.            *)
Fairness ==
    /\ \A t \in Tasks :
          /\ WF_taskVars(Inserted(t) \/ Started(t) \/ Loaded(t) \/ Finish(t))
          /\ WF_taskVars(WorkEnds(t, "completing") \/ WorkEnds(t, "failing"))
    /\ \A p \in Coroutines : WF_taskVars(CancelStep(p))
    /\ \A r \in Requests : WF_taskVars(CancelAll(r))

TasksFairSpec == TasksSpec /\ Fairness

-----------------------------------------------------------------------------
(* Properties. *)

(* start, cancel, complete, cleanup_stale together: a row that says RUNNING    *)
(* has a handle, through which it can be cancelled, except while start is      *)
(* between its statements and after its coroutine was cancelled in that place; *)
(* after a restart no row says RUNNING.                                        *)
RunningIsReachable ==
    \A t \in Tasks : status[t] = "RUNNING" => t \in handle \/ work[t] \in {"loading", "gone"}

(* The emergency stop's listener: every task with a handle when cancel_all is *)
(* scheduled gets a final status, whoever else is cancelling or finishing it. *)
StopEndsTasks ==
    \A r \in Requests, t \in Tasks :
        (r \in scheduled /\ t \in handle) ~> (status[t] \in Terminal)

=============================================================================
