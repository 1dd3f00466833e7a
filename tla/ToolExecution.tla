---------------------------- MODULE ToolExecution ----------------------------
(***************************************************************************)
(* ToolRegistry.execute (tools/registry.py), with the permission engine    *)
(* and the emergency stop it goes through.                                 *)
(*                                                                         *)
(* A caller is a coroutine that issues tool calls one after another: an    *)
(* assistant turn, a direct API call, or an agent working on a task.  It   *)
(* captures the settings when it opens.  Everything runs on one event      *)
(* loop, so a step is what happens between two awaits, and other callers,  *)
(* the user and the stop interleave only there.                            *)
(***************************************************************************)
EXTENDS PermissionEngine, FiniteSets

CONSTANTS
    TaskCallers,         \* callers whose ToolContext.cancel is their task's event
    DbFaults,            \* may the tool_runs statements fail?
    Crashes              \* may the process die and start again?

ASSUME ExecutionAssumption ==
    /\ TaskCallers \subseteq Callers
    /\ DbFaults \in BOOLEAN
    /\ Crashes \in BOOLEAN

VARIABLES
    engaged, registered, signalled,
    pc,                  \* where the caller's coroutine is suspended
    snap,                \* the settings the caller captured
    req,                 \* the PermissionRequest of the current or last call
    basis,               \* the Decision of the current call: why it was allowed
    outcome,             \* how the current call ended, until it is recorded
    row,                 \* status of the tool_runs row of the current or last call
    handle               \* the task's entry in TaskManager._running

(* Each caller uses one cancellation event at a time: its task's, or the one *)
(* execute creates for the call.                                             *)
Stop == INSTANCE EmergencyStop WITH Scopes <- Callers

callVars == <<pc, snap, req, basis, outcome, row, handle>>
vars == <<policy, grants, ask, engaged, registered, signalled,
          pc, snap, req, basis, outcome, row, handle>>

PcStates == {"off", "ready", "recording", "asking", "running", "ending"}
Bases == {"none", "level", "grant", "user"}
(* "raised": the failure of a call that left tool.run by an exception. *)
Outcomes == {"none", "success", "failed", "raised", "denied"}
RowStates == {"none", "started", "success", "failed", "denied"}
HandleStates == {"none", "live", "cancelling"}

TypeOK ==
    /\ PermTypeOK
    /\ Stop!StopTypeOK
    /\ pc \in [Callers -> PcStates]
    /\ snap \in [Callers -> Policies]
    /\ req \in [Callers -> Requests]
    /\ basis \in [Callers -> Bases]
    /\ outcome \in [Callers -> Outcomes]
    /\ row \in [Callers -> RowStates]
    /\ handle \in [Callers -> HandleStates]

Init ==
    /\ PermInit
    /\ Stop!StopInit
    /\ pc = [c \in Callers |-> "off"]
    /\ snap = [c \in Callers |-> policy]
    /\ req \in {[c \in Callers |-> r] : r \in Requests}
    /\ basis = [c \in Callers |-> "none"]
    /\ outcome = [c \in Callers |-> "none"]
    /\ row = [c \in Callers |-> "none"]
    /\ handle = [c \in Callers |-> "none"]

-----------------------------------------------------------------------------
(* The caller's turn. *)

(* A turn or an agent's task begins: settings are captured; a task gets a *)
(* fresh cancellation event, registered with the stop.                    *)
Open(c) ==
    /\ pc[c] = "off"
    /\ pc' = [pc EXCEPT ![c] = "ready"]
    /\ snap' = [snap EXCEPT ![c] = policy]
    /\ row' = [row EXCEPT ![c] = "none"]
    /\ IF c \in TaskCallers
       THEN /\ Stop!RegisterScope(c, signalled \ {c})
            /\ handle' = [handle EXCEPT ![c] = "live"]
       ELSE UNCHANGED <<engaged, registered, signalled, handle>>
    /\ UNCHANGED <<policy, grants, ask, req, basis, outcome>>

(* TaskManager._release: the handle is popped, its event unregistered. *)
ReleaseHandle(c) ==
    /\ handle' = [handle EXCEPT ![c] = "none"]
    /\ IF handle[c] # "none" THEN Stop!UnregisterScope(c)
                             ELSE UNCHANGED <<engaged, registered, signalled>>

Close(c) ==
    /\ pc[c] = "ready"
    /\ pc' = [pc EXCEPT ![c] = "off"]
    /\ ReleaseHandle(c)
    /\ UNCHANGED <<policy, grants, ask, snap, req, basis, outcome, row>>

(* TaskManager.cancel, up to its first await: the event is set.  The user may *)
(* ask for it, and so does cancel_all after an emergency stop.                *)
CancelTask(c) ==
    /\ handle[c] # "none"
    /\ handle' = [handle EXCEPT ![c] = "cancelling"]
    /\ signalled' = signalled \cup {c}
    /\ UNCHANGED <<policy, grants, ask, engaged, registered,
                   pc, snap, req, basis, outcome, row>>

(* TaskManager.cancel, after the row is written. *)
FinishCancel(c) ==
    /\ handle[c] = "cancelling"
    /\ ReleaseHandle(c)
    /\ UNCHANGED <<policy, grants, ask, pc, snap, req, basis, outcome, row>>

-----------------------------------------------------------------------------
(* One call. *)

(* Resolution, validation and the first look at the stop.  A call refused *)
(* here returns to the caller and changes nothing.                        *)
Submit(c, r) ==
    /\ pc[c] = "ready"
    /\ ~engaged
    /\ pc' = [pc EXCEPT ![c] = "recording"]
    /\ req' = [req EXCEPT ![c] = r]
    /\ row' = [row EXCEPT ![c] = "none"]
    /\ UNCHANGED <<policy, grants, ask, engaged, registered, signalled,
                   snap, basis, outcome, handle>>

(* _record_start: a failing insert is logged and the call goes on. *)
RecordStart(c, stored) ==
    /\ stored \/ DbFaults
    /\ row' = [row EXCEPT ![c] = IF stored THEN "started" ELSE "none"]

(* Step 4 up to the tool's first await: the decision is at hand, a cancel *)
(* event is registered, the tool starts.                                  *)
Launch(c, why) ==
    /\ pc' = [pc EXCEPT ![c] = "running"]
    /\ basis' = [basis EXCEPT ![c] = why]
    /\ Stop!RegisterScope(c, IF c \in TaskCallers THEN signalled ELSE signalled \ {c})

(* PermissionDenied is caught; the refusal is to be recorded. *)
Deny(c) ==
    /\ pc' = [pc EXCEPT ![c] = "ending"]
    /\ outcome' = [outcome EXCEPT ![c] = "denied"]
    /\ UNCHANGED <<engaged, registered, signalled, basis>>

(* The row is written and the engine evaluates, without a further await. *)
DecideDenied(c, stored) ==
    /\ pc[c] = "recording"
    /\ RecordStart(c, stored)
    /\ Verdict(engaged, snap[c], req[c]) = "DENIED"
    /\ Deny(c)
    /\ UNCHANGED <<policy, grants, ask, snap, req, handle>>

DecideAllowed(c, stored) ==
    /\ pc[c] = "recording"
    /\ RecordStart(c, stored)
    /\ Verdict(engaged, snap[c], req[c]) = "ALLOWED"
    /\ Launch(c, IF GrantApplies(req[c].risk, HasGrant(req[c])) THEN "grant" ELSE "level")
    /\ UNCHANGED <<policy, grants, ask, snap, req, outcome, handle>>

DecideAsk(c, stored) ==
    /\ pc[c] = "recording"
    /\ RecordStart(c, stored)
    /\ Verdict(engaged, snap[c], req[c]) = "NEEDS_CONFIRMATION"
    /\ OpenQuestion(c)
    /\ pc' = [pc EXCEPT ![c] = "asking"]
    /\ UNCHANGED <<policy, grants, engaged, registered, signalled,
                   snap, req, basis, outcome, handle>>

(* The waiting coroutine runs again with a consent: nothing is looked at *)
(* once more, neither the stop nor the settings.                         *)
ResumeAllowed(c) ==
    /\ pc[c] = "asking"
    /\ ask[c] \in Consents
    /\ CloseQuestion(c, req[c])
    /\ Launch(c, "user")
    /\ UNCHANGED <<policy, snap, req, outcome, row, handle>>

ResumeDenied(c) ==
    /\ pc[c] = "asking"
    /\ ask[c] \in {"deny", "expired"}
    /\ CloseQuestion(c, req[c])
    /\ Deny(c)
    /\ UNCHANGED <<policy, snap, req, row, handle>>

(* tool.run returns a result: the finally clause unregisters the event, then *)
(* the result is to be recorded.                                             *)
ToolReturns(c, ok) ==
    /\ pc[c] = "running"
    /\ pc' = [pc EXCEPT ![c] = "ending"]
    /\ outcome' = [outcome EXCEPT ![c] = IF ok THEN "success" ELSE "failed"]
    /\ Stop!UnregisterScope(c)
    /\ UNCHANGED <<policy, grants, ask, snap, req, basis, row, handle>>

(* tool.run is left by an exception: the time limit, Cancelled, a failure, or *)
(* the cancellation of the coroutine itself, which is swallowed here.  The    *)
(* event stays registered until the failure is recorded.                      *)
ToolRaises(c) ==
    /\ pc[c] = "running"
    /\ pc' = [pc EXCEPT ![c] = "ending"]
    /\ outcome' = [outcome EXCEPT ![c] = "raised"]
    /\ UNCHANGED <<policy, grants, ask, engaged, registered, signalled,
                   snap, req, basis, row, handle>>

RowStatus(o) == IF o = "raised" THEN "failed" ELSE o

(* Mutated form: the outcome is written as it is. *)
RecordedRaw(c) == IF row[c] = "none" THEN "none" ELSE outcome[c]

(* _record_end: the row, if there is one, gets its final status. *)
Recorded(c) == IF row[c] = "none" THEN "none" ELSE RowStatus(outcome[c])

(* The finally clause after a failure has been recorded. *)
LeaveScope(c) ==
    IF outcome[c] = "raised" THEN Stop!UnregisterScope(c)
                             ELSE UNCHANGED <<engaged, registered, signalled>>

RecordEnd(c, stored) ==
    /\ pc[c] = "ending"
    /\ stored \/ DbFaults
    /\ row' = IF stored THEN [row EXCEPT ![c] = Recorded(c)] ELSE row
    /\ pc' = [pc EXCEPT ![c] = "ready"]
    /\ outcome' = [outcome EXCEPT ![c] = "none"]
    /\ basis' = [basis EXCEPT ![c] = "none"]
    /\ LeaveScope(c)
    /\ UNCHANGED <<policy, grants, ask, snap, req, handle>>

(* Mutated form: the question is not withdrawn with its coroutine. *)
AbortKeepingQuestion(c) ==
    /\ pc[c] \in {"ready", "recording", "asking", "ending"}
    /\ pc' = [pc EXCEPT ![c] = "off"]
    /\ outcome' = [outcome EXCEPT ![c] = "none"]
    /\ basis' = [basis EXCEPT ![c] = "none"]
    /\ LeaveScope(c)
    /\ UNCHANGED <<policy, grants, ask, snap, req, row, handle>>

(* The coroutine is cancelled (the client of the chat stream goes away) while *)
(* it waits for the database or for the user.  execute is left at once; the   *)
(* statement under way may or may not have been carried out.                  *)
Abort(c) ==
    /\ pc[c] \in {"ready", "recording", "asking", "ending"}
    /\ pc' = [pc EXCEPT ![c] = "off"]
    /\ ask' = [ask EXCEPT ![c] = "none"]
    /\ outcome' = [outcome EXCEPT ![c] = "none"]
    /\ basis' = [basis EXCEPT ![c] = "none"]
    /\ row' \in {row} \cup (IF pc[c] = "recording" THEN {[row EXCEPT ![c] = "started"]} ELSE {})
                      \cup (IF pc[c] = "ending" THEN {[row EXCEPT ![c] = Recorded(c)]} ELSE {})
    /\ LeaveScope(c)
    /\ UNCHANGED <<policy, grants, snap, req, handle>>

-----------------------------------------------------------------------------
(* The user and the process. *)

(* engage with its listeners; the one of the task manager schedules cancel_all, *)
(* whose effect on a task is CancelTask.                                        *)
PressStop ==
    /\ Stop!Engage
    /\ CancelAllPending
    /\ UNCHANGED <<policy, grants, callVars>>

LiftStop ==
    /\ Stop!Release
    /\ UNCHANGED <<policy, grants, ask, callVars>>

User ==
    /\ \/ \E c \in Callers, a \in Answers : Resolve(c, a)
       \/ \E p \in Policies : ChangePolicy(p)
       \/ \E k \in grants : Forget(k)
       \/ ClearGrants
    /\ UNCHANGED <<engaged, registered, signalled, callVars>>

Timer(c) ==
    /\ Expire(c)
    /\ UNCHANGED <<engaged, registered, signalled, callVars>>

(* The process dies and starts again: the settings file and tool_runs remain. *)
Crash ==
    /\ Crashes
    /\ engaged' = FALSE
    /\ registered' = {}
    /\ signalled' = {}
    /\ grants' = {}
    /\ ask' = [c \in Callers |-> "none"]
    /\ pc' = [c \in Callers |-> "off"]
    /\ basis' = [c \in Callers |-> "none"]
    /\ outcome' = [c \in Callers |-> "none"]
    /\ handle' = [c \in Callers |-> "none"]
    /\ UNCHANGED <<policy, snap, req, row>>

Decide(c) ==
    \E stored \in BOOLEAN :
        DecideDenied(c, stored) \/ DecideAllowed(c, stored) \/ DecideAsk(c, stored)

Resume(c) == ResumeAllowed(c) \/ ResumeDenied(c)

ToolEnds(c) == (\E ok \in BOOLEAN : ToolReturns(c, ok)) \/ ToolRaises(c)

Turn(c) == Open(c) \/ Close(c) \/ Abort(c) \/ CancelTask(c) \/ FinishCancel(c)

Call(c) ==
    \/ \E r \in Requests : Submit(c, r)
    \/ Decide(c)
    \/ Resume(c)
    \/ ToolEnds(c)
    \/ \E stored \in BOOLEAN : RecordEnd(c, stored)

Next ==
    \/ \E c \in Callers : Turn(c) \/ Call(c) \/ Timer(c)
    \/ PressStop
    \/ LiftStop
    \/ User
    \/ Crash

Spec == Init /\ [][Next]_vars

(* The loop runs whatever is ready; the timers of the confirmation (300 s) and *)
(* of the tool (120 s) fire.  Nothing obliges the user to do anything.         *)
Fairness ==
    \A c \in Callers :
        /\ WF_vars(Decide(c))
        /\ WF_vars(Timer(c))
        /\ WF_vars(Resume(c))
        /\ WF_vars(ToolEnds(c))
        /\ WF_vars(\E stored \in BOOLEAN : RecordEnd(c, stored))

FairSpec == Spec /\ Fairness

-----------------------------------------------------------------------------
(* Properties. *)

(* evaluate and authorise: whatever runs is within the settings its caller   *)
(* captured.  A DENY is final, level 0 only reads, privileged work has its   *)
(* own fresh answer, and what runs unasked and ungranted is within the level.*)
PolicyHeld ==
    \A c \in Callers : pc[c] = "running" =>
        LET value == snap[c].value[req[c].cap]
            level == snap[c].level
        IN /\ value # "DENY"
           /\ level = 0 => req[c].risk = "SAFE_READ"
           /\ req[c].risk \in AlwaysConfirm => basis[c] = "user"
           /\ basis[c] = "level" =>
                 value = "ALLOW" /\ RiskOrder[req[c].risk] <= RiskOrder[AutoCeiling[level]]

(* engage and evaluate together: while the stop is engaged no question can *)
(* still be answered with a consent, also none filed after the stop.       *)
NoOpenQuestionUnderStop == engaged => \A c \in Callers : ask[c] # "open"

(* request_confirmation's try/finally: an entry of _pending has a coroutine *)
(* waiting for it and the other way round, through answers, timers, the     *)
(* stop and cancelled coroutines, so the dialog never shows a dead request. *)
PendingHasWaiter == \A c \in Callers : (ask[c] # "none") = (pc[c] = "asking")

(* register_scope: while the stop is engaged every registered event is set, *)
(* also the one of a call whose consent was already in when it was pressed. *)
EventsFollowTheStop == Stop!RegisteredIsSignalled

(* resolve, the timer and cancel_all_pending: an answer is replaced by none *)
(* but the timer's denial; a call that was asked about starts only on a     *)
(* consent; a grant appears only when an "always" is taken up by the caller *)
(* it was given to.                                                         *)
AnswersStand ==
    [][/\ \A c \in Callers :
             /\ ask[c] \in Answers => ask'[c] \in {ask[c], "expired", "none"}
             /\ pc[c] = "asking" /\ pc'[c] = "running" => ask[c] \in Consents
       /\ \A k \in grants' \ grants :
             \E c \in Callers : ask[c] = "allow_always" /\ k = GrantKey(req[c])
      ]_vars

(* authorise and execute: every call that was taken in comes back to its *)
(* caller, whatever the user does with the question.                     *)
CallsReturn ==
    \A c \in Callers : (pc[c] = "recording") ~> (pc[c] \in {"ready", "off"})

(* The phase of a call at the gate.  A call still being recorded has not been *)
(* looked at; one that is only being recorded no longer acts.                 *)
GatePhase(c) ==
    CASE pc[c] = "asking" /\ ask[c] = "open"                   -> "undecided"
      [] pc[c] = "asking" /\ ask[c] \in Consents               -> "approved"
      [] pc[c] = "asking" /\ ask[c] \notin Consents \cup {"open"} -> "refused"
      [] pc[c] = "running"                                     -> "acting"
      [] pc[c] = "ending" /\ outcome[c] = "denied"             -> "refused"
      [] OTHER                                                 -> "idle"

Gate == INSTANCE ToolGate WITH stop <- engaged, phase <- [c \in Callers |-> GatePhase(c)]

(* execute with the engine and the stop keeps the promise of ToolGate. *)
ImplementsGate == Gate!GateSpec

=============================================================================
