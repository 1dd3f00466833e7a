------------------------- MODULE ToolExecutionProofs -------------------------
(***************************************************************************)
(* What TLAPS proves about ToolExecution, for any callers, capabilities,   *)
(* requests and settings; and about Policy and CommandClass, for every     *)
(* situation and command line.                                             *)
(***************************************************************************)
EXTENDS ToolExecution, Tables, TLAPS

(* A question is filed, and a tool runs, only within the captured settings; *)
(* this is what carries PolicyHeld through the wait for the user.           *)
Permitted(c) ==
    /\ snap[c].value[req[c].cap] # "DENY"
    /\ snap[c].level = 0 => req[c].risk = "SAFE_READ"

AskedWithinSettings == \A c \in Callers : pc[c] = "asking" => Permitted(c)

-----------------------------------------------------------------------------
(* Init fixes every variable within its type. *)
LEMMA InitTypeOK == Init => TypeOK
<1> SUFFICES ASSUME Init PROVE TypeOK
  OBVIOUS
<1>1. PermTypeOK
  BY DEF Init, PermInit, PermTypeOK, AskStates
<1>2. Stop!StopTypeOK
  BY DEF Init, Stop!StopInit, Stop!StopTypeOK
<1>3. req \in [Callers -> Requests]
  BY DEF Init
<1>4. snap \in [Callers -> Policies]
  BY DEF Init, PermInit
<1>5. /\ pc \in [Callers -> PcStates]
      /\ basis \in [Callers -> Bases]
      /\ outcome \in [Callers -> Outcomes]
      /\ row \in [Callers -> RowStates]
      /\ handle \in [Callers -> HandleStates]
  BY DEF Init, PcStates, Bases, Outcomes, RowStates, HandleStates
<1> QED
  BY <1>1, <1>2, <1>3, <1>4, <1>5 DEF TypeOK

(* Every step keeps the types, one action at a time. *)
LEMMA TypeOKStep == TypeOK /\ [Next]_vars => TypeOK'
<1> SUFFICES ASSUME TypeOK, [Next]_vars PROVE TypeOK'
  OBVIOUS
<1> USE DEF PermTypeOK, Stop!StopTypeOK
<1>1. ASSUME NEW c \in Callers, Open(c) PROVE TypeOK'
  BY <1>1 DEF TypeOK, Open, Stop!RegisterScope, PcStates, RowStates, HandleStates
<1>2. ASSUME NEW c \in Callers, Close(c) PROVE TypeOK'
  BY <1>2 DEF TypeOK, Close, ReleaseHandle, Stop!UnregisterScope, PcStates, HandleStates
<1>3. ASSUME NEW c \in Callers, Abort(c) PROVE TypeOK'
  BY <1>3 DEF TypeOK, Abort, LeaveScope, Stop!UnregisterScope, Recorded, RowStatus,
              PcStates, Bases, Outcomes, RowStates, AskStates
<1>4. ASSUME NEW c \in Callers, CancelTask(c) PROVE TypeOK'
  BY <1>4 DEF TypeOK, CancelTask, HandleStates
<1>5. ASSUME NEW c \in Callers, FinishCancel(c) PROVE TypeOK'
  BY <1>5 DEF TypeOK, FinishCancel, ReleaseHandle, Stop!UnregisterScope, HandleStates
<1>6. ASSUME NEW c \in Callers, NEW r \in Requests, Submit(c, r) PROVE TypeOK'
  BY <1>6 DEF TypeOK, Submit, PcStates, RowStates
<1>7. ASSUME NEW c \in Callers, NEW stored \in BOOLEAN, DecideDenied(c, stored) PROVE TypeOK'
  BY <1>7 DEF TypeOK, DecideDenied, RecordStart, Deny, PcStates, Outcomes, RowStates
<1>8. ASSUME NEW c \in Callers, NEW stored \in BOOLEAN, DecideAllowed(c, stored) PROVE TypeOK'
  BY <1>8 DEF TypeOK, DecideAllowed, RecordStart, Launch, Stop!RegisterScope,
              PcStates, Bases, RowStates
<1>9. ASSUME NEW c \in Callers, NEW stored \in BOOLEAN, DecideAsk(c, stored) PROVE TypeOK'
  BY <1>9 DEF TypeOK, DecideAsk, RecordStart, OpenQuestion, PcStates, RowStates, AskStates
<1>10. ASSUME NEW c \in Callers, ResumeAllowed(c) PROVE TypeOK'
  BY <1>10, PermissionAssumption
     DEF TypeOK, ResumeAllowed, CloseQuestion, Remember, GrantKey, Keys, Launch,
         Stop!RegisterScope, PcStates, Bases, AskStates
<1>11. ASSUME NEW c \in Callers, ResumeDenied(c) PROVE TypeOK'
  BY <1>11, PermissionAssumption
     DEF TypeOK, ResumeDenied, CloseQuestion, Remember, GrantKey, Keys, Deny,
         PcStates, Outcomes, AskStates
<1>12. ASSUME NEW c \in Callers, NEW ok \in BOOLEAN, ToolReturns(c, ok) PROVE TypeOK'
  BY <1>12 DEF TypeOK, ToolReturns, Stop!UnregisterScope, PcStates, Outcomes
<1>13. ASSUME NEW c \in Callers, ToolRaises(c) PROVE TypeOK'
  BY <1>13 DEF TypeOK, ToolRaises, PcStates, Outcomes
<1>14. ASSUME NEW c \in Callers, NEW stored \in BOOLEAN, RecordEnd(c, stored) PROVE TypeOK'
  BY <1>14 DEF TypeOK, RecordEnd, LeaveScope, Stop!UnregisterScope, Recorded, RowStatus,
               PcStates, Bases, Outcomes, RowStates
<1>15. ASSUME NEW c \in Callers, Timer(c) PROVE TypeOK'
  BY <1>15 DEF TypeOK, Timer, Expire, AskStates, callVars
<1>16. CASE PressStop
  BY <1>16 DEF TypeOK, PressStop, Stop!Engage, CancelAllPending, AskStates, Answers, callVars
<1>17. CASE LiftStop
  BY <1>17 DEF TypeOK, LiftStop, Stop!Release, callVars
<1>18. CASE User
  BY <1>18 DEF TypeOK, User, Resolve, ChangePolicy, Forget, ClearGrants, AskStates, callVars
<1>19. CASE Crash
  BY <1>19 DEF TypeOK, Crash, PcStates, Bases, Outcomes, HandleStates, AskStates
<1>20. CASE UNCHANGED vars
  BY <1>20 DEF TypeOK, vars
<1> QED
  BY <1>1, <1>2, <1>3, <1>4, <1>5, <1>6, <1>7, <1>8, <1>9, <1>10, <1>11, <1>12, <1>13, <1>14,
     <1>15, <1>16, <1>17, <1>18, <1>19, <1>20
  DEF Next, Turn, Call, Decide, Resume, ToolEnds

(* The types hold in every behaviour. *)
THEOREM TypeCorrect == Spec => []TypeOK
<1> QED
  BY InitTypeOK, TypeOKStep, PTL DEF Spec

-----------------------------------------------------------------------------
(* What a verdict other than DENIED says about its inputs. *)
LEMMA VerdictWithinSettings ==
  ASSUME NEW stop \in BOOLEAN, NEW value \in Values, NEW level \in Levels, NEW risk \in Risks,
         NEW granted \in BOOLEAN,
         Evaluate(stop, value, level, risk, granted) # "DENIED"
  PROVE  /\ ~stop
         /\ value # "DENY"
         /\ level = 0 => risk = "SAFE_READ"
<1>1. ~Refused(stop, value, level, risk)
  BY DEF Evaluate
<1>2. ~stop /\ value # "DENY"
  BY <1>1 DEF Refused
<1>3. ASSUME level = 0 PROVE risk = "SAFE_READ"
  <2>1. 0 \in DOMAIN DenyAbove /\ DenyAbove[0] = "SAFE_READ"
    BY DEF DenyAbove
  <2>2. ~(RiskOrder[risk] > RiskOrder["SAFE_READ"])
    BY <1>1, <1>3, <2>1 DEF Refused
  <2> QED
    BY <2>2 DEF RiskOrder, Risks
<1> QED
  BY <1>2, <1>3

(* What runs unasked was granted, or is allowed and within the level; *)
(* privileged work is neither.                                        *)
LEMMA AllowedUnasked ==
  ASSUME NEW stop \in BOOLEAN, NEW value \in Values, NEW level \in Levels, NEW risk \in Risks,
         NEW granted \in BOOLEAN,
         Evaluate(stop, value, level, risk, granted) = "ALLOWED"
  PROVE  /\ risk \notin AlwaysConfirm
         /\ ~GrantApplies(risk, granted) =>
               value = "ALLOW" /\ RiskOrder[risk] <= RiskOrder[AutoCeiling[level]]
<1>1. /\ ~Refused(stop, value, level, risk)
      /\ GrantApplies(risk, granted) \/ Automatic(value, level, risk)
  BY DEF Evaluate
<1>2. value # "DENY"
  BY <1>1 DEF Refused
<1> QED
  BY <1>1, <1>2 DEF GrantApplies, Automatic, Values

(* The two lemmas for the verdict of a call. *)
LEMMA CallVerdict ==
  ASSUME TypeOK, NEW c \in Callers, Verdict(engaged, snap[c], req[c]) # "DENIED"
  PROVE  ~engaged /\ Permitted(c)
<1>1. /\ engaged \in BOOLEAN
      /\ snap[c].value[req[c].cap] \in Values
      /\ snap[c].level \in Levels
      /\ req[c].risk \in Risks
      /\ HasGrant(req[c]) \in BOOLEAN
  BY PermissionAssumption DEF TypeOK, Stop!StopTypeOK, HasGrant
<1> QED
  BY <1>1, VerdictWithinSettings DEF Verdict, Permitted

-----------------------------------------------------------------------------

(* A question is filed and withdrawn together with the wait for it. *)
LEMMA WaiterStep == TypeOK /\ PendingHasWaiter /\ [Next]_vars => PendingHasWaiter'
<1> SUFFICES ASSUME TypeOK, PendingHasWaiter, [Next]_vars PROVE PendingHasWaiter'
  OBVIOUS
<1> USE DEF PendingHasWaiter, TypeOK, PermTypeOK
<1>1. ASSUME NEW c \in Callers, Open(c) PROVE PendingHasWaiter'
  BY <1>1 DEF Open
<1>2. ASSUME NEW c \in Callers, Close(c) PROVE PendingHasWaiter'
  BY <1>2 DEF Close
<1>3. ASSUME NEW c \in Callers, Abort(c) PROVE PendingHasWaiter'
  BY <1>3 DEF Abort
<1>4. ASSUME NEW c \in Callers, CancelTask(c) PROVE PendingHasWaiter'
  BY <1>4 DEF CancelTask
<1>5. ASSUME NEW c \in Callers, FinishCancel(c) PROVE PendingHasWaiter'
  BY <1>5 DEF FinishCancel
<1>6. ASSUME NEW c \in Callers, NEW r \in Requests, Submit(c, r) PROVE PendingHasWaiter'
  BY <1>6 DEF Submit
<1>7. ASSUME NEW c \in Callers, NEW stored \in BOOLEAN, DecideDenied(c, stored) PROVE PendingHasWaiter'
  BY <1>7 DEF DecideDenied, Deny
<1>8. ASSUME NEW c \in Callers, NEW stored \in BOOLEAN, DecideAllowed(c, stored) PROVE PendingHasWaiter'
  BY <1>8 DEF DecideAllowed, Launch
<1>9. ASSUME NEW c \in Callers, NEW stored \in BOOLEAN, DecideAsk(c, stored) PROVE PendingHasWaiter'
  BY <1>9 DEF DecideAsk, OpenQuestion
<1>10. ASSUME NEW c \in Callers, ResumeAllowed(c) PROVE PendingHasWaiter'
  BY <1>10 DEF ResumeAllowed, CloseQuestion, Launch
<1>11. ASSUME NEW c \in Callers, ResumeDenied(c) PROVE PendingHasWaiter'
  BY <1>11 DEF ResumeDenied, CloseQuestion, Deny
<1>12. ASSUME NEW c \in Callers, NEW ok \in BOOLEAN, ToolReturns(c, ok) PROVE PendingHasWaiter'
  BY <1>12 DEF ToolReturns
<1>13. ASSUME NEW c \in Callers, ToolRaises(c) PROVE PendingHasWaiter'
  BY <1>13 DEF ToolRaises
<1>14. ASSUME NEW c \in Callers, NEW stored \in BOOLEAN, RecordEnd(c, stored) PROVE PendingHasWaiter'
  BY <1>14 DEF RecordEnd
<1>15. ASSUME NEW c \in Callers, Timer(c) PROVE PendingHasWaiter'
  BY <1>15 DEF Timer, Expire, callVars, Answers
<1>16. CASE PressStop
  BY <1>16 DEF PressStop, CancelAllPending, callVars
<1>17. CASE LiftStop
  BY <1>17 DEF LiftStop, callVars
<1>18. CASE User
  BY <1>18 DEF User, Resolve, ChangePolicy, Forget, ClearGrants, Answers, callVars
<1>19. CASE Crash
  BY <1>19 DEF Crash
<1>20. CASE UNCHANGED vars
  BY <1>20 DEF vars
<1> HIDE DEF PendingHasWaiter, TypeOK, PermTypeOK
<1> QED
  BY <1>1, <1>2, <1>3, <1>4, <1>5, <1>6, <1>7, <1>8, <1>9, <1>10,
     <1>11, <1>12, <1>13, <1>14, <1>15, <1>16, <1>17, <1>18, <1>19, <1>20
  DEF Next, Turn, Call, Decide, Resume, ToolEnds

(* Questions are only filed while the stop is off; pressing it denies them. *)
LEMMA NoOpenStep == TypeOK /\ NoOpenQuestionUnderStop /\ [Next]_vars => NoOpenQuestionUnderStop'
<1> SUFFICES ASSUME TypeOK, NoOpenQuestionUnderStop, [Next]_vars PROVE NoOpenQuestionUnderStop'
  OBVIOUS
<1> USE DEF NoOpenQuestionUnderStop, TypeOK, PermTypeOK
<1>1. ASSUME NEW c \in Callers, Open(c) PROVE NoOpenQuestionUnderStop'
  BY <1>1 DEF Open, Stop!RegisterScope
<1>2. ASSUME NEW c \in Callers, Close(c) PROVE NoOpenQuestionUnderStop'
  BY <1>2 DEF Close, ReleaseHandle, Stop!UnregisterScope
<1>3. ASSUME NEW c \in Callers, Abort(c) PROVE NoOpenQuestionUnderStop'
  BY <1>3 DEF Abort, LeaveScope, Stop!UnregisterScope
<1>4. ASSUME NEW c \in Callers, CancelTask(c) PROVE NoOpenQuestionUnderStop'
  BY <1>4 DEF CancelTask
<1>5. ASSUME NEW c \in Callers, FinishCancel(c) PROVE NoOpenQuestionUnderStop'
  BY <1>5 DEF FinishCancel, ReleaseHandle, Stop!UnregisterScope
<1>6. ASSUME NEW c \in Callers, NEW r \in Requests, Submit(c, r) PROVE NoOpenQuestionUnderStop'
  BY <1>6 DEF Submit
<1>7. ASSUME NEW c \in Callers, NEW stored \in BOOLEAN, DecideDenied(c, stored) PROVE NoOpenQuestionUnderStop'
  BY <1>7 DEF DecideDenied, Deny
<1>8. ASSUME NEW c \in Callers, NEW stored \in BOOLEAN, DecideAllowed(c, stored) PROVE NoOpenQuestionUnderStop'
  BY <1>8 DEF DecideAllowed, Launch, Stop!RegisterScope
<1>9. ASSUME NEW c \in Callers, NEW stored \in BOOLEAN, DecideAsk(c, stored) PROVE NoOpenQuestionUnderStop'
  BY <1>9, CallVerdict DEF DecideAsk, OpenQuestion
<1>10. ASSUME NEW c \in Callers, ResumeAllowed(c) PROVE NoOpenQuestionUnderStop'
  BY <1>10 DEF ResumeAllowed, CloseQuestion, Launch, Stop!RegisterScope
<1>11. ASSUME NEW c \in Callers, ResumeDenied(c) PROVE NoOpenQuestionUnderStop'
  BY <1>11 DEF ResumeDenied, CloseQuestion, Deny
<1>12. ASSUME NEW c \in Callers, NEW ok \in BOOLEAN, ToolReturns(c, ok) PROVE NoOpenQuestionUnderStop'
  BY <1>12 DEF ToolReturns, Stop!UnregisterScope
<1>13. ASSUME NEW c \in Callers, ToolRaises(c) PROVE NoOpenQuestionUnderStop'
  BY <1>13 DEF ToolRaises
<1>14. ASSUME NEW c \in Callers, NEW stored \in BOOLEAN, RecordEnd(c, stored) PROVE NoOpenQuestionUnderStop'
  BY <1>14 DEF RecordEnd, LeaveScope, Stop!UnregisterScope
<1>15. ASSUME NEW c \in Callers, Timer(c) PROVE NoOpenQuestionUnderStop'
  BY <1>15 DEF Timer, Expire
<1>16. CASE PressStop
  BY <1>16 DEF PressStop, CancelAllPending
<1>17. CASE LiftStop
  BY <1>17 DEF LiftStop, Stop!Release
<1>18. CASE User
  BY <1>18 DEF User, Resolve, ChangePolicy, Forget, ClearGrants, Answers
<1>19. CASE Crash
  BY <1>19 DEF Crash
<1>20. CASE UNCHANGED vars
  BY <1>20 DEF vars
<1> HIDE DEF NoOpenQuestionUnderStop, TypeOK, PermTypeOK
<1> QED
  BY <1>1, <1>2, <1>3, <1>4, <1>5, <1>6, <1>7, <1>8, <1>9, <1>10,
     <1>11, <1>12, <1>13, <1>14, <1>15, <1>16, <1>17, <1>18, <1>19, <1>20
  DEF Next, Turn, Call, Decide, Resume, ToolEnds

(* Events are registered set while the stop is on; pressing it sets the others. *)
LEMMA EventsStep == TypeOK /\ EventsFollowTheStop /\ [Next]_vars => EventsFollowTheStop'
<1> SUFFICES ASSUME TypeOK, EventsFollowTheStop, [Next]_vars PROVE EventsFollowTheStop'
  OBVIOUS
<1> USE DEF EventsFollowTheStop, Stop!RegisteredIsSignalled, TypeOK, Stop!StopTypeOK
<1>1. ASSUME NEW c \in Callers, Open(c) PROVE EventsFollowTheStop'
  BY <1>1 DEF Open, Stop!RegisterScope
<1>2. ASSUME NEW c \in Callers, Close(c) PROVE EventsFollowTheStop'
  BY <1>2 DEF Close, ReleaseHandle, Stop!UnregisterScope
<1>3. ASSUME NEW c \in Callers, Abort(c) PROVE EventsFollowTheStop'
  BY <1>3 DEF Abort, LeaveScope, Stop!UnregisterScope
<1>4. ASSUME NEW c \in Callers, CancelTask(c) PROVE EventsFollowTheStop'
  BY <1>4 DEF CancelTask
<1>5. ASSUME NEW c \in Callers, FinishCancel(c) PROVE EventsFollowTheStop'
  BY <1>5 DEF FinishCancel, ReleaseHandle, Stop!UnregisterScope
<1>6. ASSUME NEW c \in Callers, NEW r \in Requests, Submit(c, r) PROVE EventsFollowTheStop'
  BY <1>6 DEF Submit
<1>7. ASSUME NEW c \in Callers, NEW stored \in BOOLEAN, DecideDenied(c, stored) PROVE EventsFollowTheStop'
  BY <1>7 DEF DecideDenied, Deny
<1>8. ASSUME NEW c \in Callers, NEW stored \in BOOLEAN, DecideAllowed(c, stored) PROVE EventsFollowTheStop'
  BY <1>8 DEF DecideAllowed, Launch, Stop!RegisterScope
<1>9. ASSUME NEW c \in Callers, NEW stored \in BOOLEAN, DecideAsk(c, stored) PROVE EventsFollowTheStop'
  BY <1>9 DEF DecideAsk
<1>10. ASSUME NEW c \in Callers, ResumeAllowed(c) PROVE EventsFollowTheStop'
  BY <1>10 DEF ResumeAllowed, Launch, Stop!RegisterScope
<1>11. ASSUME NEW c \in Callers, ResumeDenied(c) PROVE EventsFollowTheStop'
  BY <1>11 DEF ResumeDenied, Deny
<1>12. ASSUME NEW c \in Callers, NEW ok \in BOOLEAN, ToolReturns(c, ok) PROVE EventsFollowTheStop'
  BY <1>12 DEF ToolReturns, Stop!UnregisterScope
<1>13. ASSUME NEW c \in Callers, ToolRaises(c) PROVE EventsFollowTheStop'
  BY <1>13 DEF ToolRaises
<1>14. ASSUME NEW c \in Callers, NEW stored \in BOOLEAN, RecordEnd(c, stored) PROVE EventsFollowTheStop'
  BY <1>14 DEF RecordEnd, LeaveScope, Stop!UnregisterScope
<1>15. ASSUME NEW c \in Callers, Timer(c) PROVE EventsFollowTheStop'
  BY <1>15 DEF Timer
<1>16. CASE PressStop
  BY <1>16 DEF PressStop, Stop!Engage
<1>17. CASE LiftStop
  BY <1>17 DEF LiftStop, Stop!Release
<1>18. CASE User
  BY <1>18 DEF User
<1>19. CASE Crash
  BY <1>19 DEF Crash
<1>20. CASE UNCHANGED vars
  BY <1>20 DEF vars
<1> HIDE DEF EventsFollowTheStop, Stop!RegisteredIsSignalled, TypeOK, Stop!StopTypeOK
<1> QED
  BY <1>1, <1>2, <1>3, <1>4, <1>5, <1>6, <1>7, <1>8, <1>9, <1>10,
     <1>11, <1>12, <1>13, <1>14, <1>15, <1>16, <1>17, <1>18, <1>19, <1>20
  DEF Next, Turn, Call, Decide, Resume, ToolEnds

-----------------------------------------------------------------------------
(* The basis a call is launched on without a question. *)
LEMMA RunsUnasked ==
  ASSUME TypeOK, NEW c \in Callers, Verdict(engaged, snap[c], req[c]) = "ALLOWED"
  PROVE  /\ req[c].risk \notin AlwaysConfirm
         /\ ~GrantApplies(req[c].risk, HasGrant(req[c])) =>
               /\ snap[c].value[req[c].cap] = "ALLOW"
               /\ RiskOrder[req[c].risk] <= RiskOrder[AutoCeiling[snap[c].level]]
<1>1. /\ engaged \in BOOLEAN
      /\ snap[c].value[req[c].cap] \in Values
      /\ snap[c].level \in Levels
      /\ req[c].risk \in Risks
      /\ HasGrant(req[c]) \in BOOLEAN
  BY PermissionAssumption DEF TypeOK, Stop!StopTypeOK, HasGrant
<1> QED
  BY <1>1, AllowedUnasked DEF Verdict

(* What is asked about or runs stays within the captured settings: both are
   fixed while the call lasts. *)
LEMMA SettingsStep == TypeOK /\ AskedWithinSettings /\ PolicyHeld /\ [Next]_vars => (AskedWithinSettings /\ PolicyHeld)'
<1> SUFFICES ASSUME TypeOK, AskedWithinSettings, PolicyHeld, [Next]_vars PROVE (AskedWithinSettings /\ PolicyHeld)'
  OBVIOUS
<1> USE DEF AskedWithinSettings, PolicyHeld, Permitted, TypeOK, PermTypeOK
<1>1. ASSUME NEW c \in Callers, Open(c) PROVE (AskedWithinSettings /\ PolicyHeld)'
  BY <1>1 DEF Open
<1>2. ASSUME NEW c \in Callers, Close(c) PROVE (AskedWithinSettings /\ PolicyHeld)'
  BY <1>2 DEF Close
<1>3. ASSUME NEW c \in Callers, Abort(c) PROVE (AskedWithinSettings /\ PolicyHeld)'
  BY <1>3 DEF Abort
<1>4. ASSUME NEW c \in Callers, CancelTask(c) PROVE (AskedWithinSettings /\ PolicyHeld)'
  BY <1>4 DEF CancelTask
<1>5. ASSUME NEW c \in Callers, FinishCancel(c) PROVE (AskedWithinSettings /\ PolicyHeld)'
  BY <1>5 DEF FinishCancel
<1>6. ASSUME NEW c \in Callers, NEW r \in Requests, Submit(c, r) PROVE (AskedWithinSettings /\ PolicyHeld)'
  BY <1>6 DEF Submit
<1>7. ASSUME NEW c \in Callers, NEW stored \in BOOLEAN, DecideDenied(c, stored) PROVE (AskedWithinSettings /\ PolicyHeld)'
  BY <1>7 DEF DecideDenied, Deny
<1>8. ASSUME NEW c \in Callers, NEW stored \in BOOLEAN, DecideAllowed(c, stored) PROVE (AskedWithinSettings /\ PolicyHeld)'
  BY <1>8, CallVerdict, RunsUnasked DEF DecideAllowed, Launch
<1>9. ASSUME NEW c \in Callers, NEW stored \in BOOLEAN, DecideAsk(c, stored) PROVE (AskedWithinSettings /\ PolicyHeld)'
  BY <1>9, CallVerdict DEF DecideAsk
<1>10. ASSUME NEW c \in Callers, ResumeAllowed(c) PROVE (AskedWithinSettings /\ PolicyHeld)'
  BY <1>10 DEF ResumeAllowed, Launch
<1>11. ASSUME NEW c \in Callers, ResumeDenied(c) PROVE (AskedWithinSettings /\ PolicyHeld)'
  BY <1>11 DEF ResumeDenied, Deny
<1>12. ASSUME NEW c \in Callers, NEW ok \in BOOLEAN, ToolReturns(c, ok) PROVE (AskedWithinSettings /\ PolicyHeld)'
  BY <1>12 DEF ToolReturns
<1>13. ASSUME NEW c \in Callers, ToolRaises(c) PROVE (AskedWithinSettings /\ PolicyHeld)'
  BY <1>13 DEF ToolRaises
<1>14. ASSUME NEW c \in Callers, NEW stored \in BOOLEAN, RecordEnd(c, stored) PROVE (AskedWithinSettings /\ PolicyHeld)'
  BY <1>14 DEF RecordEnd
<1>15. ASSUME NEW c \in Callers, Timer(c) PROVE (AskedWithinSettings /\ PolicyHeld)'
  BY <1>15 DEF Timer, callVars
<1>16. CASE PressStop
  BY <1>16 DEF PressStop, callVars
<1>17. CASE LiftStop
  BY <1>17 DEF LiftStop, callVars
<1>18. CASE User
  BY <1>18 DEF User, callVars
<1>19. CASE Crash
  BY <1>19 DEF Crash
<1>20. CASE UNCHANGED vars
  BY <1>20 DEF vars
<1> HIDE DEF AskedWithinSettings, PolicyHeld, Permitted, TypeOK, PermTypeOK
<1> QED
  BY <1>1, <1>2, <1>3, <1>4, <1>5, <1>6, <1>7, <1>8, <1>9, <1>10,
     <1>11, <1>12, <1>13, <1>14, <1>15, <1>16, <1>17, <1>18, <1>19, <1>20
  DEF Next, Turn, Call, Decide, Resume, ToolEnds

-----------------------------------------------------------------------------
(* The inductive invariant.  PendingHasWaiter is what the action property    *)
(* needs; AskedWithinSettings is what PolicyHeld needs across the wait.      *)
IInv ==
    /\ TypeOK
    /\ PendingHasWaiter
    /\ NoOpenQuestionUnderStop
    /\ EventsFollowTheStop
    /\ AskedWithinSettings
    /\ PolicyHeld

(* The inductive invariant holds at the start. *)
LEMMA InitIInv == Init => IInv
<1> SUFFICES ASSUME Init PROVE IInv
  OBVIOUS
<1>1. TypeOK
  BY InitTypeOK
<1>2. PendingHasWaiter /\ NoOpenQuestionUnderStop
  BY DEF Init, PermInit, Stop!StopInit, PendingHasWaiter, NoOpenQuestionUnderStop
<1>3. EventsFollowTheStop
  BY DEF Init, Stop!StopInit, EventsFollowTheStop, Stop!RegisteredIsSignalled
<1>4. AskedWithinSettings /\ PolicyHeld
  BY DEF Init, AskedWithinSettings, PolicyHeld
<1> QED
  BY <1>1, <1>2, <1>3, <1>4 DEF IInv

(* Each conjunct is kept by its own lemma. *)
LEMMA IInvStep == IInv /\ [Next]_vars => IInv'
<1> SUFFICES ASSUME IInv, [Next]_vars PROVE IInv'
  OBVIOUS
<1> QED
  BY TypeOKStep, WaiterStep, NoOpenStep, EventsStep, SettingsStep DEF IInv

(* The inductive invariant holds in every behaviour of engine, stop and execute. *)
THEOREM Inductive == Spec => []IInv
<1> QED
  BY InitIInv, IInvStep, PTL DEF Spec

(* Whatever runs is within the settings its caller captured: DENY is final, *)
(* level 0 only reads, privileged work has an answer of its own.            *)
THEOREM PolicyAlwaysHeld == Spec => []PolicyHeld
<1>1. IInv => PolicyHeld
  BY DEF IInv
<1> QED
  BY Inductive, <1>1, PTL

(* No question can be answered with a consent while the stop is engaged. *)
THEOREM StopLeavesNoQuestion == Spec => []NoOpenQuestionUnderStop
<1>1. IInv => NoOpenQuestionUnderStop
  BY DEF IInv
<1> QED
  BY Inductive, <1>1, PTL

(* The table of pending confirmations and the waiting coroutines agree. *)
THEOREM QuestionsHaveWaiters == Spec => []PendingHasWaiter
<1>1. IInv => PendingHasWaiter
  BY DEF IInv
<1> QED
  BY Inductive, <1>1, PTL

(* Every registered event is set while the stop is engaged. *)
THEOREM RegisteredEventsFollow == Spec => []EventsFollowTheStop
<1>1. IInv => EventsFollowTheStop
  BY DEF IInv
<1> QED
  BY Inductive, <1>1, PTL

-----------------------------------------------------------------------------
(* What AnswersStand says of one step. *)
AnswerStep ==
    /\ \A c \in Callers :
          /\ ask[c] \in Answers => ask'[c] \in {ask[c], "expired", "none"}
          /\ pc[c] = "asking" /\ pc'[c] = "running" => ask[c] \in Consents
    /\ \A k \in grants' \ grants :
          \E c \in Callers : ask[c] = "allow_always" /\ k = GrantKey(req[c])


(* One action at a time; only resuming after an answer adds a grant. *)
LEMMA AnswersStep == IInv /\ [Next]_vars => AnswerStep
<1> SUFFICES ASSUME IInv, [Next]_vars PROVE AnswerStep
  OBVIOUS
<1> USE DEF AnswerStep, IInv, TypeOK, PermTypeOK, PendingHasWaiter, Answers
<1>1. ASSUME NEW c \in Callers, Open(c) PROVE AnswerStep
  BY <1>1 DEF Open
<1>2. ASSUME NEW c \in Callers, Close(c) PROVE AnswerStep
  BY <1>2 DEF Close
<1>3. ASSUME NEW c \in Callers, Abort(c) PROVE AnswerStep
  BY <1>3 DEF Abort
<1>4. ASSUME NEW c \in Callers, CancelTask(c) PROVE AnswerStep
  BY <1>4 DEF CancelTask
<1>5. ASSUME NEW c \in Callers, FinishCancel(c) PROVE AnswerStep
  BY <1>5 DEF FinishCancel
<1>6. ASSUME NEW c \in Callers, NEW r \in Requests, Submit(c, r) PROVE AnswerStep
  BY <1>6 DEF Submit
<1>7. ASSUME NEW c \in Callers, NEW stored \in BOOLEAN, DecideDenied(c, stored) PROVE AnswerStep
  BY <1>7 DEF DecideDenied, Deny
<1>8. ASSUME NEW c \in Callers, NEW stored \in BOOLEAN, DecideAllowed(c, stored) PROVE AnswerStep
  BY <1>8 DEF DecideAllowed, Launch
<1>9. ASSUME NEW c \in Callers, NEW stored \in BOOLEAN, DecideAsk(c, stored) PROVE AnswerStep
  BY <1>9 DEF DecideAsk, OpenQuestion
<1>10. ASSUME NEW c \in Callers, ResumeAllowed(c) PROVE AnswerStep
  BY <1>10 DEF ResumeAllowed, CloseQuestion, Remember, Launch
<1>11. ASSUME NEW c \in Callers, ResumeDenied(c) PROVE AnswerStep
  BY <1>11 DEF ResumeDenied, CloseQuestion, Deny, Remember
<1>12. ASSUME NEW c \in Callers, NEW ok \in BOOLEAN, ToolReturns(c, ok) PROVE AnswerStep
  BY <1>12 DEF ToolReturns
<1>13. ASSUME NEW c \in Callers, ToolRaises(c) PROVE AnswerStep
  BY <1>13 DEF ToolRaises
<1>14. ASSUME NEW c \in Callers, NEW stored \in BOOLEAN, RecordEnd(c, stored) PROVE AnswerStep
  BY <1>14 DEF RecordEnd
<1>15. ASSUME NEW c \in Callers, Timer(c) PROVE AnswerStep
  BY <1>15 DEF Timer, Expire, callVars
<1>16. CASE PressStop
  BY <1>16 DEF PressStop, CancelAllPending, callVars
<1>17. CASE LiftStop
  BY <1>17 DEF LiftStop, callVars
<1>18. CASE User
  BY <1>18 DEF User, Resolve, ChangePolicy, Forget, ClearGrants, callVars
<1>19. CASE Crash
  BY <1>19 DEF Crash
<1>20. CASE UNCHANGED vars
  BY <1>20 DEF vars
<1> HIDE DEF AnswerStep, IInv, TypeOK, PermTypeOK, PendingHasWaiter, Answers
<1> QED
  BY <1>1, <1>2, <1>3, <1>4, <1>5, <1>6, <1>7, <1>8, <1>9, <1>10,
     <1>11, <1>12, <1>13, <1>14, <1>15, <1>16, <1>17, <1>18, <1>19, <1>20
  DEF Next, Turn, Call, Decide, Resume, ToolEnds

(* An answer is final but for the timer, a question is acted on only with a *)
(* consent, a grant comes only from an "always".                            *)
THEOREM AnswersAlwaysStand == Spec => AnswersStand
<1>1. IInv /\ [Next]_vars => [AnswerStep]_vars
  BY AnswersStep
<1> QED
  BY Inductive, <1>1, PTL DEF Spec, AnswersStand, AnswerStep

-----------------------------------------------------------------------------
(* Implementation of ToolGate. *)

Phase == [c \in Callers |-> GatePhase(c)]

OthersKeepPhase(c) == \A d \in Callers \ {c} : GatePhase(d)' = GatePhase(d)

(* A step of one caller is one move of its phase. *)
LEMMA MoveOfOne ==
  ASSUME NEW c \in Callers, NEW from,
         OthersKeepPhase(c), GatePhase(c) \in from, engaged' = engaged
  PROVE  Gate!Move(c, from, GatePhase(c)')
<1>1. Phase' = [Phase EXCEPT ![c] = GatePhase(c)']
  BY DEF Phase, OthersKeepPhase
<1> QED
  BY <1>1 DEF Gate!Move, Phase

(* Steps that change no phase and not the flag are stuttering. *)
LEMMA StutterOfAll ==
  ASSUME \A c \in Callers : GatePhase(c)' = GatePhase(c), engaged' = engaged
  PROVE  UNCHANGED Gate!gateVars
  BY DEF Gate!gateVars

(* What the callers other than c see of a step of c. *)
LEMMA OthersKeep ==
  ASSUME NEW c \in Callers,
         \A d \in Callers \ {c} : /\ pc'[d] = pc[d]
                                  /\ ask'[d] = ask[d]
                                  /\ outcome'[d] = outcome[d]
  PROVE  OthersKeepPhase(c)
  BY DEF OthersKeepPhase, GatePhase, Consents

(* Every step of the detailed system is a step of the gate or none at all. *)
LEMMA GateStep == IInv /\ [Next]_vars => [Gate!GateNext]_(Gate!gateVars)
<1> SUFFICES ASSUME IInv, [Next]_vars PROVE [Gate!GateNext]_(Gate!gateVars)
  OBVIOUS
<1> USE DEF IInv, TypeOK, PermTypeOK, PendingHasWaiter
<1>1. ASSUME NEW c \in Callers, Open(c) PROVE [Gate!GateNext]_(Gate!gateVars)
  <2>1. \A d \in Callers : GatePhase(d)' = GatePhase(d)
    BY <1>1 DEF GatePhase, Open, Stop!RegisterScope
  <2>2. engaged' = engaged
    BY <1>1 DEF Open, Stop!RegisterScope
  <2> QED
    BY <2>1, <2>2, StutterOfAll
<1>2. ASSUME NEW c \in Callers, Close(c) PROVE [Gate!GateNext]_(Gate!gateVars)
  <2>1. \A d \in Callers : GatePhase(d)' = GatePhase(d)
    BY <1>2 DEF GatePhase, Close, ReleaseHandle, Stop!UnregisterScope
  <2>2. engaged' = engaged
    BY <1>2 DEF Close, ReleaseHandle, Stop!UnregisterScope
  <2> QED
    BY <2>1, <2>2, StutterOfAll
<1>3. ASSUME NEW c \in Callers, Abort(c) PROVE [Gate!GateNext]_(Gate!gateVars)
  <2>1. GatePhase(c)' = "idle"
    BY <1>3 DEF GatePhase, Abort
  <2>2. OthersKeepPhase(c)
    BY <1>3, OthersKeep DEF Abort
  <2>3. engaged' = engaged
    BY <1>3 DEF Abort, LeaveScope, Stop!UnregisterScope
  <2>4. CASE GatePhase(c) = "idle"
    BY <2>1, <2>2, <2>3, <2>4, StutterOfAll DEF OthersKeepPhase
  <2>5. CASE GatePhase(c) \in {"undecided", "approved"}
    <3>1. Gate!Abandon(c)
      BY <2>1, <2>2, <2>3, <2>5, MoveOfOne DEF Gate!Abandon
    <3> QED
      BY <3>1 DEF Gate!GateNext
  <2>6. CASE GatePhase(c) \in {"refused", "acting"}
    <3>1. Gate!Finish(c)
      BY <2>1, <2>2, <2>3, <2>6, MoveOfOne DEF Gate!Finish
    <3> QED
      BY <3>1 DEF Gate!GateNext
  <2> QED
    BY <2>4, <2>5, <2>6 DEF GatePhase
<1>4. ASSUME NEW c \in Callers, CancelTask(c) PROVE [Gate!GateNext]_(Gate!gateVars)
  <2>1. \A d \in Callers : GatePhase(d)' = GatePhase(d)
    BY <1>4 DEF GatePhase, CancelTask
  <2>2. engaged' = engaged
    BY <1>4 DEF CancelTask
  <2> QED
    BY <2>1, <2>2, StutterOfAll
<1>5. ASSUME NEW c \in Callers, FinishCancel(c) PROVE [Gate!GateNext]_(Gate!gateVars)
  <2>1. \A d \in Callers : GatePhase(d)' = GatePhase(d)
    BY <1>5 DEF GatePhase, FinishCancel, ReleaseHandle, Stop!UnregisterScope
  <2>2. engaged' = engaged
    BY <1>5 DEF FinishCancel, ReleaseHandle, Stop!UnregisterScope
  <2> QED
    BY <2>1, <2>2, StutterOfAll
<1>6. ASSUME NEW c \in Callers, NEW r \in Requests, Submit(c, r) PROVE [Gate!GateNext]_(Gate!gateVars)
  <2>1. \A d \in Callers : GatePhase(d)' = GatePhase(d)
    BY <1>6 DEF GatePhase, Submit
  <2>2. engaged' = engaged
    BY <1>6 DEF Submit
  <2> QED
    BY <2>1, <2>2, StutterOfAll
<1>7. ASSUME NEW c \in Callers, NEW stored \in BOOLEAN, DecideDenied(c, stored) PROVE [Gate!GateNext]_(Gate!gateVars)
  <2>1. GatePhase(c) \in {"idle"} /\ GatePhase(c)' = "refused"
    BY <1>7 DEF GatePhase, DecideDenied, Deny
  <2>2. OthersKeepPhase(c)
    BY <1>7, OthersKeep DEF DecideDenied, Deny
  <2>3. engaged' = engaged
    BY <1>7 DEF DecideDenied, Deny
  <2>4. Gate!Decline(c)
    BY <2>1, <2>2, <2>3, MoveOfOne DEF Gate!Decline
  <2> QED
    BY <2>4 DEF Gate!GateNext
<1>8. ASSUME NEW c \in Callers, NEW stored \in BOOLEAN, DecideAllowed(c, stored) PROVE [Gate!GateNext]_(Gate!gateVars)
  <2>1. GatePhase(c) \in {"idle"} /\ GatePhase(c)' = "acting"
    BY <1>8 DEF GatePhase, DecideAllowed, Launch, Stop!RegisterScope
  <2>2. OthersKeepPhase(c)
    BY <1>8, OthersKeep DEF DecideAllowed, Launch, Stop!RegisterScope
  <2>3. engaged' = engaged
    BY <1>8 DEF DecideAllowed, Launch, Stop!RegisterScope
  <2>4. ~engaged
    BY <1>8, CallVerdict DEF DecideAllowed
  <2>5. Gate!Admit(c)
    BY <2>1, <2>2, <2>3, <2>4, MoveOfOne DEF Gate!Admit
  <2> QED
    BY <2>5 DEF Gate!GateNext
<1>9. ASSUME NEW c \in Callers, NEW stored \in BOOLEAN, DecideAsk(c, stored) PROVE [Gate!GateNext]_(Gate!gateVars)
  <2>1. GatePhase(c) \in {"idle"} /\ GatePhase(c)' = "undecided"
    BY <1>9 DEF GatePhase, Consents, DecideAsk, OpenQuestion
  <2>2. OthersKeepPhase(c)
    BY <1>9, OthersKeep DEF DecideAsk, OpenQuestion
  <2>3. engaged' = engaged
    BY <1>9 DEF DecideAsk, OpenQuestion
  <2>4. ~engaged
    BY <1>9, CallVerdict DEF DecideAsk
  <2>5. Gate!Ask(c)
    BY <2>1, <2>2, <2>3, <2>4, MoveOfOne DEF Gate!Ask
  <2> QED
    BY <2>5 DEF Gate!GateNext
<1>10. ASSUME NEW c \in Callers, ResumeAllowed(c) PROVE [Gate!GateNext]_(Gate!gateVars)
  <2>1. GatePhase(c) \in {"approved"} /\ GatePhase(c)' = "acting"
    BY <1>10 DEF GatePhase, ResumeAllowed, CloseQuestion, Launch, Stop!RegisterScope, Consents
  <2>2. OthersKeepPhase(c)
    BY <1>10, OthersKeep DEF ResumeAllowed, CloseQuestion, Launch, Stop!RegisterScope
  <2>3. engaged' = engaged
    BY <1>10 DEF ResumeAllowed, CloseQuestion, Launch, Stop!RegisterScope
  <2>4. Gate!Launch(c)
    BY <2>1, <2>2, <2>3, MoveOfOne DEF Gate!Launch
  <2> QED
    BY <2>4 DEF Gate!GateNext
<1>11. ASSUME NEW c \in Callers, ResumeDenied(c) PROVE [Gate!GateNext]_(Gate!gateVars)
  <2>1. GatePhase(c) = "refused" /\ GatePhase(c)' = "refused"
    BY <1>11 DEF GatePhase, Consents, ResumeDenied, CloseQuestion, Deny
  <2>2. OthersKeepPhase(c)
    BY <1>11, OthersKeep DEF ResumeDenied, CloseQuestion, Deny
  <2>3. engaged' = engaged
    BY <1>11 DEF ResumeDenied, Deny
  <2> QED
    BY <2>1, <2>2, <2>3, StutterOfAll DEF OthersKeepPhase
<1>12. ASSUME NEW c \in Callers, NEW ok \in BOOLEAN, ToolReturns(c, ok) PROVE [Gate!GateNext]_(Gate!gateVars)
  <2>1. GatePhase(c) \in {"refused", "acting"} /\ GatePhase(c)' = "idle"
    BY <1>12 DEF GatePhase, ToolReturns, Stop!UnregisterScope
  <2>2. OthersKeepPhase(c)
    BY <1>12, OthersKeep DEF ToolReturns, Stop!UnregisterScope
  <2>3. engaged' = engaged
    BY <1>12 DEF ToolReturns, Stop!UnregisterScope
  <2>4. Gate!Finish(c)
    BY <2>1, <2>2, <2>3, MoveOfOne DEF Gate!Finish
  <2> QED
    BY <2>4 DEF Gate!GateNext
<1>13. ASSUME NEW c \in Callers, ToolRaises(c) PROVE [Gate!GateNext]_(Gate!gateVars)
  <2>1. GatePhase(c) \in {"refused", "acting"} /\ GatePhase(c)' = "idle"
    BY <1>13 DEF GatePhase, ToolRaises
  <2>2. OthersKeepPhase(c)
    BY <1>13, OthersKeep DEF ToolRaises
  <2>3. engaged' = engaged
    BY <1>13 DEF ToolRaises
  <2>4. Gate!Finish(c)
    BY <2>1, <2>2, <2>3, MoveOfOne DEF Gate!Finish
  <2> QED
    BY <2>4 DEF Gate!GateNext
<1>14. ASSUME NEW c \in Callers, NEW stored \in BOOLEAN, RecordEnd(c, stored) PROVE [Gate!GateNext]_(Gate!gateVars)
  <2>1. GatePhase(c) \in {"idle", "refused"} /\ GatePhase(c)' = "idle"
    BY <1>14 DEF GatePhase, RecordEnd
  <2>2. OthersKeepPhase(c)
    BY <1>14, OthersKeep DEF RecordEnd
  <2>3. engaged' = engaged
    BY <1>14 DEF RecordEnd, LeaveScope, Stop!UnregisterScope
  <2>4. CASE GatePhase(c) = "idle"
    BY <2>1, <2>2, <2>3, <2>4, StutterOfAll DEF OthersKeepPhase
  <2>5. CASE GatePhase(c) = "refused"
    <3>1. Gate!Finish(c)
      BY <2>1, <2>2, <2>3, <2>5, MoveOfOne DEF Gate!Finish
    <3> QED
      BY <3>1 DEF Gate!GateNext
  <2> QED
    BY <2>1, <2>4, <2>5
<1>15. ASSUME NEW c \in Callers, Timer(c) PROVE [Gate!GateNext]_(Gate!gateVars)
  <2>1. GatePhase(c) \in {"undecided", "approved", "refused"} /\ GatePhase(c)' = "refused"
    BY <1>15 DEF GatePhase, Consents, Answers, Timer, Expire, callVars
  <2>2. OthersKeepPhase(c)
    BY <1>15, OthersKeep DEF Timer, Expire, callVars
  <2>3. engaged' = engaged
    BY <1>15 DEF Timer
  <2>4. CASE GatePhase(c) = "refused"
    BY <2>1, <2>2, <2>3, <2>4, StutterOfAll DEF OthersKeepPhase
  <2>5. CASE GatePhase(c) \in {"undecided", "approved"}
    <3>1. Gate!Refuse(c)
      BY <2>1, <2>2, <2>3, <2>5, MoveOfOne DEF Gate!Refuse
    <3> QED
      BY <3>1 DEF Gate!GateNext
  <2> QED
    BY <2>1, <2>4, <2>5
<1>16. CASE PressStop
  <2>1. engaged' = TRUE
    BY <1>16 DEF PressStop, Stop!Engage
  <2>2. \A c \in Callers :
          GatePhase(c)' = IF GatePhase(c) = "undecided" THEN "refused" ELSE GatePhase(c)
    BY <1>16 DEF PressStop, CancelAllPending, GatePhase, Consents, callVars
  <2>3. Gate!Press
    BY <2>1, <2>2 DEF Gate!Press
  <2> QED
    BY <2>3 DEF Gate!GateNext
<1>17. CASE LiftStop
  <2>1. \A c \in Callers : GatePhase(c)' = GatePhase(c)
    BY <1>17 DEF LiftStop, GatePhase, callVars
  <2>2. Gate!Lift
    BY <1>17, <2>1 DEF Gate!Lift, LiftStop, Stop!Release
  <2> QED
    BY <2>2 DEF Gate!GateNext
<1>18. CASE User
  <2>1. engaged' = engaged
    BY <1>18 DEF User
  <2>2. CASE \A d \in Callers : ask'[d] = ask[d]
    <3>1. \A d \in Callers : GatePhase(d)' = GatePhase(d)
      BY <1>18, <2>2 DEF GatePhase, User, callVars
    <3> QED
      BY <2>1, <3>1, StutterOfAll
  <2>3. ASSUME NEW c \in Callers, NEW a \in Answers, Resolve(c, a)
        PROVE  [Gate!GateNext]_(Gate!gateVars)
    <3>1. GatePhase(c) = "undecided"
      BY <2>3 DEF Resolve, GatePhase, Consents
    <3>2. GatePhase(c)' \in {"approved", "refused"}
      BY <1>18, <2>3 DEF Resolve, GatePhase, Consents, Answers, User, callVars
    <3>3. OthersKeepPhase(c)
      BY <1>18, <2>3, OthersKeep DEF Resolve, User, callVars
    <3>4. Gate!Approve(c) \/ Gate!Refuse(c)
      BY <2>1, <3>1, <3>2, <3>3, MoveOfOne DEF Gate!Approve, Gate!Refuse
    <3> QED
      BY <3>4 DEF Gate!GateNext
  <2> QED
    BY <1>18, <2>2, <2>3 DEF User, ChangePolicy, Forget, ClearGrants
<1>19. CASE Crash
  <2>1. \A c \in Callers : GatePhase(c)' = "idle"
    BY <1>19 DEF Crash, GatePhase
  <2>2. Gate!Restart
    BY <1>19, <2>1 DEF Gate!Restart, Crash
  <2> QED
    BY <2>2 DEF Gate!GateNext
<1>20. CASE UNCHANGED vars
  <2>1. \A d \in Callers : GatePhase(d)' = GatePhase(d)
    BY <1>20 DEF GatePhase, vars
  <2>2. engaged' = engaged
    BY <1>20 DEF vars
  <2> QED
    BY <2>1, <2>2, StutterOfAll
<1> HIDE DEF IInv, TypeOK, PermTypeOK, PendingHasWaiter
<1> QED
  BY <1>1, <1>2, <1>3, <1>4, <1>5, <1>6, <1>7, <1>8, <1>9, <1>10,
     <1>11, <1>12, <1>13, <1>14, <1>15, <1>16, <1>17, <1>18, <1>19, <1>20
  DEF Next, Turn, Call, Decide, Resume, ToolEnds

(* The engine, the stop and execute together implement ToolGate. *)
THEOREM GateImplemented == Spec => ImplementsGate
<1>1. Init => Gate!GateInit
  BY DEF Init, Stop!StopInit, Gate!GateInit, GatePhase
<1> QED
  BY Inductive, GateStep, <1>1, PTL DEF Spec, ImplementsGate, Gate!GateSpec

-----------------------------------------------------------------------------
(* The decision table, and command lines. *)

(* What is answered is the function's value. *)
LEMMA OneAnswer ==
  ASSUME NEW x, answer = {x}
  PROVE  TheAnswer = x
BY DEF TheAnswer

(* What the engine is asked, and what it says. *)
VerdictsInv ==
    input.of = "evaluate" =>
        input \in Situations /\ answer \in {{}, {EvaluateInput(input)}}

LEMMA CeilingFacts ==
  ASSUME NEW l \in Levels, NEW r \in Risks
  PROVE  /\ AutoCeiling[l] \in Risks /\ RiskOrder[r] \in 0 .. 6
         /\ AutoCeiling[0] = "SAFE_READ"
         /\ l \in DOMAIN DenyAbove <=> l = 0
         /\ DenyAbove[0] = "SAFE_READ"
         /\ RiskOrder["PRIVILEGED"] > RiskOrder[AutoCeiling[l]]
<1>1. AutoCeiling[l] \in Risks \ {"PRIVILEGED"} /\ AutoCeiling[0] = "SAFE_READ"
  BY DEF AutoCeiling, Levels, Risks
<1>2. \A q \in Risks : RiskOrder[q] \in 0 .. 6 /\ (q # "PRIVILEGED" => RiskOrder[q] < 6)
  BY DEF RiskOrder, Risks
<1>3. RiskOrder["PRIVILEGED"] = 6
  BY DEF RiskOrder, Risks
<1>4. (l \in DOMAIN DenyAbove <=> l = 0) /\ DenyAbove[0] = "SAFE_READ"
  BY DEF DenyAbove
<1> QED
  BY <1>1, <1>2, <1>3, <1>4

LEMMA StrictnessOf ==
  /\ Strictness["DENIED"] = 0 /\ Strictness["NEEDS_CONFIRMATION"] = 1 /\ Strictness["ALLOWED"] = 2
BY DEF Strictness, Decisions

LEMMA EvaluateIsTheReference ==
  ASSUME NEW i \in Situations
  PROVE  Strictness[EvaluateInput(i)] = ReferenceVerdict(i)
<1> DEFINE within == RiskOrder[i.risk] <= RiskOrder[AutoCeiling[i.level]]
<1>1. /\ i.stop \in BOOLEAN /\ i.value \in Values /\ i.level \in Levels /\ i.risk \in Risks
      /\ i.granted \in BOOLEAN
  BY DEF Situations
<1>2. i.level = 0 => (RiskOrder[i.risk] > RiskOrder[DenyAbove[i.level]] <=> ~within)
  BY <1>1, CeilingFacts
<1>3. i.risk = "PRIVILEGED" => ~within
  BY <1>1, CeilingFacts
<1>4. i.level \in DOMAIN DenyAbove <=> i.level = 0
  BY <1>1, CeilingFacts
<1>5. Refused(i.stop, i.value, i.level, i.risk) <=>
        i.stop \/ i.value = "DENY" \/ (i.level = 0 /\ ~within)
  BY <1>1, <1>2, <1>4 DEF Refused
<1>6. Automatic(i.value, i.level, i.risk) <=> i.value # "ASK" /\ within
  BY <1>1, <1>3 DEF Automatic, AlwaysConfirm
<1>7. GrantApplies(i.risk, i.granted) <=> i.granted /\ i.risk # "PRIVILEGED"
  BY DEF GrantApplies, AlwaysConfirm
<1>8. LevelVerdict(i.level, i.risk) = IF within THEN 2 ELSE IF i.level = 0 THEN 0 ELSE 1
  BY DEF LevelVerdict
<1>9. ValueVerdict(i.value) = IF i.value = "DENY" THEN 0 ELSE IF i.value = "ASK" THEN 1 ELSE 2
  BY <1>1 DEF ValueVerdict, Values
<1> HIDE DEF within
<1> QED
  BY <1>1, <1>5, <1>6, <1>7, <1>8, <1>9, StrictnessOf
  DEF EvaluateInput, Evaluate, ReferenceVerdict, SmallerOf, Values

(* core/permissions.py, evaluate: for every capability's value, level, risk, *)
(* grant and state of the stop the verdict is that of the strictest control. *)
THEOREM StrictestControlAlwaysWins == TablesSpec => []StrictestControlWins
<1>1. TablesInit => VerdictsInv
  BY DEF TablesInit, VerdictsInv, Commands, Messages, Occurrences
<1>2. VerdictsInv /\ [TablesNext]_tableVars => VerdictsInv'
  BY DEF VerdictsInv, TablesNext, tableVars, Judge, Classify, Offer, Schedule
<1>3. VerdictsInv => StrictestControlWins
  BY OneAnswer, EvaluateIsTheReference DEF VerdictsInv, StrictestControlWins, Decided, Answered
<1> QED
  BY <1>1, <1>2, <1>3, PTL DEF TablesSpec

LEMMA OrderOf ==
  /\ CommandClasses = {"READ_ONLY", "WRITE", "SYSTEM", "DESTRUCTIVE", "ADMIN"}
  /\ CLASS_ORDER["READ_ONLY"] = 0 /\ CLASS_ORDER["WRITE"] = 1 /\ CLASS_ORDER["SYSTEM"] = 2
  /\ CLASS_ORDER["DESTRUCTIVE"] = 3 /\ CLASS_ORDER["ADMIN"] = 4
BY DEF CommandClasses, CLASS_ORDER

LEMMA RiskOf ==
  /\ CLASS_RISK["READ_ONLY"] = "SAFE_READ" /\ CLASS_RISK["WRITE"] = "WRITE"
  /\ CLASS_RISK["SYSTEM"] = "SYSTEM_CONTROL" /\ CLASS_RISK["DESTRUCTIVE"] = "DESTRUCTIVE"
  /\ CLASS_RISK["ADMIN"] = "PRIVILEGED"
  /\ \A c \in CommandClasses : CLASS_RISK[c] \in Risks
BY OrderOf DEF CLASS_RISK, Risks

LEMMA CapabilityOf ==
  /\ CLASS_CAPABILITY["READ_ONLY"] = "TERMINAL_READ"
  /\ CLASS_CAPABILITY["ADMIN"] = "TERMINAL_ADMIN"
  /\ \A c \in {"WRITE", "SYSTEM", "DESTRUCTIVE"} : CLASS_CAPABILITY[c] = "TERMINAL_WRITE"
BY OrderOf DEF CLASS_CAPABILITY

LEMMA RiskOrderOf ==
  /\ RiskOrder["SAFE_READ"] = 0 /\ RiskOrder["WRITE"] = 2 /\ RiskOrder["SYSTEM_CONTROL"] = 4
  /\ RiskOrder["DESTRUCTIVE"] = 5 /\ RiskOrder["PRIVILEGED"] = 6
BY DEF RiskOrder, Risks

(* The worst of some classes is one of them. *)
LEMMA WorstIsOne ==
  ASSUME NEW classes \in SUBSET CommandClasses, classes # {}
  PROVE  /\ Worst(classes) \in classes
         /\ \A d \in classes : CLASS_ORDER[d] <= CLASS_ORDER[Worst(classes)]
<1>1. \E c \in classes : \A d \in classes : CLASS_ORDER[d] <= CLASS_ORDER[c]
  <2>1. CASE "ADMIN" \in classes
    BY <2>1, OrderOf
  <2>2. CASE "ADMIN" \notin classes /\ "DESTRUCTIVE" \in classes
    BY <2>2, OrderOf
  <2>3. CASE "ADMIN" \notin classes /\ "DESTRUCTIVE" \notin classes /\ "SYSTEM" \in classes
    BY <2>3, OrderOf
  <2>4. CASE /\ "ADMIN" \notin classes /\ "DESTRUCTIVE" \notin classes
             /\ "SYSTEM" \notin classes /\ "WRITE" \in classes
    BY <2>4, OrderOf
  <2>5. CASE classes = {"READ_ONLY"}
    BY <2>5, OrderOf
  <2> QED
    BY <2>1, <2>2, <2>3, <2>4, <2>5, OrderOf
<1> QED
  BY <1>1, Zenon DEF Worst

LEMMA ClassesInAreClasses ==
  ASSUME NEW line, line.stages \in Seq(Stages)
  PROVE  ClassesIn(line) \in SUBSET CommandClasses /\ ClassesIn(line) # {}
<1>1. OfItself(line) \subseteq {"DESTRUCTIVE", "READ_ONLY", "WRITE"} /\ OfItself(line) # {}
  <2>1. (IF IsDangerous(line) THEN "DESTRUCTIVE" ELSE "READ_ONLY") \in OfItself(line)
    BY DEF OfItself
  <2> QED
    BY <2>1 DEF OfItself
<1>2. \A i \in DOMAIN line.stages : SegmentClass(line.stages[i]) \in CommandClasses
  BY OrderOf DEF SegmentClass
<1> QED
  BY <1>1, <1>2, OrderOf DEF ClassesIn

(* A stage as it stands is of the same program, and what makes it dangerous *)
(* makes the line dangerous.                                                *)
LEMMA StageAsItStands ==
  ASSUME NEW line, line.stages \in Seq(Stages), NEW i \in DOMAIN line.stages
  PROVE  LET there == AsItStands(line, i)
         IN /\ there \in Stages /\ SegmentClass(there) = SegmentClass(line.stages[i])
            /\ there.redirected = line.stages[i].redirected
            /\ there.pattern # "none" => IsDangerous(line)
<1> DEFINE stage == line.stages[i]
           there == AsItStands(line, i)
<1>1. stage \in Stages
  OBVIOUS
<1>2. CASE Hides(line, i)
  <2>1. there = [stage EXCEPT !.pattern = "none"]
    BY <1>2 DEF AsItStands
  <2>2. /\ there \in Stages /\ there.program = stage.program /\ there.argument = stage.argument
        /\ there.redirected = stage.redirected /\ there.pattern = "none"
    BY <1>1, <2>1 DEF Stages, Patterns
  <2>3. SegmentClass(there) = SegmentClass(stage)
    BY <2>2 DEF SegmentClass, IsToldToWrite
  <2> QED
    BY <2>2, <2>3
<1>3. CASE ~Hides(line, i)
  <2>1. there = stage
    BY <1>3 DEF AsItStands
  <2>2. stage.pattern \in Patterns
    BY <1>1 DEF Stages
  <2>3. stage.pattern # "none" => IsDangerous(line)
    BY <1>3, <2>2 DEF IsDangerous, Hides, Patterns
  <2> QED
    BY <1>1, <2>1, <2>3
<1> QED
  BY <1>2, <1>3

(* A line is in no better class than any of its stages, as it stands. *)
LEMMA StageIsInTheLine ==
  ASSUME NEW line, line.stages \in Seq(Stages), NEW i \in DOMAIN line.stages
  PROVE  /\ ClassOf(line) \in CommandClasses
         /\ ClassOf(Alone(AsItStands(line, i))) \in CommandClasses
         /\ CLASS_ORDER[ClassOf(Alone(AsItStands(line, i)))] <= CLASS_ORDER[ClassOf(line)]
<1> DEFINE stage == AsItStands(line, i)
           alone == Alone(stage)
<1>1. /\ stage \in Stages /\ SegmentClass(stage) = SegmentClass(line.stages[i])
      /\ stage.redirected = line.stages[i].redirected
      /\ stage.pattern # "none" => IsDangerous(line)
  BY StageAsItStands
<1> HIDE DEF stage
<1>2. /\ alone.stages = <<stage>> /\ alone.open = FALSE /\ alone.spanning = FALSE
      /\ alone.stages \in Seq(Stages) /\ DOMAIN alone.stages = {1} /\ alone.stages[1] = stage
  BY <1>1 DEF Alone
<1>3. IsDangerous(alone) => IsDangerous(line)
  BY <1>1, <1>2 DEF IsDangerous
<1>4. ClassesIn(alone) \subseteq ClassesIn(line) \cup {"READ_ONLY"}
  <2>1. SegmentClass(stage) \in ClassesIn(line)
    BY <1>1 DEF ClassesIn
  <2>2. OfItself(alone) \subseteq OfItself(line) \cup {"READ_ONLY"}
    <3>1. stage.redirected => "WRITE" \in OfItself(line)
      BY <1>1 DEF OfItself
    <3>2. OfItself(alone) \subseteq
            {IF IsDangerous(alone) THEN "DESTRUCTIVE" ELSE "READ_ONLY"}
                \cup (IF stage.redirected THEN {"WRITE"} ELSE {})
      BY <1>2 DEF OfItself
    <3>3. IsDangerous(alone) => "DESTRUCTIVE" \in OfItself(line)
      BY <1>3 DEF OfItself
    <3> QED
      BY <3>1, <3>2, <3>3
  <2> QED
    BY <1>2, <2>1, <2>2 DEF ClassesIn
<1>5. /\ ClassOf(line) \in ClassesIn(line) /\ ClassesIn(line) \subseteq CommandClasses
      /\ \A d \in ClassesIn(line) : CLASS_ORDER[d] <= CLASS_ORDER[ClassOf(line)]
  BY ClassesInAreClasses, WorstIsOne DEF ClassOf
<1>6. ClassOf(alone) \in ClassesIn(alone) /\ ClassesIn(alone) \subseteq CommandClasses
  BY <1>2, ClassesInAreClasses, WorstIsOne DEF ClassOf
<1> HIDE DEF alone
<1>7. CLASS_ORDER[ClassOf(alone)] <= CLASS_ORDER[ClassOf(line)]
  <2>1. CASE ClassOf(alone) = "READ_ONLY"
    BY <2>1, <1>5, OrderOf
  <2>2. CASE ClassOf(alone) \in ClassesIn(line)
    BY <2>2, <1>5
  <2> QED
    BY <2>1, <2>2, <1>4, <1>6
<1> QED
  BY <1>5, <1>6, <1>7 DEF alone, stage

(* A worse class is treated no more freely. *)
LEMMA WorseIsNoFreer ==
  ASSUME NEW c \in CommandClasses, NEW d \in CommandClasses, CLASS_ORDER[c] <= CLASS_ORDER[d],
         NEW value \in [TerminalCapabilities -> Values], Ordered(value), NEW level \in Levels
  PROVE  Strictness[Evaluate(FALSE, value[CLASS_CAPABILITY[d]], level, CLASS_RISK[d], FALSE)]
           <= Strictness[Evaluate(FALSE, value[CLASS_CAPABILITY[c]], level, CLASS_RISK[c], FALSE)]
<1> DEFINE Ask(e) ==
             [of |-> "evaluate", stop |-> FALSE, value |-> value[CLASS_CAPABILITY[e]],
              level |-> level, risk |-> CLASS_RISK[e], granted |-> FALSE]
           verdict(e) == Strictness[EvaluateInput(Ask(e))]
<1>1. \A e \in CommandClasses :
        CLASS_CAPABILITY[e] \in TerminalCapabilities /\ CLASS_RISK[e] \in Risks
  BY OrderOf, CapabilityOf, RiskOf DEF TerminalCapabilities
<1>2. \A e \in CommandClasses : Ask(e) \in Situations
  BY <1>1 DEF Situations
<1>3. \A e \in CommandClasses : ReferenceVerdict(Ask(e)) =
        SmallerOf(ValueVerdict(value[CLASS_CAPABILITY[e]]), LevelVerdict(level, CLASS_RISK[e]))
  BY DEF ReferenceVerdict
<1>4. \A e \in CommandClasses : verdict(e) =
        SmallerOf(ValueVerdict(value[CLASS_CAPABILITY[e]]), LevelVerdict(level, CLASS_RISK[e]))
  BY <1>2, <1>3, EvaluateIsTheReference
<1>5. \A e \in CommandClasses : ValueVerdict(value[CLASS_CAPABILITY[e]]) \in 0 .. 2
  BY <1>1 DEF ValueVerdict, Values
<1>6. ValueVerdict(value[CLASS_CAPABILITY[d]]) <= ValueVerdict(value[CLASS_CAPABILITY[c]])
  <2>1. CLASS_CAPABILITY[d] = CLASS_CAPABILITY[c] \/ CLASS_CAPABILITY[d] = "TERMINAL_ADMIN"
          \/ (CLASS_CAPABILITY[d] = "TERMINAL_WRITE" /\ CLASS_CAPABILITY[c] = "TERMINAL_READ")
    BY OrderOf, CapabilityOf
  <2>2. CLASS_CAPABILITY[c] \in TerminalCapabilities
    BY <1>1
  <2> QED
    BY <2>1, <2>2, <1>5 DEF Ordered, TerminalCapabilities, ValueVerdict, Values
<1>7. RiskOrder[CLASS_RISK[c]] <= RiskOrder[CLASS_RISK[d]]
  BY OrderOf, RiskOf, RiskOrderOf
<1>8. /\ RiskOrder[CLASS_RISK[c]] \in Int /\ RiskOrder[CLASS_RISK[d]] \in Int
      /\ RiskOrder[AutoCeiling[level]] \in Int
  BY <1>1, CeilingFacts
<1>9. LevelVerdict(level, CLASS_RISK[d]) <= LevelVerdict(level, CLASS_RISK[c])
  BY <1>7, <1>8 DEF LevelVerdict
<1>10. LevelVerdict(level, CLASS_RISK[d]) \in Int /\ LevelVerdict(level, CLASS_RISK[c]) \in Int
  BY DEF LevelVerdict
<1>11. verdict(d) <= verdict(c)
  BY <1>4, <1>5, <1>6, <1>9, <1>10 DEF SmallerOf
<1> QED
  BY <1>11 DEF EvaluateInput

(* What is asked about command lines, and what is said. *)
CommandsInv ==
    input.of = "classify_command" =>
        input \in Commands /\ answer \in {{}, {DecisionOn(input.line, input.value, input.level)}}

(* tools/terminal.py, classify_command and risk_for: for a line of any length, *)
(* when the settings are no freer with riskier capabilities, the engine lets   *)
(* no line pass that it would stop a stage of, its danger taken as it stands   *)
(* in the line.                                                                *)
THEOREM LineIsNeverFreerThanItsStages == TablesSpec => []LineIsNoFreerThanItsStages
<1>1. TablesInit => CommandsInv
  BY DEF TablesInit, CommandsInv, Situations, Messages, Occurrences
<1>2. CommandsInv /\ [TablesNext]_tableVars => CommandsInv'
  BY DEF CommandsInv, TablesNext, tableVars, Judge, Classify, Offer, Schedule
<1>3. CommandsInv => LineIsNoFreerThanItsStages
  <2> SUFFICES ASSUME CommandsInv, Answered("classify_command"), Ordered(input.value),
                      NEW i \in DOMAIN input.line.stages
               PROVE  Strictness[TheAnswer] <=
                        Strictness[DecisionOn(Alone(AsItStands(input.line, i)), input.value, input.level)]
    BY DEF LineIsNoFreerThanItsStages
  <2>1. input \in Commands /\ answer = {DecisionOn(input.line, input.value, input.level)}
    BY DEF CommandsInv, Answered
  <2>2. TheAnswer = DecisionOn(input.line, input.value, input.level)
    BY <2>1, OneAnswer
  <2>3. /\ input.line.stages \in Seq(Stages) /\ input.level \in Levels
        /\ input.value \in [TerminalCapabilities -> Values]
    BY <2>1, TablesAssumption DEF Commands
  <2>4. /\ ClassOf(input.line) \in CommandClasses
        /\ ClassOf(Alone(AsItStands(input.line, i))) \in CommandClasses
        /\ CLASS_ORDER[ClassOf(Alone(AsItStands(input.line, i)))] <= CLASS_ORDER[ClassOf(input.line)]
    BY <2>3, StageIsInTheLine, Zenon
  <2> QED
    BY <2>2, <2>3, <2>4, WorseIsNoFreer DEF DecisionOn
<1> QED
  BY <1>1, <1>2, <1>3, PTL DEF TablesSpec
====
