-------------------------- MODULE AgentWorkflowProofs --------------------------
(***************************************************************************)
(* What TLAPS proves about AgentWorkflow, for any number of tool rounds    *)
(* and of calls in a round.                                                *)
(***************************************************************************)
EXTENDS AgentWorkflow, SequenceTheorems, TLAPS

Steps == [role : Roles, position : Nat, status : {"PENDING", "DONE", "FAILED"}]

IsWorkflow == decision.strategy = "WORKFLOW"

(* The worker's place in the order. *)
Work == IF IsWorkflow THEN 2 ELSE 1

(* Each result made the orchestrator go on with the agent of the next one. *)
ResultsInv ==
    /\ results \in Seq(Results)
    /\ Len(results) <= Len(FullOrder)
    /\ \A i \in 1 .. Len(results) :
        /\ results[i].role = FullOrder[i]
        /\ results[i].role # "review" => ~results[i].blockers
    /\ \A i \in 1 .. Len(results) - 1 : NextRole(results[i]) = FullOrder[i + 1]

StatusOf(i) ==
    IF i > Len(results) THEN "PENDING" ELSE IF results[i].ok THEN "DONE" ELSE "FAILED"

(* A specialist's steps all have the first position, those of a workflow *)
(* have the one of their agent.                                          *)
PositionOf(i) == IF IsWorkflow THEN i - 1 ELSE 0

StepsInv ==
    /\ steps \in Seq(Steps)
    /\ Len(steps) <= Len(FullOrder) /\ Len(results) <= Len(steps)
    /\ \A i \in 1 .. Len(steps) :
        /\ steps[i].role = FullOrder[i]
        /\ steps[i].position = PositionOf(i)
        /\ steps[i].status = StatusOf(i)

(* Where the run is, and what has come of it. *)
PlaceInv ==
    /\ pc = "starting" => results = <<>> /\ steps = <<>>
    /\ pc \in {"starting"} \cup Working => outcome = "none"
    /\ pc \in Working =>
        /\ Len(steps) = IF role = "planner" THEN 2 ELSE Len(results) + 1
        /\ role = FullOrder[Len(results) + 1]
        /\ results # <<>> => NextRole(results[Len(results)]) = role
    /\ outcome = "ok" =>
        /\ results # <<>> /\ Len(steps) = Len(results)
        /\ OutcomeOf(results[Len(results)]) = "ok" /\ NextRole(results[Len(results)]) = "nobody"
    /\ pc = "over" /\ outcome # "none" => row = StatusFor[outcome]
    /\ outcome \in {"none", "ok", "failed", "cancelled"}

DecisionInv ==
    /\ decision.strategy \in {"SPECIALIST", "WORKFLOW"} \/ pc = "over" \/ pc = "gone"
    /\ decision.review \in BOOLEAN
    /\ IsWorkflow /\ decision.critical => decision.review

IInv == ResultsInv /\ StepsInv /\ PlaceInv /\ DecisionInv

-----------------------------------------------------------------------------
(* coordinator.py: consequential work in several steps is reviewed. *)
LEMMA CriticalIsReviewed ==
  ASSUME NEW m \in Messages
  PROVE  LET d == Decide(m)
         IN  /\ d.review \in BOOLEAN
             /\ d.strategy = "WORKFLOW" /\ d.critical => d.review
BY DEF Messages, Decide, WorkflowReview

LEMMA OrderIs ==
  /\ IsWorkflow =>
        /\ Len(FullOrder) = 4 /\ FullOrder[1] = "planner" /\ FullOrder[2] = "worker"
        /\ FullOrder[3] = "review" /\ FullOrder[4] = "repair"
  /\ ~IsWorkflow =>
        /\ Len(FullOrder) = 3 /\ FullOrder[1] = "worker" /\ FullOrder[2] = "review"
        /\ FullOrder[3] = "repair"
BY DEF FullOrder, IsWorkflow

LEMMA PlaceOf ==
  /\ Work \in {1, 2} /\ Len(FullOrder) = Work + 2
  /\ \A i \in 1 .. Work + 2 :
        /\ FullOrder[i] \in Roles /\ FullOrder[i] # "nobody"
        /\ FullOrder[i] = "planner" <=> i = Work - 1
        /\ FullOrder[i] = "worker" <=> i = Work
        /\ FullOrder[i] = "review" <=> i = Work + 1
        /\ FullOrder[i] = "repair" <=> i = Work + 2
<1>1. CASE IsWorkflow
  <2>1. \A i \in 1 .. 4 : i \in {1, 2, 3, 4}
    OBVIOUS
  <2> QED
    BY <1>1, <2>1, OrderIs DEF Work, Roles
<1>2. CASE ~IsWorkflow
  <2>1. \A i \in 1 .. 3 : i \in {1, 2, 3}
    OBVIOUS
  <2> QED
    BY <1>2, <2>1, OrderIs DEF Work, Roles
<1> QED
  BY <1>1, <1>2

LEMMA AgentsDiffer ==
  ASSUME NEW i \in 1 .. Work + 2, NEW j \in 1 .. Work + 2, FullOrder[i] = FullOrder[j]
  PROVE  i = j
<1>1. CASE FullOrder[i] = "planner"
  BY <1>1, PlaceOf
<1>2. CASE FullOrder[i] = "worker"
  BY <1>2, PlaceOf
<1>3. CASE FullOrder[i] = "review"
  BY <1>3, PlaceOf
<1>4. CASE FullOrder[i] = "repair"
  BY <1>4, PlaceOf
<1>5. FullOrder[i] \in Roles
  BY PlaceOf
<1> QED
  BY <1>1, <1>2, <1>3, <1>4, <1>5 DEF Roles

(* How the orchestrator goes on, and when it does not. *)
LEMMA NextIs ==
  ASSUME NEW result
  PROVE  /\ NextRole(result) # "nobody" =>
              \/ result.role = "planner" /\ result.ok /\ NextRole(result) = "worker"
              \/ result.role = "worker" /\ result.ok /\ decision.review /\ NextRole(result) = "review"
              \/ result.role = "review" /\ result.blockers /\ NextRole(result) = "repair"
         /\ NextRole(result) = "nobody" =>
              /\ result.role = "planner" => ~result.ok
              /\ result.role = "worker" => ~result.ok \/ ~decision.review
              /\ result.role = "review" => ~result.blockers
BY DEF NextRole

LEMMA IsSequence ==
  ASSUME NEW S, NEW m \in Nat, NEW f, DOMAIN f = 1 .. m, f = [i \in 1 .. m |-> f[i]],
         \A i \in 1 .. m : f[i] \in S
  PROVE  f \in Seq(S) /\ Len(f) = m
OBVIOUS

LEMMA Joined ==
  ASSUME NEW S, NEW s \in Seq(S), NEW t \in Seq(S), Len(t) = 1
  PROVE  /\ s \o t \in Seq(S) /\ Len(s \o t) = Len(s) + 1
         /\ \A i \in 1 .. Len(s) : (s \o t)[i] = s[i]
         /\ (s \o t)[Len(s) + 1] = t[1]
<1> DEFINE n == Len(s)
           both == s \o t
<1>1. n \in Nat
  OBVIOUS
<1>2. both \in Seq(S) /\ Len(both) = n + Len(t)
  BY ConcatProperties
<1>3. \A i \in 1 .. n + Len(t) : both[i] = IF i <= n THEN s[i] ELSE t[i - n]
  BY ConcatProperties, Zenon
<1> HIDE DEF n, both
<1>4. both[n + 1] = t[1]
  BY <1>1, <1>3
<1>5. \A i \in 1 .. n : both[i] = s[i]
  BY <1>1, <1>3
<1> QED
  BY <1>1, <1>2, <1>4, <1>5 DEF both, n

(* core/tasks.py, add_steps, for one more step and for the first two. *)
LEMMA OneStepAdded ==
  ASSUME NEW s \in Seq(Steps), NEW r \in Roles, NextPosition(s) \in Nat
  PROVE  /\ AddSteps(s, <<r>>) \in Seq(Steps)
         /\ Len(AddSteps(s, <<r>>)) = Len(s) + 1
         /\ \A i \in 1 .. Len(s) : AddSteps(s, <<r>>)[i] = s[i]
         /\ AddSteps(s, <<r>>)[Len(s) + 1] =
                [role |-> r, position |-> NextPosition(s), status |-> "PENDING"]
<1> DEFINE added == [i \in 1 .. Len(<<r>>) |->
                        [role |-> <<r>>[i], position |-> NextPosition(s) + i - 1,
                         status |-> "PENDING"]]
           new == [role |-> r, position |-> NextPosition(s), status |-> "PENDING"]
<1>1. new \in Steps
  BY DEF Steps
<1>2. Len(<<r>>) = 1 /\ <<r>>[1] = r
  OBVIOUS
<1>3. added[1] = new /\ DOMAIN added = 1 .. 1
  BY <1>2
<1> HIDE DEF new
<1>4. added \in Seq(Steps) /\ Len(added) = 1
  <2>1. added = [i \in 1 .. 1 |-> new]
    BY <1>2, <1>3
  <2> HIDE DEF added
  <2>2. \A S, x : x \in S => [i \in 1 .. 1 |-> x] \in Seq(S) /\ Len([i \in 1 .. 1 |-> x]) = 1
    OBVIOUS
  <2> QED
    BY <1>1, <2>1, <2>2, Zenon
<1> HIDE DEF added
<1>5. /\ s \o added \in Seq(Steps) /\ Len(s \o added) = Len(s) + 1
      /\ \A i \in 1 .. Len(s) : (s \o added)[i] = s[i]
      /\ (s \o added)[Len(s) + 1] = added[1]
  BY <1>4, Joined
<1> QED
  BY <1>3, <1>5 DEF AddSteps, added, new

LEMMA FirstSteps ==
  /\ AddSteps(<<>>, <<"worker">>) =
        <<[role |-> "worker", position |-> 0, status |-> "PENDING"]>>
  /\ AddSteps(<<>>, <<"planner", "worker">>) =
        <<[role |-> "planner", position |-> 0, status |-> "PENDING"],
          [role |-> "worker", position |-> 1, status |-> "PENDING"]>>
<1>1. NextPosition(<<>>) = 0
  BY DEF NextPosition
<1> QED
  BY <1>1 DEF AddSteps

-----------------------------------------------------------------------------
LEMMA InitHolds == Init => IInv
<1> SUFFICES ASSUME Init PROVE IInv
  OBVIOUS
<1>1. PICK m \in Messages : decision = Decide(m)
  BY DEF Init
<1>2. DecisionInv
  BY <1>1, CriticalIsReviewed DEF Init, DecisionInv, IsWorkflow
<1>3. Len(FullOrder) \in Nat
  BY PlaceOf
<1>4. ResultsInv /\ StepsInv
  BY <1>3 DEF Init, ResultsInv, StepsInv
<1>5. PlaceInv
  BY DEF Init, PlaceInv, Working
<1> QED
  BY <1>2, <1>4, <1>5 DEF IInv

(* An agent's result is one of its role, and only a review has blockers. *)
LEMMA ResultsAre ==
  ASSUME NEW r \in Roles, NEW result \in ResultsOf(r) \cup {Failed(r)}
  PROVE  /\ result \in Results /\ result.role = r
         /\ r # "review" => ~result.blockers
<1>1. CASE result \in {Succeeded(r), Failed(r)}
  <2>1. Succeeded(r) \in Results /\ Succeeded(r).role = r /\ Succeeded(r).blockers = FALSE
    BY DEF Succeeded, Results
  <2>2. Failed(r) \in Results /\ Failed(r).role = r /\ Failed(r).blockers = FALSE
    BY DEF Failed, Results
  <2> QED
    BY <1>1, <2>1, <2>2
<1>2. CASE r = "review" /\ result \in {ParseReview(reply) : reply \in Replies \cup {Unreadable}}
  <2>1. PICK reply : result = ParseReview(reply)
    BY <1>2
  <2>2. \A verdict : ParseReview(reply).role = "review"
    BY DEF ParseReview
  <2>3. ParseReview(reply).ok \in BOOLEAN /\ ParseReview(reply).blockers \in BOOLEAN
    BY DEF ParseReview
  <2>4. ParseReview(reply) \in Results
    BY <1>2, <2>3 DEF ParseReview, Results
  <2> QED
    BY <1>2, <2>1, <2>2, <2>4
<1> QED
  BY <1>1, <1>2 DEF ResultsOf

(* While an agent runs: whose turn it is, and the steps so far. *)
LEMMA WorkingIs ==
  ASSUME IInv, pc \in Working, NEW n, n = Len(results)
  PROVE  /\ n \in Nat /\ n + 1 \in 1 .. Work + 2 /\ role = FullOrder[n + 1]
         /\ Len(steps) = IF role = "planner" THEN 2 ELSE n + 1
         /\ n + 1 <= Len(steps) /\ Len(steps) <= Work + 2
         /\ results \in Seq(Results) /\ steps \in Seq(Steps)
         /\ outcome = "none" /\ (n # 0 => NextRole(results[n]) = role)
         /\ decision.strategy \in {"SPECIALIST", "WORKFLOW"}
         /\ role = "planner" <=> n + 1 = Work - 1
         /\ role = "worker" <=> n + 1 = Work
         /\ role = "review" <=> n + 1 = Work + 1
         /\ role = "repair" <=> n + 1 = Work + 2
<1>1. results \in Seq(Results) /\ steps \in Seq(Steps)
  BY DEF IInv, ResultsInv, StepsInv
<1>2. /\ outcome = "none" /\ role = FullOrder[n + 1]
      /\ Len(steps) = IF role = "planner" THEN 2 ELSE n + 1
      /\ results # <<>> => NextRole(results[n]) = role
      /\ decision.strategy \in {"SPECIALIST", "WORKFLOW"}
  BY DEF IInv, PlaceInv, DecisionInv, Working
<1>3. n \in Nat /\ (n # 0 => results # <<>>)
  BY <1>1
<1>4. n <= Len(steps) /\ Len(steps) <= Work + 2 /\ Work \in {1, 2}
  BY PlaceOf DEF IInv, StepsInv
<1>5. n + 1 \in 1 .. Work + 2
  BY <1>2, <1>3, <1>4
<1>6. /\ role = "planner" <=> n + 1 = Work - 1
      /\ role = "worker" <=> n + 1 = Work
      /\ role = "review" <=> n + 1 = Work + 1
      /\ role = "repair" <=> n + 1 = Work + 2
  BY <1>2, <1>5, PlaceOf
<1> QED
  BY <1>1, <1>2, <1>3, <1>4, <1>5, <1>6

(* update_step: the step of the agent that ran, and no other. *)
LEMMA StepFinished ==
  ASSUME IInv, pc \in Working, NEW result \in Results, result.role = role,
         NEW n, n = Len(results)
  PROVE  LET done == FinishStep(steps, result)
         IN  /\ done \in Seq(Steps) /\ Len(done) = Len(steps)
             /\ \A i \in 1 .. Len(steps) :
                 /\ done[i].role = FullOrder[i]
                 /\ done[i].position = PositionOf(i)
                 /\ i # n + 1 => done[i].status = StatusOf(i)
             /\ done[n + 1].status = IF result.ok THEN "DONE" ELSE "FAILED"
<1> DEFINE done == FinishStep(steps, result)
           final == IF result.ok THEN "DONE" ELSE "FAILED"
<1>1. /\ n \in Nat /\ n + 1 <= Len(steps) /\ Len(steps) <= Work + 2 /\ steps \in Seq(Steps)
      /\ role = FullOrder[n + 1] /\ Work \in {1, 2}
      /\ \A i \in 1 .. Len(steps) : /\ steps[i].role = FullOrder[i]
                                    /\ steps[i].position = PositionOf(i)
                                    /\ steps[i].status = StatusOf(i)
  BY WorkingIs, PlaceOf DEF IInv, StepsInv
<1>2. done = [i \in 1 .. Len(steps) |->
                 IF steps[i].role = role THEN [steps[i] EXCEPT !.status = final] ELSE steps[i]]
  BY DEF FinishStep
<1>3. \A i \in 1 .. Len(steps) : steps[i].role = role <=> i = n + 1
  <2>1. n + 1 \in 1 .. Work + 2 /\ \A i \in 1 .. Len(steps) : i \in 1 .. Work + 2
    BY <1>1
  <2> QED
    BY <1>1, <2>1, AgentsDiffer
<1> HIDE DEF done
<1>4. ASSUME NEW i \in 1 .. Len(steps)
      PROVE  /\ done[i] \in Steps /\ done[i].role = FullOrder[i]
             /\ done[i].position = PositionOf(i)
             /\ done[i].status = IF i = n + 1 THEN final ELSE StatusOf(i)
  <2>1. steps[i] \in Steps
    BY <1>1
  <2> QED
    BY <1>1, <1>2, <1>3, <2>1 DEF Steps
<1>5. Len(done) = Len(steps) /\ done \in Seq(Steps)
  <2>1. Len(steps) \in Nat
    BY <1>1
  <2>2. DOMAIN done = 1 .. Len(steps) /\ done = [i \in 1 .. Len(steps) |-> done[i]]
    BY <1>2
  <2> QED
    BY <1>4, <2>1, <2>2, IsSequence
<1>6. done[n + 1].status = final
  BY <1>1, <1>4
<1>7. \A i \in 1 .. Len(steps) :
        /\ done[i].role = FullOrder[i]
        /\ done[i].position = PositionOf(i)
        /\ i # n + 1 => done[i].status = StatusOf(i)
  BY <1>4
<1> QED
  BY <1>5, <1>6, <1>7 DEF done

LEMMA ReturnsKeeps ==
  ASSUME IInv, pc \in Working, NEW result \in ResultsOf(role) \cup {Failed(role)}, Returns(result)
  PROVE  IInv'
<1>1. PICK n : n = Len(results)
  OBVIOUS
<1>2. PICK next : next = NextRole(result)
  OBVIOUS
<1>3. PICK done : done = FinishStep(steps, result)
  OBVIOUS
<1>4. /\ n \in Nat /\ n + 1 \in 1 .. Work + 2 /\ role = FullOrder[n + 1]
      /\ Len(steps) = IF role = "planner" THEN 2 ELSE n + 1
      /\ n + 1 <= Len(steps) /\ Len(steps) <= Work + 2 /\ Len(steps) \in Nat
      /\ results \in Seq(Results) /\ outcome = "none"
      /\ n # 0 => NextRole(results[n]) = role
      /\ decision.strategy \in {"SPECIALIST", "WORKFLOW"}
  BY <1>1, WorkingIs
<1>5. /\ role = "planner" <=> n + 1 = Work - 1
      /\ role = "worker" <=> n + 1 = Work
      /\ role = "review" <=> n + 1 = Work + 1
      /\ role = "repair" <=> n + 1 = Work + 2
  BY <1>1, WorkingIs
<1>6. Work \in {1, 2} /\ Len(FullOrder) = Work + 2 /\ role \in Roles
  BY <1>4, PlaceOf
<1>7. result \in Results /\ result.role = role /\ (role # "review" => ~result.blockers)
  BY <1>6, ResultsAre
<1>8. /\ next \in {"nobody", "worker", "review", "repair"}
      /\ next = "worker" => role = "planner"
      /\ next = "review" => role = "worker"
      /\ next = "repair" => role = "review"
  BY <1>2, <1>7, NextIs
<1>9. /\ next = "worker" => n + 2 = Work /\ Len(steps) = n + 2
      /\ next = "review" => n + 2 = Work + 1 /\ Len(steps) = n + 1
      /\ next = "repair" => n + 2 = Work + 2 /\ Len(steps) = n + 1
  BY <1>4, <1>5, <1>6, <1>8
<1>10. next # "nobody" => n + 2 \in 1 .. Work + 2 /\ FullOrder[n + 2] = next
  <2>1. Work \in 1 .. Work + 2 /\ Work + 1 \in 1 .. Work + 2 /\ Work + 2 \in 1 .. Work + 2
    BY <1>6
  <2>2. /\ FullOrder[Work] = "worker" /\ FullOrder[Work + 1] = "review"
        /\ FullOrder[Work + 2] = "repair"
    BY <2>1, PlaceOf
  <2> QED
    BY <1>8, <1>9, <2>1, <2>2
<1>11. /\ results' = Append(results, result) /\ UNCHANGED <<decision, webDenied, row, cancelled>>
       /\ next = "nobody" =>
            pc' = "ending" /\ outcome' = OutcomeOf(result) /\ steps' = done /\ role' = role
       /\ next # "nobody" =>
            /\ role' = next /\ pc' = "selecting" /\ outcome' = outcome
            /\ steps' = IF next \in {"review", "repair"} THEN AddSteps(done, <<next>>) ELSE done
  BY <1>2, <1>3 DEF Returns, Begin
<1>12. /\ results' \in Seq(Results) /\ Len(results') = n + 1 /\ results'[n + 1] = result
       /\ \A i \in 1 .. n : results'[i] = results[i]
  BY <1>1, <1>4, <1>7, <1>11, AppendProperties
<1>13. /\ FullOrder' = FullOrder /\ (IsWorkflow' <=> IsWorkflow)
       /\ \A i : PositionOf(i)' = PositionOf(i)
       /\ \A x : NextRole(x)' = NextRole(x)
  BY <1>11 DEF FullOrder, IsWorkflow, PositionOf, NextRole
<1>14. /\ done \in Seq(Steps) /\ Len(done) = Len(steps)
       /\ \A i \in 1 .. Len(steps) :
            /\ done[i].role = FullOrder[i]
            /\ done[i].position = PositionOf(i)
            /\ i # n + 1 => done[i].status = StatusOf(i)
       /\ done[n + 1].status = IF result.ok THEN "DONE" ELSE "FAILED"
  BY <1>1, <1>3, <1>7, StepFinished
<1>15. ASSUME NEW i \in Nat \ {0}
       PROVE  StatusOf(i)' = IF i = n + 1 THEN IF result.ok THEN "DONE" ELSE "FAILED"
                             ELSE StatusOf(i)
  <2>1. CASE i = n + 1
    BY <1>4, <1>12, <2>1 DEF StatusOf
  <2>2. CASE i > n + 1
    BY <1>1, <1>4, <1>12, <2>2 DEF StatusOf
  <2>3. CASE i <= n /\ i > 0
    <3>1. results'[i] = results[i]
      BY <1>12, <2>3
    <3> QED
      BY <1>1, <1>4, <1>12, <2>3, <3>1 DEF StatusOf
  <2> QED
    BY <1>4, <2>1, <2>2, <2>3
<1>16. ResultsInv'
  <2>1. ASSUME NEW i \in 1 .. n + 1
        PROVE  results'[i].role = FullOrder[i] /\ (results'[i].role # "review" => ~results'[i].blockers)
    <3>1. CASE i = n + 1
      BY <1>4, <1>7, <1>12, <3>1
    <3>2. CASE i # n + 1
      <4>1. i \in 1 .. n /\ results'[i] = results[i]
        BY <1>4, <1>12, <3>2
      <4> QED
        BY <1>1, <4>1 DEF IInv, ResultsInv
    <3> QED
      BY <3>1, <3>2
  <2>2. ASSUME NEW i \in 1 .. n PROVE NextRole(results'[i]) = FullOrder[i + 1]
    <3>1. results'[i] = results[i]
      BY <1>12
    <3>2. CASE i = n
      BY <1>4, <3>1, <3>2
    <3>3. CASE i # n
      <4>1. i \in 1 .. n - 1
        BY <1>4, <3>3
      <4> QED
        BY <1>1, <3>1, <4>1 DEF IInv, ResultsInv
    <3> QED
      BY <3>2, <3>3
  <2>3. Len(results') - 1 = n /\ Len(results') <= Len(FullOrder)
    BY <1>4, <1>6, <1>12
  <2> QED
    BY <1>12, <1>13, <2>1, <2>2, <2>3 DEF ResultsInv
<1>17. ASSUME next \in {"review", "repair"}
       PROVE  /\ steps' \in Seq(Steps) /\ Len(steps') = n + 2
              /\ \A i \in 1 .. n + 1 : steps'[i] = done[i]
              /\ steps'[n + 2] = [role |-> next, position |-> PositionOf(n + 2),
                                  status |-> "PENDING"]
  <2>1. Len(done) = n + 1 /\ done # <<>>
    BY <1>4, <1>14, <1>17, <1>9
  <2>2. done[n + 1].position = PositionOf(n + 1)
    BY <1>4, <1>14
  <2>3. n + 1 >= Work
    BY <1>4, <1>6, <1>17, <1>9
  <2>4. NextPosition(done) = PositionOf(n + 2) /\ PositionOf(n + 2) \in Nat
    BY <1>4, <2>1, <2>2, <2>3 DEF NextPosition, PositionOf, Work
  <2>5. steps' = AddSteps(done, <<next>>) /\ next \in Roles
    BY <1>11, <1>17 DEF Roles
  <2>6. /\ AddSteps(done, <<next>>) \in Seq(Steps) /\ Len(AddSteps(done, <<next>>)) = Len(done) + 1
        /\ \A i \in 1 .. Len(done) : AddSteps(done, <<next>>)[i] = done[i]
        /\ AddSteps(done, <<next>>)[Len(done) + 1] =
                [role |-> next, position |-> NextPosition(done), status |-> "PENDING"]
    <3>1. done \in Seq(Steps) /\ next \in Roles /\ NextPosition(done) \in Nat
      BY <1>14, <2>4, <2>5
    <3> QED
      BY <3>1, OneStepAdded
  <2>7. (n + 1) + 1 = n + 2
    BY <1>4
  <2> QED
    BY <2>1, <2>4, <2>5, <2>6, <2>7
<1>18. ASSUME next \notin {"review", "repair"} PROVE steps' = done
  BY <1>11, <1>18
<1>19. StepsInv'
  <2>1. ASSUME NEW i \in 1 .. Len(steps')
        PROVE  /\ steps'[i].role = FullOrder[i] /\ steps'[i].position = PositionOf(i)
               /\ steps'[i].status = StatusOf(i)'
    <3>1. CASE next \notin {"review", "repair"}
      <4>1. i \in Nat \ {0} /\ i \in 1 .. Len(steps) /\ steps'[i] = done[i]
        BY <1>14, <1>18, <3>1
      <4> QED
        BY <1>14, <1>15, <4>1
    <3>2. CASE next \in {"review", "repair"} /\ i # n + 2
      <4>1. i \in Nat \ {0} /\ i \in 1 .. n + 1 /\ i \in 1 .. Len(steps) /\ steps'[i] = done[i]
        BY <1>4, <1>17, <3>2
      <4> QED
        BY <1>14, <1>15, <4>1
    <3>3. CASE next \in {"review", "repair"} /\ i = n + 2
      <4>1. steps'[i].role = next /\ steps'[i].position = PositionOf(i) /\ steps'[i].status = "PENDING"
        BY <1>17, <3>3
      <4>2. StatusOf(i)' = "PENDING"
        BY <1>4, <1>12, <3>3 DEF StatusOf
      <4> QED
        BY <1>10, <3>3, <4>1, <4>2
    <3> QED
      BY <3>1, <3>2, <3>3
  <2>2. steps' \in Seq(Steps) /\ Len(steps') <= Len(FullOrder) /\ n + 1 <= Len(steps')
    <3>1. CASE next \notin {"review", "repair"}
      BY <1>4, <1>6, <1>14, <1>18, <3>1
    <3>2. CASE next \in {"review", "repair"}
      <4>1. n + 2 <= Work + 2
        BY <1>10, <3>2
      <4> QED
        BY <1>4, <1>6, <1>17, <3>2, <4>1
    <3> QED
      BY <3>1, <3>2
  <2> QED
    BY <1>12, <1>13, <2>1, <2>2 DEF StepsInv
<1>20. PlaceInv'
  <2>1. results' # <<>> /\ results'[Len(results')] = result
    BY <1>4, <1>12
  <2>2. CASE next = "nobody"
    <3>1. OutcomeOf(result) = "ok" => role # "planner"
      BY <1>2, <1>7, <2>2, NextIs DEF OutcomeOf
    <3>2. OutcomeOf(result) = "ok" => Len(steps') = n + 1
      BY <1>4, <1>14, <1>18, <2>2, <3>1
    <3>3. OutcomeOf(result) \in {"ok", "failed"} /\ pc' = "ending" /\ outcome' = OutcomeOf(result)
      BY <1>11, <2>2 DEF OutcomeOf
    <3>4. NextRole(result)' = "nobody" /\ OutcomeOf(result)' = OutcomeOf(result)
      BY <1>2, <1>13, <2>2 DEF OutcomeOf
    <3> QED
      BY <1>2, <1>12, <1>13, <2>1, <2>2, <3>2, <3>3, <3>4 DEF PlaceInv, Working, OutcomeOf
  <2>3. CASE next # "nobody"
    <3>1. next # "planner" /\ Len(steps') = n + 2
      <4>1. CASE next = "worker"
        BY <1>14, <1>18, <1>9, <4>1
      <4>2. CASE next \in {"review", "repair"}
        BY <1>17, <4>2
      <4> QED
        BY <1>8, <2>3, <4>1, <4>2
    <3>2. pc' = "selecting" /\ outcome' = "none" /\ role' = next
      BY <1>4, <1>11, <2>3
    <3>3. role' = FullOrder[n + 2] /\ NextRole(result)' = role'
      BY <1>2, <1>13, <1>10, <2>3, <3>2
    <3>4. Len(results') + 1 = n + 2
      BY <1>4, <1>12
    <3> QED
      BY <1>13, <2>1, <3>1, <3>2, <3>3, <3>4 DEF PlaceInv, Working
  <2> QED
    BY <2>2, <2>3
<1>21. DecisionInv'
  BY <1>4, <1>11, <1>13 DEF IInv, DecisionInv
<1> QED
  BY <1>16, <1>19, <1>20, <1>21 DEF IInv

(* Steps that leave the results and the steps of the task alone. *)
LEMMA NothingNew ==
  ASSUME IInv, UNCHANGED <<decision, results, steps, role>>, PlaceInv', pc' = "over" \/ pc' = "gone"
         \/ decision.strategy \in {"SPECIALIST", "WORKFLOW"}
  PROVE  IInv'
<1>1. /\ FullOrder' = FullOrder /\ (IsWorkflow' <=> IsWorkflow)
      /\ \A i : PositionOf(i)' = PositionOf(i)
      /\ \A i : StatusOf(i)' = StatusOf(i)
      /\ \A x : NextRole(x)' = NextRole(x)
  BY DEF FullOrder, IsWorkflow, PositionOf, NextRole, StatusOf
<1>2. ResultsInv'
  BY <1>1 DEF IInv, ResultsInv
<1>3. StepsInv'
  BY <1>1 DEF IInv, StepsInv
<1> QED
  BY <1>1, <1>2, <1>3 DEF IInv, DecisionInv

LEMMA GotoKeeps ==
  ASSUME IInv, pc \in Working, NEW place \in Working, Goto(place)
  PROVE  IInv'
<1>1. /\ UNCHANGED <<decision, results, steps, role, row, outcome>> /\ pc' = place
      /\ decision.strategy \in {"SPECIALIST", "WORKFLOW"}
  BY DEF Goto, task, IInv, DecisionInv, Working
<1>2. PlaceInv'
  BY <1>1 DEF IInv, PlaceInv, Working, FullOrder, NextRole, OutcomeOf
<1> QED
  BY <1>1, <1>2, NothingNew

LEMMA BreaksKeeps ==
  ASSUME IInv, pc \in Working, NEW how \in {"failed", "cancelled"}, Breaks(how)
  PROVE  IInv'
<1>1. /\ UNCHANGED <<decision, results, steps, role, row>> /\ pc' = "ending" /\ outcome' = how
      /\ decision.strategy \in {"SPECIALIST", "WORKFLOW"}
  BY DEF Breaks, task, agent, IInv, DecisionInv, Working
<1>2. PlaceInv'
  BY <1>1 DEF PlaceInv, Working
<1> QED
  BY <1>1, <1>2, NothingNew

LEMMA StartKeeps ==
  ASSUME IInv, StartTask
  PROVE  IInv'
<1>1. /\ pc = "starting" /\ results = <<>> /\ steps = <<>> /\ outcome = "none"
      /\ UNCHANGED <<decision, results>>
      /\ decision.strategy \in {"SPECIALIST", "WORKFLOW"}
  BY DEF StartTask, IInv, PlaceInv, DecisionInv
<1>2. CASE UNCHANGED <<role, steps>> /\ pc' = "ending" /\ outcome' = "failed"
  <2>1. PlaceInv'
    BY <1>2 DEF PlaceInv, Working
  <2> QED
    BY <1>1, <1>2, <2>1, NothingNew
<1>3. CASE /\ steps' = AddSteps(<<>>, IF IsWorkflow THEN <<"planner", "worker">>
                                      ELSE <<"worker">>)
           /\ role' = steps'[1].role /\ pc' = "selecting" /\ UNCHANGED outcome
  <2> DEFINE first == [role |-> "planner", position |-> 0, status |-> "PENDING"]
             second == [role |-> "worker", position |-> 1, status |-> "PENDING"]
             only == [role |-> "worker", position |-> 0, status |-> "PENDING"]
  <2>1. steps' = IF IsWorkflow THEN <<first, second>> ELSE <<only>>
    BY <1>3, FirstSteps
  <2>2. /\ first \in Steps /\ second \in Steps /\ only \in Steps
        /\ first.role = "planner" /\ first.position = 0 /\ first.status = "PENDING"
        /\ second.role = "worker" /\ second.position = 1 /\ second.status = "PENDING"
        /\ only.role = "worker" /\ only.position = 0 /\ only.status = "PENDING"
    BY DEF Steps, Roles
  <2> HIDE DEF first, second, only
  <2>3. /\ FullOrder' = FullOrder /\ (IsWorkflow' <=> IsWorkflow)
        /\ \A i : PositionOf(i)' = PositionOf(i)
        /\ \A i : i \in 1 .. 2 => StatusOf(i)' = "PENDING"
        /\ results' = <<>>
    BY <1>1 DEF FullOrder, IsWorkflow, PositionOf, StatusOf
  <2>4. ResultsInv'
    BY <1>1, <2>3, PlaceOf DEF ResultsInv
  <2>5. /\ steps' \in Seq(Steps) /\ Len(steps') = IF IsWorkflow THEN 2 ELSE 1
        /\ \A i \in 1 .. Len(steps') :
            /\ steps'[i].role = FullOrder[i] /\ steps'[i].position = PositionOf(i)
            /\ steps'[i].status = "PENDING"
    <3>1. CASE IsWorkflow
      <4>1. steps' = <<first, second>>
        BY <2>1, <3>1
      <4>2. /\ steps' \in Seq(Steps) /\ Len(steps') = 2 /\ steps'[1] = first /\ steps'[2] = second
        BY <2>2, <4>1
      <4>3. PositionOf(1) = 0 /\ PositionOf(2) = 1
        BY <3>1 DEF PositionOf
      <4>4. \A i \in 1 .. Len(steps') : i = 1 \/ i = 2
        BY <4>2
      <4> QED
        BY <2>2, <3>1, <4>2, <4>3, <4>4, OrderIs
    <3>2. CASE ~IsWorkflow
      <4>1. steps' = <<only>>
        BY <2>1, <3>2
      <4>2. steps' \in Seq(Steps) /\ Len(steps') = 1 /\ steps'[1] = only
        BY <2>2, <4>1
      <4>3. PositionOf(1) = 0
        BY <3>2 DEF PositionOf
      <4>4. \A i \in 1 .. Len(steps') : i = 1
        BY <4>2
      <4> QED
        BY <2>2, <3>2, <4>2, <4>3, <4>4, OrderIs
    <3> QED
      BY <3>1, <3>2
  <2>6. StepsInv'
    BY <2>3, <2>5, PlaceOf DEF StepsInv
  <2>7. role' = FullOrder[1] /\ (role' = "planner" <=> IsWorkflow)
    <3>1. 1 \in 1 .. Len(steps') /\ 1 \in 1 .. Work + 2 /\ (1 = Work - 1 <=> IsWorkflow)
      BY <2>5 DEF Work
    <3> QED
      BY <1>3, <2>5, <3>1, PlaceOf
  <2>8. PlaceInv'
    BY <1>1, <1>3, <2>3, <2>5, <2>7 DEF PlaceInv, Working
  <2>9. DecisionInv'
    BY <1>1, <2>3 DEF IInv, DecisionInv
  <2> QED
    BY <2>4, <2>6, <2>8, <2>9 DEF IInv
<1> QED
  BY <1>2, <1>3 DEF StartTask, IsWorkflow

LEMMA ConcludeKeeps ==
  ASSUME IInv, Conclude
  PROVE  IInv'
<1>1. /\ UNCHANGED <<decision, results, steps, role, outcome>> /\ pc' = "over"
      /\ row' = StatusFor[outcome]
  BY DEF Conclude, agent
<1>2. PlaceInv'
  BY <1>1 DEF IInv, PlaceInv, Working, NextRole, OutcomeOf
<1> QED
  BY <1>1, <1>2, NothingNew

(* Who cancels or leaves changes the row of a run that is not over, or its place. *)
LEMMA OutsideKeeps ==
  ASSUME IInv, Signal \/ Mark \/ Disconnect
  PROVE  IInv'
<1>1. UNCHANGED <<decision, results, steps, role, outcome>>
  BY DEF Signal, Mark, Disconnect, agent, task
<1>2. pc' = pc \/ pc' = "gone"
  BY DEF Signal, Mark, Disconnect
<1>3. pc = "over" /\ outcome # "none" => row' = row
  <2>1. ASSUME pc = "over", outcome # "none", Mark PROVE FALSE
    <3>1. row = "RUNNING" /\ row = StatusFor[outcome]
      BY <2>1 DEF Mark, IInv, PlaceInv
    <3>2. outcome \in {"ok", "failed", "cancelled"}
      BY <2>1 DEF IInv, PlaceInv
    <3>3. \A o \in {"ok", "failed", "cancelled"} : StatusFor[o] # "RUNNING"
      BY DEF StatusFor
    <3> QED
      BY <3>1, <3>2, <3>3
  <2>2. Signal \/ Disconnect => row' = row
    BY DEF Signal, Disconnect, task
  <2> QED
    BY <2>1, <2>2
<1>4. PlaceInv'
  BY <1>1, <1>2, <1>3 DEF IInv, PlaceInv, Working, FullOrder, NextRole, OutcomeOf
<1> QED
  BY <1>1, <1>2, <1>4, NothingNew DEF IInv, DecisionInv

LEMMA StepKeeps == IInv /\ [Next]_vars => IInv'
<1> SUFFICES ASSUME IInv, [Next]_vars PROVE IInv'
  OBVIOUS
<1>1. CASE UNCHANGED vars
  <2>1. UNCHANGED <<decision, results, steps, role, row, outcome, pc>>
    BY <1>1 DEF vars
  <2>2. PlaceInv'
    BY <2>1 DEF IInv, PlaceInv, Working, FullOrder, NextRole, OutcomeOf
  <2> QED
    BY <2>1, <2>2, NothingNew DEF IInv, DecisionInv
<1>2. CASE SelectModel
  BY <1>2, ReturnsKeeps, BreaksKeeps, GotoKeeps DEF SelectModel, Stop, Working
<1>3. CASE Ask
  BY <1>3, BreaksKeeps, GotoKeeps DEF Ask, Stop, Working
<1>4. CASE Reply
  BY <1>4, ReturnsKeeps, BreaksKeeps, GotoKeeps DEF Reply, Finishes, Working
<1>5. CASE UseTool
  BY <1>5, ReturnsKeeps, BreaksKeeps, GotoKeeps DEF UseTool, NextRound, Finishes, Working
<1> QED
  BY <1>1, <1>2, <1>3, <1>4, <1>5, StartKeeps, ConcludeKeeps, OutsideKeeps
  DEF Next, Proceed, Rest

LEMMA Invariant == Spec => []IInv
BY InitHolds, StepKeeps, PTL DEF Spec

-----------------------------------------------------------------------------
(* Orchestrator._run_workflow: planner, worker, review and repair run in this   *)
(* order and each at most once, nothing follows a failure but a review's, a     *)
(* repair follows blockers only, and what ends well ends without blockers.      *)
THEOREM AlwaysInOrder == Spec => []RunsInOrder
<1>1. ASSUME IInv PROVE RunsInOrder
  <2>1. ASSUME NEW i \in 1 .. Len(results), i < Len(results), results[i].role # "review"
        PROVE  results[i].ok
    <3>1. NextRole(results[i]) = FullOrder[i + 1] /\ i + 1 \in 1 .. Len(FullOrder)
      BY <1>1, <2>1, PlaceOf DEF IInv, ResultsInv
    <3>2. NextRole(results[i]) # "nobody"
      BY <3>1, PlaceOf
    <3> QED
      BY <2>1, <3>2 DEF NextRole
  <2>2. ASSUME NEW i \in 1 .. Len(results), results[i].role = "repair"
        PROVE  results[i - 1].blockers
    <3>1. /\ results[i].role = FullOrder[i] /\ i \in 1 .. Len(FullOrder)
      BY <1>1, PlaceOf DEF IInv, ResultsInv
    <3>2. i - 1 \in 1 .. Len(results) - 1
      BY <2>2, <3>1, PlaceOf
    <3>3. NextRole(results[i - 1]) = "repair"
      BY <1>1, <2>2, <3>1, <3>2 DEF IInv, ResultsInv
    <3> QED
      BY <3>3 DEF NextRole
  <2>3. ASSUME outcome = "ok" PROVE ~results[Len(results)].blockers
    <3>1. Len(results) \in 1 .. Len(results) /\ NextRole(results[Len(results)]) = "nobody"
      BY <1>1, <2>3 DEF IInv, PlaceInv, ResultsInv
    <3>2. results[Len(results)].role # "review" => ~results[Len(results)].blockers
      BY <1>1, <3>1 DEF IInv, ResultsInv
    <3> QED
      BY <3>1, <3>2 DEF NextRole
  <2> QED
    BY <1>1, <2>1, <2>2, <2>3 DEF RunsInOrder, IInv, ResultsInv
<1> QED
  BY <1>1, Invariant, PTL

(* core/tasks.py, add_steps and update_step: whenever the page reads them, the   *)
(* steps by position are the agents in the order they ran, each with what came   *)
(* of it, those that have not run pending; for a specialist as for a workflow.   *)
THEOREM StepsAlwaysTellTheStory == Spec => []StepsTellTheStory
<1>1. ASSUME IInv PROVE StepsTellTheStory
  <2>1. /\ Len(steps) \in Nat /\ Len(results) \in Nat /\ Len(results) <= Len(steps)
        /\ \A i \in 1 .. Len(steps) : /\ steps[i].role = FullOrder[i]
                                      /\ steps[i].position = PositionOf(i)
                                      /\ steps[i].status = StatusOf(i)
        /\ \A i \in 1 .. Len(results) : results[i].role = FullOrder[i]
    BY <1>1 DEF IInv, StepsInv, ResultsInv
  <2>2. ASSUME NEW i \in 1 .. Len(steps) - 1
        PROVE  steps[i].position <= steps[i + 1].position
    BY <2>1 DEF PositionOf
  <2>3. ASSUME NEW i \in 1 .. Len(steps)
        PROVE  IF i <= Len(results)
               THEN /\ steps[i].role = results[i].role
                    /\ steps[i].status = IF results[i].ok THEN "DONE" ELSE "FAILED"
               ELSE steps[i].status = "PENDING"
    BY <2>1 DEF StatusOf
  <2> QED
    BY <2>1, <2>2, <2>3 DEF StepsTellTheStory
<1> QED
  BY <1>1, Invariant, PTL

(* Orchestrator.run: the task's last row is what the run returned, whoever    *)
(* cancelled meanwhile; DONE means that the last work went well, no step is   *)
(* left, and consequential work in a workflow has been reviewed.              *)
THEOREM DoneIsAlwaysEarned == Spec => []DoneIsEarned
<1>1. ASSUME IInv, pc = "over", outcome # "none"
      PROVE  /\ row = StatusFor[outcome]
             /\ outcome = "ok" =>
                /\ \A i \in 1 .. Len(steps) : steps[i].status # "PENDING"
                /\ \E i \in 1 .. Len(results) :
                    /\ results[i].role \in {"worker", "repair"} /\ results[i].ok
                    /\ \A j \in i + 1 .. Len(results) : results[j].role = "review"
                /\ decision.strategy = "WORKFLOW" /\ decision.critical =>
                    \E i \in 1 .. Len(results) : results[i].role = "review"
  <2>1. row = StatusFor[outcome]
    BY <1>1 DEF IInv, PlaceInv
  <2> SUFFICES ASSUME outcome = "ok"
               PROVE  /\ \A i \in 1 .. Len(steps) : steps[i].status # "PENDING"
                      /\ \E i \in 1 .. Len(results) :
                          /\ results[i].role \in {"worker", "repair"} /\ results[i].ok
                          /\ \A j \in i + 1 .. Len(results) : results[j].role = "review"
                      /\ decision.strategy = "WORKFLOW" /\ decision.critical =>
                          \E i \in 1 .. Len(results) : results[i].role = "review"
    BY <2>1
  <2> DEFINE n == Len(results)
             last == results[n]
  <2>2. /\ n \in Nat \ {0} /\ Len(steps) = n /\ OutcomeOf(last) = "ok" /\ NextRole(last) = "nobody"
        /\ n <= Len(FullOrder) /\ Len(FullOrder) \in Nat
        /\ \A i \in 1 .. n : results[i].role = FullOrder[i]
        /\ \A i \in 1 .. n - 1 : NextRole(results[i]) = FullOrder[i + 1]
    BY <1>1, PlaceOf DEF IInv, PlaceInv, ResultsInv
  <2>3. \A i \in 1 .. Len(steps) : steps[i].status # "PENDING"
    BY <1>1, <2>2 DEF IInv, StepsInv, StatusOf
  <2>4. last.role = FullOrder[n] /\ last.role # "planner"
    BY <2>2, PlaceOf DEF OutcomeOf, NextRole
  <2>5. CASE last.role = "review"
    <3>1. n - 1 \in 1 .. n - 1 /\ FullOrder[n - 1] = "worker"
      BY <2>2, <2>4, <2>5, PlaceOf
    <3>2. results[n - 1].role = "worker" /\ results[n - 1].ok
      BY <2>2, <2>4, <2>5, <3>1 DEF NextRole
    <3> QED
      BY <2>2, <2>3, <2>5, <3>1, <3>2
  <2>6. CASE last.role # "review"
    <3>1. last.role \in {"worker", "repair"} /\ last.ok
      BY <2>2, <2>4, <2>6, PlaceOf DEF OutcomeOf
    <3>2. ASSUME decision.strategy = "WORKFLOW", decision.critical
          PROVE  \E i \in 1 .. n : results[i].role = "review"
      <4>1. decision.review
        BY <1>1, <3>2 DEF IInv, DecisionInv, IsWorkflow
      <4>2. last.role = "repair"
        BY <2>2, <3>1, <4>1 DEF NextRole
      <4>3. n = Work + 2 /\ Work + 1 \in 1 .. n /\ FullOrder[Work + 1] = "review"
        BY <2>2, <2>4, <4>2, PlaceOf
      <4> QED
        BY <2>2, <4>3
    <3> QED
      BY <2>2, <2>3, <3>1, <3>2
  <2> QED
    BY <2>5, <2>6
<1>2. IInv => DoneIsEarned
  BY <1>1 DEF DoneIsEarned
<1> QED
  BY <1>2, Invariant, PTL

(* What a cancellation leaves to happen, when it finds this agent in this round. *)
StillMay(r, k) ==
    /\ cancelled /\ pc # "starting"
    /\ pc \in {"asking", "using"} => role = r /\ round = k
    /\ pc = "thinking" => role = r
    /\ pc \in {"ending", "over"} => \/ role = r
                                    \/ outcome = "cancelled"
                                    \/ outcome = "failed" /\ IsIdleResearch

LEMMA StillMayNext ==
  ASSUME NEW r, NEW k
  PROVE  StillMay(r, k) /\ [Next]_vars => StillMay(r, k)'
<1> SUFFICES ASSUME StillMay(r, k), [Next]_vars PROVE StillMay(r, k)'
  OBVIOUS
<1>1. ASSUME NEW result, Returns(result), role = r PROVE StillMay(r, k)'
  <2>1. cancelled /\ cancelled' = cancelled
    BY <1>1 DEF Returns, StillMay
  <2>2. pc' = "selecting" \/ (pc' = "ending" /\ role' = role)
    BY <1>1 DEF Returns, Begin
  <2>3. pc' \notin {"starting", "asking", "using", "thinking"} /\ (pc' \in {"ending", "over"} => role' = r)
    BY <1>1, <2>2
  <2> QED
    BY <2>1, <2>3 DEF StillMay
<1>2. ASSUME NEW how, Breaks(how), role = r \/ how = "cancelled" PROVE StillMay(r, k)'
  <2>1. cancelled /\ cancelled' = cancelled
    BY <1>2 DEF Breaks, StillMay
  <2>2. pc' = "ending" /\ role' = role /\ outcome' = how
    BY <1>2 DEF Breaks, agent
  <2>3. pc' \notin {"starting", "asking", "using", "thinking"} /\ (role' = r \/ outcome' = "cancelled")
    BY <1>2, <2>2
  <2> QED
    BY <2>1, <2>3 DEF StillMay
<1>3. ASSUME SelectModel PROVE StillMay(r, k)'
  <2>1. CASE IsIdleResearch
    <3>1. Returns(Failed(role)) /\ role \in {"worker", "repair"}
      BY <1>3, <2>1 DEF SelectModel, IsIdleResearch
    <3>2. NextRole(Failed(role)) = "nobody" /\ OutcomeOf(Failed(role)) = "failed"
      BY <3>1 DEF NextRole, OutcomeOf, Failed
    <3>3. pc' = "ending" /\ outcome' = "failed" /\ UNCHANGED <<role, decision, webDenied, cancelled>>
      BY <3>1, <3>2 DEF Returns
    <3> QED
      BY <2>1, <3>3 DEF StillMay, IsIdleResearch
  <2>2. CASE ~IsIdleResearch
    BY <1>2, <1>3, <2>2 DEF SelectModel, StillMay, Stop
  <2> QED
    BY <2>1, <2>2
<1>4. ASSUME Ask PROVE StillMay(r, k)'
  BY <1>2, <1>4 DEF Ask, StillMay, Stop
<1>5. ASSUME Reply PROVE StillMay(r, k)'
  <2>1. pc = "asking" /\ role = r
    BY <1>5 DEF Reply, StillMay
  <2>2. CASE Goto("using") /\ UNCHANGED round
    BY <2>1, <2>2 DEF Goto, StillMay, task
  <2> QED
    BY <1>1, <1>2, <1>5, <2>1, <2>2 DEF Reply, Finishes
<1>6. ASSUME UseTool PROVE StillMay(r, k)'
  <2>1. pc = "using" /\ role = r
    BY <1>6 DEF UseTool, StillMay
  <2>2. CASE Goto("using") /\ UNCHANGED round
    BY <2>1, <2>2 DEF Goto, StillMay, task
  <2>3. CASE NextRound
    BY <2>1, <2>3 DEF NextRound, Goto, StillMay, task
  <2> QED
    BY <1>1, <1>2, <1>6, <2>1, <2>2, <2>3 DEF UseTool, Finishes
<1>7. ASSUME Conclude \/ Signal \/ Mark \/ Disconnect PROVE StillMay(r, k)'
  BY <1>7 DEF Conclude, Signal, Mark, Disconnect, StillMay, IsIdleResearch, agent
<1>8. ASSUME UNCHANGED vars PROVE StillMay(r, k)'
  BY <1>8 DEF vars, StillMay, IsIdleResearch
<1>9. ~StartTask
  BY DEF StartTask, StillMay
<1> QED
  BY <1>3, <1>4, <1>5, <1>6, <1>7, <1>8, <1>9 DEF Next, Proceed, Rest

(* check_cancelled and what becomes of the exception it raises: a cancelled run  *)
(* gets no further than the round in which the cancellation found it, and nobody *)
(* takes the cancellation of a later agent for its result.                       *)
THEOREM CancelledNeverGoesOn == Spec => CancelledGoesNoFurther
<1> SUFFICES ASSUME NEW r \in Roles, NEW k \in 0 .. MAX_TOOL_ROUNDS
             PROVE  Spec =>
                [](cancelled /\ pc \in Working /\ role = r /\ round = k
                    => [](/\ pc \in {"asking", "using"} => role = r /\ round = k
                          /\ pc = "over" => \/ role = r
                                            \/ outcome = "cancelled"
                                            \/ outcome = "failed" /\ IsIdleResearch))
  BY DEF CancelledGoesNoFurther
<1>1. cancelled /\ pc \in Working /\ role = r /\ round = k => StillMay(r, k)
  BY DEF StillMay, Working
<1>2. StillMay(r, k) =>
        /\ pc \in {"asking", "using"} => role = r /\ round = k
        /\ pc = "over" => \/ role = r
                          \/ outcome = "cancelled"
                          \/ outcome = "failed" /\ IsIdleResearch
  BY DEF StillMay
<1> QED
  BY <1>1, <1>2, StillMayNext, PTL DEF Spec
=============================================================================
