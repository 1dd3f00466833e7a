----------------------------- MODULE AgentWorkflow -----------------------------
(***************************************************************************)
(* agents/orchestrator.py with agents/base.py and the four agents: one run *)
(* of the strategy the coordinator chose, its task's row and steps, and    *)
(* somebody who cancels the task meanwhile.                                *)
(*                                                                         *)
(* A step goes from one await to the next at which a cancellation matters: *)
(* the choice of a model, a request, a tool.  What TaskManager models in   *)
(* single statements (create, start, cancel) is one step here.             *)
(***************************************************************************)
EXTENDS Integers, Sequences, Coordinator

CONSTANTS
    MAX_TOOL_ROUNDS,
    MaxCalls             \* tool calls per round, a bound on the models

ASSUME WorkflowAssumption == {MAX_TOOL_ROUNDS, MaxCalls} \subseteq Nat \ {0}

VARIABLES
    decision,
    webDenied,           \* is WEB_SEARCH denied in the settings?
    pc,
    role,                \* whose agent runs
    round,
    pending,             \* tool calls of the round still to be made
    results,             \* WorkflowResult.steps
    steps,               \* rows of task_steps, by id
    row,                 \* tasks.status
    progress,            \* tasks.progress as <<done, total>>
    cancelled,           \* is the task's event set?
    outcome              \* what run returns

vars == <<decision, webDenied, pc, role, round, pending, results, steps, row, progress,
          cancelled, outcome>>

agent == <<role, round, pending>>
task == <<steps, row, progress>>

Roles == {"planner", "worker", "review", "repair"}
Working == {"selecting", "thinking", "asking", "using"}
Stopped == {"over", "gone"}

Results == [role : Roles, ok : BOOLEAN, blockers : BOOLEAN]

TypeOK ==
    /\ decision \in Decisions
    /\ webDenied \in BOOLEAN
    /\ pc \in {"starting", "ending"} \cup Working \cup Stopped
    /\ role \in Roles
    /\ round \in 0 .. MAX_TOOL_ROUNDS
    /\ pending \in 0 .. MaxCalls
    /\ results \in Seq(Results)
    /\ steps \in Seq([role : Roles, position : Nat, status : {"PENDING", "DONE", "FAILED"}])
    /\ row \in {"NONE", "RUNNING", "DONE", "FAILED", "CANCELLED"}
    /\ progress \in Nat \X Nat /\ progress[1] <= progress[2]
    /\ cancelled \in BOOLEAN
    /\ outcome \in {"none", "ok", "failed", "cancelled"}

(* A direct answer and a single tool call start no agent and no task. *)
Init ==
    /\ decision \in {Decide(m) : m \in Messages}
    /\ webDenied \in BOOLEAN
    /\ pc = IF decision.strategy \in {"SPECIALIST", "WORKFLOW"} THEN "starting" ELSE "over"
    /\ role = "planner"
    /\ round = 0 /\ pending = 0
    /\ results = <<>>
    /\ steps = <<>>
    /\ row = "NONE"
    /\ progress = <<0, 0>>
    /\ cancelled = FALSE
    /\ outcome = "none"

-----------------------------------------------------------------------------
(* core/tasks.py: the steps of the task. *)

(* Mutated form: the numbers begin again with every call. *)
NextPositionZero(s) == 0

(* int(existing or -1) + 1: after exactly one step, whose position is 0, *)
(* the next is 0 again.                                                  *)
NextPosition(s) ==
    LET last == IF s = <<>> THEN -1 ELSE s[Len(s)].position
    IN  (IF last = 0 THEN -1 ELSE last) + 1

AddSteps(s, roles) ==
    s \o [i \in 1 .. Len(roles) |->
            [role |-> roles[i], position |-> NextPosition(s) + i - 1, status |-> "PENDING"]]

FinishStep(s, result) ==
    [i \in 1 .. Len(s) |->
        IF s[i].role = result.role
        THEN [s[i] EXCEPT !.status = IF result.ok THEN "DONE" ELSE "FAILED"] ELSE s[i]]

Progress(s) == <<Len(SelectSeq(s, LAMBDA x : x.status = "DONE")), Len(s)>>

-----------------------------------------------------------------------------
(* What becomes of an agent's last answer. *)

Succeeded(r) == [role |-> r, ok |-> TRUE, blockers |-> FALSE]
Failed(r) == [role |-> r, ok |-> FALSE, blockers |-> FALSE]

Replies == [verdict : {"ok", "needs_changes", "rejected", "other"},
            issues : SUBSET {"blocker", "major"}]

(* A review that cannot be read has no issues and no known verdict. *)
Unreadable == [verdict |-> "other", issues |-> {}]

(* parse_review.  An unknown verdict is taken from the issues. *)
ParseReview(reply) ==
    LET blockers == "blocker" \in reply.issues
        stated == IF reply.verdict # "other" THEN reply.verdict
                  ELSE IF reply.issues # {} THEN "needs_changes" ELSE "ok"
        verdict == IF blockers /\ stated = "ok" THEN "needs_changes" ELSE stated
    IN  [role |-> "review", ok |-> verdict # "rejected", blockers |-> blockers]

(* A plan without steps is a failure of the planner. *)
ResultsOf(r) ==
    CASE r = "planner" -> {Succeeded(r), Failed(r)}
      [] r = "review"  -> {ParseReview(reply) : reply \in Replies \cup {Unreadable}}
      [] OTHER         -> {Succeeded(r)}

(* JSON whose "plan" or "issues" is not a list raises, outside the handlers *)
(* of Agent.run.                                                            *)
MayBeMalformed(r) == r \in {"planner", "review"}

-----------------------------------------------------------------------------
(* How the orchestrator goes on after a result; with nobody it ends. *)

(* Mutated form: a review that asks for a repair is followed by another review. *)
NextRoleReviewingAgain(result) ==
    CASE result.role = "planner" /\ result.ok   -> "worker"
      [] result.role \in {"worker", "repair"} /\ result.ok /\ decision.review -> "review"
      [] result.role = "review" /\ result.blockers -> "repair"
      [] OTHER -> "nobody"

NextRole(result) ==
    CASE result.role = "planner" /\ result.ok   -> "worker"
      [] result.role = "worker" /\ result.ok /\ decision.review -> "review"
      [] result.role = "review" /\ result.blockers -> "repair"
      [] OTHER -> "nobody"

(* A review only decides whether there is a repair; a failed one decides nothing. *)
OutcomeOf(result) == IF result.ok \/ result.role = "review" THEN "ok" ELSE "failed"

(* The steps of the plan and of its execution were added together. *)
Begin(r, s) ==
    /\ role' = r
    /\ steps' = IF r \in {"review", "repair"} THEN AddSteps(s, <<r>>) ELSE s
    /\ pc' = "selecting"

Returns(result) ==
    LET finished == FinishStep(steps, result)
        next == NextRole(result)
    IN  /\ results' = Append(results, result)
        /\ IF next = "nobody"
           THEN /\ pc' = "ending" /\ outcome' = OutcomeOf(result)
                /\ steps' = finished
                /\ UNCHANGED role
           ELSE Begin(next, finished) /\ UNCHANGED outcome
        /\ progress' = Progress(steps')
        /\ round' = 0 /\ pending' = 0
        /\ UNCHANGED <<decision, webDenied, row, cancelled>>

(* An exception ends the run, with whatever steps there are. *)
Breaks(how) ==
    /\ pc' = "ending" /\ outcome' = how
    /\ UNCHANGED <<decision, webDenied, agent, results, task, cancelled>>

Finishes == \E result \in ResultsOf(role) : Returns(result)

Goto(place) ==
    /\ pc' = place
    /\ UNCHANGED <<decision, webDenied, results, task, cancelled, outcome, role>>

-----------------------------------------------------------------------------
BuiltIn == {"planner", "coding", "executor", "research", "review"}

(* create and start; a specialist nobody registered fails without a step. *)
StartTask ==
    /\ pc = "starting"
    /\ row' = "RUNNING"
    /\ IF decision.worker \notin BuiltIn
       THEN pc' = "ending" /\ outcome' = "failed" /\ UNCHANGED <<role, steps, progress>>
       ELSE /\ steps' = AddSteps(<<>>, IF decision.strategy = "WORKFLOW"
                                       THEN <<"planner", "worker">> ELSE <<"worker">>)
            /\ role' = steps'[1].role
            /\ progress' = Progress(steps')
            /\ pc' = "selecting"
            /\ UNCHANGED outcome
    /\ UNCHANGED <<decision, webDenied, round, pending, results, cancelled>>

(* Mutated form: Agent.run takes a cancellation for an error like any other. *)
StopAsFailure == Returns(Failed(role))

(* Cancelled is handed on, from check_cancelled to Orchestrator.run. *)
Stop == Breaks("cancelled")

(* The research agent gives up without web tools, before it looks at the event. *)
IsIdleResearch == role \in {"worker", "repair"} /\ decision.worker = "research" /\ webDenied

SelectModel ==
    /\ pc = "selecting"
    /\ IF IsIdleResearch THEN Returns(Failed(role))
       ELSE IF cancelled THEN Stop
       ELSE \/ Goto("thinking") /\ round' = 1 /\ UNCHANGED pending
            \/ Returns(Failed(role))

Ask ==
    /\ pc = "thinking"
    /\ IF cancelled THEN Stop
       ELSE Goto("asking") /\ UNCHANGED <<round, pending>>

Reply ==
    /\ pc = "asking"
    /\ \/ Finishes
       \/ MayBeMalformed(role) /\ Breaks("failed")
       \/ Returns(Failed(role))
       \/ Goto("using") /\ pending' \in 1 .. MaxCalls /\ UNCHANGED round

(* Mutated form: rounds are not counted. *)
NextRoundUncounted == Goto("thinking") /\ UNCHANGED round /\ pending' = 0

NextRound == Goto("thinking") /\ round' = round + 1 /\ pending' = 0

(* A tool's failure is a result like any other, but the name of a tool that  *)
(* does not exist fails the agent.  After the last round the agent ends with *)
(* what it has, and with a note.                                             *)
UseTool ==
    /\ pc = "using"
    /\ \/ pending > 1 /\ Goto("using") /\ pending' = pending - 1 /\ UNCHANGED round
       \/ pending = 1 /\ round < MAX_TOOL_ROUNDS /\ NextRound
       \/ pending = 1 /\ round = MAX_TOOL_ROUNDS /\ Finishes
       \/ pending = 1 /\ round = MAX_TOOL_ROUNDS /\ MayBeMalformed(role) /\ Breaks("failed")
       \/ Returns(Failed(role))

StatusFor == [ok |-> "DONE", failed |-> "FAILED", cancelled |-> "CANCELLED"]

(* complete and fail write over a cancelled row; cancel leaves a final one. *)
Conclude ==
    /\ pc = "ending"
    /\ pc' = "over"
    /\ row' = StatusFor[outcome]
    /\ progress' = IF outcome = "ok" THEN <<1, 1>> ELSE progress
    /\ UNCHANGED <<decision, webDenied, agent, results, steps, cancelled, outcome>>

-----------------------------------------------------------------------------
(* The cancel endpoint and the stop set the event, and mark the row later. *)
Signal ==
    /\ row = "RUNNING" /\ ~cancelled
    /\ cancelled' = TRUE
    /\ UNCHANGED <<decision, webDenied, pc, agent, results, task, outcome>>

Mark ==
    /\ row = "RUNNING" /\ cancelled
    /\ row' = "CANCELLED"
    /\ UNCHANGED <<decision, webDenied, pc, agent, results, steps, progress, cancelled, outcome>>

(* The turn's coroutine is cancelled with its client: nothing is tidied up. *)
Disconnect ==
    /\ pc \notin Stopped
    /\ pc' = "gone"
    /\ UNCHANGED <<decision, webDenied, agent, results, task, cancelled, outcome>>

Proceed == StartTask \/ SelectModel \/ Ask \/ Reply \/ UseTool \/ Conclude

Rest == pc \in Stopped /\ UNCHANGED vars

Next == Proceed \/ Signal \/ Mark \/ Disconnect \/ Rest

Spec == Init /\ [][Next]_vars

(* Model calls and tools have time limits; nobody needs to cancel or leave. *)
FairSpec == Spec /\ WF_vars(Proceed)

-----------------------------------------------------------------------------
(* agents/orchestrator.py: "The workflow stops at the first hard failure     *)
(* rather than carrying a broken result forward, and a review that finds     *)
(* blockers triggers exactly one repair attempt".  Said of the results as a  *)
(* whole: planner, worker, review, repair in this order, each at most once.  *)
FullOrder == IF decision.strategy = "WORKFLOW"
             THEN <<"planner", "worker", "review", "repair">> ELSE <<"worker", "review", "repair">>

RunsInOrder ==
    /\ Len(results) <= Len(FullOrder)
    /\ \A i \in 1 .. Len(results) :
        /\ results[i].role = FullOrder[i]
        /\ i < Len(results) /\ results[i].role # "review" => results[i].ok
        /\ results[i].role = "repair" => results[i - 1].blockers
    /\ pc = "over" /\ outcome = "ok" => ~results[Len(results)].blockers

(* core/tasks.py, add_steps, update_step: the steps in the order the page shows *)
(* them (by position, then id) are the agents in the order they ran, with what  *)
(* came of each, and what has not run is pending.                               *)
StepsTellTheStory ==
    /\ \A i \in 1 .. Len(steps) - 1 : steps[i].position <= steps[i + 1].position
    /\ Len(results) <= Len(steps)
    /\ \A i \in 1 .. Len(steps) :
        IF i <= Len(results)
        THEN /\ steps[i].role = results[i].role
             /\ steps[i].status = IF results[i].ok THEN "DONE" ELSE "FAILED"
        ELSE steps[i].status = "PENDING"

(* Orchestrator.run: the row says what the run returns, and a task is DONE only *)
(* when the last work went well and no step is left over; a consequential       *)
(* workflow is not DONE without a review (coordinator.py: "a plan and a review  *)
(* rather than a single unchecked shot").                                       *)
DoneIsEarned ==
    pc = "over" /\ outcome # "none" =>
        /\ row = StatusFor[outcome]
        /\ outcome = "ok" =>
            /\ \A i \in 1 .. Len(steps) : steps[i].status # "PENDING"
            /\ \E i \in 1 .. Len(results) :
                /\ results[i].role \in {"worker", "repair"} /\ results[i].ok
                /\ \A j \in i + 1 .. Len(results) : results[j].role = "review"
            /\ decision.strategy = "WORKFLOW" /\ decision.critical =>
                \E i \in 1 .. Len(results) : results[i].role = "review"

(* check_cancelled, Agent.run and Orchestrator.run: what a cancellation still *)
(* lets happen.  The agent at work ends the round it is in; it begins no      *)
(* other, and nobody after it asks a model or uses a tool.  The run is then   *)
(* reported as cancelled, unless that agent's own end was the end of the run, *)
(* or the research agent gave up before it looked at the event.               *)
CancelledGoesNoFurther ==
    \A r \in Roles, k \in 0 .. MAX_TOOL_ROUNDS :
        [](cancelled /\ pc \in Working /\ role = r /\ round = k
            => [](/\ pc \in {"asking", "using"} => role = r /\ round = k
                  /\ pc = "over" => \/ role = r
                                    \/ outcome = "cancelled"
                                    \/ outcome = "failed" /\ IsIdleResearch))

(* MAX_TOOL_ROUNDS, MAX_REPAIR_ROUNDS: models that ask for tools for ever, a   *)
(* reviewer that is never content: the run ends and leaves no task RUNNING.    *)
RunEnds == pc = "starting" ~> (pc = "gone" \/ (pc = "over" /\ row # "RUNNING"))
=============================================================================
