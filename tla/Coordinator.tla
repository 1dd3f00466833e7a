------------------------------ MODULE Coordinator ------------------------------
(***************************************************************************)
(* agents/coordinator.py: which machinery a message deserves.  A message   *)
(* is its intent and what the wording patterns find in it.                 *)
(***************************************************************************)

SpecialistFor ==
    [WEB_RESEARCH |-> "research", CODING_TASK |-> "coding", SCREEN_ACTION |-> "computer",
     DAYZ_ACTION |-> "dayz", DISCORD_ACTION |-> "discord", GITHUB_ACTION |-> "github"]

SingleToolIntents ==
    {"REMINDER", "MEMORY_ACTION", "SYSTEM_ACTION", "CALENDAR_ACTION", "EMAIL_ACTION",
     "SMART_HOME_ACTION", "FILE_TASK"}

Intents ==
    {"CONVERSATION", "QUESTION", "MULTI_STEP_TASK"} \cup SingleToolIntents \cup DOMAIN SpecialistFor

Messages ==
    [kind : Intents, multi : BOOLEAN, critical : BOOLEAN, launch : BOOLEAN, tools : BOOLEAN,
     reviewOn : BOOLEAN]

(* The worker is the agent that does the work: the executor of a workflow is *)
(* the first of its agents that neither plans nor reviews.                   *)
Decisions ==
    [strategy : {"DIRECT", "SINGLE_TOOL", "SPECIALIST", "WORKFLOW"},
     worker : {"", "executor"} \cup {SpecialistFor[k] : k \in DOMAIN SpecialistFor},
     review : BOOLEAN, critical : BOOLEAN]

IsMultiStep(m) == m.multi \/ m.kind = "MULTI_STEP_TASK"

(* Small talk and questions of knowledge, whatever their length. *)
IsTalk(m) == m.kind \in {"CONVERSATION", "QUESTION"} /\ ~IsMultiStep(m) /\ ~m.critical

(* Mutated form: consequential work is reviewed only when reviews are switched on. *)
WorkflowReviewIfOn(m) == m.reviewOn

WorkflowReview(m) == m.reviewOn \/ m.critical

Decide(m) ==
    LET to(strategy, worker, review) ==
            [strategy |-> strategy, worker |-> worker, review |-> review,
             critical |-> m.critical]
    IN  IF IsTalk(m) \/ ~m.tools THEN to("DIRECT", "", FALSE)
        ELSE IF m.launch THEN to("SINGLE_TOOL", "", FALSE)
        ELSE IF IsMultiStep(m)
             THEN to("WORKFLOW", IF m.kind = "CODING_TASK" THEN "coding" ELSE "executor",
                     WorkflowReview(m))
        ELSE IF m.kind \in DOMAIN SpecialistFor
             THEN to("SPECIALIST", SpecialistFor[m.kind], m.critical /\ m.reviewOn)
        ELSE IF m.kind \in SingleToolIntents THEN to("SINGLE_TOOL", "", FALSE)
        ELSE IF m.critical THEN to("WORKFLOW", "executor", TRUE)
        ELSE to("DIRECT", "", FALSE)
=============================================================================
