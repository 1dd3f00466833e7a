---------------------------- MODULE CommandClass ----------------------------
(***************************************************************************)
(* classify_command of tools/terminal.py: the class of a command line, out *)
(* of those of its stages.  A line is the sequence of its stages, with     *)
(* whether it goes on after the last one (an operator with nothing behind  *)
(* it) and whether one of the dangerous patterns is found across stages;   *)
(* each table of programs is represented by some of its members.           *)
(***************************************************************************)
EXTENDS Policy, Sequences

CLASS_ORDER ==
    [READ_ONLY |-> 0, WRITE |-> 1, SYSTEM |-> 2, DESTRUCTIVE |-> 3, ADMIN |-> 4]

CommandClasses == DOMAIN CLASS_ORDER

READ_ONLY_COMMANDS == {"ls", "git", "python"}
WRITE_COMMANDS == {"cp"}
DESTRUCTIVE_COMMANDS == {"rm"}
SYSTEM_COMMANDS == {"kill"}
ADMIN_COMMANDS == {"sudo"}

(* Programs with some subcommands that write, and those that run scripts. *)
WRITING_SUBCOMMANDS == [program \in {"git"} |-> {"commit"}]
Interpreters == {"python"}

(* program is "" where only variables are set; argument is the first that  *)
(* is no option.  pattern says which dangerous pattern the stage's own     *)
(* text holds: one that is found anywhere in a line, or the one that must  *)
(* end it (a deletion of the root, whose "/" is an argument).              *)
Programs ==
    READ_ONLY_COMMANDS \cup WRITE_COMMANDS \cup DESTRUCTIVE_COMMANDS \cup SYSTEM_COMMANDS
        \cup ADMIN_COMMANDS \cup {"", "anything"}

Arguments == {"", "commit", "status"}

Patterns == {"none", "anywhere", "at_end"}

Stages ==
    {s \in [program : Programs, argument : Arguments, redirected : BOOLEAN, pattern : Patterns] :
        /\ s.program = "" => s.argument = ""
        /\ s.pattern = "at_end" => s.argument # ""}

CLASS_RISK ==
    [READ_ONLY |-> "SAFE_READ", WRITE |-> "WRITE", SYSTEM |-> "SYSTEM_CONTROL",
     DESTRUCTIVE |-> "DESTRUCTIVE", ADMIN |-> "PRIVILEGED"]

CLASS_CAPABILITY ==
    [c \in CommandClasses |->
        CASE c = "READ_ONLY" -> "TERMINAL_READ"
          [] c = "ADMIN" -> "TERMINAL_ADMIN"
          [] OTHER -> "TERMINAL_WRITE"]

(* A read-only program that is told to write, or to run a script. *)
IsToldToWrite(stage) ==
    \/ stage.program \in DOMAIN WRITING_SUBCOMMANDS
           /\ stage.argument \in WRITING_SUBCOMMANDS[stage.program]
    \/ stage.program \in Interpreters /\ stage.argument # ""

(* _classify_segment *)
SegmentClass(stage) ==
    CASE stage.program \in ADMIN_COMMANDS -> "ADMIN"
      [] stage.program \in DESTRUCTIVE_COMMANDS -> "DESTRUCTIVE"
      [] stage.program \in SYSTEM_COMMANDS -> "SYSTEM"
      [] stage.program \in READ_ONLY_COMMANDS /\ ~IsToldToWrite(stage) -> "READ_ONLY"
      [] OTHER -> "WRITE"

(* Is the i-th stage what the line ends with? *)
EndsTheLine(line, i) == i = Len(line.stages) /\ ~line.open

(* The patterns are searched in the text of the whole line. *)
IsDangerous(line) ==
    \/ line.spanning
    \/ \E i \in DOMAIN line.stages :
          \/ line.stages[i].pattern = "anywhere"
          \/ line.stages[i].pattern = "at_end" /\ EndsTheLine(line, i)

(* Whether the line is dangerous as a whole, and whether a stage's output is *)
(* redirected into a file, counts like a class of its own.                   *)
OfItself(line) ==
    {IF IsDangerous(line) THEN "DESTRUCTIVE" ELSE "READ_ONLY"}
        \cup {"WRITE" : i \in {j \in DOMAIN line.stages : line.stages[j].redirected}}

(* Mutated form: what stands behind the first operator is not looked at. *)
ClassesInFirst(line) ==
    OfItself(line) \cup {SegmentClass(line.stages[i]) : i \in DOMAIN line.stages \cap {1}}

ClassesIn(line) == OfItself(line) \cup {SegmentClass(line.stages[i]) : i \in DOMAIN line.stages}

Worst(classes) == CHOOSE c \in classes : \A d \in classes : CLASS_ORDER[d] <= CLASS_ORDER[c]

ClassOf(line) == Worst(ClassesIn(line))

(* risk_for and the engine: value has the setting of each capability. *)
DecisionOn(line, value, level) ==
    LET class == ClassOf(line)
    IN Evaluate(FALSE, value[CLASS_CAPABILITY[class]], level, CLASS_RISK[class], FALSE)
=============================================================================
