------------------------------ MODULE MCTables ------------------------------
(* A calendar of eight months from January, with summer time from 29 March *)
(* to 24 May, in days of six slots; the clocks change by two of them.       *)
EXTENDS Tables

MCMonthStart == <<0, 31, 59, 90, 120, 151, 181, 212, 243>>

MCDays == 25 .. 32 \cup 56 .. 61 \cup 86 .. 91 \cup 117 .. 121 \cup 141 .. 152

MCDelays == 0 .. 7 \cup {12, 13, 19, 42, 43, 90, 167, 168, 175, 180}

MCRowRules ==
    {Rule("one_time", 0, {}, 0), Rule("daily", 0, {}, 0), Rule("daily", 12, {}, 0),
     Rule("daily", 18, {}, 0), Rule("weekly", 0, {}, 0), Rule("weekly", 0, {2}, 0),
     Rule("weekly", 0, {0, 3, 6}, 0), Rule("weekly", 84, {}, 0),
     Rule("monthly", 0, {}, 0), Rule("monthly", 0, {}, 31),
     Rule("interval", 1, {}, 0), Rule("interval", 4, {}, 0), Rule("interval", 30, {}, 0)}

(* Lines of each stage, of two and of three of a few. *)
Some ==
    {stage \in Stages : stage.program \in {"", "ls", "rm", "git", "sudo"} /\
                        (stage.argument = "commit" => stage.program = "git")}

Few ==
    {stage \in Stages : stage.program \in {"ls", "rm"} /\ stage.argument = "status" /\
                        (stage.redirected => stage.pattern = "none")}

MCLines ==
    [stages : UNION {[1 .. n -> Stages] : n \in 0 .. 1}, open : BOOLEAN, spanning : {FALSE}]
        \cup [stages : [1 .. 2 -> Some], open : {FALSE}, spanning : BOOLEAN]
        \cup [stages : [1 .. 3 -> Few], open : BOOLEAN, spanning : BOOLEAN]

Terminal(read, write, admin) ==
    [TERMINAL_READ |-> read, TERMINAL_WRITE |-> write, TERMINAL_ADMIN |-> admin]

MCTerminalSettings ==
    {Terminal("ALLOW", "ALLOW", "ALLOW"), Terminal("ALLOW", "ALLOW", "DENY"),
     Terminal("ALLOW", "ASK", "ASK"), Terminal("ASK", "DENY", "DENY")}

(* Four messages, one every 0, 1, 2 or 4 of the engine's seconds. *)
MCOffers ==
    LET kinds == {<<"a", NORMAL>>, <<"b", NORMAL>>, <<"c", IMPORTANT>>, <<"a", CRITICAL>>}
        at(gaps, i) == IF i = 1 THEN 0 ELSE IF i = 2 THEN gaps[1]
                       ELSE IF i = 3 THEN gaps[1] + gaps[2] ELSE gaps[1] + gaps[2] + gaps[3]
    IN {[i \in 1 .. 4 |-> [at |-> at(gaps, i), key |-> what[i][1], importance |-> what[i][2]]] :
           gaps \in [1 .. 3 -> {0, 1, 2, 4}], what \in [1 .. 4 -> kinds]}
=============================================================================
