----------------------------- MODULE Proactivity -----------------------------
(***************************************************************************)
(* poll, should_notify and notify of core/proactive.py: which of the       *)
(* messages it is offered, one after another, the engine passes on.  A     *)
(* message has the moment it is offered, its key and its importance.       *)
(***************************************************************************)
EXTENDS Integers, FiniteSets, Sequences

CONSTANTS
    MessageKeys,
    DEDUPE_SECONDS,
    RATE_WINDOW,
    RATE_LIMIT

ASSUME ProactivityAssumption ==
    DEDUPE_SECONDS \in Nat /\ RATE_WINDOW \in Nat \ {0} /\ RATE_LIMIT \in Nat

CHATTER == 0
NORMAL == 1
IMPORTANT == 2
CRITICAL == 3

(* The lowest importance of each mode; a mode without one is silent. *)
THRESHOLDS == [IMPORTANT_ONLY |-> IMPORTANT, NORMAL |-> NORMAL, PROACTIVE |-> CHATTER]

Modes == {"OFF"} \cup DOMAIN THRESHOLDS

Offered == [at : Int, key : MessageKeys, importance : CHATTER .. CRITICAL]

(* _recent; _sent, as the places of the messages; and for each message that *)
(* was offered whether it was passed on.                                    *)
Silent == [recent |-> [key \in {} |-> 0], sent |-> {}, passed |-> <<>>]

Within(window, then, now) == now - then < window

SentWithin(engine, window, messages, now) ==
    {i \in engine.sent : Within(window, messages[i].at, now)}

IsRepeated(engine, message) ==
    /\ message.key \in DOMAIN engine.recent
    /\ Within(DEDUPE_SECONDS, engine.recent[message.key], message.at)

ShouldNotify(engine, mode, messages, message) ==
    /\ mode \in DOMAIN THRESHOLDS
    /\ message.importance >= THRESHOLDS[mode]
    /\ ~IsRepeated(engine, message)
    /\ \/ message.importance = CRITICAL
       \/ Cardinality(SentWithin(engine, RATE_WINDOW, messages, message.at)) < RATE_LIMIT

(* Mutated form: what was sent is forgotten before its window is over. *)
PassOnForgetful(engine, messages, i) ==
    LET message == messages[i]
        noted == [engine EXCEPT !.sent = @ \cup {i}]
    IN [recent |-> [key \in DOMAIN engine.recent \cup {message.key} |->
                       IF key = message.key THEN message.at ELSE engine.recent[key]],
        sent |-> SentWithin(noted, RATE_WINDOW \div 2, messages, message.at),
        passed |-> Append(engine.passed, TRUE)]

PassOn(engine, messages, i) ==
    LET message == messages[i]
        noted == [engine EXCEPT !.sent = @ \cup {i}]
    IN [recent |-> [key \in DOMAIN engine.recent \cup {message.key} |->
                       IF key = message.key THEN message.at ELSE engine.recent[key]],
        sent |-> SentWithin(noted, RATE_WINDOW * 2, messages, message.at),
        passed |-> Append(engine.passed, TRUE)]

(* notify, of the i-th message *)
Notify(engine, mode, messages, i) ==
    IF ShouldNotify(engine, mode, messages, messages[i])
    THEN PassOn(engine, messages, i)
    ELSE [engine EXCEPT !.passed = Append(@, FALSE)]
=============================================================================
