---------------------------- MODULE AssistantTurn ----------------------------
(***************************************************************************)
(* core/assistant.py: run_turn, from the user's message to the stored      *)
(* answer, for several turns in one conversation (memory/conversations.py).*)
(* A step is what a turn does from one await to the next; reads that       *)
(* nobody can disturb are joined to the step before them.                  *)
(*                                                                         *)
(* A text is the sequence of its pieces, named for the model they are of;  *)
(* a tool call is named for its round and its place in it.                 *)
(***************************************************************************)
EXTENDS ModelRouter

CONSTANTS
    Turns,
    Inputs,              \* what run_turn is called with, for each turn
    Past,                \* the rows of the conversation before these turns
    MAX_TOOL_ROUNDS,
    HISTORY_LIMIT,       \* the rows that history reads, 60 where it is called
    MaxPieces,           \* pieces of text per turn, a bound on the providers
    MaxCalls             \* tool calls per round, a bound on the providers

(* needs holds "tools" when the intent has tools, "vision" with an image;   *)
(* room is how many messages of the history the budget has a place for.     *)
(* The turns are new: no row is theirs.                                     *)
ASSUME TurnAssumption ==
    /\ MAX_TOOL_ROUNDS \in Nat \ {0} /\ HISTORY_LIMIT \in Nat \ {0}
    /\ \A t \in Turns : \A i \in Inputs[t] :
        /\ i.needs \subseteq Capabilities
        /\ i.wanted \in Models \cup {NoModel}
        /\ i.settings.mode \in Modes
        /\ i.room \in Nat
    /\ Past \in Seq(ToSet(Past)) /\ \A i \in DOMAIN Past : Past[i].turn \notin Turns

VARIABLES
    table,               \* the conversation's rows of messages
    status,              \* AssistantCore._state
    executor,            \* is a tool executor set?
    pc,
    input,
    selection,           \* context.selection
    offered,             \* is tool_specs non-empty?
    prompt,              \* whose messages the built context holds
    round, attempt,
    calls,               \* tool_calls of the round
    working,             \* the calls and the results in working_messages
    answer,              \* context.answer
    note,                \* text the client gets after it is stored
    agents,              \* did the agents answer: "none", "ok", "failed"
    shown,               \* the deltas the client got
    requests,            \* what was asked of providers in this turn
    seen                 \* the length of the table when the history was read

turnVars == <<table, status, executor, pc, input, selection, offered, prompt, round, attempt,
              calls, working, answer, note, agents, shown, requests, seen>>

setup == <<executor, input, offered, prompt, seen>>
tries == <<selection, attempt, calls, requests>>
rounds == <<round, working>>
texts == <<answer, note, agents, shown>>

Over == {"done", "failed", "gone"}
PCs == {"idle", "routing", "reading", "generating", "streaming", "acting", "delegating",
        "storing", "completing", "failing"} \cup Over

Sayers == {m.id : m \in Catalogue} \cup {-1}      \* -1: Jarvis itself

CallIds == (0 .. MAX_TOOL_ROUNDS) \X (1 .. MaxCalls)

Row(role, t, text, failed) == [role |-> role, turn |-> t, text |-> text, failed |-> failed]

Authors == Turns \cup {r.turn : r \in ToSet(Past)}

Rows == [role : {"user", "assistant"}, turn : Authors, text : Seq(Sayers), failed : BOOLEAN]

Requests == [model : Catalogue, provider : {m.provider : m \in Catalogue}, tools : BOOLEAN]

(* Types. *)
TypeOK ==
    /\ table \in Seq(Rows)
    /\ status \in {"IDLE", "THINKING", "ACTING", "ERROR"}
    /\ executor \in BOOLEAN
    /\ pc \in [Turns -> PCs]
    /\ \A t \in Turns : pc[t] # "idle" => input[t] \in Inputs[t]
    /\ \A t \in Turns : pc[t] \in {"generating", "streaming", "acting"} =>
        /\ selection[t].model \in Catalogue
        /\ round[t] \in 0 .. MAX_TOOL_ROUNDS - 1
    /\ offered \in [Turns -> BOOLEAN]
    /\ prompt \in [Turns -> Seq({"user", "assistant"} \X Authors)]
    /\ \A t \in Turns : pc[t] = "streaming" => attempt[t] \in 1 .. 5
    /\ calls \in [Turns -> 0 .. MaxCalls]
    /\ working \in [Turns -> [calls : SUBSET CallIds, results : SUBSET CallIds]]
    /\ {answer, note, shown} \subseteq [Turns -> Seq(Sayers)]
    /\ agents \in [Turns -> {"none", "ok", "failed"}]
    /\ requests \in [Turns -> SUBSET Requests]
    /\ seen \in [Turns -> Nat]

Init ==
    /\ table = Past
    /\ status = "IDLE"
    /\ executor \in BOOLEAN
    /\ pc = [t \in Turns |-> "idle"]
    /\ input = [t \in Turns |-> NoModel]
    /\ selection = [t \in Turns |-> Refusal]
    /\ offered = [t \in Turns |-> FALSE]
    /\ prompt = [t \in Turns |-> <<>>]
    /\ round = [t \in Turns |-> 0]
    /\ attempt = [t \in Turns |-> 0]
    /\ calls = [t \in Turns |-> 0]
    /\ working = [t \in Turns |-> [calls |-> {}, results |-> {}]]
    /\ answer = [t \in Turns |-> <<>>]
    /\ note = [t \in Turns |-> <<>>]
    /\ agents = [t \in Turns |-> "none"]
    /\ shown = [t \in Turns |-> <<>>]
    /\ requests = [t \in Turns |-> {}]
    /\ seen = [t \in Turns |-> 0]

Goto(t, place) == pc' = [pc EXCEPT ![t] = place]
Put(f, t, x) == [f EXCEPT ![t] = x]

-----------------------------------------------------------------------------
(* The message is stored before anything else happens to it. *)
Ask(t) ==
    /\ pc[t] = "idle"
    /\ \E i \in Inputs[t] : input' = Put(input, t, i)
    /\ table' = Append(table, Row("user", t, <<>>, FALSE))
    /\ status' = "THINKING"
    /\ Goto(t, "routing")
    /\ UNCHANGED <<executor, offered, prompt, seen, tries, rounds, texts>>

Needs(t) == input[t].needs \ (IF executor THEN {} ELSE {"tools"})

(* A model without confirmed tool support is not offered tools. *)
MayOffer(m) == "tools" \in m.can \/ m.router

Route(t) ==
    /\ pc[t] = "routing"
    /\ \E s \in Select(input[t].settings, Needs(t), input[t].wanted) :
        /\ selection' = Put(selection, t, s)
        /\ IF s = Refusal
           THEN /\ Goto(t, "failing")
                /\ status' = "ERROR"
                /\ UNCHANGED offered
           ELSE /\ Goto(t, "reading")
                /\ offered' = Put(offered, t, "tools" \in Needs(t) /\ MayOffer(s.model))
                /\ UNCHANGED status
    /\ UNCHANGED <<table, executor, input, prompt, attempt, calls, requests, seen,
                   rounds, texts>>

(* messages: the last rows, whatever they are. *)
Newest(rows) == SubSeq(rows, Max({1, Len(rows) - HISTORY_LIMIT + 1}), Len(rows))

(* history: failed answers are left out; the k-th message is that of the *)
(* k-th row which did not fail.                                          *)
Said(rows) ==
    LET sound == {i \in DOMAIN rows : ~rows[i].failed}
        place(k) == CHOOSE i \in sound : Cardinality({j \in sound : j <= i}) = k
    IN  [k \in 1 .. Cardinality(sound) |-> <<rows[place(k)].role, rows[place(k)].turn>>]

(* The last message, if it is a user's, is taken for the one just stored, *)
(* which build adds itself.                                               *)
WithoutLastMessage(history) ==
    IF history # <<>> /\ Last(history)[1] = "user" THEN Front(history) ELSE history

(* Mutated form: the oldest messages are kept. *)
FitHistoryOldest(history, room) == SubSeq(history, 1, Min({room, Len(history)}))

(* _fit_history: the newest messages that fit.  No row is a tool's, so there *)
(* is no result without its call at their head.                              *)
FitHistory(history, room) ==
    SubSeq(history, Max({1, Len(history) - room + 1}), Len(history))

(* The message itself is never left out. *)
BuildContext(history, t) ==
    Append(FitHistory(WithoutLastMessage(history), input[t].room), <<"user", t>>)

(* Only a request with tools may be escalated to the agents. *)
ReadHistory(t) ==
    /\ pc[t] = "reading"
    /\ prompt' = Put(prompt, t, BuildContext(Said(Newest(table)), t))
    /\ seen' = Put(seen, t, Len(table))
    /\ \/ /\ Goto(t, "generating")
          /\ status' = "THINKING"
       \/ /\ offered[t]
          /\ Goto(t, "delegating")
          /\ status' = "ACTING"
    /\ UNCHANGED <<table, executor, input, offered, tries, rounds, texts>>

(* _run_agents: the orchestrator returns a text, whether its run failed or not. *)
AgentsAnswer(t) ==
    /\ pc[t] = "delegating"
    /\ \E outcome \in {"ok", "failed"} : agents' = Put(agents, t, outcome)
    /\ answer' = Put(answer, t, <<-1>>)
    /\ shown' = Put(shown, t, Append(shown[t], -1))
    /\ Goto(t, "storing")
    /\ UNCHANGED <<table, status, note, setup, tries, rounds>>

-----------------------------------------------------------------------------
(* _stream_with_fallback: the models that are tried, and by whom they are   *)
(* served.  Fallbacks of a provider that is switched off are passed over.   *)
Tried(t) == <<selection[t].model>> \o selection[t].fallbacks

Served(t) == {1} \cup {i \in 2 .. Len(Tried(t)) : Tried(t)[i].provider \in Configured}

RequestOf(t, i) ==
    [model |-> Tried(t)[i],
     provider |-> IF i = 1 THEN selection[t].provider ELSE Tried(t)[i].provider,
     tools |-> offered[t]]

SendRequest(t, i) ==
    /\ attempt' = Put(attempt, t, i)
    /\ requests' = Put(requests, t, requests[t] \cup {RequestOf(t, i)})

(* The head of a round. *)
Generate(t) ==
    /\ pc[t] = "generating"
    /\ SendRequest(t, 1)
    /\ calls' = Put(calls, t, 0)
    /\ status' = "THINKING"
    /\ Goto(t, "streaming")
    /\ UNCHANGED <<table, selection, setup, rounds, texts>>

Speaker(t) == Tried(t)[attempt[t]]

(* What is said is shown at once, and added to the answer when the round ends: *)
(* nobody looks at the answer before that.                                     *)
Piece(t) ==
    /\ pc[t] = "streaming"
    /\ Len(shown[t]) < MaxPieces
    /\ shown' = Put(shown, t, Append(shown[t], Speaker(t).id))
    /\ answer' = Put(answer, t, Append(answer[t], Speaker(t).id))
    /\ UNCHANGED <<table, status, pc, note, agents, setup, tries, rounds>>

CallPiece(t) ==
    /\ pc[t] = "streaming"
    /\ calls[t] < MaxCalls
    /\ calls' = Put(calls, t, calls[t] + 1)
    /\ UNCHANGED <<table, status, pc, selection, attempt, requests, setup, rounds,
                   texts>>

CallsOf(t) == {round[t]} \X (1 .. calls[t])

(* Mutated form: the note is only shown. *)
WithNoteShownOnly(t) == answer[t]

WithNote(t) == Append(answer[t], -1)

(* After the stream: the answer, the admission that there are no tools, or *)
(* the round's tools.                                                      *)
EndOfStream(t) ==
    /\ \/ /\ calls[t] = 0
          /\ Goto(t, "storing")
          /\ UNCHANGED <<status, working, answer, note>>
       \/ /\ calls[t] > 0 /\ ~executor
          /\ answer' = Put(answer, t, WithNote(t))
          /\ note' = Put(note, t, <<-1>>)
          /\ Goto(t, "storing")
          /\ UNCHANGED <<status, working>>
       \/ /\ calls[t] > 0 /\ executor
          /\ working' = [working EXCEPT ![t].calls = @ \cup CallsOf(t)]
          /\ status' = "ACTING"
          /\ Goto(t, "acting")
          /\ UNCHANGED <<answer, note>>

(* Every provider ends its stream with a chunk, "done" or "error", and any *)
(* chunk counts as an answer: a failure that comes as a chunk ends the     *)
(* stream like an answer does.  A fallback that answers stays the model of *)
(* the turn, with the provider of the first one.                           *)
StreamEnds(t) ==
    /\ pc[t] = "streaming"
    /\ selection' = [selection EXCEPT ![t].model = Speaker(t)]
    /\ EndOfStream(t)
    /\ UNCHANGED <<table, round, attempt, calls, agents, shown, requests, setup>>

Later(t) == {i \in Served(t) : i > attempt[t]}

(* The stream raises: the next model starts over, with the same messages. *)
StreamBreaks(t) ==
    /\ pc[t] = "streaming"
    /\ \/ /\ \E i \in Later(t) : (\A j \in Later(t) : i <= j) /\ SendRequest(t, i)
          /\ UNCHANGED <<pc, status>>
       \/ /\ Later(t) = {}
          /\ Goto(t, "failing")
          /\ status' = "ERROR"
          /\ UNCHANGED <<attempt, requests>>
    /\ UNCHANGED <<table, selection, calls, setup, rounds, texts>>

-----------------------------------------------------------------------------
OpenCalls(t) == CallsOf(t) \ working[t].results

(* The tools of a round run one after the other; a refused or failed tool has *)
(* a result as well.                                                          *)
UseTool(t) ==
    /\ pc[t] = "acting"
    /\ \E c \in OpenCalls(t) :
        /\ \A d \in OpenCalls(t) : c[2] <= d[2]
        /\ working' = [working EXCEPT ![t].results = @ \cup {c}]
    /\ UNCHANGED <<table, status, pc, round, setup, tries, texts>>

(* Mutated form: a round is over after its first tool. *)
RoundDoneAtOnce(t) == OpenCalls(t) # CallsOf(t)

RoundDone(t) == OpenCalls(t) = {}

(* Mutated form: the rounds are not counted. *)
NextRoundUncounted(r) == r

NextRound(r) == r + 1

(* After the last round Jarvis says that it has given up. *)
EndRound(t) ==
    /\ pc[t] = "acting"
    /\ RoundDone(t)
    /\ IF NextRound(round[t]) < MAX_TOOL_ROUNDS
       THEN /\ round' = Put(round, t, NextRound(round[t]))
            /\ Goto(t, "generating")
            /\ UNCHANGED <<answer, note>>
       ELSE /\ answer' = Put(answer, t, WithNote(t))
            /\ note' = Put(note, t, <<-1>>)
            /\ Goto(t, "storing")
            /\ UNCHANGED round
    /\ UNCHANGED <<table, status, working, agents, shown, setup, tries>>

(* The executor raises what is not a ToolError: the audit row cannot be stored. *)
ToolRaises(t) ==
    /\ pc[t] = "acting"
    /\ ~RoundDone(t)
    /\ status' = "ERROR"
    /\ Goto(t, "failing")
    /\ UNCHANGED <<table, setup, tries, rounds, texts>>

-----------------------------------------------------------------------------
AnswerRow(t) == Row("assistant", t, answer[t], agents[t] = "failed")

(* Mutated form: the error is only reported to the client. *)
WithFailureUnsaved(t) == table

WithFailure(t) == Append(table, Row("assistant", t, <<-1>>, TRUE))

StoreAnswer(t) ==
    /\ pc[t] = "storing"
    /\ table' = Append(table, AnswerRow(t))
    /\ shown' = Put(shown, t, shown[t] \o note[t])
    /\ Goto(t, "completing")
    /\ UNCHANGED <<status, answer, note, agents, setup, tries, rounds>>

(* After the memory hook, whose failure is only logged. *)
Complete(t) ==
    /\ pc[t] = "completing"
    /\ status' = "IDLE"
    /\ Goto(t, "done")
    /\ UNCHANGED <<table, setup, tries, rounds, texts>>

StoreFailure(t) ==
    /\ pc[t] = "failing"
    /\ table' = WithFailure(t)
    /\ Goto(t, "failed")
    /\ UNCHANGED <<status, setup, tries, rounds, texts>>

(* The client leaves and the stream's coroutine is cancelled where it is; a *)
(* statement on its way may still be carried out.                           *)
Disconnect(t) ==
    /\ pc[t] \notin {"idle"} \cup Over
    /\ \/ UNCHANGED table
       \/ pc[t] = "storing" /\ table' = Append(table, AnswerRow(t))
       \/ pc[t] = "failing" /\ table' = WithFailure(t)
    /\ Goto(t, "gone")
    /\ UNCHANGED <<status, setup, tries, rounds, texts>>

-----------------------------------------------------------------------------
Proceed(t) ==
    \/ Route(t) \/ ReadHistory(t) \/ AgentsAnswer(t) \/ Generate(t)
    \/ StreamEnds(t) \/ StreamBreaks(t)
    \/ UseTool(t) \/ EndRound(t) \/ ToolRaises(t)
    \/ StoreAnswer(t) \/ Complete(t) \/ StoreFailure(t)

AllOver == \A t \in Turns : pc[t] \in Over

Rest == AllOver /\ UNCHANGED turnVars

Next ==
    \/ \E t \in Turns : Ask(t) \/ Proceed(t) \/ Piece(t) \/ CallPiece(t) \/ Disconnect(t)
    \/ Rest

Spec == Init /\ [][Next]_turnVars

(* The event loop runs somebody who is ready, and model calls, agents and *)
(* tools end: they have time limits.  Nobody needs to leave.              *)
FairSpec == Spec /\ WF_turnVars(\E t \in Turns : Proceed(t))
-----------------------------------------------------------------------------
AnswersOf(t) == {i \in DOMAIN table : table[i].role = "assistant" /\ table[i].turn = t}

(* However a turn goes (fallbacks, tool rounds, agents, an exception), it    *)
(* leaves one answer in the conversation when it ends by itself, and at most *)
(* one when the client leaves it (run_turn and the returns of _generate).    *)
OneAnswerPerTurn ==
    \A t \in Turns :
        /\ \A i, j \in AnswersOf(t) : i = j
        /\ pc[t] \in {"done", "failed"} => AnswersOf(t) # {}

(* The conversation keeps what the user saw: the stored answer of a completed *)
(* turn is the deltas of all its rounds and attempts and Jarvis' own notes    *)
(* (_run_model_loop), in their order.                                         *)
StoredIsShown ==
    \A t \in Turns : pc[t] = "done" => \A i \in AnswersOf(t) : table[i].text = shown[t]

(* The absolute rules of core/model_router.py, as far as the code keeps to   *)
(* them: by no round and no attempt of a turn, whatever model was asked for  *)
(* or pinned, is a model that is not local asked offline, nor under          *)
(* FREE_ONLY one that costs something, unless it is the one that the user    *)
(* named as free router, whose price nobody looks at.                        *)
OnlyTheRouterMayCost ==
    \A t \in Turns : \A r \in requests[t] :
        Barred(r.model, input[t].settings) =>
            r.model = FreeRouter /\ ~LocalOnly(input[t].settings)

(* Every provider rejects a conversation in which a tool call has no result: *)
(* when a model is asked, all calls of earlier rounds, also those made by a  *)
(* model that broke off, have theirs, and no result is without a call.       *)
ResultsMatchCalls ==
    \A t \in Turns : pc[t] \in {"generating", "streaming"} =>
        working[t].calls = working[t].results

(* Was the turn's own message still the last row when it read the history? *)
ReadUndisturbed(t) == seen[t] > 0 /\ table[seen[t]].role = "user" /\ table[seen[t]].turn = t

(* The rows within the limit that can be remembered: a failed answer is not   *)
(* part of the conversation, but it takes the place of a row that is.         *)
Recalled(t) ==
    {i \in Max({1, seen[t] - HISTORY_LIMIT + 1}) .. seen[t] : ~table[i].failed}

(* A turn that nobody interrupted between storing its message and reading the *)
(* history is asked with the end of all that had been said, as much of it as  *)
(* the model has room for and the limit reaches back: each message once,      *)
(* failed answers left out, its own message last and always there (history,   *)
(* _generate, _fit_history).                                                  *)
PromptIsTheConversation ==
    \A t \in Turns :
        ReadUndisturbed(t) =>
            /\ IsSuffix(prompt[t], Said(SubSeq(table, 1, seen[t])))
            /\ Len(prompt[t]) = Min({input[t].room + 1, Cardinality(Recalled(t))})

(* Every turn ends, unless its client leaves: models that go on asking for *)
(* tools and models that fail are given up (MAX_TOOL_ROUNDS, the fallbacks). *)
EveryTurnEnds == \A t \in Turns : pc[t] = "routing" ~> pc[t] \in Over

=============================================================================
