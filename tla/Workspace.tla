------------------------------ MODULE Workspace ------------------------------
(***************************************************************************)
(* The tools at work in the user's folders: the file tools of FileTools,   *)
(* and the processes of tools/terminal.py under the time limit and the     *)
(* cancellation of ToolRegistry.execute.  The question that may lie before *)
(* a call is part of ToolExecution; here a call begins where the tool runs.*)
(*                                                                         *)
(* What a process does to the files is its own affair and left out, and so *)
(* are the children of the shell, which the signals do not reach.          *)
(***************************************************************************)
EXTENDS FileTools

CONSTANTS
    Callers,         \* the turns and agents that call tools
    Trees,           \* the trees to begin with
    Trusts,          \* the lists of trusted folders the settings may have
    FileCalls,       \* the calls of the file tools
    CommandCalls,    \* the calls of the command tools
    MaxCalls,        \* bound: the calls that are made
    MaxDepth         \* bound: how deep a tree grows

ASSUME WorkspaceAssumption ==
    /\ MaxCalls \in Nat \ {0}
    /\ MaxDepth \in Nat \ {0}
    /\ \A t \in Trees : IsTree(t) /\ HoldsEntries(t)
    /\ \A roots \in Trusts : roots \in Seq(Paths)
    /\ \A call \in FileCalls : IsCall(call)

VARIABLES
    tree,       \* the files
    trusted,    \* settings.security.trusted_folders of now
    held,       \* the ones of the settings that a caller's turn works with
    pc,         \* where each caller is
    request,    \* the call it has asked for
    event,      \* is the cancellation event of its call set?
    running,    \* the process of its call
    process,    \* the processes, in the order of their start
    outcome,    \* how the call of each process ended
    calls       \* how many calls have been asked for

commandVars == <<event, running, process, outcome>>
vars == <<tree, trusted, held, pc, request, commandVars, calls>>

Numbers == 1 .. MaxCalls

NoProcess == 0

NoCall == [tool |-> "none"]

TypeOK ==
    /\ IsTree(tree) /\ HoldsEntries(tree)
    /\ trusted \in Trusts
    /\ held \in [Callers -> Trusts]
    /\ pc \in [Callers -> {"away", "thinking", "asking", "waiting", "ending"}]
    /\ request \in [Callers -> FileCalls \cup CommandCalls \cup {NoCall}]
    /\ event \in [Callers -> BOOLEAN]
    /\ running \in [Callers -> Numbers \cup {NoProcess}]
    /\ process \in [Numbers -> {"none", "alive", "terminated", "killed", "gone"}]
    /\ outcome \in [Numbers -> {"none", "output", "cancelled", "timeout", "cut_off", "abandoned"}]
    /\ calls \in 0 .. MaxCalls
    /\ \A c \in Callers :
          /\ pc[c] \in {"waiting", "ending"} <=> running[c] # NoProcess
          /\ pc[c] \in {"away", "thinking"} <=> request[c] = NoCall

Init ==
    /\ tree \in Trees
    /\ trusted \in Trusts
    /\ held = [c \in Callers |-> trusted]
    /\ pc = [c \in Callers |-> "away"]
    /\ request = [c \in Callers |-> NoCall]
    /\ event = [c \in Callers |-> FALSE]
    /\ running = [c \in Callers |-> NoProcess]
    /\ process = [n \in Numbers |-> "none"]
    /\ outcome = [n \in Numbers |-> "none"]
    /\ calls = 0

-----------------------------------------------------------------------------
(* A turn takes the settings of its beginning along. *)
BeginTurn(c) ==
    /\ pc[c] = "away"
    /\ pc' = [pc EXCEPT ![c] = "thinking"]
    /\ held' = [held EXCEPT ![c] = trusted]
    /\ UNCHANGED <<tree, trusted, request, commandVars, calls>>

EndTurn(c) ==
    /\ pc[c] = "thinking"
    /\ pc' = [pc EXCEPT ![c] = "away"]
    /\ UNCHANGED <<tree, trusted, held, request, commandVars, calls>>

(* The user saves other trusted folders. *)
ChangeTrust(roots) ==
    /\ trusted' = roots
    /\ UNCHANGED <<tree, held, pc, request, commandVars, calls>>

(* ToolRegistry.execute has the arguments; the permission may take a while. *)
Ask(c, call) ==
    /\ pc[c] = "thinking"
    /\ calls < MaxCalls
    /\ calls' = calls + 1
    /\ request' = [request EXCEPT ![c] = call]
    /\ pc' = [pc EXCEPT ![c] = "asking"]
    /\ UNCHANGED <<tree, trusted, held, commandVars>>

Answered(c) ==
    /\ request' = [request EXCEPT ![c] = NoCall]
    /\ pc' = [pc EXCEPT ![c] = "thinking"]

Refused(c) ==
    /\ pc[c] = "asking"
    /\ Answered(c)
    /\ UNCHANGED <<tree, trusted, held, commandVars, calls>>

UseFiles(c) ==
    /\ pc[c] = "asking"
    /\ request[c] \in FileCalls
    /\ ~IntoItself(tree, request[c])
    /\ tree' \in Outcomes(tree, request[c], held[c], trusted)
    /\ \A p \in DOMAIN tree' : Len(p) <= MaxDepth
    /\ Answered(c)
    /\ UNCHANGED <<trusted, held, commandVars, calls>>

-----------------------------------------------------------------------------
(* _working_directory: the argument, or the first trusted folder. *)
CanWorkIn(c, folder) ==
    IF folder = <<>>
    THEN held[c] # <<>> /\ IsDir(tree, held[c][1])
    ELSE Found(tree, folder, held[c]) /\ IsDir(tree, folder)

(* The event may have been set while the question was open. *)
StartCommand(c, set) ==
    LET n == Cardinality({m \in Numbers : process[m] # "none"}) + 1
    IN /\ pc[c] = "asking"
       /\ request[c] \in CommandCalls
       /\ CanWorkIn(c, request[c].folder)
       /\ process' = [process EXCEPT ![n] = "alive"]
       /\ running' = [running EXCEPT ![c] = n]
       /\ event' = [event EXCEPT ![c] = set]
       /\ pc' = [pc EXCEPT ![c] = "waiting"]
       /\ UNCHANGED <<tree, trusted, held, request, outcome, calls>>

Exits(n) ==
    /\ process[n] \in {"alive", "terminated", "killed"}
    /\ process' = [process EXCEPT ![n] = "gone"]
    /\ UNCHANGED <<tree, trusted, held, pc, request, event, running, outcome, calls>>

Return(c, how) ==
    /\ outcome' = [outcome EXCEPT ![running[c]] = how]
    /\ running' = [running EXCEPT ![c] = NoProcess]
    /\ event' = [event EXCEPT ![c] = FALSE]
    /\ Answered(c)
    /\ UNCHANGED <<tree, trusted, held, calls>>

(* communicate has come to its end. *)
ReadOutput(c) ==
    /\ pc[c] = "waiting"
    /\ process[running[c]] = "gone"
    /\ Return(c, "output")
    /\ UNCHANGED process

(* The limits of the command and of the registry start one after the other. *)
OwnLimitFirst(c) == request[c].limit = "short"

(* asyncio.wait returns without it: on the event or at the command's limit. *)
Terminate(c) ==
    /\ pc[c] = "waiting"
    /\ event[c] \/ OwnLimitFirst(c)
    /\ process' = [process EXCEPT ![running[c]] = IF @ = "alive" THEN "terminated" ELSE @]
    /\ pc' = [pc EXCEPT ![c] = "ending"]
    /\ UNCHANGED <<tree, trusted, held, request, event, running, outcome, calls>>

Reason(c) == IF event[c] THEN "cancelled" ELSE "timeout"

WentQuietly(c) ==
    /\ pc[c] = "ending"
    /\ process[running[c]] = "gone"
    /\ Return(c, Reason(c))
    /\ UNCHANGED process

(* Mutated form: nobody waits for the first signal to work. *)
KillNot(c) ==
    /\ pc[c] = "ending"
    /\ process[running[c]] # "gone"
    /\ Return(c, Reason(c))
    /\ UNCHANGED process

(* Five seconds have passed. *)
Kill(c) ==
    /\ pc[c] = "ending"
    /\ process[running[c]] # "gone"
    /\ process' = [process EXCEPT ![running[c]] = "killed"]
    /\ Return(c, Reason(c))

(* The registry's limit cancels the coroutine, where nothing ends the process. *)
CutOff(c) ==
    /\ pc[c] = "ending" \/ (pc[c] = "waiting" /\ ~OwnLimitFirst(c))
    /\ Return(c, "cut_off")
    /\ UNCHANGED process

(* So does the client that leaves, or the server that shuts down. *)
Abandon(c) ==
    /\ pc[c] \in {"waiting", "ending"}
    /\ Return(c, "abandoned")
    /\ UNCHANGED process

-----------------------------------------------------------------------------
(* engage sets the events of the running calls that are registered; release, *)
(* which may come before it, empties the registry.                           *)
PressStop ==
    /\ \E reached \in SUBSET {c \in Callers : running[c] # NoProcess} :
          event' = [c \in Callers |-> event[c] \/ c \in reached]
    /\ UNCHANGED <<tree, trusted, held, pc, request, running, process, outcome, calls>>

(* The task of an agent is cancelled. *)
CancelTask(c) ==
    /\ running[c] # NoProcess
    /\ event' = [event EXCEPT ![c] = TRUE]
    /\ UNCHANGED <<tree, trusted, held, pc, request, running, process, outcome, calls>>

Loop(c) == ReadOutput(c) \/ Terminate(c) \/ WentQuietly(c) \/ Kill(c)

Next ==
    \/ \E c \in Callers :
          \/ BeginTurn(c)
          \/ EndTurn(c)
          \/ \E call \in FileCalls \cup CommandCalls : Ask(c, call)
          \/ Refused(c)
          \/ UseFiles(c)
          \/ \E set \in BOOLEAN : StartCommand(c, set)
          \/ Loop(c)
          \/ CutOff(c)
          \/ Abandon(c)
          \/ CancelTask(c)
    \/ \E n \in Numbers : Exits(n)
    \/ \E roots \in Trusts : ChangeTrust(roots)
    \/ PressStop

Spec == Init /\ [][Next]_vars

(* The event loop runs what is ready, timers included; the system ends a   *)
(* process it was told to kill.  A process need not end by itself.         *)
Fairness ==
    /\ \A c \in Callers : WF_vars(ReadOutput(c) \/ WentQuietly(c) \/ Kill(c))
    /\ \A c \in Callers : WF_vars(Terminate(c))
    /\ \A n \in Numbers : WF_vars(process[n] = "killed" /\ Exits(n))

FairSpec == Spec /\ Fairness

-----------------------------------------------------------------------------
Changed ==
    {p \in DOMAIN tree \cup DOMAIN tree' :
        ~(p \in DOMAIN tree /\ p \in DOMAIN tree' /\ tree[p] = tree'[p])}

(* A folder that appears on the way to a trusted folder that is gone. *)
OnTheWay(p, roots) ==
    /\ p \notin DOMAIN tree /\ tree'[p] = Dir
    /\ \E i \in DOMAIN roots : IsStrictPrefix(p, roots[i])

Named(call) == {call.path} \cup (IF "to" \in DOMAIN call THEN {call.to} ELSE {})

(* What the user was shown when the call was confirmed bounds what it does: *)
(* it changes what lies at or beneath the paths of its arguments, and makes *)
(* folders on the way there, all within the folders that were trusted when  *)
(* the turn began, whatever is saved in the settings meanwhile              *)
(* (tools/base.py: "a tool validates paths against the same settings the    *)
(* permission check used").  Only a trusted folder that is gone is made     *)
(* again with the folders above it.                                         *)
OnlyWhatWasNamed ==
    [][\A c \in Callers : UseFiles(c) =>
          \A p \in Changed :
              /\ Contained(p, held[c]) \/ OnTheWay(p, held[c])
              /\ \E named \in Named(request[c]) :
                    IsPrefix(named, p) \/ (IsPrefix(p, named) /\ tree'[p] = Dir)]_vars

(* patch_file: "Ersetzt einen exakten Textabschnitt", and it must be        *)
(* "eindeutig": what lies before and behind the section is what it was, and *)
(* the section lies nowhere else, unless it overlaps itself.  Only of a     *)
(* text that is UTF-8, within the read limit and without a line end that    *)
(* the system rewrites: any other is re-encoded, cut or rewritten all over. *)
Plain(text) ==
    /\ Len(text) <= MaxRead
    /\ IsUtf8(text)
    /\ \A i \in DOMAIN text : text[i] \notin DOMAIN LineEnds

PatchedOnce(before, after, old, new) ==
    \E i \in Occurrences(before, old) :
        /\ after = ReplacedAt(before, i, old, new)
        /\ \A j \in Occurrences(before, old) : j \in i .. i + Len(old) - 1

PatchChangesOnePlace ==
    [][\A c \in Callers :
          LET call == request[c]
              before == TextOf(tree, call.path)
              after == TextOf(tree', call.path)
          IN call.tool = "patch_file" /\ UseFiles(c) /\ Plain(before) =>
                after = before \/ PatchedOnce(before, after, call.old, Written(call.new))]_vars

(* _run_process, "enforcing a timeout and honouring cancellation", and     *)
(* emergency.py, "halts everything JARVIS is actively doing": a process     *)
(* whose call has a limit of its own to come, or is told to stop, ends,     *)
(* even one that ignores the first signal; unless the call is cut off.      *)
CommandsEnd ==
    \A n \in Numbers :
        (\E c \in Callers : running[c] = n /\ (event[c] \/ OwnLimitFirst(c)))
            ~> (process[n] = "gone" \/ outcome[n] \in {"cut_off", "abandoned"})

(* Not so: "Run a process, enforcing a timeout" (terminal.py:235).  When the *)
(* registry's limit comes first, as it does for the default of both, the     *)
(* call returns and the process is neither terminated nor killed.            *)
NoCommandOutlivesItsCall ==
    \A n \in Numbers :
        outcome[n] \in {"output", "cancelled", "timeout", "cut_off"}
            => process[n] \in {"killed", "gone"}
=============================================================================
