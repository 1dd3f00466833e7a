-------------------------- MODULE PermissionEngine --------------------------
(***************************************************************************)
(* core/permissions.py: the settings it reads, the remembered grants, and  *)
(* the confirmations waiting for an answer.  Each caller asks at most one  *)
(* question at a time, so the table of pending confirmations is a function *)
(* of the caller; its value is the state of the question's future.         *)
(***************************************************************************)
EXTENDS Policy

CONSTANTS
    Callers,             \* coroutines that run tool calls one after another
    Capabilities,        \* core/enums.Capability
    Places,              \* scope keys of "always allow here"
    Requests,            \* the PermissionRequests a tool call can make
    Policies             \* the settings the user may save

Answers == {"allow_once", "allow_always", "deny"}
Consents == {"allow_once", "allow_always"}

(* "none": not in _pending; "open": future not done; an answer: future done *)
(* with it; "expired": wait_for gave up.                                    *)
AskStates == {"none", "open", "expired"} \cup Answers

Keys == Capabilities \X Places

ASSUME PermissionAssumption ==
    /\ Requests \subseteq [cap : Capabilities, place : Places, risk : Risks]
    /\ Policies \subseteq [value : [Capabilities -> Values], level : Levels]
    /\ Requests # {}
    /\ Policies # {}

VARIABLES
    policy,              \* the saved settings: value per capability, autonomy level
    grants,              \* PermissionEngine._grants (no caller passes an expiry)
    ask                  \* PermissionEngine._pending, by asking caller

permVars == <<policy, grants, ask>>

PermTypeOK ==
    /\ policy \in Policies
    /\ grants \subseteq Keys
    /\ ask \in [Callers -> AskStates]

PermInit ==
    /\ policy \in Policies
    /\ grants = {}
    /\ ask = [c \in Callers |-> "none"]

-----------------------------------------------------------------------------
GrantKey(r) == <<r.cap, r.place>>
HasGrant(r) == GrantKey(r) \in grants

(* evaluate, under the settings s the call runs with *)
Verdict(stop, s, r) ==
    Evaluate(stop, s.value[r.cap], s.level, r.risk, HasGrant(r))

Remember(r) == grants' = grants \cup {GrantKey(r)}

(* The first half of request_confirmation: the question is filed. *)
OpenQuestion(c) == ask' = [ask EXCEPT ![c] = "open"]

(* The waiter runs again: the entry is popped, "always" is remembered. *)
CloseQuestion(c, r) ==
    /\ ask' = [ask EXCEPT ![c] = "none"]
    /\ IF ask[c] = "allow_always" THEN Remember(r) ELSE UNCHANGED grants

(* Mutated form: resolve does not look whether the future is done. *)
ResolveAgain(c, answer) ==
    /\ ask[c] # "none"
    /\ ask' = [ask EXCEPT ![c] = answer]
    /\ UNCHANGED <<policy, grants>>

(* The user clicks a button.  A question that is gone or answered is left *)
(* alone (the endpoint answers 404).                                      *)
Resolve(c, answer) ==
    /\ ask[c] = "open"
    /\ ask' = [ask EXCEPT ![c] = answer]
    /\ UNCHANGED <<policy, grants>>

(* Mutated form: a question nobody answers is kept open. *)
ExpireAnsweredOnly(c) ==
    /\ ask[c] \in Answers
    /\ ask' = [ask EXCEPT ![c] = "expired"]
    /\ UNCHANGED <<policy, grants>>

(* The 300 second timer fires.  wait_for cancels the future; if the answer is *)
(* already in but the waiter has not run, Python 3.12 and later still raise   *)
(* TimeoutError, while 3.11 hands the answer over (then this step is not      *)
(* taken).  An answer of the timer is a denial either way.                    *)
Expire(c) ==
    /\ ask[c] \in {"open"} \cup Answers
    /\ ask' = [ask EXCEPT ![c] = "expired"]
    /\ UNCHANGED <<policy, grants>>

(* Mutated form: the stop only withdraws the questions of one caller. *)
CancelOnePending ==
    \E d \in Callers :
        ask' = [c \in Callers |-> IF c = d /\ ask[c] = "open" THEN "deny" ELSE ask[c]]

(* The emergency stop's listener: only futures that are not done are denied. *)
CancelAllPending ==
    ask' = [c \in Callers |-> IF ask[c] = "open" THEN "deny" ELSE ask[c]]

ChangePolicy(p) ==
    /\ policy' = p
    /\ UNCHANGED <<grants, ask>>

Forget(k) ==
    /\ k \in grants
    /\ grants' = grants \ {k}
    /\ UNCHANGED <<policy, ask>>

ClearGrants ==
    /\ grants' = {}
    /\ UNCHANGED <<policy, ask>>
=============================================================================
