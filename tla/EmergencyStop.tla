---------------------------- MODULE EmergencyStop ----------------------------
(***************************************************************************)
(* core/emergency.py: the process-wide stop flag and the registry of       *)
(* cancellation events it sets.  Every operation runs on the event loop    *)
(* without an await, so each is one step.  The listeners that engage calls *)
(* belong to the components that add them and are conjoined there.         *)
(***************************************************************************)
EXTENDS FiniteSets

CONSTANT Scopes          \* the asyncio.Event objects in use

VARIABLES
    engaged,             \* EmergencyStop._engaged
    registered,          \* EmergencyStop._cancel_scopes
    signalled            \* the events that are set

stopVars == <<engaged, registered, signalled>>

StopTypeOK ==
    /\ engaged \in BOOLEAN
    /\ registered \subseteq Scopes
    /\ signalled \subseteq Scopes

StopInit ==
    /\ engaged = FALSE
    /\ registered = {}
    /\ signalled = {}

-----------------------------------------------------------------------------
Engage ==
    /\ engaged' = TRUE
    /\ signalled' = signalled \cup registered
    /\ UNCHANGED registered

(* release empties the registry and clears every event that was in it, *)
(* whether or not the work behind it has noticed.                       *)
Release ==
    /\ engaged' = FALSE
    /\ registered' = {}
    /\ signalled' = signalled \ registered

(* Mutated form: registering does not look at the flag. *)
RegisterScopeBlind(s, events) ==
    /\ registered' = registered \cup {s}
    /\ signalled' = events
    /\ UNCHANGED engaged

(* events is the set of set events just before the call: signalled itself, *)
(* or signalled without s when s is an event created for the occasion.     *)
RegisterScope(s, events) ==
    /\ registered' = registered \cup {s}
    /\ signalled' = IF engaged THEN events \cup {s} ELSE events
    /\ UNCHANGED engaged

UnregisterScope(s) ==
    /\ registered' = registered \ {s}
    /\ UNCHANGED <<engaged, signalled>>

(* The contract of register_scope: while the stop is engaged every event in *)
(* the registry is set, however late it was registered.                     *)
RegisteredIsSignalled == engaged => registered \subseteq signalled
=============================================================================
