------------------------------- MODULE Policy -------------------------------
(***************************************************************************)
(* The decision procedure of core/permissions.py: what the engine says of  *)
(* a request before anyone is asked.  It reads no state of its own; the    *)
(* stop flag and the remembered grants come in as arguments, so the same   *)
(* operators serve the stand-alone check of the table and the execution    *)
(* model.                                                                  *)
(***************************************************************************)
EXTENDS Integers

(* Enumerations of core/enums.py, least dangerous risk first. *)
Risks == {"SAFE_READ", "SAFE_ACTION", "WRITE", "EXTERNAL_WRITE",
          "SYSTEM_CONTROL", "DESTRUCTIVE", "PRIVILEGED"}
Levels == 0 .. 4
Values == {"DENY", "ASK", "ALLOW"}
Decisions == {"DENIED", "NEEDS_CONFIRMATION", "ALLOWED"}

RiskOrder == [r \in Risks |->
    CASE r = "SAFE_READ"      -> 0
      [] r = "SAFE_ACTION"    -> 1
      [] r = "WRITE"          -> 2
      [] r = "EXTERNAL_WRITE" -> 3
      [] r = "SYSTEM_CONTROL" -> 4
      [] r = "DESTRUCTIVE"    -> 5
      [] r = "PRIVILEGED"     -> 6]

(* The highest risk a level performs without asking. *)
AutoCeiling == [l \in Levels |->
    CASE l = 0 -> "SAFE_READ"
      [] l = 1 -> "SAFE_READ"
      [] l = 2 -> "SAFE_ACTION"
      [] l = 3 -> "SYSTEM_CONTROL"
      [] l = 4 -> "DESTRUCTIVE"]

(* Levels that refuse outright above a risk; the other levels have no entry. *)
DenyAbove == [l \in {0} |-> "SAFE_READ"]

AlwaysConfirm == {"PRIVILEGED"}

-----------------------------------------------------------------------------
(* Mutated form: the stop is not consulted by the engine. *)
RefusedIgnoringStop(stop, value, level, risk) ==
    \/ value = "DENY"
    \/ level \in DOMAIN DenyAbove /\ RiskOrder[risk] > RiskOrder[DenyAbove[level]]

(* Steps 0 to 2 of evaluate: nothing that follows can lift these. *)
Refused(stop, value, level, risk) ==
    \/ stop
    \/ value = "DENY"
    \/ level \in DOMAIN DenyAbove /\ RiskOrder[risk] > RiskOrder[DenyAbove[level]]

(* Mutated form: a grant also silences the privileged class. *)
GrantAppliesToAll(risk, granted) == granted

(* Step 3: a grant short-circuits the question, except for privileged work. *)
GrantApplies(risk, granted) == granted /\ risk \notin AlwaysConfirm

(* Mutated form: the ASK setting is dropped, only the level decides. *)
AutomaticIgnoringAsk(value, level, risk) ==
    /\ risk \notin AlwaysConfirm
    /\ RiskOrder[risk] <= RiskOrder[AutoCeiling[level]]

(* Steps 4 to 6: neither privileged nor ASK, and within the level's ceiling. *)
Automatic(value, level, risk) ==
    /\ risk \notin AlwaysConfirm
    /\ value # "ASK"
    /\ RiskOrder[risk] <= RiskOrder[AutoCeiling[level]]

Evaluate(stop, value, level, risk, granted) ==
    IF Refused(stop, value, level, risk) THEN "DENIED"
    ELSE IF GrantApplies(risk, granted) \/ Automatic(value, level, risk)
         THEN "ALLOWED"
         ELSE "NEEDS_CONFIRMATION"
=============================================================================
