------------------------------- MODULE ToolGate -------------------------------
(***************************************************************************)
(* What the tool engine promises about the emergency stop and consent,     *)
(* without saying how: a call acts only if it was admitted while the stop  *)
(* was not pressed, or was approved by the user.  Pressing the stop        *)
(* refuses every call that is still undecided; it does not take back an    *)
(* approval that is already given.                                         *)
(***************************************************************************)
CONSTANT Callers

VARIABLES
    stop,        \* is the emergency stop pressed?
    phase        \* where each caller's current call stands

gateVars == <<stop, phase>>

Phases == {"idle", "undecided", "approved", "refused", "acting"}

GateTypeOK ==
    /\ stop \in BOOLEAN
    /\ phase \in [Callers -> Phases]

GateInit ==
    /\ stop = FALSE
    /\ phase = [c \in Callers |-> "idle"]

Move(c, from, to) ==
    /\ phase[c] \in from
    /\ phase' = [phase EXCEPT ![c] = to]
    /\ UNCHANGED stop

(* A new call is refused, put to the user, or admitted by the settings; the *)
(* last two only while the stop is off.                                     *)
Decline(c) == Move(c, {"idle"}, "refused")
Ask(c)     == ~stop /\ Move(c, {"idle"}, "undecided")
Admit(c)   == ~stop /\ Move(c, {"idle"}, "acting")

Approve(c) == Move(c, {"undecided"}, "approved")
Refuse(c)  == Move(c, {"undecided", "approved"}, "refused")
Launch(c)  == Move(c, {"approved"}, "acting")
Finish(c)  == Move(c, {"refused", "acting"}, "idle")
Abandon(c) == Move(c, {"undecided", "approved"}, "idle")

Press ==
    /\ stop' = TRUE
    /\ phase' = [c \in Callers |->
                    IF phase[c] = "undecided" THEN "refused" ELSE phase[c]]

Lift == stop' = FALSE /\ UNCHANGED phase

Restart ==
    /\ stop' = FALSE
    /\ phase' = [c \in Callers |-> "idle"]

GateNext ==
    \/ \E c \in Callers :
          \/ Decline(c) \/ Ask(c) \/ Admit(c)
          \/ Approve(c) \/ Refuse(c) \/ Launch(c)
          \/ Finish(c) \/ Abandon(c)
    \/ Press \/ Lift \/ Restart

GateSpec == GateInit /\ [][GateNext]_gateVars

(* Under the stop nothing is waiting for a decision. *)
NothingUndecidedUnderStop == stop => \A c \in Callers : phase[c] # "undecided"
=============================================================================
