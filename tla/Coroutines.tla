------------------------------ MODULE Coroutines ------------------------------
(* What the requests of the page and the background work of the start have *)
(* in common: coroutines of one event loop, each at the statement it waits *)
(* for.  A step runs from one await to the next.                           *)
CONSTANTS
    Callers,             \* the coroutines
    Background           \* the one the start of the server creates

ASSUME CallersAssumption == Background \in Callers

VARIABLES
    pc,                  \* what each coroutine waits for
    job                  \* its local variables

NoJob == [kind |-> "none"]

(* Where a coroutine goes on, and with what. *)
At(place, locals) == [place |-> place, locals |-> locals]

Goto(c, there) ==
    /\ pc' = [pc EXCEPT ![c] = there.place]
    /\ job' = [job EXCEPT ![c] = there.locals]

Ended == At("idle", NoJob)
=============================================================================
