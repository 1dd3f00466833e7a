---------------------------- MODULE MCLiveUpdates ----------------------------
(* A small instance of LiveUpdates for TLC. *)
EXTENDS LiveUpdates

MCQuestions == {"q"}
=============================================================================
