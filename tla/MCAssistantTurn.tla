-------------------------- MODULE MCAssistantTurn --------------------------
(* A small instance of AssistantTurn for TLC: a local model, a free and a   *)
(* paid one, a router, and one whose provider is switched off.  The router  *)
(* is the free router of the settings and is not free.                      *)
EXTENDS AssistantTurn

CONSTANTS t1, t2

Model(id, provider, free, local, router, can) ==
    [id |-> id, provider |-> provider, free |-> free, local |-> local, router |-> router,
     can |-> can]

Local == Model(1, "ollama", TRUE, TRUE, FALSE, {})
Free == Model(2, "openrouter", TRUE, FALSE, FALSE, {"tools"})
Paid == Model(3, "openrouter", FALSE, FALSE, FALSE, {"tools", "vision"})
Router == Model(4, "openrouter", FALSE, FALSE, TRUE, {})
Gone == Model(5, "custom", TRUE, TRUE, FALSE, {"tools", "vision"})

MCCatalogue == {Local, Free, Paid, Router, Gone}
MCRouter == Router
MCConfigured == {"ollama", "openrouter"}

Setting(mode, freeOnly, offline, pinned) ==
    [mode |-> mode, freeOnly |-> freeOnly, offline |-> offline, pinned |-> pinned]

Request(mode, freeOnly, offline, pinned, needs, wanted, room) ==
    [settings |-> Setting(mode, freeOnly, offline, pinned), needs |-> needs, wanted |-> wanted,
     room |-> room]

MCRequests ==
    {Request("AUTO", TRUE, FALSE, NoModel, {"tools"}, NoModel, 1),
     Request("MANUAL", TRUE, FALSE, Free, {}, Gone, 9),
     Request("HYBRID", FALSE, TRUE, NoModel, {}, NoModel, 0)}

(* One that is refused. *)
MCRefused == {Request("AUTO", TRUE, FALSE, NoModel, {}, Paid, 9)}

MCInputs == (t1 :> MCRequests) @@ (t2 :> MCRefused)
(* An answered message and one that failed. *)
MCPast ==
    <<Row("user", "a", <<>>, FALSE), Row("assistant", "a", <<1>>, FALSE),
      Row("user", "b", <<>>, FALSE), Row("assistant", "b", <<-1>>, TRUE)>>
=============================================================================
