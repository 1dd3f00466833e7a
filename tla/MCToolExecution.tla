--------------------------- MODULE MCToolExecution ---------------------------
(* A small instance of ToolExecution for TLC: one capability, one scope key. *)
EXTENDS ToolExecution

CONSTANTS files, here

Ask(risk) == [cap |-> files, place |-> here, risk |-> risk]

Setting(value, level) == [value |-> [k \in Capabilities |-> value], level |-> level]

MCCapabilities == {files}
MCPlaces == {here}
MCRequests == {Ask("WRITE"), Ask("PRIVILEGED")}
(* Ask for all but the privileged; never; read only; everything by itself. *)
MCPolicies == {Setting("ASK", 4), Setting("DENY", 4), Setting("ALLOW", 0), Setting("ALLOW", 4)}
MCPoliciesTwo == {Setting("ASK", 4), Setting("DENY", 4)}
MCAllRisks == {Ask(r) : r \in Risks}
=============================================================================
