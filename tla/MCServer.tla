------------------------------- MODULE MCServer -------------------------------
(* One provider in the cloud, one here; the environment enables the latter. *)
EXTENDS Server

MCOrder == <<"cloud", "here">>

MCDefaults == [enabled |-> {"cloud"}, offline |-> FALSE]

MCPatches == {[enabled |-> {}], [enabled |-> {"cloud", "here"}], [offline |-> TRUE]}

MCFirstFiles ==
    {[kind |-> "absent", value |-> MCDefaults], [kind |-> "broken", value |-> MCDefaults],
     [kind |-> "ok", value |-> [enabled |-> {"cloud", "here"}, offline |-> FALSE]]}
=============================================================================
