----------------------------- MODULE ModelRouter -----------------------------
(***************************************************************************)
(* core/model_router.py: which model answers, and which ones are tried     *)
(* after it, under the user's cost and locality settings.                  *)
(*                                                                         *)
(* The score of a model weighs words in its name and what its provider     *)
(* says of it: eligible models come in any order here.                     *)
(***************************************************************************)
EXTENDS Integers, Sequences, SequencesExt

CONSTANTS
    Catalogue,           \* the rows of model_catalog
    Configured,          \* the providers that are switched on
    FreeRouter,          \* the row settings.free_router_model names, or NoModel
    NoModel              \* no row

Capabilities == {"tools", "vision"}

Modes == {"AUTO", "MANUAL", "FREE_ONLY", "LOCAL_ONLY", "HYBRID"}

(* can: the capabilities the provider confirms; id orders models by name. *)
Models ==
    [id : Nat, provider : Configured \cup {m.provider : m \in Catalogue}, free : BOOLEAN,
     local : BOOLEAN, router : BOOLEAN, can : SUBSET Capabilities]

ASSUME CatalogueAssumption ==
    /\ Catalogue \subseteq Models /\ IsFiniteSet(Catalogue)
    /\ \A m, n \in Catalogue : m.id = n.id => m = n
    /\ FreeRouter \in Catalogue \cup {NoModel}
    /\ NoModel \notin Catalogue

-----------------------------------------------------------------------------
FreeOnly(settings) == settings.freeOnly \/ settings.mode = "FREE_ONLY"

LocalOnly(settings) == settings.mode = "LOCAL_ONLY" \/ settings.offline

(* meets.  A router chooses a model that fits. *)
Meets(m, needs) == m.router \/ needs \subseteq m.can

Eligible(models, needs) == {m \in models : Meets(m, needs)}

Barred(m, settings) ==
    \/ FreeOnly(settings) /\ ~m.free
    \/ LocalOnly(settings) /\ ~m.local

(* Mutated form: free_only is not handed on. *)
CandidatesPaidToo(settings) ==
    {m \in Catalogue : (LocalOnly(settings) => m.local) /\ m.provider \in Configured}

Candidates(settings) ==
    {m \in Catalogue : ~Barred(m, settings) /\ m.provider \in Configured}

-----------------------------------------------------------------------------
Refusal == [model |-> NoModel, provider |-> "none", fallbacks |-> <<>>]

Leading(n, s) == SubSeq(s, 1, IF Len(s) < n THEN Len(s) ELSE n)

Selection(m, others) == [model |-> m, provider |-> m.provider, fallbacks |-> others]

(* _build: the first of a ranking, and the next three as fallbacks. *)
Build(ranked) == Selection(ranked[1], Leading(3, Tail(ranked)))

(* _fallback_models: free before paid, models before routers, then by id; *)
(* the free router at the end.                                            *)
TriedBefore(m, n) ==
    \/ m.free /\ ~n.free
    \/ m.free = n.free /\ ~m.router /\ n.router
    \/ m.free = n.free /\ m.router = n.router /\ m.id < n.id

Sorted(models) ==
    {s \in SetToSeqs(models) : \A i, j \in DOMAIN s : i < j => TriedBefore(s[i], s[j])}

WithRouter(chain, chosen, settings) ==
    IF LocalOnly(settings) \/ FreeRouter \in {chosen, NoModel} \cup ToSet(chain) THEN chain
    ELSE Append(chain, FreeRouter)

FallbackModels(chosen, settings) ==
    {WithRouter(Leading(3, others), chosen, settings) :
        others \in Sorted(Candidates(settings) \ {chosen})}

(* _select_explicit, for a model it does not pass over. *)
SelectExplicit(m, settings) ==
    IF Barred(m, settings) THEN {Refusal}
    ELSE {Selection(m, fallbacks) : fallbacks \in FallbackModels(m, settings)}

(* It passes over a model that is not in the catalogue, and over one whose *)
(* provider is switched off, unless the settings bar the model anyway.     *)
Binding(m, settings) ==
    m \in Catalogue /\ (Barred(m, settings) \/ m.provider \in Configured)

(* _router_fallback: no candidate has the capabilities. *)
RouterFallback(settings) ==
    IF ~LocalOnly(settings) /\ FreeRouter # NoModel /\ FreeRouter.provider \in Configured
    THEN Selection(FreeRouter, <<>>)
    ELSE Refusal

Automatic(settings, needs) ==
    LET candidates == Candidates(settings)
        local == Eligible({m \in candidates : m.local}, needs)
        ranked == IF settings.mode = "HYBRID" /\ local # {} THEN local
                  ELSE Eligible(candidates, needs)
    IN  IF candidates = {} THEN {Refusal}
        ELSE IF ranked = {} THEN {RouterFallback(settings)}
        ELSE {Build(ranking) : ranking \in SetToSeqs(ranked)}

(* select: what it may return; a refusal stands for the error it raises. *)
Select(settings, needs, wanted) ==
    IF Binding(wanted, settings) THEN SelectExplicit(wanted, settings)
    ELSE IF settings.mode = "MANUAL" /\ Binding(settings.pinned, settings)
         THEN SelectExplicit(settings.pinned, settings)
    ELSE Automatic(settings, needs)

=============================================================================
