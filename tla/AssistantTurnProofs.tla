------------------------- MODULE AssistantTurnProofs -------------------------
(***************************************************************************)
(* What TLAPS proves about AssistantTurn and the router it asks, for any   *)
(* number of turns at once, any catalogue and settings, any inputs and any *)
(* number of rounds, calls and pieces.                                     *)
(***************************************************************************)
EXTENDS AssistantTurn, FiniteSetTheorems, SequenceTheorems, TLAPS

(* A free router that is not free, which settings.js lets the user pick, is *)
(* the one model that may be asked against the settings: for its cost.      *)
Suits(m, settings) == Barred(m, settings) => m = FreeRouter /\ ~LocalOnly(settings)

(* What the router may hand to the turn. *)
Sound(s, settings) ==
    /\ s = [model |-> s.model, provider |-> s.provider, fallbacks |-> s.fallbacks]
    /\ s.fallbacks \in Seq(Catalogue)
    /\ s.model \in Catalogue /\ Suits(s.model, settings)
    /\ \A i \in 1 .. Len(s.fallbacks) : Suits(s.fallbacks[i], settings)

-----------------------------------------------------------------------------
(* The router. *)
LEMMA RankingIsSeq ==
  ASSUME NEW S, IsFiniteSet(S), NEW s \in SetToSeqs(S)
  PROVE  s \in Seq(S) /\ Len(s) = Cardinality(S)
<1>1. PICK n : n = Cardinality(S) /\ n \in Nat
  BY FS_CardinalityType
<1>2. s \in [1 .. n -> S]
  BY <1>1 DEF SetToSeqs
<1> QED
  BY <1>1, <1>2

LEMMA LeadingIsSeq ==
  ASSUME NEW S, NEW s \in Seq(S), NEW k \in Nat
  PROVE  Leading(k, s) \in Seq(S)
<1>1. PICK n : n = IF Len(s) < k THEN Len(s) ELSE k
  OBVIOUS
<1>2. n \in Int /\ \A i \in 1 .. n : s[i] \in S
  BY <1>1
<1>3. SubSeq(s, 1, n) \in Seq(S)
  BY <1>2, SubSeqProperties
<1> QED
  BY <1>1, <1>3 DEF Leading

(* No candidate is barred. *)
LEMMA CandidatesSuit ==
  ASSUME NEW settings
  PROVE  /\ Candidates(settings) \subseteq Catalogue /\ IsFiniteSet(Candidates(settings))
         /\ \A m \in Candidates(settings) : ~Barred(m, settings)
<1>1. /\ Candidates(settings) \subseteq Catalogue
      /\ \A m \in Candidates(settings) : ~Barred(m, settings)
  BY DEF Candidates
<1>2. IsFiniteSet(Catalogue)
  BY CatalogueAssumption
<1> QED
  BY <1>1, <1>2, FS_Subset

LEMMA SuitsUnlessBarred ==
  ASSUME NEW settings, NEW s \in Seq(Catalogue), NEW S, s \in Seq(S),
         \A m \in S : ~Barred(m, settings)
  PROVE  \A i \in 1 .. Len(s) : Suits(s[i], settings)
BY DEF Suits

LEMMA FallbacksSuit ==
  ASSUME NEW settings, NEW chosen, NEW s \in FallbackModels(chosen, settings)
  PROVE  s \in Seq(Catalogue) /\ \A i \in 1 .. Len(s) : Suits(s[i], settings)
<1> DEFINE C == Candidates(settings) \ {chosen}
<1>1. /\ C \subseteq Catalogue /\ IsFiniteSet(C)
      /\ \A m \in C : ~Barred(m, settings)
  BY CandidatesSuit, FS_Subset
<1>2. PICK others \in Sorted(C) : s = WithRouter(Leading(3, others), chosen, settings)
  BY DEF FallbackModels
<1>3. others \in Seq(C)
  BY <1>1, RankingIsSeq DEF Sorted
<1>4. PICK chain : chain = Leading(3, others)
  OBVIOUS
<1> HIDE DEF C
<1>5. chain \in Seq(C)
  BY <1>3, <1>4, LeadingIsSeq
<1>6. chain \in Seq(Catalogue) /\ \A i \in 1 .. Len(chain) : Suits(chain[i], settings)
  BY <1>1, <1>5, SuitsUnlessBarred, SeqMonotonic
<1>7. CASE s = chain
  BY <1>6, <1>7
<1>8. CASE s # chain
  <2>1. s = Append(chain, FreeRouter) /\ ~LocalOnly(settings) /\ FreeRouter # NoModel
    BY <1>2, <1>4, <1>8 DEF WithRouter
  <2>2. FreeRouter \in Catalogue /\ Suits(FreeRouter, settings)
    BY <2>1, CatalogueAssumption DEF Suits
  <2>3. /\ Append(chain, FreeRouter) \in Seq(Catalogue)
        /\ Len(Append(chain, FreeRouter)) = Len(chain) + 1
        /\ \A i \in 1 .. Len(chain) : Append(chain, FreeRouter)[i] = chain[i]
        /\ Append(chain, FreeRouter)[Len(chain) + 1] = FreeRouter
    BY <1>6, <2>2, AppendProperties
  <2>4. \A i \in 1 .. Len(chain) + 1 : i \in 1 .. Len(chain) \/ i = Len(chain) + 1
    BY <1>6
  <2> QED
    BY <1>6, <2>1, <2>2, <2>3, <2>4
<1> QED
  BY <1>7, <1>8

LEMMA ExplicitIsSound ==
  ASSUME NEW settings, NEW m, Binding(m, settings), NEW s \in SelectExplicit(m, settings)
  PROVE  s = Refusal \/ Sound(s, settings)
<1>1. CASE Barred(m, settings)
  BY <1>1 DEF SelectExplicit
<1>2. CASE ~Barred(m, settings)
  <2>1. PICK fallbacks \in FallbackModels(m, settings) : s = Selection(m, fallbacks)
    BY <1>2 DEF SelectExplicit
  <2>2. /\ s.model = m /\ s.fallbacks = fallbacks
        /\ s = [model |-> s.model, provider |-> s.provider, fallbacks |-> s.fallbacks]
    BY <2>1 DEF Selection
  <2>3. m \in Catalogue /\ Suits(m, settings)
    BY <1>2 DEF Binding, Suits
  <2> QED
    BY <2>2, <2>3, FallbacksSuit DEF Sound
<1> QED
  BY <1>1, <1>2

LEMMA BuildIsSound ==
  ASSUME NEW settings, NEW S, S \subseteq Candidates(settings), S # {},
         NEW ranking \in SetToSeqs(S)
  PROVE  Sound(Build(ranking), settings)
<1>1. /\ S \subseteq Catalogue /\ IsFiniteSet(S)
      /\ \A m \in S : ~Barred(m, settings)
  BY CandidatesSuit, FS_Subset
<1>2. ranking \in Seq(S) /\ Len(ranking) = Cardinality(S)
  BY <1>1, RankingIsSeq
<1>3. Len(ranking) > 0 /\ ranking # <<>>
  BY <1>1, <1>2, FS_EmptySet, FS_CardinalityType
<1>4. ranking[1] \in S
  BY <1>2, <1>3
<1>5. Tail(ranking) \in Seq(S)
  BY <1>2, <1>3, HeadTailProperties
<1>6. PICK others : others = Leading(3, Tail(ranking))
  OBVIOUS
<1>7. others \in Seq(S)
  BY <1>5, <1>6, LeadingIsSeq
<1>8. others \in Seq(Catalogue) /\ \A i \in 1 .. Len(others) : Suits(others[i], settings)
  BY <1>1, <1>7, SuitsUnlessBarred, SeqMonotonic
<1>9. Build(ranking) =
        [model |-> ranking[1], provider |-> ranking[1].provider, fallbacks |-> others]
  BY <1>6 DEF Build, Selection
<1> QED
  BY <1>1, <1>4, <1>8, <1>9 DEF Sound, Suits

LEMMA RouterIsSound ==
  ASSUME NEW settings
  PROVE  RouterFallback(settings) = Refusal \/ Sound(RouterFallback(settings), settings)
<1>1. CASE ~LocalOnly(settings) /\ FreeRouter # NoModel /\ FreeRouter.provider \in Configured
  <2>1. RouterFallback(settings) =
          [model |-> FreeRouter, provider |-> FreeRouter.provider, fallbacks |-> <<>>]
    BY <1>1 DEF RouterFallback, Selection
  <2>2. FreeRouter \in Catalogue /\ Suits(FreeRouter, settings)
    BY <1>1, CatalogueAssumption DEF Suits
  <2>3. <<>> \in Seq(Catalogue) /\ Len(<<>>) = 0
    BY EmptySeq
  <2> QED
    BY <2>1, <2>2, <2>3 DEF Sound
<1>2. CASE ~(~LocalOnly(settings) /\ FreeRouter # NoModel /\ FreeRouter.provider \in Configured)
  BY <1>2 DEF RouterFallback
<1> QED
  BY <1>1, <1>2

LEMMA AutomaticIsSound ==
  ASSUME NEW settings, NEW needs, NEW s \in Automatic(settings, needs)
  PROVE  s = Refusal \/ Sound(s, settings)
<1> DEFINE local == Eligible({m \in Candidates(settings) : m.local}, needs)
           ranked == IF settings.mode = "HYBRID" /\ local # {} THEN local
                     ELSE Eligible(Candidates(settings), needs)
<1>1. ranked \subseteq Candidates(settings)
  BY DEF Eligible
<1>2. \/ s = Refusal \/ s = RouterFallback(settings)
      \/ ranked # {} /\ \E ranking \in SetToSeqs(ranked) : s = Build(ranking)
  BY DEF Automatic
<1> HIDE DEF ranked
<1> QED
  BY <1>1, <1>2, BuildIsSound, RouterIsSound

(* The router refuses, or names models of the catalogue that the settings *)
(* allow, whatever is asked for, pinned or needed (ModelRouter.select).   *)
THEOREM SelectionSuits ==
  ASSUME NEW settings, NEW needs, NEW wanted, NEW s \in Select(settings, needs, wanted)
  PROVE  s = Refusal \/ Sound(s, settings)
BY ExplicitIsSound, AutomaticIsSound DEF Select

-----------------------------------------------------------------------------
(* The domains of the turns' variables. *)
Domains ==
    /\ pc \in [Turns -> PCs]
    /\ input = [t \in Turns |-> input[t]]
    /\ selection = [t \in Turns |-> selection[t]]
    /\ attempt = [t \in Turns |-> attempt[t]]
    /\ requests = [t \in Turns |-> requests[t]]
    /\ round \in [Turns -> Nat] /\ calls \in [Turns -> Nat]
    /\ working \in [Turns -> [calls : SUBSET (Nat \X Nat), results : SUBSET (Nat \X Nat)]]

(* Between two requests all calls have results; while a round's tools run, the *)
(* calls without one are of this round.                                        *)
CallsInv ==
    \A t \in Turns :
        /\ pc[t] \in {"idle", "routing", "reading", "generating", "streaming"} =>
              working[t].calls = working[t].results
        /\ pc[t] = "acting" => working[t].calls = working[t].results \cup CallsOf(t)

LEMMA DomainsInit == Init => Domains
BY DEF Init, Domains, PCs

LEMMA DomainsNext == Domains /\ [Next]_turnVars => Domains'
<1> SUFFICES ASSUME Domains, [Next]_turnVars PROVE Domains'
  OBVIOUS
<1> USE DEF Domains, setup, tries, rounds, texts, Put
<1>1. ASSUME NEW t \in Turns, Ask(t) PROVE Domains'
  BY <1>1 DEF Ask, Goto, PCs
<1>0. \A t \in Turns : CallsOf(t) \subseteq Nat \X Nat
  BY DEF CallsOf
<1>2. ASSUME NEW t \in Turns, Route(t) PROVE Domains'
  BY <1>2 DEF Route, Goto, PCs
<1>3. ASSUME NEW t \in Turns, ReadHistory(t) PROVE Domains'
  BY <1>3 DEF ReadHistory, Goto, PCs
<1>4. ASSUME NEW t \in Turns, AgentsAnswer(t) PROVE Domains'
  BY <1>4 DEF AgentsAnswer, Goto, PCs
<1>5. ASSUME NEW t \in Turns, Generate(t) PROVE Domains'
  BY <1>5 DEF Generate, SendRequest, Goto, PCs
<1>6. ASSUME NEW t \in Turns, StreamEnds(t) PROVE Domains'
  <2>1. working' = working \/ working' = [working EXCEPT ![t].calls = @ \cup CallsOf(t)]
    BY <1>6 DEF StreamEnds, EndOfStream
  <2>2. working' \in [Turns -> [calls : SUBSET (Nat \X Nat), results : SUBSET (Nat \X Nat)]]
    BY <1>0, <2>1
  <2>3. /\ pc' \in [Turns -> PCs] /\ selection' = [u \in Turns |-> selection'[u]]
        /\ UNCHANGED <<input, attempt, requests, round, calls>>
    BY <1>6 DEF StreamEnds, EndOfStream, Goto, PCs
  <2> QED
    BY <2>2, <2>3
<1>7. ASSUME NEW t \in Turns, StreamBreaks(t) PROVE Domains'
  BY <1>7 DEF StreamBreaks, SendRequest, Goto, PCs
<1>8. ASSUME NEW t \in Turns, UseTool(t) PROVE Domains'
  <2>1. PICK c \in CallsOf(t) : working' = [working EXCEPT ![t].results = @ \cup {c}]
    BY <1>8 DEF UseTool, OpenCalls
  <2>2. working' \in [Turns -> [calls : SUBSET (Nat \X Nat), results : SUBSET (Nat \X Nat)]]
    BY <1>0, <2>1
  <2>3. UNCHANGED <<pc, input, selection, attempt, requests, round, calls>>
    BY <1>8 DEF UseTool
  <2> QED
    BY <2>2, <2>3
<1>9. ASSUME NEW t \in Turns, EndRound(t) PROVE Domains'
  <2>1. round' = round \/ round' = [round EXCEPT ![t] = round[t] + 1]
    BY <1>9 DEF EndRound, NextRound
  <2>2. round' \in [Turns -> Nat]
    BY <2>1
  <2>3. pc' \in [Turns -> PCs] /\ UNCHANGED <<input, selection, attempt, requests, calls, working>>
    BY <1>9 DEF EndRound, Goto, PCs
  <2> QED
    BY <2>2, <2>3
<1>10. ASSUME NEW t \in Turns, ToolRaises(t) \/ Complete(t) \/ StoreFailure(t) PROVE Domains'
  <2>1. pc' \in [Turns -> PCs]
    BY <1>10 DEF ToolRaises, Complete, StoreFailure, Goto, PCs, Over
  <2>2. UNCHANGED <<input, selection, attempt, requests, round, calls, working>>
    BY <1>10 DEF ToolRaises, Complete, StoreFailure
  <2> QED
    BY <2>1, <2>2
<1>11. ASSUME NEW t \in Turns, StoreAnswer(t) PROVE Domains'
  BY <1>11 DEF StoreAnswer, Goto, PCs
<1>12. ASSUME NEW t \in Turns, Piece(t) \/ CallPiece(t) PROVE Domains'
  <2>1. calls' = calls \/ calls' = [calls EXCEPT ![t] = calls[t] + 1]
    BY <1>12 DEF Piece, CallPiece
  <2>2. UNCHANGED <<pc, input, selection, attempt, requests, round, working>>
    BY <1>12 DEF Piece, CallPiece
  <2>3. calls' \in [Turns -> Nat]
    BY <2>1
  <2> QED
    BY <2>2, <2>3
<1>13. ASSUME NEW t \in Turns, Disconnect(t) PROVE Domains'
  BY <1>13 DEF Disconnect, Goto, PCs, Over
<1>14. ASSUME Rest \/ UNCHANGED turnVars PROVE Domains'
  BY <1>14 DEF Rest, turnVars
<1> QED
  BY <1>1, <1>2, <1>3, <1>4, <1>5, <1>6, <1>7, <1>8, <1>9, <1>10, <1>11, <1>12, <1>13, <1>14
     DEF Next, Proceed

LEMMA CallsNext == Domains /\ CallsInv /\ [Next]_turnVars => CallsInv'
<1> SUFFICES ASSUME Domains, CallsInv, [Next]_turnVars PROVE CallsInv'
  OBVIOUS
<1> USE DEF Domains, CallsInv, setup, tries, rounds, texts, Put, CallsOf
<1>1. ASSUME NEW t \in Turns, Ask(t) PROVE CallsInv'
  BY <1>1 DEF Ask, Goto
<1>2. ASSUME NEW t \in Turns, Route(t) PROVE CallsInv'
  BY <1>2 DEF Route, Goto
<1>3. ASSUME NEW t \in Turns, ReadHistory(t) PROVE CallsInv'
  BY <1>3 DEF ReadHistory, Goto
<1>4. ASSUME NEW t \in Turns, AgentsAnswer(t) PROVE CallsInv'
  BY <1>4 DEF AgentsAnswer, Goto
<1>5. ASSUME NEW t \in Turns, Generate(t) PROVE CallsInv'
  BY <1>5 DEF Generate, SendRequest, Goto
<1>6. ASSUME NEW t \in Turns, StreamEnds(t) PROVE CallsInv'
  BY <1>6 DEF StreamEnds, EndOfStream, Goto
<1>7. ASSUME NEW t \in Turns, StreamBreaks(t) PROVE CallsInv'
  BY <1>7 DEF StreamBreaks, SendRequest, Goto
<1>8. ASSUME NEW t \in Turns, UseTool(t) PROVE CallsInv'
  BY <1>8 DEF UseTool, OpenCalls
<1>9. ASSUME NEW t \in Turns, EndRound(t) PROVE CallsInv'
  <2>1. pc[t] = "acting" /\ CallsOf(t) \subseteq working[t].results
    BY <1>9 DEF EndRound, RoundDone, OpenCalls
  <2>2. working[t].calls = working[t].results
    BY <2>1
  <2>3. /\ \E place \in {"generating", "storing"} : pc' = [pc EXCEPT ![t] = place]
        /\ round' = round \/ round' = [round EXCEPT ![t] = NextRound(round[t])]
        /\ UNCHANGED <<working, calls>>
    BY <1>9 DEF EndRound, Goto
  <2>4. /\ pc'[t] # "acting"
        /\ \A u \in Turns \ {t} : pc'[u] = pc[u] /\ round'[u] = round[u]
    BY <2>3
  <2> QED
    BY <2>2, <2>3, <2>4
<1>10. ASSUME NEW t \in Turns, ToolRaises(t) \/ Complete(t) \/ StoreFailure(t) PROVE CallsInv'
  BY <1>10 DEF ToolRaises, Complete, StoreFailure, Goto
<1>11. ASSUME NEW t \in Turns, StoreAnswer(t) PROVE CallsInv'
  BY <1>11 DEF StoreAnswer, Goto
<1>12. ASSUME NEW t \in Turns, Piece(t) \/ CallPiece(t) PROVE CallsInv'
  BY <1>12 DEF Piece, CallPiece
<1>13. ASSUME NEW t \in Turns, Disconnect(t) PROVE CallsInv'
  BY <1>13 DEF Disconnect, Goto
<1>14. ASSUME Rest \/ UNCHANGED turnVars PROVE CallsInv'
  BY <1>14 DEF Rest, turnVars
<1> QED
  BY <1>1, <1>2, <1>3, <1>4, <1>5, <1>6, <1>7, <1>8, <1>9, <1>10, <1>11, <1>12, <1>13, <1>14
     DEF Next, Proceed

(* Every tool call of a round has its result before a model is asked again, *)
(* whichever model of the chain made the calls (core/assistant.py).         *)
THEOREM CallsAlwaysAnswered == Spec => []ResultsMatchCalls
<1>1. Init => Domains /\ CallsInv
  <2>1. ASSUME Init PROVE CallsInv
    BY <2>1 DEF Init, CallsInv
  <2> QED
    BY <2>1, DomainsInit
<1>2. Domains /\ CallsInv /\ [Next]_turnVars => Domains' /\ CallsInv'
  BY DomainsNext, CallsNext
<1>3. CallsInv => ResultsMatchCalls
  BY DEF CallsInv, ResultsMatchCalls
<1> QED
  BY <1>1, <1>2, <1>3, PTL DEF Spec
-----------------------------------------------------------------------------
(* What is asked, and of whom the next request may be. *)
RequestsInv ==
    \A t \in Turns :
        /\ pc[t] \in {"idle", "routing"} => requests[t] = {}
        /\ pc[t] \in {"reading", "generating", "streaming", "acting"} =>
              Sound(selection[t], input[t].settings)
        /\ pc[t] = "streaming" => attempt[t] \in 1 .. Len(Tried(t))
        /\ \A r \in requests[t] :
              r.model \in Catalogue /\ Suits(r.model, input[t].settings)

(* Every model of the chain suits the settings. *)
LEMMA ChainSuits ==
  ASSUME NEW t, NEW settings, Sound(selection[t], settings)
  PROVE  /\ Len(Tried(t)) \in Nat /\ 1 \in 1 .. Len(Tried(t))
         /\ \A i \in 1 .. Len(Tried(t)) :
                Tried(t)[i] \in Catalogue /\ Suits(Tried(t)[i], settings)
         /\ Served(t) \subseteq 1 .. Len(Tried(t))
<1>1. PICK m, rest : m = selection[t].model /\ rest = selection[t].fallbacks
  OBVIOUS
<1>2. /\ m \in Catalogue /\ Suits(m, settings) /\ rest \in Seq(Catalogue)
      /\ \A i \in 1 .. Len(rest) : Suits(rest[i], settings)
  BY <1>1 DEF Sound
<1>3. <<m>> \in Seq(Catalogue) /\ Len(<<m>>) = 1 /\ <<m>>[1] = m
  BY <1>2
<1>4. PICK chain : chain = <<m>> \o rest
  OBVIOUS
<1>5. chain = Tried(t)
  BY <1>1, <1>4 DEF Tried
<1>6. /\ chain \in Seq(Catalogue) /\ Len(chain) = Len(<<m>>) + Len(rest)
      /\ \A i \in 1 .. Len(<<m>>) + Len(rest) :
            chain[i] = IF i <= Len(<<m>>) THEN <<m>>[i] ELSE rest[i - Len(<<m>>)]
  BY <1>2, <1>3, <1>4, ConcatProperties
<1>7. /\ Len(chain) = 1 + Len(rest) /\ Len(rest) \in Nat
      /\ \A i \in 1 .. 1 + Len(rest) : chain[i] = IF i <= 1 THEN m ELSE rest[i - 1]
  BY <1>2, <1>3, <1>6
<1>8. ASSUME NEW i \in 1 .. Len(chain)
      PROVE  chain[i] \in Catalogue /\ Suits(chain[i], settings)
  <2>1. CASE i = 1
    BY <1>2, <1>7, <2>1
  <2>2. CASE i # 1
    <3>1. i - 1 \in 1 .. Len(rest)
      BY <1>7, <2>2
    <3>2. chain[i] = rest[i - 1]
      BY <1>7, <2>2
    <3> QED
      BY <1>2, <3>1, <3>2
  <2> QED
    BY <2>1, <2>2
<1>9. Served(t) \subseteq 1 .. Len(chain)
  BY <1>5, <1>7 DEF Served
<1> QED
  BY <1>5, <1>7, <1>8, <1>9

(* A fallback that answers stays the model of the turn. *)
LEMMA KeptIsSound ==
  ASSUME NEW s, NEW settings, Sound(s, settings), NEW m \in Catalogue, Suits(m, settings)
  PROVE  Sound([s EXCEPT !.model = m], settings)
<1>1. PICK model, provider, fallbacks :
        s = [model |-> model, provider |-> provider, fallbacks |-> fallbacks]
  BY DEF Sound
<1>2. [s EXCEPT !.model = m] = [model |-> m, provider |-> provider, fallbacks |-> fallbacks]
  BY <1>1
<1>3. /\ fallbacks \in Seq(Catalogue)
      /\ \A i \in 1 .. Len(fallbacks) : Suits(fallbacks[i], settings)
  BY <1>1 DEF Sound
<1> QED
  BY <1>2, <1>3 DEF Sound

LEMMA RequestsNext == Domains /\ RequestsInv /\ [Next]_turnVars => RequestsInv'
<1> SUFFICES ASSUME Domains, RequestsInv, [Next]_turnVars PROVE RequestsInv'
  OBVIOUS
<1> USE DEF Domains, RequestsInv, setup, tries, rounds, texts, Put, Tried
<1>1. ASSUME NEW t \in Turns, Ask(t) PROVE RequestsInv'
  BY <1>1 DEF Ask, Goto
<1>2. ASSUME NEW t \in Turns, Route(t) PROVE RequestsInv'
  <2>1. PICK s \in Select(input[t].settings, Needs(t), input[t].wanted) :
          /\ selection' = [selection EXCEPT ![t] = s]
          /\ pc' = [pc EXCEPT ![t] = IF s = Refusal THEN "failing" ELSE "reading"]
    BY <1>2 DEF Route, Goto
  <2>2. s = Refusal \/ Sound(s, input[t].settings)
    BY <2>1, SelectionSuits
  <2>3. pc[t] = "routing" /\ UNCHANGED <<input, attempt, requests>>
    BY <1>2 DEF Route
  <2> QED
    BY <2>1, <2>2, <2>3
<1>3. ASSUME NEW t \in Turns, ReadHistory(t) PROVE RequestsInv'
  BY <1>3 DEF ReadHistory, Goto
<1>4. ASSUME NEW t \in Turns, AgentsAnswer(t) PROVE RequestsInv'
  BY <1>4 DEF AgentsAnswer, Goto
<1>5. ASSUME NEW t \in Turns, NEW i \in 1 .. Len(Tried(t)), SendRequest(t, i),
             pc[t] \in {"generating", "streaming"}, pc' = [pc EXCEPT ![t] = "streaming"],
             UNCHANGED <<input, selection>>
      PROVE  RequestsInv'
  <2>1. /\ Sound(selection[t], input[t].settings)
        /\ Tried(t)[i] \in Catalogue /\ Suits(Tried(t)[i], input[t].settings)
    BY <1>5, ChainSuits
  <2>2. /\ attempt' = [attempt EXCEPT ![t] = i]
        /\ requests' = [requests EXCEPT ![t] = requests[t] \cup {RequestOf(t, i)}]
        /\ RequestOf(t, i).model = Tried(t)[i]
    BY <1>5 DEF SendRequest, RequestOf
  <2>3. \A r \in requests[t] \cup {RequestOf(t, i)} :
          r.model \in Catalogue /\ Suits(r.model, input[t].settings)
    BY <2>1, <2>2
  <2> QED
    BY <1>5, <2>1, <2>2, <2>3
<1>6. ASSUME NEW t \in Turns, Generate(t) PROVE RequestsInv'
  <2>1. Sound(selection[t], input[t].settings)
    BY <1>6 DEF Generate
  <2>2. 1 \in 1 .. Len(Tried(t))
    BY <2>1, ChainSuits
  <2> QED
    BY <1>5, <1>6, <2>2 DEF Generate, Goto
<1>7. ASSUME NEW t \in Turns, StreamEnds(t) PROVE RequestsInv'
  <2>1. Sound(selection[t], input[t].settings) /\ attempt[t] \in 1 .. Len(Tried(t))
    BY <1>7 DEF StreamEnds
  <2>2. Speaker(t) \in Catalogue /\ Suits(Speaker(t), input[t].settings)
    BY <2>1, ChainSuits DEF Speaker
  <2>3. Sound([selection[t] EXCEPT !.model = Speaker(t)], input[t].settings)
    BY <2>1, <2>2, KeptIsSound
  <2>4. /\ pc[t] = "streaming" /\ UNCHANGED <<input, attempt, requests>>
        /\ \E place \in {"storing", "acting"} : pc' = [pc EXCEPT ![t] = place]
        /\ selection' = [selection EXCEPT ![t] = [selection[t] EXCEPT !.model = Speaker(t)]]
    BY <1>7 DEF StreamEnds, EndOfStream, Goto
  <2> QED
    BY <2>3, <2>4
<1>8. ASSUME NEW t \in Turns, StreamBreaks(t) PROVE RequestsInv'
  <2>1. CASE Later(t) = {}
    <3>1. pc' = [pc EXCEPT ![t] = "failing"] /\ UNCHANGED <<input, selection, attempt, requests>>
      BY <1>8, <2>1 DEF StreamBreaks, Goto
    <3> QED
      BY <3>1
  <2>2. CASE Later(t) # {}
    <3>1. Sound(selection[t], input[t].settings) /\ pc[t] = "streaming"
      BY <1>8 DEF StreamBreaks
    <3>2. PICK i \in Later(t) : SendRequest(t, i) /\ UNCHANGED <<pc, input, selection>>
      BY <1>8, <2>2 DEF StreamBreaks
    <3>3. i \in 1 .. Len(Tried(t))
      BY <3>1, ChainSuits DEF Later
    <3> QED
      BY <1>5, <3>1, <3>2, <3>3
  <2> QED
    BY <2>1, <2>2
<1>9. ASSUME NEW t \in Turns, UseTool(t) PROVE RequestsInv'
  BY <1>9 DEF UseTool
<1>10. ASSUME NEW t \in Turns, EndRound(t) PROVE RequestsInv'
  <2>1. /\ pc[t] = "acting" /\ UNCHANGED <<input, selection, attempt, requests>>
        /\ \E place \in {"generating", "storing"} : pc' = [pc EXCEPT ![t] = place]
    BY <1>10 DEF EndRound, Goto
  <2> QED
    BY <2>1
<1>11. ASSUME NEW t \in Turns, ToolRaises(t) \/ Complete(t) \/ StoreFailure(t)
       PROVE  RequestsInv'
  <2>1. /\ UNCHANGED <<input, selection, attempt, requests>>
        /\ \E place \in {"failing", "done", "failed"} : pc' = [pc EXCEPT ![t] = place]
    BY <1>11 DEF ToolRaises, Complete, StoreFailure, Goto
  <2> QED
    BY <2>1
<1>12. ASSUME NEW t \in Turns, StoreAnswer(t) PROVE RequestsInv'
  BY <1>12 DEF StoreAnswer, Goto
<1>13. ASSUME NEW t \in Turns, Piece(t) \/ CallPiece(t) PROVE RequestsInv'
  BY <1>13 DEF Piece, CallPiece
<1>14. ASSUME NEW t \in Turns, Disconnect(t) PROVE RequestsInv'
  BY <1>14 DEF Disconnect, Goto
<1>15. ASSUME Rest \/ UNCHANGED turnVars PROVE RequestsInv'
  BY <1>15 DEF Rest, turnVars
<1> QED
  BY <1>1, <1>2, <1>3, <1>4, <1>6, <1>7, <1>8, <1>9, <1>10, <1>11, <1>12, <1>13, <1>14, <1>15
     DEF Next, Proceed

LEMMA RequestsSuit == Spec => []RequestsInv
<1>1. Init => Domains /\ RequestsInv
  <2>1. ASSUME Init PROVE RequestsInv
    BY <2>1 DEF Init, RequestsInv
  <2> QED
    BY <2>1, DomainsInit
<1>2. Domains /\ RequestsInv /\ [Next]_turnVars => Domains' /\ RequestsInv'
  BY DomainsNext, RequestsNext
<1> QED
  BY <1>1, <1>2, PTL DEF Spec

(* Whatever the settings name as free router, the requests of every attempt and *)
(* every round stay within the offline and cost settings but for that model.    *)
THEOREM SettingsHeldButForTheRouter == Spec => []OnlyTheRouterMayCost
<1>1. RequestsInv => OnlyTheRouterMayCost
  BY DEF RequestsInv, OnlyTheRouterMayCost, Suits
<1> QED
  BY <1>1, RequestsSuit, PTL

-----------------------------------------------------------------------------
(* The rows of the conversation, and the texts of a turn. *)
TurnRows == [role : {"user", "assistant"}, turn : Turns, text : Seq(Int), failed : BOOLEAN]

AllRows == ToSet(Past) \cup TurnRows

TextTypes ==
    /\ table \in Seq(AllRows)
    /\ answer \in [Turns -> Seq(Int)]
    /\ note \in [Turns -> Seq(Int)]
    /\ shown \in [Turns -> Seq(Int)]

(* What a turn has told its client, and what of it is in the conversation: *)
(* no answer before one is stored, the note alone is not shown until then. *)
Told(t) ==
    /\ pc[t] \in {"idle", "routing", "reading", "delegating"} => shown[t] = <<>>
    /\ pc[t] \in {"idle", "routing", "reading", "delegating", "generating", "streaming",
                   "acting"} => answer[t] = shown[t] /\ note[t] = <<>> /\ AnswersOf(t) = {}
    /\ pc[t] = "storing" =>
        /\ \/ note[t] = <<>> /\ answer[t] = shown[t]
           \/ note[t] = <<-1>> /\ answer[t] = Append(shown[t], -1)
        /\ AnswersOf(t) = {}
    /\ pc[t] = "failing" => AnswersOf(t) = {}
    /\ pc[t] \in {"completing", "done", "failed"} => AnswersOf(t) # {}
    /\ pc[t] \in {"completing", "done"} => \A i \in AnswersOf(t) : table[i].text = shown[t]
    /\ \A i, j \in AnswersOf(t) : i = j

TextInv == TextTypes /\ \A t \in Turns : Told(t)

LEMMA Unwritten ==
  ASSUME UNCHANGED table
  PROVE  \A u : AnswersOf(u)' = AnswersOf(u)
BY DEF AnswersOf

LEMMA Written ==
  ASSUME TextTypes, NEW row \in TurnRows, table' = Append(table, row)
  PROVE  /\ table' \in Seq(AllRows)
         /\ \A u : \A i \in AnswersOf(u) : table'[i] = table[i]
         /\ \A u : ~(row.role = "assistant" /\ row.turn = u) => AnswersOf(u)' = AnswersOf(u)
         /\ row.role = "assistant" =>
              AnswersOf(row.turn)' = AnswersOf(row.turn) \cup {Len(table) + 1}
         /\ table'[Len(table) + 1] = row
<1>1. /\ table' \in Seq(AllRows) /\ Len(table') = Len(table) + 1
      /\ \A i \in 1 .. Len(table) : table'[i] = table[i]
      /\ table'[Len(table) + 1] = row
  BY AppendProperties DEF TextTypes, AllRows
<1>2. PICK n : n = Len(table) /\ n \in Nat /\ DOMAIN table = 1 .. n
  BY LenProperties DEF TextTypes
<1>3. DOMAIN table' = 1 .. n + 1
  BY <1>1, <1>2, LenProperties
<1>4. \A i : i \in 1 .. n + 1 <=> i \in 1 .. n \/ i = n + 1
  BY <1>2
<1>5. \A u : \A i \in AnswersOf(u) : i \in 1 .. n
  BY <1>2 DEF AnswersOf
<1>6. ASSUME NEW u
      PROVE  AnswersOf(u)' = AnswersOf(u) \cup
                (IF row.role = "assistant" /\ row.turn = u THEN {n + 1} ELSE {})
  <2>1. AnswersOf(u)' =
          {i \in 1 .. n + 1 : table'[i].role = "assistant" /\ table'[i].turn = u}
    BY <1>3 DEF AnswersOf
  <2>2. AnswersOf(u) = {i \in 1 .. n : table[i].role = "assistant" /\ table[i].turn = u}
    BY <1>2 DEF AnswersOf
  <2> QED
    BY <1>1, <1>2, <1>4, <2>1, <2>2
<1> QED
  BY <1>1, <1>2, <1>5, <1>6

(* Only what a step of one turn does to that turn needs a proof. *)
LEMMA OneTurnMoves ==
  ASSUME TextInv, NEW t \in Turns,
         \/ UNCHANGED table
         \/ \E row \in TurnRows : row.turn = t /\ table' = Append(table, row),
         answer' \in [Turns -> Seq(Int)], note' \in [Turns -> Seq(Int)],
         shown' \in [Turns -> Seq(Int)],
         \A u \in Turns \ {t} : /\ pc'[u] = pc[u] /\ answer'[u] = answer[u]
                                /\ note'[u] = note[u] /\ shown'[u] = shown[u],
         Told(t)'
  PROVE  TextInv'
<1>1. TextTypes'
  BY Written DEF TextInv, TextTypes
<1>2. ASSUME NEW u \in Turns \ {t} PROVE Told(u)'
  <2>1. AnswersOf(u)' = AnswersOf(u) /\ \A i \in AnswersOf(u) : table'[i] = table[i]
    BY Written, Unwritten DEF TextInv
  <2>2. PICK A : A = AnswersOf(u) /\ A = AnswersOf(u)'
    BY <2>1
  <2>3. \A i \in A : table'[i].text = table[i].text
    BY <2>1, <2>2
  <2>4. Told(u)
    BY DEF TextInv
  <2>5. PICK place, a, b, c :
          /\ place = pc[u] /\ a = answer[u] /\ b = note[u] /\ c = shown[u]
          /\ place = pc'[u] /\ a = answer'[u] /\ b = note'[u] /\ c = shown'[u]
    OBVIOUS
  <2> QED
    BY <2>2, <2>3, <2>4, <2>5, ZenonT(60) DEF Told
<1> QED
  BY <1>1, <1>2 DEF TextInv

LEMMA TextInit == Init => TextInv
<1> SUFFICES ASSUME Init PROVE TextInv
  OBVIOUS
<1>1. /\ Past \in Seq(ToSet(Past)) /\ ToSet(Past) \subseteq AllRows
      /\ \A i \in DOMAIN Past : Past[i].turn \notin Turns
  BY TurnAssumption DEF AllRows
<1>2. table \in Seq(AllRows)
  BY <1>1, SeqMonotonic DEF Init
<1>3. <<>> \in Seq(Int)
  BY EmptySeq
<1>4. TextTypes
  BY <1>2, <1>3 DEF Init, TextTypes
<1>5. \A t \in Turns : AnswersOf(t) = {}
  BY <1>1 DEF Init, AnswersOf
<1>6. \A t \in Turns : Told(t)
  BY <1>5 DEF Init, Told
<1> QED
  BY <1>4, <1>6 DEF TextInv
(* A turn goes on, and neither the table nor its texts change. *)
LEMMA GoesOn ==
  ASSUME Domains, TextInv, NEW t \in Turns, NEW place, pc' = [pc EXCEPT ![t] = place],
         UNCHANGED <<table, answer, note, shown>>,
         \/ pc[t] = "routing" /\ place \in {"reading", "failing"}
         \/ pc[t] = "reading" /\ place \in {"generating", "delegating"}
         \/ pc[t] = "generating" /\ place = "streaming"
         \/ pc[t] = "streaming" /\ place \in {"storing", "acting", "failing"}
         \/ pc[t] = "acting" /\ place \in {"generating", "failing"}
         \/ pc[t] = "completing" /\ place = "done"
         \/ place = "gone"
  PROVE  TextInv'
<1>1. PICK A : A = AnswersOf(t) /\ A = AnswersOf(t)'
  BY Unwritten
<1>2. Told(t) /\ pc'[t] = place
  BY DEF Domains, TextInv
<1>3. Told(t)'
  BY <1>1, <1>2 DEF Told
<1>4. \A u \in Turns \ {t} : pc'[u] = pc[u]
  BY DEF Domains
<1> QED
  BY <1>3, <1>4, OneTurnMoves DEF TextInv, TextTypes

LEMMA NothingTold ==
  ASSUME TextInv, UNCHANGED <<table, pc, answer, note, shown>>
  PROVE  TextInv'
BY Unwritten DEF TextInv, TextTypes, Told

(* Jarvis adds a note of its own. *)
LEMMA IsNoted ==
  ASSUME Domains, TextInv, NEW t \in Turns, pc[t] \in {"streaming", "acting"},
         pc' = [pc EXCEPT ![t] = "storing"], UNCHANGED <<table, shown>>,
         answer' = [answer EXCEPT ![t] = Append(answer[t], -1)],
         note' = [note EXCEPT ![t] = <<-1>>]
  PROVE  TextInv'
<1>1. PICK A : A = AnswersOf(t) /\ A = AnswersOf(t)'
  BY Unwritten
<1>2. Told(t) /\ TextTypes
  BY DEF TextInv
<1>3. /\ pc'[t] = "storing" /\ note'[t] = <<-1>>
      /\ answer'[t] = Append(answer[t], -1) /\ shown'[t] = shown[t]
  BY <1>2 DEF Domains, TextTypes
<1>4. A = {} /\ answer[t] = shown[t]
  BY <1>1, <1>2 DEF Told
<1>5. Told(t)'
  BY <1>1, <1>3, <1>4 DEF Told
<1>6. /\ answer' \in [Turns -> Seq(Int)] /\ note' \in [Turns -> Seq(Int)]
      /\ shown' \in [Turns -> Seq(Int)]
  BY <1>2 DEF TextTypes
<1>7. \A u \in Turns \ {t} : /\ pc'[u] = pc[u] /\ answer'[u] = answer[u]
                             /\ note'[u] = note[u] /\ shown'[u] = shown[u]
  BY <1>2 DEF Domains, TextTypes
<1> QED
  BY <1>5, <1>6, <1>7, OneTurnMoves

(* A turn writes its one answer, or the record of its failure. *)
LEMMA Answers ==
  ASSUME TextInv, NEW t \in Turns, AnswersOf(t) = {}, NEW text \in Seq(Int), NEW failed \in BOOLEAN,
         table' = Append(table, Row("assistant", t, text, failed))
  PROVE  /\ Row("assistant", t, text, failed) \in TurnRows
         /\ AnswersOf(t)' # {} /\ \A i, j \in AnswersOf(t)' : i = j
         /\ \A i \in AnswersOf(t)' : table'[i].text = text
<1>1. PICK row : /\ row = Row("assistant", t, text, failed) /\ row \in TurnRows
                /\ row.role = "assistant" /\ row.turn = t /\ row.text = text
  BY DEF Row, TurnRows
<1>2. table' = Append(table, row) /\ TextTypes
  BY <1>1 DEF TextInv
<1>3. AnswersOf(t)' = {Len(table) + 1} /\ table'[Len(table) + 1] = row
  BY <1>1, <1>2, Written
<1> QED
  BY <1>1, <1>3

LEMMA TextNext == Domains /\ RequestsInv /\ TextInv /\ [Next]_turnVars => TextInv'
<1> SUFFICES ASSUME Domains, RequestsInv, TextInv, [Next]_turnVars PROVE TextInv'
  OBVIOUS
<1> USE DEF Goto, setup, tries, rounds, texts, Put
<1>0. TextTypes
  BY DEF TextInv
<1>1. ASSUME NEW t \in Turns, Ask(t) PROVE TextInv'
  <2>1. /\ pc[t] = "idle" /\ pc' = [pc EXCEPT ![t] = "routing"]
        /\ table' = Append(table, Row("user", t, <<>>, FALSE))
        /\ UNCHANGED <<answer, note, shown>>
    BY <1>1 DEF Ask
  <2>2. PICK row \in TurnRows : row = Row("user", t, <<>>, FALSE) /\ row.role = "user" /\ row.turn = t
    <3>1. PICK text \in Seq(Int) : text = <<>>
      BY EmptySeq
    <3>2. Row("user", t, text, FALSE) \in TurnRows
      BY DEF Row, TurnRows
    <3> QED
      BY <3>1, <3>2 DEF Row
  <2>3. PICK A : A = AnswersOf(t) /\ A = AnswersOf(t)'
    BY <1>0, <2>1, <2>2, Written
  <2>4. Told(t) /\ pc'[t] = "routing"
    BY <2>1 DEF Domains, TextInv
  <2>5. Told(t)'
    BY <2>1, <2>3, <2>4 DEF Told
  <2>6. \A u \in Turns \ {t} : pc'[u] = pc[u]
    BY <2>1 DEF Domains
  <2> QED
    BY <1>0, <2>1, <2>2, <2>5, <2>6, OneTurnMoves DEF TextTypes
<1>2. ASSUME NEW t \in Turns, Route(t) PROVE TextInv'
  BY <1>2, GoesOn DEF Route
<1>3. ASSUME NEW t \in Turns, ReadHistory(t) PROVE TextInv'
  BY <1>3, GoesOn DEF ReadHistory
<1>4. ASSUME NEW t \in Turns, AgentsAnswer(t) PROVE TextInv'
  <2>1. /\ pc[t] = "delegating" /\ pc' = [pc EXCEPT ![t] = "storing"]
        /\ answer' = [answer EXCEPT ![t] = <<-1>>]
        /\ shown' = [shown EXCEPT ![t] = Append(shown[t], -1)]
        /\ UNCHANGED <<table, note>>
    BY <1>4 DEF AgentsAnswer
  <2>2. PICK A : A = AnswersOf(t) /\ A = AnswersOf(t)'
    BY <2>1, Unwritten
  <2>3. A = {} /\ shown[t] = <<>> /\ note[t] = <<>>
    BY <2>1, <2>2 DEF TextInv, Told
  <2>4. Append(<<>>, -1) = <<-1>> /\ <<-1>> \in Seq(Int)
    OBVIOUS
  <2>5. pc'[t] = "storing" /\ answer'[t] = <<-1>> /\ shown'[t] = <<-1>> /\ note'[t] = <<>>
    BY <1>0, <2>1, <2>3, <2>4 DEF Domains, TextTypes
  <2>6. Told(t)'
    BY <2>2, <2>3, <2>5 DEF Told
  <2>7. /\ answer' \in [Turns -> Seq(Int)] /\ note' \in [Turns -> Seq(Int)]
        /\ shown' \in [Turns -> Seq(Int)]
    BY <1>0, <2>1, <2>3, <2>4 DEF TextTypes
  <2>8. \A u \in Turns \ {t} : /\ pc'[u] = pc[u] /\ answer'[u] = answer[u]
                               /\ note'[u] = note[u] /\ shown'[u] = shown[u]
    BY <1>0, <2>1 DEF Domains, TextTypes
  <2> QED
    BY <2>1, <2>6, <2>7, <2>8, OneTurnMoves
<1>5. ASSUME NEW t \in Turns, Generate(t) PROVE TextInv'
  BY <1>5, GoesOn DEF Generate
<1>6. ASSUME NEW t \in Turns, Piece(t) PROVE TextInv'
  <2>1. PICK id : id = Speaker(t).id
    OBVIOUS
  <2>2. /\ pc[t] = "streaming" /\ UNCHANGED <<table, pc, note>>
        /\ answer' = [answer EXCEPT ![t] = Append(answer[t], id)]
        /\ shown' = [shown EXCEPT ![t] = Append(shown[t], id)]
    BY <1>6, <2>1 DEF Piece
  <2>3. Sound(selection[t], input[t].settings) /\ attempt[t] \in 1 .. Len(Tried(t))
    BY <2>2 DEF RequestsInv
  <2>4. Speaker(t) \in Catalogue
    BY <2>3, ChainSuits DEF Speaker
  <2>5. id \in Int
    BY <2>1, <2>4, CatalogueAssumption DEF Models
  <2>6. PICK A : A = AnswersOf(t) /\ A = AnswersOf(t)'
    BY <2>2, Unwritten
  <2>7. A = {} /\ answer[t] = shown[t] /\ note[t] = <<>>
    BY <2>2, <2>6 DEF TextInv, Told
  <2>8. pc'[t] = "streaming" /\ answer'[t] = shown'[t] /\ note'[t] = <<>>
    BY <1>0, <2>2, <2>7 DEF TextTypes
  <2>9. Told(t)'
    BY <2>6, <2>7, <2>8 DEF Told
  <2>10. /\ answer' \in [Turns -> Seq(Int)] /\ note' \in [Turns -> Seq(Int)]
         /\ shown' \in [Turns -> Seq(Int)]
    BY <1>0, <2>2, <2>5 DEF TextTypes
  <2>11. \A u \in Turns \ {t} : /\ pc'[u] = pc[u] /\ answer'[u] = answer[u]
                                /\ note'[u] = note[u] /\ shown'[u] = shown[u]
    BY <1>0, <2>2 DEF TextTypes
  <2> QED
    BY <2>2, <2>9, <2>10, <2>11, OneTurnMoves
<1>7. ASSUME NEW t \in Turns, StreamEnds(t) PROVE TextInv'
  <2>1. /\ pc[t] = "streaming" /\ UNCHANGED <<table, shown>>
        /\ \/ /\ \E place \in {"storing", "acting"} : pc' = [pc EXCEPT ![t] = place]
              /\ UNCHANGED <<answer, note>>
           \/ /\ pc' = [pc EXCEPT ![t] = "storing"]
              /\ answer' = [answer EXCEPT ![t] = Append(answer[t], -1)]
              /\ note' = [note EXCEPT ![t] = <<-1>>]
    BY <1>7 DEF StreamEnds, EndOfStream, WithNote
  <2>2. CASE /\ UNCHANGED <<answer, note>>
             /\ \E place \in {"storing", "acting"} : pc' = [pc EXCEPT ![t] = place]
    BY <2>1, <2>2, GoesOn
  <2>3. CASE ~(/\ UNCHANGED <<answer, note>>
               /\ \E place \in {"storing", "acting"} : pc' = [pc EXCEPT ![t] = place])
    BY <2>1, <2>3, IsNoted
  <2> QED
    BY <2>2, <2>3
<1>8. ASSUME NEW t \in Turns, StreamBreaks(t) PROVE TextInv'
  <2>1. UNCHANGED <<table, answer, note, shown>> /\ pc[t] = "streaming"
    BY <1>8 DEF StreamBreaks
  <2>2. CASE pc' = pc
    BY <2>1, <2>2, NothingTold
  <2>3. CASE pc' # pc
    BY <1>8, <2>1, <2>3, GoesOn DEF StreamBreaks
  <2> QED
    BY <2>2, <2>3
<1>10. ASSUME NEW t \in Turns, CallPiece(t) \/ UseTool(t) PROVE TextInv'
  BY <1>10, NothingTold DEF CallPiece, UseTool
<1>11. ASSUME NEW t \in Turns, EndRound(t) PROVE TextInv'
  <2>1. CASE NextRound(round[t]) < MAX_TOOL_ROUNDS
    BY <1>11, <2>1, GoesOn DEF EndRound
  <2>2. CASE ~(NextRound(round[t]) < MAX_TOOL_ROUNDS)
    BY <1>11, <2>2, IsNoted DEF EndRound, WithNote
  <2> QED
    BY <2>1, <2>2
<1>12. ASSUME NEW t \in Turns, ToolRaises(t) \/ Complete(t) PROVE TextInv'
  BY <1>12, GoesOn DEF ToolRaises, Complete
<1>13. ASSUME NEW t \in Turns, NEW place, pc' = [pc EXCEPT ![t] = place],
              UNCHANGED <<answer, note>>,
              \/ /\ pc[t] = "storing" /\ table' = Append(table, AnswerRow(t))
                 /\ \/ place = "completing" /\ shown' = [shown EXCEPT ![t] = shown[t] \o note[t]]
                    \/ place = "gone" /\ UNCHANGED shown
              \/ /\ pc[t] = "failing" /\ table' = WithFailure(t)
                 /\ place \in {"failed", "gone"} /\ UNCHANGED shown
       PROVE  TextInv'
  <2>1. AnswersOf(t) = {}
    BY <1>13 DEF TextInv, Told
  <2>2. <<-1>> \in Seq(Int)
    OBVIOUS
  <2>3. PICK text \in Seq(Int), failed \in BOOLEAN :
          /\ table' = Append(table, Row("assistant", t, text, failed))
          /\ pc[t] = "storing" => text = answer[t]
    BY <1>0, <1>13, <2>2 DEF AnswerRow, WithFailure, TextTypes
  <2>4. PICK A : A = AnswersOf(t)'
    OBVIOUS
  <2>5. /\ A # {} /\ \A i, j \in A : i = j
        /\ \A i \in A : table'[i].text = text
        /\ \E row \in TurnRows : row.turn = t /\ table' = Append(table, row)
    BY <2>1, <2>3, <2>4, Answers DEF Row
  <2>6. ASSUME place = "completing" PROVE shown'[t] = text
    <3>1. pc[t] = "storing" /\ shown'[t] = shown[t] \o note[t] /\ text = answer[t]
      BY <1>0, <1>13, <2>3, <2>6 DEF TextTypes
    <3>2. \/ note[t] = <<>> /\ answer[t] = shown[t]
          \/ note[t] = <<-1>> /\ answer[t] = Append(shown[t], -1)
      BY <3>1 DEF TextInv, Told
    <3>3. shown[t] \o <<>> = shown[t] /\ shown[t] \o <<-1>> = Append(shown[t], -1)
      BY <1>0, ConcatEmptySeq, AppendIsConcat DEF TextTypes
    <3> QED
      BY <3>1, <3>2, <3>3
  <2>7. pc'[t] = place /\ place \in {"completing", "failed", "gone"}
    BY <1>13 DEF Domains
  <2>8. Told(t)'
    BY <2>4, <2>5, <2>6, <2>7 DEF Told
  <2>9. shown' \in [Turns -> Seq(Int)] /\ \A u \in Turns \ {t} : shown'[u] = shown[u]
    <3>1. shown[t] \o note[t] \in Seq(Int)
      BY <1>0, ConcatProperties DEF TextTypes
    <3>2. shown' = shown \/ shown' = [shown EXCEPT ![t] = shown[t] \o note[t]]
      BY <1>13
    <3> QED
      BY <1>0, <3>1, <3>2 DEF TextTypes
  <2>10. \A u \in Turns \ {t} : pc'[u] = pc[u]
    BY <1>13 DEF Domains
  <2>11. answer' \in [Turns -> Seq(Int)] /\ note' \in [Turns -> Seq(Int)]
    BY <1>0, <1>13 DEF TextTypes
  <2> QED
    BY <1>13, <2>5, <2>8, <2>9, <2>10, <2>11, OneTurnMoves
<1>14. ASSUME NEW t \in Turns, StoreAnswer(t) \/ StoreFailure(t) PROVE TextInv'
  BY <1>13, <1>14 DEF StoreAnswer, StoreFailure
<1>15. ASSUME NEW t \in Turns, Disconnect(t) PROVE TextInv'
  <2>1. CASE UNCHANGED table
    BY <1>15, <2>1, GoesOn DEF Disconnect
  <2>2. CASE ~UNCHANGED table
    BY <1>13, <1>15, <2>2 DEF Disconnect
  <2> QED
    BY <2>1, <2>2
<1>16. ASSUME Rest \/ UNCHANGED turnVars PROVE TextInv'
  BY <1>16, NothingTold DEF Rest, turnVars
<1> QED
  BY <1>1, <1>2, <1>3, <1>4, <1>5, <1>6, <1>7, <1>8, <1>10, <1>11, <1>12, <1>14, <1>15, <1>16
     DEF Next, Proceed

LEMMA TextsAlwaysTold == Spec => []TextInv
<1>1. Init => Domains /\ RequestsInv /\ TextInv
  <2>1. ASSUME Init PROVE RequestsInv
    BY <2>1 DEF Init, RequestsInv
  <2> QED
    BY <2>1, DomainsInit, TextInit
<1>2. Domains /\ RequestsInv /\ TextInv /\ [Next]_turnVars
        => Domains' /\ RequestsInv' /\ TextInv'
  BY DomainsNext, RequestsNext, TextNext
<1> QED
  BY <1>1, <1>2, PTL DEF Spec

(* A turn leaves one answer in the conversation, be it the model's, the agents' *)
(* or the report of an error, and none twice, wherever the client leaves it.    *)
THEOREM AlwaysOneAnswer == Spec => []OneAnswerPerTurn
<1>1. TextInv => OneAnswerPerTurn
  BY DEF TextInv, Told, OneAnswerPerTurn
<1> QED
  BY <1>1, TextsAlwaysTold, PTL

(* What a completed turn stores is what its client was shown, over all rounds, *)
(* fallbacks and notes (core/assistant.py: _run_model_loop, _finish).          *)
THEOREM StoredAlwaysShown == Spec => []StoredIsShown
<1>1. TextInv => StoredIsShown
  BY DEF TextInv, Told, StoredIsShown
<1> QED
  BY <1>1, TextsAlwaysTold, PTL

-----------------------------------------------------------------------------
(* The prompt. *)
LEMMA LargerOfTwo ==
  ASSUME NEW x \in Int, NEW y \in Int
  PROVE  Max({x, y}) = IF x >= y THEN x ELSE y
BY DEF Max

LEMMA SmallerOfTwo ==
  ASSUME NEW x \in Int, NEW y \in Int
  PROVE  Min({x, y}) = IF x <= y THEN x ELSE y
BY DEF Min

(* Counting does not look at the place where a set of numbers begins. *)
LEMMA ShiftedCount ==
  ASSUME NEW A, A \subseteq Int, IsFiniteSet(A), NEW d \in Int,
         NEW B, B = {x + d : x \in A}
  PROVE  IsFiniteSet(B) /\ Cardinality(B) = Cardinality(A)
<1> DEFINE f == [x \in A |-> x + d]
<1>1. f \in Bijection(A, B)
  <2>1. f \in [A -> B]
    OBVIOUS
  <2>2. \A x, y \in A : f[x] = f[y] => x = y
    OBVIOUS
  <2>3. \A y \in B : \E x \in A : f[x] = y
    OBVIOUS
  <2> HIDE DEF f
  <2> QED
    BY <2>1, <2>2, <2>3 DEF Bijection, Injection, IsInjective, Surjection
<1> HIDE DEF f
<1>2. ExistsBijection(A, B)
  BY <1>1 DEF ExistsBijection
<1> QED
  BY <1>2, FS_Bijection

(* A finite set of numbers has an element of every rank. *)
RankIn(A, i) == Cardinality({j \in A : j <= i})

LEMMA RanksInRange ==
  ASSUME NEW A, A \subseteq Int, IsFiniteSet(A), NEW i \in A
  PROVE  RankIn(A, i) \in 1 .. Cardinality(A)
<1> DEFINE upTo == {j \in A : j <= i}
<1>1. upTo \subseteq A /\ i \in upTo
  OBVIOUS
<1> HIDE DEF upTo
<1>2. IsFiniteSet(upTo) /\ Cardinality(upTo) \in Nat /\ Cardinality(upTo) <= Cardinality(A)
      /\ Cardinality(A) \in Nat
  BY <1>1, FS_Subset, FS_CardinalityType
<1>3. Cardinality(upTo) # 0
  BY <1>1, <1>2, FS_EmptySet
<1> QED
  BY <1>2, <1>3 DEF RankIn, upTo

LEMMA EveryRank ==
  ASSUME NEW A, A \subseteq Int, IsFiniteSet(A)
  PROVE  /\ \A k \in 1 .. Cardinality(A) : \E i \in A : RankIn(A, i) = k
         /\ \A i, j \in A : RankIn(A, i) = RankIn(A, j) => i = j
<1> DEFINE n == Cardinality(A)
           upTo(i) == {j \in A : j <= i}
           rank == [i \in A |-> RankIn(A, i)]
           R == {rank[i] : i \in A}
<1>1. n \in Nat
  BY FS_CardinalityType
<1>2. \A i \in A : /\ IsFiniteSet(upTo(i)) /\ RankIn(A, i) = Cardinality(upTo(i))
                    /\ RankIn(A, i) \in 1 .. n
  <2> TAKE i \in A
  <2>1. upTo(i) \subseteq A
    OBVIOUS
  <2> HIDE DEF upTo
  <2> QED
    BY <2>1, RanksInRange, FS_Subset DEF RankIn, upTo
<1>3. ASSUME NEW i \in A, NEW j \in A, i < j PROVE RankIn(A, i) # RankIn(A, j)
  <2>1. upTo(i) \subseteq upTo(j) /\ j \in upTo(j) /\ j \notin upTo(i)
    <3>1. i \in Int /\ j \in Int /\ \A x \in A : x \in Int
      OBVIOUS
    <3>2. \A x \in A : x <= i => x <= j
      BY <1>3, <3>1
    <3>3. j <= j /\ ~(j <= i)
      BY <1>3, <3>1
    <3> QED
      BY <3>2, <3>3
  <2> HIDE DEF upTo
  <2>2. upTo(i) # upTo(j)
    BY <2>1
  <2>3. Cardinality(upTo(i)) # Cardinality(upTo(j))
    BY <1>2, <2>1, <2>2, FS_Subset
  <2> QED
    BY <1>2, <2>3
<1>4. \A i, j \in A : RankIn(A, i) = RankIn(A, j) => i = j
  <2> SUFFICES ASSUME NEW i \in A, NEW j \in A, RankIn(A, i) = RankIn(A, j) PROVE i = j
    OBVIOUS
  <2>1. i < j \/ j < i \/ i = j
    OBVIOUS
  <2> QED
    BY <1>3, <2>1
<1>5. rank \in Bijection(A, R)
  <2>1. rank \in [A -> R]
    OBVIOUS
  <2>2. \A i, j \in A : rank[i] = rank[j] => i = j
    BY <1>4
  <2>3. \A r \in R : \E i \in A : rank[i] = r
    OBVIOUS
  <2> HIDE DEF rank, R
  <2> QED
    BY <2>1, <2>2, <2>3 DEF Bijection, Injection, IsInjective, Surjection
<1>6. IsFiniteSet(R) /\ Cardinality(R) = n
  <2>1. ExistsBijection(A, R)
    BY <1>5 DEF ExistsBijection
  <2> HIDE DEF R
  <2> QED
    BY <2>1, FS_Bijection
<1>7. R \subseteq 1 .. n
  BY <1>2
<1>8. IsFiniteSet(1 .. n) /\ Cardinality(1 .. n) = n
  <2> HIDE DEF n
  <2>1. IsFiniteSet(1 .. n) /\ Cardinality(1 .. n) = IF 1 > n THEN 0 ELSE n - 1 + 1
    BY <1>1, FS_Interval
  <2> QED
    BY <1>1, <2>1
<1> HIDE DEF R
<1>9. R = 1 .. n
  BY <1>6, <1>7, <1>8, FS_Subset
<1>10. \A k \in 1 .. n : \E i \in A : RankIn(A, i) = k
  BY <1>9 DEF R
<1> QED
  BY <1>4, <1>10

(* The rows that did not fail, and what is said of one. *)
SoundRows(rows) == {i \in DOMAIN rows : ~rows[i].failed}
MessageOf(row) == <<row.role, row.turn>>

(* What was said, row by row: the message of a row stands at its rank. *)
LEMMA SaidIsSeq ==
  ASSUME NEW S, NEW rows \in Seq(S)
  PROVE  /\ IsFiniteSet(SoundRows(rows)) /\ SoundRows(rows) \subseteq 1 .. Len(rows)
         /\ Said(rows) \in Seq({MessageOf(row) : row \in S})
         /\ Len(Said(rows)) = Cardinality(SoundRows(rows))
         /\ \A i \in SoundRows(rows) :
               /\ RankIn(SoundRows(rows), i) \in 1 .. Cardinality(SoundRows(rows))
               /\ Said(rows)[RankIn(SoundRows(rows), i)] = MessageOf(rows[i])
<1> DEFINE sound == SoundRows(rows)
           many == Cardinality(sound)
           place(x) == CHOOSE i \in sound : RankIn(sound, i) = x
           T == {MessageOf(row) : row \in S}
<1>1. Len(rows) \in Nat /\ DOMAIN rows = 1 .. Len(rows)
  BY LenProperties
<1>2. sound \subseteq 1 .. Len(rows)
  BY <1>1 DEF SoundRows
<1>3. IsFiniteSet(sound) /\ many \in Nat
  <2>1. IsFiniteSet(1 .. Len(rows))
    BY <1>1, FS_Interval
  <2> HIDE DEF sound
  <2>2. IsFiniteSet(sound)
    BY <1>2, <2>1, FS_Subset
  <2> QED
    BY <2>2, FS_CardinalityType
<1>4. Said(rows) = [x \in 1 .. many |-> MessageOf(rows[place(x)])]
  BY DEF Said, SoundRows, RankIn, MessageOf
<1> HIDE DEF sound
<1>5. sound \subseteq Int
  BY <1>1, <1>2
<1>6. \A x \in 1 .. many : place(x) \in sound /\ RankIn(sound, place(x)) = x
  <2> SUFFICES ASSUME NEW x \in 1 .. Cardinality(sound)
               PROVE  place(x) \in sound /\ RankIn(sound, place(x)) = x
    OBVIOUS
  <2>1. \E i \in sound : RankIn(sound, i) = x
    <3> HIDE DEF place
    <3> QED
      BY <1>3, <1>5, EveryRank
  <2> QED
    BY <2>1
<1>7. ASSUME NEW i \in sound PROVE RankIn(sound, i) \in 1 .. many /\ place(RankIn(sound, i)) = i
  <2>1. RankIn(sound, i) \in 1 .. many
    BY <1>3, <1>5, RanksInRange
  <2>2. \A j \in sound : RankIn(sound, j) = RankIn(sound, i) => j = i
    BY <1>3, <1>5, EveryRank
  <2> QED
    BY <1>6, <2>1, <2>2
<1>8. \A x \in 1 .. many : MessageOf(rows[place(x)]) \in T
  <2> HIDE DEF place
  <2>1. \A i \in 1 .. Len(rows) : rows[i] \in S
    BY <1>1
  <2>2. \A x \in 1 .. many : place(x) \in 1 .. Len(rows)
    BY <1>2, <1>6
  <2> QED
    BY <2>1, <2>2
<1> HIDE DEF place, T
<1>9. Said(rows) \in Seq(T) /\ Len(Said(rows)) = many
  <2> DEFINE message(x) == MessageOf(rows[place(x)])
  <2>1. \A x \in 1 .. many : message(x) \in T
    BY <1>8
  <2>2. Said(rows) = [x \in 1 .. many |-> message(x)]
    BY <1>4
  <2> HIDE DEF message
  <2> QED
    BY <1>3, <2>1, <2>2
<1>10. \A i \in sound : Said(rows)[RankIn(sound, i)] = MessageOf(rows[i])
  <2> HIDE DEF many
  <2> QED
    BY <1>4, <1>7
<1> QED
  BY <1>2, <1>3, <1>7, <1>9, <1>10 DEF sound, T

(* When the last row did not fail, its message is the last of what was said. *)
LEMMA SaidLast ==
  ASSUME NEW S, NEW rows \in Seq(S), Len(rows) > 0, ~rows[Len(rows)].failed
  PROVE  /\ Len(Said(rows)) \in Nat \ {0}
         /\ Said(rows)[Len(Said(rows))] = MessageOf(rows[Len(rows)])
<1> DEFINE n == Len(rows)
           sound == SoundRows(rows)
<1>1. n \in Nat /\ n \in sound
  BY LenProperties DEF SoundRows
<1>2. sound \subseteq 1 .. n /\ IsFiniteSet(sound) /\ Len(Said(rows)) = Cardinality(sound)
  BY SaidIsSeq
<1> HIDE DEF n, sound
<1>3. {j \in sound : j <= n} = sound
  <2>1. \A j \in 1 .. n : j <= n
    BY <1>1
  <2> QED
    BY <1>2, <2>1
<1>4. RankIn(sound, n) = Cardinality(sound)
  BY <1>3 DEF RankIn
<1>5. RankIn(sound, n) \in 1 .. Cardinality(sound) /\ Said(rows)[RankIn(sound, n)] = MessageOf(rows[n])
  BY <1>1, SaidIsSeq DEF sound
<1>6. Cardinality(sound) \in Nat
  BY <1>2, FS_CardinalityType
<1>7. Cardinality(sound) # 0
  BY <1>4, <1>5, <1>6
<1> QED
  BY <1>2, <1>4, <1>5, <1>6, <1>7 DEF n

(* What is said in the last rows is the end of what is said in all. *)
LEMMA SaidOfTheEnd ==
  ASSUME NEW S, NEW rows \in Seq(S), NEW a \in 1 .. Len(rows)
  PROVE  LET end == SubSeq(rows, a, Len(rows))
         IN  /\ end \in Seq(S) /\ Len(end) = Len(rows) - a + 1
             /\ end[Len(end)] = rows[Len(rows)]
             /\ Len(Said(end)) = Cardinality({i \in a .. Len(rows) : ~rows[i].failed})
             /\ \E c \in Nat : /\ Len(Said(rows)) = c + Len(Said(end))
                               /\ \A x \in 1 .. Len(Said(end)) : Said(end)[x] = Said(rows)[c + x]
<1> DEFINE n == Len(rows)
           d == a - 1
           end == SubSeq(rows, a, n)
           sound == SoundRows(rows)
           low == {i \in sound : i < a}
           high == {i \in a .. n : ~rows[i].failed}
           within == SoundRows(end)
           c == Cardinality(low)
<1>1. n \in Nat /\ DOMAIN rows = 1 .. n /\ d \in Nat
  BY LenProperties
<1>2. end \in Seq(S) /\ Len(end) = n - d /\ \A i \in 1 .. n - d : end[i] = rows[i + d]
  BY <1>1
<1>3. DOMAIN end = 1 .. n - d
  BY <1>2, LenProperties
<1>4. /\ sound = {i \in 1 .. n : ~rows[i].failed}
      /\ within = {i \in 1 .. n - d : ~end[i].failed}
  BY <1>1, <1>3 DEF SoundRows
<1>5. high = {x + d : x \in within}
  <2>1. \A i \in high : i - d \in within /\ i = (i - d) + d
    BY <1>1, <1>2, <1>4
  <2>2. \A x \in within : x + d \in high
    BY <1>1, <1>2, <1>4
  <2> HIDE DEF high, within
  <2> QED
    BY <2>1, <2>2
<1>6. low \cup high = sound /\ low \cap high = {} /\ low \subseteq Int /\ high \subseteq Int
  BY <1>1, <1>4
<1>7. /\ IsFiniteSet(sound) /\ Len(Said(rows)) = Cardinality(sound)
      /\ IsFiniteSet(within) /\ within \subseteq Int /\ Len(Said(end)) = Cardinality(within)
  <2>1. IsFiniteSet(within) /\ Len(Said(end)) = Cardinality(within)
    BY <1>2, SaidIsSeq
  <2>2. within \subseteq Int
    BY <1>4
  <2> QED
    BY <2>1, <2>2, SaidIsSeq
<1>8. IsFiniteSet(high) /\ Cardinality(high) = Cardinality(within)
  <2> HIDE DEF high, within, d
  <2>1. d \in Int
    BY <1>1
  <2> QED
    BY <1>5, <1>7, <2>1, ShiftedCount
<1>9. IsFiniteSet(low) /\ c \in Nat
  <2>1. low \subseteq sound
    OBVIOUS
  <2> HIDE DEF low, sound
  <2> QED
    BY <1>7, <2>1, FS_Subset, FS_CardinalityType
<1>10. \A A : A \subseteq high => Cardinality(low \cup A) = c + Cardinality(A)
  <2> SUFFICES ASSUME NEW A, A \subseteq high PROVE Cardinality(low \cup A) = c + Cardinality(A)
    OBVIOUS
  <2> HIDE DEF low, high
  <2>1. IsFiniteSet(A) /\ low \cap A = {} /\ Cardinality(A) \in Nat
    BY <1>6, <1>8, FS_Subset, FS_CardinalityType
  <2>2. Cardinality(low \cap A) = 0
    BY <2>1, FS_EmptySet
  <2>3. Cardinality(low \cup A) = Cardinality(low) + Cardinality(A) - Cardinality(low \cap A)
    BY <1>9, <2>1, FS_Union
  <2> QED
    BY <1>9, <2>1, <2>2, <2>3
<1>11. Cardinality(sound) = c + Cardinality(within)
  <2> HIDE DEF low, high, sound, within, c
  <2> QED
    BY <1>6, <1>8, <1>10
<1>12. ASSUME NEW x \in 1 .. Cardinality(within) PROVE Said(end)[x] = Said(rows)[c + x]
  <2>1. PICK p \in within : RankIn(within, p) = x
    <3> HIDE DEF within
    <3> QED
      BY <1>7, EveryRank
  <2>2. p \in 1 .. n - d /\ p + d \in sound /\ end[p] = rows[p + d]
    BY <1>1, <1>2, <1>4
  <2>3. Said(end)[x] = MessageOf(end[p])
    <3> HIDE DEF end, within
    <3> QED
      BY <1>2, <2>1, SaidIsSeq DEF within
  <2>4. Said(rows)[RankIn(sound, p + d)] = MessageOf(rows[p + d])
    BY <2>2, SaidIsSeq
  <2>5. RankIn(sound, p + d) = c + x
    <3> DEFINE upTo == {j \in within : j <= p}
               above == {j + d : j \in upTo}
    <3>1. upTo \subseteq within /\ upTo \subseteq Int
      BY <1>7
    <3>2. IsFiniteSet(upTo) /\ Cardinality(upTo) = x
      <4> HIDE DEF within
      <4> QED
        BY <1>7, <2>1, <3>1, FS_Subset DEF RankIn
    <3>3. Cardinality(above) = x
      <4>1. d \in Int
        BY <1>1
      <4> HIDE DEF upTo, d
      <4> QED
        BY <3>1, <3>2, <4>1, ShiftedCount
    <3>4. above \subseteq high
      <4> HIDE DEF within, high
      <4> QED
        BY <1>5
    <3>5. {j \in sound : j <= p + d} = low \cup above
      <4>1. \A j \in low : j \in sound /\ j <= p + d
        BY <1>1, <1>4, <2>2
      <4>2. \A j \in upTo : j + d \in sound /\ j + d <= p + d
        BY <1>1, <1>2, <1>4, <2>2
      <4>3. ASSUME NEW j \in sound, j >= a PROVE j - d \in within /\ j = (j - d) + d
        <5>1. j \in 1 .. n /\ j - d \in 1 .. n - d /\ j = (j - d) + d /\ ~rows[j].failed
          <6>1. j \in 1 .. n /\ ~rows[j].failed
            BY <1>4
          <6>2. n \in Int /\ d \in Int /\ j \in Int /\ j >= d + 1 /\ 1 <= j /\ j <= n
            BY <1>1, <4>3, <6>1
          <6> HIDE DEF d, n
          <6> QED
            BY <6>1, <6>2
        <5>2. end[j - d] = rows[j]
          <6> HIDE DEF end, d
          <6> QED
            BY <1>2, <5>1
        <5> QED
          BY <1>4, <5>1, <5>2
      <4>4. \A j \in sound : j <= p + d /\ j >= a => j - d <= p
        BY <1>1, <1>4, <2>2
      <4>5. \A j \in sound : j < a \/ j >= a
        BY <1>4
      <4> HIDE DEF sound, within, d
      <4> QED
        BY <4>1, <4>2, <4>3, <4>4, <4>5
    <3> HIDE DEF above, low, high, c
    <3> QED
      BY <1>10, <3>3, <3>4, <3>5 DEF RankIn
  <2> QED
    BY <2>2, <2>3, <2>4, <2>5
<1>13. end[Len(end)] = rows[Len(rows)] /\ Len(end) = Len(rows) - a + 1
  BY <1>1, <1>2
<1> HIDE DEF low, sound, within
<1>14. Len(Said(end)) = Cardinality(high)
  BY <1>7, <1>8
<1>15. /\ Len(Said(rows)) = c + Len(Said(end))
       /\ \A x \in 1 .. Len(Said(end)) : Said(end)[x] = Said(rows)[c + x]
  BY <1>7, <1>11, <1>12
<1> HIDE DEF c
<1> QED
  BY <1>2, <1>9, <1>13, <1>14, <1>15 DEF end, high, n

(* The end of a sequence is a suffix of it. *)
LEMMA EndIsSuffix ==
  ASSUME NEW T, NEW s \in Seq(T), NEW a \in 1 .. Len(s) + 1
  PROVE  LET end == SubSeq(s, a, Len(s))
         IN  end \in Seq(T) /\ Len(end) = Len(s) - a + 1 /\ IsSuffix(end, s)
<1> DEFINE end == SubSeq(s, a, Len(s))
           n == Len(s)
           k == n - a + 1
<1>1. n \in Nat /\ k \in Nat /\ k <= n
  OBVIOUS
<1>2. end \in Seq(T) /\ Len(end) = k /\ \A i \in 1 .. k : end[i] = s[a + i - 1]
  OBVIOUS
<1> HIDE DEF end
<1>3. /\ Reverse(end) = [i \in 1 .. k |-> end[k - i + 1]]
      /\ Reverse(s) = [i \in 1 .. n |-> s[n - i + 1]]
  BY <1>2 DEF Reverse
<1>4. Reverse(end) \in Seq(T) /\ Len(Reverse(end)) = k
  BY <1>1, <1>2, <1>3
<1>5. Reverse(s) \in Seq(T) /\ Len(Reverse(s)) = n
  BY <1>1, <1>3
<1>6. \A i \in 1 .. k : Reverse(end)[i] = Reverse(s)[i]
  <2> TAKE i \in 1 .. k
  <2>1. k - i + 1 \in 1 .. k /\ a + (k - i + 1) - 1 = n - i + 1 /\ i \in 1 .. n
    BY <1>1
  <2> QED
    BY <1>2, <1>3, <2>1
<1> HIDE DEF n, k
<1>7. SubSeq(Reverse(end), 1, k) = SubSeq(Reverse(s), 1, k)
  BY <1>1, <1>4, <1>5, <1>6
<1>8. IsSuffix(end, s)
  BY <1>1, <1>4, <1>5, <1>7 DEF IsSuffix, IsPrefix
<1> QED
  BY <1>2, <1>8 DEF k, n, end

(* What build makes of a history that ends with the turn's own message. *)
LEMMA ContextIsTheEnd ==
  ASSUME NEW T, NEW history \in Seq(T), NEW t, Len(history) # 0,
         history[Len(history)] = <<"user", t>>, input[t].room \in Nat
  PROVE  \E a \in 1 .. Len(history) :
            /\ BuildContext(history, t) = SubSeq(history, a, Len(history))
            /\ Len(history) - a + 1 = Min({input[t].room + 1, Len(history)})
<1> DEFINE n == Len(history)
           room == input[t].room
           front == SubSeq(history, 1, n - 1)
           a == Max({1, n - 1 - room + 1})
           fit == SubSeq(front, a, n - 1)
<1>1. n \in Nat \ {0}
  OBVIOUS
<1>2. a = IF 1 >= n - 1 - room + 1 THEN 1 ELSE n - 1 - room + 1
  BY <1>1, LargerOfTwo
<1>3. a \in 1 .. n
  BY <1>1, <1>2
<1>4. n - a + 1 = Min({room + 1, n})
  <2>1. Min({room + 1, n}) = IF room + 1 <= n THEN room + 1 ELSE n
    BY <1>1, SmallerOfTwo
  <2> HIDE DEF n, room, a
  <2> QED
    BY <1>1, <1>2, <2>1 DEF room
<1>5. WithoutLastMessage(history) = front
  <2>1. history # <<>> /\ Last(history)[1] = "user"
    BY <1>1 DEF Last
  <2> QED
    BY <2>1 DEF WithoutLastMessage, Front
<1>6. front \in Seq(T) /\ Len(front) = n - 1 /\ \A i \in 1 .. n - 1 : front[i] = history[i]
  <2>1. \A i \in 1 .. n - 1 : history[i] \in T
    BY <1>1
  <2> HIDE DEF n
  <2>2. PICK last : last = n - 1 /\ last \in Nat
    BY <1>1
  <2>3. /\ SubSeq(history, 1, last) \in Seq(T)
        /\ Len(SubSeq(history, 1, last)) = IF 1 <= last THEN last - 1 + 1 ELSE 0
        /\ \A i \in 1 .. last - 1 + 1 : SubSeq(history, 1, last)[i] = history[1 + i - 1]
    BY <2>1, <2>2, SubSeqProperties
  <2>4. Len(SubSeq(history, 1, last)) = last
    BY <2>2, <2>3
  <2>5. \A i \in 1 .. last : SubSeq(history, 1, last)[i] = history[i]
    BY <2>2, <2>3
  <2> QED
    BY <2>2, <2>3, <2>4, <2>5
<1>7. FitHistory(front, room) = fit
  BY <1>6 DEF FitHistory
<1> HIDE DEF a, room
<1>8. BuildContext(history, t) = Append(fit, <<"user", t>>)
  BY <1>5, <1>7 DEF BuildContext, room
<1>9. Append(fit, <<"user", t>>) = SubSeq(history, a, n)
  <2> DEFINE whole == Append(fit, <<"user", t>>)
             end == SubSeq(history, a, n)
  <2>1. \A i \in a .. n - 1 : front[i] \in T
    BY <1>1, <1>3, <1>6
  <2>2. /\ fit \in Seq(T) /\ Len(fit) = n - a
        /\ \A i \in 1 .. n - a : fit[i] = front[a + i - 1]
    BY <1>1, <1>3, <2>1, SubSeqProperties
  <2>3. \A i \in 1 .. n - a : fit[i] = history[a + i - 1]
    BY <1>1, <1>3, <1>6, <2>2
  <2>4. <<"user", t>> \in T
    BY <1>1
  <2> HIDE DEF fit
  <2>5. /\ whole \in Seq(T) /\ Len(whole) = n - a + 1
        /\ \A i \in 1 .. n - a : whole[i] = history[a + i - 1]
        /\ whole[n - a + 1] = history[n]
    BY <2>2, <2>3, <2>4, AppendProperties
  <2>6. /\ end \in Seq(T) /\ Len(end) = n - a + 1
        /\ \A i \in 1 .. n - a + 1 : end[i] = history[a + i - 1]
    <3>1. \A i \in a .. n : history[i] \in T
      BY <1>1, <1>3
    <3> QED
      BY <1>1, <1>3, <3>1, SubSeqProperties
  <2> HIDE DEF whole, end
  <2>7. \A i \in 1 .. n - a + 1 : whole[i] = end[i]
    <3> TAKE i \in 1 .. n - a + 1
    <3>1. CASE i \in 1 .. n - a
      BY <2>5, <2>6, <3>1
    <3>2. CASE i \notin 1 .. n - a
      <4>1. i = n - a + 1 /\ a + i - 1 = n
        BY <1>1, <1>3, <3>2
      <4> QED
        BY <2>5, <2>6, <4>1
    <3> QED
      BY <3>1, <3>2
  <2>8. whole = end
    BY <2>5, <2>6, <2>7, SeqEqual
  <2> QED
    BY <2>8 DEF whole, end
<1> QED
  BY <1>3, <1>4, <1>8, <1>9 DEF room

(* What a turn is asked with when it reads these rows. *)
PromptOf(rows, room, t) ==
    Append(FitHistory(WithoutLastMessage(Said(Newest(rows))), room), <<"user", t>>)

(* A user's message is never a failed row. *)
MessagesStand ==
    \A i \in DOMAIN table : table[i].role = "user" /\ table[i].turn \in Turns => ~table[i].failed

(* What is stored of a failure. *)
FailureRow(t) == Row("assistant", t, <<-1>>, TRUE)

(* The prompt is what was said when the history was read, and no row of then *)
(* changes.                                                                  *)
Prompted(t) ==
    /\ seen[t] \in 0 .. Len(table)
    /\ seen[t] # 0 =>
        /\ pc[t] \notin {"idle", "routing", "reading"}
        /\ prompt[t] = PromptOf(SubSeq(table, 1, seen[t]), input[t].room, t)

PromptInv ==
    /\ prompt = [t \in Turns |-> prompt[t]] /\ seen = [t \in Turns |-> seen[t]]
    /\ \A t \in Turns : pc[t] # "idle" => input[t] \in Inputs[t]
    /\ MessagesStand
    /\ \A t \in Turns : Prompted(t)

LEMMA PromptInit == Init => PromptInv
<1> SUFFICES ASSUME Init PROVE PromptInv
  OBVIOUS
<1>1. MessagesStand
  BY TurnAssumption DEF Init, MessagesStand
<1>2. Len(table) \in Nat
  BY TurnAssumption, LenProperties DEF Init
<1> QED
  BY <1>1, <1>2 DEF Init, PromptInv, Prompted

(* Rows are only added. *)
LEMMA RowsStay ==
  ASSUME TextTypes, MessagesStand,
         \/ UNCHANGED table
         \/ \E row \in TurnRows : /\ table' = Append(table, row)
                                  /\ row.role = "user" => ~row.failed
  PROVE  /\ MessagesStand'
         /\ Len(table) \in Nat /\ Len(table') \in Nat /\ Len(table) <= Len(table')
         /\ \A k \in 0 .. Len(table) : SubSeq(table', 1, k) = SubSeq(table, 1, k)
<1>0. table \in Seq(AllRows)
  BY DEF TextTypes
<1>1. CASE UNCHANGED table
  BY <1>0, <1>1 DEF MessagesStand
<1>2. ASSUME NEW row \in TurnRows, table' = Append(table, row), row.role = "user" => ~row.failed
      PROVE  /\ MessagesStand'
             /\ Len(table) \in Nat /\ Len(table') \in Nat /\ Len(table) <= Len(table')
             /\ \A k \in 0 .. Len(table) : SubSeq(table', 1, k) = SubSeq(table, 1, k)
  <2>1. /\ table' \in Seq(AllRows) /\ Len(table') = Len(table) + 1 /\ Len(table) \in Nat
        /\ \A i \in 1 .. Len(table) : table'[i] = table[i]
        /\ table'[Len(table) + 1] = row
    BY <1>0, <1>2, AppendProperties, LenProperties DEF AllRows
  <2>2. DOMAIN table = 1 .. Len(table) /\ DOMAIN table' = 1 .. Len(table) + 1
    BY <1>0, <2>1, LenProperties
  <2>3. MessagesStand'
    <3> SUFFICES ASSUME NEW i \in 1 .. Len(table) + 1,
                        table'[i].role = "user", table'[i].turn \in Turns
                 PROVE  ~table'[i].failed
      BY <2>2 DEF MessagesStand
    <3>1. CASE i = Len(table) + 1
      BY <1>2, <2>1, <3>1
    <3>2. CASE i # Len(table) + 1
      <4>1. i \in DOMAIN table /\ table'[i] = table[i]
        BY <2>1, <2>2, <3>2
      <4> QED
        BY <4>1 DEF MessagesStand
    <3> QED
      BY <3>1, <3>2
  <2>4. ASSUME NEW k \in 0 .. Len(table) PROVE SubSeq(table', 1, k) = SubSeq(table, 1, k)
    BY <1>0, <2>1
  <2> QED
    BY <2>1, <2>3, <2>4
<1> QED
  BY <1>1, <1>2

(* A step that neither asks nor reads. *)
LEMMA PromptStays ==
  ASSUME Domains, TextTypes, PromptInv, UNCHANGED <<input, prompt, seen>>,
         \/ UNCHANGED pc
         \/ \E t \in Turns, place \in PCs :
               /\ pc' = [pc EXCEPT ![t] = place]
               /\ pc[t] = "idle" => place = "idle"
               /\ place \in {"idle", "routing", "reading"} =>
                     pc[t] \in {"idle", "routing", "reading"},
         \/ UNCHANGED table
         \/ \E row \in TurnRows : /\ table' = Append(table, row)
                                  /\ row.role = "user" => ~row.failed
  PROVE  PromptInv'
<1>1. /\ MessagesStand'
      /\ Len(table) \in Nat /\ Len(table') \in Nat /\ Len(table) <= Len(table')
      /\ \A k \in 0 .. Len(table) : SubSeq(table', 1, k) = SubSeq(table, 1, k)
  BY RowsStay DEF PromptInv
<1>2. \A t \in Turns : /\ pc'[t] # "idle" => pc[t] # "idle"
                       /\ pc'[t] \in {"idle", "routing", "reading"} =>
                             pc[t] \in {"idle", "routing", "reading"}
  BY DEF Domains
<1>3. ASSUME NEW t \in Turns PROVE Prompted(t)'
  <2>1. seen[t] \in 0 .. Len(table) /\ seen'[t] = seen[t] /\ prompt'[t] = prompt[t]
    BY DEF PromptInv, Prompted
  <2>2. seen'[t] \in 0 .. Len(table')
    BY <1>1, <2>1
  <2>3. ASSUME seen'[t] # 0
        PROVE  /\ pc'[t] \notin {"idle", "routing", "reading"}
               /\ prompt'[t] = PromptOf(SubSeq(table', 1, seen'[t]), input'[t].room, t)
    <3>1. SubSeq(table', 1, seen'[t]) = SubSeq(table, 1, seen[t])
      BY <1>1, <2>1
    <3>2. prompt[t] = PromptOf(SubSeq(table, 1, seen[t]), input[t].room, t)
          /\ pc[t] \notin {"idle", "routing", "reading"}
      BY <2>1, <2>3 DEF PromptInv, Prompted
    <3> QED
      BY <1>2, <2>1, <3>1, <3>2
  <2> QED
    BY <2>2, <2>3 DEF Prompted
<1> QED
  BY <1>1, <1>2, <1>3 DEF PromptInv

LEMMA PromptNext == Domains /\ TextInv /\ PromptInv /\ [Next]_turnVars => PromptInv'
<1> SUFFICES ASSUME Domains, TextInv, PromptInv, [Next]_turnVars PROVE PromptInv'
  OBVIOUS
<1> USE DEF Goto, setup, tries, rounds, texts, Put
<1>0. TextTypes
  BY DEF TextInv
<1>1. ASSUME NEW t \in Turns, Ask(t) PROVE PromptInv'
  <2>1. /\ pc[t] = "idle" /\ pc' = [pc EXCEPT ![t] = "routing"]
        /\ table' = Append(table, Row("user", t, <<>>, FALSE))
        /\ UNCHANGED <<prompt, seen>>
    BY <1>1 DEF Ask
  <2>2. PICK i \in Inputs[t] : input' = [input EXCEPT ![t] = i]
    BY <1>1 DEF Ask
  <2>3. \E row \in TurnRows : /\ table' = Append(table, row)
                              /\ row.role = "user" => ~row.failed
    <3>1. Row("user", t, <<>>, FALSE) \in TurnRows /\ ~Row("user", t, <<>>, FALSE).failed
      BY EmptySeq DEF Row, TurnRows
    <3> QED
      BY <2>1, <3>1
  <2>4. /\ MessagesStand'
        /\ Len(table) \in Nat /\ Len(table') \in Nat /\ Len(table) <= Len(table')
        /\ \A k \in 0 .. Len(table) : SubSeq(table', 1, k) = SubSeq(table, 1, k)
    BY <1>0, <2>3, RowsStay DEF PromptInv
  <2>5. /\ input'[t] = i /\ \A u \in Turns \ {t} : input'[u] = input[u]
        /\ pc'[t] = "routing" /\ \A u \in Turns \ {t} : pc'[u] = pc[u]
    BY <2>1, <2>2 DEF Domains
  <2>6. ASSUME NEW u \in Turns PROVE Prompted(u)'
    <3>1. seen[u] \in 0 .. Len(table) /\ seen'[u] = seen[u] /\ prompt'[u] = prompt[u]
      BY <2>1 DEF PromptInv, Prompted
    <3>2. seen'[u] \in 0 .. Len(table')
      BY <2>4, <3>1
    <3>3. ASSUME seen'[u] # 0
          PROVE  /\ pc'[u] \notin {"idle", "routing", "reading"}
                 /\ prompt'[u] = PromptOf(SubSeq(table', 1, seen'[u]), input'[u].room, u)
      <4>1. SubSeq(table', 1, seen'[u]) = SubSeq(table, 1, seen[u])
        BY <2>4, <3>1
      <4>2. prompt[u] = PromptOf(SubSeq(table, 1, seen[u]), input[u].room, u)
            /\ pc[u] \notin {"idle", "routing", "reading"}
        BY <3>1, <3>3 DEF PromptInv, Prompted
      <4>3. u # t
        BY <2>1, <4>2
      <4> QED
        BY <2>5, <3>1, <4>1, <4>2, <4>3
    <3> QED
      BY <3>2, <3>3 DEF Prompted
  <2>7. \A u \in Turns : pc'[u] # "idle" => input'[u] \in Inputs[u]
    BY <2>5 DEF PromptInv
  <2>8. prompt' = [u \in Turns |-> prompt'[u]] /\ seen' = [u \in Turns |-> seen'[u]]
    BY <2>1 DEF PromptInv
  <2> QED
    BY <2>4, <2>6, <2>7, <2>8 DEF PromptInv
<1>2. ASSUME NEW t \in Turns, Route(t) PROVE PromptInv'
  <2>1. \E place \in {"failing", "reading"} : pc' = [pc EXCEPT ![t] = place]
    BY <1>2 DEF Route
  <2> QED
    BY <1>0, <1>2, <2>1, PromptStays DEF Route, PCs
<1>3. ASSUME NEW t \in Turns, ReadHistory(t) PROVE PromptInv'
  <2>1. /\ pc[t] = "reading" /\ UNCHANGED <<table, input>>
        /\ prompt' = [prompt EXCEPT ![t] = PromptOf(table, input[t].room, t)]
        /\ seen' = [seen EXCEPT ![t] = Len(table)]
    BY <1>3 DEF ReadHistory, BuildContext, PromptOf
  <2>2. PICK place \in {"generating", "delegating"} : pc' = [pc EXCEPT ![t] = place]
    BY <1>3 DEF ReadHistory
  <2>3. /\ seen'[t] = Len(table) /\ prompt'[t] = PromptOf(table, input[t].room, t) /\ pc'[t] = place
        /\ \A u \in Turns \ {t} : /\ seen'[u] = seen[u] /\ prompt'[u] = prompt[u]
                                  /\ pc'[u] = pc[u]
        /\ prompt' = [u \in Turns |-> prompt'[u]] /\ seen' = [u \in Turns |-> seen'[u]]
    BY <2>1, <2>2 DEF PromptInv, Domains
  <2>4. Len(table) \in Nat /\ SubSeq(table, 1, Len(table)) = table
    BY <1>0 DEF TextTypes
  <2>5. ASSUME NEW u \in Turns PROVE Prompted(u)'
    <3>1. CASE u = t
      <4>1. seen'[u] \in 0 .. Len(table')
        BY <2>1, <2>3, <2>4, <3>1
      <4>2. pc'[u] \notin {"idle", "routing", "reading"}
        BY <2>2, <2>3, <3>1
      <4>3. prompt'[u] = PromptOf(SubSeq(table', 1, seen'[u]), input'[u].room, u)
        BY <2>1, <2>3, <2>4, <3>1, Zenon
      <4> QED
        BY <4>1, <4>2, <4>3 DEF Prompted
    <3>2. CASE u # t
      BY <2>1, <2>3, <3>2 DEF PromptInv, Prompted
    <3> QED
      BY <3>1, <3>2
  <2>6. MessagesStand' /\ \A u \in Turns : pc'[u] # "idle" => input'[u] \in Inputs[u]
    BY <2>1, <2>3 DEF PromptInv, MessagesStand
  <2> QED
    BY <2>3, <2>5, <2>6 DEF PromptInv
<1>4. ASSUME NEW t \in Turns,
             AgentsAnswer(t) \/ Generate(t) \/ Complete(t) \/ StreamEnds(t) \/ EndRound(t)
               \/ ToolRaises(t)
      PROVE  PromptInv'
  <2>1. \E place \in {"storing", "streaming", "done", "acting", "generating", "failing"} :
           pc' = [pc EXCEPT ![t] = place] /\ pc[t] # "idle"
    BY <1>4 DEF AgentsAnswer, Generate, Complete, StreamEnds, EndOfStream, EndRound, ToolRaises
  <2>2. UNCHANGED <<table, input, prompt, seen>>
    BY <1>4 DEF AgentsAnswer, Generate, Complete, StreamEnds, EndRound, ToolRaises
  <2> QED
    BY <1>0, <2>1, <2>2, PromptStays DEF PCs, Over
<1>5. ASSUME NEW t \in Turns, StreamBreaks(t) PROVE PromptInv'
  <2>1. UNCHANGED <<table, input, prompt, seen>>
    BY <1>5 DEF StreamBreaks
  <2>2. \/ UNCHANGED pc
        \/ pc' = [pc EXCEPT ![t] = "failing"] /\ pc[t] # "idle"
    BY <1>5 DEF StreamBreaks
  <2> QED
    BY <1>0, <2>1, <2>2, PromptStays DEF PCs
<1>6. ASSUME NEW t \in Turns, Piece(t) \/ CallPiece(t) \/ UseTool(t) PROVE PromptInv'
  <2>1. UNCHANGED <<table, pc, input, prompt, seen>>
    BY <1>6 DEF Piece, CallPiece, UseTool
  <2> QED
    BY <1>0, <2>1, PromptStays
<1>7. ASSUME NEW t \in Turns, StoreAnswer(t) \/ StoreFailure(t) \/ Disconnect(t) PROVE PromptInv'
  <2>1. \E place \in {"completing", "failed", "gone"} :
           pc' = [pc EXCEPT ![t] = place] /\ pc[t] # "idle"
    BY <1>7 DEF StoreAnswer, StoreFailure, Disconnect
  <2>2. UNCHANGED <<input, prompt, seen>>
    BY <1>7 DEF StoreAnswer, StoreFailure, Disconnect
  <2>3. \/ UNCHANGED table
        \/ table' = Append(table, AnswerRow(t)) \/ table' = Append(table, FailureRow(t))
    BY <1>7 DEF StoreAnswer, StoreFailure, Disconnect, WithFailure, FailureRow
  <2>4. AnswerRow(t) \in TurnRows /\ AnswerRow(t).role = "assistant"
    BY <1>0 DEF AnswerRow, Row, TurnRows, TextTypes
  <2>5. FailureRow(t) \in TurnRows /\ FailureRow(t).role = "assistant"
    <3>1. <<-1>> \in Seq(Int)
      OBVIOUS
    <3> QED
      BY <3>1 DEF FailureRow, Row, TurnRows
  <2> QED
    BY <1>0, <2>1, <2>2, <2>3, <2>4, <2>5, PromptStays DEF PCs, Over
<1>8. ASSUME Rest \/ UNCHANGED turnVars PROVE PromptInv'
  <2>1. UNCHANGED <<table, pc, input, prompt, seen>>
    BY <1>8 DEF Rest, turnVars
  <2> QED
    BY <1>0, <2>1, PromptStays
<1> QED
  BY <1>1, <1>2, <1>3, <1>4, <1>5, <1>6, <1>7, <1>8 DEF Next, Proceed

LEMMA PromptedIsTheConversation == TextTypes /\ PromptInv => PromptIsTheConversation
<1> SUFFICES ASSUME TextTypes, PromptInv, NEW t \in Turns, ReadUndisturbed(t)
             PROVE  /\ IsSuffix(prompt[t], Said(SubSeq(table, 1, seen[t])))
                    /\ Len(prompt[t]) = Min({input[t].room + 1, Cardinality(Recalled(t))})
  BY DEF PromptIsTheConversation
<1> DEFINE rows == SubSeq(table, 1, seen[t])
           n == seen[t]
           first == Max({1, n - HISTORY_LIMIT + 1})
           newest == SubSeq(rows, first, n)
           said == Said(rows)
           recalled == Said(newest)
<1>1. /\ n \in 1 .. Len(table) /\ table[n].role = "user" /\ table[n].turn = t
      /\ Len(table) \in Nat
  <2>1. Len(table) \in Nat
    BY LenProperties DEF TextTypes
  <2>2. n \in 0 .. Len(table) /\ n > 0
    BY DEF PromptInv, Prompted, ReadUndisturbed
  <2> QED
    BY <2>1, <2>2 DEF ReadUndisturbed
<1>2. /\ rows \in Seq(AllRows) /\ Len(rows) = n /\ rows[n] = table[n]
      /\ \A i \in 1 .. n : rows[i] = table[i]
  BY <1>1 DEF TextTypes
<1>3. Newest(rows) = newest
  BY <1>2 DEF Newest
<1>4. input[t].room \in Nat /\ prompt[t] = BuildContext(recalled, t)
  <2> HIDE DEF rows, newest
  <2>1. n # 0
    BY <1>1
  <2>2. pc[t] # "idle" /\ prompt[t] = PromptOf(rows, input[t].room, t)
    BY <2>1 DEF PromptInv, Prompted, rows
  <2>3. input[t].room \in Nat
    BY <2>2, TurnAssumption DEF PromptInv
  <2> QED
    BY <1>3, <2>2, <2>3 DEF PromptOf, BuildContext
<1>5. ~rows[n].failed
  <2>1. n \in DOMAIN table
    BY <1>1, LenProperties DEF TextTypes
  <2> QED
    BY <1>1, <1>2, <2>1 DEF PromptInv, MessagesStand
<1>6. first \in 1 .. n
  <2>1. HISTORY_LIMIT \in Nat \ {0}
    BY TurnAssumption
  <2>2. first = IF 1 >= n - HISTORY_LIMIT + 1 THEN 1 ELSE n - HISTORY_LIMIT + 1
    BY <1>1, <2>1, LargerOfTwo
  <2> QED
    BY <1>1, <2>1, <2>2
<1> HIDE DEF rows, first
<1>7. /\ newest \in Seq(AllRows) /\ Len(newest) = n - first + 1
      /\ newest[Len(newest)] = rows[n]
      /\ Len(recalled) = Cardinality({i \in first .. n : ~rows[i].failed})
      /\ \E c \in Nat : /\ Len(said) = c + Len(recalled)
                        /\ \A x \in 1 .. Len(recalled) : recalled[x] = said[c + x]
  <2> DEFINE end == SubSeq(rows, first, Len(rows))
  <2>1. /\ end \in Seq(AllRows) /\ Len(end) = Len(rows) - first + 1
        /\ end[Len(end)] = rows[Len(rows)]
        /\ Len(Said(end)) = Cardinality({i \in first .. Len(rows) : ~rows[i].failed})
        /\ \E c \in Nat : /\ Len(said) = c + Len(Said(end))
                          /\ \A x \in 1 .. Len(Said(end)) : Said(end)[x] = said[c + x]
    <3>1. first \in 1 .. Len(rows)
      BY <1>2, <1>6
    <3> QED
      BY <1>2, <3>1, SaidOfTheEnd
  <2>2. Len(rows) = n /\ newest = end
    BY <1>2
  <2> QED
    BY <2>1, <2>2
<1>8. {i \in first .. n : ~rows[i].failed} = Recalled(t)
  BY <1>2, <1>6 DEF Recalled, first
<1> DEFINE T == {MessageOf(row) : row \in AllRows}
<1> HIDE DEF newest
<1>9. /\ Len(recalled) \in Nat \ {0} /\ recalled[Len(recalled)] = <<"user", t>>
      /\ recalled \in Seq(T)
  <2>1. Len(newest) > 0 /\ ~newest[Len(newest)].failed
    BY <1>1, <1>5, <1>6, <1>7
  <2>2. Len(recalled) \in Nat \ {0} /\ recalled[Len(recalled)] = MessageOf(newest[Len(newest)])
    BY <1>7, <2>1, SaidLast
  <2>3. MessageOf(newest[Len(newest)]) = <<"user", t>>
    BY <1>1, <1>2, <1>7 DEF MessageOf
  <2>4. recalled \in Seq(T)
    BY <1>7, SaidIsSeq
  <2> QED
    BY <2>2, <2>3, <2>4
<1>10. said \in Seq(T)
  BY <1>2, SaidIsSeq
<1> HIDE DEF said, recalled, T
<1>11. PICK a \in 1 .. Len(recalled) :
          /\ prompt[t] = SubSeq(recalled, a, Len(recalled))
          /\ Len(recalled) - a + 1 = Min({input[t].room + 1, Len(recalled)})
  BY <1>4, <1>9, ContextIsTheEnd
<1>12. PICK c \in Nat : /\ Len(said) = c + Len(recalled)
                        /\ \A x \in 1 .. Len(recalled) : recalled[x] = said[c + x]
  BY <1>7
<1>13. prompt[t] = SubSeq(said, c + a, Len(said))
  <2> DEFINE left == SubSeq(recalled, a, Len(recalled))
             right == SubSeq(said, c + a, Len(said))
             k == Len(recalled) - a + 1
  <2>1. k \in Nat /\ Len(said) - (c + a) + 1 = k /\ c + a \in 1 .. Len(said)
    BY <1>9, <1>12
  <2>2. left \in Seq(T) /\ Len(left) = k /\ \A i \in 1 .. k : left[i] = recalled[a + i - 1]
    <3>1. Len(recalled) \in Nat /\ a \in 1 .. Len(recalled)
      BY <1>9
    <3>2. \A i \in a .. Len(recalled) : recalled[i] \in T
      BY <1>9, <3>1
    <3> QED
      BY <2>1, <3>1, <3>2, SubSeqProperties
  <2>3. right \in Seq(T) /\ Len(right) = k /\ \A i \in 1 .. k : right[i] = said[(c + a) + i - 1]
    BY <1>10, <1>12, <2>1
  <2>4. \A i \in 1 .. k : left[i] = right[i]
    <3> TAKE i \in 1 .. k
    <3>1. a + i - 1 \in 1 .. Len(recalled) /\ c + (a + i - 1) = (c + a) + i - 1
      BY <1>9, <2>1
    <3> QED
      BY <1>12, <2>2, <2>3, <3>1
  <2> HIDE DEF left, right, k
  <2>5. left = right
    BY <2>2, <2>3, <2>4, SeqEqual
  <2> QED
    BY <1>11, <2>5 DEF left, right
<1>14. /\ Len(prompt[t]) = Len(recalled) - a + 1
       /\ IsSuffix(prompt[t], said)
  <2>1. c + a \in 1 .. Len(said) + 1 /\ Len(said) - (c + a) + 1 = Len(recalled) - a + 1
    BY <1>9, <1>12
  <2> QED
    BY <1>10, <1>13, <2>1, EndIsSuffix
<1> QED
  BY <1>7, <1>8, <1>11, <1>14 DEF said, rows

(* core/assistant.py and core/context.py: a turn that nobody disturbed between *)
(* storing its message and reading the history asks with the end of what had   *)
(* been said, its own message last, all that is left of the newest rows once   *)
(* the failed ones are dropped and the rest is cut to the model's room; for    *)
(* any limit, any number of turns and any conversation before them.            *)
THEOREM PromptAlwaysTheConversation == Spec => []PromptIsTheConversation
<1>1. Init => PromptInv
  BY PromptInit
<1>2. TextInv => TextTypes
  BY DEF TextInv
<1>3. Init => Domains /\ RequestsInv /\ TextInv
  BY DomainsInit, TextInit DEF Init, RequestsInv
<1>4. Domains /\ RequestsInv /\ TextInv /\ PromptInv /\ [Next]_turnVars
        => Domains' /\ RequestsInv' /\ TextInv' /\ PromptInv'
  BY DomainsNext, RequestsNext, TextNext, PromptNext
<1> QED
  BY <1>1, <1>2, <1>3, <1>4, PromptedIsTheConversation, PTL DEF Spec
=============================================================================
