------------------------------ MODULE MCMemories ------------------------------
(* Statements that differ by a word: the second says more than the first (75  *)
(* percent), the third is near the second only, and its heading ends within a *)
(* word, which makes a secret of it; the fourth holds a secret.  The fifth    *)
(* says what the first does under a subject that fills its terms, of the      *)
(* sixth only the subject holds words.                                        *)
EXTENDS Memories

Statement(content, heading, importance) ==
    [subject |-> {"a", "b"}, content |-> content, terms |-> {"a", "b"}, heading |-> heading,
     importance |-> importance]

Less == Statement({"a", "b", "c"}, {"a", "b"}, 50)
More == Statement({"a", "b", "c", "keys"}, {"a", "b"}, 80)
Near == Statement({"a", "b", "keys"}, {"a", "b", "key"}, 80)
Secret == Statement({"a", "b", "c", "key"}, {"a", "b"}, 90)
Aside == [Less EXCEPT !.subject = {"x"}, !.terms = {"x"}]
Vague == [Less EXCEPT !.content = {}, !.heading = {}]

MCCandidates == {Less, More, Near, Secret, Aside, Vague}

MCSecretPhrases == {{"key"}, {"private", "code"}}

MCPrefixes == {<<"x", "xy">>}

MCBefore == {<<>>, <<Less, Near>>, <<Less, More>>}

MCPatches ==
    {[content |-> {"a", "b", "c", "keys"}], [content |-> {"a", "b", "code"}], [disabled |-> TRUE],
     [subject |-> {"a", "private"}], [subject |-> {"xy"}, importance |-> 10]}
=============================================================================
