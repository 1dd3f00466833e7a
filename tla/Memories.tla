------------------------------- MODULE Memories -------------------------------
(***************************************************************************)
(* memory/manager.py and memory/retrieval.py: how a statement becomes a    *)
(* memory, by the capture after a turn, the remember tool, an import or by *)
(* hand (api/routes_memory.py), while others change and delete the rows.   *)
(* A step is one database statement and what its coroutine does with it.   *)
(*                                                                         *)
(* A text is the set of its content words, empty for one of stop words     *)
(* only.  What depends on the order of the words is part of a statement:   *)
(* the terms it is looked for by, and the heading cut from its content.    *)
(***************************************************************************)
EXTENDS Integers, Sequences, FiniteSets

CONSTANTS
    Callers,             \* coroutines that work on the memories
    Candidates,          \* statements: [subject, content, terms, heading, importance]
    SecretPhrases,       \* sets of words that the secrets filter refuses in one text
    Prefixes,            \* <<term, word>>: the words that begin with another one
    LOOKUP_LIMIT,        \* the rows find_similar reads, 20
    Patches,             \* changes made by hand: functions from some fields to values
    Before,              \* what the table may hold at first: sequences of candidates
    MaxOps               \* operations begun, a bound on the environment

(* The filter reads "subject text" as one text. *)
IsSafe(subject, content) ==
    \A phrase \in SecretPhrases : ~(phrase \subseteq subject \cup content)

(* Importances are percentages, and texts have an end.  What is there at *)
(* first was entered by hand, past the filter.                           *)
ASSUME MemoryAssumption ==
    /\ \A x \in Candidates :
        /\ x.importance \in 0 .. 100 /\ x.terms \subseteq x.subject \cup x.content
        /\ IsFiniteSet(x.content) /\ IsFiniteSet(x.subject) /\ IsFiniteSet(x.heading)
    /\ LOOKUP_LIMIT \in Nat \ {0}
    /\ \A f \in Patches :
        /\ DOMAIN f \subseteq {"subject", "content", "importance", "disabled"}
        /\ "importance" \in DOMAIN f => f.importance \in 0 .. 100
        /\ "disabled" \in DOMAIN f => f.disabled \in BOOLEAN
        /\ \A k \in DOMAIN f \cap {"subject", "content"} : IsFiniteSet(f[k])
    /\ Before \subseteq Seq(Candidates)
    /\ \A before \in Before : \A i \in DOMAIN before :
        IsSafe(before[i].subject, before[i].content)
    /\ MaxOps \in Nat

UPDATE_THRESHOLD == 72
SKIP_THRESHOLD == 93
IMPORTANT == 75          \* of the mode IMPORTANT_ONLY

Modes == {"OFF", "MANUAL", "IMPORTANT_ONLY", "AUTO"}

VARIABLES
    settings,            \* memory.mode, importance_threshold, secret_filter_enabled
    rows,                \* the table, by id; ids are not used twice
    pc,
    op,                  \* the operation of each caller: [kind, todo, id, fields]
    seen,                \* the rows in reach that said the same when a caller last looked
    crossed,             \* rows of which one text was checked while another's check of
                         \* the other one was not yet written
    ops

vars == <<settings, rows, pc, op, seen, crossed, ops>>

Words == UNION ({x.content : x \in Candidates} \cup {x.subject : x \in Candidates}
                \cup {x.heading : x \in Candidates}
                \cup {f.content : f \in {g \in Patches : "content" \in DOMAIN g}}
                \cup {f.subject : f \in {g \in Patches : "subject" \in DOMAIN g}})

Ids == DOMAIN rows

(* by and seen: who wrote the content, and what that writer had found. *)
Rows == [subject : SUBSET Words, content : SUBSET Words, importance : 0 .. 100,
         disabled : BOOLEAN, live : BOOLEAN, by : {"conversation", "tool", "import", "manual"},
         seen : SUBSET Nat]

(* A note is created without a subject. *)
Kinds == {"capture", "remember", "import", "create", "note", "patch", "forget"}

TypeOK ==
    /\ settings \in [mode : Modes, threshold : 0 .. 100, filter : BOOLEAN]
    /\ rows \in Seq(Rows)
    /\ pc \in [Callers -> {"idle", "looking", "inserting", "rechecking", "updating", "deleting"}]
    /\ \A c \in Callers : pc[c] # "idle" =>
        /\ op[c].kind \in Kinds
        /\ pc[c] \in {"looking", "inserting"} => op[c].todo # <<>>
        /\ pc[c] \in {"rechecking", "updating", "deleting"} => op[c].id \in Ids
    /\ seen \in [Callers -> SUBSET Ids]
    /\ crossed \subseteq Ids
    /\ ops \in 0 .. MaxOps

RowOf(x, by, found) ==
    [subject |-> x.subject, content |-> x.content, importance |-> x.importance,
     disabled |-> FALSE, live |-> TRUE, by |-> by, seen |-> found]

NoOp == [kind |-> "none", todo |-> <<>>, id |-> 0, fields |-> <<>>]

Init ==
    /\ settings \in [mode : Modes, threshold : {45}, filter : BOOLEAN]
    /\ \E before \in Before :
        rows = [i \in 1 .. Len(before) |-> RowOf(before[i], "manual", {})]
    /\ pc = [c \in Callers |-> "idle"]
    /\ op = [c \in Callers |-> NoOp]
    /\ seen = [c \in Callers |-> {}]
    /\ crossed = {}
    /\ ops = 0

-----------------------------------------------------------------------------
(* Words and scores. *)

LargerOf(a, b) == IF a >= b THEN a ELSE b

(* Jaccard, in percent; the thresholds lie between the values of short texts. *)
Similarity(a, b) ==
    IF a = {} \/ b = {} THEN 0 ELSE (100 * Cardinality(a \cap b)) \div Cardinality(a \cup b)

Score(x, row) ==
    LET score == Similarity(x.content, row.content)
    IN  LargerOf(score, (70 * score + 30 * Similarity(x.subject, row.subject)) \div 100)

Begins(term, word) == term = word \/ <<term, word>> \in Prefixes

(* build_match_query: any of the first terms, each the beginning of a word;  *)
(* a text without terms matches nothing.                                     *)
Matching(x) ==
    {i \in Ids : rows[i].live
        /\ \E term \in x.terms, word \in rows[i].subject \cup rows[i].content : Begins(term, word)}

(* The rows the lookup reads: all that match or, in no stated order, as many *)
(* as the limit allows.                                                      *)
Lookups(x) ==
    IF Cardinality(Matching(x)) <= LOOKUP_LIMIT THEN {Matching(x)}
    ELSE {read \in SUBSET Matching(x) : Cardinality(read) = LOOKUP_LIMIT}

(* Mutated form: any row above the threshold is taken, not the best. *)
FindSimilarAny(x, read, threshold) == {i \in read : Score(x, rows[i]) >= threshold}

(* find_similar: the best of the rows read, any of several, disabled or not. *)
FindSimilar(x, read, threshold) ==
    {i \in read : /\ Score(x, rows[i]) >= threshold
                  /\ \A j \in read : Score(x, rows[i]) >= Score(x, rows[j])}

-----------------------------------------------------------------------------
(* consider, before its lookup; the tool, the route and the import have the *)
(* filter only, and only consider and the import can be told to leave it.   *)
Passes(x, kind) ==
    /\ kind = "capture" =>
        /\ settings.mode = "IMPORTANT_ONLY" => x.importance >= IMPORTANT
        /\ x.importance >= settings.threshold
    /\ kind \in {"remember", "create", "note"} \/ settings.filter =>
        IsSafe(IF kind = "note" THEN {} ELSE x.subject, x.content)

Proceed(c, place, next) ==
    /\ pc' = [pc EXCEPT ![c] = place]
    /\ op' = [op EXCEPT ![c] = next]

(* The next candidate of the list, or the end. *)
NextCandidate(c) ==
    IF Len(op[c].todo) <= 1 THEN Proceed(c, "idle", NoOp)
    ELSE Proceed(c, "looking", [op[c] EXCEPT !.todo = Tail(@)])

Operation(kind, todo, id, fields) == [kind |-> kind, todo |-> todo, id |-> id, fields |-> fields]

Captures == settings.mode \in {"AUTO", "IMPORTANT_ONLY"}

(* extract_candidates: one statement a rule, of which _deduplicate drops    *)
(* what says nearly the same as an earlier one.                             *)
Extracted ==
    {<<x>> : x \in Candidates}
    \cup {xs \in Candidates \X Candidates : Similarity(xs[1].content, xs[2].content) <= 80}

(* One or two candidates; those of an import may say the same. *)
ListsOf(kind) ==
    CASE kind = "capture"  -> IF Captures THEN Extracted ELSE {}
      [] kind = "remember" -> {<<x>> : x \in Candidates}
      [] kind = "import"   -> {<<x>> : x \in Candidates} \cup Candidates \X Candidates

(* What does not pass is skipped without a statement: the lists are those of *)
(* what is left.                                                             *)
BeginList(c) ==
    \E kind \in {"capture", "import", "remember"} : \E xs \in ListsOf(kind) :
        /\ \A i \in DOMAIN xs : Passes(xs[i], kind)
        /\ Proceed(c, "looking", Operation(kind, xs, 0, <<>>))

TextsOf(f) == DOMAIN f \cap {"subject", "content"}
Reworded(f) == TextsOf(f) # {}

BeginByHand(c) ==
    \/ \E kind \in {"create", "note"}, x \in Candidates :
        /\ Passes(x, kind)
        /\ Proceed(c, "inserting", Operation(kind, <<x>>, 0, <<>>))
    \/ \E i \in Ids, f \in Patches :
        /\ rows[i].live
        /\ Proceed(c, IF Reworded(f) THEN "rechecking" ELSE "updating",
                   Operation("patch", <<>>, i, f))
    \/ \E i \in Ids :
        /\ rows[i].live
        /\ Proceed(c, "deleting", Operation("forget", <<>>, i, <<>>))

Begin(c) ==
    /\ pc[c] = "idle"
    /\ ops < MaxOps
    /\ BeginList(c) \/ BeginByHand(c)
    /\ ops' = ops + 1
    /\ UNCHANGED <<settings, rows, seen, crossed>>

(* The same again, for consider; only a new wording for the tool. *)
SameAgain(x, kind, i) ==
    \/ kind = "import"
    \/ kind = "capture" /\ Similarity(x.content, rows[i].content) >= SKIP_THRESHOLD

FieldsFor(x, kind, i) ==
    IF kind = "capture"
    THEN [content |-> x.content, importance |-> LargerOf(x.importance, rows[i].importance)]
    ELSE [content |-> x.content]

(* What cannot be missed by a lookup for x: the rows that say the same, as  *)
(* far as they have one of its terms and not too many rows do.  Texts of    *)
(* stop words are like nothing.                                             *)
InReach(x) ==
    {i \in Matching(x) : /\ x.content # {} /\ rows[i].content = x.content
                         /\ Cardinality(Matching(x)) <= LOOKUP_LIMIT}

Look(c) ==
    /\ pc[c] = "looking"
    /\ \E read \in Lookups(Head(op[c].todo)) :
       LET x == Head(op[c].todo)
           kind == op[c].kind
           found == FindSimilar(x, read,
                        IF kind = "import" THEN SKIP_THRESHOLD ELSE UPDATE_THRESHOLD)
       IN \/ /\ found = {}
             /\ Proceed(c, "inserting", op[c])
          \/ \E i \in found :
                IF SameAgain(x, kind, i) THEN NextCandidate(c)
                ELSE Proceed(c, "rechecking",
                             [op[c] EXCEPT !.id = i, !.fields = FieldsFor(x, kind, i)])
    /\ seen' = [seen EXCEPT ![c] = InReach(Head(op[c].todo))]
    /\ UNCHANGED <<settings, rows, crossed, ops>>

SourceOf == [capture |-> "conversation", remember |-> "tool", import |-> "import",
             create |-> "manual", note |-> "manual", patch |-> "manual"]

(* What a writer by hand had seen does not matter. *)
SeenBy(c) == IF SourceOf[op[c].kind] = "manual" THEN {} ELSE seen[c]

(* store.  create_memory takes the beginning of its content for the subject *)
(* of a note after the filter has passed it.                                *)
Insert(c) ==
    /\ pc[c] = "inserting"
    /\ LET x == Head(op[c].todo)
           row == RowOf(x, SourceOf[op[c].kind], SeenBy(c))
       IN rows' = Append(rows, IF op[c].kind = "note" THEN [row EXCEPT !.subject = x.heading]
                               ELSE row)
    /\ NextCandidate(c)
    /\ UNCHANGED <<settings, seen, crossed, ops>>

(* What a row would say with the fields of an update. *)
Said(i, f, k) == IF k \in DOMAIN f THEN f[k] ELSE IF rows[i].live THEN rows[i][k] ELSE {}

(* Mutated form: the new texts are checked, without those that stay. *)
CombinedAlone(i, f) ==
    IsSafe(IF "subject" \in DOMAIN f THEN f.subject ELSE {},
           IF "content" \in DOMAIN f THEN f.content ELSE {})

Combined(i, f) == IsSafe(Said(i, f, "subject"), Said(i, f, "content"))

(* Does somebody still have to write what was checked of the other text? *)
Crosses(c) ==
    \E d \in Callers \ {c} :
        /\ pc[d] = "updating" /\ op[d].id = op[c].id
        /\ Reworded(op[d].fields) /\ TextsOf(op[d].fields) # TextsOf(op[c].fields)

(* update reads what the row says now and filters whatever the settings    *)
(* say; its ValueError ends the operation, with the candidates that are    *)
(* left.                                                                   *)
Recheck(c) ==
    /\ pc[c] = "rechecking"
    /\ IF Combined(op[c].id, op[c].fields)
       THEN /\ Proceed(c, "updating", op[c])
            /\ crossed' = IF Crosses(c) THEN crossed \cup {op[c].id} ELSE crossed
       ELSE Proceed(c, "idle", NoOp) /\ UNCHANGED crossed
    /\ UNCHANGED <<settings, rows, seen, ops>>

(* A row that has been deleted meanwhile is not there to be written. *)
Update(c) ==
    /\ pc[c] = "updating"
    /\ LET i == op[c].id
           f == op[c].fields
           written == [k \in DOMAIN rows[i] |-> IF k \in DOMAIN f THEN f[k] ELSE rows[i][k]]
       IN rows' = IF ~rows[i].live THEN rows
                  ELSE [rows EXCEPT ![i] =
                        IF "content" \in DOMAIN f
                        THEN [written EXCEPT !.by = SourceOf[op[c].kind], !.seen = SeenBy(c)]
                        ELSE written]
    /\ NextCandidate(c)
    /\ UNCHANGED <<settings, seen, crossed, ops>>

Delete(c) ==
    /\ pc[c] = "deleting"
    /\ rows' = [rows EXCEPT ![op[c].id].live = FALSE]
    /\ Proceed(c, "idle", NoOp)
    /\ UNCHANGED <<settings, seen, crossed, ops>>

Step(c) == Look(c) \/ Insert(c) \/ Recheck(c) \/ Update(c) \/ Delete(c)

Rest == (\A c \in Callers : pc[c] = "idle") /\ ops = MaxOps /\ UNCHANGED vars

Next == (\E c \in Callers : Begin(c) \/ Step(c)) \/ Rest

Spec == Init /\ [][Next]_vars

-----------------------------------------------------------------------------
(* Is this a note, under the beginning of its own text? *)
IsHeaded(row) ==
    /\ row.by = "manual"
    /\ \E x \in Candidates : row.subject = x.heading /\ row.content = x.content

(* memory/manager.py: "A credential never becomes a memory."  What subject    *)
(* and content say together has passed the filter, on every way into the      *)
(* table, as long as the filter is on, with two exceptions: a row whose two   *)
(* texts were changed by updates that overlapped, each checked against what   *)
(* the other was about to replace, and a note whose heading ends within a     *)
(* word.  And a conversation leaves nothing by itself unless the mode says so. *)
StoredIsAllowed ==
    \A i \in Ids :
        /\ settings.filter => \/ IsSafe(rows[i].subject, rows[i].content)
                              \/ i \in crossed
                              \/ IsHeaded(rows[i])
        /\ rows[i].by = "conversation" => Captures

(* "duplicate detection": two memories say the same only when one was written *)
(* by hand, or came into the table after the other's writer had looked, or    *)
(* was out of the lookup's reach (InReach): nobody repeats what the lookup    *)
(* could not miss.                                                            *)
TwinsNeverSeen ==
    \A i, j \in Ids :
        /\ i # j /\ rows[i].live /\ rows[j].live
        /\ rows[i].content = rows[j].content
        /\ i \in rows[j].seen
        => j \in rows[j].seen
=============================================================================
