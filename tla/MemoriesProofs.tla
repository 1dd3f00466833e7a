---------------------------- MODULE MemoriesProofs ----------------------------
(***************************************************************************)
(* What TLAPS proves about Memories, for any statements, any words, and    *)
(* any number of writers.                                                  *)
(***************************************************************************)
EXTENDS Memories, FiniteSetTheorems, TLAPS

-----------------------------------------------------------------------------
(* The texts: of candidates, of changes and of rows. *)
Text(words) == words \subseteq Words /\ IsFiniteSet(words)

Field(k, value) ==
    CASE k \in {"subject", "content"} -> Text(value)
      [] k = "importance" -> value \in 0 .. 100
      [] k = "disabled" -> value \in BOOLEAN
      [] OTHER -> FALSE

RowFields == {"subject", "content", "importance", "disabled", "live", "by", "seen"}

(* A row as a function, so that what is said of one field is said of it alone. *)
RowOK(row) ==
    /\ DOMAIN row = RowFields
    /\ \A k \in {"subject", "content", "importance", "disabled"} : Field(k, row[k])
    /\ row.by = "conversation" => Captures

LEMMA CandidateTexts ==
  ASSUME NEW x \in Candidates
  PROVE  /\ Text(x.subject) /\ Text(x.content) /\ Text(x.heading)
         /\ x.importance \in 0 .. 100
BY MemoryAssumption DEF Text, Words

LEMMA PatchTexts ==
  ASSUME NEW f \in Patches, NEW k \in DOMAIN f
  PROVE  Field(k, f[k])
<1>1. k \in {"subject", "content", "importance", "disabled"}
  BY MemoryAssumption
<1>2. CASE k = "subject"
  BY <1>2, MemoryAssumption DEF Field, Text, Words
<1>3. CASE k = "content"
  BY <1>3, MemoryAssumption DEF Field, Text, Words
<1>4. CASE k = "importance"
  BY <1>4, MemoryAssumption DEF Field
<1>5. CASE k = "disabled"
  BY <1>5, MemoryAssumption DEF Field
<1> QED
  BY <1>1, <1>2, <1>3, <1>4, <1>5

LEMMA NewRow ==
  ASSUME NEW x \in Candidates, NEW by, NEW found,
         by = "conversation" => Captures
  PROVE  /\ RowOK(RowOf(x, by, found))
         /\ RowOK([RowOf(x, by, found) EXCEPT !.subject = x.heading])
BY CandidateTexts DEF RowOK, RowOf, RowFields, Field

-----------------------------------------------------------------------------
(* What an operation under way has passed already. *)
OpOK(c) ==
    LET o == op[c]
    IN  /\ DOMAIN o = {"kind", "todo", "id", "fields"}
        /\ pc[c] # "idle" =>
              /\ o.kind \in Kinds
              /\ o.todo \in Seq(Candidates)
              /\ \A k \in DOMAIN o.todo : Passes(o.todo[k], o.kind)
              /\ o.kind = "capture" => Captures
              /\ o.kind \in {"create", "note", "patch", "forget"} => Len(o.todo) <= 1
        /\ pc[c] \in {"looking", "inserting"} => o.todo # <<>>
        /\ pc[c] = "looking" => o.kind \in {"capture", "import", "remember"}
        /\ pc[c] = "inserting" => o.kind \in {"capture", "import", "remember", "create", "note"}
        /\ pc[c] \in {"rechecking", "updating"} =>
              /\ o.kind \in {"capture", "import", "remember", "patch"}
              /\ \A k \in DOMAIN o.fields : Field(k, o.fields[k])

AllowedInv ==
    /\ DOMAIN pc = Callers /\ DOMAIN op = Callers
    /\ \E n \in Nat : DOMAIN rows = 1 .. n
    /\ \A i \in Ids : RowOK(rows[i])
    /\ \A c \in Callers : OpOK(c)

LEMMA InitAllowed == Init => AllowedInv
<1> SUFFICES ASSUME Init PROVE AllowedInv
  OBVIOUS
<1>1. PICK before \in Before : rows = [i \in 1 .. Len(before) |-> RowOf(before[i], "manual", {})]
  BY DEF Init
<1>2. before \in Seq(Candidates)
  BY MemoryAssumption
<1>3. ASSUME NEW i \in 1 .. Len(before) PROVE RowOK(RowOf(before[i], "manual", {}))
  <2>1. before[i] \in Candidates
    BY <1>2
  <2> QED
    BY <2>1, NewRow
<1>4. \E n \in Nat : DOMAIN rows = 1 .. n
  BY <1>1, <1>2
<1>5. \A i \in Ids : RowOK(rows[i])
  BY <1>1, <1>3 DEF Ids
<1>6. \A c \in Callers : OpOK(c)
  BY DEF Init, OpOK, NoOp
<1> QED
  BY <1>4, <1>5, <1>6 DEF AllowedInv, Init

(* The settings stay, and with them what passes. *)
LEMMA SettingsFixed ==
  ASSUME UNCHANGED settings
  PROVE  /\ Captures' <=> Captures
         /\ \A x, kind : Passes(x, kind)' <=> Passes(x, kind)
BY DEF Captures, Passes

(* A step of one caller, after which it is as it should be. *)
LEMMA OneMoves ==
  ASSUME AllowedInv, NEW c \in Callers, NEW place, NEW next, Proceed(c, place, next),
         UNCHANGED settings,
         \E n \in Nat : DOMAIN rows' = 1 .. n,
         \A i \in Ids' : RowOK(rows'[i]),
         OpOK(c)'
  PROVE  AllowedInv'
<1>1. /\ DOMAIN pc' = Callers /\ DOMAIN op' = Callers
      /\ \A d \in Callers : d # c => pc'[d] = pc[d] /\ op'[d] = op[d]
  BY DEF AllowedInv, Proceed
<1>2. ASSUME NEW d \in Callers, d # c PROVE OpOK(d)'
  BY <1>1, <1>2, SettingsFixed DEF AllowedInv, OpOK
<1>3. \A i \in Ids' : RowOK(rows[i])'
  BY DEF RowOK, Captures
<1> QED
  BY <1>1, <1>2, <1>3 DEF AllowedInv

(* A caller that ends is as it should be, whatever it did. *)
LEMMA EndsOK ==
  ASSUME AllowedInv, NEW c \in Callers, Proceed(c, "idle", NoOp), UNCHANGED settings
  PROVE  OpOK(c)'
BY DEF AllowedInv, Proceed, OpOK, NoOp

(* What is left of a sequence of two or more. *)
LEMMA TailIs ==
  ASSUME NEW S, NEW s \in Seq(S), Len(s) > 1
  PROVE  /\ Tail(s) \in Seq(S) /\ Tail(s) # <<>>
         /\ \A k \in DOMAIN Tail(s) : k + 1 \in DOMAIN s /\ Tail(s)[k] = s[k + 1]
<1>1. Len(Tail(s)) = Len(s) - 1 /\ Tail(s) \in Seq(S) /\ Len(s) \in Nat
  OBVIOUS
<1>2. \A k \in 1 .. Len(s) - 1 : k + 1 \in DOMAIN s /\ Tail(s)[k] = s[k + 1]
  OBVIOUS
<1>3. DOMAIN Tail(s) = 1 .. Len(s) - 1
  BY <1>1
<1>4. Tail(s) # <<>>
  <2>1. 1 \in DOMAIN Tail(s)
    BY <1>1, <1>3
  <2>2. \A t : t = <<>> => 1 \notin DOMAIN t
    OBVIOUS
  <2> QED
    BY <2>1, <2>2
<1> QED
  BY <1>1, <1>2, <1>3, <1>4

LEMMA NextCandidateOK ==
  ASSUME AllowedInv, NEW c \in Callers, pc[c] # "idle", NextCandidate(c), UNCHANGED settings
  PROVE  OpOK(c)' /\ \E place, next : Proceed(c, place, next)
<1>1. CASE Len(op[c].todo) <= 1
  BY <1>1, EndsOK DEF NextCandidate
<1>2. CASE ~(Len(op[c].todo) <= 1)
  <2> DEFINE o == op[c]
             next == [o EXCEPT !.todo = Tail(@)]
  <2>1. OpOK(c)
    BY DEF AllowedInv
  <2>2. /\ DOMAIN o = {"kind", "todo", "id", "fields"} /\ o.todo \in Seq(Candidates)
        /\ \A k \in DOMAIN o.todo : Passes(o.todo[k], o.kind)
        /\ o.kind \in {"capture", "remember", "import"}
        /\ o.kind = "capture" => Captures
    BY <1>2, <2>1 DEF OpOK, Kinds
  <2>3. DOMAIN next = DOMAIN o /\ next.kind = o.kind /\ next.todo = Tail(o.todo)
    BY <2>2
  <2>4. Proceed(c, "looking", next)
    BY <1>2 DEF NextCandidate
  <2> HIDE DEF next
  <2>5. pc'[c] = "looking" /\ op'[c] = next
    BY <2>4 DEF Proceed, AllowedInv
  <2>6. /\ next.todo \in Seq(Candidates) /\ next.todo # <<>>
        /\ \A k \in DOMAIN next.todo : next.todo[k] = o.todo[k + 1] /\ k + 1 \in DOMAIN o.todo
    <3>1. Len(o.todo) > 1
      BY <1>2, <2>2
    <3> QED
      BY <2>2, <2>3, <3>1, TailIs
  <2>7. \A k \in DOMAIN next.todo : Passes(next.todo[k], next.kind)
    BY <2>2, <2>3, <2>6
  <2>8. /\ \A k \in DOMAIN op'[c].todo : Passes(op[c].todo[k], op[c].kind)'
        /\ op'[c].kind = "capture" => Captures'
    BY <2>2, <2>3, <2>5, <2>7 DEF Passes, Captures
  <2> QED
    BY <2>2, <2>3, <2>4, <2>5, <2>6, <2>8 DEF OpOK, Kinds
<1> QED
  BY <1>1, <1>2

(* Nothing else changes when an operation begins, looks or checks. *)
LEMMA RowsKept ==
  ASSUME AllowedInv, UNCHANGED rows
  PROVE  (\E n \in Nat : DOMAIN rows' = 1 .. n) /\ \A i \in Ids' : RowOK(rows'[i])
BY DEF AllowedInv, Ids

LEMMA BeginKeeps ==
  ASSUME AllowedInv, NEW c \in Callers, Begin(c)
  PROVE  AllowedInv'
<1>1. UNCHANGED <<settings, rows, seen, crossed>> /\ DOMAIN pc = Callers /\ DOMAIN op = Callers
  BY DEF Begin, AllowedInv
<1>2. ASSUME NEW kind \in {"capture", "import", "remember"}, NEW xs \in ListsOf(kind),
             \A i \in DOMAIN xs : Passes(xs[i], kind),
             Proceed(c, "looking", Operation(kind, xs, 0, <<>>))
      PROVE  AllowedInv'
  <2>1. /\ xs \in Seq(Candidates) /\ xs # <<>>
        /\ kind = "capture" => Captures
    <3>1. (\E x \in Candidates : xs = <<x>>) \/ xs \in Candidates \X Candidates
      BY <1>2 DEF ListsOf, Extracted
    <3>2. xs \in Seq(Candidates) /\ xs # <<>>
      <4>1. CASE \E x \in Candidates : xs = <<x>>
        BY <4>1
      <4>2. CASE xs \in Candidates \X Candidates
        <5>1. PICK x \in Candidates, y \in Candidates : xs = <<x, y>>
          BY <4>2
        <5> QED
          BY <5>1
      <4> QED
        BY <3>1, <4>1, <4>2
    <3> QED
      BY <1>2, <3>2 DEF ListsOf
  <2>2. pc'[c] = "looking" /\ op'[c] = Operation(kind, xs, 0, <<>>)
    BY <1>1, <1>2 DEF Proceed
  <2>3. \A i \in DOMAIN xs : Passes(xs[i], kind)'
    BY <1>1, <1>2, SettingsFixed DEF Passes
  <2>4. OpOK(c)'
    BY <1>1, <2>1, <2>2, <2>3, SettingsFixed DEF OpOK, Operation, Kinds
  <2> QED
    BY <1>1, <1>2, <2>4, RowsKept, OneMoves
<1>3. ASSUME NEW kind \in {"create", "note"}, NEW x \in Candidates, Passes(x, kind),
             Proceed(c, "inserting", Operation(kind, <<x>>, 0, <<>>))
      PROVE  AllowedInv'
  <2>1. pc'[c] = "inserting" /\ op'[c] = Operation(kind, <<x>>, 0, <<>>)
    BY <1>1, <1>3 DEF Proceed
  <2>2. \A i \in DOMAIN <<x>> : Passes(<<x>>[i], kind)'
    BY <1>1, <1>3, SettingsFixed DEF Passes
  <2>3. OpOK(c)'
    BY <1>1, <2>1, <2>2, SettingsFixed DEF OpOK, Operation, Kinds
  <2> QED
    BY <1>1, <1>3, <2>3, RowsKept, OneMoves
<1>4. ASSUME NEW i \in Ids, NEW f \in Patches,
             Proceed(c, IF Reworded(f) THEN "rechecking" ELSE "updating",
                     Operation("patch", <<>>, i, f))
      PROVE  AllowedInv'
  <2>1. /\ pc'[c] = IF Reworded(f) THEN "rechecking" ELSE "updating"
        /\ op'[c] = Operation("patch", <<>>, i, f)
    BY <1>1, <1>4 DEF Proceed
  <2>2. \A k \in DOMAIN f : Field(k, f[k])
    BY PatchTexts
  <2>3. OpOK(c)'
    BY <2>1, <2>2 DEF OpOK, Operation, Kinds, Reworded
  <2> QED
    BY <1>1, <1>4, <2>3, RowsKept, OneMoves
<1>5. ASSUME NEW i \in Ids, Proceed(c, "deleting", Operation("forget", <<>>, i, <<>>))
      PROVE  AllowedInv'
  <2>1. pc'[c] = "deleting" /\ op'[c] = Operation("forget", <<>>, i, <<>>)
    BY <1>1, <1>5 DEF Proceed
  <2>2. OpOK(c)'
    BY <2>1 DEF OpOK, Operation, Kinds
  <2> QED
    BY <1>1, <1>5, <2>2, RowsKept, OneMoves
<1> QED
  BY <1>2, <1>3, <1>4, <1>5 DEF Begin, BeginList, BeginByHand

LEMMA LookKeeps ==
  ASSUME AllowedInv, NEW c \in Callers, Look(c)
  PROVE  AllowedInv'
<1> DEFINE o == op[c]
           x == Head(o.todo)
<1>1. /\ pc[c] = "looking" /\ UNCHANGED <<settings, rows, ops>>
      /\ DOMAIN pc = Callers /\ DOMAIN op = Callers /\ OpOK(c)
  BY DEF Look, AllowedInv
<1>2. /\ DOMAIN o = {"kind", "todo", "id", "fields"}
      /\ o.kind \in {"capture", "import", "remember"}
      /\ o.todo \in Seq(Candidates) /\ o.todo # <<>>
      /\ \A k \in DOMAIN o.todo : Passes(o.todo[k], o.kind)
      /\ o.kind = "capture" => Captures
  BY <1>1 DEF OpOK
<1>3. x \in Candidates
  BY <1>2
<1>4. CASE Proceed(c, "inserting", o)
  <2>1. pc'[c] = "inserting" /\ op'[c] = o
    BY <1>1, <1>4 DEF Proceed
  <2>2. OpOK(c)'
    BY <1>1, <1>2, <2>1 DEF OpOK, Kinds, Passes, Captures
  <2> QED
    BY <1>1, <1>4, <2>2, RowsKept, OneMoves
<1>5. CASE NextCandidate(c)
  BY <1>1, <1>5, NextCandidateOK, RowsKept, OneMoves
<1>6. ASSUME NEW i \in Ids,
             Proceed(c, "rechecking", [o EXCEPT !.id = i, !.fields = FieldsFor(x, o.kind, i)])
      PROVE  AllowedInv'
  <2> DEFINE f == FieldsFor(x, o.kind, i)
             next == [o EXCEPT !.id = i, !.fields = f]
  <2>1. Field("content", x.content)
    BY <1>3, CandidateTexts DEF Field
  <2>2. Field("importance", LargerOf(x.importance, rows[i].importance))
    <3>1. x.importance \in 0 .. 100 /\ rows[i].importance \in 0 .. 100
      BY <1>3, CandidateTexts DEF AllowedInv, RowOK, Field
    <3> QED
      BY <3>1 DEF Field, LargerOf
  <2>3. \A k \in DOMAIN f : Field(k, f[k])
    BY <2>1, <2>2 DEF FieldsFor
  <2>4. /\ DOMAIN next = DOMAIN o /\ next.kind = o.kind /\ next.todo = o.todo
        /\ next.fields = f
    BY <1>2
  <2> HIDE DEF f, next
  <2>5. pc'[c] = "rechecking" /\ op'[c] = next
    BY <1>1, <1>6 DEF Proceed, f, next
  <2>6. OpOK(c)'
    BY <1>1, <1>2, <2>3, <2>4, <2>5 DEF OpOK, Kinds, Passes, Captures
  <2> QED
    BY <1>1, <1>6, <2>6, RowsKept, OneMoves
<1> QED
  BY <1>1, <1>4, <1>5, <1>6 DEF Look, FindSimilar, Lookups, Matching

LEMMA InsertKeeps ==
  ASSUME AllowedInv, NEW c \in Callers, Insert(c)
  PROVE  AllowedInv'
<1> DEFINE o == op[c]
           x == Head(o.todo)
           row == RowOf(x, SourceOf[o.kind], SeenBy(c))
           new == IF o.kind = "note" THEN [row EXCEPT !.subject = x.heading] ELSE row
<1>1. /\ pc[c] = "inserting" /\ UNCHANGED <<settings, seen, ops>> /\ NextCandidate(c)
      /\ rows' = Append(rows, new) /\ OpOK(c)
  BY DEF Insert, AllowedInv
<1>2. /\ o.kind \in {"capture", "import", "remember", "create", "note"}
      /\ x \in Candidates
      /\ o.kind = "capture" => Captures
  BY <1>1 DEF OpOK
<1>3. SourceOf[o.kind] = "conversation" => o.kind = "capture"
  BY <1>2 DEF SourceOf
<1> HIDE DEF x, o
<1>5. RowOK(new)
  <2>1. RowOK(row) /\ RowOK([row EXCEPT !.subject = x.heading])
    BY <1>2, <1>3, NewRow
  <2> HIDE DEF row
  <2> QED
    BY <2>1
<1> HIDE DEF new
<1>6. PICK n \in Nat : DOMAIN rows = 1 .. n
  BY DEF AllowedInv
<1>7. /\ DOMAIN rows' = 1 .. n + 1
      /\ \A i \in 1 .. n + 1 : rows'[i] = IF i = n + 1 THEN new ELSE rows[i]
  BY <1>1, <1>6
<1>8. \A i \in Ids' : RowOK(rows'[i])
  BY <1>5, <1>6, <1>7 DEF AllowedInv, Ids
<1>9. \E m \in Nat : DOMAIN rows' = 1 .. m
  BY <1>7
<1> QED
  BY <1>1, <1>8, <1>9, NextCandidateOK, OneMoves

LEMMA RecheckKeeps ==
  ASSUME AllowedInv, NEW c \in Callers, Recheck(c)
  PROVE  AllowedInv'
<1> DEFINE o == op[c]
<1>1. /\ pc[c] = "rechecking" /\ UNCHANGED <<settings, rows, seen, ops>> /\ OpOK(c)
      /\ DOMAIN pc = Callers /\ DOMAIN op = Callers
  BY DEF Recheck, AllowedInv
<1>2. CASE Proceed(c, "updating", o)
  <2>1. pc'[c] = "updating" /\ op'[c] = o
    BY <1>1, <1>2 DEF Proceed
  <2>2. OpOK(c)'
    BY <1>1, <2>1 DEF OpOK, Kinds, Passes, Captures
  <2> QED
    BY <1>1, <1>2, <2>2, RowsKept, OneMoves
<1>3. CASE Proceed(c, "idle", NoOp)
  BY <1>1, <1>3, EndsOK, RowsKept, OneMoves
<1> QED
  BY <1>2, <1>3 DEF Recheck

(* What an update writes is a row again. *)
LEMMA WrittenRow ==
  ASSUME NEW row, RowOK(row), NEW f,
         \A k \in DOMAIN f : Field(k, f[k]),
         NEW by, by = "conversation" => Captures, NEW found
  PROVE  LET written == [k \in DOMAIN row |-> IF k \in DOMAIN f THEN f[k] ELSE row[k]]
         IN  RowOK(IF "content" \in DOMAIN f
                   THEN [written EXCEPT !.by = by, !.seen = found] ELSE written)
<1> DEFINE written == [k \in DOMAIN row |-> IF k \in DOMAIN f THEN f[k] ELSE row[k]]
           signed == [written EXCEPT !.by = by, !.seen = found]
<1>1. DOMAIN f \subseteq {"subject", "content", "importance", "disabled"}
  BY DEF Field
<1>2. DOMAIN row = RowFields
  BY DEF RowOK
<1>3. /\ DOMAIN written = RowFields /\ written.by = row.by
      /\ \A k \in {"subject", "content", "importance", "disabled"} : Field(k, written[k])
  BY <1>1, <1>2 DEF RowOK, RowFields
<1>5. RowOK(written)
  BY <1>3 DEF RowOK
<1> HIDE DEF written
<1>6. /\ DOMAIN signed = RowFields /\ signed.by = by
      /\ signed.subject = written.subject /\ signed.content = written.content
      /\ signed.importance = written.importance /\ signed.disabled = written.disabled
  BY <1>3 DEF RowFields
<1> HIDE DEF signed
<1>7. RowOK(signed)
  BY <1>3, <1>6 DEF RowOK
<1> QED
  BY <1>5, <1>7 DEF signed, written

LEMMA UpdateKeeps ==
  ASSUME AllowedInv, NEW c \in Callers, Update(c)
  PROVE  AllowedInv'
<1> DEFINE o == op[c]
           i == o.id
           f == o.fields
           written == [k \in DOMAIN rows[i] |-> IF k \in DOMAIN f THEN f[k] ELSE rows[i][k]]
           new == IF "content" \in DOMAIN f
                  THEN [written EXCEPT !.by = SourceOf[o.kind], !.seen = SeenBy(c)] ELSE written
<1>1. /\ pc[c] = "updating" /\ UNCHANGED <<settings, seen, ops>> /\ NextCandidate(c) /\ OpOK(c)
      /\ UNCHANGED rows \/ rows' = [rows EXCEPT ![i] = new]
  BY DEF Update, AllowedInv
<1>2. /\ \A k \in DOMAIN f : Field(k, f[k])
      /\ o.kind \in {"capture", "import", "remember", "patch"}
      /\ o.kind = "capture" => Captures
  BY <1>1 DEF OpOK
<1>3. SourceOf[o.kind] = "conversation" => Captures
  BY <1>2 DEF SourceOf
<1>4. ASSUME i \in Ids PROVE RowOK(new)
  <2>1. RowOK(rows[i])
    BY <1>4 DEF AllowedInv
  <2> QED
    BY <1>2, <1>3, <2>1, WrittenRow
<1> HIDE DEF new, i
<1>5. DOMAIN rows' = DOMAIN rows
  BY <1>1
<1>6. \A k \in Ids' : RowOK(rows'[k])
  BY <1>1, <1>4, <1>5 DEF AllowedInv, Ids
<1>7. \E n \in Nat : DOMAIN rows' = 1 .. n
  BY <1>5 DEF AllowedInv
<1> QED
  BY <1>1, <1>6, <1>7, NextCandidateOK, OneMoves

LEMMA DeleteKeeps ==
  ASSUME AllowedInv, NEW c \in Callers, Delete(c)
  PROVE  AllowedInv'
<1> DEFINE i == op[c].id
           gone == [rows[i] EXCEPT !.live = FALSE]
<1>1. /\ rows' = [rows EXCEPT ![i] = gone] /\ Proceed(c, "idle", NoOp) /\ UNCHANGED settings
  BY DEF Delete
<1>2. ASSUME i \in Ids PROVE RowOK(gone)
  <2>1. RowOK(rows[i])
    BY <1>2 DEF AllowedInv
  <2>2. /\ DOMAIN gone = RowFields /\ gone.by = rows[i].by
        /\ gone.subject = rows[i].subject /\ gone.content = rows[i].content
        /\ gone.importance = rows[i].importance /\ gone.disabled = rows[i].disabled
    BY <2>1 DEF RowOK, RowFields
  <2> HIDE DEF gone
  <2> QED
    BY <2>1, <2>2 DEF RowOK
<1> HIDE DEF gone, i
<1>3. DOMAIN rows' = DOMAIN rows
  BY <1>1
<1>4. \A k \in Ids' : RowOK(rows'[k])
  BY <1>1, <1>2, <1>3 DEF AllowedInv, Ids
<1>5. \E n \in Nat : DOMAIN rows' = 1 .. n
  BY <1>3 DEF AllowedInv
<1> QED
  BY <1>1, <1>4, <1>5, EndsOK, OneMoves

LEMMA AllowedStep == AllowedInv /\ [Next]_vars => AllowedInv'
<1> SUFFICES ASSUME AllowedInv, [Next]_vars PROVE AllowedInv'
  OBVIOUS
<1>1. CASE UNCHANGED vars
  <2>1. UNCHANGED <<settings, rows, pc, op>>
    BY <1>1 DEF vars
  <2>2. \A i \in Ids' : RowOK(rows[i])'
    BY <2>1 DEF AllowedInv, RowOK, Captures, Ids
  <2>3. \A c \in Callers : OpOK(c)'
    BY <2>1, SettingsFixed DEF AllowedInv, OpOK, Passes
  <2> QED
    BY <2>1, <2>2, <2>3 DEF AllowedInv
<1> QED
  BY <1>1, BeginKeeps, LookKeeps, InsertKeeps, RecheckKeeps, UpdateKeeps, DeleteKeeps
  DEF Next, Step, Rest

-----------------------------------------------------------------------------
(* What has passed the filter, and what an update still has to write. *)
Filtered(i) ==
    settings.filter => \/ IsSafe(rows[i].subject, rows[i].content)
                       \/ i \in crossed
                       \/ IsHeaded(rows[i])

Checked(c) ==
    pc[c] = "updating" /\ Reworded(op[c].fields) =>
        op[c].id \in crossed \/ Combined(op[c].id, op[c].fields)

Apart(c, d) ==
    /\ pc[c] = "updating" /\ pc[d] = "updating" /\ op[c].id = op[d].id
    /\ Reworded(op[c].fields) /\ Reworded(op[d].fields)
    => op[c].id \in crossed \/ TextsOf(op[c].fields) = TextsOf(op[d].fields)

Known(c) == pc[c] \in {"rechecking", "updating", "deleting"} => op[c].id \in Ids

FilteredInv ==
    /\ \A i \in Ids : Filtered(i)
    /\ \A c \in Callers : Checked(c)
    /\ \A c, d \in Callers : c # d => Apart(c, d)
    /\ \A c \in Callers : Known(c)

LEMMA InitFiltered == Init => FilteredInv
<1> SUFFICES ASSUME Init PROVE FilteredInv
  OBVIOUS
<1>1. PICK before \in Before : rows = [i \in 1 .. Len(before) |-> RowOf(before[i], "manual", {})]
  BY DEF Init
<1>2. ASSUME NEW i \in Ids PROVE Filtered(i)
  <2>1. before \in Seq(Candidates)
    BY MemoryAssumption
  <2>2. i \in DOMAIN before
    BY <1>1, <2>1 DEF Ids
  <2>3. IsSafe(before[i].subject, before[i].content)
    BY <2>2, MemoryAssumption
  <2>4. rows[i].subject = before[i].subject /\ rows[i].content = before[i].content
    BY <1>1, <2>1, <2>2 DEF RowOf
  <2> QED
    BY <2>3, <2>4 DEF Filtered
<1>3. \A c \in Callers : Checked(c) /\ Known(c)
  BY DEF Init, Checked, Known
<1>4. \A c, d \in Callers : Apart(c, d)
  BY DEF Init, Apart
<1> QED
  BY <1>2, <1>3, <1>4 DEF FilteredInv

(* A text that says less is as safe. *)
LEMMA SafeLess ==
  ASSUME NEW s, NEW t, NEW s2, NEW t2, IsSafe(s, t), s2 \subseteq s \cup t, t2 \subseteq s \cup t
  PROVE  IsSafe(s2, t2)
BY DEF IsSafe

(* Of what the others still have to write nothing changes: not for a row of *)
(* which the texts they leave stay.                                         *)
LEMMA OthersFiltered ==
  ASSUME AllowedInv, FilteredInv, NEW c \in Callers, NEW place, NEW next,
         Proceed(c, place, next), UNCHANGED settings,
         crossed \subseteq crossed', Ids \subseteq Ids',
         \A i \in Ids' : Filtered(i)',
         \A d \in Callers : \A i, f :
             /\ d # c /\ pc[d] = "updating" /\ op[d].id = i /\ op[d].fields = f
             /\ i \notin crossed /\ Reworded(f) /\ Combined(i, f)
             => Combined(i, f)',
         place = "updating" /\ Reworded(next.fields) =>
             Checked(c)' /\ \A d \in Callers : d # c => Apart(c, d)',
         place \in {"rechecking", "updating", "deleting"} => next.id \in Ids'
  PROVE  FilteredInv'
<1>1. /\ pc'[c] = place /\ op'[c] = next
      /\ \A d \in Callers : d # c => pc'[d] = pc[d] /\ op'[d] = op[d]
  BY DEF AllowedInv, Proceed
<1>2. ASSUME NEW d \in Callers PROVE Known(d)'
  BY <1>1 DEF FilteredInv, Known
<1>3. ASSUME NEW d \in Callers PROVE Checked(d)'
  <2>1. CASE d = c
    BY <1>1, <2>1 DEF Checked
  <2>2. CASE d # c
    <3>1. Checked(d) /\ pc'[d] = pc[d] /\ op'[d] = op[d]
      BY <1>1, <2>2 DEF FilteredInv
    <3>2. ASSUME NEW i, NEW f, op[d].id = i, op[d].fields = f,
                 pc[d] = "updating", Reworded(f), i \notin crossed
          PROVE  Combined(i, f)'
      BY <2>2, <3>1, <3>2 DEF Checked
    <3> QED
      BY <3>1, <3>2 DEF Checked
  <2> QED
    BY <2>1, <2>2
<1>4. ASSUME NEW d \in Callers, NEW e \in Callers, d # e PROVE Apart(d, e)'
  <2>1. CASE d # c /\ e # c
    BY <1>1, <1>4, <2>1 DEF FilteredInv, Apart
  <2>2. CASE d = c
    BY <1>1, <1>4, <2>2 DEF Apart
  <2>3. CASE e = c
    <3>1. place = "updating" /\ Reworded(next.fields) => Apart(c, d)'
      BY <1>4, <2>3
    <3> QED
      BY <1>1, <2>3, <3>1 DEF Apart
  <2> QED
    BY <2>1, <2>2, <2>3
<1> QED
  BY <1>2, <1>3, <1>4 DEF FilteredInv

(* A step that writes nothing and has nothing checked. *)
LEMMA QuietFiltered ==
  ASSUME AllowedInv, FilteredInv, NEW c \in Callers, NEW place, NEW next,
         Proceed(c, place, next), UNCHANGED <<settings, rows, crossed>>,
         place = "updating" => ~Reworded(next.fields),
         place \in {"rechecking", "updating", "deleting"} => next.id \in Ids
  PROVE  FilteredInv'
<1>1. Ids' = Ids
  BY DEF Ids
<1>2. \A i \in Ids' : Filtered(i)'
  BY <1>1 DEF FilteredInv, Filtered
<1>3. \A i, f : Combined(i, f) => Combined(i, f)'
  BY DEF Combined, Said
<1> QED
  BY <1>1, <1>2, <1>3, OthersFiltered

LEMMA BeginFiltered ==
  ASSUME AllowedInv, FilteredInv, NEW c \in Callers, Begin(c)
  PROVE  FilteredInv'
<1>1. UNCHANGED <<settings, rows, crossed>>
  BY DEF Begin
<1>2. ASSUME NEW kind, NEW xs, NEW place \in {"looking", "inserting"},
             Proceed(c, place, Operation(kind, xs, 0, <<>>))
      PROVE  FilteredInv'
  BY <1>1, <1>2, QuietFiltered
<1>3. ASSUME NEW i \in Ids, NEW f \in Patches,
             Proceed(c, IF Reworded(f) THEN "rechecking" ELSE "updating",
                     Operation("patch", <<>>, i, f))
      PROVE  FilteredInv'
  <2>1. Operation("patch", <<>>, i, f).id = i /\ Operation("patch", <<>>, i, f).fields = f
    BY DEF Operation
  <2> QED
    BY <1>1, <1>3, <2>1, QuietFiltered
<1>4. ASSUME NEW i \in Ids, Proceed(c, "deleting", Operation("forget", <<>>, i, <<>>))
      PROVE  FilteredInv'
  <2>1. Operation("forget", <<>>, i, <<>>).id = i
    BY DEF Operation
  <2> QED
    BY <1>1, <1>4, <2>1, QuietFiltered
<1> QED
  BY <1>2, <1>3, <1>4 DEF Begin, BeginList, BeginByHand

LEMMA LookFiltered ==
  ASSUME AllowedInv, FilteredInv, NEW c \in Callers, Look(c)
  PROVE  FilteredInv'
<1> DEFINE o == op[c]
           x == Head(o.todo)
<1>1. pc[c] = "looking" /\ UNCHANGED <<settings, rows, crossed>> /\ OpOK(c)
  BY DEF Look, AllowedInv
<1>2. CASE Proceed(c, "inserting", o)
  BY <1>1, <1>2, QuietFiltered
<1>3. CASE NextCandidate(c)
  BY <1>1, <1>3, QuietFiltered DEF NextCandidate
<1>4. ASSUME NEW i \in Ids,
             Proceed(c, "rechecking", [o EXCEPT !.id = i, !.fields = FieldsFor(x, o.kind, i)])
      PROVE  FilteredInv'
  <2> DEFINE next == [o EXCEPT !.id = i, !.fields = FieldsFor(x, o.kind, i)]
  <2>1. next.id = i
    BY <1>1 DEF OpOK
  <2> HIDE DEF next
  <2>2. Proceed(c, "rechecking", next)
    BY <1>4 DEF next
  <2> QED
    BY <1>1, <2>1, <2>2, QuietFiltered
<1> QED
  BY <1>2, <1>3, <1>4 DEF Look, FindSimilar, Lookups, Matching

(* What goes on has nothing checked, as it looks for the next or ends. *)
LEMMA NextPlace ==
  ASSUME NEW c, NextCandidate(c)
  PROVE  \E place \in {"idle", "looking"} : \E next : Proceed(c, place, next)
BY DEF NextCandidate

(* What is stored has passed the filter, or is a note. *)
LEMMA InsertFiltered ==
  ASSUME AllowedInv, FilteredInv, NEW c \in Callers, Insert(c)
  PROVE  FilteredInv'
<1> DEFINE o == op[c]
           x == Head(o.todo)
           row == RowOf(x, SourceOf[o.kind], SeenBy(c))
           new == IF o.kind = "note" THEN [row EXCEPT !.subject = x.heading] ELSE row
<1>1. /\ pc[c] = "inserting" /\ UNCHANGED <<settings, crossed>> /\ NextCandidate(c)
      /\ rows' = Append(rows, new) /\ OpOK(c)
  BY DEF Insert, AllowedInv
<1>2. /\ x \in Candidates /\ Passes(x, o.kind)
      /\ o.kind \in {"capture", "import", "remember", "create", "note"}
  BY <1>1 DEF OpOK
<1>3. settings.filter => IsSafe(new.subject, new.content) \/ IsHeaded(new)
  <2>1. CASE o.kind = "note"
    <3>1. new.subject = x.heading /\ new.content = x.content /\ new.by = "manual"
      BY <2>1 DEF RowOf, SourceOf
    <3> QED
      BY <1>2, <3>1 DEF IsHeaded
  <2>2. CASE o.kind # "note"
    <3>1. settings.filter => IsSafe(x.subject, x.content)
      BY <1>2, <2>2 DEF Passes
    <3>2. new.subject = x.subject /\ new.content = x.content
      BY <2>2 DEF RowOf
    <3> HIDE DEF new, x, o
    <3> QED
      BY <3>1, <3>2
  <2> QED
    BY <2>1, <2>2
<1> HIDE DEF new, x, o
<1>4. PICK n \in Nat : DOMAIN rows = 1 .. n
  BY DEF AllowedInv
<1>5. /\ DOMAIN rows' = 1 .. n + 1
      /\ \A i \in 1 .. n + 1 : rows'[i] = IF i = n + 1 THEN new ELSE rows[i]
  BY <1>1, <1>4
<1>6. Ids \subseteq Ids' /\ \A i \in Ids : rows'[i] = rows[i]
  BY <1>4, <1>5 DEF Ids
<1>7. ASSUME NEW i \in Ids' PROVE Filtered(i)'
  <2>1. CASE i \in Ids
    BY <1>1, <1>6, <2>1 DEF FilteredInv, Filtered
  <2>2. CASE i \notin Ids
    <3>1. rows'[i] = new
      BY <1>4, <1>5, <2>2 DEF Ids
    <3> QED
      BY <1>1, <1>3, <3>1 DEF Filtered
  <2> QED
    BY <2>1, <2>2
<1>8. \A i \in Ids : \A f : Combined(i, f) => Combined(i, f)'
  BY <1>6 DEF Combined, Said
<1>9. \A d \in Callers : pc[d] = "updating" => op[d].id \in Ids
  BY DEF FilteredInv, Known
<1> QED
  BY <1>1, <1>6, <1>7, <1>8, <1>9, NextPlace, OthersFiltered

(* What an update is about to leave in its row has been filtered as a whole, *)
(* unless another was about to leave something else.                         *)
LEMMA RecheckFiltered ==
  ASSUME AllowedInv, FilteredInv, NEW c \in Callers, Recheck(c)
  PROVE  FilteredInv'
<1> DEFINE o == op[c]
<1>1. pc[c] = "rechecking" /\ UNCHANGED <<settings, rows, seen, ops>> /\ o.id \in Ids
  BY DEF Recheck, FilteredInv, Known
<1>2. CASE /\ Combined(o.id, o.fields) /\ Proceed(c, "updating", o)
           /\ crossed' = IF Crosses(c) THEN crossed \cup {o.id} ELSE crossed
  <2>1. /\ pc'[c] = "updating" /\ op'[c] = o
        /\ \A d \in Callers : d # c => pc'[d] = pc[d] /\ op'[d] = op[d]
    BY <1>2 DEF AllowedInv, Proceed
  <2>2. crossed \subseteq crossed' /\ Ids' = Ids
    BY <1>1, <1>2 DEF Ids
  <2>3. \A i \in Ids' : Filtered(i)'
    BY <1>1, <2>2 DEF FilteredInv, Filtered
  <2>4. \A i, f : Combined(i, f) => Combined(i, f)'
    BY <1>1 DEF Combined, Said
  <2>5. Checked(c)'
    BY <1>2, <2>1, <2>4 DEF Checked
  <2>6. ASSUME NEW d \in Callers, d # c PROVE Apart(c, d)'
    <3>1. CASE Crosses(c)
      BY <1>2, <2>1, <3>1 DEF Apart
    <3>2. CASE ~Crosses(c)
      BY <2>1, <2>6, <3>2 DEF Apart, Crosses
    <3> QED
      BY <3>1, <3>2
  <2> QED
    BY <1>1, <1>2, <2>2, <2>3, <2>4, <2>5, <2>6, OthersFiltered
<1>3. CASE Proceed(c, "idle", NoOp) /\ UNCHANGED crossed
  BY <1>1, <1>3, QuietFiltered
<1> QED
  BY <1>2, <1>3 DEF Recheck

(* What is written to a row is what was checked, as far as the others' checks *)
(* hold as well.                                                              *)
LEMMA UpdateFiltered ==
  ASSUME AllowedInv, FilteredInv, NEW c \in Callers, Update(c)
  PROVE  FilteredInv'
<1> DEFINE o == op[c]
           i == o.id
           f == o.fields
           written == [k \in DOMAIN rows[i] |-> IF k \in DOMAIN f THEN f[k] ELSE rows[i][k]]
           signed == [written EXCEPT !.by = SourceOf[o.kind], !.seen = SeenBy(c)]
           new == IF "content" \in DOMAIN f THEN signed ELSE written
<1>1. /\ pc[c] = "updating" /\ UNCHANGED <<settings, crossed>> /\ NextCandidate(c)
      /\ OpOK(c) /\ Checked(c) /\ i \in Ids
      /\ rows' = IF ~rows[i].live THEN rows ELSE [rows EXCEPT ![i] = new]
  BY DEF Update, AllowedInv, FilteredInv, Known
<1>2. CASE ~rows[i].live
  BY <1>1, <1>2, NextPlace, QuietFiltered
<1>3. CASE rows[i].live
  <2>1. DOMAIN rows[i] = RowFields /\ "live" \notin DOMAIN f /\ "by" \notin DOMAIN f
    BY <1>1 DEF AllowedInv, RowOK, OpOK, Field
  <2>2. /\ DOMAIN written = RowFields /\ written.live = rows[i].live
        /\ written.by = rows[i].by
        /\ \A k \in {"subject", "content"} :
             written[k] = IF k \in DOMAIN f THEN f[k] ELSE rows[i][k]
    BY <2>1 DEF RowFields
  <2> HIDE DEF written
  <2>3. signed.live = written.live /\ \A k \in {"subject", "content"} : signed[k] = written[k]
    BY <2>2 DEF RowFields
  <2> HIDE DEF signed
  <2>4. /\ new.live
        /\ \A k \in {"subject", "content"} :
             new[k] = IF k \in DOMAIN f THEN f[k] ELSE rows[i][k]
        /\ "content" \notin DOMAIN f => new.by = rows[i].by
    BY <1>3, <2>2, <2>3
  <2> HIDE DEF new
  <2>5. /\ Ids' = Ids /\ rows'[i] = new
        /\ \A j \in Ids : j # i => rows'[j] = rows[j]
    BY <1>1, <1>3 DEF Ids
  <2>6. ASSUME NEW j \in Ids' PROVE Filtered(j)'
    <3>1. CASE j # i
      BY <1>1, <2>5, <3>1 DEF FilteredInv, Filtered
    <3>2. CASE j = i /\ Reworded(f)
      <4>1. i \in crossed \/ Combined(i, f)
        BY <1>1, <3>2 DEF Checked
      <4>2. Said(i, f, "subject") = new["subject"] /\ Said(i, f, "content") = new["content"]
        BY <1>3, <2>4 DEF Said
      <4>3. Combined(i, f) => IsSafe(new.subject, new.content)
        BY <4>2 DEF Combined
      <4> HIDE DEF i, f
      <4> QED
        BY <1>1, <2>5, <3>2, <4>1, <4>3 DEF Filtered
    <3>3. CASE j = i /\ ~Reworded(f)
      <4>1. "subject" \notin DOMAIN f /\ "content" \notin DOMAIN f
        BY <3>3 DEF Reworded, TextsOf
      <4>2. new.subject = rows[i].subject /\ new.content = rows[i].content /\ new.by = rows[i].by
        BY <2>4, <4>1
      <4> QED
        BY <1>1, <2>5, <3>3, <4>2 DEF FilteredInv, Filtered, IsHeaded
    <3> QED
      BY <3>1, <3>2, <3>3
  <2>7. ASSUME NEW d \in Callers, NEW j, NEW g,
               d # c, pc[d] = "updating", op[d].id = j, op[d].fields = g,
               j \notin crossed, Reworded(g), Combined(j, g)
        PROVE  Combined(j, g)'
    <3>1. j \in Ids
      BY <2>7 DEF FilteredInv, Known
    <3>2. ASSUME NEW k \in {"subject", "content"} PROVE Said(j, g, k)' = Said(j, g, k)
      <4>1. CASE j # i
        BY <2>5, <3>1, <4>1 DEF Said
      <4>2. CASE j = i /\ k \in DOMAIN g
        BY <4>2 DEF Said
      <4>3. CASE j = i /\ k \notin DOMAIN g
        <5>1. Reworded(f) => TextsOf(f) = TextsOf(g)
          BY <1>1, <2>7, <4>3 DEF FilteredInv, Apart
        <5>2. k \notin DOMAIN f
          BY <4>3, <5>1 DEF Reworded, TextsOf
        <5>3. new[k] = rows[i][k] /\ new.live
          BY <2>4, <5>2
        <5> HIDE DEF i, f
        <5> QED
          BY <1>3, <2>5, <4>3, <5>3 DEF Said
      <4> QED
        BY <4>1, <4>2, <4>3
    <3> QED
      BY <2>7, <3>2 DEF Combined
  <2>8. PICK place \in {"idle", "looking"} : \E next : Proceed(c, place, next)
    BY <1>1, NextPlace
  <2> QED
    BY <1>1, <2>5, <2>6, <2>7, <2>8, OthersFiltered
<1> QED
  BY <1>2, <1>3

LEMMA DeleteFiltered ==
  ASSUME AllowedInv, FilteredInv, NEW c \in Callers, Delete(c)
  PROVE  FilteredInv'
<1> DEFINE i == op[c].id
           gone == [rows[i] EXCEPT !.live = FALSE]
<1>1. /\ rows' = [rows EXCEPT ![i] = gone] /\ Proceed(c, "idle", NoOp)
      /\ UNCHANGED <<settings, crossed>> /\ i \in Ids
  BY DEF Delete, FilteredInv, Known
<1>2. DOMAIN rows[i] = RowFields
  BY <1>1 DEF AllowedInv, RowOK
<1>3. /\ gone.by = rows[i].by /\ ~gone.live
      /\ gone.subject = rows[i].subject /\ gone.content = rows[i].content
  BY <1>2 DEF RowFields
<1> HIDE DEF gone, i
<1>4. /\ Ids' = Ids /\ rows'[i] = gone
      /\ \A j \in Ids : j # i => rows'[j] = rows[j]
  BY <1>1 DEF Ids
<1>5. \A j \in Ids' : Filtered(j)'
  <2> SUFFICES ASSUME NEW j \in Ids PROVE Filtered(j)'
    BY <1>4
  <2>1. CASE j = i
    BY <1>1, <1>3, <1>4, <2>1 DEF FilteredInv, Filtered, IsHeaded
  <2>2. CASE j # i
    BY <1>1, <1>4, <2>2 DEF FilteredInv, Filtered
  <2> QED
    BY <2>1, <2>2
<1>6. ASSUME NEW j \in Ids, NEW f, Combined(j, f) PROVE Combined(j, f)'
  <2>1. \A k \in {"subject", "content"} : Said(j, f, k)' = Said(j, f, k) \/ Said(j, f, k)' = {}
    <3>1. CASE j = i
      BY <1>3, <1>4, <3>1 DEF Said
    <3>2. CASE j # i
      BY <1>4, <3>2 DEF Said
    <3> QED
      BY <3>1, <3>2
  <2> QED
    BY <1>6, <2>1, SafeLess DEF Combined
<1>7. \A d \in Callers : pc[d] = "updating" => op[d].id \in Ids
  BY DEF FilteredInv, Known
<1> QED
  BY <1>1, <1>4, <1>5, <1>6, <1>7, OthersFiltered

LEMMA FilteredStep == AllowedInv /\ FilteredInv /\ [Next]_vars => FilteredInv'
<1> SUFFICES ASSUME AllowedInv, FilteredInv, [Next]_vars PROVE FilteredInv'
  OBVIOUS
<1>1. CASE UNCHANGED vars
  <2>1. UNCHANGED <<settings, rows, pc, op, crossed>> /\ Ids' = Ids
    BY <1>1 DEF vars, Ids
  <2>2. \A i \in Ids : Filtered(i)'
    BY <2>1 DEF FilteredInv, Filtered
  <2>3. \A c \in Callers : Checked(c)' /\ Known(c)'
    BY <2>1 DEF FilteredInv, Checked, Known, Combined, Said
  <2>4. \A c, d \in Callers : c # d => Apart(c, d)'
    BY <2>1 DEF FilteredInv, Apart
  <2> QED
    BY <2>1, <2>2, <2>3, <2>4 DEF FilteredInv
<1> QED
  BY <1>1, BeginFiltered, LookFiltered, InsertFiltered, RecheckFiltered, UpdateFiltered,
     DeleteFiltered
  DEF Next, Step, Rest

(* memory/manager.py and secrets_filter.py: of whatever is captured, remembered,  *)
(* imported, entered or edited, in any order and at the same time, and whatever   *)
(* combinations of words are secret, nothing that the filter refuses is ever in a *)
(* row while the filter is on, but for the texts of updates that overlapped and   *)
(* for the headings of notes; and nothing of a conversation unless the mode       *)
(* captures.                                                                      *)
THEOREM StoredAlwaysAllowed == Spec => []StoredIsAllowed
<1>1. AllowedInv /\ FilteredInv => StoredIsAllowed
  BY DEF AllowedInv, FilteredInv, Filtered, StoredIsAllowed, RowOK
<1> QED
  BY <1>1, InitAllowed, AllowedStep, InitFiltered, FilteredStep, PTL DEF Spec

-----------------------------------------------------------------------------
(* Likeness: a text is like itself by 100, and like no other by as much. *)
LEMMA Percentage ==
  ASSUME NEW m \in Nat, NEW n \in Nat, m <= n, n > 0
  PROVE  /\ (100 * m) \div n \in 0 .. 100
         /\ (100 * m) \div n = 100 <=> m = n
<1> DEFINE q == (100 * m) \div n
<1>1. q \in Nat /\ n * q <= 100 * m /\ 100 * m < n * q + n
  OBVIOUS
<1> HIDE DEF q
<1>2. q <= 100
  <2> SUFFICES ASSUME q >= 101 PROVE FALSE
    BY <1>1
  <2>1. n * q >= n * 101
    BY <1>1
  <2> QED
    BY <1>1, <2>1
<1>3. ASSUME m = n PROVE q = 100
  <2> SUFFICES ASSUME q <= 99 PROVE FALSE
    BY <1>1, <1>2
  <2>1. n * q <= n * 99
    BY <1>1
  <2> QED
    BY <1>1, <1>3, <2>1
<1>4. ASSUME q = 100 PROVE m = n
  BY <1>1, <1>4
<1> QED
  BY <1>1, <1>2, <1>3, <1>4 DEF q

LEMMA SimilarityIs ==
  ASSUME NEW a, NEW b, Text(a), Text(b)
  PROVE  /\ Similarity(a, b) \in 0 .. 100
         /\ a # {} => (Similarity(a, b) = 100 <=> a = b)
<1>1. CASE a = {} \/ b = {}
  BY <1>1 DEF Similarity
<1>2. CASE a # {} /\ b # {}
  <2> DEFINE m == Cardinality(a \cap b)
             n == Cardinality(a \cup b)
  <2>1. IsFiniteSet(a \cup b)
    BY FS_Union DEF Text
  <2>2. m \in Nat /\ n \in Nat /\ m <= n /\ (m = n => a \cap b = a \cup b)
    BY <2>1, FS_Subset, FS_CardinalityType
  <2>3. n # 0
    BY <1>2, <2>1, FS_EmptySet
  <2>4. Similarity(a, b) = (100 * m) \div n
    BY <1>2 DEF Similarity
  <2>5. a = b => m = n
    OBVIOUS
  <2>6. a \cap b = a \cup b => a = b
    OBVIOUS
  <2> HIDE DEF m, n
  <2>7. (100 * m) \div n \in 0 .. 100 /\ ((100 * m) \div n = 100 <=> m = n)
    BY <2>2, <2>3, Percentage
  <2> QED
    BY <2>2, <2>4, <2>5, <2>6, <2>7
<1> QED
  BY <1>1, <1>2

LEMMA ScoreIs ==
  ASSUME NEW x \in Candidates, x.content # {}, NEW row, RowOK(row)
  PROVE  /\ Score(x, row) \in 0 .. 100
         /\ Score(x, row) = 100 <=> x.content = row.content
<1> DEFINE s == Similarity(x.content, row.content)
           t == Similarity(x.subject, row.subject)
<1>1. Text(x.content) /\ Text(x.subject) /\ Text(row.content) /\ Text(row.subject)
  BY CandidateTexts DEF RowOK, Field
<1>3. s \in 0 .. 100 /\ t \in 0 .. 100 /\ (s = 100 <=> x.content = row.content)
  BY <1>1, SimilarityIs
<1>4. Score(x, row) = LargerOf(s, (70 * s + 30 * t) \div 100)
  BY DEF Score
<1> HIDE DEF s, t
<1> QED
  BY <1>3, <1>4 DEF LargerOf

(* find_similar: where the lookup cannot miss a memory that says the same, one *)
(* that says the same is found.                                                *)
LEMMA FoundAmongTwins ==
  ASSUME AllowedInv, NEW x \in Candidates, NEW threshold \in 0 .. 100,
         NEW read \in Lookups(x), InReach(x) # {}
  PROVE  /\ FindSimilar(x, read, threshold) # {}
         /\ FindSimilar(x, read, threshold) \subseteq InReach(x)
<1>1. /\ read = Matching(x) /\ x.content # {}
      /\ Cardinality(Matching(x)) <= LOOKUP_LIMIT
      /\ InReach(x) = {i \in read : rows[i].content = x.content}
  BY DEF InReach, Lookups
<1>2. ASSUME NEW i \in read
      PROVE  /\ Score(x, rows[i]) \in 0 .. 100
             /\ Score(x, rows[i]) = 100 <=> x.content = rows[i].content
  <2>1. RowOK(rows[i])
    BY <1>1 DEF AllowedInv, Matching
  <2> QED
    BY <1>1, <2>1, ScoreIs, Zenon
<1>3. PICK twin \in read : Score(x, rows[twin]) = 100
  BY <1>1, <1>2
<1>4. twin \in FindSimilar(x, read, threshold)
  BY <1>2, <1>3 DEF FindSimilar
<1>5. ASSUME NEW i \in FindSimilar(x, read, threshold) PROVE i \in InReach(x)
  <2>1. i \in read /\ Score(x, rows[i]) >= Score(x, rows[twin])
    BY DEF FindSimilar
  <2>2. Score(x, rows[i]) = 100
    BY <1>2, <1>3, <2>1
  <2> QED
    BY <1>1, <1>2, <2>1, <2>2
<1> QED
  BY <1>4, <1>5

-----------------------------------------------------------------------------
(* Who had seen a memory that says the same has written into one of those. *)
SeenOK(c) ==
    /\ pc[c] = "inserting" /\ op[c].kind \notin {"create", "note"} => seen[c] = {}
    /\ pc[c] \in {"rechecking", "updating"} /\ op[c].kind # "patch" =>
          (seen[c] # {} => op[c].id \in seen[c])

OwnTwin(i) == rows[i].seen # {} => i \in rows[i].seen

TwinsInv ==
    /\ DOMAIN seen = Callers
    /\ \A i \in Ids : OwnTwin(i)
    /\ \A c \in Callers : SeenOK(c)

LEMMA InitTwins == Init => TwinsInv
<1> SUFFICES ASSUME Init PROVE TwinsInv
  OBVIOUS
<1>1. PICK before \in Before : rows = [i \in 1 .. Len(before) |-> RowOf(before[i], "manual", {})]
  BY DEF Init
<1>2. \A i \in Ids : OwnTwin(i)
  BY <1>1 DEF Ids, OwnTwin, RowOf
<1>3. \A c \in Callers : SeenOK(c)
  BY DEF Init, SeenOK
<1> QED
  BY <1>2, <1>3 DEF TwinsInv, Init

(* Of the others nothing changes. *)
LEMMA OthersSeen ==
  ASSUME AllowedInv, TwinsInv, NEW c \in Callers, NEW place, NEW next, Proceed(c, place, next),
         \A d \in Callers : d # c => seen'[d] = seen[d],
         DOMAIN seen' = Callers,
         \A i \in Ids' : OwnTwin(i)',
         SeenOK(c)'
  PROVE  TwinsInv'
<1>1. \A d \in Callers : d # c => pc'[d] = pc[d] /\ op'[d] = op[d]
  BY DEF AllowedInv, Proceed
<1>2. ASSUME NEW d \in Callers, d # c PROVE SeenOK(d)'
  BY <1>1, <1>2 DEF TwinsInv, SeenOK
<1> QED
  BY <1>2 DEF TwinsInv

(* A caller at any other place has nothing to keep. *)
LEMMA SeenElsewhere ==
  ASSUME AllowedInv, NEW c \in Callers, NEW place, NEW next, Proceed(c, place, next),
         \/ place \in {"idle", "looking", "deleting"}
         \/ place = "inserting" /\ next.kind \in {"create", "note"}
         \/ place \in {"rechecking", "updating"} /\ next.kind = "patch"
  PROVE  SeenOK(c)'
<1>1. pc'[c] = place /\ op'[c] = next
  BY DEF AllowedInv, Proceed
<1> QED
  BY <1>1 DEF SeenOK

LEMMA NextSeen ==
  ASSUME AllowedInv, NEW c \in Callers, NextCandidate(c)
  PROVE  SeenOK(c)' /\ \E place, next : Proceed(c, place, next)
BY SeenElsewhere DEF NextCandidate

LEMMA BeginSeen ==
  ASSUME AllowedInv, TwinsInv, NEW c \in Callers, Begin(c)
  PROVE  TwinsInv'
<1>1. UNCHANGED <<settings, rows, seen>>
  BY DEF Begin
<1>2. (\A i \in Ids' : OwnTwin(i)') /\ DOMAIN seen' = Callers
  BY <1>1 DEF TwinsInv, OwnTwin, Ids
<1>3. PICK place, next :
        /\ Proceed(c, place, next)
        /\ \/ place \in {"idle", "looking", "deleting"}
           \/ place = "inserting" /\ next.kind \in {"create", "note"}
           \/ place \in {"rechecking", "updating"} /\ next.kind = "patch"
  <2>1. CASE BeginList(c)
    BY <2>1 DEF BeginList
  <2>2. CASE BeginByHand(c)
    <3>1. CASE \E kind \in {"create", "note"}, x \in Candidates :
                  Proceed(c, "inserting", Operation(kind, <<x>>, 0, <<>>))
      BY <3>1 DEF Operation
    <3>2. CASE \E i \in Ids, f \in Patches :
                  Proceed(c, IF Reworded(f) THEN "rechecking" ELSE "updating",
                          Operation("patch", <<>>, i, f))
      BY <3>2 DEF Operation
    <3>3. CASE \E i \in Ids : Proceed(c, "deleting", Operation("forget", <<>>, i, <<>>))
      BY <3>3
    <3> QED
      BY <2>2, <3>1, <3>2, <3>3 DEF BeginByHand
  <2> QED
    BY <2>1, <2>2 DEF Begin
<1>4. SeenOK(c)'
  BY <1>3, SeenElsewhere
<1> QED
  BY <1>1, <1>2, <1>3, <1>4, OthersSeen

(* Who finds nothing has seen nothing, and who finds has found one of those seen. *)
LEMMA LookSeen ==
  ASSUME AllowedInv, TwinsInv, NEW c \in Callers, Look(c)
  PROVE  TwinsInv'
<1> DEFINE o == op[c]
           x == Head(o.todo)
           threshold == IF o.kind = "import" THEN SKIP_THRESHOLD ELSE UPDATE_THRESHOLD
           twins == InReach(x)
<1>0. PICK read \in Lookups(x) :
        LET found == FindSimilar(x, read, threshold)
        IN  \/ found = {} /\ Proceed(c, "inserting", o)
            \/ \E i \in found :
                  IF SameAgain(x, o.kind, i) THEN NextCandidate(c)
                  ELSE Proceed(c, "rechecking",
                               [o EXCEPT !.id = i, !.fields = FieldsFor(x, o.kind, i)])
  BY DEF Look
<1> DEFINE found == FindSimilar(x, read, threshold)
<1>1. /\ pc[c] = "looking" /\ UNCHANGED <<settings, rows, ops>> /\ OpOK(c)
      /\ seen' = [seen EXCEPT ![c] = twins] /\ DOMAIN seen = Callers
      /\ DOMAIN pc = Callers /\ DOMAIN op = Callers
  BY DEF Look, AllowedInv, TwinsInv
<1>2. /\ x \in Candidates /\ threshold \in 0 .. 100
      /\ DOMAIN o = {"kind", "todo", "id", "fields"}
  BY <1>1 DEF OpOK, SKIP_THRESHOLD, UPDATE_THRESHOLD
<1>3. seen'[c] = twins /\ DOMAIN seen' = Callers /\ \A d \in Callers : d # c => seen'[d] = seen[d]
  BY <1>1
<1>4. \A i \in Ids' : OwnTwin(i)'
  BY <1>1 DEF TwinsInv, OwnTwin, Ids
<1>5. twins # {} => found # {} /\ found \subseteq twins
  <2> HIDE DEF x, threshold
  <2> QED
    BY <1>2, FoundAmongTwins
<1>6. CASE found = {} /\ Proceed(c, "inserting", o)
  <2>1. pc'[c] = "inserting" /\ op'[c] = o /\ twins = {}
    BY <1>1, <1>5, <1>6 DEF Proceed
  <2>2. SeenOK(c)'
    BY <1>3, <2>1 DEF SeenOK
  <2> QED
    BY <1>3, <1>4, <1>6, <2>2, OthersSeen
<1>7. CASE NextCandidate(c)
  BY <1>3, <1>4, <1>7, NextSeen, OthersSeen
<1>8. ASSUME NEW i \in found,
             Proceed(c, "rechecking", [o EXCEPT !.id = i, !.fields = FieldsFor(x, o.kind, i)])
      PROVE  TwinsInv'
  <2> DEFINE next == [o EXCEPT !.id = i, !.fields = FieldsFor(x, o.kind, i)]
  <2>1. next.id = i
    BY <1>2
  <2>2. pc'[c] = "rechecking" /\ op'[c] = next
    BY <1>1, <1>8 DEF Proceed
  <2> HIDE DEF next, found
  <2>3. SeenOK(c)'
    BY <1>3, <1>5, <2>1, <2>2 DEF SeenOK
  <2> QED
    BY <1>3, <1>4, <1>8, <2>3, OthersSeen
<1> QED
  BY <1>0, <1>6, <1>7, <1>8

LEMMA InsertSeen ==
  ASSUME AllowedInv, TwinsInv, NEW c \in Callers, Insert(c)
  PROVE  TwinsInv'
<1> DEFINE x == Head(op[c].todo)
           row == RowOf(x, SourceOf[op[c].kind], SeenBy(c))
           new == IF op[c].kind = "note" THEN [row EXCEPT !.subject = x.heading] ELSE row
<1>1. /\ pc[c] = "inserting" /\ UNCHANGED <<settings, seen, ops>> /\ NextCandidate(c)
      /\ rows' = Append(rows, new) /\ OpOK(c) /\ SeenOK(c)
  BY DEF Insert, AllowedInv, TwinsInv
<1>2. op[c].kind \in {"capture", "import", "remember", "create", "note"}
  BY <1>1 DEF OpOK
<1>3. SeenBy(c) = {}
  BY <1>1, <1>2 DEF SeenBy, SourceOf, SeenOK
<1>4. new.seen = {}
  BY <1>3 DEF RowOf
<1> HIDE DEF new
<1>5. PICK n \in Nat : DOMAIN rows = 1 .. n
  BY DEF AllowedInv
<1>6. /\ DOMAIN rows' = 1 .. n + 1
      /\ \A i \in 1 .. n + 1 : rows'[i] = IF i = n + 1 THEN new ELSE rows[i]
  BY <1>1, <1>5
<1>7. \A i \in Ids' : OwnTwin(i)'
  BY <1>4, <1>5, <1>6 DEF TwinsInv, OwnTwin, Ids
<1>8. DOMAIN seen' = Callers /\ \A d \in Callers : d # c => seen'[d] = seen[d]
  BY <1>1 DEF TwinsInv
<1> QED
  BY <1>1, <1>7, <1>8, NextSeen, OthersSeen

LEMMA RecheckSeen ==
  ASSUME AllowedInv, TwinsInv, NEW c \in Callers, Recheck(c)
  PROVE  TwinsInv'
<1>1. /\ pc[c] = "rechecking" /\ UNCHANGED <<settings, rows, seen, ops>> /\ SeenOK(c)
      /\ DOMAIN pc = Callers /\ DOMAIN op = Callers
  BY DEF Recheck, AllowedInv, TwinsInv
<1>2. (\A i \in Ids' : OwnTwin(i)') /\ DOMAIN seen' = Callers
  BY <1>1 DEF TwinsInv, OwnTwin, Ids
<1>3. CASE Proceed(c, "updating", op[c])
  <2>1. pc'[c] = "updating" /\ op'[c] = op[c]
    BY <1>1, <1>3 DEF Proceed
  <2>2. SeenOK(c)'
    BY <1>1, <2>1 DEF SeenOK
  <2> QED
    BY <1>1, <1>2, <1>3, <2>2, OthersSeen
<1>4. CASE Proceed(c, "idle", NoOp)
  BY <1>1, <1>2, <1>4, SeenElsewhere, OthersSeen
<1> QED
  BY <1>3, <1>4 DEF Recheck

LEMMA UpdateSeen ==
  ASSUME AllowedInv, TwinsInv, NEW c \in Callers, Update(c)
  PROVE  TwinsInv'
<1> DEFINE o == op[c]
           i == o.id
           f == o.fields
           written == [k \in DOMAIN rows[i] |-> IF k \in DOMAIN f THEN f[k] ELSE rows[i][k]]
           signed == [written EXCEPT !.by = SourceOf[o.kind], !.seen = SeenBy(c)]
           new == IF "content" \in DOMAIN f THEN signed ELSE written
<1>1. /\ pc[c] = "updating" /\ UNCHANGED <<settings, seen, ops>> /\ NextCandidate(c)
      /\ OpOK(c) /\ SeenOK(c)
      /\ UNCHANGED rows \/ rows' = [rows EXCEPT ![i] = new]
  BY DEF Update, AllowedInv, TwinsInv
<1>2. /\ "seen" \notin DOMAIN f
      /\ o.kind \in {"capture", "import", "remember", "patch"}
  BY <1>1 DEF OpOK, Field
<1>3. SeenBy(c) # {} => i \in SeenBy(c)
  BY <1>1, <1>2 DEF SeenBy, SourceOf, SeenOK
<1>4. ASSUME i \in Ids PROVE new.seen # {} => i \in new.seen
  <2>1. DOMAIN rows[i] = RowFields /\ OwnTwin(i)
    BY <1>4 DEF AllowedInv, RowOK, TwinsInv
  <2>2. written.seen = rows[i].seen /\ DOMAIN written = RowFields
    BY <1>2, <2>1 DEF RowFields
  <2> HIDE DEF written
  <2>3. signed.seen = SeenBy(c)
    BY <2>2 DEF RowFields
  <2> HIDE DEF signed
  <2> QED
    BY <1>3, <2>1, <2>2, <2>3 DEF OwnTwin
<1> HIDE DEF new, i
<1>5. \A k \in Ids' : OwnTwin(k)'
  BY <1>1, <1>4 DEF TwinsInv, OwnTwin, Ids
<1>6. DOMAIN seen' = Callers /\ \A d \in Callers : d # c => seen'[d] = seen[d]
  BY <1>1 DEF TwinsInv
<1> QED
  BY <1>1, <1>5, <1>6, NextSeen, OthersSeen

LEMMA DeleteSeen ==
  ASSUME AllowedInv, TwinsInv, NEW c \in Callers, Delete(c)
  PROVE  TwinsInv'
<1> DEFINE i == op[c].id
           gone == [rows[i] EXCEPT !.live = FALSE]
<1>1. /\ rows' = [rows EXCEPT ![i] = gone] /\ Proceed(c, "idle", NoOp) /\ UNCHANGED seen
  BY DEF Delete
<1>2. gone.seen = rows[i].seen
  OBVIOUS
<1> HIDE DEF gone, i
<1>3. \A k \in Ids' : OwnTwin(k)'
  BY <1>1, <1>2 DEF TwinsInv, OwnTwin, Ids
<1> QED
  BY <1>1, <1>3, SeenElsewhere, OthersSeen DEF TwinsInv

LEMMA TwinsStep == AllowedInv /\ TwinsInv /\ [Next]_vars => TwinsInv'
<1> SUFFICES ASSUME AllowedInv, TwinsInv, [Next]_vars PROVE TwinsInv'
  OBVIOUS
<1>1. CASE UNCHANGED vars
  BY <1>1 DEF vars, TwinsInv, OwnTwin, SeenOK, Ids
<1> QED
  BY <1>1, BeginSeen, LookSeen, InsertSeen, RecheckSeen, UpdateSeen, DeleteSeen
  DEF Next, Step, Rest

(* memory/manager.py, duplicate detection: with any number of writers, memories *)
(* and words, who looked when the lookup could not miss a memory that says the  *)
(* same has not added another: what it wrote is in one of those it saw.         *)
THEOREM TwinsAreNeverSeen == Spec => []TwinsNeverSeen
<1>1. TwinsInv => TwinsNeverSeen
  BY DEF TwinsInv, OwnTwin, TwinsNeverSeen
<1> QED
  BY <1>1, InitAllowed, AllowedStep, InitTwins, TwinsStep, PTL DEF Spec
=============================================================================
