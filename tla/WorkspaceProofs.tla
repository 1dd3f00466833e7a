--------------------------- MODULE WorkspaceProofs ---------------------------
(***************************************************************************)
(* What TLAPS proves about Workspace, for any trees, any trusted folders   *)
(* and any calls of the file tools, by any number of callers.              *)
(***************************************************************************)
EXTENDS Workspace, FiniteSetTheorems, SequenceTheorems, TLAPS

-----------------------------------------------------------------------------
(* Paths. *)
LEMMA PathLength ==
  ASSUME NEW p \in Paths
  PROVE  Len(p) \in Nat /\ DOMAIN p = 1 .. Len(p) /\ \A i \in 1 .. Len(p) : p[i] \in STRING
BY LenProperties, ElementOfSeq DEF Paths

LEMMA PartOfPath ==
  ASSUME NEW p \in Paths, NEW a \in 1 .. Len(p) + 1, NEW b \in 0 .. Len(p)
  PROVE  /\ SubSeq(p, a, b) \in Paths
         /\ Len(SubSeq(p, a, b)) = IF a <= b THEN b - a + 1 ELSE 0
         /\ \A i \in 1 .. b - a + 1 : SubSeq(p, a, b)[i] = p[a + i - 1]
<1>1. a \in Int /\ b \in Int /\ \A i \in a .. b : i \in 1 .. Len(p)
  BY PathLength
<1>2. \A i \in a .. b : p[i] \in STRING
  BY <1>1, PathLength
<1> QED
  BY <1>1, <1>2, SubSeqProperties DEF Paths

LEMMA PrefixIs ==
  ASSUME NEW p \in Paths, NEW q \in Paths
  PROVE  IsPrefix(p, q) <=> Len(p) <= Len(q) /\ \A i \in 1 .. Len(p) : p[i] = q[i]
<1>1. PICK m, n : m = Len(p) /\ n = Len(q) /\ m \in Nat /\ n \in Nat
  BY PathLength
<1>2. SubSeq(p, 1, m) = p
  <2>1. /\ SubSeq(p, 1, m) \in Paths /\ Len(SubSeq(p, 1, m)) = m
        /\ \A i \in 1 .. m : SubSeq(p, 1, m)[i] = p[i]
    BY <1>1, PartOfPath
  <2> QED
    BY <1>1, <2>1, SeqEqual DEF Paths
<1>3. CASE m <= n
  <2>1. /\ SubSeq(q, 1, m) \in Paths /\ Len(SubSeq(q, 1, m)) = m
        /\ \A i \in 1 .. m : SubSeq(q, 1, m)[i] = q[i]
    BY <1>1, <1>3, PartOfPath
  <2>2. (p = SubSeq(q, 1, m)) <=> \A i \in 1 .. m : p[i] = q[i]
    BY <1>1, <2>1, SeqEqual DEF Paths
  <2> QED
    BY <1>1, <1>2, <1>3, <2>2 DEF IsPrefix
<1>4. CASE ~(m <= n)
  BY <1>1, <1>4 DEF IsPrefix
<1> QED
  BY <1>3, <1>4

LEMMA PrefixOfItself ==
  ASSUME NEW p \in Paths
  PROVE  IsPrefix(p, p)
BY PrefixIs, PathLength

LEMMA PrefixOfPrefix ==
  ASSUME NEW p \in Paths, NEW q \in Paths, NEW r \in Paths, IsPrefix(p, q), IsPrefix(q, r)
  PROVE  IsPrefix(p, r)
<1>1. Len(p) <= Len(q) /\ \A i \in 1 .. Len(p) : p[i] = q[i]
  BY PrefixIs
<1>2. Len(q) <= Len(r) /\ \A i \in 1 .. Len(q) : q[i] = r[i]
  BY PrefixIs
<1>3. Len(p) \in Nat /\ Len(q) \in Nat /\ Len(r) \in Nat
  BY PathLength
<1>4. Len(p) <= Len(r) /\ \A i \in 1 .. Len(p) : p[i] = r[i]
  <2>1. \A i \in 1 .. Len(p) : i \in 1 .. Len(q)
    BY <1>1, <1>3
  <2> QED
    BY <1>1, <1>2, <1>3, <2>1
<1> QED
  BY <1>4, PrefixIs

LEMMA PrefixesCompare ==
  ASSUME NEW p \in Paths, NEW q \in Paths, NEW r \in Paths, IsPrefix(p, r), IsPrefix(q, r)
  PROVE  IsPrefix(p, q) \/ IsStrictPrefix(q, p)
<1>1. Len(p) <= Len(r) /\ \A i \in 1 .. Len(p) : p[i] = r[i]
  BY PrefixIs
<1>2. Len(q) <= Len(r) /\ \A i \in 1 .. Len(q) : q[i] = r[i]
  BY PrefixIs
<1>3. Len(p) \in Nat /\ Len(q) \in Nat /\ Len(r) \in Nat
  BY PathLength
<1>4. CASE Len(p) <= Len(q)
  <2>1. \A i \in 1 .. Len(p) : i \in 1 .. Len(q)
    BY <1>3, <1>4
  <2>2. \A i \in 1 .. Len(p) : p[i] = q[i]
    BY <1>1, <1>2, <2>1
  <2> QED
    BY <1>4, <2>2, PrefixIs
<1>5. CASE Len(q) < Len(p)
  <2>1. \A i \in 1 .. Len(q) : i \in 1 .. Len(p)
    BY <1>3, <1>5
  <2>2. Len(q) <= Len(p) /\ \A i \in 1 .. Len(q) : q[i] = p[i]
    BY <1>1, <1>2, <1>3, <1>5, <2>1
  <2>3. q # p
    BY <1>3, <1>5
  <2> QED
    BY <2>2, <2>3, PrefixIs DEF IsStrictPrefix
<1> QED
  BY <1>3, <1>4, <1>5

LEMMA PrefixOfJoined ==
  ASSUME NEW p \in Paths, NEW q \in Paths
  PROVE  p \o q \in Paths /\ IsPrefix(p, p \o q)
<1>1. /\ p \o q \in Paths /\ Len(p \o q) = Len(p) + Len(q)
      /\ \A i \in 1 .. Len(p) + Len(q) :
            (p \o q)[i] = IF i <= Len(p) THEN p[i] ELSE q[i - Len(p)]
  BY ConcatProperties, Zenon DEF Paths
<1>2. PICK r, m, n : r = p \o q /\ m = Len(p) /\ n = Len(q) /\ m \in Nat /\ n \in Nat
  BY PathLength
<1>3. /\ r \in Paths /\ Len(r) = m + n
      /\ \A i \in 1 .. m + n : r[i] = IF i <= m THEN p[i] ELSE q[i - m]
  BY <1>1, <1>2, Zenon
<1>4. m <= m + n /\ \A i \in 1 .. m : p[i] = r[i]
  <2>1. \A i \in 1 .. m : i \in 1 .. m + n /\ i <= m
    BY <1>2
  <2> QED
    BY <1>2, <1>3, <2>1
<1>5. IsPrefix(p, r)
  BY <1>2, <1>3, <1>4, PrefixIs
<1> QED
  BY <1>2, <1>3, <1>5, Zenon

LEMMA OneOf ==
  ASSUME NEW S, NEW e \in S
  PROVE  <<e>> \in Seq(S) /\ Len(<<e>>) = 1 /\ <<e>>[1] = e
OBVIOUS

LEMMA PrefixOfLonger ==
  ASSUME NEW p \in Paths, NEW name \in STRING
  PROVE  Append(p, name) \in Paths /\ IsPrefix(p, Append(p, name))
<1>1. <<name>> \in Paths
  BY OneOf, Zenon DEF Paths
<1>2. Append(p, name) = p \o <<name>>
  BY AppendIsConcat, Zenon DEF Paths
<1> QED
  BY <1>1, <1>2, PrefixOfJoined, Zenon

(* The way from a path to one beneath it. *)
LEMMA WayBeneath ==
  ASSUME NEW p \in Paths, NEW q \in Paths, IsPrefix(p, q)
  PROVE  From(p, q) \in Paths /\ p \o From(p, q) = q
<1>1. PICK m, n, w : m = Len(p) /\ n = Len(q) /\ m \in Nat /\ n \in Nat /\ w = From(p, q)
  BY PathLength
<1>2. m <= n /\ \A i \in 1 .. m : p[i] = q[i]
  BY <1>1, PrefixIs
<1>3. w \in Paths /\ Len(w) = n - m /\ \A i \in 1 .. n - m : w[i] = q[m + i]
  <2>1. m + 1 \in 1 .. n + 1 /\ n \in 0 .. n /\ n - (m + 1) + 1 = n - m
    BY <1>1, <1>2
  <2>2. /\ w \in Paths /\ Len(w) = IF m + 1 <= n THEN n - (m + 1) + 1 ELSE 0
        /\ \A i \in 1 .. n - (m + 1) + 1 : w[i] = q[(m + 1) + i - 1]
    BY <1>1, <2>1, PartOfPath DEF From
  <2> QED
    BY <1>1, <1>2, <2>1, <2>2
<1>4. PICK r : r = p \o w
  OBVIOUS
<1>5. /\ r \in Paths /\ Len(r) = m + (n - m)
      /\ \A i \in 1 .. m + (n - m) : r[i] = IF i <= m THEN p[i] ELSE w[i - m]
  <2>1. /\ p \o w \in Paths /\ Len(p \o w) = Len(p) + Len(w)
        /\ \A i \in 1 .. Len(p) + Len(w) :
              (p \o w)[i] = IF i <= Len(p) THEN p[i] ELSE w[i - Len(p)]
    BY <1>3, ConcatProperties, Zenon DEF Paths
  <2> QED
    BY <1>1, <1>3, <1>4, <2>1, Zenon
<1>6. ASSUME NEW i \in 1 .. n PROVE r[i] = q[i]
  <2>1. CASE i <= m
    BY <1>1, <1>2, <1>5, <2>1
  <2>2. CASE i > m
    <3>1. PICK j : j = i - m /\ j \in 1 .. n - m /\ m + j = i
      BY <1>1, <1>2, <2>2
    <3> QED
      BY <1>1, <1>3, <1>5, <2>2, <3>1
  <2> QED
    BY <1>1, <2>1, <2>2
<1>7. r = q
  BY <1>1, <1>2, <1>5, <1>6, SeqEqual DEF Paths
<1> QED
  BY <1>1, <1>3, <1>4, <1>7

LEMMA WayJoined ==
  ASSUME NEW p \in Paths, NEW q \in Paths
  PROVE  From(p, p \o q) = q
<1>1. PICK r, w : r = p \o q /\ w = From(p, r)
  OBVIOUS
<1>2. r \in Paths /\ w \in Paths /\ p \o w = r
  BY <1>1, PrefixOfJoined, WayBeneath
<1>3. PICK m, k, l : m = Len(p) /\ k = Len(q) /\ l = Len(w) /\ m \in Nat /\ k \in Nat /\ l \in Nat
  BY <1>2, PathLength
<1>4. Len(r) = m + k /\ \A i \in 1 .. m + k : r[i] = IF i <= m THEN p[i] ELSE q[i - m]
  BY <1>1, <1>3, ConcatProperties DEF Paths
<1>5. Len(r) = m + l /\ \A i \in 1 .. m + l : r[i] = IF i <= m THEN p[i] ELSE w[i - m]
  BY <1>2, <1>3, ConcatProperties DEF Paths
<1>6. k = l
  BY <1>3, <1>4, <1>5
<1>7. ASSUME NEW i \in 1 .. k PROVE w[i] = q[i]
  <2>1. PICK j : j = i + m /\ j \in 1 .. m + k /\ ~(j <= m) /\ j - m = i
    BY <1>3
  <2> QED
    BY <1>4, <1>5, <1>6, <2>1
<1> QED
  BY <1>1, <1>2, <1>3, <1>6, <1>7, SeqEqual DEF Paths

LEMMA AncestorsAre ==
  ASSUME NEW p \in Paths, NEW q \in Ancestors(p)
  PROVE  q \in Paths /\ IsPrefix(q, p)
<1>1. PICK i \in 1 .. Len(p) - 1 : q = SubSeq(p, 1, i)
  BY DEF Ancestors
<1>2. Len(p) \in Nat /\ i \in 0 .. Len(p) /\ i - 1 + 1 = i /\ 1 \in 1 .. Len(p) + 1
  BY <1>1, PathLength
<1>3. q \in Paths /\ Len(q) = i /\ \A j \in 1 .. i : q[j] = p[j]
  BY <1>1, <1>2, PartOfPath
<1> QED
  BY <1>2, <1>3, PrefixIs

LEMMA ParentIs ==
  ASSUME NEW p \in Paths \ {<<>>}
  PROVE  Parent(p) \in Paths /\ IsPrefix(Parent(p), p) /\ Last(p) \in STRING
<1>1. Len(p) \in Nat \ {0}
  BY EmptySeq DEF Paths
<1>2. PICK n : /\ n = Len(p) - 1 /\ n \in 0 .. Len(p) /\ n \in Nat
               /\ 1 \in 1 .. Len(p) + 1 /\ n - 1 + 1 = n
  BY <1>1
<1>3. Parent(p) \in Paths /\ Len(Parent(p)) = n /\ \A j \in 1 .. n : Parent(p)[j] = p[j]
  BY <1>2, PartOfPath DEF Parent, Front
<1>4. Last(p) \in STRING
  BY <1>1, PathLength DEF Last
<1> QED
  BY <1>1, <1>2, <1>3, <1>4, PrefixIs
-----------------------------------------------------------------------------
(* What a step to the tree u changes in the tree t, and what allows it: the name *)
(* n of an argument.                                                             *)
Touched(t, u, q) == ~(q \in DOMAIN t /\ q \in DOMAIN u /\ t[q] = u[q])

Reached(t, u, q, n) ==
    IsPrefix(n, q) \/ (IsPrefix(q, n) /\ q \notin DOMAIN t /\ u[q] = Dir)

Reaches(t, u, names) ==
    \A q \in DOMAIN t \cup DOMAIN u :
        Touched(t, u, q) => \E n \in names : Reached(t, u, q, n)

LEMMA FileIsEntry ==
  ASSUME NEW text \in Texts
  PROVE  IsEntry(File(text))
BY DEF IsEntry, File

LEMMA DirIsEntry == IsEntry(Dir)
BY DEF IsEntry

LEMMA NothingReached ==
  ASSUME NEW t, NEW names
  PROVE  Reaches(t, t, names)
BY DEF Reaches, Touched

(* Entries are written at or beneath the names. *)
LEMMA Writes ==
  ASSUME NEW t, HoldsEntries(t), NEW f, HoldsEntries(f), NEW names,
         \A q \in DOMAIN f : \E n \in names : IsPrefix(n, q)
  PROVE  HoldsEntries(Over(f, t)) /\ Reaches(t, Over(f, t), names)
<1>1. PICK u : u = Over(f, t)
  OBVIOUS
<1>2. /\ DOMAIN u = DOMAIN f \cup DOMAIN t
      /\ \A x \in DOMAIN f : u[x] = f[x]
      /\ \A x \in DOMAIN t \ DOMAIN f : u[x] = t[x]
  BY <1>1 DEF Over
<1>3. HoldsEntries(u)
  BY <1>2 DEF HoldsEntries
<1>4. Reaches(t, u, names)
  BY <1>2 DEF Reaches, Reached, Touched
<1> QED
  BY <1>1, <1>3, <1>4

LEMMA PutWrites ==
  ASSUME NEW t, HoldsEntries(t), NEW p \in Paths, NEW e, IsEntry(e), NEW names, p \in names
  PROVE  HoldsEntries(Put(t, p, e)) /\ Reaches(t, Put(t, p, e), names)
<1>1. PICK f : f = [q \in {p} |-> e]
  OBVIOUS
<1>2. HoldsEntries(f) /\ DOMAIN f = {p}
  BY <1>1 DEF HoldsEntries
<1>3. \A q \in DOMAIN f : \E n \in names : IsPrefix(n, q)
  BY <1>2, PrefixOfItself
<1> QED
  BY <1>1, <1>2, <1>3, Writes DEF Put

LEMMA Removes ==
  ASSUME NEW t, HoldsEntries(t), NEW ps, NEW names,
         \A q \in ps : \E n \in names : IsPrefix(n, q)
  PROVE  HoldsEntries(Without(t, ps)) /\ Reaches(t, Without(t, ps), names)
<1>1. PICK u : u = Without(t, ps)
  OBVIOUS
<1>2. DOMAIN u = DOMAIN t \ ps /\ \A q \in DOMAIN t \ ps : u[q] = t[q]
  BY <1>1 DEF Without
<1>3. HoldsEntries(u)
  BY <1>2 DEF HoldsEntries
<1>4. Reaches(t, u, names)
  BY <1>2 DEF Reaches, Reached, Touched
<1> QED
  BY <1>1, <1>3, <1>4

(* mkdir *)
LEMMA MadeIs ==
  ASSUME NEW t, HoldsEntries(t), NEW p \in Paths
  PROVE  /\ HoldsEntries(Made(t, p))
         /\ DOMAIN t \subseteq DOMAIN Made(t, p)
         /\ \A q \in DOMAIN t : Made(t, p)[q] = t[q]
         /\ \A q \in DOMAIN Made(t, p) \ DOMAIN t :
               q \in Paths /\ Made(t, p)[q] = Dir /\ IsPrefix(q, p)
<1>1. PICK f, u : f = [q \in (Ancestors(p) \cup {p}) \ {<<>>} |-> Dir] /\ u = Made(t, p)
  OBVIOUS
<1>2. \A q \in DOMAIN f : q \in Paths /\ f[q] = Dir /\ IsPrefix(q, p)
  BY <1>1, AncestorsAre, PrefixOfItself
<1>3. u = Over(t, f)
  BY <1>1 DEF Made
<1>4. /\ DOMAIN u = DOMAIN t \cup DOMAIN f
      /\ \A x \in DOMAIN t : u[x] = t[x]
      /\ \A x \in DOMAIN f \ DOMAIN t : u[x] = f[x]
  BY <1>3 DEF Over
<1>5. HoldsEntries(u)
  BY <1>2, <1>4, DirIsEntry DEF HoldsEntries
<1> QED
  BY <1>1, <1>2, <1>4, <1>5

LEMMA MadeReaches ==
  ASSUME NEW t, HoldsEntries(t), NEW p \in Paths, NEW names, p \in names
  PROVE  Reaches(t, Made(t, p), names)
<1>1. PICK u : u = Made(t, p)
  OBVIOUS
<1>2. /\ \A q \in DOMAIN t : q \in DOMAIN u /\ u[q] = t[q]
      /\ \A q \in DOMAIN u \ DOMAIN t : u[q] = Dir /\ IsPrefix(q, p)
  BY <1>1, MadeIs
<1> QED
  BY <1>1, <1>2 DEF Reaches, Reached, Touched

(* A change after the folders on the way have been made. *)
LEMMA ReachesAfterMade ==
  ASSUME NEW t, HoldsEntries(t), NEW p \in Paths, NEW u, HoldsEntries(u), NEW names,
         Reaches(Made(t, p), u, names), NEW n \in names, n \in Paths,
         IsPrefix(p, n) \/ IsPrefix(n, p)
  PROVE  Reaches(t, u, names)
<1>1. PICK m : m = Made(t, p)
  OBVIOUS
<1>2. /\ \A q \in DOMAIN t : q \in DOMAIN m /\ m[q] = t[q]
      /\ \A q \in DOMAIN m \ DOMAIN t : q \in Paths /\ m[q] = Dir /\ IsPrefix(q, p)
  BY <1>1, MadeIs
<1>3. \A q \in Paths : IsPrefix(q, p) => IsPrefix(n, q) \/ IsPrefix(q, n)
  BY PrefixOfPrefix, PrefixesCompare DEF IsStrictPrefix
<1>4. ASSUME NEW q \in DOMAIN t \cup DOMAIN u, Touched(t, u, q)
      PROVE  \E k \in names : Reached(t, u, q, k)
  <2>1. CASE Touched(m, u, q)
    <3>1. q \in DOMAIN m \cup DOMAIN u
      BY <1>2
    <3>2. PICK k \in names : Reached(m, u, q, k)
      BY <1>1, <2>1, <3>1 DEF Reaches
    <3> QED
      BY <1>2, <3>2 DEF Reached
  <2>2. CASE ~Touched(m, u, q)
    <3>1. q \in DOMAIN m /\ u[q] = m[q] /\ q \notin DOMAIN t
      BY <1>2, <1>4, <2>2 DEF Touched
    <3>2. Reached(t, u, q, n)
      BY <1>2, <1>3, <3>1 DEF Reached
    <3> QED
      BY <3>2
  <2> QED
    BY <2>1, <2>2
<1> QED
  BY <1>4 DEF Reaches

(* Entries are removed at or beneath the names, and written there. *)
LEMMA Rewrites ==
  ASSUME NEW t, HoldsEntries(t), NEW f, HoldsEntries(f), NEW ps, NEW names,
         \A q \in DOMAIN f \cup ps : \E n \in names : IsPrefix(n, q)
  PROVE  HoldsEntries(Over(f, Without(t, ps))) /\ Reaches(t, Over(f, Without(t, ps)), names)
<1>1. PICK u : u = Over(f, Without(t, ps))
  OBVIOUS
<1>2. /\ DOMAIN u = DOMAIN f \cup (DOMAIN t \ ps)
      /\ \A x \in DOMAIN f : u[x] = f[x]
      /\ \A x \in (DOMAIN t \ ps) \ DOMAIN f : u[x] = t[x]
  BY <1>1 DEF Over, Without
<1>3. HoldsEntries(u)
  BY <1>2 DEF HoldsEntries
<1>4. Reaches(t, u, names)
  BY <1>2 DEF Reaches, Reached, Touched
<1> QED
  BY <1>1, <1>3, <1>4

-----------------------------------------------------------------------------
(* The calls of shutil, os and zipfile. *)
LEMMA TextIs ==
  ASSUME NEW t, HoldsEntries(t), NEW p
  PROVE  TextOf(t, p) \in Texts
<1>1. <<>> \in Texts
  BY EmptySeq, Zenon DEF Texts
<1>2. ASSUME p \in DOMAIN t, t[p].kind = "file" PROVE t[p].text \in Texts
  BY <1>2 DEF HoldsEntries, IsEntry, Dir
<1> QED
  BY <1>1, <1>2 DEF TextOf, Exists

LEMMA CopiesTree ==
  ASSUME NEW t, HoldsEntries(t), NEW src \in Paths, NEW to \in Paths, IsDir(t, src),
         NEW names, NEW n \in names, n \in Paths, IsPrefix(n, to)
  PROVE  HoldsEntries(TreeCopied(t, src, to)) /\ Reaches(t, TreeCopied(t, src, to), names)
<1> DEFINE ways == {From(src, q) : q \in Beneath(t, src)}
           blocked(r) == \E i \in 0 .. Len(r) :
                            /\ IsDir(t, src \o SubSeq(r, 1, i))
                            /\ IsFile(t, to \o SubSeq(r, 1, i))
           place(r) == IF IsFile(t, src \o r) /\ IsDir(t, to \o r)
                       THEN to \o Append(r, Last(r)) ELSE to \o r
           done == {r \in ways : ~blocked(r) /\ (IsFile(t, src \o r) => ~IsDir(t, place(r)))}
           f == [p \in {place(r) : r \in done} |-> t[src \o (CHOOSE r \in done : place(r) = p)]]
<1>1. TreeCopied(t, src, to) = Over(f, Made(t, to))
  BY DEF TreeCopied
<1>2. ASSUME NEW r \in ways PROVE r \in Paths /\ src \o r \in DOMAIN t
  <2>1. PICK q \in DOMAIN t : IsPrefix(src, q) /\ r = From(src, q)
    BY DEF Beneath
  <2>2. q \in Paths
    BY <2>1 DEF HoldsEntries
  <2> QED
    BY <2>1, <2>2, WayBeneath
<1>3. ASSUME NEW r \in ways PROVE place(r) \in Paths /\ IsPrefix(to, place(r))
  <2>1. r \in Paths
    BY <1>2
  <2>2. CASE IsFile(t, src \o r) /\ IsDir(t, to \o r)
    <3>1. r # <<>>
      <4>1. src \o <<>> = src
        BY ConcatEmptySeq DEF Paths
      <4> QED
        BY <2>2, <4>1 DEF IsFile, IsDir
    <3>2. Append(r, Last(r)) \in Paths
      BY <2>1, <3>1, ParentIs, PrefixOfLonger
    <3> QED
      BY <2>2, <3>2, PrefixOfJoined
  <2>3. CASE ~(IsFile(t, src \o r) /\ IsDir(t, to \o r))
    BY <2>1, <2>3, PrefixOfJoined
  <2> QED
    BY <2>2, <2>3
<1>4. HoldsEntries(f)
  <2>1. ASSUME NEW p \in DOMAIN f PROVE p \in Paths /\ IsEntry(f[p])
    <3>1. PICK r \in done : p = place(r)
      OBVIOUS
    <3>2. PICK k : k = CHOOSE x \in done : place(x) = p
      OBVIOUS
    <3>3. k \in done
      BY <3>1, <3>2, Zenon
    <3>4. k \in ways /\ r \in ways
      BY <3>1, <3>3
    <3>5. f[p] = t[src \o k]
      BY <3>2
    <3>6. src \o k \in DOMAIN t /\ p \in Paths
      BY <1>2, <1>3, <3>1, <3>4
    <3> QED
      BY <3>5, <3>6 DEF HoldsEntries
  <2> QED
    BY <2>1 DEF HoldsEntries
<1>5. ASSUME NEW q \in DOMAIN f PROVE IsPrefix(n, q)
  <2>1. PICK r \in ways : q = place(r)
    OBVIOUS
  <2> QED
    BY <1>3, <2>1, PrefixOfPrefix
<1> HIDE DEF f
<1>6. PICK m, u : m = Made(t, to) /\ u = Over(f, m)
  OBVIOUS
<1>7. HoldsEntries(m)
  BY <1>6, MadeIs
<1>8. HoldsEntries(u) /\ Reaches(m, u, names)
  BY <1>4, <1>5, <1>6, <1>7, Writes
<1>9. Reaches(t, u, names)
  BY <1>6, <1>8, ReachesAfterMade
<1> QED
  BY <1>1, <1>6, <1>8, <1>9

LEMMA CopiesFile ==
  ASSUME NEW t, HoldsEntries(t), NEW src \in Paths \ {<<>>}, src \in DOMAIN t,
         NEW to \in Paths, NEW names, NEW n \in names, n \in Paths, IsPrefix(n, to)
  PROVE  HoldsEntries(FileCopied(t, src, to)) /\ Reaches(t, FileCopied(t, src, to), names)
<1>1. PICK place : place = IF IsDir(t, to) THEN Append(to, Last(src)) ELSE to
  OBVIOUS
<1>2. place \in Paths /\ IsPrefix(n, place)
  BY <1>1, ParentIs, PrefixOfLonger, PrefixOfPrefix
<1>3. FileCopied(t, src, to) \in {t, Put(t, place, t[src])}
  BY <1>1 DEF FileCopied
<1>4. IsEntry(t[src])
  BY DEF HoldsEntries
<1>5. PICK f : f = [q \in {place} |-> t[src]]
  OBVIOUS
<1>6. HoldsEntries(f) /\ \A q \in DOMAIN f : IsPrefix(n, q)
  BY <1>2, <1>4, <1>5 DEF HoldsEntries
<1>7. HoldsEntries(Put(t, place, t[src])) /\ Reaches(t, Put(t, place, t[src]), names)
  BY <1>5, <1>6, Writes DEF Put
<1> QED
  BY <1>3, <1>7, NothingReached

LEMMA Moves ==
  ASSUME NEW t, HoldsEntries(t), NEW src \in Paths \ {<<>>}, NEW to \in Paths,
         NEW names, src \in names, NEW n \in names, n \in Paths, IsPrefix(n, to)
  PROVE  HoldsEntries(Moved(t, src, to)) /\ Reaches(t, Moved(t, src, to), names)
<1>1. PICK place : place = IF IsDir(t, to) /\ to # src THEN Append(to, Last(src)) ELSE to
  OBVIOUS
<1>2. place \in Paths /\ IsPrefix(n, place)
  BY <1>1, ParentIs, PrefixOfLonger, PrefixOfPrefix
<1>3. Moved(t, src, to) \in {t, Renamed(t, src, place)}
  BY <1>1 DEF Moved
<1>4. PICK ps : ps = Beneath(t, src)
  OBVIOUS
<1>5. \A q \in ps : q \in Paths /\ q \in DOMAIN t /\ IsPrefix(src, q)
  BY <1>4 DEF Beneath, HoldsEntries
<1>6. PICK f : f = [p \in {place \o From(src, q) : q \in ps} |-> t[src \o From(place, p)]]
  OBVIOUS
<1>7. Renamed(t, src, place) = Over(f, Without(t, ps))
  BY <1>4, <1>6 DEF Renamed
<1>8. ASSUME NEW p \in DOMAIN f PROVE p \in Paths /\ IsEntry(f[p]) /\ IsPrefix(n, p)
  <2>1. PICK q \in ps : p = place \o From(src, q)
    BY <1>6
  <2>2. PICK w : w = From(src, q) /\ w \in Paths /\ src \o w = q
    BY <1>5, WayBeneath
  <2>3. p = place \o w /\ From(place, p) = w
    BY <1>2, <2>1, <2>2, WayJoined
  <2>4. f[p] = t[q]
    BY <1>6, <2>2, <2>3
  <2>5. p \in Paths /\ IsPrefix(place, p)
    BY <1>2, <2>2, <2>3, PrefixOfJoined
  <2> QED
    BY <1>2, <1>5, <2>4, <2>5, PrefixOfPrefix DEF HoldsEntries
<1>9. HoldsEntries(f) /\ \A q \in DOMAIN f \cup ps : \E k \in names : IsPrefix(k, q)
  BY <1>5, <1>8 DEF HoldsEntries
<1>10. /\ HoldsEntries(Renamed(t, src, place))
       /\ Reaches(t, Renamed(t, src, place), names)
  BY <1>7, <1>9, Rewrites
<1> QED
  BY <1>3, <1>10, NothingReached

LEMMA PacksTexts ==
  ASSUME NEW t, HoldsEntries(t), NEW src \in Paths \ {<<>>}
  PROVE  IsEntry(Archived(Packed(t, src), FALSE))
<1>1. PICK m : m = Packed(t, src)
  OBVIOUS
<1>2. DOMAIN m \subseteq Paths /\ \A r \in DOMAIN m : m[r] \in Texts
  <2>1. CASE IsDir(t, src)
    <3>1. m = [r \in {From(src, q) : q \in {p \in Beneath(t, src) : IsFile(t, p)}} |->
                 TextOf(t, src \o r)]
      BY <1>1, <2>1 DEF Packed
    <3>2. ASSUME NEW q \in Beneath(t, src) PROVE From(src, q) \in Paths
      <4>1. q \in Paths /\ IsPrefix(src, q)
        BY DEF Beneath, HoldsEntries
      <4> QED
        BY <4>1, WayBeneath
    <3> QED
      BY <3>1, <3>2, TextIs
  <2>2. CASE ~IsDir(t, src)
    <3>1. m = [r \in {<<Last(src)>>} |-> TextOf(t, src)]
      BY <1>1, <2>2 DEF Packed
    <3>2. <<Last(src)>> \in Paths
      BY ParentIs, OneOf, Zenon DEF Paths
    <3> QED
      BY <3>1, <3>2, TextIs
  <2> QED
    BY <2>1, <2>2
<1>3. IsEntry(Archived(m, FALSE))
  BY <1>2 DEF IsEntry, Archived
<1> QED
  BY <1>1, <1>3

LEMMA Extracts ==
  ASSUME NEW t, HoldsEntries(t), NEW members, DOMAIN members \subseteq Paths,
         \A r \in DOMAIN members : members[r] \in Texts, NEW archive, NEW to \in Paths,
         NEW u \in Extractions(t, members, archive, to), NEW names, to \in names
  PROVE  HoldsEntries(u) /\ Reaches(t, u, names)
<1> DEFINE text(p) == IF p = archive THEN <<>> ELSE members[From(to, p)]
<1>1. PICK rs, files, folders :
         /\ rs \subseteq DOMAIN members
         /\ files = {to \o r : r \in rs}
         /\ folders = UNION {Ancestors(p) : p \in files}
         /\ u = Over([p \in files |-> File(text(p))], Over(t, [p \in folders |-> Dir]))
  BY DEF Extractions
<1>2. /\ DOMAIN u = files \cup DOMAIN t \cup folders
      /\ \A q \in files : u[q] = File(text(q))
      /\ \A q \in DOMAIN t \ files : u[q] = t[q]
      /\ \A q \in (folders \ DOMAIN t) \ files : u[q] = Dir
  BY <1>1 DEF Over
<1>3. ASSUME NEW q \in files PROVE q \in Paths /\ IsPrefix(to, q) /\ text(q) \in Texts
  <2>1. PICK r \in rs : q = to \o r /\ r \in Paths
    BY <1>1
  <2>2. q \in Paths /\ IsPrefix(to, q) /\ From(to, q) = r
    BY <2>1, PrefixOfJoined, WayJoined
  <2>3. <<>> \in Texts
    BY EmptySeq, Zenon DEF Texts
  <2>4. members[r] \in Texts
    BY <1>1, <2>1
  <2> QED
    BY <2>2, <2>3, <2>4
<1>4. ASSUME NEW q \in folders
      PROVE  q \in Paths /\ (IsPrefix(to, q) \/ IsPrefix(q, to))
  <2>1. PICK p \in files : q \in Ancestors(p)
    BY <1>1
  <2>2. q \in Paths /\ IsPrefix(q, p)
    BY <1>3, <2>1, AncestorsAre
  <2> QED
    BY <1>3, <2>1, <2>2, PrefixesCompare DEF IsStrictPrefix
<1>5. \A q \in files : IsEntry(File(text(q)))
  BY <1>3, FileIsEntry
<1> HIDE DEF text
<1>6. HoldsEntries(u)
  <2>1. DOMAIN u \subseteq Paths
    BY <1>2, <1>3, <1>4 DEF HoldsEntries
  <2>2. ASSUME NEW q \in DOMAIN u PROVE IsEntry(u[q])
    <3>1. CASE q \in files
      BY <1>2, <1>5, <3>1
    <3>2. CASE q \in DOMAIN t \ files
      BY <1>2, <3>2 DEF HoldsEntries
    <3>3. CASE q \in (folders \ DOMAIN t) \ files
      BY <1>2, <3>3, DirIsEntry
    <3> QED
      BY <1>2, <3>1, <3>2, <3>3
  <2> QED
    BY <2>1, <2>2 DEF HoldsEntries
<1>7. ASSUME NEW q \in DOMAIN t \cup DOMAIN u, Touched(t, u, q) PROVE Reached(t, u, q, to)
  <2>1. CASE q \in files
    BY <1>3, <2>1 DEF Reached
  <2>2. CASE q \in DOMAIN t \ files
    BY <1>2, <1>7, <2>2 DEF Touched
  <2>3. CASE q \in (folders \ DOMAIN t) \ files
    BY <1>2, <1>4, <2>3 DEF Reached
  <2> QED
    BY <1>2, <2>1, <2>2, <2>3
<1> QED
  BY <1>6, <1>7 DEF Reaches

-----------------------------------------------------------------------------
(* Texts. *)
LEMMA TextLength ==
  ASSUME NEW text \in Texts
  PROVE  /\ Len(text) \in Nat /\ DOMAIN text = 1 .. Len(text)
         /\ \A i \in 1 .. Len(text) : text[i] \in STRING
BY LenProperties, ElementOfSeq DEF Texts

LEMMA TextsEqual ==
  ASSUME NEW s \in Texts, NEW u \in Texts, Len(s) = Len(u),
         \A i \in 1 .. Len(s) : s[i] = u[i]
  PROVE  s = u
BY SeqEqual DEF Texts

LEMMA PartOfText ==
  ASSUME NEW text \in Texts, NEW a \in 1 .. Len(text) + 1, NEW b \in 0 .. Len(text)
  PROVE  /\ SubSeq(text, a, b) \in Texts
         /\ Len(SubSeq(text, a, b)) = IF a <= b THEN b - a + 1 ELSE 0
         /\ \A i \in 1 .. b - a + 1 : SubSeq(text, a, b)[i] = text[a + i - 1]
<1>1. a \in Int /\ b \in Int /\ \A i \in a .. b : i \in 1 .. Len(text)
  BY TextLength
<1>2. \A i \in a .. b : text[i] \in STRING
  BY <1>1, TextLength
<1> QED
  BY <1>1, <1>2, SubSeqProperties DEF Texts

LEMMA JoinedText ==
  ASSUME NEW s \in Texts, NEW u \in Texts
  PROVE  /\ s \o u \in Texts /\ Len(s \o u) = Len(s) + Len(u)
         /\ \A i \in 1 .. Len(s) + Len(u) :
               (s \o u)[i] = IF i <= Len(s) THEN s[i] ELSE u[i - Len(s)]
BY ConcatProperties, Zenon DEF Texts

Replaces(f) == \A piece \in DOMAIN f : f[piece] \in STRING

LEMMA EachIs ==
  ASSUME NEW text \in Texts, NEW f, Replaces(f)
  PROVE  /\ Each(text, f) \in Texts /\ Len(Each(text, f)) = Len(text)
         /\ \A i \in 1 .. Len(text) :
               Each(text, f)[i] = IF text[i] \in DOMAIN f THEN f[text[i]] ELSE text[i]
<1>1. PICK S, n : S = STRING /\ n = Len(text) /\ n \in Nat /\ DOMAIN text = 1 .. n
                 /\ \A i \in 1 .. n : text[i] \in S
  BY TextLength
<1>2. PICK e : e = [i \in 1 .. n |-> IF text[i] \in DOMAIN f THEN f[text[i]] ELSE text[i]]
  OBVIOUS
<1>3. e \in [1 .. n -> S]
  BY <1>1, <1>2 DEF Replaces
<1>4. e \in Seq(S) /\ Len(e) = n
  BY <1>1, <1>3
<1>5. Each(text, f) = e
  BY <1>1, <1>2 DEF Each
<1> QED
  BY <1>1, <1>2, <1>4, <1>5 DEF Texts

(* A text without a piece that f replaces stays as it is. *)
LEMMA EachOfNone ==
  ASSUME NEW text \in Texts, NEW f, Replaces(f), \A i \in DOMAIN text : text[i] \notin DOMAIN f
  PROVE  Each(text, f) = text
<1>1. /\ Each(text, f) \in Texts /\ Len(Each(text, f)) = Len(text)
      /\ \A i \in 1 .. Len(text) : Each(text, f)[i] = text[i]
  BY EachIs, TextLength
<1> QED
  BY <1>1, TextsEqual

LEMMA EachOfJoined ==
  ASSUME NEW s \in Texts, NEW u \in Texts, NEW f, Replaces(f)
  PROVE  Each(s \o u, f) = Each(s, f) \o Each(u, f)
<1> DEFINE g(piece) == IF piece \in DOMAIN f THEN f[piece] ELSE piece
<1>1. PICK m, n, j : m = Len(s) /\ n = Len(u) /\ m \in Nat /\ n \in Nat /\ j = s \o u
  BY TextLength
<1>2. /\ j \in Texts /\ Len(j) = m + n
      /\ \A i \in 1 .. m + n : j[i] = IF i <= m THEN s[i] ELSE u[i - m]
  <2>1. /\ s \o u \in Texts /\ Len(s \o u) = Len(s) + Len(u)
        /\ \A i \in 1 .. Len(s) + Len(u) :
              (s \o u)[i] = IF i <= Len(s) THEN s[i] ELSE u[i - Len(s)]
    BY JoinedText, Zenon
  <2> QED
    BY <1>1, <2>1, Zenon
<1>3. PICK es : es = Each(s, f) /\ es \in Texts /\ Len(es) = m
                /\ \A i \in 1 .. m : es[i] = g(s[i])
  BY <1>1, EachIs
<1>4. PICK eu : eu = Each(u, f) /\ eu \in Texts /\ Len(eu) = n
                /\ \A i \in 1 .. n : eu[i] = g(u[i])
  BY <1>1, EachIs
<1>5. PICK ej : ej = Each(j, f) /\ ej \in Texts /\ Len(ej) = m + n
                /\ \A i \in 1 .. m + n : ej[i] = g(j[i])
  <2>1. /\ Each(j, f) \in Texts /\ Len(Each(j, f)) = Len(j)
        /\ \A i \in 1 .. Len(j) : Each(j, f)[i] = g(j[i])
    BY <1>2, EachIs
  <2> QED
    BY <1>2, <2>1, Zenon
<1> HIDE DEF g
<1>6. PICK w : w = es \o eu /\ w \in Texts /\ Len(w) = m + n
               /\ \A i \in 1 .. m + n : w[i] = IF i <= m THEN es[i] ELSE eu[i - m]
  <2>1. PICK w : w = es \o eu
    OBVIOUS
  <2>2. /\ es \o eu \in Texts /\ Len(es \o eu) = Len(es) + Len(eu)
        /\ \A i \in 1 .. Len(es) + Len(eu) :
              (es \o eu)[i] = IF i <= Len(es) THEN es[i] ELSE eu[i - Len(es)]
    BY <1>3, <1>4, JoinedText, Zenon
  <2> QED
    BY <1>3, <1>4, <2>1, <2>2, Zenon
<1>7. ASSUME NEW i \in 1 .. m + n PROVE ej[i] = w[i]
  <2>1. CASE i <= m
    <3>1. i \in 1 .. m
      BY <1>1, <2>1
    <3>2. w[i] = es[i] /\ es[i] = g(s[i])
      BY <1>3, <1>6, <2>1, <3>1
    <3>3. j[i] = s[i] /\ ej[i] = g(j[i])
      BY <1>2, <1>5, <2>1
    <3> QED
      BY <3>2, <3>3, Zenon
  <2>2. CASE ~(i <= m)
    <3>1. i - m \in 1 .. n
      BY <1>1, <2>2
    <3>2. w[i] = eu[i - m] /\ eu[i - m] = g(u[i - m])
      BY <1>4, <1>6, <2>2, <3>1
    <3>3. j[i] = u[i - m] /\ ej[i] = g(j[i])
      BY <1>2, <1>5, <2>2
    <3> QED
      BY <3>2, <3>3, Zenon
  <2> QED
    BY <2>1, <2>2
<1>8. ej = w
  BY <1>5, <1>6, <1>7, TextsEqual
<1> QED
  BY <1>1, <1>3, <1>4, <1>5, <1>6, <1>8, Zenon

LEMMA WrittenIs ==
  ASSUME NEW text \in Texts
  PROVE  Written(text) \in Texts
BY TextAssumption, EachIs DEF Written, Replaces

(* _read_text *)
LEMMA SmallerIs ==
  ASSUME NEW a \in Nat, NEW b \in Nat
  PROVE  Min({a, b}) = IF a <= b THEN a ELSE b
<1>1. PICK c \in Nat : c = IF a <= b THEN a ELSE b
  OBVIOUS
<1>2. c \in {a, b} /\ (\A y \in {a, b} : c <= y)
  BY <1>1
<1>3. \A x \in {a, b} : (\A y \in {a, b} : x <= y) => x = c
  BY <1>1
<1>4. Min({a, b}) = c
  BY <1>2, <1>3, Zenon DEF Min
<1> QED
  BY <1>1, <1>4

LEMMA ReadIs ==
  ASSUME NEW t, HoldsEntries(t), NEW p
  PROVE  /\ ReadText(t, p) \in Texts
         /\ Plain(TextOf(t, p)) => ReadText(t, p) = TextOf(t, p)
<1>1. PICK text, n : text = TextOf(t, p) /\ text \in Texts /\ n = Len(text) /\ n \in Nat
  BY TextIs, TextLength
<1>2. PICK k : k = Min({MaxRead, n})
  OBVIOUS
<1>3. k \in 0 .. n /\ (n <= MaxRead => k = n)
  BY <1>1, <1>2, MaxReadAssumption, SmallerIs
<1>4. PICK r : r = SubSeq(text, 1, k)
  OBVIOUS
<1>5. r \in Texts /\ Len(r) = k /\ \A i \in 1 .. k : r[i] = text[i]
  <2>1. 1 \in 1 .. Len(text) + 1 /\ k \in 0 .. Len(text)
    BY <1>1, <1>3
  <2>2. /\ r \in Texts /\ Len(r) = (IF 1 <= k THEN k - 1 + 1 ELSE 0)
        /\ \A i \in 1 .. k - 1 + 1 : r[i] = text[1 + i - 1]
    BY <1>1, <1>4, <2>1, PartOfText
  <2>3. k \in Nat /\ k - 1 + 1 = k /\ (~(1 <= k) => k = 0)
    BY <1>1, <1>3
  <2>4. \A i \in 1 .. k : 1 + i - 1 = i
    BY <2>3
  <2> QED
    BY <2>2, <2>3, <2>4
<1>6. ReadText(t, p) = IF IsUtf8(r) THEN r ELSE Each(r, Recoded)
  BY <1>1, <1>2, <1>4 DEF ReadText
<1>7. Each(r, Recoded) \in Texts
  BY <1>5, TextAssumption, EachIs DEF Replaces
<1>8. ASSUME Plain(text) PROVE r = text /\ IsUtf8(r)
  <2>1. n <= MaxRead /\ IsUtf8(text)
    BY <1>1, <1>8 DEF Plain
  <2>2. r = text
    BY <1>1, <1>3, <1>5, <2>1, TextsEqual
  <2> QED
    BY <2>1, <2>2
<1> QED
  BY <1>1, <1>5, <1>6, <1>7, <1>8

(* The parts before and behind the section that is replaced. *)
LEMMA PartsAround ==
  ASSUME NEW text \in Texts, NEW section \in Texts \ {<<>>}, NEW i \in Occurrences(text, section)
  PROVE  /\ SubSeq(text, 1, i - 1) \in Texts
         /\ SubSeq(text, i + Len(section), Len(text)) \in Texts
         /\ \A f : (\A j \in DOMAIN text : text[j] \notin DOMAIN f) =>
               /\ \A j \in DOMAIN SubSeq(text, 1, i - 1) :
                     SubSeq(text, 1, i - 1)[j] \notin DOMAIN f
               /\ \A j \in DOMAIN SubSeq(text, i + Len(section), Len(text)) :
                     SubSeq(text, i + Len(section), Len(text))[j] \notin DOMAIN f
<1>1. PICK n, k : n = Len(text) /\ k = Len(section) /\ n \in Nat /\ k \in Nat
  BY TextLength
<1>2. i \in 1 .. n - k + 1
  BY <1>1 DEF Occurrences
<1>3. /\ 1 \in 1 .. n + 1 /\ i - 1 \in 0 .. n
      /\ i + k \in 1 .. n + 1 /\ n \in 0 .. n
  BY <1>1, <1>2
<1>4. ASSUME NEW a \in 1 .. n + 1, NEW b \in 0 .. n
      PROVE  /\ SubSeq(text, a, b) \in Texts
             /\ \A f : (\A j \in DOMAIN text : text[j] \notin DOMAIN f) =>
                   \A j \in DOMAIN SubSeq(text, a, b) : SubSeq(text, a, b)[j] \notin DOMAIN f
  <2>1. PICK r : r = SubSeq(text, a, b)
    OBVIOUS
  <2>2. /\ r \in Texts /\ Len(r) = (IF a <= b THEN b - a + 1 ELSE 0)
        /\ \A j \in 1 .. b - a + 1 : r[j] = text[a + j - 1]
    BY <1>1, <2>1, PartOfText
  <2>3. DOMAIN r = 1 .. Len(r) /\ DOMAIN text = 1 .. n
    BY <1>1, <2>2, TextLength
  <2>4. ASSUME NEW j \in DOMAIN r PROVE r[j] = text[a + j - 1] /\ a + j - 1 \in DOMAIN text
    <3>1. j \in 1 .. b - a + 1 /\ a + j - 1 \in 1 .. n
      BY <1>1, <2>2, <2>3
    <3> QED
      BY <2>2, <2>3, <3>1
  <2> QED
    BY <2>1, <2>2, <2>4
<1> QED
  BY <1>1, <1>3, <1>4

LEMMA ReplacedIs ==
  ASSUME NEW text \in Texts, NEW section \in Texts \ {<<>>}, NEW i \in Occurrences(text, section),
         NEW new \in Texts
  PROVE  /\ ReplacedAt(text, i, section, new) \in Texts
         /\ (\A j \in DOMAIN text : text[j] \notin DOMAIN LineEnds) =>
               Written(ReplacedAt(text, i, section, new))
                   = ReplacedAt(text, i, section, Written(new))
<1>1. PICK head, tail : /\ head = SubSeq(text, 1, i - 1)
                        /\ tail = SubSeq(text, i + Len(section), Len(text))
  OBVIOUS
<1>2. /\ head \in Texts /\ tail \in Texts
      /\ \A f : (\A j \in DOMAIN text : text[j] \notin DOMAIN f) =>
            /\ \A j \in DOMAIN head : head[j] \notin DOMAIN f
            /\ \A j \in DOMAIN tail : tail[j] \notin DOMAIN f
  BY <1>1, PartsAround
<1>3. head \o new \in Texts /\ (head \o new) \o tail \in Texts
  BY <1>2, JoinedText
<1>4. \A w : ReplacedAt(text, i, section, w) = (head \o w) \o tail
  BY <1>1 DEF ReplacedAt
<1>5. ASSUME \A j \in DOMAIN text : text[j] \notin DOMAIN LineEnds
      PROVE  Written((head \o new) \o tail) = (head \o Written(new)) \o tail
  <2>1. Replaces(LineEnds)
    BY TextAssumption DEF Replaces
  <2>2. Each(head, LineEnds) = head /\ Each(tail, LineEnds) = tail
    <3>1. /\ \A j \in DOMAIN head : head[j] \notin DOMAIN LineEnds
          /\ \A j \in DOMAIN tail : tail[j] \notin DOMAIN LineEnds
      BY <1>2, <1>5, Zenon
    <3> QED
      BY <1>2, <2>1, <3>1, EachOfNone
  <2>3. Each((head \o new) \o tail, LineEnds) = Each(head \o new, LineEnds) \o Each(tail, LineEnds)
    <3>1. PICK first : first = head \o new /\ first \in Texts
      BY <1>3
    <3>2. first \in Texts /\ tail \in Texts
      BY <1>2, <3>1
    <3>3. Each(first \o tail, LineEnds) = Each(first, LineEnds) \o Each(tail, LineEnds)
      BY <2>1, <3>2, EachOfJoined
    <3> QED
      BY <3>1, <3>3, Zenon
  <2>4. Each(head \o new, LineEnds) = Each(head, LineEnds) \o Each(new, LineEnds)
    BY <1>2, <2>1, EachOfJoined
  <2> QED
    BY <2>2, <2>3, <2>4 DEF Written
<1> QED
  BY <1>3, <1>4, <1>5

-----------------------------------------------------------------------------
(* The tools.  A call that changes anything has names that lie in the trusted *)
(* folders, and reaches from these.                                           *)
Confined(t, u, names, roots) ==
    /\ HoldsEntries(u)
    /\ Reaches(t, u, names)
    /\ u = t \/ \A n \in names : Contained(n, roots)

LEMMA CallIs ==
  ASSUME NEW call, IsCall(call)
  PROVE  /\ call.path \in Paths \ {<<>>} /\ call.path \in Named(call)
         /\ call.tool \in WithDestination =>
               call.to \in Paths \ {<<>>} /\ Named(call) = {call.path, call.to}
BY DEF IsCall, Named

LEMMA NothingDone ==
  ASSUME NEW t, HoldsEntries(t), NEW names, NEW roots
  PROVE  Confined(t, t, names, roots)
BY NothingReached DEF Confined

LEMMA Wrote ==
  ASSUME NEW t, HoldsEntries(t), NEW call, IsCall(call), call.tool = "write_file", NEW roots,
         NEW u \in WriteFile(t, call, roots)
  PROVE  Confined(t, u, {call.path}, roots)
<1>1. PICK p : p = call.path /\ p \in Paths \ {<<>>}
  BY CallIs
<1>2. PICK before : before = IF call.append THEN TextOf(t, p) ELSE <<>>
  OBVIOUS
<1>3. before \o Written(call.text) \in Texts
  <2>1. <<>> \in Texts
    BY EmptySeq, Zenon DEF Texts
  <2>2. before \in Texts
    BY <1>2, <2>1, TextIs
  <2>3. Written(call.text) \in Texts
    BY WrittenIs DEF IsCall
  <2> QED
    BY <2>2, <2>3, JoinedText
<1>4. CASE u = t
  BY <1>4, NothingDone
<1>5. CASE u # t
  <2>1. PICK m, e : m = Made(t, Parent(p)) /\ e = File(before \o Written(call.text))
    OBVIOUS
  <2>2. u = Put(m, p, e) /\ Allowed(t, p, roots)
    BY <1>1, <1>2, <1>5, <2>1 DEF WriteFile
  <2>3. Parent(p) \in Paths /\ IsPrefix(Parent(p), p)
    BY <1>1, ParentIs
  <2>4. HoldsEntries(m) /\ IsEntry(e)
    BY <1>3, <2>1, <2>3, MadeIs, FileIsEntry
  <2>5. HoldsEntries(u) /\ Reaches(m, u, {p})
    BY <1>1, <2>2, <2>4, PutWrites
  <2>6. Reaches(t, u, {p})
    BY <1>1, <2>1, <2>3, <2>5, ReachesAfterMade
  <2> QED
    BY <1>1, <2>2, <2>5, <2>6 DEF Confined, Allowed
<1> QED
  BY <1>4, <1>5

(* A patch that changes anything writes what has been read, with the section *)
(* at its only place replaced.                                               *)
LEMMA PatchWrites ==
  ASSUME NEW t, NEW call, NEW roots, NEW u \in PatchFile(t, call, roots), u # t
  PROVE  /\ Allowed(t, call.path, roots)
         /\ \E i \in OnlyPlace(ReadText(t, call.path), call.old) :
               u = Put(t, call.path,
                       File(Written(ReplacedAt(ReadText(t, call.path), i, call.old, call.new))))
BY DEF PatchFile, Found

LEMMA Patched ==
  ASSUME NEW t, HoldsEntries(t), NEW call, IsCall(call), call.tool = "patch_file", NEW roots,
         NEW u \in PatchFile(t, call, roots)
  PROVE  Confined(t, u, {call.path}, roots)
<1>1. PICK p, text : p = call.path /\ p \in Paths \ {<<>>} /\ text = ReadText(t, p)
  BY CallIs
<1>2. CASE u = t
  BY <1>2, NothingDone
<1>3. CASE u # t
  <2>1. Allowed(t, p, roots)
    BY <1>1, <1>3, PatchWrites
  <2>2. PICK i \in OnlyPlace(text, call.old) :
           u = Put(t, p, File(Written(ReplacedAt(text, i, call.old, call.new))))
    BY <1>1, <1>3, PatchWrites
  <2>3. text \in Texts /\ call.old \in Texts \ {<<>>} /\ call.new \in Texts
    BY <1>1, ReadIs DEF IsCall
  <2>4. i \in Occurrences(text, call.old)
    BY <2>2 DEF OnlyPlace
  <2>5. Written(ReplacedAt(text, i, call.old, call.new)) \in Texts
    BY <2>3, <2>4, ReplacedIs, WrittenIs
  <2>6. HoldsEntries(u) /\ Reaches(t, u, {p})
    BY <1>1, <2>2, <2>5, FileIsEntry, PutWrites
  <2> QED
    BY <1>1, <2>1, <2>6 DEF Confined, Allowed
<1> QED
  BY <1>2, <1>3

LEMMA MadeDirectory ==
  ASSUME NEW t, HoldsEntries(t), NEW call, IsCall(call), NEW roots,
         NEW u \in CreateDirectory(t, call, roots)
  PROVE  Confined(t, u, {call.path}, roots)
<1>1. call.path \in Paths
  BY CallIs
<1>2. CASE u = t
  BY <1>2, NothingDone
<1>3. CASE u # t
  <2>1. u = Made(t, call.path) /\ Contained(call.path, roots)
    BY <1>3 DEF CreateDirectory, Allowed
  <2> QED
    BY <1>1, <2>1, MadeIs, MadeReaches DEF Confined
<1> QED
  BY <1>2, <1>3

LEMMA DeletedFile ==
  ASSUME NEW t, HoldsEntries(t), NEW call, IsCall(call), NEW roots,
         NEW u \in DeleteFile(t, call, roots)
  PROVE  Confined(t, u, {call.path}, roots)
<1>1. call.path \in Paths
  BY CallIs
<1>2. CASE u = t
  BY <1>2, NothingDone
<1>3. CASE u # t
  <2>1. u = Without(t, {call.path}) /\ Contained(call.path, roots)
    BY <1>3 DEF DeleteFile, Found, Allowed
  <2> QED
    BY <1>1, <2>1, Removes, PrefixOfItself DEF Confined
<1> QED
  BY <1>2, <1>3

LEMMA DeletedDirectory ==
  ASSUME NEW t, HoldsEntries(t), NEW call, IsCall(call), NEW roots,
         NEW u \in DeleteDirectory(t, call, roots)
  PROVE  Confined(t, u, {call.path}, roots)
<1>1. CASE u = t
  BY <1>1, NothingDone
<1>2. CASE u # t
  <2>1. u = Without(t, Beneath(t, call.path)) /\ Contained(call.path, roots)
    BY <1>2 DEF DeleteDirectory, Found, Allowed
  <2>2. \A q \in Beneath(t, call.path) : IsPrefix(call.path, q)
    BY DEF Beneath
  <2> QED
    BY <2>1, <2>2, Removes DEF Confined
<1> QED
  BY <1>1, <1>2

(* _resolve_both *)
LEMMA DestinationIs ==
  ASSUME NEW t, NEW call, IsCall(call), call.tool \in WithDestination
  PROVE  Destination(t, call) \in Paths \ {<<>>} /\ IsPrefix(call.to, Destination(t, call))
<1>1. call.to \in Paths \ {<<>>} /\ call.path \in Paths \ {<<>>}
  BY CallIs
<1>2. Last(call.path) \in STRING
  BY <1>1, ParentIs
<1>3. /\ Append(call.to, Last(call.path)) \in Paths
      /\ IsPrefix(call.to, Append(call.to, Last(call.path)))
  BY <1>1, <1>2, PrefixOfLonger
<1>4. Append(call.to, Last(call.path)) # <<>>
  BY <1>1, <1>2, AppendProperties, Zenon DEF Paths
<1> QED
  BY <1>1, <1>3, <1>4, PrefixOfItself DEF Destination

LEMMA Copied ==
  ASSUME NEW t, HoldsEntries(t), NEW call, IsCall(call), call.tool = "copy_file", NEW roots,
         NEW live, NEW u \in CopyFile(t, call, roots, live)
  PROVE  Confined(t, u, {call.path, call.to}, roots)
<1>1. PICK src, n, names : src = call.path /\ n = call.to /\ names = {src, n}
  OBVIOUS
<1>2. src \in Paths \ {<<>>} /\ n \in Paths \ {<<>>}
  BY <1>1, CallIs DEF WithDestination
<1>3. PICK to : to = Destination(t, call) /\ to \in Paths \ {<<>>} /\ IsPrefix(n, to)
  BY <1>1, DestinationIs DEF WithDestination
<1>4. CASE u = t
  BY <1>4, NothingDone
<1>5. CASE u # t
  <2>1. ResolveBoth(t, call, roots, live)
    BY <1>5 DEF CopyFile
  <2>2. Contained(src, roots) /\ Contained(n, roots) /\ src \in DOMAIN t
    BY <1>1, <2>1 DEF ResolveBoth, Found, Allowed, Exists
  <2>3. HoldsEntries(u) /\ Reaches(t, u, names)
    <3>1. CASE IsDir(t, src)
      <4>1. u = TreeCopied(t, src, to)
        BY <1>1, <1>3, <1>5, <2>1, <3>1 DEF CopyFile
      <4> QED
        BY <1>1, <1>2, <1>3, <3>1, <4>1, CopiesTree
    <3>2. CASE ~IsDir(t, src)
      <4>1. PICK m, up : up = Parent(to) /\ m = Made(t, up)
        OBVIOUS
      <4>2. u = FileCopied(m, src, to)
        BY <1>1, <1>3, <1>5, <2>1, <3>2, <4>1 DEF CopyFile
      <4>3. up \in Paths /\ IsPrefix(up, to)
        BY <1>3, <4>1, ParentIs
      <4>4. HoldsEntries(m) /\ src \in DOMAIN m
        BY <2>2, <4>1, <4>3, MadeIs
      <4>5. HoldsEntries(u) /\ Reaches(m, u, names)
        BY <1>1, <1>2, <1>3, <4>2, <4>4, CopiesFile
      <4>6. IsPrefix(up, n) \/ IsPrefix(n, up)
        BY <1>2, <1>3, <4>3, PrefixesCompare DEF IsStrictPrefix
      <4> QED
        BY <1>1, <1>2, <4>1, <4>3, <4>5, <4>6, ReachesAfterMade
    <3> QED
      BY <3>1, <3>2
  <2> QED
    BY <1>1, <2>2, <2>3 DEF Confined
<1> QED
  BY <1>4, <1>5

LEMMA MovedAway ==
  ASSUME NEW t, HoldsEntries(t), NEW call, IsCall(call), call.tool = "move_file", NEW roots,
         NEW live, NEW u \in MoveFile(t, call, roots, live)
  PROVE  Confined(t, u, {call.path, call.to}, roots)
<1>1. PICK src, n, names : src = call.path /\ n = call.to /\ names = {src, n}
  OBVIOUS
<1>2. src \in Paths \ {<<>>} /\ n \in Paths \ {<<>>}
  BY <1>1, CallIs DEF WithDestination
<1>3. PICK to : to = Destination(t, call) /\ to \in Paths \ {<<>>} /\ IsPrefix(n, to)
  BY <1>1, DestinationIs DEF WithDestination
<1>4. CASE u = t
  BY <1>4, NothingDone
<1>5. CASE u # t
  <2>1. PICK m, up : up = Parent(to) /\ m = Made(t, up)
    OBVIOUS
  <2>2. ResolveBoth(t, call, roots, live) /\ u = Moved(m, src, to)
    BY <1>1, <1>3, <1>5, <2>1 DEF MoveFile
  <2>3. Contained(src, roots) /\ Contained(n, roots)
    BY <1>1, <2>2 DEF ResolveBoth, Found, Allowed
  <2>4. up \in Paths /\ IsPrefix(up, to)
    BY <1>3, <2>1, ParentIs
  <2>5. HoldsEntries(m)
    BY <2>1, <2>4, MadeIs
  <2>6. HoldsEntries(u) /\ Reaches(m, u, names)
    BY <1>1, <1>2, <1>3, <2>2, <2>5, Moves
  <2>7. IsPrefix(up, n) \/ IsPrefix(n, up)
    BY <1>2, <1>3, <2>4, PrefixesCompare DEF IsStrictPrefix
  <2>8. Reaches(t, u, names)
    BY <1>1, <1>2, <2>1, <2>4, <2>6, <2>7, ReachesAfterMade
  <2> QED
    BY <1>1, <2>3, <2>6, <2>8 DEF Confined
<1> QED
  BY <1>4, <1>5

LEMMA ArchiveCreated ==
  ASSUME NEW t, HoldsEntries(t), NEW call, IsCall(call), call.tool = "create_archive",
         NEW roots, NEW u \in CreateArchive(t, call, roots)
  PROVE  Confined(t, u, {call.path, call.to}, roots)
<1>1. PICK src, to, names : src = call.path /\ to = call.to /\ names = {src, to}
  OBVIOUS
<1>2. src \in Paths \ {<<>>} /\ to \in Paths \ {<<>>}
  BY <1>1, CallIs DEF WithDestination
<1>3. CASE u = t
  BY <1>3, NothingDone
<1>4. CASE u # t
  <2>1. PICK opened, e : opened = Put(t, to, File(<<>>)) /\ e = Archived(Packed(opened, src), FALSE)
    OBVIOUS
  <2>2. u = Put(t, to, e) /\ Found(t, src, roots) /\ Allowed(t, to, roots)
    BY <1>1, <1>4, <2>1 DEF CreateArchive
  <2>3. <<>> \in Texts
    BY EmptySeq, Zenon DEF Texts
  <2>4. HoldsEntries(opened)
    BY <1>1, <1>2, <2>1, <2>3, FileIsEntry, PutWrites
  <2>5. IsEntry(e)
    BY <1>2, <2>1, <2>4, PacksTexts
  <2>6. HoldsEntries(u) /\ Reaches(t, u, names)
    BY <1>1, <1>2, <2>2, <2>5, PutWrites
  <2> QED
    BY <1>1, <2>2, <2>6 DEF Confined, Found, Allowed
<1> QED
  BY <1>3, <1>4

LEMMA ArchiveExtracted ==
  ASSUME NEW t, HoldsEntries(t), NEW call, IsCall(call), call.tool = "extract_archive",
         NEW roots, NEW u \in ExtractArchive(t, call, roots)
  PROVE  Confined(t, u, {call.path, call.to}, roots)
<1>1. PICK src, to, names : src = call.path /\ to = call.to /\ names = {src, to}
  OBVIOUS
<1>2. src \in Paths \ {<<>>} /\ to \in Paths \ {<<>>}
  BY <1>1, CallIs DEF WithDestination
<1>3. PICK m : m = Made(t, to)
  OBVIOUS
<1>4. HoldsEntries(m)
  BY <1>2, <1>3, MadeIs
<1>5. CASE u = t
  BY <1>5, NothingDone
<1>6. CASE u # t
  <2>1. Found(t, src, roots) /\ Allowed(t, to, roots)
    BY <1>1, <1>6 DEF ExtractArchive
  <2>2. HoldsEntries(u) /\ Reaches(t, u, names)
    <3>1. CASE u = m
      BY <1>1, <1>2, <1>3, <1>4, <3>1, MadeReaches
    <3>2. CASE u # m
      <4>1. PICK source : source = t[src] /\ IsEntry(source)
        BY <2>1 DEF HoldsEntries, Found, Exists
      <4>2. source.kind = "zip" /\ u \in Extractions(m, source.members, src, to)
        BY <1>1, <1>3, <1>6, <2>1, <3>2, <4>1 DEF ExtractArchive
      <4>3. PICK members : members = source.members
        OBVIOUS
      <4>4. DOMAIN members \subseteq Paths /\ \A r \in DOMAIN members : members[r] \in Texts
        BY <4>1, <4>2, <4>3 DEF IsEntry, Dir
      <4>5. HoldsEntries(u) /\ Reaches(m, u, names)
        BY <1>1, <1>2, <1>4, <4>2, <4>3, <4>4, Extracts
      <4> QED
        BY <1>1, <1>2, <1>3, <4>5, PrefixOfItself, ReachesAfterMade
    <3> QED
      BY <3>1, <3>2
  <2> QED
    BY <1>1, <2>1, <2>2 DEF Confined, Found, Allowed
<1> QED
  BY <1>5, <1>6

(* Whatever the tool and its arguments. *)
LEMMA OutcomesConfined ==
  ASSUME NEW t, HoldsEntries(t), NEW call, IsCall(call), NEW roots, NEW live,
         NEW u \in Outcomes(t, call, roots, live)
  PROVE  \E names \in SUBSET (Named(call) \cap Paths) : Confined(t, u, names, roots)
<1>1. {call.path} \in SUBSET (Named(call) \cap Paths)
  BY CallIs
<1>2. call.tool \in WithDestination => {call.path, call.to} \in SUBSET (Named(call) \cap Paths)
  BY CallIs
<1>3. CASE call.tool = "write_file"
  BY <1>1, <1>3, Wrote DEF Outcomes
<1>4. CASE call.tool = "patch_file"
  BY <1>1, <1>4, Patched DEF Outcomes
<1>5. CASE call.tool = "create_directory"
  BY <1>1, <1>5, MadeDirectory DEF Outcomes
<1>6. CASE call.tool = "copy_file"
  BY <1>2, <1>6, Copied DEF Outcomes, WithDestination
<1>7. CASE call.tool = "move_file"
  BY <1>2, <1>7, MovedAway DEF Outcomes, WithDestination
<1>8. CASE call.tool = "delete_file"
  BY <1>1, <1>8, DeletedFile DEF Outcomes
<1>9. CASE call.tool = "delete_directory"
  BY <1>1, <1>9, DeletedDirectory DEF Outcomes
<1>10. CASE call.tool = "create_archive"
  BY <1>2, <1>10, ArchiveCreated DEF Outcomes, WithDestination
<1>11. CASE call.tool = "extract_archive"
  BY <1>2, <1>11, ArchiveExtracted DEF Outcomes, WithDestination
<1> QED
  BY <1>3, <1>4, <1>5, <1>6, <1>7, <1>8, <1>9, <1>10, <1>11 DEF IsCall, WithDestination

-----------------------------------------------------------------------------
(* The inductive invariant: what the tree holds, so that the next tool can be *)
(* reasoned about, and that a turn works with settings somebody has saved.    *)
TreeInv ==
    /\ HoldsEntries(tree)
    /\ trusted \in Trusts
    /\ held \in [Callers -> Trusts]

LEMMA InitTree == Init => TreeInv
BY WorkspaceAssumption DEF Init, TreeInv

LEMMA FilesKept ==
  ASSUME TreeInv, NEW c \in Callers, UseFiles(c)
  PROVE  TreeInv'
<1>1. IsCall(request[c]) /\ tree' \in Outcomes(tree, request[c], held[c], trusted)
  BY WorkspaceAssumption DEF UseFiles
<1>2. PICK names : Confined(tree, tree', names, held[c])
  BY <1>1, OutcomesConfined DEF TreeInv
<1> QED
  BY <1>2 DEF Confined, TreeInv, UseFiles

LEMMA NextTree == TreeInv /\ [Next]_vars => TreeInv'
<1> SUFFICES ASSUME TreeInv, [Next]_vars PROVE TreeInv'
  OBVIOUS
<1>1. CASE UNCHANGED vars
  BY <1>1 DEF vars, TreeInv
<1>2. ASSUME NEW c \in Callers, BeginTurn(c) PROVE TreeInv'
  BY <1>2 DEF BeginTurn, TreeInv
<1>3. ASSUME NEW c \in Callers, UseFiles(c) PROVE TreeInv'
  BY <1>3, FilesKept
<1>4. ASSUME NEW roots \in Trusts, ChangeTrust(roots) PROVE TreeInv'
  BY <1>4 DEF ChangeTrust, TreeInv
<1>5. ASSUME NEW c \in Callers,
             \/ EndTurn(c) \/ Refused(c) \/ Loop(c) \/ CutOff(c) \/ Abandon(c) \/ CancelTask(c)
             \/ \E call \in FileCalls \cup CommandCalls : Ask(c, call)
             \/ \E set \in BOOLEAN : StartCommand(c, set)
      PROVE  TreeInv'
  BY <1>5 DEF TreeInv, EndTurn, Refused, Loop, ReadOutput, Terminate, WentQuietly, Kill, CutOff,
              Abandon, CancelTask, Ask, StartCommand, Return
<1>6. ASSUME PressStop \/ \E n \in Numbers : Exits(n) PROVE TreeInv'
  BY <1>6 DEF TreeInv, PressStop, Exits
<1> QED
  BY <1>1, <1>2, <1>3, <1>4, <1>5, <1>6 DEF Next

LEMMA TreeAlways == Spec => []TreeInv
<1> QED
  BY InitTree, NextTree, PTL DEF Spec

-----------------------------------------------------------------------------
(* What lies beneath a path of a trusted folder lies in the folder too; what *)
(* lies above it, in the same folder or on the way to it.                    *)
LEMMA NamedOnly ==
  ASSUME TreeInv, NEW c \in Callers, UseFiles(c), NEW p \in Changed
  PROVE  /\ Contained(p, held[c]) \/ OnTheWay(p, held[c])
         /\ \E n \in Named(request[c]) :
               IsPrefix(n, p) \/ (IsPrefix(p, n) /\ tree'[p] = Dir)
<1>1. PICK call : call = request[c] /\ IsCall(call)
  BY WorkspaceAssumption DEF UseFiles
<1>2. PICK names \in SUBSET (Named(call) \cap Paths) : Confined(tree, tree', names, held[c])
  <2>1. tree' \in Outcomes(tree, call, held[c], trusted)
    BY <1>1 DEF UseFiles
  <2> QED
    BY <1>1, <2>1, OutcomesConfined DEF TreeInv
<1>3. Touched(tree, tree', p) /\ p \in DOMAIN tree \cup DOMAIN tree' /\ tree' # tree
  BY DEF Changed, Touched
<1>4. p \in Paths
  BY <1>2, <1>3 DEF TreeInv, HoldsEntries, Confined
<1>5. PICK n \in names : Reached(tree, tree', p, n)
  BY <1>2, <1>3 DEF Confined, Reaches
<1>6. n \in Paths /\ n \in Named(call)
  BY <1>2
<1>7. PICK i \in DOMAIN held[c] : IsPrefix(held[c][i], n)
  BY <1>2, <1>3 DEF Confined, Contained
<1>8. PICK root : root = held[c][i] /\ root \in Paths
  BY WorkspaceAssumption, ElementOfSeq DEF TreeInv
<1>9. CASE IsPrefix(n, p)
  <2>1. IsPrefix(root, p)
    BY <1>4, <1>6, <1>7, <1>8, <1>9, PrefixOfPrefix
  <2> QED
    BY <1>1, <1>6, <1>8, <1>9, <2>1 DEF Contained
<1>10. CASE ~IsPrefix(n, p)
  <2>1. IsPrefix(p, n) /\ p \notin DOMAIN tree /\ tree'[p] = Dir
    BY <1>5, <1>10 DEF Reached
  <2>2. IsPrefix(root, p) \/ IsStrictPrefix(p, root)
    BY <1>4, <1>6, <1>7, <1>8, <2>1, PrefixesCompare
  <2> QED
    BY <1>1, <1>6, <1>8, <2>1, <2>2 DEF Contained, OnTheWay
<1> QED
  BY <1>9, <1>10

(* What a call of a file tool changes lies at, beneath or, as a new folder, on *)
(* the way to a path of its arguments, and within the trusted folders its turn *)
(* began with, whatever is saved in the settings meanwhile (tools/files.py).   *)
THEOREM OnlyTheNamedChanges == Spec => OnlyWhatWasNamed
<1>1. TreeInv => \A c \in Callers : UseFiles(c) =>
          \A p \in Changed :
              /\ Contained(p, held[c]) \/ OnTheWay(p, held[c])
              /\ \E named \in Named(request[c]) :
                    IsPrefix(named, p) \/ (IsPrefix(p, named) /\ tree'[p] = Dir)
  BY NamedOnly
<1> QED
  BY <1>1, TreeAlways, PTL DEF OnlyWhatWasNamed

-----------------------------------------------------------------------------
(* A plain text is read as it is, and a section of it is written back with *)
(* all that is around it.                                                  *)
LEMMA PatchedText ==
  ASSUME NEW t, HoldsEntries(t), NEW call, IsCall(call), call.tool = "patch_file", NEW roots,
         NEW u \in PatchFile(t, call, roots), Plain(TextOf(t, call.path))
  PROVE  \/ TextOf(u, call.path) = TextOf(t, call.path)
         \/ PatchedOnce(TextOf(t, call.path), TextOf(u, call.path), call.old, Written(call.new))
<1>1. PICK p, text : p = call.path /\ text = TextOf(t, p)
  OBVIOUS
<1>2. ReadText(t, p) = text /\ text \in Texts /\ Plain(text)
  BY <1>1, ReadIs
<1>3. call.old \in Texts \ {<<>>} /\ call.new \in Texts
  BY DEF IsCall
<1>4. ASSUME u # t PROVE PatchedOnce(text, TextOf(u, p), call.old, Written(call.new))
  <2>1. PICK i \in OnlyPlace(text, call.old) :
           u = Put(t, p, File(Written(ReplacedAt(text, i, call.old, call.new))))
    BY <1>1, <1>2, <1>4, PatchWrites
  <2>2. TextOf(u, p) = Written(ReplacedAt(text, i, call.old, call.new))
    BY <2>1 DEF TextOf, Exists, Put, Over, File
  <2>3. /\ i \in Occurrences(text, call.old)
        /\ \A j \in Occurrences(text, call.old) : j \in i .. i + Len(call.old) - 1
    BY <2>1 DEF OnlyPlace
  <2>4. \A j \in DOMAIN text : text[j] \notin DOMAIN LineEnds
    BY <1>2 DEF Plain
  <2>5. TextOf(u, p) = ReplacedAt(text, i, call.old, Written(call.new))
    BY <1>2, <1>3, <2>2, <2>3, <2>4, ReplacedIs
  <2> QED
    BY <2>3, <2>5 DEF PatchedOnce
<1> QED
  BY <1>1, <1>4

(* patch_file leaves a text that is UTF-8, within the read limit and without a *)
(* line end that the system rewrites as it was but for the one section, which  *)
(* lay nowhere else unless it overlaps itself (PatchFileTool.run).             *)
THEOREM PatchesOnePlace == Spec => PatchChangesOnePlace
<1>1. ASSUME TreeInv, NEW c \in Callers, request[c].tool = "patch_file", UseFiles(c),
             Plain(TextOf(tree, request[c].path))
      PROVE  \/ TextOf(tree', request[c].path) = TextOf(tree, request[c].path)
             \/ PatchedOnce(TextOf(tree, request[c].path), TextOf(tree', request[c].path),
                            request[c].old, Written(request[c].new))
  <2>1. PICK call : call = request[c] /\ IsCall(call) /\ call.tool = "patch_file"
    BY <1>1, WorkspaceAssumption DEF UseFiles
  <2>2. tree' \in PatchFile(tree, call, held[c])
    BY <1>1, <2>1 DEF UseFiles, Outcomes
  <2>3. HoldsEntries(tree) /\ Plain(TextOf(tree, call.path))
    BY <1>1, <2>1 DEF TreeInv
  <2>4. \/ TextOf(tree', call.path) = TextOf(tree, call.path)
        \/ PatchedOnce(TextOf(tree, call.path), TextOf(tree', call.path), call.old,
                       Written(call.new))
    BY <2>1, <2>2, <2>3, PatchedText
  <2> QED
    BY <2>1, <2>4, Zenon
<1>2. TreeInv => \A c \in Callers :
          LET call == request[c]
              before == TextOf(tree, call.path)
              after == TextOf(tree', call.path)
          IN call.tool = "patch_file" /\ UseFiles(c) /\ Plain(before) =>
                after = before \/ PatchedOnce(before, after, call.old, Written(call.new))
  BY <1>1, Zenon
<1> QED
  BY <1>2, TreeAlways, PTL DEF PatchChangesOnePlace
=============================================================================
