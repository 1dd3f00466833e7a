------------------------------ MODULE FileTree ------------------------------
(***************************************************************************)
(* A tree of files, and what the calls of pathlib, shutil and zipfile that *)
(* tools/files.py makes do to one.  A tree is a function from the paths    *)
(* that exist to their entries; a path is the sequence of its names.       *)
(* Symbolic links are left out.                                            *)
(***************************************************************************)
EXTENDS Naturals, FiniteSets, SequencesExt

Dir == [kind |-> "dir"]

File(text) == [kind |-> "file", text |-> text]

(* members: the text of each file by its path in the archive. *)
Archived(members, escapes) == [kind |-> "zip", members |-> members, escapes |-> escapes]

Exists(tree, p) == p \in DOMAIN tree

IsDir(tree, p) == Exists(tree, p) /\ tree[p].kind = "dir"

IsFile(tree, p) == Exists(tree, p) /\ tree[p].kind # "dir"

TextOf(tree, p) == IF Exists(tree, p) /\ tree[p].kind = "file" THEN tree[p].text ELSE <<>>

Parent(p) == Front(p)

Ancestors(p) == {SubSeq(p, 1, i) : i \in 1 .. Len(p) - 1}

Beneath(tree, p) == {q \in DOMAIN tree : IsPrefix(p, q)}

(* The way from the folder p to q beneath it. *)
From(p, q) == SubSeq(q, Len(p) + 1, Len(q))

Paths == Seq(STRING)

Texts == Seq(STRING)

(* What is found at the paths: folders, texts, and archives of texts. *)
IsEntry(e) ==
    \/ e = Dir
    \/ e.kind = "file" /\ e.text \in Texts
    \/ /\ e.kind = "zip"
       /\ DOMAIN e.members \subseteq Paths
       /\ \A r \in DOMAIN e.members : e.members[r] \in Texts

HoldsEntries(tree) == DOMAIN tree \subseteq Paths /\ \A p \in DOMAIN tree : IsEntry(tree[p])

(* Every entry lies in a folder: what mkdir, rmtree and the others keep. *)
IsTree(tree) == \A p \in DOMAIN tree : \A q \in Ancestors(p) : IsDir(tree, q)

(* g, with what f has to say instead. *)
Over(f, g) == [x \in DOMAIN f \cup DOMAIN g |-> IF x \in DOMAIN f THEN f[x] ELSE g[x]]

Put(tree, p, entry) == Over([q \in {p} |-> entry], tree)

Without(tree, ps) == [q \in DOMAIN tree \ ps |-> tree[q]]

(* Path.mkdir(parents=True, exist_ok=True) *)
CanMake(tree, p) == \A q \in Ancestors(p) \cup {p} : ~IsFile(tree, q)

Made(tree, p) == Over(tree, [q \in (Ancestors(p) \cup {p}) \ {<<>>} |-> Dir])

(* shutil.copytree(src, to, dirs_exist_ok=True): what cannot be made is   *)
(* skipped and reported at the end; a file whose name is a folder at the  *)
(* destination lands in that folder.                                      *)
TreeCopied(tree, src, to) ==
    LET ways == {From(src, q) : q \in Beneath(tree, src)}
        blocked(r) == \E i \in 0 .. Len(r) :
                         /\ IsDir(tree, src \o SubSeq(r, 1, i))
                         /\ IsFile(tree, to \o SubSeq(r, 1, i))
        place(r) == IF IsFile(tree, src \o r) /\ IsDir(tree, to \o r)
                    THEN to \o Append(r, Last(r)) ELSE to \o r
        done == {r \in ways : ~blocked(r) /\ (IsFile(tree, src \o r) => ~IsDir(tree, place(r)))}
    IN Over([p \in {place(r) : r \in done} |-> tree[src \o (CHOOSE r \in done : place(r) = p)]],
            Made(tree, to))

(* shutil.copy2, to a file or into a folder. *)
FileCopied(tree, src, to) ==
    LET place == IF IsDir(tree, to) THEN Append(to, Last(src)) ELSE to
    IN IF place = src \/ IsDir(tree, place) THEN tree ELSE Put(tree, place, tree[src])

(* os.rename *)
Renamed(tree, src, to) ==
    LET moved == Beneath(tree, src)
    IN Over([p \in {to \o From(src, q) : q \in moved} |-> tree[src \o From(to, p)]],
            Without(tree, moved))

(* shutil.move, to a path or into a folder. *)
Moved(tree, src, to) ==
    LET place == IF IsDir(tree, to) /\ to # src THEN Append(to, Last(src)) ELSE to
        taken == IF IsDir(tree, src) \/ place # to
                 THEN Exists(tree, place) ELSE IsDir(tree, place)
    IN IF taken \/ IsPrefix(src, place) THEN tree ELSE Renamed(tree, src, place)

(* What zipfile is given: the files of a folder, or the one file. *)
Packed(tree, src) ==
    IF IsDir(tree, src)
    THEN [r \in {From(src, q) : q \in {p \in Beneath(tree, src) : IsFile(tree, p)}} |->
             TextOf(tree, src \o r)]
    ELSE [r \in {<<Last(src)>>} |-> TextOf(tree, src)]

(* ZipFile.extractall, which goes from one member to the next and stops at *)
(* the first that cannot be written: any of the others may be there.       *)
Extractions(tree, members, archive, to) ==
    LET fits == {r \in DOMAIN members : ~IsDir(tree, to \o r) /\ CanMake(tree, Parent(to \o r))}
        whole == fits = DOMAIN members /\ \A r \in fits : to \o r # archive
        text(p) == IF p = archive THEN <<>> ELSE members[From(to, p)]
        written(rs) ==
            LET files == {to \o r : r \in rs}
                folders == UNION {Ancestors(p) : p \in files}
            IN Over([p \in files |-> File(text(p))], Over(tree, [p \in folders |-> Dir]))
    IN {written(rs) : rs \in IF whole THEN {fits} ELSE SUBSET fits}
=============================================================================
