------------------------------ MODULE FileTools ------------------------------
(***************************************************************************)
(* tools/sandbox.py and tools/files.py: which paths a tool may touch, and  *)
(* what each tool that writes makes of a tree.  A call of these tools has  *)
(* no await in it, so it is one step of the event loop; where the outcome  *)
(* is open (an extraction that fails half way), it is a set of trees.      *)
(*                                                                         *)
(* Texts are sequences of pieces; a section that is to be patched, and the *)
(* cut at the read limit, begin and end between two of them.  Text that    *)
(* UTF-8 cannot write is left out, and so is copying a folder into itself, *)
(* which shutil.copytree may not come back from.                           *)
(***************************************************************************)
EXTENDS FileTree

CONSTANTS
    ProtectedNames,  \* names that are locked wherever they are
    ProtectedAreas,  \* folders that are locked with all they hold
    MaxRead,         \* MAX_READ_BYTES, in pieces
    Foreign,         \* the pieces that are not UTF-8
    Recoded,         \* what the pieces that are not ASCII are read as in cp1252
    LineEnds         \* what the system makes of the ends of lines it writes

ASSUME MaxReadAssumption == MaxRead \in Nat \ {0}

ASSUME TextAssumption ==
    /\ Foreign \subseteq DOMAIN Recoded
    /\ \A piece \in DOMAIN Recoded : Recoded[piece] \in STRING
    /\ \A piece \in DOMAIN LineEnds : LineEnds[piece] \in STRING

-----------------------------------------------------------------------------
(* sandbox.py.  Settings hold the trusted folders in order. *)
IsProtected(p) ==
    Last(p) \in ProtectedNames \/ \E area \in ProtectedAreas : IsPrefix(area, p)

Contained(p, roots) == \E i \in DOMAIN roots : IsPrefix(roots[i], p)

(* The first root that holds the path, in the order of the settings. *)
ContainingRoot(p, roots) == roots[CHOOSE i \in DOMAIN roots :
    IsPrefix(roots[i], p) /\ \A j \in 1 .. i - 1 : ~IsPrefix(roots[j], p)]

(* resolve_path: may the tool go on with this path? *)
Allowed(tree, p, roots) ==
    /\ ~IsProtected(p)
    /\ Contained(p, roots)
    /\ Exists(tree, p) \/ Contained(Parent(p), roots)

Found(tree, p, roots) == Allowed(tree, p, roots) /\ Exists(tree, p)

-----------------------------------------------------------------------------
(* Texts: a text that holds a byte which is no UTF-8 is read in cp1252 or,  *)
(* where that fails, latin-1, as a whole (Recoded stands for both); what is *)
(* written is UTF-8, and Windows makes \r\n of every \n.                    *)
Each(text, f) ==
    [i \in DOMAIN text |-> IF text[i] \in DOMAIN f THEN f[text[i]] ELSE text[i]]

IsUtf8(text) == \A i \in DOMAIN text : text[i] \notin Foreign

(* _read_text: no more than the limit. *)
ReadText(tree, p) ==
    LET data == SubSeq(TextOf(tree, p), 1, Min({MaxRead, Len(TextOf(tree, p))}))
    IN IF IsUtf8(data) THEN data ELSE Each(data, Recoded)

Written(text) == Each(text, LineEnds)

Occurrences(text, section) ==
    {i \in 1 .. Len(text) - Len(section) + 1 : SubSeq(text, i, i + Len(section) - 1) = section}

(* Mutated form: of several places, the first. *)
FirstPlace(text, section) ==
    {i \in Occurrences(text, section) : \A j \in Occurrences(text, section) : i <= j}

(* text.count, which goes on behind the section it has found, is 1. *)
OnlyPlace(text, section) ==
    {i \in Occurrences(text, section) :
        \A j \in Occurrences(text, section) : j \in i .. i + Len(section) - 1}

ReplacedAt(text, i, section, new) ==
    SubSeq(text, 1, i - 1) \o new \o SubSeq(text, i + Len(section), Len(text))

-----------------------------------------------------------------------------
(* files.py.  call has the tool, its path or its source and destination,   *)
(* and its other arguments; roots are those the call runs under, live those *)
(* of the settings at that moment.                                         *)
WriteFile(tree, call, roots) ==
    LET p == call.path
        before == IF call.append THEN TextOf(tree, p) ELSE <<>>
        keepsZip == call.append /\ IsFile(tree, p) /\ tree[p].kind = "zip"
    IN IF Allowed(tree, p, roots) /\ CanMake(tree, Parent(p)) /\ ~IsDir(tree, p) /\ ~keepsZip
       THEN {Put(Made(tree, Parent(p)), p, File(before \o Written(call.text)))}
       ELSE {tree}

PatchFile(tree, call, roots) ==
    LET p == call.path
        text == ReadText(tree, p)
    IN IF Found(tree, p, roots) /\ IsFile(tree, p) /\ OnlyPlace(text, call.old) # {}
       THEN {Put(tree, p, File(Written(ReplacedAt(text, i, call.old, call.new)))) :
                i \in OnlyPlace(text, call.old)}
       ELSE {tree}

CreateDirectory(tree, call, roots) ==
    IF Allowed(tree, call.path, roots) /\ CanMake(tree, call.path)
    THEN {Made(tree, call.path)} ELSE {tree}

(* _resolve_both: a destination that is a folder stands for the place in it *)
(* with the name of the source, and is checked again, under the settings of *)
(* that moment.                                                             *)
Destination(tree, call) ==
    IF IsDir(tree, call.to) THEN Append(call.to, Last(call.path)) ELSE call.to

(* Mutated form: the destination is resolved under the settings of now. *)
ResolveBothLive(tree, call, roots, live) ==
    /\ Found(tree, call.path, roots)
    /\ Allowed(tree, call.to, live)
    /\ IsDir(tree, call.to) => Allowed(tree, Destination(tree, call), live)

ResolveBoth(tree, call, roots, live) ==
    /\ Found(tree, call.path, roots)
    /\ Allowed(tree, call.to, roots)
    /\ IsDir(tree, call.to) => Allowed(tree, Destination(tree, call), live)

IntoItself(tree, call) ==
    /\ call.tool = "copy_file"
    /\ IsDir(tree, call.path)
    /\ IsStrictPrefix(call.path, Destination(tree, call))

CopyFile(tree, call, roots, live) ==
    LET to == Destination(tree, call)
    IN IF ~ResolveBoth(tree, call, roots, live) THEN {tree}
       ELSE IF IsDir(tree, call.path)
       THEN {IF CanMake(tree, to) THEN TreeCopied(tree, call.path, to) ELSE tree}
       ELSE {IF CanMake(tree, Parent(to))
             THEN FileCopied(Made(tree, Parent(to)), call.path, to) ELSE tree}

MoveFile(tree, call, roots, live) ==
    LET to == Destination(tree, call)
    IN IF ResolveBoth(tree, call, roots, live) /\ CanMake(tree, Parent(to))
       THEN {Moved(Made(tree, Parent(to)), call.path, to)} ELSE {tree}

DeleteFile(tree, call, roots) ==
    IF Found(tree, call.path, roots) /\ IsFile(tree, call.path)
    THEN {Without(tree, {call.path})} ELSE {tree}

DeleteDirectory(tree, call, roots) ==
    LET p == call.path
        entries == Beneath(tree, p)
    IN IF /\ Found(tree, p, roots)
          /\ IsDir(tree, p)
          /\ p # ContainingRoot(p, roots)
          /\ call.recursive \/ entries = {p}
       THEN {Without(tree, entries)} ELSE {tree}

(* The archive is created before the source is listed, so that an archive   *)
(* in the packed folder, or packed itself, is one of its own members.       *)
CreateArchive(tree, call, roots) ==
    LET opened == Put(tree, call.to, File(<<>>))
    IN IF /\ Found(tree, call.path, roots)
          /\ Allowed(tree, call.to, roots)
          /\ IsDir(tree, Parent(call.to))
          /\ ~IsDir(tree, call.to)
       THEN {Put(tree, call.to, Archived(Packed(opened, call.path), FALSE))} ELSE {tree}

ExtractArchive(tree, call, roots) ==
    LET source == tree[call.path]
        made == Made(tree, call.to)
    IN IF ~(/\ Found(tree, call.path, roots)
            /\ Allowed(tree, call.to, roots)
            /\ CanMake(tree, call.to))
       THEN {tree}
       ELSE IF source.kind # "zip" \/ (source.kind = "zip" /\ source.escapes) THEN {made}
       ELSE Extractions(made, source.members, call.path, call.to)

WithDestination == {"copy_file", "move_file", "create_archive", "extract_archive"}

(* What the arguments of a call are after their validation. *)
IsCall(call) ==
    /\ call.path \in Paths \ {<<>>}
    /\ call.tool \in WithDestination => "to" \in DOMAIN call /\ call.to \in Paths \ {<<>>}
    /\ call.tool = "write_file" => call.text \in Texts /\ IsUtf8(call.text)
    /\ call.tool = "patch_file" => /\ call.old \in Texts \ {<<>>}
                                  /\ call.new \in Texts
                                  /\ IsUtf8(call.old) /\ IsUtf8(call.new)
    /\ call.tool \in {"write_file", "patch_file", "create_directory", "delete_file",
                       "delete_directory"} \cup WithDestination

(* The trees a call may leave. *)
Outcomes(tree, call, roots, live) ==
    CASE call.tool = "write_file" -> WriteFile(tree, call, roots)
      [] call.tool = "patch_file" -> PatchFile(tree, call, roots)
      [] call.tool = "create_directory" -> CreateDirectory(tree, call, roots)
      [] call.tool = "copy_file" -> CopyFile(tree, call, roots, live)
      [] call.tool = "move_file" -> MoveFile(tree, call, roots, live)
      [] call.tool = "delete_file" -> DeleteFile(tree, call, roots)
      [] call.tool = "delete_directory" -> DeleteDirectory(tree, call, roots)
      [] call.tool = "create_archive" -> CreateArchive(tree, call, roots)
      [] call.tool = "extract_archive" -> ExtractArchive(tree, call, roots)
=============================================================================
