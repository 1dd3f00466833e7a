----------------------------- MODULE MCWorkspace -----------------------------
(* Two trusted folders and one that is not, with texts (one too long to be  *)
(* read, one with a line end, one in cp1252, one where a section overlaps   *)
(* itself), an archive and a foreign archive with a path that leads out.    *)
EXTENDS Workspace

CONSTANTS c1, c2

R == <<"r">>
S == <<"s">>
RX == <<"r", "x">>
RXA == <<"r", "x", "a">>
RA == <<"r", "a">>
SX == <<"s", "x">>
SZ == <<"s", "z">>
Locked == <<"r", "env">>
Outside == <<"o", "a">>

MCTrees ==
    {LET one == IF escapes THEN <<"p", "p", "p">> ELSE <<"p", "lf">>
         other == IF escapes THEN <<"p", "E4">> ELSE <<"p", "q", "q", "q">>
     IN (R :> Dir) @@ (S :> Dir) @@ (<<"o">> :> Dir) @@ (Outside :> File(<<"p">>))
        @@ (RX :> Dir) @@ (RXA :> File(one)) @@ (RA :> File(other))
        @@ (SZ :> Archived(<<"a">> :> <<"q">>, escapes)) :
        escapes \in BOOLEAN}

(* The byte of a letter, which cp1252 knows; and Windows. *)
MCRecoded == "E4" :> "ae" @@ "ae" :> "Ac"

MCLineEnds == "lf" :> "crlf" @@ "crlf" :> "crcrlf"

MCTrusts == {<<R, S>>, <<S>>}

TextPaths == {RXA, RA, Locked}

MCFileCalls ==
    [tool : {"write_file"}, path : TextPaths, text : {<<"p">>}, append : BOOLEAN]
        \cup [tool : {"patch_file"}, path : {RXA, RA}, old : {<<"p">>, <<"p", "p">>}, new : {<<"q">>}]
        \cup [tool : {"create_directory"}, path : {<<"s", "y", "b">>, RXA}]
        \cup [tool : {"delete_file"}, path : {RXA, Outside}]
        \cup [tool : {"delete_directory"}, path : {R, RX}, recursive : BOOLEAN]
        \cup [tool : {"copy_file", "move_file"}, path : {RX, SZ}, to : {S, SX, RXA}]
        \cup [tool : {"create_archive"}, path : {RX, RA}, to : {SZ, <<"r", "x", "z">>}]
        \cup [tool : {"extract_archive"}, path : {SZ, RA}, to : {RX, SX}]

MCCommandCalls ==
    {[tool |-> "run_command", folder |-> <<>>, limit |-> "short"],
     [tool |-> "run_command", folder |-> RX, limit |-> "long"]}
=============================================================================
