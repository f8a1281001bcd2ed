---------------------------- MODULE MCProcReader ----------------------------
(***************************************************************************)
(* ProcReader on every file of at most five bytes over a newline, a        *)
(* harmless byte and a byte that makes a line dirty, and on files with the *)
(* tracer's needle: before anything of at most three bytes, and in a line. *)
(***************************************************************************)
EXTENDS ProcReader

MCBytes == {"n", "c", "x", "T", "0", " "}
MCFiles == UNION {[1 .. k -> {"n", "c", "x"}] : k \in 1 .. 5}
           \cup {<<"T">> \o s : s \in UNION {[1 .. k -> {"n", "c", "T", "0"}] : k \in 1 .. 3}}
           \cup {<<"c", "T", "x", "x", "n">>, <<"T", "x", "x", "n", "T">>}
MCInputs == UNION {[1 .. k -> MCBytes] : k \in 1 .. 5}
MCDirty(g, line) == \E i \in 1 .. Len(line) : line[i] = "x"
=============================================================================
