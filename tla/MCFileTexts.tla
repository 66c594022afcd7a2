---------------------------- MODULE MCFileTexts ----------------------------
(***************************************************************************)
(* Small instances of FileTexts for TLC.                                   *)
(***************************************************************************)
EXTENDS FileTexts

Over(tokens, n) == UNION {[1 .. k -> tokens] : k \in 0 .. n}

\* fdfs_upload_file ends the id with a line feed.
PrintedIds == {<<"group", "/">> \o w \o <<"LF">> : w \in Over({"x", "/", "cmd"}, 2)}

Whole(g) == [g EXCEPT !.cut = Len(Form(g))]

Sound(n, b, p) ==
    Whole([name |-> n, bytes |-> b, cut |-> 0, printed |-> p, pipe |-> TRUE, server |-> <<"ip">>])

AnId == <<"group", "/", "x", "LF">>

\* Every way a body can end early, for files with line ends and dashes inside.
Cuts == {[g EXCEPT !.cut = k] : k \in 0 .. 25,
             g \in {Sound(<<"x">>, b, AnId) : b \in Over({"x", "CR", "LF", Dashes}, 3)}}

Bodies == {Sound(<<"x">>, b, AnId) : b \in Over({"x", "CR", "LF", Dashes}, 5)}

\* Names with dots and bars, ids with the name of a parameter.
Named == {Sound(n, <<"x">>, p) : n \in Over({"x", ".", Bar}, 4), p \in PrintedIds}

\* A tool that prints nothing, and no descriptor for the second pipe.
Gaps == {[g EXCEPT !.pipe = b, !.server = << >>, !.printed = p] :
            g \in {Sound(n, <<"x">>, AnId) : n \in Over({"x", ".", Bar}, 2)},
            b \in BOOLEAN, p \in {<< >>, AnId}}

EveryGiven == Cuts \cup Bodies \cup Named \cup Gaps

Junks == {<< >>, <<"old">>}
==============================================================================
