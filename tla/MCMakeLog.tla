------------------------------ MODULE MCMakeLog ------------------------------
(***************************************************************************)
(* Small instances of MakeLog for TLC.                                     *)
(***************************************************************************)
EXTENDS MakeLog, TLC

CONSTANTS p1, p2, p3

Old == <<"logs", "redis", "2016", "12">>
New == <<"logs", "redis", "2017", "01">>

\* One process writes more lines than its chain has directories; another goes
\* over a change of year and a third writes under another module.
MCLines ==
    p1 :> <<New, New, New, New, New, New>>
        @@ p2 :> <<Old, New>>
        @@ p3 :> << <<"logs", "upload", "2017", "01">> >>
==============================================================================
