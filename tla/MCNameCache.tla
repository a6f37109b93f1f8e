----------------------------- MODULE MCNameCache -----------------------------
(***************************************************************************)
(* A small instance of NameCache: a directory with a file that may move    *)
(* between it and the root, and a clock that passes every time to live.    *)
(***************************************************************************)
EXTENDS NameCache

Share == {<<"x">>, <<"a">>, <<"a", "x">>}
Folders == {<<>>, <<"a">>}
=============================================================================
