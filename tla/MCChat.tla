------------------------------- MODULE MCChat -------------------------------
(***************************************************************************)
(* A small instance of Chat: two questions, the tab left once, one failure *)
(* and an engine that calls no tools.                                      *)
(***************************************************************************)
EXTENDS Chat

Asked == {<<"p", " ", "p">>}
NoCalls == {}
NoSizes == <<>>
=============================================================================
