------------------------------- MODULE MCScaners -------------------------------
(***************************************************************************)
(* Values for Scaners.  The words of both tables are shortened: of two     *)
(* keywords one begins the other, at a distance, as %codes and %codes_type *)
(* do.                                                                     *)
(***************************************************************************)
EXTENDS Scaners

mc_Chars == {"\n", "%", "n", "\"", ":", "}", "$", "\\", "[", "]"}
mc_Keywords == {<<"n">>, <<"n", "n", "n">>}
mc_Names == {<<"n", "]">>}
=============================================================================
