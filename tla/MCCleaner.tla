------------------------------- MODULE MCCleaner -------------------------------
(***************************************************************************)
(* Cleaner on a tree of five nodes:                                        *)
(*    1/        a directory that is cleaned                                *)
(*    1/2/      a directory in it, with 1/2/3                              *)
(*    1/4       beside it                                                  *)
(*    5         beside 1                                                   *)
(* The paths of a clean are 1 and 5 beside it, 1 and one in it (each of a  *)
(* category of its own), 1/2 before 1, or 5 alone.                         *)
(***************************************************************************)
EXTENDS Cleaner

MCParent == <<0, 1, 2, 1, 0>>
MCGivens == {<<1, 5>>, <<1, 4>>, <<1, 2>>, <<2, 1>>, <<5>>}
================================================================================
