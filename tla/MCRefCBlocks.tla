---------------------------- MODULE MCRefCBlocks ----------------------------
(***************************************************************************)
(* RefCBlocks with three characters: two that take one byte, and the third *)
(* that takes two, the byte from Ascii twice.                              *)
(***************************************************************************)
EXTENDS RefCBlocks

MCEncoding == <<<<1>>, <<2>>, <<3, 3>>>>
MCLiterals == {<<>>, <<1, 2>>, <<3>>}
=============================================================================
