--------------------------- MODULE MCRefCNumbers ---------------------------
(***************************************************************************)
(* RefCNumbers with bytes of two bits, so that every word of every type is *)
(* reached, and two characters beyond a byte, behind a gap.                *)
(***************************************************************************)
EXTENDS RefCNumbers

MCLiterals == {-2, -1, 0, 1, 3, 5}
=============================================================================
