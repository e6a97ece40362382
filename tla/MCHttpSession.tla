--------------------------- MODULE MCHttpSession ---------------------------
(***************************************************************************)
(* A deadline of four ticks, so that every operation can take its share of *)
(* one, all of it, or miss it.                                             *)
(***************************************************************************)
EXTENDS HttpSession

MCCode == {200, 301, 404}
=============================================================================
