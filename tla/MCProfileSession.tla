--------------------------- MODULE MCProfileSession ---------------------------
(***************************************************************************)
(* An instance of ProfileSession for TLC: two profiles, a browser whose    *)
(* clock is behind, exact or ahead by a tick.                              *)
(***************************************************************************)
EXTENDS ProfileSession

MCSkews == {-1, 0, 1}
=============================================================================
