------------------------------- MODULE MCDedup ------------------------------
(***************************************************************************)
(* Dedup with more identifiers than the ring has room for.                 *)
(***************************************************************************)
EXTENDS Dedup

CONSTANTS m1, m2, m3, m4, m5, none

MCIds == {m1, m2, m3, m4, m5}
=============================================================================
