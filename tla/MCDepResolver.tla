---------------------------- MODULE MCDepResolver ----------------------------
(***************************************************************************)
(* Model-checking instance of DepResolver: two VM names and two role names*)
(* (four possible nodes), ranked as their strings sort.                    *)
(***************************************************************************)
EXTENDS DepResolver

MCVMs   == {1, 2}
MCRoles == {1, 2}
=============================================================================
