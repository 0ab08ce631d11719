------------------------ MODULE MCResolverDeterminism ------------------------
(***************************************************************************)
(* Model-checking instance of ResolverDeterminism: the same two VM names  *)
(* and two role names as MCDepResolver.                                    *)
(***************************************************************************)
EXTENDS ResolverDeterminism

MCVMs   == {1, 2}
MCRoles == {1, 2}
=============================================================================
