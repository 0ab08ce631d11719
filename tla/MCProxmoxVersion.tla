--------------------------- MODULE MCProxmoxVersion ---------------------------
(***************************************************************************)
(* Model-checking instance of ProxmoxVersion: version strings of up to    *)
(* five tokens over two digit runs.                                        *)
(***************************************************************************)
EXTENDS ProxmoxVersion

MCDigits == {4, 13}
=============================================================================
