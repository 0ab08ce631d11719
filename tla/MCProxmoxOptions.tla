--------------------------- MODULE MCProxmoxOptions ---------------------------
(***************************************************************************)
(* Model-checking instance of ProxmoxOptions: the script's three         *)
(* credentials in the order __init__ checks them.                          *)
(***************************************************************************)
EXTENDS ProxmoxOptions

MCFields == <<"url", "username", "password">>
=============================================================================
