------------------------------ MODULE MCMainHost ------------------------------
(***************************************************************************)
(* Model-checking instance of MainHost: three VMs on two nodes, two of    *)
(* them sharing the name asked for.                                        *)
(***************************************************************************)
EXTENDS MainHost

MCVMName    == (100 :> "a") @@ (101 :> "a") @@ (102 :> "b")
MCNodeOrder == <<"pve1", "pve2">>
(* A release string without and with a '-' suffix ("7.4", "7.4-4").       *)
MCVersions  == {<<7, -1, 4>>, <<7, -1, 4, -2, 4>>}
=============================================================================
