----------------------------- MODULE MCInventory -----------------------------
(***************************************************************************)
(* Model-checking instance of Inventory: two nodes, this range's pool and *)
(* one other range's pool, one notes group and one OS id.                  *)
(***************************************************************************)
EXTENDS Inventory

MCVMName     == [i \in {100, 101} |-> IF i = 100 THEN "a" ELSE "b"]
MCNodeOrder  == <<"pve1", "pve2">>
MCOtherPools == {"r2"}
MCNoteGroups == {"web"}
MCOsIds      == {"windows"}

(* VMs whose notes name group "web", that differ in node, type, status,   *)
(* template flag, pool and, for a running qemu VM, how its guest agent     *)
(* answers;                                                                *)
MCKinds ==
  {v \in VMRec : v.notes = [shape |-> "mapping", groups |-> {"web"}]
                /\ v.os = "windows" /\ Possible(v)}
  \cup
  (* and containers of this range whose description is not a mapping.    *)
  {v \in VMRec : v.notes = [shape |-> "other", groups |-> {}] /\ v.pool = "r1"
                /\ v.type = "lxc" /\ v.template = 0 /\ v.agent = "none"
                /\ v.os = "windows"}

(* The same VMs with guest agents that always answer or are absent.       *)
MCSteadyKinds ==
  {v \in MCKinds : v.agent \in {"none", "ok"}}

=============================================================================
