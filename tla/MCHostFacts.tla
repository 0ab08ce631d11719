----------------------------- MODULE MCHostFacts -----------------------------
(***************************************************************************)
(* Model-checking instance of HostFacts: one address of every class, and  *)
(* range configs of up to two entries.                                     *)
(***************************************************************************)
EXTENDS HostFacts

MCAddrs == {"cfg", "plain", "test", "dock", "short", "v6"}
MCClass == [a \in MCAddrs |->
              CASE a \in {"cfg", "plain"} -> "plain"
                [] a = "test"  -> "testnet"
                [] a = "dock"  -> "docker"
                [] a = "short" -> "short"
                [] a = "v6"    -> "v6"]

(* An entry without vm_name, another VM's entry, and this VM's entry with *)
(* or without network keys, force_ip and a windows key.                   *)
MCEntries ==
  {[named |-> FALSE, match |-> FALSE, hasNet |-> FALSE, force |-> FALSE, os |-> "none"],
   [named |-> TRUE, match |-> FALSE, hasNet |-> TRUE, force |-> FALSE, os |-> "none"]}
  \cup {e \in Entry : e.named /\ e.match /\ e.os \in {"windows", "none"}}
=============================================================================
