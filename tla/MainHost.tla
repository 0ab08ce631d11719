------------------------------- MODULE MainHost -------------------------------
(***************************************************************************)
(* main_host (proxmox.py l. 576-586), the --host HOSTNAME answer of the   *)
(* inventory script, with the REST calls it makes: auth (l. 156-170),     *)
(* nodes (l. 182-183) and node_qemu (l. 191-192, 185-186), which parses   *)
(* the cluster's version with ProxmoxVersion.get_version for every node.  *)
(*                                                                         *)
(* The cluster is fixed for one call: each VM has a node, a type and a    *)
(* template flag; each node's qemu listing answers, fails with 595/596    *)
(* (node unavailable) or fails otherwise; the ticket request succeeds or  *)
(* is refused; /version returns one of a few version strings.             *)
(***************************************************************************)
EXTENDS Integers, Sequences, FiniteSets, SequencesExt

CONSTANTS
  VmIds,      \* vmid values (integers, in the order the API lists VMs)
  Names,      \* VM names
  VMName,     \* vmid -> name; Proxmox lets two VMs share a name
  NodeOrder,  \* the nodes in the order nodes() lists them
  Host,       \* options.host
  Versions,   \* version strings /version may return (ProxmoxVersion tokens)
  Digits, MaxLen

PNodes == ToSet(NodeOrder)
ASSUME VmIds \subseteq Nat \ {0} /\ VMName \in [VmIds -> Names] /\ Host \in Names
ASSUME Cardinality(PNodes) = Len(NodeOrder)

PV == INSTANCE ProxmoxVersion WITH version <- "unused", result <- "unused"
ASSUME Versions \subseteq PV!VersionStrings

VMRec == [node : PNodes, type : {"qemu", "lxc"}, template : {0, 1}]

VARIABLES
  cluster,     \* vmid -> VMRec
  nodeState,   \* node -> "ok" | "unavailable" | "error"
  authOk,      \* the ticket request is accepted
  pveVersion,  \* what /version answers
  phase,       \* "auth" | "nodes" | "done" | "raised"
  ni,          \* index of the node loop
  answer       \* what main_host returns

vars == <<cluster, nodeState, authOk, pveVersion, phase, ni, answer>>

Empty == [kind |-> "empty"]

-----------------------------------------------------------------------------
(* ProxmoxVMList of node_qemu(n): the node's qemu VMs, templates included. *)
QemuList(n) == SetToSortSeq({i \in VmIds : cluster[i].node = n /\ cluster[i].type = "qemu"}, <)
(* ProxmoxVM.get_variables: 'proxmox_' + every key of the VM record.      *)
VarsOf(i) == [vmid |-> i, name |-> VMName[i], node |-> cluster[i].node,
              type |-> cluster[i].type, template |-> cluster[i].template]
(* ProxmoxVMList.get_by_name: the first VM of that name, or None (0).     *)
GetByNameLast(l, name) ==
  LET r == SelectSeq(l, LAMBDA i : VMName[i] = name)
  IN  IF r = <<>> THEN 0 ELSE r[Len(r)]
GetByName(l, name) ==
  LET r == SelectSeq(l, LAMBDA i : VMName[i] = name)
  IN  IF r = <<>> THEN 0 ELSE r[1]

-----------------------------------------------------------------------------
Init ==
  /\ cluster \in [VmIds -> VMRec]
  /\ nodeState \in [PNodes -> {"ok", "unavailable", "error"}]
  /\ authOk \in BOOLEAN
  /\ pveVersion \in Versions
  /\ phase = "auth"
  /\ ni = 1
  /\ answer = Empty

(* l. 577-578: ProxmoxAPI(...) then auth(): the ticket request raises     *)
(* HTTPError when refused.                                                 *)
Auth ==
  /\ phase = "auth"
  /\ phase' = IF authOk THEN "nodes" ELSE "raised"
  /\ UNCHANGED <<cluster, nodeState, authOk, pveVersion, ni, answer>>

(* Mutant: the list's get_variables (all VMs by name) returned.           *)
VisitNodeListVars ==
  /\ phase = "nodes"
  /\ ni <= Len(NodeOrder)
  /\ LET n == NodeOrder[ni]
         q == GetByName(QemuList(n), Host)
     IN  \/ (nodeState[n] # "ok" \/ PV!GetVersion(pveVersion).kind = "error")
            /\ phase' = "raised" /\ UNCHANGED <<ni, answer>>
         \/ nodeState[n] = "ok" /\ PV!GetVersion(pveVersion).kind = "value"
            /\ IF q # 0
               THEN /\ phase' = "done"
                    /\ answer' = [kind |-> "vars",
                                  vars |-> [h \in {VMName[i] : i \in ToSet(QemuList(n))} |->
                                             VarsOf(CHOOSE i \in ToSet(QemuList(n)) : VMName[i] = h)]]
                    /\ UNCHANGED ni
               ELSE ni' = ni + 1 /\ UNCHANGED <<phase, answer>>
  /\ UNCHANGED <<cluster, nodeState, authOk, pveVersion>>

(* Mutant: a loop that does not move to the next node.                    *)
VisitNodeStuck ==
  /\ phase = "nodes"
  /\ ni <= Len(NodeOrder)
  /\ LET n == NodeOrder[ni]
         q == GetByName(QemuList(n), Host)
     IN  \/ (nodeState[n] # "ok" \/ PV!GetVersion(pveVersion).kind = "error")
            /\ phase' = "raised" /\ UNCHANGED <<ni, answer>>
         \/ nodeState[n] = "ok" /\ PV!GetVersion(pveVersion).kind = "value"
            /\ IF q # 0
               THEN phase' = "done" /\ answer' = [kind |-> "vars", vars |-> VarsOf(q)]
                    /\ UNCHANGED ni
               ELSE UNCHANGED <<ni, phase, answer>>
  /\ UNCHANGED <<cluster, nodeState, authOk, pveVersion>>

(* Mutant: the loop remembers the VM and goes on to the next node.         *)
VisitNodeNoReturn ==
  /\ phase = "nodes"
  /\ ni <= Len(NodeOrder)
  /\ LET n == NodeOrder[ni]
         q == GetByName(QemuList(n), Host)
     IN  \/ (nodeState[n] # "ok" \/ PV!GetVersion(pveVersion).kind = "error")
            /\ phase' = "raised" /\ UNCHANGED <<ni, answer>>
         \/ nodeState[n] = "ok" /\ PV!GetVersion(pveVersion).kind = "value"
            /\ ni' = ni + 1 /\ UNCHANGED phase
            /\ answer' = IF q # 0 THEN [kind |-> "vars", vars |-> VarsOf(q)] ELSE answer
  /\ UNCHANGED <<cluster, nodeState, authOk, pveVersion>>

(* One iteration of `for node in proxmox_api.nodes().get_names()`:        *)
(* node_qemu(node) raises HTTPError for a node that does not answer (no   *)
(* 595/596 case here) and ValueError when get_version cannot parse the    *)
(* version; a VM named options.host returns its variables.                 *)
VisitNode ==
  /\ phase = "nodes"
  /\ ni <= Len(NodeOrder)
  /\ LET n == NodeOrder[ni]
         q == GetByName(QemuList(n), Host)
     IN  \/ (nodeState[n] # "ok" \/ PV!GetVersion(pveVersion).kind = "error")
            /\ phase' = "raised" /\ UNCHANGED <<ni, answer>>
         \/ nodeState[n] = "ok" /\ PV!GetVersion(pveVersion).kind = "value"
            /\ IF q # 0
               THEN phase' = "done" /\ answer' = [kind |-> "vars", vars |-> VarsOf(q)]
                    /\ UNCHANGED ni
               ELSE ni' = ni + 1 /\ UNCHANGED <<phase, answer>>
  /\ UNCHANGED <<cluster, nodeState, authOk, pveVersion>>

(* l. 586: no node has a qemu VM of that name: return {}.                 *)
NotFound ==
  /\ phase = "nodes"
  /\ ni > Len(NodeOrder)
  /\ phase' = "done"
  /\ answer' = Empty
  /\ UNCHANGED <<cluster, nodeState, authOk, pveVersion, ni>>

Next == Auth \/ VisitNode \/ NotFound

Spec == Init /\ [][Next]_vars /\ WF_vars(Next)

-----------------------------------------------------------------------------
(* Properties.                                                             *)

HostVMs == {i \in VmIds : VMName[i] = Host /\ cluster[i].type = "qemu"}
(* Position of a VM's node in the node loop.                               *)
Pos(i) == CHOOSE k \in 1..Len(NodeOrder) : NodeOrder[k] = cluster[i].node

TypeOK ==
  /\ phase \in {"auth", "nodes", "done", "raised"}
  /\ ni \in 1..Len(NodeOrder) + 1
  /\ answer \in {Empty} \cup [kind : {"vars"}, vars : {VarsOf(i) : i \in VmIds}]

(* --host returns the variables of the qemu VM named HOSTNAME on the      *)
(* first node (in nodes() order) that has one, the lowest vmid there;     *)
(* {} only when no node has one.  Two VMs of one name make this choice    *)
(* matter.                                                                 *)
HostLookupSound ==
  phase = "done" =>
    IF answer = Empty THEN HostVMs = {}
    ELSE LET i == answer.vars.vmid
         IN  /\ i \in HostVMs
             /\ \A j \in HostVMs : Pos(j) > Pos(i) \/ (Pos(j) = Pos(i) /\ j >= i)

(* A lookup that authenticates and parses the version fails exactly when  *)
(* a node it reaches before the host's VM does not answer: main_host      *)
(* returns as soon as it finds the VM, so nodes after it never matter,    *)
(* but it has no 595/596 case (l. 581), so an unavailable node before it  *)
(* aborts the whole lookup.                                                *)
LookupFailsOnlyBeforeHost ==
  LET Down(k) == nodeState[NodeOrder[k]] # "ok"
      Reached == IF HostVMs = {} THEN Len(NodeOrder)
                 ELSE Pos(CHOOSE i \in HostVMs : \A j \in HostVMs : Pos(i) <= Pos(j))
  IN  (phase \in {"done", "raised"} /\ authOk
         /\ PV!GetVersion(pveVersion).kind = "value")
        => (phase = "raised" <=> \E k \in 1..Reached : Down(k))

(* main_host always ends: it returns or raises.                            *)
Terminates == <>(phase \in {"done", "raised"})
=============================================================================
