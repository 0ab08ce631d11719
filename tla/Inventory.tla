------------------------------ MODULE Inventory ------------------------------
(***************************************************************************)
(* main_list of the Proxmox dynamic inventory (proxmox.py), with the       *)
(* cluster it talks to.                                                    *)
(*                                                                         *)
(* The cluster is chosen in Init and does not change during one listing:  *)
(* VMs with a name, a node, a type, a template flag, a status, the pool   *)
(* they belong to, the groups their notes name, how their guest agent     *)
(* behaves and the OS id it (or the range config) reports; and for every *)
(* node, whether its qemu listing answers, answers 595/596 (node          *)
(* unavailable) or fails otherwise.  The environment variables            *)
(* LUDUS_RANGE_ID and LUDUS_RETURN_ALL_RANGES are rangeSet and returnAll. *)
(*                                                                         *)
(* main_list then runs its loops one step per iteration: the range pool   *)
(* lookup, one step per node, one step per VM of the node, one step per   *)
(* pool, and the final range filter.  ansible_host, the OS name fields    *)
(* and notes keys merged into hostvars are left out: only which hosts and *)
(* groups are listed, and for which VM, is kept.                           *)
(***************************************************************************)
EXTENDS Integers, Sequences, FiniteSets, SequencesExt

CONSTANTS
  VmIds,        \* vmid values (integers, listed in vmid order)
  Names,        \* VM names
  VMName,       \* vmid -> the VM's name (vmid and name are fixed per VM)
  NodeOrder,    \* the cluster's nodes in the order nodes() lists them
  RangeId,      \* LUDUS_RANGE_ID: the pool of this range
  OtherPools,   \* the other pools of the cluster
  NoteGroups,   \* group names a VM's notes may list under "groups"
  OsIds,        \* OS ids an agent or the range config may report
  VMKinds       \* the VM records a run draws its cluster from (VMRec)

PNodes == ToSet(NodeOrder)
Pools  == {RangeId} \cup OtherPools
NoPool == "nopool"
NoOs   == ""

ASSUME VmIds \subseteq Nat /\ Cardinality(PNodes) = Len(NodeOrder)
ASSUME VMName \in [VmIds -> Names]
ASSUME RangeId \notin OtherPools /\ NoPool \notin Pools /\ NoOs \notin OsIds
ASSUME NoteGroups \cap {"all", "_meta"} = {}

(* A VM's description as l. 446-470 parse it.  "mapping": a JSON object   *)
(* or a Python dict literal, or {} (no description) or {'notes': text}    *)
(* (text neither parses); groups is its "groups" list.  "other": text     *)
(* json.loads or ast.literal_eval turns into a number, bool, None, or a   *)
(* non-empty list or string: `'groups' in metadata` (l. 504) or the final *)
(* hostvars update (l. 534) raises TypeError/ValueError, uncaught.        *)
Metadata == [shape : {"mapping", "other"}, groups : SUBSET NoteGroups]

VMRec == [node : PNodes, type : {"qemu", "lxc"},
          template : {0, 1}, running : BOOLEAN, pool : Pools \cup {NoPool},
          notes : Metadata, agent : {"none", "ok", "flaky", "down"},
          os : OsIds \cup {NoOs}]
ASSUME VMKinds \subseteq VMRec
NodeAnswer == {"ok", "unavailable", "error"}

VARIABLES
  cluster,     \* vmid -> VMRec
  nodeState,   \* node -> how its listing answers
  rangeSet,    \* LUDUS_RANGE_ID is set
  returnAll,   \* LUDUS_RETURN_ALL_RANGES is true
  phase,       \* "pool" | "nodes" | "vms" | "pools" | "filter" | "done" | "failed"
  validVmids,  \* valid_vmids
  ni,          \* index of the node loop in NodeOrder
  queue,       \* the keys of node_hostvars not processed yet
  allHosts,    \* results['all']['hosts']
  hvOrder,     \* keys of results['_meta']['hostvars'], in insertion order
  hostvars,    \* results['_meta']['hostvars']: name -> [vmid, type, running]
  groups,      \* the other keys of results: group -> its 'hosts' list
  pi           \* index of the pools loop in PoolOrder

vars == <<cluster, nodeState, rangeSet, returnAll, phase, validVmids, ni,
          queue, allHosts, hvOrder, hostvars, groups, pi>>

PoolOrder == SetToSeq(Pools)

-----------------------------------------------------------------------------
(* The API's lists of one node, in vmid order (ProxmoxVMList).             *)
OnNode(n, t) == SetToSortSeq({i \in VmIds : cluster[i].node = n /\ cluster[i].type = t}, <)
NamesOf(l) == [k \in 1..Len(l) |-> VMName[l[k]]]
(* get_names for Proxmox >= 4.0: VMs whose template field is not 1.       *)
ListedNames(l) == NamesOf(SelectSeq(l, LAMBDA i : cluster[i].template # 1))
(* get_variables: 'proxmox_' + every key of the VM record.                *)
VarsOf(i) == [vmid |-> i, type |-> cluster[i].type, running |-> cluster[i].running]
(* dict.update with get_variables(l): a later VM of the same name wins.   *)
UpdateVars(hv, l) == FoldLeft(LAMBDA d, i : (VMName[i] :> VarsOf(i)) @@ d, hv, l)
(* The new keys a dict gains from the names of l, in insertion order.     *)
AddKeys(ks, l) ==
  FoldLeft(LAMBDA s, i : IF VMName[i] \in ToSet(s) THEN s
                         ELSE Append(s, VMName[i]), ks, l)
(* results[g]['hosts'] += [vm], creating the group if needed.            *)
AddToGroup(gs, g, h) ==
  IF g \in DOMAIN gs THEN [gs EXCEPT ![g] = Append(@, h)] ELSE (g :> <<h>>) @@ gs
AddToGroups(gs, G, h) == FoldSet(LAMBDA g, acc : AddToGroup(acc, g, h), gs, G)
(* ProxmoxPool.get_members_name: qemu and lxc members that are not templates. *)
MemberNames(p) ==
  NamesOf(SetToSortSeq({i \in VmIds : cluster[i].pool = p /\ cluster[i].template # 1}, <))

FilterRequested == rangeSet /\ ~returnAll

(* valid_vmids: the range pool's members of type qemu or lxc.             *)
PoolMembersQemuOnly == {i \in VmIds : cluster[i].pool = RangeId /\ cluster[i].type = "qemu"}
PoolMembers == {i \in VmIds : cluster[i].pool = RangeId}

(* node_hostvars: the names of this node's qemu then lxc VMs.             *)
NodeQueueAll(q, x) == AddKeys(AddKeys(hvOrder, q), x)
NodeQueue(q, x) == AddKeys(AddKeys(<<>>, q), x)

(* qemu_agent_info raised on the first call and again on the retry.       *)
AgentFails(v) == v.type = "qemu" /\ v.agent = "down"

(* The groups of results, each keeping only the hosts left in all.hosts   *)
(* and dropped when none is left.                                          *)
FilteredGroupsUnchanged(keep) == groups
FilteredGroups(keep) ==
  LET valid(g) == SelectSeq(groups[g], LAMBDA h : h \in keep)
  IN  [g \in {g \in DOMAIN groups : valid(g) # <<>>} |-> valid(g)]

(* The groups one VM joins in the VM loop (l. 504-532): those its notes   *)
(* name, 'running' when its status is running, and its OS id, which a     *)
(* qemu VM gets from its agent, or, without one, when it is running.      *)
VMOsId(v) ==
  IF v.type = "qemu" /\ (v.agent \in {"ok", "flaky"} \/ v.running) THEN v.os ELSE NoOs
VMGroupsQemuNotes(v) ==   \* mutant: the notes block indented under `if type == 'qemu'`
  (IF v.type = "qemu" THEN v.notes.groups ELSE {})
    \cup (IF v.running THEN {"running"} ELSE {})
    \cup (IF VMOsId(v) # NoOs THEN {VMOsId(v)} ELSE {})
VMGroups(v) ==
  v.notes.groups \cup (IF v.running THEN {"running"} ELSE {})
          \cup (IF VMOsId(v) # NoOs THEN {VMOsId(v)} ELSE {})

(* Only a running qemu VM can have a guest agent that answers.            *)
Possible(v) == v.agent # "none" => v.type = "qemu" /\ v.running

-----------------------------------------------------------------------------
Init ==
  /\ cluster \in {c \in [VmIds -> VMKinds] : \A i \in VmIds : Possible(c[i])}
  /\ nodeState \in [PNodes -> NodeAnswer]
  /\ rangeSet \in BOOLEAN
  /\ returnAll \in BOOLEAN
  /\ phase = "pool"
  /\ validVmids = {}
  /\ ni = 1
  /\ queue = <<>>
  /\ allHosts = <<>>
  /\ hvOrder = <<>>
  /\ hostvars = [h \in {} |-> <<>>]
  /\ groups = [g \in {} |-> <<>>]
  /\ pi = 1

(* `if range_id and not return_all_ranges`: read the range pool's members *)
(* of type qemu or lxc.  An HTTPError (no such pool) is swallowed.        *)
LookupPool ==
  /\ phase = "pool"
  /\ phase' = "nodes"
  /\ \/ FilterRequested
        /\ validVmids' = PoolMembers
     \/ FilterRequested /\ UNCHANGED validVmids    \* pool() raised HTTPError
     \/ ~FilterRequested /\ UNCHANGED validVmids
  /\ UNCHANGED <<cluster, nodeState, rangeSet, returnAll, ni, queue, allHosts,
                 hvOrder, hostvars, groups, pi>>

(* One iteration of `for node in proxmox_api.nodes().get_names()` up to   *)
(* the loop over its VMs: list qemu then lxc, add the listed names to     *)
(* all.hosts and every VM's variables to hostvars.                        *)
ListNode ==
  /\ phase = "nodes"
  /\ ni <= Len(NodeOrder)
  /\ LET n == NodeOrder[ni]
         q == OnNode(n, "qemu")
         x == OnNode(n, "lxc")
     IN \/ nodeState[n] = "unavailable"     \* error.code 595/596: continue
           /\ ni' = ni + 1
           /\ UNCHANGED <<phase, queue, allHosts, hvOrder, hostvars>>
        \/ nodeState[n] = "error"           \* re-raised: the listing fails
           /\ phase' = "failed"
           /\ UNCHANGED <<ni, queue, allHosts, hvOrder, hostvars>>
        \/ nodeState[n] = "ok"
           /\ allHosts' = allHosts \o ListedNames(q) \o ListedNames(x)
           /\ hostvars' = UpdateVars(UpdateVars(hostvars, q), x)
           /\ hvOrder' = AddKeys(AddKeys(hvOrder, q), x)
           /\ queue' = NodeQueue(q, x)
           /\ phase' = "vms"
           /\ UNCHANGED ni
  /\ UNCHANGED <<cluster, nodeState, rangeSet, returnAll, validVmids, groups, pi>>

(* The node loop is over: go on to the pools.                              *)
EndNodes ==
  /\ phase = "nodes"
  /\ ni > Len(NodeOrder)
  /\ phase' = "pools"
  /\ UNCHANGED <<cluster, nodeState, rangeSet, returnAll, validVmids, ni,
                 queue, allHosts, hvOrder, hostvars, groups, pi>>

(* One iteration of `for vm in node_hostvars`: the VM is the one whose     *)
(* variables hostvars holds under that name.  A qemu VM asks its guest    *)
(* agent (qemu_agent_info, retried once after an exception); without an   *)
(* agent a running VM takes its OS id from the range config.  Then the    *)
(* VM joins its notes groups, 'running' and its OS-id group, unless its   *)
(* description parsed to something other than a mapping.                  *)
ProcessVM ==
  /\ phase = "vms"
  /\ queue # <<>>
  /\ LET h == Head(queue)
         v == cluster[hostvars[h].vmid]
         G == VMGroups(v)
     IN \/ AgentFails(v)   \* the retry raised again
           /\ phase' = "failed"
           /\ UNCHANGED <<queue, groups>>
        \/ ~AgentFails(v) /\ v.notes.shape = "other"
           /\ phase' = "failed"
           /\ UNCHANGED <<queue, groups>>
        \/ ~AgentFails(v) /\ v.notes.shape = "mapping"
           /\ groups' = AddToGroups(groups, G, h)
           /\ queue' = Tail(queue)
           /\ UNCHANGED phase
  /\ UNCHANGED <<cluster, nodeState, rangeSet, returnAll, validVmids, ni,
                 allHosts, hvOrder, hostvars, pi>>

(* The node's VMs are done: next node.                                     *)
EndNodeStuck ==
  /\ phase = "vms" /\ queue = <<>> /\ phase' = "nodes"
  /\ UNCHANGED <<cluster, nodeState, rangeSet, returnAll, validVmids, ni, queue,
                 allHosts, hvOrder, hostvars, groups, pi>>
EndNodeSkip ==
  /\ phase = "vms" /\ queue = <<>> /\ phase' = "nodes" /\ ni' = ni + 2
  /\ UNCHANGED <<cluster, nodeState, rangeSet, returnAll, validVmids, queue,
                 allHosts, hvOrder, hostvars, groups, pi>>
EndNode ==
  /\ phase = "vms"
  /\ queue = <<>>
  /\ phase' = "nodes"
  /\ ni' = ni + 1
  /\ UNCHANGED <<cluster, nodeState, rangeSet, returnAll, validVmids, queue,
                 allHosts, hvOrder, hostvars, groups, pi>>

(* `for pool in proxmox_api.pools().get_names()`: the pool's group is     *)
(* (re)set to its members' names, whatever group had that name.           *)
AddPoolGroup ==
  /\ phase = "pools"
  /\ pi <= Len(PoolOrder)
  /\ groups' = (PoolOrder[pi] :> MemberNames(PoolOrder[pi])) @@ groups
  /\ pi' = pi + 1
  /\ UNCHANGED <<cluster, nodeState, rangeSet, returnAll, phase, validVmids,
                 ni, queue, allHosts, hvOrder, hostvars>>

(* `if not return_all_ranges and range_id and valid_vmids`: keep the      *)
(* hostvars whose proxmox_vmid is valid, rebuild all.hosts from them, and *)
(* keep each group's valid hosts, dropping groups left empty.             *)
FilterRange ==
  /\ phase = "pools"
  /\ pi > Len(PoolOrder)
  /\ phase' = "done"
  /\ \/ FilterRequested /\ validVmids # {}
        /\ LET keep == {h \in DOMAIN hostvars : hostvars[h].vmid \in validVmids}
           IN /\ hostvars' = [h \in keep |-> hostvars[h]]
              /\ allHosts' = SelectSeq(hvOrder, LAMBDA h : h \in keep)
              /\ hvOrder' = SelectSeq(hvOrder, LAMBDA h : h \in keep)
              /\ groups' = FilteredGroups(keep)
     \/ ~(FilterRequested /\ validVmids # {})
        /\ UNCHANGED <<hostvars, allHosts, hvOrder, groups>>
  /\ UNCHANGED <<cluster, nodeState, rangeSet, returnAll, validVmids, ni,
                 queue, pi>>

Next ==
  \/ LookupPool
  \/ ListNode
  \/ EndNodes
  \/ ProcessVM
  \/ EndNode
  \/ AddPoolGroup
  \/ FilterRange

Spec == Init /\ [][Next]_vars /\ WF_vars(Next)

-----------------------------------------------------------------------------
(* Properties.                                                             *)

Listed(seq) == ToSet(seq)
GroupHosts == UNION {Listed(groups[g]) : g \in DOMAIN groups}
Answering == {i \in VmIds : nodeState[cluster[i].node] = "ok"}
TemplateIds == {i \in VmIds : cluster[i].template = 1}

TypeOK ==
  /\ phase \in {"pool", "nodes", "vms", "pools", "done", "failed"}
  /\ validVmids \subseteq VmIds
  /\ ni \in 1..Len(NodeOrder) + 1 /\ pi \in 1..Len(PoolOrder) + 1
  /\ queue \in Seq(Names) /\ allHosts \in Seq(Names) /\ hvOrder \in Seq(Names)
  /\ DOMAIN hostvars \subseteq Names
  /\ \A h \in DOMAIN hostvars :
       hostvars[h] \in [vmid : VmIds, type : {"qemu", "lxc"}, running : BOOLEAN]
  /\ \A g \in DOMAIN groups : groups[g] \in Seq(Names)

(* When the range's pool was found, main_list lists every VM of that pool  *)
(* that is not a template and sits on a node that answered, under its own *)
(* vmid, and the final range filter (l. 541-571) keeps it in hostvars and *)
(* in all.hosts.                                                           *)
RangeCompleteness ==
  phase = "done" /\ FilterRequested /\ validVmids # {} =>
    \A i \in Answering \ TemplateIds :
      cluster[i].pool = RangeId =>
        /\ VMName[i] \in DOMAIN hostvars
        /\ hostvars[VMName[i]].vmid = i
        /\ VMName[i] \in Listed(allHosts)

(* When the pool was found, the filtered listing holds no VM of another   *)
(* range: every host of all.hosts, of hostvars and of every group is a    *)
(* member of the range's pool.                                             *)
IsolatedWhenPoolFound ==
  phase = "done" /\ FilterRequested /\ validVmids # {} =>
    \A h \in Listed(allHosts) \cup DOMAIN hostvars \cup GroupHosts :
      \E i \in VmIds : VMName[i] = h /\ cluster[i].pool = RangeId

(* The VM loop handles each VM of a node once, so no group built from it  *)
(* ('running', the notes groups, the OS-id groups) lists a host twice.    *)
NoDuplicateGroupHosts ==
  \A g \in DOMAIN groups : Len(groups[g]) = Cardinality(Listed(groups[g]))

(* With LUDUS_RANGE_ID set and all ranges not requested, the listing     *)
(* holds only VMs of the range's pool; the code's comment says a missing *)
(* pool gives empty results (l. 408-409).                                 *)
RangeIsolation ==
  phase = "done" /\ FilterRequested =>
    \A h \in Listed(allHosts) \cup DOMAIN hostvars \cup GroupHosts :
      \E i \in VmIds : VMName[i] = h /\ cluster[i].pool = RangeId

(* get_names leaves templates out of all.hosts (l. 82): no template VM is *)
(* ever listed in all.hosts.                                               *)
TemplatesNeverListed ==
  phase = "done" => \A i \in TemplateIds : VMName[i] \notin Listed(allHosts)

(* The header comment (l. 21-26): the "groups" key of a VM's notes JSON   *)
(* specifies its group membership.  Every listed VM is in each group its  *)
(* notes name when main_list returns.  The pool loop (l. 537-541) resets *)
(* a group of a pool's name, so this holds only while no pool is named    *)
(* like a notes group.                                                     *)
NotesGroupsHonoured ==
  phase = "done" =>
    \A i \in Answering :
      VMName[i] \in DOMAIN hostvars =>
        \A g \in cluster[i].notes.groups :
          g \in DOMAIN groups /\ VMName[i] \in Listed(groups[g])

(* main_list always ends: with the inventory or with an exception.        *)
Terminates == <>(phase \in {"done", "failed"})
=============================================================================
