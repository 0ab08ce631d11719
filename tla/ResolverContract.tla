--------------------------- MODULE ResolverContract ---------------------------
(***************************************************************************)
(* What the Ansible module ludus_dependency_resolver promises, stated     *)
(* without its depth-first search.                                         *)
(*                                                                         *)
(* The module reads the `ludus` configuration one role entry at a time    *)
(* (a VM record's roles are entries tagged with the VM's name) and then    *)
(* answers once, with one of:                                              *)
(*   - ok: an order of every registered (vm_name, role_name) node in which *)
(*     each node comes after every node its last declaration depends on;  *)
(*   - cycle(n): n lies on a cycle of the dependency graph;                *)
(*   - missing(n): n is referenced by a registered node but never declared;*)
(*   - recursion: the graph has a chain longer than the interpreter's     *)
(*     recursion limit (a RecursionError caught by main's `except`);      *)
(*   - malformed: an entry lacked a key the parser reads (a KeyError).     *)
(* Which of several allowed diagnoses is returned is left open here.       *)
(***************************************************************************)
EXTENDS Integers, Sequences, FiniteSets, TLC, SequencesExt

CONSTANTS
  VMs,        \* vm_name values, ranked by their string order
  Roles,      \* role names, ranked by their string order
  MaxEntries, \* bound on the number of role entries in a configuration
  MaxDeps,    \* bound on the length of one role's depends_on list
  RecLimit    \* visit() frames the interpreter allows before RecursionError

ASSUME VMs \subseteq Nat /\ Roles \subseteq Nat
ASSUME MaxEntries \in Nat /\ MaxDeps \in Nat /\ RecLimit \in Nat \ {0}

VARIABLES
  config,   \* the role entries read so far, in configuration order
  outcome   \* the module's answer; kind "none" until it answers

Node == VMs \X Roles

(* The shapes a role entry can have in the YAML configuration.             *)
StrEntries  == [kind : {"str"}, name : Roles]
DictEntries == [kind : {"dict"}, name : Roles, depends_on : BoundedSeq(Node, MaxDeps)]
OtherEntry  == [kind : {"other"}]      \* neither a string nor a mapping
Malformed   == [kind : {"malformed"}]  \* a mapping missing a key the parser reads
RoleEntry   == StrEntries \cup DictEntries \cup OtherEntry \cup Malformed
ConfigItem  == [vm : VMs, role : RoleEntry]

None      == [kind |-> "none"]
Recursion == [kind |-> "recursion"]
Rejected  == [kind |-> "malformed"]
Ok(order) == [kind |-> "ok", order |-> order]
Cycle(n)  == [kind |-> "cycle", node |-> n]
Missing(n) == [kind |-> "missing", node |-> n]
Answer == [kind : {"ok"}, order : Seq(Node)] \cup {Recursion}
            \cup [kind : {"cycle", "missing"}, node : Node]

-----------------------------------------------------------------------------
(* The graph the configuration declares: a node is registered by any str   *)
(* or dict entry naming it, and depends on what its LAST such entry lists. *)
Declares(c, i) == c[i].role.kind \in {"str", "dict"}
NodeOf(c, i) == <<c[i].vm, c[i].role.name>>
Registered(c) == {NodeOf(c, i) : i \in {j \in 1..Len(c) : Declares(c, j)}}
LastDecl(c, n) ==
  CHOOSE i \in 1..Len(c) :
    /\ Declares(c, i) /\ NodeOf(c, i) = n
    /\ \A j \in i+1..Len(c) : ~(Declares(c, j) /\ NodeOf(c, j) = n)
DeclaredDeps(c, n) ==
  LET e == c[LastDecl(c, n)].role
  IN  IF e.kind = "dict" THEN ToSet(e.depends_on) ELSE {}
DepGraph(c) ==
  [node |-> Node,
   edge |-> {<<n, d>> \in Registered(c) \X Node : d \in DeclaredDeps(c, n)}]

Closed(c)   == \A e \in DepGraph(c).edge : e[2] \in Registered(c)
(* The nodes from which a path of one or more edges leads back to them.   *)
RECURSIVE Reach(_, _)
Reach(E, S) ==   \* the nodes reachable from S by one or more edges of E
  LET T == S \cup {e[2] : e \in {f \in E : f[1] \in S}}
  IN  IF T = S THEN {e[2] : e \in {f \in E : f[1] \in S}} ELSE Reach(E, T)
CycleNodes(c) ==
  LET E == DepGraph(c).edge
  IN  {n \in Node : n \in Reach(E, {n})}
Acyclic(c)  == Registered(c) \cap CycleNodes(c) = {}
(* A chain of RecLimit distinct nodes followed by one more dependency edge:*)
(* following it needs RecLimit + 1 nested visit() calls.                   *)
LongChain(c) ==
  LET E == DepGraph(c).edge IN
  \E w \in [1..RecLimit+1 -> Node] :
    /\ \A i \in 1..RecLimit : <<w[i], w[i+1]>> \in E
    /\ \A i, j \in 1..RecLimit : w[i] = w[j] => i = j
IsDependencyOrder(c, order) ==
  /\ Len(order) = Cardinality(Registered(c))
  /\ ToSet(order) = Registered(c)
  /\ \A i \in 1..Len(order) : \A d \in DeclaredDeps(c, order[i]) :
       \E j \in 1..i-1 : order[j] = d

(* The answers the module may give for a fully read configuration.         *)
Allowed(c, o) ==
  \/ o.kind = "ok" /\ Closed(c) /\ Acyclic(c) /\ IsDependencyOrder(c, o.order)
  \/ o.kind = "cycle" /\ o.node \in Registered(c) \cap CycleNodes(c)
  \/ o.kind = "missing" /\ o.node \notin Registered(c)
       /\ \E n \in Registered(c) : o.node \in DeclaredDeps(c, n)
  \/ o.kind = "recursion" /\ LongChain(c)

-----------------------------------------------------------------------------
Init == config = <<>> /\ outcome = None

ReadEntry ==
  /\ outcome = None
  /\ Len(config) < MaxEntries
  /\ \E vm \in VMs, e \in RoleEntry \ Malformed :
       config' = Append(config, [vm |-> vm, role |-> e])
  /\ UNCHANGED outcome

RejectEntry ==
  /\ outcome = None
  /\ Len(config) < MaxEntries
  /\ \E vm \in VMs, e \in Malformed :
       config' = Append(config, [vm |-> vm, role |-> e])
  /\ outcome' = Rejected

Resolve ==
  /\ outcome = None
  /\ outcome' \in Answer
  /\ Allowed(config, outcome')
  /\ UNCHANGED config

Next == ReadEntry \/ RejectEntry \/ Resolve

Spec == Init /\ [][Next]_<<config, outcome>>
=============================================================================
