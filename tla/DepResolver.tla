----------------------------- MODULE DepResolver -----------------------------
(***************************************************************************)
(* The Ansible module ludus_dependency_resolver                            *)
(* (library/ludus_role_dependency_resolver.py), step by step.              *)
(*                                                                         *)
(* parse_ludus_config reads the configuration one role entry per step     *)
(* into the OrderedDicts `nodes` and `graph`.  topological_sort then runs *)
(* its recursive visit() as an explicit stack of frames: a frame is one   *)
(* active visit(node) call with its sorted neighbour list and the index   *)
(* of the next neighbour its `for` loop visits.  Any exception ends the   *)
(* call at once and main reports it through fail_json.                     *)
(***************************************************************************)
EXTENDS Integers, Sequences, FiniteSets, TLC, SequencesExt

CONSTANTS VMs, Roles, MaxEntries, MaxDeps, RecLimit

VARIABLES
  phase,      \* "parse" | "sort" | "done"
  config,     \* the role entries parse_ludus_config has read
  graph,      \* OrderedDict graph: node -> dependency list as declared
  nodes,      \* OrderedDict nodes: its keys in first-insertion order
  root,       \* index of topological_sort's `for node in nodes` loop
  stack,      \* active visit() frames, innermost last
  temporary,  \* the set `temporary`
  permanent,  \* the set `permanent`
  result,     \* the list `result`
  outcome     \* what main reports

vars == <<phase, config, graph, nodes, root, stack, temporary, permanent,
          result, outcome>>

C == INSTANCE ResolverContract

Node == C!Node

(* Python's sorted() on (vm_name, role_name) tuples.                       *)
LexLt(a, b) == a[1] < b[1] \/ (a[1] = b[1] /\ a[2] < b[2])

Frame == [node : Node, deps : Seq(Node), next : Nat]

-----------------------------------------------------------------------------
Init ==
  /\ phase = "parse"
  /\ config = <<>>
  /\ graph = [n \in {} |-> <<>>]
  /\ nodes = <<>>
  /\ root = 1
  /\ stack = <<>>
  /\ temporary = {}
  /\ permanent = {}
  /\ result = <<>>
  /\ outcome = C!None

(* Mutant: a first-write-wins registration (graph.setdefault).            *)
RegisterFirstWins(n, deps) ==
  /\ nodes' = IF n \in ToSet(nodes) THEN nodes ELSE Append(nodes, n)
  /\ graph' = graph @@ (n :> deps)

(* Mutant: a branch that fills graph but forgets nodes[...] = True.       *)
RegisterGraphOnly(n, deps) ==
  /\ nodes' = nodes
  /\ graph' = (n :> deps) @@ graph

(* nodes[(vm_name, role_name)] = True; graph[...] = [] + the appends: an   *)
(* existing key keeps its position and its dependency list is replaced.    *)
Register(n, deps) ==
  /\ nodes' = IF n \in ToSet(nodes) THEN nodes ELSE Append(nodes, n)
  /\ graph' = (n :> deps) @@ graph

(* One iteration of `for role in roles` for the VM record named vm.        *)
ParseRole(vm, e) ==
  /\ phase = "parse"
  /\ Len(config) < MaxEntries
  /\ config' = Append(config, [vm |-> vm, role |-> e])
  /\ \/ e.kind = "str" /\ Register(<<vm, e.name>>, <<>>)
                       /\ UNCHANGED <<phase, outcome>>
     \/ e.kind = "dict" /\ Register(<<vm, e.name>>, e.depends_on)
                        /\ UNCHANGED <<phase, outcome>>
     \/ e.kind = "other" /\ UNCHANGED <<graph, nodes, phase, outcome>>
     \/ e.kind = "malformed" /\ phase' = "done" /\ outcome' = C!Rejected
                             /\ UNCHANGED <<graph, nodes>>
  /\ UNCHANGED <<root, stack, temporary, permanent, result>>

(* The configuration ends; main calls topological_sort(graph, nodes).      *)
EndParse ==
  /\ phase = "parse"
  /\ phase' = "sort"
  /\ UNCHANGED <<config, graph, nodes, root, stack, temporary, permanent,
                 result, outcome>>

(* An exception propagates out of topological_sort to main.                *)
Abort(o) ==
  /\ phase' = "done"
  /\ outcome' = o
  /\ UNCHANGED <<stack, temporary, permanent, result>>

(* Mutant: visit() returns on a node in `temporary` instead of raising.    *)
VisitSkippingTemporary(n, st) ==
  \/ /\ Len(st) >= RecLimit
     /\ Abort(C!Recursion)
  \/ /\ Len(st) < RecLimit
     /\ n \in permanent \cup temporary
     /\ stack' = st
     /\ UNCHANGED <<phase, outcome, temporary, permanent, result>>
  \/ /\ Len(st) < RecLimit
     /\ n \notin permanent \cup temporary
     /\ n \notin DOMAIN graph
     /\ Abort(C!Missing(n))
  \/ /\ Len(st) < RecLimit
     /\ n \notin permanent \cup temporary
     /\ n \in DOMAIN graph
     /\ temporary' = temporary \cup {n}
     /\ stack' = Append(st, [node |-> n, deps |-> SortSeq(graph[n], LexLt),
                             next |-> 1])
     /\ UNCHANGED <<phase, outcome, permanent, result>>

(* Mutant: visit() walks graph[node] in declaration order, without the     *)
(* sorted() call.                                                          *)
VisitUnsorted(n, st) ==
  \/ /\ Len(st) >= RecLimit
     /\ Abort(C!Recursion)
  \/ /\ Len(st) < RecLimit
     /\ n \in permanent
     /\ stack' = st
     /\ UNCHANGED <<phase, outcome, temporary, permanent, result>>
  \/ /\ Len(st) < RecLimit
     /\ n \notin permanent /\ n \in temporary
     /\ Abort(C!Cycle(n))
  \/ /\ Len(st) < RecLimit
     /\ n \notin permanent \cup temporary
     /\ n \notin DOMAIN graph
     /\ Abort(C!Missing(n))
  \/ /\ Len(st) < RecLimit
     /\ n \notin permanent \cup temporary
     /\ n \in DOMAIN graph
     /\ temporary' = temporary \cup {n}
     /\ stack' = Append(st, [node |-> n, deps |-> graph[n], next |-> 1])
     /\ UNCHANGED <<phase, outcome, permanent, result>>

(* A call visit(n) made while the frames st are active.                    *)
Visit(n, st) ==
  \/ /\ Len(st) >= RecLimit
     /\ Abort(C!Recursion)
  \/ /\ Len(st) < RecLimit
     /\ n \in permanent
     /\ stack' = st
     /\ UNCHANGED <<phase, outcome, temporary, permanent, result>>
  \/ /\ Len(st) < RecLimit
     /\ n \notin permanent /\ n \in temporary
     /\ Abort(C!Cycle(n))
  \/ /\ Len(st) < RecLimit
     /\ n \notin permanent \cup temporary
     /\ n \notin DOMAIN graph    \* graph[node] raises KeyError in visit(n)
     /\ Abort(C!Missing(n))
  \/ /\ Len(st) < RecLimit
     /\ n \notin permanent \cup temporary
     /\ n \in DOMAIN graph
     /\ temporary' = temporary \cup {n}
     /\ stack' = Append(st, [node |-> n, deps |-> SortSeq(graph[n], LexLt),
                             next |-> 1])
     /\ UNCHANGED <<phase, outcome, permanent, result>>

(* `for node in nodes: if node not in permanent: visit(node)`              *)
VisitRoot ==
  /\ phase = "sort"
  /\ stack = <<>>
  /\ root <= Len(nodes)
  /\ root' = root + 1
  /\ \/ nodes[root] \in permanent
        /\ UNCHANGED <<phase, outcome, stack, temporary, permanent, result>>
     \/ nodes[root] \notin permanent /\ Visit(nodes[root], <<>>)
  /\ UNCHANGED <<config, graph, nodes>>

(* Mutant: an explicit-stack frame that does not advance its index.        *)
VisitNeighborNoAdvance ==
  /\ phase = "sort"
  /\ stack # <<>>
  /\ LET top == Len(stack) IN
       /\ stack[top].next <= Len(stack[top].deps)
       /\ Visit(stack[top].deps[stack[top].next], stack)
  /\ UNCHANGED <<config, graph, nodes, root>>

(* The innermost visit() calls visit(neighbor) for its next neighbour.     *)
VisitNeighbor ==
  /\ phase = "sort"
  /\ stack # <<>>
  /\ LET top == Len(stack) IN
       /\ stack[top].next <= Len(stack[top].deps)
       /\ Visit(stack[top].deps[stack[top].next],
                [stack EXCEPT ![top].next = @ + 1])
  /\ UNCHANGED <<config, graph, nodes, root>>

(* The innermost visit() has visited every neighbour: it moves its node   *)
(* from temporary to permanent, appends it to result and returns.         *)
FinishVisit ==
  /\ phase = "sort"
  /\ stack # <<>>
  /\ LET f == stack[Len(stack)] IN
       /\ f.next > Len(f.deps)
       /\ temporary' = temporary \ {f.node}
       /\ permanent' = permanent \cup {f.node}
       /\ result' = Append(result, f.node)
  /\ stack' = Front(stack)
  /\ UNCHANGED <<phase, config, graph, nodes, root, outcome>>

(* topological_sort returns result; main exits with order = result.        *)
EndSort ==
  /\ phase = "sort"
  /\ stack = <<>>
  /\ root > Len(nodes)
  /\ phase' = "done"
  /\ outcome' = C!Ok(result)
  /\ UNCHANGED <<config, graph, nodes, root, stack, temporary, permanent,
                 result>>

Next ==
  \/ \E vm \in VMs, e \in C!RoleEntry : ParseRole(vm, e)
  \/ EndParse
  \/ VisitRoot
  \/ VisitNeighbor
  \/ FinishVisit
  \/ EndSort

Spec == Init /\ [][Next]_vars /\ WF_vars(Next)

-----------------------------------------------------------------------------
TypeOK ==
  /\ phase \in {"parse", "sort", "done"}
  /\ config \in Seq(C!ConfigItem) /\ Len(config) <= MaxEntries
  /\ DOMAIN graph \subseteq Node
  /\ \A n \in DOMAIN graph : graph[n] \in Seq(Node) /\ Len(graph[n]) <= MaxDeps
  /\ ToSet(nodes) = DOMAIN graph
  /\ root \in 1..Len(nodes) + 1
  /\ stack \in Seq(Frame)
  /\ temporary \subseteq Node /\ permanent \subseteq Node
  /\ result \in Seq(Node)

(* Post-order emission: at every point of topological_sort, `result` holds *)
(* each node once and only after every node its dependency list names.    *)
(* A visit() that returned early on a node still in `temporary` would     *)
(* emit a dependent before its dependency.                                 *)
OrderRespectsDeps ==
  /\ \A i, j \in 1..Len(result) : result[i] = result[j] => i = j
  /\ \A i \in 1..Len(result) : \A d \in ToSet(graph[result[i]]) :
       \E j \in 1..i-1 : result[j] = d

(* The module's run, seen through its answer, is a run of the contract:   *)
(* the parsed graph is the last-write-wins graph of the configuration, an *)
(* order respects it, and every diagnosis names a real cycle node or a    *)
(* really undeclared dependency.                                           *)
AbsOutcome == IF phase = "done" THEN outcome ELSE C!None
Contract == INSTANCE ResolverContract WITH outcome <- AbsOutcome
ImplementsContract == Contract!Spec

(* Spec 4.2 step 3 and section 8: a dependency on a node that is never    *)
(* declared fails with "Dependency not found" naming the node that        *)
(* DECLARED the reference (vm1:roleA depending on vm9:roleZ names        *)
(* vm1:roleA).  visit() reports the node whose graph lookup failed.       *)
MissingNamesDeclarer ==
  outcome.kind = "missing" =>
    /\ outcome.node \in DOMAIN graph
    /\ \E d \in ToSet(graph[outcome.node]) : d \notin DOMAIN graph

(* topological_sort always returns or raises: the DFS makes progress.      *)
Terminates == <>(phase = "done")
=============================================================================
