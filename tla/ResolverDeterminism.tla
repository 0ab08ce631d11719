------------------------- MODULE ResolverDeterminism -------------------------
(***************************************************************************)
(* Two runs of ludus_dependency_resolver side by side.  Run A reads any   *)
(* configuration and answers; then a configuration equivalent to A's is  *)
(* chosen and run B reads it, entry by entry, and answers.  The module's  *)
(* documentation says "The result is deterministic and consistent across *)
(* multiple runs"; the properties compare the two answers.                *)
(*                                                                         *)
(* Two equivalences are offered:                                           *)
(*   "deps":    every depends_on list replaced by a permutation of itself *)
(*              (what the sorted() call in visit() is for);                *)
(*   "entries": the role entries of a configuration without dependencies  *)
(*              in another order (VMs or roles listed differently).        *)
(***************************************************************************)
EXTENDS Integers, Sequences, TLC, SequencesExt

CONSTANTS VMs, Roles, MaxEntries, MaxDeps, RecLimit

VARIABLES
  phaseA, configA, graphA, nodesA, rootA, stackA, temporaryA, permanentA,
  resultA, outcomeA,
  phaseB, configB, graphB, nodesB, rootB, stackB, temporaryB, permanentB,
  resultB, outcomeB,
  rel,     \* "none" until B's configuration is chosen, then the equivalence
  target   \* the configuration run B reads

varsA == <<phaseA, configA, graphA, nodesA, rootA, stackA, temporaryA,
           permanentA, resultA, outcomeA>>
varsB == <<phaseB, configB, graphB, nodesB, rootB, stackB, temporaryB,
           permanentB, resultB, outcomeB>>
vars == <<varsA, varsB, rel, target>>

A == INSTANCE DepResolver WITH
       phase <- phaseA, config <- configA, graph <- graphA, nodes <- nodesA,
       root <- rootA, stack <- stackA, temporary <- temporaryA,
       permanent <- permanentA, result <- resultA, outcome <- outcomeA
B == INSTANCE DepResolver WITH
       phase <- phaseB, config <- configB, graph <- graphB, nodes <- nodesB,
       root <- rootB, stack <- stackB, temporary <- temporaryB,
       permanent <- permanentB, result <- resultB, outcome <- outcomeB

-----------------------------------------------------------------------------
(* The reorderings of a sequence s.                                       *)
Reorderings(s) == {[i \in DOMAIN s |-> s[p[i]]] : p \in Permutations(DOMAIN s)}

(* An entry with its depends_on list (if any) reordered.                   *)
DepAlternatives(x) ==
  IF x.role.kind = "dict"
  THEN {[x EXCEPT !.role.depends_on = d] : d \in Reorderings(x.role.depends_on)}
  ELSE {x}

DepPermuted(c) ==
  {t \in [DOMAIN c -> UNION {DepAlternatives(c[i]) : i \in DOMAIN c}] :
     \A i \in DOMAIN c : t[i] \in DepAlternatives(c[i])}

(* Every entry declares a role and no role declares a dependency.          *)
DependencyFree(c) ==
  \A i \in DOMAIN c :
    \/ c[i].role.kind = "str"
    \/ c[i].role.kind = "dict" /\ c[i].role.depends_on = <<>>

EntryPermuted(c) == Reorderings(c)

-----------------------------------------------------------------------------
Init == A!Init /\ B!Init /\ rel = "none" /\ target = <<>>

RunA == A!Next /\ UNCHANGED <<varsB, rel, target>>

ChooseEquivalent ==
  /\ phaseA = "done" /\ rel = "none"
  /\ \/ rel' = "deps" /\ target' \in DepPermuted(configA)
     \/ rel' = "entries" /\ DependencyFree(configA)
        /\ target' \in EntryPermuted(configA)
  /\ UNCHANGED <<varsA, varsB>>

(* Run B's parse reads the chosen configuration in order.                 *)
ReadTarget ==
  /\ Len(configB) < Len(target)
  /\ B!ParseRole(target[Len(configB) + 1].vm, target[Len(configB) + 1].role)

RunB ==
  /\ rel # "none"
  /\ \/ ReadTarget
     \/ Len(configB) = Len(target) /\ B!EndParse
     \/ B!VisitRoot \/ B!VisitNeighbor \/ B!FinishVisit \/ B!EndSort
  /\ UNCHANGED <<varsA, rel, target>>

Next == RunA \/ ChooseEquivalent \/ RunB

Spec == Init /\ [][Next]_vars

-----------------------------------------------------------------------------
(* visit() sorts each dependency list before walking it ("Sort neighbors   *)
(* for deterministic order"): the order in which a role lists its        *)
(* depends_on entries never changes the answer, be it an order, a cycle   *)
(* diagnosis naming one node, a missing dependency or a recursion error.  *)
DepOrderIrrelevant ==
  (rel = "deps" /\ phaseB = "done") => outcomeB = outcomeA

(* Spec section 8: running the resolver on configurations that list roles *)
(* or VMs in different but logically equivalent orders, in the            *)
(* dependency-free case, yields the same output order.  topological_sort  *)
(* iterates `nodes` in insertion order.                                    *)
DependencyFreeOrderIndependent ==
  (rel = "entries" /\ phaseB = "done") => outcomeB = outcomeA
=============================================================================
