----------------------------- MODULE VersionTree -----------------------------
(***************************************************************************)
(* build_version_tree() (core/generation/service.py): the tree of a        *)
(* project's asset versions.  assets is the index in its order, parent[a]  *)
(* the parent that the record of a names, or NoParent; a parent outside    *)
(* DOMAIN parent has no record any more.                                   *)
(***************************************************************************)
EXTENDS Naturals, Sequences, FiniteSets, Functions

CONSTANT NoParent

\* The version start, its parent, the parent of that, and so on.
Chain(parent, start) ==
  LET at[n \in Nat] ==
        IF n = 0 THEN start
        ELSE LET v == at[n - 1] IN IF v \in DOMAIN parent THEN parent[v] ELSE NoParent
  IN at

\* _has_cycle(): the chain of parents comes to a version it has passed.
HasCycle(parent, start) ==
  LET at == Chain(parent, start) IN
  \E i, j \in 0..Cardinality(DOMAIN parent) : i < j /\ at[i] = at[j] /\ at[i] \in DOMAIN parent

CutOff(parent, a) == parent[a] # NoParent /\ HasCycle(parent, parent[a])

\* The first versions of the index; one whose chain of parents has a cycle is a root.
BuildVersionTree(assets, parent, cap) ==
  LET shown == Range(SubSeq(assets, 1, IF cap < Len(assets) THEN cap ELSE Len(assets))) IN
  [nodes |-> [a \in shown |->
      [parent |-> IF CutOff(parent, a) THEN NoParent ELSE parent[a],
       orphaned |-> parent[a] # NoParent /\ parent[a] \notin DOMAIN parent]],
   cycleDetected |-> \E a \in shown : CutOff(parent, a),
   capped |-> Len(assets) > cap]

-----------------------------------------------------------------------------
\* The versions a version comes from, whatever records there are.
Ancestors(parent, a) ==
  {Chain(parent, a)[n] : n \in 1..Cardinality(DOMAIN parent) + 1} \ {NoParent}

OnLoop(parent, a) == a \in Ancestors(parent, a)

TreeIsExact(assets, parent, cap) ==
  LET tree == BuildVersionTree(assets, parent, cap)
      shownParent == [a \in DOMAIN tree.nodes |-> tree.nodes[a].parent] IN
  /\ \A a \in DOMAIN shownParent :
       /\ ~OnLoop(shownParent, a)
       /\ tree.nodes[a].parent # parent[a] => \E b \in Ancestors(parent, a) : OnLoop(parent, b)
       /\ tree.nodes[a].orphaned =>
            /\ Ancestors(parent, a) = {parent[a]}
            /\ tree.nodes[a].parent = parent[a]
  /\ ~tree.capped => /\ DOMAIN tree.nodes = DOMAIN parent
                     /\ tree.cycleDetected <=> \E a \in DOMAIN parent : OnLoop(parent, a)
=============================================================================
