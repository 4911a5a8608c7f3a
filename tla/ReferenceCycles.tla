--------------------------- MODULE ReferenceCycles ---------------------------
(***************************************************************************)
(* detect_cycles() (core/project/cross_project.py) over the references     *)
(* between projects: graph[p] is the set of projects that the references   *)
(* of p name (collect_project_refs(), parse_reference()), and a project    *)
(* outside DOMAIN graph has no directory.                                  *)
(***************************************************************************)
EXTENDS Naturals, Sequences, FiniteSets, Functions

\* The projects that the references of p name, besides p itself.
Followed(graph, p) == IF p \in DOMAIN graph THEN graph[p] \ {p} ELSE {}

\* (mutant) The other references of the project count as visited.
VisitedAndNext(graph, visited, p) == visited \cup {p} \cup graph[p]

VisitedFrom(graph, visited, p) == visited \cup {p}

\* The calls that detect_cycles() makes of itself from p, by how deep they are nested:
\* each for a project that none of the calls around the one that makes it is for.
Calls(graph, p) ==
  LET level[n \in Nat] ==
        IF n = 0 THEN {[project |-> p, visited |-> {}, path |-> <<p>>]}
        ELSE UNION {{[project |-> q, visited |-> VisitedFrom(graph, c.visited, c.project),
                      path |-> Append(c.path, q)] : q \in Followed(graph, c.project) \ c.visited}
                    : c \in level[n - 1]}
  IN level

\* The paths that end where they, or the project they started from, were before.
Cycles(graph, p) ==
  LET calls == UNION {Calls(graph, p)[n] : n \in 0..Cardinality(DOMAIN graph)} IN
  UNION {{Append(c.path, q) : q \in Followed(graph, c.project) \cap c.visited} : c \in calls}

-----------------------------------------------------------------------------
\* The projects that the references of p lead to, in one step or more.
ReachableFrom(graph, p) ==
  LET grow[n \in Nat] == IF n = 0 THEN Followed(graph, p)
                         ELSE LET near == grow[n - 1] IN
                              near \cup UNION {Followed(graph, q) : q \in near} IN
  grow[Cardinality(DOMAIN graph)]

IsWalk(graph, path) == \A i \in 1..Len(path) - 1 : path[i + 1] \in Followed(graph, path[i])

\* The calls end, every path they report comes back to where it was, the project itself
\* ends one when it is on a loop, and every project on a loop that the references lead to
\* is on one.
CyclesAreExact(graph, p) ==
  p \in DOMAIN graph =>
    /\ Calls(graph, p)[Cardinality(DOMAIN graph) + 1] = {}
    /\ \A path \in Cycles(graph, p) :
         /\ path[1] = p /\ IsWalk(graph, path)
         /\ \E i \in 1..Len(path) - 1 : path[i] = path[Len(path)]
    /\ p \in ReachableFrom(graph, p) =>
         \E path \in Cycles(graph, p) : path[Len(path)] = p
    /\ \A q \in ReachableFrom(graph, p) \cap DOMAIN graph : q \in ReachableFrom(graph, q) =>
         \E path \in Cycles(graph, p) : q \in Range(path)
=============================================================================
