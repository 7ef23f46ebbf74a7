-------------------------- MODULE DependencyGraph ---------------------------
(***************************************************************************)
(* graph/graph.go and graph/topological_sort.go: the component graph and   *)
(* the depth-first search that yields the construction order or a cycle.   *)
(* Component IDs are numbers, ordered as the code orders the ID strings.   *)
(* visit's recursion is the explicit stack; todo[n] is what is left of the *)
(* loop over g.edges[n].                                                   *)
(***************************************************************************)
EXTENDS Integers, Sequences

VARIABLES
  nodes, edges,   \* g.nodes and g.edges (as a set per node; the loops sort)
  search,         \* "off", "visiting", "ordered" or "cycle"
  color, stack, order, todo,
  path            \* Cycle.Path

searchVars == <<color, stack, order, todo>>
graphVars == <<nodes, edges, search, searchVars, path>>

Elements(s) == {s[i] : i \in 1..Len(s)}

Top == stack[Len(stack)]

IsLeast(x, S) == x \in S /\ \A y \in S : x <= y

GraphInit ==
  /\ nodes = {} /\ edges = <<>> /\ search = "off"
  /\ color = <<>> /\ stack = <<>> /\ order = <<>> /\ todo = <<>>
  /\ path = <<>>

-----------------------------------------------------------------------------
(* Plausible bugs (the manifest's mutants).                                *)

\* A node is appended to the order when it is first seen.
EnterPreorder(n) ==
  /\ color' = [color EXCEPT ![n] = "gray"]
  /\ stack' = Append(stack, n)
  /\ order' = Append(order, n)

\* The reported path misses the node the back edge points to.
CyclePathShort(s, start) ==
  LET i == CHOOSE k \in 1..Len(s) : s[k] = start
  IN SubSeq(s, i + 1, Len(s))

-----------------------------------------------------------------------------
\* Build: unknown and self dependencies and duplicates are dropped.
Build(components, dependsOn) ==
  /\ nodes' = components
  /\ edges' = [n \in components |-> {d \in dependsOn[n] : d \in components /\ d # n}]
  /\ search' = "visiting"
  /\ color' = [n \in components |-> "white"]
  /\ stack' = <<>>
  /\ order' = <<>>
  /\ todo' = edges'
  /\ path' = <<>>

Enter(n) ==
  /\ color' = [color EXCEPT ![n] = "gray"]
  /\ stack' = Append(stack, n)
  /\ UNCHANGED order

\* The outer loop: the next unvisited node in sorted order.
VisitRoot(n) ==
  /\ search = "visiting" /\ stack = <<>>
  /\ IsLeast(n, {m \in nodes : color[m] = "white"})
  /\ Enter(n)
  /\ UNCHANGED <<nodes, edges, search, todo, path>>

\* visit's loop over the sorted dependencies.
NextDep(d) ==
  /\ search = "visiting" /\ stack # <<>>
  /\ IsLeast(d, todo[Top])
  /\ todo' = [todo EXCEPT ![Top] = @ \ {d}]

VisitDep(d) ==
  /\ NextDep(d) /\ color[d] = "white"
  /\ Enter(d)
  /\ UNCHANGED <<nodes, edges, search, path>>

SkipDep(d) ==
  /\ NextDep(d) /\ color[d] = "black"
  /\ UNCHANGED <<nodes, edges, search, color, stack, order, path>>

cycleFromStack(s, start) ==
  LET i == CHOOSE k \in 1..Len(s) : s[k] = start
  IN SubSeq(s, i, Len(s))

BackEdge(d) ==
  /\ NextDep(d) /\ color[d] = "gray"
  /\ search' = "cycle"
  /\ path' = cycleFromStack(stack, d)
  /\ UNCHANGED <<nodes, edges, color, stack, order>>

Leave ==
  /\ search = "visiting" /\ stack # <<>>
  /\ todo[Top] = {}
  /\ color' = [color EXCEPT ![Top] = "black"]
  /\ order' = Append(order, Top)
  /\ stack' = SubSeq(stack, 1, Len(stack) - 1)
  /\ UNCHANGED <<nodes, edges, search, todo, path>>

AllVisited == \A n \in nodes : color[n] # "white"

Ordered ==
  /\ search = "visiting" /\ stack = <<>>
  /\ AllVisited
  /\ search' = "ordered"
  /\ UNCHANGED <<nodes, edges, searchVars, path>>

ConstructionOrder ==
  \/ \E n \in nodes : VisitRoot(n) \/ VisitDep(n) \/ SkipDep(n) \/ BackEdge(n)
  \/ Leave
  \/ Ordered

-----------------------------------------------------------------------------
(* Properties                                                              *)

\* "every component's dependencies precede it": at every moment of the search
\* each component in the order stands after all of its dependencies, and none
\* stands there twice; in the end every component does.
DependenciesPrecede ==
  /\ \A i \in 1..Len(order) :
       /\ \A d \in edges[order[i]] : \E j \in 1..(i - 1) : order[j] = d
       /\ \A j \in 1..(i - 1) : order[j] # order[i]
  /\ search = "ordered" => Elements(order) = nodes

\* A reported cycle is one: its components are distinct, each depends on the
\* next and the last on the first.
CycleIsGenuine ==
  search = "cycle" =>
    /\ path # <<>>
    /\ path[1] \in edges[path[Len(path)]]
    /\ \A i \in 1..(Len(path) - 1) : path[i + 1] \in edges[path[i]]
    /\ \A i, j \in 1..Len(path) : path[i] = path[j] => i = j

=============================================================================
