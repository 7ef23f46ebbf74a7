--------------------------- MODULE PipelineProofs ---------------------------
(***************************************************************************)
(* What goboot generate promises for every catalogue, every plugin and     *)
(* every source tree: the construction order is topological and a reported *)
(* cycle is one; the conditions of every kept component hold and nothing   *)
(* bypasses a proxy; plugins can neither shadow a core annotation nor stop *)
(* each other; after an error nothing is written; and the wiring that is   *)
(* generated is sound.                                                     *)
(***************************************************************************)
EXTENDS Pipeline, FiniteSetTheorems, SequenceTheorems, WellFoundedInduction, TLAPS

-----------------------------------------------------------------------------
(* Induction, for the loops that are recursive functions: a least element  *)
(* outside of a set that is closed under successors cannot exist.          *)

LEMMA Induction ==
  ASSUME NEW S, 0 \in S, \A n \in Nat : n \in S => n + 1 \in S
  PROVE  Nat \subseteq S
<1> DEFINE Rest == Nat \ S
<1> DEFINE Less == OpToRel(<, Nat)
<1>1. IsWellFoundedOn(Less, Nat)
  BY NatLessThanWellFounded, Zenon
<1>2. \A x \in Nat : <<x, x + 1>> \in Less
  BY SMT DEF OpToRel
<1> HIDE DEF Less
<1> SUFFICES ASSUME Rest # {} PROVE FALSE
  OBVIOUS
<1>3. PICK x \in Rest : \A y \in Rest : <<y, x>> \notin Less
  <2>1. Rest \subseteq Nat
    OBVIOUS
  <2> HIDE DEF Rest
  <2> QED
    BY <1>1, <2>1, WFMin, Zenon
<1>4. x \in Nat /\ x # 0 /\ x - 1 \in Nat /\ (x - 1) + 1 = x
  OBVIOUS
<1>5. <<x - 1, x>> \in Less
  BY <1>2, <1>4
<1>6. x - 1 \in S
  BY <1>3, <1>4, <1>5
<1> QED
  BY <1>4, <1>6

\* ... and up to a bound.
LEMMA UpTo ==
  ASSUME NEW m \in Nat, NEW S, 0 \in S, \A n \in 1..m : n - 1 \in S => n \in S
  PROVE  m \in S
<1> DEFINE T == S \cup {n \in Nat : n > m}
<1>1. 0 \in T
  OBVIOUS
<1>2. \A n \in Nat : n \in T => n + 1 \in T
  OBVIOUS
<1> HIDE DEF T
<1>3. Nat \subseteq T
  BY <1>1, <1>2, Induction
<1> QED
  BY <1>3 DEF T

-----------------------------------------------------------------------------
(* A step that is none of the phases: the end, a crash, or a stutter.      *)

Rests == UNCHANGED <<source, analysisVars, graphVars, ran, wiring, files>>

LEMMA Steps ==
  ASSUME [Next]_vars
  PROVE  \/ RegisterAnnotations \/ Analyze \/ HostAnalyze \/ GenerateWiring \/ HostGenerate
         \/ Rests /\ (UNCHANGED crashed \/ Crash)
BY Zenon DEF Next, Crash, Done, vars, Rests

-----------------------------------------------------------------------------
(* The order.                                                              *)

On(n) == \E i \in 1..Len(stack) : stack[i] = n
InOrder(n) == \E i \in 1..Len(order) : order[i] = n

\* The search works on the built graph.
GraphTypeOK ==
  /\ search \in {"off", "visiting", "ordered", "cycle"}
  /\ edges \in [nodes -> SUBSET nodes]
  /\ color \in [nodes -> {"white", "gray", "black"}]
  /\ todo \in [nodes -> SUBSET nodes]
  /\ stack \in Seq(nodes) /\ order \in Seq(nodes)
  /\ \A n \in nodes : /\ todo[n] \subseteq edges[n]
                      /\ color[n] = "white" => todo[n] = edges[n]

\* Colours say where a node is: gray ones are on the stack, black ones ordered.
ColorInv ==
  \A n \in nodes : /\ color[n] = "gray" <=> On(n)
                   /\ color[n] = "black" <=> InOrder(n)

\* The stack is a path of edges without a repetition.
StackInv ==
  /\ \A i, j \in 1..Len(stack) : stack[i] = stack[j] => i = j
  /\ \A i \in 1..(Len(stack) - 1) : stack[i + 1] \in edges[stack[i]]

\* An edge that the loop of a gray node has taken leads to a finished node, or to
\* the node that stands on the stack right above.
TakenInv ==
  search # "cycle" =>
    \A i \in 1..Len(stack) : \A d \in edges[stack[i]] \ todo[stack[i]] :
      color[d] = "black" \/ (i < Len(stack) /\ stack[i + 1] = d)

GraphInv ==
  /\ GraphTypeOK /\ ColorInv /\ StackInv /\ TakenInv
  /\ DependenciesPrecede /\ CycleIsGenuine

LEMMA InitGraphInv == GraphInit => GraphInv
<1> SUFFICES ASSUME GraphInit PROVE GraphInv
  OBVIOUS
<1> USE DEF GraphInit
<1>1. GraphTypeOK
  BY DEF GraphTypeOK
<1>2. ColorInv /\ StackInv /\ TakenInv
  BY DEF ColorInv, StackInv, TakenInv
<1>3. DependenciesPrecede /\ CycleIsGenuine
  BY DEF DependenciesPrecede, CycleIsGenuine
<1>4. QED
  BY <1>1, <1>2, <1>3 DEF GraphInv

\* Whatever the edges, a graph that was just built is in order.
LEMMA BuildGraphInv ==
  ASSUME NEW C, NEW D, Build(C, D)
  PROVE  GraphInv'
<1> USE DEF Build
<1>1. GraphTypeOK'
  BY DEF GraphTypeOK
<1>2. ColorInv' /\ StackInv' /\ TakenInv'
  BY DEF ColorInv, StackInv, TakenInv, On, InOrder
<1>3. DependenciesPrecede' /\ CycleIsGenuine'
  BY DEF DependenciesPrecede, CycleIsGenuine
<1>4. QED
  BY <1>1, <1>2, <1>3 DEF GraphInv

\* What is left of the loops when the one of top has taken d.
LEMMA TakeEdge ==
  ASSUME NEW N, NEW t \in [N -> SUBSET N], NEW top \in N, NEW d,
         NEW u, u = [t EXCEPT ![top] = @ \ {d}]
  PROVE  /\ u \in [N -> SUBSET N]
         /\ \A m \in N : /\ t[m] \ {d} \subseteq u[m] /\ u[m] \subseteq t[m]
                         /\ m # top => u[m] = t[m]
OBVIOUS

\* A stack without its top.
LEMMA DropLast ==
  ASSUME NEW S, NEW s \in Seq(S), Len(s) > 0
  PROVE  LET t == SubSeq(s, 1, Len(s) - 1)
         IN /\ t \in Seq(S) /\ Len(t) = Len(s) - 1
            /\ \A i \in 1..(Len(s) - 1) : t[i] = s[i]
<1> DEFINE n == Len(s) - 1
<1>1. n \in Nat /\ \A i \in 1..n : s[i] \in S
  OBVIOUS
<1> HIDE DEF n
<1>2. /\ SubSeq(s, 1, n) \in Seq(S)
      /\ Len(SubSeq(s, 1, n)) = n
      /\ \A i \in 1..n : SubSeq(s, 1, n)[i] = s[i]
  BY <1>1, SubSeqProperties
<1>3. QED
  BY <1>2 DEF n

\* A step that keeps the order and the cycle keeps what they promise.
LEMMA OrderKept ==
  ASSUME DependenciesPrecede, CycleIsGenuine, UNCHANGED <<nodes, edges, search, order, path>>
  PROVE  DependenciesPrecede' /\ CycleIsGenuine'
BY DEF DependenciesPrecede, CycleIsGenuine, Elements

\* A white node n is pushed: from the outer loop, or by an edge of the top node.
LEMMA EnterGraphInv ==
  ASSUME GraphInv, search = "visiting", NEW n \in nodes, color[n] = "white", Enter(n),
         UNCHANGED <<nodes, edges, search, path>>,
         \/ stack = <<>> /\ todo' = todo
         \/ /\ stack # <<>> /\ n \in todo[Top]
            /\ todo' = [todo EXCEPT ![Top] = @ \ {n}]
  PROVE  GraphInv'
<1> USE DEF Enter, GraphInv, Top
<1>1. /\ Len(stack) \in Nat /\ Len(stack') = Len(stack) + 1
      /\ stack'[Len(stack')] = n
      /\ \A i \in 1..Len(stack) : stack'[i] = stack[i] /\ stack[i] \in nodes
  BY DEF GraphTypeOK
<1>2. stack # <<>> => Len(stack) > 0 /\ Top \in nodes /\ color[Top] = "gray"
  BY <1>1 DEF GraphTypeOK, ColorInv, On
<1>3. GraphTypeOK'
  <2>1. stack' \in Seq(nodes) /\ color' \in [nodes -> {"white", "gray", "black"}]
    BY DEF GraphTypeOK
  <2>2. CASE stack = <<>>
    <3>1. todo' = todo
      BY <2>2
    <3>2. QED
      BY <2>1, <3>1 DEF GraphTypeOK
  <2>3. CASE stack # <<>>
    <3>1. todo' = [todo EXCEPT ![Top] = @ \ {n}] /\ todo \in [nodes -> SUBSET nodes]
      BY <2>3 DEF GraphTypeOK
    <3>2. /\ todo' \in [nodes -> SUBSET nodes]
          /\ \A m \in nodes : todo'[m] \subseteq todo[m] /\ (m # Top => todo'[m] = todo[m])
      BY <1>2, <2>3, <3>1, TakeEdge
    <3>3. QED
      BY <1>2, <2>1, <2>3, <3>2 DEF GraphTypeOK
  <2>4. QED
    BY <2>2, <2>3
<1>4. ~On(n) /\ ~InOrder(n)
  BY DEF ColorInv
<1>5. ColorInv'
  BY <1>1, <1>4 DEF ColorInv, GraphTypeOK, On, InOrder
<1>6. StackInv'
  <2>1. \A i, j \in 1..Len(stack') : stack'[i] = stack'[j] => i = j
    BY <1>1, <1>4 DEF StackInv, On
  <2>2. stack # <<>> => n \in edges[Top]
    BY <1>2 DEF GraphTypeOK
  <2>3. ASSUME NEW i \in 1..(Len(stack') - 1)
        PROVE  stack'[i + 1] \in edges[stack'[i]]
    BY <1>1, <2>2 DEF StackInv
  <2>4. QED
    BY <2>1, <2>3 DEF StackInv
<1>7. TakenInv'
  <2> SUFFICES ASSUME NEW i \in 1..Len(stack'), NEW d \in edges[stack'[i]] \ todo'[stack'[i]]
               PROVE  color'[d] = "black" \/ (i < Len(stack') /\ stack'[i + 1] = d)
    BY DEF TakenInv
  <2>1. CASE i = Len(stack')
    <3>1. stack # <<>> => Top # n
      BY <1>1, <1>4 DEF On
    <3>2. todo'[n] = todo[n]
      BY <3>1, <1>2 DEF GraphTypeOK
    <3>3. stack'[i] = n /\ todo'[n] = edges[n]
      BY <2>1, <3>2, <1>1 DEF GraphTypeOK
    <3>4. QED
      BY <3>3
  <2>2. CASE i = Len(stack) /\ d = n
    BY <2>2, <1>1
  <2>3. CASE i \in 1..Len(stack) /\ ~(i = Len(stack) /\ d = n)
    BY <2>3, <1>1, <1>2, <1>4 DEF TakenInv, StackInv, GraphTypeOK, On
  <2>4. QED
    BY <1>1, <2>1, <2>2, <2>3
<1>8. DependenciesPrecede' /\ CycleIsGenuine'
  BY DEF DependenciesPrecede, CycleIsGenuine, GraphTypeOK
<1>9. QED
  BY <1>3, <1>5, <1>6, <1>7, <1>8

\* The loop goes past an edge to a finished node.
LEMMA SkipDepGraphInv ==
  ASSUME GraphInv, NEW d \in nodes, SkipDep(d)
  PROVE  GraphInv'
<1> USE DEF SkipDep, NextDep, IsLeast, GraphInv, Top
<1>1. Len(stack) > 0 /\ Top \in nodes /\ color[Top] = "gray"
  BY DEF GraphTypeOK, ColorInv, On
<1>2. /\ todo' \in [nodes -> SUBSET nodes]
      /\ \A m \in nodes : /\ todo[m] \ {d} \subseteq todo'[m] /\ todo'[m] \subseteq todo[m]
                         /\ m # Top => todo'[m] = todo[m]
  BY <1>1, TakeEdge DEF GraphTypeOK
<1>3. GraphTypeOK'
  BY <1>1, <1>2 DEF GraphTypeOK
<1>4. ColorInv' /\ StackInv'
  BY DEF ColorInv, StackInv, On, InOrder
<1>5. TakenInv'
  BY <1>2 DEF TakenInv, GraphTypeOK
<1>6. DependenciesPrecede' /\ CycleIsGenuine'
  BY OrderKept
<1>7. QED
  BY <1>3, <1>4, <1>5, <1>6

\* From the place of start to the top, the stack is a cycle if the top has an edge
\* to start.
LEMMA CycleFromStack ==
  ASSUME GraphTypeOK, StackInv, NEW start \in nodes, On(start), start \in edges[Top]
  PROVE  LET p == cycleFromStack(stack, start)
         IN /\ p # <<>>
            /\ p[1] \in edges[p[Len(p)]]
            /\ \A i \in 1..(Len(p) - 1) : p[i + 1] \in edges[p[i]]
            /\ \A i, j \in 1..Len(p) : p[i] = p[j] => i = j
<1> DEFINE k == CHOOSE i \in 1..Len(stack) : stack[i] = start
<1> DEFINE p == cycleFromStack(stack, start)
<1>1. k \in 1..Len(stack) /\ stack[k] = start
  BY DEF On
<1>2. p = SubSeq(stack, k, Len(stack))
  BY DEF cycleFromStack
<1> HIDE DEF k
<1>3. /\ Len(p) = Len(stack) - k + 1
      /\ \A i \in 1..Len(p) : p[i] = stack[k + i - 1]
  BY <1>1, <1>2, SubSeqProperties DEF GraphTypeOK
<1> HIDE DEF p
<1>4. p # <<>> /\ p[1] \in edges[p[Len(p)]]
  BY <1>1, <1>3 DEF Top, GraphTypeOK
<1>5. ASSUME NEW i \in 1..(Len(p) - 1)
      PROVE  p[i + 1] \in edges[p[i]]
  <2>1. k + i - 1 \in 1..(Len(stack) - 1) /\ i + 1 \in 1..Len(p) /\ i \in 1..Len(p)
    BY <1>1, <1>3 DEF GraphTypeOK
  <2>2. p[i] = stack[k + i - 1] /\ p[i + 1] = stack[k + i - 1 + 1]
    BY <1>1, <1>3, <2>1 DEF GraphTypeOK
  <2>3. QED
    BY <2>1, <2>2 DEF StackInv
<1>6. ASSUME NEW i \in 1..Len(p), NEW j \in 1..Len(p), p[i] = p[j]
      PROVE  i = j
  <2>1. k + i - 1 \in 1..Len(stack) /\ k + j - 1 \in 1..Len(stack)
    BY <1>1, <1>3 DEF GraphTypeOK
  <2>2. stack[k + i - 1] = stack[k + j - 1]
    BY <1>3, <1>6
  <2>3. k + i - 1 = k + j - 1
    BY <2>1, <2>2 DEF StackInv
  <2> QED
    BY <1>1, <2>3
<1>7. QED
  BY <1>4, <1>5, <1>6 DEF p

\* An edge back to the stack ends the search.
LEMMA BackEdgeGraphInv ==
  ASSUME GraphInv, NEW d \in nodes, BackEdge(d)
  PROVE  GraphInv'
<1> USE DEF BackEdge, NextDep, IsLeast, GraphInv
<1>1. Len(stack) > 0 /\ Top \in nodes /\ color[Top] = "gray" /\ d \in edges[Top]
  BY DEF GraphTypeOK, ColorInv, On, Top
<1>2. /\ todo' \in [nodes -> SUBSET nodes]
      /\ \A m \in nodes : todo'[m] \subseteq todo[m] /\ (m # Top => todo'[m] = todo[m])
  BY <1>1, TakeEdge DEF GraphTypeOK
<1>3. GraphTypeOK'
  BY <1>1, <1>2 DEF GraphTypeOK
<1>4. ColorInv' /\ StackInv' /\ TakenInv'
  BY DEF ColorInv, StackInv, TakenInv, On, InOrder
<1>5. CycleIsGenuine'
  BY <1>1, CycleFromStack DEF CycleIsGenuine, ColorInv
<1>6. DependenciesPrecede'
  BY DEF DependenciesPrecede, Elements
<1>7. QED
  BY <1>3, <1>4, <1>5, <1>6

\* The top node has no edge left: it is finished, and all its dependencies were.
LEMMA LeaveGraphInv ==
  ASSUME GraphInv, Leave
  PROVE  GraphInv'
<1> DEFINE len == Len(stack)
           n == stack[len]
<1> USE DEF Leave, GraphInv, Top
<1>1. len \in Nat \ {0} /\ n \in nodes /\ color[n] = "gray"
  BY DEF GraphTypeOK, ColorInv, On
<1>2. /\ stack' \in Seq(nodes) /\ Len(stack') = len - 1
      /\ \A i \in 1..(len - 1) : stack'[i] = stack[i]
  BY <1>1, DropLast DEF GraphTypeOK
<1>3. /\ order' \in Seq(nodes) /\ Len(order) \in Nat /\ Len(order') = Len(order) + 1
      /\ order'[Len(order')] = n
      /\ \A i \in 1..Len(order) : order'[i] = order[i] /\ order[i] \in nodes
  BY <1>1 DEF GraphTypeOK
<1>4. color' \in [nodes -> {"white", "gray", "black"}] /\ color'[n] = "black"
      /\ \A m \in nodes \ {n} : color'[m] = color[m]
  BY <1>1 DEF GraphTypeOK
<1> HIDE DEF n, len
<1>5. GraphTypeOK'
  BY <1>1, <1>2, <1>3, <1>4 DEF GraphTypeOK
<1>6. \A i \in 1..(len - 1) : stack[i] # n
  BY <1>1 DEF StackInv, n, len
<1>7. ColorInv'
  <2> SUFFICES ASSUME NEW m \in nodes
               PROVE  /\ color'[m] = "gray" <=> \E i \in 1..Len(stack') : stack'[i] = m
                      /\ color'[m] = "black" <=> \E i \in 1..Len(order') : order'[i] = m
    BY DEF ColorInv, On, InOrder
  <2>1. color'[m] = "gray" <=> \E i \in 1..Len(stack') : stack'[i] = m
    BY <1>1, <1>2, <1>4, <1>6 DEF ColorInv, On, n, len
  <2>2. color'[m] = "black" <=> \E i \in 1..Len(order') : order'[i] = m
    BY <1>1, <1>3, <1>4 DEF ColorInv, InOrder
  <2>3. QED
    BY <2>1, <2>2
<1>8. StackInv'
  <2>1. \A i, j \in 1..Len(stack') : stack'[i] = stack'[j] => i = j
    BY <1>1, <1>2 DEF StackInv, len
  <2>2. ASSUME NEW i \in 1..(Len(stack') - 1)
        PROVE  stack'[i + 1] \in edges[stack'[i]]
    <3>1. i \in 1..(Len(stack) - 1) /\ i \in 1..(len - 1) /\ i + 1 \in 1..(len - 1)
      BY <1>1, <1>2 DEF len
    <3>2. QED
      BY <1>2, <3>1 DEF StackInv
  <2>3. QED
    BY <2>1, <2>2 DEF StackInv
<1>9. TakenInv'
  BY <1>1, <1>2, <1>4 DEF TakenInv, StackInv, GraphTypeOK, len, n
<1>10. DependenciesPrecede'
  <2>1. \A d \in edges[n] : color[d] = "black" /\ d \in nodes
    <3>1. todo[n] = {} /\ len \in 1..Len(stack) /\ edges[n] \subseteq nodes
      BY <1>1 DEF GraphTypeOK, n, len
    <3>2. QED
      BY <1>1, <3>1 DEF TakenInv, n, len
  <2>2. \A d \in edges[n] : \E j \in 1..Len(order) : order[j] = d
    BY <2>1 DEF ColorInv, InOrder
  <2>3. \A j \in 1..Len(order) : order[j] # n
    BY <1>1 DEF ColorInv, InOrder
  <2>4. ASSUME NEW i \in 1..Len(order')
        PROVE  /\ \A d \in edges[order'[i]] : \E j \in 1..(i - 1) : order'[j] = d
               /\ \A j \in 1..(i - 1) : order'[j] # order'[i]
    <3>1. CASE i = Len(order')
      BY <1>3, <2>2, <2>3, <3>1
    <3>2. CASE i \in 1..Len(order)
      <4>1. order'[i] = order[i] /\ \A j \in 1..(i - 1) : order'[j] = order[j]
        BY <1>3, <3>2
      <4>2. /\ \A d \in edges[order[i]] : \E j \in 1..(i - 1) : order[j] = d
            /\ \A j \in 1..(i - 1) : order[j] # order[i]
        BY <3>2 DEF DependenciesPrecede
      <4>3. QED
        BY <4>1, <4>2
    <3>3. i = Len(order') \/ i \in 1..Len(order)
      BY <1>3
    <3>4. QED
      BY <3>1, <3>2, <3>3
  <2>5. QED
    BY <2>4 DEF DependenciesPrecede
<1>11. CycleIsGenuine'
  BY DEF CycleIsGenuine
<1>12. QED
  BY <1>5, <1>7, <1>8, <1>9, <1>10, <1>11

\* With no white node and an empty stack, every node is finished.
LEMMA OrderedGraphInv ==
  ASSUME GraphInv, Ordered
  PROVE  GraphInv'
<1> USE DEF Ordered, AllVisited, GraphInv, searchVars
<1>1. GraphTypeOK' /\ ColorInv' /\ StackInv' /\ TakenInv'
  BY DEF GraphTypeOK, ColorInv, StackInv, TakenInv, On, InOrder
<1>2. \A n \in nodes : InOrder(n)
  BY DEF GraphTypeOK, ColorInv, On
<1>3. DependenciesPrecede'
  <2>1. Elements(order) = nodes
    BY <1>2 DEF InOrder, Elements, GraphTypeOK
  <2>2. QED
    BY <2>1 DEF DependenciesPrecede, Elements
<1>4. CycleIsGenuine'
  BY DEF CycleIsGenuine
<1>5. QED
  BY <1>1, <1>3, <1>4

LEMMA SearchGraphInv ==
  ASSUME GraphInv, ConstructionOrder
  PROVE  GraphInv'
<1>1. ASSUME NEW n \in nodes, VisitRoot(n)
      PROVE  GraphInv'
  BY <1>1, EnterGraphInv DEF VisitRoot, IsLeast
<1>2. ASSUME NEW n \in nodes, VisitDep(n)
      PROVE  GraphInv'
  BY <1>2, EnterGraphInv DEF VisitDep, NextDep, IsLeast
<1>3. QED
  BY <1>1, <1>2, SkipDepGraphInv, BackEdgeGraphInv, LeaveGraphInv, OrderedGraphInv
  DEF ConstructionOrder

LEMMA GraphInvKept ==
  ASSUME GraphInv, UNCHANGED graphVars
  PROVE  GraphInv'
<1> USE DEF GraphInv, graphVars, searchVars
<1>1. GraphTypeOK' /\ ColorInv' /\ StackInv' /\ TakenInv'
  BY DEF GraphTypeOK, ColorInv, StackInv, TakenInv, On, InOrder
<1>2. QED
  BY <1>1, OrderKept

\* The other phases leave the graph alone; BuildGraph begins the search whatever
\* the dependencies are that they have resolved.
LEMMA NextGraphInv == GraphInv /\ [Next]_vars => GraphInv'
<1> SUFFICES ASSUME GraphInv, [Next]_vars
             PROVE  GraphInv'
  OBVIOUS
<1>1. CASE AnalyzeWith
  <2>1. CASE BuildGraph
    BY <2>1, BuildGraphInv DEF BuildGraph
  <2>2. CASE SearchStep
    BY <2>2, SearchGraphInv DEF SearchStep
  <2>3. CASE ~BuildGraph /\ ~SearchStep
    <3>1. UNCHANGED graphVars
      BY <1>1, <2>3, Zenon
      DEF AnalyzeWith, Scan, Discover, FilterByProfile, NutRound, DiscoverProxies, Resolve,
          DiscoverRoutes, DiscoverExceptionHandlers, DiscoverLifecycle, DiscoverScheduled,
          DiscoverRepositories, ReportCycle, Phase
    <3>2. QED
      BY <3>1, GraphInvKept
  <2>4. QED
    BY <2>1, <2>2, <2>3
<1>2. CASE ~AnalyzeWith
  <2>1. UNCHANGED graphVars
    BY <1>2, Steps DEF Analyze, RegisterAnnotations, HostAnalyze, GenerateWiring, HostGenerate, Rests
  <2>2. QED
    BY <2>1, GraphInvKept
<1>3. QED
  BY <1>1, <1>2

LEMMA GraphInvariant == Spec => []GraphInv
<1>1. Init => GraphInv
  BY InitGraphInv DEF Init, AnalysisInit
<1>2. QED
  BY <1>1, NextGraphInv, PTL DEF Spec

\* DependenciesPrecede: the construction order of every source tree is
\* topological, and complete when the search ends without a cycle.
THEOREM OrderTopological == Spec => []DependenciesPrecede
<1>1. GraphInv => DependenciesPrecede
  BY DEF GraphInv
<1>2. QED
  BY <1>1, GraphInvariant, PTL

\* CycleIsGenuine: the cycle of a diagnostic is one in the component graph.
THEOREM CycleReported == Spec => []CycleIsGenuine
<1>1. GraphInv => CycleIsGenuine
  BY DEF GraphInv
<1>2. QED
  BY <1>1, GraphInvariant, PTL

-----------------------------------------------------------------------------
(* Selection and binding.                                                  *)

Fields == {"name", "kind", "provides", "build", "deps", "returnsError", "primary", "implements",
           "conditions", "proxied", "target", "intercepted", "handlers", "post", "pre",
           "scheduled", "queries"}

\* As discovery leaves a component: no proxy, and nothing is bound yet.
Fresh(x) ==
  /\ DOMAIN x = Fields /\ x.kind # "proxy" /\ x.proxied = FALSE
  /\ \A i \in DOMAIN x.deps : DOMAIN x.deps[i] = {"type", "to"} /\ x.deps[i].to = None

LEMMA ComponentFresh ==
  ASSUME NEW d, NEW name, NEW kind, NEW provides, NEW build, NEW params, NEW deps, kind # "proxy",
         deps = <<>> \/ deps = paramsToDeps(params)
  PROVE  Fresh(Component(d, name, kind, provides, build, deps))
<1>1. \A i \in DOMAIN deps : DOMAIN deps[i] = {"type", "to"} /\ deps[i].to = None
  BY DEF paramsToDeps
<1> QED
  BY <1>1 DEF Component, Fresh, Fields

LEMMA AtInAt == \A id, c : \A x \in At(id, c) : x.component = c
BY DEF At

LEMMA FreshChanged ==
  ASSUME NEW x, Fresh(x), NEW v
  PROVE  /\ Fresh([x EXCEPT !.implements = v])
         /\ Fresh([x EXCEPT !.primary = v])
         /\ Fresh([x EXCEPT !.returnsError = v])
BY DEF Fresh, Fields

LEMMA ConstructedFresh ==
  ASSUME NEW d, NEW name, NEW kind, kind # "proxy", NEW sig
  PROVE  Fresh(Constructed(d, name, kind, sig))
<1> DEFINE x == Component(d, name, kind, sig.results[1], "call", paramsToDeps(sig.params))
<1>1. Fresh(x)
  BY ComponentFresh
<1> HIDE DEF x
<1>2. Fresh([[x EXCEPT !.returnsError = Len(sig.results) = 2] EXCEPT !.primary = Has(d, "Primary")])
  BY <1>1, FreshChanged
<1>3. [[x EXCEPT !.returnsError = Len(sig.results) = 2] EXCEPT !.primary = Has(d, "Primary")]
      = Constructed(d, name, kind, sig)
  BY DEF Constructed, x
<1> QED
  BY <1>2, <1>3

LEMMA KindsAreNotProxies == \A d : The(componentKindOf(d), "") # "proxy"
<1> SUFFICES ASSUME NEW d PROVE The(componentKindOf(d), "") # "proxy"
  BY Zenon
<1>1. \A i \in DOMAIN componentKind : componentKind[i][2] # "proxy"
  BY DEF componentKind
<1>2. \A k \in componentKindOf(d) : k # "proxy"
  BY <1>1 DEF componentKindOf
<1> QED
  BY <1>2 DEF The

LEMMA DiscoverFresh == \A d : \A x \in discover(d).components : Fresh(x.component)
<1> SUFFICES ASSUME NEW d, NEW x \in discover(d).components PROVE Fresh(x.component)
  OBVIOUS
<1> DEFINE kind == The(componentKindOf(d), "")
<1>0. \A cs, codes : Found(cs, codes).components = cs
  BY DEF Found
<1>1. ASSUME x \in discoverNut(d).components
      PROVE  Fresh(x.component)
  <2> DEFINE nut == The(stringArg(d, "Nut", "name"), "")
             id == IF nut = "" THEN ComponentID[d.name] ELSE ComponentID[d.name \o "#" \o nut]
             name == IF nut = "" THEN d.name ELSE nut
  <2>1. discoverNut(d) = IF validConstructor(d.sig)
                         THEN Found(At(id, Constructed(d, name, "nut", d.sig)), {})
                         ELSE Found({}, {"GOBDI004"})
    BY Zenon DEF discoverNut
  <2> HIDE DEF id, name
  <2>2. x \in At(id, Constructed(d, name, "nut", d.sig))
    BY <1>0, <1>1, <2>1
  <2> QED
    BY <2>2, ConstructedFresh, AtInAt
<1>2. ASSUME x \in discoverRepositoryInterface(d).components
      PROVE  Fresh(x.component)
  <2>1. \E id, name : x \in At(id, Component(d, name, "repository", d.name, "repository", <<>>))
    BY <1>0, <1>2 DEF discoverRepositoryInterface
  <2>2. \A name : Fresh(Component(d, name, "repository", d.name, "repository", <<>>))
    BY ComponentFresh
  <2> QED
    BY <2>1, <2>2, AtInAt
<1>3. ASSUME x \in discoverConfigProperties(d).components
      PROVE  Fresh(x.component)
  <2>1. \E id : x \in At(id, Component(d, d.name, "config", d.name, "config", <<>>))
    BY <1>0, <1>3 DEF discoverConfigProperties
  <2>2. Fresh(Component(d, d.name, "config", d.name, "config", <<>>))
    BY ComponentFresh
  <2> QED
    BY <2>1, <2>2, AtInAt
<1>4. ASSUME x \in discoverComponent(d, kind).components
      PROVE  Fresh(x.component)
  <2>0. kind # "proxy"
    BY KindsAreNotProxies, Zenon
  <2> HIDE DEF kind
  <2> DEFINE built == Constructed(d, componentName(d), kind, The(d.ctor, {}))
             literal == Component(d, componentName(d), kind, PointerTo(d.name), "literal", <<>>)
             empty == [literal EXCEPT !.primary = Has(d, "Primary")]
  <2>1. Fresh(built)
    BY <2>0, ConstructedFresh
  <2>2. Fresh(literal)
    BY <2>0, ComponentFresh
  <2>3. Fresh(empty)
    <3> HIDE DEF literal
    <3> QED
      BY <2>2, FreshChanged
  <2> HIDE DEF literal
  <2>4. \E id, v : \/ x \in At(id, [built EXCEPT !.implements = v])
                   \/ x \in At(id, [empty EXCEPT !.implements = v])
    <3> DEFINE interface == IF kind = "service"
                            THEN stringArg(d, "Service", "implements") \cap Interfaces ELSE {}
               v == The(interface, NoType)
    <3>1. \/ x \in At(ComponentID[d.name], [built EXCEPT !.implements = v])
          \/ x \in At(ComponentID[d.name], [empty EXCEPT !.implements = v])
      <4> HIDE DEF v
      <4> QED
        BY <1>0, <1>4 DEF discoverComponent, v, literal
    <3> QED
      BY <3>1, Zenon
  <2> HIDE DEF built, empty
  <2>5. PICK v : x.component = [built EXCEPT !.implements = v] \/ x.component = [empty EXCEPT !.implements = v]
    BY <2>4, AtInAt
  <2>6. Fresh([built EXCEPT !.implements = v]) /\ Fresh([empty EXCEPT !.implements = v])
    BY <2>1, <2>3, FreshChanged
  <2> QED
    BY <2>5, <2>6
<1> QED
  BY <1>0, <1>1, <1>2, <1>3, <1>4, Zenon DEF discover

LEMMA DiscoveredFresh == \A ds : \A id \in DOMAIN Discovered(ds) : Fresh(Discovered(ds)[id])
<1> SUFFICES ASSUME NEW ds, NEW id \in DOMAIN Discovered(ds) PROVE Fresh(Discovered(ds)[id])
  OBVIOUS
<1> DEFINE all == UNION {discover(d).components : d \in Range(ds)}
           found == CHOOSE x \in all : x.id = id
<1>1. Discovered(ds)[id] = found.component /\ \E x \in all : x.id = id
  BY DEF Discovered
<1>2. found \in all
  BY <1>1
<1>3. \A x \in all : Fresh(x.component)
  BY DiscoverFresh
<1> QED
  BY <1>1, <1>2, <1>3

\* Declarations keep their places in the scan.
LEMMA DeclarationsPlaced ==
  ASSUME NEW family \in DOMAIN Sources, NEW s \in Sources[family]
  PROVE  /\ DOMAIN scanned(s.decls) \subseteq DOMAIN s.decls /\ DOMAIN s.decls \subseteq Nat
         /\ \A i \in DOMAIN scanned(s.decls) :
              scanned(s.decls)[i].anns = ParseComment(s.decls[i].comment).anns
<1>1. s.decls \in Seq(ToSet(s.decls))
  BY SourcesAssumption, Zenon
<1>2. DOMAIN s.decls \subseteq Nat
  BY <1>1
<1> QED
  BY <1>2, Zenon DEF scanned

\* Ranks are even: the number after one is free for a proxy.
LEMMA RanksAreEven ==
  ASSUME NEW family \in DOMAIN Sources, NEW s \in Sources[family]
  PROVE  \A id \in DOMAIN Discovered(scanned(s.decls)) : id \in Nat /\ id % 2 = 0
BY SourcesAssumption, ComponentAssumption, Zenon

-----------------------------------------------------------------------------
(* The invariant of the phases.                                            *)

Early == phase \in {"plugins", "scan", "discover"}

SourceInv ==
  /\ \E family \in DOMAIN Sources : source \in Sources[family]
  /\ phase = "discover" => decls = scanned(source.decls)

\* Until the proxies are built there are none, nothing is bound, and every second
\* number is free.
FreshInv ==
  phase \in {"profiles", "nuts", "proxies"} =>
    \A c \in components : c \in Nat /\ c % 2 = 0 /\ Fresh(app[c])

\* A component that fails a profile or a property is dropped before the rounds.
FilteredInv ==
  phase = "nuts" => \A c \in components : profileActive(c) /\ propertiesHold(c)

ShapeInv ==
  Selected => \A n \in components :
    /\ n \in Nat /\ DOMAIN app[n] = Fields
    /\ \A i \in DOMAIN app[n].deps : DOMAIN app[n].deps[i] = {"type", "to"}

\* Before dependencies are resolved, proxies alone are bound, to their targets.
UnresolvedInv ==
  phase = "resolve" =>
    \A n \in components : \A i \in DOMAIN app[n].deps :
      app[n].deps[i].to # None => n = Proxy(app[n].deps[i].to)

AppInv ==
  /\ SourceInv /\ FreshInv /\ FilteredInv /\ ShapeInv /\ UnresolvedInv
  /\ KeptConditionsHold /\ ProxiesNotBypassed

\* What selection and binding read of a component stays.
Carried(n) ==
  /\ DOMAIN app'[n] = DOMAIN app[n]
  /\ app'[n].kind = app[n].kind /\ app'[n].name = app[n].name
  /\ app'[n].provides = app[n].provides /\ app'[n].conditions = app[n].conditions
  /\ app'[n].proxied = app[n].proxied

\* A component that only grows in other fields meets its conditions as before.
LEMMA ConditionsCarried ==
  ASSUME KeptConditionsHold, Selected, source' = source, components' = components,
         \A n \in components : Carried(n)
  PROVE  KeptConditionsHold'
<1>1. \A n \in components :
        /\ IsProxy(n)' <=> IsProxy(n)
        /\ profileActive(n)' <=> profileActive(n)
        /\ propertiesHold(n)' <=> propertiesHold(n)
  BY Zenon DEF IsProxy, profileActive, propertiesHold, Holds, Carried
<1> DEFINE kept == {c \in components : ~IsProxy(c)}
<1>2. {c \in components' : ~IsProxy(c)'} = kept
  BY <1>1
<1>3. ASSUME NEW S \in SUBSET components, NEW c \in S
      PROVE  nutConditionsHold(c, S)' <=> nutConditionsHold(c, S)
  BY DEF nutConditionsHold, typeProvided, Carried
<1>4. PICK S \in SUBSET components : S = kept
  OBVIOUS
<1>5. \A c \in S : nutConditionsHold(c, S)'
  BY <1>3, <1>4 DEF KeptConditionsHold
<1>6. \A c \in S : profileActive(c)' /\ propertiesHold(c)'
  BY <1>1, <1>4 DEF KeptConditionsHold
<1>7. {c \in components' : ~IsProxy(c)'} = S
  BY <1>2, <1>4
<1> QED
  BY <1>5, <1>6, <1>7 DEF KeptConditionsHold

-----------------------------------------------------------------------------
(* The phases, one lemma each.                                             *)

Outside == phase \notin {"plugins", "scan", "discover", "profiles", "nuts", "proxies", "resolve"}

LEMMA InitAppInv == Init => AppInv
BY DEF Init, AnalysisInit, AppInv, SourceInv, FreshInv, FilteredInv, ShapeInv, UnresolvedInv,
       KeptConditionsHold, ProxiesNotBypassed, Selected, Bound

LEMMA EarlyKeeps ==
  ASSUME AppInv, RegisterAnnotations \/ Scan
  PROVE  AppInv'
BY DEF RegisterAnnotations, Scan, AppInv, SourceInv, FreshInv, FilteredInv, ShapeInv, UnresolvedInv,
       KeptConditionsHold, ProxiesNotBypassed, Selected, Bound

LEMMA DiscoverKeeps ==
  ASSUME AppInv, Discover
  PROVE  AppInv'
<1>1. /\ phase' = "profiles" /\ source' = source
      /\ app' = Discovered(scanned(source.decls))
  BY DEF Discover, AppInv, SourceInv
<1>2. \A c \in components' : c \in Nat /\ c % 2 = 0 /\ Fresh(app'[c])
  BY <1>1, DiscoveredFresh, RanksAreEven DEF AppInv, SourceInv, components
<1> QED
  BY <1>1, <1>2 DEF AppInv, SourceInv, FreshInv, FilteredInv, ShapeInv, UnresolvedInv,
                    KeptConditionsHold, ProxiesNotBypassed, Selected, Bound

LEMMA FilterKeeps ==
  ASSUME AppInv, FilterByProfile
  PROVE  AppInv'
<1> DEFINE kept == {c \in components : profileActive(c) /\ propertiesHold(c)}
<1>1. phase = "profiles" /\ phase' = "nuts" /\ source' = source /\ decls' = decls
      /\ app' = [c \in kept |-> app[c]]
  BY DEF FilterByProfile, Phase, Restrict
<1>2. components' = kept /\ \A c \in kept : app'[c] = app[c]
  BY <1>1 DEF components
<1>3. \A c \in kept : profileActive(c)' /\ propertiesHold(c)'
  BY <1>1, <1>2, Zenon DEF profileActive, propertiesHold, Holds
<1>4. FreshInv' /\ FilteredInv'
  BY <1>1, <1>2, <1>3 DEF AppInv, FreshInv, FilteredInv
<1> QED
  BY <1>1, <1>4 DEF AppInv, SourceInv, ShapeInv, UnresolvedInv, KeptConditionsHold,
                    ProxiesNotBypassed, Selected, Bound

\* The loop ends on a round that keeps every component: then the conditions that
\* have just been judged speak of the components that are kept.
LEMMA RoundKeeps ==
  ASSUME AppInv, NutRound
  PROVE  AppInv'
<1> DEFINE kept == {c \in components : nutConditionsHold(c, components)}
<1>1. phase = "nuts" /\ phase' = (IF kept = components THEN "proxies" ELSE "nuts")
      /\ source' = source /\ decls' = decls /\ app' = [c \in kept |-> app[c]]
  BY DEF NutRound, Phase, Restrict, Unchanged
<1>2. components' = kept /\ \A c \in kept : app'[c] = app[c]
  BY <1>1 DEF components
<1>3. FreshInv'
  BY <1>1, <1>2 DEF AppInv, FreshInv
<1>4. \A c \in kept : profileActive(c)' /\ propertiesHold(c)'
  BY <1>1, <1>2, Zenon DEF AppInv, FilteredInv, profileActive, propertiesHold, Holds
<1>5. CASE kept # components
  BY <1>1, <1>2, <1>3, <1>4, <1>5
     DEF AppInv, SourceInv, FilteredInv, ShapeInv, UnresolvedInv, KeptConditionsHold,
         ProxiesNotBypassed, Selected, Bound
<1>6. CASE kept = components
  <2>1. \A c \in components : nutConditionsHold(c, components)
    BY <1>6
  <2>2. PICK S \in SUBSET components : S = components
    OBVIOUS
  <2>3. \A c \in S : nutConditionsHold(c, S)'
    BY <1>2, <1>6, <2>1, <2>2 DEF nutConditionsHold, typeProvided
  <2>4. {c \in components' : ~IsProxy(c)'} = S
    BY <1>1, <1>2, <1>3, <1>6, <2>2 DEF FreshInv, Fresh, IsProxy
  <2>5. KeptConditionsHold'
    BY <1>4, <1>6, <2>2, <2>3, <2>4 DEF KeptConditionsHold
  <2>6. ShapeInv'
    BY <1>1, <1>3, <1>6 DEF FreshInv, ShapeInv, Fresh
  <2> QED
    BY <1>1, <1>3, <1>6, <2>5, <2>6
       DEF AppInv, SourceInv, FilteredInv, UnresolvedInv, ProxiesNotBypassed, Bound
<1> QED
  BY <1>5, <1>6

\* Routes, handlers, hooks, tasks and queries are attached to components; the
\* graph, the host and the generators only read them.
LEMMA AttachKeeps ==
  ASSUME AppInv, Outside, Outside', source' = source, components' = components,
         \A n \in components : Carried(n) /\ app'[n].deps = app[n].deps
  PROVE  AppInv'
<1>1. KeptConditionsHold'
  BY ConditionsCarried DEF AppInv, Outside, Selected
<1>2. ShapeInv'
  BY DEF AppInv, Outside, ShapeInv, Selected, Carried
<1>3. Proxied' = Proxied
  BY DEF Proxied, Carried
<1>4. ProxiesNotBypassed'
  BY <1>3 DEF AppInv, Outside, ProxiesNotBypassed, Bound, Selected, Proxy
<1> QED
  BY <1>1, <1>2, <1>4 DEF AppInv, Outside, SourceInv, FreshInv, FilteredInv, UnresolvedInv

\* A proxy is bound to its target and is a new component; the others change in
\* what no condition reads.
BuiltFor(p, c) ==
  /\ DOMAIN p = Fields /\ p.kind = "proxy" /\ p.proxied = FALSE /\ p.target = c
  /\ 1 \in DOMAIN p.deps
  /\ \A i \in DOMAIN p.deps : DOMAIN p.deps[i] = {"type", "to"} /\ p.deps[i].to = c

LEMMA ProxyBuilt ==
  ASSUME NEW c, NEW x, DOMAIN x = Fields, x.proxied = FALSE
  PROVE  BuiltFor(buildProxy(c, x), c)
BY DEF BuiltFor, buildProxy, Fields

LEMMA ProxiesDiscovered ==
  ASSUME AppInv, DiscoverProxies
  PROVE  /\ \A c \in components : c \in Nat /\ c % 2 = 0 /\ Fresh(app[c])
         /\ \E targets \in SUBSET components :
              /\ components' = {Proxy(c) : c \in targets} \cup components
              /\ \A c \in components :
                   /\ DOMAIN app'[c] = Fields /\ app'[c].kind = app[c].kind
                   /\ app'[c].name = app[c].name /\ app'[c].provides = app[c].provides
                   /\ app'[c].conditions = app[c].conditions /\ app'[c].deps = app[c].deps
              /\ \A c \in targets :
                   LET p == app'[Proxy(c)]
                   IN /\ Proxy(c) \in Nat /\ DOMAIN p = Fields /\ p.kind = "proxy" /\ p.target = c
                      /\ 1 \in DOMAIN p.deps
                      /\ \A i \in DOMAIN p.deps : DOMAIN p.deps[i] = {"type", "to"} /\ p.deps[i].to = c
<1> DEFINE a == WithIntercepted
           targets == Proxyable(a)
<1>1. phase = "proxies" /\ phase' = "resolve" /\ source' = source /\ decls' = decls
      /\ app' = [n \in components \cup {Proxy(c) : c \in targets} |->
                  IF n \in components THEN [a[n] EXCEPT !.proxied = n \in targets]
                  ELSE buildProxy(n - 1, a[n - 1])]
  BY DEF DiscoverProxies, Phase
<1>2. \A c \in components : c \in Nat /\ c % 2 = 0 /\ Fresh(app[c])
  BY <1>1 DEF AppInv, FreshInv
<1>3. targets \subseteq components
  BY DEF Proxyable
<1>4. \A c \in components : /\ DOMAIN a[c] = Fields /\ a[c].kind = app[c].kind
                            /\ a[c].name = app[c].name /\ a[c].provides = app[c].provides
                            /\ a[c].conditions = app[c].conditions /\ a[c].deps = app[c].deps
                            /\ a[c].proxied = FALSE
  BY <1>2 DEF WithIntercepted, Fresh, Fields
<1> HIDE DEF a, targets
<1>5. \A c \in components : \A x \in targets : Proxy(x) # c
  BY <1>2, <1>3 DEF Proxy
<1>6. components' = {Proxy(c) : c \in targets} \cup components
  BY <1>1 DEF components
<1>7. \A c \in components : app'[c] = [a[c] EXCEPT !.proxied = c \in targets]
  BY <1>1
<1>8. \A c \in targets : app'[Proxy(c)] = buildProxy(c, a[c])
  <2>1. \A c \in targets : Proxy(c) - 1 = c /\ Proxy(c) \notin components
    BY <1>2, <1>3, <1>5 DEF Proxy
  <2> QED
    BY <1>1, <2>1
<1>9. \A c \in components : /\ DOMAIN app'[c] = Fields /\ app'[c].kind = app[c].kind
                            /\ app'[c].name = app[c].name /\ app'[c].provides = app[c].provides
                            /\ app'[c].conditions = app[c].conditions /\ app'[c].deps = app[c].deps
  <2> SUFFICES ASSUME NEW c \in components
               PROVE  LET x == [a[c] EXCEPT !.proxied = c \in targets]
                      IN /\ DOMAIN x = Fields /\ x.kind = app[c].kind
                         /\ x.name = app[c].name /\ x.provides = app[c].provides
                         /\ x.conditions = app[c].conditions /\ x.deps = app[c].deps
    BY <1>7
  <2>1. DOMAIN [a[c] EXCEPT !.proxied = c \in targets] = Fields
    BY <1>4
  <2> QED
    BY <1>4, <2>1 DEF Fields
<1>10. \A c \in targets : LET p == app'[Proxy(c)]
                          IN /\ Proxy(c) \in Nat /\ DOMAIN p = Fields /\ p.kind = "proxy"
                             /\ p.target = c /\ 1 \in DOMAIN p.deps
                             /\ \A i \in DOMAIN p.deps : DOMAIN p.deps[i] = {"type", "to"}
                                                         /\ p.deps[i].to = c
  <2> TAKE c \in targets
  <2>1. Proxy(c) \in Nat /\ DOMAIN a[c] = Fields /\ a[c].proxied = FALSE
    BY <1>2, <1>3, <1>4 DEF Proxy
  <2>2. BuiltFor(buildProxy(c, a[c]), c)
    BY <2>1, ProxyBuilt
  <2>3. BuiltFor(app'[Proxy(c)], c)
    BY <1>8, <2>2
  <2> QED
    BY <2>1, <2>3 DEF BuiltFor
<1>11. targets \in SUBSET components
  BY <1>3
<1> QED
  BY <1>2, <1>6, <1>9, <1>10, <1>11, Zenon

LEMMA ProxiesKeep ==
  ASSUME AppInv, DiscoverProxies
  PROVE  AppInv'
<1>1. phase = "proxies" /\ phase' = "resolve" /\ source' = source /\ decls' = decls
  BY DEF DiscoverProxies, Phase
<1>2. \A c \in components : c \in Nat /\ c % 2 = 0 /\ Fresh(app[c])
  BY ProxiesDiscovered
<1>3. PICK targets \in SUBSET components :
        /\ components' = {Proxy(c) : c \in targets} \cup components
        /\ \A c \in components :
             /\ DOMAIN app'[c] = Fields /\ app'[c].kind = app[c].kind
             /\ app'[c].name = app[c].name /\ app'[c].provides = app[c].provides
             /\ app'[c].conditions = app[c].conditions /\ app'[c].deps = app[c].deps
        /\ \A c \in targets :
             LET p == app'[Proxy(c)]
             IN /\ Proxy(c) \in Nat /\ DOMAIN p = Fields /\ p.kind = "proxy"
                /\ \A i \in DOMAIN p.deps : DOMAIN p.deps[i] = {"type", "to"} /\ p.deps[i].to = c
  BY ProxiesDiscovered
<1>11. ShapeInv'
  BY <1>2, <1>3 DEF ShapeInv, Fresh
<1>12. UnresolvedInv'
  BY <1>2, <1>3 DEF UnresolvedInv, Fresh, Proxy
<1>13. KeptConditionsHold'
  <2>1. {c \in components : ~IsProxy(c)} = components
    BY <1>2 DEF IsProxy, Fresh
  <2>2. PICK S \in SUBSET components : S = components
    OBVIOUS
  <2>3. \A c \in S : profileActive(c) /\ propertiesHold(c) /\ nutConditionsHold(c, S)
    BY <1>1, <2>1, <2>2 DEF AppInv, KeptConditionsHold, Selected
  <2>4. \A c \in S : profileActive(c)' /\ propertiesHold(c)' /\ nutConditionsHold(c, S)'
    <3>1. \A c \in S : profileActive(c)' /\ propertiesHold(c)'
      BY <1>1, <1>3, <2>3, Zenon DEF profileActive, propertiesHold, Holds
    <3>2. \A c \in S : nutConditionsHold(c, S)'
      BY <1>3, <2>3 DEF nutConditionsHold, typeProvided
    <3> QED
      BY <3>1, <3>2
  <2>5. {c \in components' : ~IsProxy(c)'} = S
    <3>1. \A c \in components : ~IsProxy(c)'
      BY <1>2, <1>3 DEF IsProxy, Fresh
    <3>2. \A c \in targets : app'[Proxy(c)].kind = "proxy"
      BY <1>3
    <3> QED
      BY <1>3, <2>2, <3>1, <3>2 DEF IsProxy
  <2> QED
    BY <2>4, <2>5 DEF KeptConditionsHold
<1> QED
  BY <1>1, <1>11, <1>12, <1>13 DEF AppInv, SourceInv, FreshInv, FilteredInv, ProxiesNotBypassed, Bound

\* No intercepted component is a candidate.
LEMMA BindingAvoidsProxied ==
  ASSUME NEW n, NEW want, Binding(n, want) # None
  PROVE  Binding(n, want) \notin Proxied
<1>1. \A S : IsSingleton(S) => TheOnly(S) \in S
  BY DEF IsSingleton, TheOnly
<1> QED
  BY <1>1 DEF Binding, filterPrimary, resolutionCandidates

LEMMA DependencyResolved ==
  ASSUME NEW n, NEW dep, DOMAIN dep = {"type", "to"}
  PROVE  LET r == resolveDependency(n, dep)
         IN /\ DOMAIN r = {"type", "to"}
            /\ r.to = dep.to \/ r.to = None \/ r.to \notin Proxied
BY BindingAvoidsProxied DEF resolveDependency

LEMMA ResolveKeeps ==
  ASSUME AppInv, Resolve
  PROVE  AppInv'
<1>1. phase = "resolve" /\ phase' = "routes" /\ source' = source /\ decls' = decls
      /\ app' = [n \in components |->
                  [app[n] EXCEPT !.deps = [i \in DOMAIN app[n].deps |-> resolveDependency(n, app[n].deps[i])]]]
  BY DEF Resolve, Phase
<1>2. \A n \in components : /\ n \in Nat /\ DOMAIN app[n] = Fields
                            /\ \A i \in DOMAIN app[n].deps : DOMAIN app[n].deps[i] = {"type", "to"}
  BY <1>1 DEF AppInv, ShapeInv, Selected
<1>3. components' = components
  BY <1>1 DEF components
<1>4. \A n \in components : Carried(n)
        /\ app'[n].deps = [i \in DOMAIN app[n].deps |-> resolveDependency(n, app[n].deps[i])]
  BY <1>1, <1>2 DEF Carried, Fields
<1>5. KeptConditionsHold'
  BY <1>1, <1>3, <1>4, ConditionsCarried DEF AppInv, Selected
<1>6. Proxied' = Proxied
  BY <1>3, <1>4 DEF Proxied, Carried
<1>7. \A n \in components : \A i \in DOMAIN app'[n].deps :
        /\ DOMAIN app'[n].deps[i] = {"type", "to"}
        /\ app'[n].deps[i].to \in Proxied => n = Proxy(app'[n].deps[i].to)
  <2> SUFFICES ASSUME NEW n \in components, NEW i \in DOMAIN app'[n].deps
               PROVE  /\ DOMAIN app'[n].deps[i] = {"type", "to"}
                      /\ app'[n].deps[i].to \in Proxied => n = Proxy(app'[n].deps[i].to)
    OBVIOUS
  <2>1. i \in DOMAIN app[n].deps /\ app'[n].deps[i] = resolveDependency(n, app[n].deps[i])
    BY <1>4
  <2>2. None \notin Proxied
    BY <1>2 DEF Proxied, None
  <2>3. app[n].deps[i].to # None => n = Proxy(app[n].deps[i].to)
    BY <1>1, <2>1 DEF AppInv, UnresolvedInv
  <2>4. DOMAIN app[n].deps[i] = {"type", "to"}
    BY <1>2, <2>1
  <2>5. \A dep : DOMAIN dep = {"type", "to"} =>
          /\ DOMAIN resolveDependency(n, dep) = {"type", "to"}
          /\ resolveDependency(n, dep).to \in {dep.to, None} \/ resolveDependency(n, dep).to \notin Proxied
    BY DependencyResolved
  <2> QED
    BY <2>1, <2>2, <2>3, <2>4, <2>5
<1>8. ShapeInv' /\ ProxiesNotBypassed'
  BY <1>2, <1>3, <1>4, <1>6, <1>7, Zenon DEF ShapeInv, ProxiesNotBypassed, Carried, Proxy
<1> QED
  BY <1>1, <1>5, <1>8 DEF AppInv, SourceInv, FreshInv, FilteredInv, UnresolvedInv

LEMMA OtherPhases ==
  ASSUME AppInv,
         \/ DiscoverRoutes \/ DiscoverExceptionHandlers \/ DiscoverLifecycle \/ DiscoverScheduled
         \/ DiscoverRepositories \/ BuildGraph \/ SearchStep \/ ReportCycle
         \/ HostAnalyze \/ GenerateWiring \/ HostGenerate
  PROVE  AppInv'
<1> USE DEF Phase, analysisVars
<1>1. source' = source /\ Outside /\ Outside'
  BY Zenon DEF Outside, DiscoverRoutes, DiscoverExceptionHandlers, DiscoverLifecycle, DiscoverScheduled,
         DiscoverRepositories, BuildGraph, SearchStep, ReportCycle, HostAnalyze, GenerateWiring,
         HostGenerate
<1>2. \A n \in components : DOMAIN app[n] = Fields
  BY <1>1 DEF AppInv, ShapeInv, Outside, Selected
<1>3. components' = components /\ \A n \in components : Carried(n) /\ app'[n].deps = app[n].deps
  <2>1. CASE UNCHANGED app
    BY <2>1 DEF components, Carried
  <2>2. CASE DiscoverExceptionHandlers
    BY <1>2, <2>2 DEF DiscoverExceptionHandlers, components, Carried, Fields
  <2>3. CASE DiscoverLifecycle
    BY <1>2, <2>3, Zenon DEF DiscoverLifecycle, components, Carried, Fields
  <2>4. CASE DiscoverScheduled
    BY <1>2, <2>4 DEF DiscoverScheduled, components, Carried, Fields
  <2>5. CASE DiscoverRepositories
    <3>1. ASSUME NEW n \in components
          PROVE  app'[n] = app[n] \/ \E q : app'[n] = [app[n] EXCEPT !.queries = q]
      <4>1. app'[n] = IF app[n].build = "repository"
                      THEN [app[n] EXCEPT !.queries = repositoryMethods(decls, n)] ELSE app[n]
        BY <2>5, <3>1 DEF DiscoverRepositories
      <4> QED
        BY <4>1
    <3>2. components' = components
      BY <2>5 DEF DiscoverRepositories, components
    <3> QED
      BY <1>2, <3>1, <3>2 DEF Carried, Fields
  <2> QED
    BY <2>1, <2>2, <2>3, <2>4, <2>5
       DEF DiscoverRoutes, BuildGraph, SearchStep, ReportCycle, HostAnalyze, GenerateWiring, HostGenerate
<1> QED
  BY <1>1, <1>3, AttachKeeps

LEMMA StutterAppInv ==
  ASSUME AppInv, Rests
  PROVE  AppInv'
<1> USE DEF AppInv
<1>1. UNCHANGED <<source, phase, decls, app>> /\ components' = components /\ Proxied' = Proxied
  BY DEF analysisVars, components, Proxied, Rests
<1>2. SourceInv' /\ FreshInv' /\ ShapeInv' /\ UnresolvedInv'
  BY <1>1 DEF SourceInv, FreshInv, ShapeInv, UnresolvedInv, Selected
<1>3. FilteredInv'
  BY <1>1, Zenon DEF FilteredInv, profileActive, propertiesHold, Holds
<1>4. KeptConditionsHold'
  <2>1. CASE Selected
    BY <1>1, <2>1, ConditionsCarried DEF Carried
  <2>2. CASE ~Selected
    BY <1>1, <2>2 DEF Selected, KeptConditionsHold
  <2> QED
    BY <2>1, <2>2
<1>5. ProxiesNotBypassed'
  BY <1>1 DEF ProxiesNotBypassed, Bound, Selected
<1> QED
  BY <1>2, <1>3, <1>4, <1>5

LEMMA AppInvariant == Spec => []AppInv
<1>1. AppInv /\ [Next]_vars => AppInv'
  BY EarlyKeeps, DiscoverKeeps, FilterKeeps, RoundKeeps, ProxiesKeep, ResolveKeeps, OtherPhases, StutterAppInv, Steps
     DEF Analyze, AnalyzeWith, Rests
<1> QED
  BY InitAppInv, <1>1, PTL DEF Spec

\* KeptConditionsHold: whatever the conditions demand of each other, the loop of
\* applyConditions ends on a selection in which every condition of every
\* component that is kept holds, and the phases after it do not undo that.
THEOREM ConditionsHoldOfTheKept == Spec => []KeptConditionsHold
<1>1. AppInv => KeptConditionsHold
  BY DEF AppInv
<1> QED
  BY <1>1, AppInvariant, PTL

\* ProxiesNotBypassed: resolveDependency never hands an intercepted component to
\* anything but its own proxy, for any types, primaries and interceptions.
THEOREM InterceptionIsComplete == Spec => []ProxiesNotBypassed
<1>1. AppInv => ProxiesNotBypassed
  BY DEF AppInv
<1> QED
  BY <1>1, AppInvariant, PTL

-----------------------------------------------------------------------------
(* What is written.                                                        *)

\* Past the host's analysis nothing blocking has been reported, and before the
\* plugins' files nothing is written.
FilesInv ==
  /\ phase \in {"generate", "contribute"} => ~blocking(diags)
  /\ phase # "done" => files = {}
  /\ WrittenOnlyWithoutErrors

LEMMA FilesKept == FilesInv /\ [Next]_vars => FilesInv'
<1> SUFFICES ASSUME FilesInv, [Next]_vars
             PROVE  FilesInv'
  OBVIOUS
<1>1. CASE HostGenerate
  <2> DEFINE host == pluginGenerate(source.plugins)
  <2>1. /\ phase = "contribute" /\ phase' = "done" /\ source' = source
        /\ diags' = diags \cup ErrorsOf(host.codes)
        /\ host.codes # {} => files' = {}
    BY <1>1 DEF HostGenerate
  <2> HIDE DEF host
  <2>2. host.codes = {} => diags' = diags
    BY <2>1 DEF ErrorsOf
  <2> QED
    BY <2>1, <2>2 DEF FilesInv, WrittenOnlyWithoutErrors, blocking
<1>2. CASE HostAnalyze
  BY <1>2 DEF HostAnalyze, FilesInv, WrittenOnlyWithoutErrors, blocking
<1>3. CASE GenerateWiring
  BY <1>3 DEF GenerateWiring, FilesInv, WrittenOnlyWithoutErrors, blocking
<1>4. CASE RegisterAnnotations
  BY <1>4 DEF RegisterAnnotations, FilesInv, WrittenOnlyWithoutErrors
<1>5. CASE Analyze
  <2>1. files' = files /\ source' = source /\ phase \notin {"generate", "contribute", "done"}
        /\ phase' \notin {"generate", "contribute", "done"}
    BY <1>5, Zenon
    DEF Analyze, AnalyzeWith, Scan, Discover, FilterByProfile, NutRound, DiscoverProxies, Resolve,
        DiscoverRoutes, DiscoverExceptionHandlers, DiscoverLifecycle, DiscoverScheduled,
        DiscoverRepositories, BuildGraph, SearchStep, ReportCycle, Phase, analysisVars
  <2> QED
    BY <2>1 DEF FilesInv, WrittenOnlyWithoutErrors
<1>6. CASE Rests
  BY <1>6 DEF analysisVars, FilesInv, WrittenOnlyWithoutErrors, blocking, Rests
<1> QED
  BY <1>1, <1>2, <1>3, <1>4, <1>5, <1>6, Steps DEF Rests

\* WrittenOnlyWithoutErrors: cmdGenerate writes nothing once any phase or plugin
\* has reported an error, nor after a warning under -strict.
THEOREM NothingWrittenAfterAnError == Spec => []WrittenOnlyWithoutErrors
<1>1. Init => FilesInv
  BY DEF Init, FilesInv, WrittenOnlyWithoutErrors
<1>2. FilesInv => WrittenOnlyWithoutErrors
  BY DEF FilesInv
<1> QED
  BY <1>1, <1>2, FilesKept, PTL DEF Spec

-----------------------------------------------------------------------------
(* The plugins.                                                            *)

\* The calls of the plugins, one by one.
LEMMA CallsUnroll ==
  ASSUME NEW plugins, Len(plugins) \in Nat, NEW method, NEW own
  PROVE  \E run : /\ callPlugins(plugins, method, own) = run[Len(plugins)]
                  /\ run[0] = [ran |-> {}, codes |-> {}]
                  /\ \A i \in 1..Len(plugins) : run[i] = safeCall(run[i - 1], method, plugins[i].name, plugins[i][method], own)
<1> DEFINE m == Len(plugins)
<1> DEFINE start == [ran |-> {}, codes |-> {}]
<1> DEFINE Step(x, i) == safeCall(x, method, plugins[i].name, plugins[i][method], own)
<1> DEFINE Def(g, k) == g = [i \in 0..k |-> IF i = 0 THEN start ELSE Step(g[i - 1], i)]
<1> DEFINE Defined == {k \in 0..m : \E g : Def(g, k)}
<1>1. 0 \in Defined
  <2>1. Def([i \in 0..0 |-> start], 0)
    OBVIOUS
  <2> HIDE DEF Def
  <2> QED
    BY <2>1
<1> HIDE DEF Step
<1>2. ASSUME NEW k \in 1..m, k - 1 \in Defined
      PROVE  k \in Defined
  <2>1. PICK g : Def(g, k - 1)
    BY <1>2
  <2> DEFINE h == [i \in 0..k |-> IF i = k THEN Step(g[k - 1], k) ELSE g[i]]
  <2>2. \A i \in 0..(k - 1) : g[i] = IF i = 0 THEN start ELSE Step(g[i - 1], i)
    BY <2>1
  <2>3. \A i \in 0..k : h[i] = IF i = k THEN Step(g[k - 1], k) ELSE g[i]
    OBVIOUS
  <2>4. h = [i \in 0..k |-> h[i]]
    OBVIOUS
  <2> HIDE DEF h
  <2>5. ASSUME NEW i \in 0..k
        PROVE  h[i] = IF i = 0 THEN start ELSE Step(h[i - 1], i)
    <3>1. i = k \/ i \in 0..(k - 1)
      OBVIOUS
    <3>2. i # 0 => i - 1 \in 0..(k - 1) /\ h[i - 1] = g[i - 1]
      BY <2>3
    <3> HIDE DEF start
    <3> QED
      BY <2>2, <2>3, <3>1, <3>2
  <2>6. Def(h, k)
    BY <2>4, <2>5
  <2> HIDE DEF Def
  <2> QED
    BY <2>6
<1> HIDE DEF Defined, Def
<1>3. m \in Defined
  <2>1. m \in Nat /\ \A k \in 1..m : k - 1 \in Defined => k \in Defined
    BY <1>2
  <2> QED
    BY <1>1, <2>1, UpTo
<1> DEFINE run == CHOOSE g : Def(g, m)
<1>4. Def(run, m)
  BY <1>3 DEF Defined
<1> USE DEF Def
<1>5. callPlugins(plugins, method, own) = run[m]
  BY DEF callPlugins, Step
<1>6. run[0] = start /\ \A i \in 1..m : run[i] = Step(run[i - 1], i)
  <2> HIDE DEF run
  <2>1. run = [i \in 0..m |-> IF i = 0 THEN start ELSE Step(run[i - 1], i)]
    BY <1>4
  <2>2. 0 \in 0..m /\ \A i \in 1..m : i \in 0..m /\ i # 0
    OBVIOUS
  <2> HIDE DEF m, start
  <2> QED
    BY <2>1, <2>2
<1> QED
  BY <1>5, <1>6 DEF Step

\* The registrations of one plugin, one by one.
LEMMA RegisterUnrolls ==
  ASSUME NEW reg, NEW anns, Len(anns) \in Nat
  PROVE  \E run : /\ RegisterAll(reg, anns) = run[Len(anns)]
                  /\ run[0] = reg
                  /\ \A i \in 1..Len(anns) : run[i] = Register(run[i - 1], anns[i])
<1> DEFINE m == Len(anns)
<1> DEFINE start == reg
<1> DEFINE Step(x, i) == Register(x, anns[i])
<1> DEFINE Def(g, k) == g = [i \in 0..k |-> IF i = 0 THEN start ELSE Step(g[i - 1], i)]
<1> DEFINE Defined == {k \in 0..m : \E g : Def(g, k)}
<1>1. 0 \in Defined
  <2>1. Def([i \in 0..0 |-> start], 0)
    OBVIOUS
  <2> HIDE DEF Def
  <2> QED
    BY <2>1
<1> HIDE DEF Step
<1>2. ASSUME NEW k \in 1..m, k - 1 \in Defined
      PROVE  k \in Defined
  <2>1. PICK g : Def(g, k - 1)
    BY <1>2
  <2> DEFINE h == [i \in 0..k |-> IF i = k THEN Step(g[k - 1], k) ELSE g[i]]
  <2>2. \A i \in 0..(k - 1) : g[i] = IF i = 0 THEN start ELSE Step(g[i - 1], i)
    BY <2>1
  <2>3. \A i \in 0..k : h[i] = IF i = k THEN Step(g[k - 1], k) ELSE g[i]
    OBVIOUS
  <2>4. h = [i \in 0..k |-> h[i]]
    OBVIOUS
  <2> HIDE DEF h
  <2>5. ASSUME NEW i \in 0..k
        PROVE  h[i] = IF i = 0 THEN start ELSE Step(h[i - 1], i)
    <3>1. i = k \/ i \in 0..(k - 1)
      OBVIOUS
    <3>2. i # 0 => i - 1 \in 0..(k - 1) /\ h[i - 1] = g[i - 1]
      BY <2>3
    <3> HIDE DEF start
    <3> QED
      BY <2>2, <2>3, <3>1, <3>2
  <2>6. Def(h, k)
    BY <2>4, <2>5
  <2> HIDE DEF Def
  <2> QED
    BY <2>6
<1> HIDE DEF Defined, Def
<1>3. m \in Defined
  <2>1. m \in Nat /\ \A k \in 1..m : k - 1 \in Defined => k \in Defined
    BY <1>2
  <2> QED
    BY <1>1, <2>1, UpTo
<1> DEFINE run == CHOOSE g : Def(g, m)
<1>4. Def(run, m)
  BY <1>3 DEF Defined
<1> USE DEF Def
<1>5. RegisterAll(reg, anns) = run[m]
  BY DEF RegisterAll, Step
<1>6. run[0] = start /\ \A i \in 1..m : run[i] = Step(run[i - 1], i)
  <2> HIDE DEF run
  <2>1. run = [i \in 0..m |-> IF i = 0 THEN start ELSE Step(run[i - 1], i)]
    BY <1>4
  <2>2. 0 \in 0..m /\ \A i \in 1..m : i \in 0..m /\ i # 0
    OBVIOUS
  <2> HIDE DEF m, start
  <2> QED
    BY <2>1, <2>2
<1> QED
  BY <1>5, <1>6 DEF Step

\* ... and of all of them, plugin by plugin.
LEMMA MergeUnrolls ==
  ASSUME NEW plugins, Len(plugins) \in Nat
  PROVE  \E run : /\ MergedRegistry(plugins) = run[Len(plugins)]
                  /\ run[0] = [defs |-> DefaultRegistry, codes |-> {}]
                  /\ \A i \in 1..Len(plugins) : run[i] = RegisterAll(run[i - 1], plugins[i].annotations)
<1> DEFINE m == Len(plugins)
<1> DEFINE start == [defs |-> DefaultRegistry, codes |-> {}]
<1> DEFINE Step(x, i) == RegisterAll(x, plugins[i].annotations)
<1> DEFINE Def(g, k) == g = [i \in 0..k |-> IF i = 0 THEN start ELSE Step(g[i - 1], i)]
<1> DEFINE Defined == {k \in 0..m : \E g : Def(g, k)}
<1>1. 0 \in Defined
  <2>1. Def([i \in 0..0 |-> start], 0)
    OBVIOUS
  <2> HIDE DEF Def
  <2> QED
    BY <2>1
<1> HIDE DEF Step
<1>2. ASSUME NEW k \in 1..m, k - 1 \in Defined
      PROVE  k \in Defined
  <2>1. PICK g : Def(g, k - 1)
    BY <1>2
  <2> DEFINE h == [i \in 0..k |-> IF i = k THEN Step(g[k - 1], k) ELSE g[i]]
  <2>2. \A i \in 0..(k - 1) : g[i] = IF i = 0 THEN start ELSE Step(g[i - 1], i)
    BY <2>1
  <2>3. \A i \in 0..k : h[i] = IF i = k THEN Step(g[k - 1], k) ELSE g[i]
    OBVIOUS
  <2>4. h = [i \in 0..k |-> h[i]]
    OBVIOUS
  <2> HIDE DEF h
  <2>5. ASSUME NEW i \in 0..k
        PROVE  h[i] = IF i = 0 THEN start ELSE Step(h[i - 1], i)
    <3>1. i = k \/ i \in 0..(k - 1)
      OBVIOUS
    <3>2. i # 0 => i - 1 \in 0..(k - 1) /\ h[i - 1] = g[i - 1]
      BY <2>3
    <3> HIDE DEF start
    <3> QED
      BY <2>2, <2>3, <3>1, <3>2
  <2>6. Def(h, k)
    BY <2>4, <2>5
  <2> HIDE DEF Def
  <2> QED
    BY <2>6
<1> HIDE DEF Defined, Def
<1>3. m \in Defined
  <2>1. m \in Nat /\ \A k \in 1..m : k - 1 \in Defined => k \in Defined
    BY <1>2
  <2> QED
    BY <1>1, <2>1, UpTo
<1> DEFINE run == CHOOSE g : Def(g, m)
<1>4. Def(run, m)
  BY <1>3 DEF Defined
<1> USE DEF Def
<1>5. MergedRegistry(plugins) = run[m]
  BY DEF MergedRegistry, Step
<1>6. run[0] = start /\ \A i \in 1..m : run[i] = Step(run[i - 1], i)
  <2> HIDE DEF run
  <2>1. run = [i \in 0..m |-> IF i = 0 THEN start ELSE Step(run[i - 1], i)]
    BY <1>4
  <2>2. 0 \in 0..m /\ \A i \in 1..m : i \in 0..m /\ i # 0
    OBVIOUS
  <2> HIDE DEF m, start
  <2> QED
    BY <2>1, <2>2
<1> QED
  BY <1>5, <1>6 DEF Step
\* Whatever a plugin does, every one that has the method is called, and a panic
\* is reported.
LEMMA EveryPluginIsCalled ==
  ASSUME NEW plugins, Len(plugins) \in Nat, NEW method, NEW own
  PROVE  \A i \in 1..Len(plugins) : plugins[i][method] # "none" =>
           /\ <<method, plugins[i].name>> \in callPlugins(plugins, method, own).ran
           /\ plugins[i][method] = "panic" => "GOBPLG003" \in callPlugins(plugins, method, own).codes
<1>1. PICK run : /\ callPlugins(plugins, method, own) = run[Len(plugins)]
                 /\ \A i \in 1..Len(plugins) :
                      run[i] = safeCall(run[i - 1], method, plugins[i].name, plugins[i][method], own)
  BY CallsUnroll
<1> DEFINE Called(i, host) == plugins[i][method] # "none" =>
             /\ <<method, plugins[i].name>> \in host.ran
             /\ plugins[i][method] = "panic" => "GOBPLG003" \in host.codes
<1> DEFINE S == {k \in 0..Len(plugins) : \A i \in 1..k : Called(i, run[k])}
<1>2. ASSUME NEW k \in 1..Len(plugins), k - 1 \in S
      PROVE  k \in S
  <2>1. run[k] = safeCall(run[k - 1], method, plugins[k].name, plugins[k][method], own)
    BY <1>1
  <2>2. Called(k, run[k]) /\ run[k - 1].ran \subseteq run[k].ran /\ run[k - 1].codes \subseteq run[k].codes
    BY <2>1 DEF safeCall
  <2>3. \A i \in 1..k : i = k \/ i \in 1..(k - 1)
    OBVIOUS
  <2> QED
    BY <1>2, <2>2, <2>3
<1>3. 0 \in S
  OBVIOUS
<1> HIDE DEF S
<1>4. Len(plugins) \in S
  <2>1. \A k \in 1..Len(plugins) : k - 1 \in S => k \in S
    BY <1>2
  <2> QED
    BY <1>3, <2>1, UpTo
<1> QED
  BY <1>1, <1>4 DEF S

\* Registration only adds to a catalogue.
Core(reg) ==
  /\ reg = [defs |-> reg.defs, codes |-> reg.codes]
  /\ \A n \in DOMAIN DefaultRegistry : n \in DOMAIN reg.defs /\ reg.defs[n] = DefaultRegistry[n]

LEMMA RegisterKeepsCore ==
  ASSUME NEW reg, Core(reg), NEW def
  PROVE  Core(Register(reg, def))
<1>1. CASE def.name = "" \/ def.name \in DOMAIN reg.defs
  <2>1. Register(reg, def) = [defs |-> reg.defs, codes |-> reg.codes \cup {AnnotationConflict}]
    BY <1>1, Zenon DEF Register, Core
  <2> HIDE DEF DefaultRegistry
  <2> QED
    BY <2>1 DEF Core
<1>2. CASE ~(def.name = "" \/ def.name \in DOMAIN reg.defs)
  <2> DEFINE more == [n \in {def.name} \cup DOMAIN reg.defs |->
                        IF n = def.name THEN def.def ELSE reg.defs[n]]
  <2>1. Register(reg, def) = [defs |-> more, codes |-> reg.codes]
    BY <1>2, Zenon DEF Register, Core
  <2>2. \A n \in DOMAIN reg.defs : n \in DOMAIN more /\ more[n] = reg.defs[n]
    BY <1>2, Zenon
  <2> HIDE DEF more, DefaultRegistry
  <2> QED
    BY <2>1, <2>2 DEF Core
<1> QED
  BY <1>1, <1>2, Zenon

LEMMA RegisterAllKeepsCore ==
  ASSUME NEW reg, Core(reg), NEW anns, Len(anns) \in Nat
  PROVE  Core(RegisterAll(reg, anns))
<1>1. PICK run : /\ RegisterAll(reg, anns) = run[Len(anns)]
                 /\ run[0] = reg
                 /\ \A i \in 1..Len(anns) : run[i] = Register(run[i - 1], anns[i])
  BY RegisterUnrolls
<1> DEFINE S == {k \in 0..Len(anns) : Core(run[k])}
<1>2. 0 \in S /\ \A k \in 1..Len(anns) : k - 1 \in S => k \in S
  BY <1>1, RegisterKeepsCore
<1> HIDE DEF S
<1>3. Len(anns) \in S
  BY <1>2, UpTo
<1> QED
  BY <1>1, <1>3 DEF S

LEMMA CoreStands ==
  ASSUME NEW plugins, Len(plugins) \in Nat,
         \A i \in 1..Len(plugins) : Len(plugins[i].annotations) \in Nat
  PROVE  Core(MergedRegistry(plugins))
<1>2. PICK run : /\ MergedRegistry(plugins) = run[Len(plugins)]
                 /\ run[0] = [defs |-> DefaultRegistry, codes |-> {}]
                 /\ \A i \in 1..Len(plugins) : run[i] = RegisterAll(run[i - 1], plugins[i].annotations)
  BY MergeUnrolls
<1> DEFINE S == {k \in 0..Len(plugins) : Core(run[k])}
<1>3. 0 \in S /\ \A k \in 1..Len(plugins) : k - 1 \in S => k \in S
  <2>1. Core([defs |-> DefaultRegistry, codes |-> {}])
    BY DEF Core
  <2> QED
    BY <1>2, <2>1, RegisterAllKeepsCore
<1> HIDE DEF S
<1>4. Len(plugins) \in S
  BY <1>3, UpTo
<1> QED
  BY <1>2, <1>4 DEF S

\* What the loops over the plugins have left behind.
MethodCalled(method) ==
  /\ {<<method, p.name>> : p \in {x \in ToSet(source.plugins) : x[method] # "none"}} \subseteq ran
  /\ (\E p \in ToSet(source.plugins) : p[method] = "panic") => <<"error", "GOBPLG003">> \in diags

\* A call that panics is what the host has crashed in, and no phase follows it.
CrashInv ==
  crashed => \/ phase = "plugins" /\ annotationsPanic
             \/ phase = "scan" /\ validatorsPanic
             \/ phase = "generate" /\ dialectsPanic(source.dialect)

PluginInv ==
  /\ \E family \in DOMAIN Sources : source \in Sources[family]
  /\ wiring # {} => phase \in {"contribute", "done"}
  /\ phase \in {"generate", "contribute", "done"} => MethodCalled("analyze")
  /\ wiring # {} /\ phase = "done" => MethodCalled("generate")

LEMMA PluginsListed ==
  ASSUME PluginInv
  PROVE  /\ Len(source.plugins) \in Nat
         /\ ToSet(source.plugins) = {source.plugins[i] : i \in 1..Len(source.plugins)}
         /\ \A i \in 1..Len(source.plugins) : Len(source.plugins[i].annotations) \in Nat
<1>1. source.plugins \in Seq(ToSet(source.plugins))
  BY SourcesAssumption, Zenon DEF PluginInv
<1>2. DOMAIN source.plugins = 1..Len(source.plugins) /\ Len(source.plugins) \in Nat
  BY <1>1
<1>3. ToSet(source.plugins) = {source.plugins[i] : i \in 1..Len(source.plugins)}
  BY <1>2 DEF ToSet
<1>4. ASSUME NEW i \in 1..Len(source.plugins)
      PROVE  Len(source.plugins[i].annotations) \in Nat
  <2>1. source.plugins[i] \in ToSet(source.plugins)
    BY <1>3
  <2>2. source.plugins[i].annotations \in Seq(ToSet(source.plugins[i].annotations))
    BY <2>1, SourcesAssumption, Zenon DEF PluginInv
  <2> QED
    BY <2>2
<1> QED
  BY <1>2, <1>3, <1>4

LEMMA LoopCalls ==
  ASSUME PluginInv, source' = source, NEW method, NEW own,
         ran' = ran \cup callPlugins(source.plugins, method, own).ran,
         diags' = diags \cup ErrorsOf(callPlugins(source.plugins, method, own).codes)
  PROVE  MethodCalled(method)'
<1> DEFINE ps == source.plugins
<1>1. Len(ps) \in Nat /\ ToSet(ps) = {ps[i] : i \in 1..Len(ps)}
  BY PluginsListed
<1>2. \A i \in 1..Len(ps) : ps[i][method] # "none" =>
        /\ <<method, ps[i].name>> \in callPlugins(ps, method, own).ran
        /\ ps[i][method] = "panic" => "GOBPLG003" \in callPlugins(ps, method, own).codes
  BY <1>1, EveryPluginIsCalled
<1>3. \A p \in ToSet(ps) : p[method] # "none" =>
        <<method, p.name>> \in ran' /\ (p[method] = "panic" => <<"error", "GOBPLG003">> \in diags')
  BY <1>1, <1>2 DEF ErrorsOf
<1> QED
  BY <1>3 DEF MethodCalled

LEMMA PluginsKept == PluginInv /\ [Next]_vars => PluginInv'
<1> SUFFICES ASSUME PluginInv, [Next]_vars
             PROVE  PluginInv'
  OBVIOUS
<1>1. ASSUME ran \subseteq ran', diags \subseteq diags', source' = source, NEW method,
             MethodCalled(method)
      PROVE  MethodCalled(method)'
  BY <1>1 DEF MethodCalled
<1>2. CASE HostAnalyze
  <2>1. /\ source' = source /\ wiring' = wiring /\ phase = "host"
        /\ phase' \in {"generate", "done"} /\ MethodCalled("analyze")'
    BY <1>2, LoopCalls, Zenon DEF HostAnalyze, pluginAnalyze
  <2> QED
    BY <2>1 DEF PluginInv
<1>3. CASE HostGenerate
  <2>1. /\ source' = source /\ wiring' = wiring /\ phase = "contribute" /\ phase' = "done"
        /\ MethodCalled("generate")' /\ ran \subseteq ran' /\ diags \subseteq diags'
    BY <1>3, LoopCalls DEF HostGenerate, pluginGenerate
  <2> QED
    BY <1>1, <2>1 DEF PluginInv
<1>4. CASE GenerateWiring
  <2>1. /\ source' = source /\ phase = "generate" /\ ran' = ran /\ diags' = diags
        /\ phase' \in {"contribute", "done"} /\ (wiring' # {} => phase' = "contribute")
    BY <1>4 DEF GenerateWiring
  <2> QED
    BY <1>1, <2>1 DEF PluginInv
<1>5. CASE RegisterAnnotations \/ Analyze
  <2>1. /\ source' = source /\ wiring' = wiring
        /\ phase \notin {"generate", "contribute", "done"}
        /\ phase' \notin {"generate", "contribute", "done"}
    BY <1>5, Zenon
    DEF RegisterAnnotations, Analyze, AnalyzeWith, Scan, Discover, FilterByProfile, NutRound,
        DiscoverProxies, Resolve, DiscoverRoutes, DiscoverExceptionHandlers, DiscoverLifecycle,
        DiscoverScheduled, DiscoverRepositories, BuildGraph, SearchStep, ReportCycle, Phase,
        analysisVars
  <2> QED
    BY <2>1 DEF PluginInv
<1>6. CASE Rests
  BY <1>6 DEF analysisVars, PluginInv, MethodCalled, Rests
<1> QED
  BY <1>2, <1>3, <1>4, <1>5, <1>6, Steps DEF Rests

LEMMA CrashKept == CrashInv /\ [Next]_vars => CrashInv'
<1> SUFFICES ASSUME CrashInv, [Next]_vars PROVE CrashInv'
  OBVIOUS
<1>1. CASE crashed
  <2>1. Rests
    BY <1>1, Steps, Zenon
       DEF CrashInv, RegisterAnnotations, Analyze, AnalyzeWith, Scan, Discover, FilterByProfile, NutRound,
           DiscoverProxies, Resolve, DiscoverRoutes, DiscoverExceptionHandlers, DiscoverLifecycle,
           DiscoverScheduled, DiscoverRepositories, BuildGraph, SearchStep, ReportCycle, HostAnalyze,
           GenerateWiring, HostGenerate, Phase
  <2> QED
    BY <1>1, <2>1 DEF Rests, analysisVars, CrashInv, annotationsPanic, validatorsPanic, dialectsPanic, catalogue
<1>2. CASE ~crashed /\ Crash
  BY <1>2 DEF Crash, analysisVars, CrashInv, annotationsPanic, validatorsPanic, dialectsPanic, catalogue
<1>3. CASE ~crashed /\ ~Crash
  <2>1. UNCHANGED crashed
    BY <1>3, Steps, Zenon DEF RegisterAnnotations, Analyze, HostAnalyze, GenerateWiring, HostGenerate
  <2> QED
    BY <1>3, <2>1, Zenon DEF CrashInv
<1> QED
  BY <1>1, <1>2, <1>3

\* PluginsContained: plugin.Registry lets no plugin replace a core annotation, calls
\* Analyze and Generate of every plugin whatever the others do, and turns their
\* panics into diagnostics; a panic in Annotations, Dialects or a validator, which
\* alone can end the command, leaves nothing generated or written.
THEOREM PluginsStayContained == Spec => []PluginsContained
<1>1. Init => PluginInv /\ CrashInv /\ FilesInv
  BY DEF Init, AnalysisInit, PluginInv, CrashInv, FilesInv, WrittenOnlyWithoutErrors
<1>2. PluginInv /\ CrashInv /\ FilesInv => PluginsContained
  <2> SUFFICES ASSUME PluginInv, CrashInv, FilesInv PROVE PluginsContained
    OBVIOUS
  <2>1. Core(catalogue)
    BY PluginsListed, CoreStands DEF catalogue
  <2>2. ASSUME crashed
        PROVE  /\ phase # "done" /\ wiring = {} /\ files = {}
               /\ annotationsPanic \/ validatorsPanic \/ dialectsPanic(source.dialect)
    BY <2>2 DEF CrashInv, PluginInv, FilesInv
  <2>3. phase = "done" => MethodCalled("analyze") /\ (wiring # {} => MethodCalled("generate"))
    BY DEF PluginInv
  <2> QED
    BY <2>1, <2>2, <2>3 DEF PluginsContained, MethodCalled, Core
<1> QED
  BY <1>1, <1>2, PluginsKept, CrashKept, FilesKept, PTL DEF Spec

-----------------------------------------------------------------------------
(* The names.                                                              *)

LEMMA LeastExists ==
  ASSUME NEW S \in SUBSET Nat, S # {}
  PROVE  \E n \in S : \A m \in S : n <= m
<1> DEFINE Less == OpToRel(<, Nat)
<1>1. IsWellFoundedOn(Less, Nat)
  BY NatLessThanWellFounded, Zenon
<1>2. \A x, y \in Nat : x < y => <<x, y>> \in Less
  BY SMT DEF OpToRel
<1> HIDE DEF Less
<1>3. PICK n \in S : \A m \in S : <<m, n>> \notin Less
  BY <1>1, WFMin, Zenon
<1>4. ASSUME NEW m \in S PROVE n <= m
  <2>1. ~(m < n)
    BY <1>2, <1>3
  <2> QED
    BY <2>1
<1> QED
  BY <1>4

\* Numbers appended to a name tell the names apart.
NumbersDiffer == \A name : \A i, j \in Nat : name \o ToString(i) = name \o ToString(j) => i = j

\* Among as many numbered candidates as there are used names, and one more, one
\* is free.
LEMMA UniqueIsFree ==
  ASSUME NumbersDiffer, NEW candidate, NEW used, IsFiniteSet(used)
  PROVE  unique(candidate, used) \notin used
<1> DEFINE numbered(i) == candidate \o ToString(i)
           tried == 2 .. Cardinality(used) + 2
           free == {i \in tried : numbered(i) \notin used}
<1>1. \A i, j \in Nat : numbered(i) = numbered(j) => i = j
  BY DEF NumbersDiffer
<1> HIDE DEF numbered
<1>2. Cardinality(used) \in Nat
  BY FS_CardinalityType
<1>3. IsFiniteSet(tried) /\ Cardinality(tried) = Cardinality(used) + 1 /\ tried \subseteq Nat
  <2>1. 2 \in Int /\ Cardinality(used) + 2 \in Int /\ ~(2 > Cardinality(used) + 2)
    BY <1>2
  <2>2. IsFiniteSet(tried) /\ Cardinality(tried) = (Cardinality(used) + 2) - 2 + 1
    BY <2>1, FS_Interval
  <2> QED
    BY <1>2, <2>2
<1>4. free # {}
  <2> SUFFICES ASSUME \A i \in tried : numbered(i) \in used PROVE FALSE
    OBVIOUS
  <2> DEFINE f == [i \in tried |-> numbered(i)]
  <2> HIDE DEF tried
  <2>1. f \in [tried -> used]
    OBVIOUS
  <2>2. Cardinality(used) < Cardinality(tried)
    BY <1>2, <1>3
  <2>3. \A i \in tried : f[i] = numbered(i)
    OBVIOUS
  <2> HIDE DEF f
  <2>4. \E i, j \in tried : i # j /\ f[i] = f[j]
    BY <1>3, <2>1, <2>2, FS_PigeonHole
  <2> QED
    BY <1>1, <1>3, <2>3, <2>4
<1>5. free \in SUBSET Nat
  BY <1>3
<1>6. \A i \in free : numbered(i) \notin used
  OBVIOUS
<1> DEFINE first == CHOOSE i \in free : \A j \in free : i <= j
<1>7. first \in free
  <2> HIDE DEF free
  <2> QED
    BY <1>4, <1>5, LeastExists
<1>8. unique(candidate, used) = IF candidate \notin used THEN candidate ELSE numbered(first)
  BY DEF unique, numbered
<1> QED
  BY <1>6, <1>7, <1>8

WithNext(names, candidate, taken) == Append(names, unique(candidate, taken \cup ToSet(names)))

\* The names, one by one.
LEMMA NamesUnroll ==
  ASSUME NEW list, Len(list) \in Nat, NEW taken
  PROVE  \E run : /\ uniqueNames(list, taken) = run[Len(list)]
                  /\ run[0] = <<>>
                  /\ \A i \in 1..Len(list) :
                       run[i] = WithNext(run[i - 1], list[i], taken)
<1> DEFINE m == Len(list)
<1> DEFINE start == <<>>
<1> DEFINE Step(x, i) == WithNext(x, list[i], taken)
<1> DEFINE Def(g, k) == g = [i \in 0..k |-> IF i = 0 THEN start ELSE Step(g[i - 1], i)]
<1> DEFINE Defined == {k \in 0..m : \E g : Def(g, k)}
<1>1. 0 \in Defined
  <2>1. Def([i \in 0..0 |-> start], 0)
    OBVIOUS
  <2> HIDE DEF Def
  <2> QED
    BY <2>1
<1> HIDE DEF Step
<1>2. ASSUME NEW k \in 1..m, k - 1 \in Defined
      PROVE  k \in Defined
  <2>1. PICK g : Def(g, k - 1)
    BY <1>2
  <2> DEFINE h == [i \in 0..k |-> IF i = k THEN Step(g[k - 1], k) ELSE g[i]]
  <2>2. \A i \in 0..(k - 1) : g[i] = IF i = 0 THEN start ELSE Step(g[i - 1], i)
    BY <2>1
  <2>3. \A i \in 0..k : h[i] = IF i = k THEN Step(g[k - 1], k) ELSE g[i]
    OBVIOUS
  <2>4. h = [i \in 0..k |-> h[i]]
    OBVIOUS
  <2> HIDE DEF h
  <2>5. ASSUME NEW i \in 0..k
        PROVE  h[i] = IF i = 0 THEN start ELSE Step(h[i - 1], i)
    <3>1. i = k \/ i \in 0..(k - 1)
      OBVIOUS
    <3>2. i # 0 => i - 1 \in 0..(k - 1) /\ h[i - 1] = g[i - 1]
      BY <2>3
    <3> HIDE DEF start
    <3> QED
      BY <2>2, <2>3, <3>1, <3>2
  <2>6. Def(h, k)
    BY <2>4, <2>5
  <2> HIDE DEF Def
  <2> QED
    BY <2>6
<1> HIDE DEF Defined, Def
<1>3. m \in Defined
  <2>1. m \in Nat /\ \A k \in 1..m : k - 1 \in Defined => k \in Defined
    BY <1>2
  <2> QED
    BY <1>1, <2>1, UpTo
<1> DEFINE run == CHOOSE g : Def(g, m)
<1>4. Def(run, m)
  BY <1>3 DEF Defined
<1> USE DEF Def
<1>5. uniqueNames(list, taken) = run[m]
  BY DEF uniqueNames, Step, WithNext
<1>6. run[0] = start /\ \A i \in 1..m : run[i] = Step(run[i - 1], i)
  <2> HIDE DEF run
  <2>1. run = [i \in 0..m |-> IF i = 0 THEN start ELSE Step(run[i - 1], i)]
    BY <1>4
  <2>2. 0 \in 0..m /\ \A i \in 1..m : i \in 0..m /\ i # 0
    OBVIOUS
  <2> HIDE DEF m, start
  <2> QED
    BY <2>1, <2>2
<1> QED
  BY <1>5, <1>6 DEF Step

LEMMA AppendToSeq ==
  ASSUME NEW S, NEW s \in Seq(S), NEW x
  PROVE  /\ Append(s, x) \in Seq(S \cup {x})
         /\ Len(Append(s, x)) = Len(s) + 1
         /\ Append(s, x)[Len(s) + 1] = x
         /\ \A i \in 1..Len(s) : Append(s, x)[i] = s[i]
<1>1. s \in Seq(S \cup {x})
  OBVIOUS
<1> QED
  BY <1>1

LEMMA RangeFinite ==
  ASSUME NEW S, NEW s \in Seq(S)
  PROVE  IsFiniteSet(ToSet(s))
<1> DEFINE T == ToSet(s)
<1>1. DOMAIN s = 1..Len(s) /\ Len(s) \in Nat
  OBVIOUS
<1>2. T = {s[i] : i \in DOMAIN s}
  BY DEF ToSet
<1>3. s \in [1..Len(s) -> T]
  BY <1>1, <1>2
<1>4. \A t \in T : \E i \in 1..Len(s) : s[i] = t
  BY <1>1, <1>2
<1> HIDE DEF T
<1>5. s \in Surjection(1..Len(s), T)
  BY <1>3, <1>4 DEF Surjection
<1>6. IsFiniteSet(1..Len(s))
  BY <1>1, FS_Interval
<1>7. IsFiniteSet(T)
  BY <1>5, <1>6, FS_Surjection
<1> QED
  BY <1>7 DEF T

\* No two of the names are the same and none was taken.
LEMMA NamesAreUnique ==
  ASSUME NumbersDiffer, NEW list, Len(list) \in Nat, NEW taken, IsFiniteSet(taken)
  PROVE  LET names == uniqueNames(list, taken)
         IN /\ \E S : names \in Seq(S)
            /\ Len(names) = Len(list)
            /\ \A i \in 1..Len(list) : names[i] \notin taken /\ \A j \in 1..(i - 1) : names[j] # names[i]
<1>1. PICK run : /\ uniqueNames(list, taken) = run[Len(list)]
                 /\ run[0] = <<>>
                 /\ \A i \in 1..Len(list) :
                      run[i] = WithNext(run[i - 1], list[i], taken)
  BY NamesUnroll
<1> DEFINE Good(names, k) ==
             /\ \E S : names \in Seq(S)
             /\ Len(names) = k
             /\ \A i \in 1..k : names[i] \notin taken /\ \A j \in 1..(i - 1) : names[j] # names[i]
           Reached == {k \in 0..Len(list) : Good(run[k], k)}
<1>2. 0 \in Reached
  <2>1. Good(<<>>, 0)
    OBVIOUS
  <2> HIDE DEF Good
  <2> QED
    BY <1>1, <2>1
<1>3. ASSUME NEW k \in 1..Len(list), k - 1 \in Reached
      PROVE  k \in Reached
  <2> DEFINE before == run[k - 1]
             name == unique(list[k], taken \cup ToSet(before))
  <2>1. run[k] = Append(before, name)
    BY <1>1 DEF WithNext
  <2>2. Good(before, k - 1)
    BY <1>3
  <2>3. PICK S : before \in Seq(S)
    BY <2>2
  <2> HIDE DEF before, name
  <2>4. IsFiniteSet(taken \cup ToSet(before))
    BY <2>3, RangeFinite, FS_Union
  <2>5. name \notin taken \cup ToSet(before)
    BY <2>4, UniqueIsFree DEF name
  <2>6. /\ run[k] \in Seq(S \cup {name}) /\ Len(run[k]) = k /\ run[k][k] = name
        /\ \A i \in 1..(k - 1) : run[k][i] = before[i]
    BY <2>1, <2>2, <2>3, AppendToSeq
  <2>7. \A i \in 1..(k - 1) : before[i] # name
    BY <2>2, <2>3, <2>5 DEF ToSet
  <2>8. ASSUME NEW i \in 1..k
        PROVE  run[k][i] \notin taken /\ \A j \in 1..(i - 1) : run[k][j] # run[k][i]
    <3>1. i = k \/ i \in 1..(k - 1)
      OBVIOUS
    <3>2. CASE i = k
      BY <2>5, <2>6, <2>7, <3>2
    <3>3. CASE i \in 1..(k - 1)
      <4>1. \A j \in 1..(i - 1) : j \in 1..(k - 1)
        BY <3>3
      <4> QED
        BY <2>2, <2>6, <3>3, <4>1
    <3> QED
      BY <3>1, <3>2, <3>3
  <2> QED
    BY <2>6, <2>8
<1> HIDE DEF Good
<1>4. Len(list) \in Reached
  <2> HIDE DEF Reached
  <2> QED
    BY <1>2, <1>3, UpTo
<1>5. Good(uniqueNames(list, taken), Len(list))
  BY <1>1, <1>4
<1> QED
  BY <1>5 DEF Good

\* The names of the components of o are clear of each other and of taken.
Clear(names, o, taken) ==
  \A i \in 1..Len(o) :
    /\ names[o[i]].local \notin taken
    /\ \A j \in 1..(i - 1) : /\ names[o[j]].local # names[o[i]].local
                             /\ names[o[j]].field # names[o[i]].field

LEMMA AssignedNames ==
  ASSUME NumbersDiffer, NEW a, NEW N, NEW o \in Seq(N), NEW taken, IsFiniteSet(taken),
         \A i, j \in 1..Len(o) : o[i] = o[j] => i = j
  PROVE  Clear(assignNames(a, o, taken), o, taken)
<1> DEFINE localList == [i \in DOMAIN o |-> toLocalName(a[o[i]].name)]
           fieldList == [i \in DOMAIN o |-> toFieldName(a[o[i]].name)]
           locals == uniqueNames(localList, taken)
           fields == uniqueNames(fieldList, {})
           place(id) == CHOOSE i \in DOMAIN o : o[i] = id
           names == assignNames(a, o, taken)
<1>1. DOMAIN o = 1..Len(o) /\ Len(o) \in Nat
  OBVIOUS
<1>2. Len(localList) = Len(o) /\ Len(fieldList) = Len(o)
  BY <1>1
<1> HIDE DEF localList, fieldList
<1>3. \A i \in 1..Len(o) : /\ locals[i] \notin taken
                           /\ \A j \in 1..(i - 1) : locals[j] # locals[i]
  BY <1>1, <1>2, NamesAreUnique
<1>4. \A i \in 1..Len(o) : \A j \in 1..(i - 1) : fields[j] # fields[i]
  <2>1. IsFiniteSet({})
    BY FS_EmptySet
  <2>2. LET new == uniqueNames(fieldList, {})
        IN \A i \in 1..Len(o) : new[i] \notin {} /\ \A j \in 1..(i - 1) : new[j] # new[i]
    BY <1>1, <1>2, <2>1, NamesAreUnique
  <2> QED
    BY <2>2
<1>5. \A i \in 1..Len(o) : place(o[i]) = i
  BY <1>1
<1>6. names = [id \in ToSet(o) |-> [local |-> locals[place(id)], field |-> fields[place(id)]]]
  BY DEF assignNames, localList, fieldList
<1> HIDE DEF locals, fields, place, names
<1>7. \A i \in 1..Len(o) : names[o[i]].local = locals[i] /\ names[o[i]].field = fields[i]
  BY <1>1, <1>5, <1>6 DEF ToSet
<1>8. ASSUME NEW i \in 1..Len(o)
      PROVE  /\ names[o[i]].local \notin taken
             /\ \A j \in 1..(i - 1) : names[o[j]].local # names[o[i]].local
             /\ \A j \in 1..(i - 1) : names[o[j]].field # names[o[i]].field
  <2>1. \A j \in 1..(i - 1) : j \in 1..Len(o)
    BY <1>1
  <2> QED
    BY <1>3, <1>4, <1>7, <2>1
<1> QED
  BY <1>8 DEF names, Clear

LEMMA ParametersOf ==
  ASSUME NEW features
  PROVE  /\ IsFiniteSet(buildComponentsParams(features))
         /\ "config" \in features => "configSource" \in buildComponentsParams(features)
         /\ "proxies" \in features => "proxyDeps" \in buildComponentsParams(features)
         /\ "repos" \in features => "dbProvider" \in buildComponentsParams(features)
<1> DEFINE all == {"configSource", "proxyDeps", "dbProvider"}
           P(f) == CASE f = "config" -> {"configSource"}
                     [] f = "proxies" -> {"proxyDeps"}
                     [] f = "repos" -> {"dbProvider"}
                     [] OTHER -> {}
<1>0. buildComponentsParams(features) = UNION {P(f) : f \in features}
  BY DEF buildComponentsParams
<1>1. \A f : P(f) \subseteq all
  OBVIOUS
<1>2. P("config") = {"configSource"} /\ P("proxies") = {"proxyDeps"} /\ P("repos") = {"dbProvider"}
  OBVIOUS
<1> HIDE DEF P
<1>3. buildComponentsParams(features) \subseteq all
  BY <1>0, <1>1
<1>4. IsFiniteSet(all)
  <2>1. all = (({} \cup {"configSource"}) \cup {"proxyDeps"}) \cup {"dbProvider"}
    OBVIOUS
  <2>2. IsFiniteSet({} \cup {"configSource"})
    BY FS_EmptySet, FS_AddElement
  <2>3. IsFiniteSet(({} \cup {"configSource"}) \cup {"proxyDeps"})
    BY <2>2, FS_AddElement
  <2> QED
    BY <2>1, <2>3, FS_AddElement
<1> HIDE DEF all
<1>5. IsFiniteSet(buildComponentsParams(features))
  BY <1>3, <1>4, FS_Subset
<1> QED
  BY <1>0, <1>2, <1>5

\* What is reserved is finite, so that a name clear of it exists.
LEMMA ReservedNames ==
  ASSUME NumbersDiffer, NEW a, NEW o, NEW features
  PROVE  /\ IsFiniteSet(reserved(a, o, features))
         /\ buildComponentsParams(features) \subseteq reserved(a, o, features)
<1> DEFINE packages == registered(a, o, features)
           If(needed, name) == IF needed THEN <<name>> ELSE <<>>
           S == {AppPackage, "fmt", "runtime", "http", "config", "db"}
<1>1. packages \in Seq(S)
  <2>1. \A needed : \A name \in S : If(needed, name) \in Seq(S)
    <3>1. <<>> \in Seq(S) /\ \A name \in S : <<name>> \in Seq(S)
      OBVIOUS
    <3> HIDE DEF S
    <3> QED
      BY <3>1, Zenon
  <2>2. \A s, t \in Seq(S) : s \o t \in Seq(S)
    OBVIOUS
  <2> DEFINE s1 == If(o # <<>>, AppPackage)
             s2 == s1 \o If(\E id \in ToSet(o) : a[id].returnsError, "fmt")
             s3 == s2 \o If(features \cap {"routes", "proxies", "scheduled"} # {}, "runtime")
             s4 == s3 \o If("routes" \in features, "http")
             s5 == s4 \o If("config" \in features, "config")
             s6 == s5 \o If("repos" \in features, "db")
  <2>3. packages = s6
    BY DEF registered
  <2>4. /\ AppPackage \in S /\ "fmt" \in S /\ "runtime" \in S /\ "http" \in S
        /\ "config" \in S /\ "db" \in S
    OBVIOUS
  <2> HIDE DEF S, If
  <2>5. s1 \in Seq(S)
    BY <2>1, <2>4
  <2> HIDE DEF s1
  <2>6. s2 \in Seq(S)
    BY <2>1, <2>2, <2>4, <2>5
  <2> HIDE DEF s2
  <2>7. s3 \in Seq(S)
    BY <2>1, <2>2, <2>4, <2>6
  <2> HIDE DEF s3
  <2>8. s4 \in Seq(S)
    BY <2>1, <2>2, <2>4, <2>7
  <2> HIDE DEF s4
  <2>9. s5 \in Seq(S)
    BY <2>1, <2>2, <2>4, <2>8
  <2> HIDE DEF s5
  <2>10. s6 \in Seq(S)
    BY <2>1, <2>2, <2>4, <2>9
  <2> QED
    BY <2>3, <2>10
<1>2. Len(packages) \in Nat
  BY <1>1
<1>3. \E T : uniqueNames(packages, {}) \in Seq(T)
  <2> HIDE DEF packages
  <2> QED
    BY <1>2, NamesAreUnique, FS_EmptySet
<1>4. IsFiniteSet(ToSet(uniqueNames(packages, {})))
  BY <1>3, RangeFinite
<1>5. IsFiniteSet({"err", "out"})
  <2>1. {"err", "out"} = ({} \cup {"err"}) \cup {"out"}
    OBVIOUS
  <2>2. IsFiniteSet({} \cup {"err"})
    BY FS_EmptySet, FS_AddElement
  <2> QED
    BY <2>1, <2>2, FS_AddElement
<1>6. reserved(a, o, features) = ({"err", "out"} \cup buildComponentsParams(features)) \cup ToSet(uniqueNames(packages, {}))
  BY DEF reserved
<1>7. IsFiniteSet({"err", "out"} \cup buildComponentsParams(features))
  BY <1>5, ParametersOf, FS_Union
<1> QED
  BY <1>4, <1>6, <1>7, FS_Union

-----------------------------------------------------------------------------
(* The hooks.                                                              *)

WithHooks(hooks, a, id) ==
  LET c == a[id]
  IN IF HasLifecycle(c) THEN Append(hooks, [component |-> id, start |-> c.post, stop |-> c.pre]) ELSE hooks

HooksRun(run, a, list) ==
  /\ run[0] = <<>>
  /\ \A i \in 1..Len(list) : run[i] = WithHooks(run[i - 1], a, list[i])

\* The hooks, component by component.
LEMMA HooksUnroll ==
  ASSUME NEW a, NEW list, Len(list) \in Nat
  PROVE  \E run : renderLifecycle(a, list) = run[Len(list)] /\ HooksRun(run, a, list)
<1> DEFINE m == Len(list)
<1> DEFINE start == <<>>
<1> DEFINE Step(x, i) == WithHooks(x, a, list[i])
<1> DEFINE Def(g, k) == g = [i \in 0..k |-> IF i = 0 THEN start ELSE Step(g[i - 1], i)]
<1> DEFINE Defined == {k \in 0..m : \E g : Def(g, k)}
<1>1. 0 \in Defined
  <2>1. Def([i \in 0..0 |-> start], 0)
    OBVIOUS
  <2> HIDE DEF Def
  <2> QED
    BY <2>1
<1> HIDE DEF Step
<1>2. ASSUME NEW k \in 1..m, k - 1 \in Defined
      PROVE  k \in Defined
  <2>1. PICK g : Def(g, k - 1)
    BY <1>2
  <2> DEFINE h == [i \in 0..k |-> IF i = k THEN Step(g[k - 1], k) ELSE g[i]]
  <2>2. \A i \in 0..(k - 1) : g[i] = IF i = 0 THEN start ELSE Step(g[i - 1], i)
    BY <2>1
  <2>3. \A i \in 0..k : h[i] = IF i = k THEN Step(g[k - 1], k) ELSE g[i]
    OBVIOUS
  <2>4. h = [i \in 0..k |-> h[i]]
    OBVIOUS
  <2> HIDE DEF h
  <2>5. ASSUME NEW i \in 0..k
        PROVE  h[i] = IF i = 0 THEN start ELSE Step(h[i - 1], i)
    <3>1. i = k \/ i \in 0..(k - 1)
      OBVIOUS
    <3>2. i # 0 => i - 1 \in 0..(k - 1) /\ h[i - 1] = g[i - 1]
      BY <2>3
    <3> HIDE DEF start
    <3> QED
      BY <2>2, <2>3, <3>1, <3>2
  <2>6. Def(h, k)
    BY <2>4, <2>5
  <2> HIDE DEF Def
  <2> QED
    BY <2>6
<1> HIDE DEF Defined, Def
<1>3. m \in Defined
  <2>1. m \in Nat /\ \A k \in 1..m : k - 1 \in Defined => k \in Defined
    BY <1>2
  <2> QED
    BY <1>1, <2>1, UpTo
<1> DEFINE run == CHOOSE g : Def(g, m)
<1>4. Def(run, m)
  BY <1>3 DEF Defined
<1> USE DEF Def
<1>5. renderLifecycle(a, list) = run[m]
  BY DEF renderLifecycle, Step, WithHooks
<1>6. run[0] = start /\ \A i \in 1..m : run[i] = Step(run[i - 1], i)
  <2> HIDE DEF run
  <2>1. run = [i \in 0..m |-> IF i = 0 THEN start ELSE Step(run[i - 1], i)]
    BY <1>4
  <2>2. 0 \in 0..m /\ \A i \in 1..m : i \in 0..m /\ i # 0
    OBVIOUS
  <2> HIDE DEF m, start
  <2> QED
    BY <2>1, <2>2
<1> QED
  BY <1>5, <1>6 DEF Step, HooksRun

\* The hooks are those of components of the order, and stand as those do.
LEMMA HooksInOrder ==
  ASSUME NEW a, NEW N, NEW o \in Seq(N)
  PROVE  LET hooks == renderLifecycle(a, o)
         IN \E S, at : /\ hooks \in Seq(S)
                       /\ \A i \in 1..Len(hooks) : at[i] \in 1..Len(o) /\ o[at[i]] = hooks[i].component
                       /\ \A i, j \in 1..Len(hooks) : i < j => at[i] < at[j]
<1> DEFINE n == Len(o)
<1>0. n \in Nat
  OBVIOUS
<1>1. PICK run : /\ renderLifecycle(a, o) = run[n]
                 /\ HooksRun(run, a, o)
  BY <1>0, HooksUnroll
<1> DEFINE Placed(hooks, at, k) ==
             /\ \A i \in 1..Len(hooks) : at[i] \in 1..k /\ o[at[i]] = hooks[i].component
             /\ \A i, j \in 1..Len(hooks) : i < j => at[i] < at[j]
           Good(hooks, k) == \E S, at : hooks \in Seq(S) /\ Placed(hooks, at, k)
           Reached == {k \in 0..n : Good(run[k], k)}
<1> HIDE DEF n
<1>2. 0 \in Reached
  <2>1. <<>> \in Seq({}) /\ Placed(<<>>, <<>>, 0)
    OBVIOUS
  <2> HIDE DEF Placed
  <2>2. Good(<<>>, 0)
    BY <2>1
  <2> HIDE DEF Good
  <2> QED
    BY <1>0, <1>1, <2>2 DEF HooksRun
<1>3. ASSUME NEW k \in 1..n, k - 1 \in Reached
      PROVE  k \in Reached
  <2> DEFINE before == run[k - 1]
             hook1 == [component |-> o[k], start |-> a[o[k]].post, stop |-> a[o[k]].pre]
  <2>1. PICK S, at : before \in Seq(S) /\ Placed(before, at, k - 1)
    BY <1>3
  <2>2. run[k] = before \/ run[k] = Append(before, hook1)
    BY <1>1 DEF HooksRun, WithHooks, n
  <2>3. hook1.component = o[k]
    OBVIOUS
  <2> HIDE DEF before, hook1
  <2>4. CASE run[k] = before
    <3>1. Placed(before, at, k)
      <4>1. 1..(k - 1) \subseteq 1..k
        BY <1>0
      <4> QED
        BY <2>1, <4>1
    <3> HIDE DEF Placed
    <3>2. Good(before, k)
      BY <2>1, <3>1
    <3> HIDE DEF Good
    <3> QED
      BY <2>4, <3>2
  <2>5. CASE run[k] = Append(before, hook1)
    <3> DEFINE len == Len(before)
               more == [i \in 1..(len + 1) |-> IF i = len + 1 THEN k ELSE at[i]]
    <3>1. /\ run[k] \in Seq(S \cup {hook1}) /\ Len(run[k]) = len + 1
          /\ run[k][len + 1] = hook1 /\ len \in Nat
          /\ \A i \in 1..len : run[k][i] = before[i]
      BY <2>1, <2>5, AppendToSeq
    <3>2. more[len + 1] = k /\ \A i \in 1..len : more[i] = at[i]
      BY <3>1
    <3> HIDE DEF more
    <3>3. \A i \in 1..len : at[i] \in 1..(k - 1) /\ o[at[i]] = before[i].component
      BY <2>1
    <3>4. \A i, j \in 1..len : i < j => at[i] < at[j]
      BY <2>1
    <3> HIDE DEF len, Placed
    <3>5. \A i \in 1..(len + 1) : i = len + 1 \/ i \in 1..len
      BY <3>1
    <3>6. k \in Nat /\ \A x \in 1..(k - 1) : x \in 1..k /\ x < k
      BY <1>0
    <3>7. \A i \in 1..(len + 1) : more[i] \in 1..k /\ o[more[i]] = run[k][i].component
      BY <2>3, <3>1, <3>2, <3>3, <3>5, <3>6
    <3>8. ASSUME NEW i \in 1..(len + 1), NEW j \in 1..(len + 1), i < j
          PROVE  more[i] < more[j]
      <4>1. i \in 1..len
        BY <3>1, <3>8
      <4>2. CASE j = len + 1
        BY <3>2, <3>3, <3>6, <4>1, <4>2
      <4>3. CASE j \in 1..len
        BY <3>2, <3>4, <3>8, <4>1, <4>3
      <4> QED
        BY <3>5, <4>2, <4>3
    <3>9. Placed(run[k], more, k)
      BY <3>1, <3>7, <3>8 DEF Placed
    <3>10. Good(run[k], k)
      BY <3>1, <3>9
    <3> HIDE DEF Good
    <3> QED
      BY <3>10
  <2> QED
    BY <2>2, <2>4, <2>5
<1> HIDE DEF Good
<1>4. n \in Reached
  <2> HIDE DEF Reached
  <2> QED
    BY <1>0, <1>2, <1>3, UpTo
<1>5. Good(renderLifecycle(a, o), n)
  BY <1>1, <1>4
<1> QED
  BY <1>5 DEF Good, n

-----------------------------------------------------------------------------
(* The routes.                                                             *)

LEMMA TrimmedSeq ==
  ASSUME NEW S, NEW text \in Seq(S)
  PROVE  TrimRight(text) \in Seq(S)
<1> DEFINE Trims(n) == /\ n > 0 => text[n] # "/"
                       /\ \A i \in n + 1 .. Len(text) : text[i] = "/"
           tails == {n \in 0 .. Len(text) : \A i \in n + 1 .. Len(text) : text[i] = "/"}
           cut == CHOOSE n \in 0 .. Len(text) : Trims(n)
<1>1. Len(text) \in tails /\ tails \in SUBSET Nat
  OBVIOUS
<1>2. PICK n \in tails : \A m \in tails : n <= m
  <2> HIDE DEF tails
  <2> QED
    BY <1>1, LeastExists
<1>3. Trims(n)
  <2> SUFFICES ASSUME n > 0, text[n] = "/" PROVE FALSE
    OBVIOUS
  <2>1. n - 1 \in 0 .. Len(text)
    OBVIOUS
  <2>2. \A i \in (n - 1) + 1 .. Len(text) : i = n \/ i \in n + 1 .. Len(text)
    OBVIOUS
  <2>3. n - 1 \in tails
    BY <2>1, <2>2
  <2> QED
    BY <1>2, <2>3
<1>4. cut \in 0 .. Len(text)
  <2> HIDE DEF Trims
  <2> QED
    BY <1>3
<1>5. TrimRight(text) = SubSeq(text, 1, cut)
  BY DEF TrimRight
<1> HIDE DEF cut
<1> QED
  BY <1>4, <1>5

LEMMA JoinedPath ==
  ASSUME NEW S, NEW prefix \in Seq(S), NEW T, NEW sub \in Seq(T)
  PROVE  joinPath(prefix, sub)[1] = "/"
<1> DEFINE U == S \cup T \cup {"/"}
           left == TrimRight(prefix)
           right == Reverse(TrimRight(Reverse(sub)))
           pattern == IF right = <<>> THEN left ELSE left \o <<"/">> \o right
<1>1. prefix \in Seq(U) /\ sub \in Seq(U) /\ <<"/">> \in Seq(U)
  OBVIOUS
<1> HIDE DEF U
<1>2. \A s \in Seq(U) : Reverse(s) \in Seq(U)
  BY DEF Reverse
<1>3. left \in Seq(U) /\ right \in Seq(U)
  BY <1>1, <1>2, TrimmedSeq
<1>4. joinPath(prefix, sub) = IF pattern = <<>> \/ pattern[1] # "/" THEN <<"/">> \o pattern ELSE pattern
  BY DEF joinPath
<1> HIDE DEF left, right
<1>5. pattern \in Seq(U)
  BY <1>1, <1>3
<1>6. (<<"/">> \o pattern)[1] = "/"
  BY <1>5
<1> QED
  BY <1>4, <1>6

LEMMA MappingCarried ==
  ASSUME NEW d, mappingFor(d) # {}
  PROVE  The(mappingFor(d), {}) \in ToSet(httpMappings)
<1>1. \A i \in DOMAIN httpMappings : httpMappings[i] \in ToSet(httpMappings)
  BY Zenon DEF ToSet
<1>2. mappingFor(d) \subseteq ToSet(httpMappings)
  BY <1>1, Zenon DEF mappingFor
<1> QED
  BY <1>2 DEF The

\* Every path of a declaration is a list of characters.
PathsKnown(d) ==
  \A ann \in {"RequestMapping"} \cup {m.annotation : m \in ToSet(httpMappings)} :
    \E S : Chars[The(stringArg(d, ann, "path"), "")] \in Seq(S)

\* What RoutesServed asks of the routes of an application.
RoutesOf(found, a) ==
  /\ \A r \in found : r.pattern[1] = "/" /\ r.controller \in DOMAIN a
  /\ \A r, q \in found : SameRoute(r, q) => r = q

LEMMA RoutesDiscovered ==
  ASSUME NEW ds, DOMAIN ds \subseteq Nat, \A d \in Range(ds) : PathsKnown(d), NEW a
  PROVE  RoutesOf(discoverRoutes(ds, a).routes, a)
<1> DEFINE controllers == controllerDecls(ds, a)
           controllerOf(d) == CHOOSE c \in controllers : c.name = d.recv
           mapped == {i \in DOMAIN ds : /\ ds[i].target = "method" /\ mappingFor(ds[i]) # {}
                                        /\ \E c \in controllers : c.name = ds[i].recv}
           valid == {i \in mapped : validateHandler(ds[i].sig)}
           route(i) == buildRoute(ds[i], controllerOf(ds[i]), The(mappingFor(ds[i]), {}))
           built == [i \in valid |-> route(i)]
           repeated == {i \in valid : \E j \in valid : j < i /\ SameRoute(built[j], built[i])}
<1>1. discoverRoutes(ds, a).routes = {built[i] : i \in valid \ repeated}
  BY DEF discoverRoutes
<1>2. valid \subseteq Nat /\ \A i \in valid : ds[i] \in Range(ds)
  BY DEF Range
<1>3. \A c \in controllers : c \in Range(ds) /\ ComponentID[c.name] \in DOMAIN a
  BY DEF controllerDecls
<1>4. \A i \in valid : mappingFor(ds[i]) # {} /\ \E c \in controllers : c.name = ds[i].recv
  OBVIOUS
<1>5. \A i \in valid : built[i] = route(i)
  OBVIOUS
<1> HIDE DEF controllers, built, valid
<1>6. ASSUME NEW i \in valid
      PROVE  built[i].pattern[1] = "/" /\ built[i].controller \in DOMAIN a
  <2> DEFINE d == ds[i]
             c == controllerOf(d)
             m == The(mappingFor(d), {})
             prefix == Chars[The(stringArg(c, "RequestMapping", "path"), "")]
             sub == Chars[The(stringArg(d, m.annotation, "path"), "")]
  <2>1. c \in controllers /\ c.name = d.recv
    BY <1>4
  <2>2. m \in ToSet(httpMappings)
    BY <1>4, MappingCarried
  <2>3. built[i] = buildRoute(d, c, m)
    BY <1>5
  <2>4. d \in Range(ds)
    BY <1>2
  <2> HIDE DEF c, m, d
  <2>5. built[i].pattern = joinPath(prefix, sub) /\ built[i].controller = ComponentID[d.recv]
    <3>1. buildRoute(d, c, m).pattern = joinPath(prefix, sub)
      BY DEF buildRoute
    <3>2. buildRoute(d, c, m).controller = ComponentID[d.recv]
      BY DEF buildRoute
    <3> QED
      BY <2>3, <3>1, <3>2, Zenon
  <2>6. PathsKnown(c) /\ PathsKnown(d)
    BY <1>3, <2>1, <2>4
  <2>7. (\E S : prefix \in Seq(S)) /\ (\E S : sub \in Seq(S))
    BY <2>2, <2>6, Zenon DEF PathsKnown
  <2> HIDE DEF prefix, sub
  <2>8. joinPath(prefix, sub)[1] = "/"
    BY <2>7, JoinedPath
  <2> QED
    BY <1>3, <2>1, <2>5, <2>8
<1>7. ASSUME NEW i \in valid \ repeated, NEW j \in valid \ repeated, SameRoute(built[i], built[j])
      PROVE  i = j
  <2>1. SameRoute(built[j], built[i])
    BY <1>7 DEF SameRoute
  <2>2. ~(i < j) /\ ~(j < i)
    BY <1>7, <2>1
  <2> QED
    BY <1>2, <2>2
<1> HIDE DEF repeated
<1> QED
  BY <1>1, <1>6, <1>7 DEF RoutesOf

-----------------------------------------------------------------------------
(* The invariant of what is generated.                                     *)

ErrorReported == \E code : <<"error", code>> \in diags

DeclsInv == phase \notin {"plugins", "scan"} => decls = scanned(source.decls)

RoutesInv == (Outside /\ phase # "routes" => RoutesOf(routes, app)) /\ (~Outside \/ phase = "routes" => routes = {})

\* A proxy depends on its target, and is numbered after it.
TargetInv ==
  Selected /\ phase # "proxies" =>
    \A n \in components : app[n].kind = "proxy" =>
      /\ app[n].target # None /\ n = Proxy(app[n].target)
      /\ \E i \in DOMAIN app[n].deps : app[n].deps[i].to = app[n].target

\* A dependency is bound to another component; one that could not be bound has
\* been reported.
BoundInv ==
  Selected /\ phase # "proxies" =>
    \A n \in components : \A i \in DOMAIN app[n].deps :
      LET c == app[n].deps[i].to
      IN /\ c # None => c \in components \ {n}
         /\ c = None /\ Outside => ErrorReported

\* The graph is that of the application, and a cycle in it has been reported.
Ending == phase \in {"host", "generate", "contribute", "done"}
BuiltInv ==
  /\ phase = "order" \/ Ending =>
       /\ nodes = components
       /\ edges = [n \in components |-> {d \in DependsOn(n) : d \in components /\ d # n}]
  /\ Ending => search = "ordered" \/ (search = "cycle" /\ ErrorReported)

\* What is generated stays the wiring of the application.
WiringInv ==
  /\ phase \notin {"contribute", "done"} => wiring = {}
  /\ phase = "contribute" => wiring # {}
  /\ \A w \in wiring : /\ search = "ordered"
                       /\ \E d \in Dialect(source.dialect) : w \in Generate(app, order, routes, d)
  /\ WiringFollows

\* What the later phases leave of a component.
Kept(n) == Carried(n) /\ app'[n].deps = app[n].deps /\ app'[n].target = app[n].target

LEMMA LateSteps ==
  ASSUME AppInv, [Next]_vars, Outside
  PROVE  /\ Outside' /\ components' = components /\ \A n \in components : Kept(n)
         /\ diags \subseteq diags'
<1> USE DEF Phase, analysisVars
<1>1. \/ DiscoverRoutes \/ DiscoverExceptionHandlers \/ DiscoverLifecycle \/ DiscoverScheduled
      \/ DiscoverRepositories \/ BuildGraph \/ SearchStep \/ ReportCycle
      \/ HostAnalyze \/ GenerateWiring \/ HostGenerate \/ Rests
  BY Steps DEF Outside, Analyze, AnalyzeWith, RegisterAnnotations, Scan, Discover, FilterByProfile, NutRound,
     DiscoverProxies, Resolve, Rests
<1>2. Outside' /\ diags \subseteq diags'
  BY <1>1, Zenon DEF Outside, DiscoverRoutes, DiscoverExceptionHandlers, DiscoverLifecycle, DiscoverScheduled,
     DiscoverRepositories, BuildGraph, SearchStep, ReportCycle, HostAnalyze, GenerateWiring, HostGenerate, Rests
<1>3. \A n \in components : DOMAIN app[n] = Fields
  BY DEF AppInv, ShapeInv, Outside, Selected
<1>4. components' = components /\ \A n \in components : Kept(n)
  <2>1. CASE UNCHANGED app
    BY <2>1 DEF components, Kept, Carried
  <2>2. CASE DiscoverExceptionHandlers
    BY <1>3, <2>2 DEF DiscoverExceptionHandlers, components, Kept, Carried, Fields
  <2>3. CASE DiscoverLifecycle
    BY <1>3, <2>3, Zenon DEF DiscoverLifecycle, components, Kept, Carried, Fields
  <2>4. CASE DiscoverScheduled
    BY <1>3, <2>4 DEF DiscoverScheduled, components, Kept, Carried, Fields
  <2>5. CASE DiscoverRepositories
    <3>1. ASSUME NEW n \in components
          PROVE  app'[n] = app[n] \/ \E q : app'[n] = [app[n] EXCEPT !.queries = q]
      <4>1. app'[n] = IF app[n].build = "repository"
                      THEN [app[n] EXCEPT !.queries = repositoryMethods(decls, n)] ELSE app[n]
        BY <2>5, <3>1 DEF DiscoverRepositories
      <4> QED
        BY <4>1
    <3>2. components' = components
      BY <2>5 DEF DiscoverRepositories, components
    <3> QED
      BY <1>3, <3>1, <3>2 DEF Kept, Carried, Fields
  <2> QED
    BY <1>1, <2>1, <2>2, <2>3, <2>4, <2>5 DEF DiscoverRoutes, BuildGraph, SearchStep, ReportCycle, HostAnalyze,
       GenerateWiring, HostGenerate, Rests
<1> QED
  BY <1>2, <1>4

LEMMA DeclsKept == DeclsInv /\ [Next]_vars => DeclsInv'
BY Steps, Zenon DEF DeclsInv, Analyze, AnalyzeWith, RegisterAnnotations, Scan, Discover, FilterByProfile, NutRound,
   DiscoverProxies, Resolve, DiscoverRoutes, DiscoverExceptionHandlers, DiscoverLifecycle, DiscoverScheduled,
   DiscoverRepositories, BuildGraph, SearchStep, ReportCycle, HostAnalyze, GenerateWiring, HostGenerate, Rests,
   analysisVars, Phase

LEMMA EarlySteps ==
  ASSUME [Next]_vars, ~Outside
  PROVE  /\ UNCHANGED <<source, routes, graphVars, wiring>>
         /\ ~Outside' \/ (phase = "resolve" /\ phase' = "routes")
BY Steps, Zenon DEF Outside, Analyze, AnalyzeWith, RegisterAnnotations, Scan, Discover, FilterByProfile, NutRound,
   DiscoverProxies, Resolve, DiscoverRoutes, DiscoverExceptionHandlers, DiscoverLifecycle, DiscoverScheduled,
   DiscoverRepositories, BuildGraph, SearchStep, ReportCycle, HostAnalyze, GenerateWiring, HostGenerate, Rests,
   analysisVars, Phase

LEMMA RoutesKept ==
  ASSUME AppInv, DeclsInv, RoutesInv, [Next]_vars
  PROVE  RoutesInv'
<1>1. CASE ~Outside
  BY <1>1, EarlySteps DEF RoutesInv, Outside
<1>2. CASE phase = "routes"
  <2>1. CASE DiscoverRoutes
    <3>1. routes' = discoverRoutes(decls, app).routes /\ app' = app /\ phase' = "handlers"
      BY <2>1 DEF DiscoverRoutes, Phase
    <3>2. PICK family \in DOMAIN Sources : source \in Sources[family]
      BY DEF AppInv, SourceInv
    <3>3. decls = scanned(source.decls)
      BY <1>2 DEF DeclsInv
    <3>4. \A d \in Range(decls) : PathsKnown(d)
      BY <3>2, <3>3, SourcesAssumption, Zenon DEF PathsKnown
    <3>5. DOMAIN decls \subseteq Nat
      BY <3>2, <3>3, DeclarationsPlaced
    <3>6. RoutesOf(routes', app')
      BY <3>1, <3>4, <3>5, RoutesDiscovered
    <3> QED
      BY <3>1, <3>6 DEF RoutesInv, Outside
  <2>2. CASE Rests
    BY <2>2 DEF analysisVars, RoutesInv, Outside, Rests
  <2> QED
    BY <1>2, <2>1, <2>2, Steps DEF Analyze, AnalyzeWith, RegisterAnnotations, Scan, Discover, FilterByProfile,
       NutRound, DiscoverProxies, Resolve, DiscoverExceptionHandlers, DiscoverLifecycle, DiscoverScheduled,
       DiscoverRepositories, BuildGraph, SearchStep, ReportCycle, HostAnalyze, GenerateWiring, HostGenerate, Phase,
       Rests
<1>3. CASE Outside /\ phase # "routes"
  <2>1. routes' = routes /\ phase' # "routes"
    BY <1>3, Steps, Zenon DEF Outside, Analyze, AnalyzeWith, RegisterAnnotations, Scan, Discover, FilterByProfile,
       NutRound, DiscoverProxies, Resolve, DiscoverRoutes, DiscoverExceptionHandlers, DiscoverLifecycle,
       DiscoverScheduled, DiscoverRepositories, BuildGraph, SearchStep, ReportCycle, HostAnalyze, GenerateWiring,
       HostGenerate, Rests, analysisVars, Phase
  <2>2. Outside' /\ DOMAIN app' = DOMAIN app
    BY <1>3, LateSteps DEF components
  <2> QED
    BY <1>3, <2>1, <2>2 DEF RoutesInv, RoutesOf
<1> QED
  BY <1>1, <1>2, <1>3

\* What the steps before the binding lead to.
LEMMA FirstSteps ==
  ASSUME [Next]_vars, ~Selected
  PROVE  ~Selected' \/ phase' = "proxies"
BY Steps, Zenon DEF Selected, Analyze, AnalyzeWith, RegisterAnnotations, Scan, Discover, FilterByProfile, NutRound,
   DiscoverProxies, Resolve, DiscoverRoutes, DiscoverExceptionHandlers, DiscoverLifecycle, DiscoverScheduled,
   DiscoverRepositories, BuildGraph, SearchStep, ReportCycle, HostAnalyze, GenerateWiring, HostGenerate, Rests,
   analysisVars, Phase

LEMMA MiddleSteps ==
  ASSUME [Next]_vars, phase \in {"proxies", "resolve"}
  PROVE  \/ phase = "proxies" /\ DiscoverProxies
         \/ phase = "resolve" /\ Resolve
         \/ Rests
BY Steps, Zenon DEF Analyze, AnalyzeWith, RegisterAnnotations, Scan, Discover, FilterByProfile, NutRound,
   DiscoverProxies, Resolve, DiscoverRoutes, DiscoverExceptionHandlers, DiscoverLifecycle, DiscoverScheduled,
   DiscoverRepositories, BuildGraph, SearchStep, ReportCycle, HostAnalyze, GenerateWiring, HostGenerate, Phase, Rests

\* A new proxy depends on its target alone.
LEMMA ProxiesBindTargets ==
  ASSUME AppInv, DiscoverProxies
  PROVE  TargetInv' /\ BoundInv'
<1>1. phase' = "resolve"
  BY DEF DiscoverProxies, Phase
<1>2. \A c \in components : c \in Nat /\ c % 2 = 0 /\ Fresh(app[c])
  BY ProxiesDiscovered
<1>3. PICK targets \in SUBSET components :
        /\ components' = {Proxy(c) : c \in targets} \cup components
        /\ \A c \in components : app'[c].kind = app[c].kind /\ app'[c].deps = app[c].deps
        /\ \A c \in targets :
             LET p == app'[Proxy(c)]
             IN /\ Proxy(c) \in Nat /\ p.target = c
                /\ 1 \in DOMAIN p.deps /\ \A i \in DOMAIN p.deps : p.deps[i].to = c
  BY ProxiesDiscovered
<1>4. \A c \in components : app'[c].kind # "proxy" /\ \A i \in DOMAIN app'[c].deps : app'[c].deps[i].to = None
  BY <1>2, <1>3 DEF Fresh
<1>5. \A c \in targets : c # None /\ c # Proxy(c) /\ c \in components'
  BY <1>2, <1>3 DEF None, Proxy
<1>6. ASSUME NEW n \in components'
      PROVE  /\ app'[n].kind = "proxy" =>
                  /\ app'[n].target # None /\ n = Proxy(app'[n].target)
                  /\ \E i \in DOMAIN app'[n].deps : app'[n].deps[i].to = app'[n].target
             /\ \A i \in DOMAIN app'[n].deps :
                  LET c == app'[n].deps[i].to
                  IN c # None => c \in components' \ {n}
  <2>1. CASE n \in components
    BY <1>4, <2>1
  <2>2. ASSUME NEW c \in targets, n = Proxy(c) PROVE <1>6!2
    BY <1>3, <1>5, <2>2
  <2> QED
    BY <1>3, <2>1, <2>2
<1> QED
  BY <1>1, <1>6 DEF TargetInv, BoundInv, Outside, Proxy

\* A candidate is another component.
LEMMA BindingIsAnother ==
  ASSUME NEW n, NEW want, Binding(n, want) # None
  PROVE  Binding(n, want) \in components \ {n}
<1>1. \A S : IsSingleton(S) => TheOnly(S) \in S
  BY DEF IsSingleton, TheOnly
<1> QED
  BY <1>1 DEF Binding, filterPrimary, resolutionCandidates

LEMMA DependencyBound ==
  ASSUME NEW n, NEW dep, DOMAIN dep = {"type", "to"}
  PROVE  LET r == resolveDependency(n, dep)
         IN /\ dep.to # None => r = dep
            /\ dep.to = None /\ r.to # None => r.to \in components \ {n}
<1>1. CASE dep.to # None
  BY <1>1 DEF resolveDependency
<1>2. CASE dep.to = None
  <2>1. resolveDependency(n, dep) =
          [dep EXCEPT !.to = IF proxiedConcreteMatch(n, dep.type) THEN None ELSE Binding(n, dep.type)]
    BY <1>2 DEF resolveDependency
  <2>2. resolveDependency(n, dep).to = IF proxiedConcreteMatch(n, dep.type) THEN None ELSE Binding(n, dep.type)
    BY <2>1
  <2> QED
    BY <1>2, <2>2, BindingIsAnother
<1> QED
  BY <1>1, <1>2

LEMMA ResolveBinds ==
  ASSUME AppInv, TargetInv, BoundInv, Resolve
  PROVE  TargetInv' /\ BoundInv'
<1>1. /\ phase = "resolve" /\ phase' = "routes"
      /\ app' = [n \in components |->
                  [app[n] EXCEPT !.deps = [i \in DOMAIN app[n].deps |-> resolveDependency(n, app[n].deps[i])]]]
      /\ diags' = diags \cup ErrorsOf(UNION {dependencyCodes(n) : n \in components})
  BY DEF Resolve, Phase
<1>2. \A n \in components : /\ DOMAIN app[n] = Fields
                            /\ \A i \in DOMAIN app[n].deps : DOMAIN app[n].deps[i] = {"type", "to"}
  BY <1>1 DEF AppInv, ShapeInv, Selected
<1>3. components' = components
  BY <1>1 DEF components
<1>4. \A n \in components : /\ app'[n].kind = app[n].kind /\ app'[n].target = app[n].target
        /\ app'[n].deps = [i \in DOMAIN app[n].deps |-> resolveDependency(n, app[n].deps[i])]
  BY <1>1, <1>2 DEF Fields
<1>5. ASSUME NEW n \in components
      PROVE  /\ DOMAIN app'[n].deps = DOMAIN app[n].deps
             /\ \A i \in DOMAIN app[n].deps :
                  LET dep == app[n].deps[i]
                  IN /\ app'[n].deps[i] = resolveDependency(n, dep)
                     /\ dep.to # None => app'[n].deps[i] = dep
                     /\ dep.to = None /\ app'[n].deps[i].to # None =>
                          app'[n].deps[i].to \in components \ {n}
  <2>1. app'[n].deps = [i \in DOMAIN app[n].deps |-> resolveDependency(n, app[n].deps[i])]
    BY <1>4
  <2>2. ASSUME NEW i \in DOMAIN app[n].deps
        PROVE  LET dep == app[n].deps[i]
               IN /\ dep.to # None => resolveDependency(n, dep) = dep
                  /\ dep.to = None /\ resolveDependency(n, dep).to # None =>
                       resolveDependency(n, dep).to \in components \ {n}
    <3>1. DOMAIN app[n].deps[i] = {"type", "to"}
      BY <1>2
    <3> QED
      BY <3>1, DependencyBound
  <2> QED
    BY <2>1, <2>2
<1>6. ASSUME NEW n \in components, NEW i \in DOMAIN app[n].deps, app'[n].deps[i].to = None
      PROVE  ErrorReported'
  <2> DEFINE dep == app[n].deps[i]
  <2>1. dep \in ToSet(app[n].deps) /\ resolveDependency(n, dep).to = None
    BY <1>5, <1>6 DEF ToSet
  <2>2. DependencyCode(n, dep.type) \in dependencyCodes(n)
    BY <2>1 DEF dependencyCodes
  <2>3. <<"error", DependencyCode(n, dep.type)>> \in diags'
    BY <1>1, <2>2 DEF ErrorsOf
  <2> QED
    BY <2>3 DEF ErrorReported
<1>7. BoundInv'
  <2> SUFFICES ASSUME NEW n \in components, NEW i \in DOMAIN app'[n].deps
               PROVE  LET c == app'[n].deps[i].to
                      IN /\ c # None => c \in components \ {n}
                         /\ c = None => ErrorReported'
    BY <1>3 DEF BoundInv
  <2>1. i \in DOMAIN app[n].deps
    BY <1>5
  <2>2. app[n].deps[i].to # None => app[n].deps[i].to \in components \ {n}
    BY <1>1, <2>1 DEF BoundInv, Selected
  <2> QED
    BY <1>5, <1>6, <2>1, <2>2
<1>8. TargetInv'
  <2>1. ASSUME NEW n \in components, app'[n].kind = "proxy"
        PROVE  /\ app'[n].target # None /\ n = Proxy(app'[n].target)
               /\ \E i \in DOMAIN app'[n].deps : app'[n].deps[i].to = app'[n].target
    <3>1. app[n].kind = "proxy" /\ app'[n].target = app[n].target
      BY <1>4, <2>1
    <3>2. /\ app[n].target # None /\ n = Proxy(app[n].target)
          /\ \E i \in DOMAIN app[n].deps : app[n].deps[i].to = app[n].target
      BY <1>1, <3>1 DEF TargetInv, Selected
    <3> QED
      BY <1>5, <3>1, <3>2
  <2> QED
    BY <1>3, <2>1 DEF TargetInv, Proxy
<1> QED
  BY <1>7, <1>8

LEMMA BindingKept ==
  ASSUME AppInv, TargetInv, BoundInv, [Next]_vars
  PROVE  TargetInv' /\ BoundInv'
<1>1. CASE ~Selected
  <2>1. ~Selected' \/ phase' = "proxies"
    BY <1>1, FirstSteps
  <2> QED
    BY <2>1 DEF TargetInv, BoundInv, Selected
<1>2. CASE phase \in {"proxies", "resolve"}
  <2>1. CASE Rests
    BY <2>1, Zenon DEF analysisVars, TargetInv, BoundInv, Selected, Outside, ErrorReported, components, Proxy, Rests
  <2> QED
    BY <1>2, <2>1, MiddleSteps, ProxiesBindTargets, ResolveBinds
<1>3. CASE Outside
  <2>1. components' = components /\ diags \subseteq diags'
        /\ \A n \in components : app'[n].kind = app[n].kind /\ app'[n].deps = app[n].deps
                                  /\ app'[n].target = app[n].target
    BY <1>3, LateSteps DEF Kept, Carried
  <2>2. Selected /\ phase # "proxies"
    BY <1>3 DEF Outside, Selected
  <2>3. ErrorReported => ErrorReported'
    BY <2>1 DEF ErrorReported
  <2>4. \A n \in components : app[n].kind = "proxy" =>
          /\ app[n].target # None /\ n = Proxy(app[n].target)
          /\ \E i \in DOMAIN app[n].deps : app[n].deps[i].to = app[n].target
    BY <2>2 DEF TargetInv
  <2>5. \A n \in components : \A i \in DOMAIN app[n].deps :
          /\ app[n].deps[i].to # None => app[n].deps[i].to \in components \ {n}
          /\ app[n].deps[i].to = None => ErrorReported'
    BY <1>3, <2>2, <2>3 DEF BoundInv
  <2>6. TargetInv'
    BY <2>1, <2>4 DEF TargetInv, Proxy
  <2>7. BoundInv'
    BY <2>1, <2>5 DEF BoundInv
  <2> QED
    BY <2>6, <2>7
<1> QED
  BY <1>1, <1>2, <1>3 DEF Selected, Outside

LEMMA BuiltKept ==
  ASSUME AppInv, BuiltInv, [Next]_vars
  PROVE  BuiltInv'
<1>1. CASE ~Outside
  BY <1>1, EarlySteps DEF BuiltInv, Outside, Ending
<1>2. CASE Outside
  <2> DEFINE Graph(C, D) == [n \in C |-> {d \in D[n] : d \in C /\ d # n}]
  <2>0. /\ components' = components /\ diags \subseteq diags'
        /\ \A n \in components : DependsOn(n)' = DependsOn(n)
    BY <1>2, LateSteps DEF Kept, DependsOn
  <2>1. CASE BuildGraph
    <3>1. /\ phase' = "order" /\ nodes' = components
          /\ edges' = [n \in components |-> {d \in DependsOn(n) : d \in components /\ d # n}]
      BY <2>1 DEF BuildGraph, Build
    <3> QED
      BY <2>0, <3>1 DEF BuiltInv, Ending
  <2>2. CASE ~BuildGraph /\ phase \notin {"order"} /\ ~Ending
    <3>1. phase' # "order" /\ ~Ending'
      BY <1>2, <2>2, Steps, Zenon DEF Outside, Ending, Analyze, AnalyzeWith, RegisterAnnotations, Scan, Discover,
         FilterByProfile, NutRound, DiscoverProxies, Resolve, DiscoverRoutes, DiscoverExceptionHandlers,
         DiscoverLifecycle, DiscoverScheduled, DiscoverRepositories, SearchStep, ReportCycle, HostAnalyze,
         GenerateWiring, HostGenerate, Rests, analysisVars, Phase
    <3> QED
      BY <3>1 DEF BuiltInv
  <2>3. CASE phase = "order" \/ Ending
    <3>1. /\ nodes' = nodes /\ edges' = edges
          /\ Ending' => \/ Ending /\ search' = search
                        \/ /\ phase = "order" /\ search' = search /\ search \in {"ordered", "cycle"}
                           /\ search = "cycle" => <<"error", "GOBDI005">> \in diags'
      <4>1. CASE SearchStep
        BY <2>3, <4>1
        DEF SearchStep, analysisVars, Ending, ConstructionOrder, VisitRoot, VisitDep, SkipDep, BackEdge,
            Leave, Ordered
      <4>2. CASE ReportCycle
        BY <4>2 DEF ReportCycle, Phase, graphVars, cycleDiagnostic, ErrorsOf
      <4>3. CASE ~SearchStep /\ ~ReportCycle
        BY <2>3, <4>3, Steps, Zenon DEF Ending, Analyze, AnalyzeWith, RegisterAnnotations, Scan, Discover,
           FilterByProfile, NutRound, DiscoverProxies, Resolve, DiscoverRoutes, DiscoverExceptionHandlers,
           DiscoverLifecycle, DiscoverScheduled, DiscoverRepositories, BuildGraph, HostAnalyze, GenerateWiring,
           HostGenerate, Rests, analysisVars, Phase, graphVars
      <4> QED
        BY <4>1, <4>2, <4>3
    <3>2. ErrorReported => ErrorReported'
      BY <2>0 DEF ErrorReported
    <3>3. <<"error", "GOBDI005">> \in diags' => ErrorReported'
      BY DEF ErrorReported
    <3>4. /\ nodes = components
          /\ edges = [n \in components |-> {d \in DependsOn(n) : d \in components /\ d # n}]
      BY <2>3 DEF BuiltInv
    <3>5. edges' = [n \in components |-> {d \in DependsOn(n)' : d \in components /\ d # n}]
      BY <2>0, <3>1, <3>4
    <3>6. Ending' => search' = "ordered" \/ (search' = "cycle" /\ ErrorReported')
      BY <3>1, <3>2, <3>3 DEF BuiltInv
    <3> QED
      BY <2>0, <3>1, <3>4, <3>5, <3>6 DEF BuiltInv
  <2> QED
    BY <2>1, <2>2, <2>3
<1> QED
  BY <1>1, <1>2

\* Without an error everything is bound and in order.
LEMMA ReadyToGenerate ==
  ASSUME GraphInv, BoundInv, BuiltInv, phase = "generate", ~blocking(diags)
  PROVE  search = "ordered" /\ renderable(app, order)
<1>1. ~ErrorReported
  <2>1. ASSUME NEW code, <<"error", code>> \in diags PROVE FALSE
    <3>1. <<"error", code>>[1] = "error"
      OBVIOUS
    <3> QED
      BY <2>1, <3>1 DEF blocking
  <2> QED
    BY <2>1 DEF ErrorReported
<1>2. search = "ordered"
  BY <1>1 DEF BuiltInv, Ending
<1>3. ToSet(order) = components
  <2>1. DOMAIN order = 1..Len(order)
    BY DEF GraphInv, GraphTypeOK
  <2>2. Elements(order) = components
    BY <1>2 DEF GraphInv, DependenciesPrecede, BuiltInv, Ending
  <2> QED
    BY <2>1, <2>2 DEF Elements, ToSet
<1>4. \A n \in components : \A i \in DOMAIN app[n].deps : app[n].deps[i].to \in components
  BY <1>1 DEF BoundInv, Selected, Outside
<1> QED
  BY <1>2, <1>3, <1>4 DEF renderable

LEMMA WiringKept ==
  ASSUME AppInv, GraphInv, FilesInv, BoundInv, BuiltInv, WiringInv, [Next]_vars
  PROVE  WiringInv'
<1>1. CASE GenerateWiring
  <2>1. /\ phase = "generate" /\ UNCHANGED <<source, app, order, routes, search, diags>>
        /\ wiring' = IF search = "ordered"
                     THEN UNION {Generate(app, order, routes, d) : d \in Dialect(source.dialect)} ELSE {}
        /\ phase' = IF wiring' = {} THEN "done" ELSE "contribute"
    BY <1>1 DEF GenerateWiring, graphVars, searchVars
  <2>2. search = "ordered" /\ renderable(app, order)
    BY <2>1, ReadyToGenerate DEF FilesInv
  <2>3. \A d : Generate(app, order, routes, d) # {}
    BY <2>2 DEF Generate
  <2>4. wiring' = {} => Dialect(source.dialect) = {}
    BY <2>1, <2>2, <2>3
  <2>5. Dialect(source.dialect)' = Dialect(source.dialect)
    BY <2>1 DEF Dialect
  <2>6. \A w \in wiring' : \E d \in Dialect(source.dialect) : w \in Generate(app, order, routes, d)
    BY <2>1, <2>2
  <2>7. \A w \in wiring' : \E d \in Dialect(source.dialect)' : w \in Generate(app, order, routes, d)'
    BY <2>1, <2>5, <2>6
  <2> QED
    BY <2>1, <2>2, <2>4, <2>5, <2>7 DEF WiringInv, WiringFollows
<1>2. CASE HostAnalyze
  <2>1. phase = "host" /\ wiring' = wiring /\ phase' = (IF blocking(diags)' THEN "done" ELSE "generate")
    BY <1>2 DEF HostAnalyze, blocking
  <2> QED
    BY <2>1 DEF WiringInv, WiringFollows
<1>3. CASE HostGenerate
  <2>1. /\ phase = "contribute" /\ phase' = "done" /\ UNCHANGED <<source, app, order, routes, search, wiring>>
    BY <1>3 DEF HostGenerate, graphVars, searchVars
  <2> QED
    BY <2>1 DEF WiringInv, WiringFollows, Dialect
<1>4. CASE Rests
  <2>1. UNCHANGED <<phase, source, app, order, routes, search, wiring, diags>>
    BY <1>4 DEF analysisVars, graphVars, searchVars, Rests
  <2> QED
    BY <2>1 DEF WiringInv, WiringFollows, Dialect, blocking
<1>5. CASE ~GenerateWiring /\ ~HostAnalyze /\ ~HostGenerate /\ ~Rests
  <2>1. wiring' = wiring /\ phase \notin {"contribute", "done"} /\ phase' \notin {"contribute", "done"}
    BY <1>5, Steps, Zenon DEF Analyze, AnalyzeWith, RegisterAnnotations, Scan, Discover, FilterByProfile, NutRound,
       DiscoverProxies, Resolve, DiscoverRoutes, DiscoverExceptionHandlers, DiscoverLifecycle, DiscoverScheduled,
       DiscoverRepositories, BuildGraph, SearchStep, ReportCycle, analysisVars, Phase, Rests
  <2> QED
    BY <2>1 DEF WiringInv, WiringFollows
<1> QED
  BY <1>1, <1>2, <1>3, <1>4, <1>5

-----------------------------------------------------------------------------
(* What follows for the wiring.                                            *)

GenInv == DeclsInv /\ RoutesInv /\ TargetInv /\ BoundInv /\ BuiltInv /\ WiringInv

\* What is behind a wiring.
LEMMA BehindTheWiring ==
  ASSUME GenInv, NEW w \in wiring
  PROVE  /\ search = "ordered" /\ Ending /\ Outside /\ renderable(app, order)
         /\ \E features, names :
              /\ features = detectFeatures(app, routes)
              /\ names = assignNames(app, order, reserved(app, order, features))
              /\ w.params = buildComponentsParams(features)
              /\ w.aliases = reserved(app, order, features)
              /\ w.statements = [i \in DOMAIN order |-> renderConstructor(order[i], app[order[i]], names)]
         /\ w.lifecycle = renderLifecycle(app, order)
         /\ w.tasks = renderScheduler(app, order)
         /\ w.proxies = renderProxies(app) /\ w.routes = routes
         /\ w.dispatcher = renderExceptionDispatcher(app, routes)
         /\ \E d : w.repositories = [c \in {x \in DOMAIN app : app[x].build = "repository"} |->
                                     renderRepository(app[c].queries, d)]
<1> DEFINE features == detectFeatures(app, routes)
           names == assignNames(app, order, reserved(app, order, features))
<1>1. search = "ordered" /\ phase \in {"contribute", "done"}
  BY DEF GenInv, WiringInv
<1>2. PICK d \in Dialect(source.dialect) : w \in Generate(app, order, routes, d)
  BY DEF GenInv, WiringInv
<1>3. renderable(app, order)
  BY <1>2 DEF Generate
<1>4. w = [params |-> buildComponentsParams(features),
           aliases |-> reserved(app, order, features),
           statements |-> [i \in DOMAIN order |-> renderConstructor(order[i], app[order[i]], names)],
           lifecycle |-> renderLifecycle(app, order),
           tasks |-> renderScheduler(app, order),
           repositories |-> [c \in {x \in DOMAIN app : app[x].build = "repository"} |->
                               renderRepository(app[c].queries, d)],
           proxies |-> renderProxies(app),
           routes |-> routes,
           dispatcher |-> renderExceptionDispatcher(app, routes),
           application |-> emitsApplication(features)]
  BY <1>2, <1>3 DEF Generate
<1> HIDE DEF features, names
<1>5. /\ w.params = buildComponentsParams(features)
      /\ w.aliases = reserved(app, order, features)
      /\ w.statements = [i \in DOMAIN order |-> renderConstructor(order[i], app[order[i]], names)]
      /\ w.lifecycle = renderLifecycle(app, order)
      /\ w.tasks = renderScheduler(app, order)
      /\ w.proxies = renderProxies(app) /\ w.routes = routes
      /\ w.dispatcher = renderExceptionDispatcher(app, routes)
      /\ w.repositories = [c \in {x \in DOMAIN app : app[x].build = "repository"} |->
                             renderRepository(app[c].queries, d)]
  BY <1>4
<1> QED
  BY <1>1, <1>3, <1>5 DEF features, names, Ending, Outside

\* In the order every component stands once, after what it depends on.
LEMMA OrderOfTheWiring ==
  ASSUME AppInv, GraphInv, GenInv, search = "ordered", Ending, renderable(app, order)
  PROVE  /\ components \subseteq Nat /\ order \in Seq(components) /\ DOMAIN order = 1..Len(order)
         /\ Elements(order) = components
         /\ \A i, j \in 1..Len(order) : order[i] = order[j] => i = j
         /\ \A i \in 1..Len(order) : \A k \in DOMAIN app[order[i]].deps :
              \E j \in 1..(i - 1) : order[j] = app[order[i]].deps[k].to
<1>1. nodes = components /\ edges = [n \in components |-> {d \in DependsOn(n) : d \in components /\ d # n}]
  BY DEF GenInv, BuiltInv
<1>2. order \in Seq(components) /\ DOMAIN order = 1..Len(order) /\ Len(order) \in Nat
  BY <1>1 DEF GraphInv, GraphTypeOK
<1>3. Selected /\ phase # "proxies" /\ components \subseteq Nat
  BY DEF Ending, Selected, AppInv, ShapeInv
<1>4. /\ Elements(order) = components
      /\ \A i \in 1..Len(order) : /\ \A d \in edges[order[i]] : \E j \in 1..(i - 1) : order[j] = d
                                  /\ \A j \in 1..(i - 1) : order[j] # order[i]
  BY <1>1 DEF GraphInv, DependenciesPrecede
<1>5. ASSUME NEW i \in 1..Len(order), NEW j \in 1..Len(order), order[i] = order[j]
      PROVE  i = j
  <2>1. ~(i < j) /\ ~(j < i)
    BY <1>4, <1>5
  <2> QED
    BY <2>1
<1>6. ASSUME NEW i \in 1..Len(order), NEW k \in DOMAIN app[order[i]].deps
      PROVE  \E j \in 1..(i - 1) : order[j] = app[order[i]].deps[k].to
  <2> DEFINE n == order[i]
             c == app[n].deps[k].to
  <2>1. n \in components /\ n \in ToSet(order)
    BY <1>2 DEF ToSet
  <2>2. c \in ToSet(order)
    BY <1>6, <2>1 DEF renderable
  <2>3. c \in components
    BY <1>2, <2>2 DEF ToSet
  <2>4. c # None
    BY <1>3, <2>3 DEF None
  <2>5. c \in components \ {n}
    BY <1>3, <1>6, <2>1, <2>4 DEF GenInv, BoundInv
  <2>6. c \in DependsOn(n)
    BY <1>6, <2>4 DEF DependsOn
  <2>7. c \in edges[n]
    BY <1>1, <2>1, <2>5, <2>6
  <2> HIDE DEF c
  <2>8. \E j \in 1..(i - 1) : order[j] = c
    BY <1>4, <2>7
  <2> QED
    BY <2>8 DEF c
<1> QED
  BY <1>2, <1>3, <1>4, <1>5, <1>6

LEMMA FeaturesOf ==
  ASSUME NEW a, NEW rs, NEW c \in DOMAIN a
  PROVE  /\ a[c].kind = "proxy" => "proxies" \in detectFeatures(a, rs)
         /\ a[c].build = "config" => "config" \in detectFeatures(a, rs)
         /\ a[c].build = "repository" => "repos" \in detectFeatures(a, rs)
BY DEF detectFeatures

LEMMA ArgumentsOf ==
  ASSUME NEW id, NEW c, NEW names
  PROVE  LET inputs == constructorArgs(id, c, names)
         IN \/ c.kind = "proxy" /\ ToSet(inputs) = {names[c.target].local, "proxyDeps"}
            \/ c.build = "config" /\ ToSet(inputs) = {"configSource"}
            \/ c.build = "repository" /\ ToSet(inputs) = {"dbProvider"}
            \/ ToSet(inputs) = {names[c.deps[i].to].local : i \in DOMAIN c.deps}
<1> DEFINE inputs == constructorArgs(id, c, names)
           locals == [i \in DOMAIN c.deps |-> names[c.deps[i].to].local]
<1>1. \/ c.kind = "proxy" /\ inputs = <<names[c.target].local, "proxyDeps">>
      \/ c.build = "config" /\ inputs = <<"configSource">>
      \/ c.build = "repository" /\ inputs = <<"dbProvider">>
      \/ inputs = locals
  BY DEF constructorArgs
<1>2. \A x, y : ToSet(<<x, y>>) = {x, y} /\ ToSet(<<x>>) = {x}
  <2> TAKE x, y
  <2>1. DOMAIN <<x, y>> = {1, 2} /\ DOMAIN <<x>> = {1}
    OBVIOUS
  <2>2. {<<x, y>>[i] : i \in {1, 2}} = {x, y} /\ {<<x>>[i] : i \in {1}} = {x}
    OBVIOUS
  <2> QED
    BY <2>1, <2>2 DEF ToSet
<1>3. ToSet(locals) = {names[c.deps[i].to].local : i \in DOMAIN c.deps}
  BY DEF ToSet
<1> HIDE DEF inputs, locals
<1>4. \/ c.kind = "proxy" /\ ToSet(inputs) = {names[c.target].local, "proxyDeps"}
      \/ c.build = "config" /\ ToSet(inputs) = {"configSource"}
      \/ c.build = "repository" /\ ToSet(inputs) = {"dbProvider"}
      \/ ToSet(inputs) = {names[c.deps[i].to].local : i \in DOMAIN c.deps}
  BY <1>1, <1>2, <1>3
<1> QED
  BY <1>4 DEF inputs

\* An argument is a parameter, or the variable of a dependency.
LEMMA ArgumentsComeFrom ==
  ASSUME TargetInv, Selected, phase # "proxies", NEW id \in components, NEW names,
         NEW var \in ToSet(constructorArgs(id, app[id], names))
  PROVE  \/ var \in buildComponentsParams(detectFeatures(app, routes))
         \/ \E i \in DOMAIN app[id].deps : var = names[app[id].deps[i].to].local
<1> DEFINE features == detectFeatures(app, routes)
           params == buildComponentsParams(features)
           c == app[id]
<1>1. /\ c.kind = "proxy" => "proxyDeps" \in params
      /\ c.build = "config" => "configSource" \in params
      /\ c.build = "repository" => "dbProvider" \in params
  <2> HIDE DEF features
  <2>1. /\ c.kind = "proxy" => "proxies" \in features
        /\ c.build = "config" => "config" \in features
        /\ c.build = "repository" => "repos" \in features
    BY FeaturesOf DEF components, features
  <2> QED
    BY <2>1, ParametersOf
<1>2. c.kind = "proxy" => \E i \in DOMAIN c.deps : c.deps[i].to = c.target
  BY DEF TargetInv
<1> HIDE DEF params, c
<1>3. \/ c.kind = "proxy" /\ var \in {names[c.target].local, "proxyDeps"}
      \/ c.build = "config" /\ var = "configSource"
      \/ c.build = "repository" /\ var = "dbProvider"
      \/ \E i \in DOMAIN c.deps : var = names[c.deps[i].to].local
  BY ArgumentsOf DEF c
<1>4. var \in params \/ \E i \in DOMAIN c.deps : var = names[c.deps[i].to].local
  BY <1>1, <1>2, <1>3
<1> QED
  BY <1>4 DEF params, c

LEMMA StatementsSound ==
  ASSUME NumbersDiffer, AppInv, GraphInv, GenInv, NEW w \in wiring
  PROVE  /\ {w.statements[i].component : i \in DOMAIN w.statements} = components
         /\ ArgumentsInScope(w) /\ NamesDistinct(w) /\ HandedToTheirProxies(w)
<1> DEFINE s == w.statements
<1>1. search = "ordered" /\ Ending /\ Outside /\ renderable(app, order)
  BY BehindTheWiring
<1>2. PICK features, names :
        /\ features = detectFeatures(app, routes)
        /\ names = assignNames(app, order, reserved(app, order, features))
        /\ w.params = buildComponentsParams(features)
        /\ w.aliases = reserved(app, order, features)
        /\ s = [i \in DOMAIN order |-> renderConstructor(order[i], app[order[i]], names)]
  BY BehindTheWiring
<1>3. /\ order \in Seq(components) /\ DOMAIN order = 1..Len(order) /\ Len(order) \in Nat
      /\ Elements(order) = components
      /\ \A i, j \in 1..Len(order) : order[i] = order[j] => i = j
      /\ \A i \in 1..Len(order) : \A k \in DOMAIN app[order[i]].deps :
           \E j \in 1..(i - 1) : order[j] = app[order[i]].deps[k].to
  BY <1>1, OrderOfTheWiring
<1>4. /\ DOMAIN s = 1..Len(order)
      /\ \A i \in 1..Len(order) :
           /\ s[i].component = order[i] /\ order[i] \in components
           /\ s[i].local = names[order[i]].local /\ s[i].field = names[order[i]].field
           /\ s[i].args = constructorArgs(order[i], app[order[i]], names)
  BY <1>2, <1>3 DEF renderConstructor
<1>5. IsFiniteSet(w.aliases) /\ w.params \subseteq w.aliases
  BY <1>2, ReservedNames
<1>6. \A i \in 1..Len(order) :
        /\ names[order[i]].local \notin w.aliases
        /\ \A j \in 1..(i - 1) : /\ names[order[j]].local # names[order[i]].local
                                 /\ names[order[j]].field # names[order[i]].field
  <2>1. names = assignNames(app, order, w.aliases)
    BY <1>2
  <2>2. Clear(assignNames(app, order, w.aliases), order, w.aliases)
    BY <1>3, <1>5, AssignedNames
  <2> QED
    BY <2>1, <2>2 DEF Clear
<1> HIDE DEF s
<1>7. \A i \in 1..Len(order) : \A j \in 1..(i - 1) : j \in 1..Len(order)
  BY <1>3
<1>8. {s[i].component : i \in DOMAIN s} = components
  BY <1>3, <1>4 DEF Elements
<1>9. Selected /\ phase # "proxies" /\ Bound
  BY <1>1 DEF Ending, Selected, Bound
<1>10. \A i \in 1..Len(order) : \A var \in ToSet(s[i].args) :
         \/ var \in w.params
         \/ \E k \in DOMAIN app[order[i]].deps : var = names[app[order[i]].deps[k].to].local
  BY <1>2, <1>4, <1>9, ArgumentsComeFrom DEF GenInv
<1>11. NamesDistinct(w)
  <2>1. ASSUME NEW i \in 1..Len(order)
        PROVE  /\ s[i].local \notin w.aliases
               /\ \A j \in 1..(i - 1) : s[j].local # s[i].local /\ s[j].field # s[i].field
    BY <1>4, <1>6, <1>7
  <2> QED
    BY <1>4, <2>1 DEF NamesDistinct, LocalsBefore, s
<1>12. ArgumentsInScope(w)
  <2> SUFFICES ASSUME NEW i \in 1..Len(order), NEW var \in ToSet(s[i].args), var \notin w.params
               PROVE  \E j \in 1..(i - 1) : var = s[j].local
    BY <1>4 DEF ArgumentsInScope, LocalsBefore, s
  <2>1. PICK k \in DOMAIN app[order[i]].deps : var = names[app[order[i]].deps[k].to].local
    BY <1>10
  <2>2. PICK j \in 1..(i - 1) : order[j] = app[order[i]].deps[k].to
    BY <1>3
  <2> QED
    BY <1>4, <1>7, <2>1, <2>2, Zenon
<1>13. HandedToTheirProxies(w)
  <2> SUFFICES ASSUME NEW i \in 1..Len(order), NEW j \in 1..(i - 1),
                      s[j].component \in Proxied, s[j].local \in ToSet(s[i].args)
               PROVE  s[i].component = Proxy(s[j].component)
    BY <1>4 DEF HandedToTheirProxies, s
  <2>1. j \in 1..Len(order) /\ s[j].local \notin w.params
    BY <1>4, <1>5, <1>6, <1>7
  <2>2. PICK k \in DOMAIN app[order[i]].deps : s[j].local = names[app[order[i]].deps[k].to].local
    BY <1>10, <2>1
  <2>3. PICK m \in 1..(i - 1) : order[m] = app[order[i]].deps[k].to
    BY <1>3
  <2>4. m \in 1..Len(order) /\ names[order[m]].local = names[order[j]].local
    BY <1>4, <1>7, <2>1, <2>2, <2>3
  <2>5. m = j
    <3>1. ~(m < j) /\ ~(j < m)
      BY <1>6, <2>1, <2>4
    <3> QED
      BY <3>1
  <2>6. app[order[i]].deps[k].to = s[j].component
    BY <1>4, <2>1, <2>3, <2>5
  <2>7. order[i] = Proxy(s[j].component)
    BY <1>4, <1>9, <2>6 DEF AppInv, ProxiesNotBypassed
  <2> QED
    BY <1>4, <2>7
<1> QED
  BY <1>8, <1>11, <1>12, <1>13 DEF s

LEMMA HooksSound ==
  ASSUME AppInv, GraphInv, GenInv, NEW w \in wiring
  PROVE  HooksFollowDependencies(w)
<1>1. search = "ordered" /\ Ending /\ renderable(app, order) /\ w.lifecycle = renderLifecycle(app, order)
  BY BehindTheWiring
<1>2. /\ order \in Seq(components) /\ Len(order) \in Nat
      /\ \A i, j \in 1..Len(order) : order[i] = order[j] => i = j
      /\ \A i \in 1..Len(order) : \A k \in DOMAIN app[order[i]].deps :
           \E j \in 1..(i - 1) : order[j] = app[order[i]].deps[k].to
  BY <1>1, OrderOfTheWiring
<1>3. PICK S, at :
        /\ w.lifecycle \in Seq(S)
        /\ \A i \in 1..Len(w.lifecycle) : at[i] \in 1..Len(order) /\ order[at[i]] = w.lifecycle[i].component
        /\ \A i, j \in 1..Len(w.lifecycle) : i < j => at[i] < at[j]
  BY <1>1, <1>2, HooksInOrder
<1> SUFFICES ASSUME NEW i \in 1..Len(w.lifecycle), NEW j \in 1..Len(w.lifecycle),
                    w.lifecycle[j].component \in DependsOn(w.lifecycle[i].component)
             PROVE  j < i
  BY <1>3 DEF HooksFollowDependencies
<1>4. PICK k \in DOMAIN app[order[at[i]]].deps : w.lifecycle[j].component = app[order[at[i]]].deps[k].to
  BY <1>3 DEF DependsOn
<1>5. PICK p \in 1..(at[i] - 1) : order[p] = order[at[j]]
  <2>1. at[i] \in 1..Len(order) /\ order[at[j]] = w.lifecycle[j].component
    BY <1>3
  <2>2. \E p \in 1..(at[i] - 1) : order[p] = app[order[at[i]]].deps[k].to
    BY <1>2, <1>4, <2>1
  <2> QED
    BY <1>4, <2>1, <2>2
<1>6. at[i] \in 1..Len(order) /\ at[j] \in 1..Len(order) /\ p \in 1..Len(order)
  BY <1>2, <1>3, <1>5
<1>7. at[j] < at[i]
  BY <1>2, <1>5, <1>6
<1>8. ~(i < j) /\ i # j
  BY <1>3, <1>6, <1>7
<1> QED
  BY <1>8

LEMMA GenInvariant == Spec => []GenInv
<1>1. Init => GenInv
  BY DEF Init, AnalysisInit, GenInv, DeclsInv, RoutesInv, RoutesOf, TargetInv, BoundInv, BuiltInv, WiringInv,
         WiringFollows, Outside, Selected, Ending
<1>2. AppInv /\ GraphInv /\ FilesInv /\ GenInv /\ [Next]_vars => GenInv'
  BY DeclsKept, RoutesKept, BindingKept, BuiltKept, WiringKept DEF GenInv
<1>3. Init => FilesInv
  BY DEF Init, FilesInv, WrittenOnlyWithoutErrors
<1> QED
  BY <1>1, <1>2, <1>3, FilesKept, AppInvariant, GraphInvariant, PTL DEF Spec

\* WiringFollows: an analysis that reports no error ends in a wiring.
THEOREM AnalysisEndsInWiring == Spec => []WiringFollows
<1>1. GenInv => WiringFollows
  BY DEF GenInv, WiringInv
<1> QED
  BY <1>1, GenInvariant, PTL

\* Generates: whatever the components, their dependencies, interceptions, names,
\* routes and hooks are, the generated wiring constructs every component after
\* what it is handed, in variables that neither clash nor hide an import, hands an
\* intercepted component to its proxy only, serves no route twice, and starts a
\* component after what it depends on.
THEOREM WiringSound ==
  ASSUME NumbersDiffer
  PROVE  Spec => []Generates
<1>1. ASSUME AppInv, GraphInv, GenInv
      PROVE  Generates
  <2>1. WiringFollows
    BY <1>1 DEF GenInv, WiringInv
  <2>2. ASSUME NEW w \in wiring
        PROVE  RoutesServed(w)
    <3>1. w.routes = routes /\ Outside /\ phase # "routes"
      BY <1>1, BehindTheWiring DEF Ending
    <3> QED
      BY <1>1, <3>1 DEF GenInv, RoutesInv, RoutesOf, RoutesServed, components
  <2> QED
    BY <1>1, <2>1, <2>2, StatementsSound, HooksSound DEF Generates
<1> QED
  BY <1>1, AppInvariant, GraphInvariant, GenInvariant, PTL

-----------------------------------------------------------------------------
(* No annotation is lost: what each phase leaves for a method is still     *)
(* there when the wiring is generated.                                     *)

PastScan == phase \notin {"plugins", "scan"}
PastProxies == PastScan /\ phase \notin {"discover", "profiles", "nuts", "proxies"}
PastRoutes == PastProxies /\ phase \notin {"resolve", "routes"}
PastHandlers == PastRoutes /\ phase # "handlers"
PastHooks == PastHandlers /\ phase # "lifecycle"
PastTasks == PastHooks /\ phase # "scheduled"
PastQueries == PastTasks /\ phase # "repositories"

\* An error that keeps anything from being generated.
Blocked == ErrorReported /\ wiring = {}

LEMMA PhasesInOrder ==
  ASSUME [Next]_vars
  PROVE  /\ PastScan' => PastScan \/ Scan
         /\ PastProxies' => PastProxies \/ DiscoverProxies
         /\ PastRoutes' => PastRoutes \/ DiscoverRoutes
         /\ PastHandlers' => PastHandlers \/ DiscoverExceptionHandlers
         /\ PastHooks' => PastHooks \/ DiscoverLifecycle
         /\ PastTasks' => PastTasks \/ DiscoverScheduled
         /\ PastQueries' => PastQueries \/ DiscoverRepositories
<1>1. \/ RegisterAnnotations \/ Scan \/ Discover \/ FilterByProfile \/ NutRound \/ DiscoverProxies
      \/ Resolve \/ DiscoverRoutes \/ DiscoverExceptionHandlers \/ DiscoverLifecycle
      \/ DiscoverScheduled \/ DiscoverRepositories
      \/ phase \in {"graph", "order", "host", "generate", "contribute", "done"}
      \/ UNCHANGED phase
  BY Steps, Zenon DEF Analyze, AnalyzeWith, BuildGraph, SearchStep, ReportCycle, Phase, HostAnalyze, GenerateWiring,
     HostGenerate, Rests, analysisVars
<1> USE DEF PastScan, PastProxies, PastRoutes, PastHandlers, PastHooks, PastTasks, PastQueries
<1>2. CASE phase \in {"graph", "order", "host", "generate", "contribute", "done"} \/ UNCHANGED phase
  BY <1>2
<1>3. CASE RegisterAnnotations
  BY <1>3 DEF RegisterAnnotations
<1>4. CASE Scan
  BY <1>4 DEF Scan
<1>5. CASE Discover \/ FilterByProfile \/ NutRound
  BY <1>5 DEF Discover, FilterByProfile, NutRound, Phase
<1>6. CASE DiscoverProxies
  BY <1>6 DEF DiscoverProxies, Phase
<1>7. CASE Resolve \/ DiscoverRoutes \/ DiscoverExceptionHandlers \/ DiscoverLifecycle \/ DiscoverScheduled
           \/ DiscoverRepositories
  BY <1>7 DEF Resolve, DiscoverRoutes, DiscoverExceptionHandlers, DiscoverLifecycle,
              DiscoverScheduled, DiscoverRepositories, Phase
<1> QED
  BY <1>1, <1>2, <1>3, <1>4, <1>5, <1>6, <1>7

LEMMA BlockedStays ==
  ASSUME AppInv, FilesInv, [Next]_vars, PastScan, Blocked
  PROVE  Blocked'
<1>1. diags \subseteq diags'
  <2>1. CASE Outside
    BY <2>1, LateSteps
  <2>2. CASE ~Outside
    <3>1. \/ Discover \/ FilterByProfile \/ NutRound \/ DiscoverProxies \/ Resolve \/ UNCHANGED diags
      BY <2>2, Steps, Zenon DEF Outside, PastScan, Analyze, AnalyzeWith, RegisterAnnotations, Scan, DiscoverRoutes,
         DiscoverExceptionHandlers, DiscoverLifecycle, DiscoverScheduled, DiscoverRepositories, BuildGraph,
         SearchStep, ReportCycle, HostAnalyze, GenerateWiring, HostGenerate, Rests, analysisVars, Phase
    <3> QED
      BY <3>1 DEF Discover, FilterByProfile, NutRound, DiscoverProxies, Resolve, Phase
  <2> QED
    BY <2>1, <2>2
<1>2. phase # "generate"
  BY DEF FilesInv, Blocked, ErrorReported, blocking
<1>3. wiring' = wiring
  BY <1>2, Steps, Zenon DEF Analyze, AnalyzeWith, RegisterAnnotations, Scan, Discover, FilterByProfile, NutRound,
     DiscoverProxies, Resolve, DiscoverRoutes, DiscoverExceptionHandlers, DiscoverLifecycle, DiscoverScheduled,
     DiscoverRepositories, BuildGraph, SearchStep, ReportCycle, HostAnalyze, GenerateWiring, HostGenerate, Rests,
     analysisVars, Phase
<1> QED
  BY <1>1, <1>3 DEF Blocked, ErrorReported

\* What a phase writes of a component.
Written(p) ==
  CASE p = "resolve" -> {"deps"}
    [] p = "handlers" -> {"handlers"}
    [] p = "lifecycle" -> {"post", "pre"}
    [] p = "scheduled" -> {"scheduled"}
    [] p = "repositories" -> {"queries"}
    [] OTHER -> {}

LEMMA RestKept ==
  ASSUME AppInv, [Next]_vars, PastProxies
  PROVE  /\ PastProxies' /\ components' = components /\ decls' = decls
         /\ \A n \in components : \A f \in Fields \ Written(phase) : app'[n][f] = app[n][f]
<1>1. \/ Resolve \/ DiscoverRoutes \/ DiscoverExceptionHandlers \/ DiscoverLifecycle \/ DiscoverScheduled
      \/ DiscoverRepositories \/ BuildGraph \/ SearchStep \/ ReportCycle
      \/ HostAnalyze \/ GenerateWiring \/ HostGenerate \/ Rests
  BY Steps DEF PastProxies, PastScan, Analyze, AnalyzeWith, RegisterAnnotations, Scan, Discover, FilterByProfile,
     NutRound, DiscoverProxies, Phase, Rests
<1>2. PastProxies' /\ decls' = decls
  BY <1>1, Zenon DEF PastProxies, PastScan, Resolve, DiscoverRoutes, DiscoverExceptionHandlers, DiscoverLifecycle,
     DiscoverScheduled, DiscoverRepositories, BuildGraph, SearchStep, ReportCycle, HostAnalyze, GenerateWiring,
     HostGenerate, analysisVars, Phase, Rests
<1>3. \A n \in components : DOMAIN app[n] = Fields
  BY DEF AppInv, ShapeInv, PastProxies, PastScan, Selected
<1>4. CASE UNCHANGED app
  BY <1>2, <1>4 DEF components
<1>5. CASE Resolve
  BY <1>2, <1>3, <1>5 DEF Resolve, Phase, components, Written
<1>6. CASE DiscoverExceptionHandlers
  BY <1>2, <1>3, <1>6 DEF DiscoverExceptionHandlers, Phase, components, Written
<1>7. CASE DiscoverLifecycle
  BY <1>2, <1>3, <1>7 DEF DiscoverLifecycle, Phase, components, Written
<1>8. CASE DiscoverScheduled
  BY <1>2, <1>3, <1>8 DEF DiscoverScheduled, Phase, components, Written
<1>9. CASE DiscoverRepositories
  BY <1>2, <1>3, <1>9 DEF DiscoverRepositories, Phase, components, Written
<1> QED
  BY <1>1, <1>4, <1>5, <1>6, <1>7, <1>8, <1>9 DEF DiscoverRoutes, BuildGraph, SearchStep, ReportCycle, Phase,
     HostAnalyze, GenerateWiring, HostGenerate, analysisVars, Rests

-----------------------------------------------------------------------------
(* A scan without errors.                                                  *)

TimeoutDefinition == Definition(Intercepts, NoArgs, Positional(required("duration")))

LEMMA TimeoutDefined ==
  "Timeout" \in DOMAIN DefaultRegistry /\ DefaultRegistry["Timeout"] = TimeoutDefinition
<1> DEFINE parts == {componentDefinitions, mappingDefinitions, mediaDefinitions, httpDefinitions, conditionDefinitions,
                     nutConditionDefinitions, interceptionDefinitions, queryDefinitions}
<1>1. \A p \in parts : p # interceptionDefinitions => "Timeout" \notin DOMAIN p
  <2>1. "Timeout" \notin DOMAIN componentDefinitions /\ "Timeout" \notin DOMAIN httpDefinitions
    BY DEF componentDefinitions, httpDefinitions
  <2>2. "Timeout" \notin DOMAIN mappingDefinitions /\ "Timeout" \notin DOMAIN mediaDefinitions
    BY DEF mappingDefinitions, mediaDefinitions
  <2>3. "Timeout" \notin DOMAIN conditionDefinitions /\ "Timeout" \notin DOMAIN nutConditionDefinitions
    BY DEF conditionDefinitions, nutConditionDefinitions
  <2>4. "Timeout" \notin DOMAIN queryDefinitions
    BY DEF queryDefinitions
  <2> QED
    BY <2>1, <2>2, <2>3, <2>4
<1>2. "Timeout" \in DOMAIN interceptionDefinitions /\ interceptionDefinitions["Timeout"] = TimeoutDefinition
  BY DEF interceptionDefinitions, TimeoutDefinition
<1>3. (CHOOSE p \in parts : "Timeout" \in DOMAIN p) = interceptionDefinitions
  <2>1. interceptionDefinitions \in parts
    OBVIOUS
  <2> HIDE DEF parts
  <2> QED
    BY <1>1, <1>2, <2>1
<1>4. DefaultRegistry = [n \in UNION {DOMAIN p : p \in parts} |-> (CHOOSE p \in parts : n \in DOMAIN p)[n]]
  BY Zenon DEF DefaultRegistry
<1>5. interceptionDefinitions \in parts
  OBVIOUS
<1> HIDE DEF parts
<1> QED
  BY <1>2, <1>3, <1>4, <1>5

\* An accepted @Timeout has a duration.
LEMMA TimeoutHasDuration ==
  ASSUME NEW defs, "Timeout" \in DOMAIN defs, defs["Timeout"] = TimeoutDefinition,
         NEW ann, ann.name = "Timeout", NEW target, Validate(defs, ann, target) \subseteq {UnknownAnnotation}
  PROVE  stringArgValue(ann, PositionalKey) \cap DOMAIN Durations # {}
<1> DEFINE def == required("duration")
           v == ann.args[PositionalKey]
<1>1. schemaDiags(TimeoutDefinition, ann, target) \subseteq {UnknownAnnotation}
  <2>1. validate(TimeoutDefinition, ann, target) \subseteq {UnknownAnnotation}
    BY DEF Validate
  <2> QED
    BY <2>1 DEF validate
<1>2. TimeoutDefinition.positional = {def} /\ def.required = TRUE /\ def.type = "duration"
  BY DEF TimeoutDefinition, Definition, Positional, required
<1>3. PositionalKey \in DOMAIN ann.args
  <2> SUFFICES ASSUME PositionalKey \notin DOMAIN ann.args PROVE FALSE
    OBVIOUS
  <2>1. MissingArgument \in {MissingArgument : d \in {x \in TimeoutDefinition.positional :
                                x.required /\ PositionalKey \notin DOMAIN ann.args}}
    BY <1>2
  <2>2. MissingArgument \in schemaDiags(TimeoutDefinition, ann, target)
    BY <2>1 DEF schemaDiags
  <2> QED
    BY <1>1, <2>2 DEF MissingArgument, UnknownAnnotation
<1>4. isPositionalKey(PositionalKey)
  <2>1. positionalKey(0) = PositionalKey /\ 0 \in 0 .. 3
    BY DEF positionalKey
  <2> QED
    BY <2>1 DEF isPositionalKey
<1>5. argumentDiags(TimeoutDefinition, PositionalKey, v) = appendArgDiags(def, v)
  <2>1. TimeoutDefinition.positional # NoPositional
    BY <1>2 DEF NoPositional
  <2>2. UNION {appendArgDiags(d, v) : d \in TimeoutDefinition.positional} = appendArgDiags(def, v)
    BY <1>2
  <2> QED
    BY <1>4, <2>1, <2>2 DEF argumentDiags
<1>6. appendArgDiags(def, v) \subseteq {UnknownAnnotation}
  <2>1. argumentDiags(TimeoutDefinition, PositionalKey, v) \subseteq
          UNION {argumentDiags(TimeoutDefinition, key, ann.args[key]) : key \in DOMAIN ann.args}
    BY <1>3
  <2>2. argumentDiags(TimeoutDefinition, PositionalKey, v) \subseteq schemaDiags(TimeoutDefinition, ann, target)
    BY <2>1, Zenon DEF schemaDiags
  <2> QED
    BY <1>1, <1>5, <2>2
<1>7. typeMatches("duration", v)
  BY <1>2, <1>6 DEF appendArgDiags, ArgumentType, UnknownAnnotation
<1>8. v.kind = "string" /\ v.text \in DOMAIN Durations
  BY <1>7 DEF typeMatches
<1>9. v.text \in stringArgValue(ann, PositionalKey)
  BY <1>3, <1>8 DEF stringArgValue, Arg, AsString
<1> QED
  BY <1>8, <1>9

TimeoutsAreDurations ==
  \A i \in DOMAIN decls : \A a \in Find(decls[i], "Timeout") :
    stringArgValue(a, PositionalKey) \cap DOMAIN Durations # {}

LEMMA ScanValidates ==
  ASSUME AppInv, PluginInv, Scan
  PROVE  ErrorReported' \/ TimeoutsAreDurations'
<1>1. /\ decls' = scanned(source.decls)
      /\ diags' = diags \cup scanDiagnostics(catalogue.defs, source.decls)
  BY DEF Scan
<1>2. PICK family \in DOMAIN Sources : source \in Sources[family]
  BY DEF AppInv, SourceInv
<1>3. "Timeout" \in DOMAIN catalogue.defs /\ catalogue.defs["Timeout"] = TimeoutDefinition
  BY PluginsListed, CoreStands, TimeoutDefined DEF Core, catalogue
<1> SUFFICES ASSUME ~ErrorReported', NEW i \in DOMAIN decls', NEW a \in Find(decls'[i], "Timeout")
             PROVE  stringArgValue(a, PositionalKey) \cap DOMAIN Durations # {}
  BY DEF TimeoutsAreDurations
<1> DEFINE parsed == ParseComment(source.decls[i].comment)
           target == source.decls[i].target
<1>4. i \in DOMAIN source.decls /\ decls'[i].anns = parsed.anns
  BY <1>1, <1>2, DeclarationsPlaced
<1>5. PICK k \in DOMAIN parsed.anns : a = parsed.anns[k] /\ a.name = "Timeout"
  BY <1>4 DEF Find
<1>6. Validate(catalogue.defs, a, target) \subseteq commentCodes(catalogue.defs, parsed, target)
  BY <1>5 DEF commentCodes, ValidateGroup
<1>7. \A code \in commentCodes(catalogue.defs, parsed, target) :
        <<Severity(code), code>> \in scanDiagnostics(catalogue.defs, source.decls)
  BY <1>4 DEF scanDiagnostics
<1>8. \A code \in commentCodes(catalogue.defs, parsed, target) : code = UnknownAnnotation
  <2> SUFFICES ASSUME NEW code \in commentCodes(catalogue.defs, parsed, target), code # UnknownAnnotation
               PROVE  FALSE
    OBVIOUS
  <2>1. <<"error", code>> \in diags'
    BY <1>1, <1>7 DEF Severity
  <2> QED
    BY <2>1 DEF ErrorReported
<1>9. Validate(catalogue.defs, a, target) \subseteq {UnknownAnnotation}
  BY <1>6, <1>8
<1> QED
  BY <1>3, <1>5, <1>9, TimeoutHasDuration

-----------------------------------------------------------------------------
(* What each phase leaves for a method, unless it reports an error.        *)

Owner(d) == ComponentID[d.recv]

Proxying(d) ==
  \A ann \in triggers(app[Owner(d)].kind) : Has(d, ann) =>
    /\ app[Owner(d)].implements # NoType /\ Proxy(Owner(d)) \in components
    /\ LET p == app[Proxy(Owner(d))]
       IN /\ p.kind = "proxy" /\ p.implements = app[Owner(d)].implements
          /\ \E m \in p.intercepted : m.name = d.name /\ ann \in m.advice

AllProxied == \A d \in methodsOf(decls) : Owner(d) \in components => Proxying(d)

AllRouted ==
  \A d \in methodsOf(decls) : \A x \in controllerDecls(decls, app) : x.name = d.recv /\ mappingFor(d) # {} =>
    \E r \in routes : /\ r.controller = Owner(d) /\ r.handler = d.name
                      /\ r.method = The(mappingFor(d), {}).method /\ r.roles = authorizeRoles(d)

AllHandled ==
  /\ \A d \in handlerDecls(decls) : adviceOf(app, d.recv) # {} /\ validExceptionHandler(d.sig)
  /\ \A c \in components : app[c].handlers = handlersOf(decls, app, c)

LastOf(i, ann) ==
  i \in ownMethods(decls, Owner(decls[i]), ann) /\ \A j \in ownMethods(decls, Owner(decls[i]), ann) : ~(j > i)

AllHooked ==
  \A i \in DOMAIN decls : LET c == Owner(decls[i])
                          IN c \in components => /\ LastOf(i, "PostConstruct") => app[c].post = decls[i].name
                                                 /\ LastOf(i, "PreDestroy") => app[c].pre = decls[i].name

AllScheduled ==
  \A d \in methodsOf(decls) : Owner(d) \in components /\ Has(d, "Scheduled") =>
    \E m \in app[Owner(d)].scheduled : m.name = d.name /\ m.schedule.interval > 0

AllQueried ==
  \A d \in methodsOf(decls) : Owner(d) \in components /\ app[Owner(d)].build = "repository" =>
    querySQL(d) # {} /\ \E m \in app[Owner(d)].queries : m.name = d.name /\ m.sql = The(querySQL(d), {}).sql

LEMMA NothingReported ==
  ASSUME NEW codes, NEW D, ErrorsOf(codes) \subseteq D, ~ \E code : <<"error", code>> \in D
  PROVE  codes = {}
BY DEF ErrorsOf

\* What is assumed of the declarations.
LEMMA DeclarationsKnown ==
  ASSUME AppInv, DeclsInv, PastScan
  PROVE  /\ DOMAIN decls \subseteq Nat
         /\ \A i \in DOMAIN decls : decls[i].anns \in Seq(ToSet(decls[i].anns))
         /\ \A d \in methodsOf(decls) : Owner(d) \in Nat /\ Owner(d) % 2 = 0 /\ d.name # ""
<1>1. PICK family \in DOMAIN Sources : source \in Sources[family]
  BY DEF AppInv, SourceInv
<1>2. decls = scanned(source.decls)
  BY DEF DeclsInv, PastScan
<1>3. \A d \in Range(decls) : d.anns \in Seq(ToSet(d.anns))
  BY <1>1, <1>2, SourcesAssumption, Zenon
<1>4. \A d \in methodsOf(decls) : d.recv \in DOMAIN ComponentID /\ d.name # ""
  BY <1>1, <1>2, SourcesAssumption, Zenon
<1>5. DOMAIN decls \subseteq Nat
  BY <1>1, <1>2, DeclarationsPlaced
<1> QED
  BY <1>3, <1>4, <1>5, ComponentAssumption DEF Owner, Range

\* An annotation that is carried has a first occurrence.
LEMMA FirstFound ==
  ASSUME NEW d, d.anns \in Seq(ToSet(d.anns)), NEW name, Has(d, name)
  PROVE  Find(d, name) # {}
<1> DEFINE S == {i \in DOMAIN d.anns : d.anns[i].name = name}
<1>1. S # {} /\ S \subseteq Nat /\ DOMAIN d.anns = 1..Len(d.anns)
  BY DEF Has
<1>2. PICK n \in S : \A m \in S : n <= m
  BY <1>1, LeastExists
<1>3. \A k \in 1..(n - 1) : d.anns[k].name # name
  BY <1>1, <1>2
<1> QED
  BY <1>2, <1>3 DEF Find

LEMMA MethodsAdvised ==
  ASSUME NEW d, NEW ann \in interceptAnnotations, Has(d, ann), interceptedCodes(d) = {},
         ann = "Timeout" => \E a \in Find(d, ann) : stringArgValue(a, PositionalKey) \cap DOMAIN Durations # {}
  PROVE  ann \in Advice(d) /\ interceptable(d.sig)
<1>1. interceptable(d.sig) /\ (Has(d, "Cacheable") => Len(d.sig.results) = 2)
  BY DEF interceptedCodes
<1> QED
  BY <1>1 DEF Advice

LEMMA ProxiesAttached ==
  ASSUME AppInv, DeclsInv, TimeoutsAreDurations, DiscoverProxies, ~ErrorReported'
  PROVE  AllProxied'
<1> DEFINE a == WithIntercepted
           targets == Proxyable(a)
<1>1. phase = "proxies" /\ decls' = decls /\ diags' = diags \cup ErrorsOf(proxyCodes(a))
      /\ app' = [n \in components \cup {Proxy(c) : c \in targets} |->
                  IF n \in components THEN [a[n] EXCEPT !.proxied = n \in targets]
                  ELSE buildProxy(n - 1, a[n - 1])]
  BY DEF DiscoverProxies, Phase
<1>2. proxyCodes(a) = {}
  <2> HIDE DEF a
  <2> QED
    BY <1>1, NothingReported DEF ErrorReported
<1>3. \A c \in components : c \in Nat /\ c % 2 = 0 /\ Fresh(app[c])
  BY <1>1 DEF AppInv, FreshInv
<1>4. \A c \in components : /\ DOMAIN a[c] = Fields /\ a[c].kind = app[c].kind
                            /\ a[c].implements = app[c].implements
                            /\ a[c].intercepted = intercepted(decls, c, app[c].kind)
  BY <1>3 DEF WithIntercepted, Fresh, Fields
<1> SUFFICES ASSUME NEW d \in methodsOf(decls), Owner(d) \in components',
                    NEW ann \in triggers(app'[Owner(d)].kind), Has(d, ann)
             PROVE  /\ app'[Owner(d)].implements # NoType /\ Proxy(Owner(d)) \in components'
                    /\ LET p == app'[Proxy(Owner(d))]
                       IN /\ p.kind = "proxy" /\ p.implements = app'[Owner(d)].implements
                          /\ \E m \in p.intercepted : m.name = d.name /\ ann \in m.advice
  BY <1>1 DEF AllProxied, Proxying
<1> DEFINE c == Owner(d)
<1>5. c \in Nat /\ c % 2 = 0 /\ d \in Range(decls)
  BY <1>1, DeclarationsKnown DEF PastScan, methodsOf
<1> HIDE DEF a
<1>6. targets \subseteq components
  BY DEF Proxyable
<1> HIDE DEF targets
<1>7. c \in components
  BY <1>1, <1>3, <1>5, <1>6 DEF components, Proxy
<1>8. app'[c] = [a[c] EXCEPT !.proxied = c \in targets]
  BY <1>1, <1>7
<1>9. app'[c].kind = app[c].kind /\ app'[c].implements = a[c].implements
  BY <1>4, <1>7, <1>8 DEF Fields
<1>10. d \in interceptedDecls(decls, c, app[c].kind)
  BY <1>9 DEF interceptedDecls, hasAny, Owner
<1>11. interceptedCodes(d) = {}
  <2>1. d \in interceptedDecls(decls, c, a[c].kind)
    BY <1>4, <1>7, <1>10
  <2>2. UNION {UNION {interceptedCodes(x) : x \in interceptedDecls(decls, n, a[n].kind)} : n \in components} = {}
    BY <1>2 DEF proxyCodes
  <2> HIDE DEF c
  <2> QED
    BY <1>7, <2>1, <2>2
<1>12. ann \in interceptAnnotations
  BY <1>9 DEF triggers, interceptAnnotations
<1>13. ann = "Timeout" => \E x \in Find(d, ann) : stringArgValue(x, PositionalKey) \cap DOMAIN Durations # {}
  <2>1. PICK i \in DOMAIN decls : d = decls[i]
    BY <1>5 DEF Range
  <2>2. d.anns \in Seq(ToSet(d.anns))
    BY <1>1, <2>1, DeclarationsKnown DEF PastScan
  <2>3. Find(d, ann) # {}
    BY <2>2, FirstFound
  <2> QED
    BY <2>1, <2>3 DEF TimeoutsAreDurations
<1>14. ann \in Advice(d) /\ interceptable(d.sig)
  BY <1>11, <1>12, <1>13, MethodsAdvised
<1>15. interceptedMethod(d) \in a[c].intercepted
  BY <1>4, <1>7, <1>10, <1>14 DEF intercepted
<1>16. c \in targets /\ a[c].implements # NoType
  <2>1. a[c].implements # NoType /\ Implements(c)
    <3>1. unproxyableCodes(a, c) = {}
      BY <1>2, <1>7 DEF proxyCodes
    <3> QED
      BY <1>15, <3>1 DEF unproxyableCodes
  <2> QED
    BY <1>7, <1>15, <2>1 DEF targets, Proxyable
<1>17. Proxy(c) \notin components /\ Proxy(c) - 1 = c
  BY <1>3, <1>5 DEF Proxy
<1>18. Proxy(c) \in components' /\ app'[Proxy(c)] = buildProxy(c, a[c])
  BY <1>1, <1>16, <1>17 DEF components
<1>19. /\ buildProxy(c, a[c]).intercepted = a[c].intercepted /\ buildProxy(c, a[c]).kind = "proxy"
       /\ buildProxy(c, a[c]).implements = a[c].implements
  BY <1>4, <1>7 DEF buildProxy, Fields
<1>20. interceptedMethod(d).name = d.name /\ ann \in interceptedMethod(d).advice
  BY <1>14 DEF interceptedMethod
<1> QED
  BY <1>9, <1>15, <1>16, <1>18, <1>19, <1>20

LEMMA RoutesAttached ==
  ASSUME AppInv, DeclsInv, DiscoverRoutes, ~ErrorReported'
  PROVE  AllRouted'
<1> DEFINE controllers == controllerDecls(decls, app)
           controllerOf(d) == CHOOSE c \in controllers : c.name = d.recv
           mapped == {i \in DOMAIN decls : /\ decls[i].target = "method" /\ mappingFor(decls[i]) # {}
                                           /\ \E c \in controllers : c.name = decls[i].recv}
           valid == {i \in mapped : validateHandler(decls[i].sig)}
           route(i) == buildRoute(decls[i], controllerOf(decls[i]), The(mappingFor(decls[i]), {}))
           built == [i \in valid |-> route(i)]
           repeated == {i \in valid : \E j \in valid : j < i /\ SameRoute(built[j], built[i])}
           codes == {"GOBHTTP001" : i \in mapped \ valid} \cup {"GOBHTTP004" : i \in repeated}
<1>1. /\ phase = "routes" /\ decls' = decls /\ app' = app /\ diags' = diags \cup ErrorsOf(codes)
      /\ routes' = {built[i] : i \in valid \ repeated}
  BY DEF DiscoverRoutes, Phase, discoverRoutes
<1> HIDE DEF built
<1>2. codes = {}
  <2> HIDE DEF codes
  <2> QED
    BY <1>1, NothingReported DEF ErrorReported
<1>3. mapped = valid /\ repeated = {}
  BY <1>2
<1> SUFFICES ASSUME NEW d \in methodsOf(decls), NEW x \in controllers, x.name = d.recv, mappingFor(d) # {}
             PROVE  \E r \in routes' : /\ r.controller = Owner(d) /\ r.handler = d.name
                                       /\ r.method = The(mappingFor(d), {}).method /\ r.roles = authorizeRoles(d)
  BY <1>1 DEF AllRouted
<1>4. PICK i \in DOMAIN decls : decls[i] = d /\ decls[i].target = "method"
  BY DEF methodsOf, Range
<1> HIDE DEF controllers
<1>5. i \in mapped
  BY <1>4
<1>6. built[i] = route(i)
  BY <1>3, <1>5 DEF built
<1>7. /\ route(i).controller = Owner(d) /\ route(i).handler = d.name
      /\ route(i).method = The(mappingFor(d), {}).method /\ route(i).roles = authorizeRoles(d)
  BY <1>4 DEF buildRoute, Owner
<1>8. built[i] \in routes'
  BY <1>1, <1>3, <1>5
<1> QED
  BY <1>6, <1>7, <1>8

LEMMA HandlersAttached ==
  ASSUME AppInv, DiscoverExceptionHandlers, ~ErrorReported'
  PROVE  AllHandled'
<1>1. /\ phase = "handlers" /\ decls' = decls /\ diags' = diags \cup ErrorsOf(exceptionCodes(decls, app))
      /\ app' = [c \in components |-> [app[c] EXCEPT !.handlers = handlersOf(decls, app, c)]]
  BY DEF DiscoverExceptionHandlers, Phase
<1>2. exceptionCodes(decls, app) = {}
  BY <1>1, NothingReported DEF ErrorReported
<1>3. \A c \in components : DOMAIN app[c] = Fields
  BY <1>1 DEF AppInv, ShapeInv, Selected
<1>4. /\ DOMAIN app' = DOMAIN app
      /\ \A c \in components : /\ app'[c].kind = app[c].kind /\ app'[c].provides = app[c].provides
                               /\ app'[c].handlers = handlersOf(decls, app, c)
  BY <1>1, <1>3 DEF components, Fields
<1>5. \A recv : adviceOf(app', recv) = adviceOf(app, recv)
  BY <1>4 DEF adviceOf, components
<1>6. \A d \in handlerDecls(decls) : adviceOf(app, d.recv) # {} /\ validExceptionHandler(d.sig)
  BY <1>2 DEF exceptionCodes
<1>7. \A c : handlersOf(decls, app', c) = handlersOf(decls, app, c)
  BY <1>5 DEF handlersOf
<1> QED
  BY <1>1, <1>4, <1>5, <1>6, <1>7 DEF AllHandled, components

\* The last method that carries the annotation is the hook.
LEMMA LastIsTheHook ==
  ASSUME DOMAIN decls \subseteq Nat, NEW i, NEW ann, LastOf(i, ann),
         \A j \in ownMethods(decls, Owner(decls[i]), ann) : validateHookSignature(decls[j].sig)
  PROVE  hook(decls, Owner(decls[i]), ann) = decls[i].name
<1> DEFINE own == ownMethods(decls, Owner(decls[i]), ann)
           last == CHOOSE k \in own : \A j \in own : j <= k
<1>1. own \subseteq Nat /\ i \in own
  BY DEF ownMethods, LastOf
<1>2. \A j \in own : j <= i
  BY <1>1 DEF LastOf
<1>3. last \in own /\ i <= last
  BY <1>1, <1>2
<1>4. last = i
  BY <1>1, <1>2, <1>3
<1>5. {j \in own : validateHookSignature(decls[j].sig)} = own
  OBVIOUS
<1> HIDE DEF own
<1> QED
  BY <1>1, <1>4, <1>5 DEF hook, own

LEMMA HooksAttached ==
  ASSUME AppInv, DeclsInv, DiscoverLifecycle, ~ErrorReported'
  PROVE  AllHooked'
<1>1. /\ phase = "lifecycle" /\ decls' = decls /\ diags' = diags \cup ErrorsOf(lifecycleCodes(decls, app))
      /\ app' = [c \in components |-> [app[c] EXCEPT !.post = hook(decls, c, "PostConstruct"),
                                                     !.pre = hook(decls, c, "PreDestroy")]]
  BY DEF DiscoverLifecycle, Phase
<1>2. lifecycleCodes(decls, app) = {}
  BY <1>1, NothingReported DEF ErrorReported
<1>3. \A c \in components : DOMAIN app[c] = Fields
  BY <1>1 DEF AppInv, ShapeInv, Selected
<1>4. /\ components' = components
      /\ \A c \in components : /\ app'[c].post = hook(decls, c, "PostConstruct")
                               /\ app'[c].pre = hook(decls, c, "PreDestroy")
  BY <1>1, <1>3 DEF components, Fields
<1>5. ASSUME NEW c \in components, NEW ann \in {"PostConstruct", "PreDestroy"}, NEW j \in ownMethods(decls, c, ann)
      PROVE  validateHookSignature(decls[j].sig)
  <2>1. /\ decls[j] \in methodsOf(decls) /\ hasAny(decls[j], {"PostConstruct", "PreDestroy"})
        /\ ComponentID[decls[j].recv] \in DOMAIN app
    BY DEF ownMethods, methodsOf, Range, hasAny, components
  <2> QED
    BY <1>2, <2>1 DEF lifecycleCodes
<1>6. DOMAIN decls \subseteq Nat
  BY <1>1, DeclarationsKnown DEF PastScan
<1>7. ASSUME NEW i \in DOMAIN decls, Owner(decls[i]) \in components, NEW ann \in {"PostConstruct", "PreDestroy"},
             LastOf(i, ann)
      PROVE  hook(decls, Owner(decls[i]), ann) = decls[i].name
  BY <1>5, <1>6, <1>7, LastIsTheHook
<1> QED
  BY <1>1, <1>4, <1>7 DEF AllHooked, LastOf

LEMMA TasksAttached ==
  ASSUME AppInv, DiscoverScheduled, ~ErrorReported'
  PROVE  AllScheduled'
<1>1. /\ phase = "scheduled" /\ decls' = decls /\ diags' = diags \cup ErrorsOf(scheduledCodes(decls, app))
      /\ app' = [c \in components |-> [app[c] EXCEPT !.scheduled = scheduledMethods(decls, c)]]
  BY DEF DiscoverScheduled, Phase
<1>2. scheduledCodes(decls, app) = {}
  BY <1>1, NothingReported DEF ErrorReported
<1>3. \A c \in components : DOMAIN app[c] = Fields
  BY <1>1 DEF AppInv, ShapeInv, Selected
<1>4. components' = components /\ \A c \in components : app'[c].scheduled = scheduledMethods(decls, c)
  BY <1>1, <1>3 DEF components, Fields
<1> SUFFICES ASSUME NEW d \in methodsOf(decls), Owner(d) \in components, Has(d, "Scheduled")
             PROVE  \E m \in scheduledMethods(decls, Owner(d)) : m.name = d.name /\ m.schedule.interval > 0
  BY <1>1, <1>4 DEF AllScheduled
<1>5. PICK i \in ownMethods(decls, Owner(d), "Scheduled") : decls[i] = d
  BY DEF methodsOf, Range, ownMethods, Owner
<1>6. validateHookSignature(d.sig) /\ scheduleOf(d) # {}
  <2>1. i \in UNION {ownMethods(decls, c, "Scheduled") : c \in DOMAIN app}
    BY <1>5 DEF components
  <2> QED
    BY <1>2, <1>5, <2>1 DEF scheduledCodes
<1>7. The(scheduleOf(d), {}) \in scheduleOf(d)
  BY <1>6 DEF The
<1>8. The(scheduleOf(d), {}).interval > 0
  <2>1. ASSUME NEW a, NEW s \in resolveSchedule(a)
        PROVE  s.interval > 0
    <3>1. \E r, delay : r > 0 /\ s = [interval |-> r, initialDelay |-> delay]
      BY Zenon DEF resolveSchedule
    <3> QED
      BY <3>1
  <2>2. \E a : The(scheduleOf(d), {}) \in resolveSchedule(a)
    BY <1>7 DEF scheduleOf
  <2> QED
    BY <2>1, <2>2
<1> DEFINE m == [name |-> d.name, schedule |-> The(scheduleOf(d), {})]
<1>9. m \in scheduledMethods(decls, Owner(d))
  BY <1>5, <1>6 DEF scheduledMethods
<1> QED
  BY <1>8, <1>9

LEMMA QueriesAttached ==
  ASSUME AppInv, DiscoverRepositories, ~ErrorReported'
  PROVE  AllQueried'
<1>1. /\ phase = "repositories" /\ decls' = decls /\ diags' = diags \cup ErrorsOf(repositoryCodes(decls, app))
      /\ app' = [c \in components |-> IF app[c].build = "repository"
                                      THEN [app[c] EXCEPT !.queries = repositoryMethods(decls, c)] ELSE app[c]]
  BY DEF DiscoverRepositories, Phase
<1>2. repositoryCodes(decls, app) = {}
  BY <1>1, NothingReported DEF ErrorReported
<1>3. \A c \in components : DOMAIN app[c] = Fields
  BY <1>1 DEF AppInv, ShapeInv, Selected
<1>4. /\ components' = components /\ \A c \in components : app'[c].build = app[c].build
      /\ \A c \in components : app[c].build = "repository" => app'[c].queries = repositoryMethods(decls, c)
  BY <1>1, <1>3 DEF components, Fields
<1> SUFFICES ASSUME NEW d \in methodsOf(decls), Owner(d) \in components, app[Owner(d)].build = "repository"
             PROVE  /\ querySQL(d) # {}
                    /\ \E m \in repositoryMethods(decls, Owner(d)) :
                         m.name = d.name /\ m.sql = The(querySQL(d), {}).sql
  BY <1>1, <1>4 DEF AllQueried
<1>5. d \in repositoryDecls(decls, app)
  BY DEF repositoryDecls, Owner, components
<1>6. PICK q \in querySQL(d) : validQuery(d, q)
  <2> DEFINE each(x) == UNION {IF ~validQuery(x, y) THEN {"GOBREP001"}
                               ELSE IF validateParams(y.sql, x.sig) THEN {} ELSE {"GOBREP002"} : y \in querySQL(x)}
             codes(x) == IF querySQL(x) = {} THEN {"GOBREP003"} ELSE each(x)
  <2>1. repositoryCodes(decls, app) = UNION {codes(x) : x \in repositoryDecls(decls, app)}
    BY Zenon DEF repositoryCodes
  <2>2. codes(d) = {}
    <3> HIDE DEF codes
    <3> QED
      BY <1>2, <1>5, <2>1
  <2>3. querySQL(d) # {} /\ each(d) = {}
    BY <2>2
  <2> QED
    BY <2>3
<1> DEFINE kind(x, y) == resolveQueryKind(y.annotation, x.sig)
           method(x, y) == [name |-> x.name, sql |-> y.sql, kind |-> kind(x, y), sig |-> x.sig,
                            shape |-> ReturnShape(x.sig, kind(x, y)), batch |-> The(batchInfo(x.sig), 0)]
           own == {x \in methodsOf(decls) : ComponentID[x.recv] = Owner(d) /\ \E y \in querySQL(x) : validQuery(x, y)}
<1>7. repositoryMethods(decls, Owner(d)) = {method(x, The(querySQL(x), {})) : x \in own}
  BY Zenon DEF repositoryMethods
<1>8. d \in own
  BY <1>6 DEF Owner
<1>9. /\ method(d, The(querySQL(d), {})).name = d.name
      /\ method(d, The(querySQL(d), {})).sql = The(querySQL(d), {}).sql
  OBVIOUS
<1> HIDE DEF method, own
<1> QED
  BY <1>6, <1>7, <1>8, <1>9

-----------------------------------------------------------------------------
(* What has been left stays.                                               *)

CallsInv ==
  /\ PastScan => Blocked \/ TimeoutsAreDurations
  /\ PastProxies => Blocked \/ AllProxied
  /\ PastRoutes => Blocked \/ AllRouted
  /\ PastHandlers => Blocked \/ AllHandled
  /\ PastHooks => Blocked \/ AllHooked
  /\ PastTasks => Blocked \/ AllScheduled
  /\ PastQueries => Blocked \/ AllQueried

LEMMA DeclsAndRoutesStay ==
  ASSUME [Next]_vars
  PROVE  /\ PastScan => decls' = decls
         /\ PastRoutes => routes' = routes
BY Steps, Zenon DEF PastScan, PastProxies, PastRoutes, Analyze, AnalyzeWith, RegisterAnnotations, Scan, Discover,
   FilterByProfile, NutRound, DiscoverProxies, Resolve, DiscoverRoutes, DiscoverExceptionHandlers, DiscoverLifecycle,
   DiscoverScheduled, DiscoverRepositories, BuildGraph, SearchStep, ReportCycle, HostAnalyze, GenerateWiring,
   HostGenerate, Rests, analysisVars, Phase

LEMMA ProxiedStay ==
  ASSUME AppInv, [Next]_vars, PastProxies, AllProxied
  PROVE  AllProxied'
<1>1. /\ components' = components /\ decls' = decls
      /\ \A n \in components : /\ app'[n].kind = app[n].kind /\ app'[n].implements = app[n].implements
                               /\ app'[n].intercepted = app[n].intercepted
  BY RestKept DEF Fields, Written
<1> QED
  BY <1>1 DEF AllProxied, Proxying, Proxy

LEMMA RoutedStay ==
  ASSUME AppInv, [Next]_vars, PastRoutes, AllRouted
  PROVE  AllRouted'
<1>1. components' = components /\ decls' = decls /\ routes' = routes
  BY RestKept, DeclsAndRoutesStay DEF PastRoutes
<1> QED
  BY <1>1 DEF AllRouted, controllerDecls, components

LEMMA HandledStay ==
  ASSUME AppInv, [Next]_vars, PastHandlers, AllHandled
  PROVE  AllHandled'
<1>1. /\ components' = components /\ decls' = decls
      /\ \A n \in components : /\ app'[n].kind = app[n].kind /\ app'[n].provides = app[n].provides
                               /\ app'[n].handlers = app[n].handlers
  BY RestKept DEF PastRoutes, PastHandlers, Fields, Written
<1>2. \A recv : adviceOf(app', recv) = adviceOf(app, recv) /\ adviceOf(app, recv) \subseteq components
  BY <1>1 DEF adviceOf, components
<1>3. \A c : handlersOf(decls, app', c) = handlersOf(decls, app, c)
  BY <1>2 DEF handlersOf
<1> QED
  BY <1>1, <1>2, <1>3 DEF AllHandled

LEMMA HookedStay ==
  ASSUME AppInv, [Next]_vars, PastHooks, AllHooked
  PROVE  AllHooked'
<1>1. /\ components' = components /\ decls' = decls
      /\ \A n \in components : app'[n].post = app[n].post /\ app'[n].pre = app[n].pre
  BY RestKept DEF PastRoutes, PastHandlers, PastHooks, Fields, Written
<1> QED
  BY <1>1 DEF AllHooked, LastOf

LEMMA ScheduledStay ==
  ASSUME AppInv, [Next]_vars, PastTasks, AllScheduled
  PROVE  AllScheduled'
<1>1. /\ components' = components /\ decls' = decls
      /\ \A n \in components : app'[n].scheduled = app[n].scheduled
  BY RestKept DEF PastRoutes, PastHandlers, PastHooks, PastTasks, Fields, Written
<1> QED
  BY <1>1 DEF AllScheduled

LEMMA QueriedStay ==
  ASSUME AppInv, [Next]_vars, PastQueries, AllQueried
  PROVE  AllQueried'
<1>1. /\ components' = components /\ decls' = decls
      /\ \A n \in components : app'[n].build = app[n].build /\ app'[n].queries = app[n].queries
  BY RestKept DEF PastRoutes, PastHandlers, PastHooks, PastTasks, PastQueries, Fields, Written
<1> QED
  BY <1>1 DEF AllQueried

LEMMA CallsKept ==
  ASSUME AppInv, FilesInv, PluginInv, DeclsInv, WiringInv, CallsInv, [Next]_vars
  PROVE  CallsInv'
<1>1. PastScan /\ Blocked => Blocked'
  BY BlockedStays
<1>2. ASSUME ErrorReported', [Next]_vars, Scan \/ DiscoverProxies \/ DiscoverRoutes \/ DiscoverExceptionHandlers
                                          \/ DiscoverLifecycle \/ DiscoverScheduled \/ DiscoverRepositories
      PROVE  Blocked'
  <2>1. phase \in {"scan", "proxies", "routes", "handlers", "lifecycle", "scheduled", "repositories"}
    BY <1>2 DEF Scan, DiscoverProxies, DiscoverRoutes, DiscoverExceptionHandlers, DiscoverLifecycle,
                DiscoverScheduled, DiscoverRepositories, Phase
  <2>2. wiring = {} /\ wiring' = wiring
    BY <2>1, Steps, Zenon DEF WiringInv, Analyze, AnalyzeWith, RegisterAnnotations, Scan, Discover, FilterByProfile,
       NutRound, DiscoverProxies, Resolve, DiscoverRoutes, DiscoverExceptionHandlers, DiscoverLifecycle,
       DiscoverScheduled, DiscoverRepositories, BuildGraph, SearchStep, ReportCycle, HostAnalyze, GenerateWiring,
       HostGenerate, Rests, analysisVars, Phase
  <2> QED
    BY <1>2, <2>2 DEF Blocked
<1>3. PastScan' => Blocked' \/ TimeoutsAreDurations'
  <2>1. PastScan /\ TimeoutsAreDurations => TimeoutsAreDurations'
    BY DeclsAndRoutesStay DEF TimeoutsAreDurations
  <2>2. Scan => Blocked' \/ TimeoutsAreDurations'
    BY <1>2, ScanValidates
  <2> QED
    BY <1>1, <2>1, <2>2, PhasesInOrder DEF CallsInv
<1>4. PastProxies' => Blocked' \/ AllProxied'
  <2>1. DiscoverProxies => PastScan
    BY DEF DiscoverProxies, Phase, PastScan
  <2>2. DiscoverProxies => Blocked' \/ AllProxied'
    BY <1>1, <1>2, <2>1, ProxiesAttached DEF CallsInv
  <2>3. PastProxies => PastScan
    BY DEF PastProxies
  <2> QED
    BY <1>1, <2>2, <2>3, ProxiedStay, PhasesInOrder DEF CallsInv
<1>5. PastRoutes' => Blocked' \/ AllRouted'
  <2>1. PastRoutes => PastScan
    BY DEF PastRoutes, PastProxies
  <2> QED
    BY <1>1, <1>2, <2>1, RoutedStay, RoutesAttached, PhasesInOrder DEF CallsInv
<1>6. PastHandlers' => Blocked' \/ AllHandled'
  <2>1. PastHandlers => PastScan
    BY DEF PastHandlers, PastRoutes, PastProxies
  <2> QED
    BY <1>1, <1>2, <2>1, HandledStay, HandlersAttached, PhasesInOrder DEF CallsInv
<1>7. PastHooks' => Blocked' \/ AllHooked'
  <2>1. PastHooks => PastScan
    BY DEF PastHooks, PastHandlers, PastRoutes, PastProxies
  <2> QED
    BY <1>1, <1>2, <2>1, HookedStay, HooksAttached, PhasesInOrder DEF CallsInv
<1>8. PastTasks' => Blocked' \/ AllScheduled'
  <2>1. PastTasks => PastScan
    BY DEF PastTasks, PastHooks, PastHandlers, PastRoutes, PastProxies
  <2> QED
    BY <1>1, <1>2, <2>1, ScheduledStay, TasksAttached, PhasesInOrder DEF CallsInv
<1>9. PastQueries' => Blocked' \/ AllQueried'
  <2>1. PastQueries => PastScan
    BY DEF PastQueries, PastTasks, PastHooks, PastHandlers, PastRoutes, PastProxies
  <2> QED
    BY <1>1, <1>2, <2>1, QueriedStay, QueriesAttached, PhasesInOrder DEF CallsInv
<1> QED
  BY <1>3, <1>4, <1>5, <1>6, <1>7, <1>8, <1>9 DEF CallsInv

LEMMA CallsInvariant == Spec => []CallsInv
<1>1. Init => CallsInv
  BY DEF Init, AnalysisInit, CallsInv, PastScan, PastProxies, PastRoutes, PastHandlers, PastHooks, PastTasks,
         PastQueries
<1>2. AppInv /\ FilesInv /\ PluginInv /\ GenInv /\ CallsInv /\ [Next]_vars => CallsInv'
  BY CallsKept DEF GenInv
<1>3. Init => FilesInv
  BY DEF Init, FilesInv, WrittenOnlyWithoutErrors
<1>4. Init => PluginInv
  BY DEF Init, AnalysisInit, PluginInv
<1> QED
  BY <1>1, <1>2, <1>3, <1>4, FilesKept, PluginsKept, AppInvariant, GenInvariant, PTL DEF Spec

-----------------------------------------------------------------------------
(* Every hook, mapping and query annotation.                               *)

HookOf(a, id) == [component |-> id, start |-> a[id].post, stop |-> a[id].pre]

\* Every hook of every component in the order is there, and no other.
LEMMA HooksComplete ==
  ASSUME NEW a, NEW N, NEW o \in Seq(N)
  PROVE  ToSet(renderLifecycle(a, o)) = {HookOf(a, o[j]) : j \in {x \in 1..Len(o) : HasLifecycle(a[o[x]])}}
<1> DEFINE n == Len(o)
           Hooks(k) == {HookOf(a, o[j]) : j \in {x \in 1..k : HasLifecycle(a[o[x]])}}
           Good(hooks, k) == \E S : hooks \in Seq(S) /\ ToSet(hooks) = Hooks(k)
<1>0. n \in Nat
  OBVIOUS
<1>1. PICK run : renderLifecycle(a, o) = run[n] /\ HooksRun(run, a, o)
  BY <1>0, HooksUnroll
<1> DEFINE Reached == {k \in 0..n : Good(run[k], k)}
<1> HIDE DEF n
<1>2. 0 \in Reached
  <2>1. <<>> \in Seq({}) /\ ToSet(<<>>) = Hooks(0)
    BY DEF ToSet
  <2> HIDE DEF Hooks
  <2>2. Good(<<>>, 0)
    BY <2>1
  <2> HIDE DEF Good
  <2> QED
    BY <1>0, <1>1, <2>2 DEF HooksRun
<1>3. ASSUME NEW k \in 1..n, k - 1 \in Reached
      PROVE  k \in Reached
  <2> DEFINE before == run[k - 1]
  <2>1. PICK S : before \in Seq(S) /\ ToSet(before) = Hooks(k - 1)
    BY <1>3
  <2>2. run[k] = WithHooks(before, a, o[k])
    BY <1>1 DEF HooksRun, n
  <2>3. 1..k = (1..(k - 1)) \cup {k}
    BY <1>0
  <2> HIDE DEF before
  <2>4. CASE ~HasLifecycle(a[o[k]])
    <3>1. Hooks(k) = Hooks(k - 1)
      BY <2>3, <2>4
    <3>2. run[k] = before
      BY <2>2, <2>4 DEF WithHooks
    <3> HIDE DEF Hooks
    <3>3. Good(run[k], k)
      BY <2>1, <3>1, <3>2
    <3> HIDE DEF Good
    <3> QED
      BY <3>3
  <2>5. CASE HasLifecycle(a[o[k]])
    <3>1. Hooks(k) = Hooks(k - 1) \cup {HookOf(a, o[k])}
      BY <2>3, <2>5
    <3>2. run[k] = Append(before, HookOf(a, o[k]))
      BY <2>2, <2>5 DEF WithHooks, HookOf
    <3> HIDE DEF Hooks
    <3> DEFINE hook1 == HookOf(a, o[k])
    <3> HIDE DEF hook1
    <3>3. /\ run[k] \in Seq(S \cup {hook1}) /\ Len(run[k]) = Len(before) + 1
          /\ run[k][Len(before) + 1] = hook1 /\ Len(before) \in Nat
          /\ \A i \in 1..Len(before) : run[k][i] = before[i]
      BY <2>1, <3>2, AppendToSeq DEF hook1
    <3>4. DOMAIN run[k] = (1..Len(before)) \cup {Len(before) + 1} /\ DOMAIN before = 1..Len(before)
      BY <2>1, <3>3
    <3>5. ToSet(run[k]) = ToSet(before) \cup {hook1}
      BY <3>3, <3>4 DEF ToSet
    <3>6. ToSet(run[k]) = Hooks(k)
      BY <2>1, <3>1, <3>5 DEF hook1
    <3>7. Good(run[k], k)
      BY <3>3, <3>6
    <3> HIDE DEF Good
    <3> QED
      BY <3>7
  <2> QED
    BY <2>4, <2>5
<1> HIDE DEF Good
<1>4. n \in Reached
  <2> HIDE DEF Reached
  <2> QED
    BY <1>0, <1>2, <1>3, UpTo
<1> QED
  BY <1>1, <1>4 DEF Good, n

LEMMA MappingAnnotations ==
  /\ DOMAIN httpMappings = 1..5
  /\ {m.annotation : m \in ToSet(httpMappings)} =
       {"GetMapping", "PostMapping", "PutMapping", "PatchMapping", "DeleteMapping"}
<1>1. DOMAIN httpMappings = 1..5
  BY DEF httpMappings
<1>2. 1..5 = {1, 2, 3, 4, 5}
  OBVIOUS
<1>3. /\ httpMappings[1].annotation = "GetMapping" /\ httpMappings[2].annotation = "PostMapping"
      /\ httpMappings[3].annotation = "PutMapping" /\ httpMappings[4].annotation = "PatchMapping"
      /\ httpMappings[5].annotation = "DeleteMapping"
  BY DEF httpMappings
<1> QED
  BY <1>1, <1>2, <1>3 DEF ToSet

LEMMA QueryAnnotationsListed == ToSet(queryAnnotations) = {"Query", "Exec", "Batch", "Call"}
<1>1. DOMAIN queryAnnotations = {1, 2, 3, 4}
  BY DEF queryAnnotations
<1>2. /\ queryAnnotations[1] = "Query" /\ queryAnnotations[2] = "Exec"
      /\ queryAnnotations[3] = "Batch" /\ queryAnnotations[4] = "Call"
  BY DEF queryAnnotations
<1> QED
  BY <1>1, <1>2 DEF ToSet

\* A mapping annotation without an earlier one on the method is its mapping.
LEMMA MappingFound ==
  ASSUME NEW d, NEW n \in DOMAIN httpMappings, Has(d, httpMappings[n].annotation),
         \A k \in 1..(n - 1) : ~Has(d, httpMappings[k].annotation)
  PROVE  mappingFor(d) # {} /\ The(mappingFor(d), {}) = httpMappings[n]
<1> DEFINE carries(i) == Has(d, httpMappings[i].annotation)
           S == {j \in DOMAIN httpMappings : carries(j) /\ \A k \in 1..(j - 1) : ~carries(k)}
<1>1. DOMAIN httpMappings = 1..5
  BY MappingAnnotations
<1>2. n \in S
  OBVIOUS
<1>3. ASSUME NEW j \in S PROVE j = n
  <2>1. j \in 1..5 /\ n \in 1..5 /\ ~(j < n) /\ ~(n < j)
    BY <1>1
  <2> QED
    BY <2>1
<1>4. S = {n}
  BY <1>2, <1>3
<1>5. mappingFor(d) = {httpMappings[i] : i \in S}
  BY Zenon DEF mappingFor
<1> HIDE DEF S
<1>6. mappingFor(d) = {httpMappings[n]}
  BY <1>4, <1>5
<1> QED
  BY <1>6 DEF The

\* A query annotation with a statement, and none with one before it, is the query.
LEMMA QueryFound ==
  ASSUME NEW d, NEW n \in DOMAIN queryAnnotations, StatementOf(d, queryAnnotations[n]) # {},
         \A k \in 1..(n - 1) : StatementOf(d, queryAnnotations[k]) = {}
  PROVE  \E text \in StatementOf(d, queryAnnotations[n]) : The(querySQL(d), {}).sql = Chars[text]
<1> DEFINE text(i) == UNION {stringArgValue(a, PositionalKey) : a \in Find(d, queryAnnotations[i])}
           first == {i \in DOMAIN queryAnnotations : text(i) # {} /\ \A j \in 1..(i - 1) : text(j) = {}}
           query(i) == [annotation |-> queryAnnotations[i], sql |-> Chars[The(text(i), "")]]
<1>1. \A i : text(i) = StatementOf(d, queryAnnotations[i])
  BY DEF StatementOf
<1>2. querySQL(d) = {query(i) : i \in first}
  BY Zenon DEF querySQL
<1>3. The(text(n), "") \in text(n) /\ query(n).sql = Chars[The(text(n), "")]
  BY <1>1 DEF The
<1>4. DOMAIN queryAnnotations = 1..4
  BY DEF queryAnnotations
<1> HIDE DEF text
<1>5. first = {n}
  <2>1. n \in first
    BY <1>1
  <2>2. ASSUME NEW j \in first PROVE j = n
    <3>1. j \in 1..4 /\ n \in 1..4 /\ ~(j < n) /\ ~(n < j)
      BY <1>1, <1>4
    <3> QED
      BY <3>1
  <2> QED
    BY <2>1, <2>2
<1> HIDE DEF first, query
<1>6. The(querySQL(d), {}) = query(n)
  BY <1>2, <1>5 DEF The
<1> QED
  BY <1>1, <1>3, <1>6

\* At most one annotation is the first of its name.
LEMMA FirstIsUnique ==
  ASSUME NEW d, d.anns \in Seq(ToSet(d.anns)), NEW name, NEW a \in Find(d, name), NEW b \in Find(d, name)
  PROVE  a = b
<1>1. PICK i \in DOMAIN d.anns : /\ a = d.anns[i] /\ d.anns[i].name = name
                                 /\ \A k \in 1..(i - 1) : d.anns[k].name # name
  BY DEF Find
<1>2. PICK j \in DOMAIN d.anns : /\ b = d.anns[j] /\ d.anns[j].name = name
                                 /\ \A k \in 1..(j - 1) : d.anns[k].name # name
  BY DEF Find
<1>3. i \in Nat \ {0} /\ j \in Nat \ {0}
  OBVIOUS
<1>4. ~(i < j) /\ ~(j < i)
  BY <1>1, <1>2, <1>3
<1> QED
  BY <1>1, <1>2, <1>3, <1>4

-----------------------------------------------------------------------------
(* Nothing is lost.                                                        *)

LEMMA EverythingAttached ==
  ASSUME GenInv, CallsInv, NEW w \in wiring
  PROVE  AllProxied /\ AllRouted /\ AllHandled /\ AllHooked /\ AllScheduled /\ AllQueried
<1>1. Ending
  BY BehindTheWiring
<1>2. PastProxies /\ PastRoutes /\ PastHandlers /\ PastHooks /\ PastTasks /\ PastQueries
  BY <1>1 DEF Ending, PastScan, PastProxies, PastRoutes, PastHandlers, PastHooks, PastTasks, PastQueries
<1>3. ~Blocked
  BY DEF Blocked
<1> QED
  BY <1>2, <1>3 DEF CallsInv

\* What an annotation that is not lost asks for.
LEMMA WhatIsAsked ==
  ASSUME NEW w, NEW i \in DOMAIN decls, decls[i].target = "method", DOMAIN decls \subseteq Nat,
         NEW ann \in Asks(decls[i], Owner(decls[i])) \ Lost(w, i, Owner(decls[i]))
  PROVE  LET d == decls[i]
             c == Owner(decls[i])
         IN /\ d \in methodsOf(decls) /\ Has(d, ann)
            /\ \/ /\ ann \in triggers(app[c].kind)
                  /\ app[c].implements = NoType \/ d.name \in MethodsOf[app[c].implements]
               \/ /\ ann = "Authorize" /\ app[c].kind = "controller"
                  /\ Served(d) /\ \A a \in Find(d, ann) : rolesOnly(a)
               \/ ann = "Scheduled"
               \/ ann = "ExceptionHandler" /\ ann \notin Undispatched(w, i)
               \/ ann \in {"PostConstruct", "PreDestroy"} /\ LastOf(i, ann)
               \/ ann \in mappingAnnotations /\ ControllerStruct(d) /\ ann \notin Superseded(i, c)
               \/ /\ ann \in ToSet(queryAnnotations) /\ app[c].build = "repository"
                  /\ ann \notin Superseded(i, c)
<1> DEFINE d == decls[i]
           c == Owner(decls[i])
           S2 == {"ExceptionHandler", "Scheduled", "PostConstruct", "PreDestroy"}
           S3 == IF ControllerStruct(d) THEN mappingAnnotations ELSE {}
           S4 == IF app[c].build = "repository" THEN ToSet(queryAnnotations) ELSE {}
<1>1. Asks(d, c) = AnnotationsOf(d) \cap UNION {interceptAnnotations, S2, S3, S4}
  BY Zenon DEF Asks
<1>2. /\ ann \in AnnotationsOf(d)
      /\ ann \in interceptAnnotations \/ ann \in S2 \/ ann \in S3 \/ ann \in S4
  <2> HIDE DEF S2, S3, S4
  <2> QED
    BY <1>1
<1>3. Has(d, ann)
  BY <1>2 DEF AnnotationsOf, Has
<1>4. d \in methodsOf(decls)
  BY DEF methodsOf, Range
<1>5. ann \notin Superseded(i, c) /\ ann \notin Uninterceptable(d, c) /\ ann \notin Undispatched(w, i)
  BY DEF Lost
<1>6. ASSUME ann \in interceptAnnotations
      PROVE  \/ /\ ann \in triggers(app[c].kind)
                /\ app[c].implements = NoType \/ d.name \in MethodsOf[app[c].implements]
             \/ /\ ann = "Authorize" /\ app[c].kind = "controller"
                /\ Served(d) /\ \A a \in Find(d, ann) : rolesOnly(a)
  <2> DEFINE outside == app[c].implements # NoType /\ d.name \notin MethodsOf[app[c].implements]
             atRoute == Served(d) /\ \A a \in Find(d, "Authorize") : rolesOnly(a)
             U1 == IF outside THEN interceptAnnotations ELSE {}
             U2 == IF app[c].kind = "controller" THEN {"RolesAllowed", "Cacheable", "CacheEvict"} ELSE {}
             U3 == IF app[c].kind = "controller" /\ ~atRoute THEN {"Authorize"} ELSE {}
  <2>1. Uninterceptable(d, c) = UNION {U1, U2, U3}
    BY Zenon DEF Uninterceptable
  <2>2. ann \notin U1 /\ ann \notin U2 /\ ann \notin U3
    <3> HIDE DEF U1, U2, U3
    <3> QED
      BY <1>5, <2>1
  <2>3. ~outside
    BY <1>6, <2>2
  <2> HIDE DEF outside, atRoute
  <2>4. CASE app[c].kind # "controller"
    BY <1>6, <2>3, <2>4 DEF triggers, outside
  <2>5. CASE app[c].kind = "controller" /\ ann = "Authorize"
    BY <2>2, <2>5 DEF atRoute
  <2>6. CASE app[c].kind = "controller" /\ ann # "Authorize"
    BY <1>6, <2>2, <2>3, <2>6 DEF triggers, interceptAnnotations, outside
  <2> QED
    BY <2>4, <2>5, <2>6
<1>7. ann \in {"PostConstruct", "PreDestroy"} => LastOf(i, ann)
  <2> SUFFICES ASSUME ann \in {"PostConstruct", "PreDestroy"} PROVE LastOf(i, ann)
    OBVIOUS
  <2>1. i \in ownMethods(decls, c, ann)
    BY <1>3 DEF ownMethods, Owner
  <2>2. ~ \E j \in ownMethods(decls, c, ann) : j > i
    <3> DEFINE S == {x \in {"PostConstruct", "PreDestroy"} : \E j \in ownMethods(decls, c, x) : j > i}
    <3>1. ann \notin S
      <4>1. S \subseteq Superseded(i, c)
        BY Zenon DEF Superseded
      <4> HIDE DEF S
      <4> QED
        BY <1>5, <4>1
    <3> QED
      BY <3>1
  <2> QED
    BY <2>1, <2>2 DEF LastOf
<1>8. ann \in S3 => ann \in mappingAnnotations /\ ControllerStruct(d)
  OBVIOUS
<1>9. ann \in S4 => ann \in ToSet(queryAnnotations) /\ app[c].build = "repository"
  OBVIOUS
<1>10. ann \in S2 => ann \in {"PostConstruct", "PreDestroy"} \/ ann = "Scheduled" \/ ann = "ExceptionHandler"
  OBVIOUS
<1> HIDE DEF S2, S3, S4
<1> QED
  BY <1>2, <1>3, <1>4, <1>5, <1>6, <1>7, <1>8, <1>9, <1>10

\* What is around the method in its proxy.
LEMMA InterceptorsWired ==
  ASSUME GenInv, NEW w \in wiring, NEW d, Proxying(d), NEW ann \in triggers(app[Owner(d)].kind), Has(d, ann),
         app[Owner(d)].implements = NoType \/ d.name \in MethodsOf[app[Owner(d)].implements]
  PROVE  d.name \in Wired(w, d, Owner(d), ann)
<1> DEFINE c == Owner(d)
           p == app[Proxy(Owner(d))]
<1>1. ann \in interceptAnnotations /\ ~(ann = "Authorize" /\ app[c].kind = "controller")
  BY DEF triggers, interceptAnnotations, nonRouteInterceptAnnotations
<1>2. /\ Proxy(c) \in components /\ p.kind = "proxy" /\ d.name \in MethodsOf[p.implements]
      /\ \E m \in p.intercepted : m.name = d.name /\ ann \in m.advice
  BY DEF Proxying
<1>3. w.proxies = [id \in {x \in DOMAIN app : app[x].kind = "proxy"} |-> renderProxyType(app[id])]
  BY BehindTheWiring DEF renderProxies
<1>4. Proxy(c) \in DOMAIN w.proxies /\ w.proxies[Proxy(c)] = renderProxyType(p)
  BY <1>2, <1>3 DEF components
<1>5. d.name \in DOMAIN renderProxyType(p) /\ ann \in renderProxyType(p)[d.name]
  BY <1>2 DEF renderProxyType
<1>6. d.name \in UNION {{m \in DOMAIN w.proxies[n] : ann \in w.proxies[n][m]} : n \in DOMAIN w.proxies \cap {Proxy(c)}}
  BY <1>4, <1>5
<1> QED
  BY <1>1, <1>6, QueryAnnotationsListed, MappingAnnotations
     DEF Wired, mappingAnnotations, interceptAnnotations, nonRouteInterceptAnnotations

\* The route of a method with a mapping annotation.
LEMMA RoutePresent ==
  ASSUME GenInv, AllRouted, NEW w \in wiring, NEW d \in methodsOf(decls), Owner(d) \in components,
         ControllerStruct(d), mappingFor(d) # {}
  PROVE  \E r \in w.routes : /\ r.controller = Owner(d) /\ r.handler = d.name
                             /\ r.method = The(mappingFor(d), {}).method /\ r.roles = authorizeRoles(d)
<1>1. PICK x \in Range(decls) : x.target = "struct" /\ x.name = d.recv /\ Has(x, "RestController")
  BY DEF ControllerStruct
<1>2. x \in controllerDecls(decls, app)
  BY <1>1 DEF controllerDecls, Owner, components
<1>3. w.routes = routes
  BY BehindTheWiring
<1> QED
  BY <1>1, <1>2, <1>3 DEF AllRouted

\* The route asks for the roles of @Authorize.
LEMMA AuthorizationWired ==
  ASSUME GenInv, AllRouted, NEW w \in wiring, NEW d \in methodsOf(decls), Owner(d) \in components,
         d.anns \in Seq(ToSet(d.anns)), Served(d), app[Owner(d)].kind = "controller",
         Has(d, "Authorize"), \A a \in Find(d, "Authorize") : rolesOnly(a)
  PROVE  d.name \in Wired(w, d, Owner(d), "Authorize")
<1>1. mappingFor(d) # {}
  <2> DEFINE S == {k \in DOMAIN httpMappings : Has(d, httpMappings[k].annotation)}
  <2>1. S # {} /\ S \subseteq Nat /\ DOMAIN httpMappings = 1..5
    BY MappingAnnotations DEF Served, AnnotationsOf, Has, mappingAnnotations, ToSet
  <2>2. PICK n \in S : \A k \in S : n <= k
    BY <2>1, LeastExists
  <2>3. \A k \in 1..(n - 1) : ~Has(d, httpMappings[k].annotation)
    BY <2>1, <2>2
  <2> QED
    BY <2>2, <2>3, MappingFound
<1>2. PICK r \in w.routes : r.controller = Owner(d) /\ r.handler = d.name /\ r.roles = authorizeRoles(d)
  BY <1>1, RoutePresent DEF Served
<1>3. ASSUME NEW a \in Find(d, "Authorize")
      PROVE  r.roles = arrayArg(a, "roles")
  <2>1. Find(d, "Authorize") = {a}
    BY FirstIsUnique
  <2> QED
    BY <1>2, <2>1 DEF authorizeRoles
<1>4. \A a \in Find(d, "Authorize") : Enforces(r, a)
  BY <1>3 DEF Enforces
<1>5. d.name \in {x.handler : x \in {y \in {z \in w.routes : z.controller = Owner(d)} :
                                       \A a \in Find(d, "Authorize") : Enforces(y, a)}}
  BY <1>2, <1>4
<1> QED
  BY <1>5, QueryAnnotationsListed, MappingAnnotations DEF Wired, mappingAnnotations

\* The route of the mapping annotation that counts.
LEMMA MappingsWired ==
  ASSUME GenInv, AllRouted, NEW w \in wiring, NEW i \in DOMAIN decls, decls[i].target = "method",
         Owner(decls[i]) \in components, ControllerStruct(decls[i]), NEW ann \in mappingAnnotations,
         Has(decls[i], ann), ann \notin Superseded(i, Owner(decls[i]))
  PROVE  decls[i].name \in Wired(w, decls[i], Owner(decls[i]), ann)
<1> DEFINE d == decls[i]
           c == Owner(decls[i])
           earlierMapping(k) == \E j \in 1..(k - 1) : Has(d, httpMappings[j].annotation)
           S == {httpMappings[k].annotation : k \in {x \in DOMAIN httpMappings : earlierMapping(x)}}
<1>1. PICK n \in DOMAIN httpMappings : httpMappings[n].annotation = ann
  BY DEF mappingAnnotations, ToSet
<1>2. ann \notin S
  <2>1. S \subseteq Superseded(i, c)
    BY Zenon DEF Superseded
  <2> HIDE DEF S
  <2> QED
    BY <2>1
<1>3. \A j \in 1..(n - 1) : ~Has(d, httpMappings[j].annotation)
  BY <1>1, <1>2
<1>4. mappingFor(d) # {} /\ The(mappingFor(d), {}) = httpMappings[n]
  BY <1>1, <1>3, MappingFound
<1>5. d \in methodsOf(decls)
  BY DEF methodsOf, Range
<1>6. PICK r \in w.routes : r.controller = c /\ r.handler = d.name /\ r.method = httpMappings[n].method
  BY <1>4, <1>5, RoutePresent
<1>7. httpMappings[n] \in ToSet(httpMappings)
  BY DEF ToSet
<1>8. d.name \in {x.handler : x \in {y \in {z \in w.routes : z.controller = c} :
                      \E m \in ToSet(httpMappings) : m.annotation = ann /\ m.method = y.method}}
  BY <1>1, <1>6, <1>7
<1>9. ann \in {"GetMapping", "PostMapping", "PutMapping", "PatchMapping", "DeleteMapping"}
  BY MappingAnnotations DEF mappingAnnotations
<1> QED
  BY <1>8, <1>9, QueryAnnotationsListed DEF Wired, interceptAnnotations, nonRouteInterceptAnnotations

\* The handler that the dispatcher has for the type.
LEMMA HandlersWired ==
  ASSUME GenInv, AllHandled, NEW w \in wiring, NEW i \in DOMAIN decls, decls[i] \in handlerDecls(decls),
         "ExceptionHandler" \notin Undispatched(w, i)
  PROVE  decls[i].name \in Wired(w, decls[i], Owner(decls[i]), "ExceptionHandler")
<1> DEFINE d == decls[i]
           t == d.sig.params[2].type
           handlers == collectAdviceHandlers(app)
           entry(c, h) == [component |-> c, name |-> h.name, catches |-> h.catches]
<1>1. w.routes = routes /\ w.dispatcher = renderExceptionDispatcher(app, routes)
  BY BehindTheWiring
<1>2. /\ routes # {}
      /\ \A x \in handlerDecls(decls) : x.sig.params[2].type = t => x = d
  <2>1. ~(w.routes = {} \/ \E j \in DOMAIN decls \ {i} :
            /\ decls[j] \in handlerDecls(decls) /\ decls[i] \in handlerDecls(decls)
            /\ decls[j].sig.params[2].type = decls[i].sig.params[2].type)
    BY DEF Undispatched
  <2> QED
    BY <1>1, <2>1 DEF handlerDecls, methodsOf, Range
<1>3. PICK y \in adviceOf(app, d.recv) : y \in components /\ app[y].kind = "advice"
  BY DEF AllHandled, adviceOf, components
<1>4. handlers = UNION {{entry(c, h) : h \in app[c].handlers} : c \in {x \in DOMAIN app : app[x].kind = "advice"}}
  BY Zenon DEF collectAdviceHandlers
<1>5. exceptionHandler(d).name = d.name /\ exceptionHandler(d).catches = t
  BY DEF exceptionHandler
<1>6. exceptionHandler(d) \in app[y].handlers
  BY <1>3 DEF AllHandled, handlersOf
<1>7. entry(y, exceptionHandler(d)) \in handlers /\ entry(y, exceptionHandler(d)).catches = t
  BY <1>3, <1>4, <1>5, <1>6 DEF components
<1>8. ASSUME NEW g \in handlers, g.catches = t
      PROVE  g.name = d.name /\ g.component \in adviceOf(app, d.recv)
  <2>1. PICK c \in components : \E h \in app[c].handlers : g = entry(c, h)
    BY <1>4 DEF components
  <2>2. PICK h \in app[c].handlers : g = entry(c, h)
    BY <2>1
  <2>3. PICK x \in handlerDecls(decls) : c \in adviceOf(app, x.recv) /\ h = exceptionHandler(x)
    BY <2>2 DEF AllHandled, handlersOf
  <2>4. x.sig.params[2].type = t /\ g.name = x.name /\ g.component = c
    BY <1>8, <2>2, <2>3 DEF exceptionHandler
  <2> QED
    BY <1>2, <2>3, <2>4
<1> DEFINE chosen == CHOOSE h \in handlers : h.catches = t
<1>9. w.dispatcher = {CHOOSE h \in handlers : h.catches = s : s \in {h.catches : h \in handlers}}
  BY <1>1, <1>2, Zenon DEF renderExceptionDispatcher
<1> HIDE DEF handlers, entry
<1>10. t \in {h.catches : h \in handlers}
  BY <1>7
<1>11. chosen \in w.dispatcher
  BY <1>9, <1>10
<1>12. chosen \in handlers /\ chosen.catches = t
  BY <1>7
<1> HIDE DEF chosen, t
<1>13. d.name \in {h.name : h \in {x \in w.dispatcher : x.component \in adviceOf(app, d.recv)}}
  BY <1>8, <1>11, <1>12
<1> QED
  BY <1>13, QueryAnnotationsListed, MappingAnnotations
     DEF Wired, mappingAnnotations, interceptAnnotations, nonRouteInterceptAnnotations

\* The hook of a component is registered.
LEMMA HooksWired ==
  ASSUME AppInv, GraphInv, GenInv, AllHooked, NEW w \in wiring, NEW i \in DOMAIN decls,
         Owner(decls[i]) \in components, decls[i].name # "",
         NEW ann \in {"PostConstruct", "PreDestroy"}, LastOf(i, ann)
  PROVE  decls[i].name \in Wired(w, decls[i], Owner(decls[i]), ann)
<1> DEFINE d == decls[i]
           c == Owner(decls[i])
           hook1 == HookOf(app, c)
<1>1. /\ Ending /\ renderable(app, order) /\ search = "ordered"
      /\ w.lifecycle = renderLifecycle(app, order)
  BY BehindTheWiring
<1>2. order \in Seq(components) /\ DOMAIN order = 1..Len(order) /\ Elements(order) = components
  BY <1>1, OrderOfTheWiring
<1>3. /\ ann = "PostConstruct" => app[c].post = d.name
      /\ ann = "PreDestroy" => app[c].pre = d.name
  BY DEF AllHooked
<1>4. HasLifecycle(app[c])
  BY <1>3 DEF HasLifecycle
<1>5. PICK j \in 1..Len(order) : order[j] = c
  BY <1>2 DEF Elements
<1>6. hook1 \in ToSet(w.lifecycle)
  <2>1. ToSet(renderLifecycle(app, order)) =
          {HookOf(app, order[k]) : k \in {x \in 1..Len(order) : HasLifecycle(app[order[x]])}}
    BY <1>2, HooksComplete
  <2>2. j \in {x \in 1..Len(order) : HasLifecycle(app[order[x]])}
    BY <1>4, <1>5
  <2>3. HookOf(app, order[j]) = hook1
    BY <1>5
  <2> QED
    BY <1>1, <2>1, <2>2, <2>3
<1>7. hook1.component = c /\ hook1.start = app[c].post /\ hook1.stop = app[c].pre
  BY DEF HookOf
<1>8. CASE ann = "PostConstruct"
  <2>1. d.name \in {h.start : h \in {x \in ToSet(w.lifecycle) : x.component = c}}
    BY <1>3, <1>6, <1>7, <1>8
  <2> QED
    BY <1>8, <2>1, QueryAnnotationsListed, MappingAnnotations
       DEF Wired, mappingAnnotations, interceptAnnotations, nonRouteInterceptAnnotations
<1>9. CASE ann = "PreDestroy"
  <2>1. d.name \in {h.stop : h \in {x \in ToSet(w.lifecycle) : x.component = c}}
    BY <1>3, <1>6, <1>7, <1>9
  <2> QED
    BY <1>9, <2>1, QueryAnnotationsListed, MappingAnnotations
       DEF Wired, mappingAnnotations, interceptAnnotations, nonRouteInterceptAnnotations
<1> QED
  BY <1>8, <1>9

\* The task of a scheduled method runs.
LEMMA TasksWired ==
  ASSUME AppInv, GraphInv, GenInv, AllScheduled, NEW w \in wiring, NEW d \in methodsOf(decls),
         Owner(d) \in components, Has(d, "Scheduled")
  PROVE  d.name \in Wired(w, d, Owner(d), "Scheduled")
<1> DEFINE c == Owner(d)
<1>1. Ending /\ renderable(app, order) /\ search = "ordered" /\ w.tasks = renderScheduler(app, order)
  BY BehindTheWiring
<1>2. DOMAIN order = 1..Len(order) /\ Elements(order) = components
  BY <1>1, OrderOfTheWiring
<1>3. PICK m \in app[c].scheduled : m.name = d.name /\ m.schedule.interval > 0
  BY DEF AllScheduled
<1> DEFINE task(id, x) == [component |-> id, run |-> x.name, interval |-> x.schedule.interval,
                           initialDelay |-> IF x.schedule.initialDelay > 0 THEN x.schedule.initialDelay ELSE 0]
<1>4. c \in ToSet(order)
  BY <1>2 DEF Elements, ToSet
<1>5. renderScheduler(app, order) = UNION {{task(id, x) : x \in app[id].scheduled} : id \in ToSet(order)}
  BY Zenon DEF renderScheduler
<1>6. task(c, m).component = c /\ task(c, m).run = d.name /\ task(c, m).interval > 0
  BY <1>3
<1> HIDE DEF task
<1>7. task(c, m) \in w.tasks
  BY <1>1, <1>3, <1>4, <1>5
<1>8. d.name \in {t.run : t \in {x \in w.tasks : x.component = c /\ x.interval > 0}}
  BY <1>6, <1>7
<1> QED
  BY <1>8, QueryAnnotationsListed, MappingAnnotations
     DEF Wired, mappingAnnotations, interceptAnnotations, nonRouteInterceptAnnotations

\* The generated method runs the statement of the query annotation that counts.
LEMMA QueriesWired ==
  ASSUME GenInv, AllQueried, NEW w \in wiring, NEW i \in DOMAIN decls, decls[i].target = "method",
         Owner(decls[i]) \in components, app[Owner(decls[i])].build = "repository",
         NEW ann \in ToSet(queryAnnotations), ann \notin Superseded(i, Owner(decls[i]))
  PROVE  decls[i].name \in Wired(w, decls[i], Owner(decls[i]), ann)
<1> DEFINE d == decls[i]
           c == Owner(decls[i])
           earlierStatement(k) == \E j \in 1..(k - 1) : StatementOf(d, queryAnnotations[j]) # {}
           S == {queryAnnotations[k] : k \in {x \in DOMAIN queryAnnotations :
                   earlierStatement(x) \/ StatementOf(d, queryAnnotations[x]) = {}}}
<1>1. PICK n \in DOMAIN queryAnnotations : queryAnnotations[n] = ann
  BY DEF ToSet
<1>2. ann \notin S
  <2>1. S \subseteq Superseded(i, c)
    BY Zenon DEF Superseded
  <2> HIDE DEF S
  <2> QED
    BY <2>1
<1>3. StatementOf(d, ann) # {} /\ \A k \in 1..(n - 1) : StatementOf(d, queryAnnotations[k]) = {}
  BY <1>1, <1>2
<1>4. PICK text \in StatementOf(d, ann) : The(querySQL(d), {}).sql = Chars[text]
  BY <1>1, <1>3, QueryFound
<1>5. d \in methodsOf(decls)
  BY DEF methodsOf, Range
<1>6. PICK m \in app[c].queries : m.name = d.name /\ m.sql = The(querySQL(d), {}).sql
  BY <1>5 DEF AllQueried
<1>7. PICK dialect : w.repositories = [x \in {y \in DOMAIN app : app[y].build = "repository"} |->
                                         renderRepository(app[x].queries, dialect)]
  BY BehindTheWiring
<1>8. w.repositories[c] = [x \in app[c].queries |-> renderRepositoryMethod(x, dialect)]
  BY <1>7 DEF renderRepository, components
<1>9. renderRepositoryMethod(m, dialect).name = m.name
  BY DEF renderRepositoryMethod
<1>10. m \in DOMAIN w.repositories[c] /\ w.repositories[c][m].name = d.name
  BY <1>6, <1>8, <1>9
<1>11. d.name \in {w.repositories[c][x].name : x \in {y \in DOMAIN w.repositories[c] :
                      \E s \in StatementOf(d, ann) : y.sql = Chars[s]}}
  BY <1>4, <1>6, <1>10
<1>12. ann \in {"Query", "Exec", "Batch", "Call"}
  BY QueryAnnotationsListed
<1>13. /\ ann \notin interceptAnnotations
       /\ ann \notin {"Authorize", "ExceptionHandler", "PostConstruct", "PreDestroy", "Scheduled"}
  BY <1>12 DEF interceptAnnotations, nonRouteInterceptAnnotations
<1>14. ann \notin mappingAnnotations
  BY <1>12, MappingAnnotations DEF mappingAnnotations
<1>15. Wired(w, d, c, ann) =
         {w.repositories[c][x].name : x \in {y \in DOMAIN w.repositories[c] :
            \E s \in StatementOf(d, ann) : y.sql = Chars[s]}}
  <2> HIDE DEF d, c
  <2> QED
    BY <1>13, <1>14 DEF Wired
<1> QED
  BY <1>11, <1>15

\* The methods of a component that is kept.
LEMMA KeptAreCalled ==
  ASSUME AppInv, GraphInv, GenInv, CallsInv, NEW w \in wiring,
         NEW i \in DOMAIN decls, decls[i].target = "method", Owner(decls[i]) \in components,
         NEW ann \in Asks(decls[i], Owner(decls[i])) \ Lost(w, i, Owner(decls[i]))
  PROVE  decls[i].name \in Wired(w, decls[i], Owner(decls[i]), ann)
<1> DEFINE d == decls[i]
           c == Owner(decls[i])
<1>1. Ending
  BY BehindTheWiring
<1>2. /\ DOMAIN decls \subseteq Nat /\ d.anns \in Seq(ToSet(d.anns))
      /\ \A x \in methodsOf(decls) : x.name # ""
  BY <1>1, DeclarationsKnown DEF GenInv, Ending, PastScan
<1>3. AllProxied /\ AllRouted /\ AllHandled /\ AllHooked /\ AllScheduled /\ AllQueried
  BY EverythingAttached
<1>4. d \in methodsOf(decls) /\ Has(d, ann) /\ d.name # ""
  BY <1>2, WhatIsAsked
<1>5. CASE /\ ann \in triggers(app[c].kind)
           /\ app[c].implements = NoType \/ d.name \in MethodsOf[app[c].implements]
  BY <1>3, <1>4, <1>5, InterceptorsWired DEF AllProxied
<1>6. CASE /\ ann = "Authorize" /\ app[c].kind = "controller"
           /\ Served(d) /\ \A a \in Find(d, ann) : rolesOnly(a)
  BY <1>2, <1>3, <1>4, <1>6, AuthorizationWired
<1>7. CASE ann = "Scheduled"
  BY <1>3, <1>4, <1>7, TasksWired
<1>8. CASE ann = "ExceptionHandler" /\ ann \notin Undispatched(w, i)
  BY <1>3, <1>4, <1>8, HandlersWired DEF handlerDecls
<1>9. CASE ann \in {"PostConstruct", "PreDestroy"} /\ LastOf(i, ann)
  BY <1>3, <1>4, <1>9, HooksWired
<1>10. CASE ann \in mappingAnnotations /\ ControllerStruct(d) /\ ann \notin Superseded(i, c)
  BY <1>3, <1>4, <1>10, MappingsWired
<1>11. CASE /\ ann \in ToSet(queryAnnotations) /\ app[c].build = "repository"
            /\ ann \notin Superseded(i, c)
  BY <1>3, <1>11, QueriesWired
<1> QED
  BY <1>2, <1>5, <1>6, <1>7, <1>8, <1>9, <1>10, <1>11, WhatIsAsked

\* A component that was dropped.
LEMMA DroppedAreNotCalled ==
  ASSUME AppInv, GraphInv, GenInv, NEW w \in wiring, NEW c \in Nat, c \notin components
  PROVE  /\ \A x \in ToSet(w.lifecycle) \cup w.tasks : x.component # c
         /\ \A r \in w.routes : r.controller # c
         /\ c \notin DOMAIN w.repositories /\ Proxy(c) \notin DOMAIN w.proxies
<1>1. Ending /\ Outside /\ renderable(app, order) /\ search = "ordered"
  BY BehindTheWiring
<1>2. /\ w.lifecycle = renderLifecycle(app, order) /\ w.tasks = renderScheduler(app, order)
      /\ w.routes = routes /\ w.proxies = renderProxies(app)
  BY BehindTheWiring
<1>3. order \in Seq(components) /\ DOMAIN order = 1..Len(order) /\ components \subseteq Nat
  BY <1>1, OrderOfTheWiring
<1>4. \A x \in ToSet(w.lifecycle) : x.component \in components
  BY <1>2, <1>3, HooksComplete DEF HookOf
<1>5. \A x \in w.tasks : x.component \in components
  <2>1. ToSet(order) \subseteq components
    BY <1>3 DEF ToSet
  <2> QED
    BY <1>2, <2>1 DEF renderScheduler
<1>6. \A r \in w.routes : r.controller \in components
  BY <1>1, <1>2 DEF GenInv, RoutesInv, RoutesOf, Ending, components
<1>7. DOMAIN w.repositories \subseteq components
  BY BehindTheWiring DEF components
<1>8. Proxy(c) \notin DOMAIN w.proxies
  <2> SUFFICES ASSUME Proxy(c) \in components, app[Proxy(c)].kind = "proxy" PROVE FALSE
    BY <1>2 DEF renderProxies, components
  <2> DEFINE target == app[Proxy(c)].target
  <2>1. Selected /\ phase # "proxies"
    BY <1>1 DEF Ending, Selected
  <2>2. /\ target # None /\ Proxy(c) = Proxy(target)
        /\ \E i \in DOMAIN app[Proxy(c)].deps : app[Proxy(c)].deps[i].to = target
    BY <2>1 DEF GenInv, TargetInv
  <2>3. target \in components
    BY <2>1, <2>2 DEF GenInv, BoundInv
  <2>4. target \in Nat /\ c + 1 = target + 1
    BY <1>3, <2>2, <2>3 DEF Proxy
  <2>5. target = c
    <3> HIDE DEF target
    <3> QED
      BY <2>4
  <2> QED
    BY <2>3, <2>5
<1> QED
  BY <1>4, <1>5, <1>6, <1>7, <1>8

\* WiredOrReported: whatever is declared, in what is generated every annotation
\* that asks something of a method of a component that is kept, and is not one of
\* those that compiler/ and generator/di are known to pass over (Lost), has its
\* call, and a component that was dropped is not called.
THEOREM NoAnnotationIsLost == Spec => []WiredOrReported
<1>1. ASSUME AppInv, GraphInv, GenInv, CallsInv
      PROVE  WiredOrReported
  <2> SUFFICES ASSUME NEW w \in wiring, NEW i \in DOMAIN decls, decls[i].target = "method"
               PROVE  LET c == Owner(decls[i])
                      IN IF c \in components
                         THEN \A ann \in Asks(decls[i], c) \ Lost(w, i, c) :
                                decls[i].name \in Wired(w, decls[i], c, ann)
                         ELSE /\ \A x \in ToSet(w.lifecycle) \cup w.tasks : x.component # c
                              /\ \A r \in w.routes : r.controller # c
                              /\ c \notin DOMAIN w.repositories /\ Proxy(c) \notin DOMAIN w.proxies
    BY Zenon DEF WiredOrReported, Owner
  <2>1. Ending
    BY <1>1, BehindTheWiring
  <2>2. Owner(decls[i]) \in Nat
    BY <1>1, <2>1, DeclarationsKnown DEF GenInv, Ending, PastScan, methodsOf, Range
  <2> QED
    BY <1>1, <2>2, KeptAreCalled, DroppedAreNotCalled
<1> QED
  BY <1>1, AppInvariant, GraphInvariant, GenInvariant, CallsInvariant, PTL
=============================================================================
