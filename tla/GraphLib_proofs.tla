-------------------------- MODULE GraphLib_proofs --------------------------
(***************************************************************************)
(* The redundant maps of graphlib::Graph stay in step, for every graph and *)
(* every sequence of rewrites: edges are mirrored, attributes are present  *)
(* and names resolve; no cycle is made, operands keep their ports, and     *)
(* nops can be inserted and bypassed without any other node noticing.      *)
(***************************************************************************)
EXTENDS GraphLib, TLAPS, FiniteSetTheorems, WellFoundedInduction

-----------------------------------------------------------------------------
(* Natural numbers.                                                        *)

(* Every nonempty set of natural numbers has a least element.              *)
LEMMA Least ==
  ASSUME NEW T \in SUBSET Nat, T # {}
  PROVE  \E x \in T : \A y \in T : x <= y
<1> DEFINE R == {p \in Nat \X Nat : p[1] < p[2]}
<1>1. OpToRel(<, Nat) = R
  BY DEF OpToRel
<1>2. IsWellFoundedOn(R, Nat)
  BY <1>1, NatLessThanWellFounded
<1>3. PICK x \in T : \A y \in T : ~(<<y, x>> \in R)
  <2> HIDE DEF R
  <2> QED BY <1>2, WFMin
<1>4. \A y \in T : <<y, x>> \in Nat \X Nat /\ ~(y < x)
  BY <1>3
<1>5. ASSUME NEW y \in T PROVE x <= y
  <2>1. x \in Nat /\ y \in Nat
    OBVIOUS
  <2>2. ~(y < x)
    BY <1>4
  <2> HIDE DEF R
  <2> QED BY <2>1, <2>2
<1> QED BY <1>5

(* Finitely many natural numbers are bounded.                              *)
LEMMA FiniteBounded ==
  ASSUME NEW S, IsFiniteSet(S), NEW f \in [S -> Nat]
  PROVE  \E b \in Nat : \A i \in S : f[i] < b
<1> DEFINE Bounded(A) == \E b \in Nat : \A i \in A : f[i] < b
           Size(k) == \E A \in SUBSET S : Cardinality(A) = k /\ ~Bounded(A)
           T == {k \in Nat : Size(k)}
<1> SUFFICES ASSUME ~Bounded(S) PROVE FALSE
  OBVIOUS
<1>1. Cardinality(S) \in T
  BY FS_CardinalityType
<1>2. PICK k \in T : \A j \in T : k <= j
  <2> HIDE DEF T
  <2> QED BY <1>1, Least DEF T
<1>3. PICK A \in SUBSET S : Cardinality(A) = k /\ ~Bounded(A)
  BY <1>2
<1>4. PICK x \in A : TRUE
  BY <1>3
<1>5. IsFiniteSet(A)
  BY FS_Subset
<1>6. Cardinality(A \ {x}) = k - 1 /\ k - 1 \in Nat
  <2>1. Cardinality(A \ {x}) = k - 1
    BY <1>3, <1>4, <1>5, FS_RemoveElement
  <2>2. Cardinality(A \ {x}) \in Nat
    BY <1>5, FS_RemoveElement, FS_CardinalityType
  <2> QED BY <2>1, <2>2
<1>7. k - 1 \notin T
  <2>1. k \in Nat
    OBVIOUS
  <2>2. ~(k <= k - 1)
    BY <2>1
  <2> HIDE DEF T
  <2> QED BY <1>2, <2>2
<1>8. PICK b \in Nat : \A i \in A \ {x} : f[i] < b
  BY <1>6, <1>7
<1>9. \A i \in A : f[i] < b + f[x] + 1
  BY <1>8
<1>10. b + f[x] + 1 \in Nat
  BY <1>8
<1> QED BY <1>3, <1>9, <1>10
-----------------------------------------------------------------------------
(* The edge maps.                                                          *)

EdgeTypes == operands \in [Ids -> SUBSET Edge] /\ users \in [Ids -> SUBSET Edge]

(* Input ports are bounded, so that add_edge finds a next free one.        *)
PortsBelow(b, E) == \A e \in E : e.port < b

PortsBounded == \E b \in Nat : \A n \in Ids : PortsBelow(b, operands[n])

EdgesInv ==
  /\ nodes \subseteq Ids
  /\ EdgeTypes
  /\ EdgesMirrored
  /\ PortsBounded

(* Edges with both ends in N.                                              *)
Between(N) == {e \in Edge : e.prod \in N /\ e.cons \in N}

(* Adding edges between nodes, old ones and new, and removing any edges    *)
(* keeps the two maps mirrored: add_edge and remove_edge touch both.       *)
LEMMA RewireGrown ==
  ASSUME EdgesInv, NEW N, nodes \subseteq N, NEW E \in SUBSET Between(N), NEW R
  PROVE  /\ OperandsWith(E, R) \in [Ids -> SUBSET Edge]
         /\ UsersWith(E, R) \in [Ids -> SUBSET Edge]
         /\ Mirrored(N, OperandsWith(E, R), UsersWith(E, R))
<1> DEFINE o == OperandsWith(E, R)
           u == UsersWith(E, R)
<1>1. o \in [Ids -> SUBSET Edge] /\ u \in [Ids -> SUBSET Edge]
  BY DEF EdgesInv, EdgeTypes, OperandsWith, UsersWith, Between
<1>2. ASSUME NEW n \in Ids, NEW e \in o[n]
      PROVE  e.cons = n /\ n \in N /\ e \in u[e.prod]
  <2>1. e \in Edge /\ e.prod \in Ids
    BY <1>1, <1>2 DEF Edge
  <2>2. CASE e \in operands[n] \ R
    BY <2>1, <2>2 DEF EdgesInv, EdgesMirrored, Mirrored, UsersWith
  <2>3. CASE e \in E /\ e.cons = n
    BY <2>1, <2>3 DEF UsersWith, Between
  <2> QED BY <1>2, <2>2, <2>3 DEF OperandsWith
<1>3. ASSUME NEW n \in Ids, NEW e \in u[n]
      PROVE  e.prod = n /\ n \in N /\ e \in o[e.cons]
  <2>1. e \in Edge /\ e.cons \in Ids
    BY <1>1, <1>3 DEF Edge
  <2>2. CASE e \in users[n] \ R
    BY <2>1, <2>2 DEF EdgesInv, EdgesMirrored, Mirrored, OperandsWith
  <2>3. CASE e \in E /\ e.prod = n
    BY <2>1, <2>3 DEF OperandsWith, Between
  <2> QED BY <1>3, <2>2, <2>3 DEF UsersWith
<1> QED BY <1>1, <1>2, <1>3 DEF Mirrored

(* The same without new nodes.                                             *)
LEMMA RewireMirrored ==
  ASSUME EdgesInv, NEW E \in SUBSET Between(nodes), NEW R
  PROVE  /\ OperandsWith(E, R) \in [Ids -> SUBSET Edge]
         /\ UsersWith(E, R) \in [Ids -> SUBSET Edge]
         /\ Mirrored(nodes, OperandsWith(E, R), UsersWith(E, R))
BY RewireGrown

(* remove_node takes every edge of the node out of both maps.              *)
LEMMA WithoutMirrored ==
  ASSUME NEW N, NEW o \in [Ids -> SUBSET Edge], NEW u \in [Ids -> SUBSET Edge],
         Mirrored(N, o, u), NEW n \in Ids
  PROVE  /\ WithoutNode(n, o, o, u) \in [Ids -> SUBSET Edge]
         /\ WithoutNode(n, u, o, u) \in [Ids -> SUBSET Edge]
         /\ Mirrored(N \ {n}, WithoutNode(n, o, o, u), WithoutNode(n, u, o, u))
<1> DEFINE p == WithoutNode(n, o, o, u)
           v == WithoutNode(n, u, o, u)
<1>1. p \in [Ids -> SUBSET Edge] /\ v \in [Ids -> SUBSET Edge]
  BY DEF WithoutNode
<1>2. ASSUME NEW m \in Ids, NEW e \in p[m]
      PROVE  e.cons = m /\ m \in N \ {n} /\ e \in v[e.prod]
  <2>1. m # n /\ e \in o[m] /\ e \notin o[n] /\ e \notin u[n]
    BY <1>2 DEF WithoutNode
  <2>2. e \in Edge /\ e.prod \in Ids
    BY <2>1 DEF Edge
  <2>3. e.cons = m /\ m \in N /\ e \in u[e.prod]
    BY <2>1 DEF Mirrored
  <2> QED BY <2>1, <2>2, <2>3 DEF WithoutNode
<1>3. ASSUME NEW m \in Ids, NEW e \in v[m]
      PROVE  e.prod = m /\ m \in N \ {n} /\ e \in p[e.cons]
  <2>1. m # n /\ e \in u[m] /\ e \notin o[n] /\ e \notin u[n]
    BY <1>3 DEF WithoutNode
  <2>2. e \in Edge /\ e.cons \in Ids
    BY <2>1 DEF Edge
  <2>3. e.prod = m /\ m \in N /\ e \in o[e.cons]
    BY <2>1 DEF Mirrored
  <2> QED BY <2>1, <2>2, <2>3 DEF WithoutNode
<1> QED BY <1>1, <1>2, <1>3 DEF Mirrored

(* The ends of an edge of the graph are nodes of the graph.                *)
LEMMA EndsAreNodes ==
  ASSUME EdgesInv
  PROVE  /\ \A n \in Ids : operands[n] \subseteq Between(nodes)
         /\ \A n \in Ids : users[n] \subseteq Between(nodes)
         /\ Edges \subseteq Between(nodes)
<1>1. ASSUME NEW n \in Ids, NEW e \in operands[n] PROVE e \in Between(nodes)
  <2>1. e \in Edge /\ e.prod \in Ids
    BY <1>1 DEF EdgesInv, EdgeTypes, Edge
  <2> QED BY <1>1, <2>1 DEF EdgesInv, EdgesMirrored, Mirrored, Between
<1>2. ASSUME NEW n \in Ids, NEW e \in users[n] PROVE e \in Between(nodes)
  <2>1. e \in Edge /\ e.cons \in Ids
    BY <1>2 DEF EdgesInv, EdgeTypes, Edge
  <2> QED BY <1>2, <2>1 DEF EdgesInv, EdgesMirrored, Mirrored, Between
<1> QED BY <1>1, <1>2 DEF Edges

(* What every operation that adds and removes edges does to the invariant. *)
LEMMA RewireStep ==
  ASSUME EdgesInv, NEW E \in SUBSET Between(nodes), NEW R,
         NEW b \in Nat, PortsBelow(b, E),
         nodes' = nodes, operands' = OperandsWith(E, R), users' = UsersWith(E, R)
  PROVE  EdgesInv'
<1>1. PICK c \in Nat : \A n \in Ids : PortsBelow(c, operands[n])
  BY DEF EdgesInv, PortsBounded
<1>2. ASSUME NEW n \in Ids PROVE PortsBelow(b + c, operands'[n])
  <2>1. ASSUME NEW e \in operands[n] PROVE e.port < b + c
    <3>1. e.port < c /\ e.port \in Nat
      BY <1>1 DEF PortsBelow, EdgesInv, EdgeTypes, Edge
    <3> QED BY <3>1
  <2>2. ASSUME NEW e \in E PROVE e.port < b + c
    <3>1. e.port < b /\ e.port \in Nat
      BY DEF PortsBelow, Between, Edge
    <3> QED BY <3>1
  <2> QED BY <2>1, <2>2 DEF PortsBelow, OperandsWith
<1>3. b + c \in Nat
  OBVIOUS
<1> QED BY <1>2, <1>3, RewireMirrored DEF EdgesInv, EdgeTypes, EdgesMirrored, PortsBounded

(* What remove_node does to it, from edge maps o and u of the same nodes.  *)
LEMMA RemoveStep ==
  ASSUME nodes \subseteq Ids,
         NEW o \in [Ids -> SUBSET Edge], NEW u \in [Ids -> SUBSET Edge],
         Mirrored(nodes, o, u), NEW n \in Ids,
         NEW b \in Nat, \A m \in Ids : PortsBelow(b, o[m]),
         nodes' = nodes \ {n},
         operands' = WithoutNode(n, o, o, u), users' = WithoutNode(n, u, o, u)
  PROVE  EdgesInv'
<1>1. ASSUME NEW m \in Ids PROVE PortsBelow(b, operands'[m])
  BY DEF PortsBelow, WithoutNode
<1> QED BY <1>1, WithoutMirrored DEF EdgesInv, EdgeTypes, EdgesMirrored, PortsBounded

(* add_edge without a port finds one, past all that are in use.            *)
LEMMA NextPortIsPort ==
  ASSUME EdgesInv, NEW n \in Ids
  PROVE  NextPort(n) \in Nat /\ \A e \in operands[n] : e.port < NextPort(n)
<1> DEFINE T == {p \in Nat : PortsBelow(p, operands[n])}
<1>1. T # {}
  BY DEF EdgesInv, PortsBounded
<1>2. PICK p \in T : \A q \in T : p <= q
  <2>1. T \in SUBSET Nat
    OBVIOUS
  <2> HIDE DEF T
  <2> QED BY <1>1, <2>1, Least
<1>3. \A e \in operands[n] : e.port \in Nat /\ e.port < p
  BY DEF PortsBelow, EdgesInv, EdgeTypes, Edge
<1>4. CASE p = 0
  BY <1>3, <1>4 DEF NextPort
<1>5. CASE p # 0
  <2>1. p - 1 \in Nat /\ ~(p <= p - 1)
    BY <1>5
  <2>2. p - 1 \notin T
    <3> HIDE DEF T
    <3> QED BY <1>2, <2>1
  <2>3. PICK e \in operands[n] : ~(e.port < p - 1)
    BY <2>1, <2>2 DEF PortsBelow
  <2>4. p = e.port + 1
    BY <1>3, <2>1, <2>3
  <2>5. \A q \in {0} \cup {f.port + 1 : f \in operands[n]} : q \in Nat
    BY <1>3
  <2> QED BY <1>3, <2>4, <2>5 DEF NextPort
<1> QED BY <1>4, <1>5

-----------------------------------------------------------------------------
(* The edges each rewrite puts in have both ends in the graph.             *)

(* Ports of edges that are in the graph, and port 0, are below some bound. *)
LEMMA KnownPorts ==
  ASSUME EdgesInv
  PROVE  \E b \in Nat : b > 0 /\ \A n \in Ids :
           PortsBelow(b, operands[n]) /\ PortsBelow(b, users[n])
<1>1. PICK c \in Nat : \A n \in Ids : PortsBelow(c, operands[n])
  BY DEF EdgesInv, PortsBounded
<1>2. ASSUME NEW n \in Ids, NEW e \in operands[n] PROVE e.port < c + 1
  <2>1. e.port < c /\ e.port \in Nat
    BY <1>1 DEF PortsBelow, EdgesInv, EdgeTypes, Edge
  <2> QED BY <2>1
<1>3. ASSUME NEW n \in Ids, NEW e \in users[n] PROVE e.port < c + 1
  <2>1. e \in operands[e.cons] /\ e.cons \in Ids
    BY DEF EdgesInv, EdgeTypes, EdgesMirrored, Mirrored, Edge
  <2> QED BY <1>2, <2>1
<1>4. c + 1 \in Nat /\ c + 1 > 0
  OBVIOUS
<1> QED BY <1>2, <1>3, <1>4 DEF PortsBelow

(* The edges insert_node_on_edge adds.                                     *)
InsertedEdges(e, n) == {Upper(e, n), Lower(e, n)} \cup InheritedControl(e, n)

(* They join nodes of the graph, at known ports.                           *)
LEMMA InsertedBetween ==
  ASSUME EdgesInv, NEW e \in Data(Edges), NEW n \in nodes
  PROVE  /\ InsertedEdges(e, n) \subseteq Between(nodes)
         /\ \E b \in Nat : PortsBelow(b, InsertedEdges(e, n))
<1>1. e \in Between(nodes) /\ n \in Ids
  BY EndsAreNodes DEF Data, EdgesInv
<1>2. PICK b \in Nat : b > 0 /\ \A m \in Ids : PortsBelow(b, operands[m])
  BY KnownPorts
<1>3. e.port < b
  BY <1>2 DEF Data, Edges, PortsBelow
<1>4. /\ Upper(e, n) \in Between(nodes) /\ Upper(e, n).port < b
      /\ Lower(e, n) \in Between(nodes) /\ Lower(e, n).port < b
  BY <1>1, <1>2, <1>3 DEF Upper, Lower, Between, Edge
<1>5. ASSUME NEW o \in Control(operands[e.cons])
      PROVE  Upper(o, n) \in Between(nodes) /\ Upper(o, n).port < b
  <2>1. o \in Between(nodes)
    BY <1>1, EndsAreNodes DEF Control, Between, Edge
  <2> QED BY <1>1, <1>2, <2>1 DEF Upper, Between, Edge
<1> QED BY <1>4, <1>5 DEF InsertedEdges, InheritedControl, PortsBelow

(* The edges bypass_node adds.                                             *)
BypassEdges(src, n) == {Bypassed(src, u) : u \in Data(users[n])} \cup HandedDown(n)

(* They join nodes of the graph, at known ports.                           *)
LEMMA BypassBetween ==
  ASSUME EdgesInv, NEW n \in nodes, NEW src \in Data(operands[n])
  PROVE  /\ BypassEdges(src, n) \subseteq Between(nodes)
         /\ \E b \in Nat : PortsBelow(b, BypassEdges(src, n))
<1>1. src \in Between(nodes) /\ n \in Ids
  BY EndsAreNodes DEF Data, EdgesInv
<1>2. PICK b \in Nat : b > 0 /\ \A m \in Ids : PortsBelow(b, users[m])
  BY KnownPorts
<1>3. ASSUME NEW u \in Data(users[n])
      PROVE  u \in Between(nodes) /\ u.port < b
  BY <1>1, <1>2, EndsAreNodes DEF Data, PortsBelow
<1>4. ASSUME NEW u \in Data(users[n])
      PROVE  Bypassed(src, u) \in Between(nodes) /\ Bypassed(src, u).port < b
  BY <1>1, <1>3 DEF Bypassed, Between, Edge
<1>5. ASSUME NEW o \in Control(operands[n]), NEW u \in Data(users[n])
      PROVE  LET h == [o EXCEPT !.cons = u.cons, !.port = u.port]
             IN  h \in Between(nodes) /\ h.port < b
  <2>1. o \in Between(nodes)
    BY <1>1, EndsAreNodes DEF Control
  <2> QED BY <1>3, <2>1 DEF Between, Edge
<1>6. ASSUME NEW h \in HandedDown(n) PROVE h \in Between(nodes) /\ h.port < b
  <2>1. PICK o \in Control(operands[n]), u \in Data(users[n]) :
          h = [o EXCEPT !.cons = u.cons, !.port = u.port]
    BY DEF HandedDown
  <2> QED BY <1>5, <2>1
<1> QED BY <1>4, <1>6 DEF BypassEdges, PortsBelow

(* The edges swap adds.                                                    *)
SwapEdges(e, src) == {SwapTarget(e, src)[x] : x \in DOMAIN SwapTarget(e, src)}

(* They join nodes of the graph, at known ports.                           *)
LEMMA SwapBetween ==
  ASSUME EdgesInv, NEW e \in Data(Edges), NEW src \in Data(operands[e.prod])
  PROVE  /\ SwapEdges(e, src) \subseteq Between(nodes)
         /\ \E b \in Nat : PortsBelow(b, SwapEdges(e, src))
<1>1. e \in Between(nodes) /\ e.prod \in Ids /\ e.cons \in Ids
  BY EndsAreNodes DEF Data, Between, Edge
<1>2. src \in Between(nodes)
  BY <1>1, EndsAreNodes DEF Data
<1>3. PICK b \in Nat : b > 0 /\ \A m \in Ids :
        PortsBelow(b, operands[m]) /\ PortsBelow(b, users[m])
  BY KnownPorts
<1>4. e.port < b
  BY <1>3 DEF Data, Edges, PortsBelow
<1>5. /\ Turned(e) \in Between(nodes) /\ Turned(e).port < b
      /\ [src EXCEPT !.cons = e.cons, !.port = e.port] \in Between(nodes)
      /\ [src EXCEPT !.cons = e.cons, !.port = e.port].port < b
  BY <1>1, <1>2, <1>3, <1>4 DEF Turned, Between, Edge
<1>6. ASSUME NEW x \in Data(users[e.cons])
      PROVE  [x EXCEPT !.prod = e.prod] \in Between(nodes) /\ [x EXCEPT !.prod = e.prod].port < b
  <2>1. x \in Between(nodes) /\ x.port < b
    BY <1>1, <1>3, EndsAreNodes DEF Data, PortsBelow
  <2> QED BY <1>1, <2>1 DEF Between, Edge
<1>7. ASSUME NEW x \in {e, src} \cup Data(users[e.cons])
      PROVE  SwapTarget(e, src)[x] \in Between(nodes) /\ SwapTarget(e, src)[x].port < b
  <2>1. CASE x = e
    BY <1>5, <2>1 DEF SwapTarget
  <2>2. CASE x # e /\ x = src
    BY <1>5, <2>2 DEF SwapTarget
  <2>3. CASE x # e /\ x # src
    BY <1>6, <2>3 DEF SwapTarget
  <2> QED BY <2>1, <2>2, <2>3
<1>8. DOMAIN SwapTarget(e, src) = {e, src} \cup Data(users[e.cons])
  BY DEF SwapTarget
<1> QED BY <1>7, <1>8 DEF SwapEdges, PortsBelow

-----------------------------------------------------------------------------
(* The edge invariant holds in every state.                                *)

(* The initial graph satisfies the edge invariant.                         *)
LEMMA EdgesInit == Init => EdgesInv
<1> SUFFICES ASSUME Init PROVE EdgesInv
  OBVIOUS
<1>1. Len(InitKind) \in Nat /\ Len(InitKind) <= MaxId /\ MaxId \in Nat
  BY GraphAssumption
<1>2. nodes \subseteq Ids
  BY <1>1 DEF Init, Ids
<1>3. InitEdges \subseteq Between(nodes)
  <2>1. ASSUME NEW e \in InitEdges PROVE e.prod \in nodes /\ e.cons \in nodes /\ e \in Edge
    <3>1. e \in Edge /\ e.prod <= Len(InitKind) /\ e.cons <= Len(InitKind)
      BY GraphAssumption
    <3>2. e.prod \in Ids /\ e.cons \in Ids
      BY <3>1 DEF Edge
    <3> QED BY <1>1, <3>1, <3>2 DEF Init, Ids
  <2> QED BY <2>1 DEF Between
<1>4. EdgeTypes
  BY <1>3 DEF Init, EdgeTypes, Between
<1>5. EdgesMirrored
  BY <1>3 DEF Init, EdgesMirrored, Mirrored, Between, Edge
<1>6. PortsBounded
  <2> DEFINE f == [e \in InitEdges |-> e.port]
  <2>1. f \in [InitEdges -> Nat]
    BY <1>3 DEF Between, Edge
  <2>2. PICK b \in Nat : \A e \in InitEdges : f[e] < b
    <3> HIDE DEF f
    <3> QED BY <2>1, GraphAssumption, FiniteBounded
  <2>3. \A e \in InitEdges : e.port < b
    BY <2>2
  <2> QED BY <2>3 DEF Init, PortsBounded, PortsBelow
<1> QED BY <1>2, <1>4, <1>5, <1>6 DEF EdgesInv

(* Every operation keeps it.                                               *)
LEMMA EdgesStep ==
  ASSUME EdgesInv, lastId \in 0..MaxId, [Next]_vars
  PROVE  EdgesInv'
<1>1. ASSUME NEW s, NEW k \in Kinds, AddNode(s, k) PROVE EdgesInv'
  <2>1. nodes' \subseteq Ids /\ nodes \subseteq nodes'
    BY <1>1, GraphAssumption DEF AddNode, EdgesInv, Ids
  <2>2. operands' = operands /\ users' = users
    BY <1>1 DEF AddNode, maps
  <2> QED BY <2>1, <2>2 DEF EdgesInv, EdgeTypes, EdgesMirrored, Mirrored, PortsBounded
<1>2. ASSUME NEW p \in nodes, NEW c \in nodes, NEW t \in {"data", "control"}, AddEdge(p, c, t)
      PROVE  EdgesInv'
  <2> DEFINE e == [prod |-> p, cons |-> c, port |-> NextPort(c), type |-> t]
  <2>1. p \in Ids /\ c \in Ids /\ NextPort(c) \in Nat
    BY NextPortIsPort DEF EdgesInv
  <2>2. {e} \in SUBSET Between(nodes)
    BY <2>1 DEF Between, Edge
  <2>3. NextPort(c) + 1 \in Nat /\ PortsBelow(NextPort(c) + 1, {e})
    BY <2>1 DEF PortsBelow
  <2>4. nodes' = nodes /\ operands' = OperandsWith({e}, {}) /\ users' = UsersWith({e}, {})
    BY <1>2 DEF AddEdge
  <2> HIDE DEF e
  <2> QED BY <2>2, <2>3, <2>4, RewireStep
<1>3. ASSUME NEW e \in Edges, RemoveEdge(e) PROVE EdgesInv'
  <2>1. {} \in SUBSET Between(nodes) /\ PortsBelow(0, {})
    BY DEF PortsBelow
  <2>2. nodes' = nodes /\ operands' = OperandsWith({}, {e}) /\ users' = UsersWith({}, {e})
    BY <1>3 DEF RemoveEdge
  <2> QED BY <2>1, <2>2, RewireStep
<1>4. ASSUME NEW n \in nodes, RemoveNode(n) PROVE EdgesInv'
  <2>1. PICK b \in Nat : \A m \in Ids : PortsBelow(b, operands[m])
    BY DEF EdgesInv, PortsBounded
  <2>2. /\ nodes' = nodes \ {n} /\ n \in Ids
        /\ operands' = WithoutNode(n, operands, operands, users)
        /\ users' = WithoutNode(n, users, operands, users)
    BY <1>4 DEF RemoveNode, EdgesInv
  <2> QED BY <2>1, <2>2, RemoveStep DEF EdgesInv, EdgeTypes, EdgesMirrored
<1>5. ASSUME UNCHANGED <<nodes, operands, users>> PROVE EdgesInv'
  BY <1>5 DEF EdgesInv, EdgeTypes, EdgesMirrored, Mirrored, PortsBounded
<1>6. ASSUME NEW n \in nodes, NEW s, UpdateNodeName(n, s) PROVE EdgesInv'
  BY <1>5, <1>6 DEF UpdateNodeName
<1>7. ASSUME NEW e \in Edges, NEW t \in TMs, AppendTm(e, t) PROVE EdgesInv'
  BY <1>5, <1>7 DEF AppendTm
<1>8. ASSUME NEW e \in Data(Edges), NEW n \in nodes, NEW o \in BOOLEAN,
             InsertNodeOnEdge(e, n, o)
      PROVE  EdgesInv'
  <2>1. PICK b \in Nat : PortsBelow(b, InsertedEdges(e, n))
    BY InsertedBetween
  <2>2. /\ nodes' = nodes
        /\ operands' = OperandsWith(InsertedEdges(e, n), {e})
        /\ users' = UsersWith(InsertedEdges(e, n), {e})
    BY <1>8 DEF InsertNodeOnEdge, InsertedEdges
  <2>3. InsertedEdges(e, n) \in SUBSET Between(nodes)
    BY InsertedBetween
  <2> QED BY <2>1, <2>2, <2>3, RewireStep
<1>9. ASSUME NEW n \in nodes, BypassNode(n) PROVE EdgesInv'
  <2> DEFINE src == CHOOSE e \in Data(operands[n]) : TRUE
             E == BypassEdges(src, n)
             o == OperandsWith(E, {})
             u == UsersWith(E, {})
  <2>1. CASE Cardinality(Data(operands[n])) # 1
    BY <1>5, <1>9, <2>1 DEF BypassNode, maps
  <2>2. CASE Cardinality(Data(operands[n])) = 1
    <3>1. src \in Data(operands[n])
      BY <2>2, FS_EmptySet
    <3>2. PICK b \in Nat : PortsBelow(b, E)
      BY <3>1, BypassBetween
    <3>3. E \in SUBSET Between(nodes)
      BY <3>1, BypassBetween
    <3> HIDE DEF src
    <3>4. \/ nodes' = nodes /\ operands' = o /\ users' = u
          \/ /\ nodes' = nodes \ {n}
             /\ operands' = WithoutNode(n, o, o, u) /\ users' = WithoutNode(n, u, o, u)
      BY <1>9, <2>2 DEF BypassNode, BypassEdges, src
    <3>5. /\ o \in [Ids -> SUBSET Edge] /\ u \in [Ids -> SUBSET Edge]
          /\ Mirrored(nodes, o, u)
      <4> HIDE DEF E
      <4> QED BY <3>3, RewireMirrored
    <3>6. \E c \in Nat : \A m \in Ids : PortsBelow(c, o[m])
      <4>1. PICK c \in Nat : \A m \in Ids : PortsBelow(c, operands[m])
        BY DEF EdgesInv, PortsBounded
      <4>2. ASSUME NEW m \in Ids, NEW e \in o[m] PROVE e.port < b + c
        <5>1. e.port \in Nat
          BY <3>5 DEF Edge
        <5>2. e.port < b \/ e.port < c
          BY <3>2, <4>1 DEF PortsBelow, OperandsWith
        <5> QED BY <5>1, <5>2
      <4>3. b + c \in Nat
        OBVIOUS
      <4> QED BY <4>2, <4>3 DEF PortsBelow
    <3>7. n \in Ids /\ nodes \subseteq Ids
      BY DEF EdgesInv
    <3> HIDE DEF E
    <3>8. CASE nodes' = nodes /\ operands' = o /\ users' = u
      BY <3>2, <3>3, <3>8, RewireStep
    <3>9. CASE /\ nodes' = nodes \ {n}
               /\ operands' = WithoutNode(n, o, o, u) /\ users' = WithoutNode(n, u, o, u)
      <4> HIDE DEF o, u
      <4> QED BY <3>5, <3>6, <3>7, <3>9, RemoveStep
    <3> QED BY <3>4, <3>8, <3>9
  <2> QED BY <2>1, <2>2
<1>10. ASSUME NEW e \in Data(Edges), Swap(e) PROVE EdgesInv'
  <2> DEFINE src == CHOOSE o \in Data(operands[e.prod]) : TRUE
             E == SwapEdges(e, src)
             R == DOMAIN SwapTarget(e, src)
  <2>1. src \in Data(operands[e.prod])
    <3>1. Cardinality(Data(operands[e.prod])) = 1
      BY <1>10 DEF Swap
    <3> QED BY <3>1, FS_EmptySet
  <2>2. PICK b \in Nat : PortsBelow(b, E)
    BY <2>1, SwapBetween
  <2>3. E \in SUBSET Between(nodes)
    BY <2>1, SwapBetween
  <2>4. nodes' = nodes /\ operands' = OperandsWith(E, R) /\ users' = UsersWith(E, R)
    BY <1>10 DEF Swap, SwapEdges
  <2> HIDE DEF E, R
  <2> QED BY <2>2, <2>3, <2>4, RewireStep
<1>11. CASE UNCHANGED vars
  BY <1>5, <1>11 DEF vars
<1> QED BY <1>1, <1>2, <1>3, <1>4, <1>6, <1>7, <1>8, <1>9, <1>10, <1>11 DEF Next

-----------------------------------------------------------------------------
(* Edge attributes.  Entries are never erased, so it is enough that every  *)
(* entry, of a live edge or not, names an attribute object.                *)

AttrsInv ==
  /\ DOMAIN attrs \subseteq Edge
  /\ DOMAIN tms \subseteq Edge
  /\ \A e \in DOMAIN attrs : attrs[e] \in DOMAIN tms
  /\ \A n \in Ids : operands[n] \subseteq DOMAIN attrs

(* What every operation that enters the edges E with the attributes made   *)
(* does to the invariant.                                                  *)
LEMMA AttrsRewire ==
  ASSUME AttrsInv, NEW E \in SUBSET Edge, NEW made, DOMAIN made = E,
         attrs' = AttrsWith(made),
         DOMAIN tms \subseteq DOMAIN tms', DOMAIN tms' \subseteq Edge,
         \A e \in E \ DOMAIN attrs : made[e] \in DOMAIN tms',
         \A n \in Ids : operands'[n] \subseteq operands[n] \cup E
  PROVE  AttrsInv'
<1>1. DOMAIN attrs' = DOMAIN attrs \cup E
  BY DEF AttrsWith
<1>2. \A e \in DOMAIN attrs' : attrs'[e] = IF e \in DOMAIN attrs THEN attrs[e] ELSE made[e]
  BY DEF AttrsWith
<1>3. ASSUME NEW e \in DOMAIN attrs' PROVE attrs'[e] \in DOMAIN tms'
  BY <1>1, <1>2 DEF AttrsInv
<1>4. ASSUME NEW n \in Ids PROVE operands'[n] \subseteq DOMAIN attrs'
  BY <1>1 DEF AttrsInv
<1> QED BY <1>1, <1>3, <1>4 DEF AttrsInv

(* Attributes add_edge has made for an edge or found for it.               *)
LEMMA FoundAttrs ==
  ASSUME AttrsInv, NEW E \in SUBSET Edge, attrs' = AttrsWith(DefaultAttrs(E)), NEW e \in E
  PROVE  attrs'[e] \in Edge /\ (e \notin DOMAIN attrs => attrs'[e] = e)
BY DEF AttrsInv, AttrsWith, DefaultAttrs

(* Every edge of the initial graph has attributes of its own.              *)
LEMMA AttrsInit == Init => AttrsInv
<1> SUFFICES ASSUME Init PROVE AttrsInv
  OBVIOUS
<1>1. DOMAIN attrs = InitEdges /\ DOMAIN tms = InitEdges /\ InitEdges \subseteq Edge
  BY GraphAssumption DEF Init
<1>2. \A e \in InitEdges : attrs[e] = e
  BY DEF Init
<1>3. \A n \in Ids : operands[n] \subseteq InitEdges
  BY DEF Init
<1> QED BY <1>1, <1>2, <1>3 DEF AttrsInv

(* Every operation keeps every edge's attributes within reach.             *)
LEMMA AttrsStep ==
  ASSUME EdgesInv, AttrsInv, [Next]_vars
  PROVE  AttrsInv'
<1>1. ASSUME UNCHANGED <<operands, attrs, tms>> PROVE AttrsInv'
  BY <1>1 DEF AttrsInv
<1>2. ASSUME NEW s, NEW k \in Kinds, AddNode(s, k) PROVE AttrsInv'
  BY <1>1, <1>2 DEF AddNode, maps
<1>3. ASSUME NEW p \in nodes, NEW c \in nodes, NEW t \in {"data", "control"}, AddEdge(p, c, t)
      PROVE  AttrsInv'
  <2> DEFINE e == [prod |-> p, cons |-> c, port |-> NextPort(c), type |-> t]
  <2>1. {e} \in SUBSET Edge
    BY NextPortIsPort DEF EdgesInv, Edge
  <2>2. /\ operands' = OperandsWith({e}, {})
        /\ attrs' = AttrsWith(DefaultAttrs({e}))
        /\ tms' = TmsWith({e} \ DOMAIN attrs)
    BY <1>3 DEF AddEdge
  <2> HIDE DEF e
  <2>3. DOMAIN DefaultAttrs({e}) = {e} /\ DefaultAttrs({e})[e] = e
    BY DEF DefaultAttrs
  <2>4. DOMAIN tms' = DOMAIN tms \cup ({e} \ DOMAIN attrs)
    BY <2>2 DEF TmsWith
  <2>5. \A n \in Ids : operands'[n] \subseteq operands[n] \cup {e}
    BY <2>2 DEF OperandsWith
  <2>6. DOMAIN tms' \subseteq Edge
    BY <2>1, <2>4 DEF AttrsInv
  <2>7. \A x \in {e} \ DOMAIN attrs : DefaultAttrs({e})[x] \in DOMAIN tms'
    BY <2>3, <2>4
  <2> QED BY <2>1, <2>2, <2>3, <2>4, <2>5, <2>6, <2>7, AttrsRewire
<1>4. ASSUME NEW e \in Edges, RemoveEdge(e) PROVE AttrsInv'
  <2>1. \A n \in Ids : operands'[n] \subseteq operands[n]
    BY <1>4 DEF RemoveEdge, OperandsWith
  <2>2. attrs' = attrs /\ tms' = tms
    BY <1>4 DEF RemoveEdge
  <2> QED BY <2>1, <2>2 DEF AttrsInv
<1>5. ASSUME NEW n \in nodes, RemoveNode(n) PROVE AttrsInv'
  <2>1. \A m \in Ids : operands'[m] \subseteq operands[m]
    BY <1>5 DEF RemoveNode, WithoutNode
  <2>2. attrs' = attrs /\ tms' = tms
    BY <1>5 DEF RemoveNode
  <2> QED BY <2>1, <2>2 DEF AttrsInv
<1>6. ASSUME NEW n \in nodes, NEW s, UpdateNodeName(n, s) PROVE AttrsInv'
  BY <1>1, <1>6 DEF UpdateNodeName
<1>7. ASSUME NEW e \in Edges, NEW t \in TMs, AppendTm(e, t) PROVE AttrsInv'
  <2>1. operands' = operands /\ attrs' = attrs /\ DOMAIN tms' = DOMAIN tms
    BY <1>7 DEF AppendTm
  <2> QED BY <2>1 DEF AttrsInv
<1>8. ASSUME NEW e \in Data(Edges), NEW n \in nodes, NEW o \in BOOLEAN,
             InsertNodeOnEdge(e, n, o)
      PROVE  AttrsInv'
  <2> DEFINE E == InsertedEdges(e, n)
             X == {attrs'[Upper(e, n)], attrs'[Lower(e, n)]} \cup InheritedControl(e, n)
  <2>1. E \in SUBSET Edge
    BY InsertedBetween DEF Between
  <2>2. /\ operands' = OperandsWith(E, {e})
        /\ attrs' = AttrsWith(DefaultAttrs(E))
        /\ tms' = TmsInserted(e, n, o, attrs')
    BY <1>8 DEF InsertNodeOnEdge, InsertedEdges
  <2>3. DOMAIN tms' = DOMAIN tms \cup X
    BY <2>2 DEF TmsInserted, TmsWith
  <2>4. /\ Upper(e, n) \in E /\ Lower(e, n) \in E /\ InheritedControl(e, n) \subseteq E
        /\ E = {Upper(e, n), Lower(e, n)} \cup InheritedControl(e, n)
    BY DEF InsertedEdges
  <2> HIDE DEF E
  <2>5. X \subseteq Edge
    BY <2>1, <2>2, <2>4, FoundAttrs
  <2>6. \A x \in E \ DOMAIN attrs : DefaultAttrs(E)[x] \in DOMAIN tms'
    <3>1. \A x \in E \ DOMAIN attrs : DefaultAttrs(E)[x] = x /\ attrs'[x] = x
      BY <2>1, <2>2, FoundAttrs DEF DefaultAttrs
    <3> QED BY <2>3, <2>4, <3>1
  <2>7. DOMAIN DefaultAttrs(E) = E
    BY DEF DefaultAttrs
  <2>8. \A m \in Ids : operands'[m] \subseteq operands[m] \cup E
    BY <2>2 DEF OperandsWith
  <2> HIDE DEF X
  <2>9. DOMAIN tms' \subseteq Edge
    BY <2>3, <2>5 DEF AttrsInv
  <2> QED BY <2>1, <2>2, <2>3, <2>6, <2>7, <2>8, <2>9, AttrsRewire
<1>9. ASSUME NEW n \in nodes, BypassNode(n) PROVE AttrsInv'
  <2> DEFINE src == CHOOSE e \in Data(operands[n]) : TRUE
             E == BypassEdges(src, n)
             X == {attrs'[e] : e \in E}
  <2>1. CASE Cardinality(Data(operands[n])) # 1
    BY <1>1, <1>9, <2>1 DEF BypassNode, maps
  <2>2. CASE Cardinality(Data(operands[n])) = 1
    <3>1. src \in Data(operands[n])
      BY <2>2, FS_EmptySet
    <3>2. E \in SUBSET Edge
      BY <3>1, BypassBetween DEF Between
    <3> HIDE DEF src
    <3>3. /\ attrs' = AttrsWith(DefaultAttrs(E))
          /\ tms' = TmsBypassed(n, src, E, attrs')
      BY <1>9, <2>2 DEF BypassNode, BypassEdges, src
    <3>4. \/ operands' = OperandsWith(E, {})
          \/ operands' = WithoutNode(n, OperandsWith(E, {}), OperandsWith(E, {}), UsersWith(E, {}))
      BY <1>9, <2>2 DEF BypassNode, BypassEdges, src
    <3> HIDE DEF E
    <3>5. DOMAIN tms' = DOMAIN tms \cup X
      BY <3>3 DEF TmsBypassed, TmsWith
    <3>6. X \subseteq Edge
      BY <3>2, <3>3, FoundAttrs
    <3>7. \A x \in E \ DOMAIN attrs : DefaultAttrs(E)[x] \in DOMAIN tms'
      <4>1. \A x \in E \ DOMAIN attrs : DefaultAttrs(E)[x] = x /\ attrs'[x] = x
        BY <3>2, <3>3, FoundAttrs DEF DefaultAttrs
      <4> QED BY <3>5, <4>1
    <3>8. DOMAIN DefaultAttrs(E) = E
      BY DEF DefaultAttrs
    <3>9. \A m \in Ids : operands'[m] \subseteq operands[m] \cup E
      BY <3>4 DEF OperandsWith, WithoutNode
    <3> HIDE DEF X
    <3>10. DOMAIN tms' \subseteq Edge
      BY <3>5, <3>6 DEF AttrsInv
    <3> QED BY <3>2, <3>3, <3>5, <3>7, <3>8, <3>9, <3>10, AttrsRewire
  <2> QED BY <2>1, <2>2
<1>10. ASSUME NEW e \in Data(Edges), Swap(e) PROVE AttrsInv'
  <2> DEFINE src == CHOOSE o \in Data(operands[e.prod]) : TRUE
             new == SwapTarget(e, src)
             old == DOMAIN new
             E == SwapEdges(e, src)
             handed == [y \in E |-> attrs[CHOOSE x \in old : new[x] = y]]
  <2>1. src \in Data(operands[e.prod])
    <3>1. Cardinality(Data(operands[e.prod])) = 1
      BY <1>10 DEF Swap
    <3> QED BY <3>1, FS_EmptySet
  <2>2. E \in SUBSET Edge
    BY <2>1, SwapBetween DEF Between
  <2>3. operands' = OperandsWith(E, old) /\ attrs' = AttrsWith(handed) /\ tms' = tms
    BY <1>10 DEF Swap, SwapEdges
  <2>4. old \subseteq DOMAIN attrs
    <3>1. e.prod \in Ids /\ e.cons \in Ids /\ e \in Edges
      BY EndsAreNodes DEF Data, Between, Edge
    <3>2. old = {e, src} \cup Data(users[e.cons])
      BY DEF SwapTarget
    <3>3. \A x \in users[e.cons] : x.cons \in Ids /\ x \in operands[x.cons]
      BY <3>1 DEF EdgesInv, EdgeTypes, EdgesMirrored, Mirrored, Edge
    <3>4. Data(users[e.cons]) \subseteq DOMAIN attrs
      BY <3>3 DEF Data, AttrsInv
    <3>5. e \in DOMAIN attrs /\ src \in DOMAIN attrs
      BY <2>1, <3>1 DEF Data, Edges, AttrsInv
    <3> QED BY <3>2, <3>4, <3>5
  <2>5. ASSUME NEW y \in E PROVE handed[y] \in DOMAIN tms
    <3>1. \E x \in old : new[x] = y
      BY DEF SwapEdges
    <3> HIDE DEF old, new
    <3>2. (CHOOSE x \in old : new[x] = y) \in DOMAIN attrs
      BY <2>4, <3>1
    <3>3. handed[y] = attrs[CHOOSE x \in old : new[x] = y]
      OBVIOUS
    <3> HIDE DEF handed
    <3> QED BY <3>2, <3>3 DEF AttrsInv
  <2>6. DOMAIN handed = E
    OBVIOUS
  <2>7. \A m \in Ids : operands'[m] \subseteq operands[m] \cup E
    BY <2>3 DEF OperandsWith
  <2>8. DOMAIN tms' \subseteq Edge /\ DOMAIN tms \subseteq DOMAIN tms'
    BY <2>3 DEF AttrsInv
  <2>9. attrs' = AttrsWith(handed)
    BY <2>3
  <2>10. \A y \in E \ DOMAIN attrs : handed[y] \in DOMAIN tms'
    BY <2>3, <2>5
  <2> HIDE DEF handed, E
  <2> QED BY <2>2, <2>6, <2>7, <2>8, <2>9, <2>10, AttrsRewire
<1>11. CASE UNCHANGED vars
  BY <1>1, <1>11 DEF vars
<1> QED BY <1>2, <1>3, <1>4, <1>5, <1>6, <1>7, <1>8, <1>9, <1>10, <1>11 DEF Next

-----------------------------------------------------------------------------
(* The rest of the type invariant.                                         *)

NodeTypes ==
  /\ kind \in [Ids -> Kinds]
  /\ name \in [Ids -> Name]
  /\ DOMAIN byName \subseteq Name
  /\ lastId \in 0..MaxId
  /\ status \in {"ok", "aborted"}
  /\ ops \in 0..MaxOps

(* A base name is a name.                                                  *)
LEMMA BaseNameIsName == \A b \in Nat : BaseName(b) \in Name
BY DEF BaseName, Name

(* The initial graph has the types of a graph.                             *)
LEMMA TypesInit == Init => NodeTypes
<1> SUFFICES ASSUME Init PROVE NodeTypes
  OBVIOUS
<1>1. Len(InitKind) \in 0..MaxId /\ MaxOps \in Nat
  BY GraphAssumption
<1>2. kind \in [Ids -> Kinds]
  <2>1. \A n \in 1..Len(InitKind) : InitKind[n] \in Kinds
    BY GraphAssumption
  <2> QED BY <2>1 DEF Init, Kinds
<1>3. name \in [Ids -> Name]
  BY BaseNameIsName DEF Init, Ids
<1>4. DOMAIN byName \subseteq Name
  BY BaseNameIsName DEF Init
<1> QED BY <1>1, <1>2, <1>3, <1>4 DEF Init, NodeTypes

(* Every operation keeps the types of names, kinds and counters.           *)
LEMMA TypesStep ==
  ASSUME NodeTypes, nodes \subseteq Ids, [Next]_vars
  PROVE  NodeTypes'
<1>1. CASE UNCHANGED vars
  BY <1>1 DEF NodeTypes, vars
<1>2. ASSUME Begin PROVE ops' \in 0..MaxOps
  BY <1>2, GraphAssumption DEF Begin, NodeTypes
<1>3. \A b \in Bases : BaseName(b) \in Name
  BY BaseNameIsName, GraphAssumption
<1>4. \A s : DOMAIN Forget(s) \subseteq DOMAIN byName
  BY DEF Forget
<1>5. ASSUME NEW b \in Bases, NEW k \in Kinds, AddNode(BaseName(b), k) PROVE NodeTypes'
  <2> DEFINE s == BaseName(b)
  <2>1. s \in Name /\ lastId + 1 \in 0..MaxId
    BY <1>3, <1>5, GraphAssumption DEF AddNode, NodeTypes
  <2> HIDE DEF s
  <2>2. /\ lastId' = lastId + 1 /\ status' \in {"ok", "aborted"}
        /\ name' = [name EXCEPT ![lastId + 1] = s] /\ kind' = [kind EXCEPT ![lastId + 1] = k]
        /\ DOMAIN byName' \subseteq DOMAIN byName \cup {s}
    BY <1>5 DEF AddNode, s
  <2>3. ops' \in 0..MaxOps
    BY <1>2, <1>5 DEF AddNode
  <2> QED BY <2>1, <2>2, <2>3 DEF NodeTypes
<1>6. ASSUME NEW n \in nodes, NEW b \in Bases, UpdateNodeName(n, BaseName(b)) PROVE NodeTypes'
  <2> DEFINE s == BaseName(b)
  <2>1. s \in Name
    BY <1>3
  <2> HIDE DEF s
  <2>2. /\ UNCHANGED <<kind, lastId>> /\ status' = "ok"
        /\ name' = [name EXCEPT ![n] = s]
        /\ DOMAIN byName' \subseteq DOMAIN byName \cup {s}
    BY <1>4, <1>6 DEF UpdateNodeName, s
  <2>3. ops' \in 0..MaxOps
    BY <1>2, <1>6 DEF UpdateNodeName
  <2> QED BY <2>1, <2>2, <2>3 DEF NodeTypes
<1>7. ASSUME /\ UNCHANGED <<kind, name, lastId>> /\ status' \in {"ok", "aborted"}
             /\ DOMAIN byName' \subseteq DOMAIN byName /\ ops' \in 0..MaxOps
      PROVE  NodeTypes'
  BY <1>7 DEF NodeTypes
<1>8. ASSUME NEW p \in nodes, NEW c \in nodes, NEW t, AddEdge(p, c, t) PROVE NodeTypes'
  BY <1>2, <1>7, <1>8 DEF AddEdge
<1>9. ASSUME NEW e \in Edges, RemoveEdge(e) PROVE NodeTypes'
  BY <1>2, <1>7, <1>9 DEF RemoveEdge
<1>10. ASSUME NEW n \in nodes, RemoveNode(n) PROVE NodeTypes'
  BY <1>2, <1>4, <1>7, <1>10 DEF RemoveNode
<1>11. ASSUME NEW e \in Edges, NEW t \in TMs, AppendTm(e, t) PROVE NodeTypes'
  BY <1>2, <1>7, <1>11 DEF AppendTm
<1>12. ASSUME NEW e \in Data(Edges), NEW n \in nodes, NEW o \in BOOLEAN,
              InsertNodeOnEdge(e, n, o)
       PROVE  NodeTypes'
  BY <1>2, <1>7, <1>12 DEF InsertNodeOnEdge
<1>13. ASSUME NEW n \in nodes, BypassNode(n) PROVE NodeTypes'
  <2>1. Begin /\ UNCHANGED <<kind, name, lastId>> /\ status' \in {"ok", "aborted"}
    BY <1>13 DEF BypassNode
  <2>2. byName' = byName \/ byName' = Forget(name[n])
    BY <1>13 DEF BypassNode
  <2> QED BY <1>2, <1>4, <1>7, <2>1, <2>2
<1>14. ASSUME NEW e \in Data(Edges), Swap(e) PROVE NodeTypes'
  BY <1>2, <1>7, <1>14 DEF Swap
<1> QED BY <1>1, <1>5, <1>6, <1>8, <1>9, <1>10, <1>11, <1>12, <1>13, <1>14 DEF Next

-----------------------------------------------------------------------------
(* Names.                                                                  *)

(* Ids are handed out in order, so a new node never takes the id of an     *)
(* old one.                                                                *)
NamesInv == NamesResolve /\ nodes \subseteq 1..lastId

(* The initial graph finds its nodes by name.                              *)
LEMMA NamesInit == Init => NamesInv
<1> SUFFICES ASSUME Init PROVE NamesInv
  OBVIOUS
<1>1. Len(InitKind) \in Nat /\ Len(InitKind) <= MaxId /\ MaxId \in Nat
  BY GraphAssumption
<1>2. nodes \subseteq Ids /\ nodes = 1..lastId
  BY <1>1 DEF Init, Ids
<1>3. \A n \in nodes : name[n] = BaseName(n)
  BY <1>2 DEF Init
<1>4. DOMAIN byName = {BaseName(n) : n \in nodes}
  BY DEF Init
<1>5. \A n \in nodes : BaseName(n) \in DOMAIN byName /\ byName[BaseName(n)] = n
  BY <1>4 DEF Init, BaseName
<1>6. ASSUME NEW s \in DOMAIN byName PROVE byName[s] \in nodes /\ name[byName[s]] = s
  <2>1. PICK n \in nodes : s = BaseName(n)
    BY <1>4
  <2> QED BY <1>3, <1>5, <2>1
<1>7. \A n \in nodes : name[n] \in DOMAIN byName /\ byName[name[n]] = n
  BY <1>3, <1>5
<1>8. nodes \subseteq 1..lastId
  BY <1>2
<1> QED BY <1>6, <1>7, <1>8 DEF NamesInv, NamesResolve

(* Every operation keeps names and ids in step, as long as no node is      *)
(* renamed to a name in use.                                               *)
LEMMA NamesStep ==
  ASSUME RenameTaken = FALSE, NamesInv, NodeTypes, nodes \subseteq Ids, [Next]_vars
  PROVE  NamesInv'
<1>1. ASSUME UNCHANGED <<nodes, name, byName, lastId>> PROVE NamesInv'
  BY <1>1 DEF NamesInv, NamesResolve
<1>2. ASSUME NEW n \in nodes, nodes' = nodes \ {n}, byName' = Forget(name[n]),
             UNCHANGED <<name, lastId>>
      PROVE  NamesInv'
  <2>1. DOMAIN byName' = DOMAIN byName \ {name[n]}
    BY <1>2 DEF Forget
  <2>2. \A s \in DOMAIN byName' : byName'[s] = byName[s]
    BY <1>2 DEF Forget
  <2>3. ASSUME NEW m \in nodes'
        PROVE  name'[m] \in DOMAIN byName' /\ byName'[name'[m]] = m
    <3>1. m \in nodes /\ m # n /\ name'[m] = name[m]
      BY <1>2
    <3>2. name[m] # name[n]
      BY <3>1 DEF NamesInv, NamesResolve
    <3> QED BY <2>1, <2>2, <3>1, <3>2 DEF NamesInv, NamesResolve
  <2>4. ASSUME NEW s \in DOMAIN byName'
        PROVE  byName'[s] \in nodes' /\ name'[byName'[s]] = s
    <3>1. s \in DOMAIN byName /\ s # name[n] /\ byName'[s] = byName[s]
      BY <2>1, <2>2
    <3>2. byName[s] \in nodes /\ name[byName[s]] = s
      BY <3>1 DEF NamesInv, NamesResolve
    <3> QED BY <1>2, <3>1, <3>2
  <2>5. nodes' \subseteq 1..lastId'
    BY <1>2 DEF NamesInv
  <2> QED BY <2>3, <2>4, <2>5 DEF NamesInv, NamesResolve
<1>3. ASSUME NEW s, NEW k \in Kinds, AddNode(s, k) PROVE NamesInv'
  <2> DEFINE i == lastId + 1
  <2>1. i \in Ids /\ i \notin nodes /\ nodes' \subseteq 1..lastId'
    BY <1>3, GraphAssumption DEF AddNode, NamesInv, NodeTypes, Ids
  <2>2. name' = [name EXCEPT ![i] = s] /\ name \in [Ids -> Name]
    BY <1>3 DEF AddNode, NodeTypes
  <2>3. name'[i] = s /\ \A n \in nodes : name'[n] = name[n]
    BY <2>1, <2>2
  <2>4. CASE s \notin DOMAIN byName
    <3>1. /\ nodes' = nodes \cup {i}
          /\ DOMAIN byName' = DOMAIN byName \cup {s}
          /\ byName'[s] = i /\ \A t \in DOMAIN byName : byName'[t] = byName[t]
      BY <1>3, <2>4 DEF AddNode
    <3> HIDE DEF i
    <3> QED BY <2>1, <2>3, <2>4, <3>1 DEF NamesInv, NamesResolve
  <2>5. CASE s \in DOMAIN byName
    <3>1. nodes' = nodes /\ byName' = byName
      BY <1>3, <2>5 DEF AddNode
    <3> HIDE DEF i
    <3> QED BY <2>1, <2>3, <3>1 DEF NamesInv, NamesResolve
  <2> QED BY <2>4, <2>5
<1>4. ASSUME NEW n \in nodes, NEW s, UpdateNodeName(n, s) PROVE NamesInv'
  <2>1. s \notin DOMAIN byName /\ nodes' = nodes /\ lastId' = lastId
    BY <1>4 DEF UpdateNodeName
  <2>2. name[n] \in DOMAIN byName /\ byName[name[n]] = n /\ IdOf(name[n]) = n
    BY DEF NamesInv, NamesResolve, IdOf
  <2>3. name'[n] = s /\ \A m \in nodes \ {n} : name'[m] = name[m]
    BY <1>4 DEF UpdateNodeName, NodeTypes
  <2>4. DOMAIN byName' = (DOMAIN byName \ {name[n]}) \cup {s}
    BY <1>4 DEF UpdateNodeName, Forget
  <2>5. byName'[s] = n /\ \A t \in DOMAIN byName \ {name[n]} : byName'[t] = byName[t]
    BY <1>4, <2>1, <2>2 DEF UpdateNodeName, Forget
  <2>6. ASSUME NEW m \in nodes \ {n}
        PROVE  name[m] \in DOMAIN byName \ {name[n]} /\ byName[name[m]] = m
    BY <2>2 DEF NamesInv, NamesResolve
  <2>7. ASSUME NEW m \in nodes
        PROVE  name'[m] \in DOMAIN byName' /\ byName'[name'[m]] = m
    BY <2>3, <2>4, <2>5, <2>6
  <2>8. ASSUME NEW t \in DOMAIN byName \ {name[n]}
        PROVE  byName[t] \in nodes \ {n} /\ name[byName[t]] = t
    BY DEF NamesInv, NamesResolve
  <2>9. ASSUME NEW t \in DOMAIN byName'
        PROVE  byName'[t] \in nodes /\ name'[byName'[t]] = t
    BY <2>3, <2>4, <2>5, <2>8
  <2> QED BY <2>1, <2>7, <2>9 DEF NamesInv, NamesResolve
<1>5. ASSUME NEW p \in nodes, NEW c \in nodes, NEW t, AddEdge(p, c, t) PROVE NamesInv'
  BY <1>1, <1>5 DEF AddEdge
<1>6. ASSUME NEW e \in Edges, RemoveEdge(e) PROVE NamesInv'
  BY <1>1, <1>6 DEF RemoveEdge
<1>7. ASSUME NEW n \in nodes, RemoveNode(n) PROVE NamesInv'
  BY <1>2, <1>7 DEF RemoveNode
<1>8. ASSUME NEW e \in Edges, NEW t \in TMs, AppendTm(e, t) PROVE NamesInv'
  BY <1>1, <1>8 DEF AppendTm
<1>9. ASSUME NEW e \in Data(Edges), NEW n \in nodes, NEW o \in BOOLEAN,
             InsertNodeOnEdge(e, n, o)
      PROVE  NamesInv'
  BY <1>1, <1>9 DEF InsertNodeOnEdge
<1>10. ASSUME NEW n \in nodes, BypassNode(n) PROVE NamesInv'
  <2>1. UNCHANGED <<name, lastId>>
    BY <1>10 DEF BypassNode
  <2>2. \/ nodes' = nodes /\ byName' = byName
        \/ nodes' = nodes \ {n} /\ byName' = Forget(name[n])
    BY <1>10 DEF BypassNode
  <2> QED BY <1>1, <1>2, <2>1, <2>2
<1>11. ASSUME NEW e \in Data(Edges), Swap(e) PROVE NamesInv'
  BY <1>1, <1>11 DEF Swap
<1>12. CASE UNCHANGED vars
  BY <1>1, <1>12 DEF vars
<1> QED BY <1>3, <1>4, <1>5, <1>6, <1>7, <1>8, <1>9, <1>10, <1>11, <1>12 DEF Next

-----------------------------------------------------------------------------
(* No rewrite makes a data cycle.                                          *)

(* A node has finitely many operands and users.                            *)
LEMMA EdgesFinite ==
  ASSUME EdgesInv, NEW n \in Ids
  PROVE  IsFiniteSet(operands[n]) /\ IsFiniteSet(users[n])
<1>1. PICK b \in Nat : b > 0 /\ \A m \in Ids :
        PortsBelow(b, operands[m]) /\ PortsBelow(b, users[m])
  BY KnownPorts
<1> DEFINE T == (Ids \X Ids) \X ((0..b) \X {"data", "control"})
<1>2. IsFiniteSet(T)
  <2>1. IsFiniteSet(Ids) /\ IsFiniteSet(0..b)
    BY FS_Interval, GraphAssumption DEF Ids
  <2>2. IsFiniteSet({"data", "control"})
    <3>1. IsFiniteSet({"data"} \cup {"control"})
      BY FS_Singleton, FS_AddElement
    <3>2. {"data"} \cup {"control"} = {"data", "control"}
      OBVIOUS
    <3> QED BY <3>1, <3>2
  <2>3. IsFiniteSet(Ids \X Ids)
    BY <2>1, FS_Product
  <2>4. IsFiniteSet((0..b) \X {"data", "control"})
    BY <2>1, <2>2, FS_Product
  <2> QED BY <2>3, <2>4, FS_Product
<1>3. ASSUME NEW E \in SUBSET Edge, PortsBelow(b, E) PROVE IsFiniteSet(E)
  <2> DEFINE f == [e \in E |-> <<<<e.prod, e.cons>>, <<e.port, e.type>>>>]
  <2>1. ASSUME NEW e \in E PROVE f[e] \in T
    <3>1. e.port \in Nat /\ e.port < b
      BY <1>3 DEF PortsBelow, Edge
    <3>2. e.port \in 0..b
      BY <3>1
    <3> QED BY <3>2 DEF Edge
  <2>2. ASSUME NEW e \in E, NEW g \in E, f[e] = f[g] PROVE e = g
    BY <2>2 DEF Edge
  <2>3. f \in Injection(E, T)
    <3>1. f \in [E -> T]
      BY <2>1
    <3> QED BY <2>2, <3>1 DEF Injection, IsInjective
  <2> HIDE DEF f, T
  <2> QED BY <1>2, <2>3, FS_Injection
<1>4. operands[n] \in SUBSET Edge /\ users[n] \in SUBSET Edge
  BY DEF EdgesInv, EdgeTypes
<1> QED BY <1>1, <1>3, <1>4

(* The initial graph has no cycle.                                         *)
InitAcyclic ==
  ~CyclicIn([n \in Ids |-> {e \in InitEdges : e.cons = n}], 1..Len(InitKind))

(* Its data edges arrive at ports of their own.                            *)
InitPortsUnique ==
  \A e, f \in InitEdges : e.type = "data" /\ f.type = "data"
                            /\ e.cons = f.cons /\ e.port = f.port => e = f

(* The initial graph's nops have one data operand at most.                 *)
InitNopsUnary ==
  \A e, f \in InitEdges : e.type = "data" /\ f.type = "data" /\ e.cons = f.cons
                            /\ InitKind[e.cons] = "nop" => e = f

(* Every node of S has a data operand in S.                                *)
Cycle(S, o) == S # {} /\ \A n \in S : \E e \in Data(o[n]) : e.prod \in S

LEMMA NoCycle ==
  ASSUME Acyclic, NEW S \in SUBSET nodes, Cycle(S, operands)
  PROVE  FALSE
BY DEF Acyclic, CyclicIn, Cycle

(* A cycle through edges that were there before.                           *)
LEMMA FewerEdges ==
  ASSUME EdgesInv, Acyclic, nodes' \subseteq Ids,
         \A n \in nodes' : operands'[n] \subseteq operands[n]
  PROVE  Acyclic'
<1> SUFFICES ASSUME NEW S \in SUBSET nodes', Cycle(S, operands') PROVE FALSE
  BY DEF Acyclic, CyclicIn, Cycle
<1>1. Cycle(S, operands)
  BY DEF Cycle, Data
<1>2. S \subseteq nodes
  <2>1. \A n \in S : operands[n] # {} /\ n \in Ids
    BY <1>1 DEF Cycle, Data
  <2> QED BY <2>1 DEF EdgesInv, EdgesMirrored, Mirrored
<1> QED BY <1>1, <1>2, NoCycle

(* A node inserted on an edge is on a cycle only if the edge was.          *)
LEMMA InsertAcyclic ==
  ASSUME EdgesInv, Acyclic, NEW e \in Data(Edges), NEW n \in nodes, NEW out \in BOOLEAN,
         InsertNodeOnEdge(e, n, out)
  PROVE  Acyclic'
<1> SUFFICES ASSUME NEW S \in SUBSET nodes', Cycle(S, operands') PROVE FALSE
  BY DEF Acyclic, CyclicIn, Cycle
<1>1. /\ nodes' = nodes /\ nodes \subseteq Ids
      /\ operands' = OperandsWith(InsertedEdges(e, n), {e})
      /\ operands[n] = {} /\ users[n] = {} /\ n \notin {e.prod, e.cons}
  BY DEF InsertNodeOnEdge, InsertedEdges, EdgesInv
<1>2. e \in Data(operands[e.cons]) /\ e.prod \in nodes /\ e.cons \in nodes
  BY EndsAreNodes DEF Edges, Data, EdgesInv, EdgesMirrored, Mirrored, Between
<1>3. ASSUME NEW m \in nodes, NEW f \in Data(operands'[m])
      PROVE  \/ f \in Data(operands[m])
             \/ m = n /\ f.prod = e.prod
             \/ m = e.cons /\ f.prod = n
  <2>1. CASE f \in operands[m]
    BY <2>1 DEF Data
  <2>2. CASE f \in InsertedEdges(e, n) /\ f.cons = m
    <3>1. CASE f = Upper(e, n)
      <4>1. e \in Edge
        BY EndsAreNodes DEF Data, Between
      <4> QED BY <2>2, <3>1, <4>1 DEF Upper, Edge
    <3>2. CASE f = Lower(e, n)
      <4>1. e \in Edge
        BY EndsAreNodes DEF Data, Between
      <4> QED BY <2>2, <3>2, <4>1 DEF Lower, Edge
    <3>3. CASE f \in InheritedControl(e, n)
      <4>1. PICK o \in Control(operands[e.cons]) : f = Upper(o, n)
        BY <3>3 DEF InheritedControl
      <4>2. o \in Edge /\ o.type = "control"
        BY <1>1, <1>2, EndsAreNodes DEF Control, Between
      <4>3. f.type = "control"
        BY <4>1, <4>2 DEF Upper, Edge
      <4> QED BY <4>3 DEF Data
    <3> QED BY <2>2, <3>1, <3>2, <3>3 DEF InsertedEdges
  <2>3. m \in Ids
    BY <1>1
  <2> QED BY <1>1, <2>1, <2>2, <2>3 DEF OperandsWith, Data
<1> DEFINE Q == S \ {n}
<1>4. e.prod \in S \/ n \notin S
  <2> SUFFICES ASSUME n \in S PROVE e.prod \in S
    OBVIOUS
  <2>1. PICK f \in Data(operands'[n]) : f.prod \in S
    BY DEF Cycle
  <2>2. f \notin Data(operands[n])
    BY <1>1 DEF Data
  <2> QED BY <1>1, <1>3, <2>1, <2>2
<1>5. ASSUME NEW m \in Q PROVE \E f \in Data(operands[m]) : f.prod \in Q
  <2>1. PICK f \in Data(operands'[m]) : f.prod \in S
    BY DEF Cycle
  <2>2. CASE f \in Data(operands[m])
    <3>1. f.prod # n
      <4>1. f \in Edge /\ f \in users[f.prod] /\ f.prod \in Ids
        BY <1>1, <2>2, EndsAreNodes DEF Data, EdgesInv, EdgesMirrored, Mirrored, Between, Edge
      <4> QED BY <1>1, <4>1
    <3> QED BY <2>1, <2>2, <3>1
  <2>3. CASE m = e.cons /\ f.prod = n
    BY <1>1, <1>2, <1>4, <2>1, <2>3
  <2> QED BY <1>1, <1>3, <2>1, <2>2, <2>3
<1>6. Q # {}
  BY <1>1, <1>4 DEF Cycle
<1> QED BY <1>1, <1>5, <1>6, NoCycle DEF Cycle

(* bypass_node hands on control edges as control edges.                    *)
LEMMA HandedControl ==
  ASSUME EdgesInv, NEW n \in nodes, NEW h \in HandedDown(n)
  PROVE  h.type = "control"
<1>1. PICK o \in Control(operands[n]), u \in Data(users[n]) :
        h = [o EXCEPT !.cons = u.cons, !.port = u.port]
  BY DEF HandedDown
<1>2. o \in Edge /\ o.type = "control"
  BY EndsAreNodes DEF Control, Between, EdgesInv
<1> QED BY <1>1, <1>2 DEF Edge

(* A cycle along the edges bypass_node adds went through the node.         *)
LEMMA BypassAcyclic ==
  ASSUME EdgesInv, Acyclic, NEW n \in nodes, NEW src \in Data(operands[n]),
         NEW S \in SUBSET nodes, Cycle(S, OperandsWith(BypassEdges(src, n), {}))
  PROVE  FALSE
<1> DEFINE o == OperandsWith(BypassEdges(src, n), {})
<1>1. nodes \subseteq Ids
  BY DEF EdgesInv
<1>2. ASSUME NEW m \in nodes, NEW f \in Data(o[m]), f \notin Data(operands[m])
      PROVE  f.prod = src.prod /\ \E u \in Data(operands[m]) : u.prod = n
  <2>1. f \in BypassEdges(src, n) /\ f.cons = m /\ f.type = "data"
    BY <1>1, <1>2 DEF OperandsWith, Data
  <2>2. CASE f \in HandedDown(n)
    <3>1. f.type = "control"
      BY <2>2, HandedControl
    <3> QED BY <2>1, <3>1
  <2>3. CASE f \notin HandedDown(n)
    <3>1. PICK u \in Data(users[n]) : f = Bypassed(src, u)
      BY <2>1, <2>3 DEF BypassEdges
    <3>2. u \in Edge /\ u.prod = n /\ u \in operands[u.cons]
      BY <1>1, EndsAreNodes DEF Data, EdgesInv, EdgesMirrored, Mirrored, Between
    <3>3. f.prod = src.prod /\ f.cons = u.cons
      BY <3>1, <3>2 DEF Bypassed, Edge
    <3> QED BY <2>1, <3>1, <3>2, <3>3 DEF Data
  <2> QED BY <2>2, <2>3
<1>3. CASE src.prod \in S
  <2> DEFINE Q == S \cup {n}
  <2>1. ASSUME NEW m \in S PROVE \E f \in Data(operands[m]) : f.prod \in Q
    <3>1. PICK f \in Data(o[m]) : f.prod \in S
      BY DEF Cycle
    <3> QED BY <1>2, <3>1
  <2>2. \E f \in Data(operands[n]) : f.prod \in Q
    BY <1>3
  <2>3. Cycle(Q, operands) /\ Q \in SUBSET nodes
    BY <2>1, <2>2 DEF Cycle
  <2> QED BY <2>3, NoCycle
<1>4. CASE src.prod \notin S
  <2>1. ASSUME NEW m \in S PROVE \E f \in Data(operands[m]) : f.prod \in S
    <3>1. PICK f \in Data(o[m]) : f.prod \in S
      BY DEF Cycle
    <3> QED BY <1>2, <1>4, <3>1
  <2>2. Cycle(S, operands)
    BY <2>1 DEF Cycle
  <2> QED BY <2>2, NoCycle
<1> QED BY <1>3, <1>4

(* The source of the node that Swap moves below e's consumer.              *)
SwapSource(e) == CHOOSE o \in Data(operands[e.prod]) : TRUE

(* The edges from that source and to the consumer's users after the swap.  *)
Moved(e) == [SwapSource(e) EXCEPT !.cons = e.cons, !.port = e.port]

Rejoined(e, x) == [x EXCEPT !.prod = e.prod]

(* Where a data operand f that m has after a swap comes from.              *)
AfterSwap(e, m, f) ==
  \/ f \in Data(operands[m]) /\ f \notin {e, SwapSource(e)} \cup Data(users[e.cons])
  \/ m = e.prod /\ f = Turned(e) /\ f.prod = e.cons
  \/ m = e.cons /\ f = Moved(e) /\ f.prod = SwapSource(e).prod /\ f.port = e.port
  \/ \E x \in Data(users[e.cons]) :
       /\ x \in Data(operands[m]) /\ x.prod = e.cons
       /\ f = Rejoined(e, x) /\ f.prod = e.prod /\ f.port = x.port

(* The data operands every node has after a swap.                          *)
LEMMA SwapOperands ==
  ASSUME EdgesInv, Acyclic, NEW e \in Data(Edges), Swap(e)
  PROVE  /\ nodes' = nodes /\ e.prod \in nodes /\ e.cons \in nodes /\ e.prod # e.cons
         /\ e \in Data(operands[e.cons]) /\ Data(users[e.prod]) = {e}
         /\ Data(operands[e.prod]) = {SwapSource(e)} /\ SwapSource(e).prod \in nodes
         /\ \A m \in nodes : \A f \in Data(operands'[m]) : AfterSwap(e, m, f)
<1> DEFINE src == SwapSource(e)
           p == e.prod
           c == e.cons
           R == {e, src} \cup Data(users[c])
<1>1. /\ e \in Edge /\ e \in Data(operands[c]) /\ p \in nodes /\ c \in nodes
      /\ nodes \subseteq Ids
  BY EndsAreNodes DEF Edges, Data, EdgesInv, EdgesMirrored, Mirrored, Between
<1>2. Data(operands[p]) = {src}
  <2>1. IsFiniteSet(Data(operands[p])) /\ Cardinality(Data(operands[p])) = 1
    <3>1. IsFiniteSet(operands[p])
      BY <1>1, EdgesFinite
    <3>2. Data(operands[p]) \in SUBSET operands[p]
      BY DEF Data
    <3>3. IsFiniteSet(Data(operands[p]))
      BY <3>1, <3>2, FS_Subset
    <3> QED BY <3>3 DEF Swap
  <2>2. PICK x : Data(operands[p]) = {x}
    BY <2>1, FS_Singleton
  <2> QED BY <2>2 DEF SwapSource
<1>3. src \in Edge /\ src.type = "data" /\ src.cons = p /\ src.prod \in nodes
  BY <1>1, <1>2, EndsAreNodes DEF Data, EdgesInv, EdgesMirrored, Mirrored, Between
<1>4. nodes' = nodes /\ operands' = OperandsWith(SwapEdges(e, src), R)
  <2>1. DOMAIN SwapTarget(e, src) = R
    BY DEF SwapTarget
  <2> QED BY <2>1 DEF Swap, SwapEdges, SwapSource
<1> HIDE DEF src
<1>5. p # c /\ e # src
  <2> SUFFICES ASSUME p = c PROVE FALSE
    BY <1>3
  <2>1. Cycle({p}, operands)
    BY <1>1 DEF Cycle
  <2> QED BY <1>1, <2>1, NoCycle
<1>6. Data(users[p]) = {e}
  BY DEF Swap, OnlyUser
<1>7. ASSUME NEW m \in nodes, NEW f \in Data(operands'[m])
      PROVE  AfterSwap(e, m, f)
  <2>1. CASE f \in operands[m] /\ f \notin R
    BY <2>1 DEF Data, AfterSwap, src
  <2>2. CASE f \in SwapEdges(e, src) /\ f.cons = m
    <3>1. PICK x \in R : f = SwapTarget(e, src)[x]
      <4>1. DOMAIN SwapTarget(e, src) = R
        BY DEF SwapTarget
      <4> HIDE DEF R
      <4> QED BY <2>2, <4>1 DEF SwapEdges
    <3>2. CASE x = e
      <4>1. SwapTarget(e, src)[e] = Turned(e)
        BY <1>5 DEF SwapTarget
      <4>2. f = Turned(e)
        BY <3>1, <3>2, <4>1
      <4>3. Turned(e).prod = c /\ Turned(e).cons = p
        BY <1>1 DEF Turned, Edge
      <4> QED BY <2>2, <4>2, <4>3 DEF AfterSwap
    <3>3. CASE x # e /\ x = src
      <4>1. f = Moved(e)
        BY <3>1, <3>3 DEF SwapTarget, Moved, src
      <4>2. /\ Moved(e).prod = SwapSource(e).prod
            /\ Moved(e).cons = c /\ Moved(e).port = e.port
        BY <1>3 DEF Edge, Moved, src
      <4> QED BY <2>2, <4>1, <4>2 DEF AfterSwap
    <3>4. CASE x # e /\ x # src
      <4>1. f = Rejoined(e, x) /\ x \in Data(users[c])
        BY <3>1, <3>4 DEF SwapTarget, Rejoined
      <4>2. x \in Edge /\ x.prod = c /\ x \in Data(operands[x.cons])
        BY <1>1, <4>1, EndsAreNodes DEF Data, EdgesInv, EdgesMirrored, Mirrored, Between
      <4>3. f.prod = p /\ f.cons = x.cons /\ f.port = x.port
        BY <4>1, <4>2 DEF Edge, Rejoined
      <4> QED BY <2>2, <4>1, <4>2, <4>3 DEF AfterSwap
    <3> QED BY <3>2, <3>3, <3>4
  <2>3. m \in Ids
    BY <1>1
  <2> QED BY <1>4, <2>1, <2>2, <2>3 DEF OperandsWith, Data
<1> QED BY <1>1, <1>2, <1>3, <1>4, <1>5, <1>6, <1>7 DEF src

(* Swapping two nodes of which the second is the only user of the first.   *)
LEMMA SwapAcyclic ==
  ASSUME EdgesInv, Acyclic, NEW e \in Data(Edges), Swap(e)
  PROVE  Acyclic'
<1> DEFINE p == e.prod
           c == e.cons
           q == SwapSource(e).prod
           R == {e, SwapSource(e)} \cup Data(users[c])
<1> SUFFICES ASSUME NEW S \in SUBSET nodes', Cycle(S, operands') PROVE FALSE
  BY DEF Acyclic, CyclicIn, Cycle
<1>1. /\ nodes' = nodes /\ p \in nodes /\ c \in nodes /\ p # c /\ q \in nodes
      /\ e \in Data(operands[c]) /\ Data(users[p]) = {e}
      /\ SwapSource(e) \in Data(operands[p]) /\ Data(operands[p]) \subseteq R
      /\ nodes \subseteq Ids
  <2>1. /\ nodes' = nodes /\ p \in nodes /\ c \in nodes /\ p # c /\ q \in nodes
        /\ e \in Data(operands[c]) /\ Data(users[p]) = {e}
        /\ Data(operands[p]) = {SwapSource(e)}
    BY SwapOperands
  <2> QED BY <2>1 DEF EdgesInv
<1>2. ASSUME NEW m \in nodes, NEW f \in Data(operands'[m])
      PROVE  \/ f \in Data(operands[m]) /\ f \notin R
             \/ m = p /\ f.prod = c
             \/ m = c /\ f.prod = q
             \/ f.prod = p /\ \E x \in Data(operands[m]) : x.prod = c
  <2>1. AfterSwap(e, m, f)
    BY <1>1, SwapOperands
  <2> QED BY <2>1 DEF AfterSwap
<1> HIDE DEF R, q
<1>3. CASE q \in S
  <2> DEFINE Q == S \cup {p, c}
  <2>1. /\ \E f \in Data(operands[p]) : f.prod \in Q
        /\ \E f \in Data(operands[c]) : f.prod \in Q
    BY <1>1, <1>3 DEF q
  <2>2. ASSUME NEW m \in S PROVE \E f \in Data(operands[m]) : f.prod \in Q
    <3>1. PICK f \in Data(operands'[m]) : f.prod \in S
      BY DEF Cycle
    <3>2. CASE m \in {p, c}
      BY <2>1, <3>2
    <3>3. CASE m \notin {p, c}
      BY <1>1, <1>2, <3>1, <3>3
    <3> QED BY <3>2, <3>3
  <2>3. Cycle(Q, operands) /\ Q \in SUBSET nodes
    BY <1>1, <2>1, <2>2 DEF Cycle
  <2> QED BY <2>3, NoCycle
<1>4. CASE q \notin S
  <2> DEFINE Q == S \ {p}
  <2>1. p \in S => c \in S
    <3> SUFFICES ASSUME p \in S PROVE c \in S
      OBVIOUS
    <3>1. PICK f \in Data(operands'[p]) : f.prod \in S
      BY DEF Cycle
    <3>2. ~\E x \in Data(operands[p]) : x.prod = c
      <4> SUFFICES ASSUME NEW x \in Data(operands[p]), x.prod = c PROVE FALSE
        OBVIOUS
      <4>1. Cycle({p, c}, operands)
        BY <1>1 DEF Cycle
      <4> QED BY <1>1, <4>1, NoCycle
    <3> QED BY <1>1, <1>2, <3>1, <3>2
  <2>2. ASSUME NEW m \in Q PROVE \E f \in Data(operands[m]) : f.prod \in Q
    <3>1. PICK f \in Data(operands'[m]) : f.prod \in S
      BY DEF Cycle
    <3>2. CASE f \in Data(operands[m]) /\ f \notin R
      <4>1. f \in Data(users[f.prod])
        BY <1>1, <3>2 DEF Data, EdgesInv, EdgesMirrored, Mirrored
      <4>2. f.prod # p
        BY <1>1, <3>2, <4>1 DEF R
      <4> QED BY <3>1, <3>2, <4>2
    <3>3. CASE f.prod = p /\ \E x \in Data(operands[m]) : x.prod = c
      BY <1>1, <2>1, <3>1, <3>3
    <3> QED BY <1>1, <1>2, <1>4, <3>1, <3>2, <3>3
  <2>3. Q # {}
    BY <1>1, <2>1 DEF Cycle
  <2>4. Cycle(Q, operands) /\ Q \in SUBSET nodes
    BY <1>1, <2>2, <2>3 DEF Cycle
  <2> QED BY <2>4, NoCycle
<1> QED BY <1>3, <1>4

(* Every operation keeps the graph without cycles.                         *)
LEMMA AcyclicStep ==
  ASSUME EdgesInv, EdgesInv', Acyclic, [Next]_vars
  PROVE  Acyclic'
<1>1. nodes \subseteq Ids /\ nodes' \subseteq Ids
  BY DEF EdgesInv
<1>2. ASSUME UNCHANGED operands PROVE Acyclic'
  BY <1>1, <1>2, FewerEdges
<1>3. ASSUME NEW p \in nodes, NEW c \in nodes, NEW t \in {"data", "control"}, AddEdge(p, c, t)
      PROVE  Acyclic'
  <2> DEFINE e == [prod |-> p, cons |-> c, port |-> NextPort(c), type |-> t]
             d == [e EXCEPT !.type = "data"]
             o == OperandsWith({d}, {})
  <2>1. nodes' = nodes /\ operands' = OperandsWith({e}, {}) /\ ~CyclicIn(o, nodes)
    BY <1>3 DEF AddEdge
  <2>2. d.prod = e.prod /\ d.cons = e.cons /\ d.type = "data"
    OBVIOUS
  <2>3. ASSUME NEW m \in nodes, NEW f \in Data(operands'[m])
        PROVE  \E g \in Data(o[m]) : g.prod = f.prod
    <3> HIDE DEF d, e
    <3>1. m \in Ids /\ f \in operands'[m] /\ f.type = "data"
      BY <1>1, <2>3 DEF Data
    <3>2. f \in operands[m] \/ (f = e /\ e.cons = m)
      BY <2>1, <3>1 DEF OperandsWith
    <3>3. CASE f \in operands[m]
      BY <3>1, <3>3 DEF OperandsWith, Data
    <3>4. CASE f = e /\ e.cons = m
      <4>1. d \in Data(o[m])
        BY <2>2, <3>1, <3>4 DEF OperandsWith, Data
      <4> QED BY <2>2, <3>4, <4>1
    <3> QED BY <3>2, <3>3, <3>4
  <2> HIDE DEF o
  <2>4. ASSUME NEW S \in SUBSET nodes, Cycle(S, operands') PROVE Cycle(S, o)
    BY <2>3, <2>4 DEF Cycle
  <2>5. \A S \in SUBSET nodes : ~Cycle(S, o)
    BY <2>1 DEF CyclicIn, Cycle
  <2> QED BY <2>1, <2>4, <2>5 DEF Acyclic, CyclicIn, Cycle
<1>4. ASSUME NEW e \in Edges, RemoveEdge(e) PROVE Acyclic'
  <2>1. \A m \in nodes' : operands'[m] \subseteq operands[m]
    BY <1>1, <1>4 DEF RemoveEdge, OperandsWith
  <2> QED BY <1>1, <2>1, FewerEdges
<1>5. ASSUME NEW n \in nodes, RemoveNode(n) PROVE Acyclic'
  <2>1. \A m \in nodes' : operands'[m] \subseteq operands[m]
    BY <1>1, <1>5 DEF RemoveNode, WithoutNode
  <2> QED BY <1>1, <2>1, FewerEdges
<1>6. ASSUME NEW n \in nodes, BypassNode(n) PROVE Acyclic'
  <2> DEFINE src == CHOOSE e \in Data(operands[n]) : TRUE
             o == OperandsWith(BypassEdges(src, n), {})
             u == UsersWith(BypassEdges(src, n), {})
  <2>1. CASE Cardinality(Data(operands[n])) # 1
    BY <1>2, <1>6, <2>1 DEF BypassNode, maps
  <2>2. CASE Cardinality(Data(operands[n])) = 1
    <3>1. src \in Data(operands[n])
      BY <2>2, FS_EmptySet
    <3> HIDE DEF src
    <3>2. /\ nodes' \subseteq nodes
          /\ operands' = o \/ operands' = WithoutNode(n, o, o, u)
      BY <1>6, <2>2 DEF BypassNode, BypassEdges, src
    <3>3. \A m \in nodes' : operands'[m] \subseteq o[m]
      <4> HIDE DEF o, u
      <4> QED BY <1>1, <3>2 DEF WithoutNode
    <3>4. ASSUME NEW S \in SUBSET nodes', Cycle(S, operands') PROVE Cycle(S, o)
      <4> HIDE DEF o, u
      <4> QED BY <3>3, <3>4 DEF Cycle, Data
    <3>5. \A S \in SUBSET nodes : ~Cycle(S, o)
      BY <3>1, BypassAcyclic
    <3> HIDE DEF o, u
    <3> QED BY <3>2, <3>4, <3>5 DEF Acyclic, CyclicIn, Cycle
  <2> QED BY <2>1, <2>2
<1> QED BY <1>2, <1>3, <1>4, <1>5, <1>6, InsertAcyclic, SwapAcyclic
        DEF Next, AddNode, UpdateNodeName, AppendTm, maps, vars

-----------------------------------------------------------------------------
(* Operands stay at ports of their own.                                    *)

(* No two of the data edges E have the same port.                          *)
OwnPorts(E) == \A e, f \in Data(E) : e.port = f.port => e = f

(* What insert_node_on_edge puts at the ports of a node.                   *)
LEMMA InsertPorts ==
  ASSUME EdgesInv, PortsUnique, NEW e \in Data(Edges), NEW n \in nodes,
         NEW out \in BOOLEAN, InsertNodeOnEdge(e, n, out)
  PROVE  PortsUnique'
<1>1. /\ nodes' = nodes /\ nodes \subseteq Ids /\ status = "ok"
      /\ operands' = OperandsWith(InsertedEdges(e, n), {e})
      /\ operands[n] = {} /\ n \notin {e.prod, e.cons}
  BY DEF InsertNodeOnEdge, InsertedEdges, EdgesInv, Begin
<1>2. e \in Edge /\ e \in Data(operands[e.cons]) /\ e.cons \in nodes
  BY EndsAreNodes DEF Edges, Data, EdgesInv, EdgesMirrored, Mirrored, Between
<1> SUFFICES ASSUME NEW m \in nodes PROVE OwnPorts(operands'[m])
  BY <1>1 DEF PortsUnique, OwnPorts
<1>3. OwnPorts(operands[m])
  BY <1>1 DEF PortsUnique, OwnPorts
<1>4. ASSUME NEW f \in Data(InsertedEdges(e, n)) PROVE f \in {Upper(e, n), Lower(e, n)}
  <2> SUFFICES ASSUME f \in InheritedControl(e, n) PROVE FALSE
    BY DEF InsertedEdges, Data
  <2>1. PICK o \in Control(operands[e.cons]) : f = Upper(o, n)
    BY DEF InheritedControl
  <2>2. o \in Edge /\ o.type = "control"
    BY <1>1, <1>2, EndsAreNodes DEF Control, Between
  <2> QED BY <2>1, <2>2 DEF Upper, Edge, Data
<1>5. Upper(e, n).cons = n /\ Lower(e, n).cons = e.cons /\ Lower(e, n).port = e.port
  BY <1>2 DEF Upper, Lower, Edge
<1>6. ASSUME NEW f \in Data(operands'[m])
      PROVE  \/ f \in Data(operands[m]) /\ f # e
             \/ f = Upper(e, n) /\ m = n
             \/ f = Lower(e, n) /\ m = e.cons
  BY <1>1, <1>4, <1>5 DEF OperandsWith, Data
<1>7. CASE m = n
  BY <1>1, <1>6, <1>7 DEF OwnPorts, Data
<1>8. CASE m = e.cons
  BY SMTT(30), <1>1, <1>2, <1>3, <1>5, <1>6, <1>8 DEF OwnPorts
<1>9. CASE m # n /\ m # e.cons
  BY <1>3, <1>6, <1>9 DEF OwnPorts
<1> QED BY <1>7, <1>8, <1>9

(* A bypassed node's users get its source at the port it was at.           *)
LEMMA BypassPorts ==
  ASSUME EdgesInv, PortsUnique, NEW n \in nodes, BypassNode(n)
  PROVE  PortsUnique'
<1> DEFINE src == CHOOSE e \in Data(operands[n]) : TRUE
           o == OperandsWith(BypassEdges(src, n), {})
           u == UsersWith(BypassEdges(src, n), {})
<1> SUFFICES ASSUME status' = "ok", NEW m \in nodes' PROVE OwnPorts(operands'[m])
  BY DEF PortsUnique, OwnPorts
<1>1. Cardinality(Data(operands[n])) = 1 /\ status = "ok"
  BY DEF BypassNode, Begin
<1>2. src \in Data(operands[n])
  BY <1>1, FS_EmptySet
<1> HIDE DEF src
<1>3. nodes' = nodes \ {n} /\ operands' = WithoutNode(n, o, o, u)
  BY DEF BypassNode, BypassEdges, src
<1>4. nodes \subseteq Ids /\ m \in nodes /\ m # n
  BY <1>3 DEF EdgesInv
<1>5. operands'[m] = o[m] \ (o[n] \cup u[n])
  <2> HIDE DEF o, u
  <2> QED BY <1>3, <1>4 DEF WithoutNode
<1>6. ASSUME NEW f \in Data(operands'[m])
      PROVE  \/ f \in Data(operands[m]) /\ f \notin users[n]
             \/ \E x \in Data(users[n]) : /\ f = Bypassed(src, x) /\ f.port = x.port
                                         /\ x \in Data(operands[m])
  <2>1. f \in o[m] /\ f \notin u[n] /\ f.type = "data"
    BY <1>5, <1>6 DEF Data
  <2>2. CASE f \in operands[m]
    BY <1>4, <2>1, <2>2 DEF UsersWith, Data
  <2>3. CASE f \notin operands[m]
    <3>1. f \in BypassEdges(src, n) /\ f.cons = m
      BY <1>4, <2>1, <2>3 DEF OperandsWith
    <3>2. f \notin HandedDown(n)
      BY <2>1, HandedControl
    <3>3. PICK x \in Data(users[n]) : f = Bypassed(src, x)
      BY <3>1, <3>2 DEF BypassEdges
    <3>4. x \in Edge /\ x \in Data(operands[x.cons])
      BY <1>4, EndsAreNodes DEF Data, EdgesInv, EdgesMirrored, Mirrored, Between
    <3>5. f.cons = x.cons /\ f.port = x.port
      BY <3>3, <3>4 DEF Bypassed, Edge
    <3> QED BY <3>1, <3>3, <3>4, <3>5
  <2> QED BY <2>2, <2>3
<1>7. OwnPorts(operands[m])
  BY <1>1, <1>4 DEF PortsUnique, OwnPorts
<1> SUFFICES ASSUME NEW f \in Data(operands'[m]), NEW g \in Data(operands'[m]), f.port = g.port
             PROVE  f = g
  BY DEF OwnPorts
<1>8. CASE f \in Data(operands[m]) /\ f \notin users[n]
  BY <1>6, <1>7, <1>8 DEF OwnPorts, Data
<1>9. CASE \E x \in Data(users[n]) : /\ f = Bypassed(src, x) /\ f.port = x.port
                                     /\ x \in Data(operands[m])
  BY <1>6, <1>7, <1>9 DEF OwnPorts, Data
<1> QED BY <1>6, <1>8, <1>9

(* swap gives every replaced edge's port to its replacement.               *)
LEMMA SwapPorts ==
  ASSUME EdgesInv, Acyclic, PortsUnique, NEW e \in Data(Edges), Swap(e)
  PROVE  PortsUnique'
<1> DEFINE p == e.prod
           c == e.cons
<1>1. /\ status = "ok" /\ nodes' = nodes /\ p \in nodes /\ c \in nodes
      /\ nodes \subseteq Ids /\ e \in Data(operands[c])
      /\ Data(operands[p]) = {SwapSource(e)}
  <2>1. status = "ok" /\ nodes \subseteq Ids
    BY DEF Swap, Begin, EdgesInv
  <2> QED BY <2>1, SwapOperands
<1> SUFFICES ASSUME NEW m \in nodes, NEW f \in Data(operands'[m]),
                    NEW g \in Data(operands'[m]), f.port = g.port
             PROVE  f = g
  BY <1>1 DEF PortsUnique
<1>2. \A h \in Data(operands'[m]) :
        \/ h \in Data(operands[m]) /\ h \notin {e, SwapSource(e)} \cup Data(users[c])
        \/ m = p /\ h = Turned(e)
        \/ m = c /\ h = Moved(e) /\ h.port = e.port
        \/ \E x \in Data(users[c]) :
             x \in Data(operands[m]) /\ h = Rejoined(e, x) /\ h.port = x.port
  <2>1. \A h \in Data(operands'[m]) : AfterSwap(e, m, h)
    BY SwapOperands
  <2> QED BY <2>1 DEF AfterSwap
<1>3. OwnPorts(operands[m])
  BY <1>1 DEF PortsUnique, OwnPorts
<1>4. \A x \in Data(users[c]) : x \notin Data(operands[c]) /\ x \notin Data(operands[p])
  <2> SUFFICES ASSUME NEW x \in Data(users[c]),
                      x \in Data(operands[c]) \/ x \in Data(operands[p])
               PROVE  FALSE
    OBVIOUS
  <2>1. x.prod = c
    BY <1>1 DEF Data, EdgesInv, EdgesMirrored, Mirrored
  <2>2. e.prod = p /\ (Cycle({c}, operands) \/ Cycle({p, c}, operands))
    BY <1>1, <2>1 DEF Cycle
  <2> QED BY <1>1, <2>2, NoCycle
<1>5. CASE m = p
  <2>1. p # c
    BY SwapOperands
  <2>2. \A h \in Data(operands'[m]) : h = Turned(e)
    BY <1>1, <1>2, <1>4, <1>5, <2>1
  <2> QED BY <2>2
<1>6. CASE m = c
  <2>1. p # c
    BY SwapOperands
  <2>2. \A h \in Data(operands'[m]) :
          \/ h \in Data(operands[m]) /\ h # e
          \/ h = Moved(e) /\ h.port = e.port
    BY <1>2, <1>4, <1>6, <2>1
  <2> QED BY <1>1, <1>3, <1>6, <2>2 DEF OwnPorts
<1>7. CASE m # p /\ m # c
  <2>1. \A h \in Data(operands'[m]) :
          \/ h \in Data(operands[m]) /\ h \notin Data(users[c])
          \/ \E x \in Data(users[c]) :
               x \in Data(operands[m]) /\ h = Rejoined(e, x) /\ h.port = x.port
    BY <1>2, <1>7
  <2> QED BY <1>3, <2>1 DEF OwnPorts
<1> QED BY <1>5, <1>6, <1>7

(* Every operation keeps operands at ports of their own.                   *)
LEMMA PortsStep ==
  ASSUME EdgesInv, Acyclic, PortsUnique, nodes' \subseteq Ids, [Next]_vars
  PROVE  PortsUnique'
<1>1. nodes \subseteq Ids
  BY DEF EdgesInv
<1>2. ASSUME status = "ok" \/ status' = status,
             \A m \in nodes' : operands'[m] \subseteq operands[m]
      PROVE  PortsUnique'
  <2> SUFFICES ASSUME status' = "ok", NEW m \in nodes' PROVE OwnPorts(operands'[m])
    BY DEF PortsUnique, OwnPorts
  <2>1. CASE m \in nodes
    BY <1>2, <2>1 DEF PortsUnique, OwnPorts, Data
  <2>2. CASE m \notin nodes
    <3>1. operands[m] = {}
      BY <2>2 DEF EdgesInv, EdgesMirrored, Mirrored
    <3> QED BY <1>2, <3>1 DEF OwnPorts, Data
  <2> QED BY <2>1, <2>2
<1>3. ASSUME NEW p \in nodes, NEW c \in nodes, NEW t \in {"data", "control"}, AddEdge(p, c, t)
      PROVE  PortsUnique'
  <2> DEFINE e == [prod |-> p, cons |-> c, port |-> NextPort(c), type |-> t]
  <2>1. /\ nodes' = nodes /\ operands' = OperandsWith({e}, {}) /\ status = "ok"
        /\ c \in Ids
    BY <1>1, <1>3 DEF AddEdge, Begin
  <2>2. e.cons = c /\ e.port = NextPort(c)
    OBVIOUS
  <2> HIDE DEF e
  <2> SUFFICES ASSUME NEW m \in nodes, NEW f \in Data(operands'[m]),
                      NEW g \in Data(operands'[m]), f.port = g.port
               PROVE  f = g
    BY <2>1 DEF PortsUnique
  <2>3. \A h \in {f, g} : h \in Data(operands[m]) \/ (h = e /\ m = c)
    BY <1>1, <2>1, <2>2 DEF OperandsWith, Data
  <2>4. \A h \in Data(operands[c]) : h.port # e.port
    <3> SUFFICES ASSUME NEW h \in Data(operands[c]), h.port = e.port PROVE FALSE
      OBVIOUS
    <3>1. h.port < NextPort(c) /\ NextPort(c) \in Nat
      BY <2>1, NextPortIsPort DEF Data
    <3> QED BY <2>2, <3>1
  <2>5. f \in Data(operands[m]) /\ g \in Data(operands[m]) => f = g
    BY <2>1 DEF PortsUnique
  <2> QED BY <2>3, <2>4, <2>5
<1>4. ASSUME NEW e \in Edges, RemoveEdge(e) PROVE PortsUnique'
  BY <1>1, <1>2, <1>4 DEF RemoveEdge, OperandsWith, Begin
<1>5. ASSUME NEW n \in nodes, RemoveNode(n) PROVE PortsUnique'
  BY <1>1, <1>2, <1>5 DEF RemoveNode, WithoutNode, Begin
<1>6. ASSUME UNCHANGED operands, status = "ok" \/ status' = status PROVE PortsUnique'
  BY <1>2, <1>6
<1> QED BY <1>3, <1>4, <1>5, <1>6, InsertPorts, BypassPorts, SwapPorts
        DEF Next, AddNode, UpdateNodeName, AppendTm, Begin, maps, vars

-----------------------------------------------------------------------------
(* Attribute objects stay unshared.                                        *)

(* An object is named by the key it was made for, so that a key that is not *)
(* in the map yet names a new object.                                      *)
UnsharedInv ==
  /\ \A k \in DOMAIN attrs : attrs[k] \in DOMAIN attrs
  /\ \A e, f \in Edges : attrs[e] = attrs[f] => e = f

(* Edges with attributes: those of the graph.                              *)
LEMMA EdgesHaveAttrs == AttrsInv => Edges \subseteq DOMAIN attrs
BY DEF AttrsInv, Edges

(* Operations that leave the attributes alone and add no edge.             *)
LEMMA UnsharedFewer ==
  ASSUME UnsharedInv, attrs' = attrs, \A m \in Ids : operands'[m] \subseteq operands[m]
  PROVE  UnsharedInv'
<1>1. Edges' \subseteq Edges
  BY DEF Edges
<1> QED BY <1>1 DEF UnsharedInv

(* Operations that add edges with objects of their own, new or found.      *)
LEMMA UnsharedAdded ==
  ASSUME AttrsInv, UnsharedInv, NEW E, attrs' = AttrsWith(DefaultAttrs(E)),
         \A e \in E \cap DOMAIN attrs : OwnsAttrs(e),
         \A m \in Ids : operands'[m] \subseteq operands[m] \cup E
  PROVE  UnsharedInv'
<1>1. DOMAIN attrs' = DOMAIN attrs \cup E
  BY DEF AttrsWith, DefaultAttrs
<1>2. \A k \in DOMAIN attrs : attrs'[k] = attrs[k] /\ attrs'[k] \in DOMAIN attrs
  BY DEF AttrsWith, UnsharedInv
<1>3. \A k \in E \ DOMAIN attrs : attrs'[k] = k
  BY DEF AttrsWith, DefaultAttrs
<1>4. Edges' \subseteq Edges \cup E
  BY DEF Edges
<1>5. Edges \subseteq DOMAIN attrs
  BY EdgesHaveAttrs
<1>6. ASSUME NEW e \in DOMAIN attrs, NEW f \in E, attrs'[e] = attrs'[f] PROVE e = f
  <2>1. f \in DOMAIN attrs
    BY <1>2, <1>3, <1>6
  <2> QED BY <1>2, <1>6, <2>1 DEF OwnsAttrs
<1>7. ASSUME NEW e \in Edges', NEW f \in Edges', attrs'[e] = attrs'[f] PROVE e = f
  <2>1. CASE e \in Edges /\ f \in Edges
    BY <1>2, <1>5, <1>7, <2>1 DEF UnsharedInv
  <2>2. CASE e \in DOMAIN attrs /\ f \in E
    BY <1>6, <1>7, <2>2
  <2>3. CASE f \in DOMAIN attrs /\ e \in E
    BY <1>6, <1>7, <2>3
  <2>4. CASE e \in E \ DOMAIN attrs /\ f \in E \ DOMAIN attrs
    BY <1>3, <1>7, <2>4
  <2> QED BY <1>4, <1>5, <2>1, <2>2, <2>3, <2>4
<1>8. \A k \in DOMAIN attrs' : attrs'[k] \in DOMAIN attrs'
  BY <1>1, <1>2, <1>3
<1> QED BY <1>7, <1>8 DEF UnsharedInv

(* A swap hands each object on to one edge, in place of the one it was of. *)
LEMMA UnsharedSwap ==
  ASSUME EdgesInv, AttrsInv, UnsharedInv, ReAddEdges = FALSE,
         NEW e \in Data(Edges), Swap(e)
  PROVE  UnsharedInv'
<1> DEFINE new == SwapTarget(e, SwapSource(e))
           old == DOMAIN new
           E == {new[x] : x \in old}
           Before(y) == CHOOSE x \in old : new[x] = y
           handed == [y \in E |-> attrs[Before(y)]]
<1>1. /\ E \cap DOMAIN attrs = {}
      /\ attrs' = AttrsWith(handed)
      /\ operands' = OperandsWith(E, old)
  BY DEF Swap, SwapSource
<1>2. SwapSource(e) \in Data(operands[e.prod])
  <2>1. Cardinality(Data(operands[e.prod])) = 1
    BY DEF Swap
  <2> QED BY <2>1, FS_EmptySet DEF SwapSource
<1>3. old \subseteq Edges
  <2>1. e.prod \in Ids /\ e.cons \in Ids /\ e \in Edges
    BY EndsAreNodes DEF Data, Between, Edge
  <2>2. old = {e, SwapSource(e)} \cup Data(users[e.cons])
    BY DEF SwapTarget
  <2>3. \A x \in Data(users[e.cons]) : x.cons \in Ids /\ x \in operands[x.cons]
    BY <2>1 DEF Data, EdgesInv, EdgeTypes, EdgesMirrored, Mirrored, Edge
  <2>4. Data(users[e.cons]) \subseteq Edges
    BY <2>3 DEF Edges
  <2>5. SwapSource(e) \in Edges
    BY <1>2, <2>1 DEF Edges, Data
  <2> QED BY <2>1, <2>2, <2>4, <2>5
<1>4. \A y \in E : Before(y) \in old /\ new[Before(y)] = y
  <2> HIDE DEF new
  <2> QED OBVIOUS
<1>5. Edges \subseteq DOMAIN attrs
  BY EdgesHaveAttrs
<1>6. Edges' \subseteq (Edges \ old) \cup E
  <2> HIDE DEF E, old
  <2> QED BY <1>1 DEF Edges, OperandsWith
<1> HIDE DEF new, old, E, Before
<1>7. DOMAIN attrs' = DOMAIN attrs \cup E
  BY <1>1 DEF AttrsWith
<1>8. \A k \in DOMAIN attrs : attrs'[k] = attrs[k]
  BY <1>1 DEF AttrsWith
<1>9. \A y \in E : attrs'[y] = attrs[Before(y)] /\ Before(y) \in Edges
  BY <1>1, <1>3, <1>4 DEF AttrsWith
<1>10. \A k \in DOMAIN attrs' : attrs'[k] \in DOMAIN attrs'
  BY <1>5, <1>7, <1>8, <1>9 DEF UnsharedInv
<1>11. ASSUME NEW f \in Edges', NEW g \in Edges', attrs'[f] = attrs'[g] PROVE f = g
  <2>1. CASE f \in Edges \ old /\ g \in Edges \ old
    BY <1>5, <1>8, <1>11, <2>1 DEF UnsharedInv
  <2>2. CASE f \in Edges \ old /\ g \in E
    BY <1>4, <1>5, <1>8, <1>9, <1>11, <2>2 DEF UnsharedInv
  <2>3. CASE f \in E /\ g \in Edges \ old
    BY <1>4, <1>5, <1>8, <1>9, <1>11, <2>3 DEF UnsharedInv
  <2>4. CASE f \in E /\ g \in E
    <3>1. Before(f) = Before(g)
      BY <1>9, <1>11, <2>4 DEF UnsharedInv
    <3> QED BY <1>4, <2>4, <3>1
  <2> QED BY <1>6, <2>1, <2>2, <2>3, <2>4
<1> QED BY <1>10, <1>11 DEF UnsharedInv

(* Every operation keeps attribute objects unshared.                       *)
LEMMA UnsharedStep ==
  ASSUME EdgesInv, AttrsInv, UnsharedInv, ReAddEdges = FALSE, [Next]_vars
  PROVE  UnsharedInv'
<1>1. ASSUME UNCHANGED <<operands, attrs>> PROVE UnsharedInv'
  BY <1>1, UnsharedFewer
<1>2. ASSUME NEW p \in nodes, NEW c \in nodes, NEW t \in {"data", "control"}, AddEdge(p, c, t)
      PROVE  UnsharedInv'
  <2> DEFINE e == [prod |-> p, cons |-> c, port |-> NextPort(c), type |-> t]
  <2>1. /\ operands' = OperandsWith({e}, {})
        /\ attrs' = AttrsWith(DefaultAttrs({e}))
        /\ e \notin DOMAIN attrs
    BY <1>2 DEF AddEdge
  <2> HIDE DEF e
  <2>2. \A m \in Ids : operands'[m] \subseteq operands[m] \cup {e}
    BY <2>1 DEF OperandsWith
  <2>3. {e} \cap DOMAIN attrs = {}
    BY <2>1
  <2> QED BY <2>1, <2>2, <2>3, UnsharedAdded
<1>3. ASSUME NEW e \in Edges, RemoveEdge(e) PROVE UnsharedInv'
  <2>1. attrs' = attrs /\ \A m \in Ids : operands'[m] \subseteq operands[m]
    BY <1>3 DEF RemoveEdge, OperandsWith
  <2> QED BY <2>1, UnsharedFewer
<1>4. ASSUME NEW n \in nodes, RemoveNode(n) PROVE UnsharedInv'
  <2>1. attrs' = attrs /\ \A m \in Ids : operands'[m] \subseteq operands[m]
    BY <1>4 DEF RemoveNode, WithoutNode
  <2> QED BY <2>1, UnsharedFewer
<1>5. ASSUME NEW e \in Data(Edges), NEW n \in nodes, NEW o \in BOOLEAN,
             InsertNodeOnEdge(e, n, o)
      PROVE  UnsharedInv'
  <2>1. /\ operands' = OperandsWith(InsertedEdges(e, n), {e})
        /\ attrs' = AttrsWith(DefaultAttrs(InsertedEdges(e, n)))
        /\ InsertedEdges(e, n) \cap DOMAIN attrs = {}
    BY <1>5 DEF InsertNodeOnEdge, InsertedEdges
  <2>2. \A m \in Ids : operands'[m] \subseteq operands[m] \cup InsertedEdges(e, n)
    BY <2>1 DEF OperandsWith
  <2> QED BY <2>1, <2>2, UnsharedAdded
<1>6. ASSUME NEW n \in nodes, BypassNode(n) PROVE UnsharedInv'
  <2> DEFINE src == CHOOSE e \in Data(operands[n]) : TRUE
             E == BypassEdges(src, n)
  <2>1. CASE Cardinality(Data(operands[n])) # 1
    BY <1>1, <1>6, <2>1 DEF BypassNode, maps
  <2>2. CASE Cardinality(Data(operands[n])) = 1
    <3>1. /\ attrs' = AttrsWith(DefaultAttrs(E))
          /\ \A e \in E \cap DOMAIN attrs : OwnsAttrs(e)
          /\ \/ operands' = OperandsWith(E, {})
             \/ operands' = WithoutNode(n, OperandsWith(E, {}), OperandsWith(E, {}), UsersWith(E, {}))
      BY <1>6, <2>2 DEF BypassNode, BypassEdges
    <3> HIDE DEF E
    <3>2. \A m \in Ids : operands'[m] \subseteq operands[m] \cup E
      BY <3>1 DEF OperandsWith, WithoutNode
    <3> QED BY <3>1, <3>2, UnsharedAdded
  <2> QED BY <2>1, <2>2
<1> QED BY <1>1, <1>2, <1>3, <1>4, <1>5, <1>6, UnsharedSwap
        DEF Next, AddNode, UpdateNodeName, AppendTm, maps, vars

-----------------------------------------------------------------------------
(* What arrives through nops.                                              *)

(* What holds at 0 and is handed on up to n holds everywhere in between.   *)
LEMMA StepByStep ==
  ASSUME NEW n \in Nat, NEW P, 0 \in P,
         \A j \in 0..n : j \in P /\ j < n => j + 1 \in P
  PROVE  \A j \in 0..n : j \in P
<1> DEFINE T == {j \in 0..n : j \notin P}
<1>1. T = {}
  <2> SUFFICES ASSUME T # {} PROVE FALSE
    OBVIOUS
  <2>1. T \in SUBSET Nat
    OBVIOUS
  <2>2. PICK x \in T : \A y \in T : x <= y
    <3> HIDE DEF T
    <3> QED BY <2>1, Least
  <2>3. x \in 0..n /\ x \notin P /\ x # 0
    BY <2>2
  <2>4. x - 1 \in 0..n /\ x - 1 < n /\ (x - 1) + 1 = x /\ ~(x <= x - 1)
    BY <2>3
  <2>5. x - 1 \in P
    BY <2>2, <2>4
  <2> QED BY <2>3, <2>4, <2>5
<1> QED BY <1>1

(* A recursion on numbers whose values stay in S has a solution.           *)
IsIteration(f, S, x, F, n) ==
  f \in [0..n -> S] /\ f[0] = x /\ \A j \in 1..n : f[j] = F[f[j - 1]]

LEMMA Iterates ==
  ASSUME NEW S, NEW x \in S, NEW F \in [S -> S], NEW n \in Nat
  PROVE  \E f : IsIteration(f, S, x, F, n)
<1> DEFINE P == {m \in 0..n : \E f : IsIteration(f, S, x, F, m)}
<1>1. 0 \in P
  <2> DEFINE z == [j \in 0..0 |-> x]
  <2>1. z \in [0..0 -> S] /\ z[0] = x
    OBVIOUS
  <2>2. \A j \in 1..0 : z[j] = F[z[j - 1]]
    OBVIOUS
  <2> HIDE DEF z
  <2> QED BY <2>1, <2>2 DEF IsIteration
<1>2. ASSUME NEW m \in 0..n, m \in P, m < n PROVE m + 1 \in P
  <2>1. PICK f : f \in [0..m -> S] /\ f[0] = x /\ \A j \in 1..m : f[j] = F[f[j - 1]]
    BY <1>2 DEF IsIteration
  <2> DEFINE g == [j \in 0..(m + 1) |-> IF j = m + 1 THEN F[f[m]] ELSE f[j]]
  <2>2. F[f[m]] \in S
    BY <1>2, <2>1
  <2>3. m \in Nat /\ m + 1 # 0 /\ m + 1 \in 0..n
    BY <1>2
  <2>4. \A j \in 0..(m + 1) : j # m + 1 => j \in 0..m /\ g[j] = f[j]
    BY <2>3
  <2>5. g \in [0..(m + 1) -> S] /\ g[m + 1] = F[f[m]]
    BY <2>1, <2>2, <2>3
  <2>6. g[0] = x
    BY <2>1, <2>3, <2>4
  <2>7. ASSUME NEW j \in 1..(m + 1) PROVE g[j] = F[g[j - 1]]
    <3> HIDE DEF g
    <3>1. CASE j = m + 1
      BY <2>3, <2>4, <2>5, <3>1
    <3>2. CASE j # m + 1
      BY <2>1, <2>3, <2>4, <3>2
    <3> QED BY <3>1, <3>2
  <2>8. IsIteration(g, S, x, F, m + 1)
    <3> HIDE DEF g
    <3> QED BY <2>5, <2>6, <2>7 DEF IsIteration
  <2> QED BY <2>3, <2>8
<1>3. n \in P
  <2>1. \A m \in 0..n : m \in P /\ m < n => m + 1 \in P
    BY <1>2
  <2>2. \A m \in 0..n : m \in P
    <3> HIDE DEF P
    <3> QED BY <1>1, <2>1, StepByStep
  <2> QED BY <2>2
<1> QED BY <1>3

(* TMs are in sequences.                                                   *)
TmsTyped == \A k \in DOMAIN tms : tms[k] \in Seq(TMs)

(* What may arrive over an edge: a source and the TMs on the way.          *)
Arrivals == Ids \X Seq(TMs)

(* Nops with a source; their source, when it is their only one; those      *)
(* whose source is in B.                                                   *)
Looks == {m \in Nops : Data(operands[m]) # {}}

Source(m) == (CHOOSE x \in Data(operands[m]) : TRUE).prod

Below(B) == {m \in Looks : Source(m) \in B}

Got(w) ==
  {<<e.cons, e.port, w[e]>> : e \in {x \in Data(Edges) : x.cons \notin Nops}}

(* One step of the walk upwards keeps its values.                          *)
LEMMA OnwardType ==
  ASSUME EdgesInv, AttrsInv, TmsTyped, NEW w \in [Data(Edges) -> Arrivals]
  PROVE  Onward(w) \in [Data(Edges) -> Arrivals]
<1> SUFFICES ASSUME NEW e \in Data(Edges) PROVE Onward(w)[e] \in Arrivals
  BY DEF Onward
<1>1. e.prod \in Ids /\ Tms(e) \in Seq(TMs)
  <2>1. e \in Edges /\ e \in DOMAIN attrs /\ e.prod \in Ids
    BY EndsAreNodes DEF Data, Edges, AttrsInv, Between, Edge
  <2> QED BY <2>1 DEF AttrsInv, TmsTyped, Tms
<1> DEFINE above == Data(operands[e.prod])
           up == w[CHOOSE x \in above : TRUE]
<1>2. CASE e.prod \in Nops /\ above # {}
  <2>1. (CHOOSE x \in above : TRUE) \in Data(Edges)
    BY <1>1, <1>2 DEF Data, Edges
  <2>2. up \in Arrivals
    BY <2>1
  <2> HIDE DEF above
  <2>3. Onward(w)[e] = <<up[1], up[2] \o Tms(e)>>
    BY <1>2 DEF Onward, above
  <2> HIDE DEF up
  <2>4. up[2] \o Tms(e) \in Seq(TMs) /\ up[1] \in Ids
    BY <1>1, <2>2 DEF Arrivals
  <2> DEFINE s == up[1]
             t == up[2] \o Tms(e)
  <2>5. s \in Ids /\ t \in Seq(TMs) /\ Onward(w)[e] = <<s, t>>
    BY <2>3, <2>4
  <2> HIDE DEF s, t
  <2>6. <<s, t>> \in Ids \X Seq(TMs)
    BY <2>5
  <2> QED BY <2>5, <2>6 DEF Arrivals
<1>3. CASE ~(e.prod \in Nops /\ above # {})
  <2>1. Onward(w)[e] = <<e.prod, Tms(e)>>
    BY <1>3 DEF Onward
  <2> QED BY <1>1, <2>1 DEF Arrivals
<1> QED BY <1>2, <1>3

(* The walk: as many steps as there are nodes.                             *)
IsWalkOf(r, n) ==
  /\ Arrives = Got(r[n])
  /\ \A j \in 0..(n - 1) : r[j + 1] = Onward(r[j])
  /\ \A j \in 0..n : r[j] \in [Data(Edges) -> Arrivals]
  /\ r[0] = [e \in Data(Edges) |-> <<e.prod, Tms(e)>>]

LEMMA Walks ==
  ASSUME EdgesInv, AttrsInv, TmsTyped, Cardinality(nodes) \in Nat
  PROVE  \E r : IsWalkOf(r, Cardinality(nodes))
<1> DEFINE n == Cardinality(nodes)
           S == [Data(Edges) -> Arrivals]
           x == [e \in Data(Edges) |-> <<e.prod, Tms(e)>>]
           F == [w \in S |-> Onward(w)]
<1>1. x \in S
  <2> SUFFICES ASSUME NEW e \in Data(Edges) PROVE <<e.prod, Tms(e)>> \in Arrivals
    OBVIOUS
  <2>1. e \in Edges /\ e \in DOMAIN attrs /\ e.prod \in Ids
    BY EndsAreNodes DEF Data, Edges, AttrsInv, Between, Edge
  <2> QED BY <2>1 DEF AttrsInv, TmsTyped, Tms, Arrivals
<1>2. F \in [S -> S]
  BY OnwardType
<1>3. PICK f : IsIteration(f, S, x, F, n)
  <2>1. n \in Nat
    OBVIOUS
  <2> HIDE DEF S, x, F, n
  <2> QED BY <1>1, <1>2, <2>1, Iterates
<1>4. f \in [0..n -> S] /\ f[0] = x /\ \A j \in 1..n : f[j] = F[f[j - 1]]
  BY <1>3 DEF IsIteration
<1>5. \A j \in 1..n : f[j] = Onward(f[j - 1])
  <2> SUFFICES ASSUME NEW j \in 1..n PROVE f[j] = Onward(f[j - 1])
    OBVIOUS
  <2>1. j - 1 \in 0..n
    OBVIOUS
  <2>2. f[j - 1] \in S /\ f[j] = F[f[j - 1]]
    BY <1>4, <2>1
  <2> HIDE DEF S
  <2> QED BY <2>2
<1> HIDE DEF x, F
<1>6. f = [j \in 0..n |-> IF j = 0 THEN x ELSE Onward(f[j - 1])]
  BY <1>4, <1>5
<1> DEFINE r == CHOOSE g : g = [j \in 0..n |-> IF j = 0 THEN x ELSE Onward(g[j - 1])]
<1>7. r = [j \in 0..n |-> IF j = 0 THEN x ELSE Onward(r[j - 1])]
  BY <1>6
<1>8. Arrives = Got(r[n])
  BY DEF Arrives, Got, x
<1> HIDE DEF r
<1>9. r[0] = x
  BY <1>7
<1>10. \A j \in 0..(n - 1) : r[j + 1] = Onward(r[j])
  <2> SUFFICES ASSUME NEW j \in 0..(n - 1) PROVE r[j + 1] = Onward(r[j])
    OBVIOUS
  <2>1. j + 1 \in 0..n /\ j + 1 # 0 /\ (j + 1) - 1 = j
    OBVIOUS
  <2> QED BY <1>7, <2>1
<1>11. \A j \in 0..n : r[j] \in S
  <2> DEFINE P == {j \in 0..n : r[j] \in S}
  <2>1. 0 \in P
    BY <1>1, <1>9
  <2>2. \A j \in 0..n : j \in P /\ j < n => j + 1 \in P
    BY <1>10, OnwardType
  <2>3. \A j \in 0..n : j \in P
    <3>1. n \in Nat
      OBVIOUS
    <3> HIDE DEF P, n
    <3> QED BY <2>1, <2>2, <3>1, StepByStep
  <2> QED BY <2>3
<1> QED BY <1>8, <1>9, <1>10, <1>11 DEF IsWalkOf, x

(* Where the source of a nop is settled, so is what the nop hands on.      *)
Settled(r, d, B) == \A e \in Data(Edges) : e.prod \notin B => Onward(r[d])[e] = r[d][e]

(* The edge a nop is looked through: one of its operands.                  *)
LEMMA SourceEdge ==
  ASSUME EdgesInv, NEW m \in Looks
  PROVE  LET x == CHOOSE y \in Data(operands[m]) : TRUE
         IN  x \in Data(operands[m]) /\ x \in Data(Edges) /\ Source(m) = x.prod
             /\ x.prod \in nodes
<1> DEFINE x == CHOOSE y \in Data(operands[m]) : TRUE
<1>1. x \in Data(operands[m]) /\ m \in nodes
  BY DEF Looks, Nops
<1>2. m \in Ids /\ Source(m) = x.prod
  BY <1>1 DEF EdgesInv, Source
<1> HIDE DEF x
<1>3. x \in Data(Edges)
  BY <1>1, <1>2 DEF Data, Edges
<1>4. x.prod \in nodes
  BY <1>3, EndsAreNodes DEF Data, Between
<1> QED BY <1>1, <1>2, <1>3, <1>4 DEF x

(* The two cases of the walk.                                              *)
LEMMA OnwardIs ==
  ASSUME EdgesInv, NEW w, NEW e \in Data(Edges)
  PROVE  /\ e.prod \notin Looks => Onward(w)[e] = <<e.prod, Tms(e)>>
         /\ e.prod \in Looks =>
              LET x == CHOOSE y \in Data(operands[e.prod]) : TRUE
              IN  Onward(w)[e] = <<w[x][1], w[x][2] \o Tms(e)>>
BY DEF Onward, Looks

(* The walk goes up one node at a time.                                    *)
LEMMA SettlesOn ==
  ASSUME EdgesInv, NEW r, NEW d \in Nat, NEW B, Settled(r, d, B),
         r[d + 1] = Onward(r[d])
  PROVE  Settled(r, d + 1, Below(B))
<1> SUFFICES ASSUME NEW e \in Data(Edges), e.prod \notin Below(B)
             PROVE  Onward(r[d + 1])[e] = r[d + 1][e]
  BY DEF Settled
<1> DEFINE x == CHOOSE y \in Data(operands[e.prod]) : TRUE
<1>1. CASE e.prod \notin Looks
  BY <1>1, OnwardIs
<1>2. CASE e.prod \in Looks
  <2>1. x \in Data(Edges) /\ x.prod \notin B
    BY <1>2, SourceEdge DEF Below
  <2>2. r[d + 1][x] = r[d][x]
    BY <2>1 DEF Settled
  <2>3. /\ Onward(r[d + 1])[e] = <<r[d + 1][x][1], r[d + 1][x][2] \o Tms(e)>>
        /\ Onward(r[d])[e] = <<r[d][x][1], r[d][x][2] \o Tms(e)>>
    BY <1>2, OnwardIs
  <2> HIDE DEF x
  <2> QED BY <2>2, <2>3
<1> QED BY <1>1, <1>2

(* On a graph without cycles it leaves a node of B behind at every step.   *)
LEMMA BelowShrinks ==
  ASSUME EdgesInv, Acyclic, NEW B \in SUBSET Looks, B # {}, Below(B) \subseteq B
  PROVE  Below(B) # B
<1> SUFFICES ASSUME Below(B) = B PROVE FALSE
  OBVIOUS
<1>1. ASSUME NEW m \in B PROVE \E x \in Data(operands[m]) : x.prod \in B
  <2>1. m \in Looks /\ Source(m) \in B
    BY DEF Below
  <2> QED BY <2>1, SourceEdge
<1>2. B \in SUBSET nodes
  BY DEF Looks, Nops
<1>3. Cycle(B, operands)
  BY <1>1 DEF Cycle
<1> QED BY <1>2, <1>3, NoCycle

(* A graph has finitely many nodes.                                        *)
LEMMA NodesFinite ==
  ASSUME EdgesInv
  PROVE  IsFiniteSet(nodes) /\ Cardinality(nodes) \in Nat
<1>1. IsFiniteSet(Ids)
  BY FS_Interval, GraphAssumption DEF Ids
<1>2. IsFiniteSet(nodes)
  BY <1>1, FS_Subset DEF EdgesInv
<1> QED BY <1>2, FS_CardinalityType

(* What is left to settle after d of n steps.                              *)
Left(r, d, n, B) ==
  /\ B \in SUBSET Looks
  /\ Below(B) \subseteq B
  /\ Cardinality(B) <= n - d
  /\ Settled(r, d, B)

LEMMA LeftShrinks ==
  ASSUME EdgesInv, Acyclic, NEW n \in Nat, NEW d \in 0..(n - 1), NEW r,
         r[d + 1] = Onward(r[d]), NEW B, Left(r, d, n, B)
  PROVE  Left(r, d + 1, n, Below(B))
<1>1. /\ B \in SUBSET Looks /\ Below(B) \subseteq B
      /\ Cardinality(B) <= n - d /\ Settled(r, d, B)
  BY DEF Left
<1>2. Settled(r, d + 1, Below(B))
  <2>1. d \in Nat
    OBVIOUS
  <2> QED BY <1>1, <2>1, SettlesOn
<1>3. Below(B) \in SUBSET Looks /\ Below(Below(B)) \subseteq Below(B)
  BY <1>1 DEF Below
<1>4. IsFiniteSet(B)
  <2>1. B \in SUBSET nodes
    BY <1>1 DEF Looks, Nops
  <2> QED BY <2>1, NodesFinite, FS_Subset
<1>5. Cardinality(Below(B)) <= n - (d + 1)
  <2>1. CASE B = {}
    <3>1. Below(B) = {}
      BY <2>1 DEF Below
    <3>2. Cardinality(Below(B)) = 0
      BY <3>1, FS_EmptySet
    <3> QED BY <3>2
  <2>2. CASE B # {}
    <3>1. Below(B) # B
      BY <1>1, <2>2, BelowShrinks
    <3>2. Below(B) \in SUBSET B
      BY <1>1
    <3>3. /\ Cardinality(Below(B)) <= Cardinality(B)
          /\ Cardinality(Below(B)) # Cardinality(B)
      BY <1>4, <3>1, <3>2, FS_Subset
    <3>4. Cardinality(Below(B)) \in Nat /\ Cardinality(B) \in Nat
      BY <1>4, <3>2, FS_Subset, FS_CardinalityType
    <3> QED BY <1>1, <3>3, <3>4
  <2> QED BY <2>1, <2>2
<1> QED BY <1>2, <1>3, <1>5 DEF Left

(* After as many steps as there are nodes nothing is left.                 *)
LEMMA WalkSettles ==
  ASSUME EdgesInv, Acyclic, NEW r, IsWalkOf(r, Cardinality(nodes))
  PROVE  \A e \in Data(Edges) : Onward(r[Cardinality(nodes)])[e] = r[Cardinality(nodes)][e]
<1> DEFINE n == Cardinality(nodes)
           P == {d \in 0..n : \E B : Left(r, d, n, B)}
<1>1. /\ \A j \in 0..(n - 1) : r[j + 1] = Onward(r[j])
      /\ r[0] = [e \in Data(Edges) |-> <<e.prod, Tms(e)>>]
  BY DEF IsWalkOf
<1>2. n \in Nat
  BY NodesFinite
<1> HIDE DEF n
<1>3. 0 \in P
  <2>1. Settled(r, 0, Looks)
    BY <1>1, OnwardIs DEF Settled
  <2>2. Looks \in SUBSET nodes
    BY DEF Looks, Nops
  <2>3. Cardinality(Looks) <= n - 0
    <3>1. Cardinality(Looks) <= Cardinality(nodes) /\ Cardinality(Looks) \in Nat
      BY <2>2, NodesFinite, FS_Subset, FS_CardinalityType
    <3> QED BY <1>2, <3>1 DEF n
  <2>4. Left(r, 0, n, Looks)
    BY <2>1, <2>3 DEF Left, Below
  <2> QED BY <1>2, <2>4
<1>4. ASSUME NEW d \in 0..n, d \in P, d < n PROVE d + 1 \in P
  <2>1. PICK B : Left(r, d, n, B)
    BY <1>4
  <2>2. d \in 0..(n - 1) /\ d + 1 \in 0..n
    BY <1>2, <1>4
  <2>3. Left(r, d + 1, n, Below(B))
    BY <1>1, <1>2, <2>1, <2>2, LeftShrinks
  <2> QED BY <2>2, <2>3
<1>5. \A d \in 0..n : d \in P
  <2> HIDE DEF P
  <2> QED BY <1>2, <1>3, <1>4, StepByStep
<1>6. PICK B : Left(r, n, n, B)
  BY <1>2, <1>5
<1>7. B = {}
  <2>1. B \in SUBSET nodes /\ Cardinality(B) <= n - n
    BY <1>6 DEF Left, Looks, Nops
  <2>2. IsFiniteSet(B) /\ Cardinality(B) \in Nat
    BY <2>1, NodesFinite, FS_Subset, FS_CardinalityType
  <2>3. Cardinality(B) = 0
    BY <1>2, <2>1, <2>2
  <2> QED BY <2>2, <2>3, FS_EmptySet
<1> QED BY <1>6, <1>7 DEF Left, Settled, n

(* A flow: what arrives over every edge, nops looked through.              *)
IsFlow(W) ==
  /\ W \in [Data(Edges) -> Arrivals]
  /\ \A e \in Data(Edges) :
       /\ e.prod \notin Looks => W[e] = <<e.prod, Tms(e)>>
       /\ e.prod \in Nops =>
            \A y \in Data(operands[e.prod]) : W[e] = <<W[y][1], W[y][2] \o Tms(e)>>

(* A nop has one data operand at most.                                     *)
UnaryNops == \A m \in Nops : \A x, y \in Data(operands[m]) : x = y

(* The walk ends in a flow.                                                *)
LEMMA WalkIsFlow ==
  ASSUME EdgesInv, Acyclic, UnaryNops, NEW r, IsWalkOf(r, Cardinality(nodes))
  PROVE  IsFlow(r[Cardinality(nodes)])
<1> DEFINE W == r[Cardinality(nodes)]
<1>1. W \in [Data(Edges) -> Arrivals]
  <2>1. Cardinality(nodes) \in 0..Cardinality(nodes)
    BY NodesFinite
  <2> QED BY <2>1 DEF IsWalkOf
<1>2. \A e \in Data(Edges) : Onward(W)[e] = W[e]
  BY WalkSettles
<1> HIDE DEF W
<1>3. ASSUME NEW e \in Data(Edges), e.prod \notin Looks PROVE W[e] = <<e.prod, Tms(e)>>
  BY <1>2, <1>3, OnwardIs
<1>4. ASSUME NEW e \in Data(Edges), e.prod \in Nops, NEW y \in Data(operands[e.prod])
      PROVE  W[e] = <<W[y][1], W[y][2] \o Tms(e)>>
  <2> DEFINE x == CHOOSE z \in Data(operands[e.prod]) : TRUE
  <2>1. e.prod \in Looks
    BY <1>4 DEF Looks
  <2>2. x = y
    BY <1>4 DEF UnaryNops
  <2>3. Onward(W)[e] = <<W[x][1], W[x][2] \o Tms(e)>>
    BY <2>1, OnwardIs
  <2> HIDE DEF x
  <2> QED BY <1>2, <2>2, <2>3
<1>5. IsFlow(W)
  BY <1>1, <1>3, <1>4 DEF IsFlow
<1> QED BY <1>5 DEF W

(* A graph without cycles has one flow.                                    *)
LEMMA OneFlow ==
  ASSUME EdgesInv, Acyclic, NEW V, NEW W, IsFlow(V), IsFlow(W)
  PROVE  V = W
<1> DEFINE D == {m \in nodes : \E e \in Data(Edges) : e.prod = m /\ V[e] # W[e]}
<1>1. ASSUME NEW m \in D PROVE \E y \in Data(operands[m]) : y.prod \in D
  <2>1. PICK e \in Data(Edges) : e.prod = m /\ V[e] # W[e]
    OBVIOUS
  <2>2. m \in Looks
    BY <2>1 DEF IsFlow
  <2> DEFINE x == CHOOSE z \in Data(operands[m]) : TRUE
  <2>3. x \in Data(operands[m]) /\ x \in Data(Edges) /\ x.prod \in nodes
    BY <2>2, SourceEdge
  <2> HIDE DEF x
  <2>4. V[x] # W[x]
    <3>1. e.prod \in Nops /\ x \in Data(operands[e.prod])
      BY <2>1, <2>2, <2>3 DEF Looks
    <3>2. V[e] = <<V[x][1], V[x][2] \o Tms(e)>> /\ W[e] = <<W[x][1], W[x][2] \o Tms(e)>>
      BY <3>1 DEF IsFlow
    <3> QED BY <2>1, <3>2
  <2> QED BY <2>3, <2>4
<1>2. D = {}
  <2>1. D \in SUBSET nodes
    OBVIOUS
  <2>2. D # {} => Cycle(D, operands)
    <3> HIDE DEF D
    <3> QED BY <1>1 DEF Cycle
  <2> HIDE DEF D
  <2> QED BY <2>1, <2>2, NoCycle
<1>3. ASSUME NEW e \in Data(Edges) PROVE V[e] = W[e]
  <2>1. e.prod \in nodes
    BY EndsAreNodes DEF Data, Between
  <2> QED BY <1>2, <2>1
<1>4. V \in [Data(Edges) -> Arrivals] /\ W \in [Data(Edges) -> Arrivals]
  BY DEF IsFlow
<1> QED BY <1>3, <1>4

(* What arrives is what the flow says.                                     *)
FlowInv == EdgesInv /\ AttrsInv /\ TmsTyped /\ Acyclic /\ UnaryNops

LEMMA FlowExists == FlowInv => \E W : IsFlow(W) /\ Arrives = Got(W)
<1> SUFFICES ASSUME FlowInv PROVE \E W : IsFlow(W) /\ Arrives = Got(W)
  OBVIOUS
<1>1. PICK r : IsWalkOf(r, Cardinality(nodes))
  BY NodesFinite, Walks DEF FlowInv
<1>2. IsFlow(r[Cardinality(nodes)])
  BY <1>1, WalkIsFlow DEF FlowInv
<1>3. Arrives = Got(r[Cardinality(nodes)])
  BY <1>1 DEF IsWalkOf
<1> QED BY <1>2, <1>3

LEMMA FlowArrives == FlowInv => \A W : IsFlow(W) => Arrives = Got(W)
<1> SUFFICES ASSUME FlowInv, NEW W, IsFlow(W) PROVE Arrives = Got(W)
  OBVIOUS
<1>1. PICK V : IsFlow(V) /\ Arrives = Got(V)
  BY FlowExists
<1>2. V = W
  BY <1>1, OneFlow DEF FlowInv
<1> QED BY <1>1, <1>2

-----------------------------------------------------------------------------
(* TMs stay sequences of TMs.                                              *)

(* The TMs of an edge that is there.                                       *)
LEMMA TmsOfEdge ==
  ASSUME AttrsInv, TmsTyped, NEW e \in Edges
  PROVE  Tms(e) \in Seq(TMs) /\ attrs[e] \in DOMAIN tms /\ e \in DOMAIN attrs
<1>1. e \in DOMAIN attrs
  BY EdgesHaveAttrs
<1> QED BY <1>1 DEF AttrsInv, TmsTyped, Tms

(* New objects have none.                                                  *)
LEMMA NewTms ==
  ASSUME TmsTyped, NEW E
  PROVE  /\ DOMAIN TmsWith(E) = DOMAIN tms \cup E
         /\ \A k \in DOMAIN TmsWith(E) : TmsWith(E)[k] \in Seq(TMs)
         /\ \A k \in DOMAIN tms : TmsWith(E)[k] = tms[k]
<1>1. <<>> \in Seq(TMs)
  OBVIOUS
<1> QED BY <1>1 DEF TmsWith, TmsTyped

(* Every operation keeps them.                                             *)
LEMMA TmsStep ==
  ASSUME EdgesInv, AttrsInv, TmsTyped, [Next]_vars
  PROVE  TmsTyped'
<1>1. ASSUME tms' = tms PROVE TmsTyped'
  BY <1>1 DEF TmsTyped
<1>2. ASSUME NEW p \in nodes, NEW c \in nodes, NEW t \in {"data", "control"}, AddEdge(p, c, t)
      PROVE  TmsTyped'
  <2> DEFINE E == {[prod |-> p, cons |-> c, port |-> NextPort(c), type |-> t]} \ DOMAIN attrs
  <2>1. tms' = TmsWith(E)
    BY <1>2 DEF AddEdge
  <2> HIDE DEF E
  <2> QED BY <2>1, NewTms DEF TmsTyped
<1>3. ASSUME NEW e \in Edges, NEW t \in TMs, AppendTm(e, t) PROVE TmsTyped'
  <2>1. tms' = [tms EXCEPT ![attrs[e]] = Append(@, t)]
    BY <1>3 DEF AppendTm
  <2>2. attrs[e] \in DOMAIN tms /\ tms[attrs[e]] \in Seq(TMs)
    BY TmsOfEdge DEF Tms
  <2>3. Append(tms[attrs[e]], t) \in Seq(TMs)
    BY <2>2
  <2> QED BY <2>1, <2>2, <2>3 DEF TmsTyped
<1>4. ASSUME NEW e \in Data(Edges), NEW n \in nodes, NEW o \in BOOLEAN,
             InsertNodeOnEdge(e, n, o)
      PROVE  TmsTyped'
  <2> DEFINE X == {attrs'[Upper(e, n)], attrs'[Lower(e, n)]} \cup InheritedControl(e, n)
  <2>1. /\ DOMAIN tms' = DOMAIN TmsWith(X)
        /\ \A k \in DOMAIN tms' : tms'[k] \in {<<>>, Tms(e), TmsWith(X)[k]}
    BY <1>4 DEF InsertNodeOnEdge, TmsInserted
  <2>2. Tms(e) \in Seq(TMs) /\ <<>> \in Seq(TMs)
    BY TmsOfEdge DEF Data
  <2> HIDE DEF X
  <2> QED BY <2>1, <2>2, NewTms DEF TmsTyped
<1>5. ASSUME NEW n \in nodes, BypassNode(n) PROVE TmsTyped'
  <2> DEFINE src == CHOOSE e \in Data(operands[n]) : TRUE
             E == BypassEdges(src, n)
             X == {attrs'[e] : e \in E}
             to(k) == {u \in Data(users[n]) : attrs'[Bypassed(src, u)] = k}
  <2>1. CASE Cardinality(Data(operands[n])) # 1
    BY <1>1, <1>5, <2>1 DEF BypassNode, maps
  <2>2. CASE Cardinality(Data(operands[n])) = 1
    <3>1. src \in Data(operands[n]) /\ n \in Ids
      BY <2>2, FS_EmptySet DEF EdgesInv
    <3> HIDE DEF src
    <3>2. tms' = TmsBypassed(n, src, E, attrs')
      BY <1>5, <2>2 DEF BypassNode, BypassEdges, src
    <3> HIDE DEF E
    <3>3. /\ DOMAIN tms' = DOMAIN TmsWith(X)
          /\ \A k \in DOMAIN tms' :
               tms'[k] = IF to(k) # {} THEN Tms(src) \o Tms(CHOOSE u \in to(k) : TRUE)
                         ELSE TmsWith(X)[k]
      BY <3>2 DEF TmsBypassed
    <3> HIDE DEF X
    <3>4. ASSUME NEW k \in DOMAIN tms', to(k) # {} PROVE tms'[k] \in Seq(TMs)
      <4> DEFINE u == CHOOSE u \in to(k) : TRUE
      <4>1. u \in Data(users[n])
        BY <3>4
      <4> HIDE DEF u
      <4>2. u \in Edges /\ src \in Edges
        <5>1. u.cons \in Ids /\ u \in operands[u.cons]
          BY <3>1, <4>1 DEF Data, EdgesInv, EdgeTypes, EdgesMirrored, Mirrored, Edge
        <5> QED BY <3>1, <5>1 DEF Data, Edges
      <4>3. Tms(src) \in Seq(TMs) /\ Tms(u) \in Seq(TMs)
        BY <4>2, TmsOfEdge
      <4>4. Tms(src) \o Tms(u) \in Seq(TMs)
        BY <4>3
      <4> QED BY <3>3, <3>4, <4>4 DEF u
    <3>5. ASSUME NEW k \in DOMAIN tms', to(k) = {} PROVE tms'[k] \in Seq(TMs)
      BY <3>3, <3>5, NewTms
    <3> QED BY <3>4, <3>5 DEF TmsTyped
  <2> QED BY <2>1, <2>2
<1> QED BY <1>1, <1>2, <1>3, <1>4, <1>5
        DEF Next, AddNode, RemoveEdge, RemoveNode, UpdateNodeName, Swap, maps, vars

-----------------------------------------------------------------------------
(* Nops stay unary.                                                        *)

(* The data operands after insert_node_on_edge.                            *)
LEMMA InsertData ==
  ASSUME EdgesInv, NEW e \in Data(Edges), NEW n \in nodes, NEW out \in BOOLEAN,
         InsertNodeOnEdge(e, n, out)
  PROVE  /\ e \in Data(operands[e.cons]) /\ e.prod \in nodes /\ e.cons \in nodes
         /\ n \notin {e.prod, e.cons}
         /\ Data(operands'[n]) = {Upper(e, n)}
         /\ Data(operands'[e.cons]) = (Data(operands[e.cons]) \ {e}) \cup {Lower(e, n)}
         /\ \A m \in Ids \ {n, e.cons} : Data(operands'[m]) = Data(operands[m])
<1>1. /\ nodes \subseteq Ids
      /\ operands' = OperandsWith(InsertedEdges(e, n), {e})
      /\ operands[n] = {} /\ n \notin {e.prod, e.cons}
  BY DEF InsertNodeOnEdge, InsertedEdges, EdgesInv
<1>2. /\ e \in Edge /\ e \in Data(operands[e.cons]) /\ e.cons \in nodes /\ e.prod \in nodes
      /\ e.type = "data" /\ e.cons \in Ids /\ n \in Ids
  BY <1>1, EndsAreNodes DEF Edges, Data, EdgesInv, EdgesMirrored, Mirrored, Between
<1>3. ASSUME NEW f \in Data(InsertedEdges(e, n)) PROVE f \in {Upper(e, n), Lower(e, n)}
  <2> SUFFICES ASSUME f \in InheritedControl(e, n) PROVE FALSE
    BY DEF InsertedEdges, Data
  <2>1. PICK o \in Control(operands[e.cons]) : f = Upper(o, n)
    BY DEF InheritedControl
  <2>2. o \in Edge /\ o.type = "control"
    BY <1>1, <1>2, EndsAreNodes DEF Control, Between
  <2> QED BY <2>1, <2>2 DEF Upper, Edge, Data
<1>4. /\ Upper(e, n).cons = n /\ Upper(e, n).type = "data"
      /\ Lower(e, n).cons = e.cons /\ Lower(e, n).type = "data"
  BY <1>2 DEF Upper, Lower, Edge
<1>5. {Upper(e, n), Lower(e, n)} \subseteq InsertedEdges(e, n)
  BY DEF InsertedEdges
<1>6. ASSUME NEW m \in Ids
      PROVE  Data(operands'[m]) = (Data(operands[m]) \ {e})
                                    \cup {f \in {Upper(e, n), Lower(e, n)} : f.cons = m}
  <2>1. operands'[m] = (operands[m] \ {e}) \cup {f \in InsertedEdges(e, n) : f.cons = m}
    BY <1>1 DEF OperandsWith
  <2> QED BY <1>3, <1>4, <1>5, <2>1 DEF Data
<1>7. Data(operands'[n]) = {Upper(e, n)}
  BY <1>1, <1>2, <1>4, <1>6 DEF Data
<1>8. Data(operands'[e.cons]) = (Data(operands[e.cons]) \ {e}) \cup {Lower(e, n)}
  BY <1>1, <1>2, <1>4, <1>6
<1>9. ASSUME NEW m \in Ids \ {n, e.cons} PROVE Data(operands'[m]) = Data(operands[m])
  <2>1. e \notin Data(operands[m])
    BY <1>1 DEF Data, EdgesInv, EdgesMirrored, Mirrored
  <2> QED BY <1>4, <1>6, <2>1
<1> QED BY <1>1, <1>2, <1>7, <1>8, <1>9

(* The data operands after bypass_node; only the node's users get new ones.*)
Rest(m, n) == {x \in Data(operands[m]) : x.prod # n}

Through(m, n) == {x \in Data(operands[m]) : x.prod = n}

LEMMA BypassData ==
  ASSUME EdgesInv, Acyclic, NEW n \in nodes, BypassNode(n), status' = "ok"
  PROVE  \E src : /\ Data(operands[n]) = {src} /\ src.prod \in nodes \ {n}
                  /\ src \in Data(Edges)
                  /\ nodes' = nodes \ {n}
                  /\ attrs' = AttrsWith(DefaultAttrs(BypassEdges(src, n)))
                  /\ tms' = TmsBypassed(n, src, BypassEdges(src, n), attrs')
                  /\ Data(operands'[n]) = {}
                  /\ \A m \in Ids \ {n} : Data(operands'[m]) =
                       Rest(m, n) \cup {Bypassed(src, u) : u \in Through(m, n)}
<1> DEFINE src == CHOOSE e \in Data(operands[n]) : TRUE
           o == OperandsWith(BypassEdges(src, n), {})
           u == UsersWith(BypassEdges(src, n), {})
<1>1. Cardinality(Data(operands[n])) = 1 /\ nodes \subseteq Ids /\ n \in Ids
  BY DEF BypassNode, EdgesInv
<1>2. Data(operands[n]) = {src}
  <2>1. IsFiniteSet(operands[n])
    BY <1>1, EdgesFinite
  <2>2. Data(operands[n]) \in SUBSET operands[n]
    BY DEF Data
  <2>3. IsFiniteSet(Data(operands[n]))
    BY <2>1, <2>2, FS_Subset
  <2>4. PICK x : Data(operands[n]) = {x}
    BY <1>1, <2>3, FS_Singleton
  <2> QED BY <2>4
<1>3. /\ nodes' = nodes \ {n} /\ operands' = WithoutNode(n, o, o, u)
      /\ attrs' = AttrsWith(DefaultAttrs(BypassEdges(src, n)))
      /\ tms' = TmsBypassed(n, src, BypassEdges(src, n), attrs')
  BY <1>1 DEF BypassNode, BypassEdges
<1> HIDE DEF src
<1>4. src \in Edge /\ src.type = "data" /\ src.cons = n /\ src.prod \in nodes
  BY <1>1, <1>2, EndsAreNodes DEF Data, EdgesInv, EdgesMirrored, Mirrored, Between
<1>5. ASSUME NEW m \in nodes, NEW x \in Data(operands[m]), x.prod = n PROVE m # n
  <2> SUFFICES ASSUME m = n PROVE FALSE
    OBVIOUS
  <2>1. Cycle({n}, operands)
    BY <1>5 DEF Cycle
  <2> QED BY <2>1, NoCycle
<1>6. src.prod # n
  BY <1>2, <1>5
<1>7. ASSUME NEW x \in Data(users[n])
      PROVE  /\ x \in Edge /\ x.cons \in nodes \ {n} /\ x \in Data(operands[x.cons])
             /\ x.prod = n /\ x.type = "data"
             /\ Bypassed(src, x).cons = x.cons /\ Bypassed(src, x).type = "data"
             /\ Bypassed(src, x).prod = src.prod
  <2>1. /\ x \in Edge /\ x.cons \in nodes /\ x \in Data(operands[x.cons])
        /\ x.prod = n /\ x.type = "data"
    BY <1>1, EndsAreNodes DEF Data, EdgesInv, EdgesMirrored, Mirrored, Between
  <2>2. x.cons # n
    BY <1>5, <2>1
  <2> QED BY <2>1, <2>2 DEF Bypassed, Edge
<1>8. \A m \in Ids : Through(m, n) = {x \in Data(users[n]) : x.cons = m}
  BY <1>1, <1>7 DEF Through, Data, EdgesInv, EdgesMirrored, Mirrored
<1>9. ASSUME NEW m \in Ids
      PROVE  Data(o[m]) = Data(operands[m]) \cup {Bypassed(src, x) : x \in Through(m, n)}
  <2>1. o[m] = operands[m] \cup {f \in BypassEdges(src, n) : f.cons = m}
    BY DEF OperandsWith
  <2>2. ASSUME NEW f \in Data(BypassEdges(src, n)), f.cons = m
        PROVE  \E x \in Through(m, n) : f = Bypassed(src, x)
    <3>1. f \notin HandedDown(n)
      BY HandedControl DEF Data
    <3>2. PICK x \in Data(users[n]) : f = Bypassed(src, x)
      BY <3>1 DEF BypassEdges, Data
    <3> QED BY <1>7, <1>8, <2>2, <3>2
  <2>3. ASSUME NEW x \in Through(m, n) PROVE Bypassed(src, x) \in Data(o[m])
    <3>1. x \in Data(users[n]) /\ x.cons = m
      BY <1>8
    <3>2. Bypassed(src, x) \in BypassEdges(src, n)
      BY <3>1 DEF BypassEdges
    <3> QED BY <1>7, <2>1, <3>1, <3>2 DEF Data
  <2> HIDE DEF o
  <2> QED BY <2>1, <2>2, <2>3 DEF Data
<1>10. Data(operands'[n]) = {}
  <2> HIDE DEF o, u
  <2> QED BY <1>1, <1>3 DEF WithoutNode, Data
<1>11. ASSUME NEW m \in Ids \ {n}
       PROVE  Data(operands'[m]) = Rest(m, n) \cup {Bypassed(src, x) : x \in Through(m, n)}
  <2>1. operands'[m] = o[m] \ (o[n] \cup u[n])
    <3> HIDE DEF o, u
    <3> QED BY <1>3 DEF WithoutNode
  <2>2. \A f \in o[n] : f.cons = n
    BY <1>1 DEF OperandsWith, EdgesInv, EdgesMirrored, Mirrored
  <2>3. \A f \in u[n] : f.prod = n
    BY <1>1 DEF UsersWith, EdgesInv, EdgesMirrored, Mirrored
  <2>4. \A f \in Data(operands[m]) : f.cons = m /\ (f.prod = n => f \in u[n])
    BY <1>1 DEF UsersWith, Data, EdgesInv, EdgesMirrored, Mirrored
  <2>5. \A x \in Through(m, n) : /\ Bypassed(src, x).cons = m
                                 /\ Bypassed(src, x).prod # n
    BY <1>6, <1>7, <1>8
  <2> HIDE DEF o, u
  <2>6. \A f \in Data(operands[m]) : f \in Rest(m, n) <=> f \notin u[n]
    BY <2>3, <2>4 DEF Rest
  <2>7. Data(operands'[m]) = Data(o[m]) \ (o[n] \cup u[n])
    BY <2>1 DEF Data
  <2> QED BY <1>9, <2>2, <2>3, <2>4, <2>5, <2>6, <2>7 DEF Rest
<1>12. src \in Data(Edges)
  BY <1>1, <1>2 DEF Data, Edges
<1> QED BY <1>2, <1>3, <1>4, <1>6, <1>10, <1>11, <1>12

UnaryInv == status = "ok" => UnaryNops

(* No two of the edges E differ.                                           *)
AtMostOne(E) == \A x, y \in E : x = y

(* A swap keeps them unary.                                                *)
LEMMA SwapUnary ==
  ASSUME EdgesInv, Acyclic, UnaryInv, NEW e \in Data(Edges), Swap(e)
  PROVE  UnaryInv'
<1> DEFINE p == e.prod
           c == e.cons
<1>1. /\ status = "ok" /\ nodes' = nodes /\ kind' = kind /\ p \in nodes /\ c \in nodes
      /\ nodes \subseteq Ids /\ e \in Data(operands[c])
      /\ Data(operands[p]) = {SwapSource(e)}
  <2>1. status = "ok" /\ nodes \subseteq Ids /\ kind' = kind
    BY DEF Swap, Begin, EdgesInv
  <2> QED BY <2>1, SwapOperands
<1> SUFFICES ASSUME NEW m \in Nops PROVE AtMostOne(Data(operands'[m]))
  BY <1>1 DEF UnaryInv, UnaryNops, Nops, AtMostOne
<1>2. AtMostOne(Data(operands[m])) /\ m \in nodes
  BY <1>1 DEF UnaryInv, UnaryNops, AtMostOne, Nops
<1>3. \A h \in Data(operands'[m]) :
        \/ h \in Data(operands[m]) /\ h \notin {e, SwapSource(e)} \cup Data(users[c])
        \/ m = p /\ h = Turned(e)
        \/ m = c /\ h = Moved(e)
        \/ \E x \in Data(users[c]) : x \in Data(operands[m]) /\ h = Rejoined(e, x)
  <2>1. \A h \in Data(operands'[m]) : AfterSwap(e, m, h)
    BY <1>2, SwapOperands
  <2> QED BY <2>1 DEF AfterSwap
<1>4. \A x \in Data(users[c]) : x \notin Data(operands[c]) /\ x \notin Data(operands[p])
  <2> SUFFICES ASSUME NEW x \in Data(users[c]),
                      x \in Data(operands[c]) \/ x \in Data(operands[p])
               PROVE  FALSE
    OBVIOUS
  <2>1. x.prod = c
    BY <1>1 DEF Data, EdgesInv, EdgesMirrored, Mirrored
  <2>2. e.prod = p /\ (Cycle({c}, operands) \/ Cycle({p, c}, operands))
    BY <1>1, <2>1 DEF Cycle
  <2> QED BY <1>1, <2>2, NoCycle
<1>5. CASE m = p
  <2>1. p # c
    BY SwapOperands
  <2>2. \A h \in Data(operands'[m]) : h = Turned(e)
    BY <1>1, <1>3, <1>4, <1>5, <2>1
  <2> QED BY <2>2 DEF AtMostOne
<1>6. CASE m = c
  <2>1. p # c
    BY SwapOperands
  <2>2. \A h \in Data(operands[m]) : h = e
    BY <1>1, <1>2, <1>6 DEF AtMostOne
  <2>3. \A h \in Data(operands'[m]) : h = Moved(e)
    BY <1>3, <1>4, <1>6, <2>1, <2>2
  <2> QED BY <2>3 DEF AtMostOne
<1>7. CASE m # p /\ m # c
  <2>1. \A h \in Data(operands'[m]) :
          \/ h \in Data(operands[m]) /\ h \notin Data(users[c])
          \/ \E x \in Data(users[c]) : x \in Data(operands[m]) /\ h = Rejoined(e, x)
    BY <1>3, <1>7
  <2> QED BY <1>2, <2>1 DEF AtMostOne
<1> QED BY <1>5, <1>6, <1>7

(* Every operation does.                                                   *)
LEMMA UnaryStep ==
  ASSUME EdgesInv, Acyclic, NodeTypes, nodes \subseteq 1..lastId, UnaryInv, [Next]_vars
  PROVE  UnaryInv'
<1>1. nodes \subseteq Ids
  BY DEF EdgesInv
<1>2. ASSUME status = "ok" \/ status' = status, Nops' \subseteq Nops,
             \A m \in Nops' : Data(operands'[m]) \subseteq Data(operands[m])
      PROVE  UnaryInv'
  BY <1>2 DEF UnaryInv, UnaryNops
<1>3. ASSUME NEW s, NEW k \in Kinds, AddNode(s, k) PROVE UnaryInv'
  <2> DEFINE i == lastId + 1
  <2>1. i \in Ids /\ i \notin nodes
    BY <1>3, GraphAssumption DEF AddNode, NodeTypes, Ids
  <2>2. /\ nodes' \subseteq nodes \cup {i} /\ kind' = [kind EXCEPT ![i] = k]
        /\ operands' = operands /\ status = "ok"
    BY <1>3 DEF AddNode, maps, Begin
  <2>3. Data(operands'[i]) = {}
    BY <2>1, <2>2 DEF EdgesInv, EdgesMirrored, Mirrored, Data
  <2> HIDE DEF i
  <2>4. Nops' \subseteq Nops \cup {i}
    BY <1>1, <2>1, <2>2 DEF Nops, NodeTypes
  <2>5. \A m \in Nops : \A x, y \in Data(operands'[m]) : x = y
    BY <2>2 DEF UnaryInv, UnaryNops
  <2>6. \A m \in Nops' : \A x, y \in Data(operands'[m]) : x = y
    BY <2>3, <2>4, <2>5
  <2> QED BY <2>6 DEF UnaryInv, UnaryNops
<1>4. ASSUME NEW p \in nodes, NEW c \in nodes, NEW t \in {"data", "control"}, AddEdge(p, c, t)
      PROVE  UnaryInv'
  <2> DEFINE e == [prod |-> p, cons |-> c, port |-> NextPort(c), type |-> t]
  <2>1. /\ status = "ok" /\ operands' = OperandsWith({e}, {}) /\ Nops' = Nops
        /\ t = "data" => kind[c] = "op" \/ (kind[c] = "nop" /\ Data(operands[c]) = {})
    BY <1>4 DEF AddEdge, Begin, Nops
  <2>2. e.cons = c /\ e.type = t
    OBVIOUS
  <2> HIDE DEF e
  <2> SUFFICES ASSUME NEW m \in Nops PROVE AtMostOne(Data(operands'[m]))
    BY <2>1 DEF UnaryInv, UnaryNops, AtMostOne
  <2>3. m \in Ids /\ kind[m] = "nop" /\ AtMostOne(Data(operands[m]))
    BY <1>1, <2>1 DEF Nops, UnaryInv, UnaryNops, AtMostOne
  <2>4. \A f \in Data(operands'[m]) :
          f \in Data(operands[m]) \/ (f = e /\ m = c /\ t = "data")
    BY <2>1, <2>2, <2>3 DEF OperandsWith, Data
  <2>5. CASE m = c /\ t = "data"
    BY <2>1, <2>3, <2>4, <2>5 DEF AtMostOne
  <2>6. CASE ~(m = c /\ t = "data")
    BY <2>3, <2>4, <2>6 DEF AtMostOne
  <2> QED BY <2>5, <2>6
<1>5. ASSUME NEW e \in Edges, RemoveEdge(e) PROVE UnaryInv'
  BY <1>1, <1>2, <1>5 DEF RemoveEdge, OperandsWith, Begin, Nops, Data
<1>6. ASSUME NEW n \in nodes, RemoveNode(n) PROVE UnaryInv'
  BY <1>1, <1>2, <1>6 DEF RemoveNode, WithoutNode, Begin, Nops, Data
<1>7. ASSUME UNCHANGED <<nodes, kind, operands>>, status = "ok" \/ status' = status
      PROVE  UnaryInv'
  BY <1>2, <1>7 DEF Nops
<1>8. ASSUME NEW e \in Data(Edges), NEW n \in nodes, NEW o \in BOOLEAN,
             InsertNodeOnEdge(e, n, o)
      PROVE  UnaryInv'
  <2>1. status = "ok" /\ Nops' = Nops
    BY <1>8 DEF InsertNodeOnEdge, Begin, Nops
  <2> SUFFICES ASSUME NEW m \in Nops PROVE AtMostOne(Data(operands'[m]))
    BY <2>1 DEF UnaryInv, UnaryNops, AtMostOne
  <2>2. AtMostOne(Data(operands[m])) /\ m \in Ids
    BY <1>1, <2>1 DEF UnaryInv, UnaryNops, AtMostOne, Nops
  <2>3. CASE m = n
    <3>1. Data(operands'[m]) = {Upper(e, n)}
      BY <1>8, <2>3, InsertData
    <3> QED BY <3>1 DEF AtMostOne
  <2>4. CASE m = e.cons
    <3>1. /\ e \in Data(operands[m])
          /\ Data(operands'[m]) = (Data(operands[m]) \ {e}) \cup {Lower(e, n)}
      BY <1>8, <2>4, InsertData
    <3> QED BY <2>2, <3>1 DEF AtMostOne
  <2>5. CASE m # n /\ m # e.cons
    <3>1. Data(operands'[m]) = Data(operands[m])
      BY <1>8, <2>2, <2>5, InsertData
    <3> QED BY <2>2, <3>1
  <2> QED BY <2>3, <2>4, <2>5
<1>9. ASSUME NEW n \in nodes, BypassNode(n) PROVE UnaryInv'
  <2> SUFFICES ASSUME status' = "ok", NEW m \in Nops' PROVE AtMostOne(Data(operands'[m]))
    BY DEF UnaryInv, UnaryNops, AtMostOne
  <2>1. PICK src : /\ nodes' = nodes \ {n}
                   /\ \A l \in Ids \ {n} : Data(operands'[l]) =
                        Rest(l, n) \cup {Bypassed(src, u) : u \in Through(l, n)}
    BY <1>9, BypassData
  <2>2. kind' = kind /\ status = "ok"
    BY <1>9 DEF BypassNode, Begin
  <2>3. m \in Nops /\ m \in Ids \ {n}
    BY <1>1, <2>1, <2>2 DEF Nops
  <2>4. AtMostOne(Data(operands[m]))
    BY <2>2, <2>3 DEF UnaryInv, UnaryNops, AtMostOne
  <2>5. Data(operands'[m]) = Rest(m, n) \cup {Bypassed(src, u) : u \in Through(m, n)}
    BY <2>1, <2>3
  <2> QED BY <2>4, <2>5 DEF AtMostOne, Rest, Through
<1> QED BY <1>3, <1>4, <1>5, <1>6, <1>7, <1>8, <1>9, SwapUnary
        DEF Next, UpdateNodeName, AppendTm, Begin, vars

(* Ids are handed out in order.                                            *)
LEMMA IdsInOrderStep ==
  ASSUME NodeTypes, nodes \subseteq 1..lastId, [Next]_vars
  PROVE  (nodes \subseteq 1..lastId)'
<1>1. lastId \in Nat
  BY GraphAssumption DEF NodeTypes
<1>2. ASSUME nodes' \subseteq nodes, lastId' = lastId PROVE nodes' \subseteq 1..lastId'
  BY <1>2
<1>3. ASSUME NEW s, NEW k, AddNode(s, k) PROVE nodes' \subseteq 1..lastId'
  BY <1>1, <1>3 DEF AddNode
<1>4. ASSUME NEW n \in nodes, BypassNode(n) PROVE nodes' \subseteq nodes /\ lastId' = lastId
  BY <1>4 DEF BypassNode
<1>5. ASSUME \E p, c \in nodes, t \in {"data", "control"} : p # c /\ AddEdge(p, c, t)
      PROVE  nodes' \subseteq nodes /\ lastId' = lastId
  BY <1>5 DEF AddEdge
<1>6. ASSUME \E e \in Data(Edges), n \in nodes, o \in BOOLEAN : InsertNodeOnEdge(e, n, o)
      PROVE  nodes' \subseteq nodes /\ lastId' = lastId
  BY <1>6 DEF InsertNodeOnEdge
<1>7. ASSUME \E e \in Data(Edges) : Swap(e) PROVE nodes' \subseteq nodes /\ lastId' = lastId
  BY <1>7 DEF Swap
<1>8. ASSUME \/ \E e \in Edges : RemoveEdge(e)
             \/ \E n \in nodes : RemoveNode(n)
             \/ \E n \in nodes, b \in Bases : UpdateNodeName(n, BaseName(b))
             \/ \E e \in Edges, t \in TMs : AppendTm(e, t)
             \/ UNCHANGED vars
      PROVE  nodes' \subseteq nodes /\ lastId' = lastId
  BY <1>8 DEF RemoveEdge, RemoveNode, UpdateNodeName, AppendTm, vars
<1> QED BY <1>2, <1>3, <1>4, <1>5, <1>6, <1>7, <1>8 DEF Next

-----------------------------------------------------------------------------
(* Nops are transparent.                                                   *)

(* A flow of the graph after a step says what arrives after it.            *)
LEMMA ArrivesAfter ==
  ASSUME FlowInv', NEW V, V \in [Data(Edges') -> Arrivals],
         \A x \in Data(Edges') :
           /\ x.prod \notin Nops' \/ Data(operands'[x.prod]) = {}
                => V[x] = <<x.prod, tms'[attrs'[x]]>>
           /\ x.prod \in Nops' =>
                \A y \in Data(operands'[x.prod]) :
                  V[x] = <<V[y][1], V[y][2] \o tms'[attrs'[x]]>>
  PROVE  Arrives' = {<<x.cons, x.port, V[x]>> : x \in {y \in Data(Edges') : y.cons \notin Nops'}}
<1>1. (FlowInv => \A W : IsFlow(W) => Arrives = Got(W))'
  BY FlowArrives, PTL
<1>2. IsFlow(V)'
  BY DEF IsFlow, Looks, Tms, Arrivals
<1>3. Arrives' = Got(V)'
  BY <1>1, <1>2
<1> QED BY <1>3 DEF Got

(* What insert_node_on_edge leaves of the edges, and their TMs.            *)
LEMMA InsertTms ==
  ASSUME EdgesInv, AttrsInv, UnsharedInv, TmsTyped, ReAddEdges = FALSE,
         NEW e \in Data(Edges), NEW n \in nodes, NEW out \in BOOLEAN,
         InsertNodeOnEdge(e, n, out)
  PROVE  /\ Data(Edges') = (Data(Edges) \ {e}) \cup {Upper(e, n), Lower(e, n)}
         /\ Upper(e, n) \notin Edges /\ Lower(e, n) \notin Edges /\ Upper(e, n) # Lower(e, n)
         /\ \A x \in Data(Edges) \ {e} : tms'[attrs'[x]] = Tms(x)
         /\ \/ tms'[attrs'[Lower(e, n)]] = Tms(e) /\ tms'[attrs'[Upper(e, n)]] = <<>>
            \/ tms'[attrs'[Lower(e, n)]] = <<>> /\ tms'[attrs'[Upper(e, n)]] = Tms(e)
<1> DEFINE E == InsertedEdges(e, n)
           U == Upper(e, n)
           L == Lower(e, n)
           X == {attrs'[U], attrs'[L]} \cup InheritedControl(e, n)
<1>1. /\ E \cap DOMAIN attrs = {}
      /\ attrs' = AttrsWith(DefaultAttrs(E))
      /\ tms' = TmsInserted(e, n, out, attrs')
  BY DEF InsertNodeOnEdge, InsertedEdges
<1>2. U \in E /\ L \in E /\ InheritedControl(e, n) \subseteq E
  BY DEF InsertedEdges
<1>3. /\ e \in Data(operands[e.cons]) /\ e.prod \in nodes /\ e.cons \in nodes
      /\ n \notin {e.prod, e.cons} /\ nodes \subseteq Ids /\ e \in Edge
      /\ e \in Edges /\ e.type = "data"
  <2>1. e \in Edge /\ e \in Edges /\ e.type = "data" /\ nodes \subseteq Ids
    BY EndsAreNodes DEF Data, Between, EdgesInv
  <2> QED BY <2>1, InsertData
<1>4. U.cons = n /\ U.prod = e.prod /\ L.cons = e.cons /\ L.prod = n
  BY <1>3 DEF Upper, Lower, Edge
<1>5. U # L /\ U \notin Edges /\ L \notin Edges
  BY <1>1, <1>2, <1>3, <1>4, EdgesHaveAttrs
<1>6. Data(Edges') = (Data(Edges) \ {e}) \cup {U, L}
  <2>1. /\ Data(operands'[n]) = {U}
        /\ Data(operands'[e.cons]) = (Data(operands[e.cons]) \ {e}) \cup {L}
        /\ \A m \in Ids \ {n, e.cons} : Data(operands'[m]) = Data(operands[m])
    BY InsertData
  <2>2. Data(operands[n]) = {}
    BY DEF InsertNodeOnEdge, Data
  <2>3. \A m \in Ids : e \in Data(operands[m]) => m = e.cons
    BY DEF EdgesInv, EdgesMirrored, Mirrored, Data
  <2>4. /\ Data(Edges) = UNION {Data(operands[m]) : m \in Ids}
        /\ Data(Edges') = UNION {Data(operands'[m]) : m \in Ids}
    BY DEF Data, Edges
  <2>5. n \in Ids /\ e.cons \in Ids
    BY <1>3
  <2> HIDE DEF U, L
  <2>6. ASSUME NEW f \in Data(Edges') PROVE f \in (Data(Edges) \ {e}) \cup {U, L}
    <3>1. PICK m \in Ids : f \in Data(operands'[m])
      BY <2>4
    <3> QED BY <1>3, <2>1, <2>3, <2>4, <3>1
  <2>7. ASSUME NEW f \in (Data(Edges) \ {e}) \cup {U, L} PROVE f \in Data(Edges')
    <3>1. CASE f \in {U, L}
      BY <2>1, <2>4, <2>5, <3>1
    <3>2. CASE f \in Data(Edges) \ {e}
      <4>1. PICK m \in Ids : f \in Data(operands[m])
        BY <2>4, <3>2
      <4>2. f \in Data(operands'[m])
        BY <2>1, <2>2, <3>2, <4>1
      <4> QED BY <2>4, <4>2
    <3> QED BY <2>7, <3>1, <3>2
  <2> QED BY <2>6, <2>7
<1> HIDE DEF E, U, L
<1>7. attrs'[U] = U /\ attrs'[L] = L
  BY <1>1, <1>2 DEF AttrsWith, DefaultAttrs
<1>8. X \subseteq E
  BY <1>2, <1>7
<1>9. /\ DOMAIN tms' = DOMAIN tms \cup X
      /\ tms' = [k \in DOMAIN TmsWith(X) |->
                  CASE k = (IF out THEN U ELSE L) -> <<>>
                    [] k # (IF out THEN U ELSE L) /\ k = (IF out THEN L ELSE U) -> Tms(e)
                    [] OTHER -> TmsWith(X)[k]]
  <2>1. tms' = [k \in DOMAIN TmsWith(X) |->
                  CASE k = attrs'[IF out THEN U ELSE L] -> <<>>
                    [] k # attrs'[IF out THEN U ELSE L] /\ k = attrs'[IF out THEN L ELSE U] -> Tms(e)
                    [] OTHER -> TmsWith(X)[k]]
    BY <1>1 DEF TmsInserted, U, L
  <2>2. attrs'[IF out THEN U ELSE L] = (IF out THEN U ELSE L)
    BY <1>7
  <2>3. attrs'[IF out THEN L ELSE U] = (IF out THEN L ELSE U)
    BY <1>7
  <2> HIDE DEF X
  <2> QED BY <2>1, <2>2, <2>3, NewTms
<1>10. U \in X /\ L \in X
  BY <1>7
<1> HIDE DEF X
<1>11. ASSUME NEW x \in Data(Edges) PROVE tms'[attrs'[x]] = Tms(x)
  <2>1. x \in DOMAIN attrs /\ attrs[x] \in DOMAIN attrs /\ attrs[x] \in DOMAIN tms
    BY EdgesHaveAttrs DEF Data, UnsharedInv, AttrsInv
  <2>2. attrs'[x] = attrs[x]
    BY <1>1, <2>1 DEF AttrsWith
  <2>3. attrs[x] # U /\ attrs[x] # L
    BY <1>1, <1>2, <2>1
  <2>4. tms'[attrs[x]] = TmsWith(X)[attrs[x]]
    BY <1>9, <2>1, <2>3, NewTms
  <2>5. TmsWith(X)[attrs[x]] = tms[attrs[x]]
    BY <2>1 DEF TmsWith
  <2> QED BY <2>2, <2>4, <2>5 DEF Tms
<1>12. \/ tms'[attrs'[L]] = Tms(e) /\ tms'[attrs'[U]] = <<>>
       \/ tms'[attrs'[L]] = <<>> /\ tms'[attrs'[U]] = Tms(e)
  <2>1. U \in DOMAIN TmsWith(X) /\ L \in DOMAIN TmsWith(X)
    BY <1>10, NewTms
  <2>2. CASE out
    BY <1>5, <1>7, <1>9, <2>1, <2>2
  <2>3. CASE ~out
    BY <1>5, <1>7, <1>9, <2>1, <2>3
  <2> QED BY <2>2, <2>3
<1> QED BY <1>5, <1>6, <1>11, <1>12 DEF U, L

(* What arrives over an edge is what arrives at its producer, and its TMs. *)
ArrivesAs(W, e, s, b) ==
  /\ s \in Ids /\ b \in Seq(TMs)
  /\ W[e] = <<s, b \o Tms(e)>>
  /\ e.prod \notin Looks => s = e.prod /\ b = <<>>
  /\ e.prod \in Nops => \A y \in Data(operands[e.prod]) : s = W[y][1] /\ b = W[y][2]

LEMMA ArrivesAsExists ==
  ASSUME FlowInv, NEW W, IsFlow(W), NEW e \in Data(Edges)
  PROVE  \E s, b : ArrivesAs(W, e, s, b)
<1>1. /\ e \in Edges /\ e.prod \in Ids
      /\ W \in [Data(Edges) -> Arrivals]
  BY EndsAreNodes DEF FlowInv, IsFlow, Data, Between, Edge
<1>2. Tms(e) \in Seq(TMs)
  BY <1>1, TmsOfEdge DEF FlowInv
<1>3. CASE e.prod \notin Looks
  <2>1. W[e] = <<e.prod, Tms(e)>>
    BY <1>3 DEF IsFlow
  <2>2. <<>> \o Tms(e) = Tms(e) /\ <<>> \in Seq(TMs)
    BY <1>2
  <2>3. e.prod \in Nops => Data(operands[e.prod]) = {}
    BY <1>3 DEF Looks
  <2>4. ArrivesAs(W, e, e.prod, <<>>)
    BY <1>1, <1>3, <2>1, <2>2, <2>3 DEF ArrivesAs
  <2> QED BY <2>4
<1>4. CASE e.prod \in Looks
  <2>1. PICK y \in Data(operands[e.prod]) : TRUE
    BY <1>4 DEF Looks
  <2>2. e.prod \in Nops /\ \A x \in Data(operands[e.prod]) : x = y
    BY <1>4, <2>1 DEF Looks, FlowInv, UnaryNops
  <2>3. y \in Data(Edges)
    BY <1>1, <2>1 DEF Data, Edges
  <2>4. W[y] \in Arrivals
    BY <1>1, <2>3
  <2>5. W[y][1] \in Ids /\ W[y][2] \in Seq(TMs)
    BY <2>4 DEF Arrivals
  <2>6. W[e] = <<W[y][1], W[y][2] \o Tms(e)>>
    BY <2>1, <2>2 DEF IsFlow
  <2>7. ArrivesAs(W, e, W[y][1], W[y][2])
    BY <1>4, <2>2, <2>5, <2>6 DEF ArrivesAs
  <2> QED BY <2>7
<1> QED BY <1>3, <1>4

(* A nop inserted on an edge hands on what came over it.                   *)
LEMMA InsertTransparent ==
  ASSUME FlowInv, FlowInv', UnsharedInv, ReAddEdges = FALSE,
         NEW e \in Data(Edges), NEW n \in Nops, NEW out \in BOOLEAN,
         InsertNodeOnEdge(e, n, out)
  PROVE  Arrives' = Arrives
<1> DEFINE U == Upper(e, n)
           L == Lower(e, n)
           T(x) == tms'[attrs'[x]]
<1>1. PICK W : IsFlow(W) /\ Arrives = Got(W)
  BY FlowExists
<1>2. PICK s, b : ArrivesAs(W, e, s, b)
  BY <1>1, ArrivesAsExists
<1>3. s \in Ids /\ b \in Seq(TMs) /\ W[e] = <<s, b \o Tms(e)>>
  BY <1>2 DEF ArrivesAs
<1>4. /\ Nops' = Nops /\ n \in nodes /\ nodes \subseteq Ids
  BY DEF InsertNodeOnEdge, Nops, FlowInv, EdgesInv
<1>5. /\ e \in Data(operands[e.cons]) /\ e.prod \in nodes /\ e.cons \in nodes
      /\ n \notin {e.prod, e.cons}
      /\ Data(operands'[n]) = {U}
      /\ Data(operands'[e.cons]) = (Data(operands[e.cons]) \ {e}) \cup {L}
      /\ \A m \in Ids \ {n, e.cons} : Data(operands'[m]) = Data(operands[m])
  BY <1>4, InsertData DEF FlowInv
<1>6. /\ Data(Edges') = (Data(Edges) \ {e}) \cup {U, L}
      /\ U \notin Data(Edges) /\ L \notin Data(Edges) /\ U # L
      /\ \A x \in Data(Edges) \ {e} : T(x) = Tms(x)
      /\ \/ T(L) = Tms(e) /\ T(U) = <<>>
         \/ T(L) = <<>> /\ T(U) = Tms(e)
  <2>1. EdgesInv /\ AttrsInv /\ TmsTyped /\ n \in nodes
    BY <1>4 DEF FlowInv
  <2>2. Data(Edges) \subseteq Edges
    BY DEF Data
  <2>3. /\ Data(Edges') = (Data(Edges) \ {e}) \cup {Upper(e, n), Lower(e, n)}
        /\ Upper(e, n) \notin Edges /\ Lower(e, n) \notin Edges /\ Upper(e, n) # Lower(e, n)
    BY <2>1, InsertTms
  <2>4. \A x \in Data(Edges) \ {e} : T(x) = Tms(x)
    BY <2>1, InsertTms
  <2>5. \/ T(L) = Tms(e) /\ T(U) = <<>>
        \/ T(L) = <<>> /\ T(U) = Tms(e)
    BY <2>1, InsertTms
  <2> QED BY <2>2, <2>3, <2>4, <2>5
<1>7. /\ U.prod = e.prod /\ U.cons = n
      /\ L.prod = n /\ L.cons = e.cons /\ L.port = e.port
  <2>1. e \in Edge
    BY EndsAreNodes DEF Data, Between, FlowInv
  <2> QED BY <2>1 DEF Upper, Lower, Edge
<1> HIDE DEF U, L, T
<1>8. e.prod # e.cons
  <2> SUFFICES ASSUME e.prod = e.cons PROVE FALSE
    OBVIOUS
  <2>1. Cycle({e.prod}, operands)
    BY <1>5 DEF Cycle
  <2> QED BY <1>5, <2>1, NoCycle DEF FlowInv
<1>9. ASSUME NEW m \in Ids, NEW y \in Data(operands[m]) PROVE y.cons = m /\ y \in Data(Edges)
  BY DEF Data, Edges, FlowInv, EdgesInv, EdgesMirrored, Mirrored
<1>10. T(U) \in Seq(TMs) /\ T(L) \in Seq(TMs) /\ (b \o T(U)) \o T(L) = b \o Tms(e)
  <2>1. Tms(e) \in Seq(TMs)
    BY TmsOfEdge DEF FlowInv, Data
  <2>2. CASE T(L) = Tms(e) /\ T(U) = <<>>
    <3>1. b \o <<>> = b
      BY <1>3
    <3> QED BY <2>1, <2>2, <3>1
  <2>3. CASE T(L) = <<>> /\ T(U) = Tms(e)
    <3>1. (b \o Tms(e)) \o <<>> = b \o Tms(e)
      BY <1>3, <2>1
    <3> QED BY <2>1, <2>3, <3>1
  <2> QED BY <1>6, <2>2, <2>3
<1> DEFINE u == <<s, b \o T(U)>>
           V == [x \in Data(Edges') |-> IF x = L THEN W[e] ELSE IF x = U THEN u ELSE W[x]]
<1>11. u \in Arrivals /\ u[1] = s /\ u[2] = b \o T(U)
  <2>1. b \o T(U) \in Seq(TMs)
    BY <1>3, <1>10
  <2> QED BY <1>3, <2>1 DEF Arrivals
<1> HIDE DEF u
<1>12. /\ V[L] = W[e] /\ V[U] = u
       /\ \A x \in Data(Edges) \ {e} : V[x] = W[x]
  BY <1>6
<1>13. V \in [Data(Edges') -> Arrivals]
  BY <1>1, <1>6, <1>11 DEF IsFlow
<1> HIDE DEF V
<1>14. ASSUME NEW m \in nodes, m # n, m # e.cons
       PROVE  /\ Data(operands'[m]) = Data(operands[m])
              /\ \A y \in Data(operands[m]) : V[y] = W[y]
  <2>1. m \in Ids
    BY <1>4
  <2>2. \A y \in Data(operands[m]) : y \in Data(Edges) \ {e}
    BY <1>9, <1>14, <2>1
  <2> QED BY <1>5, <1>12, <1>14, <2>1, <2>2
<1>15. ASSUME NEW x \in Data(Edges) \ {e}
       PROVE  /\ x.prod \notin Nops' \/ Data(operands'[x.prod]) = {} => V[x] = <<x.prod, T(x)>>
              /\ x.prod \in Nops' =>
                   \A y \in Data(operands'[x.prod]) : V[x] = <<V[y][1], V[y][2] \o T(x)>>
  <2>1. /\ V[x] = W[x] /\ T(x) = Tms(x) /\ x.prod \in nodes
        /\ x.prod \notin Looks => W[x] = <<x.prod, Tms(x)>>
        /\ x.prod \in Nops =>
             \A y \in Data(operands[x.prod]) : W[x] = <<W[y][1], W[y][2] \o Tms(x)>>
    <3>1. x.prod \in nodes
      BY EndsAreNodes DEF Data, Between, FlowInv
    <3> QED BY <1>1, <1>6, <1>12, <3>1 DEF IsFlow
  <2>2. x.prod # n
    <3>1. users[n] = {}
      BY DEF InsertNodeOnEdge
    <3>2. x \in users[x.prod]
      BY DEF Data, Edges, FlowInv, EdgesInv, EdgesMirrored, Mirrored
    <3> QED BY <3>1, <3>2
  <2>3. CASE x.prod = e.cons
    <3>1. L \in Data(operands'[x.prod]) /\ e \in Data(operands[x.prod])
      BY <1>5, <2>3
    <3>2. ASSUME x.prod \in Nops, NEW y \in Data(operands'[x.prod]) PROVE y = L
      <4>1. \A z \in Data(operands[x.prod]) : z = e
        BY <3>1, <3>2 DEF FlowInv, UnaryNops
      <4> QED BY <1>5, <2>3, <4>1
    <3>3. x.prod \in Nops => W[x] = <<W[e][1], W[e][2] \o Tms(x)>>
      BY <2>1, <3>1
    <3>4. x.prod \notin Nops => W[x] = <<x.prod, Tms(x)>>
      BY <2>1 DEF Looks
    <3> QED BY <1>4, <1>12, <2>1, <3>1, <3>2, <3>3, <3>4
  <2>4. CASE x.prod # e.cons
    <3>1. /\ Data(operands'[x.prod]) = Data(operands[x.prod])
          /\ \A y \in Data(operands[x.prod]) : V[y] = W[y]
      BY <1>14, <2>1, <2>2, <2>4
    <3>2. x.prod \notin Nops \/ Data(operands[x.prod]) = {} => x.prod \notin Looks
      BY DEF Looks
    <3> QED BY <1>4, <2>1, <3>1, <3>2
  <2> QED BY <2>3, <2>4
<1>16. /\ U.prod \notin Nops' \/ Data(operands'[U.prod]) = {} => V[U] = <<U.prod, T(U)>>
       /\ U.prod \in Nops' =>
            \A y \in Data(operands'[U.prod]) : V[U] = <<V[y][1], V[y][2] \o T(U)>>
  <2>1. /\ Data(operands'[e.prod]) = Data(operands[e.prod])
        /\ \A y \in Data(operands[e.prod]) : V[y] = W[y]
    BY <1>5, <1>8, <1>14
  <2>2. e.prod \notin Nops \/ Data(operands[e.prod]) = {} => V[U] = <<e.prod, T(U)>>
    <3> SUFFICES ASSUME e.prod \notin Nops \/ Data(operands[e.prod]) = {}
                 PROVE  V[U] = <<e.prod, T(U)>>
      OBVIOUS
    <3>1. s = e.prod /\ b = <<>>
      BY <1>2 DEF ArrivesAs, Looks
    <3>2. <<>> \o T(U) = T(U)
      BY <1>10
    <3> QED BY <1>12, <3>1, <3>2 DEF u
  <2>3. ASSUME e.prod \in Nops, NEW y \in Data(operands[e.prod])
        PROVE  V[U] = <<V[y][1], V[y][2] \o T(U)>>
    <3>1. s = W[y][1] /\ b = W[y][2]
      BY <1>2, <2>3 DEF ArrivesAs
    <3> QED BY <1>12, <2>1, <3>1 DEF u
  <2> QED BY <1>4, <1>7, <2>1, <2>2, <2>3
<1>17. /\ L.prod \in Nops' /\ Data(operands'[L.prod]) = {U}
       /\ V[L] = <<V[U][1], V[U][2] \o T(L)>>
  BY <1>3, <1>4, <1>5, <1>7, <1>10, <1>11, <1>12
<1>18. \A x \in Data(Edges') :
         /\ x.prod \notin Nops' \/ Data(operands'[x.prod]) = {} => V[x] = <<x.prod, T(x)>>
         /\ x.prod \in Nops' =>
              \A y \in Data(operands'[x.prod]) : V[x] = <<V[y][1], V[y][2] \o T(x)>>
  BY <1>6, <1>15, <1>16, <1>17
<1>19. Arrives' = {<<x.cons, x.port, V[x]>> : x \in {y \in Data(Edges') : y.cons \notin Nops'}}
  BY <1>13, <1>18, ArrivesAfter DEF T
<1>20. {<<x.cons, x.port, V[x]>> : x \in {y \in Data(Edges') : y.cons \notin Nops'}} = Got(W)
  <2>1. ASSUME NEW x \in Data(Edges'), x.cons \notin Nops'
        PROVE  <<x.cons, x.port, V[x]>> \in Got(W)
    <3>1. x # U
      BY <1>4, <1>7, <2>1
    <3>2. CASE x = L
      BY <1>4, <1>7, <1>12, <2>1, <3>2 DEF Got
    <3>3. CASE x \in Data(Edges) \ {e}
      BY <1>4, <1>12, <2>1, <3>3 DEF Got
    <3> QED BY <1>6, <3>1, <3>2, <3>3
  <2>2. ASSUME NEW x \in Data(Edges), x.cons \notin Nops
        PROVE  \E y \in Data(Edges') : /\ y.cons \notin Nops'
                                       /\ <<x.cons, x.port, W[x]>> = <<y.cons, y.port, V[y]>>
    <3>1. CASE x = e
      BY <1>4, <1>6, <1>7, <1>12, <2>2, <3>1
    <3>2. CASE x # e
      BY <1>4, <1>6, <1>12, <2>2, <3>2
    <3> QED BY <3>1, <3>2
  <2> QED BY <2>1, <2>2 DEF Got
<1> QED BY <1>1, <1>19, <1>20

(* The data edges that bypass_node leaves alone, and those it replaces.    *)
Kept(n) == {x \in Data(Edges) : x.prod # n /\ x.cons # n}

Replaced(n) == {x \in Data(Edges) : x.prod = n}

LEMMA BypassedEdges ==
  ASSUME EdgesInv, Acyclic, PortsUnique, NEW n \in nodes, BypassNode(n), status' = "ok",
         NEW src, Data(operands[n]) = {src}, Data(operands'[n]) = {},
         src \in Data(Edges), src.prod \in nodes \ {n},
         \A m \in Ids \ {n} : Data(operands'[m]) =
           Rest(m, n) \cup {Bypassed(src, u) : u \in Through(m, n)}
  PROVE  /\ Replaced(n) = Data(users[n])
         /\ Data(Edges') = Kept(n) \cup {Bypassed(src, x) : x \in Replaced(n)}
         /\ \A x \in Replaced(n) :
              /\ Bypassed(src, x).prod = src.prod /\ Bypassed(src, x).cons = x.cons
              /\ Bypassed(src, x).port = x.port /\ Bypassed(src, x) \notin Data(Edges)
              /\ x.cons \in nodes \ {n} /\ x \in Data(operands[x.cons])
         /\ \A x, y \in Replaced(n) : Bypassed(src, x) = Bypassed(src, y) => x = y
<1>1. nodes \subseteq Ids /\ n \in Ids /\ status = "ok"
  BY DEF EdgesInv, BypassNode, Begin
<1>2. ASSUME NEW m \in Ids, NEW x \in Data(operands[m])
      PROVE  x.cons = m /\ x \in Data(Edges) /\ m \in nodes /\ x \in Data(users[x.prod])
  BY DEF Data, Edges, EdgesInv, EdgesMirrored, Mirrored
<1>3. ASSUME NEW x \in Data(Edges)
      PROVE  /\ x \in Edge /\ x.cons \in nodes /\ x \in Data(operands[x.cons])
             /\ x \in Data(users[x.prod])
  BY EndsAreNodes DEF Data, Edges, EdgesInv, EdgesMirrored, Mirrored, Between
<1>4. Replaced(n) = Data(users[n])
  <2>1. ASSUME NEW x \in Data(users[n]) PROVE x.prod = n /\ x \in Data(Edges)
    <3>1. x.prod = n /\ x \in Data(operands[x.cons]) /\ x.cons \in Ids
      BY <1>1 DEF Data, EdgesInv, EdgeTypes, EdgesMirrored, Mirrored, Edge
    <3> QED BY <1>2, <3>1
  <2> QED BY <1>3, <2>1 DEF Replaced
<1>5. ASSUME NEW x \in Replaced(n) PROVE x.cons # n
  <2> SUFFICES ASSUME x.cons = n PROVE FALSE
    OBVIOUS
  <2>1. Cycle({n}, operands)
    BY <1>3, <1>5 DEF Cycle, Replaced
  <2> QED BY <2>1, NoCycle
<1>6. ASSUME NEW x \in Replaced(n)
      PROVE  /\ Bypassed(src, x).prod = src.prod /\ Bypassed(src, x).cons = x.cons
             /\ Bypassed(src, x).port = x.port
             /\ x.cons \in nodes \ {n} /\ x \in Data(operands[x.cons])
             /\ x.prod = n
             /\ [Bypassed(src, x) EXCEPT !.prod = n] = x
  BY <1>3, <1>5 DEF Replaced, Bypassed, Edge
<1>7. ASSUME NEW x \in Replaced(n) PROVE Bypassed(src, x) \notin Data(Edges)
  <2> DEFINE y == Bypassed(src, x)
  <2> SUFFICES ASSUME y \in Data(Edges) PROVE FALSE
    OBVIOUS
  <2>1. y.prod # n /\ y.cons = x.cons /\ y.port = x.port
    BY <1>6
  <2> HIDE DEF y
  <2>2. y \in Data(operands[x.cons]) /\ x \in Data(operands[x.cons])
    BY <1>3, <1>6, <2>1
  <2>3. y = x
    BY <1>1, <1>6, <2>1, <2>2 DEF PortsUnique
  <2> QED BY <1>6, <2>1, <2>3
<1>8. /\ Data(Edges) = UNION {Data(operands[m]) : m \in Ids}
      /\ Data(Edges') = UNION {Data(operands'[m]) : m \in Ids}
  BY DEF Data, Edges
<1>9. \A m \in Ids \ {n} : Through(m, n) \subseteq Replaced(n) /\ Rest(m, n) \subseteq Kept(n)
  BY <1>2 DEF Through, Rest, Replaced, Kept
<1>10. \A x \in Kept(n) : x.cons \in Ids \ {n} /\ x \in Rest(x.cons, n)
  BY <1>1, <1>3 DEF Kept, Rest
<1>11. \A x \in Replaced(n) : x.cons \in Ids \ {n} /\ x \in Through(x.cons, n)
  BY <1>1, <1>6 DEF Through
<1>12. Data(Edges') = Kept(n) \cup {Bypassed(src, x) : x \in Replaced(n)}
  <2>1. ASSUME NEW f \in Data(Edges')
        PROVE  f \in Kept(n) \cup {Bypassed(src, x) : x \in Replaced(n)}
    <3>1. PICK m \in Ids \ {n} : f \in Data(operands'[m])
      BY <1>8
    <3> QED BY <1>9, <3>1
  <2>2. ASSUME NEW f \in Kept(n) PROVE f \in Data(Edges')
    BY <1>8, <1>10
  <2>3. ASSUME NEW x \in Replaced(n) PROVE Bypassed(src, x) \in Data(Edges')
    <3>1. Bypassed(src, x) \in Data(operands'[x.cons])
      BY <1>11
    <3> QED BY <1>8, <1>11, <3>1
  <2> QED BY <2>1, <2>2, <2>3
<1>13. \A x, y \in Replaced(n) : Bypassed(src, x) = Bypassed(src, y) => x = y
  BY <1>6
<1> QED BY <1>4, <1>6, <1>7, <1>12, <1>13

(* Their TMs: those of the edge into the node come first.                  *)
LEMMA BypassTms ==
  ASSUME EdgesInv, AttrsInv, TmsTyped, UnsharedInv', NEW n, NEW src,
         attrs' = AttrsWith(DefaultAttrs(BypassEdges(src, n))),
         tms' = TmsBypassed(n, src, BypassEdges(src, n), attrs'),
         Replaced(n) = Data(users[n]),
         Data(Edges') = Kept(n) \cup {Bypassed(src, x) : x \in Replaced(n)},
         \A x \in Replaced(n) : Bypassed(src, x) \notin Data(Edges),
         \A x, y \in Replaced(n) : Bypassed(src, x) = Bypassed(src, y) => x = y
  PROVE  /\ \A x \in Kept(n) : tms'[attrs'[x]] = Tms(x)
         /\ \A x \in Replaced(n) : tms'[attrs'[Bypassed(src, x)]] = Tms(src) \o Tms(x)
<1> DEFINE E == BypassEdges(src, n)
           X == {attrs'[f] : f \in E}
           to(k) == {u \in Replaced(n) : attrs'[Bypassed(src, u)] = k}
<1>1. \A f, g \in Data(Edges') : attrs'[f] = attrs'[g] => f = g
  BY DEF UnsharedInv, Data
<1>2. \A x \in Replaced(n) : Bypassed(src, x) \in E
  BY DEF BypassEdges
<1>3. tms' = [k \in DOMAIN TmsWith(X) |->
                IF to(k) # {} THEN Tms(src) \o Tms(CHOOSE u \in to(k) : TRUE)
                ELSE TmsWith(X)[k]]
  BY DEF TmsBypassed
<1> HIDE DEF E, X
<1>4. DOMAIN TmsWith(X) = DOMAIN tms \cup X
  BY DEF TmsWith
<1>5. ASSUME NEW x \in Kept(n) PROVE tms'[attrs'[x]] = Tms(x)
  <2>1. x \in Data(Edges) /\ x \in DOMAIN attrs /\ attrs[x] \in DOMAIN tms
    <3>1. x \in Data(Edges) /\ x \in Edges
      BY DEF Kept, Data
    <3> QED BY <3>1, TmsOfEdge
  <2>2. attrs'[x] = attrs[x]
    BY <2>1 DEF AttrsWith
  <2>3. to(attrs[x]) = {}
    <3> SUFFICES ASSUME NEW u \in Replaced(n), attrs'[Bypassed(src, u)] = attrs[x] PROVE FALSE
      OBVIOUS
    <3>1. Bypassed(src, u) = x
      BY <1>1, <2>2
    <3> QED BY <2>1, <3>1
  <2> HIDE DEF to
  <2>4. tms'[attrs[x]] = TmsWith(X)[attrs[x]]
    BY <1>3, <1>4, <2>1, <2>3
  <2>5. TmsWith(X)[attrs[x]] = tms[attrs[x]]
    BY <2>1 DEF TmsWith
  <2> QED BY <2>2, <2>4, <2>5 DEF Tms
<1>6. ASSUME NEW x \in Replaced(n)
      PROVE  tms'[attrs'[Bypassed(src, x)]] = Tms(src) \o Tms(x)
  <2> DEFINE k == attrs'[Bypassed(src, x)]
  <2>1. k \in DOMAIN TmsWith(X)
    BY <1>2, <1>4 DEF X
  <2>2. to(k) = {x}
    <3>1. ASSUME NEW u \in to(k) PROVE u = x
      <4>1. u \in Replaced(n) /\ attrs'[Bypassed(src, u)] = attrs'[Bypassed(src, x)]
        OBVIOUS
      <4>2. Bypassed(src, u) = Bypassed(src, x)
        BY <1>1, <4>1
      <4> QED BY <4>1, <4>2
    <3> QED BY <3>1
  <2> HIDE DEF k, to
  <2>3. tms'[k] = Tms(src) \o Tms(CHOOSE u \in to(k) : TRUE)
    BY <1>3, <2>1, <2>2
  <2>4. (CHOOSE u \in to(k) : TRUE) = x
    BY <2>2
  <2> QED BY <2>3, <2>4 DEF k
<1> QED BY <1>5, <1>6

(* Concatenation of three sequences.                                       *)
LEMMA ConcatThrice ==
  ASSUME NEW S, NEW a \in Seq(S), NEW b \in Seq(S), NEW c \in Seq(S)
  PROVE  a \o (b \o c) = (a \o b) \o c
OBVIOUS

(* A bypassed nop's users get what came through it.                        *)
LEMMA BypassTransparent ==
  ASSUME FlowInv, FlowInv', PortsUnique, UnsharedInv',
         NEW n \in Nops, BypassNode(n), status' = "ok"
  PROVE  Arrives' = Arrives
<1> DEFINE T(x) == tms'[attrs'[x]]
<1>1. PICK W : IsFlow(W) /\ Arrives = Got(W)
  BY FlowExists
<1>2. EdgesInv /\ AttrsInv /\ TmsTyped /\ Acyclic /\ UnaryNops
  BY DEF FlowInv
<1>3. n \in nodes /\ nodes \subseteq Ids
  BY <1>2 DEF Nops, EdgesInv
<1>4. PICK src : /\ Data(operands[n]) = {src} /\ src.prod \in nodes \ {n}
                 /\ src \in Data(Edges)
                 /\ nodes' = nodes \ {n}
                 /\ attrs' = AttrsWith(DefaultAttrs(BypassEdges(src, n)))
                 /\ tms' = TmsBypassed(n, src, BypassEdges(src, n), attrs')
                 /\ Data(operands'[n]) = {}
                 /\ \A m \in Ids \ {n} : Data(operands'[m]) =
                      Rest(m, n) \cup {Bypassed(src, u) : u \in Through(m, n)}
  BY <1>2, <1>3, BypassData
<1> DEFINE B(x) == Bypassed(src, x)
<1>5. /\ Replaced(n) = Data(users[n])
      /\ Data(Edges') = Kept(n) \cup {Bypassed(src, x) : x \in Replaced(n)}
      /\ \A x \in Replaced(n) :
           /\ Bypassed(src, x).prod = src.prod /\ Bypassed(src, x).cons = x.cons
           /\ Bypassed(src, x).port = x.port /\ Bypassed(src, x) \notin Data(Edges)
           /\ x.cons \in nodes \ {n} /\ x \in Data(operands[x.cons])
      /\ \A x, y \in Replaced(n) : Bypassed(src, x) = Bypassed(src, y) => x = y
  BY <1>2, <1>3, <1>4, BypassedEdges
<1>6. /\ \A x \in Kept(n) : T(x) = Tms(x)
      /\ \A x \in Replaced(n) : T(B(x)) = Tms(src) \o Tms(x)
  BY <1>2, <1>4, <1>5, BypassTms
<1>7. Nops' = Nops \ {n}
  <2>1. kind' = kind
    BY DEF BypassNode
  <2> QED BY <1>4, <2>1 DEF Nops
<1> HIDE DEF T, B
<1>8. \A x \in Replaced(n) : x \in Data(Edges) /\ x.prod = n
  BY DEF Replaced
<1>9. \A x \in Kept(n) : x \in Data(Edges) /\ x.prod # n /\ x.cons # n
  BY DEF Kept
<1>10. /\ Data(Edges') = Kept(n) \cup {B(x) : x \in Replaced(n)}
       /\ \A x \in Replaced(n) : /\ B(x).prod = src.prod /\ B(x).cons = x.cons
                                 /\ B(x).port = x.port /\ B(x) \notin Data(Edges)
                                 /\ x.cons \in nodes \ {n}
       /\ \A x, y \in Replaced(n) : B(x) = B(y) => x = y
  BY <1>5 DEF B
<1> DEFINE V == [x \in Data(Edges') |->
                   IF x \in Data(Edges) THEN W[x]
                   ELSE W[CHOOSE y \in Replaced(n) : B(y) = x]]
<1>11. ASSUME NEW x \in Kept(n) PROVE x \in Data(Edges') /\ V[x] = W[x]
  BY <1>9, <1>10
<1>12. ASSUME NEW x \in Replaced(n) PROVE B(x) \in Data(Edges') /\ V[B(x)] = W[x]
  <2> DEFINE c == CHOOSE y \in Replaced(n) : B(y) = B(x)
  <2>1. c \in Replaced(n) /\ B(c) = B(x)
    OBVIOUS
  <2>2. c = x
    <3> HIDE DEF c
    <3> QED BY <1>10, <2>1
  <2>3. B(x) \in Data(Edges') /\ B(x) \notin Data(Edges)
    BY <1>10
  <2>4. V[B(x)] = W[c]
    BY <2>3
  <2> QED BY <2>2, <2>3, <2>4
<1>13. V \in [Data(Edges') -> Arrivals]
  <2>1. ASSUME NEW x \in Data(Edges') PROVE V[x] \in Arrivals
    <3>1. PICK y \in Data(Edges) : V[x] = W[y]
      <4> HIDE DEF V
      <4> QED BY <1>8, <1>9, <1>10, <1>11, <1>12
    <3>2. W[y] \in Arrivals
      BY <1>1 DEF IsFlow
    <3> QED BY <3>1, <3>2
  <2>2. V = [x \in Data(Edges') |-> V[x]]
    OBVIOUS
  <2> HIDE DEF V
  <2> QED BY <2>1, <2>2
<1> HIDE DEF V
<1>14. ASSUME NEW m \in nodes \ {n}
       PROVE  /\ Data(operands'[m]) = {} <=> Data(operands[m]) = {}
              /\ \A z \in Data(operands'[m]) : \E y \in Data(operands[m]) : V[z] = W[y]
  <2>1. m \in Ids \ {n}
    BY <1>3
  <2>2. Data(operands'[m]) = Rest(m, n) \cup {B(u) : u \in Through(m, n)}
    BY <1>4, <2>1 DEF B
  <2>3. Data(operands[m]) = Rest(m, n) \cup Through(m, n)
    BY DEF Rest, Through
  <2>4. \A y \in Data(operands[m]) : y \in Data(Edges) /\ y.cons = m
    BY <1>2, <2>1 DEF Data, Edges, EdgesInv, EdgesMirrored, Mirrored
  <2>5. Rest(m, n) \subseteq Kept(n) /\ Through(m, n) \subseteq Replaced(n)
    BY <2>1, <2>4 DEF Rest, Through, Kept, Replaced
  <2> QED BY <1>11, <1>12, <2>2, <2>3, <2>5
<1>15. ASSUME NEW x \in Kept(n)
       PROVE  /\ x.prod \notin Nops' \/ Data(operands'[x.prod]) = {} => V[x] = <<x.prod, T(x)>>
              /\ x.prod \in Nops' =>
                   \A y \in Data(operands'[x.prod]) : V[x] = <<V[y][1], V[y][2] \o T(x)>>
  <2>1. /\ V[x] = W[x] /\ T(x) = Tms(x) /\ x.prod \in nodes \ {n}
        /\ x.prod \notin Looks => W[x] = <<x.prod, Tms(x)>>
        /\ x.prod \in Nops =>
             \A y \in Data(operands[x.prod]) : W[x] = <<W[y][1], W[y][2] \o Tms(x)>>
    <3>1. x \in Data(Edges) /\ x.prod # n
      BY <1>9
    <3>2. x.prod \in nodes
      BY <1>2, <3>1, EndsAreNodes DEF Data, Between
    <3> QED BY <1>1, <1>6, <1>11, <3>1, <3>2 DEF IsFlow
  <2>2. x.prod \notin Nops' \/ Data(operands'[x.prod]) = {} => x.prod \notin Looks
    BY <1>7, <1>14, <2>1 DEF Looks
  <2>3. ASSUME x.prod \in Nops', NEW y \in Data(operands'[x.prod])
        PROVE  V[x] = <<V[y][1], V[y][2] \o T(x)>>
    <3>1. PICK z \in Data(operands[x.prod]) : V[y] = W[z]
      BY <1>14, <2>1, <2>3
    <3>2. W[x] = <<W[z][1], W[z][2] \o Tms(x)>>
      BY <1>7, <2>1, <2>3
    <3> QED BY <2>1, <3>1, <3>2
  <2> QED BY <2>1, <2>2, <2>3
<1>16. PICK s, b : ArrivesAs(W, src, s, b)
  BY <1>1, <1>4, ArrivesAsExists
<1>17. ASSUME NEW x \in Replaced(n)
       PROVE  /\ B(x).prod \notin Nops' \/ Data(operands'[B(x).prod]) = {}
                   => V[B(x)] = <<B(x).prod, T(B(x))>>
              /\ B(x).prod \in Nops' =>
                   \A y \in Data(operands'[B(x).prod]) :
                     V[B(x)] = <<V[y][1], V[y][2] \o T(B(x))>>
  <2>1. B(x).prod = src.prod /\ V[B(x)] = W[x] /\ T(B(x)) = Tms(src) \o Tms(x)
    BY <1>6, <1>10, <1>12
  <2>2. s \in Ids /\ b \in Seq(TMs) /\ W[src] = <<s, b \o Tms(src)>>
    BY <1>16 DEF ArrivesAs
  <2>3. Tms(src) \in Seq(TMs) /\ Tms(x) \in Seq(TMs)
    <3>1. src \in Edges /\ x \in Edges
      BY <1>4, <1>8 DEF Data
    <3> QED BY <1>2, <3>1, TmsOfEdge
  <2>4. W[x] = <<W[src][1], W[src][2] \o Tms(x)>>
    BY <1>1, <1>4, <1>8 DEF IsFlow
  <2>5. b \o (Tms(src) \o Tms(x)) = (b \o Tms(src)) \o Tms(x)
    BY <2>2, <2>3, ConcatThrice
  <2>6. V[B(x)] = <<s, b \o T(B(x))>>
    BY <2>1, <2>2, <2>4, <2>5
  <2>7. ASSUME src.prod \notin Nops' \/ Data(operands'[src.prod]) = {}
        PROVE  V[B(x)] = <<src.prod, T(B(x))>>
    <3>1. src.prod \notin Looks
      BY <1>4, <1>7, <1>14, <2>7 DEF Looks
    <3>2. s = src.prod /\ b = <<>>
      BY <1>16, <3>1 DEF ArrivesAs
    <3>3. Tms(src) \o Tms(x) \in Seq(TMs)
      BY <2>3
    <3>4. <<>> \o T(B(x)) = T(B(x))
      BY <2>1, <3>3
    <3> QED BY <2>6, <3>2, <3>4
  <2>8. ASSUME src.prod \in Nops', NEW y \in Data(operands'[src.prod])
        PROVE  V[B(x)] = <<V[y][1], V[y][2] \o T(B(x))>>
    <3>1. PICK z \in Data(operands[src.prod]) : V[y] = W[z]
      BY <1>4, <1>14, <2>8
    <3>2. s = W[z][1] /\ b = W[z][2]
      BY <1>7, <1>16, <2>8 DEF ArrivesAs
    <3> QED BY <2>6, <3>1, <3>2
  <2> QED BY <2>1, <2>7, <2>8
<1>18. \A x \in Data(Edges') :
         /\ x.prod \notin Nops' \/ Data(operands'[x.prod]) = {} => V[x] = <<x.prod, T(x)>>
         /\ x.prod \in Nops' =>
              \A y \in Data(operands'[x.prod]) : V[x] = <<V[y][1], V[y][2] \o T(x)>>
  BY <1>10, <1>15, <1>17
<1>19. Arrives' = {<<x.cons, x.port, V[x]>> : x \in {y \in Data(Edges') : y.cons \notin Nops'}}
  BY <1>13, <1>18, ArrivesAfter DEF T
<1>20. {<<x.cons, x.port, V[x]>> : x \in {y \in Data(Edges') : y.cons \notin Nops'}} = Got(W)
  <2>1. ASSUME NEW x \in Data(Edges'), x.cons \notin Nops'
        PROVE  \E y \in Data(Edges) : /\ y.cons \notin Nops
                                      /\ <<x.cons, x.port, V[x]>> = <<y.cons, y.port, W[y]>>
    <3>1. CASE x \in Kept(n)
      BY <1>7, <1>9, <1>11, <2>1, <3>1
    <3>2. CASE \E y \in Replaced(n) : x = B(y)
      BY <1>7, <1>8, <1>10, <1>12, <2>1, <3>2
    <3> QED BY <1>10, <3>1, <3>2
  <2>2. ASSUME NEW x \in Data(Edges), x.cons \notin Nops
        PROVE  \E y \in Data(Edges') : /\ y.cons \notin Nops'
                                       /\ <<x.cons, x.port, W[x]>> = <<y.cons, y.port, V[y]>>
    <3>1. CASE x.prod = n
      <4>1. x \in Replaced(n)
        BY <3>1 DEF Replaced
      <4> QED BY <1>7, <1>10, <1>12, <2>2, <4>1
    <3>2. CASE x.prod # n
      <4>1. x \in Kept(n)
        BY <2>2, <3>2 DEF Kept
      <4> QED BY <1>7, <1>11, <2>2, <4>1
    <3> QED BY <3>1, <3>2
  <2> QED BY <2>1, <2>2 DEF Got
<1> QED BY <1>1, <1>19, <1>20

-----------------------------------------------------------------------------
(* The theorems.                                                           *)

GraphInv == EdgesInv /\ AttrsInv /\ NodeTypes

(* The three invariants hold together in every reachable graph.            *)
LEMMA GraphInvariant == Spec => []GraphInv
<1>1. Init => GraphInv
  BY EdgesInit, AttrsInit, TypesInit DEF GraphInv
<1>2. GraphInv /\ [Next]_vars => GraphInv'
  <2> SUFFICES ASSUME GraphInv, [Next]_vars PROVE GraphInv'
    OBVIOUS
  <2>1. EdgesInv'
    BY EdgesStep DEF GraphInv, NodeTypes
  <2>2. AttrsInv'
    BY AttrsStep DEF GraphInv
  <2>3. NodeTypes'
    BY TypesStep DEF GraphInv, EdgesInv
  <2> QED BY <2>1, <2>2, <2>3 DEF GraphInv
<1> QED BY <1>1, <1>2, PTL DEF Spec

(* Whatever graph the passes start from and however they rewrite it, the   *)
(* maps of the graph keep their types; in particular add_edge always finds *)
(* a free input port.                                                      *)
THEOREM TypeCorrect == Spec => []TypeOK
<1>1. GraphInv => TypeOK
  BY DEF GraphInv, EdgesInv, EdgeTypes, AttrsInv, NodeTypes, TypeOK
<1> QED BY <1>1, GraphInvariant, PTL

(* operands_map_ and users_map_ always describe the same edges, and only   *)
(* edges between nodes of the graph: no sequence of add, remove, insert,   *)
(* bypass and swap, failed ones included, leaves a dangling edge.          *)
THEOREM AlwaysMirrored == Spec => []EdgesMirrored
<1>1. GraphInv => EdgesMirrored
  BY DEF GraphInv, EdgesInv
<1> QED BY <1>1, GraphInvariant, PTL

(* get_edge_attributes never throws on an edge of the graph.               *)
THEOREM AttributesAlwaysPresent == Spec => []AttributesPresent
<1>1. GraphInv => AttributesPresent
  BY DEF GraphInv, AttrsInv, AttributesPresent
<1> QED BY <1>1, GraphInvariant, PTL

(* get_node_by_name finds every node under its name and nothing else, as   *)
(* long as update_node_name is not given a name that is in use.            *)
THEOREM NamesAlwaysResolve ==
  ASSUME RenameTaken = FALSE
  PROVE  Spec => []NamesResolve
<1>1. Init => NamesInv
  BY NamesInit
<1>2. GraphInv /\ NamesInv /\ [Next]_vars => NamesInv'
  BY NamesStep DEF GraphInv, EdgesInv
<1>3. NamesInv => NamesResolve
  BY DEF NamesInv
<1> QED BY <1>1, <1>2, <1>3, GraphInvariant, PTL DEF Spec

(* From a graph without cycles no sequence of operations makes one, so that *)
(* topological_sort always has an order to return.                         *)
THEOREM AlwaysAcyclic ==
  ASSUME InitAcyclic
  PROVE  Spec => []Acyclic
<1>1. Init => Acyclic
  BY DEF Init, Acyclic, InitAcyclic
<1>2. GraphInv /\ GraphInv' /\ Acyclic /\ [Next]_vars => Acyclic'
  BY AcyclicStep DEF GraphInv
<1> QED BY <1>1, <1>2, GraphInvariant, PTL DEF Spec

(* The operands of a node stay at ports of their own, so that their order, *)
(* which is what an op means, is never in doubt.                           *)
THEOREM PortsAlwaysUnique ==
  ASSUME InitAcyclic, InitPortsUnique
  PROVE  Spec => []PortsUnique
<1>1. Init => Acyclic /\ PortsUnique
  <2> SUFFICES ASSUME Init PROVE Acyclic /\ PortsUnique
    OBVIOUS
  <2>1. Acyclic
    BY DEF Init, Acyclic, InitAcyclic
  <2>2. nodes \subseteq Ids /\ \A n \in Ids : operands[n] = {e \in InitEdges : e.cons = n}
    BY GraphAssumption DEF Init, Ids
  <2>3. PortsUnique
    BY <2>2 DEF PortsUnique, InitPortsUnique, Data
  <2> QED BY <2>1, <2>3
<1>2. GraphInv /\ GraphInv' /\ Acyclic /\ [Next]_vars => Acyclic'
  BY AcyclicStep DEF GraphInv
<1>3. GraphInv /\ GraphInv' /\ Acyclic /\ PortsUnique /\ [Next]_vars => PortsUnique'
  BY PortsStep DEF GraphInv, EdgesInv
<1> QED BY <1>1, <1>2, <1>3, GraphInvariant, PTL DEF Spec

(* No two edges share an attribute object, so that append_tm on one leaves *)
(* the others alone, as long as no edge is added whose key still names an  *)
(* object that another edge was handed.                                    *)
THEOREM AttributesNeverShared ==
  ASSUME ReAddEdges = FALSE
  PROVE  Spec => []AttributesUnshared
<1>1. Init => UnsharedInv
  <2> SUFFICES ASSUME Init PROVE UnsharedInv
    OBVIOUS
  <2>1. DOMAIN attrs = InitEdges /\ \A e \in InitEdges : attrs[e] = e
    BY DEF Init
  <2>2. Edges \subseteq InitEdges
    BY DEF Init, Edges
  <2> QED BY <2>1, <2>2 DEF UnsharedInv
<1>2. GraphInv /\ UnsharedInv /\ [Next]_vars => UnsharedInv'
  BY UnsharedStep DEF GraphInv
<1>3. UnsharedInv => AttributesUnshared
  BY DEF UnsharedInv, AttributesUnshared
<1> QED BY <1>1, <1>2, <1>3, GraphInvariant, PTL DEF Spec

(* Inserting a nop on an edge and bypassing one change nothing that any    *)
(* other node gets: source, order of TMs and port are those from before,   *)
(* whatever was rewritten earlier.                                         *)
THEOREM NopsAlwaysTransparent ==
  ASSUME InitAcyclic, InitPortsUnique, InitNopsUnary, ReAddEdges = FALSE
  PROVE  Spec => NopsTransparent
<1> DEFINE J == Acyclic /\ PortsUnique /\ UnsharedInv /\ TmsTyped /\ UnaryInv
                  /\ nodes \subseteq 1..lastId
<1>1. Init => J
  <2> SUFFICES ASSUME Init PROVE J
    OBVIOUS
  <2>1. Acyclic
    BY DEF Init, Acyclic, InitAcyclic
  <2>2. /\ nodes \subseteq Ids /\ nodes \subseteq 1..lastId
        /\ \A m \in Ids : operands[m] = {e \in InitEdges : e.cons = m}
        /\ \A m \in nodes : kind[m] = InitKind[m]
    BY GraphAssumption DEF Init, Ids
  <2>3. PortsUnique
    BY <2>2 DEF PortsUnique, InitPortsUnique, Data
  <2>4. UnsharedInv
    <3>1. DOMAIN attrs = InitEdges /\ \A e \in InitEdges : attrs[e] = e
      BY DEF Init
    <3>2. Edges \subseteq InitEdges
      BY DEF Init, Edges
    <3> QED BY <3>1, <3>2 DEF UnsharedInv
  <2>5. TmsTyped
    <3>1. <<>> \in Seq(TMs)
      OBVIOUS
    <3> QED BY <3>1 DEF Init, TmsTyped
  <2>6. UnaryInv
    BY <2>2 DEF UnaryInv, UnaryNops, Nops, InitNopsUnary, Data
  <2> QED BY <2>1, <2>2, <2>3, <2>4, <2>5, <2>6
<1>2. GraphInv /\ GraphInv' /\ J /\ [Next]_vars => J'
  <2> SUFFICES ASSUME GraphInv, GraphInv', J, [Next]_vars PROVE J'
    OBVIOUS
  <2>1. EdgesInv /\ EdgesInv' /\ AttrsInv /\ NodeTypes /\ nodes' \subseteq Ids
    BY DEF GraphInv, EdgesInv
  <2>2. Acyclic'
    BY <2>1, AcyclicStep
  <2>3. PortsUnique'
    BY <2>1, PortsStep
  <2>4. UnsharedInv'
    BY <2>1, UnsharedStep
  <2>5. TmsTyped'
    BY <2>1, TmsStep
  <2>6. UnaryInv'
    BY <2>1, UnaryStep
  <2>7. (nodes \subseteq 1..lastId)'
    BY <2>1, IdsInOrderStep
  <2> QED BY <2>2, <2>3, <2>4, <2>5, <2>6, <2>7
<1>3. ASSUME GraphInv, GraphInv', J, J', status' = "ok",
             \/ \E n \in Nops : BypassNode(n)
             \/ \E e \in Data(Edges), n \in Nops, o \in BOOLEAN : InsertNodeOnEdge(e, n, o)
      PROVE  Arrives' = Arrives
  <2>1. status = "ok"
    BY <1>3 DEF BypassNode, InsertNodeOnEdge, Begin
  <2>2. FlowInv
    BY <1>3, <2>1 DEF FlowInv, GraphInv, UnaryInv
  <2>3. FlowInv'
    BY <1>3 DEF FlowInv, GraphInv, UnaryInv
  <2>4. CASE \E n \in Nops : BypassNode(n)
    BY <1>3, <2>2, <2>3, <2>4, BypassTransparent
  <2>5. CASE \E e \in Data(Edges), n \in Nops, o \in BOOLEAN : InsertNodeOnEdge(e, n, o)
    BY <1>3, <2>2, <2>3, <2>5, InsertTransparent
  <2> QED BY <1>3, <2>4, <2>5
<1> DEFINE Same == /\ status' = "ok"
                   /\ \/ \E n \in Nops : BypassNode(n)
                      \/ \E e \in Data(Edges), n \in Nops, o \in BOOLEAN : InsertNodeOnEdge(e, n, o)
                   => Arrives' = Arrives
<1>4. GraphInv /\ GraphInv' /\ J /\ J' /\ [Next]_vars => [Same]_vars
  BY <1>3
<1> HIDE DEF J, Same
<1>5. Spec => [][Same]_vars
  BY <1>1, <1>2, <1>4, GraphInvariant, PTL DEF Spec
<1> QED BY <1>5 DEF NopsTransparent, Same
=============================================================================
