------------------------ MODULE ConstEvalForks_proofs ------------------------
(***************************************************************************)
(* Splitting the forks of constants, between any other operations on the   *)
(* graph, leaves no dangling edge and makes no cycle, also where it stops  *)
(* half-way.                                                               *)
(***************************************************************************)
EXTENDS ConstEvalForks, GraphLib_proofs

-----------------------------------------------------------------------------
(* New nodes get new ids, and constants that are split are not their own   *)
(* users.                                                                  *)
SplitInv ==
  /\ EdgesInv
  /\ Acyclic
  /\ lastId \in 0..MaxId
  /\ nodes \subseteq 1..lastId

(* Ids are handed out in order.                                            *)
LEMMA IdsStep ==
  ASSUME SplitInv, [Next]_vars
  PROVE  lastId' \in 0..MaxId /\ nodes' \subseteq 1..lastId'
<1>1. MaxId \in Nat /\ lastId \in Nat
  BY GraphAssumption DEF SplitInv
<1>2. ASSUME NEW t, NEW k \in Kinds, AddNode(t, k)
      PROVE  lastId' \in 0..MaxId /\ nodes' \subseteq 1..lastId'
  <2>1. /\ lastId' = lastId + 1 /\ lastId < MaxId
        /\ nodes' \subseteq nodes \cup {lastId + 1}
    BY <1>2 DEF AddNode
  <2> QED BY <1>1, <2>1 DEF SplitInv
<1>3. ASSUME lastId' = lastId, nodes' \subseteq nodes
      PROVE  lastId' \in 0..MaxId /\ nodes' \subseteq 1..lastId'
  BY <1>3 DEF SplitInv
<1>4. ASSUME NEW n \in nodes, BypassNode(n)
      PROVE  lastId' = lastId /\ nodes' \subseteq nodes
  BY <1>4 DEF BypassNode
<1> QED BY ZenonT(60), <1>2, <1>3, <1>4 DEF Next, vars, AddEdge, RemoveEdge, RemoveNode,
          UpdateNodeName, AppendTm, InsertNodeOnEdge, Swap

(* The number of clones made before a name is in use.                      *)
LEMMA ClonesMade ==
  ASSUME NEW n, NEW s, Len(s) \in Nat
  PROVE  Clones(n, s) \in 0..Len(s)
<1> DEFINE Fresh(i) == ForkName(n, s[i]) \notin DOMAIN byName
           T == {i \in 1..Len(s) : ~Fresh(i)}
<1> SUFFICES \E k \in 0..Len(s) : /\ \A i \in 1..k : Fresh(i)
                                  /\ k = Len(s) \/ ~Fresh(k + 1)
  BY DEF Clones
<1>1. CASE T = {}
  <2>1. \A i \in 1..Len(s) : Fresh(i)
    BY <1>1
  <2>2. Len(s) \in 0..Len(s)
    OBVIOUS
  <2> HIDE DEF Fresh
  <2> QED BY <2>1, <2>2
<1>2. CASE T # {}
  <2>1. T \in SUBSET Nat
    OBVIOUS
  <2>2. PICK t \in T : \A i \in T : t <= i
    <3> HIDE DEF T
    <3> QED BY <1>2, <2>1, Least
  <2> HIDE DEF Fresh
  <2>3. t - 1 \in 0..Len(s) /\ t = (t - 1) + 1 /\ ~Fresh(t)
    OBVIOUS
  <2>4. \A i \in 1..(t - 1) : Fresh(i)
    BY <2>2
  <2> QED BY <2>3, <2>4
<1> QED BY <1>1, <1>2

(* A split moves users of n to new nodes.                                  *)
LEMMA SplitStep ==
  ASSUME SplitInv, NEW n \in nodes,
         NEW s \in [1..Cardinality(Data(users[n])) -> Data(users[n])],
         SplitForks(n, s)
  PROVE  SplitInv'
<1> DEFINE k    == Clones(n, s)
           done == k = Len(s)
           made == (lastId + 1)..(lastId + k)
           new  == {Forked(s, i) : i \in 1..k}
           N    == nodes \cup made
           o    == OperandsWith(new, Gone(n, s, k))
           u    == UsersWith(new, Gone(n, s, k))
<1>1. MaxId \in Nat /\ lastId \in Nat /\ nodes \subseteq Ids /\ n \in Ids
  BY GraphAssumption DEF SplitInv, EdgesInv
<1>2. Len(s) \in Nat /\ DOMAIN s = 1..Len(s)
  <2>1. IsFiniteSet(users[n])
    BY <1>1, EdgesFinite DEF SplitInv
  <2>2. Data(users[n]) \in SUBSET users[n]
    BY DEF Data
  <2>3. Cardinality(Data(users[n])) \in Nat
    BY <2>1, <2>2, FS_Subset, FS_CardinalityType
  <2>4. s \in Seq(Data(users[n]))
    BY <2>3
  <2> QED BY <2>3, <2>4
<1>3. k \in 0..Len(s)
  BY <1>2, ClonesMade
<1>4. /\ lastId + Len(s) <= MaxId
      /\ lastId' = IF done THEN lastId + k ELSE lastId + k + 1
      /\ nodes' = N \ (IF done THEN {n} ELSE {})
      /\ operands' = o /\ users' = u
  BY DEF SplitForks
<1>5. lastId' \in 0..MaxId /\ N \subseteq 1..lastId' /\ made \subseteq Ids
  <2> HIDE DEF k
  <2>1. k \in Nat /\ k <= Len(s) /\ Len(s) \in Nat
    BY <1>2, <1>3
  <2>2. nodes \subseteq 1..lastId
    BY DEF SplitInv
  <2>3. lastId' \in Nat /\ lastId + k <= lastId' /\ lastId' <= MaxId
    <3>1. CASE k = Len(s)
      <4>1. lastId' = lastId + k /\ lastId + k <= MaxId
        BY <1>4, <3>1
      <4> QED BY <1>1, <2>1, <4>1
    <3>2. CASE k # Len(s)
      <4>1. lastId' = lastId + k + 1 /\ lastId + Len(s) <= MaxId
        BY <1>4, <3>2
      <4>2. k + 1 <= Len(s)
        BY <2>1, <3>2
      <4> QED BY <1>1, <2>1, <4>1, <4>2
    <3> QED BY <3>1, <3>2
  <2> QED BY <1>1, <2>1, <2>2, <2>3 DEF Ids
<1>6. nodes \cap made = {}
  <2> HIDE DEF k
  <2> QED BY <1>1, <1>2, <1>3 DEF SplitInv
<1> DEFINE Forks(f) == \E i \in 1..k :
             /\ s[i] \in Data(users[n]) /\ s[i] \in Data(operands[s[i].cons])
             /\ s[i] \in Between(nodes) /\ s[i].cons \in nodes \ {n}
             /\ f.prod \in made /\ f.cons = s[i].cons /\ f.port = s[i].port
             /\ f \in Edge
<1>7. \A f \in new : Forks(f)
  <2> SUFFICES ASSUME NEW i \in 1..k PROVE Forks(Forked(s, i))
    OBVIOUS
  <2> DEFINE e == s[i]
  <2>1. i \in 1..Len(s) /\ lastId + i \in made
    <3> HIDE DEF k
    <3> QED BY <1>1, <1>2, <1>3
  <2>2. e \in Data(users[n])
    BY <1>2, <2>1
  <2>3. e \in Between(nodes)
    BY <1>1, <2>2, EndsAreNodes DEF Data, SplitInv
  <2>4. e.prod = n /\ e \in Data(operands[e.cons])
    BY <1>1, <2>2 DEF Data, SplitInv, EdgesInv, EdgesMirrored, Mirrored
  <2>5. e.cons # n
    <3> SUFFICES ASSUME e.cons = n PROVE FALSE
      OBVIOUS
    <3>1. Cycle({n}, operands)
      BY <2>4 DEF Cycle
    <3> QED BY <3>1, NoCycle DEF SplitInv
  <2>6. /\ Forked(s, i).prod = lastId + i /\ Forked(s, i).cons = e.cons
        /\ Forked(s, i).port = e.port /\ Forked(s, i) \in Edge
    BY <1>5, <2>1, <2>3 DEF Forked, Between, Edge
  <2>7. e.cons \in nodes \ {n}
    BY <2>3, <2>5 DEF Between
  <2> HIDE DEF k, made, e
  <2> QED BY <2>1, <2>2, <2>3, <2>4, <2>6, <2>7 DEF e
<1>8. new \in SUBSET Between(N)
  BY <1>7 DEF Between
<1> HIDE DEF new, made, k
<1>9. o \in [Ids -> SUBSET Edge] /\ u \in [Ids -> SUBSET Edge] /\ Mirrored(N, o, u)
  BY <1>8, RewireGrown DEF SplitInv
<1>10. Mirrored(nodes', operands', users')
  <2>1. CASE ~done
    BY <1>4, <1>9, <2>1
  <2>2. CASE done
    <3>1. Gone(n, s, k) = operands[n] \cup users[n]
      BY <2>2 DEF Gone
    <3>2. o[n] = {}
      BY <1>1, <1>7, <3>1 DEF OperandsWith
    <3>3. u[n] = {}
      BY <1>1, <1>6, <1>7, <3>1 DEF UsersWith
    <3>4. nodes' = N \ {n}
      BY <1>4, <2>2
    <3> HIDE DEF o, u, N
    <3>5. Mirrored(N \ {n}, o, u)
      BY <1>9, <3>2, <3>3 DEF Mirrored
    <3> QED BY <1>4, <3>4, <3>5
  <2> QED BY <2>1, <2>2
<1>11. PortsBounded'
  <2>1. PICK b \in Nat : \A m \in Ids : PortsBelow(b, operands[m])
    BY DEF SplitInv, EdgesInv, PortsBounded
  <2>2. ASSUME NEW f \in new PROVE f.port < b
    <3>1. PICK i \in 1..k : s[i] \in operands[s[i].cons] /\ s[i].cons \in nodes
                            /\ f.port = s[i].port
      BY <1>7 DEF Data
    <3> QED BY <1>1, <2>1, <3>1 DEF PortsBelow
  <2>3. \A m \in Ids : PortsBelow(b, o[m])
    BY <2>1, <2>2 DEF PortsBelow, OperandsWith
  <2> QED BY <1>4, <2>3 DEF PortsBounded
<1>12. nodes' \subseteq Ids /\ nodes' \subseteq N
  BY <1>1, <1>4, <1>5
<1>13. EdgesInv'
  BY <1>4, <1>9, <1>10, <1>11, <1>12 DEF EdgesInv, EdgeTypes, EdgesMirrored
<1>14. Acyclic'
  <2> SUFFICES ASSUME NEW S \in SUBSET nodes', Cycle(S, operands') PROVE FALSE
    BY DEF Acyclic, CyclicIn, Cycle
  <2>1. ASSUME NEW m \in S, NEW f \in Data(operands'[m])
        PROVE  f \in Data(operands[m]) \/ (f.prod \in made /\ m \in nodes)
    <3>1. m \in Ids /\ f \in o[m] /\ f.type = "data"
      BY <1>4, <1>12, <2>1 DEF Data
    <3>2. f \in operands[m] \/ (f \in new /\ f.cons = m)
      BY <3>1 DEF OperandsWith
    <3> QED BY <1>7, <3>1, <3>2 DEF Data
  <2>2. S \subseteq nodes
    <3> SUFFICES ASSUME NEW m \in S, m \notin nodes PROVE FALSE
      OBVIOUS
    <3>1. PICK f \in Data(operands'[m]) : f.prod \in S
      BY DEF Cycle
    <3>2. f \in operands[m] /\ m \in Ids
      BY <1>12, <2>1, <3>1 DEF Data
    <3> QED BY <3>2 DEF SplitInv, EdgesInv, EdgesMirrored, Mirrored
  <2>3. Cycle(S, operands)
    BY <1>6, <2>1, <2>2 DEF Cycle
  <2> QED BY <2>2, <2>3, NoCycle DEF SplitInv
<1> QED BY <1>4, <1>5, <1>12, <1>13, <1>14 DEF SplitInv

(* All operations keep the invariant, and so it holds.                     *)
LEMMA SplitInvariant ==
  ASSUME InitAcyclic
  PROVE  SplitSpec => []SplitInv
<1>1. Init => SplitInv
  <2> SUFFICES ASSUME Init PROVE SplitInv
    OBVIOUS
  <2>1. lastId \in 0..MaxId /\ nodes = 1..lastId
    BY GraphAssumption DEF Init
  <2>2. Acyclic
    BY DEF Init, Acyclic, InitAcyclic
  <2> QED BY <2>1, <2>2, EdgesInit DEF SplitInv
<1>2. SplitInv /\ [SplitNext]_vars => SplitInv'
  <2> SUFFICES ASSUME SplitInv, [SplitNext]_vars PROVE SplitInv'
    OBVIOUS
  <2>1. CASE [Next]_vars
    <3>1. EdgesInv'
      BY <2>1, EdgesStep DEF SplitInv
    <3>2. Acyclic'
      BY <2>1, <3>1, AcyclicStep DEF SplitInv
    <3> QED BY <2>1, <3>1, <3>2, IdsStep DEF SplitInv
  <2>2. ASSUME NEW n \in nodes,
               NEW s \in [1..Cardinality(Data(users[n])) -> Data(users[n])],
               SplitForks(n, s)
        PROVE  SplitInv'
    BY <2>2, SplitStep
  <2> QED BY <2>1, <2>2 DEF SplitNext
<1> QED BY <1>1, <1>2, PTL DEF SplitSpec

(* Wherever split_consteval_input_forks is interrupted by a name in use,   *)
(* operands_map_ and users_map_ agree and no edge has lost an end.         *)
THEOREM SplitAlwaysMirrored ==
  ASSUME InitAcyclic
  PROVE  SplitSpec => []EdgesMirrored
<1>1. SplitInv => EdgesMirrored
  BY DEF SplitInv, EdgesInv
<1> QED BY <1>1, SplitInvariant, PTL

(* Splitting constants makes no cycle either.                              *)
THEOREM SplitAlwaysAcyclic ==
  ASSUME InitAcyclic
  PROVE  SplitSpec => []Acyclic
<1>1. SplitInv => Acyclic
  BY DEF SplitInv
<1> QED BY <1>1, SplitInvariant, PTL

-----------------------------------------------------------------------------
(* What a split hands to the clones.                                       *)

(* The ids of the nodes of an edge, there now or removed, were handed out  *)
(* before: an edge of a clone has no entry in edge_to_attr_map_ yet.       *)
KnownEnds == DOMAIN attrs \subseteq Between(1..lastId)

(* No operation enters attributes for an edge of nodes there are not.      *)
LEMMA KnownGrows ==
  ASSUME SplitInv, KnownEnds, NEW made, attrs' = AttrsWith(made),
         DOMAIN made \subseteq Between(nodes), lastId' = lastId
  PROVE  KnownEnds'
<1>1. DOMAIN attrs' = DOMAIN attrs \cup DOMAIN made
  BY DEF AttrsWith
<1>2. Between(nodes) \subseteq Between(1..lastId)
  BY DEF Between, SplitInv
<1> QED BY <1>1, <1>2 DEF KnownEnds, Between

(* Every operation of the graph library keeps it.                          *)
LEMMA KnownStep ==
  ASSUME SplitInv, KnownEnds, [Next]_vars
  PROVE  KnownEnds'
<1>1. EdgesInv /\ lastId \in Nat
  BY GraphAssumption DEF SplitInv
<1>2. ASSUME attrs' = attrs, lastId' = lastId PROVE KnownEnds'
  BY <1>2 DEF KnownEnds, Between
<1>3. ASSUME NEW t, NEW k \in Kinds, AddNode(t, k) PROVE KnownEnds'
  <2>1. lastId' = lastId + 1 /\ attrs' = attrs
    BY <1>3 DEF AddNode, maps
  <2>2. 1..lastId \subseteq 1..lastId'
    BY <1>1, <2>1
  <2> QED BY <2>1, <2>2 DEF KnownEnds, Between
<1>4. ASSUME NEW p \in nodes, NEW c \in nodes, NEW t \in {"data", "control"}, AddEdge(p, c, t)
      PROVE  KnownEnds'
  <2> DEFINE e == [prod |-> p, cons |-> c, port |-> NextPort(c), type |-> t]
  <2>1. e \in Between(nodes)
    BY <1>1, NextPortIsPort DEF EdgesInv, Between, Edge
  <2>2. attrs' = AttrsWith(DefaultAttrs({e})) /\ lastId' = lastId
    BY <1>4 DEF AddEdge
  <2> HIDE DEF e
  <2>3. DOMAIN DefaultAttrs({e}) \subseteq Between(nodes)
    BY <2>1 DEF DefaultAttrs
  <2> QED BY <2>2, <2>3, KnownGrows
<1>5. ASSUME NEW e \in Data(Edges), NEW n \in nodes, NEW o \in BOOLEAN,
             InsertNodeOnEdge(e, n, o)
      PROVE  KnownEnds'
  <2>1. attrs' = AttrsWith(DefaultAttrs(InsertedEdges(e, n))) /\ lastId' = lastId
    BY <1>5 DEF InsertNodeOnEdge, InsertedEdges
  <2>2. DOMAIN DefaultAttrs(InsertedEdges(e, n)) \subseteq Between(nodes)
    BY <1>1, InsertedBetween DEF DefaultAttrs
  <2> QED BY <2>1, <2>2, KnownGrows
<1>6. ASSUME NEW n \in nodes, BypassNode(n) PROVE KnownEnds'
  <2> DEFINE src == CHOOSE e \in Data(operands[n]) : TRUE
             E == BypassEdges(src, n)
  <2>1. CASE Cardinality(Data(operands[n])) # 1
    BY <1>2, <1>6, <2>1 DEF BypassNode, maps
  <2>2. CASE Cardinality(Data(operands[n])) = 1
    <3>1. src \in Data(operands[n])
      BY <2>2, FS_EmptySet
    <3>2. E \subseteq Between(nodes)
      BY <1>1, <3>1, BypassBetween
    <3>3. attrs' = AttrsWith(DefaultAttrs(E)) /\ lastId' = lastId
      BY <1>6, <2>2 DEF BypassNode, BypassEdges
    <3> HIDE DEF E
    <3>4. DOMAIN DefaultAttrs(E) \subseteq Between(nodes)
      BY <3>2 DEF DefaultAttrs
    <3> QED BY <3>3, <3>4, KnownGrows
  <2> QED BY <2>1, <2>2
<1>7. ASSUME NEW e \in Data(Edges), Swap(e) PROVE KnownEnds'
  <2> DEFINE src == CHOOSE o \in Data(operands[e.prod]) : TRUE
             new == SwapTarget(e, src)
             E == SwapEdges(e, src)
             handed == [y \in E |-> attrs[CHOOSE x \in DOMAIN new : new[x] = y]]
  <2>1. src \in Data(operands[e.prod])
    <3>1. Cardinality(Data(operands[e.prod])) = 1
      BY <1>7 DEF Swap
    <3> QED BY <3>1, FS_EmptySet
  <2>2. E \subseteq Between(nodes)
    BY <1>1, <2>1, SwapBetween
  <2>3. attrs' = AttrsWith(handed) /\ lastId' = lastId
    BY <1>7 DEF Swap, SwapEdges
  <2>4. DOMAIN handed \subseteq Between(nodes)
    BY <2>2
  <2> HIDE DEF handed
  <2> QED BY <2>3, <2>4, KnownGrows
<1> QED BY <1>2, <1>3, <1>4, <1>5, <1>6, <1>7 DEF Next, vars, RemoveEdge, RemoveNode,
          UpdateNodeName, AppendTm

(* The users of a split constant, each with the clone made for it.         *)
LEMMA SplitUsers ==
  ASSUME SplitInv, NEW n \in nodes,
         NEW s \in [1..Cardinality(Data(users[n])) -> Data(users[n])],
         SplitForks(n, s)
  PROVE  /\ Len(s) \in Nat /\ Clones(n, s) \in 0..Len(s)
         /\ \A i \in 1..Len(s) :
              /\ s[i] \in Data(users[n]) /\ s[i] \in Between(nodes)
              /\ lastId + i \in Ids
         /\ \A i \in 1..Len(s) :
              /\ Forked(s, i) \in Edge
              /\ Forked(s, i).prod = lastId + i /\ Forked(s, i).cons = s[i].cons
              /\ Forked(s, i).port = s[i].port /\ Forked(s, i).type = "data"
<1>1. MaxId \in Nat /\ lastId \in Nat /\ n \in Ids
  BY GraphAssumption DEF SplitInv, EdgesInv
<1>2. Len(s) \in Nat /\ DOMAIN s = 1..Len(s)
  <2>1. IsFiniteSet(users[n])
    BY <1>1, EdgesFinite DEF SplitInv
  <2>2. Data(users[n]) \in SUBSET users[n]
    BY DEF Data
  <2>3. Cardinality(Data(users[n])) \in Nat
    BY <2>1, <2>2, FS_Subset, FS_CardinalityType
  <2>4. s \in Seq(Data(users[n]))
    BY <2>3
  <2> QED BY <2>3, <2>4
<1>3. Clones(n, s) \in 0..Len(s)
  BY <1>2, ClonesMade
<1>4. lastId + Len(s) <= MaxId
  BY DEF SplitForks
<1>5. ASSUME NEW i \in 1..Len(s)
      PROVE  s[i] \in Data(users[n]) /\ s[i] \in Between(nodes) /\ lastId + i \in Ids
  <2>1. s[i] \in Data(users[n])
    BY <1>2
  <2>2. s[i] \in Between(nodes)
    BY <1>1, <2>1, EndsAreNodes DEF Data, SplitInv
  <2> QED BY <1>1, <1>2, <1>4, <2>1, <2>2 DEF Ids
<1>6. ASSUME NEW i \in 1..Len(s)
      PROVE  /\ Forked(s, i) \in Edge
             /\ Forked(s, i).prod = lastId + i /\ Forked(s, i).cons = s[i].cons
             /\ Forked(s, i).port = s[i].port /\ Forked(s, i).type = "data"
  <2> DEFINE e == s[i]
  <2>1. e \in Edge /\ e.type = "data" /\ lastId + i \in Ids
    BY <1>5 DEF Between, Data
  <2>2. Forked(s, i) = [e EXCEPT !.prod = lastId + i]
    BY DEF Forked
  <2> HIDE DEF e
  <2>3. /\ Forked(s, i) \in Edge /\ Forked(s, i).prod = lastId + i
        /\ Forked(s, i).cons = e.cons /\ Forked(s, i).port = e.port
        /\ Forked(s, i).type = "data"
    BY <2>1, <2>2 DEF Edge
  <2> QED BY <2>3 DEF e
<1> QED BY <1>2, <1>3, <1>5, <1>6

(* A split enters attributes for the edges of clones only.                 *)
LEMMA KnownSplit ==
  ASSUME SplitInv, KnownEnds, NEW n \in nodes,
         NEW s \in [1..Cardinality(Data(users[n])) -> Data(users[n])],
         SplitForks(n, s)
  PROVE  KnownEnds'
<1> DEFINE k == Clones(n, s)
<1>1. lastId \in Nat /\ nodes \subseteq 1..lastId
  BY GraphAssumption DEF SplitInv
<1>2. attrs' = AttrsWith(HandedOn(s, k)) /\ lastId' = IF k = Len(s) THEN lastId + k ELSE lastId + k + 1
  BY DEF SplitForks
<1>3. Len(s) \in Nat /\ k \in 0..Len(s)
  BY SplitUsers
<1> HIDE DEF k
<1>4. lastId' \in Nat /\ lastId + k <= lastId'
  BY <1>1, <1>2, <1>3
<1>5. ASSUME NEW i \in 1..k PROVE Forked(s, i) \in Between(1..lastId')
  <2>1. i \in 1..Len(s)
    BY <1>3
  <2>2. /\ Forked(s, i) \in Edge /\ Forked(s, i).prod = lastId + i
        /\ Forked(s, i).cons \in nodes
    BY <2>1, SplitUsers DEF Between
  <2>3. lastId + i \in 1..lastId'
    BY <1>1, <1>3, <1>4
  <2>4. Forked(s, i).cons \in 1..lastId'
    <3>1. 1..lastId \subseteq 1..lastId'
      BY <1>1, <1>3, <1>4
    <3> QED BY <1>1, <2>2, <3>1
  <2> QED BY <2>2, <2>3, <2>4 DEF Between
<1>6. DOMAIN attrs' = DOMAIN attrs \cup {Forked(s, i) : i \in 1..k}
  BY <1>2 DEF AttrsWith, HandedOn
<1>7. 1..lastId \subseteq 1..lastId'
  BY <1>1, <1>3, <1>4
<1> QED BY <1>5, <1>6, <1>7 DEF KnownEnds, Between

(* A split that is done leaves no trace of the constant and gives each of  *)
(* its users what it had, from an input of its own.                        *)
LEMMA SplitHandsOver ==
  ASSUME SplitInv, KnownEnds, NEW n \in nodes,
         NEW s \in [1..Cardinality(Data(users[n])) -> Data(users[n])],
         SplitForks(n, s), status' = "ok", NEW e \in Data(users[n])
  PROVE  /\ n \notin nodes'
         /\ \E f \in Data(operands'[e.cons]) :
              /\ f.port = e.port
              /\ kind'[f.prod] = "input" /\ users'[f.prod] = {f}
              /\ tms'[attrs'[f]] = Tms(e)
<1> DEFINE k    == Clones(n, s)
           made == (lastId + 1)..(lastId + k)
           new  == {Forked(s, i) : i \in 1..k}
<1>1. lastId \in Nat /\ nodes \subseteq 1..lastId
  BY GraphAssumption DEF SplitInv
<1>2. k = Len(s)
  BY DEF SplitForks
<1>3. /\ nodes' = (nodes \cup made) \ {n}
      /\ kind' = [m \in Ids |-> IF m \in made THEN "input" ELSE kind[m]]
      /\ operands' = OperandsWith(new, Gone(n, s, k))
      /\ users' = UsersWith(new, Gone(n, s, k))
      /\ attrs' = AttrsWith(HandedOn(s, k))
      /\ tms' = tms
  BY <1>2 DEF SplitForks
<1>4. PICK i \in 1..Len(s) : s[i] = e
  <2>1. {s[i] : i \in DOMAIN s} = Data(users[n])
    BY DEF SplitForks, InUserOrder
  <2>2. DOMAIN s = 1..Len(s)
    <3>1. s \in Seq(Data(users[n])) \/ ~(Cardinality(Data(users[n])) \in Nat)
      OBVIOUS
    <3>2. Len(s) = Cardinality(Data(users[n])) /\ Len(s) \in Nat
      BY SplitUsers DEF SplitForks, InUserOrder
    <3> QED BY <3>1, <3>2
  <2> QED BY <2>1, <2>2
<1> DEFINE f == Forked(s, i)
<1>5. Len(s) \in Nat /\ lastId + i \in Ids /\ e \in Between(nodes)
  BY <1>4, SplitUsers
<1>6. /\ f \in Edge /\ f.prod = lastId + i /\ f.cons = e.cons
      /\ f.port = e.port /\ f.type = "data"
  BY <1>4, SplitUsers
<1> HIDE DEF k
<1>7. f \in new
  BY <1>2
<1>8. lastId + i \in made /\ lastId + i \notin nodes
  BY <1>1, <1>2, <1>5
<1>9. f \in Data(operands'[e.cons])
  <2>1. e.cons \in Ids
    BY <1>5 DEF Between, Edge
  <2> HIDE DEF new, f
  <2> QED BY <1>3, <1>6, <1>7, <2>1 DEF OperandsWith, Data
<1>10. kind'[f.prod] = "input"
  BY <1>3, <1>5, <1>6, <1>8
<1>11. ASSUME NEW g \in new, g.prod = lastId + i PROVE g = f
  <2>1. PICK j \in 1..Len(s) : g = Forked(s, j)
    BY <1>2, <1>11
  <2>2. g.prod = lastId + j
    BY <2>1, SplitUsers
  <2>3. j = i
    BY <1>1, <1>5, <1>11, <2>2
  <2> QED BY <2>1, <2>3
<1>12. users'[f.prod] = {f}
  <2>1. users[lastId + i] = {}
    BY <1>5, <1>8 DEF SplitInv, EdgesInv, EdgesMirrored, Mirrored
  <2> HIDE DEF new, f
  <2>2. users'[lastId + i] = {g \in new : g.prod = lastId + i}
    BY <1>3, <1>5, <2>1 DEF UsersWith
  <2> QED BY <1>6, <1>7, <1>11, <2>2
<1>13. attrs'[f] = attrs[e]
  <2>1. f \notin DOMAIN attrs
    BY <1>1, <1>5, <1>6 DEF KnownEnds, Between
  <2>2. \A j \in 1..k : Forked(s, j) = f => j = i
    <3> SUFFICES ASSUME NEW j \in 1..k, Forked(s, j) = f PROVE j = i
      OBVIOUS
    <3>1. Forked(s, j).prod = lastId + j
      BY <1>2, SplitUsers
    <3> QED BY <1>1, <1>2, <1>5, <1>6, <3>1
  <2>3. (CHOOSE j \in 1..k : Forked(s, j) = f) = i
    BY <1>2, <2>2
  <2>4. HandedOn(s, k)[f] = attrs[e] /\ f \in DOMAIN HandedOn(s, k)
    BY <1>4, <1>7, <2>3 DEF HandedOn
  <2> HIDE DEF f
  <2> QED BY <1>3, <2>1, <2>4 DEF AttrsWith
<1>14. n \notin nodes'
  BY <1>3
<1> QED BY <1>3, <1>6, <1>9, <1>10, <1>12, <1>13, <1>14 DEF Tms

(* After split_consteval_input_forks each op the constant went to reads,   *)
(* at the same port and through the same TMs, an input nobody else reads,  *)
(* whatever the passes before it did to the graph.                         *)
THEOREM ForksAlwaysSplit ==
  ASSUME InitAcyclic
  PROVE  SplitSpec => ForksSplit
<1>1. Init => KnownEnds
  <2> SUFFICES ASSUME Init PROVE KnownEnds
    OBVIOUS
  <2>1. lastId = Len(InitKind) /\ DOMAIN attrs = InitEdges /\ MaxId \in Nat
    BY GraphAssumption DEF Init
  <2>2. ASSUME NEW e \in InitEdges PROVE e \in Between(1..Len(InitKind))
    <3>1. /\ e \in Edge /\ e.prod <= Len(InitKind) /\ e.cons <= Len(InitKind)
          /\ e.prod \in 1..MaxId /\ e.cons \in 1..MaxId /\ Len(InitKind) \in Nat
      BY GraphAssumption DEF Edge, Ids
    <3> QED BY <2>1, <3>1 DEF Between
  <2> QED BY <2>1, <2>2 DEF KnownEnds
<1>2. SplitInv /\ KnownEnds /\ [SplitNext]_vars => KnownEnds'
  <2> SUFFICES ASSUME SplitInv, KnownEnds, [SplitNext]_vars PROVE KnownEnds'
    OBVIOUS
  <2>1. CASE [Next]_vars
    BY <2>1, KnownStep
  <2>2. ASSUME NEW n \in nodes,
               NEW s \in [1..Cardinality(Data(users[n])) -> Data(users[n])],
               SplitForks(n, s)
        PROVE  KnownEnds'
    BY <2>2, KnownSplit
  <2> QED BY <2>1, <2>2 DEF SplitNext
<1>3. SplitInv /\ KnownEnds /\ [SplitNext]_vars =>
        [\A n \in nodes :
           (\E s \in [1..Cardinality(Data(users[n])) -> Data(users[n])] : SplitForks(n, s))
             /\ status' = "ok"
           => /\ n \notin nodes'
              /\ \A e \in Data(users[n]) : \E f \in Data(operands'[e.cons]) :
                   /\ f.port = e.port
                   /\ kind'[f.prod] = "input" /\ users'[f.prod] = {f}
                   /\ tms'[attrs'[f]] = Tms(e)]_vars
  <2> SUFFICES ASSUME SplitInv, KnownEnds, NEW n \in nodes,
                      NEW s \in [1..Cardinality(Data(users[n])) -> Data(users[n])],
                      SplitForks(n, s), status' = "ok"
               PROVE  /\ n \notin nodes'
                      /\ \A e \in Data(users[n]) : \E f \in Data(operands'[e.cons]) :
                           /\ f.port = e.port
                           /\ kind'[f.prod] = "input" /\ users'[f.prod] = {f}
                           /\ tms'[attrs'[f]] = Tms(e)
    OBVIOUS
  <2>1. n \notin nodes'
    BY DEF SplitForks
  <2> QED BY <2>1, SplitHandsOver
<1> QED BY <1>1, <1>2, <1>3, SplitInvariant, PTL DEF SplitSpec, ForksSplit
=============================================================================
