------------------------------ MODULE GraphLib ------------------------------
(***************************************************************************)
(* graphlib::Graph (forge/csrc/graph_lib/graph.hpp, graph.cpp) and the     *)
(* rewrites every compiler pass is made of (graph_lib/utils.cpp): the      *)
(* redundant maps a graph keeps of its nodes, names, edges and edge        *)
(* attributes, and the operations that have to keep them in step.          *)
(*                                                                         *)
(* The graph is a forward graph: data and control edges, no autograd       *)
(* edges, every producer output port 0.  Names are a base name and the     *)
(* consumers a fork clone was made for; TMs on an edge are a sequence.     *)
(***************************************************************************)
EXTENDS Naturals, Sequences, FiniteSets

CONSTANTS
  InitKind,     \* Seq: the kinds of the nodes of the initial graph
  InitEdges,    \* its data edges
  Bases,        \* base names new nodes are given
  TMs,          \* tensor manipulations passes put on edges
  ReAddEdges,   \* passes also connect nodes by an edge removed before; but a
                \* bypass always does, unless a swap handed its attributes on
  RenameTaken,  \* update_node_name is also called with a name in use
  MaxId, MaxOps, MaxTms   \* bounds of the model

Kinds == {"input", "op", "nop"}

Ids == 1..MaxId

Name == [base : Nat, forks : Seq(Nat)]

(* EdgeUniqueId; the edge creation id only orders query results.           *)
Edge == [prod : Ids, cons : Ids, port : Nat, type : {"data", "control"}]

BaseName(b) == [base |-> b, forks |-> <<>>]

ASSUME GraphAssumption ==
  /\ MaxId \in Nat /\ MaxOps \in Nat /\ MaxTms \in Nat
  /\ InitKind \in Seq(Kinds) /\ Len(InitKind) <= MaxId
  /\ InitEdges \subseteq {e \in Edge : e.prod <= Len(InitKind) /\ e.cons <= Len(InitKind)}
  /\ IsFiniteSet(InitEdges)
  /\ Bases \subseteq Nat
  /\ ReAddEdges \in BOOLEAN /\ RenameTaken \in BOOLEAN

VARIABLES
  nodes,      \* nodes_map_: the ids of the nodes in the graph
  kind,       \* node type, op name "nop" told apart
  name,       \* Node::name()
  byName,     \* node_name_to_node_id_
  operands,   \* operands_map_
  users,      \* users_map_
  attrs,      \* edge_to_attr_map_: the edge each attribute object was made for
  tms,        \* EdgeAttributes::tms of each attribute object
  lastId,     \* last_node_id_assigned_
  status,     \* "ok", or "aborted" after an exception left the compiler
  ops         \* operations so far

maps == <<operands, users, attrs, tms>>

vars == <<nodes, kind, name, byName, operands, users, attrs, tms, lastId, status, ops>>

-----------------------------------------------------------------------------
Data(E) == {e \in E : e.type = "data"}

Control(E) == {e \in E : e.type = "control"}

Edges == UNION {operands[n] : n \in Ids}

Tms(e) == tms[attrs[e]]

(* The operand map o has a data cycle among the nodes N.                   *)
CyclicIn(o, N) ==
  \E S \in (SUBSET N) \ {{}} : \A n \in S : \E e \in Data(o[n]) : e.prod \in S

(* Graph::add_edge of the edges E and Graph::remove_edge of the edges R.   *)
OperandsWith(E, R) == [n \in Ids |-> (operands[n] \ R) \cup {e \in E : e.cons = n}]

(* Fault: remove_edge leaves users_map_ alone.                             *)
UsersKept(E, R) == [n \in Ids |-> users[n] \cup {e \in E : e.prod = n}]

UsersWith(E, R) == [n \in Ids |-> (users[n] \ R) \cup {e \in E : e.prod = n}]

(* An edge that already has an entry keeps it: unordered_map::insert does  *)
(* not overwrite, and remove_edge does not erase.                          *)
AttrsWith(made) ==
  [e \in (DOMAIN attrs) \cup (DOMAIN made) |->
     IF e \in DOMAIN attrs THEN attrs[e] ELSE made[e]]

(* Faults: control edges get no attributes; one attribute object serves    *)
(* all edges an operation creates.                                         *)
DataAttrs(E) == [e \in Data(E) |-> e]

SharedAttrs(E) == [e \in E |-> CHOOSE x \in E : TRUE]

DefaultAttrs(E) == [e \in E |-> e]

TmsWith(E) ==
  [e \in (DOMAIN tms) \cup E |-> IF e \in DOMAIN tms THEN tms[e] ELSE <<>>]

(* Faults: the last port in use, or the number of operands, is taken for   *)
(* the next free port.                                                     *)
LastPort(n) ==
  CHOOSE p \in {0 - 1} \cup {e.port : e \in operands[n]} :
    \A e \in operands[n] : e.port <= p

OperandCount(n) == Cardinality(operands[n])

(* The input port add_edge picks when none is given.                       *)
NextPort(n) ==
  CHOOSE p \in {0} \cup {e.port + 1 : e \in operands[n]} :
    \A e \in operands[n] : e.port < p

-----------------------------------------------------------------------------
Init ==
  /\ nodes = 1..Len(InitKind)
  /\ kind = [n \in Ids |-> IF n \in nodes THEN InitKind[n] ELSE "op"]
  /\ name = [n \in Ids |-> BaseName(n)]
  /\ byName = [s \in {BaseName(n) : n \in nodes} |-> s.base]
  /\ operands = [n \in Ids |-> {e \in InitEdges : e.cons = n}]
  /\ users = [n \in Ids |-> {e \in InitEdges : e.prod = n}]
  /\ attrs = [e \in InitEdges |-> e]
  /\ tms = [e \in InitEdges |-> <<>>]
  /\ lastId = Len(InitKind)
  /\ status = "ok"
  /\ ops = 0

Begin ==
  /\ status = "ok"
  /\ ops < MaxOps
  /\ ops' = ops + 1

(* Graph::add_node throws if the name is taken, after the id is handed out.*)
AddNode(s, k) ==
  /\ Begin
  /\ lastId < MaxId
  /\ lastId' = lastId + 1
  /\ name' = [name EXCEPT ![lastId + 1] = s]
  /\ kind' = [kind EXCEPT ![lastId + 1] = k]
  /\ \/ /\ s \notin DOMAIN byName
        /\ nodes' = nodes \cup {lastId + 1}
        /\ byName' = [t \in (DOMAIN byName) \cup {s} |->
                        IF t = s THEN lastId + 1 ELSE byName[t]]
        /\ status' = "ok"
     \/ /\ s \in DOMAIN byName
        /\ status' = "aborted"
        /\ UNCHANGED <<nodes, byName>>
  /\ UNCHANGED maps

(* add_edge(producer, consumer, type), without attributes.                 *)
AddEdge(p, c, t) ==
  LET e == [prod |-> p, cons |-> c, port |-> NextPort(c), type |-> t] IN
  /\ Begin
  /\ t = "data" => kind[c] = "op" \/ (kind[c] = "nop" /\ Data(operands[c]) = {})
  /\ ~CyclicIn(OperandsWith({[e EXCEPT !.type = "data"]}, {}), nodes)
  /\ ReAddEdges \/ e \notin DOMAIN attrs
  /\ operands' = OperandsWith({e}, {})
  /\ users' = UsersWith({e}, {})
  /\ attrs' = AttrsWith(DefaultAttrs({e}))
  /\ tms' = TmsWith({e} \ DOMAIN attrs)
  /\ status' = "ok"
  /\ UNCHANGED <<nodes, kind, name, byName, lastId>>

RemoveEdge(e) ==
  /\ Begin
  /\ operands' = OperandsWith({}, {e})
  /\ users' = UsersWith({}, {e})
  /\ status' = "ok"
  /\ UNCHANGED <<nodes, kind, name, byName, attrs, tms, lastId>>

(* Graph::remove_node on one of the edge maps o and u.                     *)
WithoutNode(n, f, o, u) == [m \in Ids |-> IF m = n THEN {} ELSE f[m] \ (o[n] \cup u[n])]

(* Fault: node_name_to_node_id_ keeps the name.                            *)
ForgetNothing(s) == byName

Forget(s) == [t \in (DOMAIN byName) \ {s} |-> byName[t]]

RemoveNode(n) ==
  /\ Begin
  /\ nodes' = nodes \ {n}
  /\ byName' = Forget(name[n])
  /\ operands' = WithoutNode(n, operands, operands, users)
  /\ users' = WithoutNode(n, users, operands, users)
  /\ status' = "ok"
  /\ UNCHANGED <<kind, name, attrs, tms, lastId>>

IdOf(s) == IF s \in DOMAIN byName THEN byName[s] ELSE 0

UpdateNodeName(n, s) ==
  /\ Begin
  /\ RenameTaken \/ s \notin DOMAIN byName
  /\ name' = [name EXCEPT ![n] = s]
  /\ byName' = [t \in (DOMAIN Forget(name[n])) \cup {s} |->
                  IF t = s THEN IdOf(name[n]) ELSE byName[t]]
  /\ status' = "ok"
  /\ UNCHANGED <<nodes, kind, operands, users, attrs, tms, lastId>>

AppendTm(e, t) ==
  /\ Begin
  /\ Len(Tms(e)) < MaxTms
  /\ tms' = [tms EXCEPT ![attrs[e]] = Append(@, t)]
  /\ status' = "ok"
  /\ UNCHANGED <<nodes, kind, name, byName, operands, users, attrs, lastId>>

-----------------------------------------------------------------------------
(* insert_node_on_edge: n, not connected yet, goes between the two ends of *)
(* e; the TMs of e end up on one of the two new edges and the consumer's   *)
(* control operands become n's as well.                                    *)
Upper(e, n) == [e EXCEPT !.cons = n, !.port = 0]

Lower(e, n) == [e EXCEPT !.prod = n]

InheritedControl(e, n) == {Upper(o, n) : o \in Control(operands[e.cons])}

TmsInserted(e, n, outgoing, at) ==
  LET made    == TmsWith({at[Upper(e, n)], at[Lower(e, n)]} \cup InheritedControl(e, n))
      kept    == IF outgoing THEN Lower(e, n) ELSE Upper(e, n)
      cleared == IF outgoing THEN Upper(e, n) ELSE Lower(e, n)
  IN [k \in DOMAIN made |-> CASE k = at[cleared] -> <<>>
                               [] k # at[cleared] /\ k = at[kept] -> Tms(e)
                               [] OTHER -> made[k]]

InsertNodeOnEdge(e, n, outgoing) ==
  LET E == {Upper(e, n), Lower(e, n)} \cup InheritedControl(e, n) IN
  /\ Begin
  /\ operands[n] = {} /\ users[n] = {}
  /\ n \notin {e.prod, e.cons}
  /\ ReAddEdges \/ E \cap DOMAIN attrs = {}
  /\ operands' = OperandsWith(E, {e})
  /\ users' = UsersWith(E, {e})
  /\ attrs' = AttrsWith(DefaultAttrs(E))
  /\ tms' = TmsInserted(e, n, outgoing, attrs')
  /\ status' = "ok"
  /\ UNCHANGED <<nodes, kind, name, byName, lastId>>

(* bypass_node(graph, n, remove_node = true): the source of n is connected *)
(* to every data user of n, TMs concatenated; control operands of n are    *)
(* handed to its data users (handle_control_edges_when_removing_node).     *)
Bypassed(src, u) == [u EXCEPT !.prod = src.prod]

HandedDown(n) ==
  UNION {{[o EXCEPT !.cons = u.cons, !.port = u.port] : u \in Data(users[n])} :
           o \in Control(operands[n])}

(* Fault: the TMs of the edge into n are lost.                             *)
TmsOfUserOnly(n, src, E, at) ==
  LET made == TmsWith({at[e] : e \in E})
      to(k) == {u \in Data(users[n]) : at[Bypassed(src, u)] = k}
  IN [k \in DOMAIN made |->
        IF to(k) # {} THEN Tms(CHOOSE u \in to(k) : TRUE) ELSE made[k]]

TmsBypassed(n, src, E, at) ==
  LET made == TmsWith({at[e] : e \in E})
      to(k) == {u \in Data(users[n]) : at[Bypassed(src, u)] = k}
  IN [k \in DOMAIN made |->
        IF to(k) # {} THEN Tms(src) \o Tms(CHOOSE u \in to(k) : TRUE) ELSE made[k]]

(* No other edge, there now or removed, was handed e's attribute object.    *)
OwnsAttrs(e) == \A f \in (DOMAIN attrs) \ {e} : attrs[f] # attrs[e]

BypassNode(n) ==
  \/ /\ Begin
     /\ Cardinality(Data(operands[n])) # 1
     /\ status' = "aborted"
     /\ UNCHANGED <<nodes, kind, name, byName, lastId, maps>>
  \/ LET src == CHOOSE e \in Data(operands[n]) : TRUE
         E   == {Bypassed(src, u) : u \in Data(users[n])} \cup HandedDown(n)
         o   == OperandsWith(E, {})
         u   == UsersWith(E, {})
     IN
     /\ Begin
     /\ Cardinality(Data(operands[n])) = 1
     /\ ReAddEdges \/ \A e \in E \cap DOMAIN attrs : OwnsAttrs(e)
     /\ attrs' = AttrsWith(DefaultAttrs(E))
     /\ tms' = TmsBypassed(n, src, E, attrs')
     /\ UNCHANGED <<kind, name, lastId>>
     /\ \/ /\ Control(users[n]) = {}
           /\ nodes' = nodes \ {n}
           /\ byName' = Forget(name[n])
           /\ operands' = WithoutNode(n, o, o, u)
           /\ users' = WithoutNode(n, u, o, u)
           /\ status' = "ok"
        \/ /\ Control(users[n]) # {}
           /\ operands' = o
           /\ users' = u
           /\ status' = "aborted"
           /\ UNCHANGED <<nodes, byName>>

(* swap along e, as constant folding calls it: the producer is unary and   *)
(* has no other user.  Edges are replaced one by one, each handing its     *)
(* attribute object on to its replacement.                                 *)
Turned(e) == [e EXCEPT !.prod = e.cons, !.cons = e.prod, !.port = 0]

SwapTarget(e, src) ==
  [x \in {e, src} \cup Data(users[e.cons]) |->
     CASE x = e -> Turned(e)
       [] x = src -> [src EXCEPT !.cons = e.cons, !.port = e.port]
       [] OTHER -> [x EXCEPT !.prod = e.prod]]

(* Fault: the producer may have other users.                               *)
AnyUsers(e) == TRUE

OnlyUser(e) == Data(users[e.prod]) = {e}

Swap(e) ==
  LET src == CHOOSE o \in Data(operands[e.prod]) : TRUE
      new == SwapTarget(e, src)
      old == DOMAIN new
      E   == {new[x] : x \in old}
      handed == [y \in E |-> attrs[CHOOSE x \in old : new[x] = y]]
  IN
  /\ Begin
  /\ OnlyUser(e)
  /\ Cardinality(Data(operands[e.prod])) = 1
  /\ ReAddEdges \/ E \cap DOMAIN attrs = {}
  /\ operands' = OperandsWith(E, old)
  /\ users' = UsersWith(E, old)
  /\ attrs' = AttrsWith(handed)
  /\ status' = "ok"
  /\ UNCHANGED <<nodes, kind, name, byName, tms, lastId>>

-----------------------------------------------------------------------------
Next ==
  \/ \E b \in Bases, k \in Kinds : AddNode(BaseName(b), k)
  \/ \E p, c \in nodes, t \in {"data", "control"} : p # c /\ AddEdge(p, c, t)
  \/ \E e \in Edges : RemoveEdge(e)
  \/ \E n \in nodes : RemoveNode(n)
  \/ \E n \in nodes, b \in Bases : UpdateNodeName(n, BaseName(b))
  \/ \E e \in Edges, t \in TMs : AppendTm(e, t)
  \/ \E e \in Data(Edges), n \in nodes, o \in BOOLEAN : InsertNodeOnEdge(e, n, o)
  \/ \E n \in nodes : BypassNode(n)
  \/ \E e \in Data(Edges) : Swap(e)

Spec == Init /\ [][Next]_vars

-----------------------------------------------------------------------------
TypeOK ==
  /\ nodes \subseteq Ids
  /\ kind \in [Ids -> Kinds]
  /\ name \in [Ids -> Name]
  /\ DOMAIN byName \subseteq Name
  /\ operands \in [Ids -> SUBSET Edge]
  /\ users \in [Ids -> SUBSET Edge]
  /\ DOMAIN attrs \subseteq Edge
  /\ DOMAIN tms \subseteq Edge
  /\ lastId \in 0..MaxId
  /\ status \in {"ok", "aborted"}
  /\ ops \in 0..MaxOps

(* o and u hold the same edges, by consumer and by producer, all between   *)
(* nodes of N.                                                             *)
Mirrored(N, o, u) ==
  \A n \in Ids :
    /\ \A e \in o[n] : e.cons = n /\ n \in N /\ e \in u[e.prod]
    /\ \A e \in u[n] : e.prod = n /\ n \in N /\ e \in o[e.cons]

(* operands_map_ and users_map_ are two views of one set of edges, and no  *)
(* edge outlives one of its ends: node_by_id on an edge's end never throws.*)
EdgesMirrored == Mirrored(nodes, operands, users)

(* get_node_by_name finds every node of the graph under the name it has,   *)
(* and nothing under a name no node has.                                   *)
NamesResolve ==
  /\ \A n \in nodes : name[n] \in DOMAIN byName /\ byName[name[n]] = n
  /\ \A s \in DOMAIN byName : byName[s] \in nodes /\ name[byName[s]] = s

(* get_edge_attributes (unordered_map::at) succeeds for every edge.        *)
AttributesPresent ==
  \A n \in Ids : \A e \in operands[n] : e \in DOMAIN attrs /\ attrs[e] \in DOMAIN tms

(* A node never has two data operands at the same input port: operand      *)
(* order, which is the meaning of an op, is well defined.                  *)
PortsUnique ==
  status = "ok" =>
    \A n \in nodes : \A e, f \in Data(operands[n]) : e.port = f.port => e = f

(* No rewrite makes a data cycle: topological_sort stays meaningful.       *)
Acyclic == ~CyclicIn(operands, nodes)

(* Two edges of the graph never share one mutable attribute object, so     *)
(* append_tm on one edge leaves the others alone.                          *)
AttributesUnshared ==
  status = "ok" => \A e, f \in Edges : attrs[e] = attrs[f] => e = f

(* What arrives at the input ports of the nodes that compute something:    *)
(* the source, looking through nops, and all TMs on the way.               *)
Nops == {n \in nodes : kind[n] = "nop"}

Onward(w) ==
  [e \in Data(Edges) |->
     LET above == Data(operands[e.prod]) IN
     IF e.prod \in Nops /\ above # {}
     THEN LET up == w[CHOOSE x \in above : TRUE] IN <<up[1], up[2] \o Tms(e)>>
     ELSE <<e.prod, Tms(e)>>]

Arrives ==
  LET walk[d \in 0..Cardinality(nodes)] ==
        IF d = 0 THEN [e \in Data(Edges) |-> <<e.prod, Tms(e)>>] ELSE Onward(walk[d - 1])
  IN {<<e.cons, e.port, walk[Cardinality(nodes)][e]>> :
        e \in {x \in Data(Edges) : x.cons \notin Nops}}

(* Inserting a nop on an edge (insert_node_on_edge) and bypassing one      *)
(* (bypass_node, the remove_nops pass) change nothing any other node gets. *)
NopsTransparent ==
  [][ /\ status' = "ok"
      /\ \/ \E n \in Nops : BypassNode(n)
         \/ \E e \in Data(Edges), n \in Nops, o \in BOOLEAN : InsertNodeOnEdge(e, n, o)
      => Arrives' = Arrives ]_vars

(* "Swap the order of producer / consumer pair along this edge": the edges *)
(* that swap re-creates carry the attributes of the edges they replace.    *)
SwapKeepsTms ==
  [][ \A e \in Data(Edges) : Swap(e) =>
        \A o \in Data(operands[e.prod]) : \A x \in DOMAIN SwapTarget(e, o) :
          tms'[attrs'[SwapTarget(e, o)[x]]] = Tms(x) ]_vars
=============================================================================
