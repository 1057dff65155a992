--------------------------- MODULE ConstEvalForks ---------------------------
(***************************************************************************)
(* split_consteval_input_forks (forge/csrc/passes/consteval.cpp) on a      *)
(* graph that other passes rewrite: a constant that several ops use is     *)
(* cloned once per user (clone_input_forking_edge, graph_lib/utils.cpp),   *)
(* removed, and the first clone takes over its name.  Every input of the   *)
(* model is a constant or a parameter of an inference graph.               *)
(***************************************************************************)
EXTENDS GraphLib

(* input_can_consteval: no op uses the input twice, and every user depends *)
(* on inputs only.                                                         *)
CanConsteval(n) ==
  /\ kind[n] = "input"
  /\ \A e, f \in Data(users[n]) : e.cons = f.cons => e = f
  /\ \A e \in Data(users[n]) : \A o \in Data(operands[e.cons]) : kind[o.prod] = "input"

ForkName(n, e) == [name[n] EXCEPT !.forks = Append(@, e.cons)]

(* The user edges of n in the order user_data_edges returns them.          *)
InUserOrder(n, s) ==
  /\ Len(s) = Cardinality(Data(users[n]))
  /\ {s[i] : i \in DOMAIN s} = Data(users[n])
  /\ \A i, j \in DOMAIN s : i < j => s[i].port <= s[j].port

(* How many clones are made before add_node throws on a name in use.       *)
Clones(n, s) ==
  CHOOSE k \in 0..Len(s) :
    /\ \A i \in 1..k : ForkName(n, s[i]) \notin DOMAIN byName
    /\ k = Len(s) \/ ForkName(n, s[k + 1]) \in DOMAIN byName

(* Fault: the clone is connected to input port 0.                          *)
ForkedAtZero(s, i) == [s[i] EXCEPT !.prod = lastId + i, !.port = 0]

Forked(s, i) == [s[i] EXCEPT !.prod = lastId + i]

(* The edges that disappear with n, and the attribute objects that the     *)
(* edges of the clones take over.                                          *)

(* Fault: remove_node only takes the edges that were moved.                *)
GoneMoved(n, s, k) == {s[i] : i \in 1..k}

Gone(n, s, k) ==
  IF k = Len(s) THEN operands[n] \cup users[n] ELSE {s[i] : i \in 1..k}

HandedOn(s, k) ==
  [e \in {Forked(s, i) : i \in 1..k} |->
     attrs[s[CHOOSE i \in 1..k : Forked(s, i) = e]]]

(* The first clone gets the name of the node that is gone by set_name,     *)
(* which does not reach node_name_to_node_id_.                             *)
SplitForks(n, s) ==
  LET k     == Clones(n, s)
      done  == k = Len(s)
      made  == (lastId + 1)..(lastId + k)
      fork  == [m \in made |-> ForkName(n, s[m - lastId])]
      new   == {Forked(s, i) : i \in 1..k}
      known == IF done THEN Forget(name[n]) ELSE byName
  IN
  /\ Begin
  /\ CanConsteval(n)
  /\ InUserOrder(n, s)
  /\ Len(s) > 1
  /\ lastId + Len(s) <= MaxId
  /\ lastId' = IF done THEN lastId + k ELSE lastId + k + 1
  /\ nodes' = (nodes \cup made) \ (IF done THEN {n} ELSE {})
  /\ kind' = [m \in Ids |-> IF m \in made THEN "input" ELSE kind[m]]
  /\ name' = [m \in Ids |-> CASE m = lastId + 1 /\ done -> name[n]
                              [] m \in made /\ ~(m = lastId + 1 /\ done) -> fork[m]
                              [] OTHER -> name[m]]
  /\ byName' = [t \in (DOMAIN known) \cup {fork[m] : m \in made} |->
                  IF \E m \in made : fork[m] = t
                  THEN CHOOSE m \in made : fork[m] = t ELSE known[t]]
  /\ operands' = OperandsWith(new, Gone(n, s, k))
  /\ users' = UsersWith(new, Gone(n, s, k))
  /\ attrs' = AttrsWith(HandedOn(s, k))
  /\ status' = IF done THEN "ok" ELSE "aborted"
  /\ UNCHANGED tms

SplitNext ==
  \/ Next
  \/ \E n \in nodes : \E s \in [1..Cardinality(Data(users[n])) -> Data(users[n])] :
        SplitForks(n, s)

SplitSpec == Init /\ [][SplitNext]_vars

-----------------------------------------------------------------------------
(* After a split every former user of the constant has, at the same input  *)
(* port and with the same TMs, an input of its own to fold into, and the   *)
(* constant is gone.                                                       *)
ForksSplit ==
  [][ \A n \in nodes :
        (\E s \in [1..Cardinality(Data(users[n])) -> Data(users[n])] : SplitForks(n, s))
          /\ status' = "ok"
        => /\ n \notin nodes'
           /\ \A e \in Data(users[n]) : \E f \in Data(operands'[e.cons]) :
                /\ f.port = e.port
                /\ kind'[f.prod] = "input" /\ users'[f.prod] = {f}
                /\ tms'[attrs'[f]] = Tms(e) ]_vars

(* "Need to maintain original name because user can access it by name":    *)
(* get_node_by_name finds the input that bears the name.                   *)
AccessibleByName ==
  \A n \in nodes : kind[n] = "input" => name[n] \in DOMAIN byName /\ byName[name[n]] = n
=============================================================================
