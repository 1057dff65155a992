---------------------------- MODULE MCTrainedModel ----------------------------
(***************************************************************************)
(* Small models to train: all of two inputs and two ops that are well      *)
(* posed, and some with more ops, where values have several uses.          *)
(***************************************************************************)
EXTENDS TrainedModel, TracedModel

MCOptimizers == {"none", "SGD", "Adam"}

Weight == [kind |-> "Parameter", grad |-> TRUE]
Frozen == [kind |-> "Parameter", grad |-> FALSE]
Sample == [kind |-> "Activation", grad |-> FALSE]
Hidden == [kind |-> "Activation", grad |-> TRUE]

Op(kind, operands) == [kind |-> kind, operands |-> operands]
Ops(numbers) == [kind : {"exp", "nop"}, operands : {<<a>> : a \in numbers}]
                \cup [kind : {"add", "multiply"}, operands : numbers \X numbers]

Pairs == [inputs : {<<Weight, Weight>>, <<Sample, Weight>>, <<Hidden, Weight>>, <<Frozen, Hidden>>},
          ops : {<<a, b>> : a \in Ops({1, 2}), b \in Ops({1, 2, 3})},
          outputs : {<<4>>, <<3, 4>>, <<4, 3>>}, loss : BOOLEAN]

\* The value that node i carries once the nops are gone.
RECURSIVE Carried(_, _)
Carried(p, i) ==
    IF i > Len(p.inputs) /\ p.ops[i - Len(p.inputs)].kind = "nop"
    THEN Carried(p, p.ops[i - Len(p.inputs)].operands[1]) ELSE i

RECURSIVE NeedsGrad(_, _)
NeedsGrad(p, i) ==
    IF i <= Len(p.inputs) THEN p.inputs[i].grad
    ELSE \E j \in ToSet(p.ops[i - Len(p.inputs)].operands) : NeedsGrad(p, j)

\* Nothing is unused, outputs are of different ops, a loss is the one output.
WellPosed(p) ==
    /\ \A i \in 1..Len(p.inputs) + Len(p.ops) :
        i \in ToSet(p.outputs) \/ \E o \in ToSet(p.ops) : i \in ToSet(o.operands)
    /\ \A o \in ToSet(p.outputs) : Carried(p, o) > Len(p.inputs)
    /\ IsInjective([o \in DOMAIN p.outputs |-> Carried(p, p.outputs[o])])
    /\ p.loss => Len(p.outputs) = 1

AllTrained(p) == \A o \in ToSet(p.outputs) : NeedsGrad(p, o)

Larger ==
    {[inputs |-> <<Weight, Sample>>, ops |-> <<Op("exp", <<1>>), Op("multiply", <<3, 3>>), Op("add", <<4, 2>>)>>,
      outputs |-> <<5, 3>>, loss |-> FALSE],
     [inputs |-> <<Hidden>>, ops |-> <<Op("exp", <<1>>), Op("nop", <<2>>), Op("multiply", <<3, 2>>), Op("exp", <<4>>)>>,
      outputs |-> <<5, 4>>, loss |-> FALSE],
     [inputs |-> <<Weight, Weight, Sample>>,
      ops |-> <<Op("multiply", <<1, 3>>), Op("multiply", <<4, 2>>), Op("add", <<5, 4>>)>>,
      outputs |-> <<6>>, loss |-> TRUE]}

WithGraph(p) == [graph |-> GraphOf(p)] @@ p
MCPrograms == {WithGraph(p) : p \in {q \in Pairs : WellPosed(q) /\ AllTrained(q)} \cup Larger}

\* Models one of whose outputs depends on nothing that is trained.
PartlyTrained == {p \in Pairs : WellPosed(p) /\ ~AllTrained(p) /\ ~p.loss /\ NeedsGrad(p, 4)}

=============================================================================
