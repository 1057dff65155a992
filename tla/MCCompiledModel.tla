-------------------------- MODULE MCCompiledModel --------------------------
(***************************************************************************)
(* Instances of CompiledModel: two weights, a constant every program uses, *)
(* a constant only the backward program uses and an optimizer parameter.   *)
(***************************************************************************)
EXTENDS CompiledModel

MCNames == {"w0", "w10", "c", "k", "lr"}

MCParams == <<"w0", "w10">>

MCPersistent ==
  [pg \in Programs |->
     CASE pg = "fwd" -> <<"c", "w0", "w10">>
       [] pg = "bwd" -> <<"k", "w10">>
       [] pg = "opt" -> <<"w0", "w10", "lr">>]

MCAliased == {"w0", "w10"}

ExactMatches == {<<p, p>> : p \in MCAliased}

(* Python's "in": "0.weight" occurs in the output name of "10.weight".     *)
SubstringMatches == ExactMatches \cup {<<"w0", "w10">>}
=============================================================================
