---------------------------- MODULE MCGobootCli -----------------------------
(* Two processes, and a plugin list that is empty, has one or two entries: *)
(* a plugin that emits a JSON document and one that emits marked Go.       *)
EXTENDS GobootCli, TLC

MCConfigs == {<<>>, "validate" :> 1, ("openapi" :> 1) @@ ("validate" :> 1)}

Interchangeable == Permutations(Procs)

\* One plugin whose pinned version is edited.
PinConfigs == {"metrics" :> 1, "metrics" :> 2}
=============================================================================
