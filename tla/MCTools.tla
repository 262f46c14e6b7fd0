------------------------------ MODULE MCTools ------------------------------
(* Three of the repository's tools, which share nothing and of which one runs: *)
(* the Core v0.2 conformance runner over a transcript, the runner for an       *)
(* implementation under test with the adapter it invokes, and the pairwise     *)
(* interoperability test.                                                      *)
EXTENDS MCCoreRunner, IutRunner, Pairwise

VARIABLE tool  \* the one that runs

toolVars == <<allVars, adapterVars, iutVars, pairVars, tool>>

ToolsInit ==
  /\ tool \in {"core_runner", "iut", "pairwise"}
  /\ RunnerInit /\ IutInit /\ PairInit

ToolsNext ==
  /\ \/ tool = "core_runner" /\ RunnerNext /\ UNCHANGED <<adapterVars, iutVars, pairVars>>
     \/ tool = "iut" /\ IutNext /\ UNCHANGED <<allVars, pairVars>>
     \/ tool = "pairwise" /\ PairNext /\ UNCHANGED <<allVars, adapterVars, iutVars>>
  /\ UNCHANGED tool

ToolsSpec == ToolsInit /\ [][ToolsNext]_toolVars /\ AdapterFairness

\* Limits: the full plan's answers, and no error output at all.
MCLimit == [stdout |-> 4, stderr |-> 0]
MCMaxLines == [stdout |-> 5, stderr |-> 0]

MCProducers == [m \in Modes |-> IF m = "smoke" THEN <<>> ELSE <<"scenario">>]
MCConsumers == [m \in Modes |->
  IF m = "smoke" THEN <<[scope |-> "normal", accepted |-> TRUE, clean |-> TRUE]>> ELSE <<>>]

Described == [complete |-> TRUE, external |-> TRUE, supports |-> TRUE, digest |-> 1]
MCMetadata == {Described, [Described EXCEPT !.external = FALSE]}
=============================================================================
