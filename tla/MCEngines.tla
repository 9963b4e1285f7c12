------------------------------ MODULE MCEngines ------------------------------
(* Two models of which only one fits beside the other's smaller size, an   *)
(* in-process engine and a hosted one, two threads, two hosts.             *)
EXTENDS Engines, TLC

CONSTANTS t1, t2, h1, h2, m1, m2
MCThreads == {t1, t2}
MCHosts == {h1, h2}
MCModels == {m1, m2}
MCKinds == {"llama_cpp", "vllm"}
MCLinked == {"llama_cpp"}
MCSizes == {0, 2, 3}
\* Thread, host and model names are only compared; every property treats
\* them alike.
MCSymmetry ==
  Permutations(MCThreads) \cup Permutations(MCHosts) \cup Permutations(MCModels)
=============================================================================
