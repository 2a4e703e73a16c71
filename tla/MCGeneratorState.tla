-------------------------- MODULE MCGeneratorState --------------------------
(* Small instances of GeneratorState.                                      *)
EXTENDS GeneratorState, TLC

ConsumerSymmetry == Permutations(Consumers)
=============================================================================
