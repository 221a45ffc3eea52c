---------------------------- MODULE MCConfigSync ----------------------------
(* Two servers, which are interchangeable.                                  *)
EXTENDS ConfigSync, TLC

CONSTANTS s1, s2, k1
MCServers == {s1, s2}
MCKeys == {k1}
MCKinds == {"redis", "file", "kafka"}
Interchangeable == Permutations(MCServers)
=============================================================================
