--------------------------- MODULE MCPodLifecycle ---------------------------
(* PodLifecycle on small instances.                                        *)
EXTENDS PodLifecycle, TLC

\* The operators may be exchanged.
Interchangeable == Permutations(Operators)
=============================================================================
