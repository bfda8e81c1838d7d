--------------------------- MODULE MCSealedEpoch ---------------------------
(* SealedEpoch with words of five bits and a few policies.                 *)
EXTENDS SealedEpoch, TLC

Interchangeable == Permutations(Requests) \union Permutations(Tasks)

APolicy(limit, tasks, rate) ==
  [erase |-> 1, capacity |-> 4, compute |-> 1, hour |-> 3,
   ingress |-> limit, egress |-> 31, taskIngress |-> limit, taskEgress |-> 16,
   tasks |-> tasks, numerator |-> rate[1], denominator |-> rate[2],
   program |-> TRUE, agreed |-> TRUE]

\* The last six allow nothing: no time, no compute, no program or another one, no rate,
\* too high a rate.
MCPolicies ==
  {APolicy(limit, tasks, rate) : limit \in {8, 24}, tasks \in {1, 2}, rate \in {<<1, 3>>, <<1, 1>>}}
  \union {[APolicy(24, 2, <<1, 1>>) EXCEPT !.erase = 0], [APolicy(24, 2, <<1, 1>>) EXCEPT !.compute = 0],
          [APolicy(24, 2, <<1, 1>>) EXCEPT !.program = FALSE],
          [APolicy(24, 2, <<1, 1>>) EXCEPT !.agreed = FALSE], APolicy(24, 2, <<0, 0>>),
          APolicy(24, 2, <<3, 2>>)}

MCDraws == [Tasks -> {9, 10}]
=============================================================================
