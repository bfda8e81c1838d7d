-------------------------- MODULE MCProtocolInputs --------------------------
(* ProtocolInputs with words of five bits, a few policies and contracts,   *)
(* seconds of four units, shares in eighths, and matrices of three rows.   *)
EXTENDS ProtocolInputs, TLC

APolicy(limit, tasks, rate) ==
  [erase |-> 2, capacity |-> 4, compute |-> 1, hour |-> 3,
   ingress |-> limit, egress |-> 31, taskIngress |-> limit, taskEgress |-> 31,
   tasks |-> tasks, numerator |-> rate[1], denominator |-> rate[2],
   program |-> TRUE, agreed |-> TRUE]

MCPolicies ==
  {APolicy(limit, tasks, rate) :
     limit \in {8, 24}, tasks \in {1, 2}, rate \in {<<0, 1>>, <<2, 3>>, <<1, 1>>}}
  \union {[APolicy(24, 2, <<1, 1>>) EXCEPT !.program = FALSE],
          [APolicy(24, 2, <<1, 1>>) EXCEPT !.agreed = FALSE]}

MCDraws == [Tasks -> {20, 21}]

Interchangeable == Permutations(Tasks)

\* Contracts: one that is sound, with other numbers, and with one thing wrong.
Item(operation, n) == [operation |-> operation, n |-> n, committed |-> TRUE]
Manifest(items, work) == [items |-> items, work |-> work]
One == Manifest(<<Item("a", 2)>>, 8)
Two == Manifest(<<Item("a", 2), Item("b", 2)>>, 16)

Capacity ==
  [pod |-> "pod", incarnation |-> "old", gpus |-> 1, image |-> "image",
   perSecond |-> 15, perHour |-> 30, from |-> 1, until |-> 3]

Contract(capacity, share, manifest) ==
  [policy |-> [c |-> 5, share |-> share, production |-> TRUE],
   epoch |-> [id |-> "epoch", pod |-> "pod", incarnation |-> "old", opened |-> 1, closed |-> 3,
              workload |-> manifest],
   capacity |-> Signed("cupow capacity", AuditorKey, capacity),
   manifest |-> manifest]

Sound == Contract(Capacity, 6, One)

Calibrated ==
  {Contract([Capacity EXCEPT !.perSecond = second, !.perHour = hour], share, manifest) :
     second \in {15, 23}, hour \in {14, 30}, share \in {6, 8},
     manifest \in {One, Two, Manifest(<<Item("a", 4)>>, 64)}}

Flawed ==
  {[Sound EXCEPT !.epoch.pod = "another"], [Sound EXCEPT !.epoch.incarnation = "another"],
   [Sound EXCEPT !.epoch.closed = 4], [Sound EXCEPT !.epoch.closed = 1],
   [Sound EXCEPT !.epoch.opened = 0], [Sound EXCEPT !.epoch.workload = Two],
   [Sound EXCEPT !.capacity.key = "somebody"], [Sound EXCEPT !.policy.production = FALSE],
   Contract(Capacity, 0, One), Contract(Capacity, 9, One),
   Contract([Capacity EXCEPT !.perSecond = 0], 6, One),
   Contract(Capacity, 6, Manifest(<<Item("a", 2)>>, 7)),
   Contract(Capacity, 6, Manifest(<<Item("a", 2), Item("a", 2)>>, 16)),
   Contract(Capacity, 6, Manifest(<<[Item("a", 2) EXCEPT !.committed = FALSE]>>, 8)),
   Contract(Capacity, 6, Manifest(<<>>, 0)),
   Contract(Capacity, 6, Manifest(<<Item("a", 3)>>, 27))}

MCContracts == Calibrated \union Flawed

\* Another contract that has the name of the epoch.
MCElsewhere ==
  {Signed("cupow contract", AuditorKey,
          [Contract(Capacity, 6, Manifest(<<Item("b", 2)>>, 8)) EXCEPT !.epoch.closed = 4])}

Certificate ==
  [pod |-> "pod", old |-> "old", new |-> "new", image |-> "image",
   boundary |-> 3, destroyed |-> 3, started |-> 4]
MCCertificates ==
  {Certificate, [Certificate EXCEPT !.boundary = 2], [Certificate EXCEPT !.destroyed = 2],
   [Certificate EXCEPT !.started = 2], [Certificate EXCEPT !.pod = "another"],
   [Certificate EXCEPT !.old = "another"], [Certificate EXCEPT !.new = "old"]}

MCKeys == {AuditorKey, "somebody"}
MCInstants == 1 .. 4

\* One operation, and noise of which one factor is any one with small entries.
MCOperations ==
  {<<<< <<1, 2, 3>>, <<4, 0, 1>>, <<2, 2, 3>> >>, << <<4, 2, 0>>, <<1, 0, 1>>, <<3, 4, 3>> >>>>}
FullNoise ==
  [eLeft |-> << <<0, 1>>, <<1, 2>>, <<3, 4>> >>, eRight |-> << <<0, 0, 1>>, <<2, 1, 4>> >>,
   fLeft |-> << <<1, 1>>, <<1, 4>>, <<0, 3>> >>, fRight |-> << <<4, 3, 1>>, <<2, 1, 1>> >>]
MCFactors ==
  {[FullNoise EXCEPT !.eLeft = m] : m \in [1 .. 3 -> [1 .. 2 -> 0 .. 2]]} \union
  {[FullNoise EXCEPT !.fRight = m] : m \in [1 .. 2 -> [1 .. 3 -> {0, 1, 4}]]}
=============================================================================
