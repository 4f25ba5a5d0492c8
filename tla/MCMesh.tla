--------------------------------- MODULE MCMesh ---------------------------------
(***************************************************************************)
(* The parts within the mesh for TLC: two primes and two directives, three *)
(* sandboxes, four tasks of three classes, two consumer groups, observers  *)
(* one of which throws, and five kinds of case for the evaluation board.   *)
(***************************************************************************)
EXTENDS Mesh, TLC

CONSTANTS
  nova, vega,           \* Sovereignty
  surface, packet,      \* AuditChain
  box1, box2, box3,     \* Sandbox
  t0, t1, t2, t3,       \* TaskQueue
  g1, g2                \* KafkaStub

TwoPrimes == {nova, vega}
NoSeeds == {}
OneSurface == {surface}
OnePacket == {packet}
ThreeSessions == {box1, box2, box3}
TwoNumbers == {"1", "2"}
SomeEnergies == {0, 50, 100}
FourTasks == {t0, t1, t2, t3}
OneCriticalTwoStandard ==
  [t \in FourTasks |-> CASE t = t0 -> 0 [] t \in {t1, t2} -> 1 [] t = t3 -> 2]

OneGroup == {g1}
BothGroups == {g1, g2}
GroupSymmetry == Permutations(BothGroups)

TwoObservers == <<"metrics", "throwing", "tracer">>
TwoBuckets == <<1, 3>>
Ev(dest, verdict, cost, took) == [dest |-> dest, verdict |-> verdict, cost |-> cost, took |-> took]
FourDispatches == {Ev("HOPE", "SUCCESS", 2, 4), Ev("DREAM", "SUCCESS", 1, 1),
                   Ev("DREAM", "LAW_3", 0, 3), Ev("HOPE", "FAILED", 0, 3)}

Case(sender, breaks, score, hint, legal, took) ==
  [sender |-> sender, breaks |-> breaks, content |-> score, hint |-> hint, legal |-> legal,
   took |-> took]
FiveCases == {Case("HOPE", "none", 150, -600, TRUE, 3), Case("HOPE", "none", 260, 300, FALSE, 1),
             Case("APEX", "none", 150, -300, TRUE, 4),
             Case("HOPE", "hash", 0, 0, FALSE, 2), Case("APEX", "law", 0, 0, FALSE, 1)}
TwoTrainings == {[rate |-> 400, risk |-> 2000, bias |-> 0], [rate |-> 0, risk |-> 0, bias |-> -600]}
=============================================================================
