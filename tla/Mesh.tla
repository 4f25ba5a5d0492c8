---------------------------------- MODULE Mesh ----------------------------------
(***************************************************************************)
(* The parts within the mesh: the sovereigns over it, KNOLL's audit chain, *)
(* the node fleet and DREAM on it, VISION's sandboxes and its calculator,  *)
(* the tools and tasks it lets in, DREAM's scheduler, the bus and the task *)
(* queue that carry the packets, the meters over them, and KNOLL with its  *)
(* learned scorer on the evaluation board.  As in Gateway they share no    *)
(* state, and one behaviour moves one of them.                             *)
(***************************************************************************)
EXTENDS Sovereignty, AuditChain, Fleet, Sandbox, SafeArithmetic, DreamScheduler,
        TaskQueue, KafkaStub, Meters, Vetting, LearnedGate

VARIABLE part   \* the part that this behaviour moves

Init ==
  /\ SovereignInit /\ ChainInit /\ FleetInit /\ SandboxInit
  /\ ArithmeticInit /\ SchedulerInit /\ QueueInit /\ BusInit /\ MeterInit /\ VettingInit
  /\ LearnedInit
  /\ part \in {"sovereign", "chain", "fleet", "sandbox", "arithmetic", "scheduler", "queue", "bus",
              "meters", "vetting", "learned"}
  \* What a part begins with differs only where the behaviour is about that part.
  /\ part # "sovereign" => ~registry
  /\ part # "fleet" => user = "DREAM"
  /\ part # "learned" => /\ heuristic /\ mode = "shadow"
                         /\ model = (CHOOSE weights \in WeightSets : TRUE)

Next ==
  /\ UNCHANGED part
  /\ \/ part = "sovereign" /\ SovereignNext
     \/ part # "sovereign" /\ UNCHANGED sovereignVars
  /\ \/ part = "chain" /\ ChainNext
     \/ part # "chain" /\ UNCHANGED chainVars
  /\ \/ part = "fleet" /\ FleetNext
     \/ part # "fleet" /\ UNCHANGED fleetVars
  /\ \/ part = "sandbox" /\ SandboxNext
     \/ part # "sandbox" /\ UNCHANGED sandboxVars
  /\ \/ part = "arithmetic" /\ ArithmeticNext
     \/ part # "arithmetic" /\ UNCHANGED tokens
  /\ \/ part = "scheduler" /\ SchedulerNext
     \/ part # "scheduler" /\ UNCHANGED schedulerVars
  /\ \/ part = "queue" /\ QueueNext
     \/ part # "queue" /\ UNCHANGED queueVars
  /\ \/ part = "bus" /\ BusNext
     \/ part # "bus" /\ UNCHANGED busVars
  /\ \/ part = "meters" /\ MeterNext
     \/ part # "meters" /\ UNCHANGED meterVars
  /\ \/ part = "vetting" /\ VettingNext
     \/ part # "vetting" /\ UNCHANGED vettingVars
  /\ \/ part = "learned" /\ LearnedNext
     \/ part # "learned" /\ UNCHANGED learnedVars

vars == <<part, sovereignVars, chainVars, fleetVars, sandboxVars, tokens, schedulerVars, queueVars,
          busVars, meterVars, vettingVars, learnedVars>>
Spec == Init /\ [][Next]_vars
-----------------------------------------------------------------------------
(* What a part is for, in one property of its own. *)

\* DREAM leaves the fleet as it found it, Postgres' copy of the fleet is true,
\* its scheduler misses nothing of the stream, and an idled manager stays idle.
DreamIsSound == [](DreamEndsClean /\ MirrorIsTrue /\ StreamIsHeard) /\ IdleForGood

\* VISION's sandboxes are accounted for, freed, and left by nobody, and the tools and
\* tasks it takes were vetted.
VisionIsSound ==
  BooksAgree /\ SlotsAreHonest /\ ReportsLeaveNothing /\ VisionTakesVetted

\* What is written down of the traffic is what happened: a changed audit entry is
\* told, the meters and traces are those of the ledger, and the evaluation board's
\* counts are those of the verdicts that its two gates gave.
RecordsAreTrue == TamperIsTold /\ MetersAgree /\ BoardIsHonest
=============================================================================
