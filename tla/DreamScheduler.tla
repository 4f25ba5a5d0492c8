----------------------------- MODULE DreamScheduler -----------------------------
(***************************************************************************)
(* When APEX has DREAM simulate: the stream's energy (dream/energy.ts) and *)
(* what the scheduler decides of each event (dream/scheduler.ts).  Energy  *)
(* is counted in hundredths, time in half-lives.                           *)
(***************************************************************************)
EXTENDS Integers, FiniteSetsExt

CONSTANTS
  IdleTicks,   \* idleTicksPerSpeculation
  Spike,       \* spikeThreshold
  Threshold,   \* scheduleThreshold
  Magnitudes,  \* the energies an event may state
  Unstated,    \* an event without one
  MaxTime      \* bound: the times an event may carry

ASSUME SchedulerAssumption ==
  /\ IdleTicks \in Nat \ {0} /\ Threshold \in Int /\ Threshold <= 60
  /\ Magnitudes \subseteq Int /\ Unstated \notin Magnitudes /\ MaxTime \in Nat

VARIABLES
  energy,     \* accumulated, as of `lastAt`
  lastAt,     \* the time of the event observed last, not the latest of them
  idleTicks,  \* IDLE_TICKs since the count was last due
  quiet,      \* history: quiet IDLE_TICKs in a row with no simulation for them
  bursts      \* history: full CHAT_BURSTs at one instant with no simulation for them

schedulerVars == <<energy, lastAt, idleTicks, quiet, bursts>>

Types == {"USER_REQUEST", "ENERGY_SPIKE", "ANOMALY_NEAR_MISS", "CHAT_BURST", "IDLE_TICK"}

SchedulerInit == energy = 0 /\ lastAt = 0 /\ idleTicks = 0 /\ quiet = 0 /\ bursts = 0

\* contribution: the weight of the type, times the magnitude when it has one.
Weight == [USER_REQUEST |-> 50, ENERGY_SPIKE |-> 40, ANOMALY_NEAR_MISS |-> 35,
           CHAT_BURST |-> 20, IDLE_TICK |-> -3]
Contribution(event) ==
  (Weight[event.type] * (IF event.energy = Unstated THEN 100 ELSE event.energy)) \div 100

\* observe: decay to the event's time, nothing if it is earlier than the last
\* one's, add, clamp.
Halved(level, times) ==
  LET after[n \in 0..times] == IF n = 0 THEN level ELSE after[n - 1] \div 2 IN after[times]
Decayed(at) == Halved(energy, Max({0, at - lastAt}))
Observed(event) == Max({0, Min({100, Decayed(event.at) + Contribution(event)})})

\* evaluate: whether the event has DREAM simulate, at the energy it leaves or brings.
Heat(event) == Max({Observed(event), IF event.energy = Unstated THEN 0 ELSE event.energy})
CountDue == idleTicks + 1 >= IdleTicks
Due(event) ==
  CASE event.type = "USER_REQUEST" -> TRUE
    [] event.type = "ENERGY_SPIKE" -> Heat(event) >= Spike
    [] event.type \in {"CHAT_BURST", "ANOMALY_NEAR_MISS"} -> Heat(event) >= Threshold
    [] event.type = "IDLE_TICK" -> CountDue /\ Heat(event) < Threshold

\* The count starts again when it is due, whether the tick was quiet or not.
Counted(event) ==
  IF event.type # "IDLE_TICK" THEN idleTicks ELSE IF CountDue THEN 0 ELSE idleTicks + 1

FullBurst(event) ==
  event.type = "CHAT_BURST" /\ event.energy = Unstated /\ event.at <= lastAt

Schedule(event) ==
  /\ energy' = Observed(event) /\ lastAt' = event.at
  /\ idleTicks' = Counted(event)
  /\ quiet' = IF event.type # "IDLE_TICK" THEN quiet
              ELSE IF Due(event) \/ Heat(event) >= Threshold THEN 0 ELSE quiet + 1
  /\ bursts' = IF FullBurst(event) /\ ~Due(event) THEN bursts + 1 ELSE 0

SchedulerNext ==
  \E type \in Types, magnitude \in Magnitudes \cup {Unstated}, at \in 0..MaxTime :
    Schedule([type |-> type, energy |-> magnitude, at |-> at])

SchedulerSpec == SchedulerInit /\ [][SchedulerNext]_schedulerVars

-----------------------------------------------------------------------------
SchedulerTypeOK ==
  /\ energy \in 0..100 /\ lastAt \in 0..MaxTime /\ idleTicks \in 0..(IdleTicks - 1)
  /\ quiet \in Nat /\ bursts \in Nat

\* A stream that builds is heard though no event of it is a spike: of three chat
\* bursts in a row without a pause one has DREAM simulate (dream/scheduler.ts:11).
\* And a quiet stream is speculated upon: of `IdleTicks` quiet ticks in a row,
\* whatever comes between them, one does.
StreamIsHeard == bursts < 3 /\ quiet < IdleTicks
=============================================================================
