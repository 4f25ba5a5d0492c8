--------------------------------- MODULE Fleet ---------------------------------
(***************************************************************************)
(* The node fleet: the sub-managers of one agent (nodes/matrix.ts), the    *)
(* live nodes and their durable mirror (nodes/lifecycle.ts), and who uses  *)
(* them: a caller of one or of the other, who share nothing, in any order, *)
(* or a DREAM simulation (dream/engine.ts), which walks its tree of        *)
(* outcomes over an orchestrator and a fleet of its own and tears them     *)
(* down.                                                                   *)
(***************************************************************************)
EXTENDS Naturals, Sequences, SequencesExt

CONSTANTS
  Managers,    \* how many managers an agent has (64 in the program)
  PerManager,  \* how many nodes a manager coordinates (64 in the program)
  MaxBreadth,  \* bound: scenario variants per parent
  MaxDepth     \* bound: levels of the tree

ASSUME FleetAssumption ==
  Managers \in Nat \ {0} /\ PerManager \in Nat \ {0} /\ MaxBreadth \in Nat /\ MaxDepth \in Nat

VARIABLES
  user,       \* "DREAM", or the caller of the "managers" or of the "fleet"
  ephemeral,  \* isEphemeral of the user's role
  manager,    \* [index -> status of the activation, "none" before the first]
  active,     \* [index -> activeNodes of the activation: node indexes, in order]
  live,       \* [node -> status in the live set, "none" outside it]
  mirror,     \* [node -> status last upserted in the repository]
  dream       \* the simulation: its shape, cursor and place in the tree

fleetVars == <<user, ephemeral, manager, active, live, mirror, dream>>

Indexes == 0..(Managers - 1)
Nodes == Indexes \X (0..(PerManager - 1))
Unmirrored == [n \in Nodes |-> "none"]
Awake == [step |-> "awake"]

FleetInit ==
  /\ user \in {"DREAM", "managers", "fleet"}
  /\ ephemeral \in BOOLEAN /\ (user = "DREAM" => ephemeral)
  /\ manager = [m \in Indexes |-> "none"] /\ active = [m \in Indexes |-> <<>>]
  /\ live = Unmirrored /\ mirror = Unmirrored
  /\ dream = Awake

\* activateManagers: the first `count` managers, new unless they are there and
\* not TERMINATED: an idled one stays idle.
Renewed(m, count) == m < count /\ manager[m] \in {"none", "TERMINATED"}
Activated(count) == [m \in Indexes |-> IF Renewed(m, count) THEN "ACTIVE" ELSE manager[m]]
Emptied(count) == [m \in Indexes |-> IF Renewed(m, count) THEN <<>> ELSE active[m]]

\* Whether materializeNode throws, in the managers of `status` with the nodes of `held`.
Refused(status, held, m) == status[m] # "ACTIVE" \/ Len(held[m]) >= PerManager

\* releaseManager, of the managers in `released`: nothing for one never activated.
Resting == IF ephemeral THEN "TERMINATED" ELSE "IDLE"
Rested(released) ==
  [m \in Indexes |-> IF m \in released /\ manager[m] # "none" THEN Resting ELSE manager[m]]
Vacated(released) == [m \in Indexes |-> IF m \in released THEN <<>> ELSE active[m]]

\* NodeFleet.release, of the live nodes in `released`: a TERMINATED node leaves
\* the live set, an IDLE one stays, and both are mirrored.
Released(released) ==
  [n \in Nodes |-> IF n \in released /\ live[n] # "none"
                   THEN IF ephemeral THEN "none" ELSE "IDLE" ELSE live[n]]
Mirrored(released) ==
  [n \in Nodes |-> IF n \in released /\ live[n] # "none" THEN Resting ELSE mirror[n]]

-----------------------------------------------------------------------------
(* The callers, one operation at a time. *)

Activate(count) ==
  /\ user = "managers"
  /\ manager' = Activated(count) /\ active' = Emptied(count)
  /\ UNCHANGED <<user, ephemeral, live, mirror, dream>>

MaterializeNode(m, n) ==
  /\ user = "managers" /\ ~Refused(manager, active, m)
  /\ active' = [active EXCEPT ![m] = Append(@, n)]
  /\ UNCHANGED <<user, ephemeral, manager, live, mirror, dream>>

ReleaseManager(m) ==
  /\ user = "managers"
  /\ manager' = Rested({m}) /\ active' = Vacated({m})
  /\ UNCHANGED <<user, ephemeral, live, mirror, dream>>

Materialize(n) ==
  /\ user = "fleet"
  /\ live' = [live EXCEPT ![n] = "ACTIVE"] /\ mirror' = [mirror EXCEPT ![n] = "ACTIVE"]
  /\ UNCHANGED <<user, ephemeral, manager, active, dream>>

\* release of one node, and releaseAll.
Release(released) ==
  /\ user = "fleet"
  /\ live' = Released(released) /\ mirror' = Mirrored(released)
  /\ UNCHANGED <<user, ephemeral, manager, active, dream>>

-----------------------------------------------------------------------------
(* A simulation.  at[k] is the loop counter of expand at level k. *)

\* simulate: a new orchestrator with one manager, a new fleet without repository.
Begin(breadth, depth) ==
  /\ user = "DREAM" /\ dream.step \in {"awake", "done", "threw"}
  /\ manager' = [m \in Indexes |-> IF m = 0 THEN "ACTIVE" ELSE "none"]
  /\ active' = [m \in Indexes |-> <<>>] /\ live' = Unmirrored
  /\ dream' = [step |-> "expand", breadth |-> breadth, depth |-> depth, cursor |-> 0,
               at |-> IF depth = 0 THEN <<>> ELSE <<0>>]
  /\ UNCHANGED <<user, ephemeral, mirror>>

\* One turn of the loop of expand.  At the cursor's node: the manager is
\* activated, the node materialized, a persona spawned, run and terminated, the
\* node released, and the child expanded in its turn.  Running out of nodes throws.
ManagerOf(cursor) == (cursor \div PerManager) % Managers
Onward(at, depth) ==
  [at EXCEPT ![Len(at)] = @ + 1] \o (IF Len(at) < depth THEN <<0>> ELSE <<>>)
Expand ==
  LET m == ManagerOf(dream.cursor)
      node == dream.cursor % PerManager
  IN /\ user = "DREAM" /\ dream.step = "expand" /\ dream.at # <<>>
     /\ Last(dream.at) < dream.breadth
     /\ manager' = Activated(m + 1)
     /\ IF Refused(manager', Emptied(m + 1), m)
        THEN active' = Emptied(m + 1) /\ dream' = [dream EXCEPT !.step = "threw"]
        ELSE /\ active' = [Emptied(m + 1) EXCEPT ![m] = Append(@, node)]
             /\ dream' = [dream EXCEPT !.cursor = @ + 1, !.at = Onward(@, dream.depth)]
     /\ UNCHANGED <<user, ephemeral, live, mirror>>

Return ==
  /\ user = "DREAM" /\ dream.step = "expand" /\ dream.at # <<>>
  /\ Last(dream.at) = dream.breadth
  /\ dream' = [dream EXCEPT !.at = Front(@)]
  /\ UNCHANGED <<user, ephemeral, manager, active, live, mirror>>

\* The teardown: every live node, and the managers that the cursor went through.
\* The mutant computes them from the cursor as if the next node had been used too.
ManagersUsedNext(cursor) == cursor \div PerManager
ManagersUsed(cursor) == IF cursor = 0 THEN 0 ELSE (cursor - 1) \div PerManager + 1
TearDown ==
  LET used == {m \in Indexes : m < ManagersUsed(dream.cursor)}
  IN /\ user = "DREAM" /\ dream.step = "expand" /\ dream.at = <<>>
     /\ live' = Released(Nodes)
     /\ manager' = Rested(used) /\ active' = Vacated(used)
     /\ dream' = [dream EXCEPT !.step = "done"]
     /\ UNCHANGED <<user, ephemeral, mirror>>

FleetNext ==
  \/ \E count \in 0..Managers : Activate(count)
  \/ \E n \in Nodes : MaterializeNode(n[1], n[2])
  \/ \E m \in Indexes : ReleaseManager(m)
  \/ \E n \in Nodes : Materialize(n) \/ Release({n})
  \/ Release(Nodes)
  \/ \E breadth \in 0..MaxBreadth, depth \in 0..MaxDepth : Begin(breadth, depth)
  \/ Expand \/ Return \/ TearDown

FleetSpec == FleetInit /\ [][FleetNext]_fleetVars

-----------------------------------------------------------------------------
Statuses == {"ACTIVE", "IDLE", "TERMINATED"}
FleetTypeOK ==
  /\ manager \in [Indexes -> Statuses \cup {"none"}]
  /\ \A m \in Indexes : active[m] \in Seq(0..(PerManager - 1)) /\ Len(active[m]) <= PerManager
  /\ live \in [Nodes -> {"none", "ACTIVE", "IDLE"}]
  /\ mirror \in [Nodes -> Statuses \cup {"none"}]

\* Outcomes of a whole tree: breadth per parent, level by level.
TreeSize(breadth, depth) ==
  LET size[d \in 0..depth] == IF d = 0 THEN 0 ELSE breadth * (1 + size[d - 1]) IN size[depth]

\* A simulation that returns has dreamt its whole tree, each outcome on a node of
\* its own, and leaves no manager active and no node live ("tear the whole slice
\* down", dream/engine.ts:121): except the manager activated before an empty tree.
\* It throws only when the tree has more outcomes than the agent has nodes.
DreamEndsClean ==
  /\ dream.step = "done" =>
       /\ dream.cursor = TreeSize(dream.breadth, dream.depth)
       /\ \A m \in Indexes : manager[m] = "ACTIVE" => m = 0 /\ dream.cursor = 0
       /\ \A n \in Nodes : live[n] = "none"
  /\ dream.step = "threw" => TreeSize(dream.breadth, dream.depth) > Managers * PerManager

\* The mirror tells the truth about the fleet: a live node's row has its status,
\* the row of one that left the live set says TERMINATED, and a node that was
\* never materialized has none.
MirrorIsTrue ==
  user = "fleet" =>
    \A n \in Nodes : mirror[n] = live[n] \/ (live[n] = "none" /\ mirror[n] = "TERMINATED")

\* A manager of an always-on agent works once: from its release on it is idle,
\* activation returns it as it is, and it never takes a node again
\* (nodes/matrix.ts:143, :164).
IdleForGood ==
  [][\A m \in Indexes : manager[m] = "IDLE" => manager'[m] = "IDLE" /\ active'[m] = <<>>]_fleetVars
=============================================================================
