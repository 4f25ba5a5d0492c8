-------------------------------- MODULE Sandbox --------------------------------
(***************************************************************************)
(* VISION's sandbox sessions (vision/sandbox.ts, sandbox_gvisor.ts), the   *)
(* resource monitor that is told of them (resource_monitor.ts) and their   *)
(* two users: the execution engine (engine.ts), which takes a session      *)
(* through one task, and the callers of a SandboxManager, which hold       *)
(* several at once.  A gVisor session has a container behind it, which the *)
(* docker client starts, uses and removes, or fails to.                    *)
(***************************************************************************)
EXTENDS Naturals, FiniteSets

CONSTANTS
  Sessions,  \* session ids: each names one session, of one life of the process
  MaxLive,   \* maxConcurrent of the manager
  MaxRuns    \* bound: runs of one session

ASSUME SandboxAssumption == MaxLive \in Nat /\ MaxRuns \in Nat

VARIABLES
  session,     \* [Sessions -> the session object, or NoSession]
  usage,       \* [Sessions -> the monitor's rollup of it, or NoSession]
  slots,       \* `live` of the manager
  rejections,  \* whether the manager has refused a session
  task,        \* the engine: where execute is, and with which session
  persona,     \* [Sessions -> state of the persona that was spawned for it]
  outcome,     \* history: [Sessions -> how its execute ended]
  containers   \* external: the sessions whose container is up

sandboxVars == <<session, usage, slots, rejections, task, persona, outcome, containers>>

NoSession == [status |-> "none"]
NoTask == [step |-> "idle"]

SandboxInit ==
  /\ session = [s \in Sessions |-> NoSession] /\ usage = session
  /\ slots = {} /\ rejections = FALSE
  /\ task = NoTask
  /\ persona = [s \in Sessions |-> "none"] /\ outcome = persona
  /\ containers = {}

\* The constructor: the session, and openSession of the monitor.
Created(gvisor, managed) ==
  [status |-> "created", gvisor |-> gvisor, managed |-> managed, container |-> FALSE,
   runs |-> 0, timeouts |-> 0, killed |-> FALSE]
Opened == [status |-> "open", runs |-> 0, timeouts |-> 0, killed |-> FALSE, audit |-> 0]
Open(s, gvisor, managed) ==
  /\ session[s] = NoSession /\ s \notin containers
  /\ session' = [session EXCEPT ![s] = Created(gvisor, managed)]
  /\ usage' = [usage EXCEPT ![s] = Opened]

\* account: the session's own sums, and recordRun of the monitor.
One(b) == IF b THEN 1 ELSE 0
Accounted(s, timedOut) ==
  [session[s] EXCEPT !.runs = @ + 1, !.timeouts = @ + One(timedOut)]
Recorded(s, timedOut) ==
  [usage[s] EXCEPT !.runs = @ + 1, !.timeouts = @ + One(timedOut),
                   !.killed = @ \/ timedOut, !.audit = @ + 1]

\* stop of session value `v` with the monitor's value `u`: nothing when it is
\* stopped already.  The container is told to go, by id; and the slot is freed.
Stopped(v) ==
  IF v.status = "stopped" THEN v ELSE [v EXCEPT !.status = "stopped", !.container = FALSE]
Closed(u) == [u EXCEPT !.status = "closed"]
FreedUnlessKilled(s, v) == IF v.status = "stopped" \/ v.killed THEN slots ELSE slots \ {s}   \* mutant of Freed: a kill keeps its slot
Freed(s, v) == IF v.status = "stopped" THEN slots ELSE slots \ {s}

\* docker rm -f is best effort: it may time out and leave the container up.
Removed(s, v) ==
  IF v.container /\ v.status # "stopped"
  THEN containers' \in {containers, containers \ {s}} ELSE UNCHANGED containers

Stop(s) ==
  /\ session' = [session EXCEPT ![s] = Stopped(@)]
  /\ usage' = [usage EXCEPT ![s] = Closed(@)]
  /\ slots' = Freed(s, session[s])
  /\ Removed(s, session[s])

\* start.  A stub starts; a gVisor session starts when `docker run` says so, and
\* a client that gave up may have left a container that the session does not know.
Started(s) == [session EXCEPT ![s].status = "running"]
StartStub(s) ==
  /\ ~session[s].gvisor /\ session' = Started(s) /\ UNCHANGED containers
StartContainer(s) ==
  /\ session[s].gvisor /\ session' = [Started(s) EXCEPT ![s].container = TRUE]
  /\ containers' = containers \cup {s}
StartFails(s) ==
  /\ session[s].gvisor /\ UNCHANGED session
  /\ containers' \in {containers, containers \cup {s}}

\* run of a running session: a runner that throws is accounted as exit 1, a run
\* longer than the limit is exit 124, kills the session and stops it.
RunTool(s, timedOut) ==
  LET v == [Accounted(s, timedOut) EXCEPT !.killed = @ \/ timedOut]
      u == Recorded(s, timedOut)
  IN /\ session[s].status = "running" /\ session[s].runs < MaxRuns
     /\ session' = [session EXCEPT ![s] = IF timedOut THEN Stopped(v) ELSE v]
     /\ usage' = [usage EXCEPT ![s] = IF timedOut THEN Closed(u) ELSE u]
     /\ slots' = IF timedOut THEN Freed(s, v) ELSE slots
     /\ IF timedOut THEN Removed(s, v) ELSE UNCHANGED containers

-----------------------------------------------------------------------------
(* The engine: execute, one task at a time, for it awaits nothing. *)

\* spawnPersona, createSandboxSession.
Execute(s, gvisor) ==
  /\ task = NoTask /\ Open(s, gvisor, FALSE)
  /\ task' = [step |-> "start", session |-> s]
  /\ persona' = [persona EXCEPT ![s] = "EXECUTING"]
  /\ UNCHANGED <<slots, rejections, outcome, containers>>

Throw(s) == task' = NoTask /\ outcome' = [outcome EXCEPT ![s] = "threw"]

EngineStart ==
  LET s == task.session
  IN /\ task.step = "start"
     /\ \/ (StartStub(s) \/ StartContainer(s)) /\ task' = [task EXCEPT !.step = "tool"]
           /\ UNCHANGED outcome
        \/ StartFails(s) /\ Throw(s)
     /\ UNCHANGED <<usage, slots, rejections, persona>>

\* The tool runs in the sandbox, as often as it likes.
ToolRuns(timedOut) ==
  /\ task.step = "tool" /\ RunTool(task.session, timedOut)
  /\ UNCHANGED <<rejections, task, persona, outcome>>

\* A tool throws on its own account, or because it runs a session that a
\* timeout has killed: nothing in execute catches it.
ToolThrows ==
  /\ task.step = "tool" /\ Throw(task.session)
  /\ UNCHANGED <<session, usage, slots, rejections, persona, containers>>

\* The tool has returned, or there is none of that name: stop, terminatePersona
\* and the report.
Report ==
  LET s == task.session
  IN /\ task.step = "tool"
     /\ Stop(s)
     /\ persona' = [persona EXCEPT ![s] = "TERMINATED"]
     /\ task' = NoTask /\ outcome' = [outcome EXCEPT ![s] = "reported"]
     /\ UNCHANGED rejections

-----------------------------------------------------------------------------
(* The callers of the manager.  Its sessions are stubs. *)

HasRoom == Cardinality(slots) < MaxLive
Create(s) ==
  /\ HasRoom /\ Open(s, FALSE, TRUE)
  /\ slots' = slots \cup {s}
  /\ UNCHANGED <<rejections, task, persona, outcome, containers>>
Reject ==
  /\ ~HasRoom /\ rejections' = TRUE
  /\ UNCHANGED <<session, usage, slots, task, persona, outcome, containers>>

Managed(s) == session[s] # NoSession /\ session[s].managed
CallerStarts(s) ==
  /\ Managed(s) /\ session[s].status = "created" /\ StartStub(s)
  /\ UNCHANGED <<usage, slots, rejections, task, persona, outcome>>
CallerRuns(s, timedOut) ==
  /\ Managed(s) /\ RunTool(s, timedOut)
  /\ UNCHANGED <<rejections, task, persona, outcome>>
CallerStops(s) ==
  /\ Managed(s) /\ Stop(s)
  /\ UNCHANGED <<rejections, task, persona, outcome>>

-----------------------------------------------------------------------------
\* External: the container's `sleep` ends and --rm removes it.
Expire(s) ==
  /\ s \in containers /\ containers' = containers \ {s}
  /\ UNCHANGED <<session, usage, slots, rejections, task, persona, outcome>>

\* The process dies: docker keeps the containers.
Crash ==
  /\ session' = [s \in Sessions |-> NoSession] /\ usage' = session'
  /\ slots' = {} /\ rejections' = FALSE /\ task' = NoTask
  /\ persona' = [s \in Sessions |-> "none"] /\ outcome' = persona'
  /\ UNCHANGED containers

SandboxNext ==
  \/ \E s \in Sessions, gvisor \in BOOLEAN : Execute(s, gvisor)
  \/ EngineStart \/ ToolThrows \/ Report
  \/ \E timedOut \in BOOLEAN : ToolRuns(timedOut)
  \/ Reject \/ Crash
  \/ \E s \in Sessions : Create(s) \/ CallerStarts(s) \/ CallerStops(s) \/ Expire(s)
  \/ \E s \in Sessions, timedOut \in BOOLEAN : CallerRuns(s, timedOut)

SandboxSpec == SandboxInit /\ [][SandboxNext]_sandboxVars

-----------------------------------------------------------------------------
SandboxTypeOK ==
  /\ \A s \in Sessions :
       /\ session[s].status \in {"none", "created", "running", "stopped"}
       /\ usage[s].status \in {"none", "open", "closed"}
       /\ persona[s] \in {"none", "EXECUTING", "TERMINATED"}
       /\ outcome[s] \in {"none", "reported", "threw"}
  /\ slots \subseteq Sessions /\ containers \subseteq Sessions
  /\ rejections \in BOOLEAN /\ task.step \in {"idle", "start", "tool"}

\* What the ledger bills is what happened: the monitor's sums and its audit trail
\* of a session are the session's own, through throwing runners and timeout
\* kills; the kill counts one timeout; and it is closed exactly when stopped.
BooksAgree ==
  \A s \in Sessions :
    LET v == session[s]  u == usage[s]
    IN v # NoSession =>
         /\ u.runs = v.runs /\ u.audit = v.runs
         /\ u.timeouts = v.timeouts /\ v.timeouts = One(v.killed) /\ u.killed = v.killed
         /\ (u.status = "closed") = (v.status = "stopped")

\* The manager's slots are the sessions it created that have not stopped, killed
\* ones included, and never more than its limit.
SlotsAreHonest ==
  /\ slots = {s \in Sessions : Managed(s) /\ session[s].status # "stopped"}
  /\ Cardinality(slots) <= MaxLive

\* An execution that was reported leaves nothing running: its session is stopped
\* and knows no container, its persona is terminated.  Only one that threw, in
\* `docker run` or in the tool (vision/engine.ts:118), leaves its persona, and
\* its session unless a timeout killed it.
ReportsLeaveNothing ==
  \A s \in Sessions :
    /\ outcome[s] = "reported" =>
         session[s].status = "stopped" /\ ~session[s].container /\ persona[s] = "TERMINATED"
    /\ session[s] # NoSession /\ ~Managed(s) /\ task = NoTask /\ session[s].status # "stopped" =>
         outcome[s] = "threw"
=============================================================================
