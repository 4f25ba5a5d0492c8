--------------------------- MODULE MeshPartsProofs ---------------------------
(***************************************************************************)
(* What the parts within the mesh guarantee, for any sessions, tools,      *)
(* managers, packets, observers and cases, and any caps: the sandboxes and *)
(* the tools of VISION, the fleet and DREAM on it, its scheduler, KNOLL's  *)
(* audit chain, the meters, and the evaluation board with its two gates;   *)
(* and then of all of them together.                                       *)
(***************************************************************************)
EXTENDS Mesh, FunctionTheorems, FiniteSetTheorems, SequenceTheorems, WellFoundedInduction, TLAPS

-----------------------------------------------------------------------------
(* Every set of numbers has a least one. *)

LEMMA LeastNumber ==
  ASSUME NEW T, T \subseteq Nat, T # {}
  PROVE  \E x \in T : \A y \in T : x <= y
<1>1. PICK R : R = {ss \in Nat \X Nat : ss[1] < ss[2]}
  OBVIOUS
<1>2. IsWellFoundedOn(R, Nat)
  BY <1>1, NatLessThanWellFounded DEF OpToRel
<1>3. PICK x \in T : \A y \in T : ~ (<<y, x>> \in R)
  BY <1>2, WFMin
<1>4. ASSUME NEW y \in T
      PROVE  x <= y
  <2>1. x \in Nat /\ y \in Nat
    OBVIOUS
  <2>2. <<y, x>> \in R <=> y < x
    BY <1>1, <2>1
  <2> QED BY <1>3, <2>1, <2>2
<1> QED BY <1>4

-----------------------------------------------------------------------------
(* VISION's sandboxes.                                                     *)

LiveSessions ==
  [status : {"created", "running", "stopped"}, gvisor : BOOLEAN, managed : BOOLEAN,
   container : BOOLEAN, runs : Nat, timeouts : Nat, killed : BOOLEAN]
Rollups ==
  [status : {"open", "closed"}, runs : Nat, timeouts : Nat, killed : BOOLEAN, audit : Nat]

\* A session and the monitor's rollup of it; a killed one has stopped, and a
\* stopped one knows no container.
Alike(v, u) ==
  /\ v \in LiveSessions /\ u \in Rollups
  /\ u.runs = v.runs /\ u.audit = v.runs
  /\ u.timeouts = v.timeouts /\ v.timeouts = One(v.killed) /\ u.killed = v.killed
  /\ (u.status = "closed") = (v.status = "stopped")
  /\ v.status # "stopped" => ~v.killed
  /\ v.status = "stopped" => ~v.container

\* The same session later: whose it is does not change, nor that it has stopped.
Follows(w, v) ==
  w.managed = v.managed /\ (v.status = "stopped" => w.status = "stopped")

LEMMA StoppedAlike ==
  ASSUME NEW v, NEW u, Alike(v, u)
  PROVE  Alike(Stopped(v), Closed(u)) /\ Stopped(v).status = "stopped" /\ Follows(Stopped(v), v)
<1>1. CASE v.status = "stopped"
  <2>1. Closed(u) = u
    BY <1>1 DEF Alike, Closed, Rollups
  <2> QED BY <1>1, <2>1 DEF Stopped, Follows
<1>2. CASE v.status # "stopped"
  <2> DEFINE w == [v EXCEPT !.status = "stopped", !.container = FALSE]
  <2>1. /\ w \in LiveSessions /\ w.status = "stopped" /\ ~w.container /\ w.managed = v.managed
        /\ w.runs = v.runs /\ w.timeouts = v.timeouts /\ w.killed = v.killed
    BY DEF Alike, LiveSessions
  <2>2. /\ Closed(u) \in Rollups /\ Closed(u).status = "closed" /\ Closed(u).runs = u.runs
        /\ Closed(u).timeouts = u.timeouts /\ Closed(u).killed = u.killed /\ Closed(u).audit = u.audit
    BY DEF Alike, Closed, Rollups
  <2>3. Stopped(v) = w
    BY <1>2 DEF Stopped
  <2> HIDE DEF w
  <2> QED BY <1>2, <2>1, <2>2, <2>3 DEF Alike, Follows
<1> QED BY <1>1, <1>2

\* What a run writes into the session, before a timeout stops it.
Ran(s, timedOut) == [Accounted(s, timedOut) EXCEPT !.killed = @ \/ timedOut]

LEMMA RanAlike ==
  ASSUME NEW s \in Sessions, Alike(session[s], usage[s]), session[s].status = "running",
         NEW b \in BOOLEAN
  PROVE  LET v == Ran(s, b)  u == Recorded(s, b)
         IN
         /\ v.status = "running" /\ v.managed = session[s].managed
         /\ v \in LiveSessions /\ u \in Rollups
         /\ u.runs = v.runs /\ u.audit = v.runs
         /\ u.timeouts = v.timeouts /\ v.timeouts = One(b) /\ u.killed = b /\ v.killed = b
         /\ u.status = "open"
<1> DEFINE r == session[s]  q == usage[s]
           n == r.runs + 1  m == r.timeouts + One(b)  k == q.audit + 1
           i == q.runs + 1  j == q.timeouts + One(b)
           a == Accounted(s, b)
           c == a.killed \/ b  d == q.killed \/ b
           v == Ran(s, b)  u == Recorded(s, b)
<1>1. /\ r \in LiveSessions /\ q \in Rollups /\ n \in Nat /\ m \in Nat /\ k \in Nat
      /\ i = n /\ j = m /\ k = n /\ m = One(b) /\ r.killed = FALSE /\ q.killed = FALSE
      /\ q.status = "open" /\ i \in Nat /\ j \in Nat /\ One(b) \in Nat
  BY DEF Alike, One, LiveSessions, Rollups
<1>2. a = [r EXCEPT !.runs = n, !.timeouts = m] /\ v = [a EXCEPT !.killed = c]
  BY DEF Accounted, Ran
<1>3. u = [q EXCEPT !.runs = i, !.timeouts = j, !.killed = d, !.audit = k]
  BY DEF Recorded
<1>4. d = b
  BY <1>1
<1>5. a.killed = r.killed
  <2> HIDE DEF a, n, m, r
  <2> QED BY <1>1, <1>2 DEF LiveSessions
<1>6. c = b
  BY <1>1, <1>5
<1> HIDE DEF n, m, k, i, j, c, d, a, v, u
<1>7. /\ v \in LiveSessions /\ v.status = r.status /\ v.managed = r.managed
      /\ v.runs = n /\ v.timeouts = m /\ v.killed = c
  <2>1. c \in BOOLEAN
    BY <1>6
  <2> HIDE DEF r
  <2> QED BY <1>1, <1>2, <2>1 DEF LiveSessions
<1>8. /\ u \in Rollups /\ u.status = q.status /\ u.runs = i
      /\ u.timeouts = j /\ u.killed = d /\ u.audit = k
  <2>1. d \in BOOLEAN
    BY <1>4
  <2> HIDE DEF q
  <2> QED BY <1>1, <1>3, <2>1 DEF Rollups
<1> QED BY <1>1, <1>4, <1>6, <1>7, <1>8 DEF v, u

LEMMA RanOn ==
  ASSUME NEW s \in Sessions, Alike(session[s], usage[s]), session[s].status = "running",
         NEW b \in BOOLEAN, ~b
  PROVE  /\ Alike(Ran(s, b), Recorded(s, b)) /\ Follows(Ran(s, b), session[s])
         /\ Ran(s, b).status = "running"
<1> DEFINE v == Ran(s, b)  u == Recorded(s, b)
<1>1. /\ v.status = "running" /\ v.managed = session[s].managed
      /\ v \in LiveSessions /\ u \in Rollups
      /\ u.runs = v.runs /\ u.audit = v.runs
      /\ u.timeouts = v.timeouts /\ v.timeouts = One(b) /\ u.killed = b /\ v.killed = b
      /\ u.status = "open"
  BY RanAlike
<1> HIDE DEF v, u
<1>2. Alike(v, u) /\ Follows(v, session[s]) /\ v.status = "running"
  BY <1>1 DEF Alike, Follows
<1> QED BY <1>2 DEF v, u

LEMMA RanOut ==
  ASSUME NEW s \in Sessions, Alike(session[s], usage[s]), session[s].status = "running",
         NEW b \in BOOLEAN, b
  PROVE  /\ Alike(Stopped(Ran(s, b)), Closed(Recorded(s, b))) /\ Follows(Stopped(Ran(s, b)), session[s])
         /\ Stopped(Ran(s, b)).status = "stopped" /\ Ran(s, b).status = "running"
<1> DEFINE v == Ran(s, b)  u == Recorded(s, b)
<1>1. /\ v.status = "running" /\ v.managed = session[s].managed
      /\ v \in LiveSessions /\ u \in Rollups
      /\ u.runs = v.runs /\ u.audit = v.runs
      /\ u.timeouts = v.timeouts /\ v.timeouts = One(b) /\ u.killed = b /\ v.killed = b
      /\ u.status = "open"
  BY RanAlike
<1> DEFINE w == Stopped(v)  t == Closed(u)
<1> HIDE DEF v, u
<1>2. /\ w \in LiveSessions /\ w.status = "stopped" /\ ~w.container /\ w.managed = v.managed
      /\ w.runs = v.runs /\ w.timeouts = v.timeouts /\ w.killed = v.killed
  BY <1>1 DEF LiveSessions, Stopped
<1>3. /\ t \in Rollups /\ t.status = "closed" /\ t.runs = u.runs
      /\ t.timeouts = u.timeouts /\ t.killed = u.killed /\ t.audit = u.audit
  BY <1>1 DEF Closed, Rollups
<1> HIDE DEF w, t
<1>4. Alike(w, t)
  BY <1>1, <1>2, <1>3 DEF Alike
<1>5. Follows(w, session[s])
  BY <1>1, <1>2 DEF Follows
<1> QED BY <1>1, <1>2, <1>4, <1>5 DEF v, u, w, t

\* Every session and its rollup, the manager's slots, and the engine's task: its
\* session is its own, and what no task has was stopped or thrown.
Books ==
  /\ session \in [Sessions -> LiveSessions \cup {NoSession}]
  /\ usage \in [Sessions -> Rollups \cup {NoSession}]
  /\ \A s \in Sessions :
       \/ session[s] = NoSession /\ usage[s] = NoSession
       \/ Alike(session[s], usage[s])

Slots ==
  /\ slots = {s \in Sessions : Managed(s) /\ session[s].status # "stopped"}
  /\ IsFiniteSet(slots) /\ Cardinality(slots) <= MaxLive

Has(s) == task # NoTask /\ task.session = s
Engine ==
  /\ task = NoTask \/ task \in [step : {"start", "tool"}, session : Sessions]
  /\ persona \in [Sessions -> {"none", "EXECUTING", "TERMINATED"}]
  /\ outcome \in [Sessions -> {"none", "reported", "threw"}]
  /\ \A s \in Sessions :
       /\ Has(s) => session[s] # NoSession /\ ~session[s].managed /\ outcome[s] = "none"
       /\ Has(s) /\ task.step = "start" => session[s].status = "created"
       /\ session[s] = NoSession => outcome[s] = "none"
       /\ outcome[s] = "reported" => session[s].status = "stopped" /\ persona[s] = "TERMINATED"
       /\ session[s] # NoSession /\ ~session[s].managed /\ session[s].status # "stopped" =>
            outcome[s] = "threw" \/ Has(s)

SandboxInv ==
  Books /\ Slots /\ Engine /\ containers \subseteq Sessions /\ rejections \in BOOLEAN

LEMMA NoSessionIs == NoSession \notin LiveSessions /\ NoSession \notin Rollups /\ NoSession.status = "none"
BY DEF NoSession, LiveSessions, Rollups

LEMMA NoTaskIs == NoTask \notin [step : {"start", "tool"}, session : Sessions] /\ NoTask.step = "idle"
BY DEF NoTask

LEMMA SandboxStarts == SandboxInit => SandboxInv
<1> SUFFICES ASSUME SandboxInit PROVE SandboxInv
  OBVIOUS
<1>1. Books
  BY DEF SandboxInit, Books
<1>2. Slots
  <2>1. slots = {} /\ {s \in Sessions : Managed(s) /\ session[s].status # "stopped"} = {}
    BY DEF SandboxInit, Managed
  <2> QED BY <2>1, FS_EmptySet, SandboxAssumption DEF Slots
<1>3. Engine
  BY NoSessionIs DEF SandboxInit, Engine, Has
<1> QED BY <1>1, <1>2, <1>3 DEF SandboxInit, SandboxInv

\* One session goes on, and its slot is free once it has stopped.
LEMMA SessionGoesOn ==
  ASSUME Books, Slots, NEW s \in Sessions, session[s] # NoSession, NEW w, NEW t,
         session' = [session EXCEPT ![s] = w], usage' = [usage EXCEPT ![s] = t],
         Alike(w, t), Follows(w, session[s]),
         slots' = IF w.status = "stopped" THEN slots \ {s} ELSE slots
  PROVE  /\ Books' /\ Slots' /\ session'[s] = w
         /\ \A q \in Sessions :
              /\ (session'[q] # NoSession) = (session[q] # NoSession)
              /\ q # s => session'[q] = session[q]
              /\ session[q] # NoSession => session'[q].managed = session[q].managed
              /\ session[q] # NoSession /\ session[q].status = "stopped" => session'[q].status = "stopped"
<1>1. session'[s] = w /\ usage'[s] = t /\ w \in LiveSessions /\ t \in Rollups
      /\ \A q \in Sessions \ {s} : session'[q] = session[q] /\ usage'[q] = usage[q]
  BY DEF Books, Alike
<1>2. Books'
  <2>1. session' \in [Sessions -> LiveSessions \cup {NoSession}]
    BY <1>1 DEF Books
  <2>2. usage' \in [Sessions -> Rollups \cup {NoSession}]
    BY <1>1 DEF Books
  <2>3. ASSUME NEW q \in Sessions
        PROVE  \/ session'[q] = NoSession /\ usage'[q] = NoSession
               \/ Alike(session'[q], usage'[q])
    BY <1>1 DEF Books
  <2> QED BY <2>1, <2>2, <2>3 DEF Books
<1>3. ASSUME NEW q \in Sessions
      PROVE  /\ (session'[q] # NoSession) = (session[q] # NoSession)
             /\ q # s => session'[q] = session[q]
             /\ session[q] # NoSession => session'[q].managed = session[q].managed
             /\ session[q] # NoSession /\ session[q].status = "stopped" => session'[q].status = "stopped"
  BY <1>1, NoSessionIs DEF Follows
<1>4. slots' = {q \in Sessions : Managed(q)' /\ session'[q].status # "stopped"}
  <2>1. ASSUME NEW q \in Sessions
        PROVE  q \in slots' <=> Managed(q)' /\ session'[q].status # "stopped"
    <3>1. q \in slots <=> session[q] # NoSession /\ session[q].managed /\ session[q].status # "stopped"
      BY DEF Slots, Managed
    <3>2. CASE q = s
      BY <1>1, <1>3, <3>1, <3>2, NoSessionIs DEF Managed, Follows
    <3>3. CASE q # s
      BY <1>1, <1>3, <3>1, <3>3 DEF Managed
    <3> QED BY <3>2, <3>3
  <2>2. slots' \subseteq Sessions
    BY DEF Slots
  <2> QED BY <2>1, <2>2
<1>5. IsFiniteSet(slots') /\ Cardinality(slots') <= MaxLive
  <2>1. slots' \subseteq slots
    OBVIOUS
  <2>2. IsFiniteSet(slots') /\ Cardinality(slots') <= Cardinality(slots)
    BY <2>1, FS_Subset DEF Slots
  <2>3. Cardinality(slots') \in Nat /\ Cardinality(slots) \in Nat
    BY <2>2, FS_CardinalityType DEF Slots
  <2> QED BY <2>2, <2>3, SandboxAssumption DEF Slots
<1> QED BY <1>1, <1>2, <1>3, <1>4, <1>5 DEF Slots

\* A stop, whoever calls it.
LEMMA StopGoesOn ==
  ASSUME Books, Slots, NEW s \in Sessions, session[s] # NoSession, Stop(s), containers \subseteq Sessions
  PROVE  /\ Books' /\ Slots' /\ session'[s].status = "stopped" /\ containers' \subseteq Sessions
         /\ \A q \in Sessions :
              /\ (session'[q] # NoSession) = (session[q] # NoSession)
              /\ q # s => session'[q] = session[q]
              /\ session[q] # NoSession => session'[q].managed = session[q].managed
              /\ session[q] # NoSession /\ session[q].status = "stopped" => session'[q].status = "stopped"
<1> DEFINE w == Stopped(session[s])  t == Closed(usage[s])
<1>1. Alike(session[s], usage[s])
  BY DEF Books
<1>2. Alike(w, t) /\ w.status = "stopped" /\ Follows(w, session[s])
  BY <1>1, StoppedAlike
<1>3. session' = [session EXCEPT ![s] = w] /\ usage' = [usage EXCEPT ![s] = t]
      /\ slots' = Freed(s, session[s]) /\ Removed(s, session[s])
  BY DEF Stop
<1>4. slots' = slots \ {s}
  BY <1>3 DEF Freed, Slots
<1>5. containers' \subseteq Sessions
  BY <1>3 DEF Removed
<1> HIDE DEF w, t
<1> QED BY <1>2, <1>3, <1>4, <1>5, SessionGoesOn

\* A run, whoever asks for it.
LEMMA RunGoesOn ==
  ASSUME Books, Slots, NEW s \in Sessions, session[s] # NoSession, NEW b \in BOOLEAN, RunTool(s, b),
         containers \subseteq Sessions
  PROVE  /\ Books' /\ Slots' /\ containers' \subseteq Sessions
         /\ \A q \in Sessions :
              /\ (session'[q] # NoSession) = (session[q] # NoSession)
              /\ q # s => session'[q] = session[q]
              /\ session[q] # NoSession => session'[q].managed = session[q].managed
              /\ session[q] # NoSession /\ session[q].status = "stopped" => session'[q].status = "stopped"
<1>1. Alike(session[s], usage[s]) /\ session[s].status = "running"
  BY DEF Books, RunTool
<1>2. /\ session' = [session EXCEPT ![s] = IF b THEN Stopped(Ran(s, b)) ELSE Ran(s, b)]
      /\ usage' = [usage EXCEPT ![s] = IF b THEN Closed(Recorded(s, b)) ELSE Recorded(s, b)]
      /\ slots' = IF b THEN Freed(s, Ran(s, b)) ELSE slots
      /\ IF b THEN Removed(s, Ran(s, b)) ELSE UNCHANGED containers
  BY DEF RunTool, Ran
<1>3. containers' \subseteq Sessions
  BY <1>2 DEF Removed
<1>4. CASE b
  <2> DEFINE w == Stopped(Ran(s, b))  t == Closed(Recorded(s, b))
  <2>1. Alike(w, t) /\ Follows(w, session[s]) /\ w.status = "stopped" /\ Ran(s, b).status = "running"
    BY <1>1, <1>4, RanOut
  <2>2. session' = [session EXCEPT ![s] = w] /\ usage' = [usage EXCEPT ![s] = t] /\ slots' = slots \ {s}
    BY <1>2, <1>4, <2>1 DEF Freed
  <2> HIDE DEF w, t
  <2> QED BY <1>3, <2>1, <2>2, SessionGoesOn
<1>5. CASE ~b
  <2> DEFINE w == Ran(s, b)  t == Recorded(s, b)
  <2>1. Alike(w, t) /\ Follows(w, session[s]) /\ w.status = "running"
    BY <1>1, <1>5, RanOn
  <2>2. session' = [session EXCEPT ![s] = w] /\ usage' = [usage EXCEPT ![s] = t] /\ slots' = slots
    BY <1>2, <1>5
  <2> HIDE DEF w, t
  <2> QED BY <1>3, <2>1, <2>2, SessionGoesOn
<1> QED BY <1>3, <1>4, <1>5

\* A session starts.
LEMMA StartedAlike ==
  ASSUME NEW v, NEW u, Alike(v, u), v.status # "stopped", NEW c \in BOOLEAN,
         NEW w, w = [v EXCEPT !.status = "running"] \/ w = [v EXCEPT !.status = "running", !.container = c]
  PROVE  Alike(w, u) /\ Follows(w, v) /\ w.status = "running"
<1>1. /\ w \in LiveSessions /\ w.status = "running" /\ w.managed = v.managed
      /\ w.runs = v.runs /\ w.timeouts = v.timeouts /\ w.killed = v.killed
  BY DEF Alike, LiveSessions
<1> QED BY <1>1 DEF Alike, Follows

\* A new session, of the engine or of the manager.
LEMMA OpenAlike ==
  ASSUME NEW gvisor \in BOOLEAN, NEW managed \in BOOLEAN
  PROVE  /\ Alike(Created(gvisor, managed), Opened) /\ Created(gvisor, managed).managed = managed
         /\ Created(gvisor, managed).status = "created"
BY DEF Created, Opened, Alike, LiveSessions, Rollups, One

LEMMA OpenGoesOn ==
  ASSUME SandboxInv, NEW s \in Sessions, NEW gvisor \in BOOLEAN, NEW managed \in BOOLEAN,
         Open(s, gvisor, managed)
  PROVE  /\ Books' /\ session'[s] # NoSession /\ session'[s].managed = managed
         /\ session'[s].status = "created" /\ session[s] = NoSession
         /\ \A q \in Sessions : q # s => session'[q] = session[q] /\ (Managed(q)' = Managed(q))
<1> DEFINE w == Created(gvisor, managed)
<1>1. Alike(w, Opened) /\ w.managed = managed /\ w.status = "created" /\ w \in LiveSessions /\ Opened \in Rollups
  BY OpenAlike DEF Alike
<1>2. session[s] = NoSession /\ session' = [session EXCEPT ![s] = w] /\ usage' = [usage EXCEPT ![s] = Opened]
  BY DEF Open
<1> HIDE DEF w
<1>3. session'[s] = w /\ usage'[s] = Opened
      /\ \A q \in Sessions \ {s} : session'[q] = session[q] /\ usage'[q] = usage[q]
  BY <1>2 DEF SandboxInv, Books
<1>4. Books'
  <2>1. session' \in [Sessions -> LiveSessions \cup {NoSession}]
    BY <1>1, <1>2 DEF SandboxInv, Books
  <2>2. usage' \in [Sessions -> Rollups \cup {NoSession}]
    BY <1>1, <1>2 DEF SandboxInv, Books
  <2>3. ASSUME NEW q \in Sessions
        PROVE  \/ session'[q] = NoSession /\ usage'[q] = NoSession
               \/ Alike(session'[q], usage'[q])
    BY <1>1, <1>3 DEF SandboxInv, Books
  <2> QED BY <2>1, <2>2, <2>3 DEF Books
<1> QED BY <1>1, <1>2, <1>3, <1>4, NoSessionIs DEF Managed

LEMMA ExecuteStep ==
  ASSUME SandboxInv, NEW s \in Sessions, NEW gvisor \in BOOLEAN, Execute(s, gvisor)
  PROVE  SandboxInv'
<1>1. /\ Books' /\ session'[s] # NoSession /\ session'[s].managed = FALSE
      /\ session'[s].status = "created" /\ session[s] = NoSession
      /\ \A q \in Sessions : q # s => session'[q] = session[q] /\ (Managed(q)' = Managed(q))
  BY OpenGoesOn DEF Execute
<1>2. Slots'
  <2>1. \A q \in Sessions : (Managed(q)' /\ session'[q].status # "stopped")
                              = (Managed(q) /\ session[q].status # "stopped")
    BY <1>1 DEF Managed
  <2> QED BY <2>1 DEF Slots, SandboxInv, Execute
<1>3. Engine'
  <2>1. task' = [step |-> "start", session |-> s] /\ task' # NoTask /\ task'.session = s
        /\ task' \in [step : {"start", "tool"}, session : Sessions]
        /\ persona' = [persona EXCEPT ![s] = "EXECUTING"] /\ outcome' = outcome /\ task = NoTask
    BY NoTaskIs DEF Execute
  <2>2. outcome[s] = "none"
    BY <1>1 DEF SandboxInv, Engine
  <2>3. ASSUME NEW q \in Sessions
        PROVE  /\ Has(q)' => session'[q] # NoSession /\ ~session'[q].managed /\ outcome'[q] = "none"
               /\ Has(q)' /\ task'.step = "start" => session'[q].status = "created"
               /\ session'[q] = NoSession => outcome'[q] = "none"
               /\ outcome'[q] = "reported" => session'[q].status = "stopped" /\ persona'[q] = "TERMINATED"
               /\ session'[q] # NoSession /\ ~session'[q].managed /\ session'[q].status # "stopped" =>
                    outcome'[q] = "threw" \/ Has(q)'
    BY <1>1, <2>1, <2>2 DEF SandboxInv, Engine, Has
  <2> QED BY <2>1, <2>3 DEF SandboxInv, Engine
<1> QED BY <1>1, <1>2, <1>3 DEF SandboxInv, Execute

LEMMA CreateStep ==
  ASSUME SandboxInv, NEW s \in Sessions, Create(s)
  PROVE  SandboxInv'
<1>1. /\ Books' /\ session'[s] # NoSession /\ session'[s].managed = TRUE
      /\ session'[s].status = "created" /\ session[s] = NoSession
      /\ \A q \in Sessions : q # s => session'[q] = session[q] /\ (Managed(q)' = Managed(q))
  BY OpenGoesOn DEF Create
<1>2. Slots'
  <2>1. ASSUME NEW q \in Sessions, q # s
        PROVE  (Managed(q)' /\ session'[q].status # "stopped")
                 = (Managed(q) /\ session[q].status # "stopped")
    BY <1>1, <2>1 DEF Managed
  <2>2. Managed(s)' /\ session'[s].status # "stopped"
    BY <1>1 DEF Managed
  <2>3. slots' = slots \cup {s} /\ Cardinality(slots) < MaxLive
    BY DEF Create, HasRoom
  <2>4. slots' = {q \in Sessions : Managed(q)' /\ session'[q].status # "stopped"}
    BY <2>1, <2>2, <2>3 DEF Slots, SandboxInv
  <2>5. s \notin slots
    BY <1>1 DEF Slots, SandboxInv, Managed
  <2>6. IsFiniteSet(slots') /\ Cardinality(slots') = Cardinality(slots) + 1 /\ Cardinality(slots) \in Nat
    BY <2>3, <2>5, FS_AddElement, FS_CardinalityType DEF Slots, SandboxInv
  <2> QED BY <2>3, <2>4, <2>6, SandboxAssumption DEF Slots
<1>3. Engine'
  <2>1. task' = task /\ persona' = persona /\ outcome' = outcome
    BY DEF Create
  <2>2. ~Has(s) /\ outcome[s] = "none"
    BY <1>1 DEF SandboxInv, Engine
  <2>3. ASSUME NEW q \in Sessions
        PROVE  /\ Has(q)' => session'[q] # NoSession /\ ~session'[q].managed /\ outcome'[q] = "none"
               /\ Has(q)' /\ task'.step = "start" => session'[q].status = "created"
               /\ session'[q] = NoSession => outcome'[q] = "none"
               /\ outcome'[q] = "reported" => session'[q].status = "stopped" /\ persona'[q] = "TERMINATED"
               /\ session'[q] # NoSession /\ ~session'[q].managed /\ session'[q].status # "stopped" =>
                    outcome'[q] = "threw" \/ Has(q)'
    BY <1>1, <2>1, <2>2 DEF SandboxInv, Engine, Has
  <2> QED BY <2>1, <2>3 DEF SandboxInv, Engine
<1> QED BY <1>1, <1>2, <1>3 DEF SandboxInv, Create

\* What the engine's part asks of a session that goes on beside its task.
LEMMA EngineGoesOn ==
  ASSUME SandboxInv, UNCHANGED <<task, persona, outcome>>,
         \A q \in Sessions :
           /\ Has(q) /\ task.step = "start" => session'[q] = session[q]
           /\ (session'[q] # NoSession) = (session[q] # NoSession)
           /\ session[q] # NoSession => session'[q].managed = session[q].managed
           /\ session[q] # NoSession /\ session[q].status = "stopped" => session'[q].status = "stopped"
  PROVE  Engine'
<1>1. ASSUME NEW q \in Sessions
      PROVE  /\ Has(q)' => session'[q] # NoSession /\ ~session'[q].managed /\ outcome'[q] = "none"
             /\ Has(q)' /\ task'.step = "start" => session'[q].status = "created"
             /\ session'[q] = NoSession => outcome'[q] = "none"
             /\ outcome'[q] = "reported" => session'[q].status = "stopped" /\ persona'[q] = "TERMINATED"
             /\ session'[q] # NoSession /\ ~session'[q].managed /\ session'[q].status # "stopped" =>
                  outcome'[q] = "threw" \/ Has(q)'
  BY DEF SandboxInv, Engine, Has
<1> QED BY <1>1 DEF SandboxInv, Engine

LEMMA CallerStep ==
  ASSUME SandboxInv, NEW s \in Sessions, NEW b \in BOOLEAN,
         CallerStarts(s) \/ CallerRuns(s, b) \/ CallerStops(s)
  PROVE  SandboxInv'
<1>1. session[s] # NoSession /\ UNCHANGED <<task, persona, outcome, rejections>>
  BY DEF CallerStarts, CallerRuns, CallerStops, Managed
<1>2. /\ Books' /\ Slots' /\ containers' \subseteq Sessions
      /\ \A q \in Sessions :
           /\ (session'[q] # NoSession) = (session[q] # NoSession)
           /\ q # s => session'[q] = session[q]
           /\ session[q] # NoSession => session'[q].managed = session[q].managed
           /\ session[q] # NoSession /\ session[q].status = "stopped" => session'[q].status = "stopped"
  <2>1. CASE CallerStarts(s)
    <3> DEFINE w == [session[s] EXCEPT !.status = "running"]
    <3>1. session[s].status = "created" /\ session' = [session EXCEPT ![s] = w]
          /\ usage' = usage /\ slots' = slots /\ containers' = containers
      BY <2>1 DEF CallerStarts, StartStub, Started
    <3>2. Alike(session[s], usage[s]) /\ usage' = [usage EXCEPT ![s] = usage[s]]
      BY <1>1, <3>1 DEF SandboxInv, Books
    <3>3. Alike(w, usage[s]) /\ Follows(w, session[s]) /\ w.status = "running"
      BY <3>1, <3>2, StartedAlike
    <3> HIDE DEF w
    <3> QED BY <1>1, <3>1, <3>2, <3>3, SessionGoesOn DEF SandboxInv
  <2>2. CASE CallerRuns(s, b)
    BY <1>1, <2>2, RunGoesOn DEF CallerRuns, SandboxInv
  <2>3. CASE CallerStops(s)
    BY <1>1, <2>3, StopGoesOn DEF CallerStops, SandboxInv
  <2> QED BY <2>1, <2>2, <2>3
<1>3. ASSUME NEW q \in Sessions, Has(q)
      PROVE  session'[q] = session[q]
  <2>1. q # s
    BY <1>3 DEF SandboxInv, Engine, Managed, CallerStarts, CallerRuns, CallerStops
  <2> QED BY <1>2, <2>1
<1>4. Engine'
  BY <1>1, <1>2, <1>3, EngineGoesOn
<1> QED BY <1>1, <1>2, <1>4 DEF SandboxInv

\* The engine's own steps.
LEMMA TaskIs ==
  ASSUME SandboxInv, task.step \in {"start", "tool"}
  PROVE  /\ task \in [step : {"start", "tool"}, session : Sessions]
         /\ task # NoTask /\ Has(task.session) /\ session[task.session] # NoSession
         /\ ~session[task.session].managed /\ outcome[task.session] = "none"
         /\ Alike(session[task.session], usage[task.session])
<1>1. task \in [step : {"start", "tool"}, session : Sessions] /\ task # NoTask
  BY NoTaskIs DEF SandboxInv, Engine
<1> QED BY <1>1 DEF SandboxInv, Engine, Books, Has

\* A task that throws leaves its session to nobody.
LEMMA ThrowStep ==
  ASSUME SandboxInv, task.step \in {"start", "tool"}, Throw(task.session),
         UNCHANGED <<session, usage, slots, persona, rejections>>, containers' \subseteq Sessions
  PROVE  SandboxInv'
<1>1. task' = NoTask /\ outcome' = [outcome EXCEPT ![task.session] = "threw"]
  BY DEF Throw
<1>2. task.session \in Sessions /\ session[task.session] # NoSession
  BY TaskIs
<1>3. ASSUME NEW q \in Sessions
      PROVE  /\ Has(q)' => session'[q] # NoSession /\ ~session'[q].managed /\ outcome'[q] = "none"
             /\ Has(q)' /\ task'.step = "start" => session'[q].status = "created"
             /\ session'[q] = NoSession => outcome'[q] = "none"
             /\ outcome'[q] = "reported" => session'[q].status = "stopped" /\ persona'[q] = "TERMINATED"
             /\ session'[q] # NoSession /\ ~session'[q].managed /\ session'[q].status # "stopped" =>
                  outcome'[q] = "threw" \/ Has(q)'
  BY <1>1, <1>2 DEF SandboxInv, Engine, Has
<1>4. Engine'
  BY <1>1, <1>2, <1>3 DEF SandboxInv, Engine
<1> QED BY <1>4 DEF SandboxInv, Books, Slots, Managed

LEMMA EngineStartStep == ASSUME SandboxInv, EngineStart PROVE SandboxInv'
<1> DEFINE s == task.session
<1>1. s \in Sessions /\ task.step = "start" /\ Alike(session[s], usage[s]) /\ session[s] # NoSession
      /\ task \in [step : {"start", "tool"}, session : Sessions]
      /\ UNCHANGED <<usage, slots, rejections, persona>>
  BY TaskIs DEF EngineStart
<1>2. CASE StartFails(s) /\ Throw(s)
  <2>1. UNCHANGED session /\ containers' \subseteq Sessions
    BY <1>1, <1>2 DEF StartFails, SandboxInv
  <2> QED BY <1>1, <1>2, <2>1, ThrowStep
<1>3. CASE (StartStub(s) \/ StartContainer(s)) /\ task' = [task EXCEPT !.step = "tool"] /\ UNCHANGED outcome
  <2>1. CASE session[s].status = "stopped"
    \* The engine asks only once, of a session that it has just made.
    BY <1>1, <2>1, TaskIs DEF SandboxInv, Engine
  <2>2. CASE session[s].status # "stopped"
    <3>1. PICK w : /\ session' = [session EXCEPT ![s] = w]
                   /\ \/ w = [session[s] EXCEPT !.status = "running"]
                      \/ w = [session[s] EXCEPT !.status = "running", !.container = TRUE]
      <4>1. CASE StartStub(s)
        BY <4>1 DEF StartStub, Started
      <4>2. CASE StartContainer(s)
        <5> DEFINE v == [session[s] EXCEPT !.status = "running"]
                   u == [v EXCEPT !.container = TRUE]
        <5>1. session' = [[session EXCEPT ![s] = v] EXCEPT ![s].container = TRUE]
          BY <4>2 DEF StartContainer, Started
        <5>2. [[session EXCEPT ![s] = v] EXCEPT ![s].container = TRUE] = [session EXCEPT ![s] = u]
          <6> HIDE DEF v
          <6> QED BY <1>1 DEF SandboxInv, Books
        <5>3. u = [session[s] EXCEPT !.status = "running", !.container = TRUE]
          OBVIOUS
        <5> QED BY <5>1, <5>2, <5>3
      <4> QED BY <1>3, <4>1, <4>2
    <3>2. Alike(w, usage[s]) /\ Follows(w, session[s]) /\ w.status = "running"
      BY <1>1, <2>2, <3>1, StartedAlike
    <3>3. usage' = [usage EXCEPT ![s] = usage[s]] /\ slots' = slots
      BY <1>1 DEF SandboxInv, Books
    <3>4. /\ Books' /\ Slots' /\ session'[s] = w
          /\ \A q \in Sessions :
               /\ (session'[q] # NoSession) = (session[q] # NoSession)
               /\ q # s => session'[q] = session[q]
               /\ session[q] # NoSession => session'[q].managed = session[q].managed
               /\ session[q] # NoSession /\ session[q].status = "stopped" => session'[q].status = "stopped"
      <4> HIDE DEF s
      <4> QED BY <1>1, <3>1, <3>2, <3>3, SessionGoesOn DEF SandboxInv
    <3>5. task' \in [step : {"start", "tool"}, session : Sessions] /\ task'.session = s /\ task' # NoTask
          /\ task'.step = "tool"
      BY <1>1, <1>3, NoTaskIs
    <3>6. containers' \subseteq Sessions
      BY <1>1, <1>3 DEF StartStub, StartContainer, SandboxInv
    <3>7. Engine'
      <4>1. ASSUME NEW q \in Sessions
            PROVE  /\ Has(q)' => session'[q] # NoSession /\ ~session'[q].managed /\ outcome'[q] = "none"
                   /\ Has(q)' /\ task'.step = "start" => session'[q].status = "created"
                   /\ session'[q] = NoSession => outcome'[q] = "none"
                   /\ outcome'[q] = "reported" => session'[q].status = "stopped" /\ persona'[q] = "TERMINATED"
                   /\ session'[q] # NoSession /\ ~session'[q].managed /\ session'[q].status # "stopped" =>
                        outcome'[q] = "threw" \/ Has(q)'
        BY <1>1, <1>3, <3>4, <3>5, TaskIs DEF SandboxInv, Engine, Has
      <4> QED BY <1>1, <1>3, <3>5, <4>1 DEF SandboxInv, Engine
    <3> QED BY <1>1, <3>4, <3>6, <3>7 DEF SandboxInv
  <2> QED BY <2>1, <2>2
<1> QED BY <1>2, <1>3 DEF EngineStart

LEMMA ToolStep == ASSUME SandboxInv, NEW b \in BOOLEAN, ToolRuns(b) PROVE SandboxInv'
<1> DEFINE s == task.session
<1>1. s \in Sessions /\ session[s] # NoSession /\ RunTool(s, b)
      /\ UNCHANGED <<rejections, task, persona, outcome>>
  BY TaskIs DEF ToolRuns
<1>2. /\ Books' /\ Slots' /\ containers' \subseteq Sessions
      /\ \A q \in Sessions :
           /\ (session'[q] # NoSession) = (session[q] # NoSession)
           /\ session[q] # NoSession => session'[q].managed = session[q].managed
           /\ session[q] # NoSession /\ session[q].status = "stopped" => session'[q].status = "stopped"
  <2> HIDE DEF s
  <2> QED BY <1>1, RunGoesOn DEF SandboxInv
<1>3. Engine'
  BY <1>1, <1>2, EngineGoesOn DEF ToolRuns
<1> QED BY <1>1, <1>2, <1>3 DEF SandboxInv

LEMMA ReportStep == ASSUME SandboxInv, Report PROVE SandboxInv'
<1> DEFINE s == task.session
<1>1. s \in Sessions /\ session[s] # NoSession /\ Stop(s) /\ task' = NoTask /\ rejections' = rejections
      /\ persona' = [persona EXCEPT ![s] = "TERMINATED"]
      /\ outcome' = [outcome EXCEPT ![s] = "reported"]
  BY TaskIs DEF Report
<1>2. /\ Books' /\ Slots' /\ session'[s].status = "stopped" /\ containers' \subseteq Sessions
      /\ \A q \in Sessions :
           /\ (session'[q] # NoSession) = (session[q] # NoSession)
           /\ q # s => session'[q] = session[q]
           /\ session[q] # NoSession => session'[q].managed = session[q].managed
           /\ session[q] # NoSession /\ session[q].status = "stopped" => session'[q].status = "stopped"
  <2> HIDE DEF s
  <2> QED BY <1>1, StopGoesOn DEF SandboxInv
<1>3. ASSUME NEW q \in Sessions
      PROVE  /\ Has(q)' => session'[q] # NoSession /\ ~session'[q].managed /\ outcome'[q] = "none"
             /\ Has(q)' /\ task'.step = "start" => session'[q].status = "created"
             /\ session'[q] = NoSession => outcome'[q] = "none"
             /\ outcome'[q] = "reported" => session'[q].status = "stopped" /\ persona'[q] = "TERMINATED"
             /\ session'[q] # NoSession /\ ~session'[q].managed /\ session'[q].status # "stopped" =>
                  outcome'[q] = "threw" \/ Has(q)'
  BY <1>1, <1>2 DEF SandboxInv, Engine, Has
<1>4. Engine'
  BY <1>1, <1>3 DEF SandboxInv, Engine
<1> QED BY <1>1, <1>2, <1>4 DEF SandboxInv

LEMMA SandboxCrash == ASSUME SandboxInv, Crash PROVE SandboxInv'
<1>1. Books'
  BY DEF Crash, Books
<1>2. Slots'
  <2>1. slots' = {} /\ {s \in Sessions : Managed(s)' /\ session'[s].status # "stopped"} = {}
    BY DEF Crash, Managed
  <2> QED BY <2>1, FS_EmptySet, SandboxAssumption DEF Slots
<1>3. Engine'
  BY NoSessionIs DEF Crash, Engine, Has
<1> QED BY <1>1, <1>2, <1>3 DEF Crash, SandboxInv

LEMMA SandboxStep == ASSUME SandboxInv, [SandboxNext]_sandboxVars PROVE SandboxInv'
<1>1. CASE \E s \in Sessions, gvisor \in BOOLEAN : Execute(s, gvisor)
  BY <1>1, ExecuteStep
<1>2. CASE EngineStart
  BY <1>2, EngineStartStep
<1>3. CASE ToolThrows
  BY <1>3, ThrowStep DEF ToolThrows, SandboxInv
<1>4. CASE Report
  BY <1>4, ReportStep
<1>5. CASE \E timedOut \in BOOLEAN : ToolRuns(timedOut)
  BY <1>5, ToolStep
<1>6. CASE Reject \/ (\E s \in Sessions : Expire(s)) \/ UNCHANGED sandboxVars
  <2>1. UNCHANGED <<session, usage, slots, task, persona, outcome>>
    BY <1>6 DEF Reject, Expire, sandboxVars
  <2>2. containers' \subseteq Sessions /\ rejections' \in BOOLEAN
    BY <1>6 DEF Reject, Expire, sandboxVars, SandboxInv
  <2>3. Books' /\ Slots'
    BY <2>1 DEF SandboxInv, Books, Slots, Managed
  <2>4. Engine'
    BY <2>1 DEF SandboxInv, Engine, Has
  <2> QED BY <2>2, <2>3, <2>4 DEF SandboxInv
<1>7. CASE Crash
  BY <1>7, SandboxCrash
<1>8. CASE \E s \in Sessions : Create(s)
  BY <1>8, CreateStep
<1>9. CASE \E s \in Sessions : CallerStarts(s) \/ CallerStops(s)
  BY <1>9, CallerStep
<1>10. CASE \E s \in Sessions, timedOut \in BOOLEAN : CallerRuns(s, timedOut)
  BY <1>10, CallerStep
<1> QED BY <1>1, <1>2, <1>3, <1>4, <1>5, <1>6, <1>7, <1>8, <1>9, <1>10 DEF SandboxNext

LEMMA SandboxHolds ==
  ASSUME SandboxInv
  PROVE  SandboxTypeOK /\ BooksAgree /\ SlotsAreHonest /\ ReportsLeaveNothing
<1>1. SandboxTypeOK
  <2>1. task.step \in {"idle", "start", "tool"}
    BY NoTaskIs DEF SandboxInv, Engine
  <2>2. ASSUME NEW s \in Sessions
        PROVE  /\ session[s].status \in {"none", "created", "running", "stopped"}
               /\ usage[s].status \in {"none", "open", "closed"}
    BY NoSessionIs DEF SandboxInv, Books, Alike, LiveSessions, Rollups
  <2> QED BY <2>1, <2>2 DEF SandboxTypeOK, SandboxInv, Slots, Engine
<1>2. BooksAgree
  BY DEF SandboxInv, Books, Alike, BooksAgree
<1>3. SlotsAreHonest
  BY DEF SandboxInv, Slots, SlotsAreHonest
<1>4. ReportsLeaveNothing
  <2>1. ASSUME NEW s \in Sessions, outcome[s] = "reported"
        PROVE  session[s].status = "stopped" /\ ~session[s].container /\ persona[s] = "TERMINATED"
    BY <2>1, NoSessionIs DEF SandboxInv, Books, Engine, Alike
  <2>2. ASSUME NEW s \in Sessions, session[s] # NoSession, ~Managed(s), task = NoTask,
               session[s].status # "stopped"
        PROVE  outcome[s] = "threw"
    BY <2>2 DEF SandboxInv, Engine, Managed, Has
  <2> QED BY <2>1, <2>2 DEF ReportsLeaveNothing
<1> QED BY <1>1, <1>2, <1>3, <1>4

\* VISION's sandboxes, for any number of sessions, limit of live ones and cap of runs:
\* the usage ledger bills what happened, through throwing runners and timeout kills;
\* the manager's slots are its sessions that have not stopped, and no more than its
\* limit; and an execution that was reported leaves nothing running.
THEOREM SandboxIsSound ==
  SandboxSpec => [](BooksAgree /\ SlotsAreHonest /\ ReportsLeaveNothing)
<1>1. SandboxInit => SandboxInv
  BY SandboxStarts
<1>2. SandboxInv /\ [SandboxNext]_sandboxVars => SandboxInv'
  BY SandboxStep
<1>3. SandboxInv => BooksAgree /\ SlotsAreHonest /\ ReportsLeaveNothing
  BY SandboxHolds
<1> QED BY <1>1, <1>2, <1>3, PTL DEF SandboxSpec

-----------------------------------------------------------------------------
(* What VISION lets in.                                                    *)

Entries == [name : ToolNames, version : Versions, capability : Capabilities, manifest : Manifests,
            signature : UNION {SignaturesOf(m) : m \in Manifests}]

\* A listing that the gates have let through.
WasVetted(t) == VerifyManifest(t.manifest, t.signature) /\ t.capability \in {"leaf", "spelled"}

\* The listings' keys are their own, in the order in which they were first taken;
\* a listing is the last of its key, and no accepted one is missing.
Catalogue ==
  /\ tools \in Seq(Entries) /\ accepted \in Seq(Entries)
  /\ \A i \in DOMAIN tools :
       /\ WasVetted(tools[i])
       /\ \E j \in Takes(tools[i]) : accepted[j] = tools[i] /\ \A k \in Takes(tools[i]) : k <= j
  /\ \A i, k \in DOMAIN tools : i < k =>
       /\ ~SameKey(tools[i], tools[k])
       /\ \E j \in Takes(tools[i]) : \A m \in Takes(tools[k]) : j < m
  /\ \A j \in DOMAIN accepted : \E i \in DOMAIN tools : SameKey(tools[i], accepted[j])

VettingInv == Catalogue /\ TasksAreGuarded

LEMMA ManifestIs ==
  ASSUME NEW m \in Manifests
  PROVE  m.name \in ToolNames /\ m.version \in Versions /\ m.capability \in Capabilities
BY DEF Manifests, Manifest, Capabilities

LEMMA ListingPasses ==
  ASSUME NEW m \in Manifests, NEW s \in SignaturesOf(m), Gates(m, s) = "none"
  PROVE  Listing(m, s) \in Entries /\ WasVetted(Listing(m, s))
<1>1. m.capability \in {"leaf", "spelled"} /\ VerifyManifest(m, s)
  BY ManifestIs DEF Gates, AssertNoEscalation, Capabilities
<1>2. Listing(m, s) \in Entries
  BY ManifestIs DEF Listing, Entries
<1> QED BY <1>1, <1>2 DEF Listing, WasVetted

\* What an accepted listing adds to the takes of a key.
LEMMA TakesGrow ==
  ASSUME accepted \in Seq(Entries), NEW l \in Entries, accepted' = Append(accepted, l), NEW t
  PROVE  /\ Takes(t) \subseteq 1..Len(accepted) /\ Len(accepted) \in Nat
         /\ \A j \in Takes(t) : accepted'[j] = accepted[j]
         /\ accepted'[Len(accepted) + 1] = l
         /\ SameKey(l, t) => Takes(t)' = Takes(t) \cup {Len(accepted) + 1}
         /\ ~SameKey(l, t) => Takes(t)' = Takes(t)
<1>1. /\ DOMAIN accepted = 1..Len(accepted) /\ Len(accepted) \in Nat
      /\ DOMAIN accepted' = 1..(Len(accepted) + 1)
      /\ accepted'[Len(accepted) + 1] = l
      /\ \A j \in 1..Len(accepted) : accepted'[j] = accepted[j]
  OBVIOUS
<1>2. DOMAIN accepted' = DOMAIN accepted \cup {Len(accepted) + 1}
  BY <1>1
<1> QED BY <1>1, <1>2 DEF Takes

LEMMA ListingKept ==
  ASSUME Catalogue, NEW l \in Entries, WasVetted(l), accepted' = Append(accepted, l),
         tools' = Listed(tools, l)
  PROVE  Catalogue'
<1> DEFINE n == Len(accepted)
           TakesNext(t) == {i \in DOMAIN accepted' : SameKey(accepted'[i], t)}
<1>1. DOMAIN tools = 1..Len(tools) /\ Len(tools) \in Nat /\ \A i \in DOMAIN tools : tools[i] \in Entries
  BY DEF Catalogue
<1>2. accepted' \in Seq(Entries) /\ n \in Nat /\ DOMAIN accepted = 1..n /\ DOMAIN accepted' = 1..(n + 1)
      /\ accepted'[n + 1] = l /\ \A j \in 1..n : accepted'[j] = accepted[j]
  BY DEF Catalogue
<1>3. \A t : /\ Takes(t) \subseteq 1..n
             /\ SameKey(l, t) => TakesNext(t) = Takes(t) \cup {n + 1}
             /\ ~SameKey(l, t) => TakesNext(t) = Takes(t)
  <2>1. \A t : TakesNext(t) = Takes(t)'
    BY DEF Takes
  <2> QED BY <2>1, TakesGrow DEF Catalogue
<1>4. \A t, u : SameKey(t, u) => TakesNext(t) = TakesNext(u) /\ Takes(t) = Takes(u)
  BY DEF Takes, SameKey
<1>7. Catalogue' <=>
        /\ tools' \in Seq(Entries) /\ accepted' \in Seq(Entries)
        /\ \A i \in DOMAIN tools' :
             /\ WasVetted(tools'[i])
             /\ \E j \in TakesNext(tools'[i]) : /\ accepted'[j] = tools'[i]
                                               /\ \A k \in TakesNext(tools'[i]) : k <= j
        /\ \A i, k \in DOMAIN tools' : i < k =>
             /\ ~SameKey(tools'[i], tools'[k])
             /\ \E j \in TakesNext(tools'[i]) : \A m \in TakesNext(tools'[k]) : j < m
        /\ \A j \in DOMAIN accepted' : \E i \in DOMAIN tools' : SameKey(tools'[i], accepted'[j])
  BY DEF Catalogue, Takes, WasVetted, SameKey
<1> HIDE DEF TakesNext
<1>5. CASE \E i \in DOMAIN tools : SameKey(tools[i], l)
  <2>1. tools' = [i \in DOMAIN tools |-> IF SameKey(tools[i], l) THEN l ELSE tools[i]]
    BY <1>5 DEF Listed
  <2>2. tools' \in Seq(Entries) /\ DOMAIN tools' = DOMAIN tools
    BY <1>1, <2>1
  <2>3. \A i \in DOMAIN tools : SameKey(tools'[i], tools[i])
    BY <2>1 DEF SameKey
  <2>4. ASSUME NEW i \in DOMAIN tools'
        PROVE  /\ WasVetted(tools'[i])
               /\ \E j \in TakesNext(tools'[i]) : /\ accepted'[j] = tools'[i]
                                              /\ \A k \in TakesNext(tools'[i]) : k <= j
    <3>1. CASE SameKey(tools[i], l)
      <4>1. tools'[i] = l /\ SameKey(l, l)
        BY <2>1, <2>2, <3>1 DEF SameKey
      <4>2. TakesNext(l) = Takes(l) \cup {n + 1}
        BY <1>3, <4>1
      <4>3. \A k \in TakesNext(l) : k <= n + 1
        BY <1>2, <1>3, <4>2
      <4> QED BY <1>2, <4>1, <4>2, <4>3
    <3>2. CASE ~SameKey(tools[i], l)
      <4>1. tools'[i] = tools[i] /\ ~SameKey(l, tools[i])
        BY <2>1, <2>2, <3>2 DEF SameKey
      <4>2. TakesNext(tools[i]) = Takes(tools[i])
        BY <1>3, <4>1
      <4> QED BY <1>2, <1>3, <2>2, <4>1, <4>2 DEF Catalogue
    <3> QED BY <3>1, <3>2
  <2>5. ASSUME NEW i \in DOMAIN tools', NEW k \in DOMAIN tools', i < k
        PROVE  /\ ~SameKey(tools'[i], tools'[k])
               /\ \E j \in TakesNext(tools'[i]) : \A m \in TakesNext(tools'[k]) : j < m
    <3>1. ~SameKey(tools'[i], tools'[k])
      BY <2>2, <2>3, <2>5 DEF Catalogue, SameKey
    <3>2. PICK j \in Takes(tools[i]) : \A m \in Takes(tools[k]) : j < m
      BY <2>2, <2>5 DEF Catalogue
    <3>3. TakesNext(tools'[i]) = TakesNext(tools[i]) /\ TakesNext(tools'[k]) = TakesNext(tools[k])
      BY <1>4, <2>2, <2>3
    <3>4. j \in TakesNext(tools[i]) /\ j \in 1..n
      BY <1>3, <3>2
    <3>5. \A m \in TakesNext(tools[k]) : m \in Takes(tools[k]) \/ m = n + 1
      BY <1>3
    <3>6. \A m \in TakesNext(tools[k]) : j < m
      BY <1>2, <3>2, <3>4, <3>5
    <3> QED BY <3>1, <3>3, <3>4, <3>6
  <2>6. ASSUME NEW j \in DOMAIN accepted'
        PROVE  \E i \in DOMAIN tools' : SameKey(tools'[i], accepted'[j])
    <3>1. CASE j = n + 1
      BY <1>2, <1>5, <2>2, <2>3, <3>1 DEF SameKey
    <3>2. CASE j \in 1..n
      <4>1. PICK i \in DOMAIN tools : SameKey(tools[i], accepted[j])
        BY <1>2, <3>2 DEF Catalogue
      <4> QED BY <1>2, <2>2, <2>3, <3>2, <4>1 DEF SameKey
    <3> QED BY <1>2, <3>1, <3>2
  <2> QED BY <1>2, <1>7, <2>2, <2>4, <2>5, <2>6
<1>6. CASE ~\E i \in DOMAIN tools : SameKey(tools[i], l)
  <2> DEFINE p == Len(tools) + 1
  <2>1. tools' = Append(tools, l)
    BY <1>6 DEF Listed
  <2>2. tools' \in Seq(Entries) /\ DOMAIN tools' = 1..p /\ tools'[p] = l
        /\ \A i \in DOMAIN tools : tools'[i] = tools[i] /\ i \in 1..(p - 1)
    BY <1>1, <2>1 DEF Catalogue
  <2>3. Takes(l) = {} /\ TakesNext(l) = {n + 1}
    <3>1. Takes(l) = {}
      BY <1>2, <1>6 DEF Takes, SameKey, Catalogue
    <3> QED BY <1>3, <3>1 DEF SameKey
  <2>4. \A i \in DOMAIN tools : TakesNext(tools[i]) = Takes(tools[i])
    BY <1>3, <1>6 DEF SameKey
  <2>5. ASSUME NEW i \in DOMAIN tools'
        PROVE  /\ WasVetted(tools'[i])
               /\ \E j \in TakesNext(tools'[i]) : /\ accepted'[j] = tools'[i]
                                              /\ \A k \in TakesNext(tools'[i]) : k <= j
    <3>1. CASE i = p
      BY <1>2, <2>2, <2>3, <3>1
    <3>2. CASE i \in DOMAIN tools
      <4>1. PICK j \in Takes(tools[i]) : accepted[j] = tools[i] /\ \A k \in Takes(tools[i]) : k <= j
        BY <3>2 DEF Catalogue
      <4>2. accepted'[j] = accepted[j]
        BY <1>2, <1>3, <4>1
      <4>3. tools'[i] = tools[i] /\ TakesNext(tools'[i]) = Takes(tools[i]) /\ WasVetted(tools[i])
        BY <2>2, <2>4, <3>2 DEF Catalogue
      <4> QED BY <4>1, <4>2, <4>3
    <3>3. i = p \/ i \in DOMAIN tools
      BY <1>1, <2>2
    <3> QED BY <3>1, <3>2, <3>3
  <2>6. ASSUME NEW i \in DOMAIN tools', NEW k \in DOMAIN tools', i < k
        PROVE  /\ ~SameKey(tools'[i], tools'[k])
               /\ \E j \in TakesNext(tools'[i]) : \A m \in TakesNext(tools'[k]) : j < m
    <3>1. i \in DOMAIN tools /\ tools'[i] = tools[i]
      BY <1>1, <2>2, <2>6
    <3>2. CASE k = p
      <4>1. PICK j \in Takes(tools[i]) : accepted[j] = tools[i]
        BY <3>1 DEF Catalogue
      <4>2. j \in 1..n
        BY <1>3, <4>1
      <4>3. j < n + 1
        BY <1>2, <4>2
      <4> QED BY <1>6, <2>2, <2>3, <2>4, <3>1, <3>2, <4>1, <4>3
    <3>3. CASE k \in DOMAIN tools
      BY <2>2, <2>4, <2>6, <3>1, <3>3 DEF Catalogue
    <3> QED BY <1>1, <2>2, <3>2, <3>3
  <2>7. ASSUME NEW j \in DOMAIN accepted'
        PROVE  \E i \in DOMAIN tools' : SameKey(tools'[i], accepted'[j])
    <3>1. CASE j = n + 1
      BY <1>1, <1>2, <2>2, <3>1 DEF SameKey
    <3>2. CASE j \in 1..n
      <4>1. PICK i \in DOMAIN tools : SameKey(tools[i], accepted[j])
        BY <1>2, <3>2 DEF Catalogue
      <4>2. i \in DOMAIN tools' /\ tools'[i] = tools[i]
        BY <1>1, <2>2
      <4> QED BY <1>2, <3>2, <4>1, <4>2
    <3> QED BY <1>2, <3>1, <3>2
  <2> QED BY <1>2, <1>7, <2>2, <2>5, <2>6, <2>7
<1> QED BY <1>5, <1>6

LEMMA RegisterStep ==
  ASSUME VettingInv, NEW m \in Manifests, NEW s \in SignaturesOf(m), Register(m, s)
  PROVE  VettingInv'
<1>1. TasksAreGuarded'
  BY DEF Register, VettingInv, TasksAreGuarded
<1>2. CASE Gates(m, s) = "none"
  <2> DEFINE l == Listing(m, s)
  <2>1. l \in Entries /\ WasVetted(l)
    BY <1>2, ListingPasses
  <2>2. tools' = Listed(tools, l) /\ accepted' = Append(accepted, l)
    BY <1>2 DEF Register
  <2> HIDE DEF l
  <2> QED BY <1>1, <2>1, <2>2, ListingKept DEF VettingInv
<1>3. CASE Gates(m, s) # "none"
  BY <1>1, <1>3 DEF Register, VettingInv, Catalogue, Takes
<1> QED BY <1>2, <1>3

LEMMA TaskStep ==
  ASSUME VettingInv, NEW intent \in Contents, NEW tool \in {"bash", "python"}, NEW key \in Keys,
         NEW holds \in Contents, RunVisionTask(intent, tool, Params(key, holds))
  PROVE  VettingInv'
<1> DEFINE p == Params(key, holds)
<1>1. Catalogue'
  BY DEF RunVisionTask, VettingInv, Catalogue, Takes
<1>2. CASE Violations(intent, p) # {}
  BY <1>1, <1>2 DEF RunVisionTask, VettingInv, TasksAreGuarded, TaskResult
<1>3. CASE Violations(intent, p) = {}
  <2>1. ToolRun(tool, p) # "privateUrl"
    BY <1>3 DEF ToolRun, Params, Violations
  <2> DEFINE r == [intent |-> intent, params |-> p, tool |-> ToolRun(tool, p)]
  <2>2. ran' = ran \cup {r} /\ result'.billed
    BY <1>3 DEF RunVisionTask, TaskResult
  <2>4. Violations(r.intent, r.params) = {} /\ r.tool # "privateUrl"
    BY <1>3, <2>1
  <2> HIDE DEF p, r
  <2>3. TasksAreGuarded'
    BY <2>2, <2>4 DEF VettingInv, TasksAreGuarded
  <2> QED BY <1>1, <2>3 DEF VettingInv
<1> QED BY <1>2, <1>3

LEMMA VettingStep == ASSUME VettingInv, [VettingNext]_vettingVars PROVE VettingInv'
<1>1. CASE UNCHANGED vettingVars
  <2>1. Catalogue'
    BY <1>1 DEF vettingVars, VettingInv, Catalogue, Takes
  <2>2. TasksAreGuarded'
    BY <1>1 DEF vettingVars, VettingInv, TasksAreGuarded
  <2> QED BY <2>1, <2>2 DEF VettingInv
<1> QED BY <1>1, RegisterStep, TaskStep DEF VettingNext

LEMMA VettingStarts == VettingInit => VettingInv
<1> SUFFICES ASSUME VettingInit PROVE VettingInv
  OBVIOUS
<1>1. tools = <<>> /\ accepted = <<>> /\ DOMAIN <<>> = {}
  BY DEF VettingInit
<1>2. Catalogue
  BY <1>1 DEF Catalogue
<1> QED BY <1>2 DEF VettingInit, VettingInv, TasksAreGuarded, TaskResult

LEMMA VettingHolds == ASSUME VettingInv PROVE VisionTakesVetted
<1>1. DOMAIN tools = 1..Len(tools) /\ Len(tools) \in Nat
  BY DEF VettingInv, Catalogue
<1>2. \A i, k \in DOMAIN tools : SameKey(tools[i], tools[k]) => i = k
  BY <1>1 DEF VettingInv, Catalogue, SameKey
<1>3. ASSUME NEW i \in DOMAIN tools
      PROVE  LookUp(tools[i].name, tools[i].version) = {tools[i]}
  BY <1>2 DEF LookUp, Range, SameKey
<1>4. ASSUME NEW j \in DOMAIN accepted
      PROVE  LookUp(accepted[j].name, accepted[j].version) # {}
  BY DEF VettingInv, Catalogue, LookUp, Range, SameKey
<1>5. ASSUME NEW name \in ToolNames, NEW found \in LatestOf(name), NEW other \in Range(tools),
             other.name = name, ~SameKey(other, found)
      PROVE  \E j \in Takes(other) : \A k \in Takes(found) : j < k
  <2>1. PICK i \in DOMAIN tools : /\ found = tools[i] /\ tools[i].name = name
                                  /\ \A k \in DOMAIN tools : tools[k].name = name => k <= i
    BY DEF LatestOf
  <2>2. PICK k \in DOMAIN tools : other = tools[k]
    BY DEF Range
  <2>3. k < i
    BY <1>1, <1>5, <2>1, <2>2 DEF SameKey
  <2> QED BY <2>1, <2>2, <2>3 DEF VettingInv, Catalogue
<1>6. ListedIsVetted
  BY <1>3, <1>4, <1>5 DEF ListedIsVetted, VettingInv, Catalogue, WasVetted
<1> QED BY <1>6 DEF VisionTakesVetted, VettingInv

\* What VISION lets in: however registrations are ordered, repeated and refused, a
\* listing is its key's last accepted manifest, signed and a leaf, the latest of a
\* name is the last of its versions to have been new, and nothing that the guard
\* would refuse of a task ever ran.
THEOREM VisionVets == VettingInit /\ [][VettingNext]_vettingVars => []VisionTakesVetted
<1> QED BY VettingStarts, VettingStep, VettingHolds, PTL

-----------------------------------------------------------------------------
(* DREAM's tree of outcomes. *)

Sizes(size, breadth, depth) ==
  size = [d \in 0..depth |-> IF d = 0 THEN 0 ELSE breadth * (1 + size[d - 1])]

LEMMA SizesExist ==
  ASSUME NEW b \in Nat, NEW n \in Nat
  PROVE  \E size : Sizes(size, b, n)
<1> DEFINE Without == {d \in Nat : ~\E size : Sizes(size, b, d)}
<1> SUFFICES ASSUME Without # {} PROVE FALSE
  OBVIOUS
<1>1. PICK d \in Without : \A e \in Without : d <= e
  BY LeastNumber
<1>2. CASE d = 0
  <2> DEFINE f == [e \in 0..d |-> 0]
  <2>1. \A e \in 0..d : e = 0
    BY <1>2
  <2>2. f = [e \in 0..d |-> IF e = 0 THEN 0 ELSE b * (1 + f[e - 1])]
    BY <2>1
  <2> QED BY <1>1, <2>2 DEF Sizes
<1>3. CASE d # 0
  <2>1. d - 1 \in Nat /\ d - 1 \notin Without
    BY <1>1, <1>3
  <2>2. PICK f : Sizes(f, b, d - 1)
    BY <2>1
  <2> DEFINE g == [e \in 0..d |-> IF e = d THEN b * (1 + f[d - 1]) ELSE f[e]]
  <2>3. \A e \in 0..(d - 1) : g[e] = f[e]
    BY <1>3
  <2>4. \A e \in 0..(d - 1) : f[e] = IF e = 0 THEN 0 ELSE b * (1 + f[e - 1])
    BY <2>2 DEF Sizes
  <2>5. ASSUME NEW e \in 0..d
        PROVE  g[e] = IF e = 0 THEN 0 ELSE b * (1 + g[e - 1])
    <3>1. CASE e = d
      BY <1>3, <2>1, <2>3, <3>1
    <3>2. CASE e # d
      <4>1. e \in 0..(d - 1) /\ (e # 0 => e - 1 \in 0..(d - 1))
        BY <3>2
      <4> QED BY <2>3, <2>4, <4>1
    <3> QED BY <3>1, <3>2
  <2>6. g = [e \in 0..d |-> IF e = 0 THEN 0 ELSE b * (1 + g[e - 1])]
    BY <2>5
  <2> QED BY <1>1, <2>6 DEF Sizes
<1> QED BY <1>2, <1>3

LEMMA SizesAgree ==
  ASSUME NEW b \in Nat, NEW d \in Nat, NEW e \in Nat, NEW f, Sizes(f, b, d), NEW g, Sizes(g, b, e),
         NEW n \in Nat, n <= d, n <= e
  PROVE  f[n] = g[n] /\ f[n] \in Nat
<1> DEFINE Apart == {m \in Nat : m <= d /\ m <= e /\ ~(f[m] = g[m] /\ f[m] \in Nat)}
<1> SUFFICES ASSUME Apart # {} PROVE FALSE
  OBVIOUS
<1>1. PICK m \in Apart : \A k \in Apart : m <= k
  BY LeastNumber
<1>2. /\ f[m] = IF m = 0 THEN 0 ELSE b * (1 + f[m - 1])
      /\ g[m] = IF m = 0 THEN 0 ELSE b * (1 + g[m - 1])
  BY DEF Sizes
<1>3. m # 0
  BY <1>2
<1>4. m - 1 \in Nat /\ m - 1 \notin Apart
  BY <1>1, <1>3
<1>5. f[m - 1] = g[m - 1] /\ f[m - 1] \in Nat
  BY <1>4
<1>6. 1 + f[m - 1] \in Nat
  BY <1>5
<1> QED BY <1>2, <1>3, <1>5, <1>6

LEMMA TreeSizeIs ==
  ASSUME NEW b \in Nat, NEW d \in Nat
  PROVE  /\ TreeSize(b, 0) = 0 /\ TreeSize(b, d) \in Nat
         /\ TreeSize(b, d + 1) = b * (1 + TreeSize(b, d))
<1> DEFINE f(n) == CHOOSE size : Sizes(size, b, n)
<1>1. \A n \in Nat : TreeSize(b, n) = f(n)[n] /\ Sizes(f(n), b, n)
  BY SizesExist DEF TreeSize, Sizes
<1> HIDE DEF f
<1>2. TreeSize(b, 0) = 0
  BY <1>1 DEF Sizes
<1>3. TreeSize(b, d) \in Nat
  BY <1>1, SizesAgree
<1>4. f(d + 1)[d + 1] = b * (1 + f(d + 1)[d])
  <2>1. d + 1 \in Nat /\ d + 1 \in 0..(d + 1) /\ d + 1 # 0 /\ (d + 1) - 1 = d
    OBVIOUS
  <2> QED BY <1>1, <2>1 DEF Sizes
<1>5. f(d + 1)[d] = f(d)[d]
  <2>1. d + 1 \in Nat /\ d <= d + 1 /\ d <= d
    OBVIOUS
  <2> QED BY <1>1, <2>1, SizesAgree
<1> QED BY <1>1, <1>2, <1>3, <1>4, <1>5

\* What x outcomes of a level are worth, with `e` levels below it.
Worth(x, breadth, e) == x * (1 + TreeSize(breadth, e))

\* expand: at[k] outcomes of level k have been begun, and level k began when the
\* cursor was began[k]; the last one begun above the level at work is not over.
Walk(began, b, d, spot, at) ==
  /\ at \in Seq(Nat) /\ began \in [1..Len(at) -> Nat] /\ Len(at) <= d
  /\ \A k \in 1..Len(at) : at[k] <= b /\ began[k] + TreeSize(b, d + 1 - k) <= TreeSize(b, d)
  /\ \A k \in 1..(Len(at) - 1) :
       at[k] > 0 /\ began[k + 1] = began[k] + Worth(at[k] - 1, b, d - k) + 1
  /\ IF Len(at) = 0 THEN spot = TreeSize(b, d)
     ELSE began[1] = 0 /\ spot = began[Len(at)] + Worth(at[Len(at)], b, d - Len(at))
Walking(b, d, spot, at) == \E began : Walk(began, b, d, spot, at)

\* The loop's counters after a turn of it, and after a return.
Turned(at, d, next) ==
  /\ next \in Seq(Nat) /\ Len(next) = IF Len(at) < d THEN Len(at) + 1 ELSE Len(at)
  /\ next[Len(at)] = at[Len(at)] + 1 /\ \A k \in 1..(Len(at) - 1) : next[k] = at[k]
  /\ Len(at) < d => next[Len(at) + 1] = 0
NextTaken(at, b, next) ==
  at[Len(at)] = b /\ next \in Seq(Nat) /\ Len(next) = Len(at) - 1 /\ \A k \in 1..(Len(at) - 1) : next[k] = at[k]

LEMMA Products ==
  /\ \A x, y, p \in Nat : x <= y => x * p <= y * p
  /\ \A x, p \in Nat : x * p \in Nat /\ (x + 1) * p = x * p + p
<1>1. \A x, p \in Nat : x * p \in Nat /\ (x + 1) * p = x * p + p
  OBVIOUS
<1>2. ASSUME NEW x \in Nat, NEW y \in Nat, NEW p \in Nat, x <= y PROVE x * p <= y * p
  <2>1. PICK z \in Nat : y = x + z
    <3>1. y - x \in Nat /\ y = x + (y - x)
      BY <1>2
    <3> QED BY <3>1
  <2>2. y * p = x * p + z * p /\ x * p \in Nat /\ z * p \in Nat
    BY <2>1
  <2> QED BY <2>2
<1> QED BY <1>1, <1>2

LEMMA WorthIs ==
  ASSUME NEW b \in Nat, NEW e \in Nat
  PROVE  /\ TreeSize(b, e) \in Nat /\ TreeSize(b, 0) = 0
         /\ Worth(0, b, e) = 0 /\ Worth(b, b, e) = TreeSize(b, e + 1)
         /\ \A x \in Nat : Worth(x, b, e) \in Nat /\ Worth(x + 1, b, e) = Worth(x, b, e) + 1 + TreeSize(b, e)
         /\ \A x, y \in Nat : x <= y => Worth(x, b, e) <= Worth(y, b, e)
<1> DEFINE p == 1 + TreeSize(b, e)
<1>1. p \in Nat /\ TreeSize(b, e) \in Nat /\ TreeSize(b, 0) = 0
  BY TreeSizeIs
<1>2. Worth(b, b, e) = TreeSize(b, e + 1)
  BY TreeSizeIs DEF Worth
<1>3. \A x : Worth(x, b, e) = x * p
  BY DEF Worth
<1>4. p = 1 + TreeSize(b, e)
  OBVIOUS
<1> HIDE DEF p
<1>5. \A x \in Nat : x * p \in Nat /\ (x + 1) * p = x * p + p
  BY <1>1, Products
<1>6. ASSUME NEW x \in Nat
      PROVE  Worth(x, b, e) \in Nat /\ Worth(x + 1, b, e) = Worth(x, b, e) + 1 + TreeSize(b, e)
  <2> DEFINE v == x * p
  <2>1. v \in Nat /\ Worth(x, b, e) = v /\ Worth(x + 1, b, e) = v + p
    BY <1>3, <1>5
  <2> HIDE DEF v
  <2> QED BY <1>1, <1>4, <2>1
<1>7. 0 * p = 0
  BY <1>1
<1> QED BY <1>1, <1>2, <1>3, <1>6, <1>7, Products

LEMMA WorthNext ==
  ASSUME NEW b \in Nat, NEW e \in Nat, NEW x \in Nat
  PROVE  Worth(x, b, e) \in Nat /\ Worth(x + 1, b, e) = Worth(x, b, e) + 1 + TreeSize(b, e)
BY WorthIs, Zenon

LEMMA WalkIs ==
  ASSUME NEW b, NEW d \in Nat, NEW c, NEW at, NEW began, Walk(began, b, d, c, at),
         Len(at) > 0
  PROVE  /\ Len(at) \in Nat \ {0} /\ Len(at) <= d /\ d - Len(at) \in Nat /\ d - Len(at) + 1 = d + 1 - Len(at)
         /\ began[1] = 0 /\ c = began[Len(at)] + Worth(at[Len(at)], b, d - Len(at))
         /\ \A k \in 1..Len(at) :
              at[k] \in Nat /\ began[k] \in Nat /\ at[k] <= b
              /\ began[k] + TreeSize(b, d + 1 - k) <= TreeSize(b, d)
<1>1. Len(at) \in Nat \ {0} /\ \A k \in 1..Len(at) : at[k] \in Nat
  BY DEF Walk
<1>2. Len(at) <= d /\ began[1] = 0 /\ c = began[Len(at)] + Worth(at[Len(at)], b, d - Len(at))
  BY <1>1 DEF Walk
<1>3. d - Len(at) \in Nat /\ d - Len(at) + 1 = d + 1 - Len(at)
  BY <1>1, <1>2
<1>4. \A k \in 1..Len(at) : began[k] \in Nat /\ at[k] <= b
              /\ began[k] + TreeSize(b, d + 1 - k) <= TreeSize(b, d)
  BY DEF Walk
<1> QED BY <1>1, <1>2, <1>3, <1>4

LEMMA WalkFrom ==
  ASSUME NEW b, NEW d, NEW c, NEW at \in Seq(Nat), NEW l, l = Len(at), l # 0, l <= d,
         NEW began \in [1..l -> Nat],
         \A k \in 1..l : at[k] <= b /\ began[k] + TreeSize(b, d + 1 - k) <= TreeSize(b, d),
         \A k \in 1..(l - 1) : at[k] > 0 /\ began[k + 1] = began[k] + Worth(at[k] - 1, b, d - k) + 1,
         began[1] = 0, c = began[l] + Worth(at[l], b, d - l)
  PROVE  Walk(began, b, d, c, at)
BY DEF Walk

LEMMA WalkBegins ==
  ASSUME NEW b \in Nat, NEW d \in Nat
  PROVE  Walking(b, d, 0, IF d = 0 THEN <<>> ELSE <<0>>)
<1>1. CASE d = 0
  <2> DEFINE none == [k \in 1..0 |-> 0]
  <2>1. Len(<<>>) = 0 /\ 1..0 = {} /\ 1..(0 - 1) = {} /\ TreeSize(b, 0) = 0
    BY TreeSizeIs
  <2>2. Walk(none, b, d, 0, <<>>)
    BY <1>1, <2>1 DEF Walk
  <2> QED BY <1>1, <2>2 DEF Walking
<1>2. CASE d # 0
  <2> DEFINE one == [k \in 1..1 |-> 0]
  <2>1. d - 1 \in Nat /\ TreeSize(b, d) \in Nat /\ Worth(0, b, d - 1) = 0
    BY <1>2, WorthIs
  <2>2. Len(<<0>>) = 1 /\ <<0>>[1] = 0 /\ 1..(1 - 1) = {} /\ d + 1 - 1 = d
    OBVIOUS
  <2>3. \A k \in 1..1 : k = 1
    OBVIOUS
  <2>4. Walk(one, b, d, 0, <<0>>)
    BY <1>2, <2>1, <2>2, <2>3 DEF Walk
  <2> QED BY <1>2, <2>4 DEF Walking
<1> QED BY <1>1, <1>2

\* A turn of the loop: one outcome more, and the level below it if there is one.
LEMMA WalkExpands ==
  ASSUME NEW b \in Nat, NEW d \in Nat, NEW c \in Nat, NEW at, Walking(b, d, c, at),
         Len(at) > 0, at[Len(at)] < b, NEW next, Turned(at, d, next)
  PROVE  Walking(b, d, c + 1, next) /\ c + 1 <= TreeSize(b, d)
<1>1. PICK began : Walk(began, b, d, c, at)
  BY DEF Walking
<1>0. /\ Len(at) \in Nat \ {0} /\ Len(at) <= d /\ d - Len(at) \in Nat /\ d - Len(at) + 1 = d + 1 - Len(at)
      /\ began[1] = 0 /\ c = began[Len(at)] + Worth(at[Len(at)], b, d - Len(at))
      /\ \A k \in 1..Len(at) :
           at[k] \in Nat /\ began[k] \in Nat /\ at[k] <= b
           /\ began[k] + TreeSize(b, d + 1 - k) <= TreeSize(b, d)
  BY <1>1, WalkIs, Zenon
<1>2. PICK n : n = Len(at)
  OBVIOUS
<1>3. PICK x : x = at[n]
  OBVIOUS
<1>4. PICK t : t = TreeSize(b, d - n)
  OBVIOUS
<1>5. PICK u : u = Worth(x, b, d - n)
  OBVIOUS
<1>6. /\ n \in Nat \ {0} /\ n <= d /\ d - n \in Nat /\ x \in Nat /\ x < b /\ t \in Nat /\ u \in Nat
      /\ began[n] \in Nat /\ c = began[n] + u /\ TreeSize(b, d) \in Nat
  <2>1. /\ n \in Nat \ {0} /\ n <= d /\ d - n \in Nat /\ x \in Nat
        /\ began[n] \in Nat /\ c = began[n] + u
    BY <1>0, <1>2, <1>3, <1>5
  <2>2. t \in Nat /\ u \in Nat /\ TreeSize(b, d) \in Nat
    BY <1>4, <1>5, <2>1, WorthIs
  <2> QED BY <1>2, <1>3, <2>1, <2>2
<1>7. Worth(x + 1, b, d - n) = u + 1 + t
  <2>1. Worth(x + 1, b, d - n) = Worth(x, b, d - n) + 1 + TreeSize(b, d - n)
    BY <1>6, WorthNext, Zenon
  <2> QED BY <1>4, <1>5, <2>1, Zenon
<1>8. c + 1 + t <= TreeSize(b, d)
  <2>1. x + 1 \in Nat /\ x + 1 <= b
    BY <1>6
  <2>2. Worth(x + 1, b, d - n) <= Worth(b, b, d - n) /\ Worth(b, b, d - n) = TreeSize(b, d - n + 1)
        /\ Worth(b, b, d - n) \in Nat
    BY <1>6, <2>1, WorthIs
  <2>3. began[n] + TreeSize(b, d + 1 - n) <= TreeSize(b, d) /\ d - n + 1 = d + 1 - n
    BY <1>0, <1>2
  <2> DEFINE w == Worth(b, b, d - n)  s == began[n]  all == TreeSize(b, d)
  <2>4. u + 1 + t <= w /\ s + w <= all /\ c = s + u
        /\ w \in Nat /\ s \in Nat /\ all \in Nat /\ u \in Nat /\ t \in Nat
    BY <1>6, <1>7, <2>2, <2>3
  <2> HIDE DEF w, s, all
  <2>5. c + 1 + t <= all
    BY <2>4
  <2> QED BY <2>5 DEF all
<1>9. c + 1 <= TreeSize(b, d)
  <2>1. t \in Nat /\ TreeSize(b, d) \in Nat
    BY <1>6
  <2> QED BY <1>8, <2>1
<1>10. next \in Seq(Nat) /\ next[n] = x + 1 /\ \A k \in 1..(n - 1) : next[k] = at[k]
  BY <1>2, <1>3 DEF Turned
<1>11. /\ \A k \in 1..n : /\ at[k] \in Nat /\ at[k] <= b /\ began[k] \in Nat
                          /\ began[k] + TreeSize(b, d + 1 - k) <= TreeSize(b, d)
       /\ began[1] = 0
  BY <1>0, <1>2
<1>12. \A k \in 1..(n - 1) : at[k] > 0 /\ began[k + 1] = began[k] + Worth(at[k] - 1, b, d - k) + 1
  BY <1>1, <1>2 DEF Walk
<1>13. CASE n < d
  <2>2. Len(next) = n + 1 /\ next[n + 1] = 0
    BY <1>2, <1>13 DEF Turned
  <2>3. PICK more : more = [k \in 1..(n + 1) |-> IF k = n + 1 THEN c + 1 ELSE began[k]]
    OBVIOUS
  <2>4. more[n + 1] = c + 1 /\ \A k \in 1..n : more[k] = began[k]
    BY <1>6, <2>3
  <2>5. ASSUME NEW k \in 1..(n + 1)
        PROVE  next[k] <= b /\ more[k] \in Nat /\ more[k] + TreeSize(b, d + 1 - k) <= TreeSize(b, d)
    <3>1. CASE k = n + 1
      <4>1. d + 1 - k = d - n
        BY <1>6, <3>1
      <4>2. next[k] = 0 /\ more[k] = c + 1 /\ TreeSize(b, d + 1 - k) = t
        BY <1>4, <2>2, <2>4, <3>1, <4>1
      <4>3. 0 <= b
        OBVIOUS
      <4>4. c + 1 \in Nat
        OBVIOUS
      <4>5. (c + 1) + t <= TreeSize(b, d)
        BY <1>8
      <4> QED BY <4>2, <4>3, <4>4, <4>5
    <3>2. CASE k = n
      <4>1. k \in 1..n /\ x + 1 <= b
        BY <1>6, <3>2
      <4>2. next[k] = x + 1 /\ more[k] = began[k]
        BY <1>10, <2>4, <3>2, <4>1, Zenon
      <4> QED BY <1>11, <4>1, <4>2
    <3>3. CASE k \in 1..(n - 1)
      <4>1. k \in 1..n
        BY <1>6, <3>3
      <4>2. next[k] = at[k] /\ more[k] = began[k]
        BY <1>10, <2>4, <3>3, <4>1, Zenon
      <4> QED BY <1>11, <4>1, <4>2
    <3> QED BY <1>6, <3>1, <3>2, <3>3
  <2>6. ASSUME NEW k \in 1..n
        PROVE  next[k] > 0 /\ more[k + 1] = more[k] + Worth(next[k] - 1, b, d - k) + 1
    <3>1. CASE k = n
      <4>1. next[k] = x + 1 /\ next[k] - 1 = x
        BY <1>6, <1>10, <2>2, <3>1
      <4>2. more[k] = began[n] /\ more[k + 1] = c + 1 /\ Worth(next[k] - 1, b, d - k) = u
        BY <1>5, <1>6, <2>4, <3>1, <4>1
      <4> QED BY <1>6, <4>1, <4>2
    <3>2. CASE k \in 1..(n - 1)
      <4>1. k + 1 \in 1..n
        BY <1>6, <3>2
      <4> QED BY <1>10, <1>12, <2>2, <2>4, <3>2, <4>1
    <3> QED BY <1>6, <3>1, <3>2
  <2>7. more[1] = 0 /\ more \in [1..(n + 1) -> Nat] /\ n + 1 <= d /\ n + 1 # 0 /\ (n + 1) - 1 = n
    <3>1. more \in [1..(n + 1) -> Nat]
      BY <2>3, <2>5
    <3>2. n + 1 <= d /\ n + 1 # 0 /\ (n + 1) - 1 = n /\ 1 \in 1..n
      BY <1>6, <1>13
    <3>3. more[1] = 0
      BY <1>11, <2>4, <3>2, Zenon
    <3> QED BY <3>1, <3>2, <3>3, Zenon
  <2>8. c + 1 = more[n + 1] + Worth(next[n + 1], b, d - (n + 1))
    <3>1. d - (n + 1) \in Nat
      BY <1>6, <1>13
    <3>2. Worth(0, b, d - (n + 1)) = 0
      BY <3>1, WorthIs
    <3> QED BY <1>6, <2>2, <2>4, <3>2
  <2>9. Walk(more, b, d, c + 1, next)
    <3>1. PICK l : l = n + 1
      OBVIOUS
    <3>2. l = Len(next) /\ l # 0 /\ l <= d /\ l - 1 = n /\ more \in [1..l -> Nat]
      BY <1>6, <2>2, <2>7, <3>1
    <3>3. /\ \A k \in 1..l : next[k] <= b /\ more[k] + TreeSize(b, d + 1 - k) <= TreeSize(b, d)
          /\ \A k \in 1..(l - 1) : next[k] > 0 /\ more[k + 1] = more[k] + Worth(next[k] - 1, b, d - k) + 1
          /\ more[1] = 0 /\ c + 1 = more[l] + Worth(next[l], b, d - l)
      BY <2>5, <2>6, <2>7, <2>8, <3>1, <3>2
    <3> QED BY <1>10, <3>2, <3>3, WalkFrom
  <2> QED BY <1>9, <2>9 DEF Walking
<1>14. CASE ~(n < d)
  <2>1. n = d /\ t = 0
    <3>1. n = d /\ d - n = 0
      BY <1>6, <1>14
    <3> QED BY <1>4, <3>1, WorthIs
  <2>2. Len(next) = n
    BY <1>2, <1>14 DEF Turned
  <2>3. ASSUME NEW k \in 1..n
        PROVE  next[k] <= b /\ began[k] + TreeSize(b, d + 1 - k) <= TreeSize(b, d)
    <3>1. CASE k = n
      BY <1>6, <1>10, <1>11, <2>2, <3>1
    <3>2. CASE k \in 1..(n - 1)
      BY <1>10, <1>11, <2>2, <3>2
    <3> QED BY <1>6, <3>1, <3>2
  <2>4. \A k \in 1..(n - 1) : next[k] > 0 /\ began[k + 1] = began[k] + Worth(next[k] - 1, b, d - k) + 1
    BY <1>10, <1>12, <2>2
  <2>5. c + 1 = began[n] + Worth(next[n], b, d - n)
    <3>1. Worth(next[n], b, d - n) = u + 1 + t
      BY <1>7, <1>10, Zenon
    <3>2. c + 1 = began[n] + (u + 1 + t)
      BY <1>6, <2>1
    <3> QED BY <3>1, <3>2, Zenon
  <2>6. Len(next) = n /\ n # 0 /\ began \in [1..n -> Nat]
    BY <1>1, <1>2, <1>6, <2>2 DEF Walk
  <2>7. Walk(began, b, d, c + 1, next)
    BY <1>6, <1>10, <1>11, <2>3, <2>4, <2>5, <2>6 DEF Walk
  <2> QED BY <1>9, <2>7 DEF Walking
<1> QED BY <1>13, <1>14

\* A level that has been through all its outcomes.
LEMMA WalkReturns ==
  ASSUME NEW b \in Nat, NEW d \in Nat, NEW c \in Nat, NEW at, Walking(b, d, c, at),
         Len(at) > 0, NEW next, NextTaken(at, b, next)
  PROVE  Walking(b, d, c, next)
<1>1. PICK began : Walk(began, b, d, c, at)
  BY DEF Walking
<1>0. /\ Len(at) \in Nat \ {0} /\ Len(at) <= d /\ d - Len(at) \in Nat /\ d - Len(at) + 1 = d + 1 - Len(at)
      /\ began[1] = 0 /\ c = began[Len(at)] + Worth(at[Len(at)], b, d - Len(at))
      /\ \A k \in 1..Len(at) :
           at[k] \in Nat /\ began[k] \in Nat /\ at[k] <= b
           /\ began[k] + TreeSize(b, d + 1 - k) <= TreeSize(b, d)
  BY <1>1, WalkIs, Zenon
<1>2. PICK n : n = Len(at)
  OBVIOUS
<1>3. PICK m : m = n - 1
  OBVIOUS
<1>4. PICK t : t = TreeSize(b, d + 1 - n)
  OBVIOUS
<1>5. /\ n \in Nat \ {0} /\ n <= d /\ d - n \in Nat /\ d - n + 1 = d + 1 - n /\ m \in Nat /\ m < n
      /\ m + 1 = n /\ began[n] \in Nat
  BY <1>0, <1>2, <1>3
<1>6. t \in Nat /\ c = began[n] + t
  <2>1. Worth(b, b, d - n) = t /\ d + 1 - n \in Nat
    BY <1>4, <1>5, WorthIs
  <2>2. c = began[n] + Worth(at[n], b, d - n)
    BY <1>0, <1>2
  <2>3. at[n] = b /\ TreeSize(b, d + 1 - n) \in Nat
    BY <1>2, <2>1, TreeSizeIs DEF NextTaken
  <2> QED BY <1>4, <2>1, <2>2, <2>3
<1>7. next \in Seq(Nat) /\ Len(next) = m /\ \A k \in 1..m : next[k] = at[k]
  BY <1>2, <1>3 DEF NextTaken
<1>8. /\ \A k \in 1..n : /\ at[k] \in Nat /\ at[k] <= b /\ began[k] \in Nat
                         /\ began[k] + TreeSize(b, d + 1 - k) <= TreeSize(b, d)
      /\ began[1] = 0
  BY <1>0, <1>2
<1>9. \A k \in 1..m : at[k] > 0 /\ began[k + 1] = began[k] + Worth(at[k] - 1, b, d - k) + 1
  BY <1>1, <1>2, <1>3 DEF Walk
<1>10. CASE m = 0
  <2>1. n = 1 /\ began[1] = 0 /\ d + 1 - n = d
    BY <1>3, <1>5, <1>8, <1>10
  <2>2. c = TreeSize(b, d)
    BY <1>4, <1>6, <2>1
  <2> DEFINE none == [k \in 1..0 |-> 0]
  <2>3. 1..0 = {} /\ 1..(0 - 1) = {} /\ Len(next) = 0 /\ none \in [1..0 -> Nat]
    BY <1>7, <1>10
  <2>4. Walk(none, b, d, c, next)
    BY <1>7, <2>2, <2>3 DEF Walk
  <2> QED BY <1>7, <2>4 DEF Walking
<1>11. CASE m # 0
  <2>1. PICK less : less = [k \in 1..m |-> began[k]]
    OBVIOUS
  <2>2. \A k \in 1..m : k \in 1..n /\ less[k] = began[k]
    BY <1>5, <2>1
  <2>3. \A k \in 1..(m - 1) : k \in 1..m /\ k + 1 \in 1..m
    BY <1>5
  <2>4. m \in 1..m /\ 1 \in 1..m /\ d - m = d + 1 - n /\ d - m \in Nat
    BY <1>3, <1>5, <1>11
  <2>5. PICK y : y = at[m] - 1
    OBVIOUS
  <2>6. PICK v : v = Worth(y, b, d - m)
    OBVIOUS
  <2>7. y \in Nat /\ y + 1 = at[m] /\ began[m] \in Nat /\ began[n] = began[m] + v + 1
    <3>1. at[m] \in Nat /\ began[m] \in Nat
      BY <1>8, <2>2, <2>4
    <3>2. at[m] > 0 /\ began[m + 1] = began[m] + Worth(at[m] - 1, b, d - m) + 1
      BY <1>9, <2>4, Zenon
    <3>3. began[n] = began[m] + v + 1
      BY <1>5, <2>5, <2>6, <3>2, Zenon
    <3>4. y \in Nat /\ y + 1 = at[m]
      BY <2>5, <3>1, <3>2
    <3> QED BY <3>1, <3>3, <3>4, Zenon
  <2>8. v \in Nat /\ Worth(at[m], b, d - m) = v + 1 + t
    <3>1. Worth(y + 1, b, d - m) = Worth(y, b, d - m) + 1 + TreeSize(b, d - m) /\ Worth(y, b, d - m) \in Nat
      BY <2>4, <2>7, WorthNext, Zenon
    <3> QED BY <1>4, <2>4, <2>6, <2>7, <3>1
  <2>9. c = began[m] + Worth(at[m], b, d - m)
    BY <1>6, <2>7, <2>8
  <2>10. less \in [1..m -> Nat] /\ m <= d /\ less[1] = 0
    <3>1. less \in [1..m -> Nat]
      BY <1>8, <2>1, <2>2
    <3> QED BY <1>5, <1>8, <2>2, <2>4, <3>1
  <2>11. \A k \in 1..m : next[k] <= b /\ less[k] + TreeSize(b, d + 1 - k) <= TreeSize(b, d)
    BY <1>7, <1>8, <2>2
  <2>12. \A k \in 1..(m - 1) :
           next[k] > 0 /\ less[k + 1] = less[k] + Worth(next[k] - 1, b, d - k) + 1
    BY <1>7, <1>9, <2>2, <2>3
  <2>13. c = less[m] + Worth(next[m], b, d - m)
    BY <1>7, <2>2, <2>4, <2>9
  <2>14. Walk(less, b, d, c, next)
    BY <1>7, <1>11, <2>10, <2>11, <2>12, <2>13 DEF Walk
  <2> QED BY <1>7, <2>14 DEF Walking
<1> QED BY <1>10, <1>11
-----------------------------------------------------------------------------
(* The fleet. *)

LEMMA PlaceOf ==
  ASSUME NEW c \in Nat, NEW p \in Nat \ {0}
  PROVE  \E q \in Nat, r \in Nat :
           q = c \div p /\ r = c % p /\ r < p /\ c = q * p + r /\ q * p \in Nat
<1>1. c \div p \in Nat /\ c % p \in Nat /\ c % p < p /\ c = (c \div p) * p + (c % p)
  OBVIOUS
<1>2. (c \div p) * p \in Nat
  BY <1>1, Products
<1> QED BY <1>1, <1>2

\* Where the cursor is in the agent's nodes.
LEMMA CursorIs ==
  ASSUME NEW c \in Nat, c < Managers * PerManager
  PROVE  \E q \in Indexes : /\ ManagerOf(c) = q /\ q * PerManager <= c /\ c < q * PerManager + PerManager
                            /\ q * PerManager \in Nat
                            /\ c % PerManager \in Nat
<1>1. PICK q \in Nat, r \in Nat : q = c \div PerManager /\ r = c % PerManager /\ r < PerManager
                                  /\ c = q * PerManager + r /\ q * PerManager \in Nat
  BY PlaceOf, FleetAssumption
<1>2. q < Managers
  <2> SUFFICES ASSUME Managers <= q PROVE FALSE
    BY <1>1, FleetAssumption
  <2>1. Managers * PerManager <= q * PerManager
    BY <1>1, Products, FleetAssumption
  <2>2. Managers * PerManager \in Nat
    BY Products, FleetAssumption
  <2> QED BY <1>1, <2>1, <2>2
<1>3. q % Managers = q
  BY <1>1, <1>2, FleetAssumption
<1> QED BY <1>1, <1>2, <1>3, FleetAssumption DEF ManagerOf, Indexes

LEMMA CursorAtEnd == ManagerOf(Managers * PerManager) = 0
<1> DEFINE c == Managers * PerManager
<1>1. c \in Nat
  BY Products, FleetAssumption
<1>2. PICK q \in Nat, r \in Nat : q = c \div PerManager /\ r = c % PerManager /\ r < PerManager
                                  /\ c = q * PerManager + r /\ q * PerManager \in Nat
  BY <1>1, PlaceOf, FleetAssumption
<1>3. q = Managers
  <2>1. CASE q < Managers
    <3>1. (q + 1) * PerManager <= Managers * PerManager /\ (q + 1) * PerManager = q * PerManager + PerManager
      BY <1>2, <2>1, Products, FleetAssumption
    <3> QED BY <1>1, <1>2, <3>1, FleetAssumption
  <2>2. CASE q > Managers
    <3>1. (Managers + 1) * PerManager <= q * PerManager
          /\ (Managers + 1) * PerManager = Managers * PerManager + PerManager
      BY <1>2, <2>2, Products, FleetAssumption
    <3> QED BY <1>1, <1>2, <3>1, FleetAssumption
  <2> QED BY <1>2, <2>1, <2>2, FleetAssumption
<1>4. Managers % Managers = 0
  BY FleetAssumption
<1> QED BY <1>2, <1>3, <1>4 DEF ManagerOf

LEMMA UsedIs ==
  ASSUME NEW c \in Nat, NEW m \in Indexes
  PROVE  (m < ManagersUsed(c)) <=> (m * PerManager < c)
<1>1. m \in Nat /\ m * PerManager \in Nat
  BY Products, FleetAssumption DEF Indexes
<1>2. CASE c = 0
  BY <1>1, <1>2 DEF ManagersUsed
<1>3. CASE c # 0
  <2>1. c - 1 \in Nat
    BY <1>3
  <2>2. PICK q \in Nat, r \in Nat : q = (c - 1) \div PerManager /\ r < PerManager
                                    /\ c - 1 = q * PerManager + r /\ q * PerManager \in Nat
    BY <2>1, PlaceOf, FleetAssumption
  <2>3. ManagersUsed(c) = q + 1
    BY <1>3, <2>2 DEF ManagersUsed
  <2>4. CASE m <= q
    <3>1. m * PerManager <= q * PerManager
      BY <1>1, <2>2, <2>4, Products, FleetAssumption
    <3> QED BY <1>1, <2>2, <2>3, <2>4, <3>1
  <2>5. CASE q + 1 <= m
    <3>1. (q + 1) * PerManager <= m * PerManager /\ (q + 1) * PerManager = q * PerManager + PerManager
      BY <1>1, <2>2, <2>5, Products, FleetAssumption
    <3> QED BY <1>1, <2>2, <2>3, <2>5, <3>1, FleetAssumption
  <2> QED BY <1>1, <2>2, <2>4, <2>5
<1> QED BY <1>2, <1>3

\* The nodes up to the cursor are materialized, manager by manager.
Occupied(nodes, statuses, c) ==
  /\ c <= Managers * PerManager
  /\ \A m \in Indexes :
       /\ c <= m * PerManager =>
            nodes[m] = <<>> /\ statuses[m] = IF m = 0 THEN "ACTIVE" ELSE "none"
       /\ m * PerManager < c =>
            /\ statuses[m] = "ACTIVE"
            /\ Len(nodes[m]) = IF m * PerManager + PerManager <= c THEN PerManager
                                ELSE c - m * PerManager

Dreams == [step : {"expand", "done", "threw"}, breadth : Nat, depth : Nat, cursor : Nat, at : Seq(Nat)]
Dreaming ==
  /\ dream \in Dreams \cup {Awake}
  /\ dream # Awake => user = "DREAM"
  /\ dream # Awake /\ dream.step = "expand" =>
       Occupied(active, manager, dream.cursor) /\ Walking(dream.breadth, dream.depth, dream.cursor, dream.at)

FleetInv ==
  /\ ephemeral \in BOOLEAN /\ (user = "DREAM" => ephemeral)
  /\ manager \in [Indexes -> {"ACTIVE", "IDLE", "TERMINATED", "none"}]
  /\ active \in [Indexes -> Seq(Nat)]
  /\ live \in [Nodes -> {"none", "ACTIVE", "IDLE"}]
  /\ mirror \in [Nodes -> {"ACTIVE", "IDLE", "TERMINATED", "none"}]
  /\ \A m \in Indexes : manager[m] = "IDLE" => ~ephemeral /\ active[m] = <<>>
  /\ user = "DREAM" => live = Unmirrored
  /\ MirrorIsTrue /\ DreamEndsClean /\ Dreaming

\* A return of expand.
LEMMA FrontPops ==
  ASSUME NEW s \in Seq(Nat), Len(s) > 0
  PROVE  NextTaken(s, Last(s), Front(s)) /\ Front(s) \in Seq(Nat)
<1>1. PICK n \in Nat : n = Len(s) - 1 /\ n + 1 = Len(s)
  <2>1. Len(s) \in Nat /\ Len(s) - 1 \in Nat /\ (Len(s) - 1) + 1 = Len(s)
    OBVIOUS
  <2> QED BY <2>1
<1>2. \A k \in 1..n : s[k] \in Nat
  BY <1>1
<1>3. SubSeq(s, 1, n) \in Seq(Nat) /\ Len(SubSeq(s, 1, n)) = n /\ \A k \in 1..n : SubSeq(s, 1, n)[k] = s[k]
  BY <1>2, SubSeqProperties
<1> QED BY <1>1, <1>3 DEF NextTaken, Front, Last

LEMMA AwakeIs == Awake.step = "awake" /\ Awake \notin Dreams
BY DEF Awake, Dreams

LEMMA FleetStarts == FleetInit => FleetInv
<1> SUFFICES ASSUME FleetInit PROVE FleetInv
  OBVIOUS
<1>1. /\ ephemeral \in BOOLEAN /\ (user = "DREAM" => ephemeral)
      /\ manager = [m \in Indexes |-> "none"] /\ active = [m \in Indexes |-> <<>>]
      /\ live = Unmirrored /\ mirror = Unmirrored /\ dream = Awake
  BY DEF FleetInit
<1>2. /\ manager \in [Indexes -> {"ACTIVE", "IDLE", "TERMINATED", "none"}]
      /\ active \in [Indexes -> Seq(Nat)]
      /\ live \in [Nodes -> {"none", "ACTIVE", "IDLE"}]
      /\ mirror \in [Nodes -> {"ACTIVE", "IDLE", "TERMINATED", "none"}]
      /\ \A m \in Indexes : manager[m] # "IDLE"
  BY <1>1 DEF Unmirrored
<1>3. MirrorIsTrue
  BY <1>1 DEF MirrorIsTrue
<1>4. DreamEndsClean /\ Dreaming
  BY <1>1, AwakeIs DEF DreamEndsClean, Dreaming
<1> QED BY <1>1, <1>2, <1>3, <1>4 DEF FleetInv

\* What a caller of the managers leaves alone.
LEMMA ManagersStep ==
  ASSUME FleetInv, user = "managers", UNCHANGED <<user, ephemeral, live, mirror, dream>>,
         manager' \in [Indexes -> {"ACTIVE", "IDLE", "TERMINATED", "none"}],
         active' \in [Indexes -> Seq(Nat)],
         \A m \in Indexes : manager'[m] = "IDLE" => ~ephemeral /\ active'[m] = <<>>
  PROVE  FleetInv'
<1>1. dream = Awake
  BY DEF FleetInv, Dreaming
<1>2. MirrorIsTrue' /\ DreamEndsClean' /\ Dreaming'
  BY <1>1, AwakeIs DEF MirrorIsTrue, DreamEndsClean, Dreaming
<1>3. (user = "DREAM" => live = Unmirrored)'
  BY DEF FleetInv
<1> QED BY <1>2, <1>3 DEF FleetInv, Unmirrored

LEMMA ActivateStep == ASSUME FleetInv, NEW count \in Nat, Activate(count) PROVE FleetInv'
<1>1. manager' \in [Indexes -> {"ACTIVE", "IDLE", "TERMINATED", "none"}]
  BY DEF Activate, Activated, FleetInv
<1>2. active' \in [Indexes -> Seq(Nat)]
  <2>1. ASSUME NEW m \in Indexes PROVE Emptied(count)[m] \in Seq(Nat)
    BY DEF Emptied, FleetInv
  <2> QED BY <2>1 DEF Activate, Emptied
<1>3. \A m \in Indexes : manager'[m] = "IDLE" => ~ephemeral /\ active'[m] = <<>>
  BY DEF Activate, Activated, Emptied, Renewed, FleetInv
<1> QED BY <1>1, <1>2, <1>3, ManagersStep DEF Activate

LEMMA MaterializeNodeStep ==
  ASSUME FleetInv, NEW m \in Indexes, NEW n \in Nat, MaterializeNode(m, n)
  PROVE  FleetInv'
<1>1. active' = [active EXCEPT ![m] = Append(@, n)] /\ manager' = manager /\ manager[m] = "ACTIVE"
  BY DEF MaterializeNode, Refused
<1>2. Append(active[m], n) \in Seq(Nat)
  BY DEF FleetInv
<1>3. active' \in [Indexes -> Seq(Nat)] /\ \A k \in Indexes : k # m => active'[k] = active[k]
  BY <1>1, <1>2 DEF FleetInv
<1>4. \A k \in Indexes : manager'[k] = "IDLE" => ~ephemeral /\ active'[k] = <<>>
  BY <1>1, <1>3 DEF FleetInv
<1> QED BY <1>1, <1>3, <1>4, ManagersStep DEF MaterializeNode, FleetInv

LEMMA ReleaseManagerStep ==
  ASSUME FleetInv, NEW m \in Indexes, ReleaseManager(m)
  PROVE  FleetInv'
<1>1. manager' \in [Indexes -> {"ACTIVE", "IDLE", "TERMINATED", "none"}]
  BY DEF ReleaseManager, Rested, Resting, FleetInv
<1>2. active' \in [Indexes -> Seq(Nat)]
  <2>1. ASSUME NEW k \in Indexes PROVE Vacated({m})[k] \in Seq(Nat)
    BY DEF Vacated, FleetInv
  <2> QED BY <2>1 DEF ReleaseManager, Vacated
<1>3. \A k \in Indexes : manager'[k] = "IDLE" => ~ephemeral /\ active'[k] = <<>>
  BY DEF ReleaseManager, Rested, Resting, Vacated, FleetInv
<1> QED BY <1>1, <1>2, <1>3, ManagersStep DEF ReleaseManager

\* What a caller of the fleet leaves alone.
LEMMA LiveStep ==
  ASSUME FleetInv, user = "fleet", UNCHANGED <<user, ephemeral, manager, active, dream>>,
         live' \in [Nodes -> {"none", "ACTIVE", "IDLE"}],
         mirror' \in [Nodes -> {"ACTIVE", "IDLE", "TERMINATED", "none"}],
         \A n \in Nodes : mirror'[n] = live'[n] \/ (live'[n] = "none" /\ mirror'[n] = "TERMINATED")
  PROVE  FleetInv'
<1>1. dream = Awake
  BY DEF FleetInv, Dreaming
<1>2. MirrorIsTrue' /\ DreamEndsClean' /\ Dreaming'
  BY <1>1, AwakeIs DEF MirrorIsTrue, DreamEndsClean, Dreaming
<1> QED BY <1>2 DEF FleetInv, Unmirrored

LEMMA MaterializeStep == ASSUME FleetInv, NEW n \in Nodes, Materialize(n) PROVE FleetInv'
<1>1. \A k \in Nodes : mirror[k] = live[k] \/ (live[k] = "none" /\ mirror[k] = "TERMINATED")
  BY DEF Materialize, FleetInv, MirrorIsTrue
<1>2. live' \in [Nodes -> {"none", "ACTIVE", "IDLE"}]
      /\ mirror' \in [Nodes -> {"ACTIVE", "IDLE", "TERMINATED", "none"}]
  BY DEF Materialize, FleetInv
<1>3. \A k \in Nodes : mirror'[k] = live'[k] \/ (live'[k] = "none" /\ mirror'[k] = "TERMINATED")
  BY <1>1 DEF Materialize, FleetInv
<1> QED BY <1>2, <1>3, LiveStep DEF Materialize

LEMMA ReleaseStep == ASSUME FleetInv, NEW released \in SUBSET Nodes, Release(released) PROVE FleetInv'
<1>1. \A k \in Nodes : mirror[k] = live[k] \/ (live[k] = "none" /\ mirror[k] = "TERMINATED")
  BY DEF Release, FleetInv, MirrorIsTrue
<1>2. live' \in [Nodes -> {"none", "ACTIVE", "IDLE"}]
      /\ mirror' \in [Nodes -> {"ACTIVE", "IDLE", "TERMINATED", "none"}]
  BY DEF Release, Released, Mirrored, Resting, FleetInv
<1>3. \A k \in Nodes : mirror'[k] = live'[k] \/ (live'[k] = "none" /\ mirror'[k] = "TERMINATED")
  BY <1>1 DEF Release, Released, Mirrored, Resting, FleetInv
<1> QED BY <1>2, <1>3, LiveStep DEF Release

\* What a simulation leaves alone.
LEMMA DreamStep ==
  ASSUME FleetInv, user = "DREAM", UNCHANGED <<user, ephemeral, mirror>>, live' = Unmirrored,
         manager' \in [Indexes -> {"ACTIVE", "TERMINATED", "none"}],
         active' \in [Indexes -> Seq(Nat)], DreamEndsClean', Dreaming'
  PROVE  FleetInv'
<1>1. MirrorIsTrue'
  BY DEF MirrorIsTrue
<1>2. live' \in [Nodes -> {"none", "ACTIVE", "IDLE"}]
  BY DEF Unmirrored
<1>3. \A m \in Indexes : manager'[m] # "IDLE"
  OBVIOUS
<1>4. manager' \in [Indexes -> {"ACTIVE", "IDLE", "TERMINATED", "none"}]
  OBVIOUS
<1> QED BY <1>1, <1>2, <1>3, <1>4 DEF FleetInv, Unmirrored

LEMMA DreamHas ==
  ASSUME FleetInv, user = "DREAM"
  PROVE  live = Unmirrored /\ manager \in [Indexes -> {"ACTIVE", "TERMINATED", "none"}]
<1>1. \A m \in Indexes : manager[m] \in {"ACTIVE", "TERMINATED", "none"}
  BY DEF FleetInv
<1> QED BY <1>1 DEF FleetInv

LEMMA BeginStep ==
  ASSUME FleetInv, NEW breadth \in Nat, NEW depth \in Nat, Begin(breadth, depth)
  PROVE  FleetInv'
<1> DEFINE at == IF depth = 0 THEN <<>> ELSE <<0>>
<1>1. /\ user = "DREAM" /\ UNCHANGED <<user, ephemeral, mirror>> /\ live' = Unmirrored
      /\ manager' = [m \in Indexes |-> IF m = 0 THEN "ACTIVE" ELSE "none"]
      /\ active' = [m \in Indexes |-> <<>>]
      /\ dream' = [step |-> "expand", breadth |-> breadth, depth |-> depth, cursor |-> 0, at |-> at]
  BY DEF Begin
<1>2. manager' \in [Indexes -> {"ACTIVE", "TERMINATED", "none"}] /\ active' \in [Indexes -> Seq(Nat)]
  BY <1>1
<1>3. at \in Seq(Nat)
  OBVIOUS
<1>4. dream' \in Dreams /\ dream'.step = "expand" /\ dream'.breadth = breadth /\ dream'.depth = depth
      /\ dream'.cursor = 0 /\ dream'.at = at
  <2> HIDE DEF at
  <2> QED BY <1>1, <1>3 DEF Dreams
<1>5. DreamEndsClean'
  BY <1>4 DEF DreamEndsClean
<1>6. Occupied(active', manager', 0)
  <2>1. \A m \in Indexes : 0 <= m * PerManager /\ ~(m * PerManager < 0)
    BY Products, FleetAssumption DEF Indexes
  <2>2. 0 <= Managers * PerManager
    BY Products, FleetAssumption
  <2> QED BY <1>1, <2>1, <2>2 DEF Occupied
<1>7. Walking(breadth, depth, 0, at)
  BY WalkBegins
<1>8. Dreaming'
  <2> HIDE DEF at
  <2>1. Occupied(active', manager', dream'.cursor)
    BY <1>4, <1>6 DEF Occupied
  <2> QED BY <1>1, <1>4, <1>7, <2>1, AwakeIs DEF Dreaming
<1> QED BY <1>1, <1>2, <1>5, <1>8, DreamStep

LEMMA ReturnStep == ASSUME FleetInv, Return PROVE FleetInv'
<1> DEFINE at == dream.at
<1>1. /\ user = "DREAM" /\ dream.step = "expand" /\ at # <<>> /\ Last(at) = dream.breadth
      /\ dream' = [dream EXCEPT !.at = Front(@)]
      /\ UNCHANGED <<user, ephemeral, manager, active, live, mirror>>
  BY DEF Return
<1>2. /\ dream \in Dreams /\ dream # Awake
      /\ Occupied(active, manager, dream.cursor) /\ Walking(dream.breadth, dream.depth, dream.cursor, at)
  BY <1>1, AwakeIs DEF FleetInv, Dreaming
<1>3. at \in Seq(Nat) /\ Len(at) > 0
  <2>1. at \in Seq(Nat)
    BY <1>2 DEF Dreams
  <2> QED BY <1>1, <2>1, EmptySeq
<1>4. NextTaken(at, dream.breadth, Front(at)) /\ Front(at) \in Seq(Nat)
  <2> HIDE DEF at
  <2> QED BY <1>1, <1>3, FrontPops
<1>5. dream' \in Dreams /\ dream'.step = "expand" /\ dream'.breadth = dream.breadth
      /\ dream'.depth = dream.depth /\ dream'.cursor = dream.cursor /\ dream'.at = Front(at)
  <2> DEFINE f == Front(at)
  <2>1. dream' = [dream EXCEPT !.at = f] /\ f \in Seq(Nat)
    BY <1>1, <1>4
  <2> HIDE DEF f
  <2>2. dream' \in Dreams /\ dream'.step = "expand" /\ dream'.breadth = dream.breadth
      /\ dream'.depth = dream.depth /\ dream'.cursor = dream.cursor /\ dream'.at = f
    BY <1>1, <1>2, <2>1 DEF Dreams
  <2> QED BY <2>2 DEF f
<1>6. Walking(dream.breadth, dream.depth, dream.cursor, Front(at))
  <2>1. dream.breadth \in Nat /\ dream.depth \in Nat /\ dream.cursor \in Nat
    BY <1>2 DEF Dreams
  <2> HIDE DEF at
  <2> QED BY <1>2, <1>3, <1>4, <2>1, WalkReturns
<1>7. Dreaming'
  <2>1. Occupied(active', manager', dream'.cursor)
    BY <1>1, <1>2, <1>5 DEF Occupied
  <2> QED BY <1>1, <1>5, <1>6, <2>1, AwakeIs DEF Dreaming
<1>8. DreamEndsClean'
  BY <1>5 DEF DreamEndsClean
<1> QED BY <1>1, <1>7, <1>8, DreamHas, DreamStep DEF FleetInv

LEMMA TearDownStep == ASSUME FleetInv, TearDown PROVE FleetInv'
<1> DEFINE c == dream.cursor  used == {m \in Indexes : m < ManagersUsed(c)}
<1>1. /\ user = "DREAM" /\ dream.step = "expand" /\ dream.at = <<>>
      /\ live' = Released(Nodes) /\ manager' = Rested(used) /\ active' = Vacated(used)
      /\ dream' = [dream EXCEPT !.step = "done"]
      /\ UNCHANGED <<user, ephemeral, mirror>>
  BY DEF TearDown
<1>2. /\ dream \in Dreams /\ dream # Awake /\ c \in Nat
      /\ Occupied(active, manager, c) /\ Walking(dream.breadth, dream.depth, c, dream.at)
  BY <1>1, AwakeIs DEF FleetInv, Dreaming, Dreams
<1>3. c = TreeSize(dream.breadth, dream.depth)
  BY <1>1, <1>2 DEF Walking, Walk
<1>4. dream' \in Dreams /\ dream'.step = "done" /\ dream'.breadth = dream.breadth
      /\ dream'.depth = dream.depth /\ dream'.cursor = c
  BY <1>1, <1>2 DEF Dreams
<1>5. live' = Unmirrored
  BY <1>1, DreamHas DEF Released, Unmirrored
<1>6. Resting = "TERMINATED" /\ \A m \in Indexes : manager[m] \in {"ACTIVE", "TERMINATED", "none"}
  BY <1>1, DreamHas DEF Resting, FleetInv
<1>7. manager' \in [Indexes -> {"ACTIVE", "TERMINATED", "none"}]
  BY <1>1, <1>6 DEF Rested
<1>8. active' \in [Indexes -> Seq(Nat)]
  <2>1. ASSUME NEW m \in Indexes PROVE Vacated(used)[m] \in Seq(Nat)
    <3> HIDE DEF used
    <3> QED BY DEF Vacated, FleetInv
  <2> QED BY <1>1, <2>1 DEF Vacated
<1>9. ASSUME NEW m \in Indexes, manager'[m] = "ACTIVE"
      PROVE  m = 0 /\ c = 0
  <2>1. m \notin used /\ manager[m] = "ACTIVE"
    BY <1>1, <1>6, <1>9 DEF Rested
  <2>2. m \in Nat /\ m * PerManager \in Nat /\ ~(m * PerManager < c)
    BY <1>2, <2>1, UsedIs, Products, FleetAssumption DEF Indexes
  <2>3. c <= m * PerManager
    BY <1>2, <2>2
  <2>4. m = 0
    BY <1>2, <2>1, <2>3 DEF Occupied
  <2>5. 0 * PerManager = 0
    BY FleetAssumption
  <2> QED BY <1>2, <2>3, <2>4, <2>5
<1>10. DreamEndsClean'
  BY <1>3, <1>4, <1>5, <1>9 DEF DreamEndsClean, Unmirrored
<1>11. Dreaming'
  BY <1>1, <1>4 DEF Dreaming
<1> QED BY <1>1, <1>5, <1>7, <1>8, <1>10, <1>11, DreamStep

\* A turn of expand's loop.
LEMMA LoopTurns ==
  ASSUME NEW s \in Seq(Nat), Len(s) > 0, NEW d \in Nat
  PROVE  Turned(s, d, Onward(s, d)) /\ Onward(s, d) \in Seq(Nat)
<1>0. PICK a, next : a = [s EXCEPT ![Len(s)] = @ + 1] /\ next = a \o (IF Len(s) < d THEN <<0>> ELSE <<>>)
                     /\ next = Onward(s, d)
  BY DEF Onward
<1>1. PICK n \in Nat : n = Len(s)
  OBVIOUS
<1>2. a \in Seq(Nat) /\ Len(a) = n /\ a[n] = s[n] + 1 /\ \A k \in 1..(n - 1) : a[k] = s[k]
  BY <1>0, <1>1
<1>3. CASE n < d
  <2>1. next = Append(a, 0)
    <3>1. next = a \o <<0>>
      BY <1>0, <1>1, <1>3
    <3> QED BY <1>2, <3>1, AppendIsConcat
  <2>2. next \in Seq(Nat) /\ Len(next) = n + 1 /\ next[n + 1] = 0 /\ \A k \in 1..n : next[k] = a[k]
    BY <1>2, <2>1
  <2>3. \A k \in 1..(n - 1) : next[k] = s[k]
    BY <1>1, <1>2, <2>2
  <2>4. next[n] = s[n] + 1
    BY <1>1, <1>2, <2>2
  <2>5. Turned(s, d, next)
    BY <1>1, <1>3, <2>2, <2>3, <2>4 DEF Turned
  <2> QED BY <1>0, <2>2, <2>5
<1>4. CASE ~(n < d)
  <2>1. next = a
    BY <1>0, <1>1, <1>2, <1>4, ConcatEmptySeq
  <2> QED BY <1>0, <1>1, <1>2, <1>4, <2>1 DEF Turned
<1> QED BY <1>3, <1>4

\* Nodes of an occupied fleet: the next one is there unless it is full.
LEMMA NextNode ==
  ASSUME FleetInv, NEW c \in Nat, Occupied(active, manager, c), c < Managers * PerManager,
         NEW m \in Indexes, ManagerOf(c) = m, m * PerManager <= c, c < m * PerManager + PerManager,
         NEW node \in Nat
  PROVE  /\ ~Refused(Activated(m + 1), Emptied(m + 1), m)
         /\ Occupied([Emptied(m + 1) EXCEPT ![m] = Append(@, node)], Activated(m + 1), c + 1)
         /\ [Emptied(m + 1) EXCEPT ![m] = Append(@, node)] \in [Indexes -> Seq(Nat)]
<1> DEFINE held == [Emptied(m + 1) EXCEPT ![m] = Append(@, node)]
           status == Activated(m + 1)
<1>1. m \in Nat /\ m < Managers /\ Managers \in Nat /\ PerManager \in Nat \ {0} /\ m * PerManager \in Nat
      /\ Managers * PerManager \in Nat /\ m + 1 \in Nat
  BY Products, FleetAssumption DEF Indexes
<1>2. \A k \in Indexes : k \in Nat /\ k * PerManager \in Nat
  BY Products, FleetAssumption DEF Indexes
<1>3. \A k \in Indexes : k < m => k * PerManager + PerManager <= m * PerManager
  <2> SUFFICES ASSUME NEW k \in Indexes, k < m PROVE k * PerManager + PerManager <= m * PerManager
    OBVIOUS
  <2>1. k + 1 \in Nat /\ k + 1 <= m
    BY <1>1, <1>2
  <2>2. (k + 1) * PerManager <= m * PerManager /\ (k + 1) * PerManager = k * PerManager + PerManager
    BY <1>1, <1>2, <2>1, Products
  <2> QED BY <2>2
<1>4. \A k \in Indexes : m < k => m * PerManager + PerManager <= k * PerManager
  <2> SUFFICES ASSUME NEW k \in Indexes, m < k PROVE m * PerManager + PerManager <= k * PerManager
    OBVIOUS
  <2>1. m + 1 <= k
    BY <1>1, <1>2
  <2>2. (m + 1) * PerManager <= k * PerManager /\ (m + 1) * PerManager = m * PerManager + PerManager
    BY <1>1, <1>2, <2>1, Products
  <2> QED BY <2>2
<1>5. \A k \in Indexes : c <= k * PerManager \/ k * PerManager < c
  BY <1>2
<1>6. Emptied(m + 1) = active
  <2>1. ASSUME NEW k \in Indexes PROVE Emptied(m + 1)[k] = active[k]
    <3>1. CASE Renewed(k, m + 1)
      <4>1. manager[k] # "ACTIVE"
        BY <3>1 DEF Renewed
      <4>2. active[k] = <<>>
        BY <1>5, <4>1 DEF Occupied
      <4> QED BY <3>1, <4>2 DEF Emptied
    <3> QED BY <3>1 DEF Emptied
  <2>2. Emptied(m + 1) = [k \in Indexes |-> Emptied(m + 1)[k]] /\ active = [k \in Indexes |-> active[k]]
    BY DEF Emptied, FleetInv
  <2> QED BY <2>1, <2>2
<1>7. Len(active[m]) = c - m * PerManager /\ active[m] \in Seq(Nat)
  <2>1. CASE c <= m * PerManager
    <3>1. active[m] = <<>> /\ c = m * PerManager
      BY <1>1, <2>1 DEF Occupied
    <3> QED BY <1>1, <3>1
  <2>2. CASE m * PerManager < c
    <3>1. ~(m * PerManager + PerManager <= c)
      BY <1>1
    <3> QED BY <2>2, <3>1 DEF Occupied, FleetInv
  <2> QED BY <1>5, <2>1, <2>2
<1>8. \A k \in Indexes : k <= m => status[k] = "ACTIVE"
  <2> SUFFICES ASSUME NEW k \in Indexes, k <= m PROVE status[k] = "ACTIVE"
    OBVIOUS
  <2>1. k < m + 1
    BY <1>1, <1>2
  <2>2. manager[k] \in {"none", "ACTIVE"}
    BY <1>5 DEF Occupied
  <2> QED BY <2>1, <2>2 DEF Activated, Renewed
<1>9. \A k \in Indexes : m < k => status[k] = manager[k]
  <2> SUFFICES ASSUME NEW k \in Indexes, m < k PROVE status[k] = manager[k]
    OBVIOUS
  <2>1. ~(k < m + 1)
    BY <1>1, <1>2
  <2> QED BY <2>1 DEF Activated, Renewed
<1>10. ~Refused(status, Emptied(m + 1), m)
  <2> HIDE DEF status
  <2>1. c - m * PerManager < PerManager
    BY <1>1
  <2>2. Len(active[m]) < PerManager
    BY <1>7, <2>1
  <2>3. status[m] = "ACTIVE"
    BY <1>1, <1>8
  <2>4. ~(Len(active[m]) >= PerManager)
    <3>1. Len(active[m]) \in Nat /\ PerManager \in Nat
      BY <1>1, <1>7
    <3> QED BY <2>2, <3>1
  <2> QED BY <1>6, <2>3, <2>4 DEF Refused
<1>11. /\ held = [active EXCEPT ![m] = Append(active[m], node)]
       /\ Append(active[m], node) \in Seq(Nat) /\ Len(Append(active[m], node)) = c - m * PerManager + 1
  <2>1. held = [active EXCEPT ![m] = Append(active[m], node)]
    BY <1>6
  <2> HIDE DEF held
  <2>2. PICK l : l = c - m * PerManager
    OBVIOUS
  <2>3. Len(active[m]) = l /\ active[m] \in Seq(Nat)
    BY <1>7, <2>2
  <2>4. PICK nodes : nodes = active[m]
    OBVIOUS
  <2>5. nodes \in Seq(Nat) /\ Len(nodes) = l
    BY <2>3, <2>4
  <2>6. Append(nodes, node) \in Seq(Nat) /\ Len(Append(nodes, node)) = Len(nodes) + 1
    BY <2>5, AppendProperties
  <2> QED BY <2>1, <2>2, <2>4, <2>5, <2>6
<1>12. held \in [Indexes -> Seq(Nat)] /\ held[m] = Append(active[m], node)
       /\ \A k \in Indexes : k # m => held[k] = active[k]
  BY <1>11 DEF FleetInv
<1> HIDE DEF held, status
<1>13. c + 1 <= Managers * PerManager
  <2> DEFINE all == Managers * PerManager
  <2>1. all \in Nat /\ c < all
    BY <1>1
  <2> HIDE DEF all
  <2>2. c + 1 <= all
    BY <2>1
  <2> QED BY <2>2 DEF all
<1>14. ASSUME NEW k \in Indexes
       PROVE  /\ c + 1 <= k * PerManager =>
                   held[k] = <<>> /\ status[k] = IF k = 0 THEN "ACTIVE" ELSE "none"
              /\ k * PerManager < c + 1 =>
                   /\ status[k] = "ACTIVE"
                   /\ Len(held[k]) = IF k * PerManager + PerManager <= c + 1 THEN PerManager
                                     ELSE (c + 1) - k * PerManager
  <2>1. CASE k < m
    <3>1. k * PerManager + PerManager <= c /\ k * PerManager < c /\ ~(c + 1 <= k * PerManager)
          /\ k * PerManager + PerManager <= c + 1
      BY <1>1, <1>2, <1>3, <2>1
    <3>2. held[k] = active[k]
      BY <1>1, <1>2, <1>12, <2>1
    <3>3. Len(active[k]) = PerManager
      BY <3>1 DEF Occupied
    <3>4. status[k] = "ACTIVE"
      BY <1>1, <1>2, <1>8, <2>1
    <3> QED BY <3>1, <3>2, <3>3, <3>4
  <2>2. CASE k = m
    <3>1. ~(c + 1 <= k * PerManager) /\ status[k] = "ACTIVE"
      BY <1>1, <1>8, <2>2
    <3>2. Len(held[k]) = (c - m * PerManager) + 1
      BY <1>11, <1>12, <2>2
    <3>3. Len(held[k]) = IF m * PerManager + PerManager <= c + 1 THEN PerManager
                         ELSE (c + 1) - m * PerManager
      BY <1>1, <3>2
    <3> QED BY <2>2, <3>1, <3>3
  <2>3. CASE m < k
    <3>1. c + 1 <= k * PerManager /\ c <= k * PerManager /\ ~(k * PerManager < c + 1) /\ k # m /\ k # 0
      BY <1>1, <1>2, <1>4, <2>3
    <3>2. held[k] = active[k] /\ status[k] = manager[k]
      BY <1>9, <1>12, <2>3, <3>1
    <3> QED BY <3>1, <3>2 DEF Occupied
  <2> QED BY <1>1, <1>2, <2>1, <2>2, <2>3
<1>15. Occupied(held, status, c + 1)
  BY <1>13, <1>14 DEF Occupied
<1> QED BY <1>10, <1>12, <1>15 DEF held, status

\* The last turn there is no node for: the agent's nodes are all in use.
LEMMA NoNodeLeft ==
  ASSUME FleetInv, Occupied(active, manager, Managers * PerManager)
  PROVE  Refused(Activated(1), Emptied(1), 0)
<1>1. PICK all \in Nat : all = Managers * PerManager
  BY Products, FleetAssumption
<1>2. 0 \in Indexes /\ 0 * PerManager = 0 /\ PerManager \in Nat /\ PerManager > 0 /\ 0 + PerManager <= all
  <2>1. 1 <= Managers /\ 1 * PerManager = PerManager
    BY FleetAssumption
  <2>2. 1 * PerManager <= Managers * PerManager
    BY <2>1, Products, FleetAssumption
  <2>3. 0 \in Indexes
    BY FleetAssumption DEF Indexes
  <2> QED BY <1>1, <2>1, <2>2, <2>3, FleetAssumption
<1>3. manager[0] = "ACTIVE" /\ Len(active[0]) = PerManager
  <2>1. 0 * PerManager < all /\ 0 * PerManager + PerManager <= all
    BY <1>1, <1>2
  <2> QED BY <1>1, <1>2, <2>1 DEF Occupied
<1>4. Emptied(1)[0] = active[0]
  BY <1>2, <1>3 DEF Emptied, Renewed
<1> QED BY <1>2, <1>3, <1>4 DEF Refused

LEMMA ExpandStep == ASSUME FleetInv, Expand PROVE FleetInv'
<1> DEFINE at == dream.at  b == dream.breadth  d == dream.depth  c == dream.cursor
           m == ManagerOf(c)  node == c % PerManager
           next == Onward(at, d)
<1>1. /\ user = "DREAM" /\ dream.step = "expand" /\ at # <<>> /\ Last(at) < b
      /\ manager' = Activated(m + 1) /\ UNCHANGED <<user, ephemeral, live, mirror>>
      /\ IF Refused(manager', Emptied(m + 1), m)
         THEN active' = Emptied(m + 1) /\ dream' = [dream EXCEPT !.step = "threw"]
         ELSE /\ active' = [Emptied(m + 1) EXCEPT ![m] = Append(@, node)]
              /\ dream' = [dream EXCEPT !.cursor = @ + 1, !.at = next]
  BY DEF Expand
<1>2. /\ dream \in Dreams /\ dream # Awake
      /\ Occupied(active, manager, c) /\ Walking(b, d, c, at)
  BY <1>1, AwakeIs DEF FleetInv, Dreaming
<1>3. at \in Seq(Nat) /\ b \in Nat /\ d \in Nat /\ c \in Nat
  BY <1>2 DEF Dreams
<1>4. at[Len(at)] < b /\ Len(at) > 0
  <2> HIDE DEF at
  <2> QED BY <1>1, <1>3, EmptySeq DEF Last
<1>5. Turned(at, d, next) /\ next \in Seq(Nat)
  <2> HIDE DEF at, d
  <2> QED BY <1>3, <1>4, LoopTurns
<1>6. Walking(b, d, c + 1, next) /\ c + 1 <= TreeSize(b, d)
  <2> HIDE DEF at, b, d, c, next
  <2> QED BY <1>1, <1>2, <1>3, <1>4, <1>5, WalkExpands
<1>7. live' = Unmirrored
  BY <1>1, DreamHas
<1>8. manager' \in [Indexes -> {"ACTIVE", "TERMINATED", "none"}]
  BY <1>1, DreamHas DEF Activated
<1>9. Emptied(m + 1) \in [Indexes -> Seq(Nat)]
  <2> HIDE DEF m
  <2>1. ASSUME NEW k \in Indexes PROVE Emptied(m + 1)[k] \in Seq(Nat)
    BY DEF Emptied, FleetInv
  <2> QED BY <2>1 DEF Emptied
<1>10. CASE c < Managers * PerManager
  <2> HIDE DEF at, b, d, next
  <2>1. m \in Indexes /\ m * PerManager <= c /\ c < m * PerManager + PerManager /\ node \in Nat
    <3> HIDE DEF c
    <3> QED BY <1>3, <1>10, CursorIs
  <2>2. /\ ~Refused(Activated(m + 1), Emptied(m + 1), m)
        /\ Occupied([Emptied(m + 1) EXCEPT ![m] = Append(@, node)], Activated(m + 1), c + 1)
        /\ [Emptied(m + 1) EXCEPT ![m] = Append(@, node)] \in [Indexes -> Seq(Nat)]
    <3>1. ManagerOf(c) = m
      OBVIOUS
    <3> HIDE DEF c, m, node
    <3> QED BY <1>2, <1>3, <1>10, <2>1, <3>1, NextNode, Zenon
  <2>3. /\ active' = [Emptied(m + 1) EXCEPT ![m] = Append(@, node)]
        /\ dream' = [dream EXCEPT !.cursor = @ + 1, !.at = next]
    <3> HIDE DEF c, m, node
    <3> QED BY <1>1, <2>2
  <2>4. dream' \in Dreams /\ dream'.step = "expand" /\ dream'.breadth = b /\ dream'.depth = d
        /\ dream'.cursor = c + 1 /\ dream'.at = next
    <3>1. PICK e \in Nat : e = c + 1
      BY <1>3
    <3>2. dream' = [dream EXCEPT !.cursor = e, !.at = next]
      BY <2>3, <3>1
    <3>3. dream' \in Dreams /\ dream'.step = "expand" /\ dream'.breadth = b /\ dream'.depth = d
        /\ dream'.cursor = e /\ dream'.at = next
      BY <1>1, <1>2, <1>5, <3>2 DEF Dreams, b, d
    <3> QED BY <3>1, <3>3
  <2>5. Occupied(active', manager', dream'.cursor) /\ Walking(b, d, dream'.cursor, next)
    <3> HIDE DEF c, m, node
    <3>1. dream'.cursor = c + 1
      BY <2>4
    <3> QED BY <1>1, <1>6, <2>2, <2>3, <3>1
  <2>6. Dreaming'
    <3> HIDE DEF c, m, node
    <3> QED BY <1>1, <2>4, <2>5, AwakeIs DEF Dreaming
  <2>7. DreamEndsClean'
    BY <2>4 DEF DreamEndsClean
  <2>8. active' \in [Indexes -> Seq(Nat)]
    BY <2>2, <2>3
  <2> QED BY <1>1, <1>7, <1>8, <2>6, <2>7, <2>8, DreamStep
<1>11. CASE ~(c < Managers * PerManager)
  <2> HIDE DEF at, b, d, next
  <2>1. c = Managers * PerManager
    <3>1. c <= Managers * PerManager /\ Managers * PerManager \in Nat
      BY <1>2, Products, FleetAssumption DEF Occupied
    <3> QED BY <1>3, <1>11, <3>1
  <2>2. m = 0
    BY <2>1, CursorAtEnd
  <2>3. m + 1 = 1
    BY <2>2
  <2>4. Refused(manager', Emptied(m + 1), m)
    <3>1. Refused(Activated(1), Emptied(1), 0)
      BY <1>2, <2>1, NoNodeLeft
    <3> HIDE DEF m
    <3> QED BY <1>1, <2>2, <2>3, <3>1
  <2>5. active' = Emptied(m + 1) /\ dream' = [dream EXCEPT !.step = "threw"]
    <3> HIDE DEF m
    <3> QED BY <1>1, <2>4
  <2>6. dream' \in Dreams /\ dream'.step = "threw" /\ dream'.breadth = b /\ dream'.depth = d
    BY <1>2, <2>5 DEF Dreams, b, d
  <2>7. TreeSize(b, d) > Managers * PerManager
    <3>1. TreeSize(b, d) \in Nat
      BY <1>3, TreeSizeIs
    <3> HIDE DEF c
    <3> QED BY <1>3, <1>6, <2>1, <3>1
  <2>8. DreamEndsClean'
    BY <2>6, <2>7 DEF DreamEndsClean
  <2>9. Dreaming'
    BY <1>1, <2>6 DEF Dreaming
  <2> QED BY <1>1, <1>7, <1>8, <1>9, <2>5, <2>8, <2>9, DreamStep
<1> QED BY <1>10, <1>11

LEMMA FleetStep == ASSUME FleetInv, [FleetNext]_fleetVars PROVE FleetInv'
<1>1. CASE UNCHANGED fleetVars
  <2>1. Dreaming' = Dreaming /\ DreamEndsClean' = DreamEndsClean /\ MirrorIsTrue' = MirrorIsTrue
    BY <1>1 DEF fleetVars, Dreaming, DreamEndsClean, MirrorIsTrue, Occupied
  <2> QED BY <1>1, <2>1 DEF fleetVars, FleetInv
<1>2. ASSUME NEW count \in 0..Managers, Activate(count) PROVE FleetInv'
  BY <1>2, ActivateStep, FleetAssumption
<1>3. ASSUME NEW n \in Nodes, MaterializeNode(n[1], n[2]) PROVE FleetInv'
  <2>1. n[1] \in Indexes /\ n[2] \in Nat
    BY FleetAssumption DEF Nodes
  <2> QED BY <1>3, <2>1, MaterializeNodeStep
<1>4. ASSUME NEW m \in Indexes, ReleaseManager(m) PROVE FleetInv'
  BY <1>4, ReleaseManagerStep
<1>5. ASSUME NEW n \in Nodes, Materialize(n) PROVE FleetInv'
  BY <1>5, MaterializeStep
<1>6. ASSUME NEW n \in Nodes, Release({n}) PROVE FleetInv'
  BY <1>6, ReleaseStep
<1>7. CASE Release(Nodes)
  BY <1>7, ReleaseStep
<1>8. ASSUME NEW breadth \in 0..MaxBreadth, NEW depth \in 0..MaxDepth, Begin(breadth, depth) PROVE FleetInv'
  BY <1>8, BeginStep, FleetAssumption
<1>9. CASE Expand
  BY <1>9, ExpandStep
<1>10. CASE Return
  BY <1>10, ReturnStep
<1>11. CASE TearDown
  BY <1>11, TearDownStep
<1> QED BY <1>1, <1>2, <1>3, <1>4, <1>5, <1>6, <1>7, <1>8, <1>9, <1>10, <1>11 DEF FleetNext

LEMMA FleetHolds == FleetInv => DreamEndsClean /\ MirrorIsTrue
BY DEF FleetInv

\* What every step leaves of an idle manager.
LEMMA IdleStays ==
  ASSUME FleetInv, [FleetNext]_fleetVars, NEW m \in Indexes, manager[m] = "IDLE"
  PROVE  manager'[m] = "IDLE" /\ active'[m] = <<>>
<1>1. ~ephemeral /\ active[m] = <<>> /\ user # "DREAM"
  BY DEF FleetInv
<1>2. CASE UNCHANGED <<manager, active>>
  BY <1>1, <1>2
<1>3. ASSUME NEW count \in 0..Managers, Activate(count) PROVE manager'[m] = "IDLE" /\ active'[m] = <<>>
  BY <1>1, <1>3 DEF Activate, Activated, Emptied, Renewed
<1>4. ASSUME NEW n \in Nodes, MaterializeNode(n[1], n[2]) PROVE manager'[m] = "IDLE" /\ active'[m] = <<>>
  <2>1. n[1] # m
    BY <1>4 DEF MaterializeNode, Refused
  <2> QED BY <1>1, <1>4, <2>1 DEF MaterializeNode, FleetInv
<1>5. ASSUME NEW k \in Indexes, ReleaseManager(k) PROVE manager'[m] = "IDLE" /\ active'[m] = <<>>
  BY <1>1, <1>5 DEF ReleaseManager, Rested, Resting, Vacated
<1>6. ~\E breadth \in 0..MaxBreadth, depth \in 0..MaxDepth : Begin(breadth, depth)
  BY <1>1 DEF Begin
<1>7. ~Expand /\ ~Return /\ ~TearDown
  BY <1>1 DEF Expand, Return, TearDown
<1>8. CASE Release(Nodes) \/ \E n \in Nodes : Materialize(n) \/ Release({n})
  BY <1>2, <1>8 DEF Materialize, Release
<1>9. UNCHANGED fleetVars => UNCHANGED <<manager, active>>
  BY DEF fleetVars
<1> QED BY <1>2, <1>3, <1>4, <1>5, <1>6, <1>7, <1>8, <1>9 DEF FleetNext

\* The node fleet and DREAM on it, for any managers, nodes for each and trees: a
\* simulation that returns has dreamt its whole tree, each outcome on a node of its
\* own, and leaves none live, and it throws only for want of nodes; Postgres' copy of
\* the fleet is true; and a manager of an always-on agent that is idle stays idle.
THEOREM FleetIsSound == FleetSpec => [](DreamEndsClean /\ MirrorIsTrue) /\ IdleForGood
<1> DEFINE Idles == \A m \in Indexes : manager[m] = "IDLE" => manager'[m] = "IDLE" /\ active'[m] = <<>>
<1>1. FleetInv /\ [FleetNext]_fleetVars => FleetInv'
  BY FleetStep
<1>2. FleetInv /\ [FleetNext]_fleetVars => [Idles]_fleetVars
  BY IdleStays
<1> HIDE DEF Idles
<1>3. FleetSpec => [][Idles]_fleetVars
  BY <1>1, <1>2, FleetStarts, PTL DEF FleetSpec
<1>4. FleetSpec => [](DreamEndsClean /\ MirrorIsTrue)
  BY <1>1, FleetStarts, FleetHolds, PTL DEF FleetSpec
<1> QED BY <1>3, <1>4 DEF IdleForGood, Idles

-----------------------------------------------------------------------------
Levels(after, level, times) ==
  after = [n \in 0..times |-> IF n = 0 THEN level ELSE after[n - 1] \div 2]

LEMMA LevelsExist ==
  ASSUME NEW level \in Int, NEW times \in Nat
  PROVE  \E after : Levels(after, level, times) /\ \A n \in 0..times : after[n] \in Int
<1> DEFINE Have(n) == \E after : Levels(after, level, n) /\ \A k \in 0..n : after[k] \in Int
           Without == {n \in Nat : ~Have(n)}
<1> SUFFICES ASSUME Without # {} PROVE FALSE
  OBVIOUS
<1>1. PICK d \in Without : \A e \in Without : d <= e
  BY LeastNumber
<1>2. CASE d = 0
  <2> DEFINE f == [n \in 0..d |-> level]
  <2>1. \A n \in 0..d : n = 0 /\ f[n] \in Int
    BY <1>2
  <2>2. f = [n \in 0..d |-> IF n = 0 THEN level ELSE f[n - 1] \div 2]
    BY <2>1
  <2> QED BY <1>1, <2>1, <2>2 DEF Levels
<1>3. CASE d # 0
  <2>1. d - 1 \in Nat /\ d - 1 \notin Without
    BY <1>1, <1>3
  <2>2. PICK f : Levels(f, level, d - 1) /\ \A n \in 0..(d - 1) : f[n] \in Int
    BY <2>1
  <2> DEFINE g == [n \in 0..d |-> IF n = d THEN f[d - 1] \div 2 ELSE f[n]]
  <2>3. \A n \in 0..(d - 1) : g[n] = f[n]
    BY <1>3
  <2>4. \A n \in 0..(d - 1) : f[n] = IF n = 0 THEN level ELSE f[n - 1] \div 2
    BY <2>2 DEF Levels
  <2>5. ASSUME NEW n \in 0..d
        PROVE  g[n] = (IF n = 0 THEN level ELSE g[n - 1] \div 2) /\ g[n] \in Int
    <3>1. CASE n = d
      <4>1. g[n] = f[d - 1] \div 2 /\ g[n - 1] = f[d - 1] /\ f[d - 1] \in Int
        BY <1>3, <2>1, <2>2, <2>3, <3>1
      <4>2. f[d - 1] \div 2 \in Int
        BY <4>1
      <4> QED BY <1>3, <3>1, <4>1, <4>2
    <3>2. CASE n # d
      <4>1. n \in 0..(d - 1) /\ (n # 0 => n - 1 \in 0..(d - 1))
        BY <3>2
      <4> QED BY <2>2, <2>3, <2>4, <4>1
    <3> QED BY <3>1, <3>2
  <2>6. g = [n \in 0..d |-> IF n = 0 THEN level ELSE g[n - 1] \div 2]
    BY <2>5
  <2> QED BY <1>1, <2>5, <2>6 DEF Levels
<1> QED BY <1>2, <1>3

LEMMA HalvedIs ==
  ASSUME NEW level \in Int, NEW times \in Nat
  PROVE  Halved(level, times) \in Int /\ Halved(level, 0) = level
<1> DEFINE f(n) == CHOOSE after : Levels(after, level, n)
<1>1. \A n \in Nat : Halved(level, n) = f(n)[n] /\ Levels(f(n), level, n)
  <2> SUFFICES ASSUME NEW n \in Nat PROVE Halved(level, n) = f(n)[n] /\ Levels(f(n), level, n)
    OBVIOUS
  <2>1. \E after : Levels(after, level, n)
    BY LevelsExist
  <2>2. Levels(f(n), level, n)
    BY <2>1
  <2>3. Halved(level, n) = f(n)[n]
    BY DEF Halved, Levels
  <2> QED BY <2>2, <2>3
<1> HIDE DEF f
<1>2. Halved(level, 0) = level
  BY <1>1 DEF Levels
<1>3. ASSUME NEW n \in 0..times PROVE f(times)[n] \in Int
  <2> DEFINE Odd == {k \in Nat : k <= times /\ f(times)[k] \notin Int}
  <2> SUFFICES ASSUME Odd # {} PROVE FALSE
    OBVIOUS
  <2>1. PICK d \in Odd : \A e \in Odd : d <= e
    BY LeastNumber
  <2>2. f(times)[d] = IF d = 0 THEN level ELSE f(times)[d - 1] \div 2
    <3>1. Levels(f(times), level, times) /\ d \in 0..times
      BY <1>1
    <3> QED BY <3>1 DEF Levels
  <2>3. d # 0
    BY <2>2
  <2>4. d - 1 \in 0..times /\ d - 1 \notin Odd
    BY <2>1, <2>3
  <2>5. f(times)[d - 1] \in Int
    BY <2>4
  <2> QED BY <2>2, <2>3, <2>5
<1> QED BY <1>1, <1>2, <1>3

LEMMA Larger == ASSUME NEW a \in Int, NEW b \in Int PROVE Max({a, b}) = IF a >= b THEN a ELSE b
BY DEF Max
LEMMA Smaller == ASSUME NEW a \in Int, NEW b \in Int PROVE Min({a, b}) = IF a <= b THEN a ELSE b
BY DEF Min

\* The stream's level and the two counts of it.
SchedulerInv ==
  /\ energy \in Int /\ lastAt \in Nat /\ idleTicks \in Nat /\ idleTicks < IdleTicks
  /\ quiet \in Nat /\ quiet <= idleTicks
  /\ bursts \in Nat /\ bursts < 3 /\ bursts * 20 <= energy

Event == [type : Types, energy : Magnitudes \cup {Unstated}, at : Nat]

LEMMA SchedulerStarts == SchedulerInit => SchedulerInv
BY SchedulerAssumption DEF SchedulerInit, SchedulerInv

\* What an event leaves of the level, and a full burst adds to it.
LEMMA ObservedIs ==
  ASSUME SchedulerInv, NEW event \in Event
  PROVE  /\ Observed(event) \in Int /\ Heat(event) \in Int /\ Heat(event) >= Observed(event)
         /\ Observed(event) >= 0
         /\ FullBurst(event) => Observed(event) >= IF energy + 20 <= 100 THEN energy + 20 ELSE 100
<1>1. energy \in Int /\ lastAt \in Nat /\ event.at \in Nat /\ event.type \in Types
  BY DEF SchedulerInv, Event
<1>2. Max({0, event.at - lastAt}) \in Nat /\ (event.at <= lastAt => Max({0, event.at - lastAt}) = 0)
  BY <1>1, Larger
<1>3. Decayed(event.at) \in Int /\ (event.at <= lastAt => Decayed(event.at) = energy)
  BY <1>1, <1>2, HalvedIs DEF Decayed
<1>4. event.energy # Unstated => event.energy \in Int
  BY SchedulerAssumption DEF Event
<1>5. Contribution(event) \in Int
  <2> DEFINE w == Weight[event.type]  e == IF event.energy = Unstated THEN 100 ELSE event.energy
  <2>1. w \in Int
    BY <1>1 DEF Weight, Types
  <2>2. e \in Int
    BY <1>4
  <2> HIDE DEF w, e
  <2>3. w * e \in Int
    BY <2>1, <2>2
  <2>4. (w * e) \div 100 \in Int
    BY <2>3
  <2> QED BY <2>4 DEF Contribution, w, e
<1>6. FullBurst(event) => Contribution(event) = 20 /\ Decayed(event.at) = energy
  BY <1>3 DEF FullBurst, Contribution, Weight
<1> DEFINE x == Decayed(event.at) + Contribution(event)
<1>7. x \in Int /\ (FullBurst(event) => x = energy + 20)
  BY <1>1, <1>3, <1>5, <1>6
<1>8. Observed(event) = Max({0, Min({100, x})})
  BY DEF Observed
<1> HIDE DEF x
<1>9. Min({100, x}) = (IF 100 <= x THEN 100 ELSE x) /\ Min({100, x}) \in Int
  BY <1>7, Smaller
<1>10. Observed(event) = (IF 0 >= Min({100, x}) THEN 0 ELSE Min({100, x}))
  <2> DEFINE y == Min({100, x})
  <2>1. y \in Int /\ Observed(event) = Max({0, y})
    BY <1>8, <1>9
  <2> HIDE DEF y
  <2>2. Max({0, y}) = IF 0 >= y THEN 0 ELSE y
    BY <2>1, Larger
  <2>3. Observed(event) = IF 0 >= y THEN 0 ELSE y
    BY <2>1, <2>2
  <2> QED BY <2>3 DEF y
<1>11. Observed(event) \in Int /\ Observed(event) >= 0
  BY <1>9, <1>10
<1>12. FullBurst(event) => Observed(event) >= IF energy + 20 <= 100 THEN energy + 20 ELSE 100
  BY <1>1, <1>7, <1>9, <1>10
<1>13. Heat(event) \in Int /\ Heat(event) >= Observed(event)
  BY <1>4, <1>11, Larger DEF Heat
<1> QED BY <1>11, <1>12, <1>13

LEMMA ScheduleStep == ASSUME SchedulerInv, NEW event \in Event, Schedule(event) PROVE SchedulerInv'
<1>1. energy' \in Int /\ lastAt' \in Nat /\ energy' >= 0
  BY ObservedIs DEF Schedule, Event
<1>2. /\ idleTicks' \in Nat /\ idleTicks' < IdleTicks /\ quiet' \in Nat /\ quiet' <= idleTicks'
  <2>1. idleTicks \in Nat /\ idleTicks < IdleTicks /\ quiet \in Nat /\ quiet <= idleTicks /\ IdleTicks \in Nat \ {0}
    BY SchedulerAssumption DEF SchedulerInv
  <2>2. /\ idleTicks' = IF event.type # "IDLE_TICK" THEN idleTicks ELSE IF CountDue THEN 0 ELSE idleTicks + 1
        /\ quiet' = IF event.type # "IDLE_TICK" THEN quiet
                    ELSE IF Due(event) \/ Heat(event) >= Threshold THEN 0 ELSE quiet + 1
    BY DEF Schedule, Counted
  <2>3. CASE event.type # "IDLE_TICK"
    BY <2>1, <2>2, <2>3
  <2>4. CASE event.type = "IDLE_TICK" /\ CountDue
    <3>1. Heat(event) >= Threshold \/ Heat(event) < Threshold
      BY ObservedIs, SchedulerAssumption
    <3>2. Due(event) \/ Heat(event) >= Threshold
      BY <2>4, <3>1 DEF Due
    <3> QED BY <2>1, <2>2, <2>4, <3>2
  <2>5. CASE event.type = "IDLE_TICK" /\ ~CountDue
    <3>1. idleTicks + 1 < IdleTicks
      BY <2>1, <2>5 DEF CountDue
    <3> QED BY <2>1, <2>2, <2>5, <3>1
  <2> QED BY <2>3, <2>4, <2>5
<1>3. bursts' \in Nat /\ bursts' < 3 /\ bursts' * 20 <= energy'
  <2>1. CASE FullBurst(event) /\ ~Due(event)
    <3>1. event.type = "CHAT_BURST" /\ bursts' = bursts + 1 /\ energy' = Observed(event)
      BY <2>1 DEF FullBurst, Schedule
    <3>2. ~(Heat(event) >= Threshold)
      BY <2>1, <3>1 DEF Due
    <3>3. Observed(event) < 60
      BY <3>2, ObservedIs, SchedulerAssumption
    <3>4. Observed(event) >= energy + 20
      BY <2>1, <3>3, ObservedIs DEF SchedulerInv
    <3> QED BY <3>1, <3>3, <3>4, ObservedIs DEF SchedulerInv
  <2>2. CASE ~(FullBurst(event) /\ ~Due(event))
    <3>1. bursts' = 0
      BY <2>2 DEF Schedule
    <3> QED BY <1>1, <3>1
  <2> QED BY <2>1, <2>2
<1> QED BY <1>1, <1>2, <1>3 DEF SchedulerInv

LEMMA SchedulerStep == ASSUME SchedulerInv, [SchedulerNext]_schedulerVars PROVE SchedulerInv'
<1>1. CASE UNCHANGED schedulerVars
  BY <1>1 DEF schedulerVars, SchedulerInv
<1>2. ASSUME NEW type \in Types, NEW magnitude \in Magnitudes \cup {Unstated}, NEW at \in 0..MaxTime,
             Schedule([type |-> type, energy |-> magnitude, at |-> at])
      PROVE  SchedulerInv'
  <2>1. [type |-> type, energy |-> magnitude, at |-> at] \in Event
    BY SchedulerAssumption DEF Event
  <2> QED BY <1>2, <2>1, ScheduleStep
<1> QED BY <1>1, <1>2 DEF SchedulerNext

LEMMA SchedulerHolds == SchedulerInv => StreamIsHeard
BY SchedulerAssumption DEF SchedulerInv, StreamIsHeard

\* DREAM's scheduler, whatever events come at whatever times, within the bounds that
\* SchedulerAssumption sets on its thresholds: of three chat messages in a burst, and
\* of IdleTicks quiet ticks in a row, one dreams.
THEOREM DreamHears == SchedulerSpec => []StreamIsHeard
BY SchedulerStarts, SchedulerStep, SchedulerHolds, PTL DEF SchedulerSpec

-----------------------------------------------------------------------------
(* The hashes of the chain over the entries as it is. *)

NextHash(h, i) ==
  IF i = 0 THEN Genesis
  ELSE IF i > Len(entries) THEN h[i - 1] ELSE LinkHash(i - 1, h[i - 1], HashEntry(content[entries[i]]))
Hashes(h, n) == h = [i \in 0..n |-> NextHash(h, i)]

LEMMA HashesExist == ASSUME NEW n \in Nat PROVE \E h : Hashes(h, n)
<1> DEFINE Without == {d \in Nat : ~\E h : Hashes(h, d)}
<1> SUFFICES ASSUME Without # {} PROVE FALSE
  OBVIOUS
<1>1. PICK d \in Without : \A e \in Without : d <= e
  BY LeastNumber
<1>2. CASE d = 0
  <2> DEFINE f == [i \in 0..d |-> Genesis]
  <2>1. \A i \in 0..d : NextHash(f, i) = Genesis
    BY <1>2 DEF NextHash
  <2> HIDE DEF f
  <2>2. f = [i \in 0..d |-> NextHash(f, i)]
    BY <2>1 DEF f
  <2> QED BY <1>1, <2>2 DEF Hashes
<1>3. CASE d # 0
  <2>1. d - 1 \in Nat /\ d - 1 \notin Without
    BY <1>1, <1>3
  <2>2. PICK f : Hashes(f, d - 1)
    BY <2>1
  <2> DEFINE g == [i \in 0..d |-> IF i = d THEN NextHash(f, d) ELSE f[i]]
  <2>3. \A i \in 0..(d - 1) : g[i] = f[i]
    BY <1>3
  <2>4. \A i \in 0..(d - 1) : f[i] = NextHash(f, i)
    BY <2>2 DEF Hashes
  <2>5. g[d] = NextHash(f, d)
    OBVIOUS
  <2>6. g = [i \in 0..d |-> g[i]]
    OBVIOUS
  <2> HIDE DEF g
  <2>7. ASSUME NEW i \in 0..d PROVE g[i] = NextHash(g, i)
    <3>1. CASE i = 0
      <4>1. g[i] = f[i] /\ f[i] = NextHash(f, i)
        BY <1>3, <2>1, <2>3, <2>4, <3>1
      <4> QED BY <3>1, <4>1 DEF NextHash
    <3>2. CASE i # 0
      <4>1. i - 1 \in 0..(d - 1) /\ (i # d => i \in 0..(d - 1))
        BY <3>2
      <4>2. g[i - 1] = f[i - 1]
        BY <2>3, <4>1
      <4>3. NextHash(g, i) = NextHash(f, i)
        BY <4>2 DEF NextHash
      <4> QED BY <2>3, <2>4, <2>5, <4>1, <4>3
    <3> QED BY <3>1, <3>2
  <2>8. g = [i \in 0..d |-> NextHash(g, i)]
    BY <2>6, <2>7
  <2> QED BY <1>1, <2>8 DEF Hashes
<1> QED BY <1>2, <1>3

LEMMA LogHashIs ==
  /\ LogHash[0] = Genesis
  /\ \A i \in 1..MaxEntries : i <= Len(entries) => LogHash[i] = <<i - 1, LogHash[i - 1], content[entries[i]]>>
<1>1. \E h : Hashes(h, MaxEntries)
  BY HashesExist, ChainAssumption
<1>2. LogHash = CHOOSE h : Hashes(h, MaxEntries)
  BY DEF LogHash, Hashes, NextHash
<1>3. Hashes(LogHash, MaxEntries)
  BY <1>1, <1>2
<1>4. \A i \in 0..MaxEntries : LogHash[i] = NextHash(LogHash, i)
  BY <1>3 DEF Hashes
<1>5. LogHash[0] = Genesis
  BY <1>4, ChainAssumption DEF NextHash
<1>6. ASSUME NEW i \in 1..MaxEntries, i <= Len(entries)
      PROVE  LogHash[i] = <<i - 1, LogHash[i - 1], content[entries[i]]>>
  <2>1. i \in 0..MaxEntries /\ i # 0 /\ LogHash[i] = NextHash(LogHash, i)
    BY <1>4
  <2>2. CASE i > Len(entries)
    BY <1>6, <2>2
  <2> QED BY <2>1, <2>2 DEF NextHash, LinkHash, HashEntry
<1> QED BY <1>5, <1>6
-----------------------------------------------------------------------------
Entered == [id : Nat, packet : Packets \cup (Surfaces \X Readings) \cup {Spoilt},
             outcome : Outcomes \cup {"ALLOWED"}]
Sequence(s) == \E S : s \in Seq(S)

\* A link as it is built: on the one before it, of what was sealed.
Before(i) == IF i = 1 THEN Genesis ELSE links[i - 1].hash
JoinedUp(link, i, prev, c, count) ==
  /\ link.index = i - 1 /\ link.entry \in 1..count /\ link.entryHash = c
  /\ link.prevHash = prev /\ link.hash = <<i - 1, prev, c>>

ChainInv ==
  /\ content \in Seq(Entered) /\ Len(content) <= MaxEntries
  /\ entries \in Seq(Nat) /\ Len(entries) <= Len(content)
  /\ \A i \in 1..Len(entries) : entries[i] \in 1..Len(content)
  /\ sealed \in Seq(Entered) /\ Sequence(links) /\ Len(links) = Len(sealed)
  /\ \A i \in 1..Len(links) : JoinedUp(links[i], i, Before(i), sealed[i], Len(content))

LEMMA ChainStarts == ChainInit => ChainInv
<1> SUFFICES ASSUME ChainInit PROVE ChainInv
  OBVIOUS
<1>1. content = <<>> /\ entries = <<>> /\ sealed = <<>> /\ links = <<>>
  BY DEF ChainInit
<1>2. <<>> \in Seq(Entered) /\ <<>> \in Seq(Nat) /\ Len(<<>>) = 0
  OBVIOUS
<1>3. Sequence(links)
  BY <1>1, <1>2 DEF Sequence
<1> QED BY <1>1, <1>2, <1>3, ChainAssumption DEF ChainInv

LEMMA SequenceIs ==
  ASSUME NEW s, Sequence(s)
  PROVE  /\ Len(s) \in Nat /\ DOMAIN s = 1..Len(s)
         /\ \A x : /\ Sequence(Append(s, x)) /\ Len(Append(s, x)) = Len(s) + 1
                   /\ Append(s, x)[Len(s) + 1] = x
                   /\ \A i \in 1..Len(s) : Append(s, x)[i] = s[i]
<1>1. PICK S : s \in Seq(S)
  BY DEF Sequence
<1>2. Len(s) \in Nat /\ DOMAIN s = 1..Len(s)
  BY <1>1
<1>3. ASSUME NEW x
      PROVE  /\ Sequence(Append(s, x)) /\ Len(Append(s, x)) = Len(s) + 1
             /\ Append(s, x)[Len(s) + 1] = x
             /\ \A i \in 1..Len(s) : Append(s, x)[i] = s[i]
  <2>1. PICK T : T = S \cup {x}
    OBVIOUS
  <2>2. s \in Seq(T) /\ x \in T
    BY <1>1, <2>1, SeqMonotonic
  <2>3. Append(s, x) \in Seq(T)
    BY <2>2
  <2> QED BY <2>2, <2>3 DEF Sequence
<1> QED BY <1>2, <1>3

LEMMA FunctionIsSequence ==
  ASSUME NEW n \in Nat, NEW s, s = [i \in 1..n |-> s[i]]
  PROVE  Sequence(s) /\ Len(s) = n
<1>1. PICK S : S = {s[i] : i \in 1..n}
  OBVIOUS
<1>2. s \in [1..n -> S]
  BY <1>1
<1>3. s \in Seq(S) /\ Len(s) = n
  BY <1>2
<1> QED BY <1>3 DEF Sequence

LEMMA RecordStep ==
  ASSUME ChainInv, NEW packet \in Packets \cup (Surfaces \X Readings),
         NEW ending \in Outcomes \cup {"ALLOWED"}, RecordEntry(packet, ending)
  PROVE  ChainInv'
<1>1. PICK n \in Nat : n = Len(content) /\ n < MaxEntries
  BY DEF ChainInv, RecordEntry
<1>2. PICK c : c = [id |-> n + 1, packet |-> packet, outcome |-> ending]
  OBVIOUS
<1>3. PICK link : link = Link(links, n + 1, c)
  OBVIOUS
<1>4. /\ content' = Append(content, c) /\ entries' = Append(entries, n + 1)
      /\ links' = Append(links, link) /\ sealed' = Append(sealed, c)
  BY <1>1, <1>2, <1>3 DEF RecordEntry
<1>5. c \in Entered
  BY <1>2 DEF Entered
<1>6. content' \in Seq(Entered) /\ Len(content') = n + 1 /\ n + 1 <= MaxEntries
  <2>1. content' \in Seq(Entered) /\ Len(content') = n + 1
    BY <1>1, <1>4, <1>5 DEF ChainInv
  <2> QED BY <1>1, <2>1, ChainAssumption
<1>7. PICK k \in Nat : k = Len(entries) /\ k <= n
  BY <1>1 DEF ChainInv
<1>8. entries' \in Seq(Nat) /\ Len(entries') = k + 1 /\ entries'[k + 1] = n + 1
      /\ \A i \in 1..k : entries'[i] = entries[i]
  BY <1>1, <1>4, <1>7 DEF ChainInv
<1>9. \A i \in 1..Len(entries') : entries'[i] \in 1..(n + 1)
  <2> SUFFICES ASSUME NEW i \in 1..(k + 1) PROVE entries'[i] \in 1..(n + 1)
    BY <1>8
  <2>1. CASE i = k + 1
    BY <1>8, <2>1
  <2>2. CASE i \in 1..k
    <3>1. entries[i] \in 1..n
      BY <1>1, <1>7, <2>2 DEF ChainInv
    <3> QED BY <1>8, <2>2, <3>1
  <2> QED BY <2>1, <2>2
<1>10. Sequence(links) /\ Len(links) = Len(sealed) /\ sealed \in Seq(Entered)
  BY DEF ChainInv
<1>11. PICK l \in Nat : l = Len(links) /\ l = Len(sealed)
  BY <1>10, SequenceIs
<1>12. /\ Sequence(links') /\ Len(links') = l + 1 /\ links'[l + 1] = link
       /\ \A i \in 1..l : links'[i] = links[i]
  BY <1>4, <1>10, <1>11, SequenceIs
<1>13. /\ sealed' \in Seq(Entered) /\ Len(sealed') = l + 1 /\ sealed'[l + 1] = c
       /\ \A i \in 1..l : sealed'[i] = sealed[i]
  BY <1>4, <1>5, <1>10, <1>11
<1>14. ASSUME NEW i \in 1..(l + 1) PROVE JoinedUp(links'[i], i, Before(i)', sealed'[i], n + 1)
  <2>1. CASE i = l + 1
    <3>1. links = <<>> <=> l = 0
      <4>1. PICK S : links \in Seq(S)
        BY <1>10 DEF Sequence
      <4> QED BY <1>11, <4>1, EmptySeq
    <3>2. Before(i)' = IF links = <<>> THEN Genesis ELSE links[Len(links)].hash
      <4>1. CASE l = 0
        BY <2>1, <3>1, <4>1 DEF Before
      <4>2. CASE l # 0
        <5>1. i # 1 /\ i - 1 = l /\ l \in 1..l
          BY <2>1, <4>2
        <5> QED BY <1>11, <1>12, <3>1, <4>2, <5>1 DEF Before
      <4> QED BY <4>1, <4>2
    <3>3. i - 1 = l /\ n + 1 \in 1..(n + 1)
      BY <2>1
    <3>4. /\ link.index = l /\ link.entry = n + 1 /\ link.entryHash = c
          /\ link.prevHash = Before(i)' /\ link.hash = <<l, Before(i)', c>>
      BY <1>3, <1>11, <3>2 DEF Link, LinkHash, HashEntry
    <3> QED BY <1>12, <1>13, <2>1, <3>3, <3>4 DEF JoinedUp
  <2>2. CASE i \in 1..l
    <3>1. JoinedUp(links[i], i, Before(i), sealed[i], n)
      BY <1>1, <1>11, <2>2 DEF ChainInv
    <3>2. Before(i)' = Before(i)
      <4>1. i # 1 => i - 1 \in 1..l
        BY <2>2
      <4> QED BY <1>12, <4>1 DEF Before
    <3>3. links[i].entry \in 1..(n + 1)
      BY <3>1 DEF JoinedUp
    <3> QED BY <1>12, <1>13, <2>2, <3>1, <3>2, <3>3 DEF JoinedUp
  <2> QED BY <2>1, <2>2
<1> QED BY <1>6, <1>7, <1>8, <1>9, <1>12, <1>13, <1>14 DEF ChainInv

LEMMA RebuildStep == ASSUME ChainInv, Rebuild PROVE ChainInv'
<1>1. PICK k \in Nat : k = Len(entries) /\ k <= MaxEntries /\ DOMAIN entries = 1..k
  BY ChainAssumption DEF ChainInv
<1>2. /\ links' = [i \in 1..k |->
            [index |-> i - 1, entry |-> entries[i], entryHash |-> content[entries[i]],
             prevHash |-> LogHash[i - 1], hash |-> LogHash[i]]]
      /\ sealed' = [i \in 1..k |-> content[entries[i]]]
      /\ content' = content /\ entries' = entries
  BY <1>1 DEF Rebuild, HashEntry
<1>3. \A i \in 1..k : entries[i] \in 1..Len(content) /\ content[entries[i]] \in Entered
  BY <1>1 DEF ChainInv
<1>4. sealed' \in Seq(Entered) /\ Len(sealed') = k
  BY <1>2, <1>3
<1>5. Sequence(links') /\ Len(links') = k
  <2>1. links' = [i \in 1..k |-> links'[i]]
    BY <1>2
  <2> QED BY <2>1, FunctionIsSequence
<1>6. ASSUME NEW i \in 1..k PROVE JoinedUp(links'[i], i, Before(i)', sealed'[i], Len(content))
  <2>1. LogHash[i] = <<i - 1, LogHash[i - 1], content[entries[i]]>> /\ LogHash[0] = Genesis
    <3>1. i \in 1..MaxEntries /\ i <= Len(entries)
      BY <1>1, ChainAssumption
    <3> QED BY <3>1, LogHashIs
  <2>2. Before(i)' = LogHash[i - 1]
    <3>1. CASE i = 1
      BY <2>1, <3>1 DEF Before
    <3>2. CASE i # 1
      <4>1. i - 1 \in 1..k
        BY <3>2
      <4>2. links'[i - 1].hash = LogHash[i - 1]
        BY <1>2, <4>1
      <4> QED BY <3>2, <4>2 DEF Before
    <3> QED BY <3>1, <3>2
  <2>3. /\ links'[i].index = i - 1 /\ links'[i].entry = entries[i] /\ links'[i].entryHash = content[entries[i]]
        /\ links'[i].prevHash = LogHash[i - 1] /\ links'[i].hash = LogHash[i]
        /\ sealed'[i] = content[entries[i]]
    BY <1>2
  <2> QED BY <1>3, <2>1, <2>2, <2>3 DEF JoinedUp
<1>7. Len(content') = Len(content) /\ Len(entries') = Len(entries)
  BY <1>2
<1> QED BY <1>2, <1>4, <1>5, <1>6, <1>7 DEF ChainInv

\* A writer of the store changes the entries, and never the chain.
LEMMA StoreStep ==
  ASSUME ChainInv, UNCHANGED <<links, sealed>>, content' \in Seq(Entered), Len(content') = Len(content),
         entries' \in Seq(Nat), Len(entries') <= Len(entries),
         \A i \in 1..Len(entries') : entries'[i] \in 1..Len(content)
  PROVE  ChainInv'
<1>1. Len(entries') <= Len(content')
  BY DEF ChainInv
<1>2. \A i : Before(i)' = Before(i)
  BY DEF Before
<1>3. Sequence(links') /\ sealed' \in Seq(Entered) /\ Len(links') = Len(sealed')
  BY DEF ChainInv
<1>4. \A i \in 1..Len(links') : JoinedUp(links'[i], i, Before(i)', sealed'[i], Len(content'))
  BY <1>2 DEF ChainInv
<1> QED BY <1>1, <1>3, <1>4 DEF ChainInv

LEMMA EditStep == ASSUME ChainInv, NEW i \in DOMAIN entries, Edit(i) PROVE ChainInv'
<1>1. PICK e \in 1..Len(content) : e = entries[i]
  BY DEF ChainInv
<1>2. PICK c : c = [content[e] EXCEPT !.packet = Spoilt]
  OBVIOUS
<1>3. content' = [content EXCEPT ![e] = c]
  BY <1>1, <1>2 DEF Edit
<1>4. content[e] \in Entered
  BY <1>1 DEF ChainInv
<1>5. c \in Entered
  BY <1>2, <1>4 DEF Entered
<1>6. content' \in Seq(Entered) /\ Len(content') = Len(content)
  BY <1>1, <1>3, <1>5 DEF ChainInv
<1>7. UNCHANGED <<entries, links, sealed>>
  BY DEF Edit
<1>8. entries' \in Seq(Nat) /\ Len(entries') <= Len(entries)
      /\ \A j \in 1..Len(entries') : entries'[j] \in 1..Len(content)
  BY <1>7 DEF ChainInv
<1> QED BY <1>6, <1>7, <1>8, StoreStep

LEMMA DropStep == ASSUME ChainInv, NEW i \in DOMAIN entries, Drop(i) PROVE ChainInv'
<1>1. PICK S : S = {e \in Nat : e \in 1..Len(content)}
  OBVIOUS
<1>2. PICK k \in Nat : k = Len(entries) /\ i \in 1..k /\ DOMAIN entries = 1..k
  <2>1. Len(entries) \in Nat /\ DOMAIN entries = 1..Len(entries)
    BY DEF ChainInv
  <2> QED BY <2>1
<1>3. \A j \in 1..k : entries[j] \in S
  BY <1>1, <1>2 DEF ChainInv
<1>4. PICK a, b : a = SubSeq(entries, 1, i - 1) /\ b = SubSeq(entries, i + 1, k)
  OBVIOUS
<1>5. a \in Seq(S) /\ Len(a) = i - 1
  <2>1. \A j \in 1..(i - 1) : entries[j] \in S
    BY <1>2, <1>3
  <2> QED BY <1>2, <1>4, <2>1, SubSeqProperties
<1>6. b \in Seq(S) /\ Len(b) = k - i
  <2>1. \A j \in (i + 1)..k : entries[j] \in S
    BY <1>2, <1>3
  <2> QED BY <1>2, <1>4, <2>1, SubSeqProperties
<1>7. entries' = a \o b
  BY <1>2, <1>4 DEF Drop
<1>8. entries' \in Seq(S) /\ Len(entries') = Len(a) + Len(b)
  BY <1>5, <1>6, <1>7, ConcatProperties
<1>9. Len(entries') <= Len(entries)
  BY <1>2, <1>5, <1>6, <1>8
<1>10. entries' \in Seq(Nat) /\ \A j \in 1..Len(entries') : entries'[j] \in 1..Len(content)
  BY <1>1, <1>8
<1>11. content' \in Seq(Entered) /\ Len(content') = Len(content) /\ UNCHANGED <<links, sealed>>
  BY DEF Drop, ChainInv
<1> QED BY <1>9, <1>10, <1>11, StoreStep

LEMMA SwapStep == ASSUME ChainInv, NEW i \in DOMAIN entries, Swap(i) PROVE ChainInv'
<1>1. i \in 1..Len(entries) /\ i + 1 \in 1..Len(entries) /\ Len(entries) \in Nat
  BY DEF ChainInv, Swap
<1>2. PICK d, e \in 1..Len(content) : d = entries[i] /\ e = entries[i + 1]
  BY <1>1 DEF ChainInv
<1>3. entries' = [entries EXCEPT ![i] = e, ![i + 1] = d]
  BY <1>2 DEF Swap
<1>4. d \in Nat /\ e \in Nat
  OBVIOUS
<1>5. entries' \in Seq(Nat) /\ Len(entries') = Len(entries)
      /\ \A j \in 1..Len(entries) : entries'[j] \in {d, e, entries[j]}
  BY <1>1, <1>3, <1>4, SMTT(40) DEF ChainInv
<1>6. \A j \in 1..Len(entries') : entries'[j] \in 1..Len(content)
  BY <1>2, <1>5 DEF ChainInv
<1>7. Len(entries') <= Len(entries)
  BY <1>1, <1>5
<1>8. content' \in Seq(Entered) /\ Len(content') = Len(content) /\ UNCHANGED <<links, sealed>>
  BY DEF Swap, ChainInv
<1> QED BY <1>5, <1>6, <1>7, <1>8, StoreStep

LEMMA ChainStep == ASSUME ChainInv, [ChainNext]_chainVars PROVE ChainInv'
<1>1. CASE UNCHANGED chainVars
  BY <1>1 DEF chainVars, ChainInv, Before
<1>2. ASSUME NEW p \in Packets, NEW ending \in Outcomes, Verdict(p, ending) PROVE ChainInv'
  BY <1>2, RecordStep DEF Verdict
<1>3. ASSUME NEW s \in Surfaces, NEW status \in Readings, Sample(s, status) PROVE ChainInv'
  <2>1. <<s, status>> \in Packets \cup (Surfaces \X Readings) /\ RecordEntry(<<s, status>>, "ALLOWED")
    BY <1>3 DEF Sample
  <2> QED BY <2>1, RecordStep
<1>4. CASE Rebuild
  BY <1>4, RebuildStep
<1>5. ASSUME NEW i \in DOMAIN entries, Edit(i) \/ Drop(i) \/ Swap(i) PROVE ChainInv'
  BY <1>5, EditStep, DropStep, SwapStep
<1> QED BY <1>1, <1>2, <1>3, <1>4, <1>5 DEF ChainNext
-----------------------------------------------------------------------------
(* What detectTamper and verify find. *)

LEMMA LeastIs ==
  ASSUME NEW T, T \subseteq Nat
  PROVE  /\ T = {} => Least(T) = -1
         /\ T # {} => Least(T) \in T /\ \A x \in T : Least(T) <= x
<1>1. T # {} => \E x \in T : \A y \in T : x <= y
  BY LeastNumber
<1> QED BY <1>1 DEF Least

LEMMA LeastAgree ==
  ASSUME NEW T, NEW U, T \subseteq Nat, U \subseteq T, \A x \in T : \E y \in U : y <= x
  PROVE  Least(T) = Least(U)
<1>1. U \subseteq Nat
  OBVIOUS
<1>2. CASE T = {}
  BY <1>2
<1>3. CASE T # {}
  <2>1. Least(T) \in T /\ \A x \in T : Least(T) <= x
    BY <1>3, LeastIs
  <2>2. U # {}
    BY <1>3
  <2>3. Least(U) \in U /\ \A x \in U : Least(U) <= x
    BY <1>1, <2>2, LeastIs
  <2>4. PICK y \in U : y <= Least(T)
    BY <2>1
  <2>5. Least(U) <= y /\ Least(T) <= Least(U) /\ Least(T) \in Nat /\ Least(U) \in Nat /\ y \in Nat
    BY <1>1, <2>1, <2>3
  <2> QED BY <2>4, <2>5
<1> QED BY <1>2, <1>3

Differs(i) == content[entries[i]] # sealed[i]

\* A hash over the entries is the link's as long as none before it differs.
LEMMA HashesFollow ==
  ASSUME ChainInv, NEW i \in 1..Len(entries), i <= Len(links)
  PROVE  (~Changed(i) => ~Differs(i)) /\ (Changed(i) => \E j \in 1..i : Differs(j))
<1>0. Len(entries) \in Nat /\ Len(entries) <= MaxEntries /\ Len(links) \in Nat /\ Len(links) = Len(sealed)
  BY SequenceIs, ChainAssumption DEF ChainInv
<1>1. ASSUME NEW j \in 1..i
      PROVE  /\ LogHash[j] = <<j - 1, LogHash[j - 1], content[entries[j]]>>
             /\ links[j].hash = <<j - 1, Before(j), sealed[j]>>
  <2>1. j \in 1..MaxEntries /\ j <= Len(entries) /\ j \in 1..Len(links)
    BY <1>0, ChainAssumption
  <2>2. JoinedUp(links[j], j, Before(j), sealed[j], Len(content))
    BY <2>1 DEF ChainInv
  <2> QED BY <2>1, <2>2, LogHashIs DEF JoinedUp
<1>2. ~Changed(i) => ~Differs(i)
  <2>1. i \in 1..i
    OBVIOUS
  <2> QED BY <1>1, <2>1 DEF Changed, Differs
<1>3. ASSUME \A j \in 1..i : ~Differs(j), Changed(i) PROVE FALSE
  <2> DEFINE Wrong == {j \in Nat : j \in 1..i /\ Changed(j)}
  <2>1. i \in Wrong
    BY <1>3
  <2>2. PICK j \in Wrong : \A k \in Wrong : j <= k
    BY <2>1, LeastNumber
  <2>3. LogHash[j - 1] = Before(j)
    <3>1. CASE j = 1
      BY <3>1, LogHashIs DEF Before
    <3>2. CASE j # 1
      <4>1. j - 1 \in 1..i /\ j - 1 \notin Wrong
        BY <2>2, <3>2
      <4> QED BY <3>2, <4>1 DEF Before, Changed
    <3> QED BY <3>1, <3>2
  <2>4. content[entries[j]] = sealed[j]
    BY <1>3 DEF Differs
  <2>5. LogHash[j] = links[j].hash
    BY <1>1, <2>3, <2>4
  <2> QED BY <2>5 DEF Changed
<1> QED BY <1>2, <1>3

LEMMA BrokenIs ==
  ASSUME ChainInv, NEW i \in 1..Len(links)
  PROVE  Broken(i) <=> content[links[i].entry] # sealed[i]
<1>1. JoinedUp(links[i], i, Before(i), sealed[i], Len(content))
  BY DEF ChainInv
<1> QED BY <1>1 DEF JoinedUp, Broken, LinkHash, HashEntry, Before

LEMMA ChainHolds == ChainInv => TamperIsTold
<1> SUFFICES ASSUME ChainInv PROVE TamperIsTold
  OBVIOUS
<1> DEFINE now == [i \in DOMAIN entries |-> content[entries[i]]]
           changed == {i - 1 : i \in {j \in DOMAIN entries : Changed(j)}}
           differs == {i - 1 : i \in {j \in DOMAIN sealed : now[j] # sealed[j]}}
<1>1. PICK k \in Nat, l \in Nat :
        /\ k = Len(entries) /\ DOMAIN entries = 1..k
        /\ l = Len(links) /\ DOMAIN links = 1..l /\ l = Len(sealed) /\ DOMAIN sealed = 1..l
  <2>1. Len(entries) \in Nat /\ DOMAIN entries = 1..Len(entries)
    BY DEF ChainInv
  <2>2. Len(links) \in Nat /\ DOMAIN links = 1..Len(links)
    BY SequenceIs DEF ChainInv
  <2>3. Len(links) = Len(sealed) /\ DOMAIN sealed = 1..Len(sealed)
    BY DEF ChainInv
  <2> QED BY <2>1, <2>2, <2>3
<1>2. sealed = [i \in 1..l |-> sealed[i]]
  BY <1>1 DEF ChainInv
<1>3. changed \subseteq Nat /\ differs \subseteq Nat
  <2>1. \A i \in 1..k : i - 1 \in Nat
    OBVIOUS
  <2>2. \A i \in 1..l : i - 1 \in Nat
    OBVIOUS
  <2>3. changed \subseteq Nat
    BY <1>1, <2>1
  <2>4. differs \subseteq Nat
    BY <1>1, <2>2
  <2> QED BY <2>3, <2>4
<1>4. k = l => Least(changed) = Least(differs)
  <2> SUFFICES ASSUME k = l PROVE Least(changed) = Least(differs)
    OBVIOUS
  <2>1. \A i \in 1..k : now[i] # sealed[i] <=> Differs(i)
    BY <1>1 DEF Differs
  <2>2. differs \subseteq changed
    <3> SUFFICES ASSUME NEW i \in 1..k, now[i] # sealed[i] PROVE Changed(i)
      BY <1>1
    <3>1. Differs(i)
      BY <2>1
    <3> QED BY <1>1, <3>1, HashesFollow
  <2>3. ASSUME NEW x \in changed PROVE \E y \in differs : y <= x
    <3>1. PICK i \in 1..k : x = i - 1 /\ Changed(i)
      BY <1>1
    <3>2. PICK j \in 1..i : Differs(j)
      BY <1>1, <3>1, HashesFollow
    <3>3. j \in 1..k /\ now[j] # sealed[j]
      BY <2>1, <3>2
    <3>4. j - 1 \in differs /\ j - 1 <= x
      BY <1>1, <3>1, <3>3
    <3> QED BY <3>4
  <2> HIDE DEF changed, differs
  <2> QED BY <1>3, <2>2, <2>3, LeastAgree
<1>5. k = l => (now = sealed <=> differs = {})
  <2> SUFFICES ASSUME k = l PROVE now = sealed <=> differs = {}
    OBVIOUS
  <2>1. now = sealed <=> \A i \in 1..k : now[i] = sealed[i]
    BY <1>1, <1>2
  <2> QED BY <1>1, <2>1
<1>6. k # l => now # sealed
  BY <1>1
<1>7. DetectTamper = IF k # l THEN (IF k < l THEN k ELSE l) ELSE Least(changed)
  BY <1>1 DEF DetectTamper
<1>8. DetectTamper = -1 <=> now = sealed
  <2>1. CASE k # l
    BY <1>6, <1>7, <2>1
  <2>2. CASE k = l
    <3>1. DetectTamper = Least(differs)
      BY <1>4, <1>7, <2>2
    <3> HIDE DEF differs, changed, now
    <3>2. Least(differs) = -1 <=> differs = {}
      <4>1. differs = {} => Least(differs) = -1
        BY <1>3, LeastIs
      <4>2. differs # {} => Least(differs) \in Nat
        BY <1>3, LeastIs
      <4>3. -1 \notin Nat
        OBVIOUS
      <4> QED BY <4>1, <4>2, <4>3
    <3> QED BY <1>5, <2>2, <3>1, <3>2
  <2> QED BY <2>1, <2>2
<1>9. Len(entries) = Len(sealed) /\ now # sealed => DetectTamper = Least(differs)
  BY <1>1, <1>4, <1>7
<1>10. Verify = Least({i - 1 : i \in {j \in DOMAIN links : content[links[j].entry] # sealed[j]}})
  <2>1. {j \in DOMAIN links : Broken(j)} = {j \in DOMAIN links : content[links[j].entry] # sealed[j]}
    BY <1>1, BrokenIs
  <2> QED BY <2>1 DEF Verify
<1> QED BY <1>8, <1>9, <1>10 DEF TamperIsTold

\* KNOLL's audit chain, for chains of any length: detectTamper finds the entries
\* changed exactly if they no longer say what was sealed, whatever was edited, dropped,
\* swapped and recorded since, and it names the first one that differs unless their
\* number changed; verify finds exactly the edits of sealed entries.
THEOREM ChainTells == ChainSpec => []TamperIsTold
BY ChainStarts, ChainStep, ChainHolds, PTL DEF ChainSpec

-----------------------------------------------------------------------------
(* Sums. *)

Sums(upto, f, n) == upto = [k \in 0..n |-> IF k = 0 THEN 0 ELSE upto[k - 1] + f[k]]

LEMMA SumsExist ==
  ASSUME NEW f, NEW n \in Nat
  PROVE  \E upto : Sums(upto, f, n)
<1> DEFINE Without == {d \in Nat : ~\E upto : Sums(upto, f, d)}
<1> SUFFICES ASSUME Without # {} PROVE FALSE
  OBVIOUS
<1>1. PICK d \in Without : \A e \in Without : d <= e
  BY LeastNumber
<1>2. CASE d = 0
  <2> DEFINE u == [e \in 0..d |-> 0]
  <2>1. \A e \in 0..d : e = 0
    BY <1>2
  <2>2. u = [e \in 0..d |-> IF e = 0 THEN 0 ELSE u[e - 1] + f[e]]
    BY <2>1
  <2> QED BY <1>1, <2>2 DEF Sums
<1>3. CASE d # 0
  <2>1. d - 1 \in Nat /\ d - 1 \notin Without
    BY <1>1, <1>3
  <2>2. PICK u : Sums(u, f, d - 1)
    BY <2>1
  <2> DEFINE v == [e \in 0..d |-> IF e = d THEN u[d - 1] + f[d] ELSE u[e]]
  <2>3. \A e \in 0..(d - 1) : v[e] = u[e]
    BY <1>3
  <2>4. \A e \in 0..(d - 1) : u[e] = IF e = 0 THEN 0 ELSE u[e - 1] + f[e]
    BY <2>2 DEF Sums
  <2>5. ASSUME NEW e \in 0..d
        PROVE  v[e] = IF e = 0 THEN 0 ELSE v[e - 1] + f[e]
    <3>1. CASE e = d
      BY <1>3, <2>1, <2>3, <3>1
    <3>2. CASE e # d
      <4>1. e \in 0..(d - 1) /\ (e # 0 => e - 1 \in 0..(d - 1))
        BY <3>2
      <4> QED BY <2>3, <2>4, <4>1
    <3> QED BY <3>1, <3>2
  <2>6. v = [e \in 0..d |-> IF e = 0 THEN 0 ELSE v[e - 1] + f[e]]
    BY <2>5
  <2> QED BY <1>1, <2>6 DEF Sums
<1> QED BY <1>2, <1>3

Agree(f, g, n) == \A k \in 1..n : f[k] = g[k] /\ f[k] \in Nat

LEMMA SumsAgree ==
  ASSUME NEW f, NEW g, NEW d \in Nat, NEW e \in Nat, NEW u, Sums(u, f, d), NEW v, Sums(v, g, e),
         NEW n \in Nat, n <= d, n <= e, Agree(f, g, n)
  PROVE  u[n] = v[n] /\ u[n] \in Nat
<1> DEFINE Apart == {m \in Nat : m <= n /\ ~(u[m] = v[m] /\ u[m] \in Nat)}
<1> SUFFICES ASSUME Apart # {} PROVE FALSE
  OBVIOUS
<1>1. PICK m \in Apart : \A k \in Apart : m <= k
  BY LeastNumber
<1>2. /\ u[m] = IF m = 0 THEN 0 ELSE u[m - 1] + f[m]
      /\ v[m] = IF m = 0 THEN 0 ELSE v[m - 1] + g[m]
  <2>1. m \in 0..d /\ m \in 0..e
    OBVIOUS
  <2> QED BY <2>1 DEF Sums
<1>3. m # 0
  BY <1>2
<1>4. m - 1 \in Nat /\ m - 1 \notin Apart
  BY <1>1, <1>3
<1>5. u[m - 1] = v[m - 1] /\ u[m - 1] \in Nat /\ m \in 1..n
  BY <1>3, <1>4
<1>6. f[m] = g[m] /\ f[m] \in Nat
  BY <1>5 DEF Agree
<1> QED BY <1>2, <1>3, <1>5, <1>6

LEMMA SummedIs ==
  ASSUME NEW n \in Nat, NEW f, \A k \in 1..(n + 1) : f[k] \in Nat
  PROVE  Summed(f, 0) = 0 /\ Summed(f, n) \in Nat /\ Summed(f, n + 1) = Summed(f, n) + f[n + 1]
<1> DEFINE upto(k) == CHOOSE u : Sums(u, f, k)
<1>1. ASSUME NEW k \in Nat PROVE Summed(f, k) = upto(k)[k] /\ Sums(upto(k), f, k)
  <2>1. \E u : Sums(u, f, k)
    BY SumsExist
  <2>2. Sums(upto(k), f, k)
    BY <2>1
  <2>3. Summed(f, k) = upto(k)[k]
    BY DEF Summed, Sums
  <2> QED BY <2>2, <2>3
<1> HIDE DEF upto
<1>2. Summed(f, 0) = 0
  <2>1. Sums(upto(0), f, 0) /\ Summed(f, 0) = upto(0)[0]
    BY <1>1
  <2> QED BY <2>1 DEF Sums
<1>3. n + 1 \in Nat /\ n <= n + 1 /\ n <= n /\ Agree(f, f, n)
  BY DEF Agree
<1>4. Sums(upto(n), f, n) /\ Sums(upto(n + 1), f, n + 1)
      /\ Summed(f, n) = upto(n)[n] /\ Summed(f, n + 1) = upto(n + 1)[n + 1]
  BY <1>1, <1>3
<1>5. upto(n)[n] = upto(n + 1)[n] /\ upto(n)[n] \in Nat
  BY <1>3, <1>4, SumsAgree
<1>6. upto(n + 1)[n + 1] = upto(n + 1)[n] + f[n + 1]
  <2>1. n + 1 \in 0..(n + 1) /\ n + 1 # 0 /\ (n + 1) - 1 = n
    OBVIOUS
  <2> QED BY <1>4, <2>1 DEF Sums
<1> QED BY <1>2, <1>4, <1>5, <1>6

LEMMA SummedNone == ASSUME NEW f PROVE Summed(f, 0) = 0
<1> DEFINE upto == CHOOSE u : Sums(u, f, 0)
<1>1. \E u : Sums(u, f, 0)
  BY SumsExist
<1>2. Sums(upto, f, 0)
  BY <1>1
<1>3. Summed(f, 0) = upto[0]
  BY DEF Summed, Sums
<1> HIDE DEF upto
<1> QED BY <1>2, <1>3 DEF Sums

LEMMA SummedSame ==
  ASSUME NEW n \in Nat, NEW f, NEW g, \A k \in 1..n : f[k] = g[k] /\ f[k] \in Nat
  PROVE  Summed(f, n) = Summed(g, n) /\ Summed(f, n) \in Nat
<1> DEFINE upto(h) == CHOOSE u : Sums(u, h, n)
<1>1. ASSUME NEW h PROVE Summed(h, n) = upto(h)[n] /\ Sums(upto(h), h, n)
  <2>1. \E u : Sums(u, h, n)
    BY SumsExist
  <2>2. Sums(upto(h), h, n)
    BY <2>1
  <2>3. Summed(h, n) = upto(h)[n]
    BY DEF Summed, Sums
  <2> QED BY <2>2, <2>3
<1> HIDE DEF upto
<1>2. n <= n /\ Agree(f, g, n)
  BY DEF Agree
<1>3. upto(f)[n] = upto(g)[n] /\ upto(f)[n] \in Nat
  <2>1. PICK u, v : u = upto(f) /\ v = upto(g)
    OBVIOUS
  <2>2. Sums(u, f, n) /\ Sums(v, g, n)
    BY <1>1, <2>1
  <2>3. u[n] = v[n] /\ u[n] \in Nat
    BY <1>2, <2>2, SumsAgree
  <2> QED BY <2>1, <2>3
<1> QED BY <1>1, <1>3
-----------------------------------------------------------------------------
(* Counting in a sequence. *)

Where(s, S) == {i \in DOMAIN s : s[i] \in S}
Number(s, S) == Cardinality(Where(s, S))

LEMMA NumberIsNat ==
  ASSUME NEW T, NEW s \in Seq(T), NEW S
  PROVE  IsFiniteSet(Where(s, S)) /\ Number(s, S) \in Nat /\ (Where(s, S) = {} => Number(s, S) = 0)
<1>1. DOMAIN s = 1..Len(s) /\ Len(s) \in Nat
  BY LenProperties
<1>2. IsFiniteSet(1..Len(s))
  BY <1>1, FS_Interval
<1>3. Where(s, S) \in SUBSET (1..Len(s))
  BY <1>1 DEF Where
<1>4. IsFiniteSet(Where(s, S))
  BY <1>2, <1>3, FS_Subset
<1> QED BY <1>4, FS_CardinalityType, FS_EmptySet DEF Number

LEMMA NumberAppended ==
  ASSUME NEW T, NEW s \in Seq(T), NEW x \in T, NEW S
  PROVE  /\ Append(s, x) \in Seq(T) /\ Number(s, S) \in Nat
         /\ Number(Append(s, x), S) = Number(s, S) + (IF x \in S THEN 1 ELSE 0)
<1> DEFINE t == Append(s, x)
<1>1. PICK n \in Nat : n = Len(s) /\ DOMAIN s = 1..n
  BY LenProperties
<1>2. t \in Seq(T) /\ DOMAIN t = 1..(n + 1) /\ t[n + 1] = x /\ \A i \in 1..n : t[i] = s[i]
  <2>1. t \in Seq(T) /\ Len(t) = n + 1 /\ t[n + 1] = x /\ \A i \in 1..n : t[i] = s[i]
    BY <1>1, AppendProperties
  <2> QED BY <2>1, LenProperties
<1> HIDE DEF t
<1>3. IsFiniteSet(Where(s, S)) /\ n + 1 \notin Where(s, S) /\ Number(s, S) \in Nat
  <2>1. IsFiniteSet(Where(s, S)) /\ Number(s, S) \in Nat
    BY NumberIsNat
  <2>2. n + 1 \notin Where(s, S)
    BY <1>1 DEF Where
  <2> QED BY <2>1, <2>2
<1>4. 1..(n + 1) = (1..n) \cup {n + 1}
  BY <1>1
<1>5. CASE x \in S
  <2>1. Where(t, S) = Where(s, S) \cup {n + 1}
    BY <1>1, <1>2, <1>4, <1>5 DEF Where
  <2>2. Cardinality(Where(s, S) \cup {n + 1}) = Cardinality(Where(s, S)) + 1
    BY <1>3, FS_AddElement
  <2> QED BY <1>2, <1>3, <1>5, <2>1, <2>2 DEF Number, t
<1>6. CASE x \notin S
  <2>1. Where(t, S) = Where(s, S)
    BY <1>1, <1>2, <1>4, <1>6 DEF Where
  <2> QED BY <1>2, <1>3, <1>6, <2>1 DEF Number, t
<1> QED BY <1>5, <1>6

LEMMA NumberParts ==
  ASSUME NEW T, NEW s \in Seq(T), NEW S, NEW R, S \cap R = {}
  PROVE  Number(s, S \cup R) = Number(s, S) + Number(s, R)
<1>1. Where(s, S \cup R) = Where(s, S) \cup Where(s, R) /\ Where(s, S) \cap Where(s, R) = {}
  BY DEF Where
<1>2. IsFiniteSet(Where(s, S)) /\ IsFiniteSet(Where(s, R)) /\ Number(s, S) \in Nat /\ Number(s, R) \in Nat
  BY NumberIsNat
<1>3. Cardinality(Where(s, S) \cup Where(s, R)) = Cardinality(Where(s, S)) + Cardinality(Where(s, R)) - Cardinality({})
  BY <1>1, <1>2, FS_Union
<1>4. Cardinality({}) = 0
  BY FS_EmptySet
<1>5. PICK a \in Nat, b \in Nat : a = Cardinality(Where(s, S)) /\ b = Cardinality(Where(s, R))
  BY <1>2 DEF Number
<1>6. Cardinality(Where(s, S) \cup Where(s, R)) = a + b
  BY <1>3, <1>4, <1>5
<1> QED BY <1>1, <1>5, <1>6 DEF Number

\* Leaving out a beginning of which no element counts.
RestOf(rest, s, k) ==
  /\ s \in Seq(Nat) /\ rest \in Seq(Nat) /\ k \in Nat
  /\ k <= Len(s) /\ Len(rest) = Len(s) - k /\ \A i \in 1..Len(rest) : rest[i] = s[k + i]

LEMMA NumberOfRest ==
  ASSUME NEW s, NEW rest, NEW k, RestOf(rest, s, k), NEW S, \A i \in 1..k : s[i] \notin S
  PROVE  Number(rest, S) = Number(s, S)
<1>0. s \in Seq(Nat) /\ rest \in Seq(Nat)
  BY Zenon DEF RestOf
<1>5. k \in Nat /\ k <= Len(s) /\ Len(rest) = Len(s) - k
  BY Zenon DEF RestOf
<1>6. \A i \in 1..Len(rest) : rest[i] = s[k + i]
  BY Zenon DEF RestOf
<1>1. PICK n \in Nat, m \in Nat :
        n = Len(s) /\ DOMAIN s = 1..n /\ m = Len(rest) /\ DOMAIN rest = 1..m /\ n = k + m
  <2>1. Len(s) \in Nat /\ DOMAIN s = 1..Len(s) /\ Len(rest) \in Nat /\ DOMAIN rest = 1..Len(rest)
    BY <1>0, LenProperties
  <2>2. Len(s) = k + Len(rest)
    BY <1>5, <2>1
  <2> QED BY <2>1, <2>2
<1> DEFINE f == [i \in Where(rest, S) |-> i + k]
<1>2. f \in Bijection(Where(rest, S), Where(s, S))
  <2>1. ASSUME NEW i \in Where(rest, S) PROVE i + k \in Where(s, S)
    <3>1. i \in 1..m /\ rest[i] \in S /\ i + k \in 1..n /\ k + i = i + k
      <4>1. i \in 1..m /\ rest[i] \in S
        BY <1>1 DEF Where
      <4> QED BY <1>1, <1>5, <4>1
    <3>2. s[i + k] \in S
      BY <1>1, <1>6, <3>1
    <3> QED BY <1>1, <3>1, <3>2 DEF Where
  <2>2. ASSUME NEW i \in Where(s, S) PROVE \E j \in Where(rest, S) : j + k = i
    <3>1. i \in 1..n /\ s[i] \in S
      BY <1>1 DEF Where
    <3>2. i > k
      BY <1>5, <3>1
    <3>3. i - k \in 1..m /\ k + (i - k) = i /\ (i - k) + k = i
      BY <1>1, <1>5, <3>1, <3>2
    <3>4. rest[i - k] = s[i]
      BY <1>1, <1>6, <3>3
    <3>5. i - k \in Where(rest, S)
      BY <1>1, <3>1, <3>3, <3>4 DEF Where
    <3> QED BY <3>3, <3>5
  <2>3. \A i, j \in Where(rest, S) : i + k = j + k => i = j
    BY <1>1, <1>5 DEF Where
  <2>4. f \in [Where(rest, S) -> Where(s, S)] /\ \A i, j \in Where(rest, S) : f[i] = f[j] => i = j
    BY <2>1, <2>3
  <2>5. \A i \in Where(s, S) : \E j \in Where(rest, S) : f[j] = i
    BY <2>2
  <2> QED BY <2>4, <2>5, Fun_IsBij
<1>3. ExistsBijection(Where(rest, S), Where(s, S))
  BY <1>2 DEF ExistsBijection
<1> QED BY <1>0, <1>3, NumberIsNat, FS_Bijection DEF Number
-----------------------------------------------------------------------------
(* The meters, one observation at a time. *)

MeterRows == [event : Traffic, at : Nat]
RowsTo(d) == {row \in MeterRows : row.event.dest = d}
RowsDenied(r) == {row \in MeterRows : row.event.verdict = r}
RowsIn(i) == {row \in MeterRows : BucketOf(row.event.took) = i}
RowsWithin(i) == {row \in MeterRows : i # 0 /\ row.event.took <= Bounds[i]}
RowsActive(u) == {row \in MeterRows : /\ row.event.verdict = "SUCCESS" /\ row.event.dest \in EphemeralSet
                                      /\ u <= row.at + Window}
Recently(u) == {at \in Nat : u <= at + Window}

CountsAre(c, logged) ==
  /\ c \in [total : Nat, routed : Nat, blocked : Nat, failed : Nat, cost : Nat]
  /\ c.total = Len(logged) /\ c.routed + c.blocked + c.failed = Len(logged) /\ c.cost = CostOf(logged)
DestsAre(f, logged) == f \in [Destinations -> Nat] /\ \A d \in Destinations : f[d] = Number(logged, RowsTo(d))
DeniesAre(f, logged) == f \in [Reasons -> Nat] /\ \A r \in Reasons : f[r] = Number(logged, RowsDenied(r))
BucketsAre(f, logged) ==
  /\ f \in [1..(Len(Bounds) + 1) -> Nat]
  /\ \A i \in 1..(Len(Bounds) + 1) : f[i] = Number(logged, RowsIn(i))
SpawnsAre(times, logged, now) ==
  /\ times \in Seq(Nat) /\ \A i, j \in 1..Len(times) : i < j => times[i] <= times[j]
  /\ \A i \in 1..Len(times) : times[i] <= now
  /\ \A u \in Nat : now <= u => Number(times, Recently(u)) = Number(logged, RowsActive(u))
RingIs(cells, at, full, traced) ==
  /\ cells \in [0..(Capacity - 1) -> Traffic \cup {NoSpan}] /\ at \in 0..(Capacity - 1)
  /\ full = IF Len(traced) < Capacity THEN Len(traced) ELSE Capacity
  /\ full < Capacity => at = full
  /\ \A i \in 0..(Capacity - 1) :
       /\ i < at => cells[i] = traced[Len(traced) - at + i + 1].event
       /\ at <= i /\ full = Capacity => cells[i] = traced[Len(traced) - at - Capacity + i + 1].event

LEMMA EventIs ==
  ASSUME NEW e \in Traffic
  PROVE  e.dest \in Destinations /\ e.verdict \in Verdicts /\ e.cost \in Nat /\ e.took \in Nat
BY TrafficAssumption

LEMMA CostGrows ==
  ASSUME NEW logged \in Seq(MeterRows), NEW row \in MeterRows
  PROVE  CostOf(Append(logged, row)) = CostOf(logged) + row.event.cost /\ CostOf(logged) \in Nat
<1> DEFINE cost(seq) == [i \in DOMAIN seq |-> seq[i].event.cost]
           more == Append(logged, row)
<1>1. PICK n \in Nat : n = Len(logged) /\ DOMAIN logged = 1..n
  BY LenProperties
<1>2. DOMAIN more = 1..(n + 1) /\ Len(more) = n + 1 /\ more[n + 1] = row /\ \A i \in 1..n : more[i] = logged[i]
  <2>1. Len(more) = n + 1 /\ more[n + 1] = row /\ (\A i \in 1..n : more[i] = logged[i]) /\ more \in Seq(MeterRows)
    BY <1>1, AppendProperties
  <2> QED BY <2>1, LenProperties
<1>3. \A i \in 1..n : logged[i] \in MeterRows
  BY <1>1
<1>4. \A i \in 1..n : logged[i].event.cost \in Nat /\ row.event.cost \in Nat
  BY <1>3, EventIs DEF MeterRows
<1>5. row.event.cost \in Nat
  BY EventIs DEF MeterRows
<1> HIDE DEF more
<1>6. \A i \in 1..n : cost(more)[i] = cost(logged)[i] /\ cost(more)[i] \in Nat
  BY <1>1, <1>2, <1>4
<1>7. cost(more)[n + 1] = row.event.cost
  BY <1>2
<1> HIDE DEF cost
<1>8. \A i \in 1..(n + 1) : cost(more)[i] \in Nat
  <2> SUFFICES ASSUME NEW i \in 1..(n + 1) PROVE cost(more)[i] \in Nat
    OBVIOUS
  <2>1. i = n + 1 \/ i \in 1..n
    OBVIOUS
  <2> QED BY <1>5, <1>6, <1>7, <2>1
<1>9. Summed(cost(more), n + 1) = Summed(cost(more), n) + cost(more)[n + 1]
  BY <1>8, SummedIs
<1>10. Summed(cost(more), n) = Summed(cost(logged), n) /\ Summed(cost(more), n) \in Nat
  BY <1>6, SummedSame
<1>11. CostOf(more) = Summed(cost(more), n + 1) /\ CostOf(logged) = Summed(cost(logged), n)
  BY <1>1, <1>2 DEF CostOf, cost
<1> QED BY <1>7, <1>9, <1>10, <1>11 DEF more

LEMMA CountStep ==
  ASSUME NEW logged \in Seq(MeterRows), NEW row \in MeterRows, NEW c, CountsAre(c, logged)
  PROVE  CountsAre(CountIn(c, row.event), Append(logged, row))
<1>1. PICK e \in Traffic : e = row.event
  BY DEF MeterRows
<1>2. e.verdict \in Verdicts /\ e.cost \in Nat
  BY EventIs
<1>3. PICK n \in Nat : n = Len(logged) /\ Len(Append(logged, row)) = n + 1
  BY AppendProperties, LenProperties
<1>4. PICK r \in Nat, b \in Nat, f \in Nat, p \in Nat :
        r = c.routed /\ b = c.blocked /\ f = c.failed /\ p = c.cost
  BY DEF CountsAre
<1>5. c.total = n /\ r + b + f = n /\ p = CostOf(logged)
  BY <1>3, <1>4 DEF CountsAre
<1>6. PICK a \in {0, 1}, d \in {0, 1}, g \in {0, 1} :
        /\ a = (IF e.verdict = "SUCCESS" THEN 1 ELSE 0) /\ d = (IF e.verdict \in Reasons THEN 1 ELSE 0)
        /\ g = (IF e.verdict = "FAILED" THEN 1 ELSE 0)
  OBVIOUS
<1>7. a + d + g = 1
  BY <1>2, <1>6 DEF Verdicts, Reasons
<1>8. CountIn(c, e) = [total |-> n + 1, routed |-> r + a, blocked |-> b + d, failed |-> f + g, cost |-> p + e.cost]
  BY <1>4, <1>5, <1>6 DEF CountIn
<1>9. (r + a) + (b + d) + (f + g) = n + 1
  BY <1>5, <1>7
<1>10. p + e.cost = CostOf(Append(logged, row))
  BY <1>1, <1>5, CostGrows
<1>11. n + 1 \in Nat /\ r + a \in Nat /\ b + d \in Nat /\ f + g \in Nat /\ p + e.cost \in Nat
  BY <1>2
<1> QED BY <1>1, <1>3, <1>8, <1>9, <1>10, <1>11 DEF CountsAre

LEMMA DestStep ==
  ASSUME NEW logged \in Seq(MeterRows), NEW row \in MeterRows, NEW f, DestsAre(f, logged)
  PROVE  DestsAre([f EXCEPT ![row.event.dest] = @ + 1], Append(logged, row))
<1>1. PICK d \in Destinations : d = row.event.dest
  BY EventIs DEF MeterRows
<1>2. \A k \in Destinations : /\ Number(logged, RowsTo(k)) \in Nat
                              /\ Number(Append(logged, row), RowsTo(k)) = Number(logged, RowsTo(k)) + IF k = d THEN 1 ELSE 0
  <2> SUFFICES ASSUME NEW k \in Destinations
               PROVE  /\ Number(logged, RowsTo(k)) \in Nat
                      /\ Number(Append(logged, row), RowsTo(k)) = Number(logged, RowsTo(k)) + IF k = d THEN 1 ELSE 0
    OBVIOUS
  <2>1. row \in RowsTo(k) <=> k = d
    BY <1>1 DEF RowsTo
  <2> QED BY <2>1, NumberAppended
<1>3. f \in [Destinations -> Nat] /\ \A k \in Destinations : f[k] = Number(logged, RowsTo(k))
  BY DEF DestsAre
<1>4. [f EXCEPT ![d] = @ + 1] \in [Destinations -> Nat]
  BY <1>3
<1>5. \A k \in Destinations : [f EXCEPT ![d] = @ + 1][k] = Number(Append(logged, row), RowsTo(k))
  BY <1>2, <1>3
<1> QED BY <1>1, <1>4, <1>5 DEF DestsAre

LEMMA DenyStep ==
  ASSUME NEW logged \in Seq(MeterRows), NEW row \in MeterRows, NEW f, DeniesAre(f, logged)
  PROVE  DeniesAre(IF row.event.verdict \in Reasons THEN [f EXCEPT ![row.event.verdict] = @ + 1] ELSE f,
                   Append(logged, row))
<1>1. PICK d : d = row.event.verdict
  OBVIOUS
<1>2. \A k \in Reasons : /\ Number(logged, RowsDenied(k)) \in Nat
                         /\ Number(Append(logged, row), RowsDenied(k)) = Number(logged, RowsDenied(k)) + IF k = d THEN 1 ELSE 0
  <2> SUFFICES ASSUME NEW k \in Reasons
               PROVE  /\ Number(logged, RowsDenied(k)) \in Nat
                      /\ Number(Append(logged, row), RowsDenied(k)) = Number(logged, RowsDenied(k)) + IF k = d THEN 1 ELSE 0
    OBVIOUS
  <2>1. row \in RowsDenied(k) <=> k = d
    BY <1>1 DEF RowsDenied
  <2> QED BY <2>1, NumberAppended
<1>3. f \in [Reasons -> Nat] /\ \A k \in Reasons : f[k] = Number(logged, RowsDenied(k))
  BY DEF DeniesAre
<1>4. CASE d \in Reasons
  <2>1. [f EXCEPT ![d] = @ + 1] \in [Reasons -> Nat]
    BY <1>3, <1>4
  <2>2. \A k \in Reasons : [f EXCEPT ![d] = @ + 1][k] = Number(Append(logged, row), RowsDenied(k))
    BY <1>2, <1>3, <1>4
  <2> QED BY <1>1, <1>4, <2>1, <2>2 DEF DeniesAre
<1>5. CASE d \notin Reasons
  <2>1. \A k \in Reasons : f[k] = Number(Append(logged, row), RowsDenied(k))
    BY <1>2, <1>3, <1>5
  <2> QED BY <1>1, <1>3, <1>5, <2>1 DEF DeniesAre
<1> QED BY <1>4, <1>5

LEMMA Smallest ==
  ASSUME NEW S, S \subseteq Nat, S # {}
  PROVE  Min(S) \in S /\ \A x \in S : Min(S) <= x
<1>1. \E x \in S : \A y \in S : x <= y
  BY LeastNumber
<1> QED BY <1>1 DEF Min

LEMMA BucketIs ==
  ASSUME NEW took \in Nat
  PROVE  /\ BucketOf(took) \in 1..(Len(Bounds) + 1)
         /\ \A i \in 1..Len(Bounds) : BucketOf(took) = i <=>
              took <= Bounds[i] /\ (i # 1 => ~(took <= Bounds[i - 1]))
<1> DEFINE fits == {i \in DOMAIN Bounds : took <= Bounds[i]}
<1>1. PICK n \in Nat : n = Len(Bounds) /\ DOMAIN Bounds = 1..n
  BY BucketsAssumption, LenProperties
<1>2. \A i \in 1..n : Bounds[i] \in Nat
  BY <1>1, BucketsAssumption
<1>3. BucketOf(took) = IF fits = {} THEN n + 1 ELSE Min(fits)
  BY <1>1 DEF BucketOf
<1>4. \A i \in fits : i \in 1..n /\ took <= Bounds[i]
  BY <1>1
<1>5. \A i \in 1..n : i \in fits <=> took <= Bounds[i]
  BY <1>1
<1> HIDE DEF fits
<1>6. fits # {} => Min(fits) \in fits /\ \A x \in fits : Min(fits) <= x
  <2>1. fits \subseteq Nat
    BY <1>4
  <2> QED BY <2>1, Smallest
<1>7. BucketOf(took) \in 1..(n + 1)
  BY <1>3, <1>4, <1>6
<1>8. ASSUME NEW i \in 1..n
      PROVE  BucketOf(took) = i <=> took <= Bounds[i] /\ (i # 1 => ~(took <= Bounds[i - 1]))
  <2>1. ASSUME BucketOf(took) = i PROVE took <= Bounds[i] /\ (i # 1 => ~(took <= Bounds[i - 1]))
    <3>1. fits # {} /\ i \in fits /\ \A x \in fits : i <= x
      BY <1>3, <1>6, <2>1
    <3>2. i # 1 => i - 1 \in 1..n /\ ~(i <= i - 1)
      OBVIOUS
    <3> QED BY <1>5, <3>1, <3>2
  <2>2. ASSUME took <= Bounds[i], i # 1 => ~(took <= Bounds[i - 1]) PROVE BucketOf(took) = i
    <3>1. i \in fits
      BY <1>5, <2>2
    <3>2. Min(fits) \in fits /\ Min(fits) <= i /\ Min(fits) \in 1..n /\ BucketOf(took) = Min(fits)
      BY <1>3, <1>4, <1>6, <3>1
    <3>3. ~(Min(fits) < i)
      <4> SUFFICES ASSUME Min(fits) < i PROVE FALSE
        OBVIOUS
      <4>1. PICK m \in 1..n : m = Min(fits)
        BY <3>2
      <4>2. took <= Bounds[m] /\ i # 1 /\ i - 1 \in 1..n /\ m <= i - 1
        BY <1>4, <3>2, <4>1
      <4>3. Bounds[m] <= Bounds[i - 1]
        <5>1. CASE m = i - 1
          BY <1>2, <4>2, <5>1
        <5>2. CASE m < i - 1
          <6>1. Bounds[m] < Bounds[i - 1]
            BY <1>1, <4>2, <5>2, BucketsAssumption
          <6> QED BY <1>2, <4>2, <6>1
        <5> QED BY <4>2, <5>1, <5>2
      <4>4. took <= Bounds[i - 1]
        BY <1>2, <4>2, <4>3
      <4> QED BY <2>2, <4>2, <4>4
    <3> QED BY <3>2, <3>3
  <2> QED BY <2>1, <2>2
<1> QED BY <1>1, <1>7, <1>8

LEMMA BucketStep ==
  ASSUME NEW logged \in Seq(MeterRows), NEW row \in MeterRows, NEW f, BucketsAre(f, logged)
  PROVE  BucketsAre([f EXCEPT ![BucketOf(row.event.took)] = @ + 1], Append(logged, row))
<1> DEFINE all == 1..(Len(Bounds) + 1)
<1>1. PICK d \in all : d = BucketOf(row.event.took)
  <2>1. row.event.took \in Nat
    BY EventIs DEF MeterRows
  <2> QED BY <2>1, BucketIs
<1>2. f \in [all -> Nat] /\ \A k \in all : f[k] = Number(logged, RowsIn(k))
  BY DEF BucketsAre
<1> HIDE DEF all
<1>3. \A k \in all : /\ Number(logged, RowsIn(k)) \in Nat
                     /\ Number(Append(logged, row), RowsIn(k)) = Number(logged, RowsIn(k)) + IF k = d THEN 1 ELSE 0
  <2> SUFFICES ASSUME NEW k \in all
               PROVE  /\ Number(logged, RowsIn(k)) \in Nat
                      /\ Number(Append(logged, row), RowsIn(k)) = Number(logged, RowsIn(k)) + IF k = d THEN 1 ELSE 0
    OBVIOUS
  <2>1. row \in RowsIn(k) <=> k = d
    BY <1>1 DEF RowsIn
  <2> QED BY <2>1, NumberAppended
<1>4. [f EXCEPT ![d] = @ + 1] \in [all -> Nat]
  BY <1>2
<1>5. \A k \in all : [f EXCEPT ![d] = @ + 1][k] = Number(Append(logged, row), RowsIn(k))
  BY <1>2, <1>3
<1> QED BY <1>1, <1>4, <1>5 DEF BucketsAre, all

\* The times that pruneSpawns leaves: nothing that it drops counts, now or later.
LEMMA PruneIs ==
  ASSUME NEW times \in Seq(Nat), \A i, j \in 1..Len(times) : i < j => times[i] <= times[j],
         \A i \in 1..Len(times) : times[i] <= instant, instant \in Nat
  PROVE  /\ Prune(times) \in Seq(Nat)
         /\ \A i, j \in 1..Len(Prune(times)) : i < j => Prune(times)[i] <= Prune(times)[j]
         /\ \A i \in 1..Len(Prune(times)) : Prune(times)[i] <= instant /\ instant <= Prune(times)[i] + Window
         /\ \A u \in Nat : instant <= u => Number(Prune(times), Recently(u)) = Number(times, Recently(u))
<1> DEFINE kept == {i \in DOMAIN times : instant <= times[i] + Window}  rest == Prune(times)
<1>1. PICK n \in Nat : n = Len(times) /\ DOMAIN times = 1..n
  BY LenProperties
<1>2. \A i \in 1..n : times[i] \in Nat /\ (i \in kept <=> instant <= times[i] + Window)
  BY <1>1
<1>3. kept \subseteq 1..n /\ rest = IF kept = {} THEN <<>> ELSE SubSeq(times, Min(kept), n)
  BY <1>1 DEF Prune, From
<1> HIDE DEF kept, rest
<1>4. CASE kept = {}
  <2>1. rest = <<>> /\ rest \in Seq(Nat) /\ Len(rest) = 0
    BY <1>3, <1>4
  <2>2. ASSUME NEW u \in Nat, instant <= u PROVE Number(rest, Recently(u)) = Number(times, Recently(u))
    <3>1. \A i \in 1..n : times[i] \notin Recently(u)
      <4> SUFFICES ASSUME NEW i \in 1..n PROVE times[i] \notin Recently(u)
        OBVIOUS
      <4>1. ~(instant <= times[i] + Window) /\ times[i] + Window \in Nat
        BY <1>2, <1>4, CapacityAssumption
      <4> QED BY <2>2, <4>1 DEF Recently
    <3>2. Where(times, Recently(u)) = {} /\ Where(rest, Recently(u)) = {}
      BY <1>1, <2>1, <3>1 DEF Where
    <3> QED BY <3>2 DEF Number
  <2> QED BY <2>1, <2>2 DEF rest
<1>5. CASE kept # {}
  <2>1. PICK m \in 1..n : m \in kept /\ (\A x \in kept : m <= x) /\ rest = SubSeq(times, m, n)
    <3>1. kept \subseteq Nat
      BY <1>3
    <3>2. Min(kept) \in kept /\ \A x \in kept : Min(kept) <= x
      BY <1>5, <3>1, Smallest
    <3> QED BY <1>3, <1>5, <3>2
  <2>2. rest \in Seq(Nat) /\ Len(rest) = n - m + 1 /\ \A i \in 1..(n - m + 1) : rest[i] = times[m + i - 1]
    BY <1>2, <2>1, SubSeqProperties
  <2>3. PICK k \in Nat : k = m - 1 /\ k <= n /\ Len(rest) = n - k /\ \A i \in 1..Len(rest) : rest[i] = times[k + i]
    <3>1. m - 1 \in Nat /\ m - 1 <= n /\ n - m + 1 = n - (m - 1)
      OBVIOUS
    <3>2. \A i \in 1..(n - m + 1) : m + i - 1 = (m - 1) + i
      OBVIOUS
    <3> QED BY <2>2, <3>1, <3>2
  <2>4. \A i \in 1..Len(rest) : k + i \in 1..n
    BY <2>3
  <2>5. \A i \in 1..n : i <= k <=> ~(instant <= times[i] + Window)
    <3> SUFFICES ASSUME NEW i \in 1..n PROVE i <= k <=> ~(instant <= times[i] + Window)
      OBVIOUS
    <3>1. CASE i <= k
      <4>1. i \notin kept
        BY <2>1, <2>3, <3>1
      <4> QED BY <1>2, <3>1, <4>1
    <3>2. CASE ~(i <= k)
      <4>1. m <= i
        BY <2>3, <3>2
      <4>2. times[m] <= times[i]
        BY <1>1, <1>2, <4>1
      <4>3. instant <= times[m] + Window
        BY <1>2, <2>1
      <4>4. instant <= times[i] + Window
        BY <1>2, <4>2, <4>3, CapacityAssumption
      <4> QED BY <3>2, <4>4
    <3> QED BY <3>1, <3>2
  <2>6. ASSUME NEW i \in 1..Len(rest), NEW j \in 1..Len(rest), i < j PROVE rest[i] <= rest[j]
    <3>1. k + i < k + j
      BY <2>6, <2>3
    <3> QED BY <1>1, <2>3, <2>4, <3>1
  <2>7. ASSUME NEW i \in 1..Len(rest) PROVE rest[i] <= instant /\ instant <= rest[i] + Window
    <3>1. ~(k + i <= k)
      BY <2>3
    <3> QED BY <1>1, <2>3, <2>4, <2>5, <3>1
  <2>8. ASSUME NEW u \in Nat, instant <= u PROVE Number(rest, Recently(u)) = Number(times, Recently(u))
    <3>1. \A i \in 1..k : times[i] \notin Recently(u)
      <4> SUFFICES ASSUME NEW i \in 1..k PROVE times[i] \notin Recently(u)
        OBVIOUS
      <4>1. i \in 1..n /\ i <= k
        BY <2>3
      <4>2. ~(instant <= times[i] + Window) /\ times[i] + Window \in Nat
        BY <1>2, <2>5, <4>1, CapacityAssumption
      <4> QED BY <2>8, <4>2 DEF Recently
    <3> HIDE DEF rest
    <3>2. RestOf(rest, times, k)
      BY <1>1, <2>2, <2>3 DEF RestOf
    <3> QED BY <3>1, <3>2, NumberOfRest
  <2> QED BY <2>2, <2>6, <2>7, <2>8 DEF rest
<1> QED BY <1>4, <1>5

LEMMA SpawnStep ==
  ASSUME instant \in Nat, NEW logged \in Seq(MeterRows), NEW row \in MeterRows, row.at = instant,
         SpawnsAre(spawns, logged, instant)
  PROVE  SpawnsAre(IF row.event.verdict = "SUCCESS" /\ row.event.dest \in EphemeralSet
                   THEN Prune(Append(spawns, instant)) ELSE spawns, Append(logged, row), instant)
<1>1. PICK n \in Nat : n = Len(spawns) /\ DOMAIN spawns = 1..n
  BY LenProperties DEF SpawnsAre
<1>2. /\ spawns \in Seq(Nat) /\ \A i, j \in 1..n : i < j => spawns[i] <= spawns[j]
      /\ \A i \in 1..n : spawns[i] <= instant
      /\ \A u \in Nat : instant <= u => Number(spawns, Recently(u)) = Number(logged, RowsActive(u))
  BY <1>1 DEF SpawnsAre
<1>3. \A u : /\ Number(logged, RowsActive(u)) \in Nat
             /\ Number(Append(logged, row), RowsActive(u)) = Number(logged, RowsActive(u)) + IF row \in RowsActive(u) THEN 1 ELSE 0
  BY NumberAppended
<1>4. CASE row.event.verdict = "SUCCESS" /\ row.event.dest \in EphemeralSet
  <2> DEFINE more == Append(spawns, instant)
  <2>1. more \in Seq(Nat) /\ Len(more) = n + 1 /\ more[n + 1] = instant /\ \A i \in 1..n : more[i] = spawns[i]
    BY <1>1, <1>2, AppendProperties
  <2>2. ASSUME NEW u \in Nat
        PROVE  Number(more, Recently(u)) = Number(spawns, Recently(u)) + IF instant \in Recently(u) THEN 1 ELSE 0
    <3>1. PICK T : T = Nat
      OBVIOUS
    <3>2. spawns \in Seq(T) /\ instant \in T
      BY <1>2, <3>1
    <3> QED BY ONLY <3>2, NumberAppended
  <2> HIDE DEF more
  <2>3. ASSUME NEW i \in 1..Len(more), NEW j \in 1..Len(more), i < j PROVE more[i] <= more[j]
    <3>1. i \in 1..n /\ (j \in 1..n \/ j = n + 1)
      BY <2>1, <2>3
    <3> QED BY <1>2, <2>1, <2>3, <3>1
  <2>4. ASSUME NEW i \in 1..Len(more) PROVE more[i] <= instant
    <3>1. i \in 1..n \/ i = n + 1
      BY <2>1
    <3> QED BY <1>2, <2>1, <3>1
  <2>5. /\ Prune(more) \in Seq(Nat)
        /\ \A i, j \in 1..Len(Prune(more)) : i < j => Prune(more)[i] <= Prune(more)[j]
        /\ \A i \in 1..Len(Prune(more)) : Prune(more)[i] <= instant /\ instant <= Prune(more)[i] + Window
        /\ \A u \in Nat : instant <= u => Number(Prune(more), Recently(u)) = Number(more, Recently(u))
    BY <2>1, <2>3, <2>4, PruneIs
  <2>6. ASSUME NEW u \in Nat, instant <= u
        PROVE  Number(Prune(more), Recently(u)) = Number(Append(logged, row), RowsActive(u))
    <3>1. row \in RowsActive(u) <=> instant \in Recently(u)
      BY <1>4 DEF RowsActive, Recently
    <3> QED BY <1>2, <1>3, <2>2, <2>5, <2>6, <3>1
  <2> QED BY <1>4, <2>5, <2>6 DEF SpawnsAre, more
<1>5. CASE ~(row.event.verdict = "SUCCESS" /\ row.event.dest \in EphemeralSet)
  <2>1. \A u : row \notin RowsActive(u)
    BY <1>5 DEF RowsActive
  <2>2. \A u \in Nat : instant <= u => Number(spawns, Recently(u)) = Number(Append(logged, row), RowsActive(u))
    BY <1>2, <1>3, <2>1
  <2> QED BY <1>1, <1>2, <1>5, <2>2 DEF SpawnsAre
<1> QED BY <1>4, <1>5

LEMMA Around ==
  ASSUME NEW x \in Nat, NEW p \in Nat \ {0}, x < p + p
  PROVE  x % p = IF x < p THEN x ELSE x - p
<1>1. CASE x < p
  BY <1>1
<1>2. CASE ~(x < p)
  <2>1. x % p \in Nat /\ x % p < p /\ x \div p \in Nat /\ x = (p * (x \div p)) + (x % p)
    OBVIOUS
  <2>2. PICK q \in Nat, r \in Nat : q = x \div p /\ r = x % p
    BY <2>1
  <2>3. x = p * q + r /\ r < p
    BY <2>1, <2>2
  <2>4. q = 1
    <3>1. q # 0
      <4> SUFFICES ASSUME q = 0 PROVE FALSE
        OBVIOUS
      <4>1. p * q = 0
        OBVIOUS
      <4> QED BY <1>2, <2>3, <4>1
    <3>2. q < 2
      <4> SUFFICES ASSUME q >= 2 PROVE FALSE
        BY <2>2
      <4>1. PICK k \in Nat : q = k + 2
        <5>1. q - 2 \in Nat /\ q = (q - 2) + 2
          OBVIOUS
        <5> QED BY <5>1
      <4>2. p * q = p * k + (p + p) /\ p * k \in Nat
        BY <4>1
      <4> QED BY <2>3, <4>2
    <3> QED BY <3>1, <3>2
  <2>5. p * q = p
    BY <2>4
  <2> QED BY <1>2, <2>2, <2>3, <2>5
<1> QED BY <1>1, <1>2

LEMMA RingStep ==
  ASSUME NEW traced \in Seq(MeterRows), NEW row \in MeterRows, NEW cells, NEW at, NEW full,
         RingIs(cells, at, full, traced)
  PROVE  RingIs([cells EXCEPT ![at] = row.event], (at + 1) % Capacity,
                IF full < Capacity THEN full + 1 ELSE full, Append(traced, row))
<1> DEFINE more == Append(traced, row)  new == [cells EXCEPT ![at] = row.event]
           next == (at + 1) % Capacity  now == IF full < Capacity THEN full + 1 ELSE full
<1>1. PICK n \in Nat : n = Len(traced)
  BY LenProperties
<1>2. Len(more) = n + 1 /\ more[n + 1] = row /\ \A i \in 1..n : more[i] = traced[i]
  BY <1>1, AppendProperties
<1>3. /\ cells \in [0..(Capacity - 1) -> Traffic \cup {NoSpan}] /\ at \in 0..(Capacity - 1)
      /\ full = IF n < Capacity THEN n ELSE Capacity
      /\ full < Capacity => at = full
  BY <1>1 DEF RingIs
<1>4. \A i \in 0..(Capacity - 1) :
        /\ i < at => cells[i] = traced[n - at + i + 1].event
        /\ at <= i /\ full = Capacity => cells[i] = traced[n - at - Capacity + i + 1].event
  BY <1>1 DEF RingIs
<1>5. Capacity \in Nat \ {0} /\ at \in Nat /\ at < Capacity /\ full \in Nat /\ full <= Capacity
  BY <1>3, CapacityAssumption
<1>6. next = IF at + 1 = Capacity THEN 0 ELSE at + 1
  <2>1. at + 1 \in Nat /\ at + 1 < Capacity + Capacity
    BY <1>5
  <2>2. (at + 1) % Capacity = IF at + 1 < Capacity THEN at + 1 ELSE (at + 1) - Capacity
    BY <1>5, <2>1, Around
  <2> QED BY <1>5, <2>2
<1>7. new \in [0..(Capacity - 1) -> Traffic \cup {NoSpan}] /\ new[at] = row.event
      /\ \A i \in 0..(Capacity - 1) : i # at => new[i] = cells[i]
  BY <1>3 DEF MeterRows
<1>8. now = IF n + 1 < Capacity THEN n + 1 ELSE Capacity
  BY <1>3, <1>5
<1>9. now < Capacity => next = now
  BY <1>3, <1>5, <1>6
<1>10. full # Capacity => at = n
  BY <1>3, <1>5
<1> HIDE DEF more, new, next, now
<1>11. at <= n
  BY <1>3, <1>5
<1>12. full = Capacity => Capacity <= n
  BY <1>3, <1>5
<1>13. ASSUME NEW i \in 0..(Capacity - 1), i < next PROVE new[i] = more[(n + 1) - next + i + 1].event
  <2>1. next = at + 1 /\ (n + 1) - next + i + 1 = n - at + i + 1
    BY <1>5, <1>6, <1>13
  <2>2. CASE i = at
    <3>1. n - at + i + 1 = n + 1
      BY <1>5, <2>2
    <3> QED BY <1>2, <1>7, <2>1, <2>2, <3>1
  <2>3. CASE i # at
    <3>1. i < at /\ n - at + i + 1 \in 1..n
      BY <1>5, <1>11, <1>13, <2>1, <2>3
    <3> QED BY <1>2, <1>4, <1>7, <2>1, <2>3, <3>1
  <2> QED BY <2>2, <2>3
<1>14. ASSUME NEW i \in 0..(Capacity - 1), next <= i, now = Capacity
       PROVE  new[i] = more[(n + 1) - next - Capacity + i + 1].event
  <2>1. CASE at + 1 = Capacity
    <3>1. next = 0 /\ (n + 1) - next - Capacity + i + 1 = n - at + i + 1
      BY <1>5, <1>6, <2>1
    <3>2. CASE i = at
      <4>1. n - at + i + 1 = n + 1
        BY <1>5, <3>2
      <4> QED BY <1>2, <1>7, <3>1, <3>2, <4>1
    <3>3. CASE i # at
      <4>1. i < at /\ n - at + i + 1 \in 1..n
        BY <1>5, <1>11, <2>1, <3>3
      <4> QED BY <1>2, <1>4, <1>7, <3>1, <3>3, <4>1
    <3> QED BY <3>2, <3>3
  <2>2. CASE at + 1 # Capacity
    <3>1. next = at + 1 /\ (n + 1) - next - Capacity + i + 1 = n - at - Capacity + i + 1
      BY <1>5, <1>6, <2>2
    <3>2. full = Capacity
      <4> SUFFICES ASSUME full # Capacity PROVE FALSE
        OBVIOUS
      <4>1. at = n /\ n + 1 < Capacity
        BY <1>5, <1>10, <2>2
      <4> QED BY <1>5, <1>8, <1>14, <4>1
    <3>3. at <= i /\ i # at /\ n - at - Capacity + i + 1 \in 1..n
      <4>1. at < i /\ i < Capacity /\ Capacity <= n /\ i \in Nat
        BY <1>5, <1>12, <1>14, <3>1, <3>2
      <4> QED BY <1>5, <4>1
    <3> QED BY <1>2, <1>4, <1>7, <3>1, <3>2, <3>3
  <2> QED BY <2>1, <2>2
<1>15. next \in 0..(Capacity - 1)
  BY <1>5, <1>6
<1>16. RingIs(new, next, now, more)
  BY <1>2, <1>7, <1>8, <1>9, <1>13, <1>14, <1>15 DEF RingIs
<1> QED BY <1>16 DEF more, new, next, now
-----------------------------------------------------------------------------
(* Tails. *)

LEMMA SuffixIs ==
  ASSUME NEW T, NEW t \in Seq(T), NEW s \in Seq(T), Len(s) <= Len(t),
         \A i \in 1..Len(s) : s[i] = t[Len(t) - Len(s) + i]
  PROVE  IsSuffix(s, t)
<1>1. PICK n \in Nat, m \in Nat : n = Len(s) /\ m = Len(t) /\ DOMAIN s = 1..n /\ DOMAIN t = 1..m
  <2>1. Len(s) \in Nat /\ Len(t) \in Nat /\ DOMAIN s = 1..Len(s) /\ DOMAIN t = 1..Len(t)
    BY LenProperties
  <2> QED BY <2>1
<1>2. PICK rs, rt : rs = Reverse(s) /\ rt = Reverse(t)
  OBVIOUS
<1>3. n <= m /\ (\A i \in 1..n : s[i] = t[m - n + i]) /\ (\A i \in 1..n : s[i] \in T) /\ (\A i \in 1..m : t[i] \in T)
  BY <1>1
<1>4. rs = [i \in 1..n |-> s[(n - i) + 1]] /\ rt = [i \in 1..m |-> t[(m - i) + 1]]
  BY <1>1, <1>2 DEF Reverse
<1>5. \A i \in 1..n : rs[i] \in T /\ rt[i] \in T /\ rs[i] = rt[i]
  <2> SUFFICES ASSUME NEW i \in 1..n PROVE rs[i] \in T /\ rt[i] \in T /\ rs[i] = rt[i]
    OBVIOUS
  <2>1. (n - i) + 1 \in 1..n /\ (m - i) + 1 \in 1..m /\ m - n + ((n - i) + 1) = (m - i) + 1 /\ i \in 1..m
    BY <1>3
  <2>2. rs[i] = s[(n - i) + 1] /\ rt[i] = t[(m - i) + 1]
    BY <1>4, <2>1
  <2>3. s[(n - i) + 1] = t[(m - i) + 1]
    BY <1>3, <2>1
  <2> QED BY <1>3, <2>1, <2>2, <2>3
<1>6. rs \in Seq(T) /\ rt \in Seq(T) /\ Len(rs) = n /\ Len(rt) = m
  <2>1. \A i \in 1..n : s[(n - i) + 1] \in T
    BY <1>3
  <2>2. \A i \in 1..m : t[(m - i) + 1] \in T
    BY <1>3
  <2>3. rs \in [1..n -> T] /\ rt \in [1..m -> T]
    BY <1>4, <2>1, <2>2
  <2>4. \A k \in Nat : [1..k -> T] \subseteq Seq(T)
    BY SeqDef
  <2>5. rs \in Seq(T) /\ rt \in Seq(T)
    BY <2>3, <2>4
  <2>6. DOMAIN rs = 1..n /\ DOMAIN rt = 1..m
    BY <2>3
  <2> QED BY <2>5, <2>6, LenProperties
<1>7. SubSeq(rs, 1, n) = SubSeq(rt, 1, n)
  <2>1. PICK u, v : u = SubSeq(rs, 1, n) /\ v = SubSeq(rt, 1, n)
    OBVIOUS
  <2>2. u \in Seq(T) /\ Len(u) = n /\ \A i \in 1..n : u[i] = rs[i]
    BY <1>5, <2>1, SubSeqProperties
  <2>3. v \in Seq(T) /\ Len(v) = n /\ \A i \in 1..n : v[i] = rt[i]
    BY <1>5, <2>1, SubSeqProperties
  <2>4. \A i \in 1..n : u[i] = v[i]
    BY <1>5, <2>2, <2>3
  <2> QED BY <2>1, <2>2, <2>3, <2>4, SeqEqual
<1> QED BY <1>2, <1>3, <1>6, <1>7 DEF IsSuffix, IsPrefix

LEMMA TailIsSuffix ==
  ASSUME NEW T, NEW t \in Seq(T), NEW n \in Nat \ {0}
  PROVE  IsSuffix(Tail0(t, n), t) /\ Len(Tail0(t, n)) <= n
<1>0. PICK m \in Nat : m = Len(t) /\ DOMAIN t = 1..m
  BY LenProperties
<1>1. PICK s : m = Len(t) /\ DOMAIN t = 1..m /\ s = Tail0(t, n)
  BY <1>0
<1>2. \A i \in 1..m : t[i] \in T
  BY <1>1
<1>3. CASE n >= m
  <2>1. s = t
    BY <1>1, <1>3 DEF Tail0
  <2>2. \A i \in 1..m : t[m - m + i] = t[i]
    OBVIOUS
  <2>3. IsSuffix(t, t)
    BY <1>1, <2>2, SuffixIs
  <2> QED BY <1>1, <1>3, <2>1, <2>3
<1>4. CASE ~(n >= m)
  <2>1. s = SubSeq(t, m - n + 1, m)
    BY <1>1, <1>4 DEF Tail0
  <2>2. m - n + 1 \in Int /\ m - (m - n + 1) + 1 = n /\ m - n + 1 <= m /\ \A i \in (m - n + 1)..m : i \in 1..m
    BY <1>4
  <2>3. s \in Seq(T) /\ Len(s) = n /\ \A i \in 1..n : s[i] = t[(m - n + 1) + i - 1]
    <3>1. PICK j \in Int : j = m - n + 1
      BY <2>2
    <3>2. \A i \in j..m : t[i] \in T
      BY <1>2, <2>2, <3>1
    <3>3. s = SubSeq(t, j, m) /\ j <= m /\ m - j + 1 = n
      BY <2>1, <2>2, <3>1
    <3>4. /\ SubSeq(t, j, m) \in Seq(T)
          /\ Len(SubSeq(t, j, m)) = IF j <= m THEN m - j + 1 ELSE 0
          /\ \A i \in 1..(m - j + 1) : SubSeq(t, j, m)[i] = t[j + i - 1]
      BY <3>2, SubSeqProperties
    <3> QED BY <3>1, <3>3, <3>4
  <2>4. \A i \in 1..n : s[i] = t[m - n + i]
    <3>1. \A i \in 1..n : (m - n + 1) + i - 1 = m - n + i
      OBVIOUS
    <3> QED BY <2>3, <3>1
  <2>5. IsSuffix(s, t)
    <3>1. s \in Seq(T) /\ Len(s) <= Len(t) /\ \A i \in 1..Len(s) : s[i] = t[Len(t) - Len(s) + i]
      BY <1>1, <1>4, <2>3, <2>4
    <3> QED BY <3>1, SuffixIs
  <2> QED BY <1>1, <2>3, <2>5
<1> QED BY <1>3, <1>4

\* What was booked since a point, with one more row.
LEMMA SinceIs ==
  ASSUME NEW T, NEW s \in Seq(T), NEW k \in 0..Len(s)
  PROVE  /\ SubSeq(s, k + 1, Len(s)) \in Seq(T) /\ Len(SubSeq(s, k + 1, Len(s))) = Len(s) - k
         /\ \A i \in 1..(Len(s) - k) : SubSeq(s, k + 1, Len(s))[i] = s[k + i]
<1>1. PICK n \in Nat : n = Len(s) /\ DOMAIN s = 1..n
  BY LenProperties
<1>2. \A i \in (k + 1)..n : s[i] \in T
  BY <1>1
<1>3. k \in Nat /\ k <= n
  BY <1>1
<1>4. PICK u : u = SubSeq(s, k + 1, n)
  OBVIOUS
<1>5. u \in Seq(T) /\ Len(u) = (IF k + 1 <= n THEN n - (k + 1) + 1 ELSE 0)
      /\ \A i \in 1..(n - (k + 1) + 1) : u[i] = s[(k + 1) + i - 1]
  BY <1>2, <1>3, <1>4, SubSeqProperties
<1>6. n - (k + 1) + 1 = n - k /\ (\A i \in 1..(n - k) : (k + 1) + i - 1 = k + i) /\ (~(k + 1 <= n) => n - k = 0)
  BY <1>3
<1> QED BY <1>1, <1>4, <1>5, <1>6

LEMMA SinceGrows ==
  ASSUME NEW T, NEW s \in Seq(T), NEW x \in T, NEW k \in 0..Len(s)
  PROVE  SubSeq(Append(s, x), k + 1, Len(Append(s, x))) = Append(SubSeq(s, k + 1, Len(s)), x)
<1>0. PICK n \in Nat : n = Len(s)
  BY LenProperties
<1>1. PICK t, u, v, w :
        /\ n = Len(s) /\ t = Append(s, x) /\ u = SubSeq(t, k + 1, Len(t))
        /\ v = SubSeq(s, k + 1, Len(s)) /\ w = Append(v, x)
  BY <1>0
<1>2. t \in Seq(T) /\ Len(t) = n + 1 /\ t[n + 1] = x /\ \A i \in 1..n : t[i] = s[i]
  BY <1>1, AppendProperties
<1>3. k \in Nat /\ k <= n /\ k \in 0..(n + 1)
  BY <1>1
<1>4. v \in Seq(T) /\ Len(v) = n - k /\ \A i \in 1..(n - k) : v[i] = s[k + i]
  BY <1>1, SinceIs
<1>5. u \in Seq(T) /\ Len(u) = (n + 1) - k /\ \A i \in 1..((n + 1) - k) : u[i] = t[k + i]
  <2>1. k \in 0..Len(t) /\ u = SubSeq(t, k + 1, Len(t)) /\ t \in Seq(T)
    BY <1>1, <1>2, <1>3
  <2>2. /\ u \in Seq(T) /\ Len(u) = Len(t) - k /\ \A i \in 1..(Len(t) - k) : u[i] = t[k + i]
    BY <2>1, SinceIs
  <2> QED BY <1>2, <2>2
<1>6. w \in Seq(T) /\ Len(w) = (n - k) + 1 /\ w[(n - k) + 1] = x /\ \A i \in 1..(n - k) : w[i] = v[i]
  <2>1. PICK m \in Nat : m = n - k
    BY <1>3
  <2>2. w = Append(v, x) /\ v \in Seq(T) /\ x \in T /\ Len(v) = m
    BY <1>1, <1>4, <2>1
  <2>3. w \in Seq(T) /\ Len(w) = m + 1 /\ w[m + 1] = x /\ \A i \in 1..m : w[i] = v[i]
    BY <2>2, AppendProperties
  <2> QED BY <2>1, <2>3
<1>7. ASSUME NEW i \in 1..((n + 1) - k) PROVE u[i] = w[i]
  <2>1. CASE i = (n - k) + 1
    <3>1. k + i = n + 1
      BY <1>3, <2>1
    <3> QED BY <1>2, <1>5, <1>6, <2>1, <3>1
  <2>2. CASE i # (n - k) + 1
    <3>1. i \in 1..(n - k) /\ k + i \in 1..n
      BY <1>3, <2>2
    <3> QED BY <1>2, <1>4, <1>5, <1>6, <3>1
  <2> QED BY <2>1, <2>2
<1>8. (n + 1) - k = (n - k) + 1
  BY <1>3
<1>9. u = w
  <2>1. Len(u) = Len(w) /\ \A i \in 1..Len(u) : u[i] = w[i]
    BY <1>5, <1>6, <1>7, <1>8, Zenon
  <2> QED BY <1>5, <1>6, <2>1, SeqEqual, Zenon
<1> QED BY <1>0, <1>1, <1>9, Zenon
-----------------------------------------------------------------------------
(* The invariant: what every meter holds, by the rows that are booked. *)

MeterInv ==
  /\ booked \in Seq(MeterRows) /\ resetAt \in 0..Len(booked) /\ clearedAt \in 0..Len(booked) /\ instant \in Nat
  /\ CountsAre(counts, Since(resetAt)) /\ DestsAre(byDest, Since(resetAt)) /\ DeniesAre(denies, Since(resetAt))
  /\ BucketsAre(buckets, Since(resetAt)) /\ SpawnsAre(spawns, Since(resetAt), instant)
  /\ RingIs(ring, head, filled, Since(clearedAt))

LEMMA Nothing ==
  /\ CountsAre(Zero, <<>>) /\ DestsAre([d \in Destinations |-> 0], <<>>)
  /\ DeniesAre([r \in Reasons |-> 0], <<>>) /\ BucketsAre([i \in 1..Len(Bounds) + 1 |-> 0], <<>>)
  /\ (\A u \in Nat : SpawnsAre(<<>>, <<>>, u))
  /\ RingIs([i \in 0..Capacity - 1 |-> NoSpan], 0, 0, <<>>)
<1>1. <<>> \in Seq(MeterRows) /\ <<>> \in Seq(Nat) /\ Len(<<>>) = 0
  OBVIOUS
<1>2. \A S : Number(<<>>, S) = 0
  <2> SUFFICES ASSUME NEW S PROVE Number(<<>>, S) = 0
    OBVIOUS
  <2>1. Where(<<>>, S) = {}
    BY DEF Where
  <2> QED BY <2>1, FS_EmptySet DEF Number
<1>3. CountsAre(Zero, <<>>)
  <2>1. CostOf(<<>>) = 0
    <3>1. CostOf(<<>>) = Summed([i \in DOMAIN <<>> |-> <<>>[i].event.cost], 0)
      BY <1>1 DEF CostOf
    <3> QED BY <3>1, SummedNone
  <2> QED BY <1>1, <2>1 DEF CountsAre, Zero
<1>4. DestsAre([d \in Destinations |-> 0], <<>>)
  BY <1>2 DEF DestsAre
<1>5. DeniesAre([r \in Reasons |-> 0], <<>>)
  BY <1>2 DEF DeniesAre
<1>6. BucketsAre([i \in 1..Len(Bounds) + 1 |-> 0], <<>>)
  BY <1>2 DEF BucketsAre
<1>7. ASSUME NEW u \in Nat PROVE SpawnsAre(<<>>, <<>>, u)
  BY <1>1, <1>2 DEF SpawnsAre
<1>8. RingIs([i \in 0..Capacity - 1 |-> NoSpan], 0, 0, <<>>)
  BY <1>1, CapacityAssumption DEF RingIs
<1> QED BY <1>3, <1>4, <1>5, <1>6, <1>7, <1>8

LEMMA MeterStarts == MeterInit => MeterInv
<1> SUFFICES ASSUME MeterInit PROVE MeterInv
  OBVIOUS
<1>1. booked = <<>> /\ resetAt = 0 /\ clearedAt = 0 /\ instant = 0
  BY DEF MeterInit
<1>2. Since(0) = <<>> /\ booked \in Seq(MeterRows) /\ Len(booked) = 0
  BY <1>1 DEF Since
<1>3. /\ counts = Zero /\ byDest = [d \in Destinations |-> 0] /\ denies = [r \in Reasons |-> 0]
      /\ buckets = [i \in 1..Len(Bounds) + 1 |-> 0] /\ spawns = <<>>
      /\ ring = [i \in 0..Capacity - 1 |-> NoSpan] /\ head = 0 /\ filled = 0
  BY DEF MeterInit
<1>4. SpawnsAre(<<>>, <<>>, 0)
  BY Nothing
<1> QED BY <1>1, <1>2, <1>3, <1>4, Nothing DEF MeterInv

LEMMA DispatchKeeps == ASSUME MeterInv, NEW e \in Traffic, Dispatched(e) PROVE MeterInv'
<1> DEFINE row == [event |-> e, at |-> instant]
<1>1. booked \in Seq(MeterRows) /\ resetAt \in 0..Len(booked) /\ clearedAt \in 0..Len(booked) /\ instant \in Nat
  BY DEF MeterInv
<1>2. row \in MeterRows /\ row.event = e /\ row.at = instant
  BY <1>1 DEF MeterRows
<1>3. booked' = Append(booked, row) /\ resetAt' = resetAt /\ clearedAt' = clearedAt /\ instant' = instant
  BY DEF Dispatched
<1>4. Called("metrics") /\ Called("tracer")
  BY SinksAssumption DEF Called
<1>5. Observe(e) /\ TraceRecord(e)
  BY <1>4 DEF Dispatched
<1> HIDE DEF row
<1>6. Since(resetAt)' = Append(Since(resetAt), row) /\ Since(resetAt) \in Seq(MeterRows)
  BY <1>1, <1>2, <1>3, SinceGrows, SinceIs DEF Since
<1>7. Since(clearedAt)' = Append(Since(clearedAt), row) /\ Since(clearedAt) \in Seq(MeterRows)
  BY <1>1, <1>2, <1>3, SinceGrows, SinceIs DEF Since
<1>8. booked' \in Seq(MeterRows) /\ Len(booked') = Len(booked) + 1 /\ Len(booked) \in Nat
  BY <1>1, <1>2, <1>3, AppendProperties, LenProperties
<1>9. booked' \in Seq(MeterRows) /\ resetAt' \in 0..Len(booked') /\ clearedAt' \in 0..Len(booked') /\ instant' \in Nat
  BY <1>1, <1>3, <1>8
<1>10. CountsAre(counts, Since(resetAt))'
  <2>1. counts' = CountIn(counts, row.event)
    BY <1>2, <1>5 DEF Observe
  <2>2. CountsAre(counts, Since(resetAt))
    BY DEF MeterInv
  <2>3. CountsAre(CountIn(counts, row.event), Append(Since(resetAt), row))
    BY <1>2, <1>6, <2>2, CountStep
  <2> QED BY <1>6, <2>1, <2>3
<1>11. DestsAre(byDest, Since(resetAt))'
  <2>1. byDest' = [byDest EXCEPT ![row.event.dest] = @ + 1]
    BY <1>2, <1>5 DEF Observe
  <2>2. DestsAre(byDest, Since(resetAt))
    BY DEF MeterInv
  <2>3. DestsAre([byDest EXCEPT ![row.event.dest] = @ + 1], Append(Since(resetAt), row))
    BY <1>2, <1>6, <2>2, DestStep
  <2> QED BY <1>6, <2>1, <2>3
<1>12. DeniesAre(denies, Since(resetAt))'
  <2>1. denies' = IF row.event.verdict \in Reasons THEN [denies EXCEPT ![row.event.verdict] = @ + 1] ELSE denies
    BY <1>2, <1>5 DEF Observe
  <2>2. DeniesAre(denies, Since(resetAt))
    BY DEF MeterInv
  <2>3. DeniesAre(IF row.event.verdict \in Reasons THEN [denies EXCEPT ![row.event.verdict] = @ + 1] ELSE denies,
                  Append(Since(resetAt), row))
    BY <1>2, <1>6, <2>2, DenyStep
  <2> QED BY <1>6, <2>1, <2>3
<1>13. BucketsAre(buckets, Since(resetAt))'
  <2>1. buckets' = [buckets EXCEPT ![BucketOf(row.event.took)] = @ + 1]
    BY <1>2, <1>5 DEF Observe
  <2>2. BucketsAre(buckets, Since(resetAt))
    BY DEF MeterInv
  <2>3. BucketsAre([buckets EXCEPT ![BucketOf(row.event.took)] = @ + 1], Append(Since(resetAt), row))
    BY <1>2, <1>6, <2>2, BucketStep
  <2> QED BY <1>6, <2>1, <2>3
<1>14. SpawnsAre(spawns, Since(resetAt), instant)'
  <2>1. spawns' = IF row.event.verdict = "SUCCESS" /\ row.event.dest \in EphemeralSet
                  THEN Prune(Append(spawns, instant)) ELSE spawns
    BY <1>2, <1>5 DEF Observe
  <2>2. SpawnsAre(spawns, Since(resetAt), instant)
    BY DEF MeterInv
  <2>3. SpawnsAre(IF row.event.verdict = "SUCCESS" /\ row.event.dest \in EphemeralSet
                  THEN Prune(Append(spawns, instant)) ELSE spawns, Append(Since(resetAt), row), instant)
    BY <1>1, <1>2, <1>6, <2>2, SpawnStep
  <2> QED BY <1>3, <1>6, <2>1, <2>3
<1>15. RingIs(ring, head, filled, Since(clearedAt))'
  <2>1. /\ ring' = [ring EXCEPT ![head] = row.event] /\ head' = (head + 1) % Capacity
        /\ filled' = IF filled < Capacity THEN filled + 1 ELSE filled
    BY <1>2, <1>5 DEF TraceRecord
  <2>2. RingIs(ring, head, filled, Since(clearedAt))
    BY DEF MeterInv
  <2>3. RingIs([ring EXCEPT ![head] = row.event], (head + 1) % Capacity,
               IF filled < Capacity THEN filled + 1 ELSE filled, Append(Since(clearedAt), row))
    BY <1>2, <1>7, <2>2, RingStep
  <2> QED BY <1>7, <2>1, <2>3
<1> QED BY <1>9, <1>10, <1>11, <1>12, <1>13, <1>14, <1>15 DEF MeterInv

LEMMA MeterStep == MeterInv /\ [MeterNext]_meterVars => MeterInv'
<1> SUFFICES ASSUME MeterInv, [MeterNext]_meterVars PROVE MeterInv'
  OBVIOUS
<1>1. ASSUME NEW e \in Traffic, Dispatched(e) PROVE MeterInv'
  BY <1>1, DispatchKeeps
<1>2. CASE Reset
  <2>1. booked' = booked /\ resetAt' = Len(booked) /\ clearedAt' = clearedAt /\ instant' = instant
        /\ counts' = Zero /\ byDest' = [d \in Destinations |-> 0] /\ denies' = [r \in Reasons |-> 0]
        /\ buckets' = [i \in 1..Len(Bounds) + 1 |-> 0] /\ spawns' = <<>>
        /\ ring' = ring /\ head' = head /\ filled' = filled
    BY <1>2 DEF Reset
  <2>2. Since(resetAt)' = <<>> /\ Since(clearedAt)' = Since(clearedAt) /\ Len(booked) \in Nat
    <3>1. Len(booked) \in Nat
      BY LenProperties DEF MeterInv
    <3>2. SubSeq(booked, Len(booked) + 1, Len(booked)) = <<>>
      BY <3>1, SubSeqEmpty
    <3> QED BY <2>1, <3>1, <3>2 DEF Since
  <2>3. SpawnsAre(<<>>, <<>>, instant)
    BY Nothing DEF MeterInv
  <2> QED BY <2>1, <2>2, <2>3, Nothing DEF MeterInv
<1>3. CASE ClearTrace
  <2>1. booked' = booked /\ resetAt' = resetAt /\ clearedAt' = Len(booked) /\ instant' = instant
        /\ counts' = counts /\ byDest' = byDest /\ denies' = denies
        /\ buckets' = buckets /\ spawns' = spawns
        /\ ring' = [i \in 0..Capacity - 1 |-> NoSpan] /\ head' = 0 /\ filled' = 0
    BY <1>3 DEF ClearTrace
  <2>2. Since(clearedAt)' = <<>> /\ Since(resetAt)' = Since(resetAt) /\ Len(booked) \in Nat
    <3>1. Len(booked) \in Nat
      BY LenProperties DEF MeterInv
    <3>2. SubSeq(booked, Len(booked) + 1, Len(booked)) = <<>>
      BY <3>1, SubSeqEmpty
    <3> QED BY <2>1, <3>1, <3>2 DEF Since
  <2> QED BY <2>1, <2>2, Nothing DEF MeterInv
<1>4. CASE Elapse
  <2>1. booked' = booked /\ resetAt' = resetAt /\ clearedAt' = clearedAt /\ instant' = instant + 1
        /\ counts' = counts /\ byDest' = byDest /\ denies' = denies
        /\ buckets' = buckets /\ spawns' = spawns /\ ring' = ring /\ head' = head /\ filled' = filled
    BY <1>4 DEF Elapse
  <2>2. Since(clearedAt)' = Since(clearedAt) /\ Since(resetAt)' = Since(resetAt)
    BY <2>1 DEF Since
  <2>3. SpawnsAre(spawns, Since(resetAt), instant + 1)
    <3>1. SpawnsAre(spawns, Since(resetAt), instant) /\ instant \in Nat
      BY DEF MeterInv
    <3>2. PICK n \in Nat : n = Len(spawns) /\ DOMAIN spawns = 1..n
      BY <3>1, LenProperties DEF SpawnsAre
    <3>3. \A i \in 1..n : spawns[i] \in Nat /\ spawns[i] <= instant
      BY <3>1, <3>2 DEF SpawnsAre
    <3>4. \A i \in 1..Len(spawns) : spawns[i] <= instant + 1
      BY <3>1, <3>2, <3>3
    <3>5. \A u \in Nat : instant + 1 <= u => instant <= u
      BY <3>1
    <3> QED BY <3>1, <3>4, <3>5 DEF SpawnsAre
  <2> QED BY <2>1, <2>2, <2>3 DEF MeterInv
<1>5. CASE UNCHANGED meterVars
  <2>1. booked' = booked /\ resetAt' = resetAt /\ clearedAt' = clearedAt /\ instant' = instant
        /\ counts' = counts /\ byDest' = byDest /\ denies' = denies
        /\ buckets' = buckets /\ spawns' = spawns /\ ring' = ring /\ head' = head /\ filled' = filled
    BY <1>5 DEF meterVars
  <2>2. Since(clearedAt)' = Since(clearedAt) /\ Since(resetAt)' = Since(resetAt)
    BY <2>1 DEF Since
  <2> QED BY <2>1, <2>2 DEF MeterInv
<1> QED BY <1>1, <1>2, <1>3, <1>4, <1>5 DEF MeterNext
-----------------------------------------------------------------------------
(* What is read. *)

LEMMA AtMostIs ==
  ASSUME NEW logged \in Seq(MeterRows), NEW f, BucketsAre(f, logged), NEW i \in 0..Len(Bounds)
  PROVE  Summed(f, i) = Number(logged, RowsWithin(i))
<1> DEFINE Wrong == {k \in Nat : k <= Len(Bounds) /\ Summed(f, k) # Number(logged, RowsWithin(k))}
<1>1. PICK n \in Nat : n = Len(Bounds)
  BY BucketsAssumption, LenProperties
<1> SUFFICES ASSUME Wrong # {} PROVE FALSE
  BY <1>1
<1>2. PICK d \in Wrong : \A k \in Wrong : d <= k
  BY LeastNumber
<1>3. d \in Nat /\ d <= n /\ Summed(f, d) # Number(logged, RowsWithin(d))
  BY <1>1
<1>4. d # 0
  <2> SUFFICES ASSUME d = 0 PROVE FALSE
    OBVIOUS
  <2>1. RowsWithin(0) = {}
    BY DEF RowsWithin
  <2>2. Where(logged, {}) = {}
    BY DEF Where
  <2> QED BY <1>3, <2>1, <2>2, FS_EmptySet, SummedNone DEF Number
<1>5. PICK c \in Nat : c + 1 = d /\ c < n
  <2>1. d - 1 \in Nat /\ (d - 1) + 1 = d /\ d - 1 < n
    BY <1>3, <1>4
  <2> QED BY <2>1
<1>6. Summed(f, c) = Number(logged, RowsWithin(c))
  <2>1. c \notin Wrong
    BY <1>2, <1>5
  <2> QED BY <1>1, <1>5, <2>1
<1>7. Summed(f, d) = Summed(f, c) + f[d] /\ f[d] = Number(logged, RowsIn(d))
  <2>1. \A k \in 1..(c + 1) : f[k] \in Nat
    BY <1>1, <1>5 DEF BucketsAre
  <2>2. Summed(f, c + 1) = Summed(f, c) + f[c + 1]
    BY <2>1, SummedIs
  <2>3. d \in 1..(Len(Bounds) + 1)
    BY <1>1, <1>3, <1>4
  <2> QED BY <1>5, <2>2, <2>3 DEF BucketsAre
<1>8. RowsWithin(d) = RowsWithin(c) \cup RowsIn(d) /\ RowsWithin(c) \cap RowsIn(d) = {}
  <2> SUFFICES ASSUME NEW row \in MeterRows
               PROVE  /\ row \in RowsWithin(d) <=> row \in RowsWithin(c) \/ row \in RowsIn(d)
                      /\ ~(row \in RowsWithin(c) /\ row \in RowsIn(d))
    BY DEF RowsWithin, RowsIn
  <2>1. PICK took \in Nat : took = row.event.took
    BY EventIs DEF MeterRows
  <2>2. d \in 1..Len(Bounds) /\ d - 1 = c /\ (d # 1 <=> c # 0)
    BY <1>1, <1>3, <1>5
  <2>3. BucketOf(took) = d <=> took <= Bounds[d] /\ (d # 1 => ~(took <= Bounds[d - 1]))
    BY <2>2, BucketIs
  <2>4. c # 0 /\ took <= Bounds[c] => took <= Bounds[d]
    <3> SUFFICES ASSUME c # 0, took <= Bounds[c] PROVE took <= Bounds[d]
      OBVIOUS
    <3>1. c \in DOMAIN Bounds /\ d \in DOMAIN Bounds /\ c < d
      <4>1. DOMAIN Bounds = 1..n
        BY <1>1, BucketsAssumption, LenProperties
      <4> QED BY <1>3, <1>4, <1>5, <4>1
    <3>2. Bounds[c] < Bounds[d]
      BY <3>1, BucketsAssumption
    <3>3. Bounds[c] \in Nat /\ Bounds[d] \in Nat
      BY <3>1, BucketsAssumption
    <3> QED BY <3>2, <3>3
  <2>5. /\ row \in RowsWithin(d) <=> took <= Bounds[d]
        /\ row \in RowsWithin(c) <=> c # 0 /\ took <= Bounds[c]
        /\ row \in RowsIn(d) <=> BucketOf(took) = d
    BY <1>4, <2>1 DEF RowsWithin, RowsIn
  <2> QED BY <2>2, <2>3, <2>4, <2>5
<1>9. Number(logged, RowsWithin(d)) = Number(logged, RowsWithin(c)) + Number(logged, RowsIn(d))
  BY <1>8, NumberParts
<1> QED BY <1>3, <1>6, <1>7, <1>9

LEMMA MetricsMatch == MeterInv => MetricsMatchLedger
<1> SUFFICES ASSUME MeterInv PROVE MetricsMatchLedger
  OBVIOUS
<1> DEFINE logged == Since(resetAt)
<1>1. booked \in Seq(MeterRows) /\ resetAt \in 0..Len(booked) /\ instant \in Nat
  BY DEF MeterInv
<1>2. logged \in Seq(MeterRows)
  BY <1>1, SinceIs DEF Since
<1>3. CountsAre(counts, logged) /\ DestsAre(byDest, logged) /\ DeniesAre(denies, logged) /\ BucketsAre(buckets, logged)
      /\ SpawnsAre(spawns, logged, instant)
  BY DEF MeterInv
<1>4. DOMAIN logged = 1..Len(logged) /\ \A i \in DOMAIN logged : logged[i] \in MeterRows
  BY <1>2, LenProperties
<1> HIDE DEF logged
<1>5. counts.total = Len(logged) /\ counts.routed + counts.blocked + counts.failed = Len(logged)
      /\ counts.cost = CostOf(logged)
  BY <1>3 DEF CountsAre
<1>6. ASSUME NEW d \in Destinations PROVE byDest[d] = HowMany(logged, LAMBDA row : row.event.dest = d)
  <2>1. byDest[d] = Number(logged, RowsTo(d))
    BY <1>3 DEF DestsAre
  <2>2. Where(logged, RowsTo(d)) = {i \in DOMAIN logged : logged[i].event.dest = d}
    BY <1>4 DEF Where, RowsTo
  <2> QED BY <2>1, <2>2 DEF Number, HowMany
<1>7. ASSUME NEW r \in Reasons PROVE denies[r] = HowMany(logged, LAMBDA row : row.event.verdict = r)
  <2>1. denies[r] = Number(logged, RowsDenied(r))
    BY <1>3 DEF DeniesAre
  <2>2. Where(logged, RowsDenied(r)) = {i \in DOMAIN logged : logged[i].event.verdict = r}
    BY <1>4 DEF Where, RowsDenied
  <2> QED BY <2>1, <2>2 DEF Number, HowMany
<1>8. ASSUME NEW i \in DOMAIN Bounds PROVE AtMost(i) = HowMany(logged, LAMBDA row : row.event.took <= Bounds[i])
  <2>1. i \in 0..Len(Bounds) /\ i # 0
    BY BucketsAssumption, LenProperties
  <2>2. AtMost(i) = Number(logged, RowsWithin(i))
    BY <1>2, <1>3, <2>1, AtMostIs DEF AtMost
  <2>3. Where(logged, RowsWithin(i)) = {k \in DOMAIN logged : logged[k].event.took <= Bounds[i]}
    BY <1>4, <2>1 DEF Where, RowsWithin
  <2> QED BY <2>2, <2>3 DEF Number, HowMany
<1>9. ActiveSpawns = HowMany(logged, LAMBDA row : /\ row.event.verdict = "SUCCESS"
                                               /\ row.event.dest \in EphemeralSet
                                               /\ row.at + Window >= instant)
  <2>1. Number(spawns, Recently(instant)) = Number(logged, RowsActive(instant))
    BY <1>1, <1>3 DEF SpawnsAre
  <2>2. PICK left : left = Prune(spawns)
    OBVIOUS
  <2>3. /\ left \in Seq(Nat) /\ Number(left, Recently(instant)) = Number(spawns, Recently(instant))
        /\ \A i \in 1..Len(left) : instant <= left[i] + Window
    <3>1. spawns \in Seq(Nat) /\ (\A i, j \in 1..Len(spawns) : i < j => spawns[i] <= spawns[j])
          /\ \A i \in 1..Len(spawns) : spawns[i] <= instant
      BY <1>3 DEF SpawnsAre
    <3>2. /\ Prune(spawns) \in Seq(Nat)
          /\ \A i \in 1..Len(Prune(spawns)) : Prune(spawns)[i] <= instant /\ instant <= Prune(spawns)[i] + Window
          /\ \A u \in Nat : instant <= u => Number(Prune(spawns), Recently(u)) = Number(spawns, Recently(u))
      BY <1>1, <3>1, PruneIs
    <3> QED BY <1>1, <2>2, <3>2
  <2>4. PICK m \in Nat : m = Len(left) /\ DOMAIN left = 1..m
    BY <2>3, LenProperties
  <2>5. Where(left, Recently(instant)) = 1..m
    BY <2>3, <2>4 DEF Where, Recently
  <2>6. Cardinality(1..m) = m
    BY FS_Interval
  <2>7. ActiveSpawns = Number(logged, RowsActive(instant))
    BY <2>1, <2>2, <2>3, <2>4, <2>5, <2>6 DEF ActiveSpawns, Number
  <2>8. \A row \in MeterRows : row.at \in Nat /\ row.at + Window \in Nat
    BY CapacityAssumption DEF MeterRows
  <2>9. Where(logged, RowsActive(instant)) =
          {k \in DOMAIN logged : /\ logged[k].event.verdict = "SUCCESS" /\ logged[k].event.dest \in EphemeralSet
                               /\ logged[k].at + Window >= instant}
    BY <1>1, <1>4, <2>8 DEF Where, RowsActive
  <2> QED BY <2>7, <2>9 DEF Number, HowMany
<1>10. /\ Snapshot.packets = counts /\ Snapshot.perDestination = byDest /\ Snapshot.denyReasons = denies
       /\ Snapshot.active = ActiveSpawns /\ \A i \in DOMAIN Bounds : Snapshot.atMost[i] = AtMost(i)
  BY DEF Snapshot
<1> QED BY <1>5, <1>6, <1>7, <1>8, <1>9, <1>10 DEF MetricsMatchLedger, logged

LEMMA TraceTells == MeterInv => TraceIsTail
<1> SUFFICES ASSUME MeterInv PROVE TraceIsTail
  OBVIOUS
<1>1. PICK n \in Nat, traced \in Seq(MeterRows) : traced = Since(clearedAt) /\ n = Len(traced) /\ DOMAIN traced = 1..n
  <2>1. booked \in Seq(MeterRows) /\ clearedAt \in 0..Len(booked)
    BY DEF MeterInv
  <2>2. Since(clearedAt) \in Seq(MeterRows)
    BY <2>1, SinceIs DEF Since
  <2> QED BY <2>2, LenProperties
<1>2. PICK kept \in Nat : kept = IF n < Capacity THEN n ELSE Capacity
  BY CapacityAssumption
<1>3. RingIs(ring, head, filled, traced)
  BY <1>1 DEF MeterInv
<1>4. /\ head \in 0..(Capacity - 1) /\ filled = kept /\ (filled < Capacity => head = filled)
      /\ \A i \in 0..(Capacity - 1) :
           /\ i < head => ring[i] = traced[n - head + i + 1].event
           /\ head <= i /\ filled = Capacity => ring[i] = traced[n - head - Capacity + i + 1].event
  BY <1>1, <1>2, <1>3 DEF RingIs
<1>5. Capacity \in Nat \ {0} /\ head \in Nat /\ head < Capacity /\ kept <= n /\ kept <= Capacity
  BY <1>2, <1>4, CapacityAssumption
<1>6. Spans = [i \in 1..kept |-> traced[n - kept + i].event]
  <2>1. CASE filled < Capacity
    <3>1. Spans = [i \in 1..kept |-> ring[i - 1]]
      BY <1>4, <2>1 DEF Spans
    <3>2. kept = n /\ head = n
      BY <1>2, <1>4, <2>1
    <3>3. ASSUME NEW i \in 1..kept PROVE ring[i - 1] = traced[n - kept + i].event
      <4>1. i - 1 \in 0..(Capacity - 1) /\ i - 1 < head /\ n - head + (i - 1) + 1 = n - kept + i
        BY <1>5, <3>2
      <4> QED BY <1>4, <4>1
    <3> QED BY <3>1, <3>3
  <2>2. CASE ~(filled < Capacity)
    <3>1. kept = Capacity /\ filled = Capacity
      BY <1>2, <1>4, <2>2
    <3>2. Spans = [i \in 1..kept |-> ring[(head + i - 1) % Capacity]]
      BY <2>2, <3>1 DEF Spans
    <3>3. ASSUME NEW i \in 1..kept PROVE ring[(head + i - 1) % Capacity] = traced[n - kept + i].event
      <4>1. PICK x \in Nat : x = head + i - 1 /\ x < Capacity + Capacity
        <5>1. head + i - 1 \in Nat /\ head + i - 1 < Capacity + Capacity
          BY <1>5, <3>1
        <5> QED BY <5>1
      <4>2. x % Capacity = IF x < Capacity THEN x ELSE x - Capacity
        BY <1>5, <4>1, Around
      <4>3. CASE x < Capacity
        <5>1. x \in 0..(Capacity - 1) /\ head <= x /\ n - head - Capacity + x + 1 = n - kept + i
          BY <1>5, <3>1, <4>1, <4>3
        <5>2. ring[x] = traced[n - kept + i].event
          BY <1>4, <3>1, <5>1
        <5> QED BY <4>1, <4>2, <4>3, <5>2
      <4>4. CASE ~(x < Capacity)
        <5>1. x - Capacity \in 0..(Capacity - 1) /\ x - Capacity < head /\ n - head + (x - Capacity) + 1 = n - kept + i
          BY <1>5, <3>1, <4>1, <4>4
        <5>2. ring[x - Capacity] = traced[n - kept + i].event
          BY <1>4, <5>1
        <5> QED BY <4>1, <4>2, <4>4, <5>2
      <4> QED BY <4>3, <4>4
    <3> QED BY <3>2, <3>3
  <2> QED BY <2>1, <2>2
<1>7. Spans \in Seq(Traffic)
  <2>1. ASSUME NEW i \in 1..kept PROVE traced[n - kept + i].event \in Traffic
    <3>1. n - kept + i \in 1..n
      BY <1>5
    <3>2. traced[n - kept + i] \in MeterRows
      BY <1>1, <3>1
    <3> QED BY <3>2 DEF MeterRows
  <2>2. Spans \in [1..kept -> Traffic]
    BY <1>6, <2>1
  <2>3. \A k \in Nat : [1..k -> Traffic] \subseteq Seq(Traffic)
    BY SeqDef
  <2> QED BY <2>2, <2>3
<1>8. \A k \in 1..Capacity : IsSuffix(Recent(k), Spans)
  <2> SUFFICES ASSUME NEW k \in 1..Capacity PROVE IsSuffix(Recent(k), Spans)
    OBVIOUS
  <2>1. k \in Nat \ {0}
    BY <1>5
  <2> QED BY <1>7, <2>1, TailIsSuffix DEF Recent
<1> QED BY <1>1, <1>2, <1>6, <1>8 DEF TraceIsTail

LEMMA PagesBounded == MeterInv => PagesAreBounded
<1> SUFFICES ASSUME MeterInv, NEW limit \in Limits \ {1}
             PROVE  Len(Page(limit)) <= ReadMost /\ IsSuffix(Page(limit), booked)
  BY DEF PagesAreBounded
<1>1. booked \in Seq(MeterRows)
  BY DEF MeterInv
<1>2. PICK k \in Nat \ {0} : k = ClampLimit(limit) /\ k <= ReadMost
  <2>1. limit \in Nat /\ limit # 1
    BY ReadAssumption DEF Limits
  <2>2. limit # 0 => limit \div 2 \in Nat \ {0}
    BY <2>1
  <2> QED BY <2>1, <2>2, ReadAssumption DEF ClampLimit
<1>3. IsSuffix(Tail0(booked, k), booked) /\ Len(Tail0(booked, k)) <= k
  BY <1>1, TailIsSuffix
<1>4. Len(Tail0(booked, k)) \in Nat
  <2>1. CASE k >= Len(booked)
    BY <1>1, <2>1, LenProperties DEF Tail0
  <2>2. CASE ~(k >= Len(booked))
    <3>1. Len(booked) \in Nat /\ k \in Nat
      BY <1>1, LenProperties
    <3>2. Tail0(booked, k) = SubSeq(booked, (Len(booked) - k) + 1, Len(booked)) /\ Len(booked) - k \in 0..Len(booked)
      BY <2>2, <3>1 DEF Tail0
    <3>3. Tail0(booked, k) \in Seq(MeterRows)
      BY <1>1, <3>2, SinceIs
    <3> QED BY <3>3, LenProperties
  <2> QED BY <2>1, <2>2
<1> QED BY <1>2, <1>3, <1>4, ReadAssumption DEF Page

LEMMA MeterHolds == MeterInv => MetersAgree
BY MetricsMatch, TraceTells, PagesBounded DEF MetersAgree

\* Observability, for any capacity, window, buckets and traffic: the metrics are those
\* of the rows recorded since the last reset, the trace is the newest of those since it
\* was cleared, and a page of the ledger is no longer than its limit.
THEOREM MetersTell == MeterInit /\ [][MeterNext]_meterVars => []MetersAgree
<1>1. MeterInit => MeterInv
  BY MeterStarts
<1>2. MeterInv /\ [MeterNext]_meterVars => MeterInv'
  BY MeterStep
<1>3. MeterInv => MetersAgree
  BY MeterHolds
<1> QED BY <1>1, <1>2, <1>3, PTL

-----------------------------------------------------------------------------
LEMMA LargestNumber ==
  ASSUME NEW T, T \subseteq Nat, T # {}, IsFiniteSet(T)
  PROVE  \E x \in T : \A y \in T : y <= x
<1> DEFINE below(x) == {y \in T : y <= x}
           Left == {k \in Nat : \E x \in T : k + Cardinality(below(x)) = Cardinality(T)}
<1>1. \A x : IsFiniteSet(below(x)) /\ below(x) \in SUBSET T /\ Cardinality(below(x)) \in Nat
             /\ Cardinality(below(x)) <= Cardinality(T) /\ Cardinality(T) \in Nat
  <2> SUFFICES ASSUME NEW x
               PROVE  IsFiniteSet(below(x)) /\ below(x) \in SUBSET T /\ Cardinality(below(x)) \in Nat
                      /\ Cardinality(below(x)) <= Cardinality(T) /\ Cardinality(T) \in Nat
    OBVIOUS
  <2>1. below(x) \in SUBSET T
    OBVIOUS
  <2> HIDE DEF below
  <2> QED BY <2>1, FS_Subset, FS_CardinalityType
<1>2. \A x \in T : \A y \in T : y \in below(x) <=> y <= x
  OBVIOUS
<1> HIDE DEF below
<1>3. Left # {}
  <2>1. PICK x \in T : TRUE
    OBVIOUS
  <2>2. PICK a \in Nat, b \in Nat : a = Cardinality(below(x)) /\ b = Cardinality(T) /\ a <= b
    BY <1>1
  <2>3. b - a \in Nat /\ (b - a) + a = b
    BY <2>2
  <2> QED BY <2>1, <2>2, <2>3
<1>4. PICK k \in Left : \A l \in Left : k <= l
  BY <1>3, LeastNumber
<1>5. PICK x \in T : k + Cardinality(below(x)) = Cardinality(T)
  OBVIOUS
<1>6. ASSUME NEW y \in T, ~(y <= x) PROVE FALSE
  <2>1. y \notin below(x) /\ y \in below(y) /\ below(x) \subseteq below(y)
    <3>1. ASSUME NEW z \in below(x) PROVE z \in below(y)
      <4>1. z \in T /\ z <= x
        BY <1>1, <1>2
      <4>2. x \in Nat /\ y \in Nat /\ z \in Nat
        BY <4>1
      <4>3. z <= y
        BY <1>6, <4>1, <4>2
      <4> QED BY <1>2, <4>1, <4>3
    <3>2. y \in Nat /\ y <= y
      OBVIOUS
    <3> QED BY <1>2, <1>6, <3>1, <3>2
  <2>2. Cardinality(below(x)) <= Cardinality(below(y)) /\ Cardinality(below(x)) # Cardinality(below(y))
    <3>1. IsFiniteSet(below(y)) /\ below(x) \in SUBSET below(y)
      BY <1>1, <2>1
    <3> QED BY <2>1, <3>1, FS_Subset
  <2>3. PICK a \in Nat, b \in Nat, c \in Nat :
          a = Cardinality(below(x)) /\ b = Cardinality(below(y)) /\ c = Cardinality(T) /\ b <= c
    BY <1>1
  <2>4. c - b \in Nat /\ (c - b) + b = c /\ c - b < k
    BY <1>5, <2>2, <2>3
  <2>5. c - b \in Left
    BY <2>3, <2>4
  <2> QED BY <1>4, <2>4, <2>5
<1> QED BY <1>6

LEMMA NumberWithin ==
  ASSUME NEW T, NEW s \in Seq(T), NEW S, NEW R, \A x \in T : x \in S => x \in R
  PROVE  Number(s, S) <= Number(s, R)
<1>1. DOMAIN s = 1..Len(s) /\ IsFiniteSet(Where(s, R))
  BY LenProperties, NumberIsNat
<1>2. Where(s, S) \subseteq Where(s, R)
  BY <1>1 DEF Where
<1> QED BY <1>1, <1>2, FS_Subset DEF Number

LEMMA NumberAll ==
  ASSUME NEW T, NEW s \in Seq(T), NEW S
  PROVE  Number(s, S) <= Len(s) /\ (Number(s, S) = Len(s) <=> \A i \in 1..Len(s) : s[i] \in S)
<1>1. PICK n \in Nat : n = Len(s) /\ DOMAIN s = 1..n
  BY LenProperties
<1>2. IsFiniteSet(1..n) /\ Cardinality(1..n) = n
  BY FS_Interval
<1>3. Where(s, S) \subseteq 1..n
  BY <1>1 DEF Where
<1>4. Cardinality(Where(s, S)) <= n /\ (Cardinality(Where(s, S)) = n => Where(s, S) = 1..n)
  BY <1>2, <1>3, FS_Subset
<1>5. Where(s, S) = 1..n <=> \A i \in 1..n : s[i] \in S
  BY <1>1, <1>3 DEF Where
<1> QED BY <1>1, <1>2, <1>4, <1>5 DEF Number
-----------------------------------------------------------------------------
(* The board, and the two gates. *)

Refusals == {"FROZEN", "HASH_INTEGRITY", "RATE_LIMIT", "LAW", "BEHAVIORAL_SCORE"}
Told == Refusals \cup {"ALLOWED", "LEARNED_BEHAVIORAL_SCORE"}
Results == [legal : BOOLEAN, took : Nat, verdict : Told, bare : Told, mode : {"shadow", "enforce"}]
Adds(r) == r.verdict # r.bare =>
  r.bare = "ALLOWED" /\ r.verdict = "LEARNED_BEHAVIORAL_SCORE" /\ r.mode = "enforce"
LearnedInv ==
  /\ gate = plain /\ board \in Seq(Results) /\ mode \in {"shadow", "enforce"}
  /\ \A i \in 1..Len(board) : Adds(board[i])

LEMMA LearnedStarts == LearnedInit => LearnedInv
<1> SUFFICES ASSUME LearnedInit PROVE LearnedInv
  OBVIOUS
<1>1. board = <<>> /\ gate = plain /\ mode \in {"shadow", "enforce"}
  BY DEF LearnedInit
<1> QED BY <1>1 DEF LearnedInv

LEMMA VerdictIs ==
  ASSUME NEW g, NEW c
  PROVE  Intercept(g, c).verdict \in Refusals \cup {"ALLOWED"}
BY DEF Intercept, Passage, Refusals

LEMMA RunKeeps == ASSUME LearnedInv, NEW c \in Cases, RunCase(c) PROVE LearnedInv'
<1> DEFINE full == WithLearned(c)  bare == Intercept(plain, c)
           r == [legal |-> c.legal, took |-> c.took, verdict |-> full.verdict, bare |-> bare.verdict, mode |-> mode]
<1>1. gate = plain /\ board \in Seq(Results) /\ mode \in {"shadow", "enforce"} /\ \A i \in 1..Len(board) : Adds(board[i])
  BY DEF LearnedInv
<1>2. gate' = full.gate /\ plain' = bare.gate /\ board' = Append(board, r) /\ mode' = mode
  BY DEF RunCase
<1>3. full.gate = bare.gate
  BY <1>1 DEF WithLearned
<1>4. \/ full.verdict = bare.verdict
      \/ bare.verdict = "ALLOWED" /\ full.verdict = "LEARNED_BEHAVIORAL_SCORE" /\ mode = "enforce"
  BY <1>1 DEF WithLearned, Denies
<1>5. bare.verdict \in Told
  <2>1. bare.verdict \in Refusals \cup {"ALLOWED"}
    BY VerdictIs
  <2> QED BY <2>1 DEF Told
<1>6. full.verdict \in Told
  BY <1>4, <1>5 DEF Told
<1>7. c.legal \in BOOLEAN /\ c.took \in Nat
  BY LearnedAssumption
<1> HIDE DEF full, bare
<1>8. r \in Results /\ Adds(r)
  BY <1>1, <1>4, <1>5, <1>6, <1>7 DEF Results, Adds
<1> HIDE DEF r
<1>9. PICK n \in Nat : n = Len(board)
  BY <1>1, LenProperties
<1>10. board' \in Seq(Results) /\ Len(board') = n + 1 /\ board'[n + 1] = r /\ \A i \in 1..n : board'[i] = board[i]
  BY <1>1, <1>2, <1>8, <1>9, AppendProperties
<1>11. ASSUME NEW i \in 1..(n + 1) PROVE Adds(board'[i])
  <2>1. i = n + 1 \/ i \in 1..n
    BY <1>9
  <2> QED BY <1>1, <1>8, <1>9, <1>10, <2>1
<1>12. \A i \in 1..Len(board') : Adds(board'[i])
  BY <1>10, <1>11
<1>13. gate' = plain' /\ mode' \in {"shadow", "enforce"}
  BY <1>1, <1>2, <1>3
<1> QED BY <1>10, <1>12, <1>13 DEF LearnedInv, Adds

LEMMA LearnedStep == LearnedInv /\ [LearnedNext]_learnedVars => LearnedInv'
<1> SUFFICES ASSUME LearnedInv, [LearnedNext]_learnedVars PROVE LearnedInv'
  OBVIOUS
<1>1. ASSUME NEW c \in Cases, RunCase(c) PROVE LearnedInv'
  BY <1>1, RunKeeps
<1>2. CASE SetMode
  BY <1>2 DEF SetMode, LearnedInv, Adds
<1>3. CASE Await
  BY <1>3 DEF Await, LearnedInv, Adds
<1>4. ASSUME NEW m \in WeightSets, LoadModel(m) PROVE LearnedInv'
  BY <1>4 DEF LoadModel, LearnedInv, Adds
<1>5. CASE UNCHANGED learnedVars
  BY <1>5 DEF learnedVars, LearnedInv, Adds
<1> QED BY <1>1, <1>2, <1>3, <1>4, <1>5 DEF LearnedNext

LEMMA LearnedAdds == LearnedInv => LearnedOnlyAdds
<1> SUFFICES ASSUME LearnedInv PROVE LearnedOnlyAdds
  OBVIOUS
<1>1. DOMAIN board = 1..Len(board)
  BY LenProperties DEF LearnedInv
<1> QED BY <1>1 DEF LearnedInv, LearnedOnlyAdds, Adds
-----------------------------------------------------------------------------
(* The samples in order. *)

Quicker(v) == {r \in Results : r.took < v}
UpTo(v) == {r \in Results : r.took <= v}

LEMMA TooksFinite ==
  ASSUME NEW S, IsFiniteSet(S), NEW f
  PROVE  IsFiniteSet({f[i].took : i \in S})
<1> DEFINE g == [i \in S |-> f[i].took]  T == {f[i].took : i \in S}
<1>1. g \in Surjection(S, T)
  BY DEF Surjection
<1> QED BY <1>1, FS_Surjection

LEMMA SortedIs ==
  ASSUME board \in Seq(Results), NEW k \in 1..Len(board)
  PROVE  Ranked(k) \in Nat /\ Number(board, Quicker(Ranked(k))) < k /\ k <= Number(board, UpTo(Ranked(k)))
<1>1. PICK n \in Nat : n = Len(board) /\ DOMAIN board = 1..n
  BY LenProperties
<1>2. \A i \in 1..n : board[i] \in Results /\ board[i].took \in Nat
  <2>1. \A i \in 1..n : board[i] \in Results
    BY <1>1
  <2>2. \A r \in Results : r.took \in Nat
    BY DEF Results
  <2> QED BY <2>1, <2>2
<1>3. \A v : /\ Number(board, Quicker(v)) = Cardinality({i \in DOMAIN board : board[i].took < v})
             /\ Number(board, UpTo(v)) = Cardinality({i \in DOMAIN board : board[i].took <= v})
  <2> SUFFICES ASSUME NEW v
               PROVE  /\ Number(board, Quicker(v)) = Cardinality({i \in DOMAIN board : board[i].took < v})
                      /\ Number(board, UpTo(v)) = Cardinality({i \in DOMAIN board : board[i].took <= v})
    OBVIOUS
  <2>1. /\ Where(board, Quicker(v)) = {i \in DOMAIN board : board[i].took < v}
        /\ Where(board, UpTo(v)) = {i \in DOMAIN board : board[i].took <= v}
    BY <1>1, <1>2 DEF Where, Quicker, UpTo
  <2> QED BY <2>1 DEF Number
<1> DEFINE tooks == {board[i].took : i \in DOMAIN board}
           Enough == {v \in Nat : v \in tooks /\ k <= Number(board, UpTo(v))}
<1>4. \A v \in Nat : Number(board, UpTo(v)) \in Nat /\ Number(board, Quicker(v)) \in Nat
  BY NumberIsNat
<1>5. Enough # {}
  <2> DEFINE All == {m \in Nat : \A i \in 1..n : board[i].took <= m}
  <2>1. \E i \in 1..n : \A j \in 1..n : board[j].took <= board[i].took
    <3>1. IsFiniteSet(tooks) /\ tooks # {} /\ tooks \subseteq Nat
      <4>1. IsFiniteSet(DOMAIN board)
        BY <1>1, FS_Interval
      <4>2. IsFiniteSet(tooks)
        BY <4>1, TooksFinite
      <4>3. 1 \in DOMAIN board
        BY <1>1
      <4> QED BY <1>1, <1>2, <4>2, <4>3
    <3>2. \E v \in tooks : \A w \in tooks : w <= v
      BY <3>1, LargestNumber
    <3> QED BY <1>1, <3>2
  <2>2. PICK i \in 1..n : \A j \in 1..n : board[j].took <= board[i].took
    BY <2>1
  <2>3. PICK v \in Nat : v = board[i].took
    BY <1>2
  <2>4. Number(board, UpTo(v)) = Len(board)
    <3>1. \A j \in 1..Len(board) : board[j] \in UpTo(v)
      BY <1>1, <1>2, <2>2, <2>3 DEF UpTo
    <3> QED BY <3>1, NumberAll
  <2>5. v \in tooks
    BY <1>1, <2>3
  <2> QED BY <1>1, <2>4, <2>5
<1>6. PICK v \in Enough : \A w \in Enough : v <= w
  BY <1>5, LeastNumber
<1>7. Number(board, Quicker(v)) < k
  <2> SUFFICES ASSUME ~(Number(board, Quicker(v)) < k) PROVE FALSE
    OBVIOUS
  <2> DEFINE Less == {board[i].took : i \in Where(board, Quicker(v))}
  <2>1. Where(board, Quicker(v)) # {} /\ IsFiniteSet(Where(board, Quicker(v)))
    <3>1. IsFiniteSet(Where(board, Quicker(v))) /\ (Where(board, Quicker(v)) = {} => Number(board, Quicker(v)) = 0)
      BY NumberIsNat
    <3>2. k > 0
      BY <1>1
    <3> QED BY <3>1, <3>2
  <2>2. \A i \in Where(board, Quicker(v)) : i \in 1..n /\ board[i].took \in Nat /\ board[i].took < v
    BY <1>1, <1>2 DEF Where, Quicker
  <2>3. IsFiniteSet(Less)
    BY <2>1, TooksFinite
  <2>4. Less \subseteq Nat /\ Less # {}
    BY <2>1, <2>2
  <2>5. PICK w \in Less : \A x \in Less : x <= w
    BY <2>3, <2>4, LargestNumber
  <2>6. w \in Nat /\ w < v /\ w \in tooks
    BY <1>1, <2>2
  <2>7. Number(board, Quicker(v)) <= Number(board, UpTo(w))
    <3>1. Where(board, Quicker(v)) \subseteq Where(board, UpTo(w))
      BY <1>1, <1>2, <2>2, <2>5 DEF Where, UpTo
    <3>2. IsFiniteSet(Where(board, UpTo(w)))
      BY NumberIsNat
    <3> QED BY <3>1, <3>2, FS_Subset DEF Number
  <2>8. w \in Enough
    BY <1>4, <2>6, <2>7
  <2> QED BY <1>6, <2>6, <2>8
<1>8. Number(board, Quicker(v)) < k /\ k <= Number(board, UpTo(v)) /\ v \in tooks
  BY <1>6, <1>7
<1>9. Ranked(k) = CHOOSE took \in tooks : Number(board, Quicker(took)) < k /\ k <= Number(board, UpTo(took))
  BY <1>3 DEF Ranked, HowOften
<1> HIDE DEF tooks
<1>10. Ranked(k) \in tooks /\ Number(board, Quicker(Ranked(k))) < k /\ k <= Number(board, UpTo(Ranked(k)))
  BY <1>8, <1>9
<1> QED BY <1>1, <1>2, <1>10 DEF tooks

LEMMA SortedRises ==
  ASSUME board \in Seq(Results), NEW k \in 1..Len(board), NEW l \in 1..Len(board), k <= l
  PROVE  Ranked(k) <= Ranked(l)
<1>1. PICK v \in Nat, w \in Nat : v = Ranked(k) /\ w = Ranked(l)
  BY SortedIs
<1>2. Number(board, Quicker(v)) < k /\ l <= Number(board, UpTo(w))
  BY <1>1, SortedIs
<1> SUFFICES ASSUME w < v PROVE FALSE
  BY <1>1
<1>3. Number(board, UpTo(w)) <= Number(board, Quicker(v))
  <2>1. \A r \in Results : r \in UpTo(w) => r \in Quicker(v)
    BY DEF Results, UpTo, Quicker
  <2> QED BY <2>1, NumberWithin
<1>4. Number(board, UpTo(w)) \in Nat /\ Number(board, Quicker(v)) \in Nat /\ k \in Nat /\ l \in Nat
  BY NumberIsNat, LenProperties
<1> QED BY <1>2, <1>3, <1>4

\* Where a percentile falls: between two neighbours, portion hundredths of the way.
Falls(p, n, low, portion) ==
  /\ p * (n - 1) = 100 * (low - 1) + portion /\ (portion # 0 => low < n)
  /\ (p * (n - 1)) \div 100 + 1 = low /\ (p * (n - 1)) % 100 = portion

LEMMA RankIs ==
  ASSUME NEW n \in Nat \ {0}, NEW p \in 0..99
  PROVE  \E low \in 1..n, portion \in 0..99 : Falls(p, n, low, portion)
<1>1. PICK m \in Nat : m = n - 1 /\ m + 1 = n
  <2>1. n - 1 \in Nat /\ (n - 1) + 1 = n
    OBVIOUS
  <2> QED BY <2>1
<1>2. PICK rank \in Nat : rank = p * m
  <2>1. p * m \in Nat
    OBVIOUS
  <2> QED BY <2>1
<1>3. rank <= 99 * m
  <2>1. PICK q \in Nat : p + q = 99
    <3>1. 99 - p \in Nat /\ p + (99 - p) = 99
      OBVIOUS
    <3> QED BY <3>1
  <2>2. 99 * m = p * m + q * m /\ q * m \in Nat /\ p * m \in Nat
    BY <2>1
  <2> QED BY <1>2, <2>2
<1>4. PICK low \in Int, portion \in 0..99 : low = rank \div 100 + 1 /\ portion = rank % 100 /\ rank = 100 * (low - 1) + portion
  <2>1. PICK d \in Int, e \in Int : d = rank \div 100 /\ e = rank % 100
    OBVIOUS
  <2>2. e \in 0..99 /\ rank = 100 * d + e
    BY <2>1
  <2>3. d + 1 \in Int /\ (d + 1) - 1 = d
    OBVIOUS
  <2> QED BY <2>1, <2>2, <2>3
<1>5. low \in 1..n /\ (portion # 0 => low < n)
  BY <1>1, <1>3, <1>4
<1> QED BY <1>1, <1>2, <1>4, <1>5 DEF Falls

LEMMA PercentileIs ==
  ASSUME board \in Seq(Results), NEW p \in 0..99, NEW low \in 1..Len(board), NEW portion \in 0..99,
         Falls(p, Len(board), low, portion)
  PROVE  \E gap \in Nat : /\ Percentile(p) = 100 * Ranked(low) + portion * gap
                          /\ portion # 0 => Ranked(low + 1) = Ranked(low) + gap
<1>1. Len(board) \in Nat
  BY LenProperties
<1>2. (portion # 0 => low < Len(board)) /\ (p * (Len(board) - 1)) \div 100 + 1 = low /\ (p * (Len(board) - 1)) % 100 = portion
  BY DEF Falls
<1>3. CASE portion = 0
  <2>1. Percentile(p) = 100 * Ranked(low)
    BY <1>3, <1>2 DEF Percentile
  <2>2. Ranked(low) \in Nat
    BY SortedIs
  <2>3. 100 * Ranked(low) = 100 * Ranked(low) + portion * 0
    BY <1>3, <2>2
  <2> QED BY <1>3, <2>1, <2>3
<1>4. CASE portion # 0
  <2>1. Percentile(p) = Ranked(low) * (100 - portion) + Ranked(low + 1) * portion
    BY <1>4, <1>2 DEF Percentile
  <2>2. low + 1 \in 1..Len(board) /\ low <= low + 1
    BY <1>1, <1>4, <1>2
  <2>3. Ranked(low) \in Nat /\ Ranked(low + 1) \in Nat /\ Ranked(low) <= Ranked(low + 1)
    BY <2>2, SortedIs, SortedRises
  <2>4. PICK x \in Nat, gap \in Nat : x = Ranked(low) /\ x + gap = Ranked(low + 1)
    <3>1. Ranked(low + 1) - Ranked(low) \in Nat /\ Ranked(low) + (Ranked(low + 1) - Ranked(low)) = Ranked(low + 1)
      BY <2>3
    <3> QED BY <2>3, <3>1
  <2>5. x * (100 - portion) + (x + gap) * portion = 100 * x + portion * gap
    OBVIOUS
  <2> QED BY <2>1, <2>4, <2>5
<1> QED BY <1>3, <1>4

LEMMA MedianIs ==
  ASSUME board \in Seq(Results), board # <<>>
  PROVE  /\ Percentile(50) \in Nat /\ Percentile(50) <= Percentile(95)
         /\ \E low \in 1..Len(board), high \in 1..Len(board) :
              /\ low + high = Len(board) + 1 /\ low <= high
              /\ 100 * Ranked(low) <= Percentile(50) /\ Percentile(50) <= 100 * Ranked(high)
              /\ high <= low + 1
<1>1. PICK n \in Nat \ {0} : n = Len(board)
  BY LenProperties, EmptySeq
<1>2. PICK low \in 1..n, portion \in 0..99 :
        Falls(50, n, low, portion) /\ 50 * (n - 1) = 100 * (low - 1) + portion /\ (portion # 0 => low < n)
  <2>1. 50 \in 0..99
    OBVIOUS
  <2>2. PICK low \in 1..n, portion \in 0..99 : Falls(50, n, low, portion)
    BY <2>1, RankIs
  <2>3. 50 * (n - 1) = 100 * (low - 1) + portion /\ (portion # 0 => low < n)
    BY <2>2, Zenon DEF Falls
  <2> QED BY <2>2, <2>3, Zenon
<1>3. PICK gap \in Nat : /\ Percentile(50) = 100 * Ranked(low) + portion * gap
                         /\ portion # 0 => Ranked(low + 1) = Ranked(low) + gap
  <2>1. Falls(50, Len(board), low, portion)
    BY <1>1, <1>2
  <2>2. 50 \in 0..99 /\ low \in 1..Len(board)
    BY <1>1
  <2> QED BY <2>1, <2>2, PercentileIs, ZenonT(60)
<1>4. PICK top \in 1..n, share \in 0..99 :
        Falls(95, n, top, share) /\ 95 * (n - 1) = 100 * (top - 1) + share /\ (share # 0 => top < n)
  <2>1. 95 \in 0..99
    OBVIOUS
  <2>2. PICK top \in 1..n, share \in 0..99 : Falls(95, n, top, share)
    BY <2>1, RankIs
  <2>3. 95 * (n - 1) = 100 * (top - 1) + share /\ (share # 0 => top < n)
    BY <2>2, Zenon DEF Falls
  <2> QED BY <2>2, <2>3, Zenon
<1>5. PICK step \in Nat : /\ Percentile(95) = 100 * Ranked(top) + share * step
                          /\ share # 0 => Ranked(top + 1) = Ranked(top) + step
  <2>1. Falls(95, Len(board), top, share)
    BY <1>1, <1>4
  <2>2. 95 \in 0..99 /\ top \in 1..Len(board)
    BY <1>1
  <2> QED BY <2>1, <2>2, PercentileIs, ZenonT(60)
<1>6. portion = 0 \/ portion = 50
  BY <1>2
<1>7. low <= top /\ (low = top => portion <= share)
  BY <1>2, <1>4
<1>8. PICK x \in Nat, z \in Nat : x = Ranked(low) /\ z = Ranked(top) /\ x <= z
  BY <1>1, <1>7, SortedIs, SortedRises
<1>9. share * step \in Nat
  OBVIOUS
<1>10. CASE portion = 0
  <2>1. portion * gap = 0
    BY <1>10
  <2>2. Percentile(50) = 100 * x
    <3>1. PICK lift \in Nat : lift = portion * gap /\ lift = 0
      BY <2>1
    <3>2. Percentile(50) = 100 * Ranked(low) + lift
      BY <1>3, <3>1
    <3> QED BY <1>8, <3>1, <3>2
  <2>3. Percentile(50) <= Percentile(95)
    BY <1>5, <1>8, <1>9, <2>2, SMTT(30)
  <2>4. low + low = n + 1 /\ low <= low + 1
    BY <1>2, <1>10
  <2> QED BY <1>1, <1>8, <2>2, <2>3, <2>4
<1>11. CASE portion = 50
  <2>1. Percentile(50) = 100 * x + 50 * gap /\ Ranked(low + 1) = x + gap /\ low < n
    BY <1>2, <1>3, <1>8, <1>11
  <2>2. low + (low + 1) = n + 1 /\ low + 1 \in 1..n
    BY <1>2, <1>11, <2>1
  <2>3. Percentile(50) <= Percentile(95)
    <3>1. CASE low = top
      <4>1. PICK more \in Nat : share = 50 + more
        <5>1. share - 50 \in Nat /\ share = 50 + (share - 50)
          BY <1>7, <1>11, <3>1
        <5> QED BY <5>1
      <4>2. step = gap
        <5>1. share # 0
          BY <1>7, <1>11, <3>1
        <5>2. x + gap = x + step
          BY <1>5, <1>8, <2>1, <3>1, <5>1
        <5> QED BY <5>2
      <4>3. share * step = 50 * gap + more * gap /\ more * gap \in Nat
        BY <4>1, <4>2
      <4>4. Percentile(95) = 100 * x + (50 * gap + more * gap)
        BY <1>5, <1>8, <3>1, <4>3
      <4> QED BY <2>1, <4>3, <4>4
    <3>2. CASE low # top
      <4>1. low + 1 <= top /\ low + 1 \in 1..Len(board) /\ top \in 1..Len(board)
        BY <1>1, <1>7, <2>2, <3>2
      <4>2. Ranked(low + 1) <= Ranked(top)
        BY <4>1, SortedRises
      <4>3. x + gap <= z
        BY <1>8, <2>1, <4>2
      <4>4. Percentile(95) = 100 * z + share * step
        BY <1>5, <1>8
      <4> QED BY <1>9, <2>1, <4>3, <4>4
    <3> QED BY <3>1, <3>2
  <2>4. 100 * Ranked(low) <= Percentile(50) /\ Percentile(50) <= 100 * Ranked(low + 1) /\ Percentile(50) \in Nat
    <3>1. x \in Nat /\ x = Ranked(low) /\ gap \in Nat
      BY <1>8
    <3>2. PICK y, m : y = x + gap /\ m = 100 * x + 50 * gap
      OBVIOUS
    <3>3. 100 * x <= m /\ m <= 100 * y /\ m \in Nat
      BY <3>1, <3>2
    <3> QED BY <2>1, <3>1, <3>2, <3>3, Zenon
  <2> QED BY <1>1, <2>2, <2>3, <2>4
<1> QED BY <1>6, <1>10, <1>11

LEMMA MedianHalves ==
  ASSUME board \in Seq(Results), board # <<>>
  PROVE  /\ 2 * Number(board, {r \in Results : 100 * r.took < Percentile(50)}) <= Len(board)
         /\ 2 * Number(board, {r \in Results : 100 * r.took > Percentile(50)}) <= Len(board)
<1> DEFINE Lower == {r \in Results : 100 * r.took < Percentile(50)}
           Over == {r \in Results : 100 * r.took > Percentile(50)}
<1>1. PICK n \in Nat, median \in Nat : n = Len(board) /\ median = Percentile(50)
  BY LenProperties, MedianIs
<1>2. PICK low \in 1..Len(board), high \in 1..Len(board) :
              /\ low + high = Len(board) + 1 /\ low <= high
              /\ 100 * Ranked(low) <= Percentile(50) /\ Percentile(50) <= 100 * Ranked(high)
              /\ high <= low + 1
  BY MedianIs
<1>3. PICK x \in Nat, y \in Nat : x = Ranked(low) /\ y = Ranked(high)
  BY SortedIs
<1>4. Number(board, Quicker(y)) < high /\ low <= Number(board, UpTo(x))
  BY <1>3, SortedIs
<1>5. \A r \in Results : r.took \in Nat
  BY DEF Results
<1>6. \A r \in Results : (r \in Lower => r \in Quicker(y)) /\ ~(r \in Over /\ r \in UpTo(x))
  <2> SUFFICES ASSUME NEW r \in Results
               PROVE  (r \in Lower => r \in Quicker(y)) /\ ~(r \in Over /\ r \in UpTo(x))
    OBVIOUS
  <2>1. PICK took \in Nat : took = r.took
    BY <1>5
  <2>2. 100 * x <= median /\ median <= 100 * y
    BY <1>1, <1>2, <1>3
  <2>3. (100 * took < median => took < y) /\ ~(100 * took > median /\ took <= x)
    BY <2>2
  <2> QED BY <1>1, <2>1, <2>3 DEF Quicker, UpTo
<1> HIDE DEF Lower, Over
<1>7. Number(board, Lower) <= Number(board, Quicker(y))
  BY <1>6, NumberWithin
<1>8. Number(board, Over \cup UpTo(x)) <= Len(board)
  BY NumberAll
<1>9. Number(board, Over \cup UpTo(x)) = Number(board, Over) + Number(board, UpTo(x))
  <2>1. Over \cap UpTo(x) = {}
    BY <1>6 DEF UpTo
  <2> QED BY <2>1, NumberParts
<1>10. PICK a \in Nat, b \in Nat, c \in Nat, d \in Nat :
         a = Number(board, Lower) /\ b = Number(board, Quicker(y)) /\ c = Number(board, Over) /\ d = Number(board, UpTo(x))
  BY NumberIsNat
<1>11. a <= b /\ b < high /\ low <= d /\ c + d <= n
  BY <1>1, <1>4, <1>7, <1>8, <1>9, <1>10
<1>12. 2 * a <= n /\ 2 * c <= n
  BY <1>1, <1>2, <1>11
<1> QED BY <1>1, <1>10, <1>12 DEF Lower, Over

LEMMA BoardTells == LearnedInv => BoardTellsAll
<1> SUFFICES ASSUME LearnedInv PROVE BoardTellsAll
  OBVIOUS
<1>1. PICK n \in Nat : n = Len(board) /\ DOMAIN board = 1..n
  BY LenProperties DEF LearnedInv
<1>2. board \in Seq(Results) /\ \A i \in 1..n : board[i] \in Results /\ Adds(board[i])
  BY <1>1 DEF LearnedInv
<1>3. \A r \in Results : r.legal \in BOOLEAN /\ r.took \in Nat
  BY DEF Results
<1> DEFINE Escaped == {r \in Results : ~r.legal /\ StatusOf(r.verdict) # "BLOCKED"}
           Wronged == {r \in Results : r.legal /\ StatusOf(r.verdict) = "BLOCKED"}
           Failed == {r \in Results : StatusOf(r.verdict) = "FAILED"}
           Right == {r \in Results : StatusOf(r.verdict) = IF r.legal THEN "SUCCESS" ELSE "BLOCKED"}
           Slipped == {r \in Results : ~r.legal /\ r.bare = "ALLOWED"}
           Lower == {r \in Results : 100 * r.took < Percentile(50)}
           Over == {r \in Results : 100 * r.took > Percentile(50)}
<1>4. Metrics.escaped = Number(board, Escaped) /\ Metrics.falseBlocks = Number(board, Wronged)
      /\ Metrics.failed = Number(board, Failed) /\ Metrics.correct = Number(board, Right)
  <2>1. /\ Where(board, Escaped) = {i \in DOMAIN board : ~board[i].legal /\ StatusOf(board[i].verdict) # "BLOCKED"}
        /\ Where(board, Wronged) = {i \in DOMAIN board : board[i].legal /\ StatusOf(board[i].verdict) = "BLOCKED"}
        /\ Where(board, Failed) = {i \in DOMAIN board : StatusOf(board[i].verdict) = "FAILED"}
        /\ Where(board, Right) = {i \in DOMAIN board :
                                   StatusOf(board[i].verdict) = IF board[i].legal THEN "SUCCESS" ELSE "BLOCKED"}
    BY <1>1, <1>2 DEF Where
  <2> QED BY <2>1 DEF Metrics, HowOften, Number
<1>5. HowOften(LAMBDA r : ~r.legal /\ r.bare = "ALLOWED") = Number(board, Slipped)
  <2>1. Where(board, Slipped) = {i \in DOMAIN board : ~board[i].legal /\ board[i].bare = "ALLOWED"}
    BY <1>1, <1>2 DEF Where
  <2> QED BY <2>1 DEF HowOften, Number
<1>6. /\ HowOften(LAMBDA r : 100 * r.took < Percentile(50)) = Number(board, Lower)
      /\ HowOften(LAMBDA r : 100 * r.took > Percentile(50)) = Number(board, Over)
  <2>1. /\ Where(board, Lower) = {i \in DOMAIN board : 100 * board[i].took < Percentile(50)}
        /\ Where(board, Over) = {i \in DOMAIN board : 100 * board[i].took > Percentile(50)}
    BY <1>1, <1>2 DEF Where
  <2> QED BY <2>1 DEF HowOften, Number
<1>7. Passed <=> Metrics.correct = Len(board)
  <2>1. \A r \in Results : r \in Right <=> r \notin Escaped /\ r \notin Wronged /\ r \notin Failed
    BY DEF StatusOf, Results
  <2> HIDE DEF Escaped, Wronged, Failed, Right
  <2>2. Number(board, Right) = n <=> \A i \in 1..n : board[i] \in Right
    BY <1>1, <1>2, NumberAll
  <2>3. \A S : Number(board, S) = 0 <=> \A i \in 1..n : board[i] \notin S
    <3> SUFFICES ASSUME NEW S PROVE Number(board, S) = 0 <=> \A i \in 1..n : board[i] \notin S
      OBVIOUS
    <3>1. IsFiniteSet(Where(board, S))
      BY <1>2, NumberIsNat
    <3>2. Cardinality(Where(board, S)) = 0 <=> Where(board, S) = {}
      BY <3>1, FS_EmptySet
    <3> QED BY <1>1, <3>2 DEF Where, Number
  <2> QED BY <1>1, <1>2, <1>4, <2>1, <2>2, <2>3 DEF Passed
<1>8. Metrics.escaped <= HowOften(LAMBDA r : ~r.legal /\ r.bare = "ALLOWED")
  <2>1. Where(board, Escaped) \subseteq Where(board, Slipped)
    <3> SUFFICES ASSUME NEW i \in Where(board, Escaped) PROVE i \in Where(board, Slipped)
      OBVIOUS
    <3>1. i \in 1..n /\ board[i] \in Results /\ ~board[i].legal /\ StatusOf(board[i].verdict) # "BLOCKED"
      BY <1>1, <1>2 DEF Where
    <3>2. board[i].verdict = "ALLOWED"
      BY <3>1 DEF StatusOf
    <3>3. board[i].bare = "ALLOWED"
      BY <1>2, <3>1, <3>2 DEF Adds
    <3> QED BY <1>1, <3>1, <3>3 DEF Where
  <2>2. IsFiniteSet(Where(board, Slipped))
    BY <1>2, NumberIsNat
  <2> HIDE DEF Escaped, Slipped
  <2> QED BY <1>4, <1>5, <2>1, <2>2, FS_Subset DEF Number
<1>9. ASSUME board # <<>>
      PROVE  /\ Percentile(50) <= Percentile(95)
             /\ 2 * HowOften(LAMBDA r : 100 * r.took < Percentile(50)) <= Len(board)
             /\ 2 * HowOften(LAMBDA r : 100 * r.took > Percentile(50)) <= Len(board)
  BY <1>2, <1>6, <1>9, MedianIs, MedianHalves
<1> QED BY <1>7, <1>8, <1>9 DEF BoardTellsAll

LEMMA LearnedHolds == LearnedInv => BoardIsHonest
BY LearnedAdds, BoardTells DEF BoardIsHonest

\* The evaluation board and its two gates, for any cases, weights and modes: the
\* learned scorer lets nothing through that the laws and the heuristic refuse, and the
\* board's verdict, counts and percentiles are those of the cases that were run.
THEOREM BoardTellsTrue == LearnedInit /\ [][LearnedNext]_learnedVars => []BoardIsHonest
<1>1. LearnedInit => LearnedInv
  BY LearnedStarts
<1>2. LearnedInv /\ [LearnedNext]_learnedVars => LearnedInv'
  BY LearnedStep
<1>3. LearnedInv => BoardIsHonest
  BY LearnedHolds
<1> QED BY <1>1, <1>2, <1>3, PTL

-----------------------------------------------------------------------------
(* All of them in one behaviour, which moves one of them. *)

LEMMA PartsStart ==
  Init => /\ SandboxInit /\ VettingInit /\ FleetInit /\ SchedulerInit
          /\ ChainInit /\ MeterInit /\ LearnedInit
BY DEF Init

LEMMA PartsStep ==
  [Next]_vars => /\ [SandboxNext]_sandboxVars /\ [VettingNext]_vettingVars /\ [FleetNext]_fleetVars
                 /\ [SchedulerNext]_schedulerVars /\ [ChainNext]_chainVars
                 /\ [MeterNext]_meterVars /\ [LearnedNext]_learnedVars
<1>1. CASE Next
  <2>1. [SandboxNext]_sandboxVars /\ [VettingNext]_vettingVars
    BY <1>1 DEF Next
  <2>2. [FleetNext]_fleetVars /\ [SchedulerNext]_schedulerVars
    BY <1>1 DEF Next
  <2>3. [ChainNext]_chainVars /\ [MeterNext]_meterVars /\ [LearnedNext]_learnedVars
    BY <1>1 DEF Next
  <2> QED BY <2>1, <2>2, <2>3
<1>2. CASE UNCHANGED vars
  BY <1>2 DEF vars
<1> QED BY <1>1, <1>2

\* VISION within the mesh: its sandboxes are accounted for, freed and left by nobody,
\* and the tools and tasks that it takes were vetted, whichever part moves.
THEOREM VisionHolds == Spec => []VisionIsSound
<1>1. Init => SandboxInv /\ VettingInv
  BY PartsStart, SandboxStarts, VettingStarts
<1>2. SandboxInv /\ VettingInv /\ [Next]_vars => SandboxInv' /\ VettingInv'
  BY PartsStep, SandboxStep, VettingStep
<1>3. SandboxInv /\ VettingInv => VisionIsSound
  BY SandboxHolds, VettingHolds DEF VisionIsSound
<1> QED BY <1>1, <1>2, <1>3, PTL DEF Spec

\* What is written down of the mesh's traffic is what happened: a changed audit entry
\* is told, the meters and traces are those of the ledger, and the evaluation board's
\* counts are those of the verdicts that its two gates gave.
THEOREM RecordsHold == Spec => []RecordsAreTrue
<1>1. Init => ChainInv /\ MeterInv /\ LearnedInv
  BY PartsStart, ChainStarts, MeterStarts, LearnedStarts
<1>2. ChainInv /\ MeterInv /\ LearnedInv /\ [Next]_vars => ChainInv' /\ MeterInv' /\ LearnedInv'
  BY PartsStep, ChainStep, MeterStep, LearnedStep
<1>3. ChainInv /\ MeterInv /\ LearnedInv => RecordsAreTrue
  BY ChainHolds, MeterHolds, LearnedHolds DEF RecordsAreTrue
<1> QED BY <1>1, <1>2, <1>3, PTL DEF Spec

\* DREAM within the mesh: it leaves the fleet as it found it, Postgres' copy of the
\* fleet is true, its scheduler misses nothing of the stream, and no step of any part
\* wakes a manager that idles.
THEOREM DreamHolds == Spec => DreamIsSound
<1> DEFINE Idles == \A m \in Indexes : manager[m] = "IDLE" => manager'[m] = "IDLE" /\ active'[m] = <<>>
<1>1. Init => FleetInv /\ SchedulerInv
  BY PartsStart, FleetStarts, SchedulerStarts
<1>2. FleetInv /\ SchedulerInv /\ [Next]_vars => FleetInv' /\ SchedulerInv'
  BY PartsStep, FleetStep, SchedulerStep
<1>3. FleetInv /\ SchedulerInv => DreamEndsClean /\ MirrorIsTrue /\ StreamIsHeard
  BY FleetHolds, SchedulerHolds
<1>4. FleetInv /\ [Next]_vars => [Idles]_fleetVars
  BY PartsStep, IdleStays
<1> HIDE DEF Idles
<1>5. Spec => [][Idles]_fleetVars
  BY <1>1, <1>2, <1>4, PTL DEF Spec
<1>6. Spec => [](DreamEndsClean /\ MirrorIsTrue /\ StreamIsHeard)
  BY <1>1, <1>2, <1>3, PTL DEF Spec
<1> QED BY <1>5, <1>6 DEF DreamIsSound, IdleForGood, Idles
=============================================================================
