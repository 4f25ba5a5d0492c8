------------------------------- MODULE TaskQueue -------------------------------
(***************************************************************************)
(* The in-memory task queue (persistence/redis_router_stub.ts): by         *)
(* priority, then in order, with tasks in flight until they are acked or   *)
(* handed back.                                                            *)
(***************************************************************************)
EXTENDS Naturals, Sequences

CONSTANTS
  Tasks,       \* the packets that may be enqueued, each once
  PriorityOf,  \* [Tasks -> 0..2]: CRITICAL, STANDARD, BACKGROUND
  MaxTickets   \* bound: enqueues and nacks

ASSUME PriorityAssumption == PriorityOf \in [Tasks -> 0..2]

VARIABLES
  ready,    \* the queue
  flight,   \* tasks handed out and not acked or nacked
  tickets,  \* history: the tasks in the order in which they were last put in line
  done      \* history: tasks acked or cleared

queueVars == <<ready, flight, tickets, done>>

QueueInit == ready = <<>> /\ flight = {} /\ tickets = <<>> /\ done = {}

Waiting == {ready[i] : i \in DOMAIN ready}

\* Array.prototype.sort by priority: an arrangement of the same entries in which those
\* of one priority keep their order.
Sooner(s, i, j) ==
  \/ PriorityOf[s[i]] < PriorityOf[s[j]]
  \/ PriorityOf[s[i]] = PriorityOf[s[j]] /\ i < j
Arrangements(s) ==
  {p \in [DOMAIN s -> DOMAIN s] : \A j \in DOMAIN s : \E i \in DOMAIN s : p[i] = j}
Unsorted(s) == {s}   \* mutant of Sorted: the sort is left out
Sorted(s) ==
  {[i \in DOMAIN s |-> s[p[i]]] :
     p \in {q \in Arrangements(s) : \A i, j \in DOMAIN s : i < j => Sooner(s, q[i], q[j])}}
Line(t) ==
  /\ Len(tickets) < MaxTickets
  /\ ready' \in Sorted(Append(ready, t)) /\ tickets' = Append(tickets, t)

Enqueue(t) ==
  /\ t \notin done \cup flight \cup Waiting
  /\ Line(t)
  /\ UNCHANGED <<flight, done>>

Dequeue ==
  /\ ready # <<>>
  /\ ready' = Tail(ready) /\ flight' = flight \cup {Head(ready)}
  /\ UNCHANGED <<tickets, done>>

AckTask(t) ==
  /\ t \in flight /\ flight' = flight \ {t} /\ done' = done \cup {t}
  /\ UNCHANGED <<ready, tickets>>

\* Behind every other task of its class, and as if it had never been delivered.
NackTask(t) ==
  /\ t \in flight /\ flight' = flight \ {t}
  /\ Line(t)
  /\ UNCHANGED done

ClearQueue ==
  /\ ready # <<>> \/ flight # {}
  /\ ready' = <<>> /\ flight' = {} /\ done' = done \cup Waiting \cup flight
  /\ UNCHANGED tickets

QueueNext ==
  \/ \E t \in Tasks : Enqueue(t) \/ AckTask(t) \/ NackTask(t)
  \/ Dequeue \/ ClearQueue

QueueSpec == QueueInit /\ [][QueueNext]_queueVars

-----------------------------------------------------------------------------
(* Properties. *)

QueueTypeOK == ready \in Seq(Tasks) /\ flight \subseteq Tasks /\ done \subseteq Tasks /\ tickets \in Seq(Tasks)

\* Each task is in exactly one place, waiting once, in flight, or done; and those
\* that wait stand by priority and, within one, in the order in which they were
\* enqueued or last handed back, so that a task that fails never holds up the
\* others of its class (redis_router_stub.ts: "priority-first, FIFO within a
\* priority").
Ticket(t) == CHOOSE i \in DOMAIN tickets : tickets[i] = t /\ \A j \in DOMAIN tickets : tickets[j] = t => j <= i
TasksKeptInOrder ==
  /\ {tickets[i] : i \in DOMAIN tickets} = Waiting \cup flight \cup done
  /\ flight \cap (Waiting \cup done) = {} /\ Waiting \cap done = {}
  /\ \A i, j \in DOMAIN ready : i < j =>
       \/ PriorityOf[ready[i]] < PriorityOf[ready[j]]
       \/ PriorityOf[ready[i]] = PriorityOf[ready[j]] /\ Ticket(ready[i]) < Ticket(ready[j])
=============================================================================
