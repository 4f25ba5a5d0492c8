----------------------------- MODULE WriteThrough -----------------------------
(***************************************************************************)
(* The durable store: Prisma repositories (persistence/prisma_repos.ts)    *)
(* that answer reads from memory and mirror every write to Postgres on one *)
(* queue, with the ledger and the accounts that write through them         *)
(* (apex/ledger.ts, auth/service.ts) and the gateway process that          *)
(* hydrates, serves, flushes and dies (gateway/cli.ts).                    *)
(*                                                                         *)
(* A store is one set of rows per table.  Four tables stand for the ten:   *)
(* requestLog for the two logs with ids of their own, user and session,    *)
(* and companionMemory for the tables that are upserted.                   *)
(***************************************************************************)
EXTENDS Naturals, Sequences

CONSTANTS
  Emails, Companions,
  Faults,      \* may a database operation fail for a reason of its own?
  MaxWrites    \* bound: writes issued over all lives of the process

ASSUME FaultsAssumption == Faults \in BOOLEAN
ASSUME MaxWritesAssumption == MaxWrites \in Nat

VARIABLES
  db,        \* Postgres
  mem,       \* the projections
  queue,     \* the writes not yet executed; each with the projections it left
  errors,    \* did a write fail that no flush has reported?
  phase,     \* "down", "serving", "flushing" or "closing" (cli.ts, shutdown)
  awaited,   \* the writes the flush in progress waits for
  seq,       \* InMemoryLedger.seq
  stamp,     \* writes issued so far: what is new in a row
  spoilt, everSpoilt   \* history: has a write failed in this life, in any life?

life == <<errors, phase, awaited, seq, stamp>>
storeVars == <<db, mem, queue, life, spoilt, everSpoilt>>

Tables == {"requestLog", "user", "session", "companionMemory"}
Rows == [key : Emails \cup Companions \cup Nat, val : Emails \cup Nat]
Row(key, val) == [key |-> key, val |-> val]
Empty == [t \in Tables |-> {}]
KeysOf(rows) == {r.key : r \in rows}

\* What a write does to a store, and when Postgres refuses it: a primary key
\* (for a user, an e-mail) that is taken.  A projection takes every row.
Write(table, kind, row) == [table |-> table, kind |-> kind, row |-> row]
Others(rows, key) == {r \in rows : r.key # key}
Apply(w, store) ==
  [store EXCEPT ![w.table] =
     IF w.kind = "create" THEN store[w.table] \cup {w.row}
     ELSE Others(store[w.table], w.row.key) \cup (IF w.kind = "upsert" THEN {w.row} ELSE {})]
Refused(w) == w.kind = "create" /\ w.row.key \in KeysOf(db[w.table])

StoreInit ==
  /\ db = Empty /\ mem = Empty /\ queue = <<>>
  /\ errors = FALSE /\ phase = "down" /\ awaited = 0 /\ seq = 0 /\ stamp = 0
  /\ spoilt = FALSE /\ everSpoilt = FALSE

-----------------------------------------------------------------------------
(* Writes: the projection at once, Postgres later. *)

Enqueued(w) == [write |-> w, after |-> Apply(w, mem)]
Issue(w) ==
  /\ stamp < MaxWrites /\ stamp' = stamp + 1
  /\ mem' = Apply(w, mem)
  /\ queue' = Append(queue, Enqueued(w))
  /\ UNCHANGED <<db, errors, phase, awaited, spoilt, everSpoilt>>

\* logRequest: ids count from 1 in every life of the process.
LogRequest ==
  /\ phase = "serving"
  /\ seq' = seq + 1
  /\ Issue(Write("requestLog", "create", Row(seq', stamp)))

\* signup: the account and its first session, in this order.
SessionFirst(email) ==   \* mutant of Signup: the session is stored first
  /\ phase = "serving" /\ email \notin KeysOf(mem["user"]) /\ stamp + 1 < MaxWrites
  /\ LET account == Write("user", "create", Row(email, stamp))
         session == Write("session", "create", Row(stamp, email))
         between == Apply(session, mem)
     IN  /\ mem' = Apply(account, between)
         /\ queue' = queue \o <<[write |-> session, after |-> between],
                                [write |-> account, after |-> mem']>>
  /\ stamp' = stamp + 2
  /\ UNCHANGED <<db, errors, phase, awaited, seq, spoilt, everSpoilt>>
Signup(email) ==
  /\ phase = "serving" /\ email \notin KeysOf(mem["user"]) /\ stamp + 1 < MaxWrites
  /\ LET account == Write("user", "create", Row(email, stamp))
         session == Write("session", "create", Row(stamp, email))
         between == Apply(account, mem)
     IN  /\ mem' = Apply(session, between)
         /\ queue' = queue \o <<[write |-> account, after |-> between],
                                [write |-> session, after |-> mem']>>
  /\ stamp' = stamp + 2
  /\ UNCHANGED <<db, errors, phase, awaited, seq, spoilt, everSpoilt>>

Login(email) ==
  /\ phase = "serving" /\ email \in KeysOf(mem["user"])
  /\ Issue(Write("session", "create", Row(stamp, email)))
  /\ UNCHANGED seq

\* logout, and getUserBySession of an expired session.
EndSession(session) ==
  /\ phase = "serving" /\ session \in mem["session"]
  /\ Issue(Write("session", "delete", session))
  /\ UNCHANGED seq

\* Fire and forget: it may come after the server was closed.
Remember(companion) ==
  /\ phase # "down"
  /\ Issue(Write("companionMemory", "upsert", Row(companion, stamp)))
  /\ UNCHANGED seq

-----------------------------------------------------------------------------
(* The queue. *)

Settled == IF awaited = 0 THEN 0 ELSE awaited - 1

ExecuteLast(applied, failed) ==   \* mutant of Execute: the writes are not serialized
  /\ queue # <<>>
  /\ db' = IF applied THEN Apply(queue[Len(queue)].write, db) ELSE db
  /\ queue' = SubSeq(queue, 1, Len(queue) - 1)
  /\ awaited' = Settled
  /\ errors' = (errors \/ failed)
  /\ spoilt' = (spoilt \/ failed) /\ everSpoilt' = (everSpoilt \/ failed)
  /\ UNCHANGED <<mem, phase, seq, stamp>>
StallOnFailure(applied, failed) ==   \* mutant of Execute: a failed write is retried
  /\ queue # <<>>
  /\ db' = IF applied THEN Apply(Head(queue).write, db) ELSE db
  /\ queue' = IF failed THEN queue ELSE Tail(queue)
  /\ awaited' = IF failed THEN awaited ELSE Settled
  /\ errors' = (errors \/ failed)
  /\ spoilt' = (spoilt \/ failed) /\ everSpoilt' = (everSpoilt \/ failed)
  /\ UNCHANGED <<mem, phase, seq, stamp>>
Execute(applied, failed) ==
  /\ queue # <<>>
  /\ db' = IF applied THEN Apply(Head(queue).write, db) ELSE db
  /\ queue' = Tail(queue)
  /\ awaited' = Settled
  /\ errors' = (errors \/ failed)
  /\ spoilt' = (spoilt \/ failed) /\ everSpoilt' = (everSpoilt \/ failed)
  /\ UNCHANGED <<mem, phase, seq, stamp>>

\* A write fails alone: the queue goes on.  One that failed may have been applied.
RunWrite ==
  \/ queue # <<>> /\ ~Refused(Head(queue).write) /\ Execute(TRUE, FALSE)
  \/ queue # <<>> /\ Refused(Head(queue).write) /\ Execute(FALSE, TRUE)
  \/ /\ Faults /\ queue # <<>>
     /\ \E applied \in {FALSE, ~Refused(Head(queue).write)} : Execute(applied, TRUE)

-----------------------------------------------------------------------------
(* The process. *)

\* hydrate comes before the first request is served.
Boot ==
  /\ phase = "down"
  /\ phase' = "serving" /\ mem' = db
  /\ queue' = <<>> /\ errors' = FALSE /\ awaited' = 0 /\ seq' = 0 /\ spoilt' = FALSE
  /\ UNCHANGED <<db, stamp, everSpoilt>>

NoWait(next) == phase' = next /\ awaited' = 0   \* mutant of Flush
Flush(next) == phase' = next /\ awaited' = Len(queue)

\* SIGTERM: when the server has closed, flush ...
Shutdown ==
  /\ phase = "serving" /\ Flush("flushing")
  /\ UNCHANGED <<db, mem, queue, errors, seq, stamp, spoilt, everSpoilt>>

Exit ==
  /\ phase' = "down" /\ mem' = Empty /\ queue' = <<>> /\ errors' = FALSE /\ awaited' = 0
  /\ UNCHANGED <<seq, stamp, everSpoilt>>

\* ... then close, which flushes again and disconnects.  A flush that throws
\* ends the process there.
FlushReturns ==
  /\ phase = "flushing" /\ awaited = 0 /\ ~errors
  /\ Flush("closing")
  /\ UNCHANGED <<db, mem, queue, errors, seq, stamp, spoilt, everSpoilt>>

ExitClean ==
  /\ phase = "closing" /\ awaited = 0 /\ ~errors
  /\ Exit /\ UNCHANGED <<db, spoilt>>

FlushThrows ==
  /\ phase \in {"flushing", "closing"} /\ awaited = 0 /\ errors
  /\ Exit /\ UNCHANGED <<db, spoilt>>

\* The write that was being executed may have reached Postgres.
Die ==
  /\ phase # "down"
  /\ \/ UNCHANGED db
     \/ queue # <<>> /\ ~Refused(Head(queue).write) /\ db' = Apply(Head(queue).write, db)
  /\ Exit /\ UNCHANGED spoilt

StoreNext ==
  \/ LogRequest
  \/ \E email \in Emails : Signup(email) \/ Login(email)
  \/ \E session \in mem["session"] : EndSession(session)
  \/ \E companion \in Companions : Remember(companion)
  \/ RunWrite
  \/ Boot \/ Shutdown \/ FlushReturns \/ ExitClean \/ FlushThrows \/ Die

StoreSpec == StoreInit /\ [][StoreNext]_storeVars

\* The event loop runs the queue and goes on after an await.
FairStoreSpec == StoreSpec /\ WF_storeVars(RunWrite) /\ WF_storeVars(FlushReturns \/ ExitClean \/ FlushThrows)

-----------------------------------------------------------------------------
(* Properties. *)

Stores == [Tables -> SUBSET Rows]
Writes == [table : Tables, kind : {"create", "upsert", "delete"}, row : Rows]
StoreTypeOK ==
  /\ db \in Stores /\ mem \in Stores
  /\ queue \in Seq([write : Writes, after : Stores])
  /\ phase \in {"down", "serving", "flushing", "closing"}
  /\ awaited \in 0..Len(queue) /\ seq \in Nat /\ stamp \in 0..MaxWrites
  /\ {errors, spoilt, everSpoilt} \subseteq BOOLEAN
  /\ errors => spoilt

\* "Reads from memory, mirrored to Postgres": while no write of this life has
\* failed, the queued writes lead, one by one, from what Postgres holds to what
\* every reader sees.
Before(i) == IF i = 1 THEN db ELSE queue[i - 1].after
Mirror ==
  phase # "down" /\ ~spoilt =>
    /\ \A i \in 1..Len(queue) : Apply(queue[i].write, Before(i)) = queue[i].after
    /\ Before(Len(queue) + 1) = mem

\* A session in Postgres belongs to an account in Postgres, wherever a crash cut
\* the queue off, as long as no write was ever lost alone.
NoOrphans(store) == \A s \in store["session"] : s.val \in KeysOf(store["user"])
NoOrphanSession == ~everSpoilt => NoOrphans(db)

\* "Persistence: flushed and closed": then no write of this life failed, and
\* what is still queued was issued while the process was closing.
CleanExitIsDurable ==
  [][ExitClean => /\ ~spoilt
                  /\ \A i \in 1..Len(queue) : queue[i].write.table = "companionMemory"]_storeVars

\* "One failure never stalls the chain": a shutdown comes to its end.
ShutdownEnds == phase \in {"flushing", "closing"} ~> phase = "down"

\* "Every packet APEX attempts to route produces one RequestLog row".
RequestLogComplete ==
  phase = "serving" /\ queue = <<>> => mem["requestLog"] \subseteq db["requestLog"]
=============================================================================
