------------------------------ MODULE Projections ------------------------------
(***************************************************************************)
(* The ten repositories (persistence/repositories.ts, prisma_repos.ts): a  *)
(* list or a Map in memory that answers every read, and a Postgres table   *)
(* that the next process is hydrated from.  WriteThrough has the queue     *)
(* between them and its failures; this module has what the ten differ in:  *)
(* keys, secondary index, which columns the database writes by itself, and *)
(* the order rows come back in.  One behaviour is one repository.          *)
(***************************************************************************)
EXTENDS Naturals, Sequences, FiniteSets

CONSTANTS
  RowNames,    \* keys that callers choose: node ids, user ids, companion ids
  Marks,       \* values of the second lookup column: packet, e-mail, persona
  MaxSaves,    \* bound: writes over all lives
  MaxClock     \* bound: the instants time is divided in

ASSUME RowNamesAssumption == RowNames \subseteq Nat \ {0}
ASSUME MaxSavesAssumption == MaxSaves \in Nat /\ MaxClock \in Nat

VARIABLES
  kind,      \* the repository of this behaviour
  rows,      \* the projection, in the order all() lists it
  index,     \* byEmail, byPersonaId: mark -> key, 0 for none
  pending,   \* writes not yet executed
  table,     \* the Postgres table
  saves,     \* writes issued, over all lives: fresh uuids and tokens
  inLife,    \* writes of this life: the ledger's own ids
  now,
  refused    \* history: did Postgres refuse a write of this life?

projectionVars == <<kind, rows, index, pending, table, saves, inLife, now, refused>>

-----------------------------------------------------------------------------
(* What each repository does with a row.
     list      an array, not a Map by key
     write     Prisma's create or upsert
     ordered   findMany(orderBy) by the row's time
     time      "kept" as the caller gave it; "touched" by @updatedAt at every
               write; "default"ed to now() when the row is created
     unique    a second @unique column                                       *)

Traits(list, write, ordered, time, unique) ==
  [list |-> list, write |-> write, ordered |-> ordered, time |-> time, unique |-> unique]

RequestLog      == Traits(TRUE, "create", TRUE, "kept", TRUE)
NodeIdentity    == Traits(FALSE, "upsert", FALSE, "touched", FALSE)
SecurityAudit   == Traits(TRUE, "create", TRUE, "kept", FALSE)
IntentArchive   == Traits(FALSE, "upsert", TRUE, "kept", FALSE)
User            == Traits(FALSE, "create", FALSE, "kept", TRUE)
SessionRows     == Traits(FALSE, "create", FALSE, "kept", FALSE)
CompanionMemory == Traits(FALSE, "upsert", FALSE, "touched", FALSE)
CreatorProfile  == Traits(FALSE, "upsert", FALSE, "default", FALSE)
CreatorPersona  == Traits(FALSE, "upsert", FALSE, "default", TRUE)
LikenessUsage   == Traits(TRUE, "create", TRUE, "kept", FALSE)

Bundle ==
  [requestLog |-> RequestLog, nodeIdentity |-> NodeIdentity, securityAudit |-> SecurityAudit,
   intentArchive |-> IntentArchive, user |-> User, session |-> SessionRows,
   companionMemory |-> CompanionMemory, creatorProfile |-> CreatorProfile,
   creatorPersona |-> CreatorPersona, likenessUsageEvent |-> LikenessUsage]
Kinds == DOMAIN Bundle
This == Bundle[kind]

\* An optional field: undefined in memory, null in its column.
Bodies == {"said", "undefined"}
ToColumn(body) == IF body = "undefined" THEN "null" ELSE body
FromColumn(cell) == IF cell = "null" THEN "undefined" ELSE cell

Record(key, mark, body, time) == [key |-> key, mark |-> mark, body |-> body, time |-> time]
InRows == {rows[i] : i \in DOMAIN rows}

-----------------------------------------------------------------------------
(* The projection.  Map.set leaves a key where it first stood. *)

Put(list, seq, row) ==
  IF list \/ \A i \in DOMAIN seq : seq[i].key # row.key
  THEN Append(seq, row)
  ELSE [i \in DOMAIN seq |-> IF seq[i].key = row.key THEN row ELSE seq[i]]
Find(key) == {r \in InRows : r.key = key}
FindByMark(mark) == Find(index[mark])

NoIndex == [m \in Marks |-> 0]
Indexed(known, row) == IF This.unique /\ ~This.list THEN [known EXCEPT ![row.mark] = row.key]
                       ELSE known

Enqueue(op) ==
  /\ saves < MaxSaves /\ saves' = saves + 1 /\ inLife' = inLife + 1
  /\ pending' = Append(pending, op)
  /\ UNCHANGED <<kind, table, now, refused>>
Save(row) ==
  /\ Enqueue([op |-> This.write, row |-> row])
  /\ rows' = Put(This.list, rows, row)
  /\ index' = Indexed(index, row)

\* The callers: the ledger counts its own ids from 1 in every process, an
\* account and a session get fresh ones, and a persona keeps the id, and a
\* profile the birth date, of the row it replaces.
Fresh == saves + 1
FirstTime(key) == IF Find(key) = {} THEN now ELSE (CHOOSE r \in Find(key) : TRUE).time

LogRow(mark, body) ==
  /\ This.list
  /\ Save(Record(IF kind = "requestLog" THEN inLife + 1 ELSE Fresh, mark, body, now))
NewUser(email) ==
  /\ kind = "user" /\ FindByMark(email) = {}
  /\ Save(Record(Fresh, email, "said", now))
NewSession(mark) ==
  /\ kind = "session"
  /\ Save(Record(Fresh, mark, "said", now))
Upsert(key, mark, body) ==
  /\ kind \in {"nodeIdentity", "intentArchive", "companionMemory"}
  /\ Save(Record(key, mark, body, now))
UpsertProfile(user, mark, body) ==
  /\ kind = "creatorProfile"
  /\ Save(Record(user, mark, body, FirstTime(user)))
AnotherRow(persona, body) ==   \* mutant of UpsertPersona: its row is not looked up first
  /\ kind = "creatorPersona"
  /\ Save(Record(Fresh, persona, body, now))
UpsertPersona(persona, body) ==
  /\ kind = "creatorPersona"
  /\ LET key == IF index[persona] = 0 THEN Fresh ELSE index[persona]
     IN  Save(Record(key, persona, body, FirstTime(key)))
DeleteSession(token) ==
  /\ kind = "session" /\ token \in {r.key : r \in InRows}
  /\ Enqueue([op |-> "delete", row |-> Record(token, 0, 0, 0)])
  /\ LET i == CHOOSE i \in DOMAIN rows : rows[i].key = token
     IN  rows' = SubSeq(rows, 1, i - 1) \o SubSeq(rows, i + 1, Len(rows))
  /\ UNCHANGED index
ClearRows ==
  /\ Enqueue([op |-> "clear", row |-> Record(0, 0, 0, 0)])
  /\ rows' = <<>> /\ index' = NoIndex

-----------------------------------------------------------------------------
(* The table. *)

\* What the row of a write is, in the table: the database writes its own times.
ForgetsBody(row) ==   \* mutant of Stored: the update leaves out a column
  LET old == {r \in table : r.key = row.key}
      cell == IF old = {} THEN ToColumn(row.body) ELSE (CHOOSE r \in old : TRUE).body
  IN  [row EXCEPT !.body = cell,
                  !.time = IF This.time = "kept" THEN @
                           ELSE IF This.time = "touched" \/ old = {} THEN now
                           ELSE (CHOOSE r \in old : TRUE).time]
Stored(row) ==
  LET old == {r \in table : r.key = row.key}
  IN  [row EXCEPT !.body = ToColumn(@),
                  !.time = IF This.time = "kept" THEN @
                           ELSE IF This.time = "touched" \/ old = {} THEN now
                           ELSE (CHOOSE r \in old : TRUE).time]

Collides(op) ==
  \/ op.op = "create" /\ \E r \in table : r.key = op.row.key
  \/ /\ op.op \in {"create", "upsert"} /\ This.unique
     /\ \E r \in table : r.mark = op.row.mark /\ r.key # op.row.key

Execute1(op) ==
  CASE op.op = "clear" -> {}
    [] Collides(op) -> table
    [] op.op = "delete" -> {r \in table : r.key # op.row.key}
    [] OTHER -> {r \in table : r.key # op.row.key} \cup {Stored(op.row)}
RunPending ==
  /\ pending # <<>>
  /\ table' = Execute1(Head(pending))
  /\ refused' = (refused \/ Collides(Head(pending)))
  /\ pending' = Tail(pending)
  /\ UNCHANGED <<kind, rows, index, saves, inLife, now>>

\* hydrate: in the order asked for, or in any; rows of one instant in any.
Orders(set) ==
  {s \in [1..Cardinality(set) -> set] :
     /\ \A i, j \in DOMAIN s : i # j => s[i] # s[j]
     /\ This.ordered => \A i, j \in DOMAIN s : i < j => s[i].time <= s[j].time}
IndexOf(set) ==
  [m \in Marks |-> IF This.unique /\ ~This.list /\ \E r \in set : r.mark = m
                   THEN (CHOOSE r \in set : r.mark = m).key ELSE 0]
Restart ==   \* a crash, or a clean exit, and the next process
  /\ \E s \in Orders(table) :
       rows' = [i \in DOMAIN s |-> [s[i] EXCEPT !.body = FromColumn(@)]]
  /\ index' = IndexOf(table)
  /\ pending' = <<>> /\ inLife' = 0 /\ refused' = FALSE
  /\ UNCHANGED <<kind, table, saves, now>>

Later == now < MaxClock /\ now' = now + 1
        /\ UNCHANGED <<kind, rows, index, pending, table, saves, inLife, refused>>

ProjectionInit ==
  /\ kind \in Kinds
  /\ rows = <<>> /\ index = NoIndex /\ pending = <<>> /\ table = {}
  /\ saves = 0 /\ inLife = 0 /\ now = 0 /\ refused = FALSE

ProjectionNext ==
  \/ \E mark \in Marks, body \in Bodies : LogRow(mark, body)
  \/ \E email \in Marks : NewUser(email) \/ NewSession(email)
  \/ \E key \in RowNames, mark \in Marks, body \in Bodies :
       Upsert(key, mark, body) \/ UpsertProfile(key, mark, body)
  \/ \E persona \in Marks, body \in Bodies : UpsertPersona(persona, body)
  \/ \E token \in 1..MaxSaves : DeleteSession(token)
  \/ ClearRows \/ RunPending \/ Restart \/ Later

-----------------------------------------------------------------------------
(* Properties. *)

\* What a read returns that the next process must return too: all of a row but
\* a time that the database keeps by itself.
Answer(row) == IF This.time = "kept" THEN row ELSE [row EXCEPT !.time = 0]

\* prisma_repos.ts, header: the projection is "identical in shape" to what hydrate()
\* loads.  Once the queue has drained a process that starts answers every read as this
\* one does: the same rows, through the same second key, and lists in the same order
\* but for rows of one instant.  And no caller of the nine tables that give their rows
\* ids of their own ever has a write refused, so the queue's draining means that much.
RestartAnswersAlike ==
  /\ pending = <<>> /\ ~refused =>
       /\ {Answer(r) : r \in InRows} = {Answer([r EXCEPT !.body = FromColumn(@)]) : r \in table}
       /\ index = IndexOf(table)
       /\ This.list => \A i, j \in DOMAIN rows : i < j => rows[i].time <= rows[j].time
  /\ refused => kind = "requestLog"
=============================================================================
