------------------------------ MODULE HopeMemory ------------------------------
(***************************************************************************)
(* What HOPE remembers (hope/memory.ts, hope/reflected/): the archive of   *)
(* intents that several memories may share as one vector store, recalled   *)
(* per tenant by similarity; the Reflected Hopes, a container per user     *)
(* that is filled on consent and dropped on request; and the tactical      *)
(* intel exception with its log.                                           *)
(***************************************************************************)
EXTENDS Naturals, Sequences, FiniteSets

CONSTANTS
  Minds,         \* IntentMemory instances over one store
  Texts,         \* what may be remembered or asked
  Likeness,      \* cosineSimilarity: text x text -> Nat
  HopeTenants, NoTenant,
  HowMany,       \* k of a recall
  Owners,        \* userIds
  ReflectedIds, ReflectedId,   \* reflectedId(userId): a slug and a 32-bit hash
  MaxRemembered, MaxObserved, MaxLogged, MaxMillis   \* bounds

\* Two userIds may have one reflected id, which the comment at segmentation.ts:22 rules
\* out and a hash of 32 bits does not.
ASSUME ReflectedAssumption == ReflectedId \in [Owners -> ReflectedIds] /\ NoTenant \notin HopeTenants
ASSUME LikenessAssumption == Likeness \in [Texts -> [Texts -> Nat]] /\ HowMany \subseteq Nat

VARIABLES
  store,       \* InMemoryVectorStore: id -> [text, tenant]
  idCounter,   \* counter of each memory
  wrote,       \* history: every remember, in order: its id, text, tenant
  millis,
  consent,     \* OptInConsent: userId -> choice
  containers,  \* ReflectedHopeRegistry: reflected id -> container object, 0 for none
  notes,       \* the observations in each container object ever made: which of all
               \* observations it is, and who agreed to its collection, if anybody was asked
  taken,       \* history: observations so far
  forgotten,   \* history: how many had been taken when a user was last forgotten
  exception,   \* TacticalIntelException: [enabled, purpose]
  log

memoryVars == <<store, idCounter, wrote, millis>>
reflectedVars == <<consent, containers, notes, taken, forgotten>>
hopeVars == <<memoryVars, reflectedVars, exception, log>>

-----------------------------------------------------------------------------
(* IntentMemory and InMemoryVectorStore. *)

\* A fresh id is the millisecond and the memory's own counter.  A caller may name
\* one instead, its own or one given out before, for whichever tenant it was.
NewId(mind) == <<millis, idCounter[mind], "fresh">>
NoId == <<0, 0, "none">>
Named == {<<0, 0, "own">>} \cup {wrote[i].id : i \in DOMAIN wrote}
Stored(id, text, tenant) ==
  [i \in DOMAIN store \cup {id} |->
     IF i = id THEN [text |-> text, tenant |-> tenant] ELSE store[i]]
Remember(mind, text, tenant, own) ==
  /\ Len(wrote) < MaxRemembered
  /\ LET id == IF own = NoId THEN NewId(mind) ELSE own
     IN  /\ store' = Stored(id, text, tenant)
         /\ wrote' = Append(wrote, [id |-> id, text |-> text, tenant |-> tenant,
                                     mind |-> mind, fresh |-> own = NoId])
  /\ idCounter' = IF own = NoId THEN [idCounter EXCEPT ![mind] = @ + 1] ELSE idCounter
  /\ UNCHANGED <<millis, reflectedVars, exception, log>>
Millisecond ==
  /\ millis < MaxMillis /\ millis' = millis + 1
  /\ UNCHANGED <<store, idCounter, wrote, reflectedVars, exception, log>>

\* query: the tenant's own, most similar first and then by id, at most k.
Everybody(tenant) == DOMAIN store   \* mutant of Considered: the filter is left out
Considered(tenant) == {id \in DOMAIN store : tenant # NoTenant => store[id].tenant = tenant}
Near(asked, id) == Likeness[asked][store[id].text]
\* Of two as near the comparison of their ids decides; here either may be the first.
Rankings(asked, ids) ==
  {order \in [1..Cardinality(ids) -> ids] :
     /\ \A id \in ids : \E n \in DOMAIN order : order[n] = id
     /\ \A m, n \in DOMAIN order : m < n => Near(asked, order[m]) >= Near(asked, order[n])}
Slice(order, k) == SubSeq(order, 1, IF k < Len(order) THEN k ELSE Len(order))
Recall(asked, tenant, k) == {Slice(order, k) : order \in Rankings(asked, Considered(tenant))}

-----------------------------------------------------------------------------
(* ReflectedHopeRegistry and OptInConsent. *)

ObjectOf(person) == containers[ReflectedId[person]]
Observation(asked) == [nth |-> taken + 1, agreed |-> asked]   \* of whom consent was asked
\* containerFor: lazily a new, empty one.
ContainerFor(person, filled) ==
  IF ObjectOf(person) # 0
  THEN /\ notes' = [notes EXCEPT ![ObjectOf(person)] = @ \o filled]
       /\ UNCHANGED containers
  ELSE /\ notes' = Append(notes, filled)
       /\ containers' = [containers EXCEPT ![ReflectedId[person]] = Len(notes) + 1]

Choose(person, choice) ==
  /\ consent' = [consent EXCEPT ![person] = choice]
  /\ UNCHANGED <<containers, notes, taken, forgotten, memoryVars, exception, log>>
Collect(person) ==
  /\ taken < MaxObserved
  /\ IF consent[person] = "in"
     THEN /\ ContainerFor(person, <<Observation({person})>>)
          /\ taken' = taken + 1
     ELSE UNCHANGED <<containers, notes, taken>>
  /\ UNCHANGED <<consent, forgotten, memoryVars, exception, log>>
\* A caller may fetch a container and keep it: record asks for nobody's consent.
Fetch(person) ==
  /\ ObjectOf(person) = 0 /\ Len(notes) < MaxObserved
  /\ ContainerFor(person, <<>>)
  /\ UNCHANGED <<consent, taken, forgotten, memoryVars, exception, log>>
RecordInto(object) ==
  /\ taken < MaxObserved /\ taken' = taken + 1
  /\ notes' = [notes EXCEPT ![object] = Append(@, Observation({}))]
  /\ UNCHANGED <<consent, containers, forgotten, memoryVars, exception, log>>
KeepsNotes(person) == notes   \* mutant of Forgotten: the container is dropped as it is
Forgotten(person) ==
  [o \in DOMAIN notes |-> IF o = ObjectOf(person) THEN <<>> ELSE notes[o]]
Forget(person) ==
  /\ consent' = [consent EXCEPT ![person] = "out"]
  /\ notes' = Forgotten(person)
  /\ containers' = [containers EXCEPT ![ReflectedId[person]] = 0]
  /\ forgotten' = [forgotten EXCEPT ![person] = taken]
  /\ UNCHANGED <<taken, memoryVars, exception, log>>

-----------------------------------------------------------------------------
(* TacticalIntelException: what it refuses leaves everything as it was. *)

Purposes == {"SECURITY_VERIFICATION", "AUDIT"}
Logged(event, purpose) == log' = Append(log, [event |-> event, purpose |-> purpose])
Enable(purpose) ==
  /\ Len(log) < MaxLogged
  /\ exception' = [enabled |-> TRUE, purpose |-> purpose] /\ Logged("ENABLE", purpose)
  /\ UNCHANGED <<memoryVars, reflectedVars>>
Disable ==
  /\ Len(log) < MaxLogged
  /\ exception' = [enabled |-> FALSE, purpose |-> "none"]
  /\ Logged("DISABLE", IF exception.purpose = "none" THEN "AUDIT" ELSE exception.purpose)
  /\ UNCHANGED <<memoryVars, reflectedVars>>
ApplyManipulation ==
  /\ Len(log) < MaxLogged /\ exception.enabled /\ exception.purpose # "none"
  /\ Logged("MANIPULATE", exception.purpose)
  /\ UNCHANGED <<exception, memoryVars, reflectedVars>>

HopeInit ==
  /\ store = [i \in {} |-> {}] /\ idCounter = [mind \in Minds |-> 0] /\ wrote = <<>> /\ millis = 0
  /\ consent = [p \in Owners |-> "none"] /\ containers = [r \in ReflectedIds |-> 0]
  /\ notes = <<>> /\ taken = 0 /\ forgotten = [p \in Owners |-> 0]
  /\ exception = [enabled |-> FALSE, purpose |-> "none"] /\ log = <<>>
ArchiveNext ==
  \/ \E mind \in Minds, text \in Texts, tenant \in HopeTenants, own \in Named \cup {NoId} :
       Remember(mind, text, tenant, own)
  \/ Millisecond
ReflectedNext ==
  \/ \E p \in Owners : \/ \E choice \in {"in", "out"} : Choose(p, choice)
                       \/ Collect(p) \/ Fetch(p) \/ Forget(p)
  \/ \E o \in DOMAIN notes : RecordInto(o)
ExceptionNext ==
  \/ \E purpose \in Purposes : Enable(purpose)
  \/ Disable \/ ApplyManipulation
HopeNext == ArchiveNext \/ ReflectedNext \/ ExceptionNext

-----------------------------------------------------------------------------
(* Properties. *)

LastOf(id) == CHOOSE i \in DOMAIN wrote :
                wrote[i].id = id /\ \A j \in DOMAIN wrote : wrote[j].id = id => j <= i

\* memory.ts: "tenant isolation".  What a tenant recalls is what was last remembered
\* under each id, its own and no other's, the nearest first, and of those it leaves out
\* none is nearer.  Of two intents that were both given a fresh id neither replaces the
\* other, unless two memories over one store count to that id in one millisecond.  (An
\* id that a caller names replaces what is there, another tenant's included.)
RecallIsOwn ==
  /\ \A asked \in Texts, tenant \in HopeTenants \cup {NoTenant}, k \in HowMany :
       \A found \in Recall(asked, tenant, k) :
         /\ Len(found) <= k
         /\ \A n \in DOMAIN found :
              LET last == wrote[LastOf(found[n])]
              IN  /\ store[found[n]] = [text |-> last.text, tenant |-> last.tenant]
                  /\ tenant # NoTenant => last.tenant = tenant
                  /\ \A m \in 1..n : Near(asked, found[m]) >= Near(asked, found[n])
         /\ \A i \in DOMAIN wrote :
              LET id == wrote[i].id
              IN  (/\ i = LastOf(id) /\ tenant \in {wrote[i].tenant, NoTenant}
                   /\ \A n \in DOMAIN found : found[n] # id) =>
                     Len(found) = k /\ \A n \in DOMAIN found : Near(asked, found[n]) >= Near(asked, id)
  /\ \A i, j \in DOMAIN wrote :
       i # j /\ wrote[i].id = wrote[j].id /\ wrote[i].fresh /\ wrote[j].fresh =>
         wrote[i].mind # wrote[j].mind

\* reflected_hope.ts, forget: "right to be forgotten".  Whatever was collected with a
\* user's consent is in the container of the user's reflected id and in no other, not
\* even one that a caller has kept; none of it is from before that user was last
\* forgotten, or any other whose userId has the same reflected id; and nothing was
\* collected of anybody who had not chosen.
ForgottenForGood ==
  \A o \in DOMAIN notes : \A n \in DOMAIN notes[o] : \A who \in notes[o][n].agreed :
    /\ consent[who] # "none" /\ ObjectOf(who) = o
    /\ \A p \in Owners : ReflectedId[p] = ReflectedId[who] => notes[o][n].nth > forgotten[p]

\* intel_exception.ts: "Every use is logged".  From the log alone: every manipulation
\* was made under the purpose last enabled, and none after it was disabled.
ManipulationIsAccounted ==
  \A i \in DOMAIN log : log[i].event = "MANIPULATE" =>
    \E j \in 1..(i - 1) :
      /\ log[j].event = "ENABLE" /\ log[j].purpose = log[i].purpose
      /\ \A k \in (j + 1)..(i - 1) : log[k].event = "MANIPULATE"

HopeKeepsApart == RecallIsOwn /\ ForgottenForGood /\ ManipulationIsAccounted
=============================================================================
