------------------------------ MODULE AuditChain ------------------------------
(***************************************************************************)
(* The hash chain over KNOLL's audit log (knoll/hashchain.ts,              *)
(* knoll/audit.ts), fed by verdicts and by the probes of the active router *)
(* (knoll/active_router.ts), while somebody with write access edits, drops *)
(* and moves entries.                                                      *)
(*                                                                         *)
(* A hash is what it was computed from: no two contents share one.         *)
(***************************************************************************)
EXTENDS Integers, Sequences, FiniteSets

CONSTANTS
  Surfaces,    \* the surfaces KNOLL probes
  Packets,     \* packets it passes a verdict on
  Outcomes,    \* what a verdict comes to
  Readings,    \* what a probe says of its surface, or "unreachable"
  Spoilt,      \* what an edit puts into an entry
  MaxEntries   \* bound: entries recorded

ASSUME ChainAssumption == MaxEntries \in Nat

VARIABLES
  content,  \* [entry ids -> content]: the entry objects, which log and chain share
  entries,      \* SecurityAuditLog.entries: ids
  links,    \* AuditHashChain.links
  sealed    \* history: [positions -> the content that was sealed there]

chainVars == <<content, entries, links, sealed>>

Genesis == "genesis"
HashEntry(c) == c
LinkHash(i, prev, entryHash) == <<i, prev, entryHash>>

ChainInit == content = <<>> /\ entries = <<>> /\ links = <<>> /\ sealed = <<>>

-----------------------------------------------------------------------------
(* SecurityAuditLog.record, with AuditHashChain.append; and rebuild. *)

Link(ls, e, c) ==
  LET prev == IF ls = <<>> THEN Genesis ELSE ls[Len(ls)].hash IN
  [index |-> Len(ls), entry |-> e, entryHash |-> HashEntry(c), prevHash |-> prev,
   hash |-> LinkHash(Len(ls), prev, HashEntry(c))]

RecordEntry(packet, outcome) ==
  LET c == [id |-> Len(content) + 1, packet |-> packet, outcome |-> outcome] IN
  /\ Len(content) < MaxEntries
  /\ content' = Append(content, c)
  /\ entries' = Append(entries, c.id)
  /\ links' = Append(links, Link(links, c.id, c))
  /\ sealed' = Append(sealed, c)

Verdict(packet, outcome) == RecordEntry(packet, outcome)

\* sample: a probe that throws or is missing is unreachable; its reading is
\* recorded as ALLOWED whatever it is.
Sample(surface, status) == RecordEntry(<<surface, status>>, "ALLOWED")

\* The hashes of the chain over the entries as it is: append, entry after entry.
LogHash[i \in 0..MaxEntries] ==
  IF i = 0 THEN Genesis
  ELSE IF i > Len(entries) THEN LogHash[i - 1] ELSE LinkHash(i - 1, LogHash[i - 1], HashEntry(content[entries[i]]))

Rebuild ==
  /\ links' = [i \in DOMAIN entries |->
       [index |-> i - 1, entry |-> entries[i], entryHash |-> HashEntry(content[entries[i]]),
        prevHash |-> LogHash[i - 1], hash |-> LogHash[i]]]
  /\ sealed' = [i \in DOMAIN entries |-> content[entries[i]]]
  /\ UNCHANGED <<content, entries>>

\* Writers of the store: an entry edited in place, one dropped, two swapped.
Edit(i) ==
  /\ content' = [content EXCEPT ![entries[i]].packet = Spoilt]
  /\ UNCHANGED <<entries, links, sealed>>
Drop(i) ==
  /\ entries' = SubSeq(entries, 1, i - 1) \o SubSeq(entries, i + 1, Len(entries))
  /\ UNCHANGED <<content, links, sealed>>
Swap(i) ==
  /\ i < Len(entries)
  /\ entries' = [entries EXCEPT ![i] = entries[i + 1], ![i + 1] = entries[i]]
  /\ UNCHANGED <<content, links, sealed>>

ChainNext ==
  \/ \E p \in Packets, outcome \in Outcomes : Verdict(p, outcome)
  \/ \E s \in Surfaces, status \in Readings : Sample(s, status)
  \/ Rebuild
  \/ \E i \in DOMAIN entries : Edit(i) \/ Drop(i) \/ Swap(i)

ChainSpec == ChainInit /\ [][ChainNext]_chainVars

-----------------------------------------------------------------------------
(* verifyLinks and detectTamper: the 0-based index of the first broken link,  *)
(* or -1.                                                                     *)

Least(S) == IF S = {} THEN -1 ELSE CHOOSE i \in S : \A j \in S : i <= j

Broken(i) ==
  LET link == links[i] IN
  \/ link.index # i - 1
  \/ link.prevHash # IF i = 1 THEN Genesis ELSE links[i - 1].hash
  \/ HashEntry(content[link.entry]) # link.entryHash
  \/ LinkHash(i - 1, link.prevHash, link.entryHash) # link.hash
Verify == Least({i - 1 : i \in {j \in DOMAIN links : Broken(j)}})

Changed(i) == LogHash[i] # links[i].hash
IgnoreLength == Least({i - 1 : i \in {j \in DOMAIN entries \cap DOMAIN links : Changed(j)}})   \* mutant of DetectTamper
DetectTamper ==
  IF Len(entries) # Len(links) THEN (IF Len(entries) < Len(links) THEN Len(entries) ELSE Len(links))
  ELSE Least({i - 1 : i \in {j \in DOMAIN entries : Changed(j)}})

-----------------------------------------------------------------------------
(* Properties. *)

ChainTypeOK ==
  /\ DOMAIN sealed = DOMAIN links /\ Len(content) <= MaxEntries
  /\ \A i \in DOMAIN entries : entries[i] \in DOMAIN content

\* detectTamper finds the entries changed exactly if it no longer says, entry for
\* entry, what was sealed, whatever edits, drops, moves and later records there
\* were, and names the first entry that differs unless the number of entries
\* changed; verify finds exactly the edits of sealed entries (hashchain.ts: "Any
\* edit, reorder, insertion, or deletion surfaces").
TamperIsTold ==
  LET now == [i \in DOMAIN entries |-> content[entries[i]]]
      differs == {i \in DOMAIN sealed : now[i] # sealed[i]}
      edited == {i \in DOMAIN links : content[links[i].entry] # sealed[i]}
  IN
  /\ DetectTamper = -1 <=> now = sealed
  /\ Len(entries) = Len(sealed) /\ now # sealed => DetectTamper = Least({i - 1 : i \in differs})
  /\ Verify = Least({i - 1 : i \in edited})
=============================================================================
