------------------------------ MODULE Sovereignty ------------------------------
(***************************************************************************)
(* The sovereign layer (holloway/sovereign.ts, override.ts,                *)
(* designated_ledger.ts) and its bridge to KNOLL's freeze                  *)
(* (knoll/holloway_bridge.ts): one Acting Prime commands, Former Primes    *)
(* may countermand, either may compel a freeze, and the designated ledger  *)
(* records it.                                                             *)
(***************************************************************************)
EXTENDS Integers, Sequences, FiniteSets

CONSTANTS
  Primes,         \* ids of sovereigns
  First, Seeds,   \* the Acting Prime and the Former Primes at construction
  Nobody,         \* no Prime
  MaxDirectives,  \* bound: directives
  MaxRecords      \* bound: ledger records

ASSUME PrimesAssumption == First \in Primes /\ Seeds \subseteq Primes /\ Nobody \notin Primes

VARIABLES
  acting, formers,  \* SovereignAuthority's membership
  directives,       \* in order of issue: who issued it, its flags, who countermanded it
  ledger,           \* the Designated Audit Ledger
  mesh,             \* KNOLL's freeze flag
  registry,         \* whether the freeze overrides were given the registry
  identities        \* history: the identity objects there have been, each with its role

sovereignVars == <<acting, formers, directives, ledger, mesh, registry, identities>>

Identity(p, role) == [id |-> p, role |-> role]

SovereignInit ==
  /\ acting = First /\ formers = Seeds
  /\ directives = <<>> /\ ledger = <<>>
  /\ mesh = "open" /\ registry \in BOOLEAN
  /\ identities = {Identity(First, "ACTING_PRIME")} \cup {Identity(p, "FORMER_PRIME") : p \in Seeds}

\* what: the event; n: its directive; from: the Prime who stepped down; role:
\* the role that an override claimed.
Record(what, actor, n, from, role) == [what |-> what, actor |-> actor, n |-> n, from |-> from, role |-> role]
Records(s) == Len(ledger) + Len(s) <= MaxRecords /\ ledger' = ledger \o s

-----------------------------------------------------------------------------
(* SovereignAuthority. *)

Flagged(what, flag, n) == IF flag THEN <<Record(what, acting, n, Nobody, "")>> ELSE <<>>
IssueDirective(critical, anomalous) ==
  LET n == Len(directives) + 1 IN
  /\ n <= MaxDirectives
  /\ directives' = Append(directives, [issuedBy |-> acting, critical |-> critical, anomalous |-> anomalous,
                                       countermandedBy |-> Nobody])
  /\ Records(Flagged("critical", critical, n) \o Flagged("anomalous", anomalous, n))
  /\ UNCHANGED <<acting, formers, mesh, registry, identities>>

\* Any other caller, or a second countermand, changes nothing.
MayCountermand(f, n) == f \in formers /\ directives[n].countermandedBy = Nobody
Countermand(f, n) ==
  /\ MayCountermand(f, n)
  /\ directives' = [directives EXCEPT ![n].countermandedBy = f]
  /\ Records(<<Record("countermand", f, n, Nobody, "")>>)
  /\ UNCHANGED <<acting, formers, mesh, registry, identities>>

\* Nobody leaves the Former Primes: one who acts again is both.
Succeed(p) ==
  /\ formers' = formers \cup {acting} /\ acting' = p
  /\ Records(<<Record("succession", p, 0, acting, "")>>)
  /\ identities' = identities \cup {Identity(acting, "FORMER_PRIME"), Identity(p, "ACTING_PRIME")}
  /\ UNCHANGED <<directives, mesh, registry>>

-----------------------------------------------------------------------------
(* The freeze, under tokens that are minted from identities, however old. *)

LiveInAnyRole(i) == i.id = acting \/ i.id \in formers   \* mutant of Live
Live(i) ==
  \/ i.role = "ACTING_PRIME" /\ i.id = acting
  \/ i.role = "FORMER_PRIME" /\ i.id \in formers
Valid(i) == registry => Live(i)

\* applySovereignFreezeOverride, with the ledger.
Override(i, to) ==
  /\ i \in identities /\ Valid(i)
  /\ mesh' = to
  /\ Records(<<Record(to, i.id, 0, Nobody, i.role)>>)
  /\ UNCHANGED <<acting, formers, directives, registry, identities>>

\* SystemFreezeController.unfreeze with a token that its recogniser accepts, or
\* with a string of the old shape, which it accepts from anybody; and a trigger by
\* a packet.  None of them is recorded here.
OldShape == Identity(Nobody, "")
Unfreeze(i) ==
  /\ mesh = "frozen"
  /\ i = OldShape \/ (i \in identities /\ Valid(i))
  /\ mesh' = "open"
  /\ UNCHANGED <<acting, formers, directives, ledger, registry, identities>>
Trigger ==
  /\ mesh = "open" /\ mesh' = "frozen"
  /\ UNCHANGED <<acting, formers, directives, ledger, registry, identities>>

-----------------------------------------------------------------------------
SovereignNext ==
  \/ \E critical, anomalous \in BOOLEAN : IssueDirective(critical, anomalous)
  \/ \E f \in Primes, n \in DOMAIN directives : Countermand(f, n)
  \/ \E p \in Primes : Succeed(p)
  \/ \E i \in identities, to \in {"open", "frozen"} : Override(i, to)
  \/ \E i \in identities \cup {OldShape} : Unfreeze(i)
  \/ Trigger

SovereignSpec == SovereignInit /\ [][SovereignNext]_sovereignVars

-----------------------------------------------------------------------------
(* Properties. *)

Roles == {"ACTING_PRIME", "FORMER_PRIME"}
Directives == [issuedBy : Primes, critical : BOOLEAN, anomalous : BOOLEAN, countermandedBy : Primes \cup {Nobody}]
LedgerRecords ==
  [what : {"critical", "anomalous", "countermand", "succession", "open", "frozen"}, actor : Primes,
   n : Nat, from : Primes \cup {Nobody}, role : Roles \cup {""}]
SovereignTypeOK ==
  /\ acting \in Primes /\ formers \subseteq Primes
  /\ directives \in Seq(Directives) /\ ledger \in Seq(LedgerRecords)
  /\ mesh \in {"open", "frozen"} /\ registry \in BOOLEAN
  /\ identities \subseteq [id : Primes, role : Roles]

\* Who commanded and who could veto when the k-th record was written, as the
\* records before it tell it.
Successions(k) == {j \in 1..(k - 1) : ledger[j].what = "succession"}
FormersAt(k) == Seeds \cup {ledger[j].from : j \in Successions(k)}
IsActingAt(p, k) ==
  \/ Successions(k) = {} /\ p = First
  \/ \E j \in Successions(k) : p = ledger[j].actor /\ \A i \in Successions(k) : i <= j
About(what, n) == {k \in DOMAIN ledger : ledger[k].what = what /\ ledger[k].n = n}

\* The ledger alone tells the history of the sovereigns: who acts and who are
\* Former Primes; and each directive that was flagged or countermanded has one
\* record of it, under the Prime who then acted and, for a countermand, the Prime
\* the directive names, who was a Former Prime then (sovereign.ts: the event
\* classes that the ledger must never lose or repeat).
LedgerTellsHistory ==
  /\ IsActingAt(acting, Len(ledger) + 1) /\ formers = FormersAt(Len(ledger) + 1)
  /\ \A n \in DOMAIN directives :
       LET d == directives[n] IN
       /\ Cardinality(About("critical", n)) = IF d.critical THEN 1 ELSE 0
       /\ Cardinality(About("anomalous", n)) = IF d.anomalous THEN 1 ELSE 0
       /\ \A k \in About("critical", n) \cup About("anomalous", n) :
            ledger[k].actor = d.issuedBy /\ IsActingAt(d.issuedBy, k)
       /\ Cardinality(About("countermand", n)) = IF d.countermandedBy = Nobody THEN 0 ELSE 1
       /\ \A k \in About("countermand", n) : ledger[k].actor = d.countermandedBy /\ ledger[k].actor \in FormersAt(k)

\* With the registry, a freeze or an unfreeze that the bridge recorded was
\* compelled by a sovereign in the role that its token claims, held at that very
\* moment: the token of an Acting Prime is dead after the succession, though its
\* issuer, a Former Prime now, may sign another.
OverridesWereLive == registry => \A k \in DOMAIN ledger :
  /\ ledger[k].role = "ACTING_PRIME" => IsActingAt(ledger[k].actor, k)
  /\ ledger[k].role = "FORMER_PRIME" => ledger[k].actor \in FormersAt(k)

\* Who rules, and who overrode what, is accountable: the ledger tells the history
\* of the sovereigns and no override was accepted under a role that had passed.
SovereigntyIsAccountable == LedgerTellsHistory /\ OverridesWereLive
=============================================================================
