----------------------------- MODULE VirtualLaws -----------------------------
(***************************************************************************)
(* The contract every packet travels under and the eight virtual laws that *)
(* KNOLL applies to it (config/routing_schema.ts, config/duty.ts,          *)
(* knoll/laws.ts, apex/packet.ts).                                         *)
(*                                                                         *)
(* A packet is abstracted to what a law, the scorer or a handler reads:    *)
(* its endpoints, the duty its payload asks for, where APEX should forward *)
(* it, whether the envelope is intact (body), and how suspicious its       *)
(* content looks on its own (content, in thousandths of the anomaly        *)
(* score).  internal distinguishes the packets a handler mints through     *)
(* sendViaApex, which no caller ever holds, from those a caller dispatches.*)
(***************************************************************************)
EXTENDS Naturals

CONSTANT Tenants    \* the tenants a packet header may name

NoTenant == "NO_TENANT"
ASSUME TenantsAssumption == NoTenant \notin Tenants

\* A header's endpoint is any string: one of AgentRole's, or another.
AgentRoles == {"HOPE", "DREAM", "VISION", "KNOLL", "APEX"}
Roles == AgentRoles \cup {"STRANGER"}
Duties == {"GOVERNANCE", "EXECUTION", "CREATION"}

NoDuty == "NO_DUTY"
NoRole == "NO_ROLE"

\* What the envelope is worth.  createPacket only ever builds "clean" and
\* "malicious" ones; a packet handed to dispatch by a caller can be any.
Bodies == {"clean",        \* intact, nothing a pattern of LAW 6 matches
           "malicious",    \* intact, text matched by a pattern of LAW 6
           "emptyIntent",  \* intact, but the intent is the empty string
           "badToken",     \* knoll_token is not well formed
           "tampered",     \* the hash is not the hash of header and payload
           "garbage"}      \* not of the shape of a RoutingPacket

Packets == [source : Roles, destination : Roles, body : Bodies,
            duty : Duties \cup {NoDuty},
            suggested : AgentRoles \cup {NoRole},
            tenant : Tenants \cup {NoTenant},
            content : Nat, internal : BOOLEAN]

IsRoutingPacket(p) == p.body # "garbage"
HashMatches(p) == p.body # "tampered"

-----------------------------------------------------------------------------
(* The duties of the Primary Triad. *)

RoleDuty == [HOPE |-> "GOVERNANCE", VISION |-> "EXECUTION", DREAM |-> "CREATION"]
PrimaryTriad == DOMAIN RoleDuty
Forbidden(role) == Duties \ {RoleDuty[role]}

-----------------------------------------------------------------------------
(* The laws, in the order of VIRTUAL_LAWS. *)

LawTokenWellFormed(p) == p.body # "badToken"

LawValidEndpoints(p) ==
  {p.source, p.destination} \subseteq AgentRoles /\ p.source # p.destination

LawNoDirectDreamVision(p) ==
  <<p.source, p.destination>> \notin {<<"DREAM", "VISION">>, <<"VISION", "DREAM">>}

LawNoKnollForgery(p) == p.source # "KNOLL"

LawHopeCannotCommand(p) ==
  ~ (p.source = "HOPE" /\ p.destination \in {"VISION", "DREAM"})

LawNoMaliciousIntent(p) == p.body # "malicious"

\* sourceTenant is context.sourceTenantId.  ApexRouter calls intercept(packet)
\* without a context, so on the dispatch path it is always NoTenant.
LawNoCrossTenant(p, sourceTenant) ==
  NoTenant \in {p.tenant, sourceTenant} \/ p.tenant = sourceTenant

LawPrimaryTriadDuty(p) ==
  p.destination \in PrimaryTriad => p.duty \notin Forbidden(p.destination)

VirtualLawsHold(p, sourceTenant) ==
  /\ LawTokenWellFormed(p)
  /\ LawValidEndpoints(p)
  /\ LawNoDirectDreamVision(p)
  /\ LawNoKnollForgery(p)
  /\ LawHopeCannotCommand(p)
  /\ LawNoMaliciousIntent(p)
  /\ LawNoCrossTenant(p, sourceTenant)
  /\ LawPrimaryTriadDuty(p)

-----------------------------------------------------------------------------
(* Inherent risk of a (source -> destination) pair, weight 0.15, in        *)
(* thousandths: ENDPOINT_RISK of knoll/features.ts, 0.25 when absent.      *)

EndpointRisk(src, dst) ==
  CASE <<src, dst>> = <<"APEX", "VISION">> -> 90
    [] <<src, dst>> \in {<<"APEX", "DREAM">>, <<"VISION", "HOPE">>, <<"VISION", "APEX">>} -> 30
    [] <<src, dst>> \in {<<"APEX", "HOPE">>, <<"HOPE", "APEX">>} -> 15
    [] <<src, dst>> \in {<<"DREAM", "HOPE">>, <<"DREAM", "APEX">>} -> 22
    [] OTHER -> 37
==============================================================================
