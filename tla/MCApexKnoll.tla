----------------------------- MODULE MCApexKnoll -----------------------------
(***************************************************************************)
(* A small instance of ApexKnoll for TLC.  The thresholds, the weights and *)
(* the reputation steps are the code's; the soft cap of the rate feature,  *)
(* the rate limit and the windows are small so that they are reached.      *)
(***************************************************************************)
EXTENDS ApexKnoll

CallerPacket(source, destination, body, duty, suggested, tenant, content) ==
  [source |-> source, destination |-> destination, body |-> body, duty |-> duty,
   suggested |-> suggested, tenant |-> tenant, content |-> content, internal |-> FALSE]

\* HOPE asks APEX for a simulation, for an execution whose content is close to
\* the threshold, and for a creation addressed to VISION.
Simulate == CallerPacket("HOPE", "APEX", "clean", "CREATION", "DREAM", NoTenant, 50)
Execute == CallerPacket("HOPE", "APEX", "clean", "EXECUTION", "VISION", "t1", 195)
Confused == CallerPacket("HOPE", "APEX", "clean", "CREATION", "VISION", NoTenant, 50)
\* A caller dispatches straight to VISION, at the edge of the threshold.
Edge == CallerPacket("APEX", "VISION", "clean", "EXECUTION", NoRole, NoTenant, 160)
\* Packets some law, or the envelope check, must stop.
Illegal == CallerPacket("DREAM", "VISION", "clean", NoDuty, NoRole, NoTenant, 0)
Tampered == CallerPacket("HOPE", "APEX", "tampered", NoDuty, "DREAM", NoTenant, 0)
Garbage == CallerPacket("HOPE", "APEX", "garbage", NoDuty, NoRole, NoTenant, 0)
Empty == CallerPacket("HOPE", "APEX", "emptyIntent", NoDuty, "DREAM", NoTenant, 0)
\* A packet for a role nobody handles, and one for none of the roles.
Unhandled == CallerPacket("VISION", "KNOLL", "clean", NoDuty, NoRole, NoTenant, 0)
Unknown == CallerPacket("HOPE", "STRANGER", "clean", NoDuty, NoRole, NoTenant, 0)

EdgeArrivals == {Edge}
AllArrivals ==
  {Simulate, Execute, Confused, Edge, Illegal, Tampered, Garbage, Empty, Unhandled,
   Unknown}
==============================================================================
