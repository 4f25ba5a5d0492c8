------------------------------- MODULE MCGateway -------------------------------
(***************************************************************************)
(* Small instances of the parts behind the gateway for TLC.                *)
(***************************************************************************)
EXTENDS Gateway

CONSTANTS
  ip1, ip2, tenant,             \* FrontDoor
  r1, r2, ada, bea, luna,       \* Companion
  intent1, worker1,             \* Intake
  postgres, redis,              \* DeepHealth
  eve, fay, yes, no             \* Waitlist

TwoAddresses == {ip1, ip2}
OneTenant == {tenant}
TwoTurns == {r1, r2}
TwoPeople == {ada, bea}
OneCompanion == {luna}
OneIntent == {intent1}
OneWorker == {worker1}
TwoDependencies == {postgres, redis}
TwoEmails == {eve, fay}
TwoDetails == {yes, no}
TwoTexts == {"x", "y"}
SameIsNearer == [a \in TwoTexts |-> [b \in TwoTexts |-> IF a = b THEN 2 ELSE 1]]
TwoCollide == [p \in {"u", "v", "w"} |-> IF p = "w" THEN "reflected-w" ELSE "reflected-uv"]
=============================================================================
