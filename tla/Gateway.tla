-------------------------------- MODULE Gateway --------------------------------
(***************************************************************************)
(* The parts behind the HTTP gateway, what HOPE remembers of those who     *)
(* come through it, and what they promise together.  They share no state,  *)
(* so one behaviour moves one of them: together that is every behaviour of *)
(* each, without the product of them all.                                  *)
(***************************************************************************)
EXTENDS FrontDoor, Companion, Intake, DeepHealth, Waitlist, ProviderCall, Routes,
        HopeMemory

VARIABLE part   \* the part that this behaviour moves

Init ==
  /\ DoorInit /\ CompanionInit /\ IntakeInit /\ HealthInit /\ ListInit /\ ProviderInit
  /\ RouteInit /\ HopeInit
  /\ part \in {"door", "companion", "intake", "health", "list", "provider", "routes",
              "archive", "reflected", "exception"}
  /\ part # "provider" => call.client = Completion

Next ==
  /\ UNCHANGED part
  /\ \/ /\ part = "door" /\ DoorNext
        /\ UNCHANGED <<companionVars, intakeVars, healthVars, listVars, providerVars, routeVars, hopeVars>>
     \/ /\ part = "companion" /\ CompanionNext
        /\ UNCHANGED <<doorVars, intakeVars, healthVars, listVars, providerVars, routeVars, hopeVars>>
     \/ /\ part = "intake" /\ IntakeNext
        /\ UNCHANGED <<doorVars, companionVars, healthVars, listVars, providerVars, routeVars, hopeVars>>
     \/ /\ part = "health" /\ HealthNext
        /\ UNCHANGED <<doorVars, companionVars, intakeVars, listVars, providerVars, routeVars, hopeVars>>
     \/ /\ part = "list" /\ ListNext
        /\ UNCHANGED <<doorVars, companionVars, intakeVars, healthVars, providerVars, routeVars, hopeVars>>
     \/ /\ part = "provider" /\ ProviderNext
        /\ UNCHANGED <<doorVars, companionVars, intakeVars, healthVars, listVars, routeVars,
                       hopeVars>>
     \/ /\ part = "routes" /\ RouteNext
        /\ UNCHANGED <<doorVars, companionVars, intakeVars, healthVars, listVars,
                       providerVars, hopeVars>>
     \/ /\ \/ part = "archive" /\ ArchiveNext
           \/ part = "reflected" /\ ReflectedNext
           \/ part = "exception" /\ ExceptionNext
        /\ UNCHANGED <<doorVars, companionVars, intakeVars, healthVars, listVars,
                       providerVars, routeVars>>

\* The fairness of each part, for the behaviours that move it.
vars == <<part, doorVars, companionVars, intakeVars, healthVars, listVars, providerVars,
          routeVars, hopeVars>>
Spec ==
  /\ Init /\ [][Next]_vars
  /\ \A r \in Turns : WF_companionVars(part = "companion" /\ Finish(r))
  /\ \A i \in Intents : WF_intakeVars(part = "intake" /\ (Hold(i) \/ Submit(i)))
  /\ \A w \in Workers : WF_intakeVars(part = "intake" /\ Work(w))
  /\ \A k \in Checks : WF_healthVars(part = "health" /\ Advance(k))

\* What awaits something, a provider, a probe or the gateway, does not wait for
\* ever: every turn, utterance and deep health check is answered, and a worker's
\* job ends, whatever fails or is lost (the providers' timeouts, withTimeout,
\* post_report's timeout and count of attempts).
EverythingAnswered == EveryTurnEnds /\ IntakeAnswers /\ HealthAnswers

\* What the gateway says of others is what they said: a deep health check reports the
\* probes it made, and a provider's stream is passed on whole.
SaysWhatItHeard == HealthIsHonest /\ StreamIsWhole

\* A creator's profile, personas and earnings are that creator's, whoever's requests
\* and sessions come, go and expire around them.
CreatorsKeepTheirs == []EarningsAreTheOwners /\ OnlyOwnersChange

\* What was given is kept for whoever gave it, through every later request: a place
\* on the waiting list, and a creator's profile, personas and earnings.
ClaimsAreKept == PlacesAreKept /\ CreatorsKeepTheirs
=============================================================================
