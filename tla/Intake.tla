-------------------------------- MODULE Intake --------------------------------
(***************************************************************************)
(* The two ways into the router over HTTP (gateway/server.ts): a person's  *)
(* utterance, whose handler awaits the enricher between interpreting and   *)
(* submitting, and the report of a worker's job (colab/worker_job.py),     *)
(* which is posted again when no good answer comes.  The network between   *)
(* the worker and the gateway delays and loses requests and answers.       *)
(*                                                                         *)
(* What a dispatch does inside the router is module ApexKnoll: here it     *)
(* leaves one ledger row with a status.                                    *)
(***************************************************************************)
EXTENDS Naturals, FiniteSets

CONSTANTS
  Intents,      \* the intents in flight: one slot each
  Workers,      \* the jobs: each runs one batch and reports it
  Hope,         \* the sender of what an intent submits
  Retries,      \* attempts of post_report: 3
  MaxIntents    \* bound: intents

ASSUME RetriesAssumption == Retries \in Nat \ {0}
ASSUME MaxIntentsAssumption == MaxIntents \in Nat
\* The rows a worker's report leaves are told from those of an utterance.
ASSUME SendersAssumption == Hope \notin Workers

VARIABLES
  intent,    \* [Intents -> "idle", or the confidence read before the await]
  heard,     \* intents so far
  frozen,    \* KNOLL has the mesh frozen
  ledger,    \* [Workers and Hope -> [Statuses -> rows]]
  job,       \* [Workers -> where the job is, which attempt, and how it exited]
  wire,      \* requests and answers on the network
  silent     \* history: [Workers -> attempts given up with no answer]

router == <<frozen, ledger>>
intakeVars == <<intent, heard, router, job, wire, silent>>

Statuses == {"SUCCESS", "BLOCKED", "FAILED"}

IntakeInit ==
  /\ intent = [i \in Intents |-> "idle"] /\ heard = 0
  /\ frozen = FALSE /\ ledger = [s \in Workers \cup {Hope} |-> [status \in Statuses |-> 0]]
  /\ job = [w \in Workers |-> [step |-> "batch", attempt |-> 0, exit |-> "none"]]
  /\ wire = {} /\ silent = [w \in Workers |-> 0]

\* sendViaApex: a frozen mesh blocks what a lawful packet could reach otherwise.  It is
\* looked at before the handler runs: a packet of the dispatch's own tree may trip the
\* freeze, and the outer row, of a success too, is then entered on a frozen mesh.
Outcomes == IF frozen THEN {"BLOCKED"} ELSE Statuses
Dispatch(sender, status) ==
  /\ status \in Outcomes
  /\ ledger' = [ledger EXCEPT ![sender][status] = @ + 1]
  /\ frozen' \in {frozen, TRUE}

-----------------------------------------------------------------------------
(* handleIntent. *)

Hear(i, confidence) ==
  /\ intent[i] = "idle" /\ heard < MaxIntents /\ heard' = heard + 1
  /\ intent' = [intent EXCEPT ![i] = confidence]
  /\ UNCHANGED <<router, job, wire, silent>>

\* The enricher has answered or failed: its text changes nothing else, and
\* interpreting the utterance again gives the same confidence.
Hold(i) ==
  /\ intent[i] = "vague"
  /\ intent' = [intent EXCEPT ![i] = "idle"]
  /\ UNCHANGED <<heard, router, job, wire, silent>>
Submit(i) ==
  /\ intent[i] = "clear"
  /\ \E status \in Statuses : Dispatch(Hope, status)
  /\ intent' = [intent EXCEPT ![i] = "idle"]
  /\ UNCHANGED <<heard, job, wire, silent>>

-----------------------------------------------------------------------------
(* The worker's side: post_report and main. *)

Request(w, n) == [kind |-> "request", worker |-> w, attempt |-> n]
Reply(w, n, code) == [kind |-> "answer", worker |-> w, attempt |-> n, code |-> code]

Post(w, n) ==
  /\ job' = [job EXCEPT ![w] = [step |-> "posted", attempt |-> n, exit |-> "none"]]
  /\ wire' = wire \cup {Request(w, n)}
Exit(w, code) ==
  /\ job' = [job EXCEPT ![w].step = "exited", ![w].exit = code]
  /\ UNCHANGED wire

\* run_batch has validated the slice and the report and finished the batch.
Report(w) ==
  /\ job[w].step = "batch"
  /\ Post(w, 1)
  /\ UNCHANGED <<intent, heard, router, silent>>

Again(w) == IF job[w].attempt < Retries THEN Post(w, job[w].attempt + 1) ELSE Exit(w, "failed")

\* 2xx ends the job well, 4xx ends it, anything else is tried again.
SuccessIsRetried == [ok |-> "again", refused |-> "rejected", error |-> "again"]   \* mutant of Verdict
Verdict == [ok |-> "done", refused |-> "rejected", error |-> "again"]
Answered(w) == \E m \in wire :
  /\ m.kind = "answer" /\ m.worker = w /\ job[w].step = "posted" /\ m.attempt = job[w].attempt
  /\ IF Verdict[m.code] = "again" THEN Again(w) ELSE Exit(w, Verdict[m.code])
  /\ UNCHANGED <<intent, heard, router, silent>>

TimeOut(w) ==
  /\ job[w].step = "posted"
  /\ Again(w)
  /\ silent' = [silent EXCEPT ![w] = @ + 1]
  /\ UNCHANGED <<intent, heard, router>>

-----------------------------------------------------------------------------
(* The gateway's side: handleWorkerReport, and what stands before it. *)

CodeOf(status) == CASE status = "SUCCESS" -> "ok" [] status = "BLOCKED" -> "refused" [] status = "FAILED" -> "error"

Ingest(w, n) ==
  /\ Request(w, n) \in wire
  /\ \E status \in Statuses :
       Dispatch(w, status) /\ wire' = (wire \ {Request(w, n)}) \cup {Reply(w, n, CodeOf(status))}
  /\ UNCHANGED <<intent, heard, job, silent>>

\* The guards refuse it (401, 429), or reading its body fails (500): no dispatch.
TurnAway(w, n) ==
  /\ Request(w, n) \in wire
  /\ \E code \in {"refused", "error"} :
       wire' = (wire \ {Request(w, n)}) \cup {Reply(w, n, code)}
  /\ UNCHANGED <<intent, heard, router, job, silent>>

Lose == \E m \in wire : wire' = wire \ {m} /\ UNCHANGED <<intent, heard, router, job, silent>>

Freezes == ~frozen /\ frozen' = TRUE /\ UNCHANGED <<intent, heard, ledger, job, wire, silent>>
Thaws == frozen /\ frozen' = FALSE /\ UNCHANGED <<intent, heard, ledger, job, wire, silent>>

-----------------------------------------------------------------------------
Work(w) == Report(w) \/ Answered(w) \/ TimeOut(w)

IntakeNext ==
  \/ \E i \in Intents : Hear(i, "clear") \/ Hear(i, "vague") \/ Hold(i) \/ Submit(i)
  \/ \E w \in Workers : Work(w)
  \/ \E w \in Workers, n \in 1..Retries : Ingest(w, n) \/ TurnAway(w, n)
  \/ Lose \/ Freezes \/ Thaws

\* The enricher answers or its timer ends, and a worker's process keeps running.
IntakeFair ==
  /\ \A i \in Intents : WF_intakeVars(Hold(i) \/ Submit(i))
  /\ \A w \in Workers : WF_intakeVars(Work(w))
IntakeSpec == IntakeInit /\ [][IntakeNext]_intakeVars /\ IntakeFair

-----------------------------------------------------------------------------
(* Properties. *)

Rows(s) == ledger[s]["SUCCESS"] + ledger[s]["BLOCKED"] + ledger[s]["FAILED"]

IntakeTypeOK ==
  /\ intent \in [Intents -> {"idle", "clear", "vague"}] /\ heard \in 0..MaxIntents
  /\ frozen \in BOOLEAN /\ ledger \in [Workers \cup {Hope} -> [Statuses -> Nat]]
  /\ job \in [Workers -> [step : {"batch", "posted", "exited"}, attempt : 0..Retries,
                          exit : {"none", "done", "rejected", "failed"}]]
  /\ silent \in [Workers -> 0..Retries]

\* Posting again may enter one batch several times, and this says how often: a
\* report succeeds once, and once more for each attempt whose answer the worker
\* did not get, never more than its attempts; a job that exits with 0 has been
\* ingested, and one that exits with 2 has not been by its last attempt
\* (colab/worker_job.py: post_report retries on a timeout and on 5xx).
ReportedOnceUnlessSilent == \A w \in Workers :
  /\ ledger[w]["SUCCESS"] <= 1 + silent[w] /\ Rows(w) <= job[w].attempt
  /\ job[w].exit = "done" => ledger[w]["SUCCESS"] > 0
  /\ job[w].exit = "rejected" => ledger[w]["SUCCESS"] <= silent[w]

\* Every report that was posted ends its job, whatever the network and the
\* gateway do, and every utterance is answered.
IntakeAnswers ==
  /\ \A w \in Workers : job[w].step = "posted" ~> job[w].step = "exited"
  /\ \A i \in Intents : intent[i] # "idle" ~> intent[i] = "idle"
=============================================================================
