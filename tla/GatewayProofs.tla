---------------------------- MODULE GatewayProofs ----------------------------
(***************************************************************************)
(* What the parts behind the HTTP gateway guarantee, for any number of     *)
(* workers, addresses, companions and checks, and any limits.              *)
(***************************************************************************)
EXTENDS Gateway, FiniteSetTheorems, SequenceTheorems, WellFoundedInduction, TLAPS

-----------------------------------------------------------------------------
(* Intake: a report that is posted again.                                  *)

\* The attempts of a worker whose request is still on its way.
Underway(w) == {n \in 1..Retries : Request(w, n) \in wire}
Entered(w) == ledger[w]["SUCCESS"]

Codes == {"ok", "refused", "error"}
Messages ==
  [kind : {"request"}, worker : Workers, attempt : 1..Retries]
    \cup [kind : {"answer"}, worker : Workers, attempt : 1..Retries, code : Codes]

\* Nothing is on the wire of an attempt that was not made.
WireIsPast == \A m \in wire : m.attempt <= job[m.worker].attempt

\* What one job has entered and may still enter: each attempt that is over
\* without an answer accounts for one success, and the one in progress for
\* another, unless its answer already says that it is none.
ReportInv(w) ==
  LET n == job[w].attempt
      may == Entered(w) + Cardinality(Underway(w))
  IN  /\ Rows(w) + Cardinality(Underway(w)) <= n
      /\ job[w].step = "batch" => n = 0 /\ job[w].exit = "none"
      /\ job[w].step = "posted" => silent[w] < n /\ job[w].exit = "none"
      /\ silent[w] <= n
      /\ may <= 1 + silent[w]
      /\ job[w].step = "posted" =>
           \A code \in Codes : Reply(w, n, code) \in wire =>
             IF code = "ok" THEN Entered(w) > 0 ELSE may <= silent[w]
      /\ job[w].exit = "done" => Entered(w) > 0
      /\ job[w].exit = "rejected" => may <= silent[w]

ReportsInv == IntakeTypeOK /\ wire \subseteq Messages /\ WireIsPast /\ \A w \in Workers : ReportInv(w)

LEMMA MessagesDiffer ==
  /\ \A w, v, n, m : Request(w, n) = Request(v, m) <=> w = v /\ n = m
  /\ \A w, v, n, m, c, d : Reply(w, n, c) = Reply(v, m, d) <=> w = v /\ n = m /\ c = d
  /\ \A w, v, n, m, c : Request(w, n) # Reply(v, m, c)
BY DEF Request, Reply

LEMMA AttemptsCounted ==
  ASSUME NEW A \in SUBSET (1..Retries)
  PROVE  IsFiniteSet(A) /\ Cardinality(A) \in Nat
<1>1. IsFiniteSet(1..Retries)
  BY RetriesAssumption, FS_Interval
<1> QED BY <1>1, FS_Subset, FS_CardinalityType

LEMMA UnderwayCounted ==
  ASSUME NEW w
  PROVE  /\ IsFiniteSet(Underway(w)) /\ Cardinality(Underway(w)) \in Nat
         /\ IsFiniteSet(Underway(w)') /\ Cardinality(Underway(w)') \in Nat
<1>1. Underway(w) \in SUBSET (1..Retries) /\ Underway(w)' \in SUBSET (1..Retries)
  BY DEF Underway
<1> QED BY <1>1, AttemptsCounted

\* What is on the wire of a worker after a step.
LEMMA UnderwayFewer ==
  ASSUME NEW w, wire' \cap {Request(w, n) : n \in 1..Retries} \subseteq wire
  PROVE  Cardinality(Underway(w)') <= Cardinality(Underway(w))
<1>1. Underway(w)' \in SUBSET Underway(w)
  BY DEF Underway
<1> QED BY <1>1, UnderwayCounted, FS_Subset

LEMMA UnderwayMore ==
  ASSUME NEW w, NEW n \in 1..Retries, wire' = wire \cup {Request(w, n)}
  PROVE  Cardinality(Underway(w)') <= Cardinality(Underway(w)) + 1
<1>1. Underway(w)' = Underway(w) \cup {n}
  BY MessagesDiffer DEF Underway
<1>2. Cardinality(Underway(w) \cup {n}) <= Cardinality(Underway(w)) + 1
  BY UnderwayCounted, FS_AddElement
<1> QED BY <1>1, <1>2

LEMMA UnderwayDone ==
  ASSUME NEW w, NEW n \in 1..Retries, Request(w, n) \in wire, NEW c,
         wire' = (wire \ {Request(w, n)}) \cup {Reply(w, n, c)}
  PROVE  Cardinality(Underway(w)') = Cardinality(Underway(w)) - 1
<1>1. Underway(w)' = Underway(w) \ {n} /\ n \in Underway(w)
  BY MessagesDiffer DEF Underway
<1>2. Cardinality(Underway(w) \ {n}) = Cardinality(Underway(w)) - 1
  BY <1>1, UnderwayCounted, FS_RemoveElement
<1> QED BY <1>1, <1>2

\* The types that the arithmetic needs.
LEMMA ReportTypes ==
  ASSUME ReportsInv, NEW w \in Workers
  PROVE  /\ job[w].attempt \in 0..Retries /\ job[w].step \in {"batch", "posted", "exited"}
         /\ job[w].exit \in {"none", "done", "rejected", "failed"}
         /\ silent[w] \in Nat /\ Entered(w) \in Nat /\ Rows(w) \in Nat /\ Retries \in Nat
         /\ Rows(w) = Entered(w) + ledger[w]["BLOCKED"] + ledger[w]["FAILED"]
         /\ ReportInv(w)
<1>1. ledger[w] \in [Statuses -> Nat]
  BY DEF ReportsInv, IntakeTypeOK
<1>2. ledger[w]["SUCCESS"] \in Nat /\ ledger[w]["BLOCKED"] \in Nat /\ ledger[w]["FAILED"] \in Nat
  BY <1>1 DEF Statuses
<1> QED BY <1>2, RetriesAssumption DEF ReportsInv, IntakeTypeOK, Entered, Rows

\* A worker whose job and rows a step leaves alone, and which gets no answer.
LEMMA ReportKept ==
  ASSUME ReportsInv, NEW w \in Workers, job'[w] = job[w], silent'[w] = silent[w],
         ledger'[w] = ledger[w],
         wire' \cap {Request(w, n) : n \in 1..Retries} \subseteq wire,
         \A code \in Codes : Reply(w, job[w].attempt, code) \in wire' => Reply(w, job[w].attempt, code) \in wire
  PROVE  ReportInv(w)'
<1>1. Cardinality(Underway(w)') <= Cardinality(Underway(w))
  BY UnderwayFewer
<1>2. Cardinality(Underway(w)') \in Nat /\ Cardinality(Underway(w)) \in Nat
  BY UnderwayCounted
<1>3. Rows(w)' = Rows(w) /\ Entered(w)' = Entered(w)
  BY DEF Rows, Entered
<1> QED BY <1>1, <1>2, <1>3, ReportTypes DEF ReportInv

\* The next attempt of a job, when all earlier ones are accounted for.
LEMMA PostKeeps ==
  ASSUME ReportsInv, NEW w \in Workers, NEW n \in 1..Retries, n = job[w].attempt + 1,
         Post(w, n), ledger' = ledger, silent'[w] \in Nat, silent'[w] < n,
         Entered(w) + Cardinality(Underway(w)) <= silent'[w]
  PROVE  ReportInv(w)'
<1>1. /\ job'[w] = [step |-> "posted", attempt |-> n, exit |-> "none"]
      /\ wire' = wire \cup {Request(w, n)}
  BY DEF Post, ReportsInv, IntakeTypeOK
<1>2. Cardinality(Underway(w)') <= Cardinality(Underway(w)) + 1
  BY <1>1, UnderwayMore
<1>3. Cardinality(Underway(w)') \in Nat /\ Cardinality(Underway(w)) \in Nat
  BY UnderwayCounted
<1>4. Rows(w)' = Rows(w) /\ Entered(w)' = Entered(w)
  BY DEF Rows, Entered
<1>5. \A code \in Codes : Reply(w, n, code) \notin wire'
  <2>1. \A code : Reply(w, n, code) \notin wire
    BY ReportTypes DEF ReportsInv, WireIsPast, Reply
  <2> QED BY <1>1, <2>1, MessagesDiffer
<1> QED BY <1>1, <1>2, <1>3, <1>4, <1>5, ReportTypes DEF ReportInv

LEMMA ExitKeeps ==
  ASSUME ReportsInv, NEW w \in Workers, NEW code \in {"done", "rejected", "failed"}, Exit(w, code),
         job[w].step = "posted", ledger' = ledger, silent'[w] \in {silent[w], silent[w] + 1},
         code = "done" => Entered(w) > 0,
         code = "rejected" => Entered(w) + Cardinality(Underway(w)) <= silent[w]
  PROVE  ReportInv(w)'
<1>1. /\ job'[w].step = "exited" /\ job'[w].exit = code /\ job'[w].attempt = job[w].attempt
      /\ wire' = wire
  BY DEF Exit, ReportsInv, IntakeTypeOK
<1>2. Underway(w)' = Underway(w)
  BY <1>1 DEF Underway
<1>3. Cardinality(Underway(w)) \in Nat
  BY UnderwayCounted
<1>4. Rows(w)' = Rows(w) /\ Entered(w)' = Entered(w)
  BY DEF Rows, Entered
<1> QED BY <1>1, <1>2, <1>3, <1>4, ReportTypes DEF ReportInv

\* A dispatch of the report, or a refusal before it: a request less, an answer
\* more, and for a dispatch one row more.
LEMMA AnsweredKeeps ==
  ASSUME ReportsInv, NEW w \in Workers, NEW n \in 1..Retries, Request(w, n) \in wire,
         NEW code \in Codes, UNCHANGED <<job, silent>>,
         wire' = (wire \ {Request(w, n)}) \cup {Reply(w, n, code)},
         Rows(w)' \in Nat, Entered(w)' \in Nat, Rows(w)' <= Rows(w) + 1,
         Entered(w)' = IF code = "ok" THEN Entered(w) + 1 ELSE Entered(w)
  PROVE  ReportInv(w)'
<1>1. Cardinality(Underway(w)') = Cardinality(Underway(w)) - 1
  BY UnderwayDone
<1>2. Cardinality(Underway(w)') \in Nat /\ Cardinality(Underway(w)) \in Nat
  BY UnderwayCounted
<1>3. ASSUME NEW c \in Codes, Reply(w, job[w].attempt, c) \in wire'
      PROVE  Reply(w, job[w].attempt, c) \in wire \/ c = code
  BY <1>3, MessagesDiffer
<1> QED BY <1>1, <1>2, <1>3, ReportTypes DEF ReportInv

-----------------------------------------------------------------------------
(* The steps of Intake.  Each leaves the reports of all other workers alone. *)

\* What a step does not do to the reports of a worker it is not about.
Aside(w) ==
  /\ job'[w] = job[w] /\ silent'[w] = silent[w] /\ ledger'[w] = ledger[w]
  /\ \A n \in 1..Retries : Request(w, n) \in wire' => Request(w, n) \in wire
  /\ \A n \in Nat, code \in Codes : Reply(w, n, code) \in wire' => Reply(w, n, code) \in wire

LEMMA AsideKeeps ==
  ASSUME ReportsInv, NEW w \in Workers, Aside(w)
  PROVE  ReportInv(w)'
<1>1. wire' \cap {Request(w, n) : n \in 1..Retries} \subseteq wire
  BY DEF Aside
<1>2. \A code \in Codes : Reply(w, job[w].attempt, code) \in wire' => Reply(w, job[w].attempt, code) \in wire
  BY ReportTypes DEF Aside
<1> QED BY <1>1, <1>2, ReportKept DEF Aside

\* The next attempt of a job, and its end: all that Report, Answered and
\* TimeOut do to the job and the network.
LEMMA PostShape ==
  ASSUME ReportsInv, NEW w \in Workers, NEW n \in 1..Retries, n = job[w].attempt + 1, Post(w, n),
         UNCHANGED <<intent, heard, router>>, silent' \in [Workers -> 0..Retries],
         \A v \in Workers \ {w} : silent'[v] = silent[v]
  PROVE  IntakeTypeOK' /\ wire' \subseteq Messages' /\ WireIsPast' /\ \A v \in Workers \ {w} : Aside(v)
<1>1. /\ job' = [job EXCEPT ![w] = [step |-> "posted", attempt |-> n, exit |-> "none"]]
      /\ wire' = wire \cup {Request(w, n)}
  BY DEF Post
<1>2. job' \in [Workers -> [step : {"batch", "posted", "exited"}, attempt : 0..Retries,
                            exit : {"none", "done", "rejected", "failed"}]]
  BY <1>1, RetriesAssumption DEF ReportsInv, IntakeTypeOK
<1>3. IntakeTypeOK'
  BY <1>2 DEF ReportsInv, IntakeTypeOK, router
<1>4. wire' \subseteq Messages'
  BY <1>1 DEF ReportsInv, Messages, Request
<1>5. WireIsPast'
  <2> SUFFICES ASSUME NEW m \in wire'  PROVE  m.attempt <= job'[m.worker].attempt
    BY DEF WireIsPast
  <2>1. CASE m = Request(w, n)
    BY <2>1, <1>1 DEF Request, ReportsInv, IntakeTypeOK
  <2>2. CASE m \in wire
    <3>1. m.worker \in Workers /\ m.attempt \in 1..Retries /\ m.attempt <= job[m.worker].attempt
      BY <2>2 DEF ReportsInv, Messages, WireIsPast
    <3>2. job[m.worker].attempt \in Nat /\ n \in Nat /\ m.attempt \in Nat
      BY <3>1, RetriesAssumption, ReportTypes
    <3>3. CASE m.worker = w
      BY <3>1, <3>2, <3>3, <1>1 DEF ReportsInv, IntakeTypeOK
    <3>4. CASE m.worker # w
      BY <3>1, <3>4, <1>1 DEF ReportsInv, IntakeTypeOK
    <3> QED BY <3>3, <3>4
  <2> QED BY <2>1, <2>2, <1>1
<1>6. ASSUME NEW v \in Workers \ {w}  PROVE  Aside(v)
  BY <1>1, MessagesDiffer DEF Aside, router, ReportsInv, IntakeTypeOK
<1> QED BY <1>3, <1>4, <1>5, <1>6

LEMMA ExitShape ==
  ASSUME ReportsInv, NEW w \in Workers, NEW code \in {"done", "rejected", "failed"}, Exit(w, code),
         UNCHANGED <<intent, heard, router>>, silent' \in [Workers -> 0..Retries],
         \A v \in Workers \ {w} : silent'[v] = silent[v]
  PROVE  IntakeTypeOK' /\ wire' \subseteq Messages' /\ WireIsPast' /\ \A v \in Workers \ {w} : Aside(v)
<1>1. job' = [job EXCEPT ![w].step = "exited", ![w].exit = code] /\ wire' = wire
  BY DEF Exit
<1>2. job' \in [Workers -> [step : {"batch", "posted", "exited"}, attempt : 0..Retries,
                            exit : {"none", "done", "rejected", "failed"}]]
  <2>1. job[w] \in [step : {"batch", "posted", "exited"}, attempt : 0..Retries,
                    exit : {"none", "done", "rejected", "failed"}]
    BY DEF ReportsInv, IntakeTypeOK
  <2>2. job \in [Workers -> [step : {"batch", "posted", "exited"}, attempt : 0..Retries,
                            exit : {"none", "done", "rejected", "failed"}]]
    BY DEF ReportsInv, IntakeTypeOK
  <2>3. job' = [job EXCEPT ![w] = [[job[w] EXCEPT !.step = "exited"] EXCEPT !.exit = code]]
    BY <1>1, <2>2
  <2>4. [[job[w] EXCEPT !.step = "exited"] EXCEPT !.exit = code]
          \in [step : {"batch", "posted", "exited"}, attempt : 0..Retries,
              exit : {"none", "done", "rejected", "failed"}]
    BY <2>1
  <2> QED BY <2>2, <2>3, <2>4
<1>3. IntakeTypeOK'
  BY <1>2 DEF ReportsInv, IntakeTypeOK, router
<1>4. wire' \subseteq Messages'
  BY <1>1 DEF ReportsInv, Messages
<1>5. \A v \in Workers : job'[v].attempt = job[v].attempt
  BY <1>1 DEF ReportsInv, IntakeTypeOK
<1>6. WireIsPast'
  BY <1>1, <1>5 DEF ReportsInv, WireIsPast, Messages
<1>7. ASSUME NEW v \in Workers \ {w}  PROVE  Aside(v)
  BY <1>1 DEF Aside, router, ReportsInv, IntakeTypeOK
<1> QED BY <1>3, <1>4, <1>6, <1>7

LEMMA InvFromShape ==
  ASSUME ReportsInv, NEW w \in Workers, ReportInv(w)',
         IntakeTypeOK', wire' \subseteq Messages', WireIsPast', \A v \in Workers \ {w} : Aside(v)
  PROVE  ReportsInv'
<1>1. ASSUME NEW v \in Workers  PROVE  ReportInv(v)'
  <2>1. CASE v = w
    BY <2>1
  <2>2. CASE v # w
    BY <2>2, AsideKeeps
  <2> QED BY <2>1, <2>2
<1> QED BY <1>1 DEF ReportsInv

LEMMA ReportStep ==
  ASSUME ReportsInv, NEW w \in Workers, Report(w)
  PROVE  ReportsInv'
<1>1. /\ job[w].step = "batch" /\ job[w].attempt = 0 /\ Post(w, 1)
      /\ UNCHANGED <<intent, heard, router, silent>>
  BY ReportTypes DEF Report, ReportInv
<1>2. 1 \in 1..Retries /\ silent[w] = 0 /\ Rows(w) = 0 /\ Entered(w) = 0 /\ Cardinality(Underway(w)) = 0
  <2>1. 1 \in 1..Retries
    BY RetriesAssumption
  <2>2. ledger[w]["BLOCKED"] \in Nat /\ ledger[w]["FAILED"] \in Nat
    <3>1. ledger[w] \in [Statuses -> Nat]
      BY DEF ReportsInv, IntakeTypeOK
    <3> QED BY <3>1 DEF Statuses
  <2>3. Cardinality(Underway(w)) \in Nat
    BY UnderwayCounted
  <2>4. silent[w] <= 0 /\ Rows(w) + Cardinality(Underway(w)) <= 0
    BY <1>1, ReportTypes DEF ReportInv
  <2>5. /\ silent[w] \in Nat /\ Entered(w) \in Nat
        /\ Rows(w) = Entered(w) + ledger[w]["BLOCKED"] + ledger[w]["FAILED"]
    BY ReportTypes
  <2> QED BY <2>1, <2>2, <2>3, <2>4, <2>5
<1>3. ReportInv(w)'
  BY <1>1, <1>2, PostKeeps DEF router
<1>4. silent' \in [Workers -> 0..Retries] /\ \A v \in Workers \ {w} : silent'[v] = silent[v]
  BY <1>1 DEF ReportsInv, IntakeTypeOK
<1>5. IntakeTypeOK' /\ wire' \subseteq Messages' /\ WireIsPast' /\ \A v \in Workers \ {w} : Aside(v)
  BY <1>1, <1>2, <1>4, PostShape
<1> QED BY <1>3, <1>5, InvFromShape

\* A job that posts again or gives up, when all attempts so far are accounted for.
LEMMA AgainStep ==
  ASSUME ReportsInv, NEW w \in Workers, job[w].step = "posted", Again(w),
         UNCHANGED <<intent, heard, router>>, silent' \in [Workers -> 0..Retries],
         \A v \in Workers \ {w} : silent'[v] = silent[v],
         silent'[w] \in {silent[w], silent[w] + 1},
         Entered(w) + Cardinality(Underway(w)) <= silent'[w]
  PROVE  ReportsInv'
<1>1. job[w].attempt \in Nat /\ silent[w] \in Nat /\ silent[w] < job[w].attempt /\ silent'[w] \in Nat
      /\ job[w].attempt <= Retries
  BY ReportTypes, RetriesAssumption DEF ReportInv
<1>2. CASE job[w].attempt < Retries
  <2> DEFINE n == job[w].attempt + 1
  <2>1. n \in 1..Retries /\ silent'[w] < n
    BY <1>1, <1>2, RetriesAssumption
  <2>2. Post(w, n)
    BY <1>2 DEF Again
  <2>3. ReportInv(w)'
    BY <1>1, <2>1, <2>2, PostKeeps DEF router
  <2>4. IntakeTypeOK' /\ wire' \subseteq Messages' /\ WireIsPast' /\ \A v \in Workers \ {w} : Aside(v)
    BY <2>1, <2>2, PostShape
  <2> QED BY <2>3, <2>4, InvFromShape
<1>3. CASE ~(job[w].attempt < Retries)
  <2>1. Exit(w, "failed")
    BY <1>3 DEF Again
  <2>2. ReportInv(w)'
    BY <2>1, ExitKeeps DEF router
  <2>3. IntakeTypeOK' /\ wire' \subseteq Messages' /\ WireIsPast' /\ \A v \in Workers \ {w} : Aside(v)
    BY <2>1, ExitShape
  <2> QED BY <2>2, <2>3, InvFromShape
<1> QED BY <1>2, <1>3

LEMMA TimeOutStep ==
  ASSUME ReportsInv, NEW w \in Workers, TimeOut(w)
  PROVE  ReportsInv'
<1>1. /\ job[w].step = "posted" /\ Again(w) /\ silent' = [silent EXCEPT ![w] = @ + 1]
      /\ UNCHANGED <<intent, heard, router>>
  BY DEF TimeOut
<1>2. silent[w] < job[w].attempt /\ Entered(w) + Cardinality(Underway(w)) <= silent[w] + 1
  BY <1>1, ReportTypes, UnderwayCounted DEF ReportInv
<1>3. silent'[w] = silent[w] + 1 /\ silent[w] + 1 \in 0..Retries
  BY <1>1, <1>2, ReportTypes DEF ReportsInv, IntakeTypeOK
<1>4. silent' \in [Workers -> 0..Retries] /\ \A v \in Workers \ {w} : silent'[v] = silent[v]
  BY <1>1, <1>3 DEF ReportsInv, IntakeTypeOK
<1> QED BY <1>1, <1>2, <1>3, <1>4, AgainStep

LEMMA AnsweredStep ==
  ASSUME ReportsInv, NEW w \in Workers, Answered(w)
  PROVE  ReportsInv'
<1>1. PICK m \in wire :
        /\ m.kind = "answer" /\ m.worker = w /\ job[w].step = "posted" /\ m.attempt = job[w].attempt
        /\ IF Verdict[m.code] = "again" THEN Again(w) ELSE Exit(w, Verdict[m.code])
        /\ UNCHANGED <<intent, heard, router, silent>>
  BY DEF Answered
<1>2. m.code \in Codes /\ m = Reply(w, job[w].attempt, m.code)
  BY <1>1 DEF ReportsInv, Messages, Reply
<1>3. IF m.code = "ok" THEN Entered(w) > 0 ELSE Entered(w) + Cardinality(Underway(w)) <= silent[w]
  BY <1>1, <1>2, ReportTypes DEF ReportInv
<1>4. /\ silent' \in [Workers -> 0..Retries] /\ silent'[w] = silent[w]
      /\ \A v \in Workers \ {w} : silent'[v] = silent[v]
  BY <1>1 DEF ReportsInv, IntakeTypeOK
<1>5. CASE m.code = "error"
  <2>1. Again(w)
    BY <1>1, <1>5 DEF Verdict
  <2> QED BY <1>1, <1>3, <1>4, <1>5, <2>1, AgainStep
<1>6. CASE m.code \in {"ok", "refused"}
  <2> DEFINE code == Verdict[m.code]
  <2>1. /\ code \in {"done", "rejected", "failed"} /\ Exit(w, code)
        /\ (code = "done" => m.code = "ok") /\ (code = "rejected" => m.code = "refused")
    BY <1>1, <1>6 DEF Verdict
  <2>2. code = "done" => Entered(w) > 0
    BY <2>1, <1>3
  <2>3. code = "rejected" => Entered(w) + Cardinality(Underway(w)) <= silent[w]
    BY <2>1, <1>3
  <2>4. ReportInv(w)'
    BY <1>1, <1>4, <2>1, <2>2, <2>3, ExitKeeps DEF router
  <2>5. IntakeTypeOK' /\ wire' \subseteq Messages' /\ WireIsPast' /\ \A v \in Workers \ {w} : Aside(v)
    BY <1>1, <1>4, <2>1, ExitShape
  <2> QED BY <2>4, <2>5, InvFromShape
<1> QED BY <1>2, <1>5, <1>6 DEF Codes

\* The gateway's answer to one request: its shape, whether it dispatched or not.
LEMMA AnswerShape ==
  ASSUME ReportsInv, NEW w \in Workers, NEW n \in 1..Retries, Request(w, n) \in wire, NEW code \in Codes,
         UNCHANGED <<intent, heard, job, silent>>, frozen' \in BOOLEAN,
         wire' = (wire \ {Request(w, n)}) \cup {Reply(w, n, code)},
         ledger' \in [Workers \cup {Hope} -> [Statuses -> Nat]],
         \A v \in Workers \ {w} : ledger'[v] = ledger[v]
  PROVE  IntakeTypeOK' /\ wire' \subseteq Messages' /\ WireIsPast' /\ \A v \in Workers \ {w} : Aside(v)
<1>1. IntakeTypeOK'
  BY DEF ReportsInv, IntakeTypeOK
<1>2. wire' \subseteq Messages'
  BY DEF ReportsInv, Messages, Reply
<1>3. WireIsPast'
  <2>1. Request(w, n).attempt <= job[Request(w, n).worker].attempt
    BY DEF ReportsInv, WireIsPast
  <2>2. n <= job[w].attempt
    BY <2>1 DEF Request
  <2> QED BY <2>2 DEF ReportsInv, WireIsPast, Reply
<1>4. ASSUME NEW v \in Workers \ {w}  PROVE  Aside(v)
  BY MessagesDiffer DEF Aside
<1> QED BY <1>1, <1>2, <1>3, <1>4

LEMMA IngestStep ==
  ASSUME ReportsInv, NEW w \in Workers, NEW n \in 1..Retries, Ingest(w, n)
  PROVE  ReportsInv'
<1>1. PICK status \in Statuses :
        /\ Dispatch(w, status)
        /\ wire' = (wire \ {Request(w, n)}) \cup {Reply(w, n, CodeOf(status))}
  BY DEF Ingest
<1>2. CodeOf(status) \in Codes /\ (CodeOf(status) = "ok" <=> status = "SUCCESS")
  BY DEF Statuses, CodeOf, Codes
<1>3. Request(w, n) \in wire /\ UNCHANGED <<intent, heard, job, silent>> /\ frozen' \in BOOLEAN
  BY <1>1 DEF Ingest, Dispatch, ReportsInv, IntakeTypeOK
<1>4. /\ ledger[w] \in [Statuses -> Nat] /\ ledger'[w] = [ledger[w] EXCEPT ![status] = @ + 1]
      /\ ledger' \in [Workers \cup {Hope} -> [Statuses -> Nat]]
      /\ \A v \in Workers \ {w} : ledger'[v] = ledger[v]
  BY <1>1 DEF Dispatch, ReportsInv, IntakeTypeOK
<1>5. /\ Rows(w)' \in Nat /\ Entered(w)' \in Nat /\ Rows(w)' <= Rows(w) + 1
      /\ Entered(w)' = IF CodeOf(status) = "ok" THEN Entered(w) + 1 ELSE Entered(w)
  BY <1>2, <1>4 DEF Rows, Entered, Statuses
<1>6. ReportInv(w)'
  <2> DEFINE code == CodeOf(status)
  <2>1. UNCHANGED <<job, silent>> /\ wire' = (wire \ {Request(w, n)}) \cup {Reply(w, n, code)}
    BY <1>1, <1>3
  <2>2. Entered(w)' = IF code = "ok" THEN Entered(w) + 1 ELSE Entered(w)
    BY <1>5
  <2>3. code \in Codes
    BY <1>2
  <2> HIDE DEF code
  <2> QED BY <1>3, <1>5, <2>1, <2>2, <2>3, AnsweredKeeps
<1>7. IntakeTypeOK' /\ wire' \subseteq Messages' /\ WireIsPast' /\ \A v \in Workers \ {w} : Aside(v)
  BY <1>1, <1>2, <1>3, <1>4, AnswerShape
<1> QED BY <1>6, <1>7, InvFromShape

LEMMA TurnAwayStep ==
  ASSUME ReportsInv, NEW w \in Workers, NEW n \in 1..Retries, TurnAway(w, n)
  PROVE  ReportsInv'
<1>1. PICK code \in {"refused", "error"} : wire' = (wire \ {Request(w, n)}) \cup {Reply(w, n, code)}
  BY DEF TurnAway
<1>2. /\ Request(w, n) \in wire /\ UNCHANGED <<intent, heard, job, silent>> /\ ledger' = ledger
      /\ frozen' \in BOOLEAN /\ code \in Codes /\ code # "ok"
  BY DEF TurnAway, router, Codes, ReportsInv, IntakeTypeOK
<1>3. Rows(w)' = Rows(w) /\ Entered(w)' = Entered(w)
  BY <1>2 DEF Rows, Entered
<1>4. ReportInv(w)'
  BY <1>1, <1>2, <1>3, ReportTypes, AnsweredKeeps
<1>5. ledger' \in [Workers \cup {Hope} -> [Statuses -> Nat]] /\ \A v \in Workers \ {w} : ledger'[v] = ledger[v]
  BY <1>2 DEF ReportsInv, IntakeTypeOK
<1>6. IntakeTypeOK' /\ wire' \subseteq Messages' /\ WireIsPast' /\ \A v \in Workers \ {w} : Aside(v)
  BY <1>1, <1>2, <1>5, AnswerShape
<1> QED BY <1>4, <1>6, InvFromShape

\* A step that is about no worker: an utterance, a loss, a freeze or a thaw.
LEMMA OtherStep ==
  ASSUME ReportsInv, UNCHANGED <<job, silent>>, wire' \subseteq wire, IntakeTypeOK',
         \A w \in Workers : ledger'[w] = ledger[w]
  PROVE  ReportsInv'
<1>1. ASSUME NEW w \in Workers  PROVE  ReportInv(w)'
  BY AsideKeeps DEF Aside
<1>2. wire' \subseteq Messages' /\ WireIsPast'
  BY DEF ReportsInv, Messages, WireIsPast
<1> QED BY <1>1, <1>2 DEF ReportsInv

LEMMA IntakeInitial == IntakeInit => ReportsInv
<1> SUFFICES ASSUME IntakeInit  PROVE  ReportsInv
  OBVIOUS
<1>1. IntakeTypeOK
  <2>1. 0 \in 0..Retries /\ 0 \in 0..MaxIntents
    BY RetriesAssumption, MaxIntentsAssumption
  <2>2. /\ ledger \in [Workers \cup {Hope} -> [Statuses -> Nat]]
        /\ silent \in [Workers -> 0..Retries] /\ intent \in [Intents -> {"idle", "clear", "vague"}]
    BY <2>1 DEF IntakeInit
  <2>3. job \in [Workers -> [step : {"batch", "posted", "exited"}, attempt : 0..Retries,
                            exit : {"none", "done", "rejected", "failed"}]]
    BY <2>1 DEF IntakeInit
  <2> QED BY <2>1, <2>2, <2>3 DEF IntakeInit, IntakeTypeOK
<1>2. ASSUME NEW w \in Workers  PROVE  ReportInv(w)
  <2>1. Underway(w) = {}
    BY DEF Underway, IntakeInit
  <2>2. Rows(w) = 0 /\ Entered(w) = 0 /\ silent[w] = 0
        /\ job[w] = [step |-> "batch", attempt |-> 0, exit |-> "none"]
    BY DEF IntakeInit, Rows, Entered, Statuses
  <2> QED BY <2>1, <2>2, FS_EmptySet DEF ReportInv
<1> QED BY <1>1, <1>2 DEF ReportsInv, IntakeInit, WireIsPast

LEMMA IntakeStep == ReportsInv /\ [IntakeNext]_intakeVars => ReportsInv'
<1> SUFFICES ASSUME ReportsInv, [IntakeNext]_intakeVars  PROVE  ReportsInv'
  OBVIOUS
<1>1. ASSUME NEW i \in Intents, Hear(i, "clear") \/ Hear(i, "vague") \/ Hold(i)  PROVE  ReportsInv'
  <2>1. UNCHANGED <<router, job, wire, silent>>
    BY <1>1 DEF Hear, Hold
  <2>2. IntakeTypeOK'
    <3>1. heard' \in 0..MaxIntents
      BY <1>1, MaxIntentsAssumption DEF Hear, Hold, ReportsInv, IntakeTypeOK
    <3>2. intent' \in [Intents -> {"idle", "clear", "vague"}]
      BY <1>1 DEF Hear, Hold, ReportsInv, IntakeTypeOK
    <3> QED BY <2>1, <3>1, <3>2 DEF router, ReportsInv, IntakeTypeOK
  <2> QED BY <2>1, <2>2, OtherStep DEF router
<1>2. ASSUME NEW i \in Intents, Submit(i)  PROVE  ReportsInv'
  <2>1. PICK status \in Statuses : ledger' = [ledger EXCEPT ![Hope][status] = @ + 1]
    BY <1>2 DEF Submit, Dispatch
  <2>2. \A w \in Workers : ledger'[w] = ledger[w]
    BY <2>1, SendersAssumption DEF ReportsInv, IntakeTypeOK
  <2>3. IntakeTypeOK'
    <3>1. ledger' \in [Workers \cup {Hope} -> [Statuses -> Nat]]
      <4>1. [ledger[Hope] EXCEPT ![status] = @ + 1] \in [Statuses -> Nat]
        BY DEF ReportsInv, IntakeTypeOK
      <4>2. ledger' = [ledger EXCEPT ![Hope] = [ledger[Hope] EXCEPT ![status] = @ + 1]]
        BY <2>1 DEF ReportsInv, IntakeTypeOK
      <4> QED BY <4>1, <4>2 DEF ReportsInv, IntakeTypeOK
    <3>2. intent' \in [Intents -> {"idle", "clear", "vague"}]
      BY <1>2 DEF Submit, ReportsInv, IntakeTypeOK
    <3>3. frozen' \in BOOLEAN /\ UNCHANGED <<heard, job, wire, silent>>
      BY <1>2 DEF Submit, Dispatch, ReportsInv, IntakeTypeOK
    <3> QED BY <3>1, <3>2, <3>3 DEF ReportsInv, IntakeTypeOK
  <2>4. UNCHANGED <<job, silent>> /\ wire' \subseteq wire
    BY <1>2 DEF Submit
  <2> QED BY <2>2, <2>3, <2>4, OtherStep
<1>3. ASSUME NEW w \in Workers, Work(w)  PROVE  ReportsInv'
  BY <1>3, ReportStep, AnsweredStep, TimeOutStep DEF Work
<1>4. ASSUME NEW w \in Workers, NEW n \in 1..Retries, Ingest(w, n) \/ TurnAway(w, n)  PROVE  ReportsInv'
  BY <1>4, IngestStep, TurnAwayStep
<1>5. CASE Lose
  <2>1. IntakeTypeOK' /\ UNCHANGED <<router, job, silent>> /\ wire' \subseteq wire
    BY <1>5 DEF Lose, router, ReportsInv, IntakeTypeOK
  <2> QED BY <2>1, OtherStep DEF router
<1>6. CASE Freezes \/ Thaws
  <2>1. IntakeTypeOK' /\ UNCHANGED <<ledger, job, silent>> /\ wire' \subseteq wire
    BY <1>6 DEF Freezes, Thaws, ReportsInv, IntakeTypeOK
  <2> QED BY <2>1, OtherStep
<1>7. CASE UNCHANGED intakeVars
  <2>1. IntakeTypeOK' /\ UNCHANGED <<router, job, wire, silent>>
    BY <1>7 DEF intakeVars, router, ReportsInv, IntakeTypeOK
  <2> QED BY <2>1, OtherStep DEF router
<1> QED BY <1>1, <1>2, <1>3, <1>4, <1>5, <1>6, <1>7 DEF IntakeNext

LEMMA ReportsInvSuffices == ReportsInv => ReportedOnceUnlessSilent
<1> SUFFICES ASSUME ReportsInv, NEW w \in Workers
    PROVE  /\ ledger[w]["SUCCESS"] <= 1 + silent[w] /\ Rows(w) <= job[w].attempt
           /\ job[w].exit = "done" => ledger[w]["SUCCESS"] > 0
           /\ job[w].exit = "rejected" => ledger[w]["SUCCESS"] <= silent[w]
  BY DEF ReportedOnceUnlessSilent
<1>1. Cardinality(Underway(w)) \in Nat
  BY UnderwayCounted
<1>2. job[w].attempt \in Nat
  BY ReportTypes
<1> QED BY <1>1, <1>2, ReportTypes DEF ReportInv, Entered

\* However often a report is posted again and whatever the network loses or
\* delays, it enters the ledger as a success at most once more than its attempts
\* went unanswered, and the worker's exit code tells the truth about it
\* (colab/worker_job.py: post_report; gateway/server.ts: handleWorkerReport).
THEOREM ReportsAreCounted == IntakeSpec => []ReportedOnceUnlessSilent
<1>1. IntakeSpec => []ReportsInv
  BY IntakeInitial, IntakeStep, PTL DEF IntakeSpec
<1> QED BY <1>1, ReportsInvSuffices, PTL

-----------------------------------------------------------------------------
(* FrontDoor: fixed windows.                                               *)

\* Hits that were allowed within the last window, numbered within their time.
HitsOK(P, c) ==
  /\ IsFiniteSet(P) /\ P \in SUBSET (Nat \X Nat)
  /\ \A h \in P : h[1] <= c /\ c < h[1] + Window /\ h[2] < Cardinality({g \in P : g[1] = h[1]})

\* The hits before and since the start of the bucket that ends at r.
Before(P, r) == {h \in P : h[1] + Window < r}
Since(P, r) == {h \in P : h[1] + Window >= r}

\* A bucket that runs has counted what it let through, up to the limit, and what
\* was let through before it fits under the limit too; after its end everything
\* recent does, and nothing was let through since.
WindowOK(b, P, c, limit) ==
  /\ b \in [count : Nat, resetAt : Nat] /\ b.resetAt <= c + Window
  /\ c >= b.resetAt => Cardinality(P) <= limit /\ \A h \in P : h[1] < c
  /\ c < b.resetAt =>
       /\ Cardinality(Before(P, b.resetAt)) <= limit
       /\ Cardinality(Since(P, b.resetAt)) = IF b.count < limit THEN b.count ELSE limit

DoorInv ==
  /\ clock \in Nat
  /\ buckets \in [Limiters -> [Keys -> [count : Nat, resetAt : Nat]]]
  /\ passed \in [Limiters -> [Keys -> SUBSET (Nat \X Nat)]]
  /\ \A l \in Limiters, k \in Keys :
       /\ HitsOK(passed[l][k], clock)
       /\ Limit[l] # 0 => WindowOK(buckets[l][k], passed[l][k], clock, Limit[l])
  /\ refused \subseteq Limiters \X Keys
  /\ \A h \in refused : Cardinality(passed[h[1]][h[2]]) >= Limit[h[1]]

LEMMA PartFinite ==
  ASSUME NEW P, IsFiniteSet(P), NEW Q \in SUBSET P
  PROVE  IsFiniteSet(Q) /\ Cardinality(Q) \in Nat /\ Cardinality(P) \in Nat /\ Cardinality(Q) <= Cardinality(P)
BY FS_Subset, FS_CardinalityType

\* The two parts of what passed.
LEMMA PartsAdd ==
  ASSUME NEW c \in Nat, NEW P, HitsOK(P, c), NEW r \in Nat
  PROVE  /\ Cardinality(P) = Cardinality(Before(P, r)) + Cardinality(Since(P, r))
         /\ IsFiniteSet(Before(P, r)) /\ Cardinality(Before(P, r)) \in Nat
         /\ IsFiniteSet(Since(P, r)) /\ Cardinality(Since(P, r)) \in Nat
<1>1. Before(P, r) \in SUBSET P /\ Since(P, r) \in SUBSET P
  BY DEF Before, Since
<1>2. Before(P, r) \cup Since(P, r) = P /\ Before(P, r) \cap Since(P, r) = {}
  BY LimitsAssumption DEF Before, Since, HitsOK
<1>3. IsFiniteSet(P)
  BY DEF HitsOK
<1>4. Cardinality(P) = Cardinality(Before(P, r)) + Cardinality(Since(P, r)) - Cardinality({})
  BY <1>1, <1>2, <1>3, PartFinite, FS_Union
<1> QED BY <1>1, <1>3, <1>4, PartFinite, FS_EmptySet

LEMMA LimitIsNumber == ASSUME NEW l \in Limiters PROVE Limit[l] \in Nat
BY LimitsAssumption DEF Limiters, Limit

\* What is allowed now is a hit more.
LEMMA HitAdded ==
  ASSUME NEW c \in Nat, NEW P, HitsOK(P, c)
  PROVE  LET h == <<c, Cardinality({g \in P : g[1] = c})>>
         IN  h \notin P /\ HitsOK(P \cup {h}, c)
<1> DEFINE h == <<c, Cardinality({g \in P : g[1] = c})>>
           Q == P \cup {h}
           At(S, t) == {g \in S : g[1] = t}
<1>1. IsFiniteSet(P) /\ IsFiniteSet(Q)
  BY FS_AddElement DEF HitsOK
<1>2. \A t : At(P, t) \in SUBSET At(Q, t) /\ At(Q, t) \in SUBSET Q /\ At(P, t) \in SUBSET P
  OBVIOUS
<1>3. \A t : /\ IsFiniteSet(At(Q, t)) /\ IsFiniteSet(At(P, t))
             /\ Cardinality(At(P, t)) \in Nat /\ Cardinality(At(Q, t)) \in Nat
             /\ Cardinality(At(P, t)) <= Cardinality(At(Q, t))
  BY <1>1, <1>2, PartFinite
<1>4. h \notin P
  <2> SUFFICES ASSUME h \in P  PROVE  FALSE
    OBVIOUS
  <2>1. h[2] < Cardinality(At(P, h[1])) /\ h[1] = c /\ h[2] = Cardinality(At(P, c))
    BY DEF HitsOK
  <2>2. Cardinality(At(P, c)) \in Nat
    BY <1>3
  <2> HIDE DEF At, h
  <2> QED BY <2>1, <2>2
<1>5. Cardinality(At(Q, c)) = Cardinality(At(P, c)) + 1
  <2>1. At(Q, c) = At(P, c) \cup {h} /\ h \notin At(P, c)
    BY <1>4
  <2>2. IsFiniteSet(At(P, c))
    BY <1>3
  <2> HIDE DEF At, h
  <2> QED BY <2>1, <2>2, FS_AddElement
<1>6. h \in Nat \X Nat
  <2>1. Cardinality(At(P, c)) \in Nat
    BY <1>3
  <2> QED BY <2>1
<1>7. ASSUME NEW g \in Q  PROVE  g[1] <= c /\ c < g[1] + Window /\ g[2] < Cardinality(At(Q, g[1]))
  <2>1. CASE g = h
    <3>1. g[1] = c /\ g[2] = Cardinality(At(P, c)) /\ Cardinality(At(P, c)) \in Nat
      BY <2>1, <1>3
    <3> HIDE DEF At
    <3> QED BY <3>1, <1>5, LimitsAssumption
  <2>2. CASE g \in P
    <3>1. g[1] <= c /\ c < g[1] + Window /\ g[2] < Cardinality(At(P, g[1])) /\ g[2] \in Nat
      BY <2>2 DEF HitsOK
    <3>2. Cardinality(At(P, g[1])) \in Nat /\ Cardinality(At(Q, g[1])) \in Nat
          /\ Cardinality(At(P, g[1])) <= Cardinality(At(Q, g[1]))
      BY <1>3
    <3> HIDE DEF At
    <3> QED BY <3>1, <3>2
  <2> QED BY <2>1, <2>2
<1>8. Q \in SUBSET (Nat \X Nat)
  BY <1>6 DEF HitsOK
<1> QED BY <1>1, <1>4, <1>7, <1>8 DEF HitsOK

\* Time passes: what is older than a window no longer counts.
LEMMA HitsAge ==
  ASSUME NEW c \in Nat, NEW P, HitsOK(P, c)
  PROVE  HitsOK(Recent(P, c + 1), c + 1)
<1> DEFINE Q == Recent(P, c + 1)
           At(S, t) == {g \in S : g[1] = t}
<1>1. Q \in SUBSET P /\ IsFiniteSet(Q) /\ P \in SUBSET (Nat \X Nat)
  BY PartFinite DEF HitsOK, Recent
<1>2. ASSUME NEW h \in Q  PROVE  h[1] <= c + 1 /\ c + 1 < h[1] + Window /\ h[2] < Cardinality(At(Q, h[1]))
  <2>1. At(Q, h[1]) = At(P, h[1])
    BY <1>1, <1>2 DEF Recent
  <2>2. h[1] \in Nat /\ h[1] <= c /\ h[2] < Cardinality(At(P, h[1])) /\ c + 1 < h[1] + Window
    BY <1>1, LimitsAssumption DEF HitsOK, Recent
  <2> HIDE DEF At, Q
  <2> QED BY <2>1, <2>2
<1> QED BY <1>1, <1>2 DEF HitsOK

LEMMA WindowAges ==
  ASSUME NEW c \in Nat, NEW P, HitsOK(P, c), NEW limit \in Nat, NEW b, WindowOK(b, P, c, limit)
  PROVE  WindowOK(b, Recent(P, c + 1), c + 1, limit)
<1> DEFINE Q == Recent(P, c + 1)
           r == b.resetAt
<1> SUFFICES WindowOK(b, Q, c + 1, limit)
  OBVIOUS
<1>1. /\ Q \in SUBSET P /\ IsFiniteSet(P) /\ P \in SUBSET (Nat \X Nat)
      /\ r \in Nat /\ b \in [count : Nat, resetAt : Nat] /\ r <= c + Window /\ Window \in Nat
  BY LimitsAssumption DEF HitsOK, Recent, WindowOK
<1>2. Cardinality(Q) <= Cardinality(P) /\ Cardinality(Q) \in Nat /\ Cardinality(P) \in Nat
  BY <1>1, PartFinite
<1>3. ASSUME NEW h \in Q  PROVE  h[1] < c + 1
  <2> HIDE DEF Q
  <2>1. h \in P
    BY <1>1
  <2>2. h[1] \in Nat /\ h[1] <= c
    BY <1>1, <2>1 DEF HitsOK
  <2> QED BY <2>2
<1>4. CASE c >= r
  <2>1. Cardinality(P) <= limit
    BY <1>4 DEF WindowOK
  <2>2. c + 1 >= b.resetAt /\ b.resetAt <= c + 1 + Window
    BY <1>1, <1>4
  <2> HIDE DEF Q
  <2>3. Cardinality(Q) <= limit /\ ~(c + 1 < b.resetAt)
    BY <1>1, <1>2, <2>1, <2>2
  <2> QED BY <1>1, <1>3, <2>2, <2>3 DEF WindowOK
<1>5. CASE c < r /\ c + 1 >= r
  <2>1. Q \in SUBSET Since(P, r)
    BY <1>1, <1>5 DEF Recent, Since
  <2>2. Cardinality(Since(P, r)) <= limit
    BY <1>1, <1>5 DEF WindowOK
  <2>3. IsFiniteSet(Since(P, r)) /\ Cardinality(Since(P, r)) \in Nat
    BY <1>1, PartsAdd
  <2>4. Cardinality(Q) <= Cardinality(Since(P, r))
    BY <2>1, <2>3, PartFinite
  <2>5. c + 1 >= b.resetAt /\ b.resetAt <= c + 1 + Window
    BY <1>1, <1>5
  <2> HIDE DEF Q
  <2>6. Cardinality(Q) <= limit /\ ~(c + 1 < b.resetAt)
    BY <1>1, <1>2, <2>2, <2>3, <2>4, <2>5
  <2> QED BY <1>1, <1>3, <2>5, <2>6 DEF WindowOK
<1>6. CASE c + 1 < r
  <2>1. Since(Q, r) = Since(P, r) /\ Before(Q, r) \in SUBSET Before(P, r)
    BY <1>1, <1>6 DEF Recent, Since, Before
  <2>2. IsFiniteSet(Before(P, r))
    BY <1>1, PartsAdd
  <2>3. /\ Cardinality(Before(Q, r)) <= Cardinality(Before(P, r))
        /\ Cardinality(Before(Q, r)) \in Nat /\ Cardinality(Before(P, r)) \in Nat
    BY <2>1, <2>2, PartFinite
  <2>4. /\ Cardinality(Before(P, r)) <= limit
        /\ Cardinality(Since(P, r)) = IF b.count < limit THEN b.count ELSE limit
    BY <1>1, <1>6 DEF WindowOK
  <2>5. ~(c + 1 >= b.resetAt) /\ b.resetAt <= c + 1 + Window
    BY <1>1, <1>6
  <2> HIDE DEF Q
  <2>6. Cardinality(Before(Q, r)) <= limit
    BY <2>3, <2>4
  <2> QED BY <1>1, <2>1, <2>4, <2>5, <2>6 DEF WindowOK
<1> QED BY <1>1, <1>4, <1>5, <1>6

\* A hit on a key whose bucket has ended starts a new one.
LEMMA FirstHit ==
  ASSUME NEW c \in Nat, NEW P, HitsOK(P, c), NEW limit \in Nat \ {0}, NEW b, WindowOK(b, P, c, limit),
         c >= b.resetAt, NEW h, h[1] = c
  PROVE  WindowOK([count |-> 1, resetAt |-> c + Window], P \cup {h}, c, limit)
<1> DEFINE r == c + Window
           Q == P \cup {h}
<1>1. P \in SUBSET (Nat \X Nat) /\ IsFiniteSet(P) /\ Window \in Nat \ {0} /\ Cardinality(P) <= limit
      /\ \A g \in P : g[1] < c
  BY LimitsAssumption DEF HitsOK, WindowOK
<1>2. Before(Q, r) = P /\ Since(Q, r) = {h}
  BY <1>1 DEF Before, Since
<1>3. Cardinality({h}) = 1
  BY FS_Singleton
<1> QED BY <1>1, <1>2, <1>3 DEF WindowOK

\* A later one counts in the bucket, and passes below the limit.
LEMMA LaterHit ==
  ASSUME NEW c \in Nat, NEW P, HitsOK(P, c), NEW limit \in Nat \ {0}, NEW b, WindowOK(b, P, c, limit),
         c < b.resetAt, NEW h, h[1] = c, h \notin P,
         NEW Q, Q = IF b.count < limit THEN P \cup {h} ELSE P
  PROVE  WindowOK([b EXCEPT !.count = @ + 1], Q, c, limit)
<1> DEFINE r == b.resetAt
<1>1. P \in SUBSET (Nat \X Nat) /\ Window \in Nat \ {0} /\ b \in [count : Nat, resetAt : Nat] /\ r <= c + Window
  BY LimitsAssumption DEF HitsOK, WindowOK
<1>2. /\ Cardinality(Before(P, r)) <= limit
      /\ Cardinality(Since(P, r)) = IF b.count < limit THEN b.count ELSE limit
  BY DEF WindowOK
<1>3. Before(Q, r) = Before(P, r)
  BY <1>1 DEF Before
<1>4. IsFiniteSet(Since(P, r))
  BY <1>1, PartsAdd
<1>5. CASE b.count < limit
  <2>1. Since(Q, r) = Since(P, r) \cup {h} /\ h \notin Since(P, r)
    BY <1>1, <1>5 DEF Since
  <2>2. Cardinality(Since(Q, r)) = Cardinality(Since(P, r)) + 1
    BY <2>1, <1>4, FS_AddElement
  <2> QED BY <1>1, <1>2, <1>3, <1>5, <2>2 DEF WindowOK
<1>6. CASE ~(b.count < limit)
  <2>1. Q = P
    BY <1>6
  <2> QED BY <1>1, <1>2, <1>6, <2>1 DEF WindowOK
<1> QED BY <1>5, <1>6

\* What the limits say of a bucket.
LEMMA WindowBounds ==
  ASSUME NEW c \in Nat, NEW P, HitsOK(P, c), NEW limit \in Nat \ {0}, NEW b, WindowOK(b, P, c, limit)
  PROVE  /\ Cardinality(P) \in Nat /\ Cardinality(P) <= 2 * limit
         /\ (c < b.resetAt /\ b.count >= limit) => Cardinality(P) >= limit
<1>1. b.resetAt \in Nat /\ b.count \in Nat /\ IsFiniteSet(P)
  BY DEF WindowOK, HitsOK
<1>2. Cardinality(P) \in Nat
  BY <1>1, FS_CardinalityType
<1>3. CASE c >= b.resetAt
  BY <1>1, <1>2, <1>3 DEF WindowOK
<1>4. CASE c < b.resetAt
  <2>1. /\ Cardinality(P) = Cardinality(Before(P, b.resetAt)) + Cardinality(Since(P, b.resetAt))
        /\ Cardinality(Before(P, b.resetAt)) \in Nat /\ Cardinality(Since(P, b.resetAt)) \in Nat
    BY <1>1, PartsAdd
  <2> QED BY <1>1, <1>2, <1>4, <2>1 DEF WindowOK
<1> QED BY <1>1, <1>3, <1>4

\* A swept bucket: the absent entry says as much as the ended one.
LEMMA SweptKeeps ==
  ASSUME NEW c \in Nat, NEW P, NEW limit \in Nat, NEW b, WindowOK(b, P, c, limit), c >= b.resetAt
  PROVE  WindowOK(NoBucket, P, c, limit)
BY LimitsAssumption DEF WindowOK, NoBucket

\* A request meets each limiter once, with a key of its own.
LEMMA MetOnce ==
  ASSUME NEW path \in Paths, NEW a \in Addresses, NEW t \in Tenants
  PROVE  /\ \A i \in DOMAIN Met(path, a, t) : Met(path, a, t)[i] \in Limiters \X Keys
         /\ \A i, j \in DOMAIN Met(path, a, t) :
              Met(path, a, t)[i][1] = Met(path, a, t)[j][1] => Met(path, a, t)[i] = Met(path, a, t)[j]
<1>1. a \in Keys /\ t \in Keys /\ {"address", "auth", "tenant"} \subseteq Limiters
  BY DEF Keys, Limiters
<1>2. CASE path = "public"
  BY <1>2 DEF Met
<1>3. CASE path = "credential"
  BY <1>1, <1>3 DEF Met
<1>4. CASE path = "product"
  BY <1>1, <1>4 DEF Met
<1>5. CASE path \in {"exempt", "protected"}
  BY <1>1, <1>5 DEF Met
<1> QED BY <1>2, <1>3, <1>4, <1>5 DEF Paths

\* The buckets of a limiter after a hit on one key, before and after the sweep.
LEMMA BucketAfter ==
  ASSUME NEW l \in Limiters, Limit[l] # 0, NEW B \in [Keys -> [count : Nat, resetAt : Nat]],
         NEW c \in Nat, NEW k \in Keys
  PROVE  LET after == HitBuckets(l, B, k, c)
         IN  /\ after \in [Keys -> [count : Nat, resetAt : Nat]]
             /\ Counted(B, k, c)[k] = [Current(B[k], c) EXCEPT !.count = @ + 1]
             /\ \A j \in Keys \ {k} : Counted(B, k, c)[j] = B[j]
             /\ \A j \in Keys : \/ after[j] = Counted(B, k, c)[j]
                                \/ c >= Counted(B, k, c)[j].resetAt /\ after[j] = NoBucket
<1>1. [Current(B[k], c) EXCEPT !.count = @ + 1] \in [count : Nat, resetAt : Nat]
  BY LimitsAssumption DEF Current
<1>2. PICK m : m = Counted(B, k, c)
  OBVIOUS
<1>3. /\ m \in [Keys -> [count : Nat, resetAt : Nat]]
      /\ m[k] = [Current(B[k], c) EXCEPT !.count = @ + 1]
      /\ \A j \in Keys \ {k} : m[j] = B[j]
  BY <1>1, <1>2 DEF Counted
<1>4. HitBuckets(l, B, k, c) = Bounded(m, c)
  BY <1>2 DEF HitBuckets
<1>5. Sweep(m, c) \in [Keys -> [count : Nat, resetAt : Nat]]
  BY <1>3 DEF Sweep, NoBucket
<1>6. \A j \in Keys : Sweep(m, c)[j] = m[j] \/ (c >= m[j].resetAt /\ Sweep(m, c)[j] = NoBucket)
  BY DEF Sweep
<1> QED BY <1>2, <1>3, <1>4, <1>5, <1>6 DEF Bounded

\* One key's bucket and hits through a request that hits it.
LEMMA HitKeeps ==
  ASSUME NEW c \in Nat, NEW P, HitsOK(P, c), NEW limit \in Nat \ {0}, NEW b, WindowOK(b, P, c, limit)
  PROVE  LET h == <<c, Cardinality({g \in P : g[1] = c})>>
         IN  WindowOK([Current(b, c) EXCEPT !.count = @ + 1],
                      IF Current(b, c).count < limit THEN P \cup {h} ELSE P, c, limit)
<1>1. PICK h : h = <<c, Cardinality({g \in P : g[1] = c})>>
  OBVIOUS
<1>2. h[1] = c /\ h \notin P
  BY <1>1, HitAdded
<1>3. b.resetAt \in Nat /\ b \in [count : Nat, resetAt : Nat]
  BY DEF WindowOK
<1>4. CASE c >= b.resetAt
  <2>1. Current(b, c) = [count |-> 0, resetAt |-> c + Window]
    BY <1>4 DEF Current
  <2>2. [Current(b, c) EXCEPT !.count = @ + 1] = [count |-> 1, resetAt |-> c + Window]
    BY <2>1
  <2>3. Current(b, c).count < limit
    BY <2>1
  <2>4. WindowOK([count |-> 1, resetAt |-> c + Window], P \cup {h}, c, limit)
    BY <1>2, <1>4, FirstHit
  <2> QED BY <1>1, <2>2, <2>3, <2>4
<1>5. CASE c < b.resetAt
  <2>1. Current(b, c) = b
    BY <1>3, <1>5 DEF Current
  <2>2. PICK Q : Q = IF b.count < limit THEN P \cup {h} ELSE P
    OBVIOUS
  <2>3. WindowOK([b EXCEPT !.count = @ + 1], Q, c, limit)
    BY <1>2, <1>5, <2>2, LaterHit
  <2> QED BY <1>1, <2>1, <2>2, <2>3
<1> QED BY <1>3, <1>4, <1>5

LEMMA DoorInitial == DoorInit => DoorInv
<1> SUFFICES ASSUME DoorInit  PROVE  DoorInv
  OBVIOUS
<1>1. buckets \in [Limiters -> [Keys -> [count : Nat, resetAt : Nat]]]
  BY DEF DoorInit, NoBucket
<1>2. ASSUME NEW l \in Limiters, NEW k \in Keys
      PROVE  /\ HitsOK(passed[l][k], clock)
             /\ Limit[l] # 0 => WindowOK(buckets[l][k], passed[l][k], clock, Limit[l])
  <2>1. passed[l][k] = {} /\ clock = 0 /\ buckets[l][k] = NoBucket
    BY DEF DoorInit
  <2>2. IsFiniteSet({}) /\ Cardinality({}) = 0
    BY FS_EmptySet
  <2> QED BY <2>1, <2>2, LimitIsNumber, LimitsAssumption DEF HitsOK, WindowOK, NoBucket
<1> QED BY <1>1, <1>2 DEF DoorInit, DoorInv

LEMMA TickStep ==
  ASSUME DoorInv, Tick
  PROVE  DoorInv'
<1>1. /\ clock' = clock + 1 /\ clock \in Nat /\ buckets' = buckets /\ refused' = {}
      /\ passed' = [l \in Limiters |-> [k \in Keys |-> Recent(passed[l][k], clock + 1)]]
  BY DEF Tick, DoorInv
<1>2. passed' \in [Limiters -> [Keys -> SUBSET (Nat \X Nat)]]
  <2>1. \A l \in Limiters, k \in Keys : Recent(passed[l][k], clock + 1) \in SUBSET (Nat \X Nat)
    BY DEF DoorInv, Recent
  <2> QED BY <1>1, <2>1
<1>3. ASSUME NEW l \in Limiters, NEW k \in Keys
      PROVE  /\ HitsOK(passed'[l][k], clock')
             /\ Limit[l] # 0 => WindowOK(buckets'[l][k], passed'[l][k], clock', Limit[l])
  <2>1. passed'[l][k] = Recent(passed[l][k], clock + 1)
    BY <1>1
  <2>2. /\ HitsOK(passed[l][k], clock)
        /\ Limit[l] # 0 => WindowOK(buckets[l][k], passed[l][k], clock, Limit[l])
    BY DEF DoorInv
  <2> QED BY <1>1, <2>1, <2>2, HitsAge, WindowAges, LimitIsNumber
<1> QED BY <1>1, <1>2, <1>3 DEF DoorInv

\* The guards on one request: each limiter's buckets and hits.
LEMMA GuardShape ==
  ASSUME DoorInv, NEW path \in Paths, NEW a \in Addresses, NEW t \in Tenants, NEW keyed \in BOOLEAN,
         Guard(path, a, t, keyed)
  PROVE  /\ clock' = clock
         /\ \E hits \in SUBSET (Limiters \X Keys) :
              /\ refused' = {h \in hits : ~Allowed(h[1], buckets[h[1]], h[2], clock)}
              /\ passed' = [l \in Limiters |-> [k \in Keys |->
                   IF <<l, k>> \in hits /\ Allowed(l, buckets[l], k, clock)
                     THEN passed[l][k] \cup {NewHit(passed[l][k])} ELSE passed[l][k]]]
              /\ DOMAIN buckets' = Limiters
              /\ buckets' = [l \in Limiters |-> buckets'[l]]
              /\ \A l \in Limiters :
                   \/ buckets'[l] = buckets[l] /\ \A k \in Keys : <<l, k>> \notin hits
                   \/ \E k \in Keys :
                        /\ \A j \in Keys : <<l, j>> \in hits <=> j = k
                        /\ buckets'[l] = HitBuckets(l, buckets[l], k, clock)
<1> DEFINE met == Met(path, a, t)
<1>1. PICK hits : hits = {met[i] : i \in Hits(met)}
  OBVIOUS
<1>2. /\ clock' = clock
      /\ refused' = {h \in hits : ~Allowed(h[1], buckets[h[1]], h[2], clock)}
      /\ passed' = [l \in Limiters |-> [k \in Keys |->
           IF <<l, k>> \in hits /\ Allowed(l, buckets[l], k, clock)
             THEN passed[l][k] \cup {NewHit(passed[l][k])} ELSE passed[l][k]]]
      /\ buckets' = [l \in Limiters |->
           IF \E k \in Keys : <<l, k>> \in hits
             THEN HitBuckets(l, buckets[l], CHOOSE k \in Keys : <<l, k>> \in hits, clock) ELSE buckets[l]]
  BY <1>1 DEF Guard
<1>3. Hits(met) \subseteq DOMAIN met
  BY DEF Hits
<1>4. hits \in SUBSET (Limiters \X Keys) /\ \A g, h \in hits : g[1] = h[1] => g = h
  <2> HIDE DEF met
  <2>1. /\ \A i \in DOMAIN met : met[i] \in Limiters \X Keys
        /\ \A i, j \in DOMAIN met : met[i][1] = met[j][1] => met[i] = met[j]
    BY MetOnce DEF met
  <2> QED BY <1>1, <1>3, <2>1
<1>5. ASSUME NEW l \in Limiters
      PROVE  \/ buckets'[l] = buckets[l] /\ \A k \in Keys : <<l, k>> \notin hits
             \/ \E k \in Keys :
                  /\ \A j \in Keys : <<l, j>> \in hits <=> j = k
                  /\ buckets'[l] = HitBuckets(l, buckets[l], k, clock)
  <2>1. CASE \A k \in Keys : <<l, k>> \notin hits
    BY <1>2, <2>1
  <2>2. CASE \E k \in Keys : <<l, k>> \in hits
    <3>1. PICK k : k = CHOOSE j \in Keys : <<l, j>> \in hits
      OBVIOUS
    <3>2. k \in Keys /\ <<l, k>> \in hits
      BY <2>2, <3>1
    <3>3. \A j \in Keys : <<l, j>> \in hits <=> j = k
      BY <1>4, <3>2
    <3>4. buckets'[l] = HitBuckets(l, buckets[l], k, clock)
      BY <1>2, <2>2, <3>1
    <3> QED BY <3>2, <3>3, <3>4
  <2> QED BY <2>1, <2>2
<1> QED BY <1>2, <1>4, <1>5

LEMMA GuardStep ==
  ASSUME DoorInv, NEW path \in Paths, NEW a \in Addresses, NEW t \in Tenants, NEW keyed \in BOOLEAN,
         Guard(path, a, t, keyed)
  PROVE  DoorInv'
<1>1. PICK hits \in SUBSET (Limiters \X Keys) :
        /\ refused' = {h \in hits : ~Allowed(h[1], buckets[h[1]], h[2], clock)}
        /\ passed' = [l \in Limiters |-> [k \in Keys |->
             IF <<l, k>> \in hits /\ Allowed(l, buckets[l], k, clock)
               THEN passed[l][k] \cup {NewHit(passed[l][k])} ELSE passed[l][k]]]
        /\ DOMAIN buckets' = Limiters
        /\ buckets' = [l \in Limiters |-> buckets'[l]]
        /\ \A l \in Limiters :
             \/ buckets'[l] = buckets[l] /\ \A k \in Keys : <<l, k>> \notin hits
             \/ \E k \in Keys :
                  /\ \A j \in Keys : <<l, j>> \in hits <=> j = k
                  /\ buckets'[l] = HitBuckets(l, buckets[l], k, clock)
  BY GuardShape
<1>2. clock' = clock /\ clock \in Nat
  BY GuardShape DEF DoorInv
<1>3. ASSUME NEW l \in Limiters, NEW k \in Keys
      PROVE  /\ buckets[l] \in [Keys -> [count : Nat, resetAt : Nat]]
             /\ HitsOK(passed[l][k], clock) /\ Limit[l] \in Nat
             /\ Limit[l] # 0 => WindowOK(buckets[l][k], passed[l][k], clock, Limit[l])
  BY LimitIsNumber DEF DoorInv
<1>4. ASSUME NEW l \in Limiters, NEW k \in Keys
      PROVE  HitsOK(passed'[l][k], clock')
  BY <1>1, <1>2, <1>3, HitAdded DEF NewHit
<1>5. ASSUME NEW l \in Limiters
      PROVE  /\ buckets'[l] \in [Keys -> [count : Nat, resetAt : Nat]]
             /\ \A k \in Keys : Limit[l] # 0 => WindowOK(buckets'[l][k], passed'[l][k], clock', Limit[l])
  <2>1. CASE buckets'[l] = buckets[l] /\ \A k \in Keys : <<l, k>> \notin hits
    <3>1. \A k \in Keys : passed'[l][k] = passed[l][k]
      BY <1>1, <2>1
    <3>2. buckets[l] \in [Keys -> [count : Nat, resetAt : Nat]]
      BY DEF DoorInv
    <3> QED BY <1>2, <1>3, <2>1, <3>1, <3>2
  <2>2. CASE \E k \in Keys :
               /\ \A j \in Keys : <<l, j>> \in hits <=> j = k
               /\ buckets'[l] = HitBuckets(l, buckets[l], k, clock)
    <3>1. PICK k \in Keys :
            /\ \A j \in Keys : <<l, j>> \in hits <=> j = k
            /\ buckets'[l] = HitBuckets(l, buckets[l], k, clock)
      BY <2>2
    <3>2. CASE Limit[l] = 0
      BY <1>3, <3>1, <3>2 DEF HitBuckets
    <3>3. CASE Limit[l] # 0
      <4>1. PICK B : B = buckets[l]
        OBVIOUS
      <4>2. PICK m : m = Counted(B, k, clock)
        OBVIOUS
      <4>3. B \in [Keys -> [count : Nat, resetAt : Nat]]
        BY <1>3, <4>1
      <4>4. /\ buckets'[l] \in [Keys -> [count : Nat, resetAt : Nat]]
            /\ m[k] = [Current(B[k], clock) EXCEPT !.count = @ + 1]
            /\ \A j \in Keys \ {k} : m[j] = B[j]
            /\ \A j \in Keys : \/ buckets'[l][j] = m[j]
                               \/ clock >= m[j].resetAt /\ buckets'[l][j] = NoBucket
        BY <1>2, <3>1, <3>3, <4>1, <4>2, <4>3, BucketAfter
      <4>5. ASSUME NEW j \in Keys  PROVE  WindowOK(m[j], passed'[l][j], clock, Limit[l])
        <5>1. PICK P : P = passed[l][j]
          OBVIOUS
        <5>2. HitsOK(P, clock) /\ Limit[l] \in Nat \ {0} /\ WindowOK(B[j], P, clock, Limit[l])
          BY <1>3, <3>3, <4>1, <5>1
        <5>3. CASE j # k
          <6>1. passed'[l][j] = P /\ m[j] = B[j]
            BY <1>1, <3>1, <4>4, <5>1, <5>3
          <6> QED BY <5>2, <6>1
        <5>4. CASE j = k
          <6>1. passed'[l][j] = IF Current(B[j], clock).count < Limit[l]
                                  THEN P \cup {<<clock, Cardinality({g \in P : g[1] = clock})>>} ELSE P
            <7>1. passed'[l][j] = IF Allowed(l, B, j, clock) THEN P \cup {NewHit(P)} ELSE P
              BY <1>1, <3>1, <4>1, <5>1, <5>4
            <7>2. Allowed(l, B, j, clock) <=> Current(B[j], clock).count < Limit[l]
              BY <3>3 DEF Allowed
            <7> QED BY <7>1, <7>2 DEF NewHit
          <6>2. WindowOK([Current(B[j], clock) EXCEPT !.count = @ + 1],
                         IF Current(B[j], clock).count < Limit[l]
                           THEN P \cup {<<clock, Cardinality({g \in P : g[1] = clock})>>} ELSE P,
                         clock, Limit[l])
            BY <1>2, <5>2, HitKeeps
          <6> QED BY <4>4, <5>4, <6>1, <6>2
        <5> QED BY <5>3, <5>4
      <4>6. ASSUME NEW j \in Keys  PROVE  WindowOK(buckets'[l][j], passed'[l][j], clock, Limit[l])
        BY <1>2, <1>3, <4>4, <4>5, SweptKeeps
      <4> QED BY <1>2, <4>4, <4>6
    <3> QED BY <3>2, <3>3
  <2> QED BY <1>1, <2>1, <2>2
<1>6. ASSUME NEW h \in refused'  PROVE  Cardinality(passed'[h[1]][h[2]]) >= Limit[h[1]]
  <2>1. PICK l \in Limiters, k \in Keys : h = <<l, k>>
    BY <1>1, <1>6
  <2>2. ~Allowed(l, buckets[l], k, clock)
    BY <1>1, <1>6, <2>1
  <2>3. passed'[l][k] = passed[l][k]
    BY <1>1, <2>2
  <2>4. Limit[l] # 0 /\ ~(Current(buckets[l][k], clock).count < Limit[l])
    BY <2>2 DEF Allowed
  <2>5. PICK b, P : b = buckets[l][k] /\ P = passed[l][k]
    OBVIOUS
  <2>6. HitsOK(P, clock) /\ Limit[l] \in Nat \ {0} /\ WindowOK(b, P, clock, Limit[l])
        /\ b \in [count : Nat, resetAt : Nat]
    BY <1>3, <2>4, <2>5
  <2>7. clock < b.resetAt /\ b.count >= Limit[l]
    BY <1>2, <2>4, <2>5, <2>6 DEF Current
  <2>8. Cardinality(P) >= Limit[l]
    BY <1>2, <2>6, <2>7, WindowBounds
  <2> QED BY <2>1, <2>3, <2>5, <2>8
<1>7. passed' \in [Limiters -> [Keys -> SUBSET (Nat \X Nat)]]
  <2>1. \A l \in Limiters, k \in Keys : passed'[l][k] \in SUBSET (Nat \X Nat)
    BY <1>4 DEF HitsOK
  <2> QED BY <1>1, <2>1
<1>8. refused' \subseteq Limiters \X Keys
  BY <1>1
<1>9. buckets' \in [Limiters -> [Keys -> [count : Nat, resetAt : Nat]]]
  BY <1>1, <1>5
<1> QED BY <1>2, <1>4, <1>5, <1>6, <1>7, <1>8, <1>9 DEF DoorInv

LEMMA DoorStep == DoorInv /\ [DoorNext]_doorVars => DoorInv'
<1> SUFFICES ASSUME DoorInv, [DoorNext]_doorVars  PROVE  DoorInv'
  OBVIOUS
<1>1. CASE UNCHANGED doorVars
  BY <1>1 DEF doorVars, DoorInv
<1> QED BY <1>1, TickStep, GuardStep DEF DoorNext

LEMMA DoorInvSuffices == DoorInv => LimitsHold
<1> SUFFICES ASSUME DoorInv  PROVE  LimitsHold
  OBVIOUS
<1>1. ASSUME NEW l \in Limiters, NEW k \in Keys, Limit[l] # 0
      PROVE  Cardinality(passed[l][k]) <= 2 * Limit[l]
  <2>1. /\ HitsOK(passed[l][k], clock) /\ clock \in Nat
        /\ WindowOK(buckets[l][k], passed[l][k], clock, Limit[l])
    BY <1>1 DEF DoorInv
  <2> QED BY <1>1, <2>1, LimitIsNumber, WindowBounds
<1> QED BY <1>1 DEF DoorInv, LimitsHold

\* Whatever the order of requests and the passing of time, and whatever is swept,
\* no address or tenant gets more than twice its limit through in any stretch as
\* long as a window, and none is refused that has not used its limit up
\* (gateway/middleware.ts: RateLimiter.hit and sweep, guard).
THEOREM LimitsAreKept == DoorSpec => []LimitsHold
<1>1. DoorSpec => []DoorInv
  BY DoorInitial, DoorStep, PTL DEF DoorSpec
<1> QED BY <1>1, DoorInvSuffices, PTL

-----------------------------------------------------------------------------
(* Companion: turns that read before their await and write after it.       *)

\* A turn in flight remembers no more than what was replied; the only one of a
\* companion whose turns never overlapped has read what is still remembered.
ChatsInv ==
  /\ \A c \in Companions : memory[c] <= replies[c]
  /\ \A r \in Turns, c \in Companions : r \in Chatting(c) => turn[r].count <= replies[c]
  /\ \A c \in Companions \ overlapped :
       /\ memory[c] = replies[c]
       /\ \A r \in Chatting(c) : turn[r].count = memory[c] /\ \A s \in Chatting(c) : s = r

UsageInv ==
  /\ UsageReachesItsOwner
  /\ \A c \in Companions : owner[c] = Nobody => owed[c] = 0

CompanionInv == CompanionTypeOK /\ ChatsInv /\ UsageInv

SessionRecords == [user : People, state : {"live", "expired", "gone"}]

LEMMA CompanionInitial == CompanionInit => CompanionInv
<1> SUFFICES ASSUME CompanionInit  PROVE  CompanionInv
  OBVIOUS
<1>1. CompanionTypeOK
  <2>1. turn \in [Turns -> Requests]
    BY DEF CompanionInit, Requests
  <2>2. tokens \in Seq(SessionRecords)
    BY DEF CompanionInit, SessionRecords
  <2> QED BY <2>1, <2>2 DEF CompanionInit, CompanionTypeOK, SessionRecords
<1>2. \A c : Chatting(c) = {}
  BY DEF CompanionInit, Chatting, Idle
<1>3. ChatsInv /\ UsageInv
  BY <1>2 DEF CompanionInit, ChatsInv, UsageInv, UsageReachesItsOwner
<1> QED BY <1>1, <1>3 DEF CompanionInv

\* A slot that is free or taken by another request; the chats in flight after it.
LEMMA AskShape ==
  ASSUME CompanionTypeOK, NEW r \in Turns, NEW request \in Requests, Ask(r, request)
  PROVE  /\ turn[r] = Idle /\ turn' \in [Turns -> Requests] /\ asked' \in Nat
         /\ \A s \in Turns : turn'[s] = IF s = r THEN request ELSE turn[s]
         /\ \A c : Chatting(c)' = Chatting(c) \cup
              (IF request.step = "chat" /\ request.companion = c THEN {r} ELSE {})
<1>1. /\ turn[r] = Idle /\ turn' = [turn EXCEPT ![r] = request] /\ asked' = asked + 1
      /\ turn \in [Turns -> Requests] /\ asked \in Nat
  BY DEF Ask, CompanionTypeOK
<1>2. turn[r].step # "chat"
  BY <1>1 DEF Idle
<1>3. \A s \in Turns : turn'[s] = IF s = r THEN request ELSE turn[s]
  BY <1>1
<1>4. ASSUME NEW c  PROVE  Chatting(c)' = Chatting(c) \cup
        (IF request.step = "chat" /\ request.companion = c THEN {r} ELSE {})
  BY <1>2, <1>3 DEF Chatting
<1> QED BY <1>1, <1>3, <1>4

LEMMA AnswerFrees ==
  ASSUME CompanionTypeOK, NEW r \in Turns, Answer(r)
  PROVE  /\ turn' \in [Turns -> Requests] /\ asked' \in Nat
         /\ \A s \in Turns : turn'[s] = IF s = r THEN Idle ELSE turn[s]
         /\ \A c : Chatting(c)' = Chatting(c) \ {r}
<1>1. turn' = [turn EXCEPT ![r] = Idle] /\ asked' = asked /\ turn \in [Turns -> Requests] /\ asked \in Nat
  BY DEF Answer, CompanionTypeOK
<1>2. Idle \in Requests /\ Idle.step # "chat"
  BY DEF Requests, Idle
<1>3. \A s \in Turns : turn'[s] = IF s = r THEN Idle ELSE turn[s]
  BY <1>1
<1>4. ASSUME NEW c  PROVE  Chatting(c)' = Chatting(c) \ {r}
  BY <1>2, <1>3 DEF Chatting
<1> QED BY <1>1, <1>2, <1>3, <1>4

\* A request that touches no memory: the chats in flight are those before it.
LEMMA ChatsKept ==
  ASSUME CompanionTypeOK, ChatsInv, UNCHANGED <<memory, replies, overlapped>>,
         \A c \in Companions : Chatting(c)' \subseteq Chatting(c),
         \A c \in Companions : \A r \in Chatting(c)' : turn'[r] = turn[r]
  PROVE  ChatsInv'
BY DEF ChatsInv, Chatting

\* What a provider made for a companion's persona is credited to its owner.
LEMMA CreditKeeps ==
  ASSUME CompanionTypeOK, UsageInv, NEW d \in Companions, Credit(d), UNCHANGED owner
  PROVE  /\ UsageInv' /\ usage' \in [Companions -> [People -> Nat]] /\ owed' \in [Companions -> Nat]
<1> DEFINE more(p) == IF p = owner[d] THEN 1 ELSE 0
           owes == IF owner[d] = Nobody THEN 0 ELSE 1
<1>1. /\ usage \in [Companions -> [People -> Nat]] /\ owed \in [Companions -> Nat]
      /\ owner \in [Companions -> People \cup {Nobody}]
  BY DEF CompanionTypeOK
<1>2. /\ usage' = [usage EXCEPT ![d] = [p \in People |-> usage[d][p] + more(p)]]
      /\ owed' = [owed EXCEPT ![d] = owed[d] + owes]
  BY <1>1 DEF Credit
<1>3. [p \in People |-> usage[d][p] + more(p)] \in [People -> Nat] /\ owed[d] + owes \in Nat
  BY <1>1
<1>4. usage' \in [Companions -> [People -> Nat]] /\ owed' \in [Companions -> Nat]
  BY <1>1, <1>2, <1>3
<1>5. ASSUME NEW c \in Companions, NEW p \in People
      PROVE  usage'[c][p] = IF p = owner'[c] THEN owed'[c] ELSE 0
  <2>1. usage[c][p] = IF p = owner[c] THEN owed[c] ELSE 0
    BY DEF UsageInv, UsageReachesItsOwner
  <2>2. CASE c = d
    BY <1>1, <1>2, <2>1, <2>2, NobodyAssumption
  <2>3. CASE c # d
    BY <1>1, <1>2, <2>1, <2>3
  <2> QED BY <2>2, <2>3
<1>6. ASSUME NEW c \in Companions, owner'[c] = Nobody  PROVE  owed'[c] = 0
  BY <1>1, <1>2, <1>6 DEF UsageInv
<1> QED BY <1>4, <1>5, <1>6 DEF UsageInv, UsageReachesItsOwner

LEMMA ChatStep ==
  ASSUME CompanionInv, NEW r \in Turns, NEW c \in Companions, Chat(r, c)
  PROVE  CompanionInv'
<1> DEFINE request == [step |-> "chat", companion |-> c, count |-> memory[c]]
<1>1. /\ Ask(r, request) /\ UNCHANGED <<records, auth, replies, owed>>
      /\ overlapped' = IF Chatting(c) = {} THEN overlapped ELSE overlapped \cup {c}
  BY DEF Chat
<1>2. request \in Requests /\ request.step = "chat" /\ request.companion = c /\ request.count = memory[c]
  BY DEF Requests, CompanionInv, CompanionTypeOK
<1>3. CompanionTypeOK
  BY DEF CompanionInv
<1>4. /\ turn[r] = Idle /\ turn' \in [Turns -> Requests] /\ asked' \in Nat
      /\ \A s \in Turns : turn'[s] = IF s = r THEN request ELSE turn[s]
      /\ \A d : Chatting(d)' = Chatting(d) \cup (IF request.step = "chat" /\ request.companion = d THEN {r} ELSE {})
  <2> HIDE DEF request
  <2> QED BY <1>1, <1>2, <1>3, AskShape
<1>5. \A d : Chatting(d)' = IF d = c THEN Chatting(d) \cup {r} ELSE Chatting(d)
  BY <1>2, <1>4
<1>6. /\ turn'[r].count = memory[c] /\ \A s \in Turns \ {r} : turn'[s] = turn[s]
      /\ \A d : r \notin Chatting(d) /\ Chatting(d) \subseteq Turns
  BY <1>2, <1>4 DEF Chatting, Idle
<1>7. CompanionTypeOK'
  BY <1>1, <1>3, <1>4 DEF records, auth, CompanionTypeOK
<1>8. UNCHANGED <<memory, owner, usage, replies, owed>>
  BY <1>1 DEF records
<1>9. UsageInv'
  BY <1>8 DEF CompanionInv, UsageInv, UsageReachesItsOwner
<1>10. ASSUME NEW d \in Companions
       PROVE  /\ memory'[d] <= replies'[d]
              /\ \A s \in Chatting(d)' : turn'[s].count <= replies'[d]
              /\ d \notin overlapped' =>
                   /\ memory'[d] = replies'[d]
                   /\ \A s \in Chatting(d)' : turn'[s].count = memory'[d] /\ \A z \in Chatting(d)' : z = s
  <2> HIDE DEF request
  <2>1. /\ memory[d] <= replies[d] /\ \A s \in Chatting(d) : turn[s].count <= replies[d]
        /\ d \notin overlapped =>
             /\ memory[d] = replies[d]
             /\ \A s \in Chatting(d) : turn[s].count = memory[d] /\ \A z \in Chatting(d) : z = s
    BY <1>6 DEF CompanionInv, ChatsInv
  <2>2. CASE d # c
    <3>1. Chatting(d)' = Chatting(d) /\ \A s \in Chatting(d) : turn'[s] = turn[s]
      BY <1>5, <1>6, <2>2
    <3>2. d \notin overlapped' => d \notin overlapped
      BY <1>1
    <3> QED BY <1>8, <2>1, <3>1, <3>2
  <2>3. CASE d = c
    <3>1. Chatting(d)' = Chatting(d) \cup {r} /\ \A s \in Chatting(d) : turn'[s] = turn[s]
      BY <1>5, <1>6, <2>3
    <3>2. d \notin overlapped' => d \notin overlapped /\ Chatting(d) = {}
      BY <1>1, <2>3
    <3> QED BY <1>6, <1>8, <2>1, <2>3, <3>1, <3>2
  <2> QED BY <2>2, <2>3
<1>11. ChatsInv'
  BY <1>10 DEF ChatsInv
<1> QED BY <1>7, <1>9, <1>11 DEF CompanionInv

LEMMA ChatRepliedStep ==
  ASSUME CompanionInv, NEW r \in Turns, ChatReplied(r)
  PROVE  CompanionInv'
<1>1. CompanionTypeOK /\ turn[r].step = "chat" /\ turn[r] \in Requests
  BY DEF ChatReplied, CompanionInv, CompanionTypeOK
<1>2. turn[r].companion \in Companions /\ turn[r].count \in Nat
  BY <1>1 DEF Requests, Idle
<1>3. PICK c \in Companions : c = turn[r].companion
  BY <1>2
<1>4. /\ memory' = [memory EXCEPT ![c] = turn[r].count + 1] /\ replies' = [replies EXCEPT ![c] = @ + 1]
      /\ Credit(c) /\ Answer(r) /\ UNCHANGED <<owner, auth, overlapped>>
  BY <1>3 DEF ChatReplied, NextCount
<1>5. /\ turn' \in [Turns -> Requests] /\ asked' \in Nat
      /\ \A s \in Turns : turn'[s] = IF s = r THEN Idle ELSE turn[s]
      /\ \A d : Chatting(d)' = Chatting(d) \ {r}
  BY <1>1, <1>4, AnswerFrees
<1>6. UsageInv' /\ usage' \in [Companions -> [People -> Nat]] /\ owed' \in [Companions -> Nat]
  BY <1>1, <1>4, CreditKeeps DEF CompanionInv
<1>7. CompanionTypeOK'
  <2>1. memory' \in [Companions -> Nat] /\ replies' \in [Companions -> Nat]
    BY <1>1, <1>2, <1>4, SMTT(30) DEF CompanionTypeOK
  <2> QED BY <1>1, <1>4, <1>5, <1>6, <2>1 DEF auth, CompanionTypeOK
<1>8. r \in Chatting(c) /\ \A d : Chatting(d) \subseteq Turns
  BY <1>1, <1>3 DEF Chatting
<1>9. ASSUME NEW d \in Companions
      PROVE  /\ memory'[d] <= replies'[d]
             /\ \A s \in Chatting(d)' : turn'[s].count <= replies'[d]
             /\ d \notin overlapped' =>
                  /\ memory'[d] = replies'[d]
                  /\ \A s \in Chatting(d)' : turn'[s].count = memory'[d] /\ \A z \in Chatting(d)' : z = s
  <2>1. /\ memory[d] <= replies[d] /\ \A s \in Chatting(d) : turn[s].count <= replies[d]
        /\ d \notin overlapped =>
             /\ memory[d] = replies[d]
             /\ \A s \in Chatting(d) : turn[s].count = memory[d] /\ \A z \in Chatting(d) : z = s
    BY <1>8 DEF CompanionInv, ChatsInv
  <2>2. \A s \in Chatting(d)' : s \in Chatting(d) /\ turn'[s] = turn[s] /\ turn[s].count \in Nat
    <3>1. ASSUME NEW s \in Chatting(d)'  PROVE  turn[s] \in Requests /\ turn[s].step = "chat"
      BY <1>1, <1>5, <1>8 DEF CompanionTypeOK, Chatting
    <3>2. ASSUME NEW s \in Chatting(d)'  PROVE  turn[s].count \in Nat
      BY <3>1 DEF Requests, Idle
    <3> QED BY <1>5, <1>8, <3>2
  <2>3. memory[d] \in Nat /\ replies[d] \in Nat
    BY <1>1 DEF CompanionTypeOK
  <2>4. CASE d # c
    <3>1. memory'[d] = memory[d] /\ replies'[d] = replies[d]
      BY <1>1, <1>4, <2>4 DEF CompanionTypeOK
    <3> QED BY <1>4, <2>1, <2>2, <3>1
  <2>5. CASE d = c
    <3>1. memory'[d] = turn[r].count + 1 /\ replies'[d] = replies[d] + 1
      BY <1>1, <1>4, <2>5 DEF CompanionTypeOK
    <3>2. d \notin overlapped => Chatting(d)' = {}
      BY <1>5, <1>8, <2>1, <2>5
    <3> QED BY <1>2, <1>4, <1>8, <2>1, <2>2, <2>3, <2>5, <3>1, <3>2
  <2> QED BY <2>4, <2>5
<1>10. ChatsInv'
  BY <1>9 DEF ChatsInv
<1> QED BY <1>6, <1>7, <1>10 DEF CompanionInv

\* The requests that remember nothing: a picture, a stream, and every canned end.
LEMMA OtherTurns ==
  ASSUME CompanionInv, NEW r \in Turns,
         (\E c \in Companions : Picture(r, c)) \/ Stream(r) \/ PictureMade(r) \/ FallBack(r)
  PROVE  CompanionInv'
<1>1. CompanionTypeOK /\ ChatsInv /\ UsageInv
  BY DEF CompanionInv
<1>2. ASSUME NEW request \in Requests, request.step # "chat", Ask(r, request), UNCHANGED <<records, auth, history>>
      PROVE  CompanionInv'
  <2>1. /\ turn[r] = Idle /\ turn' \in [Turns -> Requests] /\ asked' \in Nat
        /\ \A s \in Turns : turn'[s] = IF s = r THEN request ELSE turn[s]
        /\ \A c : Chatting(c)' = Chatting(c)
    <3>1. \A c : Chatting(c)' = Chatting(c) \cup
                   (IF request.step = "chat" /\ request.companion = c THEN {r} ELSE {})
      BY <1>1, <1>2, AskShape
    <3>2. \A c : Chatting(c)' = Chatting(c)
      BY <1>2, <3>1
    <3> QED BY <1>1, <1>2, <3>2, AskShape
  <2>2. \A c : \A s \in Chatting(c)' : turn'[s] = turn[s]
    BY <2>1 DEF Chatting, Idle
  <2>3. ChatsInv'
    BY <1>1, <1>2, <2>1, <2>2, ChatsKept DEF records, history
  <2>4. CompanionTypeOK' /\ UsageInv'
    BY <1>1, <1>2, <2>1 DEF records, auth, history, CompanionTypeOK, UsageInv, UsageReachesItsOwner
  <2> QED BY <2>3, <2>4 DEF CompanionInv
<1>3. ASSUME NEW c \in Companions, Picture(r, c)  PROVE  CompanionInv'
  <2>1. [step |-> "picture", companion |-> c] \in Requests
    BY DEF Requests
  <2> QED BY <1>2, <1>3, <2>1 DEF Picture
<1>4. CASE Stream(r)
  <2>1. [step |-> "stream"] \in Requests
    BY DEF Requests
  <2> QED BY <1>2, <1>4, <2>1 DEF Stream
<1>5. ASSUME Answer(r), UNCHANGED <<memory, replies, overlapped>>
      PROVE  turn' \in [Turns -> Requests] /\ asked' \in Nat /\ ChatsInv'
  <2>1. /\ turn' \in [Turns -> Requests] /\ asked' \in Nat
        /\ \A s \in Turns : turn'[s] = IF s = r THEN Idle ELSE turn[s]
        /\ \A c : Chatting(c)' = Chatting(c) \ {r}
    BY <1>1, <1>5, AnswerFrees
  <2>2. \A c : \A s \in Chatting(c)' : turn'[s] = turn[s]
    BY <2>1 DEF Chatting
  <2> QED BY <1>1, <1>5, <2>1, <2>2, ChatsKept
<1>6. CASE PictureMade(r)
  <2>1. turn[r].companion \in Companions
    <3>1. turn[r] \in Requests /\ turn[r].step = "picture"
      BY <1>1, <1>6 DEF PictureMade, CompanionTypeOK
    <3> QED BY <3>1 DEF Requests, Idle
  <2>2. Answer(r) /\ Credit(turn[r].companion) /\ UNCHANGED <<memory, owner, auth, replies, overlapped>>
    BY <1>6 DEF PictureMade
  <2>3. UsageInv' /\ usage' \in [Companions -> [People -> Nat]] /\ owed' \in [Companions -> Nat]
    BY <1>1, <2>1, <2>2, CreditKeeps
  <2>4. turn' \in [Turns -> Requests] /\ asked' \in Nat /\ ChatsInv'
    BY <1>5, <2>2
  <2>5. CompanionTypeOK'
    BY <1>1, <2>2, <2>3, <2>4 DEF auth, CompanionTypeOK
  <2> QED BY <2>3, <2>4, <2>5 DEF CompanionInv
<1>7. CASE FallBack(r)
  <2>1. Answer(r) /\ UNCHANGED <<records, auth, history>>
    BY <1>7 DEF FallBack
  <2>2. turn' \in [Turns -> Requests] /\ asked' \in Nat /\ ChatsInv'
    BY <1>5, <2>1 DEF records, history
  <2>3. CompanionTypeOK' /\ UsageInv'
    BY <1>1, <2>1, <2>2 DEF records, auth, history, CompanionTypeOK, UsageInv, UsageReachesItsOwner
  <2> QED BY <2>2, <2>3 DEF CompanionInv
<1> QED BY <1>3, <1>4, <1>6, <1>7

\* Accounts, sessions and claims of personas: the turns are left alone.
LEMMA SessionAlone ==
  ASSUME CompanionInv, UNCHANGED <<turn, records, asked, history>>,
         accounts' \subseteq People, tokens' \in Seq(SessionRecords)
  PROVE  CompanionInv'
<1>1. CompanionTypeOK'
  BY DEF records, history, CompanionInv, CompanionTypeOK, SessionRecords
<1>2. ChatsInv'
  BY DEF records, history, CompanionInv, ChatsInv, Chatting
<1>3. UsageInv'
  BY DEF records, history, CompanionInv, UsageInv, UsageReachesItsOwner
<1> QED BY <1>1, <1>2, <1>3 DEF CompanionInv

LEMMA TokenRetired ==
  ASSUME NEW S \in Seq(SessionRecords), NEW t \in DOMAIN S, NEW state \in {"live", "expired", "gone"}
  PROVE  [S EXCEPT ![t].state = state] \in Seq(SessionRecords)
<1>1. S[t] \in SessionRecords
  OBVIOUS
<1>2. [S[t] EXCEPT !.state = state] \in SessionRecords
  BY <1>1 DEF SessionRecords
<1> QED BY <1>2

LEMMA SessionStep ==
  ASSUME CompanionInv,
         \/ \E p \in People : Signup(p) \/ Login(p)
         \/ \E t \in DOMAIN tokens : Logout(t) \/ Expire(t) \/ Reap(t)
  PROVE  CompanionInv'
<1>1. tokens \in Seq(SessionRecords) /\ accounts \subseteq People
  BY DEF CompanionInv, CompanionTypeOK, SessionRecords
<1>2. ASSUME NEW p \in People, Signup(p) \/ Login(p)  PROVE  CompanionInv'
  <2>1. /\ tokens' = Append(tokens, [user |-> p, state |-> "live"]) /\ accounts' \subseteq People
        /\ UNCHANGED <<turn, records, asked, history>>
    BY <1>1, <1>2 DEF Signup, Login, Mint
  <2>2. [user |-> p, state |-> "live"] \in SessionRecords
    BY DEF SessionRecords
  <2>3. tokens' \in Seq(SessionRecords)
    BY <1>1, <2>1, <2>2
  <2> QED BY <2>1, <2>3, SessionAlone
<1>3. ASSUME NEW t \in DOMAIN tokens, Logout(t) \/ Expire(t) \/ Reap(t)  PROVE  CompanionInv'
  <2>1. PICK state \in {"live", "expired", "gone"} : Retire(t, state)
    BY <1>3 DEF Logout, Expire, Reap
  <2>2. tokens' \in Seq(SessionRecords)
    BY <1>1, <2>1, TokenRetired DEF Retire
  <2>3. accounts' \subseteq People /\ UNCHANGED <<turn, records, asked, history>>
    BY <1>1, <2>1 DEF Retire
  <2> QED BY <2>2, <2>3, SessionAlone
<1> QED BY <1>2, <1>3

LEMMA ClaimStep ==
  ASSUME CompanionInv, NEW t \in DOMAIN tokens, NEW d \in Companions, Claim(t, d)
  PROVE  CompanionInv'
<1>1. CompanionTypeOK /\ tokens \in Seq(SessionRecords)
  BY DEF CompanionInv, CompanionTypeOK, SessionRecords
<1>2. PICK p \in People : p = tokens[t].user
  <2>1. tokens[t] \in SessionRecords
    BY <1>1
  <2> QED BY <2>1 DEF SessionRecords
<1>3. /\ owner[d] \in {Nobody, p} /\ owner' = [owner EXCEPT ![d] = p]
      /\ UNCHANGED <<turn, memory, usage, auth, asked, history>>
  BY <1>2 DEF Claim
<1>4. CompanionTypeOK'
  BY <1>1, <1>3 DEF auth, history, CompanionTypeOK
<1>5. ChatsInv'
  BY <1>3 DEF history, CompanionInv, ChatsInv, Chatting
<1>6. UsageInv'
  <2>1. \A c \in Companions, q \in People : usage[c][q] = IF q = owner[c] THEN owed[c] ELSE 0
    BY DEF CompanionInv, UsageInv, UsageReachesItsOwner
  <2>2. \A c \in Companions : owner[c] = Nobody => owed[c] = 0
    BY DEF CompanionInv, UsageInv
  <2>3. \A c \in Companions : owner'[c] = IF c = d THEN p ELSE owner[c]
    BY <1>1, <1>3 DEF CompanionTypeOK
  <2>4. usage' = usage /\ owed' = owed
    BY <1>3 DEF history
  <2>5. ASSUME NEW c \in Companions, NEW q \in People
        PROVE  usage'[c][q] = IF q = owner'[c] THEN owed'[c] ELSE 0
    BY <1>3, <2>1, <2>2, <2>3, <2>4, NobodyAssumption
  <2>6. ASSUME NEW c \in Companions, owner'[c] = Nobody  PROVE  owed'[c] = 0
    BY <2>2, <2>3, <2>4, <2>6, NobodyAssumption
  <2> QED BY <2>5, <2>6 DEF UsageInv, UsageReachesItsOwner
<1> QED BY <1>4, <1>5, <1>6 DEF CompanionInv

LEMMA CompanionStep == CompanionInv /\ [CompanionNext]_companionVars => CompanionInv'
<1> SUFFICES ASSUME CompanionInv, [CompanionNext]_companionVars  PROVE  CompanionInv'
  OBVIOUS
<1>1. CASE UNCHANGED companionVars
  <2>1. accounts' \subseteq People /\ tokens' \in Seq(SessionRecords)
    BY <1>1 DEF companionVars, auth, CompanionInv, CompanionTypeOK, SessionRecords
  <2> QED BY <1>1, <2>1, SessionAlone DEF companionVars
<1>2. ASSUME NEW r \in Turns, NEW c \in Companions, Chat(r, c) \/ Picture(r, c)  PROVE  CompanionInv'
  BY <1>2, ChatStep, OtherTurns
<1>3. ASSUME NEW r \in Turns, Stream(r) \/ Finish(r)  PROVE  CompanionInv'
  BY <1>3, ChatRepliedStep, OtherTurns DEF Finish
<1>4. ASSUME NEW t \in DOMAIN tokens, NEW c \in Companions, Claim(t, c)  PROVE  CompanionInv'
  BY <1>4, ClaimStep
<1> QED BY <1>1, <1>2, <1>3, <1>4, SessionStep DEF CompanionNext

\* What is remembered of a relationship never exceeds the turns a provider answered,
\* and equals them unless two turns of the companion overlapped; the use of a
\* persona is credited to its owner, once for each thing made and to nobody else
\* (companion/handlers.ts, creator/handlers.ts: recordLikenessUsage).
THEOREM CompanionsRemember == CompanionSpec => []CompanionRemembers
<1>1. CompanionSpec => []CompanionInv
  BY CompanionInitial, CompanionStep, PTL DEF CompanionSpec
<1>2. CompanionInv => CompanionRemembers
  BY DEF CompanionInv, CompanionRemembers, MemoryCountsTurns, ChatsInv, UsageInv
<1> QED BY <1>1, <1>2, PTL

\* The types of the companion's state.
THEOREM CompanionTypes == CompanionSpec => []CompanionTypeOK
<1>1. CompanionSpec => []CompanionInv
  BY CompanionInitial, CompanionStep, PTL DEF CompanionSpec
<1>2. CompanionInv => CompanionTypeOK
  BY DEF CompanionInv
<1> QED BY <1>1, <1>2, PTL

-----------------------------------------------------------------------------
(* DeepHealth: probes that are raced against their timers.                 *)

\* While a check runs, a dependency that has not worked since it began is one whose
\* probe is still out or has failed.
HealthInv ==
  /\ HealthTypeOK
  /\ \A k \in Checks :
       /\ check[k].on => check[k].broken \subseteq check[k].waiting \cup check[k].bad
       /\ check[k].broken \cap working = {}

CheckRecords == [on : BOOLEAN, waiting : SUBSET Dependencies, bad : SUBSET Dependencies, broken : SUBSET Dependencies]

LEMMA HealthInitial == HealthInit => HealthInv
<1>1. NoCheck \in CheckRecords
  BY DEF NoCheck, CheckRecords
<1> QED BY <1>1 DEF HealthInit, HealthInv, HealthTypeOK, CheckRecords, NoCheck

\* A step that changes one check, and no dependency.
LEMMA CheckKeeps ==
  ASSUME HealthInv, NEW k \in Checks, NEW new \in CheckRecords, UNCHANGED working,
         check' = [check EXCEPT ![k] = new],
         new.on => new.broken \subseteq new.waiting \cup new.bad,
         new.broken \cap working = {}
  PROVE  HealthInv'
<1>1. check \in [Checks -> CheckRecords] /\ working \subseteq Dependencies
  BY DEF HealthInv, HealthTypeOK, CheckRecords
<1>2. \A j \in Checks : check'[j] = IF j = k THEN new ELSE check[j]
  BY <1>1
<1>3. HealthTypeOK'
  BY <1>1 DEF HealthTypeOK, CheckRecords
<1> QED BY <1>2, <1>3 DEF HealthInv

LEMMA SettleKeeps ==
  ASSUME HealthInv, NEW k \in Checks, NEW d \in Dependencies, NEW bad \in SUBSET {d}, Settle(k, d, bad),
         d \in working \/ d \in bad
  PROVE  HealthInv'
<1>1. check \in [Checks -> CheckRecords] /\ working \subseteq Dependencies
  BY DEF HealthInv, HealthTypeOK, CheckRecords
<1>2. PICK new : new = [check[k] EXCEPT !.waiting = @ \ {d}, !.bad = @ \cup bad]
  OBVIOUS
<1>3. check[k] \in CheckRecords
  BY <1>1
<1>4. /\ new \in CheckRecords /\ new.on = check[k].on /\ new.broken = check[k].broken
      /\ new.waiting = check[k].waiting \ {d} /\ new.bad = check[k].bad \cup bad
  BY <1>2, <1>3 DEF CheckRecords
<1>5. check' = [check EXCEPT ![k] = new] /\ UNCHANGED working
  BY <1>1, <1>2 DEF Settle
<1>6. /\ check[k].on => check[k].broken \subseteq check[k].waiting \cup check[k].bad
      /\ check[k].broken \cap working = {}
  BY DEF HealthInv
<1> QED BY <1>4, <1>5, <1>6, CheckKeeps

LEMMA HealthStep == HealthInv /\ [HealthNext]_healthVars => HealthInv'
<1> SUFFICES ASSUME HealthInv, [HealthNext]_healthVars  PROVE  HealthInv'
  OBVIOUS
<1>1. check \in [Checks -> CheckRecords] /\ working \subseteq Dependencies
  BY DEF HealthInv, HealthTypeOK, CheckRecords
<1>2. ASSUME NEW k \in Checks, StartCheck(k)  PROVE  HealthInv'
  <2>1. PICK new : new = [on |-> TRUE, waiting |-> Dependencies, bad |-> {}, broken |-> Dependencies \ working]
    OBVIOUS
  <2>2. new \in CheckRecords /\ check' = [check EXCEPT ![k] = new] /\ UNCHANGED working
    BY <1>2, <2>1 DEF StartCheck, CheckRecords
  <2> QED BY <2>1, <2>2, CheckKeeps
<1>3. ASSUME NEW k \in Checks, AnswerCheck(k)  PROVE  HealthInv'
  <2>1. NoCheck \in CheckRecords /\ check' = [check EXCEPT ![k] = NoCheck] /\ UNCHANGED working
    BY <1>3 DEF AnswerCheck, NoCheck, CheckRecords
  <2>2. ~NoCheck.on /\ NoCheck.broken = {}
    BY DEF NoCheck
  <2> QED BY <2>1, <2>2, CheckKeeps
<1>4. ASSUME NEW k \in Checks, NEW d \in Dependencies, ProbeAnswers(k, d) \/ ProbeThrows(k, d) \/ TimerEnds(k, d)
      PROVE  HealthInv'
  BY <1>4, SettleKeeps DEF ProbeAnswers, ProbeThrows, TimerEnds
<1>5. ASSUME NEW d \in Dependencies, Breaks(d)  PROVE  HealthInv'
  BY <1>5 DEF Breaks, HealthInv, HealthTypeOK
<1>6. ASSUME NEW d \in Dependencies, Recovers(d)  PROVE  HealthInv'
  <2>1. /\ working' = working \cup {d}
        /\ check' = [k \in Checks |-> [check[k] EXCEPT !.broken = @ \ {d}]]
    BY <1>6 DEF Recovers
  <2>2. ASSUME NEW k \in Checks
        PROVE  /\ check'[k] \in CheckRecords /\ check'[k].on = check[k].on
               /\ check'[k].broken = check[k].broken \ {d}
               /\ check'[k].waiting = check[k].waiting /\ check'[k].bad = check[k].bad
    <3>1. check[k] \in CheckRecords /\ check'[k] = [check[k] EXCEPT !.broken = @ \ {d}]
      BY <1>1, <2>1
    <3> QED BY <3>1 DEF CheckRecords
  <2>3. HealthTypeOK'
    BY <1>1, <2>1, <2>2 DEF HealthTypeOK, CheckRecords
  <2> QED BY <2>1, <2>2, <2>3 DEF HealthInv
<1>7. CASE UNCHANGED healthVars
  BY <1>7 DEF healthVars, HealthInv, HealthTypeOK
<1> QED BY <1>2, <1>3, <1>4, <1>5, <1>6, <1>7 DEF HealthNext, Advance

\* A deep health check says healthy only when each dependency worked at some moment
\* since it began, whatever hangs, throws or comes late (gateway/deep_health.ts:
\* boundedCheck and withTimeout).
THEOREM HealthyIsTrue == HealthSpec => []HealthIsHonest
<1>1. HealthSpec => []HealthInv
  BY HealthInitial, HealthStep, PTL DEF HealthSpec
<1>2. HealthInv => HealthIsHonest
  BY DEF HealthInv, HealthIsHonest, Settled, Healthy
<1> QED BY <1>1, <1>2, PTL

-----------------------------------------------------------------------------
(* Waitlist: places and first answers.                                     *)

Entry == [email : Emails, said : [Fields -> Details \cup {Blank}]]
ListInv ==
  /\ entries \in Seq(Entry) /\ Len(entries) <= Capacity
  /\ \A i, j \in DOMAIN entries : entries[i].email = entries[j].email => i = j

\* What a step on the list promises (PlacesAreKept without its box).
PlacesStep ==
  /\ Len(entries') >= Len(entries) /\ Len(entries') <= Capacity
  /\ \A i \in DOMAIN entries :
       /\ entries'[i].email = entries[i].email
       /\ \A f \in Fields : entries[i].said[f] # Blank => entries'[i].said[f] = entries[i].said[f]
  /\ \A i, j \in DOMAIN entries' : entries'[i].email = entries'[j].email => i = j
  /\ reply'.status = 503 => Len(entries) = Capacity /\ entries' = entries
  /\ reply'.status = 201 => reply'.position = Len(entries) + 1

\* An entry more, at the end.
LEMMA EntryAdded ==
  ASSUME NEW S \in Seq(Entry), NEW e \in Entry
  PROVE  /\ Append(S, e) \in Seq(Entry) /\ Len(Append(S, e)) = Len(S) + 1
         /\ \A i \in DOMAIN S : i \in DOMAIN Append(S, e) /\ Append(S, e)[i] = S[i]
         /\ Append(S, e)[Len(S) + 1] = e /\ DOMAIN Append(S, e) = DOMAIN S \cup {Len(S) + 1}
OBVIOUS

LEMMA SignUpStep ==
  ASSUME ListInv, NEW email \in Emails, NEW said \in [Fields -> Details \cup {Blank, Invalid}], SignUp(email, said)
  PROVE  ListInv' /\ PlacesStep
<1>1. entries \in Seq(Entry) /\ Len(entries) \in Nat /\ Len(entries) <= Capacity
  BY DEF ListInv
<1>2. CASE UNCHANGED entries /\ ((Full /\ Refuse(503)) \/ Refuse(400))
  BY <1>1, <1>2, CapacityAssumption DEF ListInv, PlacesStep, Refuse, Full
<1>3. CASE ~Full /\ (\A f \in Fields : said[f] # Invalid) /\ Enter(email, said)
  <2>1. PICK e : e = [email |-> email, said |-> said]
    OBVIOUS
  <2>2. said \in [Fields -> Details \cup {Blank}]
    BY <1>3
  <2>3. e \in Entry /\ e.email = email
    BY <2>1, <2>2 DEF Entry
  <2>4. entries' = Append(entries, e) /\ reply' = [status |-> 201, position |-> Len(entries) + 1]
    BY <1>3, <2>1 DEF Enter
  <2>5. Len(entries) + 1 <= Capacity
    BY <1>1, <1>3, CapacityAssumption DEF Full
  <2>6. /\ entries' \in Seq(Entry) /\ Len(entries') = Len(entries) + 1
        /\ \A i \in DOMAIN entries : entries'[i] = entries[i]
        /\ entries'[Len(entries) + 1] = e /\ DOMAIN entries' = DOMAIN entries \cup {Len(entries) + 1}
    BY <1>1, <2>3, <2>4, EntryAdded
  <2>7. \A i \in DOMAIN entries : entries[i].email # email
    BY DEF SignUp, Has
  <2>8. ASSUME NEW i \in DOMAIN entries', NEW j \in DOMAIN entries', entries'[i].email = entries'[j].email
        PROVE  i = j
    BY <2>3, <2>6, <2>7, <2>8 DEF ListInv
  <2>9. reply'.status = 201 /\ reply'.position = Len(entries) + 1
    BY <2>4
  <2> QED BY <1>1, <2>5, <2>6, <2>8, <2>9 DEF ListInv, PlacesStep
<1> QED BY <1>2, <1>3 DEF SignUp

LEMMA SignUpAgainStep ==
  ASSUME ListInv, NEW email \in Emails, NEW said \in [Fields -> Details \cup {Blank, Invalid}], SignUpAgain(email, said)
  PROVE  ListInv' /\ PlacesStep
<1>1. entries \in Seq(Entry) /\ Len(entries) \in Nat /\ Len(entries) <= Capacity
  BY DEF ListInv
<1>2. PICK n : n = PositionOf(email)
  OBVIOUS
<1>3. n \in DOMAIN entries /\ entries[n] \in Entry
  BY <1>1, <1>2 DEF SignUpAgain, Has, PositionOf
<1>4. PICK had, now : had = entries[n].said /\ now = [f \in Fields |-> Merged(had, said, f)]
  OBVIOUS
<1>5. had \in [Fields -> Details \cup {Blank}]
  BY <1>3, <1>4 DEF Entry
<1>6. ASSUME NEW f \in Fields
      PROVE  Merged(had, said, f) \in Details \cup {Blank} /\ (had[f] # Blank => Merged(had, said, f) = had[f])
  <2>1. said[f] \in Details \cup {Blank, Invalid} /\ f \in 1..f
    BY DEF Fields
  <2> QED BY <1>5, <2>1 DEF Merged, Throws
<1>7. now \in [Fields -> Details \cup {Blank}] /\ \A f \in Fields : had[f] # Blank => now[f] = had[f]
  BY <1>4, <1>6
<1>8. PICK e : e = [entries[n] EXCEPT !.said = now]
  OBVIOUS
<1>9. e \in Entry /\ e.email = entries[n].email /\ e.said = now
  BY <1>3, <1>7, <1>8 DEF Entry
<1>10. entries' = [entries EXCEPT ![n] = e]
  BY <1>2, <1>4, <1>8 DEF SignUpAgain
<1>11. /\ entries' \in Seq(Entry) /\ Len(entries') = Len(entries) /\ DOMAIN entries' = DOMAIN entries
       /\ \A i \in DOMAIN entries : entries'[i] = IF i = n THEN e ELSE entries[i]
  BY <1>1, <1>3, <1>9, <1>10
<1>12. reply'.status \in {200, 400}
  BY DEF SignUpAgain, Refuse
<1>13. ASSUME NEW i \in DOMAIN entries
       PROVE  /\ entries'[i].email = entries[i].email
              /\ \A f \in Fields : entries[i].said[f] # Blank => entries'[i].said[f] = entries[i].said[f]
  BY <1>4, <1>7, <1>9, <1>11
<1>14. \A i, j \in DOMAIN entries' : entries'[i].email = entries'[j].email => i = j
  BY <1>11, <1>13 DEF ListInv
<1> QED BY <1>1, <1>11, <1>12, <1>13, <1>14 DEF ListInv, PlacesStep

LEMMA ListInitial == ListInit => ListInv
BY CapacityAssumption DEF ListInit, ListInv

LEMMA ListStep == ListInv /\ [ListNext]_listVars => ListInv'
<1> SUFFICES ASSUME ListInv, [ListNext]_listVars  PROVE  ListInv'
  OBVIOUS
<1>1. CASE UNCHANGED listVars
  BY <1>1 DEF listVars, ListInv
<1> QED BY <1>1, SignUpStep, SignUpAgainStep DEF ListNext

LEMMA ListActs == ListInv /\ [ListNext]_listVars => [PlacesStep]_listVars
BY SignUpStep, SignUpAgainStep DEF ListNext

\* Whoever is on the waiting list keeps the place and the first answers
\* (market/store.ts: signup and mergeEnrichment).
THEOREM PlacesKept == ListSpec => PlacesAreKept
<1>1. ListSpec => []ListInv
  BY ListInitial, ListStep, PTL DEF ListSpec
<1> QED BY <1>1, ListActs, PTL DEF ListSpec, PlacesAreKept, PlacesStep

-----------------------------------------------------------------------------
(* Routes: what is done in the name of a session.                          *)

\* A session that is open was minted and not logged out; a persona nobody has claimed
\* was never used.
RouteInv ==
  /\ day \in Nat /\ Cardinality(Sessions) \in Nat /\ Sessions = 1..Cardinality(Sessions)
  /\ \A t \in Sessions : minted[t].user \in Users /\ minted[t].ends \in Nat
  /\ open \subseteq Sessions /\ left \subseteq Sessions /\ open \cap left = {}
  /\ creatorOf \in [Personas -> Users \cup {NoOwner}] /\ uses \in [Personas -> Nat]
  /\ usages \in [Personas -> [Users -> Nat]]
  /\ \A p \in Personas : creatorOf[p] = NoOwner => uses[p] = 0
  /\ EarningsAreTheOwners

\* What a route promises (OnlyOwnersChange without its box).
RouteStepOK ==
  /\ \A u \in profiles' \ profiles : replied'.user = u /\ Acts(replied'.token, u)
  /\ \A p \in Personas : creatorOf'[p] # creatorOf[p] =>
       creatorOf[p] = NoOwner /\ creatorOf'[p] = replied'.user /\ Acts(replied'.token, creatorOf'[p])
  /\ replied'.status >= 400 => UNCHANGED <<registered, minted, profiles, creatorOf, usages>>

LEMMA RouteInitial == RouteInit => RouteInv
<1> SUFFICES ASSUME RouteInit  PROVE  RouteInv
  OBVIOUS
<1>1. Sessions = {} /\ Cardinality(Sessions) = 0
  BY FS_EmptySet DEF RouteInit, Sessions
<1> QED BY <1>1 DEF RouteInit, RouteInv, EarningsAreTheOwners

LEMMA SessionActs ==
  ASSUME RouteInv, NEW token, UserOf(token) # NoOwner
  PROVE  UserOf(token) \in Users /\ Acts(token, UserOf(token))
<1>1. token \in open /\ ~Expired(token) /\ UserOf(token) = minted[token].user
  BY DEF UserOf
<1>2. token \in Sessions \ left /\ minted[token].user \in Users /\ minted[token].ends \in Nat /\ day \in Nat
  BY <1>1 DEF RouteInv
<1> QED BY <1>1, <1>2 DEF Acts, Expired

\* A step that leaves sessions minted, personas and uses alone, and closes sessions.
LEMMA StoresKept ==
  ASSUME RouteInv, UNCHANGED <<minted, creatorOf, usages, uses, left, day>>, open' \subseteq open
  PROVE  RouteInv'
BY DEF RouteInv, Sessions, EarningsAreTheOwners

LEMMA ReapedIsOpen == \A token : Reaped(token) \subseteq open
BY DEF Reaped

\* Sign-up and log-in mint a session under a number no other had.
LEMMA MintKeeps ==
  ASSUME RouteInv, NEW user \in Users, NEW status, MintSession(user, status),
         UNCHANGED <<creatorOf, usages, uses, left, day>>
  PROVE  RouteInv'
<1>1. PICK n \in Nat : n = Cardinality(Sessions) /\ Sessions = 1..n
  BY DEF RouteInv
<1>2. /\ minted' = [t \in Sessions \cup {n + 1} |->
           IF t = n + 1 THEN [user |-> user, ends |-> day + SessionLife] ELSE minted[t]]
      /\ open' = open \cup {n + 1}
  BY <1>1 DEF MintSession
<1>3. Sessions' = 1..(n + 1)
  <2>1. Sessions' = Sessions \cup {n + 1}
    BY <1>2 DEF Sessions
  <2>2. (1..n) \cup {n + 1} = 1..(n + 1)
    OBVIOUS
  <2> QED BY <1>1, <2>1, <2>2
<1>4. Cardinality(Sessions') = n + 1
  <2>1. Cardinality(1..(n + 1)) = n + 1
    <3>1. 1 \in Int /\ n + 1 \in Int /\ ~(1 > n + 1) /\ (n + 1) - 1 + 1 = n + 1
      OBVIOUS
    <3> QED BY <3>1, FS_Interval
  <2> QED BY <1>3, <2>1
<1>5. \A t \in Sessions' : minted'[t].user \in Users /\ minted'[t].ends \in Nat
  <2>1. \A t \in 1..(n + 1) :
          minted'[t] = IF t = n + 1 THEN [user |-> user, ends |-> day + SessionLife] ELSE minted[t]
    <3>1. (1..n) \cup {n + 1} = 1..(n + 1)
      OBVIOUS
    <3>2. minted' = [t \in 1..(n + 1) |->
             IF t = n + 1 THEN [user |-> user, ends |-> day + SessionLife] ELSE minted[t]]
      BY <1>1, <1>2, <3>1
    <3> QED BY <3>2
  <2>2. \A t \in 1..n : minted[t].user \in Users /\ minted[t].ends \in Nat
    BY <1>1 DEF RouteInv
  <2>3. day + SessionLife \in Nat
    BY RoutesAssumption DEF RouteInv
  <2> QED BY <1>3, <2>1, <2>2, <2>3
<1>6. open' \subseteq Sessions' /\ left' \subseteq Sessions' /\ open' \cap left' = {}
  <2>1. open \subseteq 1..n /\ left \subseteq 1..n /\ open \cap left = {}
    BY <1>1 DEF RouteInv
  <2>2. open' = open \cup {n + 1} /\ left' = left
    BY <1>2
  <2> QED BY <1>3, <2>1, <2>2
<1> QED BY <1>3, <1>4, <1>5, <1>6 DEF RouteInv, EarningsAreTheOwners

LEMMA SignupRouteStep ==
  ASSUME RouteInv, NEW email \in Users, NEW body \in BodyKinds, SignupRoute(email, body)
  PROVE  RouteInv' /\ RouteStepOK
<1>1. UNCHANGED <<profiles, creatorOf, usages, uses, left, day>>
  BY DEF SignupRoute
<1>2. CASE body = "good" /\ email \notin registered /\ registered' = registered \cup {email} /\ MintSession(email, 200)
  <2>1. replied'.status = 200
    BY <1>2 DEF MintSession, Respond, RouteReply
  <2> QED BY <1>1, <1>2, <2>1, MintKeeps DEF RouteStepOK
<1>3. CASE UNCHANGED <<registered, open, minted>>
  BY <1>1, <1>3, StoresKept DEF RouteStepOK
<1> QED BY <1>2, <1>3 DEF SignupRoute

LEMMA LoginRouteStep ==
  ASSUME RouteInv, NEW email \in Users, NEW body \in BodyKinds, NEW correct \in BOOLEAN,
         LoginRoute(email, body, correct)
  PROVE  RouteInv' /\ RouteStepOK
<1>1. UNCHANGED <<registered, profiles, creatorOf, usages, uses, left, day>>
  BY DEF LoginRoute
<1>2. CASE MintSession(email, 200)
  <2>1. replied'.status = 200
    BY <1>2 DEF MintSession, Respond, RouteReply
  <2> QED BY <1>1, <1>2, <2>1, MintKeeps DEF RouteStepOK
<1>3. CASE UNCHANGED <<open, minted>>
  BY <1>1, <1>3, StoresKept DEF RouteStepOK
<1> QED BY <1>2, <1>3 DEF LoginRoute

LEMMA LogoutRouteStep ==
  ASSUME RouteInv, NEW token, LogoutRoute(token)
  PROVE  RouteInv' /\ RouteStepOK
<1>1. /\ open' = open \ {token} /\ left' = left \cup ({token} \cap Sessions)
      /\ UNCHANGED <<registered, minted, profiles, creatorOf, usages, uses, day>>
  BY DEF LogoutRoute
<1>2. RouteInv'
  BY <1>1 DEF RouteInv, Sessions, EarningsAreTheOwners
<1> QED BY <1>1, <1>2 DEF RouteStepOK

\* What a route behind the session leaves alone, whichever it is.
LEMMA BehindSession ==
  ASSUME RouteInv, NEW token, NEW body,
         IF body = "broken" THEN UNCHANGED open ELSE Session(token),
         UNCHANGED <<registered, minted, usages, uses, left, day>>
  PROVE  /\ open' \subseteq open
         /\ UNCHANGED creatorOf => RouteInv'
         /\ UNCHANGED <<profiles, creatorOf>> => RouteStepOK
<1>1. open' \subseteq open
  BY ReapedIsOpen DEF Session
<1>2. UNCHANGED creatorOf => RouteInv'
  BY <1>1, StoresKept
<1>3. UNCHANGED <<profiles, creatorOf>> => RouteStepOK
  BY DEF RouteStepOK
<1> QED BY <1>1, <1>2, <1>3

LEMMA ReadRoutes ==
  ASSUME RouteInv, NEW token, Me(token) \/ (\E body \in BodyKinds : Payout(token, body))
  PROVE  RouteInv' /\ RouteStepOK
<1>1. CASE Me(token)
  <2>1. /\ Session(token) /\ UNCHANGED <<registered, minted, usages, uses, left, day>>
        /\ UNCHANGED <<profiles, creatorOf>>
    BY <1>1 DEF Me, RefuseRoute
  <2>2. PICK body : body = "good"
    OBVIOUS
  <2> QED BY <2>1, <2>2, BehindSession
<1>2. ASSUME NEW body \in BodyKinds, Payout(token, body)  PROVE  RouteInv' /\ RouteStepOK
  <2>1. /\ IF body = "broken" THEN UNCHANGED open ELSE Session(token)
        /\ UNCHANGED <<registered, minted, usages, uses, left, day>>
        /\ UNCHANGED <<profiles, creatorOf>>
    BY <1>2 DEF Payout, RefuseRoute
  <2> QED BY <2>1, BehindSession
<1> QED BY <1>1, <1>2

LEMMA ApplyStep ==
  ASSUME RouteInv, NEW token, NEW body \in BodyKinds, Apply(token, body)
  PROVE  RouteInv' /\ RouteStepOK
<1>1. /\ IF body = "broken" THEN UNCHANGED open ELSE Session(token)
      /\ UNCHANGED <<registered, minted, usages, uses, left, day>> /\ UNCHANGED creatorOf
  BY DEF Apply, RefuseRoute
<1>2. RouteInv'
  BY <1>1, BehindSession
<1>3. CASE UNCHANGED profiles
  BY <1>1, <1>2, <1>3, BehindSession
<1>4. CASE UserOf(token) # NoOwner /\ profiles' = profiles \cup {UserOf(token)} /\ Respond(token, UserOf(token), 200)
  <2>1. replied'.token = token /\ replied'.user = UserOf(token) /\ replied'.status = 200
    BY <1>4 DEF Respond, RouteReply
  <2> QED BY <1>1, <1>2, <1>4, <2>1, SessionActs DEF RouteStepOK
<1> QED BY <1>3, <1>4 DEF Apply, RefuseRoute

LEMMA SubmitPersonaStep ==
  ASSUME RouteInv, NEW token, NEW persona \in Personas, NEW body \in BodyKinds,
         SubmitPersona(token, persona, body)
  PROVE  RouteInv' /\ RouteStepOK
<1>1. /\ IF body = "broken" THEN UNCHANGED open ELSE Session(token)
      /\ UNCHANGED <<registered, minted, usages, uses, left, day>>
  BY DEF SubmitPersona
<1>2. CASE UNCHANGED <<profiles, creatorOf>>
  BY <1>1, <1>2, BehindSession
<1>3. CASE /\ UserOf(token) # NoOwner /\ ~Taken(persona, UserOf(token))
           /\ creatorOf' = [creatorOf EXCEPT ![persona] = UserOf(token)]
           /\ Respond(token, UserOf(token), 200) /\ UNCHANGED profiles
  <2>1. replied'.token = token /\ replied'.user = UserOf(token) /\ replied'.status = 200
    BY <1>3 DEF Respond, RouteReply
  <2>2. UserOf(token) \in Users /\ Acts(token, UserOf(token))
    BY <1>3, SessionActs
  <2>3. creatorOf[persona] \in {NoOwner, UserOf(token)} /\ creatorOf \in [Personas -> Users \cup {NoOwner}]
    BY <1>3 DEF Taken, RouteInv
  <2>4. \A p \in Personas : creatorOf'[p] = IF p = persona THEN UserOf(token) ELSE creatorOf[p]
    BY <1>3, <2>3
  <2>5. RouteStepOK
    BY <1>3, <2>1, <2>2, <2>3, <2>4 DEF RouteStepOK
  <2>6. EarningsAreTheOwners'
    <3>1. \A p \in Personas, u \in Users : usages[p][u] = IF creatorOf[p] = u THEN uses[p] ELSE 0
      BY DEF RouteInv, EarningsAreTheOwners
    <3>2. creatorOf[persona] = NoOwner => uses[persona] = 0
      BY DEF RouteInv
    <3>3. ASSUME NEW p \in Personas, NEW u \in Users
          PROVE  usages[p][u] = IF creatorOf'[p] = u THEN uses[p] ELSE 0
      BY <2>2, <2>3, <2>4, <3>1, <3>2, RoutesAssumption
    <3> QED BY <1>1, <3>3 DEF EarningsAreTheOwners
  <2>7. open' \subseteq open
    BY <1>1, BehindSession
  <2>8. creatorOf' \in [Personas -> Users \cup {NoOwner}]
    BY <1>3, <2>2, <2>3
  <2>9. \A p \in Personas : creatorOf'[p] = NoOwner => uses'[p] = 0
    BY <1>1, <2>2, <2>4, RoutesAssumption DEF RouteInv
  <2>10. RouteInv'
    BY <1>1, <2>6, <2>7, <2>8, <2>9 DEF RouteInv, Sessions
  <2> QED BY <2>5, <2>10
<1> QED BY <1>2, <1>3 DEF SubmitPersona, RefuseRoute

LEMMA UseStep ==
  ASSUME RouteInv, NEW persona \in Personas, Use(persona)
  PROVE  RouteInv' /\ RouteStepOK
<1>1. PICK creator \in Users : creator = creatorOf[persona]
  BY DEF Use, RouteInv
<1>2. /\ usages' = [usages EXCEPT ![persona][creator] = @ + 1] /\ uses' = [uses EXCEPT ![persona] = @ + 1]
      /\ UNCHANGED <<registered, open, minted, profiles, creatorOf, left, day>>
  BY <1>1 DEF Use
<1>3. /\ usages \in [Personas -> [Users -> Nat]] /\ uses \in [Personas -> Nat]
      /\ \A p \in Personas, u \in Users : usages[p][u] = IF creatorOf[p] = u THEN uses[p] ELSE 0
  BY DEF RouteInv, EarningsAreTheOwners
<1>4. PICK row : row = [usages[persona] EXCEPT ![creator] = @ + 1]
  OBVIOUS
<1>5. row \in [Users -> Nat] /\ usages' = [usages EXCEPT ![persona] = row]
  BY <1>2, <1>3, <1>4
<1>6. usages' \in [Personas -> [Users -> Nat]] /\ uses' \in [Personas -> Nat]
  BY <1>2, <1>3, <1>5
<1>7. ASSUME NEW p \in Personas, NEW u \in Users
      PROVE  usages'[p][u] = IF creatorOf'[p] = u THEN uses'[p] ELSE 0
  <2>1. CASE p = persona
    BY <1>1, <1>2, <1>3, <1>4, <1>5, <2>1
  <2>2. CASE p # persona
    BY <1>2, <1>3, <1>5, <2>2
  <2> QED BY <2>1, <2>2
<1>8. EarningsAreTheOwners'
  BY <1>7 DEF EarningsAreTheOwners
<1>9. \A p \in Personas : creatorOf'[p] = NoOwner => uses'[p] = 0
  BY <1>1, <1>2, RoutesAssumption DEF RouteInv
<1>10. RouteInv'
  BY <1>2, <1>6, <1>8, <1>9 DEF RouteInv, Sessions
<1>11. replied'.status = 200
  BY DEF Use, Respond, RouteReply
<1> QED BY <1>2, <1>10, <1>11 DEF RouteStepOK

LEMMA RouteNextStep == RouteInv /\ RouteNext => RouteInv' /\ RouteStepOK
<1> SUFFICES ASSUME RouteInv, RouteNext  PROVE  RouteInv' /\ RouteStepOK
  OBVIOUS
<1>1. CASE Elapse
  <2>1. /\ day' = day + 1 /\ replied'.status = 200
        /\ UNCHANGED <<registered, open, minted, profiles, creatorOf, usages, uses, left>>
    BY <1>1 DEF Elapse, Respond, RouteReply
  <2> QED BY <2>1 DEF RouteInv, Sessions, EarningsAreTheOwners, RouteStepOK
<1> QED BY <1>1, SignupRouteStep, LoginRouteStep, LogoutRouteStep, ReadRoutes, ApplyStep,
           SubmitPersonaStep, UseStep DEF RouteNext

LEMMA RouteStays == RouteInv /\ UNCHANGED routeVars => RouteInv'
BY DEF RouteInv, routeVars, Sessions, EarningsAreTheOwners

\* A profile is made and a persona claimed only by the user of a session that was
\* minted, not logged out and not past its end; what is refused changes nothing; and
\* every use of a persona is earned by the one who claimed it (gateway/server.ts:
\* creatorSessionUser; creator/handlers.ts).
THEOREM CreatorsKeep == RouteSpec => CreatorsKeepTheirs
<1>1. RouteInv /\ [RouteNext]_routeVars => RouteInv'
  BY RouteNextStep, RouteStays
<1>2. RouteSpec => []RouteInv
  BY <1>1, RouteInitial, PTL DEF RouteSpec
<1>3. RouteInv /\ [RouteNext]_routeVars => [RouteStepOK]_routeVars
  BY RouteNextStep
<1>4. RouteInv => EarningsAreTheOwners
  BY DEF RouteInv
<1> QED BY <1>2, <1>3, <1>4, PTL DEF RouteSpec, CreatorsKeepTheirs, OnlyOwnersChange, RouteStepOK

\* Both together: what somebody was given stays theirs through every later request.
THEOREM ClaimsKept == ListSpec /\ RouteSpec => ClaimsAreKept
BY PlacesKept, CreatorsKeep DEF ClaimsAreKept

-----------------------------------------------------------------------------
(* HOPE: what is recalled, what was collected, what was manipulated.       *)

IntentIds == Nat \X Nat \X {"fresh", "own"}
RememberedIntents == [id : IntentIds, text : Texts, tenant : HopeTenants, mind : Minds, fresh : BOOLEAN]
IsLast(id, i) == wrote[i].id = id /\ \A j \in DOMAIN wrote : wrote[j].id = id => j <= i

\* What the store holds is what was last remembered under each id; and a memory's
\* own counter, ahead of every id it gave, keeps those ids apart from each other.
ArchiveInv ==
  /\ wrote \in Seq(RememberedIntents) /\ idCounter \in [Minds -> Nat] /\ millis \in Nat
  /\ IsFiniteSet(DOMAIN store)
  /\ \A i \in DOMAIN wrote : wrote[i].id \in DOMAIN store
  /\ \A id \in DOMAIN store : \E i \in DOMAIN wrote :
       IsLast(id, i) /\ store[id] = [text |-> wrote[i].text, tenant |-> wrote[i].tenant]
  /\ \A i \in DOMAIN wrote : wrote[i].fresh => wrote[i].id[2] < idCounter[wrote[i].mind]
  /\ \A i, j \in DOMAIN wrote :
       i < j /\ wrote[i].fresh /\ wrote[j].fresh /\ wrote[i].mind = wrote[j].mind =>
         wrote[i].id[2] < wrote[j].id[2]

LEMMA RememberStep ==
  ASSUME ArchiveInv, NEW mind \in Minds, NEW text \in Texts, NEW tenant \in HopeTenants,
         NEW own \in Named \cup {NoId}, Remember(mind, text, tenant, own)
  PROVE  ArchiveInv'
<1> DEFINE id == IF own = NoId THEN NewId(mind) ELSE own
           new == [id |-> id, text |-> text, tenant |-> tenant, mind |-> mind, fresh |-> own = NoId]
<1>0. PICK n : n = Len(wrote) + 1
  OBVIOUS
<1>1. /\ wrote' = Append(wrote, new) /\ millis' = millis
      /\ store' = Stored(id, text, tenant)
      /\ idCounter' = IF own = NoId THEN [idCounter EXCEPT ![mind] = @ + 1] ELSE idCounter
  BY DEF Remember
<1>2. /\ wrote \in Seq(RememberedIntents) /\ idCounter \in [Minds -> Nat] /\ millis \in Nat
      /\ IsFiniteSet(DOMAIN store)
  BY DEF ArchiveInv
<1>3. id \in IntentIds /\ new \in RememberedIntents
  <2>1. NewId(mind) \in IntentIds /\ <<0, 0, "own">> \in IntentIds
    BY <1>2 DEF NewId, IntentIds
  <2>2. \A i \in DOMAIN wrote : wrote[i].id \in IntentIds
    <3>1. ASSUME NEW i \in DOMAIN wrote  PROVE wrote[i].id \in IntentIds
      <4>1. wrote[i] \in RememberedIntents
        BY <1>2
      <4> QED BY <4>1 DEF RememberedIntents
    <3> QED BY <3>1
  <2>3. id \in IntentIds
    BY <2>1, <2>2 DEF Named
  <2> HIDE DEF id
  <2> QED BY <2>3 DEF RememberedIntents
<1>4. /\ wrote' \in Seq(RememberedIntents) /\ DOMAIN wrote' = 1..n /\ DOMAIN wrote = 1..(n - 1)
      /\ n \in Nat \ {0} /\ wrote'[n] = new /\ \A i \in DOMAIN wrote : wrote'[i] = wrote[i]
  <2> HIDE DEF new
  <2>1. Len(wrote) \in Nat /\ DOMAIN wrote = 1..Len(wrote)
    BY <1>2
  <2> QED BY <2>1, <1>0, <1>1, <1>2, <1>3, AppendProperties
<1>11. /\ new.id = id /\ new.text = text /\ new.tenant = tenant /\ new.mind = mind
       /\ new.fresh = (own = NoId) /\ (own = NoId => id[2] = idCounter[mind])
  BY DEF NewId
<1> HIDE DEF new, id
<1>12. \A i \in DOMAIN wrote : wrote[i].fresh => wrote[i].id[2] < idCounter[wrote[i].mind]
  BY DEF ArchiveInv
<1>13. \A i, j \in DOMAIN wrote :
         i < j /\ wrote[i].fresh /\ wrote[j].fresh /\ wrote[i].mind = wrote[j].mind =>
           wrote[i].id[2] < wrote[j].id[2]
  BY DEF ArchiveInv
<1>5. /\ DOMAIN store' = DOMAIN store \cup {id}
      /\ store'[id] = [text |-> text, tenant |-> tenant]
      /\ \A i \in DOMAIN store : i # id => store'[i] = store[i]
  BY <1>1 DEF Stored
<1>6. IsFiniteSet(DOMAIN store')
  <2>1. IsFiniteSet(DOMAIN store \cup {id})
    BY <1>2, FS_AddElement, Zenon
  <2> QED BY <2>1, <1>5
<1>7. ASSUME NEW i \in DOMAIN wrote'  PROVE  wrote'[i].id \in DOMAIN store'
  BY <1>4, <1>5, <1>11 DEF ArchiveInv
<1>8. ASSUME NEW x \in DOMAIN store'
      PROVE  \E i \in DOMAIN wrote' :
               IsLast(x, i)' /\ store'[x] = [text |-> wrote'[i].text, tenant |-> wrote'[i].tenant]
  <2>1. CASE x = id
    <3>1. n \in DOMAIN wrote' /\ \A j \in DOMAIN wrote' : j <= n
      BY <1>4
    <3>2. IsLast(x, n)'
      BY <3>1, <2>1, <1>4, <1>11 DEF IsLast
    <3> QED BY <3>1, <3>2, <2>1, <1>4, <1>5, <1>11
  <2>2. CASE x # id
    <3>1. PICK i \in DOMAIN wrote :
            IsLast(x, i) /\ store[x] = [text |-> wrote[i].text, tenant |-> wrote[i].tenant]
      BY <2>2, <1>5 DEF ArchiveInv
    <3>2. IsLast(x, i)'
      BY <3>1, <2>2, <1>4, <1>11 DEF IsLast
    <3> QED BY <3>1, <3>2, <2>2, <1>4, <1>5
  <2> QED BY <2>1, <2>2
<1>9. ASSUME NEW i \in DOMAIN wrote', wrote'[i].fresh
      PROVE  wrote'[i].id[2] < idCounter'[wrote'[i].mind]
  <2>1. CASE i = n
    <3>1. own = NoId => idCounter[mind] < idCounter'[mind]
      BY <1>1, <1>2
    <3>2. wrote'[i] = new
      BY <2>1, <1>4
    <3> QED BY <3>1, <3>2, <1>9, <1>11
  <2>2. CASE i # n
    <3>1. i \in DOMAIN wrote /\ wrote'[i] = wrote[i]
      BY <2>2, <1>4
    <3>2. wrote[i].mind \in Minds /\ wrote[i].id[2] \in Nat
      <4>1. wrote[i] \in RememberedIntents
        BY <3>1, <1>2
      <4>2. wrote[i].id \in Nat \X Nat \X {"fresh", "own"} /\ wrote[i].mind \in Minds
        BY <4>1 DEF RememberedIntents, IntentIds
      <4> QED BY <4>2
    <3>3. idCounter[wrote[i].mind] <= idCounter'[wrote[i].mind]
          /\ idCounter'[wrote[i].mind] \in Nat /\ idCounter[wrote[i].mind] \in Nat
      BY <3>2, <1>1, <1>2
    <3> QED BY <3>1, <3>2, <3>3, <1>9, <1>12
  <2> QED BY <2>1, <2>2
<1>10. ASSUME NEW i \in DOMAIN wrote', NEW j \in DOMAIN wrote', i < j,
              wrote'[i].fresh, wrote'[j].fresh, wrote'[i].mind = wrote'[j].mind
       PROVE  wrote'[i].id[2] < wrote'[j].id[2]
  <2>1. i \in DOMAIN wrote
    BY <1>4, <1>10
  <2>2. CASE j = n
    <3>1. wrote[i].fresh /\ wrote[i].mind = mind /\ own = NoId
      BY <2>1, <2>2, <1>4, <1>10, <1>11
    <3> QED BY <2>1, <2>2, <3>1, <1>4, <1>11, <1>12
  <2>3. CASE j # n
    <3>1. j \in DOMAIN wrote /\ wrote'[i] = wrote[i] /\ wrote'[j] = wrote[j]
      BY <2>1, <2>3, <1>4
    <3> QED BY <2>1, <3>1, <1>10, <1>13
  <2> QED BY <2>2, <2>3
<1>14. idCounter' \in [Minds -> Nat] /\ millis' \in Nat /\ wrote' \in Seq(RememberedIntents)
  BY <1>1, <1>2, <1>4
<1>15. \A x \in DOMAIN store' : \E i \in DOMAIN wrote' :
         IsLast(x, i)' /\ store'[x] = [text |-> wrote'[i].text, tenant |-> wrote'[i].tenant]
  BY <1>8
<1>16. \A i, j \in DOMAIN wrote' :
         i < j /\ wrote'[i].fresh /\ wrote'[j].fresh /\ wrote'[i].mind = wrote'[j].mind =>
           wrote'[i].id[2] < wrote'[j].id[2]
  BY <1>10
<1> QED BY <1>6, <1>7, <1>9, <1>14, <1>15, <1>16 DEF ArchiveInv

LEMMA ArchiveStays ==
  ASSUME ArchiveInv, UNCHANGED <<store, idCounter, wrote>>, millis' \in Nat
  PROVE  ArchiveInv'
BY DEF ArchiveInv, IsLast

LEMMA ArchiveStep == ArchiveInv /\ [HopeNext]_hopeVars => ArchiveInv'
<1> SUFFICES ASSUME ArchiveInv, [HopeNext]_hopeVars  PROVE ArchiveInv'
  OBVIOUS
<1>1. millis \in Nat
  BY DEF ArchiveInv
<1>2. CASE ArchiveNext
  BY <1>1, <1>2, RememberStep, ArchiveStays DEF ArchiveNext, Millisecond
<1>3. CASE UNCHANGED memoryVars
  BY <1>1, <1>3, ArchiveStays DEF memoryVars
<1>4. ReflectedNext => UNCHANGED memoryVars
  BY DEF ReflectedNext, Choose, Collect, Fetch, Forget, RecordInto
<1>5. ExceptionNext => UNCHANGED memoryVars
  BY DEF ExceptionNext, Enable, Disable, ApplyManipulation
<1> QED BY <1>2, <1>3, <1>4, <1>5 DEF HopeNext, hopeVars

LEMMA ArchiveInitial == HopeInit => ArchiveInv
<1> SUFFICES ASSUME HopeInit PROVE ArchiveInv
  OBVIOUS
<1>1. DOMAIN store = {} /\ wrote = <<>> /\ DOMAIN wrote = {}
  BY DEF HopeInit
<1> QED BY <1>1, FS_EmptySet DEF HopeInit, ArchiveInv

LEMMA LastIs ==
  ASSUME ArchiveInv, NEW id \in DOMAIN store
  PROVE  /\ LastOf(id) \in DOMAIN wrote /\ IsLast(id, LastOf(id))
         /\ store[id] = [text |-> wrote[LastOf(id)].text, tenant |-> wrote[LastOf(id)].tenant]
<1>1. PICK i \in DOMAIN wrote :
        IsLast(id, i) /\ store[id] = [text |-> wrote[i].text, tenant |-> wrote[i].tenant]
  BY DEF ArchiveInv
<1>2. DOMAIN wrote \subseteq Nat
  BY DEF ArchiveInv
<1>3. \A j \in DOMAIN wrote : IsLast(id, j) => j = i
  BY <1>1, <1>2 DEF IsLast
<1>4. LastOf(id) = i
  BY <1>1, <1>3 DEF LastOf, IsLast
<1> QED BY <1>1, <1>4

LEMMA SliceIs ==
  ASSUME NEW T, NEW c \in Nat, NEW order \in [1..c -> T], NEW k \in Nat
  PROVE  /\ Len(Slice(order, k)) = IF k < c THEN k ELSE c
         /\ DOMAIN Slice(order, k) = 1..Len(Slice(order, k))
         /\ \A n \in DOMAIN Slice(order, k) : Slice(order, k)[n] = order[n]
<1>1. order \in Seq(T) /\ Len(order) = c
  OBVIOUS
<1> DEFINE upto == IF k < c THEN k ELSE c
<1>2. upto \in Nat /\ upto <= c
  OBVIOUS
<1>3. \A i \in 1..upto : order[i] \in T
  BY <1>2
<1>4. /\ SubSeq(order, 1, upto) \in Seq(T) /\ Len(SubSeq(order, 1, upto)) = upto
      /\ \A i \in 1..upto : SubSeq(order, 1, upto)[i] = order[i]
  <2> HIDE DEF upto
  <2>1. /\ SubSeq(order, 1, upto) \in Seq(T)
        /\ Len(SubSeq(order, 1, upto)) = IF 1 <= upto THEN upto - 1 + 1 ELSE 0
        /\ \A i \in 1..(upto - 1 + 1) : SubSeq(order, 1, upto)[i] = order[1 + i - 1]
    BY <1>2, <1>3, SubSeqProperties
  <2> QED BY <2>1, <1>2
<1> QED BY <1>1, <1>4 DEF Slice

LEMMA LeastNumber ==
  ASSUME NEW T, T \subseteq Nat, T # {}
  PROVE  \E x \in T : \A y \in T : x <= y
<1>1. PICK R : R = {ss \in Nat \X Nat : ss[1] < ss[2]}
  OBVIOUS
<1>2. IsWellFoundedOn(R, Nat)
  BY <1>1, NatLessThanWellFounded DEF OpToRel
<1>3. PICK x \in T : \A y \in T : ~ (<<y, x>> \in R)
  BY <1>2, WFMin
<1>4. ASSUME NEW y \in T
      PROVE  x <= y
  <2>1. x \in Nat /\ y \in Nat
    OBVIOUS
  <2>2. <<y, x>> \in R <=> y < x
    BY <1>1, <2>1
  <2> QED BY <1>3, <2>1, <2>2
<1> QED BY <1>4

LEMMA RankingExists ==
  ASSUME NEW sought, NEW S, IsFiniteSet(S), \A id \in S : Near(sought, id) \in Nat
  PROVE  Rankings(sought, S) # {}
<1> SUFFICES ASSUME Rankings(sought, S) = {}  PROVE FALSE
  OBVIOUS
<1> DEFINE Unranked == {n \in Nat : \E T \in SUBSET S : Cardinality(T) = n /\ Rankings(sought, T) = {}}
<1>1. PICK n \in Unranked : \A m \in Unranked : n <= m
  <2>1. Cardinality(S) \in Unranked
    BY FS_CardinalityType
  <2> QED BY <2>1, LeastNumber
<1>2. PICK T \in SUBSET S : Cardinality(T) = n /\ Rankings(sought, T) = {}
  OBVIOUS
<1>3. IsFiniteSet(T) /\ n \in Nat
  BY FS_Subset
<1>4. CASE T = {}
  <2>1. n = 0
    BY <1>2, <1>4, FS_EmptySet
  <2> DEFINE none == [i \in 1..0 |-> 0]
  <2>2. none \in [1..Cardinality(T) -> T] /\ DOMAIN none = {}
    BY <1>2, <2>1
  <2>3. none \in Rankings(sought, T)
    BY <1>4, <2>2 DEF Rankings
  <2> QED BY <2>3, <1>2
<1>5. CASE T # {}
  <2> DEFINE Nears == {Near(sought, id) : id \in T}
  <2>1. PICK least \in Nears : \A y \in Nears : least <= y
    <3>1. Nears \subseteq Nat /\ Nears # {}
      BY <1>5
    <3> QED BY <3>1, LeastNumber
  <2>2. PICK x \in T : Near(sought, x) = least
    BY <2>1
  <2>3. \A id \in T : Near(sought, id) >= Near(sought, x)
    BY <2>1, <2>2
  <2>4. Cardinality(T \ {x}) = n - 1 /\ n - 1 \in Nat
    <3>1. Cardinality(T \ {x}) = Cardinality(T) - 1 /\ IsFiniteSet(T \ {x})
      BY <1>3, <2>2, FS_RemoveElement
    <3>2. Cardinality(T \ {x}) \in Nat
      BY <3>1, FS_CardinalityType
    <3> QED BY <1>2, <3>1, <3>2
  <2>5. PICK order \in Rankings(sought, T \ {x}) : TRUE
    <3>1. n - 1 \notin Unranked
      BY <1>1, <1>3
    <3> QED BY <3>1, <2>4
  <2>6. /\ order \in [1..(n - 1) -> T \ {x}]
        /\ \A id \in T \ {x} : \E i \in 1..(n - 1) : order[i] = id
        /\ \A i, j \in 1..(n - 1) : i < j => Near(sought, order[i]) >= Near(sought, order[j])
    BY <2>4, <2>5 DEF Rankings
  <2> DEFINE longer == [i \in 1..n |-> IF i = n THEN x ELSE order[i]]
  <2>7. longer \in [1..n -> T] /\ longer[n] = x /\ \A i \in 1..(n - 1) : longer[i] = order[i]
    BY <1>3, <2>2, <2>4, <2>6
  <2> HIDE DEF longer, Unranked
  <2>8. ASSUME NEW id \in T  PROVE \E i \in 1..n : longer[i] = id
    <3>1. n \in 1..n /\ \A i \in 1..(n - 1) : i \in 1..n
      BY <1>3, <2>4
    <3> QED BY <3>1, <2>6, <2>7
  <2>9. ASSUME NEW i \in 1..n, NEW j \in 1..n, i < j
        PROVE  Near(sought, longer[i]) >= Near(sought, longer[j])
    <3>1. i \in 1..(n - 1) /\ longer[i] \in T
      BY <1>3, <2>7, <2>9
    <3>2. CASE j = n
      BY <3>1, <3>2, <2>3, <2>7
    <3>3. CASE j # n
      <4>1. j \in 1..(n - 1)
        BY <3>3, <1>3
      <4> QED BY <3>1, <4>1, <2>6, <2>7, <2>9
    <3> QED BY <3>2, <3>3
  <2>10. longer \in Rankings(sought, T)
    BY <1>2, <2>7, <2>8, <2>9 DEF Rankings
  <2> QED BY <2>10, <1>2
<1> QED BY <1>4, <1>5

LEMMA NearIsNumber ==
  ASSUME ArchiveInv, NEW sought \in Texts, NEW id \in DOMAIN store
  PROVE  Near(sought, id) \in Nat
<1>1. PICK i \in DOMAIN wrote : store[id].text = wrote[i].text
  BY DEF ArchiveInv
<1>2. wrote[i] \in RememberedIntents
  BY DEF ArchiveInv
<1>3. store[id].text \in Texts
  BY <1>1, <1>2 DEF RememberedIntents
<1> QED BY <1>3, LikenessAssumption DEF Near

\* What a ranking holds, and how far it is cut.
LEMMA FoundIs ==
  ASSUME ArchiveInv, NEW sought \in Texts, NEW tenant, NEW k \in Nat,
         NEW order \in Rankings(sought, Considered(tenant))
  PROVE  LET found == Slice(order, k)
         IN  /\ Len(found) <= k
             /\ \A n \in DOMAIN found :
                  /\ found[n] \in Considered(tenant)
                  /\ \A m \in 1..n : Near(sought, found[m]) >= Near(sought, found[n])
             /\ \A id \in Considered(tenant) :
                  (\A n \in DOMAIN found : found[n] # id) =>
                    Len(found) = k /\ \A n \in DOMAIN found : Near(sought, found[n]) >= Near(sought, id)
<1> DEFINE S == Considered(tenant)
           c == Cardinality(S)
           found == Slice(order, k)
<1>1. S \subseteq DOMAIN store /\ IsFiniteSet(DOMAIN store)
  BY DEF Considered, ArchiveInv
<1>2. c \in Nat
  BY <1>1, FS_Subset, FS_CardinalityType
<1>3. /\ order \in [1..c -> S]
      /\ \A id \in S : \E n \in 1..c : order[n] = id
      /\ \A m, n \in 1..c : m < n => Near(sought, order[m]) >= Near(sought, order[n])
  BY DEF Rankings
<1> HIDE DEF c, S
<1>4. /\ Len(found) = IF k < c THEN k ELSE c
      /\ DOMAIN found = 1..Len(found)
      /\ \A n \in DOMAIN found : found[n] = order[n]
  <2>1. order \in [1..c -> S] /\ c \in Nat /\ k \in Nat
    BY <1>2, <1>3
  <2> QED BY ONLY <2>1, SliceIs
<1> HIDE DEF found
<1>5. \A id \in S : Near(sought, id) \in Nat
  BY <1>1, NearIsNumber
<1>6. \A n \in DOMAIN found : n \in 1..c
  BY <1>2, <1>4
<1>7. Len(found) <= k
  BY <1>2, <1>4
<1>8. ASSUME NEW n \in DOMAIN found
      PROVE  found[n] \in S /\ \A m \in 1..n : Near(sought, found[m]) >= Near(sought, found[n])
  <2>1. found[n] \in S /\ n \in 1..c /\ found[n] = order[n]
    BY <1>3, <1>4, <1>6
  <2>2. ASSUME NEW m \in 1..n  PROVE Near(sought, found[m]) >= Near(sought, found[n])
    <3>1. m \in DOMAIN found /\ m \in 1..c /\ found[m] = order[m]
      BY <2>1, <1>2, <1>4
    <3>2. CASE m = n
      BY <3>2, <2>1, <1>5
    <3>3. CASE m # n
      BY <3>3, <3>1, <2>1, <1>3
    <3> QED BY <3>2, <3>3
  <2> QED BY <2>1, <2>2
<1>9. ASSUME NEW id \in S, \A n \in DOMAIN found : found[n] # id
      PROVE  Len(found) = k /\ \A n \in DOMAIN found : Near(sought, found[n]) >= Near(sought, id)
  <2>1. PICK j \in 1..c : order[j] = id
    BY <1>3
  <2>2. ~(j <= Len(found))
    BY <2>1, <1>2, <1>4, <1>9
  <2>3. Len(found) = k
    BY <2>2, <1>2, <1>4
  <2>4. ASSUME NEW n \in DOMAIN found  PROVE Near(sought, found[n]) >= Near(sought, id)
    BY <2>1, <2>2, <1>2, <1>3, <1>4, <1>6
  <2> QED BY <2>3, <2>4
<1> QED BY <1>7, <1>8, <1>9 DEF S, found

LEMMA RecallSuffices == ArchiveInv => RecallIsOwn
<1> SUFFICES ASSUME ArchiveInv  PROVE RecallIsOwn
  OBVIOUS
<1>1. ASSUME NEW sought \in Texts, NEW tenant \in HopeTenants \cup {NoTenant}, NEW k \in HowMany,
             NEW found \in Recall(sought, tenant, k)
      PROVE  /\ Len(found) <= k
             /\ \A n \in DOMAIN found :
                  LET last == wrote[LastOf(found[n])]
                  IN  /\ store[found[n]] = [text |-> last.text, tenant |-> last.tenant]
                      /\ tenant # NoTenant => last.tenant = tenant
                      /\ \A m \in 1..n : Near(sought, found[m]) >= Near(sought, found[n])
             /\ \A i \in DOMAIN wrote :
                  LET id == wrote[i].id
                  IN  (/\ i = LastOf(id) /\ tenant \in {wrote[i].tenant, NoTenant}
                       /\ \A n \in DOMAIN found : found[n] # id) =>
                         /\ Len(found) = k
                         /\ \A n \in DOMAIN found : Near(sought, found[n]) >= Near(sought, id)
  <2>1. PICK order \in Rankings(sought, Considered(tenant)) : found = Slice(order, k)
    BY <1>1 DEF Recall
  <2>2. k \in Nat
    BY <1>1, LikenessAssumption
  <2>3. /\ Len(found) <= k
        /\ \A n \in DOMAIN found :
             /\ found[n] \in Considered(tenant)
             /\ \A m \in 1..n : Near(sought, found[m]) >= Near(sought, found[n])
        /\ \A id \in Considered(tenant) :
             (\A n \in DOMAIN found : found[n] # id) =>
               Len(found) = k /\ \A n \in DOMAIN found : Near(sought, found[n]) >= Near(sought, id)
    BY <2>1, <2>2, FoundIs, SMTT(30)
  <2>4. ASSUME NEW n \in DOMAIN found
        PROVE  LET last == wrote[LastOf(found[n])]
               IN  /\ store[found[n]] = [text |-> last.text, tenant |-> last.tenant]
                   /\ tenant # NoTenant => last.tenant = tenant
    <3>1. found[n] \in DOMAIN store /\ (tenant # NoTenant => store[found[n]].tenant = tenant)
      BY <2>3 DEF Considered
    <3> QED BY <3>1, LastIs
  <2>5. ASSUME NEW i \in DOMAIN wrote, i = LastOf(wrote[i].id), tenant \in {wrote[i].tenant, NoTenant}
        PROVE  wrote[i].id \in Considered(tenant)
    <3>1. wrote[i].id \in DOMAIN store
      BY DEF ArchiveInv
    <3>2. store[wrote[i].id] = [text |-> wrote[i].text, tenant |-> wrote[i].tenant]
      BY <3>1, <2>5, LastIs
    <3> QED BY <3>1, <3>2, <2>5 DEF Considered
  <2> QED BY <2>3, <2>4, <2>5
<1>2. ASSUME NEW i \in DOMAIN wrote, NEW j \in DOMAIN wrote, i # j,
             wrote[i].id = wrote[j].id, wrote[i].fresh, wrote[j].fresh
      PROVE  wrote[i].mind # wrote[j].mind
  <2>2. i \in Nat /\ j \in Nat /\ wrote[i] \in RememberedIntents
    BY DEF ArchiveInv
  <2>3. wrote[i].id[2] \in Nat
    <3>1. wrote[i].id \in Nat \X Nat \X {"fresh", "own"}
      BY <2>2 DEF RememberedIntents, IntentIds
    <3> QED BY <3>1
  <2>4. i < j \/ j < i
    BY <2>2, <1>2
  <2>5. \A x, y \in DOMAIN wrote :
          x < y /\ wrote[x].fresh /\ wrote[y].fresh /\ wrote[x].mind = wrote[y].mind =>
            wrote[x].id[2] < wrote[y].id[2]
    BY DEF ArchiveInv
  <2> QED BY <2>3, <2>4, <2>5, <1>2
<1> QED BY <1>1, <1>2 DEF RecallIsOwn

Observations == [nth : Nat, agreed : SUBSET Owners]
Containers == Seq(Observations)

\* An observation that was collected is in the container of its user's reflected id,
\* and came after everyone of that id was last forgotten.
ReflectedInv ==
  /\ taken \in Nat /\ forgotten \in [Owners -> Nat] /\ \A p \in Owners : forgotten[p] <= taken
  /\ notes \in Seq(Containers)
  /\ containers \in [ReflectedIds -> Nat]
  /\ consent \in [Owners -> {"none", "in", "out"}]
  /\ \A o \in DOMAIN notes : \A n \in DOMAIN notes[o] : notes[o][n].nth <= taken
  /\ \A p \in Owners : ObjectOf(p) # 0 => ObjectOf(p) \in DOMAIN notes
  /\ ForgottenForGood

LEMMA ReflectedFacts ==
  ASSUME ReflectedInv
  PROVE  /\ taken \in Nat /\ notes \in Seq(Containers) /\ containers \in [ReflectedIds -> Nat]
         /\ consent \in [Owners -> {"none", "in", "out"}] /\ forgotten \in [Owners -> Nat]
         /\ \A p \in Owners : forgotten[p] <= taken
         /\ \A p \in Owners : ObjectOf(p) # 0 => ObjectOf(p) \in DOMAIN notes
         /\ \A o \in DOMAIN notes : o \in Nat \ {0} /\ notes[o] \in Containers
<1>1. notes \in Seq(Containers)
  BY DEF ReflectedInv
<1>2. \A o \in DOMAIN notes : o \in Nat \ {0} /\ notes[o] \in Containers
  BY <1>1
<1> QED BY <1>1, <1>2 DEF ReflectedInv

LEMMA NoteTypes ==
  ASSUME NEW seen \in Containers, NEW n \in DOMAIN seen
  PROVE  seen[n] \in Observations /\ seen[n].nth \in Nat /\ seen[n].agreed \subseteq Owners
<1>1. n \in 1..Len(seen)
  BY DEF Containers
<1>2. seen[n] \in Observations
  BY <1>1, ElementOfSeq DEF Containers
<1> QED BY <1>2 DEF Observations

LEMMA ReflectedIdIs == \A p \in Owners : ReflectedId[p] \in ReflectedIds
BY ReflectedAssumption

\* What a step may do to the notes: each observation it leaves is one that was there, of
\* users whose container and forgetting it leaves alone, or the one it has just taken.
LEMMA NotesKeep ==
  ASSUME ReflectedInv, taken' \in Nat, taken' >= taken,
         notes' \in Seq(Containers), containers' \in [ReflectedIds -> Nat],
         consent' \in [Owners -> {"none", "in", "out"}], forgotten' \in [Owners -> Nat],
         \A p \in Owners : consent'[p] = "none" => consent[p] = "none",
         \A p \in Owners : forgotten'[p] <= taken',
         \A p \in Owners : ObjectOf(p)' # 0 => ObjectOf(p)' \in DOMAIN notes',
         \A o \in DOMAIN notes' : \A n \in DOMAIN notes'[o] :
           \/ /\ o \in DOMAIN notes /\ n \in DOMAIN notes[o] /\ notes'[o][n] = notes[o][n]
              /\ \A who \in Owners : ObjectOf(who) = o =>
                   /\ ObjectOf(who)' = o
                   /\ \A p \in Owners : ReflectedId[p] = ReflectedId[who] => forgotten'[p] = forgotten[p]
           \/ /\ notes'[o][n].nth = taken + 1 /\ taken' = taken + 1
              /\ \A p \in Owners : forgotten'[p] = forgotten[p]
              /\ \A who \in notes'[o][n].agreed :
                   who \in Owners /\ consent'[who] # "none" /\ ObjectOf(who)' = o
  PROVE  ReflectedInv'
<1>1. ASSUME NEW o \in DOMAIN notes', NEW n \in DOMAIN notes'[o]
      PROVE  /\ notes'[o][n].nth <= taken'
             /\ \A who \in notes'[o][n].agreed :
                  /\ consent'[who] # "none" /\ ObjectOf(who)' = o
                  /\ \A p \in Owners : ReflectedId[p] = ReflectedId[who] =>
                       notes'[o][n].nth > forgotten'[p]
  <2>1. CASE /\ o \in DOMAIN notes /\ n \in DOMAIN notes[o] /\ notes'[o][n] = notes[o][n]
             /\ \A who \in Owners : ObjectOf(who) = o =>
                  /\ ObjectOf(who)' = o
                  /\ \A p \in Owners : ReflectedId[p] = ReflectedId[who] => forgotten'[p] = forgotten[p]
    <3>1. /\ notes[o][n].nth \in Nat /\ notes[o][n].agreed \subseteq Owners
          /\ notes[o][n].nth <= taken /\ taken \in Nat
      BY <2>1, ReflectedFacts, NoteTypes DEF ReflectedInv
    <3>2. ASSUME NEW who \in notes[o][n].agreed
          PROVE  /\ who \in Owners /\ consent[who] # "none" /\ ObjectOf(who) = o
                 /\ \A p \in Owners : ReflectedId[p] = ReflectedId[who] => notes[o][n].nth > forgotten[p]
      BY <2>1, <3>1, <3>2 DEF ReflectedInv, ForgottenForGood
    <3>3. ASSUME NEW who \in notes'[o][n].agreed
          PROVE  /\ consent'[who] # "none" /\ ObjectOf(who)' = o
                 /\ \A p \in Owners : ReflectedId[p] = ReflectedId[who] =>
                      notes'[o][n].nth > forgotten'[p]
      <4>1. who \in notes[o][n].agreed
        BY <2>1, <3>3
      <4>2. /\ who \in Owners /\ consent[who] # "none" /\ ObjectOf(who) = o
            /\ \A p \in Owners : ReflectedId[p] = ReflectedId[who] => notes[o][n].nth > forgotten[p]
        BY <4>1, <3>2
      <4> QED BY <2>1, <4>2
    <3>4. notes'[o][n].nth <= taken'
      BY <2>1, <3>1
    <3> QED BY <3>3, <3>4
  <2>2. CASE /\ notes'[o][n].nth = taken + 1 /\ taken' = taken + 1
             /\ \A p \in Owners : forgotten'[p] = forgotten[p]
             /\ \A who \in notes'[o][n].agreed :
                  who \in Owners /\ consent'[who] # "none" /\ ObjectOf(who)' = o
    <3>1. \A p \in Owners : forgotten[p] \in Nat /\ forgotten[p] <= taken /\ taken \in Nat
      BY ReflectedFacts
    <3> QED BY <2>2, <3>1
  <2> QED BY <1>1, <2>1, <2>2
<1>2. ForgottenForGood'
  BY <1>1 DEF ForgottenForGood
<1> QED BY <1>1, <1>2 DEF ReflectedInv

\* The two ways a container is filled: one that is there, and a new one.
LEMMA FilledKeeps ==
  ASSUME ReflectedInv, NEW o \in DOMAIN notes, NEW willing \in SUBSET Owners,
         \A who \in willing : ObjectOf(who) = o /\ consent[who] # "none",
         notes' = [notes EXCEPT ![o] = Append(@, Observation(willing))],
         taken' = taken + 1, UNCHANGED <<consent, containers, forgotten>>
  PROVE  ReflectedInv'
<1>1. /\ taken \in Nat /\ notes \in Seq(Containers) /\ notes[o] \in Containers
      /\ DOMAIN notes' = DOMAIN notes
  BY ReflectedFacts
<1>2. PICK new : new = Observation(willing)
  OBVIOUS
<1>3. new \in Observations /\ new.nth = taken + 1 /\ new.agreed = willing
  BY <1>1, <1>2 DEF Observation, Observations
<1>4. PICK seen : seen = notes[o]
  OBVIOUS
<1>5. seen \in Seq(Observations)
  BY <1>1, <1>4 DEF Containers
<1>6. PICK more : more = Append(seen, new)
  OBVIOUS
<1>7. /\ more \in Containers
      /\ \A n \in DOMAIN more : \/ n \in DOMAIN seen /\ more[n] = seen[n]
                                \/ more[n] = new
  <2>1. Len(seen) \in Nat /\ DOMAIN seen = 1..Len(seen)
    BY <1>5
  <2>2. /\ more \in Seq(Observations) /\ DOMAIN more = 1..(Len(seen) + 1)
        /\ more[Len(seen) + 1] = new /\ \A n \in 1..Len(seen) : more[n] = seen[n]
    BY <1>3, <1>5, <1>6, <2>1, AppendProperties
  <2> QED BY <2>1, <2>2 DEF Containers
<1>8. notes'[o] = more /\ \A q \in DOMAIN notes : q # o => notes'[q] = notes[q]
  BY <1>1, <1>2, <1>4, <1>6
<1>9. notes' \in Seq(Containers)
  <2>1. notes' = [notes EXCEPT ![o] = Append(notes[o], Observation(willing))]
    OBVIOUS
  <2>2. notes' = [notes EXCEPT ![o] = more]
    BY <2>1, <1>2, <1>4, <1>6, Zenon
  <2>3. notes \in Seq(Containers) /\ Len(notes) \in Nat /\ o \in 1..Len(notes)
    BY ReflectedFacts
  <2>4. [notes EXCEPT ![o] = more] \in Seq(Containers)
    BY <2>3, <1>7, ExceptSeq, ZenonT(60)
  <2> QED BY <2>2, <2>4
<1>10. \A who : ObjectOf(who)' = ObjectOf(who)
  BY DEF ObjectOf
<1>11. ASSUME NEW q \in DOMAIN notes', NEW n \in DOMAIN notes'[q]
       PROVE  \/ q \in DOMAIN notes /\ n \in DOMAIN notes[q] /\ notes'[q][n] = notes[q][n]
              \/ q = o /\ notes'[q][n] = new
  BY <1>1, <1>4, <1>7, <1>8, <1>11
<1>12. /\ containers' \in [ReflectedIds -> Nat] /\ consent' \in [Owners -> {"none", "in", "out"}]
       /\ forgotten' \in [Owners -> Nat]
       /\ taken' \in Nat /\ taken' >= taken
       /\ \A p \in Owners : consent'[p] = "none" => consent[p] = "none"
       /\ \A p \in Owners : forgotten'[p] <= taken' /\ forgotten'[p] = forgotten[p]
       /\ \A p \in Owners : ObjectOf(p)' # 0 => ObjectOf(p)' \in DOMAIN notes'
  BY <1>1, <1>10, ReflectedFacts
<1>13. ASSUME NEW q \in DOMAIN notes', NEW n \in DOMAIN notes'[q]
       PROVE  \/ /\ q \in DOMAIN notes /\ n \in DOMAIN notes[q] /\ notes'[q][n] = notes[q][n]
                 /\ \A who \in Owners : ObjectOf(who) = q =>
                      /\ ObjectOf(who)' = q
                      /\ \A p \in Owners : ReflectedId[p] = ReflectedId[who] => forgotten'[p] = forgotten[p]
              \/ /\ notes'[q][n].nth = taken + 1 /\ taken' = taken + 1
                 /\ \A p \in Owners : forgotten'[p] = forgotten[p]
                 /\ \A who \in notes'[q][n].agreed :
                      who \in Owners /\ consent'[who] # "none" /\ ObjectOf(who)' = q
  <2>1. CASE q = o /\ notes'[q][n] = new
    <3>1. \A who \in willing : who \in Owners /\ consent'[who] # "none" /\ ObjectOf(who)' = o
      BY <1>10
    <3> QED BY <2>1, <3>1, <1>3, <1>12
  <2>2. CASE q \in DOMAIN notes /\ n \in DOMAIN notes[q] /\ notes'[q][n] = notes[q][n]
    BY <2>2, <1>10, <1>12
  <2> QED BY <1>11, <2>1, <2>2
<1> QED BY <1>9, <1>12, <1>13, NotesKeep

LEMMA NewContainerKeeps ==
  ASSUME ReflectedInv, NEW p \in Owners, NEW filled \in Containers, ObjectOf(p) = 0,
         \A n \in DOMAIN filled : /\ filled[n].nth = taken + 1 /\ taken' = taken + 1
                                  /\ filled[n].agreed \subseteq {p} /\ consent[p] # "none",
         notes' = Append(notes, filled),
         containers' = [containers EXCEPT ![ReflectedId[p]] = Len(notes) + 1],
         taken' \in Nat, taken' >= taken, UNCHANGED <<consent, forgotten>>
  PROVE  ReflectedInv'
<1>1. /\ taken \in Nat /\ notes \in Seq(Containers) /\ containers \in [ReflectedIds -> Nat]
      /\ forgotten \in [Owners -> Nat] /\ Len(notes) \in Nat /\ DOMAIN notes = 1..Len(notes)
  BY ReflectedFacts
<1>2. PICK o : o = Len(notes) + 1
  OBVIOUS
<1>3. /\ notes' \in Seq(Containers) /\ DOMAIN notes' = 1..o /\ DOMAIN notes = 1..(o - 1)
      /\ o \in Nat \ {0} /\ notes'[o] = filled /\ \A q \in DOMAIN notes : notes'[q] = notes[q]
  BY <1>1, <1>2, AppendProperties
<1>4. /\ containers' \in [ReflectedIds -> Nat]
      /\ \A q \in Owners : ObjectOf(q)' = IF ReflectedId[q] = ReflectedId[p] THEN o ELSE ObjectOf(q)
  BY <1>1, <1>2, <1>3, ReflectedIdIs DEF ObjectOf
<1>5. \A q \in Owners : ObjectOf(q) # 0 => ReflectedId[q] # ReflectedId[p]
  BY DEF ObjectOf
<1>6. /\ consent' \in [Owners -> {"none", "in", "out"}] /\ forgotten' \in [Owners -> Nat]
      /\ \A q \in Owners : consent'[q] = "none" => consent[q] = "none"
      /\ \A q \in Owners : forgotten'[q] <= taken' /\ forgotten'[q] = forgotten[q]
      /\ \A q \in Owners : ObjectOf(q)' # 0 => ObjectOf(q)' \in DOMAIN notes'
  <2>1. /\ consent' \in [Owners -> {"none", "in", "out"}] /\ forgotten' \in [Owners -> Nat]
        /\ \A q \in Owners : consent'[q] = "none" => consent[q] = "none"
    BY ReflectedFacts
  <2>2. \A q \in Owners : forgotten'[q] <= taken' /\ forgotten'[q] = forgotten[q]
    BY <1>1, ReflectedFacts
  <2>3. ASSUME NEW q \in Owners, ObjectOf(q)' # 0  PROVE ObjectOf(q)' \in DOMAIN notes'
    <3>1. ObjectOf(q)' = o \/ (ObjectOf(q)' = ObjectOf(q) /\ ObjectOf(q) \in DOMAIN notes)
      BY <2>3, <1>4, ReflectedFacts
    <3>2. o \in DOMAIN notes' /\ DOMAIN notes \subseteq DOMAIN notes'
      BY <1>3
    <3> QED BY <3>1, <3>2
  <2> QED BY <2>1, <2>2, <2>3
<1>7. ASSUME NEW q \in DOMAIN notes', NEW n \in DOMAIN notes'[q]
      PROVE  \/ /\ q \in DOMAIN notes /\ n \in DOMAIN notes[q] /\ notes'[q][n] = notes[q][n]
                /\ \A who \in Owners : ObjectOf(who) = q =>
                     /\ ObjectOf(who)' = q
                     /\ \A x \in Owners : ReflectedId[x] = ReflectedId[who] => forgotten'[x] = forgotten[x]
             \/ /\ notes'[q][n].nth = taken + 1 /\ taken' = taken + 1
                /\ \A x \in Owners : forgotten'[x] = forgotten[x]
                /\ \A who \in notes'[q][n].agreed :
                     who \in Owners /\ consent'[who] # "none" /\ ObjectOf(who)' = q
  <2>1. CASE q = o
    <3>1. n \in DOMAIN filled /\ notes'[q][n] = filled[n]
      BY <2>1, <1>3, <1>7
    <3>2. ObjectOf(p)' = o
      BY <1>4
    <3>3. \A who \in filled[n].agreed : who = p
      BY <3>1
    <3> QED BY <2>1, <3>1, <3>2, <3>3, <1>6
  <2>2. CASE q # o
    <3>1. q \in DOMAIN notes /\ q # 0 /\ notes'[q] = notes[q]
      BY <2>2, <1>3
    <3>2. \A who \in Owners : ObjectOf(who) = q => ObjectOf(who)' = q
      BY <3>1, <1>4, <1>5
    <3> QED BY <3>1, <3>2, <1>6, <1>7
  <2> QED BY <2>1, <2>2
<1> QED BY <1>3, <1>4, <1>6, <1>7, NotesKeep

LEMMA ChooseStep ==
  ASSUME ReflectedInv, NEW p \in Owners, NEW choice \in {"in", "out"}, Choose(p, choice)
  PROVE  ReflectedInv'
<1>1. /\ UNCHANGED <<containers, notes, taken, forgotten>>
      /\ consent' \in [Owners -> {"none", "in", "out"}]
      /\ \A q \in Owners : consent'[q] = "none" => consent[q] = "none"
  BY ReflectedFacts DEF Choose
<1>2. \A q : ObjectOf(q)' = ObjectOf(q)
  BY <1>1 DEF ObjectOf
<1> QED BY <1>1, <1>2, ReflectedFacts, NotesKeep

LEMMA CollectStep ==
  ASSUME ReflectedInv, NEW p \in Owners, Collect(p)
  PROVE  ReflectedInv'
<1>1. CASE consent[p] # "in"
  <2>1. UNCHANGED <<containers, notes, taken, forgotten, consent>>
    BY <1>1 DEF Collect
  <2> QED BY <2>1 DEF ReflectedInv, ForgottenForGood, ObjectOf
<1>2. CASE consent[p] = "in"
  <2>1. /\ ContainerFor(p, <<Observation({p})>>) /\ taken' = taken + 1
        /\ UNCHANGED <<consent, forgotten>> /\ taken \in Nat /\ consent[p] # "none"
    BY <1>2, ReflectedFacts DEF Collect
  <2>2. PICK new : new = Observation({p})
    OBVIOUS
  <2>3. new \in Observations /\ new.nth = taken + 1 /\ new.agreed = {p}
    BY <2>1, <2>2 DEF Observation, Observations
  <2>4. CASE ObjectOf(p) # 0
    <3>1. ObjectOf(p) \in DOMAIN notes /\ notes[ObjectOf(p)] \in Seq(Observations)
      BY <2>4, ReflectedFacts DEF Containers
    <3>2. notes[ObjectOf(p)] \o <<new>> = Append(notes[ObjectOf(p)], new)
      BY <3>1, <2>3, AppendIsConcat
    <3>3. /\ notes' = [notes EXCEPT ![ObjectOf(p)] = Append(@, Observation({p}))]
          /\ UNCHANGED containers
      BY <2>1, <2>2, <2>4, <3>2 DEF ContainerFor
    <3>4. {p} \in SUBSET Owners /\ \A who \in {p} : ObjectOf(who) = ObjectOf(p) /\ consent[who] # "none"
      BY <2>1
    <3> QED BY <2>1, <3>1, <3>3, <3>4, FilledKeeps
  <2>5. CASE ObjectOf(p) = 0
    <3>1. PICK filled : filled = <<new>>
      OBVIOUS
    <3>2. filled \in Containers /\ DOMAIN filled = 1..1 /\ filled[1] = new
      BY <3>1, <2>3 DEF Containers
    <3>3. /\ notes' = Append(notes, filled)
          /\ containers' = [containers EXCEPT ![ReflectedId[p]] = Len(notes) + 1]
      BY <2>1, <2>2, <2>5, <3>1 DEF ContainerFor
    <3>4. \A n \in DOMAIN filled : filled[n] = new
      BY <3>2
    <3>5. \A n \in DOMAIN filled : /\ filled[n].nth = taken + 1 /\ taken' = taken + 1
                                   /\ filled[n].agreed \subseteq {p} /\ consent[p] # "none"
      BY <3>4, <2>1, <2>3
    <3>6. taken' \in Nat /\ taken' >= taken
      BY <2>1
    <3> QED BY <2>1, <2>5, <3>2, <3>3, <3>5, <3>6, NewContainerKeeps
  <2> QED BY <2>4, <2>5
<1> QED BY <1>1, <1>2

LEMMA FetchStep ==
  ASSUME ReflectedInv, NEW p \in Owners, Fetch(p)
  PROVE  ReflectedInv'
<1>1. /\ ObjectOf(p) = 0 /\ notes' = Append(notes, <<>>)
      /\ containers' = [containers EXCEPT ![ReflectedId[p]] = Len(notes) + 1]
      /\ UNCHANGED <<consent, taken, forgotten>>
  BY DEF Fetch, ContainerFor
<1>2. taken' \in Nat /\ taken' >= taken
  BY <1>1, ReflectedFacts
<1>3. <<>> \in Containers /\ DOMAIN <<>> = {}
  BY DEF Containers
<1> QED BY <1>1, <1>2, <1>3, NewContainerKeeps

LEMMA RecordStep ==
  ASSUME ReflectedInv, NEW o \in DOMAIN notes, RecordInto(o)
  PROVE  ReflectedInv'
<1>1. {} \in SUBSET Owners /\ \A who \in {} : ObjectOf(who) = o /\ consent[who] # "none"
  OBVIOUS
<1>2. /\ notes' = [notes EXCEPT ![o] = Append(@, Observation({}))] /\ taken' = taken + 1
      /\ UNCHANGED <<consent, containers, forgotten>>
  BY DEF RecordInto
<1> QED BY <1>1, <1>2, FilledKeeps

LEMMA ForgetStep ==
  ASSUME ReflectedInv, NEW p \in Owners, Forget(p)
  PROVE  ReflectedInv'
<1>1. /\ taken' = taken /\ taken \in Nat /\ notes \in Seq(Containers)
      /\ consent' = [consent EXCEPT ![p] = "out"]
      /\ notes' = Forgotten(p)
      /\ containers' = [containers EXCEPT ![ReflectedId[p]] = 0]
      /\ forgotten' = [forgotten EXCEPT ![p] = taken]
  BY ReflectedFacts DEF Forget
<1>2. /\ consent' \in [Owners -> {"none", "in", "out"}]
      /\ \A q \in Owners : consent'[q] = "none" => consent[q] = "none"
      /\ forgotten' \in [Owners -> Nat] /\ \A q \in Owners : forgotten'[q] <= taken'
      /\ \A q \in Owners : q # p => forgotten'[q] = forgotten[q]
      /\ containers' \in [ReflectedIds -> Nat]
  BY <1>1, ReflectedFacts, ReflectedIdIs
<1>3. \A q \in Owners : ObjectOf(q)' = IF ReflectedId[q] = ReflectedId[p] THEN 0 ELSE ObjectOf(q)
  BY <1>1, ReflectedFacts, ReflectedIdIs DEF ObjectOf
<1>4. /\ DOMAIN notes' = DOMAIN notes
      /\ \A o \in DOMAIN notes : notes'[o] = IF o = ObjectOf(p) THEN <<>> ELSE notes[o]
  BY <1>1 DEF Forgotten
<1>5. notes' \in Seq(Containers)
  <2>1. <<>> \in Containers
    BY DEF Containers
  <2>2. \A o \in DOMAIN notes : notes'[o] \in Containers
    BY <2>1, <1>4, ReflectedFacts
  <2>3. notes' = [o \in 1..Len(notes) |-> notes'[o]] /\ Len(notes) \in Nat /\ DOMAIN notes = 1..Len(notes)
    BY <1>1, <1>4 DEF Forgotten
  <2> QED BY <2>2, <2>3
<1>6. ASSUME NEW o \in DOMAIN notes', NEW n \in DOMAIN notes'[o]
      PROVE  /\ o \in DOMAIN notes /\ n \in DOMAIN notes[o] /\ notes'[o][n] = notes[o][n]
             /\ \A who \in Owners : ObjectOf(who) = o =>
                  /\ ObjectOf(who)' = o
                  /\ \A q \in Owners : ReflectedId[q] = ReflectedId[who] => forgotten'[q] = forgotten[q]
  <2>1. o # ObjectOf(p) /\ notes'[o] = notes[o] /\ o \in DOMAIN notes
    BY <1>4, <1>6
  <2>2. ASSUME NEW who \in Owners, ObjectOf(who) = o
        PROVE  /\ ObjectOf(who)' = o
               /\ \A q \in Owners : ReflectedId[q] = ReflectedId[who] => forgotten'[q] = forgotten[q]
    <3>1. ReflectedId[who] # ReflectedId[p]
      BY <2>1, <2>2 DEF ObjectOf
    <3> QED BY <3>1, <2>2, <1>2, <1>3
  <2> QED BY <2>1, <2>2, <1>6
<1>7. \A q \in Owners : ObjectOf(q)' # 0 => ObjectOf(q)' \in DOMAIN notes'
  BY <1>3, <1>4, ReflectedFacts
<1>8. taken' \in Nat /\ taken' >= taken
  BY <1>1
<1> QED BY <1>2, <1>5, <1>6, <1>7, <1>8, NotesKeep

LEMMA ReflectedInitial == HopeInit => ReflectedInv
<1> SUFFICES ASSUME HopeInit  PROVE ReflectedInv
  OBVIOUS
<1>1. notes = <<>> /\ DOMAIN notes = {} /\ \A p \in Owners : ObjectOf(p) = 0
  BY ReflectedIdIs DEF HopeInit, ObjectOf
<1> QED BY <1>1 DEF HopeInit, ReflectedInv, ForgottenForGood

LEMMA ReflectedStep == ReflectedInv /\ [HopeNext]_hopeVars => ReflectedInv'
<1> SUFFICES ASSUME ReflectedInv, [HopeNext]_hopeVars  PROVE ReflectedInv'
  OBVIOUS
<1>1. CASE ReflectedNext
  BY <1>1, ChooseStep, CollectStep, FetchStep, ForgetStep, RecordStep DEF ReflectedNext
<1>2. CASE UNCHANGED reflectedVars
  BY <1>2 DEF reflectedVars, ReflectedInv, ForgottenForGood, ObjectOf
<1>3. ArchiveNext => UNCHANGED reflectedVars
  BY DEF ArchiveNext, Remember, Millisecond
<1>4. ExceptionNext => UNCHANGED reflectedVars
  BY DEF ExceptionNext, Enable, Disable, ApplyManipulation
<1> QED BY <1>1, <1>2, <1>3, <1>4 DEF HopeNext, hopeVars

\* What is enabled is what the log last enabled, with nothing but uses after it.
ExceptionInv ==
  /\ log \in Seq([event : {"ENABLE", "DISABLE", "MANIPULATE"}, purpose : Purposes])
  /\ exception \in [enabled : BOOLEAN, purpose : Purposes \cup {"none"}]
  /\ exception.enabled => \E j \in DOMAIN log :
       /\ log[j].event = "ENABLE" /\ log[j].purpose = exception.purpose
       /\ \A k \in DOMAIN log : j < k => log[k].event = "MANIPULATE"
  /\ ManipulationIsAccounted

LEMMA LoggedKeeps ==
  ASSUME ExceptionInv, NEW event \in {"ENABLE", "DISABLE", "MANIPULATE"}, NEW purpose \in Purposes,
         Logged(event, purpose),
         exception' \in [enabled : BOOLEAN, purpose : Purposes \cup {"none"}],
         event = "ENABLE" => exception'.purpose = purpose,
         event = "DISABLE" => ~exception'.enabled,
         event = "MANIPULATE" =>
           exception' = exception /\ exception.enabled /\ exception.purpose = purpose
  PROVE  ExceptionInv'
<1> DEFINE Entries == [event : {"ENABLE", "DISABLE", "MANIPULATE"}, purpose : Purposes]
           new == [event |-> event, purpose |-> purpose]
<1>0. PICK n : n = Len(log) + 1
  OBVIOUS
<1>1. log \in Seq(Entries) /\ new \in Entries /\ log' = Append(log, new)
      /\ new.event = event /\ new.purpose = purpose
  BY DEF ExceptionInv, Logged
<1> HIDE DEF Entries, new
<1>2. /\ log' \in Seq(Entries) /\ DOMAIN log' = 1..n /\ DOMAIN log = 1..(n - 1)
      /\ n \in Nat \ {0} /\ log'[n] = new /\ \A i \in 1..(n - 1) : log'[i] = log[i]
  <2>1. Len(log) \in Nat /\ DOMAIN log = 1..Len(log)
    BY <1>1
  <2> QED BY <2>1, <1>0, <1>1, AppendProperties
<1>3. exception.enabled => \E j \in 1..(n - 1) :
        /\ log[j].event = "ENABLE" /\ log[j].purpose = exception.purpose
        /\ \A k \in 1..(n - 1) : j < k => log[k].event = "MANIPULATE"
  BY <1>2 DEF ExceptionInv
<1>4. exception'.enabled => \E j \in 1..n :
        /\ log'[j].event = "ENABLE" /\ log'[j].purpose = exception'.purpose
        /\ \A k \in 1..n : j < k => log'[k].event = "MANIPULATE"
  <2>1. CASE event = "ENABLE"
    BY <2>1, <1>1, <1>2
  <2>2. CASE event = "DISABLE"
    BY <2>2
  <2>3. CASE event = "MANIPULATE"
    <3>1. PICK j \in 1..(n - 1) :
            /\ log[j].event = "ENABLE" /\ log[j].purpose = exception.purpose
            /\ \A k \in 1..(n - 1) : j < k => log[k].event = "MANIPULATE"
      BY <2>3, <1>3
    <3>2. ASSUME NEW k \in 1..n, j < k  PROVE log'[k].event = "MANIPULATE"
      <4>1. CASE k = n
        BY <4>1, <2>3, <1>1, <1>2
      <4>2. CASE k # n
        BY <4>2, <3>1, <3>2, <1>2
      <4> QED BY <4>1, <4>2
    <3>3. j \in 1..n /\ log'[j] = log[j]
      BY <1>2
    <3> QED BY <3>1, <3>2, <3>3, <2>3
  <2> QED BY <2>1, <2>2, <2>3
<1>5. ASSUME NEW i \in 1..n, log'[i].event = "MANIPULATE"
      PROVE  \E j \in 1..(i - 1) :
               /\ log'[j].event = "ENABLE" /\ log'[j].purpose = log'[i].purpose
               /\ \A k \in (j + 1)..(i - 1) : log'[k].event = "MANIPULATE"
  <2>1. CASE i = n
    <3>1. event = "MANIPULATE" /\ log'[i].purpose = exception.purpose
      BY <2>1, <1>1, <1>2, <1>5
    <3>2. PICK j \in 1..(n - 1) :
            /\ log[j].event = "ENABLE" /\ log[j].purpose = exception.purpose
            /\ \A k \in 1..(n - 1) : j < k => log[k].event = "MANIPULATE"
      BY <3>1, <1>3
    <3>3. ASSUME NEW k \in (j + 1)..(i - 1)  PROVE log'[k].event = "MANIPULATE"
      <4>1. k \in 1..(n - 1) /\ j < k
        BY <2>1, <1>2
      <4> QED BY <4>1, <3>2, <1>2
    <3>4. j \in 1..(i - 1) /\ log'[j] = log[j]
      BY <2>1, <1>2
    <3> QED BY <3>1, <3>2, <3>3, <3>4
  <2>2. CASE i # n
    <3>1. i \in 1..(n - 1) /\ log'[i] = log[i]
      BY <2>2, <1>2
    <3>2. PICK j \in 1..(i - 1) :
            /\ log[j].event = "ENABLE" /\ log[j].purpose = log[i].purpose
            /\ \A k \in (j + 1)..(i - 1) : log[k].event = "MANIPULATE"
      BY <3>1, <1>2, <1>5 DEF ExceptionInv, ManipulationIsAccounted
    <3>3. ASSUME NEW k \in j..(i - 1)  PROVE k \in 1..(n - 1) /\ log'[k] = log[k]
      <4>1. k \in 1..(n - 1)
        BY <3>1, <1>2
      <4> QED BY <4>1, <1>2
    <3>4. j \in j..(i - 1) /\ \A k \in (j + 1)..(i - 1) : k \in j..(i - 1)
      BY <3>1, <1>2
    <3> QED BY <3>1, <3>2, <3>3, <3>4
  <2> QED BY <2>1, <2>2
<1>6. ManipulationIsAccounted'
  BY <1>2, <1>5 DEF ManipulationIsAccounted
<1> QED BY <1>2, <1>4, <1>6 DEF ExceptionInv, Entries

LEMMA ExceptionStep == ExceptionInv /\ [HopeNext]_hopeVars => ExceptionInv'
<1> SUFFICES ASSUME ExceptionInv, [HopeNext]_hopeVars  PROVE ExceptionInv'
  OBVIOUS
<1>1. exception \in [enabled : BOOLEAN, purpose : Purposes \cup {"none"}]
  BY DEF ExceptionInv
<1>2. ASSUME NEW purpose \in Purposes, Enable(purpose)  PROVE ExceptionInv'
  BY <1>2, LoggedKeeps DEF Enable
<1>3. CASE Disable
  <2>1. (IF exception.purpose = "none" THEN "AUDIT" ELSE exception.purpose) \in Purposes
    BY <1>1 DEF Purposes
  <2>2. exception' = [enabled |-> FALSE, purpose |-> "none"]
    BY <1>3 DEF Disable
  <2> QED BY <1>3, <2>1, <2>2, LoggedKeeps DEF Disable
<1>4. CASE ApplyManipulation
  <2>1. exception.purpose \in Purposes /\ exception.enabled /\ exception' = exception
        /\ Logged("MANIPULATE", exception.purpose)
    BY <1>1, <1>4 DEF ApplyManipulation
  <2> QED BY <1>1, <2>1, LoggedKeeps
<1>5. CASE UNCHANGED <<exception, log>>
  BY <1>5 DEF ExceptionInv, ManipulationIsAccounted
<1>6. ArchiveNext => UNCHANGED <<exception, log>>
  BY DEF ArchiveNext, Remember, Millisecond
<1>7. ReflectedNext => UNCHANGED <<exception, log>>
  BY DEF ReflectedNext, Choose, Collect, Fetch, Forget, RecordInto
<1> QED BY <1>2, <1>3, <1>4, <1>5, <1>6, <1>7 DEF HopeNext, ExceptionNext, hopeVars

LEMMA ExceptionInitial == HopeInit => ExceptionInv
<1> SUFFICES ASSUME HopeInit  PROVE ExceptionInv
  OBVIOUS
<1>1. log = <<>> /\ DOMAIN log = {}
  BY DEF HopeInit
<1> QED BY <1>1 DEF HopeInit, ExceptionInv, ManipulationIsAccounted

HopeSpec == HopeInit /\ [][HopeNext]_hopeVars

\* A tenant recalls its own intents only, the nearest first, and none that was
\* remembered is lost but to another memory's id; what was collected by consent is
\* in its owner's container and from after the last forget; and the log accounts for
\* every manipulation (hope/memory.ts, hope/reflected/).
THEOREM HopeKeeps == HopeSpec => []HopeKeepsApart
<1>1. HopeSpec => []ArchiveInv
  BY ArchiveInitial, ArchiveStep, PTL DEF HopeSpec
<1>2. HopeSpec => []ReflectedInv
  BY ReflectedInitial, ReflectedStep, PTL DEF HopeSpec
<1>3. HopeSpec => []ExceptionInv
  BY ExceptionInitial, ExceptionStep, PTL DEF HopeSpec
<1>4. ArchiveInv /\ ReflectedInv /\ ExceptionInv => HopeKeepsApart
  BY RecallSuffices DEF ReflectedInv, ExceptionInv, HopeKeepsApart
<1> QED BY <1>1, <1>2, <1>3, <1>4, PTL

\* And a recall always has an answer to give: there is a ranking of what it
\* considers, whatever is stored (InMemoryVectorStore.query).
THEOREM RecallAnswers ==
  HopeSpec => [](\A sought \in Texts, tenant \in HopeTenants \cup {NoTenant}, k \in HowMany :
                   Recall(sought, tenant, k) # {})
<1>1. HopeSpec => []ArchiveInv
  BY ArchiveInitial, ArchiveStep, PTL DEF HopeSpec
<1>2. ASSUME ArchiveInv, NEW sought \in Texts, NEW tenant, NEW k
      PROVE  Recall(sought, tenant, k) # {}
  <2>1. Considered(tenant) \subseteq DOMAIN store /\ IsFiniteSet(DOMAIN store)
    BY <1>2 DEF Considered, ArchiveInv
  <2>2. Rankings(sought, Considered(tenant)) # {}
    BY <1>2, <2>1, FS_Subset, NearIsNumber, RankingExists
  <2> QED BY <2>2 DEF Recall
<1>3. ArchiveInv => \A sought \in Texts, tenant \in HopeTenants \cup {NoTenant}, k \in HowMany :
                      Recall(sought, tenant, k) # {}
  BY <1>2
<1> QED BY <1>1, <1>3, PTL

-----------------------------------------------------------------------------
(* ProviderCall: the frames of a stream, however it is cut. *)

\* The parser has read the body, and what is after its last newline waits.
Reads(p, body) ==
  /\ p \in [buffer : Seq(Pieces), yielded : Seq(Pieces), stopped : BOOLEAN] /\ body \in Seq(Pieces)
  /\ p.stopped <=> \E j \in 1..Len(body) : LineAt(body, j, <<"DONE">>)
Holds(p, body) ==
  ~p.stopped =>
    /\ Len(p.buffer) <= Len(body)
    /\ \A i \in 1..Len(p.buffer) : p.buffer[i] = body[Len(body) - Len(p.buffer) + i] /\ p.buffer[i] # "newline"
    /\ Len(body) = Len(p.buffer) \/ body[Len(body) - Len(p.buffer)] = "newline"
Yields(yielded, body) ==
  /\ Len(yielded) = Cardinality(Deltas(body))
  /\ \A i \in Deltas(body) : yielded[Cardinality({j \in Deltas(body) : j <= i})] = body[i - 1]

LEMMA LineKept ==
  ASSUME NEW body \in Seq(Pieces), NEW x \in Pieces, NEW i \in 1..Len(body), NEW line \in Seq(Pieces)
  PROVE  LineAt(Append(body, x), i, line) <=> LineAt(body, i, line)
<1>0. PICK n \in Nat, m \in Nat : n = Len(body) /\ m = Len(line)
  <2>1. Len(body) \in Nat /\ Len(line) \in Nat
    BY LenProperties
  <2> QED BY <2>1
<1>1. PICK more : n = Len(body) /\ m = Len(line) /\ more = Append(body, x)
  BY <1>0
<1>2. \A k \in 1..n : more[k] = body[k]
  BY <1>1, AppendProperties
<1>3. PICK start \in Int : start = i - m - 1
  <2>1. i \in 1..n
    BY <1>1
  <2>2. i - m - 1 \in Int
    BY <2>1
  <2> QED BY <2>2
<1>4. ASSUME start >= 0 PROVE (\A k \in 1..m : start + k \in 1..n) /\ (start = 0 \/ start \in 1..n)
  <2>1. i \in 1..n
    BY <1>1
  <2> QED BY <1>3, <1>4, <2>1
<1>5. more[i] = body[i]
  BY <1>1, <1>2
<1>6. start >= 0 => /\ \A k \in 1..m : more[start + k] = body[start + k]
                    /\ start = 0 \/ more[start] = body[start]
  BY <1>2, <1>4
<1> QED BY <1>1, <1>3, <1>5, <1>6 DEF LineAt

LEMMA LineIsHeld ==
  ASSUME NEW p, NEW body, Reads(p, body), Holds(p, body), ~p.stopped, NEW line \in Seq(Pieces \ {"newline"}),
         NEW x \in Pieces
  PROVE  LineAt(Append(body, x), Len(body) + 1, line) <=> x = "newline" /\ p.buffer = line
<1>1. body \in Seq(Pieces) /\ p.buffer \in Seq(Pieces)
  BY DEF Reads
<1>0. PICK n \in Nat, m \in Nat, b \in Nat : n = Len(body) /\ m = Len(line) /\ b = Len(p.buffer)
  <2>1. Len(body) \in Nat /\ Len(line) \in Nat /\ Len(p.buffer) \in Nat
    BY <1>1, LenProperties
  <2> QED BY <2>1
<1>2. PICK more : n = Len(body) /\ m = Len(line) /\ more = Append(body, x) /\ b = Len(p.buffer)
  BY <1>0
<1>3. more[n + 1] = x /\ \A k \in 1..n : more[k] = body[k]
  BY <1>1, <1>2, AppendProperties
<1>4. /\ b <= n /\ (\A i \in 1..b : p.buffer[i] = body[n - b + i] /\ p.buffer[i] # "newline")
      /\ n = b \/ body[n - b] = "newline"
  BY <1>2 DEF Holds
<1>5. \A k \in 1..m : line[k] # "newline"
  BY <1>2, LenProperties
<1>6. n + 1 - m - 1 = n - m
  OBVIOUS
<1>7. LineAt(more, n + 1, line) <=>
        /\ n - m >= 0 /\ x = "newline" /\ \A k \in 1..m : more[n - m + k] = line[k]
        /\ n - m = 0 \/ more[n - m] = "newline"
  BY <1>2, <1>3, <1>6, SMTT(30) DEF LineAt
<1>8. ASSUME LineAt(more, n + 1, line) PROVE p.buffer = line
  <2>1. m <= n /\ (\A k \in 1..m : more[n - m + k] = line[k]) /\ (n = m \/ more[n - m] = "newline")
    BY <1>7, <1>8
  <2>2. (\A k \in 1..m : body[n - m + k] = line[k]) /\ (n = m \/ body[n - m] = "newline")
    <3>1. (\A k \in 1..m : n - m + k \in 1..n) /\ (n # m => n - m \in 1..n)
      BY <2>1
    <3> QED BY <1>3, <2>1, <3>1
  <2>3. ~(b < m)
    <3> SUFFICES ASSUME b < m PROVE FALSE
      OBVIOUS
    <3>1. n # b /\ m - b \in 1..m /\ n - m + (m - b) = n - b
      BY <2>1
    <3> QED BY <1>4, <1>5, <2>2, <3>1
  <2>4. ~(m < b)
    <3> SUFFICES ASSUME m < b PROVE FALSE
      OBVIOUS
    <3>1. n # m /\ b - m \in 1..b /\ n - b + (b - m) = n - m
      BY <1>4
    <3> QED BY <1>4, <2>2, <3>1
  <2>5. m = b
    BY <2>3, <2>4
  <2>6. \A k \in 1..m : p.buffer[k] = line[k]
    BY <1>4, <2>2, <2>5
  <2>7. line \in Seq(Pieces)
    BY SeqMonotonic
  <2> QED BY <1>1, <1>2, <2>5, <2>6, <2>7, SeqEqual
<1>9. ASSUME x = "newline", p.buffer = line PROVE LineAt(more, n + 1, line)
  <2>1. m = b
    BY <1>2, <1>9
  <2>2. (\A k \in 1..m : n - m + k \in 1..n) /\ (n # m => n - m \in 1..n) /\ n - m >= 0
    BY <1>4, <2>1
  <2> QED BY <1>3, <1>4, <1>7, <1>9, <2>1, <2>2
<1> QED BY <1>2, <1>7, <1>8, <1>9

Done == <<"DONE">>
Gains(p, x) == ~p.stopped /\ x = "newline" /\ p.buffer \in Frames

LEMMA FramesAre ==
  /\ Done \in Seq(Pieces \ {"newline"}) /\ Done \in Seq(Pieces) /\ Done \notin Frames
  /\ \A f \in Frames : f \in Seq(Pieces \ {"newline"}) /\ f \in Seq(Pieces) /\ Len(f) = 2 /\ f[1] = f[2] /\ f[1] \in Pieces
<1>1. \A f \in Frames : f = <<"one", "one">> \/ f = <<"two", "two">>
  BY DEF Frames
<1>2. <<"one", "one">> \in Seq(Pieces \ {"newline"}) /\ <<"two", "two">> \in Seq(Pieces \ {"newline"})
      /\ <<"DONE">> \in Seq(Pieces \ {"newline"})
  BY DEF Pieces
<1>3. <<"one", "one">> \in Seq(Pieces) /\ <<"two", "two">> \in Seq(Pieces) /\ <<"DONE">> \in Seq(Pieces)
      /\ "one" \in Pieces /\ "two" \in Pieces
  BY DEF Pieces
<1>4. Len(<<"one", "one">>) = 2 /\ Len(<<"two", "two">>) = 2 /\ Len(<<"DONE">>) = 1
  OBVIOUS
<1>5. Done \notin Frames
  BY <1>1, <1>4 DEF Done
<1>6. \A f \in Frames : f[1] = f[2] /\ f[1] \in Pieces
  BY <1>1, <1>3
<1>7. \A f \in Frames : f \in Seq(Pieces \ {"newline"}) /\ f \in Seq(Pieces) /\ Len(f) = 2
  BY <1>1, <1>2, <1>3, <1>4
<1> QED BY <1>2, <1>3, <1>5, <1>6, <1>7 DEF Done

LEMMA DeltasGrow ==
  ASSUME NEW p, NEW body, Reads(p, body), Holds(p, body), NEW x \in Pieces
  PROVE  /\ Deltas(Append(body, x)) = Deltas(body) \cup (IF Gains(p, x) THEN {Len(body) + 1} ELSE {})
         /\ Parsed(p, x).stopped <=> \E j \in 1..(Len(body) + 1) : LineAt(Append(body, x), j, Done)
<1>0. PICK n \in Nat : n = Len(body)
  BY LenProperties DEF Reads
<1>1. PICK more : n = Len(body) /\ more = Append(body, x)
  BY <1>0
<1>2. body \in Seq(Pieces) /\ (p.stopped <=> \E j \in 1..n : LineAt(body, j, Done))
  BY <1>1 DEF Reads, Done
<1>3. DOMAIN body = 1..n /\ DOMAIN more = 1..(n + 1)
  <2>1. more \in Seq(Pieces) /\ Len(more) = n + 1
    BY <1>1, <1>2, AppendProperties
  <2> QED BY <1>1, <1>2, <2>1, LenProperties
<1>4. \A i \in 1..n : \A line \in Seq(Pieces) : LineAt(more, i, line) <=> LineAt(body, i, line)
  BY <1>1, <1>2, LineKept
<1>5. ASSUME ~p.stopped, NEW line \in Seq(Pieces \ {"newline"})
      PROVE  LineAt(more, n + 1, line) <=> x = "newline" /\ p.buffer = line
  BY <1>1, <1>5, LineIsHeld
<1>6. ASSUME NEW i \in 1..n
      PROVE  i \in Deltas(more) <=> i \in Deltas(body)
  <2>1. \A f \in Frames : LineAt(more, i, f) <=> LineAt(body, i, f)
    BY <1>4, FramesAre
  <2>2. \A j \in 1..i : LineAt(more, j, Done) <=> LineAt(body, j, Done)
    <3>1. \A j \in 1..i : j \in 1..n
      OBVIOUS
    <3> QED BY <1>4, <3>1, FramesAre
  <2>3. i \in DOMAIN body /\ i \in DOMAIN more
    BY <1>3
  <2> QED BY <2>1, <2>2, <2>3 DEF Deltas, Done
<1>7. \A j \in 1..n : LineAt(more, j, Done) <=> LineAt(body, j, Done)
  BY <1>4, FramesAre
<1>8. n + 1 \in Deltas(more) <=> Gains(p, x)
  <2>1. CASE p.stopped
    <3>1. \E j \in 1..(n + 1) : LineAt(more, j, Done)
      <4>1. PICK j \in 1..n : LineAt(body, j, Done)
        BY <1>2, <2>1
      <4>2. j \in 1..(n + 1)
        OBVIOUS
      <4> QED BY <1>7, <4>1, <4>2
    <3> QED BY <2>1, <3>1 DEF Deltas, Gains, Done
  <2>2. CASE ~p.stopped
    <3>1. \A f \in Frames : LineAt(more, n + 1, f) <=> x = "newline" /\ p.buffer = f
      BY <1>5, <2>2, FramesAre
    <3>2. LineAt(more, n + 1, Done) <=> x = "newline" /\ p.buffer = Done
      BY <1>5, <2>2, FramesAre
    <3>3. \A j \in 1..n : ~LineAt(more, j, Done)
      BY <1>2, <1>7, <2>2
    <3>4. \A j \in 1..(n + 1) : j \in 1..n \/ j = n + 1
      OBVIOUS
    <3>5. p.buffer \in Frames => p.buffer # Done
      BY FramesAre
    <3>6. Gains(p, x) => ~\E j \in 1..(n + 1) : LineAt(more, j, Done)
      BY <3>2, <3>3, <3>4, <3>5 DEF Gains
    <3>7. (\E f \in Frames : LineAt(more, n + 1, f)) <=> Gains(p, x)
      BY <2>2, <3>1 DEF Gains
    <3>8. n + 1 \in DOMAIN more
      BY <1>3
    <3> QED BY <3>6, <3>7, <3>8 DEF Deltas, Done
  <2> QED BY <2>1, <2>2
<1>9. Deltas(more) = Deltas(body) \cup (IF Gains(p, x) THEN {n + 1} ELSE {})
  <2>1. Deltas(more) \subseteq 1..(n + 1) /\ Deltas(body) \subseteq 1..n
    BY <1>3 DEF Deltas
  <2>2. \A i \in 1..(n + 1) : i \in 1..n \/ i = n + 1
    OBVIOUS
  <2>3. n + 1 \notin 1..n
    OBVIOUS
  <2> QED BY <1>6, <1>8, <2>1, <2>2, <2>3
<1>10. Parsed(p, x).stopped <=> \E j \in 1..(n + 1) : LineAt(more, j, Done)
  <2>1. \A j \in 1..(n + 1) : j \in 1..n \/ j = n + 1
    OBVIOUS
  <2>2. \A j \in 1..n : j \in 1..(n + 1)
    OBVIOUS
  <2>3. CASE p.stopped
    <3>1. Parsed(p, x).stopped
      BY <2>3 DEF Parsed
    <3> QED BY <1>2, <1>7, <2>2, <2>3, <3>1
  <2>4. CASE ~p.stopped
    <3>1. LineAt(more, n + 1, Done) <=> x = "newline" /\ p.buffer = Done
      BY <1>5, <2>4, FramesAre
    <3>2. Parsed(p, x).stopped <=> x = "newline" /\ p.buffer = Done
      <4>1. CASE x = "newline"
        BY <2>4, <4>1 DEF Parsed, Done
      <4>2. CASE x # "newline"
        <5>1. p \in [buffer : Seq(Pieces), yielded : Seq(Pieces), stopped : BOOLEAN]
          BY DEF Reads
        <5> QED BY <2>4, <4>2, <5>1 DEF Parsed
      <4> QED BY <4>1, <4>2
    <3>3. \A j \in 1..n : ~LineAt(more, j, Done)
      BY <1>2, <1>7, <2>4
    <3>4. n + 1 \in 1..(n + 1)
      OBVIOUS
    <3> QED BY <2>1, <3>1, <3>2, <3>3, <3>4
  <2> QED BY <2>3, <2>4
<1> QED BY <1>1, <1>9, <1>10

LEMMA YieldsGrow ==
  ASSUME NEW p, NEW body, Reads(p, body), Holds(p, body), Yields(p.yielded, body), NEW x \in Pieces
  PROVE  Yields(Parsed(p, x).yielded, Append(body, x))
<1>0. PICK n \in Nat : n = Len(body)
  BY LenProperties DEF Reads
<1>1. PICK more, old, new : n = Len(body) /\ more = Append(body, x) /\ old = Deltas(body) /\ new = Deltas(more)
  BY <1>0
<1>2. body \in Seq(Pieces) /\ p.yielded \in Seq(Pieces)
  BY DEF Reads
<1>3. \A i \in 1..n : more[i] = body[i]
  BY <1>1, <1>2, AppendProperties
<1>4. new = old \cup (IF Gains(p, x) THEN {n + 1} ELSE {})
  BY <1>1, DeltasGrow
<1>5. \A i \in old : i \in 1..n /\ i - 1 \in 1..n
  <2> SUFFICES ASSUME NEW i \in old PROVE i \in 1..n /\ i - 1 \in 1..n
    OBVIOUS
  <2>1. i \in 1..n
    BY <1>1, <1>2, LenProperties DEF Deltas
  <2>2. PICK f \in Frames : LineAt(body, i, f)
    BY <1>1 DEF Deltas
  <2>3. Len(f) = 2
    BY FramesAre
  <2>4. i - 2 - 1 >= 0
    BY <2>2, <2>3 DEF LineAt
  <2> QED BY <2>1, <2>4
<1>6. IsFiniteSet(old) /\ Cardinality(old) \in Nat
  <2>1. old \in SUBSET (1..n) /\ IsFiniteSet(1..n)
    BY <1>5, FS_Interval
  <2> QED BY <2>1, FS_Subset, FS_CardinalityType
<1>7. Len(p.yielded) = Cardinality(old) /\ \A i \in old : p.yielded[Cardinality({j \in old : j <= i})] = body[i - 1]
  BY <1>1 DEF Yields
<1>8. CASE ~Gains(p, x)
  <2>1. new = old
    BY <1>4, <1>8
  <2>2. Parsed(p, x).yielded = p.yielded
    <3>1. p \in [buffer : Seq(Pieces), yielded : Seq(Pieces), stopped : BOOLEAN]
      BY DEF Reads
    <3> QED BY <1>8, <3>1 DEF Parsed, Gains
  <2>3. \A i \in new : p.yielded[Cardinality({j \in new : j <= i})] = more[i - 1]
    BY <1>3, <1>5, <1>7, <2>1
  <2> QED BY <1>1, <1>7, <2>1, <2>2, <2>3 DEF Yields
<1>9. CASE Gains(p, x)
  <2>1. new = old \cup {n + 1} /\ n + 1 \notin old
    BY <1>4, <1>5, <1>9
  <2>2. PICK c \in Nat : c = Cardinality(old) /\ c + 1 = Cardinality(new)
    BY <1>6, <2>1, FS_AddElement
  <2>3. PICK more2 : more2 = Parsed(p, x).yielded
    OBVIOUS
  <2>4. more2 = Append(p.yielded, p.buffer[1]) /\ p.buffer[1] = p.buffer[2] /\ Len(p.buffer) = 2 /\ p.buffer[1] \in Pieces
    BY <1>9, <2>3, FramesAre DEF Gains, Parsed
  <2>5. Len(more2) = c + 1 /\ more2[c + 1] = p.buffer[1] /\ \A k \in 1..c : more2[k] = p.yielded[k]
    BY <1>2, <1>7, <2>2, <2>4, AppendProperties
  <2>6. p.buffer[2] = body[n] /\ n \in 1..n
    <3>1. Len(p.buffer) <= n /\ \A i \in 1..Len(p.buffer) : p.buffer[i] = body[n - Len(p.buffer) + i]
      BY <1>1, <1>9 DEF Holds, Gains
    <3>2. 2 <= n /\ p.buffer[2] = body[n - 2 + 2] /\ n - 2 + 2 = n
      BY <2>4, <3>1
    <3> QED BY <3>2
  <2>7. ASSUME NEW i \in new PROVE more2[Cardinality({j \in new : j <= i})] = more[i - 1]
    <3>1. CASE i = n + 1
      <4>1. {j \in new : j <= i} = new
        <5>1. \A j \in new : j <= n + 1
          BY <1>5, <2>1
        <5> QED BY <3>1, <5>1
      <4>2. i - 1 = n
        BY <3>1
      <4> QED BY <1>3, <2>2, <2>4, <2>5, <2>6, <4>1, <4>2
    <3>2. CASE i # n + 1
      <4>1. i \in old /\ i \in 1..n /\ i - 1 \in 1..n
        BY <1>5, <2>1, <3>2
      <4>2. {j \in new : j <= i} = {j \in old : j <= i}
        BY <2>1, <4>1
      <4>3. Cardinality({j \in old : j <= i}) \in 1..c
        <5>1. {j \in old : j <= i} \in SUBSET old /\ i \in {j \in old : j <= i}
          BY <1>5, <4>1
        <5>2. IsFiniteSet({j \in old : j <= i}) /\ Cardinality({j \in old : j <= i}) <= c
          BY <1>6, <2>2, <5>1, FS_Subset
        <5>3. Cardinality({j \in old : j <= i}) \in Nat /\ Cardinality({j \in old : j <= i}) # 0
          BY <5>1, <5>2, FS_CardinalityType, FS_EmptySet
        <5> QED BY <5>2, <5>3
      <4> QED BY <1>3, <1>7, <2>5, <4>1, <4>2, <4>3
    <3> QED BY <3>1, <3>2
  <2> QED BY <1>1, <2>2, <2>3, <2>5, <2>7 DEF Yields
<1> QED BY <1>8, <1>9

LEMMA ReadsOne ==
  ASSUME NEW p, NEW body, Reads(p, body), Holds(p, body), Yields(p.yielded, body), NEW x \in Pieces
  PROVE  /\ Reads(Parsed(p, x), Append(body, x)) /\ Holds(Parsed(p, x), Append(body, x))
         /\ Yields(Parsed(p, x).yielded, Append(body, x))
<1>0. PICK n \in Nat : n = Len(body)
  BY LenProperties DEF Reads
<1>1. PICK more, q : n = Len(body) /\ more = Append(body, x) /\ q = Parsed(p, x)
  BY <1>0
<1>2. body \in Seq(Pieces) /\ p \in [buffer : Seq(Pieces), yielded : Seq(Pieces), stopped : BOOLEAN]
  BY DEF Reads
<1>3. more \in Seq(Pieces) /\ Len(more) = n + 1 /\ more[n + 1] = x /\ \A i \in 1..n : more[i] = body[i]
  BY <1>1, <1>2, AppendProperties
<1>4. q \in [buffer : Seq(Pieces), yielded : Seq(Pieces), stopped : BOOLEAN]
  <2>1. CASE p.stopped
    BY <1>1, <1>2, <2>1 DEF Parsed
  <2>2. CASE ~p.stopped /\ x # "newline"
    <3>1. Append(p.buffer, x) \in Seq(Pieces)
      BY <1>2, AppendProperties
    <3> QED BY <1>1, <1>2, <2>2, <3>1 DEF Parsed
  <2>3. CASE ~p.stopped /\ x = "newline"
    <3>1. p.buffer \in Frames => Append(p.yielded, p.buffer[1]) \in Seq(Pieces)
      BY <1>2, FramesAre, AppendProperties
    <3>2. <<>> \in Seq(Pieces)
      OBVIOUS
    <3> QED BY <1>1, <1>2, <2>3, <3>1, <3>2 DEF Parsed
  <2> QED BY <2>1, <2>2, <2>3
<1>5. q.stopped <=> \E j \in 1..Len(more) : LineAt(more, j, <<"DONE">>)
  <2>1. Parsed(p, x).stopped <=> \E j \in 1..(Len(body) + 1) : LineAt(Append(body, x), j, Done)
    BY DeltasGrow
  <2> QED BY <1>1, <1>3, <2>1 DEF Done
<1>6. Holds(q, more)
  <2> SUFFICES ASSUME ~q.stopped PROVE Holds(q, more)
    BY DEF Holds
  <2>1. ~p.stopped
    BY <1>1 DEF Parsed
  <2>2. PICK b \in Nat : b = Len(p.buffer)
    BY <1>2, LenProperties
  <2>3. /\ b <= n /\ (\A i \in 1..b : p.buffer[i] = body[n - b + i] /\ p.buffer[i] # "newline")
        /\ n = b \/ body[n - b] = "newline"
    BY <1>1, <2>1, <2>2 DEF Holds
  <2>4. CASE x = "newline"
    <3>1. q.buffer = <<>> /\ Len(q.buffer) = 0
      BY <1>1, <2>1, <2>4 DEF Parsed
    <3> QED BY <1>3, <2>4, <3>1 DEF Holds
  <2>5. CASE x # "newline"
    <3>1. q.buffer = Append(p.buffer, x)
      BY <1>1, <1>2, <2>1, <2>5 DEF Parsed
    <3>2. PICK held : held = q.buffer /\ Len(held) = b + 1 /\ held[b + 1] = x /\ \A i \in 1..b : held[i] = p.buffer[i]
      <4>1. p.buffer \in Seq(Pieces)
        BY <1>2
      <4> QED BY <2>2, <3>1, <4>1, AppendProperties, SMTT(30)
    <3>3. b + 1 <= n + 1 /\ (n + 1) - (b + 1) = n - b
      BY <2>3
    <3>4. ASSUME NEW i \in 1..(b + 1) PROVE held[i] = more[n - b + i] /\ held[i] # "newline"
      <4>1. CASE i = b + 1
        <5>1. n - b + i = n + 1
          BY <4>1
        <5> QED BY <1>3, <2>5, <3>2, <4>1, <5>1
      <4>2. CASE i # b + 1
        <5>1. i \in 1..b /\ n - b + i \in 1..n
          BY <2>3, <4>2
        <5> QED BY <1>3, <2>3, <3>2, <5>1
      <4> QED BY <4>1, <4>2
    <3>5. n + 1 = b + 1 \/ more[n - b] = "newline"
      <4>1. n # b => n - b \in 1..n
        BY <2>3
      <4> QED BY <1>3, <2>3, <4>1
    <3> QED BY <1>3, <3>2, <3>3, <3>4, <3>5 DEF Holds
  <2> QED BY <2>4, <2>5
<1>7. Yields(q.yielded, more)
  BY <1>1, YieldsGrow
<1> QED BY <1>1, <1>3, <1>4, <1>5, <1>6, <1>7 DEF Reads

\* While the stream is waited for, its timer runs.
StreamInv ==
  /\ Reads(parser, arrived) /\ Holds(parser, arrived) /\ Yields(parser.yielded, arrived)
  /\ call \in [client : Clients, step : {"fetching", "body", "ended"}, ok : BOOLEAN, result : {"none", "answer", "error"}]
  /\ elapsed \in Nat
  /\ call.step = "fetching" \/ (Streams /\ Waiting) => armed /\ elapsed <= Timeout

LEMMA StreamStarts == ProviderInit => StreamInv
<1> SUFFICES ASSUME ProviderInit PROVE StreamInv
  OBVIOUS
<1>1. parser = [buffer |-> <<>>, yielded |-> <<>>, stopped |-> FALSE] /\ arrived = <<>>
  BY DEF ProviderInit
<1>2. <<>> \in Seq(Pieces) /\ Len(<<>>) = 0 /\ Deltas(<<>>) = {} /\ Cardinality({}) = 0
  BY FS_EmptySet DEF Deltas
<1>3. Reads(parser, arrived)
  BY <1>1, <1>2 DEF Reads
<1>4. Holds(parser, arrived)
  BY <1>1, <1>2 DEF Holds
<1>5. Yields(parser.yielded, arrived)
  BY <1>1, <1>2 DEF Yields
<1>6. call \in [client : Clients, step : {"fetching", "body", "ended"}, ok : BOOLEAN, result : {"none", "answer", "error"}]
      /\ elapsed = 0 /\ armed = TRUE
  BY DEF ProviderInit
<1> QED BY <1>3, <1>4, <1>5, <1>6, TimeoutAssumption DEF StreamInv

LEMMA ChunkKeeps ==
  ASSUME StreamInv, NEW pieces \in Seq(Pieces), Len(pieces) \in {1, 2}, Chunk(pieces)
  PROVE  StreamInv'
<1>1. PICK once, body : once = Parsed(parser, pieces[1]) /\ body = Append(arrived, pieces[1])
  OBVIOUS
<1>2. pieces[1] \in Pieces /\ (Len(pieces) = 2 => pieces[2] \in Pieces) /\ arrived \in Seq(Pieces)
  BY DEF StreamInv, Reads
<1>3. Reads(once, body) /\ Holds(once, body) /\ Yields(once.yielded, body)
  BY <1>1, <1>2, ReadsOne DEF StreamInv
<1>4. Reads(parser', arrived') /\ Holds(parser', arrived') /\ Yields(parser'.yielded, arrived')
  <2>1. arrived' = arrived \o pieces /\ parser' = IF Len(pieces) = 1 THEN once ELSE Parsed(once, pieces[2])
    BY <1>1 DEF Chunk, ReadFrom
  <2>2. CASE Len(pieces) = 1
    <3>1. arrived \o pieces = body
      <4>1. pieces = <<pieces[1]>>
        BY <2>2
      <4>2. Append(arrived, pieces[1]) = arrived \o <<pieces[1]>>
        BY <1>2, AppendIsConcat
      <4> QED BY <1>1, <4>1, <4>2
    <3> QED BY <1>3, <2>1, <2>2, <3>1
  <2>3. CASE Len(pieces) = 2
    <3>1. arrived \o pieces = Append(body, pieces[2])
      <4>0. PICK n \in Nat : n = Len(arrived)
        BY <1>2, LenProperties
      <4>1. PICK u, v, y, z : n = Len(arrived) /\ u = arrived \o pieces /\ v = Append(body, z)
                              /\ y = pieces[1] /\ z = pieces[2]
        BY <4>0
      <4>2. u \in Seq(Pieces) /\ Len(u) = n + 2
            /\ \A i \in 1..(n + 2) : u[i] = IF i <= n THEN arrived[i] ELSE pieces[i - n]
        <5>1. \A i \in 1..(n + 2) : i \in 1..(Len(arrived) + Len(pieces))
          BY <2>3, <4>1
        <5>2. /\ arrived \o pieces \in Seq(Pieces) /\ Len(arrived \o pieces) = Len(arrived) + Len(pieces)
              /\ \A i \in 1..(Len(arrived) + Len(pieces)) :
                   (arrived \o pieces)[i] = IF i <= Len(arrived) THEN arrived[i] ELSE pieces[i - Len(arrived)]
          BY <1>2, ConcatProperties
        <5> QED BY <2>3, <4>1, <5>1, <5>2
      <4>3. body \in Seq(Pieces) /\ Len(body) = n + 1 /\ body[n + 1] = y /\ \A i \in 1..n : body[i] = arrived[i]
        BY <1>1, <1>2, <4>1, AppendProperties
      <4>4. v \in Seq(Pieces) /\ Len(v) = n + 2 /\ v[n + 2] = z /\ \A i \in 1..(n + 1) : v[i] = body[i]
        <5>1. v \in Seq(Pieces) /\ Len(v) = (n + 1) + 1 /\ v[(n + 1) + 1] = z /\ \A i \in 1..(n + 1) : v[i] = body[i]
          BY <1>2, <2>3, <4>1, <4>3, AppendProperties
        <5> QED BY <5>1
      <4>5. ASSUME NEW i \in 1..(n + 2) PROVE u[i] = v[i]
        <5>1. CASE i \in 1..n
          BY <4>2, <4>3, <4>4, <5>1
        <5>2. CASE i = n + 1
          BY <4>1, <4>2, <4>3, <4>4, <5>2
        <5>3. CASE i = n + 2
          BY <4>1, <4>2, <4>4, <5>3
        <5> QED BY <5>1, <5>2, <5>3
      <4>6. u = v
        BY <4>2, <4>4, <4>5, SeqEqual
      <4> QED BY <4>1, <4>6
    <3>2. parser' = Parsed(once, pieces[2])
      BY <2>1, <2>3
    <3> QED BY <1>2, <1>3, <2>1, <2>3, <3>1, <3>2, ReadsOne
  <2> QED BY <2>2, <2>3
<1>5. \/ call' = call /\ armed' = armed
      \/ call' = [call EXCEPT !.step = "ended", !.result = "answer"]
  BY DEF Chunk, End
<1>6. elapsed' = elapsed
  BY DEF Chunk
<1>7. call' \in [client : Clients, step : {"fetching", "body", "ended"}, ok : BOOLEAN, result : {"none", "answer", "error"}]
  BY <1>5 DEF StreamInv
<1>8. (call.step = "fetching" \/ (Streams /\ Waiting))' => armed' /\ elapsed' <= Timeout
  <2>1. CASE call' = call /\ armed' = armed
    BY <1>6, <2>1 DEF StreamInv, Streams, Waiting
  <2>2. CASE call' = [call EXCEPT !.step = "ended", !.result = "answer"]
    <3>1. call'.step = "ended"
      BY <2>2 DEF StreamInv
    <3> QED BY <3>1 DEF Streams, Waiting
  <2> QED BY <1>5, <2>1, <2>2
<1> QED BY <1>4, <1>6, <1>7, <1>8 DEF StreamInv

LEMMA StreamStep == StreamInv /\ [ProviderNext]_providerVars => StreamInv'
<1> SUFFICES ASSUME StreamInv, [ProviderNext]_providerVars PROVE StreamInv'
  OBVIOUS
<1> DEFINE Calls == [client : Clients, step : {"fetching", "body", "ended"}, ok : BOOLEAN, result : {"none", "answer", "error"}]
           Promise == call.step = "fetching" \/ (Streams /\ Waiting) => armed /\ elapsed <= Timeout
<1>1. call \in Calls /\ elapsed \in Nat /\ Promise
  BY DEF StreamInv
<1>2. ASSUME arrived' = arrived, parser' = parser, call' \in Calls, elapsed' \in Nat, Promise' PROVE StreamInv'
  BY <1>2 DEF StreamInv
<1>3. ASSUME NEW ok \in BOOLEAN, HeadersArrive(ok) PROVE StreamInv'
  <2>1. call.step = "fetching" /\ call' = [call EXCEPT !.step = "body", !.ok = ok] /\ elapsed' = elapsed
        /\ armed' = (call.client.cleanup = "body") /\ arrived' = arrived /\ parser' = parser
    BY <1>3 DEF HeadersArrive
  <2>2. call' \in Calls /\ call'.step = "body" /\ call'.client = call.client
    BY <1>1, <2>1
  <2>3. CompletionStream.cleanup = "body"
    BY DEF CompletionStream, Client
  <2>4. Promise'
    BY <1>1, <2>1, <2>2, <2>3 DEF Streams, Waiting
  <2> QED BY <1>1, <1>2, <2>1, <2>2, <2>4
<1>4. ASSUME call'.step = "ended", call' \in Calls, elapsed' = elapsed, arrived' = arrived, parser' = parser PROVE StreamInv'
  BY <1>1, <1>2, <1>4 DEF Streams, Waiting
<1>5. CASE Fails
  <2>1. call' = [call EXCEPT !.step = "ended", !.result = "error"] /\ elapsed' = elapsed /\ arrived' = arrived /\ parser' = parser
    BY <1>5 DEF Fails, End
  <2> QED BY <1>1, <1>4, <2>1
<1>6. ASSUME NEW body \in Bodies, BodyArrives(body) PROVE StreamInv'
  <2>1. PICK result \in {"answer", "error"} :
          call' = [call EXCEPT !.step = "ended", !.result = result] /\ elapsed' = elapsed /\ arrived' = arrived /\ parser' = parser
    BY <1>6 DEF BodyArrives, End
  <2> QED BY <1>1, <1>4, <2>1
<1>7. ASSUME NEW piece \in Pieces, Chunk(<<piece>>) PROVE StreamInv'
  <2>1. <<piece>> \in Seq(Pieces) /\ Len(<<piece>>) \in {1, 2}
    OBVIOUS
  <2> QED BY <1>7, <2>1, ChunkKeeps
<1>8. ASSUME NEW piece \in Pieces, NEW next \in Pieces, Chunk(<<piece, next>>) PROVE StreamInv'
  <2>1. <<piece, next>> \in Seq(Pieces) /\ Len(<<piece, next>>) \in {1, 2}
    OBVIOUS
  <2> QED BY <1>8, <2>1, ChunkKeeps
<1>9. CASE StreamEnds
  <2>1. call' = [call EXCEPT !.step = "ended", !.result = "answer"] /\ elapsed' = elapsed /\ arrived' = arrived /\ parser' = parser
    BY <1>9 DEF StreamEnds, End
  <2> QED BY <1>1, <1>4, <2>1
<1>10. CASE PassTime
  <2>1. elapsed <= Timeout /\ ~(armed /\ elapsed = Timeout) /\ elapsed' = elapsed + 1 /\ call' = call
        /\ armed' = armed /\ arrived' = arrived /\ parser' = parser
    BY <1>10 DEF PassTime
  <2>2. elapsed' \in Nat /\ (armed => elapsed' <= Timeout)
    BY <1>1, <2>1, TimeoutAssumption
  <2>3. Promise'
    BY <1>1, <2>1, <2>2 DEF Streams, Waiting
  <2> QED BY <1>1, <1>2, <2>1, <2>2, <2>3
<1>11. CASE UNCHANGED providerVars
  BY <1>1, <1>2, <1>11 DEF providerVars, Streams, Waiting
<1> QED BY <1>3, <1>5, <1>6, <1>7, <1>8, <1>9, <1>10, <1>11 DEF ProviderNext

LEMMA StreamHolds == StreamInv => StreamIsWhole
BY DEF StreamInv, StreamIsWhole, Yields

\* What a caller was given of a stream is the frames of the body that were read up to
\* there, each once and in order, wherever the network cut the body (parseSseDeltas
\* keeps the unfinished line for the next chunk).
THEOREM StreamsAreWhole == ProviderSpec => []StreamIsWhole
<1>1. ProviderSpec => []StreamInv
  BY StreamStarts, StreamStep, PTL DEF ProviderSpec
<1> QED BY <1>1, StreamHolds, PTL

-----------------------------------------------------------------------------
(* All of them in one behaviour, which moves one of them. *)

LEMMA PartsStart ==
  Init => /\ DoorInv /\ ReportsInv /\ CompanionInv /\ HealthInv /\ ListInv /\ RouteInv /\ StreamInv
          /\ ArchiveInv /\ ReflectedInv /\ ExceptionInv
<1>1. Init => /\ DoorInit /\ CompanionInit /\ IntakeInit /\ HealthInit /\ ListInit /\ ProviderInit
              /\ RouteInit /\ HopeInit
  BY DEF Init
<1> QED BY <1>1, DoorInitial, IntakeInitial, CompanionInitial, HealthInitial, ListInitial, RouteInitial,
           StreamStarts, ArchiveInitial, ReflectedInitial, ExceptionInitial

\* A step of the whole is a step of each part, or leaves it as it is.
LEMMA PartsStep ==
  [Next]_vars => /\ [DoorNext]_doorVars /\ [CompanionNext]_companionVars /\ [IntakeNext]_intakeVars
                 /\ [HealthNext]_healthVars /\ [ListNext]_listVars /\ [ProviderNext]_providerVars
                 /\ [RouteNext]_routeVars /\ [HopeNext]_hopeVars
<1>1. CASE Next
  <2>1. [DoorNext]_doorVars /\ [CompanionNext]_companionVars
    BY <1>1 DEF Next
  <2>2. [IntakeNext]_intakeVars /\ [HealthNext]_healthVars
    BY <1>1 DEF Next
  <2>3. [ListNext]_listVars /\ [ProviderNext]_providerVars
    BY <1>1 DEF Next
  <2>4. [RouteNext]_routeVars /\ [HopeNext]_hopeVars
    BY <1>1 DEF Next, HopeNext
  <2> QED BY <2>1, <2>2, <2>3, <2>4
<1>2. CASE UNCHANGED vars
  BY <1>2 DEF vars
<1> QED BY <1>1, <1>2

\* Behind the gateway, whichever part moves: what it says it heard is what it heard,
\* of its own dependencies (deep_health.ts) and of a provider's stream.
THEOREM GatewayIsHonest == Spec => []SaysWhatItHeard
<1>1. HealthInv /\ StreamInv /\ [Next]_vars => HealthInv' /\ StreamInv'
  BY PartsStep, HealthStep, StreamStep
<1>2. HealthInv => HealthIsHonest
  BY DEF HealthInv, HealthIsHonest, Settled, Healthy
<1>3. HealthInv /\ StreamInv => SaysWhatItHeard
  BY <1>2, StreamHolds DEF SaysWhatItHeard
<1> QED BY <1>1, <1>3, PartsStart, PTL DEF Spec

\* Behind the gateway, whichever part moves: reports succeed no oftener than they went
\* unanswered; the windows let no more through than their limits; relationships and uses
\* are remembered; what HOPE recalls is the tenant's own and what it forgets is gone; and
\* what was given on the waiting list and to creators is kept for them.
THEOREM GatewayHolds ==
  Spec => /\ [](ReportedOnceUnlessSilent /\ LimitsHold /\ CompanionRemembers /\ HopeKeepsApart)
          /\ ClaimsAreKept
<1>1. /\ ReportsInv /\ [Next]_vars => ReportsInv'
      /\ DoorInv /\ [Next]_vars => DoorInv'
      /\ CompanionInv /\ [Next]_vars => CompanionInv'
  BY PartsStep, IntakeStep, DoorStep, CompanionStep
<1>2. /\ ListInv /\ [Next]_vars => ListInv'
      /\ RouteInv /\ [Next]_vars => RouteInv'
  BY PartsStep, ListStep, RouteNextStep, RouteStays
<1>3. /\ ArchiveInv /\ [Next]_vars => ArchiveInv'
      /\ ReflectedInv /\ [Next]_vars => ReflectedInv'
      /\ ExceptionInv /\ [Next]_vars => ExceptionInv'
  BY PartsStep, ArchiveStep, ReflectedStep, ExceptionStep
<1>4. Spec => [](ReportsInv /\ DoorInv /\ CompanionInv)
  BY <1>1, PartsStart, PTL DEF Spec
<1>5. Spec => [](ListInv /\ RouteInv)
  BY <1>2, PartsStart, PTL DEF Spec
<1>6. Spec => [](ArchiveInv /\ ReflectedInv /\ ExceptionInv)
  BY <1>3, PartsStart, PTL DEF Spec
<1>7. CompanionInv => CompanionRemembers
  BY DEF CompanionInv, CompanionRemembers, MemoryCountsTurns, ChatsInv, UsageInv
<1>8. ArchiveInv /\ ReflectedInv /\ ExceptionInv => HopeKeepsApart
  BY RecallSuffices DEF ReflectedInv, ExceptionInv, HopeKeepsApart
<1>9. Spec => [](ReportedOnceUnlessSilent /\ LimitsHold /\ CompanionRemembers /\ HopeKeepsApart)
  BY <1>4, <1>6, <1>7, <1>8, ReportsInvSuffices, DoorInvSuffices, PTL
<1>10. Spec => PlacesAreKept
  <2>1. ListInv /\ [Next]_vars => [PlacesStep]_listVars
    BY PartsStep, ListActs
  <2> QED BY <1>5, <2>1, PTL DEF Spec, PlacesAreKept, PlacesStep
<1>11. Spec => CreatorsKeepTheirs
  <2>1. RouteInv /\ [Next]_vars => [RouteStepOK]_routeVars
    BY PartsStep, RouteNextStep
  <2>2. RouteInv => EarningsAreTheOwners
    BY DEF RouteInv
  <2> QED BY <1>5, <2>1, <2>2, PTL DEF Spec, CreatorsKeepTheirs, OnlyOwnersChange, RouteStepOK
<1> QED BY <1>9, <1>10, <1>11 DEF ClaimsAreKept
=============================================================================
