------------------------------ MODULE LearnedGate ------------------------------
(***************************************************************************)
(* KNOLL with its learned scorer (knoll/validator.ts, scoring_learned.ts)  *)
(* and the board that measures it (eval/run_board.ts).  "Additive only" is *)
(* said of whole histories, and both scorers remember: so the gate with    *)
(* the learned scorer and the one without it run here side by side on the  *)
(* same packets.  What training finds is a choice of weights.  Scores and  *)
(* reputations are in thousandths; a probability is compared by its logit. *)
(***************************************************************************)
EXTENDS Integers, Sequences, SequencesExt, FiniteSets

CONSTANTS
  Senders,
  Cases,        \* packets: sender, what they break, content, hint, legal, took
  WeightSets,   \* what the learned scorer was trained to: rate, reputation, bias
  MostPerSpan, RateSpan,      \* checkRate
  SeenSpan, SeenSoftCap,      \* observeRate, of both scorers
  MaxCases, MaxInstants       \* bounds

ASSUME LearnedAssumption ==
  /\ Cases \subseteq [sender : Senders, breaks : {"none", "hash", "law"}, content : Nat, hint : Int,
                      legal : BOOLEAN, took : Nat]
  /\ SeenSoftCap \in Nat \ {0}

VARIABLES
  heuristic,  \* is the hand-tuned scorer on (enableScoring)?
  mode,       \* of the learned scorer
  model,      \* its weights
  learned,    \* its windows and reputations
  gate,       \* the rest of KNOLL, with the learned scorer behind it
  plain,      \* and KNOLL without
  board,      \* the results of the cases so far, through both
  moment

learnedVars == <<heuristic, mode, model, learned, gate, plain, board, moment>>

-----------------------------------------------------------------------------
(* Either scorer: a window of recent packets and a reputation per source. *)

NewScorer == [seen |-> [s \in Senders |-> <<>>], risk |-> [s \in Senders |-> 0]]
Capped(n) == IF n > 1000 THEN 1000 ELSE n
ObserveRate(scorer, s) ==
  Append(SelectSeq(scorer.seen[s], LAMBDA at : at + SeenSpan > moment), moment)
RateFeature(scorer, s) == Capped((Len(ObserveRate(scorer, s)) * 1000) \div SeenSoftCap)
Band(score, deny, flag) ==
  IF score >= deny THEN "anomalous" ELSE IF score >= flag THEN "flagged" ELSE "clean"
Feedback(risk, band) ==
  CASE band = "anomalous" -> Capped(risk + 250)
    [] band = "flagged" -> Capped(risk + 50)
    [] OTHER -> IF risk < 20 THEN 0 ELSE risk - 20
Scored(scorer, s, band) ==
  [seen |-> [scorer.seen EXCEPT ![s] = ObserveRate(scorer, s)],
   risk |-> [scorer.risk EXCEPT ![s] = Feedback(@, band)]]

\* BehavioralScorer: weights 0.1 and 0.1, thresholds 0.34 and 0.2.
HeuristicBand(scorer, c) ==
  Band(c.content + (RateFeature(scorer, c.sender) + scorer.risk[c.sender]) \div 10, 340, 200)
\* LearnedBehavioralScorer: thresholds 0.6 and 0.4, which are logits of 405 and -405.
LearnedBand(c) ==
  Band(model.bias + c.hint + (model.rate * RateFeature(learned, c.sender)
                              + model.risk * learned.risk[c.sender]) \div 1000, 405, -405)

-----------------------------------------------------------------------------
(* intercept, behind the router's freeze, as far as the learned scorer. *)

NewGate == [frozen |-> FALSE, scorer |-> NewScorer,
            opened |-> [s \in Senders |-> 0], count |-> [s \in Senders |-> 0]]
Fresh(g, s) == g.count[s] = 0 \/ moment - g.opened[s] >= RateSpan
RateCounted(g, s) ==
  IF Fresh(g, s) THEN [g EXCEPT !.opened[s] = moment, !.count[s] = 1]
  ELSE [g EXCEPT !.count[s] = @ + 1]
Passage(verdict, g) == [verdict |-> verdict, gate |-> g]
Intercept(g, c) ==
  LET counted == RateCounted(g, c.sender)
      band == HeuristicBand(g.scorer, c)
      scored == [counted EXCEPT !.scorer = Scored(@, c.sender, band)]
  IN  CASE g.frozen -> Passage("FROZEN", g)
        [] ~g.frozen /\ c.breaks = "hash" -> Passage("HASH_INTEGRITY", g)
        [] ~g.frozen /\ c.breaks # "hash" /\ counted.count[c.sender] > MostPerSpan ->
             Passage("RATE_LIMIT", counted)
        [] OTHER ->
             CASE c.breaks = "law" -> Passage("LAW", counted)
               [] c.breaks # "law" /\ ~heuristic -> Passage("ALLOWED", counted)
               [] OTHER -> IF band = "anomalous"
                           THEN Passage("BEHAVIORAL_SCORE", [scored EXCEPT !.frozen = TRUE])
                           ELSE Passage("ALLOWED", scored)

Denies(c) == mode = "enforce" /\ LearnedBand(c) = "anomalous"
Consulted(c) == Scored(learned, c.sender, LearnedBand(c))

\* The whole gate: what KNOLL is afterwards, its learned scorer, and the verdict.
WithLearned(c) ==
  LET rest == Intercept(gate, c)
  IN  IF rest.verdict # "ALLOWED"
      THEN [verdict |-> rest.verdict, gate |-> rest.gate, learned |-> learned]
      ELSE [verdict |-> IF Denies(c) THEN "LEARNED_BEHAVIORAL_SCORE" ELSE "ALLOWED",
            gate |-> rest.gate, learned |-> Consulted(c)]

-----------------------------------------------------------------------------
(* runBoard: its handlers never fail, so a packet that is allowed routes. *)

StatusOf(verdict) == IF verdict = "ALLOWED" THEN "SUCCESS" ELSE "BLOCKED"
RunCase(c) ==
  /\ Len(board) < MaxCases
  /\ LET full == WithLearned(c)
         bare == Intercept(plain, c)
     IN  /\ gate' = full.gate /\ learned' = full.learned /\ plain' = bare.gate
         /\ board' = Append(board,
              [legal |-> c.legal, took |-> c.took, verdict |-> full.verdict,
               bare |-> bare.verdict, mode |-> mode])
  /\ UNCHANGED <<heuristic, mode, model, moment>>

SetMode ==
  /\ mode' = IF mode = "shadow" THEN "enforce" ELSE "shadow"
  /\ UNCHANGED <<heuristic, model, learned, gate, plain, board, moment>>
LoadModel(m) ==
  /\ model # m /\ model' = m
  /\ UNCHANGED <<heuristic, mode, learned, gate, plain, board, moment>>
Await ==
  /\ moment < MaxInstants /\ moment' = moment + 1
  /\ UNCHANGED <<heuristic, mode, model, learned, gate, plain, board>>

\* computeMetrics: counts, of which the rates are the quotients.
HowOften(Holds(_)) == Cardinality({i \in DOMAIN board : Holds(board[i])})
Metrics ==
  [escaped |-> HowOften(LAMBDA r : ~r.legal /\ StatusOf(r.verdict) # "BLOCKED"),
   falseBlocks |-> HowOften(LAMBDA r : r.legal /\ StatusOf(r.verdict) = "BLOCKED"),
   failed |-> HowOften(LAMBDA r : StatusOf(r.verdict) = "FAILED"),
   correct |-> HowOften(LAMBDA r :
                 StatusOf(r.verdict) = IF r.legal THEN "SUCCESS" ELSE "BLOCKED")]
Passed == Metrics.escaped = 0 /\ Metrics.falseBlocks = 0 /\ Metrics.failed = 0

\* The k-th of the samples, once they are sorted.
Ranked(k) ==
  CHOOSE took \in {board[i].took : i \in DOMAIN board} :
    HowOften(LAMBDA r : r.took < took) < k /\ k <= HowOften(LAMBDA r : r.took <= took)
\* percentile, in hundredths: between the two samples around the rank p (n - 1) / 100.
Percentile(p) ==
  LET rank == p * (Len(board) - 1)
      low == rank \div 100 + 1
      part == rank % 100
  IN  IF part = 0 THEN 100 * Ranked(low)
      ELSE Ranked(low) * (100 - part) + Ranked(low + 1) * part

LearnedInit ==
  /\ heuristic \in BOOLEAN /\ mode \in {"shadow", "enforce"} /\ model \in WeightSets
  /\ learned = NewScorer /\ gate = NewGate /\ plain = NewGate
  /\ board = <<>> /\ moment = 0
LearnedNext ==
  \/ \E c \in Cases : RunCase(c)
  \/ SetMode \/ Await
  \/ \E m \in WeightSets : LoadModel(m)

-----------------------------------------------------------------------------
(* Properties. *)

\* scoring_learned.ts: "It NEVER overrides a hard-law allow and NEVER turns a deny into
\* an allow".  Over any history of packets, modes and models, what KNOLL denies without
\* the learned scorer it denies with it, for the same reason; it denies more only while
\* the scorer enforces; and what it remembers of everybody is the same, so that no
\* later verdict is changed by an earlier learned one.
LearnedOnlyAdds ==
  /\ gate = plain
  /\ \A i \in DOMAIN board :
       LET r == board[i]
       IN  r.verdict # r.bare =>
             r.bare = "ALLOWED" /\ r.verdict = "LEARNED_BEHAVIORAL_SCORE" /\ r.mode = "enforce"

\* run_board.ts: the board fails on "any escaped governance violation, or any legal
\* packet blocked/failed", which is to pass when every case went as it is labelled;
\* adding the learned scorer lets no violation escape that did not before; and its
\* median is a median: no more than half the samples are below it, or above.
BoardTellsAll ==
  /\ Passed <=> Metrics.correct = Len(board)
  /\ Metrics.escaped <= HowOften(LAMBDA r : ~r.legal /\ r.bare = "ALLOWED")
  /\ board # <<>> =>
       /\ Percentile(50) <= Percentile(95)
       /\ 2 * HowOften(LAMBDA r : 100 * r.took < Percentile(50)) <= Len(board)
       /\ 2 * HowOften(LAMBDA r : 100 * r.took > Percentile(50)) <= Len(board)

BoardIsHonest == LearnedOnlyAdds /\ BoardTellsAll
=============================================================================
