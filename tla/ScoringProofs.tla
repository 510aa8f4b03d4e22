---------------------------- MODULE ScoringProofs ----------------------------
(***************************************************************************)
(* Theorems about AssessmentScoring, for every set of miners, number of    *)
(* rounds and days, set of horizons, frozen universe and active set; and   *)
(* about MarketData, which says how the targets of a pass get their        *)
(* values, for every pool history, finality lag, output and bound of the   *)
(* fetcher.                                                                *)
(***************************************************************************)
EXTENDS AssessmentScoring, MarketData, FiniteSetTheorems, WellFoundedInduction, TLAPS

(***************************************************************************)
(* AssessmentScoring.                                                      *)
(***************************************************************************)
\* The round in front of the queue is revealed while its horizons are visited.
ResolvingIsRevealed ==
    tick.pc = "horizons" =>
      \A r \in tick.rounds : (\A q \in tick.rounds : r <= q) => stage[r] = "revealed"

\* Nothing is resolved before the accepted set is final.
ResolvedIsRevealed ==
    \A r \in Rounds : stage[r] \in {"absent", "open"} =>
      marked[r] = {} /\ \A c \in Coordinates : targets[r][c] = "none"

\* History holds resolved coordinates only, and every accepted miner for each.
HistoryFollowsTargets ==
    \A r \in Rounds, c \in Coordinates :
      /\ targets[r][c] = "resolved" => accepted[r] \X {c} \subseteq history[r]
      /\ \A h \in Hotkeys : <<h, c>> \in history[r] => targets[r][c] = "resolved"

\* An EMA that has observed nothing is worth nothing.
UnobservedIsWorthless ==
    \A h \in Hotkeys, c \in Coordinates : ema[h][c].resolved = 0 => ema[h][c].level = 0

ScoringInv ==
    /\ TypeOK /\ ResolvingIsRevealed /\ ResolvedIsRevealed /\ HistoryFollowsTargets
    /\ UnobservedIsWorthless /\ MarkedIsScored /\ NoRetroactiveCharge
    /\ CountsDistinctRounds

-----------------------------------------------------------------------------
(***************************************************************************)
(* The pass.                                                               *)
(***************************************************************************)
Ema == [level : Nat, resolved : Nat]

\* A round being resolved is revealed, and lies in the bounds.
LEMMA DueIsRevealed ==
    ASSUME TypeOK, ResolvingIsRevealed, NEW r, NEW z, DueHorizon(r, z)
    PROVE  r \in Rounds /\ z \in Horizons /\ stage[r] = "revealed"
BY DEF TypeOK, ResolvingIsRevealed, DueHorizon, NextHorizon

\* The coordinates a round resolves at one of its horizons.
LEMMA ExpectedCoordinates ==
    ASSUME NEW r \in Rounds, NEW z \in Horizons
    PROVE  /\ Expected(r, z) \subseteq Coordinates
           /\ \A c \in Expected(r, z) : c[2] = z /\ c \in Universe[r] \X Horizons
BY ScoringAssumption DEF Expected, Coordinates

\* The scoring set holds eligible miners only.
LEMMA ScoringSetEligible ==
    ASSUME TypeOK, NEW r \in Rounds
    PROVE  ScoringSet(r) \subseteq Hotkeys /\ ScoringSet(r) \subseteq EligibleFor(r)
<1>1. r \in Int
  BY ScoringAssumption DEF Rounds
<1>2. accepted[r] \subseteq EligibleFor(r)
  BY <1>1 DEF TypeOK, EligibleFor
<1> QED
  BY <1>2 DEF ScoringSet, EligibleFor

\* What one observation does to the EMA of a coordinate.
LEMMA ObserveTypes ==
    ASSUME NEW e \in Ema, NEW good
    PROVE  /\ Observe(e, good) \in Ema
           /\ Observe(e, good).resolved = e.resolved + 1
           /\ Observe(e, good).resolved # 0
           /\ ~good /\ e.level > 0 => Observe(e, good).level = e.level - 1
BY ScoringAssumption DEF Observe, Ema

\* What a pass does to one EMA: nothing, an observation, or its removal.
LEMMA PassEma ==
    ASSUME TypeOK, NEW r \in Rounds, NEW h \in Hotkeys, NEW c \in Coordinates,
           NEW resolved, NEW good,
           ema' = Pruned(Scored(r, resolved, good),
                         FullyDecayed(r, resolved, Scored(r, resolved, good)))
    PROVE  /\ ema[h][c] \in Ema
           /\ \/ ema'[h][c] = NoEma
              \/ /\ h \in ScoringSet(r) /\ c \in resolved
                 /\ ema'[h][c] = Observe(ema[h][c], h \in good)
              \/ /\ ~(h \in ScoringSet(r) /\ c \in resolved)
                 /\ ema'[h][c] = ema[h][c]
<1>1. ema[h][c] \in Ema
  BY DEF TypeOK, Ema
<1>2. Scored(r, resolved, good)[h][c] =
        IF h \in ScoringSet(r) /\ c \in resolved THEN Observe(ema[h][c], h \in good)
        ELSE ema[h][c]
  BY DEF Scored
<1>3. ema'[h][c] = NoEma \/ ema'[h][c] = Scored(r, resolved, good)[h][c]
  BY DEF Pruned
<1> QED
  BY <1>1, <1>2, <1>3

\* What a pass writes in its one transaction.
PassWrites(r, z, answered, resolved, good) ==
    /\ targets' = [targets EXCEPT ![r] = [c \in Coordinates |->
                     IF c \in resolved THEN "resolved"
                     ELSE IF c \in answered THEN "voided" ELSE targets[r][c]]]
    /\ history' = [history EXCEPT ![r] = history[r] \union (ScoringSet(r) \X resolved)]
    /\ ema' = Pruned(Scored(r, resolved, good),
                     FullyDecayed(r, resolved, Scored(r, resolved, good)))
    /\ marked' = IF Complete(r, z, answered)
                 THEN [marked EXCEPT ![r] = marked[r] \union {z}] ELSE marked

\* The parts of a pass, named.
LEMMA PassParts ==
    ASSUME TypeOK, ResolvingIsRevealed, NEW r, NEW z, ResolveAndScore(r, z)
    PROVE  /\ r \in Rounds /\ z \in Horizons /\ stage[r] = "revealed"
           /\ UNCHANGED <<day, rounds, metagraph, tracker>>
           /\ \E over \in BOOLEAN :
                tick' = [tick EXCEPT !.left = @ \ {z}, !.scored = TRUE, !.spent = over]
           /\ \E answered \in SUBSET Unresolved(r, z) :
              \E resolved \in SUBSET answered, good \in SUBSET accepted[r] :
                PassWrites(r, z, answered, resolved, good)
<1>1. r \in Rounds /\ z \in Horizons /\ stage[r] = "revealed"
  BY DueIsRevealed DEF ResolveAndScore
<1>2. UNCHANGED <<day, rounds, metagraph, tracker>>
  BY DEF ResolveAndScore
<1>3. PICK answered \in SUBSET Unresolved(r, z) :
      \E resolved \in SUBSET answered, good \in SUBSET accepted[r] :
        /\ PassWrites(r, z, answered, resolved, good)
        /\ \E over \in {FALSE, ~Complete(r, z, answered)} :
             tick' = [tick EXCEPT !.left = @ \ {z}, !.scored = TRUE, !.spent = over]
  BY DEF ResolveAndScore, ScoreRows, PassWrites
<1> QED
  BY <1>1, <1>2, <1>3 DEF Complete

-----------------------------------------------------------------------------
(***************************************************************************)
(* Types.                                                                  *)
(***************************************************************************)
TickType ==
    [pc : {"idle", "open", "rounds", "horizons", "archive"}, now : Nat,
     rounds : SUBSET Rounds, left : SUBSET Horizons,
     spent : BOOLEAN, scored : BOOLEAN]

LEMMA PassTypes ==
    ASSUME TypeOK, ResolvingIsRevealed, NEW r, NEW z, ResolveAndScore(r, z)
    PROVE  TypeOK'
<1>1. /\ r \in Rounds /\ z \in Horizons
      /\ UNCHANGED <<day, stage, accepted, metagraph, missing, lastSeen>>
  BY PassParts DEF rounds, tracker
<1>2. tick' \in TickType
  <2>1. PICK over \in BOOLEAN :
          tick' = [tick EXCEPT !.left = @ \ {z}, !.scored = TRUE, !.spent = over]
    BY PassParts
  <2> QED
    BY <2>1 DEF TypeOK, TickType
<1>3. PICK answered \in SUBSET Unresolved(r, z) :
      \E resolved \in SUBSET answered, good \in SUBSET accepted[r] :
        PassWrites(r, z, answered, resolved, good)
  BY PassParts
<1>4. PICK resolved \in SUBSET answered, good \in SUBSET accepted[r] :
        PassWrites(r, z, answered, resolved, good)
  BY <1>3
<1>5. resolved \subseteq Coordinates
  BY <1>1, ExpectedCoordinates DEF Unresolved
<1>6. targets' \in [Rounds -> [Coordinates -> {"none", "resolved", "voided"}]]
  BY <1>1, <1>4 DEF PassWrites, TypeOK
<1>7. history' \in [Rounds -> SUBSET (Hotkeys \X Coordinates)]
  BY <1>1, <1>4, <1>5, ScoringSetEligible DEF PassWrites, TypeOK
<1>8. marked' \in [Rounds -> SUBSET Horizons]
  BY <1>1, <1>4 DEF PassWrites, TypeOK
<1>9. ema' \in [Hotkeys -> [Coordinates -> Ema]]
  <2>1. \A h \in Hotkeys, c \in Coordinates : ema'[h][c] \in Ema
    <3> TAKE h \in Hotkeys, c \in Coordinates
    <3>1. NoEma \in Ema
      BY DEF NoEma, Ema
    <3>2. /\ ema[h][c] \in Ema
          /\ \/ ema'[h][c] = NoEma
             \/ ema'[h][c] = Observe(ema[h][c], h \in good)
             \/ ema'[h][c] = ema[h][c]
      BY <1>1, <1>4, PassEma DEF PassWrites
    <3>3. Observe(ema[h][c], h \in good) \in Ema
      BY <3>2, ObserveTypes
    <3> QED
      BY <3>1, <3>2, <3>3
  <2>2. ema' = [h \in Hotkeys |-> [c \in Coordinates |-> ema'[h][c]]]
    BY <1>4 DEF PassWrites, Pruned
  <2> QED
    BY <2>1, <2>2
<1> QED
  BY <1>1, <1>2, <1>6, <1>7, <1>8, <1>9 DEF TypeOK, TickType, Ema

LEMMA ArchiveTypes ==
    ASSUME TypeOK, NEW z \in Horizons, ArchiveHorizon(z)
    PROVE  TypeOK'
<1>1. ema' \in [Hotkeys -> [Coordinates -> Ema]]
  <2>1. CASE UNCHANGED ema
    BY <2>1 DEF TypeOK, Ema
  <2>2. CASE ema' = [h \in Hotkeys |-> [c \in Coordinates |->
                      IF h \in Confirmed /\ c[2] = z THEN NoEma ELSE ema[h][c]]]
    BY <2>2 DEF TypeOK, Ema, NoEma
  <2> QED
    BY <2>1, <2>2 DEF ArchiveHorizon, ArchivedEma
<1>2. tick' \in TickType
  BY DEF ArchiveHorizon, TypeOK, TickType
<1> QED
  BY <1>1, <1>2 DEF ArchiveHorizon, TypeOK, TickType, Ema, rounds, tracker

LEMMA TypeInit == Init => TypeOK
BY ScoringAssumption DEF Init, TypeOK, NoEma, NoTick, Rounds

LEMMA TypeNext ==
    ASSUME TypeOK, ResolvingIsRevealed, [Next]_vars
    PROVE  TypeOK'
<1> USE ScoringAssumption DEF TypeOK
<1>1. CASE NextDay
  BY <1>1 DEF NextDay, rounds, scores, tracker
<1>2. CASE Resync
  BY <1>2 DEF Resync, Advanced, rounds, scores
<1>3. CASE ResyncRaises
  BY <1>3 DEF ResyncRaises, rounds, scores, tracker
<1>4. CASE Restart
  BY <1>4 DEF Restart, rounds, scores, NoTick, Persisted
<1>5. ASSUME NEW h \in Hotkeys, NEW r \in Rounds, AcceptReveal(h, r) PROVE TypeOK'
  BY <1>5 DEF AcceptReveal, scores, tracker
<1>6. CASE StartTick
  BY <1>6 DEF StartTick, rounds, scores, tracker, NoTick
<1>7. CASE OpenActiveRound
  <2>1. stage' \in [Rounds -> {"absent", "open", "revealed", "closed"}]
    BY <1>7 DEF OpenActiveRound
  <2>2. tick' \in TickType
    BY <1>7 DEF OpenActiveRound, Unfinished, TickType
  <2> QED
    BY <1>7, <2>1, <2>2 DEF OpenActiveRound, scores, tracker, TickType
<1>8. CASE StartArchival
  BY <1>8 DEF StartArchival, rounds, scores, tracker
<1>9. CASE FinishTick
  <2>1. missing' \in [Hotkeys -> Nat]
    <3> DEFINE Forgot == [h \in Hotkeys |->
                           IF h \in Confirmed /\ Settled(h) THEN 0 ELSE missing[h]]
    <3>1. missing' = Forgot \/ UNCHANGED missing
      BY <1>9 DEF FinishTick
    <3>2. Forgot \in [Hotkeys -> Nat]
      OBVIOUS
    <3> QED
      BY <3>1, <3>2
  <2>2. tick' \in TickType
    BY <1>9 DEF FinishTick, NoTick, TickType
  <2> QED
    BY <1>9, <2>1, <2>2 DEF FinishTick, rounds, scores, TickType
<1>10. ASSUME NEW r \in Rounds, PublishRound(r) \/ EnterRound(r) \/ SettleRound(r)
       PROVE  TypeOK'
  <2>1. stage' \in [Rounds -> {"absent", "open", "revealed", "closed"}]
    BY <1>10 DEF PublishRound, EnterRound, SettleRound, rounds
  <2>2. tick' \in TickType
    <3>1. CASE PublishRound(r) \/ EnterRound(r)
      <4>1. tick' = [tick EXCEPT !.pc = "horizons", !.left = Horizons]
            \/ tick' = [tick EXCEPT !.rounds = @ \ {r}]
        BY <3>1 DEF PublishRound, EnterRound
      <4>2. CASE tick' = [tick EXCEPT !.pc = "horizons", !.left = Horizons]
        BY <4>2 DEF TickType
      <4>3. CASE tick' = [tick EXCEPT !.rounds = @ \ {r}]
        BY <4>3 DEF TickType
      <4> QED
        BY <4>1, <4>2, <4>3
    <3>2. CASE SettleRound(r)
      BY <3>2 DEF SettleRound, TickType
    <3> QED
      BY <1>10, <3>1, <3>2
  <2>3. UNCHANGED <<day, accepted, scores, metagraph, tracker>>
    BY <1>10 DEF PublishRound, EnterRound, SettleRound, rounds
  <2> QED
    BY <2>1, <2>2, <2>3 DEF scores, tracker, TickType
<1>11. ASSUME NEW r \in Rounds, NEW z \in Horizons,
              PassOver(r, z) \/ Defer(r, z) \/ PassFails(r, z)
       PROVE  TypeOK'
  <2>1. UNCHANGED <<day, rounds, scores, metagraph, tracker>>
    BY <1>11 DEF PassOver, Defer, PassFails
  <2>2. tick' = [tick EXCEPT !.left = @ \ {z}]
        \/ tick' = [tick EXCEPT !.left = {}, !.spent = TRUE]
    BY <1>11 DEF PassOver, Defer, PassFails
  <2>3. tick' \in TickType
    <3>1. CASE tick' = [tick EXCEPT !.left = @ \ {z}]
      BY <3>1 DEF TickType
    <3>2. CASE tick' = [tick EXCEPT !.left = {}, !.spent = TRUE]
      BY <3>2 DEF TickType
    <3> QED
      BY <2>2, <3>1, <3>2
  <2> QED
    BY <2>1, <2>3 DEF rounds, scores, tracker, TickType
<1>12. ASSUME NEW r \in Rounds, NEW z \in Horizons, ResolveAndScore(r, z)
       PROVE  TypeOK'
  BY <1>12, PassTypes
<1>13. ASSUME NEW z \in Horizons, ArchiveHorizon(z) PROVE TypeOK'
  BY <1>13, ArchiveTypes
<1>14. CASE UNCHANGED vars
  BY <1>14 DEF vars, rounds, scores, tracker
<1> QED
  BY <1>1, <1>2, <1>3, <1>4, <1>5, <1>6, <1>7, <1>8, <1>9, <1>10, <1>11, <1>12,
     <1>13, <1>14 DEF Next, Tick

-----------------------------------------------------------------------------
(***************************************************************************)
(* The invariant.                                                          *)
(***************************************************************************)
\* Every step but a pass and an archival leaves the scores alone; the accepted
\* set of a round grows while it is open, and no round opens twice.
LEMMA StepKinds ==
    ASSUME [Next]_vars
    PROVE  \/ \E r \in Rounds, z \in Horizons : ResolveAndScore(r, z)
           \/ \E z \in Horizons : ArchiveHorizon(z)
           \/ \E h \in Hotkeys, r \in Rounds : AcceptReveal(h, r)
           \/ /\ UNCHANGED <<accepted, scores>>
              /\ \/ OpenActiveRound
                 \/ \E r \in Rounds : PublishRound(r) \/ SettleRound(r)
                 \/ UNCHANGED stage
BY DEF Next, Tick, NextDay, Resync, ResyncRaises, Restart, StartTick, OpenActiveRound,
       PublishRound, EnterRound, SettleRound, PassOver, Defer, PassFails,
       StartArchival, FinishTick, vars, rounds

\* The scores other than the EMAs, and the rounds, change in no other step.
LEMMA Frame ==
    ASSUME [Next]_vars,
           \A r \in Rounds, z \in Horizons : ~ResolveAndScore(r, z)
    PROVE  /\ UNCHANGED <<targets, history, marked>>
           /\ ema' = ema \/ \E z \in Horizons : ArchiveHorizon(z)
BY StepKinds DEF ArchiveHorizon, AcceptReveal, scores

\* A round is open only from absent, and its accepted set grows only when open.
LEMMA StageSteps ==
    ASSUME TypeOK, ResolvingIsRevealed, [Next]_vars, NEW r \in Rounds
    PROVE  /\ stage[r] \in {"revealed", "closed"} =>
                stage'[r] \in {"revealed", "closed"} /\ accepted'[r] = accepted[r]
           /\ accepted[r] \subseteq accepted'[r]
<1>1. CASE \E q \in Rounds, z \in Horizons : ResolveAndScore(q, z)
  BY <1>1 DEF ResolveAndScore, rounds
<1>2. CASE \E z \in Horizons : ArchiveHorizon(z)
  BY <1>2 DEF ArchiveHorizon, rounds
<1>3. ASSUME NEW h \in Hotkeys, NEW q \in Rounds, AcceptReveal(h, q)
      PROVE  /\ stage'[r] = stage[r] /\ accepted[r] \subseteq accepted'[r]
             /\ stage[r] # "open" => accepted'[r] = accepted[r]
  BY <1>3 DEF AcceptReveal, TypeOK
<1>4. CASE UNCHANGED accepted /\ OpenActiveRound
  BY <1>4 DEF OpenActiveRound, TypeOK
<1>5. ASSUME UNCHANGED accepted, NEW q \in Rounds, PublishRound(q) \/ SettleRound(q)
      PROVE  stage[r] \in {"revealed", "closed"} => stage'[r] \in {"revealed", "closed"}
  <2>1. \/ UNCHANGED stage
        \/ stage' = [stage EXCEPT ![q] = "revealed"]
        \/ stage' = [stage EXCEPT ![q] = "closed"]
    BY <1>5 DEF PublishRound, SettleRound
  <2> QED
    BY <2>1 DEF TypeOK
<1> QED
  BY <1>1, <1>2, <1>3, <1>4, <1>5, StepKinds

LEMMA ResolvingNext ==
    ASSUME TypeOK, ResolvingIsRevealed, [Next]_vars
    PROVE  ResolvingIsRevealed'
<1> USE DEF ResolvingIsRevealed
<1>1. CASE UNCHANGED <<stage, tick>>
  BY <1>1
<1>2. CASE tick'.pc # "horizons"
  BY <1>2
<1>3. ASSUME NEW r \in Rounds, PublishRound(r) \/ EnterRound(r) PROVE ResolvingIsRevealed'
  <2>1. CASE tick' = [tick EXCEPT !.pc = "horizons", !.left = Horizons]
             /\ stage'[r] = "revealed"
    <3>1. tick'.rounds = tick.rounds /\ r \in tick.rounds
          /\ \A q \in tick.rounds : r <= q
      BY <1>3, <2>1 DEF PublishRound, EnterRound, NextRound, TypeOK
    <3>2. \A q \in tick.rounds : (\A p \in tick.rounds : q <= p) => q = r
      BY <3>1, ScoringAssumption DEF TypeOK, Rounds
    <3> QED
      BY <2>1, <3>1, <3>2
  <2>2. CASE tick' = [tick EXCEPT !.rounds = @ \ {r}]
    BY <1>3, <2>2 DEF PublishRound, EnterRound, NextRound, TypeOK
  <2> QED
    BY <1>3, <2>1, <2>2 DEF PublishRound, EnterRound, TypeOK, rounds
<1>4. ASSUME NEW r \in Rounds, NEW z \in Horizons,
             \/ PassOver(r, z) \/ Defer(r, z) \/ PassFails(r, z) \/ ResolveAndScore(r, z)
      PROVE  ResolvingIsRevealed'
  <2>1. UNCHANGED stage /\ tick'.pc = tick.pc /\ tick'.rounds = tick.rounds
    <3>1. CASE ResolveAndScore(r, z)
      BY <3>1, PassParts DEF rounds, TypeOK
    <3>2. CASE PassOver(r, z) \/ Defer(r, z) \/ PassFails(r, z)
      BY <3>2 DEF PassOver, Defer, PassFails, rounds, TypeOK
    <3> QED
      BY <1>4, <3>1, <3>2
  <2> QED
    BY <2>1
<1>5. ASSUME NEW r \in Rounds, SettleRound(r) PROVE tick'.pc # "horizons"
  BY <1>5 DEF SettleRound, TypeOK
<1>7. ASSUME NEW z \in Horizons, ArchiveHorizon(z) PROVE tick'.pc # "horizons"
  BY <1>7 DEF ArchiveHorizon, TypeOK
<1>8. CASE StartTick \/ OpenActiveRound \/ StartArchival \/ FinishTick \/ Restart
  <2>1. tick'.pc # "horizons"
    <3>1. CASE StartTick \/ FinishTick \/ Restart
      <4>1. tick' = NoTick \/ tick'.pc = "open"
        BY <3>1 DEF StartTick, FinishTick, Restart, NoTick
      <4> QED
        BY <4>1 DEF NoTick
    <3>2. CASE OpenActiveRound
      BY <3>2 DEF OpenActiveRound, TypeOK
    <3>3. CASE StartArchival
      BY <3>3 DEF StartArchival, TypeOK
    <3> QED
      BY <1>8, <3>1, <3>2, <3>3
  <2> QED
    BY <2>1
<1>9. CASE NextDay \/ Resync \/ ResyncRaises \/ UNCHANGED vars
           \/ \E h \in Hotkeys, r \in Rounds : AcceptReveal(h, r)
  BY <1>1, <1>9 DEF NextDay, Resync, ResyncRaises, AcceptReveal, vars, rounds
<1> QED
  BY <1>2, <1>3, <1>4, <1>5, <1>7, <1>8, <1>9 DEF Next, Tick

\* A pass keeps the verdict on every target already on record, and records one
\* for every target it answered.
LEMMA PassTargets ==
    ASSUME TypeOK, NEW r \in Rounds, NEW z \in Horizons,
           NEW answered \in SUBSET Unresolved(r, z), NEW resolved \in SUBSET answered,
           NEW good, PassWrites(r, z, answered, resolved, good),
           NEW q \in Rounds, NEW c \in Coordinates
    PROVE  /\ targets[q][c] # "none" => targets'[q][c] = targets[q][c]
           /\ q # r \/ c \notin answered => targets'[q][c] = targets[q][c]
           /\ c \in answered =>
                /\ targets[r][c] = "none" /\ targets'[r][c] # "none"
                /\ targets'[r][c] = "resolved" <=> c \in resolved
BY DEF PassWrites, Unresolved, TypeOK

LEMMA ResolvedNext ==
    ASSUME TypeOK, ResolvingIsRevealed, ResolvedIsRevealed, [Next]_vars
    PROVE  ResolvedIsRevealed'
<1> SUFFICES ASSUME NEW r \in Rounds, stage'[r] \in {"absent", "open"}
             PROVE  marked'[r] = {} /\ \A c \in Coordinates : targets'[r][c] = "none"
  BY DEF ResolvedIsRevealed
<1>1. stage[r] \in {"absent", "open"}
  BY StageSteps DEF TypeOK
<1>2. marked[r] = {} /\ \A c \in Coordinates : targets[r][c] = "none"
  BY <1>1 DEF ResolvedIsRevealed
<1>3. ASSUME NEW q \in Rounds, NEW z \in Horizons, ResolveAndScore(q, z)
      PROVE  marked'[r] = marked[r] /\ targets'[r] = targets[r]
  <2>1. q # r
    BY <1>1, <1>3, PassParts
  <2>2. PICK answered, resolved, good : PassWrites(q, z, answered, resolved, good)
    BY <1>3, PassParts
  <2> QED
    BY <1>3, <2>1, <2>2 DEF PassWrites, TypeOK
<1> QED
  BY <1>2, <1>3, Frame

LEMMA HistoryNext ==
    ASSUME TypeOK, ResolvingIsRevealed, ResolvedIsRevealed, HistoryFollowsTargets,
           [Next]_vars
    PROVE  HistoryFollowsTargets'
<1>1. ASSUME NEW r \in Rounds, NEW z \in Horizons, ResolveAndScore(r, z)
      PROVE  HistoryFollowsTargets'
  <2>1. PICK answered \in SUBSET Unresolved(r, z) :
        \E resolved \in SUBSET answered, good \in SUBSET accepted[r] :
          PassWrites(r, z, answered, resolved, good)
    BY <1>1, PassParts
  <2>2. PICK resolved \in SUBSET answered, good \in SUBSET accepted[r] :
          PassWrites(r, z, answered, resolved, good)
    BY <2>1
  <2>3. accepted' = accepted
    BY <1>1, PassParts DEF rounds
  <2>4. SUFFICES ASSUME NEW q \in Rounds, NEW c \in Coordinates
        PROVE /\ targets'[q][c] = "resolved" => accepted[q] \X {c} \subseteq history'[q]
              /\ \A h \in Hotkeys : <<h, c>> \in history'[q] => targets'[q][c] = "resolved"
    BY <2>3 DEF HistoryFollowsTargets
  <2>5. /\ history[q] \subseteq history'[q]
        /\ q # r \/ c \notin resolved =>
             \A h \in Hotkeys : <<h, c>> \in history'[q] => <<h, c>> \in history[q]
        /\ c \in resolved => ScoringSet(r) \X {c} \subseteq history'[r]
    BY <2>2 DEF PassWrites, TypeOK
  <2>6. accepted[r] \subseteq ScoringSet(r)
    BY DEF ScoringSet
  <2>7. /\ targets[q][c] = "resolved" => accepted[q] \X {c} \subseteq history[q]
        /\ \A h \in Hotkeys : <<h, c>> \in history[q] => targets[q][c] = "resolved"
    BY DEF HistoryFollowsTargets
  <2>8. /\ targets[q][c] # "none" => targets'[q][c] = targets[q][c]
        /\ q # r \/ c \notin answered => targets'[q][c] = targets[q][c]
        /\ c \in answered => (targets'[r][c] = "resolved" <=> c \in resolved)
    BY <1>1, <2>2, PassTargets
  <2>9. CASE q = r /\ c \in resolved
    <3>1. accepted[q] \X {c} \subseteq history'[q]
      BY <2>5, <2>6, <2>9
    <3>2. targets'[q][c] = "resolved"
      BY <2>8, <2>9
    <3> QED
      BY <3>1, <3>2
  <2>10. CASE ~(q = r /\ c \in resolved)
    <3>1. targets'[q][c] = "resolved" => targets[q][c] = "resolved"
      BY <2>8, <2>10
    <3>2. \A h \in Hotkeys : <<h, c>> \in history'[q] => targets[q][c] = "resolved"
      BY <2>5, <2>7, <2>10
    <3> QED
      BY <2>5, <2>7, <2>8, <3>1, <3>2
  <2> QED
    BY <2>9, <2>10
<1>2. ASSUME \A r \in Rounds, z \in Horizons : ~ResolveAndScore(r, z)
      PROVE  HistoryFollowsTargets'
  <2>1. UNCHANGED <<targets, history>>
    BY <1>2, Frame
  <2>2. \A r \in Rounds, c \in Coordinates :
          targets[r][c] = "resolved" => accepted'[r] = accepted[r]
    BY StageSteps DEF ResolvedIsRevealed, TypeOK
  <2> QED
    BY <2>1, <2>2 DEF HistoryFollowsTargets
<1> QED
  BY <1>1, <1>2

LEMMA WorthNext ==
    ASSUME TypeOK, ResolvingIsRevealed, UnobservedIsWorthless, [Next]_vars
    PROVE  UnobservedIsWorthless'
<1>1. ASSUME NEW r \in Rounds, NEW z \in Horizons, ResolveAndScore(r, z)
      PROVE  UnobservedIsWorthless'
  <2>1. PICK resolved, good :
          ema' = Pruned(Scored(r, resolved, good),
                        FullyDecayed(r, resolved, Scored(r, resolved, good)))
    BY <1>1, PassParts DEF PassWrites
  <2>2. SUFFICES ASSUME NEW h \in Hotkeys, NEW c \in Coordinates
        PROVE  ema'[h][c].resolved = 0 => ema'[h][c].level = 0
    BY DEF UnobservedIsWorthless
  <2>3. /\ ema[h][c] \in Ema
        /\ \/ ema'[h][c] = NoEma
           \/ ema'[h][c] = Observe(ema[h][c], h \in good)
           \/ ema'[h][c] = ema[h][c]
    BY <2>1, PassEma
  <2>4. Observe(ema[h][c], h \in good).resolved # 0
    BY <2>3, ObserveTypes
  <2> QED
    BY <2>3, <2>4 DEF UnobservedIsWorthless, NoEma
<1>2. ASSUME NEW z \in Horizons, ArchiveHorizon(z) PROVE UnobservedIsWorthless'
  <2>1. \A h \in Hotkeys, c \in Coordinates :
          ema'[h][c] = NoEma \/ ema'[h][c] = ema[h][c]
    BY <1>2 DEF ArchiveHorizon, ArchivedEma
  <2> QED
    BY <2>1 DEF UnobservedIsWorthless, NoEma
<1>3. CASE ema' = ema
  BY <1>3 DEF UnobservedIsWorthless
<1> QED
  BY <1>1, <1>2, <1>3, Frame

LEMMA MarkedNext ==
    ASSUME TypeOK, ResolvingIsRevealed, MarkedIsScored, HistoryFollowsTargets',
           [Next]_vars
    PROVE  MarkedIsScored'
<1>1. ASSUME NEW r \in Rounds, NEW z \in Horizons, NEW q \in Rounds,
             NEW y \in marked'[q], NEW c \in Expected(q, y), ResolveAndScore(r, z)
      PROVE  targets'[q][c] # "none"
  <2>1. PICK answered \in SUBSET Unresolved(r, z) :
        \E resolved \in SUBSET answered, good \in SUBSET accepted[r] :
          PassWrites(r, z, answered, resolved, good)
    BY <1>1, PassParts
  <2>2. PICK resolved \in SUBSET answered, good \in SUBSET accepted[r] :
          PassWrites(r, z, answered, resolved, good)
    BY <2>1
  <2>3. y \in marked[q] \/ (q = r /\ y = z /\ Unresolved(r, z) \subseteq answered)
    BY <2>2 DEF PassWrites, TypeOK, Complete
  <2>4. c \in Coordinates
    <3>1. y \in Horizons
      BY <1>1, <2>3 DEF TypeOK
    <3> QED
      BY <1>1, <3>1, ExpectedCoordinates
  <2>5. CASE y \in marked[q]
    <3>1. targets[q][c] # "none"
      BY <2>5 DEF MarkedIsScored
    <3>2. targets'[q][c] = targets[q][c]
      BY <1>1, <2>2, <2>4, <3>1, PassTargets
    <3> QED
      BY <3>1, <3>2
  <2>6. CASE q = r /\ y = z /\ Unresolved(r, z) \subseteq answered
    <3>1. targets[r][c] # "none" \/ c \in answered
      BY <2>6 DEF Unresolved
    <3>2. targets[q][c] # "none" => targets'[q][c] = targets[q][c]
      BY <1>1, <2>2, <2>4, PassTargets
    <3>3. c \in answered => targets'[r][c] # "none"
      BY <1>1, <2>2, <2>4, PassTargets
    <3> QED
      BY <2>6, <3>1, <3>2, <3>3
  <2> QED
    BY <2>3, <2>5, <2>6
<1>2. ASSUME \A r \in Rounds, z \in Horizons : ~ResolveAndScore(r, z),
             NEW q \in Rounds, NEW y \in marked'[q], NEW c \in Expected(q, y)
      PROVE  targets'[q][c] # "none"
  BY <1>2, Frame DEF MarkedIsScored
<1>3. ASSUME NEW q \in Rounds, NEW y \in marked'[q], NEW c \in Expected(q, y)
      PROVE  c \in Coordinates
  <2>1. y \in Horizons
    BY <1>3, TypeNext DEF TypeOK
  <2> QED
    BY <1>3, <2>1, ExpectedCoordinates
<1>4. \A q \in Rounds : \A y \in marked'[q] : \A c \in Expected(q, y) :
        targets'[q][c] # "none" /\ c \in Coordinates
  BY <1>1, <1>2, <1>3
<1> QED
  BY <1>4 DEF MarkedIsScored, HistoryFollowsTargets, Expected

LEMMA ChargeNext ==
    ASSUME TypeOK, ResolvingIsRevealed, NoRetroactiveCharge, [Next]_vars
    PROVE  NoRetroactiveCharge'
<1>1. \A r \in Rounds : accepted[r] \subseteq accepted'[r]
  BY StageSteps
<1>2. ASSUME NEW r \in Rounds, NEW z \in Horizons, ResolveAndScore(r, z),
             NEW q \in Rounds, NEW row \in history'[q]
      PROVE  \E p \in Rounds : p <= q /\ row[1] \in accepted[p]
  <2>1. PICK answered, resolved, good : PassWrites(r, z, answered, resolved, good)
    BY <1>2, PassParts
  <2>2. row \in history[q] \/ (q = r /\ row \in ScoringSet(r) \X resolved)
    BY <1>2, <2>1 DEF PassWrites, TypeOK
  <2>3. CASE row \in history[q]
    BY <2>3 DEF NoRetroactiveCharge
  <2>4. CASE q = r /\ row \in ScoringSet(r) \X resolved
    BY <1>2, <2>4, ScoringSetEligible DEF EligibleFor
  <2> QED
    BY <2>2, <2>3, <2>4
<1>3. ASSUME \A r \in Rounds, z \in Horizons : ~ResolveAndScore(r, z)
      PROVE  NoRetroactiveCharge'
  BY <1>1, <1>3, Frame DEF NoRetroactiveCharge
<1>4. ASSUME NEW r \in Rounds, NEW z \in Horizons, ResolveAndScore(r, z)
      PROVE  NoRetroactiveCharge'
  BY <1>1, <1>2, <1>4 DEF NoRetroactiveCharge
<1> QED
  BY <1>3, <1>4

\* The rounds that scored a coordinate of a miner.
ScoredIn(h, c) == {r \in Rounds : <<h, c>> \in history[r]}

LEMMA RoundSets ==
    ASSUME NEW S \in SUBSET Rounds
    PROVE  IsFiniteSet(S) /\ Cardinality(S) \in Nat
<1>1. IsFiniteSet(Rounds)
  BY ScoringAssumption, FS_Interval DEF Rounds
<1>2. IsFiniteSet(S)
  BY <1>1, FS_Subset
<1> QED
  BY <1>2, FS_CardinalityType

LEMMA CountNext ==
    ASSUME TypeOK, ResolvingIsRevealed, HistoryFollowsTargets, CountsDistinctRounds,
           [Next]_vars
    PROVE  CountsDistinctRounds'
<1> SUFFICES ASSUME NEW h \in Hotkeys, NEW c \in Coordinates
             PROVE  ema'[h][c].resolved <= Cardinality(ScoredIn(h, c)')
  BY DEF CountsDistinctRounds, ScoredIn
<1>1. ema[h][c].resolved <= Cardinality(ScoredIn(h, c))
  BY DEF CountsDistinctRounds, ScoredIn
<1>2. /\ IsFiniteSet(ScoredIn(h, c)) /\ Cardinality(ScoredIn(h, c)) \in Nat
      /\ IsFiniteSet(ScoredIn(h, c)') /\ Cardinality(ScoredIn(h, c)') \in Nat
  BY RoundSets DEF ScoredIn
<1>3. ema[h][c].resolved \in Nat
  BY DEF TypeOK
<1>4. CASE ema'[h][c] = NoEma
  BY <1>2, <1>4 DEF NoEma
<1>5. CASE ema'[h][c] = ema[h][c] /\ ScoredIn(h, c) \subseteq ScoredIn(h, c)'
  <2>1. Cardinality(ScoredIn(h, c)) <= Cardinality(ScoredIn(h, c)')
    BY <1>2, <1>5, FS_Subset
  <2> QED
    BY <1>1, <1>2, <1>3, <1>5, <2>1
<1>6. ASSUME NEW r \in Rounds, NEW z \in Horizons, ResolveAndScore(r, z)
      PROVE  ema'[h][c].resolved <= Cardinality(ScoredIn(h, c)')
  <2>1. PICK answered \in SUBSET Unresolved(r, z) :
        \E resolved \in SUBSET answered, good \in SUBSET accepted[r] :
          PassWrites(r, z, answered, resolved, good)
    BY <1>6, PassParts
  <2>2. PICK resolved \in SUBSET answered, good \in SUBSET accepted[r] :
          PassWrites(r, z, answered, resolved, good)
    BY <2>1
  <2>3. \A q \in Rounds : history[q] \subseteq history'[q]
    BY <2>2 DEF PassWrites, TypeOK
  <2>4. ScoredIn(h, c) \subseteq ScoredIn(h, c)'
    BY <2>3 DEF ScoredIn
  <2>5. /\ ema[h][c] \in Ema
        /\ \/ ema'[h][c] = NoEma
           \/ /\ h \in ScoringSet(r) /\ c \in resolved
              /\ ema'[h][c] = Observe(ema[h][c], h \in good)
           \/ ema'[h][c] = ema[h][c]
    BY <1>6, <2>2, PassEma DEF PassWrites
  <2>6. ASSUME h \in ScoringSet(r), c \in resolved,
               ema'[h][c] = Observe(ema[h][c], h \in good)
        PROVE  ema'[h][c].resolved <= Cardinality(ScoredIn(h, c)')
    <3>1. targets[r][c] = "none"
      BY <2>6 DEF Unresolved
    <3>2. r \notin ScoredIn(h, c)
      BY <3>1 DEF ScoredIn, HistoryFollowsTargets
    <3>3. <<h, c>> \in history'[r]
      BY <1>6, <2>2, <2>6 DEF PassWrites, TypeOK
    <3>4. ScoredIn(h, c) \union {r} \subseteq ScoredIn(h, c)'
      BY <1>6, <2>4, <3>3 DEF ScoredIn
    <3>5. Cardinality(ScoredIn(h, c) \union {r}) = Cardinality(ScoredIn(h, c)) + 1
      BY <1>2, <3>2, FS_AddElement
    <3>6. Cardinality(ScoredIn(h, c) \union {r}) <= Cardinality(ScoredIn(h, c)')
      BY <1>2, <3>4, FS_Subset
    <3>7. ema'[h][c].resolved = ema[h][c].resolved + 1
      BY <2>5, <2>6, ObserveTypes
    <3> QED
      BY <1>1, <1>2, <1>3, <3>5, <3>6, <3>7
  <2> QED
    BY <1>4, <1>5, <2>4, <2>5, <2>6
<1>7. ASSUME \A r \in Rounds, z \in Horizons : ~ResolveAndScore(r, z)
      PROVE  ema'[h][c].resolved <= Cardinality(ScoredIn(h, c)')
  <2>1. ScoredIn(h, c)' = ScoredIn(h, c)
    BY <1>7, Frame DEF ScoredIn
  <2>2. ema'[h][c] = NoEma \/ ema'[h][c] = ema[h][c]
    <3>1. ASSUME NEW z \in Horizons, ArchiveHorizon(z)
          PROVE  ema'[h][c] = NoEma \/ ema'[h][c] = ema[h][c]
      BY <3>1 DEF ArchiveHorizon, ArchivedEma
    <3> QED
      BY <1>7, <3>1, Frame
  <2> QED
    BY <1>4, <1>5, <2>1, <2>2
<1> QED
  BY <1>6, <1>7

-----------------------------------------------------------------------------
(***************************************************************************)
(* The theorems.                                                           *)
(***************************************************************************)
\* The initial state.
LEMMA InvInit == Init => ScoringInv
<1> SUFFICES ASSUME Init PROVE ScoringInv
  OBVIOUS
<1>1. TypeOK
  BY TypeInit
<1>2. ResolvingIsRevealed /\ ResolvedIsRevealed /\ HistoryFollowsTargets
      /\ UnobservedIsWorthless /\ MarkedIsScored /\ NoRetroactiveCharge
  BY DEF Init, ResolvingIsRevealed, ResolvedIsRevealed, HistoryFollowsTargets,
         UnobservedIsWorthless, MarkedIsScored, NoRetroactiveCharge, NoTick, NoEma
<1>3. CountsDistinctRounds
  <2>1. \A h \in Hotkeys, c \in Coordinates : ema[h][c].resolved = 0
    BY DEF Init, NoEma
  <2>2. \A h \in Hotkeys, c \in Coordinates :
          Cardinality({r \in Rounds : <<h, c>> \in history[r]}) \in Nat
    BY RoundSets
  <2> QED
    BY <2>1, <2>2 DEF CountsDistinctRounds
<1> QED
  BY <1>1, <1>2, <1>3 DEF ScoringInv

\* Every step keeps the invariant.
LEMMA InvNext == ScoringInv /\ [Next]_vars => ScoringInv'
<1> SUFFICES ASSUME ScoringInv, [Next]_vars PROVE ScoringInv'
  OBVIOUS
<1>1. TypeOK' /\ ResolvingIsRevealed' /\ ResolvedIsRevealed'
  BY TypeNext, ResolvingNext, ResolvedNext DEF ScoringInv
<1>2. HistoryFollowsTargets' /\ UnobservedIsWorthless'
  BY HistoryNext, WorthNext DEF ScoringInv
<1>3. MarkedIsScored' /\ NoRetroactiveCharge' /\ CountsDistinctRounds'
  BY <1>2, MarkedNext, ChargeNext, CountNext DEF ScoringInv
<1> QED
  BY <1>1, <1>2, <1>3 DEF ScoringInv

\* The inductive invariant: accepted sets are final before anything resolves, and
\* history, targets, markers and resolved_rounds tell one story.
THEOREM ScoringInvariant == Spec => []ScoringInv
BY InvInit, InvNext, PTL DEF Spec

\* Type correctness of the scoring tables, the tracker and the tick.
THEOREM TypeCorrect == Spec => []TypeOK
<1>1. ScoringInv => TypeOK
  BY DEF ScoringInv
<1> QED
  BY <1>1, ScoringInvariant, PTL

\* A marked horizon is fully resolved, and all its accepted forecasts are scored.
THEOREM MarkersAreComplete == Spec => []MarkedIsScored
<1>1. ScoringInv => MarkedIsScored
  BY DEF ScoringInv
<1> QED
  BY <1>1, ScoringInvariant, PTL

\* No miner is charged for a round before its first accepted forecast.
THEOREM ChargesAreNotRetroactive == Spec => []NoRetroactiveCharge
<1>1. ScoringInv => NoRetroactiveCharge
  BY DEF ScoringInv
<1> QED
  BY <1>1, ScoringInvariant, PTL

\* No EMA observes a round twice.
THEOREM RoundsCountOnce == Spec => []CountsDistinctRounds
<1>1. ScoringInv => CountsDistinctRounds
  BY DEF ScoringInv
<1> QED
  BY <1>1, ScoringInvariant, PTL

\* A score is not kept by staying away.
THEOREM AbsenceCosts == Spec => AbsenceIsCharged
<1> DEFINE Charged ==
      \A r \in Rounds, c \in Coordinates :
         targets[r][c] = "none" /\ targets'[r][c] = "resolved" =>
           \A h \in Hotkeys \ accepted[r] :
             ema[h][c].level > 0 /\ (\E q \in Rounds : q < r /\ h \in accepted[q])
               => ema'[h][c].level < ema[h][c].level
<1>1. ScoringInv /\ [Next]_vars => [Charged]_vars
  <2> SUFFICES ASSUME ScoringInv, [Next]_vars,
               NEW r \in Rounds, NEW c \in Coordinates,
               targets[r][c] = "none", targets'[r][c] = "resolved",
               NEW h \in Hotkeys \ accepted[r], ema[h][c].level > 0,
               NEW q \in Rounds, q < r, h \in accepted[q]
               PROVE  ema'[h][c].level < ema[h][c].level
    OBVIOUS
  <2>1. TypeOK /\ ResolvingIsRevealed /\ UnobservedIsWorthless
    BY DEF ScoringInv
  <2>2. PICK p \in Rounds, z \in Horizons : ResolveAndScore(p, z)
    BY Frame
  <2>3. PICK answered \in SUBSET Unresolved(p, z) :
        \E resolved \in SUBSET answered, good \in SUBSET accepted[p] :
          PassWrites(p, z, answered, resolved, good)
    BY <2>1, <2>2, PassParts
  <2>4. PICK resolved \in SUBSET answered, good \in SUBSET accepted[p] :
          PassWrites(p, z, answered, resolved, good)
    BY <2>3
  <2>5. p = r /\ c \in resolved
    BY <2>1, <2>4 DEF PassWrites, TypeOK
  <2>6. HasEma(h, c)
    BY <2>1 DEF HasEma, UnobservedIsWorthless, TypeOK
  <2>7. c \in Universe[r] \X Horizons
    BY <2>5, ExpectedCoordinates DEF Unresolved
  <2>8. h \in ScoringSet(r)
    <3>1. q <= r
      BY ScoringAssumption DEF Rounds
    <3> QED
      BY <2>6, <2>7, <3>1 DEF ScoringSet, PreviouslyActive, EligibleFor
  <2>9. h \notin good
    BY <2>5
  <2>10. /\ ema[h][c] \in Ema
         /\ ema'[h][c] = NoEma \/ ema'[h][c] = Observe(ema[h][c], h \in good)
    BY <2>1, <2>4, <2>5, <2>8, PassEma DEF PassWrites
  <2>11. Observe(ema[h][c], h \in good).level = ema[h][c].level - 1
    BY <2>9, <2>10, ObserveTypes
  <2> QED
    BY <2>10, <2>11 DEF NoEma, Ema
<1> QED
  BY <1>1, ScoringInvariant, PTL DEF Spec, AbsenceIsCharged

\* Archival takes no EMA a forecast still waiting for its target would continue.
THEOREM ArchivalWaits == Spec => ArchivedOwesNothing
<1> DEFINE Waits ==
      tick.pc = "archive" =>
         \A h \in Hotkeys, c \in Coordinates :
           HasEma(h, c) /\ ~HasEma(h, c)' =>
             \A r \in Unfinished :
               h \in accepted[r] /\ c \in Expected(r, c[2]) => targets[r][c] # "none"
<1>1. ScoringInv /\ [Next]_vars => [Waits]_vars
  <2> SUFFICES ASSUME ScoringInv, [Next]_vars, tick.pc = "archive",
               NEW h \in Hotkeys, NEW c \in Coordinates,
               HasEma(h, c), ~HasEma(h, c)',
               NEW r \in Unfinished, c \in Expected(r, c[2])
               PROVE  targets[r][c] # "none"
    OBVIOUS
  <2>1. \A q \in Rounds, z \in Horizons : ~ResolveAndScore(q, z)
    BY DEF ResolveAndScore, DueHorizon, NextHorizon
  <2>2. ema'[h][c] # ema[h][c]
    BY DEF HasEma
  <2>3. PICK z \in Horizons : ArchiveHorizon(z)
    BY <2>1, <2>2, Frame
  <2>4. HorizonSettled(z) /\ c[2] = z
    BY <2>2, <2>3 DEF ArchiveHorizon, ArchivedEma
  <2>5. c[2] \in marked[r] /\ r \in Rounds
    BY <2>4 DEF HorizonSettled, Unfinished
  <2> QED
    BY <2>5 DEF ScoringInv, MarkedIsScored
<1> QED
  BY <1>1, ScoringInvariant, PTL DEF Spec, ArchivedOwesNothing

-----------------------------------------------------------------------------
(***************************************************************************)
(* MarketData.  The boundaries of a window.                                *)
(***************************************************************************)
\* A set of naturals has a least element.
LEMMA LeastOf ==
    ASSUME NEW S \in SUBSET Nat, S # {}
    PROVE  \E c \in S : \A b \in S : c <= b
<1>1. PICK c \in S : \A b \in S : <<b, c>> \notin OpToRel(<, Nat)
  BY NatLessThanWellFounded, WFMin
<1>2. \A b \in S : c <= b
  <2> SUFFICES ASSUME NEW b \in S, ~(c <= b) PROVE FALSE
    OBVIOUS
  <2>1. b \in Nat /\ c \in Nat /\ b < c
    OBVIOUS
  <2>2. <<b, c>> \in OpToRel(<, Nat)
    BY <2>1 DEF OpToRel
  <2> QED
    BY <1>1, <2>2
<1> QED
  BY <1>2

\* A later block has a later time.
LEMMA TimeGrows ==
    ASSUME NEW a \in 0 .. Height, NEW b \in 0 .. Height, a < b
    PROVE  Time[a] < Time[b]
<1> DEFINE bad == {n \in Nat : a + 1 + n <= Height /\ ~(Time[a] < Time[a + 1 + n])}
<1>1. /\ Height \in Nat /\ Time \in [0 .. Height -> Int]
      /\ \A c \in 1 .. Height : Time[c - 1] < Time[c]
  BY MarketAssumption
<1>2. bad = {}
  <2> SUFFICES ASSUME bad # {} PROVE FALSE
    OBVIOUS
  <2>1. bad \subseteq Nat
    OBVIOUS
  <2> HIDE DEF bad
  <2>2. PICK m \in bad : \A n \in bad : m <= n
    BY <2>1, LeastOf
  <2>3. m \in Nat /\ a + 1 + m <= Height /\ ~(Time[a] < Time[a + 1 + m])
    BY <2>2 DEF bad
  <2>4. a + 1 + m \in 1 .. Height /\ Time[(a + 1 + m) - 1] < Time[a + 1 + m]
    BY <1>1, <2>3
  <2>5. CASE m = 0
    BY <1>1, <2>3, <2>4, <2>5
  <2>6. CASE m # 0
    <3>1. m - 1 \in Nat /\ m - 1 < m /\ a + 1 + (m - 1) = (a + 1 + m) - 1
          /\ a + 1 + (m - 1) <= Height
      BY <1>1, <2>3, <2>6
    <3>2. m - 1 \notin bad
      BY <2>2, <2>3, <3>1
    <3>3. Time[a] < Time[a + 1 + (m - 1)]
      BY <3>1, <3>2 DEF bad
    <3>4. Time[a] < Time[(a + 1 + m) - 1]
      BY <3>1, <3>3
    <3>5. /\ (a + 1 + m) - 1 \in 0 .. Height /\ a + 1 + m \in 0 .. Height
          /\ Time[a] \in Int /\ Time[(a + 1 + m) - 1] \in Int /\ Time[a + 1 + m] \in Int
      BY <1>1, <2>3, <2>4
    <3> HIDE DEF bad
    <3> QED
      BY <2>3, <2>4, <3>4, <3>5
  <2> QED
    BY <2>5, <2>6
<1>3. b - a - 1 \in Nat /\ a + 1 + (b - a - 1) = b
  BY <1>1
<1>4. b - a - 1 \notin bad
  BY <1>2
<1> QED
  BY <1>1, <1>3, <1>4

\* The least and the largest of a set are the ones no other is below, or above.
LEMMA MinIsLeast ==
    ASSUME NEW S \in SUBSET Int, NEW x \in S, \A y \in S : x <= y
    PROVE  Min(S) = x
<1>1. \A z \in S : (\A y \in S : z =< y) => z = x
  BY SMT
<1> QED
  BY <1>1 DEF Min

LEMMA MaxIsLargest ==
    ASSUME NEW S \in SUBSET Int, NEW x \in S, \A y \in S : x >= y
    PROVE  Max(S) = x
<1>1. \A z \in S : (\A y \in S : z >= y) => z = x
  BY SMT
<1> QED
  BY <1>1 DEF Max

\* The bisection returns the least block of a set that, with a block, holds all later ones.
LEMMA BisectFinds ==
    ASSUME final \in 0 .. Height,
           NEW above \in SUBSET (0 .. Height), final \in above,
           \A b \in above : \A c \in 0 .. Height : b <= c => c \in above
    PROVE  /\ Bisect(above) \in above
           /\ \A b \in above : Bisect(above) <= b
<1>1. Height \in Nat
  BY MarketAssumption
<1>2. PICK cut \in above : \A b \in above : cut <= b
  <2>1. above \in SUBSET Nat /\ above # {}
    BY <1>1
  <2> QED
    BY <2>1, LeastOf
<1>3. cut \in 0 .. Height /\ cut <= final /\ \A b \in 0 .. Height : b \in above <=> cut <= b
  BY <1>2
<1> DEFINE Pairs == (0 .. Height) \X (0 .. Height)
           Step(f, r) ==
             LET mid == r[1] + (r[2] - r[1]) \div 2
             IN IF r[1] >= r[2] THEN r[1]
                ELSE IF mid \in above THEN f[<<r[1], mid>>] ELSE f[<<mid + 1, r[2]>>]
           search == CHOOSE f : f = [r \in Pairs |-> Step(f, r)]
           Found(lo, up) == IF lo >= up \/ cut <= lo THEN lo ELSE IF up <= cut THEN up ELSE cut
           found == [r \in Pairs |-> Found(r[1], r[2])]
<1>4. ASSUME NEW lo \in 0 .. Height, NEW up \in 0 .. Height, lo < up
      PROVE  LET mid == lo + (up - lo) \div 2
             IN /\ mid \in 0 .. Height /\ mid + 1 \in 0 .. Height
                /\ lo <= mid /\ mid < up
                /\ Found(lo, up) = IF mid \in above THEN Found(lo, mid) ELSE Found(mid + 1, up)
  <2> DEFINE mid == lo + (up - lo) \div 2
  <2>1. lo \in Int /\ up \in Int /\ lo >= 0 /\ up <= Height
    BY <1>1
  <2>2. mid \in Int /\ lo <= mid /\ mid < up
    BY <1>4, <2>1
  <2> HIDE DEF mid
  <2>3. mid \in 0 .. Height /\ mid + 1 \in 0 .. Height
    BY <1>1, <2>1, <2>2
  <2>4. mid \in above <=> cut <= mid
    BY <1>3, <2>3
  <2>5. cut \in Int
    BY <1>3
  <2>6. Found(lo, up) = IF mid \in above THEN Found(lo, mid) ELSE Found(mid + 1, up)
    BY <1>4, <2>1, <2>2, <2>4, <2>5
  <2> QED
    BY <2>2, <2>3, <2>6 DEF mid
<1>5. found = [r \in Pairs |-> Step(found, r)]
  <2> SUFFICES ASSUME NEW lo \in 0 .. Height, NEW up \in 0 .. Height
               PROVE  Found(lo, up) = Step(found, <<lo, up>>)
    <3> HIDE DEF Found, Step
    <3>1. \A q \in Pairs : Found(q[1], q[2]) = Step(found, q)
      <4> SUFFICES ASSUME NEW q \in Pairs PROVE Found(q[1], q[2]) = Step(found, q)
        OBVIOUS
      <4>1. q[1] \in 0 .. Height /\ q[2] \in 0 .. Height /\ q = <<q[1], q[2]>>
        OBVIOUS
      <4>2. Found(q[1], q[2]) = Step(found, <<q[1], q[2]>>)
        BY <4>1
      <4> QED
        BY <4>1, <4>2
    <3> QED
      BY <3>1
  <2> DEFINE mid == lo + (up - lo) \div 2
  <2>1. CASE ~(lo < up)
    BY <1>1, <2>1
  <2>2. CASE lo < up
    <3>1. /\ mid \in 0 .. Height /\ mid + 1 \in 0 .. Height
          /\ Found(lo, up) = IF mid \in above THEN Found(lo, mid) ELSE Found(mid + 1, up)
      BY <1>4, <2>2
    <3>2. Step(found, <<lo, up>>) = IF mid \in above THEN found[<<lo, mid>>]
                                                     ELSE found[<<mid + 1, up>>]
      <4> HIDE DEF found
      <4> QED
        BY <2>2
    <3> HIDE DEF mid
    <3>3. found[<<lo, mid>>] = Found(lo, mid) /\ found[<<mid + 1, up>>] = Found(mid + 1, up)
      <4> HIDE DEF Found
      <4> QED
        BY <3>1
    <3> QED
      BY <3>1, <3>2, <3>3
  <2> QED
    BY <2>1, <2>2
<1>6. search = [r \in Pairs |-> Step(search, r)]
  <2> HIDE DEF found, Found
  <2> QED
    BY <1>5, ZenonT(30)
<1> HIDE DEF search
<1> DEFINE bad == {n \in Nat : \E lo, up \in 0 .. Height :
                     up - lo = n /\ search[<<lo, up>>] # Found(lo, up)}
<1>7. bad = {}
  <2> SUFFICES ASSUME bad # {} PROVE FALSE
    OBVIOUS
  <2>1. bad \subseteq Nat
    OBVIOUS
  <2> HIDE DEF bad
  <2>2. PICK m \in bad : \A n \in bad : m <= n
    BY <2>1, LeastOf
  <2>3. PICK lo \in 0 .. Height, up \in 0 .. Height :
          m \in Nat /\ up - lo = m /\ search[<<lo, up>>] # Found(lo, up)
    BY <2>2 DEF bad
  <2>4. search[<<lo, up>>] = Step(search, <<lo, up>>)
    BY <1>6
  <2>5. lo < up
    <3> SUFFICES ASSUME ~(lo < up) PROVE FALSE
      OBVIOUS
    <3>1. search[<<lo, up>>] = lo
      BY <2>4
    <3> QED
      BY <2>3, <3>1
  <2> DEFINE mid == lo + (up - lo) \div 2
  <2>6. /\ mid \in 0 .. Height /\ mid + 1 \in 0 .. Height
        /\ lo <= mid /\ mid < up
        /\ Found(lo, up) = IF mid \in above THEN Found(lo, mid) ELSE Found(mid + 1, up)
    BY <1>4, <2>5
  <2>7. search[<<lo, up>>] = IF mid \in above THEN search[<<lo, mid>>] ELSE search[<<mid + 1, up>>]
    BY <2>4, <2>5
  <2> HIDE DEF mid, Found
  <2>8. mid - lo \in Nat /\ mid - lo < m /\ up - (mid + 1) \in Nat /\ up - (mid + 1) < m
    <3>1. lo \in Int /\ up \in Int /\ mid \in Int /\ up - lo = m /\ lo <= mid /\ mid < up
      BY <1>1, <2>3, <2>6
    <3> QED
      BY <3>1
  <2>9. mid - lo \notin bad /\ up - (mid + 1) \notin bad
    BY <2>2, <2>3, <2>8
  <2>10. search[<<lo, mid>>] = Found(lo, mid)
    BY <2>6, <2>8, <2>9 DEF bad
  <2>11. search[<<mid + 1, up>>] = Found(mid + 1, up)
    BY <2>6, <2>8, <2>9 DEF bad
  <2> QED
    BY <2>3, <2>6, <2>7, <2>10, <2>11
<1>8. 0 \in 0 .. Height /\ final - 0 = final /\ final \in Nat
  BY <1>1
<1>9. search[<<0, final>>] = Found(0, final)
  <2> HIDE DEF Found
  <2> QED
    BY <1>7, <1>8
<1>10. search[<<0, final>>] = cut
  BY <1>1, <1>3, <1>9
<1>11. Bisect(above) = search[<<0, final>>]
  BY DEF Bisect, search
<1> QED
  BY <1>2, <1>10, <1>11

\* A boundary that is found is the window's, wherever finality was when it was read.
LEMMA StartIsTrue ==
    ASSUME final \in 0 .. Height,
           FirstAtOrAfter(RevealClose) # NoBlock
    PROVE  /\ FirstAtOrAfter(RevealClose) = TrueStart
           /\ FirstAtOrAfter(RevealClose) \in 0 .. Height
<1>1. Height \in Nat /\ Time \in [0 .. Height -> Int] /\ RevealClose \in Int
  BY MarketAssumption
<1> DEFINE due == {b \in 0 .. Height : Time[b] >= RevealClose}
           found == FirstAtOrAfter(RevealClose)
<1>2. \A b, c \in 0 .. Height : b <= c => Time[b] <= Time[c]
  <2> SUFFICES ASSUME NEW b \in 0 .. Height, NEW c \in 0 .. Height, b <= c, b # c
               PROVE  Time[b] <= Time[c]
    BY <1>1
  <2>1. b < c
    BY <1>1
  <2>2. Time[b] < Time[c]
    BY <2>1, TimeGrows
  <2> QED
    BY <1>1, <2>2
<1>3. found \in due /\ \A b \in due : found <= b
  <2>1. Time[final] >= RevealClose
    BY <1>1 DEF FirstAtOrAfter
  <2>2. CASE Time[final] = RevealClose
    <3>1. found = final
      BY <1>1, <2>2 DEF FirstAtOrAfter
    <3>2. ASSUME NEW b \in due PROVE final <= b
      <4>1. CASE b < final
        BY <1>1, <2>2, <4>1, TimeGrows
      <4> QED
        BY <1>1, <4>1
    <3> QED
      BY <1>1, <2>1, <3>1, <3>2
  <2>3. CASE Time[final] # RevealClose
    <3>1. found = Bisect(due)
      BY <1>1, <2>1, <2>3 DEF FirstAtOrAfter
    <3>2. due \in SUBSET (0 .. Height) /\ final \in due
      BY <2>1
    <3>3. \A b \in due : \A c \in 0 .. Height : b <= c => c \in due
      BY <1>1, <1>2
    <3> HIDE DEF due, found
    <3> QED
      BY <3>1, <3>2, <3>3, BisectFinds
  <2> QED
    BY <2>2, <2>3
<1>4. Min(due) = found
  <2>1. due \in SUBSET Int /\ found \in due
    BY <1>3
  <2> HIDE DEF due, found
  <2> QED
    BY <1>3, <2>1, MinIsLeast
<1> QED
  BY <1>3, <1>4 DEF TrueStart

LEMMA EndIsTrue ==
    ASSUME final \in 0 .. Height,
           LastAtOrBefore(RevealClose + Horizon) # NoBlock
    PROVE  /\ LastAtOrBefore(RevealClose + Horizon) = TrueEnd
           /\ LastAtOrBefore(RevealClose + Horizon) \in 0 .. Height
<1> DEFINE end == RevealClose + Horizon
           inside == {b \in 0 .. Height : Time[b] <= end}
           after == {b \in 0 .. Height : Time[b] > end}
           found == LastAtOrBefore(end)
<1>1. Height \in Nat /\ Time \in [0 .. Height -> Int] /\ end \in Int
  BY MarketAssumption
<1> HIDE DEF end
<1>2. \A b, c \in 0 .. Height : b < c => Time[b] < Time[c]
  BY TimeGrows
<1>3. found # -1
  BY DEF NoBlock, end
<1>4. found \in inside /\ \A b \in inside : found >= b
  <2>1. Time[final] >= end
    BY <1>1, <1>3 DEF LastAtOrBefore, NoBlock
  <2>2. CASE Time[final] = end
    <3>1. found = final
      BY <1>1, <2>2 DEF LastAtOrBefore
    <3>2. ASSUME NEW b \in inside PROVE final >= b
      <4>1. CASE b > final
        BY <1>1, <1>2, <2>2, <4>1
      <4> QED
        BY <1>1, <4>1
    <3> QED
      BY <1>1, <2>2, <3>1, <3>2
  <2>3. CASE Time[final] # end
    <3>1. found = Bisect(after) - 1
      BY <1>1, <2>1, <2>3 DEF LastAtOrBefore
    <3>2. after \in SUBSET (0 .. Height) /\ final \in after
      BY <1>1, <2>1, <2>3
    <3>3. \A b \in after : \A c \in 0 .. Height : b <= c => c \in after
      <4> SUFFICES ASSUME NEW b \in after, NEW c \in 0 .. Height, b <= c, b # c
                   PROVE  Time[c] > end
        OBVIOUS
      <4>1. b < c
        BY <1>1
      <4> QED
        BY <1>1, <1>2, <4>1
    <3> DEFINE cut == Bisect(after)
    <3>4. cut \in after /\ \A b \in after : cut <= b
      <4> HIDE DEF after
      <4> QED
        BY <3>2, <3>3, BisectFinds
    <3> HIDE DEF cut
    <3>5. cut \in 0 .. Height /\ Time[cut] > end /\ found = cut - 1 /\ cut # 0
      BY <1>3, <3>1, <3>4 DEF cut
    <3>6. found \in 0 .. Height /\ found < cut
      BY <1>1, <3>5
    <3>7. found \notin after
      <4> HIDE DEF after
      <4> QED
        BY <1>1, <3>4, <3>5, <3>6
    <3>8. Time[found] <= end
      BY <1>1, <3>6, <3>7
    <3>9. ASSUME NEW b \in inside PROVE found >= b
      <4> SUFFICES ASSUME b > found PROVE FALSE
        BY <1>1, <3>6
      <4>1. b >= cut /\ b \in 0 .. Height
        BY <1>1, <3>5, <3>6
      <4>2. b = cut \/ Time[cut] < Time[b]
        BY <1>1, <1>2, <3>5, <4>1
      <4>3. Time[cut] \in Int /\ Time[b] \in Int /\ end < Time[cut]
        BY <1>1, <3>5, <4>1
      <4>4. Time[b] <= end
        BY <1>1, <4>1
      <4>5. b # cut
        BY <4>3, <4>4, <1>1
      <4>6. Time[cut] < Time[b]
        BY <4>2, <4>5
      <4> HIDE DEF inside, after
      <4> QED
        BY <1>1, <4>3, <4>4, <4>6
    <3> QED
      BY <3>6, <3>8, <3>9
  <2> QED
    BY <2>2, <2>3
<1>5. Max(inside) = found
  <2>1. inside \in SUBSET Int /\ found \in inside
    BY <1>4
  <2> HIDE DEF inside, found
  <2> QED
    BY <1>4, <2>1, MaxIsLargest
<1> QED
  BY <1>4, <1>5 DEF TrueEnd, end

-----------------------------------------------------------------------------
(***************************************************************************)
(* An increasing sequence is determined by its elements.                   *)
(***************************************************************************)
\* The cardinality of the first elements of an increasing sequence.
Increases(s, n) == \A i, j \in 1 .. n : i < j => s[i] < s[j]

LEMMA FirstElements ==
    ASSUME NEW n \in Nat, NEW s \in [1 .. n -> Int], Increases(s, n), NEW m \in 0 .. n
    PROVE  /\ IsFiniteSet({s[i] : i \in 1 .. m})
           /\ Cardinality({s[i] : i \in 1 .. m}) = m
<1> DEFINE T == {s[i] : i \in 1 .. m}
           f == [i \in 1 .. m |-> s[i]]
<1>1. m \in Nat /\ m <= n
  OBVIOUS
<1>2. \A i \in 1 .. m : i \in 1 .. n
  BY <1>1
<1>3. \A i, j \in 1 .. m : f[i] = f[j] => i = j
  <2> SUFFICES ASSUME NEW i \in 1 .. m, NEW j \in 1 .. m, s[i] = s[j], i # j PROVE FALSE
    OBVIOUS
  <2>1. i \in 1 .. n /\ j \in 1 .. n /\ (i < j \/ j < i)
    BY <1>2
  <2> QED
    BY <2>1 DEF Increases
<1>4. f \in Bijection(1 .. m, T)
  <2>1. f \in [1 .. m -> T] /\ \A t \in T : \E i \in 1 .. m : f[i] = t
    OBVIOUS
  <2> HIDE DEF f, T
  <2> QED
    BY <1>3, <2>1 DEF Bijection, Injection, Surjection, IsInjective
<1>5. ExistsBijection(1 .. m, T)
  BY <1>4 DEF ExistsBijection
<1>6. IsFiniteSet(1 .. m) /\ Cardinality(1 .. m) = m
  BY <1>1, FS_Interval
<1> QED
  BY <1>5, <1>6, FS_Bijection, FS_CountingElements

\* An increasing sequence is what Ascending makes of its elements.
LEMMA AscendingIsUnique ==
    ASSUME NEW n \in Nat, NEW s \in [1 .. n -> Int], Increases(s, n),
           NEW S, S = {s[i] : i \in 1 .. n}
    PROVE  Ascending(S) = s
<1>1. \A T : Cardinality(T) = Cardinality(T)
  BY DEF Cardinality, Cardinality
<1>2. Cardinality(S) = n
  <2>1. n \in 0 .. n
    OBVIOUS
  <2> QED
    BY <1>1, <2>1, FirstElements
<1>3. ASSUME NEW k \in 1 .. n
      PROVE  (CHOOSE b \in S : Cardinality({c \in S : c < b}) = k - 1) = s[k]
  <2>1. ASSUME NEW i \in 1 .. n PROVE Cardinality({c \in S : c < s[i]}) = i - 1
    <3>1. {c \in S : c < s[i]} = {s[j] : j \in 1 .. i - 1}
      <4>1. ASSUME NEW c \in S, c < s[i] PROVE c \in {s[j] : j \in 1 .. i - 1}
        <5>1. PICK j \in 1 .. n : c = s[j]
          OBVIOUS
        <5>2. ~(i < j) /\ i # j
          <6>1. CASE i < j
            <7>1. s[i] < s[j]
              BY <6>1 DEF Increases
            <7> QED
              BY <4>1, <5>1, <7>1
          <6>2. CASE i = j
            BY <4>1, <5>1, <6>2
          <6> QED
            BY <6>1, <6>2
        <5>3. j \in 1 .. i - 1
          BY <5>2
        <5> QED
          BY <5>1, <5>3
      <4>2. ASSUME NEW j \in 1 .. i - 1 PROVE s[j] \in S /\ s[j] < s[i]
        <5>1. j \in 1 .. n /\ j < i
          OBVIOUS
        <5> QED
          BY <5>1 DEF Increases
      <4> QED
        BY <4>1, <4>2
    <3>2. i - 1 \in 0 .. n
      OBVIOUS
    <3>3. Cardinality({s[j] : j \in 1 .. i - 1}) = i - 1
      <4> DEFINE m == i - 1
      <4>1. m \in 0 .. n
        BY <3>2
      <4> HIDE DEF m
      <4>2. Cardinality({s[j] : j \in 1 .. m}) = m
        BY <4>1, FirstElements
      <4> QED
        BY <4>2 DEF m
    <3> QED
      BY <1>1, <3>1, <3>3
  <2>2. s[k] \in S /\ Cardinality({c \in S : c < s[k]}) = k - 1
    BY <2>1
  <2>3. ASSUME NEW b \in S, Cardinality({c \in S : c < b}) = k - 1 PROVE b = s[k]
    <3>1. PICK i \in 1 .. n : b = s[i]
      OBVIOUS
    <3>2. i - 1 = k - 1
      BY <2>1, <2>3, <3>1
    <3> QED
      BY <3>1, <3>2
  <2> QED
    BY <2>2, <2>3
<1> QED
  BY <1>1, <1>2, <1>3 DEF Ascending

-----------------------------------------------------------------------------
(***************************************************************************)
(* The inductive invariant.                                                *)
(***************************************************************************)
\* The blocks a series asks for, and those of them that have a price, from the true boundaries.
TrueCanonical ==
    [k \in 1 .. (TrueEnd - TrueStart) \div CADENCE |-> TrueStart + k * CADENCE]
Priced(m) == {TrueCanonical[k] : k \in {j \in 1 .. m : HasReserves(TrueCanonical[j])}}
TrueValue(o) == Value(o, TrueBlocks, Reserves, TrueStart, TrueEnd)

\* No read was answered wrongly since the process started.
Sound == misread = {}

\* A boundary that is known is the true one.
BoundsTrue ==
    /\ final \in 0 .. Height
    /\ bounds \in Int \X Int
    /\ bounds[1] # -1 => bounds[1] = TrueStart /\ bounds[1] \in 0 .. Height
    /\ bounds[2] # -1 => bounds[2] = TrueEnd /\ bounds[2] \in 0 .. Height

BothKnown == bounds[1] # -1 /\ bounds[2] # -1

\* Where a pass is, and what it has by then.
StagesTrue ==
    /\ pc \in {"idle", "start", "end", "resolve", "head", "sample"}
    /\ pc = "end" => bounds[1] # -1
    /\ pc = "resolve" => BothKnown \/ Pending = {}
    /\ pc \in {"head", "sample"} => BothKnown
    /\ pc \in {"idle", "start", "end"} => passTargets = NoTargets

\* A series of blocks whose reserves are kept.
Cached(s) == s \in Seq(Int) /\ \A i \in 1 .. Len(s) : s[i] \in DOMAIN snapshots

\* The caches hold the reserves of blocks that have a price, and the whole series or
\* none, unless an answer was wrong.
CachesTrue ==
    /\ headCache \in Int
    /\ Sound => \A b \in DOMAIN snapshots : HasReserves(b) /\ snapshots[b] = Reserves[b]
    /\ Sound /\ series # NoSeries => series = TrueBlocks /\ Cached(series)

\* s is the priced ones of the first m canonical blocks.
Partial(s, m) ==
    /\ s \in Seq(Int) /\ Increases(s, Len(s))
    /\ {s[i] : i \in 1 .. Len(s)} = Priced(m)

Samplings == [at : Int, taken : Seq(Int), next : Nat \ {0}, gaps : Nat,
              outage : BOOLEAN, future : BOOLEAN]

\* A series without an outage, a block ahead of the cached head or a wrong answer
\* misses nothing so far.
SamplingTrue ==
    pc = "sample" =>
        /\ sampling \in Samplings
        /\ sampling.next <= Len(TrueCanonical) + 1
        /\ ~Broken(sampling) => sampling.gaps = 0
        /\ ~Broken(sampling) /\ Sound => /\ Partial(sampling.taken, sampling.next - 1)
                                         /\ Cached(sampling.taken)

TargetsTrue ==
    Sound => \A o \in DOMAIN passTargets :
        \/ passTargets[o] = None
        \/ late /\ passTargets[o] = Void
        \/ passTargets[o] = TrueValue(o)

RecordTrue ==
    \A o \in DOMAIN recorded :
        \/ ~recorded[o].sound
        \/ recorded[o].late /\ recorded[o].target = Void
        \/ recorded[o].target = TrueValue(o)

MarketInv ==
    BoundsTrue /\ StagesTrue /\ CachesTrue /\ SamplingTrue /\ TargetsTrue /\ RecordTrue

-----------------------------------------------------------------------------
(***************************************************************************)
(* Canonical blocks.                                                       *)
(***************************************************************************)
\* The multiples of a cadence in a window, and the steps of that length it has room for.
MultiplesIn(n, c) == {d \in 1 .. n : d % c = 0}
Steps(n, c) == {k * c : k \in 1 .. n \div c}

LEMMA MultiplesAreSteps ==
    ASSUME NEW n \in Int, NEW c \in Nat \ {0}
    PROVE  MultiplesIn(n, c) = Steps(n, c)
<1>1. ASSUME NEW d \in 1 .. n, d % c = 0
      PROVE  \E k \in 1 .. n \div c : d = k * c
  <2> DEFINE k == d \div c
  <2>1. k \in Int /\ k >= 1 /\ k <= n \div c /\ n \div c \in Int /\ d = k * c
    BY <1>1
  <2> HIDE DEF k
  <2>2. k \in 1 .. n \div c
    BY <2>1
  <2> QED
    BY <2>1, <2>2
<1>2. ASSUME NEW k \in 1 .. n \div c
      PROVE  k * c \in 1 .. n /\ (k * c) % c = 0
  <2>1. k \in Nat /\ k # 0 /\ k <= n \div c
    OBVIOUS
  <2>2. k * c <= n /\ (k * c) % c = 0 /\ k * c >= 1 /\ k * c \in Int
    BY <2>1
  <2> QED
    BY <2>2
<1> QED
  BY <1>1, <1>2 DEF MultiplesIn, Steps

\* With both boundaries known, the canonical blocks are the true ones, in ascending order.
LEMMA TrueCanonicalGrows ==
    ASSUME BoundsTrue, BothKnown
    PROVE  /\ CanonicalBlocks = TrueCanonical
           /\ TrueCanonical \in Seq(Int) /\ Increases(TrueCanonical, Len(TrueCanonical))
           /\ TrueStart \in Int /\ TrueEnd \in Int
<1> DEFINE n == (TrueEnd - TrueStart) \div CADENCE
<1>1. CADENCE \in Nat \ {0} /\ Height \in Nat
  BY MarketAssumption
<1>2. /\ TrueStart \in Int /\ TrueEnd \in Int
      /\ bounds[1] = TrueStart /\ bounds[2] = TrueEnd
  BY <1>1 DEF BoundsTrue, BothKnown
<1>3. n \in Int
  BY <1>1, <1>2
<1>4. TrueCanonical = [k \in 1 .. n |-> TrueStart + k * CADENCE]
  BY DEF TrueCanonical
<1>5. CanonicalBlocks = TrueCanonical
  BY <1>2 DEF CanonicalBlocks, TrueCanonical
<1> HIDE DEF n
<1>6. PICK m \in Nat : 1 .. n = 1 .. m
  <2>1. CASE n >= 0
    <3>1. n \in Nat
      BY <1>3, <2>1
    <3> QED
      BY <3>1
  <2>2. CASE n < 0
    <3>1. 1 .. n = 1 .. 0
      BY <1>3, <2>2
    <3> QED
      BY <3>1
  <2> QED
    BY <1>3, <2>1, <2>2
<1>7. \A k \in 1 .. m : TrueStart + k * CADENCE \in Int
  BY <1>1, <1>2
<1>8. /\ TrueCanonical \in [1 .. m -> Int]
      /\ \A k \in 1 .. m : TrueCanonical[k] = TrueStart + k * CADENCE
  BY <1>4, <1>6, <1>7
<1>9. TrueCanonical \in Seq(Int) /\ Len(TrueCanonical) = m
  BY <1>8
<1>10. ASSUME NEW i \in 1 .. m, NEW j \in 1 .. m, i < j
       PROVE  TrueCanonical[i] < TrueCanonical[j]
  <2>1. i * CADENCE < j * CADENCE
    BY <1>1, <1>10
  <2>2. i * CADENCE \in Int /\ j * CADENCE \in Int
    BY <1>1
  <2>3. /\ TrueCanonical[i] = TrueStart + i * CADENCE
        /\ TrueCanonical[j] = TrueStart + j * CADENCE
    BY <1>8
  <2> QED
    BY ONLY <1>2, <2>1, <2>2, <2>3
<1> QED
  BY <1>2, <1>5, <1>9, <1>10 DEF Increases

\* Those with a price are what the window contains by its definition.
LEMMA CanonicalIsWindow ==
    ASSUME BoundsTrue, BothKnown
    PROVE  Priced(Len(TrueCanonical)) =
             {b \in TrueStart + 1 .. TrueEnd :
                (b - TrueStart) % CADENCE = 0 /\ HasReserves(b)}
<1> DEFINE start == TrueStart
           end == TrueEnd
           n == (end - start) \div CADENCE
           inside == {b \in start + 1 .. end : (b - start) % CADENCE = 0 /\ HasReserves(b)}
<1>1. CADENCE \in Nat \ {0} /\ start \in Int /\ end \in Int
  BY TrueCanonicalGrows, MarketAssumption
<1>2. n \in Int
  BY <1>1
<1>3. DOMAIN TrueCanonical = 1 .. n /\ \A k \in 1 .. n : TrueCanonical[k] = start + k * CADENCE
  BY DEF TrueCanonical
<1>4. DOMAIN TrueCanonical = 1 .. Len(TrueCanonical)
  BY TrueCanonicalGrows
<1>5. Priced(Len(TrueCanonical)) =
        {TrueCanonical[k] : k \in {j \in 1 .. n : HasReserves(TrueCanonical[j])}}
  BY <1>3, <1>4 DEF Priced
<1>6. MultiplesIn(end - start, CADENCE) = Steps(end - start, CADENCE)
  BY <1>1, MultiplesAreSteps
<1>7. ASSUME NEW k \in 1 .. n, HasReserves(TrueCanonical[k])
      PROVE  TrueCanonical[k] \in inside
  <2> DEFINE d == k * CADENCE
  <2>1. d \in MultiplesIn(end - start, CADENCE)
    BY <1>6 DEF Steps
  <2>2. TrueCanonical[k] = start + d
    BY <1>3
  <2> HIDE DEF d
  <2>3. start + d \in start + 1 .. end /\ (start + d) - start = d /\ d % CADENCE = 0
    BY <1>1, <2>1 DEF MultiplesIn
  <2> QED
    BY <1>7, <2>2, <2>3
<1>8. ASSUME NEW b \in inside
      PROVE  \E k \in 1 .. n : TrueCanonical[k] = b
  <2> DEFINE d == b - start
  <2>1. d \in MultiplesIn(end - start, CADENCE)
    BY <1>1 DEF MultiplesIn
  <2>2. PICK k \in 1 .. n : d = k * CADENCE
    BY <1>6, <2>1 DEF Steps
  <2>3. start + d = b
    BY <1>1
  <2>4. TrueCanonical[k] = start + d
    <3> HIDE DEF d
    <3> QED
      BY <1>3, <2>2
  <2> QED
    BY <2>3, <2>4
<1> QED
  BY <1>5, <1>7, <1>8

\* What a series without gaps took is the window's, whole.
LEMMA WholeSeries ==
    ASSUME BoundsTrue, BothKnown, NEW s, Partial(s, Len(TrueCanonical))
    PROVE  s = TrueBlocks
<1>1. Len(s) \in Nat /\ s \in [1 .. Len(s) -> Int] /\ Increases(s, Len(s))
  BY DEF Partial
<1>2. Priced(Len(TrueCanonical)) = {s[i] : i \in 1 .. Len(s)}
  BY DEF Partial
<1>3. Ascending(Priced(Len(TrueCanonical))) = s
  BY <1>1, <1>2, AscendingIsUnique
<1> QED
  BY <1>3, CanonicalIsWindow DEF TrueBlocks

\* One canonical block more.
LEMMA PartialGrows ==
    ASSUME TrueCanonical \in Seq(Int), Increases(TrueCanonical, Len(TrueCanonical)),
           NEW m \in Nat, m + 1 <= Len(TrueCanonical), NEW s, Partial(s, m)
    PROVE  IF HasReserves(TrueCanonical[m + 1])
           THEN Partial(Append(s, TrueCanonical[m + 1]), m + 1)
           ELSE Partial(s, m + 1)
<1> DEFINE b == TrueCanonical[m + 1]
           t == Append(s, b)
<1>1. s \in Seq(Int) /\ Increases(s, Len(s)) /\ {s[i] : i \in 1 .. Len(s)} = Priced(m)
  BY DEF Partial
<1>2. m + 1 \in 1 .. Len(TrueCanonical) /\ b \in Int
  OBVIOUS
<1>3. \A j \in 1 .. m + 1 : j \in 1 .. m \/ j = m + 1
  OBVIOUS
<1>4. Priced(m + 1) = Priced(m) \cup {c \in {b} : HasReserves(b)}
  <2>1. \A j \in 1 .. m : j \in 1 .. m + 1
    OBVIOUS
  <2>2. m + 1 \in 1 .. m + 1
    OBVIOUS
  <2> QED
    BY <1>3, <2>1, <2>2 DEF Priced
<1>5. CASE ~HasReserves(b)
  BY <1>1, <1>4, <1>5 DEF Partial
<1>6. CASE HasReserves(b)
  <2>1. t \in Seq(Int) /\ Len(t) = Len(s) + 1 /\ t[Len(s) + 1] = b
        /\ \A i \in 1 .. Len(s) : t[i] = s[i]
    BY <1>1, <1>2
  <2>2. ASSUME NEW i \in 1 .. Len(s) PROVE s[i] \in Int /\ s[i] < b
    <3>1. s[i] \in Priced(m)
      BY <1>1
    <3>2. PICK j \in 1 .. m : s[i] = TrueCanonical[j]
      BY <3>1 DEF Priced
    <3>3. j \in 1 .. Len(TrueCanonical) /\ j < m + 1
      OBVIOUS
    <3> QED
      BY <1>2, <3>2, <3>3 DEF Increases
  <2>3. Increases(t, Len(t))
    <3> SUFFICES ASSUME NEW i \in 1 .. Len(s) + 1, NEW j \in 1 .. Len(s) + 1, i < j
                 PROVE  t[i] < t[j]
      BY <2>1 DEF Increases
    <3> HIDE DEF t, b
    <3>0. Len(s) \in Nat
      BY <1>1
    <3>1. i \in 1 .. Len(s)
      BY <3>0
    <3>2. CASE j \in 1 .. Len(s)
      BY <1>1, <2>1, <3>1, <3>2 DEF Increases
    <3>3. CASE j = Len(s) + 1
      BY <2>1, <2>2, <3>1, <3>3
    <3>4. j \in 1 .. Len(s) \/ j = Len(s) + 1
      BY <3>0
    <3> QED
      BY <3>2, <3>3, <3>4
  <2>4. {t[i] : i \in 1 .. Len(t)} = {s[i] : i \in 1 .. Len(s)} \cup {b}
    <3>1. \A i \in 1 .. Len(s) + 1 : i \in 1 .. Len(s) \/ i = Len(s) + 1
      BY <1>1
    <3>2. \A i \in 1 .. Len(s) : i \in 1 .. Len(s) + 1
      BY <1>1
    <3>3. Len(s) + 1 \in 1 .. Len(s) + 1
      BY <1>1
    <3> HIDE DEF t, b
    <3> QED
      BY <2>1, <3>1, <3>2, <3>3
  <2>5. {t[i] : i \in 1 .. Len(t)} = Priced(m + 1)
    BY <1>1, <1>4, <1>6, <2>4
  <2> QED
    BY <1>6, <2>1, <2>3, <2>5 DEF Partial
<1> QED
  BY <1>5, <1>6

-----------------------------------------------------------------------------
(***************************************************************************)
(* What is made of a series depends on the reserves of its blocks alone.   *)
(***************************************************************************)
LEMMA ValueOfReserves ==
    ASSUME NEW o, NEW s \in Seq(Int), NEW pool, NEW start, NEW end,
           \A i \in 1 .. Len(s) : pool[s[i]] = Reserves[s[i]]
    PROVE  Value(o, s, pool, start, end) = Value(o, s, Reserves, start, end)
<1>1. DOMAIN s = 1 .. Len(s)
  OBVIOUS
<1>2. Drawdown(s, pool) = Drawdown(s, Reserves)
  <2> DEFINE pairs == {q \in (DOMAIN s) \X (DOMAIN s) : q[1] <= q[2]}
             kept(w, i, j) == (10000 * w[s[j]][1] * w[s[i]][2]) \div (w[s[i]][1] * w[s[j]][2])
             of(w) == {kept(w, p[1], p[2]) : p \in pairs}
             answered == of(pool)
             chain == of(Reserves)
  <2>1. ASSUME NEW p \in pairs PROVE kept(pool, p[1], p[2]) = kept(Reserves, p[1], p[2])
    <3>1. p[1] \in 1 .. Len(s) /\ p[2] \in 1 .. Len(s)
      BY <1>1
    <3>2. pool[s[p[1]]] = Reserves[s[p[1]]] /\ pool[s[p[2]]] = Reserves[s[p[2]]]
      BY <3>1
    <3> QED
      BY <3>2
  <2>2. Drawdown(s, pool) = 10000 - Min(answered)
    BY DEF Drawdown
  <2>3. Drawdown(s, Reserves) = 10000 - Min(chain)
    BY DEF Drawdown
  <2>4. answered = chain
    <3> HIDE DEF pairs, kept
    <3> QED
      BY <2>1
  <2> HIDE DEF answered, chain
  <2>5. Min(answered) = Min(chain)
    BY <2>4
  <2>6. Drawdown(s, pool) = 10000 - Min(chain)
    BY <2>2, <2>5
  <2> QED
    BY <2>3, <2>6
<1>3. Returns(s, pool) = Returns(s, Reserves)
  <2> DEFINE exact == {i \in 1 .. Len(s) - 1 : s[i + 1] - s[i] = CADENCE}
  <2>1. ASSUME NEW i \in exact
        PROVE  pool[s[i]] = Reserves[s[i]] /\ pool[s[i + 1]] = Reserves[s[i + 1]]
    <3>1. Len(s) \in Nat
      OBVIOUS
    <3>2. i \in 1 .. Len(s) /\ i + 1 \in 1 .. Len(s)
      BY <3>1
    <3> QED
      BY <3>2
  <2> HIDE DEF exact
  <2>2. [i \in exact |-> <<pool[s[i]], pool[s[i + 1]]>>]
          = [i \in exact |-> <<Reserves[s[i]], Reserves[s[i + 1]]>>]
    BY <2>1
  <2> QED
    BY <2>2 DEF Returns, exact
<1>4. \A b \in ToSet(s) : pool[b] = Reserves[b]
  BY <1>1 DEF ToSet
<1>5. [b \in ToSet(s) |-> (1000 * pool[b][1]) \div pool[b][2]]
        = [b \in ToSet(s) |-> (1000 * Reserves[b][1]) \div Reserves[b][2]]
  BY <1>4
<1>6. [b \in ToSet(s) |-> pool[b][1]] = [b \in ToSet(s) |-> Reserves[b][1]]
  BY <1>4
<1> QED
  BY <1>2, <1>3, <1>5, <1>6 DEF Value

\* The value of the whole series, from the reserves that are kept.
LEMMA CachedValue ==
    ASSUME CachesTrue, Sound, NEW o, NEW s, Cached(s), s = TrueBlocks
    PROVE  Value(o, s, snapshots, TrueStart, TrueEnd) = TrueValue(o)
<1>1. s \in Seq(Int) /\ \A i \in 1 .. Len(s) : snapshots[s[i]] = Reserves[s[i]]
  BY DEF CachesTrue, Cached
<1>2. Value(o, s, snapshots, TrueStart, TrueEnd) = Value(o, s, Reserves, TrueStart, TrueEnd)
  BY <1>1, ValueOfReserves
<1> QED
  BY <1>2 DEF TrueValue

-----------------------------------------------------------------------------
(***************************************************************************)
(* What a step leaves alone, decides and records.                          *)
(***************************************************************************)
\* A step that leaves what a part is about leaves the part.
LEMMA BoundsStay ==
    ASSUME BoundsTrue, UNCHANGED bounds, final' = final
    PROVE  BoundsTrue'
BY DEF BoundsTrue

LEMMA CachesStay ==
    ASSUME CachesTrue, UNCHANGED <<snapshots, misread, series, headCache>>
    PROVE  CachesTrue'
BY DEF CachesTrue, Sound, Cached

LEMMA NoSamplingStays ==
    ASSUME pc' # "sample"
    PROVE  SamplingTrue'
BY DEF SamplingTrue

LEMMA SamplingStays ==
    ASSUME SamplingTrue, UNCHANGED <<pc, sampling, snapshots, misread>>
    PROVE  SamplingTrue'
BY DEF SamplingTrue, Broken, Partial, Priced, Sound, Cached

LEMMA TargetsStay ==
    ASSUME TargetsTrue, UNCHANGED passTargets, late => late', Sound' => Sound
    PROVE  TargetsTrue'
BY DEF TargetsTrue

LEMMA NoTargetsAreTrue ==
    ASSUME passTargets' = NoTargets
    PROVE  TargetsTrue'
BY DEF TargetsTrue, NoTargets

LEMMA RecordStays ==
    ASSUME RecordTrue, UNCHANGED recorded
    PROVE  RecordTrue'
BY DEF RecordTrue

\* A target that is decided is true, unknown, or void after the grace.
LEMMA DecideKeeps ==
    ASSUME TargetsTrue, UNCHANGED <<late, misread>>, NEW t, Decide(t),
           Sound => t = None \/ (late /\ t = Void) \/ t = TrueValue(Output)
    PROVE  TargetsTrue' /\ pc' = "resolve"
<1> DEFINE out == Output
<1>1. /\ passTargets' = [o \in {out} \cup DOMAIN passTargets |->
                             IF o = out THEN t ELSE passTargets[o]]
      /\ pc' = "resolve"
  BY DEF Decide
<1> HIDE DEF out
<1>2. ASSUME Sound, NEW o \in {out} \cup DOMAIN passTargets
      PROVE  \/ passTargets'[o] = None
             \/ late /\ passTargets'[o] = Void
             \/ passTargets'[o] = TrueValue(o)
  <2>1. CASE o = out
    BY <1>1, <1>2, <2>1 DEF out
  <2>2. CASE o # out
    BY <1>1, <1>2, <2>2 DEF TargetsTrue
  <2> QED
    BY <2>1, <2>2
<1>3. Sound' => Sound
  BY DEF Sound
<1> QED
  BY <1>1, <1>2, <1>3 DEF TargetsTrue

\* What a pass records is what it decided.
LEMMA RecordKeeps ==
    ASSUME TargetsTrue, RecordTrue, Record
    PROVE  RecordTrue'
<1> DEFINE known == {o \in DOMAIN passTargets : passTargets[o] # None}
<1>1. recorded' = [o \in known \cup DOMAIN recorded |->
                     IF o \in known
                     THEN [target |-> passTargets[o], late |-> late, sound |-> Sound]
                     ELSE recorded[o]]
  BY DEF Record, Sound
<1>2. ASSUME NEW o \in known
      PROVE  /\ recorded'[o].target = passTargets[o] /\ recorded'[o].late = late
             /\ recorded'[o].sound = Sound
             /\ ~Sound \/ (late /\ passTargets[o] = Void) \/ passTargets[o] = TrueValue(o)
  BY <1>1 DEF TargetsTrue
<1>3. ASSUME NEW o \in DOMAIN recorded, o \notin known
      PROVE  recorded'[o] = recorded[o]
  BY <1>1, <1>3
<1>4. DOMAIN recorded' = known \cup DOMAIN recorded
  BY <1>1
<1> HIDE DEF known
<1> QED
  BY <1>2, <1>3, <1>4 DEF RecordTrue

-----------------------------------------------------------------------------
(***************************************************************************)
(* The invariant, action by action.                                        *)
(***************************************************************************)
LEMMA StartPassKeeps ==
    ASSUME MarketInv, StartPass
    PROVE  MarketInv'
<1> USE DEF MarketInv, StartPass, caches, fetcher, votes
<1>0. UNCHANGED <<bounds, snapshots, misread, series, headCache, recorded, passTargets, late>>
  OBVIOUS
<1>1. BoundsTrue' /\ CachesTrue' /\ RecordTrue'
  BY BoundsStay, CachesStay, RecordStays
<1>2. StagesTrue'
  BY DEF StagesTrue
<1>3. SamplingTrue'
  BY NoSamplingStays
<1>4. TargetsTrue'
  BY <1>0, TargetsStay DEF Sound
<1> QED
  BY <1>1, <1>2, <1>3, <1>4

LEMMA StartBoundaryKeeps ==
    ASSUME MarketInv, StartBoundary
    PROVE  MarketInv'
<1> USE DEF MarketInv
<1>1. /\ pc = "start" /\ pc' = "end"
      /\ UNCHANGED <<final, late, sampling, passTargets, snapshots, misread, series, headCache, recorded>>
      /\ \/ bounds[1] # -1 /\ UNCHANGED bounds
         \/ /\ FirstAtOrAfter(RevealClose) # NoBlock
            /\ bounds' = [bounds EXCEPT ![1] = FirstAtOrAfter(RevealClose)]
  BY DEF StartBoundary, Boundary, env, NoBlock
<1>2. BoundsTrue' /\ bounds'[1] # -1
  <2>1. CASE UNCHANGED bounds /\ bounds[1] # -1
    BY <1>1, <2>1, BoundsStay
  <2>2. CASE /\ FirstAtOrAfter(RevealClose) # NoBlock
             /\ bounds' = [bounds EXCEPT ![1] = FirstAtOrAfter(RevealClose)]
    <3> DEFINE found == FirstAtOrAfter(RevealClose)
    <3>1. found = TrueStart /\ found \in 0 .. Height
      BY <2>2, StartIsTrue DEF BoundsTrue
    <3>2. Height \in Nat
      BY MarketAssumption
    <3> HIDE DEF found
    <3>3. bounds \in Int \X Int /\ bounds' = [bounds EXCEPT ![1] = found]
      BY <2>2 DEF BoundsTrue, found
    <3>4. bounds' = <<found, bounds[2]>>
      BY <3>3
    <3>5. bounds'[1] = found /\ bounds'[2] = bounds[2] /\ bounds' \in Int \X Int /\ found # -1
      <4>1. found \in Int /\ found # -1
        BY ONLY <3>1, <3>2
      <4>2. bounds[1] \in Int /\ bounds[2] \in Int
        BY ONLY <3>3
      <4> QED
        BY ONLY <3>4, <4>1, <4>2
    <3>6. UNCHANGED final
      BY <1>1
    <3> QED
      BY <3>1, <3>5, <3>6 DEF BoundsTrue
  <2> QED
    BY <1>1, <2>1, <2>2
<1>3. StagesTrue'
  BY <1>1, <1>2 DEF StagesTrue
<1>4. CachesTrue' /\ RecordTrue' /\ TargetsTrue' /\ SamplingTrue'
  BY <1>1, CachesStay, RecordStays, TargetsStay, NoSamplingStays DEF Sound
<1> QED
  BY <1>2, <1>3, <1>4

LEMMA EndBoundaryKeeps ==
    ASSUME MarketInv, EndBoundary
    PROVE  MarketInv'
<1> USE DEF MarketInv
<1>1. /\ pc = "end" /\ pc' = "resolve"
      /\ UNCHANGED <<final, late, sampling, passTargets, snapshots, misread, series, headCache, recorded>>
      /\ \/ bounds[2] # -1 /\ UNCHANGED bounds
         \/ /\ LastAtOrBefore(RevealClose + Horizon) # NoBlock
            /\ bounds' = [bounds EXCEPT ![2] = LastAtOrBefore(RevealClose + Horizon)]
  BY DEF EndBoundary, Boundary, env, NoBlock
<1>2. BoundsTrue' /\ bounds'[2] # -1 /\ bounds'[1] = bounds[1]
  <2>1. CASE UNCHANGED bounds /\ bounds[2] # -1
    BY <1>1, <2>1, BoundsStay
  <2>2. CASE /\ LastAtOrBefore(RevealClose + Horizon) # NoBlock
             /\ bounds' = [bounds EXCEPT ![2] = LastAtOrBefore(RevealClose + Horizon)]
    <3> DEFINE found == LastAtOrBefore(RevealClose + Horizon)
    <3>1. found = TrueEnd /\ found \in 0 .. Height
      BY <2>2, EndIsTrue DEF BoundsTrue
    <3>2. Height \in Nat
      BY MarketAssumption
    <3> HIDE DEF found
    <3>3. bounds \in Int \X Int /\ bounds' = [bounds EXCEPT ![2] = found]
      BY <2>2 DEF BoundsTrue, found
    <3>4. bounds' = <<bounds[1], found>>
      BY <3>3
    <3>5. bounds'[2] = found /\ bounds'[1] = bounds[1] /\ bounds' \in Int \X Int /\ found # -1
      <4>1. found \in Int /\ found # -1
        BY ONLY <3>1, <3>2
      <4>2. bounds[1] \in Int /\ bounds[2] \in Int
        BY ONLY <3>3
      <4> QED
        BY ONLY <3>4, <4>1, <4>2
    <3>6. UNCHANGED final
      BY <1>1
    <3> QED
      BY <3>1, <3>5, <3>6 DEF BoundsTrue
  <2> QED
    BY <1>1, <2>1, <2>2
<1>3. StagesTrue'
  BY <1>1, <1>2 DEF StagesTrue, BothKnown
<1>4. CachesTrue' /\ RecordTrue' /\ TargetsTrue' /\ SamplingTrue'
  BY <1>1, CachesStay, RecordStays, TargetsStay, NoSamplingStays DEF Sound
<1> QED
  BY <1>2, <1>3, <1>4

LEMMA BoundaryFailsKeeps ==
    ASSUME MarketInv, BoundaryFails
    PROVE  MarketInv'
<1> USE DEF MarketInv
<1>1. /\ pc \in {"start", "end"}
      /\ UNCHANGED <<final, late, bounds, snapshots, misread, series, headCache, recorded>>
      /\ IF late
         THEN /\ passTargets' = [o \in {Outputs[i] : i \in Pending} |-> Void]
              /\ pc' = "resolve"
         ELSE pc' = "idle" /\ UNCHANGED passTargets
  BY DEF BoundaryFails, env, caches
<1>2. BoundsTrue' /\ CachesTrue' /\ RecordTrue'
  BY <1>1, BoundsStay, CachesStay, RecordStays
<1>3. SamplingTrue'
  BY <1>1, NoSamplingStays
<1>4. passTargets = NoTargets
  BY <1>1 DEF StagesTrue
<1>5. CASE late
  <2>1. TargetsTrue'
    BY <1>1, <1>5 DEF TargetsTrue
  <2>2. Pending' = {}
    BY <1>1, <1>4, <1>5 DEF Pending, NoTargets
  <2>3. StagesTrue'
    BY <1>1, <1>5, <2>2 DEF StagesTrue
  <2> QED
    BY <1>2, <1>3, <2>1, <2>3
<1>6. CASE ~late
  <2>1. TargetsTrue'
    BY <1>1, <1>6, TargetsStay DEF Sound
  <2>2. StagesTrue'
    BY <1>1, <1>4, <1>6 DEF StagesTrue
  <2> QED
    BY <1>2, <1>3, <2>1, <2>2
<1> QED
  BY <1>5, <1>6

LEMMA BoundaryDeferredKeeps ==
    ASSUME MarketInv, BoundaryDeferred
    PROVE  MarketInv'
<1> USE DEF MarketInv
<1>1. /\ pc' = "idle" /\ passTargets' = NoTargets
      /\ UNCHANGED <<final, late, bounds, snapshots, misread, series, headCache, recorded>>
  BY DEF BoundaryDeferred, EndPass, env, caches
<1>2. BoundsTrue' /\ CachesTrue' /\ RecordTrue' /\ SamplingTrue' /\ TargetsTrue'
  BY <1>1, BoundsStay, CachesStay, RecordStays, NoSamplingStays, NoTargetsAreTrue
<1>3. StagesTrue'
  BY <1>1 DEF StagesTrue
<1> QED
  BY <1>2, <1>3

LEMMA NextOutputKeeps ==
    ASSUME MarketInv, NextOutput
    PROVE  MarketInv'
<1> USE DEF MarketInv
<1>1. /\ pc = "resolve" /\ Pending # {} /\ pc' = "head"
      /\ UNCHANGED <<final, late, passTargets, bounds, snapshots, misread, series, headCache, recorded>>
  BY DEF NextOutput, env, caches
<1>2. BoundsTrue' /\ CachesTrue' /\ RecordTrue' /\ SamplingTrue' /\ TargetsTrue'
  BY <1>1, BoundsStay, CachesStay, RecordStays, NoSamplingStays, TargetsStay DEF Sound
<1>3. StagesTrue'
  BY <1>1 DEF StagesTrue, BothKnown
<1> QED
  BY <1>2, <1>3

LEMMA FinishPassKeeps ==
    ASSUME MarketInv, FinishPass
    PROVE  MarketInv'
<1> USE DEF MarketInv
<1>1. /\ pc' = "idle" /\ passTargets' = NoTargets /\ Record
      /\ UNCHANGED <<final, late, bounds, snapshots, misread, series, headCache>>
  BY DEF FinishPass, Record, EndPass, env, caches
<1>2. BoundsTrue' /\ CachesTrue' /\ SamplingTrue' /\ TargetsTrue'
  BY <1>1, BoundsStay, CachesStay, NoSamplingStays, NoTargetsAreTrue
<1>3. RecordTrue'
  BY <1>1, RecordKeeps
<1>4. StagesTrue'
  BY <1>1 DEF StagesTrue
<1> QED
  BY <1>2, <1>3, <1>4

LEMMA HeadKnownKeeps ==
    ASSUME MarketInv, HeadKnown
    PROVE  MarketInv'
<1> USE DEF MarketInv
<1>1. PICK h \in {HeadBlock, headCache} \ {NoBlock} :
        /\ headCache' = h
        /\ IF series # NoSeries /\ Last(series) <= h
           THEN /\ Decide(Value(Output, series, snapshots, bounds[1], bounds[2]))
                /\ UNCHANGED series
           ELSE /\ series' = NoSeries
                /\ pc' = "sample" /\ sampling' = [NoSampling EXCEPT !.at = h]
                /\ UNCHANGED passTargets
  BY DEF HeadKnown
<1>2. /\ pc = "head"
      /\ UNCHANGED <<final, late, bounds, snapshots, misread, recorded>>
  BY DEF HeadKnown, env
<1>3. h \in Int
  <2>1. final \in 0 .. Height /\ Height \in Nat /\ headCache \in Int
    BY MarketAssumption DEF BoundsTrue, CachesTrue
  <2>2. HeadBlock \in Int
    <3> DEFINE both == {final + 1, Height}
    <3>1. both \in SUBSET Int /\ final + 1 \in both /\ Height \in both
      BY <2>1
    <3>2. CASE final + 1 <= Height
      <4>1. \A y \in both : final + 1 <= y
        BY <2>1, <3>2
      <4> HIDE DEF both
      <4>2. Min(both) = final + 1
        BY <3>1, <4>1, MinIsLeast
      <4> QED
        BY <2>1, <4>2 DEF HeadBlock, both
    <3>3. CASE ~(final + 1 <= Height)
      <4>1. \A y \in both : Height <= y
        BY <2>1, <3>3
      <4> HIDE DEF both
      <4>2. Min(both) = Height
        BY <3>1, <4>1, MinIsLeast
      <4> QED
        BY <2>1, <4>2 DEF HeadBlock, both
    <3> QED
      BY <3>2, <3>3
  <2> QED
    BY <2>1, <2>2
<1>4. BoundsTrue' /\ RecordTrue'
  BY <1>2, BoundsStay, RecordStays
<1>5. BothKnown /\ bounds[1] = TrueStart /\ bounds[2] = TrueEnd
  BY <1>2 DEF StagesTrue, BothKnown, BoundsTrue
<1>6. CASE series # NoSeries /\ Last(series) <= h
  <2> DEFINE value == Value(Output, series, snapshots, bounds[1], bounds[2])
  <2>1. Decide(value) /\ UNCHANGED series
    BY <1>1, <1>6
  <2>2. Sound => value = TrueValue(Output)
    BY <1>5, <1>6, CachedValue DEF CachesTrue
  <2> HIDE DEF value
  <2>3. TargetsTrue' /\ pc' = "resolve"
    BY <1>2, <2>1, <2>2, DecideKeeps
  <2>4. SamplingTrue'
    BY <2>3, NoSamplingStays
  <2>5. CachesTrue'
    BY <1>1, <1>2, <1>3, <2>1 DEF CachesTrue, Sound, Cached
  <2>6. StagesTrue'
    BY <1>2, <1>5, <2>3 DEF StagesTrue, BothKnown
  <2> QED
    BY <1>4, <2>3, <2>4, <2>5, <2>6
<1>7. CASE ~(series # NoSeries /\ Last(series) <= h)
  <2>1. /\ series' = NoSeries /\ pc' = "sample"
        /\ sampling' = [at |-> h, taken |-> <<>>, next |-> 1, gaps |-> 0,
                        outage |-> FALSE, future |-> FALSE]
        /\ UNCHANGED passTargets
    BY <1>1, <1>7 DEF NoSampling
  <2>2. TargetsTrue'
    BY <1>2, <2>1, TargetsStay DEF Sound
  <2>3. CachesTrue'
    BY <1>1, <1>2, <1>3, <2>1 DEF CachesTrue, Sound, Cached
  <2>4. StagesTrue'
    BY <1>2, <1>5, <2>1 DEF StagesTrue, BothKnown
  <2>5. sampling' \in Samplings
    BY <1>3, <2>1 DEF Samplings
  <2>6. Partial(<<>>, 0)
    <3>1. <<>> \in Seq(Int) /\ Len(<<>>) = 0
      OBVIOUS
    <3>2. 1 .. 0 = {}
      OBVIOUS
    <3>3. Priced(0) = {}
      BY <3>2 DEF Priced
    <3>4. Increases(<<>>, 0)
      BY <3>2 DEF Increases
    <3> QED
      BY <3>1, <3>2, <3>3, <3>4 DEF Partial
  <2>7. Len(TrueCanonical) \in Nat
    BY <1>5, TrueCanonicalGrows
  <2>8. sampling'.next = 1 /\ sampling'.gaps = 0 /\ sampling'.taken = <<>>
    BY <2>1
  <2>9. Cached(sampling.taken)'
    BY <2>8 DEF Cached
  <2>10. SamplingTrue'
    BY <2>5, <2>6, <2>7, <2>8, <2>9 DEF SamplingTrue
  <2> QED
    BY <1>4, <2>2, <2>3, <2>4, <2>10
<1> QED
  BY <1>6, <1>7

LEMMA UnavailableKeeps ==
    ASSUME TargetsTrue, UNCHANGED <<late, misread>>, Unavailable
    PROVE  TargetsTrue' /\ pc' = "resolve"
<1>1. CASE late
  BY <1>1, DecideKeeps DEF Unavailable
<1>2. CASE ~late
  BY <1>2, DecideKeeps DEF Unavailable
<1> QED
  BY <1>1, <1>2

LEMMA HeadFailsKeeps ==
    ASSUME MarketInv, HeadFails
    PROVE  MarketInv'
<1> USE DEF MarketInv
<1>1. /\ pc = "head" /\ Unavailable
      /\ UNCHANGED <<final, late, bounds, snapshots, misread, series, headCache, recorded>>
  BY DEF HeadFails, env, caches
<1>2. TargetsTrue' /\ pc' = "resolve"
  BY <1>1, UnavailableKeeps
<1>3. BoundsTrue' /\ CachesTrue' /\ RecordTrue' /\ SamplingTrue'
  BY <1>1, <1>2, BoundsStay, CachesStay, RecordStays, NoSamplingStays
<1>4. StagesTrue'
  BY <1>1, <1>2 DEF StagesTrue, BothKnown
<1> QED
  BY <1>2, <1>3, <1>4

LEMMA SampleKeeps ==
    ASSUME MarketInv, Sample
    PROVE  MarketInv'
<1> USE DEF MarketInv
<1> DEFINE b == Block
<1>1. /\ pc = "sample"
      /\ sampling.next <= Len(CanonicalBlocks)
      /\ UNCHANGED <<final, late, pc, passTargets, bounds, series, headCache, recorded>>
  BY DEF Sample, env
<1>2. \/ /\ sampling' = [Skipped EXCEPT !.future = TRUE] \/ sampling' = Lost
         /\ UNCHANGED <<snapshots, misread>>
      \/ b \in DOMAIN snapshots /\ sampling' = Sampled /\ UNCHANGED <<snapshots, misread>>
      \/ Read
      \/ Missing
  BY DEF Sample
<1>3. misread \subseteq misread'
  BY <1>2 DEF Read, Misread, Missing
<1>4. Sound' => Sound
  BY <1>3 DEF Sound
<1>5. BoundsTrue' /\ RecordTrue' /\ TargetsTrue'
  BY <1>1, <1>4, BoundsStay, RecordStays, TargetsStay
<1>6. StagesTrue'
  <2>1. pc' = "sample" /\ UNCHANGED bounds
    BY <1>1
  <2> QED
    BY <1>1, <2>1 DEF StagesTrue, BothKnown
<1>7. ASSUME Read
       PROVE  LET answer == Reserves[AnsweredBlock]
              IN /\ Sound' => answer = Reserves[b]
                 /\ IF Usable(answer)
                    THEN /\ sampling' = Sampled
                         /\ snapshots' = [c \in {b} \cup DOMAIN snapshots |->
                                            IF c = b THEN answer ELSE snapshots[c]]
                    ELSE sampling' = Skipped /\ UNCHANGED snapshots
  BY <1>7 DEF Read, Misread, Sound
<1>8. DOMAIN snapshots \subseteq DOMAIN snapshots'
  <2>1. CASE Read
    BY <1>7, <2>1
  <2> QED
    BY <1>2, <2>1 DEF Missing
<1>9. Sound' => \A c \in DOMAIN snapshots' : HasReserves(c) /\ snapshots'[c] = Reserves[c]
  <2> HIDE DEF b
  <2>1. Sound => \A c \in DOMAIN snapshots : HasReserves(c) /\ snapshots[c] = Reserves[c]
    BY DEF CachesTrue
  <2>2. CASE Read
    <3> DEFINE answer == Reserves[AnsweredBlock]
    <3>1. CASE Usable(answer)
      <4>1. snapshots' = [c \in {b} \cup DOMAIN snapshots |->
                            IF c = b THEN answer ELSE snapshots[c]]
        BY <1>7, <2>2, <3>1
      <4>2. Sound' => answer = Reserves[b]
        BY <1>7, <2>2
      <4>3. Sound' => HasReserves(b)
        BY <3>1, <4>2 DEF HasReserves
      <4> HIDE DEF answer
      <4> QED
        BY <1>4, <2>1, <4>1, <4>2, <4>3
    <3>2. CASE ~Usable(answer)
      BY <1>4, <1>7, <2>1, <2>2, <3>2
    <3> QED
      BY <3>1, <3>2
  <2> QED
    BY <1>2, <1>4, <2>1, <2>2 DEF Missing
<1>10. CachesTrue'
  BY <1>1, <1>4, <1>8, <1>9 DEF CachesTrue, Cached
<1>11. BothKnown
  BY <1>1 DEF StagesTrue
<1>12. /\ CanonicalBlocks = TrueCanonical
      /\ TrueCanonical \in Seq(Int) /\ Increases(TrueCanonical, Len(TrueCanonical))
  BY <1>11, TrueCanonicalGrows
<1>13. sampling \in Samplings
  BY <1>1 DEF SamplingTrue
<1>14. PICK m \in Nat : sampling.next = m + 1
  <2>1. sampling.next \in Nat \ {0}
    BY <1>13 DEF Samplings
  <2>2. sampling.next - 1 \in Nat /\ sampling.next = (sampling.next - 1) + 1
    BY <2>1
  <2> QED
    BY <2>2
<1>15. m + 1 <= Len(TrueCanonical) /\ b = TrueCanonical[m + 1] /\ b \in Int
  <2>1. m + 1 <= Len(TrueCanonical) /\ b = TrueCanonical[m + 1]
    BY <1>1, <1>12, <1>14 DEF Block
  <2>2. m + 1 \in 1 .. Len(TrueCanonical)
    BY <1>12, <2>1
  <2> QED
    BY <1>12, <2>1, <2>2
<1> HIDE DEF b
<1>16. /\ ~Broken(sampling) => sampling.gaps = 0
       /\ ~Broken(sampling) /\ Sound => Partial(sampling.taken, m) /\ Cached(sampling.taken)
  <2>1. sampling.next - 1 = m
    BY <1>14
  <2> QED
    BY <1>1, <2>1 DEF SamplingTrue
<1>17. Sampled = [sampling EXCEPT !.taken = Append(@, b), !.gaps = 0, !.next = @ + 1]
  BY DEF Sampled, b
<1>18. /\ sampling.next + 1 \in Nat \ {0} /\ sampling.gaps + 1 \in Nat
       /\ Append(sampling.taken, b) \in Seq(Int)
  <2>1. sampling.next \in Nat /\ sampling.gaps \in Nat /\ sampling.taken \in Seq(Int)
    BY <1>13 DEF Samplings
  <2> HIDE DEF MarketInv
  <2>2. Append(sampling.taken, b) \in Seq(Int)
    BY <1>15, <2>1
  <2>3. sampling.next + 1 \in Nat \ {0} /\ sampling.gaps + 1 \in Nat
    BY ONLY <2>1
  <2> QED
    BY <2>2, <2>3
<1>19. ASSUME sampling' = Sampled, Sound' => HasReserves(b), b \in DOMAIN snapshots'
       PROVE  SamplingTrue'
  <2>1. sampling' \in Samplings
    BY <1>13, <1>17, <1>18, <1>19 DEF Samplings
  <2>2. /\ sampling'.next = m + 2 /\ sampling'.gaps = 0
        /\ sampling'.taken = Append(sampling.taken, b)
        /\ sampling'.outage = sampling.outage /\ sampling'.future = sampling.future
    <3>1. sampling' = [sampling EXCEPT !.taken = Append(sampling.taken, b), !.gaps = 0,
                                       !.next = sampling.next + 1]
      BY <1>17, <1>19
    <3>2. /\ sampling'.next = sampling.next + 1 /\ sampling'.gaps = 0
          /\ sampling'.taken = Append(sampling.taken, b)
          /\ sampling'.outage = sampling.outage /\ sampling'.future = sampling.future
      BY <1>13, <3>1 DEF Samplings
    <3> QED
      BY <1>14, <3>2
  <2>3. ~Broken(sampling) /\ Sound' => Partial(sampling'.taken, m + 1)
    BY <1>4, <1>12, <1>15, <1>16, <1>19, <2>2, PartialGrows
  <2>4. Broken(sampling') <=> Broken(sampling)
    BY <2>2 DEF Broken
  <2>5. sampling'.next - 1 = m + 1 /\ sampling'.next <= Len(TrueCanonical) + 1
    BY ONLY <1>12, <1>14, <1>15, <2>2
  <2>6. ~Broken(sampling) /\ Sound' => Cached(sampling.taken)
    BY <1>4, <1>16
  <2>7. ASSUME Cached(sampling.taken) PROVE Cached(sampling.taken)'
    <3>1. /\ sampling.taken \in Seq(Int)
          /\ \A i \in 1 .. Len(sampling.taken) : sampling.taken[i] \in DOMAIN snapshots'
      BY <1>8, <2>7 DEF Cached
    <3> DEFINE s == sampling.taken
               t == Append(s, b)
    <3>2. t \in Seq(Int) /\ Len(t) = Len(s) + 1 /\ t[Len(s) + 1] = b
          /\ \A i \in 1 .. Len(s) : t[i] = s[i]
      BY <1>15, <3>1
    <3>3. \A i \in 1 .. Len(s) + 1 : i \in 1 .. Len(s) \/ i = Len(s) + 1
      BY <3>1
    <3>4. sampling'.taken = t
      BY <2>2
    <3> HIDE DEF t
    <3>5. \A i \in 1 .. Len(t) : t[i] \in DOMAIN snapshots'
      BY <1>19, <3>1, <3>2, <3>3
    <3> QED
      BY <3>2, <3>4, <3>5 DEF Cached
  <2> QED
    BY <2>1, <2>2, <2>3, <2>4, <2>5, <2>6, <2>7 DEF SamplingTrue, Broken
<1>20. ASSUME sampling' = Skipped, Sound' => ~HasReserves(b)
       PROVE  SamplingTrue'
  <2>1. sampling' = [sampling EXCEPT !.gaps = 0, !.next = @ + 1]
    BY <1>20 DEF Skipped
  <2>2. sampling' \in Samplings
    BY <1>13, <1>18, <2>1 DEF Samplings
  <2>3. /\ sampling'.next = m + 2 /\ sampling'.gaps = 0 /\ sampling'.taken = sampling.taken
        /\ sampling'.outage = sampling.outage /\ sampling'.future = sampling.future
    <3>1. /\ sampling'.next = sampling.next + 1 /\ sampling'.gaps = 0
          /\ sampling'.taken = sampling.taken
          /\ sampling'.outage = sampling.outage /\ sampling'.future = sampling.future
      BY <1>13, <2>1 DEF Samplings
    <3> QED
      BY <1>14, <3>1
  <2>4. ~Broken(sampling) /\ Sound' => Partial(sampling'.taken, m + 1)
    BY <1>4, <1>12, <1>15, <1>16, <1>20, <2>3, PartialGrows
  <2>5. sampling'.next - 1 = m + 1 /\ sampling'.next <= Len(TrueCanonical) + 1
    BY ONLY <1>12, <1>14, <1>15, <2>3
  <2>6. ~Broken(sampling) /\ Sound' => Cached(sampling.taken)'
    BY <1>4, <1>16, <1>8, <2>3 DEF Cached
  <2> QED
    BY <2>2, <2>3, <2>4, <2>5, <2>6 DEF SamplingTrue, Broken
<1>21. ASSUME sampling' = [Skipped EXCEPT !.future = TRUE]
       PROVE  SamplingTrue'
  <2>1. sampling' = [sampling EXCEPT !.gaps = 0, !.next = @ + 1, !.future = TRUE]
    BY <1>13, <1>21 DEF Skipped, Samplings
  <2>2. sampling' \in Samplings
    BY <1>13, <1>18, <2>1 DEF Samplings
  <2>3. sampling'.next = m + 2 /\ sampling'.future = TRUE
    <3>1. sampling'.next = sampling.next + 1 /\ sampling'.future = TRUE
      BY <1>13, <2>1 DEF Samplings
    <3> QED
      BY <1>14, <3>1
  <2>4. sampling'.next <= Len(TrueCanonical) + 1
    BY ONLY <1>12, <1>14, <1>15, <2>3
  <2> QED
    BY <2>2, <2>3, <2>4 DEF SamplingTrue, Broken
<1>22. ASSUME sampling' = Lost
       PROVE  SamplingTrue'
  <2>1. sampling' = [sampling EXCEPT !.gaps = @ + 1, !.outage = TRUE, !.next = @ + 1]
    BY <1>22 DEF Lost
  <2>2. sampling' \in Samplings
    BY <1>13, <1>18, <2>1 DEF Samplings
  <2>3. sampling'.next = m + 2 /\ sampling'.outage = TRUE
    <3>1. sampling'.next = sampling.next + 1 /\ sampling'.outage = TRUE
      BY <1>13, <2>1 DEF Samplings
    <3> QED
      BY <1>14, <3>1
  <2>4. sampling'.next <= Len(TrueCanonical) + 1
    BY ONLY <1>12, <1>14, <1>15, <2>3
  <2> QED
    BY <2>2, <2>3, <2>4 DEF SamplingTrue, Broken
<1>23. ASSUME Read PROVE SamplingTrue'
  <2>1. CASE Usable(Reserves[AnsweredBlock])
    <3>1. sampling' = Sampled /\ b \in DOMAIN snapshots'
      BY <1>23, <1>7, <2>1
    <3>2. Sound' => HasReserves(b)
      BY <1>23, <1>7, <2>1 DEF HasReserves
    <3> QED
      BY <1>19, <3>1, <3>2
  <2>2. CASE ~Usable(Reserves[AnsweredBlock])
    BY <1>20, <1>23, <1>7, <2>2 DEF HasReserves
  <2> QED
    BY <2>1, <2>2
<1>24. ASSUME Missing PROVE SamplingTrue'
  <2>1. sampling' = Skipped /\ misread' = misread \cup {c \in {b} : HasReserves(c)}
    BY <1>24 DEF Missing, b
  <2> QED
    BY <1>20, <2>1 DEF Sound
<1>25. ASSUME b \in DOMAIN snapshots, sampling' = Sampled PROVE SamplingTrue'
  <2>1. b \in DOMAIN snapshots'
    BY <1>25, <1>8
  <2>2. Sound' => HasReserves(b)
    BY <1>25, <1>4 DEF CachesTrue
  <2> QED
    BY <1>19, <1>25, <2>1, <2>2
<1>26. SamplingTrue'
  BY <1>2, <1>21, <1>22, <1>23, <1>24, <1>25
<1> QED
  BY <1>5, <1>6, <1>10, <1>26

LEMMA FinishSeriesKeeps ==
    ASSUME MarketInv, FinishSeries
    PROVE  MarketInv'
<1> USE DEF MarketInv
<1>1. /\ pc = "sample"
      /\ sampling.gaps = MAX_GAPS \/ sampling.next > Len(CanonicalBlocks)
      /\ IF Broken(sampling) THEN Unavailable /\ UNCHANGED series
         ELSE /\ Decide(Value(Output, sampling.taken, snapshots, bounds[1], bounds[2]))
              /\ series' = IF sampling.taken = <<>> THEN NoSeries ELSE sampling.taken
      /\ UNCHANGED <<final, late, bounds, snapshots, misread, headCache, recorded>>
  BY DEF FinishSeries, env
<1>2. BoundsTrue' /\ RecordTrue'
  BY <1>1, BoundsStay, RecordStays
<1>3. BothKnown /\ bounds[1] = TrueStart /\ bounds[2] = TrueEnd
  BY <1>1 DEF StagesTrue, BothKnown, BoundsTrue
<1>4. ASSUME pc' = "resolve" PROVE StagesTrue' /\ SamplingTrue'
  <2>1. SamplingTrue'
    BY <1>4, NoSamplingStays
  <2>2. StagesTrue'
    BY <1>1, <1>3, <1>4 DEF StagesTrue, BothKnown
  <2> QED
    BY <2>1, <2>2
<1>5. CASE Broken(sampling)
  <2>1. TargetsTrue' /\ pc' = "resolve"
    BY <1>1, <1>5, UnavailableKeeps
  <2>2. CachesTrue'
    BY <1>1, <1>5, CachesStay
  <2> QED
    BY <1>2, <1>4, <2>1, <2>2
<1>6. CASE ~Broken(sampling)
  <2> DEFINE value == Value(Output, sampling.taken, snapshots, bounds[1], bounds[2])
  <2>1. /\ sampling \in Samplings /\ sampling.next <= Len(TrueCanonical) + 1
        /\ sampling.gaps = 0
        /\ Sound => Partial(sampling.taken, sampling.next - 1) /\ Cached(sampling.taken)
    BY <1>1, <1>6 DEF SamplingTrue
  <2>2. CanonicalBlocks = TrueCanonical /\ Len(TrueCanonical) \in Nat
    BY <1>3, TrueCanonicalGrows
  <2>3. MAX_GAPS # 0
    BY MarketAssumption
  <2>4. sampling.next - 1 = Len(TrueCanonical)
    <3>1. sampling.next \in Nat
      BY <2>1 DEF Samplings
    <3> QED
      BY <1>1, <2>1, <2>2, <2>3, <3>1
  <2>5. Sound => sampling.taken = TrueBlocks
    BY <1>3, <2>1, <2>4, WholeSeries
  <2>6. Sound => value = TrueValue(Output)
    BY <1>3, <2>1, <2>5, CachedValue
  <2>7. Decide(value)
    BY <1>1, <1>6
  <2> HIDE DEF value
  <2>8. TargetsTrue' /\ pc' = "resolve"
    BY <1>1, <2>6, <2>7, DecideKeeps
  <2>9. CachesTrue'
    BY <1>1, <1>6, <2>1, <2>5 DEF CachesTrue, Sound, Cached
  <2> QED
    BY <1>2, <1>4, <2>8, <2>9
<1> QED
  BY <1>5, <1>6

LEMMA SurroundingsKeep ==
    ASSUME MarketInv,
           \/ Retry \/ Vote \/ Reveal \/ MoveHead \/ GraceEnds
           \/ SpendBudget \/ ExpireHead \/ Recover \/ UNCHANGED marketVars
    PROVE  MarketInv'
<1> USE DEF MarketInv
<1>1. /\ UNCHANGED <<pc, passTargets, bounds, snapshots, misread, series, recorded, sampling>>
      /\ late => late'
      /\ final' = final \/ final' \in 0 .. Height
      /\ headCache' = headCache \/ headCache' = -1
  BY DEF Retry, Vote, Reveal, MoveHead, GraceEnds,
         SpendBudget, ExpireHead, Recover, marketVars,
         env, pass, caches, votes, NoBlock
<1>2. BoundsTrue'
  BY <1>1 DEF BoundsTrue
<1>3. CachesTrue'
  BY <1>1 DEF CachesTrue, Sound, Cached
<1>4. StagesTrue'
  BY <1>1 DEF StagesTrue, BothKnown, Pending
<1>5. SamplingTrue' /\ TargetsTrue' /\ RecordTrue'
  BY <1>1, SamplingStays, TargetsStay, RecordStays DEF Sound
<1> QED
  BY <1>2, <1>3, <1>4, <1>5

LEMMA RestartKeeps ==
    ASSUME MarketInv, ProcessRestarts
    PROVE  MarketInv'
<1> USE DEF MarketInv
<1>1. /\ pc' = "idle" /\ passTargets' = NoTargets
      /\ bounds' = <<-1, -1>> /\ snapshots' = NoSnapshots /\ series' = NoSeries /\ headCache' = -1
      /\ UNCHANGED <<final, late, recorded>>
  BY DEF ProcessRestarts, EndPass, env, NoBlock
<1>2. BoundsTrue'
  BY <1>1 DEF BoundsTrue
<1>3. CachesTrue'
  BY <1>1 DEF CachesTrue, NoSnapshots
<1>4. RecordTrue' /\ SamplingTrue' /\ TargetsTrue'
  BY <1>1, RecordStays, NoSamplingStays, NoTargetsAreTrue
<1>5. StagesTrue'
  BY <1>1 DEF StagesTrue
<1> QED
  BY <1>2, <1>3, <1>4, <1>5

LEMMA MarketStarts ==
    ASSUME MarketInit
    PROVE  MarketInv
<1>1. /\ final = 0 /\ pc = "idle" /\ passTargets = NoTargets
      /\ bounds = <<-1, -1>> /\ snapshots = NoSnapshots /\ series = NoSeries /\ headCache = -1
      /\ recorded = NoTargets
  BY DEF MarketInit, NoBlock
<1>2. Height \in Nat
  BY MarketAssumption
<1>3. BoundsTrue
  BY <1>1, <1>2 DEF BoundsTrue
<1>4. CachesTrue /\ StagesTrue /\ SamplingTrue
  BY <1>1 DEF CachesTrue, StagesTrue, SamplingTrue, NoSnapshots
<1>5. TargetsTrue /\ RecordTrue
  BY <1>1 DEF TargetsTrue, RecordTrue, NoTargets
<1> QED
  BY <1>3, <1>4, <1>5 DEF MarketInv

\* The boundaries a pass goes on from are those of the finalized chain; so are the
\* series and the reserves kept by a process that was not answered wrongly, and what
\* it takes from a series is whole unless it says so (price_series, _snapshot_at).
THEOREM MarketInvariant ==
    MarketSpec => []MarketInv
<1>1. MarketInit => MarketInv
  BY MarketStarts
<1>2. MarketInv /\ [MarketNext]_marketVars => MarketInv'
  BY StartPassKeeps, StartBoundaryKeeps, EndBoundaryKeeps, BoundaryFailsKeeps,
     BoundaryDeferredKeeps, NextOutputKeeps, HeadKnownKeeps, HeadFailsKeeps, SampleKeeps,
     FinishSeriesKeeps, FinishPassKeeps, SurroundingsKeep, RestartKeeps
     DEF MarketNext
<1> QED
  BY <1>1, <1>2, PTL DEF MarketSpec

\* A target recorded as resolved is what every complete reading of the chain gives,
\* and one voided before the grace ends is void in the chain itself, whatever outages,
\* lost finality, budgets and restarts the passes met, unless the process was given
\* another block's reserves or nothing for a block (SeriesSampling, _snapshot_at).
THEOREM ResolvedIsCanonical ==
    MarketSpec => []RecordedIsCanonical
<1>1. MarketInv => RecordedIsCanonical
  BY DEF MarketInv, RecordTrue, TrueValue, RecordedIsCanonical
<1> QED
  BY <1>1, MarketInvariant, PTL

-----------------------------------------------------------------------------
(***************************************************************************)
(* The pool window of the votes.                                           *)
(***************************************************************************)
\* While the newest round is the pool window's, its seed is known.
WindowInv ==
    /\ revealed \in Nat /\ window \in 0 .. revealed
    /\ window # 0 /\ window = revealed => window \in seeds

LEMMA VoteMovesForward ==
    ASSUME WindowInv, Vote
    PROVE  WindowInv' /\ window' >= window
<1>1. POOL_ROUNDS \in Nat \ {0}
  BY MarketAssumption
<1>2. CASE Seed(revealed)
  BY <1>1, <1>2 DEF Vote, Seed, WindowInv
<1>3. CASE ~SeedKnown(revealed) /\ revealed > 1 /\ Seed(revealed - 1)
  <2>1. window # revealed
    <3> SUFFICES ASSUME window = revealed PROVE FALSE
      OBVIOUS
    <3>1. revealed \in seeds /\ revealed \in Nat
      BY <1>3 DEF WindowInv
    <3>2. revealed \in Recent
      BY <1>1, <3>1 DEF Recent
    <3> QED
      BY <1>3, <3>1, <3>2 DEF SeedKnown
  <2> QED
    BY <1>3, <2>1 DEF Vote, Seed, WindowInv
<1>4. CASE ~SeedKnown(revealed) /\ seeds' = seeds \cap Recent /\ UNCHANGED window
  BY <1>1, <1>4 DEF Vote, SeedKnown, Recent, WindowInv
<1> QED
  BY <1>2, <1>3, <1>4 DEF Vote

LEMMA WindowStays ==
    ASSUME WindowInv, [MarketNext]_marketVars
    PROVE  WindowInv' /\ (window' >= window \/ window' = 0)
<1>1. CASE Vote
  BY <1>1, VoteMovesForward
<1>2. CASE Reveal
  BY <1>2 DEF Reveal, WindowInv
<1>3. CASE ProcessRestarts
  BY <1>3 DEF ProcessRestarts, WindowInv
<1>4. CASE UNCHANGED votes
  BY <1>4 DEF votes, WindowInv
<1>5. Vote \/ Reveal \/ ProcessRestarts \/ UNCHANGED votes
  BY DEF MarketNext, marketVars, StartPass, StartBoundary, EndBoundary,
         Boundary, BoundaryFails, BoundaryDeferred, NextOutput,
         HeadKnown, HeadFails, Sample, FinishSeries, FinishPass,
         Retry, MoveHead, GraceEnds, SpendBudget, ExpireHead,
         Recover
<1> QED
  BY <1>1, <1>2, <1>3, <1>4, <1>5

\* The votes of one process never go back to the pool window of an earlier round,
\* whichever seeds the archive can show (_last_seeded_window).
THEOREM WindowsMoveForward ==
    MarketSpec => WindowNeverGoesBack
<1>1. MarketInit => WindowInv
  BY DEF MarketInit, WindowInv
<1>2. WindowInv /\ [MarketNext]_marketVars => WindowInv'
  BY WindowStays
<1>3. WindowInv /\ [MarketNext]_marketVars => [window' >= window \/ window' = 0]_marketVars
  BY WindowStays
<1> QED
  BY <1>1, <1>2, <1>3, PTL DEF MarketSpec, WindowNeverGoesBack

=============================================================================
