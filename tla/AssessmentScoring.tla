------------------------- MODULE AssessmentScoring -------------------------
(***************************************************************************)
(* Scores over several rounds: the passes that resolve targets and update  *)
(* the EMA state of the miners (endure/scoring/assessment_orchestrator.py, *)
(* endure/storage/repository.py), and the archival of deregistered hotkeys *)
(* (endure/scoring/eligibility.py, endure/protocol/validator_service.py,   *)
(* neurons/validator.py).                                                  *)
(*                                                                         *)
(* One round opens a day.  Its horizons fall due days after its reveals    *)
(* close, so several rounds are unfinished at once and their passes run in *)
(* any order that failures, truncation and restarts produce.               *)
(*                                                                         *)
(* A coordinate is an asset (a netuid with an output) at a horizon.  An    *)
(* EMA is known by its level, the number of zero observations after which  *)
(* it is below ARCHIVE_EPSILON, and by its resolved_rounds.                *)
(***************************************************************************)
EXTENDS Integers, FiniteSets

CONSTANTS
    Hotkeys,        \* miners
    LastRound,      \* bound: rounds 1 .. LastRound open, one a day
    LastDay,        \* bound: the clock stops here
    Horizons,       \* days from the reveal close of a round to its due time
    Assets,         \* what a round may ask forecasts for
    Universe,       \* the frozen universe of each round
    Active,         \* active_coordinates: those that pay out
    TOP,            \* level of an EMA after a good forecast
    CONFIRMATION,   \* DEREGISTRATION_CONFIRMATION_SYNCS
    Faults          \* whether calls may raise

Rounds == 1 .. LastRound
Coordinates == Assets \X Horizons

ASSUME ScoringAssumption ==
    /\ LastRound \in Nat /\ LastDay \in Nat
    /\ Horizons \subseteq Nat
    /\ Universe \in [Rounds -> SUBSET Assets]
    /\ Active \subseteq Coordinates
    /\ TOP \in Nat \ {0} /\ CONFIRMATION \in Nat \ {0}
    /\ Faults \in BOOLEAN

VARIABLES
    day,
    \* The validator's database.
    stage,          \* rounds.state; "partially_scored" counts as "revealed"
    accepted,       \* by round: hotkeys with an accepted reveal
    targets,        \* assessment_realized_targets
    history,        \* assessment_score_history: (hotkey, coordinate) by round
    ema,            \* assessment_miner_score_state
    marked,         \* assessment_horizon_resolutions
    \* The validator process.
    metagraph,      \* the registered hotkeys, as last read
    missing,        \* DeregistrationTracker._missing_counts; 0: no entry
    lastSeen,       \* DeregistrationTracker._last_registered
    tick            \* the tick thread

rounds == <<stage, accepted>>
scores == <<targets, history, ema, marked>>
tracker == <<missing, lastSeen>>
vars == <<day, rounds, scores, metagraph, tracker, tick>>

NoEma == [level |-> 0, resolved |-> 0]
NoTick == [pc |-> "idle", now |-> 0, rounds |-> {}, left |-> {},
           spent |-> FALSE, scored |-> FALSE]

HasEma(h, c) == ema[h][c].resolved > 0
Persisted == {h \in Hotkeys : \E c \in Coordinates : HasEma(h, c)}
Confirmed == {h \in Hotkeys : missing[h] >= CONFIRMATION}
Unfinished == {r \in Rounds : stage[r] \in {"open", "revealed"}}

Init ==
    /\ day = 1
    /\ stage = [r \in Rounds |-> "absent"]
    /\ accepted = [r \in Rounds |-> {}]
    /\ targets = [r \in Rounds |-> [c \in Coordinates |-> "none"]]
    /\ history = [r \in Rounds |-> {}]
    /\ ema = [h \in Hotkeys |-> [c \in Coordinates |-> NoEma]]
    /\ marked = [r \in Rounds |-> {}]
    /\ metagraph \in SUBSET Hotkeys
    /\ missing = [h \in Hotkeys |-> 0] /\ lastSeen = metagraph
    /\ tick = NoTick

-----------------------------------------------------------------------------
(* The environment *)

NextDay ==
    /\ day < LastDay /\ day' = day + 1
    /\ UNCHANGED <<rounds, scores, metagraph, tracker, tick>>

\* A reveal passes the blacklist (miner_admission) and the handler; the handler's
\* own steps are those of RoundLifecycle.
AcceptReveal(h, r) ==
    /\ day = r /\ stage[r] = "open"
    /\ h \in metagraph
    /\ accepted' = [accepted EXCEPT ![r] = @ \union {h}]
    /\ UNCHANGED <<day, stage, scores, metagraph, tracker, tick>>

-----------------------------------------------------------------------------
(* The deregistration tracker *)

\* DeregistrationTracker.advance. A count above CONFIRMATION says no more.
Advanced(h, current) ==
    IF h \in current \/ ~(missing[h] > 0 \/ h \in lastSeen) THEN 0
    ELSE IF missing[h] < CONFIRMATION THEN missing[h] + 1
    ELSE missing[h]

\* resync_metagraph, between two ticks. Any hotkey may have registered or been
\* deregistered since the last one.
Resync ==
    /\ tick.pc = "idle"
    /\ metagraph' \in SUBSET Hotkeys
    /\ missing' = [h \in Hotkeys |-> Advanced(h, metagraph')]
    /\ lastSeen' = metagraph'
    /\ UNCHANGED <<day, rounds, scores, tick>>

\* The metagraph was refreshed, then the confirmation reads of
\* _on_metagraph_synced raised: the tracker does not see this generation.
ResyncRaises ==
    /\ Faults /\ tick.pc = "idle"
    /\ metagraph' \in SUBSET Hotkeys
    /\ UNCHANGED <<day, rounds, scores, tracker, tick>>

\* The process dies; the next one builds its metagraph and seeds the tracker from
\* the EMA rows.
Restart ==
    /\ metagraph' \in SUBSET Hotkeys
    /\ missing' = [h \in Hotkeys |-> 0]
    /\ lastSeen' = metagraph' \union Persisted
    /\ tick' = NoTick
    /\ UNCHANGED <<day, rounds, scores>>

-----------------------------------------------------------------------------
(* A tick: open, then each unfinished round from the oldest *)

StartTick ==
    /\ tick.pc = "idle"
    /\ tick' = [NoTick EXCEPT !.pc = "open", !.now = day]
    /\ UNCHANGED <<day, rounds, scores, metagraph, tracker>>

\* _open_active_round, which a universe failure keeps from opening, and
\* unfinished_rounds.
OpenActiveRound ==
    /\ tick.pc = "open"
    /\ LET opens == tick.now \in Rounds /\ stage[tick.now] = "absent"
       IN \/ opens /\ stage' = [stage EXCEPT ![tick.now] = "open"]
          \/ (opens => Faults) /\ UNCHANGED stage
    /\ tick' = [tick EXCEPT !.pc = "rounds", !.rounds = Unfinished']
    /\ UNCHANGED <<day, accepted, scores, metagraph, tracker>>

NextRound(r) ==
    /\ tick.pc = "rounds"
    /\ r \in tick.rounds /\ \A q \in tick.rounds : r <= q

\* _advance_one_round: publish the consensus if the reveals are over, go on to
\* resolve_due with a revealed round. A failure is contained.
PublishRound(r) ==
    /\ NextRound(r) /\ stage[r] = "open" /\ tick.now > r
    /\ \/ /\ stage' = [stage EXCEPT ![r] = "revealed"]
          /\ tick' = [tick EXCEPT !.pc = "horizons", !.left = Horizons]
       \/ /\ Faults /\ UNCHANGED stage
          /\ tick' = [tick EXCEPT !.rounds = @ \ {r}]
    /\ UNCHANGED <<day, accepted, scores, metagraph, tracker>>

EnterRound(r) ==
    /\ NextRound(r) /\ ~(stage[r] = "open" /\ tick.now > r)
    /\ tick' = IF stage[r] = "revealed"
               THEN [tick EXCEPT !.pc = "horizons", !.left = Horizons]
               ELSE [tick EXCEPT !.rounds = @ \ {r}]
    /\ UNCHANGED <<day, rounds, scores, metagraph, tracker>>

-----------------------------------------------------------------------------
(* resolve_due: the horizons of one round *)

NextHorizon(r, z) ==
    /\ tick.pc = "horizons"
    /\ r \in tick.rounds /\ \A q \in tick.rounds : r <= q
    /\ z \in tick.left /\ \A y \in tick.left : z <= y

DueAt(r, z) == r + z

\* has_assessment_resolution_marker
Marked(r, z) == z \in marked[r]

PassOver(r, z) ==
    /\ NextHorizon(r, z)
    /\ Marked(r, z) \/ tick.now <= DueAt(r, z)
    /\ tick' = [tick EXCEPT !.left = @ \ {z}]
    /\ UNCHANGED <<day, rounds, scores, metagraph, tracker>>

DueHorizon(r, z) ==
    NextHorizon(r, z) /\ ~Marked(r, z) /\ tick.now > DueAt(r, z)

\* The budget is spent, or a read meets its deadline: the rest is deferred.
Defer(r, z) ==
    /\ DueHorizon(r, z)
    /\ tick' = [tick EXCEPT !.left = {}, !.spent = TRUE]
    /\ UNCHANGED <<day, rounds, scores, metagraph, tracker>>

\* resolve_and_score raised before its transaction committed.
PassFails(r, z) ==
    /\ Faults /\ DueHorizon(r, z) /\ ~tick.spent
    /\ tick' = [tick EXCEPT !.left = @ \ {z}]
    /\ UNCHANGED <<day, rounds, scores, metagraph, tracker>>

-----------------------------------------------------------------------------
(* resolve_and_score *)

Expected(r, z) == Universe[r] \X {z}
\* Mutant: a resumed pass resolves the targets on record again.
UnresolvedRefetched(r, z) == Expected(r, z)
Unresolved(r, z) == {c \in Expected(r, z) : targets[r][c] = "none"}

\* Mutant: a pass that resolved something leaves its marker.
CompleteOnAnswer(r, z, answered) == answered # {}
Complete(r, z, answered) == Unresolved(r, z) \subseteq answered

\* Mutant: the round of the accepted reveal does not matter.
EligibleEver(r) == {h \in Hotkeys : \E q \in Rounds : h \in accepted[q]}
\* Hotkeys with an accepted reveal no later than the round.
EligibleFor(r) == {h \in Hotkeys : \E q \in Rounds : q <= r /\ h \in accepted[q]}

\* A miner whose only memory is of coordinates retired since owes nothing.
PreviouslyActive(r) ==
    {h \in Hotkeys : \E c \in Coordinates :
        HasEma(h, c) /\ (c \in Active \/ c \in Universe[r] \X Horizons)}

\* Mutant: absentees are charged while they are registered.
ScoringSetRegistered(r) ==
    ((PreviouslyActive(r) \intersect EligibleFor(r)) \union accepted[r]) \intersect metagraph
ScoringSet(r) == (PreviouslyActive(r) \intersect EligibleFor(r)) \union accepted[r]

\* ema_update, by level.
Observe(e, good) ==
    [level |-> IF good THEN TOP ELSE IF e.level > 0 THEN e.level - 1 ELSE 0,
     resolved |-> e.resolved + 1]

\* EMA states after the coordinates resolved now were scored.
Scored(r, resolved, good) ==
    [h \in Hotkeys |-> [c \in Coordinates |->
        IF h \in ScoringSet(r) /\ c \in resolved THEN Observe(ema[h][c], h \in good)
        ELSE ema[h][c]]]

\* The score history of a pass: one row per scored miner and resolved coordinate.
ScoreRows(r, resolved) == ScoringSet(r) \X resolved

\* _fully_decayed_hotkeys: zero-filled by this pass and below the threshold on
\* every active coordinate.
FullyDecayed(r, resolved, updated) ==
    {h \in ScoringSet(r) \ accepted[r] :
        /\ resolved \intersect Active # {}
        /\ \A c \in Active : updated[h][c].level = 0}

Pruned(updated, decayed) ==
    [h \in Hotkeys |-> [c \in Coordinates |->
        IF h \in decayed /\ c \in Active THEN NoEma ELSE updated[h][c]]]

\* One pass. The resolvers answer for some of the targets still missing, void
\* others, and leave the rest to a later pass (unavailable before the grace, or the
\* budget ended). All writes and the marker share one transaction.
ResolveAndScore(r, z) ==
    /\ DueHorizon(r, z) /\ ~tick.spent
    /\ \E answered \in SUBSET Unresolved(r, z) :
       \E resolved \in SUBSET answered, good \in SUBSET accepted[r] :
         LET updated == Scored(r, resolved, good)
             complete == Complete(r, z, answered)
         IN /\ targets' = [targets EXCEPT ![r] = [c \in Coordinates |->
                              IF c \in resolved THEN "resolved"
                              ELSE IF c \in answered THEN "voided" ELSE @[c]]]
            /\ history' = [history EXCEPT ![r] = @ \union ScoreRows(r, resolved)]
            /\ ema' = Pruned(updated, FullyDecayed(r, resolved, updated))
            /\ marked' = IF complete THEN [marked EXCEPT ![r] = @ \union {z}] ELSE marked
            /\ \E spent \in {FALSE, ~complete} :
                 tick' = [tick EXCEPT !.left = @ \ {z}, !.scored = TRUE, !.spent = spent]
    /\ UNCHANGED <<day, rounds, metagraph, tracker>>

\* The end of resolve_due: close the round whose horizons are all marked.
SettleRound(r) ==
    /\ tick.pc = "horizons" /\ tick.left = {}
    /\ r \in tick.rounds /\ \A q \in tick.rounds : r <= q
    /\ \/ Horizons \subseteq marked[r] /\ stage' = [stage EXCEPT ![r] = "closed"]
       \/ (Horizons \subseteq marked[r] => Faults) /\ UNCHANGED stage
    /\ tick' = [tick EXCEPT !.pc = "rounds", !.rounds = @ \ {r}]
    /\ UNCHANGED <<day, accepted, scores, metagraph, tracker>>

-----------------------------------------------------------------------------
(* Archival of confirmed deregistrations, then the tracker *)

\* The list of confirmed hotkeys is taken before the tick and cannot change in it.
StartArchival ==
    /\ tick.pc = "rounds" /\ tick.rounds = {}
    /\ tick' = [tick EXCEPT !.pc = "archive",
                            !.left = IF Confirmed = {} THEN {} ELSE Horizons]
    /\ UNCHANGED <<day, rounds, scores, metagraph, tracker>>

\* Mutant: one marked round opens the gate.
HorizonSettledOnce(z) == \E r \in Rounds : z \in marked[r]
\* all_unfinished_assessment_rounds_have_resolution_marker
HorizonSettled(z) == \A r \in Unfinished : z \in marked[r]

\* archive_assessment_ema_horizon takes the coordinates of one horizon.
ArchivedEma(z, hotkeys) ==
    [h \in Hotkeys |-> [c \in Coordinates |->
        IF h \in hotkeys /\ c[2] = z THEN NoEma ELSE ema[h][c]]]

\* Each settled horizon in turn; a failure is retried by a later tick.
ArchiveHorizon(z) ==
    /\ tick.pc = "archive"
    /\ z \in tick.left /\ \A y \in tick.left : z <= y
    /\ \/ /\ HorizonSettled(z)
          /\ ema' = ArchivedEma(z, Confirmed)
       \/ (HorizonSettled(z) => Faults) /\ UNCHANGED ema
    /\ tick' = [tick EXCEPT !.left = @ \ {z}]
    /\ UNCHANGED <<day, rounds, targets, history, marked, metagraph, tracker>>

HasUnfinishedSubmission(h) == \E r \in Unfinished : h \in accepted[r]

\* forget_settled
Settled(h) == h \notin Persisted /\ ~HasUnfinishedSubmission(h)

\* forward, back from the tick; the weights may not be readable, which skips the
\* pruning of the tracker.
FinishTick ==
    /\ tick.pc = "archive" /\ tick.left = {}
    /\ \/ missing' = [h \in Hotkeys |->
                        IF h \in Confirmed /\ Settled(h) THEN 0 ELSE missing[h]]
       \/ Faults /\ UNCHANGED missing
    /\ tick' = NoTick
    /\ UNCHANGED <<day, rounds, scores, metagraph, lastSeen>>

-----------------------------------------------------------------------------

Tick ==
    \/ StartTick \/ OpenActiveRound \/ StartArchival \/ FinishTick
    \/ \E r \in Rounds : PublishRound(r) \/ EnterRound(r) \/ SettleRound(r)
    \/ \E r \in Rounds, z \in Horizons :
         PassOver(r, z) \/ Defer(r, z) \/ PassFails(r, z) \/ ResolveAndScore(r, z)
    \/ \E z \in Horizons : ArchiveHorizon(z)

Next ==
    \/ NextDay \/ Resync \/ ResyncRaises \/ Restart
    \/ \E h \in Hotkeys, r \in Rounds : AcceptReveal(h, r)
    \/ Tick

Spec == Init /\ [][Next]_vars

-----------------------------------------------------------------------------
(* Properties *)

\* Every variable keeps its type.
TypeOK ==
    /\ day \in Nat
    /\ stage \in [Rounds -> {"absent", "open", "revealed", "closed"}]
    /\ accepted \in [Rounds -> SUBSET Hotkeys]
    /\ targets \in [Rounds -> [Coordinates -> {"none", "resolved", "voided"}]]
    /\ history \in [Rounds -> SUBSET (Hotkeys \X Coordinates)]
    /\ ema \in [Hotkeys -> [Coordinates -> [level : Nat, resolved : Nat]]]
    /\ marked \in [Rounds -> SUBSET Horizons]
    /\ metagraph \subseteq Hotkeys
    /\ missing \in [Hotkeys -> Nat] /\ lastSeen \subseteq Hotkeys
    /\ tick \in [pc : {"idle", "open", "rounds", "horizons", "archive"}, now : Nat,
                 rounds : SUBSET Rounds, left : SUBSET Horizons,
                 spent : BOOLEAN, scored : BOOLEAN]

\* A marker says the horizon needs no further pass: by then every target of the
\* frozen universe is on record, and every accepted forecast of a resolved target
\* has been scored, over however many truncated passes (the subset test of
\* resolve_and_score, and the one transaction of record_assessment_scoring_pass).
MarkedIsScored ==
    \A r \in Rounds : \A z \in marked[r] : \A c \in Expected(r, z) :
        /\ targets[r][c] # "none"
        /\ targets[r][c] = "resolved" => accepted[r] \X {c} \subseteq history[r]

\* No miner is charged for a round before its first accepted forecast, in whatever
\* order the rounds resolve (assessment_hotkeys_eligible_for_round).
NoRetroactiveCharge ==
    \A r \in Rounds : \A row \in history[r] :
        \E q \in Rounds : q <= r /\ row[1] \in accepted[q]

\* The EMA of a coordinate observes a round at most once: resolved_rounds never
\* exceeds the rounds in which the coordinate was scored, through retries, truncated
\* passes and restarts (idempotence in record_assessment_scoring_pass).
CountsDistinctRounds ==
    \A h \in Hotkeys, c \in Coordinates :
        ema[h][c].resolved <= Cardinality({r \in Rounds : <<h, c>> \in history[r]})

\* A score is not kept by staying away: when a later round resolves a coordinate, a
\* miner that forecast earlier and not in that round loses level there, registered
\* or not (the scoring set of resolve_and_score).
AbsenceIsCharged ==
    [][\A r \in Rounds, c \in Coordinates :
         targets[r][c] = "none" /\ targets'[r][c] = "resolved" =>
           \A h \in Hotkeys \ accepted[r] :
             ema[h][c].level > 0 /\ (\E q \in Rounds : q < r /\ h \in accepted[q])
               => ema'[h][c].level < ema[h][c].level]_vars

\* Archival takes no EMA a forecast still waiting for its target would continue
\* (the marker gate of _advance_rounds).
ArchivedOwesNothing ==
    [][tick.pc = "archive" =>
         \A h \in Hotkeys, c \in Coordinates :
           HasEma(h, c) /\ ~HasEma(h, c)' =>
             \A r \in Unfinished :
               h \in accepted[r] /\ c \in Expected(r, c[2]) => targets[r][c] # "none"]_vars

=============================================================================
