--------------------------- MODULE RoundLifecycle ---------------------------
(***************************************************************************)
(* One forecasting round: the commit and reveal handlers of the axon        *)
(* (endure/protocol/handlers.py) against the tick thread that opens, closes *)
(* and resolves the round (endure/protocol/validator_service.py and         *)
(* vertical.py), over the SQLite rows both share                            *)
(* (endure/storage/repository.py).                                          *)
(*                                                                          *)
(* Every storage call is one transaction and one action here: a handler     *)
(* captures its clock once and may be overtaken between any two of its      *)
(* calls by the tick, by another request, or by a crash that loses it.      *)
(*                                                                          *)
(* A payload stands for a (bundle_json, nonce_hex) pair and also for its    *)
(* commit hash: the hash covers both members and the hotkey, so distinct    *)
(* pairs have distinct hashes.                                              *)
(***************************************************************************)
EXTENDS Integers

CONSTANTS
    Hotkeys,        \* miners
    Payloads,       \* what a miner may commit to and reveal
    WellFormed,     \* the payloads _validate_reveal_bundle accepts
    NoPayload,      \* NULL in commit_hash, bundle_json and the snapshot
    Slots,          \* requests the axon may have in progress at once
    Horizons,       \* horizons in seconds after reveal_close, also their due times
    MAX_COMMITS,    \* max_commits_per_round
    MAX_REVEALS,    \* max_reveals_per_round
    COMMIT_OPEN, COMMIT_CLOSE, REVEAL_OPEN, REVEAL_CLOSE,   \* RoundWindows
    LastTime        \* bound: the clock stops here

ASSUME RoundAssumption ==
    /\ WellFormed \subseteq Payloads /\ NoPayload \notin Payloads
    /\ Horizons \subseteq Nat
    /\ MAX_COMMITS \in Nat \ {0} /\ MAX_REVEALS \in Nat \ {0}
    /\ COMMIT_OPEN \in Nat /\ COMMIT_CLOSE \in Nat /\ LastTime \in Nat
    /\ REVEAL_OPEN \in Nat /\ REVEAL_CLOSE \in Nat
    /\ COMMIT_OPEN <= COMMIT_CLOSE /\ COMMIT_CLOSE < REVEAL_OPEN
    /\ REVEAL_OPEN <= REVEAL_CLOSE

VARIABLES
    clock,
    round,       \* rounds.state; "absent" while there is no row
    sub,         \* submissions, one row per miner
    snapshot,    \* consensus_bundle_snapshots
    consensus,   \* the bundles assessment_consensus was computed from
    resolved,    \* assessment_horizon_resolutions: horizons with their marker
    req,         \* the requests in progress, and the last refusal of a slot
    tick,        \* the validator's tick thread
    acked        \* history: the (hotkey, payload) pairs answered as accepted

vars == <<clock, round, sub, snapshot, consensus, resolved, req, tick, acked>>
rows == <<round, sub, snapshot, consensus, resolved>>

Nothing == [h \in Hotkeys |-> NoPayload]
NoRow == [hash |-> NoPayload, payload |-> NoPayload, verdict |-> "none",
          commits |-> 0, reveals |-> 0]
NoRequest == [pc |-> "idle", hotkey |-> NoPayload, payload |-> NoPayload,
              timely |-> FALSE, accepted |-> FALSE, committed |-> NoPayload,
              dup |-> FALSE]
NoTick == [pc |-> "idle", now |-> 0, left |-> {}, all |-> TRUE, scored |-> FALSE]

PostReveal == {"revealed", "partially_scored", "closed"}
CommitWindow(t) == COMMIT_OPEN <= t /\ t <= COMMIT_CLOSE
RevealWindow(t) == REVEAL_OPEN <= t /\ t <= REVEAL_CLOSE
ActiveWindow(t) == COMMIT_OPEN <= t /\ t <= REVEAL_CLOSE
DueAt(h) == REVEAL_CLOSE + h

Accepted(h) == sub[h].verdict = "accepted"
AcceptedBundles ==
    [h \in Hotkeys |-> IF Accepted(h) THEN sub[h].payload ELSE NoPayload]

\* Mutant: a retry is recognised only while the round is open.
AcceptedWhileOpen(h) ==
    IF Accepted(h) /\ round = "open" THEN sub[h].payload ELSE NoPayload

\* Storage.accepted_reveal: after the close only members of the snapshot count.
AcceptedReveal(h) ==
    IF /\ Accepted(h)
       /\ round = "open" \/ snapshot[h] = sub[h].payload
    THEN sub[h].payload
    ELSE NoPayload

\* Storage.scoring_bundles: the live rows of an open round, then the snapshot.
ScoringBundles == IF round \in PostReveal THEN snapshot ELSE AcceptedBundles

\* The two reads a commit is checked against.
CommittedHash(h) == sub[h].hash
CommitCount(h) == sub[h].commits

Init ==
    /\ clock = 0 /\ round = "absent"
    /\ sub = [h \in Hotkeys |-> NoRow]
    /\ snapshot = Nothing /\ consensus = Nothing /\ resolved = {}
    /\ req = [s \in Slots |-> NoRequest]
    /\ tick = NoTick /\ acked = {}

-----------------------------------------------------------------------------
(* Requests *)

Busy(s) == req[s].pc \notin {"idle", "refused"}
CommitPc == {"commit_check", "commit_record"}

Arrives(s, h, p, pc, timely, dup) ==
    /\ ~Busy(s) /\ round # "absent"
    /\ req' = [req EXCEPT ![s] = [NoRequest EXCEPT !.pc = pc, !.hotkey = h,
                                  !.payload = p, !.timely = timely, !.dup = dup]]
    /\ UNCHANGED <<clock, rows, tick, acked>>

\* handle_commit up to round_windows: now_fn() is read here and never again.
CommitArrives(s, h, p) ==
    Arrives(s, h, p, "commit_check", CommitWindow(clock), FALSE)

\* handle_reveal up to the first storage read.
RevealArrives(s, h, p) ==
    Arrives(s, h, p, "reveal_check", RevealWindow(clock),
            RevealWindow(clock) /\ Accepted(h) /\ sub[h].payload = p)

Accepts(s) ==
    /\ req' = [req EXCEPT ![s] = NoRequest]
    /\ acked' = acked \union
                  (IF req[s].pc \in CommitPc THEN {}
                   ELSE {<<req[s].hotkey, req[s].payload>>})

Refuses(s) ==
    /\ req' = [req EXCEPT ![s] = [NoRequest EXCEPT !.pc = "refused",
                                                   !.dup = req[s].dup]]
    /\ UNCHANGED acked

Continues(s, pc) ==
    /\ req' = [req EXCEPT ![s].pc = pc]
    /\ UNCHANGED acked

\* The cap on changed hashes, then validate_commit's window. Both counts are
\* read together: at the cap the stored hash can no longer change.
CommitChecked(s) ==
    LET h == req[s].hotkey IN
    /\ req[s].pc = "commit_check"
    /\ IF /\ CommitCount(h) >= MAX_COMMITS => CommittedHash(h) = req[s].payload
          /\ req[s].timely
       THEN Continues(s, "commit_record")
       ELSE Refuses(s)
    /\ UNCHANGED <<clock, rows, tick>>

\* Mutant: the cap left to the handler's earlier read.
MayRecommitUncapped(h, p) == sub[h].hash # p /\ ~Accepted(h)

\* Storage.record_commit's UPDATE: a changed hash under the cap, never over an
\* accepted reveal. It leaves the payload of an earlier, rejected reveal.
MayRecommit(h, p) ==
    /\ sub[h].hash # p /\ ~Accepted(h)
    /\ sub[h].commits < MAX_COMMITS

RecordCommit(h, p) ==
    IF sub[h].verdict = "none" \/ MayRecommit(h, p)
    THEN sub' = [sub EXCEPT ![h].hash = p, ![h].verdict = "committed",
                            ![h].commits = @ + 1]
    ELSE UNCHANGED sub

CommitRecorded(s) ==
    LET h == req[s].hotkey
        p == req[s].payload IN
    /\ req[s].pc = "commit_record"
    /\ \/ /\ round = "open"
          /\ RecordCommit(h, p)
          /\ IF sub'[h].hash = p THEN Accepts(s) ELSE Refuses(s)
       \/ round # "open" /\ Refuses(s) /\ UNCHANGED sub
    /\ UNCHANGED <<clock, round, snapshot, consensus, resolved, tick>>

\* accepted_reveal and committed_hash; the miner's re-push of its accepted
\* payload is answered at once, an untimely or uncommitted one is refused.
RevealChecked(s) ==
    LET h == req[s].hotkey IN
    /\ req[s].pc = "reveal_check"
    /\ \/ /\ req[s].timely /\ AcceptedReveal(h) = req[s].payload
          /\ Accepts(s)
       \/ /\ ~(req[s].timely /\ AcceptedReveal(h) = req[s].payload)
          /\ ~req[s].timely \/ CommittedHash(h) = NoPayload
          /\ Refuses(s)
       \/ /\ req[s].timely /\ AcceptedReveal(h) # req[s].payload
          /\ CommittedHash(h) # NoPayload
          /\ req' = [req EXCEPT ![s].pc = "reveal_charge",
                                ![s].committed = CommittedHash(h)]
          /\ UNCHANGED acked
    /\ UNCHANGED <<clock, rows, tick>>

\* Mutant: the payload is validated, its hash is not.
WellFormedReveal(p, committed) == p \in WellFormed

\* validate_reveal against the hash read before the attempt was charged.
ValidReveal(p, committed) == p = committed /\ p \in WellFormed

\* Mutant: an attempt is charged without a look at the round's state.
MayChargeClosed(h) == sub[h].hash # NoPayload /\ sub[h].reveals < MAX_REVEALS

MayCharge(h) ==
    round = "open" /\ sub[h].hash # NoPayload /\ sub[h].reveals < MAX_REVEALS

\* record_reveal_attempt's one conditional UPDATE: whether it charged the attempt.
RecordRevealAttempt(h, charged) ==
    /\ charged = MayCharge(h)
    /\ sub' = IF charged THEN [sub EXCEPT ![h].reveals = @ + 1] ELSE sub

\* The attempt is charged, then the reveal is judged.
RevealCharged(s) ==
    LET h == req[s].hotkey IN
    /\ req[s].pc = "reveal_charge"
    /\ \/ /\ RecordRevealAttempt(h, TRUE)
          /\ req' = [req EXCEPT ![s].pc = "reveal_record",
                       ![s].accepted =
                          ValidReveal(req[s].payload, req[s].committed)]
       \/ /\ RecordRevealAttempt(h, FALSE)
          /\ req' = [req EXCEPT ![s].pc = "reveal_reread"]
    /\ UNCHANGED <<clock, round, snapshot, consensus, resolved, tick, acked>>

\* Not charged: an identical reveal accepted meanwhile still counts.
RevealReread(s) ==
    /\ req[s].pc = "reveal_reread"
    /\ req' = IF AcceptedReveal(req[s].hotkey) = req[s].payload
              THEN [req EXCEPT ![s].pc = "reveal_record", ![s].accepted = TRUE]
              ELSE [req EXCEPT ![s].pc = "reveal_classify"]
    /\ UNCHANGED <<clock, rows, tick, acked>>

\* RATE_LIMITED while the round is open ends the request; LATE_REVEAL still
\* reaches record_reveal.
RevealClassified(s) ==
    /\ req[s].pc = "reveal_classify"
    /\ IF round = "open" THEN Refuses(s) ELSE Continues(s, "reveal_record")
    /\ UNCHANGED <<clock, rows, tick>>

\* Storage.record_reveal: nothing after the close, nothing over an accepted
\* reveal, and no second write of the same verdict.
MayRecordReveal(h, p, verdict) ==
    /\ round = "open"
    /\ ~Accepted(h)
    /\ ~(sub[h].verdict = verdict /\ sub[h].payload = p)

RevealRecorded(s) ==
    LET h == req[s].hotkey
        p == req[s].payload
        verdict == IF req[s].accepted THEN "accepted" ELSE "rejected" IN
    /\ req[s].pc = "reveal_record"
    /\ IF MayRecordReveal(h, p, verdict)
       THEN /\ sub' = [sub EXCEPT ![h].payload = p, ![h].verdict = verdict]
            /\ IF req[s].accepted THEN Accepts(s) ELSE Refuses(s)
       ELSE /\ UNCHANGED sub
            /\ IF req[s].accepted THEN Continues(s, "reveal_confirm")
               ELSE Refuses(s)
    /\ UNCHANGED <<clock, round, snapshot, consensus, resolved, tick>>

\* Mutant: the verdict stands although record_reveal wrote nothing.
RevealUnconfirmed(s) ==
    /\ req[s].pc = "reveal_confirm" /\ Accepts(s)
    /\ UNCHANGED <<clock, rows, tick>>

\* An accepted verdict that wrote nothing is kept only for the durable member.
RevealConfirmed(s) ==
    /\ req[s].pc = "reveal_confirm"
    /\ IF AcceptedReveal(req[s].hotkey) = req[s].payload
       THEN Accepts(s) ELSE Refuses(s)
    /\ UNCHANGED <<clock, rows, tick>>

RequestStep(s) ==
    \/ CommitChecked(s) \/ CommitRecorded(s)
    \/ RevealChecked(s) \/ RevealCharged(s) \/ RevealReread(s)
    \/ RevealClassified(s) \/ RevealRecorded(s) \/ RevealConfirmed(s)

-----------------------------------------------------------------------------
(* The tick thread *)

TickStarts ==
    /\ tick.pc = "idle"
    /\ tick' = [NoTick EXCEPT !.pc = "open", !.now = clock]
    /\ UNCHANGED <<clock, rows, req, acked>>

\* Storage.open_round leaves a row that exists as it is.
OpenRound == round' = IF round = "absent" THEN "open" ELSE round

\* _open_active_round: outside every window, or when the universe cannot be
\* fetched, nothing is written.
OpenActiveRound ==
    /\ tick.pc = "open"
    /\ tick' = [tick EXCEPT !.pc = "advance"]
    /\ \/ ActiveWindow(tick.now) /\ OpenRound
       \/ UNCHANGED round
    /\ UNCHANGED <<clock, sub, snapshot, consensus, resolved, req, acked>>

MustPublish == round = "open" /\ tick.now > REVEAL_CLOSE
MayResolve == round \in {"revealed", "partially_scored"}

ToResolve == tick' = [tick EXCEPT !.pc = "resolve", !.left = Horizons]

\* _snapshot_consensus_bundles_if_open, under the writer lock.
SnapshotBundles ==
    IF round = "open" /\ snapshot = Nothing THEN AcceptedBundles ELSE snapshot

\* Mutant: consensus rows first, the reveal in a transaction of its own.
ConsensusThenReveal ==
    \/ /\ consensus = Nothing /\ AcceptedBundles # Nothing
       /\ consensus' = AcceptedBundles
       /\ UNCHANGED <<round, snapshot, tick>>
    \/ /\ consensus # Nothing \/ AcceptedBundles = Nothing
       /\ snapshot' = SnapshotBundles /\ round' = "revealed"
       /\ ToResolve /\ UNCHANGED consensus

\* A late or replayed publication never rewinds a scored round.
FlipRoundRevealed == round' = IF round = "open" THEN "revealed" ELSE round

\* publish_assessment_consensus_from_accepted_bundles_and_reveal: snapshot,
\* consensus rows and the flip in one transaction.
PublishConsensusAndReveal ==
    /\ snapshot' = SnapshotBundles
    /\ consensus' = IF consensus = Nothing THEN SnapshotBundles ELSE consensus
    /\ FlipRoundRevealed
    /\ ToResolve

\* _advance_one_round while the round is open and its reveal window is over.
Publish ==
    /\ tick.pc = "advance" /\ MustPublish
    /\ PublishConsensusAndReveal
    /\ UNCHANGED <<clock, sub, resolved, req, acked>>

\* The transaction raised and rolled back: contained, tried at the next tick.
PublishFails ==
    /\ tick.pc = "advance" /\ MustPublish
    /\ tick' = NoTick
    /\ UNCHANGED <<clock, rows, req, acked>>

\* A revealed round goes on to resolve_due; any other is left for a later tick.
AdvanceOneRound ==
    /\ tick.pc = "advance" /\ ~MustPublish
    /\ IF MayResolve THEN ToResolve ELSE tick' = NoTick
    /\ UNCHANGED <<clock, rows, req, acked>>

\* resolve_due takes the horizons in order; a marked one is passed over.
NextHorizon(h) ==
    /\ tick.pc = "resolve"
    /\ h \in tick.left /\ \A k \in tick.left : h <= k

PassOver(h) ==
    /\ NextHorizon(h)
    /\ h \in resolved \/ tick.now <= DueAt(h)
    /\ tick' = [tick EXCEPT !.left = @ \ {h}, !.all = @ /\ h \in resolved]
    /\ UNCHANGED <<clock, rows, req, acked>>

DueHorizon(h) == NextHorizon(h) /\ h \notin resolved /\ tick.now > DueAt(h)

\* resolve_and_score returned. The pass was complete and left its marker, or it
\* stored what it could and left none (truncated by the budget).
ResolveAndScore(h, complete) ==
    /\ DueHorizon(h)
    /\ resolved' = IF complete THEN resolved \union {h} ELSE resolved
    /\ tick' = [tick EXCEPT !.left = @ \ {h}, !.scored = TRUE]
    /\ UNCHANGED <<clock, round, sub, snapshot, consensus, req, acked>>

\* resolve_and_score raised: contained per horizon, the next one is tried. An
\* exhausted budget or ResolutionDeadlineExceeded defers the remaining ones.
ResolutionInterrupted(h, defers) ==
    /\ DueHorizon(h)
    /\ tick' = [tick EXCEPT !.left = IF defers THEN {} ELSE @ \ {h},
                            !.all = FALSE]
    /\ UNCHANGED <<clock, rows, req, acked>>

\* Mutant: only the tick that scored may close.
MayCloseScored == tick.all /\ tick.scored /\ Horizons \subseteq resolved

MayClose == tick.all /\ Horizons \subseteq resolved

\* Storage.set_round_state would also snapshot a round that were still open.
SetRoundState(state) ==
    /\ round' = state
    /\ snapshot' = IF state \in PostReveal THEN SnapshotBundles ELSE snapshot

\* The end of resolve_due.
SettleRound ==
    /\ tick.pc = "resolve" /\ tick.left = {}
    /\ IF MayClose THEN SetRoundState("closed")
       ELSE IF tick.scored THEN SetRoundState("partially_scored")
       ELSE UNCHANGED <<round, snapshot>>
    /\ tick' = NoTick
    /\ UNCHANGED <<clock, sub, consensus, resolved, req, acked>>

-----------------------------------------------------------------------------
(* The environment *)

\* Commits in progress end well before the reveals open: the windows are at
\* least a quarter of an hour apart and a handler makes a few local queries.
AdvanceClock ==
    /\ clock < LastTime /\ clock' = clock + 1
    /\ clock' = REVEAL_OPEN => \A s \in Slots : req[s].pc \notin CommitPc
    /\ UNCHANGED <<rows, req, tick, acked>>

\* The process dies: requests and the tick are gone, the rows stay.
Crash ==
    /\ req' = [s \in Slots |-> NoRequest] /\ tick' = NoTick
    /\ UNCHANGED <<clock, rows, acked>>

Tick ==
    \/ TickStarts \/ OpenActiveRound
    \/ Publish \/ PublishFails \/ AdvanceOneRound
    \/ \E h \in Horizons :
          \/ PassOver(h)
          \/ \E outcome \in BOOLEAN :
                ResolveAndScore(h, outcome) \/ ResolutionInterrupted(h, outcome)
    \/ SettleRound

RoundStep ==
    \/ \E s \in Slots :
          \/ \E h \in Hotkeys, p \in Payloads :
                CommitArrives(s, h, p) \/ RevealArrives(s, h, p)
          \/ RequestStep(s)
    \/ Tick \/ AdvanceClock

Next == RoundStep \/ Crash

Spec == Init /\ [][Next]_vars

\* The clock runs, requests are served, the run loop keeps ticking, and neither
\* failures nor restarts hit one and the same step of every tick for ever. Steps
\* that exclude each other at one point of the tick share their fairness.
Fairness ==
    /\ SF_vars(AdvanceClock) /\ \A s \in Slots : WF_vars(RequestStep(s))
    /\ WF_vars(TickStarts)
    /\ SF_vars(OpenActiveRound) /\ SF_vars(AdvanceOneRound \/ Publish)
    /\ \A h \in Horizons : SF_vars(PassOver(h) \/ ResolveAndScore(h, TRUE))
    /\ SF_vars(SettleRound)

FairSpec == Spec /\ Fairness

-----------------------------------------------------------------------------
(* Properties *)

Rows == [hash : Payloads \union {NoPayload}, payload : Payloads \union {NoPayload},
         verdict : {"none", "committed", "accepted", "rejected"},
         commits : 0..MAX_COMMITS, reveals : 0..MAX_REVEALS]
Requests ==
    [pc : CommitPc \union {"idle", "refused", "reveal_check", "reveal_charge",
                           "reveal_reread", "reveal_classify", "reveal_record",
                           "reveal_confirm"},
     hotkey : Hotkeys \union {NoPayload}, payload : Payloads \union {NoPayload},
     committed : Payloads \union {NoPayload},
     timely : BOOLEAN, accepted : BOOLEAN, dup : BOOLEAN]
Ticks == [pc : {"idle", "open", "advance", "resolve"}, now : Nat,
          left : SUBSET Horizons, all : BOOLEAN, scored : BOOLEAN]

\* Every variable keeps its type; in particular neither admission counter
\* passes its cap, whatever requests overlap.
TypeOK ==
    /\ clock \in Nat /\ round \in PostReveal \union {"absent", "open"}
    /\ sub \in [Hotkeys -> Rows]
    /\ snapshot \in [Hotkeys -> Payloads \union {NoPayload}]
    /\ consensus \in [Hotkeys -> Payloads \union {NoPayload}]
    /\ resolved \subseteq Horizons
    /\ req \in [Slots -> Requests] /\ tick \in Ticks
    /\ acked \subseteq Hotkeys \X Payloads

\* A reveal answered as accepted is the miner's durable forecast and, before and
\* after the round leaves "open", the one the round scores (handle_reveal's last
\* branch: "A no-op is successful only for the durable accepted member").
AckedIsScored ==
    \A a \in acked :
        /\ Accepted(a[1]) /\ sub[a[1]].payload = a[2]
        /\ ScoringBundles[a[1]] = a[2]

\* After the close the snapshot that scores, the accepted rows that decide who
\* is eligible, and the bundles behind the published consensus are one set.
FrozenSetAgrees ==
    round \in PostReveal => snapshot = AcceptedBundles /\ consensus = AcceptedBundles

\* Every accepted forecast opens the hash its miner is committed to
\* (record_commit never replaces the hash below an accepted reveal).
AcceptedOpensCommit ==
    \A h \in Hotkeys : Accepted(h) => /\ sub[h].payload = sub[h].hash
                                   /\ sub[h].payload \in WellFormed

\* A miner that re-pushes its accepted reveal inside the window is never
\* refused, even if the round closes while the retry is served.
RetryIsAcknowledged ==
    \A s \in Slots : ~(req[s].pc = "refused" /\ req[s].dup)

\* A closed round has every horizon resolved: a pass the budget truncated
\* returns normally but leaves no marker (resolve_due's second condition).
ClosedIsResolved == round = "closed" => resolved = Horizons

\* Closing freezes admission: no submission row, counter included, ever changes
\* after the round leaves "open" (record_reveal_attempt: "closure also freezes
\* admission counters"; "no reveal can write after closure").
AdmissionFrozen == [][(round \in PostReveal) => (UNCHANGED sub)]_vars

\* No commitment changes once the reveal window is open and the forecasts of
\* others may be visible (validate_commit judges the arrival time).
CommitsPrecedeReveals ==
    [][(clock >= REVEAL_OPEN)
         => (\A h \in Hotkeys : sub'[h].hash = sub[h].hash)]_vars

\* A round that opened closes, through failed publications, truncated passes
\* and restarts between any two transactions (resolve_due skips marked
\* horizons and the unfinished_rounds query takes the round up again).
OpenRoundCloses == round = "open" ~> round = "closed"
=============================================================================
