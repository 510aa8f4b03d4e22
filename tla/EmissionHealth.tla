---------------------------- MODULE EmissionHealth ----------------------------
(***************************************************************************)
(* What /health says of weight emission (neurons/validator.py): the clock   *)
(* of a vote that is due and not sent, kept by the run loop at every pass   *)
(* and by the API's threads at every request, each from what it read        *)
(* before it took the emission lock.                                        *)
(*                                                                         *)
(* The monotonic clock is counted in blocks.  What a plan or a sync learns  *)
(* of the chain is a choice; how votes are made is EmissionAttempt's.  The  *)
(* reasons and the burn rate a response shows, the alarms of the RPC gate   *)
(* and of an open batch past its deadline, and those of a blocked vote      *)
(* (EmissionAttempt) are left out.                                          *)
(***************************************************************************)
EXTENDS Integers

CONSTANTS
    EPOCH,          \* neuron.epoch_length
    TICK_MAX,       \* health_tick_max_duration_seconds, in blocks
    GRACE,          \* health_startup_grace_seconds, in blocks
    FENCE,          \* blocks of the startup fence
    OwnerVote,      \* there is an owner-vote network
    Readers,        \* threads of the API
    \* Bounds of the model and of the environment.
    RESPONSE,       \* blocks a response takes at most
    PASS,           \* blocks between two checks of the run loop at most
    RateWaits,      \* blocks a plan may find to be missing to the rate limit
    MaxBlock

ASSUME HealthAssumption ==
    /\ EPOCH \in Nat \ {0} /\ TICK_MAX \in Nat /\ GRACE \in Nat /\ FENCE \in Nat
    /\ OwnerVote \in BOOLEAN
    /\ RESPONSE \in Nat /\ PASS \in Nat \ {0}
    /\ RateWaits \subseteq Nat \ {0} /\ MaxBlock \in Nat

VARIABLES
    head,
    meta,       \* the cached metagraph: its block, the permit it shows
    positive,   \* some score is positive
    em,         \* the emission fields _emission_state guards
    last,       \* _last_weights_attempt
    fence,      \* the startup fence
    open,       \* a submission waits for its confirmation
    pc,         \* where the run loop is
    checked,    \* block of its last check
    reader,     \* per API thread: what it read
    answer,     \* the response just given, if any
    owed,       \* history: since when the loop finds a vote due that is not sent
    waited      \* history: when the loop last waited for more than its own pacing

fields == <<meta, positive, em, last, fence, open>>
vars == <<head, fields, pc, checked, reader, answer, owed, waited>>

Never == -1
None == "none"
Scores == "score_state_unavailable"
Refused == "refused"    \* any other EmissionBlocked.reason

NotReading == [pc |-> "idle", begun |-> 0, block |-> 0,
               open |-> FALSE, fence |-> Never]

Larger(x, y) == IF x >= y THEN x ELSE y

-----------------------------------------------------------------------------
(* Mode, wait and clock.                                                   *)

\* _observed_emission_mode, with select_emission_mode.
ObservedMode(e, scored) ==
    IF e.block # None THEN "abstain"
    ELSE IF scored THEN "scored"
    ELSE IF OwnerVote THEN "owner_vote" ELSE "abstain"

\* _note_head_block
NoteHead(e, block) == [e EXCEPT !.note = Larger(@, block)]

\* Mutant: the gates are judged at the cached block.
JudgedAtCached(e, block) == block

\* The newest live head an emission decision was taken at, or the cached block.
JudgedAt(e, block) == Larger(block, e.note)

\* A snapshot as new as the block overrules the metagraph's permit.
Permitted(e, block) == IF e.snapBlock >= block THEN e.snapPermit ELSE meta.permit

\* _emission_wait_reason # None
Waits(e, mode, block, pending, fenced, since) ==
    \/ mode = "abstain"
    \/ pending
    \/ fenced = Never \/ block <= fenced
    \/ ~Permitted(e, block)
    \/ block < e.chainDue
    \/ last = Never
    \/ block < last + EPOCH + 1 /\ since = Never  \* a failed attempt is no progress

\* _emission_deadline, set with _emission_expected_since and only with it
Deadline(since) == Larger(since + TICK_MAX, GRACE)

\* _defer_emission
Defer(e, scored) ==
    [e EXCEPT !.since = Never, !.mode = ObservedMode(e, scored)]

\* _refresh_emission_health
RefreshHealth(e, block, pending, fenced) ==
    LET mode == ObservedMode(e, positive)
        since == IF mode = e.mode THEN e.since ELSE Never
    IN IF Waits(e, mode, JudgedAt(e, block), pending, fenced, since) THEN Defer(e, positive)
       ELSE [e EXCEPT !.mode = mode, !.since = IF since = Never THEN head ELSE since]

-----------------------------------------------------------------------------
(* What keeps a vote from being made.                                      *)

\* _block_emission; how long a vote has been blocked is EmissionAttempt's.
BlockEmission(e, reason, scored) ==
    Defer([e EXCEPT !.underlying = IF reason = Scores /\ e.block \notin {None, Scores}
                                   THEN e.block ELSE @,
                    !.block = reason],
          scored)

\* _clear_emission_block
ClearBlock(e) == [e EXCEPT !.block = None, !.underlying = None]

\* The scores could be read again: what the failed read interrupted goes on.
ScoresRestored(e) ==
    IF e.block = Scores THEN [e EXCEPT !.block = e.underlying, !.underlying = None] ELSE e

-----------------------------------------------------------------------------
Init ==
    /\ head = 0
    /\ meta = [block |-> 0, permit |-> TRUE]
    /\ positive \in BOOLEAN
    /\ LET fresh == [mode |-> "abstain", since |-> Never, block |-> None, underlying |-> None,
                     chainDue |-> 0, snapBlock |-> Never, snapPermit |-> FALSE, note |-> Never]
       \* _load_durable_scores, with a tie seed the archive cannot give yet
       IN em \in {fresh, BlockEmission(fresh, Scores, positive)}
    /\ last = Never /\ fence \in {Never, 0}
    /\ open = FALSE
    /\ pc = "idle" /\ checked = Never
    /\ reader = [r \in Readers |-> NotReading]
    /\ answer = None
    /\ owed = Never /\ waited = 0

\* A response is an event: it is over with the next step.
Quiet == answer' = None

\* Responses and passes of the loop take a bounded time.
NewBlock ==
    /\ head < MaxBlock
    /\ head < checked + PASS
    /\ \A r \in Readers : reader[r].pc # "idle" => head < reader[r].begun + RESPONSE
    /\ head' = head + 1 /\ Quiet
    /\ UNCHANGED <<fields, pc, checked, reader, owed, waited>>

-----------------------------------------------------------------------------
(* The run loop.                                                           *)

ModeMoves == ObservedMode(em', positive') # ObservedMode(em, positive)

\* A step of the loop which defers, or leaves the clock alone.
LoopDefers == waited' = head /\ owed' = Never
LoopGoesOn ==
    /\ UNCHANGED waited
    /\ owed' = IF ModeMoves THEN Never ELSE owed
LoopOnly == Quiet /\ UNCHANGED <<head, checked, reader>>

\* sync() paces the next attempt on this one, whatever came of it.
AttemptEnds == pc' = "idle" /\ last' = head

\* A scoring pass may move the scores.
Tick ==
    /\ pc = "idle" /\ checked # head
    /\ positive' = ~positive
    /\ UNCHANGED <<meta, em, last, fence, open, pc>>
    /\ LoopGoesOn /\ LoopOnly

\* By the facts of now: the loop waits, for more than a pacing over at `since'.
NothingDue(e, since) ==
    Waits(e, ObservedMode(e, positive), Larger(meta.block, e.note), open, fence, since)

SyncDue == head - meta.block > EPOCH

\* should_set_weights of the base class; the gate may not be ready for it.
Paced == last # Never /\ head - last > EPOCH

\* should_set_weights: the head is noted when an attempt is due, the health
\* refreshed at every pass.
Check ==
    /\ pc = "idle" /\ checked # head
    /\ checked' = head
    /\ \E ready \in BOOLEAN :
         LET due == ready /\ Paced
             noted == IF due THEN NoteHead(em, head) ELSE em
         IN /\ em' = RefreshHealth(noted, meta.block, open, fence)
            /\ last' = IF ready /\ last = Never THEN head ELSE last
            /\ pc' = IF SyncDue THEN "resync" ELSE IF due THEN "weights" ELSE "idle"
            \* without the head, a clock that was stopped cannot start again
            /\ owed' = IF NothingDue(noted, owed) \/ (~ready /\ em'.since = Never) THEN Never
                       ELSE IF owed = Never THEN head ELSE owed
            /\ waited' = IF NothingDue(noted, head) THEN head ELSE waited
    /\ Quiet /\ UNCHANGED <<head, meta, positive, fence, open, reader>>

\* resync_metagraph and the refresh of the scores in _on_metagraph_synced.
Resync ==
    /\ pc = "resync"
    /\ \E permit \in BOOLEAN : meta' = [block |-> head, permit |-> permit]
    /\ \/ positive' \in BOOLEAN /\ em' = ScoresRestored(em) /\ LoopGoesOn
       \/ \* unreadable, and slots that changed hands are zero
          /\ positive' \in {positive, FALSE}
          /\ em' = BlockEmission(em, Scores, positive') /\ LoopDefers
    /\ pc' = IF open THEN "reconcile" ELSE "idle"
    /\ LoopOnly /\ UNCHANGED <<last, fence, open>>

\* _resolve_weight_confirmations
Reconcile ==
    /\ pc = "reconcile" /\ pc' = "idle"
    /\ UNCHANGED <<meta, positive, last, fence>>
    /\ \/ UNCHANGED <<em, open>> /\ LoopGoesOn
       \/ open' = FALSE /\ UNCHANGED em /\ LoopGoesOn
       \/ open' = FALSE /\ em' = Defer(em, positive) /\ LoopDefers
    /\ LoopOnly

\* A read is deferred by the gate or fails: the attempt is not counted.
ReadRaises ==
    /\ pc \in {"resync", "weights", "ready", "planning"}
    /\ pc' = "idle"
    /\ UNCHANGED fields /\ LoopGoesOn /\ LoopOnly

\* set_weights: the scores, then the mode they give.
ReadScores ==
    /\ pc = "weights"
    /\ \/ \* unreadable
          /\ UNCHANGED positive
          /\ em' = BlockEmission(em, Scores, positive)
          /\ AttemptEnds /\ LoopDefers
       \/ \* abstaining
          /\ ~OwnerVote /\ positive' = FALSE
          /\ em' = Defer(ClearBlock(em), FALSE)
          /\ AttemptEnds /\ LoopDefers
       \/ \* _set_emission_observation keeps the clock
          /\ positive' \in BOOLEAN /\ (positive' \/ OwnerVote)
          /\ LET read == ScoresRestored(em)
             IN em' = [read EXCEPT !.mode = ObservedMode(read, positive')]
          /\ pc' = "ready" /\ UNCHANGED last /\ LoopGoesOn
    /\ LoopOnly /\ UNCHANGED <<meta, fence, open>>

\* _weight_emission_ready
Ready ==
    /\ pc = "ready"
    /\ fence' = IF fence = Never THEN head + FENCE ELSE fence
    /\ UNCHANGED <<meta, positive, open>>
    /\ IF head <= fence' \/ open
       THEN em' = Defer(em, positive) /\ AttemptEnds /\ LoopDefers
       ELSE UNCHANGED <<em, last>> /\ pc' = "planning" /\ LoopGoesOn
    /\ LoopOnly

\* _plan_emission from one snapshot at the head: refused, not due, or due.
PlanRefused ==
    /\ pc = "planning"
    /\ UNCHANGED <<meta, positive, fence, open>>
    /\ em' = BlockEmission(NoteHead(em, head), Refused, positive)
    /\ AttemptEnds /\ LoopDefers
    /\ LoopOnly

PlanMade ==
    /\ pc = "planning"
    /\ UNCHANGED <<meta, positive, fence, open>>
    /\ \E permit \in BOOLEAN, wait \in RateWaits \cup {0} :
         LET made == [ClearBlock(NoteHead(em, head)) EXCEPT
                        !.chainDue = head + wait, !.snapPermit = permit, !.snapBlock = head]
         IN IF permit /\ wait = 0
            THEN em' = made /\ UNCHANGED last /\ pc' = "emitting" /\ LoopGoesOn
            ELSE em' = Defer(made, positive) /\ AttemptEnds /\ LoopDefers
    /\ LoopOnly

\* _emit_weight_candidate fails before, or refuses, the prepared row.
EmitFails ==
    /\ pc = "emitting"
    /\ em' = [em EXCEPT !.mode = ObservedMode(em, positive)]
    /\ UNCHANGED <<meta, positive, fence, open>>
    /\ AttemptEnds /\ LoopGoesOn /\ LoopOnly

\* _on_weights_prepared: from here on a batch is on record.
PrepareRow ==
    /\ pc = "emitting" /\ pc' = "sending"
    /\ open' = TRUE
    /\ em' = [em EXCEPT !.mode = ObservedMode(em, positive)]
    /\ UNCHANGED <<meta, positive, last, fence>>
    /\ owed' = Never /\ UNCHANGED waited /\ LoopOnly

\* _on_weights_emitted: only a submission defers; a failed one closes its batch.
Outcome ==
    /\ pc = "sending"
    /\ UNCHANGED <<meta, positive, fence>>
    /\ \/ em' = Defer(em, positive) /\ UNCHANGED open /\ LoopDefers
       \/ em' = [em EXCEPT !.mode = ObservedMode(em, positive)] /\ open' \in BOOLEAN /\ LoopGoesOn
    /\ AttemptEnds /\ LoopOnly

-----------------------------------------------------------------------------
(* The API's threads: runtime_health.                                      *)

\* The cached block, then the counters and the fence, before the lock.
Ask(r) ==
    /\ reader[r].pc = "idle"
    /\ reader' = [reader EXCEPT ![r] = [NotReading EXCEPT
                    !.pc = "asked", !.begun = head, !.block = meta.block]]
    /\ Quiet /\ UNCHANGED <<head, fields, pc, checked, owed, waited>>

ReadSummary(r) ==
    /\ reader[r].pc = "asked"
    /\ reader' = [reader EXCEPT ![r].pc = "read", ![r].open = open, ![r].fence = fence]
    /\ Quiet /\ UNCHANGED <<head, fields, pc, checked, owed, waited>>

\* _runtime_health_snapshot, under the lock.
Answer(r) ==
    /\ reader[r].pc = "read"
    /\ em' = RefreshHealth(em, reader[r].block, reader[r].open, reader[r].fence)
    /\ answer' = IF em'.since # Never /\ head > Deadline(em'.since) THEN "overdue" ELSE "in time"
    /\ reader' = [reader EXCEPT ![r] = NotReading]
    /\ UNCHANGED <<head, meta, positive, last, fence, open, pc, checked, owed, waited>>

-----------------------------------------------------------------------------
Loop ==
    \/ Tick \/ Check \/ Resync \/ Reconcile \/ ReadRaises
    \/ ReadScores \/ Ready \/ PlanRefused \/ PlanMade
    \/ EmitFails \/ PrepareRow \/ Outcome

Next ==
    \/ NewBlock \/ Loop
    \/ \E r \in Readers : Ask(r) \/ ReadSummary(r) \/ Answer(r)

Spec == Init /\ [][Next]_vars

-----------------------------------------------------------------------------
(* Properties.                                                             *)

\* How much longer than one window a vote may be due before a response says so:
\* a response begun before the vote became due may still stop its clock, which
\* then waits for the pacing of the attempt under way and for the next check.
Slack == RESPONSE + PASS + EPOCH + PASS

\* A vote that the loop finds due, without a deferral and without a submission
\* prepared, is reported when its window has passed, whatever attempts failed and
\* whatever older state the API's threads judge the shared clock by; and no
\* response reports a vote for which the run loop had something to wait for
\* within the window.
AlarmIsRight ==
    /\ answer = "in time" /\ owed # Never /\ ~NothingDue(em, owed) =>
         head <= Deadline(owed) + Slack
    /\ answer = "overdue" => head > Deadline(waited)
=============================================================================
