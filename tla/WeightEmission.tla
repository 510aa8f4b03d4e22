--------------------------- MODULE WeightEmission ---------------------------
(***************************************************************************)
(* Durable weight emission: one validator process, its SQLite ledger of    *)
(* emission batches and the chain it submits to.                           *)
(*                                                                         *)
(*   src/endure/base/validator.py        _emit_weight_candidate            *)
(*   src/neurons/validator.py            set_weights and the reconciliation *)
(*   src/endure/storage/repository.py    the batch ledger                  *)
(*                                                                         *)
(* A batch is written as "prepared" before the SDK is invoked, moves to    *)
(* "submitted", "ambiguous" or "failed" when the call returns, and is      *)
(* decided ("confirmed" or "unconfirmed") from finalized chain state only. *)
(* The process may crash between any two steps, the SDK call may time out  *)
(* with its thread still running, and the extrinsic it signed stays        *)
(* includable for PERIOD blocks.                                           *)
(***************************************************************************)
EXTENDS Integers, FiniteSetsExt

CONSTANTS
    Vectors,        \* weight vectors a plan can produce
    NoVector,       \* no weights on chain
    Rosters,        \* assignments of hotkeys to the subnet's slots
    FirstRoster,    \* the one at the start
    Holders,        \* [roster, vector]: who holds the slots the vector gives weight to
    PERIOD,         \* WEIGHT_EMISSION_PERIOD_BLOCKS: extrinsic mortality
    MARGIN,         \* WEIGHT_EMISSION_FINALITY_MARGIN_BLOCKS
    TEMPO,          \* blocks of one subnet epoch
    REVEAL_EPOCHS,  \* RevealPeriodEpochs of the subnet
    REVEAL_JITTER,  \* blocks a reveal may come after its epoch starts
    RATE_LIMIT,     \* weights_rate_limit of the subnet
    SIGN_DELAY,     \* blocks from the submission sample to the signature
    CALL_BLOCKS,    \* blocks the RPC gate's timeout lets a submission last
    SCAN_BATCH,     \* CR4_REVEAL_SCAN_BATCH_BLOCKS
    MIN_LAG,        \* blocks finality trails the head at least
    FINALITY_LAG,   \* blocks finality trails the head at most
    \* Bounds of the model; the code has none of them.
    MaxAttempts,    \* batches ever recorded
    MaxBlock,       \* last block of the chain
    LastFence,      \* the startup fence is recorded by this block
    SubmissionBlocks, \* blocks at which a batch may be prepared
    SyncBlocks,     \* blocks at which the metagraph may be synced
    MaxToggles,     \* changes of the subnet's commit-reveal switch
    MaxMoves,       \* re-registrations of the validator under a new UID
    RosterBlocks,   \* blocks with which slots may change hands
    InitialModes,   \* initial settings of the commit-reveal switch
    LegacyStates    \* what an untracked writer left on chain before the start

Attempts == 1 .. MaxAttempts

\* Attempt 0 is the extrinsic of an earlier writer that the ledger never saw.
Legacy == 0
Extrinsics == 0 .. MaxAttempts

Never == -1
Block == 0 .. MaxBlock
Height == Block \cup {Never}

OpenStates == {"prepared", "submitted", "ambiguous"}
States == OpenStates \cup {"absent", "confirmed", "unconfirmed", "failed"}
Modes == {"direct", "cr4"}
Phases == {"unsent", "pool", "expired", "committed", "applied"}

ASSUME ChainAssumption ==
    /\ PERIOD \in Nat \ {0} /\ MARGIN \in Nat /\ MARGIN <= PERIOD
    /\ TEMPO \in Nat \ {0} /\ REVEAL_EPOCHS \in Nat \ {0}
    /\ REVEAL_JITTER \in Nat /\ RATE_LIMIT \in Nat /\ SIGN_DELAY \in Nat
    /\ CALL_BLOCKS \in Nat /\ SCAN_BATCH \in Nat \ {0}
    /\ MIN_LAG \in Nat /\ FINALITY_LAG \in Nat /\ MIN_LAG <= FINALITY_LAG
ASSUME BoundAssumption ==
    /\ MaxAttempts \in Nat /\ MaxBlock \in Nat
    /\ LastFence \in Nat /\ SubmissionBlocks \subseteq Nat /\ SyncBlocks \subseteq Nat
    /\ MaxToggles \in Nat /\ MaxMoves \in Nat /\ RosterBlocks \subseteq Nat
    /\ InitialModes \subseteq BOOLEAN
    /\ LegacyStates \subseteq {"none", "pool", "applied"}
ASSUME VectorAssumption == NoVector \notin Vectors /\ FirstRoster \in Rosters
\* Of the deployment: the finality margin covers the delay of a signature and of a
\* reveal, an extrinsic cannot outlive the epoch after its sample, and finality
\* trails the head.
ASSUME DeploymentAssumption ==
    /\ SIGN_DELAY <= MARGIN /\ REVEAL_JITTER <= MARGIN
    /\ PERIOD + SIGN_DELAY <= TEMPO + 1
    /\ MIN_LAG # 0

VARIABLES
    \* The chain.
    head,           \* newest block
    commitReveal,   \* commit_reveal_enabled of the subnet
    uids,           \* UID of the validator's hotkey, by block
    roster,         \* which hotkey holds which slot, by block
    ext,            \* the extrinsics of the hotkey
    \* The validator's database.
    ledger,         \* weight_emission_batches
    count,          \* batches recorded so far
    fence,          \* weight_emission_startup_fences
    \* The validator process.
    pc,             \* where the run loop is
    snap,           \* finalized block of the reconciliation under way
    scanned,        \* [batch, end] of the reveal window just read
    running,        \* attempts whose SDK thread may still sign
    toggles         \* flips of the switch, for the bound

chainVars == <<head, commitReveal, uids, roster>>
dbVars == <<ledger, count, fence>>
localVars == <<snap, scanned>>
processVars == <<pc, localVars, running>>
vars == <<chainVars, ext, dbVars, processVars, toggles>>

-----------------------------------------------------------------------------
(***************************************************************************)
(* The chain as the validator can read it at a block.                      *)
(***************************************************************************)
Larger(x, y) == IF x >= y THEN x ELSE y
Smaller(x, y) == IF x <= y THEN x ELSE y

Epoch(b) == b \div TEMPO

\* A UID is named by the block that registered it.
UidAt(b) == uids[b]

\* The hotkeys at the slots a vector gives weight to, as one value.
HotkeysAt(b, vec) == Holders[roster[b]][vec]
Hotkeys == {Holders[r][vec] : r \in Rosters, vec \in Vectors}

IncludedBy(b) == {a \in Extrinsics : ext[a].incl # Never /\ ext[a].incl <= b}

\* last_update advances when weights are set or a CR4 commitment is accepted.
LastUpdateAt(b) == Max({UidAt(b)} \cup {ext[a].incl : a \in IncludedBy(b)})

AppliedBy(b) ==
    {a \in Extrinsics : /\ ext[a].applied # Never
                        /\ UidAt(b) <= ext[a].applied /\ ext[a].applied <= b}

WeightsAt(b) ==
    IF AppliedBy(b) = {} THEN NoVector
    ELSE LET last == CHOOSE a \in AppliedBy(b) :
                       \A c \in AppliedBy(b) : ext[c].applied <= ext[a].applied
         IN ext[last].vec

\* finalized_block: finality trails the head.
FinalizedBlocks == {b \in head - FINALITY_LAG .. head - MIN_LAG : b >= 0}

\* timelocked_weight_commits_at: accepted and not yet revealed.
CommitsAt(b) ==
    {a \in IncludedBy(b) : /\ ext[a].mode = "cr4"
                           /\ ext[a].applied = Never \/ ext[a].applied > b}

RevealsIn(lo, hi) ==
    {b \in lo .. hi : \E a \in Extrinsics : /\ ext[a].mode = "cr4"
                                            /\ ext[a].applied = b}

RevealStart(a) == (Epoch(ext[a].incl) + REVEAL_EPOCHS) * TEMPO

Unsent == [phase |-> "unsent", vec |-> NoVector, mode |-> "direct",
           signed |-> Never, incl |-> Never, applied |-> Never]

NoHotkeys == "none"
Absent == [state |-> "absent", mode |-> "direct", vec |-> NoVector,
           hotkeys |-> NoHotkeys, uid |-> 0, sub |-> Never, deadline |-> Never,
           revealDeadline |-> Never, commitment |-> Never, observed |-> Never,
           cursor |-> Never]

NoScan == [batch |-> 0, end |-> 0]

IsOpen(a) == ledger[a].state \in OpenStates
OpenConfirmation == \E a \in Attempts : IsOpen(a)

-----------------------------------------------------------------------------
(***************************************************************************)
(* Initial states: a fresh process and database, and possibly an extrinsic *)
(* or weights left by a writer that kept no ledger.                        *)
(***************************************************************************)
LegacyExtrinsic(kind, vec, mode) ==
    CASE kind = "none" -> Unsent
      [] kind = "pool" -> [Unsent EXCEPT !.phase = "pool", !.vec = vec,
                                         !.mode = mode, !.signed = 0]
      [] kind = "applied" -> [Unsent EXCEPT !.phase = "applied", !.vec = vec,
                                                !.incl = 0, !.applied = 0]

Init ==
    /\ head = 0 /\ uids = [b \in Block |-> 0]
    /\ roster = [b \in Block |-> FirstRoster]
    /\ commitReveal \in InitialModes
    /\ \E kind \in LegacyStates, vec \in Vectors :
         ext = [a \in Extrinsics |->
                  IF a = Legacy
                  THEN LegacyExtrinsic(kind, vec,
                                       IF commitReveal THEN "cr4" ELSE "direct")
                  ELSE Unsent]
    /\ ledger = [a \in Attempts |-> Absent]
    /\ count = 0 /\ fence = Never
    /\ pc = "idle" /\ snap = 0 /\ scanned = NoScan /\ running = {}
    /\ toggles = 0

-----------------------------------------------------------------------------
(***************************************************************************)
(* Steps of the chain.                                                     *)
(***************************************************************************)
Includable(a, b) ==
    /\ ext[a].phase = "pool"
    /\ b <= ext[a].signed + PERIOD
    /\ b - LastUpdateAt(head) > RATE_LIMIT

MayReveal(a, b) ==
    ext[a].phase = "committed" /\ b \in RevealStart(a) .. RevealStart(a) + REVEAL_JITTER
MustReveal(a, b) ==
    ext[a].phase = "committed" /\ b >= RevealStart(a) + REVEAL_JITTER

Expires(a, b) == ext[a].phase = "pool" /\ b >= ext[a].signed + PERIOD

IncludedAt(x, b) ==
    IF x.mode = "cr4" THEN [x EXCEPT !.phase = "committed", !.signed = Never, !.incl = b]
    ELSE [x EXCEPT !.phase = "applied", !.signed = Never, !.incl = b, !.applied = b]

\* The extrinsics after block b, which reveals some commitments and may include one.
AdvancedTo(b, revealed, included) ==
    [a \in Extrinsics |->
       IF a \in revealed THEN [ext[a] EXCEPT !.phase = "applied", !.applied = b]
       ELSE IF a \in included THEN IncludedAt(ext[a], b)
       ELSE IF Expires(a, b) THEN [Unsent EXCEPT !.phase = "expired"]
       ELSE ext[a]]

NewBlock ==
    /\ head < MaxBlock
    /\ pc = "calling" => head < ledger[count].sub + CALL_BLOCKS
    /\ head' = head + 1
    \* A thread that has not signed in time is gone.
    /\ running' = {a \in running : head + 1 <= ledger[a].sub + SIGN_DELAY}
    /\ \E revealed \in SUBSET {a \in Extrinsics : MayReveal(a, head + 1)},
          included \in {{}} \cup {{a} : a \in {x \in Extrinsics : Includable(x, head + 1)}} :
         /\ {a \in Extrinsics : MustReveal(a, head + 1)} \subseteq revealed
         /\ ext' = AdvancedTo(head + 1, revealed, included)
    /\ uids' = [uids EXCEPT ![head + 1] = UidAt(head)]
    \* Registrations replace the holders of slots.
    /\ \E r \in Rosters :
         /\ r = roster[head] \/ head + 1 \in RosterBlocks
         /\ roster' = [roster EXCEPT ![head + 1] = r]
    /\ UNCHANGED <<commitReveal, dbVars, pc, localVars, toggles>>

\* Assumed: the owner does not flip the switch between the validator's read of it
\* and the signature that follows, nor before the startup fence is recorded.
ToggleCommitReveal ==
    /\ toggles < MaxToggles
    /\ running = {} /\ fence # Never
    /\ toggles' = toggles + 1
    /\ commitReveal' = ~commitReveal
    /\ UNCHANGED <<head, uids, roster, ext, dbVars, processVars>>

\* The hotkey is deregistered and registers again under another UID; the bounded
\* chain leaves finality the room to see it.
Reregister ==
    /\ head + FINALITY_LAG <= MaxBlock
    /\ Cardinality({UidAt(b) : b \in 0 .. head}) <= MaxMoves
    /\ UidAt(head) # head
    /\ uids' = [uids EXCEPT ![head] = head]
    /\ UNCHANGED <<head, commitReveal, roster, ext, dbVars, processVars, toggles>>

-----------------------------------------------------------------------------
(***************************************************************************)
(* Startup fence and single flight: _weight_emission_ready, then the plan. *)
(***************************************************************************)
\* The first block of the epoch so many epochs after that of a commitment
\* included in the next block; the schedule is advanced epoch by epoch.
EpochStartAfterCommit(b, epochs) == (Epoch(b + 1) + epochs) * TEMPO

\* cr4_reveal_deadline_block: the epoch after the complete reveal window.
RevealDeadlineBlock(b, period, margin) ==
    EpochStartAfterCommit(b, period + 1) + margin

\* cr4_reveal_deadline_at reads the schedule and the reveal period at block b.
RevealDeadlineAt(b) == RevealDeadlineBlock(b, REVEAL_EPOCHS, MARGIN)

InclusionDeadlineAt(b) == b + PERIOD + MARGIN

\* The mutant waits for no extrinsic that is already in flight.
NoFence(b) == b
StartupFence(b) ==
    IF commitReveal THEN RevealDeadlineAt(b) ELSE InclusionDeadlineAt(b)

\* The block the fence starts from is the TTL-cached head.
CachedHead == {b \in {head - 1, head} : b >= 0}

\* The mutant fences again after every restart.
FenceAtEveryStart ==
    /\ pc = "idle" /\ head <= LastFence
    /\ \E b \in CachedHead : fence' = StartupFence(b)
    /\ UNCHANGED <<chainVars, ext, ledger, count, processVars, toggles>>
RecordStartupFence ==
    /\ pc = "idle" /\ fence = Never /\ head <= LastFence
    /\ \E b \in CachedHead : fence' = StartupFence(b)
    /\ UNCHANGED <<chainVars, ext, ledger, count, processVars, toggles>>

WeightEmissionReady ==
    /\ fence # Never
    /\ head > fence
    /\ ~OpenConfirmation

PlanEmission ==
    /\ pc = "idle"
    /\ WeightEmissionReady
    /\ head - LastUpdateAt(head) > RATE_LIMIT
    /\ pc' = "planned"
    /\ UNCHANGED <<chainVars, ext, dbVars, localVars, running, toggles>>

\* A limit read fails or the prepared-vector recheck refuses: the failure is
\* recorded, nothing was sent.  Or the record itself fails and nothing is kept.
AbandonPlan ==
    /\ pc = "planned"
    /\ pc' = "idle"
    /\ \/ /\ count < MaxAttempts
          /\ count' = count + 1
          /\ ledger' = [ledger EXCEPT ![count + 1].state = "failed"]
       \/ UNCHANGED <<ledger, count>>
    /\ UNCHANGED <<chainVars, ext, fence, localVars, running, toggles>>

-----------------------------------------------------------------------------
(***************************************************************************)
(* Prepare, submit, transition: _emit_weight_candidate.                    *)
(***************************************************************************)
FreshSubmissionBlock == head

PreparedBatch(vec, metagraph) ==
    LET sub == FreshSubmissionBlock
    IN [Absent EXCEPT !.state = "prepared",
                      !.mode = IF commitReveal THEN "cr4" ELSE "direct",
                      !.vec = vec,
                      !.hotkeys = HotkeysAt(metagraph, vec),
                      !.uid = UidAt(metagraph),
                      !.sub = sub,
                      !.deadline = InclusionDeadlineAt(sub),
                      !.revealDeadline = IF commitReveal THEN RevealDeadlineAt(sub)
                                         ELSE Never]

\* record_weight_emission refuses a batch whose inclusion window is shorter than
\* the mortality or longer than two, or outlasts the wait for the reveal.
SoundNumbers(batch) ==
    /\ LastUpdateAt(head) <= batch.sub
    /\ batch.sub + PERIOD <= batch.deadline /\ batch.deadline <= batch.sub + 2 * PERIOD
    /\ batch.revealDeadline # Never => batch.deadline <= batch.revealDeadline

\* An open batch names its vector, and a commitment only in CR4 mode.
SoundEvidence(batch) ==
    /\ batch.vec # NoVector /\ batch.sub # Never
    /\ batch.commitment # Never => batch.mode = "cr4"

\* uq_weight_emission_open_schema lets one open batch exist.
PrepareIntent ==
    /\ pc = "planned"
    /\ count < MaxAttempts /\ head \in SubmissionBlocks
    /\ ~OpenConfirmation
    /\ count' = count + 1
    /\ \E vec \in Vectors, metagraph \in 0 .. head :
         LET batch == PreparedBatch(vec, metagraph) IN
         /\ SoundNumbers(batch) /\ SoundEvidence(batch)
         /\ ledger' = [ledger EXCEPT ![count + 1] = batch]
    /\ running' = running \cup {count + 1}
    /\ pc' = "calling"
    /\ UNCHANGED <<chainVars, ext, fence, localVars, toggles>>

\* An SDK thread signs and broadcasts; a timed-out thread may do so late.
Sign(a) ==
    /\ a \in running
    /\ head <= ledger[a].sub + SIGN_DELAY
    /\ ext' = [ext EXCEPT ![a] = [Unsent EXCEPT
                 !.phase = "pool", !.vec = ledger[a].vec, !.signed = head,
                 !.mode = IF commitReveal THEN "cr4" ELSE "direct"]]
    /\ running' = running \ {a}
    /\ UNCHANGED <<chainVars, dbVars, pc, localVars, toggles>>

\* _post_submission_deadlines: a fresh sample may extend, within a second
\* mortality; without one the prepared deadline stays.
PostSubmissionDeadline(a, sampled) ==
    LET fallback == ledger[a].deadline
    IN IF sampled
       THEN Larger(fallback, Smaller(InclusionDeadlineAt(head), fallback + PERIOD - MARGIN))
       ELSE fallback

PostSubmissionReveal(a, sampled) ==
    IF sampled /\ ledger[a].mode = "cr4"
    THEN Larger(ledger[a].revealDeadline, RevealDeadlineAt(head))
    ELSE ledger[a].revealDeadline

\* transition_weight_emission_attempt moves a prepared batch only and takes the
\* later of the stored and the new deadline.
TransitionedBatch(a, state, mode, commitment, sampled, revealSampled) ==
    [ledger[a] EXCEPT
       !.state = state, !.mode = mode, !.commitment = commitment,
       !.deadline = Larger(@, PostSubmissionDeadline(a, sampled)),
       !.revealDeadline = Larger(@, PostSubmissionReveal(a, sampled /\ revealSampled))]

Transition(a, state, mode, commitment) ==
    \E sampled, revealSampled, written \in BOOLEAN :
      ledger' = IF written /\ ledger[a].state = "prepared"
                THEN [ledger EXCEPT ![a] =
                        TransitionedBatch(a, state, mode, commitment, sampled, revealSampled)]
                ELSE ledger

ReturnFromSdk(stillRunning) ==
    /\ pc = "calling"
    /\ pc' = "idle"
    /\ running' = IF stillRunning THEN running ELSE running \ {count}
    /\ UNCHANGED <<chainVars, ext, count, fence, localVars, toggles>>

\* The local gate defers the call, or the SDK answers success = False.
SdkRefuses ==
    /\ ReturnFromSdk(FALSE)
    /\ ext[count].phase = "unsent"
    /\ \E written \in BOOLEAN :
         ledger' = IF written THEN [ledger EXCEPT ![count].state = "failed"] ELSE ledger

\* The SDK answers success; a CR4 response may lack its commitment metadata.
SdkAccepts ==
    /\ ReturnFromSdk(FALSE)
    /\ ext[count].phase # "unsent"
    /\ \E metadata \in {ext[count].mode = "cr4", FALSE} :
         IF metadata THEN Transition(count, "submitted", "cr4", count)
         ELSE IF ledger[count].mode = "cr4" THEN Transition(count, "ambiguous", "cr4", Never)
         ELSE Transition(count, "submitted", "direct", Never)

UnknownOutcome == "ambiguous"

\* Provider throttle, stalled transport or any SDK error: it may have been sent.
SdkOutcomeUnknown ==
    /\ \E stillRunning \in BOOLEAN : ReturnFromSdk(stillRunning)
    /\ Transition(count, UnknownOutcome, ledger[count].mode, Never)

\* The gate raises ChainRpcRestartRequired before it starts the SDK call, and that
\* outcome has no state of its own: the batch stays prepared until it expires.
SdkNeedsRestart ==
    /\ ReturnFromSdk(FALSE)
    /\ ext[count].phase = "unsent"
    /\ UNCHANGED ledger

-----------------------------------------------------------------------------
(***************************************************************************)
(* Reconciliation: _resolve_weight_confirmations after a metagraph sync.   *)
(***************************************************************************)
\* With no open batch the pass writes nothing: it is a stutter.
SyncMetagraph ==
    /\ pc = "idle" /\ head \in SyncBlocks
    /\ \E finalized \in FinalizedBlocks :
         \* A UID that finalized state does not know yet ends the reconciliation.
         IF OpenConfirmation /\ UidAt(finalized) = UidAt(head)
         THEN pc' = "resolving" /\ snap' = finalized
         ELSE UNCHANGED <<pc, snap>>
    /\ UNCHANGED <<chainVars, ext, dbVars, scanned, running, toggles>>

\* cr4_reveal_scan_window: one bounded window after the durable cursor.
ScannedBatch == {a \in Attempts : /\ IsOpen(a) /\ ledger[a].mode = "cr4"
                                  /\ ledger[a].revealDeadline # Never}
WindowStart(a) == Larger(ledger[a].sub, ledger[a].cursor + 1)
\* The mutant does not stop at the finalized block.
WindowEndUnfinalized(a) ==
    Smaller(ledger[a].revealDeadline, WindowStart(a) + SCAN_BATCH - 1)
WindowEnd(a) ==
    Smaller(snap, Smaller(ledger[a].revealDeadline, WindowStart(a) + SCAN_BATCH - 1))
HasWindow(a) == a \in ScannedBatch /\ WindowStart(a) <= WindowEnd(a)

RevealsRead(a) == IF HasWindow(a) THEN RevealsIn(WindowStart(a), WindowEnd(a)) ELSE {}
ScanComplete(a) == HasWindow(a) => WindowEnd(a) >= ledger[a].revealDeadline

\* The weights are the batch's, and every target slot is held by the recorded hotkey.
VectorMatches(a) ==
    /\ WeightsAt(snap) = ledger[a].vec
    /\ HotkeysAt(snap, ledger[a].vec) = ledger[a].hotkeys

Confirmed(a) == [ledger[a] EXCEPT !.state = "confirmed"]
Unconfirmed(a) == [ledger[a] EXCEPT !.state = "unconfirmed"]

\* The mutant does not ask for an update later than the submission.
DirectConfirmsOnVector(a) ==
    /\ LastUpdateAt(snap) <= ledger[a].deadline - MARGIN
    /\ VectorMatches(a)
DirectConfirms(a) ==
    /\ LastUpdateAt(snap) > ledger[a].sub
    /\ LastUpdateAt(snap) <= ledger[a].deadline - MARGIN
    /\ VectorMatches(a)

DirectGivesUp(a) == snap > ledger[a].deadline

DirectResolution(a) ==
    IF DirectConfirms(a) THEN Confirmed(a)
    ELSE IF DirectGivesUp(a) THEN Unconfirmed(a)
    ELSE ledger[a]

Candidates(a) ==
    {c \in CommitsAt(snap) :
       /\ ledger[a].sub <= ext[c].incl /\ ext[c].incl <= ledger[a].deadline - MARGIN
       /\ ledger[a].commitment # Never => c = ledger[a].commitment}

RevealMatches(a) ==
    \E r \in RevealsRead(a) :
      /\ (IF ledger[a].observed # Never THEN ledger[a].observed ELSE ledger[a].sub) <= r
      /\ ledger[a].revealDeadline # Never => r <= ledger[a].revealDeadline

Cr4Confirms(a) == RevealMatches(a) /\ VectorMatches(a)

Cr4Expiry(a) ==
    IF ledger[a].revealDeadline # Never THEN ledger[a].revealDeadline ELSE ledger[a].deadline

\* The mutant expires at the inclusion deadline whatever is still pending.
Cr4GivesUpAtInclusion(a) == snap > ledger[a].deadline
Cr4GivesUp(a) == ScanComplete(a) /\ Candidates(a) = {} /\ snap > Cr4Expiry(a)

Observed(a) ==
    LET c == CHOOSE x \in Candidates(a) : TRUE
    IN [ledger[a] EXCEPT !.observed = ext[c].incl, !.commitment = c]

Cr4Resolution(a) ==
    IF Cardinality(Candidates(a)) > 1
    THEN IF snap > ledger[a].deadline THEN Unconfirmed(a) ELSE ledger[a]
    ELSE IF Cr4Confirms(a) THEN Confirmed(a)
    ELSE IF Candidates(a) # {} /\ ledger[a].observed = Never THEN Observed(a)
    ELSE IF Cr4GivesUp(a) THEN Unconfirmed(a)
    ELSE ledger[a]

\* A batch of another UID can never confirm; it expires with its deadlines.
\* The mutant keeps it open, as the code did before it had deadlines.
ForeignStaysOpen(a) == ledger[a]
ForeignResolution(a) ==
    IF snap > Larger(ledger[a].deadline, ledger[a].revealDeadline)
    THEN Unconfirmed(a) ELSE ledger[a]

Resolution(a) ==
    IF ledger[a].uid # UidAt(snap) THEN ForeignResolution(a)
    ELSE IF snap < ledger[a].sub THEN ledger[a]
    ELSE IF ledger[a].mode = "direct" THEN DirectResolution(a)
    ELSE Cr4Resolution(a)

\* One transaction: resolve_weight_emission_confirmations.
ResolveConfirmations ==
    /\ pc = "resolving"
    /\ ledger' = [a \in Attempts |-> IF IsOpen(a) THEN Resolution(a) ELSE ledger[a]]
    /\ IF \E a \in Attempts : HasWindow(a)
       THEN /\ pc' = "checkpoint"
            /\ \E a \in Attempts : HasWindow(a) /\ scanned' = [batch |-> a, end |-> WindowEnd(a)]
       ELSE pc' = "idle" /\ UNCHANGED scanned
    /\ snap' = IF pc' = "idle" THEN 0 ELSE snap
    /\ UNCHANGED <<chainVars, ext, count, fence, running, toggles>>

\* advance_cr4_reveal_scan_cursor, a second transaction; the loop ends when the
\* batch was decided or the scan budget is spent.
AdvanceCursor ==
    LET a == scanned.batch
    IN /\ pc = "checkpoint"
       /\ ledger' = IF IsOpen(a)
                    THEN [ledger EXCEPT ![a].cursor = Larger(@, scanned.end)]
                    ELSE ledger
       /\ \/ IsOpen(a) /\ pc' = "resolving" /\ UNCHANGED snap
          \/ pc' = "idle" /\ snap' = 0
       /\ scanned' = NoScan
       /\ UNCHANGED <<chainVars, ext, count, fence, running, toggles>>

\* An evidence read or the database fails: the sync is retried later.
ReconciliationFails ==
    /\ pc \in {"resolving", "checkpoint"}
    /\ pc' = "idle" /\ snap' = 0 /\ scanned' = NoScan
    /\ UNCHANGED <<chainVars, ext, dbVars, running, toggles>>

-----------------------------------------------------------------------------
\* The process dies and starts again; the chain moves on in between by NewBlock.
CrashAndRestart ==
    /\ pc' = "idle" /\ snap' = 0 /\ scanned' = NoScan /\ running' = {}
    /\ UNCHANGED <<chainVars, ext, dbVars, toggles>>

Chain == NewBlock \/ ToggleCommitReveal \/ Reregister
SdkReturns == SdkRefuses \/ SdkAccepts \/ SdkOutcomeUnknown \/ SdkNeedsRestart
Validator ==
    \/ RecordStartupFence \/ PlanEmission \/ AbandonPlan \/ PrepareIntent
    \/ \E a \in Attempts : Sign(a)
    \/ SdkReturns
    \/ SyncMetagraph \/ ResolveConfirmations \/ AdvanceCursor \/ ReconciliationFails
    \/ CrashAndRestart

Next == Chain \/ Validator
Spec == Init /\ [][Next]_vars

\* Blocks are produced; the gate's timeout ends every SDK call; the
\* run loop keeps syncing; evidence reads succeed again and again.
FairSpec ==
    /\ Spec
    /\ WF_vars(NewBlock) /\ WF_vars(SdkReturns) /\ WF_vars(SyncMetagraph)
    /\ SF_vars(ResolveConfirmations) /\ SF_vars(AdvanceCursor)

-----------------------------------------------------------------------------
TypeOK ==
    /\ head \in Block
    /\ commitReveal \in BOOLEAN
    /\ uids \in [Block -> Block]
    /\ roster \in [Block -> Rosters]
    /\ ext \in [Extrinsics -> [phase : Phases, vec : Vectors \cup {NoVector},
                               mode : Modes, signed : Height, incl : Height,
                               applied : Height]]
    /\ ledger \in [Attempts -> [state : States, mode : Modes,
                                vec : Vectors \cup {NoVector},
                                hotkeys : Hotkeys \cup {NoHotkeys}, uid : Block,
                                sub : Height, deadline : Int, revealDeadline : Int,
                                commitment : Extrinsics \cup {Never},
                                observed : Height, cursor : Height]]
    /\ count \in 0 .. MaxAttempts
    /\ fence \in Int
    /\ pc \in {"idle", "planned", "calling", "resolving", "checkpoint"}
    /\ snap \in Block
    /\ scanned \in [batch : Extrinsics, end : Block]
    /\ running \subseteq Attempts
    /\ toggles \in 0 .. MaxToggles

(***************************************************************************)
(* Properties.                                                             *)
(***************************************************************************)
\* An extrinsic that can still change the validator's weights on chain.
CanStillLand(a) ==
    \/ ext[a].phase = "pool"
    \/ ext[a].phase = "committed"
    \/ a \in running

\* Single flight on the chain, not only in the table: two extrinsics of the
\* hotkey never compete, whatever crashed, timed out or was left by an earlier
\* writer (_weight_emission_ready, the fence and the deadlines).
NoOverlap ==
    \A a, b \in Extrinsics : CanStillLand(a) /\ CanStillLand(b) => a = b

\* A batch leaves the open states only when its extrinsic cannot land any more,
\* so that the next attempt is a safe retry (resolve_weight_emission_confirmations).
ClosedIsSettled ==
    \A a \in Attempts : ledger[a].state \in {"confirmed", "unconfirmed", "failed"}
                          => ~CanStillLand(a)

\* An extrinsic that landed inside the window the ledger promises to examine is
\* not written off while its target slots keep their recorded hotkeys: no crash,
\* lost checkpoint or scan batch hides it.  Once a slot has changed hands the
\* code takes the landed vector for another one.
LandedInWindow(a) ==
    /\ ext[a].phase = "applied"
    /\ ledger[a].mode = ext[a].mode
    /\ UidAt(head) = ledger[a].uid
    /\ \A b \in ext[a].applied .. head :
         HotkeysAt(b, ledger[a].vec) = ledger[a].hotkeys
    /\ IF ledger[a].mode = "direct"
       THEN /\ ext[a].applied > ledger[a].sub
            /\ ext[a].applied <= ledger[a].deadline - MARGIN
       ELSE ext[a].applied <= ledger[a].revealDeadline
LandedIsNotWrittenOff ==
    \A a \in Attempts : ledger[a].state = "unconfirmed" => ~LandedInWindow(a)

\* History in the ledger is append-only: decided batches keep their verdict, a
\* recorded fence survives restarts, deadlines and the scan cursor never move back.
LedgerHistory ==
    [][/\ fence # Never => fence' = fence
       /\ count' >= count
       /\ \A a \in Attempts :
            /\ ledger[a].state \in {"confirmed", "unconfirmed", "failed"} =>
                 ledger'[a] = ledger[a]
            /\ ledger'[a].deadline >= ledger[a].deadline
            /\ ledger'[a].revealDeadline >= ledger[a].revealDeadline
            /\ ledger'[a].cursor >= ledger[a].cursor]_<<ledger, count, fence>>

\* The whole promise at once: one attempt at a time, no effect outside an open
\* attempt, no confirmation without effect (see EmissionContract).
Verdict(a) == IF IsOpen(a) THEN "open"
              ELSE IF ledger[a].state = "absent" THEN "none" ELSE ledger[a].state
verdicts == [a \in Attempts |-> Verdict(a)]
effects == {x \in Extrinsics : ext[x].phase = "applied"}
Contract == INSTANCE EmissionContract WITH verdict <- verdicts, effect <- effects
KeepsContract == Contract!Spec

\* Every batch is decided in the end; otherwise confirmation_pending would stop
\* emission for ever.
EveryAttemptDecided == \A a \in Attempts : IsOpen(a) ~> ~IsOpen(a)
=============================================================================
