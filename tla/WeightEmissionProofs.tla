------------------------ MODULE WeightEmissionProofs ------------------------
(***************************************************************************)
(* Theorems about WeightEmission for every number of attempts, every chain *)
(* length, mortality, margin, tempo and scan batch: first the ledger and   *)
(* its rows, then what a decided batch leaves on chain (extrinsics never   *)
(* compete, a closed batch is settled, a landing the ledger promised to    *)
(* examine is not written off, and the ledger keeps EmissionContract).     *)
(***************************************************************************)
EXTENDS WeightEmission, FiniteSetTheorems, WellFoundedInduction, TLAPS

ExtRecord == [phase : Phases, vec : Vectors \cup {NoVector}, mode : Modes,
              signed : Height, incl : Height, applied : Height]

BatchRecord == [state : States, mode : Modes, vec : Vectors \cup {NoVector},
                hotkeys : Hotkeys \cup {NoHotkeys}, uid : Block, sub : Height,
                deadline : Int, revealDeadline : Int,
                commitment : Extrinsics \cup {Never}, observed : Height,
                cursor : Height]

-----------------------------------------------------------------------------
(***************************************************************************)
(* Types of the operators.                                                 *)
(***************************************************************************)
\* The epoch arithmetic of the reveal schedule stays within the integers, and a
\* deadline sampled at a real block is never negative.
LEMMA DeadlineType ==
    ASSUME NEW b \in Nat
    PROVE  /\ RevealDeadlineAt(b) \in Nat
           /\ InclusionDeadlineAt(b) \in Nat
<1> USE ChainAssumption
<1>1. InclusionDeadlineAt(b) \in Nat
  BY DEF InclusionDeadlineAt
<1>2. (b + 1) \div TEMPO \in Nat
  OBVIOUS
<1>3. Epoch(b + 1) + (REVEAL_EPOCHS + 1) \in Nat
  BY <1>2 DEF Epoch
<1>4. EpochStartAfterCommit(b, REVEAL_EPOCHS + 1) \in Nat
  BY <1>3 DEF EpochStartAfterCommit
<1> QED
  BY <1>1, <1>4 DEF RevealDeadlineAt, RevealDeadlineBlock

LEMMA LargerType ==
    ASSUME NEW x \in Int, NEW y \in Int
    PROVE  /\ Larger(x, y) \in Int /\ Larger(x, y) >= x /\ Larger(x, y) >= y
           /\ Larger(x, y) \in {x, y}
           /\ Smaller(x, y) \in Int /\ Smaller(x, y) <= x /\ Smaller(x, y) <= y
  BY DEF Larger, Smaller

\* A chosen candidate is an extrinsic with a block of inclusion.
LEMMA ObservedType ==
    ASSUME TypeOK, NEW a \in Attempts, Candidates(a) # {}
    PROVE  /\ Observed(a) \in BatchRecord
           /\ Observed(a).state = ledger[a].state
           /\ Observed(a).deadline = ledger[a].deadline
           /\ Observed(a).revealDeadline = ledger[a].revealDeadline
           /\ Observed(a).cursor = ledger[a].cursor
<1> DEFINE c == CHOOSE x \in Candidates(a) : TRUE
<1>1. c \in Candidates(a)
  OBVIOUS
<1>2. c \in Extrinsics
  BY <1>1 DEF Candidates, CommitsAt, IncludedBy
<1>3. ext[c].incl \in Height
  BY <1>2 DEF TypeOK
<1>4. ledger[a] \in BatchRecord
  BY DEF TypeOK, BatchRecord
<1>5. Observed(a) = [ledger[a] EXCEPT !.observed = ext[c].incl, !.commitment = c]
  BY DEF Observed
<1> HIDE DEF c
<1> QED
  BY <1>2, <1>3, <1>4, <1>5 DEF BatchRecord

\* A resolution moves a batch to a verdict or leaves its deadlines and its cursor
\* alone.
LEMMA ResolutionType ==
    ASSUME TypeOK, NEW a \in Attempts
    PROVE  /\ Resolution(a) \in BatchRecord
           /\ Resolution(a).state \in {ledger[a].state, "confirmed", "unconfirmed"}
           /\ Resolution(a).deadline = ledger[a].deadline
           /\ Resolution(a).revealDeadline = ledger[a].revealDeadline
           /\ Resolution(a).cursor = ledger[a].cursor
<1>1. ledger[a] \in BatchRecord
  BY DEF TypeOK, BatchRecord
<1>2. \/ Resolution(a) \in {ledger[a], Confirmed(a), Unconfirmed(a)}
      \/ Candidates(a) # {} /\ Resolution(a) = Observed(a)
  BY DEF Resolution, ForeignResolution, DirectResolution, Cr4Resolution
<1>3. CASE Resolution(a) \in {ledger[a], Confirmed(a), Unconfirmed(a)}
  BY <1>1, <1>3 DEF BatchRecord, Confirmed, Unconfirmed, States
<1>4. CASE Candidates(a) # {} /\ Resolution(a) = Observed(a)
  BY <1>4, ObservedType
<1> QED
  BY <1>2, <1>3, <1>4

\* transition_weight_emission_attempt never moves a deadline back.
LEMMA TransitionedType ==
    ASSUME TypeOK, NEW a \in Attempts, NEW state \in States, NEW mode \in Modes,
           NEW commitment \in Extrinsics \cup {Never},
           NEW sampled \in BOOLEAN, NEW revealSampled \in BOOLEAN
    PROVE  LET batch == TransitionedBatch(a, state, mode, commitment, sampled, revealSampled)
           IN /\ batch \in BatchRecord
              /\ batch.state = state
              /\ batch.deadline >= ledger[a].deadline
              /\ batch.revealDeadline >= ledger[a].revealDeadline
              /\ batch.cursor = ledger[a].cursor
<1> DEFINE d == PostSubmissionDeadline(a, sampled)
           r == PostSubmissionReveal(a, sampled /\ revealSampled)
<1>1. ledger[a] \in BatchRecord
  BY DEF TypeOK, BatchRecord
<1>2. ledger[a].deadline \in Int /\ ledger[a].revealDeadline \in Int
  BY <1>1 DEF BatchRecord
<1>3. head \in Nat
  BY BoundAssumption DEF TypeOK, Block
<1>4. RevealDeadlineAt(head) \in Int /\ InclusionDeadlineAt(head) \in Int
  BY <1>3, DeadlineType
<1>5. d \in Int
  BY <1>2, <1>4, ChainAssumption DEF PostSubmissionDeadline, Larger, Smaller
<1>6. r \in Int
  BY <1>2, <1>4 DEF PostSubmissionReveal, Larger
<1>7. TransitionedBatch(a, state, mode, commitment, sampled, revealSampled)
      = [ledger[a] EXCEPT !.state = state, !.mode = mode, !.commitment = commitment,
           !.deadline = Larger(ledger[a].deadline, d),
           !.revealDeadline = Larger(ledger[a].revealDeadline, r)]
  BY <1>1 DEF TransitionedBatch, BatchRecord
<1>8. /\ Larger(ledger[a].deadline, d) \in Int
      /\ Larger(ledger[a].deadline, d) >= ledger[a].deadline
      /\ Larger(ledger[a].revealDeadline, r) \in Int
      /\ Larger(ledger[a].revealDeadline, r) >= ledger[a].revealDeadline
  BY <1>2, <1>5, <1>6, LargerType
<1> HIDE DEF d, r
<1> QED
  BY <1>1, <1>7, <1>8 DEF BatchRecord

\* A window that is read lies on the chain.
LEMMA WindowType ==
    ASSUME TypeOK, NEW a \in Attempts, HasWindow(a)
    PROVE  WindowEnd(a) \in Block
<1>1. ledger[a] \in BatchRecord
  BY DEF TypeOK, BatchRecord
<1>2. /\ ledger[a].cursor \in Int /\ ledger[a].cursor >= -1
      /\ ledger[a].sub \in Int /\ ledger[a].revealDeadline \in Int
  BY <1>1, BoundAssumption DEF BatchRecord, Height, Block, Never
<1>3. WindowStart(a) \in Nat
  BY <1>2 DEF WindowStart, Larger
<1>4. snap \in Int /\ snap <= MaxBlock /\ MaxBlock \in Nat
  BY BoundAssumption DEF TypeOK, Block
<1>5. WindowEnd(a) \in Int /\ WindowEnd(a) <= snap
  BY <1>2, <1>3, <1>4, ChainAssumption DEF WindowEnd, Smaller
<1>6. WindowStart(a) <= WindowEnd(a)
  BY DEF HasWindow
<1> QED
  BY <1>3, <1>4, <1>5, <1>6 DEF Block

-----------------------------------------------------------------------------
(***************************************************************************)
(* Type correctness.  What the types need of the control state: a call is  *)
(* in flight for the newest batch, which is still "prepared"; a batch not  *)
(* recorded yet is Absent; one batch at most is open.                      *)
(***************************************************************************)
NotRecordedYet == \A a \in Attempts : a > count => ledger[a] = Absent
CallIsPrepared == pc = "calling" => count \in Attempts /\ ledger[count].state = "prepared"
CheckpointIsRecorded == pc = "checkpoint" => scanned.batch \in Attempts
OneOpenBatch == \A a, b \in Attempts : IsOpen(a) /\ IsOpen(b) => a = b

LedgerInv ==
    /\ TypeOK
    /\ NotRecordedYet
    /\ CallIsPrepared
    /\ CheckpointIsRecorded
    /\ OneOpenBatch

LEMMA InitTyped == Init => LedgerInv
<1> SUFFICES ASSUME Init PROVE LedgerInv
  OBVIOUS
<1> USE BoundAssumption, ChainAssumption, VectorAssumption
<1>1. Unsent \in ExtRecord /\ Absent \in BatchRecord /\ 0 \in Block
  BY DEF Unsent, Absent, ExtRecord, BatchRecord, Phases, Modes, States, OpenStates,
         Height, Never, Block, Extrinsics
<1>2. ext \in [Extrinsics -> ExtRecord]
  <2>1. PICK kind \in LegacyStates, vec \in Vectors :
          ext = [a \in Extrinsics |->
                  IF a = Legacy
                  THEN LegacyExtrinsic(kind, vec, IF commitReveal THEN "cr4" ELSE "direct")
                  ELSE Unsent]
    BY DEF Init
  <2>2. \A mode \in Modes : LegacyExtrinsic(kind, vec, mode) \in ExtRecord
    <3>1. kind \in {"none", "pool", "applied"}
      OBVIOUS
    <3> QED
      BY <1>1, <3>1 DEF LegacyExtrinsic, ExtRecord, Unsent, Phases, Modes, Height, Never
  <2> QED
    BY <1>1, <2>1, <2>2 DEF Modes
<1>3. ledger \in [Attempts -> BatchRecord] /\ \A a \in Attempts : ledger[a].state = "absent"
  BY <1>1 DEF Init, Absent
<1>4. scanned \in [batch : Extrinsics, end : Block]
  BY <1>1 DEF Init, NoScan, Extrinsics
<1>5. TypeOK
  BY <1>1, <1>2, <1>3, <1>4 DEF Init, TypeOK, ExtRecord, BatchRecord, Never
<1>6. NotRecordedYet /\ CallIsPrepared /\ CheckpointIsRecorded
  BY DEF Init, NotRecordedYet, CallIsPrepared, CheckpointIsRecorded
<1>7. OneOpenBatch
  BY <1>3 DEF OneOpenBatch, IsOpen, OpenStates
<1> QED
  BY <1>5, <1>6, <1>7 DEF LedgerInv

\* A new block keeps the types of the chain.
LEMMA NewBlockTyped ==
    ASSUME TypeOK, NewBlock
    PROVE  TypeOK'
<1> USE BoundAssumption
<1>1. head' \in Block /\ head + 1 \in Block /\ head + 1 \in Height /\ Never \in Height
  <2>1. head \in 0 .. MaxBlock
    BY DEF TypeOK, Block
  <2>2. head < MaxBlock /\ head' = head + 1
    BY DEF NewBlock
  <2> QED
    BY <2>1, <2>2 DEF Block, Height
<1>2. ext' \in [Extrinsics -> ExtRecord]
  <2>1. \E revealed, included : ext' = AdvancedTo(head + 1, revealed, included)
    BY DEF NewBlock
  <2>2. \A a \in Extrinsics : ext[a] \in ExtRecord
    BY DEF TypeOK, ExtRecord
  <2>3. \A a \in Extrinsics :
          /\ [ext[a] EXCEPT !.phase = "applied", !.applied = head + 1] \in ExtRecord
          /\ IncludedAt(ext[a], head + 1) \in ExtRecord
    BY <1>1, <2>2 DEF ExtRecord, IncludedAt, Phases
  <2>4. [Unsent EXCEPT !.phase = "expired"] \in ExtRecord
    BY <1>1 DEF ExtRecord, Unsent, Phases, Modes
  <2> QED
    BY <2>1, <2>2, <2>3, <2>4 DEF AdvancedTo
<1>3. uids' \in [Block -> Block]
  BY <1>1 DEF TypeOK, NewBlock, UidAt
<1>4. running' \subseteq Attempts
  BY DEF TypeOK, NewBlock
<1>5. roster' \in [Block -> Rosters]
  BY <1>1 DEF TypeOK, NewBlock
<1> QED
  BY <1>1, <1>2, <1>3, <1>4, <1>5
  DEF TypeOK, NewBlock, ExtRecord, dbVars, localVars

\* Steps that write the ledger write it in one of three ways.
Rewritten(a, batch) == ledger' = [ledger EXCEPT ![a] = batch]

\* A call that returns leaves the ledger alone or moves the batch it was made for.
LEMMA SdkReturnsWrites ==
    ASSUME LedgerInv, SdkReturns
    PROVE  /\ pc = "calling" /\ pc' = "idle" /\ count \in Attempts
           /\ ledger[count].state = "prepared"
           /\ \/ ledger' = ledger
              \/ \E batch \in BatchRecord :
                   /\ Rewritten(count, batch)
                   /\ batch.state \in {"submitted", "ambiguous", "failed"}
                   /\ batch.deadline >= ledger[count].deadline
                   /\ batch.revealDeadline >= ledger[count].revealDeadline
                   /\ batch.cursor = ledger[count].cursor
<1> DEFINE Moves(batch) == /\ batch.state \in {"submitted", "ambiguous", "failed"}
                           /\ batch.deadline >= ledger[count].deadline
                           /\ batch.revealDeadline >= ledger[count].revealDeadline
                           /\ batch.cursor = ledger[count].cursor
           Goal == \/ ledger' = ledger
                   \/ \E batch \in BatchRecord : Rewritten(count, batch) /\ Moves(batch)
<1>1. pc = "calling" /\ pc' = "idle"
  BY DEF SdkReturns, SdkRefuses, SdkAccepts, SdkOutcomeUnknown, SdkNeedsRestart, ReturnFromSdk
<1>2. count \in Attempts /\ ledger[count].state = "prepared"
  BY <1>1 DEF LedgerInv, CallIsPrepared
<1> SUFFICES Goal
  BY <1>1, <1>2
<1>3. ledger[count] \in BatchRecord /\ TypeOK
  BY <1>2 DEF LedgerInv, TypeOK, BatchRecord
<1>4. ASSUME NEW state \in {"submitted", "ambiguous"}, NEW mode \in Modes,
             NEW commitment \in Extrinsics \cup {Never},
             Transition(count, state, mode, commitment)
      PROVE  Goal
  <2>1. PICK sampled \in BOOLEAN, revealSampled \in BOOLEAN, written \in BOOLEAN :
          ledger' = IF written /\ ledger[count].state = "prepared"
                    THEN [ledger EXCEPT ![count] =
                            TransitionedBatch(count, state, mode, commitment,
                                              sampled, revealSampled)]
                    ELSE ledger
    BY <1>4 DEF Transition
  <2> DEFINE batch == TransitionedBatch(count, state, mode, commitment, sampled, revealSampled)
  <2>2. state \in States
    BY DEF States, OpenStates
  <2>3. batch \in BatchRecord /\ Moves(batch)
    BY <1>2, <1>3, <2>2, TransitionedType
  <2> HIDE DEF batch
  <2>4. ledger' = ledger \/ Rewritten(count, batch)
    BY <2>1 DEF Rewritten, batch
  <2> QED
    BY <2>3, <2>4
<1>5. CASE SdkRefuses
  <2> DEFINE batch == [ledger[count] EXCEPT !.state = "failed"]
  <2>1. ledger' = ledger \/ Rewritten(count, batch)
    BY <1>3, <1>5, <1>2 DEF SdkRefuses, Rewritten, TypeOK
  <2>2. batch \in BatchRecord /\ Moves(batch)
    BY <1>3 DEF BatchRecord, States
  <2> QED
    BY <2>1, <2>2
<1>6. CASE SdkAccepts
  <2>1. count \in Extrinsics
    BY <1>2, BoundAssumption DEF Attempts, Extrinsics
  <2> QED
    BY <1>4, <1>6, <2>1 DEF SdkAccepts, Modes
<1>7. CASE SdkOutcomeUnknown
  BY <1>3, <1>4, <1>7 DEF SdkOutcomeUnknown, UnknownOutcome, BatchRecord
<1>8. CASE SdkNeedsRestart
  BY <1>8 DEF SdkNeedsRestart
<1> QED
  BY <1>1, <1>2, <1>5, <1>6, <1>7, <1>8 DEF SdkReturns

\* A batch is recorded once, as prepared or as already failed, in the next row.
LEMMA RecordsNextRow ==
    ASSUME LedgerInv, PrepareIntent \/ (AbandonPlan /\ count' # count)
    PROVE  /\ count' = count + 1 /\ count' \in Attempts
           /\ \E batch \in BatchRecord :
                /\ Rewritten(count', batch)
                /\ batch.state = IF pc' = "calling" THEN "prepared" ELSE "failed"
                /\ batch.deadline >= Never /\ batch.revealDeadline >= Never
                /\ batch.cursor = Never
           /\ pc' = "calling" => ~OpenConfirmation
           /\ pc' \in {"calling", "idle"}
<1> USE BoundAssumption
<1>1. TypeOK /\ NotRecordedYet
  BY DEF LedgerInv
<1>2. CASE PrepareIntent
  <2>1. count' = count + 1 /\ count' \in Attempts
    BY <1>1, <1>2 DEF PrepareIntent, TypeOK, Attempts
  <2>2. PICK vec \in Vectors, metagraph \in 0 .. head :
          ledger' = [ledger EXCEPT ![count + 1] = PreparedBatch(vec, metagraph)]
    BY <1>2 DEF PrepareIntent
  <2> DEFINE batch == PreparedBatch(vec, metagraph)
  <2>3. head \in Nat /\ head \in Block /\ head <= MaxBlock
    BY <1>1 DEF TypeOK, Block
  <2>4. UidAt(metagraph) \in Block /\ HotkeysAt(metagraph, vec) \in Hotkeys
    <3>1. metagraph \in Block
      BY <2>3 DEF Block
    <3>2. roster[metagraph] \in Rosters
      BY <1>1, <3>1 DEF TypeOK
    <3> QED
      BY <1>1, <3>1, <3>2 DEF TypeOK, UidAt, HotkeysAt, Hotkeys
  <2>5. RevealDeadlineAt(head) \in Nat /\ InclusionDeadlineAt(head) \in Nat
    BY <2>3, DeadlineType
  <2>6. /\ batch \in BatchRecord /\ batch.state = "prepared" /\ batch.cursor = Never
        /\ batch.deadline >= Never /\ batch.revealDeadline >= Never
    <3> DEFINE mode == IF commitReveal THEN "cr4" ELSE "direct"
               reveal == IF commitReveal THEN RevealDeadlineAt(head) ELSE Never
    <3>1. mode \in Modes /\ reveal \in Int /\ reveal >= Never
      BY <2>5 DEF Modes, Never
    <3>2. batch = [Absent EXCEPT !.state = "prepared", !.mode = mode, !.vec = vec,
                     !.hotkeys = HotkeysAt(metagraph, vec), !.uid = UidAt(metagraph),
                     !.sub = head, !.deadline = InclusionDeadlineAt(head),
                     !.revealDeadline = reveal]
      BY DEF PreparedBatch, FreshSubmissionBlock
    <3> HIDE DEF mode, reveal, batch
    <3>3. head \in Height
      BY <2>3 DEF Height
    <3>4. InclusionDeadlineAt(head) \in Int /\ InclusionDeadlineAt(head) >= Never
      BY <2>5 DEF Never
    <3> QED
      BY <2>4, <3>1, <3>2, <3>3, <3>4
      DEF BatchRecord, Absent, States, OpenStates, Height, Never, Extrinsics
  <2>7. pc' = "calling" /\ ~OpenConfirmation
    BY <1>2 DEF PrepareIntent
  <2> HIDE DEF batch
  <2>8. Rewritten(count', batch)
    BY <2>1, <2>2 DEF Rewritten, batch
  <2> QED
    BY <2>1, <2>6, <2>7, <2>8
<1>3. CASE AbandonPlan /\ count' # count
  <2>1. /\ count' = count + 1 /\ count' \in Attempts /\ pc' = "idle"
        /\ ledger' = [ledger EXCEPT ![count + 1].state = "failed"]
    BY <1>1, <1>3 DEF AbandonPlan, TypeOK, Attempts
  <2>2. ledger[count'] = Absent
    BY <1>1, <2>1 DEF NotRecordedYet, Attempts, TypeOK
  <2> DEFINE batch == [Absent EXCEPT !.state = "failed"]
  <2>3. Rewritten(count', batch)
    BY <2>1, <2>2, <1>1 DEF Rewritten, TypeOK
  <2>4. /\ batch \in BatchRecord /\ batch.state = "failed" /\ batch.cursor = Never
        /\ batch.deadline >= Never /\ batch.revealDeadline >= Never
    BY DEF Absent, BatchRecord, States, OpenStates, Modes, Height, Never, Block, Extrinsics
  <2> HIDE DEF batch
  <2> QED
    BY <2>1, <2>3, <2>4
<1> QED
  BY <1>2, <1>3

\* The five things a step can do to the ledger.
Untouched ==
    /\ ledger' = ledger /\ count' = count
    /\ pc' = "calling" => pc = "calling"
    /\ pc' = "checkpoint" => pc = "checkpoint" /\ scanned' = scanned
Recorded == PrepareIntent \/ (AbandonPlan /\ count' # count)
Resolved ==
    /\ count' = count /\ pc' # "calling"
    /\ pc' = "checkpoint" => scanned'.batch \in Attempts
    /\ ledger' = [a \in Attempts |-> IF IsOpen(a) THEN Resolution(a) ELSE ledger[a]]
CursorAdvanced ==
    /\ count' = count /\ pc' \in {"resolving", "idle"}
    /\ scanned.batch \in Attempts /\ IsOpen(scanned.batch)
    /\ ledger' = [ledger EXCEPT ![scanned.batch].cursor = Larger(@, scanned.end)]

LEMMA LedgerSteps ==
    ASSUME LedgerInv, [Next]_vars
    PROVE  \/ Untouched
           \/ Recorded
           \/ SdkReturns
           \/ Resolved
           \/ CursorAdvanced
<1> USE DEF dbVars, processVars, localVars, chainVars
<1>1. CASE UNCHANGED vars
  BY <1>1 DEF vars, Untouched
<1>2. CASE Chain
  BY <1>2 DEF Chain, NewBlock, ToggleCommitReveal, Reregister, Untouched
<1>3. CASE RecordStartupFence \/ PlanEmission
  BY <1>3 DEF RecordStartupFence, PlanEmission, Untouched
<1>4. CASE AbandonPlan
  <2>1. count \in Int
    BY DEF LedgerInv, TypeOK
  <2> QED
    BY <1>4, <2>1 DEF AbandonPlan, Untouched, Recorded
<1>5. CASE PrepareIntent
  BY <1>5 DEF Recorded
<1>6. ASSUME NEW a \in Attempts, Sign(a) PROVE Untouched
  BY <1>6 DEF Sign, Untouched
<1>7. CASE SyncMetagraph
  BY <1>7 DEF SyncMetagraph, Untouched
<1>8. CASE ResolveConfirmations
  <2>1. pc' = "checkpoint" => scanned'.batch \in Attempts
    BY <1>8 DEF ResolveConfirmations
  <2>2. pc' # "calling"
    BY <1>8 DEF ResolveConfirmations
  <2> QED
    BY <1>8, <2>1, <2>2 DEF ResolveConfirmations, Resolved
<1>9. CASE AdvanceCursor
  <2>1. scanned.batch \in Attempts
    BY <1>9 DEF AdvanceCursor, LedgerInv, CheckpointIsRecorded
  <2> QED
    BY <1>9, <2>1 DEF AdvanceCursor, CursorAdvanced, Untouched
<1>10. CASE ReconciliationFails \/ CrashAndRestart
  BY <1>10 DEF ReconciliationFails, CrashAndRestart, Untouched
<1> QED
  BY <1>1, <1>2, <1>3, <1>4, <1>5, <1>6, <1>7, <1>8, <1>9, <1>10 DEF Next, Validator

\* The rows of the ledger after a step: they keep their type, a decided row is
\* final, deadlines and cursor do not move back, and a row opens only by being
\* recorded.
RowStep(a) ==
    /\ ledger'[a] \in BatchRecord
    /\ ledger[a].state \in {"confirmed", "unconfirmed", "failed"} => ledger'[a] = ledger[a]
    /\ ledger'[a].deadline >= ledger[a].deadline
    /\ ledger'[a].revealDeadline >= ledger[a].revealDeadline
    /\ ledger'[a].cursor >= ledger[a].cursor
    /\ ledger'[a].state \in OpenStates => IsOpen(a) \/ (a = count' /\ Recorded /\ pc' = "calling")
    /\ a > count' => ledger'[a] = Absent

\* A row that a step does not write.
LEMMA SameRow ==
    ASSUME TypeOK, NotRecordedYet, NEW a \in Attempts, ledger'[a] = ledger[a],
           count' \in Int, count' >= count
    PROVE  RowStep(a)
<1>1. ledger[a] \in BatchRecord
  BY DEF TypeOK, BatchRecord
<1>2. /\ ledger[a].deadline \in Int /\ ledger[a].revealDeadline \in Int
      /\ ledger[a].cursor \in Int
  BY <1>1, BoundAssumption DEF BatchRecord, Height, Never, Block
<1>3. a > count' => ledger[a] = Absent
  <2>1. count \in Int /\ a \in Int
    BY BoundAssumption DEF TypeOK, Attempts
  <2> QED
    BY <2>1 DEF NotRecordedYet
<1>4. ledger[a].state \in OpenStates => IsOpen(a)
  BY DEF IsOpen
<1> QED
  BY <1>1, <1>2, <1>3, <1>4 DEF RowStep

\* A row that was open and is written.
LEMMA OpenRow ==
    ASSUME TypeOK, NEW a \in Attempts, IsOpen(a), a <= count,
           ledger'[a] \in BatchRecord, count' = count,
           ledger'[a].deadline >= ledger[a].deadline,
           ledger'[a].revealDeadline >= ledger[a].revealDeadline,
           ledger'[a].cursor >= ledger[a].cursor
    PROVE  RowStep(a)
<1>1. ledger[a].state \notin {"confirmed", "unconfirmed", "failed"}
  BY DEF IsOpen, OpenStates
<1>2. ~(a > count')
  BY BoundAssumption DEF TypeOK, Attempts
<1> QED
  BY <1>1, <1>2 DEF RowStep

LEMMA LedgerRows ==
    ASSUME LedgerInv, [Next]_vars
    PROVE  /\ ledger' \in [Attempts -> BatchRecord]
           /\ count' \in 0 .. MaxAttempts /\ count' >= count
           /\ \A a \in Attempts : RowStep(a)
<1> USE BoundAssumption DEF Rewritten, IsOpen, OpenStates
<1>1. /\ ledger \in [Attempts -> BatchRecord] /\ count \in 0 .. MaxAttempts
      /\ TypeOK /\ NotRecordedYet
  BY DEF LedgerInv, TypeOK, BatchRecord
<1>2. \A a \in Attempts : /\ ledger[a].deadline \in Int /\ ledger[a].revealDeadline \in Int
                          /\ ledger[a].cursor \in Height /\ ledger[a].cursor \in Int
  BY <1>1 DEF BatchRecord, Height, Never, Block
<1>3. CASE Untouched
  BY <1>1, <1>3, SameRow DEF Untouched
<1>4. CASE Recorded
  <2>1. PICK batch \in BatchRecord :
          /\ Rewritten(count', batch)
          /\ batch.state = IF pc' = "calling" THEN "prepared" ELSE "failed"
          /\ batch.deadline >= Never /\ batch.revealDeadline >= Never
          /\ batch.cursor = Never
    BY <1>4, RecordsNextRow DEF Recorded
  <2>2. count' = count + 1 /\ count' \in Attempts /\ pc' \in {"calling", "idle"}
    BY <1>4, RecordsNextRow DEF Recorded
  <2>3. ledger[count'] = Absent
    BY <1>1, <2>2 DEF NotRecordedYet
  <2>4. ledger' \in [Attempts -> BatchRecord] /\ ledger'[count'] = batch
    BY <1>1, <2>1, <2>2
  <2>5. \A a \in Attempts : a # count' => ledger'[a] = ledger[a]
    BY <1>1, <2>1, <2>2
  <2>6. RowStep(count')
    <3>1. /\ Absent.deadline = Never /\ Absent.revealDeadline = Never
          /\ Absent.cursor = Never /\ Absent.state = "absent"
      BY DEF Absent
    <3>2. ledger'[count'].state \in OpenStates => pc' = "calling"
      BY <2>1, <2>2, <2>4
    <3>3. count' \in Int
      BY <2>2 DEF Attempts
    <3> QED
      BY <1>4, <2>1, <2>3, <2>4, <3>1, <3>2, <3>3 DEF RowStep, Never
  <2>7. \A a \in Attempts : a # count' => RowStep(a)
    BY <1>1, <2>2, <2>5, SameRow
  <2> QED
    BY <1>1, <2>2, <2>4, <2>6, <2>7 DEF Attempts
<1>5. CASE SdkReturns
  <2>1. /\ count' = count /\ count \in Attempts /\ ledger[count].state = "prepared"
    BY <1>5, SdkReturnsWrites
    DEF SdkReturns, SdkRefuses, SdkAccepts, SdkOutcomeUnknown, SdkNeedsRestart, ReturnFromSdk
  <2>2. CASE ledger' = ledger
    BY <1>1, <2>1, <2>2, SameRow
  <2>3. CASE ledger' # ledger
    <3>1. PICK batch \in BatchRecord :
            /\ Rewritten(count, batch)
            /\ batch.state \in {"submitted", "ambiguous", "failed"}
            /\ batch.deadline >= ledger[count].deadline
            /\ batch.revealDeadline >= ledger[count].revealDeadline
            /\ batch.cursor = ledger[count].cursor
      BY <1>5, <2>3, SdkReturnsWrites
    <3>2. /\ ledger' \in [Attempts -> BatchRecord] /\ ledger'[count] = batch
          /\ \A a \in Attempts : a # count => ledger'[a] = ledger[a]
      BY <1>1, <2>1, <3>1
    <3>3. ASSUME NEW a \in Attempts, a = count PROVE RowStep(a)
      <4>1. ledger'[a].cursor >= ledger[a].cursor
        BY <1>2, <3>1, <3>2, <3>3
      <4>2. IsOpen(a) /\ a <= count
        BY <1>1, <2>1, <3>3
      <4> QED
        BY <1>1, <2>1, <3>1, <3>2, <3>3, <4>1, <4>2, OpenRow
    <3>4. \A a \in Attempts : a # count => RowStep(a)
      BY <1>1, <2>1, <3>2, SameRow
    <3> QED
      BY <1>1, <2>1, <3>2, <3>3, <3>4
  <2> QED
    BY <2>2, <2>3
<1>6. CASE Resolved
  <2>1. \A a \in Attempts :
          /\ Resolution(a) \in BatchRecord
          /\ Resolution(a).deadline = ledger[a].deadline
          /\ Resolution(a).revealDeadline = ledger[a].revealDeadline
          /\ Resolution(a).cursor = ledger[a].cursor
    BY <1>1, ResolutionType
  <2>2. \A a \in Attempts : ledger'[a] = IF IsOpen(a) THEN Resolution(a) ELSE ledger[a]
    BY <1>6 DEF Resolved
  <2>3. ledger' \in [Attempts -> BatchRecord] /\ count' = count
    BY <1>1, <1>6, <2>1 DEF Resolved
  <2>4. \A a \in Attempts : a > count => ledger[a] = Absent /\ ~IsOpen(a)
    BY <1>1 DEF NotRecordedYet, Absent
  <2>5. \A a \in Attempts : RowStep(a)
    BY <1>2, <2>1, <2>2, <2>3, <2>4 DEF RowStep
  <2> QED
    BY <1>1, <2>3, <2>5
<1>7. CASE CursorAdvanced
  <2> DEFINE b == scanned.batch
             batch == [ledger[b] EXCEPT !.cursor = Larger(ledger[b].cursor, scanned.end)]
  <2>1. b \in Attempts /\ count' = count /\ IsOpen(b) /\ Rewritten(b, batch)
    BY <1>1, <1>7 DEF CursorAdvanced
  <2>2. scanned.end \in Block
    BY <1>1 DEF TypeOK
  <2>3. /\ Larger(ledger[b].cursor, scanned.end) \in Height
        /\ Larger(ledger[b].cursor, scanned.end) >= ledger[b].cursor
    BY <1>2, <2>1, <2>2 DEF Larger, Height, Block
  <2>4. ledger[b] \in BatchRecord
    BY <1>1, <2>1
  <2>5. /\ batch \in BatchRecord /\ batch.state = ledger[b].state
        /\ batch.deadline = ledger[b].deadline
        /\ batch.revealDeadline = ledger[b].revealDeadline
        /\ batch.cursor >= ledger[b].cursor
    BY <2>3, <2>4 DEF BatchRecord
  <2> HIDE DEF batch
  <2>6. /\ ledger' \in [Attempts -> BatchRecord] /\ ledger'[b] = batch
        /\ \A a \in Attempts : a # b => ledger'[a] = ledger[a]
    BY <1>1, <2>1, <2>5
  <2>7. ASSUME NEW a \in Attempts, a = b PROVE RowStep(a)
    <3>1. a <= count
      <4>1. ledger[a] # Absent
        BY <2>1, <2>7 DEF Absent
      <4> QED
        BY <1>1, <4>1 DEF NotRecordedYet, Attempts
    <3>2. /\ ledger'[a].deadline >= ledger[a].deadline
          /\ ledger'[a].revealDeadline >= ledger[a].revealDeadline
      BY <1>2, <2>5, <2>6, <2>7
    <3> QED
      BY <1>1, <2>1, <2>5, <2>6, <2>7, <3>1, <3>2, OpenRow
  <2>8. \A a \in Attempts : a # b => RowStep(a)
    BY <1>1, <2>1, <2>6, SameRow
  <2> QED
    BY <1>1, <2>1, <2>6, <2>7, <2>8
<1> QED
  BY <1>3, <1>4, <1>5, <1>6, <1>7, LedgerSteps

\* The signature puts an extrinsic of the batch in the pool.
LEMMA SignTyped ==
    ASSUME TypeOK, NEW a \in Attempts, Sign(a)
    PROVE  ext' \in [Extrinsics -> ExtRecord] /\ running' \subseteq Attempts
<1>1. ext \in [Extrinsics -> ExtRecord] /\ a \in Extrinsics
  BY BoundAssumption DEF TypeOK, ExtRecord, Attempts, Extrinsics
<1>2. head \in Height /\ ledger[a].vec \in Vectors \cup {NoVector} /\ Never \in Height
  BY DEF TypeOK, Height
<1> DEFINE mode == IF commitReveal THEN "cr4" ELSE "direct"
           x == [Unsent EXCEPT !.phase = "pool", !.vec = ledger[a].vec, !.signed = head,
                               !.mode = mode]
<1>3. mode \in Modes
  BY DEF Modes
<1> HIDE DEF mode
<1>4. x \in ExtRecord
  BY <1>2, <1>3 DEF Unsent, ExtRecord, Phases
<1>5. ext' = [ext EXCEPT ![a] = x] /\ running' = running \ {a}
  BY DEF Sign, mode
<1> HIDE DEF x
<1> QED
  BY <1>1, <1>4, <1>5 DEF TypeOK

LEMMA TypeStep ==
    ASSUME LedgerInv, [Next]_vars
    PROVE  TypeOK'
<1> USE DEF dbVars, processVars, localVars, chainVars
<1>1. TypeOK
  BY DEF LedgerInv
<1>2. ledger' \in [Attempts -> BatchRecord] /\ count' \in 0 .. MaxAttempts
  BY LedgerRows
<1>3. ASSUME UNCHANGED <<chainVars, ext, fence, toggles>>,
             pc' \in {"idle", "planned", "calling", "resolving", "checkpoint"},
             snap' \in Block, scanned' \in [batch : Extrinsics, end : Block],
             running' \subseteq Attempts
      PROVE  TypeOK'
  BY <1>1, <1>2, <1>3 DEF TypeOK, BatchRecord
<1>4. 0 \in Block /\ NoScan \in [batch : Extrinsics, end : Block]
  BY BoundAssumption DEF Block, NoScan, Extrinsics
<1>5. CASE UNCHANGED vars
  BY <1>1, <1>5 DEF vars, TypeOK
<1>6. CASE NewBlock
  BY <1>1, <1>6, NewBlockTyped
<1>7. CASE ToggleCommitReveal
  BY <1>1, <1>7, BoundAssumption DEF ToggleCommitReveal, TypeOK
<1>8. CASE Reregister
  <2>1. uids' \in [Block -> Block]
    BY <1>1, <1>8 DEF Reregister, TypeOK
  <2> QED
    BY <1>1, <1>8, <2>1 DEF Reregister, TypeOK
<1>9. CASE RecordStartupFence
  <2>1. PICK b \in CachedHead : fence' = StartupFence(b)
    BY <1>9 DEF RecordStartupFence
  <2>2. b \in Nat
    BY <1>1, BoundAssumption DEF CachedHead, TypeOK, Block
  <2>3. fence' \in Int
    BY <2>1, <2>2, DeadlineType DEF StartupFence
  <2> QED
    BY <1>1, <1>9, <2>3 DEF RecordStartupFence, TypeOK
<1>10. CASE PlanEmission \/ AbandonPlan
  BY <1>1, <1>3, <1>10 DEF PlanEmission, AbandonPlan, TypeOK
<1>11. CASE PrepareIntent
  <2>1. running' \subseteq Attempts
    BY <1>1, <1>11, RecordsNextRow DEF PrepareIntent, TypeOK
  <2> QED
    BY <1>1, <1>3, <1>11, <2>1 DEF PrepareIntent, TypeOK
<1>12. ASSUME NEW a \in Attempts, Sign(a) PROVE TypeOK'
  <2>1. ext' \in [Extrinsics -> ExtRecord] /\ running' \subseteq Attempts
    BY <1>1, <1>12, SignTyped
  <2> QED
    BY <1>1, <1>12, <2>1 DEF Sign, TypeOK, ExtRecord
<1>13. CASE SdkReturns
  <2>1. \E stillRunning \in BOOLEAN : ReturnFromSdk(stillRunning)
    BY <1>13 DEF SdkReturns, SdkRefuses, SdkAccepts, SdkOutcomeUnknown, SdkNeedsRestart
  <2>2. running' \subseteq Attempts
    BY <1>1, <2>1 DEF ReturnFromSdk, TypeOK
  <2> QED
    BY <1>1, <1>3, <2>1, <2>2 DEF ReturnFromSdk, TypeOK
<1>14. CASE SyncMetagraph
  <2>1. \A b \in FinalizedBlocks : b \in Block
    BY <1>1, ChainAssumption, BoundAssumption DEF FinalizedBlocks, TypeOK, Block
  <2>2. snap' \in Block /\ pc' \in {"idle", "resolving"}
    BY <1>1, <1>14, <2>1 DEF SyncMetagraph, TypeOK
  <2> QED
    BY <1>1, <1>3, <1>14, <2>2 DEF SyncMetagraph, TypeOK
<1>15. CASE ResolveConfirmations
  <2>1. scanned' \in [batch : Extrinsics, end : Block]
    <3>1. \A a \in Attempts : a \in Extrinsics
      BY BoundAssumption DEF Attempts, Extrinsics
    <3> QED
      BY <1>1, <1>15, <3>1, WindowType DEF ResolveConfirmations, TypeOK
  <2>2. pc' \in {"idle", "checkpoint"} /\ snap' \in Block
    BY <1>1, <1>4, <1>15 DEF ResolveConfirmations, TypeOK
  <2> QED
    BY <1>1, <1>3, <1>15, <2>1, <2>2 DEF ResolveConfirmations, TypeOK
<1>16. CASE AdvanceCursor \/ ReconciliationFails \/ CrashAndRestart
  BY <1>1, <1>3, <1>4, <1>16 DEF AdvanceCursor, ReconciliationFails, CrashAndRestart, TypeOK
<1> QED
  BY <1>5, <1>6, <1>7, <1>8, <1>9, <1>10, <1>11, <1>12, <1>13, <1>14, <1>15, <1>16
  DEF Next, Chain, Validator

LEMMA LedgerInvStep == LedgerInv /\ [Next]_vars => LedgerInv'
<1> SUFFICES ASSUME LedgerInv, [Next]_vars PROVE LedgerInv'
  OBVIOUS
<1>1. \A a \in Attempts : RowStep(a)
  BY LedgerRows
<1>2. TypeOK' /\ TypeOK
  BY TypeStep DEF LedgerInv
<1>3. NotRecordedYet'
  BY <1>1 DEF NotRecordedYet, RowStep
<1>4. CallIsPrepared'
  <2>1. CASE Untouched
    BY <2>1 DEF Untouched, LedgerInv, CallIsPrepared
  <2>2. CASE Recorded /\ pc' = "calling"
    <3>1. PICK batch \in BatchRecord :
            Rewritten(count', batch)
            /\ batch.state = IF pc' = "calling" THEN "prepared" ELSE "failed"
      BY <2>2, RecordsNextRow DEF Recorded
    <3>2. count' \in Attempts
      BY <2>2, RecordsNextRow DEF Recorded
    <3> QED
      BY <1>2, <2>2, <3>1, <3>2 DEF CallIsPrepared, Rewritten, TypeOK
  <2>3. CASE pc' # "calling"
    BY <2>3 DEF CallIsPrepared
  <2> QED
    BY <2>1, <2>2, <2>3, LedgerSteps, SdkReturnsWrites DEF Resolved, CursorAdvanced
<1>5. CheckpointIsRecorded'
  <2>1. CASE Recorded
    BY <2>1, RecordsNextRow DEF Recorded, CheckpointIsRecorded
  <2>2. CASE Untouched \/ SdkReturns \/ Resolved \/ CursorAdvanced
    BY <2>2, SdkReturnsWrites
    DEF Untouched, Resolved, CursorAdvanced, LedgerInv, CheckpointIsRecorded
  <2> QED
    BY <2>1, <2>2, LedgerSteps
<1>6. OneOpenBatch'
  <2>1. CASE Recorded /\ pc' = "calling"
    <3>1. \A a \in Attempts : ~IsOpen(a)
      BY <2>1, RecordsNextRow DEF Recorded, OpenConfirmation
    <3> QED
      BY <1>1, <3>1 DEF RowStep, OneOpenBatch, IsOpen
  <2>2. CASE ~(Recorded /\ pc' = "calling")
    BY <1>1, <2>2 DEF RowStep, LedgerInv, OneOpenBatch, IsOpen
  <2> QED
    BY <2>1, <2>2
<1> QED
  BY <1>2, <1>3, <1>4, <1>5, <1>6 DEF LedgerInv

-----------------------------------------------------------------------------
\* The inductive invariant of the ledger.
THEOREM LedgerInvariant == Spec => []LedgerInv
  BY InitTyped, LedgerInvStep, PTL DEF Spec

\* Every reachable state has the types the model declares, whatever the sizes.
THEOREM TypeCorrect == Spec => []TypeOK
<1>1. LedgerInv => TypeOK
  BY DEF LedgerInv
<1> QED
  BY <1>1, LedgerInvariant, PTL

\* Single flight in the table: whatever crashed or timed out, one batch at most is
\* open (uq_weight_emission_open_schema and has_open_weight_emission_confirmation).
THEOREM SingleFlight == Spec => []OneOpenBatch
<1>1. LedgerInv => OneOpenBatch
  BY DEF LedgerInv
<1> QED
  BY <1>1, LedgerInvariant, PTL

\* The ledger is history: verdicts are final, the startup fence survives restarts,
\* deadlines and the scan cursor never move back.
THEOREM HistoryIsKept == Spec => LedgerHistory
<1>1. LedgerInv /\ [Next]_vars =>
        [/\ fence # Never => fence' = fence
         /\ count' >= count
         /\ \A a \in Attempts :
              /\ ledger[a].state \in {"confirmed", "unconfirmed", "failed"} =>
                   ledger'[a] = ledger[a]
              /\ ledger'[a].deadline >= ledger[a].deadline
              /\ ledger'[a].revealDeadline >= ledger[a].revealDeadline
              /\ ledger'[a].cursor >= ledger[a].cursor]_<<ledger, count, fence>>
  <2> SUFFICES ASSUME LedgerInv, [Next]_vars
               PROVE  /\ fence # Never => fence' = fence
                      /\ count' >= count
                      /\ \A a \in Attempts : RowStep(a)
    BY DEF RowStep
  <2>1. fence # Never => fence' = fence
    BY DEF Next, Chain, Validator, vars, dbVars, NewBlock, ToggleCommitReveal, Reregister,
           RecordStartupFence, PlanEmission, AbandonPlan, PrepareIntent, Sign, SdkReturns,
           SdkRefuses, SdkAccepts, SdkOutcomeUnknown, SdkNeedsRestart, ReturnFromSdk,
           SyncMetagraph, ResolveConfirmations, AdvanceCursor, ReconciliationFails,
           CrashAndRestart
  <2> QED
    BY <2>1, LedgerRows
<1> QED
  BY <1>1, LedgerInvariant, PTL DEF Spec, LedgerHistory

-----------------------------------------------------------------------------
(***************************************************************************)
(* The epoch schedule.                                                     *)
(***************************************************************************)
LEMMA EpochBounds ==
    ASSUME NEW b \in Nat
    PROVE  /\ Epoch(b) \in Nat
           /\ Epoch(b) * TEMPO <= b /\ b < Epoch(b) * TEMPO + TEMPO
<1>1. /\ b \div TEMPO \in Nat
      /\ b = TEMPO * (b \div TEMPO) + (b % TEMPO)
      /\ b % TEMPO \in 0 .. TEMPO - 1
  BY ChainAssumption
<1>2. TEMPO * (b \div TEMPO) = (b \div TEMPO) * TEMPO /\ (b \div TEMPO) * TEMPO \in Nat
  BY <1>1, ChainAssumption
<1> QED
  BY <1>1, <1>2, ChainAssumption DEF Epoch

\* Products with TEMPO keep the order.
LEMMA TempoOrder ==
    ASSUME NEW m \in Nat, NEW n \in Nat
    PROVE  /\ m <= n => m * TEMPO <= n * TEMPO
           /\ m * TEMPO < n * TEMPO + TEMPO => m <= n
           /\ m * TEMPO \in Nat
           /\ (m + n) * TEMPO = m * TEMPO + n * TEMPO
           /\ TEMPO <= REVEAL_EPOCHS * TEMPO /\ REVEAL_EPOCHS * TEMPO \in Nat
<1>1. m * TEMPO \in Nat /\ (m + n) * TEMPO = m * TEMPO + n * TEMPO
  BY ChainAssumption
<1>2. m <= n => m * TEMPO <= n * TEMPO
  BY ChainAssumption
<1>3. ASSUME m > n PROVE m * TEMPO >= n * TEMPO + TEMPO
  <2>1. PICK k \in Nat : m = n + 1 + k
    <3>1. m - n - 1 \in Nat /\ m = n + 1 + (m - n - 1)
      BY <1>3
    <3> QED
      BY <3>1
  <2>2. m * TEMPO = n * TEMPO + TEMPO + k * TEMPO /\ k * TEMPO \in Nat
    BY <2>1, ChainAssumption
  <2> QED
    BY <2>2, ChainAssumption
<1>4. TEMPO <= REVEAL_EPOCHS * TEMPO /\ REVEAL_EPOCHS * TEMPO \in Nat
  BY ChainAssumption
<1> QED
  BY <1>1, <1>2, <1>3, <1>4, ChainAssumption

\* A reveal starts after its commitment, with the schedule of a later block it is
\* not earlier, and the deadline of a sample outlasts the reveal of every
\* commitment that an epoch after it can still bring.
LEMMA RevealIsLater ==
    ASSUME NEW i \in Nat
    PROVE  /\ (Epoch(i) + REVEAL_EPOCHS) * TEMPO \in Nat
           /\ i < (Epoch(i) + REVEAL_EPOCHS) * TEMPO
<1>1. Epoch(i) \in Nat /\ i < Epoch(i) * TEMPO + TEMPO
  BY EpochBounds
<1>2. REVEAL_EPOCHS \in Nat
  BY ChainAssumption
<1>3. (Epoch(i) + REVEAL_EPOCHS) * TEMPO = Epoch(i) * TEMPO + REVEAL_EPOCHS * TEMPO
  BY <1>1, <1>2, TempoOrder
<1>4. /\ TEMPO <= REVEAL_EPOCHS * TEMPO /\ REVEAL_EPOCHS * TEMPO \in Nat
      /\ Epoch(i) * TEMPO \in Nat /\ TEMPO \in Nat
  BY <1>1, <1>2, TempoOrder, ChainAssumption
<1> HIDE DEF Epoch
<1> QED
  BY <1>1, <1>3, <1>4

LEMMA DeadlineOfSample ==
    ASSUME NEW s \in Nat
    PROVE  /\ RevealDeadlineAt(s) \in Nat
           /\ RevealDeadlineAt(s)
              = Epoch(s + 1) * TEMPO + REVEAL_EPOCHS * TEMPO + TEMPO + MARGIN
           /\ s + 1 + TEMPO + MARGIN < RevealDeadlineAt(s)
<1>1. /\ Epoch(s + 1) \in Nat /\ s + 1 < Epoch(s + 1) * TEMPO + TEMPO
      /\ Epoch(s + 1) * TEMPO \in Nat
  BY EpochBounds, TempoOrder
<1>2. /\ TEMPO \in Nat /\ MARGIN \in Nat /\ REVEAL_EPOCHS \in Nat
      /\ TEMPO <= REVEAL_EPOCHS * TEMPO /\ REVEAL_EPOCHS * TEMPO \in Nat
  BY ChainAssumption, TempoOrder
<1>3. RevealDeadlineAt(s) = (Epoch(s + 1) + (REVEAL_EPOCHS + 1)) * TEMPO + MARGIN
  BY DEF RevealDeadlineAt, RevealDeadlineBlock, EpochStartAfterCommit
<1>4. (Epoch(s + 1) + (REVEAL_EPOCHS + 1)) * TEMPO
      = Epoch(s + 1) * TEMPO + (REVEAL_EPOCHS + 1) * TEMPO
  BY <1>1, <1>2, TempoOrder
<1>5. (REVEAL_EPOCHS + 1) * TEMPO = REVEAL_EPOCHS * TEMPO + TEMPO
  BY <1>2
<1> QED
  BY <1>1, <1>2, <1>3, <1>4, <1>5

LEMMA RevealInTime ==
    ASSUME NEW s \in Nat, NEW i \in Nat, i <= s + 1 + TEMPO
    PROVE  (Epoch(i) + REVEAL_EPOCHS) * TEMPO + MARGIN <= RevealDeadlineAt(s)
<1> DEFINE e == Epoch(i)
           f == Epoch(s + 1)
<1>1. /\ e \in Nat /\ e * TEMPO <= i /\ e * TEMPO \in Nat
      /\ f \in Nat /\ s + 1 < f * TEMPO + TEMPO /\ f * TEMPO \in Nat
  BY EpochBounds, TempoOrder
<1>2. /\ TEMPO \in Nat /\ MARGIN \in Nat /\ REVEAL_EPOCHS \in Nat
      /\ REVEAL_EPOCHS * TEMPO \in Nat
  BY ChainAssumption, TempoOrder
<1>3. /\ RevealDeadlineAt(s) = f * TEMPO + REVEAL_EPOCHS * TEMPO + TEMPO + MARGIN
      /\ (e + REVEAL_EPOCHS) * TEMPO = e * TEMPO + REVEAL_EPOCHS * TEMPO
  BY <1>1, <1>2, DeadlineOfSample, TempoOrder
<1> HIDE DEF e, f
<1>4. (f + 1) * TEMPO = f * TEMPO + TEMPO
  BY <1>1, <1>2
<1>5. e <= f + 1
  BY <1>1, <1>2, <1>4, TempoOrder
<1>6. e * TEMPO <= f * TEMPO + TEMPO
  BY <1>1, <1>4, <1>5, TempoOrder
<1> QED
  BY <1>1, <1>2, <1>3, <1>6 DEF e

LEMMA DeadlineMonotone ==
    ASSUME NEW b \in Nat, NEW c \in Nat, b <= c
    PROVE  RevealDeadlineAt(b) <= RevealDeadlineAt(c)
<1> DEFINE e == Epoch(b + 1)
           f == Epoch(c + 1)
<1> b + 1 \in Nat /\ c + 1 \in Nat
  OBVIOUS
<1>1. /\ e \in Nat /\ e * TEMPO <= b + 1 /\ e * TEMPO \in Nat
      /\ f \in Nat /\ c + 1 < f * TEMPO + TEMPO /\ f * TEMPO \in Nat
  <2>1. e \in Nat /\ e * TEMPO <= b + 1
    BY EpochBounds
  <2>2. f \in Nat /\ c + 1 < f * TEMPO + TEMPO
    BY EpochBounds
  <2> QED
    BY <2>1, <2>2, TempoOrder
<1>2. /\ TEMPO \in Nat /\ MARGIN \in Nat /\ REVEAL_EPOCHS * TEMPO \in Nat
  BY ChainAssumption, TempoOrder
<1>3. /\ RevealDeadlineAt(b) = e * TEMPO + REVEAL_EPOCHS * TEMPO + TEMPO + MARGIN
      /\ RevealDeadlineAt(c) = f * TEMPO + REVEAL_EPOCHS * TEMPO + TEMPO + MARGIN
  BY DeadlineOfSample
<1> HIDE DEF e, f
<1>4. e * TEMPO < f * TEMPO + TEMPO
  BY <1>1, <1>2
<1>5. e <= f
  BY <1>1, <1>4, TempoOrder
<1>6. e * TEMPO <= f * TEMPO
  BY <1>1, <1>5, TempoOrder
<1> QED
  BY <1>1, <1>2, <1>3, <1>6

-----------------------------------------------------------------------------
(***************************************************************************)
(* The inductive invariant, a conjunction of what each part of the system  *)
(* contributes: blocks bound an extrinsic by the sample it was signed      *)
(* after, the deadlines of its batch lie behind that bound, and everything *)
(* before the newest batch is settled.                                     *)
(***************************************************************************)
\* The sample an extrinsic was signed after: the legacy writer's is block 0.
SentAt(x) == IF x = Legacy THEN 0 ELSE ledger[x].sub

\* The last block at which it can change the weights.
LandsBy(x) == IF ext[x].mode = "cr4" THEN RevealDeadlineAt(SentAt(x))
              ELSE SentAt(x) + SIGN_DELAY + PERIOD

InPool(x) ==
    /\ SentAt(x) <= ext[x].signed /\ ext[x].signed <= SentAt(x) + SIGN_DELAY
    /\ ext[x].signed <= head /\ head < ext[x].signed + PERIOD

Committed(x) ==
    /\ ext[x].mode = "cr4"
    /\ SentAt(x) < ext[x].incl /\ ext[x].incl <= SentAt(x) + SIGN_DELAY + PERIOD
    /\ ext[x].incl <= head /\ head < RevealStart(x) + REVEAL_JITTER

\* Weights that were there at the start may date from block 0.
Applied(x) ==
    /\ x # Legacy => SentAt(x) < ext[x].incl
    /\ 0 <= ext[x].incl /\ ext[x].incl <= SentAt(x) + SIGN_DELAY + PERIOD
    /\ ext[x].incl <= ext[x].applied /\ ext[x].applied <= head
    /\ IF ext[x].mode = "direct" THEN ext[x].applied = ext[x].incl
       ELSE ext[x].applied <= RevealStart(x) + REVEAL_JITTER

ChainRow(x) ==
    /\ ext[x].phase = "pool" => InPool(x)
    /\ ext[x].phase = "committed" => Committed(x)
    /\ ext[x].phase = "applied" => Applied(x)
    /\ ext[x].phase \in {"unsent", "pool", "expired"} => ext[x].incl = Never
    /\ ext[x].phase # "applied" => ext[x].applied = Never
ExtrinsicsInTime == \A x \in Extrinsics : ChainRow(x)

\* An extrinsic is that of its batch, and a thread that may still sign is young.
RunningRow(a) ==
    /\ ext[a].phase = "unsent" /\ IsOpen(a)
    /\ head <= ledger[a].sub + SIGN_DELAY
    /\ commitReveal = (ledger[a].mode = "cr4")
OwnBatch(a) ==
    /\ ext[a].phase \in {"pool", "committed", "applied"} =>
         /\ ledger[a].sub # Never
         /\ ext[a].mode = ledger[a].mode /\ ext[a].vec = ledger[a].vec
    /\ ext[a].mode = "cr4" => ledger[a].mode = "cr4"
    /\ a \in running => RunningRow(a)
BatchesMatch == \A a \in Attempts : OwnBatch(a)

\* What the ledger promises of a batch that was ever prepared.
PreparedRow(a) ==
    /\ 0 <= ledger[a].sub /\ ledger[a].sub <= head
    /\ ledger[a].deadline >= InclusionDeadlineAt(ledger[a].sub)
    /\ ledger[a].mode = "cr4" => ledger[a].revealDeadline >= RevealDeadlineAt(ledger[a].sub)
    /\ ledger[a].observed # Never => ledger[a].observed = ext[a].incl
BatchesInTime == \A a \in Attempts : ledger[a].sub # Never => PreparedRow(a)

OnlyNewestIsOpen ==
    /\ \A a \in Attempts : IsOpen(a) => a = count /\ ledger[a].sub # Never
    /\ \A a \in Attempts : ledger[a].state = "absent" => a > count
    /\ \A a \in Attempts : ext[a].phase # "unsent" => a <= count

\* Single flight against what came before, in time as well.
Settled(x, b) == ~CanStillLand(x) /\ ext[x].applied < b
EarlierSettled ==
    \A a \in Attempts : ledger[a].sub # Never =>
      \A x \in Extrinsics : x < a => Settled(x, ledger[a].sub)
ClosedSettled == \A a \in Attempts : a <= count /\ ~IsOpen(a) => Settled(a, head)

\* The startup fence outlasts whatever the legacy writer left.
FenceCovers ==
    ext[Legacy].phase \in {"pool", "committed", "applied"} =>
      IF fence = Never THEN ext[Legacy].mode = "cr4" => commitReveal
      ELSE fence >= LandsBy(Legacy)
FencePassed ==
    /\ count > 0 \/ pc = "planned" => fence # Never /\ head > fence
    /\ pc = "planned" => ~OpenConfirmation

SnapIsFinal == pc \in {"resolving", "checkpoint"} => snap < head

\* A UID is named by the block that registered it: it only grows, and a batch is
\* planned under one that its submission block has seen.
UidsGrow ==
    /\ \A b \in 0 .. head : uids[b] <= b
    /\ \A b, c \in 0 .. head : b <= c => uids[b] <= uids[c]
UidsOfBatches ==
    \A a \in Attempts : ledger[a].sub # Never =>
      /\ ledger[a].uid <= ledger[a].sub
      /\ \A b \in ledger[a].sub .. head : ledger[a].uid <= uids[b]

SettlementInv ==
    /\ LedgerInv
    /\ ExtrinsicsInTime /\ BatchesMatch /\ BatchesInTime
    /\ OnlyNewestIsOpen /\ EarlierSettled /\ ClosedSettled
    /\ FenceCovers /\ FencePassed /\ SnapIsFinal
    /\ UidsGrow /\ UidsOfBatches

LEMMA Numbers ==
    ASSUME TypeOK
    PROVE  /\ head \in Nat /\ snap \in Nat /\ count \in Nat /\ fence \in Int
           /\ \A x \in Extrinsics :
                /\ ext[x].signed \in Int /\ ext[x].signed >= Never
                /\ ext[x].incl \in Int /\ ext[x].incl >= Never
                /\ ext[x].applied \in Int /\ ext[x].applied >= Never
                /\ ext[x].phase \in Phases /\ ext[x].mode \in Modes
           /\ \A a \in Attempts :
                /\ a \in Extrinsics /\ a \in Nat /\ a > 0 /\ a # Legacy
                /\ ledger[a].sub \in Int /\ ledger[a].sub >= Never
                /\ ledger[a].deadline \in Int /\ ledger[a].revealDeadline \in Int
                /\ ledger[a].observed \in Int /\ ledger[a].cursor \in Int
                /\ ledger[a].cursor >= Never
                /\ ledger[a].mode \in Modes /\ ledger[a].state \in States
           /\ \A x \in Extrinsics : x \in Int /\ (x = Legacy \/ x \in Attempts)
<1> USE BoundAssumption
<1>1. \A h \in Height : h \in Int /\ h >= Never
  BY DEF Height, Block, Never
<1>2. \A x \in Extrinsics : ext[x] \in ExtRecord
  BY DEF TypeOK, ExtRecord
<1>3. \A a \in Attempts : ledger[a] \in BatchRecord
  BY DEF TypeOK, BatchRecord
<1>4. \A x \in Extrinsics :
                /\ ext[x].signed \in Int /\ ext[x].signed >= Never
                /\ ext[x].incl \in Int /\ ext[x].incl >= Never
                /\ ext[x].applied \in Int /\ ext[x].applied >= Never
                /\ ext[x].phase \in Phases /\ ext[x].mode \in Modes
  BY <1>1, <1>2 DEF ExtRecord
<1>5. \A a \in Attempts :
                /\ ledger[a].sub \in Int /\ ledger[a].sub >= Never
                /\ ledger[a].deadline \in Int /\ ledger[a].revealDeadline \in Int
                /\ ledger[a].observed \in Int /\ ledger[a].cursor \in Int
                /\ ledger[a].cursor >= Never
                /\ ledger[a].mode \in Modes /\ ledger[a].state \in States
  BY <1>1, <1>3 DEF BatchRecord
<1>6. \A a \in Attempts : a \in Extrinsics /\ a \in Nat /\ a > 0 /\ a # Legacy
  BY DEF Attempts, Extrinsics, Legacy
<1>7. \A x \in Extrinsics : x \in Int /\ (x = Legacy \/ x \in Attempts)
  BY DEF Attempts, Extrinsics, Legacy
<1>8. head \in Nat /\ snap \in Nat /\ count \in Nat /\ fence \in Int
  BY DEF TypeOK, Block
<1> QED
  BY <1>4, <1>5, <1>6, <1>7, <1>8

LEMMA InitSettled == Init => SettlementInv
<1> SUFFICES ASSUME Init PROVE SettlementInv
  OBVIOUS
<1>1. LedgerInv /\ TypeOK
  BY InitTyped DEF LedgerInv
<1>2. \A a \in Attempts :
        /\ a \in Extrinsics /\ a # Legacy /\ a > 0 /\ a \in Nat
        /\ ledger[a] = Absent /\ ext[a] = Unsent
  <2>1. \A a \in Attempts : a \in Extrinsics /\ a # Legacy /\ a > 0 /\ a \in Nat
    BY <1>1, Numbers
  <2> QED
    BY <2>1 DEF Init
<1>3. PICK kind \in {"none", "pool", "applied"}, vec \in Vectors :
        ext[Legacy] = LegacyExtrinsic(kind, vec, IF commitReveal THEN "cr4" ELSE "direct")
  <2>1. Legacy \in Extrinsics
    BY BoundAssumption DEF Legacy, Extrinsics
  <2> QED
    BY <2>1, BoundAssumption DEF Init
<1>4. /\ head = 0 /\ count = 0 /\ fence = Never /\ pc = "idle" /\ running = {}
  BY DEF Init
<1>5. /\ ext[Legacy].phase \in {"unsent", "pool", "applied"}
      /\ ext[Legacy].phase = "unsent" => ext[Legacy] = Unsent
      /\ ext[Legacy].phase = "pool" =>
           /\ ext[Legacy].signed = 0 /\ ext[Legacy].incl = Never
           /\ ext[Legacy].applied = Never
           /\ ext[Legacy].mode = "cr4" => commitReveal
      /\ ext[Legacy].phase = "applied" =>
           ext[Legacy].incl = 0 /\ ext[Legacy].applied = 0 /\ ext[Legacy].mode = "direct"
  BY <1>3 DEF LegacyExtrinsic, Unsent
<1>6. ExtrinsicsInTime
  <2>1. ASSUME NEW x \in Extrinsics, ext[x] = Unsent PROVE ChainRow(x)
    BY <2>1 DEF ChainRow, Unsent
  <2>2. ChainRow(Legacy)
    BY <1>4, <1>5, <2>1, ChainAssumption
    DEF ChainRow, InPool, Committed, Applied, SentAt, Unsent
  <2> QED
    BY <1>1, <1>2, <2>1, <2>2, Numbers DEF ExtrinsicsInTime
<1>7. BatchesMatch
  BY <1>2, <1>4 DEF BatchesMatch, OwnBatch, Unsent
<1>8. BatchesInTime /\ EarlierSettled
  BY <1>2 DEF BatchesInTime, EarlierSettled, Absent
<1>9. OnlyNewestIsOpen /\ ClosedSettled
  BY <1>2, <1>4 DEF OnlyNewestIsOpen, ClosedSettled, IsOpen, OpenStates, Absent, Unsent
<1>10. FenceCovers
  BY <1>4, <1>5 DEF FenceCovers
<1>11. FencePassed /\ SnapIsFinal
  BY <1>4 DEF FencePassed, SnapIsFinal
<1>12. UidsGrow /\ UidsOfBatches
  <2>1. uids[0] = 0
    BY BoundAssumption DEF Init, Block
  <2> QED
    BY <1>2, <1>4, <2>1 DEF UidsGrow, UidsOfBatches, Absent
<1> QED
  BY <1>1, <1>6, <1>7, <1>8, <1>9, <1>10, <1>11, <1>12 DEF SettlementInv

-----------------------------------------------------------------------------
(***************************************************************************)
(* What the invariant says of a state.                                     *)
(***************************************************************************)
LEMMA LandsInTime ==
    ASSUME TypeOK, NEW x \in Extrinsics, ChainRow(x), SentAt(x) \in Nat
    PROVE  /\ LandsBy(x) \in Nat
           /\ ext[x].phase \in {"pool", "committed"} => head <= LandsBy(x)
           /\ ext[x].applied <= LandsBy(x)
<1> DEFINE s == SentAt(x)
<1> USE ChainAssumption, DeploymentAssumption
<1>1. /\ ext[x].incl \in Int /\ ext[x].signed \in Int /\ ext[x].applied \in Int
      /\ ext[x].mode \in {"direct", "cr4"} /\ ext[x].phase \in Phases /\ head \in Nat
  BY Numbers DEF Modes
<1>2. /\ RevealDeadlineAt(s) \in Nat /\ s + 1 + TEMPO <= RevealDeadlineAt(s)
  BY DeadlineOfSample
<1>3. LandsBy(x) \in Nat /\ s + SIGN_DELAY + PERIOD <= LandsBy(x)
  BY <1>2 DEF LandsBy
<1>4. ASSUME ext[x].incl \in Nat, ext[x].incl <= s + SIGN_DELAY + PERIOD, ext[x].mode = "cr4"
      PROVE  RevealStart(x) + REVEAL_JITTER <= LandsBy(x) /\ RevealStart(x) \in Nat
  <2>1. ext[x].incl <= s + 1 + TEMPO
    BY <1>4
  <2>2. (Epoch(ext[x].incl) + REVEAL_EPOCHS) * TEMPO + MARGIN <= RevealDeadlineAt(s)
    BY <1>4, <2>1, RevealInTime
  <2>3. RevealStart(x) \in Nat /\ RevealStart(x) + MARGIN <= RevealDeadlineAt(s)
    BY <1>4, <2>2, RevealIsLater DEF RevealStart
  <2> QED
    BY <1>2, <1>4, <2>3 DEF LandsBy
<1>5. CASE ext[x].phase = "pool"
  BY <1>1, <1>3, <1>5 DEF ChainRow, InPool, Never
<1>6. CASE ext[x].phase = "committed"
  <2>1. ext[x].incl \in Nat /\ Committed(x) /\ ext[x].applied = Never
    BY <1>1, <1>6 DEF ChainRow, Committed
  <2> QED
    BY <1>1, <1>3, <1>4, <2>1, <1>6 DEF Committed, Never
<1>7. CASE ext[x].phase = "applied"
  <2>1. ext[x].incl \in Nat /\ Applied(x)
    BY <1>1, <1>7 DEF ChainRow, Applied
  <2> QED
    BY <1>1, <1>3, <1>4, <2>1, <1>7 DEF Applied
<1>8. CASE ext[x].phase \notin {"pool", "committed", "applied"}
  BY <1>1, <1>3, <1>8 DEF ChainRow, Never
<1> QED
  BY <1>3, <1>5, <1>6, <1>7, <1>8

\* The block behind which a batch has nothing to expect.
Expiry(a) == IF ledger[a].mode = "cr4" THEN ledger[a].revealDeadline ELSE ledger[a].deadline

LEMMA BatchLandsInTime ==
    ASSUME SettlementInv, NEW a \in Attempts, ledger[a].sub # Never
    PROVE  /\ Expiry(a) \in Int
           /\ CanStillLand(a) => head <= Expiry(a)
           /\ ext[a].applied <= Expiry(a)
<1> USE ChainAssumption, DeploymentAssumption
<1> DEFINE s == ledger[a].sub
<1>1. /\ TypeOK /\ ChainRow(a) /\ OwnBatch(a) /\ PreparedRow(a) /\ a # Legacy
      /\ a \in Extrinsics
  BY Numbers
  DEF SettlementInv, LedgerInv, ExtrinsicsInTime, BatchesMatch, BatchesInTime
<1>2. /\ ledger[a].deadline \in Int /\ ledger[a].revealDeadline \in Int
      /\ ledger[a].mode \in {"direct", "cr4"} /\ ext[a].applied \in Int
      /\ head \in Nat /\ s \in Nat /\ SentAt(a) = s
  BY <1>1, Numbers DEF Modes, PreparedRow, SentAt
<1>3. /\ RevealDeadlineAt(s) \in Nat /\ s + 1 + TEMPO <= RevealDeadlineAt(s)
  BY <1>2, DeadlineOfSample
<1>4. Expiry(a) \in Nat /\ s + SIGN_DELAY + PERIOD <= Expiry(a)
  BY <1>1, <1>2, <1>3 DEF Expiry, PreparedRow, InclusionDeadlineAt
<1>5. ext[a].mode = ledger[a].mode => LandsBy(a) <= Expiry(a)
  BY <1>1, <1>2, <1>3 DEF Expiry, PreparedRow, InclusionDeadlineAt, LandsBy
<1>6. /\ LandsBy(a) \in Nat
      /\ ext[a].phase \in {"pool", "committed"} => head <= LandsBy(a)
      /\ ext[a].applied <= LandsBy(a)
  BY <1>1, <1>2, LandsInTime
<1>7. CASE ext[a].phase \in {"pool", "committed", "applied"}
  BY <1>1, <1>2, <1>4, <1>5, <1>6, <1>7 DEF OwnBatch, RunningRow, CanStillLand
<1>8. CASE ext[a].phase \notin {"pool", "committed", "applied"}
  BY <1>1, <1>2, <1>4, <1>8 DEF ChainRow, OwnBatch, RunningRow, CanStillLand, Never
<1> QED
  BY <1>4, <1>7, <1>8

\* Behind the fence, the legacy writer's extrinsic is settled.
LEMMA LegacySettled ==
    ASSUME SettlementInv, fence # Never, head > fence
    PROVE  Settled(Legacy, head)
<1>1. /\ TypeOK /\ Legacy \in Extrinsics /\ ChainRow(Legacy) /\ SentAt(Legacy) = 0
      /\ Legacy \notin running
  BY BoundAssumption
  DEF SettlementInv, LedgerInv, ExtrinsicsInTime, Legacy, Extrinsics, SentAt, TypeOK, Attempts
<1>2. /\ LandsBy(Legacy) \in Nat
      /\ ext[Legacy].phase \in {"pool", "committed"} => head <= LandsBy(Legacy)
      /\ ext[Legacy].applied <= LandsBy(Legacy)
  BY <1>1, LandsInTime
<1>3. ext[Legacy].applied \in Int /\ head \in Nat /\ fence \in Int
  BY <1>1, Numbers
<1>4. ext[Legacy].phase \in {"pool", "committed", "applied"} => fence >= LandsBy(Legacy)
  BY DEF SettlementInv, FenceCovers
<1> QED
  BY <1>1, <1>2, <1>3, <1>4 DEF Settled, CanStillLand, ChainRow, Never

-----------------------------------------------------------------------------
(***************************************************************************)
(* What finalized state tells of an open batch.                            *)
(***************************************************************************)
\* A set of blocks has a last one.
LEMMA LastBlock ==
    ASSUME NEW S \in SUBSET Block, S # {}
    PROVE  Max(S) \in S /\ \A b \in S : Max(S) >= b
<1> USE BoundAssumption
<1> DEFINE T == {MaxBlock - b : b \in S}
<1>1. T \subseteq Nat /\ T # {}
  <2>1. \A b \in S : MaxBlock - b \in Nat
    BY DEF Block
  <2>2. PICK b \in S : TRUE
    OBVIOUS
  <2>3. MaxBlock - b \in T
    BY <2>2
  <2> QED
    BY <2>1, <2>3
<1>2. PICK m \in T : \A n \in T : <<n, m>> \notin OpToRel(<, Nat)
  BY <1>1, NatLessThanWellFounded, WFMin
<1>3. PICK b \in S : m = MaxBlock - b
  OBVIOUS
<1>4. \A c \in S : b >= c
  <2> SUFFICES ASSUME NEW c \in S, ~(b >= c) PROVE FALSE
    OBVIOUS
  <2>1. MaxBlock - c \in T /\ MaxBlock - c \in Nat /\ m \in Nat /\ MaxBlock - c < m
    BY <1>1, <1>3 DEF Block
  <2>2. <<MaxBlock - c, m>> \in OpToRel(<, Nat)
    BY <2>1 DEF OpToRel
  <2> QED
    BY <1>2, <2>1, <2>2
<1> QED
  BY <1>4 DEF Max

LEMMA LastUpdateIsLast ==
    ASSUME TypeOK, NEW b \in Block
    PROVE  /\ LastUpdateAt(b) \in {UidAt(b)} \cup {ext[x].incl : x \in IncludedBy(b)}
           /\ LastUpdateAt(b) >= UidAt(b)
           /\ \A x \in IncludedBy(b) : LastUpdateAt(b) >= ext[x].incl
<1> DEFINE S == {UidAt(b)} \cup {ext[x].incl : x \in IncludedBy(b)}
<1>1. UidAt(b) \in Block
  BY DEF TypeOK, UidAt
<1>2. \A x \in IncludedBy(b) : ext[x].incl \in Block
  BY DEF TypeOK, IncludedBy, Height
<1>3. S \subseteq Block /\ S # {}
  BY <1>1, <1>2
<1>4. LastUpdateAt(b) = Max(S)
  BY DEF LastUpdateAt
<1> HIDE DEF S
<1>5. LastUpdateAt(b) \in S /\ \A c \in S : LastUpdateAt(b) >= c
  BY <1>3, <1>4, LastBlock
<1> QED
  BY <1>5 DEF S

\* The other extrinsics of an open batch are behind it.
LEMMA OthersAreBehind ==
    ASSUME SettlementInv, NEW a \in Attempts, IsOpen(a), NEW x \in Extrinsics, x # a
    PROVE  /\ Settled(x, ledger[a].sub)
           /\ ext[x].incl # Never =>
                ext[x].incl <= ext[x].applied /\ ext[x].incl < ledger[a].sub
<1>1. /\ TypeOK /\ ChainRow(x) /\ a = count /\ ledger[a].sub # Never
      /\ ledger[a].sub \in Int /\ ledger[a].sub >= 0
  BY Numbers
  DEF SettlementInv, LedgerInv, ExtrinsicsInTime, OnlyNewestIsOpen, BatchesInTime, PreparedRow
<1>2. ext[x].incl \in Int /\ ext[x].applied \in Int /\ x \in Int /\ a \in Int
      /\ ext[x].phase \in Phases
  BY <1>1, Numbers
<1>3. Settled(x, ledger[a].sub)
  <2>1. CASE x < a
    BY <1>1, <2>1 DEF SettlementInv, EarlierSettled
  <2>2. CASE x > a
    <3>1. x \in Attempts
      BY <1>1, <1>2, <2>2, Numbers DEF Legacy
    <3>2. ext[x].phase = "unsent"
      BY <1>1, <1>2, <2>2, <3>1 DEF SettlementInv, OnlyNewestIsOpen
    <3>3. x \notin running
      BY <1>1, <1>2, <2>2, <3>1
      DEF SettlementInv, OnlyNewestIsOpen, BatchesMatch, OwnBatch, RunningRow
    <3> QED
      BY <1>1, <3>2, <3>3 DEF Settled, CanStillLand, ChainRow, Never
  <2> QED
    BY <1>2, <2>1, <2>2
<1>4. ext[x].incl # Never => ext[x].phase = "applied"
  BY <1>1, <1>2, <1>3 DEF Settled, CanStillLand, ChainRow, Phases
<1>5. ext[x].incl # Never => ext[x].incl <= ext[x].applied
  BY <1>1, <1>4 DEF ChainRow, Applied
<1> QED
  BY <1>1, <1>2, <1>3, <1>5 DEF Settled

\* A commitment found for an open batch is its own.
LEMMA OwnCandidate ==
    ASSUME SettlementInv, NEW a \in Attempts, IsOpen(a)
    PROVE  /\ Candidates(a) \subseteq {a}
           /\ ~(Cardinality(Candidates(a)) > 1)
<1>1. Candidates(a) \subseteq {a}
  <2> SUFFICES ASSUME NEW c \in Candidates(a), c # a PROVE FALSE
    OBVIOUS
  <2>1. c \in Extrinsics /\ ext[c].incl # Never /\ ledger[a].sub <= ext[c].incl
    BY DEF Candidates, CommitsAt, IncludedBy
  <2>2. ext[c].incl < ledger[a].sub
    BY <2>1, OthersAreBehind
  <2>3. ledger[a].sub \in Int /\ ext[c].incl \in Int
    BY <2>1, Numbers DEF SettlementInv, LedgerInv
  <2> QED
    BY <2>1, <2>2, <2>3
<1>2. Candidates(a) = {} \/ Candidates(a) = {a}
  BY <1>1
<1>3. Cardinality({}) = 0 /\ Cardinality({a}) = 1
  BY FS_EmptySet, FS_Singleton
<1> QED
  BY <1>1, <1>2, <1>3

\* A reveal found for an open batch is its own.
LEMMA OwnReveal ==
    ASSUME SettlementInv, NEW a \in Attempts, IsOpen(a), RevealMatches(a)
    PROVE  /\ ext[a].phase = "applied"
           /\ ext[a].applied <= snap
<1>1. /\ TypeOK /\ HasWindow(a)
      /\ \E r \in WindowStart(a) .. WindowEnd(a) :
           \E x \in Extrinsics : ext[x].applied = r
  BY DEF SettlementInv, LedgerInv, RevealMatches, RevealsRead, RevealsIn
<1>2. PICK x \in Extrinsics :
        ext[x].applied \in WindowStart(a) .. WindowEnd(a)
  BY <1>1
<1>3. /\ ledger[a].sub \in Int /\ ledger[a].cursor \in Int /\ ext[x].applied \in Int
      /\ ledger[a].revealDeadline \in Int /\ snap \in Nat
  BY <1>1, Numbers
<1>4. WindowStart(a) \in Int /\ ledger[a].sub <= WindowStart(a)
  BY <1>3 DEF WindowStart, Larger
<1>5. WindowEnd(a) \in Int /\ WindowEnd(a) <= snap
  BY <1>3, <1>4, ChainAssumption DEF WindowEnd, Smaller
<1>6. ledger[a].sub <= ext[x].applied /\ ext[x].applied <= snap
  BY <1>2, <1>3, <1>4, <1>5
<1>7. x = a
  <2> SUFFICES ASSUME x # a PROVE FALSE
    OBVIOUS
  <2>1. ext[x].applied < ledger[a].sub
    BY OthersAreBehind DEF Settled
  <2> QED
    BY <1>3, <1>6, <2>1
<1>8. ledger[a].sub # Never /\ ledger[a].sub >= 0
  BY <1>3 DEF SettlementInv, OnlyNewestIsOpen, BatchesInTime, PreparedRow
<1>9. ext[a].applied # Never
  BY <1>3, <1>6, <1>7, <1>8 DEF Never
<1>10. ChainRow(a)
  BY <1>7 DEF SettlementInv, ExtrinsicsInTime
<1> QED
  BY <1>6, <1>7, <1>9, <1>10 DEF ChainRow

\* An update after the submission is that of the batch itself.
LEMMA OwnUpdate ==
    ASSUME SettlementInv, NEW a \in Attempts, IsOpen(a), ledger[a].mode = "direct",
           UidAt(snap) = ledger[a].uid, DirectConfirms(a)
    PROVE  /\ ext[a].phase = "applied"
           /\ ext[a].applied <= snap
<1>1. TypeOK /\ snap \in Block
  BY DEF SettlementInv, LedgerInv, TypeOK
<1>2. LastUpdateAt(snap) \in {UidAt(snap)} \cup {ext[x].incl : x \in IncludedBy(snap)}
  BY <1>1, LastUpdateIsLast
<1>3. LastUpdateAt(snap) > ledger[a].sub /\ ledger[a].uid <= ledger[a].sub
  BY DEF DirectConfirms, SettlementInv, OnlyNewestIsOpen, UidsOfBatches
<1>4. ledger[a].sub \in Int /\ ledger[a].uid \in Int
  <2>1. ledger[a].uid \in Block
    BY <1>1 DEF TypeOK
  <2> QED
    BY <1>1, <2>1, Numbers, BoundAssumption DEF Block
<1>5. PICK x \in IncludedBy(snap) : ext[x].incl > ledger[a].sub
  BY <1>2, <1>3, <1>4
<1>6. x \in Extrinsics /\ ext[x].incl # Never /\ ext[x].incl <= snap
  BY DEF IncludedBy
<1>7. ext[x].incl \in Int
  BY <1>1, <1>6, Numbers
<1>8. x = a
  BY <1>4, <1>5, <1>6, <1>7, OthersAreBehind
<1>9. ChainRow(a) /\ OwnBatch(a) /\ ext[a].phase \in Phases
  BY <1>1, <1>6, <1>8, Numbers DEF SettlementInv, ExtrinsicsInTime, BatchesMatch
<1>10. ext[a].phase \in {"committed", "applied"}
  BY <1>6, <1>8, <1>9 DEF ChainRow, Phases
<1>11. ext[a].mode = "direct"
  BY <1>9, <1>10 DEF OwnBatch
<1> QED
  BY <1>6, <1>8, <1>9, <1>10, <1>11 DEF ChainRow, Committed, Applied

\* What a pass can decide of an open batch.
LEMMA ResolutionCases ==
    ASSUME SettlementInv, NEW a \in Attempts, IsOpen(a)
    PROVE  \/ Resolution(a) = ledger[a]
           \/ /\ Resolution(a) = Confirmed(a) /\ UidAt(snap) = ledger[a].uid
              /\ \/ ledger[a].mode = "direct" /\ DirectConfirms(a)
                 \/ RevealMatches(a)
           \/ Resolution(a) = Unconfirmed(a) /\ snap > Expiry(a)
           \/ Resolution(a) = Observed(a) /\ Candidates(a) # {}
<1>1. /\ TypeOK /\ ledger[a].sub # Never /\ PreparedRow(a)
  BY DEF SettlementInv, LedgerInv, OnlyNewestIsOpen, BatchesInTime
<1>2. /\ ledger[a].deadline \in Int /\ ledger[a].revealDeadline \in Int /\ snap \in Int
      /\ ledger[a].mode \in {"direct", "cr4"} /\ ledger[a].sub \in Nat
  BY <1>1, Numbers DEF Modes, PreparedRow
<1>3. CASE ledger[a].uid # UidAt(snap)
  <2>1. /\ Larger(ledger[a].deadline, ledger[a].revealDeadline) \in Int
        /\ Larger(ledger[a].deadline, ledger[a].revealDeadline) >= Expiry(a)
        /\ Expiry(a) \in Int
    BY <1>2, LargerType DEF Expiry
  <2>2. snap > Larger(ledger[a].deadline, ledger[a].revealDeadline) => snap > Expiry(a)
    BY <1>2, <2>1
  <2> QED
    BY <1>3, <2>2 DEF Resolution, ForeignResolution
<1>4. CASE ledger[a].uid = UidAt(snap) /\ snap < ledger[a].sub
  BY <1>4 DEF Resolution
<1>5. CASE /\ ledger[a].uid = UidAt(snap) /\ ~(snap < ledger[a].sub)
           /\ ledger[a].mode = "direct"
  BY <1>5 DEF Resolution, DirectResolution, DirectGivesUp, Expiry
<1>6. CASE /\ ledger[a].uid = UidAt(snap) /\ ~(snap < ledger[a].sub)
           /\ ledger[a].mode = "cr4"
  <2>1. ~(Cardinality(Candidates(a)) > 1)
    BY OwnCandidate
  <2>2. Resolution(a) = Cr4Resolution(a)
    BY <1>6 DEF Resolution
  <2>3. Cr4Expiry(a) = Expiry(a)
    <3>1. RevealDeadlineAt(ledger[a].sub) >= 0
      BY <1>2, DeadlineType
    <3>2. ledger[a].revealDeadline >= RevealDeadlineAt(ledger[a].sub)
      BY <1>1, <1>6 DEF PreparedRow
    <3>3. ledger[a].revealDeadline # Never
      BY <1>2, <3>1, <3>2, DeadlineType DEF Never
    <3> QED
      BY <1>6, <3>3 DEF Cr4Expiry, Expiry
  <2> QED
    BY <1>6, <2>1, <2>2, <2>3 DEF Cr4Resolution, Cr4Confirms, Cr4GivesUp
<1> QED
  BY <1>2, <1>3, <1>4, <1>5, <1>6

\* A decision comes when nothing of the batch is in flight any more, and a
\* confirmation when its weights are on chain.
LEMMA DecidedIsSettled ==
    ASSUME SettlementInv, pc = "resolving", NEW a \in Attempts, IsOpen(a)
    PROVE  /\ Resolution(a).state = "confirmed" => ext[a].phase = "applied"
           /\ Resolution(a).state \in {"confirmed", "unconfirmed"} => Settled(a, head)
<1>1. /\ TypeOK /\ ledger[a].sub # Never /\ snap < head /\ OwnBatch(a)
  BY DEF SettlementInv, LedgerInv, OnlyNewestIsOpen, SnapIsFinal, BatchesMatch
<1>2. /\ snap \in Int /\ head \in Int /\ ext[a].applied \in Int
      /\ ledger[a] \in BatchRecord
  BY <1>1, Numbers DEF TypeOK, BatchRecord
<1>3. CASE Resolution(a) = Confirmed(a)
  <2>1. ext[a].phase = "applied" /\ ext[a].applied <= snap
    <3>1. Resolution(a) # ledger[a] /\ Resolution(a) # Unconfirmed(a)
      BY <1>2, <1>3 DEF Confirmed, Unconfirmed, BatchRecord, IsOpen, OpenStates
    <3>2. CASE Resolution(a) = Observed(a) /\ Candidates(a) # {}
      <4>1. Observed(a).state = ledger[a].state
        BY <1>1, <3>2, ObservedType
      <4> QED
        BY <1>2, <1>3, <3>2, <4>1 DEF Confirmed, BatchRecord, IsOpen, OpenStates
    <3> QED
      BY <3>1, <3>2, ResolutionCases, OwnUpdate, OwnReveal
  <2>2. ~CanStillLand(a)
    BY <1>1, <2>1 DEF CanStillLand, OwnBatch, RunningRow
  <2> QED
    BY <1>1, <1>2, <2>1, <2>2 DEF Settled
<1>4. CASE Resolution(a) = Unconfirmed(a) /\ snap > Expiry(a)
  <2>1. Settled(a, head)
    BY <1>1, <1>2, <1>4, BatchLandsInTime DEF Settled
  <2>2. Resolution(a).state # "confirmed"
    BY <1>2, <1>4 DEF Unconfirmed, BatchRecord
  <2> QED
    BY <2>1, <2>2
<1>5. CASE Resolution(a) = ledger[a]
  BY <1>5 DEF IsOpen, OpenStates
<1>6. CASE Resolution(a) = Observed(a) /\ Candidates(a) # {}
  <2>1. Observed(a).state = ledger[a].state
    BY <1>1, <1>6, ObservedType
  <2> QED
    BY <1>6, <2>1 DEF IsOpen, OpenStates
<1> QED
  BY <1>3, <1>4, <1>5, <1>6, ResolutionCases

\* A pass does not change what a batch is, and it observes its own commitment.
Identity(batch) == <<batch.sub, batch.mode, batch.vec, batch.hotkeys, batch.uid>>

LEMMA ResolutionIdentity ==
    ASSUME SettlementInv, NEW a \in Attempts, IsOpen(a)
    PROVE  /\ Identity(Resolution(a)) = Identity(ledger[a])
           /\ Resolution(a).observed \in {ledger[a].observed, ext[a].incl}
<1>1. ledger[a] \in BatchRecord
  BY DEF SettlementInv, LedgerInv, TypeOK, BatchRecord
<1>2. CASE Resolution(a) \in {ledger[a], Confirmed(a), Unconfirmed(a)}
  BY <1>1, <1>2 DEF Identity, Confirmed, Unconfirmed, BatchRecord
<1>3. CASE Resolution(a) = Observed(a) /\ Candidates(a) # {}
  <2> DEFINE c == CHOOSE x \in Candidates(a) : TRUE
  <2>1. c \in Candidates(a)
    BY <1>3
  <2>2. c = a
    BY <2>1, OwnCandidate
  <2>3. Observed(a) = [ledger[a] EXCEPT !.observed = ext[c].incl, !.commitment = c]
    BY DEF Observed
  <2> HIDE DEF c
  <2> QED
    BY <1>1, <1>3, <2>2, <2>3 DEF Identity, BatchRecord
<1> QED
  BY <1>2, <1>3, ResolutionCases

-----------------------------------------------------------------------------
(***************************************************************************)
(* Steps of the validator between two blocks: they keep every batch what   *)
(* it is, and close one only when it is settled.                           *)
(***************************************************************************)
RowKept(a) ==
    /\ Identity(ledger'[a]) = Identity(ledger[a])
    /\ ledger'[a].observed \in {ledger[a].observed, ext[a].incl}
    /\ ledger'[a].deadline >= ledger[a].deadline
    /\ ledger'[a].revealDeadline >= ledger[a].revealDeadline
    /\ ledger'[a].state = "absent" => ledger[a].state = "absent"
    /\ IsOpen(a)' => IsOpen(a)
    /\ IsOpen(a) => IsOpen(a)' \/ Settled(a, head)'
Quiet == /\ UNCHANGED <<head, ext, uids, roster, commitReveal, fence>>
         /\ running' \subseteq running

LEMMA RowSame ==
    ASSUME TypeOK, NEW a \in Attempts, ledger'[a] = ledger[a]
    PROVE  RowKept(a)
<1>1. ledger[a].deadline \in Int /\ ledger[a].revealDeadline \in Int
  BY Numbers
<1> QED
  BY <1>1 DEF RowKept, Identity, IsOpen

LEMMA QuietParts ==
    ASSUME SettlementInv, LedgerInv', Quiet, \A a \in Attempts : RowKept(a)
    PROVE  /\ ExtrinsicsInTime' /\ BatchesMatch' /\ BatchesInTime' /\ EarlierSettled'
           /\ FenceCovers' /\ UidsGrow' /\ UidsOfBatches'
           /\ \A x \in Extrinsics : Settled(x, head) => Settled(x, head)'
           /\ \A a \in Attempts : ledger'[a].sub = ledger[a].sub
<1> USE DEF SettlementInv
<1>1. /\ head' = head /\ ext' = ext /\ uids' = uids /\ commitReveal' = commitReveal
      /\ fence' = fence /\ \A x : x \in running' => x \in running
  BY DEF Quiet
<1>2. \A a \in Attempts :
        /\ ledger'[a].sub = ledger[a].sub /\ ledger'[a].mode = ledger[a].mode
        /\ ledger'[a].vec = ledger[a].vec /\ ledger'[a].uid = ledger[a].uid
  BY DEF RowKept, Identity
<1>3. \A x \in Extrinsics : SentAt(x)' = SentAt(x) /\ LandsBy(x)' = LandsBy(x)
                            /\ RevealStart(x)' = RevealStart(x)
  <2> SUFFICES ASSUME NEW x \in Extrinsics
               PROVE  SentAt(x)' = SentAt(x) /\ LandsBy(x)' = LandsBy(x)
                      /\ RevealStart(x)' = RevealStart(x)
    OBVIOUS
  <2>1. SentAt(x)' = SentAt(x)
    BY <1>2, Numbers DEF SentAt, LedgerInv
  <2> QED
    BY <1>1, <2>1 DEF LandsBy, RevealStart, RevealDeadlineAt, RevealDeadlineBlock,
                      EpochStartAfterCommit
<1>4. \A x \in Extrinsics, b \in Int : Settled(x, b) => Settled(x, b)'
  BY <1>1 DEF Settled, CanStillLand
<1>5. /\ head \in Int
      /\ \A a \in Attempts : ledger[a].sub \in Int /\ a \in Extrinsics
      /\ \A a \in Attempts : ledger[a].deadline \in Int /\ ledger'[a].deadline \in Int
      /\ \A a \in Attempts : ledger[a].revealDeadline \in Int
                             /\ ledger'[a].revealDeadline \in Int
  <2>1. \A a \in Attempts : ledger'[a].deadline \in Int /\ ledger'[a].revealDeadline \in Int
    BY DEF LedgerInv, TypeOK
  <2> QED
    BY <2>1, Numbers DEF LedgerInv
<1>6. ExtrinsicsInTime'
  BY <1>1, <1>3 DEF ExtrinsicsInTime, ChainRow, InPool, Committed, Applied
<1>7. BatchesMatch'
  BY <1>1, <1>2 DEF BatchesMatch, OwnBatch, RunningRow, RowKept, Settled, CanStillLand
<1>8. BatchesInTime'
  <2> SUFFICES ASSUME NEW a \in Attempts, ledger'[a].sub # Never PROVE PreparedRow(a)'
    BY DEF BatchesInTime
  <2>1. PreparedRow(a) /\ RowKept(a)
    BY <1>2 DEF BatchesInTime
  <2>2. InclusionDeadlineAt(ledger[a].sub) \in Int /\ RevealDeadlineAt(ledger[a].sub) \in Int
    BY <1>5, <2>1, DeadlineType DEF PreparedRow
  <2>3. /\ InclusionDeadlineAt(ledger[a].sub)' = InclusionDeadlineAt(ledger[a].sub)
        /\ RevealDeadlineAt(ledger[a].sub)' = RevealDeadlineAt(ledger[a].sub)
    BY <1>2 DEF InclusionDeadlineAt, RevealDeadlineAt, RevealDeadlineBlock,
                EpochStartAfterCommit, Epoch
  <2> QED
    BY <1>1, <1>2, <1>5, <2>1, <2>2, <2>3 DEF PreparedRow, RowKept
<1>10. EarlierSettled'
  BY <1>1, <1>2, <1>4, <1>5 DEF EarlierSettled
<1>11. \A x \in Extrinsics : Settled(x, head) => Settled(x, head)'
  BY <1>1 DEF Settled, CanStillLand
<1>12. FenceCovers'
  <2>1. Legacy \in Extrinsics
    BY BoundAssumption DEF Legacy, Extrinsics
  <2> QED
    BY <1>1, <1>3, <2>1 DEF FenceCovers
<1>13. UidsGrow' /\ UidsOfBatches'
  BY <1>1, <1>2 DEF UidsGrow, UidsOfBatches
<1> QED
  BY <1>2, <1>6, <1>7, <1>8, <1>10, <1>11, <1>12, <1>13

LEMMA QuietStep ==
    ASSUME SettlementInv, LedgerInv', Quiet, count' = count,
           \A a \in Attempts : RowKept(a), SnapIsFinal', FencePassed'
    PROVE  SettlementInv'
<1>1. /\ ExtrinsicsInTime' /\ BatchesMatch' /\ BatchesInTime' /\ EarlierSettled'
      /\ FenceCovers' /\ UidsGrow' /\ UidsOfBatches'
      /\ \A x \in Extrinsics : Settled(x, head) => Settled(x, head)'
      /\ \A a \in Attempts : ledger'[a].sub = ledger[a].sub
  BY QuietParts
<1>2. ext' = ext /\ \A a \in Attempts : a \in Extrinsics
  BY Numbers DEF Quiet, SettlementInv, LedgerInv
<1>3. OnlyNewestIsOpen'
  BY <1>1, <1>2 DEF SettlementInv, OnlyNewestIsOpen, RowKept
<1>4. ClosedSettled'
  BY <1>1, <1>2 DEF SettlementInv, ClosedSettled, RowKept
<1> QED
  BY <1>1, <1>3, <1>4 DEF SettlementInv

\* A call that returns moves its batch and no other, and keeps it what it is.
LEMMA SdkReturnsKeep ==
    ASSUME SettlementInv, SdkReturns
    PROVE  Quiet /\ \A a \in Attempts : RowKept(a)
<1> USE DEF SettlementInv
<1>0. PICK n \in Attempts : n = count
  BY SdkReturnsWrites DEF LedgerInv
<1> DEFINE batch == ledger[n]
<1>1. /\ LedgerInv /\ TypeOK /\ n \in Extrinsics
      /\ batch \in BatchRecord /\ ledger \in [Attempts -> BatchRecord]
      /\ batch.state = "prepared" /\ IsOpen(n)
  BY <1>0, SdkReturnsWrites, Numbers DEF LedgerInv, TypeOK, BatchRecord, IsOpen, OpenStates
<1>2. PICK stillRunning \in BOOLEAN : ReturnFromSdk(stillRunning)
  BY DEF SdkReturns, SdkRefuses, SdkAccepts, SdkOutcomeUnknown, SdkNeedsRestart
<1>3. Quiet
  BY <1>2 DEF ReturnFromSdk, Quiet, chainVars
<1> SUFFICES \A a \in Attempts : RowKept(a)
  BY <1>3
<1>4. \A a \in Attempts : ledger'[a] = ledger[a] => RowKept(a)
  BY <1>1, RowSame
<1>5. ASSUME NEW row \in BatchRecord, Rewritten(n, row),
             Identity(row) = Identity(batch), row.observed = batch.observed,
             row.deadline >= batch.deadline, row.revealDeadline >= batch.revealDeadline,
             row.state \in OpenStates \/ (row.state = "failed" /\ Settled(n, head)')
      PROVE  \A a \in Attempts : RowKept(a)
  <2>1. ledger'[n] = row /\ \A a \in Attempts : a # n => ledger'[a] = ledger[a]
    BY <1>1, <1>5 DEF Rewritten
  <2>2. RowKept(n)
    BY <1>1, <1>5, <2>1 DEF RowKept, IsOpen, OpenStates
  <2> QED
    BY <1>4, <2>1, <2>2
<1>6. ASSUME NEW state \in {"submitted", "ambiguous"}, NEW mode \in Modes, mode = batch.mode,
             NEW commitment \in Extrinsics \cup {Never},
             Transition(n, state, mode, commitment)
      PROVE  \A a \in Attempts : RowKept(a)
  <2>1. PICK sampled \in BOOLEAN, revealSampled \in BOOLEAN, written \in BOOLEAN :
          ledger' = IF written /\ ledger[n].state = "prepared"
                    THEN [ledger EXCEPT ![n] =
                            TransitionedBatch(n, state, mode, commitment,
                                              sampled, revealSampled)]
                    ELSE ledger
    BY <1>6 DEF Transition
  <2> DEFINE row == TransitionedBatch(n, state, mode, commitment, sampled, revealSampled)
  <2>2. state \in States /\ state \in OpenStates
    BY DEF States, OpenStates
  <2>3. /\ row \in BatchRecord /\ row.state = state
        /\ row.deadline >= batch.deadline /\ row.revealDeadline >= batch.revealDeadline
    <3>1. TypeOK
      BY <1>1
    <3> QED
      BY <2>2, <3>1, TransitionedType
  <2>4. Identity(row) = Identity(batch) /\ row.observed = batch.observed
    BY <1>1, <1>6 DEF TransitionedBatch, Identity, BatchRecord
  <2> HIDE DEF row
  <2>5. ledger' = ledger \/ Rewritten(n, row)
    BY <2>1 DEF Rewritten, row
  <2>6. CASE Rewritten(n, row)
    BY <1>5, <2>2, <2>3, <2>4, <2>6
  <2> QED
    BY <1>4, <2>5, <2>6
<1>7. CASE SdkRefuses
  <2> DEFINE row == [ledger[n] EXCEPT !.state = "failed"]
  <2>1. /\ row \in BatchRecord /\ row.state = "failed" /\ Identity(row) = Identity(batch)
        /\ row.observed = batch.observed
        /\ row.deadline >= batch.deadline /\ row.revealDeadline >= batch.revealDeadline
    <3>1. batch.deadline \in Int /\ batch.revealDeadline \in Int
      BY <1>1 DEF BatchRecord
    <3> QED
      BY <1>1, <3>1 DEF BatchRecord, Identity, States
  <2>2. Settled(n, head)'
    <3>1. ext[n].phase = "unsent" /\ running' = running \ {n} /\ ext' = ext
          /\ head' = head /\ count' = count
      BY <1>0, <1>7 DEF SdkRefuses, ReturnFromSdk, chainVars
    <3>2. ext[n].applied = Never
      BY <1>1, <3>1 DEF ExtrinsicsInTime, ChainRow
    <3> QED
      BY <1>1, <3>1, <3>2, Numbers DEF Settled, CanStillLand, Never
  <2>3. ledger' = ledger \/ Rewritten(n, row)
    BY <1>0, <1>1, <1>7 DEF SdkRefuses, Rewritten
  <2> HIDE DEF row
  <2>4. CASE Rewritten(n, row)
    BY <1>5, <2>1, <2>2, <2>4
  <2> QED
    BY <1>4, <2>3, <2>4
<1>8. CASE SdkAccepts
  <2>1. PICK metadata \in {ext[n].mode = "cr4", FALSE} :
          IF metadata THEN Transition(n, "submitted", "cr4", n)
          ELSE IF ledger[n].mode = "cr4" THEN Transition(n, "ambiguous", "cr4", Never)
          ELSE Transition(n, "submitted", "direct", Never)
    BY <1>0, <1>8 DEF SdkAccepts
  <2>2. metadata => batch.mode = "cr4"
    BY <1>1 DEF BatchesMatch, OwnBatch
  <2>3. batch.mode \in {"direct", "cr4"} /\ "cr4" \in Modes /\ "direct" \in Modes
    BY <1>1 DEF BatchRecord, Modes
  <2>4. CASE metadata
    BY <1>1, <1>6, <2>1, <2>2, <2>3, <2>4
  <2>5. CASE ~metadata /\ batch.mode = "cr4"
    BY <1>1, <1>6, <2>1, <2>3, <2>5
  <2>6. CASE ~metadata /\ batch.mode = "direct"
    BY <1>1, <1>6, <2>1, <2>3, <2>6
  <2> QED
    BY <2>3, <2>4, <2>5, <2>6
<1>9. CASE SdkOutcomeUnknown
  <2>1. batch.mode \in Modes
    BY <1>1 DEF BatchRecord
  <2> QED
    BY <1>0, <1>6, <1>9, <2>1 DEF SdkOutcomeUnknown, UnknownOutcome
<1>10. CASE SdkNeedsRestart
  BY <1>4, <1>10 DEF SdkNeedsRestart
<1> QED
  BY <1>7, <1>8, <1>9, <1>10 DEF SdkReturns

LEMMA ResolveKeeps ==
    ASSUME SettlementInv, ResolveConfirmations
    PROVE  Quiet /\ \A a \in Attempts : RowKept(a)
<1>1. TypeOK /\ pc = "resolving"
  BY DEF SettlementInv, LedgerInv, ResolveConfirmations
<1>2. /\ Quiet /\ running' = running /\ head' = head /\ ext' = ext
      /\ \A a \in Attempts : ledger'[a] = IF IsOpen(a) THEN Resolution(a) ELSE ledger[a]
  BY DEF ResolveConfirmations, Quiet, chainVars
<1>3. ASSUME NEW a \in Attempts, IsOpen(a) PROVE RowKept(a)
  <2>1. ledger'[a] = Resolution(a)
    BY <1>2, <1>3
  <2>2. /\ Resolution(a) \in BatchRecord
        /\ Resolution(a).state \in {ledger[a].state, "confirmed", "unconfirmed"}
        /\ Resolution(a).deadline = ledger[a].deadline
        /\ Resolution(a).revealDeadline = ledger[a].revealDeadline
    BY <1>1, ResolutionType
  <2>3. ledger[a].deadline \in Int /\ ledger[a].revealDeadline \in Int
    BY <1>1, Numbers
  <2>4. /\ Identity(Resolution(a)) = Identity(ledger[a])
        /\ Resolution(a).observed \in {ledger[a].observed, ext[a].incl}
    BY <1>3, ResolutionIdentity
  <2>5. IsOpen(a)' \/ Settled(a, head)'
    <3>1. CASE Resolution(a).state = ledger[a].state
      BY <1>3, <2>1, <3>1 DEF IsOpen
    <3>2. CASE Resolution(a).state \in {"confirmed", "unconfirmed"}
      <4>1. Settled(a, head)
        BY <1>1, <1>3, <3>2, DecidedIsSettled
      <4> QED
        BY <1>2, <4>1 DEF Settled, CanStillLand
    <3> QED
      BY <2>2, <3>1, <3>2
  <2>6. ledger'[a].state # "absent" /\ ledger[a].state # "absent"
    BY <1>3, <2>1, <2>2 DEF IsOpen, OpenStates
  <2> QED
    BY <1>3, <2>1, <2>2, <2>3, <2>4, <2>5, <2>6 DEF RowKept
<1>4. ASSUME NEW a \in Attempts, ~IsOpen(a) PROVE RowKept(a)
  BY <1>1, <1>2, <1>4, RowSame
<1> QED
  BY <1>2, <1>3, <1>4

LEMMA CursorKeeps ==
    ASSUME SettlementInv, AdvanceCursor
    PROVE  Quiet /\ \A a \in Attempts : RowKept(a)
<1>1. /\ TypeOK /\ ledger \in [Attempts -> BatchRecord]
      /\ pc = "checkpoint" /\ scanned.batch \in Attempts
  BY DEF SettlementInv, LedgerInv, CheckpointIsRecorded, AdvanceCursor, TypeOK, BatchRecord
<1>2. Quiet
  BY DEF AdvanceCursor, Quiet, chainVars
<1>3. \A a \in Attempts : ledger'[a] = ledger[a] => RowKept(a)
  BY <1>1, RowSame
<1>4. CASE ledger' = ledger
  BY <1>2, <1>3, <1>4
<1>5. CASE ledger' = [ledger EXCEPT ![scanned.batch].cursor = Larger(@, scanned.end)]
  <2>1. \A a \in Attempts : a # scanned.batch => ledger'[a] = ledger[a]
    BY <1>1, <1>5
  <2>2. ledger'[scanned.batch]
        = [ledger[scanned.batch] EXCEPT
             !.cursor = Larger(ledger[scanned.batch].cursor, scanned.end)]
    BY <1>1, <1>5
  <2>3. /\ ledger[scanned.batch].deadline \in Int
        /\ ledger[scanned.batch].revealDeadline \in Int
        /\ ledger[scanned.batch] \in BatchRecord
    BY <1>1, Numbers
  <2>4. ASSUME NEW a \in Attempts, a = scanned.batch PROVE RowKept(a)
    BY <2>2, <2>3, <2>4 DEF RowKept, Identity, IsOpen, BatchRecord
  <2> QED
    BY <1>2, <1>3, <2>1, <2>4
<1> QED
  BY <1>4, <1>5 DEF AdvanceCursor

LEMMA QuietActions ==
    ASSUME SettlementInv, LedgerInv',
           \/ UNCHANGED vars \/ PlanEmission \/ SdkReturns
           \/ SyncMetagraph \/ ResolveConfirmations \/ AdvanceCursor
           \/ ReconciliationFails \/ CrashAndRestart
           \/ (AbandonPlan /\ count' = count)
    PROVE  SettlementInv'
<1> USE DEF chainVars, dbVars, localVars, processVars
<1>1. TypeOK /\ FencePassed /\ SnapIsFinal /\ head \in Nat
  BY Numbers DEF SettlementInv, LedgerInv
<1> count' = count
  BY DEF vars, PlanEmission, SdkReturns, SdkRefuses, SdkAccepts, SdkOutcomeUnknown,
         SdkNeedsRestart, ReturnFromSdk, SyncMetagraph, ResolveConfirmations, AdvanceCursor,
         ReconciliationFails, CrashAndRestart
<1>2. CASE ledger' = ledger
  <2>1. \A a \in Attempts : RowKept(a)
    BY <1>1, <1>2, RowSame
  <2>2. Quiet
    BY <1>1, <1>2, SdkReturnsKeep, ResolveKeeps, CursorKeeps
    DEF Quiet, vars, PlanEmission, SyncMetagraph, ReconciliationFails,
        CrashAndRestart, AbandonPlan, TypeOK
  <2> QED
    <3>1. OpenConfirmation' = OpenConfirmation
      BY <1>2 DEF OpenConfirmation, IsOpen
    <3>2. pc' = "planned" => pc = "planned" \/ (WeightEmissionReady /\ head' = head)
      BY SdkReturnsWrites
      DEF vars, PlanEmission, SyncMetagraph, ReconciliationFails, CrashAndRestart, AbandonPlan,
          SettlementInv, ResolveConfirmations, AdvanceCursor
    <3>3. FencePassed'
      BY <1>1, <2>2, <3>1, <3>2 DEF FencePassed, Quiet, WeightEmissionReady
    <3>4. \A b \in FinalizedBlocks : b < head
      BY <1>1, ChainAssumption, DeploymentAssumption DEF FinalizedBlocks
    <3>5. \/ pc' \in {"resolving", "checkpoint"} => snap' = snap /\ pc \in {"resolving", "checkpoint"}
          \/ snap' \in FinalizedBlocks
      BY SdkReturnsWrites
      DEF vars, PlanEmission, SyncMetagraph, ReconciliationFails, CrashAndRestart, AbandonPlan,
          SettlementInv, ResolveConfirmations, AdvanceCursor
    <3>6. SnapIsFinal'
      BY <1>1, <2>2, <3>4, <3>5 DEF SnapIsFinal, Quiet
    <3> QED
      BY <2>1, <2>2, <3>3, <3>6, QuietStep
<1>3. CASE SdkReturns \/ ResolveConfirmations \/ AdvanceCursor
  <2>1. Quiet /\ \A a \in Attempts : RowKept(a)
    BY <1>3, SdkReturnsKeep, ResolveKeeps, CursorKeeps
  <2>2. pc' # "planned"
    BY <1>3, SdkReturnsWrites
    DEF SettlementInv, ResolveConfirmations, AdvanceCursor
  <2>3. FencePassed'
    BY <1>1, <2>1, <2>2 DEF FencePassed, Quiet
  <2>4. pc' \in {"resolving", "checkpoint"} => snap' = snap /\ pc \in {"resolving", "checkpoint"}
    BY <1>3, SdkReturnsWrites
    DEF SettlementInv, ResolveConfirmations, AdvanceCursor
  <2>5. SnapIsFinal'
    BY <1>1, <2>1, <2>4 DEF SnapIsFinal, Quiet
  <2> QED
    BY <2>1, <2>3, <2>5, QuietStep
<1> QED
  <2>1. (AbandonPlan /\ count' = count) => ledger' = ledger
    BY <1>1 DEF AbandonPlan, TypeOK
  <2> QED
    BY <1>2, <1>3, <2>1
    DEF vars, PlanEmission, SyncMetagraph, ReconciliationFails, CrashAndRestart

\* A failure before anything was prepared writes a row that nothing will land for.
LEMMA AbandonRecords ==
    ASSUME SettlementInv, LedgerInv', AbandonPlan, count' # count
    PROVE  SettlementInv'
<1> USE DEF SettlementInv
<1>1. /\ TypeOK /\ NotRecordedYet /\ count \in Nat /\ count' = count + 1 /\ count' \in Attempts
      /\ pc = "planned" /\ ~OpenConfirmation /\ head' = head /\ fence' = fence
      /\ ext' = ext /\ running' = running /\ pc' = "idle"
  BY RecordsNextRow, Numbers
  DEF LedgerInv, FencePassed, AbandonPlan, chainVars
<1>2. PICK n \in Attempts : n = count'
  BY <1>1
<1>3. /\ ledger[n] = Absent /\ n \in Extrinsics /\ n > count /\ ~IsOpen(n)
      /\ ledger'[n] = [Absent EXCEPT !.state = "failed"]
      /\ \A a \in Attempts : a # n => ledger'[a] = ledger[a]
  <2>1. n > count /\ n \in Nat /\ n \in Extrinsics
    BY <1>1, <1>2, Numbers
  <2>2. ledger[n] = Absent
    BY <1>1, <2>1 DEF NotRecordedYet
  <2>3. ledger' = [ledger EXCEPT ![n].state = "failed"]
    BY <1>1, <1>2 DEF AbandonPlan
  <2> QED
    BY <1>1, <2>1, <2>2, <2>3 DEF TypeOK, OpenConfirmation
<1>4. \A a \in Attempts : RowKept(a)
  <2>1. RowKept(n)
    BY <1>3 DEF RowKept, Identity, Absent, IsOpen, OpenStates, Never
  <2> QED
    BY <1>1, <1>3, <2>1, RowSame
<1>5. Quiet
  BY DEF AbandonPlan, Quiet, chainVars
<1>6. /\ ExtrinsicsInTime' /\ BatchesMatch' /\ BatchesInTime' /\ EarlierSettled'
      /\ FenceCovers' /\ UidsGrow' /\ UidsOfBatches'
      /\ \A x \in Extrinsics : Settled(x, head) => Settled(x, head)'
      /\ \A a \in Attempts : ledger'[a].sub = ledger[a].sub
  BY <1>4, <1>5, QuietParts
<1>7. \A a \in Attempts : ~IsOpen(a) /\ ~IsOpen(a)'
  BY <1>1, <1>4 DEF OpenConfirmation, RowKept
<1>8. \A a \in Attempts : a \in Nat /\ a \in Extrinsics
  BY <1>1, Numbers
<1>9. OnlyNewestIsOpen'
  <2>1. \A a \in Attempts : ledger'[a].state = "absent" => a > count'
    <3>1. ledger'[n].state = "failed"
      BY <1>3 DEF Absent
    <3>2. \A a \in Attempts : ledger'[a].state = "absent" => a # n /\ a > count
      BY <1>3, <3>1 DEF OnlyNewestIsOpen
    <3> QED
      BY <1>1, <1>2, <1>8, <3>2
  <2>2. \A a \in Attempts : ext'[a].phase # "unsent" => a <= count'
    BY <1>1, <1>8 DEF OnlyNewestIsOpen
  <2> QED
    BY <1>7, <2>1, <2>2 DEF OnlyNewestIsOpen
<1>10. ClosedSettled'
  <2>1. Settled(n, head)
    <3>1. ext[n].phase = "unsent" /\ n \notin running
      BY <1>1, <1>3, <1>8 DEF OnlyNewestIsOpen, BatchesMatch, OwnBatch, RunningRow
    <3>2. ext[n].applied = Never
      BY <1>3, <3>1 DEF ExtrinsicsInTime, ChainRow
    <3> QED
      BY <1>1, <3>1, <3>2, Numbers DEF Settled, CanStillLand, Never
  <2>2. \A a \in Attempts : a <= count' => a <= count \/ a = n
    BY <1>1, <1>2, <1>8
  <2>3. \A a \in Attempts : a <= count' => Settled(a, head)
    BY <1>7, <2>1, <2>2 DEF ClosedSettled
  <2> QED
    BY <1>6, <1>8, <2>3 DEF ClosedSettled
<1>11. FencePassed' /\ SnapIsFinal'
  BY <1>1 DEF FencePassed, SnapIsFinal
<1> QED
  BY <1>6, <1>9, <1>10, <1>11

\* The newest batch starts behind everything that came before.
LEMMA PrepareSettled ==
    ASSUME SettlementInv, LedgerInv', PrepareIntent
    PROVE  SettlementInv'
<1> USE DEF SettlementInv
<1>1. /\ TypeOK /\ NotRecordedYet /\ count \in Nat /\ head \in Nat /\ fence \in Int
      /\ count' = count + 1 /\ count' \in Attempts
      /\ pc = "planned" /\ ~OpenConfirmation /\ head' = head /\ fence' = fence
      /\ ext' = ext /\ uids' = uids /\ commitReveal' = commitReveal /\ pc' = "calling"
      /\ fence # Never /\ head > fence
  BY RecordsNextRow, Numbers
  DEF LedgerInv, FencePassed, PrepareIntent, chainVars
<1>2. PICK n \in Attempts : n = count'
  BY <1>1
<1>3. \A a \in Attempts : a \in Nat /\ a \in Extrinsics /\ a # Legacy /\ ~IsOpen(a)
  BY <1>1, Numbers DEF OpenConfirmation
<1>4. PICK metagraph \in 0 .. head :
        /\ ledger'[n].state = "prepared" /\ ledger'[n].sub = head
        /\ ledger'[n].mode = IF commitReveal THEN "cr4" ELSE "direct"
        /\ ledger'[n].uid = uids[metagraph] /\ ledger'[n].observed = Never
        /\ ledger'[n].deadline = InclusionDeadlineAt(head)
        /\ commitReveal => ledger'[n].revealDeadline = RevealDeadlineAt(head)
  <2>1. PICK vec \in Vectors, metagraph \in 0 .. head :
          ledger' = [ledger EXCEPT ![n] = PreparedBatch(vec, metagraph)]
    BY <1>1, <1>2 DEF PrepareIntent
  <2>2. ledger'[n] = PreparedBatch(vec, metagraph)
    BY <1>1, <2>1 DEF TypeOK
  <2>3. ledger'[n] = [Absent EXCEPT !.state = "prepared",
                      !.mode = IF commitReveal THEN "cr4" ELSE "direct",
                      !.vec = vec, !.hotkeys = HotkeysAt(metagraph, vec),
                      !.uid = uids[metagraph], !.sub = head,
                      !.deadline = InclusionDeadlineAt(head),
                      !.revealDeadline = IF commitReveal THEN RevealDeadlineAt(head)
                                         ELSE Never]
    BY <2>2 DEF PreparedBatch, FreshSubmissionBlock, UidAt
  <2> QED
    BY <2>3 DEF Absent
<1>5. /\ running' = running \cup {n}
      /\ \A a \in Attempts : a # n => ledger'[a] = ledger[a]
  BY <1>1, <1>2 DEF PrepareIntent, TypeOK
<1>6. /\ n > count /\ ledger[n] = Absent /\ n \notin running
      /\ ext[n].phase = "unsent" /\ ext[n].mode # "cr4"
  <2>1. n > count /\ ledger[n] = Absent
    BY <1>1, <1>2, <1>3 DEF NotRecordedYet
  <2>2. ext[n].phase = "unsent"
    BY <1>1, <1>3, <2>1 DEF OnlyNewestIsOpen
  <2>3. n \notin running /\ ext[n].mode # "cr4"
    BY <1>3, <2>1 DEF BatchesMatch, OwnBatch, RunningRow, Absent
  <2> QED
    BY <2>1, <2>2, <2>3
<1>7. \A x \in Extrinsics : x # n => SentAt(x)' = SentAt(x) /\ LandsBy(x)' = LandsBy(x)
                                     /\ RevealStart(x)' = RevealStart(x)
  <2> SUFFICES ASSUME NEW x \in Extrinsics, x # n
               PROVE  SentAt(x)' = SentAt(x) /\ LandsBy(x)' = LandsBy(x)
                      /\ RevealStart(x)' = RevealStart(x)
    OBVIOUS
  <2>1. SentAt(x)' = SentAt(x)
    BY <1>1, <1>5, Numbers DEF SentAt
  <2> QED
    BY <1>1, <2>1 DEF LandsBy, RevealStart, RevealDeadlineAt, RevealDeadlineBlock,
                      EpochStartAfterCommit
<1>8. \A x \in Extrinsics, b \in Int : x # n /\ Settled(x, b) => Settled(x, b)'
  BY <1>1, <1>5 DEF Settled, CanStillLand
<1>9. ExtrinsicsInTime'
  <2>1. \A x \in Extrinsics : x # n => ChainRow(x)'
    BY <1>1, <1>7 DEF ExtrinsicsInTime, ChainRow, InPool, Committed, Applied
  <2>2. ChainRow(n)'
    BY <1>1, <1>3, <1>6 DEF ExtrinsicsInTime, ChainRow
  <2> QED
    BY <2>1, <2>2 DEF ExtrinsicsInTime
<1>10. BatchesMatch'
  <2>1. ASSUME NEW a \in Attempts, a # n PROVE OwnBatch(a)'
    <3>1. a \notin running' /\ ledger'[a] = ledger[a] /\ OwnBatch(a)
      BY <1>3, <1>5, <2>1 DEF BatchesMatch, OwnBatch, RunningRow
    <3> QED
      BY <1>1, <3>1 DEF OwnBatch
  <2>2. OwnBatch(n)'
    <3>1. commitReveal' = (ledger'[n].mode = "cr4")
      BY <1>1, <1>4 DEF TypeOK
    <3>2. head' <= ledger'[n].sub + SIGN_DELAY
      BY <1>1, <1>4, ChainAssumption
    <3>3. IsOpen(n)'
      BY <1>4 DEF IsOpen, OpenStates
    <3> QED
      BY <1>1, <1>6, <3>1, <3>2, <3>3 DEF OwnBatch, RunningRow
  <2> QED
    BY <2>1, <2>2 DEF BatchesMatch
<1>11. BatchesInTime'
  <2>1. PreparedRow(n)'
    <3>1. InclusionDeadlineAt(head) \in Int /\ RevealDeadlineAt(head) \in Int
      BY <1>1, DeadlineType
    <3>2. /\ InclusionDeadlineAt(ledger[n].sub)' = InclusionDeadlineAt(head)
          /\ RevealDeadlineAt(ledger[n].sub)' = RevealDeadlineAt(head)
      BY <1>4 DEF InclusionDeadlineAt, RevealDeadlineAt, RevealDeadlineBlock,
                  EpochStartAfterCommit, Epoch
    <3> QED
      BY <1>1, <1>4, <3>1, <3>2 DEF PreparedRow
  <2>2. ASSUME NEW a \in Attempts, a # n, ledger'[a].sub # Never PROVE PreparedRow(a)'
    <3>1. ledger'[a] = ledger[a] /\ PreparedRow(a)
      BY <1>5, <2>2 DEF BatchesInTime
    <3> QED
      BY <1>1, <3>1 DEF PreparedRow, InclusionDeadlineAt, RevealDeadlineAt,
                        RevealDeadlineBlock, EpochStartAfterCommit, Epoch
  <2> QED
    BY <2>1, <2>2 DEF BatchesInTime
<1>12. OnlyNewestIsOpen'
  <2>1. \A a \in Attempts : IsOpen(a)' => a = n
    BY <1>3, <1>5 DEF IsOpen
  <2>2. ledger'[n].sub # Never
    BY <1>1, <1>4 DEF Never
  <2>3. \A a \in Attempts : ledger'[a].state = "absent" => a # n /\ a > count
    BY <1>4, <1>5 DEF OnlyNewestIsOpen
  <2>4. \A a \in Attempts : ext'[a].phase # "unsent" => a <= count'
    BY <1>1, <1>3 DEF OnlyNewestIsOpen
  <2>5. \A a \in Attempts : ledger'[a].state = "absent" => a > count'
    BY <1>1, <1>2, <1>3, <2>3
  <2> QED
    BY <1>2, <2>1, <2>2, <2>4, <2>5 DEF OnlyNewestIsOpen
<1>13. \A x \in Extrinsics : x < n => Settled(x, head) /\ x # n
  <2>1. Settled(Legacy, head)
    BY <1>1, LegacySettled
  <2>2. \A a \in Attempts : a <= count => Settled(a, head)
    BY <1>3 DEF ClosedSettled
  <2> QED
    BY <1>1, <1>2, <1>3, <2>1, <2>2, Numbers
<1>14. EarlierSettled'
  <2>1. ASSUME NEW x \in Extrinsics, x < n PROVE Settled(x, ledger[n].sub)'
    <3>1. Settled(x, head) /\ x # n
      BY <1>13, <2>1
    <3>2. ~CanStillLand(x)'
      BY <1>1, <1>5, <3>1 DEF Settled, CanStillLand
    <3> QED
      BY <1>1, <1>4, <3>1, <3>2 DEF Settled
  <2>2. ASSUME NEW a \in Attempts, a # n, ledger'[a].sub # Never,
               NEW x \in Extrinsics, x < a
        PROVE  Settled(x, ledger[a].sub)'
    <3>1. ledger'[a] = ledger[a] /\ ledger[a].sub \in Int
      BY <1>1, <1>5, <2>2, Numbers
    <3>2. Settled(x, ledger[a].sub)
      BY <2>2, <3>1 DEF EarlierSettled
    <3>3. ~(a > count)
      <4>1. ledger[a] # Absent
        BY <2>2, <3>1 DEF Absent
      <4>2. NotRecordedYet
        BY <1>1
      <4> QED
        BY <4>1, <4>2 DEF NotRecordedYet
    <3>4. x # n
      BY <1>1, <1>2, <1>3, <2>2, <3>3, Numbers
    <3>5. Settled(x, ledger[a].sub)'
      BY <1>1, <1>5, <3>1, <3>2, <3>4 DEF Settled, CanStillLand
    <3> QED
      BY <3>5
  <2> QED
    BY <2>1, <2>2 DEF EarlierSettled
<1>15. ClosedSettled'
  <2> SUFFICES ASSUME NEW a \in Attempts, a <= count', ~IsOpen(a)' PROVE Settled(a, head)'
    BY DEF ClosedSettled
  <2>1. a # n
    BY <1>4 DEF IsOpen, OpenStates
  <2>2. a <= count
    BY <1>1, <1>2, <1>3, <2>1
  <2>3. Settled(a, head)
    BY <1>3, <2>2 DEF ClosedSettled
  <2>4. Settled(a, head)'
    BY <1>1, <1>5, <2>1, <2>3 DEF Settled, CanStillLand
  <2> QED
    BY <2>4
<1>16. FenceCovers'
  <2>1. Legacy \in Extrinsics
    BY BoundAssumption DEF Legacy, Extrinsics
  <2>2. LandsBy(Legacy)' = LandsBy(Legacy)
    BY <1>3, <1>7, <2>1
  <2> QED
    BY <1>1, <2>2 DEF FenceCovers
<1>17. FencePassed' /\ SnapIsFinal'
  BY <1>1 DEF FencePassed, SnapIsFinal
<1>18. UidsGrow'
  BY <1>1 DEF UidsGrow
<1>19. UidsOfBatches'
  <2>1. uids[metagraph] <= metagraph /\ uids[metagraph] <= uids[head] /\ uids[metagraph] \in Int
    <3>1. metagraph \in Block
      BY <1>1, BoundAssumption DEF TypeOK, Block
    <3>2. uids[metagraph] \in Int
      BY <1>1, <3>1, BoundAssumption DEF TypeOK, Block
    <3> QED
      BY <1>1, <3>2 DEF UidsGrow
  <2>2. ledger'[n].uid <= ledger'[n].sub /\ \A b \in ledger'[n].sub .. head : ledger'[n].uid <= uids[b]
    <3>1. \A b \in head .. head : b = head
      BY <1>1
    <3> QED
      BY <1>1, <1>4, <2>1, <3>1
  <2>3. \A a \in Attempts : a # n => ledger'[a] = ledger[a]
    BY <1>5
  <2> QED
    BY <1>1, <2>2, <2>3 DEF UidsOfBatches
<1> QED
  BY <1>9, <1>10, <1>11, <1>12, <1>14, <1>15, <1>16, <1>17, <1>18, <1>19

-----------------------------------------------------------------------------
(***************************************************************************)
(* The signature, the fence and the steps of the chain.                    *)
(***************************************************************************)
LEMMA SignSettled ==
    ASSUME SettlementInv, LedgerInv', NEW n \in Attempts, Sign(n)
    PROVE  SettlementInv'
<1> USE DEF SettlementInv
<1>1. /\ TypeOK /\ n \in running /\ head <= ledger[n].sub + SIGN_DELAY
      /\ head' = head /\ ledger' = ledger /\ count' = count /\ fence' = fence /\ uids' = uids
      /\ commitReveal' = commitReveal /\ pc' = pc /\ snap' = snap
      /\ running' = running \ {n}
      /\ \A a \in Attempts : a \in Extrinsics /\ a # Legacy
      /\ head \in Nat /\ n \in Extrinsics /\ ledger[n].sub \in Int
  BY Numbers DEF LedgerInv, Sign, chainVars, dbVars, localVars
<1>2. /\ ext'[n].phase = "pool" /\ ext'[n].vec = ledger[n].vec /\ ext'[n].signed = head
      /\ ext'[n].mode = IF commitReveal THEN "cr4" ELSE "direct"
      /\ ext'[n].incl = Never /\ ext'[n].applied = Never
      /\ \A x \in Extrinsics : x # n => ext'[x] = ext[x]
  BY <1>1 DEF Sign, TypeOK, Unsent
<1>3. /\ RunningRow(n) /\ PreparedRow(n) /\ n = count /\ ledger[n].sub # Never
      /\ ext[n].phase = "unsent" /\ ext[n].incl = Never /\ ext[n].applied = Never
      /\ ext'[n].mode = ledger[n].mode
  <2>1. RunningRow(n)
    BY <1>1 DEF BatchesMatch, OwnBatch
  <2>2. n = count /\ ledger[n].sub # Never /\ PreparedRow(n)
    BY <2>1 DEF RunningRow, OnlyNewestIsOpen, BatchesInTime
  <2>3. ext[n].incl = Never /\ ext[n].applied = Never
    BY <1>1, <2>1 DEF RunningRow, ExtrinsicsInTime, ChainRow
  <2>4. ledger[n].mode \in {"direct", "cr4"}
    BY <1>1, Numbers DEF Modes
  <2> QED
    BY <1>2, <2>1, <2>2, <2>3, <2>4 DEF RunningRow
<1>4. /\ \A x \in Extrinsics : SentAt(x)' = SentAt(x)
      /\ \A x \in Extrinsics : x # n => LandsBy(x)' = LandsBy(x)
                                        /\ RevealStart(x)' = RevealStart(x)
  <2>1. \A x \in Extrinsics : SentAt(x)' = SentAt(x)
    BY <1>1 DEF SentAt
  <2> QED
    BY <1>2, <2>1 DEF LandsBy, RevealStart, RevealDeadlineAt, RevealDeadlineBlock,
                      EpochStartAfterCommit
<1>5. \A x \in Extrinsics, b \in Int : Settled(x, b) => Settled(x, b)'
  BY <1>1, <1>2 DEF Settled, CanStillLand
<1>6. ExtrinsicsInTime'
  <2>1. \A x \in Extrinsics : x # n => ChainRow(x)'
    BY <1>1, <1>2, <1>4 DEF ExtrinsicsInTime, ChainRow, InPool, Committed, Applied
  <2>2. SentAt(n) = ledger[n].sub
    BY <1>1 DEF SentAt
  <2>3. ChainRow(n)'
    BY <1>1, <1>2, <1>3, <1>4, <2>2, ChainAssumption DEF ChainRow, InPool, PreparedRow
  <2> QED
    BY <2>1, <2>3 DEF ExtrinsicsInTime
<1>7. BatchesMatch'
  <2>1. OwnBatch(n)'
    BY <1>1, <1>2, <1>3 DEF OwnBatch
  <2>2. ASSUME NEW a \in Attempts, a # n PROVE OwnBatch(a)'
    BY <1>1, <1>2, <2>2 DEF BatchesMatch, OwnBatch, RunningRow, IsOpen
  <2> QED
    BY <2>1, <2>2 DEF BatchesMatch
<1>8. BatchesInTime'
  <2>1. \A a \in Attempts : ext'[a].incl = ext[a].incl
    BY <1>1, <1>2, <1>3
  <2> QED
    BY <1>1, <2>1 DEF BatchesInTime, PreparedRow, InclusionDeadlineAt, RevealDeadlineAt,
                      RevealDeadlineBlock, EpochStartAfterCommit, Epoch
<1>9. OnlyNewestIsOpen'
  <2>1. n <= count
    BY <1>1, <1>3, Numbers
  <2> QED
    BY <1>1, <1>2, <2>1 DEF OnlyNewestIsOpen, IsOpen
<1>10. EarlierSettled' /\ ClosedSettled'
  <2>1. \A a \in Attempts : ledger[a].sub \in Int
    BY <1>1, Numbers
  <2> QED
    BY <1>1, <1>5, <2>1 DEF EarlierSettled, ClosedSettled, IsOpen
<1>11. FenceCovers'
  <2>1. Legacy \in Extrinsics
    BY BoundAssumption DEF Legacy, Extrinsics
  <2> QED
    BY <1>1, <1>2, <1>4, <2>1 DEF FenceCovers
<1>12. FencePassed' /\ SnapIsFinal' /\ UidsGrow' /\ UidsOfBatches'
  BY <1>1 DEF FencePassed, OpenConfirmation, IsOpen, SnapIsFinal, UidsGrow, UidsOfBatches
<1> QED
  BY <1>6, <1>7, <1>8, <1>9, <1>10, <1>11, <1>12

\* The switch flips when no thread may sign, and the fence was taken before.
LEMMA ToggleSettled ==
    ASSUME SettlementInv, LedgerInv', ToggleCommitReveal
    PROVE  SettlementInv'
<1> USE DEF SettlementInv
<1>1. /\ UNCHANGED <<head, uids, ext, ledger, count, fence, pc, snap, running>>
      /\ running = {} /\ fence # Never
  BY DEF ToggleCommitReveal, dbVars, processVars, localVars
<1>2. /\ ExtrinsicsInTime' /\ EarlierSettled' /\ ClosedSettled' /\ OnlyNewestIsOpen'
  BY <1>1 DEF ExtrinsicsInTime, ChainRow, InPool, Committed, Applied, SentAt, RevealStart, Epoch,
              EarlierSettled, ClosedSettled, Settled, CanStillLand, OnlyNewestIsOpen, IsOpen
<1>3. BatchesMatch' /\ BatchesInTime'
  BY <1>1 DEF BatchesMatch, OwnBatch, BatchesInTime, PreparedRow, InclusionDeadlineAt,
              RevealDeadlineAt, RevealDeadlineBlock, EpochStartAfterCommit, Epoch
<1>4. FenceCovers'
  BY <1>1 DEF FenceCovers, LandsBy, SentAt, RevealDeadlineAt, RevealDeadlineBlock,
              EpochStartAfterCommit, Epoch
<1>5. FencePassed' /\ SnapIsFinal' /\ UidsGrow' /\ UidsOfBatches'
  BY <1>1 DEF FencePassed, OpenConfirmation, IsOpen, SnapIsFinal, UidsGrow, UidsOfBatches
<1> QED
  BY <1>2, <1>3, <1>4, <1>5

\* A registration names the newest block.
LEMMA ReregisterSettled ==
    ASSUME SettlementInv, LedgerInv', Reregister
    PROVE  SettlementInv'
<1> USE DEF SettlementInv
<1>1. /\ UNCHANGED <<head, commitReveal, ext, ledger, count, fence, pc, snap, running>>
      /\ TypeOK /\ uids' = [uids EXCEPT ![head] = head] /\ head \in Nat /\ head \in Block
  BY Numbers DEF Reregister, dbVars, processVars, localVars, LedgerInv, TypeOK
<1>2. /\ ExtrinsicsInTime' /\ EarlierSettled' /\ ClosedSettled' /\ OnlyNewestIsOpen'
  BY <1>1 DEF ExtrinsicsInTime, ChainRow, InPool, Committed, Applied, SentAt, RevealStart, Epoch,
              EarlierSettled, ClosedSettled, Settled, CanStillLand, OnlyNewestIsOpen, IsOpen
<1>3. BatchesMatch' /\ BatchesInTime'
  BY <1>1 DEF BatchesMatch, OwnBatch, RunningRow, IsOpen, BatchesInTime, PreparedRow,
              InclusionDeadlineAt, RevealDeadlineAt, RevealDeadlineBlock,
              EpochStartAfterCommit, Epoch
<1>4. FenceCovers'
  BY <1>1 DEF FenceCovers, LandsBy, SentAt, RevealDeadlineAt, RevealDeadlineBlock,
              EpochStartAfterCommit, Epoch
<1>5. FencePassed' /\ SnapIsFinal'
  BY <1>1 DEF FencePassed, OpenConfirmation, IsOpen, SnapIsFinal
<1>6. \A b \in 0 .. head : uids'[b] = (IF b = head THEN head ELSE uids[b]) /\ uids[b] \in Int
  <2> SUFFICES ASSUME NEW b \in 0 .. head
               PROVE  uids'[b] = (IF b = head THEN head ELSE uids[b]) /\ uids[b] \in Int
    OBVIOUS
  <2>1. b \in Block
    BY <1>1, BoundAssumption DEF Block
  <2>2. uids[b] \in Block /\ uids \in [Block -> Block]
    BY <1>1, <2>1 DEF TypeOK
  <2> QED
    BY <1>1, <2>1, <2>2, BoundAssumption DEF Block
<1>7. UidsGrow'
  BY <1>1, <1>6 DEF UidsGrow
<1>8. UidsOfBatches'
  <2> SUFFICES ASSUME NEW a \in Attempts, ledger[a].sub # Never
               PROVE  /\ ledger[a].uid <= ledger[a].sub
                      /\ \A b \in ledger[a].sub .. head : ledger[a].uid <= uids'[b]
    BY <1>1 DEF UidsOfBatches
  <2>1. /\ ledger[a].sub \in Nat /\ ledger[a].sub <= head /\ ledger[a].uid <= ledger[a].sub
        /\ \A b \in ledger[a].sub .. head : ledger[a].uid <= uids[b]
    BY <1>1, Numbers DEF UidsOfBatches, BatchesInTime, PreparedRow
  <2>2. ledger[a].uid \in Int
    <3>1. ledger[a].uid \in Block
      BY <1>1 DEF TypeOK
    <3> QED
      BY <3>1, BoundAssumption DEF Block
  <2> QED
    BY <1>1, <1>6, <2>1, <2>2
<1> QED
  BY <1>2, <1>3, <1>4, <1>5, <1>7, <1>8

\* The fence lies behind whatever the legacy writer signed before the start.
LEMMA FenceSettled ==
    ASSUME SettlementInv, LedgerInv', RecordStartupFence
    PROVE  SettlementInv'
<1> USE DEF SettlementInv
<1>1. /\ UNCHANGED <<head, commitReveal, uids, ext, ledger, count, pc, snap, running>>
      /\ TypeOK /\ fence = Never /\ head \in Nat /\ pc = "idle" /\ count \in Nat
  BY Numbers DEF RecordStartupFence, chainVars, processVars, localVars, LedgerInv
<1>2. /\ ExtrinsicsInTime' /\ EarlierSettled' /\ ClosedSettled' /\ OnlyNewestIsOpen'
  BY <1>1 DEF ExtrinsicsInTime, ChainRow, InPool, Committed, Applied, SentAt, RevealStart, Epoch,
              EarlierSettled, ClosedSettled, Settled, CanStillLand, OnlyNewestIsOpen, IsOpen
<1>3. BatchesMatch' /\ BatchesInTime'
  BY <1>1 DEF BatchesMatch, OwnBatch, RunningRow, IsOpen, BatchesInTime, PreparedRow,
              InclusionDeadlineAt, RevealDeadlineAt, RevealDeadlineBlock,
              EpochStartAfterCommit, Epoch
<1>4. FenceCovers'
  <2>1. PICK b \in CachedHead : fence' = StartupFence(b)
    BY DEF RecordStartupFence
  <2>2. b \in Nat
    BY <1>1 DEF CachedHead
  <2>3. /\ RevealDeadlineAt(b) \in Nat /\ RevealDeadlineAt(0) <= RevealDeadlineAt(b)
        /\ b + 1 + TEMPO + MARGIN < RevealDeadlineAt(b)
    BY <2>2, DeadlineOfSample, DeadlineMonotone
  <2>4. /\ fence' \in Nat
        /\ SIGN_DELAY + PERIOD <= fence'
        /\ commitReveal => RevealDeadlineAt(0) <= fence'
    BY <2>1, <2>2, <2>3, ChainAssumption, DeploymentAssumption
    DEF StartupFence, InclusionDeadlineAt
  <2>5. LandsBy(Legacy)' = IF ext[Legacy].mode = "cr4" THEN RevealDeadlineAt(0)
                           ELSE SIGN_DELAY + PERIOD
    BY <1>1, ChainAssumption
    DEF LandsBy, SentAt, RevealDeadlineAt, RevealDeadlineBlock, EpochStartAfterCommit, Epoch
  <2>6. fence' # Never
    BY <2>4 DEF Never
  <2>7. ext[Legacy].phase \in {"pool", "committed", "applied"} /\ ext[Legacy].mode = "cr4"
          => commitReveal
    BY <1>1 DEF FenceCovers
  <2> QED
    BY <1>1, <2>4, <2>5, <2>6, <2>7 DEF FenceCovers
<1>5. FencePassed' /\ SnapIsFinal' /\ UidsGrow' /\ UidsOfBatches'
  BY <1>1 DEF FencePassed, SnapIsFinal, UidsGrow, UidsOfBatches
<1> QED
  BY <1>2, <1>3, <1>4, <1>5

\* What a block does to one extrinsic.
BlockKeeps(x) == ext'[x] = ext[x] /\ (ext[x].phase = "pool" => head + 1 < ext[x].signed + PERIOD)
                 /\ (ext[x].phase = "committed" => head + 1 < RevealStart(x) + REVEAL_JITTER)
BlockReveals(x) ==
    /\ ext[x].phase = "committed" /\ head + 1 <= RevealStart(x) + REVEAL_JITTER
    /\ ext'[x] = [ext[x] EXCEPT !.phase = "applied", !.applied = head + 1]
BlockIncludes(x) ==
    /\ ext[x].phase = "pool" /\ head + 1 <= ext[x].signed + PERIOD
    /\ ext'[x] = IncludedAt(ext[x], head + 1)
BlockExpires(x) ==
    ext[x].phase = "pool" /\ ext'[x] = [Unsent EXCEPT !.phase = "expired"]

LEMMA BlockSteps ==
    ASSUME TypeOK, NewBlock, NEW x \in Extrinsics
    PROVE  BlockKeeps(x) \/ BlockReveals(x) \/ BlockIncludes(x) \/ BlockExpires(x)
<1>1. PICK revealed \in SUBSET {a \in Extrinsics : MayReveal(a, head + 1)},
           included \in {{}} \cup {{a} : a \in {y \in Extrinsics : Includable(y, head + 1)}} :
        /\ {a \in Extrinsics : MustReveal(a, head + 1)} \subseteq revealed
        /\ ext' = AdvancedTo(head + 1, revealed, included)
  BY DEF NewBlock
<1>2. ext'[x] = IF x \in revealed THEN [ext[x] EXCEPT !.phase = "applied", !.applied = head + 1]
                ELSE IF x \in included THEN IncludedAt(ext[x], head + 1)
                ELSE IF Expires(x, head + 1) THEN [Unsent EXCEPT !.phase = "expired"]
                ELSE ext[x]
  BY <1>1 DEF AdvancedTo
<1>3. head \in Int /\ ext[x].signed \in Int /\ ext[x].incl \in Int
  BY Numbers
<1>4. CASE x \in revealed
  <2>1. MayReveal(x, head + 1)
    BY <1>4
  <2>2. RevealStart(x) \in Int \/ RevealStart(x) \notin Int
    OBVIOUS
  <2>3. head + 1 <= RevealStart(x) + REVEAL_JITTER
    BY <2>1 DEF MayReveal
  <2> QED
    BY <1>2, <1>4, <2>1, <2>3 DEF BlockReveals, MayReveal
<1>5. CASE x \notin revealed /\ x \in included
  <2>1. Includable(x, head + 1)
    BY <1>5
  <2> QED
    BY <1>2, <1>5, <2>1 DEF BlockIncludes, Includable
<1>6. CASE x \notin revealed /\ x \notin included /\ Expires(x, head + 1)
  BY <1>2, <1>6 DEF BlockExpires, Expires
<1>7. CASE x \notin revealed /\ x \notin included /\ ~Expires(x, head + 1)
  <2>1. ~MustReveal(x, head + 1)
    BY <1>1, <1>7
  <2>2. ext[x].phase = "pool" => head + 1 < ext[x].signed + PERIOD
    BY <1>3, <1>7, ChainAssumption DEF Expires
  <2>3. ext[x].phase = "committed" => ~(head + 1 >= RevealStart(x) + REVEAL_JITTER)
    BY <2>1 DEF MustReveal
  <2>4. RevealStart(x) \in Int
    BY <1>3, ChainAssumption DEF RevealStart, Epoch
  <2>5. ext[x].phase = "committed" => head + 1 < RevealStart(x) + REVEAL_JITTER
    BY <1>3, <2>3, <2>4, ChainAssumption
  <2> QED
    BY <1>2, <1>7, <2>2, <2>5 DEF BlockKeeps
<1> QED
  BY <1>4, <1>5, <1>6, <1>7

\* An extrinsic stays in time, keeps what was decided of it, and lands only from
\* the pool or from a commitment.
BlockRow(x) ==
    /\ ext[x].phase \notin {"pool", "committed"} => ext'[x] = ext[x]
    /\ ext'[x].phase # "expired" => ext'[x].mode = ext[x].mode /\ ext'[x].vec = ext[x].vec
    /\ ext'[x].mode = "cr4" => ext[x].mode = "cr4"
    /\ ext'[x].phase = "unsent" => ext[x].phase = "unsent"
    /\ ext'[x].phase \in {"pool", "committed"} => ext[x].phase \in {"pool", "committed"}
    /\ ext[x].incl # Never => ext'[x].incl = ext[x].incl
    /\ ext'[x].applied \in {ext[x].applied, head + 1}
    /\ ext'[x].phase = "applied" /\ ext[x].phase # "applied" =>
         ext[x].phase \in {"pool", "committed"}

LEMMA BlockRows ==
    ASSUME SettlementInv, NewBlock, NEW x \in Extrinsics, SentAt(x) \in Int
    PROVE  ChainRow(x)' /\ BlockRow(x)
<1>1. /\ TypeOK /\ ChainRow(x) /\ head' = head + 1 /\ ledger' = ledger
  BY DEF SettlementInv, LedgerInv, ExtrinsicsInTime, NewBlock, dbVars
<1>2. /\ head \in Nat /\ ext[x].signed \in Int /\ ext[x].incl \in Int /\ ext[x].applied \in Int
      /\ ext[x].mode \in {"direct", "cr4"} /\ ext[x].phase \in Phases
      /\ ext[x] \in ExtRecord /\ SentAt(x)' = SentAt(x)
  <2>1. ext[x] \in ExtRecord
    BY <1>1 DEF TypeOK, ExtRecord
  <2> QED
    BY <1>1, <2>1, Numbers DEF Modes, SentAt
<1> USE ChainAssumption
<1>3. CASE BlockKeeps(x)
  <2>1. RevealStart(x)' = RevealStart(x)
    BY <1>3 DEF BlockKeeps, RevealStart, Epoch
  <2>2. ChainRow(x)'
    BY <1>1, <1>2, <1>3, <2>1 DEF ChainRow, InPool, Committed, Applied, BlockKeeps
  <2>3. BlockRow(x)
    BY <1>3 DEF BlockKeeps, BlockRow
  <2> QED
    BY <2>2, <2>3
<1>4. CASE BlockReveals(x)
  <2>1. /\ ext'[x].phase = "applied" /\ ext'[x].applied = head + 1
        /\ ext'[x].incl = ext[x].incl /\ ext'[x].mode = ext[x].mode /\ ext'[x].vec = ext[x].vec
        /\ ext[x].phase = "committed" /\ head + 1 <= RevealStart(x) + REVEAL_JITTER
    BY <1>2, <1>4 DEF BlockReveals, ExtRecord
  <2>2. RevealStart(x)' = RevealStart(x)
    BY <2>1 DEF RevealStart, Epoch
  <2>3. Committed(x)
    BY <1>1, <2>1 DEF ChainRow
  <2>4. SentAt(x) >= Never
    BY <1>1, Numbers DEF SentAt, Never
  <2>5. ChainRow(x)'
    BY <1>1, <1>2, <2>1, <2>2, <2>3, <2>4 DEF ChainRow, Committed, Applied, Never
  <2>6. BlockRow(x)
    BY <2>1 DEF BlockRow
  <2> QED
    BY <2>5, <2>6
<1>5. CASE BlockIncludes(x)
  <2>1. /\ ext[x].phase = "pool" /\ InPool(x) /\ ext[x].incl = Never /\ ext[x].applied = Never
        /\ head + 1 <= ext[x].signed + PERIOD
    BY <1>1, <1>5 DEF BlockIncludes, ChainRow
  <2>2. /\ ext'[x].incl = head + 1 /\ ext'[x].mode = ext[x].mode /\ ext'[x].vec = ext[x].vec
        /\ ext[x].mode = "cr4" => ext'[x].phase = "committed" /\ ext'[x].applied = Never
        /\ ext[x].mode = "direct" => ext'[x].phase = "applied" /\ ext'[x].applied = head + 1
    BY <1>2, <1>5, <2>1 DEF BlockIncludes, IncludedAt, ExtRecord
  <2>3. RevealStart(x)' \in Nat /\ head + 1 < RevealStart(x)'
    BY <1>2, <2>2, RevealIsLater DEF RevealStart
  <2>4. ChainRow(x)'
    BY <1>1, <1>2, <2>1, <2>2, <2>3 DEF ChainRow, InPool, Committed, Applied
  <2>5. BlockRow(x)
    BY <1>2, <2>1, <2>2 DEF BlockRow
  <2> QED
    BY <2>4, <2>5
<1>6. CASE BlockExpires(x)
  <2>1. /\ ext'[x].phase = "expired" /\ ext'[x].incl = Never /\ ext'[x].applied = Never
        /\ ext'[x].mode = "direct" /\ ext[x].phase = "pool"
        /\ ext[x].incl = Never /\ ext[x].applied = Never
    BY <1>1, <1>6 DEF BlockExpires, Unsent, ChainRow
  <2> QED
    BY <2>1 DEF ChainRow, BlockRow
<1> QED
  BY <1>1, <1>3, <1>4, <1>5, <1>6, BlockSteps

LEMMA BlockSettled ==
    ASSUME SettlementInv, LedgerInv', NewBlock
    PROVE  SettlementInv'
<1> USE DEF SettlementInv
<1>1. /\ TypeOK /\ head' = head + 1 /\ head \in Nat /\ head \in Block /\ head + 1 \in Block
      /\ UNCHANGED <<commitReveal, ledger, count, fence, pc, snap>>
      /\ running' = {a \in running : head + 1 <= ledger[a].sub + SIGN_DELAY}
      /\ uids' = [uids EXCEPT ![head + 1] = uids[head]]
  <2>1. head \in 0 .. MaxBlock /\ head < MaxBlock
    BY DEF LedgerInv, TypeOK, Block, NewBlock
  <2> QED
    BY <2>1, BoundAssumption DEF LedgerInv, NewBlock, dbVars, localVars, Block, UidAt
<1>2. \A a \in Attempts : /\ a \in Extrinsics /\ a # Legacy /\ ledger[a].sub \in Int
                          /\ SentAt(a) = ledger[a].sub
  BY <1>1, Numbers DEF SentAt
<1>3. \A x \in Extrinsics : ChainRow(x)' /\ BlockRow(x) /\ ext[x].applied \in Int
  <2>1. SentAt(Legacy) \in Int
    BY DEF SentAt
  <2> QED
    BY <1>1, <1>2, <2>1, Numbers, BlockRows
<1>4. \A x \in Extrinsics : CanStillLand(x)' => CanStillLand(x)
  BY <1>1, <1>3 DEF CanStillLand, BlockRow
<1>5. \A x \in Extrinsics, b \in Int : Settled(x, b) => Settled(x, b)'
  <2> SUFFICES ASSUME NEW x \in Extrinsics, NEW b \in Int, Settled(x, b) PROVE Settled(x, b)'
    OBVIOUS
  <2>1. ext'[x] = ext[x]
    BY <1>3 DEF BlockRow, Settled, CanStillLand
  <2>2. ~CanStillLand(x)'
    BY <1>4 DEF Settled
  <2> QED
    BY <2>1, <2>2 DEF Settled
<1>6. ExtrinsicsInTime'
  BY <1>3 DEF ExtrinsicsInTime
<1>7. BatchesMatch'
  <2> SUFFICES ASSUME NEW a \in Attempts PROVE OwnBatch(a)'
    BY DEF BatchesMatch
  <2>1. OwnBatch(a) /\ BlockRow(a) /\ ext[a].phase \in Phases
    BY <1>1, <1>2, <1>3, Numbers DEF BatchesMatch
  <2>2. a \in running' => RunningRow(a)'
    <3> SUFFICES ASSUME a \in running' PROVE RunningRow(a)'
      OBVIOUS
    <3>1. RunningRow(a) /\ head + 1 <= ledger[a].sub + SIGN_DELAY
      BY <1>1, <2>1 DEF OwnBatch
    <3>2. ext'[a] = ext[a]
      BY <2>1, <3>1 DEF BlockRow, RunningRow
    <3> QED
      BY <1>1, <3>1, <3>2 DEF RunningRow, IsOpen
  <2>3. ext'[a].mode = "cr4" => ledger'[a].mode = "cr4"
    BY <1>1, <2>1 DEF OwnBatch, BlockRow
  <2>4. ext'[a].phase \in {"pool", "committed", "applied"} =>
          /\ ledger'[a].sub # Never
          /\ ext'[a].mode = ledger'[a].mode /\ ext'[a].vec = ledger'[a].vec
    BY <1>1, <2>1 DEF OwnBatch, BlockRow
  <2> QED
    BY <2>2, <2>3, <2>4 DEF OwnBatch
<1>8. BatchesInTime'
  <2> SUFFICES ASSUME NEW a \in Attempts, ledger[a].sub # Never PROVE PreparedRow(a)'
    BY <1>1 DEF BatchesInTime
  <2>1. PreparedRow(a) /\ BlockRow(a)
    BY <1>2, <1>3 DEF BatchesInTime
  <2>2. ledger[a].observed # Never => ledger[a].observed = ext'[a].incl
    BY <2>1 DEF PreparedRow, BlockRow
  <2>3. InclusionDeadlineAt(ledger[a].sub)' = InclusionDeadlineAt(ledger[a].sub)
        /\ RevealDeadlineAt(ledger[a].sub)' = RevealDeadlineAt(ledger[a].sub)
    BY <1>1 DEF InclusionDeadlineAt, RevealDeadlineAt, RevealDeadlineBlock,
                EpochStartAfterCommit, Epoch
  <2> QED
    BY <1>1, <1>2, <2>1, <2>2, <2>3 DEF PreparedRow
<1>9. OnlyNewestIsOpen'
  <2>1. \A a \in Attempts : ext'[a].phase # "unsent" => a <= count
    BY <1>2, <1>3 DEF OnlyNewestIsOpen, BlockRow
  <2> QED
    BY <1>1, <2>1 DEF OnlyNewestIsOpen, IsOpen
<1>10. EarlierSettled'
  BY <1>1, <1>2, <1>5 DEF EarlierSettled
<1>11. ClosedSettled'
  <2> SUFFICES ASSUME NEW a \in Attempts, a <= count, ~IsOpen(a) PROVE Settled(a, head)'
    BY <1>1 DEF ClosedSettled, IsOpen
  <2>1. Settled(a, head) /\ ext[a].applied \in Int
    BY <1>2, <1>3 DEF ClosedSettled
  <2>2. ext'[a] = ext[a] /\ ~CanStillLand(a)'
    BY <1>2, <1>3, <1>4, <2>1 DEF BlockRow, Settled, CanStillLand
  <2> QED
    BY <1>1, <2>1, <2>2 DEF Settled
<1>12. FenceCovers'
  <2>1. Legacy \in Extrinsics
    BY BoundAssumption DEF Legacy, Extrinsics
  <2>2. BlockRow(Legacy)
    BY <1>3, <2>1
  <2>3. ext'[Legacy].phase \in {"pool", "committed", "applied"} =>
          /\ ext[Legacy].phase \in {"pool", "committed", "applied"}
          /\ ext'[Legacy].mode = ext[Legacy].mode
    BY <2>2 DEF BlockRow
  <2>4. ext'[Legacy].mode = ext[Legacy].mode => LandsBy(Legacy)' = LandsBy(Legacy)
    BY DEF LandsBy, SentAt, RevealDeadlineAt, RevealDeadlineBlock, EpochStartAfterCommit, Epoch
  <2> QED
    BY <1>1, <2>3, <2>4 DEF FenceCovers
<1>13. FencePassed' /\ SnapIsFinal'
  <2>1. snap \in Int /\ fence \in Int
    BY <1>1, Numbers
  <2> QED
    BY <1>1, <2>1 DEF FencePassed, OpenConfirmation, IsOpen, SnapIsFinal
<1>14. \A b \in 0 .. head + 1 : /\ b = head + 1 \/ b \in 0 .. head
                                /\ uids'[b] = IF b = head + 1 THEN uids[head] ELSE uids[b]
                                /\ uids[b] \in Int
  <2> SUFFICES ASSUME NEW b \in 0 .. head + 1
               PROVE  /\ b = head + 1 \/ b \in 0 .. head
                      /\ uids'[b] = IF b = head + 1 THEN uids[head] ELSE uids[b]
                      /\ uids[b] \in Int
    OBVIOUS
  <2>1. b \in Block
    BY <1>1, BoundAssumption DEF Block
  <2>2. uids[b] \in Block /\ uids \in [Block -> Block]
    BY <1>1, <2>1 DEF TypeOK
  <2> QED
    BY <1>1, <2>1, <2>2, BoundAssumption DEF Block
<1>15. UidsGrow'
  <2>1. \A b \in 0 .. head + 1 : uids'[b] <= b
    BY <1>1, <1>14 DEF UidsGrow
  <2>2. ASSUME NEW b \in 0 .. head + 1, NEW c \in 0 .. head + 1, b <= c
        PROVE  uids'[b] <= uids'[c]
    <3>1. CASE c = head + 1
      BY <1>1, <1>14, <3>1 DEF UidsGrow
    <3>2. CASE c # head + 1
      BY <1>1, <1>14, <2>2, <3>2 DEF UidsGrow
    <3> QED
      BY <3>1, <3>2
  <2> QED
    BY <1>1, <2>1, <2>2 DEF UidsGrow
<1>16. UidsOfBatches'
  <2> SUFFICES ASSUME NEW a \in Attempts, ledger[a].sub # Never
               PROVE  /\ ledger[a].uid <= ledger[a].sub
                      /\ \A b \in ledger[a].sub .. head + 1 : ledger[a].uid <= uids'[b]
    BY <1>1 DEF UidsOfBatches
  <2>1. /\ ledger[a].sub \in Nat /\ ledger[a].sub <= head /\ ledger[a].uid <= ledger[a].sub
        /\ \A b \in ledger[a].sub .. head : ledger[a].uid <= uids[b]
    BY <1>2 DEF UidsOfBatches, BatchesInTime, PreparedRow
  <2> QED
    BY <1>1, <1>14, <2>1
<1> QED
  BY <1>6, <1>7, <1>8, <1>9, <1>10, <1>11, <1>12, <1>13, <1>15, <1>16

LEMMA SettlementStep ==
    ASSUME SettlementInv, [Next]_vars
    PROVE  SettlementInv'
<1>1. LedgerInv'
  BY LedgerInvStep DEF SettlementInv
<1> QED
  BY <1>1, QuietActions, AbandonRecords, PrepareSettled, SignSettled, ToggleSettled,
     ReregisterSettled, FenceSettled, BlockSettled
  DEF Next, Chain, Validator

\* Behind a batch that may land, everything is settled.
LEMMA OneCanLand == SettlementInv => NoOverlap
<1> SUFFICES ASSUME SettlementInv, NEW x \in Extrinsics, NEW y \in Extrinsics,
                    CanStillLand(x), CanStillLand(y), x < y
             PROVE  FALSE
  BY Numbers DEF NoOverlap, SettlementInv, LedgerInv
<1>1. y \in Attempts /\ y \in Extrinsics
  BY Numbers DEF SettlementInv, LedgerInv, Extrinsics, Legacy, Attempts
<1>2. OwnBatch(y)
  BY <1>1 DEF SettlementInv, BatchesMatch
<1>3. ledger[y].sub # Never
  BY <1>1, <1>2 DEF CanStillLand, OwnBatch, RunningRow, SettlementInv, OnlyNewestIsOpen
<1>4. Settled(x, ledger[y].sub)
  BY <1>1, <1>3 DEF SettlementInv, EarlierSettled
<1> QED
  BY <1>4 DEF Settled

-----------------------------------------------------------------------------
\* The inductive invariant of the settlement.
THEOREM SettlementInvariant == Spec => []SettlementInv
  BY InitSettled, SettlementStep, PTL DEF Spec

\* Single flight on the chain: two extrinsics of the hotkey never compete, whatever
\* crashed, timed out or was left by an earlier writer (_weight_emission_ready).
THEOREM NothingCompetes == Spec => []NoOverlap
  BY OneCanLand, SettlementInvariant, PTL

\* A batch leaves the open states only when its extrinsic cannot land any more, so
\* that the next attempt is a safe retry (resolve_weight_emission_confirmations).
THEOREM NothingLandsLate == Spec => []ClosedIsSettled
<1>1. SettlementInv => ClosedIsSettled
  <2> SUFFICES ASSUME SettlementInv, NEW a \in Attempts,
                      ledger[a].state \in {"confirmed", "unconfirmed", "failed"}
               PROVE  ~CanStillLand(a)
    BY DEF ClosedIsSettled
  <2>1. ~IsOpen(a) /\ ledger[a] # Absent
    BY DEF IsOpen, OpenStates, Absent
  <2>2. a <= count
    BY <2>1, Numbers DEF SettlementInv, LedgerInv, NotRecordedYet
  <2> QED
    BY <2>1, <2>2 DEF SettlementInv, ClosedSettled, Settled
<1> QED
  BY <1>1, SettlementInvariant, PTL

-----------------------------------------------------------------------------
(***************************************************************************)
(* No landing is overlooked.  The cursor and the window just read lie in   *)
(* the past, and a landing behind them that left its batch open belongs to *)
(* an identity the hotkey has lost, or to slots that have changed hands.   *)
(***************************************************************************)
Foreign(a) == UidAt(head) # ledger[a].uid
Displaced(a) ==
    \E b \in ext[a].applied .. head : HotkeysAt(b, ledger[a].vec) # ledger[a].hotkeys
Lost(a) == Foreign(a) \/ Displaced(a)
LandedBy(a, b) == ext[a].applied # Never /\ ext[a].applied <= b
ScanIsPast ==
    /\ \A a \in Attempts : ledger[a].cursor <= head
    /\ pc = "checkpoint" => scanned.end <= snap
ScannedIsLost ==
    \A a \in Attempts : IsOpen(a) /\ ledger[a].mode = "cr4" =>
      /\ LandedBy(a, ledger[a].cursor) => Lost(a)
      /\ pc = "checkpoint" /\ scanned.batch = a /\ LandedBy(a, scanned.end) => Lost(a)

WriteOffInv ==
    /\ SettlementInv
    /\ ScanIsPast /\ ScannedIsLost
    /\ LandedIsNotWrittenOff

LEMMA InitWriteOff == Init => WriteOffInv
<1> SUFFICES ASSUME Init PROVE WriteOffInv
  OBVIOUS
<1>1. SettlementInv
  BY InitSettled
<1>2. \A a \in Attempts : ledger[a] = Absent
  BY DEF Init
<1>3. head = 0 /\ pc = "idle"
  BY DEF Init
<1> QED
  BY <1>1, <1>2, <1>3
  DEF WriteOffInv, ScanIsPast, ScannedIsLost, LandedIsNotWrittenOff, IsOpen, OpenStates,
      Absent, Never

\* What a state says of an open batch that has landed under its own identity.
LEMMA Landed ==
    ASSUME SettlementInv, NEW a \in Attempts, IsOpen(a), ext[a].phase = "applied", ~Lost(a)
    PROVE  /\ ledger[a].sub \in Nat /\ ext[a].applied \in Int /\ ext[a].incl \in Int
           /\ snap \in Nat /\ a \in Extrinsics
           /\ ledger[a].uid \in Int /\ ledger[a].uid <= ledger[a].sub
           /\ ledger[a].sub < ext[a].incl /\ ext[a].incl <= ext[a].applied
           /\ ext[a].mode = ledger[a].mode /\ ext[a].vec = ledger[a].vec
           /\ ext[a].mode = "direct" => ext[a].applied = ext[a].incl
           /\ ledger[a].observed # Never => ledger[a].observed = ext[a].incl
           /\ pc = "resolving" /\ ledger[a].sub <= snap => UidAt(snap) = ledger[a].uid
           /\ pc = "resolving" /\ ext[a].applied <= snap
                => HotkeysAt(snap, ledger[a].vec) = ledger[a].hotkeys
<1> USE DEF SettlementInv
<1>1. /\ TypeOK /\ ledger[a].sub # Never /\ PreparedRow(a) /\ OwnBatch(a)
      /\ ledger[a].uid <= ledger[a].sub /\ a \in Extrinsics /\ a # Legacy
      /\ \A b \in ledger[a].sub .. head : ledger[a].uid <= uids[b]
  BY Numbers DEF LedgerInv, OnlyNewestIsOpen, BatchesInTime, BatchesMatch, UidsOfBatches
<1>2. ledger[a].sub \in Nat /\ ext[a].applied \in Int /\ ext[a].incl \in Int
      /\ snap \in Nat /\ head \in Nat
  BY <1>1, Numbers DEF PreparedRow
<1>3. Applied(a) /\ SentAt(a) = ledger[a].sub
  BY <1>1 DEF ExtrinsicsInTime, ChainRow, SentAt
<1>4. ledger[a].uid \in Int /\ snap \in Block /\ head \in Block
  <2>1. ledger[a].uid \in Block /\ snap \in Block /\ head \in Block
    BY <1>1 DEF TypeOK
  <2> QED
    BY <2>1, BoundAssumption DEF Block
<1>5. ASSUME pc = "resolving", ledger[a].sub <= snap PROVE UidAt(snap) = ledger[a].uid
  <2>1. snap < head
    BY <1>5 DEF SnapIsFinal
  <2>2. uids[snap] \in Int /\ uids[head] \in Int
    <3>1. uids[snap] \in Block /\ uids[head] \in Block
      BY <1>1, <1>4 DEF TypeOK
    <3> QED
      BY <3>1, BoundAssumption DEF Block
  <2>3. ledger[a].uid <= uids[snap]
    BY <1>1, <1>2, <1>5, <2>1
  <2>4. uids[snap] <= uids[head]
    BY <1>2, <2>1 DEF UidsGrow
  <2>5. uids[head] = ledger[a].uid
    BY DEF Lost, Foreign, UidAt
  <2> QED
    BY <1>4, <2>2, <2>3, <2>4, <2>5 DEF UidAt
<1>6. ASSUME pc = "resolving", ext[a].applied <= snap
      PROVE  HotkeysAt(snap, ledger[a].vec) = ledger[a].hotkeys
  <2>1. snap \in ext[a].applied .. head
    BY <1>2, <1>6 DEF SnapIsFinal
  <2> QED
    BY <2>1 DEF Lost, Displaced
<1> QED
  BY <1>1, <1>2, <1>3, <1>4, <1>5, <1>6 DEF OwnBatch, PreparedRow, Applied

\* The weights of a landed batch are those that finalized state shows.
LEMMA LandedVector ==
    ASSUME SettlementInv, NEW a \in Attempts, IsOpen(a), ext[a].phase = "applied", ~Lost(a),
           pc = "resolving", ext[a].applied <= snap
    PROVE  VectorMatches(a)
<1>1. /\ ledger[a].sub \in Nat /\ ext[a].applied \in Int /\ ext[a].incl \in Int /\ snap \in Nat
      /\ a \in Extrinsics /\ ledger[a].uid \in Int /\ ledger[a].uid <= ledger[a].sub
      /\ ledger[a].sub < ext[a].incl /\ ext[a].incl <= ext[a].applied
      /\ ext[a].vec = ledger[a].vec
      /\ ledger[a].sub <= snap => UidAt(snap) = ledger[a].uid
      /\ HotkeysAt(snap, ledger[a].vec) = ledger[a].hotkeys
  BY Landed
<1>2. a \in AppliedBy(snap)
  BY <1>1 DEF AppliedBy, Never
<1>3. \A c \in AppliedBy(snap) : c # a => ext[c].applied < ext[a].applied
  <2> SUFFICES ASSUME NEW c \in AppliedBy(snap), c # a PROVE ext[c].applied < ext[a].applied
    OBVIOUS
  <2>1. c \in Extrinsics /\ ext[c].applied \in Int
    BY Numbers DEF AppliedBy, SettlementInv, LedgerInv
  <2>2. ext[c].applied < ledger[a].sub
    BY <2>1, OthersAreBehind DEF Settled
  <2> QED
    BY <1>1, <2>1, <2>2
<1> DEFINE last == CHOOSE x \in AppliedBy(snap) :
                     \A c \in AppliedBy(snap) : ext[c].applied <= ext[x].applied
<1>4. \A c \in AppliedBy(snap) : ext[c].applied \in Int /\ ext[c].applied <= ext[a].applied
  <2>1. \A c \in AppliedBy(snap) : ext[c].applied \in Int
    BY Numbers DEF AppliedBy, SettlementInv, LedgerInv
  <2> QED
    BY <1>1, <1>3, <2>1
<1>5. last \in AppliedBy(snap) /\ ext[a].applied <= ext[last].applied
  BY <1>2, <1>4
<1>6. last = a
  BY <1>1, <1>3, <1>4, <1>5
<1>7. WeightsAt(snap) = ext[last].vec
  BY <1>2 DEF WeightsAt
<1> QED
  BY <1>1, <1>6, <1>7 DEF VectorMatches

\* A direct update in its window confirms the batch.
LEMMA DirectIsSeen ==
    ASSUME SettlementInv, NEW a \in Attempts, IsOpen(a), ext[a].phase = "applied", ~Lost(a),
           pc = "resolving", ext[a].mode = "direct", ext[a].applied <= snap,
           ext[a].applied <= ledger[a].deadline - MARGIN
    PROVE  DirectConfirms(a)
<1>1. /\ ledger[a].sub \in Nat /\ ext[a].applied \in Int /\ ext[a].incl \in Int /\ snap \in Nat
      /\ a \in Extrinsics /\ ledger[a].uid \in Int /\ ledger[a].uid <= ledger[a].sub
      /\ ledger[a].sub < ext[a].incl /\ ext[a].applied = ext[a].incl
      /\ ledger[a].sub <= snap => UidAt(snap) = ledger[a].uid
  BY Landed
<1>2. VectorMatches(a)
  BY LandedVector
<1>3. UidAt(snap) = ledger[a].uid /\ ext[a].incl <= snap
  BY <1>1
<1>4. a \in IncludedBy(snap)
  BY <1>1, <1>3 DEF IncludedBy, Never
<1>5. TypeOK /\ snap \in Block /\ ledger[a].deadline \in Int
  BY Numbers DEF SettlementInv, LedgerInv, TypeOK
<1>6. /\ LastUpdateAt(snap) \in {UidAt(snap)} \cup {ext[x].incl : x \in IncludedBy(snap)}
      /\ LastUpdateAt(snap) >= ext[a].incl
  BY <1>4, <1>5, LastUpdateIsLast
<1>7. \A x \in IncludedBy(snap) : ext[x].incl \in Int /\ ext[x].incl <= ext[a].incl
  <2> SUFFICES ASSUME NEW x \in IncludedBy(snap)
               PROVE  ext[x].incl \in Int /\ ext[x].incl <= ext[a].incl
    OBVIOUS
  <2>1. x \in Extrinsics /\ ext[x].incl # Never /\ ext[x].incl \in Int
    BY <1>5, Numbers DEF IncludedBy
  <2>2. x # a => ext[x].incl < ledger[a].sub
    BY <2>1, OthersAreBehind
  <2> QED
    BY <1>1, <2>1, <2>2
<1>8. LastUpdateAt(snap) \in Int /\ LastUpdateAt(snap) <= ext[a].incl
  BY <1>1, <1>3, <1>6, <1>7
<1> QED
  BY <1>1, <1>2, <1>5, <1>6, <1>8, ChainAssumption DEF DirectConfirms

\* The window that holds the reveal confirms the batch.
LEMMA RevealIsSeen ==
    ASSUME SettlementInv, ScannedIsLost, NEW a \in Attempts, IsOpen(a),
           ext[a].phase = "applied", ~Lost(a), pc = "resolving", ext[a].mode = "cr4",
           HasWindow(a), ext[a].applied <= WindowEnd(a)
    PROVE  Resolution(a) = Confirmed(a)
<1>1. /\ ledger[a].sub \in Nat /\ ext[a].applied \in Int /\ ext[a].incl \in Int /\ snap \in Nat
      /\ a \in Extrinsics /\ ledger[a].sub < ext[a].incl /\ ext[a].incl <= ext[a].applied
      /\ ledger[a].mode = "cr4"
      /\ ledger[a].observed # Never => ledger[a].observed = ext[a].incl
      /\ ledger[a].sub <= snap => UidAt(snap) = ledger[a].uid
  BY Landed
<1>2. /\ ledger[a].cursor \in Int /\ ledger[a].revealDeadline \in Int
  BY Numbers DEF SettlementInv, LedgerInv
<1>3. ~(ext[a].applied <= ledger[a].cursor)
  BY <1>1 DEF ScannedIsLost, LandedBy, Never
<1>4. WindowStart(a) \in Int /\ WindowStart(a) <= ext[a].applied
      /\ ledger[a].sub <= WindowStart(a)
  BY <1>1, <1>2, <1>3 DEF WindowStart, Larger
<1>5. /\ WindowEnd(a) \in Int /\ WindowEnd(a) <= snap
      /\ WindowEnd(a) <= ledger[a].revealDeadline
  BY <1>1, <1>2, <1>4, ChainAssumption DEF WindowEnd, Smaller
<1>6. ext[a].applied \in RevealsRead(a)
  BY <1>1, <1>4, <1>5 DEF RevealsRead, RevealsIn
<1>7. RevealMatches(a)
  <2>1. (IF ledger[a].observed # Never THEN ledger[a].observed ELSE ledger[a].sub)
        <= ext[a].applied
    BY <1>1
  <2>2. ext[a].applied <= ledger[a].revealDeadline
    BY <1>1, <1>2, <1>5
  <2> QED
    BY <1>6, <2>1, <2>2 DEF RevealMatches
<1>8. VectorMatches(a)
  BY <1>1, <1>5, LandedVector
<1>9. ledger[a].uid = UidAt(snap) /\ ~(snap < ledger[a].sub)
  BY <1>1, <1>4, <1>5
<1>10. ~(Cardinality(Candidates(a)) > 1)
  BY OwnCandidate
<1> QED
  BY <1>1, <1>7, <1>8, <1>9, <1>10 DEF Resolution, Cr4Resolution, Cr4Confirms

\* What the ledger promised to examine is confirmed, not written off.
LEMMA NotOverlooked ==
    ASSUME WriteOffInv, NEW a \in Attempts, IsOpen(a), pc = "resolving", LandedInWindow(a)
    PROVE  Resolution(a).state # "unconfirmed"
<1> SUFFICES ASSUME Resolution(a).state = "unconfirmed" PROVE FALSE
  OBVIOUS
<1> USE DEF WriteOffInv
<1>1. /\ TypeOK /\ ledger[a] \in BatchRecord /\ ledger[a].sub # Never /\ PreparedRow(a)
  BY DEF SettlementInv, LedgerInv, TypeOK, BatchRecord, OnlyNewestIsOpen, BatchesInTime
<1>2. ext[a].phase = "applied" /\ ~Lost(a) /\ ledger[a].mode = ext[a].mode
  BY DEF LandedInWindow, Lost, Foreign, Displaced
<1>3. /\ ledger[a].sub \in Nat /\ ext[a].applied \in Int /\ snap \in Nat
      /\ ledger[a].deadline \in Int /\ ledger[a].revealDeadline \in Int
      /\ ledger[a].cursor \in Int /\ ledger[a].mode \in {"direct", "cr4"}
      /\ ledger[a].sub <= snap => UidAt(snap) = ledger[a].uid
  BY <1>1, <1>2, Landed, Numbers DEF Modes
<1>4. ledger[a].state # "unconfirmed" /\ Confirmed(a).state = "confirmed"
  BY <1>1 DEF IsOpen, OpenStates, Confirmed, BatchRecord
<1>5. Candidates(a) # {} => Observed(a).state = ledger[a].state
  BY <1>1, ObservedType
<1>6. Resolution(a) = Unconfirmed(a) /\ snap > Expiry(a)
  BY <1>4, <1>5, ResolutionCases
<1>7. CASE ledger[a].mode = "direct"
  <2>1. ledger[a].deadline < snap /\ ext[a].applied <= ledger[a].deadline - MARGIN
    BY <1>6, <1>7 DEF Expiry, LandedInWindow
  <2>2. InclusionDeadlineAt(ledger[a].sub) <= ledger[a].deadline
    BY <1>1, <1>3, DeadlineType DEF PreparedRow
  <2>3. ledger[a].sub <= snap /\ ext[a].applied <= snap
    BY <1>3, <2>1, <2>2, ChainAssumption DEF InclusionDeadlineAt
  <2>4. DirectConfirms(a)
    BY <1>2, <1>7, <2>1, <2>3, DirectIsSeen
  <2>5. Resolution(a) = Confirmed(a)
    BY <1>3, <1>7, <2>3, <2>4 DEF Resolution, DirectResolution
  <2> QED
    BY <1>4, <2>5
<1>8. CASE ledger[a].mode = "cr4"
  <2>1. ledger[a].revealDeadline < snap /\ ext[a].applied <= ledger[a].revealDeadline
    BY <1>6, <1>8 DEF Expiry, LandedInWindow
  <2>2. ledger[a].sub < ledger[a].revealDeadline
    <3>1. /\ RevealDeadlineAt(ledger[a].sub) \in Nat
          /\ ledger[a].sub + 1 + TEMPO + MARGIN < RevealDeadlineAt(ledger[a].sub)
      BY <1>3, DeadlineOfSample
    <3> QED
      BY <1>1, <1>3, <1>8, <3>1, ChainAssumption DEF PreparedRow
  <2>3. UidAt(snap) = ledger[a].uid /\ ~(snap < ledger[a].sub)
    BY <1>3, <2>1, <2>2
  <2>4. ScanComplete(a)
    <3>1. Resolution(a) = Cr4Resolution(a)
      BY <1>8, <2>3 DEF Resolution
    <3>2. ~(Cardinality(Candidates(a)) > 1)
      BY OwnCandidate
    <3> QED
      BY <1>4, <1>5, <1>6, <3>1, <3>2 DEF Cr4Resolution, Cr4GivesUp
  <2>5. CASE HasWindow(a)
    <3>1. WindowEnd(a) >= ledger[a].revealDeadline
      BY <2>4, <2>5 DEF ScanComplete
    <3>2. WindowEnd(a) \in Int
      <4>1. WindowEnd(a) \in Block
        BY <1>1, <2>5, WindowType
      <4> QED
        BY <4>1, BoundAssumption DEF Block
    <3>3. ext[a].applied <= WindowEnd(a)
      BY <1>3, <2>1, <3>1, <3>2
    <3>4. Resolution(a) = Confirmed(a)
      BY <1>2, <1>8, <2>5, <3>3, RevealIsSeen
    <3> QED
      BY <1>4, <3>4
  <2>6. CASE ~HasWindow(a)
    <3>1. a \in ScannedBatch
      BY <1>3, <1>8, <2>2 DEF ScannedBatch, Never
    <3>2. ~(WindowStart(a) <= WindowEnd(a))
      BY <2>6, <3>1 DEF HasWindow
    <3>3. WindowStart(a) \in Int
          /\ (WindowStart(a) = ledger[a].sub \/ WindowStart(a) = ledger[a].cursor + 1)
      BY <1>3 DEF WindowStart, Larger
    <3>4. ledger[a].revealDeadline < WindowStart(a)
      BY <1>3, <2>1, <3>2, <3>3, ChainAssumption DEF WindowEnd, Smaller
    <3>5. ext[a].applied <= ledger[a].cursor
      BY <1>3, <2>1, <2>2, <3>3, <3>4
    <3>6. ext[a].applied # Never
      BY <1>2, <1>3, Landed DEF Never
    <3> QED
      BY <1>2, <1>8, <3>5, <3>6 DEF ScannedIsLost, LandedBy
  <2> QED
    BY <2>5, <2>6
<1> QED
  BY <1>3, <1>7, <1>8

\* What was lost does not come back, and a settled extrinsic keeps its block.
RowStill(a) ==
    /\ ledger'[a].cursor = ledger[a].cursor
    /\ Identity(ledger'[a]) = Identity(ledger[a])
    /\ IsOpen(a)' => IsOpen(a)
    /\ ledger'[a].state = "unconfirmed" => ledger'[a] = ledger[a]
RowNew(a) ==
    ledger'[a].cursor = Never /\ ledger'[a].state # "unconfirmed" /\ pc' # "checkpoint"
ExtStill(a) ==
    \/ ext'[a] = ext[a]
    \/ CanStillLand(a) /\ ext'[a].applied \in {Never, head + 1}
ChainStill ==
    /\ head' >= head
    /\ UidAt(head)' = UidAt(head) \/ UidAt(head)' > UidAt(head)
    /\ \A b \in 0 .. head : roster'[b] = roster[b]
    /\ pc' = "checkpoint" => pc = "checkpoint" /\ scanned' = scanned /\ snap' = snap

LEMMA StillStep ==
    ASSUME WriteOffInv, SettlementInv', ChainStill,
           \A a \in Attempts : ExtStill(a) /\ (RowStill(a) \/ RowNew(a))
    PROVE  WriteOffInv'
<1>1. /\ TypeOK /\ TypeOK' /\ SettlementInv
      /\ head \in Nat /\ head' \in Nat /\ snap \in Nat
  <2>1. TypeOK /\ TypeOK' /\ SettlementInv
    BY DEF WriteOffInv, SettlementInv, LedgerInv
  <2>2. head' \in Nat
    BY <2>1 DEF TypeOK, Block
  <2> QED
    BY <2>1, <2>2, Numbers
<1>2. head \in Block /\ head' \in Block /\ UidAt(head) \in Int /\ UidAt(head)' \in Int
  <2>1. head \in Block /\ head' \in Block /\ uids[head] \in Block /\ uids'[head'] \in Block
    BY <1>1 DEF TypeOK
  <2> QED
    BY <2>1, BoundAssumption DEF Block, UidAt
<1>3. \A a \in Attempts :
        /\ a \in Extrinsics /\ ext[a].applied \in Int /\ ext'[a].applied \in Int
        /\ ext'[a].applied >= Never /\ ledger[a].cursor \in Int /\ ledger[a].cursor <= head
  <2>1. \A a \in Attempts : ext'[a].applied \in Int /\ ext'[a].applied >= Never
    <3>1. \A a \in Attempts : ext'[a].applied \in Height
      BY <1>1, Numbers DEF TypeOK
    <3> QED
      BY <3>1, BoundAssumption DEF Height, Block, Never
  <2> QED
    BY <1>1, <2>1, Numbers DEF WriteOffInv, ScanIsPast
<1>4. ASSUME NEW a \in Attempts, ledger[a].sub # Never, Lost(a), RowStill(a),
             ext'[a].applied # Never, ext'[a].applied <= head
      PROVE  Lost(a)'
  <2>1. /\ ledger'[a].uid = ledger[a].uid /\ ledger'[a].vec = ledger[a].vec
        /\ ledger'[a].hotkeys = ledger[a].hotkeys
    BY <1>4 DEF RowStill, Identity
  <2>2. ledger[a].sub \in Nat /\ ledger[a].sub <= head
    BY <1>1, <1>4, Numbers DEF SettlementInv, BatchesInTime, PreparedRow
  <2>3. ledger[a].uid <= UidAt(head)
    BY <1>1, <1>4, <2>2 DEF SettlementInv, UidsOfBatches, UidAt
  <2>4. ledger[a].uid \in Int
    <3>1. ledger[a].uid \in Block
      BY <1>1 DEF TypeOK
    <3> QED
      BY <3>1, BoundAssumption DEF Block
  <2>5. CASE Foreign(a)
    BY <1>2, <2>1, <2>3, <2>4, <2>5 DEF Lost, Foreign, ChainStill
  <2>6. CASE Displaced(a)
    <3>1. PICK b \in ext[a].applied .. head :
            HotkeysAt(b, ledger[a].vec) # ledger[a].hotkeys
      BY <2>6 DEF Displaced
    <3>2. ext'[a].applied = ext[a].applied /\ ext[a].applied \in Nat
      BY <1>1, <1>3, <1>4 DEF ExtStill, Never
    <3>3. b \in 0 .. head /\ b \in ext'[a].applied .. head'
      BY <1>1, <3>1, <3>2 DEF ChainStill
    <3>4. roster'[b] = roster[b]
      BY <3>3 DEF ChainStill
    <3>5. HotkeysAt(b, ledger[a].vec)' # ledger'[a].hotkeys
      BY <2>1, <3>1, <3>4 DEF HotkeysAt
    <3> QED
      BY <3>3, <3>5 DEF Lost, Displaced
  <2> QED
    BY <1>4, <2>5, <2>6 DEF Lost
<1>5. ASSUME NEW a \in Attempts, NEW b \in Int, b <= head, LandedBy(a, b)'
      PROVE  LandedBy(a, b)
  BY <1>1, <1>3, <1>5 DEF LandedBy, ExtStill, Never
<1>6. ScanIsPast'
  <2>1. \A a \in Attempts : ledger'[a].cursor <= head'
    BY <1>1, <1>3 DEF RowStill, RowNew, ChainStill, Never
  <2>2. pc' = "checkpoint" => scanned'.end <= snap'
    BY DEF ChainStill, WriteOffInv, ScanIsPast
  <2> QED
    BY <2>1, <2>2 DEF ScanIsPast
<1>7. ScannedIsLost'
  <2> SUFFICES ASSUME NEW a \in Attempts, IsOpen(a)', ledger'[a].mode = "cr4"
               PROVE  /\ LandedBy(a, ledger[a].cursor)' => Lost(a)'
                      /\ pc' = "checkpoint" /\ scanned'.batch = a /\ LandedBy(a, scanned.end)'
                           => Lost(a)'
    BY DEF ScannedIsLost
  <2>1. CASE RowStill(a)
    <3>1. IsOpen(a) /\ ledger[a].mode = "cr4" /\ ledger[a].sub # Never
      BY <1>1, <2>1 DEF RowStill, Identity, SettlementInv, OnlyNewestIsOpen
    <3>2. ASSUME LandedBy(a, ledger[a].cursor)' PROVE Lost(a)'
      <4> DEFINE c == ledger[a].cursor
      <4>1. LandedBy(a, c) /\ ext'[a].applied # Never /\ ext'[a].applied <= head
        <5>1. ext'[a].applied # Never /\ ext'[a].applied <= ledger'[a].cursor
          BY <3>2 DEF LandedBy
        <5>2. ext'[a].applied <= c /\ c \in Int /\ c <= head
          BY <1>3, <2>1, <5>1 DEF RowStill
        <5> HIDE DEF c
        <5> QED
          BY <1>1, <1>3, <5>1, <5>2 DEF LandedBy, ExtStill, Never
      <4> QED
        BY <1>4, <2>1, <3>1, <4>1 DEF WriteOffInv, ScannedIsLost
    <3>3. ASSUME pc' = "checkpoint", scanned'.batch = a, LandedBy(a, scanned.end)'
          PROVE  Lost(a)'
      <4>1. pc = "checkpoint" /\ scanned' = scanned
        BY <3>3 DEF ChainStill
      <4>2. scanned.end \in Int /\ scanned.end <= head
        <5>1. scanned.end \in Block /\ scanned.end <= snap /\ snap < head
          BY <1>1, <4>1 DEF TypeOK, WriteOffInv, ScanIsPast, SettlementInv, SnapIsFinal
        <5> QED
          BY <1>1, <5>1, BoundAssumption DEF Block
      <4>3. ext'[a].applied # Never /\ ext'[a].applied <= scanned.end
        BY <3>3, <4>1 DEF LandedBy
      <4>4. LandedBy(a, scanned.end) /\ ext'[a].applied # Never /\ ext'[a].applied <= head
        BY <1>1, <1>3, <4>2, <4>3 DEF LandedBy, ExtStill, Never
      <4> QED
        BY <1>4, <2>1, <3>1, <3>3, <4>1, <4>4 DEF WriteOffInv, ScannedIsLost
    <3> QED
      BY <3>2, <3>3
  <2>2. CASE RowNew(a)
    BY <1>3, <2>2 DEF RowNew, LandedBy, Never
  <2> QED
    BY <2>1, <2>2
<1>8. LandedIsNotWrittenOff'
  <2> SUFFICES ASSUME NEW a \in Attempts, ledger'[a].state = "unconfirmed", LandedInWindow(a)'
               PROVE  FALSE
    BY DEF LandedIsNotWrittenOff
  <2>1. RowStill(a) /\ ledger'[a] = ledger[a] /\ ledger[a].state = "unconfirmed"
    BY DEF RowNew, RowStill
  <2>2. ~IsOpen(a) /\ ledger[a].state # "absent"
    BY <2>1 DEF IsOpen, OpenStates
  <2>3. a <= count
    <3>1. ledger[a] # Absent
      BY <2>2 DEF Absent
    <3> QED
      BY <1>1, <3>1, Numbers DEF SettlementInv, LedgerInv, NotRecordedYet
  <2>4. ext'[a] = ext[a]
    BY <1>1, <2>2, <2>3 DEF SettlementInv, ClosedSettled, Settled, ExtStill
  <2>5. ~Lost(a)'
    BY DEF LandedInWindow, Lost, Foreign, Displaced
  <2>6. ledger[a].sub # Never
    BY <1>1, <2>1, <2>4 DEF LandedInWindow, SettlementInv, BatchesMatch, OwnBatch
  <2>7. ext'[a].applied # Never /\ ext'[a].applied <= head
    <3>1. a \in Extrinsics /\ ext[a].phase = "applied" /\ ChainRow(a)
      BY <1>1, <1>3, <2>4 DEF LandedInWindow, SettlementInv, ExtrinsicsInTime
    <3>2. ext[a].incl \in Int /\ ext[a].applied \in Int /\ Applied(a)
      BY <1>1, <1>3, <3>1, Numbers DEF ChainRow
    <3> QED
      BY <1>1, <2>4, <3>2 DEF Applied, Never
  <2>8. ~Lost(a)
    BY <1>4, <2>1, <2>5, <2>6, <2>7
  <2>9. LandedInWindow(a)
    BY <2>1, <2>4, <2>8 DEF LandedInWindow, Lost, Foreign, Displaced
  <2> QED
    BY <2>1, <2>9 DEF WriteOffInv, LandedIsNotWrittenOff
<1> QED
  BY <1>6, <1>7, <1>8 DEF WriteOffInv

\* A pass writes off what it may, and the window it read is what it examined.
LEMMA ResolveExamines ==
    ASSUME WriteOffInv, SettlementInv', ResolveConfirmations
    PROVE  WriteOffInv'
<1>1. /\ TypeOK /\ SettlementInv /\ pc = "resolving" /\ head' = head /\ ext' = ext
      /\ uids' = uids /\ roster' = roster
      /\ \A a \in Attempts : ledger'[a] = IF IsOpen(a) THEN Resolution(a) ELSE ledger[a]
      /\ pc' = "checkpoint" =>
           snap' = snap /\ \E b \in Attempts : HasWindow(b)
                                               /\ scanned' = [batch |-> b, end |-> WindowEnd(b)]
  BY DEF WriteOffInv, SettlementInv, LedgerInv, ResolveConfirmations, chainVars
<1>2. \A a \in Attempts : /\ ledger'[a].cursor = ledger[a].cursor
                          /\ Identity(ledger'[a]) = Identity(ledger[a])
                          /\ ledger'[a].deadline = ledger[a].deadline
                          /\ ledger'[a].revealDeadline = ledger[a].revealDeadline
                          /\ IsOpen(a)' => IsOpen(a)
  <2> SUFFICES ASSUME NEW a \in Attempts
               PROVE  /\ ledger'[a].cursor = ledger[a].cursor
                      /\ Identity(ledger'[a]) = Identity(ledger[a])
                      /\ ledger'[a].deadline = ledger[a].deadline
                      /\ ledger'[a].revealDeadline = ledger[a].revealDeadline
                      /\ IsOpen(a)' => IsOpen(a)
    OBVIOUS
  <2>1. CASE IsOpen(a)
    BY <1>1, <2>1, ResolutionType, ResolutionIdentity
  <2>2. CASE ~IsOpen(a)
    BY <1>1, <2>2 DEF IsOpen
  <2> QED
    BY <2>1, <2>2
<1>3. \A a \in Attempts : /\ ledger'[a].mode = ledger[a].mode /\ ledger'[a].uid = ledger[a].uid
                          /\ ledger'[a].sub = ledger[a].sub /\ ledger'[a].vec = ledger[a].vec
                          /\ ledger'[a].hotkeys = ledger[a].hotkeys
  BY <1>2 DEF Identity
<1>4. \A a \in Attempts : Lost(a)' = Lost(a) /\ LandedInWindow(a)' = LandedInWindow(a)
  BY <1>1, <1>2, <1>3 DEF Lost, Displaced, HotkeysAt, Foreign, UidAt, LandedInWindow
<1>5. ScanIsPast'
  <2>1. \A a \in Attempts : ledger'[a].cursor <= head'
    BY <1>1, <1>2 DEF WriteOffInv, ScanIsPast
  <2>2. ASSUME NEW b \in Attempts, HasWindow(b) PROVE WindowEnd(b) <= snap
    <3>1. /\ ledger[b].sub \in Int /\ ledger[b].cursor \in Int
          /\ ledger[b].revealDeadline \in Int /\ snap \in Int
      BY <1>1, Numbers
    <3> QED
      BY <3>1, ChainAssumption DEF WindowEnd, WindowStart, Larger, Smaller
  <2> QED
    BY <1>1, <2>1, <2>2 DEF ScanIsPast
<1>6. ScannedIsLost'
  <2> SUFFICES ASSUME NEW a \in Attempts, IsOpen(a)', ledger'[a].mode = "cr4"
               PROVE  /\ LandedBy(a, ledger[a].cursor)' => Lost(a)'
                      /\ pc' = "checkpoint" /\ scanned'.batch = a /\ LandedBy(a, scanned.end)'
                           => Lost(a)'
    BY DEF ScannedIsLost
  <2>1. IsOpen(a) /\ ledger[a].mode = "cr4"
    BY <1>2, <1>3
  <2>2. LandedBy(a, ledger[a].cursor)' => Lost(a)'
    BY <1>1, <1>2, <1>4, <2>1 DEF WriteOffInv, ScannedIsLost, LandedBy
  <2>3. ASSUME pc' = "checkpoint", scanned'.batch = a, LandedBy(a, scanned.end)'
        PROVE  Lost(a)
    <3>1. HasWindow(a) /\ scanned'.end = WindowEnd(a)
      BY <1>1, <2>3
    <3>2. ext[a].applied # Never /\ ext[a].applied <= WindowEnd(a)
      BY <1>1, <2>3, <3>1 DEF LandedBy
    <3>3. a \in Extrinsics
      BY <1>1, Numbers
    <3>4. ext[a].phase = "applied" /\ ext[a].mode = "cr4"
      BY <1>1, <2>1, <3>2, <3>3
      DEF SettlementInv, ExtrinsicsInTime, ChainRow, BatchesMatch, OwnBatch
    <3>5. ~Lost(a) => Resolution(a) = Confirmed(a)
      BY <1>1, <2>1, <3>1, <3>2, <3>4, RevealIsSeen DEF WriteOffInv
    <3>6. ledger[a] \in BatchRecord
      BY <1>1 DEF TypeOK, BatchRecord
    <3>7. ~Lost(a) => ~IsOpen(a)'
      BY <1>1, <2>1, <3>5, <3>6 DEF Confirmed, IsOpen, OpenStates, BatchRecord
    <3> QED
      BY <3>7
  <2> QED
    BY <1>4, <2>2, <2>3
<1>7. LandedIsNotWrittenOff'
  <2> SUFFICES ASSUME NEW a \in Attempts, ledger'[a].state = "unconfirmed", LandedInWindow(a)
               PROVE  FALSE
    BY <1>4 DEF LandedIsNotWrittenOff
  <2>1. CASE IsOpen(a)
    BY <1>1, <2>1, NotOverlooked
  <2>2. CASE ~IsOpen(a)
    BY <1>1, <2>2 DEF WriteOffInv, LandedIsNotWrittenOff
  <2> QED
    BY <2>1, <2>2
<1> QED
  BY <1>5, <1>6, <1>7 DEF WriteOffInv

\* The checkpoint moves the cursor to the end of the window that was read.
LEMMA CursorExamines ==
    ASSUME WriteOffInv, SettlementInv', AdvanceCursor
    PROVE  WriteOffInv'
<1>1. PICK n \in Attempts : n = scanned.batch
  BY DEF WriteOffInv, SettlementInv, LedgerInv, CheckpointIsRecorded, AdvanceCursor
<1>2. /\ TypeOK /\ SettlementInv /\ pc = "checkpoint" /\ pc' # "checkpoint"
      /\ head' = head /\ ext' = ext /\ uids' = uids /\ roster' = roster
      /\ ledger' = IF IsOpen(n) THEN [ledger EXCEPT ![n].cursor = Larger(@, scanned.end)]
                   ELSE ledger
  BY <1>1 DEF WriteOffInv, SettlementInv, LedgerInv, AdvanceCursor, chainVars
<1>3. /\ ledger \in [Attempts -> BatchRecord] /\ scanned.end \in Int /\ scanned.end <= head
  <2>1. scanned.end \in Block /\ scanned.end <= snap /\ snap < head
    BY <1>2 DEF TypeOK, WriteOffInv, ScanIsPast, SettlementInv, SnapIsFinal
  <2>2. ledger \in [Attempts -> BatchRecord]
    BY <1>2 DEF TypeOK, BatchRecord
  <2>3. snap \in Int /\ head \in Int
    BY <1>2, Numbers
  <2> QED
    BY <2>1, <2>2, <2>3, BoundAssumption DEF Block
<1>4. \A a \in Attempts :
        /\ ledger'[a].mode = ledger[a].mode /\ ledger'[a].uid = ledger[a].uid
        /\ ledger'[a].sub = ledger[a].sub /\ ledger'[a].state = ledger[a].state
        /\ ledger'[a].vec = ledger[a].vec /\ ledger'[a].hotkeys = ledger[a].hotkeys
        /\ ledger'[a].deadline = ledger[a].deadline
        /\ ledger'[a].revealDeadline = ledger[a].revealDeadline
        /\ \/ ledger'[a].cursor = ledger[a].cursor
           \/ a = n /\ ledger'[a].cursor = scanned.end
  BY <1>2, <1>3 DEF BatchRecord, Larger
<1>5. \A a \in Attempts : /\ Lost(a)' = Lost(a) /\ LandedInWindow(a)' = LandedInWindow(a)
                          /\ IsOpen(a)' = IsOpen(a)
  BY <1>2, <1>4 DEF Lost, Displaced, HotkeysAt, Foreign, UidAt, LandedInWindow, IsOpen
<1>6. ScanIsPast'
  BY <1>2, <1>3, <1>4 DEF WriteOffInv, ScanIsPast
<1>7. ScannedIsLost'
  BY <1>1, <1>2, <1>4, <1>5 DEF WriteOffInv, ScannedIsLost, LandedBy
<1>8. LandedIsNotWrittenOff'
  BY <1>4, <1>5 DEF WriteOffInv, LandedIsNotWrittenOff
<1> QED
  BY <1>6, <1>7, <1>8 DEF WriteOffInv

\* The other steps leave the scan, the verdicts and the identities where they were.
LEMMA ValidatorStill ==
    ASSUME WriteOffInv, SettlementInv', Quiet, pc' # "checkpoint",
           ledger' = ledger \/ SdkReturns \/ Recorded
    PROVE  WriteOffInv'
<1>1. SettlementInv /\ LedgerInv /\ TypeOK /\ head \in Int /\ ext' = ext
  BY Numbers DEF WriteOffInv, SettlementInv, LedgerInv, Quiet
<1>2. ChainStill
  BY <1>1 DEF ChainStill, Quiet, UidAt
<1>3. \A a \in Attempts : ExtStill(a)
  BY <1>1 DEF ExtStill
<1>4. \A a \in Attempts : ledger'[a] = ledger[a] => RowStill(a)
  BY DEF RowStill, IsOpen
<1>5. CASE SdkReturns
  <2>1. PICK n \in Attempts : n = count
    BY <1>1, <1>5, SdkReturnsWrites
  <2>2. CASE ledger' = ledger
    BY <1>2, <1>3, <1>4, <2>2, StillStep
  <2>3. CASE ledger' # ledger
    <3>1. PICK batch \in BatchRecord :
            /\ Rewritten(n, batch) /\ batch.state \in {"submitted", "ambiguous", "failed"}
            /\ batch.cursor = ledger[n].cursor
      BY <1>1, <1>5, <2>1, <2>3, SdkReturnsWrites
    <3>2. ledger'[n] = batch /\ \A a \in Attempts : a # n => ledger'[a] = ledger[a]
      BY <1>1, <3>1 DEF Rewritten, TypeOK
    <3>3. RowKept(n)
      BY <1>1, <1>5, SdkReturnsKeep
    <3>4. RowStill(n)
      BY <3>1, <3>2, <3>3 DEF RowKept, RowStill
    <3> QED
      BY <1>2, <1>3, <1>4, <3>2, <3>4, StillStep
  <2> QED
    BY <2>2, <2>3
<1>6. CASE Recorded
  <2>1. PICK n \in Attempts : n = count'
    BY <1>1, <1>6, RecordsNextRow DEF Recorded
  <2>2. PICK batch \in BatchRecord :
          /\ Rewritten(n, batch) /\ batch.state \in {"prepared", "failed"}
          /\ batch.cursor = Never
    BY <1>1, <1>6, <2>1, RecordsNextRow DEF Recorded
  <2>3. ledger'[n] = batch /\ \A a \in Attempts : a # n => ledger'[a] = ledger[a]
    BY <1>1, <2>2 DEF Rewritten, TypeOK
  <2>4. RowNew(n)
    BY <2>2, <2>3 DEF RowNew
  <2> QED
    BY <1>2, <1>3, <1>4, <2>3, <2>4, StillStep
<1>7. CASE ledger' = ledger
  BY <1>2, <1>3, <1>4, <1>7, StillStep
<1> QED
  BY <1>5, <1>6, <1>7

LEMMA ChainKeepsStill ==
    ASSUME WriteOffInv, SettlementInv', ledger' = ledger, pc' = pc, scanned' = scanned,
           snap' = snap,
           NewBlock \/ Reregister \/ ToggleCommitReveal \/ \E a \in Attempts : Sign(a)
    PROVE  WriteOffInv'
<1>1. /\ SettlementInv /\ TypeOK /\ head \in Int
      /\ ext \in [Extrinsics -> ExtRecord] /\ uids \in [Block -> Block] /\ head \in Block
  <2>1. SettlementInv /\ TypeOK
    BY DEF WriteOffInv, SettlementInv, LedgerInv
  <2>2. ext \in [Extrinsics -> ExtRecord] /\ uids \in [Block -> Block] /\ head \in Block
    BY <2>1 DEF TypeOK, ExtRecord
  <2> QED
    BY <2>1, <2>2, Numbers
<1>2. \A a \in Attempts : a \in Extrinsics /\ a # Legacy /\ ledger[a].sub \in Int
  BY <1>1, Numbers
<1>3. \A a \in Attempts : RowStill(a)
  BY DEF RowStill, IsOpen
<1>4. CASE NewBlock
  <2>1. head' = head + 1 /\ head + 1 \in Block /\ head # head + 1
    <3>1. head \in 0 .. MaxBlock /\ head < MaxBlock /\ head' = head + 1
      BY <1>1, <1>4 DEF Block, NewBlock
    <3> QED
      BY <3>1, BoundAssumption DEF Block
  <2>2. UidAt(head)' = UidAt(head)
    BY <1>1, <1>4, <2>1 DEF NewBlock, UidAt
  <2>3. ASSUME NEW a \in Attempts PROVE ExtStill(a)
    <3>1. BlockRow(a) /\ ChainRow(a) /\ ext[a].phase \in Phases
      BY <1>1, <1>2, <1>4, BlockRows, Numbers DEF SentAt, SettlementInv, ExtrinsicsInTime
    <3>2. CASE ext[a].phase \in {"pool", "committed"}
      BY <3>1, <3>2 DEF BlockRow, ChainRow, ExtStill, CanStillLand
    <3> QED
      BY <3>1, <3>2 DEF BlockRow, ExtStill
  <2>4. \A b \in 0 .. head : roster'[b] = roster[b]
    <3>1. roster \in [Block -> Rosters]
      BY <1>1 DEF TypeOK
    <3>2. \A b \in 0 .. head : b \in Block /\ b # head + 1
      BY <1>1, <2>1, BoundAssumption DEF Block
    <3>3. PICK r \in Rosters : roster' = [roster EXCEPT ![head + 1] = r]
      BY <1>4 DEF NewBlock
    <3> QED
      BY <3>1, <3>2, <3>3
  <2>5. ChainStill
    BY <1>1, <2>1, <2>2, <2>4 DEF ChainStill
  <2> QED
    BY <1>3, <2>3, <2>5, StillStep
<1>5. CASE Reregister
  <2>1. /\ head' = head /\ ext' = ext /\ UidAt(head)' = head /\ UidAt(head) # head
        /\ roster' = roster
    BY <1>1, <1>5 DEF Reregister, UidAt
  <2>2. UidAt(head) \in Int /\ UidAt(head) <= head
    <3>1. uids[head] \in Block /\ head \in 0 .. head
      BY <1>1, BoundAssumption DEF Block
    <3> QED
      BY <1>1, <3>1, BoundAssumption DEF Block, SettlementInv, UidsGrow, UidAt
  <2>3. ChainStill
    BY <1>1, <2>1, <2>2 DEF ChainStill
  <2>4. \A a \in Attempts : ExtStill(a)
    BY <2>1 DEF ExtStill
  <2> QED
    BY <1>3, <2>3, <2>4, StillStep
<1>6. CASE ToggleCommitReveal
  <2>1. head' = head /\ ext' = ext /\ uids' = uids /\ roster' = roster
    BY <1>6 DEF ToggleCommitReveal
  <2>2. ChainStill
    BY <1>1, <2>1 DEF ChainStill, UidAt
  <2>3. \A a \in Attempts : ExtStill(a)
    BY <2>1 DEF ExtStill
  <2> QED
    BY <1>3, <2>2, <2>3, StillStep
<1>7. ASSUME NEW n \in Attempts, Sign(n) PROVE WriteOffInv'
  <2>1. /\ head' = head /\ uids' = uids /\ roster' = roster /\ n \in running
        /\ \A a \in Attempts : a # n => ext'[a] = ext[a]
        /\ ext'[n].applied = Never
    BY <1>1, <1>2, <1>7 DEF Sign, chainVars, Unsent
  <2>2. ChainStill
    BY <1>1, <2>1 DEF ChainStill, UidAt
  <2>3. \A a \in Attempts : ExtStill(a)
    BY <2>1 DEF ExtStill, CanStillLand
  <2> QED
    BY <1>3, <2>2, <2>3, StillStep
<1> QED
  BY <1>4, <1>5, <1>6, <1>7

LEMMA WriteOffStep ==
    ASSUME WriteOffInv, [Next]_vars
    PROVE  WriteOffInv'
<1> USE DEF chainVars, dbVars, processVars, localVars
<1>1. SettlementInv'
  BY SettlementStep DEF WriteOffInv
<1>2. CASE UNCHANGED vars
  <2>1. \A a \in Attempts : RowStill(a) /\ ExtStill(a)
    BY <1>2 DEF vars, RowStill, IsOpen, ExtStill
  <2>2. head \in Int
    BY Numbers DEF WriteOffInv, SettlementInv, LedgerInv
  <2>3. ChainStill
    BY <1>2, <2>2 DEF vars, ChainStill, UidAt
  <2> QED
    BY <1>1, <2>1, <2>3, StillStep
<1>3. CASE Chain \/ \E a \in Attempts : Sign(a)
  <2>1. ledger' = ledger /\ pc' = pc /\ scanned' = scanned /\ snap' = snap
    BY <1>3 DEF Chain, NewBlock, Reregister, ToggleCommitReveal, Sign
  <2> QED
    BY <1>1, <1>3, <2>1, ChainKeepsStill DEF Chain
<1>4. CASE ResolveConfirmations
  BY <1>1, <1>4, ResolveExamines
<1>5. CASE AdvanceCursor
  BY <1>1, <1>5, CursorExamines
<1>6. CASE SdkReturns
  <2>1. pc' # "checkpoint" /\ Quiet
    BY <1>6, SdkReturnsWrites, SdkReturnsKeep DEF WriteOffInv, SettlementInv
  <2> QED
    BY <1>1, <1>6, <2>1, ValidatorStill
<1>7. CASE PrepareIntent
  <2>1. /\ head' = head /\ ext' = ext /\ uids' = uids /\ roster' = roster
        /\ pc' # "checkpoint"
    BY <1>7 DEF PrepareIntent
  <2>2. TypeOK /\ LedgerInv /\ head \in Int
    BY Numbers DEF WriteOffInv, SettlementInv, LedgerInv
  <2>3. PICK n \in Attempts : n = count'
    BY <1>7, <2>2, RecordsNextRow
  <2>4. PICK batch \in BatchRecord :
          /\ Rewritten(n, batch) /\ batch.state \in {"prepared", "failed"}
          /\ batch.cursor = Never
    BY <1>7, <2>2, <2>3, RecordsNextRow
  <2>5. ledger'[n] = batch /\ \A a \in Attempts : a # n => ledger'[a] = ledger[a]
    BY <2>2, <2>4 DEF Rewritten, TypeOK
  <2>6. \A a \in Attempts : RowStill(a) \/ RowNew(a)
    BY <2>1, <2>4, <2>5 DEF RowNew, RowStill, IsOpen
  <2>7. ChainStill /\ \A a \in Attempts : ExtStill(a)
    BY <2>1, <2>2 DEF ChainStill, UidAt, ExtStill
  <2> QED
    BY <1>1, <2>6, <2>7, StillStep
<1>8. CASE RecordStartupFence
  <2>1. \A a \in Attempts : RowStill(a) /\ ExtStill(a)
    BY <1>8 DEF RecordStartupFence, RowStill, IsOpen, ExtStill
  <2>2. head \in Int
    BY Numbers DEF WriteOffInv, SettlementInv, LedgerInv
  <2>3. ChainStill
    BY <1>8, <2>2 DEF RecordStartupFence, ChainStill, UidAt
  <2> QED
    BY <1>1, <2>1, <2>3, StillStep
<1>9. CASE AbandonPlan
  <2>1. Quiet /\ pc' # "checkpoint"
    BY <1>9 DEF AbandonPlan, Quiet
  <2>2. ledger' = ledger \/ Recorded
    <3>1. count \in Int
      BY Numbers DEF WriteOffInv, SettlementInv, LedgerInv
    <3> QED
      BY <1>9, <3>1 DEF AbandonPlan, Recorded
  <2> QED
    BY <1>1, <2>1, <2>2, ValidatorStill
<1>10. CASE PlanEmission \/ SyncMetagraph \/ ReconciliationFails \/ CrashAndRestart
  <2>1. pc' # "checkpoint" /\ ledger' = ledger /\ Quiet
    BY <1>10
    DEF PlanEmission, SyncMetagraph, ReconciliationFails, CrashAndRestart, Quiet,
        WriteOffInv, SettlementInv, LedgerInv, TypeOK
  <2> QED
    BY <1>1, <2>1, ValidatorStill
<1> QED
  BY <1>2, <1>3, <1>4, <1>5, <1>6, <1>7, <1>8, <1>9, <1>10 DEF Next, Validator

-----------------------------------------------------------------------------
\* An extrinsic that landed inside the window the ledger promises to examine, under a
\* UID and target slots still held by the recorded hotkeys, is never written off: no
\* crash, lost checkpoint or scan batch hides it (DirectResolution, Cr4Resolution, the
\* matching of resolve_weight_emission_confirmations and the cursor of
\* advance_cr4_reveal_scan_cursor).
THEOREM NothingIsOverlooked == Spec => []LandedIsNotWrittenOff
<1>1. WriteOffInv => LandedIsNotWrittenOff
  BY DEF WriteOffInv
<1> QED
  BY <1>1, InitWriteOff, WriteOffStep, PTL DEF Spec

-----------------------------------------------------------------------------
(***************************************************************************)
(* The ledger and the chain implement EmissionContract: a step of the      *)
(* detailed system decides, opens or lands one attempt, or maps to a       *)
(* stutter.                                                                *)
(***************************************************************************)
LEMMA VerdictsKept ==
    ASSUME \A a \in Attempts : ledger'[a].state = ledger[a].state \/ Verdict(a)' = Verdict(a)
    PROVE  verdicts' = verdicts
<1>1. \A a \in Attempts : Verdict(a)' = Verdict(a)
  BY DEF Verdict, IsOpen
<1> QED
  BY <1>1 DEF verdicts

LEMMA VerdictSet ==
    ASSUME NEW n \in Attempts, NEW v, Verdict(n)' = v,
           \A a \in Attempts : a # n => ledger'[a].state = ledger[a].state
    PROVE  verdicts' = [verdicts EXCEPT ![n] = v]
<1>1. \A a \in Attempts : a # n => Verdict(a)' = Verdict(a)
  BY DEF Verdict, IsOpen
<1> QED
  BY <1>1 DEF verdicts

LEMMA VerdictIs ==
    ASSUME TypeOK, NEW a \in Attempts
    PROVE  /\ verdicts[a] = "open" <=> IsOpen(a)
           /\ verdicts[a] = "none" <=> ledger[a].state = "absent"
<1>1. ledger[a].state \in States
  BY Numbers
<1>2. verdicts[a] = Verdict(a)
  BY DEF verdicts
<1> QED
  BY <1>1, <1>2 DEF Verdict, IsOpen, OpenStates, States

LEMMA EffectsKept == ext' = ext => effects' = effects
  BY DEF effects

LEMMA ContractInit == Init => Contract!Init
<1> SUFFICES ASSUME Init PROVE Contract!Init
  OBVIOUS
<1>1. verdicts = [a \in Attempts |-> "none"]
  BY DEF Init, verdicts, Verdict, IsOpen, OpenStates, Absent
<1>2. \A x \in Extrinsics : x # Legacy => ext[x].phase # "applied"
  BY DEF Init, Unsent
<1>3. effects \in {{}, {Legacy}}
  <2>1. Legacy \in Extrinsics
    BY BoundAssumption DEF Legacy, Extrinsics
  <2> QED
    BY <1>2, <2>1 DEF effects
<1> QED
  BY <1>1, <1>3 DEF Contract!Init

\* A block brings one extrinsic into effect at most: the legacy writer's before the
\* first attempt, an attempt's while it is open.
LEMMA BlockTakesEffect ==
    ASSUME SettlementInv, NewBlock
    PROVE  [Contract!Next]_(Contract!vars)
<1>1. TypeOK /\ ledger' = ledger
  BY DEF SettlementInv, LedgerInv, NewBlock, dbVars
<1>2. verdicts' = verdicts
  BY <1>1, VerdictsKept
<1>3. \A y \in Extrinsics : BlockRow(y)
  <2> SUFFICES ASSUME NEW y \in Extrinsics PROVE SentAt(y) \in Int
    BY BlockRows
  <2> QED
    BY <1>1, Numbers DEF SentAt
<1>4. \A y \in Extrinsics : ext'[y].phase = "applied" /\ ext[y].phase # "applied"
                             => CanStillLand(y)
  BY <1>3 DEF BlockRow, CanStillLand
<1>5. \A y \in Extrinsics : ext[y].phase = "applied" => ext'[y].phase = "applied"
  BY <1>3 DEF BlockRow
<1>6. CASE \A y \in Extrinsics : ext'[y].phase = "applied" => ext[y].phase = "applied"
  <2>1. effects' = effects
    BY <1>5, <1>6 DEF effects
  <2> QED
    BY <1>2, <2>1 DEF Contract!vars
<1>7. ASSUME NEW x \in Extrinsics, ext'[x].phase = "applied", ext[x].phase # "applied"
      PROVE  Contract!Next
  <2>1. CanStillLand(x)
    BY <1>4, <1>7
  <2>2. \A y \in Extrinsics : ext'[y].phase = "applied" <=> ext[y].phase = "applied" \/ y = x
    BY <1>4, <1>5, <1>7, <2>1, OneCanLand DEF NoOverlap
  <2>3. effects' = effects \cup {x} /\ x \notin effects
    BY <1>7, <2>2 DEF effects
  <2>4. CASE x = Legacy
    <3>1. ~Settled(Legacy, head)
      BY <2>1, <2>4 DEF Settled
    <3>2. ~(count > 0)
      BY <3>1, LegacySettled DEF SettlementInv, FencePassed
    <3>3. \A a \in Attempts : ledger[a] = Absent
      BY <1>1, <3>2, Numbers DEF SettlementInv, LedgerInv, NotRecordedYet
    <3>4. Contract!Untouched
      BY <1>1, <3>3, VerdictIs DEF Contract!Untouched, Absent
    <3>5. Contract!TakeEffect(x)
      BY <1>2, <2>3, <2>4, <3>4 DEF Contract!TakeEffect
    <3> QED
      BY <2>4, <3>5 DEF Contract!Next
  <2>5. CASE x # Legacy
    <3>1. x \in Attempts
      BY <1>1, <2>5, Numbers
    <3>2. x <= count
      <4>1. ext[x].phase # "unsent" \/ x \in running
        BY <2>1 DEF CanStillLand
      <4> QED
        BY <1>1, <3>1, <4>1, Numbers
        DEF SettlementInv, OnlyNewestIsOpen, BatchesMatch, OwnBatch, RunningRow
    <3>3. IsOpen(x)
      BY <2>1, <3>1, <3>2 DEF SettlementInv, ClosedSettled, Settled
    <3>4. Contract!TakeEffect(x)
      BY <1>1, <1>2, <2>3, <2>5, <3>1, <3>3, VerdictIs DEF Contract!TakeEffect
    <3> QED
      BY <3>1, <3>4 DEF Contract!Next
  <2> QED
    BY <2>4, <2>5
<1> QED
  BY <1>6, <1>7

\* A new row opens an attempt or records one that failed before it was prepared.
LEMMA RecordBegins ==
    ASSUME SettlementInv, Recorded
    PROVE  Contract!Next
<1>1. LedgerInv /\ TypeOK /\ ext' = ext /\ pc = "planned" /\ count \in Nat
  BY Numbers DEF SettlementInv, LedgerInv, Recorded, PrepareIntent, AbandonPlan
<1>2. PICK n \in Attempts : n = count' /\ n = count + 1
  BY <1>1, RecordsNextRow DEF Recorded
<1>3. PICK batch \in BatchRecord :
        /\ Rewritten(n, batch)
        /\ batch.state = IF pc' = "calling" THEN "prepared" ELSE "failed"
  BY <1>1, <1>2, RecordsNextRow DEF Recorded
<1>4. ledger'[n] = batch /\ \A a \in Attempts : a # n => ledger'[a] = ledger[a]
  BY <1>1, <1>3 DEF Rewritten, TypeOK
<1>5. Contract!SingleFlight
  <2>1. \A a \in Attempts : ~IsOpen(a)
    BY <1>1 DEF SettlementInv, FencePassed, OpenConfirmation
  <2> QED
    BY <1>1, <2>1, VerdictIs DEF Contract!SingleFlight
<1>6. verdicts[n] = "none"
  <2>1. ledger[n] = Absent
    BY <1>1, <1>2 DEF LedgerInv, NotRecordedYet
  <2> QED
    BY <1>1, <2>1, VerdictIs DEF Absent
<1>7. \A b \in Attempts : b < n => verdicts[b] # "none"
  <2> SUFFICES ASSUME NEW b \in Attempts, b < n PROVE ledger[b].state # "absent"
    BY <1>1, VerdictIs
  <2>1. ~(b > count)
    BY <1>1, <1>2, Numbers
  <2> QED
    BY <2>1 DEF SettlementInv, OnlyNewestIsOpen
<1>8. effects' = effects
  BY <1>1, EffectsKept
<1>9. CASE pc' = "calling"
  <2>1. Verdict(n)' = "open"
    BY <1>3, <1>4, <1>9 DEF Verdict, IsOpen, OpenStates
  <2>2. verdicts' = [verdicts EXCEPT ![n] = "open"]
    BY <1>4, <2>1, VerdictSet
  <2>3. Contract!Begin(n)
    BY <1>5, <1>6, <1>7, <1>8, <2>2 DEF Contract!Begin
  <2> QED
    BY <2>3 DEF Contract!Next
<1>10. CASE pc' # "calling"
  <2>1. Verdict(n)' = "failed"
    BY <1>3, <1>4, <1>10 DEF Verdict, IsOpen, OpenStates
  <2>2. verdicts' = [verdicts EXCEPT ![n] = "failed"]
    BY <1>4, <2>1, VerdictSet
  <2>3. Contract!BeginFailed(n)
    BY <1>5, <1>6, <1>7, <1>8, <2>2 DEF Contract!BeginFailed
  <2> QED
    BY <2>3 DEF Contract!Next
<1> QED
  BY <1>9, <1>10

\* A batch is failed only when its call was refused before anything was signed.
LEMMA FailedIsUnsent ==
    ASSUME LedgerInv, SdkReturns, NEW n \in Attempts, n = count, ledger'[n].state = "failed"
    PROVE  ext[n].phase = "unsent"
<1>1. TypeOK /\ ledger[n].state = "prepared" /\ ledger \in [Attempts -> BatchRecord]
  BY SdkReturnsWrites DEF LedgerInv, TypeOK, BatchRecord
<1>2. ASSUME NEW state \in {"submitted", "ambiguous"}, NEW mode, NEW commitment,
             Transition(n, state, mode, commitment)
      PROVE  FALSE
  <2>1. PICK sampled \in BOOLEAN, revealSampled \in BOOLEAN, written \in BOOLEAN :
          ledger' = IF written /\ ledger[n].state = "prepared"
                    THEN [ledger EXCEPT ![n] =
                            TransitionedBatch(n, state, mode, commitment,
                                              sampled, revealSampled)]
                    ELSE ledger
    BY <1>2 DEF Transition
  <2>2. ledger'[n] = TransitionedBatch(n, state, mode, commitment, sampled, revealSampled)
        \/ ledger'[n] = ledger[n]
    BY <1>1, <2>1
  <2>3. TransitionedBatch(n, state, mode, commitment, sampled, revealSampled).state = state
    BY <1>1 DEF TransitionedBatch, BatchRecord
  <2> QED
    BY <1>1, <2>2, <2>3
<1>3. CASE SdkRefuses
  BY <1>3 DEF SdkRefuses
<1>4. CASE SdkAccepts
  BY <1>2, <1>4 DEF SdkAccepts
<1>5. CASE SdkOutcomeUnknown
  BY <1>2, <1>5 DEF SdkOutcomeUnknown, UnknownOutcome
<1>6. CASE SdkNeedsRestart
  BY <1>1, <1>6 DEF SdkNeedsRestart
<1> QED
  BY <1>3, <1>4, <1>5, <1>6 DEF SdkReturns

LEMMA ReturnDecides ==
    ASSUME SettlementInv, SdkReturns
    PROVE  [Contract!Next]_(Contract!vars)
<1>1. PICK n \in Attempts : n = count
  BY SdkReturnsWrites DEF SettlementInv
<1>2. /\ LedgerInv /\ TypeOK /\ ext' = ext /\ ledger[n].state = "prepared"
  BY <1>1, SdkReturnsWrites, SdkReturnsKeep DEF SettlementInv, LedgerInv, Quiet
<1>3. effects' = effects
  BY <1>2, EffectsKept
<1>4. CASE ledger' = ledger
  <2>1. verdicts' = verdicts
    BY <1>4, VerdictsKept
  <2> QED
    BY <1>3, <2>1 DEF Contract!vars
<1>5. CASE ledger' # ledger
  <2>1. PICK batch \in BatchRecord :
          Rewritten(n, batch) /\ batch.state \in {"submitted", "ambiguous", "failed"}
    BY <1>1, <1>2, <1>5, SdkReturnsWrites
  <2>2. ledger'[n] = batch /\ \A a \in Attempts : a # n => ledger'[a] = ledger[a]
    BY <1>2, <2>1 DEF Rewritten, TypeOK
  <2>3. CASE batch.state # "failed"
    <3>1. Verdict(n)' = Verdict(n)
      BY <1>2, <2>1, <2>2, <2>3 DEF Verdict, IsOpen, OpenStates
    <3>2. verdicts' = verdicts
      BY <2>2, <3>1, VerdictsKept
    <3> QED
      BY <1>3, <3>2 DEF Contract!vars
  <2>4. CASE batch.state = "failed"
    <3>1. ext[n].phase = "unsent"
      BY <1>1, <1>2, <2>2, <2>4, FailedIsUnsent
    <3>2. n \notin effects
      BY <3>1 DEF effects
    <3>3. Verdict(n)' = "failed"
      BY <2>2, <2>4 DEF Verdict, IsOpen, OpenStates
    <3>4. verdicts' = [verdicts EXCEPT ![n] = "failed"]
      BY <2>2, <3>3, VerdictSet
    <3>5. verdicts[n] = "open"
      BY <1>2, VerdictIs DEF IsOpen, OpenStates
    <3>6. Contract!Decide(n, "failed")
      BY <1>3, <3>2, <3>4, <3>5 DEF Contract!Decide
    <3> QED
      BY <3>6 DEF Contract!Next
  <2> QED
    BY <2>3, <2>4
<1> QED
  BY <1>4, <1>5

\* A pass confirms what took effect and gives up the rest.
LEMMA ResolveDecides ==
    ASSUME SettlementInv, ResolveConfirmations
    PROVE  [Contract!Next]_(Contract!vars)
<1>1. /\ TypeOK /\ pc = "resolving" /\ ext' = ext
      /\ \A a \in Attempts : ledger'[a] = IF IsOpen(a) THEN Resolution(a) ELSE ledger[a]
  BY DEF SettlementInv, LedgerInv, ResolveConfirmations
<1>2. effects' = effects
  BY <1>1, EffectsKept
<1>3. CASE \A a \in Attempts : ledger'[a].state = ledger[a].state
  <2>1. verdicts' = verdicts
    BY <1>3, VerdictsKept
  <2> QED
    BY <1>2, <2>1 DEF Contract!vars
<1>4. ASSUME NEW n \in Attempts, ledger'[n].state # ledger[n].state
      PROVE  Contract!Next
  <2>1. IsOpen(n) /\ ledger'[n] = Resolution(n)
    BY <1>1, <1>4
  <2>2. \A a \in Attempts : a # n => ledger'[a].state = ledger[a].state
    BY <1>1, <2>1 DEF SettlementInv, OnlyNewestIsOpen
  <2> DEFINE v == ledger'[n].state
  <2>3. v \in {"confirmed", "unconfirmed"}
    BY <1>1, <1>4, <2>1, ResolutionType
  <2>4. v = "confirmed" => ext[n].phase = "applied"
    BY <1>1, <2>1, DecidedIsSettled
  <2>5. v = "confirmed" => n \in effects
    <3>1. n \in Extrinsics
      BY <1>1, Numbers
    <3> QED
      BY <2>4, <3>1 DEF effects
  <2>6. Verdict(n)' = v
    BY <2>3 DEF Verdict, IsOpen, OpenStates
  <2>7. verdicts' = [verdicts EXCEPT ![n] = v]
    BY <2>2, <2>6, VerdictSet
  <2>8. verdicts[n] = "open"
    BY <1>1, <2>1, VerdictIs
  <2> HIDE DEF v
  <2>9. Contract!Decide(n, v)
    BY <1>2, <2>3, <2>5, <2>7, <2>8 DEF Contract!Decide
  <2> QED
    BY <2>3, <2>9 DEF Contract!Next
<1> QED
  BY <1>3, <1>4

\* Every other step is a stutter of the contract.
LEMMA ContractStutters ==
    ASSUME TypeOK, CheckpointIsRecorded,
           \/ UNCHANGED vars \/ ToggleCommitReveal \/ Reregister \/ RecordStartupFence
           \/ PlanEmission \/ (AbandonPlan /\ count' = count) \/ SyncMetagraph
           \/ AdvanceCursor \/ ReconciliationFails \/ CrashAndRestart
    PROVE  UNCHANGED Contract!vars
<1> USE DEF dbVars
<1>1. ext' = ext
  BY DEF vars, ToggleCommitReveal, Reregister, RecordStartupFence, PlanEmission, AbandonPlan,
         SyncMetagraph, AdvanceCursor, ReconciliationFails, CrashAndRestart
<1>2. \A a \in Attempts : ledger'[a].state = ledger[a].state
  <2>1. CASE AdvanceCursor
    <3>1. PICK n \in Attempts : n = scanned.batch
      BY <2>1 DEF AdvanceCursor, CheckpointIsRecorded
    <3>2. ledger' = ledger
          \/ ledger' = [ledger EXCEPT ![n].cursor = Larger(@, scanned.end)]
      BY <2>1, <3>1 DEF AdvanceCursor
    <3>3. ledger \in [Attempts -> BatchRecord]
      BY DEF TypeOK, BatchRecord
    <3> QED
      BY <3>2, <3>3 DEF BatchRecord
  <2>2. CASE ~AdvanceCursor
    <3>1. count \in Int
      BY Numbers
    <3> QED
      BY <2>2, <3>1
      DEF vars, ToggleCommitReveal, Reregister, RecordStartupFence, PlanEmission, AbandonPlan,
          SyncMetagraph, ReconciliationFails, CrashAndRestart
  <2> QED
    BY <2>1, <2>2
<1> QED
  BY <1>1, <1>2, VerdictsKept, EffectsKept DEF Contract!vars

LEMMA SignStutters ==
    ASSUME SettlementInv, NEW n \in Attempts, Sign(n)
    PROVE  UNCHANGED Contract!vars
<1>1. /\ TypeOK /\ ledger' = ledger /\ ext[n].phase = "unsent" /\ n \in Extrinsics
      /\ ext' = [ext EXCEPT ![n] = [Unsent EXCEPT
                   !.phase = "pool", !.vec = ledger[n].vec, !.signed = head,
                   !.mode = IF commitReveal THEN "cr4" ELSE "direct"]]
  BY Numbers
  DEF SettlementInv, LedgerInv, BatchesMatch, OwnBatch, RunningRow, Sign, dbVars
<1>2. \A x \in Extrinsics : ext'[x].phase = "applied" <=> ext[x].phase = "applied"
  BY <1>1 DEF TypeOK, Unsent
<1>3. effects' = effects
  BY <1>2 DEF effects
<1>4. verdicts' = verdicts
  BY <1>1, VerdictsKept
<1> QED
  BY <1>3, <1>4 DEF Contract!vars

\* Durable weight emission keeps its contract: attempts are opened one at a time, take
\* effect only while they are open, and are confirmed only when they took effect,
\* whatever crashes, late threads, lost answers, switches of the commit-reveal mode and
\* re-registrations come in between (_emit_weight_candidate, _resolve_weight_confirmations).
THEOREM EmissionKeepsContract == Spec => KeepsContract
<1>1. SettlementInv /\ [Next]_vars => [Contract!Next]_(Contract!vars)
  <2> SUFFICES ASSUME SettlementInv, [Next]_vars PROVE [Contract!Next]_(Contract!vars)
    OBVIOUS
  <2>1. CASE NewBlock
    BY <2>1, BlockTakesEffect
  <2>2. CASE PrepareIntent \/ (AbandonPlan /\ count' # count)
    BY <2>2, RecordBegins DEF Recorded
  <2>3. CASE SdkReturns
    BY <2>3, ReturnDecides
  <2>4. CASE ResolveConfirmations
    BY <2>4, ResolveDecides
  <2>5. ASSUME NEW a \in Attempts, Sign(a) PROVE UNCHANGED Contract!vars
    BY <2>5, SignStutters
  <2>6. CASE \/ UNCHANGED vars \/ ToggleCommitReveal \/ Reregister \/ RecordStartupFence
             \/ PlanEmission \/ (AbandonPlan /\ count' = count) \/ SyncMetagraph
             \/ AdvanceCursor \/ ReconciliationFails \/ CrashAndRestart
    BY <2>6, ContractStutters DEF SettlementInv, LedgerInv
  <2> QED
    BY <2>1, <2>2, <2>3, <2>4, <2>5, <2>6 DEF Next, Chain, Validator
<1> QED
  BY <1>1, ContractInit, SettlementInvariant, PTL DEF Spec, KeepsContract, Contract!Spec
=============================================================================
