------------------------------ MODULE MinerPush ------------------------------
(***************************************************************************)
(* A miner's round service (protocol/miner_service.py) and its push to the *)
(* validators (neurons/miner.py): a round's bundle is assembled and        *)
(* written to the state file, its commit is pushed in the commit window to *)
(* every validator that has not acknowledged it, its reveal in the reveal  *)
(* window.  Requests and answers may be late or lost, the miner may die    *)
(* between any two steps, a write of the state file may fail and the file  *)
(* may be found corrupt.  A bundle with its nonce is a number, fresh for   *)
(* each assembly.  What a validator does is the part of handle_commit and  *)
(* handle_reveal a miner sees; RoundLifecycle models them in full.         *)
(***************************************************************************)
EXTENDS Naturals, FiniteSets

CONSTANTS
    Peers,          \* hotkeys of the metagraph the miner may push to
    Views,          \* what a metagraph may say of who serves, permits and stake
    Strangers,      \* those whose axon serves no submission synapse
    LastRound,      \* bound: the rounds played
    KeepRounds,     \* _MAX_TRACKED_ROUNDS
    MaxAssemblies,  \* bound: assemblies
    MaxFaults       \* bound: crashes, failed writes and corruptions

ASSUME PeersAssumption == Strangers \subseteq Peers /\ Peers \in Views /\ Views \subseteq SUBSET Peers
ASSUME BoundsAssumption ==
    /\ LastRound \in Nat \ {0} /\ KeepRounds \in Nat \ {0}
    /\ MaxAssemblies \in Nat /\ MaxFaults \in Nat

VARIABLES
    window,      \* round and phase of the active window
    eligible,    \* serving permit holders above the stake floor, as last synced
    up,          \* the process runs
    memory,      \* the service's rounds, acknowledgements and exclusions
    tick,        \* what the push loop is doing
    disk,        \* the state file, one entry per round
    wire,        \* requests under way, bounded to the latest one to each peer
    answers,     \* what has come back to the send in progress
    held,        \* held[v][r]: bundle of the commit v accepted, or 0
    shown,       \* shown[v]: rounds whose reveal v accepted
    assemblies,  \* number of bundles assembled so far
    faults,      \* number of faults so far
    writeFailed, \* history: an assembly could not be written
    fileLost     \* history: the state file was found corrupt

miner == <<up, memory, tick, disk>>
net == <<wire, answers, held, shown>>
bounds == <<assemblies, faults, writeFailed, fileLost>>
vars == <<window, eligible, miner, net, bounds>>

Rounds == 1 .. LastRound
Kinds == {"commit", "reveal"}   \* of requests, and phases of a window
Bundles == 0 .. MaxAssemblies
NoEntry == [bundle |-> 0, committed |-> FALSE, revealed |-> FALSE]
EmptyFile == [r \in Rounds |-> NoEntry]
NoSend == [kind |-> "idle", round |-> 0, bundle |-> 0, targets |-> {}]

\* Acknowledgements and exclusions live and die with the process.
MemoryOf(file) ==
    [file |-> file, missed |-> {}, unknown |-> [r \in Rounds |-> {}],
     acked |-> [r \in Rounds |-> [k \in Kinds |-> {}]]]

TypeOK ==
    /\ window \in [round : Rounds, phase : Kinds]
    /\ eligible \subseteq Peers /\ up \in BOOLEAN
    /\ LET File == [Rounds -> [bundle : Bundles, committed : BOOLEAN, revealed : BOOLEAN]]
       IN /\ disk \in [corrupt : BOOLEAN, file : File]
          /\ memory \in [file : File, missed : SUBSET Rounds,
                         unknown : [Rounds -> SUBSET Peers],
                         acked : [Rounds -> [Kinds -> SUBSET Peers]]]
    /\ tick \in [kind : {"idle", "assembled", "commit", "reveal"}, round : 0 .. LastRound,
                 bundle : Bundles, targets : SUBSET Peers]
    /\ wire \subseteq [to : Peers, kind : Kinds, round : Rounds, bundle : Bundles]
    /\ answers \in [{"accepted", "unknown"} -> SUBSET Peers]
    /\ held \in [Peers -> [Rounds -> Bundles]]
    /\ shown \in [Peers -> SUBSET Rounds]
    /\ assemblies \in Bundles /\ faults \in 0 .. MaxFaults
    /\ writeFailed \in BOOLEAN /\ fileLost \in BOOLEAN

NoAnswers == [a \in {"accepted", "unknown"} |-> {}]

Init ==
    /\ window = [round |-> 1, phase |-> "commit"]
    /\ eligible = Peers /\ up = TRUE
    /\ memory = MemoryOf(EmptyFile) /\ tick = NoSend
    /\ disk = [corrupt |-> FALSE, file |-> EmptyFile]
    /\ wire = {} /\ answers = NoAnswers
    /\ held = [v \in Peers |-> [r \in Rounds |-> 0]]
    /\ shown = [v \in Peers |-> {}]
    /\ assemblies = 0 /\ faults = 0 /\ writeFailed = FALSE /\ fileLost = FALSE

-----------------------------------------------------------------------------
(* The state file.                                                         *)

\* Mutant: the slice is taken from the wrong end.
NewestOldest(file) ==
    LET known == {r \in Rounds : file[r].bundle # 0}
        kept == {r \in known : Cardinality({s \in known : s < r}) < KeepRounds}
    IN [r \in Rounds |-> IF r \in kept THEN file[r] ELSE NoEntry]

\* The newest KeepRounds rounds that have an entry.
Newest(file) ==
    LET known == {r \in Rounds : file[r].bundle # 0}
        kept == {r \in known : Cardinality({s \in known : s > r}) < KeepRounds}
    IN [r \in Rounds |-> IF r \in kept THEN file[r] ELSE NoEntry]

\* _persist_state replaces the file as a whole, or raises and leaves it alone.
Persist(file) ==
    \/ disk' = [corrupt |-> FALSE, file |-> Newest(file)] /\ UNCHANGED faults
    \/ /\ faults < MaxFaults /\ faults' = faults + 1
       /\ UNCHANGED disk

\* _load_state: a file that cannot be read is set aside.
Loaded == IF disk.corrupt THEN EmptyFile ELSE Newest(disk.file)

-----------------------------------------------------------------------------
(* The push loop.                                                          *)

Ready(phase) == up /\ tick = NoSend /\ window.phase = phase

\* The bundle is remembered first and written next: when the write fails the
\* tick does, and the next one finds the bundle in memory.
Assemble ==
    LET r == window.round
        file == [memory.file EXCEPT ![r].bundle = assemblies + 1]
    IN
    /\ Ready("commit") /\ memory.file[r].bundle = 0
    /\ assemblies < MaxAssemblies
    /\ assemblies' = assemblies + 1
    /\ memory' = [memory EXCEPT !.file = file]
    /\ Persist(file)
    /\ IF faults' = faults
       THEN tick' = [NoSend EXCEPT !.kind = "assembled", !.round = r] /\ UNCHANGED writeFailed
       ELSE writeFailed' = TRUE /\ UNCHANGED tick
    /\ UNCHANGED <<window, eligible, up, net, fileLost>>

\* _snapshot_push_targets: whoever may take it and has not.
Targets(kind, r) == eligible \ (memory.acked[r][kind] \cup memory.unknown[r])

\* The flag a tick sets once some validator has accepted.
Flagged(file, kind, r) ==
    IF kind = "commit" THEN [file EXCEPT ![r].committed = TRUE]
                       ELSE [file EXCEPT ![r].revealed = TRUE]

\* Mutant: the flag is raised for a push, not for an acceptance.
AcceptedOnPush(acked) == TRUE

\* accepted >= 1
Accepted(acked) == acked # {}

\* The end of a tick whose send returned these acknowledgements.
Settle(kind, r, acked) ==
    LET file == Flagged(memory.file, kind, r) IN
    IF Accepted(acked) /\ file # memory.file
    THEN /\ memory' = [memory EXCEPT !.file = file, !.acked[r][kind] = acked,
                         !.unknown[r] = @ \cup answers["unknown"]]
         /\ Persist(file)
    ELSE /\ memory' = [memory EXCEPT !.acked[r][kind] = acked,
                         !.unknown[r] = @ \cup answers["unknown"]]
         /\ UNCHANGED <<disk, faults>>

\* The dendrite sends to all targets at once; with none the send is a no-op that
\* returns what is acknowledged already.
Push(kind, r) ==
    LET targets == Targets(kind, r)
        bundle == memory.file[r].bundle
    IN IF targets # {}
       THEN /\ tick' = [kind |-> kind, round |-> r, bundle |-> bundle, targets |-> targets]
            /\ wire' = {m \in wire : m.to \notin targets}
                       \cup [to : targets, kind : {kind}, round : {r}, bundle : {bundle}]
            /\ UNCHANGED <<memory, disk, faults>>
       ELSE /\ tick' = NoSend
            /\ Settle(kind, r, memory.acked[r][kind])
            /\ UNCHANGED wire

\* _tick_commit with a bundle at hand; the window it read may have closed.
PushCommit ==
    /\ up
    /\ \/ tick.kind = "assembled" /\ Push("commit", tick.round)
       \/ Ready("commit") /\ memory.file[window.round].bundle # 0
          /\ Push("commit", window.round)
    /\ UNCHANGED <<window, eligible, up, answers, held, shown, assemblies,
                   writeFailed, fileLost>>

\* _tick_reveal: a round no validator committed to is given up.
PushReveal ==
    LET r == window.round IN
    /\ Ready("reveal")
    /\ IF memory.file[r].committed
       THEN Push("reveal", r)
       ELSE /\ r \notin memory.missed
            /\ memory' = [memory EXCEPT !.missed = @ \cup {r}]
            /\ UNCHANGED <<disk, faults, tick, wire>>
    /\ UNCHANGED <<window, eligible, up, answers, held, shown, assemblies,
                   writeFailed, fileLost>>

\* Mutant: every verdict is an acknowledgement.
AcknowledgedAny == answers["accepted"] \cup answers["unknown"]

Acknowledged == answers["accepted"]

\* The answers are in, or twelve seconds have passed: who has not answered counts
\* as not reached.
EndSend ==
    /\ up /\ tick.kind \in Kinds
    /\ Settle(tick.kind, tick.round,
              memory.acked[tick.round][tick.kind] \cup Acknowledged)
    /\ tick' = NoSend /\ answers' = NoAnswers
    /\ UNCHANGED <<window, eligible, up, wire, held, shown, assemblies,
                   writeFailed, fileLost>>

-----------------------------------------------------------------------------
(* Validators, network, time and faults.                                   *)

\* handle_commit: in the window, where the latest commit stands.
TakesCommit(m) == window = [round |-> m.round, phase |-> "commit"]

\* handle_reveal: in the window, and of the bundle committed to.
TakesReveal(m) ==
    /\ window = [round |-> m.round, phase |-> "reveal"]
    /\ held[m.to][m.round] = m.bundle

\* The send in progress is the one this request belongs to.
Awaited(m) ==
    /\ up /\ m.kind = tick.kind /\ m.round = tick.round
    /\ m.bundle = tick.bundle /\ m.to \in tick.targets

\* A peer handles a request, at any time after the push or never; its answer is
\* lost unless it is still awaited, and may be lost even then.
Handle(m) ==
    LET accepts == /\ m.to \notin Strangers
                   /\ IF m.kind = "commit" THEN TakesCommit(m) ELSE TakesReveal(m)
        verdict == IF m.to \in Strangers THEN "unknown" ELSE "accepted"
    IN
    /\ wire' = wire \ {m}
    /\ held' = IF accepts /\ m.kind = "commit"
               THEN [held EXCEPT ![m.to][m.round] = m.bundle] ELSE held
    /\ shown' = IF accepts /\ m.kind = "reveal"
                THEN [shown EXCEPT ![m.to] = @ \cup {m.round}] ELSE shown
    /\ \/ UNCHANGED answers
       \/ /\ Awaited(m) /\ (accepts \/ m.to \in Strangers)
          /\ answers' = [answers EXCEPT ![verdict] = @ \cup {m.to}]
    /\ UNCHANGED <<window, eligible, miner, bounds>>

\* The base loop resyncs the metagraph under its lock.
Resync ==
    /\ up
    /\ eligible' \in Views
    /\ UNCHANGED <<window, miner, net, bounds>>

NextPhase ==
    /\ window' = IF window.phase = "commit" THEN [window EXCEPT !.phase = "reveal"]
                 ELSE [round |-> window.round + 1, phase |-> "commit"]
    /\ window'.round <= LastRound
    /\ UNCHANGED <<eligible, miner, net, bounds>>

Crash ==
    /\ up /\ faults < MaxFaults
    /\ up' = FALSE /\ faults' = faults + 1
    /\ memory' = MemoryOf(EmptyFile) /\ tick' = NoSend /\ answers' = NoAnswers
    /\ UNCHANGED <<window, eligible, disk, wire, held, shown, assemblies,
                   writeFailed, fileLost>>

Corrupt ==
    /\ ~up /\ ~disk.corrupt /\ faults < MaxFaults
    /\ disk' = [disk EXCEPT !.corrupt = TRUE]
    /\ faults' = faults + 1 /\ fileLost' = TRUE
    /\ UNCHANGED <<window, eligible, up, memory, tick, net, assemblies, writeFailed>>

Restart ==
    /\ ~up /\ up' = TRUE
    /\ memory' = MemoryOf(Loaded)
    /\ disk' = IF disk.corrupt THEN [corrupt |-> FALSE, file |-> EmptyFile] ELSE disk
    /\ UNCHANGED <<window, eligible, tick, net, bounds>>

Next ==
    \/ Assemble \/ PushCommit \/ PushReveal \/ EndSend
    \/ \E m \in wire : Handle(m)
    \/ Resync \/ NextPhase \/ Crash \/ Corrupt \/ Restart

Spec == Init /\ [][Next]_vars

-----------------------------------------------------------------------------
(* Properties                                                              *)

\* A reveal discloses a forecast, so the miner sends one only for a bundle some
\* validator holds the commit of: through crashes, failed writes, late answers and
\* a lost state file, a round's committed flag never outlives its bundle.
RevealsAreCommitted ==
    \A m \in wire : m.kind = "reveal" =>
        \E v \in Peers : held[v][m.round] = m.bundle

\* A validator the miner stops pushing to does hold what the miner would push.
AckedHold ==
    \A r \in Rounds :
        /\ \A v \in memory.acked[r]["commit"] :
             held[v][r] = memory.file[r].bundle /\ held[v][r] # 0
        /\ \A v \in memory.acked[r]["reveal"] : r \in shown[v]

\* "The nonce must be durable BEFORE any send": whatever is under way or accepted
\* as a commit of the current round can be revealed after any restart, unless the
\* file itself was lost.
NonceDurableBeforeSend ==
    LET r == window.round
        sent == {m.bundle : m \in {n \in wire : n.round = r}} \cup {held[v][r] : v \in Peers}
    IN fileLost \/ sent \subseteq {0, disk.file[r].bundle}

\* The same, as long as no write of an assembly failed.
DurableUnlessWriteFailed == writeFailed \/ NonceDurableBeforeSend
=============================================================================
