--------------------------- MODULE MinerPushProofs ---------------------------
(***************************************************************************)
(* Theorems about MinerPush for any peers, any metagraph, any number of    *)
(* rounds, assemblies and faults, and any number of rounds kept on disk.   *)
(***************************************************************************)
EXTENDS MinerPush, FiniteSetTheorems, TLAPS

Entry == [bundle : Bundles, committed : BOOLEAN, revealed : BOOLEAN]
File == [Rounds -> Entry]
Memory == [file : File, missed : SUBSET Rounds, unknown : [Rounds -> SUBSET Peers],
           acked : [Rounds -> [Kinds -> SUBSET Peers]]]
Disk == [corrupt : BOOLEAN, file : File]
Send == [kind : {"idle", "assembled", "commit", "reveal"}, round : 0 .. LastRound,
         bundle : Bundles, targets : SUBSET Peers]
Request == [to : Peers, kind : Kinds, round : Rounds, bundle : Bundles]

-----------------------------------------------------------------------------
(***************************************************************************)
(* The inductive invariant.                                                *)
(***************************************************************************)
\* Nothing under way or held is of a round to come or of a bundle to come, and a
\* reveal is under way only once the commit window of its round has closed.
OneRequestEach == \A m, n \in wire : m.to = n.to => m = n
RequestsArePast ==
    \A m \in wire :
      /\ m.round <= window.round /\ m.bundle \in 1 .. assemblies
      /\ m.kind = "reveal" => m.round < window.round \/ window.phase = "reveal"
HeldArePast ==
    \A v \in Peers, r \in Rounds :
      /\ held[v][r] \in 0 .. assemblies
      /\ held[v][r] # 0 => r <= window.round

\* What a file says of a round: it has begun; the committed flag stands for a
\* validator that holds this bundle; and no older commit can still displace it.
SoundEntry(e, r) ==
    /\ e.bundle # 0 => r <= window.round /\ e.bundle <= assemblies
    /\ e.committed => e.bundle # 0 /\ \E v \in Peers : held[v][r] = e.bundle
    /\ e.bundle # 0 =>
         \A m \in wire : m.kind = "commit" /\ m.round = r /\ held[m.to][r] = e.bundle
                           => m.bundle = e.bundle
EntriesAreSound ==
    \A r \in Rounds :
      /\ SoundEntry(memory.file[r], r)
      /\ ~disk.corrupt => SoundEntry(disk.file[r], r)

\* While the process runs, its state file says nothing else than its memory; it
\* never lists more than the newest rounds.
MemoryIsFirst ==
    /\ up => /\ ~disk.corrupt
             /\ \A r \in Rounds : disk.file[r].bundle \in {0, memory.file[r].bundle}
    /\ ~up => memory = MemoryOf(EmptyFile) /\ tick = NoSend
    /\ disk.corrupt => fileLost
    /\ Newest(disk.file) = disk.file

\* A send is of the bundle its round has in memory, and who accepted it holds it.
SendIsBound ==
    /\ tick.kind # "idle" => tick.round \in Rounds /\ memory.file[tick.round].bundle # 0
    /\ tick.kind \in Kinds => tick.bundle = memory.file[tick.round].bundle
    /\ tick.kind \notin Kinds => answers = NoAnswers
    /\ tick.kind = "idle" => tick = NoSend
AnswersHold ==
    /\ tick.kind = "commit" =>
         \A v \in answers["accepted"] : held[v][tick.round] = tick.bundle
    /\ tick.kind = "reveal" =>
         \A v \in answers["accepted"] : tick.round \in shown[v]

\* The bundle of the current round is on disk as it is in memory.
CurrentIsDurable ==
    up /\ ~writeFailed /\ ~fileLost =>
      disk.file[window.round].bundle = memory.file[window.round].bundle

MinerInv ==
    /\ TypeOK
    /\ OneRequestEach /\ RequestsArePast /\ HeldArePast /\ EntriesAreSound
    /\ MemoryIsFirst /\ SendIsBound /\ AnswersHold /\ CurrentIsDurable
    /\ RevealsAreCommitted /\ AckedHold /\ DurableUnlessWriteFailed

-----------------------------------------------------------------------------
(***************************************************************************)
(* Types.                                                                  *)
(***************************************************************************)
LEMMA MinerTypes ==
    ASSUME TypeOK
    PROVE  /\ memory \in Memory /\ disk \in Disk /\ tick \in Send /\ wire \subseteq Request
           /\ memory.file \in File /\ disk.file \in File /\ disk.corrupt \in BOOLEAN
           /\ \A r \in Rounds : /\ memory.file[r] \in Entry /\ disk.file[r] \in Entry
                                /\ \A k \in Kinds : memory.acked[r][k] \subseteq Peers
           /\ memory.acked \in [Rounds -> [Kinds -> SUBSET Peers]]
           /\ memory.unknown \in [Rounds -> SUBSET Peers]
           /\ window.round \in Rounds /\ window.phase \in Kinds
           /\ assemblies \in Bundles
<1>1. /\ memory \in Memory /\ disk \in Disk /\ tick \in Send /\ wire \subseteq Request
      /\ window \in [round : Rounds, phase : Kinds] /\ assemblies \in Bundles
  BY DEF TypeOK, Memory, Disk, Send, Request, File, Entry
<1>2. /\ memory.file \in File /\ memory.acked \in [Rounds -> [Kinds -> SUBSET Peers]]
      /\ memory.unknown \in [Rounds -> SUBSET Peers]
  BY <1>1 DEF Memory
<1>3. disk.file \in File /\ disk.corrupt \in BOOLEAN
  BY <1>1 DEF Disk
<1>4. \A r \in Rounds : memory.file[r] \in Entry /\ disk.file[r] \in Entry
  BY <1>2, <1>3 DEF File
<1>5. \A r \in Rounds, k \in Kinds : memory.acked[r][k] \subseteq Peers
  BY <1>2
<1>6. window.round \in Rounds /\ window.phase \in Kinds
  BY <1>1
<1> QED
  BY <1>1, <1>2, <1>3, <1>4, <1>5, <1>6

\* The same, from its parts.
LEMMA TypeFromParts ==
    ASSUME window \in [round : Rounds, phase : Kinds], eligible \subseteq Peers, up \in BOOLEAN,
           memory \in Memory, disk \in Disk, tick \in Send, wire \subseteq Request,
           answers \in [{"accepted", "unknown"} -> SUBSET Peers],
           held \in [Peers -> [Rounds -> Bundles]], shown \in [Peers -> SUBSET Rounds],
           assemblies \in Bundles, faults \in 0 .. MaxFaults,
           writeFailed \in BOOLEAN, fileLost \in BOOLEAN
    PROVE  TypeOK
  BY DEF TypeOK, Memory, Disk, Send, Request, File, Entry

LEMMA Entries ==
    /\ NoEntry \in Entry /\ NoEntry.bundle = 0 /\ ~NoEntry.committed
    /\ \A e \in Entry : e.bundle \in Bundles /\ e.committed \in BOOLEAN
    /\ EmptyFile \in File
    /\ NoSend \in Send /\ NoSend.kind = "idle"
    /\ NoAnswers \in [{"accepted", "unknown"} -> SUBSET Peers] /\ NoAnswers["accepted"] = {}
    /\ \A r \in Rounds : SoundEntry(NoEntry, r)
<1> USE BoundsAssumption
<1>1. NoEntry \in Entry /\ NoEntry.bundle = 0 /\ ~NoEntry.committed
  BY DEF NoEntry, Entry, Bundles
<1>2. \A e \in Entry : e.bundle \in Bundles /\ e.committed \in BOOLEAN
  BY DEF Entry
<1>3. EmptyFile \in File
  BY <1>1 DEF EmptyFile, File
<1>4. NoSend \in Send /\ NoSend.kind = "idle"
  BY DEF NoSend, Send, Bundles
<1>5. NoAnswers \in [{"accepted", "unknown"} -> SUBSET Peers] /\ NoAnswers["accepted"] = {}
  BY DEF NoAnswers
<1>6. \A r \in Rounds : SoundEntry(NoEntry, r)
  BY <1>1 DEF SoundEntry
<1> QED
  BY <1>1, <1>2, <1>3, <1>4, <1>5, <1>6

\* What is kept of a file is what it says or nothing.
LEMMA NewestKeeps ==
    ASSUME NEW file \in File
    PROVE  /\ Newest(file) \in File
           /\ \A r \in Rounds : Newest(file)[r] \in {file[r], NoEntry}
<1>1. \A r \in Rounds : Newest(file)[r] \in {file[r], NoEntry}
  BY DEF Newest
<1>2. Newest(file) \in File
  BY Entries DEF Newest, File
<1> QED
  BY <1>1, <1>2

\* The latest round is among the KeepRounds newest.
LEMMA LatestIsKept ==
    ASSUME NEW file \in File, NEW r \in Rounds,
           \A s \in Rounds : file[s].bundle # 0 => s <= r
    PROVE  Newest(file)[r].bundle = file[r].bundle
<1> DEFINE known == {s \in Rounds : file[s].bundle # 0}
           kept == {t \in known : Cardinality({s \in known : s > t}) < KeepRounds}
<1>1. CASE file[r].bundle = 0
  <2>1. Newest(file)[r] \in {file[r], NoEntry}
    BY NewestKeeps
  <2> QED
    BY <1>1, <2>1, Entries
<1>2. CASE file[r].bundle # 0
  <2>1. {s \in known : s > r} = {}
    <3> SUFFICES ASSUME NEW s \in Rounds, file[s].bundle # 0, s > r PROVE FALSE
      OBVIOUS
    <3>1. s \in Nat /\ r \in Nat /\ s <= r
      BY BoundsAssumption DEF Rounds
    <3> QED
      BY <3>1
  <2>2. Cardinality({s \in known : s > r}) < KeepRounds
    <3>1. Cardinality({}) = 0 /\ 0 < KeepRounds
      BY FS_EmptySet, BoundsAssumption
    <3> HIDE DEF known
    <3> QED
      BY <2>1, <3>1
  <2>3. r \in kept
    BY <1>2, <2>2
  <2>4. Newest(file) = [t \in Rounds |-> IF t \in kept THEN file[t] ELSE NoEntry]
    BY DEF Newest
  <2> HIDE DEF kept
  <2> QED
    BY <2>3, <2>4
<1> QED
  BY <1>1, <1>2

\* Trimming a file that is trimmed changes nothing.
LEMMA NewestTwice ==
    ASSUME NEW file \in File
    PROVE  Newest(Newest(file)) = Newest(file)
<1> DEFINE known == {s \in Rounds : file[s].bundle # 0}
           kept == {t \in known : Cardinality({s \in known : s > t}) < KeepRounds}
           known2 == {s \in Rounds : Newest(file)[s].bundle # 0}
           kept2 == {t \in known2 : Cardinality({s \in known2 : s > t}) < KeepRounds}
<1>1. Newest(file) = [t \in Rounds |-> IF t \in kept THEN file[t] ELSE NoEntry]
  BY DEF Newest
<1>2. Newest(Newest(file)) = [t \in Rounds |-> IF t \in kept2 THEN Newest(file)[t] ELSE NoEntry]
  BY DEF Newest
<1>3. known2 = kept
  BY <1>1, Entries
<1>4. IsFiniteSet(Rounds)
  BY FS_Interval, BoundsAssumption DEF Rounds
<1>5. kept \subseteq kept2
  <2> SUFFICES ASSUME NEW t \in kept PROVE Cardinality({s \in known2 : s > t}) < KeepRounds
    BY <1>3
  <2> DEFINE later == {s \in known : s > t}
             later2 == {s \in known2 : s > t}
  <2>1. later \subseteq Rounds /\ later2 \subseteq later /\ Cardinality(later) < KeepRounds
    BY <1>3
  <2> HIDE DEF later, later2
  <2>2. IsFiniteSet(later)
    BY <1>4, <2>1, FS_Subset
  <2>3. Cardinality(later2) <= Cardinality(later) /\ IsFiniteSet(later2)
    BY <2>1, <2>2, FS_Subset
  <2>4. Cardinality(later) \in Nat /\ Cardinality(later2) \in Nat
    BY <2>2, <2>3, FS_CardinalityType
  <2>5. Cardinality(later2) < KeepRounds
    BY <2>1, <2>3, <2>4, BoundsAssumption
  <2> QED
    BY <2>5 DEF later2
<1> HIDE DEF kept, kept2, known, known2
<1>6. \A t \in Rounds : Newest(Newest(file))[t] = Newest(file)[t]
  BY <1>1, <1>2, <1>5
<1> QED
  BY <1>1, <1>2, <1>6

\* A service that has just started.
LEMMA FreshMemory ==
    ASSUME NEW file \in File
    PROVE  /\ MemoryOf(file) \in Memory /\ MemoryOf(file).file = file
           /\ \A r \in Rounds, k \in Kinds : MemoryOf(file).acked[r][k] = {}
  BY DEF MemoryOf, Memory

LEMMA InitMiner == Init => MinerInv
<1> SUFFICES ASSUME Init PROVE MinerInv
  OBVIOUS
<1> USE BoundsAssumption DEF Init
<1>1. /\ memory = MemoryOf(EmptyFile) /\ memory \in Memory /\ memory.file = EmptyFile
      /\ \A r \in Rounds, k \in Kinds : memory.acked[r][k] = {}
  BY Entries, FreshMemory
<1>2. \A r \in Rounds : EmptyFile[r] = NoEntry
  BY DEF EmptyFile
<1>3. TypeOK
  <2>1. disk \in Disk
    BY Entries DEF Disk
  <2>2. window \in [round : Rounds, phase : Kinds]
    BY DEF Rounds, Kinds
  <2>3. held \in [Peers -> [Rounds -> Bundles]] /\ assemblies \in Bundles /\ faults \in 0 .. MaxFaults
    BY DEF Bundles
  <2> QED
    BY <1>1, <2>1, <2>2, <2>3, Entries, TypeFromParts
<1>4. OneRequestEach /\ RequestsArePast /\ HeldArePast /\ RevealsAreCommitted
  BY DEF OneRequestEach, RequestsArePast, HeldArePast, RevealsAreCommitted
<1>5. EntriesAreSound
  BY <1>1, <1>2, Entries DEF EntriesAreSound
<1>6. MemoryIsFirst
  <2>1. Newest(EmptyFile) = EmptyFile
    BY <1>2, Entries, NewestKeeps DEF File
  <2> QED
    BY <1>1, <1>2, <2>1, Entries DEF MemoryIsFirst
<1>7. SendIsBound /\ AnswersHold
  BY Entries DEF SendIsBound, AnswersHold, Kinds
<1>8. CurrentIsDurable
  BY <1>1 DEF CurrentIsDurable
<1>9. AckedHold
  BY <1>1 DEF AckedHold, Kinds
<1>10. DurableUnlessWriteFailed
  BY DEF DurableUnlessWriteFailed, NonceDurableBeforeSend, Rounds
<1> QED
  BY <1>3, <1>4, <1>5, <1>6, <1>7, <1>8, <1>9, <1>10 DEF MinerInv

-----------------------------------------------------------------------------
(***************************************************************************)
(* The miner's own steps: what they write and what they push.              *)
(***************************************************************************)
LEMMA PersistKeeps ==
    ASSUME TypeOK, NEW file \in File, Persist(file)
    PROVE  /\ disk' \in Disk /\ faults' \in 0 .. MaxFaults
           /\ \/ disk' = disk
              \/ ~disk'.corrupt /\ disk'.file = Newest(file)
<1>1. disk \in Disk /\ faults \in 0 .. MaxFaults /\ MaxFaults \in Nat
  BY MinerTypes, BoundsAssumption DEF TypeOK
<1>2. CASE disk' = [corrupt |-> FALSE, file |-> Newest(file)] /\ UNCHANGED faults
  BY <1>1, <1>2, NewestKeeps DEF Disk
<1>3. CASE faults < MaxFaults /\ faults' = faults + 1 /\ UNCHANGED disk
  BY <1>1, <1>3
<1> QED
  BY <1>2, <1>3 DEF Persist

\* The end of a tick: what was accepted is remembered, and written when it is news.
LEMMA SettleKeeps ==
    ASSUME MinerInv, up, NEW kind \in Kinds, NEW r \in Rounds, NEW acked \in SUBSET Peers,
           memory.file[r].bundle # 0, Settle(kind, r, acked),
           kind = "commit" => \A v \in acked : held[v][r] = memory.file[r].bundle,
           kind = "reveal" => \A v \in acked : r \in shown[v],
           tick' = NoSend, answers' = NoAnswers,
           UNCHANGED <<window, eligible, up, wire, held, shown, assemblies,
                       writeFailed, fileLost>>
    PROVE  MinerInv'
<1> USE DEF MinerInv
<1> DEFINE old == memory.file
           file == Flagged(old, kind, r)
<1>1. /\ memory \in Memory /\ old \in File /\ old[r] \in Entry
      /\ memory.acked \in [Rounds -> [Kinds -> SUBSET Peers]]
      /\ memory.unknown \in [Rounds -> SUBSET Peers]
      /\ answers["unknown"] \subseteq Peers
  BY MinerTypes DEF TypeOK
<1>2. /\ file \in File
      /\ \A x \in Rounds :
           /\ file[x].bundle = old[x].bundle
           /\ file[x].committed => old[x].committed \/ (x = r /\ kind = "commit")
  <2>1. CASE kind = "commit"
    <3>1. file = [old EXCEPT ![r].committed = TRUE]
      BY <2>1 DEF Flagged
    <3> HIDE DEF file, old
    <3> QED
      BY <1>1, <2>1, <3>1 DEF File, Entry
  <2>2. CASE kind # "commit"
    <3>1. file = [old EXCEPT ![r].revealed = TRUE]
      BY <2>2 DEF Flagged
    <3> HIDE DEF file, old
    <3> QED
      BY <1>1, <2>2, <3>1 DEF File, Entry
  <2> QED
    BY <2>1, <2>2
<1> DEFINE known == [memory.acked EXCEPT ![r][kind] = acked]
           strange == [memory.unknown EXCEPT ![r] = @ \cup answers["unknown"]]
<1>3. PICK new \in File :
        /\ \/ new = old
           \/ new = file /\ acked # {}
        /\ memory' = [memory EXCEPT !.file = new, !.acked = known, !.unknown = strange]
        /\ Persist(new) \/ UNCHANGED <<disk, faults>>
  <2>1. CASE Accepted(acked) /\ file # memory.file
    <3>1. /\ memory' = [memory EXCEPT !.file = file, !.acked[r][kind] = acked,
                          !.unknown[r] = @ \cup answers["unknown"]]
          /\ Persist(file) /\ acked # {}
      BY <2>1 DEF Settle, Accepted
    <3>2. memory' = [memory EXCEPT !.file = file, !.acked = known, !.unknown = strange]
      BY <3>1
    <3> QED
      BY <1>2, <3>1, <3>2
  <2>2. CASE ~(Accepted(acked) /\ file # memory.file)
    <3>1. /\ memory' = [memory EXCEPT !.acked[r][kind] = acked,
                          !.unknown[r] = @ \cup answers["unknown"]]
          /\ UNCHANGED <<disk, faults>>
      BY <2>2 DEF Settle
    <3>2. memory' = [memory EXCEPT !.file = old, !.acked = known, !.unknown = strange]
      BY <1>1, <3>1 DEF Memory
    <3> QED
      BY <1>1, <3>1, <3>2
  <2> QED
    BY <2>1, <2>2
<1> HIDE DEF file, old
<1>4. known \in [Rounds -> [Kinds -> SUBSET Peers]] /\ strange \in [Rounds -> SUBSET Peers]
  BY <1>1
<1>5. \A x \in Rounds, k \in Kinds :
        known[x][k] = IF x = r /\ k = kind THEN acked ELSE memory.acked[x][k]
  BY <1>1
<1> HIDE DEF known, strange
<1>6. memory' \in Memory /\ memory'.file = new /\ memory'.acked = known
  BY <1>1, <1>3, <1>4 DEF Memory
<1>7. \A x \in Rounds :
        /\ new[x].bundle = old[x].bundle
        /\ new[x].committed => old[x].committed
                               \/ (x = r /\ kind = "commit" /\ acked # {})
  BY <1>2, <1>3
<1>8. /\ disk' \in Disk /\ faults' \in 0 .. MaxFaults
      /\ \/ disk' = disk
         \/ ~disk'.corrupt /\ disk'.file = Newest(new)
  BY <1>3, PersistKeeps, MinerTypes DEF TypeOK
<1>9. TypeOK'
  BY <1>6, <1>8, Entries, MinerTypes DEF TypeOK, Memory, Disk, File, Entry, Send
<1>10. OneRequestEach' /\ RequestsArePast' /\ HeldArePast' /\ RevealsAreCommitted'
  BY DEF OneRequestEach, RequestsArePast, HeldArePast, RevealsAreCommitted
<1>11. \A x \in Rounds : SoundEntry(new[x], x)
  <2> SUFFICES ASSUME NEW x \in Rounds PROVE SoundEntry(new[x], x)
    OBVIOUS
  <2>1. SoundEntry(old[x], x) /\ old[r].bundle # 0
    BY DEF EntriesAreSound, old
  <2>2. x = r /\ kind = "commit" /\ acked # {} => \E v \in Peers : held[v][x] = old[x].bundle
    BY DEF old
  <2> QED
    BY <1>7, <2>1, <2>2 DEF SoundEntry
<1>12. EntriesAreSound'
  <2>1. \A x \in Rounds : SoundEntry(memory'.file[x], x)
    BY <1>6, <1>11
  <2>2. ASSUME NEW x \in Rounds, ~disk'.corrupt PROVE SoundEntry(disk'.file[x], x)
    <3>1. CASE disk' = disk
      BY <2>2, <3>1 DEF EntriesAreSound
    <3>2. CASE disk'.file = Newest(new)
      <4>1. disk'.file[x] \in {new[x], NoEntry}
        BY <3>2, NewestKeeps
      <4> QED
        BY <1>11, <4>1, Entries
    <3> QED
      BY <1>8, <3>1, <3>2
  <2> QED
    BY <2>1, <2>2 DEF EntriesAreSound, SoundEntry
<1>13. MemoryIsFirst'
  <2>1. up' /\ (disk.corrupt => fileLost) /\ ~disk.corrupt
    BY DEF MemoryIsFirst
  <2>2. ~disk'.corrupt
    BY <1>8, <2>1
  <2>3. ASSUME NEW x \in Rounds PROVE disk'.file[x].bundle \in {0, memory'.file[x].bundle}
    <3>1. memory'.file[x].bundle = old[x].bundle
      BY <1>6, <1>7
    <3>2. CASE disk' = disk
      BY <3>1, <3>2 DEF MemoryIsFirst, old
    <3>3. CASE disk'.file = Newest(new)
      <4>1. disk'.file[x] \in {new[x], NoEntry}
        BY <3>3, NewestKeeps
      <4> QED
        BY <1>7, <3>1, <4>1, Entries
    <3> QED
      BY <1>8, <3>2, <3>3
  <2>4. Newest(disk'.file) = disk'.file
    BY <1>8, NewestTwice DEF MemoryIsFirst
  <2> QED
    BY <2>1, <2>2, <2>3, <2>4 DEF MemoryIsFirst
<1>14. SendIsBound' /\ AnswersHold'
  BY Entries DEF SendIsBound, AnswersHold, Kinds
<1>15. window.round \in Rounds /\ \A s \in Rounds : new[s].bundle # 0 => s <= window.round
  BY <1>11, MinerTypes DEF SoundEntry
<1>16. ~writeFailed /\ ~fileLost =>
         /\ disk'.file[window.round].bundle = disk.file[window.round].bundle
         /\ disk'.file[window.round].bundle = new[window.round].bundle
  <2> SUFFICES ASSUME ~writeFailed, ~fileLost
               PROVE  /\ disk'.file[window.round].bundle = disk.file[window.round].bundle
                      /\ disk'.file[window.round].bundle = new[window.round].bundle
    OBVIOUS
  <2>1. disk.file[window.round].bundle = old[window.round].bundle
        /\ new[window.round].bundle = old[window.round].bundle
    BY <1>7, <1>15 DEF CurrentIsDurable, old
  <2>2. CASE disk' = disk
    BY <2>1, <2>2
  <2>3. CASE disk'.file = Newest(new)
    BY <1>15, <2>1, <2>3, LatestIsKept
  <2> QED
    BY <1>8, <2>2, <2>3
<1>17. CurrentIsDurable'
  BY <1>6, <1>16 DEF CurrentIsDurable
<1>18. DurableUnlessWriteFailed'
  BY <1>16 DEF DurableUnlessWriteFailed, NonceDurableBeforeSend
<1>19. AckedHold'
  <2> SUFFICES ASSUME NEW x \in Rounds
               PROVE  /\ \A v \in memory'.acked[x]["commit"] :
                           held[v][x] = memory'.file[x].bundle /\ held[v][x] # 0
                      /\ \A v \in memory'.acked[x]["reveal"] : x \in shown[v]
    BY DEF AckedHold
  <2>1. memory'.file[x].bundle = old[x].bundle
    BY <1>6, <1>7
  <2>2. /\ \A v \in memory.acked[x]["commit"] : held[v][x] = old[x].bundle /\ held[v][x] # 0
        /\ \A v \in memory.acked[x]["reveal"] : x \in shown[v]
    BY DEF AckedHold, old
  <2>3. \A k \in Kinds :
          memory'.acked[x][k] = IF x = r /\ k = kind THEN acked ELSE memory.acked[x][k]
    BY <1>5, <1>6
  <2>4. "commit" \in Kinds /\ "reveal" \in Kinds
    BY DEF Kinds
  <2> QED
    BY <2>1, <2>2, <2>3, <2>4 DEF old
<1> QED
  BY <1>9, <1>10, <1>12, <1>13, <1>14, <1>17, <1>18, <1>19

\* A send goes to all targets at once, and replaces what was under way to them.
LEMMA SendStarts ==
    ASSUME MinerInv, up, NEW kind \in Kinds, NEW r \in Rounds, NEW targets \in SUBSET Peers,
           r <= window.round, memory.file[r].bundle # 0, answers = NoAnswers,
           kind = "reveal" => /\ memory.file[r].committed
                              /\ r < window.round \/ window.phase = "reveal",
           tick' = [kind |-> kind, round |-> r, bundle |-> memory.file[r].bundle,
                    targets |-> targets],
           wire' = {m \in wire : m.to \notin targets}
                   \cup [to : targets, kind : {kind}, round : {r}, bundle : {memory.file[r].bundle}],
           UNCHANGED <<window, eligible, up, memory, disk, answers, held, shown, bounds>>
    PROVE  MinerInv'
<1> USE DEF MinerInv, bounds
<1> DEFINE b == memory.file[r].bundle
           sent == [to : targets, kind : {kind}, round : {r}, bundle : {b}]
<1>1. /\ memory.file[r] \in Entry /\ SoundEntry(memory.file[r], r)
      /\ b \in Bundles /\ b <= assemblies /\ b # 0 /\ wire \subseteq Request
      /\ assemblies \in Bundles
  BY MinerTypes, Entries DEF EntriesAreSound, SoundEntry
<1> HIDE DEF b
<1>2. /\ \A m \in sent : /\ m.to \in targets /\ m.kind = kind /\ m.round = r /\ m.bundle = b
                         /\ m \in Request
      /\ \A m, n \in sent : m.to = n.to => m = n
  BY <1>1 DEF Request
<1>3. wire' = {m \in wire : m.to \notin targets} \cup sent
  BY DEF b
<1> HIDE DEF sent
<1>4. /\ \A m \in wire' : (m \in wire /\ m.to \notin targets) \/ m \in sent
      /\ wire' \subseteq Request
  BY <1>1, <1>2, <1>3
<1>5. b \in 1 .. assemblies
  BY <1>1 DEF Bundles
<1>6. TypeOK'
  <2>1. tick' \in Send
    BY <1>1 DEF Send, Kinds, Rounds, b
  <2>2. held' \in [Peers -> [Rounds -> Bundles]] /\ shown' \in [Peers -> SUBSET Rounds]
        /\ window' \in [round : Rounds, phase : Kinds] /\ eligible' \subseteq Peers
    BY DEF TypeOK
  <2>3. memory' \in Memory /\ disk' \in Disk /\ assemblies' \in Bundles
    BY MinerTypes
  <2>4. /\ answers' \in [{"accepted", "unknown"} -> SUBSET Peers] /\ up' \in BOOLEAN
        /\ faults' \in 0 .. MaxFaults /\ writeFailed' \in BOOLEAN /\ fileLost' \in BOOLEAN
    BY DEF TypeOK
  <2> QED
    BY <1>4, <2>1, <2>2, <2>3, <2>4 DEF TypeOK, Memory, Disk, Send, Request, File, Entry
<1>7. OneRequestEach'
  BY <1>2, <1>4 DEF OneRequestEach
<1>8. RequestsArePast' /\ HeldArePast'
  <2>1. \A m \in wire' : /\ m.round <= window.round /\ m.bundle \in 1 .. assemblies
                         /\ m.kind = "reveal" => m.round < window.round \/ window.phase = "reveal"
    BY <1>2, <1>4, <1>5 DEF RequestsArePast
  <2> QED
    BY <2>1 DEF RequestsArePast, HeldArePast
<1>9. EntriesAreSound'
  <2>1. ASSUME NEW x \in Rounds, NEW e \in Entry, SoundEntry(e, x), e.bundle \in {0, memory.file[x].bundle}
        PROVE  SoundEntry(e, x)'
    BY <1>2, <1>4, <2>1 DEF SoundEntry, b
  <2>2. \A x \in Rounds : memory.file[x] \in Entry /\ disk.file[x] \in Entry
    BY MinerTypes
  <2>3. \A x \in Rounds : disk.file[x].bundle \in {0, memory.file[x].bundle}
    BY DEF MemoryIsFirst
  <2>4. \A x \in Rounds : SoundEntry(memory.file[x], x) /\ (~disk.corrupt => SoundEntry(disk.file[x], x))
    BY DEF EntriesAreSound
  <2>5. ASSUME NEW x \in Rounds
        PROVE  SoundEntry(memory.file[x], x)' /\ (~disk.corrupt => SoundEntry(disk.file[x], x)')
    <3>1. PICK e \in Entry : e = memory.file[x]
      BY <2>2
    <3>2. SoundEntry(e, x)'
      BY <2>1, <2>4, <3>1
    <3>3. PICK d \in Entry : d = disk.file[x]
      BY <2>2
    <3>4. ~disk.corrupt => SoundEntry(d, x)'
      BY <2>1, <2>3, <2>4, <3>3
    <3>5. memory'.file[x] = e /\ disk'.file[x] = d
      BY <3>1, <3>3
    <3> QED
      BY <3>2, <3>4, <3>5 DEF SoundEntry
  <2> QED
    BY <2>5 DEF EntriesAreSound
<1>10. MemoryIsFirst'
  BY DEF MemoryIsFirst
<1>11. SendIsBound' /\ AnswersHold'
  <2>1. tick'.kind = kind /\ tick'.round = r /\ tick'.bundle = memory.file[r].bundle
    OBVIOUS
  <2> QED
    BY <2>1, Entries DEF SendIsBound, AnswersHold, Kinds
<1>12. RevealsAreCommitted'
  <2>1. kind = "reveal" => \E v \in Peers : held[v][r] = b
    BY <1>1 DEF SoundEntry, b
  <2> QED
    BY <1>2, <1>4, <2>1 DEF RevealsAreCommitted
<1>13. CurrentIsDurable' /\ AckedHold'
  BY DEF CurrentIsDurable, AckedHold
<1>14. DurableUnlessWriteFailed'
  <2> SUFFICES ASSUME ~writeFailed, ~fileLost
               PROVE  /\ \A m \in wire' : m.round = window.round =>
                           m.bundle \in {0, disk.file[window.round].bundle}
                      /\ \A v \in Peers : held[v][window.round] \in {0, disk.file[window.round].bundle}
    BY DEF DurableUnlessWriteFailed, NonceDurableBeforeSend
  <2>1. /\ \A m \in wire : m.round = window.round =>
             m.bundle \in {0, disk.file[window.round].bundle}
        /\ \A v \in Peers : held[v][window.round] \in {0, disk.file[window.round].bundle}
    BY DEF DurableUnlessWriteFailed, NonceDurableBeforeSend
  <2>2. r = window.round => b = disk.file[window.round].bundle
    BY DEF CurrentIsDurable, b
  <2> QED
    BY <1>2, <1>4, <2>1, <2>2
<1> QED
  BY <1>6, <1>7, <1>8, <1>9, <1>10, <1>11, <1>12, <1>13, <1>14

\* A push of what the round has in memory, to whoever has not acknowledged it.
LEMMA PushKeeps ==
    ASSUME MinerInv, up, NEW kind \in Kinds, NEW r \in Rounds, Push(kind, r),
           r <= window.round, memory.file[r].bundle # 0, tick.kind \notin Kinds,
           kind = "reveal" => /\ memory.file[r].committed
                              /\ r < window.round \/ window.phase = "reveal",
           UNCHANGED <<window, eligible, up, answers, held, shown, assemblies,
                       writeFailed, fileLost>>
    PROVE  MinerInv'
<1>1. answers = NoAnswers
  BY DEF MinerInv, SendIsBound
<1>2. Targets(kind, r) \in SUBSET Peers
  BY DEF MinerInv, TypeOK, Targets
<1>3. CASE Targets(kind, r) # {}
  BY <1>1, <1>2, <1>3, SendStarts DEF Push, bounds
<1>4. CASE Targets(kind, r) = {}
  <2>1. tick' = NoSend /\ Settle(kind, r, memory.acked[r][kind]) /\ wire' = wire
    BY <1>4 DEF Push
  <2>2. memory.acked[r][kind] \in SUBSET Peers
    BY MinerTypes DEF MinerInv
  <2>3. /\ kind = "commit" => \A v \in memory.acked[r][kind] : held[v][r] = memory.file[r].bundle
        /\ kind = "reveal" => \A v \in memory.acked[r][kind] : r \in shown[v]
    BY DEF MinerInv, AckedHold
  <2> QED
    BY <1>1, <2>1, <2>2, <2>3, SettleKeeps
<1> QED
  BY <1>3, <1>4

LEMMA PushCommitKeeps == MinerInv /\ PushCommit => MinerInv'
<1> SUFFICES ASSUME MinerInv, PushCommit PROVE MinerInv'
  OBVIOUS
<1>1. /\ up /\ "commit" \in Kinds
      /\ UNCHANGED <<window, eligible, up, answers, held, shown, assemblies,
                     writeFailed, fileLost>>
  BY DEF PushCommit, Kinds
<1>2. ASSUME NEW r \in Rounds, memory.file[r].bundle # 0 PROVE r <= window.round
  BY <1>2 DEF MinerInv, EntriesAreSound, SoundEntry
<1>3. CASE tick.kind = "assembled" /\ Push("commit", tick.round)
  <2>1. tick.round \in Rounds /\ memory.file[tick.round].bundle # 0 /\ tick.kind \notin Kinds
    BY <1>3 DEF MinerInv, SendIsBound, Kinds
  <2>2. PICK r \in Rounds : r = tick.round
    BY <2>1
  <2> QED
    BY <1>1, <1>2, <1>3, <2>1, <2>2, PushKeeps
<1>4. CASE Ready("commit") /\ memory.file[window.round].bundle # 0 /\ Push("commit", window.round)
  <2>1. window.round \in Rounds
    BY MinerTypes DEF MinerInv
  <2>2. PICK r \in Rounds : r = window.round
    BY <2>1
  <2>3. tick.kind \notin Kinds
    BY <1>4, Entries DEF Ready, Kinds
  <2> QED
    BY <1>1, <1>2, <1>4, <2>2, <2>3, PushKeeps
<1> QED
  BY <1>3, <1>4 DEF PushCommit

LEMMA PushRevealKeeps == MinerInv /\ PushReveal => MinerInv'
<1> SUFFICES ASSUME MinerInv, PushReveal PROVE MinerInv'
  OBVIOUS
<1>1. /\ up /\ "reveal" \in Kinds /\ window.phase = "reveal" /\ tick = NoSend
      /\ UNCHANGED <<window, eligible, up, answers, held, shown, assemblies,
                     writeFailed, fileLost>>
  BY DEF PushReveal, Kinds, Ready
<1>2. PICK r \in Rounds : r = window.round
  BY MinerTypes DEF MinerInv
<1>3. tick.kind \notin Kinds
  BY <1>1, Entries DEF Kinds
<1>4. CASE memory.file[r].committed
  <2>1. Push("reveal", r)
    BY <1>2, <1>4 DEF PushReveal
  <2>2. memory.file[r].bundle # 0
    BY <1>4 DEF MinerInv, EntriesAreSound, SoundEntry
  <2>3. r <= window.round
    BY <1>2, <2>2 DEF MinerInv, EntriesAreSound, SoundEntry
  <2> QED
    BY <1>1, <1>3, <1>4, <2>1, <2>2, <2>3, PushKeeps
<1>5. CASE ~memory.file[r].committed
  <2>1. /\ memory' = [memory EXCEPT !.missed = @ \cup {r}]
        /\ UNCHANGED <<disk, faults, tick, wire>>
    BY <1>2, <1>5 DEF PushReveal
  <2>2. /\ memory' \in Memory /\ memory'.file = memory.file /\ memory'.acked = memory.acked
    BY <2>1, MinerTypes DEF MinerInv, Memory
  <2>3. TypeOK'
    BY <1>1, <2>1, <2>2 DEF MinerInv, TypeOK, Memory, File, Entry
  <2>4. OneRequestEach' /\ RequestsArePast' /\ HeldArePast' /\ RevealsAreCommitted'
    BY <1>1, <2>1 DEF MinerInv, OneRequestEach, RequestsArePast, HeldArePast, RevealsAreCommitted
  <2>5. EntriesAreSound' /\ AckedHold'
    BY <1>1, <2>1, <2>2 DEF MinerInv, EntriesAreSound, SoundEntry, AckedHold
  <2>6. MemoryIsFirst' /\ SendIsBound' /\ AnswersHold' /\ CurrentIsDurable'
    BY <1>1, <2>1, <2>2 DEF MinerInv, MemoryIsFirst, SendIsBound, AnswersHold, CurrentIsDurable
  <2>7. DurableUnlessWriteFailed'
    BY <1>1, <2>1 DEF MinerInv, DurableUnlessWriteFailed, NonceDurableBeforeSend
  <2> QED
    BY <2>3, <2>4, <2>5, <2>6, <2>7 DEF MinerInv
<1> QED
  BY <1>4, <1>5

LEMMA EndSendKeeps == MinerInv /\ EndSend => MinerInv'
<1> SUFFICES ASSUME MinerInv, EndSend PROVE MinerInv'
  OBVIOUS
<1> USE DEF MinerInv
<1>1. /\ up /\ tick.kind \in Kinds
      /\ Settle(tick.kind, tick.round,
                memory.acked[tick.round][tick.kind] \cup answers["accepted"])
      /\ tick' = NoSend /\ answers' = NoAnswers
      /\ UNCHANGED <<window, eligible, up, wire, held, shown, assemblies,
                     writeFailed, fileLost>>
  BY DEF EndSend, Acknowledged
<1>2. /\ tick.round \in Rounds /\ memory.file[tick.round].bundle # 0
      /\ tick.bundle = memory.file[tick.round].bundle
  BY <1>1 DEF SendIsBound, Kinds
<1>3. PICK kind \in Kinds, r \in Rounds : kind = tick.kind /\ r = tick.round
  BY <1>1, <1>2
<1> DEFINE acked == memory.acked[r][kind] \cup answers["accepted"]
<1>4. acked \in SUBSET Peers
  BY MinerTypes DEF TypeOK
<1>5. /\ kind = "commit" => \A v \in acked : held[v][r] = memory.file[r].bundle
      /\ kind = "reveal" => \A v \in acked : r \in shown[v]
  BY <1>2, <1>3 DEF AckedHold, AnswersHold
<1>6. Settle(kind, r, acked)
  BY <1>1, <1>3
<1> HIDE DEF acked
<1> QED
  BY <1>1, <1>2, <1>3, <1>4, <1>5, <1>6, SettleKeeps

\* A new bundle has a number nobody has seen, and a round that had none.
LEMMA AssembleKeeps == MinerInv /\ Assemble => MinerInv'
<1> SUFFICES ASSUME MinerInv, Assemble PROVE MinerInv'
  OBVIOUS
<1> USE DEF MinerInv
<1>1. PICK r \in Rounds : r = window.round
  BY MinerTypes
<1> DEFINE old == memory.file
           file == [old EXCEPT ![r].bundle = assemblies + 1]
<1>2. /\ up /\ tick = NoSend /\ window.phase = "commit" /\ old[r].bundle = 0
      /\ assemblies < MaxAssemblies /\ assemblies' = assemblies + 1
      /\ memory' = [memory EXCEPT !.file = file]
      /\ Persist(file)
      /\ \/ tick' = [NoSend EXCEPT !.kind = "assembled", !.round = r] /\ UNCHANGED writeFailed
            /\ faults' = faults
         \/ writeFailed' = TRUE /\ UNCHANGED tick
      /\ UNCHANGED <<window, eligible, up, net, fileLost>>
  BY <1>1 DEF Assemble, Ready
<1>3. /\ old \in File /\ old[r] \in Entry /\ assemblies \in Nat /\ MaxAssemblies \in Nat
      /\ assemblies + 1 \in Bundles /\ assemblies' \in Bundles /\ memory \in Memory
  BY <1>2, MinerTypes, BoundsAssumption DEF Bundles
<1> HIDE DEF old
<1>4. /\ file \in File
      /\ \A x \in Rounds : /\ x # r => file[x] = old[x]
                           /\ file[x].committed = old[x].committed
      /\ file[r].bundle = assemblies + 1
  BY <1>3 DEF File, Entry
<1>5. /\ memory' \in Memory /\ memory'.file = file /\ memory'.acked = memory.acked
  BY <1>2, <1>3, <1>4 DEF Memory
<1>6. /\ disk' \in Disk /\ faults' \in 0 .. MaxFaults
      /\ \/ disk' = disk
         \/ ~disk'.corrupt /\ disk'.file = Newest(file)
  BY <1>2, <1>4, PersistKeeps
<1>7. tick' \in Send /\ (tick'.kind = "idle" => tick' = NoSend)
      /\ tick'.kind \in {"idle", "assembled"} /\ (tick'.kind = "assembled" => tick'.round = r)
  <2> DEFINE send == [NoSend EXCEPT !.kind = "assembled", !.round = r]
  <2>1. send \in Send /\ send.kind = "assembled" /\ send.round = r
    <3>1. NoSend \in Send
      BY Entries
    <3>2. r \in 0 .. LastRound
      BY BoundsAssumption DEF Rounds
    <3> QED
      BY <3>1, <3>2 DEF Send
  <2> HIDE DEF send
  <2>2. tick' = send \/ tick' = NoSend
    BY <1>2 DEF send
  <2> QED
    BY <2>1, <2>2, Entries
<1> HIDE DEF file
<1>8. TypeOK'
  <2>1. /\ window' \in [round : Rounds, phase : Kinds] /\ eligible' \subseteq Peers
        /\ up' \in BOOLEAN /\ writeFailed' \in BOOLEAN /\ fileLost' \in BOOLEAN
        /\ held' \in [Peers -> [Rounds -> Bundles]] /\ shown' \in [Peers -> SUBSET Rounds]
        /\ answers' \in [{"accepted", "unknown"} -> SUBSET Peers]
    BY <1>2 DEF TypeOK, net
  <2>2. wire' \subseteq Request
    BY <1>2, MinerTypes DEF net
  <2> QED
    BY <1>3, <1>5, <1>6, <1>7, <2>1, <2>2 DEF TypeOK, Memory, Disk, Send, Request, File, Entry
<1>9. wire' = wire /\ held' = held /\ shown' = shown /\ answers' = answers /\ window' = window
  BY <1>2 DEF net
<1>10. OneRequestEach' /\ RequestsArePast' /\ HeldArePast' /\ RevealsAreCommitted'
  <2>1. 1 .. assemblies \subseteq 1 .. assemblies' /\ 0 .. assemblies \subseteq 0 .. assemblies'
    BY <1>2, <1>3
  <2> QED
    BY <1>9, <2>1 DEF OneRequestEach, RequestsArePast, HeldArePast, RevealsAreCommitted
<1>11. ~old[r].committed
  BY <1>2 DEF EntriesAreSound, SoundEntry, old
<1>12. ASSUME NEW x \in Rounds, NEW e \in Entry, SoundEntry(e, x)
       PROVE  SoundEntry(e, x)'
  <2>1. e.bundle <= assemblies => e.bundle <= assemblies'
    BY <1>2, <1>3, Entries DEF Bundles
  <2> QED
    BY <1>9, <1>12, <2>1 DEF SoundEntry
<1>13. ASSUME NEW e \in Entry, e = file[r]
       PROVE  SoundEntry(e, r)'
  <2>1. e.bundle = assemblies' /\ ~e.committed
    BY <1>2, <1>4, <1>11, <1>13
  <2>2. \A v \in Peers : held[v][r] # e.bundle
    BY <1>2, <1>3, <2>1 DEF HeldArePast
  <2>3. \A m \in wire : m.to \in Peers
    BY MinerTypes DEF Request
  <2>4. window'.round = r /\ r <= r
    BY <1>1, <1>9, BoundsAssumption DEF Rounds
  <2>5. e.bundle <= assemblies'
    BY <1>2, <1>3, <2>1
  <2> QED
    BY <1>9, <2>1, <2>2, <2>3, <2>4, <2>5 DEF SoundEntry
<1>14. \A x \in Rounds, e \in Entry :
         e \in {file[x], disk.file[x], NoEntry} /\ (e = disk.file[x] => ~disk.corrupt)
           => SoundEntry(e, x)'
  <2> SUFFICES ASSUME NEW x \in Rounds, NEW e \in Entry, e \in {file[x], disk.file[x], NoEntry},
                      e = disk.file[x] => ~disk.corrupt
               PROVE  SoundEntry(e, x)'
    OBVIOUS
  <2>1. CASE e = NoEntry
    BY <1>12, <2>1, Entries
  <2>2. CASE e = disk.file[x] /\ ~disk.corrupt
    BY <1>12, <2>2 DEF EntriesAreSound
  <2>3. CASE e = file[x] /\ x # r
    BY <1>4, <1>12, <2>3 DEF EntriesAreSound, old
  <2>4. CASE e = file[x] /\ x = r
    BY <1>13, <2>4
  <2> QED
    BY <2>1, <2>2, <2>3, <2>4
<1>15. ~disk.corrupt /\ ~disk'.corrupt
  BY <1>2, <1>6 DEF MemoryIsFirst
<1>16. \A x \in Rounds : disk'.file[x] \in {file[x], disk.file[x], NoEntry}
  BY <1>4, <1>6, NewestKeeps
<1>17. EntriesAreSound'
  <2> SUFFICES ASSUME NEW x \in Rounds
               PROVE  SoundEntry(memory.file[x], x)' /\ SoundEntry(disk.file[x], x)'
    BY DEF EntriesAreSound, SoundEntry
  <2>1. memory'.file[x] \in Entry /\ disk'.file[x] \in Entry
    BY <1>5, <1>6 DEF Memory, Disk, File
  <2>2. PICK e \in Entry : e = memory'.file[x]
    BY <2>1
  <2>3. SoundEntry(e, x)'
    BY <1>5, <1>14, <1>15, <2>2
  <2>4. PICK d \in Entry : d = disk'.file[x]
    BY <2>1
  <2>5. SoundEntry(d, x)'
    BY <1>14, <1>15, <1>16, <2>4
  <2> QED
    BY <2>2, <2>3, <2>4, <2>5 DEF SoundEntry
<1>18. disk.file[r].bundle = 0
  BY <1>2, <1>3, Entries DEF MemoryIsFirst, old
<1>19. MemoryIsFirst'
  <2>1. up' /\ (disk'.corrupt => fileLost')
    BY <1>2, <1>15
  <2>2. ASSUME NEW x \in Rounds PROVE disk'.file[x].bundle \in {0, memory'.file[x].bundle}
    <3>1. disk.file[x].bundle \in {0, old[x].bundle}
      BY <1>2 DEF MemoryIsFirst, old
    <3>2. disk.file[x].bundle \in {0, file[x].bundle}
      BY <1>4, <1>18, <3>1
    <3> QED
      BY <1>5, <1>16, <3>2, Entries
  <2>3. Newest(disk'.file) = disk'.file
    BY <1>4, <1>6, NewestTwice DEF MemoryIsFirst
  <2> QED
    BY <1>15, <2>1, <2>2, <2>3 DEF MemoryIsFirst
<1>20. SendIsBound' /\ AnswersHold'
  <2>1. answers' = NoAnswers
    BY <1>2, <1>9, Entries DEF SendIsBound, Kinds
  <2>2. memory'.file[r].bundle # 0
    BY <1>3, <1>4, <1>5
  <2> QED
    BY <1>7, <2>1, <2>2 DEF SendIsBound, AnswersHold, Kinds
<1>21. ~writeFailed' => disk'.file[r].bundle = file[r].bundle
  <2> SUFFICES ASSUME ~writeFailed' PROVE disk'.file[r].bundle = file[r].bundle
    OBVIOUS
  <2>1. faults' = faults
    BY <1>2
  <2>2. disk'.file = Newest(file)
    <3>1. faults \in Nat
      BY BoundsAssumption DEF TypeOK
    <3> QED
      BY <1>2, <2>1, <3>1 DEF Persist
  <2>3. \A s \in Rounds : file[s].bundle # 0 => s <= r
    <3>1. r <= r
      BY BoundsAssumption DEF Rounds
    <3> QED
      BY <1>1, <1>4, <3>1 DEF EntriesAreSound, SoundEntry, old
  <2> QED
    BY <1>4, <2>2, <2>3, LatestIsKept
<1>22. CurrentIsDurable'
  BY <1>1, <1>5, <1>9, <1>21 DEF CurrentIsDurable
<1>23. DurableUnlessWriteFailed'
  <2> SUFFICES ASSUME ~writeFailed', ~fileLost'
               PROVE  /\ \A m \in wire' : m.round = window'.round =>
                           m.bundle \in {0, disk'.file[window'.round].bundle}
                      /\ \A v \in Peers : held'[v][window'.round]
                                          \in {0, disk'.file[window'.round].bundle}
    BY DEF DurableUnlessWriteFailed, NonceDurableBeforeSend
  <2>1. ~writeFailed /\ ~fileLost
    BY <1>2
  <2> QED
    BY <1>1, <1>9, <1>18, <2>1 DEF DurableUnlessWriteFailed, NonceDurableBeforeSend
<1>24. AckedHold'
  <2>1. memory.acked[r]["commit"] = {}
    BY <1>2 DEF AckedHold, old
  <2> QED
    BY <1>4, <1>5, <1>9, <2>1 DEF AckedHold, old
<1> QED
  BY <1>8, <1>10, <1>17, <1>19, <1>20, <1>22, <1>23, <1>24

-----------------------------------------------------------------------------
(***************************************************************************)
(* Steps of the validators, of time and of faults.                         *)
(***************************************************************************)
LEMMA HandleKeeps ==
    ASSUME MinerInv, NEW m \in wire, Handle(m)
    PROVE  MinerInv'
<1> USE DEF MinerInv
<1>1. /\ m \in Request /\ m.to \in Peers /\ m.kind \in Kinds /\ m.round \in Rounds
      /\ m.bundle \in 1 .. assemblies /\ m.bundle \in Bundles /\ m.round <= window.round
  BY MinerTypes DEF RequestsArePast, Request
<1>2. UNCHANGED <<window, eligible, up, memory, tick, disk, assemblies, faults, writeFailed, fileLost>>
  BY DEF Handle, miner, bounds
<1> DEFINE accepts == /\ m.to \notin Strangers
                      /\ IF m.kind = "commit" THEN TakesCommit(m) ELSE TakesReveal(m)
           verdict == IF m.to \in Strangers THEN "unknown" ELSE "accepted"
<1>3. /\ wire' = wire \ {m}
      /\ held' = IF accepts /\ m.kind = "commit"
                 THEN [held EXCEPT ![m.to][m.round] = m.bundle] ELSE held
      /\ shown' = IF accepts /\ m.kind = "reveal"
                  THEN [shown EXCEPT ![m.to] = @ \cup {m.round}] ELSE shown
      /\ \/ UNCHANGED answers
         \/ /\ Awaited(m) /\ (accepts \/ m.to \in Strangers)
            /\ answers' = [answers EXCEPT ![verdict] = @ \cup {m.to}]
  BY DEF Handle
<1>4. accepts /\ m.kind = "commit" => window.round = m.round /\ window.phase = "commit"
  BY DEF TakesCommit
<1> HIDE DEF accepts
<1>5. /\ held \in [Peers -> [Rounds -> Bundles]] /\ shown \in [Peers -> SUBSET Rounds]
      /\ answers \in [{"accepted", "unknown"} -> SUBSET Peers]
  BY DEF TypeOK
<1>6. /\ held' \in [Peers -> [Rounds -> Bundles]]
      /\ \A v \in Peers, x \in Rounds :
           \/ held'[v][x] = held[v][x]
           \/ /\ v = m.to /\ x = m.round /\ held'[v][x] = m.bundle
              /\ accepts /\ m.kind = "commit"
      /\ accepts /\ m.kind = "commit" => held'[m.to][m.round] = m.bundle
  BY <1>1, <1>3, <1>5
<1>7. /\ shown' \in [Peers -> SUBSET Rounds]
      /\ \A v \in Peers : shown[v] \subseteq shown'[v]
      /\ accepts /\ m.kind = "reveal" => m.round \in shown'[m.to]
  BY <1>1, <1>3, <1>5
<1>8. /\ answers' \in [{"accepted", "unknown"} -> SUBSET Peers]
      /\ \A v \in answers'["accepted"] :
           \/ v \in answers["accepted"]
           \/ v = m.to /\ accepts /\ Awaited(m)
      /\ answers' # answers => Awaited(m)
  BY <1>1, <1>3, <1>5
<1>9. TypeOK'
  <2>1. wire' \subseteq Request
    BY <1>3, MinerTypes
  <2> QED
    BY <1>2, <1>6, <1>7, <1>8, <2>1, MinerTypes DEF TypeOK, Request
<1>10. OneRequestEach' /\ RequestsArePast'
  BY <1>2, <1>3 DEF OneRequestEach, RequestsArePast
<1>11. HeldArePast'
  <2> SUFFICES ASSUME NEW v \in Peers, NEW x \in Rounds
               PROVE  /\ held'[v][x] \in 0 .. assemblies
                      /\ held'[v][x] # 0 => x <= window.round
    BY <1>2 DEF HeldArePast
  <2>1. held[v][x] \in 0 .. assemblies /\ (held[v][x] # 0 => x <= window.round)
    BY DEF HeldArePast
  <2>2. m.bundle \in 0 .. assemblies
    BY <1>1
  <2> QED
    BY <1>1, <1>6, <2>1, <2>2
\* What names a bundle of a file goes on naming one: the later commit is of the same.
<1>12. ASSUME NEW x \in Rounds, NEW e \in Entry, SoundEntry(e, x), NEW v \in Peers,
              e.bundle # 0, held[v][x] = e.bundle
       PROVE  held'[v][x] = e.bundle
  <2>1. CASE held'[v][x] = held[v][x]
    BY <1>12, <2>1
  <2>2. CASE v = m.to /\ x = m.round /\ held'[v][x] = m.bundle /\ m.kind = "commit"
    BY <1>12, <2>2 DEF SoundEntry
  <2> QED
    BY <1>6, <2>1, <2>2
<1>13. ASSUME NEW x \in Rounds, NEW e \in Entry, SoundEntry(e, x)
       PROVE  SoundEntry(e, x)'
  <2>1. (e.bundle # 0 => x <= window'.round /\ e.bundle <= assemblies')
        /\ (e.committed => e.bundle # 0)
    BY <1>2, <1>13 DEF SoundEntry
  <2>2. e.committed => \E v \in Peers : held'[v][x] = e.bundle
    BY <1>12, <1>13 DEF SoundEntry
  <2>3. ASSUME e.bundle # 0, NEW n \in wire', n.kind = "commit", n.round = x,
               held'[n.to][x] = e.bundle
        PROVE  n.bundle = e.bundle
    <3>1. n \in wire /\ n # m /\ n.to \in Peers
      BY <1>3, <2>3, MinerTypes DEF Request
    <3>2. n.to # m.to
      BY <3>1 DEF OneRequestEach
    <3>3. held[n.to][x] = e.bundle
      BY <1>6, <2>3, <3>1, <3>2
    <3> QED
      BY <1>13, <2>3, <3>1, <3>3 DEF SoundEntry
  <2> QED
    BY <2>1, <2>2, <2>3 DEF SoundEntry
<1>14. \A x \in Rounds :
         /\ SoundEntry(memory.file[x], x)
         /\ ~disk.corrupt => SoundEntry(disk.file[x], x)
         /\ memory.file[x] \in Entry /\ disk.file[x] \in Entry
  BY MinerTypes DEF EntriesAreSound
<1>15. EntriesAreSound'
  <2> SUFFICES ASSUME NEW x \in Rounds
               PROVE  /\ SoundEntry(memory.file[x], x)'
                      /\ ~disk'.corrupt => SoundEntry(disk.file[x], x)'
    BY DEF EntriesAreSound, SoundEntry
  <2>1. PICK e \in Entry : e = memory.file[x] /\ SoundEntry(e, x)
    BY <1>14
  <2>2. SoundEntry(e, x)' /\ memory'.file[x] = e
    BY <1>2, <1>13, <2>1
  <2>3. PICK d \in Entry : d = disk.file[x] /\ (~disk.corrupt => SoundEntry(d, x))
    BY <1>14
  <2>4. (~disk.corrupt => SoundEntry(d, x)') /\ disk'.file[x] = d /\ disk'.corrupt = disk.corrupt
    BY <1>2, <1>13, <2>3
  <2> QED
    BY <2>2, <2>4 DEF SoundEntry
<1>16. MemoryIsFirst' /\ CurrentIsDurable'
  BY <1>2 DEF MemoryIsFirst, CurrentIsDurable
<1>17. SendIsBound'
  <2>1. tick.kind \notin Kinds => answers' = answers
    BY <1>1, <1>8 DEF Awaited
  <2> QED
    BY <1>2, <2>1 DEF SendIsBound
<1>18. ASSUME tick.kind = "commit", NEW v \in answers'["accepted"]
       PROVE  held'[v][tick.round] = tick.bundle
  <2>1. /\ tick.round \in Rounds /\ memory.file[tick.round].bundle # 0
        /\ tick.bundle = memory.file[tick.round].bundle
    BY <1>18 DEF SendIsBound, Kinds
  <2>2. CASE v \in answers["accepted"]
    <3>1. held[v][tick.round] = tick.bundle /\ v \in Peers
      BY <1>5, <1>18, <2>2 DEF AnswersHold
    <3> QED
      BY <1>12, <1>14, <2>1, <3>1
  <2>3. CASE v = m.to /\ accepts /\ Awaited(m)
    BY <1>6, <1>18, <2>3 DEF Awaited
  <2> QED
    BY <1>8, <2>2, <2>3
<1>19. ASSUME tick.kind = "reveal", NEW v \in answers'["accepted"]
       PROVE  tick.round \in shown'[v]
  <2>1. CASE v \in answers["accepted"]
    BY <1>5, <1>7, <1>19, <2>1 DEF AnswersHold
  <2>2. CASE v = m.to /\ accepts /\ Awaited(m)
    BY <1>7, <1>19, <2>2 DEF Awaited
  <2> QED
    BY <1>8, <2>1, <2>2
<1>20. AnswersHold'
  BY <1>2, <1>18, <1>19 DEF AnswersHold
<1>21. RevealsAreCommitted'
  <2> SUFFICES ASSUME NEW n \in wire', n.kind = "reveal"
               PROVE  \E v \in Peers : held'[v][n.round] = n.bundle
    BY DEF RevealsAreCommitted
  <2>1. /\ n \in wire /\ n.round \in Rounds
        /\ n.round < window.round \/ window.phase = "reveal"
    BY <1>3, MinerTypes DEF RequestsArePast, Request
  <2>2. PICK v \in Peers : held[v][n.round] = n.bundle
    BY <2>1 DEF RevealsAreCommitted
  <2>3. accepts /\ m.kind = "commit" => n.round # m.round
    <3>1. window.round \in Nat
      BY MinerTypes, BoundsAssumption DEF Rounds
    <3> QED
      BY <1>4, <2>1, <3>1
  <2>4. held'[v][n.round] = held[v][n.round]
    BY <1>6, <2>1, <2>3
  <2> QED
    BY <2>2, <2>4
<1>22. AckedHold'
  <2> SUFFICES ASSUME NEW x \in Rounds
               PROVE  /\ \A v \in memory.acked[x]["commit"] :
                           held'[v][x] = memory.file[x].bundle /\ held'[v][x] # 0
                      /\ \A v \in memory.acked[x]["reveal"] : x \in shown'[v]
    BY <1>2 DEF AckedHold
  <2>1. memory.acked[x]["commit"] \subseteq Peers /\ memory.acked[x]["reveal"] \subseteq Peers
    BY MinerTypes DEF Kinds
  <2>2. ASSUME NEW v \in memory.acked[x]["commit"]
        PROVE  held'[v][x] = memory.file[x].bundle /\ held'[v][x] # 0
    <3>1. held[v][x] = memory.file[x].bundle /\ held[v][x] # 0
      BY DEF AckedHold
    <3> QED
      BY <1>12, <1>14, <2>1, <3>1
  <2> QED
    BY <1>7, <2>1, <2>2 DEF AckedHold
<1>23. DurableUnlessWriteFailed'
  <2> SUFFICES ASSUME ~writeFailed, ~fileLost
               PROVE  /\ \A n \in wire' : n.round = window.round =>
                           n.bundle \in {0, disk.file[window.round].bundle}
                      /\ \A v \in Peers : held'[v][window.round]
                                          \in {0, disk.file[window.round].bundle}
    BY <1>2 DEF DurableUnlessWriteFailed, NonceDurableBeforeSend
  <2>1. /\ \A n \in wire : n.round = window.round =>
             n.bundle \in {0, disk.file[window.round].bundle}
        /\ \A v \in Peers : held[v][window.round] \in {0, disk.file[window.round].bundle}
    BY DEF DurableUnlessWriteFailed, NonceDurableBeforeSend
  <2>2. window.round \in Rounds
    BY MinerTypes
  <2> QED
    BY <1>3, <1>6, <2>1, <2>2
<1> QED
  BY <1>9, <1>10, <1>11, <1>15, <1>16, <1>17, <1>20, <1>21, <1>22, <1>23

\* Steps that move only the clock, the metagraph or the process.
LEMMA NextPhaseKeeps == MinerInv /\ NextPhase => MinerInv'
<1> SUFFICES ASSUME MinerInv, NextPhase PROVE MinerInv'
  OBVIOUS
<1> USE DEF MinerInv
<1>1. /\ window' = IF window.phase = "commit" THEN [window EXCEPT !.phase = "reveal"]
                   ELSE [round |-> window.round + 1, phase |-> "commit"]
      /\ window'.round <= LastRound
      /\ UNCHANGED <<eligible, up, memory, tick, disk, wire, answers, held, shown,
                     assemblies, faults, writeFailed, fileLost>>
  BY DEF NextPhase, miner, net, bounds
<1>2. /\ window.round \in Rounds /\ window.phase \in Kinds
      /\ window \in [round : Rounds, phase : Kinds] /\ LastRound \in Nat
  BY MinerTypes, BoundsAssumption DEF TypeOK
<1>3. /\ window' \in [round : Rounds, phase : Kinds]
      /\ \/ window'.round = window.round /\ window'.phase = "reveal"
         \/ window'.round = window.round + 1 /\ window.phase = "reveal"
  BY <1>1, <1>2 DEF Rounds, Kinds
<1>4. \A x \in Rounds : x <= window.round => x <= window'.round
  BY <1>2, <1>3 DEF Rounds
<1>5. TypeOK'
  BY <1>1, <1>3 DEF TypeOK
<1>6. OneRequestEach' /\ HeldArePast' /\ RevealsAreCommitted' /\ AckedHold'
  BY <1>1, <1>4 DEF OneRequestEach, HeldArePast, RevealsAreCommitted, AckedHold
<1>7. RequestsArePast'
  <2> SUFFICES ASSUME NEW m \in wire
               PROVE  /\ m.round <= window'.round /\ m.bundle \in 1 .. assemblies
                      /\ m.kind = "reveal" => m.round < window'.round \/ window'.phase = "reveal"
    BY <1>1 DEF RequestsArePast
  <2>1. /\ m.round \in Rounds /\ m.round <= window.round /\ m.bundle \in 1 .. assemblies
        /\ m.kind = "reveal" => m.round < window.round \/ window.phase = "reveal"
    BY MinerTypes DEF RequestsArePast, Request
  <2> QED
    BY <1>2, <1>3, <2>1 DEF Rounds
<1>8. EntriesAreSound'
  BY <1>1, <1>4 DEF EntriesAreSound, SoundEntry
<1>9. MemoryIsFirst' /\ SendIsBound' /\ AnswersHold'
  BY <1>1 DEF MemoryIsFirst, SendIsBound, AnswersHold
\* A new round is in no file, under way to nobody and held by nobody.
<1>10. CASE window'.round = window.round
  BY <1>1, <1>5, <1>6, <1>7, <1>8, <1>9, <1>10
     DEF CurrentIsDurable, DurableUnlessWriteFailed, NonceDurableBeforeSend
<1>11. CASE window'.round = window.round + 1
  <2>1. window'.round \in Rounds /\ ~(window'.round <= window.round)
    BY <1>2, <1>3, <1>11 DEF Rounds
  <2>2. /\ \A m \in wire : m.round # window'.round
        /\ \A v \in Peers : held[v][window'.round] = 0
        /\ memory.file[window'.round].bundle = 0
        /\ ~disk.corrupt => disk.file[window'.round].bundle = 0
    BY <2>1 DEF RequestsArePast, HeldArePast, EntriesAreSound, SoundEntry
  <2>3. CurrentIsDurable'
    BY <1>1, <2>2 DEF CurrentIsDurable, MemoryIsFirst
  <2>4. DurableUnlessWriteFailed'
    BY <1>1, <2>2 DEF DurableUnlessWriteFailed, NonceDurableBeforeSend
  <2> QED
    BY <1>5, <1>6, <1>7, <1>8, <1>9, <2>3, <2>4
<1> QED
  BY <1>3, <1>10, <1>11

LEMMA ResyncKeeps == MinerInv /\ (Resync \/ UNCHANGED vars) => MinerInv'
<1> SUFFICES ASSUME MinerInv, Resync \/ UNCHANGED vars PROVE MinerInv'
  OBVIOUS
<1> USE DEF MinerInv
<1>1. /\ UNCHANGED <<window, up, memory, tick, disk, wire, answers, held, shown,
                     assemblies, faults, writeFailed, fileLost>>
      /\ eligible' \subseteq Peers
  BY PeersAssumption DEF Resync, TypeOK, vars, miner, net, bounds
<1>2. TypeOK'
  BY <1>1 DEF TypeOK
<1>3. OneRequestEach' /\ RequestsArePast' /\ HeldArePast' /\ RevealsAreCommitted' /\ AckedHold'
  BY <1>1 DEF OneRequestEach, RequestsArePast, HeldArePast, RevealsAreCommitted, AckedHold
<1>4. EntriesAreSound' /\ MemoryIsFirst' /\ SendIsBound' /\ AnswersHold' /\ CurrentIsDurable'
  BY <1>1 DEF EntriesAreSound, SoundEntry, MemoryIsFirst, SendIsBound, AnswersHold, CurrentIsDurable
<1>5. DurableUnlessWriteFailed'
  BY <1>1 DEF DurableUnlessWriteFailed, NonceDurableBeforeSend
<1> QED
  BY <1>2, <1>3, <1>4, <1>5

LEMMA CrashKeeps == MinerInv /\ Crash => MinerInv'
<1> SUFFICES ASSUME MinerInv, Crash PROVE MinerInv'
  OBVIOUS
<1> USE DEF MinerInv
<1>1. /\ up' = FALSE /\ faults < MaxFaults /\ faults' = faults + 1
      /\ memory' = MemoryOf(EmptyFile) /\ tick' = NoSend /\ answers' = NoAnswers
      /\ UNCHANGED <<window, eligible, disk, wire, held, shown, assemblies,
                     writeFailed, fileLost>>
  BY DEF Crash
<1>2. /\ memory' \in Memory /\ memory'.file = EmptyFile
      /\ \A r \in Rounds, k \in Kinds : memory'.acked[r][k] = {}
      /\ \A r \in Rounds : EmptyFile[r] = NoEntry
  BY <1>1, Entries, FreshMemory DEF EmptyFile
<1>3. TypeOK'
  <2>1. faults' \in 0 .. MaxFaults
    BY <1>1, BoundsAssumption DEF TypeOK
  <2> QED
    BY <1>1, <1>2, <2>1, Entries DEF TypeOK, Memory, Send, File, Entry
<1>4. OneRequestEach' /\ RequestsArePast' /\ HeldArePast' /\ RevealsAreCommitted'
  BY <1>1 DEF OneRequestEach, RequestsArePast, HeldArePast, RevealsAreCommitted
<1>5. EntriesAreSound'
  <2>1. \A x \in Rounds : memory'.file[x] = NoEntry
    BY <1>2
  <2>2. \A x \in Rounds : SoundEntry(memory.file[x], x)'
    BY <2>1, Entries DEF SoundEntry
  <2> QED
    BY <1>1, <2>2 DEF EntriesAreSound, SoundEntry
<1>6. MemoryIsFirst'
  BY <1>1 DEF MemoryIsFirst
<1>7. SendIsBound' /\ AnswersHold' /\ CurrentIsDurable'
  BY <1>1, Entries DEF SendIsBound, AnswersHold, CurrentIsDurable, Kinds
<1>8. AckedHold'
  BY <1>2 DEF AckedHold, Kinds
<1>9. DurableUnlessWriteFailed'
  BY <1>1 DEF DurableUnlessWriteFailed, NonceDurableBeforeSend
<1> QED
  BY <1>3, <1>4, <1>5, <1>6, <1>7, <1>8, <1>9

LEMMA CorruptKeeps == MinerInv /\ Corrupt => MinerInv'
<1> SUFFICES ASSUME MinerInv, Corrupt PROVE MinerInv'
  OBVIOUS
<1> USE DEF MinerInv
<1>1. /\ ~up /\ disk' = [disk EXCEPT !.corrupt = TRUE] /\ fileLost' = TRUE
      /\ faults < MaxFaults /\ faults' = faults + 1
      /\ UNCHANGED <<window, eligible, up, memory, tick, wire, answers, held, shown,
                     assemblies, writeFailed>>
  BY DEF Corrupt, net
<1>2. disk' \in Disk /\ disk'.corrupt
  BY <1>1, MinerTypes DEF Disk
<1>3. TypeOK'
  <2>1. faults' \in 0 .. MaxFaults
    BY <1>1, BoundsAssumption DEF TypeOK
  <2> QED
    BY <1>1, <1>2, <2>1 DEF TypeOK, Disk, File, Entry
<1>4. OneRequestEach' /\ RequestsArePast' /\ HeldArePast' /\ RevealsAreCommitted' /\ AckedHold'
  BY <1>1 DEF OneRequestEach, RequestsArePast, HeldArePast, RevealsAreCommitted, AckedHold
<1>5. EntriesAreSound'
  BY <1>1, <1>2 DEF EntriesAreSound, SoundEntry
<1>6. MemoryIsFirst' /\ SendIsBound' /\ AnswersHold' /\ CurrentIsDurable'
  BY <1>1 DEF MemoryIsFirst, SendIsBound, AnswersHold, CurrentIsDurable
<1>7. DurableUnlessWriteFailed'
  BY <1>1 DEF DurableUnlessWriteFailed, NonceDurableBeforeSend
<1> QED
  BY <1>3, <1>4, <1>5, <1>6, <1>7

\* A process starts with what its file says, which is all it ever sent of the round.
LEMMA RestartKeeps == MinerInv /\ Restart => MinerInv'
<1> SUFFICES ASSUME MinerInv, Restart PROVE MinerInv'
  OBVIOUS
<1> USE DEF MinerInv
<1>1. /\ ~up /\ up' = TRUE /\ memory' = MemoryOf(Loaded)
      /\ disk' = IF disk.corrupt THEN [corrupt |-> FALSE, file |-> EmptyFile] ELSE disk
      /\ UNCHANGED <<window, eligible, tick, wire, answers, held, shown,
                     assemblies, faults, writeFailed, fileLost>>
  BY DEF Restart, net, bounds
<1>2. disk.file \in File /\ disk \in Disk /\ disk.corrupt \in BOOLEAN
  BY MinerTypes
<1>3. Loaded \in File /\ \A x \in Rounds :
        Loaded[x] = NoEntry \/ (Loaded[x] = disk.file[x] /\ ~disk.corrupt)
  <2>1. CASE disk.corrupt
    BY <2>1, Entries DEF Loaded, EmptyFile
  <2>2. CASE ~disk.corrupt
    <3>1. Loaded = Newest(disk.file)
      BY <2>2 DEF Loaded
    <3> QED
      BY <1>2, <2>2, <3>1, NewestKeeps
  <2> QED
    BY <2>1, <2>2
<1>4. PICK file \in File : file = Loaded
  BY <1>3
<1>5. /\ memory' \in Memory /\ memory'.file = file
      /\ \A r \in Rounds, k \in Kinds : memory'.acked[r][k] = {}
  BY <1>1, <1>4, FreshMemory
<1>6. /\ disk' \in Disk /\ ~disk'.corrupt
      /\ \/ disk.corrupt /\ disk'.file = EmptyFile /\ file = EmptyFile
         \/ ~disk.corrupt /\ disk' = disk /\ file = Newest(disk.file)
  BY <1>1, <1>2, <1>4, Entries DEF Disk, Loaded
<1>7. TypeOK'
  BY <1>1, <1>5, <1>6 DEF TypeOK, Memory, Disk, File, Entry
<1>8. OneRequestEach' /\ RequestsArePast' /\ HeldArePast' /\ RevealsAreCommitted'
  BY <1>1 DEF OneRequestEach, RequestsArePast, HeldArePast, RevealsAreCommitted
<1>9. \A x \in Rounds : SoundEntry(file[x], x)
  BY <1>3, <1>4, Entries DEF EntriesAreSound
<1>10. \A x \in Rounds : disk'.file[x] = NoEntry \/ (disk'.file[x] = disk.file[x] /\ ~disk.corrupt)
  BY <1>6 DEF EmptyFile
<1>11. \A x \in Rounds : SoundEntry(disk'.file[x], x)
  BY <1>10, Entries DEF EntriesAreSound
<1>12. EntriesAreSound'
  BY <1>1, <1>5, <1>9, <1>11 DEF EntriesAreSound, SoundEntry
<1>13. MemoryIsFirst'
  <2>1. disk'.file = file /\ Newest(disk'.file) = disk'.file
    <3>1. Newest(EmptyFile) = EmptyFile
      BY Entries, NewestKeeps DEF File, EmptyFile
    <3> QED
      BY <1>6, <3>1 DEF MemoryIsFirst
  <2> QED
    BY <1>1, <1>5, <1>6, <2>1 DEF MemoryIsFirst
<1>14. PICK r \in Rounds : r = window.round
  BY MinerTypes
<1>15. disk'.file[r].bundle = file[r].bundle
  <2>1. CASE disk'.file = EmptyFile /\ file = EmptyFile
    BY <2>1
  <2>2. CASE ~disk.corrupt /\ disk' = disk /\ file = Newest(disk.file)
    <3>1. \A s \in Rounds : disk.file[s].bundle # 0 => s <= r
      BY <1>14, <2>2 DEF EntriesAreSound, SoundEntry
    <3> QED
      BY <1>2, <2>2, <3>1, LatestIsKept
  <2> QED
    BY <1>6, <2>1, <2>2
<1>16. CurrentIsDurable'
  BY <1>1, <1>5, <1>14, <1>15 DEF CurrentIsDurable
<1>17. SendIsBound' /\ AnswersHold'
  BY <1>1, Entries DEF SendIsBound, AnswersHold, MemoryIsFirst, Kinds
<1>18. AckedHold'
  BY <1>5 DEF AckedHold, Kinds
<1>19. DurableUnlessWriteFailed'
  <2>1. ~fileLost => disk' = disk
    BY <1>6 DEF MemoryIsFirst
  <2> QED
    BY <1>1, <2>1 DEF DurableUnlessWriteFailed, NonceDurableBeforeSend
<1> QED
  BY <1>7, <1>8, <1>12, <1>13, <1>16, <1>17, <1>18, <1>19

-----------------------------------------------------------------------------
(***************************************************************************)
(* The theorems.                                                           *)
(***************************************************************************)
\* A round's committed flag stands for a validator that holds its bundle, and its
\* nonce is on disk before anything is sent, through crashes, restarts, failed
\* writes, late requests and lost state files.
THEOREM MinerInvariant == Spec => []MinerInv
<1>1. Init => MinerInv
  BY InitMiner
<1>2. MinerInv /\ [Next]_vars => MinerInv'
  BY AssembleKeeps, PushCommitKeeps, PushRevealKeeps, EndSendKeeps, HandleKeeps, ResyncKeeps,
     NextPhaseKeeps, CrashKeeps, CorruptKeeps, RestartKeeps DEF Next
<1> QED
  BY <1>1, <1>2, PTL DEF Spec

\* A reveal is under way only for a bundle some validator holds the commit of.
THEOREM NothingIsDisclosedInVain == Spec => []RevealsAreCommitted
<1>1. MinerInv => RevealsAreCommitted
  BY DEF MinerInv
<1> QED
  BY <1>1, MinerInvariant, PTL

\* A validator the miner stops pushing to holds what the miner would push.
THEOREM AcknowledgedHold == Spec => []AckedHold
<1>1. MinerInv => AckedHold
  BY DEF MinerInv
<1> QED
  BY <1>1, MinerInvariant, PTL

\* Whatever was sent or accepted in the current round survives any restart, unless
\* the file was lost or an assembly could not be written.
THEOREM SentIsDurable == Spec => []DurableUnlessWriteFailed
<1>1. MinerInv => DurableUnlessWriteFailed
  BY DEF MinerInv
<1> QED
  BY <1>1, MinerInvariant, PTL
=============================================================================
