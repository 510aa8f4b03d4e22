---------------------------- MODULE NeuronProcess ----------------------------
(***************************************************************************)
(* The life of a neuron process: the main thread (base/shutdown.py and the *)
(* main of the neuron) builds it, watches it and takes it down; the run    *)
(* loop (base/validator.py, base/miner.py) works and may die, hang or      *)
(* latch a demand to restart; one more worker is joined at the end: the    *)
(* read API of a validator, the push loop of a miner.  The operations of   *)
(* the loop are kept as how long they last and how they end: RpcGate,      *)
(* WeightEmission and RoundLifecycle have what happens inside.  A lapse is *)
(* the time since an instant, which is all the code computes from one.     *)
(***************************************************************************)
EXTENDS Integers

CONSTANTS
    Kinds,          \* neurons to run: "validator", "miner"
    TICK,           \* endure.tick_seconds
    RPC,            \* deadline of one chain RPC
    LONG,           \* the longest a forward or a sync lasts unless it hangs
    MAX_AGE,        \* health_tick_max_age_seconds
    MAX_DURATION,   \* health_tick_max_duration_seconds
    JOIN,           \* SHUTDOWN_JOIN_TIMEOUT_SECONDS
    POLL,           \* _WATCHDOG_POLL_SECONDS
    STARTUP,        \* STARTUP_SHUTDOWN_GRACE_SECONDS
    GRACE,          \* WATCHDOG_TEARDOWN_GRACE_SECONDS
    FAILURES,       \* CONSECUTIVE_FAILURES_BEFORE_RECONNECT
    THROTTLES       \* PROVIDER_THROTTLE_RECONNECT_THRESHOLD

ASSUME KindsAssumption == Kinds \subseteq {"validator", "miner"}
\* Validator.__init__ refuses MAX_AGE <= TICK, MAX_DURATION <= MAX_AGE and a
\* budget beyond MAX_DURATION.  That MAX_AGE also covers a reconnection and the
\* two block reads after it holds for the defaults (300 s against thrice 90 s).
ASSUME TimesAssumption ==
    /\ {TICK, RPC, LONG, JOIN, POLL, STARTUP, GRACE, FAILURES, THROTTLES} \subseteq Nat \ {0}
    /\ MAX_AGE \in Nat /\ TICK < MAX_AGE /\ 3 * RPC <= MAX_AGE
    /\ MAX_DURATION \in Nat /\ MAX_AGE < MAX_DURATION /\ LONG <= MAX_DURATION

VARIABLES
    kind,      \* which neuron this process is
    main,      \* where the main thread is, and the status it will exit with
    wait,      \* lapse of the main thread's wait
    forced,    \* lapse of the forced exit's timer, or None
    stop,      \* the event SIGINT and SIGTERM set
    pending,   \* lapse since that signal, up to the guard's grace
    quit,      \* should_exit and _shutdown_event
    latched,   \* _chain_rpc_restart_required
    loop,      \* what the run loop is doing, and how it ended
    spent,     \* lapse of that
    hangs,     \* the run loop's operation will never end
    beat,      \* lapse of _last_tick_monotonic, up to MAX_AGE + 1
    longOp,    \* lapse of _long_op_started_monotonic, or None
    counts,    \* consecutive loop failures and provider throttles
    helper     \* the other worker

mainVars == <<main, wait, forced>>
signalVars == <<stop, pending>>
loopVars == <<quit, latched, loop, spent, hangs, beat, longOp, counts, helper>>
processVars == <<kind, mainVars, signalVars, loopVars>>

None == -1
Outcomes == {"ok", "throttled", "stalled", "restart", "error", "unregistered"}
Timed == {"sync", "forward", "starting", "probe", "reconnect", "idle"}

ProcessInit ==
    /\ kind \in Kinds
    /\ main = [pc |-> "construct", code |-> 0, reason |-> "none"]
    /\ wait = 0 /\ forced = None /\ stop = FALSE /\ pending = 0
    /\ quit = FALSE /\ latched = FALSE
    /\ loop = [pc |-> "none", first |-> TRUE, outcome |-> "ok"]
    /\ spent = 0 /\ hangs = FALSE /\ beat = 0 /\ longOp = None
    /\ counts = [failures |-> 0, throttles |-> 0]
    /\ helper = "none"

-----------------------------------------------------------------------------
(* The main thread.                                                        *)

\* The main thread goes on to `pc', where a wait begins anew.
MainTo(pc) == main' = [main EXCEPT !.pc = pc] /\ wait' = 0

\* terminate_process: callbacks are drained, then os._exit.
Terminate(code) == main' = [main EXCEPT !.pc = "drain", !.code = code] /\ wait' = 0

\* The neuron is built: it has marked progress, and `with' starts its threads.
Constructed ==
    /\ main.pc = "construct"
    /\ MainTo("poll")
    /\ loop' = [loop EXCEPT !.pc = "sync"]
    /\ helper' = "running" /\ beat' = 0
    /\ longOp' = IF kind = "validator" THEN 0 ELSE None
    /\ UNCHANGED <<kind, forced, signalVars, quit, latched, spent, hangs, counts>>

\* Not registered, refused configuration, or any other failure.
ConstructionFails ==
    /\ main.pc = "construct"
    /\ Terminate(1)
    /\ UNCHANGED <<kind, forced, signalVars, loopVars>>

\* Mutant: the grace is waited for and nothing follows.
GuardFiresNever == FALSE

\* StartupShutdownGuard: a stop that construction outlasts ends the process.
GuardFires == main.pc = "construct" /\ stop /\ pending = STARTUP

StartupGuard ==
    /\ GuardFires
    /\ Terminate(1)
    /\ UNCHANGED <<kind, forced, signalVars, loopVars>>

Poll ==
    /\ main.pc = "poll"
    /\ MainTo(IF stop THEN "stopped" ELSE "latch")
    /\ UNCHANGED <<kind, forced, signalVars, loopVars>>

\* force_restart_if_rpc_abandoned, and on to `pc' without a demand.
ForceOr(pc) == IF latched THEN Terminate(1) ELSE MainTo(pc)

CheckLatch ==
    /\ main.pc = "latch"
    /\ ForceOr("alive")
    /\ UNCHANGED <<kind, forced, signalVars, loopVars>>

CheckAlive ==
    /\ main.pc = "alive"
    /\ IF loop.pc = "dead"
       THEN main' = [main EXCEPT !.pc = "recheck", !.reason = "loop_exited"]
       ELSE main' = [main EXCEPT !.pc = IF kind = "validator" THEN "marker" ELSE "sleep"]
    /\ wait' = 0
    /\ UNCHANGED <<kind, forced, signalVars, loopVars>>

StaleIf(condition) ==
    main' = IF condition
            THEN [main EXCEPT !.pc = "recheck", !.reason = "tick_stale"]
            ELSE [main EXCEPT !.pc = "sleep"]

\* _tick_stale: the marker of a long operation, and only without one the
\* heartbeat, read next.
ReadMarker ==
    /\ main.pc = "marker"
    /\ IF longOp # None THEN StaleIf(longOp > MAX_DURATION)
                        ELSE main' = [main EXCEPT !.pc = "heartbeat"]
    /\ UNCHANGED <<kind, wait, forced, signalVars, loopVars>>

ReadHeartbeat ==
    /\ main.pc = "heartbeat"
    /\ StaleIf(beat > MAX_AGE)
    /\ UNCHANGED <<kind, wait, forced, signalVars, loopVars>>

\* The loop may have died by latching; otherwise a teardown, under a timer.
Recheck ==
    /\ main.pc = "recheck"
    /\ IF latched THEN Terminate(1) /\ UNCHANGED forced
                  ELSE /\ main' = [main EXCEPT !.pc = "ask", !.code = 1]
                       /\ wait' = 0 /\ forced' = 0
    /\ UNCHANGED <<kind, signalVars, loopVars>>

Wake ==
    /\ main.pc = "sleep" /\ (stop \/ wait = POLL)
    /\ MainTo("poll")
    /\ UNCHANGED <<kind, forced, signalVars, loopVars>>

\* A signal that races the latch.
Stopped ==
    /\ main.pc = "stopped"
    /\ ForceOr("ask")
    /\ UNCHANGED <<kind, forced, signalVars, loopVars>>

\* stop_run_thread asks every worker to end; an axon that does not stop makes the
\* shutdown incomplete.
AskToQuit ==
    /\ main.pc = "ask"
    /\ quit' = TRUE /\ wait' = 0
    /\ \/ main' = [main EXCEPT !.pc = "joinLoop"]
       \/ main' = [main EXCEPT !.pc = "joinLoop", !.code = 1, !.reason = "incomplete"]
    /\ UNCHANGED <<kind, forced, signalVars, latched, loop, spent, hangs, beat,
                   longOp, counts, helper>>

\* A worker that does not end in time makes the exit a failure and leaves the
\* transport open; the next one is joined all the same.
Joined(worker, pc) ==
    /\ worker \/ wait = JOIN
    /\ main' = [main EXCEPT !.pc = pc, !.code = IF worker THEN @ ELSE 1,
                            !.reason = IF worker THEN @ ELSE "incomplete"]
    /\ wait' = 0
    /\ UNCHANGED <<kind, forced, signalVars, loopVars>>

JoinLoop == main.pc = "joinLoop" /\ Joined(loop.pc = "dead", "joinHelper")
JoinHelper == main.pc = "joinHelper" /\ Joined(helper = "ended", "close")

\* close_transport_resources, skipped when the shutdown was incomplete; a resource
\* that cannot be closed is reported after the others were.
Close ==
    /\ main.pc = "close"
    /\ \/ MainTo("final")
       \/ /\ main.reason # "incomplete"
          /\ main' = [main EXCEPT !.pc = "final", !.code = 1]
          /\ wait' = 0
    /\ UNCHANGED <<kind, forced, signalVars, loopVars>>

\* Mutant: no recheck of the latch once the workers have been joined.
FinallyUnchecked == main' = [main EXCEPT !.pc = "drain"] /\ wait' = 0

\* main's finally checks the latch once more, then the entrypoint ends the
\* process with what main ended with.
Finally == ForceOr("drain")

Final ==
    /\ main.pc = "final"
    /\ Finally
    /\ UNCHANGED <<kind, forced, signalVars, loopVars>>

Exit == main' = [main EXCEPT !.pc = "exited"] /\ wait' = 0

\* The callbacks are done, or their timer is.
Drained ==
    /\ main.pc = "drain"
    /\ Exit
    /\ UNCHANGED <<kind, forced, signalVars, loopVars>>

ForcedExit ==
    /\ forced = GRACE /\ main.pc # "exited"
    /\ main' = [main EXCEPT !.pc = "exited", !.code = 1]
    /\ UNCHANGED <<kind, wait, forced, signalVars, loopVars>>

Signal ==
    /\ ~stop /\ main.pc # "exited"
    /\ stop' = TRUE
    /\ UNCHANGED <<kind, mainVars, pending, loopVars>>

-----------------------------------------------------------------------------
(* The run loop.                                                           *)

alive == main.pc # "exited"
unmoved == <<kind, mainVars, signalVars, hangs, helper>>

LoopTo(pc) ==
    /\ loop' = [loop EXCEPT !.pc = pc, !.first = @ /\ pc \in {"reconnect", "starting"}]
    /\ spent' = 0

\* Where the loop is after a sync: a validator that starts reads the block twice.
Onward == IF kind = "miner" THEN "idle" ELSE IF loop.first THEN "starting" ELSE "probe"

\* An operation of the loop ends, well or not, when it hangs not.  The marks of
\* a long one are taken off in EndLongOp and ClearMarker.
Ends(pc) == alive /\ loop.pc = pc /\ ~hangs

\* Mutant: the marker goes first and the heartbeat follows.
MarkEndsMarkerFirst == longOp' = None /\ UNCHANGED beat

\* _end_long_op: heartbeat before clearing the marker.
MarkEnds == beat' = 0 /\ UNCHANGED longOp

EndLongOp(outcome) ==
    /\ MarkEnds
    /\ loop' = [loop EXCEPT !.pc = IF loop.pc = "sync" THEN "synced" ELSE "forwarded",
                            !.outcome = outcome]
    /\ spent' = 0

\* check_registered calls sys.exit, which ends the thread.
SyncEnds ==
    /\ Ends("sync")
    /\ \E outcome \in Outcomes : EndLongOp(outcome)
    /\ UNCHANGED <<unmoved, quit, latched, counts>>

Die == LoopTo("dead")

\* What the loop does with the outcome of a sync; a validator that only was
\* throttled counts it and goes on.
AfterSync ==
    LET o == loop.outcome
        failures == IF o = "error" THEN counts.failures + 1 ELSE 0
        throttles == IF o = "throttled" THEN counts.throttles + 1
                     ELSE IF o = "ok" THEN 0 ELSE counts.throttles
        stalled == o = "stalled" /\ (kind = "validator" \/ ~loop.first)
        rebuild == \/ stalled
                   \/ kind = "validator" /\ failures >= FAILURES
                   \/ kind = "validator" /\ ~loop.first /\ o # "error" /\ throttles >= THROTTLES
    IN
    \/ /\ o = "restart"
       /\ latched' = TRUE /\ quit' = (quit \/ kind = "miner") /\ Die
       /\ UNCHANGED counts
    \/ /\ o = "unregistered" \/ (o = "error" /\ quit)
       /\ Die /\ UNCHANGED <<latched, quit, counts>>
    \/ /\ loop.first
       /\ (o = "error" /\ ~quit) \/ (o = "stalled" /\ ~stalled)
       /\ quit' = TRUE /\ Die /\ UNCHANGED <<latched, counts>>
    \/ /\ o \in {"ok", "throttled"} \/ stalled \/ (o = "error" /\ ~quit /\ ~loop.first)
       /\ LoopTo(IF rebuild THEN "reconnect" ELSE Onward)
       /\ counts' = IF kind = "miner" THEN counts
                    ELSE [failures |-> IF rebuild THEN 0 ELSE failures,
                          throttles |-> IF rebuild /\ throttles >= THROTTLES THEN 0 ELSE throttles]
       /\ UNCHANGED <<latched, quit>>

\* The second half of _end_long_op, and the rest of the iteration.
ClearMarker ==
    /\ alive
    /\ beat' = 0 /\ longOp' = None
    /\ \/ loop.pc = "synced" /\ AfterSync
       \/ /\ loop.pc = "forwarded" /\ LoopTo("idle")
          /\ UNCHANGED <<latched, quit, counts>>
    /\ UNCHANGED unmoved

\* _reconnect_subtensor keeps the old connection on any failure, but one.
Reconnect ==
    /\ Ends("reconnect")
    /\ \/ LoopTo(Onward) /\ UNCHANGED latched
       \/ latched' = TRUE /\ Die
    /\ UNCHANGED <<unmoved, quit, beat, longOp, counts>>

Starting ==
    /\ Ends("starting")
    /\ LoopTo("probe")
    /\ UNCHANGED <<unmoved, quit, latched, beat, longOp, counts>>

\* _safe_block swallows what it meets; forward begins a long operation.
Forward ==
    /\ Ends("probe")
    /\ LoopTo("forward")
    /\ longOp' = IF longOp = None THEN 0 ELSE longOp
    /\ UNCHANGED <<unmoved, quit, latched, beat, counts>>

\* forward swallows what its tick raises.
ForwardEnds ==
    /\ Ends("forward")
    /\ EndLongOp("ok")
    /\ UNCHANGED <<unmoved, quit, latched, counts>>

\* The pause of a validator, after which it syncs.
Paused ==
    /\ alive /\ kind = "validator" /\ loop.pc = "idle" /\ (quit \/ spent = TICK)
    /\ IF quit THEN Die /\ UNCHANGED <<beat, longOp>>
               ELSE LoopTo("sync") /\ beat' = 0 /\ longOp' = 0
    /\ UNCHANGED <<unmoved, quit, latched, counts>>

\* The pause of a miner reads the block once a second until a sync is due: it may
\* fail as a sync does.
MinerPaused ==
    /\ Ends("idle") /\ kind = "miner"
    /\ IF quit THEN Die ELSE LoopTo("sync") \/ LoopTo("reconnect")
    /\ UNCHANGED <<unmoved, quit, latched, beat, longOp, counts>>

\* Fault: the operation under way never ends.
Hang ==
    /\ alive /\ ~hangs /\ loop.pc \in Timed \ {"idle"}
    /\ hangs' = TRUE
    /\ UNCHANGED <<kind, mainVars, signalVars, quit, latched, loop, spent, beat, longOp,
                   counts, helper>>

\* The other worker ends when asked to, or hangs for ever.
HelperEnds ==
    /\ alive /\ helper = "running"
    /\ \/ quit /\ helper' = "ended"
       \/ helper' = "hung"
    /\ UNCHANGED <<kind, mainVars, signalVars, quit, latched, loop, spent, hangs, beat,
                   longOp, counts>>

-----------------------------------------------------------------------------
(* Time.                                                                   *)

Lasts == [sync |-> LONG, forward |-> LONG, starting |-> RPC, probe |-> RPC,
          reconnect |-> RPC, idle |-> TICK]

\* What is due happens before time goes on; the reads of one watchdog check and
\* the two marks of an operation's end are too close for it to pass in between.
NothingDue ==
    /\ alive /\ main.pc \in {"construct", "sleep", "joinLoop", "joinHelper", "drain"}
    /\ ~(main.pc = "construct" /\ stop /\ pending = STARTUP)
    /\ ~(main.pc = "sleep" /\ (stop \/ wait = POLL))
    /\ ~(main.pc = "joinLoop" /\ (wait = JOIN \/ loop.pc = "dead"))
    /\ ~(main.pc = "joinHelper" /\ (wait = JOIN \/ helper = "ended"))
    /\ ~(main.pc = "drain" /\ wait = GRACE)
    /\ forced # GRACE
    /\ loop.pc \notin {"synced", "forwarded"}
    /\ loop.pc \in Timed /\ ~hangs => spent < Lasts[loop.pc]
    /\ ~(loop.pc = "idle" /\ quit)

UpTo(limit, lapse) == IF lapse < limit THEN lapse + 1 ELSE limit

TimePasses ==
    /\ NothingDue
    /\ wait' = IF main.pc = "construct" THEN wait ELSE wait + 1
    /\ forced' = IF forced = None THEN None ELSE forced + 1
    /\ pending' = IF stop /\ main.pc = "construct" THEN pending + 1 ELSE pending
    /\ spent' = IF loop.pc \in Timed /\ ~hangs THEN spent + 1 ELSE spent
    /\ beat' = IF kind = "validator" THEN UpTo(MAX_AGE + 1, beat) ELSE beat
    /\ longOp' = IF longOp = None THEN None ELSE UpTo(MAX_DURATION + 1, longOp)
    /\ UNCHANGED <<kind, main, stop, quit, latched, loop, hangs, counts, helper>>

MainStep ==
    \/ StartupGuard \/ Poll \/ CheckLatch \/ CheckAlive \/ ReadMarker \/ ReadHeartbeat
    \/ Recheck \/ Wake \/ Stopped \/ AskToQuit \/ JoinLoop \/ JoinHelper \/ Close \/ Final
    \/ ForcedExit

LoopStep ==
    \/ SyncEnds \/ ClearMarker \/ Reconnect \/ Starting \/ Forward \/ ForwardEnds \/ Paused
    \/ MinerPaused

ProcessNext ==
    \/ Constructed \/ ConstructionFails \/ MainStep \/ Drained \/ LoopStep
    \/ HelperEnds \/ Signal \/ Hang \/ TimePasses

\* Threads run and time passes.  Nothing makes construction end.
Fairness ==
    /\ WF_processVars(MainStep) /\ WF_processVars(LoopStep)
    /\ WF_processVars(TimePasses) /\ WF_processVars(Drained)

FairSpec == ProcessInit /\ [][ProcessNext]_processVars /\ Fairness

-----------------------------------------------------------------------------
(* Properties                                                              *)

\* A process that reports success has no demand to restart pending, and every
\* worker has ended: whatever latches, hangs or fails while the workers are being
\* joined is seen.
SuccessIsClean ==
    main.pc = "exited" /\ main.code = 0 =>
        ~latched /\ loop.pc = "dead" /\ helper = "ended"

\* The watchdog gives a loop up as stale only when it really hangs: no reading
\* that straddles the end of a long operation, no reconnection and no pause
\* between two heartbeats looks like one.
OnlyHungIsStale ==
    main.reason = "tick_stale" => hangs

\* What must end the process does: a signal at any time, a demand to restart, a
\* loop that died, and a validator's loop that hangs.
Ending ==
    \/ stop \/ latched \/ loop.pc = "dead"
    \/ hangs /\ kind = "validator"

EndsWhenItMust == Ending ~> main.pc = "exited"
=============================================================================
