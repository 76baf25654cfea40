----------------------------- MODULE ControlLoop -----------------------------
(***************************************************************************)
(* The closed-loop tuner of an upload (crates/transfer_engine/src/control  *)
(* and adaptive.rs): the streaming task records its writes in the shared   *)
(* MetricsHistory, a background task wakes every 100 ms, takes a sample,   *)
(* classifies the bottleneck, decides and writes the shared TuningConfig.  *)
(* Each of these takes a lock of its own, so that reset_for_resume may     *)
(* come between any two of them.  reset_for_resume itself holds the lock   *)
(* of the metrics until it has written the configuration: one step.        *)
(*                                                                         *)
(* Chunk sizes are in bytes, rates in hundredths of a Mbps rounded down.   *)
(* What the classifier reads of its three latest samples is abstracted to  *)
(* the record of the comparisons it makes (Signals).                       *)
(***************************************************************************)
EXTENDS Integers

CONSTANTS
    Options,         \* configurations the options of the user seed
    OthersSample,    \* whether the holder of the public `metrics' field takes samples too
    MaxAdjust,       \* bound on the decisions of a behaviour
    MaxResets        \* bound on reset_for_resume calls

Tunings == [chunk : Nat, parallel : Nat, buffer : Nat, rate : Nat]

ASSUME ControlAssumption ==
    Options \subseteq Tunings /\ OthersSample \in BOOLEAN /\ MaxAdjust \in Nat /\ MaxResets \in Nat

VARIABLES
    running,         \* ControlLoop.running: "new" before spawn, "on", "off" once stopped
    nsamples,        \* length of MetricsHistory.samples, up to the 3 that classify needs
    written,         \* whether the current window holds a write
    counters,        \* Classifier.thermal_counter and link_counter
    config,          \* the shared TuningConfig
    loopAt,          \* the background task: "none", before a "tick" or after the snapshot ("sampled"),
                     \* the classification ("classified"), the decision ("decided"); "ended"
    found,           \* bottleneck that this round's classification found
    read,            \* the configuration this round's decision was taken from
    cooling,         \* whether the last decision was applied less than 500 ms ago
    transport,       \* the transport_mode of the loop
    adjusts, resets

loopVars == <<loopAt, found, read, cooling, adjusts>>
controlVars == <<running, nsamples, written, counters, config, transport, resets, loopVars>>

NoLimit == 0         \* throughput_limit_mbps = None
Needed  == 3         \* samples that classify looks at

MIN_CHUNK_BYTES == 16 * 1024
MAX_CHUNK_BYTES == 2 * 1024 * 1024
MIN_PARALLELISM == 1
MAX_PARALLELISM == 8
MIN_RATE == 1000
MAX_RATE == 200000
confirmation_threshold == 3

DefaultTuning == [chunk |-> 1048576, parallel |-> 1, buffer |-> 4096, rate |-> NoLimit]

\* What ControlLoop::new sets, when no option changes it.
DefaultOptions == {DefaultTuning}

Least(a, b) == IF a < b THEN a ELSE b
Most(a, b)  == IF a > b THEN a ELSE b
Clamp(x, lo, hi) == Least(Most(x, lo), hi)

-----------------------------------------------------------------------------
(* classifier.rs. cpu_usage_pct is 0 in every sample the history takes, so *)
(* that the CPU rule only has its proxy form.                              *)

\* The comparisons classify makes, each as one Boolean: RTT up and significant loss; low throughput
\* without loss and a queue; the CPU proxy; a slow decay with a stable RTT; no loss, a short RTT and
\* a steady throughput.
Signals == [congested : BOOLEAN, slow : BOOLEAN, cpu : BOOLEAN, decays : BOOLEAN, steady : BOOLEAN]

classify(s, c) ==
    LET thermal == IF s.decays THEN c.thermal + 1 ELSE 0
        link    == IF s.steady THEN c.link + 1 ELSE 0
        Is(b, t, l) == [bottleneck |-> b, counters |-> [thermal |-> t, link |-> l]]
    IN  IF s.congested THEN Is("NetworkCongestion", c.thermal, c.link)
        ELSE IF s.slow THEN Is("ReceiverSlow", c.thermal, c.link)
        ELSE IF s.cpu THEN Is("CpuBound", c.thermal, c.link)
        ELSE IF thermal >= confirmation_threshold THEN Is("ThermalThrottling", 0, c.link)
        ELSE IF link >= confirmation_threshold THEN Is("LinkLimited", thermal, 0)
        ELSE Is("Unknown", thermal, link)

-----------------------------------------------------------------------------
(* decision.rs: what each bottleneck does to the configuration.            *)

\* Mutant: a step limit that moves away from the target.
limit_step_away(old, new, delta) ==
    IF new > old THEN Least(old + delta, new) ELSE Most(old + delta, new)

limit_step(old, new, delta) ==
    IF new > old THEN Least(old + delta, new) ELSE Most(old - delta, new)

RateOf(c) == IF c.rate = NoLimit THEN 100000 ELSE c.rate

\* The pacing rate after a back-off to pct percent, never below 50 Mbps.
BackOff(c, pct) ==
    LET old == RateOf(c)
    IN  Clamp(limit_step(old, Most((old * pct) \div 100, 5000), (old * 15) \div 100), MIN_RATE, MAX_RATE)

SpeedUp(c) ==
    LET old == RateOf(c)
    IN  Clamp(limit_step(old, Least((old * 105) \div 100, MAX_RATE), (old * 15) \div 100), MIN_RATE, MAX_RATE)

Scaled(c, pct) == Clamp((c.chunk * pct) \div 100, MIN_CHUNK_BYTES, MAX_CHUNK_BYTES)
Fewer(c, n) == Clamp(Most(1, c.parallel - n), MIN_PARALLELISM, MAX_PARALLELISM)

\* decide_for_transport, from the configuration r that was read, and apply, to the configuration c
\* as it is by then: the fields that the decision leaves out stay as they are in c. The congestion
\* window that a congestion decision also carries sets the limit first and the pacing rate then
\* overwrites it.
Adjusted(c, r, bottleneck, mode) ==
    LET chunk(pct) == IF mode = "quic" THEN c.chunk ELSE Scaled(r, pct)
        buffer(size) == IF mode = "quic" THEN c.buffer ELSE size
    IN  CASE bottleneck = "NetworkCongestion" ->
               [c EXCEPT !.chunk = chunk(75), !.parallel = Fewer(r, 1), !.rate = BackOff(r, 70),
                         !.buffer = buffer((r.buffer * 8) \div 10)]
          [] bottleneck = "ReceiverSlow" ->
               [c EXCEPT !.chunk = chunk(80), !.parallel = Fewer(r, 1), !.rate = BackOff(r, 85),
                         !.buffer = buffer(r.buffer)]
          [] bottleneck = "CpuBound" -> [c EXCEPT !.chunk = chunk(100), !.parallel = Fewer(r, 2)]
          [] bottleneck = "ThermalThrottling" ->
               [c EXCEPT !.chunk = chunk(90), !.parallel = Fewer(r, 1), !.rate = BackOff(r, 90)]
          [] bottleneck = "LinkLimited" ->
               [c EXCEPT !.chunk = chunk(110), !.parallel = Fewer(r, 0), !.rate = SpeedUp(r)]

-----------------------------------------------------------------------------
(* loop.rs                                                                 *)

\* The caller seeds the configuration before it spawns the loop.
ControlInit ==
    /\ running = "new" /\ nsamples = 0 /\ written = FALSE
    /\ counters = [thermal |-> 0, link |-> 0]
    /\ config \in Options /\ transport = "tcp"
    /\ loopAt = "none" /\ found = "Unknown" /\ read = DefaultTuning /\ cooling = FALSE
    /\ adjusts = 0 /\ resets = 0

set_transport(mode) ==
    /\ running = "new" /\ transport' = mode
    /\ UNCHANGED <<running, nsamples, written, counters, config, resets, loopVars>>

spawn ==
    /\ running = "new" /\ running' = "on" /\ loopAt' = "tick"
    /\ UNCHANGED <<nsamples, written, counters, config, transport, resets, found, read, cooling, adjusts>>

record_write ==
    /\ ~written
    /\ written' = TRUE
    /\ UNCHANGED <<running, nsamples, counters, config, transport, resets, loopVars>>

\* snapshot: the window is reset and one sample pushed.
Snapshot == written' = FALSE /\ nsamples' = Least(nsamples + 1, Needed)

\* The holder of the public field calls snapshot itself.
OtherSnapshot ==
    /\ OthersSample
    /\ Snapshot
    /\ UNCHANGED <<running, counters, config, transport, resets, loopVars>>

\* The end of a round: `while running' is looked at before the next tick is awaited, so that a stop
\* during a round, or while the tick is awaited, lets one round go on to its end.
\* The variables of the round go out of scope.
RoundEnds ==
    /\ loopAt' = IF running = "on" THEN "tick" ELSE "ended"
    /\ found' = "Unknown" /\ read' = DefaultTuning

\* A history without samples ends the round before the snapshot.
EmptyTick ==
    /\ loopAt = "tick" /\ nsamples = 0
    /\ RoundEnds
    /\ UNCHANGED <<running, nsamples, written, counters, config, transport, resets,
                   cooling, adjusts>>

Tick ==
    /\ loopAt = "tick" /\ nsamples > 0
    /\ Snapshot
    /\ loopAt' = "sampled"
    /\ UNCHANGED <<running, counters, config, transport, resets, found, read, cooling, adjusts>>

\* The history is read again: a reset since the snapshot has emptied it.
Classify(s) ==
    LET result == IF nsamples < Needed THEN [bottleneck |-> "Unknown", counters |-> counters]
                  ELSE classify(s, counters)
    IN  /\ loopAt = "sampled"
        /\ IF nsamples = 0
           THEN RoundEnds /\ UNCHANGED counters
           ELSE /\ loopAt' = "classified" /\ found' = result.bottleneck /\ counters' = result.counters
                /\ UNCHANGED read
        /\ UNCHANGED <<running, nsamples, written, config, transport, resets, cooling, adjusts>>

\* The configuration is read and the decision taken, unless the last one is too recent or the
\* bottleneck unknown.
Decide ==
    /\ loopAt = "classified"
    /\ IF cooling \/ found = "Unknown"
       THEN RoundEnds /\ UNCHANGED adjusts
       ELSE /\ adjusts < MaxAdjust /\ adjusts' = adjusts + 1
            /\ read' = config /\ loopAt' = "decided" /\ UNCHANGED found
    /\ UNCHANGED <<running, nsamples, written, counters, config, transport, resets, cooling>>

ApplyDecision ==
    /\ loopAt = "decided"
    /\ config' = Adjusted(config, read, found, transport)
    /\ cooling' = TRUE
    /\ RoundEnds
    /\ UNCHANGED <<running, nsamples, written, counters, transport, resets, adjusts>>

\* 500 ms have passed since a decision was applied.
CooldownEnds ==
    /\ cooling /\ cooling' = FALSE
    /\ UNCHANGED <<running, nsamples, written, counters, config, transport, resets,
                   loopAt, found, read, adjusts>>

stop ==
    /\ running = "on" /\ running' = "off"
    /\ UNCHANGED <<nsamples, written, counters, config, transport, resets, loopVars>>

reset_for_resume ==
    /\ resets < MaxResets
    /\ nsamples' = 0 /\ written' = FALSE /\ config' = DefaultTuning /\ resets' = resets + 1
    /\ UNCHANGED <<running, counters, transport, loopVars>>

\* The background task.
LoopStep == EmptyTick \/ Tick \/ (\E s \in Signals : Classify(s)) \/ Decide \/ ApplyDecision

ControlNext ==
    \/ \E mode \in {"tcp", "quic"} : set_transport(mode)
    \/ spawn \/ record_write \/ OtherSnapshot
    \/ LoopStep \/ CooldownEnds
    \/ stop \/ reset_for_resume

ControlSpec == ControlInit /\ [][ControlNext]_controlVars

-----------------------------------------------------------------------------
Bottlenecks == {"NetworkCongestion", "ReceiverSlow", "CpuBound", "ThermalThrottling", "LinkLimited"}
BackOffs == {"NetworkCongestion", "ReceiverSlow", "ThermalThrottling"}

ControlTypeOK ==
    /\ running \in {"new", "on", "off"} /\ written \in BOOLEAN /\ nsamples \in 0..Needed
    /\ counters \in [thermal : 0..2, link : 0..2]
    /\ config \in Tunings /\ read \in Tunings
    /\ loopAt \in {"none", "tick", "sampled", "classified", "decided", "ended"}
    /\ found \in Bottlenecks \cup {"Unknown"}
    /\ cooling \in BOOLEAN /\ transport \in {"tcp", "quic"}
    \* a decision to be taken has a bottleneck
    /\ loopAt = "decided" => found # "Unknown"

\* A decision taken for congestion, a slow receiver or heat raises neither the rate, the chunk size
\* nor the parallelism above the configuration it was taken from (loop.rs:111), whatever the user's
\* options, the earlier decisions and a reset left there. When it is applied (loop.rs:149), that
\* configuration is still the shared one unless reset_for_resume has put the defaults in its place:
\* only then may the decision raise what is shared.
\* The floors are the exception: a rate below 50 Mbps, `(old_rate * 0.7).max(50.0)', a chunk below
\* 16 KB or a parallelism of 0, which options of the user may seed, are raised towards the floor,
\* although the comments of decision.rs (`Back off aggressively', `reduce speed cautiously') exempt
\* nobody.
BackOffNeverSpeedsUp ==
    [][loopAt = "decided" /\ loopAt' # "decided" /\ found \in BackOffs
         => /\ config = read \/ (config = DefaultTuning /\ resets > 0)
            /\ RateOf(config') <= Most(RateOf(read), 5000)
            /\ config'.parallel <= Most(read.parallel, MIN_PARALLELISM)
            /\ config'.chunk <= Most(read.chunk, MIN_CHUNK_BYTES) \/ config'.chunk = config.chunk]_controlVars

\* The background task is scheduled and the upload goes on writing.
ControlFair == ControlSpec /\ WF_controlVars(LoopStep) /\ WF_controlVars(record_write)

\* loop.rs:13-17 says that the background task takes samples, classifies, decides and applies. While
\* the upload keeps writing and only the loop takes samples, a sample is taken some day.
LoopTakesSamples == [](running = "on" => <>(nsamples > 0 \/ running = "off"))
=============================================================================
