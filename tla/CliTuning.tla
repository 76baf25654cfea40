------------------------------ MODULE CliTuning ------------------------------
(***************************************************************************)
(* The feedback loop that tunes a running upload of the CLI                *)
(* (cli/src/adaptive/, transport_switcher): classify the samples, plan,    *)
(* apply the plan, measure one interval later, commit or revert, and every *)
(* third cycle let the hill-climbing tuner try a step of its own.          *)
(*                                                                         *)
(* Samples are abstracted to what the loop tells apart: the two best       *)
(* scores, whether the round trip is long, and a throughput level (levels  *)
(* are more than 2% apart).  The length of the loop's sleeps and the       *)
(* iterations that find too few samples are left out.  Sizes are the       *)
(* code's, in bytes, KB and hundredths of a Mbit/s.                        *)
(***************************************************************************)
EXTENDS Integers, FiniteSets

CONSTANTS CpuCount,      \* num_cpus::get().max(2)
          Throughputs,   \* throughput levels, 0 among them
          ScoreLevels,   \* percentages a category's score can have
          MaxCycles,     \* full cycles of the loop
          Overrides,     \* transports the user may have asked for
          NoOverride     \* no --mode on the command line

VARIABLES phase,         \* where run_loop is
          large,         \* the file is larger than 4 MB
          override,      \* OVERRIDE_TRANSPORT_MODE
          cfg,           \* state.current_config
          prevCfg,       \* prev_config
          prevTp,        \* prev_tp
          cycle,
          tuner,         \* the AutoTuner
          grown          \* history: whether a plan has raised the chunk size

tuningVars == <<phase, large, override, cfg, prevCfg, prevTp, cycle, tuner, grown>>

KB == 1024
Modes == {"TcpBuffered", "TcpZeroCopy", "Quic", "UdpCustom"}
ASSUME TuningAssumption ==
    /\ CpuCount \in Nat /\ CpuCount >= 2
    /\ Throughputs \subseteq Nat /\ 0 \in Throughputs
    /\ ScoreLevels \subseteq 0..100
    /\ MaxCycles \in Nat
    /\ Overrides \subseteq Modes \cup {NoOverride}

Unlimited == 0
Up(a, b) == IF a > b THEN a ELSE b
Down(a, b) == IF a < b THEN a ELSE b
Within(n, low, high) == low <= n /\ n <= high

DefaultCfg ==
    [chunk |-> 1024 * KB, streams |-> 1, send_kb |-> 4096, recv_kb |-> 4096,
     batch |-> 4, workers |-> CpuCount, limit |-> Unlimited, mode |-> "TcpBuffered"]

\* The type of the loop's state.
CliTuningTypeOK ==
    /\ phase \in {"top", "measuring", "stopped"}
    /\ large \in BOOLEAN /\ override \in Modes \cup {NoOverride}
    /\ {cfg, prevCfg} \subseteq
          [chunk : Nat, streams : Nat, send_kb : Nat, recv_kb : Nat, batch : Nat,
           workers : Nat, limit : Nat, mode : Modes]
    /\ prevTp \in Throughputs
    /\ cycle \in 0..MaxCycles
    /\ tuner \in [chunkUp : BOOLEAN, streamUp : BOOLEAN, bufferUp : BOOLEAN,
                  stale : 0..8, probing : BOOLEAN]
    /\ grown \in BOOLEAN

NewTuner == [chunkUp |-> TRUE, streamUp |-> TRUE, bufferUp |-> TRUE, stale |-> 0,
             probing |-> FALSE]

TuningInit ==
    /\ phase = "top"
    /\ large \in BOOLEAN
    /\ override \in Overrides
    /\ cfg = [DefaultCfg EXCEPT !.mode = IF override = NoOverride THEN @ ELSE override]
    /\ prevCfg = cfg
    /\ prevTp = 0
    /\ cycle = 0
    /\ tuner = NewTuner
    /\ grown = FALSE

----------------------------------------------------------------------------
(* Classification and planning *)

Categories == {"Cpu", "Network", "Disk", "Memory", "Scheduler", "Thermal", "KernelCopy"}

\* Whatever the samples, the classifier keeps the best score, its category and its
\* margin over the second best.
Report(w, best, second) ==
    [bottleneck |-> IF best < 8 THEN "Healthy" ELSE w,
     confidence |-> IF best < 5 THEN 0 ELSE ((best - second) * 100) \div best]

Reports ==
    {Report(w, s[1], s[2]) :
        w \in Categories, s \in {p \in ScoreLevels \X ScoreLevels : p[2] <= p[1]}}

Doubled(c) == [c EXCEPT !.chunk = Up(@, Down(@ * 2, 2048 * KB))]
Halved(c, floor) == [c EXCEPT !.chunk = Down(@, Up(@ \div 2, floor))]
OneStream(c) == [c EXCEPT !.streams = Down(@, 1)]

\* Mutant: streams are added without a cap.
plan_network_uncapped(c) ==
    [Doubled(c) EXCEPT !.streams = @ + 2,
                       !.recv_kb = IF c.send_kb < 4096 THEN 4096 ELSE @,
                       !.send_kb = Up(@, 4096)]

plan_network(c) ==
    [Doubled(c) EXCEPT !.streams = Up(@, Down(@ + 2, 6)),
                       !.recv_kb = IF c.send_kb < 4096 THEN 4096 ELSE @,
                       !.send_kb = Up(@, 4096)]

plan_cpu(c) ==
    [Halved(c, 128 * KB) EXCEPT !.batch = Down(@ + 4, 16), !.streams = Down(@, Up(@ - 1, 1))]
plan_disk(c) == [OneStream(Halved(c, 64 * KB)) EXCEPT !.limit = 20000]
plan_memory(c) == OneStream(Halved(c, 128 * KB))
plan_scheduler(c) == [Doubled(c) EXCEPT !.workers = Up(@, Down(@ + 2, CpuCount * 3))]
plan_thermal(c) ==
    [OneStream(Doubled(c)) EXCEPT
        !.limit = Up(((IF @ = Unlimited THEN 100000 ELSE @) * 6) \div 10, 5000)]
plan_kernel_copy(c) == [Doubled(c) EXCEPT !.mode = "TcpZeroCopy"]

Planned(r, c) ==
    IF r.confidence < 15 \/ r.bottleneck = "Healthy" THEN c
    ELSE CASE r.bottleneck = "Network"    -> plan_network(c)
           [] r.bottleneck = "Cpu"        -> plan_cpu(c)
           [] r.bottleneck = "Disk"       -> plan_disk(c)
           [] r.bottleneck = "Memory"     -> plan_memory(c)
           [] r.bottleneck = "Scheduler"  -> plan_scheduler(c)
           [] r.bottleneck = "Thermal"    -> plan_thermal(c)
           [] r.bottleneck = "KernelCopy" -> plan_kernel_copy(c)

\* A plan that is not a single NoOp, whether or not it changes anything: those of the
\* memory and scheduler bottlenecks may have no action at all.
Acts(r, c) ==
    /\ r.confidence >= 15 /\ r.bottleneck # "Healthy"
    /\ r.bottleneck = "Network" => Planned(r, c) # c

\* No code sets zero_copy_failed, udp_handshake_failed or packet_loss_pct: the rules
\* that read them never apply.
select_transport(r, longTrip) ==
    IF r.bottleneck = "Network" THEN IF longTrip THEN "Quic" ELSE "UdpCustom"
    ELSE IF large THEN "TcpZeroCopy" ELSE "TcpBuffered"

TargetMode(r, longTrip) ==
    IF override = NoOverride THEN select_transport(r, longTrip) ELSE override

\* Mutant: the planned transport is not replaced by the target.
AppliedAsPlanned(r, longTrip) == Planned(r, cfg)

\* apply_all, then the switcher's mode over whatever the plan chose.
Applied(r, longTrip) == [Planned(r, cfg) EXCEPT !.mode = TargetMode(r, longTrip)]

----------------------------------------------------------------------------
(* The hill-climbing tuner *)

\* apply_direction: a step in the dimension's direction, or the other way at its end.
Step(cur, min, max, step, up) ==
    IF (up /\ cur # max) \/ (~up /\ cur = min)
    THEN Down(cur + step, max)
    ELSE Up(cur - step, min)

\* The direction after apply_direction.
Turned(cur, min, max, up) == IF up THEN cur # max ELSE cur = min

Flip(t) ==
    CASE t.stale % 3 = 0 -> [t EXCEPT !.chunkUp = ~@]
      [] t.stale % 3 = 1 -> [t EXCEPT !.streamUp = ~@]
      [] OTHER           -> [t EXCEPT !.bufferUp = ~@]

\* The probe under way is judged: an improvement of 2% resets the count of stale
\* steps, anything else adds one and turns a dimension round.
Judged(t, improved) ==
    IF ~t.probing THEN t
    ELSE LET over == [t EXCEPT !.probing = FALSE]
         IN IF improved THEN [over EXCEPT !.stale = 0]
            ELSE Flip([over EXCEPT !.stale = @ + 1])

Restarted(t) ==
    IF t.stale >= 8
    THEN [chunkUp |-> FALSE, streamUp |-> FALSE, bufferUp |-> FALSE, stale |-> 0,
          probing |-> FALSE]
    ELSE t

Candidate(t, c) ==
    CASE t.stale % 3 = 0 ->
            [c EXCEPT !.chunk = Step(@, 16 * KB, 1024 * KB, 128 * KB, t.chunkUp)]
      [] t.stale % 3 = 1 -> [c EXCEPT !.streams = Step(@, 1, 8, 1, t.streamUp)]
      [] OTHER ->
            LET kb == Step(c.send_kb, 256, 8192, 1024, t.bufferUp)
            IN [c EXCEPT !.send_kb = kb, !.recv_kb = kb]

Moved(t, c) ==
    CASE t.stale % 3 = 0 ->
            [t EXCEPT !.chunkUp = Turned(c.chunk, 16 * KB, 1024 * KB, @)]
      [] t.stale % 3 = 1 -> [t EXCEPT !.streamUp = Turned(c.streams, 1, 8, @)]
      [] OTHER           -> [t EXCEPT !.bufferUp = Turned(c.send_kb, 256, 8192, @)]

\* configs_equal compares three of the fields.
SameCfg(a, b) == a.chunk = b.chunk /\ a.streams = b.streams /\ a.send_kb = b.send_kb

\* AutoTuner::step on configuration c, in the cycles that call it.
Tuned(c, improved) ==
    LET t == Restarted(Judged(tuner, improved))
        try == Candidate(t, c)
    IN IF cycle % 3 # 2 THEN [cfg |-> c, tuner |-> tuner]
       ELSE IF SameCfg(try, c) THEN [cfg |-> c, tuner |-> Moved(t, c)]
       ELSE [cfg |-> try, tuner |-> [Moved(t, c) EXCEPT !.probing = TRUE]]

----------------------------------------------------------------------------
(* run_loop *)

\* The end of a cycle with configuration c in force; with no throughput remembered
\* yet, the cycle's own becomes the one to compare with.
EndCycle(c, tp, current, improved) ==
    LET t == Tuned(c, improved)
    IN /\ cfg' = t.cfg /\ tuner' = t.tuner
       /\ prevTp' = IF tp = 0 THEN current ELSE tp
       /\ cycle' = cycle + 1
       /\ phase' = "top"

\* A classification that asks for nothing.
NoAction(r, longTrip, current, improved) ==
    /\ phase = "top" /\ cycle < MaxCycles
    /\ ~Acts(r, cfg) /\ TargetMode(r, longTrip) = cfg.mode
    /\ EndCycle(cfg, prevTp, current, improved)
    /\ UNCHANGED <<large, override, prevCfg, grown>>

\* The new configuration is in force for one more interval before it is judged.
Apply(r, longTrip) ==
    /\ phase = "top" /\ cycle < MaxCycles
    /\ Acts(r, cfg) \/ TargetMode(r, longTrip) # cfg.mode
    /\ cfg' = Applied(r, longTrip)
    /\ grown' = (grown \/ cfg'.chunk > cfg.chunk)
    /\ phase' = "measuring"
    /\ UNCHANGED <<large, override, prevCfg, prevTp, cycle, tuner>>

\* The impact is measured against the throughput of the last plan.  A regression puts
\* back the last configuration that was committed.
Measure(tp, current, improved) ==
    /\ phase = "measuring"
    /\ LET kept == IF tp < prevTp THEN prevCfg ELSE cfg
       IN prevCfg' = kept /\ EndCycle(kept, tp, current, improved)
    /\ UNCHANGED <<large, override, grown>>

\* FeedbackLoop::stop aborts the task at an await, a plan that has not been judged
\* included.
AbortLoop ==
    /\ phase \in {"top", "measuring"}
    /\ phase' = "stopped"
    /\ UNCHANGED <<large, override, cfg, prevCfg, prevTp, cycle, tuner, grown>>

TuningNext ==
    \/ \E r \in Reports, longTrip \in BOOLEAN :
          \/ Apply(r, longTrip)
          \/ \E current \in Throughputs, improved \in BOOLEAN :
                NoAction(r, longTrip, current, improved)
    \/ \E tp, current \in Throughputs, improved \in BOOLEAN : Measure(tp, current, improved)
    \/ AbortLoop

TuningSpec == TuningInit /\ [][TuningNext]_tuningVars

----------------------------------------------------------------------------
\* Plans, reverts and probes, in whatever order the measurements bring them, never
\* leave the ranges an upload can work with: what one of them did is another's
\* starting point, and the tuner's bounds are not the planner's.  None of them moves
\* away from a transport the user chose with --mode.
\* The chunk size has the `Range: 16 KB -> 1 MB' that auto_tuner.rs:17 documents only
\* as long as no plan has raised it: the plans of decision_engine.rs double it up to
\* 2 MB, at the first of them already, and the tuner, whose own end is 1 MB, keeps a
\* larger one when it steps down.  Neither the tuner nor a revert passes 1 MB by itself.
CfgInRange ==
    /\ override # NoOverride => cfg.mode = override
    /\ \A c \in {cfg, prevCfg} :
           /\ Within(c.chunk, 16 * KB, IF grown THEN 2048 * KB ELSE 1024 * KB)
           /\ Within(c.streams, 1, 8)
           /\ Within(c.send_kb, 256, 8192) /\ Within(c.recv_kb, 256, 8192)
           /\ Within(c.batch, 4, 16)
           /\ Within(c.workers, CpuCount, 3 * CpuCount)
           /\ c.limit # Unlimited => Within(c.limit, 5000, 60000)
=============================================================================
