------------------------------ MODULE Benchmark ------------------------------
(***************************************************************************)
(* The benchmark taken around every HTTP upload of the CLI (observability, *)
(* adaptive/mod, adaptive/feedback_loop and syscall_profiler) and the      *)
(* sampler the phone's file server runs around every request it serves.    *)
(* Both sides keep their state in process-wide statics: transfers and      *)
(* requests that overlap share one registered state, one profiler flag,    *)
(* one sampler flag, one sample list, one slot for the profiler's process. *)
(*                                                                         *)
(* What a sample holds, the measurements before, the kernel profile, the   *)
(* graphs and the report's text are left out: a sample is counted, a       *)
(* report is the record of what it was made from.                          *)
(***************************************************************************)
EXTENDS Naturals

CONSTANTS Transfers,   \* uploads the CLI benchmarks
          Requests,    \* requests the phone's file server serves
          Owner,       \* the transfer a request belongs to, or NoTransfer (a download)
          NoTransfer, NoRequest,
          MaxTaken     \* samples counted per list

VARIABLES bench,       \* where each BenchmarkSession is
          collector,   \* its collector task
          taken,       \* samples the collector has taken
          feedback,    \* its feedback loop's task
          adaptive,    \* ACTIVE_ADAPTIVE_STATE
          profiling,   \* REGISTRY.active of the system call profiler
          report,      \* what the session's report was made from
          req,         \* where each request is in the file server
          flag,        \* SAMPLER_ACTIVE
          sampler,     \* the sampler task each request spawned
          rxSamples,   \* length of RECEIVER_SAMPLES
          after,       \* the request that wrote the *_METRICS_AFTER
          perf         \* SIMPLEPERF_CHILD: the request that spawned the process

cliVars == <<bench, collector, taken, feedback, adaptive, profiling, report>>
phoneVars == <<req, flag, sampler, rxSamples, after, perf>>
benchmarkVars == <<bench, collector, taken, feedback, adaptive, profiling, report,
                   req, flag, sampler, rxSamples, after, perf>>

ASSUME OwnerAssumption ==
    /\ Owner \in [Requests -> Transfers \cup {NoTransfer}]
    /\ NoTransfer \notin Transfers
    /\ MaxTaken \in Nat

NoReport == [samples |-> 0, fetched |-> FALSE, after |-> NoRequest]

(* The type of every static and of every task's progress.                  *)
BenchmarkTypeOK ==
    /\ bench \in [Transfers -> {"idle", "running", "aborting", "joining", "fetching",
                                "reported"}]
    /\ collector \in [Transfers -> {"none", "check", "tick", "ended"}]
    /\ taken \in [Transfers -> 0..MaxTaken]
    /\ feedback \in [Transfers -> {"none", "on", "aborted", "ended"}]
    /\ adaptive \in Transfers \cup {NoTransfer}
    /\ profiling \in BOOLEAN
    /\ report \in [Transfers -> [samples : 0..MaxTaken, fetched : BOOLEAN,
                                 after : Requests \cup {NoRequest}]]
    /\ req \in [Requests -> {"none", "cleared", "serving", "stopped", "over"}]
    /\ flag \in BOOLEAN
    /\ sampler \in [Requests -> {"none", "check", "tick", "ended"}]
    /\ rxSamples \in 0..MaxTaken
    /\ {after, perf} \subseteq Requests \cup {NoRequest}

BenchmarkInit ==
    /\ bench = [t \in Transfers |-> "idle"]
    /\ collector = [t \in Transfers |-> "none"]
    /\ taken = [t \in Transfers |-> 0]
    /\ feedback = [t \in Transfers |-> "none"]
    /\ adaptive = NoTransfer
    /\ profiling = FALSE
    /\ report = [t \in Transfers |-> NoReport]
    /\ req = [r \in Requests |-> "none"]
    /\ flag = FALSE
    /\ sampler = [r \in Requests |-> "none"]
    /\ rxSamples = 0
    /\ after = NoRequest /\ perf = NoRequest

----------------------------------------------------------------------------
(* The CLI's side. *)

(* start: the request to start profiling, the collector task, the           *)
(* registration of the adaptive state and the feedback loop.                *)
BenchStart(t) ==
    /\ bench[t] = "idle"
    /\ bench' = [bench EXCEPT ![t] = "running"]
    /\ profiling' = TRUE
    /\ collector' = [collector EXCEPT ![t] = "check"]
    /\ adaptive' = t
    /\ feedback' = [feedback EXCEPT ![t] = "on"]
    /\ UNCHANGED <<taken, report, phoneVars>>

(* The collector reads `done` and then waits for its next tick.            *)
CollectorCheck(t) ==
    /\ collector[t] = "check"
    /\ collector' = [collector EXCEPT ![t] =
                        IF bench[t] \in {"running", "aborting"} THEN "tick" ELSE "ended"]
    /\ UNCHANGED <<bench, taken, feedback, adaptive, profiling, report, phoneVars>>

CollectorTick(t) ==
    /\ collector[t] = "tick"
    /\ taken[t] < MaxTaken \/ bench[t] \notin {"running", "aborting"}
    /\ taken' = [taken EXCEPT ![t] = IF @ < MaxTaken THEN @ + 1 ELSE @]
    /\ collector' = [collector EXCEPT ![t] = "check"]
    /\ UNCHANGED <<bench, feedback, adaptive, profiling, report, phoneVars>>

(* The upload returned, its last byte written or with an error: it does    *)
(* not read the answer.  stop clears `running` and aborts the feedback     *)
(* loop before it waits for it.                                            *)
Abort(t) ==
    /\ bench[t] = "running"
    /\ bench' = [bench EXCEPT ![t] = "aborting"]
    /\ feedback' = [feedback EXCEPT ![t] = IF @ = "on" THEN "aborted" ELSE @]
    /\ UNCHANGED <<collector, taken, adaptive, profiling, report, phoneVars>>

(* The loop's task ends at its next await, and stop goes on with           *)
(* deregister_active_state, done.store(true) and stop_profiling.           *)
Deregister(t) ==
    /\ bench[t] = "aborting" /\ feedback[t] = "aborted"
    /\ feedback' = [feedback EXCEPT ![t] = "ended"]
    /\ bench' = [bench EXCEPT ![t] = "joining"]
    /\ adaptive' = NoTransfer
    /\ profiling' = FALSE
    /\ UNCHANGED <<collector, taken, report, phoneVars>>

\* Mutant: the collector's handle is not awaited.
JoinEarly(t) ==
    /\ bench[t] = "joining"
    /\ bench' = [bench EXCEPT ![t] = "fetching"]
    /\ report' = [report EXCEPT ![t].samples = taken[t]]
    /\ UNCHANGED <<collector, taken, feedback, adaptive, profiling, phoneVars>>

(* The collector's handle is awaited: its samples go into the report.      *)
Join(t) ==
    /\ bench[t] = "joining" /\ collector[t] = "ended"
    /\ bench' = [bench EXCEPT ![t] = "fetching"]
    /\ report' = [report EXCEPT ![t].samples = taken[t]]
    /\ UNCHANGED <<collector, taken, feedback, adaptive, profiling, phoneVars>>

(* GET /api/benchmark-metrics, and every graph and report file written     *)
(* from what it answered: the measurements of whichever request ended last *)
(* before.  That of the session itself may still be served.                *)
Fetch(t) ==
    /\ bench[t] = "fetching"
    /\ bench' = [bench EXCEPT ![t] = "reported"]
    /\ report' = [report EXCEPT ![t] = [@ EXCEPT !.fetched = TRUE, !.after = after]]
    /\ UNCHANGED <<collector, taken, feedback, adaptive, profiling, phoneVars>>

FetchFails(t) ==
    /\ bench[t] = "fetching"
    /\ bench' = [bench EXCEPT ![t] = "reported"]
    /\ UNCHANGED <<collector, taken, feedback, adaptive, profiling, report,
                   phoneVars>>

----------------------------------------------------------------------------
(* The phone's side. *)

(* The file server takes a request up once its upload has begun, perhaps   *)
(* only when all of it is written and the upload has returned.             *)
(* start_sampler empties the list first ...                                *)
StartClear(r) ==
    /\ req[r] = "none"
    /\ Owner[r] \in Transfers => bench[Owner[r]] # "idle"
    /\ req' = [req EXCEPT ![r] = "cleared"]
    /\ rxSamples' = 0
    /\ UNCHANGED <<cliVars, flag, sampler, after, perf>>

(* ... then sets the flag, starts the profiler if it is installed (a       *)
(* process already in the slot is dropped, not killed) and spawns the      *)
(* sampler.                                                                *)
StartSampler(r, installed) ==
    /\ req[r] = "cleared"
    /\ req' = [req EXCEPT ![r] = "serving"]
    /\ flag' = TRUE
    /\ perf' = IF installed THEN r ELSE perf
    /\ sampler' = [sampler EXCEPT ![r] = "check"]
    /\ UNCHANGED <<cliVars, rxSamples, after>>

SamplerCheck(r) ==
    /\ sampler[r] = "check"
    /\ sampler' = [sampler EXCEPT ![r] = IF flag THEN "tick" ELSE "ended"]
    /\ UNCHANGED <<cliVars, req, flag, rxSamples, after, perf>>

SamplerTick(r) ==
    /\ sampler[r] = "tick"
    /\ rxSamples < MaxTaken \/ ~flag
    /\ sampler' = [sampler EXCEPT ![r] = "check"]
    /\ rxSamples' = IF rxSamples < MaxTaken THEN rxSamples + 1 ELSE rxSamples
    /\ UNCHANGED <<cliVars, req, flag, after, perf>>

\* Mutant: the flag is left on while another sampler's task runs.
StopSamplerKeepsFlag(r) ==
    /\ req[r] = "serving"
    /\ req' = [req EXCEPT ![r] = "stopped"]
    /\ flag' = \E q \in Requests : q # r /\ sampler[q] \in {"check", "tick"}
    /\ after' = r
    /\ UNCHANGED <<cliVars, sampler, rxSamples, perf>>

(* The request's guard is dropped: stop_sampler clears the flag and takes  *)
(* the measurements after, ...                                             *)
StopSampler(r) ==
    /\ req[r] = "serving"
    /\ req' = [req EXCEPT ![r] = "stopped"]
    /\ flag' = FALSE
    /\ after' = r
    /\ UNCHANGED <<cliVars, sampler, rxSamples, perf>>

(* ... takes whatever process is in the slot, interrupts it, waits for it  *)
(* and stores the profile it reads back.                                   *)
StopPerf(r) ==
    /\ req[r] = "stopped"
    /\ req' = [req EXCEPT ![r] = "over"]
    /\ perf' = NoRequest
    /\ UNCHANGED <<cliVars, flag, sampler, rxSamples, after>>

BenchmarkNext ==
    \/ \E t \in Transfers :
          \/ BenchStart(t) \/ CollectorCheck(t) \/ CollectorTick(t) \/ Abort(t)
          \/ Deregister(t) \/ Join(t) \/ Fetch(t) \/ FetchFails(t)
    \/ \E r \in Requests :
          \/ StartClear(r) \/ SamplerCheck(r) \/ SamplerTick(r) \/ StopSampler(r)
          \/ StopPerf(r)
          \/ \E installed \in BOOLEAN : StartSampler(r, installed)

BenchmarkSpec == BenchmarkInit /\ [][BenchmarkNext]_benchmarkVars

----------------------------------------------------------------------------
(* What is switched on belongs to somebody who will switch it off: the     *)
(* registered state, the profiler's flag, the sampler's flag and the       *)
(* profiler's process each have a session or a request, among those that   *)
(* overlap, that has not reached the step which clears it.                 *)
SwitchesHaveOwners ==
    /\ adaptive # NoTransfer => bench[adaptive] \in {"running", "aborting"}
    /\ profiling => \E t \in Transfers : bench[t] \in {"running", "aborting"}
    /\ flag => \E r \in Requests : req[r] = "serving"
    /\ perf # NoRequest => req[perf] \in {"serving", "stopped"}

(* By the time a session's report is written its tasks are over (the       *)
(* collector, the feedback loop), its state is no longer the registered    *)
(* one whoever registered after it, and the report holds every sample its  *)
(* collector took, the one that a tick was already awaiting when `done`    *)
(* was set included (observability.rs, stop).  Of the receiver's           *)
(* measurements nothing like it holds: the upload does not wait for the    *)
(* answer, so that they may be those of an earlier request.                *)
ReportIsComplete ==
    \A t \in Transfers : bench[t] = "reported" =>
        /\ collector[t] = "ended" /\ feedback[t] = "ended" /\ adaptive # t
        /\ report[t].samples = taken[t]
=============================================================================
