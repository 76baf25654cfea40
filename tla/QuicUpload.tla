----------------------------- MODULE QuicUpload -----------------------------
(* quic_upload of transport/quic.rs and the FlowWindow of window.rs.  The   *)
(* upload's loop spawns tasks until the shared offset reaches the end of    *)
(* the file; every task reads the next chunk under the file's mutex, waits  *)
(* for room in the window, and writes the chunk on a stream of its own.     *)
(* The semaphore of parallel streams is left out: its permit is dropped at  *)
(* the end of the iteration that took it.                                   *)
EXTENDS Integers, FiniteSets

CONSTANTS QuicTasks,   \* bound: tasks the loop may spawn
          QuicChunks,  \* chunks of the file
          ResumeAt,    \* options.resume_offset, in chunks
          WindowMax    \* max_bytes of the window, in chunks

ASSUME QuicAssumption ==
    /\ IsFiniteSet(QuicTasks) /\ QuicChunks \in Nat
    /\ ResumeAt \in 0..QuicChunks /\ WindowMax \in Nat \ {0}

VARIABLES upload,      \* where quic_upload stands
          nextOffset,  \* the shared offset
          task,        \* state of every task
          avail,       \* permits of the window's semaphore
          inFlight,    \* the window's counter
          total_sent

quicVars == <<upload, nextOffset, task, avail, inFlight, total_sent>>

TaskStates == {"none", "spawned", "buffered", "admitted", "counted", "written",
               "ending", "uncounted", "over"}

QuicTypeOK ==
    /\ upload \in {"connect", "metadata", "prehash", "spawning", "joining", "checksum", "ok", "error"}
    /\ nextOffset \in 0..QuicChunks
    /\ task \in [QuicTasks -> TaskStates]
    /\ avail \in Nat /\ inFlight \in Nat /\ total_sent \in Nat

QuicInit ==
    /\ upload = "connect" /\ nextOffset = ResumeAt
    /\ task = [t \in QuicTasks |-> "none"]
    /\ avail = WindowMax /\ inFlight = 0 /\ total_sent = 0

Goto(a, b) ==
    /\ upload = a /\ upload' = b
    /\ UNCHANGED <<nextOffset, task, avail, inFlight, total_sent>>

(* Connect within 10 s, a stream for the metadata, then the hash of what a  *)
(* resumed upload skips.                                                    *)
QuicConnect ==
    \/ Goto("connect", "metadata") \/ Goto("metadata", "prehash") \/ Goto("prehash", "spawning")

(* `?' anywhere before the tasks, in the join (300 s) or in the checksum.   *)
QuicFails == \E a \in {"connect", "metadata", "prehash", "joining", "checksum"} : Goto(a, "error")

TaskGoes(t, a, b) ==
    /\ task[t] = a
    /\ task' = [task EXCEPT ![t] = b]

(* while offset < size { spawn }: nothing waits for the task to read, so    *)
(* there may be more tasks than chunks.                                     *)
SpawnTask(t) ==
    /\ upload = "spawning" /\ nextOffset < QuicChunks /\ TaskGoes(t, "none", "spawned")
    /\ UNCHANGED <<upload, nextOffset, avail, inFlight, total_sent>>

SpawnDone == nextOffset >= QuicChunks /\ Goto("spawning", "joining")

(* Under the file's mutex: look at the offset, read, advance it.            *)
ReadChunk(t) ==
    /\ nextOffset < QuicChunks /\ TaskGoes(t, "spawned", "buffered")
    /\ nextOffset' = nextOffset + 1
    /\ UNCHANGED <<upload, avail, inFlight, total_sent>>

(* A surplus task finds nothing to read; a read error ends the task before  *)
(* the offset moves.                                                        *)
ReadNothing(t) ==
    /\ TaskGoes(t, "spawned", "over")
    /\ UNCHANGED <<upload, nextOffset, avail, inFlight, total_sent>>

(* FlowWindow::acquire: first the semaphore, then the counter.              *)
Acquire(t) ==
    /\ avail > 0 /\ TaskGoes(t, "buffered", "admitted")
    /\ avail' = avail - 1
    /\ UNCHANGED <<upload, nextOffset, inFlight, total_sent>>

CountIn(t) ==
    /\ TaskGoes(t, "admitted", "counted")
    /\ inFlight' = inFlight + 1
    /\ UNCHANGED <<upload, nextOffset, avail, total_sent>>

(* The chunk is written; then it is hashed and counted as sent.             *)
WriteChunk(t) ==
    /\ TaskGoes(t, "counted", "written")
    /\ UNCHANGED <<upload, nextOffset, avail, inFlight, total_sent>>

HashChunk(t) ==
    /\ TaskGoes(t, "written", "ending")
    /\ total_sent' = total_sent + 1
    /\ UNCHANGED <<upload, nextOffset, avail, inFlight>>

(* open_bi or write_all fails, also because the upload closed the           *)
(* connection: the task returns an error nobody looks at.                   *)
StreamFails(t) ==
    /\ TaskGoes(t, "counted", "ending")
    /\ UNCHANGED <<upload, nextOffset, avail, inFlight, total_sent>>

(* However the task ends its WindowPermit is dropped: Drop::drop lowers the *)
(* counter, and only then the field that holds the semaphore's permit goes. *)
(* (The other order is a mutation.)                                         *)
DropPermitFirst(t) ==
    \/ /\ TaskGoes(t, "ending", "uncounted")
       /\ avail' = avail + 1
       /\ UNCHANGED <<upload, nextOffset, inFlight, total_sent>>
    \/ /\ TaskGoes(t, "uncounted", "over")
       /\ inFlight' = inFlight - 1
       /\ UNCHANGED <<upload, nextOffset, avail, total_sent>>

DropPermit(t) ==
    \/ /\ TaskGoes(t, "ending", "uncounted")
       /\ inFlight' = inFlight - 1
       /\ UNCHANGED <<upload, nextOffset, avail, total_sent>>
    \/ /\ TaskGoes(t, "uncounted", "over")
       /\ avail' = avail + 1
       /\ UNCHANGED <<upload, nextOffset, inFlight, total_sent>>

(* Every handle is awaited, a task's own error is ignored; the checksum     *)
(* goes out and the connection is closed.                                   *)
JoinTasks ==
    /\ \A t \in QuicTasks : task[t] \in {"none", "over"}
    /\ Goto("joining", "checksum")

SendChecksum == Goto("checksum", "ok")

QuicNext ==
    \/ QuicConnect \/ QuicFails \/ SpawnDone \/ JoinTasks \/ SendChecksum
    \/ \E t \in QuicTasks :
          \/ SpawnTask(t) \/ ReadChunk(t) \/ ReadNothing(t)
          \/ Acquire(t) \/ CountIn(t) \/ WriteChunk(t) \/ HashChunk(t)
          \/ StreamFails(t) \/ DropPermit(t)

QuicSpec == QuicInit /\ [][QuicNext]_quicVars

-----------------------------------------------------------------------------
(* in_flight_bytes never exceeds max_bytes, although the counter and the    *)
(* semaphore are updated in separate steps of several tasks: the order of   *)
(* the two updates in acquire and in Drop is what keeps it (window.rs).     *)
InFlightWithinWindow == inFlight <= WindowMax
=============================================================================
