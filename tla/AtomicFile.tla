----------------------------- MODULE AtomicFile -----------------------------
(***************************************************************************)
(* What stream_file_receive() promises of the file it receives ("atomic    *)
(* writes and integrity verification", transfer_engine/src/http.rs): under *)
(* its final name there is nothing, or one complete file, and it goes from *)
(* one to the next in one step.                                            *)
(***************************************************************************)
CONSTANT Absent     \* no file

VARIABLES
    offered,        \* the complete files that may be sent
    content         \* what is found under the final name

AtomicInit == content = Absent

Appear(c) == content' = c /\ UNCHANGED offered

AtomicNext == \E c \in offered : Appear(c)

AtomicSpec == AtomicInit /\ [][AtomicNext]_<<offered, content>>
=============================================================================
