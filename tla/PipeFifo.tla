------------------------------ MODULE PipeFifo ------------------------------
(***************************************************************************)
(* What src/src/include/commpipe.h promises the threads at its two ends: a *)
(* bounded queue.  A chunk is its number, so the queue always holds the    *)
(* consecutive numbers from the next one to be read to the last one sent.  *)
(***************************************************************************)
EXTENDS Integers, Sequences

CONSTANTS Capacity, MaxSent

VARIABLES queue, sent, got

vars == <<queue, sent, got>>

Init == queue = <<>> /\ sent = 0 /\ got = 0

\* write_comm_pipe_*: wait for room, queue the chunk
Put ==
    /\ Len(queue) < Capacity /\ sent < MaxSent
    /\ queue' = Append(queue, sent)
    /\ sent' = sent + 1
    /\ UNCHANGED got

\* read_comm_pipe_*: wait for a chunk, take the oldest
Get ==
    /\ queue # <<>> /\ Head(queue) = got
    /\ queue' = Tail(queue)
    /\ got' = got + 1
    /\ UNCHANGED sent

Next == Put \/ Get

Spec == Init /\ [][Next]_vars
=============================================================================
