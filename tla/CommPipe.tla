------------------------------ MODULE CommPipe ------------------------------
(***************************************************************************)
(* The pipe two threads talk through (src/src/include/commpipe.h): a ring  *)
(* of Size slots, a lock, and two semaphores on which the reader and the   *)
(* writer sleep when the ring is empty or full.  One thread writes and one *)
(* reads; every user of the header keeps to that (native2amiga.c with a    *)
(* semaphore of its own around a message's chunks, the others because only *)
(* one thread ever writes).                                                *)
(*                                                                         *)
(* A step is one access to memory the other thread may touch, so the       *)
(* writer's shortcut around the lock (line 68) runs against every step of  *)
(* the reader.  The semaphores are POSIX ones (td-posix/thread.h).  The    *)
(* payload of a write is its number, since the pipe never looks at it.     *)
(***************************************************************************)
EXTENDS Integers

CONSTANTS
    Size,     \* slots of the ring; one of them always stays free
    Chunks,   \* queued chunks that make it worth waking the reader
    MaxSent   \* bound: how many chunks the writer sends

ASSUME PipeAssumption ==
    /\ Size \in Nat /\ Chunks \in Nat /\ MaxSent \in Nat
    /\ 1 <= Chunks /\ Chunks < Size

VARIABLES
    data, rdp, wrp,                   \* the ring and its two cursors
    writer_waiting, reader_waiting,   \* "I am about to sleep" flags
    lock, writer_wait, reader_wait,   \* the three semaphores
    wpc, nxwrp, no_buffer,            \* the writer and its locals
    rpc, item, polled,                \* the reader and its locals
    sent, got                         \* chunks queued and chunks taken

ringVars   == <<data, rdp, wrp>>
flagVars   == <<writer_waiting, reader_waiting>>
semVars    == <<lock, writer_wait, reader_wait>>
writerVars == <<wpc, nxwrp, no_buffer, sent>>
readerVars == <<rpc, item, polled, got>>
vars == <<ringVars, flagVars, semVars, writerVars, readerVars>>

Slots == 0 .. Size - 1

\* The slot after p, (p + 1) % Size.
NextSlot(p) == IF p + 1 = Size THEN 0 ELSE p + 1

\* Slots from a up to b, (b - a + Size) % Size.
Dist(a, b) == IF a <= b THEN b - a ELSE b - a + Size

Fill == Dist(rdp, wrp)

WriterPC == {"idle", "fast_data", "fast_wrp", "fast_wake", "fast_post",
             "lock", "check", "unlock_full", "sleep", "relock",
             "data", "wrp", "wake", "post", "unlock"}
ReaderPC == {"idle", "lock", "check", "unlock_empty", "sleep", "relock",
             "take", "rdp", "wake", "post", "unlock"}

-----------------------------------------------------------------------------
\* init_comm_pipe
Init ==
    /\ data = [p \in Slots |-> 0]
    /\ rdp = 0 /\ wrp = 0
    /\ writer_waiting = 0 /\ reader_waiting = 0
    /\ lock = 1 /\ writer_wait = 0 /\ reader_wait = 0
    /\ wpc = "idle" /\ nxwrp = 0 /\ no_buffer = 1
    /\ rpc = "idle" /\ item = 0 /\ polled = 0
    /\ sent = 0 /\ got = 0

WGoto(from, to) == wpc = from /\ wpc' = to
RGoto(from, to) == rpc = from /\ rpc' = to

-----------------------------------------------------------------------------
\* write_comm_pipe_pt: no locking while the reader is known to sleep.
WriteBegin ==
    /\ sent < MaxSent
    /\ WGoto("idle", IF reader_waiting = 1 THEN "fast_data" ELSE "lock")
    /\ nxwrp' = NextSlot(wrp)
    /\ no_buffer' \in {0, 1}
    /\ UNCHANGED <<ringVars, flagVars, semVars, sent, readerVars>>

WriteLock ==
    /\ \/ WGoto("lock", "check")
       \/ WGoto("relock", "data")
    /\ lock > 0
    /\ lock' = lock - 1
    /\ UNCHANGED <<ringVars, flagVars, writer_wait, reader_wait,
                   nxwrp, no_buffer, sent, readerVars>>

\* Mutant: a full pipe is not noticed.
MutWriteCheckNeverFull ==
    /\ WGoto("check", "data")
    /\ UNCHANGED <<ringVars, flagVars, semVars,
                   nxwrp, no_buffer, sent, readerVars>>

\* Mutant: the writer goes to sleep without leaving word.
MutWriteCheckSilent ==
    /\ WGoto("check", IF nxwrp = rdp THEN "unlock_full" ELSE "data")
    /\ UNCHANGED <<ringVars, flagVars, semVars,
                   nxwrp, no_buffer, sent, readerVars>>

\* "Pipe full!"
WriteCheck ==
    /\ WGoto("check", IF nxwrp = rdp THEN "unlock_full" ELSE "data")
    /\ writer_waiting' = IF nxwrp = rdp THEN 1 ELSE writer_waiting
    /\ UNCHANGED <<ringVars, reader_waiting, semVars,
                   nxwrp, no_buffer, sent, readerVars>>

WriteUnlock ==
    /\ \/ WGoto("unlock_full", "sleep")
       \/ WGoto("unlock", "idle")
    /\ lock' = lock + 1
    /\ UNCHANGED <<ringVars, flagVars, writer_wait, reader_wait,
                   nxwrp, no_buffer, sent, readerVars>>

WriteSleep ==
    /\ WGoto("sleep", "relock")
    /\ writer_wait > 0
    /\ writer_wait' = writer_wait - 1
    /\ UNCHANGED <<ringVars, flagVars, lock, reader_wait,
                   nxwrp, no_buffer, sent, readerVars>>

WriteData ==
    /\ \/ WGoto("fast_data", "fast_wrp")
       \/ WGoto("data", "wrp")
    /\ data' = [data EXCEPT ![wrp] = sent]
    /\ UNCHANGED <<rdp, wrp, flagVars, semVars,
                   nxwrp, no_buffer, sent, readerVars>>

WriteAdvance ==
    /\ \/ WGoto("fast_wrp", "fast_wake")
       \/ WGoto("wrp", "wake")
    /\ wrp' = nxwrp
    /\ sent' = sent + 1
    /\ UNCHANGED <<data, rdp, flagVars, semVars,
                   nxwrp, no_buffer, readerVars>>

\* Mutant: a flushed write waits for Chunks like any other.
MutWakeReaderBuffered == reader_waiting = 1 /\ Fill >= Chunks

\* maybe_wake_reader
WakeReader == reader_waiting = 1 /\ (no_buffer = 1 \/ Fill >= Chunks)

WriteWake ==
    /\ \/ WGoto("fast_wake", IF WakeReader THEN "fast_post" ELSE "idle")
       \/ WGoto("wake", IF WakeReader THEN "post" ELSE "unlock")
    /\ reader_waiting' = IF WakeReader THEN 0 ELSE reader_waiting
    /\ UNCHANGED <<ringVars, writer_waiting, semVars,
                   nxwrp, no_buffer, sent, readerVars>>

WritePost ==
    /\ \/ WGoto("fast_post", "idle")
       \/ WGoto("post", "unlock")
    /\ reader_wait' = reader_wait + 1
    /\ UNCHANGED <<ringVars, flagVars, lock, writer_wait,
                   nxwrp, no_buffer, sent, readerVars>>

Writer == \/ WriteBegin \/ WriteLock \/ WriteCheck \/ WriteUnlock
          \/ WriteSleep \/ WriteData \/ WriteAdvance \/ WriteWake \/ WritePost

-----------------------------------------------------------------------------
\* read_comm_pipe_pt_blocking, entered unconditionally
ReadBegin ==
    /\ RGoto("idle", "lock")
    /\ polled' = 0
    /\ UNCHANGED <<ringVars, flagVars, semVars, writerVars, item, got>>

\* Mutant: the poll compares with the slot the writer fills next.
MutReadPollOffByOne ==
    /\ rdp # NextSlot(wrp)
    /\ RGoto("idle", "lock")
    /\ polled' = 1
    /\ UNCHANGED <<ringVars, flagVars, semVars, writerVars, item, got>>

\* ... or only when comm_pipe_has_data said so (no lock held)
ReadPoll ==
    /\ rdp # wrp
    /\ RGoto("idle", "lock")
    /\ polled' = 1
    /\ UNCHANGED <<ringVars, flagVars, semVars, writerVars, item, got>>

ReadLock ==
    /\ \/ RGoto("lock", "check")
       \/ RGoto("relock", "take")
    /\ lock > 0
    /\ lock' = lock - 1
    /\ UNCHANGED <<ringVars, flagVars, writer_wait, reader_wait,
                   writerVars, item, polled, got>>

ReadCheck ==
    /\ RGoto("check", IF rdp = wrp THEN "unlock_empty" ELSE "take")
    /\ reader_waiting' = IF rdp = wrp THEN 1 ELSE reader_waiting
    /\ UNCHANGED <<ringVars, writer_waiting, semVars,
                   writerVars, item, polled, got>>

ReadUnlock ==
    /\ \/ RGoto("unlock_empty", "sleep")
       \/ RGoto("unlock", "idle")
    /\ lock' = lock + 1
    /\ UNCHANGED <<ringVars, flagVars, writer_wait, reader_wait,
                   writerVars, item, polled, got>>

ReadSleep ==
    /\ RGoto("sleep", "relock")
    /\ reader_wait > 0
    /\ reader_wait' = reader_wait - 1
    /\ UNCHANGED <<ringVars, flagVars, lock, writer_wait,
                   writerVars, item, polled, got>>

ReadTake ==
    /\ RGoto("take", "rdp")
    /\ item' = data[rdp]
    /\ UNCHANGED <<ringVars, flagVars, semVars, writerVars, polled, got>>

\* Mutant: the cursor is moved by two when the pipe was full.
MutReadAdvanceSkips ==
    /\ RGoto("rdp", "wake")
    /\ rdp' = IF writer_waiting = 1 THEN NextSlot(NextSlot(rdp)) ELSE NextSlot(rdp)
    /\ got' = got + 1
    /\ UNCHANGED <<data, wrp, flagVars, semVars, writerVars, item, polled>>

ReadAdvance ==
    /\ RGoto("rdp", "wake")
    /\ rdp' = NextSlot(rdp)
    /\ got' = got + 1
    /\ UNCHANGED <<data, wrp, flagVars, semVars, writerVars, item, polled>>

ReadWake ==
    /\ RGoto("wake", IF writer_waiting = 1 THEN "post" ELSE "unlock")
    /\ writer_waiting' = 0
    /\ UNCHANGED <<ringVars, reader_waiting, semVars,
                   writerVars, item, polled, got>>

ReadPost ==
    /\ RGoto("post", "unlock")
    /\ writer_wait' = writer_wait + 1
    /\ UNCHANGED <<ringVars, flagVars, lock, reader_wait,
                   writerVars, item, polled, got>>

Reader == \/ ReadBegin \/ ReadPoll \/ ReadLock \/ ReadCheck \/ ReadUnlock
          \/ ReadSleep \/ ReadTake \/ ReadAdvance \/ ReadWake \/ ReadPost

Next == Writer \/ Reader

Spec == Init /\ [][Next]_vars

\* Each thread keeps running: neither the host's scheduler nor its
\* semaphores starve a thread that can go on.
FairSpec == Spec /\ WF_vars(Writer) /\ WF_vars(Reader)
-----------------------------------------------------------------------------
(***************************************************************************)
(* Properties.                                                             *)
(***************************************************************************)

\* Every variable keeps its type; both cursors stay inside the ring.
TypeOK ==
    /\ data \in [Slots -> Nat] /\ rdp \in Slots /\ wrp \in Slots
    /\ writer_waiting \in {0, 1} /\ reader_waiting \in {0, 1}
    /\ lock \in {0, 1} /\ writer_wait \in {0, 1} /\ reader_wait \in {0, 1}
    /\ wpc \in WriterPC /\ nxwrp \in Slots /\ no_buffer \in {0, 1}
    /\ rpc \in ReaderPC /\ item \in Nat /\ polled \in {0, 1}
    /\ sent \in Nat /\ got \in Nat

\* The reader is handed the chunks in the order they were queued, none lost,
\* none twice and none before it was written, although the writer's shortcut
\* fills slots without the lock.
ReadsInOrder ==
    /\ TypeOK
    /\ rpc \in {"take", "rdp"} => got < sent
    /\ rpc = "rdp" => item = got
    /\ rpc \in {"wake", "post", "unlock"} => item + 1 = got

\* No queued chunk is overwritten before it is read: the slots between the
\* cursors always hold the chunks from got to sent - 1.
NothingOverwritten ==
    /\ sent = got + Fill
    /\ \A p \in Slots : Dist(rdp, p) < Fill => data[p] = got + Dist(rdp, p)

\* A write that asked not to be buffered wakes the reader: once it is over, the
\* reader does not sleep on a queue that holds something with no wake-up
\* on its way.
FlushedReaderWakes ==
    wpc = "idle" /\ no_buffer = 1 /\ rpc = "sleep" /\ reader_wait = 0 => Fill = 0

\* The writer sleeps only on a full pipe, or with its wake-up on the way, so
\* the two threads never both wait for the other.
SleepersHaveAWaker ==
    /\ wpc = "sleep" /\ writer_wait = 0 =>
          rpc = "post" \/ (writer_waiting = 1 /\ (nxwrp = rdp \/ rpc = "wake"))
    /\ ~(wpc = "sleep" /\ writer_wait = 0 /\ rpc = "sleep" /\ reader_wait = 0)

\* A reader that looked with comm_pipe_has_data first never sleeps in the read:
\* gui_handle_events and exter_int_helper poll like this on the thread that
\* runs the 68k and must not stop it.
PolledReadNeverSleeps ==
    rpc \in {"unlock_empty", "sleep"} => polled = 0

\* Every chunk of a write that asked not to be buffered is read in the end.
FlushedIsRead ==
    \A n \in 1 .. MaxSent :
        (wpc = "idle" /\ no_buffer = 1 /\ sent = n) ~> (got >= n)

\* What the threads may assume of a pipe: PipeFifo, with the queue read off the
\* ring between the two cursors.
SlotAt(k) == IF rdp + k < Size THEN rdp + k ELSE rdp + k - Size
Queued == [i \in 1 .. Fill |-> data[SlotAt(i - 1)]]
Fifo == INSTANCE PipeFifo WITH Capacity <- Size - 1, queue <- Queued
ImplementsFifo == Fifo!Spec
-----------------------------------------------------------------------------
(***************************************************************************)
(* The inductive invariant behind the safety properties, in named parts.   *)
(***************************************************************************)

WriterHolds == wpc \in {"check", "unlock_full", "data", "wrp", "wake", "post", "unlock"}
ReaderHolds == rpc \in {"check", "unlock_empty", "take", "rdp", "wake", "post", "unlock"}
WriterAsleep == wpc \in {"unlock_full", "sleep"}
ReaderAsleep == rpc \in {"unlock_empty", "sleep"}

\* The lock is taken exactly while one of the two is in its locked part.
LockInv ==
    /\ ~(WriterHolds /\ ReaderHolds)
    /\ lock = IF WriterHolds \/ ReaderHolds THEN 0 ELSE 1

\* Where the writer stands tells what it knows of the slot it fills.
WriterInv ==
    /\ wpc \in {"fast_data", "fast_wrp", "lock", "check", "unlock_full",
                "sleep", "relock", "data", "wrp"} =>
          nxwrp = NextSlot(wrp) /\ sent < MaxSent
    /\ wpc \in {"fast_data", "fast_wrp", "data", "wrp", "relock"} => nxwrp # rdp
    /\ wpc \in {"fast_wrp", "wrp"} => data[wrp] = sent
    /\ wpc \in {"fast_data", "fast_wrp", "fast_wake", "fast_post"} => ReaderAsleep
    /\ wpc \in {"fast_data", "fast_wrp", "fast_wake"} => reader_waiting = 1
    /\ wpc \in {"fast_wake", "wake"} => rdp # wrp

\* A sleeping reader has announced itself, or its wake-up is on the way, and
\* it has been spared only while the queue is short and unflushed.
ReaderSleepInv ==
    /\ reader_waiting = 1 \/ reader_wait = 1 \/ wpc \in {"fast_post", "post"}
          => ReaderAsleep
    /\ ReaderAsleep => reader_waiting = 1 \/ reader_wait = 1 \/ wpc \in {"fast_post", "post"}
    /\ ~(reader_waiting = 1 /\ reader_wait = 1)
    /\ wpc \in {"fast_post", "post"} => reader_waiting = 0 /\ reader_wait = 0 /\ rdp # wrp
    /\ reader_wait = 1 => rdp # wrp
    /\ reader_waiting = 1 =>
          IF wpc \in {"fast_wake", "wake"} THEN Fill <= Chunks ELSE Fill < Chunks
    /\ reader_waiting = 1 /\ wpc \in {"idle", "unlock"} /\ no_buffer = 1 => Fill = 0

\* A sleeping writer has announced itself, or its wake-up is on the way.
WriterSleepInv ==
    /\ writer_waiting = 1 \/ writer_wait = 1 \/ rpc = "post" => WriterAsleep
    /\ WriterAsleep => writer_waiting = 1 \/ writer_wait = 1 \/ rpc = "post"
    /\ ~(writer_waiting = 1 /\ writer_wait = 1)
    /\ rpc = "post" => writer_waiting = 0 /\ writer_wait = 0 /\ nxwrp # rdp
    /\ writer_wait = 1 => nxwrp # rdp
    /\ writer_waiting = 1 /\ rpc # "wake" => nxwrp = rdp
    /\ writer_waiting = 1 /\ rpc = "wake" => nxwrp # rdp

\* Where the reader stands tells what it knows of the slot it empties.
ReaderInv ==
    /\ rpc \in {"take", "rdp", "relock"} => rdp # wrp
    /\ rpc = "rdp" => item = got
    /\ rpc \in {"wake", "post", "unlock"} => item + 1 = got
    /\ polled = 1 /\ rpc \in {"lock", "check"} => rdp # wrp
    /\ PolledReadNeverSleeps

IInv ==
    /\ TypeOK /\ LockInv /\ NothingOverwritten
    /\ WriterInv /\ ReaderInv /\ ReaderSleepInv /\ WriterSleepInv
=============================================================================
