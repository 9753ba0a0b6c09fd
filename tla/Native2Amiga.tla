---------------------------- MODULE Native2Amiga ----------------------------
(***************************************************************************)
(* Exec calls for threads that have no 68k (src/src/native2amiga.c): the   *)
(* thread writes the call into native2amiga_pending and asks for an EXTER  *)
(* interrupt; hsync_handler turns the wish into INTREQ, and the interrupt  *)
(* server (exter_server in filesys.asm) decodes the calls one by one with  *)
(* exter_int_helper (filesys.c) and makes them.                            *)
(*                                                                         *)
(* The pipe is the FIFO that CommPipe is shown to implement.  A call is    *)
(* written entry by entry, and read so; an entry carries, for the          *)
(* properties only, the call it belongs to.                                *)
(***************************************************************************)
EXTENDS Integers, Sequences, FiniteSets

CONSTANTS
    Senders,   \* threads that make calls
    None,
    N2ASize    \* entries the pipe has room for (init_comm_pipe's size less one)

ASSUME N2AAssumption == N2ASize \in Nat \ {0} /\ None \notin Senders

VARIABLES
    native2amiga_pending, n2asem,  \* n2asem: None, or who holds it
    call,                          \* [Senders -> the call a sender is making]
    uae_int_requested,
    intreq,                        \* INTREQ's PORTS bit
    singlethread_int_sem,
    server,                        \* the interrupt server: where, and what it has decoded
    cut_short                      \* history: a reset found the server at work and
                                   \* no interrupt was asked for since

senderVars == <<n2asem, call>>
serverVars == <<singlethread_int_sem, server>>
requestVars == <<uae_int_requested, cut_short>>
n2aVars == <<native2amiga_pending, senderVars, requestVars, intreq, serverVars>>

\* uae_Cause, uae_ReplyMsg, uae_PutMsg, uae_Signal: the entries after the first
Args(kind) == IF kind \in {"ReplyMsg", "Cause"} THEN 1 ELSE 2
Call(kind, arg) == [kind |-> kind, arg |-> arg]
Entries(c) == [i \in 1..(Args(c.kind) + 1) |-> [of |-> c, part |-> i]]

NotCalling == [at |-> "idle", left |-> <<>>]
N2AInit ==
    /\ native2amiga_pending = <<>> /\ n2asem = None
    /\ call = [s \in Senders |-> NotCalling]
    /\ uae_int_requested = 0 /\ intreq = 0 /\ cut_short = FALSE
    /\ singlethread_int_sem = 1
    /\ server = [at |-> "idle", got |-> <<>>]

-----------------------------------------------------------------------------
(* A sender *)

Idle(s) == call[s].at = "idle"
BeginCall(s, c) == call' = [call EXCEPT ![s] = [at |-> "lock", left |-> Entries(c)]]
CallAt(s, from, to) == call[s].at = from /\ call' = [call EXCEPT ![s].at = to]

\* Mutant: a call does not wait for the one being made.
MutLockCalls(s) ==
    /\ CallAt(s, "lock", "write")
    /\ n2asem' = s
    /\ UNCHANGED <<native2amiga_pending, requestVars, intreq, serverVars>>

LockCalls(s) ==
    /\ n2asem = None /\ n2asem' = s
    /\ CallAt(s, "lock", "write")
    /\ UNCHANGED <<native2amiga_pending, requestVars, intreq, serverVars>>

\* write_comm_pipe_*: blocks while the pipe is full
WriteEntry(s) ==
    /\ call[s].at = "write" /\ call[s].left # <<>>
    /\ Len(native2amiga_pending) < N2ASize
    /\ native2amiga_pending' = Append(native2amiga_pending, Head(call[s].left))
    /\ call' = [call EXCEPT ![s].left = Tail(@)]
    /\ UNCHANGED <<n2asem, requestVars, intreq, serverVars>>

\* Mutant: the interrupt is asked for only if the server is not at work.
MutRequestInt(s) ==
    /\ call[s].left = <<>> /\ CallAt(s, "write", "unlock")
    /\ uae_int_requested' = IF server.at = "idle" THEN 1 ELSE uae_int_requested
    /\ cut_short' = FALSE
    /\ UNCHANGED <<native2amiga_pending, n2asem, intreq, serverVars>>

\* do_uae_int_requested
RequestInt(s) ==
    /\ call[s].left = <<>> /\ CallAt(s, "write", "unlock")
    /\ uae_int_requested' = 1 /\ cut_short' = FALSE
    /\ UNCHANGED <<native2amiga_pending, n2asem, intreq, serverVars>>

UnlockCalls(s) ==
    /\ CallAt(s, "unlock", "idle")
    /\ n2asem' = None
    /\ UNCHANGED <<native2amiga_pending, requestVars, intreq, serverVars>>

Send(s) == LockCalls(s) \/ WriteEntry(s) \/ RequestInt(s) \/ UnlockCalls(s)

-----------------------------------------------------------------------------
(* The emulator thread and the 68k code it runs *)

\* The emulator thread is in the trap that decodes a call.
Decoding == server.got # <<>>

\* hsync_handler, every scanline the emulator thread gets to
Hsync ==
    /\ ~Decoding /\ uae_int_requested = 1 /\ intreq = 0
    /\ intreq' = 1
    /\ UNCHANGED <<native2amiga_pending, senderVars, requestVars, serverVars>>

\* The interrupt reaches exter_server, which asks whether it is meant
\* (exter_int_helper case 0).  Exec may clear INTREQ before or after the
\* servers; only what it finds after them matters.
EnterServer ==
    /\ intreq = 1 /\ server.at = "idle"
    /\ IF uae_int_requested = 1 /\ singlethread_int_sem = 1
         THEN /\ singlethread_int_sem' = 0
              /\ uae_int_requested' = 0
              /\ server' = [server EXCEPT !.at = "scan"]
              /\ UNCHANGED intreq
         ELSE /\ intreq' = 0
              /\ UNCHANGED <<uae_int_requested, serverVars>>
    /\ UNCHANGED <<native2amiga_pending, senderVars, cut_short>>

\* exter_int_helper case 2, command and arguments read entry by entry
Take(entry) ==
    /\ native2amiga_pending' = Tail(native2amiga_pending)
    /\ server' = [server EXCEPT !.got = Append(@, entry)]
    /\ UNCHANGED <<senderVars, requestVars, intreq, singlethread_int_sem>>

Complete == Decoding /\ Len(server.got) = Args(server.got[1].of.kind) + 1

ReadEntry ==
    /\ server.at = "scan" /\ ~Complete
    /\ native2amiga_pending # <<>>
    /\ Take(Head(native2amiga_pending))

\* Nothing is left (and no threaded file system waits for a message).
NothingLeft ==
    /\ server.at = "scan" /\ ~Decoding
    /\ native2amiga_pending = <<>>
    /\ server' = [server EXCEPT !.at = "exit"]
    /\ UNCHANGED <<native2amiga_pending, senderVars, requestVars, intreq, singlethread_int_sem>>

\* exter_server makes the call it was told and asks for the next.
MakeCall ==
    /\ server.at = "scan" /\ Complete
    /\ server' = [server EXCEPT !.got = <<>>]
    /\ UNCHANGED <<native2amiga_pending, senderVars, requestVars, intreq, singlethread_int_sem>>

\* exter_int_helper case 4, and the end of the interrupt
ExitServer ==
    /\ server.at = "exit"
    /\ singlethread_int_sem' = 1
    /\ server' = [server EXCEPT !.at = "idle"]
    /\ intreq' \in {0, intreq}
    /\ UNCHANGED <<native2amiga_pending, senderVars, requestVars>>

\* A reset: customreset clears INTREQ, filesys_diagentry initialises the
\* semaphore when the Amiga boots.  Neither the pipe nor the wish is cleared.
N2AReset ==
    /\ intreq' = 0
    /\ singlethread_int_sem' = 1
    /\ server' = [at |-> "idle", got |-> <<>>]
    /\ cut_short' = (cut_short \/ server.at # "idle")
    /\ UNCHANGED <<native2amiga_pending, senderVars, uae_int_requested>>

-----------------------------------------------------------------------------
(* Properties *)

\* "That way, we can get too many interrupts, but never not enough": a call
\* that lies in the pipe is being served, or an interrupt is asked for, or its
\* sender is about to ask.  But a reset that falls between the forgetting and
\* the work leaves calls in the pipe until somebody asks again.
NeverNotEnough ==
    native2amiga_pending # <<>> =>
        server.at = "scan" \/ uae_int_requested = 1 \/ n2asem # None \/ cut_short

\* Calls are decoded as they were made: what is being decoded, then what lies
\* in the pipe, then what its holder has still to write is a sequence of whole
\* calls, however the senders' writes and the server's reads are interleaved.
Stream == server.got \o native2amiga_pending
            \o (IF n2asem = None THEN <<>> ELSE call[n2asem].left)
Follows(e, f) == IF e.part <= Args(e.of.kind) THEN f.of = e.of /\ f.part = e.part + 1
                 ELSE f.part = 1
CallsAreWhole ==
    /\ NeverNotEnough
    /\ Stream # <<>> =>
        /\ Head(Stream).part = 1
        /\ \A i \in 1..(Len(Stream) - 1) : Follows(Stream[i], Stream[i + 1])
        /\ LET last == Stream[Len(Stream)] IN last.part = Args(last.of.kind) + 1
=============================================================================
