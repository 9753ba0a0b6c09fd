------------------------------ MODULE Hardfile ------------------------------
(***************************************************************************)
(* A unit of uaehf.device (src/src/hardfile.c).  68k code enters the       *)
(* device through traps, on the emulator thread; the work is done by the   *)
(* unit's own thread, which reads requests from a pipe and replies through *)
(* Native2Amiga.  A table says which requests the unit has (TEMP: in the   *)
(* pipe or in work, CHANGEINT: kept until removed); both threads search it *)
(* and store in it, access by access, and no lock is common to them.       *)
(*                                                                         *)
(* The emulator thread serves Native2Amiga's interrupts, and waits for the *)
(* unit's thread in three places.  In filesys.c it makes calls of its own, *)
(* through the pipe that it alone empties.  What a command does to the     *)
(* disk is left out; so is IOF_QUICK, whose commands touch nothing of this.*)
(***************************************************************************)
EXTENDS Native2Amiga

CONSTANTS
    Requests,   \* IORequests, known by their address
    Device,     \* the unit's thread, a sender
    Socket,     \* another thread that makes calls, a sender
    Notifier,   \* the emulator thread where it makes calls, a sender
    Unit,       \* the unit's number, used by hardfile_reset as a slot
    MAX_ASYNC_REQUESTS,
    MaxIO,      \* bound: requests sent
    MaxSignals, \* bound: calls made by Socket and Notifier
    MaxOther,   \* bound: opens and aborts
    MaxResets,  \* bound: machine resets
    MaxEvents   \* bound: all of these together

ASSUME HardfileAssumption ==
    /\ Senders = {Device, Socket, Notifier} /\ Cardinality(Senders) = 3
    /\ None \notin Requests
    /\ MAX_ASYNC_REQUESTS \in Nat /\ Unit \in 1..MAX_ASYNC_REQUESTS
    /\ MaxIO \in Nat /\ MaxSignals \in Nat /\ MaxOther \in Nat /\ MaxResets \in Nat
    /\ MaxEvents \in Nat

VARIABLES
    d_request, d_request_type,  \* the table
    requests,                   \* struct hardfileprivdata's pipe
    opencount, thread_running, sync_sem, change_sem,
    access,                     \* what each thread does in the table
    dev,                        \* the unit's thread: where, and its request
    leaving,                    \* an old thread has still to post change_sem
    emu,                        \* the emulator thread: where, and its request
    owner,                      \* [Requests -> who may touch the request now]
    command,                    \* [Requests -> io_Command]
    boot,                       \* how often the Amiga was reset
    unmarked,                   \* history: requests not entered, or since overwritten
    sent, signals, others

table == <<d_request, d_request_type, access>>
privdata == <<table, requests, opencount, thread_running, sync_sem>>
amigaVars == <<owner, command, boot, unmarked>>
counters == <<sent, signals, others>>
vars == <<n2aVars, privdata, change_sem, dev, leaving, emu, amigaVars, counters>>

Slots == 1..MAX_ASYNC_REQUESTS
Commands == {"CMD_READ", "CMD_ADDCHANGEINT", "CMD_REMCHANGEINT"}
Death == [req |-> None, boot |-> 0]       \* hardfile_close's and hardfile_reset's 0
At(where, r) == [at |-> where, req |-> r]
Access(step, r, type) == [step |-> step, slot |-> 1, req |-> r, type |-> type]
Done == Access("done", None, "NONE")
Full == Access("full", None, "NONE")      \* add_async_request returns -1

Init ==
    /\ N2AInit
    /\ d_request = [i \in Slots |-> None] /\ d_request_type = [i \in Slots |-> "NONE"]
    /\ access = [t \in {"emu", "dev"} |-> Done]
    /\ requests = <<>>
    /\ opencount = 0 /\ thread_running = 0 /\ sync_sem = 0
    /\ change_sem = 1
    /\ dev = At("none", Death) /\ leaving = 0
    /\ emu = At("cpu", None)
    /\ owner = [r \in Requests |-> "Amiga"]
    /\ command = [r \in Requests |-> "CMD_READ"]
    /\ boot = 0 /\ unmarked = {} /\ sent = 0 /\ signals = 0 /\ others = 0

-----------------------------------------------------------------------------
(* The table.  add_async_request, release_async_request and abort_async, as *)
(* thread t runs them: one look at a slot or one store at a time.           *)

First(t, what) == access' = [access EXCEPT ![t] = what]
Then(t, step) == access' = [access EXCEPT ![t].step = step]
NextSlot(t, atLast) ==
    IF access[t].slot < MAX_ASYNC_REQUESTS
      THEN access' = [access EXCEPT ![t].slot = @ + 1]
      ELSE First(t, atLast)

Adds(t, r, type) == First(t, Access("find", r, type))
Releases(t, r) == First(t, Access("find", r, "NONE"))
\* Mutant: nothing is waited for.
MutAborts(t, r) == Releases(t, r)
Aborts(t, r) == First(t, Access("wait", r, "NONE"))
Returned(t) == access[t].step \in {"done", "full"}

Processing(r) == \E i \in Slots : d_request[i] = r /\ d_request_type[i] = "TEMP"

\* abort_async starts again at the first slot while "request is processing".
Wait(t) ==
    LET a == access[t] IN
    /\ a.step = "wait"
    /\ IF d_request[a.slot] = a.req /\ d_request_type[a.slot] = "TEMP"
         THEN Aborts(t, a.req)
         ELSE NextSlot(t, Access("find", a.req, "NONE"))
    /\ UNCHANGED <<d_request, d_request_type, unmarked>>

\* The search for the request, and add_async_request's for a free slot
Seek(t) ==
    LET a == access[t]
        adding == a.type # "NONE"
    IN
    /\ a.step \in {"find", "free"}
    /\ IF d_request[a.slot] = (IF a.step = "find" THEN a.req ELSE None)
         THEN Then(t, IF a.step = "find" /\ adding THEN "mark" ELSE "store")
         ELSE NextSlot(t, IF a.step = "free" THEN Full
                          ELSE IF adding THEN Access("free", a.req, a.type) ELSE Done)
    /\ UNCHANGED <<d_request, d_request_type, unmarked>>

\* d_request[i] is stored: the slot may have changed since it was looked at.
Overwritten(t) == {d_request[access[t].slot]} \ {None, access[t].req}
Store(t) ==
    LET a == access[t] IN
    /\ a.step = "store" /\ Then(t, "mark")
    /\ d_request' = [d_request EXCEPT ![a.slot] = IF a.type = "NONE" THEN None ELSE a.req]
    /\ unmarked' = unmarked \cup Overwritten(t)
    /\ UNCHANGED d_request_type

\* d_request_type[i] is stored, for whichever request is in the slot by now.
Mark(t) ==
    LET a == access[t] IN
    /\ a.step = "mark" /\ First(t, Done)
    /\ d_request_type' = [d_request_type EXCEPT ![a.slot] = a.type]
    /\ unmarked' = IF a.type = "TEMP" /\ d_request[a.slot] = a.req
                     THEN unmarked \ {a.req}
                     ELSE unmarked \cup Overwritten(t)
    /\ UNCHANGED d_request

Routine(t) ==
    /\ Wait(t) \/ Seek(t) \/ Store(t) \/ Mark(t)
    /\ UNCHANGED <<n2aVars, requests, opencount, thread_running, sync_sem, change_sem, dev, leaving, emu>>
    /\ UNCHANGED <<owner, command, boot, counters>>

-----------------------------------------------------------------------------
(* The emulator thread: the device's traps *)

\* 68k code other than the interrupt server runs.
Amiga == emu.at = "cpu" /\ server.at = "idle"
Emu(from, to, r) == emu.at = from /\ emu' = At(to, r)
Within == sent + signals + others + boot < MaxEvents
CountOther == Within /\ others < MaxOther /\ others' = others + 1 /\ UNCHANGED <<sent, signals>>

\* hardfile_open and start_thread: a new thread, unless one is running
hardfile_open ==
    /\ Amiga /\ CountOther
    /\ IF thread_running = 1
         THEN /\ opencount' = opencount + 1
              /\ UNCHANGED <<table, requests, thread_running, sync_sem, dev, emu>>
         ELSE /\ d_request' = [i \in Slots |-> None]
              /\ d_request_type' = [i \in Slots |-> "NONE"]
              /\ requests' = <<>> /\ sync_sem' = 0 /\ opencount' = 0
              /\ dev' = At("start", Death)
              /\ emu' = At("open", None)
              /\ UNCHANGED <<access, thread_running>>
    /\ UNCHANGED <<n2aVars, change_sem, leaving, amigaVars>>

OpenDone ==
    /\ Emu("open", "cpu", None) /\ sync_sem > 0
    /\ sync_sem' = sync_sem - 1
    /\ opencount' = opencount + 1
    /\ UNCHANGED <<n2aVars, table, requests, thread_running, change_sem, dev, leaving, amigaVars, counters>>

\* Where a request is, of those this boot's programs have sent.
InPipe(r) == {i \in 1..Len(requests) : requests[i] = [req |-> r, boot |-> boot]}
InWork(r) == dev.req = [req |-> r, boot |-> boot] /\ dev.at \notin {"unlock", "read", "none", "sending"}
Replies(r) ==
    LET reply == Call("ReplyMsg", [req |-> r, boot |-> boot]) IN
    Cardinality({i \in 1..Len(native2amiga_pending) :
                    native2amiga_pending[i] = [of |-> reply, part |-> 1]})
      + (IF Decoding /\ server.got[1].of = reply THEN 1 ELSE 0)
      + (IF call[Device].left # <<>> /\ Head(call[Device].left) = [of |-> reply, part |-> 1] THEN 1 ELSE 0)

\* A program sends a request it owns; CMD_REMCHANGEINT it sends with the very
\* request of CMD_ADDCHANGEINT, when that has been seen to and is kept.
MaySend(r, c) ==
    IF c = "CMD_REMCHANGEINT"
      THEN /\ owner[r] = "device" /\ command[r] = "CMD_ADDCHANGEINT"
           /\ InPipe(r) = {} /\ dev.req.req # r /\ Replies(r) = 0
      ELSE owner[r] = "Amiga"

\* hardfile_beginio for a request that is not quick.  A table that is full is
\* no error.
hardfile_beginio(r, c) ==
    /\ Amiga /\ opencount > 0 /\ MaySend(r, c)
    /\ Within /\ sent < MaxIO /\ sent' = sent + 1 /\ UNCHANGED <<signals, others>>
    /\ owner' = [owner EXCEPT ![r] = "device"]
    /\ command' = [command EXCEPT ![r] = c]
    /\ Adds("emu", r, "TEMP")
    /\ emu' = At("begin", r)
    /\ UNCHANGED <<n2aVars, d_request, d_request_type, requests, opencount, thread_running, sync_sem>>
    /\ UNCHANGED <<change_sem, dev, leaving, boot, unmarked>>

BeginDone ==
    /\ Returned("emu") /\ Emu("begin", "cpu", None)
    /\ First("emu", Done)
    /\ requests' = Append(requests, [req |-> emu.req, boot |-> boot])
    /\ unmarked' = IF access["emu"] = Full THEN unmarked \cup {emu.req} ELSE unmarked
    /\ UNCHANGED <<n2aVars, d_request, d_request_type, opencount, thread_running, sync_sem>>
    /\ UNCHANGED <<change_sem, dev, leaving, owner, command, boot, counters>>

\* hardfile_abortio and abort_async
hardfile_abortio(r) ==
    /\ Amiga /\ opencount > 0 /\ owner[r] = "device" /\ CountOther
    /\ Aborts("emu", r)
    /\ emu' = At("abort", r)
    /\ UNCHANGED <<n2aVars, d_request, d_request_type, requests, opencount, thread_running, sync_sem>>
    /\ UNCHANGED <<change_sem, dev, leaving, amigaVars>>

AbortDone ==
    /\ Returned("emu") /\ Emu("abort", "cpu", None)
    /\ UNCHANGED <<n2aVars, privdata, change_sem, dev, leaving, amigaVars, counters>>

\* Mutant: the last close does not wait, as scsiemul.c's does not.
MutClose ==
    /\ Amiga /\ opencount > 0
    /\ opencount' = opencount - 1
    /\ requests' = IF opencount = 1 THEN Append(requests, Death) ELSE requests
    /\ UNCHANGED <<n2aVars, table, thread_running, sync_sem, change_sem, dev, leaving, emu, amigaVars, counters>>

\* hardfile_close: the last one tells the thread to die and waits
hardfile_close ==
    /\ Amiga /\ opencount > 0
    /\ opencount' = opencount - 1
    /\ IF opencount = 1 THEN requests' = Append(requests, Death) /\ emu' = At("close", None)
                        ELSE UNCHANGED <<requests, emu>>
    /\ UNCHANGED <<n2aVars, table, thread_running, sync_sem, change_sem, dev, leaving, amigaVars, counters>>

CloseDone ==
    /\ Emu("close", "cpu", None) /\ sync_sem > 0
    /\ sync_sem' = sync_sem - 1
    /\ UNCHANGED <<n2aVars, table, requests, opencount, thread_running, change_sem, dev, leaving, amigaVars, counters>>

\* A reset reaches hardfile_reset.  68k memory is gone: no request is known.
\* Of an open unit the request in the slot of the unit's own number is aborted,
\* as often as the table has slots.
Round(n) == emu' = [at |-> "reset", req |-> None, round |-> n]
Reset ==
    /\ emu.at = "cpu" /\ ~Decoding /\ boot < MaxResets /\ Within
    /\ N2AReset
    /\ boot' = boot + 1
    /\ owner' = [r \in Requests |-> "Amiga"] /\ unmarked' = {}
    /\ IF opencount = 0 THEN emu' = At("reset_clear", None) ELSE Round(1)
    /\ UNCHANGED <<privdata, change_sem, dev, leaving, command, counters>>

ResetAborts ==
    /\ emu.at = "reset" /\ Returned("emu") /\ emu.round <= MAX_ASYNC_REQUESTS
    /\ Round(emu.round + 1)
    /\ IF d_request[Unit] # None THEN Aborts("emu", d_request[Unit]) ELSE UNCHANGED access
    /\ UNCHANGED <<n2aVars, d_request, d_request_type, requests, opencount, thread_running, sync_sem>>
    /\ UNCHANGED <<change_sem, dev, leaving, amigaVars, counters>>

ResetTellsThread ==
    /\ emu.at = "reset" /\ Returned("emu") /\ emu.round > MAX_ASYNC_REQUESTS
    /\ emu' = At("reset_close", None)
    /\ requests' = Append(requests, Death)
    /\ UNCHANGED <<n2aVars, table, opencount, thread_running, sync_sem, change_sem, dev, leaving, amigaVars, counters>>

ResetCloses ==
    /\ Emu("reset_close", "reset_clear", None) /\ sync_sem > 0
    /\ sync_sem' = sync_sem - 1
    /\ UNCHANGED <<n2aVars, table, requests, opencount, thread_running, change_sem, dev, leaving, amigaVars, counters>>

ResetClears ==
    /\ Emu("reset_clear", "cpu", None)
    /\ d_request' = [i \in Slots |-> None] /\ d_request_type' = [i \in Slots |-> "NONE"]
    /\ requests' = <<>> /\ opencount' = 0 /\ thread_running' = 0 /\ sync_sem' = 0
    /\ UNCHANGED <<n2aVars, access, change_sem, dev, leaving, amigaVars, counters>>

\* A packet changes a file that is watched: notify_send's uae_NotificationHack
\* or uae_Signal, within the trap that handles the packet.
notify_send ==
    /\ Amiga /\ signals < MaxSignals /\ Within
    /\ signals' = signals + 1 /\ UNCHANGED <<sent, others>>
    /\ emu' = At("notify", None)
    /\ BeginCall(Notifier, Call("Notify", signals))
    /\ UNCHANGED <<native2amiga_pending, n2asem, requestVars, intreq, serverVars>>
    /\ UNCHANGED <<privdata, change_sem, dev, leaving, amigaVars>>

NotifySends ==
    /\ emu.at = "notify"
    /\ Send(Notifier)
    /\ emu' = IF call'[Notifier].at = "idle" THEN At("cpu", None) ELSE emu
    /\ UNCHANGED <<privdata, change_sem, dev, leaving, amigaVars, counters>>

\* exter_server's ReplyMsg gives a request back; one that a reset forgot is
\* replied to all the same.
Deliver ==
    /\ emu.at = "cpu" /\ MakeCall
    /\ LET c == server.got[1].of IN
        owner' = IF c.kind = "ReplyMsg" /\ c.arg.boot = boot
                   THEN [owner EXCEPT ![c.arg.req] = "Amiga"] ELSE owner
    /\ UNCHANGED <<privdata, change_sem, dev, leaving, emu, command, boot, unmarked, counters>>

Interrupts ==
    /\ emu.at = "cpu"
    /\ Hsync \/ EnterServer \/ ReadEntry \/ NothingLeft \/ ExitServer
    /\ UNCHANGED <<privdata, change_sem, dev, leaving, emu, amigaVars, counters>>

-----------------------------------------------------------------------------
(* The unit's thread: hardfile_thread *)

Dev(from, to) == dev.at = from /\ dev' = [dev EXCEPT !.at = to]

DevStart ==
    /\ Dev("start", "read")
    /\ thread_running' = 1 /\ sync_sem' = sync_sem + 1
    /\ UNCHANGED <<n2aVars, table, requests, opencount, change_sem, leaving, emu, amigaVars, counters>>

DevRead ==
    /\ dev.at = "read" /\ requests # <<>>
    /\ dev' = At("lock", Head(requests))
    /\ requests' = Tail(requests)
    /\ UNCHANGED <<n2aVars, table, opencount, thread_running, sync_sem, change_sem, leaving, emu, amigaVars, counters>>

DevLock ==
    /\ Dev("lock", IF dev.req = Death THEN "die" ELSE "work")
    /\ change_sem = 1 /\ change_sem' = 0
    /\ UNCHANGED <<n2aVars, privdata, leaving, emu, amigaVars, counters>>

\* hardfile_do_io.  CMD_ADDCHANGEINT stays in the table, if it has room, and is
\* not replied to.  CMD_REMCHANGEINT releases the request, which the thread then
\* does once more: it finds nothing, and that is left out.
DevWork ==
    LET r == dev.req.req IN
    /\ dev.at = "work"
    /\ IF command[r] = "CMD_ADDCHANGEINT"
         THEN Adds("dev", r, "CHANGEINT") /\ dev' = [dev EXCEPT !.at = "add"]
         ELSE Releases("dev", r) /\ dev' = [dev EXCEPT !.at = "release"]
    /\ UNCHANGED <<n2aVars, d_request, d_request_type, requests, opencount, thread_running, sync_sem>>
    /\ UNCHANGED <<change_sem, leaving, emu, amigaVars, counters>>

DevAdded ==
    /\ dev.at = "add" /\ Returned("dev")
    /\ IF access["dev"] = Full
         THEN Releases("dev", dev.req.req) /\ dev' = [dev EXCEPT !.at = "release"]
         ELSE dev' = [dev EXCEPT !.at = "unlock"] /\ UNCHANGED access
    /\ UNCHANGED <<n2aVars, d_request, d_request_type, requests, opencount, thread_running, sync_sem>>
    /\ UNCHANGED <<change_sem, leaving, emu, amigaVars, counters>>

\* uae_ReplyMsg, made by Send(Device)
DevReply ==
    /\ Returned("dev") /\ Dev("release", "sending")
    /\ BeginCall(Device, Call("ReplyMsg", dev.req))
    /\ UNCHANGED <<native2amiga_pending, n2asem, requestVars, intreq, serverVars>>
    /\ UNCHANGED <<privdata, change_sem, leaving, emu, amigaVars, counters>>

DevUnlock ==
    /\ dev.at = "unlock" \/ (dev.at = "sending" /\ Idle(Device))
    /\ dev' = At("read", Death)
    /\ change_sem' = 1
    /\ UNCHANGED <<n2aVars, privdata, leaving, emu, amigaVars, counters>>

\* The death message.  The emulator thread may run on from here: change_sem is
\* posted by a thread it thinks gone.
DevDie ==
    /\ dev.at = "die"
    /\ thread_running' = 0 /\ sync_sem' = sync_sem + 1
    /\ dev' = At("none", Death) /\ leaving' = leaving + 1
    /\ UNCHANGED <<n2aVars, table, requests, opencount, change_sem, emu, amigaVars, counters>>

\* Mutant: change_sem stays taken.
MutDevGone ==
    /\ leaving > 0 /\ leaving' = leaving - 1
    /\ UNCHANGED <<n2aVars, privdata, change_sem, dev, emu, amigaVars, counters>>

DevGone ==
    /\ leaving > 0 /\ leaving' = leaving - 1
    /\ change_sem' = 1
    /\ UNCHANGED <<n2aVars, privdata, dev, emu, amigaVars, counters>>

DeviceThread ==
    \/ DevStart \/ DevRead \/ DevLock \/ DevWork \/ DevAdded \/ DevReply
    \/ DevUnlock \/ DevDie \/ Routine("dev")
    \/ Send(Device) /\ UNCHANGED <<privdata, change_sem, dev, leaving, emu, amigaVars, counters>>

\* Another native thread, such as bsdsocket's, signals an Amiga task.
SocketSignals ==
    /\ Idle(Socket) /\ signals < MaxSignals /\ Within
    /\ signals' = signals + 1 /\ UNCHANGED <<sent, others>>
    /\ BeginCall(Socket, Call("Signal", signals))
    /\ UNCHANGED <<native2amiga_pending, n2asem, requestVars, intreq, serverVars>>
    /\ UNCHANGED <<privdata, change_sem, dev, leaving, emu, amigaVars>>
SocketSends ==
    Send(Socket) /\ UNCHANGED <<privdata, change_sem, dev, leaving, emu, amigaVars, counters>>

-----------------------------------------------------------------------------
\* The emulator thread's steps the code takes by itself, and those 68k
\* programs and the user choose.
Emulator ==
    \/ Interrupts \/ Deliver \/ OpenDone \/ BeginDone \/ AbortDone \/ CloseDone
    \/ NotifySends \/ ResetAborts \/ ResetTellsThread \/ ResetCloses \/ ResetClears
    \/ Routine("emu")
Program ==
    \/ hardfile_open \/ hardfile_close \/ Reset \/ notify_send
    \/ \E r \in Requests : hardfile_abortio(r) \/ \E c \in Commands : hardfile_beginio(r, c)

Next ==
    \/ Emulator \/ Program \/ DeviceThread \/ DevGone
    \/ SocketSignals \/ SocketSends
Spec == Init /\ [][Next]_vars

\* Host threads are scheduled.  hsync_handler runs every scanline and an
\* interrupt of level 2 is not kept masked for ever.
Fairness ==
    /\ WF_vars(Emulator) /\ WF_vars(DeviceThread) /\ WF_vars(DevGone)
    /\ WF_vars(SocketSends)
FairSpec == Spec /\ Fairness

-----------------------------------------------------------------------------
(* Properties *)

\* The semaphores are binary; the sync semaphore is only posted to a waiter.
TypeOK ==
    /\ thread_running \in {0, 1} /\ sync_sem \in {0, 1} /\ change_sem \in {0, 1}
    /\ leaving \in {0, 1} /\ opencount \in 0..MaxOther
    /\ d_request \in [Slots -> Requests \cup {None}]
    /\ d_request_type \in [Slots -> {"NONE", "TEMP", "CHANGEINT"}]
    /\ sync_sem = 1 => emu.at \in {"open", "close", "reset_close"}
    /\ Len(native2amiga_pending) <= N2ASize

\* The unit's private data (a pipe and a semaphore with it) is cleared, by a
\* first open or a reset, only when no thread can be using it any more.
ClearedWhenUnused ==
    (thread_running = 0 /\ emu.at # "open") \/ emu.at = "reset_clear" => dev.at = "none"

\* A request the Amiga has sent is in one place only, on its way to one reply;
\* one it owns again is nowhere: the device never touches memory that was
\* given back, nor replies twice, through closing, aborting and opening again.
OneReply ==
    /\ TypeOK /\ ClearedWhenUnused
    /\ \A r \in Requests :
        LET places == Cardinality(InPipe(r)) + (IF InWork(r) THEN 1 ELSE 0) + Replies(r) IN
        IF owner[r] = "Amiga" THEN places = 0 ELSE places <= 1

\* The unit's thread has worked its request off: the table has its last store.
WorkedOff ==
    \/ dev.at = "add" /\ access["dev"] = Done
    \/ dev.at = "release" /\ access["dev"].step \in {"mark", "done"}

\* AbortIO returns when the unit has worked the request off, if it has not
\* replied yet ("request is processing" is waited for): but not for a request
\* the table had no room for, or one whose slot the other thread stored into,
\* which had found it free, or holding what it came to release, before.
AbortWaits ==
    [][\A r \in Requests :
        emu = At("abort", r) /\ emu'.at = "cpu" =>
            \/ r \in unmarked
            \/ InPipe(r) = {} /\ (InWork(r) => WorkedOff)]_vars

\* A sender waits for room in the pipe and the emulator thread, which alone
\* empties it, will not: it waits for the unit's thread, for room in the pipe
\* itself or for another sender's turn to end, or a reset made it forget that
\* it was asked to, and the sender asks only when it is through.
Cornered ==
    /\ emu.at \notin {"cpu", "begin"} \/ cut_short
    /\ Len(native2amiga_pending) = N2ASize
    /\ \E s \in Senders : call[s].at = "write" /\ call[s].left # <<>>

\* The emulator thread waits for a request to be worked off that the unit has
\* worked off and keeps: the threads entered two requests in one slot, store by
\* store, and left this one in it with the TEMP of the other.
Mistaken ==
    /\ emu.at \in {"abort", "reset"} /\ access["emu"].step = "wait"
    /\ Processing(access["emu"].req) /\ command[access["emu"].req] = "CMD_ADDCHANGEINT"
    /\ dev.at = "read" /\ requests = <<>>

\* Opening, closing, sending, aborting and resetting come to an end, unless the
\* threads are cornered or the emulator is mistaken: there is no other way to
\* hang.
TrapsReturn == emu.at # "cpu" ~> emu.at = "cpu" \/ Cornered \/ Mistaken

\* Likewise every request is replied to that is not kept for a change of disk.
Answered ==
    \A r \in Requests :
        owner[r] = "device" /\ command[r] # "CMD_ADDCHANGEINT"
          ~> owner[r] = "Amiga" \/ Cornered \/ Mistaken
=============================================================================
