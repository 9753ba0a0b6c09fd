-------------------------------- MODULE Scsi --------------------------------
(***************************************************************************)
(* A unit of uaescsi.device (src/src/scsiemul.c).  It is built like a unit *)
(* of uaehf.device (module Hardfile): traps on the emulator thread, a      *)
(* thread that does the work, a pipe and a table between them.  It differs *)
(* where it ends: the last close tells the thread to die and does not wait *)
(* for it, and a reset waits only for a unit that is open.                 *)
(*                                                                         *)
(* One unit and its one struct priv_devstruct.  Left out are quick         *)
(* commands, CMD_ADDCHANGEINT (nothing in this tree reports a change of    *)
(* disk) and a full table; a slot is released in one step, and a reply     *)
(* arrives at once: Hardfile and Native2Amiga have them.  Programs keep    *)
(* the rules of Exec: all requests are back before the last close.  Names   *)
(* that Keyboard has too carry Scsi, so that one module can extend both.   *)
(***************************************************************************)
EXTENDS Integers, FiniteSets, Sequences

CONSTANTS
    Requests,   \* IORequests, known by their address
    None,
    Unit,       \* the unit's number, used by dev_exit as a slot
    MAX_ASYNC_REQUESTS,
    MaxOpens,   \* bound: opens, and threads started by them
    MaxIO,      \* bound: requests sent
    MaxResets   \* bound: machine resets

ASSUME ScsiAssumption ==
    /\ None \notin Requests /\ IsFiniteSet(Requests)
    /\ MAX_ASYNC_REQUESTS \in Nat /\ Cardinality(Requests) <= MAX_ASYNC_REQUESTS
    /\ Unit \in 1..MAX_ASYNC_REQUESTS
    /\ {MaxOpens, MaxIO, MaxResets} \subseteq Nat

VARIABLES
    opencnt, d_request, thread_running, sync_sem,  \* struct devstruct
    requests,                                      \* its pipe
    inuse, scsi,                                   \* struct priv_devstruct
    change_sem,
    host,       \* is the drive open on the host?
    thread,     \* [Threads -> where, and the request at hand]
    emu,        \* the emulator thread: where, and its request
    owner,      \* [Requests -> who may touch the request now]
    boot,       \* how often the Amiga was reset
    inherited,  \* history: opened on the word of an earlier open
    early,      \* history: a dying thread posted to the semaphore of the next one
    astray,     \* history: threads whose devstruct was cleared under them
    opens, sent

devVars == <<opencnt, d_request, thread_running, sync_sem, requests>>
driveVars == <<inuse, scsi, host, inherited>>
counters == <<opens, sent>>
scsiVars == <<devVars, driveVars, change_sem, thread, emu, owner, boot, early, astray, counters>>

ScsiSlots == 1..MAX_ASYNC_REQUESTS
Threads == 1..MaxOpens
Death == [req |-> None, boot |-> 0]       \* dev_close_3's and dev_exit's 0
At(where, r) == [at |-> where, req |-> r]
Where == {"none", "start", "read", "lock", "work", "die", "post", "leave", "gone"}

Serving == {n \in Threads : thread[n].at \in {"start", "read", "lock", "work"}}

ScsiInit ==
    /\ opencnt = 0 /\ d_request = [i \in ScsiSlots |-> None]
    /\ thread_running = 0 /\ sync_sem = 0 /\ requests = <<>>
    /\ inuse = FALSE /\ scsi = FALSE /\ host = FALSE /\ inherited = FALSE
    /\ change_sem = 1
    /\ thread = [n \in Threads |-> At("none", Death)]
    /\ emu = At("cpu", None)
    /\ owner = [r \in Requests |-> "Amiga"] /\ boot = 0
    /\ early = FALSE /\ astray = {} /\ opens = 0 /\ sent = 0

-----------------------------------------------------------------------------
(* The emulator thread                                                     *)

Emu(from, to, r) == emu.at = from /\ emu' = At(to, r)
First(S) == CHOOSE i \in S : \A j \in S : i <= j
Holding(r) == {i \in ScsiSlots : d_request[i] = r}
Release(r) == d_request' = [i \in ScsiSlots |-> IF d_request[i] = r THEN None ELSE d_request[i]]
CountOpen == opens < MaxOpens /\ opens' = opens + 1 /\ UNCHANGED sent

\* dev_open_2 when the unit is not open: the host's drive may not open, but the
\* flag of an earlier open counts as well.
OpensDrive ==
    /\ host' \in BOOLEAN
    /\ scsi' = (scsi \/ host')
    /\ inuse' = scsi'
    /\ inherited' = (scsi' /\ ~host')

\* A first open that fails, and one that succeeds with start_thread: a new
\* thread, unless one is running.
OpenFails ==
    /\ emu.at = "cpu" /\ opencnt = 0 /\ CountOpen
    /\ OpensDrive /\ ~scsi'
    /\ UNCHANGED <<devVars, change_sem, thread, emu, owner, boot, early, astray>>

OpenFinds ==
    /\ emu.at = "cpu" /\ opencnt = 0 /\ thread_running = 1 /\ CountOpen
    /\ OpensDrive /\ scsi'
    /\ opencnt' = 1
    /\ UNCHANGED <<d_request, thread_running, sync_sem, requests, change_sem>>
    /\ UNCHANGED <<thread, emu, owner, boot, early, astray>>

start_thread ==
    /\ Emu("cpu", "open", None) /\ opencnt = 0 /\ thread_running = 0 /\ CountOpen
    /\ OpensDrive /\ scsi'
    /\ requests' = <<>> /\ sync_sem' = 0
    /\ \E n \in Threads :
          /\ \A m \in Threads : thread[m].at = "none" => n <= m
          /\ thread[n].at = "none"
          /\ thread' = [thread EXCEPT ![n] = At("start", Death)]
    /\ UNCHANGED <<opencnt, d_request, thread_running, change_sem, owner, boot, early, astray>>

OpenDone ==
    /\ Emu("open", "cpu", None) /\ sync_sem > 0
    /\ sync_sem' = sync_sem - 1
    /\ opencnt' = 1
    /\ UNCHANGED <<d_request, thread_running, requests, driveVars, change_sem, thread>>
    /\ UNCHANGED <<owner, boot, early, astray, counters>>

OpenAgain ==
    /\ emu.at = "cpu" /\ opencnt > 0 /\ CountOpen
    /\ opencnt' = opencnt + 1
    /\ UNCHANGED <<d_request, thread_running, sync_sem, requests, driveVars, change_sem>>
    /\ UNCHANGED <<thread, emu, owner, boot, early, astray>>

\* dev_close_3; the flag scsi is not taken back.
dev_close ==
    /\ emu.at = "cpu" /\ opencnt > 0
    /\ opencnt = 1 => \A r \in Requests : owner[r] = "Amiga"
    /\ opencnt' = opencnt - 1
    /\ IF opencnt = 1
       THEN /\ host' = (host /\ ~scsi) /\ inuse' = FALSE
            /\ requests' = Append(requests, Death)
       ELSE UNCHANGED <<host, inuse, requests>>
    /\ UNCHANGED <<d_request, thread_running, sync_sem, scsi, inherited, change_sem>>
    /\ UNCHANGED <<thread, emu, owner, boot, early, astray, counters>>

\* dev_beginio for a request that is not quick
dev_beginio(r) ==
    /\ emu.at = "cpu" /\ opencnt > 0 /\ owner[r] = "Amiga"
    /\ sent < MaxIO /\ sent' = sent + 1 /\ UNCHANGED opens
    /\ owner' = [owner EXCEPT ![r] = "device"]
    /\ d_request' = IF Holding(r) # {} THEN d_request
                    ELSE [d_request EXCEPT ![First(Holding(None))] = r]
    /\ requests' = Append(requests, [req |-> r, boot |-> boot])
    /\ UNCHANGED <<opencnt, thread_running, sync_sem, driveVars, change_sem>>
    /\ UNCHANGED <<thread, emu, boot, early, astray>>

\* dev_abortio and abort_async: a request in the table is waited for
dev_abortio(r) ==
    /\ Emu("cpu", "abort", r) /\ opencnt > 0 /\ owner[r] = "device"
    /\ UNCHANGED <<devVars, driveVars, change_sem, thread, owner, boot, early, astray, counters>>

AbortDone ==
    /\ Emu("abort", "cpu", None) /\ Holding(emu.req) = {}
    /\ UNCHANGED <<devVars, driveVars, change_sem, thread, owner, boot, early, astray, counters>>

\* A reset reaches dev_exit: of an open unit one request is waited for, the one
\* in the slot of the unit's own number.
Reset ==
    /\ emu.at = "cpu" /\ boot < MaxResets
    /\ boot' = boot + 1
    /\ owner' = [r \in Requests |-> "Amiga"]
    /\ emu' = At(IF opencnt = 0 THEN "clear" ELSE "exit", d_request[Unit])
    /\ UNCHANGED <<devVars, driveVars, change_sem, thread, early, astray, counters>>

\* "Kill dev thread and wait for it to die"
ExitKills ==
    /\ Emu("exit", "exit_wait", None)
    /\ emu.req # None => Holding(emu.req) = {}
    /\ requests' = Append(requests, Death)
    /\ UNCHANGED <<opencnt, d_request, thread_running, sync_sem, driveVars, change_sem>>
    /\ UNCHANGED <<thread, owner, boot, early, astray, counters>>

\* Mutant: it is not waited for.
MutExitDone ==
    /\ Emu("exit_wait", "killed", None)
    /\ opencnt' = 0 /\ host' = FALSE
    /\ UNCHANGED <<d_request, thread_running, sync_sem, requests, inuse, scsi, inherited, change_sem>>
    /\ UNCHANGED <<thread, owner, boot, early, astray, counters>>

ExitDone ==
    /\ Emu("exit_wait", "killed", None) /\ sync_sem > 0
    /\ sync_sem' = sync_sem - 1
    /\ opencnt' = 0 /\ host' = FALSE
    /\ UNCHANGED <<d_request, thread_running, requests, inuse, scsi, inherited, change_sem>>
    /\ UNCHANGED <<thread, owner, boot, early, astray, counters>>

\* The end of dev_exit, dev_reset and scsidev_start_threads.  Where a thread
\* stands in the pipe when that is cleared, nobody knows what becomes of it.
Clear ==
    /\ Emu("clear", "cpu", None) \/ Emu("killed", "cpu", None)
    /\ d_request' = [i \in ScsiSlots |-> None] /\ thread_running' = 0 /\ sync_sem' = 0
    /\ requests' = <<>> /\ opencnt' = 0
    /\ inuse' = FALSE /\ scsi' = FALSE /\ inherited' = FALSE
    /\ change_sem' = 1
    /\ early' = FALSE /\ astray' = {n \in Threads : thread[n].at \notin {"none", "gone"}}
    /\ UNCHANGED <<host, thread, owner, boot, counters>>

Emulator == OpenDone \/ AbortDone \/ ExitKills \/ ExitDone \/ Clear
Program ==
    \/ OpenFails \/ OpenFinds \/ start_thread \/ OpenAgain \/ dev_close \/ Reset
    \/ \E r \in Requests : dev_beginio(r) \/ dev_abortio(r)

-----------------------------------------------------------------------------
(* The unit's threads: dev_thread                                          *)

Go(n, from, to) == thread[n].at = from /\ thread' = [thread EXCEPT ![n].at = to]
emuVars == <<driveVars, emu, boot, early, astray, counters>>

ThreadStarts(n) ==
    /\ Go(n, "start", "read")
    /\ thread_running' = 1 /\ sync_sem' = sync_sem + 1
    /\ UNCHANGED <<opencnt, d_request, requests, change_sem, owner, emuVars>>

ThreadReads(n) ==
    /\ thread[n].at = "read" /\ requests # <<>>
    /\ thread' = [thread EXCEPT ![n] = At("lock", Head(requests))]
    /\ requests' = Tail(requests)
    /\ UNCHANGED <<opencnt, d_request, thread_running, sync_sem, change_sem, owner, emuVars>>

ThreadLocks(n) ==
    /\ Go(n, "lock", IF thread[n].req = Death THEN "die" ELSE "work")
    /\ change_sem > 0 /\ change_sem' = change_sem - 1
    /\ UNCHANGED <<devVars, owner, emuVars>>

\* Mutant: the semaphore is kept.
MutThreadWorks(n) ==
    LET r == thread[n].req IN
    /\ thread[n].at = "work" /\ thread' = [thread EXCEPT ![n] = At("read", Death)]
    /\ Release(r.req)
    /\ owner' = IF r.boot = boot THEN [owner EXCEPT ![r.req] = "Amiga"] ELSE owner
    /\ UNCHANGED <<opencnt, thread_running, sync_sem, requests, change_sem, emuVars>>

\* dev_do_io, release_async_request and uae_ReplyMsg
ThreadWorks(n) ==
    LET r == thread[n].req IN
    /\ thread[n].at = "work" /\ thread' = [thread EXCEPT ![n] = At("read", Death)]
    /\ Release(r.req)
    /\ owner' = IF r.boot = boot THEN [owner EXCEPT ![r.req] = "Amiga"] ELSE owner
    /\ change_sem' = change_sem + 1
    /\ UNCHANGED <<opencnt, thread_running, sync_sem, requests, emuVars>>

ThreadDies(n) ==
    /\ Go(n, "die", "post")
    /\ thread_running' = 0
    /\ UNCHANGED <<opencnt, d_request, sync_sem, requests, change_sem, owner, emuVars>>

ThreadPosts(n) ==
    /\ Go(n, "post", "leave")
    /\ sync_sem' = sync_sem + 1
    /\ early' = (early \/ \E m \in Threads : m > n /\ thread[m].at # "none")
    /\ UNCHANGED <<opencnt, d_request, thread_running, requests, change_sem, owner>>
    /\ UNCHANGED <<driveVars, emu, boot, astray, counters>>

ThreadLeaves(n) ==
    /\ Go(n, "leave", "gone")
    /\ change_sem' = change_sem + 1
    /\ UNCHANGED <<devVars, owner, emuVars>>

dev_thread(n) ==
    \/ ThreadStarts(n) \/ ThreadReads(n) \/ ThreadLocks(n) \/ ThreadWorks(n)
    \/ ThreadDies(n) \/ ThreadPosts(n) \/ ThreadLeaves(n)

ScsiNext == Emulator \/ Program \/ \E n \in Threads : dev_thread(n)

\* Threads are scheduled, but one that sleeps in a pipe cleared under it may
\* never wake.
Awake(n) == n \notin astray \/ thread[n].at # "read"
ScsiSpec ==
    /\ ScsiInit /\ [][ScsiNext]_scsiVars /\ WF_scsiVars(Emulator)
    /\ \A n \in Threads : WF_scsiVars(Awake(n) /\ dev_thread(n))

-----------------------------------------------------------------------------
(* What must hold.                                                         *)

\* change_sem is made anew by a reset, while a dying thread may still have it.
ScsiTypeOK ==
    /\ opencnt \in 0..MaxOpens /\ d_request \in [ScsiSlots -> Requests \cup {None}]
    /\ thread_running \in {0, 1} /\ sync_sem \in 0..MaxOpens
    /\ change_sem \in 0..(1 + MaxResets)
    /\ \A n \in Threads : thread[n].at \in Where

\* A unit has one thread at a time ...
OneThread == Cardinality(Serving) <= 1

\* ... which is dead when dev_exit has waited for that.
DeadWhenKilled == emu.at = "killed" => Serving = {}

\* Both hold but for two races with a thread that the last close left to itself.
\* It posts sync_sem after the next open has made it anew, and what waits there
\* is let through too soon; or a reset clears the devstruct under it.
ThreadsAreKnown == (OneThread /\ DeadWhenKilled) \/ early \/ astray # {}

\* The thread works on a drive that is open on the host, unless the unit was
\* opened on the flag an earlier open left behind (scsiemul.c:261).
DriveIsOpen ==
    \A n \in Threads : thread[n].at = "work" /\ thread[n].req.boot = boot
        => host \/ inherited

UnitIsSound == ScsiTypeOK /\ ThreadsAreKnown /\ DriveIsOpen

\* The unit is open and nobody serves it: it was opened before the thread had
\* read its death message, or the thread sleeps in a pipe a reset has cleared.
Unserved == opencnt > 0 /\ Serving \subseteq astray

\* Every request is replied to, and open, abort and reset come to an end, unless
\* the unit is left unserved: there is no other way.
Answered ==
    /\ \A r \in Requests : owner[r] = "device" ~> owner[r] = "Amiga" \/ Unserved
    /\ emu.at # "cpu" ~> emu.at = "cpu" \/ Unserved
=============================================================================
