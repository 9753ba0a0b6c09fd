# E-UAE, modelled in TLA+

E-UAE is an emulator of the Commodore Amiga: a 68k interpreter, the custom
chips, and devices that let Amiga programs use the host's disks, sockets and
screen. This directory holds TLA+ modules of the parts of it whose correctness
depends on order: the threads and what they share, the hand-over of control
between them and the emulated machine, interrupts, and the clockwork that
drives the chips. TLC checks the modules on small instances; TLAPS proves some
of the results for every value of the constants.

Paths are relative to `src/src/` unless they begin otherwise.

1. [The system](#1-the-system)
2. [The modules](#2-the-modules)
3. [The runs, their bounds and what they show](#3-the-runs)
4. [Fairness](#4-fairness)
5. [Proofs](#5-proofs)
6. [Where code and documentation differ](#6-where-code-and-documentation-differ)
7. [What is not modelled](#7-what-is-not-modelled)
8. [Plan](#8-plan)

To check a run: `tlc -config MCCommPipe.cfg MCCommPipe`; to check the proofs:
`tlapm SyncProofs.tla`.

## 1. The system

One thread, called the *emulator thread* here, runs everything that belongs to
the emulated machine: `m68k_run_1` or `m68k_run_2` (newcpu.c) executes an opcode,
lets `do_cycles` advance the time (events.h), which calls the chips' handlers,
and then looks at `spcflags` (`do_specialties`). Around it:

    host threads                    emulator thread                  Amiga side
    ------------                    ---------------                  ----------
    hardfile_thread  --\                                      /-- EXTER server (filesys.asm)
    sockets' threads ---+-- native2amiga_pending (pipe) ------+
    (SCSI)             /     uae_int_requested -> INTREQ       \-- Exec: ReplyMsg, Signal ...
         ^                          |
         |   requests (pipe)        |   traps (opcodes 0xA0xx)
         \---- sync_sem ----  hardfile_beginio ... <------------- exec.device calls
                                    |
    trap contexts  <-- switch_to_trap_sem / switch_to_emu_sem --> m68k_handle_trap
    (one thread per extended trap)
                                    |
                    eventtab: hsync, copper, CIA, blitter, audio, disk
                                    |
                    INTREQ/INTENA -> intlev -> spcflags -> Interrupt()

    Gtk's thread  --- from_gui_pipe --> gui_handle_events, once a frame -> uae_target_state
    (gtkui.c)     <-- to_gui_pipe ----- set_state, gui_led, gui_message    (real_main obeys it)
    host's keys  ---> record_key -> keybuf -> CIA's serial register -> keyboard interrupt

| component | state it keeps | operations | correct when |
|---|---|---|---|
| pipe, include/commpipe.h | ring, two cursors, lock, two semaphores and two "waiting" flags | write (buffered or not), blocking read, "has data" | it is a bounded queue; nobody sleeps who has something to do |
| semaphores on AmigaOS, td-amigaos/thread.c | count, mutex; in a proxy task the list of sleepers | init, wait, trywait, post, destroy | the proxy never touches a message that is gone, no post is lost |
| extended traps, traps.c | a context per trap with register file, saved registers and two semaphores; `trap_mutex`, `current_context` | enter, call 68k code, return, exit | a trap acts for, and returns to, the task that entered it, however tasks are switched |
| native calls, native2amiga.c and the EXTER server | `native2amiga_pending`, `n2asem`, `uae_int_requested` | uae_Cause, uae_ReplyMsg, uae_PutMsg, uae_Signal; decoding | calls are made whole and in order, and are made |
| hardfile device, hardfile.c | per unit: table of requests, open count, `thread_running`, pipe, `sync_sem`; `change_sem` | open, close, BeginIO, AbortIO, reset; the unit's thread | a request is replied to once, after which it is not touched; nothing hangs |
| interrupts, newcpu.c and custom.c | `intreq`, `intena`, the times requests arrive (cycle-exact), `spcflags`, `intmask` | INTREQ, INTENA, intlev, doint, do_specialties, do_stop, MakeFromSR | an enabled request above the mask is served |
| event table, events.c and events.h | `currcycle`, `nextevent`, `eventtab` | do_cycles, events_schedule, init | no event is passed by, whatever the counter wraps to |
| CIAs, cia.c | timers, latches, control registers, ICR, mask, the cycle they were last looked at | register reads and writes, CIA_update, CIA_calctimers, CIA_handler | the timers count like hardware although they are not counted; requests stand |
| blitter, blitter.c | `bltstate`, `blit_slowdown`, `blitter_stuck`, `blit_firstline_cycles` | do_blitter, blitter_handler, maybe_blit, DMACON, resets, save | a started blit is done once, in the end |
| machine control, main.c, and the Gtk window, gui-gtk/gtkui.c | `uae_state` and `uae_target_state`, two pipes, what the buttons show | start, pause, resume, stop, quit, reset, restart; buttons, message box | requests are honoured, the window shows the truth, nobody waits for good |
| filesystem, filesys.c | a cache of `a_inode`s under a directory of the host, lock counts, file handles, `ExamineKey`s | packets: lock, free, duplicate, parent, find, end, change mode, create, delete, rename, examine | counts say who holds what, scans return everything once, nothing freed is used |
| SCSI device, scsiemul.c | like hardfile.c's | open, close, BeginIO, AbortIO, reset; the unit's threads | one thread serves an open unit, and is dead when its memory is cleared |
| keyboard, keybuf.c and cia.c | a ring of key codes; `kbstate`, `ciaasdr_unread`, `sleepyhead` | record_key, get_next_key, CIA_hsync_handler, the Amiga's reading | keys arrive once, in order, and are not run over |
| others | see `components` in PROJECT.json | | |

What makes this hard, and is checked here:

* **Threads that share without a lock.** The pipe's writer skips the lock when it
  thinks the reader asleep; hardfile's two threads change one table; traps.c
  shares `trap_mutex`, `current_context` and `regs` between threads that are
  coroutines only if everybody keeps to the protocol.
* **Two schedulers.** Between any two 68k instructions the Amiga may switch
  tasks, so the trap that returns need not be the one that called last.
* **Sleeping on the wrong side.** The emulator thread is the only reader of
  `native2amiga_pending` and waits for hardfile's thread, which writes to it.
* **Flags that stand for a condition.** `SPCFLAG_INT` and `SPCFLAG_DOINT` mean "look
  at the interrupts": whoever makes a request deliverable has to set one.
* **Caches of time.** `nextevent`, the base cycle of the CIAs and the position of
  the blitter's event are all caches that every writer must refresh, over a
  counter that wraps.
* **Requests that cross.** A stop, a reset and a failing Kickstart all write one
  target state, which the emulator reads in a few places only.
* **Names that outlive what they name.** AmigaDOS's locks and scans refer to
  cache entries that are freed, renamed and deleted under them.
* **Resets** in the middle of any of that.

`hazards` in PROJECT.json lists each of these at its line with the properties
that would show it going wrong.

## 2. The modules

| module | models | composed with |
|---|---|---|
| PipeFifo | what the pipe promises: a bounded queue | |
| CommPipe | include/commpipe.h, one access to shared memory per step | implements PipeFifo |
| AmigaSem | td-amigaos/thread.c | |
| SyncProofs | the theorems of CommPipe and AmigaSem | extends both |
| CpuInterrupts | newcpu.c, custom.c, and the instructions of gencpu.c and traps.c that touch interrupts | |
| CpuInterruptsProofs | its theorems | |
| Traps | traps.c and do_reset_machine | |
| TrapsProofs | its theorems | |
| Native2Amiga | native2amiga.c, the EXTER server, exter_int_helper, hsync_handler's part | no specification of its own |
| Hardfile | hardfile.c, the thread of a socket as a second sender, filesys.c's notify_send as a third | extends Native2Amiga |
| HardfileProofs | its theorems, and those of Native2Amiga | |
| Filesys | a unit of filesys.c: the cache, locks, handles, scans | |
| FilesysProofs | its theorems | |
| Machine | main.c and the part of gtkui.c that steers it | the pipes are CommPipe's queue |
| MachineProofs | its theorems | |
| Keyboard | keybuf.c, the keyboard's part of cia.c | |
| Scsi | scsiemul.c, where it departs from hardfile.c | |
| DeviceProofs | the theorems of Keyboard and Scsi | extends both |
| Events | events.c, events.h | no specification of its own; Cia and Blitter extend it |
| CiaTick, CiaClock | the 8520's timers, one E clock after another: the abstract specification | |
| Cia | cia.c | extends Events; implements CiaClock |
| Blitter | blitter.c without cycle exactness | extends Events |
| EventProofs | the theorems of Blitter and Cia | extends both |
| MC... | values of the constants | |

Names of variables and actions are the source's where it has one. In `map`
every definition names the lines it stands for. Definitions called `Mut...` are
faults: copies of a definition with the mistake the comment above names, which
nothing else uses. Putting one in the place of its original makes a property
fail; this is how each property is known to watch the code.

**CommPipe.** `wpc` and `rpc` are the places in `write_comm_pipe_pt` and
`read_comm_pipe_pt_blocking` between which another thread may see a difference.
The test of `reader_waiting` outside the lock (line 68), the fill of the slot,
the advance of the cursor and `maybe_wake_reader` are steps of their own on both
paths. A chunk's payload is its number, so the reader can be checked to get
every chunk in order. The non-blocking test `comm_pipe_has_data` is a read with
`polled` set. One writer and one reader at a time: every user keeps to this, or
has a semaphore around the writer.

**AmigaSem.** The uncontended part of each call is one step under the Exec mutex;
`BlockMe`, the proxy's handling of a message, and a post's or a destroy's wait
for the answer are separate. `Take` is the wait or trywait that finds a count.
CTRL-C may reach any task at any time, as the program's own message loop looks
for it, and stays set until a Wait sees it; a destroy breaks its sleepers with the
same signal. It ends all three waits (`wait_proxy_reply`), those of `UnblockOne`
and `Destroy` too, which ignore the outcome. That this leaves no message with
the proxy whose sender has gone on rests on priorities alone, and the model has
them: a task goes on only while the port is empty. The list of sleepers is an Exec
list: `succ` and `pred` are the links of its header (`None`, which is also the mark
at its end) and of each task's BLOCK message, and `AddTail`, `RemHead` and `Unlink`
(Exec's Remove) write what Exec's write. Remove asks no list: on a message that
DESTROY took off already, whose `ln_Pred` is the header since the RemHead before
it, it makes the old successor the list's head again, writes to that one's stack,
which may have been left by then (`overwritten`), and so drops who has come since.
A woken task takes a unit without looking (line 380), so
`value` can fall below zero by up to one per task. `SemTypeOK` states the bound.

**CpuInterrupts.** The loop of the interpreter in three phases. The guest program
is arbitrary: any instruction that touches INTREQ, INTENA, SR, STOP or RTE may
come next, and devices may raise any request while cycles pass. In cycle-exact
mode requests take time to arrive at the CPU (`coming`, `due`). Extended traps
replace the register file, and `spcflags` and `intmask` are part of it: their four
handlers are instructions here, on or off by `traps`, cycle-exact or not.

**Traps.** Each task has a stack of context pointers, the register file in use is
`regs`, a switched-out task's `tcb`. The emulator thread is either interpreting
(`waits_for = None`) or asleep for a context; `Thread(c)` is the trap's thread. A
switch of tasks is possible only where interrupts are enabled, by the code's own
masks. `cut` remembers a reset that fell into a hand-over. Contexts are taken
from a set and may be used again; a failing calloc and 68k functions that never
return are left out. A trap's thread touches nothing after its last post, so that
post is its end, and `uae_wait_thread`, a no-op on AmigaOS, never delays anybody.

**Native2Amiga and Hardfile.** A call is several entries in the pipe
(`CommPipe` shows it is a queue, so it is one here), written one at a time under
`n2asem`, read one at a time by the server. `Device` is the unit's thread, `Socket`
any other thread that signals the Amiga. `hardfile_open`, `OpenDone` and the like
are the trap up to a wait for the thread and the rest of it; the emulator cannot
serve interrupts in between, which is the point. The table of requests has
`MAX_ASYNC_REQUESTS` slots. The emulator and the unit's thread search it and store in
it, and no lock is common to them: `access` is what each does there, one look at a
slot or one store at a time (`Wait`, `Seek`, `Store`, `Mark`), in the order of the
program's text (the table is volatile). `unmarked` is history: the requests the table had no room for, or whose
mark was stored over. The pipe of
requests has 100 entries in the program and is unbounded here: a program would
need 100 outstanding requests. IOF_QUICK, where the work is done within BeginIO,
shares nothing with the thread and is left out. Messages to filesystem units, the
last part of the server, do nothing in a build without filesystem threads.
`Notifier` is the emulator thread itself, where a packet changes a watched file
and filesys.c's notify_send makes a call through the pipe the same thread
empties.

**Scsi.** The protocol is Hardfile's; the module keeps what differs. The last
close sends the thread its death message and does not wait; a first open
that finds `thread_running` still set starts none (`OpenFinds`); a thread's life is
therefore a record of its own per thread started, and old ones may still be on
their way out. `dev_exit` waits only for a unit that is open, and clears the
structure of any. `early` and `astray` remember that a dying thread posted the
semaphore of the next one, or had its structure cleared under it; `inherited`
that the drive was taken for open on the word of an earlier open.
Quick commands are left out; CMD_ADDCHANGEINT and the threads' interleaving in the
table are in Hardfile only. (Names that Keyboard has too carry the prefix Scsi, as Cia's carry Cia,
since one module of proofs extends both.)

**Filesys.** A packet is one step: per-unit threads are not built
(configure.in:1085), so the trap handles it in one go, and the difficulty is in the
sequence. `disk` is the host's tree. `unit` is struct _unit; its `heap` maps every
a_inode not freed to its fields, so a reference outside it is a dangling
pointer, and a handler that follows one sets `broken` to where. The list of
reusable a_inodes (`lru`), its reaping in batches with the rotation between
directories, the hash table, lookup_sub's moving to the front and the counts
that keep a scanned directory in memory are all there. The host
refuses an open, a mkdir or a rename whenever it likes, and a rename may lose
handles that were closed for it. ACTION_CHANGE_MODE is modelled for locks only: it
looks a file handle up by its shifted address (filesys.c:2850, 2875) where every other
packet passes the handle's number, so that it is refused (only a unit that has
opened as many files as the address says could meet that number). `todo`, in each scan, is history: what it still
owes. `recounted` and `phantom` name what the code is known to miscount or leave
behind. A loop of the code over a list is here what it does to the whole list: the
inner loop of recycle_aino frees the unused files of one directory at once
(`Sweep`), and lookup_sub, which returns through a chain of calls, puts every step
of the way in front (`MoveToFront`).

**Machine.** `pc` is the place in `real_main` between two looks at the shared
state; `out` and `gout` are what each thread has begun to write, and while the
emulator's is not empty it does nothing else. The requests are functions from
one target state to the next, as in main.c. The GUI thread reads its pipe from a
timer until it is empty (`my_idle`), and `update_buttons` there presses the Pause
button, whose handler writes a command. `RomFails` is gui_message with its wait
for the box, then uae_restart. The window may be there or not
(`gui_available`, `start_gui`).

**Keyboard.** `record_key` and `get_next_key` are steps of one access each;
whether they run in one thread, as in every front end of this tree, or in two, as
the head of keybuf.c allows, is chosen at the start. The rest is the interlock
in CIA_hsync_handler and the Amiga's side: interrupt, read, handshake, polling.

**Events.** Time is taken modulo `WRAP`; `do_cycles` is three actions, since the
handlers it calls change the table it is walking: `JumpToEvent`, one `Reaches(e)`
per handler, `ScanDone`. The return at the start of `do_cycles` for the last line
of a frame is a stutter.

**Cia.** Two chips on one event. `cia` is each chip's registers; `ciaclocks`
and `div10` are derived from the cycle counter and the base as in the code;
every write to a timer's register first brings both chips up to date (`Touch`).
The abstract chip, CiaTick, counts one E clock; `CountsEveryClock` says that the
registers, *as they would be if looked at now*, do exactly that. 2^32 is no
multiple of the 2560 cycles of an E clock, so where the counter wraps between two
looks at the chips the phase of the E clock is lost. CiaClock allows that
(`Drift`) only while no timer counts. That this suffices is what the proof needed to be told:
a timer that counts puts an event into the table, whose handler looks at the
chips long before a wrap. Ports and the time of day are left out, and the keyboard is in a module of its
own; a report of theirs is the source "flag". A program may clear INTREQ bits; setting them by
hand is not modelled.

**Blitter.** `WriteRegister(hack, line)` is a write to a blitter register with
`maybe_blit(hack)` before it, `BLTSIZE` starts a blit, `BlitterEvent` is
`blitter_handler` called from the table; the first two call it too, outside the
loop. `postponed` and `ghost` are history: an event moved outside the loop, an
event left by RESET. `blits_done` flips whenever the blitter works.

## 3. The runs

The bounds below are the values in the .cfg files. Runs of systems that may
stop when their bounded work is done (pipe, semaphores, interrupts with nothing
left to raise, traps, hardfile, scsi, machine, filesys) switch the test for
deadlock off; that nothing stops too early there is what their liveness
properties say. Filesys has none: a packet is one step, and the steps end for
want of new a_inodes. Every module's type invariant is a conjunct of one of its
invariants.

Several properties hold *but for* cases they name. Each such case is a
behaviour of the code that was met while modelling; the run shows that there is
no other. Section 6 collects them.

**commpipe** (MCCommPipe.cfg). A ring of 4 slots, a threshold of 2 chunks, 9
chunks: the cursors go around twice, so full, empty, just above and just below
the threshold all meet the wrap. `ReadsInOrder`: the reader gets the chunks in
order, none lost, on both of the writer's paths. `FlushedReaderWakes`,
`SleepersHaveAWaker`: no wake-up is lost, and the two ends never both wait.
`PolledReadNeverSleeps`: the emulator thread, which polls first, is never put to
sleep. `ImplementsFifo`: the pipe is a step-by-step implementation of PipeFifo.
`FlushedIsRead`: what is flushed is read in the end. This also confirms the
comment at commpipe.h:81, that a post between the unlock and the wait is
harmless: with POSIX semaphores it is.

**amiga_sem** (MCAmigaSem.cfg). Three tasks, a count of 1, 3 posts and 2 CTRL-Cs:
two tasks can sleep while a third posts, one can be overtaken, and a break can
meet a destroy. `NoDanglingMessage`: messages live on their senders' stacks, and
the port never holds one whose sender has gone on. While the semaphore lives its
list, followed from the header both ways, is exactly the tasks whose BLOCK the
proxy has read and not answered, and no stack that was left is written to. The
sleepers of a *destroyed* semaphore break it: two asleep, the second leaves first,
and the Remove of the first one makes `lh_Head` name a stack that was left. What
the property says of that state is that no other link goes wrong: whatever a later
Remove or AddTail writes through `ln_Pred` or `lh_TailPred` is still there, and
`lh_Head` is not read any more, as posts look at `live` and nobody destroys a
semaphore twice.
`WakesMatchPosts`: no more tasks are let through than there were posts, and a task
sleeps on an available semaphore only if a post was missed, between a task's
look at the count and its BLOCK message, or because the task the last post woke
had not taken its unit yet. `RequestsEnd`: a poster, who keeps the mutex, always
gets out again.

**cpu** (MCCpuInterrupts.cfg). PORTS (bit 3, level 2) and DSKSYN (bit 12,
level 5), masks 0 and 3, two nested handlers: one request can interrupt the
other's handler, be masked by it, and arrive while it is served.
`NothingForgotten`: no opcode begins while a deliverable request has no flag. The
exceptions: in cycle-exact mode do_specialties clears `SPCFLAG_INT` when it
serves one interrupt, and a higher one on its way is not looked at until the
handler's RTE; and extended traps lower the mask without setting a flag.
`NoInterruptAtHandover`: no interrupt between a trap's switch and the opcode it
forces, the assumption Traps rests on. `RequestIsServed`: a request above the
mask is served, acknowledged or masked in the end.

**traps** (MCTraps.cfg). Two tasks, two contexts of which one returns a result,
three traps of at most one 68k call each, one reset. That is enough for two
tasks in traps at once whose calls return in the wrong order, for a trap inside
a trap's 68k function, and for the reuse of a context. `Coroutines`: of the
emulator and the trap threads one runs (`OneRuns`), which is all that protects
`regs` and the contexts, and trap_mutex is always found free (`NeverContended`),
because interrupts are masked. `EachTaskItsTraps`: call and exit handlers act
for the running task's innermost trap, each stack leads back to its task's
own traps, and a handler gets the result of its own call (`OwnResult`).
`ReturnsToCaller`: each task gets back its own registers. `TrapsReturn`: nobody
waits for good, *unless* a reset falls between a hand-over and its forced
opcode: trap_mutex then stays taken (`cut`).

**hardfile** (MCHardfile.cfg). One unit, two requests, a table of one slot, a
reply pipe of three entries; up to three requests sent, one call of another thread
or of notify_send, two openings or aborts and one reset, five events in all
(`MaxEvents`). `FirstIsR1`: the requests are alike, so the first one sent is `r1`. The
pipe fills in the middle of the second call, the table overflows with the second
request, a slot freed in between is entered by both threads, and a reset may fall
anywhere. (The program's pipe of 10 entries and 50 slots make the same states
rarer.) `OneReply`: a request is in one place on its way to one reply, and
nowhere once the Amiga owns it; private data is cleared
when no thread uses it (`ClearedWhenUnused`). `CallsAreWhole`: what is written
under n2asem is decoded call by call, and a call in the pipe has an interrupt
coming (`NeverNotEnough`: "we can get too many interrupts, but never not
enough"). `AbortWaits`: AbortIO
returns when the unit is through with the request. `TrapsReturn`, `Answered`:
nothing hangs, every request is answered. The exceptions: `cut_short` (a reset
between the clearing of
`uae_int_requested` and the work leaves calls in the pipe until somebody asks
again), `unmarked` (AbortIO does not wait for a request the full table dropped,
nor for one whose mark the other thread, which had found the slot free or holding what
it came to release, stored over), `Cornered` (the emulator waits for the unit's thread,
or in notify_send for room, while the pipe only the emulator empties is full) and
`Mistaken` (both threads entered a request in one slot, store by store, and a request
kept for a change of disk was left there with the other's TEMP: AbortIO and
hardfile_reset, which take that for "request is processing", wait for ever).

**scsi** (MCScsi.cfg). Two requests, three opens, three requests sent, one reset:
a first open, one that may meet the dying thread, and one after that, with a
reset between any two steps. `UnitIsSound`: a unit has one thread at a time, which
is dead when dev_exit has waited for it, and works on a drive that is open on the
host; but for `early`, `astray` and `inherited` above. `Answered`: every request
is replied to, and open, abort and reset end; but for `Unserved`, a unit that is
open and has no thread, because the open found the old one still running.

**filesys** (MCFilesys.cfg). A workload fixes the host's tree, the kinds of
packets and the paths, and how many a_inodes are ever made; the union of all
packets on the largest tree is out of reach, and a workload holds those that
interact: scans against deletes and renames; scans in a full cache of
five objects; every kind of lock and handle; files and directories made,
opened, deleted and renamed; a mixed one; and directories left behind by a failing
mkdir (two at a time, `MaxPhantoms`) whose parent is deleted and scanned. One lock
at a time and one handle
are enough for an object to be held twice. `CacheLimit` is 0 and `ReapCount` 1
(5000 and 50 in the program), so every new
a_inode may reap others; two scan slots (100) are overrun by the third scan.
All hash to one slot. `LocksAreCounted`: an object's counts say
who holds it, but for `recounted`; what is held is never freed, and what nobody
holds is on the list of what may be, once (`UnusedMayBeFreed`); the hash table
names no freed a_inode. `ScansOweTheRest`: a scan returns each entry that
was there at its start and was not deleted or renamed since exactly once, and
the counts that protect it from the reaping agree; a scan of a directory the host no
longer has is the exception. `CacheIsSound`: the cache
is part of the host's tree, and no object is in it twice. `FreedUsedOnlySo`: freed
memory is used in two places only, and the reaping loop ends.

**filesys_rename** (MCFilesysInto.cfg): section 6. Its workload is two directories
and the rename of one to a name inside itself, which `IntoItself` keeps out of
the other run.

**machine** (MCMachine.cfg). Two pipes of two commands (of 20 entries each in the
program), five inputs: keys, clicks, LEDs, missing Kickstarts, requests of the
Amiga, with and without Gtk. Five are enough for a start, a failing ROM, an answer
to its box and a request that crosses the reset, and to fill both pipes at once.
`GuiAgrees`: with nothing on its way, the buttons show the
machine's state, and Pause is pressed in only while it is paused, although
showing that sends commands back. `RequestStands`: a stop or quit
asked for is dropped by a Start, by the start after the configuration loop and by
the end of a reset, and by nothing else. `ChangeHappens`: every change asked for is made or
taken back, and the emulator gets out of its writes and message boxes, but for
`Stuck`: a message box closed without its button, a pipe nobody reads, and the
two threads each waiting for the other (`EachWaits`): the GUI's for room in the
full from_gui_pipe, the emulator for room in the full to_gui_pipe, or for a message
box that the GUI's thread has not come to.

**keyboard** (MCKeyboard.cfg). A ring of 4 (256 in the program), a patience of 4
intervals (16), seven keys: the ring wraps, is overrun, and keys are given up.
`KeysKept`: the ring holds exactly the keys typed, not refused and not taken yet, in order, with
one thread or two, but for `raced`: between the two stores of the cursor's
wrap a full ring seems to have room. `NoKeyRunOver`: a key unread makes way
only after the whole patience, resets or not. `KeysMoveOn`: the ring empties even when
nobody reads.

**cia** (MCCia.cfg). `WRAP` 15, E clock of 2 cycles, which do not divide it, digits of
base 2 (timers 0..3), a raster line of 5, instructions of 1 or 3 cycles, two register writes or
reports. The chips start reset or as two saved chips that between them have
one-shot mode, a cascade, the serial register and two counting timers; chip A is
driven by the program, B runs by itself and shares the event. The counter wraps
every third line, so every action meets the wrap. `NothingMissed`: the
assertions of CIA_update hold, no underflow and no event is passed by.
`CountsEveryClock`: the lazily computed timers implement CiaClock.
`RequestStands`: a request stays until ICR is read or the mask written, whatever
the program does to INTREQ; the exception, `late_mask`, is that writing the mask
does not look at the interrupts again.

**blitter** (MCBlitter.cfg). `WRAP` 9, a line of 3, blits of 1 or 5 cycles
(shorter and longer than a line), a wait of 2 while the DMA is off, given up
after 2 (20000 in the program), one cycle taken by the display, three operations
of the program (while the program waits, time may pass for as long as it likes).
Three are enough to start a blit, switch its DMA off and write over it, or to
RESET it and switch the DMA on again. `PendingHasEvent`, `WorksOnlyWhenStarted`
(but for `ghost`, a blit whose event RESET left in the table),
`PassedOnlyWhenPostponed`: only the event of a blit put off by a register write
is ever passed by. `BlitsEnd`.

## 4. Fairness

* CommPipe: weak fairness of both threads; they are scheduled by the host, and a
  semaphore that stays available is obtained.
* AmigaSem: weak fairness of the proxy, which runs above every task, and of a
  task that was answered. Tasks need not post.
* CpuInterrupts: the interpreter goes on (weak fairness of its steps). Devices
  and the choice of instructions are free.
* Traps: weak fairness of the emulator's own steps and of each trap's thread
  (host scheduling); strong fairness for each task's being switched to and for a 68k
  function's returning when its task runs, which stands for Exec's round-robin
  scheduling and for functions that return.
* Hardfile: weak fairness of the emulator, the unit's thread and the other
  sender, all host threads. Programs need not do anything.
* Scsi: weak fairness of the emulator's steps and of each of the unit's threads,
  but not of one that sleeps in a pipe a reset has cleared, which may never wake.
* Machine: weak fairness of both threads. BoxEnds is a step of the GUI's, so a
  user in front of a modal box is taken to end it, one way or the other. No
  input is assumed.
* Keyboard: lines go by, `record_key` returns, and a handler that drives the line
  lets go of it. The Amiga need not take the interrupt nor read anything.
* Blitter: weak fairness of "an instruction takes its time" and of the steps
  of do_cycles: the emulator goes on executing. Nothing is assumed of what the
  program writes.
* Cia and Filesys have safety properties only. A packet always ends, but for
  the two loops FreedUsedOnlySo speaks of.

## 5. Proofs

TLC checks the instances above. The theorems hold for every value of the
constants that satisfies the module's ASSUME. Each inductive invariant was checked
with TLC first.

**SyncProofs**.

*The pipe*, for every `Size`, every `Chunks` with `1 <= Chunks < Size`,
and every number of chunks. The properties are not inductive as they stand: that
the shortcut does not overwrite anything depends on the reader being asleep,
which depends on the wake-up protocol, which depends on how full the ring is.
`IInv` is the conjunction that closes the circle:

* `LockInv`: who is in a locked part, and that it is one at most;
* `WriterInv`: what the writer knows where it stands, in particular that on the
  shortcut the reader sleeps, has announced itself and cannot be woken by
  anybody else;
* `ReaderSleepInv`, `WriterSleepInv`: a sleeper has announced itself, or its
  wake-up is posted, or the other end is about to post, and exactly one of them;
  and how full the ring can be in each case;
* `ReaderInv`: what the reader knows; `NothingOverwritten`: the contents.

`NextIInv` has one step per action and under it one per conjunct; the arithmetic
of the ring (the distance between two slots, what an advance does to it) is in
lemmas of its own, `DistPut`, `DistGet`, `DistLeft` and others.
Theorems: `TypeCorrect`, `InOrder` (which states ReadsInOrder, the type invariant
included), `Preserved`, `NoLostReaderWakeup`,
`NoLostWriterWakeup`, `PollingIsSafe`, and `PipeRefinesFifo`: initial states map
to initial states and every step to Put, Get or a stutter of PipeFifo.

*The semaphores*, for every finite set of tasks, every first value of the semaphore,
and any number of posts and breaks. The obvious statement, that whatever the port or the
list refers to is inside its call, is not inductive: whether a message may be answered
depends on nobody else having answered it. `SemIInv`:

* `Message`: one message at most is in the port (the mutex and the priorities
  see to it), from a task that still waits for its answer;
* `Answers`: an answer has come only to a task that still waits for it;
* `Listed`: until DESTROY is handled there is a sequence that the links follow both
  ways, and it is the tasks held (`Whole`); the lemmas `Added` and `Unlinked` say
  what an AddTail and a Remove do to it, and `Reached` that there is only one.
  Afterwards `Links`: every `ln_Pred` names the header or a task still asleep
  (`Back`), and the one it names agrees (`Agree`); a link forward may be stale only
  in a message that is the first one of what it belongs to (`Forth`, `Stale`);
  `Named` is the claim about lh_Head;
* `Counts`: each task that is let through will take one from the value, so the
  value can be bounded from below, and let-through tasks never outnumber posts;
* `Spoken`: whoever waits does so on a count that is used up, or that the wake-up
  under way will use up, unless a post was missed.

Theorems: `MessagesAreSafe` (NoDanglingMessage), `WakesAgree` (WakesMatchPosts).

**EventProofs**, for every wrap of the cycle counter.

*The blitter*, for every length of blits and bound. `IInv` has three parts:

* `Table`: the event table is a function on the events in use;
* `PendingHasEvent`: a blit in progress has an event;
* `EventIsOwned`: an event of the blitter belongs to a blit in progress or to one
  RESET cut off (`ghost`). It is what WorksOnlyWhenStarted needs: the handler is
  only ever called for an owned event.

A second invariant, `Clockwork`, is about time. Besides `TypeOK` it has four parts;
all but the first leave out the event a register write has put off (`postponed`):

* `LineRuns`: the line event is `HSYNCTIME` after the cycle it was set at, which is
  what hsync_handler computes the next line's distance from;
* `NoneFar`: no event is further away than the longest a handler ever puts one;
* `NextIsFirst`: outside the scan, nextevent is not later than any event;
* `NoneSkipped`: within the scan, no event that is due is behind the loop's index.

The last two carry the first two over the jump of do_cycles and over a scan during
which handlers change the table. Everything is said in distances from now: lemma
`Gaps` has the arithmetic of the counter that wraps (the passing of k cycles takes k
off each distance that is at least k), `FirstOfAll` says what events_schedule
returns. That blits, waits, lines and instructions are short against the wrap, and
that instructions take time, are assumptions on the constants (`BlitterAssumption`,
`EventAssumption`).

Theorems: `PendingBlitHasEvent`, `NoSpuriousBlit`, `NoEventIsPassedBy`
(PassedOnlyWhenPostponed). The assertion of maybe_blit (blitter.c:1116), that a blit
in progress has an event, rests on the first.

*The 8520s*, for any chips, widths of the timers, latches, saved states, register writes and
lengths of instructions and lines. `CiaIInv` is Clockwork's argument with the
chips' event in the blitter's place, and shares its lemmas on the table and on the
counter:

* `ChipsArmed`: where a timer counts, their event is in the table, at the cycle of
  the first underflow and no further from the last look at the chips
  than that; so the clocks to be counted never exceed what a timer has left, which is
  the pair of assertions in CIA_update;
* `FirstIsNext`, `NoneLeft`: nextevent outside the scan and the loop's index within it, as
  for the blitter;
* `NoneDue`: when the program runs, no event is due;
* `LineRuns`, `LineNear`, `NoOthers`: the raster line, and that there is no third event.

Theorems: `NoUnderflowIsMissed` (NothingMissed), `ChipRequestStands` (RequestStands).

`ChipsCountEveryClock` (CountsEveryClock) is the refinement: CIA_update, which
works out any number of clocks at once, makes of a chip what CiaTick makes of it one
clock after another. `Ticks` is recursive; that a run of every length exists, that two
runs agree (`RunsAgree`) and that runs can be joined (`TicksAdd`) are proved by looking at the
first clock that would be wrong (`NoFirst`). `Counted` is a chip after n clocks in
which nothing underflows; `CiaIInv` says that a look at the chips comes before or at
the first underflow, so that CIA_update is Counted and then at most one Tick. A step of
time is then Pass (or Drift), a write to a register is Access, and everything else
leaves the chips, as they would be read now, unchanged. The registers of a timer do not
depend on those of the other as long as neither underflows, which is why a write
to one, made after a look at both, is a write to one in CiaClock too.

**CpuInterruptsProofs**, for every depth of handlers and every pair of
preferences. NothingForgotten speaks of the moment before an opcode; `Waiting` says the
same of every moment, and stronger: the handler that holds a request back has a lower mask to
restore. `Chips` says that a request is on its way once at most, without
which a write to INTREQ could leave a copy of what it cleared; `Saved` says that
the mask is 7 until the trap's handler runs, and `Preferences` that without traps nothing
is saved and that in cycle-exact mode nobody sets DOINT, nor does a trap bring it back. What a write does to the
queue of requests on their way is a recursive function (`Filtered` in
CpuInterrupts); its theorem is proved by induction for this one function, from the
well-foundedness of the natural numbers.
Theorems: `NoRequestForgotten` (NothingForgotten), `HandoverUndisturbed`
(NoInterruptAtHandover).

**TrapsProofs**, for any tasks, contexts, return values, and number of traps and
resets. `IInv`:

* `Baton`: of the two semaphores of the context the emulator waits for one at
  most is up, where its thread stands says which, and every other thread
  sleeps: the coroutines;
* `Mutex`: trap_mutex is taken exactly in the hand-over, or by a reset that cut one;
* `Nests`: no context serves two traps, and each remembers the registers of its own;
* `Registers`: what a task that does not run will go on with;
* `HandOver`: the emulator waits for the innermost trap of the task it left, and
  what lies in its context is its own.

EachTaskItsTraps needs all of them together: that current_context names the trap of the task
that runs is true only because no 68k code runs between its being set and the forced opcode,
which is `Mutex` and the mask in `HandOver`.
Theorems: `InvariantHolds`, `TrapThreadsAreCoroutines` (Coroutines),
`TasksKeepTheirTraps` (EachTaskItsTraps), `TrapsEndWhereTheyBegan` (ReturnsToCaller).

**MachineProofs**, for pipes of any size and any number of inputs. The properties speak
of empty pipes; the invariant takes each pipe and the unfinished write to it as one
queue (`Reports`, `Answers`):

* `Announced`: the last state in the queue is the machine's; if there is none, the
  window shows it;
* `Asked`: where Pause is pressed differently from what is shown, its request is the last
  of its kind on its way, or the emulator has taken it and has a change to make;
* `Places`: which states and wishes are possible where in main.c;
* `Boxes`: a message box comes last in its queue and stops the emulator.

Theorems: `InvariantHolds`, `WindowAgrees` (GuiAgrees), `StopAndQuitStand`
(RequestStands, which holds by cases once `Places` is known).

**DeviceProofs**.

*The keyboard*, for every size of the ring, every patience of the CIA, any number
of keys, by one thread or two. QueueExact speaks of the moments between two calls of
get_next_key; `Exact` of every moment, counted from `Base`, the slot the running
call will leave kpb_last at. `Room` is what each side knows of the cursor it does not
own: it may have moved since, but only away. `Patient` ties sleepyhead to the time
the key has been in the register. That the oldest key is the one taken rests on the
well-foundedness of the natural numbers. Theorems: `InvariantHolds`, `KeysWaitInOrder`
(KeysKept), `UnreadKeysStay` (NoKeyRunOver).

*A SCSI unit*, for any requests, table, opens, requests sent and resets. `UnitIsSound` excuses
every state after one of its two races, so the invariant has to say what is true
without them and what is true in spite of them. `ScsiIInv`, the second kind:

* `Counts`: each thread posts sync_sem twice at most and change_sem once, so the
  semaphores and the posts still to come are bounded by the opens and the boots,
  however many threads are on their way out;
* `InTurn`, `Fresh`: threads are started in turn, and dev_open waits for one that has
  nothing to read yet;
* `Carry`, `OneCopy`, `Current`: a request of this boot is in the pipe or with a thread,
  once, the program does not own it, and its unit is open; a reset, or the last
  close, leaves none. `Opened`: an open unit has its drive, on the host's word or
  an earlier open's.

and the first: `Known`: with neither race so far, only the newest thread serves, its
place says what thread_running is, and a post of sync_sem that nobody who opens is waiting for
is the newest thread's last. The induction is on the whole: that a thread at work has an
open drive, say, is Carry, Current and Opened together. Theorem:
`UnitServedByOneThread` (UnitIsSound).

**HardfileProofs**, for any requests, any sizes of the table and of
`native2amiga_pending`, any number of opens, aborts, resets and calls. It goes in three
stages, each of which needs the one before.

* *Calls* (`CallInv`). What is being decoded, what lies in the pipe and what the holder
  of `n2asem` has still to write is one sequence, `Stream`; `Whole` says of it that each entry
  is followed by the next of its call and the last one ends a call. To take a whole
  call off the front, or add one behind, keeps that (`WholeRest`, `WholeConcat`).
  `Turns` says that only the holder has written half a call, `Asked` where the wish for an
  interrupt is.
* *Lives* (`Types`). `Life` ties the place of the emulator thread to the life of the
  unit's: starting, serving (`Alive`: no death message in the pipe), dying (it is the last
  message, `Told`, or is being obeyed), gone. That change_sem counts exactly the thread at
  work and those that have posted sync_sem but not yet left is `Guarded`. ClearedWhenUnused
  and the bounds in TypeOK follow.
* *Places* (`IInv`). A request is in the unit's pipe, at its thread, in the reply the thread
  has still to write, in the reply on its way, or with the server (`OnePlace`). The lemma
  `Movement` says of every step and every request that it goes one place further, enters the
  pipe, or stays where it was; all the rest is read off that. `Boots` keeps the replies
  a reset has forgotten apart from this boot's requests. Of the table little can be said,
  since either thread may store over what the other has: `Users` says which request each
  is there for; `Marked` that a request that is sent or in work has a slot of its own with
  TEMP in it, or is in `unmarked`; `Entered` that BeginIO gives it one before it is sent
  (`Fresh`: until then it is nowhere); `Waited` that AbortIO, as long as there is something
  to wait for, has such a slot still in front of it. The lemmas about one access
  (`MarkKept`, `MarksLost`, `TableSteps`) say who can take a mark away.

Theorems: `CallsStayWhole` (CallsAreWhole), `RequestsHaveOneReply` (OneReply),
`AbortsAreWaitedFor` (AbortWaits).

**FilesysProofs**, for any host's tree, workloads, handles, numbers of a_inodes
and locks, and any size of the cache, the batches, the hash table and the scans' slots. A
packet does a dozen things to one structure, and LocksAreCounted is about the state
after all of them. `UnitIInv` has two halves. `Sound` is about the unit alone, and
holds between any two of those things:

* `Shape`: the fields have their types, and nothing was made beyond `a_uniq`;
* `Tree`: everything but the root is among the children of its parent, a directory that
  is there, and no uniq is given twice: without it a freed directory could leave a child
  that still names it;
* `Listed`: the list of reusable a_inodes holds the unused files and nothing else,
  but for those the packet at work has just found (`but`);
* `Hashed`: the hash table names only what is there, in its own slot.

`Counted` relates the unit to the clients: the locks and open handles on an object are
what its counts say, and each names an object that is there. The lemmas go along the
code: each routine of the unit keeps Sound (`Recycled`, `ChildAdded`,
`MovedToFront`, `KeyFreed`, `Deleted` and so on) and `Keeps` what is in use where it was, with its counts; each
packet then changes the counts of one object and its holders together. Two things had
to be found out. find_aino's answer is a file that nobody holds and that is
still on the list, so that a second search in the same packet may free it: the rename's
second find_aino may do that as well as the making of the new a_inode, which is how the branch
in `RenameTo` was found. And a walk or a reaping is a recursive function; that each of its steps
keeps Sound is shown by looking at the first step that would not (`NoFirst`).
Theorems: `HoldersAreCounted` (LocksAreCounted), `ListAndTableAreSound` (its part
UnusedMayBeFreed).

To check the proofs: `tlapm <module>.tla` for each module named above.

Only model-checked, because beyond the prover: all liveness (FlushedIsRead,
RequestsEnd, RequestIsServed, TrapsReturn, Answered, ChangeHappens, KeysMoveOn,
BlitsEnd). Of Filesys also ScansOweTheRest, CacheIsSound and FreedUsedOnlySo: the
first and the last rest on a sum over all directories, the second on the path of an
a_inode, a recursion over the tree, and what such a recursion computes for
every tree is induction over data.

## 6. Where code and documentation differ

One run refutes what a comment says; `findings` in PROJECT.json has the
quotation.

* **filesys_rename**: a rename looks "whether the other name already exists"
  (filesys.c:3277) and takes `a2 == a1` (3280) for a rename to the same name. For a
  name that does not exist find_aino answers the directory it would be in, so
  that a directory renamed to a name inside itself passes the test. The code then
  makes the name in the directory's *parent*, without looking whether the
  parent has one, and hands the host that path. An empty, locked directory of
  that name there is replaced, and two a_inodes of one path remain.

The following are not runs of their own but exceptions the passing properties
name; each is reached in its run, and the property would fail without it.

| where | what the code does | exception |
|---|---|---|
| td-amigaos/thread.c:373, 426 | a post between the unlock and the BLOCK message, or before a woken task has taken its unit, wakes nobody; commpipe.h:81 relies on that order being harmless | `missed` |
| td-amigaos/thread.c:134, 242 | a message DESTROY took off the list is removed again: its old successor becomes the head of the list, and is written to, though its stack may have been left since; later arrivals are dropped | not `live`; `overwritten` |
| newcpu.c:1735 | cycle-exact, a higher request on its way is not looked at until the handler's RTE | in NothingForgotten |
| traps.c:352, 412 | the mask is lowered without setting `SPCFLAG_INT`; newcpu.c:709 says what that needs | `traps` in NothingForgotten |
| main.c:701 | a reset in a trap's hand-over leaves trap_mutex taken | `cut` |
| filesys.c:3419 | a reset after the wish for an interrupt was cleared leaves calls in the pipe | `cut_short` |
| hardfile.c:325-328, 334, 345-347 | a request in work has no mark in the table, which was full, or where the other thread stored over it; AbortIO does not wait for it | `unmarked` |
| hardfile.c:325-328, 363 | two threads enter requests in one slot; a kept one is left there with the other's TEMP, and AbortIO or a reset waits for it for ever | `Mistaken` |
| hardfile.c:362, 803; filesys.c:1678 | the emulator waits for a thread, or for room, while only it can make room | `Cornered` |
| scsiemul.c:177, 196 | an open finds a thread that is about to die | `Unserved` |
| scsiemul.c:656, 663 | dev_exit's wait is satisfied by an older thread's post, or there is none | `early`, `astray` |
| scsiemul.c:261 | an open succeeds on a stale flag | `inherited` |
| filesys.c:2897, 3136 | shared once more, or lost in a rename: counted and never discounted | `recounted` |
| filesys.c:2991, 3175 | a failing mkdir, or a delete with cached children, leaves its a_inode | `phantom` |
| filesys.c:2206 | a scan of a directory that was deleted on the host, and left behind with its children, protects nothing: a lookup moves its entries under it | `phantom` in ScansOweTheRest |
| filesys.c:3278, 3296 | the rename's second search, or its new a_inode, makes the full cache free the renamed file | in FreedUsedOnlySo |
| filesys.c:2004 | a scan whose directory was deleted is freed through it | in FreedUsedOnlySo |
| main.c:868, memory.c:1638 | what is asked for during a reset is overwritten, the stop of a missing Kickstart included; Start after Quit takes the quit back | in RequestStands |
| gui-gtk/gtkui.c:2110, 2424 | LEDs are written to a pipe nobody reads; a closed box never posts | `Stuck` |
| gui-gtk/gtkui.c:838, 2110, 2396 | both pipes full, or one full and a message box to be shown: each thread waits for the other | `EachWaits` in `Stuck` |
| keybuf.c:56 | the two stores of the wrap, where the head of the file says "perfectly thread safe" | `raced` |
| cia.c:815 | writing the mask does not look at the interrupts | `late_mask` |
| blitter.c:647-662 | a register write moves the event without rescheduling; events.h:77 says that do_cycles handles all events | `postponed` |
| custom.c:4624 | RESET leaves the blitter's event in the table | `ghost` |

One more is in the model and has no property: STOP that changes the mask sets
`SPCFLAG_INT` itself and do_stop (newcpu.c:1583) takes any flag for an interrupt, so
that the next opcode runs; newcpu.c:1574 says that the CPU does nothing until an
IRQ arrives.

## 7. What is not modelled

`components` in PROJECT.json lists every part with the reason. In short:

* opcodes, the FPU, the JIT and its way of counting cycles, line drawing, sound
  samples, what a blit computes, image and archive formats: data. Nine tenths of
  the repository's lines are these, most of them generated (cpuemu_*.c,
  compemu.c, cpustbl.c), so the share of all lines the map covers stays small
  however much of the rest is modelled;
* host graphics, sound, GUI toolkits and file systems: calls of libraries;
* configuration, autoconfig, memory banks: sequential set-up;
* of filesys.c: the contents of files, protection, comments, the fsdb database,
  upper and lower case, read-only volumes, packets that name the root as the
  object to delete or rename, and reset;
* of gtkui.c: its panels, the disk and ROM names handed over in shared strings
  (INSERTDISK and SELECT_ROM free what a second click may have freed), the
  debugger;
* of td-amigaos/thread.c: starting and ending threads and the proxy;
* the cycle-exact blitter (decide_blitter), restore_blitter, the copper, audio
  and floppy state machines and the time of day: candidates for later
  modules on top of Events;
* the CD device (akiko.c) and bsdsocket's own threads.

## 8. Plan

Done: pipe, semaphores with breaks, interrupts, traps, native calls with the
hardfile device and notification, SCSI units, the filesystem's cache, machine
control with the Gtk window, the keyboard, event table with CIAs and blitter;
proofs of the pipe, the semaphores, the interrupts, the traps, the native calls and
the hardfile device, SCSI units, the filesystem's counts and lists, machine control,
the keyboard, the CIAs and the blitter.

Proofs: what a scan owes, and with it the sum of the counts that keep entries in
memory.

Models: the copper against the CPU (sync_copper_with_cpu), audio on Events, the
time of day and its alarm in Cia, Akiko's reader thread.
