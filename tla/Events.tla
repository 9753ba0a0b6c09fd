------------------------------- MODULE Events -------------------------------
(***************************************************************************)
(* The event table of the emulator (events.c, include/events.h): every     *)
(* chip leaves in eventtab the cycle its handler is to run at, nextevent   *)
(* caches the first of these cycles, and do_cycles lets time jump from one *)
(* event to the next while an instruction of the 68k takes its cycles.     *)
(*                                                                         *)
(* Cycle counts are unsigned long and wrap: they are taken modulo WRAP     *)
(* here, 2^32 or 2^64 in the program.  One unit of time of the model is    *)
(* one CYCLE_UNIT.  The JIT's way of counting (pissoff) is left out.       *)
(* The modules of the chips extend this one and supply the handlers.       *)
(***************************************************************************)
EXTENDS Integers, FiniteSetsExt

CONSTANTS
  WRAP,          \* the cycle counter wraps here
  Ev,            \* the events in use, numbered as in the table
  HSYNCTIME,     \* cycles of one raster line
  Durations,     \* the cycles instructions take
  StartTimes     \* the cycle counts the machine may be reset at

VARIABLES
  currcycle,     \* the current cycle
  nextevent,     \* the cycle of the first event
  eventtab,      \* event -> [active, evtime, oldcycles]
  pc,            \* "cpu": the 68k runs; "loop", "scan": inside do_cycles
  cycles_to_add, \* what is left of do_cycles' argument
  scanned        \* the index of do_cycles' for loop

eventVars == <<currcycle, nextevent, eventtab, pc, cycles_to_add, scanned>>

\* The indices of the table: the order in which handlers of one cycle run.
ev_hsync == 0
ev_cia == 3
ev_blitter == 4
ev_max == 6

ASSUME EventAssumption ==
  /\ WRAP \in Nat /\ Ev \subseteq 0..ev_max - 1 /\ ev_hsync \in Ev
  /\ HSYNCTIME \in 1..WRAP - 1 /\ Durations \subseteq 1..WRAP - 1 /\ Durations # {}
  /\ StartTimes \subseteq 0..WRAP - 1

Time == 0..WRAP - 1

After(t) == (currcycle + t) % WRAP
Since(t) == (currcycle - t) % WRAP
Until(t) == (t - currcycle) % WRAP

Active(e) == eventtab[e].active = 1

-----------------------------------------------------------------------------
\* struct ev
Event(a, t, o) == [active |-> a, evtime |-> t, oldcycles |-> o]

\* Leaves e to run in t cycles, and takes it out of the table.
Arm(tab, e, t) == [tab EXCEPT ![e] = Event(1, After(t), currcycle)]
Disarm(tab, e) == [tab EXCEPT ![e] = Event(0, tab[e].evtime, tab[e].oldcycles)]

\* events_schedule on the table tab: the first event from now on.
events_schedule(tab) ==
  LET ahead == {(tab[e].evtime - currcycle) % WRAP : e \in {x \in Ev : tab[x].active = 1}}
  IN (currcycle + Min(ahead \union {WRAP - 1})) % WRAP

\* A chip changes the table and, as it should, has the first event recomputed.
Reschedule(tab) == eventtab' = tab /\ nextevent' = events_schedule(eventtab')

\* After a reset: init_eventtab and init_hz leave the raster line running, one
\* line away.  Cycles are not counted from 0 again (set_cycles is empty
\* without the JIT).
HsyncOnly ==
  [e \in Ev |-> IF e = ev_hsync THEN Event(1, After(HSYNCTIME), currcycle) ELSE Event(0, 0, 0)]

EventsInit ==
  /\ currcycle \in StartTimes
  /\ pc = "cpu" /\ cycles_to_add = 0 /\ scanned = 0

-----------------------------------------------------------------------------
\* An instruction, or a wait of the 68k for a chip, takes n cycles.  do_cycles
\* may also return at once, while the last line of a frame waits for the
\* host's clock: no cycle passes then, and nothing changes.
do_cycles(n) ==
  /\ pc = "cpu"
  /\ pc' = "loop" /\ cycles_to_add' = n
  /\ UNCHANGED <<currcycle, nextevent, eventtab, scanned>>

\* while (nextevent - currcycle <= cycles_to_add): jump to the event.
JumpToEvent ==
  /\ pc = "loop" /\ Until(nextevent) <= cycles_to_add
  /\ cycles_to_add' = cycles_to_add - Until(nextevent)
  /\ currcycle' = nextevent
  /\ scanned' = 0 /\ pc' = "scan"
  /\ UNCHANGED <<nextevent, eventtab>>

\* No event is left: the rest of the cycles pass.
PassTheRest ==
  /\ pc = "loop" /\ Until(nextevent) > cycles_to_add
  /\ currcycle' = After(cycles_to_add)
  /\ cycles_to_add' = 0 /\ pc' = "cpu"
  /\ UNCHANGED <<nextevent, eventtab, scanned>>

\* The events the for loop finds due from the index it has reached.
Due == {e \in Ev : e >= scanned /\ Active(e) /\ eventtab[e].evtime = currcycle}

\* The loop reaches the event e and calls its handler, which supplies the rest.
Reaches(e) ==
  /\ pc = "scan" /\ e \in Due /\ \A x \in Due : e <= x
  /\ scanned' = e + 1
  /\ UNCHANGED <<currcycle, pc, cycles_to_add>>

\* The for loop is over.
ScanDone ==
  /\ pc = "scan" /\ Due = {}
  /\ Reschedule(eventtab)
  /\ pc' = "loop" /\ scanned' = 0
  /\ UNCHANGED <<currcycle, cycles_to_add>>

\* hsync_handler puts the next line as far away as the last one was long.
NextLine(tab) ==
  LET hs == tab[ev_hsync]
  IN [tab EXCEPT ![ev_hsync] =
        Event(hs.active, (hs.evtime + Since(hs.oldcycles)) % WRAP, currcycle)]

EventsTypeOK ==
  /\ currcycle \in Time /\ nextevent \in Time
  /\ eventtab \in [Ev -> [active : {0, 1}, evtime : Time, oldcycles : Time]]
  /\ pc \in {"cpu", "loop", "scan"}
  /\ cycles_to_add \in 0..Max(Durations)
  /\ scanned \in 0..ev_max

\* An event that is passed over waits for the counter to wrap: from then on it
\* is further away than any handler ever puts one.
Passed(e, longest) == Active(e) /\ Until(eventtab[e].evtime) > longest
=============================================================================
