------------------------------ MODULE Blitter ------------------------------
(***************************************************************************)
(* The blitter (blitter.c) where cycle exactness is off.  BLTSIZE starts a *)
(* blit, which is done all at once, by the handler of eventtab[ev_blitter] *)
(* when the cycles it takes have passed; or by a write to a register of    *)
(* the blitter, which first has the blit in progress done (maybe_blit).    *)
(* The handler puts the blit off while the blitter's DMA is off, and once  *)
(* for the cycles the display has taken from it (blit_slowdown).           *)
(***************************************************************************)
EXTENDS Events

CONSTANTS
  Blits,         \* cycles blits may take
  Slows,         \* cycles a line's display may take from the blitter
  FirstLine,     \* cycles of the first line of a blit
  WAIT,          \* the handler looks for the DMA every so often: 10
  STUCK,         \* and counts how often in vain: 20000
  MaxSlow,       \* bound: cycles taken in all
  MaxOps         \* bound: register writes, resets and saves

VARIABLES
  bltstate,      \* "done", "init": waits for the DMA, "work"
  blit_slowdown, \* cycles taken from the blit in progress; -1: waited for
  blitline,      \* 1: BLTCON1 asks for a line
  blit_firstline_cycles,
  blitter_stuck,
  dma,           \* 1: DMA_BLITTER and DMA_MASTER are set in dmacon
  immediate_blits,
  irq,           \* 1: the blitter's bit is set in INTREQ
  blits_done,    \* history: 0 or 1, changes whenever the blitter works
  postponed,     \* history: it was maybe_blit that put the event off
  ghost,         \* history: RESET came while a blit was in progress
  ops

blit == <<blit_slowdown, blitline, blit_firstline_cycles>>
irqVars == <<irq, blits_done>>
history == <<postponed, ghost>>
bltVars == <<bltstate, blit, blitter_stuck, dma, immediate_blits, irqVars, history, ops>>
vars == <<eventVars, bltVars>>

ASSUME BlitterAssumption ==
  /\ ev_blitter \in Ev /\ WAIT \in Nat \ {0} /\ STUCK \in Nat /\ MaxSlow \in Nat
  /\ Blits \subseteq 1..WRAP - 1 /\ Slows \subseteq Nat /\ FirstLine \in Nat /\ MaxOps \in Nat
  /\ Max(Blits \union {WAIT, MaxSlow, HSYNCTIME}) + Max(Durations) < WRAP

InProgress == bltstate # "done"

-----------------------------------------------------------------------------
\* The machine has been reset and nothing has used the blitter.
Init ==
  /\ EventsInit
  /\ eventtab = HsyncOnly /\ nextevent = events_schedule(eventtab)
  /\ bltstate = "done" /\ blit_slowdown = 0 /\ blitline = 0 /\ blit_firstline_cycles = 0
  /\ blitter_stuck = 0 /\ dma = 0 /\ immediate_blits \in BOOLEAN
  /\ irq = 0 /\ blits_done = 0 /\ postponed = FALSE /\ ghost = FALSE /\ ops = 0

Operates == ops < MaxOps /\ ops' = ops + 1 /\ pc = "cpu"
SameTime == UNCHANGED <<currcycle, pc, cycles_to_add, scanned, immediate_blits>>

\* blitter_handler in its three outcomes.
Waits == dma = 0 /\ (blitter_stuck + 1 < STUCK \/ ~ immediate_blits)
IsSlowed == ~ Waits /\ blit_slowdown > 0 /\ ~ immediate_blits
Works == ~ Waits /\ ~ IsSlowed

Handled ==
  IF Works THEN Disarm(eventtab, ev_blitter)
  ELSE IF Waits THEN Arm(eventtab, ev_blitter, WAIT)
  ELSE Arm(eventtab, ev_blitter, blit_slowdown)

Stuck == IF Waits THEN Min({blitter_stuck + 1, STUCK}) ELSE 0

\* blitter_done, after the blit (on), or nothing of it.
Finish(on) ==
  /\ bltstate' = IF on THEN "done" ELSE bltstate
  /\ irq' = IF on THEN 1 ELSE irq
  /\ blits_done' = IF on THEN 1 - blits_done ELSE blits_done

\* A fault: the display's cycles are waited for again and again.
MutHandlerSlowsAgain ==
  /\ eventtab' = Handled
  /\ blitter_stuck' = Stuck
  /\ Finish(Works)
  /\ UNCHANGED <<blit_slowdown, blit_firstline_cycles, dma>>

blitter_handler ==
  /\ eventtab' = Handled
  /\ blitter_stuck' = Stuck
  /\ blit_slowdown' = IF IsSlowed THEN -1 ELSE blit_slowdown
  /\ Finish(Works)
  /\ UNCHANGED <<blit_firstline_cycles, dma>>

\* maybe_blit, before a write to a register with the given hack: the program
\* did not wait for the blitter.  Modulo registers may be written after the
\* first line.  The handler may leave the event at another time: the first
\* event is not looked for again.
MaybeBlits(hack) ==
  InProgress /\ ~ (hack = 1 /\ currcycle < blit_firstline_cycles)

\* hack = 2: BLTCON1 too, which may change the mode of a blit still in progress.
WriteRegister(hack, line) ==
  /\ Operates /\ SameTime
  /\ MaybeBlits(hack) /\ (hack = 2 \/ line = blitline)
  /\ blitter_handler
  /\ blitline' = IF Works THEN blitline ELSE line
  /\ postponed' = ~ Works
  /\ UNCHANGED <<nextevent, ghost>>

\* A fault: the first event is not recomputed.
MutBLTSIZE(n, line) ==
  /\ Operates /\ SameTime
  /\ n = 0 => line = 1
  /\ bltstate' = IF n = 0 THEN "done" ELSE IF dma = 1 THEN "work" ELSE "init"
  /\ blit_slowdown' = 0 /\ blitline' = line
  /\ blit_firstline_cycles' = IF line = 1 THEN currcycle ELSE After(FirstLine)
  /\ irq' = IF n = 0 \/ (InProgress /\ Works) THEN 1 ELSE irq
  /\ blits_done' = IF InProgress /\ Works THEN 1 - blits_done ELSE blits_done
  /\ blitter_stuck' = IF InProgress THEN Stuck ELSE blitter_stuck
  /\ eventtab' = IF n = 0 THEN Disarm(eventtab, ev_blitter)
                 ELSE Arm(eventtab, ev_blitter, IF immediate_blits THEN 1 ELSE n)
  /\ postponed' = FALSE /\ ghost' = FALSE
  /\ UNCHANGED <<nextevent, dma>>

\* BLTSIZE or BLTSIZH: maybe_blit has the blit in progress done, or put off, and
\* do_blitter starts one of n cycles, line telling its mode.  A line of the
\* wrong width (n = 0) is done at once.
BLTSIZE(n, line) ==
  /\ Operates /\ SameTime
  /\ n = 0 => line = 1
  /\ bltstate' = IF n = 0 THEN "done" ELSE IF dma = 1 THEN "work" ELSE "init"
  /\ blit_slowdown' = 0 /\ blitline' = line
  /\ blit_firstline_cycles' = IF line = 1 THEN currcycle ELSE After(FirstLine)
  /\ irq' = IF n = 0 \/ (InProgress /\ Works) THEN 1 ELSE irq
  /\ blits_done' = IF InProgress /\ Works THEN 1 - blits_done ELSE blits_done
  /\ blitter_stuck' = IF InProgress THEN Stuck ELSE blitter_stuck
  /\ IF n = 0
       THEN eventtab' = Disarm(eventtab, ev_blitter) /\ UNCHANGED nextevent
       ELSE Reschedule(Arm(eventtab, ev_blitter, IF immediate_blits THEN 1 ELSE n))
  /\ postponed' = FALSE /\ ghost' = FALSE
  /\ UNCHANGED dma

\* A fault: with its DMA the blitter's event is taken away.
MutDMACON(on) ==
  /\ Operates /\ SameTime
  /\ dma' = on
  /\ bltstate' = IF on = 1 /\ bltstate = "init" THEN "work" ELSE bltstate
  /\ Reschedule(IF on = 0 THEN Disarm(eventtab, ev_blitter) ELSE eventtab)
  /\ UNCHANGED <<blit, blitter_stuck, irqVars, history>>

\* DMACON turns the DMA on or off, or leaves it as it is, and schedules.
DMACON(on) ==
  /\ Operates /\ SameTime
  /\ dma' = on
  /\ bltstate' = IF on = 1 /\ bltstate = "init" THEN "work" ELSE bltstate
  /\ Reschedule(eventtab)
  /\ UNCHANGED <<blit, blitter_stuck, irqVars, history>>

\* The program acknowledges the interrupt.
ClearIntreq ==
  /\ pc = "cpu" /\ irq = 1 /\ irq' = 0
  /\ UNCHANGED <<eventVars, bltstate, blit, blitter_stuck, dma, immediate_blits, blits_done, history, ops>>

\* A fault: the event of the blit is left in the table.
Mutsave_blitter ==
  /\ Operates /\ SameTime /\ bltstate = "work"
  /\ Finish(TRUE)
  /\ postponed' = FALSE
  /\ UNCHANGED <<eventtab, nextevent, blit, blitter_stuck, dma, ghost>>

\* A state is saved: the blit in progress is done at once, unless it waits for
\* the DMA it was started without.
save_blitter ==
  /\ Operates /\ SameTime /\ bltstate = "work"
  /\ Finish(TRUE)
  /\ eventtab' = Disarm(eventtab, ev_blitter)
  /\ postponed' = FALSE
  /\ UNCHANGED <<nextevent, blit, blitter_stuck, dma, ghost>>

\* init_hz begins a line, whose event is always active.
HsyncRestarts(tab) == Arm(tab, ev_hsync, HSYNCTIME)

\* The RESET instruction: customreset forgets the blit, not its event.
RESET ==
  /\ Operates /\ SameTime
  /\ bltstate' = "done"
  /\ dma' = 0
  /\ Reschedule(HsyncRestarts(eventtab))
  /\ ghost' = (ghost \/ Active(ev_blitter))
  /\ UNCHANGED <<blit, blitter_stuck, irqVars, postponed>>

\* The machine is reset: init_eventtab empties the table first.
do_reset_machine ==
  /\ Operates /\ SameTime
  /\ bltstate' = "done"
  /\ dma' = 0
  /\ Reschedule(HsyncOnly)
  /\ ghost' = FALSE /\ postponed' = FALSE
  /\ UNCHANGED <<blit, blitter_stuck, irqVars>>

-----------------------------------------------------------------------------
\* The event of the blitter.
BlitterEvent ==
  /\ Reaches(ev_blitter)
  /\ blitter_handler
  /\ postponed' = FALSE /\ ghost' = (ghost /\ ~ Works)
  /\ UNCHANGED <<nextevent, blitline, immediate_blits, ops>>

\* blitter_slowdown: the display may have taken cycles from the blitter.
Slowdown ==
  \E s \in Slows : /\ InProgress /\ blit_slowdown >= 0 /\ blitline = 0
                   /\ blit_slowdown + s <= MaxSlow
                   /\ blit_slowdown' = blit_slowdown + s

\* A raster line ends.
hsync_handler ==
  /\ Reaches(ev_hsync)
  /\ eventtab' = NextLine(eventtab) /\ UNCHANGED nextevent
  /\ Slowdown \/ UNCHANGED blit_slowdown
  /\ UNCHANGED <<bltstate, blitline, blit_firstline_cycles, blitter_stuck, dma, immediate_blits,
                 irqVars, history, ops>>

-----------------------------------------------------------------------------
Cpu ==
  \/ \E hack \in {0, 1, 2}, line \in {0, 1} : WriteRegister(hack, line)
  \/ \E n \in Blits \union {0}, line \in {0, 1} : BLTSIZE(n, line)
  \/ \E on \in {0, 1} : DMACON(on)
  \/ ClearIntreq \/ save_blitter \/ RESET \/ do_reset_machine

Takes == UNCHANGED bltVars /\ \E n \in Durations : do_cycles(n)

Emulate ==
  \/ BlitterEvent \/ hsync_handler
  \/ (JumpToEvent \/ PassTheRest \/ ScanDone) /\ UNCHANGED bltVars

Next == Cpu \/ Takes \/ Emulate

Spec == Init /\ [][Next]_vars

\* The emulator goes on executing instructions.
FairSpec == Spec /\ WF_vars(Takes) /\ WF_vars(Emulate)
-----------------------------------------------------------------------------
TypeOK ==
  /\ EventsTypeOK
  /\ bltstate \in {"done", "init", "work"} /\ blit_slowdown \in -1..MaxSlow
  /\ blitline \in {0, 1} /\ blit_firstline_cycles \in Time
  /\ blitter_stuck \in 0..STUCK /\ dma \in {0, 1} /\ irq \in {0, 1}
  /\ immediate_blits \in BOOLEAN /\ postponed \in BOOLEAN /\ ghost \in BOOLEAN
  /\ blits_done \in {0, 1} /\ ops \in 0..MaxOps

\* The check of maybe_blit (blitter.c:1116): a blit in progress has an event
\* that will do it, whatever resets, saved states, DMA switches and register
\* writes came in between.
PendingHasEvent == InProgress => Active(ev_blitter)

\* Longer than any handler puts an event off.
Longest == Max(Blits \union {WAIT, MaxSlow, HSYNCTIME})

\* Time passes no event by, with one exception, the event
\* of a blit that a register write has put off (blitter.c:647-662 called from
\* blitter.c:1121).
PassedOnlyWhenPostponed ==
  /\ TypeOK
  /\ \A e \in Ev : Passed(e, Longest) => e = ev_blitter /\ postponed

\* The blitter works only on a blit that was started and has not been done.
\* The exception is a blit that RESET cut off: customreset (custom.c:4624)
\* leaves its event in the table, and the blitter works once more when its DMA
\* is next turned on.
WorksOnlyWhenStarted ==
  [][blits_done' # blits_done => InProgress \/ ghost]_vars

\* A blit ends, unless its DMA is off again and again; with immediate blits even
\* then (blitter.c:651-657).
BlitsEnd == []<>(~ InProgress \/ (dma = 0 /\ ~ immediate_blits))
=============================================================================
