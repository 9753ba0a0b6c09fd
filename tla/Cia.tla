-------------------------------- MODULE Cia --------------------------------
(***************************************************************************)
(* The timers, the serial register and the interrupts of the two 8520      *)
(* chips (cia.c).  The timers are not counted: the chips remember the      *)
(* cycle they were last looked at, eventtab[ev_cia] fires at the first     *)
(* underflow of any of the four timers, and CIA_update, called there and   *)
(* before every write to a timer, works out what the timers have become.   *)
(* It asserts that no underflow was missed.                                *)
(*                                                                         *)
(* A register of 16 bits is two digits of base BYTE.  The time of day, the *)
(* ports and the keyboard are left out; their reports are the source       *)
(* "flag".  Names that Blitter has too carry Cia or chip, so that one      *)
(* module can extend both.                                                 *)
(***************************************************************************)
EXTENDS Events

CONSTANTS
  Chips,
  DIV10,         \* cycles of one E clock
  BYTE,          \* values of a byte of a timer register, 256 in the program
  BITS,          \* pulses of timer A that shift out a byte: 8 * 2
  Stored,        \* what the chips may hold when the machine starts: registers
                 \* read from a saved state, or those of reset chips
  Driven,        \* the chips whose registers the program writes
  Cras, Crbs,    \* the values it writes to the control registers
  MaxWrites      \* bound: register accesses and reports

VARIABLES
  cia,           \* chip -> its registers and ir, bit 7 of its ICR
  div10,         \* cycles of the E clock that had passed at the last update
  intreq,        \* the chips whose bit is set in INTREQ
  late_mask,     \* the chips whose mask was written after the last Rethink
  writes

ciaVars == <<cia, div10, intreq, late_mask, writes>>
chipVars == <<eventVars, ciaVars>>

TimerValues == 0..BYTE * BYTE - 1
Sources == {"ta", "tb", "sp", "flag"}

CraValues == [start : {0, 1}, oneshot : {0, 1}, cnt : {0, 1}, sp : {0, 1}]
CrbValues == [start : {0, 1}, oneshot : {0, 1}, inmode : {"phi2", "cnt", "ta"}]

Registers ==
  [ta : TimerValues, la : TimerValues, tb : TimerValues, lb : TimerValues,
   cra : CraValues, crb : CrbValues,
   sdr_cnt : 0..BITS, icr : SUBSET Sources, imask : SUBSET Sources, ir : {0, 1}]

ASSUME CiaAssumption ==
  /\ ev_cia \in Ev /\ DIV10 \in Nat \ {0} /\ BYTE \in Nat \ {0} /\ BITS \in Nat
  /\ DIV10 * BYTE * BYTE + Max(Durations) < WRAP
  /\ Stored \subseteq [Chips -> Registers] /\ Driven \subseteq Chips
  /\ Cras \subseteq CraValues /\ Crbs \subseteq CrbValues /\ MaxWrites \in Nat

\* CIA_reset: the timers are full and stopped.
ResetChip ==
  [ta |-> BYTE * BYTE - 1, la |-> BYTE * BYTE - 1, tb |-> BYTE * BYTE - 1, lb |-> BYTE * BYTE - 1,
   cra |-> [start |-> 0, oneshot |-> 0, cnt |-> 0, sp |-> 0],
   crb |-> [start |-> 0, oneshot |-> 0, inmode |-> "phi2"],
   sdr_cnt |-> 0, icr |-> {}, imask |-> {}, ir |-> 0]

-----------------------------------------------------------------------------
\* The timers that count E clocks.
ARuns(c) == c.cra.start = 1 /\ c.cra.cnt = 0
BRuns(c) == c.crb.start = 1 /\ c.crb.inmode = "phi2"
Cascaded(c) == c.crb.start = 1 /\ c.crb.inmode = "ta"

\* RethinkICR: bit 7 follows the enabled sources.
Enabled(c) == c.icr \intersect c.imask # {}
Rethink(c) == [c EXCEPT !.ir = IF Enabled(c) THEN 1 ELSE 0]

\* The chips of xs are rethought, once they are the ones of cia'.
Thought(xs) ==
  /\ intreq' = intreq \union {x \in xs : Enabled(cia'[x])}
  /\ late_mask' = late_mask \ xs

\* ccount: cycles since the last update, with the E clock begun before it.
ccount == (Since(eventtab[ev_cia].oldcycles) + div10) % WRAP
ciaclocks == ccount \div DIV10

AOver(c, n) == ARuns(c) /\ c.ta + 1 = n
BOver(c, n) == \/ BRuns(c) /\ c.tb + 1 = n
               \/ Cascaded(c) /\ AOver(c, n) /\ c.tb = 0
Shifts(c, n) == AOver(c, n) /\ c.cra.sp = 1 /\ c.cra.oneshot = 0 /\ c.sdr_cnt > 0

Overflows(c, n) ==
  (IF AOver(c, n) THEN {"ta"} ELSE {})
    \union (IF BOver(c, n) THEN {"tb"} ELSE {})
    \union (IF Shifts(c, n) /\ c.sdr_cnt = 1 THEN {"sp"} ELSE {})

\* CIA_update for one chip: n E clocks have passed, of which the last may have
\* made timers underflow.
Updated(c, n) ==
  LET over == Overflows(c, n)
      counted == [c EXCEPT
        !.ta = IF AOver(c, n) THEN c.la ELSE IF ARuns(c) THEN @ - n ELSE @,
        !.tb = IF BOver(c, n) THEN c.lb
               ELSE IF BRuns(c) THEN @ - n
               ELSE IF Cascaded(c) /\ AOver(c, n) THEN @ - 1 ELSE @,
        !.cra.start = IF AOver(c, n) /\ c.cra.oneshot = 1 THEN 0 ELSE @,
        !.crb.start = IF BOver(c, n) /\ c.crb.oneshot = 1 THEN 0 ELSE @,
        !.sdr_cnt = IF Shifts(c, n) THEN @ - 1 ELSE @,
        !.icr = @ \union over]
  IN IF over = {} THEN counted ELSE Rethink(counted)

CIA_update == [x \in Chips |-> Updated(cia[x], ciaclocks)]

\* The chips CIA_update rethinks.
Overflowed == {x \in Chips : Overflows(cia[x], ciaclocks) # {}}

\* CIA_calctimers: the first underflow of a timer of cs, phase cycles into an E
\* clock, is the event of the chips.
Underflows(cs, phase) ==
  {DIV10 - phase + DIV10 * cs[x].ta : x \in {y \in Chips : ARuns(cs[y])}}
    \union {DIV10 - phase + DIV10 * cs[x].tb : x \in {y \in Chips : BRuns(cs[y])}}

CIA_calctimers(cs, phase) ==
  LET times == Underflows(cs, phase)
      idle == [eventtab EXCEPT ![ev_cia].active = 0, ![ev_cia].oldcycles = currcycle]
  IN IF times = {} THEN idle ELSE Arm(eventtab, ev_cia, Min(times))

-----------------------------------------------------------------------------
\* The machine is started, or a saved state is restored: the chips take up
\* where they were.  A source whose bit 7 was not yet set was enabled just
\* before the state was saved.
CiaInit ==
  /\ EventsInit
  /\ cia \in Stored /\ div10 \in 0..DIV10 - 1
  /\ LET times == Underflows(cia, div10)
     IN eventtab = IF times = {}
                     THEN [HsyncOnly EXCEPT ![ev_cia].oldcycles = currcycle]
                     ELSE Arm(HsyncOnly, ev_cia, Min(times))
  /\ nextevent = events_schedule(eventtab)
  /\ intreq = {x \in Chips : cia[x].ir = 1}
  /\ late_mask = {x \in Chips : Enabled(cia[x]) /\ cia[x].ir = 0}
  /\ writes = 0

\* A fault: the first event is not recomputed.
MutRewriteUnscheduled(x, c) ==
  /\ pc = "cpu" /\ writes < MaxWrites
  /\ cia' = [CIA_update EXCEPT ![x] = c] /\ div10' = ccount % DIV10
  /\ eventtab' = CIA_calctimers(cia', div10')
  /\ Thought(Overflowed)
  /\ writes' = writes + 1
  /\ UNCHANGED <<currcycle, nextevent, pc, cycles_to_add, scanned>>

\* A fault: only the chip written to is brought up to date.
MutRewriteOneChip(x, c) ==
  /\ pc = "cpu" /\ writes < MaxWrites
  /\ cia' = [cia EXCEPT ![x] = c] /\ div10' = ccount % DIV10
  /\ Reschedule(CIA_calctimers(cia', div10'))
  /\ Thought({y \in Chips : Overflows(cia[y], ciaclocks) # {}})
  /\ writes' = writes + 1
  /\ UNCHANGED <<currcycle, pc, cycles_to_add, scanned>>

\* A write to a register the timers depend on: every timer of both chips is
\* brought up to date, x becomes c, and the next underflow is looked for.
Rewrite(x, c) ==
  /\ pc = "cpu" /\ writes < MaxWrites
  /\ cia' = [CIA_update EXCEPT ![x] = c] /\ div10' = ccount % DIV10
  /\ Reschedule(CIA_calctimers(cia', div10'))
  /\ Thought(Overflowed)
  /\ writes' = writes + 1
  /\ UNCHANGED <<currcycle, pc, cycles_to_add, scanned>>

SetLo(word, v) == (word \div BYTE) * BYTE + v
SetHi(word, v) == v * BYTE + (word % BYTE)

\* Writes to the latch of a timer.  The high byte loads a stopped timer, and
\* starts one in one-shot mode.
WriteTaLo(x, v) == LET c == CIA_update[x] IN Rewrite(x, [c EXCEPT !.la = SetLo(@, v)])
WriteTbLo(x, v) == LET c == CIA_update[x] IN Rewrite(x, [c EXCEPT !.lb = SetLo(@, v)])

WriteTaHi(x, v) ==
  LET c == CIA_update[x]
      la == SetHi(c.la, v)
  IN Rewrite(x, [c EXCEPT !.la = la,
                          !.ta = IF c.cra.start = 0 \/ c.cra.oneshot = 1 THEN la ELSE @,
                          !.cra.start = IF c.cra.oneshot = 1 THEN 1 ELSE @])

WriteTbHi(x, v) ==
  LET c == CIA_update[x]
      lb == SetHi(c.lb, v)
  IN Rewrite(x, [c EXCEPT !.lb = lb,
                          !.tb = IF c.crb.start = 0 \/ c.crb.oneshot = 1 THEN lb ELSE @,
                          !.crb.start = IF c.crb.oneshot = 1 THEN 1 ELSE @])

\* Writes to the control registers, with the bit that loads the timer or not.
WriteCra(x, cr, load) ==
  LET c == CIA_update[x]
  IN Rewrite(x, [c EXCEPT !.cra = cr, !.ta = IF load THEN c.la ELSE @])

WriteCrb(x, cr, load) ==
  LET c == CIA_update[x]
  IN Rewrite(x, [c EXCEPT !.crb = cr, !.tb = IF load THEN c.lb ELSE @])

\* A byte is written to the serial register.
WriteSdr(x) ==
  LET c == CIA_update[x]
      left == IF c.cra.sp = 0 THEN 0 ELSE c.sdr_cnt
  IN Rewrite(x, [c EXCEPT !.sdr_cnt = IF c.cra.sp = 1 /\ c.cra.start = 1 /\ left = 0
                                        THEN BITS ELSE left])

-----------------------------------------------------------------------------
\* Accesses and reports that leave the timers alone; xs are the chips that are
\* rethought.
Touch(x, c, xs) ==
  /\ writes < MaxWrites /\ writes' = writes + 1
  /\ cia' = [cia EXCEPT ![x] = c]
  /\ Thought(xs)
  /\ UNCHANGED div10

\* The mask is written: bits are set or cleared, and nothing is rethought.
WriteMask(x, set, bits) ==
  LET c == cia[x]
      new == IF set THEN c.imask \union bits ELSE c.imask \ bits
  IN /\ pc = "cpu" /\ writes < MaxWrites /\ writes' = writes + 1
     /\ cia' = [cia EXCEPT ![x].imask = new]
     /\ late_mask' = late_mask \union {x}
     /\ UNCHANGED <<eventVars, div10, intreq>>

\* Reading ICR clears it.
ReadIcr(x) ==
  /\ pc = "cpu"
  /\ Touch(x, Rethink([cia[x] EXCEPT !.icr = {}]), {x})
  /\ UNCHANGED eventVars

\* A fault: INTREQ does not rethink the chips.
MutINTREQ(xs) ==
  /\ pc = "cpu"
  /\ intreq' = intreq \ xs
  /\ UNCHANGED <<eventVars, cia, div10, late_mask, writes>>

\* The program clears bits of INTREQ, those of the chips xs among them; INTREQ
\* ends by rethinking both chips, so that a bit is set again while there is
\* reason.
INTREQ(xs) ==
  /\ pc = "cpu"
  /\ cia' = [y \in Chips |-> Rethink(cia[y])]
  /\ intreq' = (intreq \ xs) \union {y \in Chips : Enabled(cia[y])}
  /\ late_mask' = {}
  /\ UNCHANGED <<eventVars, div10, writes>>

\* The RESET instruction, and the reset of the machine.
CIA_reset ==
  /\ pc = "cpu" /\ writes < MaxWrites /\ writes' = writes + 1
  /\ cia' = [x \in Chips |-> ResetChip] /\ div10' = 0
  /\ Reschedule([CIA_calctimers(cia', div10') EXCEPT
                   ![ev_hsync].evtime = After(HSYNCTIME), ![ev_hsync].oldcycles = currcycle])
  /\ late_mask' = {}
  /\ UNCHANGED <<currcycle, pc, cycles_to_add, scanned, intreq>>

-----------------------------------------------------------------------------
\* The event of the chips.
CIA_handler ==
  /\ Reaches(ev_cia)
  /\ cia' = CIA_update /\ div10' = ccount % DIV10
  /\ Reschedule(CIA_calctimers(cia', div10'))
  /\ Thought(Overflowed)
  /\ UNCHANGED writes

\* A raster line ends.  The time of day may reach the alarm there, or a key
\* arrive: the chip is told.
Report(x) == Touch(x, Rethink([cia[x] EXCEPT !.icr = @ \union {"flag"}]), {x})

CIA_hsync_handler ==
  /\ Reaches(ev_hsync)
  /\ eventtab' = NextLine(eventtab) /\ UNCHANGED nextevent
  /\ (\E x \in Chips : Report(x)) \/ UNCHANGED ciaVars

-----------------------------------------------------------------------------
CiaCpu ==
  \/ \E x \in Driven : \E v \in 0..BYTE - 1 :
        WriteTaLo(x, v) \/ WriteTaHi(x, v) \/ WriteTbLo(x, v) \/ WriteTbHi(x, v)
  \/ \E x \in Driven : \E load \in BOOLEAN :
        \/ \E cr \in Cras : WriteCra(x, cr, load)
        \/ \E cr \in Crbs : WriteCrb(x, cr, load)
  \/ \E x \in Driven :
        \/ WriteSdr(x) \/ ReadIcr(x) \/ INTREQ({x})
        \/ \E set \in BOOLEAN : WriteMask(x, set, {"ta", "tb"})
  \/ INTREQ({}) \/ CIA_reset

CiaTakes == UNCHANGED ciaVars /\ \E n \in Durations : do_cycles(n)

CiaEmulate ==
  \/ CIA_handler \/ CIA_hsync_handler
  \/ (JumpToEvent \/ PassTheRest \/ ScanDone) /\ UNCHANGED ciaVars

CiaNext == CiaCpu \/ CiaTakes \/ CiaEmulate

CiaSpec == CiaInit /\ [][CiaNext]_chipVars
-----------------------------------------------------------------------------
CiaTypeOK ==
  /\ EventsTypeOK
  /\ cia \in [Chips -> Registers]
  /\ div10 \in 0..DIV10 - 1
  /\ intreq \subseteq Chips /\ late_mask \subseteq Chips
  /\ writes \in 0..MaxWrites

\* No timer has underflowed unnoticed.  While the 68k runs, none is even due, so
\* that what it reads is a value the timer really has.
NoUnderflowMissed ==
  \A x \in Chips :
     LET due == IF pc = "cpu" THEN 0 ELSE 1
     IN /\ ARuns(cia[x]) => cia[x].ta + due >= ciaclocks
        /\ BRuns(cia[x]) => cia[x].tb + due >= ciaclocks

\* No event waits for the cycle counter to wrap: the chips' next underflow and
\* the next raster line are never further away than they were first put.
NoEventPassed ==
  /\ ~ Passed(ev_cia, DIV10 * BYTE * BYTE)
  /\ ~ Passed(ev_hsync, HSYNCTIME)

\* The assertions of CIA_update and compute_passed_time (cia.c:148-164, 182-215)
\* hold: whatever is written to the timers, and wherever the cycle counter
\* wraps, time passes neither an underflow nor an event by.
NothingMissed == CiaTypeOK /\ NoUnderflowMissed /\ NoEventPassed

\* An interrupt a chip asks for stays requested of the 68k, however often the
\* program clears the request, until the chip's ICR is read or its mask
\* changed.  The exception is in the code: writing the mask does not rethink
\* (cia.c:815, 951), and a source enabled after it has reported is noticed only
\* at the next event of the chip or the next write to INTREQ.
RequestStands ==
  \A x \in Chips : Enabled(cia[x]) /\ x \notin late_mask => x \in intreq /\ cia[x].ir = 1

Eager == INSTANCE CiaTick

Clock == INSTANCE CiaClock WITH
  now <- currcycle, sub <- ccount % DIV10,
  chip <- [x \in Chips |-> [Eager!Ticks(cia[x], ciaclocks) EXCEPT !.ir = 0]]

\* The chips count every E clock: brought up to date on demand (cia.c:171-246),
\* their registers are at every moment those of chips that count one clock
\* after another, and a write to one timer never disturbs another.
CountsEveryClock == Clock!Spec
=============================================================================
