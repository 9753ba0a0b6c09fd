--------------------------- MODULE CpuInterrupts ---------------------------
(***************************************************************************)
(* How an interrupt request of the custom chips reaches the 68k: INTREQ    *)
(* and INTENA (src/src/custom.c), the flags that stand for "look at the    *)
(* interrupts" in the interpreter's spcflags, and do_specialties, do_stop  *)
(* and MakeFromSR (src/src/newcpu.c).  An extended trap (src/src/traps.c)  *)
(* replaces the whole register file, spcflags and mask included, so its    *)
(* four handlers are instructions here too.                                *)
(*                                                                         *)
(* The interpreter's loop is three phases: "op" executes an opcode,        *)
(* "cycles" is do_cycles, in which devices raise requests, and "special"   *)
(* is do_specialties.  A request is its bit number in INTREQ.  The guest   *)
(* program is arbitrary: any instruction that touches the interrupts may   *)
(* come next.  SPCFLAG_BRK and tracing are not modelled here.              *)
(***************************************************************************)
EXTENDS Integers, Sequences, FiniteSets

CONSTANTS
    Irq,       \* the INTREQ bits in use, a subset of 0 .. 14
    SrMasks,   \* priority masks the program loads into SR
    MaxDepth   \* bound: nested interrupt handlers

ASSUME CpuAssumption ==
    /\ Irq \subseteq 0 .. 13 /\ SrMasks \subseteq 0 .. 7 /\ MaxDepth \in Nat

VARIABLES
    exact,                    \* currprefs.cpu_cycle_exact
    traps,                    \* does the program enter extended traps
    intreq, intena, master,   \* INTREQ, INTENA and INTENA's bit 14
    coming, due,              \* irq_pending: by age, and those over 4 cycles old
    flags,                    \* regs.spcflags: "INT", "DOINT", "STOP"
    intmask,                  \* regs.intmask
    stack,                    \* masks in the status words that handlers push
    phase,                    \* where the interpreter's loop is
    forced,                   \* trap handler at the PC after a trap: "call", "exit"
    saved                     \* context->saved_regs of the running trap, or none

chipVars == <<intreq, intena, master, coming, due>>
trapVars == <<forced, saved>>
prefs == <<exact, traps>>
vars == <<prefs, chipVars, flags, intmask, stack, phase, trapVars>>

-----------------------------------------------------------------------------
Level(i) == CASE i \in {13, 14}  -> 6
              [] i \in {11, 12}  -> 5
              [] i \in 7 .. 10   -> 4
              [] i \in 4 .. 6    -> 3
              [] i = 3           -> 2
              [] OTHER           -> 1

Active == intreq \cap intena

IntlevSimple(imask) ==
    IF imask \cap {13, 14} # {} THEN 6 ELSE IF imask \cap {11, 12} # {} THEN 5
    ELSE IF imask \cap 7 .. 10 # {} THEN 4 ELSE IF imask \cap 4 .. 6 # {} THEN 3
    ELSE IF 3 \in imask THEN 2 ELSE 1

Highest(S) == CHOOSE i \in S : \A k \in S : k <= i

\* Requests on their way (irq_time less than 4 cycles ago), oldest first; those
\* of one moment share an element.
OnTheWay == UNION {coming[k] : k \in DOMAIN coming}
Filtered(c, S, f, n) ==
    IF n = 0 THEN <<>>
    ELSE IF c[n] \subseteq S THEN f[n - 1] ELSE Append(f[n - 1], c[n] \ S)
Without(c, S) == LET kept[n \in 0 .. Len(c)] == Filtered(c, S, kept, n) IN kept[Len(c)]

\* The loop of intlev_exact takes the highest request that has arrived.
Arrived(imask) == imask \ OnTheWay
IntlevExact(imask) ==
    IF Arrived(imask) = {} THEN 0 ELSE Level(Highest(Arrived(imask)))

intlev == IF Active = {} \/ ~master THEN -1
          ELSE IF exact THEN IntlevExact(Active) ELSE IntlevSimple(Active)

\* ... and intlev() clears its irq_pending
DueAfterIntlev ==
    IF Active = {} \/ ~master \/ Arrived(Active) = {} THEN due
    ELSE due \ {Highest(Arrived(Active))}

\* doint, after setclr: every active request not on its way starts (again)
DointAfter(c, d) ==
    /\ flags' = IF master' THEN flags \cup {"INT"} ELSE flags
    /\ LET fresh == (intreq' \cap intena') \ (OnTheWay \cup d)
       IN coming' = IF exact /\ master' /\ fresh # {} THEN Append(c, fresh) ELSE c
    /\ due' = d
Doint == DointAfter(coming, due)

Init ==
    /\ exact \in BOOLEAN /\ traps \in BOOLEAN
    /\ intreq = {} /\ intena = {} /\ master = FALSE
    /\ coming = <<>> /\ due = {}
    /\ flags = {} /\ intmask = 7 /\ stack = <<>>
    /\ phase = "op" /\ forced = "none" /\ saved = <<>>

-----------------------------------------------------------------------------
\* INTENA
WriteIntena ==
    \E S \in SUBSET Irq, m \in BOOLEAN :
        /\ UNCHANGED <<intreq, intmask, stack, saved>>
        /\ \/ intena' = intena \cup S /\ master' = (master \/ m) /\ Doint
           \/ /\ intena' = intena \ S /\ master' = (master /\ ~m)
              /\ UNCHANGED <<coming, due, flags>>

\* INTREQ_0: with the master bit off, whoever sets it later looks
Request(S) ==
    /\ intreq' = intreq \cup S
    /\ UNCHANGED <<intena, master>>
    /\ IF master THEN Doint ELSE UNCHANGED <<coming, due, flags>>

\* INTREQ_0 clearing; doint still runs and restarts the arrival of the others
Acknowledge(S) ==
    /\ intreq' = intreq \ S
    /\ UNCHANGED <<intena, master>>
    /\ IF master
       THEN DointAfter(Without(coming, S), due \ S)
       ELSE coming' = Without(coming, S) /\ due' = due \ S /\ UNCHANGED flags

WriteIntreq ==
    /\ \E S \in SUBSET Irq : Request(S) \/ Acknowledge(S)
    /\ UNCHANGED <<intmask, stack, saved>>

\* Mutant: a changed mask does not ask for another look.
MutMakeFromSR(m) == intmask' = m /\ UNCHANGED flags

\* MakeFromSR; its other bits (S, M, T) may have changed as well
MakeFromSR(m) ==
    /\ intmask' = m
    /\ \/ flags' = flags \cup {"INT"}
       \/ m = intmask /\ flags' = flags

Rte ==
    /\ stack # <<>>
    /\ MakeFromSR(Head(stack))
    /\ stack' = Tail(stack)
    /\ UNCHANGED <<chipVars, saved>>

MoveToSR ==
    /\ \E m \in SrMasks : MakeFromSR(m)
    /\ UNCHANGED <<chipVars, stack, saved>>

\* STOP: MakeFromSR, then m68k_setstopped
Stop ==
    /\ \E m \in SrMasks :
          /\ intmask' = m
          /\ \/ flags' = flags \cup {"STOP", "INT"}
             \/ m = intmask /\ flags' = flags \cup {"STOP"}
    /\ UNCHANGED <<chipVars, stack, saved>>

Plain == UNCHANGED <<chipVars, flags, intmask, stack, saved>>

\* Mutant: the mask is left as it was.
MutTrapEnter ==
    /\ traps /\ saved = <<>>
    /\ saved' = <<[flags |-> flags, mask |-> intmask, depth |-> Len(stack)]>>
    /\ forced' \in {"call", "exit"}
    /\ UNCHANGED <<chipVars, flags, stack, intmask>>

\* trap_HandleExtendedTrap: the context's copy of regs comes back, mask at 7,
\* with the PC at the call handler or the exit handler.
TrapEnter ==
    /\ traps /\ saved = <<>>
    /\ saved' = <<[flags |-> flags, mask |-> intmask, depth |-> Len(stack)]>>
    /\ intmask' = 7
    /\ forced' \in {"call", "exit"}
    /\ UNCHANGED <<chipVars, flags, stack>>

\* m68k_return_handler: the called function has returned
TrapReturn ==
    /\ saved # <<>> /\ saved[1].depth = Len(stack)
    /\ intmask' = 7
    /\ forced' \in {"call", "exit"}
    /\ UNCHANGED <<chipVars, flags, stack, saved>>

\* m68k_call_handler: "Restore interrupts"
TrapCall ==
    /\ forced = "call" /\ forced' = "none"
    /\ intmask' = saved[1].mask
    /\ UNCHANGED <<chipVars, flags, stack, saved>>

\* exit_trap_handler: "Restore 68k state saved at trap entry"
TrapExit ==
    /\ forced = "exit" /\ forced' = "none"
    /\ intmask' = saved[1].mask /\ flags' = saved[1].flags
    /\ saved' = <<>>
    /\ UNCHANGED <<chipVars, stack>>

Instruction ==
    \/ /\ forced = "none"
       /\ \/ TrapEnter \/ TrapReturn
          \/ /\ UNCHANGED forced
             /\ Plain \/ WriteIntena \/ WriteIntreq \/ Rte \/ MoveToSR \/ Stop
    \/ TrapCall \/ TrapExit

\* m68k_run_2: one opcode
Execute ==
    /\ phase = "op" /\ phase' = "cycles"
    /\ Instruction

\* An event handler raises a request; time passes for those on their way.
Stopped == phase = "special" /\ "STOP" \in flags /\ flags \cap {"INT", "DOINT"} = {}
InDoCycles == phase = "cycles" \/ Stopped

DeviceRaises ==
    /\ InDoCycles
    /\ \E i \in Irq \ intreq : Request({i})
    /\ UNCHANGED <<intmask, stack, phase, trapVars>>

TimePasses ==
    /\ exact /\ InDoCycles
    /\ coming # <<>>
    /\ due' = due \cup Head(coming) /\ coming' = Tail(coming)
    /\ UNCHANGED <<intreq, intena, master, flags, intmask, stack, phase,
                   trapVars>>

CyclesDone ==
    /\ phase = "cycles" /\ phase' = "special"
    /\ UNCHANGED <<chipVars, flags, intmask, stack, trapVars>>

-----------------------------------------------------------------------------
Asked == "DOINT" \in flags \/ (exact /\ "INT" \in flags)
Accepted == Asked /\ intlev > intmask

\* INT becomes DOINT, except in cycle-exact mode
Promote(f) == IF ~exact /\ "INT" \in f THEN (f \ {"INT"}) \cup {"DOINT"} ELSE f

\* do_specialties with an interrupt to take: service_interrupt
Service ==
    /\ phase = "special" /\ ~Stopped
    /\ Accepted /\ Len(stack) < MaxDepth
    /\ stack' = <<intmask>> \o stack
    /\ intmask' = intlev
    /\ due' = DueAfterIntlev
    /\ flags' = Promote(flags \ ({"DOINT", "STOP"} \cup IF exact THEN {"INT"} ELSE {}))
    /\ phase' = "op"
    /\ UNCHANGED <<intreq, intena, master, coming, trapVars>>

\* Mutant: what arrives while a request is looked at is dropped with it.
MutNoService ==
    /\ phase = "special" /\ ~Stopped
    /\ ~Accepted
    /\ UNCHANGED due
    /\ flags' = flags \ {"INT", "DOINT"}
    /\ phase' = "op"
    /\ UNCHANGED <<intreq, intena, master, coming, intmask, stack, trapVars>>

\* do_specialties without one.  A STOP that do_stop leaves because INT or
\* DOINT is set stays flagged, but the loop goes on to the next opcode.
NoService ==
    /\ phase = "special" /\ ~Stopped
    /\ ~Accepted
    /\ due' = IF Asked THEN DueAfterIntlev ELSE due
    /\ flags' = Promote(flags \ ({"DOINT"} \cup
                   IF Asked /\ exact /\ intlev < 0 THEN {"INT"} ELSE {}))
    /\ phase' = "op"
    /\ UNCHANGED <<intreq, intena, master, coming, intmask, stack, trapVars>>

Cpu == Execute \/ CyclesDone \/ Service \/ NoService
Next == (Cpu \/ DeviceRaises \/ TimePasses) /\ UNCHANGED prefs

Spec == Init /\ [][Next]_vars

\* The interpreter's loop runs on.
FairSpec == Spec /\ WF_vars(Cpu /\ UNCHANGED prefs)
-----------------------------------------------------------------------------
(***************************************************************************)
(* Properties.                                                             *)
(***************************************************************************)

\* Every variable keeps its type; requests on their way are active ones, and
\* handlers never nest deeper than there are levels above the masks in force.
TypeOK ==
    /\ intreq \subseteq Irq /\ intena \subseteq Irq /\ master \in BOOLEAN
    /\ coming \in Seq(SUBSET Irq) /\ due \subseteq Irq /\ due \cap OnTheWay = {}
    /\ flags \subseteq {"INT", "DOINT", "STOP"} /\ intmask \in 0 .. 7
    /\ stack \in Seq(0 .. 7) /\ Len(stack) <= MaxDepth
    /\ phase \in {"op", "cycles", "special"}
    /\ forced \in {"none", "call", "exit"} /\ Len(saved) <= 1

\* What the CPU would be asked, were every active request at its door.
RawLevel == IF Active = {} \/ ~master THEN -1 ELSE IntlevSimple(Active)
Forgotten == phase = "op" /\ RawLevel > intmask /\ flags \cap {"INT", "DOINT"} = {}

\* Whenever an opcode is about to run while a request above the mask has been
\* raised, some flag will make the interpreter look at it.  In cycle-exact mode
\* the flag is given up when a lower request is served (newcpu.c:1735): then the
\* request waits, but only while an interrupt handler runs, whose RTE asks for
\* another look.
\* Nor is it asked for in a program inside extended traps, which lower the mask
\* without it (traps.c:352, 412).
NothingForgotten == TypeOK /\ (~traps /\ Forgotten => exact /\ stack # <<>>)

\* "Don't allow an interrupt and thus potentially another trap to be invoked while
\* we hold the above mutex": between a trap's switch back to the 68k and the
\* call or exit handler it asked for, no interrupt is taken.
NoInterruptAtHandover == [][forced # "none" => Len(stack') <= Len(stack)]_vars

\* A request above the mask is served, acknowledged or masked in the end, whatever
\* the program does meanwhile.
RequestIsServed ==
    (~exact /\ ~traps /\ RawLevel > intmask) ~> (RawLevel <= intmask \/ Len(stack) = MaxDepth)
=============================================================================
