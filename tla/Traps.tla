------------------------------- MODULE Traps -------------------------------
(***************************************************************************)
(* Extended traps (src/src/traps.c).  68k code calls a host function whose *)
(* body may call 68k functions back, so the host function runs on a thread *)
(* of its own, the trap context, and control is passed between it and the  *)
(* emulator thread with two semaphores per context.  A call, a return and  *)
(* the end of a trap each go through a "forced" opcode: the trap context   *)
(* leaves in regs.pc the address of a simple trap, and the interpreter     *)
(* executes it when the emulator thread runs again.                        *)
(*                                                                         *)
(* The Amiga is multitasking: between any two 68k instructions that leave  *)
(* interrupts enabled another task, with a stack and registers of its own, *)
(* may be given the CPU, and may enter a trap too.  A task stands for      *)
(* whatever owns a stack: an Exec task or an interrupt server.             *)
(*                                                                         *)
(* Registers are what the hand-over depends on: where the program counter  *)
(* is, how many context pointers lie on the stack, the interrupt mask and  *)
(* D0.  Names of handlers and functions are left out: a value is known by  *)
(* the context it was computed for.                                        *)
(***************************************************************************)
EXTENDS Integers, Sequences, FiniteSets

CONSTANTS
    Tasks,      \* 68k stacks
    Boot,       \* the task that runs after a reset
    Contexts,   \* addresses calloc can return
    HasRetval,  \* those that serve traps without TRAPFLAG_NO_RETVAL
    None,
    MaxTraps,   \* bound: extended traps entered
    MaxCalls,   \* bound: 68k calls one handler makes
    MaxResets   \* bound: machine resets

ASSUME TrapAssumption ==
    /\ Boot \in Tasks /\ HasRetval \subseteq Contexts /\ None \notin Contexts
    /\ MaxTraps \in Nat /\ MaxCalls \in Nat /\ MaxResets \in Nat

VARIABLES
    regs,             \* the interpreter's registers, of the running task
    tcb,              \* [Tasks -> registers saved by Exec's scheduler]
    stack,            \* [Tasks -> context pointers in stack memory]
    trap_mutex, current_context,
    ctx,              \* [Contexts -> struct ExtendedTrapContext]
    to_trap, to_emu,  \* [Contexts -> switch_to_trap_sem, switch_to_emu_sem]
    thread,           \* [Contexts -> where the trap's thread is]
    waits_for,        \* the context whose switch_to_emu_sem the emulator waits for
    nest,             \* history: what each task is inside of, outermost first
    traps, calls, resets,
    cut               \* history: a reset fell into a hand-over

cpuVars == <<regs, tcb, stack>>
syncVars == <<trap_mutex, current_context, to_trap, to_emu>>
boundVars == <<traps, calls, resets, cut>>
vars == <<cpuVars, syncVars, ctx, thread, waits_for, nest, boundVars>>

\* "user" is any 68k code; the others are the three trap addresses.
PCs == {"user", "call", "return", "exit"}
ThreadPC == {"none", "start", "run", "call_switch", "call_wait", "call_end", "exit_switch",
             "exited"}
D0 == {None} \cup ({"function", "handler"} \X Contexts)
Regs == [task : Tasks, pc : PCs, sp : 0..MaxTraps, intmask : {0, 7}, d0 : D0]
Fresh(t) == [task |-> t, pc |-> "user", sp |-> 0, intmask |-> 0, d0 |-> None]

Blank == [regs |-> Fresh(Boot), saved_regs |-> Fresh(Boot), trap_retval |-> None, call68k_retval |-> None]

Top(s) == s[Len(s)]
Pop(s) == SubSeq(s, 1, Len(s) - 1)

-----------------------------------------------------------------------------
Init ==
    /\ regs = Fresh(Boot)
    /\ tcb = [t \in Tasks |-> Fresh(t)]
    /\ stack = [t \in Tasks |-> <<>>]
    /\ trap_mutex = 1 /\ current_context = None
    /\ ctx = [c \in Contexts |-> Blank]
    /\ to_trap = [c \in Contexts |-> 0] /\ to_emu = [c \in Contexts |-> 0]
    /\ thread = [c \in Contexts |-> "none"]
    /\ waits_for = None
    /\ nest = [t \in Tasks |-> <<>>]
    /\ traps = 0 /\ calls = [c \in Contexts |-> 0] /\ resets = 0 /\ cut = FALSE

Interpreting(pc) == waits_for = None /\ regs.pc = pc
Inside == nest[regs.task]                 \* what the running task is inside of
Live(c) == thread[c] # "none"

-----------------------------------------------------------------------------
(* The emulator thread *)

\* Exec gives the CPU to another task, from an interrupt.
SwitchTask(t) ==
    /\ waits_for = None /\ regs.intmask < 7 /\ t # regs.task
    /\ tcb' = [tcb EXCEPT ![regs.task] = regs]
    /\ regs' = tcb[t]
    /\ UNCHANGED <<stack, syncVars, ctx, thread, waits_for, nest, boundVars>>

\* m68k_handle_trap for an extended trap, and trap_HandleExtendedTrap up to
\* its wait: the new thread is started and switched to.
EnterTrap(c) ==
    /\ Interpreting("user") /\ traps < MaxTraps /\ ~Live(c)
    /\ ctx' = [ctx EXCEPT ![c] = [Blank EXCEPT !.regs = regs, !.saved_regs = regs]]
    /\ thread' = [thread EXCEPT ![c] = "start"]
    /\ to_trap' = [to_trap EXCEPT ![c] = 1] /\ to_emu' = [to_emu EXCEPT ![c] = 0]
    /\ waits_for' = c
    /\ nest' = [nest EXCEPT ![regs.task] = Append(@, [of |-> c, regs |-> regs])]
    /\ traps' = traps + 1 /\ calls' = [calls EXCEPT ![c] = 0]
    /\ UNCHANGED <<cpuVars, trap_mutex, current_context, resets, cut>>

\* The wait for switch_to_emu_sem ends, in trap_HandleExtendedTrap or in
\* m68k_return_handler, and the trap's registers become the interpreter's.
SwitchToEmu ==
    /\ waits_for # None /\ to_emu[waits_for] > 0
    /\ to_emu' = [to_emu EXCEPT ![waits_for] = @ - 1]
    /\ regs' = ctx[waits_for].regs
    /\ waits_for' = None
    /\ UNCHANGED <<tcb, stack, trap_mutex, current_context, to_trap, ctx, thread, nest, boundVars>>

\* Mutant: the critical section is not ended.
MutCallHandler ==
    /\ Interpreting("call")
    /\ stack' = [stack EXCEPT ![regs.task] = Append(SubSeq(@, 1, regs.sp), current_context)]
    /\ regs' = [regs EXCEPT !.sp = @ + 1, !.pc = "user",
                            !.intmask = ctx[current_context].saved_regs.intmask]
    /\ UNCHANGED <<tcb, syncVars, ctx, thread, waits_for, nest, boundVars>>

m68k_call_handler ==
    /\ Interpreting("call")
    /\ stack' = [stack EXCEPT ![regs.task] = Append(SubSeq(@, 1, regs.sp), current_context)]
    /\ regs' = [regs EXCEPT !.sp = @ + 1, !.pc = "user",
                            !.intmask = ctx[current_context].saved_regs.intmask]
    /\ trap_mutex' = trap_mutex + 1
    /\ UNCHANGED <<tcb, current_context, to_trap, to_emu, ctx, thread, waits_for, nest, boundVars>>

\* The called function ends with an RTS: its stack frame is gone and the
\* return trap's address is popped.  Its result is in D0.
FunctionReturns ==
    /\ Interpreting("user") /\ Inside # <<>>
    /\ regs' = [regs EXCEPT !.pc = "return", !.d0 = <<"function", Top(Inside).of>>]
    /\ UNCHANGED <<tcb, stack, syncVars, ctx, thread, waits_for, nest, boundVars>>

\* m68k_return_handler up to its wait, for the context found, c
Return(c) ==
    /\ Interpreting("return") /\ trap_mutex > 0
    /\ trap_mutex' = trap_mutex - 1
    /\ regs' = [regs EXCEPT !.sp = @ - 1]
    /\ ctx' = [ctx EXCEPT ![c].call68k_retval = regs.d0, ![c].regs = regs']
    /\ to_trap' = [to_trap EXCEPT ![c] = @ + 1]
    /\ waits_for' = c
    /\ UNCHANGED <<tcb, stack, current_context, to_emu, thread, nest, boundVars>>

m68k_return_handler == Return(stack[regs.task][regs.sp])

Exit(restored) ==
    /\ Interpreting("exit") /\ thread[current_context] = "exited"
    /\ regs' = IF current_context \in HasRetval
                 THEN [restored EXCEPT !.d0 = ctx[current_context].trap_retval]
                 ELSE restored
    /\ thread' = [thread EXCEPT ![current_context] = "none"]
    /\ ctx' = [ctx EXCEPT ![current_context] = Blank]
    /\ calls' = [calls EXCEPT ![current_context] = 0]
    /\ trap_mutex' = trap_mutex + 1
    /\ nest' = [nest EXCEPT ![regs.task] = Pop(@)]
    /\ UNCHANGED <<tcb, stack, current_context, to_trap, to_emu, waits_for, traps, resets, cut>>

\* Mutant: the trap's working copy is kept.
MutExit == Exit([ctx[current_context].regs EXCEPT !.pc = "user", !.intmask = 0])

exit_trap_handler == Exit(ctx[current_context].saved_regs)

\* do_reset_machine, from m68k_go's loop after any instruction: nothing in it
\* knows of trap contexts.
do_reset_machine ==
    /\ waits_for = None /\ resets < MaxResets
    /\ regs' = Fresh(Boot)
    /\ tcb' = [t \in Tasks |-> Fresh(t)]
    /\ stack' = [t \in Tasks |-> <<>>]
    /\ nest' = [t \in Tasks |-> <<>>]
    /\ resets' = resets + 1 /\ cut' = (cut \/ regs.pc \in {"call", "exit"})
    /\ UNCHANGED <<syncVars, ctx, thread, waits_for, traps, calls>>

-----------------------------------------------------------------------------
(* The thread of context c *)

Goto(c, from, to) == thread[c] = from /\ thread' = [thread EXCEPT ![c] = to]

\* trap_thread's first wait
StartHandler(c) ==
    /\ Goto(c, "start", "run") /\ to_trap[c] > 0
    /\ to_trap' = [to_trap EXCEPT ![c] = @ - 1]
    /\ UNCHANGED <<cpuVars, trap_mutex, current_context, to_emu, ctx, waits_for, nest, boundVars>>

\* What trap_Call68k and trap_thread do alike: enter the critical section,
\* name the context and leave it registers that force an opcode.
Critical(c) ==
    /\ trap_mutex > 0
    /\ trap_mutex' = trap_mutex - 1
    /\ current_context' = c
    /\ UNCHANGED <<cpuVars, to_trap, to_emu, waits_for, nest, traps, resets, cut>>
Forced(context, pc, mask) == [context EXCEPT !.regs.pc = pc, !.regs.intmask = mask]

Call68k(c, mask) ==
    /\ Goto(c, "run", "call_switch") /\ calls[c] < MaxCalls
    /\ Critical(c)
    /\ ctx' = [ctx EXCEPT ![c] = Forced(@, "call", mask)]
    /\ calls' = [calls EXCEPT ![c] = @ + 1]

\* Mutant: interrupts are not masked for the hand-over.
MutCall68k(c) == Call68k(c, ctx[c].regs.intmask)

\* trap_Call68k up to its post
trap_Call68k(c) == Call68k(c, 7)

CallSwitch(c) ==
    /\ Goto(c, "call_switch", "call_wait")
    /\ to_emu' = [to_emu EXCEPT ![c] = @ + 1]
    /\ UNCHANGED <<cpuVars, trap_mutex, current_context, to_trap, ctx, waits_for, nest, boundVars>>

CallReturned(c) ==
    /\ Goto(c, "call_wait", "call_end") /\ to_trap[c] > 0
    /\ to_trap' = [to_trap EXCEPT ![c] = @ - 1]
    /\ UNCHANGED <<cpuVars, trap_mutex, current_context, to_emu, ctx, waits_for, nest, boundVars>>

CallEnd(c) ==
    /\ Goto(c, "call_end", "run")
    /\ trap_mutex' = trap_mutex + 1
    /\ UNCHANGED <<cpuVars, current_context, to_trap, to_emu, ctx, waits_for, nest, boundVars>>

Done(context, c) == [Forced(context, "exit", 7) EXCEPT !.trap_retval = <<"handler", c>>]

\* Mutant: the context to leave is not named.
MutHandlerDone(c) ==
    /\ Goto(c, "run", "exit_switch")
    /\ trap_mutex > 0
    /\ trap_mutex' = trap_mutex - 1
    /\ current_context' = IF current_context = None THEN c ELSE current_context
    /\ ctx' = [ctx EXCEPT ![c] = Done(@, c)]
    /\ UNCHANGED <<cpuVars, to_trap, to_emu, waits_for, nest, boundVars>>

\* trap_thread from the handler's end up to its post
HandlerDone(c) ==
    /\ Goto(c, "run", "exit_switch")
    /\ Critical(c)
    /\ ctx' = [ctx EXCEPT ![c] = Done(@, c)]
    /\ UNCHANGED calls

ThreadExits(c) ==
    /\ Goto(c, "exit_switch", "exited")
    /\ to_emu' = [to_emu EXCEPT ![c] = @ + 1]
    /\ UNCHANGED <<cpuVars, trap_mutex, current_context, to_trap, ctx, waits_for, nest, boundVars>>

-----------------------------------------------------------------------------
\* What the emulator thread must do next, whatever the Amiga wants.
Emulator ==
    \/ SwitchToEmu \/ m68k_call_handler
    \/ m68k_return_handler \/ exit_trap_handler
Amiga ==
    \/ \E t \in Tasks : SwitchTask(t)
    \/ \E c \in Contexts : EnterTrap(c)
    \/ FunctionReturns
    \/ do_reset_machine
Thread(c) ==
    \/ StartHandler(c) \/ trap_Call68k(c) \/ CallSwitch(c) \/ CallReturned(c)
    \/ CallEnd(c) \/ HandlerDone(c) \/ ThreadExits(c)

Next == Emulator \/ Amiga \/ \E c \in Contexts : Thread(c)
Spec == Init /\ [][Next]_vars

\* The host runs every thread that can run; a handler makes at most MaxCalls
\* calls.  Exec gives every task the CPU again and again, and a called
\* function returns: while tasks take turns, a task's own steps are enabled
\* only now and then, so their fairness is strong.
Fairness ==
    /\ WF_vars(Emulator)
    /\ \A c \in Contexts : WF_vars(Thread(c))
    /\ \A t \in Tasks :
        /\ SF_vars(regs.task = t /\ FunctionReturns)
        /\ SF_vars(regs.task = t /\ m68k_return_handler)
        /\ SF_vars(SwitchTask(t))
FairSpec == Spec /\ Fairness

-----------------------------------------------------------------------------
(* Properties *)

\* Every semaphore of the mechanism is binary; a context that calls or leaves
\* is known.
TypeOK ==
    /\ regs \in Regs /\ tcb \in [Tasks -> Regs]
    /\ \A t \in Tasks : stack[t] \in Seq(Contexts)
    /\ trap_mutex \in 0..1 /\ current_context \in Contexts \cup {None}
    /\ \A c \in Contexts : ctx[c].regs \in Regs /\ ctx[c].saved_regs \in Regs
    /\ to_trap \in [Contexts -> 0..1] /\ to_emu \in [Contexts -> 0..1]
    /\ thread \in [Contexts -> ThreadPC]
    /\ waits_for \in Contexts \cup {None}

\* Of the emulator and the trap threads one runs, or one has been switched to
\* and is about to.  (After a reset the orphaned threads go on sleeping.)
Running(c) == thread[c] \in {"run", "call_switch", "call_end", "exit_switch"}
OneRuns ==
    Cardinality({c \in Contexts : Running(c)})
      + Cardinality({c \in Contexts : to_trap[c] > 0})
      + Cardinality({c \in Contexts : to_emu[c] > 0})
      + (IF waits_for = None THEN 1 ELSE 0) = 1

\* "This is probably just being paranoid": with interrupts masked in a
\* hand-over nobody ever finds trap_mutex taken, although everybody waits for
\* it while something else waits for them.  Only a reset in a hand-over, which
\* leaves it taken, breaks that.
NeverContended ==
    /\ Interpreting("return") => trap_mutex > 0 \/ cut
    /\ \A c \in Contexts : thread[c] = "run" => trap_mutex > 0 \/ cut

\* The emulator and the trap threads are coroutines that never wait for one
\* another's critical sections: traps.c shares its data between threads on no
\* other ground.
Coroutines == TypeOK /\ OneRuns /\ NeverContended

\* The forced opcodes act for the trap the running task is innermost in, and
\* on a context not yet freed: current_context still names it although tasks
\* may have entered and left other traps since.
ActsForRequester ==
    waits_for = None /\ regs.pc \in {"call", "exit"} =>
        /\ Live(current_context) /\ Inside # <<>>
        /\ current_context = Top(Inside).of
        /\ ctx[current_context].saved_regs = Top(Inside).regs

\* The pointers on each task's stack are the contexts of the 68k calls it is
\* in, outermost first, each of which waits for its return: one for every trap
\* it has not left, but for the innermost when its handler, not 68k code, runs.
RegsOf(t) == IF t # regs.task THEN tcb[t]
             ELSE IF waits_for = None THEN regs ELSE ctx[waits_for].regs
InHandler(t) == t = regs.task /\ (waits_for # None \/ regs.pc \in {"call", "exit"})
StackIsSound ==
    \A t \in Tasks : LET sp == RegsOf(t).sp IN
        /\ sp = IF InHandler(t) THEN Len(nest[t]) - 1 ELSE Len(nest[t])
        /\ sp <= Len(stack[t])
        /\ \A i \in 1..sp : stack[t][i] = nest[t][i].of /\ thread[stack[t][i]] = "call_wait"

\* A handler gets the result of the function it called, although other traps'
\* calls may have been made and have returned in the meantime.
OwnResult ==
    \A c \in Contexts :
        thread[c] = "call_end" => ctx[c].call68k_retval = <<"function", c>>

\* However tasks are switched, the mechanism acts for the trap of the task that
\* runs, every task's stack leads back to its own traps, and every trap gets its
\* own results.
EachTaskItsTraps == ActsForRequester /\ StackIsSound /\ OwnResult

\* A trap ends where it began: the task that entered it has back the registers
\* it entered it with, but for the result of its own handler.
ReturnsToCaller ==
    [][\A t \in Tasks : Len(nest'[t]) < Len(nest[t]) /\ resets' = resets =>
        LET left == Top(nest[t]) IN
        /\ nest'[t] = Pop(nest[t])
        /\ regs' = IF left.of \in HasRetval
                     THEN [left.regs EXCEPT !.d0 = <<"handler", left.of>>]
                     ELSE left.regs]_vars

\* The emulator thread never waits for good: "It'll do this when the trap
\* handler is done - or when the handler wants to call 68k code", unless a
\* reset fell into a hand-over.
EmulatorResumes == waits_for # None /\ ~cut ~> waits_for = None \/ cut

\* Every trap is left in the end, and its context freed, if no reset forgets
\* it; and while it lasts the emulator always goes on.
TrapsReturn ==
    /\ EmulatorResumes
    /\ \A c \in Contexts : Live(c) ~> ~Live(c) \/ resets > 0
=============================================================================
