---------------------------- MODULE TrapsProofs ----------------------------
(***************************************************************************)
(* For any number of tasks and contexts, and of traps, calls and resets:   *)
(* the emulator and the trap threads are coroutines, every forced opcode   *)
(* acts for the trap of the task that runs, and a trap ends where it       *)
(* began.                                                                  *)
(*                                                                         *)
(* Control is one baton: the emulator has it, or it waits for a context    *)
(* and that context's thread has it or is about to.  The invariant says    *)
(* where the thread may then be, that trap_mutex is taken exactly from the *)
(* request for a hand-over to its end, and that the context waited for is  *)
(* the innermost of the task that runs.  No two traps share a context, so  *)
(* a step for that one touches no other task's traps.                      *)
(***************************************************************************)
EXTENDS Traps, FiniteSetTheorems, TLAPS

\* Nested traps, outermost first, and the registers each was entered with.
Trap == [of : Contexts, regs : Regs]

Context == [regs : Regs, saved_regs : Regs, trap_retval : D0, call68k_retval : D0]

Types ==
    /\ regs \in Regs /\ tcb \in [Tasks -> Regs]
    /\ stack \in [Tasks -> Seq(Contexts)] /\ nest \in [Tasks -> Seq(Trap)]
    /\ current_context \in Contexts \cup {None} /\ waits_for \in Contexts \cup {None}
    /\ ctx \in [Contexts -> Context]
    /\ to_trap \in [Contexts -> 0..1] /\ to_emu \in [Contexts -> 0..1]
    /\ thread \in [Contexts -> ThreadPC]
    /\ traps \in 0 .. MaxTraps /\ \A t \in Tasks : Len(nest[t]) <= traps
    /\ resets \in Nat /\ cut \in BOOLEAN

\* Where the thread the emulator waits for may be.
Baton ==
    /\ \A c \in Contexts : c # waits_for =>
          thread[c] \in {"none", "call_wait", "exited"} /\ to_trap[c] = 0 /\ to_emu[c] = 0
    /\ waits_for # None =>
          \/ thread[waits_for] \in {"start", "call_wait"} /\ to_trap[waits_for] = 1 /\ to_emu[waits_for] = 0
          \/ Running(waits_for) /\ to_trap[waits_for] = 0 /\ to_emu[waits_for] = 0
          \/ thread[waits_for] \in {"call_wait", "exited"} /\ to_trap[waits_for] = 0 /\ to_emu[waits_for] = 1

Held == IF waits_for = None THEN regs.pc \in {"call", "exit"}
                            ELSE thread[waits_for] \notin {"start", "run"}
Mutex == trap_mutex = (IF Held \/ cut THEN 0 ELSE 1) /\ ~(Held /\ cut)

\* No context serves two traps; each remembers the registers of its own.
Nests ==
    /\ \A t, u \in Tasks : \A i \in DOMAIN nest[t], j \in DOMAIN nest[u] :
          nest[t][i].of = nest[u][j].of => t = u /\ i = j
    /\ \A t \in Tasks : \A i \in DOMAIN nest[t] :
          /\ Live(nest[t][i].of)
          /\ ctx[nest[t][i].of].saved_regs = nest[t][i].regs
          /\ nest[t][i].regs.task = t /\ nest[t][i].regs.pc = "user" /\ nest[t][i].regs.sp = i - 1

\* Registers of 68k code that the task runs, or will go on with.
Ordinary(r, t) ==
    /\ r.task = t
    /\ r.pc = "user" \/ (/\ r.pc = "return" /\ nest[t] # <<>>
                         /\ r.d0 = <<"function", Top(nest[t]).of>>)
Registers ==
    /\ \A t \in Tasks : t # regs.task => Ordinary(tcb[t], t)
    /\ waits_for = None => Ordinary(regs, regs.task) \/ (regs.pc \in {"call", "exit"} /\ regs.intmask = 7)

\* The emulator waits for the innermost trap of the task it left.
HandOver ==
    /\ waits_for # None =>
          /\ nest[regs.task] # <<>> /\ waits_for = Top(nest[regs.task]).of
          /\ ctx[waits_for].regs.task = regs.task
          /\ thread[waits_for] \in {"call_switch", "exit_switch"} \/ to_emu[waits_for] = 1 =>
                /\ current_context = waits_for /\ ctx[waits_for].regs.intmask = 7
                /\ ctx[waits_for].regs.pc = IF thread[waits_for] \in {"call_switch", "call_wait"} THEN "call" ELSE "exit"
                /\ thread[waits_for] \in {"exit_switch", "exited"} => ctx[waits_for].trap_retval = <<"handler", waits_for>>
          /\ thread[waits_for] = "call_end" \/ (thread[waits_for] = "call_wait" /\ to_trap[waits_for] = 1) =>
                ctx[waits_for].call68k_retval = <<"function", waits_for>>
    /\ waits_for = None /\ regs.pc \in {"call", "exit"} =>
          /\ nest[regs.task] # <<>> /\ current_context = Top(nest[regs.task]).of
          /\ thread[current_context] = IF regs.pc = "call" THEN "call_wait" ELSE "exited"
          /\ regs.pc = "exit" => ctx[current_context].trap_retval = <<"handler", current_context>>

IInv == Types /\ Baton /\ Mutex /\ Nests /\ Registers /\ HandOver /\ StackIsSound

-----------------------------------------------------------------------------
\* A stack of traps with one more on it.
LEMMA Pushed ==
  ASSUME NEW S, NEW s \in Seq(S), NEW x \in S
  PROVE  /\ Append(s, x) \in Seq(S) /\ Append(s, x) # <<>> /\ Top(Append(s, x)) = x
         /\ Len(Append(s, x)) = Len(s) + 1 /\ Len(s) \in Nat
         /\ DOMAIN s = 1 .. Len(s) /\ DOMAIN Append(s, x) = 1 .. Len(s) + 1
         /\ \A i \in 1 .. Len(s) : Append(s, x)[i] = s[i]
         /\ Append(s, x)[Len(s) + 1] = x
BY DEF Top

\* A stack of traps with the innermost left.
LEMMA Popped ==
  ASSUME NEW S, NEW s \in Seq(S), s # <<>>
  PROVE  /\ Pop(s) \in Seq(S) /\ Len(Pop(s)) = Len(s) - 1 /\ Len(s) \in Nat /\ Len(s) >= 1
         /\ Top(s) \in S /\ Top(s) = s[Len(s)] /\ Len(s) \in DOMAIN s
         /\ DOMAIN s = 1 .. Len(s) /\ DOMAIN Pop(s) = 1 .. Len(s) - 1
         /\ \A i \in 1 .. Len(s) - 1 : Pop(s)[i] = s[i]
BY DEF Top, Pop

\* What a task's stack of traps looks like.
LEMMA NestOf ==
  ASSUME Types, NEW t \in Tasks
  PROVE  /\ nest[t] \in Seq(Trap) /\ DOMAIN nest[t] = 1 .. Len(nest[t]) /\ Len(nest[t]) \in Nat
         /\ \A i \in DOMAIN nest[t] : nest[t][i].of \in Contexts /\ nest[t][i].regs \in Regs
         /\ nest[t] # <<>> => /\ Len(nest[t]) >= 1 /\ Len(nest[t]) \in DOMAIN nest[t]
                              /\ Top(nest[t]) = nest[t][Len(nest[t])]
                              /\ Top(nest[t]).of \in Contexts
<1>1. nest[t] \in Seq(Trap)
  BY DEF Types
<1>2. DOMAIN nest[t] = 1 .. Len(nest[t]) /\ Len(nest[t]) \in Nat
  BY <1>1
<1>3. \A i \in DOMAIN nest[t] : nest[t][i].of \in Contexts /\ nest[t][i].regs \in Regs
  <2> TAKE i \in DOMAIN nest[t]
  <2>1. nest[t][i] \in Trap
    BY <1>1
  <2> QED BY <2>1 DEF Trap
<1>4. nest[t] # <<>> => /\ Len(nest[t]) >= 1 /\ Len(nest[t]) \in DOMAIN nest[t]
                        /\ Top(nest[t]) = nest[t][Len(nest[t])]
  BY <1>1, Popped
<1> QED BY <1>1, <1>2, <1>3, <1>4

\* Only once does a context serve a trap.
LEMMA Alone ==
  ASSUME Types, Nests, NEW t \in Tasks, NEW u \in Tasks, nest[u] # <<>>,
         NEW i \in DOMAIN nest[t], nest[t][i].of = Top(nest[u]).of
  PROVE  t = u /\ i = Len(nest[u])
BY NestOf DEF Nests

\* The first state.
LEMMA InitIInv == Init => IInv
<1> SUFFICES ASSUME Init PROVE IInv
  OBVIOUS
<1> USE TrapAssumption DEF TrapAssumption
<1>1. \A t \in Tasks : Fresh(t) \in Regs
  BY DEF Fresh, Regs, PCs, D0
<1>2. Blank \in Context
  BY <1>1 DEF Blank, Context, D0
<1>3. Types
  <2>1. regs \in Regs /\ tcb \in [Tasks -> Regs] /\ ctx \in [Contexts -> Context]
    BY <1>1, <1>2 DEF Init
  <2>2. /\ stack \in [Tasks -> Seq(Contexts)] /\ nest \in [Tasks -> Seq(Trap)]
        /\ \A t \in Tasks : Len(nest[t]) <= traps
    BY DEF Init
  <2>3. /\ current_context \in Contexts \cup {None} /\ waits_for \in Contexts \cup {None}
        /\ to_trap \in [Contexts -> 0..1] /\ to_emu \in [Contexts -> 0..1]
        /\ thread \in [Contexts -> ThreadPC]
    BY DEF Init, ThreadPC
  <2>4. traps \in 0 .. MaxTraps /\ resets \in Nat
    BY DEF Init
  <2>5. cut \in BOOLEAN
    BY DEF Init
  <2> QED
    BY <2>1, <2>2, <2>3, <2>4, <2>5 DEF Types
<1>4. regs.pc = "user" /\ regs.sp = 0 /\ regs.task = Boot
  BY DEF Init, Fresh
<1>5. Baton /\ Nests /\ HandOver
  BY <1>4 DEF Init, Baton, Nests, HandOver
<1>6. Mutex
  BY <1>4 DEF Init, Mutex, Held
<1>7. Registers
  BY DEF Init, Registers, Ordinary, Fresh
<1>8. StackIsSound
  <2>1. \A t \in Tasks : ~InHandler(t) /\ RegsOf(t).sp = 0 /\ Len(nest[t]) = 0 /\ Len(stack[t]) = 0
    BY <1>4 DEF Init, InHandler, RegsOf, Fresh
  <2> QED
    BY <2>1 DEF StackIsSound
<1> QED
  BY <1>3, <1>5, <1>6, <1>7, <1>8 DEF IInv

-----------------------------------------------------------------------------
(* The trap's thread *)

\* Who has the baton is the context the emulator waits for, and it is the
\* innermost of the task that runs.
LEMMA Waited ==
  ASSUME IInv, NEW c \in Contexts,
         \/ thread[c] \notin {"none", "call_wait", "exited"} \/ to_trap[c] > 0 \/ to_emu[c] > 0
  PROVE  /\ c = waits_for /\ waits_for # None
         /\ nest[regs.task] # <<>> /\ c = Top(nest[regs.task]).of /\ regs.task \in Tasks
<1>1. c = waits_for
  BY DEF IInv, Baton
<1>2. waits_for # None
  BY <1>1, TrapAssumption DEF TrapAssumption
<1>3. regs.task \in Tasks
  BY DEF IInv, Types, Regs
<1> QED
  BY <1>1, <1>2, <1>3 DEF IInv, HandOver

\* A step of that thread leaves the traps of all tasks as they are.
LEMMA ThreadFrame ==
  ASSUME IInv, NEW c \in Contexts, c = waits_for, NEW to, to # "none",
         thread' = [thread EXCEPT ![c] = to], UNCHANGED <<cpuVars, waits_for, nest>>,
         \A d \in Contexts : ctx'[d].saved_regs = ctx[d].saved_regs,
         ctx'[c].regs.sp = ctx[c].regs.sp
  PROVE  Nests' /\ Registers' /\ StackIsSound'
<1>1. /\ waits_for # None /\ nest[regs.task] # <<>> /\ c = Top(nest[regs.task]).of /\ regs.task \in Tasks
      /\ thread \in [Contexts -> ThreadPC] /\ regs' = regs /\ nest' = nest /\ tcb' = tcb /\ stack' = stack
  BY TrapAssumption DEF IInv, HandOver, Types, Regs, TrapAssumption, cpuVars
<1>2. Nests'
  <2>1. \A d \in Contexts : Live(d) => (Live(d))'
    BY <1>1 DEF Live
  <2>2. \A t \in Tasks : \A i \in DOMAIN nest[t] :
          /\ (Live(nest[t][i].of))'
          /\ ctx'[nest[t][i].of].saved_regs = nest[t][i].regs
    BY <2>1, NestOf DEF IInv, Nests
  <2> QED
    BY <1>1, <2>2 DEF IInv, Nests
<1>3. Registers'
  BY <1>1 DEF IInv, Registers, Ordinary
<1>4. StackIsSound'
  <2> SUFFICES ASSUME NEW t \in Tasks
               PROVE  LET sp == RegsOf(t)'.sp IN
                        /\ sp = IF (InHandler(t))' THEN Len(nest[t]) - 1 ELSE Len(nest[t])
                        /\ sp <= Len(stack[t])
                        /\ \A i \in 1..sp : stack[t][i] = nest[t][i].of /\ thread'[stack[t][i]] = "call_wait"
    BY <1>1 DEF StackIsSound
  <2> DEFINE sp == RegsOf(t).sp
  <2>1. RegsOf(t)'.sp = sp /\ ((InHandler(t))' <=> InHandler(t))
    BY <1>1 DEF RegsOf, InHandler
  <2>2. /\ sp = IF InHandler(t) THEN Len(nest[t]) - 1 ELSE Len(nest[t])
        /\ sp <= Len(stack[t])
        /\ \A i \in 1..sp : stack[t][i] = nest[t][i].of /\ thread[stack[t][i]] = "call_wait"
    BY DEF IInv, StackIsSound
  <2>3. \A i \in 1 .. sp : i \in DOMAIN nest[t] /\ nest[t][i].of # c
    <3>1. t = regs.task => InHandler(t)
      BY <1>1 DEF InHandler
    <3>2. DOMAIN nest[t] = 1 .. Len(nest[t]) /\ Len(nest[t]) \in Nat
      BY NestOf DEF IInv
    <3> HIDE DEF sp
    <3>3. \A i \in 1 .. sp : i \in DOMAIN nest[t] /\ ~(t = regs.task /\ i = Len(nest[t]))
      BY <2>2, <3>1, <3>2
    <3> QED
      BY <1>1, <3>3, Alone DEF IInv
  <2> HIDE DEF sp
  <2> QED
    BY <1>1, <2>1, <2>2, <2>3, NestOf DEF IInv
<1> QED
  BY <1>2, <1>3, <1>4

\* The new thread runs its handler.
LEMMA StartHandlerIInv == ASSUME IInv, NEW c \in Contexts, StartHandler(c) PROVE IInv'
<1>1. /\ thread[c] = "start" /\ to_trap[c] > 0 /\ thread' = [thread EXCEPT ![c] = "run"]
      /\ to_trap' = [to_trap EXCEPT ![c] = @ - 1]
      /\ UNCHANGED <<cpuVars, trap_mutex, current_context, to_emu, ctx, waits_for, nest, traps, resets, cut>>
  BY DEF StartHandler, Goto, boundVars
<1>2. c = waits_for /\ waits_for # None
  BY <1>1, Waited
<1>3. Nests' /\ Registers' /\ StackIsSound'
  BY <1>1, <1>2, ThreadFrame
<1>4. Types'
  BY <1>1 DEF IInv, Types, ThreadPC, cpuVars
<1>5. Baton'
  BY <1>1, <1>2 DEF IInv, Types, Baton, Running
<1>6. Mutex'
  BY <1>1, <1>2 DEF IInv, Types, Mutex, Held, cpuVars
<1>7. HandOver'
  BY <1>1, <1>2 DEF IInv, Types, HandOver, Baton, cpuVars
<1> QED
  BY <1>3, <1>4, <1>5, <1>6, <1>7 DEF IInv

\* It gives the baton to the emulator, to call 68k code or for good.
LEMMA CallSwitchIInv == ASSUME IInv, NEW c \in Contexts, CallSwitch(c) PROVE IInv'
<1>1. /\ thread[c] = "call_switch" /\ thread' = [thread EXCEPT ![c] = "call_wait"]
      /\ to_emu' = [to_emu EXCEPT ![c] = @ + 1]
      /\ UNCHANGED <<cpuVars, current_context, ctx, waits_for, nest, traps, resets, cut, trap_mutex, to_trap>>
  BY DEF CallSwitch, Goto, boundVars
<1>2. c = waits_for /\ waits_for # None
  BY <1>1, Waited
<1>3. Nests' /\ Registers' /\ StackIsSound'
  BY <1>1, <1>2, ThreadFrame
<1>4. Types'
  BY <1>1, <1>2 DEF IInv, Types, ThreadPC, Baton, Running, cpuVars
<1>5. Baton'
  BY <1>1, <1>2 DEF IInv, Types, Baton, Running
<1>6. Mutex'
  BY <1>1, <1>2 DEF IInv, Types, Mutex, Held, cpuVars
<1>7. HandOver'
  BY <1>1, <1>2 DEF IInv, Types, HandOver, Baton, Running, cpuVars
<1> QED
  BY <1>3, <1>4, <1>5, <1>6, <1>7 DEF IInv

\* The thread ends.
LEMMA ThreadExitsIInv == ASSUME IInv, NEW c \in Contexts, ThreadExits(c) PROVE IInv'
<1>1. /\ thread[c] = "exit_switch" /\ thread' = [thread EXCEPT ![c] = "exited"]
      /\ to_emu' = [to_emu EXCEPT ![c] = @ + 1]
      /\ UNCHANGED <<cpuVars, current_context, ctx, waits_for, nest, traps, resets, cut, trap_mutex, to_trap>>
  BY DEF ThreadExits, Goto, boundVars
<1>2. c = waits_for /\ waits_for # None
  BY <1>1, Waited
<1>3. Nests' /\ Registers' /\ StackIsSound'
  BY <1>1, <1>2, ThreadFrame
<1>4. Types'
  BY <1>1, <1>2 DEF IInv, Types, ThreadPC, Baton, Running, cpuVars
<1>5. Baton'
  BY <1>1, <1>2 DEF IInv, Types, Baton, Running
<1>6. Mutex'
  BY <1>1, <1>2 DEF IInv, Types, Mutex, Held, cpuVars
<1>7. HandOver'
  BY <1>1, <1>2 DEF IInv, Types, HandOver, Baton, Running, cpuVars
<1> QED
  BY <1>3, <1>4, <1>5, <1>6, <1>7 DEF IInv

\* It has it back after the 68k code.
LEMMA CallReturnedIInv == ASSUME IInv, NEW c \in Contexts, CallReturned(c) PROVE IInv'
<1>1. /\ thread[c] = "call_wait" /\ thread' = [thread EXCEPT ![c] = "call_end"] /\ to_trap[c] > 0
      /\ to_trap' = [to_trap EXCEPT ![c] = @ - 1]
      /\ UNCHANGED <<cpuVars, current_context, ctx, waits_for, nest, traps, resets, cut, trap_mutex, to_emu>>
  BY DEF CallReturned, Goto, boundVars
<1>2. c = waits_for /\ waits_for # None
  BY <1>1, Waited
<1>3. Nests' /\ Registers' /\ StackIsSound'
  BY <1>1, <1>2, ThreadFrame
<1>4. Types'
  BY <1>1, <1>2 DEF IInv, Types, ThreadPC, Baton, Running, cpuVars
<1>5. Baton'
  BY <1>1, <1>2 DEF IInv, Types, Baton, Running
<1>6. Mutex'
  BY <1>1, <1>2 DEF IInv, Types, Mutex, Held, cpuVars
<1>7. HandOver'
  BY <1>1, <1>2 DEF IInv, Types, HandOver, Baton, Running, cpuVars
<1> QED
  BY <1>3, <1>4, <1>5, <1>6, <1>7 DEF IInv

\* The critical section that the return handler entered ends.
LEMMA CallEndIInv == ASSUME IInv, NEW c \in Contexts, CallEnd(c) PROVE IInv'
<1>1. /\ thread[c] = "call_end" /\ thread' = [thread EXCEPT ![c] = "run"]
      /\ trap_mutex' = trap_mutex + 1
      /\ UNCHANGED <<cpuVars, current_context, ctx, waits_for, nest, traps, resets, cut, to_trap, to_emu>>
  BY DEF CallEnd, Goto, boundVars
<1>2. c = waits_for /\ waits_for # None
  BY <1>1, Waited
<1>3. Nests' /\ Registers' /\ StackIsSound'
  BY <1>1, <1>2, ThreadFrame
<1>4. Types'
  BY <1>1, <1>2 DEF IInv, Types, ThreadPC, Baton, Running, cpuVars
<1>5. Baton'
  BY <1>1, <1>2 DEF IInv, Types, Baton, Running
<1>6. Mutex'
  BY <1>1, <1>2 DEF IInv, Types, Mutex, Held, cpuVars
<1>7. HandOver'
  BY <1>1, <1>2 DEF IInv, Types, HandOver, Baton, Running, cpuVars
<1> QED
  BY <1>3, <1>4, <1>5, <1>6, <1>7 DEF IInv

\* A request for a hand-over, of the 68k call pc or of the end of the trap.
LEMMA RequestIInv ==
  ASSUME IInv, NEW c \in Contexts, Critical(c), NEW pc \in {"call", "exit"},
         Goto(c, "run", IF pc = "call" THEN "call_switch" ELSE "exit_switch"),
         NEW x \in Context, ctx' = [ctx EXCEPT ![c] = x],
         x.saved_regs = ctx[c].saved_regs,
         x.regs.task = ctx[c].regs.task, x.regs.sp = ctx[c].regs.sp,
         x.regs.pc = pc, x.regs.intmask = 7, pc = "exit" => x.trap_retval = <<"handler", c>>
  PROVE  IInv'
<1>1. /\ thread[c] = "run" /\ trap_mutex > 0 /\ trap_mutex' = trap_mutex - 1 /\ current_context' = c
      /\ thread' = [thread EXCEPT ![c] = IF pc = "call" THEN "call_switch" ELSE "exit_switch"]
      /\ UNCHANGED <<cpuVars, to_trap, to_emu, waits_for, nest, traps, resets, cut>>
  BY DEF Critical, Goto
<1>2. c = waits_for /\ waits_for # None
  BY <1>1, Waited
<1>3. ctx'[c] = x /\ \A d \in Contexts : ctx'[d].saved_regs = ctx[d].saved_regs
  BY DEF IInv, Types
<1>4. Nests' /\ Registers' /\ StackIsSound'
  BY <1>1, <1>2, <1>3, ThreadFrame
<1>5. Types'
  BY <1>1, <1>2 DEF IInv, Types, ThreadPC, cpuVars
<1>6. Baton'
  BY <1>1, <1>2 DEF IInv, Types, Baton, Running
<1>7. Mutex'
  BY <1>1, <1>2 DEF IInv, Types, Mutex, Held, cpuVars
<1>8. HandOver'
  BY <1>1, <1>2, <1>3 DEF IInv, Types, HandOver, Baton, Running, cpuVars
<1> QED
  BY <1>4, <1>5, <1>6, <1>7, <1>8 DEF IInv

\* The handler calls 68k code.
LEMMA Call68kIInv == ASSUME IInv, NEW c \in Contexts, trap_Call68k(c) PROVE IInv'
<1> DEFINE x == Forced(ctx[c], "call", 7)
<1>1. /\ Critical(c) /\ Goto(c, "run", "call_switch") /\ ctx' = [ctx EXCEPT ![c] = x]
  BY DEF trap_Call68k, Call68k, IInv, Types
<1>2. ctx[c] \in Context
  BY DEF IInv, Types
<1>3. /\ x \in Context /\ x.saved_regs = ctx[c].saved_regs
      /\ x.regs.task = ctx[c].regs.task /\ x.regs.sp = ctx[c].regs.sp
      /\ x.regs.pc = "call" /\ x.regs.intmask = 7
  BY <1>2 DEF Context, Forced, Regs, PCs
<1> HIDE DEF x
<1> QED
  BY <1>1, <1>3, RequestIInv

\* The handler is done.
LEMMA HandlerDoneIInv == ASSUME IInv, NEW c \in Contexts, HandlerDone(c) PROVE IInv'
<1> DEFINE x == Done(ctx[c], c)
<1>1. /\ Critical(c) /\ Goto(c, "run", "exit_switch") /\ ctx' = [ctx EXCEPT ![c] = x]
  BY DEF HandlerDone, IInv, Types
<1>2. ctx[c] \in Context
  BY DEF IInv, Types
<1>3. /\ x \in Context /\ x.saved_regs = ctx[c].saved_regs
      /\ x.regs.task = ctx[c].regs.task /\ x.regs.sp = ctx[c].regs.sp
      /\ x.regs.pc = "exit" /\ x.regs.intmask = 7 /\ x.trap_retval = <<"handler", c>>
  BY <1>2 DEF Context, Done, Forced, Regs, PCs, D0
<1> HIDE DEF x
<1> QED
  BY <1>1, <1>3, RequestIInv

-----------------------------------------------------------------------------
(* The emulator thread *)

\* Another task is given the CPU.
LEMMA SwitchTaskIInv == ASSUME IInv, NEW t \in Tasks, SwitchTask(t) PROVE IInv'
<1>1. /\ waits_for = None /\ regs.intmask < 7 /\ t # regs.task
      /\ tcb' = [tcb EXCEPT ![regs.task] = regs] /\ regs' = tcb[t]
      /\ UNCHANGED <<stack, trap_mutex, current_context, to_trap, to_emu, ctx, thread, waits_for, nest, traps, resets, cut>>
  BY DEF SwitchTask, syncVars, boundVars
<1>2. regs \in Regs /\ regs.task \in Tasks /\ tcb \in [Tasks -> Regs]
  BY DEF IInv, Types, Regs
<1>3. Ordinary(regs, regs.task)
  BY <1>1 DEF IInv, Registers
<1>4. Ordinary(tcb[t], t)
  BY <1>1 DEF IInv, Registers
<1>5. /\ regs.pc \notin {"call", "exit"} /\ tcb[t].pc \notin {"call", "exit"} /\ tcb[t].task = t
  BY <1>3, <1>4 DEF Ordinary
<1>6. Types'
  BY <1>1, <1>2 DEF IInv, Types
<1>7. Baton' /\ Mutex'
  BY <1>1, <1>5 DEF IInv, Baton, Running, Mutex, Held
<1>8. Nests'
  BY <1>1 DEF IInv, Nests, Live
<1>9. Registers'
  BY <1>1, <1>2, <1>3, <1>4, <1>5 DEF IInv, Registers, Ordinary
<1>10. HandOver'
  BY <1>1, <1>5 DEF HandOver
<1>11. StackIsSound'
  <2>1. \A u \in Tasks : RegsOf(u)' = RegsOf(u)
    BY <1>1, <1>2, <1>5 DEF RegsOf
  <2>2. \A u \in Tasks : ~InHandler(u) /\ ~(InHandler(u))'
    BY <1>1, <1>5 DEF InHandler
  <2> QED
    BY <1>1, <2>1, <2>2 DEF IInv, StackIsSound
<1> QED
  BY <1>6, <1>7, <1>8, <1>9, <1>10, <1>11 DEF IInv

\* A called function ends.
LEMMA FunctionReturnsIInv == ASSUME IInv, FunctionReturns PROVE IInv'
<1> DEFINE t == regs.task
<1>1. /\ waits_for = None /\ regs.pc = "user" /\ nest[t] # <<>>
      /\ regs' = [regs EXCEPT !.pc = "return", !.d0 = <<"function", Top(nest[t]).of>>]
      /\ UNCHANGED <<tcb, stack, trap_mutex, current_context, to_trap, to_emu, ctx, thread, waits_for, nest, traps, resets, cut>>
  BY DEF FunctionReturns, Interpreting, Inside, syncVars, boundVars
<1>2. regs \in Regs /\ t \in Tasks
  BY DEF IInv, Types, Regs
<1>3. Top(nest[t]).of \in Contexts
  BY <1>1, <1>2, NestOf DEF IInv
<1>4. /\ regs' \in Regs /\ regs'.task = t /\ regs'.pc = "return" /\ regs'.sp = regs.sp
      /\ regs'.d0 = <<"function", Top(nest[t]).of>>
  BY <1>1, <1>2, <1>3 DEF Regs, PCs, D0
<1> HIDE DEF t
<1>5. regs.task = t
  BY DEF t
<1>6. Types'
  BY <1>1, <1>4 DEF IInv, Types
<1>7. Baton' /\ Mutex'
  BY <1>1, <1>4 DEF IInv, Baton, Running, Mutex, Held
<1>8. Nests'
  BY <1>1 DEF IInv, Nests, Live
<1>9. Registers'
  BY <1>1, <1>4, <1>5 DEF IInv, Registers, Ordinary
<1>10. HandOver'
  BY <1>1, <1>4 DEF HandOver
<1>11. StackIsSound'
  <2>1. \A u \in Tasks : RegsOf(u)'.sp = RegsOf(u).sp
    BY <1>1, <1>4, <1>5 DEF RegsOf
  <2>2. \A u \in Tasks : ~InHandler(u) /\ ~(InHandler(u))'
    BY <1>1, <1>4 DEF InHandler
  <2> QED
    BY <1>1, <2>1, <2>2 DEF IInv, StackIsSound
<1> QED
  BY <1>6, <1>7, <1>8, <1>9, <1>10, <1>11 DEF IInv

\* The emulator's wait ends.
LEMMA SwitchToEmuIInv == ASSUME IInv, SwitchToEmu PROVE IInv'
<1> DEFINE c == waits_for
           t == regs.task
<1>1. /\ c # None /\ to_emu[c] > 0 /\ to_emu' = [to_emu EXCEPT ![c] = @ - 1]
      /\ regs' = ctx[c].regs /\ waits_for' = None
      /\ UNCHANGED <<tcb, stack, trap_mutex, current_context, to_trap, ctx, thread, nest, traps, resets, cut>>
  BY DEF SwitchToEmu, boundVars
<1>2. c \in Contexts /\ regs \in Regs /\ t \in Tasks /\ ctx[c] \in Context
  BY <1>1 DEF IInv, Types, Regs
<1>3. ctx[c].regs \in Regs
  BY <1>2 DEF Context
<1>4. to_trap[c] = 0 /\ to_emu[c] = 1 /\ thread[c] \in {"call_wait", "exited"}
  BY <1>1, <1>2 DEF IInv, Baton
<1>5. /\ nest[t] # <<>> /\ c = Top(nest[t]).of /\ regs'.task = t
      /\ current_context = c /\ regs'.intmask = 7
      /\ regs'.pc = IF thread[c] = "call_wait" THEN "call" ELSE "exit"
      /\ thread[c] = "exited" => ctx[c].trap_retval = <<"handler", c>>
  BY <1>1, <1>4 DEF IInv, HandOver
<1>6. waits_for = c /\ regs.task = t
  OBVIOUS
<1> HIDE DEF c, t
<1>7. Types'
  BY <1>1, <1>2, <1>3, <1>4 DEF IInv, Types
<1>8. None \notin Contexts
  BY TrapAssumption DEF TrapAssumption
<1>9. Baton'
  BY <1>1, <1>4, <1>6, <1>8 DEF IInv, Types, Baton
<1>10. Held /\ Held'
  BY <1>1, <1>4, <1>5, <1>6 DEF Held
<1>11. Mutex'
  BY <1>1, <1>10 DEF IInv, Mutex
<1>12. Nests'
  BY <1>1 DEF IInv, Nests, Live
<1>13. Registers'
  BY <1>1, <1>5, <1>6 DEF IInv, Registers, Ordinary
<1>14. HandOver'
  BY <1>1, <1>4, <1>5 DEF HandOver
<1>15. StackIsSound'
  <2>1. \A u \in Tasks : RegsOf(u)' = RegsOf(u)
    BY <1>1, <1>5, <1>6 DEF RegsOf
  <2>2. \A u \in Tasks : (InHandler(u))' <=> InHandler(u)
    BY <1>1, <1>5, <1>6 DEF InHandler
  <2> QED
    BY <1>1, <2>1, <2>2 DEF IInv, StackIsSound
<1> QED
  BY <1>7, <1>9, <1>11, <1>12, <1>13, <1>14, <1>15 DEF IInv

\* A trap is entered, and its thread switched to.
LEMMA EnterTrapIInv == ASSUME IInv, NEW c \in Contexts, EnterTrap(c) PROVE IInv'
<1> DEFINE t == regs.task
           e == [of |-> c, regs |-> regs]
           x == [Blank EXCEPT !.regs = regs, !.saved_regs = regs]
<1>1. /\ waits_for = None /\ regs.pc = "user" /\ traps < MaxTraps /\ thread[c] = "none"
      /\ ctx' = [ctx EXCEPT ![c] = x] /\ thread' = [thread EXCEPT ![c] = "start"]
      /\ to_trap' = [to_trap EXCEPT ![c] = 1] /\ to_emu' = [to_emu EXCEPT ![c] = 0]
      /\ waits_for' = c /\ nest' = [nest EXCEPT ![t] = Append(@, e)] /\ traps' = traps + 1
      /\ UNCHANGED <<regs, tcb, stack, trap_mutex, current_context, resets, cut>>
  BY DEF EnterTrap, Interpreting, Live, cpuVars
<1>2. regs \in Regs /\ t \in Tasks
  BY DEF IInv, Types, Regs
<1>3. x \in Context /\ x.regs = regs /\ x.saved_regs = regs
  BY <1>2, TrapAssumption DEF Blank, Context, D0, TrapAssumption
<1>4. e \in Trap /\ e.of = c /\ e.regs = regs
  BY <1>2 DEF Trap
<1>5. regs.task = t
  OBVIOUS
<1> HIDE DEF x, e, t
<1>6. c # None
  BY TrapAssumption DEF TrapAssumption
<1>7. regs.sp = Len(nest[t]) /\ \A u \in Tasks : ~InHandler(u)
  BY <1>1, <1>2, <1>5 DEF IInv, StackIsSound, RegsOf, InHandler
<1>8. /\ nest \in [Tasks -> Seq(Trap)] /\ nest' \in [Tasks -> Seq(Trap)]
      /\ \A u \in Tasks : u # t => nest'[u] = nest[u]
      /\ nest'[t] # <<>> /\ Top(nest'[t]) = e /\ Len(nest'[t]) = Len(nest[t]) + 1 /\ Len(nest[t]) \in Nat
      /\ DOMAIN nest[t] = 1 .. Len(nest[t]) /\ DOMAIN nest'[t] = 1 .. Len(nest[t]) + 1
      /\ \A i \in 1 .. Len(nest[t]) : nest'[t][i] = nest[t][i]
      /\ nest'[t][Len(nest[t]) + 1] = e
  <2>1. nest \in [Tasks -> Seq(Trap)]
    BY DEF IInv, Types
  <2>2. nest[t] \in Seq(Trap)
    BY <1>2, <2>1
  <2>3. Append(nest[t], e) \in Seq(Trap)
    BY <2>2, <1>4, Pushed
  <2>4. nest'[t] = Append(nest[t], e) /\ \A u \in Tasks : u # t => nest'[u] = nest[u]
    BY <1>1, <1>2, <2>1
  <2>5. nest' \in [Tasks -> Seq(Trap)]
    BY <1>1, <2>1, <2>3
  <2> QED
    BY <2>1, <2>2, <2>4, <2>5, <1>4, Pushed
<1>9. Types'
  <2>1. traps' \in 0 .. MaxTraps /\ \A u \in Tasks : Len(nest'[u]) <= traps'
    <3>1. traps \in Int /\ 0 <= traps /\ \A u \in Tasks : Len(nest[u]) <= traps /\ Len(nest[u]) \in Nat
      BY NestOf DEF IInv, Types
    <3>2. MaxTraps \in Nat
      BY TrapAssumption DEF TrapAssumption
    <3> QED BY <1>1, <1>2, <1>8, <3>1, <3>2
  <2>2. ctx' \in [Contexts -> Context]
    BY <1>1, <1>3 DEF IInv, Types
  <2>3. thread' \in [Contexts -> ThreadPC] /\ to_trap' \in [Contexts -> 0..1] /\ to_emu' \in [Contexts -> 0..1]
    BY <1>1 DEF IInv, Types, ThreadPC
  <2> QED
    BY <1>1, <1>8, <2>1, <2>2, <2>3 DEF IInv, Types
<1>10. Baton'
  <2>1. /\ thread'[c] = "start" /\ to_trap'[c] = 1 /\ to_emu'[c] = 0
        /\ \A d \in Contexts : d # c => thread'[d] = thread[d] /\ to_trap'[d] = to_trap[d] /\ to_emu'[d] = to_emu[d]
    BY <1>1 DEF IInv, Types
  <2>2. \A d \in Contexts : d # waits_for
    BY <1>1, TrapAssumption DEF TrapAssumption
  <2> QED
    BY <1>1, <2>1, <2>2 DEF IInv, Baton
<1>11. Mutex'
  <2>1. ~Held
    BY <1>1 DEF Held
  <2>2. ~Held'
    BY <1>1, <1>6 DEF IInv, Types, Held
  <2> QED
    BY <1>1, <2>1, <2>2 DEF IInv, Mutex
<1>12. \A u \in Tasks : \A i \in DOMAIN nest[u] :
          /\ nest[u][i].of # c /\ nest[u][i].of \in Contexts
          /\ Live(nest[u][i].of) /\ thread'[nest[u][i].of] = thread[nest[u][i].of]
          /\ ctx'[nest[u][i].of] = ctx[nest[u][i].of]
  <2>1. ctx \in [Contexts -> Context] /\ thread \in [Contexts -> ThreadPC]
    BY DEF IInv, Types
  <2> TAKE u \in Tasks
  <2> TAKE i \in DOMAIN nest[u]
  <2>2. nest[u][i].of \in Contexts
    BY NestOf DEF IInv
  <2>3. thread[nest[u][i].of] # "none"
    BY DEF IInv, Nests, Live
  <2> QED
    BY <1>1, <2>1, <2>2, <2>3 DEF Live
<1>13. ctx'[c] = x /\ thread'[c] = "start"
  BY <1>1 DEF IInv, Types
<1>14. Nests'
  <2>1. \A u \in Tasks : \A i \in DOMAIN nest'[u] :
           (u = t /\ i = Len(nest[t]) + 1) \/ (i \in DOMAIN nest[u] /\ nest'[u][i] = nest[u][i])
    BY <1>8
  <2>2. \A u \in Tasks, v \in Tasks : \A i \in DOMAIN nest'[u], j \in DOMAIN nest'[v] :
           nest'[u][i].of = nest'[v][j].of => u = v /\ i = j
    <3> TAKE u \in Tasks, v \in Tasks
    <3> TAKE i \in DOMAIN nest'[u], j \in DOMAIN nest'[v]
    <3> HAVE nest'[u][i].of = nest'[v][j].of
    <3>1. (u = t /\ i = Len(nest[t]) + 1) <=> nest'[u][i].of = c
      BY <2>1, <1>4, <1>8, <1>12
    <3>2. (v = t /\ j = Len(nest[t]) + 1) <=> nest'[v][j].of = c
      BY <2>1, <1>4, <1>8, <1>12
    <3>3. CASE nest'[u][i].of = c
      BY <3>1, <3>2, <3>3
    <3>4. CASE nest'[u][i].of # c
      <4>1. /\ i \in DOMAIN nest[u] /\ nest'[u][i] = nest[u][i]
            /\ j \in DOMAIN nest[v] /\ nest'[v][j] = nest[v][j]
        BY <2>1, <3>1, <3>2, <3>4
      <4> QED
        BY <4>1 DEF IInv, Nests
    <3> QED
      BY <3>3, <3>4
  <2>3. ASSUME NEW u \in Tasks, NEW i \in DOMAIN nest'[u]
        PROVE  /\ (Live(nest[u][i].of))'
               /\ ctx'[nest'[u][i].of].saved_regs = nest'[u][i].regs
               /\ nest'[u][i].regs.task = u /\ nest'[u][i].regs.pc = "user" /\ nest'[u][i].regs.sp = i - 1
    <3>1. CASE u = t /\ i = Len(nest[t]) + 1
      BY <3>1, <1>1, <1>3, <1>4, <1>5, <1>7, <1>8, <1>13 DEF Live
    <3>2. CASE i \in DOMAIN nest[u] /\ nest'[u][i] = nest[u][i]
      BY <3>2, <1>12 DEF IInv, Nests, Live
    <3> QED
      BY <3>1, <3>2, <2>1
  <2> QED
    BY <2>2, <2>3 DEF Nests
<1>15. Registers'
  BY <1>1, <1>5, <1>6, <1>8 DEF IInv, Registers, Ordinary
<1>16. HandOver'
  BY <1>1, <1>3, <1>4, <1>5, <1>6, <1>8, <1>13 DEF IInv, Types, HandOver
<1>17. StackIsSound'
  <2> SUFFICES ASSUME NEW u \in Tasks
               PROVE  LET sp == RegsOf(u)'.sp IN
                        /\ sp = IF (InHandler(u))' THEN Len(nest'[u]) - 1 ELSE Len(nest'[u])
                        /\ sp <= Len(stack[u])
                        /\ \A i \in 1..sp : stack[u][i] = nest'[u][i].of /\ thread'[stack[u][i]] = "call_wait"
    BY <1>1 DEF StackIsSound
  <2> DEFINE sp == RegsOf(u).sp
  <2>1. RegsOf(u)'.sp = sp
    BY <1>1, <1>3, <1>5, <1>6, <1>13 DEF RegsOf
  <2>2. (InHandler(u))' <=> u = t
    BY <1>1, <1>5, <1>6 DEF InHandler
  <2>3. /\ sp = Len(nest[u]) /\ sp <= Len(stack[u])
        /\ \A i \in 1..sp : stack[u][i] = nest[u][i].of /\ thread[stack[u][i]] = "call_wait"
    BY <1>7 DEF IInv, StackIsSound
  <2>4. DOMAIN nest[u] = 1 .. Len(nest[u])
    BY NestOf DEF IInv
  <2> HIDE DEF sp
  <2> QED
    BY <1>8, <1>12, <2>1, <2>2, <2>3, <2>4
<1> QED
  BY <1>9, <1>10, <1>11, <1>14, <1>15, <1>16, <1>17 DEF IInv

\* The 68k call starts.
LEMMA CallHandlerIInv == ASSUME IInv, m68k_call_handler PROVE IInv'
<1> DEFINE t == regs.task
           c == current_context
           s == Append(SubSeq(stack[t], 1, regs.sp), c)
<1>1. /\ waits_for = None /\ regs.pc = "call" /\ stack' = [stack EXCEPT ![t] = s]
      /\ regs' = [regs EXCEPT !.sp = @ + 1, !.pc = "user", !.intmask = ctx[c].saved_regs.intmask]
      /\ trap_mutex' = trap_mutex + 1
      /\ UNCHANGED <<tcb, current_context, to_trap, to_emu, ctx, thread, waits_for, nest, traps, resets, cut>>
  BY DEF m68k_call_handler, Interpreting, boundVars
<1>2. regs \in Regs /\ t \in Tasks
  BY DEF IInv, Types, Regs
<1>3. nest[t] # <<>> /\ c = Top(nest[t]).of /\ thread[c] = "call_wait"
  BY <1>1 DEF IInv, HandOver
<1>4. /\ c \in Contexts /\ Len(nest[t]) >= 1 /\ Len(nest[t]) \in DOMAIN nest[t] /\ Len(nest[t]) \in Nat
      /\ nest[t][Len(nest[t])].of = c
  BY <1>2, <1>3, NestOf DEF IInv
<1>5. c = current_context /\ t = regs.task
  OBVIOUS
<1> HIDE DEF c, t
<1>6. RegsOf(t) = regs /\ InHandler(t)
  BY <1>1, <1>5 DEF RegsOf, InHandler
<1>7. /\ regs.sp = Len(nest[t]) - 1 /\ regs.sp <= Len(stack[t])
      /\ \A i \in 1 .. regs.sp : stack[t][i] = nest[t][i].of /\ thread[stack[t][i]] = "call_wait"
  BY <1>2, <1>6 DEF IInv, StackIsSound
<1>8. Len(nest[t]) \in 0 .. MaxTraps
  <2>1. traps \in 0 .. MaxTraps /\ Len(nest[t]) <= traps
    BY <1>2 DEF IInv, Types
  <2> QED BY <1>4, <2>1, TrapAssumption DEF TrapAssumption
<1>9. /\ regs' \in Regs /\ regs'.task = t /\ regs'.pc = "user" /\ regs'.sp = Len(nest[t])
  <2>1. ctx[c] \in Context
    BY <1>4 DEF IInv, Types
  <2>2. ctx[c].saved_regs.intmask \in {0, 7}
    BY <2>1 DEF Context, Regs
  <2>3. regs.sp + 1 = Len(nest[t])
    BY <1>4, <1>7
  <2> HIDE DEF s
  <2>4. regs' = [regs EXCEPT !.sp = Len(nest[t]), !.pc = "user", !.intmask = ctx[c].saved_regs.intmask]
    BY <1>1, <2>3
  <2> QED BY <1>2, <1>5, <1>8, <2>2, <2>4 DEF Regs, PCs
<1>10. /\ stack[t] \in Seq(Contexts) /\ s \in Seq(Contexts) /\ Len(s) = Len(nest[t])
       /\ \A i \in 1 .. Len(nest[t]) - 1 : s[i] = stack[t][i]
       /\ s[Len(nest[t])] = c
  <2>1. stack[t] \in Seq(Contexts)
    BY <1>2 DEF IInv, Types
  <2>2. Len(stack[t]) \in Nat /\ regs.sp \in Int /\ 0 <= regs.sp /\ regs.sp + 1 = Len(nest[t])
    BY <1>4, <1>7, <2>1
  <2> QED BY <1>4, <1>7, <2>1, <2>2
<1> HIDE DEF s
<1>11. Types'
  BY <1>1, <1>9, <1>10 DEF IInv, Types
<1>12. Baton'
  BY <1>1 DEF IInv, Baton, Running
<1>13. Mutex'
  <2>1. Held /\ ~Held'
    BY <1>1, <1>9 DEF Held
  <2> QED
    BY <1>1, <2>1 DEF IInv, Types, Mutex
<1>14. Nests'
  BY <1>1 DEF IInv, Nests, Live
<1>15. Registers'
  BY <1>1, <1>5, <1>9 DEF IInv, Registers, Ordinary
<1>16. HandOver'
  BY <1>1, <1>9 DEF HandOver
<1>17. StackIsSound'
  <2> SUFFICES ASSUME NEW u \in Tasks
               PROVE  LET sp == RegsOf(u)'.sp IN
                        /\ sp = IF (InHandler(u))' THEN Len(nest[u]) - 1 ELSE Len(nest[u])
                        /\ sp <= Len(stack'[u])
                        /\ \A i \in 1..sp : stack'[u][i] = nest[u][i].of /\ thread[stack'[u][i]] = "call_wait"
    BY <1>1 DEF StackIsSound
  <2>1. ~(InHandler(u))'
    BY <1>1, <1>9 DEF InHandler
  <2>2. CASE u = t
    <3>1. RegsOf(u)' = regs' /\ stack'[u] = s
      BY <1>1, <1>2, <1>9, <2>2 DEF RegsOf, IInv, Types
    <3>2. \A i \in 1 .. Len(nest[t]) : i = Len(nest[t]) \/ (i \in 1 .. Len(nest[t]) - 1 /\ i \in 1 .. regs.sp)
      BY <1>4, <1>7
    <3>3. \A i \in 1 .. Len(nest[t]) : s[i] = nest[t][i].of /\ thread[s[i]] = "call_wait"
      <4> TAKE i \in 1 .. Len(nest[t])
      <4>1. CASE i = Len(nest[t])
        BY <4>1, <1>3, <1>4, <1>10
      <4>2. CASE i \in 1 .. Len(nest[t]) - 1 /\ i \in 1 .. regs.sp
        BY <4>2, <1>7, <1>10
      <4> QED
        BY <3>2, <4>1, <4>2
    <3>4. RegsOf(u)'.sp = Len(nest[t])
      BY <1>9, <3>1
    <3> QED
      BY <1>4, <1>10, <2>1, <2>2, <3>1, <3>3, <3>4
  <2>3. CASE u # t
    <3>1. RegsOf(u)' = RegsOf(u) /\ stack'[u] = stack[u] /\ ~InHandler(u)
      BY <1>1, <1>5, <1>9, <2>3 DEF RegsOf, InHandler, IInv, Types
    <3> QED
      BY <2>1, <3>1 DEF IInv, StackIsSound
  <2> QED
    BY <2>2, <2>3
<1> QED
  BY <1>11, <1>12, <1>13, <1>14, <1>15, <1>16, <1>17 DEF IInv

\* The 68k call's end is handed to the handler that made it.
LEMMA ReturnHandlerIInv == ASSUME IInv, m68k_return_handler PROVE IInv'
<1> DEFINE t == regs.task
           c == stack[t][regs.sp]
<1>1. /\ waits_for = None /\ regs.pc = "return" /\ trap_mutex > 0 /\ trap_mutex' = trap_mutex - 1
      /\ regs' = [regs EXCEPT !.sp = @ - 1]
      /\ ctx' = [ctx EXCEPT ![c].call68k_retval = regs.d0, ![c].regs = regs']
      /\ to_trap' = [to_trap EXCEPT ![c] = @ + 1] /\ waits_for' = c
      /\ UNCHANGED <<tcb, stack, current_context, to_emu, thread, nest, traps, resets, cut>>
  BY DEF m68k_return_handler, Return, Interpreting, boundVars
<1>2. regs \in Regs /\ t \in Tasks /\ regs.d0 \in D0
  BY DEF IInv, Types, Regs
<1>3. nest[t] # <<>> /\ regs.d0 = <<"function", Top(nest[t]).of>>
  BY <1>1 DEF IInv, Registers, Ordinary
<1>4. /\ Len(nest[t]) >= 1 /\ Len(nest[t]) \in DOMAIN nest[t] /\ Len(nest[t]) \in Nat
      /\ Top(nest[t]) = nest[t][Len(nest[t])] /\ Top(nest[t]).of \in Contexts
      /\ \A u \in Tasks : DOMAIN nest[u] = 1 .. Len(nest[u]) /\ Len(nest[u]) \in Nat
  BY <1>2, <1>3, NestOf DEF IInv
<1>5. /\ \A u \in Tasks : ~InHandler(u)
      /\ RegsOf(t) = regs
  BY <1>1 DEF InHandler, RegsOf
<1>6. /\ regs.sp = Len(nest[t]) /\ regs.sp <= Len(stack[t])
      /\ \A i \in 1 .. regs.sp : stack[t][i] = nest[t][i].of /\ thread[stack[t][i]] = "call_wait"
  BY <1>2, <1>5 DEF IInv, StackIsSound
<1>7. c = Top(nest[t]).of /\ thread[c] = "call_wait"
  BY <1>4, <1>6
<1>8. regs.task = t
  OBVIOUS
<1> HIDE DEF t, c
<1>9. /\ regs' \in Regs /\ regs'.task = t /\ regs'.pc = "return" /\ regs'.sp = Len(nest[t]) - 1
      /\ regs'.d0 = regs.d0
  <2>1. regs.sp \in 0..MaxTraps /\ MaxTraps \in Nat
    BY <1>2, TrapAssumption DEF Regs, TrapAssumption
  <2>2. regs.sp - 1 \in 0..MaxTraps
    BY <1>4, <1>6, <2>1
  <2> QED
    BY <1>1, <1>2, <1>6, <1>8, <2>2 DEF Regs
<1>10. c \in Contexts /\ c # None /\ ctx \in [Contexts -> Context] /\ ctx[c] \in Context
  BY <1>4, <1>7, TrapAssumption DEF IInv, Types, TrapAssumption
<1>11. /\ ctx' \in [Contexts -> Context]
       /\ ctx'[c].regs = regs' /\ ctx'[c].call68k_retval = regs.d0
       /\ \A d \in Contexts : ctx'[d].saved_regs = ctx[d].saved_regs
  <2> DEFINE x == [ctx[c] EXCEPT !.call68k_retval = regs.d0, !.regs = regs']
  <2>1. x \in Context /\ x.regs = regs' /\ x.call68k_retval = regs.d0 /\ x.saved_regs = ctx[c].saved_regs
    BY <1>2, <1>9, <1>10 DEF Context
  <2>2. ctx' = [ctx EXCEPT ![c] = x]
    BY <1>1, <1>10 DEF Context
  <2> HIDE DEF x
  <2> QED
    BY <1>10, <2>1, <2>2
<1>12. to_trap[c] = 0 /\ to_emu[c] = 0
  BY <1>1, <1>10 DEF IInv, Baton
<1>13. Types'
  BY <1>1, <1>9, <1>10, <1>11, <1>12 DEF IInv, Types
<1>14. Baton'
  <2>1. /\ to_trap'[c] = 1 /\ \A d \in Contexts : d # c => to_trap'[d] = to_trap[d]
    BY <1>1, <1>10, <1>12 DEF IInv, Types
  <2>2. \A d \in Contexts : d # waits_for
    BY <1>1, TrapAssumption DEF TrapAssumption
  <2> QED
    BY <1>1, <1>7, <1>12, <2>1, <2>2 DEF IInv, Baton
<1>15. Mutex'
  <2>1. ~Held /\ Held'
    BY <1>1, <1>7, <1>10 DEF Held
  <2> QED
    BY <1>1, <2>1 DEF IInv, Types, Mutex
<1>16. Nests'
  <2>1. \A u \in Tasks : \A i \in DOMAIN nest[u] :
           ctx'[nest[u][i].of].saved_regs = ctx[nest[u][i].of].saved_regs
    BY <1>11, NestOf DEF IInv
  <2>2. \A u \in Tasks : \A i \in DOMAIN nest[u] :
           ctx'[nest[u][i].of].saved_regs = nest[u][i].regs
    BY <2>1 DEF IInv, Nests
  <2>3. \A d : (Live(d))' <=> Live(d)
    BY <1>1 DEF Live
  <2>4. nest' = nest
    BY <1>1
  <2> QED
    BY <2>2, <2>3, <2>4 DEF IInv, Nests
<1>17. Registers'
  BY <1>1, <1>8, <1>9, <1>10 DEF IInv, Registers, Ordinary
<1>18. HandOver'
  <2>1. /\ waits_for' = c /\ c # None /\ regs'.task = t /\ nest' = nest /\ nest[t] # <<>>
        /\ c = Top(nest[t]).of /\ ctx'[c].regs.task = t /\ thread' = thread /\ thread[c] = "call_wait"
        /\ to_emu' = to_emu /\ to_emu[c] = 0 /\ ctx'[c].call68k_retval = <<"function", c>>
    BY <1>1, <1>3, <1>7, <1>9, <1>10, <1>11, <1>12
  <2> QED
    BY <2>1 DEF HandOver
<1>19. StackIsSound'
  <2> SUFFICES ASSUME NEW u \in Tasks
               PROVE  LET sp == RegsOf(u)'.sp IN
                        /\ sp = IF (InHandler(u))' THEN Len(nest[u]) - 1 ELSE Len(nest[u])
                        /\ sp <= Len(stack[u])
                        /\ \A i \in 1..sp : stack[u][i] = nest[u][i].of /\ thread[stack[u][i]] = "call_wait"
    BY <1>1 DEF StackIsSound
  <2>1. (InHandler(u))' <=> u = t
    BY <1>1, <1>9, <1>10 DEF InHandler
  <2>2. CASE u = t
    <3>1. RegsOf(u)'.sp = Len(nest[t]) - 1
      BY <1>1, <1>9, <1>10, <1>11, <2>2 DEF RegsOf
    <3>2. Len(nest[t]) - 1 <= Len(stack[t]) /\ \A i \in 1 .. Len(nest[t]) - 1 : i \in 1 .. regs.sp
      BY <1>4, <1>6
    <3> QED
      BY <1>6, <2>1, <2>2, <3>1, <3>2
  <2>3. CASE u # t
    <3>1. RegsOf(u)' = RegsOf(u)
      BY <1>1, <1>8, <1>9, <2>3 DEF RegsOf
    <3> QED
      BY <1>5, <2>1, <2>3, <3>1 DEF IInv, StackIsSound
  <2> QED
    BY <2>2, <2>3
<1> QED
  BY <1>13, <1>14, <1>15, <1>16, <1>17, <1>18, <1>19 DEF IInv

\* What the end of a trap finds: its context is current, and has kept the
\* registers that the running task entered the trap with.
LEMMA AtExit ==
  ASSUME IInv, waits_for = None, regs.pc = "exit"
  PROVE  LET t == regs.task
             left == Top(nest[t]) IN
         /\ t \in Tasks /\ nest[t] # <<>> /\ current_context = left.of /\ left.of \in Contexts
         /\ thread[left.of] = "exited" /\ ctx[left.of].trap_retval = <<"handler", left.of>>
         /\ ctx[left.of].saved_regs = left.regs /\ left.regs \in Regs
         /\ left.regs.task = t /\ left.regs.pc = "user" /\ left.regs.sp = Len(nest[t]) - 1
<1> DEFINE t == regs.task
           left == Top(nest[t])
<1>1. t \in Tasks
  BY DEF IInv, Types, Regs
<1>2. /\ nest[t] # <<>> /\ current_context = left.of
      /\ thread[left.of] = "exited" /\ ctx[left.of].trap_retval = <<"handler", left.of>>
  BY DEF IInv, HandOver
<1> HIDE DEF t
<1>3. /\ Len(nest[t]) \in DOMAIN nest[t] /\ left = nest[t][Len(nest[t])]
      /\ left.of \in Contexts /\ nest[t][Len(nest[t])].regs \in Regs
  BY <1>1, <1>2, NestOf DEF IInv
<1>4. /\ ctx[left.of].saved_regs = left.regs
      /\ left.regs.task = t /\ left.regs.pc = "user" /\ left.regs.sp = Len(nest[t]) - 1
  BY <1>1, <1>3 DEF IInv, Nests
<1> QED
  BY <1>1, <1>2, <1>3, <1>4 DEF t

\* The trap is left.
LEMMA ExitHandlerIInv == ASSUME IInv, exit_trap_handler PROVE IInv'
<1> DEFINE t == regs.task
           left == Top(nest[t])
           c == left.of
           n == Len(nest[t])
<1>1. waits_for = None /\ regs.pc = "exit"
  BY DEF exit_trap_handler, Exit, Interpreting
<1>2. /\ t \in Tasks /\ nest[t] # <<>> /\ current_context = c /\ c \in Contexts
      /\ thread[c] = "exited" /\ ctx[c].trap_retval = <<"handler", c>>
      /\ ctx[c].saved_regs = left.regs /\ left.regs \in Regs
      /\ left.regs.task = t /\ left.regs.pc = "user" /\ left.regs.sp = n - 1
  BY <1>1, AtExit
<1>3. /\ regs' = IF c \in HasRetval THEN [left.regs EXCEPT !.d0 = <<"handler", c>>] ELSE left.regs
      /\ thread' = [thread EXCEPT ![c] = "none"] /\ ctx' = [ctx EXCEPT ![c] = Blank]
      /\ trap_mutex' = trap_mutex + 1 /\ nest' = [nest EXCEPT ![t] = Pop(@)]
      /\ UNCHANGED <<tcb, stack, current_context, to_trap, to_emu, waits_for, traps, resets, cut>>
  BY <1>2 DEF exit_trap_handler, Exit
<1>4. regs.task = t
  OBVIOUS
<1>5. /\ nest \in [Tasks -> Seq(Trap)] /\ nest' \in [Tasks -> Seq(Trap)]
      /\ \A u \in Tasks : u # t => nest'[u] = nest[u]
      /\ Len(nest'[t]) = n - 1 /\ n \in Nat /\ n >= 1 /\ n \in DOMAIN nest[t] /\ left = nest[t][n]
      /\ DOMAIN nest[t] = 1 .. n /\ DOMAIN nest'[t] = 1 .. n - 1
      /\ \A i \in 1 .. n - 1 : nest'[t][i] = nest[t][i]
  <2>1. nest \in [Tasks -> Seq(Trap)]
    BY DEF IInv, Types
  <2>2. nest[t] \in Seq(Trap)
    BY <1>2, <2>1
  <2>3. Pop(nest[t]) \in Seq(Trap)
    BY <2>2, <1>2, Popped
  <2>4. nest'[t] = Pop(nest[t]) /\ \A u \in Tasks : u # t => nest'[u] = nest[u]
    BY <1>2, <1>3, <2>1
  <2>5. nest' \in [Tasks -> Seq(Trap)]
    BY <1>3, <2>1, <2>3
  <2>6. /\ Len(Pop(nest[t])) = n - 1 /\ n \in Nat /\ n >= 1 /\ n \in DOMAIN nest[t] /\ left = nest[t][n]
        /\ DOMAIN nest[t] = 1 .. n /\ DOMAIN Pop(nest[t]) = 1 .. n - 1
        /\ \A i \in 1 .. n - 1 : Pop(nest[t])[i] = nest[t][i]
    BY <2>2, <1>2, Popped
  <2> HIDE DEF n, left
  <2> QED
    BY <2>1, <2>4, <2>5, <2>6
<1> HIDE DEF t, left, n
<1>6. /\ regs' \in Regs /\ regs'.task = t /\ regs'.pc = "user" /\ regs'.sp = n - 1
  BY <1>2, <1>3 DEF Regs, D0
<1> HIDE DEF c
<1>7. c = left.of
  BY DEF c
<1>8. \A u \in Tasks : \A i \in DOMAIN nest'[u] :
        /\ i \in DOMAIN nest[u] /\ nest'[u][i] = nest[u][i] /\ nest[u][i].of \in Contexts
        /\ nest[u][i].of # c
  <2> TAKE u \in Tasks
  <2> TAKE i \in DOMAIN nest'[u]
  <2>1. i \in DOMAIN nest[u] /\ nest'[u][i] = nest[u][i] /\ ~(u = t /\ i = n)
    BY <1>5
  <2>2. nest[u][i].of \in Contexts
    BY <2>1, NestOf DEF IInv
  <2>3. nest[u][i].of # nest[t][n].of
    BY <1>2, <1>5, <2>1 DEF IInv, Nests
  <2> QED
    BY <1>5, <1>7, <2>1, <2>2, <2>3
<1>9. /\ \A d \in Contexts : d # c => thread'[d] = thread[d] /\ ctx'[d] = ctx[d]
      /\ thread'[c] = "none"
  BY <1>2, <1>3 DEF IInv, Types
<1>10. Types'
  <2>1. \A u \in Tasks : Len(nest'[u]) <= traps
    <3>1. \A u \in Tasks : Len(nest[u]) <= traps
      BY DEF IInv, Types
    <3>2. n <= traps /\ traps \in Int
      BY <1>2, <3>1 DEF IInv, Types, n
    <3>3. Len(nest'[t]) <= traps
      BY <1>5, <3>2
    <3> QED
      BY <1>5, <3>1, <3>3
  <2>2. Blank \in Context
    BY TrapAssumption DEF TrapAssumption, Blank, Context, Fresh, Regs, PCs, D0
  <2>3. /\ thread' \in [Contexts -> ThreadPC] /\ ctx' \in [Contexts -> Context]
    BY <1>3, <2>2 DEF IInv, Types, ThreadPC
  <2> QED
    BY <1>3, <1>5, <1>6, <2>1, <2>3 DEF IInv, Types
<1>11. Baton'
  <2>1. \A d \in Contexts : thread'[d] = thread[d] \/ thread'[d] = "none"
    BY <1>9
  <2>2. waits_for' = None /\ to_trap' = to_trap /\ to_emu' = to_emu
    BY <1>1, <1>3
  <2>3. \A d \in Contexts : d # waits_for
    BY <1>1, TrapAssumption DEF TrapAssumption
  <2> QED
    BY <1>1, <2>1, <2>2, <2>3 DEF IInv, Baton
<1>12. Mutex'
  <2>1. Held /\ ~Held'
    BY <1>1, <1>3, <1>6 DEF Held
  <2> QED
    BY <1>3, <2>1 DEF IInv, Types, Mutex
<1>13. Nests'
  <2>1. \A u, v \in Tasks : \A i \in DOMAIN nest'[u], j \in DOMAIN nest'[v] :
           nest'[u][i].of = nest'[v][j].of => u = v /\ i = j
    BY <1>8 DEF IInv, Nests
  <2>2. \A u \in Tasks : \A i \in DOMAIN nest'[u] :
           /\ (Live(nest[u][i].of))'
           /\ ctx'[nest'[u][i].of].saved_regs = nest'[u][i].regs
           /\ nest'[u][i].regs.task = u /\ nest'[u][i].regs.pc = "user" /\ nest'[u][i].regs.sp = i - 1
    <3> TAKE u \in Tasks
    <3> TAKE i \in DOMAIN nest'[u]
    <3> DEFINE e == nest[u][i]
    <3>1. /\ i \in DOMAIN nest[u] /\ nest'[u][i] = e
          /\ thread'[e.of] = thread[e.of] /\ ctx'[e.of] = ctx[e.of]
      BY <1>8, <1>9
    <3>2. /\ thread[e.of] # "none" /\ ctx[e.of].saved_regs = e.regs
          /\ e.regs.task = u /\ e.regs.pc = "user" /\ e.regs.sp = i - 1
      BY <3>1 DEF IInv, Nests, Live
    <3> HIDE DEF e
    <3> QED
      BY <3>1, <3>2 DEF Live
  <2> QED
    BY <2>1, <2>2 DEF Nests
<1>14. Registers'
  BY <1>3, <1>4, <1>5, <1>6 DEF IInv, Registers, Ordinary
<1>15. HandOver'
  BY <1>1, <1>3, <1>6 DEF HandOver
<1>16. StackIsSound'
  <2> SUFFICES ASSUME NEW u \in Tasks
               PROVE  LET sp == RegsOf(u)'.sp IN
                        /\ sp = IF (InHandler(u))' THEN Len(nest'[u]) - 1 ELSE Len(nest'[u])
                        /\ sp <= Len(stack[u])
                        /\ \A i \in 1..sp : stack[u][i] = nest'[u][i].of /\ thread'[stack[u][i]] = "call_wait"
    BY <1>3 DEF StackIsSound
  <2> DEFINE sp == RegsOf(u).sp
  <2>1. ~(InHandler(u))' /\ (InHandler(u) <=> u = t)
    BY <1>1, <1>3, <1>4, <1>6 DEF InHandler
  <2>2. /\ sp = IF InHandler(u) THEN Len(nest[u]) - 1 ELSE Len(nest[u])
        /\ sp <= Len(stack[u])
        /\ \A i \in 1..sp : stack[u][i] = nest[u][i].of /\ thread[stack[u][i]] = "call_wait"
    BY DEF IInv, StackIsSound
  <2>3. sp = Len(nest'[u])
    BY <1>5, <2>1, <2>2 DEF n
  <2>4. RegsOf(u)'.sp = sp
    <3>1. CASE u = t
      BY <1>1, <1>3, <1>5, <1>6, <2>3, <3>1 DEF RegsOf
    <3>2. CASE u # t
      BY <1>3, <1>4, <1>6, <3>2 DEF RegsOf
    <3> QED
      BY <3>1, <3>2
  <2> HIDE DEF sp
  <2>5. \A i \in 1 .. sp : i \in DOMAIN nest'[u]
    BY <1>5, <2>3, NestOf DEF IInv
  <2> QED
    BY <1>8, <1>9, <2>1, <2>2, <2>3, <2>4, <2>5
<1> QED
  BY <1>10, <1>11, <1>12, <1>13, <1>14, <1>15, <1>16 DEF IInv

\* The machine is reset.
LEMMA ResetIInv == ASSUME IInv, do_reset_machine PROVE IInv'
<1>1. /\ waits_for = None /\ regs' = Fresh(Boot) /\ tcb' = [u \in Tasks |-> Fresh(u)]
      /\ stack' = [u \in Tasks |-> <<>>] /\ nest' = [u \in Tasks |-> <<>>]
      /\ resets' = resets + 1 /\ cut' = (cut \/ regs.pc \in {"call", "exit"})
      /\ UNCHANGED <<trap_mutex, current_context, to_trap, to_emu, ctx, thread, waits_for, traps>>
  BY DEF do_reset_machine, syncVars
<1> USE TrapAssumption DEF TrapAssumption
<1>2. /\ \A u \in Tasks : Fresh(u) \in Regs
      /\ regs'.task = Boot /\ regs'.pc = "user" /\ regs'.sp = 0
  BY <1>1 DEF Fresh, Regs, PCs, D0
<1>3. Types'
  <2>1. regs' \in Regs /\ tcb' \in [Tasks -> Regs]
    BY <1>1, <1>2
  <2>2. /\ stack' \in [Tasks -> Seq(Contexts)] /\ nest' \in [Tasks -> Seq(Trap)]
        /\ \A t \in Tasks : Len(nest'[t]) <= traps
    BY <1>1 DEF IInv, Types
  <2>3. resets' \in Nat
    BY <1>1 DEF IInv, Types
  <2>4. cut' \in BOOLEAN
    BY <1>1 DEF IInv, Types
  <2> QED
    BY <1>1, <2>1, <2>2, <2>3, <2>4 DEF IInv, Types
<1>4. Baton'
  BY <1>1 DEF IInv, Baton, Running
<1>5. Mutex'
  <2>1. Held <=> regs.pc \in {"call", "exit"}
    BY <1>1 DEF Held
  <2>2. ~Held'
    BY <1>1, <1>2 DEF Held
  <2> QED
    BY <1>1, <2>1, <2>2 DEF IInv, Types, Mutex
<1>6. Nests' /\ HandOver'
  BY <1>1, <1>2 DEF Nests, HandOver
<1>7. Registers'
  <2>1. \A u \in Tasks : Fresh(u).task = u /\ Fresh(u).pc = "user"
    BY DEF Fresh
  <2> QED
    BY <1>1, <2>1 DEF Registers, Ordinary
<1>8. StackIsSound'
  <2>1. \A u \in Tasks : ~(InHandler(u))' /\ RegsOf(u)'.sp = 0 /\ Len(nest'[u]) = 0 /\ Len(stack'[u]) = 0
    BY <1>1, <1>2 DEF InHandler, RegsOf, Fresh
  <2> QED
    BY <2>1 DEF StackIsSound
<1> QED
  BY <1>3, <1>4, <1>5, <1>6, <1>7, <1>8 DEF IInv

\* A step that changes none of the variables the invariant is about.
LEMMA StutterIInv == ASSUME IInv, UNCHANGED vars PROVE IInv'
<1>1. UNCHANGED <<regs, tcb, stack, trap_mutex, current_context, to_trap, to_emu, ctx, thread, waits_for, nest, traps, resets, cut>>
  BY DEF vars, cpuVars, syncVars, boundVars
<1>2. Types' /\ Baton' /\ Mutex' /\ Nests'
  BY <1>1 DEF IInv, Types, Baton, Running, Mutex, Held, Nests, Live
<1>3. Registers' /\ HandOver'
  BY <1>1 DEF IInv, Registers, Ordinary, HandOver
<1>4. StackIsSound'
  BY <1>1 DEF IInv, StackIsSound, RegsOf, InHandler
<1> QED
  BY <1>2, <1>3, <1>4 DEF IInv

\* Every step keeps the invariant.
LEMMA NextIInv == IInv /\ [Next]_vars => IInv'
<1> SUFFICES ASSUME IInv, [Next]_vars PROVE IInv'
  OBVIOUS
<1>1. ASSUME Emulator PROVE IInv'
  BY <1>1, SwitchToEmuIInv, CallHandlerIInv, ReturnHandlerIInv, ExitHandlerIInv DEF Emulator
<1>2. ASSUME Amiga PROVE IInv'
  BY <1>2, SwitchTaskIInv, EnterTrapIInv, FunctionReturnsIInv, ResetIInv DEF Amiga
<1>3. ASSUME NEW c \in Contexts, Thread(c) PROVE IInv'
  BY <1>3, StartHandlerIInv, Call68kIInv, CallSwitchIInv, CallReturnedIInv, CallEndIInv,
     HandlerDoneIInv, ThreadExitsIInv DEF Thread
<1>4. ASSUME UNCHANGED vars PROVE IInv'
  BY <1>4, StutterIInv
<1> QED
  BY <1>1, <1>2, <1>3, <1>4 DEF Next

\* The invariant holds of every state of the mechanism.
THEOREM InvariantHolds == Spec => []IInv
BY InitIInv, NextIInv, PTL DEF Spec

-----------------------------------------------------------------------------
(* What it gives *)

\* Of the emulator and the trap threads exactly one has the baton.
LEMMA BatonIsOne == IInv => OneRuns
<1> SUFFICES ASSUME IInv PROVE OneRuns
  OBVIOUS
<1> DEFINE R == {c \in Contexts : Running(c)}
           T == {c \in Contexts : to_trap[c] > 0}
           E == {c \in Contexts : to_emu[c] > 0}
<1>1. /\ to_trap \in [Contexts -> 0..1] /\ to_emu \in [Contexts -> 0..1] /\ None \notin Contexts
      /\ waits_for \in Contexts \cup {None}
  BY TrapAssumption DEF IInv, Types, TrapAssumption
<1>2. \A c \in Contexts : c # waits_for => ~Running(c) /\ to_trap[c] = 0 /\ to_emu[c] = 0
  BY DEF IInv, Baton, Running
<1>3. Cardinality({}) = 0 /\ \A c : Cardinality({c}) = 1
  BY FS_EmptySet, FS_Singleton
<1>4. CASE waits_for = None
  <2>1. R = {} /\ T = {} /\ E = {}
    BY <1>1, <1>2, <1>4
  <2> QED
    BY <1>3, <1>4, <2>1 DEF OneRuns
<1>5. CASE waits_for # None
  <2> DEFINE w == waits_for
  <2>1. w \in Contexts
    BY <1>1, <1>5
  <2>2. \/ ~Running(w) /\ to_trap[w] = 1 /\ to_emu[w] = 0
        \/ Running(w) /\ to_trap[w] = 0 /\ to_emu[w] = 0
        \/ ~Running(w) /\ to_trap[w] = 0 /\ to_emu[w] = 1
    BY <1>5 DEF IInv, Baton, Running
  <2>3. \/ R = {} /\ T = {w} /\ E = {}
        \/ R = {w} /\ T = {} /\ E = {}
        \/ R = {} /\ T = {} /\ E = {w}
    BY <1>2, <2>1, <2>2
  <2>4. Cardinality({w}) = 1 /\ Cardinality({}) = 0
    BY <1>3
  <2> HIDE DEF R, T, E
  <2>5. Cardinality(R) + Cardinality(T) + Cardinality(E) + 0 = 1
    BY <2>3, <2>4
  <2> QED
    BY <1>5, <2>5 DEF OneRuns, R, T, E
<1> QED
  BY <1>4, <1>5

\* Who wants trap_mutex finds it free.
LEMMA MutexIsFree == IInv => NeverContended
<1> SUFFICES ASSUME IInv PROVE NeverContended
  OBVIOUS
<1>1. ~Held => trap_mutex > 0 \/ cut
  BY DEF IInv, Mutex
<1>2. Interpreting("return") => ~Held
  BY DEF Interpreting, Held
<1>3. ASSUME NEW c \in Contexts, thread[c] = "run" PROVE ~Held
  <2>1. c = waits_for /\ waits_for # None
    BY <1>3, Waited
  <2> QED
    BY <1>3, <2>1 DEF Held
<1> QED
  BY <1>1, <1>2, <1>3 DEF NeverContended

\* The emulator and the trap threads are coroutines.
THEOREM TrapThreadsAreCoroutines == Spec => []Coroutines
<1>1. IInv => TypeOK
  <2> SUFFICES ASSUME IInv PROVE TypeOK
    OBVIOUS
  <2>1. trap_mutex \in 0..1
    BY DEF IInv, Mutex
  <2>2. \A c \in Contexts : ctx[c].regs \in Regs /\ ctx[c].saved_regs \in Regs
    <3>1. \A c \in Contexts : ctx[c] \in Context
      BY DEF IInv, Types
    <3> QED BY <3>1 DEF Context
  <2> QED
    BY <2>1, <2>2 DEF IInv, Types, TypeOK
<1>2. IInv => Coroutines
  BY <1>1, BatonIsOne, MutexIsFree DEF Coroutines
<1> QED
  BY <1>2, InvariantHolds, PTL

\* Every task gets to its own traps, and every trap its own results.
THEOREM TasksKeepTheirTraps == Spec => []EachTaskItsTraps
<1>1. IInv => ActsForRequester
  <2> SUFFICES ASSUME IInv, waits_for = None, regs.pc \in {"call", "exit"}
               PROVE  /\ Live(current_context) /\ Inside # <<>>
                      /\ current_context = Top(Inside).of
                      /\ ctx[current_context].saved_regs = Top(Inside).regs
    BY DEF ActsForRequester
  <2> DEFINE t == regs.task
  <2>1. t \in Tasks
    BY DEF IInv, Types, Regs
  <2>2. /\ nest[t] # <<>> /\ current_context = Top(nest[t]).of
        /\ thread[current_context] \in {"call_wait", "exited"}
    BY DEF IInv, HandOver
  <2>3. Inside = nest[t]
    BY DEF Inside
  <2> HIDE DEF t
  <2>4. Len(nest[t]) \in DOMAIN nest[t] /\ Top(nest[t]) = nest[t][Len(nest[t])]
    BY <2>1, <2>2, NestOf DEF IInv
  <2>5. ctx[Top(nest[t]).of].saved_regs = Top(nest[t]).regs
    BY <2>1, <2>4 DEF IInv, Nests
  <2> QED
    BY <2>2, <2>3, <2>5 DEF Live
<1>2. IInv => OwnResult
  <2> SUFFICES ASSUME IInv, NEW c \in Contexts, thread[c] = "call_end"
               PROVE  ctx[c].call68k_retval = <<"function", c>>
    BY DEF OwnResult
  <2>1. c = waits_for /\ waits_for # None
    BY Waited
  <2> QED
    BY <2>1 DEF IInv, HandOver
<1>3. IInv => EachTaskItsTraps
  BY <1>1, <1>2 DEF IInv, EachTaskItsTraps
<1> QED
  BY <1>3, InvariantHolds, PTL

\* A trap ends where it began, with its own result: only exit_trap_handler and
\* a reset take a trap off a task's stack of traps.
THEOREM TrapsEndWhereTheyBegan == Spec => ReturnsToCaller
<1> DEFINE Left(t) == Len(nest'[t]) < Len(nest[t]) /\ resets' = resets
           Restored(t) ==
             LET left == Top(nest[t]) IN
             /\ nest'[t] = Pop(nest[t])
             /\ regs' = IF left.of \in HasRetval
                          THEN [left.regs EXCEPT !.d0 = <<"handler", left.of>>]
                          ELSE left.regs
<1>1. ASSUME IInv, [Next]_vars, NEW t \in Tasks, Left(t) PROVE Restored(t)
  <2>1. nest \in [Tasks -> Seq(Trap)] /\ Len(nest[t]) \in Nat /\ regs \in Regs /\ regs.task \in Tasks
        /\ resets \in Nat /\ nest[t] \in Seq(Trap)
    BY <1>1, NestOf DEF IInv, Types, Regs
  <2>2. ASSUME nest' = nest PROVE FALSE
    BY <1>1, <2>1, <2>2
  <2>3. ASSUME NEW c \in Contexts, Thread(c) PROVE FALSE
    <3>1. nest' = nest
      BY <2>3 DEF Thread, StartHandler, trap_Call68k, Call68k, CallSwitch, CallReturned, CallEnd,
                  HandlerDone, ThreadExits, Critical
    <3> QED BY <2>2, <3>1
  <2>4. ASSUME Amiga PROVE FALSE
    <3>1. CASE \E u \in Tasks : SwitchTask(u)
      BY <3>1, <2>2 DEF SwitchTask
    <3>2. ASSUME NEW c \in Contexts, EnterTrap(c) PROVE FALSE
      <4> DEFINE e == [of |-> c, regs |-> regs]
      <4>1. e \in Trap
        BY <2>1 DEF Trap
      <4>2. nest' = [nest EXCEPT ![regs.task] = Append(@, e)]
        BY <3>2 DEF EnterTrap
      <4> HIDE DEF e
      <4>3. nest'[t] = nest[t] \/ nest'[t] = Append(nest[t], e)
        BY <2>1, <4>2
      <4>4. Len(Append(nest[t], e)) = Len(nest[t]) + 1
        BY <2>1, <4>1, Pushed
      <4> QED BY <1>1, <2>1, <4>3, <4>4
    <3>3. CASE FunctionReturns
      BY <3>3, <2>2 DEF FunctionReturns
    <3>4. CASE do_reset_machine
      BY <1>1, <2>1, <3>4 DEF do_reset_machine
    <3> QED
      BY <2>4, <3>1, <3>2, <3>3, <3>4 DEF Amiga
  <2>5. CASE exit_trap_handler
    <3>1. waits_for = None /\ regs.pc = "exit"
      BY <2>5 DEF exit_trap_handler, Exit, Interpreting
    <3>2. /\ nest' = [nest EXCEPT ![regs.task] = Pop(@)]
          /\ regs' = IF current_context \in HasRetval
                       THEN [ctx[current_context].saved_regs EXCEPT !.d0 = ctx[current_context].trap_retval]
                       ELSE ctx[current_context].saved_regs
      BY <2>5 DEF exit_trap_handler, Exit
    <3>3. t = regs.task /\ nest'[t] = Pop(nest[t])
      BY <1>1, <2>1, <3>2
    <3>4. LET left == Top(nest[t]) IN
            /\ current_context = left.of /\ ctx[left.of].trap_retval = <<"handler", left.of>>
            /\ ctx[left.of].saved_regs = left.regs
      BY <1>1, <3>1, <3>3, AtExit
    <3> QED
      BY <3>2, <3>3, <3>4
  <2>6. CASE SwitchToEmu \/ m68k_call_handler \/ m68k_return_handler
    <3>1. nest' = nest
      BY <2>6 DEF SwitchToEmu, m68k_call_handler, m68k_return_handler, Return
    <3> QED BY <2>2, <3>1
  <2>7. CASE UNCHANGED vars
    BY <2>2, <2>7 DEF vars
  <2> QED
    BY <1>1, <2>3, <2>4, <2>5, <2>6, <2>7 DEF Next, Emulator
<1>2. IInv /\ [Next]_vars =>
        [\A t \in Tasks : Len(nest'[t]) < Len(nest[t]) /\ resets' = resets =>
            LET left == Top(nest[t]) IN
            /\ nest'[t] = Pop(nest[t])
            /\ regs' = IF left.of \in HasRetval
                         THEN [left.regs EXCEPT !.d0 = <<"handler", left.of>>]
                         ELSE left.regs]_vars
  BY <1>1
<1> QED
  BY <1>2, InvariantHolds, PTL DEF Spec, ReturnsToCaller
=============================================================================
