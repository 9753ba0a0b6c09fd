------------------------------ MODULE AmigaSem ------------------------------
(***************************************************************************)
(* uae_sem_t on AmigaOS (src/src/td-amigaos/thread.c).  Exec has no        *)
(* counting semaphore a task can sleep on, so a proxy task keeps the list  *)
(* of sleepers: a task that must sleep sends the proxy a BLOCK message and *)
(* waits for its answer, which the proxy holds back until a post sends     *)
(* UNBLOCK.  The count itself is in the semaphore, under an Exec mutex.    *)
(*                                                                         *)
(* One semaphore, any number of tasks.  What a task does between Obtain-   *)
(* and ReleaseSemaphore without sleeping is one step; a post that asks the *)
(* proxy keeps the mutex over several.  Each message lives on its sender's *)
(* stack, and the list of sleepers is an Exec list linked through them.    *)
(*                                                                         *)
(* The proxy has priority 10 and the tasks 0 or 2, so a task goes on only  *)
(* when the proxy has nothing to do, or between Forbid and Wait.  CTRL-C   *)
(* may reach any task at any time and stays until a Wait sees it.          *)
(***************************************************************************)
EXTENDS Integers, SequencesExt

CONSTANTS
    Threads,   \* the tasks that use the semaphore
    Initial,   \* its initial value
    MaxPosts,  \* bound: how often it is posted
    MaxBreaks, \* bound: how often the user presses CTRL-C
    None

ASSUME SemAssumption ==
    /\ Initial \in Nat /\ MaxPosts \in Nat /\ MaxBreaks \in Nat
    /\ None \notin Threads
    /\ IsFiniteSet(Threads) /\ Threads # {}

VARIABLES
    value, live, mutex,     \* struct PSemaphore
    succ, pred,             \* its wait_queue: the links of the header and of each
                            \* task's BLOCK message.  None is the header (lh_Head,
                            \* lh_TailPred) and also the mark at the list's end
    port,                   \* messages the proxy has not read yet
    signal,                 \* [Threads -> SUBSET Signals]: what a task has not seen
    pc,                     \* where each task is
    posts, breaks,          \* history: posts and CTRL-Cs done
    missed,                 \* history: a post woke nobody though a task was waiting
    overwritten             \* history: tasks whose stack was written to too late

countVars == <<value, live, mutex>>
linkVars == <<succ, pred>>
proxyVars == <<linkVars, port>>
histVars == <<posts, breaks, missed, overwritten>>
amigaVars == <<countVars, proxyVars, signal, pc, histVars>>

PC == {"idle", "blocking", "asleep", "woken", "broken", "posting", "destroying"}
MsgType == {"BLOCK", "UNBLOCK", "DESTROY"}
Signals == {"PROXY_MSG_REPLY_SIG", "SIGBREAKF_CTRL_C"}
Msg(type, t) == [type |-> type, from |-> t]
Nodes == Threads \cup {None}

\* Exec's lists.  AddTail and RemHead on wait_queue; Remove, here Unlink, writes to
\* the two nodes that the message names and asks no list.  BlockMe clears the
\* message's own links after it.
AddTail(n) ==
    /\ succ' = [succ EXCEPT ![n] = None, ![pred[None]] = n]
    /\ pred' = [pred EXCEPT ![n] = pred[None], ![None] = n]
RemHead(n) ==
    /\ n = succ[None]
    /\ succ' = [succ EXCEPT ![None] = succ[n]]
    /\ pred' = [pred EXCEPT ![succ[n]] = None]
Unlink(n) ==
    /\ succ' = [succ EXCEPT ![pred[n]] = succ[n], ![n] = None]
    /\ pred' = [pred EXCEPT ![succ[n]] = pred[n], ![n] = None]

\* q is the list: each is linked to the next one, from the header to the end.
At(q, i) == IF i \in 1 .. Len(q) THEN q[i] ELSE None
IsList(q) ==
    \A i \in 0 .. Len(q) :
       succ[At(q, i)] = At(q, i + 1) /\ pred[At(q, i + 1)] = At(q, i)
Orders == {q \in UNION {[1 .. n -> Threads] : n \in 0 .. Cardinality(Threads)} : IsInjective(q)}

-----------------------------------------------------------------------------
\* uae_sem_init
SemInit ==
    /\ value = Initial /\ live = TRUE /\ mutex = None
    /\ succ = [n \in Nodes |-> None] /\ pred = [n \in Nodes |-> None]  \* NewList
    /\ port = <<>>
    /\ signal = [t \in Threads |-> {}]
    /\ pc = [t \in Threads |-> "idle"]
    /\ posts = 0 /\ breaks = 0 /\ missed = FALSE /\ overwritten = {}

\* A step of a task; none is taken while the proxy has a message to read.
Goto(t, from, to) == port = <<>> /\ pc[t] = from /\ pc' = [pc EXCEPT ![t] = to]
Unlocked == mutex = None

\* The user presses CTRL-C, which gfx-amigaos/ami-win.c looks for now and then.
UserBreaks(t) ==
    /\ port = <<>> /\ breaks < MaxBreaks
    /\ breaks' = breaks + 1
    /\ signal' = [signal EXCEPT ![t] = @ \cup {"SIGBREAKF_CTRL_C"}]
    /\ UNCHANGED <<countVars, proxyVars, pc, posts, missed, overwritten>>

\* uae_sem_wait and uae_sem_trywait when the count allows it
Take(t) ==
    /\ Unlocked /\ live /\ Goto(t, "idle", "idle")
    /\ value > 0
    /\ value' = value - 1
    /\ UNCHANGED <<live, mutex, proxyVars, signal, histVars>>

\* uae_sem_wait otherwise: the mutex is given back before BlockMe
WaitBegin(t) ==
    /\ Unlocked /\ live /\ value <= 0
    /\ Goto(t, "idle", "blocking")
    /\ UNCHANGED <<countVars, proxyVars, signal, histVars>>

\* wait_proxy_reply: an answer counts more than a break; both are forgotten.
Answered(t) == signal[t] # {}
Reply(t) == "PROXY_MSG_REPLY_SIG" \in signal[t]
Forget(t) == signal' = [signal EXCEPT ![t] = {}]

\* BlockMe up to its Wait.  With a break pending the Wait returns before the
\* proxy can run, and the message is taken back from the proxy's port.
BlockMe(t) ==
    /\ IF Answered(t) THEN /\ Goto(t, "blocking", "broken")
                           /\ Forget(t) /\ UNCHANGED port
                      ELSE /\ Goto(t, "blocking", "asleep")
                           /\ port' = Append(port, Msg("BLOCK", t))
                           /\ UNCHANGED signal
    /\ UNCHANGED <<countVars, linkVars, histVars>>

\* The tasks whose BLOCK message the proxy has read and not answered: it is on
\* the list, or DESTROY has taken it off.
Held == {t \in Threads : pc[t] = "asleep" /\ ~Reply(t) /\ Msg("BLOCK", t) \notin Range(port)}

\* Mutant: a broken wait leaves its request where it is.
MutRemoveRequest(t) == UNCHANGED <<linkVars, overwritten>>

\* Remove in a broken BlockMe.  A message that DESTROY has taken off already is
\* unlinked once more: the header gets the one that came behind it then, which
\* may be gone, and whoever has come since is off the list.
RemoveRequest(t) ==
    /\ Unlink(t)
    /\ overwritten' = overwritten \cup ({succ[t], pred[t]} \ (Held \cup {None}))

\* An answered message is on no list, and goes with its stack frame.
Forgotten(t) == succ' = [succ EXCEPT ![t] = None] /\ pred' = [pred EXCEPT ![t] = None]

\* the rest of BlockMe
WaitAnswered(t) ==
    /\ Answered(t)
    /\ Goto(t, "asleep", IF Reply(t) THEN "woken" ELSE "broken")
    /\ Forget(t)
    /\ IF Reply(t) THEN Forgotten(t) /\ UNCHANGED overwritten ELSE RemoveRequest(t)
    /\ UNCHANGED <<countVars, port, posts, breaks, missed>>

\* the end of uae_sem_wait: the count is not looked at again
WaitEnd(t) ==
    /\ Unlocked
    /\ \/ Goto(t, "woken", "idle") /\ value' = value - 1
       \/ Goto(t, "broken", "idle") /\ UNCHANGED value
    /\ UNCHANGED <<live, mutex, proxyVars, signal, histVars>>

\* uae_sem_post: only the step from 0 to 1 asks the proxy
PostBegin(t) ==
    /\ Unlocked /\ live /\ posts < MaxPosts
    /\ value' = value + 1
    /\ posts' = posts + 1
    /\ missed' = (\/ missed
                  \/ \E u \in Threads : pc[u] = "blocking"
                  \/ value' > 1 /\ Held # {})
    /\ IF value' = 1
       THEN /\ Goto(t, "idle", "posting")
            /\ mutex' = t
            /\ port' = Append(port, Msg("UNBLOCK", t))
       ELSE Goto(t, "idle", "idle") /\ UNCHANGED <<mutex, port>>
    /\ UNCHANGED <<live, linkVars, signal, breaks, overwritten>>

\* uae_sem_destroy, which is called once: whoever owns a semaphore destroys it
\* when it is done with it (commpipe.h:49-51, traps.c:419-420, bsdsocket.c:889)
DestroyBegin(t) ==
    /\ Unlocked /\ live
    /\ Goto(t, "idle", "destroying")
    /\ live' = FALSE /\ mutex' = t
    /\ port' = Append(port, Msg("DESTROY", t))
    /\ UNCHANGED <<value, linkVars, signal, histVars>>

\* UnblockOne or Destroy goes on, for an answer or for a break
RequestEnd(t) ==
    /\ Answered(t)
    /\ Goto(t, pc[t], "idle") /\ pc[t] \in {"posting", "destroying"}
    /\ Forget(t)
    /\ mutex' = None
    /\ UNCHANGED <<value, live, proxyVars, histVars>>

-----------------------------------------------------------------------------
\* proxy_thread_main, one message
Handle(type) == port # <<>> /\ Head(port).type = type /\ port' = Tail(port)
do_proxy_reply(ts) ==
    signal' = [t \in Threads |->
                 signal[t] \cup IF t \in ts THEN {"PROXY_MSG_REPLY_SIG"} ELSE {}]

HandleBlock ==
    /\ Handle("BLOCK")
    /\ AddTail(Head(port).from)
    /\ UNCHANGED <<countVars, signal, pc, histVars>>

\* Mutant: the poster is answered and the sleeper forgotten.
MutHandleUnblockForgets ==
    /\ Handle("UNBLOCK")
    /\ do_proxy_reply({Head(port).from})
    /\ UNCHANGED <<linkVars, countVars, pc, histVars>>

\* Mutant: with nobody to wake, the poster is not answered either.
MutHandleUnblockSilent ==
    /\ Handle("UNBLOCK")
    /\ \/ succ[None] = None /\ UNCHANGED <<linkVars, signal>>
       \/ \E t \in Threads : RemHead(t) /\ do_proxy_reply({Head(port).from, t})
    /\ UNCHANGED <<countVars, pc, histVars>>

HandleUnblock ==
    /\ Handle("UNBLOCK")
    /\ \/ /\ succ[None] = None
          /\ do_proxy_reply({Head(port).from}) /\ UNCHANGED linkVars
       \/ \E t \in Threads : RemHead(t) /\ do_proxy_reply({Head(port).from, t})
    /\ UNCHANGED <<countVars, pc, histVars>>

\* Every sleeper is taken off with RemHead and broken, but not answered: each was
\* the first one when its turn came, so it names the header before it, and the
\* one that was behind it after it.
HandleDestroy ==
    /\ Handle("DESTROY")
    /\ \E q \in Orders :
          /\ IsList(q)
          /\ succ' = [succ EXCEPT ![None] = None]
          /\ pred' = [n \in Nodes |-> IF n \in Range(q) \cup {None} THEN None ELSE pred[n]]
          /\ signal' = [t \in Threads |->
                IF t = Head(port).from THEN signal[t] \cup {"PROXY_MSG_REPLY_SIG"}
                ELSE IF t \in Range(q) THEN signal[t] \cup {"SIGBREAKF_CTRL_C"}
                ELSE signal[t]]
    /\ UNCHANGED <<countVars, pc, histVars>>

Proxy == HandleBlock \/ HandleUnblock \/ HandleDestroy
Step(t) == \/ Take(t) \/ WaitBegin(t) \/ BlockMe(t) \/ WaitAnswered(t) \/ WaitEnd(t)
           \/ PostBegin(t) \/ DestroyBegin(t) \/ RequestEnd(t) \/ UserBreaks(t)
SemNext == Proxy \/ \E t \in Threads : Step(t)

SemSpec == SemInit /\ [][SemNext]_amigaVars

\* The proxy runs above every task (NP_Priority 10), and a task that was
\* answered is scheduled again.
SemFairSpec == SemSpec /\ WF_amigaVars(Proxy) /\ \A t \in Threads : WF_amigaVars(RequestEnd(t))
-----------------------------------------------------------------------------
(***************************************************************************)
(* Properties.                                                             *)
(***************************************************************************)

\* The count never exceeds what was posted.  It can fall below zero, because a
\* woken task takes its unit without looking whether another was faster, but
\* by less than one per task.
SemTypeOK ==
    /\ value \in (1 - Cardinality(Threads)) .. (Initial + MaxPosts)
    /\ live \in BOOLEAN /\ mutex \in Threads \cup {None}
    /\ succ \in [Nodes -> Nodes] /\ pred \in [Nodes -> Nodes]
    /\ port \in Seq([type : MsgType, from : Threads])
    /\ signal \in [Threads -> SUBSET Signals] /\ pc \in [Threads -> PC]
    /\ posts \in 0 .. MaxPosts /\ breaks \in 0 .. MaxBreaks

\* A message is on its sender's stack, so the proxy must have let go of it when
\* the sender goes on, however breaks and answers fall together.  What the port
\* refers to belongs to a task still inside BlockMe, UnblockOne or Destroy, and to
\* one such call.  While the semaphore lives the list is whole, it is the tasks
\* whose BLOCK was read and neither answered nor given up, and no stack that was
\* left has been written to.  Once it is destroyed its sleepers break the list:
\* they write to a stack that was left, and the header's lh_Head may name that.
\* No other link that Remove or AddTail will write through does.
NoDanglingMessage ==
    /\ SemTypeOK
    /\ \A i \in DOMAIN port :
          /\ pc[port[i].from] \in {"asleep", "posting", "destroying"} /\ ~Reply(port[i].from)
          /\ \A j \in DOMAIN port : port[j].from = port[i].from => j = i
    /\ live => overwritten = {} /\ \E q \in Orders : IsList(q) /\ Range(q) = Held
    /\ \A n \in Held \cup {None} : pred[n] \in Held \cup {None}
    /\ succ[None] \in Held \cup {None} \cup overwritten

\* At most one task is let through per post that lifts the count to 1: tasks on
\* their way out of BlockMe never outnumber the posts.
LetThrough == {t \in Threads : pc[t] = "woken" \/ (pc[t] = "asleep" /\ Reply(t))}

\* "Simple emulation of POSIX semaphores": nobody sleeps on a semaphore that
\* could be taken, unless somebody is about to take it.
Quiet == port = <<>> /\ \A t \in Threads : pc[t] \in {"idle", "asleep"} /\ ~Answered(t)
NobodySleepsOnAvailable == Quiet /\ live /\ Held # {} => value <= 0

\* Wake-ups and posts agree: no more tasks are let through than there were posts,
\* and a task sleeps on an available semaphore only if a post was missed: made
\* between a task's look at the count and its BLOCK message, or while the task
\* that the last post woke has not taken its unit yet, so that the count is not 0.
WakesMatchPosts ==
    /\ Cardinality(LetThrough) <= posts
    /\ NobodySleepsOnAvailable \/ missed

\* A poster keeps the mutex while it waits for the proxy; it gets its answer.
RequestsEnd ==
    \A t \in Threads : (pc[t] \in {"posting", "destroying"}) ~> (pc[t] = "idle")
=============================================================================
