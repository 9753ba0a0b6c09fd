---------------------------- MODULE MachineProofs ----------------------------
(***************************************************************************)
(* For pipes of any size and any number of keys, clicks and failures: what *)
(* the window shows is what the machine does once the pipes are empty, and *)
(* a stop or a quit stands.                                                *)
(*                                                                         *)
(* What is in a pipe and the write the sender is in are one queue.  The    *)
(* last state in the reports' queue is the machine's.  Where Pause says    *)
(* something else than the buttons around it, the user has pressed it: the *)
(* request is the last of its kind among the answers, or the emulator has  *)
(* taken it and has yet a change to make.                                  *)
(***************************************************************************)
EXTENDS Machine, TLAPS

Reports == to_gui_pipe \o out
Answers == from_gui_pipe \o gout

Types ==
    /\ uae_state \in States /\ uae_target_state \in Targets
    /\ restart_program \in {0, 1, 3} /\ pc \in PC
    /\ box \in {"none", "asked", "shown", "posted", "closed"}
    /\ out \in Seq(ToGui) /\ Len(out) <= 1
    /\ to_gui_pipe \in Seq(ToGui) /\ Len(to_gui_pipe) <= ToSize
    /\ gout \in Seq(Commands) /\ Len(gout) <= 1
    /\ from_gui_pipe \in Seq(Commands) /\ Len(from_gui_pipe) <= FromSize
    /\ gpc \in {"loop", "my_idle"} /\ shown \in States
    /\ gui_window \in BOOLEAN /\ pressed \in BOOLEAN
    /\ gui_available \in BOOLEAN /\ start_gui \in BOOLEAN
    /\ inputs \in 0 .. MaxInputs
    /\ ~gui_available => ~gui_window

\* What the states can be at each place of real_main.
Places ==
    /\ pc \in {"top", "exit"} => uae_target_state \in {"stopped", "quitting"}
    /\ pc \in {"config", "gui", "gui_check", "chosen", "init"} => uae_state = "stopped"
    /\ pc \in {"init", "cycle"} => uae_target_state \in {"cold_start", "warm_start", "stopped", "quitting"}
    /\ pc = "reset" => uae_state \in {"cold_start", "warm_start"}
    /\ pc = "enter" => uae_target_state = "running"
    /\ pc \in {"run", "frame", "redraw", "left"} => uae_state = "running"
    /\ pc = "left" => uae_target_state # "running"
    /\ pc \in {"paused", "paused_keys"} => uae_state = "paused"

NoState(q) == \A i \in DOMAIN q : q[i].cmd # "state"
LastState(q, i) == /\ i \in DOMAIN q /\ q[i].cmd = "state"
                   /\ \A j \in DOMAIN q : j > i => q[j].cmd # "state"

\* The window has been told the machine's state, or is about to be.
Announced ==
    /\ ~gui_available => NoState(Reports)
    /\ \A i : LastState(Reports, i) => Reports[i].state = uae_state
    /\ gui_window /\ NoState(Reports) => shown = uae_state

\* Where Pause is pressed in or out by the user alone, its request is the last
\* of its kind on the way, or a change is to come.
Asks(p) == IF p THEN "pause" ELSE "resume"
Unasks(p) == IF p THEN "resume" ELSE "pause"
LastAsks(q, p) == \A i \in DOMAIN q : q[i] = Unasks(p) => \E j \in DOMAIN q : j > i /\ q[j] = Asks(p)
Has(q, c) == \E i \in DOMAIN q : q[i] = c
Differs == gui_window /\ pressed # (shown = "paused")

Asked ==
    Differs =>
      /\ shown \in {"running", "paused"} /\ LastAsks(Answers, pressed)
      /\ NoState(Reports) /\ ~Has(Answers, Asks(pressed)) => uae_target_state # uae_state

\* A message box is asked for at a few places, and nothing is reported while it
\* is up.
Boxes ==
    /\ box # "none" => pc \in {"init", "reset", "run"}
    /\ \A i \in DOMAIN Reports : Reports[i].cmd = "msgbox" => box = "asked" /\ i = Len(Reports)

IInv == Types /\ Places /\ Announced /\ Asked /\ Boxes

-----------------------------------------------------------------------------
(* A pipe and the write to it are one queue: s the pipe, t the write.      *)

\* A write begins.
LEMMA Begun ==
  ASSUME NEW S, NEW s \in Seq(S), NEW t, t = <<>>, NEW x \in S
  PROVE  s \o <<x>> = Append(s \o t, x)
<1>1. s \o t = s
  OBVIOUS
<1> QED
  BY <1>1

\* A write ends.
LEMMA Written ==
  ASSUME NEW S, NEW s \in Seq(S), NEW t \in Seq(S), t # <<>>, Len(t) <= 1
  PROVE  Append(s, Head(t)) \o Tail(t) = s \o t
<1>0. Len(t) = 1 /\ Len(s) \in Nat
  <2>1. Len(t) \in Nat /\ Len(s) \in Nat
    OBVIOUS
  <2>2. Len(t) # 0
    OBVIOUS
  <2>3. \A n \in Nat : n # 0 /\ n <= 1 => n = 1
    OBVIOUS
  <2> QED
    BY ONLY <2>1, <2>2, <2>3, Len(t) <= 1, Zenon
<1>1. Head(t) = t[1] /\ t[1] \in S /\ Tail(t) \in Seq(S) /\ Len(Tail(t)) = 0
  BY <1>0
<1>2. Append(s, t[1]) \in Seq(S) /\ Len(Append(s, t[1])) = Len(s) + 1
  BY <1>1
<1> DEFINE a == Append(s, t[1])
<1>3. a \o Tail(t) \in Seq(S) /\ Len(a \o Tail(t)) = Len(s) + 1
  <2> HIDE DEF a
  <2>1. a \in Seq(S) /\ Len(a) = Len(s) + 1
    BY <1>2 DEF a
  <2>2. a \o Tail(t) \in Seq(S) /\ Len(a \o Tail(t)) = Len(a) + Len(Tail(t))
    BY <1>1, <2>1
  <2> QED
    <3>1. \A n \in Nat : (n + 1) + 0 = n + 1
      OBVIOUS
    <3> QED
      BY ONLY <1>0, <1>1, <2>1, <2>2, <3>1, Zenon
<1>4. s \o t \in Seq(S) /\ Len(s \o t) = Len(s) + 1
  <2>1. s \o t \in Seq(S) /\ Len(s \o t) = Len(s) + Len(t)
    OBVIOUS
  <2> QED
    BY <1>0, <2>1
<1>5. \A i \in 1 .. Len(s) + 1 : (a \o Tail(t))[i] = a[i] /\ a[i] = (s \o t)[i]
  BY <1>0, <1>1, <1>2
<1> HIDE DEF a
<1>6. a \o Tail(t) = s \o t
  BY <1>0, <1>3, <1>4, <1>5
<1> QED
  BY <1>1, <1>6 DEF a

\* A read.
LEMMA Taken ==
  ASSUME NEW S, NEW s \in Seq(S), NEW t \in Seq(S), s # <<>>
  PROVE  /\ Tail(s) \o t = Tail(s \o t) /\ s \o t \in Seq(S) /\ s \o t # <<>> /\ Head(s) = (s \o t)[1]
<1>1. Len(s) \in Nat /\ Len(s) >= 1 /\ Len(t) \in Nat
  OBVIOUS
<1>2. s \o t \in Seq(S) /\ Len(s \o t) = Len(s) + Len(t) /\ s \o t # <<>> /\ (s \o t)[1] = s[1]
  BY <1>1
<1>3. /\ Len(Tail(s) \o t) = Len(s) - 1 + Len(t)
      /\ Len(Tail(s \o t)) = Len(s) + Len(t) - 1
  BY <1>1, <1>2
<1>4. \A i \in 1 .. Len(s) + Len(t) - 1 : (Tail(s) \o t)[i] = Tail(s \o t)[i]
  BY <1>1, <1>2
<1>5. Tail(s) \o t \in Seq(S) /\ Tail(s \o t) \in Seq(S)
  BY <1>1, <1>2
<1>6. Tail(s) \o t = Tail(s \o t)
  BY <1>1, <1>3, <1>4, <1>5
<1> QED
  BY <1>1, <1>2, <1>6

\* A queue with one more, and with one less.
LEMMA Longer ==
  ASSUME NEW S, NEW q \in Seq(S), NEW x \in S
  PROVE  /\ Append(q, x) \in Seq(S) /\ Len(q) \in Nat
         /\ DOMAIN q = 1 .. Len(q) /\ DOMAIN Append(q, x) = 1 .. Len(q) + 1
         /\ \A i \in 1 .. Len(q) : Append(q, x)[i] = q[i]
         /\ Append(q, x)[Len(q) + 1] = x
OBVIOUS

\* What is left of a queue whose first element is taken.
LEMMA Shorter ==
  ASSUME NEW S, NEW q \in Seq(S), q # <<>>
  PROVE  /\ Tail(q) \in Seq(S) /\ Len(q) \in Nat /\ Len(q) >= 1 /\ Len(Tail(q)) = Len(q) - 1
         /\ DOMAIN q = 1 .. Len(q) /\ DOMAIN Tail(q) = 1 .. Len(q) - 1
         /\ \A i \in 1 .. Len(q) - 1 : Tail(q)[i] = q[i + 1]
OBVIOUS

\* Reports written and read.
LEMMA ReportsGrow ==
  ASSUME NEW S, NEW q \in Seq(S), NEW x \in S
  PROVE  /\ NoState(Append(q, x)) <=> (NoState(q) /\ x.cmd # "state")
         /\ x.cmd = "state" => \A i : LastState(Append(q, x), i) => Append(q, x)[i] = x
         /\ x.cmd # "state" => \A i : LastState(Append(q, x), i) => LastState(q, i) /\ Append(q, x)[i] = q[i]
<1> DEFINE r == Append(q, x)
<1>1. /\ Len(q) \in Nat /\ DOMAIN q = 1 .. Len(q) /\ DOMAIN r = 1 .. Len(q) + 1
      /\ \A i \in 1 .. Len(q) : r[i] = q[i]
      /\ r[Len(q) + 1] = x
  BY Longer
<1> HIDE DEF r
<1>2. NoState(r) <=> (NoState(q) /\ x.cmd # "state")
  BY <1>1 DEF NoState
<1>3. ASSUME NEW i, LastState(r, i)
      PROVE  /\ x.cmd = "state" => r[i] = x
             /\ x.cmd # "state" => LastState(q, i) /\ r[i] = q[i]
  <2>1. i \in 1 .. Len(q) + 1 /\ Len(q) + 1 \in DOMAIN r
    BY <1>1, <1>3 DEF LastState
  <2>2. CASE x.cmd = "state"
    BY <1>1, <1>3, <2>1, <2>2 DEF LastState
  <2>3. CASE x.cmd # "state"
    BY <1>1, <1>3, <2>1, <2>3 DEF LastState
  <2> QED
    BY <2>2, <2>3
<1> QED
  BY <1>2, <1>3 DEF r

\* When the window takes the first report, the last state of the queue stays
\* the last; only where that report was the last state is none left.
LEMMA ReportsShrink ==
  ASSUME NEW S, NEW q \in Seq(S), q # <<>>
  PROVE  /\ \A i : LastState(Tail(q), i) => LastState(q, i + 1) /\ Tail(q)[i] = q[i + 1]
         /\ q[1].cmd # "state" => (NoState(Tail(q)) <=> NoState(q))
         /\ q[1].cmd = "state" /\ NoState(Tail(q)) => LastState(q, 1)
<1> DEFINE r == Tail(q)
<1>1. /\ Len(q) \in Nat /\ Len(q) >= 1 /\ DOMAIN q = 1 .. Len(q) /\ DOMAIN r = 1 .. Len(q) - 1
      /\ \A i \in 1 .. Len(q) - 1 : r[i] = q[i + 1]
  BY Shorter
<1> HIDE DEF r
<1>2. \A i \in DOMAIN q : i = 1 \/ (i - 1 \in DOMAIN r /\ r[i - 1] = q[i])
  BY <1>1
<1>3. ASSUME NEW i, LastState(r, i) PROVE LastState(q, i + 1) /\ r[i] = q[i + 1]
  <2>1. i \in 1 .. Len(q) - 1 /\ r[i] = q[i + 1] /\ i + 1 \in DOMAIN q
    BY <1>1, <1>3 DEF LastState
  <2>2. ASSUME NEW j \in DOMAIN q, j > i + 1 PROVE q[j].cmd # "state"
    <3>1. j - 1 \in DOMAIN r /\ r[j - 1] = q[j] /\ j - 1 > i
      BY <1>1, <2>1, <2>2
    <3> QED
      BY <1>3, <3>1 DEF LastState
  <2> QED
    BY <1>3, <2>1, <2>2 DEF LastState
<1>4. ASSUME q[1].cmd # "state" PROVE NoState(r) <=> NoState(q)
  <2>1. \A i \in DOMAIN r : i + 1 \in DOMAIN q /\ r[i] = q[i + 1]
    BY <1>1
  <2> QED
    BY <1>2, <1>4, <2>1 DEF NoState
<1>5. ASSUME q[1].cmd = "state", NoState(r) PROVE LastState(q, 1)
  <2>1. 1 \in DOMAIN q /\ \A j \in DOMAIN q : j > 1 => j - 1 \in DOMAIN r /\ r[j - 1] = q[j]
    BY <1>1
  <2> QED
    BY <1>5, <2>1 DEF NoState, LastState
<1> QED
  BY <1>3, <1>4, <1>5 DEF r

\* Answers written and read.
LEMMA AnswersGrow ==
  ASSUME NEW S, NEW q \in Seq(S), NEW x \in S, NEW p \in BOOLEAN
  PROVE  /\ LastAsks(q, p) /\ x # Unasks(p) => LastAsks(Append(q, x), p)
         /\ x = Asks(p) => LastAsks(Append(q, x), p) /\ Has(Append(q, x), Asks(p))
         /\ \A c : Has(q, c) => Has(Append(q, x), c)
<1> DEFINE r == Append(q, x)
<1>1. /\ Len(q) \in Nat /\ DOMAIN q = 1 .. Len(q) /\ DOMAIN r = 1 .. Len(q) + 1
      /\ \A i \in 1 .. Len(q) : r[i] = q[i]
      /\ r[Len(q) + 1] = x
  BY Longer
<1> HIDE DEF r
<1>2. \A i \in DOMAIN q : i \in DOMAIN r /\ r[i] = q[i]
  BY <1>1
<1>3. \A i \in DOMAIN r : i \in DOMAIN q \/ (i = Len(q) + 1 /\ r[i] = x)
  BY <1>1
<1>4. ASSUME LastAsks(q, p), x # Unasks(p) PROVE LastAsks(r, p)
  <2> SUFFICES ASSUME NEW i \in DOMAIN r, r[i] = Unasks(p)
               PROVE  \E j \in DOMAIN r : j > i /\ r[j] = Asks(p)
    BY DEF LastAsks
  <2>1. i \in DOMAIN q /\ q[i] = Unasks(p)
    BY <1>2, <1>3, <1>4
  <2>2. PICK j \in DOMAIN q : j > i /\ q[j] = Asks(p)
    BY <1>4, <2>1 DEF LastAsks
  <2> QED
    BY <1>2, <2>2
<1>5. ASSUME x = Asks(p) PROVE LastAsks(r, p) /\ Has(r, Asks(p))
  <2>1. Len(q) + 1 \in DOMAIN r /\ r[Len(q) + 1] = Asks(p) /\ Asks(p) # Unasks(p)
    BY <1>1, <1>5 DEF Asks, Unasks
  <2>2. \A i \in DOMAIN r : r[i] = Unasks(p) => Len(q) + 1 > i
    BY <1>1, <2>1
  <2> QED
    BY <2>1, <2>2 DEF LastAsks, Has
<1>6. \A c : Has(q, c) => Has(r, c)
  BY <1>2 DEF Has
<1> QED
  BY <1>4, <1>5, <1>6 DEF r

\* When the emulator takes the first command, the last request of its kind
\* stays the last, unless it was the one taken.
LEMMA AnswersShrink ==
  ASSUME NEW S, NEW q \in Seq(S), q # <<>>, NEW p \in BOOLEAN, LastAsks(q, p)
  PROVE  /\ LastAsks(Tail(q), p)
         /\ q[1] = Unasks(p) => Has(Tail(q), Asks(p))
         /\ Has(q, Asks(p)) => q[1] = Asks(p) \/ Has(Tail(q), Asks(p))
<1> DEFINE r == Tail(q)
<1>1. /\ Len(q) \in Nat /\ Len(q) >= 1 /\ DOMAIN q = 1 .. Len(q) /\ DOMAIN r = 1 .. Len(q) - 1
      /\ \A i \in 1 .. Len(q) - 1 : r[i] = q[i + 1]
  BY Shorter
<1> HIDE DEF r
<1>2. \A i \in DOMAIN q : i = 1 \/ (i > 1 /\ i - 1 \in DOMAIN r /\ r[i - 1] = q[i])
  BY <1>1
<1>3. \A i \in DOMAIN r : i + 1 \in DOMAIN q /\ r[i] = q[i + 1] /\ i + 1 > 1
  BY <1>1
<1>4. ASSUME NEW i \in DOMAIN q, q[i] = Unasks(p)
      PROVE  \E j \in DOMAIN r : j > i - 1 /\ r[j] = Asks(p)
  <2>1. PICK j \in DOMAIN q : j > i /\ q[j] = Asks(p)
    BY <1>4 DEF LastAsks
  <2>2. j - 1 \in DOMAIN r /\ r[j - 1] = q[j] /\ j - 1 > i - 1
    BY <1>1, <1>2, <2>1
  <2> QED
    BY <2>1, <2>2
<1>5. LastAsks(r, p)
  <2> SUFFICES ASSUME NEW i \in DOMAIN r, r[i] = Unasks(p)
               PROVE  \E j \in DOMAIN r : j > i /\ r[j] = Asks(p)
    BY DEF LastAsks
  <2>1. i + 1 \in DOMAIN q /\ q[i + 1] = Unasks(p) /\ (i + 1) - 1 = i
    BY <1>1, <1>3
  <2> QED
    BY <1>4, <2>1
<1>6. q[1] = Unasks(p) => Has(r, Asks(p))
  <2>1. 1 \in DOMAIN q
    BY <1>1
  <2> QED
    BY <1>4, <2>1 DEF Has
<1>7. Has(q, Asks(p)) => q[1] = Asks(p) \/ Has(r, Asks(p))
  BY <1>2 DEF Has
<1> QED
  BY <1>5, <1>6, <1>7 DEF r

-----------------------------------------------------------------------------
(* What steps do to the two queues                                         *)

\* What is on its way, a write that is not finished included, is a queue.
LEMMA Queues == Types => Reports \in Seq(ToGui) /\ Answers \in Seq(Commands)
BY DEF Types, Reports, Answers

\* A step that neither writes nor reads a whole element, and makes no change
\* of a request that the machine has yet to follow.
LEMMA Quiet ==
  ASSUME IInv, Reports' = Reports, Answers' = Answers,
         UNCHANGED <<uae_state, gui_window, shown, pressed, gui_available>>,
         uae_state \in {"running", "paused"} /\ uae_target_state' = uae_state
           => uae_target_state = uae_state
  PROVE  Announced' /\ Asked'
<1>1. Announced'
  BY DEF IInv, Announced, NoState, LastState
<1>2. Asked'
  <2> SUFFICES ASSUME Differs'
               PROVE  /\ shown \in {"running", "paused"} /\ LastAsks(Answers, pressed)
                      /\ NoState(Reports) /\ ~Has(Answers, Asks(pressed)) => uae_target_state' # uae_state
    BY DEF Asked, LastAsks, NoState, Has, Asks, Unasks
  <2>1. Differs
    BY DEF Differs
  <2>2. NoState(Reports) => shown = uae_state
    BY <2>1 DEF IInv, Announced, Differs
  <2> QED
    BY <2>1, <2>2 DEF IInv, Asked
<1> QED
  BY <1>1, <1>2

\* The emulator begins to write something else than a state.
LEMMA Notes ==
  ASSUME IInv, NEW m \in ToGui, m.cmd # "state", out = <<>>, out' = <<m>>,
         UNCHANGED <<to_gui_pipe, from_gui_pipe, guiVars, fixedVars, uae_state>>,
         uae_state \in {"running", "paused"} /\ uae_target_state' = uae_state
           => uae_target_state = uae_state
  PROVE  out' \in Seq(ToGui) /\ Len(out') <= 1 /\ Announced' /\ Asked'
<1>1. Reports \in Seq(ToGui) /\ to_gui_pipe \in Seq(ToGui)
  BY Queues DEF IInv, Types
<1>2. Reports' = Append(Reports, m)
  BY <1>1, Begun DEF Reports
<1>3. /\ NoState(Append(Reports, m)) <=> NoState(Reports)
      /\ \A i : LastState(Append(Reports, m), i) => LastState(Reports, i) /\ Append(Reports, m)[i] = Reports[i]
  BY <1>1, ReportsGrow, Zenon
<1>4. /\ Answers' = Answers /\ gui_window' = gui_window /\ shown' = shown /\ pressed' = pressed
      /\ gui_available' = gui_available
  BY DEF Answers, guiVars, fixedVars
<1>5. Announced'
  <2> DEFINE r == Append(Reports, m)
  <2>1. /\ ~gui_available => NoState(r)
        /\ \A i : LastState(r, i) => r[i].state = uae_state
        /\ gui_window /\ NoState(r) => shown = uae_state
    BY <1>3 DEF IInv, Announced
  <2> HIDE DEF r
  <2>2. Reports' = r
    BY <1>2 DEF r
  <2>3. (NoState(Reports))' <=> NoState(r)
    BY <2>2 DEF NoState
  <2>4. \A i : (LastState(Reports, i))' <=> LastState(r, i)
    BY <2>2 DEF LastState
  <2> QED
    BY <1>4, <2>1, <2>2, <2>3, <2>4 DEF Announced
<1>6. Asked'
  <2> SUFFICES ASSUME Differs'
               PROVE  /\ shown \in {"running", "paused"} /\ LastAsks(Answers, pressed)
                      /\ NoState(Reports) /\ ~Has(Answers, Asks(pressed)) => uae_target_state' # uae_state
    BY <1>2, <1>3, <1>4 DEF Asked, LastAsks, NoState, Has, Asks, Unasks
  <2>1. Differs
    BY <1>4 DEF Differs
  <2>2. NoState(Reports) => shown = uae_state
    BY <2>1 DEF IInv, Announced, Differs
  <2> QED
    BY <2>1, <2>2 DEF IInv, Asked
<1>7. out' \in Seq(ToGui) /\ Len(out') <= 1
  OBVIOUS
<1> QED
  BY <1>5, <1>6, <1>7

\* It changes uae_state, and begins to say so when there is somebody to tell.
LEMMA SetState ==
  ASSUME IInv, NEW s \in States, Free, set_state(s),
         UNCHANGED <<to_gui_pipe, from_gui_pipe, guiVars, fixedVars>>
  PROVE  out' \in Seq(ToGui) /\ Len(out') <= 1 /\ Announced' /\ Asked'
<1> DEFINE m == [cmd |-> "state", state |-> s]
           r == Append(Reports, m)
<1>1. Reports \in Seq(ToGui) /\ to_gui_pipe \in Seq(ToGui) /\ out = <<>> /\ uae_state' = s
  BY Queues DEF IInv, Types, Free, set_state
<1>2. /\ Answers' = Answers /\ gui_window' = gui_window /\ shown' = shown /\ pressed' = pressed
      /\ gui_available' = gui_available
  BY DEF Answers, guiVars, fixedVars
<1>3. m \in ToGui /\ m.cmd = "state" /\ m.state = s
  BY DEF ToGui
<1>4. CASE gui_available
  <2>1. out' = <<m>>
    BY <1>4 DEF set_state
  <2> HIDE DEF m
  <2>2. Reports' = r
    BY <1>1, <1>3, <2>1, Begun DEF Reports
  <2>3. ~NoState(r) /\ \A i : LastState(r, i) => r[i] = m
    <3>1. m \in ToGui /\ m.cmd = "state"
      BY <1>3
    <3>2. ~NoState(Append(Reports, m))
      BY ONLY <1>1, <3>1, ReportsGrow, Zenon
    <3>3. \A i : LastState(Append(Reports, m), i) => Append(Reports, m)[i] = m
      <4> HIDE DEF r
      <4>1. m.cmd = "state" => \A i : LastState(Append(Reports, m), i) => Append(Reports, m)[i] = m
        BY ONLY <1>1, <3>1, ReportsGrow, Zenon
      <4> QED
        BY <3>1, <4>1, Zenon
    <3> QED
      BY <3>2, <3>3, Zenon
  <2> HIDE DEF r
  <2>4. (NoState(Reports))' <=> NoState(r)
    BY <2>2 DEF NoState
  <2>5. \A i : (LastState(Reports, i))' <=> LastState(r, i)
    BY <2>2 DEF LastState
  <2>6. Announced'
    BY <1>1, <1>2, <1>3, <1>4, <2>2, <2>3, <2>4, <2>5 DEF Announced
  <2>7. Asked'
    <3> SUFFICES ASSUME Differs'
                 PROVE  /\ shown \in {"running", "paused"} /\ LastAsks(Answers, pressed)
      BY <1>2, <2>3, <2>4 DEF Asked, LastAsks, Asks, Unasks
    <3>1. Differs
      BY <1>2 DEF Differs
    <3> QED
      BY <3>1 DEF IInv, Asked
  <2> QED
    BY <1>3, <2>1, <2>6, <2>7
<1>5. CASE ~gui_available
  <2>1. out' = out /\ Reports' = Reports /\ ~gui_window
    BY <1>5 DEF set_state, Reports, IInv, Types
  <2>2. (NoState(Reports))' <=> NoState(Reports)
    BY <2>1 DEF NoState
  <2>3. \A i : (LastState(Reports, i))' <=> LastState(Reports, i)
    BY <2>1 DEF LastState
  <2>4. \A i : ~LastState(Reports, i)
    BY <1>5 DEF IInv, Announced, NoState, LastState
  <2> QED
    BY <1>1, <1>2, <1>5, <2>1, <2>2, <2>3, <2>4 DEF IInv, Types, Announced, Asked, Differs
<1> QED
  BY <1>4, <1>5

\* None of these steps asks for a message box.
LEMMA BoxesStay ==
  ASSUME IInv, Reports' = Reports, box' = box, pc' = pc \/ box = "none"
  PROVE  Boxes'
BY DEF IInv, Boxes

\* A new state, window or LED on its way leaves what is known of a box true.
LEMMA BoxesGrow ==
  ASSUME IInv, Free, set_state(uae_state') \/ out' = <<[cmd |-> "show"]>> \/ out' = <<[cmd |-> "leds"]>>,
         uae_state' \in States, UNCHANGED <<box, to_gui_pipe>>
  PROVE  Boxes'
<1>1. box' = "none" /\ out = <<>> /\ to_gui_pipe \in Seq(ToGui)
  BY DEF Free, IInv, Types
<1>2. Reports = to_gui_pipe
  BY <1>1 DEF Reports
<1>3. \A i \in DOMAIN Reports : Reports[i].cmd # "msgbox"
  BY <1>1 DEF IInv, Boxes
<1>4. CASE out' = out
  <2>1. Reports' = Reports
    BY <1>4 DEF Reports
  <2> QED
    BY <1>1, <1>3, <2>1 DEF Boxes
<1>5. ASSUME NEW m \in ToGui, m.cmd # "msgbox", out' = <<m>> PROVE Boxes'
  <2>1. Reports' = Append(Reports, m)
    BY <1>1, <1>2, <1>5 DEF Reports
  <2>2. \A i \in DOMAIN Append(Reports, m) :
          Append(Reports, m)[i] = m \/ (i \in DOMAIN Reports /\ Append(Reports, m)[i] = Reports[i])
    BY <1>1, <1>2, <1>5, Longer
  <2>3. \A i \in DOMAIN Append(Reports, m) : Append(Reports, m)[i].cmd # "msgbox"
    BY <1>3, <1>5, <2>2, Zenon
  <2> QED
    BY <1>1, <2>1, <2>3 DEF Boxes
<1>6. /\ [cmd |-> "state", state |-> uae_state'] \in ToGui
      /\ [cmd |-> "show"] \in ToGui /\ [cmd |-> "leds"] \in ToGui
  BY DEF ToGui
<1> QED
  BY <1>4, <1>5, <1>6 DEF set_state

-----------------------------------------------------------------------------
(* The emulator                                                            *)

\* A report is in the pipe.
LEMMA WriteIInv == ASSUME IInv, Write PROVE IInv'
<1>1. /\ out # <<>> /\ Len(to_gui_pipe) < ToSize
      /\ to_gui_pipe' = Append(to_gui_pipe, Head(out)) /\ out' = Tail(out)
      /\ UNCHANGED <<stateVars, pc, box, from_gui_pipe, guiVars, fixedVars, inputs>>
  BY DEF Write
<1>2. out \in Seq(ToGui) /\ Len(out) <= 1 /\ to_gui_pipe \in Seq(ToGui)
  BY DEF IInv, Types
<1>3. /\ Head(out) \in ToGui /\ Tail(out) \in Seq(ToGui) /\ Len(Tail(out)) <= 1
      /\ Append(to_gui_pipe, Head(out)) \in Seq(ToGui)
      /\ Len(Append(to_gui_pipe, Head(out))) <= ToSize
  BY <1>1, <1>2, MachineAssumption DEF MachineAssumption
<1>4. Reports' = Reports
  BY <1>1, <1>2, Written DEF Reports
<1>5. Announced' /\ Asked'
  BY <1>1, <1>4, Quiet DEF Answers, guiVars, fixedVars, stateVars
<1>6. Types'
  BY <1>1, <1>3 DEF IInv, Types, guiVars, fixedVars, stateVars
<1>7. Places'
  BY <1>1 DEF IInv, Places, stateVars
<1>8. Boxes'
  BY <1>1, <1>4, BoxesStay
<1> QED
  BY <1>5, <1>6, <1>7, <1>8 DEF IInv

\* The outer loop starts over, or ends.
LEMMA TopIInv == ASSUME IInv, Top PROVE IInv'
<1>1. /\ pc = "top" /\ Free
      /\ UNCHANGED <<uae_target_state, restart_program, box, to_gui_pipe, from_gui_pipe, guiVars, fixedVars, inputs>>
  BY DEF Top, At
<1>2. uae_target_state \in {"stopped", "quitting"}
  BY <1>1 DEF IInv, Places
<1>3. CASE uae_target_state = "quitting"
  <2>1. pc' = "done" /\ UNCHANGED <<uae_state, out>>
    BY <1>3 DEF Top
  <2>2. Announced' /\ Asked'
    BY <1>1, <2>1, Quiet DEF Reports, Answers, guiVars, fixedVars
  <2>3. Types' /\ Places'
    BY <1>1, <2>1 DEF IInv, Types, Places, PC, guiVars, fixedVars
  <2>4. Boxes'
    BY <1>1, <2>1, BoxesStay DEF Free, Reports
  <2> QED
    BY <2>2, <2>3, <2>4 DEF IInv
<1>4. CASE uae_target_state = "stopped"
  <2>1. pc' = "config" /\ set_state("stopped")
    BY <1>4 DEF Top
  <2>2. out' \in Seq(ToGui) /\ Len(out') <= 1 /\ Announced' /\ Asked'
    BY <1>1, <2>1, SetState DEF States
  <2>3. Types'
    BY <1>1, <2>1, <2>2 DEF IInv, Types, PC, States, guiVars, fixedVars, set_state
  <2>4. Places'
    BY <1>1, <2>1 DEF Places, set_state
  <2>5. Boxes'
    BY <1>1, <2>1, BoxesGrow DEF set_state, States
  <2> QED
    BY <2>2, <2>3, <2>4, <2>5 DEF IInv
<1> QED
  BY <1>2, <1>3, <1>4

\* The window is asked for, or the start or the end decided without it.
LEMMA ConfigIInv == ASSUME IInv, Config PROVE IInv'
<1>1. /\ pc = "config" /\ Free /\ uae_state = "stopped"
      /\ UNCHANGED <<uae_state, box, to_gui_pipe, from_gui_pipe, guiVars, fixedVars, inputs>>
  BY DEF Config, At, IInv, Places
<1>2. \/ pc' = "gui" /\ out' = <<[cmd |-> "show"]>> /\ UNCHANGED <<uae_target_state, restart_program>>
      \/ pc' = "chosen" /\ restart_program' = 0 /\ uae_target_state' = "quitting" /\ UNCHANGED out
      \/ pc' = "chosen" /\ UNCHANGED <<uae_target_state, restart_program, out>>
  BY DEF Config, uae_quit
<1>3. out' \in Seq(ToGui) /\ Len(out') <= 1 /\ Announced' /\ Asked'
  <2>1. CASE out' = <<[cmd |-> "show"]>>
    <3> DEFINE m == [cmd |-> "show"]
    <3>1. m \in ToGui /\ m.cmd # "state"
      BY DEF ToGui
    <3> HIDE DEF m
    <3>2. out = <<>> /\ out' = <<m>>
      BY <1>1, <2>1 DEF Free, m
    <3> QED
      BY <1>1, <3>1, <3>2, Notes
  <2>2. CASE UNCHANGED out
    BY <1>1, <2>2, Quiet DEF IInv, Types, Reports, Answers, guiVars, fixedVars
  <2> QED
    BY <1>2, <2>1, <2>2
<1>4. Types'
  BY <1>1, <1>2, <1>3 DEF IInv, Types, PC, Targets, guiVars, fixedVars
<1>5. Places'
  BY <1>1, <1>2 DEF Places
<1>6. Boxes'
  <2>1. CASE out' = <<[cmd |-> "show"]>>
    BY <1>1, <2>1, BoxesGrow DEF States
  <2>2. CASE UNCHANGED out
    BY <1>1, <2>2, BoxesStay DEF Free, Reports
  <2> QED
    BY <1>2, <2>1, <2>2
<1> QED
  BY <1>3, <1>4, <1>5, <1>6 DEF IInv

\* Steps that change neither queue nor uae_state.
Still == UNCHANGED <<uae_state, out, to_gui_pipe, from_gui_pipe, guiVars, fixedVars>>

\* Every step that changes no queue, window or state, but the wish and the place, keeps IInv.
LEMMA StillIInv ==
  ASSUME IInv, Still,
         uae_target_state' \in Targets, restart_program' \in {0, 1, 3}, pc' \in PC,
         inputs' \in 0 .. MaxInputs,
         \/ box' = box /\ (pc' = pc \/ box = "none")
         \/ box = "posted" /\ box' = "none",
         uae_state \in {"running", "paused"} /\ uae_target_state' = uae_state
           => uae_target_state = uae_state,
         Places'
  PROVE  IInv'
<1>1. Announced' /\ Asked'
  BY Quiet DEF Still, Reports, Answers, guiVars, fixedVars
<1>2. Types'
  BY DEF IInv, Types, Still, guiVars, fixedVars
<1>3. Boxes'
  <2>1. Reports' = Reports
    BY DEF Still, Reports
  <2> QED
    BY <2>1 DEF IInv, Boxes
<1> QED
  BY <1>1, <1>2, <1>3 DEF IInv

\* What the steps that leave the queues alone have in common.
LEMMA Kept ==
  ASSUME IInv
  PROVE  /\ uae_target_state \in Targets /\ restart_program \in {0, 1, 3} /\ pc \in PC
         /\ inputs \in 0 .. MaxInputs
         /\ Input => inputs' \in 0 .. MaxInputs
BY MachineAssumption DEF IInv, Types, Input, MachineAssumption

\* An event queue found empty (handle_events).
LEMMA DrainedIInv == ASSUME IInv, Drained PROVE IInv'
<1>1. Still /\ UNCHANGED <<uae_target_state, restart_program, box, inputs>> /\ box = "none"
  BY DEF Drained, Still, stateVars, At, Free
<1>2. <<pc, pc'>> \in {<<"gui", "gui_check">>, <<"frame", "redraw">>, <<"paused", "paused_keys">>}
  BY DEF Drained, At
<1>3. Places'
  BY <1>1, <1>2 DEF IInv, Places, Still
<1> QED
  BY <1>1, <1>2, <1>3, Kept, StillIInv DEF PC

\* The test after gui_init (main.c).
LEMMA GuiCheckIInv == ASSUME IInv, GuiCheck PROVE IInv'
<1>1. Still /\ UNCHANGED <<uae_target_state, restart_program, box, inputs>> /\ box = "none"
  BY DEF GuiCheck, Still, stateVars, At, Free
<1>2. pc = "gui_check" /\ pc' \in {"chosen", "gui"}
  BY DEF GuiCheck, At
<1>3. Places'
  BY <1>1, <1>2 DEF IInv, Places, Still
<1> QED
  BY <1>1, <1>2, <1>3, Kept, StillIInv DEF PC

\* The window before the first start is done.
LEMMA ChosenIInv == ASSUME IInv, Chosen PROVE IInv'
<1>1. Still /\ UNCHANGED <<box, inputs>> /\ box = "none" /\ restart_program' = 0 /\ pc = "chosen"
  BY DEF Chosen, Still, At, Free
<1>2. \/ pc' = "done" /\ uae_target_state' = uae_target_state
      \/ pc' = "init" /\ uae_target_state' = "cold_start"
  BY DEF Chosen
<1>3. Places'
  BY <1>1, <1>2 DEF IInv, Places, Still
<1> QED
  BY <1>1, <1>2, <1>3, Kept, StillIInv DEF PC, Targets, States

\* The machine is set up, or a missing Kickstart stops it.
LEMMA InitMachineIInv == ASSUME IInv, InitMachine PROVE IInv'
<1>1. Still /\ UNCHANGED <<uae_target_state, restart_program, box>> /\ box = "none" /\ pc = "init"
  BY DEF InitMachine, Still, stateVars, At, Free
<1>2. pc' \in {"cycle", "done"} /\ (Input \/ inputs' = inputs)
  BY DEF InitMachine
<1>3. Places'
  BY <1>1, <1>2 DEF IInv, Places, Still
<1> QED
  BY <1>1, <1>2, <1>3, Kept, StillIInv DEF PC

\* A reset ends and the machine is to run.
LEMMA ResetDoneIInv == ASSUME IInv, ResetDone PROVE IInv'
<1>1. Still /\ UNCHANGED <<restart_program, box, inputs>> /\ box = "none"
  BY DEF ResetDone, Still, At, Free
<1>2. pc = "reset" /\ pc' = "enter" /\ uae_target_state' = "running" /\ uae_state \in {"cold_start", "warm_start"}
  BY DEF ResetDone, At, IInv, Places
<1>3. Places'
  BY <1>1, <1>2 DEF Places, Still
<1> QED
  BY <1>1, <1>2, <1>3, Kept, StillIInv DEF PC, Targets, States

\* A frame ends and the events are looked at.
LEMMA VsyncIInv == ASSUME IInv, Vsync PROVE IInv'
<1>1. Still /\ UNCHANGED <<uae_target_state, restart_program, box, inputs>> /\ box = "none"
  BY DEF Vsync, Still, stateVars, At, Free
<1>2. pc = "run" /\ pc' = "frame"
  BY DEF Vsync, At
<1>3. Places'
  BY <1>1, <1>2 DEF IInv, Places, Still
<1> QED
  BY <1>1, <1>2, <1>3, Kept, StillIInv DEF PC

\* The machine is let go (do_exit_machine), and once more around.
LEMMA ExitIInv == ASSUME IInv, Exit PROVE IInv'
<1>1. Still /\ UNCHANGED <<uae_target_state, box, inputs>> /\ box = "none" /\ restart_program' = 3
  BY DEF Exit, Still, At, Free
<1>2. pc = "exit" /\ pc' = "top"
  BY DEF Exit, At
<1>3. Places'
  BY <1>1, <1>2 DEF IInv, Places, Still
<1> QED
  BY <1>1, <1>2, <1>3, Kept, StillIInv DEF PC

\* The host's window is closed.
LEMMA HostClosesIInv == ASSUME IInv, HostCloses PROVE IInv'
<1>1. Still /\ UNCHANGED <<restart_program, pc, box>> /\ Input
  BY DEF HostCloses, Still, emuVars
<1>2. pc \in {"redraw", "paused_keys"} /\ uae_target_state' \in {"stopped", "quitting"}
  BY DEF HostCloses, At, uae_stop
<1>3. Places'
  BY <1>1, <1>2 DEF IInv, Places, Still
<1> QED
  BY <1>1, <1>2, <1>3, Kept, StillIInv DEF Targets, States

\* The Amiga's program asks for a reset or for the end.
LEMMA AmigaAsksIInv == ASSUME IInv, AmigaAsks PROVE IInv'
<1>1. Still /\ UNCHANGED <<restart_program, pc, box>> /\ Input /\ pc = "run" /\ uae_state = "running"
  BY DEF AmigaAsks, Still, emuVars, At, IInv, Places
<1>2. uae_target_state' \in {uae_target_state, "quitting", "warm_start", "cold_start"}
  BY DEF AmigaAsks, uae_quit, uae_reset
<1>3. Places'
  BY <1>1, <1>2 DEF IInv, Places, Still
<1> QED
  BY <1>1, <1>2, <1>3, Kept, StillIInv DEF Targets, States

\* A message box was closed and the emulator goes on.
LEMMA BoxAnsweredIInv == ASSUME IInv, BoxAnswered PROVE IInv'
<1>1. /\ Still /\ UNCHANGED <<pc, inputs>> /\ restart_program' = 3 /\ box = "posted" /\ box' = "none"
      /\ uae_target_state' \in {"stopped", "quitting"}
  BY DEF BoxAnswered, Still, uae_stop
<1>2. pc \in {"init", "reset", "run"}
  BY <1>1 DEF IInv, Boxes
<1>3. Places'
  BY <1>1, <1>2 DEF IInv, Places, Still
<1> QED
  BY <1>1, <1>2, <1>3, Kept, StillIInv DEF Targets, States

\* Steps that change uae_state, and those that ask for the window or report the
\* LEDs.
Speaks == UNCHANGED <<box, to_gui_pipe, from_gui_pipe, guiVars, fixedVars>> /\ Free

\* Every step by which the emulator begins to write to the window keeps IInv.
LEMMA SpeaksIInv ==
  ASSUME IInv, Speaks,
         uae_target_state' \in Targets, restart_program' \in {0, 1, 3}, pc' \in PC,
         inputs' \in 0 .. MaxInputs, uae_state' \in States,
         \/ set_state(uae_state')
         \/ /\ out' = <<[cmd |-> "show"]>> \/ out' = <<[cmd |-> "leds"]>>
            /\ uae_state' = uae_state
            /\ uae_state \in {"running", "paused"} /\ uae_target_state' = uae_state
                 => uae_target_state = uae_state,
         Places'
  PROVE  IInv'
<1>1. Boxes'
  BY BoxesGrow DEF Speaks
<1>2. out' \in Seq(ToGui) /\ Len(out') <= 1 /\ Announced' /\ Asked'
  <2>1. CASE set_state(uae_state')
    BY <2>1, SetState DEF Speaks
  <2>2. ASSUME NEW m \in ToGui, m.cmd # "state", out' = <<m>>, uae_state' = uae_state,
               uae_state \in {"running", "paused"} /\ uae_target_state' = uae_state
                 => uae_target_state = uae_state
        PROVE  out' \in Seq(ToGui) /\ Len(out') <= 1 /\ Announced' /\ Asked'
    BY <2>2, Notes DEF Speaks, Free
  <2>3. [cmd |-> "show"] \in ToGui /\ [cmd |-> "leds"] \in ToGui
    BY DEF ToGui
  <2> QED
    BY <2>1, <2>2, <2>3
<1>3. Types'
  BY <1>2 DEF IInv, Types, Speaks, guiVars, fixedVars
<1> QED
  BY <1>1, <1>2, <1>3 DEF IInv

\* One turn of the machine's loop: the wish becomes the state.
LEMMA CycleIInv == ASSUME IInv, Cycle PROVE IInv'
<1>1. /\ Speaks /\ UNCHANGED <<uae_target_state, restart_program, inputs>> /\ pc = "cycle" /\ box = "none"
      /\ uae_target_state \in {"cold_start", "warm_start", "stopped", "quitting"}
  BY DEF Cycle, Speaks, At, Free, IInv, Places
<1>2. CASE uae_target_state \in {"quitting", "stopped"}
  <2>1. Still /\ box' = box /\ pc' = "exit"
    BY <1>1, <1>2 DEF Cycle, Still, Speaks
  <2>2. Places'
    BY <1>1, <1>2, <2>1 DEF Places, Still
  <2> QED
    BY <1>1, <2>1, <2>2, Kept, StillIInv DEF PC
<1>3. CASE uae_target_state \in {"cold_start", "warm_start"}
  <2>1. pc' = "reset" /\ uae_state' = uae_target_state /\ set_state(uae_state')
    BY <1>3 DEF Cycle, set_state
  <2>2. Places'
    BY <1>1, <1>3, <2>1 DEF Places
  <2> QED
    BY <1>1, <1>3, <2>1, <2>2, Kept, SpeaksIInv DEF PC, States
<1> QED
  BY <1>1, <1>2, <1>3

\* The machine starts to run, and says so.
LEMMA EnterIInv == ASSUME IInv, Enter PROVE IInv'
<1>1. /\ Speaks /\ UNCHANGED <<uae_target_state, restart_program, inputs>>
      /\ pc = "enter" /\ pc' = "run" /\ uae_target_state = "running"
      /\ set_state("running") /\ uae_state' = "running"
  BY DEF Enter, Speaks, At, set_state, IInv, Places
<1>2. Places'
  BY <1>1 DEF Places
<1> QED
  BY <1>1, <1>2, Kept, SpeaksIInv DEF PC, States

\* The machine has left its run: it pauses, or goes round the loop.
LEMMA LeftIInv == ASSUME IInv, Left PROVE IInv'
<1>1. /\ Speaks /\ UNCHANGED <<uae_target_state, restart_program, inputs>> /\ pc = "left" /\ box = "none"
      /\ uae_target_state # "running" /\ uae_target_state \in Targets
  BY Kept DEF Left, Speaks, At, Free, IInv, Places
<1>2. CASE uae_target_state = "paused"
  <2>1. pc' = "paused" /\ uae_state' = "paused" /\ set_state(uae_state')
    BY <1>2 DEF Left, set_state
  <2>2. Places'
    BY <1>1, <2>1 DEF Places
  <2> QED
    BY <1>1, <2>1, <2>2, Kept, SpeaksIInv DEF PC, States
<1>3. CASE uae_target_state # "paused"
  <2>1. Still /\ box' = box /\ pc' = "cycle"
    BY <1>1, <1>3 DEF Left, Still, Speaks
  <2>2. Places'
    BY <1>1, <1>3, <2>1 DEF Places, Still, Targets, States
  <2> QED
    BY <1>1, <2>1, <2>2, Kept, StillIInv DEF PC
<1> QED
  BY <1>2, <1>3

\* An LED changes and the window is told.
LEMMA LedIInv == ASSUME IInv, Led PROVE IInv'
<1>1. /\ Speaks /\ UNCHANGED <<uae_state, uae_target_state, restart_program, pc>> /\ Input
      /\ out' = <<[cmd |-> "leds"]>>
  BY DEF Led, Speaks, At, stateVars
<1>2. Places'
  BY <1>1 DEF IInv, Places
<1>3. uae_state \in States
  BY DEF IInv, Types
<1> QED
  BY <1>1, <1>2, <1>3, Kept, SpeaksIInv

\* A key, where the machine runs or is paused.
LEMMA KeyIInv ==
  ASSUME IInv, Key, pc \in {"redraw", "paused_keys"}, Free, pc' \in PC, Places',
         UNCHANGED <<uae_state, restart_program, box, to_gui_pipe, from_gui_pipe, guiVars, fixedVars>>
  PROVE  IInv'
<1>1. uae_state = IF pc = "redraw" THEN "running" ELSE "paused"
  BY DEF IInv, Places
<1>2. Speaks /\ box = "none" /\ uae_state \in States
  BY <1>1 DEF Speaks, Free, States
<1>3. CASE UNCHANGED <<uae_target_state, out, inputs>>
  BY <1>2, <1>3, Kept, StillIInv DEF Still
<1>4. CASE Input /\ uae_target_state' \in KeyTargets /\ UNCHANGED out
  <2>1. uae_target_state' \in
          {uae_target_state, "quitting", "warm_start", "cold_start",
           IF uae_state = "running" THEN "paused" ELSE "running"}
    BY <1>1, <1>4 DEF KeyTargets, uae_resume, uae_pause, uae_quit, uae_reset
  <2>2. uae_target_state' \in Targets
    BY <2>1, Kept DEF Targets, States
  <2>3. uae_target_state' = uae_state => uae_target_state = uae_state
    BY <1>1, <2>1
  <2> QED
    BY <1>2, <1>4, <2>2, <2>3, Kept, StillIInv DEF Still
<1>5. CASE Input /\ out' = <<[cmd |-> "show"]>> /\ UNCHANGED uae_target_state
  BY <1>2, <1>5, Kept, SpeaksIInv
<1> QED
  BY <1>3, <1>4, <1>5 DEF Key

\* The end of a frame: a key may ask for a state or the window, and a change breaks the run.
LEMMA RedrawIInv == ASSUME IInv, Redraw PROVE IInv'
<1>1. /\ pc = "redraw" /\ Free /\ Key
      /\ pc' = IF change_pending(uae_target_state) /\ change_pending(uae_target_state') THEN "left" ELSE "run"
      /\ UNCHANGED <<uae_state, restart_program, box, to_gui_pipe, from_gui_pipe, guiVars, fixedVars>>
  BY DEF Redraw, At
<1>2. uae_state = "running"
  BY <1>1 DEF IInv, Places
<1>3. Places'
  BY <1>1, <1>2 DEF Places, change_pending
<1> QED
  BY <1>1, <1>3, KeyIInv DEF PC

\* The end of a round of the pause: a key, then the test whether it goes on.
LEMMA PausedEndIInv == ASSUME IInv, PausedEnd PROVE IInv'
<1>1. /\ pc = "paused_keys" /\ Free /\ Key
      /\ pc' = CASE ~change_pending(uae_target_state') -> "paused"
                 [] uae_target_state' = "running" -> "enter"
                 [] OTHER -> "cycle"
      /\ UNCHANGED <<uae_state, restart_program, box, to_gui_pipe, from_gui_pipe, guiVars, fixedVars>>
  BY DEF PausedEnd, At
<1>2. uae_state = "paused"
  BY <1>1 DEF IInv, Places
<1>3. uae_target_state' \in Targets
  BY <1>1, Kept DEF Key, KeyTargets, uae_resume, uae_pause, uae_quit, uae_reset, Targets, States
<1>4. \/ pc' = "paused"
      \/ pc' = "enter" /\ uae_target_state' = "running"
      \/ pc' = "cycle" /\ uae_target_state' \notin {"paused", "running"}
  BY <1>1, <1>2 DEF change_pending
<1>5. Places'
  BY <1>1, <1>2, <1>3, <1>4 DEF Places, Targets, States
<1> QED
  BY <1>1, <1>4, <1>5, KeyIInv DEF PC

\* A ROM is missing: the box is asked for, or the program stops without.
LEMMA RomFailsIInv == ASSUME IInv, RomFails PROVE IInv'
<1>1. /\ pc \in {"init", "reset", "run"} /\ Free /\ Input
      /\ UNCHANGED <<uae_state, pc, to_gui_pipe, from_gui_pipe, guiVars, fixedVars>>
  BY DEF RomFails, At
<1>2. CASE gui_available
  <2> DEFINE m == [cmd |-> "msgbox"]
  <2>1. m \in ToGui /\ m.cmd = "msgbox" /\ out' = <<m>>
    BY <1>2 DEF RomFails, ToGui
  <2>2. box' = "asked" /\ UNCHANGED <<uae_target_state, restart_program>> /\ out = <<>> /\ box = "none"
    BY <1>1, <1>2 DEF RomFails, Free
  <2> HIDE DEF m
  <2>3. out' \in Seq(ToGui) /\ Len(out') <= 1 /\ Announced' /\ Asked'
    BY <1>1, <2>1, <2>2, Notes
  <2>4. Types'
    BY <1>1, <2>2, <2>3, Kept DEF IInv, Types, guiVars, fixedVars
  <2>5. Places'
    BY <1>1, <2>2 DEF IInv, Places
  <2>6. Boxes'
    <3>1. to_gui_pipe \in Seq(ToGui) /\ Reports = to_gui_pipe /\ Reports' = Append(Reports, m)
      BY <1>1, <2>1, <2>2 DEF IInv, Types, Reports
    <3>2. /\ Len(Reports) \in Nat /\ DOMAIN Append(Reports, m) = 1 .. Len(Reports) + 1
          /\ DOMAIN Reports = 1 .. Len(Reports) /\ Append(Reports, m) \in Seq(ToGui)
          /\ \A i \in 1 .. Len(Reports) : Append(Reports, m)[i] = Reports[i]
      BY <2>1, <3>1, Longer
    <3>3. Len(Append(Reports, m)) = Len(Reports) + 1
      BY <3>2
    <3>4. \A i \in DOMAIN Append(Reports, m) : i = Len(Reports) + 1 \/ Append(Reports, m)[i].cmd # "msgbox"
      BY <2>2, <3>2 DEF IInv, Boxes
    <3> QED
      BY <1>1, <2>2, <3>1, <3>3, <3>4 DEF Boxes
  <2> QED
    BY <2>3, <2>4, <2>5, <2>6 DEF IInv
<1>3. CASE ~gui_available
  <2>1. /\ Still /\ box' = box /\ restart_program' = 3 /\ box = "none"
        /\ uae_target_state' \in {"stopped", "quitting"}
    BY <1>1, <1>3 DEF RomFails, Still, Free, uae_stop
  <2>2. Places'
    BY <1>1, <2>1 DEF IInv, Places
  <2> QED
    BY <1>1, <2>1, <2>2, Kept, StillIInv DEF Targets, States
<1> QED
  BY <1>2, <1>3

\* What a command of the GUI makes of the target.
LEMMA ObeyIs ==
  ASSUME NEW cmd \in Commands, NEW t \in Targets
  PROVE  /\ Obey(cmd, t) \in Targets
         /\ cmd = "pause" => Obey(cmd, t) = IF t = "running" THEN "paused" ELSE t
         /\ cmd = "resume" => Obey(cmd, t) = IF t = "paused" THEN "running" ELSE t
         /\ cmd \notin {"pause", "resume"} => Obey(cmd, t) = t \/ Obey(cmd, t) \notin {"running", "paused"}
         /\ cmd # "start" /\ t \in {"stopped", "quitting"} => Obey(cmd, t) \in {t, "quitting"}
BY DEF Obey, Commands, Targets, States, uae_start, uae_stop, uae_quit, uae_reset, uae_pause, uae_resume

\* The emulator takes a command.
LEMMA HandleCommandIInv == ASSUME IInv, HandleCommand PROVE IInv'
<1> DEFINE cmd == Head(from_gui_pipe)
           t == Obey(cmd, uae_target_state)
<1>1. /\ pc \in {"gui", "frame", "paused"} /\ from_gui_pipe # <<>>
      /\ uae_target_state' = t /\ from_gui_pipe' = Tail(from_gui_pipe)
      /\ UNCHANGED <<uae_state, restart_program, emuVars, to_gui_pipe, guiVars, fixedVars, inputs>>
  BY DEF HandleCommand, At
<1>2. /\ from_gui_pipe \in Seq(Commands) /\ Len(from_gui_pipe) <= FromSize /\ uae_target_state \in Targets
      /\ gout \in Seq(Commands) /\ pressed \in BOOLEAN
  BY DEF IInv, Types
<1>3. /\ cmd \in Commands /\ Tail(from_gui_pipe) \in Seq(Commands)
      /\ Len(Tail(from_gui_pipe)) <= FromSize
  BY <1>1, <1>2, MachineAssumption DEF MachineAssumption
<1>4. /\ Answers' = Tail(Answers) /\ Answers # <<>> /\ cmd = Answers[1] /\ Answers \in Seq(Commands)
  BY <1>1, <1>2, Taken DEF Answers, guiVars
<1> HIDE DEF cmd
<1>5. /\ t \in Targets
      /\ cmd = "pause" => t = IF uae_target_state = "running" THEN "paused" ELSE uae_target_state
      /\ cmd = "resume" => t = IF uae_target_state = "paused" THEN "running" ELSE uae_target_state
      /\ cmd \notin {"pause", "resume"} => t = uae_target_state \/ t \notin {"running", "paused"}
  BY <1>2, <1>3, ObeyIs
<1> HIDE DEF t
<1>6. /\ Reports' = Reports /\ pc' = pc /\ box' = box /\ out' = out /\ gout' = gout
      /\ UNCHANGED <<gui_window, shown, pressed, gui_available>>
  BY <1>1 DEF Reports, emuVars, guiVars, fixedVars
<1>7. Types'
  BY <1>1, <1>3, <1>5 DEF IInv, Types, emuVars, guiVars, fixedVars
<1>8. Places'
  BY <1>1, <1>6 DEF IInv, Places
<1>9. Boxes'
  BY <1>6, BoxesStay
<1>10. Announced'
  BY <1>1, <1>6 DEF IInv, Announced, NoState, LastState
<1>11. Asked'
  <2> DEFINE r == Tail(Answers)
  <2> SUFFICES ASSUME Differs
               PROVE  /\ shown \in {"running", "paused"} /\ LastAsks(r, pressed)
                      /\ NoState(Reports) /\ ~Has(r, Asks(pressed)) => t # uae_state
    BY <1>1, <1>4, <1>6 DEF Asked, Differs, LastAsks, NoState, Has, Asks, Unasks
  <2>1. shown \in {"running", "paused"} /\ LastAsks(Answers, pressed)
    BY DEF IInv, Asked
  <2>2. /\ LastAsks(r, pressed)
        /\ cmd = Unasks(pressed) => Has(r, Asks(pressed))
        /\ Has(Answers, Asks(pressed)) => cmd = Asks(pressed) \/ Has(r, Asks(pressed))
    BY <1>2, <1>4, <2>1, AnswersShrink
  <2> HIDE DEF r
  <2>3. ASSUME NoState(Reports), ~Has(r, Asks(pressed)) PROVE t # uae_state
    <3>1. shown = uae_state /\ uae_state \in {"running", "paused"} /\ (pressed <=> shown # "paused")
      BY <1>2, <2>1, <2>3 DEF IInv, Announced, Differs
    <3>2. CASE cmd = Asks(pressed)
      BY <1>5, <3>1, <3>2 DEF Asks
    <3>3. CASE cmd # Asks(pressed)
      <4>1. cmd # Unasks(pressed) /\ ~Has(Answers, Asks(pressed))
        BY <2>2, <2>3, <3>3
      <4>2. cmd \notin {"pause", "resume"}
        BY <3>3, <4>1 DEF Asks, Unasks
      <4>3. uae_target_state # uae_state
        BY <2>3, <4>1 DEF IInv, Asked
      <4> QED
        BY <1>5, <3>1, <4>2, <4>3
    <3> QED
      BY <3>2, <3>3
  <2> QED
    BY <2>1, <2>2, <2>3
<1> QED
  BY <1>7, <1>8, <1>9, <1>10, <1>11 DEF IInv

\* Every step of the emulator keeps the invariant.
LEMMA EmulatorIInv == ASSUME IInv, Emulator PROVE IInv'
BY WriteIInv, TopIInv, ConfigIInv, HandleCommandIInv, DrainedIInv, GuiCheckIInv, ChosenIInv,
   InitMachineIInv, CycleIInv, ResetDoneIInv, EnterIInv, VsyncIInv, HostClosesIInv, RedrawIInv,
   LeftIInv, PausedEndIInv, ExitIInv, AmigaAsksIInv, LedIInv, RomFailsIInv, BoxAnsweredIInv
DEF Emulator

-----------------------------------------------------------------------------
(* The GUI                                                                 *)

\* A command is in the pipe.
LEMMA GuiWriteIInv == ASSUME IInv, GuiWrite PROVE IInv'
<1>1. /\ gout # <<>> /\ Len(from_gui_pipe) < FromSize
      /\ from_gui_pipe' = Append(from_gui_pipe, Head(gout)) /\ gout' = Tail(gout)
      /\ UNCHANGED <<stateVars, emuVars, to_gui_pipe, gpc, gui_window, shown, pressed, fixedVars, inputs>>
  BY DEF GuiWrite
<1>2. gout \in Seq(Commands) /\ Len(gout) <= 1 /\ from_gui_pipe \in Seq(Commands)
  BY DEF IInv, Types
<1>3. /\ Head(gout) \in Commands /\ Tail(gout) \in Seq(Commands) /\ Len(Tail(gout)) <= 1
      /\ Append(from_gui_pipe, Head(gout)) \in Seq(Commands)
      /\ Len(Append(from_gui_pipe, Head(gout))) <= FromSize
  BY <1>1, <1>2, MachineAssumption DEF MachineAssumption
<1>4. Answers' = Answers /\ Reports' = Reports
  BY <1>1, <1>2, Written DEF Answers, Reports, emuVars
<1>5. Announced' /\ Asked'
  BY <1>1, <1>4, Quiet DEF fixedVars, stateVars
<1>6. Types'
  BY <1>1, <1>3 DEF IInv, Types, emuVars, fixedVars, stateVars
<1>7. Places' /\ Boxes'
  BY <1>1, <1>4, BoxesStay DEF IInv, Places, stateVars, emuVars
<1> QED
  BY <1>5, <1>6, <1>7 DEF IInv

\* my_idle starts and ends.
LEMMA IdleIInv == ASSUME IInv, IdleBegins \/ IdleEnds PROVE IInv'
<1>1. /\ gpc' \in {"loop", "my_idle"}
      /\ UNCHANGED <<stateVars, emuVars, to_gui_pipe, from_gui_pipe, gout, gui_window, shown, pressed, fixedVars, inputs>>
  BY DEF IdleBegins, IdleEnds
<1>2. Reports' = Reports /\ Answers' = Answers
  BY <1>1 DEF Reports, Answers, emuVars
<1>3. Announced' /\ Asked'
  BY <1>1, <1>2, Quiet DEF fixedVars, stateVars
<1>4. Types' /\ Places' /\ Boxes'
  BY <1>1, <1>2, BoxesStay DEF IInv, Types, Places, stateVars, emuVars, fixedVars
<1> QED
  BY <1>3, <1>4 DEF IInv

\* The message box is done with.
LEMMA BoxEndsIInv == ASSUME IInv, BoxEnds PROVE IInv'
<1>1. /\ box = "shown" /\ box' \in {"posted", "closed"}
      /\ UNCHANGED <<stateVars, pc, out, to_gui_pipe, from_gui_pipe, guiVars, fixedVars, inputs>>
  BY DEF BoxEnds
<1>2. Reports' = Reports /\ Answers' = Answers
  BY <1>1 DEF Reports, Answers, guiVars
<1>3. Announced' /\ Asked'
  BY <1>1, <1>2, Quiet DEF fixedVars, stateVars, guiVars
<1>4. Types' /\ Places'
  BY <1>1 DEF IInv, Types, Places, stateVars, guiVars, fixedVars
<1>5. Boxes'
  BY <1>1, <1>2 DEF IInv, Boxes
<1> QED
  BY <1>3, <1>4, <1>5 DEF IInv

\* A handler begins to write the command c.
LEMMA Answering ==
  ASSUME IInv, gout = <<>>, NEW c \in Commands, gout' = <<c>>, UNCHANGED from_gui_pipe
  PROVE  /\ Answers \in Seq(Commands) /\ Answers' = Append(Answers, c)
         /\ gout' \in Seq(Commands) /\ Len(gout') <= 1
<1>1. Answers \in Seq(Commands) /\ from_gui_pipe \in Seq(Commands)
  BY Queues DEF IInv, Types
<1>2. Answers' = Append(Answers, c)
  BY <1>1, Begun DEF Answers
<1>3. gout' \in Seq(Commands) /\ Len(gout') <= 1
  OBVIOUS
<1> QED
  BY <1>1, <1>2, <1>3

\* A button other than Pause is clicked.
LEMMA ClickIInv == ASSUME IInv, Click PROVE IInv'
<1>1. PICK c \in {"start", "stop", "reset", "quit"} : gout' = <<c>>
  BY DEF Click
<1>2. /\ gout = <<>> /\ Input
      /\ UNCHANGED <<stateVars, emuVars, to_gui_pipe, from_gui_pipe, gpc, gui_window, shown, pressed, fixedVars>>
  BY DEF Click, AtWindow, Idle
<1>3. c \in Commands /\ pressed \in BOOLEAN /\ c # Unasks(pressed)
  BY <1>1 DEF Commands, Unasks, IInv, Types
<1>4. /\ Answers \in Seq(Commands) /\ Answers' = Append(Answers, c)
      /\ gout' \in Seq(Commands) /\ Len(gout') <= 1
  BY <1>1, <1>2, <1>3, Answering
<1>5. /\ Reports' = Reports
      /\ UNCHANGED <<uae_state, uae_target_state, gui_window, shown, pressed, gui_available, box, pc>>
  BY <1>2 DEF Reports, stateVars, emuVars, fixedVars
<1>6. Types' /\ Places' /\ Boxes'
  BY <1>2, <1>4, <1>5, Kept, BoxesStay DEF IInv, Types, Places, stateVars, emuVars, fixedVars
<1>7. Announced'
  BY <1>5 DEF IInv, Announced, NoState, LastState
<1>8. Asked'
  <2> DEFINE r == Append(Answers, c)
  <2> SUFFICES ASSUME Differs
               PROVE  /\ shown \in {"running", "paused"} /\ LastAsks(r, pressed)
                      /\ NoState(Reports) /\ ~Has(r, Asks(pressed)) => uae_target_state # uae_state
    BY <1>4, <1>5 DEF Asked, Differs, LastAsks, NoState, Has, Asks, Unasks
  <2>1. /\ LastAsks(Answers, pressed) => LastAsks(r, pressed)
        /\ Has(Answers, Asks(pressed)) => Has(r, Asks(pressed))
    BY <1>3, <1>4, AnswersGrow, Zenon
  <2> HIDE DEF r
  <2> QED
    BY <2>1 DEF IInv, Asked
<1> QED
  BY <1>6, <1>7, <1>8 DEF IInv

\* Pause is clicked.
LEMMA PauseClickIInv == ASSUME IInv, PauseClick PROVE IInv'
<1> DEFINE c == Asks(~pressed)
<1>1. /\ gout = <<>> /\ Input /\ shown \in {"running", "paused"} /\ gui_window /\ gui_available
      /\ UNCHANGED <<stateVars, emuVars, to_gui_pipe, from_gui_pipe, gpc, gui_window, shown, fixedVars>>
  BY DEF PauseClick, AtWindow, Idle
<1>2. pressed' = ~pressed /\ pressed \in BOOLEAN /\ pressed' \in BOOLEAN
  BY DEF PauseClick, IInv, Types
<1>3. c \in Commands /\ gout' = <<c>> /\ c = Asks(pressed')
  BY <1>2 DEF PauseClick, Commands, Asks
<1> HIDE DEF c
<1>4. /\ Answers \in Seq(Commands) /\ Answers' = Append(Answers, c)
      /\ gout' \in Seq(Commands) /\ Len(gout') <= 1
  BY <1>1, <1>3, Answering
<1>5. /\ Reports' = Reports
      /\ UNCHANGED <<uae_state, uae_target_state, gui_window, shown, gui_available, box, pc>>
  BY <1>1 DEF Reports, stateVars, emuVars, fixedVars
<1>6. Types' /\ Places' /\ Boxes'
  BY <1>1, <1>2, <1>4, <1>5, Kept, BoxesStay DEF IInv, Types, Places, stateVars, emuVars, fixedVars
<1>7. Announced'
  BY <1>5 DEF IInv, Announced, NoState, LastState
<1>8. Asked'
  <2> DEFINE r == Append(Answers, c)
             p == pressed'
  <2>1. LastAsks(r, p) /\ Has(r, Asks(p))
    <3> HIDE DEF p
    <3>1. p \in BOOLEAN /\ c = Asks(p) /\ c \in Commands
      BY <1>2, <1>3 DEF p
    <3> QED
      BY <1>4, <3>1, AnswersGrow, Zenon
  <2> HIDE DEF r
  <2>2. Answers' = r
    BY <1>4 DEF r
  <2> QED
    BY <1>1, <1>5, <2>1, <2>2 DEF Asked, LastAsks, Has, Asks, Unasks
<1> QED
  BY <1>6, <1>7, <1>8 DEF IInv

\* The window is closed.
LEMMA WindowDeletedIInv == ASSUME IInv, WindowDeleted PROVE IInv'
<1>1. /\ gout = <<>> /\ Input /\ gui_window' = FALSE /\ gout' = <<"quit">>
      /\ UNCHANGED <<stateVars, emuVars, to_gui_pipe, from_gui_pipe, gpc, shown, pressed, fixedVars>>
  BY DEF WindowDeleted, AtWindow, Idle
<1>2. "quit" \in Commands
  BY DEF Commands
<1>3. gout' \in Seq(Commands) /\ Len(gout') <= 1
  BY <1>1, <1>2, Answering
<1>4. Reports' = Reports
  BY <1>1 DEF Reports, emuVars
<1>5. Types' /\ Places' /\ Boxes'
  <2>1. gui_window' \in BOOLEAN /\ ~gui_window'
    BY <1>1
  <2>2. Types'
    BY <1>1, <1>3, <2>1, Kept DEF IInv, Types, stateVars, emuVars, fixedVars
  <2>3. Places' /\ Boxes'
    BY <1>1, <1>4, BoxesStay DEF IInv, Places, stateVars, emuVars
  <2> QED
    BY <2>2, <2>3
<1>6. Announced'
  BY <1>1, <1>4 DEF IInv, Announced, NoState, LastState, stateVars, fixedVars
<1>7. Asked'
  BY <1>1 DEF Asked, Differs
<1> QED
  BY <1>5, <1>6, <1>7 DEF IInv

\* The GUI reads a report that changes neither its window nor its buttons.
LEMMA ReportRead ==
  ASSUME IInv, Idle, to_gui_pipe # <<>>, to_gui_pipe' = Tail(to_gui_pipe), UNCHANGED out
  PROVE  LET m == Head(to_gui_pipe) IN
         /\ Reports \in Seq(ToGui) /\ Reports # <<>> /\ m = Reports[1] /\ m \in ToGui
         /\ Reports' = Tail(Reports)
         /\ to_gui_pipe' \in Seq(ToGui) /\ Len(to_gui_pipe') <= ToSize
         /\ \A i : LastState(Tail(Reports), i) => Tail(Reports)[i].state = uae_state
         /\ m.cmd # "state" => (NoState(Tail(Reports)) <=> NoState(Reports))
         /\ m.cmd = "state" /\ NoState(Tail(Reports)) => m.state = uae_state
         /\ m.cmd = "state" => m.state \in States
         /\ \A i \in DOMAIN Tail(Reports) : Tail(Reports)[i].cmd = "msgbox" =>
               box = "asked" /\ m.cmd # "msgbox" /\ i = Len(Tail(Reports))
         /\ m.cmd = "msgbox" => box = "asked"
<1> DEFINE m == Head(to_gui_pipe)
           r == Tail(Reports)
<1>1. to_gui_pipe \in Seq(ToGui) /\ out \in Seq(ToGui) /\ Len(to_gui_pipe) <= ToSize
  BY DEF IInv, Types
<1>2. /\ Reports \in Seq(ToGui) /\ Reports # <<>> /\ m = Reports[1] /\ Reports' = r
  BY <1>1, Taken DEF Reports
<1>3. /\ m \in ToGui /\ to_gui_pipe' \in Seq(ToGui) /\ Len(to_gui_pipe') <= ToSize
  BY <1>1, MachineAssumption DEF MachineAssumption
<1>4. m.cmd = "state" => m.state \in States
  BY <1>3 DEF ToGui
<1> HIDE DEF m
<1>5. /\ \A i : LastState(r, i) => LastState(Reports, i + 1) /\ r[i] = Reports[i + 1]
      /\ m.cmd # "state" => (NoState(r) <=> NoState(Reports))
      /\ m.cmd = "state" /\ NoState(r) => LastState(Reports, 1)
  BY <1>2, ReportsShrink, Zenon
<1>6. /\ Len(Reports) \in Nat /\ Len(Reports) >= 1 /\ DOMAIN Reports = 1 .. Len(Reports)
      /\ DOMAIN r = 1 .. Len(Reports) - 1 /\ r \in Seq(ToGui) /\ Len(r) = Len(Reports) - 1
      /\ \A i \in 1 .. Len(Reports) - 1 : r[i] = Reports[i + 1]
  BY <1>2, Shorter
<1> HIDE DEF r
<1>7. \A i : LastState(r, i) => r[i].state = uae_state
  BY <1>5 DEF IInv, Announced
<1>8. m.cmd = "state" /\ NoState(r) => m.state = uae_state
  BY <1>2, <1>5 DEF IInv, Announced
<1>9. Len(r) = Len(Reports) - 1
  BY <1>6
<1>10. \A i \in DOMAIN r : r[i].cmd = "msgbox" => box = "asked" /\ m.cmd # "msgbox" /\ i = Len(r)
  <2> TAKE i \in DOMAIN r
  <2>1. i \in Nat /\ i >= 1 /\ i + 1 \in DOMAIN Reports /\ 1 \in DOMAIN Reports /\ r[i] = Reports[i + 1]
    BY <1>6
  <2>2. r[i].cmd = "msgbox" => box = "asked" /\ i + 1 = Len(Reports)
    BY <2>1 DEF IInv, Boxes
  <2>3. m.cmd = "msgbox" => 1 = Len(Reports)
    BY <1>2, <2>1 DEF IInv, Boxes
  <2> QED
    BY <1>6, <1>9, <2>1, <2>2, <2>3
<1>11. m.cmd = "msgbox" => box = "asked"
  BY <1>2, <1>6 DEF IInv, Boxes
<1> QED
  BY <1>2, <1>3, <1>4, <1>5, <1>7, <1>8, <1>10, <1>11 DEF m, r

\* The buttons are brought up to date.
LEMMA UpdateButtons ==
  ASSUME IInv, NEW s \in States, NEW was \in BOOLEAN, gout = <<>>, update_buttons(s, was),
         UNCHANGED from_gui_pipe
  PROVE  /\ shown' = s /\ pressed' \in BOOLEAN /\ gout' \in Seq(Commands) /\ Len(gout') <= 1
         /\ pressed' = (shown' = "paused")
<1>1. shown' = s /\ pressed' = (s = "paused")
  BY DEF update_buttons
<1>2. gout' = <<>> \/ gout' = <<"pause">> \/ gout' = <<"resume">>
  BY DEF update_buttons
<1>3. "pause" \in Commands /\ "resume" \in Commands
  BY DEF Commands
<1>4. gout' \in Seq(Commands) /\ Len(gout') <= 1
  <2>1. \A c \in Commands : <<c>> \in Seq(Commands) /\ Len(<<c>>) <= 1
    OBVIOUS
  <2>2. CASE gout' = <<>>
    BY <2>2
  <2> QED
    BY <1>2, <1>3, <2>1, <2>2
<1>5. pressed' \in BOOLEAN
  BY <1>1
<1> QED
  BY <1>1, <1>4, <1>5

\* The GUI reads a report.
LEMMA my_idleIInv == ASSUME IInv, my_idle PROVE IInv'
<1> DEFINE m == Head(to_gui_pipe)
           r == Tail(Reports)
<1>1. /\ Idle /\ gout = <<>> /\ to_gui_pipe # <<>> /\ to_gui_pipe' = Tail(to_gui_pipe)
      /\ UNCHANGED <<stateVars, pc, out, from_gui_pipe, gpc, fixedVars, inputs>>
  BY DEF my_idle, Idle
<1>2. /\ Reports' = r /\ to_gui_pipe' \in Seq(ToGui) /\ Len(to_gui_pipe') <= ToSize
      /\ \A i : LastState(r, i) => r[i].state = uae_state
      /\ m.cmd # "state" => (NoState(r) <=> NoState(Reports))
      /\ m.cmd = "state" /\ NoState(r) => m.state = uae_state
      /\ m.cmd = "state" => m.state \in States
      /\ \A i \in DOMAIN r : r[i].cmd = "msgbox" => box = "asked" /\ m.cmd # "msgbox" /\ i = Len(r)
      /\ m.cmd = "msgbox" => box = "asked"
  BY <1>1, ReportRead
<1>3. /\ UNCHANGED <<uae_state, uae_target_state, gui_available>> /\ gui_available /\ pc' = pc
  BY <1>1 DEF stateVars, fixedVars, Idle
<1>4. \/ m.cmd = "state" /\ gui_window /\ update_buttons(m.state, pressed) /\ UNCHANGED <<gui_window, box>>
      \/ m.cmd = "show" /\ gui_window' = TRUE /\ update_buttons(uae_state, FALSE) /\ box' = box
      \/ m.cmd = "msgbox" /\ box' = "shown" /\ UNCHANGED <<gui_window, shown, pressed, gout>>
      \/ /\ ~(m.cmd = "state" /\ gui_window) /\ m.cmd # "msgbox"
         /\ UNCHANGED <<gui_window, shown, pressed, gout, box>>
  BY DEF my_idle
<1> HIDE DEF m, r
<1>5. uae_state \in States /\ pressed \in BOOLEAN /\ gui_window \in BOOLEAN
  BY DEF IInv, Types
<1>6. Boxes'
  <2>1. \/ box' = box /\ m.cmd # "msgbox"
        \/ m.cmd = "msgbox" /\ box' = "shown" /\ box = "asked"
    BY <1>2, <1>4
  <2>2. box' # "none" => pc \in {"init", "reset", "run"}
    BY <2>1 DEF IInv, Boxes
  <2>3. \A i \in DOMAIN r : r[i].cmd = "msgbox" => box' = "asked" /\ i = Len(r)
    BY <1>2, <2>1
  <2> QED
    BY <1>2, <1>3, <2>2, <2>3 DEF Boxes
<1>7. (NoState(Reports))' <=> NoState(r)
  BY <1>2 DEF NoState
<1>8. \A i : (LastState(Reports, i))' <=> LastState(r, i)
  BY <1>2 DEF LastState
<1>9. Places'
  BY <1>3 DEF IInv, Places
<1>10. ASSUME NEW s \in States, NEW was \in BOOLEAN, update_buttons(s, was), box' = box, gui_window' \in BOOLEAN,
              NoState(r) => s = uae_state
       PROVE  IInv'
  <2>1. /\ shown' = s /\ pressed' \in BOOLEAN /\ gout' \in Seq(Commands) /\ Len(gout') <= 1
        /\ pressed' = (shown' = "paused")
    BY <1>1, <1>10, UpdateButtons
  <2>2. Types'
    BY <1>1, <1>2, <1>10, <2>1 DEF IInv, Types, stateVars, fixedVars, Idle
  <2>3. Announced'
    BY <1>2, <1>3, <1>7, <1>8, <1>10, <2>1 DEF Announced
  <2>4. Asked'
    BY <2>1 DEF Asked, Differs
  <2> QED
    BY <1>6, <1>9, <2>2, <2>3, <2>4 DEF IInv
<1>11. ASSUME UNCHANGED <<gui_window, shown, pressed, gout>>,
              box' \in {"none", "asked", "shown", "posted", "closed"},
              gui_window => (NoState(r) <=> NoState(Reports))
       PROVE  IInv'
  <2>1. Types'
    BY <1>1, <1>2, <1>11 DEF IInv, Types, stateVars, fixedVars
  <2>2. Announced'
    BY <1>2, <1>3, <1>7, <1>8, <1>11 DEF IInv, Announced
  <2>3. Answers' = Answers
    BY <1>1, <1>11 DEF Answers
  <2>4. Asked'
    <3> SUFFICES ASSUME Differs
                 PROVE  /\ shown \in {"running", "paused"} /\ LastAsks(Answers, pressed)
                        /\ NoState(r) /\ ~Has(Answers, Asks(pressed)) => uae_target_state # uae_state
      BY <1>3, <1>7, <1>11, <2>3 DEF Asked, Differs, LastAsks, Has, Asks, Unasks
    <3>1. gui_window
      BY DEF Differs
    <3> QED
      BY <1>11, <3>1 DEF IInv, Asked
  <2> QED
    BY <1>6, <1>9, <2>1, <2>2, <2>4 DEF IInv
<1>12. CASE m.cmd = "state" /\ gui_window /\ update_buttons(m.state, pressed) /\ UNCHANGED <<gui_window, box>>
  BY <1>2, <1>5, <1>10, <1>12
<1>13. CASE m.cmd = "show" /\ gui_window' = TRUE /\ update_buttons(uae_state, FALSE) /\ box' = box
  <2>1. gui_window' \in BOOLEAN
    BY <1>13
  <2> QED
    BY <1>5, <1>10, <1>13, <2>1
<1>14. CASE m.cmd = "msgbox" /\ box' = "shown" /\ UNCHANGED <<gui_window, shown, pressed, gout>>
  BY <1>2, <1>11, <1>14
<1>15. CASE /\ ~(m.cmd = "state" /\ gui_window) /\ m.cmd # "msgbox"
            /\ UNCHANGED <<gui_window, shown, pressed, gout, box>>
  <2>1. box' \in {"none", "asked", "shown", "posted", "closed"}
    BY <1>15 DEF IInv, Types
  <2> QED
    BY <1>2, <1>11, <1>15, <2>1
<1> QED
  BY <1>4, <1>12, <1>13, <1>14, <1>15

-----------------------------------------------------------------------------
(* What it gives                                                           *)

\* The first state.
LEMMA InitIInv == Init => IInv
<1> SUFFICES ASSUME Init PROVE IInv
  OBVIOUS
<1>1. gui_window \in BOOLEAN /\ pressed \in BOOLEAN /\ ~gui_window
  BY DEF Init
<1>2. Types
  BY <1>1, MachineAssumption DEF Init, Types, States, Targets, PC, MachineAssumption
<1>3. Reports = <<>> /\ DOMAIN Reports = {}
  BY DEF Init, Reports
<1>4. Announced /\ Asked /\ Boxes
  BY <1>1, <1>3 DEF Init, Announced, Asked, Differs, Boxes, NoState, LastState
<1>5. Places
  BY DEF Init, Places
<1> QED
  BY <1>2, <1>4, <1>5 DEF IInv

\* A step that changes nothing.
LEMMA StutterIInv == ASSUME IInv, UNCHANGED vars PROVE IInv'
<1>1. /\ UNCHANGED <<uae_state, uae_target_state, restart_program, pc, out, box, to_gui_pipe, from_gui_pipe,
                     gpc, gout, gui_window, shown, pressed, gui_available, start_gui, inputs>>
  BY DEF vars, stateVars, emuVars, guiVars, fixedVars
<1>2. Reports' = Reports /\ Answers' = Answers
  BY <1>1 DEF Reports, Answers
<1>3. Announced' /\ Asked'
  BY <1>1, <1>2, Quiet
<1>4. Types' /\ Places' /\ Boxes'
  BY <1>1, <1>2, BoxesStay DEF IInv, Types, Places
<1> QED
  BY <1>3, <1>4 DEF IInv

\* Every step keeps the invariant.
LEMMA NextIInv == IInv /\ [Next]_vars => IInv'
<1> SUFFICES ASSUME IInv, [Next]_vars PROVE IInv'
  OBVIOUS
<1>1. ASSUME GuiThread PROVE IInv'
  BY <1>1, GuiWriteIInv, IdleIInv, my_idleIInv, BoxEndsIInv DEF GuiThread
<1> QED
  BY <1>1, EmulatorIInv, ClickIInv, PauseClickIInv, WindowDeletedIInv, StutterIInv DEF Next

\* The invariant holds of every state of the machine and its window.
THEOREM InvariantHolds == Spec => []IInv
BY InitIInv, NextIInv, PTL DEF Spec

\* The window agrees with the machine once there is nothing on the way.
THEOREM WindowAgrees == Spec => []GuiAgrees
<1>1. IInv => TypeOK
  <2> SUFFICES ASSUME IInv PROVE TypeOK
    OBVIOUS
  <2>1. /\ out \in Seq(ToGui) /\ to_gui_pipe \in Seq(ToGui) /\ from_gui_pipe \in Seq(Commands)
        /\ {gui_window, pressed, gui_available, start_gui} \subseteq BOOLEAN
    BY DEF IInv, Types
  <2>2. /\ \A i \in 1 .. Len(out) : out[i] \in ToGui
        /\ \A i \in 1 .. Len(to_gui_pipe) : to_gui_pipe[i] \in ToGui
        /\ \A i \in 1 .. Len(from_gui_pipe) : from_gui_pipe[i] \in Commands
    BY <2>1
  <2> QED
    BY <2>1, <2>2 DEF IInv, Types, TypeOK
<1>2. IInv => ButtonsShowState
  <2> SUFFICES ASSUME IInv, gui_window, to_gui_pipe = <<>>, out = <<>> PROVE shown = uae_state
    BY DEF ButtonsShowState
  <2>1. DOMAIN Reports = {}
    BY DEF Reports
  <2> QED
    BY <2>1 DEF IInv, Announced, NoState
<1>3. IInv => PauseShowsState
  <2> SUFFICES ASSUME IInv, gui_window, to_gui_pipe = <<>>, out = <<>>, gout = <<>>, from_gui_pipe = <<>>,
                      uae_state = uae_target_state
               PROVE  pressed <=> uae_state = "paused"
    BY DEF PauseShowsState
  <2>1. DOMAIN Reports = {} /\ DOMAIN Answers = {}
    BY DEF Reports, Answers
  <2>2. NoState(Reports) /\ ~Has(Answers, Asks(pressed))
    BY <2>1 DEF NoState, Has
  <2>3. ~Differs /\ shown = uae_state
    BY <2>2 DEF IInv, Asked, Announced
  <2>4. pressed \in BOOLEAN
    BY DEF IInv, Types
  <2> QED
    BY <2>3, <2>4 DEF Differs
<1>4. IInv => GuiAgrees
  BY <1>1, <1>2, <1>3 DEF GuiAgrees
<1> QED
  BY <1>4, InvariantHolds, PTL

\* A stop or a quit is dropped by Start, by the start after the configuration
\* loop and by the end of a reset alone.
THEOREM StopAndQuitStand == Spec => RequestStands
<1> DEFINE Dropped == /\ uae_target_state \in {"stopped", "quitting"}
                      /\ uae_target_state' \notin {uae_target_state, "quitting"}
           Excused == \/ from_gui_pipe # <<>> /\ Head(from_gui_pipe) = "start"
                      \/ pc \in {"chosen", "reset"} /\ pc' # pc
<1>1. ASSUME IInv, [Next]_vars, Dropped PROVE Excused
  <2>1. ASSUME UNCHANGED uae_target_state PROVE FALSE
    BY <1>1, <2>1
  <2>2. CASE UNCHANGED vars
    BY <2>1, <2>2 DEF vars, stateVars
  <2>3. CASE GuiThread \/ Click \/ PauseClick \/ WindowDeleted
    <3>1. UNCHANGED stateVars
      BY <2>3 DEF GuiThread, GuiWrite, IdleBegins, IdleEnds, my_idle, BoxEnds, Click, PauseClick, WindowDeleted
    <3> QED
      BY <2>1, <3>1 DEF stateVars
  <2>4. CASE Write \/ Drained \/ GuiCheck \/ InitMachine \/ Vsync \/ Led
    <3>1. UNCHANGED stateVars
      BY <2>4 DEF Write, Drained, GuiCheck, InitMachine, Vsync, Led
    <3> QED
      BY <2>1, <3>1 DEF stateVars
  <2>5. CASE Top \/ Cycle \/ Enter \/ Left \/ Exit
    BY <2>1, <2>5 DEF Top, Cycle, Enter, Left, Exit
  <2>6. CASE Config
    BY <1>1, <2>6 DEF Config, uae_quit
  <2>7. CASE HandleCommand
    <3> DEFINE cmd == Head(from_gui_pipe)
    <3>1. from_gui_pipe # <<>> /\ uae_target_state' = Obey(cmd, uae_target_state)
      BY <2>7 DEF HandleCommand
    <3>2. from_gui_pipe \in Seq(Commands) /\ uae_target_state \in Targets
      BY <1>1 DEF IInv, Types
    <3>3. cmd \in Commands
      BY <3>1, <3>2
    <3> HIDE DEF cmd
    <3>4. cmd = "start"
      BY <1>1, <3>1, <3>2, <3>3, ObeyIs
    <3> QED
      BY <3>1, <3>4 DEF cmd
  <2>8. CASE Chosen
    BY <1>1, <2>8 DEF Chosen, At
  <2>9. CASE ResetDone
    BY <2>9 DEF ResetDone, At
  <2>10. CASE HostCloses
    BY <1>1, <2>10 DEF HostCloses, uae_stop
  <2>11. CASE Redraw \/ PausedEnd
    <3>1. Key
      BY <2>11 DEF Redraw, PausedEnd
    <3> QED
      BY <1>1, <3>1 DEF Key, KeyTargets, uae_resume, uae_pause, uae_quit, uae_reset
  <2>12. CASE AmigaAsks
    BY <1>1, <2>12 DEF AmigaAsks, uae_quit, uae_reset
  <2>13. CASE RomFails \/ BoxAnswered
    BY <1>1, <2>13 DEF RomFails, BoxAnswered, uae_stop
  <2> QED
    BY <1>1, <2>2, <2>3, <2>4, <2>5, <2>6, <2>7, <2>8, <2>9, <2>10, <2>11, <2>12, <2>13 DEF Next, Emulator
<1>2. IInv /\ [Next]_vars =>
        [(/\ uae_target_state \in {"stopped", "quitting"}
          /\ uae_target_state' \notin {uae_target_state, "quitting"})
         => (\/ from_gui_pipe # <<>> /\ Head(from_gui_pipe) = "start"
             \/ pc \in {"chosen", "reset"} /\ pc' # pc)]_vars
  BY <1>1
<1> QED
  BY <1>2, InvariantHolds, PTL DEF Spec, RequestStands
=============================================================================
