---------------------------- MODULE EventProofs ----------------------------
(***************************************************************************)
(* For every wrap of the cycle counter, every raster line and every length *)
(* of instructions: the blitter's event, the chips' event, and time.       *)
(*                                                                         *)
(* The blitter: for any length of blits and any number of register writes, *)
(* a blit in progress has its event, and the blitter works on nothing that *)
(* was not started.  Neither fact is inductive alone.  Both need that      *)
(* handlers leave the table whole.  WorksOnlyWhenStarted, on a step of the *)
(* event loop, needs the converse of PendingHasEvent: an event in the      *)
(* table belongs to a blit in progress, or to one that RESET cut off.  No  *)
(* event is passed by but for one that a register write put off: the       *)
(* invariant Clockwork is about the distance of events from now, which the *)
(* wrapping of the counter leaves alone.                                   *)
(*                                                                         *)
(* The 8520s: CiaIInv says that their event is the first underflow of any  *)
(* of their timers, and no further away than when it was put there.  That  *)
(* gives that no underflow is missed; and, with what CiaTick's recursion   *)
(* computes, that chips which are looked at now and then are chips which   *)
(* count every clock.                                                      *)
(***************************************************************************)
EXTENDS Blitter, Cia, TLAPS, WellFoundedInduction

(* The event table and the counter that wraps, for every chip.             *)

\* Sets of numbers have a least member, and a greatest one if they are bounded.
LEMMA MinIs ==
  ASSUME NEW S \in SUBSET Nat, S # {}
  PROVE  Min(S) \in S /\ \A x \in S : Min(S) <= x
<1> DEFINE Less == OpToRel(<, Nat)
<1>1. PICK m \in S : \A x \in S : ~ (<<x, m>> \in Less)
  <2> HIDE DEF Less
  <2>1. IsWellFoundedOn(Less, Nat)
    BY NatLessThanWellFounded DEF Less
  <2> QED BY <2>1, WFMin, Zenon
<1>2. \A x \in S : ~ (x < m)
  BY <1>1 DEF OpToRel
<1>3. \A x \in S : m <= x
  BY <1>2
<1> QED BY <1>3 DEF Min

\* Likewise the greatest.
LEMMA MaxIs ==
  ASSUME NEW S \in SUBSET Nat, S # {}, NEW K \in Nat, \A x \in S : x <= K
  PROVE  Max(S) \in S /\ \A x \in S : x <= Max(S)
<1> DEFINE R == {K - x : x \in S}
<1>1. R \in SUBSET Nat /\ R # {}
  OBVIOUS
<1>2. PICK x \in S : Min(R) = K - x
  BY <1>1, MinIs
<1>3. \A y \in S : K - x <= K - y
  BY <1>1, <1>2, MinIs
<1>4. \A y \in S : x >= y
  BY <1>3
<1> QED BY <1>4 DEF Max

\* The sizes every chip relies on.
LEMMA EventSizes ==
  /\ WRAP \in Nat /\ WRAP > 1 /\ HSYNCTIME \in 1 .. WRAP - 1 /\ ev_hsync \in Ev
  /\ Max(Durations) \in Nat /\ \A n \in Durations : n \in 1 .. Max(Durations)
<1> USE EventAssumption DEF EventAssumption
<1>1. WRAP \in Nat /\ WRAP > 1
  OBVIOUS
<1>2. Max(Durations) \in Durations /\ \A n \in Durations : n <= Max(Durations)
  <2>1. Durations \in SUBSET Nat /\ Durations # {} /\ \A n \in Durations : n <= WRAP
    BY <1>1
  <2> QED BY <1>1, <2>1, MaxIs
<1>3. Max(Durations) \in Nat /\ \A n \in Durations : n \in 1 .. Max(Durations)
  <2>1. \A n \in Durations : n \in Nat /\ n >= 1
    BY <1>1
  <2> QED BY ONLY <1>2, <2>1
<1> QED BY <1>1, <1>3

\* How far the cycle t is ahead of the cycle c.
Gap(t, c) == (t - c) % WRAP

\* The remainder, where it is looked at.
LEMMA Remainder ==
  /\ \A a \in 0 .. WRAP - 1 : a % WRAP = a
  /\ \A a \in WRAP .. 2 * WRAP - 1 : a % WRAP = a - WRAP
  /\ \A a \in -WRAP .. -1 : a % WRAP = a + WRAP
  /\ \A a \in Int : a % WRAP \in 0 .. WRAP - 1
<1>0. WRAP \in Nat \ {0}
  BY EventSizes
<1>1. \A a \in 0 .. WRAP - 1 : a % WRAP = a
  BY ONLY <1>0
<1>2. \A a \in WRAP .. 2 * WRAP - 1 : a % WRAP = a - WRAP
  BY ONLY <1>0
<1>3. \A a \in -WRAP .. -1 : a % WRAP = a + WRAP
  BY ONLY <1>0
<1>4. \A a \in Int : a % WRAP \in 0 .. WRAP - 1
  BY ONLY <1>0
<1> QED BY <1>1, <1>2, <1>3, <1>4

\* The distance, without a remainder.
LEMMA GapIs ==
  ASSUME NEW a \in Time, NEW b \in Time
  PROVE  Gap(a, b) = IF a >= b THEN a - b ELSE a - b + WRAP
<1>1. WRAP \in Nat /\ a \in 0 .. WRAP - 1 /\ b \in 0 .. WRAP - 1
  BY EventSizes DEF Time
<1>2. CASE a >= b
  <2>1. a - b \in 0 .. WRAP - 1
    BY <1>1, <1>2
  <2> QED BY <1>2, <2>1, Remainder DEF Gap
<1>3. CASE ~ (a >= b)
  <2>1. a - b \in -WRAP .. -1
    BY <1>1, <1>3
  <2> QED BY <1>3, <2>1, Remainder DEF Gap
<1> QED BY <1>2, <1>3

\* Distances on the counter: of what is so many cycles away, and when some pass.
LEMMA Gaps ==
  ASSUME NEW c \in Time
  PROVE  /\ \A t \in Time : Gap(t, c) \in 0 .. WRAP - 1 /\ (Gap(t, c) = 0 <=> t = c)
         /\ \A k \in 0 .. WRAP - 1 : (c + k) % WRAP \in Time /\ Gap((c + k) % WRAP, c) = k
         /\ \A t \in Time : (c + Gap(t, c)) % WRAP = t
         /\ \A t \in Time, k \in 0 .. WRAP - 1 :
               k <= Gap(t, c) => Gap(t, (c + k) % WRAP) = Gap(t, c) - k
<1>0. WRAP \in Nat /\ WRAP > 1 /\ c \in 0 .. WRAP - 1
  BY EventSizes DEF Time
<1>1. ASSUME NEW a \in 0 .. WRAP - 1, NEW b \in 0 .. WRAP - 1
      PROVE  Gap(a, b) = IF a >= b THEN a - b ELSE a - b + WRAP
  BY <1>1, GapIs DEF Time
<1>2. ASSUME NEW k \in 0 .. WRAP - 1
      PROVE  (c + k) % WRAP = IF c + k < WRAP THEN c + k ELSE c + k - WRAP
  <2>1. CASE c + k < WRAP
    <3>1. c + k \in 0 .. WRAP - 1
      BY <1>0, <1>2, <2>1
    <3> QED BY <2>1, <3>1, Remainder
  <2>2. CASE ~ (c + k < WRAP)
    <3>1. c + k \in WRAP .. 2 * WRAP - 1
      BY <1>0, <1>2, <2>2
    <3>2. (c + k) % WRAP = (c + k) - WRAP
      BY <3>1, Remainder
    <3> QED BY <1>0, <1>2, <2>2, <3>2
  <2> QED BY <2>1, <2>2
<1>3. \A t \in Time : Gap(t, c) \in 0 .. WRAP - 1 /\ (Gap(t, c) = 0 <=> t = c)
  BY <1>0, <1>1 DEF Time
<1>4. ASSUME NEW k \in 0 .. WRAP - 1
      PROVE  (c + k) % WRAP \in Time /\ Gap((c + k) % WRAP, c) = k
  <2> DEFINE d == (c + k) % WRAP
  <2>1. d = IF c + k < WRAP THEN c + k ELSE c + k - WRAP
    BY <1>2
  <2>2. d \in 0 .. WRAP - 1
    BY <1>0, <2>1
  <2>3. Gap(d, c) = IF d >= c THEN d - c ELSE d - c + WRAP
    BY <1>0, <1>1, <2>2
  <2> HIDE DEF d
  <2>4. Gap(d, c) = k
    BY <1>0, <2>1, <2>3
  <2> QED BY <2>2, <2>4 DEF d, Time
<1>5. ASSUME NEW t \in Time PROVE (c + Gap(t, c)) % WRAP = t
  <2> DEFINE g == Gap(t, c)
  <2>1. g = IF t >= c THEN t - c ELSE t - c + WRAP
    BY <1>0, <1>1 DEF Time
  <2>2. g \in 0 .. WRAP - 1
    BY <1>3
  <2>3. (c + g) % WRAP = IF c + g < WRAP THEN c + g ELSE c + g - WRAP
    BY <1>2, <2>2
  <2>4. t \in 0 .. WRAP - 1
    BY DEF Time
  <2> HIDE DEF g
  <2>5. (c + g) % WRAP = t
    BY <1>0, <2>1, <2>3, <2>4
  <2> QED BY <2>5 DEF g
<1>6. ASSUME NEW t \in Time, NEW k \in 0 .. WRAP - 1, k <= Gap(t, c)
      PROVE  Gap(t, (c + k) % WRAP) = Gap(t, c) - k
  <2> DEFINE d == (c + k) % WRAP
             g == Gap(t, c)
  <2>1. d = IF c + k < WRAP THEN c + k ELSE c + k - WRAP
    BY <1>2
  <2>2. g = IF t >= c THEN t - c ELSE t - c + WRAP
    BY <1>0, <1>1 DEF Time
  <2>3. d \in 0 .. WRAP - 1 /\ t \in 0 .. WRAP - 1 /\ k <= g
    BY <1>0, <1>6, <2>1 DEF Time
  <2>4. Gap(t, d) = IF t >= d THEN t - d ELSE t - d + WRAP
    BY <1>1, <2>3
  <2> HIDE DEF d, g
  <2>5. Gap(t, d) = g - k
    BY <1>0, <2>1, <2>2, <2>3, <2>4
  <2> QED BY <2>5 DEF d, g
<1> QED BY <1>3, <1>4, <1>5, <1>6

\* What the table is, with the cycles in it.
TableType == [Ev -> [active : {0, 1}, evtime : Time, oldcycles : Time]]

\* events_schedule: the first event is not later than any.
LEMMA FirstOfAll ==
  ASSUME currcycle \in Time, NEW tab \in TableType
  PROVE  /\ events_schedule(tab) \in Time
         /\ \A e \in Ev : tab[e].active = 1 =>
               Gap(events_schedule(tab), currcycle) <= Gap(tab[e].evtime, currcycle)
<1> DEFINE ahead == {(tab[e].evtime - currcycle) % WRAP : e \in {x \in Ev : tab[x].active = 1}}
           S == ahead \union {WRAP - 1}
           m == Min(S)
<1>1. \A e \in Ev : tab[e].evtime \in Time /\ Gap(tab[e].evtime, currcycle) \in 0 .. WRAP - 1
  BY Gaps DEF TableType
<1>2. ahead \subseteq 0 .. WRAP - 1
  BY <1>1 DEF Gap
<1>3. S \in SUBSET Nat /\ S # {} /\ S \subseteq 0 .. WRAP - 1
  <2> HIDE DEF ahead
  <2> QED BY <1>2, EventSizes
<1>4. m \in S /\ \A x \in S : m <= x
  <2> HIDE DEF S
  <2> QED BY <1>3, MinIs
<1>5. \A e \in Ev : tab[e].active = 1 => Gap(tab[e].evtime, currcycle) \in S
  BY DEF Gap
<1>6. events_schedule(tab) = (currcycle + m) % WRAP
  BY DEF events_schedule
<1> HIDE DEF S, m
<1>7. m \in 0 .. WRAP - 1
  BY <1>3, <1>4
<1>8. events_schedule(tab) \in Time /\ Gap(events_schedule(tab), currcycle) = m
  BY <1>6, <1>7, Gaps
<1> QED BY <1>4, <1>5, <1>8

\* What happens to the table leaves it one.
LEMMA TableTypes ==
  ASSUME currcycle \in Time, NEW tab \in TableType, NEW e \in Ev
  PROVE  /\ \A t \in Nat : After(t) \in Time /\ Arm(tab, e, t) \in TableType
         /\ Disarm(tab, e) \in TableType
         /\ NextLine(tab) \in TableType /\ HsyncOnly \in TableType
<1> USE DEF TableType
<1>0. WRAP \in Nat /\ WRAP > 1 /\ HSYNCTIME \in Nat /\ currcycle \in Int
  BY EventSizes DEF Time
<1>1. \A t \in Nat : After(t) \in Time
  <2>1. \A t \in Nat : currcycle + t \in Int
    BY <1>0
  <2> QED BY <2>1, Remainder DEF After, Time
<1>2. \A t \in Nat : Arm(tab, e, t) \in TableType
  BY <1>1 DEF Arm, Event
<1>3. Disarm(tab, e) \in TableType
  BY DEF Disarm, Event
<1>4. NextLine(tab) \in TableType
  <2> DEFINE hs == tab[ev_hsync]
  <2>1. hs \in [active : {0, 1}, evtime : Time, oldcycles : Time]
    BY EventSizes
  <2>2. hs.evtime \in Int /\ hs.oldcycles \in Int
    BY <2>1 DEF Time
  <2>3. Since(hs.oldcycles) \in Int
    <3>1. currcycle - hs.oldcycles \in Int
      BY <1>0, <2>2
    <3> QED BY <3>1, Remainder, EventSizes DEF Since
  <2>4. (hs.evtime + Since(hs.oldcycles)) % WRAP \in Time
    <3>1. hs.evtime + Since(hs.oldcycles) \in Int
      BY <2>2, <2>3
    <3> QED BY <3>1, Remainder DEF Time
  <2> QED BY <2>1, <2>4 DEF NextLine, Event
<1>5. HsyncOnly \in TableType
  <2>1. 0 \in Time
    BY <1>0 DEF Time
  <2>2. After(HSYNCTIME) \in Time
    BY <1>0, <1>1
  <2> QED BY <2>1, <2>2 DEF HsyncOnly, Event
<1> QED BY <1>1, <1>2, <1>3, <1>4, <1>5

-----------------------------------------------------------------------------
(* The steps of do_cycles, for every chip.                                 *)

\* How far away an event is.
Ahead(e) == Gap(eventtab[e].evtime, currcycle)

\* The line event is a line away from where it was set.
LineRuns == eventtab[ev_hsync].evtime = (eventtab[ev_hsync].oldcycles + HSYNCTIME) % WRAP

\* do_cycles keeps the types of the event table.
LEMMA LoopTypes ==
  ASSUME EventsTypeOK,
         (\E n \in Durations : do_cycles(n)) \/ JumpToEvent \/ PassTheRest \/ ScanDone
  PROVE  EventsTypeOK'
<1>0. /\ currcycle \in Time /\ nextevent \in Time /\ eventtab \in TableType
      /\ pc \in {"cpu", "loop", "scan"} /\ cycles_to_add \in 0..Max(Durations) /\ scanned \in 0..ev_max
  BY DEF EventsTypeOK, TableType
<1>1. Max(Durations) \in Nat /\ WRAP \in Nat
  BY EventSizes
<1> SUFFICES /\ currcycle' \in Time /\ nextevent' \in Time /\ eventtab' \in TableType
             /\ pc' \in {"cpu", "loop", "scan"} /\ cycles_to_add' \in 0..Max(Durations)
             /\ scanned' \in 0..ev_max
  BY DEF EventsTypeOK, TableType, Time, ev_max
<1>2. CASE \E n \in Durations : do_cycles(n)
  <2>1. PICK n \in Durations : do_cycles(n)
    BY <1>2
  <2>2. n \in 0 .. Max(Durations)
    BY <1>1, EventSizes
  <2> QED BY <1>0, <2>1, <2>2 DEF do_cycles
<1>3. CASE JumpToEvent
  <2>1. Until(nextevent) \in Nat
    <3>1. Gap(nextevent, currcycle) \in 0 .. WRAP - 1
      BY <1>0, Gaps
    <3> QED BY <1>1, <3>1 DEF Gap, Until
  <2>2. cycles_to_add - Until(nextevent) \in 0 .. Max(Durations)
    BY <1>0, <1>1, <1>3, <2>1 DEF JumpToEvent
  <2> QED BY <1>0, <1>3, <2>2 DEF JumpToEvent, ev_max
<1>4. CASE PassTheRest
  <2>1. After(cycles_to_add) \in Time
    BY <1>0, <1>1, TableTypes, EventSizes
  <2> QED BY <1>0, <1>1, <1>4, <2>1 DEF PassTheRest
<1>5. CASE ScanDone
  <2>1. nextevent' \in Time
    BY <1>0, <1>5, FirstOfAll DEF ScanDone, Reschedule
  <2> QED BY <1>0, <1>5, <2>1 DEF ScanDone, Reschedule, ev_max
<1> QED BY <1>2, <1>3, <1>4, <1>5

\* Time passes as far as the first event, or not as far: what is not nearer than
\* that event comes nearer by as much.
LEMMA TimePasses ==
  ASSUME EventsTypeOK, JumpToEvent \/ PassTheRest
  PROVE  \E k \in 0 .. WRAP - 1 :
           /\ currcycle' = (currcycle + k) % WRAP /\ k <= Gap(nextevent, currcycle)
           /\ PassTheRest => k < Gap(nextevent, currcycle)
           /\ \A t \in Time : k <= Gap(t, currcycle) => Gap(t, currcycle') = Gap(t, currcycle) - k
<1>0. /\ currcycle \in Time /\ nextevent \in Time /\ WRAP \in Nat
      /\ cycles_to_add \in Nat
  BY EventSizes DEF EventsTypeOK
<1>1. /\ Gap(nextevent, currcycle) \in 0 .. WRAP - 1
      /\ (currcycle + Gap(nextevent, currcycle)) % WRAP = nextevent
  BY <1>0, Gaps
<1>2. PICK k \in 0 .. WRAP - 1 :
        /\ currcycle' = (currcycle + k) % WRAP /\ k <= Gap(nextevent, currcycle)
        /\ PassTheRest => k < Gap(nextevent, currcycle)
  <2>1. CASE PassTheRest
    <3>1. Gap(nextevent, currcycle) > cycles_to_add
      BY <2>1 DEF PassTheRest, Until, Gap
    <3>2. cycles_to_add \in 0 .. WRAP - 1 /\ cycles_to_add < Gap(nextevent, currcycle)
      BY <1>0, <1>1, <3>1
    <3>3. cycles_to_add <= Gap(nextevent, currcycle)
      BY <1>0, <1>1, <3>2
    <3> QED BY <2>1, <3>2, <3>3 DEF PassTheRest, After
  <2>2. CASE JumpToEvent /\ ~ PassTheRest
    <3>1. Gap(nextevent, currcycle) <= Gap(nextevent, currcycle)
      BY <1>0, <1>1
    <3> QED BY <1>1, <2>2, <3>1 DEF JumpToEvent
  <2> QED BY <2>1, <2>2
<1>3. ASSUME NEW t \in Time, k <= Gap(t, currcycle)
      PROVE  Gap(t, currcycle') = Gap(t, currcycle) - k
  <2>1. Gap(t, (currcycle + k) % WRAP) = Gap(t, currcycle) - k
    BY <1>0, <1>3, Gaps
  <2> QED BY <1>2, <2>1
<1> QED BY <1>2, <1>3

\* What was set M cycles away at the cycle o and has not been passed since is as
\* much nearer as cycles have gone by since o.
LEMMA Elapsed ==
  ASSUME NEW c \in Time, NEW o \in Time, NEW M \in 0 .. WRAP - 1,
         Gap((o + M) % WRAP, c) <= M
  PROVE  Gap(c, o) = M - Gap((o + M) % WRAP, c)
<1> DEFINE e == (o + M) % WRAP
           k == Gap(c, o)
<1>0. WRAP \in Nat /\ WRAP > 1 /\ c \in 0 .. WRAP - 1 /\ o \in 0 .. WRAP - 1
  BY EventSizes DEF Time
<1>1. /\ e \in Time /\ Gap(e, o) = M /\ k \in 0 .. WRAP - 1 /\ c = (o + k) % WRAP
      /\ Gap(e, c) \in 0 .. WRAP - 1
  BY Gaps
<1>2. CASE k <= M
  <2>1. Gap(e, (o + k) % WRAP) = Gap(e, o) - k
    <3>1. k <= Gap(e, o)
      BY <1>1, <1>2
    <3> QED BY <1>1, <3>1, Gaps
  <2> HIDE DEF e, k
  <2>2. Gap(e, c) = M - k
    BY <1>1, <2>1
  <2>3. k = M - Gap(e, c)
    BY <1>0, <1>1, <2>2
  <2> QED BY <2>3 DEF e, k
<1>3. CASE M < k
  <2>1. Gap(c, e) = k - M
    <3>1. M <= Gap(c, o)
      BY <1>0, <1>1, <1>3
    <3> QED BY <1>1, <3>1, Gaps
  <2>2. Gap(c, e) = IF c >= e THEN c - e ELSE c - e + WRAP
    BY <1>1, GapIs
  <2>3. Gap(e, c) = IF e >= c THEN e - c ELSE e - c + WRAP
    BY <1>1, GapIs
  <2>4. e \in 0 .. WRAP - 1
    BY <1>1 DEF Time
  <2>5. Gap(e, c) <= M
    OBVIOUS
  <2> HIDE DEF e, k
  <2>6. Gap(c, e) + Gap(e, c) = WRAP
    BY <1>0, <1>1, <1>3, <2>1, <2>2, <2>3, <2>4
  <2> QED BY <1>0, <1>1, <1>3, <2>1, <2>5, <2>6
<1>4. M \in Int /\ k \in Int
  BY <1>1, <1>0
<1> QED BY <1>2, <1>3, <1>4

-----------------------------------------------------------------------------
(* The blitter: its event.                                                 *)

\* The table is a function on the events in use, whatever the cycles in it.
Table == eventtab = [e \in Ev |-> eventtab[e]]

\* The converse of PendingHasEvent.
EventIsOwned == Active(ev_blitter) => InProgress \/ ghost

IInv == Table /\ PendingHasEvent /\ EventIsOwned

\* The two events in use are different members of the table.
LEMMA EventsInUse == ev_hsync \in Ev /\ ev_blitter \in Ev /\ ev_hsync # ev_blitter
BY EventAssumption, BlitterAssumption
DEF EventAssumption, BlitterAssumption, ev_hsync, ev_blitter

-----------------------------------------------------------------------------
\* What the operators on the table do to the table and to the blitter's event.
LEMMA ArmBlitter ==
  ASSUME Table, NEW t, eventtab' = Arm(eventtab, ev_blitter, t)
  PROVE  Table' /\ Active(ev_blitter)'
BY EventsInUse DEF Table, Arm, Event, Active

\* Taking the blitter's event out keeps the table a table.
LEMMA DisarmBlitter ==
  ASSUME Table, eventtab' = Disarm(eventtab, ev_blitter)
  PROVE  Table' /\ ~ Active(ev_blitter)'
BY EventsInUse DEF Table, Disarm, Event, Active

\* A raster line ends or begins anew: the blitter's event is left alone.
LEMMA LineKeepsBlitter ==
  ASSUME Table, eventtab' = NextLine(eventtab) \/ eventtab' = HsyncRestarts(eventtab)
  PROVE  Table' /\ (Active(ev_blitter)' <=> Active(ev_blitter))
BY EventsInUse DEF Table, NextLine, HsyncRestarts, Arm, Event, Active

\* After a reset only the raster line is left.
LEMMA FreshTable ==
  ASSUME eventtab = HsyncOnly
  PROVE  Table /\ ~ Active(ev_blitter)
BY EventsInUse DEF Table, HsyncOnly, Event, Active

\* A table with the line event only, after a step.
LEMMA FreshTableNext ==
  ASSUME eventtab' = HsyncOnly
  PROVE  Table' /\ ~ Active(ev_blitter)'
BY EventsInUse DEF Table, HsyncOnly, Event, Active

-----------------------------------------------------------------------------
\* The handler, whoever calls it: the blit is done and its event gone, or the
\* event is armed again.
LEMMA HandlerKeeps ==
  ASSUME Table, blitter_handler
  PROVE  /\ Table'
         /\ Works => ~ InProgress' /\ ~ Active(ev_blitter)'
         /\ ~ Works => (InProgress' <=> InProgress) /\ Active(ev_blitter)'
<1>1. CASE Works
  <2>1. eventtab' = Disarm(eventtab, ev_blitter) /\ bltstate' = "done"
    BY <1>1 DEF blitter_handler, Handled, Finish
  <2> QED
    BY <1>1, <2>1, DisarmBlitter DEF InProgress
<1>2. CASE ~ Works
  <2>1. /\ \/ eventtab' = Arm(eventtab, ev_blitter, WAIT)
           \/ eventtab' = Arm(eventtab, ev_blitter, blit_slowdown)
        /\ bltstate' = bltstate
    BY <1>2 DEF blitter_handler, Handled, Finish
  <2> QED
    BY <1>2, <2>1, ArmBlitter DEF InProgress
<1> QED
  BY <1>1, <1>2

\* The first state.
LEMMA InitIInv == Init => IInv
BY FreshTable DEF Init, IInv, PendingHasEvent, EventIsOwned, InProgress

\* Every step.
LEMMA NextIInv == IInv /\ [Next]_vars => IInv'
<1> SUFFICES ASSUME IInv, [Next]_vars PROVE IInv'
  OBVIOUS
<1> USE DEF IInv
<1>1. ASSUME NEW hack \in {0, 1, 2}, NEW line \in {0, 1}, WriteRegister(hack, line)
      PROVE  IInv'
  <2>1. blitter_handler /\ ghost' = ghost /\ InProgress
    BY <1>1 DEF WriteRegister, MaybeBlits
  <2> QED
    BY <2>1, HandlerKeeps DEF PendingHasEvent, EventIsOwned
<1>2. ASSUME NEW n \in Blits \union {0}, NEW line \in {0, 1}, BLTSIZE(n, line)
      PROVE  IInv'
  <2>1. CASE n = 0
    <3>1. eventtab' = Disarm(eventtab, ev_blitter) /\ bltstate' = "done"
      BY <1>2, <2>1 DEF BLTSIZE
    <3> QED
      BY <3>1, DisarmBlitter DEF PendingHasEvent, EventIsOwned, InProgress
  <2>2. CASE n # 0
    <3>1. /\ eventtab' = Arm(eventtab, ev_blitter, IF immediate_blits THEN 1 ELSE n)
          /\ bltstate' \in {"init", "work"}
      BY <1>2, <2>2 DEF BLTSIZE, Reschedule
    <3> QED
      BY <3>1, ArmBlitter DEF PendingHasEvent, EventIsOwned, InProgress
  <2> QED
    BY <2>1, <2>2
<1>3. ASSUME NEW on \in {0, 1}, DMACON(on)
      PROVE  IInv'
  <2>1. eventtab' = eventtab /\ ghost' = ghost /\ (InProgress' <=> InProgress)
    BY <1>3 DEF DMACON, Reschedule, history, InProgress
  <2> QED
    BY <2>1 DEF Table, PendingHasEvent, EventIsOwned, Active
<1>4. CASE save_blitter
  <2>1. eventtab' = Disarm(eventtab, ev_blitter) /\ bltstate' = "done"
    BY <1>4 DEF save_blitter, Finish
  <2> QED
    BY <2>1, DisarmBlitter DEF PendingHasEvent, EventIsOwned, InProgress
<1>5. CASE RESET
  <2>1. /\ eventtab' = HsyncRestarts(eventtab) /\ bltstate' = "done"
        /\ ghost' = (ghost \/ Active(ev_blitter))
    BY <1>5 DEF RESET, Reschedule
  <2> QED
    BY <2>1, LineKeepsBlitter DEF PendingHasEvent, EventIsOwned, InProgress
<1>6. CASE do_reset_machine
  <2>1. eventtab' = HsyncOnly /\ bltstate' = "done"
    BY <1>6 DEF do_reset_machine, Reschedule
  <2> QED
    BY <2>1, FreshTableNext DEF PendingHasEvent, EventIsOwned, InProgress
<1>7. CASE BlitterEvent
  <2>1. blitter_handler /\ ghost' = (ghost /\ ~ Works) /\ Active(ev_blitter)
    BY <1>7 DEF BlitterEvent, Reaches, Due
  <2> QED
    BY <2>1, HandlerKeeps DEF PendingHasEvent, EventIsOwned
<1>8. CASE hsync_handler
  <2>1. eventtab' = NextLine(eventtab) /\ bltstate' = bltstate /\ ghost' = ghost
    BY <1>8 DEF hsync_handler, history
  <2> QED
    BY <2>1, LineKeepsBlitter DEF PendingHasEvent, EventIsOwned, InProgress
<1>9. CASE UNCHANGED <<eventtab, bltstate, ghost>>
  BY <1>9 DEF Table, PendingHasEvent, EventIsOwned, InProgress, Active
<1>10. ClearIntreq \/ Takes \/ UNCHANGED vars => UNCHANGED <<eventtab, bltstate, ghost>>
  BY DEF ClearIntreq, Takes, do_cycles, vars, eventVars, bltVars, history
<1>11. (JumpToEvent \/ PassTheRest \/ ScanDone) /\ UNCHANGED bltVars
         => UNCHANGED <<eventtab, bltstate, ghost>>
  BY DEF JumpToEvent, PassTheRest, ScanDone, Reschedule, bltVars, history
<1> QED
  BY <1>1, <1>2, <1>3, <1>4, <1>5, <1>6, <1>7, <1>8, <1>9, <1>10, <1>11
  DEF Next, Cpu, Emulate

\* Whenever the blitter works, the state before owned the blit.
LEMMA WorksOwned ==
  IInv /\ [Next]_vars => (blits_done' # blits_done => InProgress \/ ghost)
<1> SUFFICES ASSUME IInv, [Next]_vars, blits_done' # blits_done, ~ InProgress
             PROVE  ghost
  OBVIOUS
<1>1. ASSUME NEW hack \in {0, 1, 2}, NEW line \in {0, 1}, WriteRegister(hack, line)
      PROVE  FALSE
  BY <1>1 DEF WriteRegister, MaybeBlits
<1>2. ASSUME NEW n \in Blits \union {0}, NEW line \in {0, 1}, BLTSIZE(n, line)
      PROVE  FALSE
  BY <1>2 DEF BLTSIZE
<1>3. ASSUME NEW on \in {0, 1}, DMACON(on)
      PROVE  FALSE
  BY <1>3 DEF DMACON, irqVars
<1>4. ~ save_blitter
  BY DEF save_blitter, InProgress
<1>5. CASE BlitterEvent
  BY <1>5 DEF BlitterEvent, Reaches, Due, IInv, EventIsOwned
<1>6. ~ (RESET \/ do_reset_machine \/ hsync_handler)
  BY DEF RESET, do_reset_machine, hsync_handler, irqVars
<1>7. ~ (ClearIntreq \/ Takes \/ UNCHANGED vars \/ UNCHANGED bltVars)
  BY DEF ClearIntreq, Takes, vars, bltVars, irqVars
<1> QED
  BY <1>1, <1>2, <1>3, <1>4, <1>5, <1>6, <1>7 DEF Next, Cpu, Emulate

-----------------------------------------------------------------------------
\* The strengthening is an invariant.
THEOREM Invariance == Spec => []IInv
BY InitIInv, NextIInv, PTL DEF Spec

\* maybe_blit's "FOO!!?" (blitter.c:1117) is never logged: a blit in progress has
\* an event that will do it, for every constant of the model.
THEOREM PendingBlitHasEvent == Spec => []PendingHasEvent
<1>1. IInv => PendingHasEvent
  BY DEF IInv
<1> QED
  BY <1>1, Invariance, PTL

\* The blitter works only on a blit that was started and has not been done, or
\* on one that RESET cut off (custom.c:4624), for every constant of the model.
THEOREM NoSpuriousBlit == Spec => WorksOnlyWhenStarted
<1>1. IInv /\ [Next]_vars => [blits_done' # blits_done => InProgress \/ ghost]_vars
  BY WorksOwned
<1> QED
  BY <1>1, Invariance, PTL DEF Spec, WorksOnlyWhenStarted

-----------------------------------------------------------------------------
(* The blitter: types.                                                     *)

\* The sizes that are compared.
LEMMA Sizes ==
  /\ WRAP \in Nat /\ WRAP > 1
  /\ Longest \in Nat /\ Max(Durations) \in Nat /\ Longest + Max(Durations) < WRAP
  /\ WAIT \in 1 .. Longest /\ MaxSlow \in 0 .. Longest /\ HSYNCTIME \in 1 .. Longest
  /\ Blits \subseteq 1 .. Longest /\ \A n \in Durations : n \in 1 .. Max(Durations)
<1> USE EventAssumption, BlitterAssumption DEF EventAssumption, BlitterAssumption
<1>1. WRAP \in Nat /\ WRAP > 1
  OBVIOUS
<1>3. Max(Durations) \in Nat /\ \A n \in Durations : n \in 1 .. Max(Durations)
  BY EventSizes
<1> DEFINE S == Blits \union {WAIT, MaxSlow, HSYNCTIME}
           K == WRAP + WAIT + MaxSlow
<1>4. Max(S) \in S /\ \A x \in S : x <= Max(S)
  <2>1. S \in SUBSET Nat /\ S # {} /\ K \in Nat /\ \A x \in S : x <= K
    BY <1>1
  <2> HIDE DEF S, K
  <2> QED BY <2>1, MaxIs
<1>5. Longest = Max(S)
  BY DEF Longest
<1>6. Longest \in Nat /\ \A x \in S : x \in Nat /\ x <= Longest
  <2>1. \A x \in S : x \in Nat
    BY <1>1
  <2> QED BY ONLY <1>4, <1>5, <2>1
<1>7. Longest + Max(Durations) < WRAP
  BY <1>5
<1>8. WAIT \in 1 .. Longest /\ MaxSlow \in 0 .. Longest /\ HSYNCTIME \in 1 .. Longest
  BY <1>6
<1>9. Blits \subseteq 1 .. Longest
  BY <1>6
<1> QED BY <1>1, <1>3, <1>6, <1>7, <1>8, <1>9

\* Types, and the handler's count and delays.
LEMMA HandlerTypes ==
  ASSUME TypeOK
  PROVE  /\ eventtab \in TableType /\ currcycle \in Time
         /\ Handled \in TableType /\ Stuck \in 0 .. STUCK
         /\ IsSlowed => blit_slowdown \in 1 .. Longest
<1>1. eventtab \in TableType /\ currcycle \in Time
  BY DEF TypeOK, EventsTypeOK, TableType
<1>2. IsSlowed => blit_slowdown \in 1 .. Longest
  <2>1. blit_slowdown \in -1 .. MaxSlow
    BY DEF TypeOK
  <2> QED BY <2>1, Sizes DEF IsSlowed
<1>3. WAIT \in Nat /\ STUCK \in Nat
  BY BlitterAssumption DEF BlitterAssumption
<1>4. Handled \in TableType
  <2>1. Works \/ Waits \/ IsSlowed
    BY DEF Works
  <2> QED BY <1>1, <1>2, <1>3, <2>1, TableTypes, EventsInUse DEF Handled
<1>5. Stuck \in 0 .. STUCK
  <2>1. blitter_stuck \in 0 .. STUCK
    BY DEF TypeOK
  <2>2. Min({blitter_stuck + 1, STUCK}) \in {blitter_stuck + 1, STUCK} /\ Min({blitter_stuck + 1, STUCK}) <= STUCK
    <3>1. {blitter_stuck + 1, STUCK} \in SUBSET Nat /\ {blitter_stuck + 1, STUCK} # {}
      BY <1>3, <2>1
    <3> QED BY <3>1, MinIs
  <2>3. Min({blitter_stuck + 1, STUCK}) \in 0 .. STUCK
    BY <1>3, <2>1, <2>2
  <2> QED BY <1>3, <2>3 DEF Stuck
<1> QED BY <1>1, <1>2, <1>4, <1>5

\* The first state has them.
LEMMA TypesInit == Init => TypeOK
<1> SUFFICES ASSUME Init PROVE TypeOK
  OBVIOUS
<1>1. currcycle \in Time /\ 0 \in Time
  BY Sizes, EventAssumption DEF Init, EventsInit, EventAssumption, Time
<1>2. eventtab \in TableType
  <2>1. [e \in Ev |-> Event(0, 0, 0)] \in TableType
    BY <1>1 DEF TableType, Event
  <2>2. HsyncOnly \in TableType
    BY <1>1, <2>1, EventsInUse, TableTypes
  <2> QED BY <2>2 DEF Init
<1>3. nextevent \in Time
  BY <1>1, <1>2, FirstOfAll DEF Init
<1>4. EventsTypeOK
  BY <1>1, <1>2, <1>3, Sizes DEF Init, EventsInit, EventsTypeOK, TableType, ev_max
<1>5. MaxSlow \in Nat /\ STUCK \in Nat /\ MaxOps \in Nat
  BY BlitterAssumption DEF BlitterAssumption
<1>6. blit_slowdown \in -1..MaxSlow /\ blitter_stuck \in 0..STUCK /\ ops \in 0..MaxOps /\ blit_firstline_cycles \in Time
  BY <1>1, <1>5 DEF Init
<1>7. immediate_blits \in BOOLEAN /\ postponed \in BOOLEAN /\ ghost \in BOOLEAN
  BY DEF Init
<1>8. bltstate \in {"done", "init", "work"} /\ blitline \in {0, 1} /\ dma \in {0, 1} /\ irq \in {0, 1} /\ blits_done \in {0, 1}
  BY DEF Init
<1> QED BY <1>4, <1>6, <1>7, <1>8 DEF TypeOK

\* Every step of the program, the raster line, the blitter and time keeps them.
LEMMA TypesStay ==
  ASSUME TypeOK, [Next]_vars
  PROVE  TypeOK'
<1>0. /\ eventtab \in TableType /\ currcycle \in Time /\ nextevent \in Time
      /\ WRAP \in Nat /\ WRAP > 1
      /\ MaxSlow \in Nat /\ STUCK \in Nat /\ MaxOps \in Nat /\ FirstLine \in Nat
      /\ WAIT \in Nat /\ HSYNCTIME \in Nat /\ Blits \subseteq Nat /\ Max(Durations) \in Nat
  BY Sizes, HandlerTypes, BlitterAssumption DEF BlitterAssumption, TypeOK, EventsTypeOK
<1> DEFINE Rest == /\ bltstate \in {"done", "init", "work"} /\ blit_slowdown \in -1..MaxSlow
                   /\ blitline \in {0, 1} /\ blit_firstline_cycles \in Time
                   /\ blitter_stuck \in 0..STUCK /\ dma \in {0, 1} /\ irq \in {0, 1}
                   /\ immediate_blits \in BOOLEAN /\ postponed \in BOOLEAN /\ ghost \in BOOLEAN
                   /\ blits_done \in {0, 1} /\ ops \in 0..MaxOps
           Times == /\ currcycle \in Time /\ nextevent \in Time
                    /\ pc \in {"cpu", "loop", "scan"}
                    /\ cycles_to_add \in 0..Max(Durations)
                    /\ scanned \in 0..ev_max
<1>1. Rest /\ Times /\ TypeOK' <=> (Rest /\ Times /\ Rest' /\ Times' /\ (eventtab \in TableType)')
  BY DEF TypeOK, EventsTypeOK, TableType, Time, ev_max
<1>2. Rest /\ Times
  BY DEF TypeOK, EventsTypeOK
<1>3. ASSUME SameTime, nextevent' = nextevent \/ nextevent' = events_schedule(eventtab'), eventtab' \in TableType
      PROVE  Times'
  <2>1. events_schedule(eventtab') \in Time
    BY <1>0, <1>3, FirstOfAll
  <2> QED BY <1>2, <1>3, <2>1 DEF SameTime, Time, ev_max
<1>4. ASSUME Operates PROVE ops' \in 0 .. MaxOps
  <2>1. ops \in Nat
    BY <1>2
  <2> QED BY <1>0, <1>4, <2>1 DEF Operates
<1>5. ASSUME NEW on, Finish(on)
      PROVE  bltstate' \in {"done", "init", "work"} /\ irq' \in {0, 1} /\ blits_done' \in {0, 1}
  BY <1>2, <1>5 DEF Finish
<1>6. ASSUME blitter_handler
      PROVE  /\ eventtab' \in TableType /\ blitter_stuck' \in 0 .. STUCK /\ blit_slowdown' \in -1 .. MaxSlow
             /\ bltstate' \in {"done", "init", "work"} /\ irq' \in {0, 1} /\ blits_done' \in {0, 1}
             /\ UNCHANGED <<blit_firstline_cycles, dma>>
  <2>1. -1 \in -1 .. MaxSlow
    BY <1>0
  <2>2. blit_slowdown' \in -1 .. MaxSlow
    BY <1>2, <1>6, <2>1 DEF blitter_handler
  <2>3. Finish(Works) /\ UNCHANGED <<blit_firstline_cycles, dma>>
    BY <1>6 DEF blitter_handler
  <2>4. eventtab' \in TableType /\ blitter_stuck' \in 0 .. STUCK
    BY <1>6, HandlerTypes DEF blitter_handler
  <2> QED BY <1>5, <2>2, <2>3, <2>4
<1> HIDE DEF Times
<1>7. ASSUME NEW hack \in {0, 1, 2}, NEW line \in {0, 1}, WriteRegister(hack, line)
      PROVE  TypeOK'
  <2>1. /\ Operates /\ SameTime /\ blitter_handler /\ UNCHANGED <<nextevent, ghost>>
        /\ postponed' \in BOOLEAN /\ blitline' \in {0, 1}
    BY <1>2, <1>7 DEF WriteRegister
  <2>2. Times' /\ eventtab' \in TableType
    BY <1>3, <1>6, <2>1
  <2>3. Rest'
    BY <1>2, <1>4, <1>6, <2>1 DEF SameTime, Time
  <2> QED BY <1>1, <1>2, <2>2, <2>3
<1>8. ASSUME NEW n \in Blits \union {0}, NEW line \in {0, 1}, BLTSIZE(n, line)
      PROVE  TypeOK'
  <2>1. /\ Operates /\ SameTime /\ UNCHANGED dma
        /\ bltstate' \in {"done", "init", "work"} /\ blit_slowdown' = 0 /\ blitline' = line
        /\ irq' \in {0, 1} /\ blits_done' \in {0, 1} /\ postponed' = FALSE /\ ghost' = FALSE
    BY <1>2, <1>8 DEF BLTSIZE
  <2>2. blit_firstline_cycles' \in Time
    BY <1>0, <1>8, TableTypes, EventsInUse DEF BLTSIZE
  <2>3. blitter_stuck' \in 0 .. STUCK
    BY <1>2, <1>8, HandlerTypes DEF BLTSIZE
  <2>4. eventtab' \in TableType /\ (nextevent' = nextevent \/ nextevent' = events_schedule(eventtab'))
    <3>1. CASE n = 0
      BY <1>0, <1>8, <3>1, TableTypes, EventsInUse DEF BLTSIZE
    <3>2. CASE n # 0
      <4>1. (IF immediate_blits THEN 1 ELSE n) \in Nat
        BY <1>0
      <4> QED BY <1>0, <1>8, <3>2, <4>1, TableTypes, EventsInUse DEF BLTSIZE, Reschedule
    <3> QED BY <3>1, <3>2
  <2>5. Times'
    BY <1>3, <2>1, <2>4
  <2>6. Rest'
    <3>1. 0 \in -1 .. MaxSlow
      BY <1>0
    <3> QED BY <1>2, <1>4, <2>1, <2>2, <2>3, <3>1 DEF SameTime, Time
  <2> QED BY <1>1, <1>2, <2>4, <2>5, <2>6
<1>9. CASE (\E on \in {0, 1} : DMACON(on)) \/ save_blitter \/ RESET \/ do_reset_machine
  <2>1. eventtab' \in TableType /\ (nextevent' = nextevent \/ nextevent' = events_schedule(eventtab'))
    BY <1>0, <1>9, TableTypes, EventsInUse DEF DMACON, save_blitter, RESET, do_reset_machine, Reschedule, HsyncRestarts
  <2>2. Operates /\ SameTime
    BY <1>9 DEF DMACON, save_blitter, RESET, do_reset_machine
  <2>3. Rest'
    <3>1. CASE save_blitter
      BY <1>2, <1>4, <1>5, <2>2, <3>1 DEF SameTime, save_blitter, blit, Time
    <3>2. CASE ~ save_blitter
      BY <1>2, <1>4, <1>9, <2>2, <3>2 DEF SameTime, DMACON, RESET, do_reset_machine, blit, irqVars, history, Time
    <3> QED BY <3>1, <3>2
  <2> QED BY <1>1, <1>2, <1>3, <2>1, <2>2, <2>3
<1>10. CASE ClearIntreq
  BY <1>0, <1>1, <1>2, <1>10 DEF ClearIntreq, eventVars, blit, history, Time, Times, ev_max
<1>11. CASE BlitterEvent \/ hsync_handler
  <2>1. eventtab' \in TableType /\ UNCHANGED nextevent /\ UNCHANGED <<currcycle, pc, cycles_to_add>>
    <3>1. CASE BlitterEvent
      BY <1>6, <3>1 DEF BlitterEvent, Reaches
    <3>2. CASE hsync_handler
      BY <1>0, <3>2, TableTypes, EventsInUse DEF hsync_handler, Reaches
    <3> QED BY <1>11, <3>1, <3>2
  <2>2. scanned' \in 0 .. ev_max
    BY <1>11, EventAssumption, EventsInUse DEF BlitterEvent, hsync_handler, Reaches, EventAssumption, ev_max
  <2>3. Times'
    BY <1>2, <2>1, <2>2 DEF Times, Time, ev_max
  <2>4. Rest'
    <3>1. CASE BlitterEvent
      BY <1>2, <1>6, <3>1 DEF BlitterEvent, Time
    <3>2. CASE hsync_handler
      <4>1. blit_slowdown' \in -1 .. MaxSlow
        <5>1. ASSUME NEW k \in Slows, blit_slowdown >= 0, blit_slowdown + k <= MaxSlow PROVE blit_slowdown + k \in -1 .. MaxSlow
          BY <1>0, <1>2, <5>1, BlitterAssumption DEF BlitterAssumption
        <5> QED BY <1>2, <3>2, <5>1 DEF hsync_handler, Slowdown
      <4> QED BY <1>2, <3>2, <4>1 DEF hsync_handler, irqVars, history, Time
    <3> QED BY <1>11, <3>1, <3>2
  <2> QED BY <1>1, <1>2, <2>1, <2>3, <2>4
<1>12. CASE Takes \/ ((JumpToEvent \/ PassTheRest \/ ScanDone) /\ UNCHANGED bltVars)
  <2>1. eventtab' = eventtab /\ UNCHANGED bltVars
    BY <1>12 DEF Takes, do_cycles, JumpToEvent, PassTheRest, ScanDone, Reschedule
  <2>2. Rest'
    BY <1>2, <2>1 DEF bltVars, blit, irqVars, history, Time
  <2>3. Times'
    <3>1. CASE Takes
      <4>1. PICK n \in Durations : do_cycles(n)
        BY <3>1 DEF Takes
      <4>2. n \in 0 .. Max(Durations)
        BY <1>0, Sizes
      <4> QED BY <1>2, <4>1, <4>2 DEF do_cycles, Times, Time, ev_max
    <3>2. CASE JumpToEvent
      <4>1. Until(nextevent) \in Nat
        <5>1. Gap(nextevent, currcycle) \in 0 .. WRAP - 1
          BY <1>0, Gaps
        <5> QED BY <1>0, <5>1 DEF Gap, Until
      <4>2. cycles_to_add - Until(nextevent) \in 0 .. Max(Durations)
        BY <1>0, <1>2, <3>2, <4>1 DEF JumpToEvent, Times
      <4> QED BY <1>2, <3>2, <4>2 DEF JumpToEvent, Times, Time, ev_max
    <3>3. CASE PassTheRest
      <4>1. After(cycles_to_add) \in Time
        BY <1>0, <1>2, TableTypes, EventsInUse DEF Times
      <4> QED BY <1>0, <1>2, <3>3, <4>1 DEF PassTheRest, Times, Time, ev_max
    <3>4. CASE ScanDone
      <4>1. nextevent' \in Time
        BY <1>0, <2>1, <3>4, FirstOfAll DEF ScanDone, Reschedule
      <4> QED BY <1>2, <3>4, <4>1 DEF ScanDone, Times, Time, ev_max
    <3> QED BY <1>12, <3>1, <3>2, <3>3, <3>4
  <2> QED BY <1>0, <1>1, <1>2, <2>1, <2>2, <2>3
<1>13. CASE UNCHANGED vars
  BY <1>0, <1>1, <1>2, <1>13 DEF vars, eventVars, bltVars, blit, irqVars, history, Times, Time, ev_max
<1> QED
  BY <1>7, <1>8, <1>9, <1>10, <1>11, <1>12, <1>13 DEF Next, Cpu, Emulate

-----------------------------------------------------------------------------
(* The clock: what do_cycles relies on, and what the handlers owe it.      *)

\* An event that must not be passed by.
InTime(e) == Active(e) /\ ~ (e = ev_blitter /\ postponed)

\* No event is far; outside the scan none comes before nextevent; within, none
\* that is due is behind the index.
NoneFar == \A e \in Ev : InTime(e) => Ahead(e) <= Longest
NextIsFirst == pc # "scan" => \A e \in Ev : InTime(e) => Gap(nextevent, currcycle) <= Ahead(e)
NoneSkipped == pc = "scan" => \A e \in Ev : InTime(e) /\ Ahead(e) = 0 => e >= scanned

Clockwork == TypeOK /\ LineRuns /\ NoneFar /\ NextIsFirst /\ NoneSkipped

\* The handler touches the blitter's event only, and puts it a little ahead.
LEMMA HandlerMoves ==
  ASSUME TypeOK, blitter_handler
  PROVE  /\ \A e \in Ev \ {ev_blitter} : eventtab'[e] = eventtab[e]
         /\ Works => ~ Active(ev_blitter)'
         /\ ~ Works => \E k \in 1 .. Longest : eventtab'[ev_blitter] = Event(1, After(k), currcycle)
<1>0. eventtab \in TableType /\ WAIT \in 1 .. Longest
  BY HandlerTypes, Sizes
<1>1. CASE Works
  <2>1. eventtab' = Disarm(eventtab, ev_blitter)
    BY <1>1 DEF blitter_handler, Handled
  <2> QED BY <1>0, <1>1, <2>1, EventsInUse DEF Disarm, Event, Active, TableType
<1>2. CASE ~ Works
  <2>1. PICK k \in 1 .. Longest : eventtab' = Arm(eventtab, ev_blitter, k)
    <3>1. CASE Waits
      BY <1>0, <1>2, <3>1 DEF blitter_handler, Handled
    <3>2. CASE ~ Waits
      <4>1. IsSlowed
        BY <1>2, <3>2 DEF Works
      <4> QED BY <1>2, <3>2, <4>1, HandlerTypes DEF blitter_handler, Handled
    <3> QED BY <3>1, <3>2
  <2> QED BY <1>0, <1>2, <2>1, EventsInUse DEF Arm, TableType
<1> QED BY <1>1, <1>2

\* A line event set now is a line ahead; and so is the next one.
LEMMA LineMoves ==
  ASSUME Clockwork
  PROVE  /\ \A tab \in TableType :
               HsyncRestarts(tab) = [tab EXCEPT ![ev_hsync] = Event(1, After(HSYNCTIME), currcycle)]
         /\ eventtab[ev_hsync].evtime = currcycle =>
               NextLine(eventtab) = [eventtab EXCEPT ![ev_hsync] = Event(eventtab[ev_hsync].active, After(HSYNCTIME), currcycle)]
<1>1. \A tab \in TableType :
        HsyncRestarts(tab) = [tab EXCEPT ![ev_hsync] = Event(1, After(HSYNCTIME), currcycle)]
  BY DEF HsyncRestarts, Arm
<1>2. ASSUME eventtab[ev_hsync].evtime = currcycle
      PROVE  Since(eventtab[ev_hsync].oldcycles) = HSYNCTIME
  <2> DEFINE old == eventtab[ev_hsync].oldcycles
  <2>1. old \in Time /\ HSYNCTIME \in 0 .. WRAP - 1
    BY HandlerTypes, EventsInUse, EventAssumption DEF Clockwork, TableType, EventAssumption
  <2>2. (old + HSYNCTIME) % WRAP = currcycle
    BY <1>2 DEF Clockwork, LineRuns
  <2> HIDE DEF old
  <2>3. Gap(currcycle, old) = HSYNCTIME
    BY <2>1, <2>2, Gaps
  <2> QED BY <2>3 DEF Gap, Since, old
<1>3. ASSUME eventtab[ev_hsync].evtime = currcycle
      PROVE  NextLine(eventtab) = [eventtab EXCEPT ![ev_hsync] = Event(eventtab[ev_hsync].active, After(HSYNCTIME), currcycle)]
  BY <1>2, <1>3 DEF NextLine, After
<1> QED BY <1>1, <1>3

\* How the 68k's steps leave the events: as they are, out of the table, or a
\* little ahead of the present cycle; in the last case nextevent is found anew.
LEMMA CpuMoves ==
  ASSUME Clockwork, Cpu, ~ ClearIntreq
  PROVE  /\ pc = "cpu" /\ UNCHANGED <<currcycle, pc>>
         /\ \/ nextevent' = events_schedule(eventtab')
            \/ nextevent' = nextevent /\ \A e \in Ev : InTime(e)' => InTime(e) /\ eventtab'[e] = eventtab[e]
         /\ \A e \in Ev : InTime(e)' => \/ InTime(e) /\ eventtab'[e] = eventtab[e]
                                       \/ \E k \in 1 .. Longest : eventtab'[e].evtime = After(k)
         /\ \/ eventtab'[ev_hsync] = eventtab[ev_hsync]
            \/ \E a : eventtab'[ev_hsync] = Event(a, After(HSYNCTIME), currcycle)
<1>0. TypeOK /\ eventtab \in TableType /\ HSYNCTIME \in 1 .. Longest /\ Blits \subseteq 1 .. Longest /\ 1 \in 1 .. Longest
  BY HandlerTypes, Sizes DEF Clockwork
<1>1. ASSUME NEW hack \in {0, 1, 2}, NEW line \in {0, 1}, WriteRegister(hack, line)
      PROVE  /\ eventtab'[ev_hsync] = eventtab[ev_hsync] /\ nextevent' = nextevent
             /\ \A e \in Ev : InTime(e)' => InTime(e) /\ eventtab'[e] = eventtab[e]
  <2>1. blitter_handler /\ postponed' = ~ Works /\ nextevent' = nextevent
    BY <1>1 DEF WriteRegister
  <2> QED BY <1>0, <2>1, HandlerMoves, EventsInUse DEF InTime, Active
<1>2. ASSUME eventtab' = Disarm(eventtab, ev_blitter)
      PROVE  /\ eventtab'[ev_hsync] = eventtab[ev_hsync]
             /\ \A e \in Ev : InTime(e)' => InTime(e) /\ eventtab'[e] = eventtab[e]
  BY <1>0, <1>2, EventsInUse DEF Disarm, Event, InTime, Active, TableType
<1>3. ASSUME NEW n \in Blits \union {0}, NEW line \in {0, 1}, BLTSIZE(n, line), n # 0
      PROVE  /\ eventtab'[ev_hsync] = eventtab[ev_hsync] /\ nextevent' = events_schedule(eventtab')
             /\ \A e \in Ev : InTime(e)' => \/ InTime(e) /\ eventtab'[e] = eventtab[e]
                                         \/ \E k \in 1 .. Longest : eventtab'[e].evtime = After(k)
  <2>1. PICK k \in 1 .. Longest : eventtab' = Arm(eventtab, ev_blitter, k)
    BY <1>0, <1>3 DEF BLTSIZE, Reschedule
  <2>2. eventtab'[ev_blitter].evtime = After(k) /\ \A e \in Ev \ {ev_blitter} : eventtab'[e] = eventtab[e]
    BY <1>0, <2>1, EventsInUse DEF Arm, Event, TableType
  <2> QED BY <1>3, <2>2, EventsInUse DEF BLTSIZE, Reschedule, InTime, Active
<1>4. ASSUME NEW on \in {0, 1}, DMACON(on)
      PROVE  eventtab' = eventtab /\ nextevent' = events_schedule(eventtab') /\ UNCHANGED postponed
  BY <1>4 DEF DMACON, Reschedule, history
<1>5. CASE RESET
  <2>1. /\ nextevent' = events_schedule(eventtab') /\ postponed' = postponed
        /\ eventtab' = [eventtab EXCEPT ![ev_hsync] = Event(1, After(HSYNCTIME), currcycle)]
    BY <1>0, <1>5, LineMoves DEF RESET, Reschedule
  <2>2. /\ eventtab'[ev_hsync] = Event(1, After(HSYNCTIME), currcycle)
        /\ eventtab'[ev_hsync].evtime = After(HSYNCTIME)
        /\ \A e \in Ev \ {ev_hsync} : eventtab'[e] = eventtab[e]
    BY <1>0, <2>1, EventsInUse DEF TableType, Event
  <2>3. pc = "cpu" /\ UNCHANGED <<currcycle, pc>>
    BY <1>5 DEF RESET, Operates, SameTime
  <2> QED BY <1>0, <2>1, <2>2, <2>3 DEF InTime, Active
<1>6. CASE do_reset_machine
  <2>1. nextevent' = events_schedule(eventtab') /\ eventtab' = HsyncOnly
    BY <1>6 DEF do_reset_machine, Reschedule
  <2>2. /\ eventtab'[ev_hsync] = Event(1, After(HSYNCTIME), currcycle)
        /\ eventtab'[ev_hsync].evtime = After(HSYNCTIME)
        /\ \A e \in Ev \ {ev_hsync} : eventtab'[e].active = 0
    BY <2>1, EventsInUse DEF HsyncOnly, Event
  <2>3. pc = "cpu" /\ UNCHANGED <<currcycle, pc>>
    BY <1>6 DEF do_reset_machine, Operates, SameTime
  <2> QED BY <1>0, <2>1, <2>2, <2>3 DEF InTime, Active
<1>7. ASSUME NEW n \in Blits \union {0}, NEW line \in {0, 1}, BLTSIZE(n, line), n = 0
      PROVE  eventtab' = Disarm(eventtab, ev_blitter) /\ nextevent' = nextevent
  BY <1>7 DEF BLTSIZE
<1>8. save_blitter => eventtab' = Disarm(eventtab, ev_blitter) /\ nextevent' = nextevent
  BY DEF save_blitter
<1>9. pc = "cpu" /\ UNCHANGED <<currcycle, pc>>
  BY DEF Cpu, WriteRegister, BLTSIZE, DMACON, save_blitter, RESET, do_reset_machine, Operates, SameTime
<1>10. CASE \E on \in {0, 1} : DMACON(on)
  BY <1>4, <1>9, <1>10 DEF InTime, Active
<1> QED BY <1>1, <1>2, <1>3, <1>5, <1>6, <1>7, <1>8, <1>9, <1>10 DEF Cpu

\* At first the line event is the only one.
LEMMA ClockworkInit == Init => Clockwork
<1> SUFFICES ASSUME Init PROVE Clockwork
  OBVIOUS
<1>1. TypeOK /\ currcycle \in Time /\ eventtab \in TableType
  BY TypesInit, HandlerTypes
<1>2. pc = "cpu" /\ eventtab = HsyncOnly /\ nextevent = events_schedule(eventtab)
  BY DEF Init, EventsInit
<1>3. /\ eventtab[ev_hsync] = Event(1, After(HSYNCTIME), currcycle)
      /\ \A e \in Ev \ {ev_hsync} : ~ Active(e)
  BY <1>2, EventsInUse DEF HsyncOnly, Event, Active
<1>4. LineRuns
  BY <1>3 DEF LineRuns, Event, After
<1>5. NoneFar
  <2>1. Gap(After(HSYNCTIME), currcycle) = HSYNCTIME
    BY <1>1, Gaps, EventAssumption DEF EventAssumption, After
  <2>2. Ahead(ev_hsync) = HSYNCTIME
    BY <1>3, <2>1 DEF Ahead, Event
  <2> QED BY <1>3, <2>2, Sizes DEF NoneFar, InTime
<1>6. NextIsFirst /\ NoneSkipped
  BY <1>1, <1>2, FirstOfAll DEF NextIsFirst, NoneSkipped, InTime, Active, Ahead
<1> QED BY <1>1, <1>4, <1>5, <1>6 DEF Clockwork

\* No step passes an event by: the 68k's steps look for the first event again or
\* take events away, handlers put theirs ahead, and time goes no further than
\* the first event.
LEMMA ClockworkStays == Clockwork /\ [Next]_vars => Clockwork'
<1> SUFFICES ASSUME Clockwork, [Next]_vars PROVE Clockwork'
  OBVIOUS
<1>1. TypeOK /\ TypeOK' /\ LineRuns /\ NoneFar /\ NextIsFirst /\ NoneSkipped
  BY TypesStay DEF Clockwork
<1>2. /\ eventtab \in TableType /\ eventtab' \in TableType /\ currcycle \in Time /\ currcycle' \in Time
      /\ nextevent \in Time /\ WRAP \in Nat /\ Longest \in Nat
      /\ \A k \in 0 .. Longest : k \in 0 .. WRAP - 1
      /\ \A k \in 0 .. Max(Durations) : k \in 0 .. WRAP - 1
  BY <1>1, HandlerTypes, Sizes DEF TypeOK, EventsTypeOK, TableType, Time
<1>3. \A e \in Ev : eventtab[e].evtime \in Time /\ Ahead(e) \in 0 .. WRAP - 1 /\ (Ahead(e) = 0 <=> eventtab[e].evtime = currcycle)
  BY <1>2, Gaps DEF TableType, Ahead
<1>4. \A k \in 0 .. Longest : Gap(After(k), currcycle) = k
  BY <1>2, Gaps DEF After
<1>5. CASE Cpu /\ ~ ClearIntreq
  <2>1. /\ pc = "cpu" /\ UNCHANGED <<currcycle, pc>>
        /\ \/ nextevent' = events_schedule(eventtab')
           \/ nextevent' = nextevent /\ \A e \in Ev : InTime(e)' => InTime(e) /\ eventtab'[e] = eventtab[e]
        /\ \A e \in Ev : InTime(e)' => \/ InTime(e) /\ eventtab'[e] = eventtab[e]
                                      \/ \E k \in 1 .. Longest : eventtab'[e].evtime = After(k)
        /\ \/ eventtab'[ev_hsync] = eventtab[ev_hsync]
           \/ \E a : eventtab'[ev_hsync] = Event(a, After(HSYNCTIME), currcycle)
    BY <1>5, CpuMoves
  <2>2. LineRuns'
    <3>1. CASE eventtab'[ev_hsync] = eventtab[ev_hsync]
      BY <1>1, <2>1, <3>1 DEF LineRuns
    <3>2. CASE \E a : eventtab'[ev_hsync] = Event(a, After(HSYNCTIME), currcycle)
      <4>1. PICK a : eventtab'[ev_hsync] = Event(a, After(HSYNCTIME), currcycle)
        BY <3>2
      <4>2. eventtab'[ev_hsync].evtime = After(HSYNCTIME) /\ eventtab'[ev_hsync].oldcycles = currcycle
        BY <4>1 DEF Event
      <4> QED BY <4>2 DEF LineRuns, After
    <3> QED BY <2>1, <3>1, <3>2
  <2>3. NoneFar'
    <3> SUFFICES ASSUME NEW e \in Ev, InTime(e)' PROVE Gap(eventtab'[e].evtime, currcycle) <= Longest
      BY <2>1 DEF NoneFar, Ahead
    <3>1. CASE InTime(e) /\ eventtab'[e] = eventtab[e]
      BY <1>1, <3>1 DEF NoneFar, Ahead
    <3>2. CASE \E k \in 1 .. Longest : eventtab'[e].evtime = After(k)
      BY <1>2, <1>4, <3>2
    <3> QED BY <2>1, <3>1, <3>2
  <2>4. NextIsFirst'
    <3> SUFFICES ASSUME NEW e \in Ev, InTime(e)'
                 PROVE  Gap(nextevent', currcycle) <= Gap(eventtab'[e].evtime, currcycle)
      BY <2>1 DEF NextIsFirst, Ahead
    <3>1. CASE nextevent' = events_schedule(eventtab')
      <4>1. eventtab'[e].active = 1
        BY DEF InTime, Active
      <4> QED BY <1>2, <3>1, <4>1, FirstOfAll
    <3>2. CASE nextevent' = nextevent /\ InTime(e) /\ eventtab'[e] = eventtab[e]
      BY <1>1, <2>1, <3>2 DEF NextIsFirst, Ahead
    <3> QED BY <2>1, <3>1, <3>2
  <2> QED BY <1>1, <2>1, <2>2, <2>3, <2>4 DEF Clockwork, NoneSkipped
<1>6. CASE BlitterEvent \/ hsync_handler
  <2>1. PICK h \in Ev : Reaches(h) /\ (h = ev_blitter \/ h = ev_hsync) /\ (BlitterEvent => h = ev_blitter) /\ (hsync_handler /\ ~ BlitterEvent => h = ev_hsync)
    BY <1>6, EventsInUse DEF BlitterEvent, hsync_handler
  <2>2. /\ pc = "scan" /\ UNCHANGED <<currcycle, pc>> /\ scanned' = h + 1
        /\ Active(h) /\ eventtab[h].evtime = currcycle
        /\ \A x \in Ev : x >= scanned /\ Active(x) /\ eventtab[x].evtime = currcycle => h <= x
    BY <2>1 DEF Reaches, Due
  <2>3. /\ \A e \in Ev \ {h} : eventtab'[e] = eventtab[e]
        /\ InTime(h)' => \E k \in 1 .. Longest : eventtab'[h].evtime = After(k)
        /\ h = ev_hsync => eventtab'[h].evtime = After(HSYNCTIME) /\ eventtab'[h].oldcycles = currcycle
        /\ \A e \in Ev \ {h} : InTime(e)' => InTime(e)
    <3>1. CASE BlitterEvent
      <4>1. h = ev_blitter /\ blitter_handler /\ postponed' = FALSE
        BY <2>1, <3>1 DEF BlitterEvent
      <4>2. InTime(h)' => \E k \in 1 .. Longest : eventtab'[h].evtime = After(k)
        <5>1. InTime(h)' => Active(ev_blitter)'
          BY <4>1 DEF InTime, Active
        <5>2. CASE Active(ev_blitter)'
          <6>1. PICK k \in 1 .. Longest : eventtab'[ev_blitter] = Event(1, After(k), currcycle)
            BY <1>1, <4>1, <5>2, HandlerMoves
          <6>2. eventtab'[ev_blitter].evtime = After(k)
            BY <6>1 DEF Event
          <6> QED BY <4>1, <6>2
        <5> QED BY <5>1, <5>2
      <4>3. \A e \in Ev \ {h} : eventtab'[e] = eventtab[e]
        BY <1>1, <4>1, HandlerMoves
      <4> QED BY <4>1, <4>2, <4>3, EventsInUse DEF InTime, Active
    <3>2. CASE hsync_handler /\ ~ BlitterEvent
      <4>1. /\ h = ev_hsync /\ postponed' = postponed
            /\ eventtab' = [eventtab EXCEPT ![h] = Event(eventtab[h].active, After(HSYNCTIME), currcycle)]
        BY <2>1, <2>2, <3>2, LineMoves DEF hsync_handler, history
      <4>2. /\ eventtab'[h] = Event(eventtab[h].active, After(HSYNCTIME), currcycle)
            /\ \A e \in Ev \ {h} : eventtab'[e] = eventtab[e]
        BY <1>2, <4>1 DEF TableType
      <4>3. eventtab'[h].evtime = After(HSYNCTIME) /\ eventtab'[h].oldcycles = currcycle
        BY <4>2 DEF Event
      <4> QED BY <4>1, <4>2, <4>3, Sizes DEF InTime, Active
    <3> QED BY <1>6, <3>1, <3>2
  <2>4. LineRuns'
    <3>1. CASE h = ev_hsync
      BY <2>3, <3>1 DEF LineRuns, After
    <3>2. CASE h # ev_hsync
      BY <1>1, <2>3, <3>2, EventsInUse DEF LineRuns
    <3> QED BY <3>1, <3>2
  <2>5. \A e \in Ev : InTime(e)' => (e # h /\ InTime(e) /\ eventtab'[e] = eventtab[e]) \/ (e = h /\ Gap(eventtab'[e].evtime, currcycle) \in 1 .. Longest)
    <3>1. \A k \in 1 .. Longest : k \in 0 .. Longest
      BY <1>2
    <3> QED BY <1>4, <2>3, <3>1
  <2>6. NoneFar'
    <3> SUFFICES ASSUME NEW e \in Ev, InTime(e)' PROVE Gap(eventtab'[e].evtime, currcycle) <= Longest
      BY <2>2 DEF NoneFar, Ahead
    <3> QED BY <1>1, <1>2, <2>5 DEF NoneFar, Ahead
  <2>7. NoneSkipped'
    <3> SUFFICES ASSUME NEW e \in Ev, InTime(e)', Gap(eventtab'[e].evtime, currcycle) = 0 PROVE e >= h + 1
      BY <2>2 DEF NoneSkipped, Ahead
    <3>1. e # h /\ InTime(e) /\ eventtab'[e] = eventtab[e]
      BY <2>5
    <3>2. Ahead(e) = 0 /\ Active(e)
      BY <3>1 DEF Ahead, InTime
    <3>3. e >= scanned /\ eventtab[e].evtime = currcycle
      BY <1>1, <1>3, <2>2, <3>1, <3>2 DEF NoneSkipped
    <3>4. h <= e
      BY <2>2, <3>2, <3>3
    <3>5. e \in Int /\ h \in Int
      BY EventAssumption DEF EventAssumption, ev_max
    <3> QED BY <3>1, <3>4, <3>5
  <2>8. NextIsFirst'
    BY <2>2 DEF NextIsFirst
  <2> QED BY <1>1, <2>4, <2>6, <2>7, <2>8 DEF Clockwork
<1>7. CASE (JumpToEvent \/ PassTheRest) /\ UNCHANGED bltVars
  <2>1. PICK k \in 0 .. WRAP - 1 :
          /\ currcycle' = (currcycle + k) % WRAP /\ k <= Gap(nextevent, currcycle)
    <3>1. CASE JumpToEvent
      <4>1. Gap(nextevent, currcycle) \in 0 .. WRAP - 1 /\ (currcycle + Gap(nextevent, currcycle)) % WRAP = nextevent
        BY <1>2, Gaps
      <4>2. Gap(nextevent, currcycle) <= Gap(nextevent, currcycle)
        BY <1>2, <4>1
      <4> QED BY <3>1, <4>1, <4>2 DEF JumpToEvent
    <3>2. CASE PassTheRest
      <4>1. cycles_to_add \in 0 .. WRAP - 1
        BY <1>1, <1>2 DEF TypeOK, EventsTypeOK
      <4>2. Gap(nextevent, currcycle) \in 0 .. WRAP - 1 /\ Gap(nextevent, currcycle) > cycles_to_add
        BY <1>2, <3>2, Gaps DEF PassTheRest, Until, Gap
      <4>3. cycles_to_add <= Gap(nextevent, currcycle)
        BY <1>2, <4>1, <4>2
      <4> QED BY <3>2, <4>1, <4>3 DEF PassTheRest, After
    <3> QED BY <1>7, <3>1, <3>2
  <2>2. pc = "loop" /\ UNCHANGED <<nextevent, eventtab, postponed>>
    BY <1>7 DEF JumpToEvent, PassTheRest, bltVars, history
  <2>3. \A e \in Ev : InTime(e)' => InTime(e)
    BY <2>2 DEF InTime, Active
  <2>4. \A t \in Time : k <= Gap(t, currcycle) => Gap(t, currcycle') = Gap(t, currcycle) - k
    BY <1>2, <2>1, Gaps
  <2>5. Gap(nextevent, currcycle) \in 0 .. WRAP - 1
    BY <1>2, Gaps
  <2>6. ASSUME NEW e \in Ev, InTime(e)'
        PROVE  /\ Gap(eventtab[e].evtime, currcycle') <= Longest
               /\ Gap(nextevent, currcycle') <= Gap(eventtab[e].evtime, currcycle')
    <3> DEFINE g == Gap(eventtab[e].evtime, currcycle)
               n == Gap(nextevent, currcycle)
    <3>1. n <= g /\ g <= Longest /\ g \in 0 .. WRAP - 1 /\ n \in 0 .. WRAP - 1 /\ eventtab[e].evtime \in Time
      BY <1>1, <1>3, <2>2, <2>3, <2>5, <2>6 DEF NextIsFirst, NoneFar, Ahead
    <3>2. k <= n
      BY <2>1
    <3>3. k <= g
      <4> HIDE DEF g, n
      <4> QED BY <1>2, <2>1, <3>1, <3>2
    <3>4. Gap(eventtab[e].evtime, currcycle') = g - k /\ Gap(nextevent, currcycle') = n - k
      BY <1>2, <2>4, <3>1, <3>2, <3>3
    <3> HIDE DEF g, n
    <3> QED BY <1>2, <2>1, <3>1, <3>4
  <2>7. NoneFar' /\ NextIsFirst' /\ LineRuns'
    BY <1>1, <2>2, <2>6 DEF NoneFar, NextIsFirst, LineRuns, Ahead
  <2>8. NoneSkipped'
    <3>1. pc' = "scan" => scanned' = 0
      BY <1>7, <2>2 DEF JumpToEvent, PassTheRest
    <3>2. \A e \in Ev : e >= 0
      BY EventAssumption DEF EventAssumption, ev_max
    <3> QED BY <3>1, <3>2 DEF NoneSkipped
  <2> QED BY <1>1, <2>7, <2>8 DEF Clockwork
<1>8. CASE ScanDone /\ UNCHANGED bltVars
  <2>1. pc' = "loop" /\ UNCHANGED <<currcycle, eventtab, postponed>> /\ nextevent' = events_schedule(eventtab)
    BY <1>8 DEF ScanDone, Reschedule, bltVars, history
  <2>2. NoneFar' /\ LineRuns'
    BY <1>1, <2>1 DEF NoneFar, LineRuns, Ahead, InTime, Active
  <2>3. NextIsFirst'
    BY <1>2, <2>1, FirstOfAll DEF NextIsFirst, Ahead, InTime, Active
  <2> QED BY <1>1, <2>1, <2>2, <2>3 DEF Clockwork, NoneSkipped
<1>9. CASE Takes \/ ClearIntreq \/ UNCHANGED vars
  <2>1. UNCHANGED <<currcycle, eventtab, nextevent, postponed>>
    BY <1>9 DEF Takes, do_cycles, ClearIntreq, vars, eventVars, bltVars, history
  <2>2. UNCHANGED <<pc, scanned>> \/ (pc = "cpu" /\ pc' = "loop")
    BY <1>9 DEF Takes, do_cycles, ClearIntreq, vars, eventVars
  <2> QED BY <1>1, <2>1, <2>2 DEF Clockwork, NoneFar, NextIsFirst, NoneSkipped, LineRuns, Ahead, InTime, Active
<1> QED BY <1>5, <1>6, <1>7, <1>8, <1>9 DEF Next, Emulate

\* Time passes no event by, whatever the counter wraps to and however long blits,
\* lines and instructions are, but for one that a register write put off.
THEOREM NoEventIsPassedBy == Spec => []PassedOnlyWhenPostponed
<1>1. Clockwork => PassedOnlyWhenPostponed
  <2> SUFFICES ASSUME Clockwork PROVE PassedOnlyWhenPostponed
    OBVIOUS
  <2>1. TypeOK /\ NoneFar /\ Longest \in Nat /\ currcycle \in Time
    BY Sizes, HandlerTypes DEF Clockwork
  <2>2. \A e \in Ev : Ahead(e) \in 0 .. WRAP - 1
    BY <2>1, Gaps, HandlerTypes DEF Ahead, TableType
  <2>3. \A e \in Ev : InTime(e) => ~ (Ahead(e) > Longest)
    BY <2>1, <2>2, Sizes DEF NoneFar
  <2>4. \A e \in Ev : Passed(e, Longest) => Active(e) /\ Ahead(e) > Longest
    BY DEF Passed, Until, Ahead, Gap
  <2> QED BY <2>1, <2>3, <2>4 DEF PassedOnlyWhenPostponed, InTime
<1> QED BY <1>1, ClockworkInit, ClockworkStays, PTL DEF Spec

-----------------------------------------------------------------------------
(* Division, for the E clocks in a number of cycles.                       *)

\* Quotient and remainder.
LEMMA Quotients ==
  ASSUME NEW D \in Nat \ {0}, NEW x \in Nat
  PROVE  x \div D \in Nat /\ x % D \in 0 .. D - 1 /\ x = D * (x \div D) + (x % D)
<1>1. x % D \in 0 .. D - 1
  OBVIOUS
<1>2. x = D * (x \div D) + (x % D)
  OBVIOUS
<1>3. x \div D \in Nat
  OBVIOUS
<1> QED BY <1>1, <1>2, <1>3

\* There are no others.
LEMMA QuotientIs ==
  ASSUME NEW D \in Nat \ {0}, NEW q \in Nat, NEW r \in 0 .. D - 1
  PROVE  (D * q + r) \div D = q /\ (D * q + r) % D = r
OBVIOUS

\* A product grows with its factor.
LEMMA MultMono ==
  ASSUME NEW D \in Nat, NEW a \in Int, NEW b \in Int, a <= b
  PROVE  D * a <= D * b
<1>1. b - a \in Nat
  OBVIOUS
<1>2. \A u \in Nat, v \in Nat : u * v \in Nat
  OBVIOUS
<1>3. D * (b - a) \in Nat
  BY <1>1, <1>2
<1>4. D * (b - a) = D * b - D * a
  OBVIOUS
<1>5. D * a \in Int /\ D * b \in Int
  OBVIOUS
<1> QED BY <1>3, <1>4, <1>5

\* So many clocks of D cycles have passed, or fewer, or more.
LEMMA QuotientBounds ==
  ASSUME NEW D \in Nat \ {0}, NEW x \in Nat, NEW q \in Nat
  PROVE  /\ x <= D * q => x \div D <= q
         /\ x < D * q => x \div D < q
         /\ D * q <= x => q <= x \div D
<1> DEFINE y == x \div D
           r == x % D
<1>1. y \in Nat /\ r \in 0 .. D - 1 /\ x = D * y + r
  BY Quotients
<1> HIDE DEF y, r
<1>2. D * y \in Nat /\ D * q \in Nat
  BY <1>1
<1>3. ASSUME q + 1 <= y PROVE D * q + D <= D * y
  <2>1. D * (q + 1) <= D * y
    BY <1>1, <1>3, MultMono
  <2>2. D * (q + 1) = D * q + D
    OBVIOUS
  <2> QED BY <2>1, <2>2
<1>4. ASSUME q <= y PROVE D * q <= D * y
  BY <1>1, <1>4, MultMono
<1>5. ASSUME y + 1 <= q PROVE D * y + D <= D * q
  <2>1. D * (y + 1) <= D * q
    BY <1>1, <1>5, MultMono
  <2>2. D * (y + 1) = D * y + D
    BY <1>1
  <2> QED BY <2>1, <2>2
<1>6. (x <= D * q => y <= q) /\ (x < D * q => y < q) /\ (D * q <= x => q <= y)
  BY <1>1, <1>2, <1>3, <1>4, <1>5
<1> QED BY <1>6 DEF y

-----------------------------------------------------------------------------
(* The chips: sizes, and what CIA_update makes of a chip.                  *)

\* The sizes of the timers.
LEMMA CiaSizes ==
  /\ DIV10 \in Nat \ {0} /\ BYTE \in Nat \ {0} /\ BITS \in Nat
  /\ BYTE * BYTE \in Nat \ {0} /\ DIV10 * BYTE * BYTE \in 1 .. WRAP - 1
  /\ \A t \in TimerValues : t \in Nat /\ DIV10 * t \in Nat /\ DIV10 * t + DIV10 <= DIV10 * BYTE * BYTE
  /\ ev_cia \in Ev /\ ev_hsync \in Ev /\ ev_cia # ev_hsync
<1>1. DIV10 \in Nat \ {0} /\ BYTE \in Nat \ {0} /\ BITS \in Nat /\ ev_cia \in Ev
  BY CiaAssumption DEF CiaAssumption
<1>2. BYTE * BYTE \in Nat \ {0}
  BY <1>1
<1> DEFINE P == BYTE * BYTE
<1>3. DIV10 * BYTE * BYTE = DIV10 * P /\ DIV10 * P \in Nat \ {0}
  BY <1>1, <1>2
<1>4. DIV10 * P < WRAP
  <2>1. DIV10 * BYTE * BYTE + Max(Durations) < WRAP
    BY CiaAssumption DEF CiaAssumption
  <2> QED BY <1>3, <2>1, EventSizes
<1>5. ASSUME NEW t \in TimerValues
      PROVE  t \in Nat /\ DIV10 * t \in Nat /\ DIV10 * t + DIV10 <= DIV10 * P
  <2>1. t \in Nat /\ t + 1 <= P /\ P \in Nat
    BY <1>2 DEF TimerValues
  <2> HIDE DEF P
  <2>2. DIV10 * (t + 1) <= DIV10 * P
    BY <1>1, <2>1, MultMono
  <2>3. DIV10 * (t + 1) = DIV10 * t + DIV10 /\ DIV10 * t \in Nat
    BY <1>1, <2>1
  <2> QED BY <2>1, <2>2, <2>3
<1> QED BY <1>1, <1>2, <1>3, <1>4, <1>5, EventSizes DEF ev_cia, ev_hsync

\* What CIA_update makes of each register.
TaAfter(c, n) == IF AOver(c, n) THEN c.la ELSE IF ARuns(c) THEN c.ta - n ELSE c.ta
TbAfter(c, n) ==
  IF BOver(c, n) THEN c.lb
  ELSE IF BRuns(c) THEN c.tb - n
  ELSE IF Cascaded(c) /\ AOver(c, n) THEN c.tb - 1 ELSE c.tb
CraAfter(c, n) == [c.cra EXCEPT !.start = IF AOver(c, n) /\ c.cra.oneshot = 1 THEN 0 ELSE @]
CrbAfter(c, n) == [c.crb EXCEPT !.start = IF BOver(c, n) /\ c.crb.oneshot = 1 THEN 0 ELSE @]
SdrAfter(c, n) == IF Shifts(c, n) THEN c.sdr_cnt - 1 ELSE c.sdr_cnt
IcrAfter(c, n) == c.icr \union Overflows(c, n)
IrAfter(c, n) ==
  IF Overflows(c, n) = {} THEN c.ir
  ELSE IF IcrAfter(c, n) \intersect c.imask # {} THEN 1 ELSE 0

\* A chip, register by register.
Chip(ta, la, tb, lb, cra, crb, sdr_cnt, icr, imask, ir) ==
  [ta |-> ta, la |-> la, tb |-> tb, lb |-> lb, cra |-> cra, crb |-> crb,
   sdr_cnt |-> sdr_cnt, icr |-> icr, imask |-> imask, ir |-> ir]

\* The assignments of CIA_update.
Assign(c, ta, tb, a, b, sdr_cnt, icr) ==
  [c EXCEPT !.ta = ta, !.tb = tb, !.cra.start = a, !.crb.start = b,
            !.sdr_cnt = sdr_cnt, !.icr = icr]

\* What is assigned is assigned, the rest stays.
LEMMA Assigned ==
  ASSUME NEW pa, NEW la, NEW pb, NEW lb, NEW cra, NEW crb, NEW pr, NEW pi, NEW imask, NEW ir,
         NEW ta, NEW tb, NEW a, NEW b, NEW sdr_cnt, NEW icr
  PROVE  Assign(Chip(pa, la, pb, lb, cra, crb, pr, pi, imask, ir), ta, tb, a, b, sdr_cnt, icr)
           = Chip(ta, la, tb, lb, [cra EXCEPT !.start = a], [crb EXCEPT !.start = b],
                  sdr_cnt, icr, imask, ir)
<1> DEFINE cra1 == [cra EXCEPT !.start = a]
           crb1 == [crb EXCEPT !.start = b]
           c == Chip(pa, la, pb, lb, cra, crb, pr, pi, imask, ir)
           c1 == Chip(ta, la, pb, lb, cra, crb, pr, pi, imask, ir)
           c2 == Chip(ta, la, tb, lb, cra, crb, pr, pi, imask, ir)
           c3 == Chip(ta, la, tb, lb, cra1, crb, pr, pi, imask, ir)
           c4 == Chip(ta, la, tb, lb, cra1, crb1, pr, pi, imask, ir)
           c5 == Chip(ta, la, tb, lb, cra1, crb1, sdr_cnt, pi, imask, ir)
<1>1. Assign(c, ta, tb, a, b, sdr_cnt, icr)
        = [[[[[[c EXCEPT !.ta = ta] EXCEPT !.tb = tb] EXCEPT !.cra.start = a]
             EXCEPT !.crb.start = b] EXCEPT !.sdr_cnt = sdr_cnt] EXCEPT !.icr = icr]
  <2> HIDE DEF c
  <2> QED BY DEF Assign
<1>2. [c EXCEPT !.ta = ta] = c1
  BY DEF Chip
<1>3. [c1 EXCEPT !.tb = tb] = c2
  BY DEF Chip
<1>4. [c2 EXCEPT !.cra.start = a] = c3
  BY DEF Chip
<1>5. [c3 EXCEPT !.crb.start = b] = c4
  BY DEF Chip
<1>6. [c4 EXCEPT !.sdr_cnt = sdr_cnt] = c5
  BY DEF Chip
<1>7. [c5 EXCEPT !.icr = icr] = Chip(ta, la, tb, lb, cra1, crb1, sdr_cnt, icr, imask, ir)
  BY DEF Chip
<1>8. Assign(c, ta, tb, a, b, sdr_cnt, icr)
        = Chip(ta, la, tb, lb, cra1, crb1, sdr_cnt, icr, imask, ir)
  <2> HIDE DEF c, c1, c2, c3, c4, c5, cra1, crb1
  <2> QED BY <1>1, <1>2, <1>3, <1>4, <1>5, <1>6, <1>7
<1> QED BY <1>8

\* The registers make up the chip.
LEMMA ChipIs ==
  ASSUME NEW c \in Registers
  PROVE  c = Chip(c.ta, c.la, c.tb, c.lb, c.cra, c.crb, c.sdr_cnt, c.icr, c.imask, c.ir)
BY DEF Registers, Chip

\* CIA_update, register by register.
LEMMA UpdatedIs ==
  ASSUME NEW c \in Registers, NEW n
  PROVE  Updated(c, n) =
           Chip(TaAfter(c, n), c.la, TbAfter(c, n), c.lb, CraAfter(c, n), CrbAfter(c, n),
                SdrAfter(c, n), IcrAfter(c, n), c.imask, IrAfter(c, n))
<1> DEFINE over == Overflows(c, n)
           a == IF AOver(c, n) /\ c.cra.oneshot = 1 THEN 0 ELSE c.cra.start
           b == IF BOver(c, n) /\ c.crb.oneshot = 1 THEN 0 ELSE c.crb.start
           counted == Assign(c, TaAfter(c, n), TbAfter(c, n), a, b, SdrAfter(c, n), IcrAfter(c, n))
<1>1. Updated(c, n) = IF over = {} THEN counted ELSE Rethink(counted)
  BY DEF Updated, Assign, TaAfter, TbAfter, SdrAfter, IcrAfter
<1>2. counted = Chip(TaAfter(c, n), c.la, TbAfter(c, n), c.lb,
                     [c.cra EXCEPT !.start = a], [c.crb EXCEPT !.start = b],
                     SdrAfter(c, n), IcrAfter(c, n), c.imask, c.ir)
  <2> HIDE DEF a, b
  <2>1. Assign(Chip(c.ta, c.la, c.tb, c.lb, c.cra, c.crb, c.sdr_cnt, c.icr, c.imask, c.ir),
               TaAfter(c, n), TbAfter(c, n), a, b, SdrAfter(c, n), IcrAfter(c, n))
          = Chip(TaAfter(c, n), c.la, TbAfter(c, n), c.lb,
                 [c.cra EXCEPT !.start = a], [c.crb EXCEPT !.start = b],
                 SdrAfter(c, n), IcrAfter(c, n), c.imask, c.ir)
    BY Assigned
  <2> QED BY <2>1, ChipIs
<1>3. [c.cra EXCEPT !.start = a] = CraAfter(c, n) /\ [c.crb EXCEPT !.start = b] = CrbAfter(c, n)
  BY DEF CraAfter, CrbAfter
<1> HIDE DEF counted, over, a, b
<1>4. counted = Chip(TaAfter(c, n), c.la, TbAfter(c, n), c.lb, CraAfter(c, n), CrbAfter(c, n),
                     SdrAfter(c, n), IcrAfter(c, n), c.imask, c.ir)
  BY <1>2, <1>3
<1>5. over = Overflows(c, n)
  BY DEF over
<1>6. Rethink(counted) =
        Chip(TaAfter(c, n), c.la, TbAfter(c, n), c.lb, CraAfter(c, n), CrbAfter(c, n),
             SdrAfter(c, n), IcrAfter(c, n), c.imask,
             IF IcrAfter(c, n) \intersect c.imask # {} THEN 1 ELSE 0)
  BY <1>4 DEF Rethink, Enabled, Chip
<1> QED BY <1>1, <1>4, <1>5, <1>6 DEF IrAfter

\* CIA_update makes of a chip a chip, if the clocks that passed took no timer
\* beyond its underflow.
LEMMA UpdatedTypes ==
  ASSUME NEW c \in Registers, NEW n \in Nat,
         ARuns(c) => n <= c.ta + 1, BRuns(c) => n <= c.tb + 1
  PROVE  Updated(c, n) \in Registers
<1>0. BYTE * BYTE \in Nat \ {0} /\ BITS \in Nat
  BY CiaSizes
<1>1. /\ c.ta \in TimerValues /\ c.la \in TimerValues /\ c.tb \in TimerValues /\ c.lb \in TimerValues
      /\ c.cra \in CraValues /\ c.crb \in CrbValues /\ c.sdr_cnt \in 0 .. BITS
      /\ c.icr \subseteq Sources /\ c.imask \subseteq Sources /\ c.ir \in {0, 1}
  BY DEF Registers
<1>2. TaAfter(c, n) \in TimerValues
  <2>1. CASE ARuns(c) /\ ~ AOver(c, n)
    <3>1. n # c.ta + 1 /\ n <= c.ta + 1
      BY <2>1 DEF AOver
    <3> DEFINE P == BYTE * BYTE
    <3>2. P \in Nat /\ c.ta \in 0 .. P - 1
      BY <1>0, <1>1 DEF TimerValues
    <3> HIDE DEF P
    <3>3. c.ta - n \in 0 .. P - 1
      BY <3>1, <3>2
    <3> QED BY <2>1, <3>3 DEF TaAfter, P, TimerValues
  <2> QED BY <1>1, <2>1 DEF TaAfter
<1>3. TbAfter(c, n) \in TimerValues
  <2> DEFINE P == BYTE * BYTE
  <2>0. P \in Nat /\ c.tb \in 0 .. P - 1
    BY <1>0, <1>1 DEF TimerValues
  <2> HIDE DEF P
  <2>1. CASE BRuns(c) /\ ~ BOver(c, n)
    <3>1. n # c.tb + 1 /\ n <= c.tb + 1
      BY <2>1 DEF BOver
    <3>2. c.tb - n \in 0 .. P - 1
      BY <2>0, <3>1
    <3> QED BY <2>1, <3>2 DEF TbAfter, P, TimerValues
  <2>2. CASE Cascaded(c) /\ AOver(c, n) /\ ~ BOver(c, n) /\ ~ BRuns(c)
    <3>1. c.tb # 0
      BY <2>2 DEF BOver
    <3>2. c.tb - 1 \in 0 .. P - 1
      BY <2>0, <3>1
    <3> QED BY <2>2, <3>2 DEF TbAfter, P, TimerValues
  <2> QED BY <1>1, <2>1, <2>2 DEF TbAfter
<1>4. CraAfter(c, n) \in CraValues /\ CrbAfter(c, n) \in CrbValues
  BY <1>1 DEF CraAfter, CrbAfter, CraValues, CrbValues
<1>5. SdrAfter(c, n) \in 0 .. BITS
  BY <1>0, <1>1 DEF SdrAfter, Shifts
<1>6. IcrAfter(c, n) \subseteq Sources
  <2>1. Overflows(c, n) \subseteq Sources
    BY DEF Overflows, Sources
  <2> QED BY <1>1, <2>1 DEF IcrAfter
<1>7. IrAfter(c, n) \in {0, 1}
  BY <1>1 DEF IrAfter
<1>8. Chip(TaAfter(c, n), c.la, TbAfter(c, n), c.lb, CraAfter(c, n), CrbAfter(c, n),
           SdrAfter(c, n), IcrAfter(c, n), c.imask, IrAfter(c, n)) \in Registers
  BY <1>1, <1>2, <1>3, <1>4, <1>5, <1>6, <1>7 DEF Chip, Registers
<1> QED BY <1>8, UpdatedIs

\* Underflows are some cycles away, but not so many as the counter holds.
LEMMA TimesAre ==
  ASSUME NEW cs \in [Chips -> Registers], NEW phase \in 0 .. DIV10 - 1
  PROVE  /\ Underflows(cs, phase) \subseteq 1 .. DIV10 * BYTE * BYTE
         /\ Underflows(cs, phase) # {} =>
              /\ Min(Underflows(cs, phase)) \in 1 .. DIV10 * BYTE * BYTE
              /\ \A t \in Underflows(cs, phase) : Min(Underflows(cs, phase)) <= t
<1> DEFINE M == DIV10 * BYTE * BYTE
           U == Underflows(cs, phase)
<1>0. DIV10 \in Nat \ {0} /\ M \in Nat /\ phase \in Nat /\ phase < DIV10
  BY CiaSizes
<1>1. ASSUME NEW t \in TimerValues PROVE DIV10 - phase + DIV10 * t \in 1 .. M
  <2>1. DIV10 * t \in Nat /\ DIV10 * t + DIV10 <= M
    BY CiaSizes
  <2> DEFINE d == DIV10 * t
  <2> HIDE DEF d, M
  <2>2. DIV10 - phase + d \in 1 .. M
    BY <1>0, <2>1 DEF d
  <2> QED BY <2>2 DEF d
<1>2. \A x \in Chips : cs[x].ta \in TimerValues /\ cs[x].tb \in TimerValues
  BY DEF Registers
<1>3. U \subseteq 1 .. M
  <2> HIDE DEF M
  <2> QED BY <1>1, <1>2 DEF Underflows
<1>4. ASSUME U # {} PROVE Min(U) \in 1 .. M /\ \A t \in U : Min(U) <= t
  <2> HIDE DEF U, M
  <2>1. U \in SUBSET Nat
    BY <1>3
  <2> QED BY <1>3, <1>4, <2>1, MinIs
<1> QED BY <1>3, <1>4

\* CIA_calctimers changes the chips' event, and only that.
LEMMA Scheduled ==
  ASSUME currcycle \in Time, eventtab \in TableType,
         NEW cs \in [Chips -> Registers], NEW phase \in 0 .. DIV10 - 1
  PROVE  /\ CIA_calctimers(cs, phase) \in TableType
         /\ \A e \in Ev \ {ev_cia} : CIA_calctimers(cs, phase)[e] = eventtab[e]
         /\ CIA_calctimers(cs, phase)[ev_cia].oldcycles = currcycle
         /\ Underflows(cs, phase) = {} => CIA_calctimers(cs, phase)[ev_cia].active = 0
         /\ Underflows(cs, phase) # {} =>
              /\ CIA_calctimers(cs, phase)[ev_cia].active = 1
              /\ CIA_calctimers(cs, phase)[ev_cia].evtime = After(Min(Underflows(cs, phase)))
<1> DEFINE U == Underflows(cs, phase)
           idle == [eventtab EXCEPT ![ev_cia].active = 0, ![ev_cia].oldcycles = currcycle]
           armed == Arm(eventtab, ev_cia, Min(U))
<1>0. ev_cia \in Ev
  BY CiaSizes
<1>1. CIA_calctimers(cs, phase) = IF U = {} THEN idle ELSE armed
  BY DEF CIA_calctimers
<1>2. /\ idle \in TableType /\ idle[ev_cia].active = 0 /\ idle[ev_cia].oldcycles = currcycle
      /\ \A e \in Ev \ {ev_cia} : idle[e] = eventtab[e]
  BY <1>0 DEF TableType
<1>3. ASSUME U # {}
      PROVE  /\ armed \in TableType /\ armed[ev_cia].active = 1 /\ armed[ev_cia].oldcycles = currcycle
             /\ armed[ev_cia].evtime = After(Min(U))
             /\ \A e \in Ev \ {ev_cia} : armed[e] = eventtab[e]
  <2>1. Min(U) \in 1 .. DIV10 * BYTE * BYTE
    BY <1>3, TimesAre
  <2>2. Min(U) \in Nat
    BY <2>1
  <2> HIDE DEF U
  <2>3. armed \in TableType
    BY <1>0, <2>2, TableTypes
  <2> QED BY <1>0, <2>3 DEF Arm, Event, TableType
<1> HIDE DEF idle, armed
<1> QED BY <1>1, <1>2, <1>3

-----------------------------------------------------------------------------
(* The chips: their event is the first underflow, and time passes nothing. *)

times == Underflows(cia, div10)

\* No other chip has an event.
NoOthers == \A e \in Ev \ {ev_hsync, ev_cia} : ~ Active(e)

\* The chips' event is their first underflow, and not passed.
ChipsArmed ==
  IF times = {} THEN ~ Active(ev_cia)
  ELSE /\ Active(ev_cia)
       /\ eventtab[ev_cia].evtime = (eventtab[ev_cia].oldcycles + Min(times)) % WRAP
       /\ Ahead(ev_cia) <= Min(times)

\* Nor is the raster line.
LineNear == Active(ev_hsync) => Ahead(ev_hsync) <= HSYNCTIME

\* nextevent is not later than any event.
FirstIsNext == pc # "scan" => \A e \in Ev : Active(e) => Gap(nextevent, currcycle) <= Ahead(e)

\* The for loop has run the handlers that were due, as far as it is.
NoneLeft == pc = "scan" => \A e \in Ev : Active(e) /\ Ahead(e) = 0 => e >= scanned

\* The 68k runs when none is due.
NoneDue == pc = "cpu" => \A e \in Ev : Active(e) => Ahead(e) >= 1

CiaIInv ==
  /\ CiaTypeOK /\ NoOthers /\ ChipsArmed /\ LineRuns /\ LineNear
  /\ FirstIsNext /\ NoneLeft /\ NoneDue

\* The types of the table.
LEMMA CiaTableTypes ==
  ASSUME CiaTypeOK
  PROVE  /\ eventtab \in TableType /\ currcycle \in Time /\ nextevent \in Time
         /\ \A e \in Ev : /\ eventtab[e].evtime \in Time /\ eventtab[e].oldcycles \in Time
                          /\ Ahead(e) \in 0 .. WRAP - 1
                          /\ (Ahead(e) = 0 <=> eventtab[e].evtime = currcycle)
         /\ \A k \in 0 .. WRAP - 1 : After(k) \in Time /\ Gap(After(k), currcycle) = k
<1>1. eventtab \in TableType /\ currcycle \in Time /\ nextevent \in Time
  BY DEF CiaTypeOK, EventsTypeOK, TableType
<1>2. \A e \in Ev : eventtab[e].evtime \in Time /\ eventtab[e].oldcycles \in Time
  BY <1>1 DEF TableType
<1> QED BY <1>1, <1>2, Gaps DEF Ahead, After

\* No timer is past its underflow, and none is at it while the event is ahead.
LEMMA ClocksPassed ==
  ASSUME CiaTypeOK, ChipsArmed
  PROVE  /\ ciaclocks \in Nat /\ ccount \in Nat
         /\ \A x \in Chips : ARuns(cia[x]) =>
               ciaclocks <= cia[x].ta + 1 /\ (Ahead(ev_cia) >= 1 => ciaclocks <= cia[x].ta)
         /\ \A x \in Chips : BRuns(cia[x]) =>
               ciaclocks <= cia[x].tb + 1 /\ (Ahead(ev_cia) >= 1 => ciaclocks <= cia[x].tb)
         /\ times # {} => ccount = Since(eventtab[ev_cia].oldcycles) + div10
<1> DEFINE M == DIV10 * BYTE * BYTE
           old == eventtab[ev_cia].oldcycles
<1>0. /\ DIV10 \in Nat \ {0} /\ M \in 1 .. WRAP - 1 /\ WRAP \in Nat /\ WRAP > 1
      /\ cia \in [Chips -> Registers] /\ div10 \in 0 .. DIV10 - 1
      /\ ev_cia \in Ev /\ old \in Time /\ Ahead(ev_cia) \in 0 .. WRAP - 1 /\ currcycle \in Time
  BY CiaSizes, CiaTableTypes, EventSizes DEF CiaTypeOK
<1>1. ccount \in Nat
  <2>1. Since(old) \in 0 .. WRAP - 1
    BY <1>0, Gaps DEF Since, Gap
  <2>2. Since(old) + div10 \in Int
    BY <1>0, <2>1
  <2>3. (Since(old) + div10) % WRAP \in 0 .. WRAP - 1
    BY <2>2, Remainder
  <2> QED BY <1>0, <2>3 DEF ccount
<1>2. ciaclocks \in Nat
  BY <1>0, <1>1, Quotients DEF ciaclocks
<1>3. ASSUME NEW t \in TimerValues, DIV10 - div10 + DIV10 * t \in times
      PROVE  /\ ciaclocks <= t + 1 /\ (Ahead(ev_cia) >= 1 => ciaclocks <= t)
             /\ ccount = Since(old) + div10
  <2> DEFINE m == Min(times)
             g == Ahead(ev_cia)
             d == DIV10 * t
  <2>1. m \in 1 .. M /\ m <= DIV10 - div10 + d
    BY <1>0, <1>3, TimesAre DEF times
  <2>2. eventtab[ev_cia].evtime = (old + m) % WRAP /\ g <= m
    BY <1>3 DEF ChipsArmed
  <2>3. m \in 0 .. WRAP - 1
    BY <1>0, <2>1
  <2>4. Gap((old + m) % WRAP, currcycle) <= m
    BY <2>2 DEF Ahead
  <2>5. Since(old) = m - g
    <3>1. Gap(currcycle, old) = m - Gap((old + m) % WRAP, currcycle)
      <4> HIDE DEF m, old
      <4> QED BY <1>0, <2>3, <2>4, Elapsed
    <3> QED BY <2>2, <3>1 DEF Since, Gap, Ahead
  <2>6. t \in Nat /\ d \in Nat /\ d + DIV10 <= M
    BY <1>3, CiaSizes
  <2>7. DIV10 * (t + 1) = d + DIV10
    <3>1. t \in Int /\ DIV10 \in Int
      BY <1>0, <2>6
    <3> QED BY <3>1
  <2>8. ccount = (Since(old) + div10) % WRAP
    BY DEF ccount
  <2> HIDE DEF m, g, d, M, old
  <2>9. /\ Since(old) + div10 \in 0 .. WRAP - 1
        /\ Since(old) + div10 <= d + DIV10 /\ (g >= 1 => Since(old) + div10 < d + DIV10)
    BY <1>0, <2>1, <2>2, <2>3, <2>5, <2>6 DEF g
  <2>10. ccount = Since(old) + div10
    BY <2>8, <2>9, Remainder
  <2>11. ccount <= DIV10 * (t + 1) /\ (g >= 1 => ccount < DIV10 * (t + 1))
    BY <2>7, <2>9, <2>10
  <2>12. t + 1 \in Nat
    BY <2>6
  <2>13. ciaclocks <= t + 1 /\ (g >= 1 => ciaclocks < t + 1)
    BY <1>0, <1>1, <2>11, <2>12, QuotientBounds DEF ciaclocks
  <2>14. ciaclocks <= t + 1 /\ (g >= 1 => ciaclocks <= t)
    BY <1>2, <2>6, <2>13
  <2> QED BY <2>10, <2>14 DEF g, old
<1>4. \A x \in Chips : /\ cia[x].ta \in TimerValues /\ cia[x].tb \in TimerValues
                       /\ ARuns(cia[x]) => DIV10 - div10 + DIV10 * cia[x].ta \in times
                       /\ BRuns(cia[x]) => DIV10 - div10 + DIV10 * cia[x].tb \in times
  BY <1>0 DEF Registers, times, Underflows
<1>5. ASSUME times # {} PROVE ccount = Since(old) + div10
  <2>1. PICK t \in TimerValues : DIV10 - div10 + DIV10 * t \in times
    BY <1>4, <1>5 DEF times, Underflows
  <2> QED BY <1>3, <2>1
<1> QED BY <1>1, <1>2, <1>3, <1>4, <1>5

\* CIA_update leaves the chips chips.
LEMMA UpdateTypes ==
  ASSUME CiaTypeOK, ChipsArmed
  PROVE  CIA_update \in [Chips -> Registers] /\ ccount % DIV10 \in 0 .. DIV10 - 1
<1>1. ciaclocks \in Nat /\ ccount \in Nat
  BY ClocksPassed
<1>2. ccount % DIV10 \in 0 .. DIV10 - 1
  BY <1>1, Quotients, CiaSizes
<1>3. ASSUME NEW x \in Chips PROVE Updated(cia[x], ciaclocks) \in Registers
  <2>1. /\ cia[x] \in Registers
        /\ ARuns(cia[x]) => ciaclocks <= cia[x].ta + 1
        /\ BRuns(cia[x]) => ciaclocks <= cia[x].tb + 1
    BY ClocksPassed DEF CiaTypeOK
  <2> QED BY <1>1, <2>1, UpdatedTypes
<1> QED BY <1>2, <1>3 DEF CIA_update

\* A byte written into a word leaves it a word.
LEMMA WordTypes ==
  ASSUME NEW w \in TimerValues, NEW v \in 0 .. BYTE - 1
  PROVE  SetLo(w, v) \in TimerValues /\ SetHi(w, v) \in TimerValues
<1>0. BYTE \in Nat \ {0} /\ BYTE * BYTE \in Nat /\ w \in Nat /\ w < BYTE * BYTE /\ v \in Nat /\ v <= BYTE - 1
  BY CiaSizes DEF TimerValues
<1>1. ASSUME NEW h \in 0 .. BYTE - 1, NEW l \in 0 .. BYTE - 1
      PROVE  h * BYTE + l \in TimerValues
  <2>1. BYTE * h <= BYTE * (BYTE - 1)
    BY <1>0, MultMono
  <2>2. BYTE * (BYTE - 1) = BYTE * BYTE - BYTE /\ BYTE * h \in Nat /\ h * BYTE = BYTE * h
    BY <1>0
  <2>3. BYTE * h + l \in 0 .. BYTE * BYTE - 1
    BY <1>0, <2>1, <2>2
  <2> QED BY <2>2, <2>3 DEF TimerValues
<1>2. w % BYTE \in 0 .. BYTE - 1 /\ w \div BYTE \in Nat
  BY <1>0, Quotients
<1>3. w \div BYTE \in 0 .. BYTE - 1
  <2>1. w \div BYTE < BYTE
    BY <1>0, QuotientBounds
  <2> QED BY <1>0, <1>2, <2>1
<1> QED BY <1>1, <1>2, <1>3 DEF SetLo, SetHi

\* A write to a register of timer A or to the serial register; one to timer B.
ByA(c, d) == /\ d.tb = c.tb /\ d.lb = c.lb /\ d.crb = c.crb
             /\ d.icr = c.icr /\ d.imask = c.imask /\ d.ir = c.ir
ByB(c, d) == /\ d.ta = c.ta /\ d.la = c.la /\ d.cra = c.cra /\ d.sdr_cnt = c.sdr_cnt
             /\ d.icr = c.icr /\ d.imask = c.imask /\ d.ir = c.ir

Writes ==
  \E x \in Chips : \E c \in Registers :
     Rewrite(x, c) /\ (ByA(CIA_update[x], c) \/ ByB(CIA_update[x], c))

\* The timers of both chips stay as they are.
SameTimers ==
  \A x \in Chips : /\ cia'[x].ta = cia[x].ta /\ cia'[x].tb = cia[x].tb
                   /\ cia'[x].cra = cia[x].cra /\ cia'[x].crb = cia[x].crb

Quiet ==
  /\ UNCHANGED div10 /\ cia' \in [Chips -> Registers] /\ SameTimers
  /\ intreq' \subseteq Chips /\ late_mask' \subseteq Chips /\ writes' \in 0 .. MaxWrites

\* Every write of the 68k to a timer or to the serial register.
LEMMA WritesAre ==
  ASSUME CiaTypeOK, ChipsArmed, NEW x \in Chips,
         \/ \E v \in 0 .. BYTE - 1 :
               WriteTaLo(x, v) \/ WriteTaHi(x, v) \/ WriteTbLo(x, v) \/ WriteTbHi(x, v)
         \/ \E load \in BOOLEAN : \/ \E cr \in Cras : WriteCra(x, cr, load)
                                  \/ \E cr \in Crbs : WriteCrb(x, cr, load)
         \/ WriteSdr(x)
  PROVE  Writes
<1> DEFINE c == CIA_update[x]
<1>1. c \in Registers
  BY UpdateTypes
<1>2. /\ c.ta \in TimerValues /\ c.la \in TimerValues /\ c.tb \in TimerValues /\ c.lb \in TimerValues
      /\ c.cra \in CraValues /\ c.crb \in CrbValues /\ c.sdr_cnt \in 0 .. BITS /\ BITS \in 0 .. BITS /\ 0 \in 0 .. BITS
  BY <1>1, CiaSizes DEF Registers
<1>3. Cras \subseteq CraValues /\ Crbs \subseteq CrbValues
  BY CiaAssumption DEF CiaAssumption
<1> HIDE DEF c
<1>4. ASSUME NEW v \in 0 .. BYTE - 1, WriteTaLo(x, v) PROVE Writes
  <2> DEFINE d == [c EXCEPT !.la = SetLo(c.la, v)]
  <2>1. Rewrite(x, d)
    BY <1>4 DEF WriteTaLo, c
  <2>2. SetLo(c.la, v) \in TimerValues
    BY <1>2, WordTypes
  <2>3. d \in Registers /\ ByA(c, d)
    BY <1>1, <2>2 DEF Registers, ByA
  <2> HIDE DEF d
  <2> QED BY <2>1, <2>3 DEF Writes, c
<1>5. ASSUME NEW v \in 0 .. BYTE - 1, WriteTbLo(x, v) PROVE Writes
  <2> DEFINE d == [c EXCEPT !.lb = SetLo(c.lb, v)]
  <2>1. Rewrite(x, d)
    BY <1>5 DEF WriteTbLo, c
  <2>2. SetLo(c.lb, v) \in TimerValues
    BY <1>2, WordTypes
  <2>3. d \in Registers /\ ByB(c, d)
    BY <1>1, <2>2 DEF Registers, ByB
  <2> HIDE DEF d
  <2> QED BY <2>1, <2>3 DEF Writes, c
<1>6. ASSUME NEW v \in 0 .. BYTE - 1, WriteTaHi(x, v) PROVE Writes
  <2> DEFINE la == SetHi(c.la, v)
             ta == IF c.cra.start = 0 \/ c.cra.oneshot = 1 THEN la ELSE c.ta
             s == IF c.cra.oneshot = 1 THEN 1 ELSE c.cra.start
             d == [c EXCEPT !.la = la, !.ta = ta, !.cra.start = s]
  <2>1. Rewrite(x, d)
    BY <1>6 DEF WriteTaHi, c
  <2>2. la \in TimerValues /\ ta \in TimerValues /\ s \in {0, 1}
    BY <1>2, WordTypes DEF CraValues
  <2> HIDE DEF la, ta, s
  <2>3. d \in Registers /\ ByA(c, d)
    BY <1>1, <2>2 DEF Registers, CraValues, ByA
  <2> HIDE DEF d
  <2> QED BY <2>1, <2>3 DEF Writes, c
<1>7. ASSUME NEW v \in 0 .. BYTE - 1, WriteTbHi(x, v) PROVE Writes
  <2> DEFINE lb == SetHi(c.lb, v)
             tb == IF c.crb.start = 0 \/ c.crb.oneshot = 1 THEN lb ELSE c.tb
             s == IF c.crb.oneshot = 1 THEN 1 ELSE c.crb.start
             d == [c EXCEPT !.lb = lb, !.tb = tb, !.crb.start = s]
  <2>1. Rewrite(x, d)
    BY <1>7 DEF WriteTbHi, c
  <2>2. lb \in TimerValues /\ tb \in TimerValues /\ s \in {0, 1}
    BY <1>2, WordTypes DEF CrbValues
  <2> HIDE DEF lb, tb, s
  <2>3. d \in Registers /\ ByB(c, d)
    BY <1>1, <2>2 DEF Registers, CrbValues, ByB
  <2> HIDE DEF d
  <2> QED BY <2>1, <2>3 DEF Writes, c
<1>8. ASSUME NEW cr \in Cras, NEW load \in BOOLEAN, WriteCra(x, cr, load) PROVE Writes
  <2> DEFINE d == [c EXCEPT !.cra = cr, !.ta = IF load THEN c.la ELSE c.ta]
  <2>1. Rewrite(x, d)
    BY <1>8 DEF WriteCra, c
  <2>2. d \in Registers /\ ByA(c, d)
    BY <1>1, <1>2, <1>3 DEF Registers, ByA
  <2> HIDE DEF d
  <2> QED BY <2>1, <2>2 DEF Writes, c
<1>9. ASSUME NEW cr \in Crbs, NEW load \in BOOLEAN, WriteCrb(x, cr, load) PROVE Writes
  <2> DEFINE d == [c EXCEPT !.crb = cr, !.tb = IF load THEN c.lb ELSE c.tb]
  <2>1. Rewrite(x, d)
    BY <1>9 DEF WriteCrb, c
  <2>2. d \in Registers /\ ByB(c, d)
    BY <1>1, <1>2, <1>3 DEF Registers, ByB
  <2> HIDE DEF d
  <2> QED BY <2>1, <2>2 DEF Writes, c
<1>10. ASSUME WriteSdr(x) PROVE Writes
  <2> DEFINE left == IF c.cra.sp = 0 THEN 0 ELSE c.sdr_cnt
             n == IF c.cra.sp = 1 /\ c.cra.start = 1 /\ left = 0 THEN BITS ELSE left
             d == [c EXCEPT !.sdr_cnt = n]
  <2>1. Rewrite(x, d)
    BY <1>10 DEF WriteSdr, c
  <2>2. n \in 0 .. BITS
    BY <1>2
  <2> HIDE DEF n
  <2>3. d \in Registers /\ ByA(c, d)
    BY <1>1, <2>2 DEF Registers, ByA
  <2> HIDE DEF d
  <2> QED BY <2>1, <2>3 DEF Writes, c
<1> QED BY <1>4, <1>5, <1>6, <1>7, <1>8, <1>9, <1>10

\* What RethinkICR makes of a chip.
LEMMA RethinkTypes ==
  ASSUME NEW c \in Registers
  PROVE  /\ Rethink(c) \in Registers
         /\ Rethink(c).ta = c.ta /\ Rethink(c).tb = c.tb /\ Rethink(c).cra = c.cra /\ Rethink(c).crb = c.crb
         /\ Rethink(c).icr = c.icr /\ Rethink(c).imask = c.imask
         /\ (Enabled(Rethink(c)) <=> Enabled(c)) /\ (Enabled(c) => Rethink(c).ir = 1)
BY DEF Rethink, Registers, Enabled

\* The accesses that leave the timers alone do.
LEMMA QuietAre ==
  ASSUME CiaTypeOK,
         \/ \E x \in Driven : \/ ReadIcr(x) \/ INTREQ({x})
                              \/ \E set \in BOOLEAN : WriteMask(x, set, {"ta", "tb"})
         \/ INTREQ({})
         \/ \E x \in Chips : Report(x)
  PROVE  Quiet
<1>0. /\ cia \in [Chips -> Registers] /\ Driven \subseteq Chips /\ MaxWrites \in Nat
      /\ intreq \subseteq Chips /\ late_mask \subseteq Chips /\ writes \in 0 .. MaxWrites
  BY CiaAssumption DEF CiaAssumption, CiaTypeOK
<1>1. writes < MaxWrites /\ writes' = writes + 1 => writes' \in 0 .. MaxWrites
  BY <1>0
<1>2. ASSUME NEW x \in Chips, NEW c \in Registers, Touch(x, c, {x}),
             c.ta = cia[x].ta, c.tb = cia[x].tb, c.cra = cia[x].cra, c.crb = cia[x].crb
      PROVE  Quiet
  <2>1. cia' = [cia EXCEPT ![x] = c] /\ writes' \in 0 .. MaxWrites /\ UNCHANGED div10
    BY <1>1, <1>2 DEF Touch
  <2>2. cia' \in [Chips -> Registers] /\ SameTimers
    BY <1>0, <1>2, <2>1 DEF SameTimers
  <2>3. intreq' \subseteq Chips /\ late_mask' \subseteq Chips
    BY <1>0, <1>2 DEF Touch, Thought
  <2> QED BY <2>1, <2>2, <2>3 DEF Quiet
<1>3. ASSUME NEW x \in Chips, ReadIcr(x) PROVE Quiet
  <2> DEFINE d == [cia[x] EXCEPT !.icr = {}]
  <2>1. d \in Registers /\ d.ta = cia[x].ta /\ d.tb = cia[x].tb /\ d.cra = cia[x].cra /\ d.crb = cia[x].crb
    BY <1>0 DEF Registers, Sources
  <2>2. Touch(x, Rethink(d), {x})
    BY <1>3 DEF ReadIcr
  <2> HIDE DEF d
  <2> QED BY <1>2, <2>1, <2>2, RethinkTypes
<1>4. ASSUME NEW x \in Chips, Report(x) PROVE Quiet
  <2> DEFINE d == [cia[x] EXCEPT !.icr = @ \union {"flag"}]
  <2>1. d \in Registers /\ d.ta = cia[x].ta /\ d.tb = cia[x].tb /\ d.cra = cia[x].cra /\ d.crb = cia[x].crb
    BY <1>0 DEF Registers, Sources
  <2>2. Touch(x, Rethink(d), {x})
    BY <1>4 DEF Report
  <2> HIDE DEF d
  <2> QED BY <1>2, <2>1, <2>2, RethinkTypes
<1>5. ASSUME NEW xs, INTREQ(xs) PROVE Quiet
  <2>1. cia' = [y \in Chips |-> Rethink(cia[y])] /\ UNCHANGED <<div10, writes>> /\ late_mask' = {}
    BY <1>5 DEF INTREQ
  <2>2. cia' \in [Chips -> Registers] /\ SameTimers
    BY <1>0, <2>1, RethinkTypes DEF SameTimers
  <2>3. intreq' \subseteq Chips
    BY <1>0, <1>5 DEF INTREQ
  <2> QED BY <1>0, <2>1, <2>2, <2>3 DEF Quiet
<1>6. ASSUME NEW x \in Chips, NEW set \in BOOLEAN, WriteMask(x, set, {"ta", "tb"}) PROVE Quiet
  <2> DEFINE m == IF set THEN cia[x].imask \union {"ta", "tb"} ELSE cia[x].imask \ {"ta", "tb"}
  <2>1. cia' = [cia EXCEPT ![x].imask = m] /\ UNCHANGED <<div10, intreq>> /\ writes' \in 0 .. MaxWrites
        /\ late_mask' = late_mask \union {x}
    BY <1>1, <1>6 DEF WriteMask
  <2>2. m \subseteq Sources
    BY <1>0 DEF Registers, Sources
  <2> HIDE DEF m
  <2>3. cia' \in [Chips -> Registers] /\ SameTimers
    BY <1>0, <2>1, <2>2 DEF SameTimers, Registers
  <2> QED BY <1>0, <2>1, <2>3 DEF Quiet
<1> QED BY <1>0, <1>3, <1>4, <1>5, <1>6

\* Wherever CIA_calctimers is called, the chips' event is found anew; RESET also
\* starts the line again.
Recalculates == Writes \/ CIA_handler \/ CIA_reset

\* After such a step the table is whole, and the chips' event the first underflow
\* of the timers as they are now.
LEMMA Recalculated ==
  ASSUME CiaTypeOK, ChipsArmed, Recalculates
  PROVE  /\ cia' \in [Chips -> Registers] /\ div10' \in 0 .. DIV10 - 1
         /\ intreq' \subseteq Chips /\ late_mask' \subseteq Chips /\ writes' \in 0 .. MaxWrites
         /\ eventtab' \in TableType /\ nextevent' = events_schedule(eventtab')
         /\ UNCHANGED <<currcycle, pc, cycles_to_add>> /\ scanned' \in 0 .. ev_max
         /\ \A e \in Ev \ {ev_cia, ev_hsync} : eventtab'[e] = eventtab[e]
         /\ eventtab'[ev_cia].oldcycles = currcycle
         /\ times' = {} => eventtab'[ev_cia].active = 0
         /\ times' # {} => /\ eventtab'[ev_cia].active = 1
                           /\ eventtab'[ev_cia].evtime = After(Min(times'))
         /\ IF CIA_reset
              THEN /\ eventtab'[ev_hsync].evtime = After(HSYNCTIME)
                   /\ eventtab'[ev_hsync].oldcycles = currcycle
              ELSE eventtab'[ev_hsync] = eventtab[ev_hsync]
<1>0. /\ cia \in [Chips -> Registers] /\ MaxWrites \in Nat /\ Chips = Chips
      /\ intreq \subseteq Chips /\ late_mask \subseteq Chips /\ writes \in 0 .. MaxWrites
      /\ eventtab \in TableType /\ currcycle \in Time /\ scanned \in 0 .. ev_max
      /\ ev_cia \in Ev /\ ev_hsync \in Ev /\ ev_cia # ev_hsync
  BY CiaAssumption, CiaTableTypes, CiaSizes DEF CiaAssumption, CiaTypeOK, EventsTypeOK
<1>1. CIA_update \in [Chips -> Registers] /\ ccount % DIV10 \in 0 .. DIV10 - 1
  BY UpdateTypes
<1>2. writes < MaxWrites /\ writes' = writes + 1 => writes' \in 0 .. MaxWrites
  BY <1>0
<1>3. ASSUME NEW xs, Thought(xs), xs \subseteq Chips
      PROVE  intreq' \subseteq Chips /\ late_mask' \subseteq Chips
  BY <1>0, <1>3 DEF Thought
<1>4. ASSUME cia' \in [Chips -> Registers], div10' \in 0 .. DIV10 - 1,
             Reschedule(CIA_calctimers(cia', div10'))
      PROVE  /\ eventtab' \in TableType /\ nextevent' = events_schedule(eventtab')
             /\ \A e \in Ev \ {ev_cia} : eventtab'[e] = eventtab[e]
             /\ eventtab'[ev_cia].oldcycles = currcycle
             /\ times' = {} => eventtab'[ev_cia].active = 0
             /\ times' # {} => /\ eventtab'[ev_cia].active = 1
                               /\ eventtab'[ev_cia].evtime = After(Min(times'))
  <2>1. times' = Underflows(cia', div10') /\ eventtab' = CIA_calctimers(cia', div10')
    BY <1>4 DEF times, Reschedule
  <2> QED BY <1>0, <1>4, <2>1, Scheduled DEF Reschedule
<1>5. CASE Writes /\ ~ CIA_reset
  <2>1. PICK x \in Chips, c \in Registers : Rewrite(x, c)
    BY <1>5 DEF Writes
  <2>2. /\ cia' = [CIA_update EXCEPT ![x] = c] /\ div10' = ccount % DIV10
        /\ Reschedule(CIA_calctimers(cia', div10')) /\ Thought(Overflowed)
        /\ writes' \in 0 .. MaxWrites /\ UNCHANGED <<currcycle, pc, cycles_to_add, scanned>>
    BY <1>2, <2>1 DEF Rewrite
  <2>3. cia' \in [Chips -> Registers] /\ div10' \in 0 .. DIV10 - 1
    BY <1>1, <2>2
  <2>4. intreq' \subseteq Chips /\ late_mask' \subseteq Chips
    BY <1>3, <2>2 DEF Overflowed
  <2> QED BY <1>0, <1>4, <1>5, <2>2, <2>3, <2>4
<1>6. CASE CIA_handler /\ ~ CIA_reset
  <2>1. /\ cia' = CIA_update /\ div10' = ccount % DIV10
        /\ Reschedule(CIA_calctimers(cia', div10')) /\ Thought(Overflowed)
        /\ UNCHANGED <<currcycle, pc, cycles_to_add, writes>> /\ scanned' = ev_cia + 1
    BY <1>6 DEF CIA_handler, Reaches
  <2>2. cia' \in [Chips -> Registers] /\ div10' \in 0 .. DIV10 - 1
    BY <1>1, <2>1
  <2>3. intreq' \subseteq Chips /\ late_mask' \subseteq Chips
    BY <1>3, <2>1 DEF Overflowed
  <2>4. scanned' \in 0 .. ev_max
    BY <2>1 DEF ev_cia, ev_max
  <2> QED BY <1>0, <1>4, <1>6, <2>1, <2>2, <2>3, <2>4
<1>7. CASE CIA_reset
  <2> DEFINE tab == CIA_calctimers(cia', div10')
  <2>1. /\ cia' = [x \in Chips |-> ResetChip] /\ div10' = 0
        /\ Reschedule([tab EXCEPT ![ev_hsync].evtime = After(HSYNCTIME), ![ev_hsync].oldcycles = currcycle])
        /\ late_mask' = {} /\ intreq' = intreq /\ writes' \in 0 .. MaxWrites
        /\ UNCHANGED <<currcycle, pc, cycles_to_add, scanned>>
    BY <1>2, <1>7 DEF CIA_reset
  <2>2. cia' \in [Chips -> Registers] /\ div10' \in 0 .. DIV10 - 1
    <3>1. BYTE * BYTE - 1 \in TimerValues /\ 0 \in 0 .. BITS /\ DIV10 \in Nat \ {0}
      BY CiaSizes DEF TimerValues
    <3>2. ResetChip \in Registers
      BY <3>1 DEF ResetChip, Registers, CraValues, CrbValues
    <3>3. 0 \in 0 .. DIV10 - 1
      BY <3>1
    <3> QED BY <2>1, <3>2, <3>3
  <2>3. times' = Underflows(cia', div10')
    BY DEF times
  <2>4. /\ tab \in TableType /\ tab[ev_cia].oldcycles = currcycle
        /\ \A e \in Ev \ {ev_cia} : tab[e] = eventtab[e]
        /\ times' = {} => tab[ev_cia].active = 0
        /\ times' # {} => tab[ev_cia].active = 1 /\ tab[ev_cia].evtime = After(Min(times'))
    BY <1>0, <2>2, <2>3, Scheduled
  <2>5. After(HSYNCTIME) \in Time
    BY <1>0, TableTypes, EventSizes
  <2> HIDE DEF tab
  <2>6. /\ eventtab' \in TableType /\ nextevent' = events_schedule(eventtab')
        /\ \A e \in Ev \ {ev_hsync} : eventtab'[e] = tab[e]
        /\ eventtab'[ev_hsync].evtime = After(HSYNCTIME)
        /\ eventtab'[ev_hsync].oldcycles = currcycle
    BY <1>0, <2>1, <2>4, <2>5 DEF Reschedule, TableType
  <2> QED BY <1>0, <1>7, <2>1, <2>2, <2>4, <2>6
<1> QED BY <1>5, <1>6, <1>7 DEF Recalculates

\* The steps of the chips, by what they do to the table.
LEMMA CiaSteps ==
  ASSUME CiaTypeOK, ChipsArmed, [CiaNext]_chipVars
  PROVE  \/ Recalculates
         \/ CIA_hsync_handler
         \/ Quiet /\ UNCHANGED eventVars
         \/ UNCHANGED ciaVars /\ ((\E n \in Durations : do_cycles(n)) \/ JumpToEvent \/ PassTheRest \/ ScanDone)
         \/ UNCHANGED chipVars
<1>1. CASE CiaCpu
  <2>0. Driven \subseteq Chips
    BY CiaAssumption DEF CiaAssumption
  <2>1. ASSUME NEW x \in Driven,
               \/ ReadIcr(x) \/ INTREQ({x})
               \/ \E set \in BOOLEAN : WriteMask(x, set, {"ta", "tb"})
        PROVE  Quiet /\ UNCHANGED eventVars
    BY <2>1, QuietAre DEF ReadIcr, INTREQ, WriteMask
  <2>2. ASSUME INTREQ({}) PROVE Quiet /\ UNCHANGED eventVars
    BY <2>2, QuietAre DEF INTREQ
  <2>3. ASSUME NEW x \in Driven,
               \/ \E v \in 0 .. BYTE - 1 :
                     WriteTaLo(x, v) \/ WriteTaHi(x, v) \/ WriteTbLo(x, v) \/ WriteTbHi(x, v)
               \/ \E load \in BOOLEAN : \/ \E cr \in Cras : WriteCra(x, cr, load)
                                        \/ \E cr \in Crbs : WriteCrb(x, cr, load)
               \/ WriteSdr(x)
        PROVE  Writes
    BY <2>0, <2>3, WritesAre
  <2> QED BY <1>1, <2>1, <2>2, <2>3 DEF CiaCpu, Recalculates
<1>2. CASE CiaTakes
  BY <1>2 DEF CiaTakes
<1>3. CASE CiaEmulate
  BY <1>3 DEF CiaEmulate, Recalculates
<1> QED BY <1>1, <1>2, <1>3 DEF CiaNext

\* At a raster line's end the next line is put a line away, and nothing else moves.
LEMMA CiaLineMoves ==
  ASSUME CiaTypeOK, LineRuns, CIA_hsync_handler
  PROVE  /\ eventtab' \in TableType /\ nextevent' = nextevent
         /\ UNCHANGED <<currcycle, pc, cycles_to_add>> /\ scanned' = ev_hsync + 1 /\ pc = "scan"
         /\ \A e \in Ev \ {ev_hsync} : eventtab'[e] = eventtab[e]
         /\ eventtab'[ev_hsync].evtime = After(HSYNCTIME)
         /\ eventtab'[ev_hsync].oldcycles = currcycle
         /\ Quiet
<1>0. /\ eventtab \in TableType /\ currcycle \in Time /\ ev_hsync \in Ev
      /\ eventtab[ev_hsync].oldcycles \in Time /\ HSYNCTIME \in 0 .. WRAP - 1
  BY CiaTableTypes, EventSizes
<1>1. /\ pc = "scan" /\ eventtab[ev_hsync].evtime = currcycle
      /\ UNCHANGED <<currcycle, pc, cycles_to_add>> /\ scanned' = ev_hsync + 1
      /\ eventtab' = NextLine(eventtab) /\ nextevent' = nextevent
      /\ (\E x \in Chips : Report(x)) \/ UNCHANGED ciaVars
  BY DEF CIA_hsync_handler, Reaches, Due
<1>2. Since(eventtab[ev_hsync].oldcycles) = HSYNCTIME
  <2>1. currcycle = (eventtab[ev_hsync].oldcycles + HSYNCTIME) % WRAP
    BY <1>1 DEF LineRuns
  <2>2. Gap((eventtab[ev_hsync].oldcycles + HSYNCTIME) % WRAP, eventtab[ev_hsync].oldcycles) = HSYNCTIME
    BY <1>0, Gaps
  <2> QED BY <2>1, <2>2 DEF Since, Gap
<1>3. NextLine(eventtab) = [eventtab EXCEPT ![ev_hsync] = Event(eventtab[ev_hsync].active, After(HSYNCTIME), currcycle)]
  BY <1>1, <1>2 DEF NextLine, After
<1>4. eventtab' \in TableType
  BY <1>0, <1>1, TableTypes
<1>5. eventtab'[ev_hsync] = Event(eventtab[ev_hsync].active, After(HSYNCTIME), currcycle)
      /\ \A e \in Ev \ {ev_hsync} : eventtab'[e] = eventtab[e]
  BY <1>0, <1>1, <1>3 DEF TableType
<1>6. Quiet
  <2>1. CASE \E x \in Chips : Report(x)
    BY <2>1, QuietAre
  <2>2. CASE UNCHANGED ciaVars
    BY <2>2 DEF ciaVars, Quiet, SameTimers, CiaTypeOK
  <2> QED BY <1>1, <2>1, <2>2
<1> QED BY <1>1, <1>4, <1>5, <1>6 DEF Event

\* Timers that stay have the same underflows.
LEMMA SameTimes == Quiet => times' = times
<1> SUFFICES ASSUME Quiet PROVE times' = times
  OBVIOUS
<1>1. div10' = div10 /\ \A x \in Chips :
        /\ cia'[x].ta = cia[x].ta /\ cia'[x].tb = cia[x].tb
        /\ (ARuns(cia'[x]) <=> ARuns(cia[x])) /\ (BRuns(cia'[x]) <=> BRuns(cia[x]))
  BY DEF Quiet, SameTimers, ARuns, BRuns
<1>2. /\ {y \in Chips : ARuns(cia'[y])} = {y \in Chips : ARuns(cia[y])}
      /\ {y \in Chips : BRuns(cia'[y])} = {y \in Chips : BRuns(cia[y])}
  BY <1>1
<1>3. times' = Underflows(cia', div10')
  BY DEF times
<1> QED BY <1>1, <1>2, <1>3 DEF times, Underflows

\* The types stay.
LEMMA CiaTypesStay == CiaTypeOK /\ ChipsArmed /\ LineRuns /\ [CiaNext]_chipVars => CiaTypeOK'
<1> SUFFICES ASSUME CiaTypeOK, ChipsArmed, LineRuns, [CiaNext]_chipVars PROVE CiaTypeOK'
  OBVIOUS
<1>0. EventsTypeOK
  BY DEF CiaTypeOK
<1>1. currcycle \in Time /\ nextevent \in Time /\ eventtab \in TableType
      /\ pc \in {"cpu", "loop", "scan"} /\ cycles_to_add \in 0..Max(Durations) /\ scanned \in 0..ev_max
  BY <1>0, CiaTableTypes DEF EventsTypeOK
<1>2. ASSUME currcycle' = currcycle, pc' = pc, cycles_to_add' = cycles_to_add, scanned' \in 0..ev_max,
             eventtab' \in TableType, nextevent' \in Time
      PROVE  EventsTypeOK'
  BY <1>1, <1>2 DEF EventsTypeOK, TableType, Time, ev_max
<1>3. Quiet /\ EventsTypeOK' => CiaTypeOK'
  BY DEF Quiet, CiaTypeOK, Registers, TimerValues, CraValues, CrbValues, Sources
<1>4. CASE Recalculates
  <2>1. nextevent' \in Time
    <3>1. eventtab' \in TableType /\ nextevent' = events_schedule(eventtab')
      BY <1>4, Recalculated
    <3> QED BY <1>1, <3>1, FirstOfAll
  <2>2. EventsTypeOK'
    BY <1>2, <1>4, <2>1, Recalculated
  <2> QED BY <1>4, <2>2, Recalculated DEF CiaTypeOK, Registers, TimerValues, CraValues, CrbValues, Sources
<1>5. CASE CIA_hsync_handler
  <2>1. EventsTypeOK' /\ Quiet
    BY <1>1, <1>2, <1>5, CiaLineMoves DEF ev_hsync, ev_max
  <2> QED BY <1>3, <2>1
<1>6. CASE Quiet /\ UNCHANGED eventVars
  <2>1. EventsTypeOK'
    BY <1>1, <1>2, <1>6 DEF eventVars
  <2> QED BY <1>3, <1>6, <2>1
<1>7. CASE UNCHANGED ciaVars /\ ((\E n \in Durations : do_cycles(n)) \/ JumpToEvent \/ PassTheRest \/ ScanDone)
  <2>1. EventsTypeOK'
    BY <1>0, <1>7, LoopTypes
  <2>2. Quiet
    BY <1>7 DEF ciaVars, Quiet, SameTimers, CiaTypeOK
  <2> QED BY <1>3, <2>1, <2>2
<1>8. CASE UNCHANGED chipVars
  <2>1. EventsTypeOK' /\ Quiet
    BY <1>1, <1>2, <1>8 DEF chipVars, ciaVars, eventVars, Quiet, SameTimers, CiaTypeOK
  <2> QED BY <1>3, <2>1
<1> QED BY <1>4, <1>5, <1>6, <1>7, <1>8, CiaSteps

\* At first the events are those of the raster line and of the chips' first
\* underflow.
LEMMA CiaInitIInv == CiaInit => CiaIInv
<1> SUFFICES ASSUME CiaInit PROVE CiaIInv
  OBVIOUS
<1> DEFINE armed == Arm(HsyncOnly, ev_cia, Min(times))
           idle == [HsyncOnly EXCEPT ![ev_cia].oldcycles = currcycle]
<1>0. /\ StartTimes \subseteq Time /\ Stored \subseteq [Chips -> Registers] /\ MaxWrites \in Nat
      /\ ev_cia \in Ev /\ ev_hsync \in Ev /\ ev_cia # ev_hsync
      /\ WRAP \in Nat /\ WRAP > 1 /\ HSYNCTIME \in 1 .. WRAP - 1 /\ Max(Durations) \in Nat
      /\ DIV10 * BYTE * BYTE \in 1 .. WRAP - 1
  BY EventAssumption, CiaAssumption, CiaSizes, EventSizes DEF EventAssumption, CiaAssumption, Time
<1>1. /\ currcycle \in Time /\ pc = "cpu" /\ cycles_to_add = 0 /\ scanned = 0
      /\ cia \in [Chips -> Registers] /\ div10 \in 0 .. DIV10 - 1
      /\ eventtab = IF times = {} THEN idle ELSE armed
      /\ nextevent = events_schedule(eventtab)
      /\ intreq \subseteq Chips /\ late_mask \subseteq Chips /\ writes = 0
  BY <1>0 DEF CiaInit, EventsInit, times
<1>2. /\ HsyncOnly \in TableType /\ HsyncOnly[ev_hsync] = Event(1, After(HSYNCTIME), currcycle)
      /\ \A e \in Ev \ {ev_hsync} : HsyncOnly[e].active = 0
  <2>1. After(HSYNCTIME) \in Time /\ 0 \in Time
    <3>1. HSYNCTIME \in 0 .. WRAP - 1
      BY <1>0
    <3>2. (currcycle + HSYNCTIME) % WRAP \in Time
      BY <1>1, <3>1, Gaps
    <3>3. 0 \in Time
      BY <1>0 DEF Time
    <3> QED BY <3>2, <3>3 DEF After
  <2> QED BY <1>0, <1>1, <2>1 DEF HsyncOnly, Event, TableType
<1>3. times # {} => Min(times) \in 1 .. WRAP - 1
  <2>1. times # {} => Min(times) \in 1 .. DIV10 * BYTE * BYTE
    BY <1>1, TimesAre DEF times
  <2> DEFINE M == DIV10 * BYTE * BYTE
             m == Min(times)
  <2> HIDE DEF M, m
  <2>2. m \in 1 .. M => m \in 1 .. WRAP - 1
    BY <1>0 DEF M
  <2> QED BY <2>1, <2>2 DEF M, m
<1>4. /\ idle \in TableType /\ idle[ev_cia].active = 0
      /\ \A e \in Ev \ {ev_cia} : idle[e] = HsyncOnly[e]
  BY <1>0, <1>1, <1>2 DEF TableType
<1>5. ASSUME times # {}
      PROVE  /\ armed \in TableType /\ \A e \in Ev \ {ev_cia} : armed[e] = HsyncOnly[e]
             /\ armed[ev_cia].active = 1 /\ armed[ev_cia].oldcycles = currcycle
             /\ armed[ev_cia].evtime = After(Min(times))
  <2>1. Min(times) \in Nat
    BY <1>0, <1>3, <1>5
  <2>2. Arm(HsyncOnly, ev_cia, Min(times)) \in TableType
    <3> DEFINE m == Min(times)
    <3> HIDE DEF m
    <3>1. \A t \in Nat : Arm(HsyncOnly, ev_cia, t) \in TableType
      BY <1>0, <1>1, <1>2, TableTypes
    <3> QED BY <2>1, <3>1 DEF m
  <2> QED BY <1>0, <1>2, <2>2 DEF Arm, Event, TableType
<1> HIDE DEF armed, idle
<1>6. /\ eventtab \in TableType /\ eventtab[ev_hsync] = HsyncOnly[ev_hsync]
      /\ \A e \in Ev \ {ev_hsync, ev_cia} : eventtab[e].active = 0
      /\ times = {} => eventtab[ev_cia].active = 0
      /\ times # {} => /\ eventtab[ev_cia].active = 1 /\ eventtab[ev_cia].oldcycles = currcycle
                       /\ eventtab[ev_cia].evtime = After(Min(times))
  BY <1>0, <1>1, <1>2, <1>4, <1>5
<1>7. CiaTypeOK
  <2>1. nextevent \in Time
    BY <1>1, <1>6, FirstOfAll
  <2>2. EventsTypeOK
    BY <1>0, <1>1, <1>6, <2>1 DEF EventsTypeOK, TableType, ev_max
  <2> QED BY <1>0, <1>1, <2>2 DEF CiaTypeOK
<1>8. \A k \in 0 .. WRAP - 1 : Gap(After(k), currcycle) = k
  BY <1>7, CiaTableTypes
<1>9. /\ eventtab[ev_hsync].evtime = After(HSYNCTIME) /\ eventtab[ev_hsync].oldcycles = currcycle
      /\ Ahead(ev_hsync) = HSYNCTIME
  BY <1>0, <1>2, <1>6, <1>8 DEF Event, Ahead
<1>10. times # {} => Ahead(ev_cia) = Min(times)
  BY <1>3, <1>6, <1>8 DEF Ahead
<1>11. NoOthers /\ ChipsArmed /\ LineRuns /\ LineNear
  <2>1. times # {} => Min(times) <= Min(times)
    BY <1>3
  <2> QED BY <1>0, <1>6, <1>9, <1>10, <2>1 DEF NoOthers, ChipsArmed, LineRuns, LineNear, Active, After
<1>12. FirstIsNext
  BY <1>1, <1>6, FirstOfAll DEF FirstIsNext, Active, Ahead
<1>13. NoneDue
  <2> SUFFICES ASSUME NEW e \in Ev, Active(e) PROVE Ahead(e) >= 1
    BY DEF NoneDue
  <2>1. e = ev_hsync \/ (e = ev_cia /\ times # {})
    BY <1>6 DEF Active
  <2>2. HSYNCTIME >= 1 /\ (times # {} => Min(times) >= 1)
    BY <1>0, <1>3
  <2> QED BY <1>9, <1>10, <2>1, <2>2
<1> QED BY <1>1, <1>7, <1>11, <1>12, <1>13 DEF CiaIInv, NoneLeft

\* Every step keeps the chips' event their first underflow, and no step goes past
\* an event.
LEMMA CiaIInvStays == CiaIInv /\ [CiaNext]_chipVars => CiaIInv'
<1> SUFFICES ASSUME CiaIInv, [CiaNext]_chipVars PROVE CiaIInv'
  OBVIOUS
<1>0. /\ CiaTypeOK /\ CiaTypeOK' /\ NoOthers /\ ChipsArmed /\ LineRuns /\ LineNear
      /\ FirstIsNext /\ NoneLeft /\ NoneDue
  BY CiaTypesStay DEF CiaIInv
<1>1. /\ eventtab \in TableType /\ eventtab' \in TableType /\ currcycle \in Time /\ nextevent \in Time
      /\ \A e \in Ev : /\ eventtab[e].evtime \in Time /\ eventtab'[e].evtime \in Time
                       /\ Ahead(e) \in 0 .. WRAP - 1 /\ (Ahead(e) = 0 <=> eventtab[e].evtime = currcycle)
                       /\ Ahead(e)' \in 0 .. WRAP - 1 /\ Ahead(e)' = Gap(eventtab'[e].evtime, currcycle')
      /\ \A k \in 0 .. WRAP - 1 : Gap(After(k), currcycle) = k
  <2>1. /\ eventtab' \in TableType
        /\ \A e \in Ev : eventtab'[e].evtime \in Time /\ Ahead(e)' \in 0 .. WRAP - 1
    <3>1. /\ eventtab' \in TableType /\ currcycle' \in Time
      BY <1>0 DEF CiaTypeOK, EventsTypeOK, TableType, Time
    <3>2. \A e \in Ev : eventtab'[e].evtime \in Time
      BY <3>1 DEF TableType
    <3>3. \A e \in Ev : Gap(eventtab'[e].evtime, currcycle') \in 0 .. WRAP - 1
      BY <3>1, <3>2, Gaps
    <3> QED BY <3>1, <3>2, <3>3 DEF Ahead
  <2> QED BY <1>0, <2>1, CiaTableTypes DEF Ahead
<1>2. /\ ev_cia \in Ev /\ ev_hsync \in Ev /\ ev_cia # ev_hsync
      /\ WRAP \in Nat /\ WRAP > 1 /\ HSYNCTIME \in 1 .. WRAP - 1
      /\ \A e \in Ev : e \in 0 .. ev_max - 1
  BY EventAssumption, CiaSizes, EventSizes DEF EventAssumption
<1>3. \A e \in Ev : Active(e) => e = ev_hsync \/ e = ev_cia
  BY <1>0 DEF NoOthers
<1>4. CASE Recalculates
  <2>1. times' # {} => Min(times') \in 1 .. WRAP - 1
    <3>1. times' # {} => Min(times') \in 1 .. DIV10 * BYTE * BYTE
      <4>1. times' = Underflows(cia', div10')
        BY DEF times
      <4> QED BY <1>0, <1>4, <4>1, Recalculated, TimesAre
    <3> DEFINE M == DIV10 * BYTE * BYTE
               m == Min(times')
    <3>2. M \in 1 .. WRAP - 1
      BY CiaSizes
    <3> HIDE DEF M, m
    <3>3. m \in 1 .. M => m \in 1 .. WRAP - 1
      BY <1>2, <3>2
    <3> QED BY <3>1, <3>3 DEF M, m
  <2>2. /\ nextevent' = events_schedule(eventtab') /\ UNCHANGED <<currcycle, pc>>
        /\ \A e \in Ev \ {ev_cia, ev_hsync} : eventtab'[e] = eventtab[e]
        /\ eventtab'[ev_cia].oldcycles = currcycle
        /\ times' = {} => eventtab'[ev_cia].active = 0
        /\ times' # {} => /\ eventtab'[ev_cia].active = 1
                          /\ eventtab'[ev_cia].evtime = After(Min(times'))
        /\ IF CIA_reset
             THEN /\ eventtab'[ev_hsync].evtime = After(HSYNCTIME)
                  /\ eventtab'[ev_hsync].oldcycles = currcycle
             ELSE eventtab'[ev_hsync] = eventtab[ev_hsync]
    BY <1>0, <1>4, Recalculated
  <2>3. \A e \in Ev : Ahead(e)' = Gap(eventtab'[e].evtime, currcycle)
    BY <1>1, <2>2
  <2>4. times' # {} => Ahead(ev_cia)' = Min(times')
    BY <1>1, <1>2, <2>1, <2>2, <2>3
  <2>5. CIA_reset => Ahead(ev_hsync)' = HSYNCTIME
    BY <1>1, <1>2, <2>2, <2>3
  <2>6. ~ CIA_reset => Ahead(ev_hsync)' = Ahead(ev_hsync) /\ (Active(ev_hsync)' <=> Active(ev_hsync))
    BY <1>2, <2>2, <2>3 DEF Ahead, Active
  <2>7. NoOthers' /\ ChipsArmed'
    <3>1. times' # {} => Min(times') <= Min(times')
      BY <2>1
    <3>2. ChipsArmed'
      BY <2>2, <2>4, <3>1 DEF ChipsArmed, Active, After
    <3> QED BY <1>0, <2>2, <3>2 DEF NoOthers, Active
  <2>8. LineRuns' /\ LineNear'
    BY <1>0, <1>2, <2>2, <2>5, <2>6 DEF LineRuns, LineNear, After
  <2>9. FirstIsNext'
    <3> SUFFICES ASSUME NEW e \in Ev, Active(e)' PROVE Gap(nextevent', currcycle') <= Ahead(e)'
      BY DEF FirstIsNext
    <3>1. eventtab'[e].active = 1
      BY DEF Active
    <3>2. Gap(events_schedule(eventtab'), currcycle) <= Gap(eventtab'[e].evtime, currcycle)
      BY <1>1, <3>1, FirstOfAll
    <3> QED BY <2>2, <2>3, <3>2
  <2>10. NoneLeft'
    <3> SUFFICES ASSUME pc' = "scan", NEW e \in Ev, Active(e)', Ahead(e)' = 0 PROVE e >= scanned'
      BY DEF NoneLeft
    <3>1. e # ev_cia
      <4>1. times' # {} => Min(times') # 0
        BY <2>1
      <4> QED BY <2>2, <2>4, <4>1 DEF Active
    <3>2. e = ev_hsync /\ ~ CIA_reset
      <4>1. e = ev_hsync
        BY <1>0, <2>2, <3>1 DEF NoOthers, Active
      <4> QED BY <1>2, <2>5, <4>1
    <3>3. Active(e) /\ Ahead(e) = 0 /\ e >= scanned /\ pc = "scan"
      BY <1>0, <2>2, <2>6, <3>2 DEF NoneLeft
    <3>4. CIA_handler
      BY <1>4, <3>2, <3>3 DEF Recalculates, Writes, Rewrite
    <3>5. ev_cia <= e
      <4>1. e \in Due
        BY <1>1, <3>3 DEF Due, Active
      <4> QED BY <3>4, <4>1 DEF CIA_handler, Reaches
    <3> QED BY <3>2, <3>5 DEF ev_cia, ev_hsync
  <2>11. NoneDue'
    <3> SUFFICES ASSUME pc' = "cpu", NEW e \in Ev, Active(e)' PROVE Ahead(e)' >= 1
      BY DEF NoneDue
    <3>1. CASE e = ev_cia
      <4>1. times' # {}
        BY <2>2, <3>1 DEF Active
      <4>2. Min(times') >= 1
        BY <2>1, <4>1
      <4> QED BY <2>4, <3>1, <4>1, <4>2
    <3>2. CASE e # ev_cia
      <4>1. e = ev_hsync
        BY <1>0, <2>2, <3>2 DEF NoOthers, Active
      <4>2. HSYNCTIME >= 1
        BY <1>2
      <4> QED BY <1>0, <2>2, <2>5, <2>6, <4>1, <4>2 DEF NoneDue
    <3> QED BY <3>1, <3>2
  <2> QED BY <1>0, <2>7, <2>8, <2>9, <2>10, <2>11 DEF CiaIInv
<1>5. CASE CIA_hsync_handler
  <2>1. /\ UNCHANGED <<currcycle, pc>> /\ scanned' = ev_hsync + 1 /\ pc = "scan"
        /\ \A e \in Ev \ {ev_hsync} : eventtab'[e] = eventtab[e]
        /\ eventtab'[ev_hsync].evtime = After(HSYNCTIME)
        /\ eventtab'[ev_hsync].oldcycles = currcycle /\ Quiet
    BY <1>0, <1>5, CiaLineMoves
  <2>2. times' = times
    BY <2>1, SameTimes
  <2>3. /\ \A e \in Ev \ {ev_hsync} : Ahead(e)' = Ahead(e) /\ (Active(e)' <=> Active(e))
        /\ Ahead(ev_hsync)' = HSYNCTIME
    BY <1>1, <1>2, <2>1 DEF Ahead, Active
  <2>4. NoOthers' /\ ChipsArmed'
    BY <1>0, <1>2, <2>1, <2>2, <2>3 DEF NoOthers, ChipsArmed
  <2>5. LineRuns' /\ LineNear'
    BY <1>2, <2>1, <2>3 DEF LineRuns, LineNear, After
  <2>6. NoneLeft'
    <3> SUFFICES ASSUME NEW e \in Ev, Active(e)', Ahead(e)' = 0 PROVE e >= scanned'
      BY DEF NoneLeft
    <3>1. e # ev_hsync
      BY <1>2, <2>3
    <3> QED BY <1>2, <2>1, <3>1 DEF ev_hsync, ev_max
  <2> QED BY <1>0, <2>1, <2>4, <2>5, <2>6 DEF CiaIInv, FirstIsNext, NoneDue
<1>6. CASE (Quiet /\ UNCHANGED eventVars) \/ UNCHANGED chipVars
  <2>1. UNCHANGED eventVars /\ times' = times
    <3>1. UNCHANGED chipVars => Quiet
      BY <1>0 DEF chipVars, ciaVars, Quiet, SameTimers, CiaTypeOK
    <3> QED BY <1>6, <3>1, SameTimes DEF chipVars
  <2> QED BY <1>0, <2>1 DEF CiaIInv, NoOthers, ChipsArmed, LineRuns, LineNear, FirstIsNext,
                            NoneLeft, NoneDue, Active, Ahead, eventVars
<1>7. CASE UNCHANGED ciaVars /\ (JumpToEvent \/ PassTheRest)
  <2>1. PICK k \in 0 .. WRAP - 1 :
          /\ currcycle' = (currcycle + k) % WRAP /\ k <= Gap(nextevent, currcycle)
          /\ PassTheRest => k < Gap(nextevent, currcycle)
          /\ \A t \in Time : k <= Gap(t, currcycle) => Gap(t, currcycle') = Gap(t, currcycle) - k
    BY <1>0, <1>7, TimePasses DEF CiaTypeOK
  <2>2. /\ pc = "loop" /\ UNCHANGED <<nextevent, eventtab>> /\ times' = times
        /\ (pc' = "scan" /\ scanned' = 0) \/ (pc' = "cpu" /\ PassTheRest)
    BY <1>7 DEF JumpToEvent, PassTheRest, ciaVars, times
  <2>3. Gap(nextevent, currcycle) \in 0 .. WRAP - 1
    BY <1>1, Gaps
  <2>4. ASSUME NEW e \in Ev, Active(e)
        PROVE  /\ Ahead(e)' = Ahead(e) - k /\ Ahead(e)' <= Ahead(e)
               /\ Gap(nextevent, currcycle') <= Ahead(e)'
               /\ PassTheRest => Ahead(e)' >= 1
    <3> DEFINE g == Ahead(e)
               n == Gap(nextevent, currcycle)
    <3>1. n <= g /\ g \in 0 .. WRAP - 1 /\ n \in 0 .. WRAP - 1 /\ k <= n /\ (PassTheRest => k < n)
      BY <1>0, <1>1, <2>1, <2>2, <2>3, <2>4 DEF FirstIsNext
    <3> HIDE DEF g, n
    <3>2. k <= g /\ g - k <= g /\ n - k <= g - k /\ (PassTheRest => g - k >= 1)
      BY <1>2, <2>1, <3>1
    <3>3. Gap(eventtab[e].evtime, currcycle') = Gap(eventtab[e].evtime, currcycle) - k
      BY <1>1, <2>1, <3>2 DEF g, Ahead
    <3>4. Gap(nextevent, currcycle') = n - k
      BY <1>1, <2>1, <3>1 DEF n
    <3>5. Ahead(e)' = g - k
      BY <1>1, <2>2, <3>3 DEF g, Ahead
    <3> QED BY <3>2, <3>4, <3>5 DEF g
  <2>5. \A e \in Ev : Active(e)' <=> Active(e)
    BY <2>2 DEF Active
  <2>6. NoOthers' /\ LineRuns'
    BY <1>0, <2>2, <2>5 DEF NoOthers, LineRuns
  <2>7. ChipsArmed'
    <3>1. CASE times = {}
      BY <1>0, <1>2, <2>2, <2>5, <3>1 DEF ChipsArmed
    <3>2. CASE times # {}
      <4>1. Min(times) \in Int
        <5>1. Min(times) \in 1 .. DIV10 * BYTE * BYTE
          BY <1>0, <3>2, TimesAre DEF times, CiaTypeOK
        <5> QED BY <5>1
      <4>2. Active(ev_cia) /\ Ahead(ev_cia) <= Min(times) /\ Ahead(ev_cia)' <= Ahead(ev_cia)
        BY <1>0, <1>2, <2>4, <3>2 DEF ChipsArmed
      <4>3. Ahead(ev_cia)' <= Min(times)
        BY <1>1, <1>2, <4>1, <4>2
      <4> QED BY <1>0, <1>2, <2>2, <2>5, <3>2, <4>3 DEF ChipsArmed
    <3> QED BY <3>1, <3>2
  <2>8. LineNear'
    BY <1>0, <1>1, <1>2, <2>4, <2>5 DEF LineNear
  <2>9. FirstIsNext' /\ NoneDue'
    BY <2>2, <2>4, <2>5 DEF FirstIsNext, NoneDue
  <2>10. NoneLeft'
    BY <1>2, <2>2 DEF NoneLeft, ev_max
  <2> QED BY <1>0, <2>6, <2>7, <2>8, <2>9, <2>10 DEF CiaIInv
<1>8. CASE UNCHANGED ciaVars /\ ScanDone
  <2>1. /\ pc = "scan" /\ pc' = "loop" /\ UNCHANGED <<currcycle, eventtab>> /\ times' = times
        /\ nextevent' = events_schedule(eventtab)
    BY <1>8 DEF ScanDone, Reschedule, ciaVars, times
  <2>2. \A e \in Ev : Ahead(e)' = Ahead(e) /\ (Active(e)' <=> Active(e))
    BY <2>1 DEF Ahead, Active
  <2>3. FirstIsNext'
    BY <1>1, <2>1, <2>2, FirstOfAll DEF FirstIsNext, Active, Ahead
  <2> QED BY <1>0, <1>2, <2>1, <2>2, <2>3 DEF CiaIInv, NoOthers, ChipsArmed, LineRuns, LineNear, NoneLeft, NoneDue
<1>9. CASE UNCHANGED ciaVars /\ \E n \in Durations : do_cycles(n)
  <2>1. pc = "cpu" /\ pc' = "loop" /\ UNCHANGED <<currcycle, nextevent, eventtab>> /\ times' = times
    BY <1>9 DEF do_cycles, ciaVars, times
  <2> QED BY <1>0, <2>1 DEF CiaIInv, NoOthers, ChipsArmed, LineRuns, LineNear, FirstIsNext,
                            NoneLeft, NoneDue, Active, Ahead
<1> QED BY <1>0, <1>4, <1>5, <1>6, <1>7, <1>8, <1>9, CiaSteps

\* NothingMissed, for every length of the timers and of the raster line, for
\* every wrap of the cycle counter, and however often the registers are written:
\* neither a timer's underflow nor an event is passed by, so that the assertions
\* of CIA_update and compute_passed_time (cia.c:148-164, 182-215) hold.
THEOREM NoUnderflowIsMissed == CiaSpec => []NothingMissed
<1>1. CiaIInv => NothingMissed
  <2> SUFFICES ASSUME CiaIInv PROVE NothingMissed
    OBVIOUS
  <2>0. /\ CiaTypeOK /\ NoOthers /\ ChipsArmed /\ LineNear /\ NoneDue
        /\ \A e \in Ev : Ahead(e) \in 0 .. WRAP - 1
        /\ ev_cia \in Ev /\ ev_hsync \in Ev
    BY CiaTableTypes, CiaSizes DEF CiaIInv
  <2>1. NoUnderflowMissed
    <3> SUFFICES ASSUME NEW x \in Chips
                 PROVE  /\ ARuns(cia[x]) => cia[x].ta + (IF pc = "cpu" THEN 0 ELSE 1) >= ciaclocks
                        /\ BRuns(cia[x]) => cia[x].tb + (IF pc = "cpu" THEN 0 ELSE 1) >= ciaclocks
      BY DEF NoUnderflowMissed
    <3>1. cia[x].ta \in Nat /\ cia[x].tb \in Nat /\ ciaclocks \in Nat
      <4>1. cia[x].ta \in TimerValues /\ cia[x].tb \in TimerValues
        BY <2>0 DEF CiaTypeOK, Registers
      <4> QED BY <2>0, <4>1, ClocksPassed, CiaSizes
    <3>2. ARuns(cia[x]) \/ BRuns(cia[x]) => Active(ev_cia)
      BY <2>0 DEF ChipsArmed, times, Underflows
    <3>3. pc = "cpu" /\ Active(ev_cia) => Ahead(ev_cia) >= 1
      BY <2>0 DEF NoneDue
    <3>4. /\ ARuns(cia[x]) => ciaclocks <= cia[x].ta + 1 /\ (pc = "cpu" => ciaclocks <= cia[x].ta)
          /\ BRuns(cia[x]) => ciaclocks <= cia[x].tb + 1 /\ (pc = "cpu" => ciaclocks <= cia[x].tb)
      BY <2>0, <3>2, <3>3, ClocksPassed
    <3> QED BY <3>1, <3>4
  <2>2. NoEventPassed
    <3> DEFINE M == DIV10 * BYTE * BYTE
    <3>1. Active(ev_cia) => ~ (Ahead(ev_cia) > M)
      <4>1. Active(ev_cia) => times # {}
        BY <2>0 DEF ChipsArmed
      <4>2. times # {} => Min(times) \in 1 .. M
        BY <2>0, TimesAre DEF times, CiaTypeOK
      <4>3. times # {} => Ahead(ev_cia) <= Min(times)
        BY <2>0 DEF ChipsArmed
      <4>4. M \in Int
        BY CiaSizes
      <4> DEFINE m == Min(times)
      <4> HIDE DEF M, m
      <4>5. m \in 1 .. M /\ Ahead(ev_cia) <= m => ~ (Ahead(ev_cia) > M)
        BY <2>0, <4>4
      <4> QED BY <4>1, <4>2, <4>3, <4>5 DEF m
    <3>2. Active(ev_hsync) => ~ (Ahead(ev_hsync) > HSYNCTIME)
      BY <2>0, EventSizes DEF LineNear
    <3>3. \A e \in Ev : Until(eventtab[e].evtime) = Ahead(e)
      BY DEF Until, Ahead, Gap
    <3> QED BY <2>0, <3>1, <3>2, <3>3 DEF NoEventPassed, Passed
  <2> QED BY <2>0, <2>1, <2>2 DEF NothingMissed
<1> QED BY <1>1, CiaInitIInv, CiaIInvStays, PTL DEF CiaSpec

-----------------------------------------------------------------------------
(* The chips: a request stands.                                            *)

\* RethinkICR for the chips of xs, and nothing for the others.
LEMMA ThoughtStands ==
  ASSUME RequestStands, NEW xs, Thought(xs),
         \A x \in Chips :
            IF x \in xs THEN Enabled(cia'[x]) => cia'[x].ir = 1
                        ELSE (Enabled(cia'[x]) => Enabled(cia[x])) /\ cia'[x].ir = cia[x].ir
  PROVE  RequestStands'
<1> SUFFICES ASSUME NEW x \in Chips, Enabled(cia'[x]), x \notin late_mask'
             PROVE  x \in intreq' /\ cia'[x].ir = 1
  BY DEF RequestStands, Enabled
<1>1. /\ intreq' = intreq \union {y \in xs : Enabled(cia'[y])}
      /\ late_mask' = late_mask \ xs
  BY DEF Thought
<1>2. CASE x \in xs
  BY <1>1, <1>2
<1>3. CASE x \notin xs
  BY <1>1, <1>3 DEF RequestStands
<1> QED BY <1>2, <1>3

\* CIA_update asks for the interrupts of the underflows it finds.
LEMMA UpdateStands ==
  ASSUME CiaTypeOK, RequestStands, Thought(Overflowed),
         \A x \in Chips : /\ cia'[x].icr = CIA_update[x].icr /\ cia'[x].imask = CIA_update[x].imask
                          /\ cia'[x].ir = CIA_update[x].ir
  PROVE  RequestStands'
<1> SUFFICES ASSUME NEW x \in Chips
             PROVE  IF x \in Overflowed
                      THEN Enabled(cia'[x]) => cia'[x].ir = 1
                      ELSE (Enabled(cia'[x]) => Enabled(cia[x])) /\ cia'[x].ir = cia[x].ir
  BY ThoughtStands
<1> DEFINE c == cia[x]
           n == ciaclocks
<1>1. CIA_update[x] = Chip(TaAfter(c, n), c.la, TbAfter(c, n), c.lb, CraAfter(c, n), CrbAfter(c, n),
                           SdrAfter(c, n), IcrAfter(c, n), c.imask, IrAfter(c, n))
  <2>1. c \in Registers
    BY DEF CiaTypeOK
  <2> QED BY <2>1, UpdatedIs DEF CIA_update
<1>2. /\ cia'[x].icr = IcrAfter(c, n) /\ cia'[x].imask = c.imask /\ cia'[x].ir = IrAfter(c, n)
  BY <1>1 DEF Chip
<1>3. x \in Overflowed <=> Overflows(c, n) # {}
  BY DEF Overflowed
<1> HIDE DEF c, n
<1>4. CASE Overflows(c, n) = {}
  BY <1>2, <1>3, <1>4 DEF IcrAfter, IrAfter, Enabled, c
<1>5. CASE Overflows(c, n) # {}
  BY <1>2, <1>3, <1>5 DEF IcrAfter, IrAfter, Enabled
<1> QED BY <1>4, <1>5

\* Neither does any other step lose a request.
LEMMA StandsStays == CiaIInv /\ RequestStands /\ [CiaNext]_chipVars => RequestStands'
<1> SUFFICES ASSUME CiaIInv, RequestStands, [CiaNext]_chipVars PROVE RequestStands'
  OBVIOUS
<1>0. CiaTypeOK /\ ChipsArmed /\ cia \in [Chips -> Registers] /\ Driven \subseteq Chips
  BY CiaAssumption DEF CiaIInv, CiaTypeOK, CiaAssumption
<1>1. CIA_update \in [Chips -> Registers]
  BY <1>0, UpdateTypes
<1>2. ASSUME Writes PROVE RequestStands'
  <2>1. PICK x \in Chips, c \in Registers :
          Rewrite(x, c) /\ (ByA(CIA_update[x], c) \/ ByB(CIA_update[x], c))
    BY <1>2 DEF Writes
  <2>2. cia' = [CIA_update EXCEPT ![x] = c] /\ Thought(Overflowed)
    BY <2>1 DEF Rewrite
  <2>3. c.icr = CIA_update[x].icr /\ c.imask = CIA_update[x].imask /\ c.ir = CIA_update[x].ir
    BY <2>1 DEF ByA, ByB
  <2>4. \A y \in Chips : /\ cia'[y].icr = CIA_update[y].icr /\ cia'[y].imask = CIA_update[y].imask
                         /\ cia'[y].ir = CIA_update[y].ir
    BY <1>1, <2>2, <2>3
  <2> QED BY <1>0, <2>2, <2>4, UpdateStands
<1>3. ASSUME CIA_handler PROVE RequestStands'
  BY <1>0, <1>3, UpdateStands DEF CIA_handler
<1>4. ASSUME CIA_reset PROVE RequestStands'
  <2>1. \A x \in Chips : cia'[x].icr = {}
    BY <1>4 DEF CIA_reset, ResetChip
  <2> QED BY <2>1 DEF RequestStands, Enabled
<1>5. ASSUME NEW x \in Chips, NEW c \in Registers,
             Touch(x, Rethink(c), {x})
      PROVE  RequestStands'
  <2>1. cia' = [cia EXCEPT ![x] = Rethink(c)] /\ Thought({x})
    BY <1>5 DEF Touch
  <2>2. Enabled(cia'[x]) => cia'[x].ir = 1
    BY <1>0, <2>1, RethinkTypes
  <2>3. \A y \in Chips : IF y \in {x} THEN Enabled(cia'[y]) => cia'[y].ir = 1
                         ELSE (Enabled(cia'[y]) => Enabled(cia[y])) /\ cia'[y].ir = cia[y].ir
    BY <1>0, <2>1, <2>2
  <2> QED BY <2>1, <2>3, ThoughtStands
<1>6. ASSUME NEW x \in Chips, ReadIcr(x) PROVE RequestStands'
  <2> DEFINE c == [cia[x] EXCEPT !.icr = {}]
  <2>1. c \in Registers
    BY <1>0 DEF Registers
  <2>2. Touch(x, Rethink(c), {x})
    BY <1>6 DEF ReadIcr
  <2> HIDE DEF c
  <2> QED BY <1>5, <2>1, <2>2
<1>7. ASSUME NEW x \in Chips, Report(x) PROVE RequestStands'
  <2> DEFINE c == [cia[x] EXCEPT !.icr = @ \union {"flag"}]
  <2>1. c \in Registers
    BY <1>0 DEF Registers, Sources
  <2>2. Touch(x, Rethink(c), {x})
    BY <1>7 DEF Report
  <2> HIDE DEF c
  <2> QED BY <1>5, <2>1, <2>2
<1>8. ASSUME NEW xs, INTREQ(xs) PROVE RequestStands'
  <2>1. /\ cia' = [y \in Chips |-> Rethink(cia[y])]
        /\ \A y \in Chips : Enabled(cia[y]) => y \in intreq'
    BY <1>8 DEF INTREQ
  <2>2. \A y \in Chips : Enabled(cia'[y]) => Enabled(cia[y]) /\ cia'[y].ir = 1
    BY <1>0, <2>1, RethinkTypes
  <2> QED BY <2>1, <2>2 DEF RequestStands, Enabled
<1>9. ASSUME NEW x \in Chips, NEW set \in BOOLEAN, WriteMask(x, set, {"ta", "tb"})
      PROVE  RequestStands'
  <2> DEFINE m == IF set THEN cia[x].imask \union {"ta", "tb"} ELSE cia[x].imask \ {"ta", "tb"}
  <2>1. cia' = [cia EXCEPT ![x].imask = m] /\ intreq' = intreq /\ late_mask' = late_mask \union {x}
    BY <1>9 DEF WriteMask
  <2> HIDE DEF m
  <2>2. \A y \in Chips \ {x} : cia'[y] = cia[y]
    BY <1>0, <2>1
  <2> QED BY <2>1, <2>2 DEF RequestStands, Enabled
<1>10. ASSUME UNCHANGED ciaVars PROVE RequestStands'
  BY <1>10 DEF ciaVars, RequestStands, Enabled
<1>11. CASE CiaCpu
  <2>1. ASSUME NEW x \in Driven,
               \/ \E v \in 0 .. BYTE - 1 :
                     WriteTaLo(x, v) \/ WriteTaHi(x, v) \/ WriteTbLo(x, v) \/ WriteTbHi(x, v)
               \/ \E load \in BOOLEAN : \/ \E cr \in Cras : WriteCra(x, cr, load)
                                        \/ \E cr \in Crbs : WriteCrb(x, cr, load)
               \/ WriteSdr(x)
        PROVE  RequestStands'
    BY <1>0, <1>2, <2>1, WritesAre
  <2> QED BY <1>0, <1>4, <1>6, <1>8, <1>9, <1>11, <2>1 DEF CiaCpu
<1>12. CASE CiaTakes
  BY <1>10, <1>12 DEF CiaTakes
<1>13. CASE CiaEmulate
  BY <1>3, <1>7, <1>10, <1>13 DEF CiaEmulate, CIA_hsync_handler
<1>14. CASE UNCHANGED chipVars
  BY <1>10, <1>14 DEF chipVars
<1> QED BY <1>11, <1>12, <1>13, <1>14 DEF CiaNext

\* RequestStands, for any number of chips and of writes: an interrupt that a chip
\* asks for stays requested until its ICR is read or its mask changed, however
\* often INTREQ is cleared (cia.c:110-136).
THEOREM ChipRequestStands == CiaSpec => []RequestStands
<1>1. CiaInit => RequestStands
  <2> SUFFICES ASSUME CiaInit PROVE RequestStands
    OBVIOUS
  <2>1. \A x \in Chips : cia[x].ir \in {0, 1}
    BY CiaInitIInv DEF CiaIInv, CiaTypeOK, Registers
  <2> QED BY <2>1 DEF CiaInit, RequestStands
<1> QED BY <1>1, CiaInitIInv, CiaIInvStays, StandsStays, PTL DEF CiaSpec

-----------------------------------------------------------------------------
(* E clocks, one after another: what CiaTick's recursion computes.         *)

\* after is a run of n E clocks from c.
Runs(after, c, n) ==
  after = [k \in 0 .. n |-> IF k = 0 THEN {c} ELSE {Eager!Tick(d) : d \in after[k - 1]}]

\* What is true of no least number is true of none: every proof about Ticks
\* looks at the first clock that would be wrong.
LEMMA NoFirst ==
  ASSUME NEW S \in SUBSET Nat, 0 \notin S, \A m \in S : m = 0 \/ m - 1 \in S
  PROVE  S = {}
<1> SUFFICES ASSUME S # {} PROVE FALSE
  OBVIOUS
<1>1. Min(S) \in S /\ \A x \in S : Min(S) <= x
  BY MinIs
<1>2. Min(S) \in Nat /\ Min(S) - 1 \in S
  BY <1>1
<1> QED BY <1>1, <1>2

\* There is a run of every length.
LEMMA RunExists ==
  ASSUME NEW c, NEW n \in Nat
  PROVE  \E after : Runs(after, c, n)
<1> DEFINE S == {m \in Nat : ~ \E after : Runs(after, c, m)}
<1>1. 0 \notin S
  <2> DEFINE f == [k \in 0 .. 0 |-> {c}]
  <2>1. f = [k \in 0 .. 0 |-> IF k = 0 THEN {c} ELSE {Eager!Tick(d) : d \in f[k - 1]}]
    OBVIOUS
  <2> HIDE DEF f
  <2>2. Runs(f, c, 0)
    BY <2>1 DEF Runs
  <2> QED BY <2>2
<1>2. ASSUME NEW m \in S PROVE m = 0 \/ m - 1 \in S
  <2> SUFFICES ASSUME m # 0, m - 1 \notin S PROVE FALSE
    OBVIOUS
  <2>1. m \in Nat /\ m - 1 \in Nat
    OBVIOUS
  <2>2. PICK f : Runs(f, c, m - 1)
    BY <2>1
  <2> DEFINE g == [k \in 0 .. m |-> IF k = m THEN {Eager!Tick(d) : d \in f[m - 1]} ELSE f[k]]
  <2>3. f = [k \in 0 .. m - 1 |-> IF k = 0 THEN {c} ELSE {Eager!Tick(d) : d \in f[k - 1]}]
    BY <2>2 DEF Runs
  <2>4. \A k \in 0 .. m - 1 : g[k] = f[k]
    BY <2>1
  <2>5. ASSUME NEW k \in 0 .. m
        PROVE  g[k] = IF k = 0 THEN {c} ELSE {Eager!Tick(d) : d \in g[k - 1]}
    <3>1. CASE k = m
      <4>1. g[m] = {Eager!Tick(d) : d \in f[m - 1]}
        BY <2>1
      <4>2. m - 1 \in 0 .. m - 1
        BY <2>1
      <4>3. f[m - 1] = g[m - 1]
        BY <2>4, <4>2
      <4> HIDE DEF g
      <4> QED BY <2>1, <3>1, <4>1, <4>3
    <3>2. CASE k # m
      <4>1. k \in 0 .. m - 1 /\ (k # 0 => k - 1 \in 0 .. m - 1)
        BY <2>1, <3>2
      <4>2. f[k] = IF k = 0 THEN {c} ELSE {Eager!Tick(d) : d \in f[k - 1]}
        BY <2>3, <4>1
      <4>3. g[k] = f[k] /\ (k # 0 => g[k - 1] = f[k - 1])
        BY <2>4, <4>1
      <4> HIDE DEF g
      <4> QED BY <4>2, <4>3
    <3> QED BY <3>1, <3>2
  <2>6. g = [k \in 0 .. m |-> g[k]]
    OBVIOUS
  <2> HIDE DEF g
  <2>7. g = [k \in 0 .. m |-> IF k = 0 THEN {c} ELSE {Eager!Tick(d) : d \in g[k - 1]}]
    BY <2>5, <2>6
  <2>8. Runs(g, c, m)
    BY <2>7 DEF Runs
  <2> QED BY <2>8
<1>3. S \in SUBSET Nat
  OBVIOUS
<1>4. S = {}
  <2> HIDE DEF S
  <2> QED BY <1>1, <1>2, <1>3, NoFirst
<1> QED BY <1>4

\* Ticks is the end of a run.
LEMMA TicksRun ==
  ASSUME NEW c, NEW n \in Nat
  PROVE  \E after : Runs(after, c, n) /\ Eager!Ticks(c, n) = CHOOSE d \in after[n] : TRUE
<1> DEFINE after == CHOOSE f : Runs(f, c, n)
<1>1. Runs(after, c, n)
  BY RunExists
<1>2. Eager!Ticks(c, n) = CHOOSE d \in after[n] : TRUE
  BY DEF Eager!Ticks, Runs
<1> QED BY <1>1, <1>2

\* Runs from the same chip agree, and hold one chip at every clock.
LEMMA RunsAgree ==
  ASSUME NEW c, NEW n \in Nat, NEW m \in Nat, NEW f, NEW g,
         Runs(f, c, n), Runs(g, c, m), n <= m
  PROVE  \A k \in 0 .. n : f[k] = g[k] /\ \E d : f[k] = {d}
<1> DEFINE Good(k) == f[k] = g[k] /\ \E d : f[k] = {d}
           S == {k \in 0 .. n : ~ Good(k)}
<1>0. \A k \in 0 .. n : k \in 0 .. m /\ (k # 0 => k - 1 \in 0 .. n)
  OBVIOUS
<1>1. \A k \in 0 .. n :
        /\ f[k] = IF k = 0 THEN {c} ELSE {Eager!Tick(d) : d \in f[k - 1]}
        /\ g[k] = IF k = 0 THEN {c} ELSE {Eager!Tick(d) : d \in g[k - 1]}
  BY <1>0 DEF Runs
<1>2. 0 \notin S
  <2>1. 0 \in 0 .. n
    OBVIOUS
  <2>2. f[0] = {c} /\ g[0] = {c}
    BY <1>1, <2>1
  <2> QED BY <2>2
<1>3. ASSUME NEW k \in S, k # 0, k - 1 \notin S PROVE FALSE
  <2>1. k \in 0 .. n /\ k - 1 \in 0 .. n
    BY <1>0, <1>3
  <2>2. Good(k - 1)
    BY <1>3, <2>1
  <2>3. PICK d : f[k - 1] = {d}
    BY <2>2
  <2>4. f[k] = {Eager!Tick(e) : e \in f[k - 1]} /\ g[k] = {Eager!Tick(e) : e \in f[k - 1]}
    BY <1>1, <1>3, <2>1, <2>2
  <2>5. f[k] = {Eager!Tick(d)}
    BY <2>3, <2>4
  <2> QED BY <2>1, <2>4, <2>5
<1>4. S \in SUBSET Nat
  OBVIOUS
<1>5. S = {}
  <2> HIDE DEF S
  <2> QED BY <1>2, <1>3, <1>4, NoFirst
<1> QED BY <1>5

\* No clock leaves the chip as it is; one more clock is a Tick.
LEMMA TicksStep ==
  ASSUME NEW c
  PROVE  /\ Eager!Ticks(c, 0) = c
         /\ \A n \in Nat : Eager!Ticks(c, n + 1) = Eager!Tick(Eager!Ticks(c, n))
<1>1. Eager!Ticks(c, 0) = c
  <2>1. PICK f : Runs(f, c, 0) /\ Eager!Ticks(c, 0) = CHOOSE d \in f[0] : TRUE
    BY TicksRun
  <2>2. f[0] = {c}
    BY <2>1 DEF Runs
  <2> QED BY <2>1, <2>2
<1>2. ASSUME NEW n \in Nat
      PROVE  Eager!Ticks(c, n + 1) = Eager!Tick(Eager!Ticks(c, n))
  <2>0. n + 1 \in Nat /\ n <= n + 1 /\ n \in 0 .. n /\ n + 1 \in 0 .. n + 1 /\ n + 1 # 0 /\ (n + 1) - 1 = n
    OBVIOUS
  <2>1. PICK f : Runs(f, c, n) /\ Eager!Ticks(c, n) = CHOOSE d \in f[n] : TRUE
    BY TicksRun
  <2>2. PICK g : Runs(g, c, n + 1) /\ Eager!Ticks(c, n + 1) = CHOOSE d \in g[n + 1] : TRUE
    BY <2>0, TicksRun
  <2>3. \A k \in 0 .. n : f[k] = g[k] /\ \E d : f[k] = {d}
    <3>1. PICK m \in Nat : m = n + 1
      BY <2>0
    <3>2. Runs(f, c, n) /\ Runs(g, c, m) /\ n <= m
      BY <2>0, <2>1, <2>2, <3>1
    <3> QED BY ONLY <3>2, n \in Nat, m \in Nat, RunsAgree
  <2>4. PICK d : f[n] = {d}
    BY <2>0, <2>3
  <2>5. Eager!Ticks(c, n) = d
    BY <2>1, <2>4
  <2>6. g[n + 1] = {Eager!Tick(e) : e \in g[n]}
    BY <2>0, <2>2 DEF Runs
  <2>7. g[n + 1] = {Eager!Tick(d)}
    BY <2>0, <2>3, <2>4, <2>6
  <2>8. Eager!Ticks(c, n + 1) = Eager!Tick(d)
    BY <2>2, <2>7
  <2> QED BY <2>5, <2>8
<1> QED BY <1>1, <1>2

\* So many clocks, and then as many more.
LEMMA TicksAdd ==
  ASSUME NEW c, NEW a \in Nat
  PROVE  \A b \in Nat : Eager!Ticks(Eager!Ticks(c, a), b) = Eager!Ticks(c, a + b)
<1> DEFINE e == Eager!Ticks(c, a)
           S == {b \in Nat : Eager!Ticks(e, b) # Eager!Ticks(c, a + b)}
<1>1. 0 \notin S
  <2>1. Eager!Ticks(e, 0) = e /\ a + 0 = a
    BY TicksStep
  <2> QED BY <2>1
<1>2. ASSUME NEW b \in S, b # 0, b - 1 \notin S PROVE FALSE
  <2>1. b \in Nat /\ b - 1 \in Nat /\ (b - 1) + 1 = b /\ a + (b - 1) \in Nat /\ (a + (b - 1)) + 1 = a + b
    BY <1>2
  <2>2. Eager!Ticks(e, b - 1) = Eager!Ticks(c, a + (b - 1))
    BY <1>2, <2>1
  <2>3. Eager!Ticks(e, (b - 1) + 1) = Eager!Tick(Eager!Ticks(e, b - 1))
    BY <2>1, TicksStep
  <2>4. Eager!Ticks(c, (a + (b - 1)) + 1) = Eager!Tick(Eager!Ticks(c, a + (b - 1)))
    BY <2>1, TicksStep
  <2>5. Eager!Ticks(e, b) = Eager!Ticks(c, a + b)
    BY <2>1, <2>2, <2>3, <2>4
  <2> QED BY <2>5
<1>3. S \in SUBSET Nat
  OBVIOUS
<1>4. S = {}
  <2> HIDE DEF S
  <2> QED BY <1>1, <1>2, <1>3, NoFirst
<1> QED BY <1>4

-----------------------------------------------------------------------------
(* E clocks at once: CIA_update computes what they do one after another.   *)

\* What n clocks make of a chip, its bit 7 apart.
Counted(c, n) ==
  Chip(TaAfter(c, n), c.la, TbAfter(c, n), c.lb, CraAfter(c, n), CrbAfter(c, n),
       SdrAfter(c, n), IcrAfter(c, n), c.imask, c.ir)

\* No clock changes nothing, and no number of clocks more than they should.
LEMMA CountedTypes ==
  ASSUME NEW c \in Registers
  PROVE  /\ Counted(c, 0) = c
         /\ \A n \in Nat : (ARuns(c) => n <= c.ta + 1) /\ (BRuns(c) => n <= c.tb + 1) =>
               Counted(c, n) \in Registers
<1>0. /\ c.ta \in TimerValues /\ c.la \in TimerValues /\ c.tb \in TimerValues /\ c.lb \in TimerValues
      /\ c.cra \in CraValues /\ c.crb \in CrbValues /\ c.sdr_cnt \in 0 .. BITS
      /\ c.icr \subseteq Sources /\ c.imask \subseteq Sources /\ c.ir \in {0, 1}
  BY DEF Registers
<1>1. c.ta \in Nat /\ c.tb \in Nat
  BY <1>0, CiaSizes
<1>2. Counted(c, 0) = c
  <2>1. ~ AOver(c, 0) /\ ~ BOver(c, 0)
    BY <1>1 DEF AOver, BOver
  <2>2. TaAfter(c, 0) = c.ta /\ TbAfter(c, 0) = c.tb
    BY <1>1, <2>1 DEF TaAfter, TbAfter
  <2>3. SdrAfter(c, 0) = c.sdr_cnt /\ IcrAfter(c, 0) = c.icr
    BY <2>1 DEF SdrAfter, IcrAfter, Overflows, Shifts
  <2>4. CraAfter(c, 0) = c.cra /\ CrbAfter(c, 0) = c.crb
    BY <1>0, <2>1 DEF CraAfter, CrbAfter, CraValues, CrbValues
  <2> QED BY <2>2, <2>3, <2>4, ChipIs DEF Counted
<1>3. ASSUME NEW n \in Nat, ARuns(c) => n <= c.ta + 1, BRuns(c) => n <= c.tb + 1
      PROVE  Counted(c, n) \in Registers
  <2>1. Updated(c, n) \in Registers
    BY <1>3, UpdatedTypes
  <2>2. /\ TaAfter(c, n) = Updated(c, n).ta /\ TbAfter(c, n) = Updated(c, n).tb
        /\ CraAfter(c, n) = Updated(c, n).cra /\ CrbAfter(c, n) = Updated(c, n).crb
        /\ SdrAfter(c, n) = Updated(c, n).sdr_cnt /\ IcrAfter(c, n) = Updated(c, n).icr
    BY UpdatedIs DEF Chip
  <2>3. /\ TaAfter(c, n) \in TimerValues /\ TbAfter(c, n) \in TimerValues
        /\ CraAfter(c, n) \in CraValues /\ CrbAfter(c, n) \in CrbValues
        /\ SdrAfter(c, n) \in 0 .. BITS /\ IcrAfter(c, n) \subseteq Sources
    BY <2>1, <2>2 DEF Registers
  <2> QED BY <1>0, <2>3 DEF Counted, Chip, Registers
<1> QED BY <1>2, <1>3

\* A Tick is one clock counted.
LEMMA TickIs ==
  ASSUME NEW c \in Registers
  PROVE  Eager!Tick(c) = Counted(c, 1) /\ Eager!Tick(c) \in Registers
<1> DEFINE aUnder == c.cra.start = 1 /\ c.cra.cnt = 0 /\ c.ta = 0
           bPulse == \/ c.crb.inmode = "phi2"
                     \/ c.crb.inmode = "ta" /\ aUnder
           bUnder == c.crb.start = 1 /\ bPulse /\ c.tb = 0
           shifts == aUnder /\ c.cra.sp = 1 /\ c.cra.oneshot = 0 /\ c.sdr_cnt > 0
           ta == IF aUnder THEN c.la ELSE IF c.cra.start = 1 /\ c.cra.cnt = 0 THEN c.ta - 1 ELSE c.ta
           tb == IF bUnder THEN c.lb ELSE IF c.crb.start = 1 /\ bPulse THEN c.tb - 1 ELSE c.tb
           a == IF aUnder /\ c.cra.oneshot = 1 THEN 0 ELSE c.cra.start
           b == IF bUnder /\ c.crb.oneshot = 1 THEN 0 ELSE c.crb.start
           sdr == IF shifts THEN c.sdr_cnt - 1 ELSE c.sdr_cnt
           icr == c.icr \union (IF aUnder THEN {"ta"} ELSE {}) \union (IF bUnder THEN {"tb"} ELSE {})
                    \union (IF shifts /\ c.sdr_cnt = 1 THEN {"sp"} ELSE {})
<1>1. Eager!Tick(c) = Assign(c, ta, tb, a, b, sdr, icr)
  BY DEF Eager!Tick, Assign
<1>2. c.ta \in Nat /\ c.tb \in Nat
  BY CiaSizes DEF Registers
<1>3. (aUnder <=> AOver(c, 1)) /\ (bUnder <=> BOver(c, 1))
  <2>1. aUnder <=> AOver(c, 1)
    BY <1>2 DEF AOver, ARuns
  <2> HIDE DEF aUnder
  <2> QED BY <1>2, <2>1 DEF BOver, BRuns, Cascaded
<1>4. shifts <=> Shifts(c, 1)
  BY <1>3 DEF Shifts
<1>5. bPulse /\ c.crb.start = 1 <=> BRuns(c) \/ (Cascaded(c) /\ AOver(c, 1))
  BY <1>3 DEF BRuns, Cascaded
<1>6. ta = TaAfter(c, 1)
  BY <1>3 DEF TaAfter, ARuns
<1>7. tb = TbAfter(c, 1)
  BY <1>3, <1>5 DEF TbAfter
<1>8. [c.cra EXCEPT !.start = a] = CraAfter(c, 1) /\ [c.crb EXCEPT !.start = b] = CrbAfter(c, 1)
  BY <1>3 DEF CraAfter, CrbAfter
<1>9. sdr = SdrAfter(c, 1)
  BY <1>4 DEF SdrAfter
<1>10. icr = IcrAfter(c, 1)
  <2> HIDE DEF aUnder, bUnder, shifts
  <2> QED BY <1>3, <1>4 DEF IcrAfter, Overflows
<1>11. Assign(Chip(c.ta, c.la, c.tb, c.lb, c.cra, c.crb, c.sdr_cnt, c.icr, c.imask, c.ir),
              ta, tb, a, b, sdr, icr)
         = Chip(ta, c.la, tb, c.lb, [c.cra EXCEPT !.start = a], [c.crb EXCEPT !.start = b],
                sdr, icr, c.imask, c.ir)
  <2> HIDE DEF ta, tb, a, b, sdr, icr
  <2> QED BY Assigned
<1> HIDE DEF ta, tb, a, b, sdr, icr
<1>12. Eager!Tick(c) = Counted(c, 1)
  BY <1>1, <1>6, <1>7, <1>8, <1>9, <1>10, <1>11, ChipIs DEF Counted
<1>13. Counted(c, 1) \in Registers
  <2>1. 1 \in Nat /\ 1 <= c.ta + 1 /\ 1 <= c.tb + 1
    BY <1>2
  <2> QED BY <2>1, CountedTypes
<1> QED BY <1>12, <1>13

\* As long as no timer is past its underflow, so many Ticks are what CIA_update
\* works out.
LEMMA TicksAre ==
  ASSUME NEW c \in Registers, NEW n \in Nat,
         ARuns(c) => n <= c.ta + 1, BRuns(c) => n <= c.tb + 1
  PROVE  Eager!Ticks(c, n) = Counted(c, n)
<1> DEFINE S == {k \in 0 .. n : Eager!Ticks(c, k) # Counted(c, k)}
<1>0. c.ta \in Nat /\ c.tb \in Nat
  BY CiaSizes DEF Registers
<1>1. 0 \notin S
  <2>1. Eager!Ticks(c, 0) = c /\ Counted(c, 0) = c
    BY TicksStep, CountedTypes
  <2> QED BY <2>1
<1>2. ASSUME NEW k \in S, k # 0, k - 1 \notin S PROVE FALSE
  <2> DEFINE m == k - 1
             d == Counted(c, m)
  <2>1. m \in Nat /\ m + 1 = k /\ m \in 0 .. n /\ m < n /\ k \in Nat
    BY <1>2
  <2>2. Eager!Ticks(c, m) = d
    BY <1>2, <2>1
  <2>3. Eager!Ticks(c, k) = Eager!Tick(d)
    <3>1. Eager!Ticks(c, m + 1) = Eager!Tick(Eager!Ticks(c, m))
      BY <2>1, TicksStep
    <3> QED BY <2>1, <2>2, <3>1
  <2>4. /\ ARuns(c) => m <= c.ta + 1 /\ m <= c.ta
        /\ BRuns(c) => m <= c.tb + 1 /\ m <= c.tb
    BY <1>0, <2>1
  <2>5. d \in Registers
    BY <2>1, <2>4, CountedTypes
  <2>6. Eager!Tick(d) = Counted(d, 1)
    BY <2>5, TickIs
  <2>7. ~ AOver(c, m) /\ ~ BOver(c, m) /\ ~ Shifts(c, m) /\ Overflows(c, m) = {}
    <3>1. ~ AOver(c, m)
      BY <1>0, <2>1, <2>4 DEF AOver
    <3>2. ~ BOver(c, m)
      BY <1>0, <2>1, <2>4, <3>1 DEF BOver
    <3> QED BY <3>1, <3>2 DEF Shifts, Overflows
  <2>8. /\ TaAfter(c, m) = IF ARuns(c) THEN c.ta - m ELSE c.ta
        /\ TbAfter(c, m) = IF BRuns(c) THEN c.tb - m ELSE c.tb
        /\ SdrAfter(c, m) = c.sdr_cnt /\ IcrAfter(c, m) = c.icr
        /\ CraAfter(c, m) = c.cra /\ CrbAfter(c, m) = c.crb
    <3>1. CraAfter(c, m) = c.cra /\ CrbAfter(c, m) = c.crb
      BY <2>7 DEF CraAfter, CrbAfter, Registers, CraValues, CrbValues
    <3> QED BY <2>7, <3>1 DEF TaAfter, TbAfter, SdrAfter, IcrAfter
  <2>9. /\ d.ta = IF ARuns(c) THEN c.ta - m ELSE c.ta
        /\ d.tb = IF BRuns(c) THEN c.tb - m ELSE c.tb
        /\ d.la = c.la /\ d.lb = c.lb /\ d.cra = c.cra /\ d.crb = c.crb
        /\ d.sdr_cnt = c.sdr_cnt /\ d.icr = c.icr /\ d.imask = c.imask /\ d.ir = c.ir
    BY <2>8 DEF Counted, Chip
  <2> HIDE DEF d, m
  <2>10. /\ ARuns(d) <=> ARuns(c)
         /\ BRuns(d) <=> BRuns(c)
         /\ Cascaded(d) <=> Cascaded(c)
         /\ ~ (Cascaded(c) /\ BRuns(c))
    BY <2>9 DEF ARuns, BRuns, Cascaded
  <2>11. AOver(d, 1) <=> AOver(c, k)
    BY <1>0, <2>1, <2>9, <2>10 DEF AOver
  <2>12. BOver(d, 1) <=> BOver(c, k)
    <3>1. BRuns(c) => (d.tb + 1 = 1 <=> c.tb + 1 = k)
      BY <1>0, <2>1, <2>9
    <3>2. Cascaded(c) => d.tb = c.tb
      BY <2>9, <2>10
    <3> QED BY <2>10, <2>11, <3>1, <3>2 DEF BOver
  <2>13. TaAfter(d, 1) = TaAfter(c, k)
    BY <1>0, <2>1, <2>9, <2>10, <2>11 DEF TaAfter
  <2>14. TbAfter(d, 1) = TbAfter(c, k)
    BY <1>0, <2>1, <2>9, <2>10, <2>11, <2>12 DEF TbAfter
  <2>15. /\ CraAfter(d, 1) = CraAfter(c, k) /\ CrbAfter(d, 1) = CrbAfter(c, k)
    BY <2>9, <2>11, <2>12 DEF CraAfter, CrbAfter
  <2>16. Shifts(d, 1) <=> Shifts(c, k)
    BY <2>9, <2>11 DEF Shifts
  <2>17. SdrAfter(d, 1) = SdrAfter(c, k) /\ IcrAfter(d, 1) = IcrAfter(c, k)
    BY <2>9, <2>11, <2>12, <2>16 DEF SdrAfter, IcrAfter, Overflows
  <2>18. Counted(d, 1) = Counted(c, k)
    BY <2>9, <2>13, <2>14, <2>15, <2>17 DEF Counted
  <2> QED BY <2>3, <2>6, <2>18
<1>3. S \in SUBSET Nat
  OBVIOUS
<1>4. S = {}
  <2> HIDE DEF S
  <2> QED BY <1>1, <1>2, <1>3, NoFirst
<1>5. n \in 0 .. n
  OBVIOUS
<1> QED BY <1>4, <1>5

\* A chip without bit 7 of its ICR, which is no part of the timers.
Hushed(c) == [c EXCEPT !.ir = 0]

\* Ticks leave a chip a chip, and bit 7 alone.
LEMMA TicksHush ==
  ASSUME NEW c \in Registers
  PROVE  \A n \in Nat : /\ Eager!Ticks(c, n) \in Registers
                        /\ Eager!Ticks(Hushed(c), n) = Hushed(Eager!Ticks(c, n))
<1> DEFINE Good(n) == /\ Eager!Ticks(c, n) \in Registers
                      /\ Eager!Ticks(Hushed(c), n) = Hushed(Eager!Ticks(c, n))
           S == {n \in Nat : ~ Good(n)}
<1>1. ASSUME NEW d \in Registers
      PROVE  Hushed(d) \in Registers /\ Eager!Tick(Hushed(d)) = Hushed(Eager!Tick(d))
  <2> DEFINE e == Hushed(d)
  <2>1. /\ e \in Registers
        /\ e.ta = d.ta /\ e.la = d.la /\ e.tb = d.tb /\ e.lb = d.lb /\ e.cra = d.cra /\ e.crb = d.crb
        /\ e.sdr_cnt = d.sdr_cnt /\ e.icr = d.icr /\ e.imask = d.imask /\ e.ir = 0
    BY DEF Hushed, Registers
  <2>2. Eager!Tick(e) = Counted(e, 1) /\ Eager!Tick(d) = Counted(d, 1)
    BY <2>1, TickIs
  <2> HIDE DEF e
  <2>3. (AOver(e, 1) <=> AOver(d, 1)) /\ (BOver(e, 1) <=> BOver(d, 1)) /\ (Shifts(e, 1) <=> Shifts(d, 1))
    BY <2>1 DEF AOver, BOver, Shifts, ARuns, BRuns, Cascaded
  <2>4. /\ TaAfter(e, 1) = TaAfter(d, 1) /\ TbAfter(e, 1) = TbAfter(d, 1)
        /\ CraAfter(e, 1) = CraAfter(d, 1) /\ CrbAfter(e, 1) = CrbAfter(d, 1)
    BY <2>1, <2>3 DEF TaAfter, TbAfter, CraAfter, CrbAfter, ARuns, BRuns, Cascaded
  <2>5. SdrAfter(e, 1) = SdrAfter(d, 1) /\ IcrAfter(e, 1) = IcrAfter(d, 1)
    BY <2>1, <2>3 DEF SdrAfter, IcrAfter, Overflows
  <2>6. Counted(e, 1) = [Counted(d, 1) EXCEPT !.ir = 0]
    BY <2>1, <2>4, <2>5 DEF Counted, Chip
  <2> QED BY <2>1, <2>2, <2>6 DEF e, Hushed
<1>2. 0 \notin S
  <2>1. Good(0)
    BY TicksStep
  <2> QED BY <2>1
<1>3. ASSUME NEW n \in S, n # 0, n - 1 \notin S PROVE FALSE
  <2>1. n - 1 \in Nat /\ (n - 1) + 1 = n
    BY <1>3
  <2>2. Good(n - 1)
    BY <1>3, <2>1
  <2> DEFINE d == Eager!Ticks(c, n - 1)
  <2>3. d \in Registers /\ Eager!Ticks(Hushed(c), n - 1) = Hushed(d)
    BY <2>2
  <2>4. Eager!Ticks(c, n) = Eager!Tick(d) /\ Eager!Ticks(Hushed(c), n) = Eager!Tick(Hushed(d))
    <3>1. /\ Eager!Ticks(c, (n - 1) + 1) = Eager!Tick(d)
          /\ Eager!Ticks(Hushed(c), (n - 1) + 1) = Eager!Tick(Eager!Ticks(Hushed(c), n - 1))
      BY <2>1, TicksStep
    <3> HIDE DEF d
    <3> QED BY <2>1, <2>3, <3>1
  <2> HIDE DEF d
  <2>5. Good(n)
    BY <1>1, <2>3, <2>4, TickIs
  <2> QED BY <2>5
<1>4. S \in SUBSET Nat
  OBVIOUS
<1>5. S = {}
  <2> HIDE DEF S
  <2> QED BY <1>2, <1>3, <1>4, NoFirst
<1> QED BY <1>5

\* A chip whose timers do not count stays as it is.
LEMMA TicksIdle ==
  ASSUME NEW c \in Registers, ~ ARuns(c), ~ BRuns(c), NEW n \in Nat
  PROVE  Eager!Ticks(c, n) = c
<1>1. Eager!Ticks(c, n) = Counted(c, n)
  BY TicksAre
<1>2. ~ AOver(c, n) /\ ~ BOver(c, n)
  BY DEF AOver, BOver
<1>3. /\ TaAfter(c, n) = c.ta /\ TbAfter(c, n) = c.tb /\ SdrAfter(c, n) = c.sdr_cnt /\ IcrAfter(c, n) = c.icr
      /\ CraAfter(c, n) = c.cra /\ CrbAfter(c, n) = c.crb
  BY <1>2 DEF TaAfter, TbAfter, SdrAfter, IcrAfter, Overflows, Shifts, CraAfter, CrbAfter,
              Registers, CraValues, CrbValues
<1> QED BY <1>1, <1>3, ChipIs DEF Counted

\* CIA_update is what the Ticks are, with bit 7 set where it should be.
LEMMA UpdatedHushed ==
  ASSUME NEW c \in Registers, NEW n \in Nat,
         ARuns(c) => n <= c.ta + 1, BRuns(c) => n <= c.tb + 1
  PROVE  Hushed(Updated(c, n)) = Hushed(Eager!Ticks(c, n))
<1>1. Eager!Ticks(c, n) = Counted(c, n)
  BY TicksAre
<1>2. [Updated(c, n) EXCEPT !.ir = 0] = [Counted(c, n) EXCEPT !.ir = 0]
  BY UpdatedIs DEF Counted, Chip
<1> QED BY <1>1, <1>2 DEF Hushed

\* The two copies of CiaTick are one.
LEMMA SameTicks ==
  /\ \A c, n : Clock!Ticks(c, n) = Eager!Ticks(c, n)
  /\ \A c : Clock!Counts(c) <=> ARuns(c) \/ BRuns(c)
<1>1. \A c, n : Clock!Ticks(c, n) = Eager!Ticks(c, n)
  BY DEF Clock!Ticks, Eager!Ticks, Clock!Tick, Eager!Tick
<1>2. \A c : Clock!Counts(c) <=> ARuns(c) \/ BRuns(c)
  BY DEF Clock!Counts, ARuns, BRuns
<1> QED BY <1>1, <1>2

-----------------------------------------------------------------------------
(* The chips implement CiaClock: they count every clock.                   *)

Phase == ccount % DIV10
Shown == [x \in Chips |-> Hushed(Eager!Ticks(cia[x], ciaclocks))]

\* What a program sees of the chips is what CIA_update would make of them; while
\* it runs, no timer has come to its underflow.
LEMMA ShownIs ==
  ASSUME CiaIInv
  PROVE  /\ ccount \in Nat /\ ciaclocks \in Nat /\ Phase \in 0 .. DIV10 - 1
         /\ ccount = DIV10 * ciaclocks + Phase
         /\ \A x \in Chips :
              /\ cia[x] \in Registers
              /\ Eager!Ticks(cia[x], ciaclocks) = Counted(cia[x], ciaclocks)
              /\ Shown[x] = Hushed(CIA_update[x]) /\ Shown[x] \in Registers
              /\ pc = "cpu" => Overflows(cia[x], ciaclocks) = {}
<1>0. CiaTypeOK /\ ChipsArmed /\ NoneDue /\ ev_cia \in Ev /\ DIV10 \in Nat \ {0}
  BY CiaSizes DEF CiaIInv
<1>1. ccount \in Nat /\ ciaclocks \in Nat
  BY <1>0, ClocksPassed
<1>2. Phase \in 0 .. DIV10 - 1 /\ ccount = DIV10 * ciaclocks + Phase
  BY <1>0, <1>1, Quotients DEF Phase, ciaclocks
<1>3. ASSUME NEW x \in Chips
      PROVE  /\ cia[x] \in Registers
             /\ Eager!Ticks(cia[x], ciaclocks) = Counted(cia[x], ciaclocks)
             /\ Shown[x] = Hushed(CIA_update[x]) /\ Shown[x] \in Registers
             /\ pc = "cpu" => Overflows(cia[x], ciaclocks) = {}
  <2> DEFINE c == cia[x]
             n == ciaclocks
  <2>1. c \in Registers
    BY <1>0 DEF CiaTypeOK
  <2>2. /\ ARuns(c) => n <= c.ta + 1 /\ (Ahead(ev_cia) >= 1 => n <= c.ta)
        /\ BRuns(c) => n <= c.tb + 1 /\ (Ahead(ev_cia) >= 1 => n <= c.tb)
    BY <1>0, ClocksPassed
  <2>3. c.ta \in Nat /\ c.tb \in Nat
    BY <2>1, CiaSizes DEF Registers
  <2>4. pc = "cpu" /\ (ARuns(c) \/ BRuns(c)) => Ahead(ev_cia) >= 1
    <3>1. ARuns(c) \/ BRuns(c) => times # {}
      BY DEF times, Underflows
    <3> QED BY <1>0, <3>1 DEF ChipsArmed, NoneDue
  <2>5. Shown[x] = Hushed(Eager!Ticks(c, n)) /\ CIA_update[x] = Updated(c, n)
    BY DEF Shown, CIA_update
  <2> HIDE DEF c, n
  <2>6. n \in Nat
    BY <1>1 DEF n
  <2>7. Eager!Ticks(c, n) = Counted(c, n) /\ Hushed(Updated(c, n)) = Hushed(Eager!Ticks(c, n))
    BY <2>1, <2>2, <2>6, TicksAre, UpdatedHushed
  <2>8. Updated(c, n) \in Registers
    BY <2>1, <2>2, <2>6, UpdatedTypes
  <2>9. Hushed(Updated(c, n)) \in Registers
    BY <2>8 DEF Hushed, Registers
  <2>10. ASSUME pc = "cpu" PROVE Overflows(c, n) = {}
    <3>1. ~ AOver(c, n)
      BY <2>2, <2>3, <2>4, <2>6, <2>10 DEF AOver
    <3>2. ~ BOver(c, n)
      BY <2>2, <2>3, <2>4, <2>6, <2>10, <3>1 DEF BOver
    <3> QED BY <3>1, <3>2 DEF Overflows, Shifts
  <2> QED BY <2>1, <2>5, <2>7, <2>9, <2>10 DEF c, n
<1> QED BY <1>1, <1>2, <1>3

\* The cycles since the last update are those by which the first underflow has
\* come nearer.
LEMMA SinceIs ==
  ASSUME CiaIInv, times # {}
  PROVE  /\ ccount = (Min(times) - Ahead(ev_cia)) + div10
         /\ Min(times) \in Int /\ Ahead(ev_cia) \in Int
<1> DEFINE old == eventtab[ev_cia].oldcycles
           m == Min(times)
<1>0. /\ CiaTypeOK /\ ChipsArmed /\ ev_cia \in Ev /\ currcycle \in Time /\ old \in Time
      /\ Ahead(ev_cia) \in 0 .. WRAP - 1
  BY CiaSizes, CiaTableTypes DEF CiaIInv
<1>1. m \in 1 .. DIV10 * BYTE * BYTE /\ DIV10 * BYTE * BYTE \in 1 .. WRAP - 1
  BY <1>0, TimesAre, CiaSizes DEF times, CiaTypeOK
<1>2. m \in 0 .. WRAP - 1
  <2> DEFINE M == DIV10 * BYTE * BYTE
  <2> HIDE DEF m, M
  <2>1. WRAP \in Nat /\ m \in 1 .. M /\ M \in 1 .. WRAP - 1
    BY <1>1, EventSizes DEF M
  <2> QED BY <2>1
<1>3. eventtab[ev_cia].evtime = (old + m) % WRAP /\ Ahead(ev_cia) <= m
  BY <1>0 DEF ChipsArmed
<1>4. Gap(currcycle, old) = m - Gap((old + m) % WRAP, currcycle)
  <2>1. Gap((old + m) % WRAP, currcycle) <= m
    BY <1>3 DEF Ahead
  <2> HIDE DEF m, old
  <2> QED BY <1>0, <1>2, <2>1, Elapsed
<1>5. ccount = Since(old) + div10
  BY <1>0, ClocksPassed
<1> QED BY <1>0, <1>2, <1>3, <1>4, <1>5 DEF Since, Gap, Ahead

\* The same, to be used of the next state too.
LEMMA ClockAtAnyTime ==
  CiaIInv => /\ ccount \in Nat /\ ciaclocks \in Nat /\ Phase \in 0 .. DIV10 - 1
             /\ times # {} => /\ ccount = (Min(times) - Ahead(ev_cia)) + div10
                              /\ Min(times) \in Int /\ Ahead(ev_cia) \in Int
BY ShownIs, SinceIs

\* CiaClock's variables, in the terms of the chips.
LEMMA ClockVars ==
  /\ Clock!vars = <<currcycle, Phase, Shown>>
  /\ Clock!vars' = <<currcycle', Phase', Shown'>>
BY DEF Clock!vars, Phase, Shown, Hushed

\* A step on which the chips count the clocks that pass is CiaClock's Pass.
LEMMA PassIs ==
  ASSUME currcycle' # currcycle, NEW n, n = Phase + ((currcycle' - currcycle) % WRAP),
         Phase' = n % DIV10,
         Shown' = [x \in Chips |-> Eager!Ticks(Shown[x], n \div DIV10)]
  PROVE  Clock!Pass
<1>1. Shown' = [x \in Chips |-> Clock!Ticks(Shown[x], n \div DIV10)]
  BY SameTicks
<1> QED BY <1>1 DEF Clock!Pass, Shown, Phase, Hushed

\* Time passes: the chips count the clocks, or, if no timer counts, what is lost
\* is only the clock's phase.
LEMMA ClockPasses ==
  ASSUME CiaIInv, CiaIInv', UNCHANGED ciaVars, JumpToEvent \/ PassTheRest
  PROVE  [Clock!Next]_Clock!vars
<1> DEFINE q == ciaclocks
<1>0. /\ CiaTypeOK /\ ChipsArmed /\ FirstIsNext /\ DIV10 \in Nat \ {0} /\ WRAP \in Nat /\ ev_cia \in Ev
      /\ currcycle \in Time /\ nextevent \in Time /\ pc = "loop"
      /\ UNCHANGED <<nextevent, eventtab, cia, div10>> /\ times' = times
      /\ eventtab[ev_cia].evtime \in Time
  BY CiaSizes, CiaTableTypes, EventSizes DEF CiaIInv, ciaVars, JumpToEvent, PassTheRest, times
<1>1. PICK k \in 0 .. WRAP - 1 :
        /\ currcycle' = (currcycle + k) % WRAP /\ k <= Gap(nextevent, currcycle)
        /\ PassTheRest => k < Gap(nextevent, currcycle)
        /\ \A t \in Time : k <= Gap(t, currcycle) => Gap(t, currcycle') = Gap(t, currcycle) - k
  BY <1>0, TimePasses DEF CiaTypeOK
<1>2. Gap(currcycle', currcycle) = k
  BY <1>0, <1>1, Gaps
<1>3. /\ ccount \in Nat /\ q \in Nat /\ Phase \in 0 .. DIV10 - 1 /\ ccount = DIV10 * q + Phase
      /\ \A x \in Chips : cia[x] \in Registers
  BY ShownIs
<1>4. /\ times # {} => /\ ccount = (Min(times) - Ahead(ev_cia)) + div10
                       /\ Min(times) \in Int /\ Ahead(ev_cia) \in Int
      /\ Phase' \in 0 .. DIV10 - 1
      /\ times' # {} => ccount' = (Min(times') - Ahead(ev_cia)') + div10'
  <2>1. (CiaIInv => /\ Phase \in 0 .. DIV10 - 1
                    /\ times # {} => ccount = (Min(times) - Ahead(ev_cia)) + div10)'
    BY ClockAtAnyTime, PTL
  <2>2. Phase' \in 0 .. DIV10 - 1 /\ (times' # {} => ccount' = (Min(times') - Ahead(ev_cia)') + div10')
    BY <2>1
  <2> QED BY <2>2, ClockAtAnyTime
<1>5. \A x \in Chips : Shown[x] = Hushed(Eager!Ticks(cia[x], q))
  BY DEF Shown
<1>6. CASE currcycle' = currcycle
  <2>1. ccount' = ccount /\ ciaclocks' = ciaclocks
    BY <1>0, <1>6 DEF ccount, ciaclocks, Since
  <2>2. Phase' = Phase /\ Shown' = Shown
    BY <1>0, <2>1 DEF Phase, Shown
  <2> QED BY <1>6, <2>2, ClockVars
<1>7. CASE currcycle' # currcycle /\ times = {}
  <2>1. \A x \in Chips : ~ ARuns(cia[x]) /\ ~ BRuns(cia[x])
    BY <1>7 DEF times, Underflows
  <2>2. ciaclocks' \in Nat
    <3>1. (CiaIInv => ciaclocks \in Nat)'
      BY ClockAtAnyTime, PTL
    <3> QED BY <3>1
  <2>3. \A x \in Chips : Eager!Ticks(cia[x], ciaclocks) = cia[x] /\ Eager!Ticks(cia[x], ciaclocks') = cia[x]
    BY <1>3, <2>1, <2>2, TicksIdle
  <2>4. Shown = [x \in Chips |-> Hushed(cia[x])] /\ Shown' = Shown
    BY <1>0, <2>3 DEF Shown
  <2>5. \A x \in Chips : ~ Clock!Counts(Shown[x])
    <3> SUFFICES ASSUME NEW x \in Chips PROVE ~ ARuns(Hushed(cia[x])) /\ ~ BRuns(Hushed(cia[x]))
      BY <2>4, SameTicks
    <3>1. Hushed(cia[x]).cra = cia[x].cra /\ Hushed(cia[x]).crb = cia[x].crb
      BY <1>3 DEF Registers, Hushed
    <3> QED BY <2>1, <3>1 DEF ARuns, BRuns
  <2>6. Clock!Drift
    BY <1>4, <1>7, <2>4, <2>5 DEF Clock!Drift, Shown, Phase, Hushed
  <2> QED BY <2>6 DEF Clock!Next
<1>8. CASE currcycle' # currcycle /\ times # {}
  <2> DEFINE n == Phase + k
             j == n \div DIV10
             r == n % DIV10
  <2>1. Ahead(ev_cia)' = Ahead(ev_cia) - k
    <3>1. Active(ev_cia)
      BY <1>0, <1>8 DEF ChipsArmed
    <3>2. k <= Ahead(ev_cia)
      <4>1. Gap(nextevent, currcycle) <= Ahead(ev_cia)
        BY <1>0, <3>1 DEF FirstIsNext
      <4>2. Gap(nextevent, currcycle) \in 0 .. WRAP - 1
        BY <1>0, Gaps
      <4> QED BY <1>0, <1>1, <1>4, <1>8, <4>1, <4>2
    <3>3. Gap(eventtab[ev_cia].evtime, currcycle') = Gap(eventtab[ev_cia].evtime, currcycle) - k
      BY <1>0, <1>1, <3>2 DEF Ahead
    <3> QED BY <1>0, <3>3 DEF Ahead
  <2>2. ccount' = ccount + k
    <3>1. div10 \in Int /\ k \in Int
      BY <1>0, <1>1 DEF CiaTypeOK
    <3> QED BY <1>0, <1>4, <1>8, <2>1, <3>1
  <2>3. n \in Nat /\ j \in Nat /\ r \in 0 .. DIV10 - 1 /\ n = DIV10 * j + r
    <3>1. n \in Nat
      BY <1>0, <1>1, <1>3
    <3> HIDE DEF n
    <3> QED BY <1>0, <3>1, Quotients
  <2>4. ccount' = DIV10 * (q + j) + r /\ q + j \in Nat
    <3>1. DIV10 * (q + j) = DIV10 * q + DIV10 * j /\ DIV10 * q \in Int /\ DIV10 * j \in Int
      <4> HIDE DEF j, q
      <4> QED BY <1>0, <1>3, <2>3
    <3> HIDE DEF j, q, r
    <3>2. k \in Int
      BY <1>0, <1>1
    <3> QED BY <1>0, <1>3, <2>2, <2>3, <3>1, <3>2
  <2> HIDE DEF j, r, n, q
  <2>5. ciaclocks' = q + j /\ Phase' = r
    <3>1. (DIV10 * (q + j) + r) \div DIV10 = q + j /\ (DIV10 * (q + j) + r) % DIV10 = r
      BY <1>0, <2>3, <2>4, QuotientIs
    <3> QED BY <2>4, <3>1 DEF ciaclocks, Phase
  <2>6. Shown' = [x \in Chips |-> Hushed(Eager!Ticks(cia[x], q + j))]
    BY <1>0, <2>5 DEF Shown
  <2>7. ASSUME NEW x \in Chips
        PROVE  Hushed(Eager!Ticks(cia[x], q + j)) = Eager!Ticks(Shown[x], j)
    <3> DEFINE d == Eager!Ticks(cia[x], q)
    <3>1. d \in Registers
      BY <1>3, TicksHush
    <3>2. Eager!Ticks(d, j) = Eager!Ticks(cia[x], q + j)
      BY <1>3, <2>3, TicksAdd
    <3>3. Shown[x] = Hushed(d)
      BY <1>5
    <3> HIDE DEF d
    <3>4. Eager!Ticks(Hushed(d), j) = Hushed(Eager!Ticks(d, j))
      BY <2>3, <3>1, TicksHush
    <3> QED BY <3>2, <3>3, <3>4
  <2>8. Shown' = [x \in Chips |-> Eager!Ticks(Shown[x], j)]
    BY <2>6, <2>7
  <2>9. n = Phase + ((currcycle' - currcycle) % WRAP)
    BY <1>2 DEF n, Gap
  <2>10. Clock!Pass
    BY <1>8, <2>5, <2>8, <2>9, PassIs DEF j, r
  <2> QED BY <2>10 DEF Clock!Next
<1> QED BY <1>6, <1>7, <1>8

\* An access of the program or a report, seen on one chip, is CiaClock's Access.
LEMMA AccessIs ==
  ASSUME UNCHANGED currcycle, Phase' = Phase, NEW x \in Chips,
         \A y \in Chips \ {x} : Shown'[y] = Shown[y],
         \/ Clock!WritesA(Shown[x], Shown'[x]) \/ Clock!WritesB(Shown[x], Shown'[x])
         \/ Clock!ReadsIcr(Shown[x], Shown'[x]) \/ Clock!WritesMask(Shown[x], Shown'[x])
         \/ Clock!Reports(Shown[x], Shown'[x])
  PROVE  Clock!Access
<1>1. \E new \in {Shown'} : \E y \in Chips :
        /\ \A z \in Chips \ {y} : new[z] = Shown[z]
        /\ \E c \in {Shown[y]} :
              \/ Clock!WritesA(c, new[y]) \/ Clock!WritesB(c, new[y]) \/ Clock!ReadsIcr(c, new[y])
              \/ Clock!WritesMask(c, new[y]) \/ Clock!Reports(c, new[y])
  OBVIOUS
<1> QED BY <1>1 DEF Clock!Access, Shown, Phase, Hushed

\* A reset of both chips is CiaClock's Reset.
LEMMA ResetIs ==
  ASSUME UNCHANGED currcycle, Phase' = 0,
         \A x \in Chips : /\ Shown'[x].cra.start = 0 /\ Shown'[x].crb.start = 0
                          /\ Shown'[x].icr = {} /\ Shown'[x].imask = {}
  PROVE  Clock!Reset
BY DEF Clock!Reset, Shown, Phase, Hushed

\* The registers of a chip without bit 7.
LEMMA HushedIs ==
  ASSUME NEW c \in Registers
  PROVE  /\ Hushed(c) \in Registers /\ Hushed(c).ir = 0
         /\ Hushed(c).ta = c.ta /\ Hushed(c).la = c.la /\ Hushed(c).tb = c.tb /\ Hushed(c).lb = c.lb
         /\ Hushed(c).cra = c.cra /\ Hushed(c).crb = c.crb /\ Hushed(c).sdr_cnt = c.sdr_cnt
         /\ Hushed(c).icr = c.icr /\ Hushed(c).imask = c.imask
BY DEF Hushed, Registers

\* Writes to one timer leave the other as it was.
LEMMA HushedWrites ==
  ASSUME NEW c \in Registers, NEW d \in Registers
  PROVE  /\ ByA(c, d) => Clock!WritesA(Hushed(c), Hushed(d))
         /\ ByB(c, d) => Clock!WritesB(Hushed(c), Hushed(d))
<1> DEFINE e == Hushed(c)
           f == Hushed(d)
<1>1. e \in Registers /\ f \in Registers /\ e.ir = f.ir
  BY HushedIs
<1>2. ByA(c, d) => ByA(e, f)
  BY HushedIs DEF ByA
<1>3. ByB(c, d) => ByB(e, f)
  BY HushedIs DEF ByB
<1> HIDE DEF e, f
<1>4. ByA(e, f) => f = [e EXCEPT !.ta = f.ta, !.la = f.la, !.cra = f.cra, !.sdr_cnt = f.sdr_cnt]
  BY <1>1 DEF Registers, ByA
<1>5. ByB(e, f) => f = [e EXCEPT !.tb = f.tb, !.lb = f.lb, !.crb = f.crb]
  BY <1>1 DEF Registers, ByB
<1>6. (ByA(c, d) => Clock!WritesA(e, f)) /\ (ByB(c, d) => Clock!WritesB(e, f))
  BY <1>2, <1>3, <1>4, <1>5 DEF Clock!WritesA, Clock!WritesB
<1> QED BY <1>6 DEF e, f

\* After a recalculation the chips show what they hold, and the E clock is as far
\* as div10 says.
LEMMA ClockRestarts ==
  ASSUME CiaIInv, Recalculates
  PROVE  /\ UNCHANGED currcycle /\ Phase' = div10' /\ cia' \in [Chips -> Registers]
         /\ Shown' = [x \in Chips |-> Hushed(cia'[x])]
<1>1. /\ UNCHANGED currcycle /\ eventtab'[ev_cia].oldcycles = currcycle /\ div10' \in 0 .. DIV10 - 1
      /\ cia' \in [Chips -> Registers]
  BY Recalculated DEF CiaIInv
<1>2. currcycle \in Time /\ WRAP \in Nat \ {0} /\ DIV10 \in Nat \ {0} /\ DIV10 < WRAP
  <2>1. DIV10 \in Nat \ {0} /\ DIV10 * BYTE * BYTE \in 1 .. WRAP - 1 /\ 0 \in TimerValues
    BY CiaSizes DEF TimerValues
  <2>2. DIV10 * 0 + DIV10 <= DIV10 * BYTE * BYTE
    BY <2>1, CiaSizes
  <2> DEFINE M == DIV10 * BYTE * BYTE
  <2> HIDE DEF M
  <2>3. DIV10 <= M /\ M \in 1 .. WRAP - 1
    BY <2>1, <2>2 DEF M
  <2> QED BY <2>1, <2>3, CiaTableTypes, EventSizes DEF CiaIInv
<1>3. Since(eventtab[ev_cia].oldcycles)' = 0
  <2>1. (currcycle - currcycle) % WRAP = 0
    BY <1>2 DEF Time
  <2> QED BY <1>1, <2>1 DEF Since
<1>4. ccount' = div10' /\ DIV10 * 0 + div10' = div10'
  <2> DEFINE d == div10'
  <2>1. d \in Nat /\ d < WRAP
    BY <1>1, <1>2
  <2> HIDE DEF d
  <2>2. (0 + d) % WRAP = d /\ DIV10 * 0 + d = d
    BY <1>2, <2>1
  <2> QED BY <1>3, <2>2 DEF ccount, d
<1>5. ciaclocks' = 0 /\ Phase' = div10'
  <2>1. (DIV10 * 0 + div10') \div DIV10 = 0 /\ (DIV10 * 0 + div10') % DIV10 = div10'
    BY <1>1, <1>2, QuotientIs
  <2> QED BY <1>4, <2>1 DEF ciaclocks, Phase
<1>6. \A x \in Chips : Eager!Ticks(cia'[x], 0) = cia'[x]
  BY TicksStep
<1> QED BY <1>1, <1>5, <1>6 DEF Shown

\* CIA_update changes nothing that a program sees; a write changes what it writes.
LEMMA ClockWritten ==
  ASSUME CiaIInv, Recalculates
  PROVE  [Clock!Next]_Clock!vars
<1>0. CIA_update \in [Chips -> Registers]
  BY UpdateTypes DEF CiaIInv
<1>1. /\ UNCHANGED currcycle /\ Phase' = div10' /\ cia' \in [Chips -> Registers]
      /\ Shown' = [x \in Chips |-> Hushed(cia'[x])]
  BY ClockRestarts
<1>2. \A x \in Chips : Shown[x] = Hushed(CIA_update[x])
  BY ShownIs
<1>3. CASE CIA_handler
  <2>1. cia' = CIA_update /\ div10' = Phase
    BY <1>3 DEF CIA_handler, Phase
  <2>2. Shown' = Shown
    <3>1. Shown = [x \in Chips |-> Shown[x]]
      BY DEF Shown
    <3> QED BY <1>1, <1>2, <2>1, <3>1
  <2> QED BY <1>1, <2>1, <2>2, ClockVars
<1>4. CASE CIA_reset
  <2>1. cia' = [x \in Chips |-> ResetChip] /\ div10' = 0
    BY <1>4 DEF CIA_reset
  <2>2. ASSUME NEW x \in Chips
        PROVE  /\ Shown'[x].cra.start = 0 /\ Shown'[x].crb.start = 0
               /\ Shown'[x].icr = {} /\ Shown'[x].imask = {}
    <3>1. /\ cia'[x] \in Registers /\ cia'[x].cra.start = 0 /\ cia'[x].crb.start = 0
          /\ cia'[x].icr = {} /\ cia'[x].imask = {}
      BY <1>1, <2>1 DEF ResetChip
    <3>2. Shown'[x] = Hushed(cia'[x])
      BY <1>1
    <3> QED BY <3>1, <3>2, HushedIs
  <2>3. Clock!Reset
    BY <1>1, <2>1, <2>2, ResetIs
  <2> QED BY <2>3 DEF Clock!Next
<1>5. CASE Writes
  <2>1. PICK x \in Chips, c \in Registers :
          Rewrite(x, c) /\ (ByA(CIA_update[x], c) \/ ByB(CIA_update[x], c))
    BY <1>5 DEF Writes
  <2>2. cia' = [CIA_update EXCEPT ![x] = c] /\ div10' = Phase
    BY <2>1 DEF Rewrite, Phase
  <2>3. \A y \in Chips \ {x} : Shown'[y] = Shown[y]
    BY <1>0, <1>1, <1>2, <2>2
  <2>4. Shown'[x] = Hushed(c) /\ Shown[x] = Hushed(CIA_update[x]) /\ CIA_update[x] \in Registers
    BY <1>0, <1>1, <1>2, <2>2
  <2>5. Clock!WritesA(Shown[x], Shown'[x]) \/ Clock!WritesB(Shown[x], Shown'[x])
    BY <2>1, <2>4, HushedWrites
  <2>6. Clock!Access
    BY <1>1, <2>2, <2>3, <2>5, AccessIs
  <2> QED BY <2>6 DEF Clock!Next
<1> QED BY <1>3, <1>4, <1>5 DEF Recalculates

\* Chips with the same timers are counted alike: each keeps what else it holds.
LEMMA CountedAlike ==
  ASSUME NEW c \in Registers, NEW d \in Registers, NEW n,
         /\ d.ta = c.ta /\ d.la = c.la /\ d.tb = c.tb /\ d.lb = c.lb
         /\ d.cra = c.cra /\ d.crb = c.crb /\ d.sdr_cnt = c.sdr_cnt
  PROVE  Hushed(Counted(d, n))
           = Chip(TaAfter(c, n), c.la, TbAfter(c, n), c.lb, CraAfter(c, n), CrbAfter(c, n),
                  SdrAfter(c, n), d.icr \union Overflows(c, n), d.imask, 0)
<1>1. (AOver(d, n) <=> AOver(c, n)) /\ (BOver(d, n) <=> BOver(c, n)) /\ (Shifts(d, n) <=> Shifts(c, n))
  BY DEF AOver, BOver, Shifts, ARuns, BRuns, Cascaded
<1>2. /\ TaAfter(d, n) = TaAfter(c, n) /\ TbAfter(d, n) = TbAfter(c, n)
      /\ CraAfter(d, n) = CraAfter(c, n) /\ CrbAfter(d, n) = CrbAfter(c, n)
  BY <1>1 DEF TaAfter, TbAfter, CraAfter, CrbAfter, ARuns, BRuns, Cascaded
<1>3. SdrAfter(d, n) = SdrAfter(c, n) /\ IcrAfter(d, n) = d.icr \union Overflows(c, n)
  BY <1>1 DEF SdrAfter, IcrAfter, Overflows
<1> QED BY <1>2, <1>3 DEF Counted, Chip, Hushed

\* The same of the next state, to be used where both states are sound.
LEMMA ShownAtAnyTime ==
  CiaIInv => \A x \in Chips : /\ Shown[x] = Hushed(Counted(cia[x], ciaclocks))
                              /\ cia[x] \in Registers
<1> SUFFICES ASSUME CiaIInv, NEW x \in Chips
             PROVE  Shown[x] = Hushed(Counted(cia[x], ciaclocks)) /\ cia[x] \in Registers
  OBVIOUS
<1>1. Eager!Ticks(cia[x], ciaclocks) = Counted(cia[x], ciaclocks) /\ cia[x] \in Registers
  BY ShownIs
<1> QED BY <1>1 DEF Shown

\* A step that leaves the cycle and the chips' event alone.
Still == UNCHANGED <<currcycle, div10>> /\ eventtab'[ev_cia] = eventtab[ev_cia]

\* It stops no clock: the chips it does not touch show what they showed, the
\* others what they hold now, as many clocks on.
LEMMA StillIs ==
  ASSUME CiaIInv, CiaIInv', Still
  PROVE  /\ Phase' = Phase
         /\ \A x \in Chips : /\ cia'[x] = cia[x] => Shown'[x] = Shown[x]
                             /\ Shown[x] = Hushed(Counted(cia[x], ciaclocks))
                             /\ Shown'[x] = Hushed(Counted(cia'[x], ciaclocks))
                             /\ cia[x] \in Registers /\ cia'[x] \in Registers
<1>1. ccount' = ccount
  BY DEF Still, ccount, Since
<1>2. ciaclocks' = ciaclocks /\ Phase' = Phase
  BY <1>1 DEF ciaclocks, Phase
<1>3. (CiaIInv => \A x \in Chips : /\ Shown[x] = Hushed(Counted(cia[x], ciaclocks))
                                   /\ cia[x] \in Registers)'
  BY ShownAtAnyTime, PTL
<1>4. \A x \in Chips : Shown'[x] = Hushed(Counted(cia'[x], ciaclocks)) /\ cia'[x] \in Registers
  BY <1>2, <1>3
<1>5. \A x \in Chips : Shown[x] = Hushed(Counted(cia[x], ciaclocks)) /\ cia[x] \in Registers
  BY ShownAtAnyTime
<1> QED BY <1>2, <1>4, <1>5

\* The mask is assigned, and nothing else.
LEMMA MaskIs ==
  ASSUME NEW ta, NEW la, NEW tb, NEW lb, NEW cra, NEW crb, NEW sdr_cnt, NEW icr,
         NEW imask, NEW ir, NEW m
  PROVE  Chip(ta, la, tb, lb, cra, crb, sdr_cnt, icr, m, ir)
           = [Chip(ta, la, tb, lb, cra, crb, sdr_cnt, icr, imask, ir) EXCEPT !.imask = m]
BY DEF Chip

\* ICR is read, the mask written, a report made.
LEMMA ClockTouched ==
  ASSUME CiaIInv, CiaIInv', Still, NEW x \in Chips,
         \/ ReadIcr(x) \/ (\E set \in BOOLEAN : WriteMask(x, set, {"ta", "tb"})) \/ Report(x)
  PROVE  Clock!Access
<1> DEFINE c == cia[x]
           d == cia'[x]
           n == ciaclocks
           Rest(icr, imask) ==
             Chip(TaAfter(c, n), c.la, TbAfter(c, n), c.lb, CraAfter(c, n), CrbAfter(c, n),
                  SdrAfter(c, n), icr \union Overflows(c, n), imask, 0)
<1>0. /\ Phase' = Phase /\ UNCHANGED currcycle
      /\ \A y \in Chips : cia'[y] = cia[y] => Shown'[y] = Shown[y]
      /\ Shown[x] = Hushed(Counted(c, n)) /\ Shown'[x] = Hushed(Counted(d, n))
      /\ c \in Registers /\ d \in Registers
  BY StillIs DEF Still
<1>1. cia \in [Chips -> Registers]
  BY DEF CiaIInv, CiaTypeOK
<1>2. ASSUME ReadIcr(x)
      PROVE  /\ d = Rethink([c EXCEPT !.icr = {}]) /\ \A y \in Chips \ {x} : cia'[y] = cia[y]
             /\ Overflows(c, n) = {}
  <2>1. cia' = [cia EXCEPT ![x] = Rethink([c EXCEPT !.icr = {}])] /\ pc = "cpu"
    BY <1>2 DEF ReadIcr, Touch
  <2> QED BY <1>1, <2>1, ShownIs
<1>3. ASSUME Report(x)
      PROVE  /\ d = Rethink([c EXCEPT !.icr = @ \union {"flag"}])
             /\ \A y \in Chips \ {x} : cia'[y] = cia[y]
  <2>1. cia' = [cia EXCEPT ![x] = Rethink([c EXCEPT !.icr = @ \union {"flag"}])]
    BY <1>3 DEF Report, Touch
  <2> QED BY <1>1, <2>1
<1>4. ASSUME NEW set \in BOOLEAN, WriteMask(x, set, {"ta", "tb"})
      PROVE  d = [c EXCEPT !.imask = d.imask] /\ \A y \in Chips \ {x} : cia'[y] = cia[y]
  <2> DEFINE m == IF set THEN c.imask \union {"ta", "tb"} ELSE c.imask \ {"ta", "tb"}
  <2>1. cia' = [cia EXCEPT ![x].imask = m]
    BY <1>4 DEF WriteMask
  <2> HIDE DEF m
  <2>2. d = [c EXCEPT !.imask = m]
    BY <1>1, <2>1
  <2>3. d.imask = m
    BY <1>0, <2>2 DEF Registers
  <2> QED BY <1>1, <2>1, <2>2, <2>3
<1>5. ASSUME /\ d.ta = c.ta /\ d.la = c.la /\ d.tb = c.tb /\ d.lb = c.lb
             /\ d.cra = c.cra /\ d.crb = c.crb /\ d.sdr_cnt = c.sdr_cnt
      PROVE  Shown[x] = Rest(c.icr, c.imask) /\ Shown'[x] = Rest(d.icr, d.imask)
  <2>1. Hushed(Counted(d, n)) = Rest(d.icr, d.imask)
    <3> HIDE DEF c, d, n
    <3> QED BY <1>0, <1>5, CountedAlike
  <2>2. Hushed(Counted(c, n)) = Rest(c.icr, c.imask)
    <3> HIDE DEF c, n
    <3> QED BY <1>0, CountedAlike
  <2> QED BY <1>0, <2>1, <2>2
<1>6. CASE ReadIcr(x)
  <2>1. /\ d.icr = {} /\ d.imask = c.imask /\ d.ta = c.ta /\ d.la = c.la /\ d.tb = c.tb /\ d.lb = c.lb
        /\ d.cra = c.cra /\ d.crb = c.crb /\ d.sdr_cnt = c.sdr_cnt
    <3> HIDE DEF c, d, n
    <3> QED BY <1>0, <1>2, <1>6 DEF Registers, Rethink
  <2>2. Shown[x] = Rest(c.icr, c.imask) /\ Shown'[x] = Rest({}, c.imask)
    BY <1>5, <2>1
  <2>3. Rest({}, c.imask) = [Rest(c.icr, c.imask) EXCEPT !.icr = {}]
    <3> HIDE DEF c, n
    <3> QED BY <1>2, <1>6 DEF Chip
  <2> HIDE DEF Rest, c, d, n
  <2>4. Clock!ReadsIcr(Shown[x], Shown'[x])
    BY <2>2, <2>3 DEF Clock!ReadsIcr
  <2> QED BY <1>0, <1>2, <1>6, <2>4, AccessIs
<1>7. CASE Report(x)
  <2>1. /\ d.icr = c.icr \union {"flag"} /\ d.imask = c.imask
        /\ d.ta = c.ta /\ d.la = c.la /\ d.tb = c.tb /\ d.lb = c.lb
        /\ d.cra = c.cra /\ d.crb = c.crb /\ d.sdr_cnt = c.sdr_cnt
    <3> HIDE DEF c, d, n
    <3> QED BY <1>0, <1>3, <1>7 DEF Registers, Rethink
  <2>2. Shown[x] = Rest(c.icr, c.imask) /\ Shown'[x] = Rest(c.icr \union {"flag"}, c.imask)
    BY <1>5, <2>1
  <2>3. Rest(c.icr \union {"flag"}, c.imask)
          = [Rest(c.icr, c.imask) EXCEPT !.icr = @ \union {"flag"}]
    <3> HIDE DEF c, n
    <3>1. (c.icr \union {"flag"}) \union Overflows(c, n) = (c.icr \union Overflows(c, n)) \union {"flag"}
      OBVIOUS
    <3> QED BY <3>1 DEF Chip
  <2> HIDE DEF Rest, c, d, n
  <2>4. Clock!Reports(Shown[x], Shown'[x])
    BY <2>2, <2>3 DEF Clock!Reports
  <2> QED BY <1>0, <1>3, <1>7, <2>4, AccessIs
<1>8. CASE \E set \in BOOLEAN : WriteMask(x, set, {"ta", "tb"})
  <2>1. /\ d.icr = c.icr /\ d.ta = c.ta /\ d.la = c.la /\ d.tb = c.tb /\ d.lb = c.lb
        /\ d.cra = c.cra /\ d.crb = c.crb /\ d.sdr_cnt = c.sdr_cnt
        /\ \A y \in Chips \ {x} : cia'[y] = cia[y]
    <3> HIDE DEF c, d, n
    <3> QED BY <1>0, <1>4, <1>8 DEF Registers
  <2>2. Shown[x] = Rest(c.icr, c.imask) /\ Shown'[x] = Rest(c.icr, d.imask)
    BY <1>5, <2>1
  <2>3. Rest(c.icr, d.imask) = [Rest(c.icr, c.imask) EXCEPT !.imask = d.imask]
        /\ Rest(c.icr, d.imask).imask = d.imask
    <3> DEFINE m == d.imask
    <3>1. Rest(c.icr, m).imask = m
      <4> HIDE DEF c, n, m
      <4> QED BY DEF Chip
    <3>2. Rest(c.icr, m) = [Rest(c.icr, c.imask) EXCEPT !.imask = m]
      <4> DEFINE icr == c.icr \union Overflows(c, n)
                 imask == c.imask
                 This(i) == Chip(TaAfter(c, n), c.la, TbAfter(c, n), c.lb, CraAfter(c, n),
                                 CrbAfter(c, n), SdrAfter(c, n), icr, i, 0)
      <4>1. Rest(c.icr, m) = This(m) /\ Rest(c.icr, c.imask) = This(imask)
        OBVIOUS
      <4>2. This(m) = [This(imask) EXCEPT !.imask = m]
        <5> HIDE DEF icr, imask, c, n, m
        <5> QED BY DEF Chip
      <4> HIDE DEF This
      <4> QED BY <4>1, <4>2
    <3> QED BY <3>1, <3>2
  <2> HIDE DEF Rest, c, d, n
  <2>4. Clock!WritesMask(Shown[x], Shown'[x])
    BY <2>2, <2>3 DEF Clock!WritesMask
  <2> QED BY <1>0, <2>1, <2>4, AccessIs DEF c, d
<1> QED BY <1>6, <1>7, <1>8

\* INTREQ changes bit 7 only.
LEMMA ClockRethought ==
  ASSUME CiaIInv, CiaIInv', Still, NEW xs, INTREQ(xs)
  PROVE  Shown' = Shown /\ Phase' = Phase
<1>0. /\ Phase' = Phase
      /\ \A y \in Chips : /\ Shown[y] = Hushed(Counted(cia[y], ciaclocks))
                          /\ Shown'[y] = Hushed(Counted(cia'[y], ciaclocks))
                          /\ cia[y] \in Registers /\ cia'[y] \in Registers
  BY StillIs
<1>1. ASSUME NEW y \in Chips PROVE Shown'[y] = Shown[y]
  <2> DEFINE c == cia[y]
             d == cia'[y]
             n == ciaclocks
  <2>1. d = Rethink(c)
    BY DEF INTREQ
  <2>2. c \in Registers /\ d \in Registers /\ Shown[y] = Hushed(Counted(c, n)) /\ Shown'[y] = Hushed(Counted(d, n))
    BY <1>0
  <2> HIDE DEF c, d, n
  <2>3. /\ d.icr = c.icr /\ d.imask = c.imask /\ d.ta = c.ta /\ d.la = c.la /\ d.tb = c.tb
        /\ d.lb = c.lb /\ d.cra = c.cra /\ d.crb = c.crb /\ d.sdr_cnt = c.sdr_cnt
    BY <2>1, <2>2 DEF Registers, Rethink
  <2> DEFINE s == Chip(TaAfter(c, n), c.la, TbAfter(c, n), c.lb, CraAfter(c, n), CrbAfter(c, n),
                       SdrAfter(c, n), c.icr \union Overflows(c, n), c.imask, 0)
  <2>4. Hushed(Counted(d, n)) = s
    <3>1. Hushed(Counted(d, n))
            = Chip(TaAfter(c, n), c.la, TbAfter(c, n), c.lb, CraAfter(c, n), CrbAfter(c, n),
                   SdrAfter(c, n), d.icr \union Overflows(c, n), d.imask, 0)
      BY <2>2, <2>3, CountedAlike
    <3> QED BY <2>3, <3>1
  <2>5. Hushed(Counted(c, n)) = s
    BY <2>2, CountedAlike
  <2> HIDE DEF s
  <2> QED BY <2>2, <2>4, <2>5
<1> QED BY <1>0, <1>1 DEF Shown

\* Every step of the chips and of the interpreter's loop is one of CiaClock or
\* none.
LEMMA ClockStays == CiaIInv /\ CiaIInv' /\ [CiaNext]_chipVars => [Clock!Next]_Clock!vars
<1> SUFFICES ASSUME CiaIInv, CiaIInv', [CiaNext]_chipVars PROVE [Clock!Next]_Clock!vars
  OBVIOUS
<1>0. CiaTypeOK /\ ChipsArmed /\ LineRuns /\ Driven \subseteq Chips /\ ev_cia \in Ev \ {ev_hsync}
  BY CiaAssumption, CiaSizes DEF CiaIInv, CiaAssumption
<1>1. ASSUME Recalculates PROVE [Clock!Next]_Clock!vars
  BY <1>1, ClockWritten
<1>2. ASSUME NEW x \in Chips, Still,
             \/ ReadIcr(x) \/ (\E set \in BOOLEAN : WriteMask(x, set, {"ta", "tb"})) \/ Report(x)
      PROVE  [Clock!Next]_Clock!vars
  <2>1. Clock!Access
    BY <1>2, ClockTouched
  <2> QED BY <2>1 DEF Clock!Next
<1>3. ASSUME NEW xs, INTREQ(xs) PROVE [Clock!Next]_Clock!vars
  <2>1. Still /\ UNCHANGED currcycle
    BY <1>3 DEF INTREQ, Still, eventVars
  <2>2. Shown' = Shown /\ Phase' = Phase
    BY <1>3, <2>1, ClockRethought
  <2> QED BY <2>1, <2>2, ClockVars
<1>4. ASSUME UNCHANGED ciaVars, Still PROVE [Clock!Next]_Clock!vars
  <2>1. Phase' = Phase /\ UNCHANGED currcycle /\ \A x \in Chips : Shown'[x] = Shown[x]
    BY <1>4, StillIs DEF Still, ciaVars
  <2>2. Shown' = Shown
    BY <2>1 DEF Shown
  <2> QED BY <2>1, <2>2, ClockVars
<1>5. CASE CiaCpu
  <2>1. ASSUME NEW x \in Driven,
               ReadIcr(x) \/ (\E set \in BOOLEAN : WriteMask(x, set, {"ta", "tb"}))
        PROVE  [Clock!Next]_Clock!vars
    <3>1. Still
      BY <2>1 DEF ReadIcr, Touch, WriteMask, Still, eventVars
    <3> QED BY <1>0, <1>2, <2>1, <3>1
  <2>2. ASSUME NEW x \in Driven,
               \/ \E v \in 0 .. BYTE - 1 :
                     WriteTaLo(x, v) \/ WriteTaHi(x, v) \/ WriteTbLo(x, v) \/ WriteTbHi(x, v)
               \/ \E load \in BOOLEAN : \/ \E cr \in Cras : WriteCra(x, cr, load)
                                        \/ \E cr \in Crbs : WriteCrb(x, cr, load)
               \/ WriteSdr(x)
        PROVE  Recalculates
    BY <1>0, <2>2, WritesAre DEF Recalculates
  <2> QED BY <1>1, <1>3, <1>5, <2>1, <2>2 DEF CiaCpu, Recalculates
<1>6. CASE CiaTakes
  <2>1. UNCHANGED ciaVars /\ Still
    BY <1>6 DEF CiaTakes, do_cycles, Still, ciaVars
  <2> QED BY <1>4, <2>1
<1>7. CASE CIA_handler
  BY <1>1, <1>7 DEF Recalculates
<1>8. CASE CIA_hsync_handler
  <2>1. Still
    BY <1>0, <1>8, CiaLineMoves DEF Still, Quiet
  <2> QED BY <1>2, <1>4, <1>8, <2>1 DEF CIA_hsync_handler
<1>9. CASE (JumpToEvent \/ PassTheRest) /\ UNCHANGED ciaVars
  BY <1>9, ClockPasses
<1>10. CASE ScanDone /\ UNCHANGED ciaVars
  <2>1. Still
    BY <1>10 DEF ScanDone, Reschedule, Still, ciaVars
  <2> QED BY <1>4, <1>10, <2>1
<1>11. CASE UNCHANGED chipVars
  <2>1. UNCHANGED ciaVars /\ Still
    BY <1>11 DEF chipVars, Still, ciaVars, eventVars
  <2> QED BY <1>4, <2>1
<1> QED BY <1>5, <1>6, <1>7, <1>8, <1>9, <1>10, <1>11 DEF CiaNext, CiaEmulate

\* The refinement, for timers of any width, any latches and any writes: the chips,
\* which CIA_update brings up to date only when somebody looks or when a timer
\* underflows (cia.c:140-246), count every E clock.
THEOREM ChipsCountEveryClock == CiaSpec => CountsEveryClock
<1>1. CiaInit => Clock!Init
  <2> SUFFICES ASSUME CiaInit PROVE Clock!Init
    OBVIOUS
  <2>1. Phase \in 0 .. DIV10 - 1
    BY CiaInitIInv, ShownIs
  <2> QED BY <2>1 DEF Clock!Init, Phase
<1> QED BY <1>1, ClockStays, CiaInitIInv, CiaIInvStays, PTL DEF CiaSpec, CountsEveryClock, Clock!Spec
=============================================================================
